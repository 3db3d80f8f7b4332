------------------------------ MODULE MCCapture ------------------------------
(* Small instances of Capture. *)
EXTENDS Capture, TLC

CONSTANTS first, restamped, other, k1, k2, m1, m2, l1, l2

\* The phone re-stamped a capture under the same key; another key's capture
\* derives the same memory id.
MCKeyOf == [c \in Captures |-> IF c = other THEN k2 ELSE k1]
MCIdOf == [c \in Captures |-> IF c = restamped THEN m2 ELSE m1]
Crew(captures, listeners, revocable, most) ==
    [captures |-> captures, listeners |-> listeners, revocable |-> revocable, faults |-> most]
\* Two listeners and one key, or, without a fault, two keys whose captures collide;
\* one of them, and a device that may be revoked.
OneKeyOrOneId ==
    {Crew({first, restamped}, {l1, l2}, FALSE, MaxFaults), Crew({first, other}, {l1, l2}, FALSE, 0)}
        \cup {Crew(c, {l}, TRUE, MaxFaults) :
                 c \in {{first, restamped}, {first, other}}, l \in {l1, l2}}
ListenersAlike == Permutations(Listeners)
\* One listener, whatever the key or the id.
OneListener == {Crew(c, {l1}, TRUE, MaxFaults) : c \in {{first, restamped}, {first, other}}}

=============================================================================
