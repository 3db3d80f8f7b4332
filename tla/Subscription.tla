----------------------------- MODULE Subscription -----------------------------
(***************************************************************************)
(* What a subscription to a shared corpus promises, whatever brings it up   *)
(* to date: it serves one manifest at a time, replaced as a whole by what   *)
(* the last attempt found and never by an older version; a repair serves    *)
(* what was served; each replacement has the next number; and it reads as   *)
(* fresh only while it serves what the last attempt found.                  *)
(***************************************************************************)
EXTENDS Naturals

CONSTANTS Manifests, VersionOf, First, None

VARIABLES
    served,  \* the manifest whose corpus is served
    number,  \* how often it was published
    found,   \* what the last attempt found at the publisher, or None
    fresh    \* what the subscription reads as

subscription == <<served, number, found, fresh>>

Init == served = First /\ number = 1 /\ found = First /\ fresh = TRUE

\* An attempt begins, and knows nothing.
Begin == found' = None /\ UNCHANGED <<served, number>>

Find(m) == found = None /\ found' = m /\ UNCHANGED <<served, number>>

Publish ==
    /\ found # None /\ VersionOf[found] >= VersionOf[served]
    /\ served' = found /\ number' = number + 1 /\ UNCHANGED found

Repair == number' = number + 1 /\ UNCHANGED <<served, found>>

\* An attempt ends, or what is served is damaged.
Judge == UNCHANGED <<served, number, found>>

Next ==
    /\ Begin \/ (\E m \in Manifests : Find(m)) \/ Publish \/ Repair \/ Judge
    /\ fresh' => served' = found'

Spec == Init /\ [][Next]_subscription

=============================================================================
