---------------------------- MODULE MCShareImport ----------------------------
(* Small instances of ShareImport. *)
EXTENDS ShareImport, TLC

CONSTANTS r1, r2, v1, v2a, v2b

MCVersionOf == [m \in Manifests |-> IF m = v1 THEN 1 ELSE 2]
PullAnd(k) == [r \in Runs |-> IF r = r1 THEN "pull" ELSE k]
PullAndAny == {PullAnd(k) : k \in {"pull", "heal", "gc"}}
HealAndHeal == {[r \in Runs |-> "heal"]}
Pairs == PullAndAny \cup HealAndHeal

=============================================================================
