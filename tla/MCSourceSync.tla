---------------------------- MODULE MCSourceSync -----------------------------
(* Small instances of SourceSync. *)
EXTENDS SourceSync

CONSTANTS r1, r2, b1

\* Runs that rebuilds interleave with, on a short history.
Raced == [log |-> <<1>>, most |-> 2, bad |-> {}, rebuilds |-> TRUE]
\* Longer walks, with an item that may never be written.
Walks == [log |-> <<1, 2>>, most |-> 4, bad |-> {2}, rebuilds |-> FALSE]

OnlyRaced == {Raced}
OnlyWalks == {Walks}
RacedOrWalks == {Raced, Walks}

=============================================================================
