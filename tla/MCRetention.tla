----------------------------- MODULE MCRetention -----------------------------
(* Small instances of Retention. *)
EXTENDS Retention

\* Every execution begins in a second of its own.
Apart == [n \in 1 .. MaxRuns |-> n]
\* Executions that a script starts at once.
AtOnce == [n \in 1 .. MaxRuns |-> 1]

Case(present, synced, job, executions, stops) ==
    [present |-> present, synced |-> synced, job |-> job, runs |-> executions, faults |-> stops]
\* Memory 3 is too young for a report, and memory 2 is history.  Two candidates
\* beside a connector or beside the index job, with an interruption, and one beside
\* both that a second execution may take.
Cases == {Case({1, 2}, {1, 2}, FALSE, 1, 1), Case({1, 2, 3}, {1, 2}, FALSE, 1, 1),
          Case({1, 2}, {}, TRUE, 1, 1), Case({1, 3}, {1}, TRUE, 2, 1)}

\* Two executions beside each other, with and without a connector.
Beside == {Case({1, 3}, {1}, FALSE, 2, 0), Case({1, 3}, {}, FALSE, 2, 0)}

=============================================================================
