-------------------------- MODULE MCPendingLedger --------------------------
(* Small instances of PendingLedger. *)
EXTENDS PendingLedger, TLC

CONSTANTS author, deleter, indexer

\* One process writes and confirms, one deletes, one runs the index job.
SplitRoles == [w \in Workers |-> CASE w = author  -> {"create", "confirm"}
                                   [] w = deleter -> {"delete"}
                                   [] OTHER       -> {"rebuild"}]

\* One process writes, deletes and runs a reconcile of its own, beside the index
\* job.
SharedRoles ==
    [w \in Workers |-> IF w = author THEN {"create", "confirm", "delete", "rebuild"}
                                     ELSE {"rebuild"}]

\* Which of the parseable contents a file holds is all the same.
Contents == Permutations(Parseable)

=============================================================================
