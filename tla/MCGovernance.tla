---------------------------- MODULE MCGovernance ----------------------------
(* Small instances of Governance. *)
EXTENDS Governance

CONSTANTS syncer, forgetter, indexer, remover, decider, undoer, chat, att, ann, bob

\* A sync beside forgets and unforgets; a sync and its rebuild beside forgets;
\* a decision beside an undo.
Tasked == [w \in Procs |-> CASE w = syncer    -> {"sync"}
                             [] w = forgetter -> {"forget", "revoke"}
                             [] w = indexer   -> {"sync", "rebuild"}
                             [] w = remover   -> {"forget"}
                             [] w = decider   -> {"decide"}
                             [] OTHER         -> {"revoke"}]

\* att was extracted from chat, which is a conversation with ann alone or a group.
OneAttachment == [i \in Items |-> IF i = att THEN chat ELSE NoItem]
OneOrGroup == [i \in Items |->
    IF i = att THEN {[cps |-> {}, parentCps |-> {ann}]}
               ELSE {[cps |-> {ann}, parentCps |-> {}], [cps |-> {ann, bob}, parentCps |-> {}]}]

=============================================================================
