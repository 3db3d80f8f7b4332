------------------------------ MODULE WriteOnce ------------------------------
(***************************************************************************)
(* What governed writes under idempotency keys promise, whatever carries    *)
(* them out: a key makes at most one memory, that memory gets at most one   *)
(* receipt, an answer that says it was written is that receipt, and only    *)
(* forgetting a key as a whole takes any of it back.                        *)
(***************************************************************************)
CONSTANTS Keys, Writes, Receipts, None

VARIABLES
    kept,    \* the keys that are not forgotten
    write,   \* what was written under each key
    receipt, \* the receipt of that write
    heard    \* the receipts the caller was answered with

promise == <<kept, write, receipt, heard>>

Init ==
    /\ kept = Keys
    /\ write = [k \in Keys |-> None]
    /\ receipt = [k \in Keys |-> None]
    /\ heard = [k \in Keys |-> {}]

Write(k) ==
    /\ write[k] = None /\ write'[k] \in Writes
    /\ write' = [write EXCEPT ![k] = write'[k]]
    /\ UNCHANGED <<kept, receipt, heard>>

Stamp(k) ==
    /\ receipt[k] = None /\ receipt'[k] \in Receipts /\ write[k] # None
    /\ receipt' = [receipt EXCEPT ![k] = receipt'[k]]
    /\ UNCHANGED <<kept, write, heard>>

Answer(k) ==
    /\ heard[k] = {} /\ heard'[k] = {receipt[k]} /\ receipt[k] # None
    /\ heard' = [heard EXCEPT ![k] = heard'[k]]
    /\ UNCHANGED <<kept, write, receipt>>

\* A forgotten key has come to nothing, and stays so.
Forget ==
    /\ kept' # kept /\ kept' \subseteq kept
    /\ write' = [k \in Keys |-> IF k \in kept' THEN write[k] ELSE None]
    /\ receipt' = [k \in Keys |-> IF k \in kept' THEN receipt[k] ELSE None]
    /\ heard' = [k \in Keys |-> IF k \in kept' THEN heard[k] ELSE {}]

Next == Forget \/ \E k \in kept : Write(k) \/ Stamp(k) \/ Answer(k)

Spec == Init /\ [][Next]_promise

=============================================================================
