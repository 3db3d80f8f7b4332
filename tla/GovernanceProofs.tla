-------------------------- MODULE GovernanceProofs --------------------------
(***************************************************************************)
(* Theorems about Governance, for any processes, memories, people, ids and *)
(* faults.                                                                 *)
(*                                                                         *)
(* The safety of the ledger rests on the lease: only its holder is inside  *)
(* the critical section (Excluded), so the ledger it loaded, the verdict   *)
(* it reached and the matches it listed are still true when it saves,      *)
(* writes or appends (Current, Judged, Scanned).  A holder that outlives   *)
(* the TTL is reaped while it works, hence the condition Slow = {}.        *)
(*                                                                         *)
(* That a removed memory stays hidden does not rest on the lease but on    *)
(* its delete marker: the forget sets it while the file is there (Armed),  *)
(* a rebuild that noted it listed the file and so spares it (Traced,       *)
(* Spares), and once the file is gone it outlives every index that still   *)
(* shows the memory (Hidden, WillBeHidden).  A second forget of the same   *)
(* memory breaks the chain, hence the condition OneForgets.                *)
(***************************************************************************)
EXTENDS Governance, TLAPS

-----------------------------------------------------------------------------
(* Types. *)

\* A task knows what it is about.
Aimed == \A p \in Procs : /\ my[p].task = "forget" => my[p].target \in Wanted
                          /\ my[p].task = "decide" => my[p].target \in Pairs

Typed == TypeOK /\ Aimed

LEMMA BlankType == Blank \in Locals
<1>1. [i \in Items |-> NoFile] \in Vault  BY DEF Vault
<1> QED BY <1>1 DEF Blank, Locals

LEMMA ReleaseType ==
    ASSUME NEW m \in Locals, NEW next \in {"idle", "unmark", "remove", "mark"}, NEW todo \in SUBSET Items
    PROVE  [Blank EXCEPT !.op = m.op, !.todo = todo, !.then = next] \in Locals
<1> DEFINE marked == [Blank EXCEPT !.op = m.op]
           owing == [marked EXCEPT !.todo = todo]
<1>1. marked \in Locals  BY BlankType DEF Locals
<1> HIDE DEF marked
<1>2. owing \in Locals  BY <1>1 DEF Locals
<1> HIDE DEF owing
<1>3. [owing EXCEPT !.then = next] \in Locals  BY <1>2 DEF Locals
<1> QED BY <1>3 DEF marked, owing

LEMMA StepType ==
    ASSUME Typed, NEW p \in Procs, NEW s \in Steps, NEW l \in Locals, Step(p, s, l),
           l.task = "forget" => l.target \in Wanted,
           l.task = "decide" => l.target \in Pairs
    PROVE  /\ at' \in [Procs -> Steps]
           /\ my' \in [Procs -> Locals]
           /\ Aimed'
  BY DEF Typed, TypeOK, Aimed, Step

LEMMA LetGoType ==
    ASSUME Typed, NEW p \in Procs, NEW next \in {"idle", "unmark", "remove", "mark"},
           NEW todo \in SUBSET Items, LetGo(p, next, todo)
    PROVE  /\ at' \in [Procs -> Steps]
           /\ my' \in [Procs -> Locals]
           /\ Aimed'
<1> DEFINE l == [Blank EXCEPT !.op = my[p].op, !.todo = todo, !.then = next]
<1>1. my[p] \in Locals
  BY DEF Typed, TypeOK
<1>2. l \in Locals
  BY <1>1, ReleaseType
<1>3. l.task = "none"
  BY DEF Blank
<1>4. "release" \in Steps
  BY DEF Steps, HeldSteps
<1>5. Step(p, "release", l)
  BY DEF LetGo
<1> HIDE DEF l
<1> QED
  BY <1>2, <1>3, <1>4, <1>5, StepType

LEMMA GotoType ==
    ASSUME Typed, NEW p \in Procs, NEW s \in Steps, Goto(p, s)
    PROVE  /\ at' \in [Procs -> Steps]
           /\ my' \in [Procs -> Locals]
           /\ Aimed'
  BY StepType DEF Goto, Typed, TypeOK, Aimed

LEMMA OrphanedType ==
    ASSUME NEW ms \in SUBSET Marker, NEW p \in Procs
    PROVE  Orphaned(ms, p) \in SUBSET Marker
  BY DEF Orphaned, Marker

LEMMA EndType ==
    ASSUME Typed, NEW p \in Procs, End(p)
    PROVE  /\ at' \in [Procs -> Steps]
           /\ my' \in [Procs -> Locals]
           /\ Aimed'
           /\ marks' \in SUBSET Marker
<1>1. Blank.task = "none"
  BY DEF Blank
<1>2. "idle" \in Steps
  BY DEF Steps
<1>3. Step(p, "idle", Blank)
  BY DEF End
<1>4. marks' \in SUBSET Marker
  BY OrphanedType DEF End, Typed, TypeOK
<1> QED
  BY <1>1, <1>2, <1>3, <1>4, BlankType, StepType

LEMMA MarkDirtyType ==
    ASSUME Typed, NEW p \in Procs, NEW i \in Items \cup {NoItem}, MarkDirty(p, i)
    PROVE  /\ marks' \in SUBSET Marker
           /\ NewOp \in OpIds
           /\ faults' \in 0 .. MaxFaults
           /\ unmarked' \in SUBSET Items
<1>1. NewOp \in NewOps
  BY DEF MarkDirty, NewOp
<1>2. NewOp \in OpIds
  BY <1>1 DEF NewOps
<1> DEFINE m == [op |-> NewOp, item |-> i, owner |-> p, unlinked |-> FALSE]
<1>3. m \in Marker
  BY <1>2 DEF Marker
<1>4. marks' = marks \cup {m} \/ marks' = marks
  BY DEF MarkDirty
<1> HIDE DEF m
<1>5. faults' \in 0 .. MaxFaults
  BY GovernanceAssumption DEF MarkDirty, Fault, Typed, TypeOK
<1>6. unmarked' \in SUBSET Items
  BY DEF MarkDirty, Typed, TypeOK
<1> QED
  BY <1>2, <1>3, <1>4, <1>5, <1>6 DEF Typed, TypeOK

LEMMA TaskTyped == ASSUME Typed, NEW p \in Procs, Task(p) PROVE Typed'
<1>1. /\ Blank.task = "none" /\ Blank \in Locals
      /\ {"idle", "acquire", "mark"} \subseteq Steps
  BY BlankType DEF Blank, Steps, RebuildSteps
<1>2. CASE BeginSync(p)
  <2>1. PICK i \in Items : \E c \in Contents[i] :
            Step(p, "acquire", [Blank EXCEPT !.task = "sync", !.item = i, !.content = c])
    BY <1>2 DEF BeginSync
  <2>1a. PICK c \in Contents[i] :
            Step(p, "acquire", [Blank EXCEPT !.task = "sync", !.item = i, !.content = c])
    BY <2>1
  <2>2. c \in Content
    BY GovernanceAssumption
  <2> DEFINE l == [Blank EXCEPT !.task = "sync", !.item = i, !.content = c]
  <2>3. l \in Locals /\ l.task = "sync"
    BY <2>2 DEF Blank, Locals, Vault, Tasks
  <2> HIDE DEF l
  <2>4. at' \in [Procs -> Steps] /\ my' \in [Procs -> Locals] /\ Aimed'
    BY <1>1, <2>1a, <2>3, StepType DEF l
  <2> QED
    BY <1>2, <2>4 DEF BeginSync, Typed, TypeOK, index
<1>3. CASE BeginForget(p)
  <2>1. PICK t \in Wanted : Step(p, "acquire", [Blank EXCEPT !.task = "forget", !.target = t])
    BY <1>3 DEF BeginForget
  <2> DEFINE l == [Blank EXCEPT !.task = "forget", !.target = t]
  <2>2. l \in Locals /\ l.task = "forget" /\ l.target \in Wanted
    BY DEF Blank, Locals, Vault, Tasks, Targets
  <2> HIDE DEF l
  <2>3. at' \in [Procs -> Steps] /\ my' \in [Procs -> Locals] /\ Aimed'
    BY <1>1, <2>1, <2>2, StepType DEF l
  <2> QED
    BY <1>3, <2>3 DEF BeginForget, Typed, TypeOK, index
<1>4. CASE BeginDecide(p)
  <2>1. PICK t \in Pairs :
            Step(p, "acquire", [Blank EXCEPT !.task = "decide", !.target = t, !.op = NewOp])
    BY <1>4 DEF BeginDecide
  <2>2. /\ marks' \in SUBSET Marker /\ NewOp \in OpIds
        /\ faults' \in 0 .. MaxFaults /\ unmarked' \in SUBSET Items
    BY <1>4, MarkDirtyType DEF BeginDecide
  <2> DEFINE l == [Blank EXCEPT !.task = "decide", !.target = t, !.op = NewOp]
  <2>3. l \in Locals /\ l.task = "decide" /\ l.target \in Pairs
    BY <2>2 DEF Blank, Locals, Vault, Tasks, Targets
  <2> HIDE DEF l
  <2>4. at' \in [Procs -> Steps] /\ my' \in [Procs -> Locals] /\ Aimed'
    BY <1>1, <2>1, <2>3, StepType DEF l
  <2> QED
    BY <1>4, <2>2, <2>4 DEF BeginDecide, Typed, TypeOK, index
<1>5. CASE BeginRevoke(p)
  <2>1. PICK id \in EntryIds :
            Step(p, "acquire", [Blank EXCEPT !.task = "revoke", !.entry = id, !.op = NewOp])
    BY <1>5 DEF BeginRevoke
  <2>2. /\ marks' \in SUBSET Marker /\ NewOp \in OpIds
        /\ faults' \in 0 .. MaxFaults /\ unmarked' \in SUBSET Items
    BY <1>5, MarkDirtyType DEF BeginRevoke
  <2> DEFINE l == [Blank EXCEPT !.task = "revoke", !.entry = id, !.op = NewOp]
  <2>3. l \in Locals /\ l.task = "revoke"
    BY <2>2 DEF Blank, Locals, Vault, Tasks
  <2> HIDE DEF l
  <2>4. at' \in [Procs -> Steps] /\ my' \in [Procs -> Locals] /\ Aimed'
    BY <1>1, <2>1, <2>3, StepType DEF l
  <2> QED
    BY <1>5, <2>2, <2>4 DEF BeginRevoke, Typed, TypeOK, index
<1>6. CASE BeginRebuild(p)
  <2> DEFINE l == [Blank EXCEPT !.task = "rebuild"]
  <2>1. l \in Locals /\ l.task = "rebuild"
    BY DEF Blank, Locals, Vault, Tasks
  <2>2. Step(p, "mark", l)
    BY <1>6 DEF BeginRebuild
  <2> HIDE DEF l
  <2>3. at' \in [Procs -> Steps] /\ my' \in [Procs -> Locals] /\ Aimed'
    BY <1>1, <2>1, <2>2, StepType
  <2> QED
    BY <1>6, <2>3 DEF BeginRebuild, Typed, TypeOK, index
<1> QED
  BY <1>2, <1>3, <1>4, <1>5, <1>6 DEF Task

LEMMA ThenType == ASSUME Typed, NEW p \in Procs PROVE my[p].then \in Steps
  BY DEF Typed, TypeOK, Locals, Steps, RebuildSteps

LEMMA LeasingTyped == ASSUME Typed, NEW p \in Procs, Leasing(p) PROVE Typed'
<1> DEFINE Ends == End(p) \/ \E s \in Steps : Goto(p, s) /\ marks' = marks
<1>1. ASSUME Ends
      PROVE  at' \in [Procs -> Steps] /\ my' \in [Procs -> Locals] /\ Aimed' /\ marks' \in SUBSET Marker
  <2>1. CASE End(p)
    BY <2>1, EndType
  <2>2. CASE \E s \in Steps : Goto(p, s) /\ marks' = marks
    BY <2>2, GotoType DEF Typed, TypeOK
  <2> QED
    BY <1>1, <2>1, <2>2
<1>2. {"load", "unmark", "release"} \subseteq Steps
  BY DEF Steps, HeldSteps
<1>3. CASE Acquire(p)
  <2>1. at' \in [Procs -> Steps] /\ my' \in [Procs -> Locals] /\ Aimed'
    BY <1>2, <1>3, GotoType DEF Acquire
  <2> QED
    BY <1>3, <2>1 DEF Acquire, Typed, TypeOK, index, Lease
<1>4. CASE Reap(p)
  BY <1>4 DEF Reap, Typed, TypeOK, index, Aimed
<1>5. CASE GiveUp(p)
  <2>1. Ends
    BY <1>2, <1>5 DEF GiveUp
  <2> HIDE DEF Ends
  <2>2. at' \in [Procs -> Steps] /\ my' \in [Procs -> Locals] /\ Aimed' /\ marks' \in SUBSET Marker
    BY <1>1, <2>1
  <2> QED
    BY <1>5, <2>2 DEF GiveUp, Typed, TypeOK, index
<1>6. CASE Release(p)
  <2>1. Ends
    BY <1>6, ThenType DEF Release
  <2> HIDE DEF Ends
  <2>2. at' \in [Procs -> Steps] /\ my' \in [Procs -> Locals] /\ Aimed' /\ marks' \in SUBSET Marker
    BY <1>1, <2>1
  <2> QED
    BY <1>6, <2>2 DEF Release, Typed, TypeOK, index
<1>7. CASE Leak(p)
  <2>1. Ends
    BY <1>7, ThenType DEF Leak
  <2> HIDE DEF Ends
  <2>2. at' \in [Procs -> Steps] /\ my' \in [Procs -> Locals] /\ Aimed' /\ marks' \in SUBSET Marker
    BY <1>1, <2>1
  <2>3. lease' \in Lease \cup {Free} /\ faults' \in 0 .. MaxFaults
    BY <1>7, GovernanceAssumption DEF Leak, Fault, Typed, TypeOK, Lease, Free
  <2> QED
    BY <1>7, <2>2, <2>3 DEF Leak, Typed, TypeOK, index
<1>8. CASE Refuse(p)
  <2>1. Undo(p) \in {"idle", "unmark", "remove", "mark"}
    BY DEF Undo
  <2>2. at' \in [Procs -> Steps] /\ my' \in [Procs -> Locals] /\ Aimed'
    BY <1>8, <2>1, LetGoType DEF Refuse
  <2> QED
    BY <1>8, <2>2 DEF Refuse, Typed, TypeOK, index
<1> QED
  BY <1>3, <1>4, <1>5, <1>6, <1>7, <1>8 DEF Leasing

LEMMA WritingTyped == ASSUME Typed, NEW p \in Procs, Judge(p) \/ Write(p) PROVE Typed'
<1>1. at' \in [Procs -> Steps] /\ my' \in [Procs -> Locals] /\ Aimed'
  BY LetGoType, GotoType DEF Judge, Write, Steps, HeldSteps
<1>2. my[p].item \in Items \cup {NoItem} /\ my[p].content \in Content \cup {NoFile}
  BY DEF Typed, TypeOK, Locals
<1>3. CASE Judge(p)
  BY <1>1, <1>3 DEF Judge, Typed, TypeOK, index
<1>4. CASE Write(p)
  <2>1. vault' \in Vault
    BY <1>2, <1>4 DEF Write, Typed, TypeOK, Vault
  <2> QED
    BY <1>1, <1>4, <2>1 DEF Write, Typed, TypeOK, index
<1> QED
  BY <1>3, <1>4

LEMMA NewEntryType ==
    ASSUME Typed, NEW p \in Procs, my[p].task \in {"forget", "decide"}, NewIds(p) # {}
    PROVE  /\ NewEntry(p) \in Entry
           /\ NewEntry(p).id \in NewIds(p)
<1>1. (CHOOSE i \in NewIds(p) : TRUE) \in NewIds(p)
  OBVIOUS
<1>2. \A i \in NewIds(p) : i \in EntryIds
  BY DEF NewIds
<1>3. my[p].target \in Targets
  BY DEF Typed, Aimed, Targets
<1> QED
  BY <1>1, <1>2, <1>3 DEF NewEntry, Entry

LEMMA SavingTyped == ASSUME Typed, NEW p \in Procs, Saving(p) PROVE Typed'
<1>1. my[p] \in Locals /\ my[p].known \in SUBSET Entry /\ my[p].todo \in SUBSET Items
  BY DEF Typed, TypeOK, Locals
<1>2. CASE Load(p)
  <2> DEFINE l == [my[p] EXCEPT !.known = ledger]
  <2>1. /\ l \in Locals /\ l.task = my[p].task /\ l.target = my[p].target
    BY <1>1 DEF Locals, Typed, TypeOK
  <2>2. {"save", "scan"} \subseteq Steps
    BY DEF Steps, HeldSteps
  <2>3. LetGo(p, "unmark", {}) \/ \E st \in Steps : Step(p, st, l)
    BY <1>2, <2>2 DEF Load
  <2> HIDE DEF l
  <2>4. (l.task = "forget" => l.target \in Wanted) /\ (l.task = "decide" => l.target \in Pairs)
    BY <2>1 DEF Typed, Aimed
  <2>5. at' \in [Procs -> Steps] /\ my' \in [Procs -> Locals] /\ Aimed'
    BY <2>1, <2>3, <2>4, StepType, LetGoType
  <2> QED
    BY <1>2, <2>5 DEF Load, Typed, TypeOK, index
<1>3. CASE Append(p)
  <2>1. ledger' \in SUBSET Entry
    BY <1>1, <1>3, NewEntryType DEF Append
  <2>2. at' \in [Procs -> Steps] /\ my' \in [Procs -> Locals] /\ Aimed'
    BY <1>1, <1>3, LetGoType DEF Append
  <2> QED
    BY <1>3, <2>1, <2>2 DEF Append, Typed, TypeOK, index
<1>4. CASE Revoke(p)
  <2>1. \A e \in my[p].known : [e EXCEPT !.revoked = @ \/ e.id = my[p].entry] \in Entry
    BY <1>1 DEF Entry
  <2>2. ledger' \in SUBSET Entry
    BY <1>4, <2>1 DEF Revoke
  <2>3. at' \in [Procs -> Steps] /\ my' \in [Procs -> Locals] /\ Aimed'
    BY <1>4, LetGoType DEF Revoke
  <2> QED
    BY <1>4, <2>2, <2>3 DEF Revoke, Typed, TypeOK, index
<1>5. CASE SaveFails(p)
  <2>1. Undo(p) \in {"idle", "unmark", "remove", "mark"}
    BY DEF Undo
  <2>2. at' \in [Procs -> Steps] /\ my' \in [Procs -> Locals] /\ Aimed'
    BY <1>5, <2>1, LetGoType DEF SaveFails
  <2>3. faults' \in 0 .. MaxFaults
    BY <1>5, GovernanceAssumption DEF SaveFails, Fault, Typed, TypeOK
  <2> QED
    BY <1>5, <2>2, <2>3 DEF SaveFails, Typed, TypeOK, index
<1>6. CASE Unmark(p)
  <2>1. Blank.task = "none"
    BY DEF Blank
  <2>2. at' \in [Procs -> Steps] /\ my' \in [Procs -> Locals] /\ Aimed'
    BY <1>6, <2>1, BlankType, StepType DEF Unmark, Steps
  <2>3. {m \in marks : m.op # my[p].op} \in SUBSET Marker
    BY DEF Typed, TypeOK
  <2>4. marks' \in SUBSET Marker
    BY <1>6, <2>3, OrphanedType DEF Unmark
  <2> QED
    BY <1>6, <2>2, <2>4 DEF Unmark, Typed, TypeOK, index
<1> QED
  BY <1>2, <1>3, <1>4, <1>5, <1>6 DEF Saving

LEMMA ForgettingTyped == ASSUME Typed, NEW p \in Procs, Forgetting(p) PROVE Typed'
<1>1. /\ my[p] \in Locals /\ my[p].todo \in SUBSET Items /\ my[p].item \in Items \cup {NoItem}
      /\ (my[p].task = "forget" => my[p].target \in Wanted)
      /\ (my[p].task = "decide" => my[p].target \in Pairs)
  BY DEF Typed, TypeOK, Locals, Aimed
<1>2. {"save", "dirty", "unlink", "mark", "remove", "idle"} \subseteq Steps
  BY DEF Steps, HeldSteps, RebuildSteps
<1>3. Fault => faults' \in 0 .. MaxFaults
  BY GovernanceAssumption DEF Fault, Typed, TypeOK
<1>4. CASE Scan(p)
  <2> DEFINE l == [my[p] EXCEPT !.todo = Matches(my[p].target), !.tried = {}]
  <2>1. Matches(my[p].target) \in SUBSET Items
    BY DEF Matches, Present
  <2>2. l \in Locals /\ l.task = my[p].task /\ l.target = my[p].target
    BY <1>1, <2>1 DEF Locals
  <2>3. \E st \in Steps : Step(p, st, l)
    BY <1>2, <1>4 DEF Scan
  <2> HIDE DEF l
  <2>4. at' \in [Procs -> Steps] /\ my' \in [Procs -> Locals] /\ Aimed'
    BY <1>1, <2>2, <2>3, StepType
  <2> QED
    BY <1>4, <2>4 DEF Scan, Typed, TypeOK, index
<1>5. CASE MarkMatch(p)
  <2> DEFINE i == CHOOSE j \in Untried(p) : TRUE
             l == [my[p] EXCEPT !.tried = @ \cup {i}]
  <2>1. MarkDirty(p, i) /\ \E st \in Steps : Step(p, st, l)
    BY <1>2, <1>5 DEF MarkMatch
  <2>2. i \in Items
    <3>1. i \in Untried(p)
      BY <1>5 DEF MarkMatch
    <3> QED
      BY <1>1, <3>1 DEF Untried
  <2> HIDE DEF i
  <2>3. marks' \in SUBSET Marker /\ faults' \in 0 .. MaxFaults /\ unmarked' \in SUBSET Items
    BY <2>1, <2>2, MarkDirtyType
  <2>4. l \in Locals /\ l.task = my[p].task /\ l.target = my[p].target
    BY <1>1, <2>2 DEF Locals
  <2> HIDE DEF l
  <2>5. at' \in [Procs -> Steps] /\ my' \in [Procs -> Locals] /\ Aimed'
    BY <1>1, <2>1, <2>4, StepType
  <2> QED
    BY <1>5, <2>3, <2>5 DEF MarkMatch, Typed, TypeOK, index
<1>6. CASE MarkMatchFails(p)
  <2>1. at' \in [Procs -> Steps] /\ my' \in [Procs -> Locals] /\ Aimed'
    BY <1>6, LetGoType DEF MarkMatchFails
  <2> QED
    BY <1>3, <1>6, <2>1 DEF MarkMatchFails, Typed, TypeOK, index
<1>7. CASE Remove(p)
  <2>1. PICK i \in my[p].todo :
          /\ vault' = [vault EXCEPT ![i] = NoFile]
          /\ left' = left \ {i}
          /\ Step(p, "unlink", [my[p] EXCEPT !.item = i])
    BY <1>7 DEF Remove
  <2> DEFINE l == [my[p] EXCEPT !.item = i]
  <2>2. l \in Locals /\ l.task = my[p].task /\ l.target = my[p].target
    BY <1>1 DEF Locals
  <2> HIDE DEF l
  <2>3. at' \in [Procs -> Steps] /\ my' \in [Procs -> Locals] /\ Aimed'
    BY <1>1, <1>2, <2>1, <2>2, StepType DEF l
  <2>4. vault' \in Vault
    BY <2>1 DEF Typed, TypeOK, Vault
  <2> QED
    BY <1>7, <2>1, <2>3, <2>4 DEF Remove, Typed, TypeOK, index
<1>8. CASE RemoveFails(p)
  <2>1. Blank.task = "none"
    BY DEF Blank
  <2>2. at' \in [Procs -> Steps] /\ my' \in [Procs -> Locals] /\ Aimed'
    BY <1>2, <1>8, <2>1, BlankType, StepType DEF RemoveFails
  <2>3. PICK i \in my[p].todo \cap Present :
           marks' = Orphaned({m \in marks : m \notin DeleteMarks(p) \/ m.item # i}, p)
    BY <1>8 DEF RemoveFails
  <2>4. marks' \in SUBSET Marker
    BY <2>3, OrphanedType DEF Typed, TypeOK
  <2> QED
    BY <1>1, <1>3, <1>8, <2>2, <2>4 DEF RemoveFails, Typed, TypeOK, index
<1>9. CASE Unlinked(p)
  <2> DEFINE i == my[p].item
             mine == {m \in DeleteMarks(p) : m.item = i}
             l == [my[p] EXCEPT !.todo = @ \ {i}, !.item = NoItem]
  <2>1. l \in Locals /\ l.task = my[p].task /\ l.target = my[p].target
    BY <1>1 DEF Locals
  <2>2. \E st \in Steps : Step(p, st, l)
    BY <1>2, <1>9 DEF Unlinked
  <2>3. \/ marks' = (marks \ mine) \cup {[m EXCEPT !.unlinked = TRUE] : m \in mine} /\ faults' = faults
        \/ Fault /\ marks' = marks
    BY <1>9 DEF Unlinked
  <2>4. {[m EXCEPT !.unlinked = TRUE] : m \in mine} \in SUBSET Marker
    <3>1. \A m \in mine : m \in Marker
      BY DEF DeleteMarks, Typed, TypeOK
    <3>2. \A m \in Marker : [m EXCEPT !.unlinked = TRUE] \in Marker
      BY DEF Marker
    <3> HIDE DEF mine
    <3> QED
      BY <3>1, <3>2
  <2> HIDE DEF l, mine
  <2>5. at' \in [Procs -> Steps] /\ my' \in [Procs -> Locals] /\ Aimed'
    BY <1>1, <2>1, <2>2, StepType
  <2>6. marks' \in SUBSET Marker /\ faults' \in 0 .. MaxFaults
    BY <1>3, <2>3, <2>4 DEF Typed, TypeOK
  <2> QED
    BY <1>9, <2>5, <2>6 DEF Unlinked, Typed, TypeOK, index
<1> QED
  BY <1>4, <1>5, <1>6, <1>7, <1>8, <1>9 DEF Forgetting

LEMMA RebuildingTyped == ASSUME Typed, NEW p \in Procs, Rebuilding(p) PROVE Typed'
<1>1. /\ my[p] \in Locals /\ my[p].known \in SUBSET Entry /\ my[p].listed \in SUBSET Items
      /\ (my[p].task = "forget" => my[p].target \in Wanted)
      /\ (my[p].task = "decide" => my[p].target \in Pairs)
  BY DEF Typed, TypeOK, Locals, Aimed
<1>2. {"begin", "read", "commit", "retire", "idle"} \subseteq Steps /\ Blank.task = "none"
  BY DEF Steps, RebuildSteps, Blank
<1>3. CASE SelfMark(p)
  <2>1. at' \in [Procs -> Steps] /\ my' \in [Procs -> Locals] /\ Aimed'
    BY <1>2, <1>3, BlankType, StepType DEF SelfMark
  <2>2. marks' \in SUBSET Marker /\ faults' \in 0 .. MaxFaults /\ unmarked' \in SUBSET Items
    BY <1>3, MarkDirtyType DEF SelfMark
  <2> QED
    BY <1>3, <2>1, <2>2 DEF SelfMark, Typed, TypeOK, index
<1>4. CASE RebuildBegin(p)
  <2> DEFINE l == [my[p] EXCEPT !.noted = marks, !.listed = Present]
  <2>1. l \in Locals /\ l.task = my[p].task /\ l.target = my[p].target
    BY <1>1 DEF Locals, Present, Typed, TypeOK
  <2>2. Step(p, "read", l)
    BY <1>4 DEF RebuildBegin
  <2> HIDE DEF l
  <2>3. at' \in [Procs -> Steps] /\ my' \in [Procs -> Locals] /\ Aimed'
    BY <1>1, <1>2, <2>1, <2>2, StepType
  <2> QED
    BY <1>4, <2>3 DEF RebuildBegin, Typed, TypeOK, index
<1>5. CASE RebuildRead(p)
  <2> DEFINE l == [my[p] EXCEPT !.known = ledger, !.seen = vault]
  <2>1. l \in Locals /\ l.task = my[p].task /\ l.target = my[p].target
    BY <1>1 DEF Locals, Typed, TypeOK
  <2>2. Step(p, "commit", l)
    BY <1>5 DEF RebuildRead
  <2> HIDE DEF l
  <2>3. at' \in [Procs -> Steps] /\ my' \in [Procs -> Locals] /\ Aimed'
    BY <1>1, <1>2, <2>1, <2>2, StepType
  <2> QED
    BY <1>5, <2>3 DEF RebuildRead, Typed, TypeOK, index
<1>6. CASE RebuildCommit(p)
  <2>1. at' \in [Procs -> Steps] /\ my' \in [Procs -> Locals] /\ Aimed'
    BY <1>2, <1>6, GotoType DEF RebuildCommit
  <2>2. Parsed(p) \in SUBSET Items /\ Decisions(my[p].known) \in SUBSET Entry
    BY <1>1 DEF Parsed, Decisions
  <2> QED
    BY <1>6, <2>1, <2>2 DEF RebuildCommit, Typed, TypeOK, index
<1>7. CASE Retire(p)
  <2>1. at' \in [Procs -> Steps] /\ my' \in [Procs -> Locals] /\ Aimed'
    BY <1>2, <1>7, BlankType, StepType DEF Retire
  <2> DEFINE retired == {m.op : m \in {n \in my[p].noted : Retirable(p, n)}}
  <2>2. marks' = Orphaned({m \in marks : m.op \notin retired}, p)
    BY <1>7 DEF Retire
  <2> HIDE DEF retired
  <2>3. marks' \in SUBSET Marker
    BY <2>2, OrphanedType DEF Typed, TypeOK
  <2> QED
    BY <1>7, <2>1, <2>3 DEF Retire, Typed, TypeOK, index
<1> QED
  BY <1>3, <1>4, <1>5, <1>6, <1>7 DEF Rebuilding

LEMMA CrashTyped == ASSUME Typed, NEW p \in Procs, Crash(p) PROVE Typed'
<1>1. at' \in [Procs -> Steps] /\ my' \in [Procs -> Locals] /\ Aimed' /\ marks' \in SUBSET Marker
  BY EndType DEF Crash
<1>2. faults' \in 0 .. MaxFaults
  BY GovernanceAssumption DEF Crash, Fault, Typed, TypeOK
<1>3. lease' \in Lease \cup {Free}
  BY GovernanceAssumption DEF Crash, Typed, TypeOK, Lease, Free
<1>4. left' \in SUBSET Items
  BY DEF Crash, Owing, Typed, TypeOK, Locals
<1>5. tx' \in Procs \cup {Nobody}
  BY DEF Crash, Typed, TypeOK
<1> QED
  BY <1>1, <1>2, <1>3, <1>4, <1>5 DEF Crash, Typed, TypeOK

LEMMA ExpireTyped == ASSUME Typed, Expire PROVE Typed'
<1>1. lease' \in Lease \cup {Free}
  BY DEF Expire, Typed, TypeOK, Lease, Free
<1> QED
  BY <1>1 DEF Expire, Typed, TypeOK, Aimed, index

LEMMA NextTyped == ASSUME Typed, [Next]_vars PROVE Typed'
<1>1. CASE UNCHANGED vars
  BY <1>1 DEF Typed, TypeOK, Aimed, vars
<1>2. CASE Next
  BY <1>2, TaskTyped, LeasingTyped, WritingTyped, SavingTyped, ForgettingTyped,
     RebuildingTyped, CrashTyped, ExpireTyped DEF Next, Process
<1> QED
  BY <1>1, <1>2

LEMMA InitTyped == Init => Typed
  BY BlankType, GovernanceAssumption
     DEF Init, Typed, TypeOK, Aimed, Blank, Vault, Steps, Free

\* Every handler (sync, forget, decision, revocation, rebuild) leaves the files, the
\* index and the processes in their types, whatever the lease's timing (TypeOK).
THEOREM TypeCorrect == Spec => []TypeOK
<1>1. Typed => TypeOK
  BY DEF Typed
<1> QED
  BY <1>1, InitTyped, NextTyped, PTL DEF Spec

-----------------------------------------------------------------------------
(* The lease excludes, as long as nobody outlives its TTL. *)

Excluded == \A p \in Procs : at[p] \in HeldSteps => lease.holder = p /\ ~lease.expired

\* The ledger in hand between a load and its save is the ledger on disk.
Current == \A p \in Procs : at[p] \in {"scan", "dirty", "save"} => my[p].known = ledger

Judged == \A p \in Procs :
    at[p] = "write" => ~Suppresses(ledger, my[p].item, my[p].content)

\* No match appears between the scan and the append.
Scanned == \A p \in Procs :
    at[p] \in {"dirty", "save"} /\ my[p].task = "forget" => Matches(my[p].target) \subseteq my[p].todo

Emptied == \A p \in Procs : at[p] = "release" /\ my[p].then # "remove" => my[p].todo = {}

IInv == Typed /\ Excluded /\ Current /\ Judged /\ Scanned /\ Emptied /\ ForgottenIsOwed

LEMMA Bystander ==
    ASSUME Typed, NEW p \in Procs, Process(p), NEW q \in Procs, q # p
    PROVE  at'[q] = at[q] /\ my'[q] = my[q]
<1>1. (\E s, l : Step(p, s, l)) \/ UNCHANGED <<at, my>>
  <2>1. CASE Task(p)
    BY <2>1 DEF Task, BeginSync, BeginForget, BeginDecide, BeginRevoke, BeginRebuild
  <2>2. CASE Leasing(p)
    BY <2>2 DEF Leasing, Acquire, Reap, GiveUp, Release, Leak, Refuse, Goto, LetGo, End
  <2>3. CASE Judge(p) \/ Write(p)
    BY <2>3 DEF Judge, Write, Goto, LetGo
  <2>4. CASE Saving(p)
    BY <2>4 DEF Saving, Load, Append, Revoke, SaveFails, Unmark, LetGo
  <2>5. CASE Forgetting(p)
    BY <2>5 DEF Forgetting, Scan, MarkMatch, MarkMatchFails, Remove, RemoveFails, Unlinked, Goto, LetGo
  <2>6. CASE Rebuilding(p)
    BY <2>6 DEF Rebuilding, SelfMark, RebuildBegin, RebuildRead, RebuildCommit, Retire, Goto
  <2>7. CASE Crash(p)
    BY <2>7 DEF Crash, End
  <2> QED
    BY <2>1, <2>2, <2>3, <2>4, <2>5, <2>6, <2>7 DEF Process
<1> QED
  BY <1>1 DEF Step, Typed, TypeOK

LEMMA LetGoRelease ==
    ASSUME Typed, NEW p \in Procs, NEW next, NEW todo, LetGo(p, next, todo)
    PROVE  at'[p] = "release" /\ my'[p].then = next /\ my'[p].todo = todo /\ my'[p].item = NoItem
  BY DEF LetGo, Step, Blank, Typed, TypeOK

\* The ways to be inside the critical section after a step.
LEMMA Inside ==
    ASSUME Typed, NEW p \in Procs, Process(p), at'[p] \in HeldSteps
    PROVE  \/ Acquire(p) /\ at'[p] = "load"
           \/ /\ at[p] \in HeldSteps /\ lease' = lease /\ at'[p] = "release"
              /\ my'[p].then # "remove" => my'[p].todo = {}
           \/ Judge(p) /\ at'[p] = "write"
           \/ Load(p) /\ at'[p] \in {"scan", "save"} /\ my'[p] = [my[p] EXCEPT !.known = ledger]
           \/ Scan(p)
           \/ MarkMatch(p)
<1> USE DEF HeldSteps
<1>1. CASE Task(p)
  BY <1>1 DEF Task, BeginSync, BeginForget, BeginDecide, BeginRevoke, BeginRebuild, Step, Typed, TypeOK
<1>2. CASE Leasing(p)
  <2>1. CASE Acquire(p)
    BY <2>1 DEF Acquire, Goto, Step, Typed, TypeOK
  <2>2. CASE Refuse(p)
    <3>1. at[p] \in HeldSteps /\ lease' = lease /\ LetGo(p, Undo(p), {})
      BY <2>2 DEF Refuse
    <3> QED
      BY <3>1, LetGoRelease
  <2>3. CASE Release(p) \/ Leak(p)
    BY <2>3 DEF Release, Leak, Goto, End, Step, Typed, TypeOK, Locals
  <2>4. CASE Reap(p) \/ GiveUp(p)
    BY <2>4 DEF Reap, GiveUp, Goto, End, Step, Typed, TypeOK
  <2> QED
    BY <1>2, <2>1, <2>2, <2>3, <2>4 DEF Leasing
<1>3. CASE Judge(p)
  <2>1. CASE LetGo(p, "idle", {})
    BY <1>3, <2>1, LetGoRelease DEF Judge
  <2>2. CASE Goto(p, "write")
    BY <1>3, <2>2 DEF Goto, Step, Typed, TypeOK
  <2> QED
    BY <1>3, <2>1, <2>2 DEF Judge
<1>4. CASE Write(p)
  <2>1. at[p] \in HeldSteps /\ lease' = lease /\ LetGo(p, "idle", {})
    BY <1>4 DEF Write
  <2> QED
    BY <2>1, LetGoRelease
<1>5. CASE Saving(p)
  <2>1. CASE Load(p)
    <3>1. CASE LetGo(p, "unmark", {})
      BY <2>1, <3>1, LetGoRelease DEF Load
    <3>2. CASE Step(p, IF my[p].task = "forget" THEN "scan" ELSE "save", [my[p] EXCEPT !.known = ledger])
      BY <2>1, <3>2 DEF Step, Typed, TypeOK
    <3> QED
      BY <2>1, <3>1, <3>2 DEF Load
  <2>2. CASE Append(p)
    <3>1. at[p] \in HeldSteps /\ lease' = lease
          /\ LetGo(p, IF my[p].todo = {} THEN "mark" ELSE "remove", my[p].todo)
      BY <2>2 DEF Append
    <3> QED
      BY <3>1, LetGoRelease
  <2>3. CASE Revoke(p)
    <3>1. at[p] \in HeldSteps /\ lease' = lease /\ LetGo(p, "mark", {})
      BY <2>3 DEF Revoke
    <3> QED
      BY <3>1, LetGoRelease
  <2>4. CASE SaveFails(p)
    <3>1. at[p] \in HeldSteps /\ lease' = lease /\ LetGo(p, Undo(p), {})
      BY <2>4 DEF SaveFails
    <3> QED
      BY <3>1, LetGoRelease
  <2>5. CASE Unmark(p)
    BY <2>5 DEF Unmark, Step, Typed, TypeOK
  <2> QED
    BY <1>5, <2>1, <2>2, <2>3, <2>4, <2>5 DEF Saving
<1>6. CASE Forgetting(p)
  <2>1. CASE Scan(p) \/ MarkMatch(p)
    BY <2>1
  <2>2. CASE MarkMatchFails(p)
    <3>1. at[p] \in HeldSteps /\ lease' = lease /\ LetGo(p, "idle", {})
      BY <2>2 DEF MarkMatchFails
    <3> QED
      BY <3>1, LetGoRelease
  <2>3. CASE Remove(p) \/ RemoveFails(p) \/ Unlinked(p)
    BY <2>3 DEF Remove, RemoveFails, Unlinked, Step, Typed, TypeOK
  <2> QED
    BY <1>6, <2>1, <2>2, <2>3 DEF Forgetting
<1>7. CASE Rebuilding(p)
  BY <1>7 DEF Rebuilding, SelfMark, RebuildBegin, RebuildRead, RebuildCommit, Retire, Goto, Step,
              Typed, TypeOK
<1>8. CASE Crash(p)
  BY <1>8 DEF Crash, End, Step, Typed, TypeOK
<1> QED
  BY <1>1, <1>2, <1>3, <1>4, <1>5, <1>6, <1>7, <1>8 DEF Process

LEMMA LedgerWriter ==
    ASSUME NEW p \in Procs, Process(p), ledger' # ledger
    PROVE  Append(p) \/ Revoke(p)
  BY DEF Process, Task, BeginSync, BeginForget, BeginDecide, BeginRevoke, BeginRebuild,
         Leasing, Acquire, Reap, GiveUp, Release, Leak, Refuse, Judge, Write,
         Saving, Load, SaveFails, Unmark,
         Forgetting, Scan, MarkMatch, MarkMatchFails, Remove, RemoveFails, Unlinked,
         Rebuilding, SelfMark, RebuildBegin, RebuildRead, RebuildCommit, Retire, Crash

LEMMA VaultWriter ==
    ASSUME NEW p \in Procs, Process(p), vault' # vault
    PROVE  Write(p) \/ Remove(p)
  BY DEF Process, Task, BeginSync, BeginForget, BeginDecide, BeginRevoke, BeginRebuild,
         Leasing, Acquire, Reap, GiveUp, Release, Leak, Refuse, Judge,
         Saving, Load, Append, Revoke, SaveFails, Unmark,
         Forgetting, Scan, MarkMatch, MarkMatchFails, RemoveFails, Unlinked,
         Rebuilding, SelfMark, RebuildBegin, RebuildRead, RebuildCommit, Retire, Crash

LEMMA LeaseWriter ==
    ASSUME NEW p \in Procs, Process(p), lease' # lease
    PROVE  Acquire(p) \/ Reap(p) \/ Release(p) \/ Leak(p) \/ Crash(p)
  BY DEF Process, Task, BeginSync, BeginForget, BeginDecide, BeginRevoke, BeginRebuild,
         Leasing, GiveUp, Refuse, Judge, Write,
         Saving, Load, Append, Revoke, SaveFails, Unmark,
         Forgetting, Scan, MarkMatch, MarkMatchFails, Remove, RemoveFails, Unlinked,
         Rebuilding, SelfMark, RebuildBegin, RebuildRead, RebuildCommit, Retire

\* While q holds the lease, nobody else saves or writes.
LEMMA Alone ==
    ASSUME Typed, Excluded, NEW p \in Procs, NEW q \in Procs, q # p, Process(p),
           at[q] \in HeldSteps
    PROVE  /\ ledger' = ledger
           /\ vault' = vault \/ Remove(p)
           /\ lease' = lease
<1>1. at[p] \notin HeldSteps /\ lease.holder = q /\ ~lease.expired
  BY DEF Excluded
<1>2. ledger' = ledger
  BY <1>1, LedgerWriter DEF Append, Revoke, HeldSteps
<1>3. vault' = vault \/ Remove(p)
  BY <1>1, VaultWriter DEF Write, HeldSteps
<1>4. lease' = lease
  BY <1>1, LeaseWriter, GovernanceAssumption
     DEF Acquire, Reap, Release, Leak, Crash, Free, HeldSteps
<1> QED
  BY <1>2, <1>3, <1>4

LEMMA ExcludedStep ==
    ASSUME Typed, Excluded, NEW p \in Procs, Process(p)
    PROVE  Excluded'
<1> SUFFICES ASSUME NEW q \in Procs, at'[q] \in HeldSteps
             PROVE  lease'.holder = q /\ ~lease'.expired
  BY DEF Excluded
<1>1. CASE q # p
  <2>1. at[q] \in HeldSteps
    BY <1>1, Bystander
  <2> QED
    BY <1>1, <2>1, Alone DEF Excluded
<1>2. CASE q = p
  <2>1. CASE Acquire(p)
    BY <1>2, <2>1 DEF Acquire
  <2>2. CASE at[p] \in HeldSteps /\ lease' = lease
    BY <1>2, <2>2 DEF Excluded
  <2>3. Judge(p) \/ Load(p) \/ Scan(p) \/ MarkMatch(p) => at[p] \in HeldSteps /\ lease' = lease
    BY DEF Judge, Load, Scan, MarkMatch, HeldSteps
  <2> QED
    BY <1>2, <2>1, <2>2, <2>3, Inside
<1> QED
  BY <1>1, <1>2

LEMMA CurrentStep ==
    ASSUME Typed, Excluded, Current, NEW p \in Procs, Process(p)
    PROVE  Current'
<1> SUFFICES ASSUME NEW q \in Procs, at'[q] \in {"scan", "dirty", "save"}
             PROVE  my'[q].known = ledger'
  BY DEF Current
<1>1. CASE q # p
  <2>1. at'[q] = at[q] /\ my'[q] = my[q]
    BY <1>1, Bystander
  <2>2. at[q] \in HeldSteps
    BY <2>1 DEF HeldSteps
  <2> QED
    BY <1>1, <2>1, <2>2, Alone DEF Current
<1>2. CASE q = p
  <2>1. at'[p] \in HeldSteps
    BY <1>2 DEF HeldSteps
  <2>2. CASE Load(p) /\ my'[p] = [my[p] EXCEPT !.known = ledger]
    BY <1>2, <2>2 DEF Load, Typed, TypeOK, Locals
  <2>3. CASE Scan(p)
    BY <1>2, <2>3 DEF Scan, Step, Current, Typed, TypeOK, Locals
  <2>4. CASE MarkMatch(p)
    BY <1>2, <2>4 DEF MarkMatch, Goto, Step, Current, Typed, TypeOK, Locals
  <2> QED
    BY <1>2, <2>1, <2>2, <2>3, <2>4, Inside
<1> QED
  BY <1>1, <1>2

LEMMA JudgedStep ==
    ASSUME Typed, Excluded, Judged, NEW p \in Procs, Process(p)
    PROVE  Judged'
<1> SUFFICES ASSUME NEW q \in Procs, at'[q] = "write"
             PROVE  ~Suppresses(ledger', my'[q].item, my'[q].content)
  BY DEF Judged, Suppresses, ActiveSuppress
<1>1. CASE q # p
  <2>1. at'[q] = at[q] /\ my'[q] = my[q]
    BY <1>1, Bystander
  <2>2. at[q] \in HeldSteps
    BY <2>1 DEF HeldSteps
  <2>3. ledger' = ledger
    BY <1>1, <2>2, Alone
  <2> QED
    BY <2>1, <2>3 DEF Judged
<1>2. CASE q = p
  <2>1. at'[p] \in HeldSteps
    BY <1>2 DEF HeldSteps
  <2>2. CASE Judge(p)
    <3>1. CASE LetGo(p, "idle", {})
      BY <1>2, <3>1, LetGoRelease
    <3>2. CASE Goto(p, "write") /\ ~Suppresses(ledger, my[p].item, my[p].content)
      BY <1>2, <2>2, <3>2 DEF Judge, Goto, Step, Typed, TypeOK
    <3> QED
      BY <2>2, <3>1, <3>2 DEF Judge
  <2>3. CASE Scan(p)
    BY <1>2, <2>3 DEF Scan, Step, Typed, TypeOK
  <2>4. CASE MarkMatch(p)
    BY <1>2, <2>4 DEF MarkMatch, Goto, Step, Typed, TypeOK
  <2> QED
    BY <1>2, <2>1, <2>2, <2>3, <2>4, Inside
<1> QED
  BY <1>1, <1>2

LEMMA ScannedStep ==
    ASSUME Typed, Excluded, Scanned, NEW p \in Procs, Process(p)
    PROVE  Scanned'
<1> SUFFICES ASSUME NEW q \in Procs, at'[q] \in {"dirty", "save"}, my'[q].task = "forget",
                    NEW i \in Items, vault'[i] # NoFile, Covers(my'[q].target, i, vault'[i])
             PROVE  i \in my'[q].todo
  BY DEF Scanned, Matches, Present, Covers
<1>1. CASE q # p
  <2>1. at'[q] = at[q] /\ my'[q] = my[q]
    BY <1>1, Bystander
  <2>2. at[q] \in HeldSteps
    BY <2>1 DEF HeldSteps
  <2>3. vault'[i] = vault[i]
    BY <1>1, <2>2, Alone DEF Remove, Typed, TypeOK, Vault
  <2>4. i \in Matches(my[q].target)
    BY <2>1, <2>3 DEF Matches, Present
  <2> QED
    BY <2>1, <2>4 DEF Scanned
<1>2. CASE q = p
  <2>1. at'[p] \in HeldSteps
    BY <1>2 DEF HeldSteps
  <2>2. CASE Load(p) /\ my'[p] = [my[p] EXCEPT !.known = ledger]
    <3>1. my[p].task = "forget"
      BY <1>2, <2>2 DEF Typed, TypeOK, Locals
    <3>2. CASE LetGo(p, "unmark", {})
      BY <1>2, <3>2, LetGoRelease
    <3>3. CASE Step(p, "scan", [my[p] EXCEPT !.known = ledger])
      BY <1>2, <3>3 DEF Step, Typed, TypeOK
    <3> QED
      BY <2>2, <3>1, <3>2, <3>3 DEF Load
  <2>3. CASE Scan(p)
    <3>1. /\ my'[p] = [my[p] EXCEPT !.todo = Matches(my[p].target), !.tried = {}]
          /\ vault' = vault
      BY <2>3 DEF Scan, Step, Typed, TypeOK
    <3>2. my'[p].target = my[p].target /\ my'[p].todo = Matches(my[p].target)
      BY <3>1 DEF Typed, TypeOK, Locals
    <3> QED
      BY <1>2, <3>1, <3>2 DEF Matches, Present
  <2>4. CASE MarkMatch(p)
    <3> DEFINE j == CHOOSE x \in Untried(p) : TRUE
    <3>0. my'[p] = [my[p] EXCEPT !.tried = @ \cup {j}] /\ vault' = vault /\ at[p] = "dirty"
      BY <2>4 DEF MarkMatch, Step, Typed, TypeOK
    <3> HIDE DEF j
    <3>1. /\ my'[p].task = my[p].task /\ my'[p].target = my[p].target /\ my'[p].todo = my[p].todo
          /\ vault' = vault /\ at[p] = "dirty"
      BY <3>0 DEF Typed, TypeOK, Locals
    <3>2. i \in Matches(my[p].target)
      BY <1>2, <3>1 DEF Matches, Present
    <3> QED
      BY <1>2, <3>1, <3>2 DEF Scanned
  <2> QED
    BY <1>2, <2>1, <2>2, <2>3, <2>4, Inside
<1> QED
  BY <1>1, <1>2

LEMMA EmptiedStep ==
    ASSUME Typed, Emptied, NEW p \in Procs, Process(p)
    PROVE  Emptied'
<1> SUFFICES ASSUME NEW q \in Procs, at'[q] = "release", my'[q].then # "remove"
             PROVE  my'[q].todo = {}
  BY DEF Emptied
<1>1. CASE q # p
  BY <1>1, Bystander DEF Emptied
<1>2. CASE q = p
  <2>1. at'[p] \in HeldSteps
    BY <1>2 DEF HeldSteps
  <2>2. CASE Scan(p) \/ MarkMatch(p)
    BY <1>2, <2>2 DEF Scan, MarkMatch, Goto, Step, Typed, TypeOK
  <2> QED
    BY <1>2, <2>1, <2>2, Inside
<1> QED
  BY <1>1, <1>2

-----------------------------------------------------------------------------
(* What is suppressed and still there is owed a removal. *)

Removing == {"release", "remove", "unlink"}

\* Outside the actions of a forget that has appended, nothing is owed.
LEMMA NothingOwed == ASSUME NEW p \in Procs, at[p] \notin Removing PROVE Owing(p) = {}
  BY DEF Owing, Removing

\* A removal still owed stays owed, is done, or is left behind.
LEMMA StillOwed ==
    ASSUME IInv, NEW p \in Procs, Process(p), NEW q \in Procs, NEW i \in Owing(q)
    PROVE  i \in left' \/ vault'[i] = NoFile \/ i \in Owing(q)'
<1>0. Typed /\ Emptied /\ i \in Items /\ i \in my[q].todo /\ i # my[q].item /\ at[q] \in Removing
      /\ i # NoItem /\ my[q] \in Locals
  BY GovernanceAssumption DEF IInv, Typed, TypeOK, Locals, Owing, Removing
<1>1. CASE q # p
  BY <1>0, <1>1, Bystander DEF Owing
<1>2. CASE q = p
  <2>1. CASE at[p] = "release"
    <3>1. CASE Release(p) \/ Leak(p)
      <4>1. my[p].then = "remove"
        BY <1>0, <1>2, <2>1 DEF Emptied
      <4>2. Goto(p, "remove")
        BY <3>1, <4>1 DEF Release, Leak
      <4>3. at'[p] = "remove" /\ my'[p] = my[p]
        BY <1>0, <4>2 DEF Goto, Step, Typed, TypeOK
      <4> QED
        BY <1>0, <1>2, <4>3 DEF Owing
    <3>2. CASE Crash(p)
      BY <1>2, <3>2 DEF Crash
    <3>3. Release(p) \/ Leak(p) \/ Crash(p)
      BY <2>1 DEF Process, Task, BeginSync, BeginForget, BeginDecide, BeginRevoke, BeginRebuild, Begins,
                  Leasing, Acquire, Reap, GiveUp, Refuse, Judge, Write,
                  Saving, Load, Append, Revoke, SaveFails, Unmark,
                  Forgetting, Scan, MarkMatch, MarkMatchFails, Remove, RemoveFails, Unlinked,
                  Rebuilding, SelfMark, RebuildBegin, RebuildRead, RebuildCommit, Retire
    <3> QED
      BY <3>1, <3>2, <3>3
  <2>2. CASE at[p] = "remove"
    <3>1. CASE Remove(p)
      <4>1. PICK j \in my[p].todo : /\ vault' = [vault EXCEPT ![j] = NoFile]
                                    /\ Step(p, "unlink", [my[p] EXCEPT !.item = j])
        BY <3>1 DEF Remove
      <4>2. at'[p] = "unlink" /\ my'[p].todo = my[p].todo /\ my'[p].item = j
        BY <1>0, <1>2, <4>1 DEF Step, Typed, TypeOK, Locals
      <4>3. i = j => vault'[i] = NoFile
        BY <1>0, <4>1 DEF Typed, TypeOK, Vault
      <4> QED
        BY <1>0, <1>2, <4>2, <4>3 DEF Owing
    <3>2. CASE RemoveFails(p)
      BY <1>0, <1>2, <3>2 DEF RemoveFails
    <3>3. CASE Crash(p)
      BY <1>2, <3>3 DEF Crash
    <3>4. Remove(p) \/ RemoveFails(p) \/ Crash(p)
      BY <2>2 DEF Process, Task, BeginSync, BeginForget, BeginDecide, BeginRevoke, BeginRebuild, Begins,
                  Leasing, Acquire, Reap, GiveUp, Release, Leak, Refuse, Judge, Write,
                  Saving, Load, Append, Revoke, SaveFails, Unmark,
                  Forgetting, Scan, MarkMatch, MarkMatchFails, Unlinked,
                  Rebuilding, SelfMark, RebuildBegin, RebuildRead, RebuildCommit, Retire
    <3> QED
      BY <3>1, <3>2, <3>3, <3>4
  <2>3. CASE at[p] = "unlink"
    <3>1. CASE Unlinked(p)
      <4> DEFINE l == [my[p] EXCEPT !.todo = @ \ {my[p].item}, !.item = NoItem]
      <4>1. Step(p, IF my[p].todo = {my[p].item} THEN "mark" ELSE "remove", l)
        BY <3>1 DEF Unlinked
      <4>2. l.todo = my[p].todo \ {my[p].item} /\ l.item = NoItem
        BY <1>0, <1>2 DEF Locals
      <4> HIDE DEF l
      <4>3. at'[p] = "remove" /\ my'[p] = l
        BY <1>0, <1>2, <4>1 DEF Step, Typed, TypeOK
      <4> QED
        BY <1>0, <1>2, <4>2, <4>3 DEF Owing
    <3>2. CASE Crash(p)
      BY <1>2, <3>2 DEF Crash
    <3>3. Unlinked(p) \/ Crash(p)
      BY <2>3 DEF Process, Task, BeginSync, BeginForget, BeginDecide, BeginRevoke, BeginRebuild, Begins,
                  Leasing, Acquire, Reap, GiveUp, Release, Leak, Refuse, Judge, Write,
                  Saving, Load, Append, Revoke, SaveFails, Unmark,
                  Forgetting, Scan, MarkMatch, MarkMatchFails, Remove, RemoveFails,
                  Rebuilding, SelfMark, RebuildBegin, RebuildRead, RebuildCommit, Retire
    <3> QED
      BY <3>1, <3>2, <3>3
  <2> QED
    BY <1>0, <1>2, <2>1, <2>2, <2>3 DEF Removing
<1> QED
  BY <1>1, <1>2

LEMMA LeftWriter ==
    ASSUME IInv, NEW p \in Procs, Process(p), NEW i \in left
    PROVE  i \in left' \/ (Write(p) /\ i = my[p].item) \/ vault'[i] = NoFile
<1>1. left \subseteq left' \/ Write(p) \/ Remove(p)
  BY DEF Process, Task, BeginSync, BeginForget, BeginDecide, BeginRevoke, BeginRebuild,
         Leasing, Acquire, Reap, GiveUp, Release, Leak, Refuse, Judge,
         Saving, Load, Append, Revoke, SaveFails, Unmark,
         Forgetting, Scan, MarkMatch, MarkMatchFails, RemoveFails, Unlinked,
         Rebuilding, SelfMark, RebuildBegin, RebuildRead, RebuildCommit, Retire, Crash
<1>2. CASE Write(p)
  <2>1. left' = left \ {my[p].item}
    BY <1>2 DEF Write
  <2> QED
    BY <1>2, <2>1
<1>3. CASE Remove(p)
  <2>1. PICK j \in my[p].todo : vault' = [vault EXCEPT ![j] = NoFile] /\ left' = left \ {j}
    BY <1>3 DEF Remove
  <2>2. j = i => vault'[i] = NoFile
    BY <2>1 DEF IInv, Typed, TypeOK, Vault
  <2> QED
    BY <2>1, <2>2
<1>4. CASE left \subseteq left'
  BY <1>4
<1> QED
  BY <1>1, <1>2, <1>3, <1>4

\* What was suppressed before the step, is still there and was not just written,
\* is owed after it.
LEMMA OwedStays ==
    ASSUME IInv, NEW p \in Procs, Process(p),
           NEW i \in Items, vault[i] # NoFile, vault'[i] # NoFile,
           Suppresses(ledger, i, vault[i]), ~(Write(p) /\ i = my[p].item)
    PROVE  i \in left' \cup UNION {Owing(q)' : q \in Procs}
<1>1. i \in left \cup UNION {Owing(q) : q \in Procs}
  BY DEF IInv, ForgottenIsOwed, Present
<1>2. CASE i \in left
  BY <1>2, LeftWriter
<1>3. CASE \E q \in Procs : i \in Owing(q)
  BY <1>3, StillOwed
<1> QED
  BY <1>1, <1>2, <1>3

LEMMA AppendOwes ==
    ASSUME IInv, NEW p \in Procs, Append(p), NEW i \in Items, vault[i] # NoFile,
           Suppresses(ledger', i, vault[i]), ~Suppresses(ledger, i, vault[i])
    PROVE  i \in Owing(p)'
<1> DEFINE new == NewEntry(p)
<1>1. Typed /\ at[p] = "save" /\ my[p].task \in {"forget", "decide"} /\ my[p].known = ledger
  BY DEF IInv, Append, Current
<1>2. ledger' = ledger \cup {new}
  BY <1>1 DEF Append
<1>3. new.target = my[p].target
  BY DEF NewEntry
<1> HIDE DEF new
<1>4. my[p].target \notin Pairs /\ Covers(my[p].target, i, vault[i])
  BY <1>2, <1>3 DEF Suppresses, ActiveSuppress
<1>5. my[p].task = "forget"
  BY <1>1, <1>4 DEF Typed, Aimed
<1>6. i \in my[p].todo
  BY <1>1, <1>4, <1>5 DEF IInv, Scanned, Matches, Present
<1>7. at'[p] = "release" /\ my'[p].todo = my[p].todo /\ my'[p].item = NoItem
  BY <1>1, LetGoRelease DEF Append
<1> QED
  BY <1>6, <1>7, GovernanceAssumption DEF Owing

LEMMA RevokeAdds ==
    ASSUME IInv, NEW p \in Procs, Revoke(p), NEW i, NEW c, Suppresses(ledger', i, c)
    PROVE  Suppresses(ledger, i, c)
<1>1. my[p].known = ledger /\ ledger \in SUBSET Entry
  BY DEF IInv, Revoke, Current, Typed, TypeOK
<1>2. PICK f \in ledger' : ~f.revoked /\ f.target \notin Pairs /\ Covers(f.target, i, c)
  BY DEF Suppresses, ActiveSuppress
<1>3. PICK e \in ledger : f = [e EXCEPT !.revoked = @ \/ e.id = my[p].entry]
  BY <1>1, <1>2 DEF Revoke
<1>4. e \in Entry
  BY <1>1
<1>5. f.target = e.target /\ f.revoked = (e.revoked \/ e.id = my[p].entry)
  BY <1>3, <1>4 DEF Entry
<1> QED
  BY <1>2, <1>5 DEF Suppresses, ActiveSuppress

LEMMA ForgottenIsOwedStep ==
    ASSUME IInv, NEW p \in Procs, Process(p)
    PROVE  ForgottenIsOwed'
<1> SUFFICES ASSUME NEW i \in Items, vault'[i] # NoFile, Suppresses(ledger', i, vault'[i])
             PROVE  i \in left' \cup UNION {Owing(q)' : q \in Procs}
  BY DEF ForgottenIsOwed, Present, Suppresses, ActiveSuppress, Covers
<1>1. CASE Write(p) /\ i = my[p].item
  <2>1. vault'[i] = my[p].content /\ ledger' = ledger
    BY <1>1 DEF Write, IInv, Typed, TypeOK, Vault
  <2> QED
    BY <1>1, <2>1 DEF Write, IInv, Judged
<1>2. CASE ~(Write(p) /\ i = my[p].item)
  <2>1. vault'[i] = vault[i]
    BY <1>2, VaultWriter DEF Write, Remove, IInv, Typed, TypeOK, Vault
  <2>2. CASE Suppresses(ledger, i, vault[i])
    BY <1>2, <2>1, <2>2, OwedStays
  <2>3. CASE ~Suppresses(ledger, i, vault[i])
    <3>1. Append(p)
      BY <2>1, <2>3, LedgerWriter, RevokeAdds
    <3> QED
      BY <2>1, <2>3, <3>1, AppendOwes
  <2> QED
    BY <2>2, <2>3
<1> QED
  BY <1>1, <1>2

-----------------------------------------------------------------------------
(* The theorems. *)

LEMMA ExpireInv == ASSUME IInv, Slow = {}, Expire PROVE IInv'
<1>1. Typed'
  BY ExpireTyped DEF IInv
<1>2. /\ \A p \in Procs : at[p] \notin HeldSteps
      /\ UNCHANGED <<ledger, vault, at, my, left>>
  <2>1. lease.holder = Gone
    BY DEF Expire
  <2> QED
    BY <2>1, GovernanceAssumption DEF Expire, IInv, Excluded
<1>3. Excluded' /\ Current' /\ Judged' /\ Scanned' /\ Emptied'
  BY <1>2 DEF Excluded, Current, Judged, Scanned, Emptied, HeldSteps
<1>4. ForgottenIsOwed'
  BY <1>2 DEF IInv, ForgottenIsOwed, Present, Suppresses, ActiveSuppress, Covers, Owing
<1> QED
  BY <1>1, <1>3, <1>4 DEF IInv

LEMMA NextInv == ASSUME IInv, Slow = {}, [Next]_vars PROVE IInv'
<1>1. CASE UNCHANGED vars
  BY <1>1 DEF vars, IInv, Typed, TypeOK, Aimed, Excluded, Current, Judged, Scanned, Emptied,
              ForgottenIsOwed, Present, Matches, Suppresses, ActiveSuppress, Covers, Owing
<1>2. CASE Expire
  BY <1>2, ExpireInv
<1>3. ASSUME NEW p \in Procs, Process(p) PROVE IInv'
  <2>1. Next
    BY <1>3 DEF Next
  <2>2. Typed'
    BY <2>1, NextTyped DEF IInv
  <2> QED
    BY <1>3, <2>2, ExcludedStep, CurrentStep, JudgedStep, ScannedStep, EmptiedStep,
       ForgottenIsOwedStep DEF IInv
<1> QED
  BY <1>1, <1>2, <1>3 DEF Next

LEMMA InitInv == Init => IInv
<1> SUFFICES ASSUME Init PROVE IInv
  OBVIOUS
<1>1. Typed
  BY InitTyped
<1>2. \A p \in Procs : at[p] \in {"idle", "off"}
  BY DEF Init
<1>3. Excluded /\ Current /\ Judged /\ Scanned /\ Emptied
  BY <1>2 DEF Excluded, Current, Judged, Scanned, Emptied, HeldSteps
<1>4. ForgottenIsOwed
  BY DEF Init, ForgottenIsOwed, Present
<1> QED
  BY <1>1, <1>3, <1>4 DEF IInv

LEMMA Inductive == ASSUME Slow = {} PROVE Spec => []IInv
  BY InitInv, NextInv, PTL DEF Spec

\* While nobody holds the lease past its TTL, what the ledger suppresses and the
\* vault still has is owed a removal by a forget in progress, or was left behind
\* by one that failed or died (cmdForget; ForgottenIsOwed).
THEOREM ForgottenOwed == ASSUME Slow = {} PROVE Spec => []ForgottenIsOwed
<1>1. IInv => ForgottenIsOwed
  BY DEF IInv
<1> QED
  BY <1>1, Inductive, PTL

\* While nobody holds the lease past its TTL, no write publishes a memory that
\* the ledger suppresses (writeUnlessForgotten, writeMappedMemory;
\* NothingForgottenIsWritten).
THEOREM ForgottenStaysOut == ASSUME Slow = {} PROVE Spec => NothingForgottenIsWritten
<1>1. ASSUME IInv, [Next]_vars
      PROVE  [\A i \in Items : vault'[i] \in {vault[i], NoFile} \/ ~Suppresses(ledger, i, vault'[i])]_vars
  <2> SUFFICES ASSUME NEW i \in Items, NEW p \in Procs, Process(p)
               PROVE  vault'[i] \in {vault[i], NoFile} \/ ~Suppresses(ledger, i, vault'[i])
    BY <1>1 DEF Next, Expire
  <2>1. CASE vault' = vault
    BY <2>1
  <2>2. CASE Remove(p)
    BY <2>2 DEF Remove, IInv, Typed, TypeOK, Vault
  <2>3. CASE Write(p)
    <3>1. i = my[p].item => vault'[i] = my[p].content
      BY <1>1, <2>3 DEF Write, IInv, Typed, TypeOK, Vault
    <3>2. i # my[p].item => vault'[i] = vault[i]
      BY <1>1, <2>3 DEF Write, IInv, Typed, TypeOK, Vault
    <3> QED
      BY <1>1, <2>3, <3>1, <3>2 DEF Write, IInv, Judged
  <2> QED
    BY <2>1, <2>2, <2>3, VaultWriter
<1> QED
  BY <1>1, Inductive, PTL DEF Spec, NothingForgottenIsWritten

\* While nobody holds the lease past its TTL, no save loses an entry or revives a
\* revoked one (Append, Revoke; EntriesKept).
THEOREM KeepsEntries == ASSUME Slow = {} PROVE Spec => EntriesKept
<1>1. ASSUME IInv, [Next]_vars
      PROVE  [\A e \in ledger : \E f \in ledger' :
                 f.id = e.id /\ f.target = e.target /\ (e.revoked => f.revoked)]_vars
  <2> SUFFICES ASSUME NEW e \in ledger, NEW p \in Procs, Process(p)
               PROVE  \E f \in ledger' :
                          f.id = e.id /\ f.target = e.target /\ (e.revoked => f.revoked)
    BY <1>1 DEF Next, Expire
  <2>1. CASE ledger' = ledger
    BY <2>1
  <2>2. CASE Append(p)
    BY <1>1, <2>2 DEF Append, IInv, Current
  <2>3. CASE Revoke(p)
    <3> DEFINE f == [e EXCEPT !.revoked = @ \/ e.id = my[p].entry]
    <3>1. f \in ledger'
      BY <1>1, <2>3 DEF Revoke, IInv, Current
    <3>2. e \in Entry
      BY <1>1 DEF IInv, Typed, TypeOK
    <3>3. f.id = e.id /\ f.target = e.target /\ (e.revoked => f.revoked)
      BY <3>2 DEF Entry
    <3> HIDE DEF f
    <3> QED
      BY <3>1, <3>3
  <2> QED
    BY <2>1, <2>2, <2>3, LedgerWriter
<1> QED
  BY <1>1, Inductive, PTL DEF Spec, EntriesKept

-----------------------------------------------------------------------------
(* A removed memory stays hidden. *)

\* No two processes that run beside each other forget.
OneForgets == \A crew \in Crews : \A p, q \in crew :
    "forget" \in Roles[p] /\ "forget" \in Roles[q] => p = q

Sole == \A p, q \in Procs :
    "forget" \in Roles[p] /\ "forget" \in Roles[q] /\ at[p] # "off" /\ at[q] # "off" => p = q

ForgetSteps == {"dirty", "save", "release", "remove", "unlink"}

\* Only a forget has matches in hand, and a sync has something to write.
Assigned == \A p \in Procs :
    /\ my[p].todo # {} \/ my[p].task = "forget" \/ at[p] = "scan" => "forget" \in Roles[p]
    /\ my[p].todo # {} \/ my[p].task = "forget" => at[p] # "off"
    /\ my[p].todo # {} => at[p] \in ForgetSteps
    /\ my[p].task = "sync" \/ at[p] = "write" => my[p].content # NoFile

\* A rebuild has noted nothing before it begins.
Snapshots == {"read", "commit", "retire"}
Jotted == \A q \in Procs : at[q] \notin Snapshots => my[q].noted = {}

Committing == \A q \in Procs : at[q] \in {"read", "commit"} => tx = q

\* An id is one marker's, noted or pending, and a noted marker is older.
Traced ==
    /\ \A m, n \in marks : m.op = n.op => m = n
    /\ \A q \in Procs : \A n \in my[q].noted, m \in marks :
          n.op = m.op => n.item = m.item /\ (n.unlinked => m.unlinked)
    /\ \A q \in Procs : \A m \in marks : m.op = my[q].op => m.item = NoItem

\* The delete markers a process owns are of the forget it is at.
Early == {"off", "idle", "acquire", "load", "scan", "write"}
MarksOwned == \A m \in marks : \A p \in Procs : m.item # NoItem /\ m.owner = p =>
    /\ at[p] \notin Early
    /\ at[p] \in {"dirty", "save"} => m.item \in my[p].todo

\* A rebuild that noted m will not retire it while its memory has no file.
Spares(q, m) == \A n \in my[q].noted : n.op = m.op => ~ n.unlinked /\ m.item \in my[q].listed

\* What a forget still has to remove is there, and has a marker that will last,
\* unless the forget could not look whether to mark it.
Ahead(p) == IF at[p] = "unlink" THEN my[p].todo \ {my[p].item} ELSE my[p].todo
Armed(p) == at[p] \in ForgetSteps =>
    /\ \A i \in Ahead(p) : vault[i] # NoFile
    /\ \A i \in Ahead(p) \ unmarked :
          (at[p] = "dirty" /\ i \notin my[p].tried) \/ \E m \in DeleteMarks(p) : m.item = i
    /\ \A m \in DeleteMarks(p) :
          m.item \in Ahead(p) => ~ m.unlinked /\ \A q \in Procs : Spares(q, m)

\* A removed memory that a rebuild committed, or is about to, has a marker that
\* the rebuilds about to retire markers will spare, if it was marked at all.
Lasting(i, q) == \E m \in marks :
    m.item = i /\ \A r \in Procs : at[r] = "retire" \/ r = q => Spares(r, m)
Hidden == \A i \in rows \ unmarked : vault[i] = NoFile => Lasting(i, Nobody)
WillBeHidden == \A q \in Procs : at[q] = "commit" =>
    \A i \in Parsed(q) \ unmarked : vault[i] = NoFile => Lasting(i, q)

Kept == /\ Typed /\ Emptied /\ Sole /\ Assigned /\ Jotted /\ Committing /\ Traced /\ MarksOwned
        /\ \A p \in Procs : Armed(p)
        /\ Hidden /\ WillBeHidden

LEMMA StepFacts ==
    ASSUME Typed, NEW p \in Procs, NEW s, NEW l, Step(p, s, l)
    PROVE  at'[p] = s /\ my'[p] = l
  BY DEF Step, Typed, TypeOK

LEMMA GotoFacts ==
    ASSUME Typed, NEW p \in Procs, NEW s, Goto(p, s)
    PROVE  at'[p] = s /\ my'[p] = my[p]
  BY DEF Goto, Step, Typed, TypeOK

LEMMA EndFacts ==
    ASSUME Typed, NEW p \in Procs, End(p)
    PROVE  at'[p] = "idle" /\ my'[p] = Blank /\ marks' = Orphaned(marks, p)
  BY StepFacts DEF End

LEMMA LetGoFacts ==
    ASSUME Typed, NEW p \in Procs, NEW next, NEW todo, LetGo(p, next, todo)
    PROVE  /\ at'[p] = "release" /\ my'[p].todo = todo /\ my'[p].noted = {} /\ my'[p].task = "none"
           /\ my'[p].op = my[p].op /\ my'[p].then = next /\ my'[p].item = NoItem
  BY DEF LetGo, Step, Blank, Typed, TypeOK

LEMMA BlankFacts ==
    /\ Blank.todo = {} /\ Blank.noted = {} /\ Blank.op = NoId /\ Blank.task = "none"
    /\ Blank.item = NoItem /\ Blank.then = "idle"
  BY DEF Blank

\* What a step of p does to what it has in hand and to the markers.
Sound(p) == /\ my'[p].task = "forget" \/ at'[p] = "scan" => "forget" \in Roles[p]
            /\ at'[p] # "off"
            /\ my'[p].task = "sync" \/ at'[p] = "write" => my'[p].content # NoFile
            /\ tx # p => tx' = tx
            /\ rows' = rows
            /\ my'[p].noted = {} /\ at'[p] \notin Snapshots
Passes(p) ==
    /\ marks' = marks /\ (vault' = vault \/ Write(p))
    /\ my'[p].todo = {} /\ my'[p].op \in {NoId, my[p].op}
    /\ at'[p] # "dirty" /\ (at'[p] \in Early \cup {"save"} => at[p] \in Early)
Carries(p) ==
    /\ marks' = marks /\ vault' = vault
    /\ my'[p].todo = my[p].todo /\ my'[p].op \in {NoId, my[p].op}
    /\ at[p] \in {"save", "release"} /\ at'[p] \in {"release", "remove"}
Marks(p) ==
    /\ MarkDirty(p, NoItem) /\ vault' = vault
    /\ my'[p].todo = {} /\ my'[p].op \in {NoId, NewOp}
    /\ at[p] \in {"idle", "mark"} /\ at'[p] \in {"acquire", "begin"}
    /\ at[p] = "mark" => at'[p] = "begin"
\* The markers that p takes back, or retires.
Dropped(p, m) ==
    \/ m \in DeleteMarks(p) /\ at[p] \in {"dirty", "save"}
    \/ m \in DeleteMarks(p) /\ vault[m.item] # NoFile /\ at[p] = "remove"
    \/ m.op = my[p].op
    \/ at[p] = "retire" /\ \E n \in my[p].noted : n.op = m.op /\ Retirable(p, n)
Drops(p) ==
    /\ vault' = vault
    /\ \E ms \in SUBSET marks :
         /\ \A m \in marks \ ms : Dropped(p, m)
         /\ my'[p].todo = {}
         /\ \/ marks' = Orphaned(ms, p) /\ at'[p] = "idle" /\ my'[p].op = NoId
            \/ /\ marks' = ms /\ at'[p] = "release" /\ my'[p].op = my[p].op
               /\ at[p] \in {"dirty", "save"}

LEMMA TaskMoves ==
    ASSUME Typed, NEW p \in Procs, Task(p)
    PROVE  at[p] # "off" /\ Sound(p) /\ (Passes(p) \/ Marks(p))
<1> USE DEF Begins, Sound, Snapshots
<1>1. CASE BeginSync(p)
  <2>0. PICK i \in Items : \E c \in Contents[i] :
          Step(p, "acquire", [Blank EXCEPT !.task = "sync", !.item = i, !.content = c])
    BY <1>1 DEF BeginSync
  <2>1. PICK c \in Contents[i] :
          Step(p, "acquire", [Blank EXCEPT !.task = "sync", !.item = i, !.content = c])
    BY <2>0
  <2> DEFINE l == [Blank EXCEPT !.task = "sync", !.item = i, !.content = c]
  <2>4. l.task = "sync" /\ l.content = c /\ l.todo = {} /\ l.noted = {} /\ l.op = NoId
    BY DEF Blank
  <2>5. Step(p, "acquire", l)  BY <2>1
  <2> HIDE DEF l
  <2>2. c # NoFile  BY <2>1, GovernanceAssumption
  <2>3. /\ at'[p] = "acquire" /\ my'[p].task = "sync" /\ my'[p].content = c
        /\ my'[p].todo = {} /\ my'[p].noted = {} /\ my'[p].op = NoId
    BY <2>4, <2>5, StepFacts
  <2> QED BY <1>1, <2>2, <2>3 DEF BeginSync, Passes, Early, index
<1>2. CASE BeginForget(p)
  <2>1. PICK t \in Wanted : Step(p, "acquire", [Blank EXCEPT !.task = "forget", !.target = t])
    BY <1>2 DEF BeginForget
  <2> DEFINE l == [Blank EXCEPT !.task = "forget", !.target = t]
  <2>4. l.task = "forget" /\ l.todo = {} /\ l.noted = {} /\ l.op = NoId
    BY DEF Blank
  <2>5. Step(p, "acquire", l)  BY <2>1
  <2> HIDE DEF l
  <2>2. /\ at'[p] = "acquire" /\ my'[p].task = "forget"
        /\ my'[p].todo = {} /\ my'[p].noted = {} /\ my'[p].op = NoId
    BY <2>4, <2>5, StepFacts
  <2> QED BY <1>2, <2>2 DEF BeginForget, Passes, Early, index
<1>3. CASE BeginDecide(p)
  <2>1. PICK t \in Pairs :
          Step(p, "acquire", [Blank EXCEPT !.task = "decide", !.target = t, !.op = NewOp])
    BY <1>3 DEF BeginDecide
  <2> DEFINE l == [Blank EXCEPT !.task = "decide", !.target = t, !.op = NewOp]
  <2>4. l.task = "decide" /\ l.todo = {} /\ l.noted = {} /\ l.op = NewOp
    BY DEF Blank
  <2>5. Step(p, "acquire", l)  BY <2>1
  <2> HIDE DEF l
  <2>2. /\ at'[p] = "acquire" /\ my'[p].task = "decide"
        /\ my'[p].todo = {} /\ my'[p].noted = {} /\ my'[p].op = NewOp
    BY <2>4, <2>5, StepFacts
  <2> QED BY <1>3, <2>2 DEF BeginDecide, Marks, index
<1>4. CASE BeginRevoke(p)
  <2>1. PICK id \in EntryIds :
          Step(p, "acquire", [Blank EXCEPT !.task = "revoke", !.entry = id, !.op = NewOp])
    BY <1>4 DEF BeginRevoke
  <2> DEFINE l == [Blank EXCEPT !.task = "revoke", !.entry = id, !.op = NewOp]
  <2>4. l.task = "revoke" /\ l.todo = {} /\ l.noted = {} /\ l.op = NewOp
    BY DEF Blank
  <2>5. Step(p, "acquire", l)  BY <2>1
  <2> HIDE DEF l
  <2>2. /\ at'[p] = "acquire" /\ my'[p].task = "revoke"
        /\ my'[p].todo = {} /\ my'[p].noted = {} /\ my'[p].op = NewOp
    BY <2>4, <2>5, StepFacts
  <2> QED BY <1>4, <2>2 DEF BeginRevoke, Marks, index
<1>5. CASE BeginRebuild(p)
  <2>1. /\ at'[p] = "mark" /\ my'[p].task = "rebuild"
        /\ my'[p].todo = {} /\ my'[p].noted = {} /\ my'[p].op = NoId
    BY <1>5, StepFacts DEF BeginRebuild, Blank
  <2> QED BY <1>5, <2>1 DEF BeginRebuild, Passes, Early, index
<1> QED BY <1>1, <1>2, <1>3, <1>4, <1>5 DEF Task

LEMMA EndDrops ==
    ASSUME Typed, NEW p \in Procs, End(p), rows' = rows, vault' = vault, tx # p => tx' = tx
    PROVE  Sound(p) /\ Drops(p)
<1>1. at'[p] = "idle" /\ my'[p] = Blank /\ marks' = Orphaned(marks, p)  BY EndFacts
<1>2. Sound(p)  BY <1>1, BlankFacts DEF Sound, Snapshots
<1>3. Drops(p)  BY <1>1, BlankFacts DEF Drops
<1> QED BY <1>2, <1>3

LEMMA LetGoPasses ==
    ASSUME Typed, NEW p \in Procs, NEW next, LetGo(p, next, {}), rows' = rows, tx' = tx,
           marks' = marks, vault' = vault \/ Write(p)
    PROVE  Sound(p) /\ Passes(p)
<1>1. /\ at'[p] = "release" /\ my'[p].todo = {} /\ my'[p].noted = {} /\ my'[p].task = "none"
      /\ my'[p].op = my[p].op
  BY LetGoFacts
<1> QED BY <1>1 DEF Sound, Snapshots, Passes, Early

LEMMA GotoPasses ==
    ASSUME Typed, Assigned, Jotted, NEW p \in Procs, NEW s, Goto(p, s), rows' = rows, tx' = tx,
           marks' = marks, vault' = vault, my[p].todo = {}, at[p] \notin Snapshots,
           s \notin Snapshots \cup {"off", "scan", "dirty"}, s \in Early \cup {"save"} => at[p] \in Early,
           s = "write" => my[p].task = "sync"
    PROVE  Sound(p) /\ Passes(p)
<1>1. at'[p] = s /\ my'[p] = my[p]  BY GotoFacts
<1>2. my[p].noted = {}  BY DEF Jotted
<1> QED BY <1>1, <1>2 DEF Sound, Passes, Assigned

LEMMA LeasingMoves ==
    ASSUME Typed, Emptied, Assigned, Jotted, NEW p \in Procs, Leasing(p)
    PROVE  at[p] # "off" /\ Sound(p) /\ (Passes(p) \/ Carries(p) \/ Drops(p))
<1> USE DEF index
<1>1. CASE Acquire(p)
  <2>1. Goto(p, "load") /\ at[p] = "acquire" /\ UNCHANGED <<marks, vault, rows, tx>>
    BY <1>1 DEF Acquire
  <2>2. my[p].todo = {}  BY <2>1 DEF Assigned, ForgetSteps
  <2> QED BY <2>1, <2>2, GotoPasses DEF Snapshots, Early
<1>2. CASE Reap(p)
  <2>1. at[p] = "acquire" /\ UNCHANGED <<marks, vault, rows, tx, at, my>>
    BY <1>2 DEF Reap
  <2>2. my[p].todo = {} /\ my[p].noted = {}
    BY <2>1 DEF Assigned, ForgetSteps, Jotted, Snapshots
  <2>3. my'[p] = my[p] /\ at'[p] = "acquire"  BY <2>1
  <2> QED BY <2>1, <2>2, <2>3 DEF Sound, Passes, Snapshots, Early, Assigned
<1>3. CASE GiveUp(p)
  <2>1. at[p] = "acquire" /\ UNCHANGED <<vault, rows, tx>>  BY <1>3 DEF GiveUp
  <2>2. CASE End(p)  BY <2>1, <2>2, EndDrops
  <2>3. CASE Goto(p, "unmark") /\ marks' = marks
    <3>1. my[p].todo = {}  BY <2>1 DEF Assigned, ForgetSteps
    <3> QED BY <2>1, <2>3, <3>1, GotoPasses DEF Snapshots, Early
  <2> QED BY <1>3, <2>1, <2>2, <2>3 DEF GiveUp
<1>4. CASE Release(p) \/ Leak(p)
  <2>1. at[p] = "release" /\ UNCHANGED <<vault, rows, tx>>  BY <1>4 DEF Release, Leak
  <2>2. CASE End(p)  BY <2>1, <2>2, EndDrops
  <2>3. CASE Goto(p, my[p].then) /\ marks' = marks /\ my[p].then # "idle"
    <3>1. my[p].then \in {"unmark", "remove", "mark"}  BY <2>3 DEF Typed, TypeOK, Locals
    <3>2. CASE my[p].then = "remove"
      <4>1. at'[p] = "remove" /\ my'[p] = my[p]  BY <2>3, <3>2, GotoFacts
      <4>2. my[p].noted = {}  BY <2>1 DEF Jotted, Snapshots
      <4> QED BY <2>1, <2>3, <4>1, <4>2 DEF Sound, Carries, Snapshots, Assigned
    <3>3. CASE my[p].then # "remove"
      <4>1. my[p].todo = {}  BY <2>1, <3>3 DEF Emptied
      <4> QED BY <2>1, <2>3, <3>1, <3>3, <4>1, GotoPasses DEF Snapshots, Early
    <3> QED BY <3>2, <3>3
  <2>4. End(p) \/ (Goto(p, my[p].then) /\ marks' = marks /\ my[p].then # "idle")
    BY <1>4 DEF Release, Leak
  <2> QED BY <2>1, <2>2, <2>3, <2>4
<1>5. CASE Refuse(p)
  <2>1. at[p] # "off" /\ LetGo(p, Undo(p), {}) /\ UNCHANGED <<marks, vault, rows, tx>>
    BY <1>5 DEF Refuse
  <2> QED BY <2>1, LetGoPasses
<1> QED BY <1>1, <1>2, <1>3, <1>4, <1>5 DEF Leasing

LEMMA WritingMoves ==
    ASSUME Typed, Assigned, Jotted, NEW p \in Procs, Judge(p) \/ Write(p)
    PROVE  at[p] # "off" /\ Sound(p) /\ Passes(p)
<1> USE DEF index
<1>1. CASE Judge(p)
  <2>1. at[p] = "load" /\ my[p].task = "sync" /\ UNCHANGED <<marks, vault, rows, tx>>
    BY <1>1 DEF Judge
  <2>2. my[p].todo = {}  BY <2>1 DEF Assigned, ForgetSteps
  <2>3. CASE LetGo(p, "idle", {})  BY <2>1, <2>3, LetGoPasses
  <2>4. CASE Goto(p, "write")
    BY <2>1, <2>2, <2>4, GotoPasses DEF Snapshots, Early
  <2> QED BY <1>1, <2>1, <2>3, <2>4 DEF Judge
<1>2. CASE Write(p)
  <2>1. at[p] = "write" /\ LetGo(p, "idle", {}) /\ UNCHANGED <<marks, rows, tx>>
    BY <1>2 DEF Write
  <2> QED BY <1>2, <2>1, LetGoPasses
<1> QED BY <1>1, <1>2

LEMMA SavingMoves ==
    ASSUME Typed, Assigned, Jotted, NEW p \in Procs, Saving(p)
    PROVE  at[p] # "off" /\ Sound(p) /\ (Passes(p) \/ Carries(p) \/ Drops(p))
<1> USE DEF index
<1>1. CASE Load(p)
  <2>1. at[p] = "load" /\ UNCHANGED <<marks, vault, rows, tx>>  BY <1>1 DEF Load
  <2>2. my[p].todo = {} /\ my[p].noted = {}
    BY <2>1 DEF Assigned, ForgetSteps, Jotted, Snapshots
  <2>3. CASE LetGo(p, "unmark", {})  BY <2>1, <2>3, LetGoPasses
  <2>4. CASE Step(p, IF my[p].task = "forget" THEN "scan" ELSE "save", [my[p] EXCEPT !.known = ledger])
    <3>1. /\ at'[p] = (IF my[p].task = "forget" THEN "scan" ELSE "save")
          /\ my'[p] = [my[p] EXCEPT !.known = ledger]
      BY <2>4, StepFacts
    <3>2. /\ my'[p].task = my[p].task /\ my'[p].todo = {} /\ my'[p].noted = {}
          /\ my'[p].op = my[p].op /\ my'[p].content = my[p].content
      BY <2>2, <3>1 DEF Typed, TypeOK, Locals
    <3> QED BY <2>1, <3>1, <3>2 DEF Sound, Passes, Snapshots, Early, Assigned
  <2> QED BY <1>1, <2>1, <2>3, <2>4 DEF Load
<1>2. CASE Append(p)
  <2>1. /\ at[p] = "save" /\ LetGo(p, IF my[p].todo = {} THEN "mark" ELSE "remove", my[p].todo)
        /\ UNCHANGED <<marks, vault, rows, tx>>
    BY <1>2 DEF Append
  <2>2. /\ at'[p] = "release" /\ my'[p].todo = my[p].todo /\ my'[p].noted = {}
        /\ my'[p].task = "none" /\ my'[p].op = my[p].op
    BY <2>1, LetGoFacts
  <2> QED BY <2>1, <2>2 DEF Sound, Carries, Snapshots
<1>3. CASE Revoke(p)
  <2>1. at[p] = "save" /\ LetGo(p, "mark", {}) /\ UNCHANGED <<marks, vault, rows, tx>>
    BY <1>3 DEF Revoke
  <2> QED BY <2>1, LetGoPasses
<1>4. CASE SaveFails(p)
  <2>1. /\ at[p] = "save" /\ LetGo(p, Undo(p), {}) /\ marks' = marks \ DeleteMarks(p)
        /\ UNCHANGED <<vault, rows, tx>>
    BY <1>4 DEF SaveFails
  <2>2. /\ at'[p] = "release" /\ my'[p].todo = {} /\ my'[p].noted = {}
        /\ my'[p].task = "none" /\ my'[p].op = my[p].op
    BY <2>1, LetGoFacts
  <2>3. Drops(p)  BY <2>1, <2>2 DEF Drops, Dropped
  <2> QED BY <2>1, <2>2, <2>3 DEF Sound, Snapshots
<1>5. CASE Unmark(p)
  <2> DEFINE ms == {m \in marks : m.op # my[p].op}
  <2>1. /\ at[p] = "unmark" /\ Step(p, "idle", Blank) /\ marks' = Orphaned(ms, p)
        /\ UNCHANGED <<vault, rows, tx>>
    BY <1>5 DEF Unmark
  <2>2. at'[p] = "idle" /\ my'[p] = Blank  BY <2>1, StepFacts
  <2>3. Drops(p)
    <3>1. ms \in SUBSET marks /\ \A m \in marks \ ms : Dropped(p, m)  BY DEF Dropped
    <3> HIDE DEF ms
    <3> QED BY <2>1, <2>2, <3>1, BlankFacts DEF Drops
  <2> QED BY <2>1, <2>2, <2>3, BlankFacts DEF Sound, Snapshots
<1> QED BY <1>1, <1>2, <1>3, <1>4, <1>5 DEF Saving

LEMMA RetireMoves ==
    ASSUME Typed, NEW p \in Procs, Retire(p)
    PROVE  at[p] = "retire" /\ Sound(p) /\ Drops(p)
<1> DEFINE retired == {m.op : m \in {n \in my[p].noted : Retirable(p, n)}}
           ms == {m \in marks : m.op \notin retired}
<1>1. /\ at[p] = "retire" /\ Step(p, "idle", Blank) /\ marks' = Orphaned(ms, p)
      /\ UNCHANGED <<vault, rows, tx>>
  BY DEF Retire, index
<1>2. at'[p] = "idle" /\ my'[p] = Blank  BY <1>1, StepFacts
<1>3. ms \in SUBSET marks /\ \A m \in marks \ ms : Dropped(p, m)
  <2>1. ASSUME NEW m \in marks \ ms PROVE Dropped(p, m)
    <3>1. \E n \in my[p].noted : n.op = m.op /\ Retirable(p, n)  OBVIOUS
    <3> QED BY <1>1, <3>1 DEF Dropped
  <2> QED BY <2>1
<1> HIDE DEF ms
<1>4. Drops(p)  BY <1>1, <1>2, <1>3, BlankFacts DEF Drops
<1> QED BY <1>1, <1>2, <1>4, BlankFacts DEF Sound, Snapshots

LEMMA FailMoves ==
    ASSUME Typed, NEW p \in Procs, MarkMatchFails(p) \/ RemoveFails(p)
    PROVE  at[p] # "off" /\ Sound(p) /\ Drops(p)
<1>1. CASE MarkMatchFails(p)
  <2>1. /\ at[p] = "dirty" /\ LetGo(p, "idle", {}) /\ marks' = marks \ DeleteMarks(p)
        /\ UNCHANGED <<vault, rows, tx>>
    BY <1>1 DEF MarkMatchFails, index
  <2>2. /\ at'[p] = "release" /\ my'[p].todo = {} /\ my'[p].noted = {}
        /\ my'[p].task = "none" /\ my'[p].op = my[p].op
    BY <2>1, LetGoFacts
  <2>3. Drops(p)  BY <2>1, <2>2 DEF Drops, Dropped
  <2> QED BY <2>1, <2>2, <2>3 DEF Sound, Snapshots
<1>2. CASE RemoveFails(p)
  <2>1. at[p] = "remove" /\ Step(p, "idle", Blank) /\ UNCHANGED <<vault, rows, tx>>
    BY <1>2 DEF RemoveFails, index
  <2>2. PICK i \in my[p].todo \cap Present :
          marks' = Orphaned({m \in marks : m \notin DeleteMarks(p) \/ m.item # i}, p)
    BY <1>2 DEF RemoveFails
  <2>3. at'[p] = "idle" /\ my'[p] = Blank  BY <2>1, StepFacts
  <2>4. Drops(p)
    <3> DEFINE ms == {m \in marks : m \notin DeleteMarks(p) \/ m.item # i}
    <3>1. ms \in SUBSET marks /\ \A m \in marks \ ms : Dropped(p, m)
      BY <2>1 DEF Dropped, Present
    <3>2. marks' = Orphaned(ms, p)  BY <2>2
    <3> HIDE DEF ms
    <3> QED BY <2>1, <2>3, <3>1, <3>2, BlankFacts DEF Drops
  <2> QED BY <2>1, <2>3, <2>4, BlankFacts DEF Sound, Snapshots
<1> QED BY <1>1, <1>2

\* The four steps of a forget that only it takes.
Scans(p) ==
    /\ marks' = marks /\ vault' = vault
    /\ at[p] = "scan" /\ at'[p] \in {"dirty", "save"}
    /\ my'[p].op = my[p].op /\ my'[p].tried = {}
    /\ \A i \in my'[p].todo : vault[i] # NoFile
    /\ at'[p] = "save" => my'[p].todo = {}
MarksMatch(p) ==
    /\ at[p] = "dirty" /\ at'[p] \in {"dirty", "save"}
    /\ vault' = vault
    /\ my'[p].op = my[p].op /\ my'[p].todo = my[p].todo /\ my'[p].noted = {}
    /\ \E i \in Untried(p) : /\ MarkDirty(p, i) /\ my'[p].tried = my[p].tried \cup {i}
                             /\ at'[p] = "save" => Untried(p) = {i}
Removes(p) ==
    /\ marks' = marks
    /\ at[p] = "remove" /\ at'[p] = "unlink"
    /\ my'[p].op = my[p].op /\ my'[p].todo = my[p].todo /\ my'[p].item \in my[p].todo
    /\ vault' = [vault EXCEPT ![my'[p].item] = NoFile]
Unlinks(p) ==
    /\ at[p] = "unlink" /\ at'[p] \in {"mark", "remove"}
    /\ vault' = vault
    /\ my'[p].op = my[p].op /\ my'[p].todo = my[p].todo \ {my[p].item}
    /\ at'[p] = "mark" => my'[p].todo = {}
    /\ LET mine == {m \in DeleteMarks(p) : m.item = my[p].item}
       IN  marks' \in {marks, (marks \ mine) \cup {[m EXCEPT !.unlinked = TRUE] : m \in mine}}
Forgets(p) == Scans(p) \/ MarksMatch(p) \/ Removes(p) \/ Unlinks(p)
Changes(p) == Passes(p) \/ Carries(p) \/ Marks(p) \/ Drops(p) \/ Forgets(p)

LEMMA ForgettingMoves ==
    ASSUME Typed, Assigned, Jotted, NEW p \in Procs, Forgetting(p)
    PROVE  at[p] # "off" /\ Sound(p) /\ (Drops(p) \/ Forgets(p))
<1> USE DEF index
<1>1. CASE Scan(p)
  <2> DEFINE l == [my[p] EXCEPT !.todo = Matches(my[p].target), !.tried = {}]
  <2>1. /\ at[p] = "scan" /\ UNCHANGED <<marks, vault, rows, tx>>
        /\ Step(p, IF Matches(my[p].target) = {} THEN "save" ELSE "dirty", l)
    BY <1>1 DEF Scan
  <2>2. /\ l.todo = Matches(my[p].target) /\ l.op = my[p].op /\ l.task = my[p].task
        /\ l.noted = my[p].noted /\ l.content = my[p].content /\ l.tried = {}
    BY DEF Typed, TypeOK, Locals
  <2> HIDE DEF l
  <2>3. /\ at'[p] = (IF Matches(my[p].target) = {} THEN "save" ELSE "dirty")
        /\ my'[p] = l
    BY <2>1, StepFacts
  <2>4. \A i \in Matches(my[p].target) : vault[i] # NoFile  BY DEF Matches, Present
  <2>5. my[p].noted = {}  BY <2>1 DEF Jotted, Snapshots
  <2>6. Scans(p)  BY <2>1, <2>2, <2>3, <2>4 DEF Scans
  <2> QED BY <2>1, <2>2, <2>3, <2>5, <2>6 DEF Sound, Assigned, Snapshots, Forgets
<1>2. CASE MarkMatch(p)
  <2> DEFINE i == CHOOSE j \in Untried(p) : TRUE
             l == [my[p] EXCEPT !.tried = @ \cup {i}]
  <2>1. /\ at[p] = "dirty" /\ UNCHANGED <<vault, rows, tx>> /\ i \in Untried(p)
        /\ MarkDirty(p, i) /\ Step(p, IF Untried(p) = {i} THEN "save" ELSE "dirty", l)
    BY <1>2 DEF MarkMatch
  <2> HIDE DEF i
  <2>2. /\ l.todo = my[p].todo /\ l.op = my[p].op /\ l.task = my[p].task
        /\ l.noted = my[p].noted /\ l.content = my[p].content
        /\ l.tried = my[p].tried \cup {i}
    BY DEF Typed, TypeOK, Locals
  <2> HIDE DEF l
  <2>3. at'[p] = (IF Untried(p) = {i} THEN "save" ELSE "dirty") /\ my'[p] = l
    BY <2>1, StepFacts
  <2>4. my[p].noted = {}  BY <2>1 DEF Jotted, Snapshots
  <2>5. MarksMatch(p)  BY <2>1, <2>2, <2>3, <2>4 DEF MarksMatch
  <2> QED BY <2>1, <2>2, <2>3, <2>4, <2>5 DEF Sound, Assigned, Snapshots, Forgets
<1>3. CASE MarkMatchFails(p) \/ RemoveFails(p)
  BY <1>3, FailMoves
<1>4. CASE Remove(p)
  <2>1. /\ at[p] = "remove" /\ UNCHANGED <<marks, rows, tx>>
        /\ \E i \in my[p].todo : /\ vault' = [vault EXCEPT ![i] = NoFile]
                                 /\ Step(p, "unlink", [my[p] EXCEPT !.item = i])
    BY <1>4 DEF Remove
  <2>2. PICK i \in my[p].todo : /\ vault' = [vault EXCEPT ![i] = NoFile]
                                /\ Step(p, "unlink", [my[p] EXCEPT !.item = i])
    BY <2>1
  <2> DEFINE l == [my[p] EXCEPT !.item = i]
  <2>3. /\ l.todo = my[p].todo /\ l.op = my[p].op /\ l.task = my[p].task /\ l.item = i
        /\ l.noted = my[p].noted /\ l.content = my[p].content
    BY DEF Typed, TypeOK, Locals
  <2>4. Step(p, "unlink", l)  BY <2>2
  <2> HIDE DEF l
  <2>5. at'[p] = "unlink" /\ my'[p] = l  BY <2>4, StepFacts
  <2>6. my[p].noted = {}  BY <2>1 DEF Jotted, Snapshots
  <2>7. Removes(p)  BY <2>1, <2>2, <2>3, <2>5 DEF Removes
  <2> QED BY <2>1, <2>3, <2>5, <2>6, <2>7 DEF Sound, Assigned, Snapshots, Forgets
<1>5. CASE Unlinked(p)
  <2> DEFINE i == my[p].item
             mine == {m \in DeleteMarks(p) : m.item = i}
             l == [my[p] EXCEPT !.todo = @ \ {i}, !.item = NoItem]
  <2>1. /\ at[p] = "unlink" /\ UNCHANGED <<vault, rows, tx>>
        /\ marks' \in {marks, (marks \ mine) \cup {[m EXCEPT !.unlinked = TRUE] : m \in mine}}
        /\ Step(p, IF my[p].todo = {i} THEN "mark" ELSE "remove", l)
    BY <1>5 DEF Unlinked
  <2>2. /\ l.todo = my[p].todo \ {i} /\ l.op = my[p].op /\ l.task = my[p].task
        /\ l.noted = my[p].noted /\ l.content = my[p].content
    BY DEF Typed, TypeOK, Locals
  <2> HIDE DEF l
  <2>3. at'[p] = (IF my[p].todo = {i} THEN "mark" ELSE "remove") /\ my'[p] = l
    BY <2>1, StepFacts
  <2>4. my[p].noted = {}  BY <2>1 DEF Jotted, Snapshots
  <2>5. Unlinks(p)  BY <2>1, <2>2, <2>3 DEF Unlinks
  <2> QED BY <2>1, <2>2, <2>3, <2>4, <2>5 DEF Sound, Assigned, Snapshots, Forgets
<1> QED BY <1>1, <1>2, <1>3, <1>4, <1>5 DEF Forgetting

LEMMA SelfMarkMoves ==
    ASSUME Typed, NEW p \in Procs, SelfMark(p)
    PROVE  at[p] # "off" /\ Sound(p) /\ Marks(p)
<1>1. /\ at[p] = "mark" /\ MarkDirty(p, NoItem) /\ Step(p, "begin", Blank)
      /\ UNCHANGED <<vault, rows, tx>>
  BY DEF SelfMark, index
<1>2. at'[p] = "begin" /\ my'[p] = Blank  BY <1>1, StepFacts
<1> QED BY <1>1, <1>2, BlankFacts DEF Sound, Marks, Snapshots

LEMMA CrashMoves ==
    ASSUME Typed, NEW p \in Procs, Crash(p)
    PROVE  at[p] # "off" /\ Sound(p) /\ Drops(p)
<1>1. /\ at[p] # "off" /\ End(p) /\ UNCHANGED <<vault, rows>>
      /\ tx # p => tx' = tx
  BY DEF Crash
<1> QED BY <1>1, EndDrops

\* Every step is one of these, or a rebuild's snapshot, read or commit.
LEMMA Moves ==
    ASSUME Typed, Emptied, Assigned, Jotted, NEW p \in Procs, Process(p)
    PROVE  \/ at[p] # "off" /\ Sound(p) /\ Changes(p)
           \/ RebuildBegin(p) \/ RebuildRead(p) \/ RebuildCommit(p)
<1>1. CASE Task(p)  BY <1>1, TaskMoves DEF Changes
<1>2. CASE Leasing(p)  BY <1>2, LeasingMoves DEF Changes
<1>3. CASE Judge(p) \/ Write(p)  BY <1>3, WritingMoves DEF Changes
<1>4. CASE Saving(p)  BY <1>4, SavingMoves DEF Changes
<1>5. CASE Forgetting(p)  BY <1>5, ForgettingMoves DEF Changes
<1>6. CASE SelfMark(p)  BY <1>6, SelfMarkMoves DEF Changes
<1>7. CASE Retire(p)  BY <1>7, RetireMoves DEF Changes
<1>8. CASE Crash(p)  BY <1>8, CrashMoves DEF Changes
<1> QED BY <1>1, <1>2, <1>3, <1>4, <1>5, <1>6, <1>7, <1>8 DEF Process, Rebuilding

\* What the three steps of a rebuild under the index's write lock have in common.
Rebuilds(p) ==
    /\ at[p] \in {"begin", "read", "commit"} /\ at'[p] \in Snapshots
    /\ marks' = marks /\ vault' = vault
    /\ my'[p].todo = {} /\ my'[p].op = my[p].op
    /\ my'[p].task = my[p].task /\ my'[p].content = my[p].content

Begun(p) == /\ at[p] = "begin" /\ at'[p] = "read" /\ tx = Nobody /\ tx' = p /\ rows' = rows
            /\ my'[p].noted = marks /\ my'[p].listed = Present
Perused(p) == /\ at[p] = "read" /\ at'[p] = "commit" /\ tx' = tx /\ rows' = rows
              /\ my'[p].noted = my[p].noted /\ my'[p].listed = my[p].listed
              /\ my'[p].seen = vault
Committed(p) == /\ at[p] = "commit" /\ at'[p] = "retire" /\ tx' = Nobody
                /\ unmarked' = unmarked \ CaughtUp(p)
                /\ my'[p] = my[p] /\ rows' = Parsed(p)

LEMMA BeginFacts ==
    ASSUME Typed, Assigned, NEW p \in Procs, RebuildBegin(p)
    PROVE  Rebuilds(p) /\ Begun(p)
<1> DEFINE l == [my[p] EXCEPT !.noted = marks, !.listed = Present]
<1>1. /\ at[p] = "begin" /\ Step(p, "read", l) /\ tx = Nobody /\ tx' = p
      /\ UNCHANGED <<vault, marks, rows>>
  BY DEF RebuildBegin
<1>2. /\ l.todo = my[p].todo /\ l.op = my[p].op /\ l.task = my[p].task
      /\ l.content = my[p].content /\ l.noted = marks /\ l.listed = Present
  BY DEF Typed, TypeOK, Locals
<1> HIDE DEF l
<1>3. at'[p] = "read" /\ my'[p] = l  BY <1>1, StepFacts
<1>4. my[p].todo = {}  BY <1>1 DEF Assigned, ForgetSteps
<1> QED BY <1>1, <1>2, <1>3, <1>4 DEF Rebuilds, Begun, Snapshots

LEMMA ReadFacts ==
    ASSUME Typed, Assigned, NEW p \in Procs, RebuildRead(p)
    PROVE  Rebuilds(p) /\ Perused(p)
<1> DEFINE l == [my[p] EXCEPT !.known = ledger, !.seen = vault]
<1>1. /\ at[p] = "read" /\ Step(p, "commit", l)
      /\ UNCHANGED <<vault, marks, rows, tx>>
  BY DEF RebuildRead, index
<1>2. /\ l.todo = my[p].todo /\ l.op = my[p].op /\ l.task = my[p].task
      /\ l.content = my[p].content /\ l.noted = my[p].noted /\ l.listed = my[p].listed
      /\ l.seen = vault
  BY DEF Typed, TypeOK, Locals
<1> HIDE DEF l
<1>3. at'[p] = "commit" /\ my'[p] = l  BY <1>1, StepFacts
<1>4. my[p].todo = {}  BY <1>1 DEF Assigned, ForgetSteps
<1> QED BY <1>1, <1>2, <1>3, <1>4 DEF Rebuilds, Perused, Snapshots

LEMMA CommitFacts ==
    ASSUME Typed, Assigned, NEW p \in Procs, RebuildCommit(p)
    PROVE  Rebuilds(p) /\ Committed(p)
<1>1. /\ at[p] = "commit" /\ at'[p] = "retire" /\ my'[p] = my[p] /\ tx' = Nobody
      /\ rows' = Parsed(p) /\ UNCHANGED <<vault, marks>>
      /\ unmarked' = unmarked \ CaughtUp(p)
  BY GotoFacts DEF RebuildCommit
<1>2. my[p].todo = {}  BY <1>1 DEF Assigned, ForgetSteps
<1> QED BY <1>1, <1>2 DEF Rebuilds, Committed, Snapshots

\* Only a rebuild that reads a memory as it is makes up for a missing mark.
LEMMA UnmarkedGrows ==
    ASSUME NEW p \in Procs, Process(p)
    PROVE  unmarked \subseteq unmarked' \/ RebuildCommit(p)
<1>1. MarkDirty(p, NoItem) \/ (\E i : MarkDirty(p, i)) => unmarked \subseteq unmarked'
  BY DEF MarkDirty
<1>2. CASE Task(p)
  BY <1>1, <1>2 DEF Task, BeginSync, BeginForget, BeginDecide, BeginRevoke, BeginRebuild
<1>3. CASE Leasing(p)
  BY <1>3 DEF Leasing, Acquire, Reap, GiveUp, Release, Leak, Refuse
<1>4. CASE Judge(p) \/ Write(p) \/ Crash(p)
  BY <1>4 DEF Judge, Write, Crash
<1>5. CASE Saving(p)
  BY <1>5 DEF Saving, Load, Append, Revoke, SaveFails, Unmark
<1>6. CASE Forgetting(p)
  BY <1>1, <1>6 DEF Forgetting, Scan, MarkMatch, MarkMatchFails, Remove, RemoveFails, Unlinked
<1>7. CASE Rebuilding(p)
  BY <1>1, <1>7 DEF Rebuilding, SelfMark, RebuildBegin, RebuildRead, Retire
<1> QED BY <1>2, <1>3, <1>4, <1>5, <1>6, <1>7 DEF Process

\* A step of p, whichever it is.
Moved(p) == /\ \/ at[p] # "off" /\ Sound(p) /\ Changes(p)
               \/ Rebuilds(p) /\ (Begun(p) \/ Perused(p) \/ Committed(p))
            /\ unmarked \subseteq unmarked' \/ Committed(p)
Others(p) == \A q \in Procs : q # p => at'[q] = at[q] /\ my'[q] = my[q]

LEMMA StepMoves ==
    ASSUME Typed, Emptied, Assigned, Jotted, NEW p \in Procs, Process(p)
    PROVE  Moved(p) /\ Others(p)
<1>1. Others(p)  BY Bystander DEF Others
<1>2. Moved(p)  BY Moves, BeginFacts, ReadFacts, CommitFacts, UnmarkedGrows DEF Moved
<1> QED BY <1>1, <1>2

LEMMA SoleKept ==
    ASSUME Sole, NEW p \in Procs, Moved(p), Others(p)
    PROVE  Sole'
<1>1. at[p] # "off"  BY DEF Moved, Rebuilds
<1> QED BY <1>1 DEF Sole, Others

LEMMA AssignedKept ==
    ASSUME Assigned, NEW p \in Procs, Moved(p), Others(p)
    PROVE  Assigned'
<1> SUFFICES ASSUME NEW q \in Procs
    PROVE /\ my'[q].todo # {} \/ my'[q].task = "forget" \/ at'[q] = "scan" => "forget" \in Roles[q]
          /\ my'[q].todo # {} \/ my'[q].task = "forget" => at'[q] # "off"
          /\ my'[q].todo # {} => at'[q] \in ForgetSteps
          /\ my'[q].task = "sync" \/ at'[q] = "write" => my'[q].content # NoFile
  BY DEF Assigned
<1>1. CASE q # p  BY <1>1 DEF Others, Assigned
<1>2. CASE q = p /\ Rebuilds(p)
  BY <1>2 DEF Rebuilds, Assigned, Snapshots
<1>3. CASE q = p /\ Sound(p) /\ Changes(p)
  <2>1. my'[p].todo # {} => at'[p] \in ForgetSteps /\ "forget" \in Roles[p]
    <3>1. CASE Passes(p) \/ Marks(p) \/ Drops(p)  BY <3>1 DEF Passes, Marks, Drops
    <3>2. CASE Carries(p)  BY <3>2 DEF Carries, Assigned, ForgetSteps
    <3>3. CASE Scans(p)  BY <3>3 DEF Scans, Assigned, ForgetSteps
    <3>4. CASE MarksMatch(p)  BY <3>4 DEF MarksMatch, Assigned, ForgetSteps
    <3>5. CASE Removes(p)  BY <3>5 DEF Removes, Assigned, ForgetSteps
    <3>6. CASE Unlinks(p)  BY <3>6 DEF Unlinks, Assigned, ForgetSteps
    <3> QED BY <1>3, <3>1, <3>2, <3>3, <3>4, <3>5, <3>6 DEF Changes, Forgets
  <2> QED BY <1>3, <2>1 DEF Sound
<1> QED BY <1>1, <1>2, <1>3 DEF Moved

LEMMA JottedKept ==
    ASSUME Jotted, NEW p \in Procs, Moved(p), Others(p)
    PROVE  Jotted'
  BY DEF Jotted, Others, Moved, Sound, Rebuilds

LEMMA CommittingKept ==
    ASSUME Committing, NEW p \in Procs, Moved(p), Others(p)
    PROVE  Committing'
<1> SUFFICES ASSUME NEW q \in Procs, at'[q] \in {"read", "commit"} PROVE tx' = q
  BY DEF Committing
<1>1. CASE Sound(p)
  BY <1>1 DEF Sound, Committing, Others, Snapshots
<1>2. CASE Begun(p)
  BY <1>2, GovernanceAssumption DEF Begun, Committing, Others
<1>3. CASE Perused(p)
  BY <1>3 DEF Perused, Committing, Others
<1>4. CASE Committed(p)
  BY <1>4 DEF Committed, Committing, Others
<1> QED BY <1>1, <1>2, <1>3, <1>4 DEF Moved

\* What became of marker n: a process that ends leaves it, a forget ticks it off.
From(p, n, m) ==
    /\ m.op = n.op /\ m.item = n.item
    /\ n.unlinked => m.unlinked
    /\ m.unlinked => n.unlinked \/ (at[p] = "unlink" /\ n.owner = p /\ n.item = my[p].item)
    /\ m.owner # n.owner => n.owner = p /\ m.owner = Gone /\ at'[p] = "idle"
New(p, m) ==
    /\ NewOp \in NewOps /\ m.op = NewOp /\ m.owner = p /\ ~ m.unlinked
    /\ (Marks(p) /\ m.item = NoItem) \/ (MarksMatch(p) /\ m.item \in my[p].todo)

LEMMA OrphanFrom ==
    ASSUME NEW ms \in SUBSET Marker, NEW p \in Procs
    PROVE  /\ \A m \in Orphaned(ms, p) : \E n \in ms :
                 /\ m.op = n.op /\ m.item = n.item /\ m.unlinked = n.unlinked
                 /\ m.owner = IF n.owner = p THEN Gone ELSE n.owner
                 /\ m = [n EXCEPT !.owner = IF @ = p THEN Gone ELSE @]
           /\ \A n \in ms : \E m \in Orphaned(ms, p) :
                 /\ m.op = n.op /\ m.item = n.item /\ m.unlinked = n.unlinked
                 /\ m.owner = IF n.owner = p THEN Gone ELSE n.owner
<1> DEFINE Heir(n) == [n EXCEPT !.owner = IF @ = p THEN Gone ELSE @]
<1>1. ASSUME NEW n \in ms
      PROVE  /\ Heir(n).op = n.op /\ Heir(n).item = n.item /\ Heir(n).unlinked = n.unlinked
             /\ Heir(n).owner = IF n.owner = p THEN Gone ELSE n.owner
  <2>1. n \in Marker  OBVIOUS
  <2> QED BY <2>1 DEF Marker
<1>2. \A n \in ms : Heir(n) \in Orphaned(ms, p)
  BY DEF Orphaned
<1>3. ASSUME NEW m \in Orphaned(ms, p)
      PROVE  \E n \in ms : m = Heir(n)
  BY DEF Orphaned
<1>4. \A n \in ms : Heir(n) = [n EXCEPT !.owner = IF @ = p THEN Gone ELSE @]
  OBVIOUS
<1> HIDE DEF Heir
<1> QED BY <1>1, <1>2, <1>3, <1>4

\* newID: no marker has the new id, and no process has seen it.
LEMMA NewMark ==
    ASSUME NEW p \in Procs, NEW i, MarkDirty(p, i)
    PROVE  /\ NewOp \in NewOps
           /\ NewOp \in OpIds
           /\ \A m \in marks : m.op # NewOp
           /\ \A q \in Procs : my[q].op # NewOp /\ \A m \in my[q].noted : m.op # NewOp
           /\ \A m \in marks' \ marks : m.op = NewOp /\ m.owner = p /\ ~ m.unlinked /\ m.item = i
           /\ \/ \E m \in marks' : m.op = NewOp /\ m.owner = p /\ ~ m.unlinked /\ m.item = i
              \/ i \in Items => i \in unmarked'
           /\ marks \subseteq marks'
           /\ \A m, n \in marks' \ marks : m = n
<1>1. NewOp \in NewOps  BY DEF MarkDirty, NewOp
<1> DEFINE new == [op |-> NewOp, item |-> i, owner |-> p, unlinked |-> FALSE]
<1>2. marks' = marks \cup {new} \/ (marks' = marks /\ (i \in Items => i \in unmarked'))
  BY DEF MarkDirty
<1>3. new.op = NewOp /\ new.owner = p /\ ~ new.unlinked /\ new.item = i  OBVIOUS
<1> HIDE DEF new
<1> QED BY <1>1, <1>2, <1>3 DEF NewOps

LEMMA Origins ==
    ASSUME Typed, NEW p \in Procs, Moved(p), NEW m \in marks'
    PROVE  New(p, m) \/ \E n \in marks : From(p, n, m)
<1> USE DEF From
<1>0. marks \in SUBSET Marker  BY DEF Typed, TypeOK
<1>1. CASE marks' = marks  BY <1>1
<1>2. CASE Marks(p)
  <2>1. MarkDirty(p, NoItem)  BY <1>2 DEF Marks
  <2>2. CASE m \in marks  BY <2>2
  <2>3. CASE m \notin marks
    <3>1. m.op = NewOp /\ m.owner = p /\ ~ m.unlinked /\ m.item = NoItem /\ NewOp \in NewOps
      BY <2>1, <2>3, NewMark
    <3> QED BY <1>2, <3>1 DEF New
  <2> QED BY <2>2, <2>3
<1>3. CASE MarksMatch(p)
  <2>1. PICK i \in Untried(p) : MarkDirty(p, i)  BY <1>3 DEF MarksMatch
  <2>2. i \in my[p].todo  BY DEF Untried
  <2> QED BY <1>3, <2>1, <2>2, NewMark DEF New
<1>4. CASE Drops(p)
  <2>1. PICK ms \in SUBSET marks :
          (marks' = Orphaned(ms, p) /\ at'[p] = "idle") \/ marks' = ms
    BY <1>4 DEF Drops
  <2>2. CASE marks' = ms  BY <2>2
  <2>3. CASE marks' = Orphaned(ms, p) /\ at'[p] = "idle"
    <3>1. ms \in SUBSET Marker  BY <1>0
    <3>2. PICK n \in ms : /\ m.op = n.op /\ m.item = n.item /\ m.unlinked = n.unlinked
                          /\ m.owner = IF n.owner = p THEN Gone ELSE n.owner
      BY <2>3, <3>1, OrphanFrom
    <3> QED BY <2>3, <3>2
  <2> QED BY <2>1, <2>2, <2>3
<1>5. CASE Unlinks(p)
  <2> DEFINE mine == {x \in DeleteMarks(p) : x.item = my[p].item}
  <2>1. at[p] = "unlink" /\ marks' \in {marks, (marks \ mine) \cup {[x EXCEPT !.unlinked = TRUE] : x \in mine}}
    BY <1>5 DEF Unlinks
  <2>2. CASE m \in marks  BY <2>2
  <2>3. CASE m \notin marks
    <3>1. PICK x \in mine : m = [x EXCEPT !.unlinked = TRUE]  BY <2>1, <2>3
    <3>2. x \in marks /\ x.owner = p /\ x.item = my[p].item  BY DEF DeleteMarks
    <3>3. m.op = x.op /\ m.item = x.item /\ m.owner = x.owner /\ m.unlinked
      BY <1>0, <3>1, <3>2 DEF Marker
    <3> QED BY <2>1, <3>2, <3>3
  <2> QED BY <2>2, <2>3
<1> QED BY <1>1, <1>2, <1>3, <1>4, <1>5
       DEF Moved, Changes, Forgets, Rebuilds, Passes, Carries, Scans, Removes

LEMMA UniqueKept ==
    ASSUME Typed, Traced, NEW p \in Procs, Moved(p)
    PROVE  \A m, n \in marks' : m.op = n.op => m = n
<1>0. marks \in SUBSET Marker /\ \A m, n \in marks : m.op = n.op => m = n
  BY DEF Typed, TypeOK, Traced
<1> SUFFICES ASSUME NEW m \in marks', NEW n \in marks', m.op = n.op PROVE m = n
  OBVIOUS
<1>1. CASE marks' = marks  BY <1>0, <1>1
<1>2. CASE \E i : MarkDirty(p, i)
  <2>1. PICK i : MarkDirty(p, i)  BY <1>2
  <2> QED BY <1>0, <2>1, NewMark
<1>4. CASE Drops(p)
  <2>1. PICK ms \in SUBSET marks : marks' = Orphaned(ms, p) \/ marks' = ms
    BY <1>4 DEF Drops
  <2>2. CASE marks' = ms  BY <1>0, <2>2
  <2>3. CASE marks' = Orphaned(ms, p)
    <3>1. ms \in SUBSET Marker  BY <1>0
    <3>2. PICK a \in ms : m.op = a.op /\ m = [a EXCEPT !.owner = IF @ = p THEN Gone ELSE @]
      BY <2>3, <3>1, OrphanFrom
    <3>3. PICK b \in ms : n.op = b.op /\ n = [b EXCEPT !.owner = IF @ = p THEN Gone ELSE @]
      BY <2>3, <3>1, OrphanFrom
    <3> QED BY <1>0, <3>2, <3>3
  <2> QED BY <2>1, <2>2, <2>3
<1>5. CASE Unlinks(p)
  <2> DEFINE mine == {x \in DeleteMarks(p) : x.item = my[p].item}
  <2>1. marks' \in {marks, (marks \ mine) \cup {[x EXCEPT !.unlinked = TRUE] : x \in mine}}
    BY <1>5 DEF Unlinks
  <2>2. CASE marks' = marks  BY <1>0, <2>2
  <2>3. CASE marks' = (marks \ mine) \cup {[x EXCEPT !.unlinked = TRUE] : x \in mine}
    <3>1. ASSUME NEW y \in marks'
          PROVE  \E x \in marks : /\ y.op = x.op
                                  /\ y = IF x \in mine THEN [x EXCEPT !.unlinked = TRUE] ELSE x
      <4>1. CASE y \in marks \ mine  BY <4>1
      <4>2. CASE y \notin marks \ mine
        <5>1. PICK x \in mine : y = [x EXCEPT !.unlinked = TRUE]  BY <2>3, <4>2
        <5>2. x \in marks  BY DEF DeleteMarks
        <5>3. y.op = x.op  BY <1>0, <5>1, <5>2 DEF Marker
        <5> QED BY <5>1, <5>2, <5>3
      <4> QED BY <4>1, <4>2
    <3>2. PICK a \in marks : m.op = a.op /\ m = IF a \in mine THEN [a EXCEPT !.unlinked = TRUE] ELSE a
      BY <3>1
    <3>3. PICK b \in marks : n.op = b.op /\ n = IF b \in mine THEN [b EXCEPT !.unlinked = TRUE] ELSE b
      BY <3>1
    <3> HIDE DEF mine
    <3> QED BY <1>0, <3>2, <3>3
  <2> QED BY <2>1, <2>2, <2>3
<1> QED BY <1>1, <1>2, <1>4, <1>5
       DEF Moved, Changes, Forgets, Rebuilds, Passes, Carries, Scans, Removes, Marks, MarksMatch

LEMMA TracedKept ==
    ASSUME Typed, Traced, NEW p \in Procs, Moved(p), Others(p)
    PROVE  Traced'
<1>1. \A m, n \in marks' : m.op = n.op => m = n  BY UniqueKept
<1>2. ASSUME NEW q \in Procs, NEW n \in my'[q].noted, NEW m \in marks', n.op = m.op
      PROVE  n.item = m.item /\ (n.unlinked => m.unlinked)
  <2>1. CASE n \in my[q].noted
    <3>1. ~ New(p, m)  BY <1>2, <2>1 DEF New, NewOps
    <3>2. PICK o \in marks : From(p, o, m)  BY <3>1, Origins
    <3> QED BY <1>2, <2>1, <3>2 DEF From, Traced
  <2>2. CASE n \notin my[q].noted
    <3>1. q = p /\ my'[p].noted # {} /\ my'[p].noted # my[p].noted  BY <2>2 DEF Others
    <3>2. Begun(p) /\ marks' = marks
      BY <3>1 DEF Moved, Sound, Perused, Committed, Rebuilds
    <3> QED BY <1>1, <1>2, <3>1, <3>2 DEF Begun
  <2> QED BY <2>1, <2>2
<1>3. ASSUME NEW q \in Procs, NEW m \in marks', m.op = my'[q].op
      PROVE  m.item = NoItem
  <2>1. CASE my'[q].op = my[q].op
    <3>1. ~ New(p, m)  BY <1>3, <2>1 DEF New, NewOps
    <3>2. PICK o \in marks : From(p, o, m)  BY <3>1, Origins
    <3> QED BY <1>3, <2>1, <3>2 DEF From, Traced
  <2>2. CASE my'[q].op # my[q].op
    <3>1. q = p  BY <2>2 DEF Others
    <3>2. my'[p].op = NoId \/ (Marks(p) /\ my'[p].op = NewOp)
      BY <2>2, <3>1 DEF Moved, Changes, Forgets, Rebuilds, Passes, Carries, Marks, Drops,
                        Scans, MarksMatch, Removes, Unlinks
    <3>3. CASE my'[p].op = NoId
      <4>1. m.op \in OpIds
        <5>1. CASE New(p, m)  BY <5>1 DEF New, NewOps
        <5>2. CASE \E o \in marks : From(p, o, m)
          BY <5>2 DEF From, Typed, TypeOK, Marker
        <5> QED BY <5>1, <5>2, Origins
      <4> QED BY <1>3, <3>1, <3>3, <4>1, GovernanceAssumption
    <3>4. CASE Marks(p) /\ my'[p].op = NewOp
      <4>1. MarkDirty(p, NoItem)  BY <3>4 DEF Marks
      <4> QED BY <1>3, <3>1, <3>4, <4>1, NewMark
    <3> QED BY <3>2, <3>3, <3>4
  <2> QED BY <2>1, <2>2
<1> QED BY <1>1, <1>2, <1>3 DEF Traced

LEMMA MarksOwnedKept ==
    ASSUME Typed, MarksOwned, NEW p \in Procs, Moved(p), Others(p)
    PROVE  MarksOwned'
<1> SUFFICES ASSUME NEW m \in marks', NEW q \in Procs, m.item # NoItem, m.owner = q
             PROVE  /\ at'[q] \notin Early
                    /\ at'[q] \in {"dirty", "save"} => m.item \in my'[q].todo
  BY DEF MarksOwned
<1>1. CASE New(p, m)
  <2>1. MarksMatch(p) /\ q = p /\ m.item \in my[p].todo  BY <1>1 DEF New
  <2> QED BY <2>1 DEF MarksMatch, Early
<1>2. CASE \E n \in marks : From(p, n, m)
  <2>1. PICK n \in marks : From(p, n, m)  BY <1>2
  <2>2. n.item = m.item /\ n.owner = q  BY <2>1, GovernanceAssumption DEF From
  <2>3. /\ at[q] \notin Early
        /\ at[q] \in {"dirty", "save"} => m.item \in my[q].todo
    BY <2>2 DEF MarksOwned
  <2>4. CASE q # p  BY <2>3, <2>4 DEF Others
  <2>5. CASE q = p /\ Rebuilds(p)
    BY <2>5 DEF Rebuilds, Snapshots, Early
  <2>6. CASE q = p /\ Passes(p)
    BY <2>3, <2>6 DEF Passes
  <2>7. CASE q = p /\ Carries(p)
    BY <2>7 DEF Carries, Early
  <2>8. CASE q = p /\ Marks(p)
    BY <2>3, <2>8 DEF Marks, Early
  <2>9. CASE q = p /\ Drops(p)
    <3>1. PICK ms \in SUBSET marks :
            marks' = Orphaned(ms, p) \/ (marks' = ms /\ at'[p] = "release")
      BY <2>9 DEF Drops
    <3>2. CASE marks' = Orphaned(ms, p)
      <4>1. ms \in SUBSET Marker  BY DEF Typed, TypeOK
      <4>2. m.owner # p  BY <3>2, <4>1, OrphanFrom, GovernanceAssumption
      <4> QED BY <2>9, <4>2
    <3>3. CASE at'[p] = "release"  BY <2>9, <3>3 DEF Early
    <3> QED BY <3>1, <3>2, <3>3
  <2>10. CASE q = p /\ Forgets(p)
    BY <2>3, <2>10 DEF Forgets, Scans, MarksMatch, Removes, Unlinks, Early
  <2> QED BY <2>4, <2>5, <2>6, <2>7, <2>8, <2>9, <2>10 DEF Moved, Changes
<1> QED BY <1>1, <1>2, Origins

\* A marker that q spares is spared after a step, whoever owns it then.
LEMMA SparesKept ==
    ASSUME Typed, Traced, NEW p \in Procs, Moved(p), Others(p), NEW q \in Procs,
           NEW n, NEW m, n.op = m.op, n.item = m.item, Spares(q, n), ~ Begun(p) \/ q # p
    PROVE  Spares(q, m)'
<1>1. CASE q # p  BY <1>1 DEF Others, Spares
<1>2. CASE q = p
  <2>1. CASE my'[p].noted = {}  BY <1>2, <2>1 DEF Spares
  <2>2. CASE my'[p].noted = my[p].noted /\ my'[p].listed = my[p].listed
    BY <1>2, <2>2 DEF Spares
  <2> QED BY <1>2, <2>1, <2>2 DEF Moved, Sound, Perused, Committed
<1> QED BY <1>1, <1>2

\* A rebuild that retires markers, and every other step, leaves a marker whose
\* memory has no file, unless the rebuild noted it and will not spare it.
LEMMA Survives ==
    ASSUME Typed, Traced, MarksOwned, NEW p \in Procs, Armed(p), Moved(p),
           NEW n \in marks, n.item \in Items, vault[n.item] = NoFile,
           at[p] = "retire" => Spares(p, n)
    PROVE  \E m \in marks' : m.op = n.op /\ m.item = n.item
<1>0. marks \in SUBSET Marker  BY DEF Typed, TypeOK
<1>1. CASE marks' = marks  BY <1>1
<1>2. CASE \E i : MarkDirty(p, i)
  <2>1. PICK i : MarkDirty(p, i)  BY <1>2
  <2> QED BY <2>1, NewMark
<1>3. CASE Drops(p)
  <2>1. ~ Dropped(p, n)
    <3>1. ~ (n \in DeleteMarks(p) /\ at[p] \in {"dirty", "save"})
      <4> SUFFICES ASSUME n \in DeleteMarks(p), at[p] \in {"dirty", "save"} PROVE FALSE
        OBVIOUS
      <4>1. n.item \in my[p].todo  BY DEF DeleteMarks, MarksOwned
      <4> QED BY <4>1 DEF Armed, Ahead, ForgetSteps
    <3>2. n.op # my[p].op  BY GovernanceAssumption DEF Traced
    <3>3. ASSUME at[p] = "retire", NEW o \in my[p].noted, o.op = n.op, Retirable(p, o) PROVE FALSE
      <4>1. o.item = n.item /\ ~ o.unlinked /\ n.item \in my[p].listed
        BY <3>3 DEF Traced, Spares
      <4> QED BY <3>3, <4>1, GovernanceAssumption DEF Retirable, Parsed
    <3> QED BY <3>1, <3>2, <3>3 DEF Dropped
  <2>2. PICK ms \in SUBSET marks :
          /\ \A m \in marks \ ms : Dropped(p, m)
          /\ marks' = Orphaned(ms, p) \/ marks' = ms
    BY <1>3 DEF Drops
  <2>3. n \in ms  BY <2>1, <2>2
  <2>4. ms \in SUBSET Marker  BY <1>0
  <2> QED BY <2>2, <2>3, <2>4, OrphanFrom
<1>4. CASE Unlinks(p)
  <2> DEFINE mine == {x \in DeleteMarks(p) : x.item = my[p].item}
  <2>1. marks' \in {marks, (marks \ mine) \cup {[x EXCEPT !.unlinked = TRUE] : x \in mine}}
    BY <1>4 DEF Unlinks
  <2>2. CASE n \notin mine  BY <2>1, <2>2
  <2>3. CASE n \in mine
    <3>1. [n EXCEPT !.unlinked = TRUE].op = n.op /\ [n EXCEPT !.unlinked = TRUE].item = n.item
      BY <1>0 DEF Marker
    <3> QED BY <2>1, <2>3, <3>1
  <2> QED BY <2>2, <2>3
<1> QED BY <1>1, <1>2, <1>3, <1>4
       DEF Moved, Changes, Forgets, Rebuilds, Passes, Carries, Scans, Removes, Marks, MarksMatch

\* A memory that loses its file was removed by a forget that had marked it, or
\* could not look whether to.
LEMMA Vanishes ==
    ASSUME Typed, Assigned, NEW p \in Procs, Armed(p), Moved(p),
           NEW i \in Items, vault[i] # NoFile, vault'[i] = NoFile
    PROVE  /\ Removes(p) /\ i \in Ahead(p)
           /\ i \in unmarked \/ \E m \in marks : m.item = i /\ \A q \in Procs : Spares(q, m)
<1>1. ~ Write(p)
  <2> SUFFICES ASSUME Write(p) PROVE FALSE  OBVIOUS
  <2>1. at[p] = "write" /\ vault' = [vault EXCEPT ![my[p].item] = my[p].content]  BY DEF Write
  <2> QED BY <2>1 DEF Assigned, Typed, TypeOK, Vault
<1>2. Removes(p)
  BY <1>1 DEF Moved, Changes, Forgets, Rebuilds, Passes, Carries, Marks, Drops,
              Scans, MarksMatch, Removes, Unlinks
<1>3. i = my'[p].item
  BY <1>2 DEF Removes, Typed, TypeOK, Vault
<1>4. i \in Ahead(p) /\ at[p] = "remove"  BY <1>2, <1>3 DEF Removes, Ahead
<1>5. ASSUME i \notin unmarked
      PROVE  \E m \in marks : m.item = i /\ \A q \in Procs : Spares(q, m)
  <2>1. PICK m \in DeleteMarks(p) : m.item = i  BY <1>4, <1>5 DEF Armed, ForgetSteps
  <2>2. m \in marks /\ \A q \in Procs : Spares(q, m)
    BY <1>4, <2>1 DEF Armed, ForgetSteps, DeleteMarks
  <2> QED BY <2>1, <2>2
<1> QED BY <1>2, <1>4, <1>5

LEMMA LastingKept ==
    ASSUME Typed, Assigned, Traced, MarksOwned, NEW p \in Procs, Armed(p), Moved(p), Others(p),
           NEW i \in Items \ unmarked, NEW q, q # p, vault'[i] = NoFile,
           vault[i] = NoFile => Lasting(i, q),
           ~ Committed(p)
    PROVE  Lasting(i, q)'
<1>1. \A r \in Procs : at'[r] = "retire" \/ r = q => r # p /\ (at[r] = "retire" \/ r = q)
  BY DEF Moved, Sound, Begun, Perused, Others, Snapshots
<1>2. CASE vault[i] = NoFile
  <2>1. PICK n \in marks :
          n.item = i /\ \A r \in Procs : at[r] = "retire" \/ r = q => Spares(r, n)
    BY <1>2 DEF Lasting
  <2>2. PICK m \in marks' : m.op = n.op /\ m.item = n.item
    BY <1>2, <2>1, Survives
  <2>3. \A r \in Procs : at'[r] = "retire" \/ r = q => Spares(r, m)'
    BY <1>1, <2>1, <2>2, SparesKept
  <2> QED BY <2>1, <2>2, <2>3 DEF Lasting
<1>3. CASE vault[i] # NoFile
  <2>1. Removes(p)  BY <1>3, Vanishes
  <2>2. PICK m \in marks : m.item = i /\ \A r \in Procs : Spares(r, m)
    BY <1>3, Vanishes
  <2>3. m \in marks'  BY <2>1 DEF Removes
  <2>4. \A r \in Procs : at'[r] = "retire" \/ r = q => Spares(r, m)'
    BY <1>1, <2>2, SparesKept
  <2> QED BY <2>2, <2>3, <2>4 DEF Lasting
<1> QED BY <1>2, <1>3

LEMMA HiddenKept ==
    ASSUME Typed, Assigned, Traced, MarksOwned, Hidden, WillBeHidden,
           NEW p \in Procs, Armed(p), Moved(p), Others(p)
    PROVE  Hidden'
<1> SUFFICES ASSUME NEW i \in rows' \ unmarked', vault'[i] = NoFile PROVE Lasting(i, Nobody)'
  BY DEF Hidden
<1>1. CASE Committed(p)
  <2>1. rows' = Parsed(p) /\ marks' = marks /\ vault' = vault /\ my'[p] = my[p]
        /\ at[p] = "commit" /\ unmarked' = unmarked \ CaughtUp(p)
    BY <1>1 DEF Committed, Moved, Rebuilds, Sound, Snapshots
  <2>6. i \notin unmarked
    <3>1. i \in Parsed(p) /\ i \notin Present  BY <2>1 DEF Present
    <3> QED BY <2>1, <3>1 DEF CaughtUp
  <2>2. PICK m \in marks : m.item = i /\ \A r \in Procs : at[r] = "retire" \/ r = p => Spares(r, m)
    BY <2>1, <2>6 DEF WillBeHidden, Lasting
  <2>3. \A r \in Procs : my'[r] = my[r]  BY <2>1 DEF Others
  <2>4. \A r \in Procs : Spares(r, m) => Spares(r, m)'  BY <2>3 DEF Spares
  <2>5. \A r \in Procs : at'[r] = "retire" => at[r] = "retire" \/ r = p  BY DEF Others
  <2> QED BY <2>1, <2>2, <2>4, <2>5, GovernanceAssumption DEF Lasting
<1>2. CASE ~ Committed(p)
  <2>1. rows' = rows  BY <1>2 DEF Moved, Sound, Begun, Perused
  <2>2. i \in Items \ unmarked  BY <1>2, <2>1 DEF Typed, TypeOK, Moved
  <2>3. vault[i] = NoFile => Lasting(i, Nobody)  BY <2>1, <2>2 DEF Hidden
  <2>4. Nobody # p  BY GovernanceAssumption
  <2> QED BY <1>2, <2>2, <2>3, <2>4, LastingKept
<1> QED BY <1>1, <1>2

LEMMA WillBeHiddenKept ==
    ASSUME Typed, Assigned, Committing, Traced, MarksOwned, WillBeHidden,
           NEW p \in Procs, Armed(p), Moved(p), Others(p)
    PROVE  WillBeHidden'
<1> SUFFICES ASSUME NEW q \in Procs, at'[q] = "commit", NEW i \in Parsed(q)' \ unmarked', vault'[i] = NoFile
             PROVE  Lasting(i, q)'
  BY DEF WillBeHidden
<1>1. CASE q = p
  <2>1. Perused(p) /\ vault' = vault
    BY <1>1 DEF Moved, Sound, Begun, Committed, Rebuilds, Snapshots
  <2> QED BY <1>1, <2>1 DEF Perused, Parsed
<1>2. CASE q # p
  <2>1. at[q] = "commit" /\ my'[q] = my[q]  BY <1>2 DEF Others
  <2>2. i \in Parsed(q)  BY <2>1 DEF Parsed
  <2>5. ~ Committed(p)  BY <1>2, <2>1 DEF Committed, Committing
  <2>3. i \in Items \ unmarked  BY <2>2, <2>5 DEF Parsed, Typed, TypeOK, Locals, Moved
  <2>4. vault[i] = NoFile => Lasting(i, q)  BY <2>1, <2>2, <2>3 DEF WillBeHidden
  <2> QED BY <1>2, <2>3, <2>4, <2>5, LastingKept
<1> QED BY <1>1, <1>2

\* The files and the markers of a forget in progress, at a step of another process.
LEMMA ArmedByOthers ==
    ASSUME Typed, Sole, Assigned, Traced, MarksOwned, NEW p \in Procs, Moved(p), Others(p),
           NEW q \in Procs, q # p, Armed(q), Armed(p)
    PROVE  Armed(q)'
<1> SUFFICES ASSUME at'[q] \in ForgetSteps PROVE Armed(q)'  BY DEF Armed
<1>0. at'[q] = at[q] /\ my'[q] = my[q] /\ Ahead(q)' = Ahead(q)  BY DEF Others, Ahead
<1>1. ASSUME NEW i \in Ahead(q) PROVE vault'[i] # NoFile
  <2>1. vault[i] # NoFile /\ i \in my[q].todo  BY <1>0, <1>1 DEF Armed, Ahead
  <2>2. i \in Items  BY <2>1 DEF Typed, TypeOK, Locals
  <2>3. SUFFICES ASSUME vault'[i] = NoFile PROVE FALSE  OBVIOUS
  <2>4. i \in Ahead(p) /\ at[p] = "remove"  BY <2>1, <2>2, <2>3, Vanishes DEF Removes
  <2>5. my[p].todo # {} /\ my[q].todo # {}  BY <2>1, <2>4 DEF Ahead
  <2> QED BY <2>5 DEF Assigned, Sole
<1>2. ASSUME NEW n \in DeleteMarks(q), n.item \in Ahead(q)
      PROVE  \E m \in marks' : m.op = n.op /\ m.item = n.item /\ m.owner = q
  <2>0. marks \in SUBSET Marker /\ n \in marks /\ n.owner = q
        /\ ~ n.unlinked /\ (\A r \in Procs : Spares(r, n)) /\ n.item # NoItem
    BY <1>0, <1>2 DEF Typed, TypeOK, Armed, DeleteMarks
  <2>1. CASE marks' = marks  BY <2>0, <2>1
  <2>2. CASE \E i : MarkDirty(p, i)
    <3>1. PICK i : MarkDirty(p, i)  BY <2>2
    <3> QED BY <2>0, <3>1, NewMark
  <2>3. CASE Drops(p)
    <3>1. ~ Dropped(p, n)
      <4>1. n \notin DeleteMarks(p)  BY <2>0 DEF DeleteMarks
      <4>2. n.op # my[p].op  BY <2>0 DEF Traced
      <4>3. ASSUME at[p] = "retire", NEW o \in my[p].noted, o.op = n.op, Retirable(p, o) PROVE FALSE
        <5>1. o.item = n.item /\ ~ o.unlinked /\ n.item \in my[p].listed
          BY <2>0, <4>3 DEF Traced, Spares
        <5>2. ASSUME NEW m \in marks, m.op = o.op, m.owner = Gone PROVE FALSE
          BY <2>0, <4>3, <5>2, GovernanceAssumption DEF Traced
        <5> QED BY <2>0, <4>3, <5>1, <5>2 DEF Retirable
      <4> QED BY <4>1, <4>2, <4>3 DEF Dropped
    <3>2. PICK ms \in SUBSET marks :
            /\ \A m \in marks \ ms : Dropped(p, m)
            /\ marks' = Orphaned(ms, p) \/ marks' = ms
      BY <2>3 DEF Drops
    <3>3. n \in ms /\ ms \in SUBSET Marker  BY <2>0, <3>1, <3>2
    <3> QED BY <2>0, <3>2, <3>3, OrphanFrom
  <2>4. CASE Unlinks(p)
    <3>1. n \notin DeleteMarks(p)  BY <2>0 DEF DeleteMarks
    <3> QED BY <2>0, <2>4, <3>1 DEF Unlinks
  <2> QED BY <2>1, <2>2, <2>3, <2>4
         DEF Moved, Changes, Forgets, Rebuilds, Passes, Carries, Scans, Removes, Marks, MarksMatch
<1>5. ASSUME NEW i \in Ahead(q) \ unmarked' PROVE i \notin unmarked
  BY DEF Ahead, Moved, Committed, CaughtUp
<1>3. ASSUME NEW i \in Ahead(q) \ unmarked', ~ (at[q] = "dirty" /\ i \notin my[q].tried)
      PROVE  \E m \in marks' : m.owner = q /\ m.item # NoItem /\ m.item = i
  <2>1. PICK n \in DeleteMarks(q) : n.item = i  BY <1>0, <1>3, <1>5 DEF Armed
  <2>2. n.item # NoItem  BY DEF DeleteMarks
  <2> QED BY <1>2, <1>3, <2>1, <2>2
<1>4. ASSUME NEW m \in marks', m.owner = q, m.item \in Ahead(q), m.item # NoItem
      PROVE  ~ m.unlinked /\ \A r \in Procs : Spares(r, m)'
  <2>1. ~ New(p, m)  BY <1>4 DEF New
  <2>2. PICK n \in marks : From(p, n, m)  BY <2>1, Origins
  <2>3. n.owner = q  BY <1>4, <2>2, GovernanceAssumption DEF From
  <2>4. n \in DeleteMarks(q) /\ n.item \in Ahead(q)  BY <1>4, <2>2, <2>3 DEF DeleteMarks, From
  <2>5. ~ n.unlinked /\ \A r \in Procs : Spares(r, n)  BY <1>0, <2>4 DEF Armed
  <2>6. ~ m.unlinked  BY <2>2, <2>3, <2>5 DEF From
  <2>7. ASSUME NEW r \in Procs PROVE Spares(r, m)'
    <3>1. CASE ~ Begun(p) \/ r # p
      BY <2>2, <2>5, <3>1, SparesKept DEF From
    <3>2. CASE Begun(p) /\ r = p
      <4>1. marks' = marks /\ my'[p].noted = marks /\ my'[p].listed = Present
        BY <3>2 DEF Begun, Moved, Rebuilds, Sound, Snapshots
      <4>2. m.item \in Present
        <5>1. vault[m.item] # NoFile  BY <1>0, <1>4 DEF Armed
        <5>2. m.item \in Items  BY <1>4 DEF Ahead, Typed, TypeOK, Locals
        <5> QED BY <5>1, <5>2 DEF Present
      <4>3. \A n2 \in marks : n2.op = m.op => ~ n2.unlinked
        BY <2>6, <4>1 DEF Traced
      <4> QED BY <3>2, <4>1, <4>2, <4>3 DEF Spares
    <3> QED BY <3>1, <3>2
  <2> QED BY <2>6, <2>7
<1> QED BY <1>0, <1>1, <1>3, <1>4 DEF Armed, DeleteMarks

LEMMA ArmedByItself ==
    ASSUME Typed, Assigned, Traced, MarksOwned, NEW p \in Procs, Moved(p), Others(p), Armed(p)
    PROVE  Armed(p)'
<1> SUFFICES ASSUME at'[p] \in ForgetSteps PROVE Armed(p)'  BY DEF Armed
<1>0. unmarked \subseteq unmarked'  BY DEF Moved, Committed, ForgetSteps
<1>1. CASE my'[p].todo = {}
  <2>1. Ahead(p)' = {}  BY <1>1 DEF Ahead
  <2> QED BY <2>1 DEF Armed
<1>2. CASE Carries(p)
  <2>1. Ahead(p)' = Ahead(p) /\ at[p] \in ForgetSteps /\ at[p] # "dirty"
    BY <1>2 DEF Ahead, Carries, ForgetSteps
  <2>2. \A r \in Procs, m \in marks : Spares(r, m) => Spares(r, m)'
    BY <1>2, SparesKept DEF Carries, Begun
  <2> QED BY <1>0, <1>2, <2>1, <2>2 DEF Armed, Carries, DeleteMarks
<1>3. CASE Scans(p)
  <2>1. /\ at[p] = "scan" /\ marks' = marks /\ vault' = vault
        /\ \A i \in my'[p].todo : vault[i] # NoFile
        /\ at'[p] = "dirty" \/ my'[p].todo = {}
        /\ Ahead(p)' = my'[p].todo
    BY <1>3 DEF Scans, Ahead
  <2>2. \A m \in marks : m.owner = p => m.item = NoItem  BY <2>1 DEF MarksOwned, Early
  <2> QED BY <1>3, <2>1, <2>2 DEF Armed, DeleteMarks, Scans
<1>4. CASE MarksMatch(p)
  <2>1. PICK i \in Untried(p) : /\ MarkDirty(p, i) /\ my'[p].tried = my[p].tried \cup {i}
                                /\ at'[p] = "save" => Untried(p) = {i}
    BY <1>4 DEF MarksMatch
  <2>2. /\ at[p] = "dirty" /\ at'[p] \in {"dirty", "save"} /\ vault' = vault
        /\ Ahead(p) = my[p].todo /\ Ahead(p)' = my[p].todo
    BY <1>4 DEF MarksMatch, Ahead
  <2>3. i \in my[p].todo /\ i # NoItem
    BY GovernanceAssumption DEF Untried, Typed, TypeOK, Locals
  <2>4. \A j \in my[p].todo : vault[j] # NoFile  BY <2>2 DEF Armed, ForgetSteps
  <2>5. ASSUME NEW j \in my[p].todo \ unmarked', at'[p] = "save" \/ j \in my'[p].tried
        PROVE  \E m \in marks' : m.owner = p /\ m.item # NoItem /\ m.item = j
    <3>1. CASE j = i
      <4>1. i \in Items  BY <2>3 DEF Typed, TypeOK, Locals
      <4> QED BY <2>1, <2>3, <2>5, <3>1, <4>1, NewMark
    <3>2. CASE j # i
      <4>1. j \in my[p].tried  BY <2>1, <2>5, <3>2 DEF Untried
      <4>2. \E m \in marks : m.owner = p /\ m.item # NoItem /\ m.item = j
        BY <1>0, <2>2, <2>5, <4>1 DEF Armed, ForgetSteps, DeleteMarks
      <4> QED BY <2>1, <4>2, NewMark
    <3> QED BY <3>1, <3>2
  <2>6. ASSUME NEW m \in marks', m.owner = p, m.item # NoItem, m.item \in my[p].todo
        PROVE  ~ m.unlinked /\ \A r \in Procs : Spares(r, m)'
    <3>1. CASE m \in marks
      <4>1. ~ m.unlinked /\ \A r \in Procs : Spares(r, m)
        BY <2>2, <2>6, <3>1 DEF Armed, ForgetSteps, DeleteMarks
      <4>2. ~ Begun(p)  BY <2>2 DEF Begun
      <4> QED BY <4>1, <4>2, SparesKept
    <3>2. CASE m \notin marks
      <4>1. m.op = NewOp /\ ~ m.unlinked /\ NewOp \in NewOps  BY <2>1, <2>6, <3>2, NewMark
      <4>2. \A r \in Procs : my'[r].noted = {} \/ my'[r] = my[r]  BY <1>4 DEF MarksMatch, Others
      <4> QED BY <4>1, <4>2 DEF Spares, NewOps
    <3> QED BY <3>1, <3>2
  <2> QED BY <2>2, <2>4, <2>5, <2>6 DEF Armed, DeleteMarks
<1>5. CASE Removes(p)
  <2>1. /\ at[p] = "remove" /\ at'[p] = "unlink" /\ marks' = marks
        /\ Ahead(p)' = Ahead(p) \ {my'[p].item} /\ vault' = [vault EXCEPT ![my'[p].item] = NoFile]
        /\ Ahead(p) \subseteq Items
    BY <1>5 DEF Removes, Ahead, Typed, TypeOK, Locals
  <2>2. \A r \in Procs, m \in marks : Spares(r, m) => Spares(r, m)'
    BY <2>1, SparesKept DEF Begun
  <2>3. \A i \in Ahead(p) \ {my'[p].item} : vault'[i] = vault[i]
    BY <2>1 DEF Typed, TypeOK, Vault
  <2> QED BY <1>0, <2>1, <2>2, <2>3 DEF Armed, ForgetSteps, DeleteMarks
<1>6. CASE Unlinks(p)
  <2>1. /\ at[p] = "unlink" /\ vault' = vault /\ Ahead(p) = my[p].todo \ {my[p].item}
        /\ Ahead(p)' = Ahead(p)
    BY <1>6 DEF Unlinks, Ahead
  <2> DEFINE mine == {x \in DeleteMarks(p) : x.item = my[p].item}
  <2>2. marks' \in {marks, (marks \ mine) \cup {[x EXCEPT !.unlinked = TRUE] : x \in mine}}
    BY <1>6 DEF Unlinks
  <2>3. ASSUME NEW i \in Ahead(p) \ unmarked' PROVE \E m \in marks' : m.owner = p /\ m.item # NoItem /\ m.item = i
    <3>1. PICK n \in DeleteMarks(p) : n.item = i  BY <1>0, <2>1, <2>3 DEF Armed, ForgetSteps
    <3>2. n \notin mine  BY <2>1, <2>3, <3>1
    <3> QED BY <2>2, <3>1, <3>2 DEF DeleteMarks
  <2>4. ASSUME NEW m \in marks', m.owner = p, m.item # NoItem, m.item \in Ahead(p)
        PROVE  ~ m.unlinked /\ \A r \in Procs : Spares(r, m)'
    <3>1. ~ New(p, m)  BY <2>1 DEF New, Marks, MarksMatch
    <3>2. PICK n \in marks : From(p, n, m)  BY <3>1, Origins
    <3>3. n.owner = p  BY <2>4, <3>2 DEF From
    <3>4. ~ n.unlinked /\ \A r \in Procs : Spares(r, n)
      BY <2>1, <2>4, <3>2, <3>3 DEF Armed, ForgetSteps, DeleteMarks, From
    <3>5. ~ m.unlinked  BY <2>1, <2>4, <3>2, <3>4 DEF From
    <3>6. ~ Begun(p)  BY <2>1 DEF Begun
    <3> QED BY <3>2, <3>4, <3>5, <3>6, SparesKept DEF From
  <2> QED BY <2>1, <2>3, <2>4 DEF Armed, ForgetSteps, DeleteMarks
<1> QED BY <1>1, <1>2, <1>3, <1>4, <1>5, <1>6
       DEF Moved, Changes, Forgets, Rebuilds, Passes, Marks, Drops

LEMMA KeptStep ==
    ASSUME Kept, NEW p \in Procs, Process(p), Typed'
    PROVE  Kept'
<1>1. Moved(p) /\ Others(p)  BY StepMoves DEF Kept
<1>2. Sole' /\ Assigned' /\ Jotted' /\ Committing' /\ Traced' /\ MarksOwned'
  BY <1>1, SoleKept, AssignedKept, JottedKept, CommittingKept, TracedKept, MarksOwnedKept DEF Kept
<1>3. ASSUME NEW q \in Procs PROVE Armed(q)'
  <2>1. CASE q = p  BY <1>1, <2>1, ArmedByItself DEF Kept
  <2>2. CASE q # p  BY <1>1, <2>2, ArmedByOthers DEF Kept
  <2> QED BY <2>1, <2>2
<1>4. Hidden' /\ WillBeHidden'  BY <1>1, HiddenKept, WillBeHiddenKept DEF Kept
<1>5. Emptied'  BY EmptiedStep DEF Kept
<1> QED BY <1>2, <1>3, <1>4, <1>5 DEF Kept

LEMMA KeptNext == ASSUME Kept, [Next]_vars PROVE Kept'
<1>0. Typed'  BY NextTyped DEF Kept
<1>1. CASE Expire \/ UNCHANGED vars
  <2>1. UNCHANGED <<vault, marks, rows, tx, at, my, unmarked>>  BY <1>1 DEF Expire, vars, index
  <2>2. (Emptied /\ Sole /\ Assigned /\ Jotted /\ Committing /\ Traced /\ MarksOwned)'
    BY <2>1 DEF Kept, Emptied, Sole, Assigned, Jotted, Committing, Traced, MarksOwned
  <2>3. ASSUME NEW q \in Procs PROVE Armed(q)'
    <3>1. Ahead(q)' = Ahead(q) /\ DeleteMarks(q)' = DeleteMarks(q)
      BY <2>1 DEF Ahead, DeleteMarks
    <3>2. \A r \in Procs : \A m : Spares(r, m) => Spares(r, m)'
      BY <2>1 DEF Spares
    <3> QED BY <2>1, <3>1, <3>2 DEF Kept, Armed
  <2>4. Hidden'
    BY <2>1 DEF Kept, Hidden, Lasting, Spares
  <2>5. WillBeHidden'
    BY <2>1 DEF Kept, WillBeHidden, Parsed, Lasting, Spares
  <2> QED BY <1>0, <2>2, <2>3, <2>4, <2>5 DEF Kept
<1>2. CASE \E p \in Procs : Process(p)
  BY <1>0, <1>2, KeptStep
<1> QED BY <1>1, <1>2 DEF Next

LEMMA KeptInit == ASSUME OneForgets, Init PROVE Kept
<1>1. Typed  BY InitTyped
<1>2. PICK crew \in Crews : at = [p \in Procs |-> IF p \in crew THEN "idle" ELSE "off"]
  BY DEF Init
<1>3. \A p \in Procs : my[p] = Blank /\ at[p] \in {"idle", "off"} /\ (at[p] # "off" => p \in crew)
  BY <1>2 DEF Init
<1>4. marks = {} /\ rows = {}  BY DEF Init
<1>5. Sole  BY <1>3 DEF Sole, OneForgets
<1>6. Emptied /\ Assigned /\ Jotted /\ Committing /\ WillBeHidden /\ \A p \in Procs : Armed(p)
  BY <1>3, BlankFacts
     DEF Emptied, Assigned, Jotted, Committing, WillBeHidden, Armed, ForgetSteps, Snapshots
<1>7. Traced /\ MarksOwned /\ Hidden
  BY <1>3, <1>4 DEF Traced, MarksOwned, Hidden
<1> QED BY <1>1, <1>5, <1>6, <1>7 DEF Kept

\* Where one process at a time forgets, a memory whose file is gone is in the
\* index only behind a pending delete marker, whoever rebuilds, crashes or
\* outlives the lease: cmdForget marks every match before it appends, and
\* deleteCovered keeps the marker of a file that a rebuild still saw
\* (RemovedIsHidden).  What it could not look whether to mark (MarkDirty's readiness
\* probe failed) is left out until a rebuild has read it.
THEOREM RemovedStaysHidden == ASSUME OneForgets PROVE Spec => []RemovedIsHidden
<1>1. Init => Kept  BY KeptInit
<1>2. Kept /\ [Next]_vars => Kept'  BY KeptNext
<1>3. Kept => RemovedIsHidden
  BY DEF Kept, Hidden, Lasting, RemovedIsHidden
<1> QED BY <1>1, <1>2, <1>3, PTL DEF Spec
=============================================================================
