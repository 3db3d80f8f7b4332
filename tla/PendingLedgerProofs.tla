------------------------ MODULE PendingLedgerProofs ------------------------
(***************************************************************************)
(* Theorems about PendingLedger, for every set of processes, memories and  *)
(* contents and every number of faults.                                    *)
(***************************************************************************)
EXTENDS PendingLedger, TLAPS

LEMMA NoJobType == NoJob \in Job
  BY LedgerAssumption DEF NoJob, Job, Content

LEMMA EmptyScanType == EmptyScan \in Scan
  BY DEF EmptyScan, Scan, Nothing, Content

LEMMA InitType == Init => TypeOK
  BY NoJobType, EmptyScanType, LedgerAssumption DEF Init, TypeOK, Nothing, Content

\* A rebuild that starts has an empty snapshot.
LEMMA ToRebuildType ==
  ASSUME TypeOK, NEW w \in Workers, NEW allow \in BOOLEAN,
         NEW after \in {"idle", "stamp"}, ToRebuild(w, allow, after)
  PROVE  /\ pc' \in [Workers -> {"idle", "dead"} \cup CallerSteps \cup RebuildSteps]
         /\ scan' \in [Workers -> Scan]
  BY EmptyScanType DEF TypeOK, ToRebuild, Goto, Scan, RebuildSteps

LEMMA EndType ==
  ASSUME TypeOK, NEW w \in Workers, EndOrReconcile(w)
  PROVE  /\ pc' \in [Workers -> {"idle", "dead"} \cup CallerSteps \cup RebuildSteps]
         /\ scan' \in [Workers -> Scan]
  BY ToRebuildType DEF TypeOK, EndOrReconcile, Goto

LEMMA GiveUpType ==
  ASSUME TypeOK, NEW w \in Workers, NEW step \in {"idle", "dead"}, GiveUp(w, step)
  PROVE  /\ pc' \in [Workers -> {"idle", "dead"} \cup CallerSteps \cup RebuildSteps]
         /\ scan' \in [Workers -> Scan]
         /\ self' \in [Workers -> {"none", "live", "orphan"}]
         /\ writer' \in Workers \cup {Nobody}
  BY EmptyScanType DEF TypeOK, GiveUp, Goto, Orphaned

LEMMA FaultType == ASSUME TypeOK, Fault PROVE faults' \in 0 .. MaxFaults
  BY LedgerAssumption DEF TypeOK, Fault

\* A caller's job is one of the kinds its role names.
LEMMA StartsType ==
  ASSUME TypeOK, NEW w \in Workers, Starts(w)
  PROVE  TypeOK'
<1> USE DEF TypeOK, Begins, Goto, Job, Content, CallerSteps, indexVars, ledgerVars, Parseable
<1>1. CASE \E i \in Ids, b \in Bytes : StartCreate(w, i, b)
  BY <1>1 DEF StartCreate
<1>2. CASE \E i \in Ids, b \in Bytes : StartConfirm(w, i, b)
  BY <1>2 DEF StartConfirm
<1>3. CASE \E i \in Ids : StartDelete(w, i)
  BY <1>3 DEF StartDelete
<1> QED BY <1>1, <1>2, <1>3 DEF Starts

LEMMA JobIdType == ASSUME TypeOK, NEW w \in Workers PROVE job[w].id \in Ids
  BY DEF TypeOK, Job

LEMMA CallsType ==
  ASSUME TypeOK, NEW w \in Workers, Calls(w)
  PROVE  TypeOK'
<1> USE DEF indexVars, ledgerVars
<1>1. CASE HashDelete(w)  BY <1>1 DEF HashDelete, TypeOK, Goto, Job, CallerSteps
<1>2. CASE Mark(w)        BY <1>2, FaultType, JobIdType DEF Mark, TypeOK, Goto, CallerSteps
<1>3. CASE MarkFails(w)   BY <1>3, FaultType DEF MarkFails, TypeOK, Goto
<1>4. CASE Publish(w)     BY <1>4 DEF Publish, TypeOK, Goto, Job, CallerSteps
<1>5. CASE PublishExists(w)  BY <1>5 DEF PublishExists, TypeOK, Goto
<1>6. CASE VaultFails(w)  BY <1>6, FaultType DEF VaultFails, TypeOK, Goto
<1>7. CASE Remove(w)      BY <1>7 DEF Remove, TypeOK, Goto, Content, CallerSteps
<1>8. CASE Upsert(w)
  <2>1. rows' \in [Ids -> Content]  BY <1>8 DEF Upsert, TypeOK, Job
  <2>2. /\ pc' \in [Workers -> {"idle", "dead"} \cup CallerSteps \cup RebuildSteps]
        /\ scan' \in [Workers -> Scan]
    BY <1>8, ToRebuildType DEF Upsert, TypeOK, Goto, CallerSteps
  <2> QED BY <1>8, <2>1, <2>2 DEF Upsert, TypeOK
<1>9. CASE UpsertFails(w)  BY <1>9, FaultType, EndType DEF UpsertFails, TypeOK
<1>10. CASE Stamp(w)        BY <1>10, EndType DEF Stamp, Stamped, TypeOK
<1>11. CASE StampFails(w)   BY <1>11, FaultType, EndType DEF StampFails, TypeOK
<1>12. CASE Unlinked(w)     BY <1>12, FaultType DEF Unlinked, Stamped, TypeOK, Goto, CallerSteps
<1>13. CASE Deindex(w)
  <2>1. /\ rows' \in [Ids -> Content]
        /\ proj' \in [Ids -> Content]
    BY <1>13 DEF Deindex, TypeOK, Content
  <2>2. /\ pc' \in [Workers -> {"idle", "dead"} \cup CallerSteps \cup RebuildSteps]
        /\ scan' \in [Workers -> Scan]
    BY <1>13, ToRebuildType, EndType DEF Deindex
  <2> QED BY <1>13, <2>1, <2>2 DEF Deindex, TypeOK
<1>14. CASE DeindexFails(w)  BY <1>14, FaultType DEF DeindexFails, TypeOK, Goto
<1> QED BY <1>1, <1>2, <1>3, <1>4, <1>5, <1>6, <1>7, <1>8, <1>9,
           <1>10, <1>11, <1>12, <1>13, <1>14 DEF Calls

LEMMA RebuildsType ==
  ASSUME TypeOK, NEW w \in Workers, Rebuilds(w)
  PROVE  TypeOK'
<1> USE DEF indexVars, ledgerVars
<1>1. CASE SelfMark(w)  BY <1>1, FaultType DEF SelfMark, TypeOK, Goto, RebuildSteps
<1>2. CASE Begin(w)
  <2> DEFINE r == [scan[w] EXCEPT
                     !.ops = Pending,
                     !.unlinked = {o \in Pending : IsDelete(o) /\ marker[o] = "second"},
                     !.selfs = {o \in Workers : self[o] # "none"},
                     !.todo = Ids]
  <2>1. scan[w] \in Scan  BY DEF TypeOK
  <2>2. r \in Scan  BY <2>1 DEF Scan, Pending
  <2>3. scan' = [scan EXCEPT ![w] = r]  BY <1>2 DEF Begin
  <2> HIDE DEF r
  <2> QED BY <1>2, <2>2, <2>3 DEF Begin, TypeOK, Goto, RebuildSteps
<1>3. ASSUME NEW i \in Ids, List(w, i) PROVE TypeOK'
  <2> DEFINE listed == scan[w].listed \cup {j \in {i} : vault[j] # NoFile}
             left == scan[w].todo \ {i}
             r == [scan[w] EXCEPT !.listed = listed,
                                  !.todo = IF left = {} THEN listed ELSE left]
  <2>1. scan[w] \in Scan  BY DEF TypeOK
  <2>2. r \in Scan  BY <2>1 DEF Scan
  <2>3. scan' = [scan EXCEPT ![w] = r]  BY <1>3 DEF List
  <2>4. pc' \in [Workers -> {"idle", "dead"} \cup CallerSteps \cup RebuildSteps]
    BY <1>3 DEF List, TypeOK, Goto, RebuildSteps
  <2> HIDE DEF r
  <2> QED BY ZenonT(60), <1>3, <2>2, <2>3, <2>4 DEF List, TypeOK
<1>4. ASSUME NEW i \in Ids, Parse(w, i) PROVE TypeOK'
  <2> DEFINE r == [scan[w] EXCEPT
                     !.parsed[i] = IF vault[i] \in Parseable THEN vault[i] ELSE NoFile,
                     !.todo = scan[w].todo \ {i}]
  <2>1. scan[w] \in Scan  BY DEF TypeOK
  <2>2. r \in Scan  BY <2>1 DEF Scan, Content, Parseable
  <2>3. scan' = [scan EXCEPT ![w] = r]  BY <1>4 DEF Parse
  <2>4. pc' \in [Workers -> {"idle", "dead"} \cup CallerSteps \cup RebuildSteps]
    BY <1>4 DEF Parse, TypeOK, Goto, RebuildSteps
  <2> HIDE DEF r
  <2> QED BY ZenonT(60), <1>4, <2>2, <2>3, <2>4 DEF Parse, TypeOK
<1>5. CASE Commit(w)    BY <1>5 DEF Commit, TypeOK, Goto, RebuildSteps, Scan
<1>6. CASE Refuse(w)    BY <1>6, GiveUpType DEF Refuse, TypeOK
<1>7. CASE RebuildFails(w)  BY <1>7, GiveUpType, FaultType DEF RebuildFails, TypeOK
<1>8. ASSUME NEW o \in Workers, Probe(w, o) PROVE TypeOK'
  <2> DEFINE r == [scan[w] EXCEPT !.cur = o, !.dead = pc[o] = "dead"]
  <2>1. scan[w] \in Scan  BY DEF TypeOK
  <2>2. r \in Scan  BY <2>1 DEF Scan
  <2>3. scan' = [scan EXCEPT ![w] = r]  BY <1>8 DEF Probe
  <2> HIDE DEF r
  <2> QED BY <1>8, <2>2, <2>3 DEF Probe, TypeOK
<1>9. CASE Decide(w)
  <2> DEFINE r == [scan[w] EXCEPT !.ops = scan[w].ops \ {scan[w].cur},
                                  !.cur = Nobody, !.dead = FALSE]
  <2>1. scan[w] \in Scan  BY DEF TypeOK
  <2>2. r \in Scan  BY <2>1 DEF Scan
  <2>3. scan' = [scan EXCEPT ![w] = r]  BY <1>9 DEF Decide
  <2>4. marker' \in [Workers -> {"absent", "dirty", "second"}]  BY <1>9 DEF Decide, TypeOK
  <2> HIDE DEF r
  <2> QED BY <1>9, <2>2, <2>3, <2>4 DEF Decide, TypeOK
<1>10. CASE Finish(w)
  <2>1. scan[w].after \in {"idle", "stamp"}  BY DEF TypeOK, Scan
  <2>2. self' \in [Workers -> {"none", "live", "orphan"}]  BY <1>10 DEF Finish, TypeOK
  <2> QED BY <1>10, <2>1, <2>2, EmptyScanType DEF Finish, TypeOK, Goto, CallerSteps
<1> QED BY <1>1, <1>2, <1>3, <1>4, <1>5, <1>6, <1>7, <1>8, <1>9, <1>10 DEF Rebuilds

\* Every handler leaves the vault, the index, the ledger and each process's
\* control state in their types, whatever the processes and memories are.
THEOREM TypeCorrect == Spec => []TypeOK
<1>1. ASSUME TypeOK, [Next]_vars PROVE TypeOK'
  <2> USE TypeOK DEF indexVars, ledgerVars
  <2>1. ASSUME NEW w \in Workers, Starts(w) PROVE TypeOK'  BY <2>1, StartsType
  <2>2. ASSUME NEW w \in Workers, Calls(w) PROVE TypeOK'   BY <2>2, CallsType
  <2>3. ASSUME NEW w \in Workers, NEW allow \in BOOLEAN, StartRebuild(w, allow) PROVE TypeOK'
    BY <2>3, ToRebuildType DEF StartRebuild, TypeOK
  <2>4. ASSUME NEW w \in Workers, Rebuilds(w) PROVE TypeOK'  BY <2>4, RebuildsType
  <2>5. ASSUME NEW w \in Workers, Crash(w) PROVE TypeOK'
    BY <2>5, GiveUpType, FaultType DEF Crash, TypeOK
  <2>6. ASSUME NEW w \in Workers, Exit(w) PROVE TypeOK'
    BY <2>6 DEF Exit, TypeOK, Goto
  <2>7. ASSUME NEW w \in Workers, Spawn(w) PROVE TypeOK'
    BY <2>7, NoJobType DEF Spawn, TypeOK, Goto
  <2>8. ASSUME NEW i \in Ids, Mangle(i) PROVE TypeOK'
    BY <2>8, FaultType, LedgerAssumption DEF Mangle, TypeOK, Content
  <2>9. CASE UNCHANGED vars  BY <2>9 DEF vars, TypeOK
  <2> QED BY <1>1, <2>1, <2>2, <2>3, <2>4, <2>5, <2>6, <2>7, <2>8, <2>9 DEF Next
<1> QED BY InitType, <1>1, PTL DEF Spec

-----------------------------------------------------------------------------
(* A rebuild's decision about a marker rests on a snapshot of the ledger, on *)
(* an earlier look at the owner and on a name.  LInv says that all three     *)
(* still hold when it decides: a name in a snapshot is not used again, so a  *)
(* delete seen finished stays finished and an owner seen dead stays dead.    *)

NotMarkedYet == \A o \in Workers : pc[o] \in {"hash", "mark"} => marker[o] = "absent"

FinishedStaysFinished ==
    \A r, o \in Workers :
        o \in scan[r].ops /\ o \in scan[r].unlinked
            => marker[o] # "dirty" /\ pc[o] \notin {"hash", "mark"}

DeadStaysDead ==
    \A r \in Workers :
        scan[r].cur # Nobody
            => /\ pc[r] = "retire"
               /\ scan[r].cur \in scan[r].ops
               /\ scan[r].dead => pc[scan[r].cur] = "dead"

LInv == TypeOK /\ NotMarkedYet /\ FinishedStaysFinished /\ DeadStaysDead

\* w's rebuild, if it had one, is over or has no snapshot yet.
Restarts(w) ==
    \/ scan' = scan
    \/ \E e \in Scan : /\ e.ops = {} /\ e.cur = Nobody
                       /\ scan' = [scan EXCEPT ![w] = e]

LEMMA EmptySnapshot == EmptyScan.ops = {} /\ EmptyScan.cur = Nobody
  BY DEF EmptyScan

LEMMA ToRebuildRestarts ==
  ASSUME NEW w \in Workers, NEW allow \in BOOLEAN,
         NEW after \in {"idle", "stamp"}, ToRebuild(w, allow, after)
  PROVE  Restarts(w)
<1> DEFINE e == [EmptyScan EXCEPT !.allow = allow, !.after = after]
<1>1. e \in Scan  BY EmptyScanType DEF Scan
<1>2. e.ops = {} /\ e.cur = Nobody
  <2>1. e.ops = EmptyScan.ops /\ e.cur = EmptyScan.cur  BY EmptyScanType DEF Scan
  <2> QED BY <2>1, EmptySnapshot
<1>3. scan' = [scan EXCEPT ![w] = e]  BY DEF ToRebuild
<1> HIDE DEF e
<1> QED BY <1>1, <1>2, <1>3 DEF Restarts

LEMMA GiveUpRestarts ==
  ASSUME NEW w \in Workers, NEW step, GiveUp(w, step)
  PROVE  Restarts(w)
  BY EmptyScanType, EmptySnapshot DEF GiveUp, Restarts

\* Almost every step moves one live process on, leaves every snapshot alone and
\* makes no marker dirty.
LEMMA OrdinaryStep ==
  ASSUME LInv, TypeOK', NEW w \in Workers, NEW s, NEW m,
         pc[w] # "dead", s \notin {"hash", "mark"},
         pc[w] = "retire" => scan'[w].cur = Nobody,
         pc' = [pc EXCEPT ![w] = s],
         marker' = [marker EXCEPT ![w] = m], m = "dirty" => marker[w] = "dirty",
         Restarts(w)
  PROVE  LInv'
<1>1. \A r \in Workers : \/ scan'[r] = scan[r]
                         \/ scan'[r].ops = {} /\ scan'[r].cur = Nobody
  BY DEF Restarts, LInv, TypeOK
<1>2. \A o \in Workers : /\ o # w => pc'[o] = pc[o] /\ marker'[o] = marker[o]
                         /\ pc'[w] = s /\ marker'[w] = m
  BY DEF LInv, TypeOK
<1>3. NotMarkedYet'  BY <1>2 DEF LInv, NotMarkedYet
<1>4. FinishedStaysFinished'
  BY <1>1, <1>2 DEF LInv, FinishedStaysFinished
<1>5. DeadStaysDead'
  <2> SUFFICES ASSUME NEW r \in Workers, scan'[r].cur # Nobody
               PROVE  /\ pc'[r] = "retire"
                      /\ scan'[r].cur \in scan'[r].ops
                      /\ scan'[r].dead => pc'[scan'[r].cur] = "dead"
    BY DEF DeadStaysDead
  <2>1. scan'[r] = scan[r]  BY <1>1
  <2>2. /\ pc[r] = "retire"
        /\ scan[r].cur \in scan[r].ops
        /\ scan[r].dead => pc[scan[r].cur] = "dead"
    BY <2>1 DEF LInv, DeadStaysDead
  <2>3. scan[r].ops \subseteq Workers  BY DEF LInv, TypeOK, Scan
  <2> QED BY <1>2, <2>1, <2>2, <2>3
<1> QED BY <1>3, <1>4, <1>5 DEF LInv

\* A new operation takes a name that no snapshot holds.
LEMMA StartStep ==
  ASSUME LInv, TypeOK', NEW w \in Workers, Starts(w)
  PROVE  LInv'
<1>1. /\ Unused(w) /\ pc[w] = "idle"
      /\ UNCHANGED <<marker, scan>>
      /\ \E step : pc' = [pc EXCEPT ![w] = step]
  BY DEF Starts, StartCreate, StartConfirm, StartDelete, Begins, Goto, ledgerVars
<1>2. \A o \in Workers : o # w => pc'[o] = pc[o]  BY <1>1 DEF LInv, TypeOK
<1>3. \A r \in Workers : w \notin scan[r].ops  BY <1>1 DEF Unused
<1>4. NotMarkedYet'  BY <1>1, <1>2 DEF Unused, LInv, NotMarkedYet
<1>5. FinishedStaysFinished'  BY <1>1, <1>2, <1>3 DEF LInv, FinishedStaysFinished
<1>6. DeadStaysDead'
  <2>1. \A r \in Workers : scan[r].ops \subseteq Workers  BY DEF LInv, TypeOK, Scan
  <2> QED BY <1>1, <1>2, <1>3, <2>1 DEF LInv, DeadStaysDead
<1> QED BY <1>4, <1>5, <1>6 DEF LInv

LEMMA CallStep ==
  ASSUME LInv, TypeOK', NEW w \in Workers, Calls(w)
  PROVE  LInv'
<1> DEFINE Ordinary == \E s, m : /\ s \notin {"hash", "mark"}
                                 /\ pc' = [pc EXCEPT ![w] = s]
                                 /\ marker' = [marker EXCEPT ![w] = m]
                                 /\ m = "dirty" => marker[w] = "dirty"
                                 /\ Restarts(w)
<1>a. ASSUME Ordinary, pc[w] \notin {"dead", "retire"} PROVE LInv'  BY <1>a, OrdinaryStep
<1>b. marker = [marker EXCEPT ![w] = marker[w]]  BY DEF LInv, TypeOK
<1>c. Stamped(w) = [marker EXCEPT ![w] = IF marker[w] = "dirty" THEN "second" ELSE marker[w]]
  BY DEF Stamped
<1>d. ASSUME EndOrReconcile(w)
      PROVE  /\ Restarts(w)
             /\ \E s : s \notin {"hash", "mark"} /\ pc' = [pc EXCEPT ![w] = s]
  BY <1>d, ToRebuildRestarts DEF EndOrReconcile, Goto, Restarts, ToRebuild
<1>e. ASSUME NEW allow \in BOOLEAN, NEW after \in {"idle", "stamp"},
             ToRebuild(w, allow, after)
      PROVE  /\ Restarts(w)
             /\ \E s : s \notin {"hash", "mark"} /\ pc' = [pc EXCEPT ![w] = s]
  BY <1>e, ToRebuildRestarts DEF Goto, ToRebuild
<1> USE DEF Goto, ledgerVars, indexVars
<1>1. CASE HashDelete(w)
  <2>1. pc' = [pc EXCEPT ![w] = "mark"] /\ UNCHANGED <<marker, scan>> /\ pc[w] = "hash"
    BY <1>1 DEF HashDelete
  <2>2. \A o \in Workers : o # w => pc'[o] = pc[o]  BY <2>1 DEF LInv, TypeOK
  <2>3. NotMarkedYet'  BY <2>1, <2>2 DEF LInv, NotMarkedYet
  <2>4. FinishedStaysFinished'  BY <2>1, <2>2 DEF LInv, FinishedStaysFinished
  <2>5. \A r \in Workers : scan[r].ops \subseteq Workers  BY DEF LInv, TypeOK, Scan
  <2>6. DeadStaysDead'  BY <2>1, <2>2, <2>5 DEF LInv, DeadStaysDead
  <2> QED BY <2>3, <2>4, <2>6 DEF LInv
<1>2. CASE Mark(w)
  <2>1. PICK s : pc' = [pc EXCEPT ![w] = s] /\ s \in {"publish", "remove"}
    BY <1>2 DEF Mark
  <2>2. /\ UNCHANGED scan /\ pc[w] = "mark"
        /\ \A o \in Workers : o # w => pc'[o] = pc[o] /\ marker'[o] = marker[o]
        /\ pc'[w] = s
    BY <1>2, <2>1 DEF Mark, LInv, TypeOK
  <2>3. NotMarkedYet'  BY <2>1, <2>2 DEF LInv, NotMarkedYet
  <2>4. FinishedStaysFinished'  BY <2>1, <2>2 DEF LInv, FinishedStaysFinished
  <2>5. \A r \in Workers : scan[r].ops \subseteq Workers  BY DEF LInv, TypeOK, Scan
  <2>6. DeadStaysDead'  BY <2>2, <2>5 DEF LInv, DeadStaysDead
  <2> QED BY <2>3, <2>4, <2>6 DEF LInv
<1>3. CASE MarkFails(w)   BY <1>3, <1>a, <1>b DEF MarkFails, Restarts
<1>4. CASE Publish(w)     BY <1>4, <1>a, <1>b DEF Publish, Restarts
<1>5. CASE PublishExists(w)  BY <1>5, <1>a DEF PublishExists, Restarts
<1>6. CASE VaultFails(w)  BY <1>6, <1>a, <1>b DEF VaultFails, Restarts
<1>7. CASE Remove(w)      BY <1>7, <1>a, <1>b DEF Remove, Restarts
<1>8. CASE Upsert(w)
  <2>1. Restarts(w) /\ \E s : s \notin {"hash", "mark"} /\ pc' = [pc EXCEPT ![w] = s]
    BY <1>8, <1>e DEF Upsert, Restarts
  <2> QED BY <1>8, <1>a, <1>b, <2>1 DEF Upsert
<1>9. CASE UpsertFails(w)  BY <1>9, <1>a, <1>b, <1>d DEF UpsertFails
<1>10. CASE Stamp(w)        BY <1>10, <1>a, <1>c, <1>d DEF Stamp
<1>11. CASE StampFails(w)   BY <1>11, <1>a, <1>b, <1>d DEF StampFails
<1>12. CASE Unlinked(w)     BY <1>12, <1>a, <1>b, <1>c DEF Unlinked, Restarts
<1>13. CASE Deindex(w)
  <2>1. Restarts(w) /\ \E s : s \notin {"hash", "mark"} /\ pc' = [pc EXCEPT ![w] = s]
    BY <1>13, <1>d, <1>e DEF Deindex
  <2> QED BY <1>13, <1>a, <1>b, <2>1 DEF Deindex
<1>14. CASE DeindexFails(w)  BY <1>14, <1>a, <1>b DEF DeindexFails, Restarts
<1> QED BY <1>1, <1>2, <1>3, <1>4, <1>5, <1>6, <1>7, <1>8, <1>9,
           <1>10, <1>11, <1>12, <1>13, <1>14 DEF Calls

\* A step of w's rebuild that changes its own record to r.
LEMMA ScanStep ==
  ASSUME LInv, TypeOK', NEW w \in Workers, NEW r, NEW s,
         scan' = [scan EXCEPT ![w] = r], marker' = marker,
         pc[w] \notin {"hash", "mark", "dead"}, s \notin {"hash", "mark"},
         pc' = [pc EXCEPT ![w] = s],
         \A o \in r.ops : o \in r.unlinked =>
             marker[o] # "dirty" /\ pc[o] \notin {"hash", "mark"},
         r.cur # Nobody => /\ s = "retire"
                           /\ r.cur \in r.ops
                           /\ r.dead => pc[r.cur] = "dead"
  PROVE  LInv'
<1>1. \A v \in Workers : /\ v # w => scan'[v] = scan[v] /\ pc'[v] = pc[v]
                        /\ scan'[w] = r /\ pc'[w] = s
  BY DEF LInv, TypeOK
<1>2. NotMarkedYet'  BY <1>1 DEF LInv, NotMarkedYet
<1>3. FinishedStaysFinished'  BY <1>1 DEF LInv, FinishedStaysFinished
<1>4. DeadStaysDead'
  <2> SUFFICES ASSUME NEW v \in Workers, scan'[v].cur # Nobody
               PROVE  /\ pc'[v] = "retire"
                      /\ scan'[v].cur \in scan'[v].ops
                      /\ scan'[v].dead => pc'[scan'[v].cur] = "dead"
    BY DEF DeadStaysDead
  <2>1. scan'[v].ops \subseteq Workers  BY DEF LInv, TypeOK, Scan
  <2>2. /\ pc'[v] = "retire"
        /\ scan'[v].cur \in scan'[v].ops
        /\ scan'[v].dead => pc[scan'[v].cur] = "dead"
    BY <1>1 DEF LInv, DeadStaysDead
  <2> QED BY <1>1, <2>1, <2>2
<1> QED BY <1>2, <1>3, <1>4 DEF LInv

LEMMA RebuildStep ==
  ASSUME LInv, TypeOK', NEW w \in Workers, Rebuilds(w)
  PROVE  LInv'
<1>a. scan[w] \in Scan /\ pc \in [Workers -> {"idle", "dead"} \cup CallerSteps \cup RebuildSteps]
  BY DEF LInv, TypeOK
<1>b. /\ \A o \in scan[w].ops : o \in scan[w].unlinked =>
              marker[o] # "dirty" /\ pc[o] \notin {"hash", "mark"}
      /\ pc[w] # "retire" => scan[w].cur = Nobody
  BY <1>a DEF LInv, FinishedStaysFinished, DeadStaysDead, Scan
<1>c. marker = [marker EXCEPT ![w] = marker[w]]  BY DEF LInv, TypeOK
<1> USE DEF Goto, ledgerVars, indexVars
<1>1. CASE SelfMark(w)
  BY <1>1, <1>c, OrdinaryStep DEF SelfMark, Restarts
<1>2. CASE Begin(w)
  <2> DEFINE r == [scan[w] EXCEPT
                     !.ops = Pending,
                     !.unlinked = {o \in Pending : IsDelete(o) /\ marker[o] = "second"},
                     !.selfs = {o \in Workers : self[o] # "none"},
                     !.todo = Ids]
  <2>1. /\ r.ops = Pending /\ r.cur = scan[w].cur /\ r.dead = scan[w].dead
        /\ r.unlinked = {o \in Pending : IsDelete(o) /\ marker[o] = "second"}
    BY <1>a DEF Scan
  <2>2. scan' = [scan EXCEPT ![w] = r]  BY <1>2 DEF Begin
  <2>3. marker' = marker /\ pc[w] = "begin" /\ pc' = [pc EXCEPT ![w] = "list"]
    BY <1>2 DEF Begin
  <2>4. \A o \in r.ops : o \in r.unlinked =>
          marker[o] # "dirty" /\ pc[o] \notin {"hash", "mark"}
    BY <2>1 DEF LInv, NotMarkedYet, Pending
  <2> HIDE DEF r
  <2> QED BY <1>b, <2>1, <2>2, <2>3, <2>4, ScanStep
<1>3. ASSUME NEW i \in Ids, List(w, i) PROVE LInv'
  <2> DEFINE listed == scan[w].listed \cup {j \in {i} : vault[j] # NoFile}
             left == scan[w].todo \ {i}
             r == [scan[w] EXCEPT !.listed = listed,
                                  !.todo = IF left = {} THEN listed ELSE left]
  <2>1. /\ r.ops = scan[w].ops /\ r.cur = scan[w].cur /\ r.dead = scan[w].dead
        /\ r.unlinked = scan[w].unlinked
    BY <1>a DEF Scan
  <2>2. scan' = [scan EXCEPT ![w] = r]  BY <1>3 DEF List
  <2>3. PICK s : s \notin {"hash", "mark"} /\ pc' = [pc EXCEPT ![w] = s]  BY <1>3 DEF List
  <2>4. marker' = marker /\ pc[w] = "list"  BY <1>3 DEF List
  <2> HIDE DEF r
  <2> QED BY <1>b, <2>1, <2>2, <2>3, <2>4, ScanStep
<1>4. ASSUME NEW i \in Ids, Parse(w, i) PROVE LInv'
  <2> DEFINE r == [scan[w] EXCEPT
                     !.parsed[i] = IF vault[i] \in Parseable THEN vault[i] ELSE NoFile,
                     !.todo = scan[w].todo \ {i}]
  <2>1. /\ r.ops = scan[w].ops /\ r.cur = scan[w].cur /\ r.dead = scan[w].dead
        /\ r.unlinked = scan[w].unlinked
    BY <1>a DEF Scan
  <2>2. scan' = [scan EXCEPT ![w] = r]  BY <1>4 DEF Parse
  <2>3. PICK s : s \notin {"hash", "mark"} /\ pc' = [pc EXCEPT ![w] = s]  BY <1>4 DEF Parse
  <2>4. marker' = marker /\ pc[w] = "parse"  BY <1>4 DEF Parse
  <2> HIDE DEF r
  <2> QED BY <1>b, <2>1, <2>2, <2>3, <2>4, ScanStep
<1>5. CASE Commit(w)
  BY <1>5, <1>c, OrdinaryStep DEF Commit, Restarts
<1>6. CASE Refuse(w)
  BY <1>6, <1>c, OrdinaryStep, GiveUpRestarts DEF Refuse, GiveUp
<1>7. CASE RebuildFails(w)
  <2>1. scan' = [scan EXCEPT ![w] = EmptyScan] /\ pc' = [pc EXCEPT ![w] = "idle"]
    BY <1>7 DEF RebuildFails, GiveUp
  <2>2. scan'[w].cur = Nobody  BY <2>1, EmptySnapshot DEF LInv, TypeOK
  <2>3. Restarts(w)  BY <1>7, GiveUpRestarts DEF RebuildFails
  <2>4. marker' = marker /\ pc[w] \in RebuildSteps  BY <1>7 DEF RebuildFails
  <2> QED BY <1>c, <2>1, <2>2, <2>3, <2>4, OrdinaryStep DEF RebuildSteps
<1>8. ASSUME NEW o \in Workers, Probe(w, o) PROVE LInv'
  <2> DEFINE r == [scan[w] EXCEPT !.cur = o, !.dead = pc[o] = "dead"]
  <2>1. /\ r.ops = scan[w].ops /\ r.cur = o /\ r.dead = (pc[o] = "dead")
        /\ r.unlinked = scan[w].unlinked
    BY <1>a DEF Scan
  <2>2. scan' = [scan EXCEPT ![w] = r]  BY <1>8 DEF Probe
  <2>3. pc' = [pc EXCEPT ![w] = pc[w]]  BY <1>8, <1>a DEF Probe
  <2>4. marker' = marker /\ pc[w] = "retire" /\ o \in scan[w].ops  BY <1>8 DEF Probe
  <2> HIDE DEF r
  <2> QED BY ZenonT(60), <1>b, <2>1, <2>2, <2>3, <2>4, ScanStep
<1>9. CASE Decide(w)
  <2> DEFINE r == [scan[w] EXCEPT !.ops = scan[w].ops \ {scan[w].cur},
                                  !.cur = Nobody, !.dead = FALSE]
             c == scan[w].cur
  <2>1. r.ops = scan[w].ops \ {c} /\ r.cur = Nobody /\ r.unlinked = scan[w].unlinked
    BY <1>a DEF Scan
  <2>2. scan' = [scan EXCEPT ![w] = r]  BY <1>9 DEF Decide
  <2> HIDE DEF r
  <2>3. /\ \A v \in Workers : marker'[v] = marker[v] \/ marker'[v] = "absent"
        /\ \A v \in Workers : v # w => scan'[v] = scan[v]
        /\ scan'[w] = r /\ pc' = pc
    BY <1>9, <2>2 DEF Decide, LInv, TypeOK
  <2>4. NotMarkedYet'  BY <2>3 DEF LInv, NotMarkedYet
  <2>5. FinishedStaysFinished'  BY <2>1, <2>3 DEF LInv, FinishedStaysFinished
  <2>6. DeadStaysDead'  BY <2>1, <2>3 DEF LInv, DeadStaysDead
  <2> QED BY <2>4, <2>5, <2>6 DEF LInv
<1>10. CASE Finish(w)
  <2>1. scan[w].after \in {"idle", "stamp"}  BY <1>a DEF Scan
  <2>2. /\ scan' = [scan EXCEPT ![w] = EmptyScan]
        /\ pc' = [pc EXCEPT ![w] = scan[w].after]
        /\ marker' = marker /\ pc[w] = "retire"
    BY <1>10 DEF Finish
  <2>3. Restarts(w)  BY <2>2, EmptyScanType, EmptySnapshot DEF Restarts
  <2>4. scan'[w].cur = Nobody  BY <2>2, EmptySnapshot DEF LInv, TypeOK
  <2> QED BY <1>c, <2>1, <2>2, <2>3, <2>4, OrdinaryStep
<1> QED BY <1>1, <1>2, <1>3, <1>4, <1>5, <1>6, <1>7, <1>8, <1>9, <1>10 DEF Rebuilds

LEMMA LInvStep ==
  ASSUME LInv, TypeOK', [Next]_vars
  PROVE  LInv'
<1>a. \A w \in Workers : marker = [marker EXCEPT ![w] = marker[w]]  BY DEF LInv, TypeOK
<1> USE DEF ledgerVars, indexVars
<1>1. ASSUME NEW w \in Workers, Starts(w) PROVE LInv'  BY <1>1, StartStep
<1>2. ASSUME NEW w \in Workers, Calls(w) PROVE LInv'   BY <1>2, CallStep
<1>3. ASSUME NEW w \in Workers, NEW allow \in BOOLEAN, StartRebuild(w, allow) PROVE LInv'
  BY <1>3, <1>a, OrdinaryStep, ToRebuildRestarts DEF StartRebuild, ToRebuild, Goto
<1>4. ASSUME NEW w \in Workers, Rebuilds(w) PROVE LInv'  BY <1>4, RebuildStep
<1>5. ASSUME NEW w \in Workers, Crash(w) PROVE LInv'
  <2>1. /\ scan' = [scan EXCEPT ![w] = EmptyScan] /\ pc' = [pc EXCEPT ![w] = "dead"]
        /\ marker' = marker /\ pc[w] # "dead"
    BY <1>5 DEF Crash, GiveUp, Goto
  <2>2. scan'[w].cur = Nobody  BY <2>1, EmptySnapshot DEF LInv, TypeOK
  <2>3. Restarts(w)  BY <1>5, GiveUpRestarts DEF Crash
  <2> QED BY <1>a, <2>1, <2>2, <2>3, OrdinaryStep
<1>6. ASSUME NEW w \in Workers, Exit(w) PROVE LInv'
  BY <1>6, <1>a, OrdinaryStep DEF Exit, Goto, Restarts
<1>7. ASSUME NEW w \in Workers, Spawn(w) PROVE LInv'
  <2>1. /\ \A o \in Workers : o # w => pc'[o] = pc[o]
        /\ \A r \in Workers : w \notin scan[r].ops
        /\ scan' = scan /\ marker' = marker
        /\ pc[w] = "dead" /\ pc'[w] = "idle"
    BY <1>7 DEF Spawn, Unused, Goto, LInv, TypeOK
  <2>2. NotMarkedYet'  BY <2>1 DEF LInv, NotMarkedYet
  <2>3. FinishedStaysFinished'  BY <2>1 DEF LInv, FinishedStaysFinished
  <2>4. \A r \in Workers : scan[r].ops \subseteq Workers  BY DEF LInv, TypeOK, Scan
  <2>5. DeadStaysDead'  BY <2>1, <2>4 DEF LInv, DeadStaysDead
  <2> QED BY <2>2, <2>3, <2>5 DEF LInv
<1>8. ASSUME UNCHANGED <<marker, pc, scan>> PROVE LInv'
  BY <1>8 DEF LInv, NotMarkedYet, FinishedStaysFinished, DeadStaysDead
<1>9. ASSUME NEW i \in Ids, Mangle(i) PROVE LInv'  BY <1>8, <1>9 DEF Mangle
<1>10. CASE UNCHANGED vars  BY <1>8, <1>10 DEF vars
<1> QED BY <1>1, <1>2, <1>3, <1>4, <1>5, <1>6, <1>7, <1>9, <1>10 DEF Next

\* What a rebuild's decision about a marker rests on (ListPending's snapshot, the
\* owner probe of deleteCovered and writeCovered) is still true when it decides.
THEOREM LInvHolds == Spec => []LInv
<1>1. Init => LInv
  BY InitType, EmptySnapshot, LedgerAssumption
  DEF Init, LInv, NotMarkedYet, FinishedStaysFinished, DeadStaysDead
<1>2. TypeOK' /\ LInv /\ [Next]_vars => LInv'  BY LInvStep
<1> QED BY <1>1, <1>2, TypeCorrect, PTL DEF Spec

\* Only the decision of a rebuild changes the marker of a deleter that stands
\* between its mark and its rename, and deleteCovered keeps such a marker: the
\* snapshot did not see it finished and its owner was not seen dead.
THEOREM LiveDeleteMarkerStays == Spec => LiveDeleteKeepsMarker
<1> DEFINE Standing(w) == /\ marker[w] = "dirty"
                          /\ IsDelete(w) /\ job[w].sha # NoFile
                          /\ pc[w] \in {"remove", "unlinked"}
                          /\ pc'[w] = pc[w]
           A == \A w \in Workers : Standing(w) => marker'[w] = "dirty"
<1>1. ASSUME LInv, LInv', [Next]_vars PROVE [A]_vars
  <2> SUFFICES ASSUME NEW w \in Workers, Standing(w) PROVE marker'[w] = "dirty"
    OBVIOUS
  <2> USE DEF ledgerVars, indexVars
  <2>1. ASSUME NEW u \in Workers, Starts(u) PROVE marker' = marker
    BY <2>1 DEF Starts, StartCreate, StartConfirm, StartDelete, Begins
  <2>2. ASSUME NEW u \in Workers, Calls(u) PROVE marker'[w] = marker[w]
    <3>1. CASE u = w
      <4>1. \A s : pc' = [pc EXCEPT ![w] = s] => s = pc[w]  BY <1>1 DEF LInv, TypeOK
      <4> QED BY <2>2, <3>1, <4>1
          DEF Calls, HashDelete, Mark, MarkFails, Publish, PublishExists, VaultFails, Remove,
              Upsert, UpsertFails, Stamp, StampFails, Unlinked,
              Deindex, DeindexFails, ToRebuild, Goto
    <3>2. CASE u # w
      BY <1>1, <2>2, <3>2
      DEF Calls, HashDelete, Mark, MarkFails, Publish, PublishExists, VaultFails, Remove,
          Upsert, UpsertFails, Stamp, StampFails, Unlinked, Stamped,
          Deindex, DeindexFails, LInv, TypeOK
    <3> QED BY <3>1, <3>2
  <2>3. ASSUME NEW u \in Workers, Decide(u) PROVE marker'[w] = marker[w]
    <3>1. CASE scan[u].cur # w  BY <1>1, <2>3, <3>1 DEF Decide, LInv, TypeOK
    <3>2. CASE scan[u].cur = w
      <4>1. w \in scan[u].ops /\ (scan[u].dead => pc[w] = "dead")
        BY <1>1, <2>3, <3>2, LedgerAssumption DEF LInv, DeadStaysDead
      <4>2. w \notin scan[u].unlinked /\ ~scan[u].dead
        BY <1>1, <4>1 DEF LInv, FinishedStaysFinished
      <4>3. ~DeleteCovered(u, w)  BY <4>2 DEF DeleteCovered
      <4>4. ~Covered(u, w)  BY <4>3 DEF Covered
      <4> QED BY <1>1, <2>3, <3>2, <4>4 DEF Decide, LInv, TypeOK
    <3> QED BY <3>1, <3>2
  <2>4. ASSUME NEW u \in Workers, Rebuilds(u), ~Decide(u) PROVE marker' = marker
    BY <2>4 DEF Rebuilds, SelfMark, Begin, List, Parse, Commit, Refuse, RebuildFails,
                Probe, Finish
  <2>5. ASSUME NEW u \in Workers,
               (\E allow \in BOOLEAN : StartRebuild(u, allow)) \/ Crash(u) \/ Exit(u) \/ Spawn(u)
        PROVE  marker' = marker
    BY <2>5 DEF StartRebuild, Crash, Exit, Spawn
  <2>6. ASSUME NEW i \in Ids, Mangle(i) PROVE marker' = marker  BY <2>6 DEF Mangle
  <2>7. CASE UNCHANGED vars  BY <2>7 DEF vars
  <2> QED BY <1>1, <2>1, <2>2, <2>3, <2>4, <2>5, <2>6, <2>7 DEF Next
<1>2. Spec => [][A]_vars  BY <1>1, LInvHolds, PTL DEF Spec
<1> QED BY <1>2 DEF LiveDeleteKeepsMarker

-----------------------------------------------------------------------------
(* What a reader is served.  Everything from here on supposes that the index *)
(* is ready from the start and that operations on one memory do not overlap. *)

\* A rebuild is between its snapshot and its commit.
Scanning(r) == pc[r] \in {"list", "parse", "commit"}

Started == ready /\ \A w \in Workers : scan[w].after = "idle"

Alone == \A u, w \in Workers :
           u # w /\ pc[u] \in CallerSteps /\ pc[w] \in CallerSteps => job[u].id # job[w].id

Locked == \A r \in Workers : Scanning(r) => writer = r

\* A rebuild holds a result only for a memory it listed and parsed.
ScanShape ==
    \A r \in Workers :
        /\ ~Scanning(r) /\ pc[r] # "retire" => scan[r].ops = {} /\ scan[r].listed = {}
        /\ pc[r] = "parse" => scan[r].todo \subseteq scan[r].listed
        /\ \A i \in Ids : scan[r].parsed[i] # NoFile =>
              /\ i \in scan[r].listed
              /\ pc[r] # "list"
              /\ pc[r] = "parse" => i \notin scan[r].todo

\* The kind of job each step belongs to.
StepKinds ==
    \A w \in Workers :
        /\ pc[w] \in {"publish", "upsert", "stamp"} => ~IsDelete(w)
        /\ pc[w] \in {"hash", "remove", "unlinked", "deindex"} => IsDelete(w)
        /\ pc[w] \in CallerSteps /\ ~IsDelete(w) => job[w].sha \in Parseable

\* A write that can still publish: its bytes are nowhere yet, and once it has
\* marked, its marker stands, or its memory is known to be changed without one.
CanPublish(w) == /\ pc[w] \in {"mark", "publish"} /\ ~IsDelete(w)
                 /\ job[w].kind = "create" => vault[job[w].id] = NoFile

BeforePublish ==
    \A w \in Workers : CanPublish(w) =>
        /\ vault[job[w].id] # job[w].sha
        /\ \A r \in Workers : w \in scan[r].ops => scan[r].parsed[job[w].id] # job[w].sha
        /\ pc[w] = "publish" => marker[w] = "dirty" \/ job[w].id \in unmarked

\* The walk of r is past the directory entry of i.
Passed(r, i) == \/ pc[r] \in {"parse", "commit", "retire"}
                \/ pc[r] = "list" /\ i \notin scan[r].todo

\* A delete that has not removed its file: the file is there, every rebuild that
\* knows of the marker lists it, and the marker stands (or there never was one).
BeforeRemove ==
    \A w \in Workers : pc[w] \in {"hash", "mark", "remove"} /\ IsDelete(w) =>
        /\ vault[job[w].id] # NoFile
        /\ pc[w] # "hash" => job[w].sha # NoFile
        /\ \A r \in Workers : w \in scan[r].ops /\ Passed(r, job[w].id) =>
              job[w].id \in scan[r].listed
        /\ pc[w] = "remove" => marker[w] = "dirty" \/ job[w].id \in unmarked

\* What a rebuild will commit for i is settled.
Seen(r, i) == \/ pc[r] = "list" /\ i \notin scan[r].todo /\ i \notin scan[r].listed
              \/ pc[r] = "parse" /\ i \notin scan[r].todo
              \/ pc[r] = "commit"

\* The rows do not, or will not, show the file of i as it is.
Late(i) == \/ rows[i] # vault[i]
           \/ \E r \in Workers : Seen(r, i) /\ scan[r].parsed[i] # vault[i]

AfterPublish ==
    \A w \in Workers :
        /\ pc[w] \in {"upsert", "stamp"} =>
              vault[job[w].id] \in {job[w].sha} \cup Unparseable
        /\ pc[w] = "stamp" /\ vault[job[w].id] \in Parseable => ~Late(job[w].id)
        /\ pc[w] \in {"unlinked", "deindex"} => vault[job[w].id] = NoFile

\* o's marker stands for the bytes that i holds, and no rebuild will retire it.
Owes(o, i) ==
    /\ o \in PendingOn(i)
    /\ ~IsDelete(o) /\ pc[o] # "publish"
    /\ job[o].sha = vault[i]
    /\ \A r \in Workers : pc[r] = "retire" /\ o \in scan[r].ops => scan[r].parsed[i] # vault[i]

Owed ==
    \A i \in Ids \ unmarked : vault[i] \in Parseable =>
        /\ Late(i) => \E o \in Workers : Owes(o, i) /\ marker[o] = "dirty"
        /\ proj[i] # vault[i] => \E o \in Workers : Owes(o, i)

\* o's marker stands for the removal of i's file, and no rebuild will retire it.
OwesDelete(o, i) ==
    /\ o \in PendingOn(i)
    /\ IsDelete(o) /\ pc[o] \notin {"hash", "mark", "remove"}
    /\ job[o].sha # NoFile
    /\ \A r \in Workers : o \in scan[r].ops =>
         /\ o \in scan[r].unlinked => scan[r].parsed[i] = NoFile
         /\ pc[r] = "retire" => i \in scan[r].listed

\* A row or a projection of i is there, or will be.
Shown(i) == \/ rows[i] # NoFile \/ proj[i] # NoFile
            \/ \E r \in Workers : Scanning(r) /\ scan[r].parsed[i] # NoFile

OwedDelete == \A i \in Ids \ unmarked :
                 vault[i] = NoFile /\ Shown(i) => \E o \in Workers : OwesDelete(o, i)

SInv == /\ LInv /\ Started /\ Alone /\ Locked /\ ScanShape /\ StepKinds
        /\ BeforePublish /\ BeforeRemove /\ AfterPublish /\ Owed /\ OwedDelete

LEMMA JobFields ==
  ASSUME TypeOK, NEW w \in Workers
  PROVE  /\ job[w].id \in Ids /\ job[w].sha \in Content
         /\ job[w].kind \in {"create", "confirm", "delete"}
  BY DEF TypeOK, Job

LEMMA ScanFields ==
  ASSUME TypeOK, NEW r \in Workers
  PROVE  /\ scan[r] \in Scan
         /\ scan[r].ops \subseteq Workers
         /\ scan[r].listed \subseteq Ids /\ scan[r].todo \subseteq Ids
         /\ scan[r].parsed \in [Ids -> Content]
         /\ scan[r].cur \in Workers \cup {Nobody}
  BY DEF TypeOK, Scan

LEMMA EmptyScanFields ==
  /\ EmptyScan.ops = {} /\ EmptyScan.listed = {} /\ EmptyScan.after = "idle"
  /\ \A i \in Ids : EmptyScan.parsed[i] = NoFile
  BY DEF EmptyScan, Nothing

LEMMA NoFileIsNoContent == NoFile \notin Bytes /\ NoFile \notin Parseable /\ NoFile \notin Unparseable
                           /\ \A b \in Parseable : b \notin Unparseable
  BY LedgerAssumption DEF Parseable

\* w comes to rest: it holds no snapshot and the files and the index are as they
\* were.  Its marker may go to the second form behind the upsert, or go away with
\* the attempt.
Rests(w, s) ==
    /\ s \in {"idle", "dead", "selfmark", "begin"}
    /\ pc'[w] = s /\ \A o \in Workers \ {w} : pc'[o] = pc[o]
    /\ UNCHANGED <<vault, rows, proj, ready, job, unmarked>>
    /\ \A o \in Workers \ {w} : marker'[o] = marker[o]
    /\ \/ marker'[w] = marker[w]
       \/ pc[w] = "stamp" /\ marker'[w] = "second" /\ marker[w] = "dirty"
       \/ pc[w] \in {"publish", "remove"} /\ marker'[w] = "absent"
    /\ \A o \in Workers \ {w} : writer = o => writer' = o
    /\ \A o \in Workers \ {w} : scan'[o] = scan[o]
    /\ scan'[w].ops = {} /\ scan'[w].listed = {} /\ scan'[w].after = "idle"
    /\ \A i \in Ids : scan'[w].parsed[i] = NoFile

LEMMA RestStep ==
  ASSUME SInv, LInv', NEW w \in Workers, NEW s, Rests(w, s)
  PROVE  SInv'
<1> USE DEF IsDelete, Scanning
<1>a. TypeOK /\ TypeOK'  BY DEF SInv, LInv
<1>b. /\ s \notin CallerSteps /\ s \notin {"list", "parse", "commit", "retire"}
      /\ s \notin {"publish", "upsert", "stamp", "hash", "mark", "remove", "unlinked", "deindex"}
  BY DEF Rests, CallerSteps
<1>c. \A r \in Workers : pc'[r] \in {"list", "parse", "commit", "retire"} => r # w
  BY <1>b DEF Rests
<1>d. \A o \in Workers : pc'[o] \in CallerSteps => o # w  BY <1>b DEF Rests
<1>e. \A o \in Workers : pc'[o] \in {"publish", "upsert", "stamp", "hash", "mark", "remove", "unlinked", "deindex"}
                            => o # w
  BY <1>b DEF Rests
<1>1. Started'  BY DEF SInv, Started, Rests
<1>2. Alone'  BY <1>d DEF SInv, Alone, Rests
<1>3. Locked'  BY <1>c DEF SInv, Locked, Rests
<1>4. ScanShape'  BY <1>b, <1>c DEF SInv, ScanShape, Rests
<1>5. StepKinds'  BY <1>d, <1>e DEF SInv, StepKinds, Rests
<1>6. BeforePublish'
  BY <1>e DEF SInv, BeforePublish, CanPublish, Rests
<1>7. BeforeRemove'
  BY <1>c, <1>e DEF SInv, BeforeRemove, Passed, Rests
<1>8. \A i \in Ids : Late(i)' => Late(i)
  BY <1>c DEF Late, Seen, Rests
<1>9. AfterPublish'
  BY <1>e, <1>8, <1>a, JobFields DEF SInv, AfterPublish, Rests
<1>10. ASSUME NEW i \in Ids, NEW o \in Workers, Owes(o, i) PROVE Owes(o, i)'
  <2>1. o \in PendingOn(i)'
    BY <1>10 DEF SInv, StepKinds, Owes, PendingOn, Pending, Rests
  <2> QED BY <1>10, <1>b, <1>c, <2>1 DEF Owes, Rests
<1>11. Owed'
  <2> SUFFICES ASSUME NEW i \in Ids \ unmarked', vault'[i] \in Parseable
               PROVE  /\ Late(i)' => \E o \in Workers : Owes(o, i)' /\ marker'[o] = "dirty"
                      /\ proj'[i] # vault'[i] => \E o \in Workers : Owes(o, i)'
    BY DEF Owed
  <2>1. CASE Late(i)'
    <3>1. PICK o \in Workers : Owes(o, i) /\ marker[o] = "dirty"
      BY <1>8, <2>1 DEF SInv, Owed, Rests
    <3>2. Owes(o, i)'  BY <1>10, <3>1
    <3>3. o = w /\ pc[w] = "stamp" => ~Late(i)
      BY <3>1 DEF SInv, AfterPublish, Owes, PendingOn, Rests
    <3>4. marker'[o] = "dirty"
      BY <1>8, <2>1, <3>1, <3>2, <3>3 DEF Rests, Owes, PendingOn, Pending
    <3> QED BY <3>2, <3>4
  <2>2. proj'[i] # vault'[i] => \E o \in Workers : Owes(o, i)'
    BY <1>10 DEF SInv, Owed, Rests
  <2> QED BY <2>1, <2>2
<1>12. OwedDelete'
  <2> SUFFICES ASSUME NEW i \in Ids \ unmarked', vault'[i] = NoFile, Shown(i)'
               PROVE  \E o \in Workers : OwesDelete(o, i)'
    BY DEF OwedDelete
  <2>1. Shown(i)  BY <1>c DEF Shown, Rests
  <2>2. PICK o \in Workers : OwesDelete(o, i)  BY <2>1 DEF SInv, OwedDelete, Rests
  <2>3. o \in PendingOn(i)'
    BY <2>2 DEF SInv, StepKinds, OwesDelete, PendingOn, Pending, Rests
  <2>4. OwesDelete(o, i)'  BY <1>b, <1>c, <2>2, <2>3 DEF OwesDelete, Rests
  <2> QED BY <2>4
<1> QED BY <1>1, <1>2, <1>3, <1>4, <1>5, <1>6, <1>7, <1>9, <1>11, <1>12 DEF SInv

\* A process that ends its call, or goes on to a rebuild, holds no snapshot.
LEMMA ToRebuildScan ==
  ASSUME TypeOK, NEW w \in Workers, NEW allow \in BOOLEAN, ToRebuild(w, allow, "idle")
  PROVE  /\ \A o \in Workers \ {w} : scan'[o] = scan[o]
         /\ scan'[w].ops = {} /\ scan'[w].listed = {} /\ scan'[w].after = "idle"
         /\ \A i \in Ids : scan'[w].parsed[i] = NoFile
<1> DEFINE e == [EmptyScan EXCEPT !.allow = allow, !.after = "idle"]
<1>1. scan' = [scan EXCEPT ![w] = e]  BY DEF ToRebuild
<1>2. /\ e.ops = {} /\ e.listed = {} /\ e.after = "idle"
      /\ e.parsed = EmptyScan.parsed
  BY EmptyScanType, EmptyScanFields DEF Scan
<1> HIDE DEF e
<1> QED BY <1>1, <1>2, EmptyScanFields DEF TypeOK

LEMMA EmptyScanAt ==
  ASSUME SInv, NEW w \in Workers, ~Scanning(w), pc[w] # "retire"
  PROVE  /\ scan[w].ops = {} /\ scan[w].listed = {} /\ scan[w].after = "idle"
         /\ \A i \in Ids : scan[w].parsed[i] = NoFile
  BY DEF SInv, ScanShape, Started

LEMMA ToIdleScan ==
  ASSUME SInv, NEW w \in Workers, ~Scanning(w), pc[w] # "retire",
         EndOrReconcile(w) \/ (\E allow \in BOOLEAN : ToRebuild(w, allow, "idle"))
  PROVE  /\ \A o \in Workers \ {w} : scan'[o] = scan[o]
         /\ scan'[w].ops = {} /\ scan'[w].listed = {} /\ scan'[w].after = "idle"
         /\ \A i \in Ids : scan'[w].parsed[i] = NoFile
<1>1. CASE scan' = scan  BY <1>1, EmptyScanAt
<1>2. ASSUME NEW allow \in BOOLEAN, ToRebuild(w, allow, "idle")
      PROVE  /\ \A o \in Workers \ {w} : scan'[o] = scan[o]
             /\ scan'[w].ops = {} /\ scan'[w].listed = {} /\ scan'[w].after = "idle"
             /\ \A i \in Ids : scan'[w].parsed[i] = NoFile
  BY <1>2, ToRebuildScan DEF SInv, LInv
<1> QED BY <1>1, <1>2 DEF EndOrReconcile

LEMMA SafeStart ==
  ASSUME ~Overlap, SInv, LInv', NEW w \in Workers, Starts(w)
  PROVE  SInv'
<1> USE DEF IsDelete, Scanning
<1>a. TypeOK  BY DEF SInv, LInv
<1>b. PICK i \in Ids, kind \in Kinds, b \in Content, step \in {"mark", "hash"} :
        /\ Begins(w, kind, i, b, step)
        /\ \/ kind = "create" /\ b \in Parseable /\ step = "mark"
           \/ kind = "confirm" /\ b \in Parseable /\ vault[i] # b /\ step = "mark"
           \/ kind = "delete" /\ vault[i] \in Parseable /\ step = "hash"
  BY DEF Starts, StartCreate, StartConfirm, StartDelete, Kinds, Content, Parseable
<1>c. /\ pc[w] = "idle" /\ marker[w] = "absent"
      /\ \A r \in Workers : w \notin scan[r].ops
      /\ \A u \in Workers \ {w} : pc[u] \in CallerSteps => job[u].id # i
      /\ \A o \in Workers \ {w} : job'[o] = job[o] /\ pc'[o] = pc[o]
      /\ job'[w].kind = kind /\ job'[w].id = i /\ job'[w].sha = b /\ pc'[w] = step
      /\ UNCHANGED <<vault, rows, proj, ready, writer, marker, scan, unmarked>>
  BY <1>a, <1>b DEF Begins, Unused, MayTouch, InFlightOn, Goto, indexVars, ledgerVars, TypeOK
<1>d. \A r \in Workers : pc'[r] \in {"list", "parse", "commit", "retire"} => r # w /\ pc'[r] = pc[r]
  BY <1>c, <1>b
<1>1. Started'  BY <1>c DEF SInv, Started
<1>2. Alone'  BY <1>c DEF SInv, Alone
<1>3. Locked'  BY <1>c, <1>d DEF SInv, Locked
<1>4. ScanShape'  BY <1>c, <1>d DEF SInv, ScanShape
<1>5. StepKinds'  BY <1>b, <1>c DEF SInv, StepKinds
<1>6. BeforePublish'  BY <1>b, <1>c, NoFileIsNoContent DEF SInv, BeforePublish, CanPublish
<1>7. BeforeRemove'  BY <1>b, <1>c, <1>d, NoFileIsNoContent DEF SInv, BeforeRemove, Passed
<1>8. \A j \in Ids : Late(j)' => Late(j)  BY <1>c, <1>d DEF Late, Seen
<1>9. AfterPublish'  BY <1>a, <1>b, <1>c, <1>8, JobFields DEF SInv, AfterPublish
<1>10. \A o \in Workers, j \in Ids : Owes(o, j) => Owes(o, j)'
  BY <1>c, <1>d DEF Owes, PendingOn, Pending
<1>11. Owed'  BY <1>8, <1>10, <1>c DEF SInv, Owed
<1>12. \A o \in Workers, j \in Ids : OwesDelete(o, j) => OwesDelete(o, j)'
  BY <1>c, <1>d DEF OwesDelete, PendingOn, Pending
<1>13. \A j \in Ids : Shown(j)' => Shown(j)  BY <1>c, <1>d DEF Shown
<1>14. OwedDelete'  BY <1>12, <1>13, <1>c DEF SInv, OwedDelete
<1> QED BY <1>1, <1>2, <1>3, <1>4, <1>5, <1>6, <1>7, <1>9, <1>11, <1>14 DEF SInv

\* A caller goes on to its next step, and neither a file nor the index changes.
LEMMA SafePrepare ==
  ASSUME SInv, LInv', NEW w \in Workers, HashDelete(w) \/ Mark(w) \/ Unlinked(w)
  PROVE  SInv'
<1> USE DEF IsDelete, Scanning
<1>a. TypeOK  BY DEF SInv, LInv
<1>b. /\ \A o \in Workers \ {w} : job'[o] = job[o] /\ pc'[o] = pc[o] /\ marker'[o] = marker[o]
      /\ job'[w].kind = job[w].kind /\ job'[w].id = job[w].id
      /\ UNCHANGED <<vault, rows, proj, ready, writer, scan>>
      /\ unmarked \subseteq unmarked'
      /\ \/ pc[w] = "hash" /\ pc'[w] = "mark" /\ job'[w].sha = vault[job[w].id] /\ marker'[w] = marker[w]
         \/ /\ pc[w] = "mark" /\ pc'[w] = (IF IsDelete(w) THEN "remove" ELSE "publish")
            /\ job'[w].sha = job[w].sha
            /\ \/ marker'[w] = "dirty"
               \/ marker'[w] = marker[w] /\ job[w].id \in unmarked'
         \/ /\ pc[w] = "unlinked" /\ pc'[w] = "deindex" /\ job'[w].sha = job[w].sha
            /\ marker'[w] = marker[w] \/ (marker[w] = "dirty" /\ marker'[w] = "second")
  <2> USE <1>a DEF Goto, indexVars, ledgerVars, TypeOK
  <2>1. CASE HashDelete(w)
    <3>1. job' = [job EXCEPT ![w] = [job[w] EXCEPT !.sha = vault[job[w].id]]]
      BY <2>1 DEF HashDelete
    <3>2. job[w] \in Job  OBVIOUS
    <3> QED BY <2>1, <3>1, <3>2 DEF HashDelete, Job
  <2>2. CASE Mark(w)  BY <2>2 DEF Mark, SInv, Started
  <2>3. CASE Unlinked(w)  BY <2>3 DEF Unlinked, Stamped
  <2> QED BY <2>1, <2>2, <2>3
<1>c. \A r \in Workers : pc'[r] \in {"list", "parse", "commit", "retire"} => r # w /\ pc'[r] = pc[r]
  BY <1>b
<1>d. pc[w] \in CallerSteps  BY <1>b DEF CallerSteps
<1>1. Started'  BY <1>b DEF SInv, Started
<1>2. Alone'  BY <1>b, <1>d DEF SInv, Alone
<1>3. Locked'  BY <1>b, <1>c DEF SInv, Locked
<1>4. ScanShape'  BY <1>b, <1>c DEF SInv, ScanShape
<1>5. StepKinds'  BY <1>b, <1>d DEF SInv, StepKinds
<1>6. BeforePublish'  BY <1>b, <1>5, JobFields, <1>a DEF SInv, StepKinds, BeforePublish, CanPublish
<1>7. BeforeRemove'  BY <1>b, <1>c DEF SInv, BeforeRemove, Passed, StepKinds
<1>8. \A j \in Ids : Late(j)' => Late(j)  BY <1>b, <1>c DEF Late, Seen
<1>9. AfterPublish'  BY <1>a, <1>b, <1>8, JobFields DEF SInv, AfterPublish
<1>10. \A o \in Workers, j \in Ids : Owes(o, j) => Owes(o, j)' /\ marker'[o] = marker[o]
  BY <1>b, <1>c DEF Owes, PendingOn, Pending, SInv, StepKinds, NotMarkedYet, LInv
<1>11. Owed'  BY <1>8, <1>10, <1>b DEF SInv, Owed
<1>12. \A o \in Workers, j \in Ids : OwesDelete(o, j) => OwesDelete(o, j)'
  BY <1>b, <1>c DEF OwesDelete, PendingOn, Pending
<1>13. \A j \in Ids : Shown(j)' => Shown(j)  BY <1>b, <1>c DEF Shown
<1>14. OwedDelete'  BY <1>12, <1>13, <1>b DEF SInv, OwedDelete
<1> QED BY <1>1, <1>2, <1>3, <1>4, <1>5, <1>6, <1>7, <1>9, <1>11, <1>14 DEF SInv

\* The new bytes are in the file, and the writer's own marker, if it made one,
\* stands for them.
LEMMA SafePublish ==
  ASSUME SInv, LInv', NEW w \in Workers, Publish(w)
  PROVE  SInv'
<1> DEFINE x == job[w].id
<1> USE DEF IsDelete, Scanning
<1>a. TypeOK /\ x \in Ids  BY JobFields DEF SInv, LInv
<1>b. /\ pc[w] = "publish" /\ pc'[w] = "upsert"
      /\ \A o \in Workers \ {w} : pc'[o] = pc[o]
      /\ vault'[x] = job[w].sha /\ \A i \in Ids \ {x} : vault'[i] = vault[i]
      /\ UNCHANGED <<rows, proj, ready, writer, marker, job, scan, unmarked>>
  BY <1>a DEF Publish, Goto, indexVars, ledgerVars, TypeOK
<1>c. /\ ~IsDelete(w) /\ job[w].sha \in Parseable /\ CanPublish(w)
      /\ \A o \in Workers \ {w} : pc[o] \in CallerSteps => job[o].id # x
  BY <1>b DEF SInv, Alone, StepKinds, CanPublish, CallerSteps, Publish
<1>d. \A r \in Workers : pc'[r] \in {"list", "parse", "commit", "retire"} => r # w /\ pc'[r] = pc[r]
  BY <1>b
<1>e. \A o \in Workers : pc'[o] \in CallerSteps => pc[o] \in CallerSteps /\ (o # w => vault'[job[o].id] = vault[job[o].id])
  BY <1>a, <1>b, <1>c, JobFields DEF CallerSteps
<1>1. Started'  BY <1>b DEF SInv, Started
<1>2. Alone'  BY <1>b, <1>e DEF SInv, Alone
<1>3. Locked'  BY <1>b, <1>d DEF SInv, Locked
<1>4. ScanShape'  BY <1>b, <1>d DEF SInv, ScanShape
<1>5. StepKinds'  BY <1>b, <1>c, <1>e DEF SInv, StepKinds
<1>6. BeforePublish'  BY <1>b, <1>e DEF SInv, BeforePublish, CanPublish, CallerSteps
<1>7. BeforeRemove'  BY <1>b, <1>c, <1>d, <1>e DEF SInv, BeforeRemove, Passed, CallerSteps
<1>8. \A j \in Ids \ {x} : Late(j)' => Late(j)  BY <1>b, <1>d DEF Late, Seen
<1>9. AfterPublish'
  BY <1>a, <1>b, <1>c, <1>e, <1>8, JobFields DEF SInv, AfterPublish, CallerSteps
<1>10. \A o \in Workers, j \in Ids \ {x} : Owes(o, j) => Owes(o, j)'
  BY <1>b, <1>d DEF Owes, PendingOn, Pending
<1>11. x \notin unmarked => Owes(w, x)' /\ marker'[w] = "dirty"
  BY <1>b, <1>c, <1>d DEF SInv, BeforePublish, Owes, PendingOn, Pending
<1>12. Owed'  BY <1>8, <1>10, <1>11, <1>b DEF SInv, Owed
<1>13. \A o \in Workers, j \in Ids : OwesDelete(o, j) => OwesDelete(o, j)'
  BY <1>b, <1>d DEF OwesDelete, PendingOn, Pending
<1>14. \A j \in Ids : Shown(j)' => Shown(j)  BY <1>b, <1>d DEF Shown
<1>15. OwedDelete'  BY <1>13, <1>14, <1>b, <1>c, NoFileIsNoContent DEF SInv, OwedDelete
<1> QED BY <1>1, <1>2, <1>3, <1>4, <1>5, <1>6, <1>7, <1>9, <1>12, <1>15 DEF SInv

\* The file is gone, and the deleter's own marker, if it made one, stands for that.
LEMMA SafeRemove ==
  ASSUME SInv, LInv', NEW w \in Workers, Remove(w)
  PROVE  SInv'
<1> DEFINE x == job[w].id
<1> USE DEF IsDelete, Scanning
<1>a. TypeOK /\ x \in Ids  BY JobFields DEF SInv, LInv
<1>b. pc[w] = "remove" /\ IsDelete(w) /\ vault[x] # NoFile /\ job[w].sha # NoFile
  BY DEF Remove, SInv, StepKinds, BeforeRemove
<1>c. /\ pc'[w] = "unlinked" /\ \A o \in Workers \ {w} : pc'[o] = pc[o]
      /\ vault'[x] = NoFile /\ \A i \in Ids \ {x} : vault'[i] = vault[i]
      /\ UNCHANGED <<rows, proj, ready, writer, marker, job, scan, unmarked>>
  BY <1>a, <1>b DEF Remove, Goto, indexVars, ledgerVars, TypeOK
<1>d. \A r \in Workers : pc'[r] \in {"list", "parse", "commit", "retire"} => r # w /\ pc'[r] = pc[r]
  BY <1>c
<1>e. \A o \in Workers : pc'[o] \in CallerSteps =>
          pc[o] \in CallerSteps /\ (o # w => job[o].id # x /\ vault'[job[o].id] = vault[job[o].id])
  BY <1>a, <1>b, <1>c, JobFields DEF CallerSteps, SInv, Alone
<1>f. marker[w] = "dirty" \/ x \in unmarked  BY <1>b DEF SInv, BeforeRemove
<1>1. Started'  BY <1>c DEF SInv, Started
<1>2. Alone'  BY <1>c, <1>e DEF SInv, Alone
<1>3. Locked'  BY <1>c, <1>d DEF SInv, Locked
<1>4. ScanShape'  BY <1>b, <1>c, <1>d DEF SInv, ScanShape
<1>5. StepKinds'  BY <1>b, <1>c, <1>e DEF SInv, StepKinds
<1>6. BeforePublish'  BY <1>c, <1>e DEF SInv, BeforePublish, CanPublish, CallerSteps
<1>7. BeforeRemove'  BY <1>c, <1>d, <1>e DEF SInv, BeforeRemove, Passed, CallerSteps
<1>8. \A j \in Ids \ {x} : Late(j)' => Late(j)  BY <1>c, <1>d DEF Late, Seen
<1>9. AfterPublish'  BY <1>a, <1>b, <1>c, <1>e, <1>8, JobFields DEF SInv, AfterPublish, CallerSteps
<1>10. \A o \in Workers, j \in Ids \ {x} : Owes(o, j) => Owes(o, j)'
  BY <1>c, <1>d DEF Owes, PendingOn, Pending
<1>11. Owed'  BY <1>8, <1>10, <1>c, NoFileIsNoContent DEF SInv, Owed
<1>12. \A o \in Workers, j \in Ids : OwesDelete(o, j) => OwesDelete(o, j)'
  BY <1>c, <1>d DEF OwesDelete, PendingOn, Pending
<1>13. ASSUME x \notin unmarked PROVE OwesDelete(w, x)'
  <2>1. \A r \in Workers : w \in scan[r].ops =>
           w \notin scan[r].unlinked /\ (pc[r] = "retire" => x \in scan[r].listed)
    BY <1>b, <1>f, <1>13 DEF SInv, BeforeRemove, Passed, LInv, FinishedStaysFinished
  <2> QED BY <1>b, <1>c, <1>d, <1>f, <1>13, <2>1 DEF OwesDelete, PendingOn, Pending
<1>14. \A j \in Ids : Shown(j)' => Shown(j)  BY <1>c, <1>d DEF Shown
<1>15. OwedDelete'  BY <1>12, <1>13, <1>14, <1>c DEF SInv, OwedDelete
<1> QED BY <1>1, <1>2, <1>3, <1>4, <1>5, <1>6, <1>7, <1>9, <1>11, <1>15 DEF SInv

\* The upsert waits for the writer lock, so no rebuild has seen the memory yet.
LEMMA SafeUpsert ==
  ASSUME SInv, LInv', NEW w \in Workers, Upsert(w)
  PROVE  SInv'
<1> DEFINE x == job[w].id
<1> USE DEF IsDelete, Scanning
<1>a. TypeOK /\ x \in Ids  BY JobFields DEF SInv, LInv
<1>b. /\ pc[w] = "upsert" /\ pc'[w] = "stamp" /\ \A o \in Workers \ {w} : pc'[o] = pc[o]
      /\ rows'[x] = job[w].sha /\ \A i \in Ids \ {x} : rows'[i] = rows[i]
      /\ writer = Nobody
      /\ UNCHANGED <<vault, proj, ready, writer, marker, job, scan, unmarked>>
  BY <1>a DEF Upsert, Goto, ledgerVars, TypeOK, SInv, Started
<1>c. \A r \in Workers : pc'[r] = "retire" => r # w /\ pc[r] = "retire"  BY <1>b
<1>d. \A r \in Workers : ~Scanning(r) /\ ~Scanning(r)'
  BY <1>b, LedgerAssumption DEF SInv, Locked
<1>e. vault[x] \in {job[w].sha} \cup Unparseable /\ pc[w] \in CallerSteps /\ ~IsDelete(w)
  BY <1>b DEF SInv, AfterPublish, StepKinds, CallerSteps
<1>f. \A o \in Workers : pc'[o] \in CallerSteps => pc[o] \in CallerSteps /\ (o # w => job[o].id # x)
  BY <1>b, <1>e DEF SInv, Alone
<1>1. Started'  BY <1>b DEF SInv, Started
<1>2. Alone'  BY <1>b, <1>e DEF SInv, Alone
<1>3. Locked'  BY <1>d DEF Locked
<1>4. ScanShape'  BY <1>b, <1>c, <1>d DEF SInv, ScanShape
<1>5. StepKinds'  BY <1>b, <1>e, <1>f DEF SInv, StepKinds
<1>6. BeforePublish'  BY <1>b DEF SInv, BeforePublish, CanPublish
<1>7. BeforeRemove'  BY <1>b, <1>c, <1>d DEF SInv, BeforeRemove, Passed
<1>8. \A j \in Ids : Late(j)' /\ vault[j] \in Parseable => Late(j) /\ j # x
  BY <1>b, <1>d, <1>e, NoFileIsNoContent DEF Late, Seen
<1>9. AfterPublish'  BY <1>a, <1>b, <1>e, <1>f, <1>8, JobFields DEF SInv, AfterPublish, CallerSteps
<1>10. \A o \in Workers, j \in Ids : Owes(o, j) => Owes(o, j)'
  BY <1>b, <1>c DEF Owes, PendingOn, Pending
<1>11. Owed'  BY <1>8, <1>10, <1>b DEF SInv, Owed
<1>12. \A o \in Workers, j \in Ids : OwesDelete(o, j) => OwesDelete(o, j)'
  BY <1>b, <1>c DEF OwesDelete, PendingOn, Pending
<1>13. \A j \in Ids \ {x} : Shown(j)' => Shown(j)  BY <1>b, <1>d DEF Shown
<1>14. vault[x] # NoFile  BY <1>b, <1>e, <1>a, NoFileIsNoContent DEF SInv, StepKinds
<1>15. OwedDelete'  BY <1>12, <1>13, <1>14, <1>b DEF SInv, OwedDelete
<1> QED BY <1>1, <1>2, <1>3, <1>4, <1>5, <1>6, <1>7, <1>9, <1>11, <1>15 DEF SInv

\* The row and the projections of what was removed go.
LEMMA SafeDeindex ==
  ASSUME SInv, LInv', NEW w \in Workers, Deindex(w)
  PROVE  SInv'
<1> DEFINE x == job[w].id
<1> USE DEF IsDelete, Scanning
<1>a. TypeOK /\ x \in Ids  BY JobFields DEF SInv, LInv
<1>b. PICK s \in {"idle", "selfmark"} :
        /\ pc[w] = "deindex" /\ pc'[w] = s /\ \A o \in Workers \ {w} : pc'[o] = pc[o]
        /\ rows'[x] = NoFile /\ \A i \in Ids \ {x} : rows'[i] = rows[i]
        /\ proj'[x] = NoFile /\ \A i \in Ids \ {x} : proj'[i] = proj[i]
        /\ writer = Nobody
        /\ UNCHANGED <<vault, ready, writer, marker, job, unmarked>>
  BY <1>a DEF Deindex, EndOrReconcile, ToRebuild, Goto, ledgerVars, TypeOK, SInv, Started
<1>c. /\ \A o \in Workers \ {w} : scan'[o] = scan[o]
      /\ scan'[w].ops = {} /\ scan'[w].listed = {} /\ scan'[w].after = "idle"
      /\ \A i \in Ids : scan'[w].parsed[i] = NoFile
  BY <1>a, <1>b, ToIdleScan DEF Deindex
<1>d. vault[x] = NoFile  BY <1>b DEF SInv, AfterPublish
<1>e. \A r \in Workers : pc'[r] = "retire" => r # w /\ pc[r] = "retire"  BY <1>b
<1>f. \A r \in Workers : ~Scanning(r) /\ ~Scanning(r)'
  BY <1>b, LedgerAssumption DEF SInv, Locked
<1>g. \A o \in Workers : pc'[o] \in CallerSteps => o # w /\ pc[o] \in CallerSteps
  BY <1>b DEF CallerSteps
<1>1. Started'  BY <1>b, <1>c DEF SInv, Started
<1>2. Alone'  BY <1>b, <1>g DEF SInv, Alone
<1>3. Locked'  BY <1>f DEF Locked
<1>4. ScanShape'  BY <1>b, <1>c, <1>e, <1>f DEF SInv, ScanShape
<1>5. StepKinds'  BY <1>b, <1>g DEF SInv, StepKinds
<1>6. BeforePublish'  BY <1>b, <1>c DEF SInv, BeforePublish, CanPublish
<1>7. BeforeRemove'  BY <1>b, <1>c, <1>e, <1>f DEF SInv, BeforeRemove, Passed
<1>8. \A j \in Ids \ {x} : Late(j)' => Late(j)  BY <1>b, <1>f DEF Late, Seen
<1>9. AfterPublish'
  BY <1>a, <1>b, <1>d, <1>g, <1>8, JobFields, NoFileIsNoContent DEF SInv, AfterPublish
<1>10. \A o \in Workers, j \in Ids : Owes(o, j) => Owes(o, j)'
  BY <1>b, <1>c, <1>e DEF Owes, PendingOn, Pending
<1>11. Owed'  BY <1>8, <1>10, <1>b, <1>d, NoFileIsNoContent DEF SInv, Owed
<1>12. \A o \in Workers, j \in Ids : OwesDelete(o, j) => OwesDelete(o, j)'
  BY <1>b, <1>c, <1>e DEF OwesDelete, PendingOn, Pending
<1>13. \A j \in Ids : Shown(j)' => Shown(j) /\ j # x  BY <1>b, <1>f DEF Shown
<1>15. OwedDelete'  BY <1>12, <1>13, <1>b DEF SInv, OwedDelete
<1> QED BY <1>1, <1>2, <1>3, <1>4, <1>5, <1>6, <1>7, <1>9, <1>11, <1>15 DEF SInv

\* A rebuild takes the lock and its snapshot of the ledger.
LEMMA SafeBegin ==
  ASSUME SInv, LInv', NEW w \in Workers, Begin(w)
  PROVE  SInv'
<1> USE DEF IsDelete, Scanning
<1>a. TypeOK  BY DEF SInv, LInv
<1> DEFINE n == [scan[w] EXCEPT
                   !.ops = Pending,
                   !.unlinked = {o \in Pending : IsDelete(o) /\ marker[o] = "second"},
                   !.selfs = {o \in Workers : self[o] # "none"},
                   !.todo = Ids]
<1>b. scan' = [scan EXCEPT ![w] = n]  BY DEF Begin
<1>c. /\ n.ops = Pending /\ n.todo = Ids /\ n.listed = scan[w].listed
      /\ n.parsed = scan[w].parsed /\ n.after = scan[w].after
  BY <1>a, ScanFields DEF Scan
<1> HIDE DEF n
<1>d. /\ pc[w] = "begin" /\ pc'[w] = "list" /\ \A o \in Workers \ {w} : pc'[o] = pc[o]
      /\ writer = Nobody /\ writer' = w
      /\ \A o \in Workers \ {w} : scan'[o] = scan[o]
      /\ scan'[w].ops = Pending /\ scan'[w].todo = Ids /\ scan'[w].listed = {}
      /\ scan'[w].after = "idle"
      /\ \A i \in Ids : scan'[w].parsed[i] = NoFile
      /\ UNCHANGED <<vault, rows, proj, ready, marker, job, unmarked>>
  BY <1>a, <1>b, <1>c, EmptyScanAt DEF Begin, Goto, ledgerVars, TypeOK
<1>e. \A r \in Workers : pc'[r] = "retire" => r # w /\ pc[r] = "retire"  BY <1>d
<1>f. \A r \in Workers : ~Scanning(r) /\ (r # w => ~Scanning(r)')
  BY <1>d, LedgerAssumption DEF SInv, Locked
<1>g. \A o \in Workers : pc'[o] \in CallerSteps => o # w /\ pc[o] \in CallerSteps
  BY <1>d DEF CallerSteps
<1>1. Started'  BY <1>d DEF SInv, Started
<1>2. Alone'  BY <1>d, <1>g DEF SInv, Alone
<1>3. Locked'  BY <1>d, <1>f DEF Locked
<1>4. ScanShape'  BY <1>d, <1>e, <1>f DEF SInv, ScanShape
<1>5. StepKinds'  BY <1>d, <1>g DEF SInv, StepKinds
<1>6. BeforePublish'
  BY <1>a, <1>d, <1>g, JobFields, NoFileIsNoContent DEF SInv, BeforePublish, CanPublish, StepKinds, CallerSteps
<1>7. BeforeRemove'  BY <1>a, <1>d, <1>f, JobFields DEF SInv, BeforeRemove, Passed
<1>8. \A j \in Ids : Late(j)' => Late(j)  BY <1>d, <1>f DEF Late, Seen
<1>9. AfterPublish'  BY <1>a, <1>d, <1>8, JobFields DEF SInv, AfterPublish
<1>10. \A o \in Workers, j \in Ids : Owes(o, j) => Owes(o, j)'
  BY <1>d, <1>e DEF Owes, PendingOn, Pending
<1>11. Owed'  BY <1>8, <1>10, <1>d DEF SInv, Owed
<1>12. \A o \in Workers, j \in Ids : OwesDelete(o, j) => OwesDelete(o, j)'
  BY <1>d, <1>e DEF OwesDelete, PendingOn, Pending
<1>13. \A j \in Ids : Shown(j)' => Shown(j)  BY <1>d, <1>f DEF Shown
<1>14. OwedDelete'  BY <1>12, <1>13, <1>d DEF SInv, OwedDelete
<1> QED BY <1>1, <1>2, <1>3, <1>4, <1>5, <1>6, <1>7, <1>9, <1>11, <1>14 DEF SInv

\* The walk passes a directory entry.
LEMMA SafeList ==
  ASSUME SInv, LInv', NEW w \in Workers, NEW x \in Ids, List(w, x)
  PROVE  SInv'
<1> USE DEF IsDelete, Scanning
<1>a. TypeOK  BY DEF SInv, LInv
<1> DEFINE listed == scan[w].listed \cup {j \in {x} : vault[j] # NoFile}
           left == scan[w].todo \ {x}
           n == [scan[w] EXCEPT !.listed = listed, !.todo = IF left = {} THEN listed ELSE left]
<1>b. scan' = [scan EXCEPT ![w] = n]  BY DEF List
<1>c. /\ n.ops = scan[w].ops /\ n.listed = listed /\ n.unlinked = scan[w].unlinked
      /\ n.todo = (IF left = {} THEN listed ELSE left)
      /\ n.parsed = scan[w].parsed /\ n.after = scan[w].after
  BY <1>a, ScanFields DEF Scan
<1> HIDE DEF n
<1>d. /\ pc[w] = "list" /\ \A o \in Workers \ {w} : pc'[o] = pc[o] /\ scan'[o] = scan[o]
      /\ pc'[w] \in {"list", "parse", "commit"} /\ x \in scan[w].todo
      /\ scan'[w].ops = scan[w].ops /\ scan'[w].unlinked = scan[w].unlinked
      /\ scan'[w].listed = listed
      /\ pc'[w] = "list" => scan'[w].todo = left
      /\ pc'[w] = "parse" => left = {} /\ scan'[w].todo = listed
      /\ pc'[w] = "commit" => left = {} /\ listed = {}
      /\ scan'[w].parsed = scan[w].parsed /\ scan'[w].after = scan[w].after
      /\ UNCHANGED <<vault, rows, proj, ready, writer, marker, job, unmarked>>
  BY <1>a, <1>b, <1>c DEF List, Goto, indexVars, ledgerVars, TypeOK
<1>e. \A r \in Workers : pc'[r] = "retire" => r # w /\ pc[r] = "retire"  BY <1>d
<1>f. \A r \in Workers : Scanning(r)' <=> Scanning(r)  BY <1>d
<1>g. \A o \in Workers : pc'[o] \in CallerSteps => o # w /\ pc[o] \in CallerSteps
  BY <1>d DEF CallerSteps
<1>h. \A r \in Workers : scan'[r].ops = scan[r].ops /\ scan'[r].parsed = scan[r].parsed
                         /\ scan'[r].unlinked = scan[r].unlinked /\ scan[r].listed \subseteq scan'[r].listed
  BY <1>d
<1>i. \A j \in Ids : scan[w].parsed[j] = NoFile  BY <1>d DEF SInv, ScanShape
<1>1. Started'  BY <1>d DEF SInv, Started
<1>2. Alone'  BY <1>d, <1>g DEF SInv, Alone
<1>3. Locked'  BY <1>d, <1>f DEF SInv, Locked
<1>4. ScanShape'  BY <1>d, <1>f, <1>i DEF SInv, ScanShape
<1>5. StepKinds'  BY <1>d, <1>g DEF SInv, StepKinds
<1>6. BeforePublish'  BY <1>d, <1>h DEF SInv, BeforePublish, CanPublish
<1>7. BeforeRemove'
  <2>1. \A r \in Workers, j \in Ids : Passed(r, j)' => Passed(r, j) \/ (r = w /\ (vault[j] # NoFile => j \in listed))
    BY <1>d DEF Passed
  <2> QED BY <1>a, <1>d, <1>h, <2>1, JobFields DEF SInv, BeforeRemove
<1>8. \A j \in Ids : Late(j)' /\ vault[j] \in Parseable => Late(j)
  <2>1. \A j \in Ids : Seen(w, j)' /\ vault[j] # NoFile => Seen(w, j)
    BY <1>d DEF Seen
  <2>2. \A r \in Workers \ {w}, j \in Ids : Seen(r, j)' => Seen(r, j)  BY <1>d DEF Seen
  <2> QED BY <1>d, <1>h, <2>1, <2>2, NoFileIsNoContent DEF Late
<1>9. AfterPublish'  BY <1>a, <1>d, <1>8, JobFields DEF SInv, AfterPublish
<1>10. \A o \in Workers, j \in Ids : Owes(o, j) => Owes(o, j)'
  BY <1>d, <1>e, <1>h DEF Owes, PendingOn, Pending
<1>11. Owed'  BY <1>8, <1>10, <1>d DEF SInv, Owed
<1>12. \A o \in Workers, j \in Ids : OwesDelete(o, j) => OwesDelete(o, j)'
  BY <1>d, <1>e, <1>h DEF OwesDelete, PendingOn, Pending
<1>13. \A j \in Ids : Shown(j)' => Shown(j)  BY <1>d, <1>f, <1>h DEF Shown
<1>14. OwedDelete'  BY <1>12, <1>13, <1>d DEF SInv, OwedDelete
<1> QED BY <1>1, <1>2, <1>3, <1>4, <1>5, <1>6, <1>7, <1>9, <1>11, <1>14 DEF SInv

\* A listed file is read: what a rebuild knows of it is what it holds.
LEMMA SafeParse ==
  ASSUME SInv, LInv', NEW w \in Workers, NEW x \in Ids, Parse(w, x)
  PROVE  SInv'
<1> USE DEF IsDelete, Scanning
<1>a. TypeOK  BY DEF SInv, LInv
<1> DEFINE got == IF vault[x] \in Parseable THEN vault[x] ELSE NoFile
           n == [scan[w] EXCEPT !.parsed[x] = got, !.todo = scan[w].todo \ {x}]
<1>b. scan' = [scan EXCEPT ![w] = n]  BY DEF Parse
<1>c. /\ n.ops = scan[w].ops /\ n.listed = scan[w].listed /\ n.unlinked = scan[w].unlinked
      /\ n.todo = scan[w].todo \ {x}
      /\ n.parsed = [scan[w].parsed EXCEPT ![x] = got] /\ n.after = scan[w].after
  BY <1>a, ScanFields DEF Scan
<1> HIDE DEF n
<1>d. /\ pc[w] = "parse" /\ \A o \in Workers \ {w} : pc'[o] = pc[o] /\ scan'[o] = scan[o]
      /\ pc'[w] \in {"parse", "commit"} /\ x \in scan[w].todo
      /\ scan'[w].ops = scan[w].ops /\ scan'[w].unlinked = scan[w].unlinked
      /\ scan'[w].listed = scan[w].listed
      /\ scan'[w].todo = scan[w].todo \ {x}
      /\ pc'[w] = "commit" => scan[w].todo = {x}
      /\ scan'[w].parsed[x] = got
      /\ \A j \in Ids \ {x} : scan'[w].parsed[j] = scan[w].parsed[j]
      /\ scan'[w].after = scan[w].after
      /\ UNCHANGED <<vault, rows, proj, ready, writer, marker, job, unmarked>>
  BY <1>a, <1>b, <1>c, ScanFields DEF Parse, Goto, indexVars, ledgerVars, TypeOK
<1>e. \A r \in Workers : pc'[r] = "retire" => r # w /\ pc[r] = "retire"  BY <1>d
<1>f. \A r \in Workers : Scanning(r)' <=> Scanning(r)  BY <1>d
<1>g. \A o \in Workers : pc'[o] \in CallerSteps => o # w /\ pc[o] \in CallerSteps
  BY <1>d DEF CallerSteps
<1>h. \A r \in Workers : /\ scan'[r].ops = scan[r].ops /\ scan'[r].unlinked = scan[r].unlinked
                         /\ scan[r].listed = scan'[r].listed
                         /\ \A j \in Ids : \/ scan'[r].parsed[j] = scan[r].parsed[j]
                                           \/ r = w /\ j = x /\ scan'[r].parsed[j] \in {vault[j], NoFile}
  BY <1>d
<1>1. Started'  BY <1>d DEF SInv, Started
<1>2. Alone'  BY <1>d, <1>g DEF SInv, Alone
<1>3. Locked'  BY <1>d, <1>f DEF SInv, Locked
<1>4. ScanShape'  BY <1>d, <1>f DEF SInv, ScanShape
<1>5. StepKinds'  BY <1>d, <1>g DEF SInv, StepKinds
<1>6. BeforePublish'
  BY <1>a, <1>d, <1>h, JobFields, NoFileIsNoContent
  DEF SInv, BeforePublish, CanPublish, StepKinds, CallerSteps
<1>7. BeforeRemove'  BY <1>d, <1>h DEF SInv, BeforeRemove, Passed
<1>8. \A j \in Ids : Late(j)' /\ vault[j] \in Parseable => Late(j)
  <2>1. \A j \in Ids \ {x} : Seen(w, j)' => Seen(w, j)
    BY <1>d DEF Seen
  <2>2. \A r \in Workers \ {w}, j \in Ids : Seen(r, j)' => Seen(r, j)  BY <1>d DEF Seen
  <2> QED BY <1>d, <2>1, <2>2 DEF Late
<1>9. AfterPublish'  BY <1>a, <1>d, <1>8, JobFields DEF SInv, AfterPublish
<1>10. \A o \in Workers, j \in Ids : Owes(o, j) => Owes(o, j)'
  BY <1>d, <1>e DEF Owes, PendingOn, Pending
<1>11. Owed'  BY <1>8, <1>10, <1>d DEF SInv, Owed
<1>12. \A o \in Workers, j \in Ids : OwesDelete(o, j) /\ vault[j] = NoFile => OwesDelete(o, j)'
  BY <1>d, <1>e, <1>h, NoFileIsNoContent DEF OwesDelete, PendingOn, Pending
<1>13. \A j \in Ids : Shown(j)' /\ vault[j] = NoFile => Shown(j)
  BY <1>d, <1>f, <1>h, NoFileIsNoContent DEF Shown
<1>14. OwedDelete'  BY <1>12, <1>13, <1>d DEF SInv, OwedDelete
<1> QED BY <1>1, <1>2, <1>3, <1>4, <1>5, <1>6, <1>7, <1>9, <1>11, <1>14 DEF SInv

\* What a rebuild commits is what it has seen; of a memory changed without a marker
\* it makes up for the change when it has seen the file as it is.
LEMMA SafeCommit ==
  ASSUME SInv, LInv', NEW w \in Workers, Commit(w)
  PROVE  SInv'
<1> USE DEF IsDelete, Scanning
<1>a. TypeOK  BY DEF SInv, LInv
<1>b. /\ pc[w] = "commit" /\ pc'[w] = "retire" /\ \A o \in Workers \ {w} : pc'[o] = pc[o]
      /\ rows' = scan[w].parsed /\ proj' = scan[w].parsed /\ ready'
      /\ UNCHANGED <<vault, marker, job, scan>>
      /\ unmarked' = unmarked \ CaughtUp(w)
  BY <1>a DEF Commit, Goto, ledgerVars, TypeOK
<1>c. \A r \in Workers : ~Scanning(r)' /\ (Scanning(r) => r = w)
  BY <1>b DEF SInv, Locked
<1>d. \A o \in Workers : pc'[o] \in CallerSteps => o # w /\ pc[o] \in CallerSteps
  BY <1>b DEF CallerSteps
<1>e. \A o \in Workers : pc'[o] \in CallerSteps /\ job[o].id \in unmarked => job[o].id \in unmarked'
  BY <1>b, <1>d DEF CaughtUp, InFlightOn
<1>f. \A j \in Ids \ unmarked' : j \in unmarked => scan[w].parsed[j] = vault[j]
  BY <1>b DEF CaughtUp
<1>1. Started'  BY <1>b DEF SInv, Started
<1>2. Alone'  BY <1>b, <1>d DEF SInv, Alone
<1>3. Locked'  BY <1>c DEF Locked
<1>4. ScanShape'  BY <1>b, <1>c DEF SInv, ScanShape
<1>5. StepKinds'  BY <1>b, <1>d DEF SInv, StepKinds
<1>6. BeforePublish'  BY <1>b, <1>e DEF SInv, BeforePublish, CanPublish, CallerSteps
<1>7. BeforeRemove'  BY <1>b, <1>c, <1>e DEF SInv, BeforeRemove, Passed, CallerSteps
<1>8. \A j \in Ids : Late(j)' => Late(j) /\ scan[w].parsed[j] # vault[j]
  BY <1>b, <1>c DEF Late, Seen
<1>9. AfterPublish'  BY <1>a, <1>b, <1>8, JobFields DEF SInv, AfterPublish
<1>10. \A o \in Workers, j \in Ids : Owes(o, j) /\ scan[w].parsed[j] # vault[j] => Owes(o, j)'
  BY <1>b DEF Owes, PendingOn, Pending
<1>11. \A j \in Ids : proj'[j] # vault[j] => Late(j)'  BY <1>b DEF Late
<1>12. Owed'  BY <1>8, <1>10, <1>11, <1>b, <1>f DEF SInv, Owed
<1>13. \A o \in Workers, j \in Ids : OwesDelete(o, j) /\ scan[w].parsed[j] # NoFile => OwesDelete(o, j)'
  BY <1>b DEF OwesDelete, PendingOn, Pending, SInv, ScanShape
<1>14. \A j \in Ids : Shown(j)' => Shown(j) /\ scan[w].parsed[j] # NoFile
  BY <1>b, <1>c DEF Shown
<1>15. OwedDelete'  BY <1>13, <1>14, <1>b, <1>f DEF SInv, OwedDelete
<1> QED BY <1>1, <1>2, <1>3, <1>4, <1>5, <1>6, <1>7, <1>9, <1>12, <1>15 DEF SInv

\* A retirement is decided: no marker that still stands for something is covered.
LEMMA SafeRetire ==
  ASSUME SInv, LInv', NEW w \in Workers, Decide(w) \/ (\E o \in Workers : Probe(w, o))
  PROVE  SInv'
<1> DEFINE c == scan[w].cur
<1> USE DEF IsDelete, Scanning
<1>a. TypeOK  BY DEF SInv, LInv
<1>b. /\ pc[w] = "retire"
      /\ UNCHANGED <<vault, rows, proj, ready, writer, job, pc, unmarked>>
  BY DEF Decide, Probe, indexVars
<1>c. /\ \A r \in Workers \ {w} : scan'[r] = scan[r]
      /\ scan'[w].ops \subseteq scan[w].ops /\ scan'[w].listed = scan[w].listed
      /\ scan'[w].parsed = scan[w].parsed /\ scan'[w].unlinked = scan[w].unlinked
      /\ scan'[w].after = scan[w].after
  <2>1. CASE Decide(w)
    <3> DEFINE n == [scan[w] EXCEPT !.ops = scan[w].ops \ {c}, !.cur = Nobody, !.dead = FALSE]
    <3>1. scan' = [scan EXCEPT ![w] = n]  BY <2>1 DEF Decide
    <3>2. /\ n.ops = scan[w].ops \ {c} /\ n.listed = scan[w].listed /\ n.after = scan[w].after
          /\ n.parsed = scan[w].parsed /\ n.unlinked = scan[w].unlinked
      BY <1>a, ScanFields DEF Scan
    <3> HIDE DEF n
    <3> QED BY <1>a, <3>1, <3>2 DEF TypeOK
  <2>2. ASSUME NEW o \in Workers, Probe(w, o)
        PROVE  /\ \A r \in Workers \ {w} : scan'[r] = scan[r]
               /\ scan'[w].ops \subseteq scan[w].ops /\ scan'[w].listed = scan[w].listed
               /\ scan'[w].parsed = scan[w].parsed /\ scan'[w].unlinked = scan[w].unlinked
               /\ scan'[w].after = scan[w].after
    <3> DEFINE n == [scan[w] EXCEPT !.cur = o, !.dead = pc[o] = "dead"]
    <3>1. scan' = [scan EXCEPT ![w] = n]  BY <2>2 DEF Probe
    <3>2. /\ n.ops = scan[w].ops /\ n.listed = scan[w].listed /\ n.after = scan[w].after
          /\ n.parsed = scan[w].parsed /\ n.unlinked = scan[w].unlinked
      BY <1>a, ScanFields DEF Scan
    <3> HIDE DEF n
    <3> QED BY <1>a, <3>1, <3>2 DEF TypeOK
  <2> QED BY <2>1, <2>2
<1>d. \A o \in Workers : \/ marker'[o] = marker[o]
                         \/ o = c /\ c \in scan[w].ops /\ Covered(w, c)
                            /\ (scan[w].dead => pc[c] = "dead")
  <2>1. CASE Decide(w)
    <3>1. c \in scan[w].ops /\ (scan[w].dead => pc[c] = "dead")
      BY <2>1 DEF Decide, SInv, LInv, DeadStaysDead
    <3> QED BY <1>a, <2>1, <3>1 DEF Decide, TypeOK
  <2>2. CASE \E o \in Workers : Probe(w, o)  BY <2>2 DEF Probe, ledgerVars
  <2> QED BY <2>1, <2>2
<1>e. \A r \in Workers : /\ scan'[r].ops \subseteq scan[r].ops /\ scan'[r].listed = scan[r].listed
                         /\ scan'[r].parsed = scan[r].parsed /\ scan'[r].unlinked = scan[r].unlinked
                         /\ scan'[r].after = scan[r].after
                         /\ Scanning(r) => scan'[r] = scan[r]
  BY <1>b, <1>c
<1>1. Started'  BY <1>b, <1>e DEF SInv, Started
<1>2. Alone'  BY <1>b DEF SInv, Alone
<1>3. Locked'  BY <1>b DEF SInv, Locked
<1>4. ScanShape'  BY <1>b, <1>e DEF SInv, ScanShape
<1>5. StepKinds'  BY <1>b DEF SInv, StepKinds
<1>6. BeforePublish'
  <2>1. \A o \in Workers : CanPublish(o) /\ pc[o] = "publish" => marker'[o] = marker[o]
    BY <1>d DEF SInv, BeforePublish, CanPublish, Covered, WriteCovered
  <2> QED BY <1>b, <1>e, <2>1 DEF SInv, BeforePublish, CanPublish
<1>7. BeforeRemove'
  <2>1. \A o \in Workers : pc[o] = "remove" /\ IsDelete(o) /\ marker[o] = "dirty" => marker'[o] = marker[o]
    BY <1>d DEF SInv, BeforeRemove, LInv, FinishedStaysFinished, Covered, DeleteCovered
  <2> QED BY <1>b, <1>e, <2>1 DEF SInv, BeforeRemove, Passed
<1>8. \A j \in Ids : Late(j)' => Late(j)  BY <1>b, <1>e DEF Late, Seen
<1>9. AfterPublish'  BY <1>a, <1>b, <1>8, JobFields DEF SInv, AfterPublish
<1>10. \A o \in Workers, j \in Ids : Owes(o, j) => Owes(o, j)' /\ marker'[o] = marker[o]
  <2>1. \A o \in Workers, j \in Ids : Owes(o, j) => marker'[o] = marker[o]
    BY <1>b, <1>d DEF Owes, PendingOn, Covered, WriteCovered
  <2> QED BY <1>b, <1>e, <2>1 DEF Owes, PendingOn, Pending
<1>11. Owed'  BY <1>8, <1>10, <1>b DEF SInv, Owed
<1>12. \A o \in Workers, j \in Ids : OwesDelete(o, j) /\ vault[j] = NoFile => OwesDelete(o, j)'
  <2>1. \A o \in Workers, j \in Ids : OwesDelete(o, j) /\ vault[j] = NoFile => marker'[o] = marker[o]
    BY <1>b, <1>d DEF OwesDelete, PendingOn, Covered, DeleteCovered
  <2> QED BY <1>b, <1>e, <2>1 DEF OwesDelete, PendingOn, Pending
<1>13. \A j \in Ids : Shown(j)' => Shown(j)  BY <1>b, <1>e DEF Shown
<1>14. OwedDelete'  BY <1>12, <1>13, <1>b DEF SInv, OwedDelete
<1> QED BY <1>1, <1>2, <1>3, <1>4, <1>5, <1>6, <1>7, <1>9, <1>11, <1>14 DEF SInv

\* A new process takes a name that no marker and no snapshot holds.
LEMMA SafeSpawn ==
  ASSUME SInv, LInv', NEW w \in Workers, Spawn(w)
  PROVE  SInv'
<1> USE DEF IsDelete, Scanning
<1>a. TypeOK  BY DEF SInv, LInv
<1>b. /\ pc[w] = "dead" /\ pc'[w] = "idle" /\ marker[w] = "absent"
      /\ \A o \in Workers \ {w} : pc'[o] = pc[o] /\ job'[o] = job[o]
      /\ UNCHANGED <<vault, rows, proj, ready, writer, marker, scan, unmarked>>
  BY <1>a DEF Spawn, Unused, Goto, indexVars, ledgerVars, TypeOK
<1>c. \A o \in Workers : pc'[o] \in CallerSteps => o # w  BY <1>b DEF CallerSteps
<1>d. \A r \in Workers : pc'[r] \in {"list", "parse", "commit", "retire"} => r # w  BY <1>b
<1>1. Started'  BY <1>b DEF SInv, Started
<1>2. Alone'  BY <1>b, <1>c DEF SInv, Alone
<1>3. Locked'  BY <1>b, <1>d DEF SInv, Locked
<1>4. ScanShape'  BY <1>b, <1>d DEF SInv, ScanShape
<1>5. StepKinds'  BY <1>b, <1>c DEF SInv, StepKinds
<1>6. BeforePublish'  BY <1>b DEF SInv, BeforePublish, CanPublish
<1>7. BeforeRemove'  BY <1>b, <1>d DEF SInv, BeforeRemove, Passed
<1>8. \A j \in Ids : Late(j)' => Late(j)  BY <1>b, <1>d DEF Late, Seen
<1>9. AfterPublish'  BY <1>a, <1>b, <1>8, JobFields DEF SInv, AfterPublish
<1>10. \A o \in Workers, j \in Ids : Owes(o, j) => Owes(o, j)'
  BY <1>b, <1>d DEF Owes, PendingOn, Pending
<1>11. Owed'  BY <1>8, <1>10, <1>b DEF SInv, Owed
<1>12. \A o \in Workers, j \in Ids : OwesDelete(o, j) => OwesDelete(o, j)'
  BY <1>b, <1>d DEF OwesDelete, PendingOn, Pending
<1>13. \A j \in Ids : Shown(j)' => Shown(j)  BY <1>b, <1>d DEF Shown
<1>14. OwedDelete'  BY <1>12, <1>13, <1>b DEF SInv, OwedDelete
<1> QED BY <1>1, <1>2, <1>3, <1>4, <1>5, <1>6, <1>7, <1>9, <1>11, <1>14 DEF SInv

LEMMA SafeMangle ==
  ASSUME SInv, LInv', NEW x \in Ids, Mangle(x)
  PROVE  SInv'
<1> USE DEF IsDelete, Scanning
<1>a. TypeOK  BY DEF SInv, LInv
<1>b. /\ vault[x] \in Parseable /\ vault'[x] \in Unparseable
      /\ \A i \in Ids \ {x} : vault'[i] = vault[i]
      /\ UNCHANGED <<rows, proj, ready, writer, marker, pc, job, scan, unmarked>>
  BY <1>a DEF Mangle, indexVars, ledgerVars, TypeOK
<1>1. Started' /\ Alone' /\ Locked' /\ ScanShape' /\ StepKinds'
  BY <1>b DEF SInv, Started, Alone, Locked, ScanShape, StepKinds
<1>2. BeforePublish'
  BY <1>a, <1>b, JobFields, NoFileIsNoContent DEF SInv, BeforePublish, CanPublish, StepKinds, CallerSteps
<1>3. BeforeRemove'  BY <1>a, <1>b, JobFields, NoFileIsNoContent DEF SInv, BeforeRemove, Passed
<1>4. \A j \in Ids : Late(j)' /\ vault'[j] \in Parseable => Late(j) /\ j # x
  BY <1>b, NoFileIsNoContent DEF Late, Seen
<1>5. AfterPublish'
  BY <1>a, <1>b, <1>4, JobFields, NoFileIsNoContent DEF SInv, AfterPublish
<1>6. \A o \in Workers, j \in Ids \ {x} : Owes(o, j) => Owes(o, j)'
  BY <1>b DEF Owes, PendingOn, Pending
<1>7. Owed'  BY <1>4, <1>6, <1>b, NoFileIsNoContent DEF SInv, Owed
<1>8. \A o \in Workers, j \in Ids : OwesDelete(o, j) => OwesDelete(o, j)'
  BY <1>b DEF OwesDelete, PendingOn, Pending
<1>9. \A j \in Ids : Shown(j)' => Shown(j)  BY <1>b DEF Shown
<1>10. OwedDelete'  BY <1>8, <1>9, <1>b, NoFileIsNoContent DEF SInv, OwedDelete
<1> QED BY <1>1, <1>2, <1>3, <1>5, <1>7, <1>10 DEF SInv

\* Every other step ends a call or a rebuild, or begins one.
LEMMA SafeRest ==
  ASSUME SInv, LInv', NEW w \in Workers,
         \/ MarkFails(w) \/ PublishExists(w) \/ VaultFails(w) \/ UpsertFails(w) \/ Stamp(w)
         \/ StampFails(w) \/ DeindexFails(w) \/ (\E allow \in BOOLEAN : StartRebuild(w, allow))
         \/ SelfMark(w) \/ Refuse(w) \/ RebuildFails(w) \/ Finish(w) \/ Crash(w) \/ Exit(w)
  PROVE  SInv'
<1>a. TypeOK  BY DEF SInv, LInv
<1>b. ASSUME NEW s, pc' = [pc EXCEPT ![w] = s]
      PROVE  pc'[w] = s /\ \A o \in Workers \ {w} : pc'[o] = pc[o]
  BY <1>a, <1>b DEF TypeOK
<1>c. ASSUME scan' = [scan EXCEPT ![w] = EmptyScan]
      PROVE  /\ \A o \in Workers \ {w} : scan'[o] = scan[o]
             /\ scan'[w].ops = {} /\ scan'[w].listed = {} /\ scan'[w].after = "idle"
             /\ \A i \in Ids : scan'[w].parsed[i] = NoFile
  BY <1>a, <1>c, EmptyScanFields DEF TypeOK
<1>d. ASSUME NEW m, marker' = [marker EXCEPT ![w] = m]
      PROVE  marker'[w] = m /\ \A o \in Workers \ {w} : marker'[o] = marker[o]
  BY <1>a, <1>d DEF TypeOK
<1>e. ASSUME ~Scanning(w), pc[w] # "retire", scan' = scan
      PROVE  /\ \A o \in Workers \ {w} : scan'[o] = scan[o]
             /\ scan'[w].ops = {} /\ scan'[w].listed = {} /\ scan'[w].after = "idle"
             /\ \A i \in Ids : scan'[w].parsed[i] = NoFile
  BY <1>e, EmptyScanAt
<1>f. ASSUME ~Scanning(w), pc[w] # "retire", EndOrReconcile(w)
      PROVE  \E s \in {"idle", "selfmark"} : pc' = [pc EXCEPT ![w] = s]
  BY <1>f DEF EndOrReconcile, ToRebuild, Goto
<1> USE DEF Goto, indexVars, ledgerVars, Scanning
<1>1. CASE MarkFails(w)
  BY <1>1, <1>b, <1>e, RestStep DEF MarkFails, Rests
<1>2. CASE PublishExists(w)
  BY <1>2, <1>b, <1>d, <1>e, RestStep DEF PublishExists, Rests
<1>3. CASE VaultFails(w)
  BY <1>3, <1>b, <1>d, <1>e, RestStep DEF VaultFails, Rests
<1>4. CASE UpsertFails(w)
  BY <1>4, <1>b, <1>f, ToIdleScan, RestStep DEF UpsertFails, Rests
<1>5. CASE Stamp(w)
  <2>1. /\ \A o \in Workers \ {w} : marker'[o] = marker[o]
        /\ marker'[w] = marker[w] \/ (marker'[w] = "second" /\ marker[w] = "dirty")
    BY <1>5, <1>a DEF Stamp, Stamped, TypeOK
  <2>2. pc[w] = "stamp" /\ EndOrReconcile(w) /\ UNCHANGED <<vault, rows, proj, ready, writer, job, unmarked>>
    BY <1>5 DEF Stamp
  <2>3. PICK s \in {"idle", "selfmark"} : pc' = [pc EXCEPT ![w] = s]  BY <1>f, <2>2
  <2>4. Rests(w, s)  BY <1>b, <2>1, <2>2, <2>3, ToIdleScan DEF Rests
  <2> QED BY <2>4, RestStep
<1>6. CASE StampFails(w)
  BY SMTT(30), <1>6, <1>b, <1>f, ToIdleScan, RestStep DEF StampFails, Rests
<1>7. CASE DeindexFails(w)
  BY <1>7, <1>b, <1>e, RestStep DEF DeindexFails, Rests
<1>8. ASSUME NEW allow \in BOOLEAN, StartRebuild(w, allow) PROVE SInv'
  <2>1. /\ pc[w] = "idle" /\ ToRebuild(w, allow, "idle") /\ pc' = [pc EXCEPT ![w] = "selfmark"]
        /\ UNCHANGED <<vault, rows, proj, ready, writer, marker, job, unmarked>>
    BY <1>8 DEF StartRebuild, ToRebuild
  <2> QED BY <1>b, <2>1, ToIdleScan, RestStep DEF Rests
<1>9. CASE SelfMark(w)
  BY <1>9, <1>b, <1>e, RestStep DEF SelfMark, Rests
<1>10. CASE Refuse(w)
  BY <1>10, <1>b, <1>c, RestStep DEF Refuse, GiveUp, Rests
<1>11. CASE RebuildFails(w)
  BY <1>11, <1>b, <1>c, RestStep DEF RebuildFails, GiveUp, Rests
<1>12. CASE Finish(w)
  <2>1. pc' = [pc EXCEPT ![w] = "idle"]  BY <1>12 DEF Finish, SInv, Started
  <2> QED BY <1>12, <2>1, <1>b, <1>c, RestStep DEF Finish, Rests
<1>13. CASE Crash(w)
  BY <1>13, <1>b, <1>c, RestStep DEF Crash, GiveUp, Rests
<1>14. CASE Exit(w)
  BY <1>14, <1>b, <1>e, RestStep DEF Exit, Rests
<1> QED BY <1>1, <1>2, <1>3, <1>4, <1>5, <1>6, <1>7, <1>8, <1>9, <1>10, <1>11, <1>12, <1>13, <1>14

LEMMA SafeStep ==
  ASSUME ~Overlap, SInv, LInv', [Next]_vars
  PROVE  SInv'
<1>1. ASSUME NEW w \in Workers, Starts(w) PROVE SInv'  BY <1>1, SafeStart
<1>2. ASSUME NEW w \in Workers, Calls(w) PROVE SInv'
  BY <1>2, SafePrepare, SafePublish, SafeRemove, SafeUpsert, SafeDeindex, SafeRest DEF Calls
<1>3. ASSUME NEW w \in Workers, NEW allow \in BOOLEAN, StartRebuild(w, allow) PROVE SInv'
  BY <1>3, SafeRest
<1>4. ASSUME NEW w \in Workers, Rebuilds(w) PROVE SInv'
  BY <1>4, SafeBegin, SafeList, SafeParse, SafeCommit, SafeRetire, SafeRest DEF Rebuilds
<1>5. ASSUME NEW w \in Workers, Crash(w) \/ Exit(w) \/ Spawn(w) PROVE SInv'
  BY <1>5, SafeRest, SafeSpawn
<1>6. ASSUME NEW i \in Ids, Mangle(i) PROVE SInv'  BY <1>6, SafeMangle
<1>7. CASE UNCHANGED vars
  <2> USE <1>7 DEF vars, SInv
  <2>1. Started' /\ Alone' /\ Locked' /\ ScanShape' /\ StepKinds'
    BY DEF Started, Alone, Locked, ScanShape, StepKinds, Scanning, IsDelete
  <2>2. BeforePublish' /\ BeforeRemove' /\ AfterPublish'
    BY DEF BeforePublish, CanPublish, BeforeRemove, Passed, AfterPublish, Late, Seen, IsDelete
  <2>3. Owed'  BY DEF Owed, Late, Seen, Owes, PendingOn, Pending, IsDelete
  <2>4. OwedDelete'  BY DEF OwedDelete, Shown, Scanning, OwesDelete, PendingOn, Pending, IsDelete
  <2> QED BY <2>1, <2>2, <2>3, <2>4
<1> QED BY <1>1, <1>2, <1>3, <1>4, <1>5, <1>6, <1>7 DEF Next

LEMMA SafeInit ==
  ASSUME StartReady, Init
  PROVE  SInv
<1>1. LInv
  BY InitType, EmptySnapshot, LedgerAssumption
  DEF Init, LInv, NotMarkedYet, FinishedStaysFinished, DeadStaysDead
<1>2. /\ ready /\ \A w \in Workers : pc[w] = "idle" /\ scan[w] = EmptyScan
      /\ \A i \in Ids : vault[i] = NoFile /\ rows[i] = NoFile /\ proj[i] = NoFile
  BY DEF Init, Nothing
<1>3. Started /\ Alone /\ Locked /\ ScanShape /\ StepKinds
  BY <1>2, EmptyScanFields
  DEF Started, Alone, Locked, ScanShape, StepKinds, Scanning, CallerSteps
<1>4. BeforePublish /\ BeforeRemove /\ AfterPublish
  BY <1>2 DEF BeforePublish, CanPublish, BeforeRemove, AfterPublish
<1>5. Owed /\ OwedDelete
  BY <1>2, NoFileIsNoContent DEF Owed, OwedDelete, Shown, Scanning
<1> QED BY <1>1, <1>3, <1>4, <1>5 DEF SInv

\* With one operation at a time on a memory and an index that is ready, what a
\* marker stands for is never retired before a rebuild has caught up with it, and
\* what differs from the vault without a marker is only what was changed while
\* the readiness probe failed (MarkDirty, pending.go).
THEOREM MarkersStandFor ==
  ASSUME StartReady, ~Overlap
  PROVE  Spec => []SInv
<1>1. Init => SInv  BY SafeInit
<1>2. SInv /\ LInv' /\ [Next]_vars => SInv'  BY SafeStep
<1> QED BY <1>1, <1>2, LInvHolds, PTL DEF Spec

\* NeverCleanAndMissing for every set of processes, memories and contents: between
\* a mutation's marker, its file, the row, and every rebuild that took its snapshot
\* before or after, no crash and no order of steps leaves a parseable file without
\* a marker and without its row and projections (pending.go, index_rebuild.go); a
\* mutation that could not look whether to mark is the only way to get there, until
\* a rebuild has read the file.
THEOREM NeverCleanAndMissingHolds ==
  ASSUME StartReady, ~Overlap
  PROVE  Spec => []NeverCleanAndMissing
<1>1. SInv => NeverCleanAndMissing
  BY DEF SInv, Owed, Late, Owes, NeverCleanAndMissing
<1> QED BY <1>1, MarkersStandFor, PTL

\* RefreshingIsCurrent likewise: the second form of a write marker promises that
\* search is current, and keeps the promise (MarkFTSCommitted in pending.go) unless
\* the memory was also changed without a marker.
THEOREM RefreshingIsCurrentHolds ==
  ASSUME StartReady, ~Overlap
  PROVE  Spec => []RefreshingIsCurrent
<1>1. SInv => RefreshingIsCurrent
  BY DEF SInv, Owed, Late, Owes, RefreshingIsCurrent
<1> QED BY <1>1, MarkersStandFor, PTL

\* DeletedNotServed likewise: a row or projection that outlives its file is hidden
\* by a delete marker until a rebuild that did not see the file has committed; only
\* a delete that MarkDirty let through unmarked lacks it.
THEOREM DeletedNotServedHolds ==
  ASSUME StartReady, ~Overlap
  PROVE  Spec => []DeletedNotServed
<1>1. SInv => DeletedNotServed
  BY DEF SInv, OwedDelete, Shown, OwesDelete, DeletedNotServed
<1> QED BY <1>1, MarkersStandFor, PTL

=============================================================================
