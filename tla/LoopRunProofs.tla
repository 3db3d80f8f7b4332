--------------------------- MODULE LoopRunProofs ---------------------------
(***************************************************************************)
(* Theorems about LoopRun, for any processes, run ids, periods and faults. *)
(*                                                                         *)
(* That the effect happens at most once per period is not inductive.  It   *)
(* rests on who may write: a begin that holds the lease keeps it until its *)
(* record is saved (Holding), under a run id nobody else has in hand (Own),*)
(* and an effect runs under a lease of its own run, so the two exclude     *)
(* each other; and on what a passed gate means: the period it passed for   *)
(* is the current one and its effect has not happened (Clean).             *)
(***************************************************************************)
EXTENDS LoopRun, TLAPS

Guarded == {"fn", "commit", "drop"}
Claiming == {"publish", "reap", "break", "recheck", "save"}

GuardIsHeld == \A p \in Procs : pc[p] \in Guarded <=> guard = p

\* A begin past its gate has a run id.
Named == \A p \in Procs : pc[p] \in Claiming => me[p].mine \in Runs

\* The run id of a begin is its own until it is saved.
Own == \A p \in Procs : pc[p] \in Claiming =>
          /\ me[p].mine # rec.run
          /\ \A q \in Procs : me[q].run # me[p].mine
          /\ \A q \in Procs \ {p} : me[q].mine # me[p].mine

Holding == \A p \in Procs : pc[p] \in {"recheck", "save"} =>
             /\ lease = [owner |-> me[p].mine, fresh |-> TRUE]
             /\ \A q \in Procs : pc[q] # "drop"

Clocks == /\ rec.period <= period
          /\ \A p \in Procs : me[p].at <= period
          /\ \A p \in Procs : pc[p] \in BeginSteps => me[p].at = period

\* What happened is on record.
Evidence == \A d \in Periods : effects[d] # 0 =>
              /\ d <= period
              /\ \/ rec = Damaged
                 \/ rec.period >= d /\ (rec.period = d => rec.started)

Clean == \A p \in Procs : pc[p] = "save" => effects[me[p].at] = 0

\* A save overwrites nothing that an effect of its period left.
Blank == \A p \in Procs : pc[p] = "save" =>
           (rec.period = me[p].at => ~rec.started /\ ~rec.committed)

InEffect == \A p \in Procs : pc[p] \in {"fn", "commit"} =>
              /\ me[p].run \in Runs
              /\ lease.owner = me[p].run
              /\ \/ rec = Damaged
                 \/ /\ rec.run = me[p].run /\ rec.status = "running"
                    /\ rec.period = me[p].at /\ rec.started
              /\ pc[p] = "fn" => effects[me[p].at] = 0

IInv == TypeOK /\ Named /\ GuardIsHeld /\ Own /\ Holding /\ Clocks /\ Evidence /\ Clean
        /\ Blank /\ InEffect /\ AtMostOncePerPeriod

-----------------------------------------------------------------------------
(* Types. *)

LEMMA NewRunIsNew == Unmentioned # {} => NewRun \in Unmentioned
  BY DEF NewRun

LEMMA NoFiles ==
    /\ NoLease = [owner |-> NoRun, fresh |-> FALSE]
    /\ NoLease.owner = NoRun /\ NoLease.fresh = FALSE
    /\ NoRecord.run = NoRun /\ NoRecord.period = 0
    /\ Damaged.run = NoRun /\ Damaged.period = 0
    /\ Damaged.started = FALSE /\ Damaged.committed = FALSE
    /\ Damaged.status = "damaged" /\ NoRecord.status = "absent"
    /\ NoRecord.started = FALSE /\ NoRecord.committed = FALSE
  BY DEF NoLease, NoRecord, Damaged

LEMMA FoundRecord == ASSUME TypeOK, Found PROVE rec \in Record
  BY DEF TypeOK, Found

LEMMA RecordUpdates ==
    ASSUME rec \in Record, NEW s \in {"running", "succeeded", "failed"}
    PROVE  /\ [rec EXCEPT !.started = TRUE] \in Record
           /\ [rec EXCEPT !.started = TRUE].run = rec.run
           /\ [rec EXCEPT !.started = TRUE].period = rec.period
           /\ [rec EXCEPT !.started = TRUE].status = rec.status
           /\ [rec EXCEPT !.started = TRUE].started = TRUE
           /\ [rec EXCEPT !.committed = TRUE] \in Record
           /\ [rec EXCEPT !.committed = TRUE].run = rec.run
           /\ [rec EXCEPT !.committed = TRUE].period = rec.period
           /\ [rec EXCEPT !.committed = TRUE].status = rec.status
           /\ [rec EXCEPT !.committed = TRUE].started = rec.started
           /\ [rec EXCEPT !.status = s] \in Record
           /\ [rec EXCEPT !.status = s].run = rec.run
           /\ [rec EXCEPT !.status = s].period = rec.period
           /\ [rec EXCEPT !.started = TRUE].committed = rec.committed
           /\ [rec EXCEPT !.committed = TRUE].committed = TRUE
           /\ [rec EXCEPT !.status = s].started = rec.started
           /\ [rec EXCEPT !.status = s].committed = rec.committed
  BY DEF Record

\* A run that owns the lease has an id, and its record and lease are there.
LEMMA OwnsBoth ==
    ASSUME TypeOK, NEW p \in Procs, Owns(p)
    PROVE  /\ rec \in Record /\ rec.run = me[p].run /\ rec.status = "running"
           /\ me[p].run \in Runs
           /\ lease \in Lease /\ lease.owner = me[p].run
           /\ Refreshed \in Lease
<1>1. rec \in Record /\ rec.run = me[p].run /\ rec.status = "running" /\ lease.owner = me[p].run
  BY FoundRecord DEF Owns
<1>2. me[p].run \in Runs  BY <1>1 DEF Record
<1>3. lease \in Lease
  BY <1>1, <1>2, NoFiles, LoopAssumption DEF TypeOK
<1>4. Refreshed \in Lease  BY <1>2, <1>1 DEF Lease, Refreshed
<1> QED BY <1>1, <1>2, <1>3, <1>4

StepsOK == /\ pc' \in [Procs -> {"idle", "dead"} \cup BeginSteps \cup RunSteps]
           /\ me' \in [Procs -> Locals]

LEMMA StepType ==
    ASSUME TypeOK, NEW p \in Procs, NEW l \in Locals,
           NEW s \in {"idle", "dead"} \cup BeginSteps \cup RunSteps,
           Step(p, s, l)
    PROVE  StepsOK
  BY DEF TypeOK, Step, StepsOK

LEMMA GotoType ==
    ASSUME TypeOK, NEW p \in Procs,
           NEW s \in {"idle", "dead"} \cup BeginSteps \cup RunSteps, Goto(p, s)
    PROVE  StepsOK
<1>1. me[p] \in Locals  BY DEF TypeOK
<1> QED BY <1>1, StepType DEF Goto

LEMMA ForgottenType == Forgotten \in Locals
  BY LoopAssumption DEF Forgotten, Locals, Periods, RunIds

LEMMA EndType == ASSUME TypeOK, NEW p \in Procs, End(p) PROVE StepsOK
  BY ForgottenType, StepType DEF End

LEMMA LocalUpdates ==
    ASSUME TypeOK, NEW p \in Procs, NEW r \in RunIds
    PROVE  /\ [me[p] EXCEPT !.at = period] \in Locals
           /\ [me[p] EXCEPT !.mine = r] \in Locals
           /\ [me[p] EXCEPT !.run = r] \in Locals
           /\ [me[p] EXCEPT !.seen = r] \in Locals
  BY DEF TypeOK, Locals

LEMMA RetryType ==
    ASSUME TypeOK, NEW p \in Procs, RetryOrGiveUp(p) PROVE StepsOK
  BY GotoType, EndType DEF RetryOrGiveUp, BeginSteps

LEMMA BeginType ==
    ASSUME TypeOK, Named, NEW p \in Procs, Begin(p) PROVE TypeOK'
<1> USE DEF files, BeginSteps, RunSteps
<1>0. me[p] \in Locals /\ lease.owner \in RunIds
  BY NoFiles DEF TypeOK, Lease, RunIds
<1>1. CASE Start(p)  BY <1>1, StepType, LocalUpdates DEF Start, TypeOK, StepsOK, RunIds
<1>2. CASE Gate(p)
  <2>1. NewRun \in RunIds \/ Unmentioned = {}  BY NewRunIsNew DEF Unmentioned, RunIds
  <2> QED BY <1>2, <2>1, StepType, EndType, LocalUpdates DEF Gate, TypeOK, StepsOK
<1>3. CASE Publish(p)
  <2>1. [owner |-> me[p].mine, fresh |-> TRUE] \in Lease
    BY <1>3 DEF Publish, Named, Claiming, Lease
  <2> QED BY <1>3, <2>1, GotoType DEF Publish, TypeOK, StepsOK
<1>4. CASE Reap(p)
  BY <1>4, <1>0, StepType, RetryType, LocalUpdates DEF Reap, TypeOK, StepsOK
<1>5. CASE Break(p)  BY <1>5, RetryType DEF Break, TypeOK, StepsOK
<1>6. CASE Recheck(p)  BY <1>6, GotoType DEF Recheck, TypeOK, StepsOK
<1>7. CASE Save(p)
  <2>1. me[p].mine \in Runs /\ me[p].at \in Periods
    BY <1>7 DEF Save, Named, Claiming, TypeOK, Locals
  <2>2. rec' \in Record  BY <1>7, <2>1 DEF Save, Record
  <2> QED BY <1>7, <2>2, GotoType DEF Save, TypeOK, StepsOK
<1>8. CASE SaveFails(p)  BY <1>8, GotoType, LoopAssumption DEF SaveFails, TypeOK, StepsOK, Fault
<1>9. CASE Release(p)  BY <1>9, EndType, LoopAssumption DEF Release, TypeOK, StepsOK, Fault
<1> QED BY <1>1, <1>2, <1>3, <1>4, <1>5, <1>6, <1>7, <1>8, <1>9 DEF Begin

LEMMA PulseType ==
    ASSUME TypeOK, NEW p \in Procs, Pulse(p) PROVE TypeOK'
<1> USE DEF files, BeginSteps, RunSteps
<1>1. CASE Open(p)
  <2>1. rec.run \in RunIds /\ me[p].mine \in RunIds
    BY NoFiles DEF TypeOK, Record, RunIds, Locals
  <2> QED BY <1>1, <2>1, StepType, EndType, LocalUpdates DEF Open, TypeOK, StepsOK
<1>2. CASE Fence(p)
  <2>1. lease' \in Lease \cup {NoLease}  BY <1>2, OwnsBoth DEF Fence, TypeOK
  <2>2. NoRun \in RunIds  BY DEF RunIds
  <2> QED BY <1>2, <2>1, <2>2, StepType, LocalUpdates DEF Fence, TypeOK, StepsOK
<1>3. CASE Beat(p)  BY <1>3, OwnsBoth DEF Beat, TypeOK
<1>4. CASE Enter(p)
  <2>1. lease' \in Lease \cup {NoLease}  BY <1>4, OwnsBoth DEF Enter, TypeOK, MayStart
  <2>2. rec' \in Record \cup {NoRecord, Damaged}
    BY <1>4, OwnsBoth, RecordUpdates DEF Enter, TypeOK, MayStart
  <2> QED BY <1>4, <2>1, <2>2, GotoType DEF Enter, TypeOK, StepsOK
<1>5. CASE EnterFails(p)
  <2>0. lease' \in Lease \cup {NoLease}  BY <1>5, OwnsBoth DEF EnterFails, TypeOK, MayStart
  <2>1. rec' \in Record \cup {NoRecord, Damaged}
    BY <1>5, OwnsBoth, RecordUpdates DEF EnterFails, TypeOK, MayStart
  <2> QED BY <1>5, <2>0, <2>1, GotoType, LoopAssumption DEF EnterFails, TypeOK, StepsOK, Fault
<1>6. Performed(p) \in [Periods -> 0 .. 2]
  <2>1. \A d \in Periods : (IF effects[d] < 2 THEN effects[d] + 1 ELSE effects[d]) \in 0 .. 2
    BY DEF TypeOK
  <2>2. effects \in [Periods -> 0 .. 2] /\ me[p].at \in Periods  BY DEF TypeOK, Locals
  <2> QED BY <2>1, <2>2 DEF Performed
<1>7. CASE RunEffect(p)  BY <1>6, <1>7, GotoType DEF RunEffect, TypeOK, StepsOK
<1>8. CASE EffectFails(p)
  BY <1>6, <1>8, GotoType, LoopAssumption DEF EffectFails, TypeOK, StepsOK, Fault
<1>9. CASE Commit(p)
  <2>1. lease' \in Lease \cup {NoLease}  BY <1>9, OwnsBoth DEF Commit, TypeOK
  <2>2. rec' \in Record \cup {NoRecord, Damaged}
    BY <1>9, OwnsBoth, RecordUpdates DEF Commit, TypeOK
  <2> QED BY <1>9, <2>1, <2>2, GotoType DEF Commit, TypeOK, StepsOK
<1>10. CASE CommitFails(p)
  <2>1. rec' \in Record \cup {NoRecord, Damaged}
    BY <1>10, OwnsBoth, RecordUpdates DEF CommitFails, TypeOK
  <2> QED BY <1>10, <2>1, GotoType, LoopAssumption DEF CommitFails, TypeOK, StepsOK, Fault
<1>11. CASE Again(p)  BY <1>11, GotoType DEF Again, TypeOK, StepsOK
<1>12. CASE PulseFails(p)
  BY <1>12, GotoType, LoopAssumption DEF PulseFails, TypeOK, StepsOK, Fault
<1> QED
  BY <1>1, <1>2, <1>3, <1>4, <1>5, <1>7, <1>8, <1>9, <1>10, <1>11, <1>12 DEF Pulse

LEMMA DoneType ==
    ASSUME TypeOK, NEW p \in Procs, Done(p) PROVE TypeOK'
<1> USE DEF files, BeginSteps, RunSteps
<1>1. CASE StartClose(p)  BY <1>1, GotoType DEF StartClose, TypeOK, StepsOK
<1>2. CASE Close(p)
  <2>1. rec' \in Record \cup {NoRecord, Damaged}
    BY <1>2, FoundRecord, RecordUpdates DEF Close, Closable, TypeOK
  <2>2. journal' \subseteq {"succeeded", "failed"} /\ faults' \in 0 .. MaxFaults
    BY <1>2, LoopAssumption DEF Close, TypeOK, Fault
  <2> QED BY <1>2, <2>1, <2>2, GotoType, EndType DEF Close, TypeOK, StepsOK
<1>3. CASE CloseFails(p)
  BY <1>3, EndType, LoopAssumption DEF CloseFails, TypeOK, StepsOK, Fault
<1>4. CASE Drop(p)  BY <1>4, EndType, LoopAssumption DEF Drop, TypeOK, StepsOK, Fault
<1> QED BY <1>1, <1>2, <1>3, <1>4 DEF Done

LEMMA EnvironmentType ==
    ASSUME TypeOK,
           \/ \E p \in Procs : Crash(p) \/ Spawn(p)
           \/ Expire \/ NextPeriod \/ Damage
    PROVE  TypeOK'
<1> USE DEF files, BeginSteps, RunSteps
<1>1. ASSUME NEW p \in Procs, Crash(p) PROVE TypeOK'
  BY <1>1, ForgottenType, StepType, LoopAssumption DEF Crash, TypeOK, StepsOK, Fault
<1>2. ASSUME NEW p \in Procs, Spawn(p) PROVE TypeOK'
  <2>1. StepsOK  BY <1>2, EndType DEF Spawn
  <2> QED BY <1>2, <2>1 DEF Spawn, TypeOK, StepsOK
<1>3. CASE Expire
  <2>1. lease' \in Lease  BY <1>3 DEF Expire, TypeOK, Lease
  <2> QED BY <1>3, <2>1 DEF Expire, TypeOK
<1>4. CASE NextPeriod  BY <1>4, LoopAssumption DEF NextPeriod, TypeOK, Periods
<1>5. CASE Damage  BY <1>5, LoopAssumption DEF Damage, TypeOK, Fault
<1> QED BY <1>1, <1>2, <1>3, <1>4, <1>5

-----------------------------------------------------------------------------
(* What a step changes of the processes. *)

LEMMA StepFrame ==
    ASSUME TypeOK, NEW p \in Procs, NEW s, NEW l, Step(p, s, l)
    PROVE  /\ pc'[p] = s /\ me'[p] = l
           /\ \A q \in Procs \ {p} : pc'[q] = pc[q] /\ me'[q] = me[q]
  BY DEF TypeOK, Step

LEMMA GotoFrame ==
    ASSUME TypeOK, NEW p \in Procs, NEW s, Goto(p, s)
    PROVE  /\ pc'[p] = s
           /\ \A q \in Procs : me'[q] = me[q]
           /\ \A q \in Procs \ {p} : pc'[q] = pc[q]
  BY StepFrame DEF Goto

LEMMA EndFrame ==
    ASSUME TypeOK, NEW p \in Procs, End(p)
    PROVE  /\ pc'[p] = "idle" /\ me'[p] = Forgotten
           /\ \A q \in Procs \ {p} : pc'[q] = pc[q] /\ me'[q] = me[q]
  BY StepFrame DEF End

LEMMA RetryFrame ==
    ASSUME TypeOK, NEW p \in Procs, RetryOrGiveUp(p)
    PROVE  /\ \/ pc'[p] = "publish" /\ me'[p] = me[p]
              \/ pc'[p] = "idle" /\ me'[p] = Forgotten
           /\ \A q \in Procs \ {p} : pc'[q] = pc[q] /\ me'[q] = me[q]
  BY GotoFrame, EndFrame DEF RetryOrGiveUp

LEMMA LocalFields ==
    ASSUME TypeOK, NEW p \in Procs, NEW x
    PROVE  /\ [me[p] EXCEPT !.at = x].at = x
           /\ [me[p] EXCEPT !.at = x].mine = me[p].mine
           /\ [me[p] EXCEPT !.at = x].run = me[p].run
           /\ [me[p] EXCEPT !.mine = x].mine = x
           /\ [me[p] EXCEPT !.mine = x].at = me[p].at
           /\ [me[p] EXCEPT !.mine = x].run = me[p].run
           /\ [me[p] EXCEPT !.run = x].run = x
           /\ [me[p] EXCEPT !.run = x].at = me[p].at
           /\ [me[p] EXCEPT !.run = x].mine = me[p].mine
           /\ [me[p] EXCEPT !.seen = x].mine = me[p].mine
           /\ [me[p] EXCEPT !.seen = x].at = me[p].at
           /\ [me[p] EXCEPT !.seen = x].run = me[p].run
  BY DEF TypeOK, Locals

LEMMA ForgottenFields ==
    Forgotten.at = 1 /\ Forgotten.mine = NoRun /\ Forgotten.run = NoRun
  BY DEF Forgotten


(* The steps that change what a process has in hand. *)

Others(p) == \A q \in Procs \ {p} : pc'[q] = pc[q] /\ me'[q] = me[q]

Quit(p) == pc'[p] = "idle" /\ me'[p] = Forgotten

LEMMA StartMoves ==
    ASSUME TypeOK, NEW p \in Procs, Start(p)
    PROVE  /\ pc'[p] = "gate" /\ me'[p].at = period
           /\ me'[p].mine = me[p].mine /\ me'[p].run = me[p].run
           /\ Others(p)
<1> DEFINE l == [me[p] EXCEPT !.at = period]
<1>1. Step(p, "gate", l)  BY DEF Start
<1>2. l.at = period /\ l.mine = me[p].mine /\ l.run = me[p].run  BY LocalFields
<1> HIDE DEF l
<1> QED BY <1>1, <1>2, StepFrame DEF Others

LEMMA GateMoves ==
    ASSUME TypeOK, NEW p \in Procs, Gate(p)
    PROVE  /\ \/ Quit(p)
              \/ /\ pc'[p] = "publish" /\ me'[p].mine \in Unmentioned
                 /\ me'[p].at = me[p].at /\ me'[p].run = me[p].run
           /\ Others(p)
<1> DEFINE l == [me[p] EXCEPT !.mine = NewRun]
<1>1. \/ End(p) 
      \/ Unmentioned # {} /\ Step(p, "publish", l)
  BY DEF Gate
<1>2. l.at = me[p].at /\ l.mine = NewRun /\ l.run = me[p].run  BY LocalFields
<1> HIDE DEF l
<1> QED BY <1>1, <1>2, StepFrame, EndFrame, NewRunIsNew DEF Others, Quit

LEMMA ReapMoves ==
    ASSUME TypeOK, NEW p \in Procs, Reap(p)
    PROVE  /\ \/ Quit(p)
              \/ /\ pc'[p] \in {"publish", "break"}
                 /\ me'[p].mine = me[p].mine /\ me'[p].at = me[p].at
                 /\ me'[p].run = me[p].run
           /\ Others(p)
<1> DEFINE l == [me[p] EXCEPT !.seen = lease.owner]
<1>1. RetryOrGiveUp(p) \/ Step(p, "break", l)  BY DEF Reap
<1>2. l.at = me[p].at /\ l.mine = me[p].mine /\ l.run = me[p].run  BY LocalFields
<1> HIDE DEF l
<1>3. CASE RetryOrGiveUp(p)  BY <1>3, RetryFrame DEF Others, Quit
<1>4. CASE Step(p, "break", l)  BY <1>4, <1>2, StepFrame DEF Others
<1> QED BY <1>1, <1>3, <1>4

LEMMA OpenMoves ==
    ASSUME TypeOK, NEW p \in Procs, Open(p)
    PROVE  /\ \/ Quit(p)
              \/ /\ pc'[p] = "fence" /\ me'[p].mine = me[p].mine /\ me'[p].at = me[p].at
                 /\ me'[p].run \in {me[p].mine, rec.run}
           /\ Others(p)
<1> DEFINE l(r) == [me[p] EXCEPT !.run = r]
<1>1. Step(p, "fence", l(me[p].mine)) \/ Step(p, "fence", l(rec.run)) \/ End(p)  BY DEF Open
<1>2. \A r : l(r).at = me[p].at /\ l(r).mine = me[p].mine /\ l(r).run = r  BY LocalFields
<1> HIDE DEF l
<1> QED BY <1>1, <1>2, StepFrame, EndFrame DEF Others, Quit

LEMMA FenceMoves ==
    ASSUME TypeOK, NEW p \in Procs, Fence(p)
    PROVE  /\ pc'[p] = (IF Owns(p) THEN "effect" ELSE "fail")
           /\ me'[p].at = period /\ me'[p].mine = me[p].mine /\ me'[p].run = me[p].run
           /\ Others(p)
<1> DEFINE l == [me[p] EXCEPT !.at = period]
           s == IF Owns(p) THEN "effect" ELSE "fail"
<1>1. Step(p, s, l)  BY DEF Fence
<1>2. l.at = period /\ l.mine = me[p].mine /\ l.run = me[p].run  BY LocalFields
<1> HIDE DEF l
<1> QED BY <1>1, <1>2, StepFrame DEF Others

LEMMA RefreshKeeps ==
    ASSUME Holding, NEW q \in Procs, pc[q] \in {"recheck", "save"}
    PROVE  Refreshed = lease
  BY DEF Holding, Refreshed

-----------------------------------------------------------------------------
(* The conjuncts of the invariant, one by one. *)

LEMMA PeriodNow ==
    TypeOK => /\ period \in Nat /\ 1 <= period /\ period <= MaxPeriods
              /\ rec.period \in Nat
              /\ \A p \in Procs : me[p].at \in Nat /\ 1 <= me[p].at
<1> USE LoopAssumption, NoFiles DEF TypeOK, Periods, Record, Locals
<1>1. TypeOK => rec.period \in Nat  OBVIOUS
<1>2. TypeOK => \A p \in Procs : me[p].at \in Nat /\ 1 <= me[p].at  OBVIOUS
<1> QED BY <1>1, <1>2

LEMMA PerformedAt ==
    ASSUME TypeOK, NEW p \in Procs
    PROVE  /\ \A d \in Periods \ {me[p].at} : Performed(p)[d] = effects[d]
           /\ effects[me[p].at] = 0 => Performed(p)[me[p].at] = 1
<1>1. effects \in [Periods -> 0 .. 2] /\ me[p].at \in Periods  BY DEF TypeOK, Locals
<1> QED BY <1>1 DEF Performed

\* Only Enter and Close take the guard, from nobody; who leaves its section frees it.
LEMMA GuardStep ==
    ASSUME TypeOK, GuardIsHeld, [Next]_vars
    PROVE  GuardIsHeld'
<1> USE LoopAssumption DEF GuardIsHeld, Guarded, files, BeginSteps
<1>1. ASSUME NEW p \in Procs, Start(p) PROVE GuardIsHeld'
  BY <1>1, StartMoves DEF Start, Others, Quit
<1>2. ASSUME NEW p \in Procs, Gate(p) PROVE GuardIsHeld'
  BY <1>2, GateMoves DEF Gate, Others, Quit
<1>3. ASSUME NEW p \in Procs, Publish(p) PROVE GuardIsHeld'  BY <1>3, GotoFrame DEF Publish
<1>4. ASSUME NEW p \in Procs, Reap(p) PROVE GuardIsHeld'
  BY <1>4, ReapMoves DEF Reap, Others, Quit
<1>5. ASSUME NEW p \in Procs, Break(p) PROVE GuardIsHeld'  BY <1>5, RetryFrame DEF Break
<1>6. ASSUME NEW p \in Procs, Recheck(p) PROVE GuardIsHeld'  BY <1>6, GotoFrame DEF Recheck
<1>7. ASSUME NEW p \in Procs, Save(p) PROVE GuardIsHeld'  BY <1>7, GotoFrame DEF Save
<1>8. ASSUME NEW p \in Procs, SaveFails(p) PROVE GuardIsHeld'  BY <1>8, GotoFrame DEF SaveFails
<1>9. ASSUME NEW p \in Procs, Release(p) PROVE GuardIsHeld'  BY <1>9, EndFrame DEF Release
<1>10. ASSUME NEW p \in Procs, Open(p) PROVE GuardIsHeld'
  BY <1>10, OpenMoves DEF Open, Others, Quit
<1>11. ASSUME NEW p \in Procs, Fence(p) PROVE GuardIsHeld'
  BY <1>11, FenceMoves DEF Fence, Others, Quit
<1>12. ASSUME NEW p \in Procs, Beat(p) PROVE GuardIsHeld'  BY <1>12 DEF Beat
<1>13. ASSUME NEW p \in Procs, Enter(p) PROVE GuardIsHeld'  BY <1>13, GotoFrame DEF Enter
<1>14. ASSUME NEW p \in Procs, EnterFails(p) PROVE GuardIsHeld'
  BY <1>14, GotoFrame DEF EnterFails
<1>15. ASSUME NEW p \in Procs, RunEffect(p) PROVE GuardIsHeld'
  BY <1>15, GotoFrame DEF RunEffect
<1>16. ASSUME NEW p \in Procs, EffectFails(p) PROVE GuardIsHeld'
  BY <1>16, GotoFrame DEF EffectFails
<1>17. ASSUME NEW p \in Procs, Commit(p) PROVE GuardIsHeld'  BY <1>17, GotoFrame DEF Commit
<1>18. ASSUME NEW p \in Procs, CommitFails(p) PROVE GuardIsHeld'
  BY <1>18, GotoFrame DEF CommitFails
<1>19. ASSUME NEW p \in Procs, PulseFails(p) PROVE GuardIsHeld'
  BY <1>19, GotoFrame DEF PulseFails
<1>20. ASSUME NEW p \in Procs, Again(p) PROVE GuardIsHeld'  BY <1>20, GotoFrame DEF Again
<1>21. ASSUME NEW p \in Procs, StartClose(p) PROVE GuardIsHeld'
  BY <1>21, GotoFrame DEF StartClose
<1>22. ASSUME NEW p \in Procs, Close(p) PROVE GuardIsHeld'
  BY <1>22, GotoFrame, EndFrame DEF Close
<1>23. ASSUME NEW p \in Procs, CloseFails(p) PROVE GuardIsHeld'
  BY <1>23, EndFrame DEF CloseFails
<1>24. ASSUME NEW p \in Procs, Drop(p) PROVE GuardIsHeld'  BY <1>24, EndFrame DEF Drop
<1>25. ASSUME NEW p \in Procs, Crash(p) PROVE GuardIsHeld'  BY <1>25, StepFrame DEF Crash
<1>26. ASSUME NEW p \in Procs, Spawn(p) PROVE GuardIsHeld'  BY <1>26, EndFrame DEF Spawn
<1>27. CASE Expire  BY <1>27 DEF Expire
<1>28. CASE NextPeriod  BY <1>28 DEF NextPeriod
<1>29. CASE Damage  BY <1>29 DEF Damage
<1>30. CASE UNCHANGED vars  BY <1>30 DEF vars
<1> QED
  BY <1>1, <1>2, <1>3, <1>4, <1>5, <1>6, <1>7, <1>8, <1>9, <1>10, <1>11, <1>12, <1>13, <1>14,
     <1>15, <1>16, <1>17, <1>18, <1>19, <1>20, <1>21, <1>22, <1>23, <1>24, <1>25, <1>26, <1>27,
     <1>28, <1>29, <1>30
  DEF Next, Begin, Pulse, Done

\* NewRunID is minted at the gate and kept until the save.
LEMMA NamedStep ==
    ASSUME TypeOK, Named, [Next]_vars
    PROVE  Named'
<1> USE DEF Named, Claiming, files, BeginSteps
<1>1. ASSUME NEW p \in Procs, Start(p) PROVE Named'  BY <1>1, StartMoves DEF Start, Others, Quit
<1>2. ASSUME NEW p \in Procs, Gate(p) PROVE Named'
  BY <1>2, GateMoves DEF Gate, Others, Quit, Unmentioned
<1>3. ASSUME NEW p \in Procs, Publish(p) PROVE Named'  BY <1>3, GotoFrame DEF Publish
<1>4. ASSUME NEW p \in Procs, Reap(p) PROVE Named'  BY <1>4, ReapMoves DEF Reap, Others, Quit
<1>5. ASSUME NEW p \in Procs, Break(p) PROVE Named'  BY <1>5, RetryFrame DEF Break
<1>6. ASSUME NEW p \in Procs, Recheck(p) PROVE Named'  BY <1>6, GotoFrame DEF Recheck
<1>7. ASSUME NEW p \in Procs, Save(p) PROVE Named'  BY <1>7, GotoFrame DEF Save
<1>8. ASSUME NEW p \in Procs, SaveFails(p) PROVE Named'  BY <1>8, GotoFrame DEF SaveFails
<1>9. ASSUME NEW p \in Procs, Release(p) PROVE Named'  BY <1>9, EndFrame DEF Release
<1>10. ASSUME NEW p \in Procs, Open(p) PROVE Named'  BY <1>10, OpenMoves DEF Open, Others, Quit
<1>11. ASSUME NEW p \in Procs, Fence(p) PROVE Named'
  BY <1>11, FenceMoves DEF Fence, Others, Quit
<1>12. ASSUME NEW p \in Procs, Beat(p) PROVE Named'  BY <1>12 DEF Beat
<1>13. ASSUME NEW p \in Procs, Enter(p) PROVE Named'  BY <1>13, GotoFrame DEF Enter
<1>14. ASSUME NEW p \in Procs, EnterFails(p) PROVE Named'  BY <1>14, GotoFrame DEF EnterFails
<1>15. ASSUME NEW p \in Procs, RunEffect(p) PROVE Named'  BY <1>15, GotoFrame DEF RunEffect
<1>16. ASSUME NEW p \in Procs, EffectFails(p) PROVE Named'  BY <1>16, GotoFrame DEF EffectFails
<1>17. ASSUME NEW p \in Procs, Commit(p) PROVE Named'  BY <1>17, GotoFrame DEF Commit
<1>18. ASSUME NEW p \in Procs, CommitFails(p) PROVE Named'  BY <1>18, GotoFrame DEF CommitFails
<1>19. ASSUME NEW p \in Procs, PulseFails(p) PROVE Named'  BY <1>19, GotoFrame DEF PulseFails
<1>20. ASSUME NEW p \in Procs, Again(p) PROVE Named'  BY <1>20, GotoFrame DEF Again
<1>21. ASSUME NEW p \in Procs, StartClose(p) PROVE Named'  BY <1>21, GotoFrame DEF StartClose
<1>22. ASSUME NEW p \in Procs, Close(p) PROVE Named'  BY <1>22, GotoFrame, EndFrame DEF Close
<1>23. ASSUME NEW p \in Procs, CloseFails(p) PROVE Named'  BY <1>23, EndFrame DEF CloseFails
<1>24. ASSUME NEW p \in Procs, Drop(p) PROVE Named'  BY <1>24, EndFrame DEF Drop
<1>25. ASSUME NEW p \in Procs, Crash(p) PROVE Named'  BY <1>25, StepFrame DEF Crash
<1>26. ASSUME NEW p \in Procs, Spawn(p) PROVE Named'  BY <1>26, EndFrame DEF Spawn
<1>27. CASE Expire  BY <1>27 DEF Expire
<1>28. CASE NextPeriod  BY <1>28 DEF NextPeriod
<1>29. CASE Damage  BY <1>29 DEF Damage
<1>30. CASE UNCHANGED vars  BY <1>30 DEF vars
<1> QED
  BY <1>1, <1>2, <1>3, <1>4, <1>5, <1>6, <1>7, <1>8, <1>9, <1>10, <1>11, <1>12, <1>13, <1>14,
     <1>15, <1>16, <1>17, <1>18, <1>19, <1>20, <1>21, <1>22, <1>23, <1>24, <1>25, <1>26, <1>27,
     <1>28, <1>29, <1>30
  DEF Next, Begin, Pulse, Done

\* Nobody else can learn a run id before the record or its holder says it.
LEMMA OwnStep ==
    ASSUME TypeOK, Named, Own, [Next]_vars
    PROVE  Own'
<1> USE LoopAssumption, ForgottenFields DEF Own, Named, Claiming, files
<1>1. ASSUME NEW p \in Procs, Start(p) PROVE Own'  BY <1>1, StartMoves DEF Start, Others, Quit
<1>2. ASSUME NEW p \in Procs, Gate(p) PROVE Own'
  BY <1>2, GateMoves DEF Gate, Others, Quit, Unmentioned
<1>3. ASSUME NEW p \in Procs, Publish(p) PROVE Own'  BY <1>3, GotoFrame DEF Publish
<1>4. ASSUME NEW p \in Procs, Reap(p) PROVE Own'  BY <1>4, ReapMoves DEF Reap, Others, Quit
<1>5. ASSUME NEW p \in Procs, Break(p) PROVE Own'  BY <1>5, RetryFrame DEF Break
<1>6. ASSUME NEW p \in Procs, Recheck(p) PROVE Own'  BY <1>6, GotoFrame DEF Recheck
<1>7. ASSUME NEW p \in Procs, Save(p) PROVE Own'  BY <1>7, GotoFrame DEF Save
<1>8. ASSUME NEW p \in Procs, SaveFails(p) PROVE Own'  BY <1>8, GotoFrame DEF SaveFails
<1>9. ASSUME NEW p \in Procs, Release(p) PROVE Own'  BY <1>9, EndFrame DEF Release
<1>10. ASSUME NEW p \in Procs, Open(p) PROVE Own'  BY <1>10, OpenMoves DEF Open, Others, Quit
<1>11. ASSUME NEW p \in Procs, Fence(p) PROVE Own'  BY <1>11, FenceMoves DEF Fence, Others, Quit
<1>12. ASSUME NEW p \in Procs, Beat(p) PROVE Own'  BY <1>12 DEF Beat
<1>13. ASSUME NEW p \in Procs, Enter(p) PROVE Own'
  <2>1. rec'.run = rec.run  BY <1>13, OwnsBoth, RecordUpdates DEF Enter, MayStart
  <2> QED BY <1>13, <2>1, GotoFrame DEF Enter
<1>14. ASSUME NEW p \in Procs, EnterFails(p) PROVE Own'
  <2>1. rec'.run = rec.run  BY <1>14, OwnsBoth, RecordUpdates DEF EnterFails, MayStart
  <2> QED BY <1>14, <2>1, GotoFrame DEF EnterFails
<1>15. ASSUME NEW p \in Procs, RunEffect(p) PROVE Own'  BY <1>15, GotoFrame DEF RunEffect
<1>16. ASSUME NEW p \in Procs, EffectFails(p) PROVE Own'  BY <1>16, GotoFrame DEF EffectFails
<1>17. ASSUME NEW p \in Procs, Commit(p) PROVE Own'
  <2>1. rec'.run = rec.run  BY <1>17, OwnsBoth, RecordUpdates DEF Commit
  <2> QED BY <1>17, <2>1, GotoFrame DEF Commit
<1>18. ASSUME NEW p \in Procs, CommitFails(p) PROVE Own'
  <2>1. rec'.run = rec.run  BY <1>18, OwnsBoth, RecordUpdates DEF CommitFails
  <2> QED BY <1>18, <2>1, GotoFrame DEF CommitFails
<1>19. ASSUME NEW p \in Procs, PulseFails(p) PROVE Own'  BY <1>19, GotoFrame DEF PulseFails
<1>20. ASSUME NEW p \in Procs, Again(p) PROVE Own'  BY <1>20, GotoFrame DEF Again
<1>21. ASSUME NEW p \in Procs, StartClose(p) PROVE Own'  BY <1>21, GotoFrame DEF StartClose
<1>22. ASSUME NEW p \in Procs, Close(p) PROVE Own'
  <2>1. rec'.run = rec.run  BY <1>22, FoundRecord, RecordUpdates DEF Close, Closable
  <2> QED BY <1>22, <2>1, GotoFrame, EndFrame DEF Close
<1>23. ASSUME NEW p \in Procs, CloseFails(p) PROVE Own'  BY <1>23, EndFrame DEF CloseFails
<1>24. ASSUME NEW p \in Procs, Drop(p) PROVE Own'  BY <1>24, EndFrame DEF Drop
<1>25. ASSUME NEW p \in Procs, Crash(p) PROVE Own'  BY <1>25, StepFrame DEF Crash
<1>26. ASSUME NEW p \in Procs, Spawn(p) PROVE Own'  BY <1>26, EndFrame DEF Spawn
<1>27. CASE Expire  BY <1>27 DEF Expire
<1>28. CASE NextPeriod  BY <1>28 DEF NextPeriod
<1>29. CASE Damage  BY <1>29, NoFiles DEF Damage
<1>30. CASE UNCHANGED vars  BY <1>30 DEF vars
<1> QED
  BY <1>1, <1>2, <1>3, <1>4, <1>5, <1>6, <1>7, <1>8, <1>9, <1>10, <1>11, <1>12, <1>13, <1>14,
     <1>15, <1>16, <1>17, <1>18, <1>19, <1>20, <1>21, <1>22, <1>23, <1>24, <1>25, <1>26, <1>27,
     <1>28, <1>29, <1>30
  DEF Next, Begin, Pulse, Done

\* A fresh lease is not broken, expires only after the save, and is dropped only by
\* a close of its own run, which has saved.
LEMMA HoldingStep ==
    ASSUME TypeOK, Named, GuardIsHeld, Own, Holding, Slow = {}, [Next]_vars
    PROVE  Holding'
<1> USE DEF Holding, files
<1>1. ASSUME NEW p \in Procs, Start(p) PROVE Holding'
  BY <1>1, StartMoves DEF Start, Others, Quit
<1>2. ASSUME NEW p \in Procs, Gate(p) PROVE Holding'  BY <1>2, GateMoves DEF Gate, Others, Quit
<1>3. ASSUME NEW p \in Procs, Publish(p) PROVE Holding'
  <2>1. \A q \in Procs : pc[q] \in {"recheck", "save"} => lease # NoLease
    BY NoFiles, LoopAssumption DEF Named, Claiming
  <2>2. \A q \in Procs : pc[q] # "drop"  BY <1>3, LoopAssumption DEF Publish, GuardIsHeld,
     Guarded
  <2> QED BY <1>3, <2>1, <2>2, GotoFrame DEF Publish
<1>4. ASSUME NEW p \in Procs, Reap(p) PROVE Holding'  BY <1>4, ReapMoves DEF Reap, Others, Quit
<1>5. ASSUME NEW p \in Procs, Break(p) PROVE Holding'
  <2>1. \/ lease' = lease
        \/ lease' = NoLease /\ \A q \in Procs : pc[q] \notin {"recheck", "save"}
    BY <1>5, NoFiles, LoopAssumption DEF Break, Named, Claiming
  <2> QED BY <1>5, <2>1, RetryFrame DEF Break
<1>6. ASSUME NEW p \in Procs, Recheck(p) PROVE Holding'  BY <1>6, GotoFrame DEF Recheck
<1>7. ASSUME NEW p \in Procs, Save(p) PROVE Holding'  BY <1>7, GotoFrame DEF Save
<1>8. ASSUME NEW p \in Procs, SaveFails(p) PROVE Holding'  BY <1>8, GotoFrame DEF SaveFails
<1>9. ASSUME NEW p \in Procs, Release(p) PROVE Holding'
  <2>1. \A q \in Procs \ {p} : pc[q] \in {"recheck", "save"} => lease' = lease
    BY <1>9, NoFiles DEF Release, Own, Claiming
  <2> QED BY <1>9, <2>1, EndFrame DEF Release
<1>10. ASSUME NEW p \in Procs, Open(p) PROVE Holding'
  BY <1>10, OpenMoves DEF Open, Others, Quit
<1>11. ASSUME NEW p \in Procs, Fence(p) PROVE Holding'
  BY <1>11, FenceMoves, RefreshKeeps DEF Fence, Others, Quit
<1>12. ASSUME NEW p \in Procs, Beat(p) PROVE Holding'  BY <1>12, RefreshKeeps DEF Beat
<1>13. ASSUME NEW p \in Procs, Enter(p) PROVE Holding'
  BY <1>13, GotoFrame, RefreshKeeps DEF Enter
<1>14. ASSUME NEW p \in Procs, EnterFails(p) PROVE Holding'
  BY <1>14, GotoFrame, RefreshKeeps DEF EnterFails
<1>15. ASSUME NEW p \in Procs, RunEffect(p) PROVE Holding'  BY <1>15, GotoFrame DEF RunEffect
<1>16. ASSUME NEW p \in Procs, EffectFails(p) PROVE Holding'
  BY <1>16, GotoFrame DEF EffectFails
<1>17. ASSUME NEW p \in Procs, Commit(p) PROVE Holding'
  BY <1>17, GotoFrame, RefreshKeeps DEF Commit
<1>18. ASSUME NEW p \in Procs, CommitFails(p) PROVE Holding'
  BY <1>18, GotoFrame DEF CommitFails
<1>19. ASSUME NEW p \in Procs, PulseFails(p) PROVE Holding'  BY <1>19, GotoFrame DEF PulseFails
<1>20. ASSUME NEW p \in Procs, Again(p) PROVE Holding'  BY <1>20, GotoFrame DEF Again
<1>21. ASSUME NEW p \in Procs, StartClose(p) PROVE Holding'  BY <1>21, GotoFrame DEF StartClose
<1>22. ASSUME NEW p \in Procs, Close(p) PROVE Holding'
  <2>1. Closable(p) => \A q \in Procs : pc[q] \notin {"recheck", "save"}
    BY NoFiles, LoopAssumption DEF Closable, Own, Named, Claiming
  <2> QED BY <1>22, <2>1, GotoFrame, EndFrame DEF Close
<1>23. ASSUME NEW p \in Procs, CloseFails(p) PROVE Holding'  BY <1>23, EndFrame DEF CloseFails
<1>24. ASSUME NEW p \in Procs, Drop(p) PROVE Holding'
  <2>1. \A q \in Procs : pc[q] \notin {"recheck", "save"}  BY <1>24 DEF Drop
  <2> QED BY <1>24, <2>1, EndFrame DEF Drop
<1>25. ASSUME NEW p \in Procs, Crash(p) PROVE Holding'  BY <1>25, StepFrame DEF Crash
<1>26. ASSUME NEW p \in Procs, Spawn(p) PROVE Holding'  BY <1>26, EndFrame DEF Spawn
<1>27. CASE Expire
  <2>1. \A q \in Procs : pc[q] \notin {"recheck", "save"}  BY <1>27 DEF Expire
  <2> QED BY <1>27, <2>1 DEF Expire
<1>28. CASE NextPeriod  BY <1>28 DEF NextPeriod
<1>29. CASE Damage  BY <1>29 DEF Damage
<1>30. CASE UNCHANGED vars  BY <1>30 DEF vars
<1> QED
  BY <1>1, <1>2, <1>3, <1>4, <1>5, <1>6, <1>7, <1>8, <1>9, <1>10, <1>11, <1>12, <1>13, <1>14,
     <1>15, <1>16, <1>17, <1>18, <1>19, <1>20, <1>21, <1>22, <1>23, <1>24, <1>25, <1>26, <1>27,
     <1>28, <1>29, <1>30
  DEF Next, Begin, Pulse, Done

\* The clock does not go back, and a begin does not outlive its period.
LEMMA ClocksStep ==
    ASSUME TypeOK, Clocks, Slow = {}, [Next]_vars
    PROVE  Clocks'
<1> USE PeriodNow, ForgottenFields DEF Clocks, files, BeginSteps
<1>1. ASSUME NEW p \in Procs, Start(p) PROVE Clocks'
  BY <1>1, StartMoves DEF Start, Others, Quit
<1>2. ASSUME NEW p \in Procs, Gate(p) PROVE Clocks'  BY <1>2, GateMoves DEF Gate, Others, Quit
<1>3. ASSUME NEW p \in Procs, Publish(p) PROVE Clocks'  BY <1>3, GotoFrame DEF Publish
<1>4. ASSUME NEW p \in Procs, Reap(p) PROVE Clocks'  BY <1>4, ReapMoves DEF Reap, Others, Quit
<1>5. ASSUME NEW p \in Procs, Break(p) PROVE Clocks'  BY <1>5, RetryFrame DEF Break
<1>6. ASSUME NEW p \in Procs, Recheck(p) PROVE Clocks'  BY <1>6, GotoFrame DEF Recheck
<1>7. ASSUME NEW p \in Procs, Save(p) PROVE Clocks'  BY <1>7, GotoFrame DEF Save
<1>8. ASSUME NEW p \in Procs, SaveFails(p) PROVE Clocks'  BY <1>8, GotoFrame DEF SaveFails
<1>9. ASSUME NEW p \in Procs, Release(p) PROVE Clocks'  BY <1>9, EndFrame DEF Release
<1>10. ASSUME NEW p \in Procs, Open(p) PROVE Clocks'  BY <1>10, OpenMoves DEF Open, Others, Quit
<1>11. ASSUME NEW p \in Procs, Fence(p) PROVE Clocks'
  BY <1>11, FenceMoves DEF Fence, Others, Quit
<1>12. ASSUME NEW p \in Procs, Beat(p) PROVE Clocks'  BY <1>12 DEF Beat
<1>13. ASSUME NEW p \in Procs, Enter(p) PROVE Clocks'
  <2>1. rec'.period = rec.period  BY <1>13, OwnsBoth, RecordUpdates DEF Enter, MayStart
  <2> QED BY <1>13, <2>1, GotoFrame DEF Enter
<1>14. ASSUME NEW p \in Procs, EnterFails(p) PROVE Clocks'
  <2>1. rec'.period = rec.period  BY <1>14, OwnsBoth, RecordUpdates DEF EnterFails, MayStart
  <2> QED BY <1>14, <2>1, GotoFrame DEF EnterFails
<1>15. ASSUME NEW p \in Procs, RunEffect(p) PROVE Clocks'  BY <1>15, GotoFrame DEF RunEffect
<1>16. ASSUME NEW p \in Procs, EffectFails(p) PROVE Clocks'  BY <1>16, GotoFrame DEF EffectFails
<1>17. ASSUME NEW p \in Procs, Commit(p) PROVE Clocks'
  <2>1. rec'.period = rec.period  BY <1>17, OwnsBoth, RecordUpdates DEF Commit
  <2> QED BY <1>17, <2>1, GotoFrame DEF Commit
<1>18. ASSUME NEW p \in Procs, CommitFails(p) PROVE Clocks'
  <2>1. rec'.period = rec.period  BY <1>18, OwnsBoth, RecordUpdates DEF CommitFails
  <2> QED BY <1>18, <2>1, GotoFrame DEF CommitFails
<1>19. ASSUME NEW p \in Procs, PulseFails(p) PROVE Clocks'  BY <1>19, GotoFrame DEF PulseFails
<1>20. ASSUME NEW p \in Procs, Again(p) PROVE Clocks'  BY <1>20, GotoFrame DEF Again
<1>21. ASSUME NEW p \in Procs, StartClose(p) PROVE Clocks'  BY <1>21, GotoFrame DEF StartClose
<1>22. ASSUME NEW p \in Procs, Close(p) PROVE Clocks'
  <2>1. rec'.period = rec.period  BY <1>22, FoundRecord, RecordUpdates DEF Close, Closable
  <2> QED BY <1>22, <2>1, GotoFrame, EndFrame DEF Close
<1>23. ASSUME NEW p \in Procs, CloseFails(p) PROVE Clocks'  BY <1>23, EndFrame DEF CloseFails
<1>24. ASSUME NEW p \in Procs, Drop(p) PROVE Clocks'  BY <1>24, EndFrame DEF Drop
<1>25. ASSUME NEW p \in Procs, Crash(p) PROVE Clocks'  BY <1>25, StepFrame DEF Crash
<1>26. ASSUME NEW p \in Procs, Spawn(p) PROVE Clocks'  BY <1>26, EndFrame DEF Spawn
<1>27. CASE Expire  BY <1>27 DEF Expire
<1>28. CASE NextPeriod  BY <1>28, PeriodNow DEF NextPeriod
<1>29. CASE Damage  BY <1>29, NoFiles DEF Damage
<1>30. CASE UNCHANGED vars  BY <1>30 DEF vars
<1> QED
  BY <1>1, <1>2, <1>3, <1>4, <1>5, <1>6, <1>7, <1>8, <1>9, <1>10, <1>11, <1>12, <1>13, <1>14,
     <1>15, <1>16, <1>17, <1>18, <1>19, <1>20, <1>21, <1>22, <1>23, <1>24, <1>25, <1>26, <1>27,
     <1>28, <1>29, <1>30
  DEF Next, Begin, Pulse, Done

\* Enter wrote the intent before the effect; a save for the same period is Clean.
LEMMA EvidenceStep ==
    ASSUME TypeOK, Named, GuardIsHeld, Clocks, Evidence, Clean, InEffect, [Next]_vars
    PROVE  Evidence'
<1> USE DEF Evidence, files
<1>1. ASSUME NEW p \in Procs, Start(p) PROVE Evidence'
  BY <1>1, StartMoves DEF Start, Others, Quit
<1>2. ASSUME NEW p \in Procs, Gate(p) PROVE Evidence'  BY <1>2, GateMoves DEF Gate, Others, Quit
<1>3. ASSUME NEW p \in Procs, Publish(p) PROVE Evidence'  BY <1>3, GotoFrame DEF Publish
<1>4. ASSUME NEW p \in Procs, Reap(p) PROVE Evidence'  BY <1>4, ReapMoves DEF Reap, Others, Quit
<1>5. ASSUME NEW p \in Procs, Break(p) PROVE Evidence'  BY <1>5, RetryFrame DEF Break
<1>6. ASSUME NEW p \in Procs, Recheck(p) PROVE Evidence'  BY <1>6, GotoFrame DEF Recheck
<1>7. ASSUME NEW p \in Procs, Save(p) PROVE Evidence'
  <2>1. rec'.period = period /\ effects[period] = 0
    BY <1>7 DEF Save, Clocks, BeginSteps, Clean
  <2> QED BY <1>7, <2>1, PeriodNow DEF Save, TypeOK, Periods
<1>8. ASSUME NEW p \in Procs, SaveFails(p) PROVE Evidence'  BY <1>8, GotoFrame DEF SaveFails
<1>9. ASSUME NEW p \in Procs, Release(p) PROVE Evidence'  BY <1>9, EndFrame DEF Release
<1>10. ASSUME NEW p \in Procs, Open(p) PROVE Evidence'
  BY <1>10, OpenMoves DEF Open, Others, Quit
<1>11. ASSUME NEW p \in Procs, Fence(p) PROVE Evidence'
  BY <1>11, FenceMoves DEF Fence, Others, Quit
<1>12. ASSUME NEW p \in Procs, Beat(p) PROVE Evidence'  BY <1>12 DEF Beat
<1>13. ASSUME NEW p \in Procs, Enter(p) PROVE Evidence'
  <2>1. rec'.period = rec.period /\ (rec.started => rec'.started)
    BY <1>13, OwnsBoth, RecordUpdates DEF Enter, MayStart
  <2>2. rec' = rec \/ rec # Damaged  BY <1>13 DEF Enter, MayStart, Owns, Found
  <2> QED BY <1>13, <2>1, <2>2 DEF Enter
<1>14. ASSUME NEW p \in Procs, EnterFails(p) PROVE Evidence'
  <2>1. rec'.period = rec.period /\ (rec.started => rec'.started)
    BY <1>14, OwnsBoth, RecordUpdates DEF EnterFails, MayStart
  <2>2. rec' = rec \/ rec # Damaged  BY <1>14 DEF EnterFails, MayStart, Owns, Found
  <2> QED BY <1>14, <2>1, <2>2 DEF EnterFails
<1>15. ASSUME NEW p \in Procs, RunEffect(p) PROVE Evidence'
  <2>1. \A d \in Periods \ {me[p].at} : effects'[d] = effects[d]
    BY <1>15, PerformedAt DEF RunEffect
  <2>2. rec = Damaged \/ (rec.period = me[p].at /\ rec.started)  BY <1>15 DEF RunEffect,
     InEffect
  <2>3. me[p].at <= period  BY DEF Clocks
  <2> QED BY <1>15, <2>1, <2>2, <2>3, PeriodNow DEF RunEffect
<1>16. ASSUME NEW p \in Procs, EffectFails(p) PROVE Evidence'
  <2>1. \A d \in Periods \ {me[p].at} : effects'[d] = effects[d]
    BY <1>16, PerformedAt DEF EffectFails
  <2>2. rec = Damaged \/ (rec.period = me[p].at /\ rec.started)  BY <1>16 DEF EffectFails,
     InEffect
  <2>3. me[p].at <= period  BY DEF Clocks
  <2> QED BY <1>16, <2>1, <2>2, <2>3, PeriodNow DEF EffectFails
<1>17. ASSUME NEW p \in Procs, Commit(p) PROVE Evidence'
  <2>1. rec'.period = rec.period /\ (rec.started => rec'.started)
    BY <1>17, OwnsBoth, RecordUpdates DEF Commit
  <2>2. rec' = rec \/ rec # Damaged  BY <1>17 DEF Commit, Owns, Found
  <2> QED BY <1>17, <2>1, <2>2 DEF Commit
<1>18. ASSUME NEW p \in Procs, CommitFails(p) PROVE Evidence'
  <2>1. rec'.period = rec.period /\ (rec.started => rec'.started)
    BY <1>18, OwnsBoth, RecordUpdates DEF CommitFails
  <2>2. rec' = rec \/ rec # Damaged  BY <1>18 DEF CommitFails, Owns, Found
  <2> QED BY <1>18, <2>1, <2>2 DEF CommitFails
<1>19. ASSUME NEW p \in Procs, PulseFails(p) PROVE Evidence'  BY <1>19, GotoFrame DEF PulseFails
<1>20. ASSUME NEW p \in Procs, Again(p) PROVE Evidence'  BY <1>20, GotoFrame DEF Again
<1>21. ASSUME NEW p \in Procs, StartClose(p) PROVE Evidence'  BY <1>21, GotoFrame DEF StartClose
<1>22. ASSUME NEW p \in Procs, Close(p) PROVE Evidence'
  <2>1. rec'.period = rec.period /\ (rec.started => rec'.started)
    BY <1>22, FoundRecord, RecordUpdates DEF Close, Closable
  <2>2. rec' = rec \/ rec # Damaged  BY <1>22 DEF Close, Closable, Found
  <2> QED BY <1>22, <2>1, <2>2 DEF Close
<1>23. ASSUME NEW p \in Procs, CloseFails(p) PROVE Evidence'  BY <1>23, EndFrame DEF CloseFails
<1>24. ASSUME NEW p \in Procs, Drop(p) PROVE Evidence'  BY <1>24, EndFrame DEF Drop
<1>25. ASSUME NEW p \in Procs, Crash(p) PROVE Evidence'  BY <1>25, StepFrame DEF Crash
<1>26. ASSUME NEW p \in Procs, Spawn(p) PROVE Evidence'  BY <1>26, EndFrame DEF Spawn
<1>27. CASE Expire  BY <1>27 DEF Expire
<1>28. CASE NextPeriod  BY <1>28, PeriodNow DEF NextPeriod, Periods
<1>29. CASE Damage  BY <1>29, NoFiles DEF Damage
<1>30. CASE UNCHANGED vars  BY <1>30 DEF vars
<1> QED
  BY <1>1, <1>2, <1>3, <1>4, <1>5, <1>6, <1>7, <1>8, <1>9, <1>10, <1>11, <1>12, <1>13, <1>14,
     <1>15, <1>16, <1>17, <1>18, <1>19, <1>20, <1>21, <1>22, <1>23, <1>24, <1>25, <1>26, <1>27,
     <1>28, <1>29, <1>30
  DEF Next, Begin, Pulse, Done

\* The second gate reads Evidence; after it no effect can run under the begin's lease.
LEMMA CleanStep ==
    ASSUME TypeOK, Own, Holding, Clocks, Evidence, Clean, InEffect, [Next]_vars
    PROVE  Clean'
<1> USE DEF Clean, files
<1>1. ASSUME NEW p \in Procs, Start(p) PROVE Clean'  BY <1>1, StartMoves DEF Start, Others, Quit
<1>2. ASSUME NEW p \in Procs, Gate(p) PROVE Clean'  BY <1>2, GateMoves DEF Gate, Others, Quit
<1>3. ASSUME NEW p \in Procs, Publish(p) PROVE Clean'  BY <1>3, GotoFrame DEF Publish
<1>4. ASSUME NEW p \in Procs, Reap(p) PROVE Clean'  BY <1>4, ReapMoves DEF Reap, Others, Quit
<1>5. ASSUME NEW p \in Procs, Break(p) PROVE Clean'  BY <1>5, RetryFrame DEF Break
<1>6. ASSUME NEW p \in Procs, Recheck(p) PROVE Clean'
  <2>1. me[p].at \in Periods /\ rec.period <= me[p].at
    BY <1>6 DEF Recheck, Clocks, BeginSteps, TypeOK, Locals
  <2>2. SecondGate(p) => rec # Damaged /\ (rec.period = me[p].at => ~rec.started)
    BY DEF SecondGate, Passes, Uncertain, Final
  <2>3. SecondGate(p) => effects[me[p].at] = 0  BY <2>1, <2>2, PeriodNow DEF Evidence
  <2> QED BY <1>6, <2>3, GotoFrame DEF Recheck
<1>7. ASSUME NEW p \in Procs, Save(p) PROVE Clean'  BY <1>7, GotoFrame DEF Save
<1>8. ASSUME NEW p \in Procs, SaveFails(p) PROVE Clean'  BY <1>8, GotoFrame DEF SaveFails
<1>9. ASSUME NEW p \in Procs, Release(p) PROVE Clean'  BY <1>9, EndFrame DEF Release
<1>10. ASSUME NEW p \in Procs, Open(p) PROVE Clean'  BY <1>10, OpenMoves DEF Open, Others, Quit
<1>11. ASSUME NEW p \in Procs, Fence(p) PROVE Clean'
  BY <1>11, FenceMoves DEF Fence, Others, Quit
<1>12. ASSUME NEW p \in Procs, Beat(p) PROVE Clean'  BY <1>12 DEF Beat
<1>13. ASSUME NEW p \in Procs, Enter(p) PROVE Clean'  BY <1>13, GotoFrame DEF Enter
<1>14. ASSUME NEW p \in Procs, EnterFails(p) PROVE Clean'  BY <1>14, GotoFrame DEF EnterFails
<1>15. ASSUME NEW p \in Procs, RunEffect(p) PROVE Clean'
  <2>1. \A q \in Procs : pc[q] # "save"
    BY <1>15 DEF RunEffect, InEffect, Holding, Own, Claiming
  <2> QED BY <1>15, <2>1, GotoFrame DEF RunEffect
<1>16. ASSUME NEW p \in Procs, EffectFails(p) PROVE Clean'
  <2>1. \A q \in Procs : pc[q] # "save"
    BY <1>16 DEF EffectFails, InEffect, Holding, Own, Claiming
  <2> QED BY <1>16, <2>1, GotoFrame DEF EffectFails
<1>17. ASSUME NEW p \in Procs, Commit(p) PROVE Clean'  BY <1>17, GotoFrame DEF Commit
<1>18. ASSUME NEW p \in Procs, CommitFails(p) PROVE Clean'  BY <1>18, GotoFrame DEF CommitFails
<1>19. ASSUME NEW p \in Procs, PulseFails(p) PROVE Clean'  BY <1>19, GotoFrame DEF PulseFails
<1>20. ASSUME NEW p \in Procs, Again(p) PROVE Clean'  BY <1>20, GotoFrame DEF Again
<1>21. ASSUME NEW p \in Procs, StartClose(p) PROVE Clean'  BY <1>21, GotoFrame DEF StartClose
<1>22. ASSUME NEW p \in Procs, Close(p) PROVE Clean'  BY <1>22, GotoFrame, EndFrame DEF Close
<1>23. ASSUME NEW p \in Procs, CloseFails(p) PROVE Clean'  BY <1>23, EndFrame DEF CloseFails
<1>24. ASSUME NEW p \in Procs, Drop(p) PROVE Clean'  BY <1>24, EndFrame DEF Drop
<1>25. ASSUME NEW p \in Procs, Crash(p) PROVE Clean'  BY <1>25, StepFrame DEF Crash
<1>26. ASSUME NEW p \in Procs, Spawn(p) PROVE Clean'  BY <1>26, EndFrame DEF Spawn
<1>27. CASE Expire  BY <1>27 DEF Expire
<1>28. CASE NextPeriod  BY <1>28 DEF NextPeriod
<1>29. CASE Damage  BY <1>29 DEF Damage
<1>30. CASE UNCHANGED vars  BY <1>30 DEF vars
<1> QED
  BY <1>1, <1>2, <1>3, <1>4, <1>5, <1>6, <1>7, <1>8, <1>9, <1>10, <1>11, <1>12, <1>13, <1>14,
     <1>15, <1>16, <1>17, <1>18, <1>19, <1>20, <1>21, <1>22, <1>23, <1>24, <1>25, <1>26, <1>27,
     <1>28, <1>29, <1>30
  DEF Next, Begin, Pulse, Done

\* What the second gate saw of the record stays so: only the holder writes evidence.
LEMMA BlankStep ==
    ASSUME TypeOK, Own, Holding, Blank, [Next]_vars
    PROVE  Blank'
<1> USE DEF Blank, files
<1>1. ASSUME NEW p \in Procs, Start(p) PROVE Blank'  BY <1>1, StartMoves DEF Start, Others, Quit
<1>2. ASSUME NEW p \in Procs, Gate(p) PROVE Blank'  BY <1>2, GateMoves DEF Gate, Others, Quit
<1>3. ASSUME NEW p \in Procs, Publish(p) PROVE Blank'  BY <1>3, GotoFrame DEF Publish
<1>4. ASSUME NEW p \in Procs, Reap(p) PROVE Blank'  BY <1>4, ReapMoves DEF Reap, Others, Quit
<1>5. ASSUME NEW p \in Procs, Break(p) PROVE Blank'  BY <1>5, RetryFrame DEF Break
<1>6. ASSUME NEW p \in Procs, Recheck(p) PROVE Blank'
  <2>1. SecondGate(p) => (rec.period = me[p].at => ~rec.started /\ ~rec.committed)
    BY DEF SecondGate, Passes, Uncertain, Final
  <2> QED BY <1>6, <2>1, GotoFrame DEF Recheck
<1>7. ASSUME NEW p \in Procs, Save(p) PROVE Blank'
  <2>1. \A q \in Procs \ {p} : pc[q] # "save"  BY <1>7 DEF Save, Holding, Own, Claiming
  <2> QED BY <1>7, <2>1, GotoFrame DEF Save
<1>8. ASSUME NEW p \in Procs, SaveFails(p) PROVE Blank'  BY <1>8, GotoFrame DEF SaveFails
<1>9. ASSUME NEW p \in Procs, Release(p) PROVE Blank'  BY <1>9, EndFrame DEF Release
<1>10. ASSUME NEW p \in Procs, Open(p) PROVE Blank'  BY <1>10, OpenMoves DEF Open, Others, Quit
<1>11. ASSUME NEW p \in Procs, Fence(p) PROVE Blank'
  BY <1>11, FenceMoves DEF Fence, Others, Quit
<1>12. ASSUME NEW p \in Procs, Beat(p) PROVE Blank'  BY <1>12 DEF Beat
<1>13. ASSUME NEW p \in Procs, Enter(p) PROVE Blank'
  <2>1. MayStart(p) => \A q \in Procs : pc[q] # "save"
    BY <1>13, OwnsBoth DEF MayStart, Holding, Own, Claiming
  <2> QED BY <1>13, <2>1, GotoFrame DEF Enter
<1>14. ASSUME NEW p \in Procs, EnterFails(p) PROVE Blank'
  <2>1. MayStart(p) => \A q \in Procs : pc[q] # "save"
    BY <1>14, OwnsBoth DEF MayStart, Holding, Own, Claiming
  <2> QED BY <1>14, <2>1, GotoFrame DEF EnterFails
<1>15. ASSUME NEW p \in Procs, RunEffect(p) PROVE Blank'  BY <1>15, GotoFrame DEF RunEffect
<1>16. ASSUME NEW p \in Procs, EffectFails(p) PROVE Blank'  BY <1>16, GotoFrame DEF EffectFails
<1>17. ASSUME NEW p \in Procs, Commit(p) PROVE Blank'
  <2>1. Owns(p) => \A q \in Procs : pc[q] # "save"
    BY <1>17, OwnsBoth DEF Holding, Own, Claiming
  <2> QED BY <1>17, <2>1, GotoFrame DEF Commit
<1>18. ASSUME NEW p \in Procs, CommitFails(p) PROVE Blank'
  <2>1. Owns(p) => \A q \in Procs : pc[q] # "save"
    BY <1>18, OwnsBoth DEF Holding, Own, Claiming
  <2> QED BY <1>18, <2>1, GotoFrame DEF CommitFails
<1>19. ASSUME NEW p \in Procs, PulseFails(p) PROVE Blank'  BY <1>19, GotoFrame DEF PulseFails
<1>20. ASSUME NEW p \in Procs, Again(p) PROVE Blank'  BY <1>20, GotoFrame DEF Again
<1>21. ASSUME NEW p \in Procs, StartClose(p) PROVE Blank'  BY <1>21, GotoFrame DEF StartClose
<1>22. ASSUME NEW p \in Procs, Close(p) PROVE Blank'
  <2>1. rec'.period = rec.period /\ rec'.started = rec.started /\ rec'.committed = rec.committed
    BY <1>22, FoundRecord, RecordUpdates DEF Close, Closable
  <2> QED BY <1>22, <2>1, GotoFrame, EndFrame DEF Close
<1>23. ASSUME NEW p \in Procs, CloseFails(p) PROVE Blank'  BY <1>23, EndFrame DEF CloseFails
<1>24. ASSUME NEW p \in Procs, Drop(p) PROVE Blank'  BY <1>24, EndFrame DEF Drop
<1>25. ASSUME NEW p \in Procs, Crash(p) PROVE Blank'  BY <1>25, StepFrame DEF Crash
<1>26. ASSUME NEW p \in Procs, Spawn(p) PROVE Blank'  BY <1>26, EndFrame DEF Spawn
<1>27. CASE Expire  BY <1>27 DEF Expire
<1>28. CASE NextPeriod  BY <1>28 DEF NextPeriod
<1>29. CASE Damage  BY <1>29, NoFiles DEF Damage
<1>30. CASE UNCHANGED vars  BY <1>30 DEF vars
<1> QED
  BY <1>1, <1>2, <1>3, <1>4, <1>5, <1>6, <1>7, <1>8, <1>9, <1>10, <1>11, <1>12, <1>13, <1>14,
     <1>15, <1>16, <1>17, <1>18, <1>19, <1>20, <1>21, <1>22, <1>23, <1>24, <1>25, <1>26, <1>27,
     <1>28, <1>29, <1>30
  DEF Next, Begin, Pulse, Done

\* The guard keeps heartbeats, closes and reapers out; Own keeps saves out.
LEMMA InEffectStep ==
    ASSUME TypeOK, GuardIsHeld, Own, Holding, Evidence, InEffect, [Next]_vars
    PROVE  InEffect'
<1> USE DEF InEffect, files
<1>1. ASSUME NEW p \in Procs, Start(p) PROVE InEffect'
  BY <1>1, StartMoves DEF Start, Others, Quit
<1>2. ASSUME NEW p \in Procs, Gate(p) PROVE InEffect'  BY <1>2, GateMoves DEF Gate, Others, Quit
<1>3. ASSUME NEW p \in Procs, Publish(p) PROVE InEffect'
  <2>1. \A q \in Procs : pc[q] \notin {"fn", "commit"}
    BY <1>3, LoopAssumption DEF Publish, GuardIsHeld, Guarded
  <2> QED BY <1>3, <2>1, GotoFrame DEF Publish
<1>4. ASSUME NEW p \in Procs, Reap(p) PROVE InEffect'  BY <1>4, ReapMoves DEF Reap, Others, Quit
<1>5. ASSUME NEW p \in Procs, Break(p) PROVE InEffect'
  <2>1. \A q \in Procs : pc[q] \notin {"fn", "commit"}
    BY <1>5, LoopAssumption DEF Break, GuardIsHeld, Guarded
  <2> QED BY <1>5, <2>1, RetryFrame DEF Break
<1>6. ASSUME NEW p \in Procs, Recheck(p) PROVE InEffect'  BY <1>6, GotoFrame DEF Recheck
<1>7. ASSUME NEW p \in Procs, Save(p) PROVE InEffect'
  <2>1. \A q \in Procs : pc[q] \notin {"fn", "commit"}  BY <1>7 DEF Save, Holding, Own, Claiming
  <2> QED BY <1>7, <2>1, GotoFrame DEF Save
<1>8. ASSUME NEW p \in Procs, SaveFails(p) PROVE InEffect'  BY <1>8, GotoFrame DEF SaveFails
<1>9. ASSUME NEW p \in Procs, Release(p) PROVE InEffect'
  <2>1. \A q \in Procs : pc[q] \notin {"fn", "commit"}
    BY <1>9, LoopAssumption DEF Release, GuardIsHeld, Guarded
  <2> QED BY <1>9, <2>1, EndFrame DEF Release
<1>10. ASSUME NEW p \in Procs, Open(p) PROVE InEffect'
  BY <1>10, OpenMoves DEF Open, Others, Quit
<1>11. ASSUME NEW p \in Procs, Fence(p) PROVE InEffect'
  <2>1. \A q \in Procs : pc[q] \notin {"fn", "commit"}
    BY <1>11, LoopAssumption DEF Fence, GuardIsHeld, Guarded
  <2> QED BY <1>11, <2>1, FenceMoves DEF Fence, Others
<1>12. ASSUME NEW p \in Procs, Beat(p) PROVE InEffect'
  <2>1. \A q \in Procs : pc[q] \notin {"fn", "commit"}
    BY <1>12, LoopAssumption DEF Beat, GuardIsHeld, Guarded
  <2> QED BY <1>12, <2>1, GotoFrame DEF Beat
<1>13. ASSUME NEW p \in Procs, Enter(p) PROVE InEffect'
  <2>1. \A q \in Procs : pc[q] \notin {"fn", "commit"}
    BY <1>13, LoopAssumption DEF Enter, GuardIsHeld, Guarded
  <2>2. CASE MayStart(p)
    <3>1. rec \in Record /\ rec.run = me[p].run /\ rec.status = "running" /\ me[p].run \in Runs
          /\ lease.owner = me[p].run /\ rec # Damaged
      BY <2>2, OwnsBoth DEF MayStart, Owns, Found
    <3>2. /\ rec'.run = rec.run /\ rec'.status = rec.status /\ rec'.period = rec.period
          /\ rec'.started
      BY <1>13, <2>2, <3>1, RecordUpdates DEF Enter
    <3>3. lease'.owner = lease.owner  BY <1>13, <2>2 DEF Enter, Refreshed
    <3>4. me[p].at \in Periods /\ effects[me[p].at] = 0
      BY <2>2, <3>1 DEF MayStart, Evidence, TypeOK, Locals
    <3> QED BY <1>13, <2>1, <2>2, <3>1, <3>2, <3>3, <3>4, GotoFrame DEF Enter, MayStart
  <2>3. CASE ~MayStart(p)  BY <1>13, <2>1, <2>3, GotoFrame DEF Enter
  <2> QED BY <2>2, <2>3
<1>14. ASSUME NEW p \in Procs, EnterFails(p) PROVE InEffect'
  <2>1. \A q \in Procs : pc[q] \notin {"fn", "commit"}
    BY <1>14, LoopAssumption DEF EnterFails, GuardIsHeld, Guarded
  <2> QED BY <1>14, <2>1, GotoFrame DEF EnterFails
<1>15. ASSUME NEW p \in Procs, RunEffect(p) PROVE InEffect'
  <2>1. \A q \in Procs \ {p} : pc[q] \notin {"fn", "commit"}  BY <1>15 DEF RunEffect,
     GuardIsHeld, Guarded
  <2> QED BY <1>15, <2>1, GotoFrame DEF RunEffect
<1>16. ASSUME NEW p \in Procs, EffectFails(p) PROVE InEffect'
  <2>1. \A q \in Procs \ {p} : pc[q] \notin {"fn", "commit"}  BY <1>16 DEF EffectFails,
     GuardIsHeld, Guarded
  <2> QED BY <1>16, <2>1, GotoFrame DEF EffectFails
<1>17. ASSUME NEW p \in Procs, Commit(p) PROVE InEffect'
  <2>1. \A q \in Procs \ {p} : pc[q] \notin {"fn", "commit"}  BY <1>17 DEF Commit, GuardIsHeld,
     Guarded
  <2> QED BY <1>17, <2>1, GotoFrame DEF Commit
<1>18. ASSUME NEW p \in Procs, CommitFails(p) PROVE InEffect'
  <2>1. \A q \in Procs \ {p} : pc[q] \notin {"fn", "commit"}  BY <1>18 DEF CommitFails,
     GuardIsHeld, Guarded
  <2> QED BY <1>18, <2>1, GotoFrame DEF CommitFails
<1>19. ASSUME NEW p \in Procs, PulseFails(p) PROVE InEffect'  BY <1>19, GotoFrame DEF PulseFails
<1>20. ASSUME NEW p \in Procs, Again(p) PROVE InEffect'  BY <1>20, GotoFrame DEF Again
<1>21. ASSUME NEW p \in Procs, StartClose(p) PROVE InEffect'  BY <1>21, GotoFrame DEF StartClose
<1>22. ASSUME NEW p \in Procs, Close(p) PROVE InEffect'
  <2>1. \A q \in Procs : pc[q] \notin {"fn", "commit"}
    BY <1>22, LoopAssumption DEF Close, GuardIsHeld, Guarded
  <2> QED BY <1>22, <2>1, GotoFrame, EndFrame DEF Close
<1>23. ASSUME NEW p \in Procs, CloseFails(p) PROVE InEffect'  BY <1>23, EndFrame DEF CloseFails
<1>24. ASSUME NEW p \in Procs, Drop(p) PROVE InEffect'
  <2>1. \A q \in Procs \ {p} : pc[q] \notin {"fn", "commit"}  BY <1>24 DEF Drop, GuardIsHeld,
     Guarded
  <2> QED BY <1>24, <2>1, EndFrame DEF Drop
<1>25. ASSUME NEW p \in Procs, Crash(p) PROVE InEffect'  BY <1>25, StepFrame DEF Crash
<1>26. ASSUME NEW p \in Procs, Spawn(p) PROVE InEffect'  BY <1>26, EndFrame DEF Spawn
<1>27. CASE Expire  BY <1>27 DEF Expire
<1>28. CASE NextPeriod  BY <1>28 DEF NextPeriod
<1>29. CASE Damage  BY <1>29 DEF Damage
<1>30. CASE UNCHANGED vars  BY <1>30 DEF vars
<1> QED
  BY <1>1, <1>2, <1>3, <1>4, <1>5, <1>6, <1>7, <1>8, <1>9, <1>10, <1>11, <1>12, <1>13, <1>14,
     <1>15, <1>16, <1>17, <1>18, <1>19, <1>20, <1>21, <1>22, <1>23, <1>24, <1>25, <1>26, <1>27,
     <1>28, <1>29, <1>30
  DEF Next, Begin, Pulse, Done

\* RunEffect starts from an effect that has not happened.
LEMMA OnceStep ==
    ASSUME TypeOK, InEffect, AtMostOncePerPeriod, [Next]_vars
    PROVE  AtMostOncePerPeriod'
<1> USE DEF AtMostOncePerPeriod, files
<1>1. ASSUME NEW p \in Procs, Start(p) PROVE AtMostOncePerPeriod'
  BY <1>1, StartMoves DEF Start, Others, Quit
<1>2. ASSUME NEW p \in Procs, Gate(p) PROVE AtMostOncePerPeriod'
  BY <1>2, GateMoves DEF Gate, Others, Quit
<1>3. ASSUME NEW p \in Procs, Publish(p) PROVE AtMostOncePerPeriod'
  BY <1>3, GotoFrame DEF Publish
<1>4. ASSUME NEW p \in Procs, Reap(p) PROVE AtMostOncePerPeriod'
  BY <1>4, ReapMoves DEF Reap, Others, Quit
<1>5. ASSUME NEW p \in Procs, Break(p) PROVE AtMostOncePerPeriod'  BY <1>5, RetryFrame DEF Break
<1>6. ASSUME NEW p \in Procs, Recheck(p) PROVE AtMostOncePerPeriod'
  BY <1>6, GotoFrame DEF Recheck
<1>7. ASSUME NEW p \in Procs, Save(p) PROVE AtMostOncePerPeriod'  BY <1>7, GotoFrame DEF Save
<1>8. ASSUME NEW p \in Procs, SaveFails(p) PROVE AtMostOncePerPeriod'
  BY <1>8, GotoFrame DEF SaveFails
<1>9. ASSUME NEW p \in Procs, Release(p) PROVE AtMostOncePerPeriod'
  BY <1>9, EndFrame DEF Release
<1>10. ASSUME NEW p \in Procs, Open(p) PROVE AtMostOncePerPeriod'
  BY <1>10, OpenMoves DEF Open, Others, Quit
<1>11. ASSUME NEW p \in Procs, Fence(p) PROVE AtMostOncePerPeriod'
  BY <1>11, FenceMoves DEF Fence, Others, Quit
<1>12. ASSUME NEW p \in Procs, Beat(p) PROVE AtMostOncePerPeriod'  BY <1>12 DEF Beat
<1>13. ASSUME NEW p \in Procs, Enter(p) PROVE AtMostOncePerPeriod'
  BY <1>13, GotoFrame DEF Enter
<1>14. ASSUME NEW p \in Procs, EnterFails(p) PROVE AtMostOncePerPeriod'
  BY <1>14, GotoFrame DEF EnterFails
<1>15. ASSUME NEW p \in Procs, RunEffect(p) PROVE AtMostOncePerPeriod'
  <2>1. me[p].at \in Periods /\ effects[me[p].at] = 0  BY <1>15 DEF RunEffect, InEffect, TypeOK,
     Locals
  <2>2. effects' \in {effects, Performed(p)}  BY <1>15 DEF RunEffect
  <2> QED BY <2>1, <2>2, PerformedAt
<1>16. ASSUME NEW p \in Procs, EffectFails(p) PROVE AtMostOncePerPeriod'
  <2>1. me[p].at \in Periods /\ effects[me[p].at] = 0  BY <1>16 DEF EffectFails, InEffect,
     TypeOK, Locals
  <2>2. effects' \in {effects, Performed(p)}  BY <1>16 DEF EffectFails
  <2> QED BY <2>1, <2>2, PerformedAt
<1>17. ASSUME NEW p \in Procs, Commit(p) PROVE AtMostOncePerPeriod'
  BY <1>17, GotoFrame DEF Commit
<1>18. ASSUME NEW p \in Procs, CommitFails(p) PROVE AtMostOncePerPeriod'
  BY <1>18, GotoFrame DEF CommitFails
<1>19. ASSUME NEW p \in Procs, PulseFails(p) PROVE AtMostOncePerPeriod'
  BY <1>19, GotoFrame DEF PulseFails
<1>20. ASSUME NEW p \in Procs, Again(p) PROVE AtMostOncePerPeriod'
  BY <1>20, GotoFrame DEF Again
<1>21. ASSUME NEW p \in Procs, StartClose(p) PROVE AtMostOncePerPeriod'
  BY <1>21, GotoFrame DEF StartClose
<1>22. ASSUME NEW p \in Procs, Close(p) PROVE AtMostOncePerPeriod'
  BY <1>22, GotoFrame, EndFrame DEF Close
<1>23. ASSUME NEW p \in Procs, CloseFails(p) PROVE AtMostOncePerPeriod'
  BY <1>23, EndFrame DEF CloseFails
<1>24. ASSUME NEW p \in Procs, Drop(p) PROVE AtMostOncePerPeriod'  BY <1>24, EndFrame DEF Drop
<1>25. ASSUME NEW p \in Procs, Crash(p) PROVE AtMostOncePerPeriod'
  BY <1>25, StepFrame DEF Crash
<1>26. ASSUME NEW p \in Procs, Spawn(p) PROVE AtMostOncePerPeriod'  BY <1>26, EndFrame DEF Spawn
<1>27. CASE Expire  BY <1>27 DEF Expire
<1>28. CASE NextPeriod  BY <1>28 DEF NextPeriod
<1>29. CASE Damage  BY <1>29 DEF Damage
<1>30. CASE UNCHANGED vars  BY <1>30 DEF vars
<1> QED
  BY <1>1, <1>2, <1>3, <1>4, <1>5, <1>6, <1>7, <1>8, <1>9, <1>10, <1>11, <1>12, <1>13, <1>14,
     <1>15, <1>16, <1>17, <1>18, <1>19, <1>20, <1>21, <1>22, <1>23, <1>24, <1>25, <1>26, <1>27,
     <1>28, <1>29, <1>30
  DEF Next, Begin, Pulse, Done

\* Only a save can forget, and it is Blank.
LEMMA KeptStep ==
    ASSUME TypeOK, Blank, [Next]_vars
    PROVE  (rec.period = rec'.period =>
            (rec.started => rec'.started) /\ (rec.committed => rec'.committed))
<1> USE DEF files
<1>1. ASSUME NEW p \in Procs, Start(p) PROVE (rec.period = rec'.period =>
            (rec.started => rec'.started) /\ (rec.committed => rec'.committed))
  BY <1>1, StartMoves DEF Start, Others, Quit
<1>2. ASSUME NEW p \in Procs, Gate(p) PROVE (rec.period = rec'.period =>
            (rec.started => rec'.started) /\ (rec.committed => rec'.committed))
  BY <1>2, GateMoves DEF Gate, Others, Quit
<1>3. ASSUME NEW p \in Procs, Publish(p) PROVE (rec.period = rec'.period =>
            (rec.started => rec'.started) /\ (rec.committed => rec'.committed))
  BY <1>3, GotoFrame DEF Publish
<1>4. ASSUME NEW p \in Procs, Reap(p) PROVE (rec.period = rec'.period =>
            (rec.started => rec'.started) /\ (rec.committed => rec'.committed))
  BY <1>4, ReapMoves DEF Reap, Others, Quit
<1>5. ASSUME NEW p \in Procs, Break(p) PROVE (rec.period = rec'.period =>
            (rec.started => rec'.started) /\ (rec.committed => rec'.committed))
  BY <1>5, RetryFrame DEF Break
<1>6. ASSUME NEW p \in Procs, Recheck(p) PROVE (rec.period = rec'.period =>
            (rec.started => rec'.started) /\ (rec.committed => rec'.committed))
  BY <1>6, GotoFrame DEF Recheck
<1>7. ASSUME NEW p \in Procs, Save(p) PROVE (rec.period = rec'.period =>
            (rec.started => rec'.started) /\ (rec.committed => rec'.committed))
  <2>1. rec'.period = me[p].at  BY <1>7 DEF Save
  <2> QED BY <1>7, <2>1 DEF Save, Blank
<1>8. ASSUME NEW p \in Procs, SaveFails(p) PROVE (rec.period = rec'.period =>
            (rec.started => rec'.started) /\ (rec.committed => rec'.committed))
  BY <1>8, GotoFrame DEF SaveFails
<1>9. ASSUME NEW p \in Procs, Release(p) PROVE (rec.period = rec'.period =>
            (rec.started => rec'.started) /\ (rec.committed => rec'.committed))
  BY <1>9, EndFrame DEF Release
<1>10. ASSUME NEW p \in Procs, Open(p) PROVE (rec.period = rec'.period =>
            (rec.started => rec'.started) /\ (rec.committed => rec'.committed))
  BY <1>10, OpenMoves DEF Open, Others, Quit
<1>11. ASSUME NEW p \in Procs, Fence(p) PROVE (rec.period = rec'.period =>
            (rec.started => rec'.started) /\ (rec.committed => rec'.committed))
  BY <1>11, FenceMoves DEF Fence, Others, Quit
<1>12. ASSUME NEW p \in Procs, Beat(p) PROVE (rec.period = rec'.period =>
            (rec.started => rec'.started) /\ (rec.committed => rec'.committed))
  BY <1>12 DEF Beat
<1>13. ASSUME NEW p \in Procs, Enter(p) PROVE (rec.period = rec'.period =>
            (rec.started => rec'.started) /\ (rec.committed => rec'.committed))
  <2>1. (rec.started => rec'.started) /\ (rec.committed => rec'.committed)
    BY <1>13, OwnsBoth, RecordUpdates DEF Enter, MayStart
  <2> QED BY <2>1
<1>14. ASSUME NEW p \in Procs, EnterFails(p) PROVE (rec.period = rec'.period =>
            (rec.started => rec'.started) /\ (rec.committed => rec'.committed))
  <2>1. (rec.started => rec'.started) /\ (rec.committed => rec'.committed)
    BY <1>14, OwnsBoth, RecordUpdates DEF EnterFails, MayStart
  <2> QED BY <2>1
<1>15. ASSUME NEW p \in Procs, RunEffect(p) PROVE (rec.period = rec'.period =>
            (rec.started => rec'.started) /\ (rec.committed => rec'.committed))
  BY <1>15, GotoFrame DEF RunEffect
<1>16. ASSUME NEW p \in Procs, EffectFails(p) PROVE (rec.period = rec'.period =>
            (rec.started => rec'.started) /\ (rec.committed => rec'.committed))
  BY <1>16, GotoFrame DEF EffectFails
<1>17. ASSUME NEW p \in Procs, Commit(p) PROVE (rec.period = rec'.period =>
            (rec.started => rec'.started) /\ (rec.committed => rec'.committed))
  <2>1. (rec.started => rec'.started) /\ (rec.committed => rec'.committed)
    BY <1>17, OwnsBoth, RecordUpdates DEF Commit
  <2> QED BY <2>1
<1>18. ASSUME NEW p \in Procs, CommitFails(p) PROVE (rec.period = rec'.period =>
            (rec.started => rec'.started) /\ (rec.committed => rec'.committed))
  <2>1. (rec.started => rec'.started) /\ (rec.committed => rec'.committed)
    BY <1>18, OwnsBoth, RecordUpdates DEF CommitFails
  <2> QED BY <2>1
<1>19. ASSUME NEW p \in Procs, PulseFails(p) PROVE (rec.period = rec'.period =>
            (rec.started => rec'.started) /\ (rec.committed => rec'.committed))
  BY <1>19, GotoFrame DEF PulseFails
<1>20. ASSUME NEW p \in Procs, Again(p) PROVE (rec.period = rec'.period =>
            (rec.started => rec'.started) /\ (rec.committed => rec'.committed))
  BY <1>20, GotoFrame DEF Again
<1>21. ASSUME NEW p \in Procs, StartClose(p) PROVE (rec.period = rec'.period =>
            (rec.started => rec'.started) /\ (rec.committed => rec'.committed))
  BY <1>21, GotoFrame DEF StartClose
<1>22. ASSUME NEW p \in Procs, Close(p) PROVE (rec.period = rec'.period =>
            (rec.started => rec'.started) /\ (rec.committed => rec'.committed))
  <2>1. (rec.started => rec'.started) /\ (rec.committed => rec'.committed)
    BY <1>22, FoundRecord, RecordUpdates DEF Close, Closable
  <2> QED BY <2>1
<1>23. ASSUME NEW p \in Procs, CloseFails(p) PROVE (rec.period = rec'.period =>
            (rec.started => rec'.started) /\ (rec.committed => rec'.committed))
  BY <1>23, EndFrame DEF CloseFails
<1>24. ASSUME NEW p \in Procs, Drop(p) PROVE (rec.period = rec'.period =>
            (rec.started => rec'.started) /\ (rec.committed => rec'.committed))
  BY <1>24, EndFrame DEF Drop
<1>25. ASSUME NEW p \in Procs, Crash(p) PROVE (rec.period = rec'.period =>
            (rec.started => rec'.started) /\ (rec.committed => rec'.committed))
  BY <1>25, StepFrame DEF Crash
<1>26. ASSUME NEW p \in Procs, Spawn(p) PROVE (rec.period = rec'.period =>
            (rec.started => rec'.started) /\ (rec.committed => rec'.committed))
  BY <1>26, EndFrame DEF Spawn
<1>27. CASE Expire  BY <1>27 DEF Expire
<1>28. CASE NextPeriod  BY <1>28 DEF NextPeriod
<1>29. CASE Damage
  <2>1. rec.period # 0 /\ rec' = Damaged  BY <1>29, FoundRecord DEF Damage, Record, Periods
  <2> QED BY <2>1, NoFiles
<1>30. CASE UNCHANGED vars  BY <1>30 DEF vars
<1> QED
  BY <1>1, <1>2, <1>3, <1>4, <1>5, <1>6, <1>7, <1>8, <1>9, <1>10, <1>11, <1>12, <1>13, <1>14,
     <1>15, <1>16, <1>17, <1>18, <1>19, <1>20, <1>21, <1>22, <1>23, <1>24, <1>25, <1>26, <1>27,
     <1>28, <1>29, <1>30
  DEF Next, Begin, Pulse, Done

\* Every write but the save requires a running record.
LEMMA TerminalStep ==
    ASSUME TypeOK, Own, [Next]_vars
    PROVE  (rec.status \in {"succeeded", "failed"} /\ rec'.run = rec.run => rec' = rec)
<1> USE DEF files
<1>1. ASSUME NEW p \in Procs, Start(p) PROVE (rec.status \in {"succeeded", "failed"} /\ rec'.run
   = rec.run => rec' = rec)
  BY <1>1, StartMoves DEF Start, Others, Quit
<1>2. ASSUME NEW p \in Procs, Gate(p) PROVE (rec.status \in {"succeeded", "failed"} /\ rec'.run
   = rec.run => rec' = rec)
  BY <1>2, GateMoves DEF Gate, Others, Quit
<1>3. ASSUME NEW p \in Procs, Publish(p) PROVE (rec.status \in {"succeeded", "failed"} /\
   rec'.run = rec.run => rec' = rec)
  BY <1>3, GotoFrame DEF Publish
<1>4. ASSUME NEW p \in Procs, Reap(p) PROVE (rec.status \in {"succeeded", "failed"} /\ rec'.run
   = rec.run => rec' = rec)
  BY <1>4, ReapMoves DEF Reap, Others, Quit
<1>5. ASSUME NEW p \in Procs, Break(p) PROVE (rec.status \in {"succeeded", "failed"} /\ rec'.run
   = rec.run => rec' = rec)
  BY <1>5, RetryFrame DEF Break
<1>6. ASSUME NEW p \in Procs, Recheck(p) PROVE (rec.status \in {"succeeded", "failed"} /\
   rec'.run = rec.run => rec' = rec)
  BY <1>6, GotoFrame DEF Recheck
<1>7. ASSUME NEW p \in Procs, Save(p) PROVE (rec.status \in {"succeeded", "failed"} /\ rec'.run
   = rec.run => rec' = rec)
  <2>1. rec'.run # rec.run  BY <1>7 DEF Save, Own, Claiming
  <2> QED BY <2>1
<1>8. ASSUME NEW p \in Procs, SaveFails(p) PROVE (rec.status \in {"succeeded", "failed"} /\
   rec'.run = rec.run => rec' = rec)
  BY <1>8, GotoFrame DEF SaveFails
<1>9. ASSUME NEW p \in Procs, Release(p) PROVE (rec.status \in {"succeeded", "failed"} /\
   rec'.run = rec.run => rec' = rec)
  BY <1>9, EndFrame DEF Release
<1>10. ASSUME NEW p \in Procs, Open(p) PROVE (rec.status \in {"succeeded", "failed"} /\ rec'.run
   = rec.run => rec' = rec)
  BY <1>10, OpenMoves DEF Open, Others, Quit
<1>11. ASSUME NEW p \in Procs, Fence(p) PROVE (rec.status \in {"succeeded", "failed"} /\
   rec'.run = rec.run => rec' = rec)
  BY <1>11, FenceMoves DEF Fence, Others, Quit
<1>12. ASSUME NEW p \in Procs, Beat(p) PROVE (rec.status \in {"succeeded", "failed"} /\ rec'.run
   = rec.run => rec' = rec)
  BY <1>12 DEF Beat
<1>13. ASSUME NEW p \in Procs, Enter(p) PROVE (rec.status \in {"succeeded", "failed"} /\
   rec'.run = rec.run => rec' = rec)
  BY <1>13, GotoFrame, OwnsBoth DEF Enter, MayStart
<1>14. ASSUME NEW p \in Procs, EnterFails(p) PROVE (rec.status \in {"succeeded", "failed"} /\
   rec'.run = rec.run => rec' = rec)
  BY <1>14, GotoFrame, OwnsBoth DEF EnterFails, MayStart
<1>15. ASSUME NEW p \in Procs, RunEffect(p) PROVE (rec.status \in {"succeeded", "failed"} /\
   rec'.run = rec.run => rec' = rec)
  BY <1>15, GotoFrame DEF RunEffect
<1>16. ASSUME NEW p \in Procs, EffectFails(p) PROVE (rec.status \in {"succeeded", "failed"} /\
   rec'.run = rec.run => rec' = rec)
  BY <1>16, GotoFrame DEF EffectFails
<1>17. ASSUME NEW p \in Procs, Commit(p) PROVE (rec.status \in {"succeeded", "failed"} /\
   rec'.run = rec.run => rec' = rec)
  BY <1>17, GotoFrame, OwnsBoth DEF Commit
<1>18. ASSUME NEW p \in Procs, CommitFails(p) PROVE (rec.status \in {"succeeded", "failed"} /\
   rec'.run = rec.run => rec' = rec)
  BY <1>18, GotoFrame, OwnsBoth DEF CommitFails
<1>19. ASSUME NEW p \in Procs, PulseFails(p) PROVE (rec.status \in {"succeeded", "failed"} /\
   rec'.run = rec.run => rec' = rec)
  BY <1>19, GotoFrame DEF PulseFails
<1>20. ASSUME NEW p \in Procs, Again(p) PROVE (rec.status \in {"succeeded", "failed"} /\
   rec'.run = rec.run => rec' = rec)
  BY <1>20, GotoFrame DEF Again
<1>21. ASSUME NEW p \in Procs, StartClose(p) PROVE (rec.status \in {"succeeded", "failed"} /\
   rec'.run = rec.run => rec' = rec)
  BY <1>21, GotoFrame DEF StartClose
<1>22. ASSUME NEW p \in Procs, Close(p) PROVE (rec.status \in {"succeeded", "failed"} /\
   rec'.run = rec.run => rec' = rec)
  BY <1>22, GotoFrame, EndFrame DEF Close, Closable
<1>23. ASSUME NEW p \in Procs, CloseFails(p) PROVE (rec.status \in {"succeeded", "failed"} /\
   rec'.run = rec.run => rec' = rec)
  BY <1>23, EndFrame DEF CloseFails
<1>24. ASSUME NEW p \in Procs, Drop(p) PROVE (rec.status \in {"succeeded", "failed"} /\ rec'.run
   = rec.run => rec' = rec)
  BY <1>24, EndFrame DEF Drop
<1>25. ASSUME NEW p \in Procs, Crash(p) PROVE (rec.status \in {"succeeded", "failed"} /\
   rec'.run = rec.run => rec' = rec)
  BY <1>25, StepFrame DEF Crash
<1>26. ASSUME NEW p \in Procs, Spawn(p) PROVE (rec.status \in {"succeeded", "failed"} /\
   rec'.run = rec.run => rec' = rec)
  BY <1>26, EndFrame DEF Spawn
<1>27. CASE Expire  BY <1>27 DEF Expire
<1>28. CASE NextPeriod  BY <1>28 DEF NextPeriod
<1>29. CASE Damage
  <2>1. rec.run # NoRun /\ rec' = Damaged  BY <1>29, FoundRecord, LoopAssumption DEF Damage,
     Record
  <2> QED BY <2>1, NoFiles
<1>30. CASE UNCHANGED vars  BY <1>30 DEF vars
<1> QED
  BY <1>1, <1>2, <1>3, <1>4, <1>5, <1>6, <1>7, <1>8, <1>9, <1>10, <1>11, <1>12, <1>13, <1>14,
     <1>15, <1>16, <1>17, <1>18, <1>19, <1>20, <1>21, <1>22, <1>23, <1>24, <1>25, <1>26, <1>27,
     <1>28, <1>29, <1>30
  DEF Next, Begin, Pulse, Done

-----------------------------------------------------------------------------
(* Theorems. *)

LEMMA TypeStep == ASSUME TypeOK, Named, [Next]_vars PROVE TypeOK'
<1>1. CASE UNCHANGED vars  BY <1>1 DEF vars, TypeOK
<1> QED BY <1>1, BeginType, PulseType, DoneType, EnvironmentType DEF Next

LEMMA InitHolds == Init => IInv
<1> SUFFICES ASSUME Init PROVE IInv
  OBVIOUS
<1> USE LoopAssumption, NoFiles, ForgottenType, ForgottenFields DEF Init
<1>1. TypeOK
  <2>1. 1 \in Periods /\ effects \in [Periods -> 0 .. 2]  BY DEF Periods
  <2> QED BY <2>1 DEF TypeOK
<1>2. Named /\ GuardIsHeld /\ Own  BY DEF Named, GuardIsHeld, Guarded, Own, Claiming
<1>3. Holding /\ Clean /\ Blank /\ InEffect  BY DEF Holding, Clean, Blank, InEffect
<1>4. Clocks  BY DEF Clocks, BeginSteps
<1>5. Evidence /\ AtMostOncePerPeriod  BY DEF Evidence, AtMostOncePerPeriod
<1> QED BY <1>1, <1>2, <1>3, <1>4, <1>5 DEF IInv

\* Every record, lease, guard, journal and local the code can produce has its
\* type, whatever crashes, fails, expires or is damaged, and however slow.
THEOREM TypeCorrect == Spec => []TypeOK
<1>1. Init => TypeOK /\ Named  BY InitHolds DEF IInv
<1>2. TypeOK /\ Named /\ [Next]_vars => (TypeOK /\ Named)'  BY TypeStep, NamedStep
<1> QED BY <1>1, <1>2, PTL DEF Spec

\* A closed run stays as it was closed, however slow begins are: doneLoop and the
\* checkpoints refuse a terminal record and Begin saves under an id of its own.
THEOREM ClosedStaysClosed == Spec => TerminalStays
<1>1. Init => TypeOK /\ Named /\ Own  BY InitHolds DEF IInv
<1>2. TypeOK /\ Named /\ Own /\ [Next]_vars => (TypeOK /\ Named /\ Own)'
  BY TypeStep, NamedStep, OwnStep
<1>3. TypeOK /\ Named /\ Own /\ [Next]_vars
        => [rec.status \in {"succeeded", "failed"} /\ rec'.run = rec.run => rec' = rec]_vars
  BY TerminalStep
<1> QED BY <1>1, <1>2, <1>3, PTL DEF Spec, TerminalStays

LEMMA Inductive == ASSUME Slow = {} PROVE IInv /\ [Next]_vars => IInv'
<1> SUFFICES ASSUME IInv, [Next]_vars PROVE IInv'
  OBVIOUS
<1> USE DEF IInv
<1>1. TypeOK' /\ Named' /\ GuardIsHeld' /\ Own'  BY TypeStep, NamedStep, GuardStep, OwnStep
<1>2. Holding' /\ Clocks'  BY HoldingStep, ClocksStep
<1>3. Evidence' /\ Clean' /\ Blank'  BY EvidenceStep, CleanStep, BlankStep
<1>4. InEffect' /\ AtMostOncePerPeriod'  BY InEffectStep, OnceStep
<1> QED BY <1>1, <1>2, <1>3, <1>4

LEMMA Invariant == ASSUME Slow = {} PROVE Spec => []IInv
<1>1. IInv /\ [Next]_vars => IInv'  BY Inductive
<1> QED BY <1>1, InitHolds, PTL DEF Spec

\* No begin outlives its lease or its period before it saves: then no period's
\* effect happens twice, whatever else crashes, fails, expires or is damaged.
THEOREM EffectAtMostOnce == ASSUME Slow = {} PROVE Spec => []AtMostOncePerPeriod
<1>1. IInv => AtMostOncePerPeriod  BY DEF IInv
<1> QED BY <1>1, Invariant, PTL

\* Under the same condition nobody reaps, supersedes or closes a run inside
\* WithRunEffectAt.
THEOREM EffectStaysCurrent == ASSUME Slow = {} PROVE Spec => []EffectIsCurrent
<1>1. IInv => EffectIsCurrent  BY DEF IInv, InEffect, EffectIsCurrent
<1> QED BY <1>1, Invariant, PTL

\* And no later write of latest.json forgets that its period's effect started.
THEOREM EvidenceStays == ASSUME Slow = {} PROVE Spec => EvidenceKept
<1>1. IInv /\ [Next]_vars
        => [/\ rec.period = rec'.period
            => /\ rec.started => rec'.started
               /\ rec.committed => rec'.committed]_vars
  BY KeptStep DEF IInv
<1> QED BY <1>1, Invariant, PTL DEF Spec, EvidenceKept

=============================================================================
