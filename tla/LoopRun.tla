------------------------------ MODULE LoopRun ------------------------------
(***************************************************************************)
(* The runs of one loop: `mora loop begin`, `mora pulse --advance`,        *)
(* `mora loop done` and the scheduled job that does all three.             *)
(*                                                                         *)
(* A run is authorized once per period.  It is represented by a lease file *)
(* (.lock: run id and acquired_at), by the run record (latest.json) and by *)
(* the OS lock, the guard, under which every lease transition, heartbeat,  *)
(* effect and close happens.  Begin's write of the run record is the one   *)
(* write that happens without the guard.                                   *)
(*                                                                         *)
(* A process is one invocation of the sequence begin, pulse, done, or of a *)
(* bare `loop done` without a run id.  A run id is minted anew; an id that *)
(* no file and no process mentions any more serves as a new one.  A        *)
(* lease's age is one bit: it is fresh, or it is older than the TTL.       *)
(***************************************************************************)
EXTENDS Naturals

CONSTANTS
    Procs,      \* processes
    Nobody,     \* no process
    Runs,       \* run ids
    NoRun,      \* no run id
    MaxPeriods, \* bound on the periods that pass
    MaxFaults,  \* bound on crashes, failed calls and damaged records
    Slow        \* what a begin may outlive: its "lease", its "period"

ASSUME LoopAssumption ==
    /\ Nobody \notin Procs
    /\ NoRun \notin Runs
    /\ MaxPeriods \in Nat \ {0}
    /\ MaxFaults \in Nat
    /\ Slow \subseteq {"lease", "period"}

VARIABLES
    period,   \* the period the clock is in
    rec,      \* latest.json
    lease,    \* .lock
    guard,    \* who holds the OS lock beside .lock
    journal,  \* the terminal lines of the record's run
    effects,  \* how often each period's effect was performed
    pc,       \* what each process is doing
    me,       \* the period, run ids and stale lease each has in hand
    faults

vars == <<period, rec, lease, guard, journal, effects, pc, me, faults>>
files == <<rec, lease, guard, journal>>

Periods == 1 .. MaxPeriods
RunIds == Runs \cup {NoRun}

Record == [run: Runs, period: Periods, started: BOOLEAN, committed: BOOLEAN,
           status: {"running", "succeeded", "failed"}]
NoRecord == [run |-> NoRun, period |-> 0, started |-> FALSE, committed |-> FALSE,
             status |-> "absent"]
\* latest.json exists and is unreadable, damaged or of another version.
Damaged == [NoRecord EXCEPT !.status = "damaged"]

Lease == [owner: Runs, fresh: BOOLEAN]
NoLease == [owner |-> NoRun, fresh |-> FALSE]

\* at: the period of the clock reading it uses; mine: the run id its begin
\* minted; run: the one its pulse and its done pass; seen: the owner of the
\* stale lease its reaper read.
Locals == [at: Periods, mine: RunIds, run: RunIds, seen: RunIds]
Forgotten == [at |-> 1, mine |-> NoRun, run |-> NoRun, seen |-> NoRun]

BeginSteps == {"gate", "publish", "reap", "break", "recheck", "save"}
RunSteps == {"release", "open", "fence", "effect", "fn", "commit", "ok", "fail", "drop"}

TypeOK ==
    /\ period \in Periods
    /\ rec \in Record \cup {NoRecord, Damaged}
    /\ lease \in Lease \cup {NoLease}
    /\ guard \in Procs \cup {Nobody}
    /\ journal \subseteq {"succeeded", "failed"}
    /\ effects \in [Periods -> 0 .. 2]
    /\ pc \in [Procs -> {"idle", "dead"} \cup BeginSteps \cup RunSteps]
    /\ me \in [Procs -> Locals]
    /\ faults \in 0 .. MaxFaults

Step(p, step, locals) == /\ pc' = [pc EXCEPT ![p] = step]
                         /\ me' = [me EXCEPT ![p] = locals]

Goto(p, step) == Step(p, step, me[p])
End(p) == Step(p, "idle", Forgotten)

Fault == faults < MaxFaults /\ faults' = faults + 1

\* LoadRunRecord finds a record it can trust.
Found == rec \notin {NoRecord, Damaged}

-----------------------------------------------------------------------------
(* Begin: the gate, the lease, the gate again, the record. *)

Start(p) ==
    /\ pc[p] = "idle"
    /\ Step(p, "gate", [me[p] EXCEPT !.at = period])
    /\ UNCHANGED <<period, files, effects, faults>>

Uncertain == rec.started /\ ~rec.committed
Final == rec.status = "succeeded" \/ rec.committed

\* The two gates differ in one case: only the second, under the lease, stops at
\* an uncertain effect of a run that still says running.
Passes(p, uncertain) ==
    /\ rec # Damaged
    /\ rec.period = me[p].at => ~uncertain /\ ~Final

\* Mutant: the second gate is the first one again.
SecondGateLax(p) == Passes(p, Uncertain /\ rec.status # "running")

FirstGate(p) == Passes(p, Uncertain /\ rec.status # "running")
SecondGate(p) == Passes(p, Uncertain)

\* NewRunID.
Unmentioned == {r \in Runs : /\ r \notin {rec.run, lease.owner}
                             /\ \A p \in Procs : r \notin {me[p].mine, me[p].run, me[p].seen}}
NewRun == CHOOSE r \in Unmentioned : TRUE

Gate(p) ==
    /\ pc[p] = "gate"
    /\ IF FirstGate(p)
       THEN /\ Unmentioned # {}
            /\ Step(p, "publish", [me[p] EXCEPT !.mine = NewRun])
       ELSE End(p)
    /\ UNCHANGED <<period, files, effects, faults>>

\* PublishGuarded: os.Link succeeds only where no lease is.
Publish(p) ==
    /\ pc[p] = "publish"
    /\ guard = Nobody
    /\ IF lease = NoLease
       THEN lease' = [owner |-> me[p].mine, fresh |-> TRUE] /\ Goto(p, "recheck")
       ELSE lease' = lease /\ Goto(p, "reap")
    /\ UNCHANGED <<period, rec, guard, journal, effects, faults>>

\* Four attempts, with a backoff after a lease that stays; then "already running".
RetryOrGiveUp(p) == Goto(p, "publish") \/ End(p)

\* Mutant: an old lease is no older than any other.
ReapNever(p) ==
    /\ pc[p] = "reap"
    /\ RetryOrGiveUp(p)
    /\ UNCHANGED <<period, files, effects, faults>>

\* Reap reads the lease before it takes the guard.
Reap(p) ==
    /\ pc[p] = "reap"
    /\ IF lease # NoLease /\ ~lease.fresh
       THEN Step(p, "break", [me[p] EXCEPT !.seen = lease.owner])
       ELSE RetryOrGiveUp(p)
    /\ UNCHANGED <<period, files, effects, faults>>

\* Mutant: the comparison and the removal do not wait for the guard.
BreakUnguarded(p) ==
    /\ pc[p] = "break"
    /\ lease' = IF lease = [owner |-> me[p].seen, fresh |-> FALSE] THEN NoLease ELSE lease
    /\ RetryOrGiveUp(p)
    /\ UNCHANGED <<period, rec, guard, journal, effects, faults>>

\* Break removes the lease only if it is still the one that was read.
Break(p) ==
    /\ pc[p] = "break"
    /\ guard = Nobody
    /\ lease' = IF lease = [owner |-> me[p].seen, fresh |-> FALSE] THEN NoLease ELSE lease
    /\ RetryOrGiveUp(p)
    /\ UNCHANGED <<period, rec, guard, journal, effects, faults>>

\* Mutant: the record is not loaded again under the lease.
RecheckSkipped(p) ==
    /\ pc[p] = "recheck"
    /\ Goto(p, "save")
    /\ UNCHANGED <<period, files, effects, faults>>

\* Re-load under the lease; an abandoned run gets its synthetic failed line.
Recheck(p) ==
    /\ pc[p] = "recheck"
    /\ IF SecondGate(p)
       THEN /\ journal' = IF rec.period = me[p].at /\ rec.status = "running"
                          THEN journal \cup {"failed"}
                          ELSE journal
            /\ Goto(p, "save")
       ELSE journal' = journal /\ Goto(p, "release")
    /\ UNCHANGED <<period, rec, lease, guard, effects, faults>>

\* saveRunRecord: a plain rename, without the guard.
Save(p) ==
    /\ pc[p] = "save"
    /\ rec' = [run |-> me[p].mine, period |-> me[p].at, started |-> FALSE,
               committed |-> FALSE, status |-> "running"]
    /\ journal' = {}
    /\ Goto(p, "open")
    /\ UNCHANGED <<period, lease, guard, effects, faults>>

SaveFails(p) ==
    /\ pc[p] = "save"
    /\ Fault
    /\ Goto(p, "release")
    /\ UNCHANGED <<period, files, effects>>

\* The releaser breaks its own bytes; its error is dropped.
Release(p) ==
    /\ pc[p] = "release"
    /\ guard = Nobody
    /\ \/ /\ lease' = IF lease.owner = me[p].mine THEN NoLease ELSE lease
          /\ faults' = faults
       \/ lease' = lease /\ Fault
    /\ End(p)
    /\ UNCHANGED <<period, rec, guard, journal, effects>>

-----------------------------------------------------------------------------
(* The run: heartbeats and the effect. *)

\* The skill passes the run id begin printed; the scheduled job passes the one
\* it reads back from the record, which must say running.
Open(p) ==
    /\ pc[p] = "open"
    /\ \/ Step(p, "fence", [me[p] EXCEPT !.run = me[p].mine])
       \/ rec.status = "running" /\ Step(p, "fence", [me[p] EXCEPT !.run = rec.run])
       \/ rec.status # "running" /\ End(p)
    /\ UNCHANGED <<period, files, effects, faults>>

\* heartbeatLoopRunGuarded: current, running, and the lease is this run's.
Owns(p) == /\ Found
           /\ rec.run = me[p].run
           /\ rec.status = "running"
           /\ lease.owner = me[p].run

Refreshed == [owner |-> lease.owner, fresh |-> TRUE]

\* cmdPulse reads the clock and sends its first heartbeat.
Fence(p) ==
    /\ pc[p] = "fence"
    /\ guard = Nobody
    /\ lease' = IF Owns(p) THEN Refreshed ELSE lease
    /\ Step(p, IF Owns(p) THEN "effect" ELSE "fail", [me[p] EXCEPT !.at = period])
    /\ UNCHANGED <<period, rec, guard, journal, effects, faults>>

\* The ticker, while the pulse runs and the guard is free.
Beat(p) ==
    /\ pc[p] \in {"effect", "ok"}
    /\ guard = Nobody
    /\ Owns(p)
    /\ lease' = Refreshed
    /\ UNCHANGED <<period, rec, guard, journal, effects, pc, me, faults>>

\* What WithRunEffectAt requires of the record before the effect may start.
MayStart(p) == Owns(p) /\ rec.period = me[p].at /\ ~rec.committed /\ ~rec.started

\* WithRunEffectAt, to the durable intent: the guard is kept.
Enter(p) ==
    /\ pc[p] = "effect"
    /\ guard = Nobody
    /\ IF MayStart(p)
       THEN /\ rec' = [rec EXCEPT !.started = TRUE]
            /\ lease' = Refreshed
            /\ guard' = p
            /\ Goto(p, "fn")
       ELSE /\ lease' = IF Owns(p) THEN Refreshed ELSE lease
            /\ UNCHANGED <<rec, guard>>
            /\ Goto(p, "fail")
    /\ UNCHANGED <<period, journal, effects, faults>>

\* The heartbeat could not be written, or the intent could not, or it was and
\* the lease behind it could not.
EnterFails(p) ==
    /\ pc[p] = "effect"
    /\ guard = Nobody
    /\ MayStart(p)
    /\ Fault
    /\ \/ UNCHANGED <<rec, lease>>
       \/ /\ lease' = Refreshed
          /\ rec' \in {rec, [rec EXCEPT !.started = TRUE]}
    /\ Goto(p, "fail")
    /\ UNCHANGED <<period, guard, journal, effects>>

Performed(p) == [effects EXCEPT ![me[p].at] = IF @ < 2 THEN @ + 1 ELSE @]

\* The effect itself: advanceBrief writes the artifact and the watermark.
RunEffect(p) ==
    /\ pc[p] = "fn"
    /\ effects' = Performed(p)
    /\ Goto(p, "commit")
    /\ UNCHANGED <<period, files, faults>>

\* It failed, before or after it did something.
EffectFails(p) ==
    /\ pc[p] = "fn"
    /\ Fault
    /\ effects' \in {effects, Performed(p)}
    /\ guard' = Nobody
    /\ Goto(p, "fail")
    /\ UNCHANGED <<period, rec, lease, journal>>

\* The durable checkpoint, and the end of the guard.
Commit(p) ==
    /\ pc[p] = "commit"
    /\ IF Owns(p) /\ rec.started
       THEN /\ rec' = [rec EXCEPT !.committed = TRUE]
            /\ lease' = Refreshed
            /\ Goto(p, "ok")
       ELSE UNCHANGED <<rec, lease>> /\ Goto(p, "fail")
    /\ guard' = Nobody
    /\ UNCHANGED <<period, journal, effects, faults>>

CommitFails(p) ==
    /\ pc[p] = "commit"
    /\ Owns(p) /\ rec.started
    /\ Fault
    /\ rec' \in {rec, [rec EXCEPT !.committed = TRUE]}
    /\ guard' = Nobody
    /\ Goto(p, "fail")
    /\ UNCHANGED <<period, lease, journal, effects>>

\* Something else of the pulse fails: a heartbeat's write, the tasks, the files.
PulseFails(p) ==
    /\ pc[p] \in {"fence", "effect", "ok"}
    /\ Fault
    /\ Goto(p, "fail")
    /\ UNCHANGED <<period, files, effects>>

\* An agent runs the same pulse again with the same run id.
Again(p) ==
    /\ pc[p] \in {"ok", "fail"}
    /\ me[p].run # NoRun
    /\ Goto(p, "fence")
    /\ UNCHANGED <<period, files, effects, faults>>

-----------------------------------------------------------------------------
(* Done: the terminal record, the journal line, the end of the lease. *)

\* `mora loop done` without a run id closes whatever run is current.
StartClose(p) ==
    /\ pc[p] = "idle"
    /\ Goto(p, "ok") \/ Goto(p, "fail")
    /\ UNCHANGED <<period, files, effects, faults>>

\* Mutant: a run that is closed already can be closed again.
ClosableTwice(p) ==
    /\ Found
    /\ me[p].run \in {NoRun, rec.run}
    /\ pc[p] = "ok" => ~Uncertain
    /\ IF lease = NoLease THEN me[p].run = NoRun ELSE lease.owner = rec.run

Closable(p) ==
    /\ Found
    /\ me[p].run \in {NoRun, rec.run}
    /\ rec.status = "running"
    /\ pc[p] = "ok" => ~Uncertain
    /\ IF lease = NoLease THEN me[p].run = NoRun ELSE lease.owner = rec.run

\* The record, then its line, if that does not fail.
Close(p) ==
    /\ pc[p] \in {"ok", "fail"}
    /\ guard = Nobody
    /\ IF Closable(p)
       THEN LET status == IF pc[p] = "ok" THEN "succeeded" ELSE "failed"
            IN /\ rec' = [rec EXCEPT !.status = status]
               /\ \/ /\ journal' = journal \cup {status}
                     /\ faults' = faults
                  \/ journal' = journal /\ Fault
               /\ guard' = p
               /\ Goto(p, "drop")
       ELSE UNCHANGED <<rec, journal, guard, faults>> /\ End(p)
    /\ UNCHANGED <<period, lease, effects>>

CloseFails(p) ==
    /\ pc[p] \in {"ok", "fail"}
    /\ guard = Nobody
    /\ Closable(p)
    /\ Fault
    /\ End(p)
    /\ UNCHANGED <<period, files, effects>>

\* removeLeaseFileGuarded, and the end of the guard whether it fails or not.
Drop(p) ==
    /\ pc[p] = "drop"
    /\ \/ lease' = NoLease /\ faults' = faults
       \/ lease' = lease /\ Fault
    /\ guard' = Nobody
    /\ End(p)
    /\ UNCHANGED <<period, rec, journal, effects>>

-----------------------------------------------------------------------------
(* Time, and what happens to processes and files. *)

\* acquired_at is older than the TTL.  Without "lease" in Slow a live begin
\* reaches its save first.
Expire ==
    /\ lease # NoLease /\ lease.fresh
    /\ \A p \in Procs : pc[p] \in {"recheck", "save"} /\ me[p].mine = lease.owner
                           => "lease" \in Slow
    /\ lease' = [owner |-> lease.owner, fresh |-> FALSE]
    /\ UNCHANGED <<period, rec, guard, journal, effects, pc, me, faults>>

\* Without "period" in Slow a live begin saves before its period ends.
NextPeriod ==
    /\ period < MaxPeriods
    /\ \A p \in Procs : pc[p] \in BeginSteps => "period" \in Slow
    /\ period' = period + 1
    /\ UNCHANGED <<files, effects, pc, me, faults>>

\* The OS frees the guard of a process that dies; the files stay.
Crash(p) ==
    /\ pc[p] \notin {"idle", "dead"}
    /\ Fault
    /\ Step(p, "dead", Forgotten)
    /\ guard' = IF guard = p THEN Nobody ELSE guard
    /\ UNCHANGED <<period, rec, lease, journal, effects>>

Spawn(p) ==
    /\ pc[p] = "dead"
    /\ End(p)
    /\ UNCHANGED <<period, files, effects, faults>>

\* latest.json is damaged from outside, or written by another version.
Damage ==
    /\ Found
    /\ Fault
    /\ rec' = Damaged
    /\ UNCHANGED <<period, lease, guard, journal, effects, pc, me>>

-----------------------------------------------------------------------------

Init ==
    /\ period = 1
    /\ rec = NoRecord /\ lease = NoLease /\ guard = Nobody
    /\ journal = {}
    /\ effects = [d \in Periods |-> 0]
    /\ pc = [p \in Procs |-> "idle"]
    /\ me = [p \in Procs |-> Forgotten]
    /\ faults = 0

Begin(p) == \/ Start(p) \/ Gate(p) \/ Publish(p) \/ Reap(p) \/ Break(p)
            \/ Recheck(p) \/ Save(p) \/ SaveFails(p) \/ Release(p)

Pulse(p) == \/ Open(p) \/ Fence(p) \/ Beat(p) \/ Enter(p) \/ EnterFails(p)
            \/ RunEffect(p) \/ EffectFails(p) \/ Commit(p) \/ CommitFails(p)
            \/ PulseFails(p) \/ Again(p)

Done(p) == StartClose(p) \/ Close(p) \/ CloseFails(p) \/ Drop(p)

Next == \/ \E p \in Procs : Begin(p) \/ Pulse(p) \/ Done(p) \/ Crash(p) \/ Spawn(p)
        \/ Expire \/ NextPeriod \/ Damage

Spec == Init /\ [][Next]_vars

-----------------------------------------------------------------------------
(* Properties. *)

\* The gates, the lease and the durable intent together: however runs are
\* retried, reaped, crashed or closed, no period's effect happens twice.
AtMostOncePerPeriod == \A d \in Periods : effects[d] <= 1

\* Once a period's record says its effect started or committed, no later write
\* of latest.json for that period forgets it.
EvidenceKept ==
    [][/\ rec.period = rec'.period
       => /\ rec.started => rec'.started
          /\ rec.committed => rec'.committed]_vars

\* While a process is inside its effect the record and the lease are its run's:
\* nobody has reaped, superseded or closed it.
EffectIsCurrent ==
    \A p \in Procs : pc[p] \in {"fn", "commit"} /\ rec # Damaged =>
        /\ rec.run = me[p].run /\ rec.status = "running" /\ lease.owner = me[p].run
        /\ rec.period = me[p].at

\* A closed run stays closed as it was closed: no late heartbeat, checkpoint or
\* close of the same run changes the terminal record.
TerminalStays ==
    [][rec.status \in {"succeeded", "failed"} /\ rec'.run = rec.run => rec' = rec]_vars

\* The journal never says of one run that it was abandoned and that it succeeded.
JournalHonest == journal # {"succeeded", "failed"}

\* Fairness: the scheduler and the person trigger the loop again and again, a
\* running process keeps running and gets the guard in the end, and time passes.
Fairness ==
    /\ \A p \in Procs : /\ SF_vars(Begin(p) \/ Pulse(p) \/ Drop(p) \/ Spawn(p))
                        /\ SF_vars(Close(p))
    /\ WF_vars(Expire)

FairSpec == Spec /\ Fairness

Leaked == lease # NoLease /\ \A p \in Procs : lease.owner \notin {me[p].mine, me[p].run}

\* A crash leaves the lease behind and nobody cleans up for the dead: once no
\* process uses the run any more its lease goes, or the loop picks the run up,
\* or the period needs no lease (it is final, uncertain, or its record damaged).
LeakedLeaseGoes ==
    Leaked ~> \/ ~Leaked
              \/ rec = Damaged
              \/ rec.period = period /\ (Final \/ Uncertain)

=============================================================================
