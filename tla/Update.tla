------------------------------- MODULE Update -------------------------------
(***************************************************************************)
(* How a Mora.app bundle is replaced: the leased unattended apply           *)
(* (update/unattended.go, started by runUpdateCheck) and `mora upgrade`     *)
(* (appupdate.Run), which takes no lease.  Both stage a release beside the  *)
(* installed bundle, exchange the two directories in one rename, check what *)
(* is now installed and, when a check fails, exchange them again.           *)
(*                                                                         *)
(* A bundle is its version.  Verification compares the version installed    *)
(* with the one expected, and may fail for reasons of its own (a fault).    *)
(***************************************************************************)
EXTENDS Naturals, FiniteSets

CONSTANTS
  Scheduled,   \* processes that run `upgrade --scheduled-check`
  Manual,      \* processes that run `mora upgrade`
  Last,        \* releases are 1 .. Last; 0 is installed at first
  Bad,         \* releases that verify and launch but fail strict health
  Overlap,     \* may a manual upgrade and another one be in progress together?
  MaxFaults    \* bound: crashes and failed steps

ASSUME UpdateAssumption ==
  /\ Scheduled \cap Manual = {}
  /\ "free" \notin Scheduled
  /\ Last \in Nat \ {0}
  /\ Bad \subseteq 1 .. Last
  /\ Overlap \in BOOLEAN
  /\ MaxFaults \in Nat

VARIABLES
  app,      \* the bundle at the application's path
  index,    \* the version whose schema the index has
  latest,   \* the newest published release
  lease,    \* update.lock: its holder, or Free
  receipt,  \* status.json: what it says of the last apply
  pc,       \* the step a process is at
  mem,      \* what a process holds: base, plan, its receipt, preserveStage
  stage,    \* the bundle in a process's staging directory, if there is one
  kept,     \* bundles in staging directories nobody will remove
  accepted, \* history: versions that passed an installer's last check
  faults

vars == <<app, index, latest, lease, receipt, pc, mem, stage, kept, accepted, faults>>

Procs == Scheduled \cup Manual
Versions == 0 .. Last
Free == "free"

Outcomes == {"", "in_progress", "deferred", "failed_before_swap", "updated",
             "rolled_back", "rollback_failed"}
Rebuilds == {"", "not_run", "not_needed", "succeeded", "failed"}
Codes == {"", "unwritable", "other"}

\* Receipt: the fields of an apply.
Receipts == [version : Versions, outcome : Outcomes, code : Codes, rebuild : Rebuilds]
NoApply == [version |-> 0, outcome |-> "", code |-> "", rebuild |-> ""]

Steps == {"idle", "lease", "check", "begin", "prepare", "fence", "swap", "verify",
          "rebuild", "health", "back", "restored", "repair", "save", "clean",
          "release", "mPrepare", "mSwap", "mVerify", "mBack", "mRebuild"}

\* base: the running binary; plan: the release to install; rec: the receipt
\* loaded; keep: preserveStage; found: history, what was installed when the
\* apply began.
Mem == [base : Versions, plan : Versions, rec : Receipts, keep : BOOLEAN, found : Versions]

Blank == [base |-> 0, plan |-> 0, rec |-> NoApply, keep |-> FALSE, found |-> 0]

TypeOK ==
  /\ app \in Versions /\ index \in Versions /\ latest \in Versions
  /\ lease \in Scheduled \cup {Free}
  /\ receipt \in Receipts
  /\ pc \in [Procs -> Steps]
  /\ mem \in [Procs -> Mem]
  /\ stage \in [Procs -> SUBSET Versions]
  /\ kept \subseteq Versions
  /\ accepted \subseteq Versions
  /\ faults \in 0 .. MaxFaults

Init ==
  /\ app = 0 /\ index = 0 /\ latest = 0
  /\ lease = Free
  /\ receipt = NoApply
  /\ pc = [p \in Procs |-> "idle"]
  /\ mem = [p \in Procs |-> Blank]
  /\ stage = [p \in Procs |-> {}]
  /\ kept = {} /\ accepted = {0}
  /\ faults = 0

-----------------------------------------------------------------------------
Busy(p) == pc[p] # "idle"
Goto(p, step) == pc' = [pc EXCEPT ![p] = step]
End(p) == Goto(p, "idle") /\ mem' = [mem EXCEPT ![p] = Blank]
Fault == faults < MaxFaults /\ faults' = faults + 1
NoFault == UNCHANGED faults

\* What is on disk, and what only the process knows.
Disk == <<app, index, receipt, stage, kept, accepted>>
World == <<latest, lease>>

\* The receipt in memory gets an outcome; the next step saves it.
Conclude(p, outcome, code, rebuild, keep) ==
  /\ mem' = [mem EXCEPT ![p].rec.outcome = outcome, ![p].rec.code = code,
                        ![p].rec.rebuild = rebuild, ![p].keep = keep]
  /\ Goto(p, "save")

\* deferApply and failBeforeSwap.
Defer(p, code) == Conclude(p, "deferred", code, "not_run", FALSE)
FailBeforeSwap(p) == Conclude(p, "failed_before_swap", "other", "not_run", FALSE)

\* rollback as it is entered: a rebuild that was not reached was not run.
RollBack(p, rebuild) ==
  /\ mem' = [mem EXCEPT ![p].rec.rebuild = rebuild]
  /\ Goto(p, "back")

\* AtomicSwap: the installed and the staged bundle change places.
Exchange(p) ==
  /\ app' \in stage[p]
  /\ stage' = [stage EXCEPT ![p] = {app}]

-----------------------------------------------------------------------------
(* A scheduled check and its unattended apply.                             *)

\* The version of the running binary is the one installed when it starts.
Start(p) ==
  /\ pc[p] = "idle"
  /\ Overlap \/ \A q \in Procs : Busy(q) => {p, q} \subseteq Scheduled
  /\ mem' = [mem EXCEPT ![p].base = app]
  /\ Goto(p, IF p \in Scheduled THEN "lease" ELSE "mPrepare")
  /\ NoFault /\ UNCHANGED <<Disk, World>>

\* A lease whose holder has died is reaped once it is two hours old.
\* MUTANT: a leaked lease is never reaped.
AcquireFree(p) ==
  /\ pc[p] = "lease"
  /\ lease = Free
  /\ lease' = p
  /\ Goto(p, "check")
  /\ NoFault /\ UNCHANGED <<Disk, mem, latest>>
Acquire(p) ==
  /\ pc[p] = "lease"
  /\ lease # Free => pc[lease] \in {"idle", "lease"}
  /\ lease' = p
  /\ Goto(p, "check")
  /\ NoFault /\ UNCHANGED <<Disk, mem, latest>>

\* A live lease, or one not yet old enough: the check ends.
Refused(p) ==
  /\ pc[p] = "lease"
  /\ lease # Free
  /\ End(p)
  /\ NoFault /\ UNCHANGED <<Disk, World>>

\* A version this host could not write is not tried again.
Unwritable(v) ==
  receipt.version = v /\ receipt.outcome = "deferred" /\ receipt.code = "unwritable"

Check(p) ==
  /\ pc[p] = "check"
  /\ mem' = [mem EXCEPT ![p].plan = latest, ![p].rec = receipt]
  /\ Goto(p, IF latest > mem[p].base /\ ~Unwritable(latest) THEN "begin" ELSE "release")
  /\ NoFault /\ UNCHANGED <<Disk, World>>

\* The listing or a save of the receipt fails.
CheckFails(p) ==
  /\ pc[p] \in {"check", "begin"}
  /\ Goto(p, "release")
  /\ Fault /\ UNCHANGED <<Disk, World, mem>>

\* MUTANT: the attempt replaces the version and not the outcome.
BeginKeepsOutcome(p) ==
  /\ pc[p] = "begin"
  /\ LET rec == [mem[p].rec EXCEPT !.version = mem[p].plan]
     IN  /\ receipt' = rec
         /\ mem' = [mem EXCEPT ![p].rec = rec, ![p].found = app]
  /\ Goto(p, "prepare")
  /\ NoFault /\ UNCHANGED <<app, index, stage, kept, accepted, World>>
\* startApplyAttempt and its save, before anything is staged.
Begin(p) ==
  /\ pc[p] = "begin"
  /\ LET rec == [version |-> mem[p].plan, outcome |-> "in_progress",
                 code |-> "", rebuild |-> ""]
     IN  /\ receipt' = rec
         /\ mem' = [mem EXCEPT ![p].rec = rec, ![p].found = app]
  /\ Goto(p, "prepare")
  /\ NoFault /\ UNCHANGED <<app, index, stage, kept, accepted, World>>

\* Verify what is installed, health, the parent's permissions, the release
\* planned; then download, extract and verify it into a staging directory.
Prepare(p) ==
  /\ pc[p] = "prepare"
  /\ NoFault
  /\ UNCHANGED <<app, index, receipt, kept, accepted, World>>
  /\ \/ /\ app = mem[p].base /\ app \notin Bad /\ latest = mem[p].plan
        /\ stage' = [stage EXCEPT ![p] = {latest}]
        /\ Goto(p, "fence") /\ UNCHANGED mem
     \/ /\ app # mem[p].base
        /\ FailBeforeSwap(p) /\ UNCHANGED stage
     \/ /\ app = mem[p].base /\ app \in Bad
        /\ Defer(p, "other") /\ UNCHANGED stage
     \/ /\ app = mem[p].base /\ app \notin Bad /\ latest # mem[p].plan
        /\ FailBeforeSwap(p) /\ UNCHANGED stage

PrepareFails(p) ==
  /\ pc[p] = "prepare"
  /\ \/ FailBeforeSwap(p)
     \/ \E code \in {"unwritable", "other"} : Defer(p, code)
  /\ Fault /\ UNCHANGED <<Disk, World>>

\* The fence: verify and health again, directly before the swap.
Fence(p) ==
  /\ pc[p] = "fence"
  /\ IF app = mem[p].base THEN Goto(p, "swap") /\ UNCHANGED mem ELSE FailBeforeSwap(p)
  /\ NoFault /\ UNCHANGED <<Disk, World>>

FenceFails(p) ==
  /\ pc[p] = "fence"
  /\ FailBeforeSwap(p) \/ Defer(p, "other")
  /\ Fault /\ UNCHANGED <<Disk, World>>

Swap(p) ==
  /\ pc[p] = "swap"
  /\ Exchange(p)
  /\ Goto(p, "verify")
  /\ NoFault /\ UNCHANGED <<index, receipt, kept, accepted, World, mem>>

SwapFails(p) ==
  /\ pc[p] = "swap"
  /\ FailBeforeSwap(p)
  /\ Fault /\ UNCHANGED <<Disk, World>>

\* The bundle installed must verify and launch at the expected version.
Verify(p) ==
  /\ pc[p] = "verify"
  /\ IF app = mem[p].plan THEN Goto(p, "rebuild") /\ UNCHANGED mem
                          ELSE RollBack(p, "not_run")
  /\ NoFault /\ UNCHANGED <<Disk, World>>

VerifyFails(p) ==
  /\ pc[p] = "verify"
  /\ RollBack(p, "not_run")
  /\ Fault /\ UNCHANGED <<Disk, World>>

\* The binary now installed rebuilds an index of another schema; it may fail
\* before or after it committed.
Rebuild(p) ==
  /\ pc[p] = "rebuild"
  /\ index' = app
  /\ mem' = [mem EXCEPT ![p].rec.rebuild = IF index = app THEN "not_needed" ELSE "succeeded"]
  /\ Goto(p, "health")
  /\ NoFault /\ UNCHANGED <<app, receipt, stage, kept, accepted, World>>

RebuildFails(p) ==
  /\ pc[p] = "rebuild"
  /\ index' \in {index, app}
  /\ RollBack(p, "failed")
  /\ Fault /\ UNCHANGED <<app, receipt, stage, kept, accepted, World>>

\* PostHealth is asked of the binary that is installed; the success follows.
Health(p) ==
  /\ pc[p] = "health"
  /\ IF app \in Bad
       THEN RollBack(p, mem[p].rec.rebuild) /\ UNCHANGED accepted
       ELSE /\ Conclude(p, "updated", "", mem[p].rec.rebuild, FALSE)
            /\ accepted' = accepted \cup {app}
  /\ NoFault /\ UNCHANGED <<app, index, receipt, stage, kept, World>>

HealthFails(p) ==
  /\ pc[p] = "health"
  /\ RollBack(p, mem[p].rec.rebuild)
  /\ Fault /\ UNCHANGED <<Disk, World>>

Back(p) ==
  /\ pc[p] = "back"
  /\ Exchange(p)
  /\ Goto(p, "restored")
  /\ NoFault /\ UNCHANGED <<index, receipt, kept, accepted, World, mem>>

\* The recovery bundle is preserved whenever the rollback is in doubt.
RollbackFails(p) == Conclude(p, "rollback_failed", "other", mem[p].rec.rebuild, TRUE)

BackFails(p) ==
  /\ pc[p] \in {"back", "restored", "repair"}
  /\ RollbackFails(p)
  /\ Fault /\ UNCHANGED <<Disk, World>>

\* MUTANT: the old app keeps the index that the new one rebuilt.
RestoredOnly(p) ==
  /\ pc[p] = "restored"
  /\ IF app # mem[p].base THEN RollbackFails(p)
     ELSE Conclude(p, "rolled_back", "other", mem[p].rec.rebuild, FALSE)
  /\ NoFault /\ UNCHANGED <<Disk, World>>
\* The bundle put back must verify; a rebuilt index is repaired with it.
Restored(p) ==
  /\ pc[p] = "restored"
  /\ IF app # mem[p].base THEN RollbackFails(p)
     ELSE IF mem[p].rec.rebuild = "succeeded" THEN Goto(p, "repair") /\ UNCHANGED mem
     ELSE Conclude(p, "rolled_back", "other", mem[p].rec.rebuild, FALSE)
  /\ NoFault /\ UNCHANGED <<Disk, World>>

Repair(p) ==
  /\ pc[p] = "repair"
  /\ index' = app
  /\ Conclude(p, "rolled_back", "other", mem[p].rec.rebuild, FALSE)
  /\ NoFault /\ UNCHANGED <<app, receipt, stage, kept, accepted, World>>

Save(p) ==
  /\ pc[p] = "save"
  /\ receipt' = mem[p].rec
  /\ Goto(p, "clean")
  /\ NoFault /\ UNCHANGED <<app, index, stage, kept, accepted, World, mem>>

\* MUTANT: a success that cannot be recorded is rolled back.
SaveFailsRollsBack(p) ==
  /\ pc[p] = "save"
  /\ Goto(p, IF mem[p].rec.outcome = "updated" THEN "back" ELSE "clean")
  /\ Fault /\ UNCHANGED <<Disk, World, mem>>
SaveFails(p) ==
  /\ pc[p] = "save"
  /\ Goto(p, "clean")
  /\ Fault /\ UNCHANGED <<Disk, World, mem>>

\* MUTANT: the staging directory is removed whatever failed.
CleanAlways(p) ==
  /\ pc[p] = "clean"
  /\ stage' = [stage EXCEPT ![p] = {}]
  /\ IF p \in Scheduled THEN Goto(p, "release") /\ UNCHANGED mem ELSE End(p)
  /\ NoFault /\ UNCHANGED <<app, index, receipt, kept, accepted, World>>
\* The deferred removal of the staging directory.
Clean(p) ==
  /\ pc[p] = "clean"
  /\ stage' = [stage EXCEPT ![p] = {}]
  /\ kept' = IF mem[p].keep THEN kept \cup stage[p] ELSE kept
  /\ IF p \in Scheduled THEN Goto(p, "release") /\ UNCHANGED mem ELSE End(p)
  /\ NoFault /\ UNCHANGED <<app, index, receipt, accepted, World>>

\* The releaser removes the lease if its body is still its own.
Release(p) ==
  /\ pc[p] = "release"
  /\ lease' = IF lease = p THEN Free ELSE lease
  /\ End(p)
  /\ NoFault /\ UNCHANGED <<Disk, latest>>

-----------------------------------------------------------------------------
(* `mora upgrade` on a bundle.                                             *)

\* Verify what is installed, find a newer release, stage and verify it.
ManualPrepare(p) ==
  /\ pc[p] = "mPrepare"
  /\ IF app = mem[p].base /\ latest > app
       THEN /\ mem' = [mem EXCEPT ![p].plan = latest]
            /\ stage' = [stage EXCEPT ![p] = {latest}]
            /\ Goto(p, "mSwap")
       ELSE End(p) /\ UNCHANGED stage
  /\ NoFault /\ UNCHANGED <<app, index, receipt, kept, accepted, World>>

ManualSwap(p) ==
  /\ pc[p] = "mSwap"
  /\ Exchange(p)
  /\ Goto(p, "mVerify")
  /\ NoFault /\ UNCHANGED <<index, receipt, kept, accepted, World, mem>>

ManualVerify(p) ==
  /\ pc[p] = "mVerify"
  /\ IF app = mem[p].plan
       THEN accepted' = accepted \cup {app} /\ Goto(p, "mRebuild")
       ELSE UNCHANGED accepted /\ Goto(p, "mBack")
  /\ NoFault /\ UNCHANGED <<app, index, receipt, stage, kept, World, mem>>

\* replaceMoraAppBundle puts the old bundle back and does not verify it.
ManualBack(p) ==
  /\ pc[p] = "mBack"
  /\ Exchange(p)
  /\ Goto(p, "clean")
  /\ NoFault /\ UNCHANGED <<index, receipt, kept, accepted, World, mem>>

\* moraAppRollbackFailure: the staging directory stays.
ManualBackFails(p) ==
  /\ pc[p] = "mBack"
  /\ mem' = [mem EXCEPT ![p].keep = TRUE]
  /\ Goto(p, "clean")
  /\ Fault /\ UNCHANGED <<Disk, World>>

\* A rebuild that fails is a warning.
ManualRebuild(p) ==
  /\ pc[p] = "mRebuild"
  /\ index' = app
  /\ Goto(p, "clean")
  /\ NoFault /\ UNCHANGED <<app, receipt, stage, kept, accepted, World, mem>>

ManualFails(p) ==
  /\ \/ pc[p] = "mPrepare" /\ End(p)
     \/ pc[p] \in {"mSwap", "mRebuild"} /\ Goto(p, "clean") /\ UNCHANGED mem
     \/ pc[p] = "mVerify" /\ Goto(p, "mBack") /\ UNCHANGED mem
  /\ Fault /\ UNCHANGED <<Disk, World>>

-----------------------------------------------------------------------------
(* The environment.                                                        *)

\* SIGKILL: a staging directory with a bundle in it stays for good.
Crash(p) ==
  /\ Busy(p)
  /\ End(p)
  /\ kept' = kept \cup stage[p]
  /\ stage' = [stage EXCEPT ![p] = {}]
  /\ Fault /\ UNCHANGED <<app, index, receipt, accepted, World>>

Publish ==
  /\ latest < Last
  /\ latest' = latest + 1
  /\ UNCHANGED <<Disk, lease, pc, mem, faults>>

\* Any read by the installed binary rebuilds an index of another schema.
Open ==
  /\ index # app
  /\ index' = app
  /\ UNCHANGED <<app, receipt, stage, kept, accepted, World, pc, mem, faults>>

Apply(p) ==
  \/ Acquire(p) \/ Refused(p) \/ Check(p) \/ Begin(p) \/ Prepare(p) \/ Fence(p)
  \/ Swap(p) \/ Verify(p) \/ Rebuild(p) \/ Health(p) \/ Back(p) \/ Restored(p)
  \/ Repair(p) \/ Save(p) \/ Clean(p) \/ Release(p)

ApplyFails(p) ==
  \/ CheckFails(p) \/ PrepareFails(p) \/ FenceFails(p) \/ SwapFails(p) \/ VerifyFails(p)
  \/ RebuildFails(p) \/ HealthFails(p) \/ BackFails(p) \/ SaveFails(p)

Upgrade(p) ==
  \/ ManualPrepare(p) \/ ManualSwap(p) \/ ManualVerify(p) \/ ManualBack(p)
  \/ ManualRebuild(p)

Next ==
  \/ \E p \in Procs : Start(p) \/ Apply(p) \/ ApplyFails(p) \/ Crash(p)
  \/ \E p \in Manual : Upgrade(p) \/ ManualBackFails(p) \/ ManualFails(p)
  \/ Publish \/ Open

\* What runs keeps running, releases come, and one schedule keeps firing.
Fairness ==
  /\ \A p \in Procs : WF_vars(Apply(p) \/ Upgrade(p))
  /\ \A p \in Scheduled : SF_vars(Start(p)) /\ SF_vars(Acquire(p))
  /\ WF_vars(Publish)

Spec == Init /\ [][Next]_vars /\ Fairness

-----------------------------------------------------------------------------
(* Properties.                                                             *)

\* Whatever fails or dies, a bundle some installer's last check accepted is
\* installed or still on disk, in a staging directory (rollback in
\* unattended.go, the deferred removal in appupdate.Run).
AcceptedIsOnDisk ==
  \/ app \in accepted
  \/ accepted \cap (kept \cup UNION {stage[p] : p \in Procs}) # {}

\* A receipt claims an update only for a version that was installed when it
\* passed strict health, not for an apply that crashed or failed after the
\* swap (Apply saves in_progress before it stages anything).
SuccessIsProved == receipt.outcome = "updated" => receipt.version \in accepted \ Bad

\* What a receipt says of a failure is so when it is saved: deferred, failed
\* before the swap and rolled back all mean that what was installed when the
\* apply began is installed now, and an index that the new binary rebuilt
\* fits it again (deferApply, failBeforeSwap, rollback).
FailureIsTrue ==
  [][\A p \in Scheduled :
       Save(p) /\ receipt'.outcome \in {"deferred", "failed_before_swap", "rolled_back"}
         => /\ app = mem[p].found
            /\ receipt'.rebuild = "succeeded" => index = app]_vars

\* No rollback takes away a version that an installer has accepted, its own
\* or another's.
AcceptedIsNotUndone == [][(app \in accepted) => app' >= app]_vars

\* The last release is installed in the end, whatever crashed on the way, unless
\* the host could not write it, or a crash (or a manual upgrade, which asks for
\* no health) left a release that fails strict health installed for good.
LatestArrives == <>(app = Last \/ Unwritable(Last)) \/ <>[](app \in Bad)
=============================================================================
