---------------------------- MODULE UpdateProofs ----------------------------
(***************************************************************************)
(* Theorems about Update, for any processes, releases, bad releases and    *)
(* faults.  Types and the truth of a success hold however upgrades         *)
(* overlap; the rest rests on Excluded, and so on ~ Overlap.               *)
(***************************************************************************)
EXTENDS Update, TLAPS

-----------------------------------------------------------------------------
(* Types. *)

ScheduledSteps == Steps \ {"mPrepare", "mSwap", "mVerify", "mBack", "mRebuild"}
ManualSteps == {"idle", "mPrepare", "mSwap", "mVerify", "mBack", "mRebuild", "clean"}

\* A process is at a step of its own kind of upgrade.
Typed ==
  /\ TypeOK
  /\ \A p \in Scheduled : pc[p] \in ScheduledSteps
  /\ \A p \in Manual : pc[p] \in ManualSteps

LEMMA GotoType ==
  ASSUME Typed, NEW p \in Procs, NEW s \in Steps, Goto(p, s),
         p \in Scheduled => s \in ScheduledSteps,
         p \in Manual => s \in ManualSteps
  PROVE  /\ pc' \in [Procs -> Steps]
         /\ \A q \in Scheduled : pc'[q] \in ScheduledSteps
         /\ \A q \in Manual : pc'[q] \in ManualSteps
  BY DEF Typed, TypeOK, Goto, Procs

LEMMA MemType ==
  ASSUME Typed, NEW p \in Procs
  PROVE  /\ mem[p] \in Mem /\ mem[p].rec \in Receipts
         /\ Blank \in Mem
         /\ \A v \in Versions : [mem EXCEPT ![p].base = v] \in [Procs -> Mem]
         /\ \A v \in Versions : [mem EXCEPT ![p].plan = v] \in [Procs -> Mem]
         /\ [mem EXCEPT ![p].keep = TRUE] \in [Procs -> Mem]
         /\ \A r \in Rebuilds : [mem EXCEPT ![p].rec.rebuild = r] \in [Procs -> Mem]
         /\ \A v \in Versions, rec \in Receipts :
               /\ [mem EXCEPT ![p].plan = v, ![p].rec = rec] \in [Procs -> Mem]
               /\ [mem EXCEPT ![p].rec = rec, ![p].found = v] \in [Procs -> Mem]
<1>1. /\ mem[p] \in Mem /\ mem[p].rec \in Receipts
      /\ Blank \in Mem
  <2>1. mem[p] \in Mem
    BY DEF Typed, TypeOK
  <2>2. 0 \in Versions
    BY UpdateAssumption DEF Versions
  <2>3. NoApply \in Receipts
    BY <2>2 DEF NoApply, Receipts, Outcomes, Codes, Rebuilds
  <2> QED
    BY <2>1, <2>2, <2>3 DEF Mem, Blank
<1>2. /\ \A v \in Versions : [mem[p] EXCEPT !.base = v] \in Mem
      /\ \A v \in Versions : [mem[p] EXCEPT !.plan = v] \in Mem
      /\ [mem[p] EXCEPT !.keep = TRUE] \in Mem
  BY <1>1 DEF Mem
<1>3. \A r \in Rebuilds : [mem[p].rec EXCEPT !.rebuild = r] \in Receipts
  BY <1>1 DEF Receipts
<1>4. \A rec \in Receipts : [mem[p] EXCEPT !.rec = rec] \in Mem
  BY <1>1 DEF Mem
<1>5. \A v \in Versions, rec \in Receipts :
        /\ [mem[p] EXCEPT !.plan = v, !.rec = rec] \in Mem
        /\ [mem[p] EXCEPT !.rec = rec, !.found = v] \in Mem
  BY <1>1 DEF Mem
<1> QED
  BY <1>1, <1>2, <1>3, <1>4, <1>5 DEF Typed, TypeOK

LEMMA ConcludeType ==
  ASSUME Typed, NEW p \in Scheduled, NEW outcome \in Outcomes, NEW code \in Codes,
         NEW rebuild \in Rebuilds, NEW keep \in BOOLEAN,
         Conclude(p, outcome, code, rebuild, keep)
  PROVE  /\ mem' \in [Procs -> Mem]
         /\ pc' \in [Procs -> Steps]
         /\ \A q \in Scheduled : pc'[q] \in ScheduledSteps
         /\ \A q \in Manual : pc'[q] \in ManualSteps
<1>1. p \in Procs /\ mem[p] \in Mem /\ mem[p].rec \in Receipts
  BY MemType DEF Procs
<1>2. [version |-> mem[p].rec.version, outcome |-> outcome, code |-> code,
       rebuild |-> rebuild] \in Receipts
  BY <1>1 DEF Receipts
<1>3. mem'[p] = [base |-> mem[p].base, plan |-> mem[p].plan,
                 rec |-> [version |-> mem[p].rec.version, outcome |-> outcome,
                          code |-> code, rebuild |-> rebuild],
                 keep |-> keep, found |-> mem[p].found]
  BY <1>1 DEF Conclude, Mem, Receipts, Typed, TypeOK
<1>4. mem' \in [Procs -> Mem]
  <2>1. mem'[p] \in Mem
    BY <1>1, <1>2, <1>3 DEF Mem
  <2> QED
    BY <1>1, <2>1 DEF Conclude, Typed, TypeOK
<1>5. Goto(p, "save")
  BY DEF Conclude
<1> QED
  BY <1>1, <1>4, <1>5, GotoType, UpdateAssumption DEF Steps, ScheduledSteps

LEMMA EndType ==
  ASSUME Typed, NEW p \in Procs, End(p)
  PROVE  /\ mem' \in [Procs -> Mem]
         /\ pc' \in [Procs -> Steps]
         /\ \A q \in Scheduled : pc'[q] \in ScheduledSteps
         /\ \A q \in Manual : pc'[q] \in ManualSteps
<1>1. Blank \in Mem
  BY MemType
<1>2. mem' \in [Procs -> Mem]
  BY <1>1 DEF End, Typed, TypeOK
<1> QED
  BY <1>2, GotoType DEF End, Steps, ScheduledSteps, ManualSteps

LEMMA FaultType ==
  ASSUME Typed, Fault \/ NoFault
  PROVE  faults' \in 0 .. MaxFaults
  BY UpdateAssumption DEF Typed, TypeOK, Fault, NoFault

LEMMA ExchangeType ==
  ASSUME Typed, NEW p \in Procs, Exchange(p)
  PROVE  app' \in Versions /\ stage' \in [Procs -> SUBSET Versions]
  BY DEF Exchange, Typed, TypeOK

LEMMA RollBackType ==
  ASSUME Typed, NEW p \in Scheduled, NEW r \in Rebuilds, RollBack(p, r)
  PROVE  /\ mem' \in [Procs -> Mem]
         /\ pc' \in [Procs -> Steps]
         /\ \A q \in Scheduled : pc'[q] \in ScheduledSteps
         /\ \A q \in Manual : pc'[q] \in ManualSteps
<1>1. p \in Procs
  BY DEF Procs
<1>2. Goto(p, "back")
  BY DEF RollBack
<1>3. p \notin Manual
  BY UpdateAssumption
<1>4. mem' \in [Procs -> Mem]
  BY <1>1, MemType DEF RollBack
<1> QED
  BY <1>1, <1>2, <1>3, <1>4, GotoType DEF Steps, ScheduledSteps

\* Only a scheduled process is at a step of the apply, but for the clean-up.
LEMMA WhoApplies ==
  ASSUME Typed, NEW p \in Procs, pc[p] \notin {"idle", "clean"}, pc[p] \in ScheduledSteps
  PROVE  p \in Scheduled /\ p \notin Manual
  BY UpdateAssumption DEF Typed, Procs, ManualSteps, ScheduledSteps

\* The values a step writes.
LEMMA Values ==
  /\ {"", "in_progress", "deferred", "failed_before_swap", "updated", "rolled_back",
      "rollback_failed"} \subseteq Outcomes
  /\ {"", "unwritable", "other"} \subseteq Codes
  /\ {"", "not_run", "not_needed", "succeeded", "failed"} \subseteq Rebuilds
  BY DEF Outcomes, Codes, Rebuilds

LEMMA TypedStep ==
  ASSUME Typed, Fault \/ NoFault,
         app' \in Versions, index' \in Versions, latest' \in Versions,
         lease' \in Scheduled \cup {Free}, receipt' \in Receipts,
         mem' \in [Procs -> Mem], stage' \in [Procs -> SUBSET Versions],
         kept' \subseteq Versions, accepted' \subseteq Versions,
         pc' \in [Procs -> Steps],
         \A q \in Scheduled : pc'[q] \in ScheduledSteps,
         \A q \in Manual : pc'[q] \in ManualSteps
  PROVE  Typed'
  BY FaultType DEF Typed, TypeOK

\* A step that changes what one process does and holds, and little else.
LEMMA TypedMove ==
  ASSUME Typed, Fault \/ NoFault, NEW p \in Procs, NEW s \in Steps, Goto(p, s),
         p \in Scheduled => s \in ScheduledSteps,
         p \in Manual => s \in ManualSteps,
         app' \in Versions, index' \in Versions, latest' = latest,
         lease' \in Scheduled \cup {Free}, receipt' \in Receipts,
         mem' \in [Procs -> Mem], stage' \in [Procs -> SUBSET Versions],
         kept' \subseteq Versions, accepted' \subseteq Versions
  PROVE  Typed'
<1>1. latest' \in Versions
  BY DEF Typed, TypeOK
<1> QED
  BY <1>1, GotoType, TypedStep

\* Nothing but what a process does and holds changes.
LEMMA TypedStay ==
  ASSUME Typed, Fault \/ NoFault, UNCHANGED <<Disk, World>>,
         mem' \in [Procs -> Mem],
         pc' \in [Procs -> Steps],
         \A q \in Scheduled : pc'[q] \in ScheduledSteps,
         \A q \in Manual : pc'[q] \in ManualSteps
  PROVE  Typed'
<1>1. /\ app' \in Versions /\ index' \in Versions /\ latest' \in Versions
      /\ lease' \in Scheduled \cup {Free} /\ receipt' \in Receipts
      /\ stage' \in [Procs -> SUBSET Versions]
      /\ kept' \subseteq Versions /\ accepted' \subseteq Versions
  BY DEF Disk, World, Typed, TypeOK
<1> QED
  BY <1>1, TypedStep

LEMMA ScheduledTyped ==
  ASSUME Typed, NEW p \in Procs, Start(p) \/ Apply(p) \/ ApplyFails(p) \/ Crash(p)
  PROVE  Typed'
<1>1. CASE Start(p)
  <2>1. mem' \in [Procs -> Mem]
    BY <1>1, MemType DEF Start, Typed, TypeOK
  <2>2. /\ pc' \in [Procs -> Steps]
        /\ \A q \in Scheduled : pc'[q] \in ScheduledSteps
        /\ \A q \in Manual : pc'[q] \in ManualSteps
    BY <1>1, <2>1, GotoType, UpdateAssumption DEF Start, Procs, Steps, ScheduledSteps, ManualSteps
  <2> QED
    BY <1>1, <2>1, <2>2, TypedStay DEF Start
<1>2. CASE Acquire(p)
  <2>1. p \in Scheduled /\ p \notin Manual
    BY <1>2, WhoApplies DEF Acquire, ScheduledSteps, Steps
  <2>2. mem' \in [Procs -> Mem]
    BY <1>2, <2>1 DEF Acquire, Typed, TypeOK
  <2>3. /\ app' \in Versions /\ index' \in Versions /\ latest' = latest
        /\ lease' \in Scheduled \cup {Free} /\ receipt' \in Receipts
        /\ stage' \in [Procs -> SUBSET Versions]
        /\ kept' \subseteq Versions /\ accepted' \subseteq Versions
    BY <1>2, <2>1, <2>2 DEF Acquire, Disk, Typed, TypeOK
  <2> QED
    BY <1>2, <2>1, <2>2, <2>3, TypedMove DEF Acquire, Steps, ScheduledSteps, ManualSteps
<1>3. CASE Refused(p)
  <2>1. p \in Scheduled /\ p \notin Manual
    BY <1>3, WhoApplies DEF Refused, ScheduledSteps, Steps
  <2>2. /\ mem' \in [Procs -> Mem]
        /\ pc' \in [Procs -> Steps]
        /\ \A q \in Scheduled : pc'[q] \in ScheduledSteps
        /\ \A q \in Manual : pc'[q] \in ManualSteps
    BY <1>3, <2>1, EndType DEF Refused
  <2> QED
    BY <1>3, <2>1, <2>2, TypedStay DEF Refused
<1>4. CASE Check(p)
  <2>1. p \in Scheduled /\ p \notin Manual
    BY <1>4, WhoApplies DEF Check, ScheduledSteps, Steps
  <2>2. latest \in Versions /\ receipt \in Receipts
    BY <1>4, <2>1 DEF Typed, TypeOK
  <2>3. mem' \in [Procs -> Mem]
    BY <1>4, <2>1, <2>2, MemType DEF Check
  <2>4. /\ pc' \in [Procs -> Steps]
        /\ \A q \in Scheduled : pc'[q] \in ScheduledSteps
        /\ \A q \in Manual : pc'[q] \in ManualSteps
    BY <1>4, <2>1, <2>2, <2>3, GotoType DEF Check, Steps, ScheduledSteps
  <2> QED
    BY <1>4, <2>1, <2>2, <2>3, <2>4, TypedStay DEF Check
<1>5. CASE Begin(p)
  <2>1. p \in Scheduled /\ p \notin Manual
    BY <1>5, WhoApplies DEF Begin, ScheduledSteps, Steps
  <2>2. [version |-> mem[p].plan, outcome |-> "in_progress", code |-> "", rebuild |-> ""] \in Receipts
    BY <1>5, <2>1, MemType, Values DEF Mem, Receipts
  <2>3. app \in Versions
    BY <1>5, <2>1, <2>2 DEF Typed, TypeOK
  <2>4. mem' \in [Procs -> Mem] /\ receipt' \in Receipts
    BY <1>5, <2>1, <2>2, <2>3, MemType DEF Begin
  <2>5. /\ app' \in Versions /\ index' \in Versions /\ latest' = latest
        /\ lease' \in Scheduled \cup {Free} /\ receipt' \in Receipts
        /\ stage' \in [Procs -> SUBSET Versions]
        /\ kept' \subseteq Versions /\ accepted' \subseteq Versions
    BY <1>5, <2>1, <2>2, <2>3, <2>4 DEF Begin, World, Typed, TypeOK
  <2> QED
    BY <1>5, <2>1, <2>2, <2>3, <2>4, <2>5, TypedMove DEF Begin, Steps, ScheduledSteps, ManualSteps
<1>6. CASE Prepare(p)
  <2>1. p \in Scheduled /\ p \notin Manual
    BY <1>6, WhoApplies DEF Prepare, ScheduledSteps, Steps
  <2>2. /\ UNCHANGED <<app, index, receipt, kept, accepted, World>>
        /\ NoFault
        /\ stage' \in [Procs -> SUBSET Versions]
    BY <1>6 DEF Prepare, Typed, TypeOK
  <2>3. CASE Goto(p, "fence") /\ UNCHANGED mem
    <3>1. mem' \in [Procs -> Mem]
      BY <2>3 DEF Typed, TypeOK
    <3>2. /\ app' \in Versions /\ index' \in Versions /\ latest' = latest
          /\ lease' \in Scheduled \cup {Free} /\ receipt' \in Receipts
          /\ stage' \in [Procs -> SUBSET Versions]
          /\ kept' \subseteq Versions /\ accepted' \subseteq Versions
      BY <2>2 DEF World, Typed, TypeOK
    <3> QED
      BY <2>1, <2>2, <2>3, <3>1, <3>2, TypedMove DEF Steps, ScheduledSteps
  <2>4. CASE FailBeforeSwap(p) \/ Defer(p, "other")
    <3>1. /\ mem' \in [Procs -> Mem]
          /\ pc' \in [Procs -> Steps]
          /\ \A q \in Scheduled : pc'[q] \in ScheduledSteps
          /\ \A q \in Manual : pc'[q] \in ManualSteps
      BY <2>1, <2>4, ConcludeType, Values DEF FailBeforeSwap, Defer
    <3>2. /\ app' \in Versions /\ index' \in Versions /\ latest' \in Versions
          /\ lease' \in Scheduled \cup {Free} /\ receipt' \in Receipts
          /\ kept' \subseteq Versions /\ accepted' \subseteq Versions
      BY <2>2 DEF World, Typed, TypeOK
    <3> QED
      BY <2>2, <3>1, <3>2, TypedStep
  <2> QED
    BY <1>6, <2>3, <2>4 DEF Prepare
<1>7. CASE PrepareFails(p)
  <2>1. p \in Scheduled /\ p \notin Manual
    BY <1>7, WhoApplies DEF PrepareFails, ScheduledSteps, Steps
  <2>2. /\ mem' \in [Procs -> Mem]
        /\ pc' \in [Procs -> Steps]
        /\ \A q \in Scheduled : pc'[q] \in ScheduledSteps
        /\ \A q \in Manual : pc'[q] \in ManualSteps
    BY <1>7, <2>1, ConcludeType, Values DEF PrepareFails, Defer, FailBeforeSwap
  <2> QED
    BY <1>7, <2>1, <2>2, TypedStay DEF PrepareFails
<1>8. CASE Fence(p)
  <2>1. p \in Scheduled /\ p \notin Manual
    BY <1>8, WhoApplies DEF Fence, ScheduledSteps, Steps
  <2>2. CASE app = mem[p].base
    BY <1>8, <2>1, <2>2, GotoType, TypedStay DEF Fence, Steps, ScheduledSteps, Typed, TypeOK
  <2>3. CASE ~ (app = mem[p].base)
    BY <1>8, <2>1, <2>3, ConcludeType, Values, TypedStay DEF Fence, FailBeforeSwap
  <2> QED
    BY <2>2, <2>3
<1>9. CASE FenceFails(p)
  <2>1. p \in Scheduled /\ p \notin Manual
    BY <1>9, WhoApplies DEF FenceFails, ScheduledSteps, Steps
  <2>2. /\ mem' \in [Procs -> Mem]
        /\ pc' \in [Procs -> Steps]
        /\ \A q \in Scheduled : pc'[q] \in ScheduledSteps
        /\ \A q \in Manual : pc'[q] \in ManualSteps
    BY <1>9, <2>1, ConcludeType, Values DEF FenceFails, Defer, FailBeforeSwap
  <2> QED
    BY <1>9, <2>1, <2>2, TypedStay DEF FenceFails
<1>10. CASE Swap(p)
  <2>1. p \in Scheduled /\ p \notin Manual
    BY <1>10, WhoApplies DEF Swap, ScheduledSteps, Steps
  <2>2. app' \in Versions /\ stage' \in [Procs -> SUBSET Versions]
    BY <1>10, <2>1, ExchangeType DEF Swap
  <2>3. mem' \in [Procs -> Mem]
    BY <1>10, <2>1, <2>2 DEF Swap, Typed, TypeOK
  <2>4. /\ app' \in Versions /\ index' \in Versions /\ latest' = latest
        /\ lease' \in Scheduled \cup {Free} /\ receipt' \in Receipts
        /\ stage' \in [Procs -> SUBSET Versions]
        /\ kept' \subseteq Versions /\ accepted' \subseteq Versions
    BY <1>10, <2>1, <2>2, <2>3 DEF Swap, World, Typed, TypeOK
  <2> QED
    BY <1>10, <2>1, <2>2, <2>3, <2>4, TypedMove DEF Swap, Steps, ScheduledSteps, ManualSteps
<1>11. CASE SwapFails(p)
  <2>1. p \in Scheduled /\ p \notin Manual
    BY <1>11, WhoApplies DEF SwapFails, ScheduledSteps, Steps
  <2>2. /\ mem' \in [Procs -> Mem]
        /\ pc' \in [Procs -> Steps]
        /\ \A q \in Scheduled : pc'[q] \in ScheduledSteps
        /\ \A q \in Manual : pc'[q] \in ManualSteps
    BY <1>11, <2>1, ConcludeType, Values DEF SwapFails, Defer, FailBeforeSwap
  <2> QED
    BY <1>11, <2>1, <2>2, TypedStay DEF SwapFails
<1>12. CASE Verify(p)
  <2>1. p \in Scheduled /\ p \notin Manual
    BY <1>12, WhoApplies DEF Verify, ScheduledSteps, Steps
  <2>2. CASE app = mem[p].plan
    BY <1>12, <2>1, <2>2, GotoType, TypedStay DEF Verify, Steps, ScheduledSteps, Typed, TypeOK
  <2>3. CASE ~ (app = mem[p].plan)
    BY <1>12, <2>1, <2>3, RollBackType, Values, TypedStay DEF Verify, FailBeforeSwap
  <2> QED
    BY <2>2, <2>3
<1>13. CASE VerifyFails(p)
  <2>1. p \in Scheduled /\ p \notin Manual
    BY <1>13, WhoApplies DEF VerifyFails, ScheduledSteps, Steps
  <2>2. mem[p].rec.rebuild \in Rebuilds
    BY <1>13, <2>1, MemType DEF Receipts
  <2>3. /\ mem' \in [Procs -> Mem]
        /\ pc' \in [Procs -> Steps]
        /\ \A q \in Scheduled : pc'[q] \in ScheduledSteps
        /\ \A q \in Manual : pc'[q] \in ManualSteps
    BY <1>13, <2>1, <2>2, RollBackType, Values DEF VerifyFails
  <2> QED
    BY <1>13, <2>1, <2>2, <2>3, TypedStay DEF VerifyFails
<1>14. CASE Rebuild(p)
  <2>1. p \in Scheduled /\ p \notin Manual
    BY <1>14, WhoApplies DEF Rebuild, ScheduledSteps, Steps
  <2>2. mem' \in [Procs -> Mem]
    BY <1>14, <2>1, MemType, Values DEF Rebuild
  <2>3. /\ app' \in Versions /\ index' \in Versions /\ latest' = latest
        /\ lease' \in Scheduled \cup {Free} /\ receipt' \in Receipts
        /\ stage' \in [Procs -> SUBSET Versions]
        /\ kept' \subseteq Versions /\ accepted' \subseteq Versions
    BY <1>14, <2>1, <2>2 DEF Rebuild, World, Typed, TypeOK
  <2> QED
    BY <1>14, <2>1, <2>2, <2>3, TypedMove DEF Rebuild, Steps, ScheduledSteps, ManualSteps
<1>15. CASE RebuildFails(p)
  <2>1. p \in Scheduled /\ p \notin Manual
    BY <1>15, WhoApplies DEF RebuildFails, ScheduledSteps, Steps
  <2>2. /\ mem' \in [Procs -> Mem]
        /\ pc' \in [Procs -> Steps]
        /\ \A q \in Scheduled : pc'[q] \in ScheduledSteps
        /\ \A q \in Manual : pc'[q] \in ManualSteps
    BY <1>15, <2>1, RollBackType, Values DEF RebuildFails
  <2>3. /\ app' \in Versions /\ index' \in Versions /\ latest' \in Versions
        /\ lease' \in Scheduled \cup {Free} /\ receipt' \in Receipts
        /\ stage' \in [Procs -> SUBSET Versions]
        /\ kept' \subseteq Versions /\ accepted' \subseteq Versions
    BY <1>15, <2>1, <2>2 DEF RebuildFails, World, Typed, TypeOK
  <2> QED
    BY <1>15, <2>1, <2>2, <2>3, TypedStep DEF RebuildFails
<1>16. CASE Health(p)
  <2>1. p \in Scheduled /\ p \notin Manual
    BY <1>16, WhoApplies DEF Health, ScheduledSteps, Steps
  <2>2. mem[p].rec.rebuild \in Rebuilds
    BY <1>16, <2>1, MemType DEF Receipts
  <2>3. /\ mem' \in [Procs -> Mem]
        /\ pc' \in [Procs -> Steps]
        /\ \A q \in Scheduled : pc'[q] \in ScheduledSteps
        /\ \A q \in Manual : pc'[q] \in ManualSteps
    BY <1>16, <2>1, <2>2, RollBackType, ConcludeType, Values DEF Health
  <2>4. /\ app' \in Versions /\ index' \in Versions /\ latest' \in Versions
        /\ lease' \in Scheduled \cup {Free} /\ receipt' \in Receipts
        /\ stage' \in [Procs -> SUBSET Versions]
        /\ kept' \subseteq Versions /\ accepted' \subseteq Versions
    BY <1>16, <2>1, <2>2, <2>3 DEF Health, World, Typed, TypeOK
  <2> QED
    BY <1>16, <2>1, <2>2, <2>3, <2>4, TypedStep DEF Health
<1>17. CASE HealthFails(p)
  <2>1. p \in Scheduled /\ p \notin Manual
    BY <1>17, WhoApplies DEF HealthFails, ScheduledSteps, Steps
  <2>2. mem[p].rec.rebuild \in Rebuilds
    BY <1>17, <2>1, MemType DEF Receipts
  <2>3. /\ mem' \in [Procs -> Mem]
        /\ pc' \in [Procs -> Steps]
        /\ \A q \in Scheduled : pc'[q] \in ScheduledSteps
        /\ \A q \in Manual : pc'[q] \in ManualSteps
    BY <1>17, <2>1, <2>2, RollBackType, Values DEF HealthFails
  <2> QED
    BY <1>17, <2>1, <2>2, <2>3, TypedStay DEF HealthFails
<1>18. CASE Back(p)
  <2>1. p \in Scheduled /\ p \notin Manual
    BY <1>18, WhoApplies DEF Back, ScheduledSteps, Steps
  <2>2. app' \in Versions /\ stage' \in [Procs -> SUBSET Versions]
    BY <1>18, <2>1, ExchangeType DEF Back
  <2>3. mem' \in [Procs -> Mem]
    BY <1>18, <2>1, <2>2 DEF Back, Typed, TypeOK
  <2>4. /\ app' \in Versions /\ index' \in Versions /\ latest' = latest
        /\ lease' \in Scheduled \cup {Free} /\ receipt' \in Receipts
        /\ stage' \in [Procs -> SUBSET Versions]
        /\ kept' \subseteq Versions /\ accepted' \subseteq Versions
    BY <1>18, <2>1, <2>2, <2>3 DEF Back, World, Typed, TypeOK
  <2> QED
    BY <1>18, <2>1, <2>2, <2>3, <2>4, TypedMove DEF Back, Steps, ScheduledSteps, ManualSteps
<1>19. CASE BackFails(p)
  <2>1. p \in Scheduled /\ p \notin Manual
    BY <1>19, WhoApplies DEF BackFails, ScheduledSteps, Steps
  <2>2. mem[p].rec.rebuild \in Rebuilds
    BY <1>19, <2>1, MemType DEF Receipts
  <2>3. /\ mem' \in [Procs -> Mem]
        /\ pc' \in [Procs -> Steps]
        /\ \A q \in Scheduled : pc'[q] \in ScheduledSteps
        /\ \A q \in Manual : pc'[q] \in ManualSteps
    BY <1>19, <2>1, <2>2, ConcludeType, Values DEF BackFails, RollbackFails
  <2> QED
    BY <1>19, <2>1, <2>2, <2>3, TypedStay DEF BackFails
<1>20. CASE Restored(p)
  <2>1. p \in Scheduled /\ p \notin Manual
    BY <1>20, WhoApplies DEF Restored, ScheduledSteps, Steps
  <2>2. mem[p].rec.rebuild \in Rebuilds
    BY MemType DEF Receipts
  <2>3. CASE Goto(p, "repair") /\ UNCHANGED mem
    BY <1>20, <2>1, <2>3, GotoType, TypedStay DEF Restored, Steps, ScheduledSteps, Typed, TypeOK
  <2>4. CASE RollbackFails(p) \/ Conclude(p, "rolled_back", "other", mem[p].rec.rebuild, FALSE)
    <3>1. /\ mem' \in [Procs -> Mem]
          /\ pc' \in [Procs -> Steps]
          /\ \A q \in Scheduled : pc'[q] \in ScheduledSteps
          /\ \A q \in Manual : pc'[q] \in ManualSteps
      BY <2>1, <2>2, <2>4, ConcludeType, Values DEF RollbackFails
    <3> QED
      BY <1>20, <3>1, TypedStay DEF Restored
  <2> QED
    BY <1>20, <2>3, <2>4 DEF Restored
<1>21. CASE Repair(p)
  <2>1. p \in Scheduled /\ p \notin Manual
    BY <1>21, WhoApplies DEF Repair, ScheduledSteps, Steps
  <2>2. mem[p].rec.rebuild \in Rebuilds
    BY <1>21, <2>1, MemType DEF Receipts
  <2>3. /\ mem' \in [Procs -> Mem]
        /\ pc' \in [Procs -> Steps]
        /\ \A q \in Scheduled : pc'[q] \in ScheduledSteps
        /\ \A q \in Manual : pc'[q] \in ManualSteps
    BY <1>21, <2>1, <2>2, ConcludeType, Values DEF Repair
  <2>4. /\ app' \in Versions /\ index' \in Versions /\ latest' \in Versions
        /\ lease' \in Scheduled \cup {Free} /\ receipt' \in Receipts
        /\ stage' \in [Procs -> SUBSET Versions]
        /\ kept' \subseteq Versions /\ accepted' \subseteq Versions
    BY <1>21, <2>1, <2>2, <2>3 DEF Repair, World, Typed, TypeOK
  <2> QED
    BY <1>21, <2>1, <2>2, <2>3, <2>4, TypedStep DEF Repair
<1>22. CASE Save(p)
  <2>1. p \in Scheduled /\ p \notin Manual
    BY <1>22, WhoApplies DEF Save, ScheduledSteps, Steps
  <2>2. mem' \in [Procs -> Mem]
    BY <1>22, <2>1 DEF Save, Typed, TypeOK
  <2>3. receipt' \in Receipts
    BY <1>22, <2>1, <2>2, MemType DEF Save
  <2>4. /\ app' \in Versions /\ index' \in Versions /\ latest' = latest
        /\ lease' \in Scheduled \cup {Free} /\ receipt' \in Receipts
        /\ stage' \in [Procs -> SUBSET Versions]
        /\ kept' \subseteq Versions /\ accepted' \subseteq Versions
    BY <1>22, <2>1, <2>2, <2>3 DEF Save, World, Typed, TypeOK
  <2> QED
    BY <1>22, <2>1, <2>2, <2>3, <2>4, TypedMove DEF Save, Steps, ScheduledSteps, ManualSteps
<1>23. CASE SaveFails(p)
  <2>1. p \in Scheduled /\ p \notin Manual
    BY <1>23, WhoApplies DEF SaveFails, ScheduledSteps, Steps
  <2>2. mem' \in [Procs -> Mem]
    BY <1>23, <2>1 DEF SaveFails, Typed, TypeOK
  <2>3. /\ pc' \in [Procs -> Steps]
        /\ \A q \in Scheduled : pc'[q] \in ScheduledSteps
        /\ \A q \in Manual : pc'[q] \in ManualSteps
    BY <1>23, <2>1, <2>2, GotoType DEF SaveFails, Steps, ScheduledSteps
  <2> QED
    BY <1>23, <2>1, <2>2, <2>3, TypedStay DEF SaveFails
<1>24. CASE Clean(p)
  <2>1. stage' \in [Procs -> SUBSET Versions] /\ kept' \subseteq Versions
    BY <1>24 DEF Clean, Typed, TypeOK
  <2>2. /\ app' \in Versions /\ index' \in Versions /\ latest' \in Versions
        /\ lease' \in Scheduled \cup {Free} /\ receipt' \in Receipts
        /\ stage' \in [Procs -> SUBSET Versions]
        /\ kept' \subseteq Versions /\ accepted' \subseteq Versions
    BY <1>24, <2>1 DEF Clean, World, Typed, TypeOK
  <2>3. /\ mem' \in [Procs -> Mem]
        /\ pc' \in [Procs -> Steps]
        /\ \A q \in Scheduled : pc'[q] \in ScheduledSteps
        /\ \A q \in Manual : pc'[q] \in ManualSteps
    <3>1. CASE p \in Scheduled
      BY <1>24, <3>1, GotoType, UpdateAssumption DEF Clean, Steps, ScheduledSteps, Typed, TypeOK
    <3>2. CASE p \notin Scheduled
      BY <1>24, <3>2, EndType DEF Clean
    <3> QED
      BY <3>1, <3>2
  <2> QED
    BY <1>24, <2>2, <2>3, TypedStep DEF Clean
<1>25. CASE Release(p)
  <2>1. p \in Scheduled /\ p \notin Manual
    BY <1>25, WhoApplies DEF Release, ScheduledSteps, Steps
  <2>2. /\ mem' \in [Procs -> Mem]
        /\ pc' \in [Procs -> Steps]
        /\ \A q \in Scheduled : pc'[q] \in ScheduledSteps
        /\ \A q \in Manual : pc'[q] \in ManualSteps
    BY <1>25, <2>1, EndType DEF Release
  <2>3. /\ app' \in Versions /\ index' \in Versions /\ latest' \in Versions
        /\ lease' \in Scheduled \cup {Free} /\ receipt' \in Receipts
        /\ stage' \in [Procs -> SUBSET Versions]
        /\ kept' \subseteq Versions /\ accepted' \subseteq Versions
    BY <1>25, <2>1, <2>2 DEF Release, Disk, Typed, TypeOK
  <2> QED
    BY <1>25, <2>1, <2>2, <2>3, TypedStep DEF Release
<1>26. CASE CheckFails(p)
  <2>1. p \in Scheduled /\ p \notin Manual
    BY <1>26, WhoApplies DEF CheckFails, ScheduledSteps, Steps
  <2>2. mem' \in [Procs -> Mem]
    BY <1>26, <2>1 DEF CheckFails, Typed, TypeOK
  <2>3. /\ pc' \in [Procs -> Steps]
        /\ \A q \in Scheduled : pc'[q] \in ScheduledSteps
        /\ \A q \in Manual : pc'[q] \in ManualSteps
    BY <1>26, <2>1, <2>2, GotoType DEF CheckFails, Steps, ScheduledSteps
  <2> QED
    BY <1>26, <2>1, <2>2, <2>3, TypedStay DEF CheckFails
<1>27. CASE Crash(p)
  <2>1. /\ mem' \in [Procs -> Mem]
        /\ pc' \in [Procs -> Steps]
        /\ \A q \in Scheduled : pc'[q] \in ScheduledSteps
        /\ \A q \in Manual : pc'[q] \in ManualSteps
    BY <1>27, EndType DEF Crash
  <2>2. /\ app' \in Versions /\ index' \in Versions /\ latest' \in Versions
        /\ lease' \in Scheduled \cup {Free} /\ receipt' \in Receipts
        /\ stage' \in [Procs -> SUBSET Versions]
        /\ kept' \subseteq Versions /\ accepted' \subseteq Versions
    BY <1>27, <2>1 DEF Crash, World, Typed, TypeOK
  <2> QED
    BY <1>27, <2>1, <2>2, TypedStep DEF Crash
<1> QED
  BY <1>1, <1>2, <1>3, <1>4, <1>5, <1>6, <1>7, <1>8, <1>9, <1>10, <1>11, <1>12, <1>13, <1>14, <1>15, <1>16, <1>17, <1>18, <1>19, <1>20, <1>21, <1>22, <1>23, <1>24, <1>25, <1>26, <1>27 DEF Apply, ApplyFails

LEMMA ManualTyped ==
  ASSUME Typed, NEW p \in Manual, Upgrade(p) \/ ManualBackFails(p) \/ ManualFails(p)
  PROVE  Typed'
<1>0. p \in Procs /\ p \notin Scheduled
  BY UpdateAssumption DEF Procs
<1>1. CASE ManualPrepare(p)
  <2>1. stage' \in [Procs -> SUBSET Versions]
    BY <1>1 DEF ManualPrepare, Typed, TypeOK
  <2>2. /\ app' \in Versions /\ index' \in Versions /\ latest' \in Versions
        /\ lease' \in Scheduled \cup {Free} /\ receipt' \in Receipts
        /\ stage' \in [Procs -> SUBSET Versions]
        /\ kept' \subseteq Versions /\ accepted' \subseteq Versions
    BY <1>1, <2>1 DEF ManualPrepare, World, Typed, TypeOK
  <2>3. /\ mem' \in [Procs -> Mem]
        /\ pc' \in [Procs -> Steps]
        /\ \A q \in Scheduled : pc'[q] \in ScheduledSteps
        /\ \A q \in Manual : pc'[q] \in ManualSteps
    <3>1. CASE Goto(p, "mSwap") /\ mem' = [mem EXCEPT ![p].plan = latest]
      BY <1>0, <3>1, MemType, GotoType DEF Steps, ManualSteps, Typed, TypeOK
    <3>2. CASE End(p)
      BY <1>0, <3>2, EndType
    <3> QED
      BY <1>1, <3>1, <3>2 DEF ManualPrepare
  <2> QED
    BY <1>1, <2>2, <2>3, TypedStep DEF ManualPrepare
<1>2. CASE ManualSwap(p)
  <2>1. app' \in Versions /\ stage' \in [Procs -> SUBSET Versions]
    BY <1>2, <1>0, ExchangeType DEF ManualSwap
  <2>2. mem' \in [Procs -> Mem]
    BY <1>2, <1>0, <2>1 DEF ManualSwap, Typed, TypeOK
  <2>3. /\ app' \in Versions /\ index' \in Versions /\ latest' = latest
        /\ lease' \in Scheduled \cup {Free} /\ receipt' \in Receipts
        /\ stage' \in [Procs -> SUBSET Versions]
        /\ kept' \subseteq Versions /\ accepted' \subseteq Versions
    BY <1>2, <1>0, <2>1, <2>2 DEF ManualSwap, World, Typed, TypeOK
  <2> QED
    BY <1>2, <1>0, <2>1, <2>2, <2>3, TypedMove DEF ManualSwap, Steps, ScheduledSteps, ManualSteps
<1>3. CASE ManualBack(p)
  <2>1. app' \in Versions /\ stage' \in [Procs -> SUBSET Versions]
    BY <1>3, <1>0, ExchangeType DEF ManualBack
  <2>2. mem' \in [Procs -> Mem]
    BY <1>3, <1>0, <2>1 DEF ManualBack, Typed, TypeOK
  <2>3. /\ app' \in Versions /\ index' \in Versions /\ latest' = latest
        /\ lease' \in Scheduled \cup {Free} /\ receipt' \in Receipts
        /\ stage' \in [Procs -> SUBSET Versions]
        /\ kept' \subseteq Versions /\ accepted' \subseteq Versions
    BY <1>3, <1>0, <2>1, <2>2 DEF ManualBack, World, Typed, TypeOK
  <2> QED
    BY <1>3, <1>0, <2>1, <2>2, <2>3, TypedMove DEF ManualBack, Steps, ScheduledSteps, ManualSteps
<1>4. CASE ManualVerify(p)
  <2>1. mem' \in [Procs -> Mem]
    BY <1>4, <1>0 DEF ManualVerify, Typed, TypeOK
  <2>2. /\ pc' \in [Procs -> Steps]
        /\ \A q \in Scheduled : pc'[q] \in ScheduledSteps
        /\ \A q \in Manual : pc'[q] \in ManualSteps
    BY <1>4, <1>0, <2>1, GotoType DEF ManualVerify, Steps, ManualSteps
  <2>3. /\ app' \in Versions /\ index' \in Versions /\ latest' \in Versions
        /\ lease' \in Scheduled \cup {Free} /\ receipt' \in Receipts
        /\ stage' \in [Procs -> SUBSET Versions]
        /\ kept' \subseteq Versions /\ accepted' \subseteq Versions
    BY <1>4, <1>0, <2>1, <2>2 DEF ManualVerify, World, Typed, TypeOK
  <2> QED
    BY <1>4, <1>0, <2>1, <2>2, <2>3, TypedStep DEF ManualVerify
<1>5. CASE ManualRebuild(p)
  <2>1. mem' \in [Procs -> Mem]
    BY <1>5, <1>0 DEF ManualRebuild, Typed, TypeOK
  <2>2. /\ app' \in Versions /\ index' \in Versions /\ latest' = latest
        /\ lease' \in Scheduled \cup {Free} /\ receipt' \in Receipts
        /\ stage' \in [Procs -> SUBSET Versions]
        /\ kept' \subseteq Versions /\ accepted' \subseteq Versions
    BY <1>5, <1>0, <2>1 DEF ManualRebuild, World, Typed, TypeOK
  <2> QED
    BY <1>5, <1>0, <2>1, <2>2, TypedMove DEF ManualRebuild, Steps, ScheduledSteps, ManualSteps
<1>6. CASE ManualBackFails(p)
  <2>1. mem' \in [Procs -> Mem]
    BY <1>6, <1>0, MemType DEF ManualBackFails
  <2>2. /\ pc' \in [Procs -> Steps]
        /\ \A q \in Scheduled : pc'[q] \in ScheduledSteps
        /\ \A q \in Manual : pc'[q] \in ManualSteps
    BY <1>6, <1>0, <2>1, GotoType DEF ManualBackFails, Steps, ManualSteps
  <2> QED
    BY <1>6, <1>0, <2>1, <2>2, TypedStay DEF ManualBackFails
<1>7. CASE ManualFails(p)
  <2>1. CASE End(p)
    BY <1>7, <1>0, <2>1, EndType, TypedStay DEF ManualFails
  <2>2. CASE UNCHANGED mem
    BY <1>7, <1>0, <2>2, GotoType, EndType, TypedStay DEF ManualFails, Steps, ManualSteps, Typed, TypeOK
  <2> QED
    BY <1>7, <2>1, <2>2 DEF ManualFails
<1> QED
  BY <1>1, <1>2, <1>3, <1>4, <1>5, <1>6, <1>7 DEF Upgrade

LEMMA TypedInit == Init => Typed
<1>1. 0 \in Versions /\ NoApply \in Receipts
  BY UpdateAssumption DEF Versions, NoApply, Receipts, Outcomes, Codes, Rebuilds
<1>2. Blank \in Mem
  BY <1>1 DEF Mem, Blank
<1>3. ASSUME Init PROVE TypeOK
  BY <1>1, <1>2, <1>3, UpdateAssumption DEF Init, TypeOK, Steps
<1> QED
  BY <1>3, UpdateAssumption DEF Init, Typed, Procs, Steps, ScheduledSteps, ManualSteps

LEMMA TypedNext == Typed /\ [Next]_vars => Typed'
<1> SUFFICES ASSUME Typed, [Next]_vars PROVE Typed'
  OBVIOUS
<1>1. CASE Publish
  BY <1>1, UpdateAssumption DEF Publish, Disk, Typed, TypeOK, Versions
<1>2. CASE Open
  BY <1>2 DEF Open, World, Typed, TypeOK
<1>3. CASE UNCHANGED vars
  BY <1>3 DEF vars, Typed, TypeOK
<1> QED
  BY <1>1, <1>2, <1>3, ScheduledTyped, ManualTyped DEF Next

\* Every step of a scheduled or manual upgrade leaves the bundles, the lease, the
\* receipt and every process in its types, however upgrades overlap.
THEOREM UpdateTypeCorrect == Spec => []TypeOK
<1>1. Spec => []Typed
  BY TypedInit, TypedNext, PTL DEF Spec
<1>2. Typed => TypeOK
  BY DEF Typed
<1> QED
  BY <1>1, <1>2, PTL

-----------------------------------------------------------------------------
(* The invariant. *)

Inside(p) == pc[p] \notin {"idle", "lease"}

\* The lease keeps scheduled applies apart, and ~ Overlap manual upgrades.
Excluded ==
  /\ \A p \in Scheduled : Inside(p) => lease = p
  /\ \A p \in Manual : Busy(p) => \A q \in Procs : q # p => ~ Busy(q)

Waiting == {"idle", "lease", "check", "begin", "prepare", "release", "mPrepare"}
Ready == {"fence", "swap", "mSwap"}
Trying == {"verify", "rebuild", "health", "back", "mVerify", "mBack"}
Reverted == {"restored", "repair"}
Applying == {"prepare", "fence", "swap", "verify", "rebuild", "health", "back",
             "restored", "repair", "save"}
Failures == {"deferred", "failed_before_swap", "rolled_back"}

\* What the receipt about to be saved says is so.
Concluded(p) ==
  /\ mem[p].rec.outcome = "updated" => mem[p].rec.version \in accepted \ Bad
  /\ mem[p].rec.outcome \in Failures =>
       /\ app = mem[p].found
       /\ mem[p].rec.rebuild = "succeeded" => index = app

\* What the step a process is at says of the bundles: before the swap and after
\* a swap back the new one is staged, between the two it is installed, and
\* nothing accepted is as new as it.
Knows(p) ==
  /\ pc[p] \in Waiting => stage[p] = {}
  /\ pc[p] \in {"begin", "prepare"} => mem[p].plan > mem[p].base
  /\ pc[p] \in Ready \cup Reverted =>
       app = mem[p].base /\ stage[p] = {mem[p].plan} /\ mem[p].plan > mem[p].base
  /\ pc[p] \in Trying =>
       /\ app = mem[p].plan /\ stage[p] = {mem[p].base} /\ mem[p].plan > mem[p].base
       /\ \A v \in accepted : v <= mem[p].base
  /\ pc[p] = "prepare" => mem[p].found = app
  /\ pc[p] \in (Applying \ {"prepare", "save"}) => mem[p].found = mem[p].base
  /\ pc[p] \in Applying => mem[p].rec.version = mem[p].plan
  /\ pc[p] = "repair" => mem[p].rec.rebuild = "succeeded"
  /\ pc[p] = "mRebuild" => app \in accepted
  /\ pc[p] = "save" => Concluded(p)
  /\ pc[p] \in {"save", "clean"} =>
       mem[p].keep \/ app \in accepted \/ stage[p] \cap accepted = {}

\* Nothing newer than what is installed was accepted.
Newest == \A v \in accepted : v <= app

IInv ==
  /\ Typed
  /\ Excluded
  /\ Newest
  /\ AcceptedIsOnDisk
  /\ SuccessIsProved
  /\ \A p \in Procs : Knows(p)

Step(p) == Start(p) \/ Apply(p) \/ ApplyFails(p) \/ Crash(p)
ManualStep(p) == Upgrade(p) \/ ManualBackFails(p) \/ ManualFails(p)

\* A step is of one process, and touches the bundles, the index and the history
\* only from inside the apply or a manual upgrade.
LEMMA Local ==
  ASSUME Typed, NEW p \in Procs, Step(p)
  PROVE  /\ \A q \in Procs : q # p => /\ pc'[q] = pc[q] /\ mem'[q] = mem[q]
                                     /\ stage'[q] = stage[q]
         /\ Inside(p) \/ UNCHANGED <<app, index, accepted>>
         /\ \/ Start(p) \/ Acquire(p) \/ Release(p)
            \/ Busy(p) /\ lease' = lease /\ (Inside(p)' => Inside(p))
<1>1. CASE Start(p)
  BY <1>1 DEF Start, Goto, Disk, World, Inside, Busy, Typed, TypeOK
<1>2. CASE Acquire(p)
  BY <1>2 DEF Acquire, Goto, Disk, World, Inside, Busy, Typed, TypeOK
<1>3. CASE Refused(p)
  BY <1>3 DEF Refused, End, Goto, Disk, World, Inside, Busy, Typed, TypeOK
<1>4. CASE Check(p)
  BY <1>4 DEF Check, Goto, Disk, World, Inside, Busy, Typed, TypeOK
<1>5. CASE Begin(p)
  BY <1>5 DEF Begin, Goto, Disk, World, Inside, Busy, Typed, TypeOK
<1>6. CASE Prepare(p)
  BY <1>6 DEF Prepare, Conclude, Defer, FailBeforeSwap, Goto, Disk, World, Inside, Busy, Typed, TypeOK
<1>7. CASE Fence(p)
  BY <1>7 DEF Fence, Conclude, FailBeforeSwap, Goto, Disk, World, Inside, Busy, Typed, TypeOK
<1>8. CASE Swap(p)
  BY <1>8 DEF Swap, Exchange, Goto, Disk, World, Inside, Busy, Typed, TypeOK
<1>9. CASE Verify(p)
  BY <1>9 DEF Verify, RollBack, Goto, Disk, World, Inside, Busy, Typed, TypeOK
<1>10. CASE Rebuild(p)
  BY <1>10 DEF Rebuild, Goto, Disk, World, Inside, Busy, Typed, TypeOK
<1>11. CASE Health(p)
  BY <1>11 DEF Health, RollBack, Conclude, Goto, Disk, World, Inside, Busy, Typed, TypeOK
<1>12. CASE Back(p)
  BY <1>12 DEF Back, Exchange, Goto, Disk, World, Inside, Busy, Typed, TypeOK
<1>13. CASE Restored(p)
  BY <1>13 DEF Restored, RollbackFails, Conclude, Goto, Disk, World, Inside, Busy, Typed, TypeOK
<1>14. CASE Repair(p)
  BY <1>14 DEF Repair, Conclude, Goto, Disk, World, Inside, Busy, Typed, TypeOK
<1>15. CASE Save(p)
  BY <1>15 DEF Save, Goto, Disk, World, Inside, Busy, Typed, TypeOK
<1>16. CASE Clean(p)
  BY <1>16 DEF Clean, End, Goto, Disk, World, Inside, Busy, Typed, TypeOK
<1>17. CASE Release(p)
  BY <1>17 DEF Release, End, Goto, Disk, World, Inside, Busy, Typed, TypeOK
<1>18. CASE CheckFails(p)
  BY <1>18 DEF CheckFails, Goto, Disk, World, Inside, Busy, Typed, TypeOK
<1>19. CASE PrepareFails(p)
  BY <1>19 DEF PrepareFails, Conclude, Defer, FailBeforeSwap, Goto, Disk, World, Inside, Busy, Typed, TypeOK
<1>20. CASE FenceFails(p)
  BY <1>20 DEF FenceFails, Conclude, Defer, FailBeforeSwap, Goto, Disk, World, Inside, Busy, Typed, TypeOK
<1>21. CASE SwapFails(p)
  BY <1>21 DEF SwapFails, Conclude, FailBeforeSwap, Goto, Disk, World, Inside, Busy, Typed, TypeOK
<1>22. CASE VerifyFails(p)
  BY <1>22 DEF VerifyFails, RollBack, Goto, Disk, World, Inside, Busy, Typed, TypeOK
<1>23. CASE RebuildFails(p)
  BY <1>23 DEF RebuildFails, RollBack, Goto, Disk, World, Inside, Busy, Typed, TypeOK
<1>24. CASE HealthFails(p)
  BY <1>24 DEF HealthFails, RollBack, Goto, Disk, World, Inside, Busy, Typed, TypeOK
<1>25. CASE BackFails(p)
  BY <1>25 DEF BackFails, RollbackFails, Conclude, Goto, Disk, World, Inside, Busy, Typed, TypeOK
<1>26. CASE SaveFails(p)
  BY <1>26 DEF SaveFails, Goto, Disk, World, Inside, Busy, Typed, TypeOK
<1>27. CASE Crash(p)
  BY <1>27 DEF Crash, End, Goto, Disk, World, Inside, Busy, Typed, TypeOK
<1> QED
  BY <1>1, <1>2, <1>3, <1>4, <1>5, <1>6, <1>7, <1>8, <1>9, <1>10, <1>11, <1>12, <1>13, <1>14, <1>15, <1>16, <1>17, <1>18, <1>19, <1>20, <1>21, <1>22, <1>23, <1>24, <1>25, <1>26, <1>27 DEF Step, Apply, ApplyFails

LEMMA ManualLocal ==
  ASSUME Typed, NEW p \in Procs, ManualStep(p)
  PROVE  /\ \A q \in Procs : q # p => /\ pc'[q] = pc[q] /\ mem'[q] = mem[q]
                                     /\ stage'[q] = stage[q]
         /\ Inside(p) \/ UNCHANGED <<app, index, accepted>>
         /\ \/ Start(p) \/ Acquire(p) \/ Release(p)
            \/ Busy(p) /\ lease' = lease /\ (Inside(p)' => Inside(p))
<1>1. CASE ManualPrepare(p)
  BY <1>1 DEF ManualPrepare, End, Goto, Disk, World, Inside, Busy, Typed, TypeOK
<1>2. CASE ManualSwap(p)
  BY <1>2 DEF ManualSwap, Exchange, Goto, Disk, World, Inside, Busy, Typed, TypeOK
<1>3. CASE ManualVerify(p)
  BY <1>3 DEF ManualVerify, Goto, Disk, World, Inside, Busy, Typed, TypeOK
<1>4. CASE ManualBack(p)
  BY <1>4 DEF ManualBack, Exchange, Goto, Disk, World, Inside, Busy, Typed, TypeOK
<1>5. CASE ManualRebuild(p)
  BY <1>5 DEF ManualRebuild, Goto, Disk, World, Inside, Busy, Typed, TypeOK
<1>6. CASE ManualBackFails(p)
  BY <1>6 DEF ManualBackFails, Goto, Disk, World, Inside, Busy, Typed, TypeOK
<1>7. CASE ManualFails(p)
  BY <1>7 DEF ManualFails, End, Goto, Disk, World, Inside, Busy, Typed, TypeOK
<1> QED
  BY <1>1, <1>2, <1>3, <1>4, <1>5, <1>6, <1>7 DEF ManualStep, Upgrade

\* Two processes are never inside together.
LEMMA Alone ==
  ASSUME Typed, Excluded, NEW p \in Procs, NEW q \in Procs, p # q, Inside(p)
  PROVE  ~ Inside(q)
  BY UpdateAssumption DEF Typed, Excluded, Inside, Busy, Procs, ManualSteps

LEMMA ExcludedStep ==
  ASSUME ~ Overlap, Typed, Excluded, NEW p \in Procs, Step(p) \/ (p \in Manual /\ ManualStep(p))
  PROVE  Excluded'
<1>1. /\ \A q \in Procs : q # p => pc'[q] = pc[q]
      /\ \/ Start(p) \/ Acquire(p) \/ Release(p)
         \/ Busy(p) /\ lease' = lease /\ (Inside(p)' => Inside(p))
  BY Local, ManualLocal
<1>2. CASE Start(p)
  <2>1. /\ \A q \in Procs : Busy(q) => {p, q} \subseteq Scheduled
        /\ lease' = lease /\ pc[p] = "idle"
        /\ pc'[p] = IF p \in Scheduled THEN "lease" ELSE "mPrepare"
    BY <1>2 DEF Start, Goto, World, Typed, TypeOK
  <2> QED
    BY <1>1, <2>1, UpdateAssumption DEF Excluded, Inside, Busy, Procs
<1>3. CASE Acquire(p)
  <2>1. p \in Scheduled /\ p \notin Manual /\ pc[p] = "lease" /\ pc'[p] = "check"
    BY <1>3, WhoApplies DEF Acquire, Goto, ScheduledSteps, Steps, Typed, TypeOK
  <2>2. /\ lease # Free => lease \in Scheduled /\ ~ Inside(lease)
        /\ lease' = p
    BY <1>3 DEF Acquire, Inside, Typed, TypeOK
  <2>3. \A q \in Scheduled : q # p => ~ Inside(q)
    <3> SUFFICES ASSUME NEW q \in Scheduled, q # p, Inside(q) PROVE FALSE
      OBVIOUS
    <3>1. lease = q
      BY DEF Excluded
    <3>2. CASE lease = Free
      BY <3>1, <3>2, UpdateAssumption DEF Free
    <3> QED
      BY <2>2, <3>1, <3>2
  <2>4. \A q \in Manual : ~ Busy(q)
    BY <2>1, UpdateAssumption DEF Excluded, Busy, Procs
  <2> QED
    BY <1>1, <2>1, <2>2, <2>3, <2>4 DEF Excluded, Inside, Busy, Procs
<1>4. CASE Release(p)
  <2>1. /\ p \in Scheduled /\ Inside(p) /\ pc'[p] = "idle" /\ pc[p] = "release"
    BY <1>4, WhoApplies DEF Release, End, Goto, Inside, ScheduledSteps, Steps, Typed, TypeOK
  <2>2. \A q \in Procs : q # p => ~ Inside(q)
    BY <2>1, Alone
  <2> QED
    BY <1>1, <2>1, <2>2, UpdateAssumption DEF Excluded, Inside, Busy, Procs
<1>5. CASE Busy(p) /\ lease' = lease /\ (Inside(p)' => Inside(p))
  BY <1>1, <1>5 DEF Excluded, Inside, Busy, Procs
<1> QED
  BY <1>1, <1>2, <1>3, <1>4, <1>5

-----------------------------------------------------------------------------
(* What the process that steps knows. *)

LEMMA Concluding ==
  ASSUME Typed, NEW p \in Procs, NEW o, NEW c, NEW r, NEW k, Conclude(p, o, c, r, k)
  PROVE  /\ pc'[p] = "save"
         /\ mem'[p].rec.outcome = o /\ mem'[p].rec.rebuild = r /\ mem'[p].keep = k
         /\ mem'[p].rec.version = mem[p].rec.version
         /\ mem'[p].plan = mem[p].plan /\ mem'[p].found = mem[p].found
<1>1. mem[p] \in Mem /\ mem[p].rec \in Receipts
  BY MemType
<1> DEFINE rec == [mem[p].rec EXCEPT !.outcome = o, !.code = c, !.rebuild = r]
<1>2. /\ mem'[p].rec = rec /\ mem'[p].keep = k
      /\ mem'[p].plan = mem[p].plan /\ mem'[p].found = mem[p].found
  BY <1>1 DEF Conclude, Mem, Typed, TypeOK
<1>3. rec.outcome = o /\ rec.rebuild = r /\ rec.version = mem[p].rec.version
  BY <1>1 DEF Receipts
<1> QED
  BY <1>2, <1>3 DEF Conclude, Goto, Typed, TypeOK

\* A conclusion that is true is known.
LEMMA AtSave ==
  ASSUME Typed, NEW p \in Procs, NEW o, NEW c, NEW r, NEW k, Conclude(p, o, c, r, k),
         mem[p].rec.version = mem[p].plan,
         o = "updated" => mem[p].plan \in accepted' \ Bad,
         o \in Failures => app' = mem[p].found /\ (r = "succeeded" => index' = app'),
         k \/ app' \in accepted' \/ stage'[p] \cap accepted' = {}
  PROVE  Knows(p)'
<1>1. /\ pc'[p] = "save"
      /\ mem'[p].rec.outcome = o /\ mem'[p].rec.rebuild = r /\ mem'[p].keep = k
      /\ mem'[p].rec.version = mem[p].rec.version
      /\ mem'[p].plan = mem[p].plan /\ mem'[p].found = mem[p].found
  BY Concluding
<1>2. Concluded(p)'
  BY <1>1 DEF Concluded
<1> QED
  BY <1>1, <1>2 DEF Knows, Waiting, Ready, Trying, Reverted, Applying

LEMMA AtWaiting ==
  ASSUME NEW p \in Procs, stage'[p] = {},
         pc'[p] \in {"idle", "lease", "check", "release", "mPrepare"}
  PROVE  Knows(p)'
  BY DEF Knows, Waiting, Ready, Trying, Reverted, Applying

LEMMA AtClean ==
  ASSUME NEW p \in Procs, pc'[p] = "clean",
         mem'[p].keep \/ app' \in accepted' \/ stage'[p] \cap accepted' = {}
  PROVE  Knows(p)'
  BY DEF Knows, Waiting, Ready, Trying, Reverted, Applying

\* The new bundle is staged, by either kind of upgrade.
LEMMA AtReady ==
  ASSUME NEW p \in Procs, pc'[p] \in {"fence", "swap", "restored", "repair", "mSwap"},
         app' = mem'[p].base, stage'[p] = {mem'[p].plan}, mem'[p].plan > mem'[p].base,
         pc'[p] # "mSwap" =>
            mem'[p].found = mem'[p].base /\ mem'[p].rec.version = mem'[p].plan,
         pc'[p] = "repair" => mem'[p].rec.rebuild = "succeeded"
  PROVE  Knows(p)'
  BY DEF Knows, Waiting, Ready, Trying, Reverted, Applying

\* The new bundle is installed.
LEMMA AtTrying ==
  ASSUME NEW p \in Procs, pc'[p] \in Trying,
         app' = mem'[p].plan, stage'[p] = {mem'[p].base}, mem'[p].plan > mem'[p].base,
         \A v \in accepted' : v <= mem'[p].base,
         pc'[p] \notin {"mVerify", "mBack"} =>
            mem'[p].found = mem'[p].base /\ mem'[p].rec.version = mem'[p].plan
  PROVE  Knows(p)'
  BY DEF Knows, Waiting, Ready, Trying, Reverted, Applying

LEMMA RollingBack ==
  ASSUME Typed, NEW p \in Procs, NEW r, RollBack(p, r)
  PROVE  /\ pc'[p] = "back"
         /\ mem'[p].rec.version = mem[p].rec.version
         /\ mem'[p].base = mem[p].base /\ mem'[p].plan = mem[p].plan
         /\ mem'[p].found = mem[p].found
<1>1. mem[p] \in Mem /\ mem[p].rec \in Receipts
  BY MemType
<1>2. /\ mem'[p].rec = [mem[p].rec EXCEPT !.rebuild = r]
      /\ mem'[p].base = mem[p].base /\ mem'[p].plan = mem[p].plan
      /\ mem'[p].found = mem[p].found
  BY <1>1 DEF RollBack, Mem, Typed, TypeOK
<1>3. [mem[p].rec EXCEPT !.rebuild = r].version = mem[p].rec.version
  BY <1>1 DEF Receipts
<1> QED
  BY <1>2, <1>3 DEF RollBack, Goto, Typed, TypeOK

\* From one trial of the new bundle to the next, or to the swap back.
LEMMA StillTrying ==
  ASSUME Typed, NEW p \in Procs, Knows(p), pc[p] \in {"verify", "rebuild", "health"},
         \/ mem' = mem /\ pc'[p] \in {"rebuild", "health"}
         \/ \E r \in Rebuilds : RollBack(p, r),
         UNCHANGED <<app, stage, accepted>>
  PROVE  Knows(p)'
<1>1. /\ app = mem[p].plan /\ stage[p] = {mem[p].base} /\ mem[p].plan > mem[p].base
      /\ \A v \in accepted : v <= mem[p].base
      /\ mem[p].found = mem[p].base /\ mem[p].rec.version = mem[p].plan
  BY DEF Knows, Trying, Applying
<1>2. /\ pc'[p] \in {"rebuild", "health", "back"}
      /\ mem'[p].base = mem[p].base /\ mem'[p].plan = mem[p].plan
      /\ mem'[p].found = mem[p].found /\ mem'[p].rec.version = mem[p].rec.version
  BY RollingBack
<1> QED
  BY <1>1, <1>2, AtTrying DEF Trying

\* Nothing accepted is newer than what is installed, so a newer plan is not.
LEMMA PlanIsNew ==
  ASSUME Typed, Newest, NEW p \in Procs, app = mem[p].base, mem[p].plan > mem[p].base
  PROVE  mem[p].plan \notin accepted /\ \A v \in accepted : v <= mem[p].base
<1>1. app \in Nat /\ mem[p].plan \in Nat /\ accepted \subseteq Nat
  <2>1. app \in Versions /\ mem[p].plan \in Versions /\ accepted \subseteq Versions
    BY MemType DEF Mem, Typed, TypeOK
  <2> QED
    BY <2>1, UpdateAssumption DEF Versions
<1> QED
  BY <1>1 DEF Newest

LEMMA KnowsOwn ==
  ASSUME Typed, Newest, NEW p \in Procs, Knows(p), Step(p)
  PROVE  Knows(p)'
<1>1. CASE Start(p)
  <2>1. stage'[p] = {} /\ pc'[p] \in {"lease", "mPrepare"}
    BY <1>1 DEF Start, Goto, Disk, Knows, Waiting, Typed, TypeOK
  <2> QED
    BY <2>1, AtWaiting
<1>2. CASE Acquire(p)
  <2>1. stage'[p] = {} /\ pc'[p] = "check"
    BY <1>2 DEF Acquire, Goto, Disk, Knows, Waiting, Typed, TypeOK
  <2> QED
    BY <2>1, AtWaiting
<1>3. CASE Refused(p)
  <2>1. stage'[p] = {} /\ pc'[p] = "idle"
    BY <1>3 DEF Refused, End, Goto, Disk, NoFault, Knows, Waiting, Typed, TypeOK
  <2> QED
    BY <2>1, AtWaiting
<1>4. CASE Check(p)
  <2>1. /\ stage'[p] = {} /\ pc'[p] \in {"begin", "release"}
        /\ mem'[p].base = mem[p].base /\ mem'[p].plan = latest
        /\ pc'[p] = "begin" => latest > mem[p].base
    BY ZenonT(60), <1>4, MemType DEF Check, Goto, Disk, Mem, Knows, Waiting, Typed, TypeOK
  <2>2. CASE pc'[p] = "release"
    BY <2>1, <2>2, AtWaiting
  <2>3. CASE pc'[p] = "begin"
    BY <2>1, <2>3 DEF Knows, Waiting, Ready, Trying, Reverted, Applying
  <2> QED
    BY <2>1, <2>2, <2>3
<1>5. CASE Begin(p)
  <2>1. /\ stage'[p] = {} /\ pc'[p] = "prepare" /\ mem[p].plan > mem[p].base
        /\ mem'[p].base = mem[p].base /\ mem'[p].plan = mem[p].plan
        /\ mem'[p].found = app /\ app' = app /\ mem'[p].rec.version = mem[p].plan
    BY ZenonT(60), <1>5, MemType DEF Begin, Goto, Mem, Knows, Waiting, Typed, TypeOK
  <2> QED
    BY <2>1 DEF Knows, Waiting, Ready, Trying, Reverted, Applying
<1>6. CASE Prepare(p)
  <2>1. /\ stage[p] = {} /\ mem[p].plan > mem[p].base /\ mem[p].found = app
        /\ mem[p].rec.version = mem[p].plan /\ UNCHANGED <<app, accepted>>
    BY <1>6 DEF Prepare, Knows, Waiting, Ready, Trying, Reverted, Applying
  <2>2. CASE /\ app = mem[p].base /\ app \notin Bad /\ latest = mem[p].plan
             /\ stage' = [stage EXCEPT ![p] = {latest}]
             /\ Goto(p, "fence") /\ UNCHANGED mem
    <3>1. pc'[p] = "fence" /\ stage'[p] = {mem'[p].plan} /\ mem' = mem
      BY <2>2 DEF Goto, Typed, TypeOK
    <3> QED
      BY <2>1, <2>2, <3>1, AtReady
  <2>3. CASE (FailBeforeSwap(p) \/ Defer(p, "other")) /\ UNCHANGED stage
    BY <2>1, <2>3, AtSave DEF FailBeforeSwap, Defer, Failures
  <2> QED
    BY <1>6, <2>2, <2>3 DEF Prepare
<1>7. CASE Fence(p)
  <2>1. /\ app = mem[p].base /\ stage[p] = {mem[p].plan} /\ mem[p].plan > mem[p].base
        /\ mem[p].found = mem[p].base /\ mem[p].rec.version = mem[p].plan
        /\ UNCHANGED <<app, stage, accepted>>
    BY <1>7 DEF Fence, Disk, Knows, Waiting, Ready, Trying, Reverted, Applying
  <2>2. CASE Goto(p, "swap") /\ UNCHANGED mem
    <3>1. pc'[p] = "swap" /\ mem' = mem
      BY <2>2 DEF Goto, Typed, TypeOK
    <3> QED
      BY <2>1, <3>1, AtReady
  <2>3. CASE FailBeforeSwap(p) \/ Defer(p, "other")
    BY <2>1, <2>3, PlanIsNew, AtSave DEF FailBeforeSwap, Defer, Failures
  <2> QED
    BY <1>7, <2>2, <2>3 DEF Fence
<1>8. CASE Swap(p)
  <2>1. /\ app = mem[p].base /\ stage[p] = {mem[p].plan} /\ mem[p].plan > mem[p].base
        /\ mem[p].found = mem[p].base /\ mem[p].rec.version = mem[p].plan
    BY <1>8 DEF Swap, Knows, Waiting, Ready, Trying, Reverted, Applying
  <2>2. /\ app' = mem[p].plan /\ stage'[p] = {mem[p].base} /\ pc'[p] = "verify"
        /\ mem' = mem /\ accepted' = accepted
    BY <1>8, <2>1 DEF Swap, Exchange, Goto, Typed, TypeOK
  <2> QED
    BY <2>1, <2>2, PlanIsNew, AtTrying DEF Trying
<1>9. CASE Verify(p)
  <2>1. app = mem[p].plan /\ UNCHANGED <<app, stage, accepted, mem>> /\ pc'[p] = "rebuild"
    BY <1>9 DEF Verify, Goto, Disk, Knows, Trying, Typed, TypeOK
  <2> QED
    BY <1>9, <2>1, StillTrying DEF Verify
<1>10. CASE Rebuild(p)
  <2>1. /\ app = mem[p].plan /\ stage[p] = {mem[p].base} /\ mem[p].plan > mem[p].base
        /\ \A v \in accepted : v <= mem[p].base
        /\ mem[p].found = mem[p].base /\ mem[p].rec.version = mem[p].plan
    BY <1>10 DEF Rebuild, Knows, Trying, Applying
  <2> DEFINE rec == [mem[p].rec EXCEPT !.rebuild = IF index = app THEN "not_needed" ELSE "succeeded"]
  <2>2. /\ mem'[p].rec = rec /\ mem'[p].base = mem[p].base
        /\ mem'[p].plan = mem[p].plan /\ mem'[p].found = mem[p].found
    BY ZenonT(60), <1>10, MemType DEF Rebuild, Mem, Typed, TypeOK
  <2>3. rec.version = mem[p].rec.version
    BY MemType DEF Receipts
  <2>4. pc'[p] = "health" /\ UNCHANGED <<app, stage, accepted>>
    BY <1>10 DEF Rebuild, Goto, Typed, TypeOK
  <2> QED
    BY <2>1, <2>2, <2>3, <2>4, AtTrying DEF Trying
<1>11. CASE Health(p)
  <2>1. /\ app = mem[p].plan /\ mem[p].rec.version = mem[p].plan
        /\ UNCHANGED <<app, stage>>
    BY <1>11 DEF Health, Knows, Trying, Applying
  <2>2. CASE app \in Bad
    BY <1>11, <2>2, MemType, StillTrying DEF Health, Receipts
  <2>3. CASE app \notin Bad
    BY <1>11, <2>1, <2>3, AtSave DEF Health, Failures
  <2> QED
    BY <2>2, <2>3
<1>12. CASE Back(p)
  <2>1. /\ app = mem[p].plan /\ stage[p] = {mem[p].base} /\ mem[p].plan > mem[p].base
        /\ mem[p].found = mem[p].base /\ mem[p].rec.version = mem[p].plan
    BY <1>12 DEF Back, Knows, Trying, Applying
  <2>2. /\ app' = mem[p].base /\ stage'[p] = {mem[p].plan} /\ pc'[p] = "restored" /\ mem' = mem
    BY <1>12, <2>1 DEF Back, Exchange, Goto, Typed, TypeOK
  <2> QED
    BY <2>1, <2>2, AtReady
<1>13. CASE Restored(p)
  <2>1. /\ app = mem[p].base /\ stage[p] = {mem[p].plan} /\ mem[p].plan > mem[p].base
        /\ mem[p].found = mem[p].base /\ mem[p].rec.version = mem[p].plan
        /\ UNCHANGED <<app, stage, accepted>>
    BY <1>13 DEF Restored, Disk, Knows, Waiting, Ready, Trying, Reverted, Applying
  <2>2. CASE mem[p].rec.rebuild = "succeeded"
    <3>1. pc'[p] = "repair" /\ mem' = mem
      BY <1>13, <2>1, <2>2 DEF Restored, Goto, Typed, TypeOK
    <3> QED
      BY <2>1, <2>2, <3>1, AtReady
  <2>3. CASE mem[p].rec.rebuild # "succeeded"
    BY <1>13, <2>1, <2>3, PlanIsNew, AtSave DEF Restored, Failures
  <2> QED
    BY <2>2, <2>3
<1>14. CASE Repair(p)
  <2>1. /\ app = mem[p].base /\ stage[p] = {mem[p].plan} /\ mem[p].plan > mem[p].base
        /\ mem[p].found = mem[p].base /\ mem[p].rec.version = mem[p].plan
        /\ UNCHANGED <<app, stage, accepted>> /\ index' = app
    BY <1>14 DEF Repair, Knows, Waiting, Ready, Trying, Reverted, Applying
  <2>2. mem[p].plan \notin accepted
    BY <2>1, PlanIsNew
  <2>3. Conclude(p, "rolled_back", "other", mem[p].rec.rebuild, FALSE)
    BY <1>14 DEF Repair
  <2> QED
    BY <2>1, <2>2, <2>3, AtSave DEF Failures
<1>15. CASE Save(p)
  BY <1>15, AtClean DEF Save, Goto, Knows, Typed, TypeOK
<1>16. CASE Clean(p)
  <2>1. stage'[p] = {} /\ pc'[p] \in {"release", "idle"}
    BY <1>16 DEF Clean, End, Goto, Typed, TypeOK
  <2> QED
    BY <2>1, AtWaiting
<1>17. CASE Release(p)
  <2>1. stage'[p] = {} /\ pc'[p] = "idle"
    BY <1>17 DEF Release, End, Goto, Disk, Knows, Waiting, Typed, TypeOK
  <2> QED
    BY <2>1, AtWaiting
<1>18. CASE CheckFails(p)
  <2>1. stage'[p] = {} /\ pc'[p] = "release"
    BY <1>18 DEF CheckFails, Goto, Disk, Knows, Waiting, Typed, TypeOK
  <2> QED
    BY <2>1, AtWaiting
<1>19. CASE PrepareFails(p)
  <2>1. /\ stage[p] = {} /\ mem[p].found = app
        /\ mem[p].rec.version = mem[p].plan /\ UNCHANGED <<app, stage, accepted>>
    BY <1>19 DEF PrepareFails, Disk, Knows, Waiting, Ready, Trying, Reverted, Applying
  <2> QED
    BY <1>19, <2>1, AtSave DEF PrepareFails, FailBeforeSwap, Defer, Failures
<1>20. CASE FenceFails(p)
  <2>1. /\ app = mem[p].base /\ stage[p] = {mem[p].plan} /\ mem[p].plan > mem[p].base
        /\ mem[p].found = mem[p].base /\ mem[p].rec.version = mem[p].plan
        /\ UNCHANGED <<app, stage, accepted>>
    BY <1>20 DEF FenceFails, Disk, Knows, Waiting, Ready, Trying, Reverted, Applying
  <2>3. CASE FailBeforeSwap(p) \/ Defer(p, "other")
    BY <2>1, <2>3, PlanIsNew, AtSave DEF FailBeforeSwap, Defer, Failures
  <2> QED
    BY <1>20, <2>3 DEF FenceFails
<1>21. CASE SwapFails(p)
  <2>1. /\ app = mem[p].base /\ stage[p] = {mem[p].plan} /\ mem[p].plan > mem[p].base
        /\ mem[p].found = mem[p].base /\ mem[p].rec.version = mem[p].plan
        /\ UNCHANGED <<app, stage, accepted>>
    BY <1>21 DEF SwapFails, Disk, Knows, Waiting, Ready, Trying, Reverted, Applying
  <2>3. CASE FailBeforeSwap(p) \/ Defer(p, "other")
    BY <2>1, <2>3, PlanIsNew, AtSave DEF FailBeforeSwap, Defer, Failures
  <2> QED
    BY <1>21, <2>3 DEF SwapFails
<1>22. CASE VerifyFails(p)
  BY <1>22, StillTrying DEF VerifyFails, Disk, Rebuilds
<1>23. CASE RebuildFails(p)
  BY <1>23, StillTrying DEF RebuildFails, Rebuilds
<1>24. CASE HealthFails(p)
  BY <1>24, MemType, StillTrying DEF HealthFails, Disk, Receipts
<1>25. CASE BackFails(p)
  <2>1. mem[p].rec.version = mem[p].plan
    BY <1>25 DEF BackFails, Knows, Applying
  <2> QED
    BY <1>25, <2>1, AtSave DEF BackFails, RollbackFails, Failures
<1>26. CASE SaveFails(p)
  BY <1>26, AtClean DEF SaveFails, Goto, Disk, Knows, Typed, TypeOK
<1>27. CASE Crash(p)
  <2>1. stage'[p] = {} /\ pc'[p] = "idle"
    BY <1>27 DEF Crash, End, Goto, Knows, Waiting, Typed, TypeOK
  <2> QED
    BY <2>1, AtWaiting
<1> QED
  BY <1>1, <1>2, <1>3, <1>4, <1>5, <1>6, <1>7, <1>8, <1>9, <1>10, <1>11, <1>12, <1>13, <1>14, <1>15, <1>16, <1>17, <1>18, <1>19, <1>20, <1>21, <1>22, <1>23, <1>24, <1>25, <1>26, <1>27 DEF Step, Apply, ApplyFails

LEMMA ManualKnowsOwn ==
  ASSUME Typed, Newest, NEW p \in Procs, Knows(p), ManualStep(p)
  PROVE  Knows(p)'
<1>1. CASE ManualPrepare(p)
  <2>1. CASE app = mem[p].base /\ latest > app
    <3>1. /\ pc'[p] = "mSwap" /\ app' = app /\ stage'[p] = {latest}
          /\ mem'[p].plan = latest /\ mem'[p].base = mem[p].base
      <4>1. mem'[p] = [mem[p] EXCEPT !.plan = latest] /\ mem[p] \in Mem
        BY <1>1, <2>1, MemType DEF ManualPrepare, Typed, TypeOK
      <4>2. pc'[p] = "mSwap" /\ app' = app /\ stage'[p] = {latest}
        BY <1>1, <2>1 DEF ManualPrepare, Goto, Typed, TypeOK
      <4> QED
        BY <4>1, <4>2 DEF Mem
    <3> QED
      BY <2>1, <3>1, AtReady
  <2>2. CASE ~ (app = mem[p].base /\ latest > app)
    <3>1. stage'[p] = {} /\ pc'[p] = "idle"
      BY <1>1, <2>2 DEF ManualPrepare, End, Goto, Knows, Waiting, Typed, TypeOK
    <3> QED
      BY <3>1, AtWaiting
  <2> QED
    BY <2>1, <2>2
<1>2. CASE ManualSwap(p)
  <2>1. /\ app = mem[p].base /\ stage[p] = {mem[p].plan} /\ mem[p].plan > mem[p].base
    BY <1>2 DEF ManualSwap, Knows, Waiting, Ready, Trying, Reverted, Applying
  <2>2. /\ app' = mem[p].plan /\ stage'[p] = {mem[p].base} /\ pc'[p] = "mVerify"
        /\ mem' = mem /\ accepted' = accepted
    BY <1>2, <2>1 DEF ManualSwap, Exchange, Goto, Typed, TypeOK
  <2> QED
    BY <2>1, <2>2, PlanIsNew, AtTrying DEF Trying
<1>3. CASE ManualVerify(p)
  <2>1. /\ app = mem[p].plan /\ pc'[p] = "mRebuild" /\ app' \in accepted'
    BY <1>3 DEF ManualVerify, Goto, Knows, Trying, Typed, TypeOK
  <2> QED
    BY <2>1 DEF Knows, Waiting, Ready, Trying, Reverted, Applying
<1>4. CASE ManualBack(p)
  <2>1. /\ app = mem[p].plan /\ stage[p] = {mem[p].base} /\ mem[p].plan > mem[p].base
        /\ \A v \in accepted : v <= mem[p].base
    BY <1>4 DEF ManualBack, Knows, Trying
  <2>2. /\ stage'[p] = {mem[p].plan} /\ pc'[p] = "clean" /\ accepted' = accepted
    BY <1>4, <2>1 DEF ManualBack, Exchange, Goto, Typed, TypeOK
  <2>3. mem[p].plan \notin accepted
    <3>1. mem[p].base \in Nat /\ mem[p].plan \in Nat
      <4>1. mem[p].base \in Versions /\ mem[p].plan \in Versions
        BY MemType DEF Mem
      <4> QED
        BY <4>1, UpdateAssumption DEF Versions
    <3> QED
      BY <2>1, <3>1
  <2> QED
    BY <2>2, <2>3, AtClean
<1>5. CASE ManualRebuild(p)
  BY <1>5, AtClean DEF ManualRebuild, Goto, Knows, Typed, TypeOK
<1>6. CASE ManualBackFails(p)
  <2>1. pc'[p] = "clean" /\ mem'[p].keep
    BY <1>6, MemType DEF ManualBackFails, Goto, Mem, Typed, TypeOK
  <2> QED
    BY <2>1, AtClean
<1>7. CASE ManualFails(p)
  <2>1. CASE pc[p] = "mPrepare"
    <3>1. stage'[p] = {} /\ pc'[p] = "idle"
      BY <1>7, <2>1 DEF ManualFails, End, Goto, Disk, Knows, Waiting, Typed, TypeOK
    <3> QED
      BY <3>1, AtWaiting
  <2>2. CASE pc[p] = "mSwap"
    <3>1. /\ app = mem[p].base /\ stage[p] = {mem[p].plan} /\ mem[p].plan > mem[p].base
      BY <2>2 DEF Knows, Ready
    <3>2. pc'[p] = "clean" /\ UNCHANGED <<app, stage, accepted>>
      BY <1>7, <2>2 DEF ManualFails, Goto, Disk, Typed, TypeOK
    <3> QED
      BY <3>1, <3>2, PlanIsNew, AtClean
  <2>3. CASE pc[p] = "mRebuild"
    BY <1>7, <2>3, AtClean DEF ManualFails, Goto, Disk, Knows, Typed, TypeOK
  <2>4. CASE pc[p] = "mVerify"
    <3>1. /\ app = mem[p].plan /\ stage[p] = {mem[p].base} /\ mem[p].plan > mem[p].base
          /\ \A v \in accepted : v <= mem[p].base
      BY <2>4 DEF Knows, Trying
    <3>2. pc'[p] = "mBack" /\ UNCHANGED <<app, stage, accepted, mem>>
      BY <1>7, <2>4 DEF ManualFails, Goto, Disk, Typed, TypeOK
    <3> QED
      BY <3>1, <3>2, AtTrying DEF Trying
  <2> QED
    BY <1>7, <2>1, <2>2, <2>3, <2>4 DEF ManualFails
<1> QED
  BY <1>1, <1>2, <1>3, <1>4, <1>5, <1>6, <1>7 DEF ManualStep, Upgrade

-----------------------------------------------------------------------------
(* What the other processes know, and the bundles on disk. *)

LEMMA KnowsOthers ==
  ASSUME Typed, Excluded, NEW p \in Procs, NEW q \in Procs, q # p, Knows(q),
         pc'[q] = pc[q], mem'[q] = mem[q], stage'[q] = stage[q],
         Inside(p) \/ UNCHANGED <<app, index, accepted>>
  PROVE  Knows(q)'
<1>1. CASE Inside(p)
  <2>1. pc[q] \in {"idle", "lease"}
    BY <1>1, Alone DEF Inside
  <2>2. stage'[q] = {} /\ pc'[q] \in {"idle", "lease"}
    BY <2>1 DEF Knows, Waiting
  <2> QED
    BY <2>2, AtWaiting
<1>2. CASE UNCHANGED <<app, index, accepted>>
  BY <1>2 DEF Knows, Concluded
<1> QED
  BY <1>1, <1>2

LEMMA Lands ==
  ASSUME NEW v \in accepted', v = app' \/ v \in kept' \/ \E q \in Procs : v \in stage'[q]
  PROVE  AcceptedIsOnDisk'
  BY DEF AcceptedIsOnDisk

LEMMA Numbers ==
  ASSUME Typed, NEW p \in Procs
  PROVE  /\ app \in Nat /\ mem[p].base \in Nat /\ mem[p].plan \in Nat
         /\ \A v \in accepted : v \in Nat
<1>1. /\ app \in Versions /\ mem[p].base \in Versions /\ mem[p].plan \in Versions
      /\ accepted \subseteq Versions
  BY MemType DEF Mem, Typed, TypeOK
<1> QED
  BY <1>1, UpdateAssumption DEF Versions

\* The facts about the bundles and the receipt that no process need know.
Bundles == Newest /\ AcceptedIsOnDisk /\ SuccessIsProved

LEMMA SameBundles ==
  ASSUME Bundles, UNCHANGED <<app, receipt, stage, kept, accepted>>
  PROVE  Bundles'
  BY DEF Bundles, Newest, AcceptedIsOnDisk, SuccessIsProved

\* Staging, or leaving behind, what is in no staging directory takes nothing away.
LEMMA Staged ==
  ASSUME Typed, Bundles, NEW p \in Procs, NEW s, stage' = [stage EXCEPT ![p] = s],
         stage[p] \subseteq s \cup kept', kept \subseteq kept',
         UNCHANGED <<app, receipt, accepted>>
  PROVE  Bundles'
<1>1. Newest' /\ SuccessIsProved'
  BY DEF Bundles, Newest, SuccessIsProved
<1>2. PICK v \in accepted : v = app \/ v \in kept \/ \E q \in Procs : v \in stage[q]
  BY DEF Bundles, AcceptedIsOnDisk
<1>3. v = app' \/ v \in kept' \/ \E q \in Procs : v \in stage'[q]
  BY <1>2 DEF Typed, TypeOK
<1> QED
  BY <1>1, <1>2, <1>3, Lands DEF Bundles

\* A swap of the old bundle for the new one.
LEMMA SwappedIn ==
  ASSUME Typed, Bundles, NEW p \in Procs, Exchange(p), UNCHANGED <<receipt, kept, accepted>>,
         app = mem[p].base, stage[p] = {mem[p].plan}, mem[p].plan > mem[p].base
  PROVE  Bundles' /\ app' > app
<1>1. app' = mem[p].plan /\ stage'[p] = {app} /\ \A q \in Procs : q # p => stage'[q] = stage[q]
  BY DEF Exchange, Typed, TypeOK
<1>2. Newest' /\ SuccessIsProved' /\ app' > app
  BY <1>1, Numbers DEF Bundles, Newest, SuccessIsProved
<1>3. PICK v \in accepted : v = app \/ v \in kept \/ \E q \in Procs : v \in stage[q]
  BY DEF Bundles, AcceptedIsOnDisk
<1>4. v # mem[p].plan
  BY PlanIsNew DEF Bundles
<1>5. v \in kept' \/ \E q \in Procs : v \in stage'[q]
  BY <1>1, <1>3, <1>4
<1> QED
  BY <1>2, <1>3, <1>5, Lands DEF Bundles

\* And back: what is taken away was never accepted.
LEMMA SwappedBack ==
  ASSUME Typed, Bundles, NEW p \in Procs, Exchange(p), UNCHANGED <<receipt, kept, accepted>>,
         app = mem[p].plan, stage[p] = {mem[p].base}, mem[p].plan > mem[p].base,
         \A v \in accepted : v <= mem[p].base
  PROVE  Bundles' /\ app \notin accepted
<1>1. app' = mem[p].base /\ \A q \in Procs : q # p => stage'[q] = stage[q]
  BY DEF Exchange, Typed, TypeOK
<1>2. Newest' /\ SuccessIsProved' /\ app \notin accepted
  BY <1>1, Numbers DEF Bundles, Newest, SuccessIsProved
<1>3. PICK v \in accepted : v = app \/ v \in kept \/ \E q \in Procs : v \in stage[q]
  BY DEF Bundles, AcceptedIsOnDisk
<1>4. v = app' \/ v \in kept' \/ \E q \in Procs : v \in stage'[q]
  BY <1>1, <1>2, <1>3
<1> QED
  BY <1>2, <1>3, <1>4, Lands DEF Bundles

LEMMA Accepts ==
  ASSUME Typed, Bundles, accepted' = accepted \cup {app}, UNCHANGED <<app, receipt>>
  PROVE  Bundles'
<1>1. Newest' /\ SuccessIsProved'
  <2>1. app \in Versions
    BY DEF Typed, TypeOK
  <2>2. app \in Nat
    BY <2>1, UpdateAssumption DEF Versions
  <2> QED
    BY <2>2 DEF Bundles, Newest, SuccessIsProved
<1> QED
  BY <1>1, Lands DEF Bundles

\* A step keeps what was accepted on disk, and takes away nothing accepted for
\* something older.
LEMMA BundlesStep ==
  ASSUME Typed, Bundles, NEW p \in Procs, Knows(p), Step(p)
  PROVE  Bundles' /\ (app \in accepted => app' = app \/ app' > app)
<1>1. CASE Start(p)
  BY <1>1, SameBundles DEF Start, Disk
<1>2. CASE Acquire(p)
  BY <1>2, SameBundles DEF Acquire, Disk
<1>3. CASE Refused(p)
  BY <1>3, SameBundles DEF Refused, Disk
<1>4. CASE Check(p)
  BY <1>4, SameBundles DEF Check, Disk
<1>5. CASE Begin(p)
  <2>1. receipt'.outcome # "updated"
    BY <1>5 DEF Begin
  <2> QED
    BY <1>5, <2>1 DEF Begin, Bundles, Newest, AcceptedIsOnDisk, SuccessIsProved
<1>6. CASE Prepare(p)
  <2>1. stage[p] = {}
    BY <1>6 DEF Prepare, Knows, Waiting
  <2>2. \/ stage' = stage
        \/ stage' = [stage EXCEPT ![p] = {latest}]
    BY <1>6 DEF Prepare
  <2> QED
    BY <1>6, <2>1, <2>2, SameBundles, Staged DEF Prepare
<1>7. CASE Fence(p)
  BY <1>7, SameBundles DEF Fence, Disk
<1>8. CASE Swap(p)
  <2>1. app = mem[p].base /\ stage[p] = {mem[p].plan} /\ mem[p].plan > mem[p].base
    BY <1>8 DEF Swap, Knows, Ready
  <2> QED
    BY <1>8, <2>1, SwappedIn DEF Swap
<1>9. CASE Verify(p)
  BY <1>9, SameBundles DEF Verify, Disk
<1>10. CASE Rebuild(p)
  BY <1>10, SameBundles DEF Rebuild, Disk
<1>11. CASE Health(p)
  BY <1>11, SameBundles, Accepts DEF Health
<1>12. CASE Back(p)
  <2>1. /\ app = mem[p].plan /\ stage[p] = {mem[p].base} /\ mem[p].plan > mem[p].base
        /\ \A v \in accepted : v <= mem[p].base
    BY <1>12 DEF Back, Knows, Trying
  <2> QED
    BY <1>12, <2>1, SwappedBack DEF Back
<1>13. CASE Restored(p)
  BY <1>13, SameBundles DEF Restored, Disk
<1>14. CASE Repair(p)
  BY <1>14, SameBundles DEF Repair, Disk
<1>15. CASE Save(p)
  <2>1. receipt' = mem[p].rec /\ Concluded(p)
    BY <1>15 DEF Save, Knows
  <2> QED
    BY <1>15, <2>1 DEF Save, Concluded, Bundles, Newest, AcceptedIsOnDisk, SuccessIsProved
<1>16. CASE Clean(p)
  <2>1. mem[p].keep \/ app \in accepted \/ stage[p] \cap accepted = {}
    BY <1>16 DEF Clean, Knows
  <2>2. CASE mem[p].keep
    BY <1>16, <2>2, Staged DEF Clean
  <2>3. CASE ~ mem[p].keep
    <3>1. Newest' /\ SuccessIsProved'
      BY <1>16 DEF Clean, Bundles, Newest, SuccessIsProved
    <3>2. CASE app \in accepted
      BY <1>16, <3>1, <3>2, Lands DEF Clean, Bundles
    <3>3. CASE app \notin accepted /\ stage[p] \cap accepted = {}
      <4>1. PICK v \in accepted : v \in kept \/ \E q \in Procs : v \in stage[q]
        BY <3>3 DEF Bundles, AcceptedIsOnDisk
      <4>2. v \in accepted' /\ (v \in kept' \/ \E q \in Procs : v \in stage'[q])
        BY <1>16, <2>3, <3>3, <4>1 DEF Clean, Typed, TypeOK
      <4>3. AcceptedIsOnDisk'
        BY <4>2 DEF AcceptedIsOnDisk
      <4> QED
        BY <3>1, <3>3, <4>3 DEF Bundles
    <3> QED
      BY <2>1, <2>3, <3>2, <3>3
  <2> QED
    BY <2>2, <2>3
<1>17. CASE Release(p)
  BY <1>17, SameBundles DEF Release, Disk
<1>18. CASE CheckFails(p)
  BY <1>18, SameBundles DEF CheckFails, Disk
<1>19. CASE PrepareFails(p)
  BY <1>19, SameBundles DEF PrepareFails, Disk
<1>20. CASE FenceFails(p)
  BY <1>20, SameBundles DEF FenceFails, Disk
<1>21. CASE SwapFails(p)
  BY <1>21, SameBundles DEF SwapFails, Disk
<1>22. CASE VerifyFails(p)
  BY <1>22, SameBundles DEF VerifyFails, Disk
<1>23. CASE RebuildFails(p)
  BY <1>23, SameBundles DEF RebuildFails, Disk
<1>24. CASE HealthFails(p)
  BY <1>24, SameBundles DEF HealthFails, Disk
<1>25. CASE BackFails(p)
  BY <1>25, SameBundles DEF BackFails, Disk
<1>26. CASE SaveFails(p)
  BY <1>26, SameBundles DEF SaveFails, Disk
<1>27. CASE Crash(p)
  BY <1>27, Staged DEF Crash
<1> QED
  BY <1>1, <1>2, <1>3, <1>4, <1>5, <1>6, <1>7, <1>8, <1>9, <1>10, <1>11, <1>12, <1>13, <1>14, <1>15, <1>16, <1>17, <1>18, <1>19, <1>20, <1>21, <1>22, <1>23, <1>24, <1>25, <1>26, <1>27 DEF Step, Apply, ApplyFails

LEMMA ManualBundlesStep ==
  ASSUME Typed, Bundles, NEW p \in Procs, Knows(p), ManualStep(p)
  PROVE  Bundles' /\ (app \in accepted => app' = app \/ app' > app)
<1>1. CASE ManualPrepare(p)
  <2>1. stage[p] = {}
    BY <1>1 DEF ManualPrepare, Knows, Waiting
  <2>2. \/ stage' = stage
        \/ stage' = [stage EXCEPT ![p] = {latest}]
    BY <1>1 DEF ManualPrepare
  <2> QED
    BY <1>1, <2>1, <2>2, SameBundles, Staged DEF ManualPrepare
<1>2. CASE ManualSwap(p)
  <2>1. app = mem[p].base /\ stage[p] = {mem[p].plan} /\ mem[p].plan > mem[p].base
    BY <1>2 DEF ManualSwap, Knows, Ready
  <2> QED
    BY <1>2, <2>1, SwappedIn DEF ManualSwap
<1>3. CASE ManualVerify(p)
  BY <1>3, SameBundles, Accepts DEF ManualVerify
<1>4. CASE ManualBack(p)
  <2>1. /\ app = mem[p].plan /\ stage[p] = {mem[p].base} /\ mem[p].plan > mem[p].base
        /\ \A v \in accepted : v <= mem[p].base
    BY <1>4 DEF ManualBack, Knows, Trying
  <2> QED
    BY <1>4, <2>1, SwappedBack DEF ManualBack
<1>5. CASE ManualRebuild(p)
  BY <1>5, SameBundles DEF ManualRebuild, Disk
<1>6. CASE ManualBackFails(p)
  BY <1>6, SameBundles DEF ManualBackFails, Disk
<1>7. CASE ManualFails(p)
  BY <1>7, SameBundles DEF ManualFails, Disk
<1> QED
  BY <1>1, <1>2, <1>3, <1>4, <1>5, <1>6, <1>7 DEF ManualStep, Upgrade

-----------------------------------------------------------------------------
(* The invariant holds, and what follows from it. *)

LEMMA IInvInit == Init => IInv
<1> SUFFICES ASSUME Init PROVE IInv
  OBVIOUS
<1>1. Typed
  BY TypedInit
<1>2. Excluded
  BY DEF Init, Excluded, Inside, Busy, Procs
<1>3. Newest /\ AcceptedIsOnDisk /\ SuccessIsProved
  <2>1. app = 0 /\ accepted = {0} /\ receipt.outcome # "updated"
    BY DEF Init, NoApply
  <2>2. Newest
    BY <2>1 DEF Newest
  <2> QED
    BY <2>1, <2>2 DEF AcceptedIsOnDisk, SuccessIsProved
<1>4. \A p \in Procs : Knows(p)
  BY DEF Init, Knows, Waiting, Ready, Trying, Reverted, Applying
<1> QED
  BY <1>1, <1>2, <1>3, <1>4 DEF IInv

LEMMA IInvStep ==
  ASSUME ~ Overlap, IInv, NEW p \in Procs, Step(p) \/ (p \in Manual /\ ManualStep(p))
  PROVE  /\ Excluded' /\ Bundles' /\ \A q \in Procs : Knows(q)'
         /\ app \in accepted => app' = app \/ app' > app
<1>1. Typed /\ Excluded /\ Bundles /\ Newest /\ \A q \in Procs : Knows(q)
  BY DEF IInv, Bundles
<1>2. Excluded'
  BY <1>1, ExcludedStep
<1>3. Bundles' /\ (app \in accepted => app' = app \/ app' > app)
  BY <1>1, BundlesStep, ManualBundlesStep
<1>4. Knows(p)'
  BY <1>1, KnowsOwn, ManualKnowsOwn
<1>5. ASSUME NEW q \in Procs, q # p PROVE Knows(q)'
  <2>1. /\ pc'[q] = pc[q] /\ mem'[q] = mem[q] /\ stage'[q] = stage[q]
        /\ Inside(p) \/ UNCHANGED <<app, index, accepted>>
    BY <1>1, <1>5, Local, ManualLocal
  <2> QED
    BY <1>1, <1>5, <2>1, KnowsOthers
<1> QED
  BY <1>2, <1>3, <1>4, <1>5

LEMMA Outside ==
  ASSUME IInv, Publish \/ Open \/ UNCHANGED vars
  PROVE  /\ Excluded' /\ Bundles' /\ (\A q \in Procs : Knows(q)')
         /\ app' = app
<1>1. /\ UNCHANGED <<app, receipt, stage, kept, accepted, pc, mem, lease>>
      /\ index' = index \/ index' = app
  BY DEF Publish, Open, Disk, World, vars
<1>2. Excluded'
  BY <1>1 DEF IInv, Excluded, Inside, Busy
<1>3. Bundles'
  BY <1>1, SameBundles DEF IInv, Bundles
<1>4. ASSUME NEW q \in Procs PROVE Knows(q)'
  BY <1>1, <1>4 DEF IInv, Knows, Concluded
<1> QED
  BY <1>1, <1>2, <1>3, <1>4

LEMMA IInvNext ==
  ASSUME ~ Overlap, IInv, [Next]_vars
  PROVE  IInv' /\ (app \in accepted => app' = app \/ app' > app)
<1>1. Typed'
  BY TypedNext DEF IInv
<1>2. /\ Excluded' /\ Bundles' /\ \A q \in Procs : Knows(q)'
      /\ app \in accepted => app' = app \/ app' > app
  BY IInvStep, Outside DEF Next, Step, ManualStep, Procs
<1> QED
  BY <1>1, <1>2 DEF IInv, Bundles

LEMMA IInvAlways == ~ Overlap => (Spec => []IInv)
<1> SUFFICES ASSUME ~ Overlap PROVE Spec => []IInv
  OBVIOUS
<1>1. Init => IInv
  BY IInvInit
<1>2. IInv /\ [Next]_vars => IInv'
  BY IInvNext
<1> QED
  BY <1>1, <1>2, PTL DEF Spec

\* Manual upgrades apart, whatever fails or dies a bundle that passed its
\* installer's last check is installed or still on disk (the rollback of
\* unattended.go, the deferred removals of both installers).
THEOREM AcceptedStaysOnDisk == ~ Overlap => (Spec => []AcceptedIsOnDisk)
<1>1. IInv => AcceptedIsOnDisk
  BY DEF IInv
<1> QED
  BY <1>1, IInvAlways, PTL

\* Manual upgrades apart, the saved receipt claims only updates that passed
\* strict health.
THEOREM SuccessesAreProved == ~ Overlap => (Spec => []SuccessIsProved)
<1>1. IInv => SuccessIsProved
  BY DEF IInv
<1> QED
  BY <1>1, IInvAlways, PTL

\* Manual upgrades apart, a receipt of a failure is saved when what was
\* installed before is installed again and its index with it.
THEOREM FailuresAreTrue == ~ Overlap => (Spec => FailureIsTrue)
<1>1. ASSUME IInv, NEW p \in Scheduled, Save(p),
             receipt'.outcome \in {"deferred", "failed_before_swap", "rolled_back"}
      PROVE  app = mem[p].found /\ (receipt'.rebuild = "succeeded" => index = app)
  <2>1. Concluded(p) /\ receipt' = mem[p].rec
    BY <1>1 DEF Save, IInv, Knows, Procs
  <2> QED
    BY <1>1, <2>1 DEF Concluded, Failures
<1>2. IInv => [\A p \in Scheduled :
        Save(p) /\ receipt'.outcome \in {"deferred", "failed_before_swap", "rolled_back"}
          => /\ app = mem[p].found
             /\ receipt'.rebuild = "succeeded" => index = app]_vars
  BY <1>1
<1> QED
  BY <1>2, IInvAlways, PTL DEF FailureIsTrue

\* Manual upgrades apart, no rollback replaces an accepted version by an older.
THEOREM AcceptedNotUndone == ~ Overlap => (Spec => AcceptedIsNotUndone)
<1> SUFFICES ASSUME ~ Overlap PROVE Spec => AcceptedIsNotUndone
  OBVIOUS
<1>1. IInv /\ [Next]_vars => [(app \in accepted) => app' >= app]_vars
  <2> SUFFICES ASSUME IInv, [Next]_vars, app \in accepted PROVE app' >= app
    OBVIOUS
  <2>1. app' = app \/ app' > app
    BY IInvNext
  <2>2. Typed /\ Typed'
    BY IInvNext DEF IInv
  <2>3. app \in Versions /\ app' \in Versions
    BY <2>2 DEF Typed, TypeOK
  <2> QED
    BY <2>1, <2>3, UpdateAssumption DEF Versions
<1> QED
  BY <1>1, IInvAlways, PTL DEF Spec, AcceptedIsNotUndone

=============================================================================
