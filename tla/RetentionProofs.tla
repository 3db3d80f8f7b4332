-------------------------- MODULE RetentionProofs --------------------------
(***************************************************************************)
(* Theorems about Retention, for every set of memories, of reports and of  *)
(* processes, every choice of young and of historical memories and every   *)
(* bound.                                                                  *)
(***************************************************************************)
EXTENDS Retention, WellFoundedInduction, TLAPS

All == Procs \cup {Job}

-----------------------------------------------------------------------------
(* What each process has in hand at each step: the first invariant, on     *)
(* which the others rest.                                                  *)

\* A person runs one command at a time.
Alone == \A p, q \in Procs : pc[p] # "idle" /\ pc[q] # "idle" => p = q

\* The index's write transaction is the rebuild's that lists or commits.
Locked == \A q \in All : writer = q <=> pc[q] \in {"list", "commit"}

Manifest == [id: ManifestId, data: UNION {[s -> Content] : s \in SUBSET Memories}, open: BOOLEAN]

\* A manifest is about candidates of its report, and there is one of an id.
Manifested ==
    /\ reports \in [Reports -> Report \cup {None}]
    /\ \A x \in manifests :
          /\ x \in Manifest
          /\ reports[x.id.report] # None
          /\ x.id.targets \subseteq Candidates(x.id.report)
    /\ \A x, y \in manifests : x.id = y.id => x = y

Executing(q) == cmd[q].run # 0
Changes == {"mark", "write", "output", "append", "hash", "unlink"}

\* An execution works on what it judged when it began.
Planned(q) ==
    LET c == cmd[q]
    IN /\ c.id \in ManifestId
       /\ reports[c.id.report] # None
       /\ c.plan \in [Candidates(c.id.report) -> Actions]
       /\ c.id.targets = {m \in Candidates(c.id.report) : c.plan[m] # "keep"}
       /\ c.todo \subseteq c.id.targets

ExecutionShape(q) ==
    /\ pc[q] \in {"snapshot", "recheck", "unmark"} \cup Executes => Executing(q)
    /\ Executing(q) =>
          /\ pc[q] \in {"snapshot", "recheck", "unmark"} \cup Executes \cup Rebuilds
          /\ Planned(q)
          /\ pc[q] \in {"snapshot", "recheck"} => cmd[q].todo = cmd[q].id.targets
          /\ pc[q] \in {"unmark"} \cup Rebuilds => cmd[q].todo = {}
          /\ pc[q] \in Changes => cmd[q].todo # {}

\* The step an execution is at is that of its candidate's decision.
ActShape(q) ==
    /\ pc[q] \in {"mark", "write"} => cmd[q].read \in Content
    /\ pc[q] = "write" => Act(q) = "change-class"
    /\ pc[q] = "output" => Act(q) = "compact"
    /\ pc[q] \in {"append", "hash", "unlink"} => Act(q) \in {"compact", "delete"}

RecoveryShape(q) ==
    /\ pc[q] # "ledger"
    /\ pc[q] \in {"restore", "revoke"} =>
          LET c == cmd[q]
          IN /\ c.id \in ManifestId
             /\ reports[c.id.report] # None
             /\ c.id.targets \subseteq Candidates(c.id.report)
             /\ c.todo \subseteq c.id.targets

JobShape(q) == q = Job => pc[q] \in {"idle"} \cup Rebuilds /\ ~ Executing(q)

ProcShape(q) == JobShape(q) /\ ExecutionShape(q) /\ ActShape(q) /\ RecoveryShape(q)

Shaped == TypeOK /\ Alone /\ Locked /\ Manifested /\ \A q \in All : ProcShape(q)

-----------------------------------------------------------------------------
(* The model's data. *)

\* The candidate an execution takes next is one it has still to do.
LEMMA LeastIsIn ==
  ASSUME NEW s \in SUBSET Nat, s # {}
  PROVE  Least(s) \in s
<1>1. PICK x \in s : \A y \in s : ~ (<<y, x>> \in OpToRel(<, Nat))
  BY NatLessThanWellFounded, WFMin
<1>2. ASSUME NEW y \in s, y < x PROVE FALSE
  <2>1. <<y, x>> \in Nat \X Nat /\ <<y, x>>[1] = y /\ <<y, x>>[2] = x  OBVIOUS
  <2>2. <<y, x>> \in OpToRel(<, Nat)  BY <1>2, <2>1 DEF OpToRel
  <2> QED BY <1>1, <2>2
<1>3. \A y \in s : x <= y  BY <1>2
<1> QED BY <1>3 DEF Least

LEMMA CommandFields ==
  ASSUME NEW c \in Command
  PROVE  /\ c.id \in ManifestId \cup {NoId} /\ c.plan \in Plans \cup {None}
         /\ c.run \in 0 .. MaxRuns /\ c.todo \in SUBSET Memories
         /\ c.read \in File /\ c.noted \in SUBSET Marker /\ c.seen \in Vault
  BY DEF Command

LEMMA BlankIsCommand == Blank \in Command
  BY RetentionAssumption DEF Blank, Command, File, Nothing, Vault

\* What a command begins with.
LEMMA BegunIsCommand ==
  ASSUME NEW i \in ManifestId, NEW plan \in Plans \cup {None}, NEW n \in 0 .. MaxRuns,
         NEW todo \in SUBSET Memories
  PROVE  [Blank EXCEPT !.id = i, !.plan = plan, !.run = n, !.todo = todo] \in Command
  BY BlankIsCommand DEF Command

LEMMA ReportFields ==
  ASSUME Shaped, NEW r \in Reports, reports[r] # None
  PROVE  /\ Candidates(r) \in SUBSET Memories
         /\ reports[r] \in Report
         /\ reports[r].cands \in [Candidates(r) -> Content]
         /\ reports[r].decided \in [Candidates(r) -> Actions \cup {None}]
  BY DEF Shaped, Manifested, Report, Candidates

LEMMA ReviewedIsContent ==
  ASSUME Shaped, NEW r \in Reports, reports[r] # None, NEW m \in Candidates(r)
  PROVE  Reviewed(r, m) \in Content
  BY ReportFields DEF Reviewed

LEMMA ManifestIdFields ==
  ASSUME NEW i \in ManifestId
  PROVE  i.report \in Reports /\ i.targets \in SUBSET Memories /\ i.at \in Nat
  BY DEF ManifestId

LEMMA CandidateIsIn ==
  ASSUME Shaped, NEW p \in Procs, pc[p] \in Changes \/ (pc[p] = "next" /\ cmd[p].todo # {})
  PROVE  /\ Candidate(p) \in cmd[p].todo /\ Candidate(p) \in cmd[p].id.targets
         /\ Candidate(p) \in Candidates(cmd[p].id.report) /\ Candidate(p) \in Memories
         /\ cmd[p].id \in ManifestId /\ cmd[p].id.report \in Reports
         /\ reports[cmd[p].id.report] # None /\ Executing(p)
         /\ Act(p) \in Actions \ {"keep"}
         /\ Reviews(p) \in Content
<1>1. /\ pc[p] \in Executes
      /\ p \in All /\ cmd[p] \in Command
  BY DEF Changes, Executes, Shaped, TypeOK, All
<1>2. /\ Executing(p) /\ Planned(p) /\ cmd[p].todo # {}
  BY <1>1 DEF Shaped, ProcShape, ExecutionShape
<1>3. cmd[p].todo \in SUBSET Nat
  BY <1>1, CommandFields, RetentionAssumption
<1>4. Candidate(p) \in cmd[p].todo
  BY <1>2, <1>3, LeastIsIn DEF Candidate
<1>5. cmd[p].id.report \in Reports
  BY <1>2, ManifestIdFields DEF Planned
<1> QED BY <1>1, <1>2, <1>4, <1>5, CommandFields, ReviewedIsContent DEF Planned, Act, Reviews

-----------------------------------------------------------------------------
(* A step of one process. *)

Moves(q, s, c) ==
    /\ pc' = [pc EXCEPT ![q] = s] \/ (pc' = pc /\ s = pc[q])
    /\ cmd' = [cmd EXCEPT ![q] = c] \/ (cmd' = cmd /\ c = cmd[q])

LEMMA Moved ==
  ASSUME TypeOK, NEW q \in All, NEW s \in Steps, NEW c \in Command, Moves(q, s, c)
  PROVE  /\ pc' \in [All -> Steps] /\ cmd' \in [All -> Command]
         /\ pc'[q] = s /\ cmd'[q] = c
         /\ \A o \in All \ {q} : pc'[o] = pc[o] /\ cmd'[o] = cmd[o]
  BY DEF TypeOK, Moves, All

\* What a process has in hand does not change with the steps of others.
LEMMA ShapeStays ==
  ASSUME NEW q, pc'[q] = pc[q], cmd'[q] = cmd[q],
         \A r \in Reports : reports[r] # None => reports'[r] # None /\ Candidates(r)' = Candidates(r),
         ProcShape(q)
  PROVE  ProcShape(q)'
<1>1. JobShape(q)'  BY DEF ProcShape, JobShape, Executing
<1>2. Planned(q) => Planned(q)'
  BY ManifestIdFields DEF Planned
<1>3. ExecutionShape(q)'  BY <1>2 DEF ProcShape, ExecutionShape, Executing
<1>4. ActShape(q)'  BY DEF ProcShape, ActShape, Act, Candidate
<1>5. RecoveryShape(q)'  BY ManifestIdFields DEF ProcShape, RecoveryShape
<1> QED BY <1>1, <1>3, <1>4, <1>5 DEF ProcShape

\* A step that neither takes nor gives back the transaction.
LEMMA QuietMove ==
  ASSUME Shaped, NEW q \in All, NEW s \in Steps, NEW c \in Command, Moves(q, s, c),
         pc[q] \notin {"list", "commit"}, s \notin {"list", "commit"},
         q # Job => pc[q] # "idle" \/ (\A o \in Procs : pc[o] = "idle"),
         UNCHANGED <<writer, reports>>
  PROVE  /\ pc' \in [All -> Steps] /\ cmd' \in [All -> Command]
         /\ pc'[q] = s /\ cmd'[q] = c
         /\ \A o \in All \ {q} : pc'[o] = pc[o] /\ cmd'[o] = cmd[o]
         /\ \A o \in All \ {q} : ProcShape(o)'
         /\ Alone' /\ Locked'
<1>1. /\ pc' \in [All -> Steps] /\ cmd' \in [All -> Command]
      /\ pc'[q] = s /\ cmd'[q] = c
      /\ \A o \in All \ {q} : pc'[o] = pc[o] /\ cmd'[o] = cmd[o]
  BY Moved DEF Shaped
<1>2. \A o \in All \ {q} : ProcShape(o)'
  BY <1>1, ShapeStays DEF Shaped, Candidates
<1>3. Alone'  BY <1>1, RetentionAssumption DEF Shaped, Alone, All
<1>4. Locked'  BY <1>1 DEF Shaped, Locked
<1> QED BY <1>1, <1>2, <1>3, <1>4

\* A command that ends has nothing in hand.
LEMMA EndShape ==
  ASSUME NEW q, pc'[q] = "idle", cmd'[q] = Blank
  PROVE  ProcShape(q)'
  BY DEF ProcShape, JobShape, ExecutionShape, ActShape, RecoveryShape, Executing, Blank,
         Executes, Rebuilds, Changes

LEMMA ShapedReport ==
  ASSUME Shaped, NEW p \in Procs, NEW r \in Reports, BuildReport(p, r)
  PROVE  Shaped'
<1> DEFINE old == Present \ Young
           rep == [cands |-> [m \in old |-> vault[m]], decided |-> [m \in old |-> None]]
<1>1. /\ reports[r] = None /\ reports' = [reports EXCEPT ![r] = rep]
      /\ UNCHANGED <<vault, version, outputs, manifests, prunes, marks, rows, writer, pc, cmd>>
      /\ UNCHANGED <<removed, gone, cut, most, runs, faults>>
  BY DEF BuildReport, index, history, bounds
<1>2. rep \in Report
  <2>1. old \in SUBSET Memories /\ [m \in old |-> vault[m]] \in [old -> Content]
    BY DEF Shaped, TypeOK, Present, Vault, File
  <2>2. [m \in old |-> None] \in [old -> Actions \cup {None}]  OBVIOUS
  <2>3. rep \in [cands: [old -> Content], decided: [old -> Actions \cup {None}]]
    BY <2>1, <2>2
  <2> HIDE DEF rep, old
  <2> QED BY <2>1, <2>3 DEF Report
<1>3. reports' \in [Reports -> Report \cup {None}]  BY <1>1, <1>2 DEF Shaped, Manifested
<1>4. \A n \in Reports : reports[n] # None => reports'[n] # None /\ Candidates(n)' = Candidates(n)
  BY <1>1, <1>3 DEF Candidates, Shaped, Manifested
<1>5. TypeOK'  BY <1>1, <1>3 DEF Shaped, TypeOK
<1>6. Alone' /\ Locked'  BY <1>1 DEF Shaped, Alone, Locked
<1>7. Manifested'  BY <1>1, <1>3, <1>4, ManifestIdFields DEF Shaped, Manifested, TypeOK
<1>8. \A q \in All : ProcShape(q)'  BY <1>1, <1>4, ShapeStays DEF Shaped
<1> QED BY <1>5, <1>6, <1>7, <1>8 DEF Shaped

\* A decision leaves the candidates as they were reviewed.
LEMMA DecidesOnly ==
  ASSUME Shaped, NEW p \in Procs, NEW r \in Reports, NEW m \in Memories, NEW a \in Actions,
         Decide(p, r, m, a)
  PROVE  /\ reports' \in [Reports -> Report \cup {None}]
         /\ \A n \in Reports : reports[n] # None =>
               reports'[n] # None /\ reports'[n].cands = reports[n].cands
<1> DEFINE d == [reports[r].decided EXCEPT ![m] = a]
           rep == [reports[r] EXCEPT !.decided = d]
<1>1. /\ reports' = [reports EXCEPT ![r] = rep]
      /\ m \in Candidates(r) /\ reports[r] # None
  BY DEF Decide
<1>2. PICK s \in SUBSET Memories : reports[r] \in [cands: [s -> Content], decided: [s -> Actions \cup {None}]]
  BY <1>1, ReportFields DEF Report
<1>3. d \in [s -> Actions \cup {None}]  BY <1>2
<1>4. rep \in [cands: [s -> Content], decided: [s -> Actions \cup {None}]] /\ rep.cands = reports[r].cands
  BY <1>2, <1>3
<1>5. rep \in Report  BY <1>4 DEF Report
<1>6. rep # None  
  <2> HIDE DEF rep
  <2> QED BY <1>5, RetentionAssumption DEF Report
<1> HIDE DEF rep
<1> QED BY <1>1, <1>4, <1>5, <1>6 DEF Shaped, Manifested

LEMMA ShapedDecide ==
  ASSUME Shaped, NEW p \in Procs, NEW r \in Reports, NEW m \in Memories, NEW a \in Actions,
         Decide(p, r, m, a)
  PROVE  Shaped'
<1>1. /\ UNCHANGED <<vault, version, outputs, manifests, prunes, marks, rows, writer, pc, cmd>>
      /\ UNCHANGED <<removed, gone, cut, most, runs, faults>>
  BY DEF Decide, index, history, bounds
<1>2. /\ reports' \in [Reports -> Report \cup {None}]
      /\ \A n \in Reports : reports[n] # None =>
               reports'[n] # None /\ reports'[n].cands = reports[n].cands
  BY DecidesOnly
<1>4. \A n \in Reports : reports[n] # None => reports'[n] # None /\ Candidates(n)' = Candidates(n)
  BY <1>2 DEF Candidates
<1>5. TypeOK'  BY <1>1, <1>2 DEF Shaped, TypeOK
<1>6. Alone' /\ Locked'  BY <1>1 DEF Shaped, Alone, Locked
<1>7. Manifested'  BY <1>1, <1>2, <1>4, ManifestIdFields DEF Shaped, Manifested, TypeOK
<1>8. \A q \in All : ProcShape(q)'  BY <1>1, <1>4, ShapeStays DEF Shaped
<1> QED BY <1>5, <1>6, <1>7, <1>8 DEF Shaped

\* Every decision was made, so the plan has an action for every candidate.
LEMMA ShapedExecute ==
  ASSUME Shaped, ~ Overlap, NEW p \in Procs, NEW r \in Reports, Execute(p, r)
  PROVE  Shaped'
<1> DEFINE i == [report |-> r, targets |-> Targets(r), at |-> Second[runs + 1]]
           c == [Blank EXCEPT !.id = i, !.plan = reports[r].decided, !.run = runs + 1,
                              !.todo = Targets(r)]
<1>1. /\ reports[r] # None /\ Validated(r) /\ runs < most.runs /\ runs' = runs + 1
      /\ Moves(p, "snapshot", c)
      /\ UNCHANGED <<vault, version, outputs, reports, manifests, prunes, marks, rows, writer>>
      /\ UNCHANGED <<removed, gone, cut, most, faults>>
      /\ \A o \in Procs : pc[o] = "idle"
  BY DEF Execute, index, history, Free, Goto, Moves
<1>2. /\ Targets(r) \in SUBSET Memories /\ Targets(r) \subseteq Candidates(r)
      /\ reports[r].decided \in [Candidates(r) -> Actions]
      /\ Targets(r) = {m \in Candidates(r) : reports[r].decided[m] # "keep"}
  BY <1>1, ReportFields DEF Targets, Validated, Decision
<1>3. runs \in Nat /\ runs + 1 \in 1 .. MaxRuns /\ MaxRuns \in Nat
  BY <1>1, RetentionAssumption DEF Shaped, TypeOK, Bound
<1>4. i \in ManifestId /\ i.targets = Targets(r) /\ i.report = r
  BY <1>2, <1>3, RetentionAssumption DEF ManifestId
<1>5. reports[r].decided \in Plans
  BY <1>1, ReportFields DEF Plans
<1>6. /\ c.id = i /\ c.plan = reports[r].decided /\ c.run = runs + 1 /\ c.todo = Targets(r)
      /\ c.read = NoFile /\ c.noted = {} /\ c.seen = Nothing
  BY DEF Blank
<1> HIDE DEF i
<1>7. c \in Command
  <2>1. /\ i \in ManifestId /\ reports[r].decided \in Plans \cup {None}
        /\ runs + 1 \in 0 .. MaxRuns /\ Targets(r) \in SUBSET Memories
    BY <1>2, <1>3, <1>4, <1>5
  <2> QED BY <2>1, BegunIsCommand
<1> HIDE DEF c
<1>8. pc[p] = "idle" /\ p \in All /\ "snapshot" \in Steps  BY <1>1 DEF All, Steps
<1>9. /\ pc' \in [All -> Steps] /\ cmd' \in [All -> Command]
      /\ pc'[p] = "snapshot" /\ cmd'[p] = c
      /\ \A o \in All \ {p} : ProcShape(o)'
      /\ Alone' /\ Locked'
  BY <1>1, <1>7, <1>8, QuietMove
<1>10. TypeOK'  BY <1>1, <1>3, <1>9 DEF Shaped, TypeOK, All, Bound
<1>11. Manifested'  BY <1>1 DEF Shaped, Manifested, Candidates
<1>12. Planned(p)' /\ cmd'[p].todo = cmd'[p].id.targets /\ Executing(p)'
  <2>1. reports' = reports /\ cmd'[p].id.report = r /\ cmd'[p].plan = reports[r].decided
    BY <1>1, <1>4, <1>6, <1>9
  <2>2. Planned(p)'  BY <1>1, <1>2, <1>4, <1>6, <1>9, <2>1 DEF Planned, Candidates
  <2>3. cmd'[p].run # 0  BY <1>3, <1>6, <1>9
  <2> QED BY <1>4, <1>6, <1>9, <2>2, <2>3 DEF Executing
<1>13. ProcShape(p)'
  BY <1>9, <1>12, RetentionAssumption
     DEF ProcShape, JobShape, ExecutionShape, ActShape, RecoveryShape, Rebuilds, Changes
<1> QED BY <1>9, <1>10, <1>11, <1>13 DEF Shaped

\* The facts of a step under way.
LEMMA UnderWay ==
  ASSUME Shaped, NEW p \in Procs, pc[p] # "idle"
  PROVE  /\ p \in All /\ p # Job /\ cmd[p] \in Command /\ ProcShape(p)
         /\ pc[p] \notin {"list", "commit"} => writer # p
  BY RetentionAssumption DEF Shaped, TypeOK, All, Locked

\* A manifest that replaces the one of its id, or none.
LEMMA ReplacedManifests ==
  ASSUME Shaped, UNCHANGED reports, NEW x \in Manifest,
         x.id \in ManifestId, x.data \in [x.id.targets -> Content], x.open \in BOOLEAN,
         reports[x.id.report] # None, x.id.targets \subseteq Candidates(x.id.report),
         \/ manifests' = Without(x.id) \cup {x}
         \/ manifests' = Without(x.id)
         \/ manifests' = manifests
  PROVE  /\ Manifested'
         /\ \A y \in manifests' : /\ y.id \in ManifestId
                                  /\ y.data \in [y.id.targets -> Content]
                                  /\ y.open \in BOOLEAN
<1>1. \A y \in manifests' : y \in manifests \/ (y = x /\ manifests' = Without(x.id) \cup {x})
  BY DEF Without
<1>2. \A y, z \in manifests' : y.id = z.id => y = z
  BY DEF Without, Shaped, Manifested
<1>3. \A r \in Reports : Candidates(r)' = Candidates(r)  BY DEF Candidates
<1>4. Manifested'  BY <1>1, <1>2, <1>3, ManifestIdFields DEF Shaped, Manifested, TypeOK
<1> QED BY <1>1, <1>4 DEF Shaped, TypeOK

LEMMA ShapedSnapshot ==
  ASSUME Shaped, NEW p \in Procs, Snapshot(p)
  PROVE  Shaped'
<1> DEFINE i == cmd[p].id
           x == [id |-> i, data |-> [m \in i.targets |-> vault[m]], open |-> TRUE]
<1>1. /\ pc[p] = "snapshot" /\ p \in All /\ p # Job /\ cmd[p] \in Command /\ Executing(p) /\ Planned(p)
      /\ cmd[p].todo = i.targets /\ i \in ManifestId
      /\ reports[i.report] # None /\ i.targets \subseteq Candidates(i.report)
  BY UnderWay DEF Snapshot, ProcShape, ExecutionShape, Planned
<1>2. /\ UNCHANGED <<vault, version, outputs, reports, prunes, marks, rows, writer>>
      /\ UNCHANGED <<removed, gone, cut, most, runs, faults>>
  BY DEF Snapshot, index, history, bounds
<1>3. CASE i.targets \subseteq Present
  <2>1. manifests' = Without(i) \cup {x} /\ Moves(p, "recheck", cmd[p])
    BY <1>3 DEF Snapshot, Goto, Moves
  <2>2. x.id = i /\ x.open \in BOOLEAN  OBVIOUS
  <2>3. x.data \in [i.targets -> Content] /\ i.targets \in SUBSET Memories
    BY <1>1, <1>3, ManifestIdFields DEF Present, Shaped, TypeOK, Vault, File
  <2>a. x \in Manifest
    <3> DEFINE d == x.data
    <3>1. d \in UNION {[s -> Content] : s \in SUBSET Memories}  BY <2>3
    <3> HIDE DEF d
    <3> QED BY <1>1, <3>1 DEF d, Manifest
  <2> HIDE DEF x
  <2>4. /\ Manifested'
        /\ \A y \in manifests' : /\ y.id \in ManifestId
                                  /\ y.data \in [y.id.targets -> Content]
                                  /\ y.open \in BOOLEAN
    BY <1>1, <1>2, <2>1, <2>2, <2>3, <2>a, ReplacedManifests
  <2>5. /\ pc' \in [All -> Steps] /\ cmd' \in [All -> Command]
        /\ pc'[p] = "recheck" /\ cmd'[p] = cmd[p]
        /\ \A o \in All \ {p} : ProcShape(o)'
        /\ Alone' /\ Locked'
    BY <1>1, <1>2, <2>1, QuietMove DEF Steps
  <2>6. TypeOK'  BY <1>2, <2>4, <2>5 DEF Shaped, TypeOK, All
  <2>b. Planned(p)' /\ Executing(p)'
    BY <1>1, <1>2, <2>5 DEF Planned, Executing, Candidates
  <2>7. ProcShape(p)'
    <3>1. ExecutionShape(p)'
      BY <1>1, <2>5, <2>b DEF ExecutionShape, Rebuilds, Changes
    <3>2. JobShape(p)' /\ ActShape(p)' /\ RecoveryShape(p)'
      BY <1>1, <2>5 DEF JobShape, ActShape, RecoveryShape
    <3> QED BY <3>1, <3>2 DEF ProcShape
  <2> QED BY <2>4, <2>5, <2>6, <2>7 DEF Shaped
<1>4. CASE ~ (i.targets \subseteq Present)
  <2>1. manifests' = manifests /\ Moves(p, "idle", Blank)
    BY <1>4 DEF Snapshot, Ends, Goto, Moves
  <2>5. /\ pc' \in [All -> Steps] /\ cmd' \in [All -> Command]
        /\ pc'[p] = "idle" /\ cmd'[p] = Blank
        /\ \A o \in All \ {p} : ProcShape(o)'
        /\ Alone' /\ Locked'
    BY <1>1, <1>2, <2>1, QuietMove, BlankIsCommand DEF Steps
  <2>6. TypeOK' /\ Manifested'
    BY <1>2, <2>1, <2>5 DEF Shaped, TypeOK, All, Manifested, Candidates
  <2> QED BY <2>5, <2>6, EndShape DEF Shaped
<1> QED BY <1>3, <1>4

LEMMA ShapedRecheck ==
  ASSUME Shaped, NEW p \in Procs, Recheck(p)
  PROVE  Shaped'
<1> DEFINE i == cmd[p].id
<1>1. /\ pc[p] = "recheck" /\ p \in All /\ p # Job /\ cmd[p] \in Command /\ Executing(p) /\ Planned(p)
      /\ cmd[p].todo = i.targets /\ i \in ManifestId
      /\ reports[i.report] # None /\ i.targets \subseteq Candidates(i.report)
  BY UnderWay DEF Recheck, ProcShape, ExecutionShape, Planned
<1>2. /\ UNCHANGED <<vault, version, outputs, reports, prunes, marks, rows, writer>>
      /\ UNCHANGED <<removed, gone, cut, most, runs, faults>>
      /\ manifests' \in {manifests, Without(i)}
  BY DEF Recheck, index, history, bounds
<1>3. /\ Manifested'
      /\ \A y \in manifests' : /\ y.id \in ManifestId
                               /\ y.data \in [y.id.targets -> Content]
                               /\ y.open \in BOOLEAN
  BY <1>2, ManifestIdFields DEF Manifested, Shaped, TypeOK, Without, Candidates
<1>4. CASE AsReviewed(i)
  <2>1. Moves(p, "next", cmd[p])
    BY <1>4 DEF Recheck, Goto, Moves
  <2>5. /\ pc' \in [All -> Steps] /\ cmd' \in [All -> Command]
        /\ pc'[p] = "next" /\ cmd'[p] = cmd[p]
        /\ \A o \in All \ {p} : ProcShape(o)'
        /\ Alone' /\ Locked'
    BY <1>1, <1>2, <2>1, QuietMove DEF Steps, Executes
  <2>6. TypeOK'  BY <1>2, <1>3, <2>5 DEF Shaped, TypeOK, All
  <2>8. Planned(p)' /\ Executing(p)'
    BY <1>1, <1>2, <2>5 DEF Planned, Executing, Candidates
  <2>7. ProcShape(p)'
    <3>1. ExecutionShape(p)'
      BY <1>1, <2>5, <2>8 DEF ExecutionShape, Rebuilds, Changes, Executes
    <3>2. JobShape(p)' /\ ActShape(p)' /\ RecoveryShape(p)'
      BY <1>1, <2>5 DEF JobShape, ActShape, RecoveryShape
    <3> QED BY <3>1, <3>2 DEF ProcShape
  <2> QED BY <1>3, <2>5, <2>6, <2>7 DEF Shaped
<1>5. CASE ~ AsReviewed(i)
  <2>1. Moves(p, "idle", Blank)
    BY <1>5 DEF Recheck, Ends, Goto, Moves
  <2>5. /\ pc' \in [All -> Steps] /\ cmd' \in [All -> Command]
        /\ pc'[p] = "idle" /\ cmd'[p] = Blank
        /\ \A o \in All \ {p} : ProcShape(o)'
        /\ Alone' /\ Locked'
    BY <1>1, <1>2, <2>1, QuietMove, BlankIsCommand DEF Steps
  <2>6. TypeOK'  BY <1>2, <1>3, <2>5 DEF Shaped, TypeOK, All
  <2> QED BY <1>3, <2>5, <2>6, EndShape DEF Shaped
<1> QED BY <1>4, <1>5

\* One candidate is done.
LEMMA Advances ==
  ASSUME Shaped, NEW p \in Procs, pc[p] \in Changes, Advance(p), UNCHANGED <<writer, reports>>
  PROVE  /\ pc' \in [All -> Steps] /\ cmd' \in [All -> Command]
         /\ pc'[p] = "next"
         /\ cmd'[p].id = cmd[p].id /\ cmd'[p].plan = cmd[p].plan /\ cmd'[p].run = cmd[p].run
         /\ cmd'[p].todo = cmd[p].todo \ {Candidate(p)}
         /\ \A o \in All \ {p} : pc'[o] = pc[o] /\ cmd'[o] = cmd[o]
         /\ \A q \in All : ProcShape(q)'
         /\ Alone' /\ Locked'
<1> DEFINE n == Candidate(p)
           c == [cmd[p] EXCEPT !.todo = @ \ {n}, !.read = NoFile]
<1>1. /\ p \in All /\ p # Job /\ cmd[p] \in Command /\ ProcShape(p) /\ pc[p] \in Executes
      /\ pc[p] # "idle"
  BY UnderWay DEF Changes, Executes
<1>2. Moves(p, "next", c)  BY DEF Advance, Goto, Moves
<1> HIDE DEF n
<1>3. /\ c.id = cmd[p].id /\ c.plan = cmd[p].plan /\ c.run = cmd[p].run
      /\ c.todo = cmd[p].todo \ {n} /\ c \in Command
  BY <1>1 DEF Command, File
<1> HIDE DEF c
<1>4. /\ pc' \in [All -> Steps] /\ cmd' \in [All -> Command]
      /\ pc'[p] = "next" /\ cmd'[p] = c
      /\ \A o \in All \ {p} : pc'[o] = pc[o] /\ cmd'[o] = cmd[o]
      /\ \A o \in All \ {p} : ProcShape(o)'
      /\ Alone' /\ Locked'
  BY <1>1, <1>2, <1>3, QuietMove DEF Steps, Executes, Changes
<1>5. Executing(p)' /\ Planned(p)'
  BY <1>1, <1>3, <1>4 DEF ProcShape, ExecutionShape, Planned, Executing, Candidates
<1>6. ProcShape(p)'
  BY <1>1, <1>4, <1>5 DEF ProcShape, JobShape, ExecutionShape, ActShape, RecoveryShape, Rebuilds,
     Changes, Executes
<1> QED BY <1>3, <1>4, <1>6 DEF n

\* The next step for the same candidate.
LEMMA Proceeds ==
  ASSUME Shaped, NEW p \in Procs, pc[p] \in Changes, NEW s \in Changes, Goto(p, s),
         cmd' = cmd, s \in {"mark", "write"} => cmd[p].read \in Content,
         s = "write" => Act(p) = "change-class",
         s = "output" => Act(p) = "compact",
         s \in {"append", "hash", "unlink"} => Act(p) \in {"compact", "delete"},
         UNCHANGED <<writer, reports>>
  PROVE  /\ pc' \in [All -> Steps] /\ cmd' \in [All -> Command]
         /\ pc'[p] = s /\ \A o \in All \ {p} : pc'[o] = pc[o]
         /\ \A q \in All : ProcShape(q)'
         /\ Alone' /\ Locked'
<1>1. /\ p \in All /\ p # Job /\ cmd[p] \in Command /\ ProcShape(p) /\ pc[p] \in Executes
      /\ pc[p] # "idle" /\ s \in Steps /\ s \in Executes
  BY UnderWay DEF Changes, Executes, Steps
<1>2. Moves(p, s, cmd[p])  BY DEF Goto, Moves
<1>4. /\ pc' \in [All -> Steps] /\ cmd' \in [All -> Command]
      /\ pc'[p] = s /\ cmd'[p] = cmd[p]
      /\ \A o \in All \ {p} : pc'[o] = pc[o] /\ cmd'[o] = cmd[o]
      /\ \A o \in All \ {p} : ProcShape(o)'
      /\ Alone' /\ Locked'
  BY <1>1, <1>2, QuietMove DEF Changes
<1>5. Executing(p)' /\ Planned(p)'
  BY <1>1, <1>4 DEF ProcShape, ExecutionShape, Planned, Executing, Candidates
<1>6. ProcShape(p)'
  BY <1>1, <1>4, <1>5 DEF ProcShape, JobShape, ExecutionShape, ActShape, RecoveryShape, Rebuilds,
     Changes, Executes, Act, Candidate
<1> QED BY <1>4, <1>6

\* A command that ends where it does not hold the transaction.
LEMMA EndsQuietly ==
  ASSUME Shaped, NEW q \in All, pc[q] \notin {"idle", "list", "commit"}, Ends(q),
         UNCHANGED <<writer, reports>>
  PROVE  /\ pc' \in [All -> Steps] /\ cmd' \in [All -> Command]
         /\ pc'[q] = "idle" /\ cmd'[q] = Blank
         /\ \A o \in All \ {q} : pc'[o] = pc[o] /\ cmd'[o] = cmd[o]
         /\ \A o \in All : ProcShape(o)'
         /\ Alone' /\ Locked'
<1>1. Moves(q, "idle", Blank) /\ "idle" \in Steps  BY DEF Ends, Goto, Moves, Steps
<1>2. /\ pc' \in [All -> Steps] /\ cmd' \in [All -> Command]
      /\ pc'[q] = "idle" /\ cmd'[q] = Blank
      /\ \A o \in All \ {q} : pc'[o] = pc[o] /\ cmd'[o] = cmd[o]
      /\ \A o \in All \ {q} : ProcShape(o)'
      /\ Alone' /\ Locked'
  BY <1>1, QuietMove, BlankIsCommand
<1> QED BY <1>2, EndShape

LEMMA ShapedParse ==
  ASSUME Shaped, NEW p \in Procs, Parse(p)
  PROVE  Shaped'
<1> DEFINE n == Candidate(p)
           c == [cmd[p] EXCEPT !.read = vault[n]]
<1>1. /\ pc[p] = "next" /\ cmd[p].todo # {} /\ p \in All /\ p # Job /\ cmd[p] \in Command /\ ProcShape(p)
      /\ n \in Memories
  BY UnderWay, CandidateIsIn DEF Parse
<1>2. /\ UNCHANGED <<vault, version, outputs, reports, manifests, prunes, marks, rows, writer>>
      /\ UNCHANGED <<removed, gone, most, runs, faults>>
      /\ cut' \in BOOLEAN
  BY DEF Parse, Interrupt, index, history, bounds, Shaped, TypeOK
<1>3. CASE vault[n] = NoFile
  <2>1. Ends(p)  BY <1>3 DEF Parse, Interrupt
  <2>2. /\ pc' \in [All -> Steps] /\ cmd' \in [All -> Command]
        /\ \A o \in All : ProcShape(o)'
        /\ Alone' /\ Locked'
    BY <1>1, <1>2, <2>1, EndsQuietly
  <2>3. TypeOK' /\ Manifested'
    BY <1>2, <2>2 DEF Shaped, TypeOK, All, Manifested, Candidates
  <2> QED BY <2>2, <2>3 DEF Shaped
<1>4. CASE vault[n] # NoFile
  <2>1. Moves(p, "mark", c)  BY <1>4 DEF Parse, Goto, Moves
  <2> HIDE DEF n
  <2>2. /\ c.id = cmd[p].id /\ c.plan = cmd[p].plan /\ c.run = cmd[p].run
        /\ c.todo = cmd[p].todo /\ c.read = vault[n] /\ c \in Command
    BY <1>1 DEF Command, File, Shaped, TypeOK, Vault
  <2> HIDE DEF c
  <2>3. /\ pc' \in [All -> Steps] /\ cmd' \in [All -> Command]
        /\ pc'[p] = "mark" /\ cmd'[p] = c
        /\ \A o \in All \ {p} : ProcShape(o)'
        /\ Alone' /\ Locked'
    BY <1>1, <1>2, <2>1, <2>2, QuietMove DEF Steps, Executes
  <2>4. Executing(p)' /\ Planned(p)'
    BY <1>1, <1>2, <2>2, <2>3 DEF ProcShape, ExecutionShape, Planned, Executing, Candidates, Executes
  <2>5. c.read \in Content  BY <1>1, <1>4, <2>2 DEF Shaped, TypeOK, Vault, File
  <2>6. ProcShape(p)'
    BY <1>1, <2>2, <2>3, <2>4, <2>5
       DEF ProcShape, JobShape, ExecutionShape, ActShape, RecoveryShape, Rebuilds, Changes, Executes
  <2>7. TypeOK' /\ Manifested'
    BY <1>2, <2>3 DEF Shaped, TypeOK, All, Manifested, Candidates
  <2> QED BY <2>3, <2>6, <2>7 DEF Shaped
<1> QED BY <1>3, <1>4

LEMMA ShapedMark ==
  ASSUME Shaped, NEW p \in Procs, Mark(p)
  PROVE  Shaped'
<1> DEFINE s == CASE Act(p) = "change-class" -> "write"
                  [] Act(p) = "compact"      -> "output"
                  [] OTHER                   -> "append"
<1>1. /\ pc[p] = "mark" /\ pc[p] \in Changes /\ cmd[p].run \in 1 .. MaxRuns /\ Candidate(p) \in Memories
      /\ Act(p) \in Actions \ {"keep"} /\ cmd[p].read \in Content
  BY UnderWay, CommandFields, CandidateIsIn DEF Mark, Changes, Executing, ProcShape, ActShape
<1>2. /\ UNCHANGED <<vault, version, outputs, reports, manifests, prunes, rows, writer, cmd>>
      /\ UNCHANGED <<removed, gone, cut, most, runs, faults>>
      /\ Goto(p, s) /\ marks' \subseteq marks \cup {[run |-> cmd[p].run, id |-> Candidate(p)]}
  BY DEF Mark, index, history, bounds
<1>3. marks' \in SUBSET Marker  BY <1>1, <1>2 DEF Shaped, TypeOK, Marker
<1>4. /\ s \in Changes /\ s \in {"write", "output", "append"}
      /\ s = "write" => Act(p) = "change-class"
      /\ s = "output" => Act(p) = "compact"
      /\ s = "append" => Act(p) \in {"compact", "delete"}
  BY <1>1 DEF Changes, Actions
<1> HIDE DEF s
<1>5. /\ pc' \in [All -> Steps] /\ cmd' \in [All -> Command]
      /\ \A q \in All : ProcShape(q)'
      /\ Alone' /\ Locked'
  BY <1>1, <1>2, <1>4, Proceeds
<1>6. TypeOK' /\ Manifested'
  BY <1>2, <1>3, <1>5 DEF Shaped, TypeOK, All, Manifested, Candidates
<1> QED BY <1>5, <1>6 DEF Shaped

LEMMA ShapedWrite ==
  ASSUME Shaped, NEW p \in Procs, Write(p)
  PROVE  Shaped'
<1>1. /\ pc[p] = "write" /\ pc[p] \in Changes /\ Candidate(p) \in Memories /\ cmd[p].read \in Content
  BY UnderWay, CandidateIsIn DEF Write, Changes, ProcShape, ActShape
<1>2. /\ UNCHANGED <<version, outputs, reports, manifests, prunes, marks, rows, writer>>
      /\ UNCHANGED <<removed, gone, cut, most, runs, faults>>
      /\ vault' = [vault EXCEPT ![Candidate(p)] = [cmd[p].read EXCEPT !.class = "changed"]]
      /\ Advance(p)
  BY DEF Write, index, history, bounds
<1>3. [cmd[p].read EXCEPT !.class = "changed"] \in Content  BY <1>1 DEF Content
<1>4. vault' \in Vault  BY <1>1, <1>2, <1>3 DEF Shaped, TypeOK, Vault, File
<1>5. /\ pc' \in [All -> Steps] /\ cmd' \in [All -> Command]
      /\ \A q \in All : ProcShape(q)'
      /\ Alone' /\ Locked'
  BY <1>1, <1>2, Advances
<1>6. TypeOK' /\ Manifested'
  BY <1>2, <1>4, <1>5 DEF Shaped, TypeOK, All, Manifested, Candidates
<1> QED BY <1>5, <1>6 DEF Shaped

LEMMA ShapedOutput ==
  ASSUME Shaped, NEW p \in Procs, Output(p)
  PROVE  Shaped'
<1>1. /\ pc[p] = "output" /\ pc[p] \in Changes /\ Candidate(p) \in Memories /\ Act(p) = "compact"
      /\ cmd[p].id.report \in Reports /\ "append" \in Changes
  BY UnderWay, CandidateIsIn DEF Output, Changes, ProcShape, ActShape
<1>2. /\ UNCHANGED <<vault, version, reports, manifests, prunes, marks, rows, writer, cmd>>
      /\ UNCHANGED <<removed, gone, cut, most, runs, faults>>
      /\ outputs' = outputs \cup {[report |-> cmd[p].id.report, id |-> Candidate(p)]}
      /\ Goto(p, "append")
  BY DEF Output, index, history, bounds
<1>3. outputs' \in SUBSET Prune  BY <1>1, <1>2 DEF Shaped, TypeOK, Prune
<1>4. /\ pc' \in [All -> Steps] /\ cmd' \in [All -> Command]
      /\ \A q \in All : ProcShape(q)'
      /\ Alone' /\ Locked'
  BY <1>1, <1>2, Proceeds
<1>5. TypeOK' /\ Manifested'
  BY <1>2, <1>3, <1>4 DEF Shaped, TypeOK, All, Manifested, Candidates
<1> QED BY <1>4, <1>5 DEF Shaped

LEMMA ShapedAppend ==
  ASSUME Shaped, NEW p \in Procs, Append(p)
  PROVE  Shaped'
<1>1. /\ pc[p] = "append" /\ pc[p] \in Changes /\ Candidate(p) \in Memories
      /\ Act(p) \in {"compact", "delete"} /\ cmd[p].id.report \in Reports /\ "hash" \in Changes
  BY UnderWay, CandidateIsIn DEF Append, Changes, ProcShape, ActShape
<1>2. /\ UNCHANGED <<vault, version, outputs, reports, manifests, marks, rows, writer, cmd>>
      /\ UNCHANGED <<removed, gone, cut, most, runs, faults>>
      /\ prunes' = prunes \cup {[report |-> cmd[p].id.report, id |-> Candidate(p)]}
      /\ Goto(p, "hash")
  BY DEF Append, index, history, bounds
<1>3. prunes' \in SUBSET Prune  BY <1>1, <1>2 DEF Shaped, TypeOK, Prune
<1>4. /\ pc' \in [All -> Steps] /\ cmd' \in [All -> Command]
      /\ \A q \in All : ProcShape(q)'
      /\ Alone' /\ Locked'
  BY <1>1, <1>2, Proceeds
<1>5. TypeOK' /\ Manifested'
  BY <1>2, <1>3, <1>4 DEF Shaped, TypeOK, All, Manifested, Candidates
<1> QED BY <1>4, <1>5 DEF Shaped

LEMMA ShapedHash ==
  ASSUME Shaped, NEW p \in Procs, Hash(p)
  PROVE  Shaped'
<1>1. /\ pc[p] = "hash" /\ pc[p] \in Changes /\ p \in All /\ "unlink" \in Changes
      /\ Act(p) \in {"compact", "delete"} /\ pc[p] \notin {"idle", "list", "commit"}
  BY UnderWay DEF Hash, Changes, ProcShape, ActShape
<1>2. /\ UNCHANGED <<vault, version, outputs, reports, manifests, prunes, marks, rows, writer>>
      /\ UNCHANGED <<removed, gone, most, runs, faults>> /\ cut' \in BOOLEAN
      /\ \/ Advance(p)
         \/ Goto(p, "unlink") /\ cmd' = cmd
         \/ Ends(p)
  BY DEF Hash, Interrupt, index, history, bounds, Shaped, TypeOK
<1>3. /\ pc' \in [All -> Steps] /\ cmd' \in [All -> Command]
      /\ \A q \in All : ProcShape(q)'
      /\ Alone' /\ Locked'
  <2>1. CASE Advance(p)  BY <1>1, <1>2, <2>1, Advances
  <2>2. CASE Goto(p, "unlink") /\ cmd' = cmd  BY <1>1, <1>2, <2>2, Proceeds
  <2>3. CASE Ends(p)  BY <1>1, <1>2, <2>3, EndsQuietly
  <2> QED BY <1>2, <2>1, <2>2, <2>3
<1>4. TypeOK' /\ Manifested'
  BY <1>2, <1>3 DEF Shaped, TypeOK, All, Manifested, Candidates
<1> QED BY <1>3, <1>4 DEF Shaped

LEMMA ShapedUnlink ==
  ASSUME Shaped, NEW p \in Procs, Unlink(p)
  PROVE  Shaped'
<1>1. /\ pc[p] = "unlink" /\ pc[p] \in Changes /\ Candidate(p) \in Memories
  BY CandidateIsIn DEF Unlink, Changes
<1>2. /\ UNCHANGED <<version, outputs, reports, manifests, prunes, marks, rows, writer>>
      /\ UNCHANGED <<gone, cut, most, runs, faults>>
      /\ removed' = removed \cup {[id |-> Candidate(p), content |-> vault[Candidate(p)]] :
                                   m \in Present \cap {Candidate(p)}}
      /\ vault' = [vault EXCEPT ![Candidate(p)] = NoFile]
      /\ Advance(p)
  BY DEF Unlink, index, bounds
<1>3. vault' \in Vault  BY <1>1, <1>2 DEF Shaped, TypeOK, Vault, File
<1>4. removed' \in SUBSET [id: Memories, content: Content]
  BY <1>1, <1>2 DEF Shaped, TypeOK, Vault, File, Present
<1>5. /\ pc' \in [All -> Steps] /\ cmd' \in [All -> Command]
      /\ \A q \in All : ProcShape(q)'
      /\ Alone' /\ Locked'
  BY <1>1, <1>2, Advances
<1>6. TypeOK' /\ Manifested'
  BY <1>2, <1>3, <1>4, <1>5 DEF Shaped, TypeOK, All, Manifested, Candidates
<1> QED BY <1>5, <1>6 DEF Shaped

LEMMA ShapedToRebuild ==
  ASSUME Shaped, NEW p \in Procs, ToRebuild(p)
  PROVE  Shaped'
<1>1. /\ pc[p] = "next" /\ cmd[p].todo = {} /\ p \in All /\ p # Job /\ cmd[p] \in Command /\ ProcShape(p)
      /\ Moves(p, "begin", cmd[p]) /\ "begin" \in Steps
  BY UnderWay DEF ToRebuild, Goto, Moves, Steps, Rebuilds
<1>2. /\ UNCHANGED <<vault, version, outputs, reports, manifests, prunes, marks, rows, writer>>
      /\ UNCHANGED <<removed, gone, cut, most, runs, faults>>
  BY DEF ToRebuild, index, history, bounds
<1>3. /\ pc' \in [All -> Steps] /\ cmd' \in [All -> Command]
      /\ pc'[p] = "begin" /\ cmd'[p] = cmd[p]
      /\ \A o \in All \ {p} : ProcShape(o)'
      /\ Alone' /\ Locked'
  BY <1>1, <1>2, QuietMove
<1>4. Executing(p)' /\ Planned(p)'
  BY <1>1, <1>2, <1>3 DEF ProcShape, ExecutionShape, Planned, Executing, Candidates, Executes
<1>5. ProcShape(p)'
  BY <1>1, <1>3, <1>4
     DEF ProcShape, JobShape, ExecutionShape, ActShape, RecoveryShape, Rebuilds, Changes, Executes
<1>6. TypeOK' /\ Manifested'
  BY <1>2, <1>3 DEF Shaped, TypeOK, All, Manifested, Candidates
<1> QED BY <1>3, <1>5, <1>6 DEF Shaped

LEMMA ShapedUnmark ==
  ASSUME Shaped, NEW p \in Procs, Unmark(p)
  PROVE  Shaped'
<1>1. /\ pc[p] = "unmark" /\ p \in All /\ Planned(p)
  BY UnderWay DEF Unmark, ProcShape, ExecutionShape
<1>2. /\ UNCHANGED <<vault, version, outputs, reports, manifests, prunes, rows, writer>>
      /\ UNCHANGED <<removed, cut, most, runs, faults>>
      /\ marks' \subseteq marks
      /\ gone' \subseteq gone \cup cmd[p].id.targets
      /\ Ends(p)
  BY DEF Unmark, index, bounds
<1>3. /\ pc' \in [All -> Steps] /\ cmd' \in [All -> Command]
      /\ \A q \in All : ProcShape(q)'
      /\ Alone' /\ Locked'
  BY <1>1, <1>2, EndsQuietly
<1>4. cmd[p].id.targets \subseteq Memories  BY <1>1, ManifestIdFields DEF Planned
<1>5. TypeOK' /\ Manifested'
  BY <1>2, <1>3, <1>4 DEF Shaped, TypeOK, All, Manifested, Candidates
<1> QED BY <1>3, <1>5 DEF Shaped

LEMMA ShapedRecover ==
  ASSUME Shaped, ~ Overlap, NEW p \in Procs, NEW x \in manifests, Recover(p, x)
  PROVE  Shaped'
<1> DEFINE c == [Blank EXCEPT !.id = x.id, !.todo = x.id.targets]
<1>1. /\ Moves(p, "restore", c) /\ "restore" \in Steps
      /\ UNCHANGED <<vault, version, outputs, reports, manifests, prunes, marks, rows, writer>>
      /\ UNCHANGED <<removed, gone, cut, most, runs, faults>>
      /\ \A o \in Procs : pc[o] = "idle"
  BY DEF Recover, index, history, bounds, Free, Goto, Moves, Steps, Recovers
<1>2. /\ x.id \in ManifestId /\ x.id.report \in Reports /\ x.id.targets \in SUBSET Memories
      /\ reports[x.id.report] # None /\ x.id.targets \subseteq Candidates(x.id.report)
  BY ManifestIdFields DEF Shaped, TypeOK, Manifested
<1>3. c \in Command
  BY <1>2, BlankIsCommand DEF Command
<1>4. c.id = x.id /\ c.todo = x.id.targets /\ c.run = 0  BY DEF Blank
<1> HIDE DEF c
<1>5. /\ pc' \in [All -> Steps] /\ cmd' \in [All -> Command]
      /\ pc'[p] = "restore" /\ cmd'[p] = c
      /\ \A o \in All \ {p} : ProcShape(o)'
      /\ Alone' /\ Locked'
  BY <1>1, <1>3, QuietMove DEF All
<1>6. ProcShape(p)'
  BY <1>1, <1>2, <1>4, <1>5, RetentionAssumption
     DEF ProcShape, JobShape, ExecutionShape, ActShape, RecoveryShape, Rebuilds, Changes, Executes,
         Executing, Candidates
<1>7. TypeOK' /\ Manifested'
  BY <1>1, <1>5 DEF Shaped, TypeOK, All, Manifested, Candidates
<1> QED BY <1>5, <1>6, <1>7 DEF Shaped

\* A recovery works off the memories of its manifest.
LEMMA RecoveryMoves ==
  ASSUME Shaped, NEW p \in Procs, pc[p] \in {"restore", "revoke"}, NEW s \in {"restore", "revoke"},
         NEW c, c = [cmd[p] EXCEPT !.todo = c.todo], c.todo \in SUBSET cmd[p].id.targets,
         Moves(p, s, c), UNCHANGED <<writer, reports>>
  PROVE  /\ pc' \in [All -> Steps] /\ cmd' \in [All -> Command]
         /\ pc'[p] = s /\ cmd'[p].id = cmd[p].id /\ cmd'[p].todo = c.todo /\ cmd'[p].run = cmd[p].run
         /\ \A o \in All \ {p} : pc'[o] = pc[o] /\ cmd'[o] = cmd[o]
         /\ \A q \in All : ProcShape(q)'
         /\ Alone' /\ Locked'
<1> DEFINE t == c.todo
<1>1. /\ p \in All /\ p # Job /\ cmd[p] \in Command /\ ProcShape(p) /\ pc[p] # "idle"
      /\ s \in Steps /\ cmd[p].id \in ManifestId /\ cmd[p].id.targets \in SUBSET Memories
  BY UnderWay, ManifestIdFields DEF ProcShape, RecoveryShape, Steps, Recovers
<1>2. /\ c.id = cmd[p].id /\ c.run = cmd[p].run /\ c \in Command
  <2> HIDE DEF t
  <2>1. [cmd[p] EXCEPT !.todo = t].id = cmd[p].id /\ [cmd[p] EXCEPT !.todo = t].run = cmd[p].run
    BY <1>1 DEF Command
  <2>2. t \in SUBSET Memories  BY <1>1 DEF t
  <2>3. [cmd[p] EXCEPT !.todo = t] \in Command  BY <1>1, <2>2 DEF Command
  <2> QED BY <2>1, <2>3 DEF t
<1>3. /\ pc' \in [All -> Steps] /\ cmd' \in [All -> Command]
      /\ pc'[p] = s /\ cmd'[p] = c
      /\ \A o \in All \ {p} : pc'[o] = pc[o] /\ cmd'[o] = cmd[o]
      /\ \A o \in All \ {p} : ProcShape(o)'
      /\ Alone' /\ Locked'
  BY <1>1, <1>2, QuietMove
<1>4. ProcShape(p)'
  BY <1>1, <1>2, <1>3
     DEF ProcShape, JobShape, ExecutionShape, ActShape, RecoveryShape, Rebuilds, Changes, Executes,
         Executing, Candidates
<1> QED BY <1>2, <1>3, <1>4

LEMMA RestoreMoves ==
  ASSUME Shaped, NEW p \in Procs, NEW m \in Memories,
         \/ pc[p] = "restore" /\ Restore(p, m)
         \/ pc[p] = "revoke" /\ Revoke(p, m)
  PROVE  /\ pc' \in [All -> Steps] /\ cmd' \in [All -> Command]
         /\ pc'[p] = pc[p] /\ cmd'[p].id = cmd[p].id /\ cmd'[p].todo = cmd[p].todo \ {m}
         /\ cmd'[p].run = cmd[p].run
         /\ \A o \in All \ {p} : pc'[o] = pc[o] /\ cmd'[o] = cmd[o]
         /\ \A q \in All : ProcShape(q)'
         /\ Alone' /\ Locked'
<1> DEFINE c == [cmd[p] EXCEPT !.todo = cmd[p].todo \ {m}]
<1>1. /\ Moves(p, pc[p], c)  /\ UNCHANGED <<writer, reports>> /\ pc[p] \in {"restore", "revoke"}
  BY DEF Restore, Revoke, Moves, index
<1>2. cmd[p].todo \subseteq cmd[p].id.targets /\ cmd[p] \in Command
  BY <1>1, UnderWay DEF ProcShape, RecoveryShape
<1>3. c.todo = cmd[p].todo \ {m} /\ c = [cmd[p] EXCEPT !.todo = c.todo]
  BY <1>2 DEF Command
<1>4. c.todo \in SUBSET cmd[p].id.targets  BY <1>2, <1>3
<1> HIDE DEF c
<1>5. CASE pc[p] = "restore"
  <2>1. Moves(p, "restore", c)  BY <1>1, <1>5
  <2> QED BY <1>1, <1>3, <1>4, <1>5, <2>1, RecoveryMoves
<1>6. CASE pc[p] = "revoke"
  <2>1. Moves(p, "revoke", c)  BY <1>1, <1>6
  <2> QED BY <1>1, <1>3, <1>4, <1>6, <2>1, RecoveryMoves
<1> QED BY <1>1, <1>5, <1>6

LEMMA ShapedRestore ==
  ASSUME Shaped, NEW p \in Procs, NEW m \in Memories, Restore(p, m)
  PROVE  Shaped'
<1> DEFINE f == Reviewed(cmd[p].id.report, m)
<1>1. /\ pc[p] = "restore" /\ m \in cmd[p].todo /\ ProcShape(p)
      /\ UNCHANGED <<version, outputs, reports, manifests, prunes, marks, rows, writer>>
      /\ UNCHANGED <<removed, cut, most, runs, faults>>
      /\ vault' = [vault EXCEPT ![m] = f] /\ gone' = gone \ {m}
  BY UnderWay DEF Restore, index, bounds
<1>2. f \in Content
  BY <1>1, ReviewedIsContent, ManifestIdFields DEF ProcShape, RecoveryShape
<1>3. vault' \in Vault  BY <1>1, <1>2 DEF Shaped, TypeOK, Vault, File
<1>4. /\ pc' \in [All -> Steps] /\ cmd' \in [All -> Command]
      /\ \A q \in All : ProcShape(q)'
      /\ Alone' /\ Locked'
  BY <1>1, RestoreMoves
<1>5. TypeOK' /\ Manifested'
  BY <1>1, <1>3, <1>4 DEF Shaped, TypeOK, All, Manifested, Candidates
<1> QED BY <1>4, <1>5 DEF Shaped

LEMMA ShapedLoadLedger ==
  ASSUME Shaped, NEW p \in Procs, LoadLedger(p)
  PROVE  Shaped'
<1> DEFINE t == {m \in cmd[p].id.targets : [report |-> cmd[p].id.report, id |-> m] \in prunes}
           c == [cmd[p] EXCEPT !.todo = t]
<1>1. /\ pc[p] = "restore" /\ cmd[p] \in Command
      /\ UNCHANGED <<vault, version, outputs, reports, manifests, prunes, marks, rows, writer>>
      /\ UNCHANGED <<removed, gone, cut, most, runs, faults>>
      /\ Moves(p, "revoke", c)
  BY UnderWay DEF LoadLedger, index, history, bounds, Goto, Moves
<1>2. t \in SUBSET cmd[p].id.targets  OBVIOUS
<1> HIDE DEF t
<1>3. c.todo = t /\ c = [cmd[p] EXCEPT !.todo = c.todo]  BY <1>1 DEF Command
<1> HIDE DEF c
<1>4. /\ pc' \in [All -> Steps] /\ cmd' \in [All -> Command]
      /\ \A q \in All : ProcShape(q)'
      /\ Alone' /\ Locked'
  BY <1>1, <1>2, <1>3, RecoveryMoves
<1>5. TypeOK' /\ Manifested'
  BY <1>1, <1>4 DEF Shaped, TypeOK, All, Manifested, Candidates
<1> QED BY <1>4, <1>5 DEF Shaped

LEMMA ShapedRevoke ==
  ASSUME Shaped, NEW p \in Procs, NEW m \in Memories, Revoke(p, m)
  PROVE  Shaped'
<1>1. /\ pc[p] = "revoke"
      /\ UNCHANGED <<vault, version, outputs, reports, manifests, marks, rows, writer>>
      /\ UNCHANGED <<removed, gone, cut, most, runs, faults>>
      /\ prunes' \subseteq prunes
  BY DEF Revoke, index, history, bounds
<1>2. /\ pc' \in [All -> Steps] /\ cmd' \in [All -> Command]
      /\ \A q \in All : ProcShape(q)'
      /\ Alone' /\ Locked'
  BY <1>1, RestoreMoves
<1>3. TypeOK' /\ Manifested'
  BY <1>1, <1>2 DEF Shaped, TypeOK, All, Manifested, Candidates
<1> QED BY <1>2, <1>3 DEF Shaped

LEMMA ShapedRevoked ==
  ASSUME Shaped, NEW p \in Procs, Revoked(p)
  PROVE  Shaped'
<1>1. /\ pc[p] = "revoke" /\ cmd[p].todo = {} /\ p \in All /\ p # Job /\ cmd[p] \in Command /\ ProcShape(p)
      /\ Moves(p, "begin", cmd[p]) /\ "begin" \in Steps
      /\ UNCHANGED <<vault, version, outputs, reports, manifests, prunes, marks, rows, writer>>
      /\ UNCHANGED <<removed, gone, cut, most, runs, faults>>
  BY UnderWay DEF Revoked, Goto, Moves, Steps, Rebuilds, index, history, bounds
<1>2. /\ pc' \in [All -> Steps] /\ cmd' \in [All -> Command]
      /\ pc'[p] = "begin" /\ cmd'[p] = cmd[p]
      /\ \A o \in All \ {p} : ProcShape(o)'
      /\ Alone' /\ Locked'
  BY <1>1, QuietMove
<1>3. ProcShape(p)'
  BY <1>1, <1>2
     DEF ProcShape, JobShape, ExecutionShape, ActShape, RecoveryShape, Rebuilds, Changes, Executes,
         Executing
<1>4. TypeOK' /\ Manifested'
  BY <1>1, <1>2 DEF Shaped, TypeOK, All, Manifested, Candidates
<1> QED BY <1>2, <1>3, <1>4 DEF Shaped

-----------------------------------------------------------------------------
(* The rebuilds and the environment. *)

\* A rebuild has done with its candidates.
LEMMA RebuildShape ==
  ASSUME Shaped, NEW q \in All, pc[q] \in Rebuilds,
         pc'[q] \in Rebuilds \/ (pc'[q] = "unmark" /\ q # Job /\ Executing(q)),
         cmd'[q].id = cmd[q].id, cmd'[q].plan = cmd[q].plan, cmd'[q].run = cmd[q].run,
         cmd'[q].todo = cmd[q].todo, UNCHANGED reports
  PROVE  ProcShape(q)'
<1>1. ProcShape(q)  BY DEF Shaped
<1>2. Executing(q)' <=> Executing(q)  BY DEF Executing
<1>3. Planned(q) => Planned(q)'  BY DEF Planned, Candidates
<1> QED BY <1>1, <1>2, <1>3
     DEF ProcShape, JobShape, ExecutionShape, ActShape, RecoveryShape, Rebuilds, Changes, Executes

LEMMA ShapedStartJob ==
  ASSUME Shaped, StartJob
  PROVE  Shaped'
<1>1. /\ pc[Job] = "idle" /\ Job \in All /\ cmd[Job] \in Command /\ ProcShape(Job)
      /\ Moves(Job, "begin", cmd[Job]) /\ "begin" \in Steps
      /\ UNCHANGED <<vault, version, outputs, reports, manifests, prunes, marks, rows, writer>>
      /\ UNCHANGED <<removed, gone, cut, most, runs, faults>>
  BY DEF StartJob, Goto, Moves, Steps, Rebuilds, index, history, bounds, All, Shaped, TypeOK
<1>2. /\ pc' \in [All -> Steps] /\ cmd' \in [All -> Command]
      /\ pc'[Job] = "begin" /\ cmd'[Job] = cmd[Job]
      /\ \A o \in All \ {Job} : ProcShape(o)'
      /\ Alone' /\ Locked'
  BY <1>1, QuietMove
<1>3. ProcShape(Job)'
  BY <1>1, <1>2
     DEF ProcShape, JobShape, ExecutionShape, ActShape, RecoveryShape, Rebuilds, Changes, Executes,
         Executing
<1>4. TypeOK' /\ Manifested'
  BY <1>1, <1>2 DEF Shaped, TypeOK, All, Manifested, Candidates
<1> QED BY <1>2, <1>3, <1>4 DEF Shaped

\* A step of one process that may take the transaction or give it back.
LEMMA LockMove ==
  ASSUME Shaped, NEW q \in All, NEW s \in Steps, NEW c \in Command, Moves(q, s, c),
         pc[q] # "idle", UNCHANGED reports,
         \/ writer = Nobody /\ writer' = q /\ s \in {"list", "commit"}
         \/ writer = q /\ writer' = Nobody /\ s \notin {"list", "commit"}
         \/ writer = q /\ writer' = q /\ s \in {"list", "commit"}
         \/ writer # q /\ writer' = writer /\ s \notin {"list", "commit"}
  PROVE  /\ pc' \in [All -> Steps] /\ cmd' \in [All -> Command]
         /\ pc'[q] = s /\ cmd'[q] = c
         /\ \A o \in All \ {q} : pc'[o] = pc[o] /\ cmd'[o] = cmd[o]
         /\ \A o \in All \ {q} : ProcShape(o)'
         /\ Alone' /\ Locked'
<1>1. /\ pc' \in [All -> Steps] /\ cmd' \in [All -> Command]
      /\ pc'[q] = s /\ cmd'[q] = c
      /\ \A o \in All \ {q} : pc'[o] = pc[o] /\ cmd'[o] = cmd[o]
  BY Moved DEF Shaped
<1>2. \A o \in All \ {q} : ProcShape(o)'
  BY <1>1, ShapeStays DEF Shaped, Candidates
<1>3. Alone'  BY <1>1, RetentionAssumption DEF Shaped, Alone, All
<1>4. Locked'  BY <1>1, RetentionAssumption DEF Shaped, Locked, All
<1> QED BY <1>1, <1>2, <1>3, <1>4

LEMMA ShapedBegin ==
  ASSUME Shaped, NEW q \in All, Begin(q)
  PROVE  Shaped'
<1> DEFINE c == [cmd[q] EXCEPT !.noted = marks]
<1>1. /\ pc[q] = "begin" /\ writer = Nobody /\ writer' = q /\ cmd[q] \in Command
      /\ Moves(q, "list", c) /\ "list" \in Steps
      /\ UNCHANGED <<vault, version, outputs, reports, manifests, prunes, marks, rows>>
      /\ UNCHANGED <<removed, gone, cut, most, runs, faults>>
  BY DEF Begin, Goto, Moves, Steps, Rebuilds, history, bounds, All, Shaped, TypeOK
<1>2. /\ c \in Command /\ c.id = cmd[q].id /\ c.plan = cmd[q].plan /\ c.run = cmd[q].run
      /\ c.todo = cmd[q].todo
  BY <1>1 DEF Command, Shaped, TypeOK
<1> HIDE DEF c
<1>3. /\ pc' \in [All -> Steps] /\ cmd' \in [All -> Command]
      /\ pc'[q] = "list" /\ cmd'[q] = c
      /\ \A o \in All \ {q} : ProcShape(o)'
      /\ Alone' /\ Locked'
  BY <1>1, <1>2, LockMove
<1>4. ProcShape(q)'  BY <1>1, <1>2, <1>3, RebuildShape DEF Rebuilds
<1>5. TypeOK' /\ Manifested'
  BY <1>1, <1>3 DEF Shaped, TypeOK, All, Manifested, Candidates
<1> QED BY <1>3, <1>4, <1>5 DEF Shaped

LEMMA ShapedList ==
  ASSUME Shaped, NEW q \in All, List(q)
  PROVE  Shaped'
<1> DEFINE c == [cmd[q] EXCEPT !.seen = vault]
<1>1. /\ pc[q] = "list" /\ cmd[q] \in Command /\ writer = q
      /\ "commit" \in Steps /\ "idle" \in Steps
      /\ UNCHANGED <<vault, version, outputs, reports, manifests, prunes, marks, rows>>
      /\ UNCHANGED <<removed, gone, cut, most, runs, faults>>
  BY DEF List, Steps, Rebuilds, history, bounds, All, Shaped, TypeOK, Locked
<1>2. /\ c \in Command /\ c.id = cmd[q].id /\ c.plan = cmd[q].plan /\ c.run = cmd[q].run
      /\ c.todo = cmd[q].todo
  BY <1>1 DEF Command, Shaped, TypeOK
<1>3. CASE Refused
  <2>1. Moves(q, "idle", Blank) /\ writer' = Nobody
    BY <1>3 DEF List, Ends, Goto, Moves
  <2>2. /\ pc' \in [All -> Steps] /\ cmd' \in [All -> Command]
        /\ pc'[q] = "idle" /\ cmd'[q] = Blank
        /\ \A o \in All \ {q} : ProcShape(o)'
        /\ Alone' /\ Locked'
    BY <1>1, <2>1, LockMove, BlankIsCommand
  <2>3. TypeOK' /\ Manifested'
    BY <1>1, <2>1, <2>2 DEF Shaped, TypeOK, All, Manifested, Candidates
  <2> QED BY <2>2, <2>3, EndShape DEF Shaped
<1>4. CASE ~ Refused
  <2>1. Moves(q, "commit", c) /\ writer' = writer
    BY <1>4 DEF List, Goto, Moves
  <2> HIDE DEF c
  <2>2. /\ pc' \in [All -> Steps] /\ cmd' \in [All -> Command]
        /\ pc'[q] = "commit" /\ cmd'[q] = c
        /\ \A o \in All \ {q} : ProcShape(o)'
        /\ Alone' /\ Locked'
    BY <1>1, <1>2, <2>1, LockMove
  <2>3. ProcShape(q)'  BY <1>1, <1>2, <2>2, RebuildShape DEF Rebuilds
  <2>4. TypeOK' /\ Manifested'
    BY <1>1, <2>1, <2>2 DEF Shaped, TypeOK, All, Manifested, Candidates
  <2> QED BY <2>2, <2>3, <2>4 DEF Shaped
<1> QED BY <1>3, <1>4

LEMMA ShapedCommit ==
  ASSUME Shaped, NEW q \in All, Commit(q)
  PROVE  Shaped'
<1>1. /\ pc[q] = "commit" /\ cmd[q] \in Command /\ writer = q /\ writer' = Nobody
      /\ "retire" \in Steps /\ Moves(q, "retire", cmd[q]) /\ rows' = Visible(cmd[q].seen)
      /\ UNCHANGED <<vault, version, outputs, reports, manifests, prunes, marks>>
      /\ UNCHANGED <<removed, gone, cut, most, runs, faults>>
  BY DEF Commit, Steps, Rebuilds, history, bounds, All, Shaped, TypeOK, Locked, Goto, Moves
<1>2. rows' \in Vault
  BY <1>1, CommandFields DEF Visible, Vault, File
<1>3. /\ pc' \in [All -> Steps] /\ cmd' \in [All -> Command]
      /\ pc'[q] = "retire" /\ cmd'[q] = cmd[q]
      /\ \A o \in All \ {q} : ProcShape(o)'
      /\ Alone' /\ Locked'
  BY <1>1, LockMove
<1>4. ProcShape(q)'  BY <1>1, <1>3, RebuildShape DEF Rebuilds
<1>5. TypeOK' /\ Manifested'
  BY <1>1, <1>2, <1>3 DEF Shaped, TypeOK, All, Manifested, Candidates
<1> QED BY <1>3, <1>4, <1>5 DEF Shaped

LEMMA ShapedRetire ==
  ASSUME Shaped, NEW q \in All, Retire(q)
  PROVE  Shaped'
<1>1. /\ pc[q] = "retire" /\ cmd[q] \in Command /\ marks' \subseteq marks /\ "unmark" \in Steps
      /\ UNCHANGED <<vault, version, outputs, reports, manifests, prunes, rows, writer>>
      /\ UNCHANGED <<removed, gone, cut, most, runs, faults>>
  BY DEF Retire, index, Steps, Rebuilds, history, bounds, All, Shaped, TypeOK
<1>2. CASE q # Job /\ cmd[q].run # 0
  <2>1. Moves(q, "unmark", cmd[q])  BY <1>2 DEF Retire, Goto, Moves
  <2>2. /\ pc' \in [All -> Steps] /\ cmd' \in [All -> Command]
        /\ pc'[q] = "unmark" /\ cmd'[q] = cmd[q]
        /\ \A o \in All \ {q} : ProcShape(o)'
        /\ Alone' /\ Locked'
    BY <1>1, <2>1, QuietMove
  <2>3. ProcShape(q)'  BY <1>1, <1>2, <2>2, RebuildShape DEF Rebuilds, Executing
  <2>4. TypeOK' /\ Manifested'
    BY <1>1, <2>2 DEF Shaped, TypeOK, All, Manifested, Candidates
  <2> QED BY <2>2, <2>3, <2>4 DEF Shaped
<1>3. CASE ~ (q # Job /\ cmd[q].run # 0)
  <2>1. Ends(q)  BY <1>3 DEF Retire
  <2>2. /\ pc' \in [All -> Steps] /\ cmd' \in [All -> Command]
        /\ \A o \in All : ProcShape(o)'
        /\ Alone' /\ Locked'
    BY <1>1, <2>1, EndsQuietly
  <2>3. TypeOK' /\ Manifested'
    BY <1>1, <2>2 DEF Shaped, TypeOK, All, Manifested, Candidates
  <2> QED BY <2>2, <2>3 DEF Shaped
<1> QED BY <1>2, <1>3

LEMMA ShapedSync ==
  ASSUME Shaped, NEW m \in Memories, Sync(m)
  PROVE  Shaped'
<1>1. /\ version[m] < MaxVersion /\ version' = [version EXCEPT ![m] = @ + 1]
      /\ vault' = [vault EXCEPT ![m] = [body |-> version[m] + 1, class |-> "given"]]
      /\ UNCHANGED <<outputs, reports, manifests, prunes, marks, rows, writer, pc, cmd>>
      /\ UNCHANGED <<removed, gone, cut, most, runs, faults>>
  BY DEF Sync, index, history, bounds
<1>2. version[m] + 1 \in 0 .. MaxVersion
  BY <1>1, RetentionAssumption DEF Shaped, TypeOK
<1>3. vault' \in Vault /\ version' \in [Memories -> 0 .. MaxVersion]
  BY <1>1, <1>2 DEF Shaped, TypeOK, Vault, File, Content
<1>4. TypeOK' /\ Manifested' /\ Alone' /\ Locked'
  BY <1>1, <1>3 DEF Shaped, TypeOK, All, Manifested, Candidates, Alone, Locked
<1>5. \A o \in All : ProcShape(o)'  BY <1>1, ShapeStays DEF Shaped, Candidates
<1> QED BY <1>4, <1>5 DEF Shaped

LEMMA ShapedStop ==
  ASSUME Shaped, NEW q \in All, Stop(q)
  PROVE  Shaped'
<1>1. /\ pc[q] # "idle" /\ Moves(q, "idle", Blank) /\ "idle" \in Steps
      /\ faults < most.faults /\ faults' = faults + 1
      /\ writer' = IF writer = q THEN Nobody ELSE writer
      /\ UNCHANGED <<vault, version, outputs, reports, manifests, prunes, marks, rows>>
      /\ UNCHANGED <<removed, gone, most, runs>> /\ cut' \in BOOLEAN
  BY DEF Stop, Ends, Goto, Moves, Steps, Shaped, TypeOK
<1>2. faults' \in 0 .. MaxFaults
  BY <1>1, RetentionAssumption DEF Shaped, TypeOK, Bound
<1>3. /\ pc' \in [All -> Steps] /\ cmd' \in [All -> Command]
      /\ pc'[q] = "idle" /\ cmd'[q] = Blank
      /\ \A o \in All \ {q} : ProcShape(o)'
      /\ Alone' /\ Locked'
  BY <1>1, LockMove, BlankIsCommand
<1>4. TypeOK' /\ Manifested'
  BY <1>1, <1>2, <1>3 DEF Shaped, TypeOK, All, Manifested, Candidates
<1> QED BY <1>3, <1>4, EndShape DEF Shaped

\* A manifest that expires keeps what it holds.
LEMMA Expires ==
  ASSUME Shaped, NEW x \in manifests, Expire(x)
  PROVE  /\ manifests' = Without(x.id) \cup {[x EXCEPT !.open = FALSE]}
         /\ [x EXCEPT !.open = FALSE].id = x.id /\ [x EXCEPT !.open = FALSE].data = x.data
         /\ [x EXCEPT !.open = FALSE].open = FALSE
         /\ [x EXCEPT !.open = FALSE] \in Manifest
         /\ \A y \in manifests : \E z \in manifests' : z.id = y.id /\ z.data = y.data
         /\ \A z \in manifests' : \E y \in manifests : z.id = y.id /\ z.data = y.data
<1> DEFINE z == [x EXCEPT !.open = FALSE]
<1>1. x \in Manifest  BY DEF Shaped, Manifested
<1>2. z \in Manifest /\ z.id = x.id /\ z.data = x.data /\ z.open = FALSE  BY <1>1 DEF Manifest
<1>3. manifests' = Without(x.id) \cup {z}  BY DEF Expire
<1>4. \A y \in manifests : y \in Without(x.id) \/ y = x
  BY DEF Without, Shaped, Manifested
<1> HIDE DEF z
<1>5. /\ \A y \in manifests : \E n \in manifests' : n.id = y.id /\ n.data = y.data
      /\ \A n \in manifests' : \E y \in manifests : n.id = y.id /\ n.data = y.data
  BY <1>2, <1>3, <1>4 DEF Without
<1> QED BY <1>2, <1>3, <1>5 DEF z

LEMMA ShapedExpire ==
  ASSUME Shaped, NEW x \in manifests, Expire(x)
  PROVE  Shaped'
<1> DEFINE z == [x EXCEPT !.open = FALSE]
<1>1. UNCHANGED <<vault, version, outputs, reports, prunes, marks, rows, writer, pc, cmd,
                  removed, gone, cut, most, runs, faults>>
  BY DEF Expire, index, history, bounds
<1>2. /\ manifests' = Without(x.id) \cup {z} /\ z.id = x.id /\ z.data = x.data /\ z.open = FALSE
      /\ z \in Manifest
  BY Expires
<1>3. /\ x.id \in ManifestId /\ x.data \in [x.id.targets -> Content]
      /\ reports[x.id.report] # None /\ x.id.targets \subseteq Candidates(x.id.report)
  BY DEF Shaped, TypeOK, Manifested
<1> HIDE DEF z
<1>4. /\ Manifested'
      /\ \A y \in manifests' : /\ y.id \in ManifestId
                               /\ y.data \in [y.id.targets -> Content]
                               /\ y.open \in BOOLEAN
  BY <1>1, <1>2, <1>3, ReplacedManifests
<1>5. TypeOK' /\ Alone' /\ Locked'
  BY <1>1, <1>4 DEF Shaped, TypeOK, All, Alone, Locked
<1>6. \A o \in All : ProcShape(o)'  BY <1>1, ShapeStays DEF Shaped, Candidates
<1> QED BY <1>4, <1>5, <1>6 DEF Shaped

LEMMA ShapedInit == ASSUME Init PROVE Shaped
<1>1. /\ most \in Bounds /\ most \in Bound
      /\ version = [m \in Memories |-> 0]
      /\ outputs = {} /\ manifests = {} /\ prunes = {} /\ marks = {}
      /\ reports = [r \in Reports |-> None]
      /\ writer = Nobody
      /\ pc = [q \in All |-> "idle"]
      /\ cmd = [q \in All |-> Blank]
      /\ runs = 0 /\ faults = 0
      /\ removed = {} /\ gone = {} /\ cut = FALSE
  BY RetentionAssumption DEF Init, All
<1>2. vault \in Vault
  BY RetentionAssumption DEF Init, Vault, File, Content
<1>3. rows \in Vault
  BY <1>2 DEF Init, Visible, Vault, File
<1>4. TypeOK
  <2>1. /\ version \in [Memories -> 0 .. MaxVersion] /\ runs \in 0 .. MaxRuns /\ faults \in 0 .. MaxFaults
        /\ \A r \in Reports : reports[r] = None \/ reports[r] \in Report
    BY <1>1, RetentionAssumption
  <2>2. pc \in [All -> Steps] /\ cmd \in [All -> Command]
    BY <1>1, BlankIsCommand DEF Steps
  <2> QED BY <1>1, <1>2, <1>3, <2>1, <2>2 DEF TypeOK, All
<1>5. Alone /\ Locked /\ Manifested
  BY <1>1, RetentionAssumption DEF Alone, Locked, Manifested, All
<1>6. \A q \in All : ProcShape(q)
  BY <1>1 DEF ProcShape, JobShape, ExecutionShape, ActShape, RecoveryShape, Executing, Blank,
         Executes, Rebuilds, Changes
<1> QED BY <1>4, <1>5, <1>6 DEF Shaped

LEMMA ShapedStutters == ASSUME Shaped, UNCHANGED vars PROVE Shaped'
<1>1. UNCHANGED <<vault, version, outputs, reports, manifests, prunes, marks, rows, writer, pc, cmd,
                  removed, gone, cut, most, runs, faults>>
  BY DEF vars
<1>2. TypeOK' /\ Alone' /\ Locked' /\ Manifested'
  BY <1>1 DEF Shaped, TypeOK, All, Alone, Locked, Manifested, Candidates
<1>3. \A o \in All : ProcShape(o)'  BY <1>1, ShapeStays DEF Shaped, Candidates
<1> QED BY <1>2, <1>3 DEF Shaped

\* A command's step, by its action.
LEMMA ShapedRun ==
  ASSUME Shaped, NEW p \in Procs, Run(p)
  PROVE  Shaped'
BY ShapedSnapshot, ShapedRecheck, ShapedParse, ShapedMark, ShapedWrite, ShapedOutput, ShapedAppend,
   ShapedHash, ShapedUnlink, ShapedToRebuild, ShapedUnmark, ShapedRestore, ShapedRevoke,
   ShapedLoadLedger, ShapedRevoked, ShapedBegin, ShapedList, ShapedCommit, ShapedRetire
   DEF Run, Rebuild, All

LEMMA ShapedNext ==
  ASSUME Shaped, ~ Overlap, [Next]_vars
  PROVE  Shaped'
<1>1. most.synced \subseteq Memories
  BY RetentionAssumption DEF Shaped, TypeOK, Bound
<1>2. ASSUME NEW p \in Procs, Commands(p) PROVE Shaped'
  BY <1>2, ShapedReport, ShapedExecute, ShapedDecide, ShapedRecover DEF Commands
<1>3. ASSUME Rebuild(Job) PROVE Shaped'
  BY <1>3, ShapedBegin, ShapedList, ShapedCommit, ShapedRetire DEF Rebuild, All
<1>4. CASE Next
  BY <1>1, <1>2, <1>3, <1>4, ShapedRun, ShapedStartJob, ShapedStop, ShapedSync, ShapedExpire
     DEF Next, All
<1>5. CASE UNCHANGED vars  BY <1>5, ShapedStutters
<1> QED BY <1>4, <1>5

\* Every state has the types declared, one command at a time works on what it judged
\* when it began, and a manifest is about candidates of its report (report, decide,
\* executeRetentionReport, recoverRetentionManifest and the index job's rebuild).
THEOREM RetentionShaped ==
  ASSUME ~ Overlap
  PROVE  Spec => []Shaped
<1>1. Init => Shaped  BY ShapedInit
<1>2. Shaped /\ [Next]_vars => Shaped'  BY ShapedNext
<1> QED BY <1>1, <1>2, PTL DEF Spec

-----------------------------------------------------------------------------
(* A current memory remains.  The reviewed survivor stays one through the  *)
(* execution: a file that no step of it takes, or a summary that is        *)
(* written before its source goes.                                         *)

StaysCurrent(p, m) ==
    /\ m \notin Historical /\ vault[m] # NoFile
    /\ m \in cmd[p].id.targets => cmd[p].plan[m] = "change-class"
StaysSummary(p, m) ==
    \/ \E o \in outputs : o.id = m
    \/ /\ m \in cmd[p].todo /\ cmd[p].plan[m] = "compact"
       /\ pc[p] \in {"append", "hash", "unlink"} => m # Candidate(p)
Survivor(p) == \E m \in Memories : StaysCurrent(p, m) \/ StaysSummary(p, m)

Judged == {"snapshot", "recheck"} \cup Executes

Surviving ==
    /\ CurrentRemains
    /\ cut \/ (\A p \in Procs : pc[p] \in Judged => Survivor(p))

LEMMA CutSurvives == ASSUME cut' PROVE Surviving'
  BY DEF Surviving, CurrentRemains

\* Nothing is taken, and no execution begins or changes files.
LEMMA SurvivesBeside ==
  ASSUME Surviving, cut' = cut, outputs' = outputs,
         \A m \in Memories : vault[m] # NoFile => vault'[m] # NoFile,
         \A p \in Procs : \/ pc'[p] = pc[p] /\ cmd'[p] = cmd[p]
                          \/ pc[p] \notin Executes /\ pc'[p] \notin Judged
  PROVE  Surviving'
<1>1. CurrentMemories # {} => CurrentMemories' # {}  BY DEF CurrentMemories, Present
<1>2. CurrentRemains'  BY <1>1 DEF Surviving, CurrentRemains
<1>3. \A p \in Procs : pc'[p] \in Judged => pc'[p] = pc[p] /\ cmd'[p] = cmd[p]  OBVIOUS
<1>4. \A p \in Procs : pc'[p] \in Judged /\ Survivor(p) => Survivor(p)'
  BY <1>3 DEF Survivor, StaysCurrent, StaysSummary, Candidate
<1> QED BY <1>2, <1>3, <1>4 DEF Surviving

\* The execution goes on, and each memory that would stay still would.
LEMMA SurvivesStep ==
  ASSUME Shaped, Surviving, NEW p \in Procs, pc[p] \in Judged, cut' = cut,
         pc'[p] \in Executes \/ (pc[p] \notin Executes /\ UNCHANGED <<vault, outputs>>),
         \A o \in All \ {p} : pc'[o] = pc[o] /\ cmd'[o] = cmd[o],
         \A m \in Memories : StaysCurrent(p, m) \/ StaysSummary(p, m)
                             => StaysCurrent(p, m)' \/ StaysSummary(p, m)'
  PROVE  Surviving'
<1>1. \A o \in Procs \ {p} : pc'[o] = "idle"
  BY RetentionAssumption DEF Shaped, Alone, All, Judged, Executes
<1>2. Survivor(p) => Survivor(p)'  BY DEF Survivor
<1>3. \A o \in Procs : pc'[o] \in Judged => o = p  BY <1>1 DEF Judged, Executes
<1>4. CurrentRemains'
  <2>1. CASE pc'[p] \in Executes  BY <2>1 DEF CurrentRemains
  <2>2. CASE pc[p] \notin Executes /\ UNCHANGED <<vault, outputs>>
    <3>1. \A o \in Procs : pc[o] \notin Executes
      BY <1>1, <2>2 DEF All, Executes
    <3>2. CurrentMemories' = CurrentMemories  BY <2>2 DEF CurrentMemories, Present
    <3> QED BY <3>1, <3>2 DEF Surviving, CurrentRemains
  <2> QED BY <2>1, <2>2
<1> QED BY <1>2, <1>3, <1>4 DEF Surviving

\* What each step changes for its process and leaves of the others'.
LEMMA StepOf ==
  ASSUME Shaped, NEW p \in Procs, Goto(p, pc'[p])
  PROVE  \A o \in All \ {p} : pc'[o] = pc[o]
  BY DEF Goto, Shaped, TypeOK, All

LEMMA SurvivesExecute ==
  ASSUME Shaped, Surviving, ~ Overlap, NEW p \in Procs, NEW r \in Reports, Execute(p, r)
  PROVE  Surviving'
<1> DEFINE i == [report |-> r, targets |-> Targets(r), at |-> Second[runs + 1]]
           c == [Blank EXCEPT !.id = i, !.plan = reports[r].decided, !.run = runs + 1,
                              !.todo = Targets(r)]
<1>1. /\ reports[r] # None /\ Validated(r) /\ Survives(r)
      /\ pc' = [pc EXCEPT ![p] = "snapshot"] /\ cmd' = [cmd EXCEPT ![p] = c]
      /\ \A o \in Procs : pc[o] = "idle"
      /\ UNCHANGED <<vault, outputs, cut>>
  BY DEF Execute, history, Free, Goto
<1>2. /\ c.id = i /\ i.targets = Targets(r) /\ c.plan = reports[r].decided /\ c.todo = Targets(r)
  BY DEF Blank
<1> HIDE DEF c, i
<1>3. /\ pc'[p] = "snapshot" /\ cmd'[p] = c /\ \A o \in Procs \ {p} : pc'[o] = "idle"
  BY <1>1 DEF Shaped, TypeOK
<1>4. Survivor(p)'
  <2>1. PICK m \in Present :
           \/ m \in Candidates(r) /\ Decision(r, m) = "compact"
           \/ m \notin Historical /\ (m \in Candidates(r) => Decision(r, m) \in {"keep", "change-class"})
    BY <1>1 DEF Survives
  <2>2. CASE m \in Candidates(r) /\ Decision(r, m) = "compact"
    <3>1. m \in Targets(r)  BY <2>2 DEF Targets
    <3>2. StaysSummary(p, m)'  BY <1>2, <1>3, <2>2, <3>1 DEF StaysSummary, Decision
    <3> QED BY <2>1, <3>2 DEF Survivor, Present
  <2>3. CASE m \notin Historical /\ (m \in Candidates(r) => Decision(r, m) \in {"keep", "change-class"})
    <3>1. m \in Targets(r) => reports[r].decided[m] = "change-class"
      BY <2>3 DEF Targets, Decision
    <3>2. StaysCurrent(p, m)'  BY <1>1, <1>2, <1>3, <2>1, <2>3, <3>1 DEF StaysCurrent, Present
    <3> QED BY <2>1, <3>2 DEF Survivor, Present
  <2> QED BY <2>1, <2>2, <2>3
<1>5. CurrentRemains'
  BY <1>1 DEF Surviving, CurrentRemains, CurrentMemories, Present, Executes
<1> QED BY <1>3, <1>4, <1>5 DEF Surviving, Judged, Executes

LEMMA SurvivesChecks ==
  ASSUME Shaped, Surviving, NEW p \in Procs, Snapshot(p) \/ Recheck(p)
  PROVE  Surviving'
<1>1. /\ pc[p] \in {"snapshot", "recheck"} /\ UNCHANGED <<vault, outputs, cut>>
      /\ pc[p] \in Judged /\ pc[p] \notin Executes
  BY DEF Snapshot, Recheck, history, Judged, Executes
<1>2. CASE Ends(p)
  <2>1. \A o \in Procs \ {p} : pc'[o] = pc[o] /\ cmd'[o] = cmd[o]
    BY <1>2 DEF Ends, Goto, Shaped, TypeOK
  <2>2. pc'[p] = "idle"  BY <1>2 DEF Ends, Goto, Shaped, TypeOK
  <2> QED BY <1>1, <2>1, <2>2, SurvivesBeside DEF Judged, Executes
<1>3. CASE (Goto(p, "recheck") \/ Goto(p, "next")) /\ cmd' = cmd
  <2>1. \A o \in All \ {p} : pc'[o] = pc[o] /\ cmd'[o] = cmd[o]
    BY <1>3 DEF Goto, Shaped, TypeOK, All
  <2>2. pc'[p] \in {"recheck", "next"} /\ cmd'[p] = cmd[p]  BY <1>3 DEF Goto, Shaped, TypeOK
  <2>3. \A m \in Memories : StaysCurrent(p, m) \/ StaysSummary(p, m)
                             => StaysCurrent(p, m)' \/ StaysSummary(p, m)'
    BY <1>1, <2>2 DEF StaysCurrent, StaysSummary
  <2> QED BY <1>1, <2>1, <2>3, SurvivesStep
<1> QED BY <1>2, <1>3 DEF Snapshot, Recheck

\* A step with the same candidates in hand that leaves the files.
LEMMA SurvivesProceeding ==
  ASSUME Shaped, Surviving, NEW p \in Procs, pc[p] \in Executes, pc'[p] \in Executes,
         Goto(p, pc'[p]), cut' = cut, outputs \subseteq outputs', vault' = vault,
         cmd'[p].id = cmd[p].id, cmd'[p].plan = cmd[p].plan, cmd'[p].todo = cmd[p].todo,
         \A o \in All \ {p} : cmd'[o] = cmd[o],
         pc'[p] \in {"append", "hash", "unlink"} =>
             \/ pc[p] \in {"append", "hash", "unlink"}
             \/ cmd[p].plan[Candidate(p)] # "compact"
             \/ \E o \in outputs' : o.id = Candidate(p)
  PROVE  Surviving'
<1>1. \A o \in All \ {p} : pc'[o] = pc[o] /\ cmd'[o] = cmd[o]  BY StepOf
<1>2. Candidate(p)' = Candidate(p)  BY DEF Candidate
<1>3. \A m \in Memories : StaysCurrent(p, m) \/ StaysSummary(p, m)
                             => StaysCurrent(p, m)' \/ StaysSummary(p, m)'
  BY <1>2 DEF StaysCurrent, StaysSummary
<1> QED BY <1>1, <1>3, SurvivesStep DEF Judged

LEMMA SurvivesParse ==
  ASSUME Shaped, Surviving, NEW p \in Procs, Parse(p)
  PROVE  Surviving'
<1>1. pc[p] = "next" /\ cmd[p] \in Command /\ UNCHANGED <<vault, outputs>>
  BY UnderWay DEF Parse
<1>2. CASE vault[Candidate(p)] = NoFile  BY <1>2, CutSurvives DEF Parse, Interrupt
<1>3. CASE vault[Candidate(p)] # NoFile
  <2> DEFINE f == vault[Candidate(p)]
  <2>1. /\ Goto(p, "mark") /\ cmd' = [cmd EXCEPT ![p].read = f] /\ cut' = cut
    BY <1>3 DEF Parse, history
  <2> HIDE DEF f
  <2>2. pc'[p] = "mark"  BY <2>1 DEF Goto, Shaped, TypeOK
  <2>3. /\ cmd'[p].id = cmd[p].id /\ cmd'[p].plan = cmd[p].plan /\ cmd'[p].todo = cmd[p].todo
        /\ \A o \in All \ {p} : cmd'[o] = cmd[o]
    BY <1>1, <2>1 DEF Shaped, TypeOK, Command, All
  <2> QED BY <1>1, <2>1, <2>2, <2>3, SurvivesProceeding DEF Executes
<1> QED BY <1>2, <1>3

LEMMA SurvivesMarks ==
  ASSUME Shaped, Surviving, NEW p \in Procs, Mark(p) \/ Output(p) \/ Append(p)
  PROVE  Surviving'
<1>0. pc[p] \in {"mark", "output", "append"} /\ pc[p] \in Changes /\ p \in All
  BY DEF Mark, Output, Append, Changes, All
<1>1. /\ Act(p) \in Actions \ {"keep"} /\ cut' = cut /\ vault' = vault /\ cmd' = cmd
      /\ outputs \subseteq outputs'
  BY <1>0, CandidateIsIn DEF Mark, Output, Append, Changes, history
<1>2. CASE Mark(p)
  <2>1. /\ pc[p] = "mark"
        /\ pc'[p] \in {"write", "output", "append"} /\ Goto(p, pc'[p])
        /\ pc'[p] = "append" => Act(p) # "compact"
    BY <1>1, <1>2 DEF Mark, Goto, Shaped, TypeOK, Actions
  <2> QED BY <1>1, <2>1, SurvivesProceeding DEF Executes, Act
<1>3. CASE Output(p)
  <2>1. /\ pc[p] = "output" /\ pc'[p] = "append" /\ Goto(p, pc'[p])
        /\ [report |-> cmd[p].id.report, id |-> Candidate(p)] \in outputs'
    BY <1>3 DEF Output, Goto, Shaped, TypeOK
  <2> QED BY <1>1, <2>1, SurvivesProceeding DEF Executes
<1>4. CASE Append(p)
  <2>1. /\ pc[p] = "append" /\ pc'[p] = "hash" /\ Goto(p, pc'[p])
    BY <1>4 DEF Append, Goto, Shaped, TypeOK
  <2> QED BY <1>1, <2>1, SurvivesProceeding DEF Executes
<1> QED BY <1>2, <1>3, <1>4

\* A candidate that is done was no survivor, or its file or its summary is there.
LEMMA SurvivesAdvance ==
  ASSUME Shaped, Surviving, NEW p \in Procs, pc[p] \in {"write", "hash", "unlink"}, Advance(p),
         UNCHANGED <<writer, reports, outputs, cut>>,
         \A m \in Memories \ {Candidate(p)} : vault'[m] = vault[m],
         pc[p] = "write" => vault'[Candidate(p)] # NoFile
  PROVE  Surviving'
<1>1. /\ pc[p] \in Changes /\ pc[p] \in Executes /\ p \in All /\ ActShape(p)
      /\ Candidate(p) \in cmd[p].id.targets /\ Act(p) = cmd[p].plan[Candidate(p)]
  BY UnderWay, CandidateIsIn DEF Changes, Executes, ProcShape, Act
<1>2. /\ pc'[p] = "next"
      /\ cmd'[p].id = cmd[p].id /\ cmd'[p].plan = cmd[p].plan
      /\ cmd'[p].todo = cmd[p].todo \ {Candidate(p)}
      /\ \A o \in All \ {p} : pc'[o] = pc[o] /\ cmd'[o] = cmd[o]
  BY <1>1, Advances
<1>3. ASSUME NEW m \in Memories, StaysCurrent(p, m) PROVE StaysCurrent(p, m)'
  BY <1>1, <1>2, <1>3 DEF StaysCurrent, ActShape
<1>4. ASSUME NEW m \in Memories, StaysSummary(p, m) PROVE StaysSummary(p, m)'
  BY <1>1, <1>2, <1>4 DEF StaysSummary, ActShape
<1> QED BY <1>1, <1>2, <1>3, <1>4, SurvivesStep DEF Judged, Executes

LEMMA SurvivesChanges ==
  ASSUME Shaped, Surviving, NEW p \in Procs, Write(p) \/ Hash(p) \/ Unlink(p)
  PROVE  Surviving'
<1>1. CASE Write(p)
  <2>1. /\ pc[p] = "write" /\ Advance(p) /\ UNCHANGED <<writer, reports, outputs, cut>>
        /\ vault' = [vault EXCEPT ![Candidate(p)] = [cmd[p].read EXCEPT !.class = "changed"]]
        /\ Candidate(p) \in Memories /\ cmd[p].read \in Content
    BY <1>1, UnderWay, CandidateIsIn DEF Write, index, history, Changes, ProcShape, ActShape
  <2>2. [cmd[p].read EXCEPT !.class = "changed"] # NoFile
    BY <2>1, RetentionAssumption DEF Content
  <2> QED BY <2>1, <2>2, SurvivesAdvance DEF Shaped, TypeOK, Vault
<1>2. CASE Hash(p)
  <2>1. pc[p] = "hash" /\ UNCHANGED <<writer, reports, outputs, vault>>
    BY <1>2 DEF Hash, index
  <2>2. CASE cut'  BY <2>2, CutSurvives
  <2>3. CASE Advance(p) /\ cut' = cut  BY <2>1, <2>3, SurvivesAdvance
  <2>4. CASE Goto(p, "unlink") /\ cmd' = cmd /\ cut' = cut
    <3>1. pc'[p] = "unlink"  BY <2>4 DEF Goto, Shaped, TypeOK
    <3> QED BY <2>1, <2>4, <3>1, SurvivesProceeding DEF Executes
  <2> QED BY <1>2, <2>2, <2>3, <2>4 DEF Hash, Interrupt, history
<1>3. CASE Unlink(p)
  <2>1. /\ pc[p] = "unlink" /\ Advance(p) /\ UNCHANGED <<writer, reports, outputs, cut>>
        /\ vault' = [vault EXCEPT ![Candidate(p)] = NoFile]
    BY <1>3 DEF Unlink, index
  <2> QED BY <2>1, SurvivesAdvance DEF Shaped, TypeOK, Vault
<1> QED BY <1>1, <1>2, <1>3

\* When no candidate is left the survivor is in the vault, or its summary is.
LEMMA SurvivesToRebuild ==
  ASSUME Shaped, Surviving, NEW p \in Procs, ToRebuild(p)
  PROVE  Surviving'
<1>1. /\ pc[p] = "next" /\ cmd[p].todo = {} /\ UNCHANGED <<vault, outputs, cut, cmd>>
      /\ pc'[p] = "begin" /\ \A o \in All \ {p} : pc'[o] = pc[o]
  BY DEF ToRebuild, history, Goto, Shaped, TypeOK, All
<1>2. cut \/ CurrentMemories # {}
  <2>1. SUFFICES ASSUME ~ cut PROVE CurrentMemories # {}  OBVIOUS
  <2>2. PICK m \in Memories : StaysCurrent(p, m) \/ StaysSummary(p, m)
    BY <1>1, <2>1 DEF Surviving, Judged, Executes, Survivor
  <2> QED BY <1>1, <2>2 DEF StaysCurrent, StaysSummary, CurrentMemories, Present
<1>3. \A o \in Procs : pc'[o] \notin Judged
  BY <1>1, RetentionAssumption DEF Shaped, Alone, All, Judged, Executes
<1>4. CurrentMemories' = CurrentMemories  BY <1>1 DEF CurrentMemories, Present
<1> QED BY <1>1, <1>2, <1>3, <1>4 DEF Surviving, CurrentRemains

\* Where a command changes neither files nor what an execution has in hand.
LEMMA BesideMoves ==
  ASSUME Shaped, NEW q \in All, pc[q] \notin Executes, NEW s \in Steps \ Judged, Goto(q, s),
         cmd' = cmd \/ (\E c \in Command : cmd' = [cmd EXCEPT ![q] = c])
  PROVE  \A p \in Procs : \/ pc'[p] = pc[p] /\ cmd'[p] = cmd[p]
                          \/ pc[p] \notin Executes /\ pc'[p] \notin Judged
<1>1. pc'[q] = s /\ \A p \in All \ {q} : pc'[p] = pc[p] /\ cmd'[p] = cmd[p]
  BY DEF Goto, Shaped, TypeOK, All
<1> QED BY <1>1 DEF All

LEMMA SurvivesRebuild ==
  ASSUME Shaped, Surviving, NEW q \in All, Rebuild(q)
  PROVE  Surviving'
<1>1. /\ UNCHANGED <<vault, outputs, cut>> /\ pc[q] \in Rebuilds
      /\ pc[q] \notin Executes /\ pc[q] \notin Judged
  BY DEF Rebuild, Begin, List, Commit, Retire, history, Rebuilds, Executes, Judged
<1>2. /\ pc'[q] \in Rebuilds \cup {"idle", "unmark"}
      /\ \A p \in All \ {q} : pc'[p] = pc[p] /\ cmd'[p] = cmd[p]
  BY DEF Rebuild, Begin, List, Commit, Retire, Ends, Goto, Shaped, TypeOK, All, Rebuilds
<1>3. pc'[q] \notin Judged  BY <1>2 DEF Rebuilds, Judged, Executes
<1> QED BY <1>1, <1>2, <1>3, SurvivesBeside DEF All

LEMMA SurvivesRecovery ==
  ASSUME Shaped, Surviving, NEW p \in Procs,
         \/ \E m \in Memories : Restore(p, m) \/ Revoke(p, m)
         \/ LoadLedger(p) \/ Revoked(p) \/ Unmark(p)
  PROVE  Surviving'
<1>1. /\ UNCHANGED <<outputs, cut>> /\ pc[p] \notin Executes
      /\ pc'[p] \in {"restore", "revoke", "begin", "idle"}
      /\ \A o \in All \ {p} : pc'[o] = pc[o] /\ cmd'[o] = cmd[o]
  BY DEF Restore, Revoke, LoadLedger, Revoked, Unmark, Ends, Goto, Shaped, TypeOK, All, history, Executes
<1>2. \A m \in Memories : vault[m] # NoFile => vault'[m] # NoFile
  <2>1. CASE vault' = vault  BY <2>1
  <2>2. CASE \E m \in Memories : Restore(p, m)
    <3>1. PICK m \in Memories : Restore(p, m)  BY <2>2
    <3>2. Reviewed(cmd[p].id.report, m) \in Content
      BY <3>1, UnderWay, ReviewedIsContent, ManifestIdFields DEF Restore, ProcShape, RecoveryShape
    <3> QED BY <3>1, <3>2, RetentionAssumption DEF Restore, Shaped, TypeOK, Vault
  <2> QED BY <2>1, <2>2 DEF Revoke, LoadLedger, Revoked, Unmark
<1>3. pc'[p] \notin Judged  BY <1>1 DEF Judged, Executes
<1> QED BY <1>1, <1>2, <1>3, SurvivesBeside DEF All

LEMMA SurvivesCommands ==
  ASSUME Shaped, Surviving, ~ Overlap, NEW p \in Procs, Commands(p)
  PROVE  Surviving'
<1>1. CASE \E r \in Reports : BuildReport(p, r) \/ \E m \in Memories, a \in Actions : Decide(p, r, m, a)
  <2>1. UNCHANGED <<vault, outputs, cut, pc, cmd>>  BY <1>1 DEF BuildReport, Decide, history
  <2> QED BY <2>1, SurvivesBeside
<1>2. CASE \E r \in Reports : Execute(p, r)  BY <1>2, SurvivesExecute
<1>3. CASE \E x \in manifests : Recover(p, x)
  <2>1. /\ UNCHANGED <<vault, outputs, cut>> /\ pc[p] = "idle" /\ pc'[p] = "restore"
        /\ \A o \in Procs \ {p} : pc'[o] = pc[o] /\ cmd'[o] = cmd[o]
    BY <1>3 DEF Recover, Free, Goto, history, Shaped, TypeOK
  <2> QED BY <2>1, SurvivesBeside DEF Executes, Judged
<1> QED BY <1>1, <1>2, <1>3 DEF Commands

LEMMA SurvivesRun ==
  ASSUME Shaped, Surviving, NEW p \in Procs, Run(p)
  PROVE  Surviving'
BY SurvivesChecks, SurvivesParse, SurvivesMarks, SurvivesChanges, SurvivesToRebuild,
   SurvivesRecovery, SurvivesRebuild DEF Run, All

LEMMA SurvivesEnvironment ==
  ASSUME Shaped, Surviving,
         \/ StartJob
         \/ \E q \in All : Stop(q)
         \/ \E m \in Memories : Sync(m)
         \/ \E x \in manifests : Expire(x)
  PROVE  Surviving'
<1>1. CASE StartJob
  <2>1. UNCHANGED <<vault, outputs, cut, cmd>> /\ \A p \in Procs : pc'[p] = pc[p]
    BY <1>1, RetentionAssumption DEF StartJob, history, Goto, Shaped, TypeOK
  <2> QED BY <2>1, SurvivesBeside
<1>2. ASSUME NEW q \in All, Stop(q) PROVE Surviving'
  <2>1. CASE pc[q] \in Executes  BY <1>2, <2>1, CutSurvives DEF Stop
  <2>2. CASE pc[q] \notin Executes
    <3>1. /\ UNCHANGED <<vault, outputs>> /\ cut' = cut
          /\ pc'[q] = "idle" /\ \A o \in All \ {q} : pc'[o] = pc[o] /\ cmd'[o] = cmd[o]
      BY <1>2, <2>2 DEF Stop, Ends, Goto, Shaped, TypeOK, All
    <3> QED BY <2>2, <3>1, SurvivesBeside DEF All, Judged, Executes
  <2> QED BY <2>1, <2>2
<1>3. ASSUME NEW m \in Memories, Sync(m) PROVE Surviving'
  <2>1. [body |-> version[m] + 1, class |-> "given"] # NoFile
    <3>1. version[m] + 1 \in 0 .. MaxVersion
      BY <1>3, RetentionAssumption DEF Sync, Shaped, TypeOK
    <3>2. [body |-> version[m] + 1, class |-> "given"] \in Content  BY <3>1 DEF Content
    <3> QED BY <3>2, RetentionAssumption
  <2>2. UNCHANGED <<outputs, cut, pc, cmd>>  BY <1>3 DEF Sync, history
  <2>3. \A n \in Memories : vault[n] # NoFile => vault'[n] # NoFile
    BY <1>3, <2>1 DEF Sync, Shaped, TypeOK, Vault
  <2> QED BY <2>2, <2>3, SurvivesBeside
<1>4. CASE \E x \in manifests : Expire(x)
  <2>1. UNCHANGED <<vault, outputs, cut, pc, cmd>>  BY <1>4 DEF Expire, history
  <2> QED BY <2>1, SurvivesBeside
<1> QED BY <1>1, <1>2, <1>3, <1>4

\* Every vault that may be there at the beginning has a memory that is not history.
Starting == \A b \in Bounds : b.present \ Historical # {}

LEMMA SurvivesInit == ASSUME Init, Starting PROVE Surviving
<1>1. PICK m \in most.present : m \notin Historical  BY DEF Init, Starting
<1>2. m \in Memories  BY <1>1, RetentionAssumption DEF Init, Bound
<1>3. [body |-> 0, class |-> "given"] # NoFile  BY RetentionAssumption DEF Content
<1>4. m \in Present \ Historical  BY <1>1, <1>2, <1>3 DEF Init, Present
<1>5. \A p \in Procs : pc[p] = "idle"  BY DEF Init
<1> QED BY <1>4, <1>5 DEF Surviving, CurrentRemains, CurrentMemories, Judged, Executes

\* An execution (executeRetentionReport, with validateRetentionReport's second look)
\* that is not interrupted leaves a current memory, or the summary of one, whatever was reviewed and whatever connectors write beside it, if there was
\* one to begin with.
THEOREM CurrentMemoryRemains ==
  ASSUME ~ Overlap, Starting
  PROVE  Spec => []CurrentRemains
<1>1. Init => Surviving  BY SurvivesInit
<1>2. Shaped /\ Surviving /\ [Next]_vars => Surviving'
  <2> SUFFICES ASSUME Shaped, Surviving, [Next]_vars PROVE Surviving'  OBVIOUS
  <2>1. most.synced \subseteq Memories
    BY RetentionAssumption DEF Shaped, TypeOK, Bound
  <2>2. CASE Next
    BY <2>1, <2>2, SurvivesCommands, SurvivesRun, SurvivesEnvironment, SurvivesRebuild DEF Next, All
  <2>3. CASE UNCHANGED vars  BY <2>3, SurvivesBeside DEF vars
  <2> QED BY <2>2, <2>3
<1>3. Surviving => CurrentRemains  BY DEF Surviving
<1>4. Spec => []Shaped  BY RetentionShaped
<1> QED BY <1>1, <1>2, <1>3, <1>4, PTL DEF Spec

-----------------------------------------------------------------------------
(* What an execution took away stays away: it is suppressed before its     *)
(* file goes, and the execution ends only after a rebuild of its own, that *)
(* listed when the file was gone and that no other could overtake.         *)

Taken(p) == {m \in cmd[p].id.targets \ cmd[p].todo : cmd[p].plan[m] \in {"compact", "delete"}}
Off(m) == vault[m] = NoFile /\ Pruned(m)
\* The index has no row, and no rebuild is about to write one.
Unlisted(m) == rows[m] = NoFile /\ \A q \in All : pc[q] = "commit" => cmd[q].seen[m] = NoFile

GoneBy(p) ==
    /\ Executing(p) =>
          /\ cmd[p].id.targets \cap gone = {}
          /\ \A m \in Taken(p) : /\ Off(m)
                                 /\ pc[p] = "commit" => cmd[p].seen[m] = NoFile
                                 /\ pc[p] \in {"retire", "unmark"} => Unlisted(m)
    /\ pc[p] = "restore" => (cmd[p].id.targets \ cmd[p].todo) \cap gone = {}
    /\ pc[p] = "revoke" => cmd[p].id.targets \cap gone = {}
    /\ pc[p] \in {"hash", "unlink"} => Pruned(Candidate(p))

GoneOff == \A m \in gone : Off(m) /\ Unlisted(m)
GoneInv == GoneOff /\ \A p \in Procs : GoneBy(p)

\* While a command is under way there is no other, so what it has in hand is all there is.
LEMMA GoneByOne ==
  ASSUME Shaped', NEW p \in Procs, \A o \in Procs \ {p} : pc'[o] = "idle", GoneOff', GoneBy(p)'
  PROVE  GoneInv'
<1>1. \A o \in Procs \ {p} : ~ Executing(o)'
  BY DEF Shaped, ProcShape, ExecutionShape, Executes, Rebuilds, All
<1> QED BY <1>1 DEF GoneInv, GoneBy

\* A command's step leaves the other processes as they are.
LEMMA Others ==
  ASSUME Shaped, NEW p \in Procs, Goto(p, pc'[p]),
         pc[p] # "idle" \/ \A o \in Procs : pc[o] = "idle"
  PROVE  /\ \A o \in Procs \ {p} : pc'[o] = "idle"
         /\ \A o \in All \ {p} : pc'[o] = pc[o]
  BY DEF Goto, Shaped, TypeOK, All, Alone

\* Steps that touch neither the files, the ledger nor the index.
LEMMA GoneOffKept ==
  ASSUME GoneOff, gone' \subseteq gone, rows' = rows,
         \A m \in gone' : Off(m) => Off(m)',
         \A q \in All : pc'[q] = "commit" => pc[q] = "commit" /\ cmd'[q].seen = cmd[q].seen
  PROVE  GoneOff'
  BY DEF GoneOff, Unlisted

LEMMA UnlistedKept ==
  ASSUME NEW m, Unlisted(m), rows' = rows,
         \A q \in All : pc'[q] = "commit" => pc[q] = "commit" /\ cmd'[q].seen = cmd[q].seen
  PROVE  Unlisted(m)'
  BY DEF Unlisted

\* Everything about a process that does not move.
LEMMA GoneByKept ==
  ASSUME NEW p, GoneBy(p), pc'[p] = pc[p], cmd'[p] = cmd[p], gone' \subseteq gone, rows' = rows,
         UNCHANGED <<vault, prunes>>,
         \A q \in All : pc'[q] = "commit" => pc[q] = "commit" /\ cmd'[q].seen = cmd[q].seen
  PROVE  GoneBy(p)'
<1>1. \A m : Off(m) => Off(m)'  BY DEF Off, Pruned
<1>2. \A m : Unlisted(m) => Unlisted(m)'  BY UnlistedKept
<1>3. Taken(p)' = Taken(p) /\ Candidate(p)' = Candidate(p)  BY DEF Taken, Candidate
<1>4. \A m : Pruned(m) => Pruned(m)'  BY DEF Pruned
<1> QED BY <1>1, <1>2, <1>3, <1>4 DEF GoneBy, Executing

LEMMA GoneReports ==
  ASSUME GoneInv, UNCHANGED <<vault, prunes, rows, gone, pc, cmd>>
  PROVE  GoneInv'
<1>1. GoneOff'  BY GoneOffKept DEF GoneInv, Off, Pruned
<1>2. \A p \in Procs : GoneBy(p)'  BY GoneByKept DEF GoneInv
<1> QED BY <1>1, <1>2 DEF GoneInv

LEMMA GoneExecute ==
  ASSUME Shaped, Shaped', GoneInv, ~ Overlap, NEW p \in Procs, NEW r \in Reports, Execute(p, r)
  PROVE  GoneInv'
<1> DEFINE i == [report |-> r, targets |-> Targets(r), at |-> Second[runs + 1]]
           c == [Blank EXCEPT !.id = i, !.plan = reports[r].decided, !.run = runs + 1,
                              !.todo = Targets(r)]
<1>1. /\ reports[r] # None /\ Validated(r)
      /\ Goto(p, "snapshot") /\ cmd' = [cmd EXCEPT ![p] = c]
      /\ \A o \in Procs : pc[o] = "idle"
      /\ UNCHANGED <<vault, prunes, rows, gone>>
  BY DEF Execute, history, index, Free
<1>2. c.id.targets = Targets(r) /\ c.todo = Targets(r)
  BY DEF Blank
<1> HIDE DEF c, i
<1>3. /\ pc'[p] = "snapshot" /\ cmd'[p] = c
      /\ \A o \in All \ {p} : cmd'[o] = cmd[o]
  BY <1>1 DEF Goto, Shaped, TypeOK, All
<1>4. /\ \A o \in Procs \ {p} : pc'[o] = "idle"
      /\ \A o \in All \ {p} : pc'[o] = pc[o]
  BY <1>1, <1>3, Others
<1>5. \A m \in Targets(r) : vault[m] # NoFile
  BY <1>1, ReviewedIsContent, RetentionAssumption DEF Validated, Targets
<1>6. GoneOff'  BY <1>1, <1>3, <1>4, GoneOffKept DEF GoneInv, Off, Pruned
<1>7. Targets(r) \cap gone = {}  BY <1>5 DEF GoneInv, GoneOff, Off
<1>8. GoneBy(p)'  BY <1>1, <1>2, <1>3, <1>7 DEF GoneBy, Taken
<1> QED BY <1>4, <1>6, <1>8, GoneByOne

\* A command that ends where it stands.
LEMMA GoneEnds ==
  ASSUME Shaped, Shaped', GoneInv, NEW p \in Procs, pc[p] # "idle", Ends(p),
         UNCHANGED <<vault, prunes, rows, gone>>
  PROVE  GoneInv'
<1>1. /\ pc'[p] = "idle" /\ Goto(p, "idle") /\ \A o \in All \ {p} : cmd'[o] = cmd[o]
      /\ cmd'[p] = Blank
  BY DEF Ends, Goto, Shaped, TypeOK, All
<1>2. /\ \A o \in Procs \ {p} : pc'[o] = "idle"
      /\ \A o \in All \ {p} : pc'[o] = pc[o]
  BY <1>1, Others
<1>3. GoneOff'  BY <1>1, <1>2, GoneOffKept DEF GoneInv, Off, Pruned
<1>4. GoneBy(p)'  BY <1>1 DEF GoneBy, Executing, Blank
<1> QED BY <1>2, <1>3, <1>4, GoneByOne

\* An execution's step that takes no candidate off its hands.
LEMMA GoneProceeds ==
  ASSUME Shaped, Shaped', GoneInv, NEW p \in Procs, Executing(p), pc[p] # "idle", Goto(p, pc'[p]),
         pc'[p] \in {"recheck", "next", "mark", "write", "output", "append", "hash", "unlink", "begin"},
         cmd'[p].id = cmd[p].id, cmd'[p].plan = cmd[p].plan, cmd'[p].todo = cmd[p].todo,
         \A o \in All \ {p} : cmd'[o] = cmd[o],
         UNCHANGED <<vault, rows, gone>>, prunes \subseteq prunes',
         pc'[p] \in {"hash", "unlink"} => Pruned(Candidate(p))'
  PROVE  GoneInv'
<1>1. /\ \A o \in Procs \ {p} : pc'[o] = "idle"
      /\ \A o \in All \ {p} : pc'[o] = pc[o]
  BY Others
<1>2. \A m : Off(m) => Off(m)'  BY DEF Off, Pruned
<1>3. GoneOff'  BY <1>1, <1>2, GoneOffKept DEF GoneInv
<1>4. Taken(p)' = Taken(p)  BY DEF Taken
<1>5. GoneBy(p)'  BY <1>2, <1>4 DEF GoneInv, GoneBy
<1> QED BY <1>1, <1>3, <1>5, GoneByOne

LEMMA GoneChecks ==
  ASSUME Shaped, Shaped', GoneInv, NEW p \in Procs, Snapshot(p) \/ Recheck(p)
  PROVE  GoneInv'
<1>1. /\ pc[p] \in {"snapshot", "recheck"} /\ UNCHANGED <<vault, prunes, rows, gone>>
      /\ Executing(p)
  BY UnderWay DEF Snapshot, Recheck, history, index, ProcShape, ExecutionShape
<1>2. CASE Ends(p)  BY <1>1, <1>2, GoneEnds
<1>3. CASE (Goto(p, "recheck") \/ Goto(p, "next")) /\ cmd' = cmd
  <2>1. pc'[p] \in {"recheck", "next"} /\ Goto(p, pc'[p])  BY <1>3 DEF Goto, Shaped, TypeOK
  <2> QED BY <1>1, <1>3, <2>1, GoneProceeds
<1> QED BY <1>2, <1>3 DEF Snapshot, Recheck

LEMMA GoneMarks ==
  ASSUME Shaped, Shaped', GoneInv, NEW p \in Procs,
         Parse(p) \/ Mark(p) \/ Output(p) \/ Append(p) \/ ToRebuild(p)
  PROVE  GoneInv'
<1>1. /\ pc[p] \in Executes /\ UNCHANGED <<vault, rows, gone>> /\ p \in All
      /\ Executing(p) /\ pc[p] # "idle" /\ cmd[p] \in Command
  BY UnderWay DEF Parse, Mark, Output, Append, ToRebuild, history, index, ProcShape, ExecutionShape,
     Executes, Interrupt
<1>2. CASE Ends(p) /\ prunes' = prunes  BY <1>1, <1>2, GoneEnds
<1>3. CASE Parse(p) /\ ~ Ends(p)
  <2> DEFINE f == vault[Candidate(p)]
  <2>1. /\ Goto(p, "mark") /\ cmd' = [cmd EXCEPT ![p].read = f] /\ prunes' = prunes
    BY <1>3 DEF Parse, Interrupt
  <2> HIDE DEF f
  <2>2. pc'[p] = "mark"  BY <2>1 DEF Goto, Shaped, TypeOK
  <2>3. /\ cmd'[p].id = cmd[p].id /\ cmd'[p].plan = cmd[p].plan /\ cmd'[p].todo = cmd[p].todo
        /\ \A o \in All \ {p} : cmd'[o] = cmd[o]
    BY <1>1, <2>1 DEF Shaped, TypeOK, Command, All
  <2> QED BY <1>1, <2>1, <2>2, <2>3, GoneProceeds
<1>4. CASE Mark(p)
  <2>1. /\ pc'[p] \in {"write", "output", "append"} /\ Goto(p, pc'[p])
        /\ UNCHANGED <<prunes, cmd>>
    BY <1>4 DEF Mark, Goto, Shaped, TypeOK
  <2> QED BY <1>1, <2>1, GoneProceeds
<1>5. CASE Output(p)
  <2>1. /\ pc'[p] = "append" /\ Goto(p, pc'[p]) /\ UNCHANGED <<prunes, cmd>>
    BY <1>5 DEF Output, Goto, Shaped, TypeOK
  <2> QED BY <1>1, <2>1, GoneProceeds
<1>6. CASE Append(p)
  <2>1. /\ pc'[p] = "hash" /\ Goto(p, pc'[p]) /\ cmd' = cmd
        /\ prunes' = prunes \cup {[report |-> cmd[p].id.report, id |-> Candidate(p)]}
    BY <1>6 DEF Append, Goto, Shaped, TypeOK
  <2>2. Candidate(p)' = Candidate(p)  BY <2>1 DEF Candidate
  <2>3. PICK e \in prunes' : e.id = Candidate(p)
    <3>1. [report |-> cmd[p].id.report, id |-> Candidate(p)].id = Candidate(p)  OBVIOUS
    <3> QED BY <2>1, <3>1
  <2>4. Pruned(Candidate(p))'  BY <2>2, <2>3 DEF Pruned
  <2> QED BY <1>1, <2>1, <2>4, GoneProceeds
<1>7. CASE ToRebuild(p)
  <2>1. /\ pc'[p] = "begin" /\ Goto(p, pc'[p]) /\ UNCHANGED <<prunes, cmd>>
    BY <1>7 DEF ToRebuild, Goto, Shaped, TypeOK
  <2> QED BY <1>1, <2>1, GoneProceeds
<1> QED BY <1>2, <1>3, <1>4, <1>5, <1>6, <1>7 DEF Parse

\* A candidate is done: its class was changed, or it is suppressed and its file is gone.
LEMMA GoneAdvances ==
  ASSUME Shaped, Shaped', GoneInv, NEW p \in Procs, pc[p] \in {"write", "hash", "unlink"}, Advance(p),
         UNCHANGED <<writer, reports, prunes, rows, gone>>,
         \A m \in Memories \ {Candidate(p)} : vault'[m] = vault[m],
         pc[p] # "write" => vault'[Candidate(p)] = NoFile
  PROVE  GoneInv'
<1>1. /\ pc[p] \in Changes /\ pc[p] \in Executes /\ p \in All /\ ActShape(p) /\ Executing(p) /\ Planned(p)
      /\ Candidate(p) \in cmd[p].id.targets /\ Act(p) = cmd[p].plan[Candidate(p)]
      /\ Candidate(p) \in cmd[p].todo /\ pc[p] # "idle" /\ cmd[p].id.targets \subseteq Memories
  BY UnderWay, CandidateIsIn, ManifestIdFields DEF Changes, Executes, ProcShape, Act, ExecutionShape, Planned
<1>2. /\ pc'[p] = "next" /\ Goto(p, pc'[p])
      /\ cmd'[p].id = cmd[p].id /\ cmd'[p].plan = cmd[p].plan
      /\ cmd'[p].todo = cmd[p].todo \ {Candidate(p)}
      /\ \A o \in All \ {p} : pc'[o] = pc[o] /\ cmd'[o] = cmd[o]
  BY <1>1, Advances DEF Advance
<1>3. \A o \in Procs \ {p} : pc'[o] = "idle"  BY <1>1, <1>2, Others
<1>4. \A m \in Memories \ {Candidate(p)} : Off(m) => Off(m)'  BY DEF Off, Pruned
<1>5. Candidate(p) \notin gone /\ gone \subseteq Memories
  BY <1>1 DEF GoneInv, GoneBy, Shaped, TypeOK
<1>6. GoneOff'  BY <1>2, <1>4, <1>5, GoneOffKept DEF GoneInv, GoneOff
<1>7. Taken(p)' \subseteq Taken(p) \cup {Candidate(p)}  BY <1>1, <1>2 DEF Taken
<1>8. Candidate(p) \notin Taken(p) /\ Taken(p) \subseteq Memories  BY <1>1 DEF Taken
<1>9. CASE pc[p] = "write"
  <2>1. Candidate(p) \notin Taken(p)'  BY <1>1, <1>2, <1>9 DEF Taken, ActShape
  <2>2. GoneBy(p)'  BY <1>1, <1>2, <1>4, <1>7, <1>8, <2>1 DEF GoneInv, GoneBy, Executing
  <2> QED BY <1>3, <1>6, <2>2, GoneByOne
<1>10. CASE pc[p] # "write"
  <2>1. PICK n \in Memories : n = Candidate(p)  BY <1>1
  <2>2. Off(n)'  BY <1>10, <2>1 DEF Off, Pruned, GoneInv, GoneBy
  <2>3. \A m \in Taken(p)' : Off(m)'
    BY <1>1, <1>4, <1>7, <1>8, <2>1, <2>2 DEF GoneInv, GoneBy
  <2>4. GoneBy(p)'  BY <1>1, <1>2, <2>3 DEF GoneInv, GoneBy, Executing
  <2> QED BY <1>3, <1>6, <2>4, GoneByOne
<1> QED BY <1>9, <1>10

LEMMA GoneChanges ==
  ASSUME Shaped, Shaped', GoneInv, NEW p \in Procs, Write(p) \/ Hash(p) \/ Unlink(p)
  PROVE  GoneInv'
<1>1. CASE Write(p)
  <2>1. /\ pc[p] = "write" /\ Advance(p) /\ UNCHANGED <<writer, reports, prunes, rows, gone>>
        /\ \A m \in Memories \ {Candidate(p)} : vault'[m] = vault[m]
    BY <1>1 DEF Write, index, history, Shaped, TypeOK, Vault
  <2> QED BY <2>1, GoneAdvances
<1>2. CASE Hash(p)
  <2>1. pc[p] = "hash" /\ pc[p] # "idle" /\ UNCHANGED <<writer, reports, prunes, rows, gone, vault>>
        /\ Executing(p)
    BY <1>2, UnderWay DEF Hash, index, history, Interrupt, ProcShape, ExecutionShape, Executes
  <2>2. CASE Ends(p)  BY <2>1, <2>2, GoneEnds
  <2>3. CASE Advance(p) /\ vault[Candidate(p)] = NoFile  BY <2>1, <2>3, GoneAdvances
  <2>4. CASE Goto(p, "unlink") /\ cmd' = cmd
    <3>1. pc'[p] = "unlink" /\ Candidate(p)' = Candidate(p)
      BY <2>4 DEF Goto, Shaped, TypeOK, Candidate
    <3>2. Pruned(Candidate(p))'  BY <2>1, <3>1 DEF GoneInv, GoneBy, Pruned
    <3> QED BY <2>1, <2>4, <3>1, <3>2, GoneProceeds
  <2> QED BY <1>2, <2>2, <2>3, <2>4 DEF Hash, Interrupt
<1>3. CASE Unlink(p)
  <2>1. /\ pc[p] = "unlink" /\ pc[p] \in Changes /\ Advance(p)
        /\ UNCHANGED <<writer, reports, prunes, rows, gone>>
        /\ vault' = [vault EXCEPT ![Candidate(p)] = NoFile]
    BY <1>3 DEF Unlink, index, Changes
  <2>2. Candidate(p) \in Memories  BY <2>1, CandidateIsIn
  <2> QED BY <2>1, <2>2, GoneAdvances DEF Shaped, TypeOK, Vault
<1> QED BY <1>1, <1>2, <1>3

\* The rebuild was the execution's own, and it listed when the files were gone.
LEMMA GoneUnmark ==
  ASSUME Shaped, Shaped', GoneInv, NEW p \in Procs, Unmark(p)
  PROVE  GoneInv'
<1>1. /\ pc[p] = "unmark" /\ pc[p] # "idle" /\ Executing(p) /\ cmd[p].todo = {}
      /\ gone' = gone \cup {m \in cmd[p].id.targets : cmd[p].plan[m] \in {"compact", "delete"}}
      /\ UNCHANGED <<vault, prunes, rows>> /\ Ends(p)
  BY UnderWay DEF Unmark, index, ProcShape, ExecutionShape
<1>2. /\ pc'[p] = "idle" /\ Goto(p, pc'[p]) /\ \A o \in All \ {p} : cmd'[o] = cmd[o]
      /\ cmd'[p] = Blank
  BY <1>1 DEF Ends, Goto, Shaped, TypeOK, All
<1>3. /\ \A o \in Procs \ {p} : pc'[o] = "idle"
      /\ \A o \in All \ {p} : pc'[o] = pc[o]
  BY <1>1, <1>2, Others
<1>4. gone' = gone \cup Taken(p)  BY <1>1 DEF Taken
<1>5. \A m \in gone' : Off(m) /\ Unlisted(m)  BY <1>1, <1>4 DEF GoneInv, GoneOff, GoneBy
<1>6. \A m : Unlisted(m) => Unlisted(m)'  BY <1>1, <1>2, <1>3 DEF Unlisted
<1>7. GoneOff'  BY <1>1, <1>5, <1>6 DEF GoneOff, Off, Pruned
<1>8. GoneBy(p)'  BY <1>2 DEF GoneBy, Executing, Blank
<1> QED BY <1>3, <1>7, <1>8, GoneByOne

LEMMA GoneRecover ==
  ASSUME Shaped, Shaped', GoneInv, ~ Overlap, NEW p \in Procs, NEW x \in manifests, Recover(p, x)
  PROVE  GoneInv'
<1> DEFINE c == [Blank EXCEPT !.id = x.id, !.todo = x.id.targets]
<1>1. /\ Goto(p, "restore") /\ cmd' = [cmd EXCEPT ![p] = c]
      /\ \A o \in Procs : pc[o] = "idle"
      /\ UNCHANGED <<vault, prunes, rows, gone>>
  BY DEF Recover, history, index, Free
<1>2. c.id = x.id /\ c.todo = x.id.targets /\ c.run = 0  BY DEF Blank
<1> HIDE DEF c
<1>3. /\ pc'[p] = "restore" /\ Goto(p, pc'[p]) /\ cmd'[p] = c
      /\ \A o \in All \ {p} : cmd'[o] = cmd[o]
  BY <1>1 DEF Goto, Shaped, TypeOK, All
<1>4. /\ \A o \in Procs \ {p} : pc'[o] = "idle"
      /\ \A o \in All \ {p} : pc'[o] = pc[o]
  BY <1>1, <1>3, Others
<1>5. GoneOff'  BY <1>1, <1>3, <1>4, GoneOffKept DEF GoneInv, Off, Pruned
<1>6. GoneBy(p)'  BY <1>2, <1>3 DEF GoneBy, Executing
<1> QED BY <1>4, <1>5, <1>6, GoneByOne

\* What is written back no longer counts as gone.
LEMMA GoneRestore ==
  ASSUME Shaped, Shaped', GoneInv, NEW p \in Procs, NEW m \in Memories, Restore(p, m)
  PROVE  GoneInv'
<1>1. /\ pc[p] = "restore" /\ UNCHANGED <<prunes, rows, pc>> /\ gone' = gone \ {m}
      /\ \A n \in Memories \ {m} : vault'[n] = vault[n]
  BY DEF Restore, index, Shaped, TypeOK, Vault
<1>2. /\ cmd'[p].id = cmd[p].id /\ cmd'[p].todo = cmd[p].todo \ {m}
      /\ \A o \in All \ {p} : cmd'[o] = cmd[o]
      /\ ~ Executing(p)'
  BY <1>1, RestoreMoves DEF Shaped, ProcShape, ExecutionShape, Executes, Rebuilds, All
<1>3. \A n \in gone' : Off(n) => Off(n)'  BY <1>1 DEF Off, Pruned, Shaped, TypeOK
<1>4. GoneOff'  BY <1>1, <1>2, <1>3, GoneOffKept DEF GoneInv, All
<1>5. GoneBy(p)'  BY <1>1, <1>2 DEF GoneInv, GoneBy
<1>6. \A o \in Procs \ {p} : pc'[o] = "idle"  BY <1>1 DEF Shaped, Alone
<1> QED BY <1>4, <1>5, <1>6, GoneByOne

\* What is gone is not among the restored, so it stays suppressed.
LEMMA GoneRevoke ==
  ASSUME Shaped, Shaped', GoneInv, NEW p \in Procs, NEW m \in Memories, Revoke(p, m)
  PROVE  GoneInv'
<1>1. /\ pc[p] = "revoke" /\ UNCHANGED <<vault, rows, gone, pc>> /\ m \in cmd[p].todo
      /\ prunes' = prunes \ {[report |-> cmd[p].id.report, id |-> m]}
  BY DEF Revoke, index, history
<1>2. /\ cmd'[p].id = cmd[p].id
      /\ \A o \in All \ {p} : cmd'[o] = cmd[o]
      /\ ~ Executing(p)'
  BY <1>1, RestoreMoves DEF Shaped, ProcShape, ExecutionShape, Executes, Rebuilds, All
<1>3. m \in cmd[p].id.targets /\ m \notin gone
  BY <1>1, UnderWay DEF ProcShape, RecoveryShape, GoneInv, GoneBy
<1>4. \A n \in gone : Off(n) => Off(n)'
  <2>1. [report |-> cmd[p].id.report, id |-> m].id = m  OBVIOUS
  <2> QED BY <1>1, <1>3, <2>1 DEF Off, Pruned
<1>5. GoneOff'  BY <1>1, <1>2, <1>4, GoneOffKept DEF GoneInv, All
<1>6. GoneBy(p)'  BY <1>1, <1>2 DEF GoneInv, GoneBy
<1>7. \A o \in Procs \ {p} : pc'[o] = "idle"  BY <1>1 DEF Shaped, Alone
<1> QED BY <1>5, <1>6, <1>7, GoneByOne

LEMMA GoneLedger ==
  ASSUME Shaped, Shaped', GoneInv, NEW p \in Procs, LoadLedger(p) \/ Revoked(p)
  PROVE  GoneInv'
<1>1. /\ pc[p] \in {"restore", "revoke"} /\ pc[p] # "idle" /\ UNCHANGED <<vault, rows, gone, prunes>>
      /\ Goto(p, pc'[p]) /\ cmd[p].todo = {} /\ cmd[p] \in Command /\ ~ Executing(p)
  <2>1. pc[p] \in {"restore", "revoke"} /\ pc[p] # "idle"  BY DEF LoadLedger, Revoked
  <2>2. ~ Executing(p) /\ cmd[p] \in Command
    BY <2>1, UnderWay DEF ProcShape, ExecutionShape, Executes, Rebuilds
  <2>3. Goto(p, pc'[p])  BY DEF LoadLedger, Revoked, Goto, Shaped, TypeOK
  <2> QED BY <2>1, <2>2, <2>3 DEF LoadLedger, Revoked, index, history
<1>2. /\ \A o \in Procs \ {p} : pc'[o] = "idle"
      /\ \A o \in All \ {p} : pc'[o] = pc[o]
  BY <1>1, Others
<1>3. \A o \in All \ {p} : cmd'[o] = cmd[o]  BY DEF LoadLedger, Revoked, Shaped, TypeOK, All
<1>4. CASE LoadLedger(p)
  <2> DEFINE t == {m \in cmd[p].id.targets : [report |-> cmd[p].id.report, id |-> m] \in prunes}
  <2>1. cmd' = [cmd EXCEPT ![p].todo = t] /\ pc'[p] = "revoke" /\ pc[p] = "restore"
    BY <1>4 DEF LoadLedger, Goto, Shaped, TypeOK
  <2> HIDE DEF t
  <2>2. cmd'[p].id = cmd[p].id /\ cmd'[p].run = cmd[p].run
    BY <1>1, <2>1 DEF Shaped, TypeOK, Command
  <2>3. GoneOff'  BY <1>1, <1>2, <1>3, <2>1, GoneOffKept DEF GoneInv, Off, Pruned
  <2>4. GoneBy(p)'  BY <1>1, <2>1, <2>2 DEF GoneInv, GoneBy, Executing
  <2> QED BY <1>2, <2>3, <2>4, GoneByOne
<1>5. CASE Revoked(p)
  <2>1. cmd' = cmd /\ pc'[p] = "begin"  BY <1>5 DEF Revoked, Goto, Shaped, TypeOK
  <2>2. GoneOff'  BY <1>1, <1>2, <2>1, GoneOffKept DEF GoneInv, Off, Pruned
  <2>3. GoneBy(p)'  BY <1>1, <2>1 DEF GoneBy, Executing
  <2> QED BY <1>2, <2>2, <2>3, GoneByOne
<1> QED BY <1>4, <1>5

\* No step of a rebuild brings back a row of a memory that is gone: it lists no file,
\* and no two rebuilds are between listing and committing.
LEMMA GoneRebuild ==
  ASSUME Shaped, Shaped', GoneInv, NEW q \in All, Rebuild(q)
  PROVE  GoneInv'
<1>1. /\ pc[q] \in Rebuilds /\ UNCHANGED <<vault, prunes, gone>> /\ cmd[q] \in Command
      /\ \A o \in All \ {q} : pc'[o] = pc[o] /\ cmd'[o] = cmd[o]
  BY DEF Rebuild, Begin, List, Commit, Retire, Ends, Goto, Shaped, TypeOK, All, history, Rebuilds
<1>2. \A m : Off(m) => Off(m)'  BY <1>1 DEF Off, Pruned
<1>3. \A m \in Memories : Off(m) /\ Unlisted(m) => Unlisted(m)'
  <2>1. CASE Begin(q)
    <3>1. pc'[q] = "list" /\ rows' = rows  BY <2>1 DEF Begin, Goto, Shaped, TypeOK
    <3> QED BY <1>1, <3>1 DEF Unlisted
  <2>2. CASE List(q)
    <3>1. rows' = rows /\ (pc'[q] = "idle" \/ (pc'[q] = "commit" /\ cmd'[q].seen = vault))
      BY <1>1, <2>2 DEF List, Ends, Goto, Shaped, TypeOK, Command, All
    <3> QED BY <1>1, <3>1 DEF Unlisted, Off
  <2>3. CASE Commit(q)
    <3>1. pc'[q] = "retire" /\ pc[q] = "commit" /\ rows' = Visible(cmd[q].seen)
      BY <2>3 DEF Commit, Goto, Shaped, TypeOK
    <3> QED BY <1>1, <3>1 DEF Unlisted, Visible
  <2>4. CASE Retire(q)
    <3>1. pc'[q] \in {"idle", "unmark"} /\ rows' = rows
      BY <2>4 DEF Retire, index, Ends, Goto, Shaped, TypeOK, All
    <3> QED BY <1>1, <3>1 DEF Unlisted
  <2> QED BY <2>1, <2>2, <2>3, <2>4 DEF Rebuild
<1>4. GoneOff'  BY <1>1, <1>2, <1>3 DEF GoneInv, GoneOff, Shaped, TypeOK
<1>5. ASSUME NEW p \in Procs, p # q PROVE GoneBy(p)'
  <2>1. pc'[p] = pc[p] /\ cmd'[p] = cmd[p]  BY <1>1, <1>5 DEF All
  <2>2. Taken(p)' = Taken(p) /\ Candidate(p)' = Candidate(p)  BY <2>1 DEF Taken, Candidate
  <2>3. Executing(p) => Taken(p) \subseteq Memories
    BY ManifestIdFields DEF Shaped, ProcShape, ExecutionShape, Planned, Taken, All
  <2>4. \A m : Pruned(m) => Pruned(m)'  BY <1>1 DEF Pruned
  <2> QED BY <1>1, <1>2, <1>3, <2>1, <2>2, <2>3, <2>4 DEF GoneInv, GoneBy, Executing
<1>6. ASSUME q \in Procs PROVE GoneBy(q)'
  <2>1. (cmd'[q] = Blank /\ pc'[q] = "idle") \/
           (cmd'[q].run = cmd[q].run /\ cmd'[q].id = cmd[q].id /\ cmd'[q].plan = cmd[q].plan
             /\ cmd'[q].todo = cmd[q].todo)
    BY <1>1 DEF Rebuild, Begin, List, Commit, Retire, Ends, Goto, Shaped, TypeOK, Command
  <2>2. pc'[q] \in {"idle", "list", "commit", "retire", "unmark"}
    BY <1>1 DEF Rebuild, Begin, List, Commit, Retire, Ends, Goto, Shaped, TypeOK, All
  <2>3. CASE cmd'[q] = Blank /\ pc'[q] = "idle"  BY <2>3 DEF GoneBy, Executing, Blank
  <2>4. CASE cmd'[q].run = cmd[q].run /\ cmd'[q].id = cmd[q].id /\ cmd'[q].plan = cmd[q].plan
             /\ cmd'[q].todo = cmd[q].todo
    <3>1. Taken(q)' = Taken(q)  BY <2>4 DEF Taken
    <3>2. SUFFICES ASSUME Executing(q) PROVE GoneBy(q)'  BY <2>2, <2>4 DEF GoneBy, Executing
    <3>3. \A m \in Taken(q) : m \in Memories /\ Off(m)
      BY <1>6, <3>2, ManifestIdFields
         DEF Shaped, ProcShape, ExecutionShape, Planned, Taken, GoneInv, GoneBy
    <3>4. ASSUME NEW m \in Taken(q), pc'[q] = "commit" PROVE cmd'[q].seen[m] = NoFile
      <4>1. cmd'[q].seen = vault
        BY <1>1, <3>4 DEF Rebuild, Begin, List, Commit, Retire, Ends, Goto, Shaped, TypeOK, Command, All
      <4> QED BY <3>3, <4>1 DEF Off
    <3>5. ASSUME NEW m \in Taken(q), pc'[q] \in {"retire", "unmark"} PROVE Unlisted(m)'
      <4>1. CASE Commit(q)
        <5>1. rows'[m] = NoFile /\ writer = q
          BY <1>6, <3>2, <3>3, <4>1 DEF Commit, Visible, GoneInv, GoneBy, Shaped, Locked
        <5>2. \A o \in All : pc'[o] # "commit"
          BY <1>1, <4>1, <5>1 DEF Commit, Goto, Shaped, Locked, TypeOK
        <5> QED BY <5>1, <5>2 DEF Unlisted
      <4>2. CASE Retire(q)
        <5>1. Unlisted(m)  BY <1>6, <3>2, <4>2 DEF Retire, GoneInv, GoneBy
        <5> QED BY <1>3, <3>3, <5>1
      <4> QED BY <1>1, <3>5, <4>1, <4>2 DEF Rebuild, Begin, List, Ends, Goto, Shaped, TypeOK
    <3> QED BY <1>1, <1>2, <1>6, <2>2, <2>4, <3>1, <3>2, <3>3, <3>4, <3>5 DEF GoneInv, GoneBy, Executing
  <2> QED BY <2>1, <2>3, <2>4
<1> QED BY <1>4, <1>5, <1>6 DEF GoneInv

\* A connector leaves what is suppressed.
LEMMA GoneSync ==
  ASSUME Shaped, Shaped', GoneInv, Ungoverned = {}, NEW m \in Memories, Sync(m)
  PROVE  GoneInv'
<1>1. /\ ~ Pruned(m) /\ UNCHANGED <<prunes, rows, gone, pc, cmd>>
      /\ \A n \in Memories \ {m} : vault'[n] = vault[n]
  BY DEF Sync, index, history, Shaped, TypeOK, Vault
<1>2. \A n \in Memories : Off(n) => Off(n)'  BY <1>1 DEF Off, Pruned
<1>3. GoneOff'  BY <1>1, <1>2, GoneOffKept DEF GoneInv, Shaped, TypeOK
<1>4. ASSUME NEW p \in Procs PROVE GoneBy(p)'
  <2>1. Taken(p)' = Taken(p) /\ Candidate(p)' = Candidate(p)  BY <1>1 DEF Taken, Candidate
  <2>2. Executing(p) => Taken(p) \subseteq Memories
    BY ManifestIdFields DEF Shaped, ProcShape, ExecutionShape, Planned, Taken, All
  <2>3. \A n : Pruned(n)' <=> Pruned(n)  BY <1>1 DEF Pruned
  <2>4. \A n : Unlisted(n) => Unlisted(n)'  BY <1>1 DEF Unlisted
  <2> QED BY <1>1, <1>2, <2>1, <2>2, <2>3, <2>4 DEF GoneInv, GoneBy, Executing
<1> QED BY <1>3, <1>4 DEF GoneInv

LEMMA GoneStop ==
  ASSUME Shaped, Shaped', GoneInv, NEW q \in All, Stop(q)
  PROVE  GoneInv'
<1>1. /\ UNCHANGED <<vault, prunes, rows, gone>> /\ Ends(q) /\ pc[q] # "idle"
      /\ pc'[q] = "idle" /\ \A o \in All \ {q} : pc'[o] = pc[o] /\ cmd'[o] = cmd[o]
  BY DEF Stop, Ends, Goto, Shaped, TypeOK, All
<1>2. CASE q \in Procs  BY <1>1, <1>2, GoneEnds
<1>3. CASE q \notin Procs
  <2>1. GoneOff'  BY <1>1, GoneOffKept DEF GoneInv, Off, Pruned
  <2>2. \A p \in Procs : GoneBy(p)'  BY <1>1, <1>3, GoneByKept DEF GoneInv, All
  <2> QED BY <2>1, <2>2 DEF GoneInv
<1> QED BY <1>2, <1>3

LEMMA GoneStartJob ==
  ASSUME Shaped, Shaped', GoneInv, StartJob
  PROVE  GoneInv'
<1>1. /\ UNCHANGED <<vault, prunes, rows, gone, cmd>>
      /\ pc'[Job] = "begin" /\ \A p \in All \ {Job} : pc'[p] = pc[p]
  BY DEF StartJob, history, index, Goto, Shaped, TypeOK, All
<1>2. GoneOff'  BY <1>1, GoneOffKept DEF GoneInv, Off, Pruned
<1>3. \A p \in Procs : GoneBy(p)'  BY <1>1, GoneByKept, RetentionAssumption DEF GoneInv, All
<1> QED BY <1>2, <1>3 DEF GoneInv

LEMMA GoneNext ==
  ASSUME Shaped, Shaped', GoneInv, ~ Overlap, Ungoverned = {}, [Next]_vars
  PROVE  GoneInv'
<1>1. most.synced \subseteq Memories
  BY RetentionAssumption DEF Shaped, TypeOK, Bound
<1>2. ASSUME NEW p \in Procs, Commands(p) PROVE GoneInv'
  <2>1. CASE \E r \in Reports : BuildReport(p, r) \/ \E m \in Memories, a \in Actions : Decide(p, r, m, a)
    <3>1. UNCHANGED <<vault, prunes, rows, gone, pc, cmd>>
      BY <2>1 DEF BuildReport, Decide, history, index
    <3> QED BY <3>1, GoneReports
  <2> QED BY <1>2, <2>1, GoneExecute, GoneRecover DEF Commands
<1>3. ASSUME NEW p \in Procs, Run(p) PROVE GoneInv'
  BY <1>3, GoneChecks, GoneMarks, GoneChanges, GoneUnmark, GoneRestore, GoneRevoke, GoneLedger,
     GoneRebuild DEF Run, All
<1>4. ASSUME NEW x \in manifests, Expire(x) PROVE GoneInv'
  <2>1. UNCHANGED <<vault, prunes, rows, gone, pc, cmd>>  BY <1>4 DEF Expire, history, index
  <2> QED BY <2>1, GoneReports
<1>5. CASE Next
  BY <1>1, <1>2, <1>3, <1>4, <1>5, GoneStartJob, GoneRebuild, GoneStop, GoneSync DEF Next, All
<1>6. CASE UNCHANGED vars  BY <1>6, GoneReports DEF vars
<1> QED BY <1>5, <1>6

\* What an execution that ended well (its removals, ledger entries and rebuild all
\* done; DoneStaysGone) took away is not in the vault and not served,
\* until a recovery writes it back, whatever connectors that ask the ledger and the
\* index job do beside it.
THEOREM DoneIsGone ==
  ASSUME ~ Overlap, Ungoverned = {}
  PROVE  Spec => []DoneStaysGone
<1>1. Init => GoneInv
  <2> SUFFICES ASSUME Init PROVE GoneInv  OBVIOUS
  <2>1. gone = {} /\ \A p \in Procs : pc[p] = "idle" /\ cmd[p] = Blank  BY DEF Init
  <2> QED BY <2>1 DEF GoneInv, GoneOff, GoneBy, Executing, Blank
<1>2. Shaped /\ Shaped' /\ GoneInv /\ [Next]_vars => GoneInv'  BY GoneNext
<1>3. GoneInv => DoneStaysGone  BY DEF GoneInv, GoneOff, Off, Unlisted, DoneStaysGone, Served
<1>4. Spec => []Shaped  BY RetentionShaped
<1> QED BY <1>1, <1>2, <1>3, <1>4, PTL DEF Spec

-----------------------------------------------------------------------------
(* What is removed can be recovered.  A connector's content is always new, *)
(* so a file that is as it was reviewed has been so all along, and the     *)
(* manifest that was sealed in between holds it; and it is the manifest of *)
(* this execution alone, if no two began in the same second.               *)

NotNewer(f, m) == f # NoFile => f.body <= version[m]
Newer(m, f) == vault[m] # NoFile /\ vault[m].body > f.body

Versions ==
    /\ \A m \in Memories : NotNewer(vault[m], m)
    /\ \A r \in Reports : reports[r] # None => \A m \in Candidates(r) : NotNewer(Reviewed(r, m), m)
    /\ \A p \in Procs : pc[p] \in {"mark", "write"} => NotNewer(cmd[p].read, Candidate(p))

Dated ==
    /\ \A x \in manifests : \E n \in 1 .. runs : x.id.at = Second[n]
    /\ \A p \in Procs : pc[p] = "snapshot" =>
          /\ \E n \in 1 .. runs : cmd[p].id.at = Second[n]
          /\ \A x \in manifests : x.id # cmd[p].id

\* A manifest has what was reviewed, or has it except for what is newer by now.
Seals(x) == \A m \in x.id.targets : x.data[m] = Reviewed(x.id.report, m)
MaySeal(x) == \A m \in x.id.targets : \/ x.data[m] = Reviewed(x.id.report, m)
                                     \/ Newer(m, Reviewed(x.id.report, m))

SealedBy(p) ==
    /\ pc[p] \in {"snapshot", "recheck"} =>
          \A m \in cmd[p].id.targets : \/ vault[m] = Reviewed(cmd[p].id.report, m)
                                       \/ Newer(m, Reviewed(cmd[p].id.report, m))
    /\ pc[p] = "recheck" => \E x \in manifests : x.id = cmd[p].id /\ MaySeal(x)
    /\ pc[p] \in Executes => \E x \in manifests : x.id = cmd[p].id /\ Seals(x)
    /\ pc[p] \in {"hash", "unlink"} => [report |-> cmd[p].id.report, id |-> Candidate(p)] \in prunes
    /\ pc[p] = "unlink" => vault[Candidate(p)] = Reviews(p)

\* A manifest that no failing check drops.
Stands(x) == \A p \in Procs : pc[p] = "recheck" => x.id # cmd[p].id

Holds(x, t) ==
    /\ t.id \in x.id.targets
    /\ x.data[t.id] = t.content /\ Seals(x)

Recoverable ==
    /\ \A t \in removed : \E x \in manifests : Holds(x, t) /\ Stands(x)
    /\ \A e \in prunes : \E x \in manifests :
          x.id.report = e.report /\ e.id \in x.id.targets /\ Seals(x) /\ Stands(x)

Kept == Versions /\ Dated /\ (\A p \in Procs : SealedBy(p)) /\ Recoverable

-----------------------------------------------------------------------------
(* Its parts, where a step does not concern them. *)

\* Reviewed contents stay what they are.
SameReviews ==
    \A r \in Reports : reports[r] # None =>
        reports'[r] # None /\ Candidates(r)' = Candidates(r) /\ reports'[r].cands = reports[r].cands

\* Every manifest stays, but for its window.
SameManifests ==
    /\ \A y \in manifests : \E z \in manifests' : z.id = y.id /\ z.data = y.data
    /\ \A z \in manifests' : \E y \in manifests : z.id = y.id /\ z.data = y.data

LEMMA VersionsKept ==
  ASSUME Versions, reports' = reports, version' = version,
         \A m \in Memories : vault'[m] = vault[m] \/ NotNewer(vault'[m], m),
         \A p \in Procs : pc'[p] \in {"mark", "write"} =>
             /\ pc[p] \in {"mark", "write"}
             /\ cmd'[p].read = cmd[p].read /\ cmd'[p].todo = cmd[p].todo
  PROVE  Versions'
<1>1. \A m \in Memories : NotNewer(vault[m], m)' BY DEF Versions, NotNewer
<1>2. \A r \in Reports : reports'[r] # None =>
         \A m \in Candidates(r)' : NotNewer(Reviewed(r, m), m)'
  BY DEF Versions, NotNewer, Candidates, Reviewed
<1>3. \A p \in Procs : pc'[p] \in {"mark", "write"} => NotNewer(cmd[p].read, Candidate(p))'
  BY DEF Versions, NotNewer, Candidate
<1> QED BY <1>1, <1>2, <1>3 DEF Versions

LEMMA DatedKept ==
  ASSUME Dated, runs' = runs,
         \A z \in manifests' : \E y \in manifests : z.id = y.id,
         \A p \in Procs : pc'[p] = "snapshot" => pc[p] = "snapshot" /\ cmd'[p].id = cmd[p].id
  PROVE  Dated'
  BY DEF Dated

LEMMA SealedKept ==
  ASSUME NEW p, SealedBy(p), pc'[p] = pc[p], cmd'[p] = cmd[p], UNCHANGED <<vault, reports, prunes>>,
         \A y \in manifests : \E z \in manifests' : z.id = y.id /\ z.data = y.data
  PROVE  SealedBy(p)'
<1>1. Candidate(p)' = Candidate(p) /\ Reviews(p)' = Reviews(p)
  BY DEF Candidate, Reviews, Reviewed
<1>2. \A y, z : z.id = y.id /\ z.data = y.data =>
         (Seals(y) => Seals(z)') /\ (MaySeal(y) => MaySeal(z)')
  BY DEF Seals, MaySeal, Newer, Reviewed
<1>3. /\ pc[p] = "recheck" => \E z \in manifests' : z.id = cmd[p].id /\ MaySeal(z)'
      /\ pc[p] \in Executes => \E z \in manifests' : z.id = cmd[p].id /\ Seals(z)'
  BY <1>2 DEF SealedBy
<1>4. pc[p] \in {"snapshot", "recheck"} =>
         \A m \in cmd[p].id.targets : \/ vault'[m] = Reviewed(cmd[p].id.report, m)'
                                      \/ Newer(m, Reviewed(cmd[p].id.report, m))'
  BY DEF SealedBy, Newer, Reviewed
<1> QED BY <1>1, <1>3, <1>4 DEF SealedBy

LEMMA RecoverableKept ==
  ASSUME Shaped, Recoverable, removed' = removed, prunes' \subseteq prunes, SameReviews,
         \A y \in manifests : Stands(y) => \E z \in manifests' : z.id = y.id /\ z.data = y.data,
         \A p \in Procs : pc'[p] = "recheck" =>
             \A y \in manifests : Stands(y) => y.id # cmd'[p].id
  PROVE  Recoverable'
<1>1. \A y \in manifests, z \in manifests' : Stands(y) /\ z.id = y.id => Stands(z)'
  BY DEF Stands
<1>2. \A y \in manifests : y.id.report \in Reports /\ reports[y.id.report] # None
                              /\ y.id.targets \subseteq Candidates(y.id.report)
  BY ManifestIdFields DEF Shaped, TypeOK, Manifested
<1>a. \A y \in manifests, z \in manifests' :
         Seals(y) /\ z.id = y.id /\ z.data = y.data => Seals(z)'
  BY <1>2 DEF Seals, Reviewed, SameReviews
<1>3. \A y \in manifests, t \in removed, z \in manifests' :
         Holds(y, t) /\ z.id = y.id /\ z.data = y.data => Holds(z, t)'
  BY <1>a DEF Holds
<1>4. ASSUME NEW t \in removed'
      PROVE  \E z \in manifests' : Holds(z, t)' /\ Stands(z)'
  <2>1. PICK y \in manifests : Holds(y, t) /\ Stands(y)  BY <1>4 DEF Recoverable
  <2> QED BY <2>1, <1>1, <1>3
<1>5. ASSUME NEW e \in prunes'
      PROVE  \E z \in manifests' :
                z.id.report = e.report /\ e.id \in z.id.targets /\ Seals(z)' /\ Stands(z)'
  <2>1. PICK y \in manifests : /\ y.id.report = e.report /\ e.id \in y.id.targets
                               /\ Seals(y) /\ Stands(y)
    BY <1>5 DEF Recoverable
  <2> QED BY <2>1, <1>1, <1>a
<1> QED BY <1>4, <1>5 DEF Recoverable

LEMMA SameReviewsHolds ==
  ASSUME reports' = reports
  PROVE  SameReviews
  BY DEF SameReviews, Candidates

\* A step of the one command under way.
LEMMA KeptByOne ==
  ASSUME Versions', Dated', Recoverable', NEW p \in Procs, SealedBy(p)',
         \A o \in Procs \ {p} : pc'[o] = "idle"
  PROVE  Kept'
  BY DEF Kept, SealedBy, Executes

-----------------------------------------------------------------------------
(* The steps. *)

\* Where manifests, reports, the ledger and what was removed stay.
LEMMA RecoverableStays ==
  ASSUME Shaped, Recoverable, UNCHANGED <<removed, reports, manifests>>, prunes' \subseteq prunes,
         \A p \in Procs : pc'[p] = "recheck" => pc[p] = "recheck" /\ cmd'[p] = cmd[p]
  PROVE  Recoverable'
<1>1. SameReviews  BY SameReviewsHolds
<1>2. \A p \in Procs : pc'[p] = "recheck" => \A y \in manifests : Stands(y) => y.id # cmd'[p].id
  BY DEF Stands
<1> QED BY <1>1, <1>2, RecoverableKept

LEMMA KeptReport ==
  ASSUME Shaped, Shaped', Kept, ~ Overlap, NEW p \in Procs, NEW r \in Reports,
         BuildReport(p, r) \/ \E m \in Memories, a \in Actions : Decide(p, r, m, a)
  PROVE  Kept'
<1>1. /\ UNCHANGED <<vault, version, manifests, prunes, removed, runs, pc, cmd>>
      /\ \A o \in Procs : pc'[o] = "idle"
  BY DEF BuildReport, Decide, Free, history, bounds
<1>2. SameReviews
  <2>1. CASE BuildReport(p, r)
    <3>1. \A n \in Reports : reports[n] # None => reports'[n] = reports[n]
      BY <2>1 DEF BuildReport, Shaped, Manifested
    <3> QED BY <3>1 DEF SameReviews, Candidates
  <2>2. CASE \E m \in Memories, a \in Actions : Decide(p, r, m, a)
    <3>1. \A n \in Reports : reports[n] # None =>
             reports'[n] # None /\ reports'[n].cands = reports[n].cands
      BY <2>2, DecidesOnly
    <3> QED BY <3>1 DEF SameReviews, Candidates
  <2> QED BY <2>1, <2>2
<1>3. \A n \in Reports : reports'[n] # None =>
         \A m \in Candidates(n)' : \/ reports[n] # None /\ m \in Candidates(n) /\ Reviewed(n, m)' = Reviewed(n, m)
                                   \/ m \in Memories /\ Reviewed(n, m)' = vault[m]
  <2>1. CASE BuildReport(p, r)
    <3> DEFINE old == Present \ Young
               rep == [cands |-> [m \in old |-> vault[m]], decided |-> [m \in old |-> None]]
    <3>1. /\ reports' = [reports EXCEPT ![r] = rep] /\ old \subseteq Memories
          /\ DOMAIN rep.cands = old /\ \A m \in old : rep.cands[m] = vault[m]
      BY <2>1 DEF BuildReport, Present
    <3> HIDE DEF rep, old
    <3> QED BY <3>1 DEF Shaped, Manifested, Candidates, Reviewed
  <2>2. CASE \E m \in Memories, a \in Actions : Decide(p, r, m, a)
    <3>1. \A n \in Reports : reports'[n] # None => reports[n] # None
      BY <2>2 DEF Decide, Shaped, Manifested
    <3> QED BY <3>1, <1>2 DEF SameReviews, Candidates, Reviewed
  <2> QED BY <2>1, <2>2
<1>4. Versions'
  <2>1. \A n \in Reports : reports'[n] # None =>
           \A m \in Candidates(n)' : NotNewer(Reviewed(n, m)', m)
    BY <1>3 DEF Kept, Versions
  <2>2. \A f, m : NotNewer(f, m)' <=> NotNewer(f, m)  BY <1>1 DEF NotNewer
  <2>3. \A n \in Reports : reports'[n] # None =>
           \A m \in Candidates(n)' : NotNewer(Reviewed(n, m), m)'
    BY <1>1, <2>1 DEF NotNewer
  <2> QED BY <1>1, <2>3 DEF Kept, Versions, NotNewer
<1>5. Dated'  BY <1>1, DatedKept DEF Kept
<1>6. Recoverable'  BY <1>1, <1>2, RecoverableKept DEF Kept
<1>7. SealedBy(p)'  BY <1>1 DEF SealedBy, Executes
<1> QED BY <1>1, <1>4, <1>5, <1>6, <1>7, KeptByOne

\* No two executions begin in the same second.
Distinct == \A i, j \in 1 .. MaxRuns : Second[i] = Second[j] => i = j

LEMMA KeptExecute ==
  ASSUME Shaped, Shaped', Kept, ~ Overlap, Distinct, NEW p \in Procs, NEW r \in Reports, Execute(p, r)
  PROVE  Kept'
<1> DEFINE i == [report |-> r, targets |-> Targets(r), at |-> Second[runs + 1]]
           c == [Blank EXCEPT !.id = i, !.plan = reports[r].decided, !.run = runs + 1,
                              !.todo = Targets(r)]
<1>1. /\ reports[r] # None /\ Validated(r) /\ runs' = runs + 1 /\ runs < most.runs
      /\ Goto(p, "snapshot") /\ cmd' = [cmd EXCEPT ![p] = c]
      /\ \A o \in Procs : pc[o] = "idle"
      /\ UNCHANGED <<vault, version, reports, manifests, prunes, removed>>
  BY DEF Execute, history, Free
<1>2. c.id = i /\ i.report = r /\ i.targets = Targets(r) /\ i.at = Second[runs + 1]
  BY DEF Blank
<1> HIDE DEF c, i
<1>3. /\ pc'[p] = "snapshot" /\ Goto(p, pc'[p]) /\ cmd'[p] = c
      /\ \A o \in All \ {p} : cmd'[o] = cmd[o]
  BY <1>1 DEF Goto, Shaped, TypeOK, All
<1>4. \A o \in Procs \ {p} : pc'[o] = "idle"
  BY <1>1, <1>3, Others
<1>5. Versions'
  <2>1. \A o \in Procs : pc'[o] \notin {"mark", "write"}  BY <1>3, <1>4
  <2> QED BY <1>1, <2>1, VersionsKept DEF Kept
<1>6. runs \in Nat /\ runs + 1 \in 1 .. MaxRuns
  BY <1>1, RetentionAssumption DEF Shaped, TypeOK, Bound
<1>7. \A x \in manifests : x.id.at # Second[runs + 1]
  BY <1>6, RetentionAssumption DEF Kept, Dated, Distinct
<1>8. Dated'
  <2>1. \A x \in manifests' : \E n \in 1 .. runs' : x.id.at = Second[n]
    BY <1>1, <1>6 DEF Kept, Dated
  <2>2. \E n \in 1 .. runs' : cmd'[p].id.at = Second[n]  BY <1>1, <1>2, <1>3, <1>6
  <2> QED BY <1>1, <1>2, <1>3, <1>4, <1>7, <2>1, <2>2 DEF Dated
<1>9. Recoverable'  BY <1>1, <1>3, <1>4, RecoverableStays DEF Kept
<1>10. SealedBy(p)'
  <2>1. \A m \in Targets(r) : vault'[m] = Reviewed(r, m)'
    BY <1>1 DEF Validated, Targets, Reviewed
  <2> QED BY <1>2, <1>3, <2>1 DEF SealedBy, Executes, Reviewed
<1> QED BY <1>4, <1>5, <1>8, <1>9, <1>10, KeptByOne

LEMMA KeptEnds ==
  ASSUME Shaped, Kept, NEW p \in Procs, pc[p] # "idle", Ends(p),
         UNCHANGED <<vault, version, reports, prunes, removed, runs>>,
         \/ manifests' = manifests
         \/ pc[p] = "recheck" /\ manifests' = Without(cmd[p].id)
  PROVE  Kept'
<1>1. /\ pc'[p] = "idle" /\ Goto(p, pc'[p])
  BY DEF Ends, Goto, Shaped, TypeOK, All
<1>2. \A o \in Procs \ {p} : pc'[o] = "idle"
  BY <1>1, Others
<1>3. Versions'  BY <1>1, <1>2, VersionsKept DEF Kept
<1>4. Dated'  BY <1>1, <1>2, DatedKept DEF Kept, Without
<1>5. Recoverable'
  <2>1. \A y \in manifests : Stands(y) => y \in manifests'
    BY DEF Stands, Without
  <2> QED BY <1>1, <1>2, <2>1, SameReviewsHolds, RecoverableKept DEF Kept
<1>6. SealedBy(p)'  BY <1>1 DEF SealedBy, Executes
<1> QED BY <1>2, <1>3, <1>4, <1>5, <1>6, KeptByOne

\* The snapshot holds what was reviewed, or what is newer by now.
LEMMA KeptSnapshot ==
  ASSUME Shaped, Shaped', Kept, NEW p \in Procs, Snapshot(p)
  PROVE  Kept'
<1> DEFINE i == cmd[p].id
           x == [id |-> i, data |-> [m \in i.targets |-> vault[m]], open |-> TRUE]
<1>1. /\ pc[p] = "snapshot" /\ pc[p] # "idle"
      /\ UNCHANGED <<vault, version, reports, prunes, removed, runs>>
  BY DEF Snapshot, history, bounds
<1>2. CASE ~ (i.targets \subseteq Present)
  BY <1>1, <1>2, KeptEnds DEF Snapshot
<1>3. CASE i.targets \subseteq Present
  <2>1. manifests' = Without(i) \cup {x} /\ Goto(p, "recheck") /\ cmd' = cmd
    BY <1>3 DEF Snapshot
  <2>2. x.id = i /\ x.data = [m \in i.targets |-> vault[m]]  OBVIOUS
  <2> HIDE DEF x
  <2>3. \A m \in i.targets : x.data[m] = vault[m]  BY <2>2
  <2>4. pc'[p] = "recheck" /\ Goto(p, pc'[p])  BY <2>1 DEF Goto, Shaped, TypeOK
  <2>5. \A o \in Procs \ {p} : pc'[o] = "idle"  BY <1>1, <2>4, Others
  <2>6. manifests' = manifests \cup {x} /\ \A y \in manifests : y.id # i
    BY <1>1, <2>1 DEF Without, Kept, Dated
  <2>7. Versions'  BY <1>1, <2>4, <2>5, VersionsKept DEF Kept
  <2>8. Dated'
    BY <1>1, <2>2, <2>4, <2>5, <2>6 DEF Kept, Dated
  <2>9. Recoverable'
    BY <1>1, <2>1, <2>4, <2>5, <2>6, SameReviewsHolds, RecoverableKept DEF Kept
  <2>10. SealedBy(p)'
    <3>1. \A m \in i.targets : vault[m] = Reviewed(i.report, m) \/ Newer(m, Reviewed(i.report, m))
      BY <1>1 DEF Kept, SealedBy
    <3>2. MaySeal(x)  BY <2>2, <2>3, <3>1 DEF MaySeal
    <3>3. PICK y \in manifests' : y = x  BY <2>6
    <3>a. MaySeal(y)'  BY <1>1, <3>2, <3>3 DEF MaySeal, Newer, Reviewed
    <3>4. \A m \in i.targets : \/ vault'[m] = Reviewed(i.report, m)'
                               \/ Newer(m, Reviewed(i.report, m))'
      BY <1>1, <2>1, <3>1 DEF Newer, Reviewed
    <3> QED BY <2>1, <2>2, <2>4, <3>3, <3>4, <3>a DEF SealedBy, Executes
  <2> QED BY <2>5, <2>7, <2>8, <2>9, <2>10, KeptByOne
<1> QED BY <1>2, <1>3

\* The files are as reviewed, so none is newer: the snapshot holds what was reviewed.
LEMMA KeptRecheck ==
  ASSUME Shaped, Shaped', Kept, NEW p \in Procs, Recheck(p)
  PROVE  Kept'
<1> DEFINE i == cmd[p].id
<1>1. /\ pc[p] = "recheck" /\ pc[p] # "idle" /\ i.report \in Reports /\ reports[i.report] # None
      /\ i.targets \subseteq Candidates(i.report)
      /\ UNCHANGED <<vault, version, reports, prunes, removed, runs>>
  BY UnderWay, ManifestIdFields DEF Recheck, history, bounds, ProcShape, ExecutionShape, Planned
<1>2. CASE ~ AsReviewed(i)
  BY <1>1, <1>2, KeptEnds DEF Recheck
<1>3. CASE AsReviewed(i)
  <2>1. manifests' = manifests /\ Goto(p, "next") /\ cmd' = cmd
    BY <1>3 DEF Recheck
  <2>2. pc'[p] = "next" /\ Goto(p, pc'[p])  BY <2>1 DEF Goto, Shaped, TypeOK
  <2>3. \A o \in Procs \ {p} : pc'[o] = "idle"  BY <1>1, <2>2, Others
  <2>4. Versions'  BY <1>1, <2>2, <2>3, VersionsKept DEF Kept
  <2>5. Dated'  BY <1>1, <2>1, <2>2, <2>3, DatedKept DEF Kept
  <2>6. Recoverable'  BY <1>1, <2>1, <2>2, <2>3, RecoverableStays DEF Kept
  <2>7. SealedBy(p)'
    <3>1. PICK x \in manifests : x.id = i /\ MaySeal(x)
      BY <1>1 DEF Kept, SealedBy
    <3>2. \A m \in i.targets : ~ Newer(m, Reviewed(i.report, m))
      <4> SUFFICES ASSUME NEW m \in i.targets PROVE ~ Newer(m, Reviewed(i.report, m))  OBVIOUS
      <4>1. vault[m] = Reviewed(i.report, m) /\ Reviewed(i.report, m) \in Content
        BY <1>1, <1>3, ReviewedIsContent DEF AsReviewed
      <4>2. vault[m].body \in Nat  BY <4>1, RetentionAssumption DEF Content
      <4> QED BY <4>1, <4>2 DEF Newer
    <3>3. Seals(x)  BY <3>1, <3>2 DEF Seals, MaySeal
    <3>4. Seals(x)'  BY <1>1, <3>3 DEF Seals, Reviewed
    <3> QED BY <2>1, <2>2, <3>1, <3>4 DEF SealedBy
  <2> QED BY <2>3, <2>4, <2>5, <2>6, <2>7, KeptByOne
<1> QED BY <1>2, <1>3

\* An execution's step that leaves the manifests and has the same candidates in hand.
LEMMA KeptProceeds ==
  ASSUME Shaped, Kept, NEW p \in Procs, pc[p] \in Executes, Goto(p, pc'[p]),
         pc'[p] \in Executes \cup {"begin"},
         cmd'[p].id = cmd[p].id, cmd'[p].todo = cmd[p].todo,
         UNCHANGED <<vault, version, reports, manifests, removed, runs>>,
         Recoverable',
         pc'[p] \in {"mark", "write"} =>
            \/ NotNewer(cmd'[p].read, Candidate(p))
            \/ pc[p] \in {"mark", "write"} /\ cmd'[p].read = cmd[p].read,
         pc'[p] \in {"hash", "unlink"} => [report |-> cmd[p].id.report, id |-> Candidate(p)] \in prunes',
         pc'[p] = "unlink" => vault[Candidate(p)] = Reviews(p)
  PROVE  Kept'
<1>1. \A o \in Procs \ {p} : pc'[o] = "idle"  BY Others DEF Executes
<1>2. Candidate(p)' = Candidate(p) /\ Reviews(p)' = Reviews(p)
  BY DEF Candidate, Reviews, Reviewed
<1>3. Versions'
  <2>1. pc'[p] \in {"mark", "write"} => NotNewer(cmd[p].read, Candidate(p))'
    BY <1>2 DEF Kept, Versions, NotNewer
  <2>2. \A m \in Memories : NotNewer(vault[m], m)'  BY DEF Kept, Versions, NotNewer
  <2>3. \A r \in Reports : reports'[r] # None =>
           \A m \in Candidates(r)' : NotNewer(Reviewed(r, m), m)'
    BY DEF Kept, Versions, NotNewer, Candidates, Reviewed
  <2> QED BY <1>1, <2>1, <2>2, <2>3 DEF Versions
<1>4. Dated'  BY <1>1, DatedKept DEF Kept, Executes
<1>5. SealedBy(p)'
  <2>1. PICK x \in manifests : x.id = cmd[p].id /\ Seals(x)  BY DEF Kept, SealedBy
  <2>2. Seals(x)'  BY <2>1 DEF Seals, Reviewed
  <2> QED BY <1>2, <2>1, <2>2 DEF SealedBy, Executes
<1> QED BY <1>1, <1>3, <1>4, <1>5, KeptByOne

LEMMA KeptParse ==
  ASSUME Shaped, Kept, NEW p \in Procs, Parse(p)
  PROVE  Kept'
<1>1. /\ pc[p] = "next" /\ cmd[p] \in Command /\ pc[p] # "idle" /\ Candidate(p) \in Memories
      /\ UNCHANGED <<vault, version, reports, manifests, removed, runs, prunes>>
  BY UnderWay, CandidateIsIn DEF Parse, bounds, history, Interrupt
<1>2. CASE vault[Candidate(p)] = NoFile  BY <1>1, <1>2, KeptEnds DEF Parse, Interrupt
<1>3. CASE vault[Candidate(p)] # NoFile
  <2> DEFINE f == vault[Candidate(p)]
  <2>1. /\ Goto(p, "mark") /\ cmd' = [cmd EXCEPT ![p].read = f]
    BY <1>3 DEF Parse
  <2>2. NotNewer(f, Candidate(p))  BY <1>1 DEF Kept, Versions
  <2> HIDE DEF f
  <2>3. pc'[p] = "mark"  BY <2>1 DEF Goto, Shaped, TypeOK
  <2>4. /\ cmd'[p].id = cmd[p].id /\ cmd'[p].todo = cmd[p].todo /\ cmd'[p].read = f
        /\ \A o \in All \ {p} : cmd'[o] = cmd[o]
    BY <1>1, <2>1 DEF Shaped, TypeOK, Command, All
  <2>5. Recoverable'
    <3>1. \A o \in Procs : pc'[o] # "recheck"  BY <1>1, <2>1, <2>3, Others
    <3> QED BY <1>1, <3>1, RecoverableStays DEF Kept
  <2> QED BY <1>1, <2>1, <2>2, <2>3, <2>4, <2>5, KeptProceeds DEF Executes
<1> QED BY <1>2, <1>3

\* A suppression is of a target of the execution's own manifest.
LEMMA KeptMarks ==
  ASSUME Shaped, Kept, NEW p \in Procs, Mark(p) \/ Output(p) \/ Append(p) \/ ToRebuild(p)
  PROVE  Kept'
<1>1. /\ pc[p] \in {"mark", "output", "append", "next"} /\ pc[p] \in Executes
      /\ cmd' = cmd /\ Goto(p, pc'[p])
      /\ UNCHANGED <<vault, version, reports, manifests, removed, runs>>
  BY DEF Mark, Output, Append, ToRebuild, bounds, history, Executes, Goto, Shaped, TypeOK
<1>2. \A o \in Procs \ {p} : pc'[o] = "idle"  BY <1>1, Others
<1>3. CASE ~ Append(p)
  <2>1. /\ prunes' = prunes /\ pc'[p] \in {"write", "output", "append", "begin"}
        /\ pc'[p] \in {"mark", "write"} => pc[p] \in {"mark", "write"}
    BY <1>3 DEF Mark, Output, ToRebuild, Goto, Shaped, TypeOK
  <2>2. Recoverable'  BY <1>1, <1>2, <2>1, RecoverableStays DEF Kept
  <2> QED BY <1>1, <2>1, <2>2, KeptProceeds DEF Executes
<1>4. CASE Append(p)
  <2> DEFINE e == [report |-> cmd[p].id.report, id |-> Candidate(p)]
  <2>1. prunes' = prunes \cup {e} /\ pc'[p] = "hash" /\ pc[p] = "append"
    BY <1>4 DEF Append, Goto, Shaped, TypeOK
  <2>2. Candidate(p) \in cmd[p].id.targets  BY <2>1, CandidateIsIn DEF Changes
  <2>3. PICK x \in manifests : x.id = cmd[p].id /\ Seals(x)  BY <1>1 DEF Kept, SealedBy
  <2>4. \A y \in manifests : Stands(y)'  BY <1>2, <2>1 DEF Stands
  <2>5. x.id.report = e.report /\ e.id \in x.id.targets  BY <2>2, <2>3
  <2> HIDE DEF e
  <2>a. \A y \in manifests : Seals(y) => Seals(y)'  BY <1>1 DEF Seals, Reviewed
  <2>6. Recoverable'
    <3>1. \A t \in removed' : \E y \in manifests' : Holds(y, t)' /\ Stands(y)'
      BY <1>1, <2>4, <2>a DEF Kept, Recoverable, Holds
    <3>2. \A d \in prunes' : \E y \in manifests' :
             y.id.report = d.report /\ d.id \in y.id.targets /\ Seals(y)' /\ Stands(y)'
      BY <1>1, <2>1, <2>3, <2>4, <2>5, <2>a DEF Kept, Recoverable
    <3> QED BY <3>1, <3>2 DEF Recoverable
  <2> QED BY <1>1, <2>1, <2>6, KeptProceeds DEF Executes, e
<1> QED BY <1>3, <1>4

LEMMA KeptAdvances ==
  ASSUME Shaped, Kept, NEW p \in Procs, pc[p] \in {"write", "hash", "unlink"}, Advance(p),
         UNCHANGED <<version, writer, reports, manifests, runs>>, Recoverable',
         \A m \in Memories : vault'[m] = vault[m] \/ NotNewer(vault'[m], m)
  PROVE  Kept'
<1>1. pc[p] \in Changes /\ pc[p] \in Executes /\ pc[p] # "idle"  BY DEF Changes, Executes
<1>2. /\ pc'[p] = "next" /\ Goto(p, pc'[p]) /\ cmd'[p].id = cmd[p].id
      /\ \A o \in All \ {p} : pc'[o] = pc[o] /\ cmd'[o] = cmd[o]
  BY <1>1, Advances DEF Advance
<1>3. \A o \in Procs \ {p} : pc'[o] = "idle"  BY <1>1, <1>2, Others
<1>4. Versions'  BY <1>2, <1>3, VersionsKept DEF Kept
<1>5. Dated'  BY <1>2, <1>3, DatedKept DEF Kept
<1>6. SealedBy(p)'
  <2>1. PICK x \in manifests : x.id = cmd[p].id /\ Seals(x)  BY <1>1 DEF Kept, SealedBy
  <2>2. Seals(x)'  BY <2>1 DEF Seals, Reviewed
  <2> QED BY <1>2, <2>1, <2>2 DEF SealedBy, Executes
<1> QED BY <1>3, <1>4, <1>5, <1>6, KeptByOne

\* What goes is what was reviewed: no connector writes what is suppressed.
LEMMA KeptChanges ==
  ASSUME Shaped, Kept, NEW p \in Procs, Write(p) \/ Hash(p) \/ Unlink(p)
  PROVE  Kept'
<1>1. /\ pc[p] \in {"write", "hash", "unlink"} /\ pc[p] \in Changes /\ pc[p] # "idle"
      /\ pc[p] \in Executes
      /\ UNCHANGED <<version, writer, reports, manifests, runs, prunes>>
  BY DEF Write, Hash, Unlink, Changes, index, bounds, Executes
<1>2. /\ Candidate(p) \in Memories /\ Candidate(p) \in cmd[p].id.targets
      /\ Reviews(p) \in Content
  BY <1>1, CandidateIsIn
<1>3. /\ pc'[p] \in {"next", "unlink", "idle"} /\ Goto(p, pc'[p])
  BY DEF Write, Hash, Unlink, Advance, Ends, Goto, Interrupt, Shaped, TypeOK
<1>4. \A o \in Procs \ {p} : pc'[o] = "idle"  BY <1>1, <1>3, Others
<1>5. \A o \in Procs : pc'[o] # "recheck"  BY <1>3, <1>4
<1>6. removed' = removed => Recoverable'  BY <1>1, <1>5, RecoverableStays DEF Kept
<1>7. CASE Write(p)
  <2> DEFINE f == [cmd[p].read EXCEPT !.class = "changed"]
  <2>1. /\ pc[p] = "write" /\ Advance(p) /\ removed' = removed
        /\ vault' = [vault EXCEPT ![Candidate(p)] = f]
        /\ cmd[p].read \in Content
    BY <1>7, UnderWay DEF Write, history, ProcShape, ActShape
  <2>2. f \in Content /\ f.body = cmd[p].read.body  BY <2>1 DEF Content
  <2>3. NotNewer(f, Candidate(p))
    BY <2>1, <2>2, RetentionAssumption DEF Kept, Versions, NotNewer
  <2> HIDE DEF f
  <2>4. \A m \in Memories : vault'[m] = vault[m] \/ NotNewer(vault'[m], m)
    BY <1>2, <2>1, <2>3 DEF Shaped, TypeOK, Vault
  <2> QED BY <1>1, <1>6, <2>1, <2>4, KeptAdvances
<1>8. CASE Hash(p)
  <2>1. pc[p] = "hash" /\ UNCHANGED <<vault, removed>>  BY <1>8 DEF Hash, Interrupt, history
  <2>2. CASE Ends(p)  BY <1>1, <2>1, <2>2, KeptEnds
  <2>3. CASE Advance(p)  BY <1>1, <1>6, <2>1, <2>3, KeptAdvances
  <2>4. CASE Goto(p, "unlink") /\ cmd' = cmd /\ vault[Candidate(p)] = Reviews(p)
    <3>1. pc'[p] = "unlink"  BY <2>4 DEF Goto, Shaped, TypeOK
    <3>2. [report |-> cmd[p].id.report, id |-> Candidate(p)] \in prunes'
      BY <1>1, <2>1 DEF Kept, SealedBy
    <3> QED BY <1>1, <1>3, <1>6, <2>1, <2>4, <3>1, <3>2, KeptProceeds DEF Executes
  <2> QED BY <1>8, <2>2, <2>3, <2>4 DEF Hash, Interrupt
<1>9. CASE Unlink(p)
  <2> DEFINE t == [id |-> Candidate(p), content |-> vault[Candidate(p)]]
  <2>1. /\ pc[p] = "unlink" /\ Advance(p) /\ removed' \subseteq removed \cup {t}
        /\ vault' = [vault EXCEPT ![Candidate(p)] = NoFile]
    BY <1>9 DEF Unlink
  <2>2. PICK x \in manifests : x.id = cmd[p].id /\ Seals(x)  BY <1>1 DEF Kept, SealedBy
  <2>3. Holds(x, t)
    <3>1. vault[Candidate(p)] = Reviewed(cmd[p].id.report, Candidate(p))
      BY <2>1 DEF Kept, SealedBy, Reviews
    <3>2. t.id = Candidate(p) /\ t.content = vault[Candidate(p)]  OBVIOUS
    <3> HIDE DEF t
    <3> QED BY <1>2, <2>2, <3>1, <3>2 DEF Holds, Seals
  <2> HIDE DEF t
  <2>4. \A y \in manifests : Stands(y)'  BY <1>5 DEF Stands
  <2>a. \A y \in manifests : Seals(y) => Seals(y)'  BY <1>1 DEF Seals, Reviewed
  <2>5. \A d : \A y \in manifests : Holds(y, d) => Holds(y, d)'  BY <1>1, <2>a DEF Holds
  <2>6. Recoverable'
    <3>1. \A d \in removed' : \E y \in manifests' : Holds(y, d)' /\ Stands(y)'
      BY <1>1, <2>1, <2>3, <2>4, <2>5 DEF Kept, Recoverable
    <3>2. \A e \in prunes' : \E y \in manifests' :
             y.id.report = e.report /\ e.id \in y.id.targets /\ Seals(y)' /\ Stands(y)'
      BY <1>1, <2>4, <2>a DEF Kept, Recoverable
    <3> QED BY <3>1, <3>2 DEF Recoverable
  <2>7. \A m \in Memories : vault'[m] = vault[m] \/ NotNewer(vault'[m], m)
    BY <1>2, <2>1 DEF Shaped, TypeOK, Vault, NotNewer
  <2> QED BY <1>1, <2>1, <2>6, <2>7, KeptAdvances
<1> QED BY <1>7, <1>8, <1>9

\* A command that leaves manifests, reports and what was removed, and suppresses nothing.
LEMMA KeptBeside ==
  ASSUME Shaped, Kept, NEW p \in Procs, \A o \in Procs \ {p} : pc'[o] = "idle",
         pc'[p] \notin {"snapshot", "recheck"} \cup Executes,
         UNCHANGED <<version, reports, manifests, removed, runs>>, prunes' \subseteq prunes,
         \A m \in Memories : vault'[m] = vault[m] \/ NotNewer(vault'[m], m)
  PROVE  Kept'
<1>1. Versions'  BY VersionsKept DEF Kept, Executes
<1>2. Dated'  BY DatedKept DEF Kept
<1>3. Recoverable'  BY RecoverableStays DEF Kept
<1>4. SealedBy(p)'  BY DEF SealedBy, Executes
<1> QED BY <1>1, <1>2, <1>3, <1>4, KeptByOne

LEMMA KeptRecovers ==
  ASSUME Shaped, Kept, ~ Overlap, NEW p \in Procs,
         \/ \E x \in manifests : Recover(p, x)
         \/ \E m \in Memories : Restore(p, m) \/ Revoke(p, m)
         \/ LoadLedger(p) \/ Revoked(p) \/ Unmark(p)
  PROVE  Kept'
<1>1. /\ UNCHANGED <<version, reports, manifests, removed, runs>> /\ prunes' \subseteq prunes
      /\ Goto(p, pc'[p]) /\ pc'[p] \in {"restore", "revoke", "begin", "idle"}
      /\ pc[p] # "idle" \/ \A o \in Procs : pc[o] = "idle"
  BY DEF Recover, Restore, Revoke, LoadLedger, Revoked, Unmark, Ends, Goto, Shaped, TypeOK, history,
         bounds, Free
<1>2. \A o \in Procs \ {p} : pc'[o] = "idle"  BY <1>1, Others
<1>3. \A m \in Memories : vault'[m] = vault[m] \/ NotNewer(vault'[m], m)
  <2>1. CASE vault' = vault  BY <2>1
  <2>2. CASE \E m \in Memories : Restore(p, m)
    <3>1. PICK m \in Memories : Restore(p, m)  BY <2>2
    <3>2. NotNewer(Reviewed(cmd[p].id.report, m), m)
      BY <3>1, UnderWay, ManifestIdFields DEF Restore, ProcShape, RecoveryShape, Kept, Versions
    <3> QED BY <3>1, <3>2 DEF Restore, Shaped, TypeOK, Vault
  <2> QED BY <2>1, <2>2 DEF Recover, Revoke, LoadLedger, Revoked, Unmark
<1> QED BY <1>1, <1>2, <1>3, KeptBeside DEF Executes

\* Where the commands stand still, and neither files, reports nor the ledger change.
LEMMA KeptStill ==
  ASSUME Shaped, Kept, SameManifests,
         \A p \in Procs : pc'[p] = pc[p] /\ cmd'[p] = cmd[p],
         UNCHANGED <<vault, version, reports, prunes, removed, runs>>
  PROVE  Kept'
<1>1. Versions'  BY VersionsKept DEF Kept
<1>2. Dated'
  BY DEF Kept, Dated, SameManifests
<1>3. \A p \in Procs : SealedBy(p)'  BY SealedKept DEF Kept, SameManifests
<1>4. Recoverable'
  <2>1. \A p \in Procs : pc'[p] = "recheck" => \A y \in manifests : Stands(y) => y.id # cmd'[p].id
    BY DEF Stands
  <2> QED BY <2>1, SameReviewsHolds, RecoverableKept DEF Kept, SameManifests
<1> QED BY <1>1, <1>2, <1>3, <1>4 DEF Kept

LEMMA KeptRebuild ==
  ASSUME Shaped, Kept, NEW q \in All, Rebuild(q)
  PROVE  Kept'
<1>1. /\ pc[q] \in Rebuilds /\ pc'[q] \in Rebuilds \cup {"idle", "unmark"}
      /\ UNCHANGED <<vault, version, reports, manifests, prunes, removed, runs>>
      /\ Goto(q, pc'[q])
      /\ \A o \in All \ {q} : pc'[o] = pc[o] /\ cmd'[o] = cmd[o]
  BY DEF Rebuild, Begin, List, Commit, Retire, Ends, Goto, Shaped, TypeOK, All, history, bounds, Rebuilds
<1>2. CASE q \in Procs
  <2>1. \A o \in Procs \ {q} : pc'[o] = "idle"  BY <1>1, <1>2, Others DEF Rebuilds
  <2> QED BY <1>1, <1>2, <2>1, KeptBeside DEF Rebuilds, Executes
<1>3. CASE q \notin Procs
  <2>1. \A p \in Procs : pc'[p] = pc[p] /\ cmd'[p] = cmd[p]  BY <1>1, <1>3 DEF All
  <2>2. SameManifests  BY <1>1 DEF SameManifests
  <2> QED BY <1>1, <2>1, <2>2, KeptStill
<1> QED BY <1>2, <1>3

LEMMA KeptStop ==
  ASSUME Shaped, Kept, NEW q \in All, Stop(q)
  PROVE  Kept'
<1>1. /\ UNCHANGED <<vault, version, reports, manifests, prunes, removed, runs>> /\ Ends(q)
      /\ pc[q] # "idle" /\ \A o \in All \ {q} : pc'[o] = pc[o] /\ cmd'[o] = cmd[o]
  BY DEF Stop, Ends, Goto, Shaped, TypeOK, All
<1>2. CASE q \in Procs  BY <1>1, <1>2, KeptEnds
<1>3. CASE q \notin Procs
  <2>1. \A p \in Procs : pc'[p] = pc[p] /\ cmd'[p] = cmd[p]  BY <1>1, <1>3 DEF All
  <2>2. SameManifests  BY <1>1 DEF SameManifests
  <2> QED BY <1>1, <2>1, <2>2, KeptStill
<1> QED BY <1>2, <1>3

\* A connector's content is newer than everything reviewed, and it writes nothing that
\* is suppressed.
LEMMA KeptSync ==
  ASSUME Shaped, Kept, Ungoverned = {}, NEW m \in Memories, Sync(m)
  PROVE  Kept'
<1> DEFINE f == [body |-> version[m] + 1, class |-> "given"]
<1>1. /\ ~ Pruned(m) /\ UNCHANGED <<reports, manifests, prunes, removed, runs, pc, cmd>>
      /\ vault' = [vault EXCEPT ![m] = f] /\ version' = [version EXCEPT ![m] = @ + 1]
  BY DEF Sync, history, bounds
<1>2. /\ version[m] \in Nat /\ version[m] + 1 \in 0 .. MaxVersion
      /\ f \in Content /\ f.body = version[m] + 1
  <2>1. version[m] \in Nat /\ version[m] + 1 \in 0 .. MaxVersion
    BY RetentionAssumption DEF Sync, Shaped, TypeOK
  <2> QED BY <2>1 DEF Content
<1> HIDE DEF f
<1>3. /\ vault'[m] = f /\ f # NoFile /\ version'[m] = version[m] + 1
      /\ \A n \in Memories \ {m} : vault'[n] = vault[n] /\ version'[n] = version[n]
  BY <1>1, <1>2, RetentionAssumption DEF Shaped, TypeOK, Vault
<1>4. \A g \in File, n \in Memories : NotNewer(g, n) => NotNewer(g, n)'
  <2> SUFFICES ASSUME NEW g \in File, NEW n \in Memories, NotNewer(g, n), g # NoFile
               PROVE  g.body <= version'[n]
    BY DEF NotNewer
  <2>1. g.body \in Nat /\ g.body <= version[n]  BY DEF NotNewer, File, Content
  <2>2. version[n] \in Nat  BY RetentionAssumption DEF Shaped, TypeOK
  <2> QED BY <1>2, <1>3, <2>1, <2>2
<1>5. Versions'
  <2>1. \A n \in Memories : NotNewer(vault[n], n)'
    <3> SUFFICES ASSUME NEW n \in Memories PROVE NotNewer(vault[n], n)'  OBVIOUS
    <3>1. CASE n = m  BY <1>2, <1>3, <3>1 DEF NotNewer
    <3>2. CASE n # m
      BY <1>3, <3>2 DEF Kept, Versions, NotNewer
    <3> QED BY <3>1, <3>2
  <2>2. \A r \in Reports : reports'[r] # None =>
           \A n \in Candidates(r)' : NotNewer(Reviewed(r, n), n)'
    <3> SUFFICES ASSUME NEW r \in Reports, reports[r] # None, NEW n \in Candidates(r)
                 PROVE  NotNewer(Reviewed(r, n), n)'
      BY <1>1 DEF Candidates
    <3>1. PICK g \in File : g = Reviewed(r, n)  BY ReviewedIsContent DEF File
    <3>2. NotNewer(g, n)'  BY <1>4, <3>1, ReportFields DEF Kept, Versions
    <3> QED BY <1>1, <3>1, <3>2 DEF NotNewer, Reviewed
  <2>3. ASSUME NEW p \in Procs, pc'[p] \in {"mark", "write"} PROVE NotNewer(cmd[p].read, Candidate(p))'
    <3>1. pc[p] \in {"mark", "write"} /\ cmd[p] \in Command
      BY <1>1, <2>3, UnderWay
    <3>2. PICK g \in File, n \in Memories : g = cmd[p].read /\ n = Candidate(p)
      BY <3>1, CandidateIsIn, CommandFields DEF Changes
    <3>3. NotNewer(g, n)'  BY <1>4, <3>1, <3>2 DEF Kept, Versions
    <3> QED BY <1>1, <3>2, <3>3 DEF NotNewer, Candidate
  <2> QED BY <2>1, <2>2, <2>3 DEF Versions
<1>6. Dated'  BY <1>1, DatedKept DEF Kept
<1>7. Recoverable'  BY <1>1, RecoverableStays DEF Kept
<1>8. ASSUME NEW p \in Procs PROVE SealedBy(p)'
  <2>1. /\ pc'[p] = pc[p] /\ cmd'[p] = cmd[p] /\ Candidate(p)' = Candidate(p)
        /\ Reviews(p)' = Reviews(p)
    BY <1>1 DEF Candidate, Reviews, Reviewed
  <2>2. ASSUME pc[p] \in {"snapshot", "recheck"}, NEW n \in cmd[p].id.targets
        PROVE  Newer(n, Reviewed(cmd[p].id.report, n))' <=>
                  n = m \/ Newer(n, Reviewed(cmd[p].id.report, n))
    <3>1. /\ cmd[p].id.report \in Reports /\ reports[cmd[p].id.report] # None
          /\ n \in Candidates(cmd[p].id.report) /\ n \in Memories
      BY <2>2, UnderWay, ManifestIdFields DEF ProcShape, ExecutionShape, Planned
    <3>2. PICK g \in Content : g = Reviewed(cmd[p].id.report, n)  BY <3>1, ReviewedIsContent
    <3>3. g.body \in Nat /\ g.body <= version[n]
      BY <3>1, <3>2, RetentionAssumption DEF Kept, Versions, NotNewer, Content
    <3>4. Reviewed(cmd[p].id.report, n)' = g  BY <1>1, <3>2 DEF Reviewed
    <3>5. CASE n = m
      BY <1>2, <1>3, <3>2, <3>3, <3>4, <3>5 DEF Newer
    <3>6. CASE n # m  BY <1>3, <3>1, <3>2, <3>4, <3>6 DEF Newer
    <3> QED BY <3>5, <3>6
  <2>3. pc[p] \in {"snapshot", "recheck"} =>
          \A n \in cmd[p].id.targets : \/ vault'[n] = Reviewed(cmd[p].id.report, n)'
                                       \/ Newer(n, Reviewed(cmd[p].id.report, n))'
    <3> SUFFICES ASSUME pc[p] \in {"snapshot", "recheck"}, NEW n \in cmd[p].id.targets
                 PROVE  \/ vault'[n] = Reviewed(cmd[p].id.report, n)'
                        \/ Newer(n, Reviewed(cmd[p].id.report, n))'
      OBVIOUS
    <3>1. n \in Memories
      BY UnderWay, ManifestIdFields DEF ProcShape, ExecutionShape, Planned
    <3>2. Reviewed(cmd[p].id.report, n)' = Reviewed(cmd[p].id.report, n)  BY <1>1 DEF Reviewed
    <3> QED BY <1>3, <2>2, <3>1, <3>2 DEF Kept, SealedBy
  <2>4. pc[p] = "recheck" => \E x \in manifests : x.id = cmd[p].id /\ MaySeal(x)'
    <3> SUFFICES ASSUME pc[p] = "recheck"
                 PROVE  \E x \in manifests : x.id = cmd[p].id /\ MaySeal(x)'
      OBVIOUS
    <3>1. PICK x \in manifests : x.id = cmd[p].id /\ MaySeal(x)  BY DEF Kept, SealedBy
    <3>2. ASSUME NEW n \in x.id.targets
          PROVE  x.data[n] = Reviewed(x.id.report, n)' \/ Newer(n, Reviewed(x.id.report, n))'
      <4>1. Reviewed(x.id.report, n)' = Reviewed(x.id.report, n)  BY <1>1 DEF Reviewed
      <4>2. Reviewed(cmd[p].id.report, n)' = Reviewed(x.id.report, n)  BY <1>1, <3>1 DEF Reviewed
      <4>3. Newer(n, Reviewed(x.id.report, n)) => Newer(n, Reviewed(x.id.report, n))'
        BY <2>2, <3>1, <4>1, <4>2 DEF Newer
      <4> QED BY <3>1, <4>1, <4>3 DEF MaySeal
    <3> QED BY <3>1, <3>2 DEF MaySeal
  <2>5. pc[p] \in Executes => \E x \in manifests : x.id = cmd[p].id /\ Seals(x)'
    BY <1>1 DEF Kept, SealedBy, Seals, Reviewed
  <2>6. pc[p] = "unlink" => vault'[Candidate(p)] = Reviews(p)
    <3> SUFFICES ASSUME pc[p] = "unlink" PROVE vault'[Candidate(p)] = Reviews(p)  OBVIOUS
    <3>1. [report |-> cmd[p].id.report, id |-> Candidate(p)] \in prunes  BY DEF Kept, SealedBy
    <3>2. [report |-> cmd[p].id.report, id |-> Candidate(p)].id = Candidate(p)  OBVIOUS
    <3>3. Candidate(p) # m  BY <1>1, <3>1, <3>2 DEF Pruned
    <3>4. Candidate(p) \in Memories  BY CandidateIsIn DEF Changes
    <3> QED BY <1>3, <3>3, <3>4 DEF Kept, SealedBy
  <2>7. pc[p] \in {"hash", "unlink"} => [report |-> cmd[p].id.report, id |-> Candidate(p)] \in prunes'
    BY <1>1 DEF Kept, SealedBy
  <2> QED BY <1>1, <2>1, <2>3, <2>4, <2>5, <2>6, <2>7 DEF SealedBy
<1> QED BY <1>5, <1>6, <1>7, <1>8 DEF Kept

LEMMA KeptNext ==
  ASSUME Shaped, Shaped', Kept, ~ Overlap, Distinct, Ungoverned = {}, [Next]_vars
  PROVE  Kept'
<1>1. most.synced \subseteq Memories
  BY RetentionAssumption DEF Shaped, TypeOK, Bound
<1>2. ASSUME NEW p \in Procs, Commands(p) PROVE Kept'
  BY <1>2, KeptReport, KeptExecute, KeptRecovers DEF Commands
<1>3. ASSUME NEW p \in Procs, Run(p) PROVE Kept'
  BY <1>3, KeptSnapshot, KeptRecheck, KeptParse, KeptMarks, KeptChanges, KeptRecovers, KeptRebuild
     DEF Run, All
<1>4. ASSUME NEW x \in manifests, Expire(x) PROVE Kept'
  <2>1. UNCHANGED <<vault, version, reports, prunes, removed, runs, pc, cmd>>
    BY <1>4 DEF Expire, history, bounds
  <2>2. SameManifests  BY <1>4, Expires DEF SameManifests
  <2> QED BY <2>1, <2>2, KeptStill
<1>5. CASE StartJob
  <2>1. /\ UNCHANGED <<vault, version, reports, manifests, prunes, removed, runs, cmd>>
        /\ \A p \in Procs : pc'[p] = pc[p]
    BY <1>5, RetentionAssumption DEF StartJob, history, bounds, Goto, Shaped, TypeOK
  <2>2. SameManifests  BY <2>1 DEF SameManifests
  <2> QED BY <2>1, <2>2, KeptStill
<1>6. CASE Next
  BY <1>1, <1>2, <1>3, <1>4, <1>5, <1>6, KeptRebuild, KeptStop, KeptSync DEF Next, All
<1>7. CASE UNCHANGED vars
  <2>1. SameManifests  BY <1>7 DEF SameManifests, vars
  <2> QED BY <1>7, <2>1, KeptStill DEF vars
<1> QED BY <1>6, <1>7

\* What an execution removed, and what it suppressed, is in a manifest whose every
\* entry is as reviewed, so that recoverRetentionManifest refuses it for nothing but
\* its age or a file in the way, wherever the execution stopped and whatever
\* connectors that ask the ledger wrote beside it, if no two executions began in the
\* same second.
THEOREM RemovedIsRecoverable ==
  ASSUME ~ Overlap, Ungoverned = {}, Distinct
  PROVE  Spec => []RemovalIsRecoverable
<1>1. Init => Kept
  <2> SUFFICES ASSUME Init PROVE Kept  OBVIOUS
  <2>1. /\ removed = {} /\ prunes = {} /\ manifests = {}
        /\ \A p \in Procs : pc[p] = "idle" /\ \A r \in Reports : reports[r] = None
    BY DEF Init
  <2>2. \A m \in Memories : vault[m] # NoFile => vault[m].body = 0 /\ version[m] = 0
    BY DEF Init
  <2>3. Versions  BY <2>1, <2>2 DEF Versions, NotNewer, Init
  <2> QED BY <2>1, <2>3 DEF Kept, Dated, SealedBy, Recoverable, Executes
<1>2. Shaped /\ Shaped' /\ Kept /\ [Next]_vars => Kept'  BY KeptNext
<1>3. Kept => RemovalIsRecoverable
  <2>1. \A x : Seals(x) => Acceptable(x)  BY DEF Seals, Acceptable, Restorable
  <2> QED BY <2>1 DEF Kept, Recoverable, RemovalIsRecoverable, Holds
<1>4. Spec => []Shaped  BY RetentionShaped
<1> QED BY <1>1, <1>2, <1>3, <1>4, PTL DEF Spec

=============================================================================
