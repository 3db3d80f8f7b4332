------------------------------ MODULE Retention ------------------------------
(***************************************************************************)
(* Reviewed retention: `mora retention report`, `decide`, `execute` and    *)
(* `recover`.                                                              *)
(*                                                                         *)
(* An execution writes a recovery manifest of everything it is about to    *)
(* change, looks at the files again, and then takes the candidates in the  *)
(* order of their ids: it marks the index, suppresses the memory in the    *)
(* governance ledger and removes the file if it still is what was          *)
(* reviewed.  A recovery writes the manifest's files back, revokes what    *)
(* its report suppressed and rebuilds.  Connectors go on writing, and the  *)
(* index job rebuilds beside it.                                           *)
(*                                                                         *)
(* A step under the governance lease is one step: Governance shows that    *)
(* the lease excludes.  A command that fails ends like one that is killed. *)
(***************************************************************************)
EXTENDS Naturals, FiniteSets

CONSTANTS
    Procs,       \* processes that run retention commands
    Job,         \* the index job
    Nobody,      \* no process
    Memories,    \* memories, in the order of their ids
    Young,       \* those too recent for a report
    Historical,  \* those a Teach decision hides from current reads
    Ungoverned,  \* those somebody edits who does not ask the ledger
    NoFile,      \* no file at a memory's path
    Reports,     \* report ids
    None,        \* nothing
    MaxVersion,  \* bound on a memory's rewrites
    MaxRuns,     \* bound on executions
    Second,      \* the second each execution begins in
    MaxFaults,   \* bound on interrupted commands
    Bounds,      \* bound: what may happen together, see Bound
    Overlap      \* whether two retention commands run beside each other

\* A file: what the connector last fetched, and the memory's class.
Content == [body: 0 .. MaxVersion, class: {"given", "changed"}]
File == Content \cup {NoFile}
Actions == {"keep", "change-class", "compact", "delete"}

\* The memories there are, those a connector rewrites, whether the index job runs,
\* and how many executions and interruptions there may be.
Bound == [present: SUBSET Memories, synced: SUBSET Memories, job: BOOLEAN,
          runs: 0 .. MaxRuns, faults: 0 .. MaxFaults]

ASSUME RetentionAssumption ==
    /\ Memories \subseteq Nat /\ IsFiniteSet(Memories)
    /\ Young \subseteq Memories
    /\ Historical \subseteq Memories
    /\ Ungoverned \subseteq Memories
    /\ Bounds \subseteq Bound
    /\ Job \notin Procs /\ Nobody \notin Procs \cup {Job}
    /\ NoFile \notin Content
    /\ None \notin Reports \cup Actions \cup Content
    /\ \A s \in SUBSET Memories :
          None \notin [cands: [s -> Content], decided: [s -> Actions \cup {None}]]
    /\ {MaxVersion, MaxRuns, MaxFaults} \subseteq Nat
    /\ Second \in [1 .. MaxRuns -> Nat]
    /\ Overlap \in BOOLEAN

VARIABLES
    vault,      \* the memories' files
    version,    \* what the connectors fetched last
    outputs,    \* the summaries compaction wrote, by report and source
    reports,    \* reports/<id>.json
    manifests,  \* recovery/<id>.json
    prunes,     \* active prune entries of the governance ledger
    marks,      \* pending delete markers
    rows,       \* what the committed index says of each memory
    writer,     \* who has the index's write transaction
    pc,         \* what each process is doing
    cmd,        \* what each process has in hand
    most,       \* bound: the choice from Bounds
    runs,       \* executions so far
    removed,    \* history: the contents executions removed
    gone,       \* history: what an execution that ended well removed
    cut,        \* history: an execution was interrupted after its first change
    faults

vars == <<vault, version, outputs, reports, manifests, prunes, marks, rows, writer,
          pc, cmd, most, runs, removed, gone, cut, faults>>
index == <<rows, writer>>
history == <<removed, gone, cut>>
bounds == <<most, runs, faults>>

Vault == [Memories -> File]
Nothing == [m \in Memories |-> NoFile]
Plans == UNION {[s -> Actions \cup {None}] : s \in SUBSET Memories}
Report == UNION {[cands: [s -> Content], decided: [s -> Actions \cup {None}]] : s \in SUBSET Memories}
ManifestId == [report: Reports, targets: SUBSET Memories, at: Nat]
NoId == [report |-> None, targets |-> {}, at |-> 0]
Marker == [run: 1 .. MaxRuns, id: Memories]
Prune == [report: Reports, id: Memories]

\* id, plan, run: the manifest, the decisions and the number of an execution; todo: the candidates, or
\* the entries to restore or to revoke; read: the candidate it parsed; noted, seen:
\* what a rebuild snapshot holds.
Command == [id: ManifestId \cup {NoId}, plan: Plans \cup {None}, run: 0 .. MaxRuns, todo: SUBSET Memories,
            read: File, noted: SUBSET Marker, seen: Vault]
Blank == [id |-> NoId, plan |-> None, run |-> 0, todo |-> {}, read |-> NoFile,
          noted |-> {}, seen |-> Nothing]

Executes == {"next", "mark", "write", "output", "append", "hash", "unlink"}
Recovers == {"restore", "ledger", "revoke"}
Rebuilds == {"begin", "list", "commit", "retire"}
Steps == {"idle", "snapshot", "recheck", "unmark"} \cup Executes \cup Recovers \cup Rebuilds

TypeOK ==
    /\ vault \in Vault /\ version \in [Memories -> 0 .. MaxVersion]
    /\ outputs \in SUBSET Prune
    /\ \A r \in Reports : reports[r] = None \/ reports[r] \in Report
    /\ \A x \in manifests : /\ x.id \in ManifestId
                            /\ x.data \in [x.id.targets -> Content]
                            /\ x.open \in BOOLEAN
    /\ prunes \in SUBSET Prune
    /\ marks \in SUBSET Marker
    /\ rows \in Vault /\ writer \in Procs \cup {Job, Nobody}
    /\ pc \in [Procs \cup {Job} -> Steps] /\ cmd \in [Procs \cup {Job} -> Command]
    /\ most \in Bounds /\ runs \in 0 .. MaxRuns /\ faults \in 0 .. MaxFaults
    /\ removed \in SUBSET [id: Memories, content: Content]
    /\ gone \in SUBSET Memories /\ cut \in BOOLEAN

-----------------------------------------------------------------------------
(* Reports and decisions. *)

Present == {m \in Memories : vault[m] # NoFile}
Candidates(r) == DOMAIN reports[r].cands
Reviewed(r, m) == reports[r].cands[m]
Decision(r, m) == reports[r].decided[m]
Targets(r) == {m \in Candidates(r) : Decision(r, m) # "keep"}

\* A person runs one command at a time, unless commands may overlap.
Free(p) == pc[p] = "idle" /\ (Overlap \/ \A q \in Procs : pc[q] = "idle")

Goto(p, step) == pc' = [pc EXCEPT ![p] = step]
Ends(p) == Goto(p, "idle") /\ cmd' = [cmd EXCEPT ![p] = Blank]

\* buildRetentionReport: what is old enough, with its hash.
BuildReport(p, r) ==
    /\ Free(p)
    /\ reports[r] = None
    /\ LET old == Present \ Young
       IN reports' = [reports EXCEPT ![r] =
             [cands |-> [m \in old |-> vault[m]], decided |-> [m \in old |-> None]]]
    /\ UNCHANGED <<vault, version, outputs, manifests, prunes, marks, index, pc, cmd,
                   history, bounds>>

\* decideRetentionCandidate.
Decide(p, r, m, action) ==
    /\ Free(p)
    /\ reports[r] # None
    /\ m \in Candidates(r)
    /\ Decision(r, m) # action
    /\ runs < most.runs
    /\ reports' = [reports EXCEPT ![r].decided[m] = action]
    /\ UNCHANGED <<vault, version, outputs, manifests, prunes, marks, index, pc, cmd,
                   history, bounds>>

-----------------------------------------------------------------------------
(* Execution. *)

\* validateRetentionReport: every decision made, every file as it was reviewed.
Validated(r) ==
    \A m \in Candidates(r) : Decision(r, m) # None /\ vault[m] = Reviewed(r, m)

\* Mutant: a memory that only its history keeps counts as a survivor.
SurvivesOnHistory(r) ==
    \E m \in Present :
        m \in Candidates(r) => Decision(r, m) \in {"compact", "keep", "change-class"}

\* validateRetentionSurvivor: a current memory stays, or a summary takes its place.
Survives(r) ==
    \E m \in Present :
        \/ m \in Candidates(r) /\ Decision(r, m) = "compact"
        \/ m \notin Historical /\ (m \in Candidates(r) => Decision(r, m) \in {"keep", "change-class"})

Execute(p, r) ==
    /\ Free(p)
    /\ reports[r] # None
    /\ runs < most.runs
    /\ Validated(r)
    /\ Survives(r)
    /\ runs' = runs + 1
    /\ Goto(p, "snapshot")
    /\ cmd' = [cmd EXCEPT ![p] = [Blank EXCEPT
                  !.id = [report |-> r, targets |-> Targets(r), at |-> Second[runs + 1]],
                  !.plan = reports[r].decided, !.run = runs + 1, !.todo = Targets(r)]]
    /\ UNCHANGED <<vault, version, outputs, reports, manifests, prunes, marks, index,
                   history, most, faults>>

\* A manifest replaces one of the same id.
Without(id) == {x \in manifests : x.id # id}

\* The files are read once more and sealed, beside the hashes of the review.
Snapshot(p) ==
    /\ pc[p] = "snapshot"
    /\ LET id == cmd[p].id
       IN IF id.targets \subseteq Present
          THEN /\ manifests' = Without(id) \cup
                     {[id |-> id, data |-> [m \in id.targets |-> vault[m]], open |-> TRUE]}
               /\ Goto(p, "recheck") /\ cmd' = cmd
          ELSE Ends(p) /\ manifests' = manifests
    /\ UNCHANGED <<vault, version, outputs, reports, prunes, marks, index, history, bounds>>

AsReviewed(id) == \A m \in id.targets : vault[m] = Reviewed(id.report, m)

\* Every file again before the first change; else the snapshot is dropped, if the
\* removal does not fail too.
Recheck(p) ==
    /\ pc[p] = "recheck"
    /\ LET id == cmd[p].id
       IN IF AsReviewed(id)
          THEN Goto(p, "next") /\ cmd' = cmd /\ manifests' = manifests
          ELSE Ends(p) /\ manifests' \in {manifests, Without(id)}
    /\ UNCHANGED <<vault, version, outputs, reports, prunes, marks, index, history, bounds>>

Least(s) == CHOOSE m \in s : \A n \in s : m <= n
Candidate(p) == Least(cmd[p].todo)
Act(p) == cmd[p].plan[Candidate(p)]
Reviews(p) == Reviewed(cmd[p].id.report, Candidate(p))
Advance(p) == /\ Goto(p, "next")
              /\ cmd' = [cmd EXCEPT ![p].todo = @ \ {Candidate(p)}, ![p].read = NoFile]

\* A command that stops half-way leaves its markers.
Interrupt(p) == Ends(p) /\ cut' = TRUE /\ UNCHANGED <<removed, gone>>

\* parseMemory of the next candidate.
Parse(p) ==
    /\ pc[p] = "next"
    /\ cmd[p].todo # {}
    /\ IF vault[Candidate(p)] = NoFile
       THEN Interrupt(p)
       ELSE /\ Goto(p, "mark")
            /\ cmd' = [cmd EXCEPT ![p].read = vault[Candidate(p)]]
            /\ UNCHANGED history
    /\ UNCHANGED <<vault, version, outputs, reports, manifests, prunes, marks, index, bounds>>

\* A delete marker without a hash, whatever the decision; or none, where the index
\* is not ready or markIndexDirty could not find out.
Mark(p) ==
    /\ pc[p] = "mark"
    /\ marks' \in {marks, marks \cup {[run |-> cmd[p].run, id |-> Candidate(p)]}}
    /\ Goto(p, CASE Act(p) = "change-class" -> "write"
                 [] Act(p) = "compact"      -> "output"
                 [] OTHER                   -> "append")
    /\ UNCHANGED <<vault, version, outputs, reports, manifests, prunes, index, cmd,
                   history, bounds>>

\* change-class: the parsed memory is written back under its new class.
Write(p) ==
    /\ pc[p] = "write"
    /\ vault' = [vault EXCEPT ![Candidate(p)] = [cmd[p].read EXCEPT !.class = "changed"]]
    /\ Advance(p)
    /\ UNCHANGED <<version, outputs, reports, manifests, prunes, marks, index, history, bounds>>

\* compact: the summary first.
Output(p) ==
    /\ pc[p] = "output"
    /\ outputs' = outputs \cup {[report |-> cmd[p].id.report, id |-> Candidate(p)]}
    /\ Goto(p, "append")
    /\ UNCHANGED <<vault, version, reports, manifests, prunes, marks, index, cmd, history, bounds>>

\* Mutant: the ledger is not told.
AppendNothing(p) ==
    /\ pc[p] = "append"
    /\ prunes' = prunes
    /\ Goto(p, "hash")
    /\ UNCHANGED <<vault, version, outputs, reports, manifests, marks, index, cmd, history, bounds>>

\* appendGovernanceEntry: from here no connector writes the memory.
Append(p) ==
    /\ pc[p] = "append"
    /\ prunes' = prunes \cup {[report |-> cmd[p].id.report, id |-> Candidate(p)]}
    /\ Goto(p, "hash")
    /\ UNCHANGED <<vault, version, outputs, reports, manifests, marks, index, cmd, history, bounds>>

\* removeIfUnchanged: the hash, and ...
Hash(p) ==
    /\ pc[p] = "hash"
    /\ CASE vault[Candidate(p)] = NoFile     -> Advance(p) /\ UNCHANGED history
         [] vault[Candidate(p)] = Reviews(p) -> Goto(p, "unlink") /\ UNCHANGED <<cmd, history>>
         [] OTHER                          -> Interrupt(p)
    /\ UNCHANGED <<vault, version, outputs, reports, manifests, prunes, marks, index, bounds>>

\* ... the removal of whatever is there by then.
Unlink(p) ==
    /\ pc[p] = "unlink"
    /\ removed' = removed \cup {[id |-> Candidate(p), content |-> vault[Candidate(p)]] :
                                   m \in Present \cap {Candidate(p)}}
    /\ vault' = [vault EXCEPT ![Candidate(p)] = NoFile]
    /\ Advance(p)
    /\ UNCHANGED <<version, outputs, reports, manifests, prunes, marks, index, gone, cut, bounds>>

\* Mutant: the markers go without a rebuild.
ToUnmark(p) ==
    /\ pc[p] = "next"
    /\ cmd[p].todo = {}
    /\ Goto(p, "unmark")
    /\ UNCHANGED <<vault, version, outputs, reports, manifests, prunes, marks, index, cmd,
                   history, bounds>>

ToRebuild(p) ==
    /\ pc[p] = "next"
    /\ cmd[p].todo = {}
    /\ Goto(p, "begin")
    /\ UNCHANGED <<vault, version, outputs, reports, manifests, prunes, marks, index, cmd,
                   history, bounds>>

\* The execution retires its markers and ends well.
Unmark(p) ==
    /\ pc[p] = "unmark"
    /\ marks' = {o \in marks : o.run # cmd[p].run}
    /\ gone' = gone \cup {m \in cmd[p].id.targets :
                             cmd[p].plan[m] \in {"compact", "delete"}}
    /\ Ends(p)
    /\ UNCHANGED <<vault, version, outputs, reports, manifests, prunes, index, removed, cut, bounds>>

-----------------------------------------------------------------------------
(* Recovery. *)

\* Files that hold something else than the manifest's entry.
InTheWay(x) == {m \in x.id.targets : vault[m] \notin {NoFile, x.data[m]}}

\* The manifest has not expired, each entry is what was reviewed, and no file
\* holds anything else.
Restorable(x) ==
    /\ x.open
    /\ \A m \in x.id.targets : x.data[m] = Reviewed(x.id.report, m)
    /\ InTheWay(x) = {}

Recover(p, x) ==
    /\ Free(p)
    /\ Restorable(x)
    /\ Goto(p, "restore")
    /\ cmd' = [cmd EXCEPT ![p] = [Blank EXCEPT !.id = x.id, !.todo = x.id.targets]]
    /\ UNCHANGED <<vault, version, outputs, reports, manifests, prunes, marks, index,
                   history, bounds>>

\* One file is written back.  The plaintext is in memory and is what was reviewed.
Restore(p, m) ==
    /\ pc[p] = "restore"
    /\ m \in cmd[p].todo
    /\ vault' = [vault EXCEPT ![m] = Reviewed(cmd[p].id.report, m)]
    /\ gone' = gone \ {m}
    /\ cmd' = [cmd EXCEPT ![p].todo = @ \ {m}]
    /\ UNCHANGED <<version, outputs, reports, manifests, prunes, marks, index, pc, removed,
                   cut, bounds>>

\* Mutant: the ledger is left as it is.
LoadNothing(p) ==
    /\ pc[p] = "restore"
    /\ cmd[p].todo = {}
    /\ Goto(p, "revoke")
    /\ UNCHANGED <<vault, version, outputs, reports, manifests, prunes, marks, index, cmd,
                   history, bounds>>

\* The ledger is read: what this report suppressed of the restored.
LoadLedger(p) ==
    /\ pc[p] = "restore"
    /\ cmd[p].todo = {}
    /\ Goto(p, "revoke")
    /\ cmd' = [cmd EXCEPT ![p].todo =
                 {m \in cmd[p].id.targets : [report |-> cmd[p].id.report, id |-> m] \in prunes}]
    /\ UNCHANGED <<vault, version, outputs, reports, manifests, prunes, marks, index, history, bounds>>

Revoke(p, m) ==
    /\ pc[p] = "revoke"
    /\ m \in cmd[p].todo
    /\ prunes' = prunes \ {[report |-> cmd[p].id.report, id |-> m]}
    /\ cmd' = [cmd EXCEPT ![p].todo = @ \ {m}]
    /\ UNCHANGED <<vault, version, outputs, reports, manifests, marks, index, pc, history, bounds>>

Revoked(p) ==
    /\ pc[p] = "revoke"
    /\ cmd[p].todo = {}
    /\ Goto(p, "begin")
    /\ UNCHANGED <<vault, version, outputs, reports, manifests, prunes, marks, index, cmd,
                   history, bounds>>

-----------------------------------------------------------------------------
(* The rebuild that ends both, and the index job's. *)

StartJob ==
    /\ most.job
    /\ pc[Job] = "idle"
    /\ Goto(Job, "begin")
    /\ UNCHANGED <<vault, version, outputs, reports, manifests, prunes, marks, index, cmd,
                   history, bounds>>

Begin(q) ==
    /\ pc[q] = "begin"
    /\ writer = Nobody
    /\ writer' = q
    /\ cmd' = [cmd EXCEPT ![q].noted = marks]
    /\ Goto(q, "list")
    /\ UNCHANGED <<vault, version, outputs, reports, manifests, prunes, marks, rows, history, bounds>>

Visible(files) == [m \in Memories |-> IF m \in Historical THEN NoFile ELSE files[m]]

\* assessRebuild, on what this transaction will commit: a populated index is not
\* emptied.  Nobody else writes rows until then.
Refused == rows # Nothing /\ Visible(vault) = Nothing /\ outputs = {}

List(q) ==
    /\ pc[q] = "list"
    /\ IF Refused
       THEN Ends(q) /\ writer' = Nobody
       ELSE Goto(q, "commit") /\ cmd' = [cmd EXCEPT ![q].seen = vault] /\ writer' = writer
    /\ UNCHANGED <<vault, version, outputs, reports, manifests, prunes, marks, rows, history, bounds>>

Commit(q) ==
    /\ pc[q] = "commit"
    /\ rows' = Visible(cmd[q].seen)
    /\ writer' = Nobody
    /\ Goto(q, "retire")
    /\ UNCHANGED <<vault, version, outputs, reports, manifests, prunes, marks, cmd, history, bounds>>

\* A delete marker without a hash is covered by any rebuild that did not list its
\* file or could parse it.
Retire(q) ==
    /\ pc[q] = "retire"
    /\ marks' = marks \ cmd[q].noted
    /\ IF q # Job /\ cmd[q].run # 0 THEN Goto(q, "unmark") /\ cmd' = cmd ELSE Ends(q)
    /\ UNCHANGED <<vault, version, outputs, reports, manifests, prunes, index, history, bounds>>

-----------------------------------------------------------------------------
(* The environment. *)

Pruned(m) == \E e \in prunes : e.id = m

\* A connector writes what it fetched, unless the ledger suppresses the memory.
Sync(m) ==
    /\ version[m] < MaxVersion
    /\ Pruned(m) => m \in Ungoverned
    /\ version' = [version EXCEPT ![m] = @ + 1]
    /\ vault' = [vault EXCEPT ![m] = [body |-> version[m] + 1, class |-> "given"]]
    /\ UNCHANGED <<outputs, reports, manifests, prunes, marks, index, pc, cmd, history, bounds>>

\* A command fails or is killed; SQLite takes back its transaction.
Stop(q) ==
    /\ pc[q] # "idle"
    /\ faults < most.faults
    /\ faults' = faults + 1
    /\ writer' = IF writer = q THEN Nobody ELSE writer
    /\ cut' = (cut \/ pc[q] \in Executes)
    /\ Ends(q)
    /\ UNCHANGED <<vault, version, outputs, reports, manifests, prunes, marks, rows,
                   removed, gone, most, runs>>

\* The recovery window of a manifest ends.
Expire(x) ==
    /\ x.open
    /\ manifests' = Without(x.id) \cup {[x EXCEPT !.open = FALSE]}
    /\ UNCHANGED <<vault, version, outputs, reports, prunes, marks, index, pc, cmd, history, bounds>>

-----------------------------------------------------------------------------
Init ==
    /\ most \in Bounds
    /\ vault = [m \in Memories |-> IF m \in most.present THEN [body |-> 0, class |-> "given"]
                                                         ELSE NoFile]
    /\ version = [m \in Memories |-> 0]
    /\ outputs = {} /\ manifests = {} /\ prunes = {} /\ marks = {}
    /\ reports = [r \in Reports |-> None]
    /\ rows = Visible(vault)
    /\ writer = Nobody
    /\ pc = [q \in Procs \cup {Job} |-> "idle"]
    /\ cmd = [q \in Procs \cup {Job} |-> Blank]
    /\ runs = 0 /\ faults = 0
    /\ removed = {} /\ gone = {} /\ cut = FALSE

Rebuild(q) == Begin(q) \/ List(q) \/ Commit(q) \/ Retire(q)

Run(p) == \/ Snapshot(p) \/ Recheck(p) \/ Parse(p) \/ Mark(p) \/ Write(p) \/ Output(p)
          \/ Append(p) \/ Hash(p) \/ Unlink(p) \/ ToRebuild(p) \/ Unmark(p)
          \/ (\E m \in Memories : Restore(p, m) \/ Revoke(p, m))
          \/ LoadLedger(p) \/ Revoked(p) \/ Rebuild(p)

Commands(p) == \/ \E r \in Reports : \/ BuildReport(p, r) \/ Execute(p, r)
                                     \/ \E m \in Memories, a \in Actions : Decide(p, r, m, a)
               \/ \E x \in manifests : Recover(p, x)

Next == \/ \E p \in Procs : Commands(p) \/ Run(p)
        \/ StartJob \/ Rebuild(Job)
        \/ \E q \in Procs \cup {Job} : Stop(q)
        \/ \E m \in most.synced : Sync(m)
        \/ \E x \in manifests : Expire(x)

Spec == Init /\ [][Next]_vars
-----------------------------------------------------------------------------
(* Properties. *)

\* A memory on disk that current reads show, or a summary in its place.
CurrentMemories == (Present \ Historical) \cup {o.id : o \in outputs}
Served(m) == rows[m] # NoFile /\ \A o \in marks : o.id # m

\* A recovery refuses x for nothing but its age or a file in the way.
Acceptable(x) == x.open /\ InTheWay(x) = {} => Restorable(x)

\* "Before mutation it writes an encrypted recovery manifest": what an execution
\* removed is sealed, byte for byte, in a manifest of which every other entry is
\* as reviewed too, so that a recovery accepts it unless its window has ended or a
\* target's file has been written since: by a connector, by another recovery, or by
\* the execution itself where it changed a class (see ManifestRestores).  So is
\* every memory it suppressed, wherever the execution stopped.
RemovalIsRecoverable ==
    /\ \A t \in removed : \E x \in manifests :
          t.id \in x.id.targets /\ x.data[t.id] = t.content /\ Acceptable(x)
    /\ \A e \in prunes : \E x \in manifests :
          x.id.report = e.report /\ e.id \in x.id.targets /\ Acceptable(x)

\* validateRetentionSurvivor: an execution that is not interrupted leaves a current
\* memory, or the summary of one.
CurrentRemains == cut \/ (\E p \in Procs : pc[p] \in Executes) \/ CurrentMemories # {}

\* What an execution that ended well took away stays away, from the vault and from
\* search, until a recovery writes it back: no connector and no rebuild beside it
\* brings it back.
DoneStaysGone == \A m \in gone : vault[m] = NoFile /\ ~ Served(m)

\* Not so: a target whose class was changed no longer is what was reviewed, and the
\* recovery refuses the whole manifest, although it "covers all targets".
ManifestRestores ==
    (\A m \in Memories : version[m] = 0) => \A x \in manifests : x.open => Restorable(x)

\* Not so: the index job's rebuild that read a file just before it went retires the
\* hashless marker that alone suppressed the row.
ServedIsThere == \A m \in Memories : Served(m) => vault[m] # NoFile

\* Not so: the job's rebuild may have read a memory just before its class was changed
\* and then retire the marker, and the execution may end there.
CleanIsIndexed ==
    (\A m \in Memories : version[m] = 0) /\ marks = {} /\ (\A q \in Procs : pc[q] = "idle")
        => rows = Visible(vault)

Back(r) ==
    \E x \in manifests :
        /\ x.id.report = r
        /\ \A m \in x.id.targets :
              /\ vault[m] = x.data[m]
              /\ [report |-> r, id |-> m] \notin prunes
              /\ m \in Historical \/ (Served(m) /\ rows[m] = vault[m])

CanRecover(r) == \E x \in manifests : x.id.report = r /\ Restorable(x)

\* A recovery that is repeated when it is interrupted brings back what can be brought
\* back: the files, the connectors' right to write them, and their rows.
RecoveryCompletes == \A r \in Reports : CanRecover(r) ~> Back(r) \/ ~ CanRecover(r)

Fairness ==
    /\ \A p \in Procs :
          /\ WF_vars(Run(p))
          /\ SF_vars(Begin(p))
          /\ \A r \in Reports : SF_vars(\E x \in manifests : x.id.report = r /\ Recover(p, x))
    /\ WF_vars(Rebuild(Job))

FairSpec == Spec /\ Fairness

=============================================================================
