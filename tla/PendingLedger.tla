--------------------------- MODULE PendingLedger ---------------------------
(***************************************************************************)
(* The vault, the pending-operation ledger and the search index, and the   *)
(* processes that move them: `mora write`, `mora confirm`, `mora delete`   *)
(* and every index rebuild.  (Retention has its own module.)               *)
(*                                                                         *)
(* The vault (Markdown files) is the source of truth.  The index is a      *)
(* derived cache: the searchable rows (memories + FTS) and the projections *)
(* (graph, vectors, commitments).  A mutation publishes a marker file      *)
(* before it touches the vault; only a committed rebuild that covers the   *)
(* marker retires it.                                                      *)
(*                                                                         *)
(* A worker is one process.  A worker runs one operation at a time and its *)
(* name stands for the operation's marker id: a worker starts its next     *)
(* operation only once no marker and no rebuild's snapshot mentions the    *)
(* name, so reusing a name is the same as minting a new id and a new pid.  *)
(* A memory id stands for its vault path, a member of Bytes for the exact  *)
(* contents of a file and for their SHA-256.                               *)
(***************************************************************************)
EXTENDS Naturals

CONSTANTS
    Workers,      \* processes
    Ids,          \* memory ids, one vault path each
    Bytes,        \* file contents
    Unparseable,  \* contents parseMemory rejects (a hand-mangled file)
    Nobody,       \* no process
    NoFile,       \* no file, no row, no hash
    Roles,        \* what each worker may start
    Overlap,      \* may two operations on one memory be in flight together?
    StartReady,   \* does index.db already exist and carry a vault id?
    MaxFaults     \* bound on crashes and failed calls in a behaviour

Kinds == {"create", "confirm", "delete", "rebuild"}

ASSUME LedgerAssumption ==
    /\ Ids # {}
    /\ Unparseable \subseteq Bytes
    /\ Nobody \notin Workers
    /\ NoFile \notin Bytes
    /\ Roles \in [Workers -> SUBSET Kinds]
    /\ Overlap \in BOOLEAN
    /\ StartReady \in BOOLEAN
    /\ MaxFaults \in Nat

VARIABLES
    vault,    \* what each path holds
    rows,     \* the searchable row of each memory
    proj,     \* its graph, vector and commitment projections
    ready,    \* index.db exists, has the current schema and a vault id
    writer,   \* who holds SQLite's writer lock
    marker,   \* each operation's marker: absent, dirty form, second form
    self,     \* each rebuild's own marker: none, live receipt, orphaned
    pc, job,  \* what each process is doing, and on what
    scan,     \* a rebuild's snapshot, listing and parse results
    faults,   \* crashes and failed calls so far
    unmarked  \* history: memories changed with no marker, not yet indexed since

vars == <<vault, rows, proj, ready, writer, marker, self, pc, job, scan, faults,
          unmarked>>
indexVars == <<rows, proj, ready, writer>>
ledgerVars == <<marker, self>>

Parseable == Bytes \ Unparseable
Content == Bytes \cup {NoFile}

CallerSteps == {"hash", "mark", "publish", "upsert", "stamp",
                "remove", "unlinked", "deindex"}
RebuildSteps == {"selfmark", "begin", "list", "parse", "commit", "retire"}

Job == [kind: {"create", "confirm", "delete"}, id: Ids, sha: Content]

\* Before a process's first operation; no marker refers to it.
NoJob == [kind |-> "create", id |-> CHOOSE i \in Ids : TRUE, sha |-> NoFile]

Scan == [ops: SUBSET Workers, unlinked: SUBSET Workers, selfs: SUBSET Workers,
         listed: SUBSET Ids, parsed: [Ids -> Content], todo: SUBSET Ids,
         cur: Workers \cup {Nobody}, dead: BOOLEAN,
         allow: BOOLEAN, after: {"idle", "stamp"}]

Nothing == [i \in Ids |-> NoFile]
EmptyScan == [ops |-> {}, unlinked |-> {}, selfs |-> {}, listed |-> {},
              parsed |-> Nothing, todo |-> {}, cur |-> Nobody,
              dead |-> FALSE, allow |-> FALSE, after |-> "idle"]

TypeOK ==
    /\ vault \in [Ids -> Content]
    /\ rows \in [Ids -> Content]
    /\ proj \in [Ids -> Content]
    /\ ready \in BOOLEAN
    /\ writer \in Workers \cup {Nobody}
    /\ marker \in [Workers -> {"absent", "dirty", "second"}]
    /\ self \in [Workers -> {"none", "live", "orphan"}]
    /\ pc \in [Workers -> {"idle", "dead"} \cup CallerSteps \cup RebuildSteps]
    /\ job \in [Workers -> Job]
    /\ scan \in [Workers -> Scan]
    /\ faults \in 0 .. MaxFaults
    /\ unmarked \in SUBSET Ids

-----------------------------------------------------------------------------
(* What a marker says. *)

IsDelete(o) == job[o].kind = "delete"

Pending == {o \in Workers : marker[o] # "absent"}
PendingOn(i) == {o \in Pending : job[o].id = i}

\* No marker and no rebuild mentions w's name, so it can serve as a new one.
Unused(w) == /\ marker[w] = "absent"
             /\ \A r \in Workers : w \notin scan[r].ops

InFlightOn(w, i) == /\ job[w].id = i
                    /\ \/ pc[w] \in CallerSteps
                       \/ pc[w] \in RebuildSteps /\ scan[w].after # "idle"

\* Two operations on one memory overlap only where Overlap lets them.
MayTouch(w, i) == Overlap \/ \A u \in Workers \ {w} : ~InFlightOn(u, i)

Fault == /\ faults < MaxFaults
         /\ faults' = faults + 1

-----------------------------------------------------------------------------
(* Callers: the operation starts. *)

Goto(w, step) == pc' = [pc EXCEPT ![w] = step]

Begins(w, kind, i, sha, step) ==
    /\ pc[w] = "idle"
    /\ kind \in Roles[w]
    /\ Unused(w)
    /\ MayTouch(w, i)
    /\ job' = [job EXCEPT ![w] = [kind |-> kind, id |-> i, sha |-> sha]]
    /\ Goto(w, step)
    /\ UNCHANGED <<vault, indexVars, ledgerVars, scan, faults, unmarked>>

\* createMemory minted (or was given) id i and rendered the file as b.
StartCreate(w, i, b) == /\ b \in Parseable
                        /\ Begins(w, "create", i, b, "mark")

\* cmdConfirm read the file of i and prepared b, the same file without its tag.
StartConfirm(w, i, b) == /\ vault[i] \in Parseable
                         /\ b \in Parseable \ {vault[i]}
                         /\ Begins(w, "confirm", i, b, "mark")

\* findMemory found the file of i.
StartDelete(w, i) == /\ vault[i] \in Parseable
                     /\ Begins(w, "delete", i, NoFile, "hash")

\* deleteOp: hash the file that is about to go; unreadable means no hash.
HashDelete(w) ==
    /\ pc[w] = "hash"
    /\ job' = [job EXCEPT ![w].sha = vault[job[w].id]]
    /\ Goto(w, "mark")
    /\ UNCHANGED <<vault, indexVars, ledgerVars, scan, faults, unmarked>>

\* MarkDirty: publish the marker durably.  With an index that is not ready, or
\* with a readiness probe that itself fails, it reports success without one.
Mark(w) ==
    /\ pc[w] = "mark"
    /\ \/ /\ ready
          /\ marker' = [marker EXCEPT ![w] = "dirty"]
          /\ UNCHANGED <<faults, unmarked>>
       \/ /\ IF ready THEN Fault ELSE faults' = faults
          /\ marker' = marker
          /\ unmarked' = unmarked \cup {job[w].id}
    /\ Goto(w, IF IsDelete(w) THEN "remove" ELSE "publish")
    /\ UNCHANGED <<vault, indexVars, self, job, scan>>

\* ErrUnmarkable: abort before a vault byte changes.
MarkFails(w) ==
    /\ pc[w] = "mark"
    /\ Fault
    /\ Goto(w, "idle")
    /\ UNCHANGED <<vault, indexVars, ledgerVars, job, scan, unmarked>>

-----------------------------------------------------------------------------
(* Callers: the vault changes. *)

\* atomicCreate links the file only where none exists; atomicio.Write replaces.
Publish(w) ==
    /\ pc[w] = "publish"
    /\ job[w].kind = "create" => vault[job[w].id] = NoFile
    /\ vault' = [vault EXCEPT ![job[w].id] = job[w].sha]
    /\ Goto(w, "upsert")
    /\ UNCHANGED <<indexVars, ledgerVars, job, scan, faults, unmarked>>

\* EEXIST: the attempt's marker goes away and the id is minted again.
PublishExists(w) ==
    /\ pc[w] = "publish"
    /\ job[w].kind = "create"
    /\ vault[job[w].id] # NoFile
    /\ marker' = [marker EXCEPT ![w] = "absent"]
    /\ Goto(w, "idle")
    /\ UNCHANGED <<vault, indexVars, self, job, scan, faults, unmarked>>

\* The file operation failed: its marker is removed, or that fails too.
VaultFails(w) ==
    /\ pc[w] \in {"publish", "remove"}
    /\ Fault
    /\ \/ marker' = [marker EXCEPT ![w] = "absent"]
       \/ marker' = marker
    /\ Goto(w, "idle")
    /\ UNCHANGED <<vault, indexVars, self, job, scan, unmarked>>

\* os.Remove of whatever the path holds now; a missing file is an error.
Remove(w) ==
    /\ pc[w] = "remove"
    /\ IF vault[job[w].id] = NoFile
       THEN /\ marker' = [marker EXCEPT ![w] = "absent"]
            /\ Goto(w, "idle")
       ELSE /\ marker' = marker
            /\ Goto(w, "unlinked")
    /\ vault' = [vault EXCEPT ![job[w].id] = NoFile]
    /\ UNCHANGED <<indexVars, self, job, scan, faults, unmarked>>

ToRebuild(w, allow, after) ==
    /\ Goto(w, "selfmark")
    /\ scan' = [scan EXCEPT ![w] = [EmptyScan EXCEPT !.allow = allow,
                                                     !.after = after]]

\* A person truncates or garbles a file outside Mora.
Mangle(i) ==
    /\ vault[i] \in Parseable
    /\ \E b \in Unparseable : vault' = [vault EXCEPT ![i] = b]
    /\ Fault
    /\ UNCHANGED <<indexVars, ledgerVars, pc, job, scan, unmarked>>

-----------------------------------------------------------------------------
(* Callers: the index follows, in one small transaction each. *)

\* A caller ends, or wins the reconcile election and rebuilds.
EndOrReconcile(w) == \/ Goto(w, "idle") /\ scan' = scan
                     \/ "rebuild" \in Roles[w] /\ ToRebuild(w, FALSE, "idle")

\* Mutant: the upsert does not wait for the writer lock.
UpsertUnlocked(w) ==
    /\ pc[w] = "upsert"
    /\ rows' = [rows EXCEPT ![job[w].id] = job[w].sha]
    /\ Goto(w, "stamp")
    /\ UNCHANGED <<vault, proj, ready, writer, ledgerVars, job, scan, faults, unmarked>>

\* indexUpsert writes the row of the memory in hand, not of the file on disk;
\* a cold index delegates to a full rebuild.
Upsert(w) ==
    /\ pc[w] = "upsert"
    /\ IF ready
       THEN /\ writer = Nobody
            /\ rows' = [rows EXCEPT ![job[w].id] = job[w].sha]
            /\ Goto(w, "stamp")
            /\ scan' = scan
       ELSE /\ rows' = rows
            /\ ToRebuild(w, FALSE, "stamp")
    /\ UNCHANGED <<vault, proj, ready, writer, ledgerVars, job, faults, unmarked>>

\* Degraded success: the marker stays, and the reconcile may still run.
UpsertFails(w) ==
    /\ pc[w] = "upsert"
    /\ Fault
    /\ EndOrReconcile(w)
    /\ UNCHANGED <<vault, indexVars, ledgerVars, job, unmarked>>

\* MarkFTSCommitted renames the marker if no rebuild has retired it.
Stamped(w) == [marker EXCEPT ![w] = IF @ = "dirty" THEN "second" ELSE @]

Stamp(w) ==
    /\ pc[w] = "stamp"
    /\ marker' = Stamped(w)
    /\ EndOrReconcile(w)
    /\ UNCHANGED <<vault, indexVars, self, job, faults, unmarked>>

\* The rename failed; the dirty form is the safe one.
StampFails(w) ==
    /\ pc[w] = "stamp"
    /\ Fault
    /\ EndOrReconcile(w)
    /\ UNCHANGED <<vault, indexVars, ledgerVars, job, unmarked>>

\* markDeleteUnlinked: the same rename, whose failure is only a warning.
Unlinked(w) ==
    /\ pc[w] = "unlinked"
    /\ \/ marker' = Stamped(w) /\ faults' = faults
       \/ marker' = marker /\ Fault
    /\ Goto(w, "deindex")
    /\ UNCHANGED <<vault, indexVars, self, job, scan, unmarked>>

\* indexDelete, then an inline Allow rebuild when nothing is left.
Deindex(w) ==
    /\ pc[w] = "deindex"
    /\ IF ready
       THEN /\ writer = Nobody
            /\ rows' = [rows EXCEPT ![job[w].id] = NoFile]
            /\ proj' = [proj EXCEPT ![job[w].id] = NoFile]
            /\ IF rows' = Nothing THEN ToRebuild(w, TRUE, "idle")
                                  ELSE EndOrReconcile(w)
       ELSE /\ UNCHANGED <<rows, proj>>
            /\ ToRebuild(w, TRUE, "idle")
    /\ UNCHANGED <<vault, ready, writer, ledgerVars, job, faults, unmarked>>

DeindexFails(w) ==
    /\ pc[w] = "deindex"
    /\ Fault
    /\ Goto(w, "idle")
    /\ UNCHANGED <<vault, indexVars, ledgerVars, job, scan, unmarked>>

-----------------------------------------------------------------------------
(* The rebuild. *)

\* The hourly job, `mora index rebuild`, or the same with --force.
StartRebuild(w, allow) ==
    /\ pc[w] = "idle"
    /\ "rebuild" \in Roles[w]
    /\ ToRebuild(w, allow, "idle")
    /\ UNCHANGED <<vault, indexVars, ledgerVars, job, faults, unmarked>>

\* The rebuild marks itself, by the same MarkDirty.  An orphan of the same name
\* keeps the pair dirty.
SelfMark(w) ==
    /\ pc[w] = "selfmark"
    /\ \A r \in Workers \ {w} : w \notin scan[r].selfs
    /\ \/ /\ self' = [self EXCEPT ![w] = IF ready /\ @ = "none" THEN "live" ELSE @]
          /\ faults' = faults
       \/ ready /\ Fault /\ self' = self
    /\ Goto(w, "begin")
    /\ UNCHANGED <<vault, indexVars, marker, job, scan, unmarked>>

\* BEGIN IMMEDIATE, and only then the snapshot of the ledger.
Begin(w) ==
    /\ pc[w] = "begin"
    /\ writer = Nobody
    /\ writer' = w
    /\ scan' = [scan EXCEPT ![w] =
                  [@ EXCEPT !.ops = Pending,
                            !.unlinked = {o \in Pending : IsDelete(o) /\ marker[o] = "second"},
                            !.selfs = {o \in Workers : self[o] # "none"},
                            !.todo = Ids]]
    /\ Goto(w, "list")
    /\ UNCHANGED <<vault, rows, proj, ready, ledgerVars, job, faults, unmarked>>

\* The walk passes the directory entry of i.
List(w, i) ==
    /\ pc[w] = "list"
    /\ i \in scan[w].todo
    /\ LET listed == scan[w].listed \cup {j \in {i} : vault[j] # NoFile}
           left == scan[w].todo \ {i}
       IN /\ scan' = [scan EXCEPT ![w] =
                        [@ EXCEPT !.listed = listed,
                                  !.todo = IF left = {} THEN listed ELSE left]]
          /\ Goto(w, CASE left # {} -> "list"
                       [] left = {} /\ listed # {} -> "parse"
                       [] OTHER -> "commit")
    /\ UNCHANGED <<vault, indexVars, ledgerVars, job, faults, unmarked>>

\* One listed file is read and parsed; what cannot be read or parsed is skipped.
Parse(w, i) ==
    /\ pc[w] = "parse"
    /\ i \in scan[w].todo
    /\ scan' = [scan EXCEPT ![w] =
                  [@ EXCEPT !.parsed[i] = IF vault[i] \in Parseable
                                          THEN vault[i] ELSE NoFile,
                            !.todo = scan[w].todo \ {i}]]
    /\ Goto(w, IF scan[w].todo = {i} THEN "commit" ELSE "parse")
    /\ UNCHANGED <<vault, indexVars, ledgerVars, job, faults, unmarked>>

\* assessRebuild on one bound vault: refuse to empty a populated index.
Blocked(w) == rows # Nothing /\ scan[w].parsed = Nothing /\ ~scan[w].allow

\* What w's rebuild has just indexed as it is, with no other operation under way.
CaughtUp(w) == {i \in Ids : /\ scan[w].parsed[i] = vault[i]
                            /\ \A u \in Workers \ {w} : ~InFlightOn(u, i)}

\* One transaction replaces every row and projection, and frees the lock.
Commit(w) ==
    /\ pc[w] = "commit"
    /\ ~Blocked(w)
    /\ rows' = scan[w].parsed
    /\ proj' = scan[w].parsed
    /\ ready' = TRUE
    /\ writer' = Nobody
    /\ unmarked' = unmarked \ CaughtUp(w)
    /\ Goto(w, "retire")
    /\ UNCHANGED <<vault, ledgerVars, job, scan, faults>>

Orphaned(w) == [self EXCEPT ![w] = IF @ = "live" THEN "orphan" ELSE @]

GiveUp(w, step) ==
    /\ self' = Orphaned(w)
    /\ scan' = [scan EXCEPT ![w] = EmptyScan]
    /\ writer' = IF writer = w THEN Nobody ELSE writer
    /\ Goto(w, step)

\* Rolled back; the rebuild's own marker stays behind.
Refuse(w) ==
    /\ pc[w] = "commit"
    /\ Blocked(w)
    /\ GiveUp(w, "idle")
    /\ UNCHANGED <<vault, rows, proj, ready, marker, job, faults, unmarked>>

\* Any other error: the embedder, the transaction, a marker that cannot go.
RebuildFails(w) ==
    /\ pc[w] \in RebuildSteps
    /\ Fault
    /\ GiveUp(w, "idle")
    /\ UNCHANGED <<vault, rows, proj, ready, marker, job, unmarked>>

\* Retiring one marker of the snapshot starts with its owner's liveness ...
Probe(w, o) ==
    /\ pc[w] = "retire"
    /\ scan[w].cur = Nobody
    /\ o \in scan[w].ops
    /\ scan' = [scan EXCEPT ![w] = [@ EXCEPT !.cur = o, !.dead = pc[o] = "dead"]]
    /\ UNCHANGED <<vault, indexVars, ledgerVars, pc, job, faults, unmarked>>

\* Mutants of writeCovered: it never looks at the disk, or at the owner.
WriteCoveredBlind(w, o) ==
    LET i == job[o].id
        got == scan[w].parsed[i]
    IN \/ got = job[o].sha
       \/ scan[w].dead /\ (i \in scan[w].listed => got # NoFile)

WriteCoveredParsed(w, o) == scan[w].parsed[job[o].id] = job[o].sha

\* ... and ends with the disk: writeCovered ...
WriteCovered(w, o) ==
    LET i == job[o].id
        got == scan[w].parsed[i]
    IN \/ got = job[o].sha
       \/ /\ i \in scan[w].listed => got # NoFile
          /\ vault[i] # job[o].sha
          /\ scan[w].dead

\* Mutant: a live deleter's marker counts like a finished one's.
DeleteCoveredEarly(w, o) ==
    LET i == job[o].id
        got == scan[w].parsed[i]
        unlinked == o \in scan[w].unlinked
    IN \/ i \notin scan[w].listed
       \/ got # NoFile /\ (unlinked \/ vault[i] = got)

\* ... deleteCovered ...
DeleteCovered(w, o) ==
    LET i == job[o].id
        got == scan[w].parsed[i]
        unlinked == o \in scan[w].unlinked
    IN /\ unlinked \/ scan[w].dead
       /\ \/ i \notin scan[w].listed
          \/ got # NoFile /\ (unlinked \/ vault[i] = got)

\* ... or the rule for a delete marker without a hash.
HashlessDeleteCovered(w, o) ==
    LET i == job[o].id
    IN i \notin scan[w].listed \/ scan[w].parsed[i] # NoFile

Covered(w, o) == IF ~IsDelete(o) THEN WriteCovered(w, o)
                 ELSE IF job[o].sha = NoFile THEN HashlessDeleteCovered(w, o)
                 ELSE DeleteCovered(w, o)

Decide(w) ==
    /\ pc[w] = "retire"
    /\ scan[w].cur # Nobody
    /\ marker' = [marker EXCEPT ![scan[w].cur] =
                    IF Covered(w, scan[w].cur) THEN "absent" ELSE @]
    /\ scan' = [scan EXCEPT ![w] = [@ EXCEPT !.ops = scan[w].ops \ {scan[w].cur},
                                             !.cur = Nobody, !.dead = FALSE]]
    /\ UNCHANGED <<vault, indexVars, self, pc, job, faults, unmarked>>

\* Rule (a): the rebuild markers of the snapshot go, this run's own among them.
Finish(w) ==
    /\ pc[w] = "retire"
    /\ scan[w].cur = Nobody
    /\ scan[w].ops = {}
    /\ self' = [o \in Workers |-> IF o \in scan[w].selfs THEN "none" ELSE self[o]]
    /\ scan' = [scan EXCEPT ![w] = EmptyScan]
    /\ Goto(w, scan[w].after)
    /\ UNCHANGED <<vault, indexVars, marker, job, faults, unmarked>>

-----------------------------------------------------------------------------
(* Processes end and start.  A marker outlives them; SQLite's lock does not. *)

Crash(w) ==
    /\ pc[w] # "dead"
    /\ Fault
    /\ GiveUp(w, "dead")
    /\ UNCHANGED <<vault, rows, proj, ready, marker, job, unmarked>>

\* A finished process exits.  Only a name something mentions can tell.
Exit(w) ==
    /\ pc[w] = "idle"
    /\ ~Unused(w)
    /\ Goto(w, "dead")
    /\ UNCHANGED <<vault, indexVars, ledgerVars, job, scan, faults, unmarked>>

\* A new process takes a name nothing mentions.
Spawn(w) ==
    /\ pc[w] = "dead"
    /\ Unused(w)
    /\ Goto(w, "idle")
    /\ job' = [job EXCEPT ![w] = NoJob]
    /\ UNCHANGED <<vault, indexVars, ledgerVars, scan, faults, unmarked>>

-----------------------------------------------------------------------------

Init ==
    /\ vault = Nothing /\ rows = Nothing /\ proj = Nothing
    /\ ready = StartReady
    /\ writer = Nobody
    /\ marker = [w \in Workers |-> "absent"]
    /\ self = [w \in Workers |-> "none"]
    /\ pc = [w \in Workers |-> "idle"]
    /\ job = [w \in Workers |-> NoJob]
    /\ scan = [w \in Workers |-> EmptyScan]
    /\ faults = 0
    /\ unmarked = {}

Starts(w) == \/ \E i \in Ids, b \in Bytes : StartCreate(w, i, b) \/ StartConfirm(w, i, b)
             \/ \E i \in Ids : StartDelete(w, i)

Calls(w) == \/ HashDelete(w) \/ Mark(w) \/ MarkFails(w)
            \/ Publish(w) \/ PublishExists(w) \/ VaultFails(w)
            \/ Remove(w)
            \/ Upsert(w) \/ UpsertFails(w) \/ Stamp(w) \/ StampFails(w)
            \/ Unlinked(w) \/ Deindex(w) \/ DeindexFails(w)

Rebuilds(w) == \/ SelfMark(w) \/ Begin(w)
               \/ \E i \in Ids : List(w, i) \/ Parse(w, i)
               \/ Commit(w) \/ Refuse(w) \/ RebuildFails(w)
               \/ (\E o \in Workers : Probe(w, o)) \/ Decide(w) \/ Finish(w)

Next == \/ \E w \in Workers : \/ Starts(w) \/ Calls(w)
                              \/ \E allow \in BOOLEAN : StartRebuild(w, allow)
                              \/ Rebuilds(w)
                              \/ Crash(w) \/ Exit(w) \/ Spawn(w)
        \/ \E i \in Ids : Mangle(i)

Spec == Init /\ [][Next]_vars

-----------------------------------------------------------------------------
(* Properties. *)

\* A mutation that marks does so before a vault byte changes, and only a covering
\* rebuild retires the marker: a parseable memory nobody has a marker on is in the
\* search rows and in every projection exactly as it is on disk.  MarkDirty skips
\* the mark when the index is not ready or its readiness probe fails, and the
\* mutation goes on: of such a memory nothing is known until a rebuild has read it.
NeverCleanAndMissing ==
    ready => \A i \in Ids \ unmarked : PendingOn(i) = {} /\ vault[i] \in Parseable
                               => rows[i] = vault[i] /\ proj[i] = vault[i]

\* A write marker in its second form says search is current for its memory
\* although graph, vectors and commitments lag; again but for a memory changed
\* with no marker at all.
RefreshingIsCurrent ==
    \A i \in Ids \ unmarked :
        /\ vault[i] \in Parseable
        /\ \A o \in PendingOn(i) : ~IsDelete(o) /\ marker[o] = "second"
        /\ ready
        => rows[i] = vault[i]

\* B4: what the read paths still serve (a row or a projection of a memory no
\* delete marker suppresses) is a memory that has not been deleted, unless the
\* delete could not look whether to mark.
DeletedNotServed ==
    \A i \in Ids \ unmarked :
        /\ rows[i] # NoFile \/ proj[i] # NoFile
        /\ \A o \in PendingOn(i) : ~IsDelete(o)
        => vault[i] # NoFile

\* A rebuild running beside a live delete may not retire its marker between the
\* mark and the removal: it alone suppresses what the rebuild just indexed.  (A
\* marker without a hash has weaker rules, see HashlessDeleteCovered.)
LiveDeleteKeepsMarker ==
    [][\A w \in Workers :
         /\ marker[w] = "dirty"
         /\ IsDelete(w) /\ job[w].sha # NoFile
         /\ pc[w] \in {"remove", "unlinked"}
         /\ pc'[w] = pc[w]
         => marker'[w] = "dirty"]_vars

-----------------------------------------------------------------------------
(* Fairness: a running process keeps running, SQLite's busy handler lets a    *)
(* waiting rebuild in eventually, and the scheduler starts the index job again *)
(* and again, in a new process when the last one died.                        *)

Indexers == {w \in Workers : "rebuild" \in Roles[w]}

Fairness ==
  /\ \A w \in Workers :
        /\ WF_vars(Calls(w))
        /\ WF_vars(Rebuilds(w))
        /\ SF_vars(Begin(w))
        /\ SF_vars(SelfMark(w))
  /\ \A w \in Indexers : WF_vars(StartRebuild(w, FALSE)) /\ WF_vars(Spawn(w))

FairSpec == Spec /\ Fairness

\* A marker its dead owner left behind goes away once rebuilds keep running,
\* unless the vault holds nothing parseable and the guard refuses to empty the
\* index, or a file on disk stays listed and unparseable.
OrphansRetire ==
    \A w \in Workers :
        (pc[w] = "dead" /\ marker[w] # "absent")
            ~> \/ marker[w] = "absent"
               \/ rows # Nothing /\ \A i \in Ids : vault[i] \notin Parseable
               \/ \E i \in Ids : vault[i] \in Unparseable

=============================================================================
