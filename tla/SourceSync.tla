----------------------------- MODULE SourceSync ------------------------------
(***************************************************************************)
(* The runs of a mail source: memory.Ingest under ingestSourceDetailed.    *)
(*                                                                         *)
(* A run takes the lease, makes the journal, resumes where the status on   *)
(* disk says the last one stopped and walks pages, of the whole mailbox or *)
(* of its history since a cursor, until the last.  It publishes what       *)
(* differs from the vault, saves the status after each page, and moves the *)
(* cursor when no item of the walk was dropped, or after MaxDropped walks  *)
(* that dropped one.  A run that published nothing takes its journal away. *)
(*                                                                         *)
(* A page has one item.  The mailbox's history is the sequence of items    *)
(* that changed; a position in it is a cursor, and an item's version is    *)
(* the position it last changed at.  Cursors and page tokens are 0 when    *)
(* absent; a page token is the item or the position the page begins at.    *)
(***************************************************************************)
EXTENDS IngestJournal

CONSTANTS
    Bounds,     \* bounds, of which a behaviour picks one
    MaxLog,     \* bound on the mailbox's history
    MaxDropped  \* maxDroppedWalks

ASSUME SyncAssumption ==
    /\ MaxLog \in Nat /\ MaxDropped \in Nat \ {0}
    /\ \A b \in Bounds : b.log \in Seq(Items) \ {<<>>} /\ b.most \in Len(b.log)..MaxLog

VARIABLES
    bound,    \* how far the mailbox changes, what may fail, whether there are rebuilds
    log,      \* the mailbox's history
    horizon,  \* the history before it is forgotten
    status,   \* sync/<source>.json
    step,     \* what each run is about to do
    my,       \* what each run carries
    missed,   \* history: items dropped in this walk
    skipped   \* history: items the cursor moved past without

source == <<bound, log, horizon>>
past == <<missed, skipped>>
vars == <<ingest, source, status, step, my, past>>

Positions == 0..MaxLog
\* token: Checkpoint; history: CursorMode; pending: PendingSyncCursor.
Status == [cursor: Positions, token: Nat, history: BOOLEAN, pending: Positions,
           dropped: BOOLEAN, walks: 0..(MaxDropped - 1)]
NoStatus == [cursor |-> 0, token |-> 0, history |-> FALSE, pending |-> 0,
             dropped |-> FALSE, walks |-> 0]
Page == [item: {0} \cup Items, version: Positions, more: Nat]
NoPage == [item |-> 0, version |-> 0, more |-> 0]
\* next: the cursor of a clean walk; begun, made: a publish was; late: the run
\* took the lease when a rebuild or a retirement no longer looked at it.
Carried == [st: Status, history: BOOLEAN, next: Positions, page: Page,
            begun: BOOLEAN, made: BOOLEAN, late: BOOLEAN]
Nothing == [st |-> NoStatus, history |-> FALSE, next |-> 0, page |-> NoPage,
            begun |-> FALSE, made |-> FALSE, late |-> FALSE]
Steps == {"begin", "header", "load", "fetch", "item", "write", "line", "turn", "save",
          "release", "retire"}

TypeOK ==
    /\ JournalTypeOK
    /\ bound \in Bounds
    /\ log \in Seq(Items) /\ Len(log) \in 1..MaxLog
    /\ horizon \in 0..Len(log)
    /\ status \in Status
    /\ step \in [Runs -> Steps] /\ my \in [Runs -> Carried]
    /\ \A r \in Runs : r \in alive <=> step[r] # "begin"
    /\ missed \subseteq Items /\ skipped \subseteq Items

Init ==
    /\ JournalInit
    /\ bound \in Bounds /\ log = bound.log /\ horizon = 0
    /\ status = NoStatus
    /\ step = [r \in Runs |-> "begin"] /\ my = [r \in Runs |-> Nothing]
    /\ missed = {} /\ skipped = {}

-----------------------------------------------------------------------------
(* The provider.                                                            *)

Changes(i, n) == {p \in 1..n : log[p] = i}
MaxOf(set) == CHOOSE x \in set : \A y \in set : y <= x
\* The version item i had when the history had n positions.
VersionAt(i, n) == IF Changes(i, n) = {} THEN 0 ELSE MaxOf(Changes(i, n))
Version(i) == VersionAt(i, Len(log))

ItemChanges ==
    /\ Len(log) < bound.most
    /\ \E i \in Items : log' = Append(log, i)
    /\ UNCHANGED <<ingest, bound, horizon, status, step, my, past>>

\* A cursor before the horizon is answered with 404.
HistoryExpires ==
    /\ horizon < Len(log) /\ horizon' = Len(log) /\ Fault
    /\ UNCHANGED <<lease, alive, journal, vault, index, reb, lost, bound, log, status, step, my, past>>

\* fetchGmailPageContext: the first page brings the baseline, 0 is none.
SnapshotPage(t) ==
    LET i == IF t = 0 THEN 1 ELSE t
    IN  [page |-> [item |-> IF Version(i) = 0 THEN 0 ELSE i, version |-> Version(i),
                   more |-> IF i < Last THEN i + 1 ELSE 0],
         sync |-> IF t = 0 THEN Len(log) ELSE 0]
\* fetchGmailHistoryPage: the last page brings the new cursor.
HistoryPage(from, t) ==
    LET p == IF t = 0 THEN from + 1 ELSE t
        more == IF p < Len(log) THEN p + 1 ELSE 0
    IN  [page |-> IF p > Len(log) THEN NoPage
                  ELSE [item |-> log[p], version |-> Version(log[p]), more |-> more],
         sync |-> IF more = 0 THEN Len(log) ELSE 0]

-----------------------------------------------------------------------------
(* A run.                                                                   *)

At(r, s) == step[r] = s
Goto(r, s) == step' = [step EXCEPT ![r] = s]
Keep(r, mine) == my' = [my EXCEPT ![r] = mine]
disk == <<journal, vault, index, reb, lost>>

\* Some rebuild or retirement will not look at the lease again.
Overlooked == (\E b \in Rebuilds : Outstanding(b)) \/ (\E q \in Runs : At(q, "retire"))

\* AcquireLease, or a skip when a live run has it.
Acquire(r) ==
    /\ At(r, "begin") /\ ~ LeaseHeld
    /\ lease' = r /\ alive' = alive \cup {r}
    /\ Keep(r, [Nothing EXCEPT !.late = Overlooked])
    /\ Goto(r, "header")
    /\ UNCHANGED <<disk, faults, source, status, past>>

\* The run is over; the deferred release leaves another's lease alone.
Leave(r) ==
    /\ lease' = IF lease = r THEN None ELSE lease
    /\ alive' = alive \ {r}
    /\ Keep(r, Nothing) /\ Goto(r, "begin")

\* EnsureJournalHeader, before anything is fetched.  One that fails may have
\* made an empty file.
EnsureHeader(r) ==
    /\ At(r, "header")
    /\ \/ /\ journal' = Ensured(r)
          /\ Goto(r, "load")
          /\ UNCHANGED <<lease, alive, faults, my>>
       \/ /\ journal = None /\ journal' \in {None, Torn} /\ Fault
          /\ Leave(r)
    /\ UNCHANGED <<vault, index, reb, lost, source, status, past>>

Resuming == status.token # 0 /\ ~ status.history
\* LoadStatus and the head of memory.Ingest.  A walk from its start forgets
\* what an abandoned one dropped.
LoadStatus(r) ==
    /\ At(r, "load")
    /\ Keep(r, [my[r] EXCEPT
                  !.st = [status EXCEPT !.dropped = @ /\ status.token # 0],
                  !.history = ~ Resuming /\ status.cursor # 0,
                  !.next = IF Resuming /\ status.pending # 0 THEN status.pending
                           ELSE status.cursor])
    /\ missed' = IF status.token = 0 THEN {} ELSE missed
    /\ Goto(r, "fetch")
    /\ UNCHANGED <<ingest, source, status, skipped>>

Expired(r) == my[r].history /\ my[r].st.cursor < horizon
Fetched(r) == IF my[r].history THEN HistoryPage(my[r].st.cursor, my[r].st.token)
              ELSE SnapshotPage(my[r].st.token)

\* MUTANT of Staged: the cursor the page brought is the run's at once.
StagedAtOnce(st, sync) == [st EXCEPT !.cursor = sync, !.pending = sync]
Staged(st, sync) == [st EXCEPT !.pending = sync]

FetchPage(r) ==
    /\ At(r, "fetch") /\ ~ Expired(r)
    /\ LET got == Fetched(r)
       IN  Keep(r, IF got.sync = 0 THEN [my[r] EXCEPT !.page = got.page]
                   ELSE [my[r] EXCEPT !.page = got.page, !.next = got.sync,
                                      !.st = Staged(@, got.sync)])
    /\ Goto(r, "item")
    /\ UNCHANGED <<ingest, source, status, past>>

\* The provider refused the cursor: the run walks the whole mailbox instead.
FallBack(r) ==
    /\ At(r, "fetch") /\ Expired(r)
    /\ Keep(r, [my[r] EXCEPT !.history = FALSE, !.next = 0,
                             !.st = [NoStatus EXCEPT !.walks = my[r].st.walks]])
    /\ missed' = {}
    /\ UNCHANGED <<ingest, source, status, step, skipped>>

\* The page could not be fetched, or the run was cancelled at an item: it will
\* be asked for again.
Interrupt(r) ==
    /\ step[r] \in {"fetch", "item"} /\ Fault
    /\ Keep(r, [my[r] EXCEPT !.st.history = my[r].history])
    /\ Goto(r, "save")
    /\ UNCHANGED <<lease, alive, disk, source, status, past>>

ThePage(r) == my[r].page
\* There is no item, or its content is the vault's.
Unchanged(r) ==
    /\ At(r, "item")
    /\ LET i == ThePage(r).item
       IN  /\ i # 0 => vault[i] = ThePage(r).version
           /\ missed' = missed \ {i} /\ skipped' = skipped \ {i}
    /\ Goto(r, "turn")
    /\ UNCHANGED <<ingest, source, status, my>>

\* writeMappedMemoryDetailed up to the write: the header, the count.
StartPublish(r) ==
    /\ At(r, "item") /\ ThePage(r).item # 0
    /\ vault[ThePage(r).item] # ThePage(r).version
    /\ journal' = Ensured(r)
    /\ Keep(r, [my[r] EXCEPT !.begun = TRUE])
    /\ Goto(r, "write")
    /\ UNCHANGED <<lease, alive, vault, index, reb, lost, faults, source, status, past>>

\* The item could not be read, made a memory of, or written; its journal may
\* have been made and left empty.
DropItem(r) ==
    /\ step[r] \in {"item", "write"} /\ ThePage(r).item # 0
    /\ IF ThePage(r).item \in bound.bad THEN UNCHANGED faults ELSE Fault
    /\ Keep(r, [my[r] EXCEPT !.st.dropped = TRUE])
    /\ missed' = missed \cup {ThePage(r).item}
    /\ journal' \in IF journal = None /\ At(r, "item") THEN {None, Torn} ELSE {journal}
    /\ Goto(r, "turn")
    /\ UNCHANGED <<lease, alive, vault, index, reb, lost, source, status, skipped>>

WriteItem(r) ==
    /\ At(r, "write")
    /\ LET i == ThePage(r).item
       IN  /\ vault' = [vault EXCEPT ![i] = ThePage(r).version]
           /\ lost' = IF my[r].late THEN lost \cup {i} ELSE lost \ {i}
           /\ missed' = missed \ {i} /\ skipped' = skipped \ {i}
    /\ Keep(r, [my[r] EXCEPT !.made = TRUE])
    /\ Goto(r, "line")
    /\ UNCHANGED <<lease, alive, journal, index, reb, faults, source, status>>

\* RecordPublishedPath: nobody hears of a line that is lost.
RecordLine(r) ==
    /\ At(r, "line")
    /\ LET i == ThePage(r).item
       IN  \/ /\ journal' = Recorded(i) /\ lost' = lost \ {i}
              /\ UNCHANGED faults
           \/ Fault /\ UNCHANGED <<journal, lost>>
    /\ Goto(r, "turn")
    /\ UNCHANGED <<lease, alive, vault, index, reb, source, status, my, past>>

\* SaveStatus replaces the file, or fails and leaves it.
Saved(st) == (status' = st /\ UNCHANGED faults) \/ (Fault /\ UNCHANGED status)

\* MUTANT of TurnPage: the same page is asked for again.
TurnPageBack(r) ==
    /\ At(r, "turn") /\ ThePage(r).more # 0
    /\ LET st == [my[r].st EXCEPT !.history = my[r].history]
       IN  /\ Keep(r, [my[r] EXCEPT !.st = st, !.page = NoPage])
           /\ \/ status' = st /\ Goto(r, "fetch") /\ UNCHANGED faults
              \/ Fault /\ Goto(r, "save") /\ UNCHANGED status
    /\ UNCHANGED <<lease, alive, disk, source, past>>
\* The page is done and is not the last: the status says where to resume.
TurnPage(r) ==
    /\ At(r, "turn") /\ ThePage(r).more # 0
    /\ LET st == [my[r].st EXCEPT !.token = ThePage(r).more, !.history = my[r].history]
       IN  /\ Keep(r, [my[r] EXCEPT !.st = st, !.page = NoPage])
           /\ \/ status' = st /\ Goto(r, "fetch") /\ UNCHANGED faults
              \/ Fault /\ Goto(r, "save") /\ UNCHANGED status
    /\ UNCHANGED <<lease, alive, disk, source, past>>

GaveUp(st) == st.walks + 1 >= MaxDropped
\* What a walk to the last page leaves: the cursor moves unless an item was
\* dropped, and all the same once too many walks have dropped one.
Walked(st, next) ==
    IF st.dropped /\ ~ GaveUp(st)
    THEN [st EXCEPT !.token = 0, !.history = FALSE, !.dropped = FALSE, !.walks = @ + 1]
    ELSE [NoStatus EXCEPT !.cursor = next]

FinishWalk(r) ==
    /\ At(r, "turn") /\ ThePage(r).more = 0
    /\ Keep(r, [my[r] EXCEPT !.st = Walked(@, my[r].next), !.page = NoPage])
    /\ skipped' = IF my[r].st.dropped /\ GaveUp(my[r].st) THEN skipped \cup missed ELSE skipped
    /\ Goto(r, "save")
    /\ UNCHANGED <<ingest, source, status, missed>>

\* persistSyncStatus.  A run that published awaits a rebuild.
PersistStatus(r) ==
    /\ At(r, "save")
    /\ Saved(my[r].st)
    /\ IF my[r].made THEN Leave(r) /\ journal' = Ended(r, journal)
       ELSE Goto(r, "release") /\ UNCHANGED <<lease, alive, my, journal>>
    /\ UNCHANGED <<vault, index, reb, lost, source, past>>

\* retireUnpublishedIngestJournal: the lease goes; then the journal, if the run
\* began no publish and the header is its own.
ReleaseUnpublished(r) ==
    /\ At(r, "release")
    /\ IF ~ my[r].begun /\ journal # None /\ journal.header = r
       THEN /\ lease' = IF lease = r THEN None ELSE lease
            /\ Goto(r, "retire") /\ UNCHANGED <<alive, my, journal>>
       ELSE Leave(r) /\ journal' = Ended(r, journal)
    /\ UNCHANGED <<vault, index, reb, lost, faults, source, status, past>>

RetireUnpublished(r) ==
    /\ At(r, "retire")
    /\ alive' = alive \ {r} /\ Keep(r, Nothing) /\ Goto(r, "begin")
    /\ IF journal = None THEN UNCHANGED <<lease, journal, reb>>
       ELSE /\ journal' = Ended(r, Compacted(Len(journal.lines), {}))
            /\ lease' = LeaseAfter(Len(journal.lines), {})
            /\ reb' = Replaced(reb)
    /\ UNCHANGED <<vault, index, lost, faults, source, status, past>>

\* The process dies; its lease stays.  In the middle of making the journal it
\* may leave an empty one.
Crash(r) ==
    /\ r \in alive /\ Fault
    /\ alive' = alive \ {r} /\ Keep(r, Nothing) /\ Goto(r, "begin")
    /\ lease' = IF lease = r THEN Over ELSE lease
    /\ journal' \in IF journal = None /\ step[r] \in {"header", "item"}
                    THEN {None, Torn} ELSE {Ended(r, journal)}
    /\ UNCHANGED <<vault, index, reb, lost, source, status, past>>

RunStep(r) ==
    \/ EnsureHeader(r) \/ LoadStatus(r) \/ FetchPage(r) \/ FallBack(r) \/ Unchanged(r)
    \/ StartPublish(r) \/ WriteItem(r) \/ RecordLine(r) \/ TurnPage(r) \/ FinishWalk(r)
    \/ PersistStatus(r) \/ ReleaseUnpublished(r) \/ RetireUnpublished(r)

Quiet == UNCHANGED <<source, status, step, my, past>>
Next ==
    \/ \E r \in Runs : RunStep(r)
    \/ \E r \in Runs : Acquire(r)
    \/ \E r \in Runs : Interrupt(r)
    \/ \E r \in Runs : DropItem(r)
    \/ \E r \in Runs : Crash(r)
    \/ bound.rebuilds /\ \E b \in Rebuilds : RebuildStep(b) /\ Quiet
    \/ \E b \in Rebuilds : AbandonRebuild(b) /\ Quiet
    \/ ItemChanges
    \/ HistoryExpires

Spec == Init /\ [][Next]_vars

\* A run that began goes on, and somebody rebuilds the index again and again.
Fairness ==
    /\ \A r \in Runs : WF_vars(RunStep(r))
    /\ \A b \in Rebuilds : WF_vars(bound.rebuilds /\ RebuildStep(b) /\ Quiet)
FairSpec == Spec /\ Fairness

-----------------------------------------------------------------------------
(* What it promises.                                                        *)

\* An index that reads clean has every published file at its version, except
\* files of a run that began when a rebuild had already looked at the lease.
NeverFalselyClean == journal = None => \A i \in Items \ lost : index[i] = vault[i]

\* The same of every run: "A line is written after its file is published, so a
\* line inside that size proves the listing saw the publish. A source with a
\* live ingest is left out" (SnapshotJournals).
CleanIsIndexed == journal = None => index = vault

\* Whatever a resumed, interrupted, dropped or expired walk did, the cursor on
\* disk says that the vault has every change before it, but for items given up.
CursorIsHonest ==
    \A i \in Items \ skipped :
        VersionAt(i, status.cursor) # 0 => vault[i] >= VersionAt(i, status.cursor)

\* A killed run never pins the index dirty: without runs, a rebuild clears it.
KilledRunNeverPins ==
    (bound.rebuilds /\ journal # None) ~> (journal = None \/ alive # {})

\* While runs keep coming, the vault catches up with the mailbox again and again,
\* but for items given up: no status on disk is a dead end.
CatchesUp ==
    []<>(alive # {}) => []<>(\A i \in Items \ skipped : vault[i] = Version(i))

=============================================================================
