----------------------------- MODULE Governance -----------------------------
(***************************************************************************)
(* The governance ledger: what the user decided about which memory.        *)
(*                                                                         *)
(* A sync writes connector memories, `mora forget` suppresses a target and *)
(* removes what it covers, a decision (merge, teach, brief correct) adds a *)
(* record, `mora unforget` and the undo commands revoke an entry, and the  *)
(* rebuild that ends each of them derives the index rows and the entity    *)
(* graph from the vault and the ledger.  The lease beside the ledger spans *)
(* each load-and-save and each check-and-write; the removals, the markers  *)
(* and the rebuild happen without it.                                      *)
(*                                                                         *)
(* A process is one invocation after another, and a process that ends or   *)
(* crashes leaves what it owned to Gone.  Entry and marker ids are minted  *)
(* anew; one that nothing mentions any more serves as a new one.  The      *)
(* index is ready from the start.                                          *)
(***************************************************************************)
EXTENDS Naturals, FiniteSets

CONSTANTS
    Procs,
    Gone,      \* a process that ended
    Nobody,    \* no process
    Roles,     \* the tasks a process takes on
    Crews,     \* bound: the sets of processes that run beside each other
    Items,     \* connector memories, by stable id
    NoItem,    \* no memory
    ParentOf,  \* the memory an attachment was extracted from, or NoItem
    People,    \* handles and addresses
    Contents,  \* what the provider may return for a memory
    Wanted,    \* the memories and people the user wants forgotten
    NoFile,    \* no file at a memory's path
    Pairs,     \* what a recorded decision is about
    EntryIds,  \* bound: ids of ledger entries
    OpIds,     \* bound: ids of markers
    NoId,      \* no id
    MaxFaults, \* bound on crashes and failed calls
    Slow       \* processes that may hold the lease for longer than its TTL

\* What a file says of its memory's identity: the counterparties in its
\* metadata and, for an attachment, those of its parent when it was written.
Content == [cps: SUBSET People, parentCps: SUBSET People]
Tasks == {"sync", "forget", "decide", "revoke", "rebuild"}

ASSUME GovernanceAssumption ==
    /\ Gone \notin Procs /\ Nobody \notin Procs \cup {Gone}
    /\ Roles \in [Procs -> SUBSET Tasks]
    /\ Crews \subseteq SUBSET Procs
    /\ NoItem \notin Items
    /\ Wanted \subseteq Items \cup People
    /\ Pairs \cap (Items \cup People) = {}
    /\ ParentOf \in [Items -> Items \cup {NoItem}]
    /\ Contents \in [Items -> SUBSET Content]
    /\ NoFile \notin Content
    /\ NoId \notin EntryIds \cup OpIds
    /\ MaxFaults \in Nat
    /\ Slow \subseteq Procs

VARIABLES
    lease,   \* .mora-governance.json.lock
    ledger,  \* .mora-governance.json
    vault,   \* the file of each memory
    marks,   \* pending-operation markers
    rows,    \* memories in the committed index
    graph,   \* decisions in the committed index
    tx,      \* who has the index's write transaction
    at,      \* what each process is doing
    my,      \* what each process has in hand
    left,    \* history: files an unfinished forget left behind
    faults,
    unmarked  \* history: memories a forget took on unmarked, not indexed since

vars == <<lease, ledger, vault, marks, rows, graph, tx, at, my, left, faults, unmarked>>
index == <<rows, graph, tx>>

Targets == Wanted \cup Pairs
Entry == [id: EntryIds, target: Targets, revoked: BOOLEAN]
Marker == [op: OpIds, item: Items \cup {NoItem}, owner: Procs \cup {Gone}, unlinked: BOOLEAN]
Vault == [Items -> Content \cup {NoFile}]
Lease == [holder: Procs \cup {Gone}, expired: BOOLEAN]
Free == [holder |-> Nobody, expired |-> FALSE]

\* target, item, content, entry: the task; op: its rebuild marker; known: the
\* ledger it loaded; todo: the matches of a forget, tried: those it has marked, or
\* could not look whether to; then: where a release leads; noted, listed, seen: the
\* markers, paths and files a rebuild snapshot holds.
Locals == [task: Tasks \cup {"none"}, target: Targets \cup {NoItem},
           item: Items \cup {NoItem}, content: Content \cup {NoFile},
           entry: EntryIds \cup {NoId}, op: OpIds \cup {NoId},
           known: SUBSET Entry, todo: SUBSET Items, tried: SUBSET Items,
           then: {"idle", "unmark", "remove", "mark"},
           noted: SUBSET Marker, listed: SUBSET Items, seen: Vault]
Blank == [task |-> "none", target |-> NoItem, item |-> NoItem, content |-> NoFile,
          entry |-> NoId, op |-> NoId, known |-> {}, todo |-> {}, tried |-> {},
          then |-> "idle", noted |-> {}, listed |-> {}, seen |-> [i \in Items |-> NoFile]]

HeldSteps == {"load", "scan", "dirty", "save", "write", "release"}
RebuildSteps == {"mark", "begin", "read", "commit", "retire"}
Steps == {"off", "idle", "acquire", "unmark", "remove", "unlink"} \cup HeldSteps \cup RebuildSteps

TypeOK ==
    /\ lease \in Lease \cup {Free}
    /\ ledger \in SUBSET Entry
    /\ vault \in Vault
    /\ marks \in SUBSET Marker
    /\ rows \in SUBSET Items
    /\ graph \in SUBSET Entry
    /\ tx \in Procs \cup {Nobody}
    /\ at \in [Procs -> Steps]
    /\ my \in [Procs -> Locals]
    /\ left \in SUBSET Items
    /\ faults \in 0 .. MaxFaults
    /\ unmarked \in SUBSET Items

-----------------------------------------------------------------------------
(* The policy. *)

\* One entry matches one memory: by its stable id or its parent's, or because
\* the target is the sole counterparty of the memory or of its parent.
Covers(target, item, content) ==
    \/ target \in {item, ParentOf[item]}
    \/ content.cps = {target}
    \/ content.parentCps = {target}

ActiveSuppress(g) == {e \in g : ~e.revoked /\ e.target \notin Pairs}
Decisions(g) == {e \in g : ~e.revoked /\ e.target \in Pairs}

Suppresses(g, item, content) == \E e \in ActiveSuppress(g) : Covers(e.target, item, content)

Present == {i \in Items : vault[i] # NoFile}

-----------------------------------------------------------------------------
(* Processes. *)

Step(p, step, locals) == /\ at' = [at EXCEPT ![p] = step]
                         /\ my' = [my EXCEPT ![p] = locals]
Goto(p, step) == Step(p, step, my[p])

\* The lease is given back and the rest of the task goes on at the next step.
LetGo(p, next, todo) ==
    Step(p, "release", [Blank EXCEPT !.op = my[p].op, !.todo = todo, !.then = next])
\* Where a task that changed nothing ends: a decision or a revocation first
\* takes back the marker it set.
Undo(p) == IF my[p].op = NoId THEN "idle" ELSE "unmark"

Fault == faults < MaxFaults /\ faults' = faults + 1

Orphaned(ms, p) == {[m EXCEPT !.owner = IF @ = p THEN Gone ELSE @] : m \in ms}

\* newID: which of the unused ids it is makes no difference.
NewOps == {o \in OpIds : /\ \A m \in marks : m.op # o
                         /\ \A p \in Procs : my[p].op # o /\ \A m \in my[p].noted : m.op # o}
NewOp == CHOOSE o \in NewOps : TRUE

\* markIndexDirty: with a readiness probe that itself fails it reports success
\* and leaves no marker.
MarkDirty(p, item) ==
    /\ NewOps # {}
    /\ \/ /\ marks' = marks \cup {[op |-> NewOp, item |-> item, owner |-> p, unlinked |-> FALSE]}
          /\ UNCHANGED <<faults, unmarked>>
       \/ /\ Fault
          /\ marks' = marks
          /\ unmarked' = unmarked \cup ({item} \cap Items)

\* An invocation ends; its markers stay.
End(p) == /\ Step(p, "idle", Blank)
          /\ marks' = Orphaned(marks, p)

-----------------------------------------------------------------------------
(* Invocations. *)

Begins(p, task) == at[p] = "idle" /\ task \in Roles[p]

BeginSync(p) ==
    /\ Begins(p, "sync")
    /\ \E i \in Items : \E c \in Contents[i] :
           Step(p, "acquire", [Blank EXCEPT !.task = "sync", !.item = i, !.content = c])
    /\ UNCHANGED <<lease, ledger, vault, marks, index, left, faults, unmarked>>

BeginForget(p) ==
    /\ Begins(p, "forget")
    /\ \E t \in Wanted :
           Step(p, "acquire", [Blank EXCEPT !.task = "forget", !.target = t])
    /\ UNCHANGED <<lease, ledger, vault, marks, index, left, faults, unmarked>>

\* A decision marks the index before it touches the ledger.
BeginDecide(p) ==
    /\ Begins(p, "decide")
    /\ MarkDirty(p, NoItem)
    /\ \E t \in Pairs :
           Step(p, "acquire", [Blank EXCEPT !.task = "decide", !.target = t, !.op = NewOp])
    /\ UNCHANGED <<lease, ledger, vault, index, left>>

\* So does unforget, or the undo of a decision.
BeginRevoke(p) ==
    /\ Begins(p, "revoke")
    /\ MarkDirty(p, NoItem)
    /\ \E id \in EntryIds :
           Step(p, "acquire", [Blank EXCEPT !.task = "revoke", !.entry = id, !.op = NewOp])
    /\ UNCHANGED <<lease, ledger, vault, index, left>>

BeginRebuild(p) ==
    /\ Begins(p, "rebuild")
    /\ Step(p, "mark", [Blank EXCEPT !.task = "rebuild"])
    /\ UNCHANGED <<lease, ledger, vault, marks, index, left, faults, unmarked>>

-----------------------------------------------------------------------------
(* The lease. *)

\* Mutant: a forget does not take the lease.
AcquireUnlessForget(p) ==
    /\ at[p] = "acquire"
    /\ my[p].task = "forget" \/ lease = Free
    /\ lease' = IF my[p].task = "forget" THEN lease ELSE [holder |-> p, expired |-> FALSE]
    /\ Goto(p, "load")
    /\ UNCHANGED <<ledger, vault, marks, index, left, faults, unmarked>>

Acquire(p) ==
    /\ at[p] = "acquire"
    /\ lease = Free
    /\ lease' = [holder |-> p, expired |-> FALSE]
    /\ Goto(p, "load")
    /\ UNCHANGED <<ledger, vault, marks, index, left, faults, unmarked>>

\* Mutant: a lease is broken whatever its age.
ReapLive(p) ==
    /\ at[p] = "acquire"
    /\ lease # Free
    /\ lease' = Free
    /\ UNCHANGED <<ledger, vault, marks, index, at, my, left, faults, unmarked>>

\* The body that was read as expired is removed only if it is still there, so
\* the read and the removal are one step.
Reap(p) ==
    /\ at[p] = "acquire"
    /\ lease # Free /\ lease.expired
    /\ lease' = Free
    /\ UNCHANGED <<ledger, vault, marks, index, at, my, left, faults, unmarked>>

\* The budget is spent: "locked by another mora process".
GiveUp(p) ==
    /\ at[p] = "acquire"
    /\ IF Undo(p) = "idle" THEN End(p) ELSE Goto(p, "unmark") /\ marks' = marks
    /\ UNCHANGED <<lease, ledger, vault, index, left, faults, unmarked>>

\* The lease is removed only while it is this process's own.
Release(p) ==
    /\ at[p] = "release"
    /\ lease' = IF lease.holder = p THEN Free ELSE lease
    /\ IF my[p].then = "idle" THEN End(p) ELSE Goto(p, my[p].then) /\ marks' = marks
    /\ UNCHANGED <<ledger, vault, index, left, faults, unmarked>>

\* Its removal fails, which nobody is told.
Leak(p) ==
    /\ at[p] = "release"
    /\ lease.holder = p
    /\ Fault
    /\ lease' = [lease EXCEPT !.holder = Gone]
    /\ IF my[p].then = "idle" THEN End(p) ELSE Goto(p, my[p].then) /\ marks' = marks
    /\ UNCHANGED <<ledger, vault, index, left, unmarked>>

\* The TTL passes.
Expire ==
    /\ lease # Free /\ ~lease.expired
    /\ lease.holder \in Slow \cup {Gone}
    /\ lease' = [lease EXCEPT !.expired = TRUE]
    /\ UNCHANGED <<ledger, vault, marks, index, at, my, left, faults, unmarked>>

\* The ledger or the vault cannot be read, or the file not written.
Refuse(p) ==
    /\ at[p] \in {"load", "scan", "write"}
    /\ LetGo(p, Undo(p), {})
    /\ UNCHANGED <<lease, ledger, vault, marks, index, left, faults, unmarked>>

-----------------------------------------------------------------------------
(* A connector write: check, skip or write, all under the lease. *)

\* Mutant: a memory whose parent was forgotten is judged by its own identity.
JudgeOrphan(p) ==
    /\ at[p] = "load" /\ my[p].task = "sync"
    /\ IF \/ \E e \in ActiveSuppress(ledger) : e.target = my[p].item \/ my[p].content.cps = {e.target}
          \/ vault[my[p].item] = my[p].content
       THEN LetGo(p, "idle", {})
       ELSE Goto(p, "write")
    /\ UNCHANGED <<lease, ledger, vault, marks, index, left, faults, unmarked>>

Judge(p) ==
    /\ at[p] = "load" /\ my[p].task = "sync"
    /\ IF Suppresses(ledger, my[p].item, my[p].content) \/ vault[my[p].item] = my[p].content
       THEN LetGo(p, "idle", {})
       ELSE Goto(p, "write")
    /\ UNCHANGED <<lease, ledger, vault, marks, index, left, faults, unmarked>>

Write(p) ==
    /\ at[p] = "write"
    /\ vault' = [vault EXCEPT ![my[p].item] = my[p].content]
    /\ left' = left \ {my[p].item}
    /\ LetGo(p, "idle", {})
    /\ UNCHANGED <<lease, ledger, marks, index, faults, unmarked>>

-----------------------------------------------------------------------------
(* Appends and revocations: load and save under one lease. *)

Load(p) ==
    /\ at[p] = "load" /\ my[p].task \in {"forget", "decide", "revoke"}
    /\ IF my[p].task = "revoke" /\ \A e \in ledger : e.id = my[p].entry => e.revoked
       THEN LetGo(p, "unmark", {})
       ELSE Step(p, IF my[p].task = "forget" THEN "scan" ELSE "save", [my[p] EXCEPT !.known = ledger])
    /\ UNCHANGED <<lease, ledger, vault, marks, index, left, faults, unmarked>>

\* mint: an id that no entry has.
NewIds(p) == {i \in EntryIds : \A e \in my[p].known \cup ledger : e.id # i}
NewEntry(p) == [id |-> CHOOSE i \in NewIds(p) : TRUE, target |-> my[p].target, revoked |-> FALSE]

\* AppendLocked, Save.
Append(p) ==
    /\ at[p] = "save" /\ my[p].task \in {"forget", "decide"}
    /\ NewIds(p) # {}
    /\ ledger' = my[p].known \cup {NewEntry(p)}
    /\ LetGo(p, IF my[p].todo = {} THEN "mark" ELSE "remove", my[p].todo)
    /\ UNCHANGED <<lease, vault, marks, index, left, faults, unmarked>>

Revoke(p) ==
    /\ at[p] = "save" /\ my[p].task = "revoke"
    /\ ledger' = {[e EXCEPT !.revoked = @ \/ e.id = my[p].entry] : e \in my[p].known}
    /\ LetGo(p, "mark", {})
    /\ UNCHANGED <<lease, vault, marks, index, left, faults, unmarked>>

DeleteMarks(p) == {m \in marks : m.owner = p /\ m.item # NoItem}

\* A forget takes its delete markers back before it lets go of the lease.
SaveFails(p) ==
    /\ at[p] = "save"
    /\ Fault
    /\ marks' = marks \ DeleteMarks(p)
    /\ LetGo(p, Undo(p), {})
    /\ UNCHANGED <<lease, ledger, vault, index, left, unmarked>>

\* The ledger never changed, or nothing was revoked.
Unmark(p) ==
    /\ at[p] = "unmark"
    /\ Step(p, "idle", Blank)
    /\ marks' = Orphaned({m \in marks : m.op # my[p].op}, p)
    /\ UNCHANGED <<lease, ledger, vault, index, left, faults, unmarked>>

-----------------------------------------------------------------------------
(* mora forget: scan, mark and append under the lease, then remove. *)

Matches(target) == {i \in Present : Covers(target, i, vault[i])}

Scan(p) ==
    /\ at[p] = "scan"
    /\ LET matches == Matches(my[p].target)
       IN  Step(p, IF matches = {} THEN "save" ELSE "dirty",
                   [my[p] EXCEPT !.todo = matches, !.tried = {}])
    /\ UNCHANGED <<lease, ledger, vault, marks, index, left, faults, unmarked>>

Untried(p) == my[p].todo \ my[p].tried

\* In the order of the listing.
MarkMatch(p) ==
    /\ at[p] = "dirty"
    /\ Untried(p) # {}
    /\ LET i == CHOOSE j \in Untried(p) : TRUE
       IN  /\ MarkDirty(p, i)
           /\ Step(p, IF Untried(p) = {i} THEN "save" ELSE "dirty",
                   [my[p] EXCEPT !.tried = @ \cup {i}])
    /\ UNCHANGED <<lease, ledger, vault, index, left>>

MarkMatchFails(p) ==
    /\ at[p] = "dirty"
    /\ Fault
    /\ marks' = marks \ DeleteMarks(p)
    /\ LetGo(p, "idle", {})
    /\ UNCHANGED <<lease, ledger, vault, index, left, unmarked>>

\* os.Remove, which does not mind a file that is already gone.
Remove(p) ==
    /\ at[p] = "remove"
    /\ \E i \in my[p].todo :
           /\ vault' = [vault EXCEPT ![i] = NoFile]
           /\ left' = left \ {i}
           /\ Step(p, "unlink", [my[p] EXCEPT !.item = i])
    /\ UNCHANGED <<lease, ledger, marks, index, faults, unmarked>>

\* Only the marker of the file that stays is taken back; the forget ends.
RemoveFails(p) ==
    /\ at[p] = "remove"
    /\ Fault
    /\ \E i \in my[p].todo \cap Present :
           marks' = Orphaned({m \in marks : m \notin DeleteMarks(p) \/ m.item # i}, p)
    /\ left' = left \cup my[p].todo
    /\ Step(p, "idle", Blank)
    /\ UNCHANGED <<lease, ledger, vault, index, unmarked>>

\* markDeleteUnlinked, whose own failure is ignored.
Unlinked(p) ==
    /\ at[p] = "unlink"
    /\ LET i == my[p].item
           mine == {m \in DeleteMarks(p) : m.item = i}
       IN  /\ \/ marks' = (marks \ mine) \cup {[m EXCEPT !.unlinked = TRUE] : m \in mine}
                 /\ faults' = faults
              \/ Fault /\ marks' = marks
           /\ Step(p, IF my[p].todo = {i} THEN "mark" ELSE "remove",
                   [my[p] EXCEPT !.todo = @ \ {i}, !.item = NoItem])
    /\ UNCHANGED <<lease, ledger, vault, index, left, unmarked>>

-----------------------------------------------------------------------------
(* The rebuild: its own marker, then everything under the index's write lock. *)

SelfMark(p) ==
    /\ at[p] = "mark"
    /\ MarkDirty(p, NoItem)
    /\ Step(p, "begin", Blank)
    /\ UNCHANGED <<lease, ledger, vault, index, left>>

\* BeginTx, the snapshot of the markers, the listing.
RebuildBegin(p) ==
    /\ at[p] = "begin"
    /\ tx = Nobody
    /\ tx' = p
    /\ Step(p, "read", [my[p] EXCEPT !.noted = marks, !.listed = Present])
    /\ UNCHANGED <<lease, ledger, vault, marks, rows, graph, left, faults, unmarked>>

\* loadGovernance, then the files.
RebuildRead(p) ==
    /\ at[p] = "read"
    /\ Step(p, "commit", [my[p] EXCEPT !.known = ledger, !.seen = vault])
    /\ UNCHANGED <<lease, ledger, vault, marks, index, left, faults, unmarked>>

Parsed(p) == {i \in my[p].listed : my[p].seen[i] # NoFile}

\* What p's rebuild read as it still is and no forget is about to remove.
CaughtUp(p) == {i \in Items : /\ i \in Parsed(p) <=> i \in Present
                              /\ \A q \in Procs : i \notin my[q].todo}

RebuildCommit(p) ==
    /\ at[p] = "commit"
    /\ rows' = Parsed(p)
    /\ graph' = Decisions(my[p].known)
    /\ tx' = Nobody
    /\ unmarked' = unmarked \ CaughtUp(p)
    /\ Goto(p, "retire")
    /\ UNCHANGED <<lease, ledger, vault, marks, left, faults>>

\* Mutant: a delete marker is retired while its owner still means to remove.
RetirableEarly(p, m) == m.item = NoItem \/ m.item \in Parsed(p) \/ m.item \notin my[p].listed

\* decide: a rebuild marker is covered by the listing, a delete marker once the
\* unlink is done or its owner is dead.
Retirable(p, m) ==
    LET dead == \E n \in marks : n.op = m.op /\ n.owner = Gone
    IN  \/ m.item = NoItem
        \/ m.unlinked /\ (m.item \in Parsed(p) \/ m.item \notin my[p].listed)
        \/ dead /\ m.item \notin my[p].listed
        \/ dead /\ m.item \in Parsed(p) /\ vault[m.item] = my[p].seen[m.item]

Retire(p) ==
    /\ at[p] = "retire"
    /\ LET retired == {m.op : m \in {n \in my[p].noted : Retirable(p, n)}}
       IN  marks' = Orphaned({m \in marks : m.op \notin retired}, p)
    /\ Step(p, "idle", Blank)
    /\ UNCHANGED <<lease, ledger, vault, index, left, faults, unmarked>>

-----------------------------------------------------------------------------
\* What a forget that has appended its entry still has to remove; in "unlink" the
\* file of item is gone already.
Owing(p) == IF at[p] \in {"release", "remove", "unlink"} THEN my[p].todo \ {my[p].item} ELSE {}

\* The process dies, or its rebuild fails and it ends.
Crash(p) ==
    /\ at[p] \notin {"off", "idle"}
    /\ Fault
    /\ lease' = IF lease.holder = p THEN [lease EXCEPT !.holder = Gone] ELSE lease
    /\ tx' = IF tx = p THEN Nobody ELSE tx
    /\ left' = left \cup Owing(p)
    /\ End(p)
    /\ UNCHANGED <<ledger, vault, rows, graph, unmarked>>

Init ==
    /\ lease = Free
    /\ ledger = {}
    /\ vault = [i \in Items |-> NoFile]
    /\ marks = {}
    /\ rows = {} /\ graph = {}
    /\ tx = Nobody
    /\ \E crew \in Crews : at = [p \in Procs |-> IF p \in crew THEN "idle" ELSE "off"]
    /\ my = [p \in Procs |-> Blank]
    /\ left = {}
    /\ faults = 0
    /\ unmarked = {}

Task(p) == BeginSync(p) \/ BeginForget(p) \/ BeginDecide(p) \/ BeginRevoke(p) \/ BeginRebuild(p)
Leasing(p) == Acquire(p) \/ Reap(p) \/ GiveUp(p) \/ Release(p) \/ Leak(p) \/ Refuse(p)
Saving(p) == Load(p) \/ Append(p) \/ Revoke(p) \/ SaveFails(p) \/ Unmark(p)
Forgetting(p) == \/ Scan(p) \/ MarkMatch(p) \/ MarkMatchFails(p)
                 \/ Remove(p) \/ RemoveFails(p) \/ Unlinked(p)
Rebuilding(p) == \/ SelfMark(p) \/ RebuildBegin(p) \/ RebuildRead(p)
                 \/ RebuildCommit(p) \/ Retire(p)

Process(p) == \/ Task(p) \/ Leasing(p) \/ Judge(p) \/ Write(p) \/ Saving(p)
              \/ Forgetting(p) \/ Rebuilding(p) \/ Crash(p)

Next == Expire \/ \E p \in Procs : Process(p)

Spec == Init /\ [][Next]_vars

-----------------------------------------------------------------------------
(* Properties. *)

\* A write never publishes a memory that the ledger suppresses at that moment
\* (governance.go, writeUnlessForgotten; ingest.go, writeMappedMemory).
NothingForgottenIsWritten ==
    [][\A i \in Items : vault'[i] \in {vault[i], NoFile} \/ ~Suppresses(ledger, i, vault'[i])]_vars

\* A file that the ledger suppresses is one a forget listed under its lease and
\* is about to remove, or one that such a forget, which failed or died, left
\* behind (cmdForget: scan and append are one critical section).
ForgottenIsOwed ==
    \A i \in Present :
        Suppresses(ledger, i, vault[i]) => i \in left \cup UNION {Owing(p) : p \in Procs}

\* No save loses another writer's entry or brings a revoked one back
\* (store.go, Append and Revoke reload under the lease).
EntriesKept ==
    [][\A e \in ledger : \E f \in ledger' :
           f.id = e.id /\ f.target = e.target /\ (e.revoked => f.revoked)]_vars

\* A memory whose file a forget removed is served by the index only behind a
\* pending delete marker (cmdForget marks every match before it appends), unless
\* the forget could not look whether to mark and no rebuild has read it since.
RemovedIsHidden ==
    \A i \in rows \ unmarked : vault[i] = NoFile => \E m \in marks : m.item = i

\* When every process has ended, an index without a rebuild marker was built
\* from the ledger's decisions (mergeDecide and cmdUnforget mark before they
\* change the ledger, so that a crash before their rebuild leaves the marker).
FreshKnowsDecisions ==
    (\A p \in Procs : at[p] \in {"off", "idle"}) /\ (\A m \in marks : m.item # NoItem)
        => graph = Decisions(ledger)

=============================================================================
