# TLA+ models of Mora

Mora keeps a person's memories as Markdown files (the *vault*), answers searches
from a derived SQLite index, ingests mail, messages and calendars, runs periodic
work (*loops*), shares selected memories with other people through generations
in a bucket, and serves a paired phone.  All of it runs as short-lived processes
of one user - commands, an MCP server, scheduled jobs - that meet only in the
file system.  There is no daemon that owns the state and no server that orders
the processes, so nearly every correctness argument in the code is about two
processes, a marker or lease file, and a crash between two writes.  That is what
these modules model.

## 1. The system

### 1.1 Components

| Component | Code (`src/internal/`) | State | Operations |
|---|---|---|---|
| Vault and authored writes | `mora/mora.go`, `mora/memfile.go`, `mora/commands_memory.go`, `mora/tentative.go`, `mora/mcp.go`, `atomicio` | one Markdown file per memory | create (exclusive link), rewrite (rename), delete (unlink) |
| Pending-operation ledger | `index/pending.go`, `mora/pending.go` | one marker file per operation, two suffixes | mark, stamp (rename), unmark, snapshot, retire |
| Search index and rebuild | `mora/index.go`, `mora/index_upsert.go`, `mora/index_reconcile.go`, `index/vaultid.go` | `index.db`: rows, FTS, graph, vectors, commitments, vault id | upsert, de-index, rebuild, refuse |
| Retention | `mora/retention_workflow.go`, `mora/retention_preflight.go`, `retention` | report of candidates, recovery manifests, audit | report, decide, execute, recover |
| Loop runs | `loop`, `mora/loop.go` | `.lock` lease, `latest.json` run record, journal | begin, heartbeat, effect, done, health |
| Lease files | `leasefile` | a lease file and an OS lock beside it | publish, reap, break, guard |
| Lease-guarded stores | `registry`, `governance`, `health`, `update/unattended.go`, `mora/sources_lock.go` | a JSON store per concern | acquire, load, mutate, save, release |
| Ingest journal | `ingest`, `mora/ingest_journal.go`, `mora/ingest.go` | publish journal per source, per-source lease | header, publish, record, snapshot, compact, retire |
| Source runs | `mora/source_run.go`, `mora/source_accounts.go`, `mora/source_process.go` | run state per source, child processes | start, supervise, cancel |
| Operation receipts | `operation`, `mora/receipt.go` | activity and receipt records | begin, step, finish, orphan detection |
| Connectors | `google`, `imessage`, `whatsapp`, `applecal`, `githubissues` | cursors and checkpoints per account | fetch, resume, checkpoint |
| Memory ingest | `memory`, `memoryfile`, `segments`, `previewfilter` | rendered memories, content ids | render, parse, deduplicate |
| Retrieval | `search`, `embed`, `recency`, `salience`, `confidence`, `usage` | ranked lists, vectors | query, fuse, rerank, filter |
| Graph, identity, rules | `graph`, `graphstore`, `identity`, `rules`, `corrections` | entities, merges, teaching rules | extract, merge, correct |
| Commitments and open loops | `commitment`, `commitmentclassify`, `openloops`, `tasks`, `disposition` | commitment records and their lifecycle | extract, confirm, resolve |
| Digest, briefs, meetings | `digest`, `briefartifact`, `briefstate`, `meeting`, `synthesis`, `urgency`, `mora/brief.go`, `mora/digest.go` | artifacts, a delivery watermark | assemble, deliver, acknowledge |
| Forgetting and governance | `governance`, `mora/governance_cmd.go`, `mora/forgettability.go` | ledger of forgotten sources | forget, hide, re-admit |
| Sharing | `sharing`, `mora/share*.go` | generations, manifests, attempts, leases, pins | publish, admit, attempt, collect |
| Companion | `companion`, `mora/companion*.go`, `loopbackhttp`, `httpservice` | device registry, pairing codes, idempotency ledger, captures | pair, revoke, capture, replay |
| MCP server and proposals | `mcp`, `mora/mcp*.go` | proposals awaiting a decision | propose, show, decide |
| Updates | `update`, `appupdate`, `binupdate`, `appbundle` | staged bundle, update state | stage, swap, roll back |
| Git and protected sync | `gitsync`, `protectedsync` | a git work tree, a mirror | pull, push, merge |
| Agent hooks and scheduling | `hooks`, `schedule`, `notify`, `integrations` | agent settings, OS job files | install, recall, schedule |
| CLI, configuration, health | `mora` (the rest), `config`, `doctor`, `health`, `cmd` | configuration, stamps | command handlers, doctor |

### 1.2 How they interact

* Every authored mutation publishes a ledger marker (unless it finds no index, or
  cannot look), changes the vault, patches the index and renames the marker; a
  rebuild, in this or any other process, reads the ledger, the vault and the index
  together and retires the markers it has covered.  Retention is a third writer with marker rules of its own.
* A connector run journals what it publishes.  A later rebuild snapshots the
  journals, indexes the vault and compacts each journal under the source's guard.
* A loop (brief, pulse, index job, digest) begins a run for a period under a
  lease, performs its effect at most once for the period, and closes the run.
* Stores of configuration (sources, governance, producers' health, update policy)
  are read, changed and saved under a lease file that any process may reap.
* A publisher of a share writes a generation and its manifest, moves a pointer and
  collects old generations; readers and other publishers hold leases and pins.
* The companion server handles requests of a phone that may be repeated, and
  appends captures to the vault through the same authored-write path.

### 1.3 What is hard, and what makes each part correct

* **Ledger and index**: interleavings of two or more processes at file
  granularity, crash at any point, read-then-act on the vault.  Correct when no
  memory is clean and missing, none is served after its deletion, and a
  "refreshing" memory is searchable as it stands.
* **Loop runs**: a lease that may expire under a paused process, a crash between
  effect and commit, a retry of an effect that may have happened.  Correct when
  an effect runs at most once per period and a superseded run changes nothing.
* **Lease files and the stores behind them**: reaping by comparison of bytes,
  two processes reaping at once, a holder that outlives its lease.  Correct when
  at most one process holds a fresh lease and no saved change is lost.
* **Ingest journal**: appends beside a rebuild's compaction, header writes beside
  removal.  Correct when a published path stays journalled until some rebuild
  has indexed it.
* **Operation receipts, source runs, connectors**: a cancelled or dead child, a
  checkpoint saved before or after the files it stands for.  Correct when no
  message is skipped for good and no finished receipt is reopened.
* **Sharing**: a crash between two objects of a generation, a collector beside a
  publisher.  Correct when no reachable generation loses an object and a
  recipient admitted later or removed sees only what it may.
* **Companion**: a repeated request, a revoked device with a request in flight, a
  pairing code used twice.  Correct when each request takes effect once.
* **Briefs**: delivery and acknowledgement are separate writes.  Correct when the
  watermark moves only over what was delivered.
* **Updates**: a crash between staging, swap and roll-back.  Correct when there is
  always one bundle that can start.
* **Pure algorithms** (rank fusion, merge policy, commitment lifecycle, retention
  windows, `AssessRebuild`): boundary values; correct against a reference
  definition.

## 2. The plan

Modules are written so that each can be both checked and proved about: constants
carry named assumptions, one action stands for one step of one handler, invariants
are conjunctions of named parts, and no `RECURSIVE` operator occurs.

| Order | Module | State | Composes with |
|---|---|---|---|
| 1 | `PendingLedger` (done) | vault, index, markers, rebuilds | everything that writes a memory |
| 2 | `LoopRun` (done) | lease, run record, guard, effects | - |
| 3 | `Governance` (done) | lease, ledger, vault, markers, rows and graph | a coarser ledger of markers than `PendingLedger`'s |
| 4 | `IngestJournal` (done) | a source's lease and journal, a rebuild's listing and compaction | `SourceSync` extends it |
| 5 | `SourceSync` (done) | status on disk, pages, cursors, dropped items | `IngestJournal` |
| 6 | `ShareImport` over `Subscription` (done) | commit records, generations, attempt record, two leases | refines `Subscription` |
| 7 | `Capture` over `WriteOnce` (done) | reservations, publication records, receipts, vault | refines `WriteOnce` |
| 8 | `Pairing` (done) | device registry, seed, owed counts, the confirmation route | `Companion` has the constants it shares with `Capture` |
| 9 | `Update` (done) | installed and staged bundles, receipt, lease, index schema | - |
| 10 | `Retention` (done) | reports, recovery manifests, prune entries, vault, index | the ledger entries of `Governance` and the hashless markers of `PendingLedger` |
| 11 | `LeaseStore` over an abstract `AtomicStore` | a lease file and a JSON store: registry, producer health, update policy | refines `AtomicStore` (load-mutate-save as one step) |
| 12 | `SharePublisher` | generations of a bucket, two publishers, deletion of orphans | `ShareImport`'s bucket |
| 13 | `Receipts`, `SourceRun`, `BriefState` | a receipt, a child process, a watermark | - |
| 14 | `Algorithms` | `AssessRebuild`, rank fusion, identity merges, commitment lifecycle against reference definitions | - |

Abstract specifications worth stating: "a key is written once, receipted once and
answered with that receipt" (`WriteOnce`, which `Capture` implements) and "what was found is served, at once and
never an older version" (`Subscription`, which `ShareImport` implements); still to
state, an `AtomicStore` (load, change and save as one step) and "a memory is clean,
owed or gone" for the ledger.

The runs of this version answer one question each. A run whose question a stronger
one or a theorem also answers is retired; section 4 lists those whose
disagreement can still be reproduced by a constant.

Every safety property that a run checks is also a theorem (section 5).

## 3. The modules

### 3.1 `PendingLedger`: vault, markers, index

One worker is one process. Its steps are those of `createMemory`, `cmdConfirm`,
`cmdDelete` and `rebuildIndexWithPolicy`, at the
granularity of one file operation or one SQLite transaction.

| TLA+ | Code |
|---|---|
| `vault` | the Markdown files (contents are members of `Bytes`; the SHA-256 of a file is its contents) |
| `rows`, `proj` | the FTS rows; the graph, vectors and commitments that only a rebuild writes |
| `marker[w]` | `pending/<op>.json` (`dirty`), the same after its rename to `.fts.json` (`second`) |
| `self[w]` | a rebuild's own marker |
| `scan[w]` | `Coverage`: the snapshot of the markers, the listing, the parsed hashes |
| `Mark`, `Publish`, `Remove`, `Upsert`, `Stamp`, `Unlinked`, `Deindex`, ... | the steps of a caller, with their failures |
| `SelfMark`, `Begin`, `List`, `Parse`, `Commit`, `Refuse`, `Probe`, `Decide`, `Finish` | the steps of a rebuild; `Probe` and `Decide` are `decide` with its two reads (owner, then disk) apart |

Abstractions. A worker's name is the marker's id and the process's pid and is
reused only when nothing mentions it, so pid reuse by another process is outside
the model. The snapshot of the markers is one step. Rule (a) for rebuild markers
uses a monotone clock: a rebuild marker in a snapshot was marked before the listing.
The two removals of `unmark` (dirty form, second form) are one step. The reconcile
that follows a write runs in the worker that won it, and its election is a choice.
A power loss is not modelled: `atomicio` syncs what it writes, and SQLite's commit is
one step. `Overlap = FALSE` says that two operations on one memory are not in
flight together (a person confirms or deletes a memory after its creation has
returned); section 4 says what happens otherwise. Memories that
governance hides and `foreignToVault` are left out; retention is a module of its
own. The rebuild's block record, and the six hours after which a doctor calls a
marker stuck, are reporting.

`MarkDirty` reports success without a marker in two cases, and `Mark` has both: the
index is not ready, or the readiness probe itself fails (`pending.go:310-316`; a fault).
The mutation goes on. `SelfMark` is the same for a rebuild. `unmarked` is history: the
memories changed that way, until a rebuild commits that has read the memory as it is
while no other operation on it is under way (`CaughtUp`). The three invariants speak of
the other memories; without the exception TLC refutes each (section 4).

### 3.2 `LoopRun`: one loop's runs

| TLA+ | Code |
|---|---|
| `rec`, `lease`, `guard`, `journal` | `latest.json`, `.lock`, the OS lock beside it, the terminal lines of the current run |
| `effects[d]` | history: how often the effect of period `d` was performed |
| `Start`, `Gate`, `Publish`, `Reap`, `Break`, `Recheck`, `Save`, `Release` | `Begin`: the gate before the lease, the acquisition, the gate under it, the record |
| `Open`, `Fence`, `Beat`, `Enter`, `RunEffect`, `Commit` | the pulse: its heartbeat and `WithRunEffectAt` under the guard |
| `StartClose`, `Close`, `Drop` | `Done`: the record and journal, then the lease |
| `Expire`, `NextPeriod`, `Damage`, `Crash`, `Spawn` | the environment |

`Reap` reads a stale lease and `Break` removes it in a later step under the guard,
only if its bytes are still those read. The acquisition's four attempts are a
choice between retrying and giving up. A lease's age is one bit. `Slow` names what a
begin may outlive between its gate and its save; the runs have
`Slow = {}`: a begin is not suspended for the lease's TTL, nor over a period's
boundary, while it makes a few file operations. Left out: the attempt count, the
cursor and the idempotency key, the archive copy, the registration and
`ClassifyHealth`, and `pulse --advance` without `--loop`, which has no gate. The
clock is monotone. A failed removal of a lease inside a reap is a begin that ends
there.

### 3.3 `Governance`: what is forgotten or decided

| TLA+ | Code |
|---|---|
| `lease`, `ledger` | `.mora-governance.json.lock`, `.mora-governance.json` |
| `vault[i]` | the file of a connector memory: the counterparties in its metadata and in its parent's |
| `marks` | delete and rebuild markers with their owners |
| `rows`, `graph`, `tx` | the committed index: which memories it serves, which decisions its graph was built from, who has its write transaction |
| `Acquire`, `Reap`, `GiveUp`, `Release`, `Leak`, `Expire` | `Store.Acquire`, `leasefile.Reap`, the releaser, the 30 s TTL |
| `Judge`, `Write` | `writeUnlessForgotten`, `writeMappedMemory`: check and write under the lease |
| `Load`, `Append`, `Revoke`, `SaveFails`, `Unmark` | `Append`, `AppendLocked`, `Revoke` and their callers' ends |
| `Scan`, `MarkMatch`, `Remove`, `RemoveFails`, `Unlinked` | `cmdForget`; `my[p].tried` are the matches it has marked, or taken on although the readiness probe failed |
| `SelfMark`, `RebuildBegin`, `RebuildRead`, `RebuildCommit`, `Retire` | the rebuild every command ends with, as far as these parts see it |
| `Covers`, `Suppresses` | `policy.go`: stable id, parent, sole counterparty, parent's sole counterparty |

A process is one invocation after another; when it ends or dies, its markers and
lease belong to `Gone`. `left` is history: the files an unfinished forget did not
remove; so is `unmarked`, as in `PendingLedger` (`MarkDirty` has the same silent branch here).
Reading and removing an expired lease is one step, because the removal
compares the bytes it read. The rebuild's listing and its reading of the files are
one step each; `PendingLedger` has the finer version. Last-writer-wins among
decisions on one pair is reduced to the set of the active ones. Kinds and providers
of atoms, the journal's header, the migration of legacy twins and the preview
scan before the lease are left out. Retention's prune entries and its recovery
are in `Retention`. A failing rebuild or a failing unmark counts as a crash
at that point. Ids come from small sets; one that nothing mentions is new again.

### 3.4 `IngestJournal` and `SourceSync`: a connector's run and the journal it leaves

`IngestJournal` has the files a rebuild and a run share, and the rebuild's steps;
`SourceSync` extends it with the runs of a mail source.

| TLA+ | Code |
|---|---|
| `lease`, `journal`, `vault`, `index` | `ingest/<source>/lease` and `journal.log`, the published files, what the committed index was built from |
| `reb[b]` | what a rebuild carries from `SnapshotJournals` to `RecoverJournals`: the journal's size and identity, the listing |
| `BeginRebuild`, `Stat`, `List`, `Read`, `CommitIndex`, `RecoverJournals` | the look at the lease, the `Stat` of the journal, listing, parsing, the commit, the compaction under the guard |
| `status` | `sync/<source>.json`: cursor, checkpoint, mode, pending cursor, dropped items and walks |
| `log`, `horizon` | external: the mailbox's history and the part the service has forgotten |
| `EnsureHeader`, `LoadStatus`, `FetchPage`, `FallBack` | the start of a run, the resume, a page, the fall-back from an expired history to a snapshot |
| `StartPublish`, `WriteItem`, `RecordLine`, `DropItem` | an item: journal first, file, line; or dropped |
| `TurnPage`, `FinishWalk`, `PersistStatus`, `ReleaseUnpublished`, `RetireUnpublished` | checkpoint, the end of a walk, the status, and a run that published nothing taking its journal away |

A page has one item; an item's version is the position of the history it last
changed at. Runs that are over are told apart by nothing and collapse to `Over`. `Staying` has the
positions of the lines a compaction keeps, and `Survivors` those lines in their order. A
rebuild reads all files in one step, as what is said of a file does not depend on when
another was read. `lost` and `skipped` are history: files of a run that took its lease when a
rebuild no longer looked at it, and items the cursor moved past after
`MaxDropped` walks that dropped one (the code's `maxDroppedWalks` is 3, the run's 2).
`most` bounds the history, `MaxFaults` the crashes, failures and forgettings. Left
out: the age after which the lease of a live process is taken, suppression by the
governance ledger, limits and the account binding, deletions, calendars. An
expired page token that the service reports otherwise than by
`ErrIncrementalCursorExpired` would be retried for ever; the model's service
reports it.

### 3.5 `ShareImport`: a subscription on disk, which implements `Subscription`

| TLA+ | Code |
|---|---|
| `storage`, `import` | `share/storage.lock`, `import.lock` |
| `commits`, `gens` | the commit record of each sequence number, the generation directories |
| `attempt`, `claims` | `attempt.json` and `attempt.json.claim-<run>` |
| `bucket`, `Move` | external: the manifest the publisher advertises |
| `Sweep*` | what every run does first: list the generations and records the head superseded, remove them |
| `Recover*` | `RecoverClaims`: list the claims, look for a record (`RecoverStat`), put a lone claim back, remove the claims that were listed |
| `Start`, `Open`, `Fetch`, `Build`, `Fence*`, `Records`, `Link`, `Latch` | a pull: the attempt record, the manifest and its replay check, the generation, the two fences, the commit by link, the latch of the version |
| `Lost`, `Finish*` | losing the link to another; ending the attempt by claim, comparison and publication |
| `Heartbeat`, `Lapse` | a lease re-stamped; a suspension past its TTL |

A run's id names its generation, its attempt and its claims. `raced` is history: one
run acted between another's check and its act. `slept` is too: a living run was
suspended for longer than a lease's TTL. `Slow` are the runs that may be; a dead run's leases always get old.

`Subscription` is the promise: one manifest is served at a time; it is replaced as a
whole, under the next number, by what the last attempt found, unless that is older; a
repair serves again what was served; and fresh means that what is served is what was
found. `Served == INSTANCE Subscription WITH ...` reads it off the newest commit record (`Head`), the
manifest the last attempt opened and the health shown (`ReadsFresh`). Publication takes effect at
the link of the commit record; that a pull may die between it and the latch of
`LastVersion` in `shares.json` is why the replay floor comes from the records
(`share_gen.go:405`), and `ServesWhatItFound` notices when it does not. The promise is
given until a living run is suspended: its import, resumed, may be published though a
later attempt has begun.

That the record of the last attempt is kept (`AttemptIsKept`) is proved for any
suspension. The other safety properties and the refinement are proved until a living run
is suspended (`~ slept`), and then
without the escape that `raced` gives them. Beyond, the run `share_import` checks two runs and one suspension, and
section 4 has what fails beyond: `attempt.go:5-9` says that a stale completer cannot
replace a successor's record, which is so except between its claim and its
publication; with two suspensions the head's generation can be collected; with a
suspended pull, two repairs and a collection between a pull's read of the records and its
link, the pull links a number below the head. The recovery's refusal of more than one
claim (`RecoverStat`) needs three runs and is not reached. Left out: the publisher's side (two publishers race in
`PublishBucket` and `DeleteOrphans`), the folder transport, `share remove`, which
removes a subscription without a lease, and `shares.json`, which is read, changed
and written without one.

### 3.6 `Capture`, which implements `WriteOnce`

| TLA+ | Code |
|---|---|
| `res`, `census` | the reservation files under their lock, and a listener's counts of them |
| `pubs`, `ptrs`, `rcpts` | the publication record of a key, the pointer of a memory id, the receipt beside the record |
| `vault`, `staged` | the memory at an id, the proposals |
| `Admit`, `Lookup`, `Finish`, `Reserve`, `Backfill` | the request's way in: a stored answer, a published memory without one, the reservation, its takeover and the sweep |
| `Published`, `StillLive`, `Claim`, `Link`, `Pointer`, `Create`, `Rollback`, `Write`, `Verify`, `Receipt` | the write: the device and the policy again, the record by link, the pointer, the memory, the receipt |
| `Trim`, `Settle`, `Reply` | the cap on publications (after a receipt, and after a backfilled one, step "tidy"), the answer stored, the answer sent |

`WriteOnce` is the promise: a key makes one memory, the memory gets one receipt, and
an answer that says it was written is that receipt; only forgetting a key as a whole
takes any of it back. `Promise == INSTANCE WriteOnce WITH ...` reads it off the
vault, the receipt files and what the phone was told, and `KeepsThePromise ==
Promise!Spec` is checked as a property: every step of a listener is a step of the
promise or none. A key whose publication was trimmed over the cap counts as
forgotten (`trimmed`). The phone's requests under one key may be re-stamped, which
derives another memory id, and two keys may derive the same. Time is a
reservation's age, with bounds at `ReservationTakeover`, `PendingSweepAfter` and
`ReservationTTL`. Left out: the context and today routes, answer feedback, seen
stamps.

### 3.7 `Pairing`

| TLA+ | Code |
|---|---|
| `reg`, `audit`, `seed`, `marks` | `devices.json`, the receipts directory, `host.key`, `unrecorded-failures` |
| `PairBegin`, `PairSeed`, `PairCommit` | `mora companion pair`: the device's record, the seed (a failure may leave it written or not), the offer |
| `RevokeByHand`, `Lapse` | `mora companion revoke`; the clock that passes a pairing's deadline, or is set back before it |
| `Ask`, `Budget`, `Retry`, `Clear`, `Confirm`, `Count`, `Mark`, `RevokeSpent`, `Grant` | the confirmation route: the budget, the counts still owed, the comparison, the count, the mark when counting fails, the revocation, the token |

A change of the registry is under its lock and is one step; what the route decided
from one step may be stale at the next. A write that fails may have renamed its file
into place all the same (`CommitFails`). `minted`, `tries`, `held` and `lost` are
history.

### 3.8 `Update`: how a bundle is replaced

| TLA+ | Code |
|---|---|
| `app`, `stage[p]`, `kept` | the bundle at the application's path, the one in a process's staging directory, those in directories nobody will remove |
| `lease`, `receipt` | `update.lock`, the apply fields of `status.json` |
| `index` | the version whose schema the index has; `Open` is the rebuild that any read by another schema starts |
| `Acquire` ... `Release` | `runUpdateCheck` and the unattended apply: check, attempt saved, staging, fence, swap, verification, rebuild, health, swap back, repair, receipt, clean-up |
| `Manual*` | `appupdate.Run`, which takes no lease, verifies after its swap and asks for no health |

A bundle is its version, and verification compares versions; it may also fail for
reasons of its own. `Prepare` joins the reads and the staging before the fence in
one step, because the fence repeats the reads. A rebuild that fails may have
committed. `Bad` releases verify and launch but fail strict health. `accepted`, and
`found` in a process's memory, are history. `Overlap = FALSE` says that a
manual upgrade is not in progress with another upgrade. The lease's two hours
outlast every live holder (a slower apply could claim an update that another
rolled back and overwrite its receipt); a dead holder's is reaped. Left out: the
standalone binary's updater, notifications and policy, signatures, and an old
long-running process that rebuilds the index back to its own schema. By design a
version this host could not write is not tried again, and an installed release that
fails strict health defers every later one: `LatestArrives` says both.

### 3.9 `Retention`

| TLA+ | Code |
|---|---|
| `reports`, `manifests` | `retention/reports/<id>.json`, `retention/recovery/<id>.json` |
| `vault`, `version`, `outputs` | the memories' files, what connectors fetched last, the summaries that compaction wrote |
| `prunes`, `marks`, `rows`, `writer` | the ledger's prune entries, the hashless delete markers, the committed index, its write transaction |
| `BuildReport`, `Decide` | `buildRetentionReport`, `decideRetentionCandidate` |
| `Execute`, `Snapshot`, `Recheck` | `executeRetentionReport` up to its first change: the checks, the manifest, the second look at every file |
| `Parse`, `Mark`, `Write`, `Output`, `Append`, `Hash`, `Unlink`, `ToRebuild`, `Unmark` | a candidate, and the end of an execution |
| `Recover`, `Restore`, `LoadLedger`, `Revoke`, `Revoked` | `recoverRetentionManifest` |
| `StartJob`, `Begin`, `List`, `Commit`, `Retire` | a rebuild: the one that ends a command, and the index job's |
| `Sync`, `Expire`, `Stop` | a connector's write, the end of a recovery window, a command that fails or dies |

A file is what a connector fetched and its class, and its hash is its contents. A
manifest's id is its report, its targets and the second it began in, as the code
derives it; `Second` says which executions share one. The ledger's lease excludes, as `Governance`
shows, so what is under it is one step. The rebuild's listing and reading are one step,
as what is said of a memory does not depend on when another was read. `removed`,
`gone` and `cut` are history. `Mark` leaves a marker or none, whatever the reason
`markIndexDirty` had.
A recovery refuses a manifest for its age, for an entry that is not as reviewed and for
a target's file that holds something else (`InTheWay`); `Acceptable` says of a manifest that
nothing but the first and the last can be in the way. `Overlap` says whether two retention commands run
beside each other, `Ungoverned` whose files somebody edits without asking the
ledger; the run has neither. The index exists; summaries are not searched. Left
out: the audit file, the integrity report after a recovery, the encryption.

## 4. The runs

| Run | Bounds | Question and result |
|---|---|---|
| `ledger_crash` | 3 processes with roles of their own, 1 memory, 2 contents and a garbled one, 1 fault, symmetry of contents | From no index on: is a clean memory indexed, a refreshing one searchable, a deleted one not served, but for what was changed unmarked and not read by a rebuild since, and is a live delete's marker safe? Yes. |
| `ledger_live` | 2 processes that both rebuild, 2 memories, 1 fault, fairness | Listing and parsing memory by memory, do the markers of the dead eventually retire? Yes. |
| `retention` | 1 process, the index job, 3 memories (one too young for a report, one hidden as history), 1 report, 2 executions, 1 rewrite of a memory, 1 interruption, an end of the recovery window, fairness; `Cases` picks what happens together | Is what an execution takes in a manifest that only its age or a written target keeps from being recovered, does something current remain, does it stay gone, does a repeated recovery bring it back? Yes. |
| `loop_once` | 2 processes, 2 periods, 6 run ids, 2 faults, symmetry | At most one effect per period, evidence kept, closed runs stay closed. Yes. |
| `loop_live` | 2 processes, 1 period, 1 fault, fairness | A leaked lease goes. Yes. |
| `governance` | three crews of 2 processes (sync beside forget and unforget; sync and rebuild beside forget; decisions beside their undo), a conversation and its attachment, 2 entries, 4 markers, 1 fault | Nothing forgotten is written or survives unowed, no entry is lost, what was removed is hidden unless it was not marked. Yes. |
| `source_sync` | 2 runs and 1 rebuild on a history of 2 changes, or 2 runs on one of 4 with an item that may never be written; 1 fault; fairness | Is the index never falsely clean but for late runs, the cursor honest, the journal of a dead run cleared, the vault caught up? Yes. |
| `share_import` | 2 runs (a pull beside a pull, a repair or a collector; two repairs), 3 manifests, two of one version, 1 lease of either that gets old while it lives or after, 1 move of the bucket, 1 fault, retain 0, fairness | Is the head's generation there, no version rolled back, the last attempt kept, fresh only when current, each publication as one step (`Subscription`), and does an undisturbed pull bring the subscription back? Yes. |
| `capture` | 2 listeners and a re-stamped capture with 1 fault, or two captures that collide on one id; 1 listener and a device that may be revoked; ages to 2, one pending reservation, symmetry | One memory per key, the promise of `WriteOnce`, and nothing written after a revocation. Yes. |
| `capture_live` | 1 listener, every policy and one change of it, 1 repeat, 1 fault, fairness | A repeated capture is answered. Yes. |
| `pairing` | 2 invocations, 1 device, 1 listener, a budget of 2, 3 faults, fairness | One credential, a true audit, a budget that holds, settled devices stay settled and no burned, late or spent pairing opens, a spent pairing ends. Yes. |
| `update` | 2 scheduled applies and 1 manual upgrade, releases 1 to 3 of which 2 is bad, 2 faults, fairness | Is an accepted bundle on disk, a receipt true whichever way the apply ended, no accepted version undone, and does the last release arrive? Yes. |

Why the bounds are enough for what the runs are asked. The arguments of the code
are about a pair (two processes on one lease, one rebuild and one marker) and one
interruption, so two or three processes with one or two faults contain every pair and
every order of their steps. Two memories are needed where a rebuild visits
memory by memory, and where one file speaks for another (the attachment). Two
contents tell a parsed version from a rewritten one. Two periods tell the current
period's record from the previous one. A begin that finds every run id mentioned
waits; with six ids no reachable state leaves every process waiting (deadlock is
checked there). Two entries let one save drop the other's. A history of four
changes to two items is long enough for a resumed walk, a second walk and an item that is given
up; three manifests tell a new version from another of the same version. Six
receipt ids are more than two listeners and one answer file can mention at once.
Three releases with a bad one in the middle let an apply fail health and a later
one succeed.

Deadlock is not checked in the ledger, retention, governance and share runs. There a state
without successor is one where the bound is used up: every process has ended or
died, or no id is left that nothing mentions. The other passing runs check it.

Symmetry is used only in `loop_once`, `capture` and `ledger_crash`, whose properties are about safety:
processes, or parseable contents, that differ in name alone.

### Fairness

`ledger_live` assumes that a running process keeps running (weak fairness of a
caller's and a rebuild's next step), that SQLite's busy handler eventually lets a
waiting rebuild in (strong fairness of `Begin` and `SelfMark`, which others can
disable again and again), and that the scheduler starts the index job again, in a
new process when the last one died. No fairness is assumed of writes, deletes or
faults. `loop_live` assumes that the loop is triggered again and again and that a
process that waits for the guard gets it (strong fairness of a process's next
step), and that the TTL passes.

`source_sync` assumes that a run that began goes on and that somebody rebuilds the
index again and again; not that runs start, so `CatchesUp` says "if runs keep
coming". `share_import` assumes that a process that runs goes on. `capture_live` and
`pairing` assume that the listener is kept running (its job is registered to be)
and finishes what it serves, that time passes, and that the phone repeats what it has no
answer to, or somebody keeps guessing; the last is strong fairness, since a busy
listener refuses a request. `retention` assumes
that a command that runs goes on, that SQLite lets a waiting rebuild in, and that
somebody repeats a recovery while it can be made. `update` assumes that running processes go on, that
releases come, and that one schedule keeps firing and gets the lease now and then
(strong fairness of `Start` and `Acquire`, which another process can disable).

### Disagreements that a constant brings back

The passing runs rest on assumptions, and each assumption hides something that a
sentence of the repository denies. Every line was checked with TLC: take the run's
configuration, change it as told, and the property fails.

| Change | What is violated | Sentence |
|---|---|---|
| `ledger_crash` with `Overlap = TRUE` | `DeletedNotServed`: a late upsert puts a deleted memory's row back (`index_upsert.go:261`) | `mora/mcp.go:938-940`: serving deleted content is impossible |
| `ledger_crash` with `NeverCleanAndMissing` over `Ids` instead of `Ids \ unmarked`, `MaxFaults = 0` | the same invariant: a first write beside the first rebuild (`pending.go:317`) | `docs/architecture/15-concurrency-contract.md:362-364`: never "clean and missing" |
| `ledger_crash` with `StartReady = TRUE` and the same change | the same invariant, and with it `RefreshingIsCurrent` and `DeletedNotServed`: the readiness probe fails and the mutation goes on unmarked (`pending.go:310`) | the same; `index/pending.go:311-313`: a state "already reported as failed", which it is only as long as the probe fails |
| `governance` with `RemovedIsHidden` over `rows` | the same invariant: a forget removes a file unmarked and the index still serves it | `mora/mcp.go:938-940`: serving deleted content is impossible |
| `retention` with `ServedIsThere` | the index job's rebuild retires the hashless marker, and the row of a removed file is served until the execution's own rebuild (`retention_workflow.go:489`) | `mora/mcp.go:938-940`: serving deleted content is impossible |
| `retention` with `CleanIsIndexed` | a class is changed after the job's rebuild has read the file and before it retires the marker; the execution dies | `docs/architecture/15-concurrency-contract.md:362-364`: never "clean and missing" |
| `retention` with `ManifestRestores` | a manifest with a change-class target is refused as a whole: the target no longer is what was reviewed (`retention_workflow.go:688`) | `retention_workflow.go:356`: the manifest "covers all targets" |
| `retention` with `Procs = {p1, p2}`, `Overlap = TRUE`, `Second <- AtOnce`, `Bounds <- Beside` | `RemovalIsRecoverable`: two executions of one report in one second share a manifest, and one that aborts removes the other's | `retention_workflow.go:356`: the same |
| `retention` with `Ungoverned = {1}` | `RemovalIsRecoverable`: an edit between the hash and the removal goes with the file | none; the comment at `retention_workflow.go:324` admits the window |
| `loop_once` with `JournalHonest` as an invariant | both terminal lines for one run (`loop.go:709`) | `loop/loop.go:703-704`: one synthetic failed terminal, "so the journal stays honest" |
| `loop_once` with `Slow = {"lease"}` | `AtMostOncePerPeriod`: the effect twice (`loop.go:719`) | `loop/loop.go:672-674`: the gate under the lease closes the read-before-acquire race |
| `governance` with `FreshKnowsDecisions` | fresh, with a changed ledger: another rebuild retires the mark of a decision it has not read (`pending.go:208`) | `mora/merge_cmd.go:301-303`: a crash must leave the index dirty, never fresh with a changed ledger |
| `source_sync` with `CleanIsIndexed` and `Bounds <- OnlyRaced` | the index reads clean without a published file | `ingest/recovery.go:28-33`: a line inside the size read proves that the listing saw the publish, and a live ingest is left out |
| `share_import` with `MaxLapses = 2` | `PublishedStands`: a collector, suspended after it looked for a live importer, goes on when its successor has built; the successor's generation, grown old meanwhile, is removed and then published | `sharing/gc.go:16-19`: never touching the published head |
| `share_import` with four runs (a pull, two repairs, a collector), `Slow = {r1}`, no faults or moves | `PublishedStands`: the pull, suspended before its link, links a number that a collection has freed, below the head, and reports success; with the code's `GenRetain` of 3 it takes three commits more | `mora/share_gen.go:375-377`: a reaped holder aborts rather than publishing over its successor |
| `share_import` with `StaleNeverReplaces` | an ended attempt's record replaces its successor's | `sharing/attempt.go:5-9`: a stale completer cannot |
| `capture` with `RejectedIsNotInVault`, faults and a change of policy | a rejection for what is in the vault | `companion/capture.go:459-462`: a rejected receipt claims that the capture will never be applied |
| `capture` with `Fallible = {"create"}` | `OneMemoryPerKey`: two listeners and a re-stamped capture; a claim given up halfway takes back the record under which the other listener has written (`companion_http.go:1529`) | none: the code's one listener per state directory is a convention |
| `capture` with two listeners and three captures, two of one key and two of one id, no faults | `OneMemoryPerKey`: the same, as the id's owner refuses the claim | none |
| `governance` with two processes that forget, one that unforgets and syncs | `RemovedIsHidden`: a rebuild that listed the vault while the file was gone retires the marker of a second removal whose owner died (`pending.go:244`) | `index/pending.go:230-233`: a live deleter's marker is kept; the dead one's removal is later than the listing |
| `update` with `Overlap = TRUE`, `Last = 2`, `Bad = {1}`, `MaxFaults = 0` | `AcceptedIsOnDisk`: no accepted bundle is left | `docs/architecture/10-distribution-and-ops.md:310-311`: the old bundle leaves the staging directory only after success |

Two of the traces in words. `CleanIsIndexed`: a rebuild finds no live lease; then a
run takes the lease and makes its journal, before the rebuild's `Stat`; the rebuild
lists the vault; the run publishes a file and is killed before its line. The
rebuild's compaction finds the journal it saw, without lines and with a dead run's
header, and removes it. The index reads clean without the file, until the item
changes again.

`AcceptedIsOnDisk`: an unattended apply swaps a release in and its health fails.
Meanwhile `mora upgrade`, which takes no lease, swaps its own staged bundle in; the
unattended apply swaps back, which leaves the old bundle in the path's place; the
manual verification fails on it and swaps back without verifying. The rejected
release is installed, the old one is in the manual staging directory, and the
deferred removal deletes it.

## 5. The proofs

TLAPS proves these for every value of the constants that satisfies the modules'
assumptions.

| Module | Theorem | Statement |
|---|---|---|
| `PendingLedgerProofs` | `TypeCorrect` | `Spec => []TypeOK` |
| | `LInvHolds` | what a decision about a marker rests on stays true until it is taken |
| | `LiveDeleteMarkerStays` | `Spec => LiveDeleteKeepsMarker` |
| | `MarkersStandFor`, `NeverCleanAndMissingHolds`, `RefreshingIsCurrentHolds`, `DeletedNotServedHolds` | under `StartReady` and `~ Overlap` |
| `LoopRunProofs` | `TypeCorrect`, `ClosedStaysClosed` | types; a closed record stays, also with slow begins |
| | `EffectAtMostOnce`, `EffectStaysCurrent`, `EvidenceStays` | under `Slow = {}` |
| `GovernanceProofs` | `TypeCorrect` | types, however long a lease is held |
| | `ForgottenOwed`, `ForgottenStaysOut`, `KeepsEntries` | under `Slow = {}` |
| | `RemovedStaysHidden` | under `OneForgets`, however long a lease is held |
| `CompanionProofs` | `PairingTypeCorrect`, `SettledCorrect`, `OneCredentialCorrect`, `AuditIsTrueCorrect` | for any number of listeners and invocations |
| | `BudgetCorrect` | for one listener, which `BudgetHolds` itself says, as does the last clause of `SettledStaysSettled` |
| | `CaptureTypeCorrect`, `RevokedIsOut` | for any number of listeners |
| | `OneMemory`, `PromiseKept` (the refinement of `WriteOnce`) | under `Apart` |
| `SourceSyncProofs` | `SourceTypes` | `Spec => []TypeOK` |
| | `CleanIndexIsRight` | `Spec => []NeverFalselyClean` |
| | `CursorSaysWhatIsThere` | `Spec => []CursorIsHonest` |
| `UpdateProofs` | `UpdateTypeCorrect` | types, however upgrades overlap |
| | `AcceptedStaysOnDisk`, `SuccessesAreProved`, `FailuresAreTrue`, `AcceptedNotUndone` | under `~ Overlap` |
| `RetentionProofs` | `RetentionShaped` | types and what each command has in hand, under `~ Overlap` |
| | `CurrentMemoryRemains` | under `~ Overlap`, if a current memory is there to begin with (`Starting`) |
| | `DoneIsGone` | under `~ Overlap` and `Ungoverned = {}` |
| | `RemovedIsRecoverable` | under the same and `Distinct`: one execution a second |
| `ShareImportProofs` | `ShareTypeCorrect`, `AttemptAlwaysKept` | whatever is suspended for however long |
| | `PublishedHolds`, `LatestAttemptHolds` | until a living run is suspended past its lease, raced or not |
| | `ImplementsSubscription` (the refinement of `Subscription`) | until then |

**PendingLedger.** `LInv` strengthens the types with three facts: a worker that
has not marked has no marker and is in no snapshot, an operation a snapshot saw
finished is finished, and an owner seen dead is dead. The action property follows:
only `Decide` touches another worker's marker, and `deleteCovered` keeps one whose
owner is neither finished nor dead.

The three safety invariants are consequences of `SInv`, which relates a rebuild's
snapshot to every step since it was taken. `BeforePublish` and `AfterPublish` say what
a rebuild that listed or parsed a memory before, and after, a write was published can
still do to it; `BeforeRemove` the same for a delete. `Owed` then says that
whenever the rows or the projections of a memory are behind its file there is an
operation whose marker is there and is not about to be retired, by no rebuild that has
taken its snapshot (`Owes`), and `OwedDelete` that a row whose file is gone has a
delete marker with the same future. All of them but for the memories in `unmarked`, which is why a
write or a removal about to happen has its marker or is in it. Two conditions are used:
one operation at a time on a memory (`~ Overlap`, the per-memory lock), which is needed
(section 4), and an index that was ready before (`StartReady`), which keeps the argument
to one case; a cold start is only model-checked (`ledger_crash`).

**LoopRun.** That the effect happens at most once is not inductive. `IInv` adds
who may write (`Own`, `Holding`: a begin from its acquisition to its save has the
lease, under a run id nobody else has), what is on record (`Evidence`: a performed
effect has a record that says so, or a damaged one, which no gate passes), and what
a passed gate means (`Clean`, `Blank`: the period the gate passed for has no effect
and no evidence). `Slow = {}` is needed exactly where a begin that outlives its
lease performs the effect twice.

**Governance.** `IInv` says that the lease excludes (`Excluded`: whoever is inside
the critical section is its unexpired holder), and therefore what was read under it
is still true when it is used: `Current` (the ledger loaded is the ledger on disk
until the save), `Judged` (what passed the check is not suppressed when it is
written), `Scanned` (no match appears between the scan and the append), `Emptied` (a
process that gives the lease back and goes on to anything but removals owes none).
`StillOwed` then follows a removal through release, removal and stamp.
`Slow = {}` is needed because nothing renews the 30-second lease: a holder that
outlives it can be reaped and then `Excluded` fails. `TypeCorrect` does not need it.

That a removed memory stays hidden does not rest on the lease. Its invariant, `Kept`,
follows a delete marker from its creation. `Armed`: while a forget still has a memory to
remove, the file is there and its marker is not ticked off, and every rebuild that
noted the marker listed the file - so `deleteCovered` spares it
even once the owner is dead. `Traced` gives the identity of a marker between a snapshot
and the ledger (an id is never minted twice), `MarksOwned` and `Jotted` say which steps have markers
and snapshots at all. `Hidden` and `WillBeHidden` carry the marker past the removal: a memory
without a file that an index shows, or that a rebuild is about to commit, has a marker
that no rebuild about to retire markers will drop. The memories that went on unmarked are
left out of these, and only the commit of a rebuild takes one back (`UnmarkedGrows`). `Moves` sorts every
step into five ways of changing markers, so that each part needs five arguments and not
thirty. `OneForgets` is needed: the process that lists and the process
that removes again must not be two forgets of one memory (section 4).

**Pairing.** `Typed` is the types and that a route past "idle" serves a request. `Moves` says
how a step can change a device's record at all, from which `SettledStaysSettled` follows but for
its last clause, that with one listener a spent pairing does not open, which `Budgeted` gives: a
route that compares codes found the budget unspent. `Credential` adds what is true between the
registry, the seed and the audit: a token was minted only by the step that spent the code, the
fingerprint an invocation carries is the seed's, and each audit row has its record. `Budgeted`
relates three counters: the registry's count is behind the wrong codes compared by exactly what
is still owed - a mark, a latch, or the step the route is at - and what a crash forgot; a guess
is compared only when nothing is owed and the budget is not spent. With one listener the bound
follows.

**Update.** `IInv` has three parts besides the types and the invariants themselves.
`Excluded`: who is inside an apply has the lease, and a manual upgrade is alone.
`Knows(p)`: what the step of a process says of the bundles. Before the swap, and after a
swap back, the old version is installed and the new one staged; between the two it
is the other way round, and nothing accepted is newer than what was installed before; and
what is about to be saved is true. `Newest`: nothing accepted is newer than what is
installed, which is why a plan is never an accepted version and swapping it away
loses nothing. By `Excluded`, a process that is not the one that steps is outside and
knows nothing that a step could change (`KnowsOthers`). `~ Overlap` is needed where
section 4 shows it.

**Retention.** `Shaped` says what each command has in hand at each step: its report is
the one it judged, its manifest was sealed before its first change, and the index job
never changes a file. `Surviving` adds a witness for `CurrentRemains`: a memory that the execution will not
touch, or whose summary it has written or will write, and which `validateRetentionReport`
saw current. `GoneInv` says that what is gone is suppressed and pruned, that no rebuild past its listing still
has it, and that no command but a recovery, which revokes first, can write it. `Kept` is about versions: a file
is never newer than the connector's last fetch, a manifest seals the reviewed version
unless a newer file makes the execution refuse it at its second look, and what
was removed is in a sealed manifest whose second nobody shares; every entry of a sealed manifest is as reviewed, which is all
that `Acceptable` asks of it. Each condition is one that
section 4 shows to be needed.

**Capture.** `Shaped` is what a listener has in hand; `LateIsOut` in it gives
`RevokedIsOut` (a key reserved after the revocation goes past no `stillLive`). `Truthful` says
that every record belongs to its key and that an answer "applied" is the receipt beside
the record and the memory. `Held` is the ownership argument: a memory in the vault has the
publication record of its capture, and a listener between its claim and its receipt has that
record. It is preserved by everybody else's rollback only under `Apart`: one listener, or
no two ids alike and no claim that can fail halfway, or a phone that never re-stamps.
The refinement maps a state of `Capture` to `WriteOnce` by what is in the vault (`Wrote`),
the receipts (`Receipted`) and the answers given (`Heard`); `PromiseKept` proves that `Init`
maps to its `Init` and every step to a write, a receipt, an answer or a stutter.

**SourceSync.** Three invariants, none of which needs a condition on runs, rebuilds or
faults. `Typed` adds to the types that only the run that has the lease is in its walk
(`OneRun`) and what each step has in hand (`Sane`): cursors and tokens point at what
exists, a walk of the history began at the cursor on disk, a walk of the mailbox has a
baseline from its first page.

`Clean` is about where a difference between index and vault is written down. There is a
journal whenever something is stale in the index, or in the index that the rebuild with the
write lock is making (`Dirty`, `NoneStale`). That alone is not inductive, as a compaction
removes the journal: `LookersSeeIt` says that of a rebuild that will compact the file it saw, either the
journal has grown past the size it saw, and the later lines stay whatever the listing
says, or nothing is stale. `RetiringHasLines` and `Own` say the same of a run that takes
its journal away: nothing is stale, or others have written lines into it. `Own` also
says where the hole is that `lost` records: a run that
took the lease when no rebuild or retirement would compact without looking at it again has a
journal from its header on, and one that came later may lose it. What a
compaction leaves (`SurvivorsAre`: later lines stay, so the journal stays if it grew) needs
that the nth line of the survivors exists, which follows from the least-number principle
(`Ranks`).

`Kept` is about versions. A cursor `n` claims the version of each item at `n`
(`Honest`); a status with a page token claims the items before it at the walk's
baseline, or the positions of the history before it (`Covers`), for what the walk did not drop;
a run with a page claims the same up to the page's end but for the page's item
(`Ahead`). Turning the page makes the third claim the second, finishing the walk makes
it the first, and fetching goes back from either to the third (`FetchPageKept`, the core).
A claim is broken only by a write of an older version: `Timely` says that a page in
hand was fetched after every cursor, baseline and token that disk or run knows, so that
writing it keeps all claims (`HandledKept`). An expired history makes the claim of its
token void, as such a walk is given up (`FallBackKept`); that is why a walk of the history has the
cursor of the status on disk. Once too many walks have dropped an item the cursor
moves past it, and `skipped` gets exactly what is `missed`.

**ShareImport.** `Sound` holds whatever is suspended. `Ordered` is about numbers: the
head's number only grows, by one for each run that got past its link, which bounds it; what a collector
drops is below it, and a number about to be linked is at most the next. `Kept` says that a
claim belongs to a run that will claim no more, and that while there is no record
some claim is neither about to be removed by its owner nor listed by a recovery that
found a record. From it `AttemptAlwaysKept` follows without any lease.
`Calm` adds what the leases give when runs keep them (`Alone`: whoever works has
the storage lease, unexpired; only a dead run's lease gets old). Then what a run has
prepared is still so when it acts (`Prepared`: the head is not among what it collects,
the number it links is the next and its floor no lower than any committed) and what it
knows of the record is still so (`Recorded`: the record, or the one claim, is its own and
as it began it; what it will publish confirms the head only if the head is what it opened).
`HeadStands` and `RecordStands` are the first two theorems' content.
`ImplementsSubscription` maps a run's link to a publication or a repair, its start and its opening to
`Begin` and `Find`, and everything else to a verdict or a stutter; it needs from `Prepared` that a
repair still holds the head's source and from `Recorded` that nothing was opened before the run's own opening. Nobody disturbs these
by `Alone`: an actor that is not the one that works only takes a free storage
lease, or writes `LastVersion` after its leases are gone. The condition is needed where
section 4 shows it, and that no living run is suspended past its lease is what the heartbeat
goroutine is for. `Awake`, the invariant of these theorems, is `Sound` and, until then, `Calm`.

**Only model-checked.** Liveness (`OrphansRetire`, `LeakedLeaseGoes`, `SpentIsRevoked`,
`RepeatedIsAnswered`, `PullRefreshes`, `KilledRunNeverPins`, `CatchesUp`,
`LatestArrives`, `RecoveryCompletes`), as fairness and `ENABLED` are outside the prover's reach.

### Corners met while modelling, which no run states

* Two listeners: one's rollback of a write may remove the other's publication record
  (`companion_http.go:1529`); a sweep of stale pending reservations that works from
  memory deletes one another listener has made anew (`idempotency.go:885`); a wrong
  code counted by one may be lost to the other, and a revocation for a spent budget
  can end a device the other has just confirmed.
* A policy of `propose`, retried after a crash, stages a second proposal
  (`mcp_policy.go:64`). A rejection answered after a policy change can be false
  (`RejectedIsNotInVault` in `Capture`; `capture.go:445` says it never is).
* `MaxDevices` counts revoked devices (`registry.go:374`). A crash between a refused
  code and its count loses the count (`lost`).

## 6. What is not modelled

`PROJECT.json` lists every component with the reason. In short: readers of external
services and decoders are I/O around the resume protocol of `SourceSync`; ranking,
formatting and text matching are pure functions on real numbers or text; settings
files and OS job definitions belong to other programs; and
the operation receipts, the source run's child processes, the publisher of a
share and the brief's watermark are planned in section 2.

The modules cover the protocols, not the bulk of the repository. Most of its 88,000
lines parse arguments, decode formats, rank, render and report; what they have in
state transitions goes through the files modelled here.
