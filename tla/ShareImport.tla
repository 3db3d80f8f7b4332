----------------------------- MODULE ShareImport -----------------------------
(***************************************************************************)
(* A subscription to a shared corpus, as its imports leave it on disk.     *)
(*                                                                         *)
(* A pull writes a new generation of its own and publishes it by linking   *)
(* the next commit record; a repair re-cuts the published generation; a    *)
(* collector removes what the head superseded.  Pulls and repairs hold the *)
(* storage lease and then the import lease, a collector only the first.  A *)
(* lease that is not re-stamped may be taken over, so a run that was       *)
(* suspended may go on beside its successor.  A step is one operation on   *)
(* one file, or a scan of one directory.                                   *)
(*                                                                         *)
(* A run's id names its generation, its attempt record and its claims.     *)
(* Time is what has become older than the leases' TTL.                     *)
(***************************************************************************)
EXTENDS Naturals, FiniteSets

CONSTANTS
    Runs,        \* run ids
    Origin,      \* the run that made the subscription
    Crews,       \* bound: what each run is
    Manifests,   \* what the bucket may advertise
    Advertised,  \* bound: what it advertises at first
    VersionOf,   \* the signed version of each
    First,       \* the manifest the subscription was made from
    None,
    Retain,      \* GenRetain
    Slow,        \* the runs that may be suspended past a lease's TTL
    MaxLapses,   \* bound on leases that get older than the TTL
    MaxMoves,    \* bound on changes of the bucket
    MaxFaults    \* bound on crashes, failed operations and damaged indexes

Kinds == {"pull", "heal", "gc", "absent"}

ASSUME ShareAssumption ==
    /\ Origin \notin Runs /\ None \notin Runs \cup {Origin} \cup Manifests
    /\ IsFiniteSet(Runs)
    /\ Crews \subseteq [Runs -> Kinds]
    /\ VersionOf \in [Manifests -> Nat \ {0}] /\ First \in Manifests
    /\ Advertised \subseteq Manifests
    /\ Retain \in Nat /\ Slow \subseteq Runs
    /\ MaxLapses \in Nat /\ MaxMoves \in Nat /\ MaxFaults \in Nat

VARIABLES
    kind,      \* what each run is
    storage,   \* share/storage.lock
    import,    \* import.lock
    commits,   \* the commit record of each sequence number
    gens,      \* the generation directories
    attempt,   \* attempt.json
    claims,    \* attempt.json.claim-<run>
    last,      \* LastVersion in shares.json
    bucket,    \* the manifest the bucket advertises
    step,      \* what each run is about to do
    my,        \* what each run carries from one step to the next
    latest,    \* history: the run that started its attempt last
    opened,    \* history: the manifest that run opened
    top,       \* history: the highest version committed
    raced,     \* history: a run acted between another's check and its act
    slept,     \* history: a living run was suspended for longer than the TTL
    lapses, moves, faults

vars == <<kind, storage, import, commits, gens, attempt, claims, last, bucket, step, my, latest,
          opened, top, raced, slept, lapses, moves, faults>>
leases == <<storage, import>>
record == <<attempt, claims, latest, opened>>
published == <<commits, gens, top>>
world == <<kind, bucket, slept, lapses, moves, faults>>

Owners == Runs \cup {Origin}
Seqs == 1..(Cardinality(Runs) + 1)
Versions == {VersionOf[m] : m \in Manifests}
Commit == [run: Owners, source: Manifests, floor: Versions]
Attempt == [run: Owners, state: {"active", "succeeded", "failed"}, seq: {0} \cup Seqs, verified: BOOLEAN]
Lease == [run: Runs, stale: BOOLEAN]
Generation == [old: BOOLEAN, whole: BOOLEAN]

Place == [seq: Seqs, floor: Versions]

\* None is no record.
ASSUME NoneAssumption == None \notin Commit \cup Attempt \cup Lease \cup Generation \cup Place

Steps == {"begin", "import", "owner", "scan", "sweep", "forget", "recover", "record?", "restore",
          "tidy", "attempt", "open", "fetch", "build", "storage?", "import?", "records", "link",
          "latch", "finish", "claim", "compare", "publish", "return", "clean", "leave import",
          "leave storage", "remember", "done"}
\* The steps before which a run has checked what it is about to rely on: that
\* its leases are its own, that the attempt record is.
Guarded == {"import?", "records", "link", "claim", "compare", "publish", "return"}

\* seen: the manifest opened, or the repaired head's; floor: a repair's parent's;
\* known: LastVersion when the run began; owner: the live importer a sweep saw;
\* gone, dropped: what it will remove; debris: the claims its recovery listed;
\* next: the commit it will link; bytes: the record its finish observed;
\* result: how the attempt ends.
Carried == [seen: Manifests \cup {None}, floor: {0} \cup Versions, known: Versions,
            owner: Runs \cup {None}, gone: SUBSET Owners, dropped: SUBSET Seqs,
            debris: SUBSET Runs, next: Place \cup {None},
            bytes: Attempt \cup {None}, result: Attempt \cup {None}]
Nothing == [seen |-> None, floor |-> 0, known |-> VersionOf[First], owner |-> None,
            gone |-> {}, dropped |-> {}, debris |-> {}, next |-> None, bytes |-> None,
            result |-> None]

Linked == {s \in Seqs : commits[s] # None}
Highest(s) == \A t \in Linked : t <= s
\* Resolve picks the highest commit record.
HeadSeq == CHOOSE s \in Linked : Highest(s)
Head == commits[HeadSeq]
Intact(run) == gens[run] # None /\ gens[run].whole
Floors(low) == {low} \cup {commits[s].floor : s \in Linked}
MaxOf(set) == CHOOSE x \in set : \A y \in set : y <= x

Ended(r, state, seq, verified) == [run |-> r, state |-> state, seq |-> seq, verified |-> verified]

Init ==
    /\ kind \in Crews
    /\ storage = None /\ import = None
    /\ commits = [s \in Seqs |-> IF s = 1 THEN [run |-> Origin, source |-> First,
                                                floor |-> VersionOf[First]] ELSE None]
    /\ gens = [g \in Owners |-> IF g = Origin THEN [old |-> FALSE, whole |-> TRUE] ELSE None]
    /\ attempt = Ended(Origin, "succeeded", 1, FALSE)
    /\ claims = [r \in Runs |-> None]
    /\ last = VersionOf[First]
    /\ bucket \in Advertised
    /\ step = [r \in Runs |-> IF kind[r] = "absent" THEN "done" ELSE "begin"]
    /\ my = [r \in Runs |-> Nothing]
    /\ latest = Origin /\ opened = First /\ top = VersionOf[First]
    /\ raced = FALSE /\ slept = FALSE
    /\ lapses = 0 /\ moves = 0 /\ faults = 0

-----------------------------------------------------------------------------
(* Leases.                                                                  *)

Goto(r, s) == step' = [step EXCEPT ![r] = s]
Free(lease) == lease # None => lease.stale
Holds(lease, r) == lease # None /\ lease.run = r
\* verifyShareLeaseOwner
Owns(lease, r) == Holds(lease, r) /\ ~ lease.stale

\* MUTANT of AcquireStorage: a lease is never reaped.
AcquireStorageNeverReaps(r) ==
    /\ step[r] = "begin" /\ storage = None
    /\ storage' = [run |-> r, stale |-> FALSE]
    /\ my' = [my EXCEPT ![r].known = last]
    /\ Goto(r, IF kind[r] = "gc" THEN "owner" ELSE "import")
    /\ UNCHANGED <<import, record, published, last, world>>

\* acquireStorageLease: published, or a stale one reaped.  The subscription was
\* read from shares.json before.
AcquireStorage(r) ==
    /\ step[r] = "begin" /\ Free(storage)
    /\ storage' = [run |-> r, stale |-> FALSE]
    /\ my' = [my EXCEPT ![r].known = last]
    /\ Goto(r, IF kind[r] = "gc" THEN "owner" ELSE "import")
    /\ UNCHANGED <<import, record, published, last, world>>

AcquireImport(r) ==
    /\ step[r] = "import"
    /\ \/ /\ Free(import)
          /\ import' = [run |-> r, stale |-> FALSE]
          /\ Goto(r, "owner")
       \/ /\ ~ Free(import) \* the wait is bounded
          /\ Goto(r, "leave storage")
          /\ UNCHANGED import
    /\ UNCHANGED <<storage, record, published, last, my, world>>

\* The heartbeats stop, and a lease that is still this run's is removed.
LeaveImport(r) ==
    /\ step[r] = "leave import"
    /\ import' = IF Holds(import, r) THEN None ELSE import
    /\ Goto(r, "leave storage")
    /\ UNCHANGED <<storage, record, published, last, my, world>>

LeaveStorage(r) ==
    /\ step[r] = "leave storage"
    /\ storage' = IF Holds(storage, r) THEN None ELSE storage
    /\ Goto(r, IF my[r].result # None /\ my[r].result.state = "succeeded" THEN "remember" ELSE "done")
    /\ UNCHANGED <<import, record, published, last, my, world>>

-----------------------------------------------------------------------------
(* Sweep.                                                                   *)

\* liveImportOwner
SweepOwner(r) ==
    /\ step[r] = "owner"
    /\ my' = [my EXCEPT ![r].owner = IF Free(import) THEN None ELSE import.run]
    /\ Goto(r, "scan")
    /\ UNCHANGED <<leases, record, published, last, world>>

\* The head and the newest records below it are kept, with their generations;
\* of the rest, committed ones go, and uncommitted ones that are old and not the
\* live importer's.  The code stops if the head's floor is lower than another:
\* NeverRollsBack says that it never is.
Superseded == Linked \ {HeadSeq}
KeptSeqs ==
    {HeadSeq} \cup {s \in Superseded : Cardinality({t \in Superseded : t > s}) < Retain}
FloorHolds == \A s \in Linked : commits[s].floor <= Head.floor

SweepScan(r) ==
    LET committed == {commits[s].run : s \in Linked}
        kept == {commits[s].run : s \in KeptSeqs}
    IN
    /\ step[r] = "scan"
    /\ my' = [my EXCEPT ![r].gone = {g \in Owners : gens[g] # None /\ g \notin kept /\
                          (g \in committed \/ (g # my[r].owner /\ gens[g].old))},
                        ![r].dropped = Linked \ KeptSeqs]
    /\ Goto(r, "sweep")
    /\ UNCHANGED <<leases, record, published, last, world>>

SweepGens(r) ==
    /\ step[r] = "sweep"
    /\ gens' = [g \in Owners |-> IF g \in my[r].gone THEN None ELSE gens[g]]
    /\ Goto(r, "forget")
    /\ UNCHANGED <<leases, record, commits, top, last, my, world>>

SweepRecords(r) ==
    /\ step[r] = "forget"
    /\ commits' = [s \in Seqs |-> IF s \in my[r].dropped THEN None ELSE commits[s]]
    /\ my' = [my EXCEPT ![r].gone = {}, ![r].dropped = {}, ![r].owner = None]
    /\ Goto(r, IF kind[r] = "gc" THEN "leave storage" ELSE "recover")
    /\ UNCHANGED <<leases, record, gens, top, last, world>>

-----------------------------------------------------------------------------
(* RecoverClaims.                                                           *)

Claimed == {x \in Runs : claims[x] # None}
AfterRecovery(r) == IF kind[r] = "heal" THEN "open" ELSE "attempt"

RecoverScan(r) ==
    /\ step[r] = "recover"
    /\ my' = [my EXCEPT ![r].debris = Claimed]
    /\ Goto(r, IF Claimed = {} THEN AfterRecovery(r) ELSE "record?")
    /\ UNCHANGED <<leases, record, published, last, world>>

\* The claims are debris beside a record; without one, a lone claim is it.
RecoverStat(r) ==
    /\ step[r] = "record?"
    /\ \/ attempt # None /\ Goto(r, "tidy") /\ UNCHANGED my
       \/ attempt = None /\ Cardinality(my[r].debris) = 1 /\ Goto(r, "restore") /\ UNCHANGED my
       \/ /\ attempt = None /\ Cardinality(my[r].debris) > 1
          /\ my' = [my EXCEPT ![r].debris = {}]
          /\ Goto(r, "leave import")
    /\ UNCHANGED <<leases, record, published, last, world>>

\* A lone claim is put back, unless somebody published a record meanwhile.
RecoverRestore(r) ==
    /\ step[r] = "restore"
    /\ \E x \in my[r].debris :
         \/ /\ claims[x] # None /\ attempt = None
            /\ attempt' = claims[x]
            /\ Goto(r, "tidy") /\ UNCHANGED my
         \/ /\ claims[x] = None \/ attempt # None
            /\ my' = [my EXCEPT ![r].debris = {}]
            /\ Goto(r, "leave import") /\ UNCHANGED attempt
    /\ UNCHANGED <<leases, claims, latest, opened, published, last, world>>

\* Only the claims that were listed go.
RecoverTidy(r) ==
    /\ step[r] = "tidy"
    /\ claims' = [x \in Runs |-> IF x \in my[r].debris THEN None ELSE claims[x]]
    /\ my' = [my EXCEPT ![r].debris = {}]
    /\ Goto(r, AfterRecovery(r))
    /\ UNCHANGED <<leases, attempt, latest, opened, published, last, world>>

-----------------------------------------------------------------------------
(* The import.                                                              *)

\* Start: the active record replaces whatever is there.
Start(r) ==
    /\ step[r] = "attempt"
    /\ attempt' = Ended(r, "active", 0, FALSE)
    /\ latest' = r /\ opened' = None
    /\ Goto(r, "open")
    /\ UNCHANGED <<leases, claims, published, last, my, world>>

\* What a run that fails, or is done, does next.
Outcome(r, result, known) ==
    /\ my' = [my EXCEPT ![r] = [Nothing EXCEPT !.seen = my[r].seen, !.known = known,
                                               !.result = IF kind[r] = "heal" THEN None ELSE result]]
    /\ Goto(r, IF kind[r] = "heal" THEN "leave import" ELSE "finish")
Fails(r) == Outcome(r, Ended(r, "failed", 0, FALSE), VersionOf[First])

\* MUTANT of NoopHead: the same version will do.
NoopHeadByVersion == VersionOf[Head.source] = VersionOf[bucket] /\ Intact(Head.run)

\* shareNoopHead: the head was built from this very manifest, and still verifies.
NoopHead == Head.source = bucket /\ Intact(Head.run)

\* OpenBucket, its signature and freshness verified; a pull that finds nothing new
\* is done.  A repair reads the head and its corpus.
Open(r) ==
    /\ step[r] = "open"
    /\ \/ /\ kind[r] = "pull" /\ VersionOf[bucket] < my[r].known
          /\ Fails(r)
       \/ /\ kind[r] = "pull" /\ VersionOf[bucket] >= my[r].known
          /\ \/ /\ NoopHead
                /\ \/ /\ \A f \in Floors(my[r].known) : f <= VersionOf[bucket]
                      /\ my' = [my EXCEPT ![r] = [Nothing EXCEPT !.seen = bucket,
                                   !.result = Ended(r, "succeeded", HeadSeq, TRUE)]]
                      /\ Goto(r, "finish")
                   \/ /\ \E f \in Floors(my[r].known) : f > VersionOf[bucket]
                      /\ Fails(r)
             \/ /\ ~ NoopHead
                /\ my' = [my EXCEPT ![r].seen = bucket]
                /\ Goto(r, "fetch")
       \/ /\ kind[r] = "heal" /\ gens[Head.run] # None
          /\ my' = [my EXCEPT ![r].seen = Head.source, ![r].floor = Head.floor]
          /\ Goto(r, "build")
       \/ /\ kind[r] = "heal" /\ gens[Head.run] = None
          /\ Fails(r)
    /\ opened' = IF latest = r THEN bucket ELSE opened
    /\ UNCHANGED <<leases, attempt, claims, latest, published, last, world>>

\* Materialize: a blob may be gone once the bucket has moved on.
Fetch(r) ==
    /\ step[r] = "fetch"
    /\ \/ Goto(r, "build") /\ UNCHANGED my
       \/ bucket # my[r].seen /\ Fails(r)
    /\ UNCHANGED <<leases, record, published, last, world>>

\* The generation of this run, corpus and index, made durable.
Build(r) ==
    /\ step[r] = "build"
    /\ gens' = [gens EXCEPT ![r] = [old |-> FALSE, whole |-> TRUE]]
    /\ Goto(r, "storage?")
    /\ UNCHANGED <<leases, record, commits, top, last, my, world>>

-----------------------------------------------------------------------------
(* publishShareGeneration.                                                  *)

\* MUTANT of FenceStorage: the lease is not looked at again.
FenceStorageTrusts(r) ==
    /\ step[r] = "storage?"
    /\ Goto(r, "import?")
    /\ UNCHANGED <<leases, record, published, last, my, world>>

FenceStorage(r) ==
    /\ step[r] = "storage?"
    /\ \/ Owns(storage, r) /\ Goto(r, "import?") /\ UNCHANGED my
       \/ ~ Owns(storage, r) /\ Fails(r)
    /\ UNCHANGED <<leases, record, published, last, world>>

FenceImport(r) ==
    /\ step[r] = "import?"
    /\ \/ Owns(import, r) /\ Goto(r, "records") /\ UNCHANGED my
       \/ ~ Owns(import, r) /\ Fails(r)
    /\ UNCHANGED <<leases, record, published, last, world>>

\* MUTANT of Records: a pull's floor is what shares.json remembers.
RecordsRemembered(r) ==
    LET version == VersionOf[my[r].seen] IN
    /\ step[r] = "records"
    /\ my' = [my EXCEPT ![r].next = [seq |-> HeadSeq + 1,
                floor |-> IF kind[r] = "pull" THEN version ELSE my[r].floor]]
    /\ Goto(r, "link")
    /\ UNCHANGED <<leases, record, published, last, world>>

\* The next sequence number, and the replay floor: a pull may not fall below what
\* was ever committed or seen, a repair carries its parent's floor on.
Records(r) ==
    LET version == VersionOf[my[r].seen]
        prior == MaxOf(Floors(IF kind[r] = "pull" THEN my[r].known ELSE VersionOf[First]))
    IN
    /\ step[r] = "records"
    /\ \/ /\ IF kind[r] = "pull" THEN version < prior ELSE my[r].floor < prior
          /\ Fails(r)
       \/ /\ IF kind[r] = "pull" THEN version >= prior ELSE my[r].floor >= prior
          /\ my' = [my EXCEPT ![r].next = [seq |-> HeadSeq + 1,
                       floor |-> IF kind[r] = "pull" THEN version ELSE my[r].floor]]
          /\ Goto(r, "link")
    /\ UNCHANGED <<leases, record, published, last, world>>

\* The link only one run can make; the loser looks again.
Link(r) ==
    LET n == my[r].next IN
    /\ step[r] = "link"
    /\ \/ /\ commits[n.seq] = None
          /\ commits' = [commits EXCEPT ![n.seq] =
               [run |-> r, source |-> my[r].seen, floor |-> n.floor]]
          /\ top' = IF n.floor > top THEN n.floor ELSE top
          /\ Goto(r, "latch")
       \/ /\ commits[n.seq] # None
          /\ Goto(r, "storage?")
          /\ UNCHANGED <<commits, top>>
    /\ UNCHANGED <<leases, record, gens, last, my, world>>

\* writeMigratedLatch; the run reports the generation it committed.
Latch(r) ==
    /\ step[r] = "latch"
    /\ Outcome(r, Ended(r, "succeeded", my[r].next.seq, FALSE), VersionOf[First])
    /\ UNCHANGED <<leases, record, published, last, world>>

-----------------------------------------------------------------------------
(* Finish: the record's owner closes it.                                    *)

Lost(r) == Goto(r, "leave import") /\ my' = [my EXCEPT ![r].result = None, ![r].bytes = None]

\* MUTANT of FinishRead: whatever record is there is this run's to close.
FinishReadAny(r) ==
    /\ step[r] = "finish"
    /\ attempt # None
    /\ my' = [my EXCEPT ![r].bytes = attempt]
    /\ Goto(r, "claim")
    /\ UNCHANGED <<leases, record, published, last, world>>

FinishRead(r) ==
    /\ step[r] = "finish"
    /\ \/ /\ attempt = Ended(r, "active", 0, FALSE)
          /\ my' = [my EXCEPT ![r].bytes = attempt]
          /\ Goto(r, "claim")
       \/ attempt # Ended(r, "active", 0, FALSE) /\ Lost(r)
    /\ UNCHANGED <<leases, record, published, last, world>>

\* The record is renamed to this run's claim, whosever it has become.
FinishClaim(r) ==
    /\ step[r] = "claim"
    /\ \/ /\ attempt # None
          /\ claims' = [claims EXCEPT ![r] = attempt]
          /\ attempt' = None
          /\ Goto(r, "compare") /\ UNCHANGED my
       \/ attempt = None /\ Lost(r) /\ UNCHANGED <<attempt, claims>>
    /\ UNCHANGED <<leases, latest, opened, published, last, world>>

FinishCompare(r) ==
    /\ step[r] = "compare"
    /\ \/ claims[r] = my[r].bytes /\ Goto(r, "publish")
       \/ claims[r] # my[r].bytes /\ Goto(r, "return")
    /\ UNCHANGED <<leases, record, published, last, my, world>>

\* The terminal record is published where nothing is.
FinishPublish(r) ==
    /\ step[r] = "publish"
    /\ \/ attempt = None /\ attempt' = my[r].result /\ UNCHANGED my
       \/ attempt # None /\ my' = [my EXCEPT ![r].result = None] /\ UNCHANGED attempt
    /\ Goto(r, "clean")
    /\ UNCHANGED <<leases, claims, latest, opened, published, last, world>>

\* A successor's record is put back, unless there is one again.  A claim that
\* somebody took is an error.
FinishReturn(r) ==
    /\ step[r] = "return"
    /\ my' = [my EXCEPT ![r].result = None]
    /\ \/ /\ claims[r] # None
          /\ attempt' = IF attempt = None THEN claims[r] ELSE attempt
          /\ Goto(r, "clean")
       \/ claims[r] = None /\ Goto(r, "leave import") /\ UNCHANGED attempt
    /\ UNCHANGED <<leases, claims, latest, opened, published, last, world>>

FinishClean(r) ==
    /\ step[r] = "clean"
    /\ claims' = [claims EXCEPT ![r] = None]
    /\ Goto(r, "leave import")
    /\ UNCHANGED <<leases, attempt, latest, opened, published, last, my, world>>

\* updateSubscriptionState, after the leases are gone.
Remember(r) ==
    /\ step[r] = "remember"
    /\ last' = VersionOf[my[r].seen]
    /\ Goto(r, "done")
    /\ UNCHANGED <<leases, record, published, my, world>>

-----------------------------------------------------------------------------
(* Time, faults and the publisher.                                          *)

\* Re-stamped in the background for as long as it is this run's.
Heartbeat(r) ==
    /\ step[r] \notin {"begin", "done", "leave import", "leave storage", "remember"}
    /\ \/ /\ Holds(import, r) /\ import.stale
          /\ import' = [import EXCEPT !.stale = FALSE]
          /\ UNCHANGED storage
       \/ /\ Holds(storage, r) /\ storage.stale
          /\ storage' = [storage EXCEPT !.stale = FALSE]
          /\ UNCHANGED import
    /\ UNCHANGED <<record, published, last, step, my, world>>

\* A run is suspended for longer than the TTL, or died that long ago: what it
\* holds, and the generation it was building, is old.
Lapse(r) ==
    /\ lapses < MaxLapses /\ (step[r] = "done" \/ r \in Slow)
    /\ Holds(storage, r) \/ Holds(import, r)
    /\ lapses' = lapses + 1
    /\ slept' = (slept \/ step[r] # "done")
    /\ storage' = IF Holds(storage, r) THEN [storage EXCEPT !.stale = TRUE] ELSE storage
    /\ import' = IF Holds(import, r) THEN [import EXCEPT !.stale = TRUE] ELSE import
    /\ gens' = [g \in Owners |-> IF gens[g] = None THEN None ELSE [gens[g] EXCEPT !.old = TRUE]]
    /\ UNCHANGED <<kind, record, commits, top, last, bucket, step, my, moves, faults>>

Faulty == faults < MaxFaults /\ faults' = faults + 1

Crash(r) ==
    /\ step[r] \notin {"begin", "done"} /\ Faulty
    /\ Goto(r, "done")
    /\ my' = [my EXCEPT ![r] = Nothing]
    /\ UNCHANGED <<kind, leases, record, published, last, bucket, slept, lapses, moves>>

\* A transfer, a build or the latch fails, and a generation half built stays.
Fail(r) ==
    /\ step[r] \in {"open", "fetch", "build", "latch"} /\ Faulty
    /\ Fails(r)
    /\ gens' = IF step[r] = "build" THEN [gens EXCEPT ![r] = [old |-> FALSE, whole |-> FALSE]] ELSE gens
    /\ UNCHANGED <<kind, leases, record, commits, top, last, bucket, slept, lapses, moves>>

\* The published index is damaged.
Damage ==
    /\ Faulty /\ Intact(Head.run)
    /\ gens' = [gens EXCEPT ![Head.run].whole = FALSE]
    /\ UNCHANGED <<kind, leases, record, commits, top, last, bucket, step, my, slept, lapses, moves>>

\* The bucket advertises another manifest of the publisher's, newer or not: two
\* publishers, or a replay.
Move(m) ==
    /\ moves < MaxMoves /\ m # bucket
    /\ moves' = moves + 1
    /\ bucket' = m
    /\ UNCHANGED <<kind, leases, record, published, last, step, my, slept, lapses, faults>>

Run(r) ==
    \/ AcquireStorage(r) \/ AcquireImport(r) \/ LeaveImport(r) \/ LeaveStorage(r)
    \/ SweepOwner(r) \/ SweepScan(r) \/ SweepGens(r) \/ SweepRecords(r)
    \/ RecoverScan(r) \/ RecoverStat(r) \/ RecoverRestore(r) \/ RecoverTidy(r)
    \/ Start(r) \/ Open(r) \/ Fetch(r) \/ Build(r)
    \/ FenceStorage(r) \/ FenceImport(r) \/ Records(r) \/ Link(r) \/ Latch(r)
    \/ FinishRead(r) \/ FinishClaim(r) \/ FinishCompare(r) \/ FinishPublish(r)
    \/ FinishReturn(r) \/ FinishClean(r) \/ Remember(r)

RunStep(r) == Run(r) /\ raced' = (raced \/ \E q \in Runs \ {r} : step[q] \in Guarded)

Next ==
    \/ \E r \in Runs : RunStep(r)
    \/ /\ \/ \E r \in Runs : Heartbeat(r) \/ Lapse(r) \/ Crash(r) \/ Fail(r)
          \/ Damage
          \/ \E m \in Manifests : Move(m)
       /\ UNCHANGED raced

Spec == Init /\ [][Next]_vars

\* Every process that runs goes on running.
FairSpec == Spec /\ \A r \in Runs : WF_vars(RunStep(r))

-----------------------------------------------------------------------------

\* Every file and every run keeps its type.
TypeOK ==
    /\ kind \in Crews
    /\ storage \in Lease \cup {None} /\ import \in Lease \cup {None}
    /\ commits \in [Seqs -> Commit \cup {None}]
    /\ gens \in [Owners -> Generation \cup {None}]
    /\ attempt \in Attempt \cup {None}
    /\ claims \in [Runs -> Attempt \cup {None}]
    /\ last \in Versions /\ raced \in BOOLEAN /\ slept \in BOOLEAN /\ bucket \in Manifests
    /\ step \in [Runs -> Steps]
    /\ my \in [Runs -> Carried]
    /\ latest \in Owners /\ opened \in Manifests \cup {None} /\ top \in Versions
    /\ lapses \in 0..MaxLapses /\ moves \in 0..MaxMoves /\ faults \in 0..MaxFaults

\* What is published stays: the head's generation is never collected, whoever
\* was suspended, died or resumed around its commit.
HeadIsThere == Linked # {} /\ (raced \/ gens[Head.run] # None)

\* No replayed manifest, resumed import, repair or collection brings the
\* subscription back below a version it once served.
NeverRollsBack == Linked # {} => VersionOf[Head.source] = top /\ FloorHolds

\* What was published stands, in its files and in its version, whatever was
\* replayed, resumed, repaired or collected around it.
PublishedStands == HeadIsThere /\ NeverRollsBack

\* The record of the last attempt is never lost: it is in its file, or in the
\* one claim a recovery restores it from.
AttemptIsKept == attempt # None \/ Claimed # {}

\* What the record of an ended attempt says, it says of the last run that began:
\* "A stale completer therefore cannot replace a successor's active record"
\* (attempt.go:5).  Refuted when one acts between another's claim and publish.
StaleNeverReplaces == attempt # None /\ attempt.state # "active" => attempt.run = latest

\* shareHealthOne, but for the staleness of the last confirmation.
ReadsFresh ==
    /\ Claimed = {} /\ attempt # None /\ attempt.state = "succeeded"
    /\ Linked # {} /\ Intact(Head.run)
    /\ attempt.seq = HeadSeq /\ (attempt.run = Head.run \/ attempt.verified)

\* A subscription reads as fresh only when what it serves is what the last
\* attempt found at the publisher: not an earlier one's, nor another manifest
\* of the same version.
FreshIsCurrent == ReadsFresh => Head.source = opened

\* Whatever crashes, the record of the last attempt is kept; a run that was
\* overtaken does not put its own in the place of its successor's, and what the
\* record says of the subscription is so.
LatestAttemptStands == AttemptIsKept /\ (~ raced => StaleNeverReplaces /\ FreshIsCurrent)

\* All of it as one: until a living run is suspended past the TTL, runs pull,
\* repair and collect as if each publication were one step, of what the last
\* attempt found or, for a repair, of what was served.
Served == INSTANCE Subscription WITH
    served <- Head.source, number <- HeadSeq, found <- opened, fresh <- ReadsFresh
ServesWhatItFound ==
    Served!Init /\ [][~ slept' => Served!Next]_(Served!subscription)

\* A pull that nothing disturbs brings a subscription back, whatever the runs
\* before it left: debris of an attempt, a half built or damaged generation, a
\* lease nobody holds.
Undisturbed(r) ==
    /\ kind[r] = "pull" /\ step[r] = "begin"
    /\ \A q \in Runs \ {r} : step[q] = "done"
    /\ Free(storage) /\ Free(import) /\ VersionOf[bucket] = top
    /\ lapses = MaxLapses /\ moves = MaxMoves /\ faults = MaxFaults
PullRefreshes == \A r \in Runs : Undisturbed(r) ~> ReadsFresh

=============================================================================
