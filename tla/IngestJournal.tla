---------------------------- MODULE IngestJournal ----------------------------
(***************************************************************************)
(* The journal that says a source's files may be missing from the index.   *)
(*                                                                         *)
(* A run of a connector holds the source's lease, makes the journal before *)
(* it publishes a file and adds a line after.  A rebuild looks at the      *)
(* lease and at the journal's size, lists and reads the vault, commits the *)
(* index, and then takes out of the journal what its listing saw.  The     *)
(* index reads clean when there is no journal.                             *)
(*                                                                         *)
(* This module has the journal, the lease and the rebuilds; SourceSync has *)
(* the runs.  A rebuild reads all files in one step: nothing said of one   *)
(* file depends on when another was read.  The inode of a journal that was *)
(* removed is not given to the next while a rebuild remembers it.          *)
(***************************************************************************)
EXTENDS Naturals, FiniteSets, Sequences

CONSTANTS
    Runs,      \* runs of the connector, each a process
    Rebuilds,
    Last,      \* the items of the source are 1..Last
    None, Over,  \* Over: any run that is over
    MaxFaults  \* bound on crashes, failed operations and forgotten histories

ASSUME JournalAssumption ==
    {None, Over} \cap Runs = {} /\ Last \in Nat \ {0} /\ MaxFaults \in Nat

VARIABLES
    lease,    \* ingest/<source>/lease
    alive,    \* the runs whose process is up
    journal,  \* ingest/<source>/journal.log
    vault,    \* the version of each item on disk, 0 when there is no file
    index,    \* the version of each item in the committed index
    reb,      \* what each rebuild carries
    lost,     \* history: published by a late run, and no line says so
    faults

ingest == <<lease, alive, journal, vault, index, reb, lost, faults>>

Items == 1..Last
Journal == [header: Runs \cup {None, Over}, lines: Seq(Items)]
Torn == [header |-> None, lines |-> <<>>]
Begun(r) == [header |-> r, lines |-> <<>>]
Seen == [torn: BOOLEAN, lines: Nat]
\* same: the journal is still the file that was seen.
Rebuild == [step: {"idle", "stat", "list", "read", "commit", "recover"},
            seen: Seen \cup {None}, same: BOOLEAN,
            listed: SUBSET Items, parsed: [Items -> Nat]]
Idle == [step |-> "idle", seen |-> None, same |-> TRUE, listed |-> {},
         parsed |-> [i \in Items |-> 0]]

ASSUME NoneAssumption == None \notin Journal \cup Seen

JournalTypeOK ==
    /\ lease \in Runs \cup {None, Over}
    /\ alive \subseteq Runs
    /\ journal \in Journal \cup {None}
    /\ vault \in [Items -> Nat] /\ index \in [Items -> Nat]
    /\ reb \in [Rebuilds -> Rebuild]
    /\ lost \subseteq Items
    /\ faults \in 0..MaxFaults
    /\ \A b \in Rebuilds : reb[b].seen # None /\ reb[b].same =>
         journal # None /\ reb[b].seen.lines <= Len(journal.lines)

JournalInit ==
    /\ lease = None /\ alive = {} /\ journal = None
    /\ vault = [i \in Items |-> 0] /\ index = [i \in Items |-> 0]
    /\ reb = [b \in Rebuilds |-> Idle]
    /\ lost = {} /\ faults = 0

Fault == faults < MaxFaults /\ faults' = faults + 1

-----------------------------------------------------------------------------
(* The lease and the journal.                                               *)

\* A live process holds it.
LeaseHeld == lease \in alive
\* What a look at the lease leaves of it: a dead holder's is removed.
Reclaimed == IF LeaseHeld THEN lease ELSE None

\* EnsureJournalHeader: whatever journal is there will do.
Ensured(r) == IF journal = None THEN Begun(r) ELSE journal
\* Nobody tells runs that are over apart.
Ended(r, j) == IF j # None /\ j.header = r THEN [j EXCEPT !.header = Over] ELSE j
\* RecordPublishedPath
Recorded(i) == IF journal = None THEN [Torn EXCEPT !.lines = <<i>>]
               ELSE [journal EXCEPT !.lines = Append(@, i)]

\* The journal was rewritten or removed: no rebuild finds the file it saw.
Replaced(all) == [b \in Rebuilds |-> IF all[b].seen = None THEN all[b]
                                    ELSE [all[b] EXCEPT !.same = FALSE]]

\* The lines that stay: those seen that the listing does not cover, and the later.
Staying(cut, listed) ==
    {p \in DOMAIN journal.lines : p <= cut => journal.lines[p] \notin listed}
Survivors(cut, listed) ==
    LET staying == Staying(cut, listed)
        nth(n) == CHOOSE p \in staying : Cardinality({q \in staying : q <= p}) = n
    IN  [n \in 1..Cardinality(staying) |-> journal.lines[nth(n)]]

\* compactJournal: what is left of the journal.  With no line left, the lease is
\* looked at only for a journal that has a header.
Compacted(cut, listed) ==
    LET kept == Survivors(cut, listed)
    IN  IF kept # <<>> THEN [journal EXCEPT !.lines = kept]
        ELSE IF journal.header # None /\ LeaseHeld THEN Begun(journal.header)
        ELSE None
LeaseAfter(cut, listed) ==
    IF Survivors(cut, listed) = <<>> /\ journal.header # None THEN Reclaimed ELSE lease

-----------------------------------------------------------------------------
(* Rebuilds.  One at a time has the index's write lock, from its first look *)
(* at the journal to its commit.                                            *)

Locked(b) == reb[b].step \in {"stat", "list", "read", "commit"}
AtRebuild(b, s) == reb[b].step = s
Carry(b, rebuild) == reb' = [reb EXCEPT ![b] = rebuild]

\* SnapshotJournals leaves a source with a live run out.
\* MUTANT of BeginRebuild: it looks at the journal all the same.
BeginRebuildAnyway(b) ==
    /\ AtRebuild(b, "idle") /\ \A c \in Rebuilds : ~ Locked(c)
    /\ Carry(b, [Idle EXCEPT !.step = "stat"])
    /\ lease' = Reclaimed
    /\ UNCHANGED <<alive, journal, vault, index, lost, faults>>
\* MUTANT of BeginRebuild: a dead run's lease is a lease.
BeginRebuildIfFree(b) ==
    /\ AtRebuild(b, "idle") /\ \A c \in Rebuilds : ~ Locked(c)
    /\ Carry(b, [Idle EXCEPT !.step = IF lease # None THEN "list" ELSE "stat"])
    /\ UNCHANGED <<lease, alive, journal, vault, index, lost, faults>>
BeginRebuild(b) ==
    /\ AtRebuild(b, "idle") /\ \A c \in Rebuilds : ~ Locked(c)
    /\ Carry(b, [Idle EXCEPT !.step = IF LeaseHeld THEN "list" ELSE "stat"])
    /\ lease' = Reclaimed
    /\ UNCHANGED <<alive, journal, vault, index, lost, faults>>

Stat(b) ==
    /\ AtRebuild(b, "stat")
    /\ Carry(b, [reb[b] EXCEPT !.step = "list",
                               !.seen = IF journal = None THEN None
                                        ELSE [torn |-> journal = Torn,
                                              lines |-> Len(journal.lines)]])
    /\ UNCHANGED <<lease, alive, journal, vault, index, lost, faults>>

List(b) ==
    /\ AtRebuild(b, "list")
    /\ Carry(b, [reb[b] EXCEPT !.step = "read", !.listed = {i \in Items : vault[i] # 0}])
    /\ UNCHANGED <<lease, alive, journal, vault, index, lost, faults>>

Read(b) ==
    /\ AtRebuild(b, "read")
    /\ Carry(b, [reb[b] EXCEPT !.step = "commit",
                               !.parsed = [i \in Items |-> IF i \in reb[b].listed
                                                           THEN vault[i] ELSE 0]])
    /\ UNCHANGED <<lease, alive, journal, vault, index, lost, faults>>

CommitIndex(b) ==
    /\ AtRebuild(b, "commit")
    /\ index' = reb[b].parsed
    /\ lost' = {i \in lost : index'[i] # vault[i]}
    /\ Carry(b, IF reb[b].seen = None THEN Idle ELSE [reb[b] EXCEPT !.step = "recover"])
    /\ UNCHANGED <<lease, alive, journal, vault, faults>>

\* The journal this rebuild saw is gone, is another, or was still empty.
Unproven(b) == journal = None \/ ~ reb[b].same \/ (reb[b].seen.torn /\ journal # Torn)

RecoverJournals(b) ==
    /\ AtRebuild(b, "recover")
    /\ LET all == [reb EXCEPT ![b] = Idle]
       IN  IF Unproven(b) THEN reb' = all /\ UNCHANGED <<lease, journal>>
           ELSE /\ journal' = Compacted(reb[b].seen.lines, reb[b].listed)
                /\ lease' = LeaseAfter(reb[b].seen.lines, reb[b].listed)
                /\ reb' = Replaced(all)
    /\ UNCHANGED <<alive, vault, index, lost, faults>>

\* A rebuild fails or dies.
AbandonRebuild(b) ==
    /\ reb[b].step # "idle" /\ Fault
    /\ Carry(b, Idle)
    /\ UNCHANGED <<lease, alive, journal, vault, index, lost>>

RebuildStep(b) ==
    \/ BeginRebuild(b) \/ Stat(b) \/ List(b) \/ Read(b) \/ CommitIndex(b) \/ RecoverJournals(b)

\* A rebuild that no longer looks at the lease is yet to compact the journal.
Outstanding(b) ==
    reb[b].step = "stat" \/ (reb[b].seen # None /\ reb[b].same)

=============================================================================
