------------------------- MODULE ShareImportProofs -------------------------
(***************************************************************************)
(* Theorems about ShareImport, for every set of runs and of manifests,     *)
(* every crew, every number of generations that are kept and every bound.  *)
(*                                                                         *)
(* The first part holds whatever is suspended for however long.  The       *)
(* second holds until a living run is suspended past its lease's TTL       *)
(* (slept): till then only what a dead run left is ever taken over.        *)
(***************************************************************************)
EXTENDS ShareImport, FiniteSetTheorems, WellFoundedInduction, TLAPS

-----------------------------------------------------------------------------
(* The model's data. *)

Building == {"storage?", "import?", "records", "link"}

\* A run at these steps has not linked a commit.
Unlinked == {"begin", "import", "owner", "scan", "sweep", "forget", "recover", "record?", "restore",
             "tidy", "attempt", "open", "fetch", "build"} \cup Building
Through == {q \in Runs : step[q] \notin Unlinked}

\* A run at these steps has no claim to make any more.
Past == {"compare", "publish", "return", "clean", "leave import", "leave storage", "remember", "done"}

LEMMA VersionsAreNat == Versions \subseteq Nat \ {0} /\ VersionOf[First] \in Versions
  BY ShareAssumption DEF Versions

LEMMA VersionIn ==
  ASSUME NEW m \in Manifests
  PROVE  VersionOf[m] \in Versions
  BY DEF Versions

LEMMA RunsAreCounted == Cardinality(Runs) \in Nat /\ Seqs \subseteq Nat \ {0} /\ 1 \in Seqs
  BY ShareAssumption, FS_CardinalityType DEF Seqs

LEMMA NothingIsCarried == Nothing \in Carried
  BY VersionsAreNat DEF Nothing, Carried

LEMMA CarriedFields ==
  ASSUME NEW c \in Carried
  PROVE  /\ c.seen \in Manifests \cup {None} /\ c.floor \in {0} \cup Versions
         /\ c.known \in Versions /\ c.owner \in Runs \cup {None}
         /\ c.gone \in SUBSET Owners /\ c.dropped \in SUBSET Seqs /\ c.debris \in SUBSET Runs
         /\ c.next \in Place \cup {None}
         /\ c.bytes \in Attempt \cup {None} /\ c.result \in Attempt \cup {None}
  BY DEF Carried

\* None is no record.
LEMMA NoneIsNothing ==
  /\ None \notin Runs /\ None \notin Owners /\ None \notin Manifests
  /\ Origin \notin Runs
  BY ShareAssumption DEF Owners

\* The highest number linked is the head's.
LEMMA HeadIs ==
  ASSUME NEW h \in Linked, Highest(h), Seqs \subseteq Nat
  PROVE  HeadSeq = h
<1>1. \A s \in Linked : Highest(s) => s = h  BY DEF Highest, Linked
<1> QED BY <1>1 DEF HeadSeq

\* Some commit is the highest.
LEMMA HeadExists ==
  ASSUME Linked # {}
  PROVE  HeadSeq \in Linked /\ Highest(HeadSeq)
<1>1. Linked \in SUBSET Nat /\ \A s \in Linked : s <= Cardinality(Runs) + 1
  BY RunsAreCounted DEF Linked, Seqs
<1> DEFINE Above == {n \in Nat : \A s \in Linked : s <= n}
<1>2. PICK n \in Above : \A m \in Above : n <= m
  <2>1. Cardinality(Runs) + 1 \in Above  BY <1>1, RunsAreCounted
  <2>2. PICK n \in Above : \A m \in Above : ~ (<<m, n>> \in OpToRel(<, Nat))
    BY <2>1, NatLessThanWellFounded, WFMin
  <2>3. ASSUME NEW m \in Above, m < n PROVE FALSE
    <3>1. <<m, n>> \in Nat \X Nat /\ <<m, n>>[1] = m /\ <<m, n>>[2] = n  OBVIOUS
    <3>2. <<m, n>> \in OpToRel(<, Nat)  BY <2>3, <3>1 DEF OpToRel
    <3> QED BY <2>2, <3>2
  <2>4. \A m \in Above : m \in Nat /\ n \in Nat  OBVIOUS
  <2> HIDE DEF Above
  <2>5. \A m \in Above : n <= m  BY <2>3, <2>4
  <2> QED BY <2>5
<1>3. n \in Linked
  <2>1. SUFFICES ASSUME n \notin Linked PROVE FALSE  OBVIOUS
  <2>2. \A s \in Linked : s \in Nat /\ s <= n /\ s # n  BY <1>1, <1>2, <2>1
  <2>3. PICK s \in Linked : TRUE  OBVIOUS
  <2>4. n \in Nat /\ n # 0  BY <1>2, <2>2, <2>3
  <2>5. n - 1 \in Above  BY <2>2, <2>4
  <2>6. n <= n - 1  BY <1>2, <2>5
  <2> QED BY <2>4, <2>6
<1>4. Highest(n)  BY <1>2, <1>3 DEF Highest
<1> QED BY <1>3, <1>4 DEF HeadSeq

-----------------------------------------------------------------------------
(* Whatever is suspended: types, numbers and the attempt record.            *)

\* What a run has in hand at the steps that use it.
Ready(r) ==
    LET c == my[r] IN
    /\ step[r] = "fetch" => kind[r] = "pull"
    /\ step[r] \in {"fetch", "build", "latch", "remember"} \cup Building => c.seen # None
    /\ step[r] \in {"build"} \cup Building /\ kind[r] # "pull" => c.floor # 0
    /\ step[r] \in {"link", "latch"} => c.next # None
    /\ step[r] \in {"finish", "claim", "compare", "publish"} => c.result # None
    /\ c.result # None /\ c.result.state = "succeeded" => c.seen # None

\* The head's number only grows: what a collector drops is below it, and a commit
\* that is linked is at most the next.  No run links twice.
Ordered ==
    /\ Linked # {}
    /\ HeadSeq <= 1 + Cardinality(Through)
    /\ \A r \in Runs :
         /\ \A s \in my[r].dropped : s < HeadSeq
         /\ my[r].next # None => my[r].next.seq <= HeadSeq + 1

\* While there is no record there is a claim that nobody is about to remove.
Kept ==
    /\ \A x \in Claimed : step[x] \in Past
    /\ \A r \in Runs : \A x \in my[r].debris : step[x] \in Past
    /\ attempt = None =>
         \E u \in Claimed :
            step[u] # "clean" /\ \A r \in Runs : step[r] = "tidy" => u \notin my[r].debris

Sound == TypeOK /\ (\A r \in Runs : Ready(r)) /\ Ordered /\ Kept

\* The state of one run changes, to a well formed one.
Steps1(r) ==
    /\ my' \in [Runs -> Carried] /\ step' \in [Runs -> Steps]
    /\ \A q \in Runs \ {r} : my'[q] = my[q] /\ step'[q] = step[q]

LEMMA Moved ==
  ASSUME TypeOK, NEW r \in Runs, NEW c \in Carried, NEW s \in Steps,
         my' = [my EXCEPT ![r] = c], step' = [step EXCEPT ![r] = s]
  PROVE  Steps1(r) /\ my'[r] = c /\ step'[r] = s
  BY DEF TypeOK, Steps1

LEMMA Went ==
  ASSUME TypeOK, NEW r \in Runs, NEW s \in Steps, Goto(r, s), UNCHANGED my
  PROVE  Steps1(r) /\ my'[r] = my[r] /\ step'[r] = s
  BY DEF TypeOK, Steps1, Goto

\* What is left of what a run carries when its attempt ends.
LEMMA OutcomeIs ==
  ASSUME TypeOK, NEW r \in Runs, NEW res \in Attempt, NEW k \in Versions, Outcome(r, res, k)
  PROVE  /\ Steps1(r)
         /\ my'[r].seen = my[r].seen /\ my'[r].next = None
         /\ my'[r].gone = {} /\ my'[r].dropped = {} /\ my'[r].debris = {}
         /\ \/ kind[r] = "heal" /\ step'[r] = "leave import" /\ my'[r].result = None
            \/ kind[r] # "heal" /\ step'[r] = "finish" /\ my'[r].result = res
<1> DEFINE c == [Nothing EXCEPT !.seen = my[r].seen, !.known = k,
                                !.result = IF kind[r] = "heal" THEN None ELSE res]
           s == IF kind[r] = "heal" THEN "leave import" ELSE "finish"
<1>1. my' = [my EXCEPT ![r] = c] /\ step' = [step EXCEPT ![r] = s]  BY DEF Outcome, Goto
<1>2. my[r] \in Carried /\ my[r].seen \in Manifests \cup {None}  BY CarriedFields DEF TypeOK
<1>3. /\ c \in Carried /\ s \in Steps
      /\ c.seen = my[r].seen /\ c.next = None
      /\ c.gone = {} /\ c.dropped = {} /\ c.debris = {}
      /\ c.result = IF kind[r] = "heal" THEN None ELSE res
  <2> DEFINE end == IF kind[r] = "heal" THEN None ELSE res
  <2>1. end \in Attempt \cup {None}  OBVIOUS
  <2>2. c = [seen |-> my[r].seen, floor |-> 0, known |-> k, owner |-> None, gone |-> {},
             dropped |-> {}, debris |-> {}, next |-> None, bytes |-> None, result |-> end]
    <3> DEFINE c1 == [Nothing EXCEPT !.seen = my[r].seen]
               c2 == [c1 EXCEPT !.known = k]
    <3>1. c1 = [seen |-> my[r].seen, floor |-> 0, known |-> VersionOf[First], owner |-> None,
                gone |-> {}, dropped |-> {}, debris |-> {}, next |-> None, bytes |-> None,
                result |-> None]
      BY DEF Nothing
    <3> HIDE DEF c1
    <3>2. c2 = [seen |-> my[r].seen, floor |-> 0, known |-> k, owner |-> None, gone |-> {},
                dropped |-> {}, debris |-> {}, next |-> None, bytes |-> None, result |-> None]
      BY <3>1
    <3>3. c = [c2 EXCEPT !.result = end]  BY DEF c1
    <3> HIDE DEF c, c2, end
    <3> QED BY <3>2, <3>3
  <2> HIDE DEF c, end
  <2>3. c \in Carried  BY <1>2, <2>1, <2>2 DEF Carried
  <2>4. s \in Steps  BY DEF Steps
  <2> QED BY <2>2, <2>3, <2>4 DEF end
<1> HIDE DEF c
<1>4. Steps1(r) /\ my'[r] = c /\ step'[r] = s  BY <1>1, <1>3, Moved
<1> QED BY <1>3, <1>4

LEMMA EndedIsAttempt ==
  ASSUME NEW r \in Runs, NEW st \in {"active", "succeeded", "failed"}, NEW n \in {0} \cup Seqs,
         NEW v \in BOOLEAN
  PROVE  /\ Ended(r, st, n, v) \in Attempt
         /\ Ended(r, st, n, v).run = r /\ Ended(r, st, n, v).state = st
         /\ Ended(r, st, n, v).seq = n /\ Ended(r, st, n, v).verified = v
  BY DEF Ended, Attempt, Owners

LEMMA FailsIs ==
  ASSUME TypeOK, NEW r \in Runs, Fails(r)
  PROVE  /\ Steps1(r)
         /\ my'[r].seen = my[r].seen /\ my'[r].next = None
         /\ my'[r].gone = {} /\ my'[r].dropped = {} /\ my'[r].debris = {}
         /\ \/ kind[r] = "heal" /\ step'[r] = "leave import" /\ my'[r].result = None
            \/ kind[r] # "heal" /\ step'[r] = "finish" /\ my'[r].result = Ended(r, "failed", 0, FALSE)
<1>1. Ended(r, "failed", 0, FALSE) \in Attempt  BY EndedIsAttempt
<1> QED BY <1>1, VersionsAreNat, OutcomeIs DEF Fails

\* What a step of a run does to what it carries.
Carries(r) ==
    /\ Steps1(r)
    /\ \/ my'[r].dropped \subseteq my[r].dropped
       \/ step[r] = "scan" /\ my'[r].dropped = Linked \ KeptSeqs
    /\ \/ my'[r].next \in {None, my[r].next}
       \/ /\ step[r] = "records" /\ step'[r] = "link"
          /\ my'[r].next # None /\ my'[r].next.seq = HeadSeq + 1
    /\ my'[r].debris \in {{}, my[r].debris, Claimed}
    /\ step[r] \notin Unlinked => step'[r] \notin Unlinked
    /\ step[r] \in Past => step'[r] \in Past
    /\ step'[r] = "tidy" => attempt' # None
    /\ step'[r] = "clean" => attempt' # None
    /\ Ready(r)'

LEMMA Classes ==
  /\ Building = {"storage?", "import?", "records", "link"}
  /\ Unlinked = {"begin", "import", "owner", "scan", "sweep", "forget", "recover", "record?",
                 "restore", "tidy", "attempt", "open", "fetch", "build", "storage?", "import?",
                 "records", "link"}
  BY DEF Building, Unlinked

\* A run that goes on with what it carries.
LEMMA Goes ==
  ASSUME Sound, NEW r \in Runs, NEW s \in Steps, Goto(r, s), UNCHANGED <<my, kind>>,
         s \notin {"fetch", "build", "latch", "remember", "link", "finish", "claim", "compare",
                   "publish"} \cup Building,
         step[r] \notin Unlinked => s \notin Unlinked,
         step[r] \in Past => s \in Past,
         s \in {"tidy", "clean"} => attempt' # None
  PROVE  Carries(r)
<1>1. Steps1(r) /\ my'[r] = my[r] /\ step'[r] = s  BY Went DEF Sound
<1>2. Ready(r)  BY DEF Sound
<1>3. Ready(r)'  BY <1>1, <1>2 DEF Ready
<1> QED BY <1>1, <1>3 DEF Carries

\* A run whose attempt fails.
LEMMA FailsCarries ==
  ASSUME Sound, NEW r \in Runs, Fails(r), UNCHANGED kind, step[r] \notin Past
  PROVE  Carries(r)
<1>1. TypeOK  BY DEF Sound
<1>2. Ended(r, "failed", 0, FALSE) # None /\ Ended(r, "failed", 0, FALSE).state = "failed"
  <2>1. Ended(r, "failed", 0, FALSE) \in Attempt /\ Ended(r, "failed", 0, FALSE).state = "failed"
    BY DEF Ended, Attempt, Owners
  <2> QED BY <2>1, NoneAssumption
<1> QED BY <1>1, <1>2, FailsIs DEF Carries, Ready, Building, Unlinked

LEMMA HeadIsCommit ==
  ASSUME Sound
  PROVE  HeadSeq \in Linked /\ Highest(HeadSeq) /\ HeadSeq \in Seqs /\ Head \in Commit
<1>1. HeadSeq \in Linked /\ Highest(HeadSeq)  BY HeadExists DEF Sound, Ordered
<1> QED BY <1>1 DEF Sound, TypeOK, Linked, Head

LEMMA LeasesCarry ==
  ASSUME Sound, NEW r \in Runs,
         AcquireStorage(r) \/ AcquireImport(r) \/ LeaveImport(r) \/ LeaveStorage(r)
  PROVE  Carries(r)
<1>t. TypeOK /\ Ready(r) /\ my[r] \in Carried  BY DEF Sound, TypeOK
<1>1. CASE AcquireStorage(r)
  <2> DEFINE c == [my[r] EXCEPT !.known = last]
             s == IF kind[r] = "gc" THEN "owner" ELSE "import"
  <2>1. my' = [my EXCEPT ![r] = c] /\ step' = [step EXCEPT ![r] = s] /\ kind' = kind
    BY <1>1 DEF AcquireStorage, Goto, world
  <2>2. c \in Carried /\ s \in Steps  BY <1>t DEF TypeOK, Carried, Steps
  <2>3. /\ c.dropped = my[r].dropped /\ c.next = my[r].next /\ c.debris = my[r].debris
        /\ c.seen = my[r].seen /\ c.result = my[r].result
    BY <1>t DEF Carried
  <2> HIDE DEF c
  <2>m. Steps1(r) /\ my'[r] = c /\ step'[r] = s  BY <1>1, <1>t, <2>1, <2>2, <2>3, Moved
  <2> QED BY <1>1, <1>t, <2>1, <2>2, <2>3, <2>m
          DEF AcquireStorage, Carries, Ready, Past, Building, Unlinked
<1>2. CASE AcquireImport(r)
  BY <1>2, Goes DEF AcquireImport, world, Steps, Past, Building, Unlinked
<1>3. CASE LeaveImport(r)
  BY <1>3, Goes DEF LeaveImport, world, Steps, Past, Building, Unlinked
<1>4. CASE LeaveStorage(r)
  <2> DEFINE s == IF my[r].result # None /\ my[r].result.state = "succeeded"
                  THEN "remember" ELSE "done"
  <2>1. Goto(r, s) /\ s \in Steps /\ UNCHANGED <<my, kind>>
    BY <1>4 DEF LeaveStorage, Steps, world
  <2>2. Steps1(r) /\ my'[r] = my[r] /\ step'[r] = s  BY <1>t, <2>1, Went
  <2> QED BY <1>4, <1>t, <2>1, <2>2
          DEF LeaveStorage, Carries, Ready, Past, Building, Unlinked
<1> QED BY <1>1, <1>2, <1>3, <1>4

LEMMA SweepCarries ==
  ASSUME Sound, NEW r \in Runs,
         SweepOwner(r) \/ SweepScan(r) \/ SweepGens(r) \/ SweepRecords(r)
  PROVE  Carries(r)
<1>t. TypeOK /\ Ready(r) /\ my[r] \in Carried  BY DEF Sound, TypeOK
<1>1. CASE SweepOwner(r)
  <2> DEFINE o == IF Free(import) THEN None ELSE import.run
             c == [my[r] EXCEPT !.owner = o]
  <2>1. my' = [my EXCEPT ![r] = c] /\ step' = [step EXCEPT ![r] = "scan"] /\ kind' = kind
    BY <1>1 DEF SweepOwner, Goto, world
  <2>2. o \in Runs \cup {None}  BY <1>t DEF TypeOK, Free, Lease
  <2> HIDE DEF o
  <2>3. c \in Carried /\ "scan" \in Steps  BY <1>t, <2>2 DEF Carried, Steps
  <2>4. /\ c.dropped = my[r].dropped /\ c.next = my[r].next /\ c.debris = my[r].debris
        /\ c.seen = my[r].seen /\ c.result = my[r].result
    BY <1>t DEF Carried
  <2> HIDE DEF c
  <2>m. Steps1(r) /\ my'[r] = c /\ step'[r] = "scan"  BY <1>1, <1>t, <2>1, <2>3, <2>4, Moved
  <2> QED BY <1>1, <1>t, <2>1, <2>3, <2>4, <2>m
          DEF SweepOwner, Carries, Ready, Past, Building, Unlinked
<1>2. CASE SweepScan(r)
  <2> DEFINE committed == {commits[s].run : s \in Linked}
             kept == {commits[s].run : s \in KeptSeqs}
             g == {g \in Owners : gens[g] # None /\ g \notin kept /\
                     (g \in committed \/ (g # my[r].owner /\ gens[g].old))}
             d == Linked \ KeptSeqs
             c == [my[r] EXCEPT !.gone = g, !.dropped = d]
  <2>1. my' = [my EXCEPT ![r] = c] /\ step' = [step EXCEPT ![r] = "sweep"] /\ kind' = kind
    BY <1>2 DEF SweepScan, Goto, world
  <2>2. g \in SUBSET Owners /\ d \in SUBSET Seqs  BY DEF Linked
  <2> HIDE DEF g, d
  <2>3. c \in Carried /\ "sweep" \in Steps  BY <1>t, <2>2 DEF Carried, Steps
  <2>4. /\ c.dropped = d /\ c.next = my[r].next /\ c.debris = my[r].debris
        /\ c.seen = my[r].seen /\ c.result = my[r].result
    BY <1>t DEF Carried
  <2> HIDE DEF c
  <2>5. my'[r].dropped = Linked \ KeptSeqs  BY <1>t, <2>1, <2>3, <2>4, Moved DEF d
  <2>m. Steps1(r) /\ my'[r] = c /\ step'[r] = "sweep"  BY <1>2, <1>t, <2>1, <2>3, <2>4, <2>5, Moved
  <2> QED BY <1>2, <1>t, <2>1, <2>3, <2>4, <2>5, <2>m
          DEF SweepScan, Carries, Ready, Past, Building, Unlinked
<1>3. CASE SweepGens(r)
  BY <1>3, Goes DEF SweepGens, world, Steps, Past, Building, Unlinked
<1>4. CASE SweepRecords(r)
  <2> DEFINE c == [my[r] EXCEPT !.gone = {}, !.dropped = {}, !.owner = None]
             s == IF kind[r] = "gc" THEN "leave storage" ELSE "recover"
  <2>1. my' = [my EXCEPT ![r] = c] /\ step' = [step EXCEPT ![r] = s] /\ kind' = kind
    BY <1>4 DEF SweepRecords, Goto, world
  <2>2. c \in Carried /\ s \in Steps  BY <1>t DEF Carried, Steps
  <2>3. /\ c.dropped = {} /\ c.next = my[r].next /\ c.debris = my[r].debris
        /\ c.seen = my[r].seen /\ c.result = my[r].result
    BY <1>t DEF Carried
  <2> HIDE DEF c
  <2>m. Steps1(r) /\ my'[r] = c /\ step'[r] = s  BY <1>4, <1>t, <2>1, <2>2, <2>3, Moved
  <2>4. step[r] = "forget" /\ s \in {"leave storage", "recover"}  BY <1>4 DEF SweepRecords
  <2> HIDE DEF s
  <2> QED BY <1>t, <2>1, <2>3, <2>4, <2>m
          DEF Carries, Ready, Past, Building, Unlinked
<1> QED BY <1>1, <1>2, <1>3, <1>4

LEMMA RecoveryCarries ==
  ASSUME Sound, NEW r \in Runs,
         RecoverScan(r) \/ RecoverStat(r) \/ RecoverRestore(r) \/ RecoverTidy(r) \/ Start(r)
  PROVE  Carries(r)
<1>t. TypeOK /\ Ready(r) /\ my[r] \in Carried  BY DEF Sound, TypeOK
<1>e. ASSUME NEW d \in SUBSET Runs, NEW s \in Steps, kind' = kind,
             d \in {{}, my[r].debris, Claimed},
             my' = [my EXCEPT ![r].debris = d], step' = [step EXCEPT ![r] = s],
             s \in {"record?", "leave import", "attempt", "open"}, step[r] \notin Past,
             step[r] \in Unlinked
      PROVE  Carries(r)
  <2> DEFINE c == [my[r] EXCEPT !.debris = d]
  <2>1. my' = [my EXCEPT ![r] = c]  BY <1>e
  <2>2. c \in Carried  BY <1>t DEF Carried
  <2>3. /\ c.dropped = my[r].dropped /\ c.next = my[r].next /\ c.debris = d
        /\ c.seen = my[r].seen /\ c.result = my[r].result
    BY <1>t DEF Carried
  <2> HIDE DEF c
  <2>4. step' = [step EXCEPT ![r] = s]  BY <1>e
  <2>m. Steps1(r) /\ my'[r] = c /\ step'[r] = s  BY <1>t, <2>1, <2>2, <2>4, Moved
  <2> QED BY <1>e, <1>t, <2>3, <2>m DEF Carries, Ready, Building, Unlinked
<1>1. CASE RecoverScan(r)
  BY <1>1, <1>e DEF RecoverScan, Goto, AfterRecovery, Claimed, world, Steps, Past, Unlinked
<1>2. CASE RecoverStat(r)
  <2>1. CASE UNCHANGED my /\ ((Goto(r, "tidy") /\ attempt # None) \/ Goto(r, "restore"))
    BY <1>2, <2>1, Goes DEF RecoverStat, world, record, Steps, Past, Building, Unlinked
  <2>2. CASE my' = [my EXCEPT ![r].debris = {}] /\ Goto(r, "leave import")
    BY <1>2, <2>2, <1>e DEF RecoverStat, Goto, world, Steps, Past, Unlinked
  <2> QED BY <1>2, <2>1, <2>2 DEF RecoverStat
<1>3. CASE RecoverRestore(r)
  <2>1. CASE attempt' # None /\ Goto(r, "tidy") /\ UNCHANGED my
    BY <1>3, <2>1, Goes DEF RecoverRestore, world, Steps, Past, Building, Unlinked
  <2>2. CASE my' = [my EXCEPT ![r].debris = {}] /\ Goto(r, "leave import")
    BY <1>3, <2>2, <1>e DEF RecoverRestore, Goto, world, Steps, Past, Unlinked
  <2> QED BY <1>3, <2>1, <2>2 DEF RecoverRestore
<1>4. CASE RecoverTidy(r)
  BY <1>4, <1>e DEF RecoverTidy, Goto, AfterRecovery, world, Steps, Past, Unlinked
<1>5. CASE Start(r)
  BY <1>5, Goes DEF Start, world, Steps, Past, Building, Unlinked
<1> QED BY <1>1, <1>2, <1>3, <1>4, <1>5

LEMMA ImportCarries ==
  ASSUME Sound, NEW r \in Runs, Open(r) \/ Fetch(r) \/ Build(r)
  PROVE  Carries(r)
<1>t. TypeOK /\ Ready(r) /\ my[r] \in Carried /\ kind' = kind /\ step[r] \notin Past
  BY DEF Sound, TypeOK, Open, Fetch, Build, world, Past
<1>h. HeadSeq \in Seqs /\ Head.source \in Manifests /\ Head.floor \in Versions
  BY HeadIsCommit DEF Commit
<1>n. None \notin Manifests /\ bucket \in Manifests  BY <1>t, ShareAssumption DEF TypeOK
<1>1. CASE Open(r)
  <2>1. CASE Fails(r)  BY <1>1, <1>t, <2>1, FailsCarries
  <2>2. CASE /\ my' = [my EXCEPT ![r] = [Nothing EXCEPT !.seen = bucket,
                         !.result = Ended(r, "succeeded", HeadSeq, TRUE)]]
             /\ Goto(r, "finish")
    <3> DEFINE e == Ended(r, "succeeded", HeadSeq, TRUE)
               c1 == [Nothing EXCEPT !.seen = bucket]
               c == [c1 EXCEPT !.result = e]
    <3>1. e \in Attempt  BY <1>h DEF Ended, Attempt, Owners
    <3>2. c1 = [seen |-> bucket, floor |-> 0, known |-> VersionOf[First], owner |-> None,
                gone |-> {}, dropped |-> {}, debris |-> {}, next |-> None, bytes |-> None,
                result |-> None]
      BY DEF Nothing
    <3>3. my' = [my EXCEPT ![r] = c] /\ step' = [step EXCEPT ![r] = "finish"]
      BY <2>2 DEF Goto
    <3> HIDE DEF c1, e
    <3>4. c = [seen |-> bucket, floor |-> 0, known |-> VersionOf[First], owner |-> None,
                gone |-> {}, dropped |-> {}, debris |-> {}, next |-> None, bytes |-> None,
                result |-> e]
      BY <3>2
    <3> HIDE DEF c
    <3>5. c \in Carried /\ "finish" \in Steps
      BY <1>n, <3>1, <3>4, VersionsAreNat DEF Carried, Steps
    <3>m. Steps1(r) /\ my'[r] = c /\ step'[r] = "finish"  BY <1>t, <3>3, <3>5, Moved
    <3>6. /\ c.dropped = {} /\ c.next = None /\ c.debris = {} /\ c.seen = bucket /\ c.result = e
      BY <3>4
    <3>7. e # None  BY <3>1, NoneAssumption
    <3> QED BY <1>t, <1>n, <3>m, <3>6, <3>7 DEF Carries, Ready, Past, Building, Unlinked
  <2>3. CASE kind[r] = "pull" /\ my' = [my EXCEPT ![r].seen = bucket] /\ Goto(r, "fetch")
    <3> DEFINE c == [my[r] EXCEPT !.seen = bucket]
    <3>1. my' = [my EXCEPT ![r] = c] /\ step' = [step EXCEPT ![r] = "fetch"]
      BY <2>3 DEF Goto
    <3>2. c \in Carried /\ "fetch" \in Steps  BY <1>t, <1>n DEF Carried, Steps
    <3>3. /\ c.dropped = my[r].dropped /\ c.next = my[r].next /\ c.debris = my[r].debris
          /\ c.seen = bucket /\ c.result = my[r].result
      BY <1>t DEF Carried
    <3> HIDE DEF c
    <3>m. Steps1(r) /\ my'[r] = c /\ step'[r] = "fetch"  BY <1>t, <3>1, <3>2, Moved
    <3>4. step[r] = "open"  BY <1>1 DEF Open
    <3> QED BY <1>t, <1>n, <2>3, <3>m, <3>3, <3>4 DEF Carries, Ready, Past, Building, Unlinked
  <2>4. CASE /\ kind[r] = "heal"
             /\ my' = [my EXCEPT ![r].seen = Head.source, ![r].floor = Head.floor]
             /\ Goto(r, "build")
    <3> DEFINE c == [my[r] EXCEPT !.seen = Head.source, !.floor = Head.floor]
    <3>1. my' = [my EXCEPT ![r] = c] /\ step' = [step EXCEPT ![r] = "build"]
      BY <2>4, <1>t DEF Goto, TypeOK
    <3>2. c \in Carried /\ "build" \in Steps  BY <1>t, <1>h DEF Carried, Steps
    <3>3. /\ c.dropped = my[r].dropped /\ c.next = my[r].next /\ c.debris = my[r].debris
          /\ c.seen = Head.source /\ c.result = my[r].result /\ c.floor = Head.floor
      BY <1>t DEF Carried
    <3> HIDE DEF c
    <3>m. Steps1(r) /\ my'[r] = c /\ step'[r] = "build"  BY <1>t, <3>1, <3>2, Moved
    <3>4. step[r] = "open"  BY <1>1 DEF Open
    <3>5. Head.floor # 0 /\ Head.source # None  BY <1>h, <1>n, VersionsAreNat
    <3> QED BY <1>t, <2>4, <3>m, <3>3, <3>4, <3>5 DEF Carries, Ready, Past, Building, Unlinked
  <2> QED BY <1>1, <2>1, <2>2, <2>3, <2>4 DEF Open
<1>2. CASE Fetch(r)
  <2>1. CASE Goto(r, "build") /\ UNCHANGED my
    <3>1. Steps1(r) /\ my'[r] = my[r] /\ step'[r] = "build"  BY <1>t, <2>1, Went DEF Steps
    <3>2. step[r] = "fetch"  BY <1>2 DEF Fetch
    <3> QED BY <1>t, <3>1, <3>2 DEF Carries, Ready, Past, Building, Unlinked
  <2>2. CASE Fails(r)  BY <1>t, <2>2, FailsCarries
  <2> QED BY <1>2, <2>1, <2>2 DEF Fetch
<1>3. CASE Build(r)
  <2>1. step[r] = "build" /\ Goto(r, "storage?") /\ UNCHANGED my  BY <1>3 DEF Build
  <2>2. Steps1(r) /\ my'[r] = my[r] /\ step'[r] = "storage?"  BY <1>t, <2>1, Went DEF Steps
  <2> QED BY <1>t, <2>1, <2>2 DEF Carries, Ready, Past, Building, Unlinked
<1> QED BY <1>1, <1>2, <1>3

LEMMA PublishCarries ==
  ASSUME Sound, NEW r \in Runs,
         FenceStorage(r) \/ FenceImport(r) \/ Records(r) \/ Link(r) \/ Latch(r)
  PROVE  Carries(r)
<1>t. TypeOK /\ Ready(r) /\ my[r] \in Carried /\ kind' = kind /\ step[r] \notin Past
  BY DEF Sound, TypeOK, FenceStorage, FenceImport, Records, Link, Latch, world, Past
<1>f. ASSUME Fails(r) PROVE Carries(r)  BY <1>t, <1>f, FailsCarries
<1>g. ASSUME NEW s \in {"storage?", "import?", "records"}, step[r] \in Building,
             Goto(r, s), UNCHANGED my
      PROVE  Carries(r)
  <2>1. Steps1(r) /\ my'[r] = my[r] /\ step'[r] = s  BY <1>t, <1>g, Went DEF Steps
  <2> QED BY <1>t, <1>g, <2>1 DEF Carries, Ready, Past, Building, Unlinked
<1>1. CASE FenceStorage(r)  BY <1>1, <1>f, <1>g DEF FenceStorage, Building
<1>2. CASE FenceImport(r)  BY <1>2, <1>f, <1>g DEF FenceImport, Building
<1>3. CASE Records(r)
  <2> DEFINE floor == IF kind[r] = "pull" THEN VersionOf[my[r].seen] ELSE my[r].floor
             n == [seq |-> HeadSeq + 1, floor |-> floor]
             c == [my[r] EXCEPT !.next = n]
  <2>1. CASE Fails(r)  BY <2>1, <1>f
  <2>2. CASE my' = [my EXCEPT ![r].next = n] /\ Goto(r, "link")
    <3>1. step[r] = "records"  BY <1>3 DEF Records
    <3>2. floor \in Versions
      <4>1. my[r].seen \in Manifests /\ (kind[r] # "pull" => my[r].floor \in Versions)
        BY <1>t, <3>1, CarriedFields DEF Ready, Building
      <4> QED BY <4>1, VersionIn
    <3>3. HeadSeq + 1 \in Seqs
      <4>1. /\ HeadSeq \in Nat \ {0} /\ HeadSeq <= 1 + Cardinality(Through)
            /\ Cardinality(Runs) \in Nat
        BY HeadIsCommit, RunsAreCounted DEF Sound, Ordered
      <4>2. Through \cup {r} \in SUBSET Runs /\ r \notin Through /\ Through \in SUBSET Runs
        BY <3>1 DEF Through, Unlinked, Building
      <4>3. Cardinality(Through \cup {r}) <= Cardinality(Runs) /\ IsFiniteSet(Through)
        BY <4>2, FS_Subset, ShareAssumption
      <4>4. /\ Cardinality(Through \cup {r}) = Cardinality(Through) + 1
            /\ Cardinality(Through) \in Nat
        BY <4>2, <4>3, FS_AddElement, FS_CardinalityType
      <4> QED BY <4>1, <4>3, <4>4 DEF Seqs
    <3> HIDE DEF floor
    <3>4. n \in Place /\ n.seq = HeadSeq + 1  BY <3>2, <3>3 DEF Place
    <3>5. n # None  BY <3>4, NoneAssumption
    <3>6. my' = [my EXCEPT ![r] = c] /\ step' = [step EXCEPT ![r] = "link"]
      BY <2>2 DEF Goto
    <3> HIDE DEF n
    <3>7. c \in Carried /\ "link" \in Steps  BY <1>t, <3>4 DEF Carried, Steps
    <3>8. /\ c.dropped = my[r].dropped /\ c.next = n /\ c.debris = my[r].debris
          /\ c.seen = my[r].seen /\ c.result = my[r].result /\ c.floor = my[r].floor
      BY <1>t DEF Carried
    <3> HIDE DEF c
    <3>m. Steps1(r) /\ my'[r] = c /\ step'[r] = "link"  BY <1>t, <3>6, <3>7, Moved
    <3> QED BY <1>t, <3>1, <3>4, <3>5, <3>8, <3>m DEF Carries, Ready, Past, Building, Unlinked
  <2> QED BY <1>3, <2>1, <2>2 DEF Records
<1>4. CASE Link(r)
  <2>1. CASE Goto(r, "latch") /\ UNCHANGED my
    <3>1. Steps1(r) /\ my'[r] = my[r] /\ step'[r] = "latch"  BY <1>t, <2>1, Went DEF Steps
    <3>2. step[r] = "link"  BY <1>4 DEF Link
    <3> QED BY <1>t, <3>1, <3>2 DEF Carries, Ready, Past, Building, Unlinked
  <2>2. CASE Goto(r, "storage?")  BY <1>4, <2>2, <1>g DEF Link, Building
  <2> QED BY <1>4, <2>1, <2>2 DEF Link
<1>5. CASE Latch(r)
  <2> DEFINE e == Ended(r, "succeeded", my[r].next.seq, FALSE)
  <2>1. step[r] = "latch" /\ Outcome(r, e, VersionOf[First])  BY <1>5 DEF Latch
  <2>2. my[r].next.seq \in Seqs
    BY <1>t, <2>1, CarriedFields DEF Ready, Place
  <2>3. e \in Attempt  BY <2>2 DEF Ended, Attempt, Owners
  <2>4. e # None  BY <2>3, NoneAssumption
  <2> HIDE DEF e
  <2> QED BY <1>t, <2>1, <2>3, <2>4, VersionsAreNat, OutcomeIs
          DEF Carries, Ready, Past, Building, Unlinked
<1> QED BY <1>1, <1>2, <1>3, <1>4, <1>5

LEMMA FinishCarries ==
  ASSUME Sound, NEW r \in Runs,
         \/ FinishRead(r) \/ FinishClaim(r) \/ FinishCompare(r) \/ FinishPublish(r)
         \/ FinishReturn(r) \/ FinishClean(r) \/ Remember(r)
  PROVE  Carries(r)
<1>t. TypeOK /\ Ready(r) /\ my[r] \in Carried /\ kind' = kind
  BY DEF Sound, TypeOK, FinishRead, FinishClaim, FinishCompare, FinishPublish, FinishReturn,
         FinishClean, Remember, world
<1>i. step[r] \in {"finish", "claim", "compare", "publish", "return", "clean", "remember"}
  BY DEF FinishRead, FinishClaim, FinishCompare, FinishPublish, FinishReturn, FinishClean, Remember
<1>l. ASSUME NEW s \in Steps, step' = [step EXCEPT ![r] = s], UNCHANGED my,
             s \in {"compare", "publish", "return", "clean", "leave import", "done"},
             s = "publish" => step[r] = "compare", s = "compare" => step[r] = "claim",
             s = "clean" => attempt' # None
      PROVE  Carries(r)
  <2>1. my' = [my EXCEPT ![r] = my[r]]  BY <1>t, <1>l DEF TypeOK
  <2>2. Steps1(r) /\ my'[r] = my[r] /\ step'[r] = s  BY <1>t, <1>l, <2>1, Moved
  <2> QED BY <1>t, <1>i, <1>l, <2>2 DEF Carries, Ready, Past, Building, Unlinked
<1>d. ASSUME NEW s \in Steps, step' = [step EXCEPT ![r] = s],
             NEW b \in Attempt \cup {None}, s \in {"leave import", "clean"},
             \/ my' = [my EXCEPT ![r].result = None]
             \/ my' = [my EXCEPT ![r].result = None, ![r].bytes = b],
             s = "clean" => attempt' # None
      PROVE  Carries(r)
  <2> DEFINE c1 == [my[r] EXCEPT !.result = None]
             c2 == [my[r] EXCEPT !.result = None, !.bytes = b]
  <2>1. my' = [my EXCEPT ![r] = c1] \/ my' = [my EXCEPT ![r] = c2]  BY <1>d
  <2>2. c1 \in Carried /\ c2 \in Carried  BY <1>t DEF Carried
  <2>3. /\ c1.dropped = my[r].dropped /\ c1.next = my[r].next /\ c1.debris = my[r].debris
        /\ c1.seen = my[r].seen /\ c1.result = None
        /\ c2.dropped = my[r].dropped /\ c2.next = my[r].next /\ c2.debris = my[r].debris
        /\ c2.seen = my[r].seen /\ c2.result = None
    BY <1>t DEF Carried
  <2> HIDE DEF c1, c2
  <2>4. step' = [step EXCEPT ![r] = s]  BY <1>d
  <2>m. Steps1(r) /\ my'[r] \in {c1, c2} /\ step'[r] = s  BY <1>t, <2>1, <2>2, <2>4, Moved
  <2> QED BY <1>t, <1>i, <1>d, <2>3, <2>m DEF Carries, Ready, Past, Building, Unlinked
<1>o. ASSUME Lost(r) PROVE Carries(r)
  <2>1. /\ step' = [step EXCEPT ![r] = "leave import"]
        /\ my' = [my EXCEPT ![r].result = None, ![r].bytes = None]
    BY <1>o DEF Lost, Goto
  <2> QED BY <2>1, <1>d DEF Steps
<1>1. CASE FinishRead(r)
  <2>1. CASE Lost(r)  BY <2>1, <1>o
  <2>2. CASE /\ attempt = Ended(r, "active", 0, FALSE)
             /\ my' = [my EXCEPT ![r].bytes = attempt] /\ Goto(r, "claim")
    <3> DEFINE c == [my[r] EXCEPT !.bytes = attempt]
    <3>1. my' = [my EXCEPT ![r] = c] /\ step' = [step EXCEPT ![r] = "claim"]
      BY <2>2 DEF Goto
    <3>2. c \in Carried /\ "claim" \in Steps  BY <1>t DEF TypeOK, Carried, Steps
    <3>3. /\ c.dropped = my[r].dropped /\ c.next = my[r].next /\ c.debris = my[r].debris
          /\ c.seen = my[r].seen /\ c.result = my[r].result
      BY <1>t DEF Carried
    <3> HIDE DEF c
    <3>m. Steps1(r) /\ my'[r] = c /\ step'[r] = "claim"  BY <1>t, <3>1, <3>2, Moved
    <3>4. step[r] = "finish"  BY <1>1 DEF FinishRead
    <3> QED BY <1>t, <3>m, <3>3, <3>4 DEF Carries, Ready, Past, Building, Unlinked
  <2> QED BY <1>1, <2>1, <2>2 DEF FinishRead
<1>2. CASE FinishClaim(r)
  BY <1>2, <1>l, <1>o DEF FinishClaim, Goto, Steps
<1>3. CASE FinishCompare(r)
  BY <1>3, <1>l DEF FinishCompare, Goto, Steps
<1>4. CASE FinishPublish(r)
  <2>1. step[r] = "publish" /\ step' = [step EXCEPT ![r] = "clean"] /\ my[r].result # None
    BY <1>4, <1>t DEF FinishPublish, Goto, Ready
  <2>2. CASE UNCHANGED my /\ attempt' = my[r].result
    BY <2>1, <2>2, <1>l DEF Steps
  <2>3. CASE my' = [my EXCEPT ![r].result = None] /\ attempt # None /\ attempt' = attempt
    BY <2>1, <2>3, <1>d DEF Steps
  <2> QED BY <1>4, <2>2, <2>3 DEF FinishPublish
<1>5. CASE FinishReturn(r)
  BY <1>5, <1>d DEF FinishReturn, Goto, Steps
<1>6. CASE FinishClean(r)
  BY <1>6, <1>l DEF FinishClean, Goto, Steps
<1>7. CASE Remember(r)
  BY <1>7, <1>l DEF Remember, Goto, Steps
<1> QED BY <1>1, <1>2, <1>3, <1>4, <1>5, <1>6, <1>7

\* Every step of a run carries.
LEMMA RunCarries ==
  ASSUME Sound, NEW r \in Runs, Run(r)
  PROVE  Carries(r)
  BY LeasesCarry, SweepCarries, RecoveryCarries, ImportCarries, PublishCarries, FinishCarries
     DEF Run

\* So does a failure, and a run that dies carries nothing.
LEMMA FaultCarries ==
  ASSUME Sound, NEW r \in Runs, Crash(r) \/ Fail(r)
  PROVE  Carries(r)
<1>t. TypeOK /\ Ready(r) /\ my[r] \in Carried  BY DEF Sound, TypeOK
<1>1. CASE Crash(r)
  <2>1. my' = [my EXCEPT ![r] = Nothing] /\ step' = [step EXCEPT ![r] = "done"] /\ kind' = kind
    BY <1>1 DEF Crash, Goto
  <2>2. Steps1(r) /\ my'[r] = Nothing /\ step'[r] = "done"
    BY <1>t, <2>1, NothingIsCarried, Moved DEF Steps
  <2>3. Nothing.dropped = {} /\ Nothing.next = None /\ Nothing.debris = {} /\ Nothing.result = None
    BY DEF Nothing
  <2> QED BY <2>1, <2>2, <2>3 DEF Carries, Ready, Past, Building, Unlinked
<1>2. CASE Fail(r)
  <2>1. Fails(r) /\ UNCHANGED kind /\ step[r] \notin Past  BY <1>2 DEF Fail, Past
  <2> QED BY <2>1, FailsCarries
<1> QED BY <1>1, <1>2

\* A step is of one run, or of none.
LEMMA NextCarries ==
  ASSUME Sound, Next
  PROVE  UNCHANGED <<my, step, kind>> \/ (kind' = kind /\ \E r \in Runs : Carries(r))
<1>1. CASE \E r \in Runs : RunStep(r)
  <2>1. PICK r \in Runs : RunStep(r)  BY <1>1
  <2>2. kind' = kind
    BY <2>1 DEF RunStep, Run, AcquireStorage, AcquireImport, LeaveImport, LeaveStorage, SweepOwner,
                SweepScan, SweepGens, SweepRecords, RecoverScan, RecoverStat, RecoverRestore,
                RecoverTidy, Start, Open, Fetch, Build, FenceStorage, FenceImport, Records, Link,
                Latch, FinishRead, FinishClaim, FinishCompare, FinishPublish, FinishReturn,
                FinishClean, Remember, world
  <2> QED BY <2>1, <2>2, RunCarries DEF RunStep
<1>2. CASE \E r \in Runs : Heartbeat(r)  BY <1>2 DEF Heartbeat, world
<1>3. CASE \E r \in Runs : Lapse(r)  BY <1>3 DEF Lapse
<1>4. CASE \E r \in Runs : Crash(r) \/ Fail(r)
  <2>1. PICK r \in Runs : Crash(r) \/ Fail(r)  BY <1>4
  <2> QED BY <2>1, FaultCarries DEF Crash, Fail
<1>5. CASE Damage  BY <1>5 DEF Damage
<1>6. CASE \E m \in Manifests : Move(m)  BY <1>6 DEF Move
<1> QED BY <1>1, <1>2, <1>3, <1>4, <1>5, <1>6 DEF Next

\* What a collector forgets, and what a run links.
Forgets(r) ==
    /\ step[r] = "forget"
    /\ commits' = [s \in Seqs |-> IF s \in my[r].dropped THEN None ELSE commits[s]]
Links(r) ==
    LET n == my[r].next IN
    /\ step[r] = "link" /\ step'[r] = "latch"
    /\ commits[n.seq] = None
    /\ commits' = [commits EXCEPT ![n.seq] = [run |-> r, source |-> my[r].seen, floor |-> n.floor]]
    /\ top' = IF n.floor > top THEN n.floor ELSE top
    /\ UNCHANGED <<gens, my, kind, attempt, claims, latest, opened>>

LEMMA CommitsMove ==
  ASSUME Sound, Next
  PROVE  \/ UNCHANGED <<commits, top>>
         \/ \E r \in Runs : Forgets(r) /\ UNCHANGED <<top, gens, attempt, claims, latest, opened>>
         \/ \E r \in Runs : Links(r)
<1>1. CASE \E r \in Runs : RunStep(r)
  <2>1. PICK r \in Runs : RunStep(r)  BY <1>1
  <2>2. Run(r)  BY <2>1 DEF RunStep
  <2>3. CASE SweepRecords(r)  BY <2>3 DEF SweepRecords, Forgets, record
  <2>4. CASE Link(r)
    <3>1. Goto(r, "latch") => step'[r] = "latch"  BY DEF Goto, Sound, TypeOK
    <3> QED BY <2>4, <3>1 DEF Link, Links, record, world
  <2>5. CASE ~ SweepRecords(r) /\ ~ Link(r)
    BY <2>2, <2>5
       DEF Run, AcquireStorage, AcquireImport, LeaveImport, LeaveStorage, SweepOwner,
           SweepScan, SweepGens, RecoverScan, RecoverStat, RecoverRestore,
           RecoverTidy, Start, Open, Fetch, Build, FenceStorage, FenceImport, Records,
           Latch, FinishRead, FinishClaim, FinishCompare, FinishPublish, FinishReturn,
           FinishClean, Remember, published
  <2> QED BY <2>3, <2>4, <2>5
<1>2. CASE \E r \in Runs : Heartbeat(r)  BY <1>2 DEF Heartbeat, published
<1>3. CASE \E r \in Runs : Lapse(r)  BY <1>3 DEF Lapse
<1>4. CASE \E r \in Runs : Crash(r) \/ Fail(r)  BY <1>4 DEF Crash, Fail, published
<1>5. CASE Damage  BY <1>5 DEF Damage
<1>6. CASE \E m \in Manifests : Move(m)  BY <1>6 DEF Move, published
<1> QED BY <1>1, <1>2, <1>3, <1>4, <1>5, <1>6 DEF Next

\* The head of any commit records whose highest number is h.
LEMMA HeadOf ==
  ASSUME NEW c, NEW h \in Seqs, c[h] # None, \A t \in Seqs : c[t] # None => t <= h
  PROVE  (CHOOSE s \in {u \in Seqs : c[u] # None} : \A t \in {u \in Seqs : c[u] # None} : t <= s) = h
<1> DEFINE L == {u \in Seqs : c[u] # None}
<1>1. h \in L /\ \A t \in L : t <= h  OBVIOUS
<1>2. L \in SUBSET Nat  BY RunsAreCounted
<1> HIDE DEF L
<1>3. \A s \in L : (\A t \in L : t <= s) => s = h  BY <1>1, <1>2
<1>4. (CHOOSE s \in L : \A t \in L : t <= s) = h  BY <1>1, <1>3
<1> QED BY <1>4 DEF L

LEMMA NewHead ==
  ASSUME NEW k \in Seqs, commits'[k] # None, \A t \in Seqs : commits'[t] # None => t <= k
  PROVE  HeadSeq' = k /\ Linked' # {} /\ Head' = commits'[k]
<1>1. HeadSeq' = k
  BY HeadOf DEF HeadSeq, Linked, Highest
<1> QED BY <1>1 DEF Linked, Head

\* What is linked is the new head, unless its number was taken from an older one.
LEMMA LinkMoves ==
  ASSUME Sound, NEW r \in Runs, Links(r)
  PROVE  /\ Linked' # {}
         /\ my[r].next.seq # HeadSeq + 1 => HeadSeq' = HeadSeq /\ Head' = Head
         /\ my[r].next.seq = HeadSeq + 1 =>
              /\ HeadSeq' = HeadSeq + 1
              /\ Head' = [run |-> r, source |-> my[r].seen, floor |-> my[r].next.floor]
<1> DEFINE h == HeadSeq
<1>h. /\ h \in Seqs /\ commits[h] # None /\ \A t \in Seqs : commits[t] # None => t <= h
      /\ commits \in [Seqs -> Commit \cup {None}] /\ h \in Nat
  BY HeadIsCommit, RunsAreCounted DEF Linked, Highest, Sound, TypeOK
<1> HIDE DEF h
<1> DEFINE n == my[r].next.seq
           rec == [run |-> r, source |-> my[r].seen, floor |-> my[r].next.floor]
<1>1. my[r].next # None /\ my[r].next \in Place \cup {None} /\ my[r].seen \in Manifests
  <2>1. my[r] \in Carried /\ Ready(r) /\ step[r] = "link"  BY DEF Sound, TypeOK, Links
  <2> QED BY <2>1, CarriedFields DEF Ready, Building
<1>2. n \in Seqs /\ my[r].next.floor \in Versions  BY <1>1 DEF Place
<1>3. rec \in Commit /\ rec # None
  BY <1>1, <1>2, NoneAssumption DEF Commit, Owners
<1> HIDE DEF rec
<1>4. n <= h + 1 /\ commits[n] = None /\ commits' = [commits EXCEPT ![n] = rec]
  BY <1>1 DEF Sound, Ordered, Links, h, rec
<1>5. /\ commits'[n] = rec /\ \A t \in Seqs \ {n} : commits'[t] = commits[t]
  BY <1>h, <1>2, <1>4
<1>i. n \in Nat /\ \A t \in Seqs : t \in Nat  BY <1>2, RunsAreCounted
<1>n. n # h  BY <1>h, <1>4
<1> HIDE DEF n
<1>6. CASE n = h + 1
  <2>1. \A t \in Seqs : commits'[t] # None => t <= n
    <3>1. SUFFICES ASSUME NEW t \in Seqs, commits'[t] # None PROVE t <= n  OBVIOUS
    <3>2. t = n \/ commits[t] # None  BY <1>5, <3>1
    <3> QED BY <1>h, <1>i, <1>6, <3>2
  <2> QED BY NewHead, <1>2, <1>3, <1>5, <1>6, <2>1 DEF h, rec, n
<1>7. CASE n # h + 1
  <2>1. n <= h /\ n # h  BY <1>h, <1>4, <1>7, <1>i, <1>n
  <2>2. \A t \in Seqs : commits'[t] # None => t <= h  BY <1>h, <1>5, <2>1
  <2>3. commits'[h] = commits[h]  BY <1>h, <1>5, <2>1
  <2> QED BY NewHead, <1>h, <1>7, <2>2, <2>3 DEF h, n, Head
<1> QED BY <1>6, <1>7

\* The head stays, or what is linked is the new one.
LEMMA HeadMoves ==
  ASSUME Sound, Next
  PROVE  /\ Linked' # {}
         /\ \/ HeadSeq' = HeadSeq /\ Head' = Head
            \/ \E r \in Runs : /\ Links(r) /\ my[r].next.seq = HeadSeq + 1
                               /\ HeadSeq' = HeadSeq + 1
                               /\ Head' = [run |-> r, source |-> my[r].seen,
                                           floor |-> my[r].next.floor]
<1> DEFINE h == HeadSeq
<1>h. /\ h \in Seqs /\ commits[h] # None /\ \A t \in Seqs : commits[t] # None => t <= h
      /\ commits \in [Seqs -> Commit \cup {None}] /\ h \in Nat
  BY HeadIsCommit, RunsAreCounted DEF Linked, Highest, Sound, TypeOK
<1> HIDE DEF h
<1>1. CASE UNCHANGED commits
  BY <1>1, <1>h, NewHead DEF h, Head
<1>2. ASSUME NEW r \in Runs, Forgets(r)
      PROVE  Linked' # {} /\ HeadSeq' = HeadSeq /\ Head' = Head
  <2>1. h \notin my[r].dropped
    BY <1>h DEF Sound, Ordered, h
  <2>2. commits'[h] = commits[h] /\ \A t \in Seqs : commits'[t] # None => commits[t] # None
    BY <1>2, <1>h, <2>1 DEF Forgets
  <2> QED BY <1>h, NewHead, <2>2 DEF h, Head
<1> QED BY <1>1, <1>2, LinkMoves, CommitsMove

\* Who has gone through with a link has.
LEMMA ThroughGrows ==
  ASSUME Sound, Next
  PROVE  Through \subseteq Through' /\ \A r \in Runs : Links(r) => r \in Through' \ Through
<1>1. \A q \in Runs : step[q] \notin Unlinked => step'[q] \notin Unlinked
  BY NextCarries DEF Carries, Steps1
<1> QED BY <1>1 DEF Through, Links, Unlinked, Building

LEMMA OrderedNext ==
  ASSUME Sound, Next
  PROVE  Ordered'
<1>1. /\ HeadSeq \in Nat /\ Linked' # {} /\ HeadSeq' \in {HeadSeq, HeadSeq + 1}
      /\ HeadSeq' # HeadSeq => \E r \in Runs : Links(r)
  BY HeadMoves, HeadIsCommit, RunsAreCounted
<1>2. HeadSeq' <= 1 + Cardinality(Through')
  <2>1. /\ IsFiniteSet(Through) /\ IsFiniteSet(Through')
        /\ Cardinality(Through) \in Nat /\ Cardinality(Through') \in Nat
    <3>1. Through \in SUBSET Runs /\ Through' \in SUBSET Runs  BY DEF Through
    <3> QED BY <3>1, FS_Subset, FS_CardinalityType, ShareAssumption
  <2>2. Cardinality(Through) <= Cardinality(Through')
    BY <2>1, ThroughGrows, FS_Subset
  <2>3. HeadSeq <= 1 + Cardinality(Through)  BY DEF Sound, Ordered
  <2>4. CASE HeadSeq' = HeadSeq  BY <1>1, <2>1, <2>2, <2>3, <2>4
  <2>5. CASE HeadSeq' # HeadSeq
    <3>1. PICK r \in Runs : Links(r)  BY <1>1, <2>5
    <3>2. Through \cup {r} \in SUBSET Through' /\ r \notin Through  BY <3>1, ThroughGrows
    <3>3. Cardinality(Through \cup {r}) = Cardinality(Through) + 1
      BY <2>1, <3>2, FS_AddElement
    <3>4. Cardinality(Through \cup {r}) <= Cardinality(Through')
      BY <2>1, <3>2, FS_Subset
    <3> QED BY <1>1, <2>1, <2>3, <3>3, <3>4
  <2> QED BY <2>4, <2>5
<1>3. ASSUME NEW r \in Runs
      PROVE  /\ \A s \in my'[r].dropped : s < HeadSeq'
             /\ my'[r].next # None => my'[r].next.seq <= HeadSeq' + 1
  <2>1. /\ \A s \in my[r].dropped : s \in Nat /\ s < HeadSeq
        /\ my[r].next # None => my[r].next.seq \in Nat /\ my[r].next.seq <= HeadSeq + 1
    <3>1. /\ my[r].dropped \in SUBSET Seqs /\ my[r].next \in Place \cup {None}
      BY CarriedFields DEF Sound, TypeOK
    <3> QED BY <3>1, RunsAreCounted DEF Sound, Ordered, Place
  <2>2. CASE my'[r] = my[r]
    BY <1>1, <2>1, <2>2
  <2>3. CASE Carries(r)
    <3>1. CASE my'[r].dropped \subseteq my[r].dropped \/ HeadSeq' # HeadSeq
      <4>1. my'[r].dropped \subseteq my[r].dropped
        BY <1>1, <2>3, <3>1, NextCarries DEF Carries, Links, Steps1
      <4>2. \A s \in my'[r].dropped : s < HeadSeq'  BY <1>1, <2>1, <4>1
      <4>3. my'[r].next \in {None, my[r].next} \/ (my'[r].next # None /\ my'[r].next.seq = HeadSeq + 1)
        BY <2>3 DEF Carries
      <4>4. my'[r].next # None => my'[r].next.seq <= HeadSeq' + 1
        BY <1>1, <2>1, <4>3
      <4> QED BY <4>2, <4>4
    <3>2. CASE my'[r].dropped = Linked \ KeptSeqs /\ HeadSeq' = HeadSeq
      <4>1. \A s \in Linked \ KeptSeqs : s < HeadSeq
        <5>1. HeadSeq \in KeptSeqs /\ \A s \in Linked : s <= HeadSeq /\ s \in Nat
          BY HeadIsCommit, RunsAreCounted DEF KeptSeqs, Highest, Linked
        <5> QED BY <1>1, <5>1
      <4>2. \A s \in my'[r].dropped : s < HeadSeq'  BY <3>2, <4>1
      <4>3. my'[r].next \in {None, my[r].next} \/ (my'[r].next # None /\ my'[r].next.seq = HeadSeq + 1)
        BY <2>3 DEF Carries
      <4>4. my'[r].next # None => my'[r].next.seq <= HeadSeq' + 1
        BY <1>1, <2>1, <4>3
      <4> QED BY <4>2, <4>4
    <3> QED BY <2>3, <3>1, <3>2 DEF Carries
  <2> QED BY <2>2, <2>3, NextCarries DEF Carries, Steps1
<1> QED BY <1>1, <1>2, <1>3 DEF Ordered

\* The files but the commits, and the counters.
FilesOK ==
    /\ storage \in Lease \cup {None} /\ import \in Lease \cup {None}
    /\ gens \in [Owners -> Generation \cup {None}]
    /\ attempt \in Attempt \cup {None} /\ claims \in [Runs -> Attempt \cup {None}]
    /\ last \in Versions /\ raced \in BOOLEAN /\ slept \in BOOLEAN /\ bucket \in Manifests
    /\ latest \in Owners /\ opened \in Manifests \cup {None}
    /\ lapses \in 0..MaxLapses /\ moves \in 0..MaxMoves /\ faults \in 0..MaxFaults

LEMMA RunFiles ==
  ASSUME Sound, NEW r \in Runs, Run(r)
  PROVE  /\ storage' \in Lease \cup {None} /\ import' \in Lease \cup {None}
         /\ gens' \in [Owners -> Generation \cup {None}]
         /\ attempt' \in Attempt \cup {None} /\ claims' \in [Runs -> Attempt \cup {None}]
         /\ last' \in Versions /\ latest' \in Owners /\ opened' \in Manifests \cup {None}
         /\ UNCHANGED world
<1>t. TypeOK /\ Ready(r) /\ my[r] \in Carried  BY DEF Sound, TypeOK
<1>c. /\ my[r].result \in Attempt \cup {None} /\ my[r].seen \in Manifests \cup {None}
      /\ my[r].debris \in SUBSET Runs
  BY <1>t, CarriedFields
<1>1. storage' \in Lease \cup {None} /\ import' \in Lease \cup {None}
  <2>1. CASE UNCHANGED leases  BY <1>t, <2>1 DEF TypeOK, leases
  <2>2. CASE AcquireStorage(r) \/ AcquireImport(r) \/ LeaveImport(r) \/ LeaveStorage(r)
    <3>1. [run |-> r, stale |-> FALSE] \in Lease  BY DEF Lease
    <3> QED BY <1>t, <2>2, <3>1 DEF TypeOK, AcquireStorage, AcquireImport, LeaveImport, LeaveStorage
  <2> QED
    BY <2>1, <2>2
       DEF Run, SweepOwner, SweepScan, SweepGens, SweepRecords, RecoverScan, RecoverStat,
           RecoverRestore, RecoverTidy, Start, Open, Fetch, Build, FenceStorage, FenceImport,
           Records, Link, Latch, FinishRead, FinishClaim, FinishCompare, FinishPublish,
           FinishReturn, FinishClean, Remember
<1>2. gens' \in [Owners -> Generation \cup {None}]
  <2>1. CASE UNCHANGED gens  BY <1>t, <2>1 DEF TypeOK
  <2>2. CASE SweepGens(r)  BY <1>t, <2>2 DEF TypeOK, SweepGens
  <2>3. CASE Build(r)
    <3>1. [old |-> FALSE, whole |-> TRUE] \in Generation  BY DEF Generation
    <3> QED BY <1>t, <2>3, <3>1 DEF TypeOK, Build
  <2> QED
    BY <2>1, <2>2, <2>3
       DEF Run, AcquireStorage, AcquireImport, LeaveImport, LeaveStorage, SweepOwner,
           SweepScan, SweepRecords, RecoverScan, RecoverStat, RecoverRestore,
           RecoverTidy, Start, Open, Fetch, FenceStorage, FenceImport, Records, Link, Latch,
           FinishRead, FinishClaim, FinishCompare, FinishPublish, FinishReturn,
           FinishClean, Remember, published
<1>3. /\ attempt' \in Attempt \cup {None} /\ claims' \in [Runs -> Attempt \cup {None}]
      /\ latest' \in Owners /\ opened' \in Manifests \cup {None}
  <2>1. CASE UNCHANGED record  BY <1>t, <2>1 DEF TypeOK, record
  <2>2. CASE RecoverRestore(r)  BY <1>t, <1>c, <2>2 DEF TypeOK, RecoverRestore
  <2>3. CASE RecoverTidy(r)  BY <1>t, <2>3 DEF TypeOK, RecoverTidy
  <2>4. CASE Start(r)
    <3>1. Ended(r, "active", 0, FALSE) \in Attempt  BY DEF Ended, Attempt, Owners
    <3> QED BY <1>t, <2>4, <3>1 DEF TypeOK, Start, Owners
  <2>5. CASE Open(r)  BY <1>t, <2>5 DEF TypeOK, Open
  <2>6. CASE FinishClaim(r)  BY <1>t, <2>6 DEF TypeOK, FinishClaim
  <2>7. CASE FinishPublish(r)  BY <1>t, <1>c, <2>7 DEF TypeOK, FinishPublish
  <2>8. CASE FinishReturn(r)  BY <1>t, <2>8 DEF TypeOK, FinishReturn
  <2>9. CASE FinishClean(r)  BY <1>t, <2>9 DEF TypeOK, FinishClean
  <2> QED
    BY <2>1, <2>2, <2>3, <2>4, <2>5, <2>6, <2>7, <2>8, <2>9
       DEF Run, AcquireStorage, AcquireImport, LeaveImport, LeaveStorage, SweepOwner,
           SweepScan, SweepGens, SweepRecords, RecoverScan, RecoverStat, Fetch, Build,
           FenceStorage, FenceImport, Records, Link, Latch, FinishRead, FinishCompare, Remember
<1>4. last' \in Versions
  <2>1. CASE UNCHANGED last  BY <1>t, <2>1 DEF TypeOK
  <2>2. CASE Remember(r)  BY <1>t, <1>c, <2>2, VersionIn DEF Remember, Ready
  <2> QED
    BY <2>1, <2>2
       DEF Run, AcquireStorage, AcquireImport, LeaveImport, LeaveStorage, SweepOwner,
           SweepScan, SweepGens, SweepRecords, RecoverScan, RecoverStat, RecoverRestore,
           RecoverTidy, Start, Open, Fetch, Build, FenceStorage, FenceImport, Records, Link,
           Latch, FinishRead, FinishClaim, FinishCompare, FinishPublish, FinishReturn, FinishClean
<1>5. UNCHANGED world
  BY DEF Run, AcquireStorage, AcquireImport, LeaveImport, LeaveStorage, SweepOwner,
         SweepScan, SweepGens, SweepRecords, RecoverScan, RecoverStat, RecoverRestore,
         RecoverTidy, Start, Open, Fetch, Build, FenceStorage, FenceImport, Records, Link,
         Latch, FinishRead, FinishClaim, FinishCompare, FinishPublish, FinishReturn,
         FinishClean, Remember
<1> QED BY <1>1, <1>2, <1>3, <1>4, <1>5

LEMMA FilesNext ==
  ASSUME Sound, Next
  PROVE  FilesOK'
<1>t. TypeOK /\ FilesOK  BY DEF Sound, TypeOK, FilesOK
<1>b. MaxLapses \in Nat /\ MaxMoves \in Nat /\ MaxFaults \in Nat  BY ShareAssumption
<1>1. ASSUME NEW r \in Runs, RunStep(r) PROVE FilesOK'
  <2>1. Run(r) /\ raced' \in BOOLEAN  BY <1>1, <1>t DEF RunStep, TypeOK
  <2> QED BY <1>t, <2>1, RunFiles DEF FilesOK, world
<1>2. ASSUME NEW r \in Runs, Heartbeat(r), UNCHANGED raced PROVE FilesOK'
  BY <1>2, <1>t DEF FilesOK, Heartbeat, Holds, Lease, record, published, world
<1>3. ASSUME NEW r \in Runs, Lapse(r), UNCHANGED raced PROVE FilesOK'
  <2>1. storage' \in Lease \cup {None} /\ import' \in Lease \cup {None}
    BY <1>3, <1>t DEF FilesOK, Lapse, Holds, Lease
  <2>2. gens' \in [Owners -> Generation \cup {None}]
    BY <1>3, <1>t DEF FilesOK, Lapse, Generation
  <2>3. lapses' \in 0 .. MaxLapses  BY <1>3, <1>t, <1>b DEF FilesOK, Lapse
  <2> QED BY <1>3, <1>t, <2>1, <2>2, <2>3 DEF FilesOK, Lapse, record
<1>4. ASSUME NEW r \in Runs, Crash(r), UNCHANGED raced PROVE FilesOK'
  BY <1>4, <1>t, <1>b DEF FilesOK, Crash, Faulty, record, published, leases
<1>5. ASSUME NEW r \in Runs, Fail(r), UNCHANGED raced PROVE FilesOK'
  <2>1. gens' \in [Owners -> Generation \cup {None}]
    <3>1. [old |-> FALSE, whole |-> FALSE] \in Generation  BY DEF Generation
    <3> QED BY <1>5, <1>t, <3>1 DEF FilesOK, Fail
  <2> QED BY <1>5, <1>t, <1>b, <2>1 DEF FilesOK, Fail, Faulty, record, leases
<1>6. ASSUME Damage, UNCHANGED raced PROVE FilesOK'
  <2>1. gens' \in [Owners -> Generation \cup {None}]
    BY <1>6, <1>t, HeadIsCommit DEF FilesOK, Damage, Intact, Generation, Commit
  <2> QED BY <1>6, <1>t, <1>b, <2>1 DEF FilesOK, Damage, Faulty, record, leases
<1>7. ASSUME NEW m \in Manifests, Move(m), UNCHANGED raced PROVE FilesOK'
  BY <1>7, <1>t, <1>b DEF FilesOK, Move, record, published, leases
<1> QED BY <1>1, <1>2, <1>3, <1>4, <1>5, <1>6, <1>7 DEF Next

\* Every file and every run keeps its type.
LEMMA TypesNext ==
  ASSUME Sound, Next
  PROVE  TypeOK'
<1>t. TypeOK /\ \A r \in Runs : Ready(r)  BY DEF Sound
<1>c. \A r \in Runs : /\ my[r].result \in Attempt \cup {None} /\ my[r].seen \in Manifests \cup {None}
                      /\ my[r].next \in Place \cup {None}
  BY <1>t, CarriedFields DEF TypeOK
<1>m. my' \in [Runs -> Carried] /\ step' \in [Runs -> Steps]
  BY <1>t, NextCarries DEF Carries, Steps1, TypeOK
<1>k. kind' \in Crews  BY <1>t, NextCarries DEF TypeOK
<1>v. /\ commits' \in [Seqs -> Commit \cup {None}] /\ top' \in Versions
  <2>1. CASE UNCHANGED <<commits, top>>  BY <1>t, <2>1 DEF TypeOK
  <2>2. ASSUME NEW r \in Runs, Forgets(r), UNCHANGED top
        PROVE  commits' \in [Seqs -> Commit \cup {None}] /\ top' \in Versions
    BY <1>t, <2>2 DEF TypeOK, Forgets
  <2>3. ASSUME NEW r \in Runs, Links(r)
        PROVE  commits' \in [Seqs -> Commit \cup {None}] /\ top' \in Versions
    <3>1. my[r].next \in Place /\ my[r].seen \in Manifests
      BY <1>t, <1>c, <2>3 DEF Links, Ready, Building
    <3>2. my[r].next.seq \in Seqs /\ my[r].next.floor \in Versions  BY <3>1 DEF Place
    <3>3. [run |-> r, source |-> my[r].seen, floor |-> my[r].next.floor] \in Commit
      BY <3>1, <3>2 DEF Commit, Owners
    <3> QED BY <1>t, <2>3, <3>2, <3>3 DEF Links, TypeOK
  <2> QED BY <2>1, <2>2, <2>3, CommitsMove
<1>o. FilesOK'  BY FilesNext
<1> QED BY <1>m, <1>k, <1>v, <1>o DEF TypeOK, FilesOK

\* What a step does to the attempt record and its claims.
Claims(r) ==
    /\ step[r] = "claim" /\ step'[r] = "compare" /\ attempt # None /\ attempt' = None
    /\ claims' = [claims EXCEPT ![r] = attempt]
Tidies(r) ==
    /\ step[r] = "tidy" /\ attempt' = attempt
    /\ claims' = [x \in Runs |-> IF x \in my[r].debris THEN None ELSE claims[x]]
Cleans(r) ==
    /\ step[r] = "clean" /\ attempt' = attempt
    /\ claims' = [claims EXCEPT ![r] = None]

LEMMA ClaimsMove ==
  ASSUME Sound, Next
  PROVE  \/ claims' = claims /\ (attempt' = attempt \/ attempt' # None)
         \/ \E r \in Runs : Claims(r) \/ Tidies(r) \/ Cleans(r)
<1>1. CASE \E r \in Runs : RunStep(r)
  <2>1. PICK r \in Runs : RunStep(r)  BY <1>1
  <2>t. TypeOK /\ Ready(r)  BY DEF Sound
  <2>2. CASE UNCHANGED <<attempt, claims>>  BY <2>2
  <2>3. CASE RecoverRestore(r)
    <3>1. CASE attempt' = attempt  BY <2>3, <3>1 DEF RecoverRestore
    <3>2. CASE attempt' # attempt
      <4>1. PICK x \in my[r].debris : claims[x] # None /\ attempt' = claims[x]
        BY <2>3, <3>2 DEF RecoverRestore
      <4> QED BY <2>3, <4>1 DEF RecoverRestore
    <3> QED BY <3>1, <3>2
  <2>4. CASE RecoverTidy(r)  BY <2>4 DEF RecoverTidy, Tidies
  <2>5. CASE Start(r)
    <3>1. Ended(r, "active", 0, FALSE) \in Attempt  BY DEF Ended, Attempt, Owners
    <3> QED BY <2>5, <3>1, NoneAssumption DEF Start
  <2>6. CASE FinishClaim(r)
    <3>1. Goto(r, "compare") => step'[r] = "compare"  BY <2>t DEF Goto, TypeOK
    <3> QED BY <2>6, <3>1 DEF FinishClaim, Claims
  <2>7. CASE FinishPublish(r)  BY <2>t, <2>7 DEF FinishPublish, Ready
  <2>8. CASE FinishReturn(r)  BY <2>8 DEF FinishReturn
  <2>9. CASE FinishClean(r)  BY <2>9 DEF FinishClean, Cleans
  <2> QED
    BY <2>1, <2>2, <2>3, <2>4, <2>5, <2>6, <2>7, <2>8, <2>9
       DEF RunStep, Run, AcquireStorage, AcquireImport, LeaveImport, LeaveStorage, SweepOwner,
           SweepScan, SweepGens, SweepRecords, RecoverScan, RecoverStat, Open, Fetch, Build,
           FenceStorage, FenceImport, Records, Link, Latch, FinishRead, FinishCompare, Remember,
           record
<1>2. CASE \E r \in Runs : Heartbeat(r)  BY <1>2 DEF Heartbeat, record
<1>3. CASE \E r \in Runs : Lapse(r)  BY <1>3 DEF Lapse, record
<1>4. CASE \E r \in Runs : Crash(r) \/ Fail(r)  BY <1>4 DEF Crash, Fail, record
<1>5. CASE Damage  BY <1>5 DEF Damage, record
<1>6. CASE \E m \in Manifests : Move(m)  BY <1>6 DEF Move, record
<1> QED BY <1>1, <1>2, <1>3, <1>4, <1>5, <1>6 DEF Next

LEMMA KeptNext ==
  ASSUME Sound, Next
  PROVE  Kept'
<1>t. /\ claims \in [Runs -> Attempt \cup {None}] /\ step \in [Runs -> Steps]
      /\ \A r \in Runs : my[r].debris \in SUBSET Runs
  BY CarriedFields DEF Sound, TypeOK
<1>k. Kept  BY DEF Sound
<1>n. \A q \in Runs : (my'[q] = my[q] /\ step'[q] = step[q]) \/ Carries(q)
  BY NextCarries DEF Carries, Steps1
<1>p. \A q \in Runs : step[q] \in Past => step'[q] \in Past
  BY <1>n DEF Carries
<1>c. \A x \in Claimed' : x \in Claimed \/ (step[x] = "claim" /\ step'[x] = "compare")
  BY <1>t, ClaimsMove DEF Claimed, Claims, Tidies, Cleans
<1>1. \A x \in Claimed' : step'[x] \in Past
  BY <1>k, <1>p, <1>c DEF Kept, Past, Claimed
<1>2. ASSUME NEW r \in Runs, NEW x \in my'[r].debris PROVE step'[x] \in Past
  <2>1. x \in my[r].debris \/ x \in Claimed  BY <1>n, <1>2 DEF Carries
  <2> QED BY <1>k, <1>t, <1>p, <2>1 DEF Kept, Claimed
<1>3. ASSUME attempt' = None
      PROVE  \E u \in Claimed' :
               step'[u] # "clean" /\ \A r \in Runs : step'[r] = "tidy" => u \notin my'[r].debris
  <2>1. \A q \in Runs : step'[q] = "tidy" => step[q] = "tidy" /\ my'[q] = my[q]
    BY <1>n, <1>3 DEF Carries
  <2>2. \A q \in Runs : step'[q] = "clean" => step[q] = "clean"
    BY <1>n, <1>3 DEF Carries
  <2>3. ASSUME NEW u \in Claimed, u \in Claimed', step[u] # "clean",
               \A r \in Runs : step[r] = "tidy" => u \notin my[r].debris
        PROVE  <1>3!2
    BY <2>1, <2>2, <2>3 DEF Claimed
  <2>4. CASE attempt = None
    <3>1. PICK u \in Claimed :
             step[u] # "clean" /\ \A r \in Runs : step[r] = "tidy" => u \notin my[r].debris
      BY <1>k, <2>4 DEF Kept
    <3>2. u \in Runs /\ claims[u] # None  BY DEF Claimed
    <3>3. claims'[u] = claims[u]
      BY <1>t, <1>3, <2>4, <3>1, <3>2, ClaimsMove DEF Claims, Tidies, Cleans
    <3> QED BY <2>3, <3>1, <3>2, <3>3 DEF Claimed
  <2>5. CASE attempt # None
    <3>1. PICK r \in Runs : Claims(r)
      BY <1>3, <2>5, ClaimsMove DEF Tidies, Cleans
    <3>2. r \in Claimed' /\ step'[r] # "clean"
      BY <1>t, <3>1 DEF Claimed, Claims
    <3>3. \A q \in Runs : step[q] = "tidy" => r \notin my[q].debris
      BY <1>k, <3>1 DEF Kept, Claims, Past
    <3> QED BY <2>1, <3>2, <3>3
  <2> QED BY <2>4, <2>5
<1> QED BY <1>1, <1>2, <1>3 DEF Kept

LEMMA SoundInit ==
  ASSUME Init
  PROVE  Sound
<1>1. TypeOK
  <2>1. /\ [run |-> Origin, source |-> First, floor |-> VersionOf[First]] \in Commit
        /\ [old |-> FALSE, whole |-> TRUE] \in Generation
        /\ Ended(Origin, "succeeded", 1, FALSE) \in Attempt
    BY VersionsAreNat, RunsAreCounted, ShareAssumption
       DEF Commit, Generation, Ended, Attempt, Owners
  <2>2. step \in [Runs -> Steps]  BY DEF Init, Steps
  <2>3. my \in [Runs -> Carried]  BY NothingIsCarried DEF Init
  <2>4. /\ commits \in [Seqs -> Commit \cup {None}]
        /\ gens \in [Owners -> Generation \cup {None}]
        /\ claims \in [Runs -> Attempt \cup {None}]
    BY <2>1 DEF Init
  <2>5. /\ attempt \in Attempt \cup {None}
        /\ storage \in Lease \cup {None} /\ import \in Lease \cup {None}
    BY <2>1 DEF Init
  <2>6. kind \in Crews /\ last \in Versions /\ top \in Versions /\ raced \in BOOLEAN /\ slept \in BOOLEAN
    BY VersionsAreNat DEF Init
  <2>7. bucket \in Manifests /\ latest \in Owners /\ opened \in Manifests \cup {None}
    BY ShareAssumption DEF Init, Owners
  <2>8. lapses \in 0 .. MaxLapses /\ moves \in 0 .. MaxMoves /\ faults \in 0 .. MaxFaults
    BY ShareAssumption DEF Init
  <2> QED BY <2>2, <2>3, <2>4, <2>5, <2>6, <2>7, <2>8 DEF TypeOK
<1>n. /\ Nothing.result = None /\ Nothing.next = None /\ Nothing.dropped = {} /\ Nothing.debris = {}
  BY DEF Nothing
<1>2. \A r \in Runs : Ready(r)  BY <1>n DEF Init, Ready, Building
<1>3. Ordered
  <2>1. [run |-> Origin, source |-> First, floor |-> VersionOf[First]] # None
    BY VersionsAreNat, ShareAssumption, NoneAssumption DEF Commit, Owners
  <2>2. Linked = {1}  BY <2>1, RunsAreCounted DEF Init, Linked
  <2>3. HeadSeq = 1  BY <2>2, HeadExists
  <2>4. Cardinality(Through) \in Nat
    <3>1. Through \in SUBSET Runs  BY DEF Through
    <3> QED BY <3>1, FS_Subset, FS_CardinalityType, ShareAssumption
  <2> QED BY <2>2, <2>3, <2>4, <1>n DEF Init, Ordered
<1>4. Kept
  <2>1. Ended(Origin, "succeeded", 1, FALSE) \in Attempt
    BY RunsAreCounted DEF Ended, Attempt, Owners
  <2>2. Ended(Origin, "succeeded", 1, FALSE) # None  BY <2>1, NoneAssumption
  <2> QED BY <2>2, <1>n DEF Init, Kept, Claimed
<1> QED BY <1>1, <1>2, <1>3, <1>4 DEF Sound

LEMMA SoundNext ==
  ASSUME Sound, [Next]_vars
  PROVE  Sound'
<1>1. CASE Next
  <2>1. \A r \in Runs : Ready(r)'
    <3>1. SUFFICES ASSUME NEW r \in Runs PROVE Ready(r)'  OBVIOUS
    <3>2. CASE my'[r] = my[r] /\ step'[r] = step[r] /\ kind' = kind
      BY <3>2 DEF Sound, Ready
    <3> QED BY <1>1, <3>2, NextCarries DEF Carries, Steps1
  <2> QED BY <1>1, <2>1, TypesNext, OrderedNext, KeptNext DEF Sound
<1>2. CASE UNCHANGED vars
  BY <1>2 DEF vars, leases, record, published, world, Sound, TypeOK, Ready, Ordered, Linked, HeadSeq,
              Highest, Through, Kept, Claimed
<1> QED BY <1>1, <1>2

\* The files, the runs and the history keep their types, whatever is suspended
\* past its leases, dies, fails or is replayed: in particular a commit number a run
\* computes from the records it read (share_gen.go publishShareGeneration) is one
\* past a head that has only grown.
THEOREM ShareTypeCorrect == Spec => []TypeOK
<1>1. Init => Sound  BY SoundInit
<1>2. Sound /\ [Next]_vars => Sound'  BY SoundNext
<1>3. Sound => TypeOK  BY DEF Sound
<1> QED BY <1>1, <1>2, <1>3, PTL DEF Spec

\* The record of the last attempt is never lost: any number of runs that close or
\* begin attempts beside each other, die between the claim of the record and its
\* publication, or recover what others left (attempt.go Finish, RecoverClaims),
\* leave the record or a claim with its bytes.
THEOREM AttemptAlwaysKept == Spec => []AttemptIsKept
<1>1. Init => Sound  BY SoundInit
<1>2. Sound /\ [Next]_vars => Sound'  BY SoundNext
<1>3. Sound => AttemptIsKept  BY DEF Sound, Kept, AttemptIsKept
<1> QED BY <1>1, <1>2, <1>3, PTL DEF Spec

-----------------------------------------------------------------------------
(* Runs that keep their leases while they live.                             *)

Active(r) == step[r] \notin {"begin", "remember", "done"}

\* One run at a time works on the subscription.
Alone == \A r \in Runs : Active(r) => storage = [run |-> r, stale |-> FALSE]

Ending == {"compare", "publish", "clean"}
Importing == {"import", "recover", "record?", "restore", "tidy", "open", "build", "latch"} \cup Building
Pulling == {"attempt", "fetch", "finish", "claim"} \cup Ending

\* A repair has no attempt record; a collector neither imports nor repairs.
OfItsKind(r) ==
    /\ step[r] # "done" => kind[r] # "absent"
    /\ step[r] \in Importing => kind[r] # "gc"
    /\ step[r] \in Pulling => kind[r] = "pull"

\* The head is there, and nothing was ever committed above its floor.
HeadStands ==
    /\ gens[Head.run] # None
    /\ Head.floor = top /\ VersionOf[Head.source] = top
    /\ \A s \in Linked : commits[s].floor <= top

\* What a run has prepared when it is about to publish or to collect.
Prepared(r) ==
    LET c == my[r] IN
    /\ step[r] = "sweep" => Head.run \notin c.gone
    /\ step[r] \in {"build"} \cup Building /\ kind[r] = "heal" =>
         c.floor = VersionOf[c.seen] /\ c.seen = Head.source
    /\ step[r] \in Building => gens[r] # None
    /\ step[r] = "link" => /\ c.next.seq = HeadSeq + 1
                           /\ c.next.floor = VersionOf[c.seen] /\ c.next.floor >= top
    /\ step[r] = "latch" => c.next.seq = HeadSeq
    /\ step[r] \in Unlinked => \A s \in Linked : commits[s].run # r

Begun(x) == Ended(x, "active", 0, FALSE)

\* A record that confirms the head confirms what the last attempt opened.
Confirms(a) == a.seq <= HeadSeq /\ (a.verified /\ a.seq = HeadSeq => Head.source = opened)

\* The record, or the one claim there may be, is the last attempt's.
RecordStands ==
    /\ attempt # None => attempt.run = latest /\ Confirms(attempt)
    /\ \A x \in Claimed : x = latest /\ claims[x] = Begun(x)
    /\ Head.run = latest => Head.source = opened
    /\ latest \in Runs => kind[latest] = "pull"

\* What the run that works knows of the record; none finds another's where it
\* has put its own.
Recorded(r) ==
    LET c == my[r] IN
    /\ step[r] \in {"record?", "restore", "tidy"} => c.debris = Claimed
    /\ step[r] = "attempt" => Claimed = {}
    /\ step[r] = "open" /\ kind[r] = "pull" => opened = None
    /\ kind[r] = "pull"
         /\ step[r] \in {"open", "fetch", "build", "latch", "finish", "claim"} \cup Building =>
         attempt = Begun(r) /\ latest = r /\ Claimed = {}
    /\ step[r] \in {"fetch", "build", "latch"} \cup Building /\ kind[r] = "pull" => c.seen = opened
    /\ step[r] \in {"compare", "publish"} => attempt = None /\ latest = r /\ claims[r] = Begun(r)
    /\ step[r] \in {"claim", "compare"} => c.bytes = Begun(r)
    /\ step[r] \in {"finish", "claim", "compare", "publish"} => c.result.run = r /\ Confirms(c.result)
    /\ step[r] # "return"

Calm ==
    /\ Sound /\ Alone /\ HeadStands /\ RecordStands
    /\ \A r \in Runs : OfItsKind(r) /\ Prepared(r) /\ Recorded(r)

LEMMA RunFrame ==
  ASSUME Sound, NEW r \in Runs, Run(r) \/ Crash(r) \/ Fail(r)
  PROVE  /\ kind' = kind /\ Carries(r)
         /\ \A q \in Runs \ {r} : my'[q] = my[q] /\ step'[q] = step[q]
<1>1. Carries(r)  BY RunCarries, FaultCarries
<1>2. kind' = kind  BY RunFiles DEF world, Crash, Fail
<1> QED BY <1>1, <1>2 DEF Carries, Steps1

\* A run that acts, but for its first step and its last, is the one that works.
LEMMA RunIsActive ==
  ASSUME Sound, NEW r \in Runs, Run(r)
  PROVE  Active(r) \/ AcquireStorage(r) \/ Remember(r)
  BY DEF Run, Active, AcquireImport, LeaveImport, LeaveStorage, SweepOwner, SweepScan, SweepGens,
         SweepRecords, RecoverScan, RecoverStat, RecoverRestore, RecoverTidy, Start, Open, Fetch,
         Build, FenceStorage, FenceImport, Records, Link, Latch, FinishRead, FinishClaim,
         FinishCompare, FinishPublish, FinishReturn, FinishClean

LEMMA OneIsActive ==
  ASSUME Alone, NEW r \in Runs, NEW q \in Runs, Active(r), Active(q)
  PROVE  r = q
<1>1. [run |-> r, stale |-> FALSE].run = [run |-> q, stale |-> FALSE].run  BY DEF Alone
<1> QED BY <1>1

\* While no run is suspended, a lease that gets old is a dead run's.
LEMMA AloneNext ==
  ASSUME ~ slept', Calm, Next
  PROVE  Alone'
<1>t. Sound /\ Alone /\ step \in [Runs -> Steps] /\ storage \in Lease \cup {None}
  BY DEF Calm, Sound, TypeOK
<1>u. ASSUME storage' = storage, \A q \in Runs : Active(q)' => Active(q) PROVE Alone'
  BY <1>t, <1>u DEF Alone
<1>1. ASSUME NEW r \in Runs, Run(r) PROVE Alone'
  <2>f. \A q \in Runs \ {r} : step'[q] = step[q]  BY <1>t, <1>1, RunFrame
  <2>1. CASE AcquireStorage(r)
    <3>1. \A q \in Runs : ~ Active(q)
      <4>1. ASSUME NEW q \in Runs, Active(q) PROVE FALSE
        <5>1. storage = [run |-> q, stale |-> FALSE]  BY <1>t, <4>1 DEF Alone
        <5>2. storage # None /\ storage.stale = FALSE
          <6>1. [run |-> q, stale |-> FALSE] \in Lease  BY DEF Lease
          <6> QED BY <5>1, <6>1, NoneAssumption
        <5> QED BY <2>1, <5>2 DEF AcquireStorage, Free
      <4> QED BY <4>1
    <3>2. storage' = [run |-> r, stale |-> FALSE]  BY <2>1 DEF AcquireStorage
    <3> QED BY <2>f, <3>1, <3>2 DEF Alone, Active
  <2>2. CASE Remember(r)
    <3>1. storage' = storage /\ step'[r] = "done"  BY <1>t, <2>2 DEF Remember, Goto, leases
    <3> QED BY <1>u, <2>f, <3>1 DEF Active
  <2>3. CASE LeaveStorage(r)
    <3>1. step'[r] \in {"remember", "done"} /\ Active(r)
      BY <1>t, <2>3 DEF LeaveStorage, Goto, Active
    <3>2. \A q \in Runs : ~ Active(q)'
      BY <1>t, <2>f, <3>1, OneIsActive DEF Active
    <3> QED BY <3>2 DEF Alone
  <2>4. CASE ~ AcquireStorage(r) /\ ~ Remember(r) /\ ~ LeaveStorage(r)
    <3>1. Active(r)  BY <1>t, <1>1, <2>4, RunIsActive
    <3>2. storage' = storage
      BY <1>1, <2>4
         DEF Run, AcquireImport, LeaveImport, SweepOwner, SweepScan, SweepGens, SweepRecords,
             RecoverScan, RecoverStat, RecoverRestore, RecoverTidy, Start, Open, Fetch, Build,
             FenceStorage, FenceImport, Records, Link, Latch, FinishRead, FinishClaim,
             FinishCompare, FinishPublish, FinishReturn, FinishClean, leases
    <3> QED BY <1>u, <2>f, <3>1, <3>2 DEF Active
  <2> QED BY <2>1, <2>2, <2>3, <2>4
<1>2. ASSUME NEW r \in Runs, Heartbeat(r) PROVE Alone'
  <2>1. step' = step  BY <1>2 DEF Heartbeat
  <2>2. CASE storage' = storage  BY <1>u, <2>1, <2>2 DEF Active
  <2>3. CASE storage' # storage
    <3>1. storage.stale  BY <1>2, <2>3 DEF Heartbeat
    <3>2. \A q \in Runs : ~ Active(q)  BY <1>t, <3>1 DEF Alone
    <3> QED BY <2>1, <3>2 DEF Alone, Active
  <2> QED BY <2>2, <2>3
<1>3. ASSUME NEW r \in Runs, Lapse(r) PROVE Alone'
  <2>1. step' = step /\ step[r] = "done"  BY <1>3 DEF Lapse
  <2>2. ASSUME NEW q \in Runs, Active(q) PROVE storage' = storage
    <3>1. storage = [run |-> q, stale |-> FALSE] /\ q # r  BY <1>t, <2>1, <2>2 DEF Alone, Active
    <3> QED BY <1>3, <3>1 DEF Lapse, Holds
  <2> QED BY <1>t, <2>1, <2>2 DEF Alone, Active
<1>4. ASSUME NEW r \in Runs, Crash(r) \/ Fail(r) PROVE Alone'
  <2>f. \A q \in Runs \ {r} : step'[q] = step[q]  BY <1>t, <1>4, RunFrame
  <2>1. storage' = storage  BY <1>4 DEF Crash, Fail, leases
  <2>2. Active(r)' => Active(r)  BY <1>t, <1>4 DEF Crash, Fail, Goto, Active
  <2> QED BY <1>u, <2>f, <2>1, <2>2 DEF Active
<1>5. ASSUME Damage PROVE Alone'  BY <1>5, <1>u DEF Damage, leases, Active
<1>6. ASSUME NEW m \in Manifests, Move(m) PROVE Alone'  BY <1>6, <1>u DEF Move, leases, Active
<1> QED BY <1>1, <1>2, <1>3, <1>4, <1>5, <1>6 DEF Next, RunStep

\* A run goes on as its kind does.
LEMMA KindNext ==
  ASSUME Calm, Next, NEW r \in Runs
  PROVE  OfItsKind(r)'
<1>t. Sound /\ OfItsKind(r) /\ TypeOK /\ step \in [Runs -> Steps]  BY DEF Calm, Sound, TypeOK
<1> USE DEF OfItsKind, Importing, Pulling, Ending, Building
<1>1. CASE UNCHANGED <<step, kind>>  BY <1>t, <1>1
<1>f. ASSUME Fails(r), step[r] \in {"open", "fetch", "build", "latch"} \cup Building, kind' = kind
      PROVE  OfItsKind(r)'
  <2>1. \/ kind[r] = "heal" /\ step'[r] = "leave import"
        \/ kind[r] # "heal" /\ step'[r] = "finish"
    BY <1>t, <1>f, FailsIs
  <2>2. kind[r] \in {"pull", "heal", "gc", "absent"}
    BY <1>t, ShareAssumption DEF TypeOK, Kinds
  <2> QED BY <1>t, <1>f, <2>1, <2>2
<1>k. kind[r] \in {"pull", "heal", "gc", "absent"}  BY <1>t, ShareAssumption DEF TypeOK, Kinds
<1>2. ASSUME Run(r) PROVE OfItsKind(r)'
  <2>k. kind' = kind  BY <1>t, <1>2, RunFrame
  <2>1. CASE AcquireStorage(r) \/ AcquireImport(r) \/ LeaveImport(r) \/ LeaveStorage(r)
    BY <1>t, <1>k, <2>k, <2>1 DEF AcquireStorage, AcquireImport, LeaveImport, LeaveStorage, Goto
  <2>2. CASE SweepOwner(r) \/ SweepScan(r) \/ SweepGens(r) \/ SweepRecords(r)
    BY <1>t, <1>k, <2>k, <2>2 DEF SweepOwner, SweepScan, SweepGens, SweepRecords, Goto
  <2>3. CASE RecoverScan(r) \/ RecoverStat(r) \/ RecoverRestore(r) \/ RecoverTidy(r) \/ Start(r)
    BY <1>t, <1>k, <2>k, <2>3
       DEF RecoverScan, RecoverStat, RecoverRestore, RecoverTidy, Start, AfterRecovery, Goto
  <2>4. CASE Open(r) \/ Fetch(r) \/ Build(r)
    <3>1. CASE Fails(r)  BY <1>f, <2>k, <2>4, <3>1 DEF Open, Fetch, Build
    <3>2. CASE ~ Fails(r)
      BY <1>t, <1>k, <2>k, <2>4, <3>2 DEF Open, Fetch, Build, Goto
    <3> QED BY <3>1, <3>2
  <2>5. CASE FenceStorage(r) \/ FenceImport(r) \/ Records(r) \/ Link(r) \/ Latch(r)
    <3>1. CASE Fails(r)
      BY <1>f, <2>k, <2>5, <3>1 DEF FenceStorage, FenceImport, Records, Link, Latch
    <3>2. CASE Latch(r)
      <4>1. my[r] \in Carried /\ my[r].next \in Place /\ step[r] = "latch"
        BY <1>t, <3>2, CarriedFields DEF Sound, TypeOK, Ready, Latch
      <4>2. Ended(r, "succeeded", my[r].next.seq, FALSE) \in Attempt
        BY <4>1 DEF Ended, Attempt, Owners, Place
      <4>3. \/ kind[r] = "heal" /\ step'[r] = "leave import"
            \/ kind[r] # "heal" /\ step'[r] = "finish"
        BY <1>t, <3>2, <4>2, VersionsAreNat, OutcomeIs DEF Latch
      <4> QED BY <1>t, <1>k, <2>k, <4>1, <4>3
    <3>3. CASE ~ Fails(r) /\ ~ Latch(r)
      BY <1>t, <1>k, <2>k, <2>5, <3>3 DEF FenceStorage, FenceImport, Records, Link, Goto
    <3> QED BY <3>1, <3>2, <3>3
  <2>6. CASE \/ FinishRead(r) \/ FinishClaim(r) \/ FinishCompare(r) \/ FinishPublish(r)
             \/ FinishReturn(r) \/ FinishClean(r) \/ Remember(r)
    <3>1. step[r] # "return"  BY DEF Calm, Recorded
    <3> QED BY <1>t, <1>k, <2>k, <2>6, <3>1
            DEF FinishRead, FinishClaim, FinishCompare, FinishPublish, FinishReturn, FinishClean,
                Remember, Lost, Goto
  <2> QED BY <1>2, <2>1, <2>2, <2>3, <2>4, <2>5, <2>6 DEF Run
<1>3. ASSUME Crash(r) \/ Fail(r) PROVE OfItsKind(r)'
  <2>k. kind' = kind  BY <1>t, <1>3, RunFrame
  <2> QED BY <1>t, <1>3, <1>f, <2>k DEF Crash, Fail, Goto
<1>4. ASSUME NEW q \in Runs \ {r}, Run(q) \/ Crash(q) \/ Fail(q)
      PROVE  OfItsKind(r)'
  <2>1. kind' = kind /\ step'[r] = step[r]  BY <1>t, <1>4, RunFrame
  <2> QED BY <1>t, <2>1
<1>5. \/ UNCHANGED <<step, kind>>
      \/ \E q \in Runs : Run(q) \/ Crash(q) \/ Fail(q)
  BY DEF Next, RunStep, Heartbeat, Lapse, Damage, Move, world
<1> QED BY <1>1, <1>2, <1>3, <1>4, <1>5

\* A generation goes only when a collector removes it.
LEMMA GensStay ==
  ASSUME Sound, Next, NEW g \in Owners, gens[g] # None
  PROVE  gens'[g] # None \/ \E r \in Runs : step[r] = "sweep" /\ g \in my[r].gone /\ SweepGens(r)
<1>t. gens \in [Owners -> Generation \cup {None}]  BY DEF Sound, TypeOK
<1>g. \A a, b \in BOOLEAN : [old |-> a, whole |-> b] # None
  BY NoneAssumption DEF Generation
<1>1. ASSUME NEW r \in Runs, Run(r)
      PROVE  gens'[g] # None \/ (step[r] = "sweep" /\ g \in my[r].gone /\ SweepGens(r))
  <2>1. CASE UNCHANGED gens  BY <2>1
  <2>2. CASE SweepGens(r)  BY <1>t, <2>2 DEF SweepGens
  <2>3. CASE Build(r)  BY <1>t, <1>g, <2>3 DEF Build
  <2> QED
    BY <1>1, <2>1, <2>2, <2>3
       DEF Run, AcquireStorage, AcquireImport, LeaveImport, LeaveStorage, SweepOwner,
           SweepScan, SweepRecords, RecoverScan, RecoverStat, RecoverRestore,
           RecoverTidy, Start, Open, Fetch, FenceStorage, FenceImport, Records, Link, Latch,
           FinishRead, FinishClaim, FinishCompare, FinishPublish, FinishReturn,
           FinishClean, Remember, published
<1>2. ASSUME NEW r \in Runs, Lapse(r) PROVE gens'[g] # None
  <2>1. gens[g] \in Generation  BY <1>t
  <2>2. [gens[g] EXCEPT !.old = TRUE] \in Generation  BY <2>1 DEF Generation
  <2> QED BY <1>2, <2>2, NoneAssumption DEF Lapse
<1>3. ASSUME NEW r \in Runs, Heartbeat(r) \/ Crash(r) PROVE gens'[g] # None
  BY <1>3 DEF Heartbeat, Crash, published
<1>4. ASSUME NEW r \in Runs, Fail(r) PROVE gens'[g] # None
  BY <1>4, <1>t, <1>g DEF Fail
<1>5. ASSUME Damage PROVE gens'[g] # None
  <2>1. gens[g] \in Generation  BY <1>t
  <2>2. [gens[g] EXCEPT !.whole = FALSE] \in Generation  BY <2>1 DEF Generation
  <2>3. gens'[g] \in {gens[g], [gens[g] EXCEPT !.whole = FALSE]}  BY <1>5, <1>t DEF Damage
  <2> QED BY <2>1, <2>2, <2>3, NoneAssumption
<1>6. ASSUME NEW m \in Manifests, Move(m) PROVE gens'[g] # None
  BY <1>6 DEF Move, published
<1> QED BY <1>1, <1>2, <1>3, <1>4, <1>5, <1>6 DEF Next, RunStep

\* What is linked was, or is being linked.
LEMMA LinkedMove ==
  ASSUME Sound, Next, NEW s \in Linked'
  PROVE  \/ s \in Linked /\ commits'[s] = commits[s]
         \/ \E r \in Runs : /\ Links(r) /\ s = my[r].next.seq
                            /\ commits'[s] = [run |-> r, source |-> my[r].seen,
                                              floor |-> my[r].next.floor]
<1>1. s \in Seqs /\ commits'[s] # None /\ commits \in [Seqs -> Commit \cup {None}]
  BY DEF Linked, Sound, TypeOK
<1>2. CASE UNCHANGED commits  BY <1>1, <1>2 DEF Linked
<1>3. ASSUME NEW r \in Runs, Forgets(r) PROVE s \in Linked /\ commits'[s] = commits[s]
  BY <1>1, <1>3 DEF Forgets, Linked
<1>4. ASSUME NEW r \in Runs, Links(r), s # my[r].next.seq
      PROVE  s \in Linked /\ commits'[s] = commits[s]
  BY <1>1, <1>4 DEF Links, Linked
<1>5. ASSUME NEW r \in Runs, Links(r), s = my[r].next.seq
      PROVE  commits'[s] = [run |-> r, source |-> my[r].seen, floor |-> my[r].next.floor]
  BY <1>1, <1>5 DEF Links
<1> QED BY <1>2, <1>3, <1>4, <1>5, CommitsMove

\* The run that links is the head's, and its floor the highest.
LEMMA CalmLink ==
  ASSUME Calm, NEW r \in Runs, Links(r)
  PROVE  /\ HeadSeq' = HeadSeq + 1 /\ my[r].next.seq = HeadSeq + 1
         /\ Head' = [run |-> r, source |-> my[r].seen, floor |-> my[r].next.floor]
         /\ my[r].next.floor = VersionOf[my[r].seen] /\ top' = my[r].next.floor
         /\ my[r].next.floor >= top /\ gens'[r] # None /\ UNCHANGED <<gens, my>>
<1>t. Sound /\ Prepared(r) /\ step[r] = "link" /\ TypeOK /\ Ready(r)  BY DEF Calm, Sound, Links
<1>1. /\ my[r].next.seq = HeadSeq + 1 /\ my[r].next.floor = VersionOf[my[r].seen]
      /\ my[r].next.floor >= top /\ gens[r] # None
  BY <1>t DEF Prepared, Building
<1>2. my[r].next.floor \in Nat /\ top \in Nat
  BY <1>t, CarriedFields, VersionsAreNat DEF TypeOK, Place, Ready
<1>3. top' = my[r].next.floor  BY <1>1, <1>2 DEF Links
<1> QED BY <1>t, <1>1, <1>3, LinkMoves DEF Links

LEMMA HeadStandsNext ==
  ASSUME Calm, Next
  PROVE  HeadStands'
<1>t. Sound /\ HeadStands /\ TypeOK  BY DEF Calm, Sound
<1>h. Head \in Commit /\ Head.run \in Owners  BY <1>t, HeadIsCommit DEF Commit
<1>1. CASE \E r \in Runs : Links(r)
  <2>1. PICK r \in Runs : Links(r)  BY <1>1
  <2>2. /\ Head' = [run |-> r, source |-> my[r].seen, floor |-> my[r].next.floor]
        /\ my[r].next.floor = VersionOf[my[r].seen] /\ top' = my[r].next.floor
        /\ my[r].next.floor >= top /\ gens'[r] # None
    BY <2>1, CalmLink
  <2>3. Head'.run = r /\ Head'.source = my[r].seen /\ Head'.floor = my[r].next.floor
    BY <2>2
  <2>4. my[r].next.floor \in Nat /\ top \in Nat
    BY <1>t, <2>1, CarriedFields, VersionsAreNat DEF Sound, TypeOK, Place, Ready, Links
  <2>5. ASSUME NEW s \in Linked' PROVE commits'[s].floor <= top'
    <3>1. CASE s \in Linked /\ commits'[s] = commits[s]
      <4>1. commits[s].floor <= top /\ commits[s].floor \in Nat
        BY <1>t, <3>1, VersionsAreNat DEF HeadStands, TypeOK, Linked, Commit
      <4> QED BY <2>2, <2>4, <3>1, <4>1
    <3>2. ASSUME NEW p \in Runs, Links(p),
                 commits'[s] = [run |-> p, source |-> my[p].seen, floor |-> my[p].next.floor]
          PROVE  commits'[s].floor <= top'
      <4>1. commits'[s].floor = my[p].next.floor /\ top' = my[p].next.floor
        BY <3>2, CalmLink
      <4> QED BY <2>2, <2>4, <4>1
    <3> QED BY <1>t, <3>1, <3>2, LinkedMove
  <2> QED BY <2>2, <2>3, <2>5 DEF HeadStands
<1>2. CASE ~ \E r \in Runs : Links(r)
  <2>1. Head' = Head /\ top' = top  BY <1>t, <1>2, HeadMoves, CommitsMove
  <2>2. gens'[Head.run] # None
    BY <1>t, <1>h, GensStay DEF HeadStands, Calm, Prepared
  <2>3. \A s \in Linked' : commits'[s].floor <= top'
    BY <1>t, <1>2, <2>1, LinkedMove DEF HeadStands
  <2> QED BY <1>t, <2>1, <2>2, <2>3 DEF HeadStands
<1> QED BY <1>1, <1>2

\* What a run that does not act has prepared stays so: the one that works does not
\* disturb it, as nobody else has prepared anything.
LEMMA PreparedStays ==
  ASSUME Calm, Next, NEW q \in Runs, my'[q] = my[q], step'[q] = step[q], kind' = kind
  PROVE  Prepared(q)'
<1>t. Sound /\ Alone /\ Prepared(q) /\ TypeOK  BY DEF Calm, Sound
<1>u. step[q] \in Unlinked => \A s \in Linked' : commits'[s].run # q
  <2>1. SUFFICES ASSUME step[q] \in Unlinked, NEW s \in Linked' PROVE commits'[s].run # q
    OBVIOUS
  <2>2. ASSUME NEW p \in Runs, Links(p),
               commits'[s] = [run |-> p, source |-> my[p].seen, floor |-> my[p].next.floor]
        PROVE  commits'[s].run # q
    BY <2>1, <2>2 DEF Links, Unlinked, Building
  <2> QED BY <1>t, <2>1, <2>2, LinkedMove DEF Prepared
<1>1. CASE ~ Active(q)
  BY <1>u, <1>1 DEF Active, Prepared, Building
<1>2. CASE Active(q)
  <2>1. \A p \in Runs : ~ Links(p)
    <3>1. ASSUME NEW p \in Runs, Links(p) PROVE FALSE
      <4>1. Active(p)  BY <3>1 DEF Links, Active
      <4>2. p = q  BY <1>t, <1>2, <4>1, OneIsActive
      <4> QED BY <3>1, <4>2 DEF Links
    <3> QED BY <3>1
  <2>2. HeadSeq' = HeadSeq /\ Head' = Head /\ top' = top
    BY <1>t, <2>1, HeadMoves, CommitsMove
  <2>3. step[q] \in Building /\ gens[q] # None => gens'[q] # None
    <3>1. SUFFICES ASSUME step[q] \in Building, gens[q] # None PROVE gens'[q] # None  OBVIOUS
    <3>2. q \in Owners  BY DEF Owners
    <3>3. ASSUME NEW p \in Runs, step[p] = "sweep" PROVE FALSE
      <4>1. Active(p)  BY <3>3 DEF Active
      <4>2. p = q  BY <1>t, <1>2, <4>1, OneIsActive
      <4> QED BY <3>1, <3>3, <4>2 DEF Building
    <3> QED BY <1>t, <3>1, <3>2, <3>3, GensStay
  <2> QED BY <1>t, <1>u, <2>2, <2>3 DEF Prepared
<1> QED BY <1>1, <1>2

LEMMA PreparedRun ==
  ASSUME Calm, Next, NEW r \in Runs, Run(r) \/ Crash(r) \/ Fail(r)
  PROVE  Prepared(r)'
<1>t. Sound /\ Prepared(r) /\ TypeOK /\ Ready(r) /\ HeadStands /\ OfItsKind(r)
  BY DEF Calm, Sound
<1>f. kind' = kind /\ Carries(r)  BY <1>t, RunFrame
<1>c. my[r] \in Carried /\ my'[r] \in Carried /\ step \in [Runs -> Steps]
  BY <1>t, <1>f DEF Carries, Steps1, TypeOK
<1>h. HeadSeq \in Linked /\ Head \in Commit  BY <1>t, HeadIsCommit
<1>u. step'[r] \in Unlinked => \A s \in Linked' : commits'[s].run # r
  <2>1. SUFFICES ASSUME step'[r] \in Unlinked, NEW s \in Linked' PROVE commits'[s].run # r
    OBVIOUS
  <2>2. step[r] \in Unlinked  BY <1>f, <2>1 DEF Carries
  <2>3. ASSUME NEW p \in Runs, Links(p),
               commits'[s] = [run |-> p, source |-> my[p].seen, floor |-> my[p].next.floor]
        PROVE  commits'[s].run # r
    BY <2>1, <2>3 DEF Links, Unlinked, Building
  <2> QED BY <1>t, <2>2, <2>3, LinkedMove DEF Prepared
<1>q. ASSUME UNCHANGED commits PROVE HeadSeq' = HeadSeq /\ Head' = Head
  BY <1>q DEF HeadSeq, Head, Linked, Highest
<1>p. ASSUME UNCHANGED published PROVE HeadSeq' = HeadSeq /\ Head' = Head /\ top' = top
  BY <1>p DEF published, HeadSeq, Head, Linked, Highest
<1>o. ASSUME step'[r] \notin {"sweep", "build", "latch"} \cup Building PROVE Prepared(r)'
  BY <1>u, <1>o DEF Prepared, Building
<1>1. CASE SweepScan(r)
  <2>1. step'[r] = "sweep" /\ UNCHANGED published  BY <1>c, <1>1 DEF SweepScan, Goto
  <2>2. Head.run \notin my'[r].gone
    <3> DEFINE committed == {commits[s].run : s \in Linked}
               kept == {commits[s].run : s \in KeptSeqs}
               gone == {g \in Owners : gens[g] # None /\ g \notin kept /\
                          (g \in committed \/ (g # my[r].owner /\ gens[g].old))}
               dropped == Linked \ KeptSeqs
               c == [my[r] EXCEPT !.gone = gone, !.dropped = dropped]
    <3>1. Head.run \in kept  BY DEF KeptSeqs, Head
    <3>2. my'[r] = c  BY <1>1, <1>t DEF SweepScan, TypeOK
    <3>3. Head.run \notin gone  BY <3>1
    <3> HIDE DEF gone, dropped
    <3>4. c.gone = gone  BY <1>c DEF Carried
    <3> QED BY <3>2, <3>3, <3>4
  <2> QED BY <1>u, <1>p, <2>1, <2>2 DEF Prepared, Building
<1>2. CASE Open(r)
  <2>1. UNCHANGED published  BY <1>2 DEF Open
  <2>2. CASE step'[r] # "build"
    <3>1. step'[r] \in {"finish", "leave import", "fetch", "build"}
      BY <1>2, <1>t, <1>c, FailsIs DEF Open, Goto
    <3> QED BY <1>o, <2>2, <3>1 DEF Building
  <2>3. CASE step'[r] = "build"
    <3>1. /\ ~ Fails(r)  BY <1>t, <2>3, FailsIs
    <3>2. my' = [my EXCEPT ![r].seen = Head.source, ![r].floor = Head.floor]
      BY <1>2, <1>c, <2>3, <3>1 DEF Open, Goto
    <3>3. my'[r] = [my[r] EXCEPT !.seen = Head.source, !.floor = Head.floor]
      BY <1>t, <3>2 DEF TypeOK
    <3>4. my'[r].seen = Head.source /\ my'[r].floor = Head.floor
      BY <1>c, <3>3 DEF Carried
    <3>5. Head' = Head  BY <1>p, <2>1
    <3> QED BY <1>t, <1>u, <2>3, <3>4, <3>5 DEF Prepared, HeadStands, Building
  <2> QED BY <2>2, <2>3
<1>3. CASE Fetch(r)
  <2>1. kind[r] = "pull"  BY <1>t, <1>3 DEF Fetch, Ready
  <2>2. step'[r] \in {"build", "finish"}  BY <1>t, <1>c, <1>3, <2>1, FailsIs DEF Fetch, Goto
  <2> QED BY <1>f, <1>u, <2>1, <2>2 DEF Prepared, Building
<1>4. CASE Build(r)
  <2>1. step[r] = "build" /\ step'[r] = "storage?" /\ my'[r] = my[r]
    BY <1>c, <1>4 DEF Build, Goto
  <2>2. gens'[r] # None
    <3>1. [old |-> FALSE, whole |-> TRUE] \in Generation  BY DEF Generation
    <3> QED BY <1>4, <1>t, <3>1, NoneAssumption DEF Build, TypeOK, Owners
  <2>3. Head' = Head  BY <1>4, <1>q DEF Build
  <2> QED BY <1>t, <1>f, <1>u, <2>1, <2>2, <2>3 DEF Prepared, Building
<1>5. CASE FenceStorage(r) \/ FenceImport(r)
  <2>1. CASE Fails(r)
    <3>1. step'[r] \in {"finish", "leave import"}  BY <1>t, <2>1, FailsIs
    <3> QED BY <1>o, <3>1 DEF Building
  <2>2. CASE ~ Fails(r)
    <3>1. /\ step[r] \in Building /\ step'[r] \in {"import?", "records"} /\ my'[r] = my[r]
          /\ UNCHANGED published
      BY <1>c, <1>5, <2>2 DEF FenceStorage, FenceImport, Goto, Building
    <3> QED BY <1>t, <1>f, <1>u, <1>p, <3>1 DEF Prepared, Building, published
  <2> QED BY <2>1, <2>2
<1>6. CASE Records(r)
  <2>1. CASE Fails(r)
    <3>1. step'[r] \in {"finish", "leave import"}  BY <1>t, <2>1, FailsIs
    <3> QED BY <1>o, <3>1 DEF Building
  <2>2. CASE ~ Fails(r)
    <3> DEFINE low == IF kind[r] = "pull" THEN my[r].known ELSE VersionOf[First]
               prior == MaxOf(Floors(low))
               floor == IF kind[r] = "pull" THEN VersionOf[my[r].seen] ELSE my[r].floor
               n == [seq |-> HeadSeq + 1, floor |-> floor]
               c == [my[r] EXCEPT !.next = n]
    <3>1. /\ step[r] = "records" /\ step'[r] = "link" /\ UNCHANGED published
          /\ floor >= prior /\ my'[r] = c
      BY <1>t, <1>c, <1>6, <2>2 DEF Records, Goto, TypeOK
    <3>2. low \in Nat /\ top \in Nat /\ Head.floor = top
      BY <1>t, <1>c, CarriedFields, VersionsAreNat DEF HeadStands, TypeOK
    <3>3. Floors(low) \in SUBSET Nat /\ top \in Floors(low)
      <4>1. \A s \in Linked : commits[s].floor \in Nat
        BY <1>t, VersionsAreNat DEF TypeOK, Linked, Commit
      <4>2. top \in {commits[s].floor : s \in Linked}  BY <1>h, <3>2 DEF Head
      <4> HIDE DEF low
      <4> QED BY <3>2, <4>1, <4>2 DEF Floors
    <3>4. prior \in Nat /\ prior >= top
      <4>1. \A f \in Floors(low) : f <= top \/ f = low
        BY <1>t DEF Floors, HeadStands
      <4>2. low \in Floors(low)  BY DEF Floors
      <4> HIDE DEF low
      <4>3. \E m \in Floors(low) : \A f \in Floors(low) : f <= m
        <5>1. CASE low >= top  BY <3>2, <3>3, <4>1, <4>2, <5>1
        <5>2. CASE ~ (low >= top)  BY <3>2, <3>3, <4>1, <5>2
        <5> QED BY <5>1, <5>2
      <4> HIDE DEF prior
      <4>4. \A f \in Floors(low) : f <= prior  BY <4>3 DEF MaxOf, prior
      <4>5. top <= prior  BY <3>3, <4>4
      <4>6. prior \in Floors(low)  BY <4>3 DEF MaxOf, prior
      <4> QED BY <3>2, <3>3, <4>5, <4>6
    <3>5. floor = VersionOf[my[r].seen] /\ floor \in Nat
      <4>1. kind[r] \in {"pull", "heal"}
        BY <1>t, <3>1, ShareAssumption DEF OfItsKind, Importing, Building, TypeOK, Kinds
      <4>2. my[r].seen \in Manifests
        BY <1>t, <1>c, <3>1, CarriedFields DEF Ready, Building
      <4> QED BY <1>t, <3>1, <4>1, <4>2, VersionIn, VersionsAreNat DEF Prepared, Building
    <3> HIDE DEF floor, prior
    <3>7. c.next = n /\ c.floor = my[r].floor /\ c.seen = my[r].seen
      BY <1>c DEF Carried
    <3>8. n.seq = HeadSeq + 1 /\ n.floor = floor  OBVIOUS
    <3>9. floor >= top
      BY <3>1, <3>2, <3>4, <3>5
    <3> HIDE DEF c, n
    <3> QED BY <1>t, <1>f, <1>u, <1>p, <3>1, <3>5, <3>7, <3>8, <3>9 DEF Prepared, Building, published
  <2> QED BY <2>1, <2>2
<1>7. CASE Link(r)
  <2>1. CASE step'[r] = "latch"
    <3>1. Links(r)  BY <1>c, <1>7, <2>1 DEF Link, Links, Goto, record, world
    <3> QED BY <1>u, <2>1, <3>1, CalmLink DEF Prepared, Building
  <2>2. CASE step'[r] # "latch"
    <3>1. step[r] = "link" /\ step'[r] = "storage?" /\ my'[r] = my[r] /\ UNCHANGED published
      BY <1>c, <1>7, <2>2 DEF Link, Goto, published
    <3> QED BY <1>t, <1>f, <1>u, <1>p, <3>1 DEF Prepared, Building, published
  <2> QED BY <2>1, <2>2
<1>8. CASE Latch(r) \/ Crash(r) \/ Fail(r)
  <2>1. step'[r] \in {"finish", "leave import", "done"}
    <3>1. CASE Latch(r)
      <4>1. my[r].next \in Place
        BY <1>t, <1>c, <3>1, CarriedFields DEF Ready, Latch
      <4>2. Ended(r, "succeeded", my[r].next.seq, FALSE) \in Attempt
        BY <4>1 DEF Ended, Attempt, Owners, Place
      <4> QED BY <1>t, <3>1, <4>2, VersionsAreNat, OutcomeIs DEF Latch
    <3> QED BY <1>t, <1>c, <1>8, <3>1, FailsIs DEF Crash, Fail, Goto
  <2> QED BY <1>o, <2>1 DEF Building
<1>9. CASE \/ AcquireStorage(r) \/ AcquireImport(r) \/ LeaveImport(r) \/ LeaveStorage(r)
           \/ SweepOwner(r) \/ SweepGens(r) \/ SweepRecords(r) \/ RecoverScan(r)
           \/ RecoverStat(r) \/ RecoverRestore(r) \/ RecoverTidy(r) \/ Start(r)
           \/ FinishRead(r) \/ FinishClaim(r) \/ FinishCompare(r) \/ FinishPublish(r)
           \/ FinishReturn(r) \/ FinishClean(r) \/ Remember(r)
  <2>1. step'[r] \notin {"sweep", "build", "latch"} \cup Building
    BY <1>c, <1>9
       DEF AcquireStorage, AcquireImport, LeaveImport, LeaveStorage, SweepOwner, SweepGens,
           SweepRecords, RecoverScan, RecoverStat, RecoverRestore, RecoverTidy, Start,
           AfterRecovery, FinishRead, FinishClaim, FinishCompare, FinishPublish, FinishReturn,
           FinishClean, Remember, Lost, Goto, Building
  <2> QED BY <1>o, <2>1
<1> QED BY <1>1, <1>2, <1>3, <1>4, <1>5, <1>6, <1>7, <1>8, <1>9 DEF Run

LEMMA BegunIs ==
  ASSUME NEW r \in Runs
  PROVE  /\ Begun(r) \in Attempt /\ Begun(r) # None
         /\ Begun(r).run = r /\ Begun(r).state = "active"
         /\ Begun(r).seq = 0 /\ Begun(r).verified = FALSE
<1>1. /\ Begun(r) \in Attempt /\ Begun(r).run = r /\ Begun(r).state = "active"
      /\ Begun(r).seq = 0 /\ Begun(r).verified = FALSE
  BY DEF Begun, Ended, Attempt, Owners
<1> QED BY <1>1, NoneAssumption

\* What a record that is begun says of the head, whatever the head is.
LEMMA BegunConfirms ==
  ASSUME Sound, NEW r \in Runs
  PROVE  Confirms(Begun(r))
<1>1. HeadSeq \in Seqs  BY HeadIsCommit
<1>2. 0 <= HeadSeq  BY <1>1, RunsAreCounted
<1> QED BY <1>2, BegunIs DEF Confirms

\* A run that has linked nothing is not the head's.
LEMMA UnlinkedIsNotHead ==
  ASSUME Calm, NEW r \in Runs, step[r] \in Unlinked
  PROVE  Head.run # r
<1>1. HeadSeq \in Linked  BY HeadIsCommit DEF Calm
<1> QED BY <1>1 DEF Calm, Prepared, Head

\* What the operations do to the record and the history of the attempts.
LEMMA RecordMoves ==
  ASSUME Calm, Next, ~ UNCHANGED record
  PROVE  /\ UNCHANGED <<commits, kind>>
         /\ \E r \in Runs :
              \/ RecoverRestore(r) \/ RecoverTidy(r) \/ Start(r) \/ Open(r)
              \/ FinishClaim(r) \/ FinishPublish(r) \/ FinishClean(r)
<1>1. PICK r \in Runs : Run(r)
  BY DEF Next, RunStep, Heartbeat, Lapse, Crash, Fail, Damage, Move, record
<1>2. step[r] # "return"  BY DEF Calm, Recorded
<1>3. \/ RecoverRestore(r) \/ RecoverTidy(r) \/ Start(r) \/ Open(r)
      \/ FinishClaim(r) \/ FinishPublish(r) \/ FinishClean(r)
  BY <1>1, <1>2
     DEF Run, AcquireStorage, AcquireImport, LeaveImport, LeaveStorage, SweepOwner, SweepScan,
         SweepGens, SweepRecords, RecoverScan, RecoverStat, Fetch, Build, FenceStorage,
         FenceImport, Records, Link, Latch, FinishRead, FinishCompare, FinishReturn, Remember,
         record
<1>4. UNCHANGED <<commits, kind>>
  BY <1>3 DEF RecoverRestore, RecoverTidy, Start, Open, FinishClaim, FinishPublish, FinishClean,
              published, world
<1> QED BY <1>3, <1>4

LEMMA RecordStandsNext ==
  ASSUME Calm, Next
  PROVE  RecordStands'
<1>t. Sound /\ RecordStands /\ TypeOK /\ \A r \in Runs : Recorded(r) /\ OfItsKind(r)
  BY DEF Calm, Sound
<1>h. HeadSeq \in Nat /\ HeadSeq \in Seqs  BY <1>t, HeadIsCommit, RunsAreCounted
<1>a. attempt # None => attempt.seq \in Nat
  <2>1. attempt # None => attempt.seq \in {0} \cup Seqs  BY <1>t DEF TypeOK, Attempt
  <2>2. \A n \in {0} \cup Seqs : n \in Nat  BY RunsAreCounted
  <2> QED BY <2>1, <2>2
<1>k. kind' = kind  BY <1>t, NextCarries
<1>1. CASE UNCHANGED record
  <2>1. CASE \E r \in Runs : Links(r)
    <3>1. PICK r \in Runs : Links(r)  BY <2>1
    <3>2. /\ HeadSeq' = HeadSeq + 1
          /\ Head' = [run |-> r, source |-> my[r].seen, floor |-> my[r].next.floor]
      BY <3>1, CalmLink
    <3>3. Head'.run = r /\ Head'.source = my[r].seen  BY <3>2
    <3>4. attempt # None => attempt.run = latest /\ attempt.seq <= HeadSeq' /\ attempt.seq # HeadSeq'
      BY <1>t, <1>h, <1>a, <3>2 DEF RecordStands, Confirms
    <3>5. latest = r => my[r].seen = opened
      BY <1>t, <3>1 DEF RecordStands, Recorded, Links, Building
    <3> QED BY <1>t, <1>1, <1>k, <3>3, <3>4, <3>5 DEF RecordStands, Confirms, Claimed, record
  <2>2. CASE ~ \E r \in Runs : Links(r)
    <3>1. HeadSeq' = HeadSeq /\ Head' = Head  BY <1>t, <2>2, HeadMoves
    <3> QED BY <1>t, <1>1, <1>k, <3>1 DEF RecordStands, Confirms, Claimed, record
  <2> QED BY <2>1, <2>2
<1>2. CASE ~ UNCHANGED record
  <2>1. UNCHANGED commits  BY <1>2, RecordMoves
  <2>2. HeadSeq' = HeadSeq /\ Head' = Head
    BY <2>1 DEF HeadSeq, Head, Linked, Highest
  <2>c. claims \in [Runs -> Attempt \cup {None}]  BY <1>t DEF TypeOK
  <2>3. ASSUME NEW r \in Runs, RecoverRestore(r) PROVE RecordStands'
    <3>1. CASE attempt' = attempt
      BY <1>t, <1>k, <2>2, <2>3, <3>1 DEF RecoverRestore, RecordStands, Confirms, Claimed
    <3>2. CASE attempt' # attempt
      <4>1. PICK x \in my[r].debris : claims[x] # None /\ attempt' = claims[x]
        BY <2>3, <3>2 DEF RecoverRestore
      <4>2. x \in Claimed  BY <1>t, <2>3, <4>1 DEF Recorded, RecoverRestore
      <4>3. x \in Runs /\ x = latest /\ claims[x] = Begun(x)
        BY <1>t, <4>2 DEF RecordStands, Claimed
      <4>4. attempt'.run = latest /\ attempt'.seq <= HeadSeq /\ ~ attempt'.verified
        BY <1>t, <4>1, <4>3, BegunIs, BegunConfirms DEF Confirms
      <4> QED BY <1>t, <1>k, <2>2, <2>3, <4>4 DEF RecoverRestore, RecordStands, Confirms, Claimed
    <3> QED BY <3>1, <3>2
  <2>4. ASSUME NEW r \in Runs, RecoverTidy(r) \/ FinishClean(r) PROVE RecordStands'
    <3>1. UNCHANGED <<attempt, latest, opened>>  BY <2>4 DEF RecoverTidy, FinishClean
    <3>2. \A x \in Claimed' : x \in Claimed /\ claims'[x] = claims[x]
      BY <2>c, <2>4 DEF RecoverTidy, FinishClean, Claimed
    <3> QED BY <1>t, <1>k, <2>2, <3>1, <3>2 DEF RecordStands, Confirms
  <2>5. ASSUME NEW r \in Runs, Start(r) PROVE RecordStands'
    <3>1. /\ step[r] = "attempt" /\ attempt' = Begun(r) /\ latest' = r /\ opened' = None
          /\ claims' = claims
      BY <2>5 DEF Start, Begun
    <3>2. Claimed = {} /\ kind[r] = "pull"
      BY <1>t, <3>1 DEF Recorded, OfItsKind, Pulling
    <3>3. Head.run # r  BY <3>1, UnlinkedIsNotHead DEF Unlinked
    <3>4. attempt'.run = r /\ attempt'.seq <= HeadSeq /\ ~ attempt'.verified
      BY <1>t, <3>1, BegunIs, BegunConfirms DEF Confirms
    <3> QED BY <1>k, <2>2, <3>1, <3>2, <3>3, <3>4 DEF RecordStands, Confirms, Claimed
  <2>6. ASSUME NEW r \in Runs, Open(r) PROVE RecordStands'
    <3>1. /\ step[r] = "open" /\ UNCHANGED <<attempt, claims, latest>>
          /\ opened' = IF latest = r THEN bucket ELSE opened
      BY <2>6 DEF Open
    <3>2. CASE latest # r
      BY <1>t, <1>k, <2>2, <3>1, <3>2 DEF RecordStands, Confirms, Claimed
    <3>3. CASE latest = r
      <4>1. attempt = Begun(r)  BY <1>t, <3>1, <3>3 DEF RecordStands, Recorded
      <4>2. attempt.run = r /\ attempt.seq <= HeadSeq /\ ~ attempt.verified
        BY <1>t, <4>1, BegunIs, BegunConfirms DEF Confirms
      <4>3. Head.run # r  BY <3>1, UnlinkedIsNotHead DEF Unlinked
      <4> QED BY <1>t, <1>k, <2>2, <3>1, <3>3, <4>2, <4>3 DEF RecordStands, Confirms, Claimed
    <3> QED BY <3>2, <3>3
  <2>7. ASSUME NEW r \in Runs, FinishClaim(r) PROVE RecordStands'
    <3>1. /\ step[r] = "claim" /\ UNCHANGED <<latest, opened>>  BY <2>7 DEF FinishClaim
    <3>2. attempt = Begun(r) /\ latest = r /\ Claimed = {} /\ kind[r] = "pull"
      BY <1>t, <3>1 DEF Recorded, OfItsKind, Pulling
    <3>3. attempt' = None /\ claims' = [claims EXCEPT ![r] = Begun(r)]
      BY <2>7, <3>2, BegunIs DEF FinishClaim
    <3>4. \A x \in Claimed' : x = r /\ claims'[x] = Begun(x)
      BY <2>c, <3>2, <3>3 DEF Claimed
    <3> QED BY <1>t, <1>k, <2>2, <3>1, <3>2, <3>3, <3>4 DEF RecordStands
  <2>8. ASSUME NEW r \in Runs, FinishPublish(r) PROVE RecordStands'
    <3>1. /\ step[r] = "publish" /\ UNCHANGED <<claims, latest, opened>>
      BY <2>8 DEF FinishPublish
    <3>2. attempt = None /\ latest = r /\ my[r].result.run = r /\ Confirms(my[r].result)
      BY <1>t, <3>1 DEF Recorded
    <3>3. attempt' = my[r].result  BY <2>8, <3>2 DEF FinishPublish
    <3> QED BY <1>t, <1>k, <2>2, <3>1, <3>2, <3>3 DEF RecordStands, Confirms, Claimed
  <2> QED BY <1>2, <2>3, <2>4, <2>5, <2>6, <2>7, <2>8, RecordMoves
<1> QED BY <1>1, <1>2

LEMMA RecordedAlike ==
  ASSUME NEW q \in Runs, Recorded(q), my'[q] = my[q], step'[q] = step[q], kind' = kind,
         UNCHANGED <<record, commits>>
  PROVE  Recorded(q)'
<1>1. HeadSeq' = HeadSeq /\ Head' = Head /\ Claimed' = Claimed
  BY DEF HeadSeq, Head, Linked, Highest, Claimed, record
<1> QED BY <1>1 DEF Recorded, Confirms, record

\* What a run that does not act knows of the record stays so: the one that works
\* does not disturb it, as nobody else knows anything.
LEMMA RecordedStays ==
  ASSUME Calm, NEW q \in Runs, NEW p \in Runs \ {q}, Run(p) \/ Crash(p) \/ Fail(p)
  PROVE  Recorded(q)'
<1>t. Sound /\ Alone /\ Recorded(q)  BY DEF Calm
<1>f. kind' = kind /\ my'[q] = my[q] /\ step'[q] = step[q]  BY <1>t, RunFrame
<1>1. CASE ~ Active(q)  BY <1>f, <1>1 DEF Active, Recorded, Building
<1>2. CASE Active(q)
  <2>1. ~ Active(p)  BY <1>t, <1>2, OneIsActive
  <2>2. CASE Run(p)
    <3>1. AcquireStorage(p) \/ Remember(p)  BY <1>t, <2>1, <2>2, RunIsActive
    <3>2. UNCHANGED <<record, commits>>  BY <3>1 DEF AcquireStorage, Remember, published
    <3> QED BY <1>t, <1>f, <3>2, RecordedAlike
  <2>3. CASE Crash(p) \/ Fail(p)
    <3>1. UNCHANGED <<record, commits>>  BY <2>3 DEF Crash, Fail, published
    <3> QED BY <1>t, <1>f, <3>1, RecordedAlike
  <2> QED BY <2>2, <2>3
<1> QED BY <1>1, <1>2

\* A run whose attempt fails closes it as a failed one.
LEMMA RecordedFails ==
  ASSUME Calm, NEW r \in Runs, Fails(r), UNCHANGED <<attempt, claims, latest, commits, kind>>,
         step[r] \in {"open", "fetch", "build", "latch"} \cup Building
  PROVE  Recorded(r)'
<1>t. Sound /\ TypeOK /\ Recorded(r) /\ OfItsKind(r)  BY DEF Calm, Sound
<1>1. \/ kind[r] = "heal" /\ step'[r] = "leave import"
      \/ kind[r] # "heal" /\ step'[r] = "finish" /\ my'[r].result = Ended(r, "failed", 0, FALSE)
  BY <1>t, FailsIs
<1>2. CASE step'[r] = "leave import"  BY <1>2 DEF Recorded, Building
<1>3. CASE step'[r] = "finish" /\ kind[r] # "heal"
  <2>1. kind[r] = "pull"
    BY <1>t, <1>3, ShareAssumption DEF OfItsKind, Importing, Pulling, Building, TypeOK, Kinds
  <2>2. attempt = Begun(r) /\ latest = r /\ Claimed = {}
    BY <1>t, <2>1 DEF Recorded, Building
  <2>3. my'[r].result.run = r /\ my'[r].result.seq = 0 /\ my'[r].result.verified = FALSE
    BY <1>1, <1>3 DEF Ended
  <2>4. HeadSeq' = HeadSeq /\ Head' = Head /\ Claimed' = Claimed
    BY DEF HeadSeq, Head, Linked, Highest, Claimed
  <2>5. 0 <= HeadSeq  BY <1>t, BegunConfirms, BegunIs DEF Confirms
  <2>6. Confirms(my[r].result)'  BY <2>3, <2>4, <2>5 DEF Confirms
  <2> QED BY <1>3, <2>1, <2>2, <2>3, <2>4, <2>6 DEF Recorded, Building, Begun
<1> QED BY <1>1, <1>2, <1>3

\* A run knows nothing of the record at the other steps.
LEMMA RecordedElsewhere ==
  ASSUME NEW r \in Runs,
         step'[r] \in {"begin", "import", "owner", "scan", "sweep", "forget", "recover", "clean",
                       "leave import", "leave storage", "remember", "done"}
  PROVE  Recorded(r)'
  BY DEF Recorded, Building

LEMMA RecordedRecovery ==
  ASSUME Calm, NEW r \in Runs,
         RecoverScan(r) \/ RecoverStat(r) \/ RecoverRestore(r) \/ RecoverTidy(r) \/ Start(r)
  PROVE  Recorded(r)'
<1>t. Sound /\ TypeOK /\ Recorded(r) /\ OfItsKind(r)  BY DEF Calm, Sound
<1>c. my[r] \in Carried /\ step \in [Runs -> Steps] /\ my \in [Runs -> Carried]  BY <1>t DEF TypeOK
<1>k. kind' = kind
  BY DEF RecoverScan, RecoverStat, RecoverRestore, RecoverTidy, Start, world
<1>1. CASE RecoverScan(r)
  <2>1. Claimed' = Claimed  BY <1>1 DEF RecoverScan, record, Claimed
  <2>2. /\ my' = [my EXCEPT ![r].debris = Claimed]
        /\ step'[r] = IF Claimed = {} THEN AfterRecovery(r) ELSE "record?"
    BY <1>c, <1>1 DEF RecoverScan, Goto
  <2>3. my'[r].debris = Claimed  BY <1>c, <2>2 DEF Carried
  <2>4. (kind[r] = "heal" /\ step'[r] = "open") \/ step'[r] \in {"attempt", "record?"}
    BY <2>2 DEF AfterRecovery
  <2> QED BY <1>k, <2>1, <2>2, <2>3, <2>4 DEF Recorded, Building, AfterRecovery
<1>2. CASE RecoverStat(r)
  <2>1. CASE step'[r] = "leave import"  BY <2>1, RecordedElsewhere
  <2>2. CASE step'[r] # "leave import"
    <3>1. step[r] = "record?" /\ step'[r] \in {"tidy", "restore"} /\ my'[r] = my[r] /\ claims' = claims
      BY <1>c, <1>2, <2>2 DEF RecoverStat, Goto, record
    <3> QED BY <1>t, <3>1 DEF Recorded, Building, Claimed
  <2> QED BY <2>1, <2>2
<1>3. CASE RecoverRestore(r)
  <2>1. CASE step'[r] = "leave import"  BY <2>1, RecordedElsewhere
  <2>2. CASE step'[r] # "leave import"
    <3>1. step[r] = "restore" /\ step'[r] = "tidy" /\ my'[r] = my[r] /\ claims' = claims
      BY <1>c, <1>3, <2>2 DEF RecoverRestore, Goto
    <3> QED BY <1>t, <3>1 DEF Recorded, Building, Claimed
  <2> QED BY <2>1, <2>2
<1>4. CASE RecoverTidy(r)
  <2>1. /\ step[r] = "tidy" /\ step'[r] = AfterRecovery(r)
        /\ claims' = [x \in Runs |-> IF x \in my[r].debris THEN None ELSE claims[x]]
    BY <1>c, <1>4 DEF RecoverTidy, Goto
  <2>2. Claimed' = {}  BY <1>t, <2>1 DEF Recorded, Claimed
  <2> QED BY <1>k, <2>1, <2>2 DEF Recorded, Building, AfterRecovery
<1>5. CASE Start(r)
  <2>1. /\ step[r] = "attempt" /\ step'[r] = "open" /\ attempt' = Begun(r) /\ latest' = r
        /\ claims' = claims /\ opened' = None
    BY <1>c, <1>5 DEF Start, Goto, Begun
  <2>2. Claimed' = {}  BY <1>t, <2>1 DEF Recorded, Claimed
  <2> QED BY <2>1, <2>2 DEF Recorded, Building, Begun
<1> QED BY <1>1, <1>2, <1>3, <1>4, <1>5

LEMMA RecordedImport ==
  ASSUME Calm, NEW r \in Runs, Open(r) \/ Fetch(r) \/ Build(r)
  PROVE  Recorded(r)'
<1>t. Sound /\ TypeOK /\ Recorded(r) /\ OfItsKind(r)  BY DEF Calm, Sound
<1>c. my[r] \in Carried /\ step \in [Runs -> Steps] /\ my \in [Runs -> Carried]  BY <1>t DEF TypeOK
<1>k. UNCHANGED <<attempt, claims, latest, commits, kind>> /\ step[r] \in {"open", "fetch", "build"}
  BY DEF Open, Fetch, Build, record, published, world
<1>h. HeadSeq' = HeadSeq /\ Head' = Head /\ Claimed' = Claimed
  BY <1>k DEF HeadSeq, Head, Linked, Highest, Claimed
<1>1. CASE Fails(r)  BY <1>k, <1>1, RecordedFails
<1>2. CASE Open(r) /\ ~ Fails(r) /\ kind[r] = "pull"
  <2>1. attempt = Begun(r) /\ latest = r /\ Claimed = {}  BY <1>t, <1>2 DEF Recorded, Open
  <2>2. opened' = bucket  BY <1>2, <2>1 DEF Open
  <2>3. CASE NoopHead
    <3> DEFINE res == Ended(r, "succeeded", HeadSeq, TRUE)
               c == [Nothing EXCEPT !.seen = bucket, !.result = res]
    <3>1. my' = [my EXCEPT ![r] = c] /\ step'[r] = "finish"
      BY <1>c, <1>2, <2>3 DEF Open, Goto
    <3>2. my'[r].result = res
      <4> HIDE DEF res
      <4>1. c.result = res  BY DEF Nothing
      <4> HIDE DEF c
      <4> QED BY <1>c, <3>1, <4>1
    <3>3. res.run = r /\ res.seq = HeadSeq  BY DEF Ended
    <3>4. HeadSeq \in Nat  BY <1>t, HeadIsCommit, RunsAreCounted
    <3>5. Head.source = bucket  BY <2>3 DEF NoopHead
    <3> HIDE DEF res, c
    <3>6. Confirms(my[r].result)'  BY <1>h, <2>2, <3>2, <3>3, <3>4, <3>5 DEF Confirms
    <3> QED BY <1>k, <1>h, <2>1, <3>1, <3>2, <3>3, <3>6 DEF Recorded, Building, Begun
  <2>4. CASE ~ NoopHead
    <3>1. my' = [my EXCEPT ![r].seen = bucket] /\ step'[r] = "fetch"
      BY <1>c, <1>2, <2>4 DEF Open, Goto
    <3>2. my'[r].seen = bucket  BY <1>c, <3>1 DEF Carried
    <3> QED BY <1>k, <1>h, <2>1, <2>2, <3>1, <3>2 DEF Recorded, Building, Begun
  <2> QED BY <2>3, <2>4
<1>3. CASE Open(r) /\ ~ Fails(r) /\ kind[r] # "pull"
  <2>1. step'[r] = "build"  BY <1>c, <1>3 DEF Open, Goto
  <2> QED BY <1>k, <1>3, <2>1 DEF Recorded, Building
<1>4. CASE Fetch(r) /\ ~ Fails(r)
  <2>1. step[r] = "fetch" /\ step'[r] = "build" /\ my'[r] = my[r] /\ opened' = opened
    BY <1>c, <1>4 DEF Fetch, Goto, record
  <2> QED BY <1>t, <1>k, <1>h, <2>1 DEF Recorded, Building, Begun
<1>5. CASE Build(r)
  <2>1. step[r] = "build" /\ step'[r] = "storage?" /\ my'[r] = my[r] /\ opened' = opened
    BY <1>c, <1>5 DEF Build, Goto, record
  <2> QED BY <1>t, <1>k, <1>h, <2>1 DEF Recorded, Building, Begun
<1> QED BY <1>1, <1>2, <1>3, <1>4, <1>5

LEMMA RecordedPublish ==
  ASSUME Calm, NEW r \in Runs,
         FenceStorage(r) \/ FenceImport(r) \/ Records(r) \/ Link(r) \/ Latch(r)
  PROVE  Recorded(r)'
<1>t. Sound /\ TypeOK /\ Ready(r) /\ Recorded(r) /\ Prepared(r) /\ OfItsKind(r)  BY DEF Calm, Sound
<1>c. my[r] \in Carried /\ step \in [Runs -> Steps] /\ my \in [Runs -> Carried]  BY <1>t DEF TypeOK
<1>k. /\ UNCHANGED <<attempt, claims, latest, opened, kind>>
      /\ step[r] \in {"latch"} \cup Building
  BY DEF FenceStorage, FenceImport, Records, Link, Latch, record, world, Building
<1>1. CASE Fails(r) /\ ~ Link(r)
  <2>1. UNCHANGED commits
    BY <1>1 DEF FenceStorage, FenceImport, Records, Latch, published
  <2> QED BY <1>k, <1>1, <2>1, RecordedFails
<1>h. \/ kind[r] # "pull"
      \/ attempt = Begun(r) /\ latest = r /\ Claimed = {} /\ my[r].seen = opened
  BY <1>t, <1>k DEF Recorded
<1>q. Claimed' = Claimed  BY <1>k DEF Claimed
<1>2. ASSUME step'[r] \in {"latch"} \cup Building, my'[r].seen = my[r].seen PROVE Recorded(r)'
  BY <1>k, <1>h, <1>q, <1>2 DEF Recorded, Building, Begun
<1>3. CASE (FenceStorage(r) \/ FenceImport(r)) /\ ~ Fails(r)
  <2>1. step'[r] \in Building /\ my'[r] = my[r]
    BY <1>c, <1>3 DEF FenceStorage, FenceImport, Goto, Building
  <2> QED BY <1>2, <2>1
<1>4. CASE Records(r) /\ ~ Fails(r)
  <2>1. /\ step'[r] = "link"
        /\ \E n : my' = [my EXCEPT ![r].next = n]
    BY <1>c, <1>4 DEF Records, Goto
  <2>2. my'[r].seen = my[r].seen  BY <1>c, <2>1 DEF Carried
  <2> QED BY <1>2, <2>1, <2>2 DEF Building
<1>5. CASE Link(r)
  <2>1. step'[r] \in {"latch", "storage?"} /\ my'[r] = my[r]  BY <1>c, <1>5 DEF Link, Goto
  <2> QED BY <1>2, <2>1 DEF Building
<1>6. CASE Latch(r) /\ ~ Fails(r)
  <2> DEFINE res == Ended(r, "succeeded", my[r].next.seq, FALSE)
  <2>1. my[r].next \in Place /\ step[r] = "latch"
    BY <1>t, <1>6, CarriedFields DEF Ready, Latch, TypeOK
  <2>2. res \in Attempt /\ res.run = r /\ res.seq = my[r].next.seq /\ res.verified = FALSE
    BY <2>1 DEF Ended, Attempt, Owners, Place
  <2> HIDE DEF res
  <2>3. Outcome(r, res, VersionOf[First])  BY <1>6 DEF Latch, res
  <2>4. \/ kind[r] = "heal" /\ step'[r] = "leave import"
        \/ kind[r] # "heal" /\ step'[r] = "finish" /\ my'[r].result = res
    BY <1>t, <2>2, <2>3, VersionsAreNat, OutcomeIs
  <2>5. CASE step'[r] = "leave import"  BY <2>5, RecordedElsewhere
  <2>6. CASE step'[r] = "finish" /\ kind[r] # "heal" /\ my'[r].result = res
    <3>1. kind[r] = "pull"
      BY <1>t, <2>1, <2>6, ShareAssumption DEF OfItsKind, Importing, TypeOK, Kinds
    <3>2. HeadSeq' = HeadSeq /\ Head' = Head
      BY <1>6 DEF Latch, published, HeadSeq, Head, Linked, Highest
    <3>3. my[r].next.seq = HeadSeq  BY <1>t, <2>1 DEF Prepared
    <3>4. HeadSeq \in Nat  BY <1>t, HeadIsCommit, RunsAreCounted
    <3>5. Confirms(my[r].result)'  BY <2>2, <2>6, <3>2, <3>3, <3>4 DEF Confirms
    <3> QED BY <1>k, <1>h, <1>q, <2>2, <2>6, <3>1, <3>5 DEF Recorded, Building, Begun
  <2> QED BY <2>4, <2>5, <2>6
<1> QED BY <1>1, <1>3, <1>4, <1>5, <1>6

LEMMA RecordedFinish ==
  ASSUME Calm, NEW r \in Runs,
         \/ FinishRead(r) \/ FinishClaim(r) \/ FinishCompare(r) \/ FinishPublish(r)
         \/ FinishReturn(r) \/ FinishClean(r) \/ Remember(r)
  PROVE  Recorded(r)'
<1>t. Sound /\ TypeOK /\ Recorded(r) /\ OfItsKind(r)  BY DEF Calm, Sound
<1>c. /\ my[r] \in Carried /\ step \in [Runs -> Steps] /\ my \in [Runs -> Carried]
      /\ claims \in [Runs -> Attempt \cup {None}]
  BY <1>t DEF TypeOK
<1>k. UNCHANGED <<commits, opened, latest, kind>>
  BY DEF FinishRead, FinishClaim, FinishCompare, FinishPublish, FinishReturn, FinishClean, Remember,
         record, published, world
<1>h. HeadSeq' = HeadSeq /\ Head' = Head  BY <1>k DEF HeadSeq, Head, Linked, Highest
<1>1. CASE Lost(r)
  <2>1. step'[r] = "leave import"  BY <1>c, <1>1 DEF Lost, Goto
  <2> QED BY <2>1, RecordedElsewhere
<1>2. CASE FinishRead(r) /\ ~ Lost(r)
  <2>1. /\ step[r] = "finish" /\ step'[r] = "claim" /\ attempt = Begun(r)
        /\ my' = [my EXCEPT ![r].bytes = attempt] /\ UNCHANGED <<attempt, claims>>
    BY <1>c, <1>2 DEF FinishRead, Goto, record, Begun
  <2>2. my'[r].bytes = Begun(r) /\ my'[r].result = my[r].result  BY <1>c, <2>1 DEF Carried
  <2>3. Claimed' = Claimed  BY <2>1 DEF Claimed
  <2> QED BY <1>t, <1>k, <1>h, <2>1, <2>2, <2>3 DEF Recorded, Building, Confirms, Begun
<1>3. CASE FinishClaim(r) /\ ~ Lost(r)
  <2>1. /\ step[r] = "claim" /\ step'[r] = "compare" /\ attempt' = None /\ my'[r] = my[r]
        /\ claims' = [claims EXCEPT ![r] = attempt]
    BY <1>c, <1>3 DEF FinishClaim, Goto
  <2>2. kind[r] = "pull"  BY <1>t, <2>1 DEF OfItsKind, Pulling
  <2>3. attempt = Begun(r) /\ latest = r  BY <1>t, <2>1, <2>2 DEF Recorded
  <2>4. claims'[r] = Begun(r)  BY <1>c, <2>1, <2>3
  <2> QED BY <1>t, <1>k, <1>h, <2>1, <2>3, <2>4 DEF Recorded, Building, Confirms, Begun
<1>4. CASE FinishCompare(r)
  <2>1. step[r] = "compare" /\ my'[r] = my[r] /\ UNCHANGED <<attempt, claims>>
    BY <1>4 DEF FinishCompare, record
  <2>2. step'[r] = "publish"
    BY <1>t, <1>c, <1>4, <2>1 DEF FinishCompare, Recorded, Goto
  <2> QED BY <1>t, <1>k, <1>h, <2>1, <2>2 DEF Recorded, Building, Confirms, Begun
<1>5. CASE FinishPublish(r) \/ FinishReturn(r) \/ FinishClean(r) \/ Remember(r)
  <2>1. step'[r] \in {"clean", "leave import", "done"}
    BY <1>c, <1>5 DEF FinishPublish, FinishReturn, FinishClean, Remember, Goto
  <2> QED BY <2>1, RecordedElsewhere
<1> QED BY <1>1, <1>2, <1>3, <1>4, <1>5

LEMMA RecordedRun ==
  ASSUME Calm, NEW r \in Runs, Run(r) \/ Crash(r) \/ Fail(r)
  PROVE  Recorded(r)'
<1>t. Sound /\ step \in [Runs -> Steps]  BY DEF Calm, Sound, TypeOK
<1>1. CASE \/ AcquireStorage(r) \/ AcquireImport(r) \/ LeaveImport(r) \/ LeaveStorage(r)
           \/ SweepOwner(r) \/ SweepScan(r) \/ SweepGens(r) \/ SweepRecords(r) \/ Crash(r)
  <2>1. step'[r] \in {"import", "owner", "scan", "sweep", "forget", "recover", "leave storage",
                      "remember", "done"}
    BY <1>t, <1>1 DEF AcquireStorage, AcquireImport, LeaveImport, LeaveStorage, SweepOwner,
                      SweepScan, SweepGens, SweepRecords, Crash, Goto
  <2> QED BY <2>1, RecordedElsewhere
<1>2. CASE Fail(r)
  BY <1>2, RecordedFails DEF Fail, record
<1> QED BY <1>1, <1>2, RecordedRecovery, RecordedImport, RecordedPublish, RecordedFinish DEF Run

LEMMA CalmInit ==
  ASSUME Init
  PROVE  Calm
<1>1. Sound  BY SoundInit
<1>2. [run |-> Origin, source |-> First, floor |-> VersionOf[First]] # None
  BY VersionsAreNat, ShareAssumption, NoneAssumption DEF Commit, Owners
<1>3. Linked = {1}  BY <1>2, RunsAreCounted DEF Init, Linked
<1>4. HeadSeq = 1  BY <1>3, HeadExists
<1>5. Head.run = Origin /\ Head.source = First /\ Head.floor = VersionOf[First]
  BY <1>4, RunsAreCounted DEF Head, Init
<1>6. Alone
  BY DEF Init, Alone, Active
<1>7. HeadStands
  <2>1. [old |-> FALSE, whole |-> TRUE] # None
    <3>1. [old |-> FALSE, whole |-> TRUE] \in Generation  BY DEF Generation
    <3> QED BY <3>1, NoneAssumption
  <2>2. VersionOf[First] \in Nat /\ VersionOf[First] <= VersionOf[First]
    <3>1. VersionOf[First] \in Nat  BY VersionsAreNat
    <3> QED BY <3>1
  <2>3. Origin \in Owners  BY DEF Owners
  <2>4. gens[Origin] # None /\ top = VersionOf[First]  BY <2>1, <2>3 DEF Init
  <2>5. \A s \in Linked : commits[s].floor = VersionOf[First]  BY <1>3, <1>4, <1>5 DEF Head
  <2> QED BY <1>5, <2>2, <2>4, <2>5 DEF HeadStands
<1>8. RecordStands
  <2>1. Claimed = {}  BY DEF Init, Claimed
  <2>2. attempt.run = Origin /\ attempt.seq = 1 /\ attempt.verified = FALSE
    BY DEF Init, Ended
  <2>3. latest = Origin /\ opened = First  BY DEF Init
  <2> QED BY <1>4, <1>5, <2>1, <2>2, <2>3, ShareAssumption DEF RecordStands, Confirms
<1>9. ASSUME NEW r \in Runs PROVE OfItsKind(r) /\ Prepared(r) /\ Recorded(r)
  <2>1. step[r] = IF kind[r] = "absent" THEN "done" ELSE "begin"  BY DEF Init
  <2>2. \A s \in Linked : commits[s].run # r  BY <1>3, <1>4, <1>5, ShareAssumption DEF Head
  <2>3. step[r] # "done" => kind[r] # "absent"  BY <2>1
  <2> QED BY <2>1, <2>2, <2>3 DEF OfItsKind, Prepared, Recorded, Importing, Pulling, Ending, Building
<1> QED BY <1>1, <1>6, <1>7, <1>8, <1>9 DEF Calm

LEMMA CalmNext ==
  ASSUME ~ slept', Calm, [Next]_vars
  PROVE  Calm'
<1>t. Sound  BY DEF Calm
<1>1. CASE Next
  <2>1. Sound'  BY <1>t, <1>1, SoundNext
  <2>2. Alone' /\ HeadStands' /\ RecordStands' /\ \A r \in Runs : OfItsKind(r)'
    BY <1>1, AloneNext, HeadStandsNext, RecordStandsNext, KindNext
  <2>3. ASSUME NEW r \in Runs PROVE Prepared(r)' /\ Recorded(r)'
    <3>1. CASE Run(r) \/ Crash(r) \/ Fail(r)  BY <1>1, <3>1, PreparedRun, RecordedRun
    <3>2. ASSUME NEW p \in Runs \ {r}, Run(p) \/ Crash(p) \/ Fail(p)
          PROVE  Prepared(r)' /\ Recorded(r)'
      <4>1. kind' = kind /\ my'[r] = my[r] /\ step'[r] = step[r]  BY <1>t, <3>2, RunFrame
      <4> QED BY <1>1, <3>2, <4>1, PreparedStays, RecordedStays
    <3>3. CASE UNCHANGED <<my, step, kind, record, commits>>
      <4>1. Recorded(r)  BY DEF Calm
      <4>2. my'[r] = my[r] /\ step'[r] = step[r] /\ kind' = kind  BY <3>3
      <4> QED BY <1>1, <3>3, <4>1, <4>2, PreparedStays, RecordedAlike
    <3>4. \/ \E p \in Runs : Run(p) \/ Crash(p) \/ Fail(p)
          \/ UNCHANGED <<my, step, kind, record, commits>>
      BY <1>1 DEF Next, RunStep, Heartbeat, Lapse, Damage, Move, world, published
    <3> QED BY <3>1, <3>2, <3>3, <3>4
  <2> QED BY <2>1, <2>2, <2>3 DEF Calm
<1>2. CASE UNCHANGED vars
  <2>1. Sound'  BY <1>t, SoundNext
  <2>2. /\ Alone /\ HeadStands /\ RecordStands
        /\ \A r \in Runs : OfItsKind(r) /\ Prepared(r) /\ Recorded(r)
    BY DEF Calm
  <2>3. Linked' = Linked /\ HeadSeq' = HeadSeq /\ Head' = Head /\ Claimed' = Claimed
    BY <1>2 DEF vars, published, record, HeadSeq, Head, Linked, Highest, Claimed
  <2>4. Alone' /\ HeadStands' /\ RecordStands'
    BY <1>2, <2>2, <2>3
       DEF vars, leases, published, record, world, Alone, Active, HeadStands, RecordStands, Confirms
  <2>5. \A r \in Runs : OfItsKind(r)' /\ Prepared(r)' /\ Recorded(r)'
    BY <1>2, <2>2, <2>3
       DEF vars, leases, published, record, world, OfItsKind, Prepared, Recorded, Confirms
  <2> QED BY <2>1, <2>4, <2>5 DEF Calm
<1> QED BY <1>1, <1>2

\* Until a run is suspended: once one was, nothing more is said.
Awake == Sound /\ (~ slept => Calm)

LEMMA AwakeInit == Init => Awake
  BY CalmInit DEF Awake, Calm

LEMMA AwakeNext ==
  ASSUME Awake, [Next]_vars
  PROVE  Awake' /\ (~ slept' => Calm /\ Calm')
<1>1. Sound'  BY SoundNext DEF Awake
<1>2. slept => slept'
  <2>1. CASE UNCHANGED vars  BY <2>1 DEF vars
  <2>2. CASE Next
    <3>1. ASSUME NEW r \in Runs, Run(r) PROVE slept' = slept
      BY <3>1, RunFiles DEF Awake, world
    <3> QED BY <2>2, <3>1 DEF Next, RunStep, Heartbeat, Lapse, Crash, Fail, Damage, Move, world
  <2> QED BY <2>1, <2>2
<1>3. ~ slept' => Calm /\ Calm'  BY <1>2, CalmNext DEF Awake
<1> QED BY <1>1, <1>3 DEF Awake

\* While no living run was suspended past its lease, the head and its files
\* stand, raced or not.
HeadStandsAlways == Linked # {} /\ gens[Head.run] # None /\ NeverRollsBack

\* What is published stands: whatever fails or dies, and whatever the bucket goes
\* back to, no pull, repair or collection (share_gen.go publishShareGeneration,
\* gc.go SweepGenerations) takes the generation of the head away or publishes a
\* version below one that was served.
THEOREM PublishedHolds == Spec => [](~ slept => PublishedStands /\ HeadStandsAlways)
<1>1. Init => Awake  BY AwakeInit
<1>2. Awake /\ [Next]_vars => Awake'  BY AwakeNext
<1>3. Awake => (~ slept => PublishedStands /\ HeadStandsAlways)
  <2>1. SUFFICES ASSUME Calm PROVE PublishedStands /\ HeadStandsAlways  BY DEF Awake
  <2>2. Linked # {} /\ HeadStands  BY <2>1 DEF Calm, Sound, Ordered
  <2>3. NeverRollsBack  BY <2>2 DEF HeadStands, NeverRollsBack, FloorHolds
  <2> QED BY <2>2, <2>3 DEF PublishedStands, HeadIsThere, HeadStandsAlways, HeadStands
<1> QED BY <1>1, <1>2, <1>3, PTL DEF Spec

\* The record of the last attempt is kept and says what that attempt came to: no
\* completer of an earlier one replaces a successor's record (attempt.go:5),
\* whoever closes, recovers or begins beside it; and a subscription reads as fresh
\* (share_health.go) only while the generation it serves was cut from what the
\* last attempt opened, not from another manifest of the same version.
THEOREM LatestAttemptHolds ==
  Spec => [](~ slept => LatestAttemptStands /\ StaleNeverReplaces /\ FreshIsCurrent)
<1>1. Init => Awake  BY AwakeInit
<1>2. Awake /\ [Next]_vars => Awake'  BY AwakeNext
<1>3. Awake => (~ slept => LatestAttemptStands /\ StaleNeverReplaces /\ FreshIsCurrent)
  <2>1. SUFFICES ASSUME Calm PROVE LatestAttemptStands /\ StaleNeverReplaces /\ FreshIsCurrent
    BY DEF Awake
  <2>2. AttemptIsKept /\ RecordStands  BY <2>1 DEF Calm, Sound, Kept, AttemptIsKept
  <2>3. StaleNeverReplaces  BY <2>2 DEF RecordStands, StaleNeverReplaces
  <2>4. FreshIsCurrent  BY <2>2 DEF FreshIsCurrent, ReadsFresh, RecordStands, Confirms
  <2> QED BY <2>2, <2>3, <2>4 DEF LatestAttemptStands
<1> QED BY <1>1, <1>2, <1>3, PTL DEF Spec

-----------------------------------------------------------------------------
(* ShareImport keeps the promise of Subscription, read as in ShareImport.   *)

LEMMA ServedInit ==
  ASSUME Init
  PROVE  Served!Init
<1>1. [run |-> Origin, source |-> First, floor |-> VersionOf[First]] # None
  BY VersionsAreNat, ShareAssumption, NoneAssumption DEF Commit, Owners
<1>2. Linked = {1}  BY <1>1, RunsAreCounted DEF Init, Linked
<1>3. HeadSeq = 1  BY <1>2, HeadExists
<1>4. Head.run = Origin /\ Head.source = First
  BY <1>3, RunsAreCounted DEF Head, Init
<1>5. ReadsFresh
  <2>1. Claimed = {}  BY DEF Init, Claimed
  <2>2. [old |-> FALSE, whole |-> TRUE] # None
    <3>1. [old |-> FALSE, whole |-> TRUE] \in Generation  BY DEF Generation
    <3> QED BY <3>1, NoneAssumption
  <2>3. gens[Origin] = [old |-> FALSE, whole |-> TRUE]  BY DEF Init, Owners
  <2>4. Intact(Head.run)  BY <1>4, <2>2, <2>3 DEF Intact
  <2>5. Ended(Origin, "succeeded", 1, FALSE) # None
    <3>1. Ended(Origin, "succeeded", 1, FALSE) \in Attempt
      BY RunsAreCounted DEF Ended, Attempt, Owners
    <3> QED BY <3>1, NoneAssumption
  <2>6. attempt # None /\ attempt.state = "succeeded" /\ attempt.seq = 1 /\ attempt.run = Origin
    BY <2>5 DEF Init, Ended
  <2> QED BY <1>2, <1>3, <1>4, <2>1, <2>4, <2>6 DEF ReadsFresh
<1>6. opened = First  BY DEF Init
<1> QED BY <1>3, <1>4, <1>5, <1>6 DEF Served!Init

\* A commit is a publication of what the last attempt found, or a repair.
LEMMA ServedLink ==
  ASSUME Calm, NEW r \in Runs, Links(r)
  PROVE  Served!Publish \/ Served!Repair
<1>t. Sound /\ TypeOK /\ Ready(r) /\ OfItsKind(r) /\ Prepared(r) /\ Recorded(r) /\ HeadStands
  BY DEF Calm, Sound
<1>1. /\ HeadSeq' = HeadSeq + 1
      /\ Head' = [run |-> r, source |-> my[r].seen, floor |-> my[r].next.floor]
      /\ my[r].next.floor = VersionOf[my[r].seen] /\ my[r].next.floor >= top
  BY CalmLink
<1>2. Head'.source = my[r].seen  BY <1>1
<1>3. step[r] = "link" /\ opened' = opened  BY DEF Links
<1>4. CASE kind[r] = "pull"
  <2>1. my[r].seen = opened /\ my[r].seen # None
    BY <1>t, <1>3, <1>4 DEF Recorded, Ready, Building
  <2>2. VersionOf[opened] >= VersionOf[Head.source]
    BY <1>t, <1>1, <2>1 DEF HeadStands
  <2> QED BY <1>1, <1>2, <1>3, <2>1, <2>2 DEF Served!Publish
<1>5. CASE kind[r] = "heal"
  <2>1. my[r].seen = Head.source  BY <1>t, <1>3, <1>5 DEF Prepared, Building
  <2> QED BY <1>1, <1>2, <1>3, <2>1 DEF Served!Repair
<1>6. kind[r] \in {"pull", "heal"}
  BY <1>t, <1>3, ShareAssumption DEF OfItsKind, Importing, Building, TypeOK, Kinds
<1> QED BY <1>4, <1>5, <1>6

LEMMA ServedNext ==
  ASSUME Calm, Calm', [Next]_vars
  PROVE  [Served!Next]_Served!subscription
<1>t. Sound /\ RecordStands /\ TypeOK /\ \A r \in Runs : Recorded(r)  BY DEF Calm, Sound
<1>f. ReadsFresh' => Head'.source = opened'
  BY DEF Calm, ReadsFresh, RecordStands, Confirms
<1>j. Served!Judge => [Served!Next]_Served!subscription
  BY <1>f DEF Served!Next
<1>1. CASE UNCHANGED vars
  <2>1. UNCHANGED <<Head, HeadSeq, opened>>
    BY <1>1 DEF vars, published, record, HeadSeq, Head, Linked, Highest
  <2> QED BY <1>j, <2>1 DEF Served!Judge
<1>2. CASE Next /\ UNCHANGED record
  <2>1. CASE \E r \in Runs : Links(r)
    <3>1. Served!Publish \/ Served!Repair  BY <2>1, ServedLink
    <3> QED BY <1>f, <3>1 DEF Served!Next
  <2>2. CASE ~ \E r \in Runs : Links(r)
    <3>1. HeadSeq' = HeadSeq /\ Head' = Head  BY <1>t, <1>2, <2>2, HeadMoves
    <3> QED BY <1>2, <1>j, <3>1 DEF Served!Judge, record
  <2> QED BY <2>1, <2>2
<1>3. CASE Next /\ ~ UNCHANGED record
  <2>1. UNCHANGED commits  BY <1>3, RecordMoves
  <2>2. HeadSeq' = HeadSeq /\ Head' = Head
    BY <2>1 DEF HeadSeq, Head, Linked, Highest
  <2>3. ASSUME NEW r \in Runs, Start(r) PROVE [Served!Next]_Served!subscription
    <3>1. Served!Begin  BY <2>2, <2>3 DEF Start, Served!Begin
    <3> QED BY <1>f, <3>1 DEF Served!Next
  <2>4. ASSUME NEW r \in Runs, Open(r) PROVE [Served!Next]_Served!subscription
    <3>1. step[r] = "open" /\ opened' = IF latest = r THEN bucket ELSE opened
      BY <2>4 DEF Open
    <3>2. CASE latest = r
      <4>1. kind[r] = "pull"  BY <1>t, <3>2 DEF RecordStands
      <4>2. opened = None /\ bucket \in Manifests  BY <1>t, <3>1, <4>1 DEF Recorded, TypeOK
      <4>3. Served!Find(bucket)  BY <2>2, <3>1, <3>2, <4>2 DEF Served!Find
      <4> QED BY <1>f, <4>2, <4>3 DEF Served!Next
    <3>3. CASE latest # r  BY <1>j, <2>2, <3>1, <3>3 DEF Served!Judge
    <3> QED BY <3>2, <3>3
  <2>5. ASSUME UNCHANGED opened PROVE [Served!Next]_Served!subscription
    BY <1>j, <2>2, <2>5 DEF Served!Judge
  <2>6. \/ \E r \in Runs : Start(r) \/ Open(r)
        \/ UNCHANGED opened
    BY <1>3, RecordMoves DEF RecoverRestore, RecoverTidy, FinishClaim, FinishPublish, FinishClean
  <2> QED BY <2>3, <2>4, <2>5, <2>6
<1> QED BY <1>1, <1>2, <1>3

\* Until a living run is suspended past its lease, runs pull, repair, collect, fail,
\* die and recover as if each publication were one step: of what the last attempt
\* found and not of an older version, or, for a repair (share.go
\* healShareIndex), of what was served; and the subscription reads as fresh only
\* while it serves what was found.
THEOREM ImplementsSubscription == Spec => ServesWhatItFound
<1>1. Init => Awake /\ Served!Init  BY AwakeInit, ServedInit
<1>2. Awake /\ [Next]_vars => Awake'  BY AwakeNext
<1>3. Awake /\ [Next]_vars => [~ slept' => Served!Next]_(Served!subscription)
  <2>1. SUFFICES ASSUME Awake, [Next]_vars, ~ slept' PROVE [Served!Next]_(Served!subscription)
    OBVIOUS
  <2> QED BY <2>1, AwakeNext, ServedNext
<1> QED BY <1>1, <1>2, <1>3, PTL DEF Spec, ServesWhatItFound
=============================================================================
