-------------------------- MODULE SourceSyncProofs ---------------------------
(***************************************************************************)
(* Theorems about SourceSync, for any runs, rebuilds, items, histories and *)
(* faults: types, a clean index that is right, an honest cursor.  Typed is *)
(* an invariant by itself; Clean and Kept are invariants given Typed, and  *)
(* neither needs the other.                                                *)
(*                                                                         *)
(* Typed says that only the run that has the lease is in its walk, and     *)
(* that tokens and cursors point at what exists.  Clean says where what is *)
(* wrong in the index, or in the index being made, is written down: in a   *)
(* journal, past the size that any rebuild that will compact it saw.  Kept *)
(* says what a status with a token, and a page in hand, claim to be in the *)
(* vault, and that no page is older than a cursor the run knows.           *)
(***************************************************************************)
EXTENDS SourceSync, FiniteSetTheorems, WellFoundedInduction, TLAPS

-----------------------------------------------------------------------------
(* Numbers. *)

LEMMA Least ==
  ASSUME NEW T \in SUBSET Nat, T # {}
  PROVE  \E n \in T : \A k \in T : n <= k
<1>1. PICK n \in T : \A k \in T : <<k, n>> \notin OpToRel(<, Nat)
  BY NatLessThanWellFounded, WFMin
<1>2. \A k \in T : ~ (k < n)
  BY <1>1 DEF OpToRel
<1> QED
  BY <1>2

\* A set of numbers with a bound has a greatest.
LEMMA Greatest ==
  ASSUME NEW n \in Nat, NEW T \in SUBSET (1..n), T # {}
  PROVE  MaxOf(T) \in T /\ \A k \in T : k <= MaxOf(T)
<1> DEFINE Bounding == {k \in Nat : \A x \in T : x <= k}
<1>1. n \in Bounding
  OBVIOUS
<1>2. PICK m \in Bounding : \A k \in Bounding : m <= k
  BY <1>1, Least
<1>3. m \in T
  <2> SUFFICES ASSUME m \notin T PROVE FALSE
    OBVIOUS
  <2>1. \A x \in T : x \in 1..n /\ x <= m /\ x # m
    BY <1>2
  <2>2. m \in Nat \ {0}
    <3>1. PICK x \in T : TRUE
      OBVIOUS
    <3> QED
      BY <1>2, <2>1, <3>1
  <2>3. m - 1 \in Bounding
    BY <2>1, <2>2
  <2> QED
    BY <1>2, <2>2, <2>3
<1>4. \A x \in T : x <= m
  BY <1>2
<1> QED
  BY <1>3, <1>4 DEF MaxOf

-----------------------------------------------------------------------------
(* The versions of an item. *)

\* VersionAt, of any history.
Ver(l, i, n) ==
  LET changes == {p \in 1..n : l[p] = i}
  IN  IF changes = {} THEN 0 ELSE MaxOf(changes)

LEMMA VersionIsVer ==
  /\ \A i, n : VersionAt(i, n) = Ver(log, i, n)
  /\ \A i : Version(i) = Ver(log, i, Len(log))
  BY DEF Version, VersionAt, Changes, Ver

\* The version an item had is the last of its changes up to then.
LEMMA VerIs ==
  ASSUME NEW l, NEW i, NEW n \in Nat
  PROVE  /\ Ver(l, i, n) \in 0..n
         /\ Ver(l, i, n) # 0 => l[Ver(l, i, n)] = i
         /\ \A p \in 1..n : l[p] = i => p <= Ver(l, i, n)
<1> DEFINE changes == {p \in 1..n : l[p] = i}
<1>1. CASE changes = {}
  BY <1>1 DEF Ver
<1>2. CASE changes # {}
  <2>1. changes \in SUBSET (1..n)
    OBVIOUS
  <2>2. MaxOf(changes) \in changes /\ \A k \in changes : k <= MaxOf(changes)
    BY <1>2, <2>1, Greatest
  <2> QED
    BY <1>2, <2>2 DEF Ver
<1> QED
  BY <1>1, <1>2

LEMMA VerGrows ==
  ASSUME NEW l, NEW i, NEW m \in Nat, NEW n \in Nat, m <= n
  PROVE  Ver(l, i, m) <= Ver(l, i, n)
<1> DEFINE v == Ver(l, i, m)
           w == Ver(l, i, n)
<1>1. /\ v \in 0..m /\ (v # 0 => l[v] = i)
      /\ w \in 0..n /\ \A p \in 1..n : l[p] = i => p <= w
  BY VerIs
<1> HIDE DEF v, w
<1>2. v <= w
  BY <1>1
<1> QED
  BY <1>2 DEF v, w

\* From one position to the next only the item that changed there has another.
LEMMA VerSteps ==
  ASSUME NEW l, NEW i, NEW p \in Nat \ {0}
  PROVE  Ver(l, i, p) = IF l[p] = i THEN p ELSE Ver(l, i, p - 1)
<1> DEFINE v == Ver(l, i, p - 1)
           w == Ver(l, i, p)
<1>1. /\ v \in 0..(p - 1) /\ (v # 0 => l[v] = i)
      /\ \A q \in 1..(p - 1) : l[q] = i => q <= v
      /\ w \in 0..p /\ (w # 0 => l[w] = i)
      /\ \A q \in 1..p : l[q] = i => q <= w
  BY VerIs
<1> HIDE DEF v, w
<1>2. w = IF l[p] = i THEN p ELSE v
  BY <1>1
<1> QED
  BY <1>2 DEF v, w

\* What comes later changes nothing of the past.
LEMMA VerStays ==
  ASSUME NEW S, NEW l \in Seq(S), NEW j \in S, NEW i, NEW n \in 0..Len(l)
  PROVE  Ver(Append(l, j), i, n) = Ver(l, i, n)
<1>1. \A p \in 1..n : Append(l, j)[p] = l[p]
  OBVIOUS
<1>2. {p \in 1..n : Append(l, j)[p] = i} = {p \in 1..n : l[p] = i}
  BY <1>1
<1> QED
  BY <1>2 DEF Ver

LEMMA VerZero ==
  ASSUME NEW l, NEW i
  PROVE  Ver(l, i, 0) = 0
  BY VerIs

-----------------------------------------------------------------------------
(* What a compaction leaves. *)

\* The least number of members up to p grows by one at each member.
LEMMA Ranks ==
  ASSUME NEW N \in Nat, NEW T \in SUBSET (1..N)
  PROVE  /\ IsFiniteSet(T) /\ Cardinality(T) \in Nat
         /\ \A n \in 1..Cardinality(T) :
              \E p \in T : Cardinality({q \in T : q <= p}) = n
<1> DEFINE Upto(k) == {q \in T : q <= k}
<1>1. IsFiniteSet(T)
  BY FS_BoundedSetOfNaturals
<1>2. \A k \in Nat : IsFiniteSet(Upto(k)) /\ Cardinality(Upto(k)) \in Nat
  <2> SUFFICES ASSUME NEW k \in Nat
               PROVE  IsFiniteSet(Upto(k)) /\ Cardinality(Upto(k)) \in Nat
    OBVIOUS
  <2>1. Upto(k) \in SUBSET T
    OBVIOUS
  <2>2. IsFiniteSet(Upto(k))
    BY <1>1, <2>1, FS_Subset
  <2> QED
    BY <2>2, FS_CardinalityType
<1>3. Cardinality(T) \in Nat
  BY <1>1, FS_CardinalityType
<1>4. Upto(N) = T /\ Upto(0) = {}
  <2>1. \A q \in T : q <= N /\ ~ (q <= 0)
    OBVIOUS
  <2> QED
    BY <2>1
<1>5. \A k \in Nat \ {0} : Upto(k) = IF k \in T THEN Upto(k - 1) \cup {k} ELSE Upto(k - 1)
  <2> SUFFICES ASSUME NEW k \in Nat \ {0}
               PROVE  Upto(k) = IF k \in T THEN Upto(k - 1) \cup {k} ELSE Upto(k - 1)
    OBVIOUS
  <2>1. \A q \in T : q \in Nat /\ (q <= k <=> q <= k - 1 \/ q = k)
    <3>1. \A q \in Nat : q <= k <=> q <= k - 1 \/ q = k
      OBVIOUS
    <3> QED
      BY <3>1
  <2>2. \A q : q \in Upto(k) <=> q \in Upto(k - 1) \/ (q \in T /\ q = k)
    BY <2>1
  <2> QED
    BY <2>2
<1>6. Cardinality(Upto(0)) = 0
  BY <1>4, FS_EmptySet
<1> HIDE DEF Upto
<1>7. ASSUME NEW n \in 1..Cardinality(T)
      PROVE  \E p \in T : Cardinality(Upto(p)) = n
  <2> DEFINE Enough == {k \in Nat : Cardinality(Upto(k)) >= n}
  <2>1. N \in Enough
    BY <1>3, <1>4
  <2>2. PICK k \in Enough : \A j \in Enough : k <= j
    BY <2>1, Least
  <2>3. k \in Nat \ {0}
    BY <2>2, <1>6
  <2>4. k - 1 \in Nat /\ k - 1 \notin Enough
    BY <2>2, <2>3
  <2>5. Cardinality(Upto(k - 1)) < n
    BY <2>4, <1>2
  <2>6. Cardinality(Upto(k)) >= n
    BY <2>2
  <2>7. k \in T
    BY <1>2, <1>5, <2>3, <2>4, <2>5, <2>6
  <2>8. Upto(k) = Upto(k - 1) \cup {k}
    BY <1>5, <2>3, <2>7
  <2>9. Cardinality(Upto(k)) <= Cardinality(Upto(k - 1)) + 1
    <3>1. IsFiniteSet(Upto(k - 1)) /\ Cardinality(Upto(k - 1)) \in Nat
      BY <1>2, <2>4
    <3> QED
      BY <2>8, <3>1, FS_AddElement
  <2>10. Cardinality(Upto(k)) = n
    BY <1>2, <2>3, <2>4, <2>5, <2>6, <2>9
  <2> QED
    BY <2>7, <2>10
<1> QED
  BY <1>1, <1>3, <1>7 DEF Upto

LEMMA SurvivorsAre ==
  ASSUME journal \in Journal, NEW cut, NEW listed
  PROVE  /\ Survivors(cut, listed) \in Seq(Items)
         /\ Survivors(cut, listed) = <<>> <=> Staying(cut, listed) = {}
<1> DEFINE T == Staying(cut, listed)
           nth(n) == CHOOSE p \in T : Cardinality({q \in T : q <= p}) = n
<1>1. journal.lines \in Seq(Items) /\ Len(journal.lines) \in Nat
      /\ DOMAIN journal.lines = 1..Len(journal.lines)
  BY DEF Journal
<1>2. T \in SUBSET (1..Len(journal.lines))
  BY <1>1 DEF Staying
<1>3. /\ IsFiniteSet(T) /\ Cardinality(T) \in Nat
      /\ \A n \in 1..Cardinality(T) : \E p \in T : Cardinality({q \in T : q <= p}) = n
  BY <1>1, <1>2, Ranks
<1>4. \A n \in 1..Cardinality(T) : nth(n) \in T
  BY <1>3
<1>5. Survivors(cut, listed) = [n \in 1..Cardinality(T) |-> journal.lines[nth(n)]]
  BY DEF Survivors
<1> HIDE DEF T, nth
<1>6. \A n \in 1..Cardinality(T) : journal.lines[nth(n)] \in Items
  <2> SUFFICES ASSUME NEW n \in 1..Cardinality(T)
               PROVE  journal.lines[nth(n)] \in Items
    OBVIOUS
  <2>1. nth(n) \in 1..Len(journal.lines)
    BY <1>2, <1>4
  <2> QED
    BY <1>1, <2>1
<1>7. Survivors(cut, listed) \in Seq(Items) /\ Len(Survivors(cut, listed)) = Cardinality(T)
  BY <1>3, <1>5, <1>6
<1>8. Cardinality(T) = 0 <=> T = {}
  BY <1>3, FS_EmptySet
<1> QED
  BY <1>7, <1>8 DEF T

-----------------------------------------------------------------------------
(* Types, and what the statuses and the pages of a run may say.             *)

Active(r) == step[r] \notin {"begin", "retire"}
\* Only the run that has the lease is anywhere in its walk.
OneRun == \A r \in Runs : Active(r) => lease = r

Walking(r) == step[r] \in {"fetch", "item", "write", "line", "turn"}
Handling(r) == step[r] \in {"item", "write", "line", "turn"}

\* A status, of a walk of the history or of the mailbox, points at what exists.
Fit(st, history) ==
  /\ st.cursor <= Len(log) /\ st.pending <= Len(log)
  /\ history => st.cursor # 0 /\ st.token <= Len(log)
  /\ ~ history => st.token <= Last /\ (st.token # 0 => st.pending # 0)

\* What the run would save if it stopped here, as a walk of the history or not.
Mode(r) == IF At(r, "save") THEN my[r].st.history ELSE my[r].history
Sane(r) ==
  /\ Walking(r) \/ At(r, "save") => Fit(my[r].st, Mode(r))
  /\ Walking(r) =>
       /\ my[r].next <= Len(log)
       /\ my[r].history => status.cursor = my[r].st.cursor /\ (status.token # 0 => status.history)
       /\ ~ my[r].history /\ my[r].st.token # 0 => my[r].next = my[r].st.pending
  /\ Handling(r) =>
       /\ my[r].history => my[r].page.more <= Len(log)
       /\ ~ my[r].history =>
            my[r].page.more <= Last /\ my[r].next = my[r].st.pending /\ my[r].next # 0
  /\ step[r] \in {"write", "line"} => my[r].page.item # 0

SourcePart ==
  /\ bound \in Bounds /\ horizon \in 0..Len(log)
  /\ log \in Seq(Items) /\ Len(log) \in 1..bound.most
RunPart ==
  /\ lease \in Runs \cup {None, Over}
  /\ status \in Status /\ missed \subseteq Items /\ skipped \subseteq Items
  /\ step \in [Runs -> Steps] /\ my \in [Runs -> Carried]
  /\ alive \subseteq Runs /\ \A r \in Runs : r \in alive <=> step[r] # "begin"
  /\ OneRun
  /\ Fit(status, status.history)
  /\ \A r \in Runs : Sane(r)
Looking(b) == reb[b].seen # None /\ reb[b].same
JournalPart ==
  /\ journal \in Journal \cup {None}
  /\ vault \in [Items -> Nat] /\ index \in [Items -> Nat]
  /\ reb \in [Rebuilds -> Rebuild]
  /\ lost \subseteq Items
  /\ faults \in 0..MaxFaults
  /\ \A b \in Rebuilds : Looking(b) => journal # None /\ reb[b].seen.lines <= Len(journal.lines)
Typed == SourcePart /\ RunPart /\ JournalPart

LEMMA TypedTypeOK ==
  ASSUME Typed
  PROVE  TypeOK
  BY SyncAssumption DEF Typed, SourcePart, RunPart, JournalPart, TypeOK, JournalTypeOK, Looking

LEMMA Logged ==
  ASSUME Typed
  PROVE  /\ MaxLog \in Nat /\ Last \in Nat \ {0} /\ MaxDropped \in Nat \ {0}
         /\ Len(log) \in Nat \ {0} /\ Len(log) <= MaxLog
         /\ \A p \in 1..Len(log) : log[p] \in Items
         /\ \A i, n : n \in Nat /\ n <= Len(log) => VersionAt(i, n) \in Positions
         /\ \A i : Version(i) \in Positions
<1>1. /\ MaxLog \in Nat /\ Last \in Nat \ {0} /\ MaxDropped \in Nat \ {0}
      /\ Len(log) \in Nat \ {0} /\ Len(log) <= MaxLog
      /\ \A p \in 1..Len(log) : log[p] \in Items
  BY SyncAssumption, JournalAssumption DEF Typed, SourcePart
<1>2. \A i : \A n \in Nat : VersionAt(i, n) \in 0..n
  BY VerIs, VersionIsVer
<1> QED
  BY <1>1, <1>2 DEF Version, Positions

LEMMA Mine ==
  ASSUME Typed, NEW r \in Runs
  PROVE  /\ my[r] \in Carried /\ my[r].st \in Status /\ my[r].page \in Page
         /\ my[r].st.cursor \in Positions /\ my[r].st.pending \in Positions
         /\ my[r].st.token \in Nat /\ my[r].st.history \in BOOLEAN /\ my[r].st.dropped \in BOOLEAN
         /\ my[r].st.walks \in 0..(MaxDropped - 1)
         /\ my[r].history \in BOOLEAN /\ my[r].next \in Positions
         /\ my[r].page.item \in {0} \cup Items /\ my[r].page.version \in Positions
         /\ my[r].page.more \in Nat
         /\ my[r].begun \in BOOLEAN /\ my[r].made \in BOOLEAN /\ my[r].late \in BOOLEAN
<1>1. my[r] \in Carried
  BY DEF Typed, RunPart
<1>2. my[r].st \in Status /\ my[r].page \in Page
  BY <1>1 DEF Carried
<1> QED
  BY <1>1, <1>2 DEF Carried, Status, Page

LEMMA OnDisk ==
  ASSUME Typed
  PROVE  /\ status \in Status
         /\ status.cursor \in Positions /\ status.pending \in Positions
         /\ status.token \in Nat /\ status.history \in BOOLEAN /\ status.dropped \in BOOLEAN
         /\ status.walks \in 0..(MaxDropped - 1)
  BY DEF Typed, RunPart, Status

LEMMA Empties ==
  ASSUME MaxLog \in Nat, MaxDropped \in Nat \ {0}
  PROVE  NoStatus \in Status /\ NoPage \in Page /\ Nothing \in Carried
<1>1. NoStatus \in Status /\ NoPage \in Page
  BY DEF NoStatus, Status, NoPage, Page, Positions
<1> QED
  BY <1>1 DEF Nothing, Carried, Positions

\* Everybody but the run that has the lease has begun nothing or is done.
LEMMA Alone ==
  ASSUME Typed, NEW r \in Runs, Active(r), NEW q \in Runs \ {r}
  PROVE  step[q] \in {"begin", "retire"}
  BY DEF Typed, RunPart, OneRun, Active

LEMMA Moves ==
  ASSUME Typed, NEW r \in Runs, NEW s \in Steps, NEW mine \in Carried,
         Keep(r, mine), Goto(r, s)
  PROVE  /\ my' \in [Runs -> Carried] /\ my'[r] = mine
         /\ step' \in [Runs -> Steps] /\ step'[r] = s
         /\ \A q \in Runs \ {r} : my'[q] = my[q] /\ step'[q] = step[q]
  BY DEF Typed, RunPart, Keep, Goto

\* A run that goes on with its walk.
LEMMA GoesOn ==
  ASSUME Typed, NEW r \in Runs, Active(r), NEW s \in Steps \ {"begin", "retire"},
         NEW mine \in Carried, Keep(r, mine), Goto(r, s),
         UNCHANGED <<lease, alive>>, status' \in Status, missed' \subseteq Items,
         skipped' \subseteq Items, Fit(status, status.history)', Sane(r)'
  PROVE  RunPart'
<1>1. /\ my' \in [Runs -> Carried] /\ my'[r] = mine
      /\ step' \in [Runs -> Steps] /\ step'[r] = s
      /\ \A q \in Runs \ {r} : my'[q] = my[q] /\ step'[q] = step[q]
  BY Moves
<1>2. \A q \in Runs \ {r} : step'[q] \in {"begin", "retire"}
  BY <1>1, Alone
<1>3. \A q \in Runs : Sane(q)'
  BY <1>2 DEF Sane, Walking, Handling, At
<1>4. OneRun'
  BY <1>1, <1>2 DEF OneRun, Active, Typed, RunPart
<1>5. \A q \in Runs : q \in alive' <=> step'[q] # "begin"
  BY <1>1 DEF Active, Typed, RunPart
<1> QED
  BY <1>1, <1>3, <1>4, <1>5 DEF Typed, RunPart

\* A run that is over.
LEMMA IsOver ==
  ASSUME Typed, NEW r \in Runs, alive' = alive \ {r}, Keep(r, Nothing), Goto(r, "begin"),
         lease' \in Runs \cup {None, Over},
         \A q \in Runs \ {r} : lease = q /\ Active(q) => lease' = q,
         UNCHANGED <<past, log>>, status' \in Status, Fit(status, status.history)',
         Active(r) \/ UNCHANGED status
  PROVE  RunPart'
<1>1. Nothing \in Carried /\ "begin" \in Steps
  BY Logged, Empties DEF Steps
<1>2. /\ my' \in [Runs -> Carried] /\ my'[r] = Nothing
      /\ step' \in [Runs -> Steps] /\ step'[r] = "begin"
      /\ \A q \in Runs \ {r} : my'[q] = my[q] /\ step'[q] = step[q]
  BY <1>1, Moves
<1>3. \A q \in Runs : Sane(q)'
  <2> SUFFICES ASSUME NEW q \in Runs PROVE Sane(q)'
    OBVIOUS
  <2>1. CASE q = r
    BY <1>2, <2>1 DEF Sane, Walking, Handling, At
  <2>2. CASE q # r /\ Active(r)
    BY <1>2, <2>2, Alone DEF Sane, Walking, Handling, At
  <2>3. CASE q # r /\ UNCHANGED status
    <3>1. Sane(q)
      BY DEF Typed, RunPart
    <3> QED
      BY <1>2, <2>3, <3>1 DEF Sane, Walking, Handling, At, Fit, Mode
  <2> QED
    BY <2>1, <2>2, <2>3
<1>4. OneRun'
  BY <1>2 DEF OneRun, Active, Typed, RunPart
<1>5. alive' \subseteq Runs /\ \A q \in Runs : q \in alive' <=> step'[q] # "begin"
  BY <1>2 DEF Typed, RunPart
<1> QED
  BY <1>2, <1>3, <1>4, <1>5 DEF Typed, RunPart, past

\* Nothing of the runs changed, but that the lease of no run may be gone.
LEMMA RunsStay ==
  ASSUME Typed, UNCHANGED <<alive, status, past, step, my, log>>,
         lease' \in {lease, Reclaimed}
  PROVE  RunPart'
<1>1. \A r \in Runs : Active(r) => lease' = r
  BY DEF Typed, RunPart, OneRun, Active, Reclaimed, LeaseHeld
<1>2. OneRun'
  BY <1>1 DEF OneRun, Active
<1>3. lease' \in Runs \cup {None, Over}
  BY DEF Typed, RunPart, Reclaimed
<1>4. \A r \in Runs : Sane(r)'
  BY DEF Typed, RunPart, Sane, Walking, Handling, At, Fit, Mode
<1>5. Fit(status, status.history)'
  BY DEF Typed, RunPart, Fit
<1> QED
  BY <1>2, <1>3, <1>4, <1>5 DEF Typed, RunPart, past

-----------------------------------------------------------------------------
(* What each step of a run leaves of the runs.                              *)

LEMMA LeavingRuns ==
  ASSUME Typed, NEW r \in Runs, Active(r), Leave(r), UNCHANGED <<source, past>>,
         status' \in Status, Fit(status, status.history)'
  PROVE  RunPart'
<1>1. lease' \in Runs \cup {None, Over}
      /\ \A q \in Runs \ {r} : lease = q /\ Active(q) => lease' = q
  BY DEF Leave, Typed, RunPart
<1> QED
  BY <1>1, IsOver DEF Leave, source

LEMMA AcquireRuns ==
  ASSUME Typed, NEW r \in Runs, Acquire(r)
  PROVE  RunPart'
<1> DEFINE mine == [Nothing EXCEPT !.late = Overlooked]
<1>1. mine \in Carried
  <2>1. Nothing \in Carried /\ Overlooked \in BOOLEAN
    BY Logged, Empties DEF Overlooked
  <2> QED
    BY <2>1 DEF Carried
<1>2. /\ my' \in [Runs -> Carried]
      /\ step' \in [Runs -> Steps] /\ step'[r] = "header"
      /\ \A q \in Runs \ {r} : my'[q] = my[q] /\ step'[q] = step[q]
  BY <1>1, Moves DEF Acquire, Steps
<1>3. \A q \in Runs : ~ Active(q)
  <2>1. \A q \in Runs : Active(q) => lease = q /\ q \in alive
    BY DEF Typed, RunPart, OneRun, Active
  <2> QED
    BY <2>1 DEF Acquire, LeaseHeld
<1>4. \A q \in Runs : Sane(q)'
  BY <1>2, <1>3 DEF Sane, Walking, Handling, At, Active
<1>5. OneRun'
  BY <1>2, <1>3 DEF OneRun, Active, Acquire
<1>6. alive' \subseteq Runs /\ \A q \in Runs : q \in alive' <=> step'[q] # "begin"
  BY <1>2 DEF Acquire, Typed, RunPart
<1>7. Fit(status, status.history)'
  BY DEF Acquire, Typed, RunPart, Fit, source
<1> QED
  BY <1>2, <1>4, <1>5, <1>6, <1>7 DEF Acquire, Typed, RunPart, past

LEMMA EnsureHeaderRuns ==
  ASSUME Typed, NEW r \in Runs, EnsureHeader(r)
  PROVE  RunPart'
<1>1. status' \in Status /\ Fit(status, status.history)' /\ Active(r)
  BY DEF EnsureHeader, Typed, RunPart, Fit, source, Active, At
<1>2. CASE Leave(r)
  BY <1>1, <1>2, LeavingRuns DEF EnsureHeader
<1>3. CASE Goto(r, "load") /\ UNCHANGED <<lease, alive, faults, my>>
  <2>1. my[r] \in Carried /\ Keep(r, my[r])
    BY <1>3, Mine DEF Keep, Typed, RunPart
  <2>2. step'[r] = "load"
    BY <1>3 DEF Goto, Typed, RunPart
  <2>3. Sane(r)'
    BY <2>2 DEF Sane, Walking, Handling, At
  <2> QED
    BY <1>1, <1>3, <2>1, <2>3, GoesOn DEF EnsureHeader, past, Steps, Typed, RunPart
<1> QED
  BY <1>2, <1>3 DEF EnsureHeader

LEMMA LoadStatusRuns ==
  ASSUME Typed, NEW r \in Runs, LoadStatus(r)
  PROVE  RunPart'
<1> DEFINE st == [status EXCEPT !.dropped = @ /\ status.token # 0]
           next == IF Resuming /\ status.pending # 0 THEN status.pending ELSE status.cursor
           mine == [my[r] EXCEPT !.st = st, !.history = ~ Resuming /\ status.cursor # 0,
                                 !.next = next]
<1>1. st \in Status
  BY OnDisk DEF Status
<1>2. next \in Positions /\ (~ Resuming /\ status.cursor # 0) \in BOOLEAN
  BY OnDisk DEF Resuming
<1>3. mine \in Carried
  BY <1>1, <1>2, Mine DEF Carried
<1>4. Keep(r, mine) /\ Goto(r, "fetch") /\ Active(r) /\ At(r, "load")
  BY DEF LoadStatus, Active, At
<1>5. my'[r] = mine /\ step'[r] = "fetch"
  BY <1>3, <1>4, Moves DEF Steps
<1>6. /\ mine.st = st /\ mine.history = (~ Resuming /\ status.cursor # 0) /\ mine.next = next
      /\ st.cursor = status.cursor /\ st.token = status.token /\ st.pending = status.pending
  BY Mine, OnDisk DEF Carried, Status
<1> HIDE DEF mine, st
<1>7. Fit(status, status.history) /\ status' = status /\ log' = log
  BY DEF LoadStatus, Typed, RunPart, source
<1>8. Sane(r)'
  <2>1. ~ Handling(r)' /\ Walking(r)' /\ ~ At(r, "save")'
    BY <1>5 DEF Handling, Walking, At
  <2>2. Fit(st, mine.history)
    BY <1>6, <1>7, OnDisk DEF Fit, Resuming
  <2>3. next <= Len(log) /\ (~ mine.history /\ st.token # 0 => next = st.pending)
    BY <1>6, <1>7 DEF Fit, Resuming
  <2>4. mine.history => status.cursor = st.cursor /\ (status.token # 0 => status.history)
    BY <1>6 DEF Resuming
  <2> QED
    BY <2>1, <2>2, <2>3, <2>4, <1>5, <1>6, <1>7 DEF Sane, Mode, Fit
<1>9. missed' \subseteq Items
  BY DEF LoadStatus, Typed, RunPart
<1> QED
  BY <1>3, <1>4, <1>7, <1>8, <1>9, GoesOn DEF LoadStatus, Steps, Typed, RunPart, Fit, ingest

LEMMA SnapshotIs ==
  ASSUME Typed, NEW t \in 0..Last
  PROVE  LET i == IF t = 0 THEN 1 ELSE t
             got == SnapshotPage(t)
         IN  /\ i \in Items
             /\ got.page \in Page
             /\ got.page.item = (IF Version(i) = 0 THEN 0 ELSE i)
             /\ got.page.version = Version(i)
             /\ got.page.more = (IF i < Last THEN i + 1 ELSE 0)
             /\ got.sync = (IF t = 0 THEN Len(log) ELSE 0)
<1> DEFINE i == IF t = 0 THEN 1 ELSE t
<1>1. i \in Items /\ Last \in Nat
  BY JournalAssumption DEF Items
<1>2. Version(i) \in Positions
  BY Logged
<1>3. (IF i < Last THEN i + 1 ELSE 0) \in Nat
  BY <1>1 DEF Items
<1> QED
  BY <1>1, <1>2, <1>3 DEF SnapshotPage, Page

LEMMA HistoryIs ==
  ASSUME Typed, NEW from \in 0..Len(log), NEW t \in 0..Len(log)
  PROVE  LET p == IF t = 0 THEN from + 1 ELSE t
             got == HistoryPage(from, t)
         IN  /\ p \in Nat \ {0}
             /\ got.page \in Page
             /\ p > Len(log) => got.page = NoPage /\ from = Len(log) /\ t = 0
             /\ p <= Len(log) =>
                  /\ log[p] \in Items
                  /\ got.page.item = log[p] /\ got.page.version = Version(log[p])
                  /\ got.page.more = (IF p < Len(log) THEN p + 1 ELSE 0)
             /\ got.sync = (IF p < Len(log) THEN 0 ELSE Len(log))
<1> DEFINE p == IF t = 0 THEN from + 1 ELSE t
           more == IF p < Len(log) THEN p + 1 ELSE 0
<1>1. /\ p \in Nat \ {0} /\ Len(log) \in Nat
      /\ p > Len(log) => from = Len(log) /\ t = 0
  BY Logged
<1>2. p <= Len(log) => log[p] \in Items /\ Version(log[p]) \in Positions
  BY <1>1, Logged
<1>3. NoPage \in Page
  BY Logged, Empties
<1>4. more \in Nat /\ (more = 0 <=> ~ (p < Len(log)))
  BY <1>1
<1> HIDE DEF p, more
<1>5. HistoryPage(from, t).page = IF p > Len(log) THEN NoPage
         ELSE [item |-> log[p], version |-> Version(log[p]), more |-> more]
  BY DEF HistoryPage, p, more
<1>6. HistoryPage(from, t).sync = IF more = 0 THEN Len(log) ELSE 0
  BY DEF HistoryPage, p, more
<1>7. HistoryPage(from, t).page \in Page
  BY <1>1, <1>2, <1>3, <1>4, <1>5 DEF Page
<1> QED
  BY <1>1, <1>2, <1>4, <1>5, <1>6, <1>7 DEF p, more

LEMMA HistoryHas ==
  ASSUME Typed, NEW from \in 0..Len(log), NEW t \in 0..Len(log), NEW p \in 1..Len(log),
         p = IF t = 0 THEN from + 1 ELSE t
  PROVE  /\ log[p] \in Items
         /\ HistoryPage(from, t).page.item = log[p]
         /\ HistoryPage(from, t).page.version = Version(log[p])
         /\ HistoryPage(from, t).page.more = (IF p < Len(log) THEN p + 1 ELSE 0)
         /\ HistoryPage(from, t).sync = (IF p < Len(log) THEN 0 ELSE Len(log))
<1>1. p <= Len(log)
  BY Logged
<1> QED
  BY <1>1, HistoryIs

\* What the run has of a page it fetched.
LEMMA FetchPageIs ==
  ASSUME Typed, NEW r \in Runs, FetchPage(r)
  PROVE  LET got == Fetched(r)
         IN  /\ Active(r) /\ At(r, "fetch") /\ ~ Expired(r)
             /\ got.page \in Page /\ got.sync \in {0, Len(log)}
             /\ my'[r] \in Carried /\ step'[r] = "item" /\ step' \in [Runs -> Steps]
             /\ Keep(r, my'[r]) /\ Goto(r, "item")
             /\ my'[r].page = got.page
             /\ my'[r].history = my[r].history
             /\ my'[r].next = (IF got.sync = 0 THEN my[r].next ELSE got.sync)
             /\ my'[r].st.pending = (IF got.sync = 0 THEN my[r].st.pending ELSE got.sync)
             /\ my'[r].st.cursor = my[r].st.cursor /\ my'[r].st.token = my[r].st.token
             /\ my'[r].st.dropped = my[r].st.dropped /\ my'[r].st.history = my[r].st.history
             /\ my'[r].begun = my[r].begun /\ my'[r].late = my[r].late
<1> DEFINE got == Fetched(r)
           mine == IF got.sync = 0 THEN [my[r] EXCEPT !.page = got.page]
                   ELSE [my[r] EXCEPT !.page = got.page, !.next = got.sync,
                                      !.st = Staged(@, got.sync)]
<1>1. At(r, "fetch") /\ ~ Expired(r) /\ Active(r) /\ Keep(r, mine) /\ Goto(r, "item")
  BY DEF FetchPage, Active, At
<1>2. Fit(my[r].st, my[r].history)
  BY <1>1 DEF Typed, RunPart, Sane, Walking, Mode, At
<1>3. got.page \in Page /\ got.sync \in {0, Len(log)}
  <2>1. CASE my[r].history
    <3>1. my[r].st.cursor \in 0..Len(log) /\ my[r].st.token \in 0..Len(log)
      BY <1>2, <2>1, Mine, Logged DEF Fit, Positions
    <3> QED
      BY <2>1, <3>1, HistoryIs DEF Fetched
  <2>2. CASE ~ my[r].history
    <3>1. my[r].st.token \in 0..Last
      BY <1>2, <2>2, Mine, Logged DEF Fit
    <3> QED
      BY <2>2, <3>1, SnapshotIs DEF Fetched
  <2> QED
    BY <2>1, <2>2
<1> HIDE DEF got
<1>4. got.sync \in Positions
  BY <1>3, Logged DEF Positions
<1>5. Staged(my[r].st, got.sync) \in Status
  BY <1>4, Mine DEF Staged, Status
<1>6. mine \in Carried
  BY <1>3, <1>4, <1>5, Mine DEF Carried
<1>7. my'[r] = mine /\ step'[r] = "item" /\ step' \in [Runs -> Steps]
  BY <1>1, <1>6, Moves DEF Steps
<1>8. /\ mine.page = got.page /\ mine.history = my[r].history
      /\ mine.next = (IF got.sync = 0 THEN my[r].next ELSE got.sync)
      /\ mine.st = (IF got.sync = 0 THEN my[r].st ELSE Staged(my[r].st, got.sync))
      /\ mine.begun = my[r].begun /\ mine.late = my[r].late
  BY Mine DEF Carried
<1>9. LET st == Staged(my[r].st, got.sync)
      IN  /\ st.pending = got.sync /\ st.cursor = my[r].st.cursor /\ st.token = my[r].st.token
          /\ st.dropped = my[r].st.dropped /\ st.history = my[r].st.history
  BY Mine DEF Staged, Status
<1> QED
  BY <1>1, <1>3, <1>6, <1>7, <1>8, <1>9 DEF got

LEMMA FetchPageRuns ==
  ASSUME Typed, NEW r \in Runs, FetchPage(r)
  PROVE  RunPart'
<1> DEFINE got == Fetched(r)
<1>1. /\ Active(r) /\ At(r, "fetch")
      /\ got.page \in Page /\ got.sync \in {0, Len(log)}
      /\ my'[r] \in Carried /\ step'[r] = "item"
      /\ Keep(r, my'[r]) /\ Goto(r, "item")
      /\ my'[r].page = got.page
      /\ my'[r].history = my[r].history
      /\ my'[r].next = (IF got.sync = 0 THEN my[r].next ELSE got.sync)
      /\ my'[r].st.pending = (IF got.sync = 0 THEN my[r].st.pending ELSE got.sync)
      /\ my'[r].st.cursor = my[r].st.cursor /\ my'[r].st.token = my[r].st.token
  BY FetchPageIs
<1>2. /\ Fit(my[r].st, my[r].history)
      /\ my[r].next <= Len(log)
      /\ my[r].history => status.cursor = my[r].st.cursor /\ (status.token # 0 => status.history)
      /\ ~ my[r].history /\ my[r].st.token # 0 => my[r].next = my[r].st.pending
  BY <1>1 DEF Typed, RunPart, Sane, Walking, Mode, At
<1>3. status' = status /\ log' = log
  BY DEF FetchPage, source
<1>4. ASSUME my[r].history
      PROVE  got.page.more <= Len(log)
  <2>1. my[r].st.cursor \in 0..Len(log) /\ my[r].st.token \in 0..Len(log)
    BY <1>2, <1>4, Mine, Logged DEF Fit, Positions
  <2> DEFINE p == IF my[r].st.token = 0 THEN my[r].st.cursor + 1 ELSE my[r].st.token
  <2>2. /\ p \in Nat
        /\ p > Len(log) => got.page = NoPage
        /\ p <= Len(log) => got.page.more = (IF p < Len(log) THEN p + 1 ELSE 0)
    BY <1>4, <2>1, HistoryIs DEF Fetched
  <2> QED
    BY <2>2, Logged DEF NoPage
<1>5. ASSUME ~ my[r].history
      PROVE  got.page.more <= Last /\ (got.sync = 0 <=> my[r].st.token # 0)
  <2>1. my[r].st.token \in 0..Last
    BY <1>2, <1>5, Mine, Logged DEF Fit
  <2> DEFINE i == IF my[r].st.token = 0 THEN 1 ELSE my[r].st.token
  <2>2. /\ i \in Items
        /\ got.page.more = (IF i < Last THEN i + 1 ELSE 0)
        /\ got.sync = (IF my[r].st.token = 0 THEN Len(log) ELSE 0)
    BY <1>5, <2>1, SnapshotIs DEF Fetched
  <2> QED
    BY <2>2, Logged DEF Items
<1> HIDE DEF got
<1>6. Fit(my'[r].st, my'[r].history)
  BY <1>1, <1>2, Logged DEF Fit
<1>7. Sane(r)'
  <2>1. ~ At(r, "save")'
    BY <1>1 DEF At
  <2>2. Walking(r) => my'[r].next <= Len(log)
    BY <1>1, <1>2, Logged
  <2> QED
    BY <2>1, <1>1, <1>2, <1>3, <1>4, <1>5, <1>6, Logged, Mine
       DEF Sane, Mode, Fit, Walking, Handling, At
<1>8. RunPart
  BY DEF Typed
<1> QED
  BY <1>1, <1>3, <1>7, <1>8, GoesOn DEF FetchPage, Steps, RunPart, Fit, ingest, past

LEMMA FallBackRuns ==
  ASSUME Typed, NEW r \in Runs, FallBack(r)
  PROVE  RunPart'
<1> DEFINE st == [NoStatus EXCEPT !.walks = my[r].st.walks]
           mine == [my[r] EXCEPT !.history = FALSE, !.next = 0, !.st = st]
<1>1. st \in Status
  BY Logged, Empties, Mine DEF Status
<1>2. mine \in Carried
  <2>1. 0 \in Positions /\ FALSE \in BOOLEAN
    BY Logged DEF Positions
  <2> HIDE DEF st
  <2> QED
    BY <1>1, <2>1, Mine DEF Carried
<1>3. Keep(r, mine) /\ Goto(r, "fetch") /\ Active(r)
  BY DEF FallBack, Active, At, Goto, Typed, RunPart
<1>4. my'[r] = mine /\ step'[r] = "fetch"
  BY <1>2, <1>3, Moves DEF Steps
<1>5. /\ mine.history = FALSE /\ mine.next = 0
      /\ mine.st.token = 0 /\ mine.st.cursor = 0 /\ mine.st.pending = 0
  BY Mine DEF Carried, NoStatus
<1> HIDE DEF mine
<1>6. status' = status /\ log' = log /\ RunPart
  BY DEF FallBack, source, Typed
<1>7. Sane(r)'
  BY <1>4, <1>5, <1>6, Logged DEF Sane, Mode, Fit, Walking, Handling, At
<1> QED
  BY <1>2, <1>3, <1>6, <1>7, GoesOn DEF FallBack, Steps, RunPart, Fit, ingest, source

LEMMA InterruptRuns ==
  ASSUME Typed, NEW r \in Runs, Interrupt(r)
  PROVE  RunPart'
<1> DEFINE mine == [my[r] EXCEPT !.st.history = my[r].history]
<1>1. /\ mine \in Carried
      /\ mine.st.history = my[r].history /\ mine.st.cursor = my[r].st.cursor
      /\ mine.st.pending = my[r].st.pending /\ mine.st.token = my[r].st.token
  <2>1. [my[r].st EXCEPT !.history = my[r].history] \in Status
    BY Mine DEF Status
  <2> QED
    BY <2>1, Mine DEF Carried, Status
<1> HIDE DEF mine
<1>2. Keep(r, mine) /\ Goto(r, "save") /\ Active(r) /\ Walking(r)
  BY DEF Interrupt, Active, Walking, mine
<1>3. my'[r] = mine /\ step'[r] = "save"
  BY <1>1, <1>2, Moves DEF Steps
<1>4. Fit(my[r].st, my[r].history)
  BY <1>2 DEF Typed, RunPart, Sane, Mode, At, Walking
<1>5. status' = status /\ log' = log /\ RunPart
  BY DEF Interrupt, source, Typed
<1>6. Sane(r)'
  BY <1>1, <1>3, <1>4, <1>5 DEF Sane, Mode, Fit, Walking, Handling, At
<1> QED
  BY <1>1, <1>2, <1>5, <1>6, GoesOn DEF Interrupt, Steps, RunPart, Fit, past

\* A run that goes on with the page it has.
LEMMA SameWalk ==
  ASSUME Typed, NEW r \in Runs, Handling(r), NEW s \in {"item", "write", "line", "turn"},
         step'[r] = s, status' = status, log' = log,
         my'[r].history = my[r].history, my'[r].next = my[r].next, my'[r].page = my[r].page,
         my'[r].st.cursor = my[r].st.cursor, my'[r].st.pending = my[r].st.pending,
         my'[r].st.token = my[r].st.token,
         s \in {"write", "line"} => my[r].page.item # 0
  PROVE  Sane(r)'
<1>1. Sane(r) /\ Walking(r) /\ ~ At(r, "save")
  BY DEF Typed, RunPart, Handling, Walking, At
<1>2. ~ At(r, "save")'
  BY DEF At
<1> QED
  BY <1>1, <1>2 DEF Sane, Mode, Fit, Handling

LEMMA UnchangedRuns ==
  ASSUME Typed, NEW r \in Runs, Unchanged(r)
  PROVE  RunPart'
<1>1. Keep(r, my[r]) /\ Goto(r, "turn") /\ Handling(r) /\ Active(r) /\ my[r] \in Carried
  BY Mine DEF Unchanged, Keep, Handling, Active, At, Typed, RunPart
<1>2. my'[r] = my[r] /\ step'[r] = "turn"
  BY <1>1, Moves DEF Steps
<1>3. status' = status /\ log' = log /\ RunPart
  BY DEF Unchanged, source, Typed
<1>4. Sane(r)'
  BY <1>1, <1>2, <1>3, SameWalk
<1>5. missed' \subseteq Items /\ skipped' \subseteq Items
  BY DEF Unchanged, Typed, RunPart
<1> QED
  BY <1>1, <1>3, <1>4, <1>5, GoesOn DEF Unchanged, Steps, RunPart, Fit, ingest

LEMMA StartPublishRuns ==
  ASSUME Typed, NEW r \in Runs, StartPublish(r)
  PROVE  RunPart'
<1> DEFINE mine == [my[r] EXCEPT !.begun = TRUE]
<1>1. /\ mine \in Carried
      /\ mine.history = my[r].history /\ mine.next = my[r].next /\ mine.page = my[r].page
      /\ mine.st = my[r].st
  BY Mine DEF Carried
<1>2. Keep(r, mine) /\ Goto(r, "write") /\ Handling(r) /\ Active(r)
  BY DEF StartPublish, Handling, Active, At
<1> HIDE DEF mine
<1>3. my'[r] = mine /\ step'[r] = "write"
  BY <1>1, <1>2, Moves DEF Steps
<1>4. status' = status /\ log' = log /\ RunPart
  BY DEF StartPublish, source, Typed
<1>5. Sane(r)'
  <2>1. my[r].page.item # 0
    BY DEF StartPublish, ThePage
  <2> QED
    BY <2>1, <1>1, <1>2, <1>3, <1>4, SameWalk
<1> QED
  BY <1>1, <1>2, <1>4, <1>5, GoesOn DEF StartPublish, Steps, RunPart, Fit, past

LEMMA DropItemRuns ==
  ASSUME Typed, NEW r \in Runs, DropItem(r)
  PROVE  RunPart'
<1> DEFINE mine == [my[r] EXCEPT !.st.dropped = TRUE]
<1>1. /\ mine \in Carried
      /\ mine.history = my[r].history /\ mine.next = my[r].next /\ mine.page = my[r].page
      /\ mine.st.cursor = my[r].st.cursor /\ mine.st.pending = my[r].st.pending
      /\ mine.st.token = my[r].st.token
  <2>1. [my[r].st EXCEPT !.dropped = TRUE] \in Status
    BY Mine DEF Status
  <2> QED
    BY <2>1, Mine DEF Carried, Status
<1>2. Keep(r, mine) /\ Goto(r, "turn") /\ Handling(r) /\ Active(r)
  BY DEF DropItem, Handling, Active
<1> HIDE DEF mine
<1>3. my'[r] = mine /\ step'[r] = "turn"
  BY <1>1, <1>2, Moves DEF Steps
<1>4. status' = status /\ log' = log /\ RunPart
  BY DEF DropItem, source, Typed
<1>5. Sane(r)'
  BY <1>1, <1>2, <1>3, <1>4, SameWalk
<1>6. missed' \subseteq Items
  BY Mine DEF DropItem, ThePage, Typed, RunPart
<1> QED
  BY <1>1, <1>2, <1>4, <1>5, <1>6, GoesOn DEF DropItem, Steps, RunPart, Fit, past

LEMMA WriteItemRuns ==
  ASSUME Typed, NEW r \in Runs, WriteItem(r)
  PROVE  RunPart'
<1> DEFINE mine == [my[r] EXCEPT !.made = TRUE]
<1>1. /\ mine \in Carried
      /\ mine.history = my[r].history /\ mine.next = my[r].next /\ mine.page = my[r].page
      /\ mine.st = my[r].st
  BY Mine DEF Carried
<1>2. Keep(r, mine) /\ Goto(r, "line") /\ Handling(r) /\ Active(r)
  BY DEF WriteItem, Handling, Active, At
<1> HIDE DEF mine
<1>3. my'[r] = mine /\ step'[r] = "line"
  BY <1>1, <1>2, Moves DEF Steps
<1>4. status' = status /\ log' = log /\ RunPart
  BY DEF WriteItem, source, Typed
<1>5. Sane(r)'
  <2>1. my[r].page.item # 0
    BY DEF WriteItem, At, Typed, RunPart, Sane
  <2> QED
    BY <2>1, <1>1, <1>2, <1>3, <1>4, SameWalk
<1>6. missed' \subseteq Items /\ skipped' \subseteq Items
  BY DEF WriteItem, Typed, RunPart
<1> QED
  BY <1>1, <1>2, <1>4, <1>5, <1>6, GoesOn DEF WriteItem, Steps, RunPart, Fit

LEMMA RecordLineRuns ==
  ASSUME Typed, NEW r \in Runs, RecordLine(r)
  PROVE  RunPart'
<1>1. Keep(r, my[r]) /\ Goto(r, "turn") /\ Handling(r) /\ Active(r) /\ my[r] \in Carried
  BY Mine DEF RecordLine, Keep, Handling, Active, At, Typed, RunPart
<1>2. my'[r] = my[r] /\ step'[r] = "turn"
  BY <1>1, Moves DEF Steps
<1>3. status' = status /\ log' = log /\ RunPart
  BY DEF RecordLine, source, Typed
<1>4. Sane(r)'
  BY <1>1, <1>2, <1>3, SameWalk
<1> QED
  BY <1>1, <1>3, <1>4, GoesOn DEF RecordLine, Steps, RunPart, Fit, past

\* What the run has when it turns the page.
LEMMA TurnPageIs ==
  ASSUME Typed, NEW r \in Runs, TurnPage(r)
  PROVE  /\ Active(r) /\ Handling(r) /\ At(r, "turn") /\ my[r].page.more # 0
         /\ \E s \in {"fetch", "save"} :
              /\ Goto(r, s) /\ step'[r] = s
              /\ s = "fetch" => status' = my'[r].st
              /\ s = "save" => status' = status
         /\ my'[r] \in Carried /\ Keep(r, my'[r])
         /\ my'[r].history = my[r].history /\ my'[r].next = my[r].next
         /\ my'[r].st.token = my[r].page.more /\ my'[r].st.history = my[r].history
         /\ my'[r].st.cursor = my[r].st.cursor /\ my'[r].st.pending = my[r].st.pending
         /\ my'[r].st.dropped = my[r].st.dropped
         /\ my'[r].begun = my[r].begun /\ my'[r].late = my[r].late
<1> DEFINE st == [my[r].st EXCEPT !.token = ThePage(r).more, !.history = my[r].history]
           mine == [my[r] EXCEPT !.st = st, !.page = NoPage]
<1>1. /\ st \in Status /\ st.token = my[r].page.more /\ st.history = my[r].history
      /\ st.cursor = my[r].st.cursor /\ st.pending = my[r].st.pending
      /\ st.dropped = my[r].st.dropped
  BY Mine DEF Status, ThePage
<1> HIDE DEF st
<1>2. /\ mine \in Carried /\ mine.st = st /\ mine.history = my[r].history
      /\ mine.next = my[r].next /\ mine.begun = my[r].begun /\ mine.late = my[r].late
  <2>1. NoPage \in Page
    BY Logged, Empties
  <2> QED
    BY <1>1, <2>1, Mine DEF Carried
<1>3. /\ Keep(r, mine) /\ Handling(r) /\ Active(r) /\ At(r, "turn") /\ my[r].page.more # 0
      /\ \/ status' = st /\ Goto(r, "fetch")
         \/ status' = status /\ Goto(r, "save")
  BY DEF TurnPage, Handling, Active, At, ThePage, st
<1> HIDE DEF mine
<1>4. PICK s \in {"fetch", "save"} : /\ Goto(r, s)
                                     /\ s = "fetch" => status' = st
                                     /\ s = "save" => status' = status
  BY <1>3
<1>5. my'[r] = mine /\ step'[r] = s
  BY <1>2, <1>3, <1>4, Moves DEF Steps
<1> QED
  BY <1>1, <1>2, <1>3, <1>4, <1>5

LEMMA TurnPageRuns ==
  ASSUME Typed, NEW r \in Runs, TurnPage(r)
  PROVE  RunPart'
<1>1. /\ Active(r) /\ Handling(r) /\ At(r, "turn") /\ my[r].page.more # 0
      /\ my'[r] \in Carried /\ Keep(r, my'[r])
      /\ my'[r].history = my[r].history /\ my'[r].next = my[r].next
      /\ my'[r].st.token = my[r].page.more /\ my'[r].st.history = my[r].history
      /\ my'[r].st.cursor = my[r].st.cursor /\ my'[r].st.pending = my[r].st.pending
  BY TurnPageIs
<1>2. PICK s \in {"fetch", "save"} : /\ Goto(r, s) /\ step'[r] = s
                                     /\ s = "fetch" => status' = my'[r].st
                                     /\ s = "save" => status' = status
  BY TurnPageIs
<1>3. Sane(r) /\ Walking(r) /\ ~ At(r, "save")
  BY <1>1 DEF Typed, RunPart, Handling, Walking, At
<1>4. log' = log /\ RunPart
  BY DEF TurnPage, source, Typed
<1>5. Fit(my'[r].st, my[r].history)
  BY <1>1, <1>3 DEF Sane, Fit, Mode
<1>6. Fit(my[r].st, my[r].history)'
  BY <1>1, <1>4, <1>5 DEF Fit
<1>7. Sane(r)'
  BY <1>1, <1>2, <1>3, <1>4, <1>6 DEF Sane, Mode, Handling, Walking, At
<1>8. status' \in Status /\ Fit(status, status.history)'
  BY <1>1, <1>2, <1>4, <1>6 DEF RunPart, Fit, Carried
<1> QED
  BY <1>1, <1>2, <1>4, <1>7, <1>8, GoesOn DEF TurnPage, Steps, RunPart, past

LEMMA WalkedIs ==
  ASSUME Typed, NEW r \in Runs, Handling(r)
  PROVE  LET st == Walked(my[r].st, my[r].next)
         IN  /\ st \in Status /\ st.token = 0 /\ ~ st.history /\ ~ st.dropped
             /\ st.cursor = (IF my[r].st.dropped /\ ~ GaveUp(my[r].st)
                             THEN my[r].st.cursor ELSE my[r].next)
             /\ st.pending \in {0, my[r].st.pending}
<1>1. CASE my[r].st.dropped /\ ~ GaveUp(my[r].st)
  <2>1. my[r].st.walks + 1 \in 0..(MaxDropped - 1)
    BY <1>1, Mine, Logged DEF GaveUp
  <2> QED
    BY <1>1, <2>1, Mine DEF Walked, Status
<1>2. CASE ~ (my[r].st.dropped /\ ~ GaveUp(my[r].st))
  <2>1. NoStatus \in Status
    BY Logged, Empties
  <2> QED
    BY <1>2, <2>1, Mine DEF Walked, Status, NoStatus
<1> QED
  BY <1>1, <1>2

LEMMA FinishWalkIs ==
  ASSUME Typed, NEW r \in Runs, FinishWalk(r)
  PROVE  /\ Active(r) /\ Handling(r) /\ At(r, "turn") /\ my[r].page.more = 0
         /\ Goto(r, "save") /\ step'[r] = "save"
         /\ my'[r] \in Carried /\ Keep(r, my'[r])
         /\ my'[r].st = Walked(my[r].st, my[r].next)
         /\ my'[r].begun = my[r].begun /\ my'[r].late = my[r].late
<1> DEFINE st == Walked(my[r].st, my[r].next)
           mine == [my[r] EXCEPT !.st = st, !.page = NoPage]
<1>1. /\ Active(r) /\ Handling(r) /\ At(r, "turn") /\ my[r].page.more = 0
      /\ Goto(r, "save") /\ Keep(r, mine)
  BY DEF FinishWalk, Active, Handling, At, ThePage
<1>2. st \in Status
  BY <1>1, WalkedIs
<1> HIDE DEF st
<1>3. mine \in Carried /\ mine.st = st /\ mine.begun = my[r].begun /\ mine.late = my[r].late
  <2>1. NoPage \in Page
    BY Logged, Empties
  <2> QED
    BY <1>2, <2>1, Mine DEF Carried
<1> HIDE DEF mine
<1>4. my'[r] = mine /\ step'[r] = "save"
  BY <1>1, <1>3, Moves DEF Steps
<1> QED
  BY <1>1, <1>3, <1>4 DEF st

LEMMA FinishWalkRuns ==
  ASSUME Typed, NEW r \in Runs, FinishWalk(r)
  PROVE  RunPart'
<1>1. /\ Active(r) /\ Handling(r) /\ Goto(r, "save") /\ step'[r] = "save"
      /\ my'[r] \in Carried /\ Keep(r, my'[r])
      /\ my'[r].st = Walked(my[r].st, my[r].next)
  BY FinishWalkIs
<1>2. /\ my'[r].st.token = 0 /\ ~ my'[r].st.history
      /\ my'[r].st.cursor \in {my[r].st.cursor, my[r].next}
      /\ my'[r].st.pending \in {0, my[r].st.pending}
  BY <1>1, WalkedIs
<1>3. Sane(r) /\ Walking(r) /\ ~ At(r, "save")
  BY <1>1 DEF Typed, RunPart, Handling, Walking, At, FinishWalk
<1>4. log' = log /\ status' = status /\ RunPart
  BY DEF FinishWalk, source, Typed
<1>5. my[r].next <= Len(log) /\ my[r].st.cursor <= Len(log) /\ my[r].st.pending <= Len(log)
  BY <1>3 DEF Sane, Fit
<1>6. Sane(r)'
  BY <1>1, <1>2, <1>4, <1>5, Logged DEF Sane, Mode, Fit, Handling, Walking, At
<1>7. skipped' \subseteq Items /\ missed' = missed
  BY DEF FinishWalk, Typed, RunPart
<1> QED
  BY <1>1, <1>4, <1>6, <1>7, GoesOn DEF FinishWalk, Steps, RunPart, Fit, ingest

LEMMA PersistStatusRuns ==
  ASSUME Typed, NEW r \in Runs, PersistStatus(r)
  PROVE  RunPart'
<1>1. Active(r) /\ At(r, "save") /\ RunPart /\ log' = log /\ UNCHANGED past
  BY DEF PersistStatus, Active, At, Typed, source
<1>2. status' \in Status /\ Fit(status, status.history)'
  <2>1. Fit(my[r].st, my[r].st.history) /\ my[r].st \in Status
    BY <1>1, Mine DEF RunPart, Sane, Mode
  <2> QED
    BY <1>1, <2>1 DEF PersistStatus, Saved, RunPart, Fit
<1>3. CASE Leave(r)
  BY <1>1, <1>2, <1>3, LeavingRuns DEF PersistStatus
<1>4. CASE Goto(r, "release") /\ UNCHANGED <<lease, alive, my, journal>>
  <2>1. my[r] \in Carried /\ Keep(r, my[r])
    BY <1>4, Mine DEF Keep, Typed, RunPart
  <2>2. step'[r] = "release"
    BY <1>4 DEF Goto, Typed, RunPart
  <2>3. Sane(r)'
    BY <2>2 DEF Sane, Walking, Handling, At
  <2> QED
    BY <1>1, <1>2, <1>4, <2>1, <2>3, GoesOn DEF past, Steps, RunPart
<1> QED
  BY <1>3, <1>4 DEF PersistStatus

LEMMA ReleaseUnpublishedRuns ==
  ASSUME Typed, NEW r \in Runs, ReleaseUnpublished(r)
  PROVE  RunPart'
<1>1. /\ Active(r) /\ At(r, "release") /\ RunPart
      /\ log' = log /\ status' = status /\ past' = past
  BY DEF ReleaseUnpublished, Active, At, Typed, source
<1>2. status' \in Status /\ Fit(status, status.history)'
  BY <1>1 DEF RunPart, Fit
<1>3. CASE Leave(r)
  BY <1>1, <1>2, <1>3, LeavingRuns DEF ReleaseUnpublished
<1>4. CASE /\ lease' = IF lease = r THEN None ELSE lease
           /\ Goto(r, "retire") /\ UNCHANGED <<alive, my, journal>>
  <2>1. /\ step' \in [Runs -> Steps] /\ step'[r] = "retire"
        /\ \A q \in Runs \ {r} : step'[q] = step[q]
    BY <1>1, <1>4 DEF Goto, RunPart, Steps
  <2>2. \A q \in Runs : step'[q] \in {"begin", "retire"}
    BY <1>1, <2>1, Alone
  <2>3. OneRun' /\ \A q \in Runs : Sane(q)'
    BY <2>2 DEF OneRun, Active, Sane, Walking, Handling, At
  <2>4. \A q \in Runs : q \in alive' <=> step'[q] # "begin"
    BY <1>1, <1>4, <2>1 DEF RunPart, At
  <2>5. lease' \in Runs \cup {None, Over}
    BY <1>1, <1>4 DEF RunPart
  <2> QED
    BY <1>1, <1>2, <1>4, <2>1, <2>3, <2>4, <2>5 DEF RunPart, past
<1> QED
  BY <1>3, <1>4 DEF ReleaseUnpublished

LEMMA RetireUnpublishedRuns ==
  ASSUME Typed, NEW r \in Runs, RetireUnpublished(r)
  PROVE  RunPart'
<1>1. RunPart /\ log' = log /\ status' = status /\ past' = past
  BY DEF RetireUnpublished, Typed, source
<1>2. Fit(status, status.history)' /\ status' \in Status
  BY <1>1 DEF RunPart, Fit
<1>3. lease' \in {lease, Reclaimed}
  BY DEF RetireUnpublished, LeaseAfter
<1>4. lease' \in Runs \cup {None, Over}
      /\ \A q \in Runs \ {r} : lease = q /\ Active(q) => lease' = q
  BY <1>1, <1>3 DEF RunPart, Reclaimed, LeaseHeld, Active
<1> QED
  BY <1>1, <1>2, <1>4, IsOver DEF RetireUnpublished

LEMMA CrashRuns ==
  ASSUME Typed, NEW r \in Runs, Crash(r)
  PROVE  RunPart'
<1>1. RunPart /\ log' = log /\ status' = status /\ past' = past
  BY DEF Crash, Typed, source
<1>2. Fit(status, status.history)' /\ status' \in Status
  BY <1>1 DEF RunPart, Fit
<1>3. lease' \in Runs \cup {None, Over}
      /\ \A q \in Runs \ {r} : lease = q /\ Active(q) => lease' = q
  BY <1>1 DEF RunPart, Crash
<1> QED
  BY <1>1, <1>2, <1>3, IsOver DEF Crash

-----------------------------------------------------------------------------
(* What each step leaves of the journal, the vault, the index and rebuilds. *)

LEMMA Journals ==
  /\ None \notin Journal /\ None \notin Seen
  /\ Torn \in Journal /\ Torn.header = None /\ Torn.lines = <<>>
  /\ \A r \in Runs \cup {None, Over} :
       Begun(r) \in Journal /\ Begun(r).header = r /\ Begun(r).lines = <<>>
<1>1. None \notin Journal /\ None \notin Seen
  BY NoneAssumption
<1>2. <<>> \in Seq(Items)
  OBVIOUS
<1> QED
  BY <1>1, <1>2 DEF Journal, Torn, Begun

LEMMA FaultType ==
  ASSUME Typed, Fault \/ UNCHANGED faults
  PROVE  faults' \in 0..MaxFaults
  BY JournalAssumption DEF Typed, JournalPart, Fault

LEMMA EnsuredIs ==
  ASSUME Typed, NEW r \in Runs
  PROVE  /\ Ensured(r) \in Journal /\ Ensured(r) # None
         /\ journal # None => Ensured(r) = journal
         /\ journal = None => Ensured(r) = Begun(r)
  BY Journals DEF Ensured, Typed, JournalPart

LEMMA EndedIs ==
  ASSUME NEW r \in Runs, NEW j \in Journal \cup {None}
  PROVE  /\ Ended(r, j) \in Journal \cup {None}
         /\ Ended(r, j) = None <=> j = None
         /\ j # None => /\ Ended(r, j).lines = j.lines
                        /\ Ended(r, j).header = IF j.header = r THEN Over ELSE j.header
<1>1. CASE j = None
  BY <1>1 DEF Ended
<1>2. CASE j # None
  <2>1. j \in Journal
    BY <1>2
  <2>2. [j EXCEPT !.header = Over] \in Journal
    BY <2>1 DEF Journal
  <2> QED
    BY <1>2, <2>1, <2>2, Journals DEF Ended, Journal
<1> QED
  BY <1>1, <1>2

LEMMA RecordedIs ==
  ASSUME Typed, NEW i \in Items
  PROVE  /\ Recorded(i) \in Journal /\ Recorded(i) # None
         /\ journal # None => /\ Recorded(i).header = journal.header
                              /\ Len(Recorded(i).lines) = Len(journal.lines) + 1
         /\ journal = None => Recorded(i).header = None
         /\ Recorded(i).lines # <<>>
<1>1. CASE journal = None
  <2>1. <<i>> \in Seq(Items) /\ <<i>> # <<>>
    OBVIOUS
  <2> QED
    BY <1>1, <2>1, Journals DEF Recorded, Journal, Torn
<1>2. CASE journal # None
  <2>1. journal \in Journal /\ journal.lines \in Seq(Items)
    BY <1>2 DEF Typed, JournalPart, Journal
  <2>2. /\ Append(journal.lines, i) \in Seq(Items)
        /\ Len(Append(journal.lines, i)) = Len(journal.lines) + 1
        /\ Append(journal.lines, i) # <<>>
    BY <2>1
  <2>3. Recorded(i) = [journal EXCEPT !.lines = Append(@, i)]
    BY <1>2 DEF Recorded
  <2>4. /\ Recorded(i).header = journal.header
        /\ Recorded(i).lines = Append(journal.lines, i)
    BY <2>1, <2>3 DEF Journal
  <2>5. Recorded(i) \in Journal
    BY <2>1, <2>2, <2>3 DEF Journal
  <2> QED
    BY <1>2, <2>2, <2>4, <2>5, Journals
<1> QED
  BY <1>1, <1>2

LEMMA CompactedIs ==
  ASSUME journal \in Journal, NEW cut, NEW listed
  PROVE  /\ Compacted(cut, listed) \in Journal \cup {None}
         /\ Staying(cut, listed) # {} =>
              Compacted(cut, listed) # None /\ Compacted(cut, listed).lines # <<>>
         /\ Compacted(cut, listed) # None => Compacted(cut, listed).header = journal.header
<1> DEFINE kept == Survivors(cut, listed)
<1>1. kept \in Seq(Items) /\ (kept = <<>> <=> Staying(cut, listed) = {})
  BY SurvivorsAre
<1> HIDE DEF kept
<1>2. CASE kept # <<>>
  <2>1. Compacted(cut, listed) = [journal EXCEPT !.lines = kept]
    BY <1>2 DEF Compacted, kept
  <2>2. [journal EXCEPT !.lines = kept] \in Journal
    BY <1>1 DEF Journal
  <2> QED
    BY <1>2, <2>1, <2>2, Journals DEF Journal
<1>3. CASE kept = <<>>
  <2>1. Compacted(cut, listed) = IF journal.header # None /\ LeaseHeld
                                 THEN Begun(journal.header) ELSE None
    BY <1>3 DEF Compacted, kept
  <2>2. journal.header \in Runs \cup {None, Over}
    BY DEF Journal
  <2> QED
    BY <1>1, <1>3, <2>1, <2>2, Journals
<1> QED
  BY <1>2, <1>3

LEMMA ReplacedIs ==
  ASSUME NEW all \in [Rebuilds -> Rebuild]
  PROVE  /\ Replaced(all) \in [Rebuilds -> Rebuild]
         /\ \A b \in Rebuilds :
              /\ Replaced(all)[b].step = all[b].step /\ Replaced(all)[b].seen = all[b].seen
              /\ Replaced(all)[b].listed = all[b].listed
              /\ Replaced(all)[b].parsed = all[b].parsed
              /\ ~ (Replaced(all)[b].seen # None /\ Replaced(all)[b].same)
<1>1. \A b \in Rebuilds : [all[b] EXCEPT !.same = FALSE] \in Rebuild
  BY DEF Rebuild
<1> QED
  BY <1>1 DEF Replaced, Rebuild

\* The journal is the same file, or there was none.
LEMMA JournalGrows ==
  ASSUME Typed, UNCHANGED <<reb, index>>, journal' \in Journal \cup {None},
         journal # None => journal' # None /\ Len(journal'.lines) >= Len(journal.lines),
         vault' \in [Items -> Nat], lost' \subseteq Items, Fault \/ UNCHANGED faults
  PROVE  JournalPart'
<1>1. faults' \in 0..MaxFaults
  BY FaultType
<1>2. \A b \in Rebuilds : Looking(b)' => journal' # None /\ reb'[b].seen.lines <= Len(journal'.lines)
  <2> SUFFICES ASSUME NEW b \in Rebuilds, Looking(b)
               PROVE  journal' # None /\ reb[b].seen.lines <= Len(journal'.lines)
    BY DEF Looking
  <2>1. /\ journal # None /\ reb[b].seen.lines <= Len(journal.lines)
        /\ reb[b].seen \in Seen
    BY DEF Typed, JournalPart, Rebuild, Looking
  <2>2. reb[b].seen.lines \in Nat /\ Len(journal.lines) \in Nat
    BY <2>1 DEF Seen, Typed, JournalPart, Journal
  <2>3. journal' \in Journal /\ Len(journal'.lines) \in Nat
    BY <2>1 DEF Journal
  <2> QED
    BY <2>1, <2>2, <2>3
<1> QED
  BY <1>1, <1>2 DEF Typed, JournalPart

LEMMA SameJournal ==
  ASSUME Typed, UNCHANGED <<journal, vault, index, reb, lost>>, Fault \/ UNCHANGED faults
  PROVE  JournalPart'
  BY FaultType DEF Typed, JournalPart, Looking

\* A journal whose run is over, or that was not there.
LEMMA EndedJournal ==
  ASSUME Typed, NEW r \in Runs, UNCHANGED <<vault, index, reb, lost>>,
         Fault \/ UNCHANGED faults,
         journal' = Ended(r, journal) \/ (journal = None /\ journal' \in {None, Torn})
  PROVE  JournalPart'
<1>1. journal \in Journal \cup {None} /\ (journal # None => Len(journal.lines) \in Nat)
  BY DEF Typed, JournalPart, Journal
<1>2. journal' \in Journal \cup {None}
      /\ (journal # None => journal' # None /\ journal'.lines = journal.lines)
  BY <1>1, EndedIs, Journals
<1> QED
  BY <1>1, <1>2, JournalGrows DEF Typed, JournalPart

LEMMA EnsureHeaderJournal ==
  ASSUME Typed, NEW r \in Runs, EnsureHeader(r)
  PROVE  JournalPart'
<1>1. CASE journal' = Ensured(r) /\ UNCHANGED faults
  <2>1. journal # None => Len(journal.lines) \in Nat
    BY DEF Typed, JournalPart, Journal
  <2> QED
    BY <1>1, <2>1, EnsuredIs, JournalGrows DEF EnsureHeader, Typed, JournalPart
<1>2. CASE journal = None /\ journal' \in {None, Torn} /\ Fault
  BY <1>2, EndedJournal DEF EnsureHeader
<1> QED
  BY <1>1, <1>2 DEF EnsureHeader

LEMMA StartPublishJournal ==
  ASSUME Typed, NEW r \in Runs, StartPublish(r)
  PROVE  JournalPart'
<1>1. journal # None => Len(journal.lines) \in Nat
  BY DEF Typed, JournalPart, Journal
<1> QED
  BY <1>1, EnsuredIs, JournalGrows DEF StartPublish, Typed, JournalPart

LEMMA DropItemJournal ==
  ASSUME Typed, NEW r \in Runs, DropItem(r)
  PROVE  JournalPart'
<1>1. Fault \/ UNCHANGED faults
  BY DEF DropItem
<1>2. CASE journal = None /\ journal' \in {None, Torn}
  BY <1>1, <1>2, EndedJournal DEF DropItem
<1>3. CASE journal' = journal
  BY <1>1, <1>3, SameJournal DEF DropItem
<1> QED
  BY <1>2, <1>3 DEF DropItem

LEMMA WriteItemJournal ==
  ASSUME Typed, NEW r \in Runs, WriteItem(r)
  PROVE  JournalPart'
<1>1. journal # None => Len(journal.lines) \in Nat
  BY DEF Typed, JournalPart, Journal
<1>2. my[r].page.version \in Nat /\ my[r].page.item \in {0} \cup Items
  BY Mine, Logged DEF Positions
<1>3. vault' \in [Items -> Nat]
  BY <1>2 DEF WriteItem, ThePage, Typed, JournalPart
<1>4. my[r].page.item # 0
  BY DEF WriteItem, At, Typed, RunPart, Sane
<1> QED
  BY <1>1, <1>2, <1>3, <1>4, JournalGrows DEF WriteItem, ThePage, Typed, JournalPart

LEMMA RecordLineJournal ==
  ASSUME Typed, NEW r \in Runs, RecordLine(r)
  PROVE  JournalPart'
<1>1. my[r].page.item \in Items
  BY Mine DEF RecordLine, At, Typed, RunPart, Sane
<1>2. CASE /\ journal' = Recorded(my[r].page.item) /\ lost' = lost \ {my[r].page.item}
           /\ UNCHANGED faults
  <2>1. journal # None => Len(journal.lines) \in Nat
    BY DEF Typed, JournalPart, Journal
  <2>2. journal' \in Journal /\ journal' # None
        /\ (journal # None => Len(journal'.lines) = Len(journal.lines) + 1)
    BY <1>1, <1>2, RecordedIs
  <2> QED
    BY <1>2, <2>1, <2>2, JournalGrows DEF RecordLine, Typed, JournalPart
<1>3. CASE Fault /\ UNCHANGED <<journal, lost>>
  BY <1>3, SameJournal DEF RecordLine
<1> QED
  BY <1>2, <1>3 DEF RecordLine, ThePage

LEMMA RetireUnpublishedJournal ==
  ASSUME Typed, NEW r \in Runs, RetireUnpublished(r)
  PROVE  JournalPart'
<1>1. CASE journal = None
  BY <1>1, SameJournal DEF RetireUnpublished
<1>2. CASE journal # None
  <2> DEFINE left == Compacted(Len(journal.lines), {})
  <2>1. left \in Journal \cup {None}
    BY <1>2, CompactedIs DEF Typed, JournalPart
  <2>2. journal' = Ended(r, left) /\ reb' = Replaced(reb)
    BY <1>2 DEF RetireUnpublished
  <2> HIDE DEF left
  <2>3. journal' \in Journal \cup {None}
    BY <2>1, <2>2, EndedIs
  <2>4. reb' \in [Rebuilds -> Rebuild] /\ \A b \in Rebuilds : ~ Looking(b)'
    BY <2>2, ReplacedIs DEF Looking, Typed, JournalPart
  <2> QED
    BY <2>3, <2>4, FaultType DEF RetireUnpublished, Typed, JournalPart
<1> QED
  BY <1>1, <1>2

LEMMA IdleIs ==
  /\ Idle \in Rebuild /\ Idle.step = "idle" /\ Idle.seen = None
  /\ [Idle EXCEPT !.step = "stat"] \in Rebuild
  /\ [Idle EXCEPT !.step = "list"] \in Rebuild
<1>1. Idle \in Rebuild /\ Idle.step = "idle" /\ Idle.seen = None
  BY DEF Idle, Rebuild
<1> QED
  BY <1>1 DEF Rebuild

\* A rebuild that carries something else, and looks at the journal as before if
\* it does.
LEMMA CarryJournal ==
  ASSUME Typed, NEW b \in Rebuilds, NEW rebuild \in Rebuild, Carry(b, rebuild),
         UNCHANGED <<journal, vault>>, index' \in [Items -> Nat], lost' \subseteq Items,
         rebuild.seen # None /\ rebuild.same =>
            journal # None /\ rebuild.seen.lines <= Len(journal.lines),
         Fault \/ UNCHANGED faults
  PROVE  JournalPart'
<1>1. reb' \in [Rebuilds -> Rebuild] /\ reb'[b] = rebuild
      /\ \A c \in Rebuilds \ {b} : reb'[c] = reb[c]
  BY DEF Carry, Typed, JournalPart
<1> QED
  BY <1>1, FaultType DEF Typed, JournalPart, Looking

LEMMA RebuildJournal ==
  ASSUME Typed, NEW b \in Rebuilds, RebuildStep(b) \/ AbandonRebuild(b)
  PROVE  JournalPart'
<1>1. /\ reb[b] \in Rebuild /\ journal \in Journal \cup {None}
      /\ vault \in [Items -> Nat] /\ lost \subseteq Items /\ index \in [Items -> Nat]
      /\ Looking(b) => journal # None /\ reb[b].seen.lines <= Len(journal.lines)
  BY DEF Typed, JournalPart
<1>2. CASE BeginRebuild(b)
  BY <1>1, <1>2, IdleIs, CarryJournal DEF BeginRebuild, Idle
<1>3. CASE Stat(b)
  <2> DEFINE seen == IF journal = None THEN None
                     ELSE [torn |-> journal = Torn, lines |-> Len(journal.lines)]
             rebuild == [reb[b] EXCEPT !.step = "list", !.seen = seen]
  <2>1. seen \in Seen \cup {None} /\ (seen # None => journal # None /\ seen.lines = Len(journal.lines))
    BY <1>1 DEF Seen, Journal
  <2> HIDE DEF seen
  <2>2. rebuild \in Rebuild /\ rebuild.seen = seen
    BY <1>1, <2>1 DEF Rebuild
  <2>3. journal # None => Len(journal.lines) \in Nat
    BY <1>1 DEF Journal
  <2>4. Carry(b, rebuild)
    BY <1>3 DEF Stat, seen
  <2> HIDE DEF rebuild
  <2> QED
    BY <1>1, <1>3, <2>1, <2>2, <2>3, <2>4, CarryJournal DEF Stat
<1>4. CASE List(b)
  <2> DEFINE rebuild == [reb[b] EXCEPT !.step = "read", !.listed = {i \in Items : vault[i] # 0}]
  <2>1. rebuild \in Rebuild /\ rebuild.seen = reb[b].seen /\ rebuild.same = reb[b].same
    BY <1>1 DEF Rebuild
  <2> QED
    BY <1>1, <1>4, <2>1, CarryJournal DEF List, Looking
<1>5. CASE Read(b)
  <2> DEFINE parsed == [i \in Items |-> IF i \in reb[b].listed THEN vault[i] ELSE 0]
             rebuild == [reb[b] EXCEPT !.step = "commit", !.parsed = parsed]
  <2>1. parsed \in [Items -> Nat]
    BY <1>1
  <2>2. rebuild \in Rebuild /\ rebuild.seen = reb[b].seen /\ rebuild.same = reb[b].same
    BY <1>1, <2>1 DEF Rebuild
  <2> QED
    BY <1>1, <1>5, <2>2, CarryJournal DEF Read, Looking
<1>6. CASE CommitIndex(b)
  <2>1. index' \in [Items -> Nat] /\ lost' \subseteq Items
    BY <1>1, <1>6 DEF CommitIndex, Rebuild
  <2>2. CASE reb[b].seen = None
    BY <1>6, <2>1, <2>2, IdleIs, CarryJournal DEF CommitIndex
  <2>3. CASE reb[b].seen # None
    <3> DEFINE rebuild == [reb[b] EXCEPT !.step = "recover"]
    <3>1. rebuild \in Rebuild /\ rebuild.seen = reb[b].seen /\ rebuild.same = reb[b].same
      BY <1>1 DEF Rebuild
    <3> QED
      BY <1>1, <1>6, <2>1, <2>3, <3>1, CarryJournal DEF CommitIndex, Looking
  <2> QED
    BY <2>2, <2>3
<1>7. CASE RecoverJournals(b)
  <2> DEFINE all == [reb EXCEPT ![b] = Idle]
  <2>1. all \in [Rebuilds -> Rebuild]
    BY IdleIs DEF Typed, JournalPart
  <2>2. CASE Unproven(b)
    BY <1>1, <1>7, <2>2, IdleIs, CarryJournal DEF RecoverJournals, Carry
  <2>3. CASE ~ Unproven(b)
    <3>1. journal \in Journal
      BY <1>1, <2>3 DEF Unproven
    <3>2. journal' \in Journal \cup {None}
      BY <1>7, <2>3, <3>1, CompactedIs DEF RecoverJournals
    <3>3. reb' = Replaced(all)
      BY <1>7, <2>3 DEF RecoverJournals
    <3> HIDE DEF all
    <3>4. reb' \in [Rebuilds -> Rebuild] /\ \A c \in Rebuilds : ~ Looking(c)'
      BY <2>1, <3>3, ReplacedIs DEF Looking
    <3> QED
      BY <1>7, <3>2, <3>4, FaultType DEF RecoverJournals, Typed, JournalPart
  <2> QED
    BY <2>2, <2>3
<1>8. CASE AbandonRebuild(b)
  BY <1>1, <1>8, IdleIs, CarryJournal DEF AbandonRebuild
<1> QED
  BY <1>2, <1>3, <1>4, <1>5, <1>6, <1>7, <1>8 DEF RebuildStep

LEMMA RebuildRuns ==
  ASSUME Typed, NEW b \in Rebuilds, RebuildStep(b) \/ AbandonRebuild(b), Quiet
  PROVE  RunPart'
<1>1. alive' = alive
  BY DEF RebuildStep, BeginRebuild, Stat, List, Read, CommitIndex, RecoverJournals, AbandonRebuild
<1>2. lease' \in {lease, Reclaimed}
  BY DEF RebuildStep, BeginRebuild, Stat, List, Read, CommitIndex, RecoverJournals,
         AbandonRebuild, LeaseAfter
<1> QED
  BY <1>1, <1>2, RunsStay DEF Quiet, source

LEMMA ItemChangesTyped ==
  ASSUME Typed, ItemChanges
  PROVE  Typed'
<1>1. PICK i \in Items : log' = Append(log, i)
  BY DEF ItemChanges
<1>2. /\ log' \in Seq(Items) /\ Len(log') = Len(log) + 1
      /\ bound.most \in Nat /\ Len(log) \in Nat /\ bound' = bound /\ horizon' = horizon
  BY <1>1, SyncAssumption DEF Typed, SourcePart, ItemChanges
<1>3. SourcePart'
  BY <1>2 DEF Typed, SourcePart, ItemChanges
<1>4. RunPart'
  <2>1. Fit(status, status.history)'
    BY <1>2, OnDisk, Logged DEF Typed, RunPart, Fit, ItemChanges, Positions
  <2>2. ASSUME NEW r \in Runs PROVE Sane(r)'
    <3>1. /\ my[r].st.cursor \in Nat /\ my[r].st.pending \in Nat /\ my[r].st.token \in Nat
          /\ my[r].next \in Nat /\ my[r].page.more \in Nat
      BY Mine, Logged DEF Positions
    <3>2. Sane(r) /\ UNCHANGED <<my, step, status>>
      BY DEF Typed, RunPart, ItemChanges
    <3> QED
      BY <1>2, <3>1, <3>2 DEF Sane, Fit, Mode, Walking, Handling, At
  <2> QED
    BY <2>1, <2>2 DEF Typed, RunPart, ItemChanges, past, OneRun, Active, ingest
<1>5. JournalPart'
  BY DEF Typed, JournalPart, ItemChanges, ingest, Looking
<1> QED
  BY <1>3, <1>4, <1>5 DEF Typed

LEMMA HistoryExpiresTyped ==
  ASSUME Typed, HistoryExpires
  PROVE  Typed'
<1>1. SourcePart'
  BY DEF Typed, SourcePart, HistoryExpires
<1>2. RunPart'
  BY RunsStay DEF HistoryExpires
<1>3. JournalPart'
  BY SameJournal DEF HistoryExpires
<1> QED
  BY <1>1, <1>2, <1>3 DEF Typed

\* A step of a run changes neither the mailbox nor its history.
LEMMA SourceStays ==
  ASSUME Typed, source' = source
  PROVE  SourcePart'
  BY DEF Typed, SourcePart, source

LEMMA RunTyped ==
  ASSUME Typed, NEW r \in Runs,
         RunStep(r) \/ Acquire(r) \/ Interrupt(r) \/ DropItem(r) \/ Crash(r)
  PROVE  Typed'
<1>1. SourcePart'
  BY SourceStays
     DEF RunStep, EnsureHeader, LoadStatus, FetchPage, FallBack, Unchanged, StartPublish,
         WriteItem, RecordLine, TurnPage, FinishWalk, PersistStatus, ReleaseUnpublished,
         RetireUnpublished, Acquire, Interrupt, DropItem, Crash
<1>2. RunPart'
  BY EnsureHeaderRuns, LoadStatusRuns, FetchPageRuns, FallBackRuns, UnchangedRuns,
     StartPublishRuns, WriteItemRuns, RecordLineRuns, TurnPageRuns, FinishWalkRuns,
     PersistStatusRuns, ReleaseUnpublishedRuns, RetireUnpublishedRuns, AcquireRuns,
     InterruptRuns, DropItemRuns, CrashRuns DEF RunStep
<1>3. JournalPart'
  <2>1. CASE EnsureHeader(r) \/ StartPublish(r) \/ DropItem(r) \/ WriteItem(r)
               \/ RecordLine(r) \/ RetireUnpublished(r)
    BY <2>1, EnsureHeaderJournal, StartPublishJournal, DropItemJournal, WriteItemJournal,
       RecordLineJournal, RetireUnpublishedJournal
  <2>2. CASE LoadStatus(r) \/ FetchPage(r) \/ FallBack(r) \/ Unchanged(r) \/ FinishWalk(r)
    BY <2>2, SameJournal
       DEF LoadStatus, FetchPage, FallBack, Unchanged, FinishWalk, ingest
  <2>3. CASE Acquire(r) \/ Interrupt(r) \/ TurnPage(r)
    BY <2>3, SameJournal DEF Acquire, Interrupt, TurnPage, disk
  <2>4. CASE PersistStatus(r)
    <3>1. Fault \/ UNCHANGED faults
      BY <2>4 DEF PersistStatus, Saved
    <3>2. CASE journal' = Ended(r, journal)
      BY <2>4, <3>1, <3>2, EndedJournal DEF PersistStatus
    <3>3. CASE journal' = journal
      BY <2>4, <3>1, <3>3, SameJournal DEF PersistStatus
    <3> QED
      BY <2>4, <3>2, <3>3 DEF PersistStatus
  <2>5. CASE ReleaseUnpublished(r)
    <3>1. CASE journal' = Ended(r, journal)
      BY <2>5, <3>1, EndedJournal DEF ReleaseUnpublished
    <3>2. CASE journal' = journal
      BY <2>5, <3>2, SameJournal DEF ReleaseUnpublished
    <3> QED
      BY <2>5, <3>1, <3>2 DEF ReleaseUnpublished
  <2>6. CASE Crash(r)
    <3>1. journal' = Ended(r, journal) \/ (journal = None /\ journal' \in {None, Torn})
      BY <2>6 DEF Crash
    <3> QED
      BY <2>6, <3>1, EndedJournal DEF Crash
  <2> QED
    BY <2>1, <2>2, <2>3, <2>4, <2>5, <2>6 DEF RunStep
<1> QED
  BY <1>1, <1>2, <1>3 DEF Typed

LEMMA InitTyped ==
  ASSUME Init
  PROVE  Typed
<1>1. /\ MaxLog \in Nat /\ MaxDropped \in Nat \ {0} /\ bound \in Bounds
      /\ bound.log \in Seq(Items) \ {<<>>} /\ bound.most \in Len(bound.log)..MaxLog
  BY SyncAssumption DEF Init
<1>2. NoStatus \in Status /\ Nothing \in Carried /\ Idle \in Rebuild
  BY <1>1, Empties, IdleIs
<1>3. SourcePart
  <2>1. log \in Seq(Items) /\ log # <<>> /\ Len(log) \in Nat /\ horizon = 0
    BY <1>1 DEF Init
  <2>2. Len(log) # 0
    BY <2>1
  <2> QED
    BY <1>1, <2>1, <2>2 DEF SourcePart, Init
<1>4. RunPart
  <2>1. Len(log) \in Nat /\ Last \in Nat
    BY <1>1, JournalAssumption DEF Init
  <2>2. Fit(status, status.history)
    BY <2>1 DEF Init, NoStatus, Fit
  <2>3. \A r \in Runs : step[r] = "begin" /\ my[r] = Nothing
    BY DEF Init
  <2>4. \A r \in Runs : Sane(r)
    BY <2>3 DEF Sane, Walking, Handling, At
  <2> QED
    BY <1>2, <2>2, <2>3, <2>4 DEF Init, JournalInit, RunPart, OneRun, Active, Steps
<1>5. JournalPart
  BY <1>2, IdleIs, JournalAssumption DEF Init, JournalInit, JournalPart, Looking
<1> QED
  BY <1>3, <1>4, <1>5 DEF Typed

LEMMA StepTyped ==
  ASSUME Typed, [Next]_vars
  PROVE  Typed'
<1>1. CASE UNCHANGED vars
  BY <1>1 DEF vars, ingest, source, past, Typed, SourcePart, RunPart, JournalPart, OneRun,
              Active, Sane, Walking, Handling, At, Fit, Mode, Looking
<1>2. ASSUME NEW r \in Runs,
             RunStep(r) \/ Acquire(r) \/ Interrupt(r) \/ DropItem(r) \/ Crash(r)
      PROVE  Typed'
  BY <1>2, RunTyped
<1>3. ASSUME NEW b \in Rebuilds, RebuildStep(b) \/ AbandonRebuild(b), Quiet
      PROVE  Typed'
  BY <1>3, RebuildRuns, RebuildJournal, SourceStays DEF Quiet, Typed
<1> QED
  BY <1>1, <1>2, <1>3, ItemChangesTyped, HistoryExpiresTyped DEF Next

\* Every variable keeps its type, whatever the runs, rebuilds, items and faults.
THEOREM SourceTypes == Spec => []TypeOK
<1>1. Init => Typed
  BY InitTyped
<1>2. Typed /\ [Next]_vars => Typed'
  BY StepTyped
<1>3. Typed => TypeOK
  BY TypedTypeOK
<1> QED
  BY <1>1, <1>2, <1>3, PTL DEF Spec

-----------------------------------------------------------------------------
(* A clean index is right.                                                  *)

\* What the index that a rebuild is making will have wrong, and what is wrong
\* in the index.
StaleAt(b) ==
  {i \in Items \ lost : \/ AtRebuild(b, "read") /\ i \notin reb[b].listed /\ vault[i] # 0
                        \/ AtRebuild(b, "commit") /\ reb[b].parsed[i] # vault[i]}
StaleNow == {i \in Items \ lost : index[i] # vault[i]}
NoneMaking == \A b \in Rebuilds : StaleAt(b) = {}
NoneStale == StaleNow = {} /\ NoneMaking

OneLocked == \A b, c \in Rebuilds : Locked(b) /\ Locked(c) => b = c
Dirty == NoneStale \/ journal # None
\* What is wrong is in a line the rebuild did not see.
Grew(b) == Len(journal.lines) > reb[b].seen.lines
LookersSeeIt ==
  \A b \in Rebuilds : Looking(b) =>
    Grew(b) \/ (NoneMaking /\ (AtRebuild(b, "recover") => StaleNow = {}))
RecoversSeen == \A b \in Rebuilds : AtRebuild(b, "recover") => reb[b].seen # None
RetiringHasLines ==
  (\E q \in Runs : At(q, "retire")) =>
    NoneStale \/ (journal # None /\ journal.lines # <<>>)
\* The journal keeps what a run that is not late publishes; a journal a run made
\* says nothing until the run publishes.
Own(r) ==
  /\ Active(r) /\ ~ my[r].late => ~ Overlooked /\ (~ At(r, "header") => journal # None)
  /\ Active(r) /\ ~ my[r].begun /\ journal # None /\ journal.header = r => NoneStale
  /\ step[r] \in {"begin", "header"} /\ journal # None => journal.header # r
  /\ step[r] \in {"write", "line"} => my[r].begun

Clean ==
  /\ OneLocked /\ Dirty /\ LookersSeeIt /\ RecoversSeen /\ RetiringHasLines
  /\ \A r \in Runs : Own(r)

LEMMA CleanIsSafe ==
  ASSUME Clean
  PROVE  NeverFalselyClean
  BY DEF Clean, Dirty, NoneStale, StaleNow, NeverFalselyClean

\* A step that publishes nothing, indexes nothing and keeps every line.
LEMMA DataStays ==
  ASSUME Typed, Clean, UNCHANGED <<vault, index, reb, lost>>,
         journal # None => journal' # None /\ journal'.lines = journal.lines
  PROVE  /\ NoneStale' = NoneStale
         /\ OneLocked' /\ Dirty' /\ LookersSeeIt' /\ RecoversSeen'
         /\ \A b \in Rebuilds : Outstanding(b)' = Outstanding(b)
<1>1. /\ \A b \in Rebuilds : StaleAt(b)' = StaleAt(b)
      /\ StaleNow' = StaleNow
  BY DEF StaleAt, StaleNow, AtRebuild
<1>2. NoneMaking' = NoneMaking /\ NoneStale' = NoneStale
  BY <1>1 DEF NoneMaking, NoneStale
<1>3. \A b \in Rebuilds : Looking(b) => journal # None
  BY DEF Typed, JournalPart
<1>4. LookersSeeIt'
  BY <1>1, <1>2, <1>3 DEF Clean, LookersSeeIt, Looking, Grew, AtRebuild
<1> QED
  BY <1>2, <1>4 DEF Clean, OneLocked, Dirty, RecoversSeen, Locked, AtRebuild, Outstanding

\* The step of a run r that does so.
LEMMA RunStays ==
  ASSUME Typed, Clean, NEW r \in Runs, UNCHANGED <<vault, index, reb, lost>>,
         journal # None => /\ journal' # None /\ journal'.lines = journal.lines
                           /\ journal'.header \in {journal.header, Over},
         journal = None /\ journal' # None => journal'.header \in {None, r},
         \A q \in Runs \ {r} : my'[q] = my[q] /\ step'[q] = step[q],
         step'[r] = "retire" => step[r] = "retire" \/ (NoneStale /\ Active(r)),
         Own(r)'
  PROVE  Clean'
<1>1. /\ NoneStale' = NoneStale
      /\ OneLocked' /\ Dirty' /\ LookersSeeIt' /\ RecoversSeen'
      /\ \A b \in Rebuilds : Outstanding(b)' = Outstanding(b)
  BY DataStays
<1>2. RetiringHasLines'
  BY <1>1 DEF Clean, RetiringHasLines, At
<1>3. ASSUME NEW q \in Runs \ {r} PROVE Own(q)'
  <2>1. Own(q)
    BY DEF Clean
  <2>2. ~ Active(r) => (Overlooked' => Overlooked)
    BY <1>1 DEF Overlooked, At, Active
  <2>3. Active(r) => ~ Active(q)
    BY Alone DEF Active
  <2>4. /\ journal # None /\ journal' # None /\ journal'.header = q => journal.header = q
        /\ journal = None /\ journal' # None => journal'.header # q
    BY JournalAssumption
  <2> QED
    BY <1>1, <2>1, <2>2, <2>3, <2>4 DEF Own, Active, At
<1> QED
  BY <1>1, <1>2, <1>3 DEF Clean

\* A step within its walk that does not touch the journal.
LEMMA WalkStays ==
  ASSUME Typed, Clean, NEW r \in Runs, Active(r), ~ At(r, "header"),
         NEW s \in Steps \ {"begin", "header", "retire"}, Goto(r, s), Keep(r, my'[r]),
         my'[r] \in Carried, my'[r].late = my[r].late, my'[r].begun = my[r].begun,
         UNCHANGED <<vault, index, reb, lost, journal>>,
         s \in {"write", "line"} => my[r].begun
  PROVE  Clean'
<1>1. /\ step'[r] = s
      /\ \A q \in Runs \ {r} : my'[q] = my[q] /\ step'[q] = step[q]
  BY Moves
<1>2. /\ NoneStale' = NoneStale
      /\ \A b \in Rebuilds : Outstanding(b)' = Outstanding(b)
  BY DataStays
<1>3. Overlooked' => Overlooked
  BY <1>1, <1>2 DEF Overlooked, At
<1>4. Own(r)'
  BY <1>1, <1>2, <1>3 DEF Clean, Own, Active, At
<1> QED
  BY <1>1, <1>4, RunStays

\* A run that is over, and its journal is nobody's.
LEMMA OverStays ==
  ASSUME Typed, Clean, NEW r \in Runs, UNCHANGED <<vault, index, reb, lost>>,
         Keep(r, Nothing), Goto(r, "begin"),
         journal' = Ended(r, journal) \/ (journal = None /\ journal' \in {None, Torn})
  PROVE  Clean'
<1>1. /\ step'[r] = "begin"
      /\ \A q \in Runs \ {r} : my'[q] = my[q] /\ step'[q] = step[q]
  BY Logged, Empties, Moves DEF Steps
<1>2. journal \in Journal \cup {None}
  BY DEF Typed, JournalPart
<1>3. /\ journal # None => /\ journal' # None /\ journal'.lines = journal.lines
                           /\ journal'.header \in {journal.header, Over}
      /\ journal = None /\ journal' # None => journal'.header = None
      /\ journal' # None => journal'.header # r
  BY <1>2, EndedIs, Journals, JournalAssumption
<1>4. Own(r)'
  BY <1>1, <1>3 DEF Own, Active, At
<1> QED
  BY <1>1, <1>3, <1>4, RunStays

LEMMA AcquireClean ==
  ASSUME Typed, Clean, NEW r \in Runs, Acquire(r)
  PROVE  Clean'
<1> DEFINE mine == [Nothing EXCEPT !.late = Overlooked]
<1>1. mine \in Carried /\ mine.late = Overlooked /\ mine.begun = FALSE
  <2>1. Nothing \in Carried /\ Overlooked \in BOOLEAN
    BY Logged, Empties DEF Overlooked
  <2> QED
    BY <2>1 DEF Carried, Nothing
<1>2. /\ my'[r] = mine /\ step'[r] = "header"
      /\ \A q \in Runs \ {r} : my'[q] = my[q] /\ step'[q] = step[q]
  BY <1>1, Moves DEF Acquire, Steps
<1>3. UNCHANGED <<journal, vault, index, reb, lost>> /\ step[r] = "begin"
  BY DEF Acquire, disk, At
<1>4. Overlooked' => Overlooked
  BY <1>2, <1>3 DEF Overlooked, At, Outstanding
<1>5. Own(r)'
  BY <1>1, <1>2, <1>3, <1>4 DEF Clean, Own, Active, At
<1> QED
  BY <1>2, <1>3, <1>5, RunStays

LEMMA EnsureHeaderClean ==
  ASSUME Typed, Clean, NEW r \in Runs, EnsureHeader(r)
  PROVE  Clean'
<1>1. CASE Leave(r) /\ journal = None /\ journal' \in {None, Torn}
  BY <1>1, OverStays DEF EnsureHeader, Leave
<1>2. CASE journal' = Ensured(r) /\ Goto(r, "load") /\ UNCHANGED my
  <2>1. step'[r] = "load" /\ \A q \in Runs \ {r} : step'[q] = step[q]
    BY <1>2 DEF Goto, Typed, RunPart
  <2>2. UNCHANGED <<vault, index, reb, lost>> /\ step[r] = "header"
    BY DEF EnsureHeader, At
  <2>3. /\ journal' # None /\ (journal # None => journal' = journal)
        /\ journal = None => journal'.header = r /\ journal'.lines = <<>>
    BY <1>2, EnsuredIs, Journals
  <2>4. /\ NoneStale' = NoneStale
        /\ \A b \in Rebuilds : Outstanding(b)' = Outstanding(b)
    BY <2>2, <2>3, DataStays
  <2>5. Overlooked' => Overlooked
    BY <2>1, <2>4 DEF Overlooked, At
  <2>6. journal = None => NoneStale
    BY DEF Clean, Dirty
  <2>7. Own(r)'
    BY <1>2, <2>1, <2>2, <2>3, <2>4, <2>5, <2>6 DEF Clean, Own, Active, At
  <2> QED
    BY <1>2, <2>1, <2>2, <2>3, <2>7, RunStays
<1> QED
  BY <1>1, <1>2 DEF EnsureHeader

LEMMA StartPublishClean ==
  ASSUME Typed, Clean, NEW r \in Runs, StartPublish(r)
  PROVE  Clean'
<1> DEFINE mine == [my[r] EXCEPT !.begun = TRUE]
<1>1. mine \in Carried /\ mine.late = my[r].late /\ mine.begun = TRUE
  BY Mine DEF Carried
<1>2. /\ my'[r] = mine /\ step'[r] = "write"
      /\ \A q \in Runs \ {r} : my'[q] = my[q] /\ step'[q] = step[q]
  BY <1>1, Moves DEF StartPublish, Steps
<1> HIDE DEF mine
<1>3. UNCHANGED <<vault, index, reb, lost>> /\ step[r] = "item"
  BY DEF StartPublish, At
<1>4. /\ journal' # None /\ (journal # None => journal' = journal)
      /\ journal = None => journal'.header = r /\ journal'.lines = <<>>
  BY EnsuredIs, Journals DEF StartPublish
<1>5. \A b \in Rebuilds : Outstanding(b)' = Outstanding(b)
  BY <1>3 DEF Outstanding
<1>6. Overlooked' => Overlooked
  BY <1>2, <1>5 DEF Overlooked, At
<1>7. Own(r)'
  BY <1>1, <1>2, <1>3, <1>4, <1>6 DEF Clean, Own, Active, At
<1> QED
  BY <1>2, <1>3, <1>4, <1>7, RunStays

LEMMA DropItemClean ==
  ASSUME Typed, Clean, NEW r \in Runs, DropItem(r)
  PROVE  Clean'
<1> DEFINE mine == [my[r] EXCEPT !.st.dropped = TRUE]
<1>1. mine \in Carried /\ mine.late = my[r].late /\ mine.begun = my[r].begun
  <2>1. [my[r].st EXCEPT !.dropped = TRUE] \in Status
    BY Mine DEF Status
  <2> QED
    BY <2>1, Mine DEF Carried
<1>2. /\ my'[r] = mine /\ step'[r] = "turn"
      /\ \A q \in Runs \ {r} : my'[q] = my[q] /\ step'[q] = step[q]
  BY <1>1, Moves DEF DropItem, Steps
<1> HIDE DEF mine
<1>3. UNCHANGED <<vault, index, reb, lost>> /\ Active(r) /\ ~ At(r, "header")
  BY DEF DropItem, Active, At
<1>4. journal' = journal \/ (journal = None /\ journal' = Torn)
  BY DEF DropItem
<1>5. Torn # None /\ Torn.header = None /\ r # None
  BY Journals, JournalAssumption
<1>6. /\ NoneStale' = NoneStale
      /\ \A b \in Rebuilds : Outstanding(b)' = Outstanding(b)
  BY <1>3, <1>4, DataStays
<1>7. Overlooked' => Overlooked
  BY <1>2, <1>6 DEF Overlooked, At
<1>8. Own(r)'
  BY <1>1, <1>2, <1>3, <1>4, <1>5, <1>6, <1>7 DEF Clean, Own, Active, At
<1> QED
  BY <1>2, <1>3, <1>4, <1>5, <1>8, RunStays

LEMMA WriteItemClean ==
  ASSUME Typed, Clean, NEW r \in Runs, WriteItem(r)
  PROVE  Clean'
<1> DEFINE mine == [my[r] EXCEPT !.made = TRUE]
           i == my[r].page.item
<1>1. mine \in Carried /\ mine.late = my[r].late /\ mine.begun = my[r].begun
  BY Mine DEF Carried
<1>2. /\ my'[r] = mine /\ step'[r] = "line" /\ step[r] = "write"
      /\ \A q \in Runs \ {r} : my'[q] = my[q] /\ step'[q] = step[q]
  BY <1>1, Moves DEF WriteItem, Steps, At
<1> HIDE DEF mine
<1>3. /\ UNCHANGED <<journal, index, reb>> /\ Active(r)
      /\ vault' = [vault EXCEPT ![i] = my[r].page.version]
      /\ lost' = IF my[r].late THEN lost \cup {i} ELSE lost \ {i}
  BY <1>2 DEF WriteItem, Active, ThePage
<1>4. Overlooked' <=> Overlooked
  BY <1>2, <1>3 DEF Overlooked, At, Outstanding
<1>5. my[r].begun /\ (~ my[r].late => ~ Overlooked /\ journal # None)
  BY <1>2, <1>3 DEF Clean, Own, At
<1>6. ASSUME my[r].late
      PROVE  /\ NoneStale => NoneStale'
             /\ NoneMaking => NoneMaking'
             /\ StaleNow = {} => StaleNow' = {}
  <2>1. /\ \A j \in Items \ lost' : j \in Items \ lost /\ vault'[j] = vault[j]
    BY <1>3, <1>6 DEF Typed, JournalPart
  <2>2. (\A b \in Rebuilds : StaleAt(b)' \subseteq StaleAt(b)) /\ StaleNow' \subseteq StaleNow
    BY <1>3, <2>1 DEF StaleAt, StaleNow, AtRebuild
  <2> QED
    BY <2>2 DEF NoneStale, NoneMaking
<1>7. OneLocked' /\ RecoversSeen'
  BY <1>3 DEF Clean, OneLocked, RecoversSeen, Locked, AtRebuild
<1>8. Dirty'
  BY <1>3, <1>5, <1>6 DEF Clean, Dirty
<1>9. LookersSeeIt'
  <2>1. CASE my[r].late
    BY <1>3, <1>6, <2>1 DEF Clean, LookersSeeIt, Looking, Grew, AtRebuild
  <2>2. CASE ~ my[r].late
    <3>1. \A b \in Rebuilds : ~ Looking(b)'
      BY <1>3, <1>5, <2>2 DEF Overlooked, Outstanding, Looking
    <3> QED
      BY <3>1 DEF LookersSeeIt
  <2> QED
    BY <2>1, <2>2
<1>10. RetiringHasLines'
  <2>1. CASE my[r].late
    BY <1>2, <1>3, <1>6, <2>1 DEF Clean, RetiringHasLines, At
  <2>2. CASE ~ my[r].late
    BY <1>2, <1>5, <2>2 DEF RetiringHasLines, Overlooked, At
  <2> QED
    BY <2>1, <2>2
<1>11. ASSUME NEW q \in Runs PROVE Own(q)'
  <2>1. CASE q = r
    BY <1>1, <1>2, <1>3, <1>4, <1>5, <2>1 DEF Own, Active, At
  <2>2. CASE q # r
    <3>1. step'[q] \in {"begin", "retire"} /\ step'[q] = step[q]
      BY <1>2, <1>3, <2>2, Alone
    <3> QED
      BY <1>3, <3>1 DEF Clean, Own, Active, At
  <2> QED
    BY <2>1, <2>2
<1> QED
  BY <1>7, <1>8, <1>9, <1>10, <1>11 DEF Clean

LEMMA RecordLineClean ==
  ASSUME Typed, Clean, NEW r \in Runs, RecordLine(r)
  PROVE  Clean'
<1> DEFINE i == my[r].page.item
<1>1. /\ step'[r] = "turn" /\ step[r] = "line" /\ my' = my
      /\ \A q \in Runs \ {r} : step'[q] = step[q]
  BY DEF RecordLine, Goto, At, Typed, RunPart
<1>2. UNCHANGED <<vault, index, reb>> /\ Active(r) /\ my[r].begun
  BY <1>1 DEF RecordLine, Active, Clean, Own
<1>3. CASE UNCHANGED <<journal, lost>>
  <2>1. my[r] \in Carried /\ Keep(r, my'[r]) /\ Goto(r, "turn")
    BY <1>1, Mine DEF Keep, Typed, RunPart, RecordLine
  <2> QED
    BY <1>1, <1>2, <1>3, <2>1, WalkStays DEF Steps, At
<1>4. CASE journal' = Recorded(i)
  <2>1. i \in Items
    BY <1>1, Mine DEF Typed, RunPart, Sane
  <2>2. /\ journal' # None /\ journal'.lines # <<>>
        /\ journal # None => /\ journal'.header = journal.header
                             /\ Len(journal'.lines) = Len(journal.lines) + 1
        /\ journal = None => journal'.header = None
    BY <1>4, <2>1, RecordedIs
  <2>3. OneLocked' /\ RecoversSeen' /\ Dirty' /\ RetiringHasLines'
    BY <1>2, <2>2 DEF Clean, OneLocked, RecoversSeen, Locked, AtRebuild, Dirty,
                      RetiringHasLines
  <2>4. LookersSeeIt'
    <3> SUFFICES ASSUME NEW b \in Rebuilds, Looking(b) PROVE Grew(b)'
      BY <1>2 DEF LookersSeeIt, Looking
    <3>1. journal # None /\ reb[b].seen.lines <= Len(journal.lines) /\ reb[b].seen \in Seen
          /\ journal \in Journal
      BY DEF Typed, JournalPart, Looking, Rebuild
    <3>2. reb[b].seen.lines \in Nat /\ Len(journal.lines) \in Nat
      BY <3>1 DEF Seen, Journal
    <3> QED
      BY <1>2, <2>2, <3>1, <3>2 DEF Grew
  <2>5. Overlooked' <=> Overlooked
    BY <1>1, <1>2 DEF Overlooked, At, Outstanding
  <2>6. ASSUME NEW q \in Runs PROVE Own(q)'
    <3>1. CASE q = r
      BY <1>1, <1>2, <2>2, <2>5, <3>1 DEF Clean, Own, Active, At
    <3>2. CASE q # r
      <4>1. step'[q] \in {"begin", "retire"} /\ step'[q] = step[q]
        BY <1>1, <1>2, <3>2, Alone
      <4> QED
        BY <2>2, <4>1, JournalAssumption DEF Clean, Own, Active, At
    <3> QED
      BY <3>1, <3>2
  <2> QED
    BY <2>3, <2>4, <2>6 DEF Clean
<1> QED
  BY <1>3, <1>4 DEF RecordLine, ThePage

LEMMA ReleaseUnpublishedClean ==
  ASSUME Typed, Clean, NEW r \in Runs, ReleaseUnpublished(r)
  PROVE  Clean'
<1>1. Active(r) /\ UNCHANGED <<vault, index, reb, lost>>
  BY DEF ReleaseUnpublished, Active, At
<1>2. CASE Leave(r) /\ journal' = Ended(r, journal)
  BY <1>1, <1>2, OverStays DEF Leave
<1>3. CASE /\ ~ my[r].begun /\ journal # None /\ journal.header = r
           /\ Goto(r, "retire") /\ UNCHANGED <<my, journal>>
  <2>1. step'[r] = "retire" /\ \A q \in Runs \ {r} : step'[q] = step[q]
    BY <1>3 DEF Goto, Typed, RunPart, Steps
  <2>2. NoneStale
    BY <1>1, <1>3 DEF Clean, Own
  <2>3. Own(r)'
    BY <2>1 DEF Own, Active
  <2> QED
    BY <1>1, <1>3, <2>1, <2>2, <2>3, RunStays
<1> QED
  BY <1>2, <1>3 DEF ReleaseUnpublished

LEMMA PersistStatusClean ==
  ASSUME Typed, Clean, NEW r \in Runs, PersistStatus(r)
  PROVE  Clean'
<1>1. Active(r) /\ ~ At(r, "header") /\ UNCHANGED <<vault, index, reb, lost>>
  BY DEF PersistStatus, Active, At
<1>2. CASE Leave(r) /\ journal' = Ended(r, journal)
  BY <1>1, <1>2, OverStays DEF Leave
<1>3. CASE Goto(r, "release") /\ UNCHANGED <<my, journal>>
  <2>1. my[r] \in Carried /\ Keep(r, my'[r])
    BY <1>3, Mine DEF Keep, Typed, RunPart
  <2> QED
    BY <1>1, <1>3, <2>1, WalkStays DEF Steps
<1> QED
  BY <1>2, <1>3 DEF PersistStatus

LEMMA CrashClean ==
  ASSUME Typed, Clean, NEW r \in Runs, Crash(r)
  PROVE  Clean'
<1>1. journal' = Ended(r, journal) \/ (journal = None /\ journal' \in {None, Torn})
  BY DEF Crash
<1> QED
  BY <1>1, OverStays DEF Crash

\* No line stays of a journal only if it had none, when nothing is listed.
LEMMA AllStay ==
  ASSUME journal \in Journal, journal.lines # <<>>
  PROVE  Staying(Len(journal.lines), {}) # {}
<1>1. journal.lines \in Seq(Items)
  BY DEF Journal
<1>2. 1 \in DOMAIN journal.lines
  BY <1>1
<1> QED
  BY <1>2 DEF Staying

LEMMA RetireUnpublishedClean ==
  ASSUME Typed, Clean, NEW r \in Runs, RetireUnpublished(r)
  PROVE  Clean'
<1>1. At(r, "retire") /\ Keep(r, Nothing) /\ Goto(r, "begin") /\ UNCHANGED <<vault, index, lost>>
  BY DEF RetireUnpublished
<1>2. /\ step'[r] = "begin"
      /\ \A q \in Runs \ {r} : my'[q] = my[q] /\ step'[q] = step[q]
  BY <1>1, Logged, Empties, Moves DEF Steps
<1>3. CASE journal = None
  BY <1>1, <1>3, OverStays DEF RetireUnpublished
<1>4. CASE journal # None
  <2> DEFINE left == Compacted(Len(journal.lines), {})
  <2>1. journal \in Journal
    BY <1>4 DEF Typed, JournalPart
  <2>2. /\ left \in Journal \cup {None}
        /\ journal.lines # <<>> => left # None /\ left.lines # <<>>
        /\ left # None => left.header = journal.header
    BY <2>1, AllStay, CompactedIs
  <2>3. journal' = Ended(r, left) /\ reb' = Replaced(reb)
    BY <1>4 DEF RetireUnpublished
  <2> HIDE DEF left
  <2>4. /\ journal.lines # <<>> => journal' # None /\ journal'.lines # <<>>
        /\ journal' # None => journal'.header \in {journal.header, Over} /\ journal'.header # r
    BY <2>2, <2>3, EndedIs, JournalAssumption
  <2>5. /\ \A b \in Rebuilds : reb'[b].step = reb[b].step /\ reb'[b].seen = reb[b].seen
                               /\ reb'[b].listed = reb[b].listed /\ reb'[b].parsed = reb[b].parsed
        /\ \A b \in Rebuilds : ~ Looking(b)'
    BY <2>3, ReplacedIs DEF Looking, Typed, JournalPart
  <2>6. /\ \A b \in Rebuilds : StaleAt(b)' = StaleAt(b)
        /\ StaleNow' = StaleNow
    BY <1>1, <2>5 DEF StaleAt, StaleNow, AtRebuild
  <2>7. NoneMaking' = NoneMaking /\ NoneStale' = NoneStale
    BY <2>6 DEF NoneMaking, NoneStale
  <2>8. NoneStale \/ journal.lines # <<>>
    BY <1>1 DEF Clean, RetiringHasLines
  <2>9. Dirty' /\ RetiringHasLines'
    BY <2>4, <2>7, <2>8 DEF Dirty, RetiringHasLines
  <2>10. OneLocked' /\ RecoversSeen' /\ LookersSeeIt'
    BY <2>5 DEF Clean, OneLocked, RecoversSeen, Locked, AtRebuild, LookersSeeIt
  <2>11. ASSUME NEW q \in Runs PROVE Own(q)'
    <3>1. CASE q = r
      BY <1>2, <2>4, <3>1 DEF Own, Active, At
    <3>2. CASE q # r
      <4>1. Overlooked
        BY <1>1 DEF Overlooked
      <4>2. Own(q)
        BY DEF Clean
      <4>3. journal' # None /\ journal'.header = q => journal.header = q
        BY <2>4, JournalAssumption
      <4> QED
        BY <1>2, <1>4, <2>7, <3>2, <4>1, <4>2, <4>3 DEF Own, Active, At
    <3> QED
      BY <3>1, <3>2
  <2> QED
    BY <2>9, <2>10, <2>11 DEF Clean
<1> QED
  BY <1>3, <1>4

\* The step of a rebuild that leaves the journal alone.
LEMMA RebuildStays ==
  ASSUME Typed, Clean, UNCHANGED <<journal, step, my>>, NoneStale => NoneStale',
         OneLocked', RecoversSeen', LookersSeeIt',
         (\A b \in Rebuilds : Outstanding(b)' => Outstanding(b)) \/ (\A r \in Runs : ~ Active(r))
  PROVE  Clean'
<1>1. Dirty' /\ RetiringHasLines'
  BY DEF Clean, Dirty, RetiringHasLines, At
<1>2. (\A b \in Rebuilds : Outstanding(b)' => Outstanding(b)) => (Overlooked' => Overlooked)
  BY DEF Overlooked, At
<1>3. \A r \in Runs : Own(r)'
  BY <1>2 DEF Clean, Own, Active, At
<1> QED
  BY <1>1, <1>3 DEF Clean

\* Only the rebuild with the index's lock makes an index.
LEMMA OneMakes ==
  ASSUME Clean, NEW b \in Rebuilds, Locked(b), NEW c \in Rebuilds \ {b}
  PROVE  StaleAt(c) = {} /\ ~ Locked(c)
<1>1. ~ Locked(c)
  BY DEF Clean, OneLocked
<1> QED
  BY <1>1 DEF StaleAt, Locked, AtRebuild

\* A rebuild carries something else.
LEMMA Carries ==
  ASSUME Typed, NEW b \in Rebuilds, NEW rebuild \in Rebuild, Carry(b, rebuild)
  PROVE  reb'[b] = rebuild /\ \A c \in Rebuilds \ {b} : reb'[c] = reb[c]
  BY DEF Carry, Typed, JournalPart

LEMMA BeginRebuildClean ==
  ASSUME Typed, Clean, NEW b \in Rebuilds, BeginRebuild(b), Quiet
  PROVE  Clean'
<1> DEFINE rebuild == [Idle EXCEPT !.step = IF LeaseHeld THEN "list" ELSE "stat"]
<1>1. /\ rebuild \in Rebuild /\ rebuild.seen = None
      /\ rebuild.step = IF LeaseHeld THEN "list" ELSE "stat"
  BY IdleIs DEF Idle
<1> HIDE DEF rebuild
<1>2. reb'[b] = rebuild /\ \A c \in Rebuilds \ {b} : reb'[c] = reb[c]
  BY <1>1, Carries DEF BeginRebuild, rebuild
<1>3. /\ UNCHANGED <<journal, vault, index, lost, step, my>>
      /\ reb[b].step = "idle" /\ \A c \in Rebuilds : ~ Locked(c)
  BY DEF BeginRebuild, Quiet, AtRebuild
<1>4. (\A c \in Rebuilds : StaleAt(c)' = {}) /\ StaleNow' = StaleNow
  BY <1>1, <1>2, <1>3 DEF StaleAt, StaleNow, AtRebuild, Locked
<1>5. NoneMaking' /\ (NoneStale => NoneStale')
  BY <1>4 DEF NoneMaking, NoneStale
<1>6. OneLocked' /\ RecoversSeen'
  BY <1>1, <1>2, <1>3 DEF Clean, OneLocked, RecoversSeen, Locked, AtRebuild
<1>7. LookersSeeIt'
  BY <1>1, <1>2, <1>3, <1>4, <1>5 DEF Clean, LookersSeeIt, Looking, Grew, AtRebuild
<1>8. (\A c \in Rebuilds : Outstanding(c)' => Outstanding(c)) \/ (\A r \in Runs : ~ Active(r))
  <2>1. CASE LeaseHeld
    BY <1>1, <1>2, <2>1 DEF Outstanding
  <2>2. CASE ~ LeaseHeld
    BY <2>2 DEF LeaseHeld, Typed, RunPart, OneRun, Active
  <2> QED
    BY <2>1, <2>2
<1> QED
  BY <1>3, <1>5, <1>6, <1>7, <1>8, RebuildStays

LEMMA StatClean ==
  ASSUME Typed, Clean, NEW b \in Rebuilds, Stat(b), Quiet
  PROVE  Clean'
<1>1. /\ UNCHANGED <<journal, vault, index, lost, step, my>>
      /\ reb[b].step = "stat" /\ Locked(b)
  BY DEF Stat, Quiet, AtRebuild, Locked
<1>2. /\ reb'[b].step = "list"
      /\ \A c \in Rebuilds \ {b} : reb'[c] = reb[c]
  BY DEF Stat, Carry, Typed, JournalPart, Rebuild
<1>3. \A c \in Rebuilds \ {b} : StaleAt(c) = {} /\ ~ Locked(c)
  BY <1>1, OneMakes
<1>4. (\A c \in Rebuilds : StaleAt(c)' = {}) /\ StaleNow' = StaleNow
  BY <1>1, <1>2, <1>3 DEF StaleAt, StaleNow, AtRebuild
<1>5. NoneMaking' /\ (NoneStale => NoneStale')
  BY <1>4 DEF NoneMaking, NoneStale
<1>6. OneLocked' /\ RecoversSeen'
  BY <1>1, <1>2, <1>3 DEF Clean, OneLocked, RecoversSeen, Locked, AtRebuild
<1>7. LookersSeeIt'
  BY <1>1, <1>2, <1>4, <1>5 DEF Clean, LookersSeeIt, Looking, Grew, AtRebuild
<1>8. \A c \in Rebuilds : Outstanding(c)' => Outstanding(c)
  BY <1>1, <1>2 DEF Outstanding
<1> QED
  BY <1>1, <1>5, <1>6, <1>7, <1>8, RebuildStays

LEMMA ListClean ==
  ASSUME Typed, Clean, NEW b \in Rebuilds, List(b), Quiet
  PROVE  Clean'
<1>1. /\ UNCHANGED <<journal, vault, index, lost, step, my>>
      /\ reb[b].step = "list" /\ Locked(b)
  BY DEF List, Quiet, AtRebuild, Locked
<1>2. /\ reb'[b].step = "read" /\ reb'[b].listed = {i \in Items : vault[i] # 0}
      /\ reb'[b].seen = reb[b].seen /\ reb'[b].same = reb[b].same
      /\ \A c \in Rebuilds \ {b} : reb'[c] = reb[c]
  BY DEF List, Carry, Typed, JournalPart, Rebuild
<1>3. \A c \in Rebuilds \ {b} : StaleAt(c) = {} /\ ~ Locked(c)
  BY <1>1, OneMakes
<1>4. (\A c \in Rebuilds : StaleAt(c)' = {}) /\ StaleNow' = StaleNow
  BY <1>1, <1>2, <1>3 DEF StaleAt, StaleNow, AtRebuild
<1>5. NoneMaking' /\ (NoneStale => NoneStale')
  BY <1>4 DEF NoneMaking, NoneStale
<1>6. OneLocked' /\ RecoversSeen'
  BY <1>1, <1>2, <1>3 DEF Clean, OneLocked, RecoversSeen, Locked, AtRebuild
<1>7. LookersSeeIt'
  BY <1>1, <1>2, <1>4, <1>5 DEF Clean, LookersSeeIt, Looking, Grew, AtRebuild
<1>8. \A c \in Rebuilds : Outstanding(c)' => Outstanding(c)
  BY <1>1, <1>2 DEF Outstanding
<1> QED
  BY <1>1, <1>5, <1>6, <1>7, <1>8, RebuildStays

LEMMA ReadClean ==
  ASSUME Typed, Clean, NEW b \in Rebuilds, Read(b), Quiet
  PROVE  Clean'
<1>1. /\ UNCHANGED <<journal, vault, index, lost, step, my>>
      /\ reb[b].step = "read" /\ Locked(b)
  BY DEF Read, Quiet, AtRebuild, Locked
<1>2. /\ reb'[b].step = "commit"
      /\ reb'[b].parsed = [i \in Items |-> IF i \in reb[b].listed THEN vault[i] ELSE 0]
      /\ reb'[b].seen = reb[b].seen /\ reb'[b].same = reb[b].same
      /\ \A c \in Rebuilds \ {b} : reb'[c] = reb[c]
  BY DEF Read, Carry, Typed, JournalPart, Rebuild
<1>3. \A c \in Rebuilds \ {b} : StaleAt(c) = {} /\ ~ Locked(c)
  BY <1>1, OneMakes
<1>4. /\ \A c \in Rebuilds \ {b} : StaleAt(c)' = {}
      /\ StaleNow' = StaleNow
  BY <1>1, <1>2, <1>3 DEF StaleAt, StaleNow, AtRebuild
<1>5. StaleAt(b)' \subseteq StaleAt(b)
  BY <1>1, <1>2 DEF StaleAt, AtRebuild
<1>6. (NoneMaking => NoneMaking') /\ (NoneStale => NoneStale')
  BY <1>4, <1>5 DEF NoneMaking, NoneStale
<1>7. OneLocked' /\ RecoversSeen'
  BY <1>1, <1>2, <1>3 DEF Clean, OneLocked, RecoversSeen, Locked, AtRebuild
<1>8. LookersSeeIt'
  BY <1>1, <1>2, <1>4, <1>6 DEF Clean, LookersSeeIt, Looking, Grew, AtRebuild
<1>9. \A c \in Rebuilds : Outstanding(c)' => Outstanding(c)
  BY <1>1, <1>2 DEF Outstanding
<1> QED
  BY <1>1, <1>6, <1>7, <1>8, <1>9, RebuildStays

LEMMA CommitIndexClean ==
  ASSUME Typed, Clean, NEW b \in Rebuilds, CommitIndex(b), Quiet
  PROVE  Clean'
<1>1. /\ UNCHANGED <<journal, vault, step, my>>
      /\ reb[b].step = "commit" /\ Locked(b) /\ index' = reb[b].parsed
      /\ lost' = {i \in lost : index'[i] # vault[i]}
  BY DEF CommitIndex, Quiet, AtRebuild, Locked
<1>2. /\ \A c \in Rebuilds \ {b} : reb'[c] = reb[c]
      /\ IF reb[b].seen = None THEN reb'[b] = Idle
         ELSE /\ reb'[b].step = "recover"
              /\ reb'[b].seen = reb[b].seen /\ reb'[b].same = reb[b].same
  BY DEF CommitIndex, Carry, Typed, JournalPart, Rebuild
<1>3. \A c \in Rebuilds \ {b} : StaleAt(c) = {} /\ ~ Locked(c)
  BY <1>1, OneMakes
<1>4. reb'[b].step \in {"idle", "recover"}
  BY <1>2, IdleIs
<1>5. NoneMaking'
  BY <1>1, <1>2, <1>3, <1>4 DEF NoneMaking, StaleAt, AtRebuild, Locked
<1>6. StaleNow' \subseteq StaleAt(b)
  BY <1>1 DEF StaleNow, StaleAt, AtRebuild
<1>7. (NoneMaking => StaleNow' = {}) /\ (NoneStale => NoneStale')
  BY <1>5, <1>6 DEF NoneMaking, NoneStale
<1>8. OneLocked' /\ RecoversSeen'
  BY <1>1, <1>2, <1>3, <1>4, IdleIs DEF Clean, OneLocked, RecoversSeen, Locked, AtRebuild
<1>9. \A c \in Rebuilds : Looking(c)' => Looking(c) /\ (Grew(c) => Grew(c)')
  BY <1>1, <1>2, IdleIs DEF Looking, Grew
<1>10. LookersSeeIt'
  BY <1>5, <1>7, <1>9 DEF Clean, LookersSeeIt
<1>11. \A c \in Rebuilds : Outstanding(c)' => Outstanding(c)
  BY <1>1, <1>2, <1>4, IdleIs DEF Outstanding
<1> QED
  BY <1>1, <1>7, <1>8, <1>10, <1>11, RebuildStays

\* A rebuild that is idle again, and whose index is committed or nobody's.
LEMMA IdleClean ==
  ASSUME Typed, Clean, NEW b \in Rebuilds, Carry(b, Idle), Quiet,
         UNCHANGED <<journal, vault, index, lost>>
  PROVE  Clean'
<1>1. reb'[b] = Idle /\ \A c \in Rebuilds \ {b} : reb'[c] = reb[c]
  BY IdleIs, Carries
<1>2. UNCHANGED <<step, my>>
  BY DEF Quiet
<1>3. (\A c \in Rebuilds : StaleAt(c)' \subseteq StaleAt(c)) /\ StaleNow' = StaleNow
  BY <1>1, IdleIs DEF StaleAt, StaleNow, AtRebuild
<1>4. (NoneMaking => NoneMaking') /\ (NoneStale => NoneStale')
  BY <1>3 DEF NoneMaking, NoneStale
<1>5. OneLocked' /\ RecoversSeen'
  BY <1>1, IdleIs DEF Clean, OneLocked, RecoversSeen, Locked, AtRebuild
<1>6. LookersSeeIt'
  BY <1>1, <1>3, <1>4, IdleIs DEF Clean, LookersSeeIt, Looking, Grew, AtRebuild
<1>7. \A c \in Rebuilds : Outstanding(c)' => Outstanding(c)
  BY <1>1, IdleIs DEF Outstanding
<1> QED
  BY <1>2, <1>4, <1>5, <1>6, <1>7, RebuildStays

LEMMA RecoverJournalsClean ==
  ASSUME Typed, Clean, NEW b \in Rebuilds, RecoverJournals(b), Quiet
  PROVE  Clean'
<1>1. UNCHANGED <<vault, index, lost, step, my>> /\ reb[b].step = "recover"
  BY DEF RecoverJournals, Quiet, AtRebuild
<1>2. CASE Unproven(b)
  BY <1>1, <1>2, IdleClean DEF RecoverJournals, Carry
<1>3. CASE ~ Unproven(b)
  <2> DEFINE all == [reb EXCEPT ![b] = Idle]
             cut == reb[b].seen.lines
             left == Compacted(cut, reb[b].listed)
  <2>1. journal \in Journal /\ reb[b].same
    BY <1>3 DEF Unproven, Typed, JournalPart
  <2>2. reb' = Replaced(all) /\ journal' = left
    BY <1>3 DEF RecoverJournals
  <2>3. all \in [Rebuilds -> Rebuild] /\ all[b] = Idle /\ \A c \in Rebuilds \ {b} : all[c] = reb[c]
    BY IdleIs DEF Typed, JournalPart
  <2> HIDE DEF all
  <2>4. /\ \A c \in Rebuilds : ~ Looking(c)'
        /\ \A c \in Rebuilds \ {b} :
             /\ reb'[c].step = reb[c].step /\ reb'[c].seen = reb[c].seen
             /\ reb'[c].listed = reb[c].listed /\ reb'[c].parsed = reb[c].parsed
        /\ reb'[b].step = "idle"
    BY <2>2, <2>3, ReplacedIs, IdleIs DEF Looking
  <2>5. /\ left # None => left.header = journal.header
        /\ Staying(cut, reb[b].listed) # {} => left # None /\ left.lines # <<>>
    BY <2>1, CompactedIs
  <2> HIDE DEF left
  <2>6. (\A c \in Rebuilds : StaleAt(c)' \subseteq StaleAt(c)) /\ StaleNow' = StaleNow
    BY <1>1, <2>4 DEF StaleAt, StaleNow, AtRebuild
  <2>7. NoneStale => NoneStale'
    BY <2>6 DEF NoneMaking, NoneStale
  <2>8. Looking(b)
    BY <1>1, <2>1 DEF Looking, Clean, RecoversSeen, AtRebuild
  <2>9. NoneStale \/ Grew(b)
    BY <1>1, <2>8 DEF Clean, LookersSeeIt, NoneStale, AtRebuild
  <2>10. Grew(b) => left # None /\ left.lines # <<>>
    <3> SUFFICES ASSUME Grew(b) PROVE Staying(cut, reb[b].listed) # {}
      BY <2>5
    <3>1. reb[b].seen \in Seen /\ journal.lines \in Seq(Items)
      BY <2>1, <2>8 DEF Looking, Typed, JournalPart, Rebuild, Journal
    <3>2. cut \in Nat /\ Len(journal.lines) \in Nat /\ Len(journal.lines) > cut
      BY <3>1 DEF Seen, Grew
    <3>3. Len(journal.lines) \in DOMAIN journal.lines
      BY <3>1, <3>2
    <3>4. ~ (Len(journal.lines) <= cut)
      BY <3>2
    <3> QED
      BY <3>3, <3>4 DEF Staying
  <2>11. Dirty' /\ RetiringHasLines'
    BY <2>2, <2>7, <2>9, <2>10 DEF Dirty, RetiringHasLines
  <2>12. OneLocked' /\ RecoversSeen' /\ LookersSeeIt'
    BY <2>4 DEF Clean, OneLocked, RecoversSeen, Locked, AtRebuild, LookersSeeIt
  <2>13. Overlooked
    BY <2>8 DEF Overlooked, Outstanding, Looking
  <2>14. ASSUME NEW q \in Runs PROVE Own(q)'
    <3>1. Own(q)
      BY DEF Clean
    <3>2. journal' # None => journal'.header = journal.header /\ journal # None
      BY <2>1, <2>2, <2>5, Journals
    <3> QED
      BY <1>1, <2>7, <2>13, <3>1, <3>2 DEF Own, Active, At
  <2> QED
    BY <2>11, <2>12, <2>14 DEF Clean
<1> QED
  BY <1>2, <1>3

LEMMA StepClean ==
  ASSUME Typed, Clean, [Next]_vars
  PROVE  Clean'
<1>1. CASE UNCHANGED vars
  BY <1>1 DEF vars, ingest, Clean, OneLocked, Dirty, LookersSeeIt, RecoversSeen,
              RetiringHasLines, Own, Overlooked, Outstanding, Active, At, AtRebuild, Locked,
              Looking, Grew, NoneStale, NoneMaking, StaleAt, StaleNow
<1>2. CASE ItemChanges \/ HistoryExpires
  BY <1>2 DEF ItemChanges, HistoryExpires, ingest, Clean, OneLocked, Dirty, LookersSeeIt,
              RecoversSeen, RetiringHasLines, Own, Overlooked, Outstanding, Active, At,
              AtRebuild, Locked, Looking, Grew, NoneStale, NoneMaking, StaleAt, StaleNow
<1>3. ASSUME NEW b \in Rebuilds, RebuildStep(b), Quiet PROVE Clean'
  BY <1>3, BeginRebuildClean, StatClean, ListClean, ReadClean, CommitIndexClean,
     RecoverJournalsClean DEF RebuildStep
<1>4. ASSUME NEW b \in Rebuilds, AbandonRebuild(b), Quiet PROVE Clean'
  BY <1>4, IdleClean DEF AbandonRebuild
<1>5. ASSUME NEW r \in Runs, RunStep(r) PROVE Clean'
  <2>1. CASE LoadStatus(r)
    <3> DEFINE mine == [my[r] EXCEPT
                  !.st = [status EXCEPT !.dropped = @ /\ status.token # 0],
                  !.history = ~ Resuming /\ status.cursor # 0,
                  !.next = IF Resuming /\ status.pending # 0 THEN status.pending
                           ELSE status.cursor]
    <3>1. my'[r] = mine /\ my'[r] \in Carried
      BY <2>1, LoadStatusRuns DEF LoadStatus, Keep, Typed, RunPart
    <3>2. mine.late = my[r].late /\ mine.begun = my[r].begun
      BY Mine DEF Carried
    <3> HIDE DEF mine
    <3>3. Active(r) /\ ~ At(r, "header") /\ Goto(r, "fetch") /\ Keep(r, my'[r])
          /\ UNCHANGED <<vault, index, reb, lost, journal>>
      BY <2>1, <3>1 DEF LoadStatus, Active, At, ingest, mine
    <3> QED
      BY <3>1, <3>2, <3>3, WalkStays DEF Steps
  <2>2. CASE FetchPage(r)
    <3>1. /\ Active(r) /\ ~ At(r, "header") /\ Goto(r, "item") /\ Keep(r, my'[r])
          /\ my'[r] \in Carried /\ my'[r].late = my[r].late /\ my'[r].begun = my[r].begun
      BY <2>2, FetchPageIs DEF At
    <3>2. UNCHANGED <<vault, index, reb, lost, journal>>
      BY <2>2 DEF FetchPage, ingest
    <3> QED
      BY <3>1, <3>2, WalkStays DEF Steps
  <2>3. CASE FallBack(r)
    <3> DEFINE mine == [my[r] EXCEPT !.history = FALSE, !.next = 0,
                             !.st = [NoStatus EXCEPT !.walks = my[r].st.walks]]
    <3>1. my'[r] = mine /\ my'[r] \in Carried
      BY <2>3, FallBackRuns DEF FallBack, Keep, Typed, RunPart
    <3>2. mine.late = my[r].late /\ mine.begun = my[r].begun
      BY Mine DEF Carried
    <3> HIDE DEF mine
    <3>3. Active(r) /\ ~ At(r, "header") /\ Goto(r, "fetch") /\ Keep(r, my'[r])
          /\ UNCHANGED <<vault, index, reb, lost, journal>>
      BY <2>3, <3>1 DEF FallBack, Active, At, ingest, Goto, Typed, RunPart, mine
    <3> QED
      BY <3>1, <3>2, <3>3, WalkStays DEF Steps
  <2>4. CASE Unchanged(r)
    <3>1. Active(r) /\ ~ At(r, "header") /\ Goto(r, "turn") /\ Keep(r, my'[r])
          /\ my'[r] = my[r] /\ UNCHANGED <<vault, index, reb, lost, journal>>
      BY <2>4 DEF Unchanged, Active, At, ingest, Keep, Typed, RunPart
    <3> QED
      BY <3>1, Mine, WalkStays DEF Steps
  <2>5. CASE TurnPage(r)
    <3>1. /\ Active(r) /\ ~ At(r, "header") /\ Keep(r, my'[r])
          /\ my'[r] \in Carried /\ my'[r].late = my[r].late /\ my'[r].begun = my[r].begun
      BY <2>5, TurnPageIs DEF At
    <3>2. PICK s \in {"fetch", "save"} : Goto(r, s)
      BY <2>5, TurnPageIs
    <3>3. UNCHANGED <<vault, index, reb, lost, journal>>
      BY <2>5 DEF TurnPage, disk
    <3> QED
      BY <3>1, <3>2, <3>3, WalkStays DEF Steps
  <2>6. CASE FinishWalk(r)
    <3>1. /\ Active(r) /\ ~ At(r, "header") /\ Keep(r, my'[r]) /\ Goto(r, "save")
          /\ my'[r] \in Carried /\ my'[r].late = my[r].late /\ my'[r].begun = my[r].begun
      BY <2>6, FinishWalkIs DEF At
    <3>2. UNCHANGED <<vault, index, reb, lost, journal>>
      BY <2>6 DEF FinishWalk, ingest
    <3> QED
      BY <3>1, <3>2, WalkStays DEF Steps
  <2> QED
    BY <1>5, <2>1, <2>2, <2>3, <2>4, <2>5, <2>6, EnsureHeaderClean, StartPublishClean,
       WriteItemClean, RecordLineClean, PersistStatusClean, ReleaseUnpublishedClean,
       RetireUnpublishedClean DEF RunStep
<1>6. ASSUME NEW r \in Runs, Interrupt(r) PROVE Clean'
  <2> DEFINE mine == [my[r] EXCEPT !.st.history = my[r].history]
  <2>1. my'[r] = mine /\ my'[r] \in Carried
    BY <1>6, InterruptRuns DEF Interrupt, Keep, Typed, RunPart
  <2>2. mine.late = my[r].late /\ mine.begun = my[r].begun
    BY Mine DEF Carried
  <2> HIDE DEF mine
  <2>3. Active(r) /\ ~ At(r, "header") /\ Goto(r, "save") /\ Keep(r, my'[r])
        /\ UNCHANGED <<vault, index, reb, lost, journal>>
    BY <1>6, <2>1 DEF Interrupt, Active, At, disk, mine
  <2> QED
    BY <2>1, <2>2, <2>3, WalkStays DEF Steps
<1> QED
  BY <1>1, <1>2, <1>3, <1>4, <1>5, <1>6, AcquireClean, DropItemClean, CrashClean DEF Next

LEMMA InitClean ==
  ASSUME Init
  PROVE  Clean
  BY IdleIs DEF Init, JournalInit, Clean, OneLocked, Dirty, LookersSeeIt, RecoversSeen,
                RetiringHasLines, Own, Overlooked, Outstanding, Active, At, AtRebuild, Locked,
                Looking, NoneStale, NoneMaking, StaleAt, StaleNow

\* An index that reads clean has every published file at its version, except files
\* of a run that began when a rebuild or a retirement had already looked at the
\* lease: however runs publish, fail and die, and rebuilds list, read and compact.
THEOREM CleanIndexIsRight == Spec => []NeverFalselyClean
<1>1. Init => Typed /\ Clean
  BY InitTyped, InitClean
<1>2. Typed /\ Clean /\ [Next]_vars => Typed' /\ Clean'
  BY StepTyped, StepClean
<1>3. Clean => NeverFalselyClean
  BY CleanIsSafe
<1> QED
  BY <1>1, <1>2, <1>3, PTL DEF Spec

-----------------------------------------------------------------------------
(* The cursor is honest.                                                    *)

\* Cursors, tokens and pages all claim that some version of each item is in the
\* vault.  A write of an older page would break the claim of a newer one; Timely
\* says there is none.

\* The vault has every change before position n.
Honest(n) == \A i \in Items \ skipped : Ver(log, i, n) <= vault[i]

\* The item has version v, or the walk dropped it and knows.
Met(i, st, v) == v <= vault[i] \/ (st.dropped /\ i \in missed)
\* What a status with a page token says is done: the positions of the history
\* before the token, or the items before it as the mailbox was at its baseline.
Need(i, st, history) ==
  IF history THEN Ver(log, i, st.token - 1)
  ELSE IF i < st.token THEN Ver(log, i, st.pending) ELSE 0
\* A walk of a history that expired will be given up.
Covers(st, history) ==
  st.token # 0 /\ (history => horizon <= st.cursor) =>
    \A i \in Items \ skipped : Met(i, st, Need(i, st, history))

\* The position the page takes the walk to, and what is done up to the page's end.
Mark(r) == IF my[r].history /\ my[r].page.more # 0 THEN my[r].page.more - 1 ELSE my[r].next
Passed(i, r) ==
  IF my[r].history \/ my[r].page.more = 0 \/ i < my[r].page.more
  THEN Ver(log, i, Mark(r)) ELSE 0
Ahead(r) ==
  \A i \in Items \ skipped :
    (step[r] \in {"item", "write"} => i # my[r].page.item) => Met(i, my[r].st, Passed(i, r))

\* Every position that the run or the disk says the walk has come from or goes to.
Marks(r) ==
  {status.cursor, status.pending, my[r].st.cursor, my[r].st.pending, my[r].next, Mark(r)}
  \cup (IF status.history /\ status.token # 0 THEN {status.token - 1} ELSE {})
  \cup (IF my[r].history /\ my[r].st.token # 0 THEN {my[r].st.token - 1} ELSE {})
\* The page was fetched after all of them.
Timely(r) ==
  LET i == my[r].page.item
      v == my[r].page.version
  IN  i # 0 => /\ vault[i] <= v /\ v <= Ver(log, i, Len(log))
               /\ \A n \in Marks(r) : Ver(log, i, n) <= v

Walk(r) ==
  /\ Walking(r) \/ At(r, "save") => Honest(my[r].st.cursor) /\ Covers(my[r].st, Mode(r))
  /\ Handling(r) => Ahead(r)
  /\ step[r] \in {"item", "write"} => Timely(r)

Kept ==
  /\ \A i \in Items : vault[i] <= Ver(log, i, Len(log))
  /\ Honest(status.cursor) /\ Covers(status, status.history)
  /\ \A r \in Runs : Walk(r)

LEMMA KeptIsHonest ==
  ASSUME Typed, Kept
  PROVE  CursorIsHonest
<1>1. \A i \in Items \ skipped : VersionAt(i, status.cursor) <= vault[i]
  BY VersionIsVer DEF Kept, Honest
<1>2. status.cursor \in Nat
  BY OnDisk, Logged DEF Positions
<1>3. \A i \in Items : vault[i] \in Nat /\ VersionAt(i, status.cursor) \in Nat
  BY <1>2, VersionIsVer, VerIs DEF Typed, JournalPart
<1> QED
  BY <1>1, <1>3 DEF CursorIsHonest

\* Nobody but r walks.
LEMMA OthersIdle ==
  ASSUME Typed, NEW r \in Runs, Active(r), \A q \in Runs \ {r} : step'[q] = step[q]
  PROVE  \A q \in Runs \ {r} : Walk(q)'
<1>1. \A q \in Runs \ {r} : step'[q] \in {"begin", "retire"}
  BY Alone
<1> QED
  BY <1>1 DEF Walk, Walking, Handling, At

\* A step of which no walk notices anything.
LEMMA Unnoticed ==
  ASSUME Typed, Kept, UNCHANGED <<vault, status, log, horizon, missed, skipped>>,
         \A r \in Runs : (Walking(r) \/ At(r, "save"))' =>
            step'[r] = step[r] /\ my'[r] = my[r]
  PROVE  Kept'
<1>1. ASSUME NEW r \in Runs, (Walking(r) \/ At(r, "save"))' PROVE Walk(r)'
  <2>1. step'[r] = step[r] /\ my'[r] = my[r] /\ Walk(r)
    BY <1>1 DEF Kept
  <2> QED
    BY <2>1 DEF Walk, Walking, Handling, At, Honest, Covers, Met, Need, Mode, Ahead, Passed,
                Mark, Timely, Marks
<1>2. ASSUME NEW r \in Runs, ~ (Walking(r) \/ At(r, "save"))' PROVE Walk(r)'
  BY <1>2 DEF Walk, Walking, Handling, At
<1>3. Honest(status.cursor)' /\ Covers(status, status.history)'
  BY DEF Kept, Honest, Covers, Met, Need
<1> QED
  BY <1>1, <1>2, <1>3 DEF Kept

LEMMA LoadStatusKept ==
  ASSUME Typed, Kept, NEW r \in Runs, LoadStatus(r)
  PROVE  Kept'
<1> DEFINE st == [status EXCEPT !.dropped = @ /\ status.token # 0]
           next == IF Resuming /\ status.pending # 0 THEN status.pending ELSE status.cursor
           mine == [my[r] EXCEPT !.st = st, !.history = ~ Resuming /\ status.cursor # 0,
                                 !.next = next]
<1>1. mine \in Carried
  <2>1. st \in Status /\ next \in Positions /\ (~ Resuming /\ status.cursor # 0) \in BOOLEAN
    BY OnDisk DEF Status, Resuming
  <2> HIDE DEF st, next
  <2> QED
    BY <2>1, Mine DEF Carried
<1>2. /\ my'[r] = mine /\ step'[r] = "fetch" /\ Active(r)
      /\ \A q \in Runs \ {r} : step'[q] = step[q]
  BY <1>1, Moves DEF LoadStatus, Steps, Active, At
<1>3. /\ mine.st.cursor = status.cursor /\ mine.st.token = status.token
      /\ mine.st.pending = status.pending
      /\ mine.st.dropped = (status.dropped /\ status.token # 0)
      /\ mine.history = (~ Resuming /\ status.cursor # 0)
  BY Mine, OnDisk DEF Carried, Status
<1> HIDE DEF mine
<1>4. /\ UNCHANGED <<vault, status, log, horizon, skipped>>
      /\ missed' = IF status.token = 0 THEN {} ELSE missed
  BY DEF LoadStatus, ingest, source
<1>5. status.token # 0 => mine.history = status.history
  BY <1>3, OnDisk DEF Typed, RunPart, Fit, Resuming
<1>6. Honest(status.cursor)' /\ Covers(status, status.history)'
  BY <1>4 DEF Kept, Honest, Covers, Met, Need
<1>7. Walk(r)'
  <2>1. Walking(r)' /\ ~ At(r, "save")' /\ ~ Handling(r)' /\ step'[r] \notin {"item", "write"}
    BY <1>2 DEF Walking, At, Handling
  <2>2. Honest(my[r].st.cursor)'
    BY <1>2, <1>3, <1>4, <1>6 DEF Honest
  <2>3. Covers(my[r].st, my[r].history)'
    BY <1>2, <1>3, <1>4, <1>5, <1>6 DEF Covers, Met, Need
  <2> QED
    BY <2>1, <2>2, <2>3 DEF Walk, Mode
<1>8. \A q \in Runs \ {r} : Walk(q)'
  BY <1>2, OthersIdle
<1>9. \A i \in Items : vault'[i] <= Ver(log', i, Len(log'))
  BY <1>4 DEF Kept
<1> QED
  BY <1>6, <1>7, <1>8, <1>9 DEF Kept

LEMMA FallBackKept ==
  ASSUME Typed, Kept, NEW r \in Runs, FallBack(r)
  PROVE  Kept'
<1> DEFINE st == [NoStatus EXCEPT !.walks = my[r].st.walks]
           mine == [my[r] EXCEPT !.history = FALSE, !.next = 0, !.st = st]
<1>1. mine \in Carried
  <2>1. NoStatus \in Status /\ my[r].st.walks \in 0..(MaxDropped - 1) /\ 0 \in Positions
    BY Logged, Empties, Mine DEF Positions
  <2>2. st \in Status
    BY <2>1 DEF Status
  <2> HIDE DEF st
  <2> QED
    BY <2>1, <2>2, Mine DEF Carried
<1>2. /\ my'[r] = mine /\ step[r] = "fetch" /\ UNCHANGED step /\ Active(r) /\ Expired(r)
  BY <1>1 DEF FallBack, Keep, Active, At, Typed, RunPart
<1>3. mine.st.cursor = 0 /\ mine.st.token = 0
  BY Mine DEF Carried, NoStatus
<1> HIDE DEF mine
<1>4. UNCHANGED <<vault, status, log, horizon, skipped>> /\ missed' = {}
  BY DEF FallBack, ingest, source
<1>5. status.token # 0 => status.history /\ ~ (horizon <= status.cursor)
  <2>1. Sane(r) /\ Walking(r) /\ my[r].history /\ my[r].st.cursor < horizon
    BY <1>2 DEF Typed, RunPart, Walking, Expired
  <2>2. my[r].st.cursor \in Nat /\ horizon \in Nat
    BY Mine, Logged DEF Positions, Typed, SourcePart
  <2> QED
    BY <2>1, <2>2 DEF Sane
<1>6. Honest(status.cursor)' /\ Covers(status, status.history)'
  BY <1>4, <1>5 DEF Kept, Honest, Covers
<1>7. Walk(r)'
  <2>1. Walking(r)' /\ ~ At(r, "save")' /\ ~ Handling(r)' /\ step'[r] \notin {"item", "write"}
    BY <1>2 DEF Walking, At, Handling
  <2>2. \A i \in Items : vault[i] \in Nat /\ Ver(log, i, 0) = 0
    BY VerZero DEF Typed, JournalPart
  <2>3. Honest(my[r].st.cursor)'
    BY <1>2, <1>3, <1>4, <2>2 DEF Honest
  <2>4. Covers(my[r].st, my[r].history)'
    BY <1>2, <1>3 DEF Covers
  <2> QED
    BY <2>1, <2>3, <2>4 DEF Walk, Mode
<1>8. \A q \in Runs \ {r} : Walk(q)'
  BY <1>2, OthersIdle
<1>9. \A i \in Items : vault'[i] <= Ver(log', i, Len(log'))
  BY <1>4 DEF Kept
<1> QED
  BY <1>6, <1>7, <1>8, <1>9 DEF Kept

LEMMA InterruptKept ==
  ASSUME Typed, Kept, NEW r \in Runs, Interrupt(r)
  PROVE  Kept'
<1> DEFINE mine == [my[r] EXCEPT !.st.history = my[r].history]
<1>1. /\ mine \in Carried /\ mine.st.history = my[r].history
      /\ mine.st.cursor = my[r].st.cursor /\ mine.st.token = my[r].st.token
      /\ mine.st.pending = my[r].st.pending /\ mine.st.dropped = my[r].st.dropped
  <2>1. [my[r].st EXCEPT !.history = my[r].history] \in Status
    BY Mine DEF Status
  <2> QED
    BY <2>1, Mine DEF Carried, Status
<1> HIDE DEF mine
<1>2. /\ my'[r] = mine /\ step'[r] = "save" /\ Active(r) /\ Walking(r)
      /\ \A q \in Runs \ {r} : step'[q] = step[q]
  BY <1>1, Moves DEF Interrupt, Steps, Active, Walking, mine
<1>3. UNCHANGED <<vault, status, log, horizon, skipped, missed>>
  BY DEF Interrupt, disk, source, past
<1>4. Honest(status.cursor)' /\ Covers(status, status.history)'
  BY <1>3 DEF Kept, Honest, Covers, Met, Need
<1>5. Walk(r)'
  <2>1. ~ Walking(r)' /\ At(r, "save")' /\ ~ Handling(r)' /\ step'[r] \notin {"item", "write"}
    BY <1>2 DEF Walking, At, Handling
  <2>2. Honest(my[r].st.cursor) /\ Covers(my[r].st, my[r].history)
    BY <1>2 DEF Kept, Walk, Mode, Walking, At
  <2>3. Honest(my[r].st.cursor)' /\ Covers(my[r].st, my[r].st.history)'
    BY <1>1, <1>2, <1>3, <2>2 DEF Honest, Covers, Met, Need
  <2> QED
    BY <2>1, <2>3 DEF Walk, Mode
<1>6. \A q \in Runs \ {r} : Walk(q)'
  BY <1>2, OthersIdle
<1>7. \A i \in Items : vault'[i] <= Ver(log', i, Len(log'))
  BY <1>3 DEF Kept
<1> QED
  BY <1>4, <1>5, <1>6, <1>7 DEF Kept

LEMMA StartPublishKept ==
  ASSUME Typed, Kept, NEW r \in Runs, StartPublish(r)
  PROVE  Kept'
<1> DEFINE mine == [my[r] EXCEPT !.begun = TRUE]
<1>1. /\ mine \in Carried /\ mine.st = my[r].st /\ mine.history = my[r].history
      /\ mine.next = my[r].next /\ mine.page = my[r].page
  BY Mine DEF Carried
<1> HIDE DEF mine
<1>2. /\ my'[r] = mine /\ step'[r] = "write" /\ step[r] = "item" /\ Active(r)
      /\ \A q \in Runs \ {r} : step'[q] = step[q]
  BY <1>1, Moves DEF StartPublish, Steps, Active, At, mine
<1>3. UNCHANGED <<vault, status, log, horizon, skipped, missed>>
  BY DEF StartPublish, source, past
<1>4. Walk(r)
  BY DEF Kept
<1>5. Honest(status.cursor)' /\ Covers(status, status.history)'
  BY <1>3 DEF Kept, Honest, Covers, Met, Need
<1>6. Walk(r)'
  BY <1>1, <1>2, <1>3, <1>4 DEF Walk, Walking, Handling, At, Honest, Covers, Met, Need, Mode,
                                Ahead, Passed, Mark, Timely, Marks
<1>7. \A q \in Runs \ {r} : Walk(q)'
  BY <1>2, OthersIdle
<1>8. \A i \in Items : vault'[i] <= Ver(log', i, Len(log'))
  BY <1>3 DEF Kept
<1> QED
  BY <1>5, <1>6, <1>7, <1>8 DEF Kept

LEMMA DropItemKept ==
  ASSUME Typed, Kept, NEW r \in Runs, DropItem(r)
  PROVE  Kept'
<1> DEFINE mine == [my[r] EXCEPT !.st.dropped = TRUE]
           i == my[r].page.item
<1>1. /\ mine \in Carried /\ mine.st.history = my[r].st.history /\ mine.st.dropped
      /\ mine.st.cursor = my[r].st.cursor /\ mine.st.token = my[r].st.token
      /\ mine.st.pending = my[r].st.pending
      /\ mine.history = my[r].history /\ mine.next = my[r].next /\ mine.page = my[r].page
  <2>1. [my[r].st EXCEPT !.dropped = TRUE] \in Status
    BY Mine DEF Status
  <2> QED
    BY <2>1, Mine DEF Carried, Status
<1> HIDE DEF mine
<1>2. /\ my'[r] = mine /\ step'[r] = "turn" /\ step[r] \in {"item", "write"} /\ Active(r)
      /\ \A q \in Runs \ {r} : step'[q] = step[q]
  BY <1>1, Moves DEF DropItem, Steps, Active, At, mine
<1>3. UNCHANGED <<vault, status, log, horizon, skipped>> /\ missed' = missed \cup {i}
  BY DEF DropItem, source, ThePage
<1>4. /\ Honest(my[r].st.cursor) /\ Covers(my[r].st, my[r].history) /\ Ahead(r)
  BY <1>2 DEF Kept, Walk, Walking, Handling, Mode, At
<1>5. Honest(status.cursor)' /\ Covers(status, status.history)'
  BY <1>3 DEF Kept, Honest, Covers, Met, Need
<1>6. Walk(r)'
  <2>1. Walking(r)' /\ ~ At(r, "save")' /\ step'[r] \notin {"item", "write"}
    BY <1>2 DEF Walking, At, Handling
  <2>2. Honest(my[r].st.cursor)'
    BY <1>1, <1>2, <1>3, <1>4 DEF Honest
  <2>3. Covers(my[r].st, my[r].history)'
    BY <1>1, <1>2, <1>3, <1>4 DEF Covers, Met, Need
  <2>4. \A j : Passed(j, r)' = Passed(j, r)
    BY <1>1, <1>2, <1>3 DEF Passed, Mark
  <2>5. Ahead(r)'
    BY <1>1, <1>2, <1>3, <1>4, <2>4 DEF Ahead, Met
  <2> QED
    BY <2>1, <2>2, <2>3, <2>5 DEF Walk, Mode
<1>7. \A q \in Runs \ {r} : Walk(q)'
  BY <1>2, OthersIdle
<1>8. \A j \in Items : vault'[j] <= Ver(log', j, Len(log'))
  BY <1>3 DEF Kept
<1> QED
  BY <1>5, <1>6, <1>7, <1>8 DEF Kept

LEMMA RecordLineKept ==
  ASSUME Typed, Kept, NEW r \in Runs, RecordLine(r)
  PROVE  Kept'
<1>1. /\ UNCHANGED my /\ step'[r] = "turn" /\ step[r] = "line" /\ Active(r)
      /\ \A q \in Runs \ {r} : step'[q] = step[q]
  BY DEF RecordLine, Goto, At, Typed, RunPart, Active
<1>2. UNCHANGED <<vault, status, log, horizon, skipped, missed>>
  BY DEF RecordLine, source, past
<1>3. Walk(r)
  BY DEF Kept
<1>4. Honest(status.cursor)' /\ Covers(status, status.history)'
  BY <1>2 DEF Kept, Honest, Covers, Met, Need
<1>5. Walk(r)'
  BY <1>1, <1>2, <1>3 DEF Walk, Walking, Handling, At, Honest, Covers, Met, Need, Mode,
                          Ahead, Passed, Mark
<1>6. \A q \in Runs \ {r} : Walk(q)'
  BY <1>1, OthersIdle
<1>7. \A i \in Items : vault'[i] <= Ver(log', i, Len(log'))
  BY <1>2 DEF Kept
<1> QED
  BY <1>4, <1>5, <1>6, <1>7 DEF Kept

\* The item of the page has the page's version.
LEMMA HandledKept ==
  ASSUME Typed, Kept, NEW r \in Runs, step[r] \in {"item", "write"},
         my'[r].st = my[r].st, my'[r].history = my[r].history, my'[r].next = my[r].next,
         my'[r].page = my[r].page, step'[r] \in {"line", "turn"},
         \A q \in Runs \ {r} : step'[q] = step[q],
         UNCHANGED <<status, log, horizon>>,
         \A j \in Items : vault'[j] = IF j = my[r].page.item THEN my[r].page.version
                                      ELSE vault[j],
         missed' = missed \ {my[r].page.item}, skipped' = skipped \ {my[r].page.item}
  PROVE  Kept'
<1> DEFINE i == my[r].page.item
           v == my[r].page.version
<1>1. Active(r) /\ Walking(r) /\ Handling(r) /\ ~ At(r, "save") /\ i \in {0} \cup Items
  BY Mine DEF Active, Walking, Handling, At
<1>2. /\ Honest(my[r].st.cursor) /\ Covers(my[r].st, my[r].history) /\ Ahead(r) /\ Timely(r)
  BY <1>1 DEF Kept, Walk, Mode
<1>3. i # 0 => /\ v <= Ver(log, i, Len(log)) /\ v \in Nat
               /\ \A n \in Marks(r) : Ver(log, i, n) <= v
  BY <1>2, Mine, Logged DEF Timely, Positions
<1>4. /\ 0 \notin Items /\ status.cursor \in Marks(r) /\ status.pending \in Marks(r)
      /\ my[r].st.cursor \in Marks(r) /\ my[r].st.pending \in Marks(r) /\ Mark(r) \in Marks(r)
      /\ status.history /\ status.token # 0 => status.token - 1 \in Marks(r)
      /\ my[r].history /\ my[r].st.token # 0 => my[r].st.token - 1 \in Marks(r)
  BY DEF Items, Marks
<1>5. \A n \in Marks(r) : Honest(n) => \A j \in Items \ skipped' : Ver(log, j, n) <= vault'[j]
  BY <1>3, <1>4 DEF Honest
<1>6. Honest(status.cursor)' /\ Honest(my[r].st.cursor)'
  BY <1>2, <1>4, <1>5 DEF Kept, Honest
<1>7. Covers(status, status.history)'
  <2> SUFFICES ASSUME status.token # 0, status.history => horizon <= status.cursor,
                      NEW j \in Items \ skipped'
               PROVE  Met(j, status, Need(j, status, status.history))'
    BY DEF Covers
  <2>1. CASE j # i
    BY <2>1 DEF Kept, Covers, Met, Need
  <2>2. CASE j = i
    <3>1. Need(i, status, status.history) <= v
      BY <1>3, <1>4, <2>2 DEF Need
    <3> QED
      BY <2>2, <3>1 DEF Met, Need
  <2> QED
    BY <2>1, <2>2
<1>8. Covers(my[r].st, my[r].history)'
  <2> SUFFICES ASSUME my[r].st.token # 0, my[r].history => horizon <= my[r].st.cursor,
                      NEW j \in Items \ skipped'
               PROVE  Met(j, my[r].st, Need(j, my[r].st, my[r].history))'
    BY DEF Covers
  <2>1. CASE j # i
    BY <1>2, <2>1 DEF Covers, Met, Need
  <2>2. CASE j = i
    <3>1. Need(i, my[r].st, my[r].history) <= v
      BY <1>3, <1>4, <2>2 DEF Need
    <3> QED
      BY <2>2, <3>1 DEF Met, Need
  <2> QED
    BY <2>1, <2>2
<1>9. Ahead(r)'
  <2>1. \A j : Passed(j, r)' = Passed(j, r)
    BY DEF Passed, Mark
  <2> SUFFICES ASSUME NEW j \in Items \ skipped'
               PROVE  Met(j, my[r].st, Passed(j, r))'
    BY DEF Ahead
  <2>2. CASE j # i
    BY <1>2, <2>1, <2>2 DEF Ahead, Met
  <2>3. CASE j = i
    <3>1. Passed(i, r) <= v
      BY <1>3, <1>4, <2>3 DEF Passed
    <3> QED
      BY <2>1, <2>3, <3>1 DEF Met
  <2> QED
    BY <2>2, <2>3
<1>10. Walk(r)'
  <2>1. ~ At(r, "save")' /\ step'[r] \notin {"item", "write"}
    BY DEF At
  <2> QED
    BY <1>6, <1>8, <1>9, <2>1 DEF Walk, Mode
<1>11. \A q \in Runs \ {r} : Walk(q)'
  BY <1>1, OthersIdle
<1>12. \A j \in Items : vault'[j] <= Ver(log', j, Len(log'))
  BY <1>3, <1>4 DEF Kept
<1> QED
  BY <1>6, <1>7, <1>10, <1>11, <1>12 DEF Kept

LEMMA UnchangedKept ==
  ASSUME Typed, Kept, NEW r \in Runs, Unchanged(r)
  PROVE  Kept'
<1>1. /\ UNCHANGED <<my, status, log, horizon, vault>> /\ step'[r] = "turn" /\ step[r] = "item"
      /\ \A q \in Runs \ {r} : step'[q] = step[q]
  BY DEF Unchanged, Goto, At, Typed, RunPart, ingest, source
<1>2. \A j \in Items : vault'[j] = IF j = my[r].page.item THEN my[r].page.version
                                   ELSE vault[j]
  BY <1>1 DEF Unchanged, ThePage, Items
<1> QED
  BY <1>1, <1>2, HandledKept DEF Unchanged, ThePage

LEMMA WriteItemKept ==
  ASSUME Typed, Kept, NEW r \in Runs, WriteItem(r)
  PROVE  Kept'
<1> DEFINE mine == [my[r] EXCEPT !.made = TRUE]
<1>1. /\ mine \in Carried /\ mine.st = my[r].st /\ mine.history = my[r].history
      /\ mine.next = my[r].next /\ mine.page = my[r].page
  BY Mine DEF Carried
<1>2. /\ my'[r] = mine /\ step'[r] = "line" /\ step[r] = "write"
      /\ \A q \in Runs \ {r} : step'[q] = step[q]
  BY <1>1, Moves DEF WriteItem, Steps, At
<1>3. \A j \in Items : vault'[j] = IF j = my[r].page.item THEN my[r].page.version
                                   ELSE vault[j]
  BY DEF WriteItem, ThePage, Typed, JournalPart
<1>4. UNCHANGED <<status, log, horizon>>
  BY DEF WriteItem, source
<1> QED
  BY <1>1, <1>2, <1>3, <1>4, HandledKept DEF WriteItem, ThePage

LEMMA TurnPageKept ==
  ASSUME Typed, Kept, NEW r \in Runs, TurnPage(r)
  PROVE  Kept'
<1>1. /\ Active(r) /\ Handling(r) /\ At(r, "turn") /\ my[r].page.more # 0
      /\ my'[r].history = my[r].history /\ my'[r].next = my[r].next
      /\ my'[r].st.token = my[r].page.more /\ my'[r].st.history = my[r].history
      /\ my'[r].st.cursor = my[r].st.cursor /\ my'[r].st.pending = my[r].st.pending
      /\ my'[r].st.dropped = my[r].st.dropped
  BY TurnPageIs
<1>2. PICK s \in {"fetch", "save"} : /\ Goto(r, s) /\ step'[r] = s
                                     /\ s = "fetch" => status' = my'[r].st
                                     /\ s = "save" => status' = status
  BY TurnPageIs
<1>3. \A q \in Runs \ {r} : step'[q] = step[q]
  BY <1>2 DEF Goto, Typed, RunPart
<1>4. UNCHANGED <<vault, log, horizon, skipped, missed>>
  BY DEF TurnPage, disk, source, past
<1>5. Honest(my[r].st.cursor) /\ Ahead(r) /\ step[r] = "turn"
  BY <1>1 DEF Kept, Walk, Handling, Walking, At
<1>6. ~ my[r].history => my[r].next = my[r].st.pending
  BY <1>1 DEF Typed, RunPart, Sane
<1>7. \A i \in Items \ skipped : Met(i, my[r].st, Passed(i, r))
  BY <1>5 DEF Ahead
<1>8. \A i \in Items \ skipped : Need(i, my'[r].st, my[r].history) = Passed(i, r)
  BY <1>1, <1>6 DEF Need, Passed, Mark
<1>9. \A i \in Items \ skipped :
        Passed(i, r) <= vault'[i] \/ (my'[r].st.dropped /\ i \in missed')
  BY <1>1, <1>4, <1>7 DEF Met
<1>10. Honest(my[r].st.cursor)' /\ Covers(my[r].st, my[r].history)'
  BY <1>1, <1>4, <1>5, <1>8, <1>9 DEF Honest, Covers, Met, Need
<1>11. Walk(r)'
  <2>1. ~ Handling(r)' /\ step'[r] \notin {"item", "write"}
    BY <1>2 DEF Handling
  <2>2. Mode(r)' = my'[r].history
    BY <1>1 DEF Mode
  <2> QED
    BY <1>10, <2>1, <2>2 DEF Walk
<1>12. Honest(status.cursor)' /\ Covers(status, status.history)'
  <2>1. CASE s = "fetch"
    BY <1>1, <1>2, <1>10, <2>1 DEF Honest, Covers, Met, Need
  <2>2. CASE s = "save"
    BY <1>2, <1>4, <2>2 DEF Kept, Honest, Covers, Met, Need
  <2> QED
    BY <2>1, <2>2
<1>13. \A q \in Runs \ {r} : Walk(q)'
  BY <1>1, <1>3, OthersIdle
<1>14. \A i \in Items : vault'[i] <= Ver(log', i, Len(log'))
  BY <1>4 DEF Kept
<1> QED
  BY <1>11, <1>12, <1>13, <1>14 DEF Kept

LEMMA FinishWalkKept ==
  ASSUME Typed, Kept, NEW r \in Runs, FinishWalk(r)
  PROVE  Kept'
<1>1. /\ Active(r) /\ Handling(r) /\ step[r] = "turn" /\ my[r].page.more = 0
      /\ Goto(r, "save") /\ step'[r] = "save"
      /\ my'[r].st = Walked(my[r].st, my[r].next)
  BY FinishWalkIs DEF At
<1>2. /\ my'[r].st.token = 0
      /\ my'[r].st.cursor = (IF my[r].st.dropped /\ ~ GaveUp(my[r].st)
                             THEN my[r].st.cursor ELSE my[r].next)
  BY <1>1, WalkedIs
<1>3. \A q \in Runs \ {r} : step'[q] = step[q]
  BY <1>1 DEF Goto, Typed, RunPart
<1>4. /\ UNCHANGED <<vault, status, log, horizon, missed>>
      /\ skipped' = IF my[r].st.dropped /\ GaveUp(my[r].st) THEN skipped \cup missed ELSE skipped
  BY DEF FinishWalk, ingest, source
<1>5. Honest(my[r].st.cursor) /\ Ahead(r)
  BY <1>1 DEF Kept, Walk, Walking
<1>6. \A i \in Items \ skipped : Met(i, my[r].st, Ver(log, i, my[r].next))
  BY <1>1, <1>5 DEF Ahead, Passed, Mark
<1>7. Honest(my[r].st.cursor)'
  <2>1. CASE my[r].st.dropped /\ ~ GaveUp(my[r].st)
    BY <1>2, <1>4, <1>5, <2>1 DEF Honest
  <2>2. CASE ~ my[r].st.dropped
    BY <1>2, <1>4, <1>6, <2>2 DEF Honest, Met
  <2>3. CASE my[r].st.dropped /\ GaveUp(my[r].st)
    BY <1>2, <1>4, <1>6, <2>3 DEF Honest, Met
  <2> QED
    BY <2>1, <2>2, <2>3
<1>8. Walk(r)'
  <2>1. ~ Handling(r)' /\ step'[r] \notin {"item", "write"}
    BY <1>1 DEF Handling
  <2>2. \A h : Covers(my[r].st, h)'
    BY <1>2 DEF Covers
  <2> QED
    BY <1>2, <1>7, <2>1 DEF Walk, Covers
<1>9. Honest(status.cursor)' /\ Covers(status, status.history)'
  BY <1>4 DEF Kept, Honest, Covers, Met, Need
<1>10. \A q \in Runs \ {r} : Walk(q)'
  BY <1>1, <1>3, OthersIdle
<1>11. \A i \in Items : vault'[i] <= Ver(log', i, Len(log'))
  BY <1>4 DEF Kept
<1> QED
  BY <1>8, <1>9, <1>10, <1>11 DEF Kept

LEMMA PersistStatusKept ==
  ASSUME Typed, Kept, NEW r \in Runs, PersistStatus(r)
  PROVE  Kept'
<1>1. /\ Active(r) /\ At(r, "save") /\ UNCHANGED <<vault, log, horizon, missed, skipped>>
      /\ status' \in {status, my[r].st}
  BY DEF PersistStatus, Active, At, source, past, Saved
<1>2. \E s \in {"begin", "release"} : Goto(r, s)
  BY DEF PersistStatus, Leave
<1>3. step'[r] \in {"begin", "release"} /\ \A q \in Runs \ {r} : step'[q] = step[q]
  BY <1>2 DEF Goto, Typed, RunPart
<1>4. Honest(my[r].st.cursor) /\ Covers(my[r].st, my[r].st.history)
  BY <1>1 DEF Kept, Walk, Mode
<1>5. Honest(status.cursor)' /\ Covers(status, status.history)'
  <2>1. CASE status' = status
    BY <1>1, <2>1 DEF Kept, Honest, Covers, Met, Need
  <2>2. CASE status' = my[r].st
    BY <1>1, <1>4, <2>2 DEF Honest, Covers, Met, Need
  <2> QED
    BY <1>1, <2>1, <2>2
<1>6. Walk(r)'
  BY <1>3 DEF Walk, Walking, Handling, At
<1>7. \A q \in Runs \ {r} : Walk(q)'
  BY <1>1, <1>3, OthersIdle
<1>8. \A i \in Items : vault'[i] <= Ver(log', i, Len(log'))
  BY <1>1 DEF Kept
<1> QED
  BY <1>5, <1>6, <1>7, <1>8 DEF Kept

LEMMA ItemChangesKept ==
  ASSUME Typed, Kept, ItemChanges
  PROVE  Kept'
<1>1. PICK j \in Items : log' = Append(log, j)
  BY DEF ItemChanges
<1>2. /\ log \in Seq(Items) /\ Len(log) \in Nat /\ Len(log') = Len(log) + 1
      /\ UNCHANGED <<vault, status, step, my, horizon, missed, skipped>>
  BY <1>1 DEF ItemChanges, ingest, past, Typed, SourcePart
<1>3. \A i : \A n \in 0..Len(log) : Ver(log', i, n) = Ver(log, i, n)
  BY <1>1, <1>2, VerStays
<1>4. \A i : Ver(log, i, Len(log)) <= Ver(log', i, Len(log')) /\ Ver(log, i, Len(log)) \in Nat
             /\ Ver(log', i, Len(log')) \in Nat
  BY <1>2, <1>3, VerGrows, VerIs
<1>5. \A i \in Items : vault'[i] <= Ver(log', i, Len(log'))
  BY <1>2, <1>4 DEF Kept, Typed, JournalPart
<1>6. /\ status.cursor \in 0..Len(log) /\ status.pending \in 0..Len(log)
      /\ status.history /\ status.token # 0 => status.token - 1 \in 0..Len(log)
  BY <1>2, OnDisk, Logged DEF Typed, RunPart, Fit, Positions
<1>7. Honest(status.cursor)'
  BY <1>2, <1>3, <1>6 DEF Kept, Honest
<1>8. Covers(status, status.history)'
  <2>1. status.token # 0 =>
          \A i : Need(i, status, status.history)' = Need(i, status, status.history)
    BY <1>2, <1>3, <1>6 DEF Need
  <2> QED
    BY <1>2, <2>1 DEF Kept, Covers, Met
<1>9. ASSUME NEW r \in Runs PROVE Walk(r)'
  <2>1. Walk(r) /\ Sane(r)
    BY DEF Kept, Typed, RunPart
  <2>2. /\ my[r].st.cursor \in Nat /\ my[r].st.pending \in Nat /\ my[r].st.token \in Nat
        /\ my[r].next \in Nat /\ my[r].page.more \in Nat
    BY Mine, Logged DEF Positions
  <2>3. Walking(r) \/ At(r, "save") =>
          /\ my[r].st.cursor \in 0..Len(log) /\ my[r].st.pending \in 0..Len(log)
          /\ Mode(r) /\ my[r].st.token # 0 => my[r].st.token - 1 \in 0..Len(log)
    BY <1>2, <2>1, <2>2 DEF Sane, Fit
  <2>4. Handling(r) => Mark(r) \in 0..Len(log) /\ my[r].next \in 0..Len(log)
    BY <1>2, <2>1, <2>2 DEF Sane, Mark, Handling, Walking
  <2>5. UNCHANGED <<step[r], my[r], Walking(r), Handling(r), At(r, "save"), Mode(r), Mark(r)>>
    BY <1>2 DEF Walking, Handling, At, Mode, Mark
  <2>6. Walking(r) \/ At(r, "save") => Honest(my[r].st.cursor)' /\ Covers(my[r].st, Mode(r))'
    <3> SUFFICES ASSUME Walking(r) \/ At(r, "save")
                 PROVE  Honest(my[r].st.cursor)' /\ Covers(my[r].st, Mode(r))'
      OBVIOUS
    <3>1. Honest(my[r].st.cursor)'
      BY <1>2, <1>3, <2>1, <2>3 DEF Walk, Honest
    <3>2. my[r].st.token # 0 =>
            \A i : Need(i, my[r].st, Mode(r))' = Need(i, my[r].st, Mode(r))
      BY <1>2, <1>3, <2>3, <2>5 DEF Need
    <3>3. Covers(my[r].st, Mode(r))
      BY <2>1 DEF Walk
    <3>4. Covers(my[r].st, Mode(r))'
      BY <1>2, <2>5, <3>2, <3>3 DEF Covers, Met
    <3> QED
      BY <3>1, <3>4
  <2>7. Handling(r) => Ahead(r)'
    <3>1. Handling(r) => \A i : Passed(i, r)' = Passed(i, r)
      BY <1>2, <1>3, <2>4, <2>5 DEF Passed
    <3> QED
      BY <1>2, <2>1, <3>1 DEF Walk, Ahead, Met
  <2>8. step[r] \in {"item", "write"} => Timely(r)'
    <3> SUFFICES ASSUME step[r] \in {"item", "write"}, my[r].page.item # 0
                 PROVE  Timely(r)'
      BY <1>2 DEF Timely
    <3> DEFINE i == my[r].page.item
               v == my[r].page.version
    <3>1. Timely(r) /\ Handling(r) /\ Walking(r) /\ ~ At(r, "save") /\ i \in Items /\ v \in Nat
      BY <2>1, Mine, Logged DEF Walk, Handling, Walking, At, Positions
    <3>2. Marks(r)' = Marks(r)
      BY <1>2, <2>5 DEF Marks
    <3>3. \A n \in Marks(r) : n \in 0..Len(log)
      BY <1>6, <2>3, <2>4, <3>1 DEF Marks, Mode
    <3>4. \A n \in Marks(r) : Ver(log', i, n) <= v
      BY <1>3, <3>1, <3>3 DEF Timely
    <3>5. vault[i] <= v /\ v <= Ver(log', i, Len(log'))
      BY <1>4, <3>1 DEF Timely
    <3> QED
      BY <1>2, <3>2, <3>4, <3>5 DEF Timely
  <2> QED
    BY <1>2, <2>5, <2>6, <2>7, <2>8 DEF Walk
<1> QED
  BY <1>5, <1>7, <1>8, <1>9 DEF Kept

LEMMA HistoryExpiresKept ==
  ASSUME Typed, Kept, HistoryExpires
  PROVE  Kept'
<1>1. /\ UNCHANGED <<vault, status, step, my, log, missed, skipped>>
      /\ horizon \in Nat /\ horizon' \in Nat /\ horizon <= horizon'
  BY Logged DEF HistoryExpires, past, Typed, SourcePart
<1>2. \A st, h : st.cursor \in Nat /\ Covers(st, h) =>
         (st.token # 0 /\ (h => horizon' <= st.cursor) =>
            \A i \in Items \ skipped : Met(i, st, Need(i, st, h)))
  BY <1>1 DEF Covers
<1>3. status.cursor \in Nat /\ \A r \in Runs : my[r].st.cursor \in Nat
  BY OnDisk, Mine, Logged DEF Positions
<1>4. Honest(status.cursor)' /\ Covers(status, status.history)'
  BY <1>1, <1>2, <1>3 DEF Kept, Honest, Covers, Met, Need
<1>5. ASSUME NEW r \in Runs PROVE Walk(r)'
  <2>1. Walk(r)
    BY DEF Kept
  <2>2. UNCHANGED <<step[r], my[r], Walking(r), Handling(r), At(r, "save"), Mode(r), Mark(r),
                    Marks(r), Ahead(r), Timely(r), Honest(my[r].st.cursor)>>
    BY <1>1 DEF Walking, Handling, At, Mode, Mark, Marks, Ahead, Met, Passed, Timely, Honest
  <2>3. Covers(my[r].st, Mode(r)) => Covers(my[r].st, Mode(r))'
    BY <1>1, <1>2, <1>3, <2>2 DEF Covers, Met, Need
  <2> QED
    BY <1>1, <2>1, <2>2, <2>3 DEF Walk
<1> QED
  BY <1>1, <1>4, <1>5 DEF Kept


\* What is done before the page of a history that did not expire.
LEMMA HistoryBefore ==
  ASSUME Typed, Kept, NEW r \in Runs, At(r, "fetch"), ~ Expired(r), my[r].history
  PROVE  LET st == my[r].st
             p == IF st.token = 0 THEN st.cursor + 1 ELSE st.token
         IN  \A j \in Items \ skipped : Met(j, st, Ver(log, j, p - 1))
<1>1. Honest(my[r].st.cursor) /\ Covers(my[r].st, my[r].history)
  BY DEF Kept, Walk, Mode, Walking, At
<1>2. my[r].st.cursor \in Nat /\ my[r].st.token \in Nat /\ horizon \in Nat
  BY Mine, Logged DEF Positions, Typed, SourcePart
<1>3. horizon <= my[r].st.cursor
  BY <1>2 DEF Expired
<1>4. CASE my[r].st.token = 0
  <2>1. (my[r].st.cursor + 1) - 1 = my[r].st.cursor
    BY <1>2
  <2> QED
    BY <1>1, <1>4, <2>1 DEF Honest, Met
<1>5. CASE my[r].st.token # 0
  BY <1>1, <1>3, <1>5 DEF Covers, Need
<1> QED
  BY <1>4, <1>5

LEMMA FetchPageKept ==
  ASSUME Typed, Kept, NEW r \in Runs, FetchPage(r)
  PROVE  Kept'
<1> DEFINE got == Fetched(r)
           c == my[r].st.cursor
           t == my[r].st.token
<1>1. /\ Active(r) /\ At(r, "fetch") /\ ~ Expired(r) /\ got.sync \in {0, Len(log)}
      /\ my'[r] \in Carried /\ step'[r] = "item"
      /\ my'[r].page = got.page
      /\ my'[r].history = my[r].history
      /\ my'[r].next = (IF got.sync = 0 THEN my[r].next ELSE got.sync)
      /\ my'[r].st.pending = (IF got.sync = 0 THEN my[r].st.pending ELSE got.sync)
      /\ my'[r].st.cursor = c /\ my'[r].st.token = t
      /\ my'[r].st.dropped = my[r].st.dropped
  BY FetchPageIs
<1>2. \A q \in Runs \ {r} : step'[q] = step[q]
  BY DEF FetchPage, Goto, Typed, RunPart
<1>3. UNCHANGED <<vault, status, log, horizon, skipped, missed>>
  BY DEF FetchPage, ingest, source, past
<1>4. /\ Honest(c) /\ Covers(my[r].st, my[r].history) /\ Fit(my[r].st, my[r].history)
      /\ ~ my[r].history /\ t # 0 => my[r].next = my[r].st.pending
  BY <1>1 DEF Kept, Walk, Mode, Walking, At, Typed, RunPart, Sane
<1>5. /\ c \in 0..Len(log) /\ t \in Nat /\ Len(log) \in Nat \ {0} /\ Last \in Nat
      /\ my[r].history => t \in 0..Len(log)
      /\ ~ my[r].history => t \in 0..Last
  BY <1>4, Mine, Logged DEF Fit, Positions
<1>6. \A j \in Items : vault[j] \in Nat /\ vault[j] <= Ver(log, j, Len(log))
  BY DEF Kept, Typed, JournalPart
<1>7. RunPart'
  BY FetchPageRuns
<1>8. /\ my'[r].next \in 0..Len(log) /\ Mark(r)' \in 0..Len(log)
      /\ \A n \in Marks(r)' : n \in 0..Len(log)
  <2>1. Sane(r)' /\ Fit(status, status.history)'
    BY <1>7 DEF RunPart
  <2>2. /\ my'[r].next <= Len(log) /\ Fit(my[r].st, my[r].history)'
        /\ my'[r].history => my'[r].page.more <= Len(log)
    BY <1>1, <1>3, <2>1 DEF Sane, Walking, Handling, Mode, At
  <2>3. /\ my'[r].st.cursor \in Nat /\ my'[r].st.pending \in Nat /\ my'[r].st.token \in Nat
        /\ my'[r].next \in Nat /\ my'[r].page.more \in Nat
    <3>1. my'[r].st \in Status /\ my'[r].page \in Page /\ my'[r].next \in Positions
      BY <1>1 DEF Carried
    <3>2. Positions \subseteq Nat
      BY Logged DEF Positions
    <3>3. /\ my'[r].st.cursor \in Positions /\ my'[r].st.pending \in Positions
          /\ my'[r].st.token \in Nat
      BY <3>1 DEF Status
    <3>4. my'[r].page.more \in Nat
      BY <3>1 DEF Page
    <3> QED
      BY <3>1, <3>2, <3>3, <3>4
  <2>4. /\ my'[r].st.cursor \in 0..Len(log) /\ my'[r].st.pending \in 0..Len(log)
        /\ my'[r].history /\ my'[r].st.token # 0 => my'[r].st.token - 1 \in 0..Len(log)
    <3>1. /\ my'[r].st.cursor <= Len(log) /\ my'[r].st.pending <= Len(log)
          /\ my'[r].history => my'[r].st.token <= Len(log)
      BY <1>3, <2>2 DEF Fit
    <3>2. /\ my'[r].st.cursor \in Nat /\ my'[r].st.pending \in Nat /\ my'[r].st.token \in Nat
          /\ Len(log) \in Nat
      BY <1>5, <2>3
    <3>3. \A n \in Nat : n <= Len(log) => n \in 0..Len(log) /\ (n # 0 => n - 1 \in 0..Len(log))
      BY <3>2
    <3> QED
      BY <3>1, <3>2, <3>3
  <2>5. /\ status.cursor \in 0..Len(log) /\ status.pending \in 0..Len(log)
        /\ status.history /\ status.token # 0 => status.token - 1 \in 0..Len(log)
    BY <1>5, OnDisk, Logged DEF Typed, RunPart, Fit, Positions
  <2>6. my'[r].next \in 0..Len(log)
    BY <1>5, <2>2, <2>3
  <2>7. Mark(r)' \in 0..Len(log)
    BY <1>5, <2>2, <2>3, <2>6 DEF Mark
  <2> QED
    BY <1>3, <2>4, <2>5, <2>6, <2>7 DEF Marks
<1>9. Honest(my[r].st.cursor)' /\ Covers(my[r].st, my[r].history)'
  <2>1. ~ my[r].history /\ t # 0 => got.sync = 0
    BY <1>5, SnapshotIs DEF Fetched
  <2>2. t # 0 => \A j : Need(j, my'[r].st, my[r].history) = Need(j, my[r].st, my[r].history)
    BY <1>1, <2>1 DEF Need
  <2>3. Honest(my[r].st.cursor)'
    BY <1>1, <1>3, <1>4 DEF Honest
  <2>4. t # 0 => \A j : Need(j, my[r].st, my[r].history)' = Need(j, my[r].st, my[r].history)
    BY <1>1, <1>3, <2>2 DEF Need
  <2> QED
    BY <1>1, <1>3, <1>4, <2>3, <2>4 DEF Covers, Met, Honest
<1>10. my'[r].page.item # 0 => /\ my'[r].page.item \in Items
                               /\ my'[r].page.version
                                    = Ver(log, my'[r].page.item, Len(log))
  <2>1. CASE my[r].history
    <3> DEFINE p == IF t = 0 THEN c + 1 ELSE t
    <3>1. got = HistoryPage(c, t)
      BY <2>1 DEF Fetched
    <3>2. CASE p > Len(log)
      <4>1. HistoryPage(c, t).page = NoPage
        <5>1. c \in 0..Len(log) /\ t \in 0..Len(log)
          BY <1>5, <2>1
        <5> QED
          BY <3>2, <5>1, HistoryIs
      <4>2. my'[r].page.item = 0
        BY <1>1, <3>1, <4>1 DEF NoPage
      <4> QED
        BY <4>2
    <3>3. CASE ~ (p > Len(log))
      <4>1. /\ log[p] \in Items /\ got.page.item = log[p] /\ got.page.version = Version(log[p])
        <5>1. p \in 1..Len(log)
          BY <1>5, <2>1, <3>3
        <5>2. p = IF t = 0 THEN c + 1 ELSE t
          OBVIOUS
        <5>3. c \in 0..Len(log) /\ t \in 0..Len(log)
          BY <1>5, <2>1
        <5> HIDE DEF got, p, c, t
        <5> QED
          BY <3>1, <5>1, <5>2, <5>3, HistoryHas
      <4> QED
        BY <1>1, <4>1, VersionIsVer
    <3> QED
      BY <3>2, <3>3
  <2>2. CASE ~ my[r].history
    <3>1. got = SnapshotPage(t)
      BY <2>2 DEF Fetched
    <3> QED
      BY <1>1, <1>5, <2>2, <3>1, SnapshotIs, VersionIsVer
  <2> QED
    BY <2>1, <2>2
<1>11. Timely(r)'
  <2> SUFFICES ASSUME my'[r].page.item # 0
               PROVE  /\ vault[my'[r].page.item] <= my'[r].page.version
                      /\ my'[r].page.version <= Ver(log, my'[r].page.item, Len(log))
                      /\ \A n \in Marks(r)' :
                           Ver(log, my'[r].page.item, n) <= my'[r].page.version
    BY <1>3 DEF Timely
  <2>1. Ver(log, my'[r].page.item, Len(log)) \in Nat
    BY <1>5, VerIs
  <2>2. \A n \in Marks(r)' : Ver(log, my'[r].page.item, n) <= Ver(log, my'[r].page.item, Len(log))
    BY <1>5, <1>8, VerGrows
  <2> QED
    BY <1>6, <1>10, <2>1, <2>2
<1>12. Ahead(r)'
  <2> SUFFICES ASSUME NEW j \in Items \ skipped, j # my'[r].page.item
               PROVE  Met(j, my[r].st, Passed(j, r)')
    <3>1. \A j \in Items \ skipped : j # my'[r].page.item =>
             Passed(j, r)' <= vault[j] \/ (my[r].st.dropped /\ j \in missed)
      BY DEF Met
    <3> QED
      BY <1>1, <1>3, <3>1 DEF Ahead, Met
  <2>1. CASE my[r].history
    <3> DEFINE p == IF t = 0 THEN c + 1 ELSE t
    <3>1. got = HistoryPage(c, t)
      BY <2>1 DEF Fetched
    <3>2. Met(j, my[r].st, Ver(log, j, p - 1))
      BY <1>1, <2>1, HistoryBefore
    <3>3. CASE p > Len(log)
      <4>1. got.page = NoPage /\ c = Len(log) /\ t = 0 /\ got.sync = Len(log)
        BY <1>5, <2>1, <3>1, <3>3, HistoryIs
      <4>2. my'[r].page.more = 0 /\ my'[r].next = Len(log)
        BY <1>1, <1>5, <4>1 DEF NoPage
      <4>3. Passed(j, r)' = Ver(log, j, Len(log)) /\ p - 1 = Len(log)
        BY <1>3, <1>5, <4>1, <4>2 DEF Passed, Mark
      <4> QED
        BY <3>2, <4>3
    <3>4. CASE ~ (p > Len(log))
      <4>1. /\ p \in Nat \ {0} /\ p <= Len(log) /\ got.page.item = log[p]
            /\ got.page.more = (IF p < Len(log) THEN p + 1 ELSE 0)
            /\ got.sync = (IF p < Len(log) THEN 0 ELSE Len(log))
        <5>1. p \in 1..Len(log)
          BY <1>5, <2>1, <3>4
        <5>2. p = IF t = 0 THEN c + 1 ELSE t
          OBVIOUS
        <5>3. c \in 0..Len(log) /\ t \in 0..Len(log)
          BY <1>5, <2>1
        <5> HIDE DEF got, p, c, t
        <5> QED
          BY <3>1, <5>1, <5>2, <5>3, HistoryHas
      <4> HIDE DEF p
      <4>2. Mark(r)' = p
        <5>1. CASE p < Len(log)
          <6>1. my'[r].page.more = p + 1
            BY <1>1, <4>1, <5>1
          <6> QED
            BY <1>1, <2>1, <4>1, <6>1 DEF Mark
        <5>2. CASE ~ (p < Len(log))
          <6>1. my'[r].page.more = 0 /\ my'[r].next = Len(log) /\ p = Len(log)
            BY <1>1, <1>5, <4>1, <5>2
          <6> QED
            BY <6>1 DEF Mark
        <5> QED
          BY <5>1, <5>2
      <4>3. Passed(j, r)' = Ver(log, j, p)
        BY <1>1, <1>3, <2>1, <4>2 DEF Passed
      <4>4. Ver(log, j, p) = Ver(log, j, p - 1)
        BY <1>1, <4>1, VerSteps
      <4> QED
        BY <3>2, <4>3, <4>4 DEF p
    <3> QED
      BY <3>3, <3>4
  <2>2. CASE ~ my[r].history
    <3> DEFINE i == IF t = 0 THEN 1 ELSE t
    <3>1. got = SnapshotPage(t)
      BY <2>2 DEF Fetched
    <3>2. /\ i \in Items /\ got.page.item = (IF Version(i) = 0 THEN 0 ELSE i)
          /\ got.page.more = (IF i < Last THEN i + 1 ELSE 0)
          /\ got.sync = (IF t = 0 THEN Len(log) ELSE 0)
      BY <1>5, <2>2, <3>1, SnapshotIs
    <3>3. j \in 1..Last /\ i \in 1..Last
      BY <3>2 DEF Items
    <3>4. Mark(r)' = my'[r].next
      BY <1>1, <2>2 DEF Mark
    <3>5. Passed(j, r)' = IF j <= i THEN Ver(log, j, my'[r].next) ELSE 0
      <4>1. my'[r].page.more = 0 \/ j < my'[r].page.more <=> j <= i
        BY <1>1, <1>5, <3>2, <3>3
      <4> QED
        BY <1>1, <1>3, <2>2, <3>4, <4>1 DEF Passed
    <3>6. CASE j > i
      BY <1>6, <3>3, <3>5, <3>6 DEF Met
    <3>7. CASE j = i
      <4>1. Version(i) = 0
        BY <1>1, <3>2, <3>7
      <4>2. Ver(log, i, my'[r].next) <= Ver(log, i, Len(log)) /\ Ver(log, i, Len(log)) = 0
        BY <1>5, <1>8, <4>1, VerGrows, VersionIsVer
      <4>3. Ver(log, i, my'[r].next) \in Nat
        BY <1>8, VerIs
      <4> QED
        BY <1>6, <3>3, <3>5, <3>7, <4>2, <4>3 DEF Met
    <3>8. CASE j < i
      <4>1. t # 0 /\ t = i /\ got.sync = 0
        BY <3>2, <3>3, <3>8
      <4>2. my'[r].next = my[r].st.pending
        BY <1>1, <1>4, <2>2, <4>1
      <4>3. Met(j, my[r].st, Ver(log, j, my[r].st.pending))
        BY <1>4, <2>2, <3>8, <4>1 DEF Covers, Need
      <4> QED
        BY <3>3, <3>5, <3>8, <4>2, <4>3
    <3> QED
      BY <3>3, <3>6, <3>7, <3>8
  <2> QED
    BY <2>1, <2>2
<1>13. Walk(r)'
  <2>1. ~ At(r, "save")'
    BY <1>1 DEF At
  <2> QED
    BY <1>1, <1>9, <1>11, <1>12, <2>1 DEF Walk, Mode
<1>14. \A q \in Runs \ {r} : Walk(q)'
  BY <1>1, <1>2, OthersIdle
<1>15. Honest(status.cursor)' /\ Covers(status, status.history)'
  BY <1>3 DEF Kept, Honest, Covers, Met, Need
<1>16. \A j \in Items : vault'[j] <= Ver(log', j, Len(log'))
  BY <1>3, <1>6
<1> QED
  BY <1>13, <1>14, <1>15, <1>16 DEF Kept


LEMMA IdleKept ==
  ASSUME Typed, Kept, NEW r \in Runs, NEW s \in {"header", "load", "release", "retire", "begin"},
         NEW mine \in Carried, Keep(r, mine), Goto(r, s),
         UNCHANGED <<vault, status, log, horizon, missed, skipped>>
  PROVE  Kept'
<1>1. step'[r] = s /\ \A q \in Runs \ {r} : my'[q] = my[q] /\ step'[q] = step[q]
  BY Moves DEF Steps
<1> QED
  BY <1>1, Unnoticed DEF Walking, At

LEMMA QuietKept ==
  ASSUME Typed, Kept, UNCHANGED <<vault, status, log, horizon, missed, skipped, step, my>>
  PROVE  Kept'
  BY Unnoticed

LEMMA RunKept ==
  ASSUME Typed, Kept, NEW r \in Runs,
         RunStep(r) \/ Acquire(r) \/ Interrupt(r) \/ DropItem(r) \/ Crash(r)
  PROVE  Kept'
<1>1. Nothing \in Carried /\ my[r] \in Carried
  BY Empties, Mine, Logged
<1>2. ASSUME NEW s \in {"header", "load", "release", "retire", "begin"}, Goto(r, s),
             NEW mine \in Carried, Keep(r, mine),
             UNCHANGED <<vault, status, log, horizon, missed, skipped>>
      PROVE  Kept'
  BY <1>2, IdleKept
<1>3. my' = my => Keep(r, my[r])
  BY DEF Keep, Typed, RunPart
<1>4. CASE EnsureHeader(r)
  BY <1>1, <1>2, <1>3, <1>4 DEF EnsureHeader, Leave, source, past
<1>5. CASE ReleaseUnpublished(r)
  BY <1>1, <1>2, <1>3, <1>5 DEF ReleaseUnpublished, Leave, source, past
<1>6. CASE RetireUnpublished(r)
  BY <1>1, <1>2, <1>6 DEF RetireUnpublished, source, past
<1>7. CASE Crash(r)
  BY <1>1, <1>2, <1>7 DEF Crash, source, past
<1>8. CASE Acquire(r)
  <2>1. [Nothing EXCEPT !.late = Overlooked] \in Carried
    <3>1. Overlooked \in BOOLEAN
      BY DEF Overlooked
    <3> QED
      BY <1>1, <3>1 DEF Carried
  <2> QED
    BY <1>2, <1>8, <2>1 DEF Acquire, disk, source, past
<1> QED
  BY <1>4, <1>5, <1>6, <1>7, <1>8, LoadStatusKept, FetchPageKept, FallBackKept, UnchangedKept,
     StartPublishKept, WriteItemKept, RecordLineKept, TurnPageKept, FinishWalkKept,
     PersistStatusKept, InterruptKept, DropItemKept DEF RunStep

LEMMA StepKept ==
  ASSUME Typed, Kept, [Next]_vars
  PROVE  Kept'
<1>1. CASE UNCHANGED vars
  BY <1>1, QuietKept DEF vars, ingest, source, past
<1>2. ASSUME NEW r \in Runs,
             RunStep(r) \/ Acquire(r) \/ Interrupt(r) \/ DropItem(r) \/ Crash(r)
      PROVE  Kept'
  BY <1>2, RunKept
<1>3. ASSUME NEW b \in Rebuilds, RebuildStep(b) \/ AbandonRebuild(b), Quiet
      PROVE  Kept'
  <2>1. vault' = vault
    BY <1>3 DEF RebuildStep, BeginRebuild, Stat, List, Read, CommitIndex, RecoverJournals,
                AbandonRebuild
  <2> QED
    BY <1>3, <2>1, QuietKept DEF Quiet, source, past
<1> QED
  BY <1>1, <1>2, <1>3, ItemChangesKept, HistoryExpiresKept DEF Next

LEMMA InitKept ==
  ASSUME Init
  PROVE  Kept
<1>1. Typed
  BY InitTyped
<1>2. Len(log) \in Nat
  BY <1>1, Logged
<1>3. \A i \in Items : vault[i] = 0 /\ Ver(log, i, 0) = 0 /\ Ver(log, i, Len(log)) \in Nat
  BY <1>2, VerIs, VerZero DEF Init, JournalInit
<1>4. /\ status.cursor = 0 /\ status.token = 0
      /\ \A r \in Runs : step[r] = "begin"
  BY DEF Init, NoStatus
<1> QED
  BY <1>3, <1>4 DEF Kept, Honest, Covers, Walk, Walking, Handling, At

\* Whatever walks of the mailbox and of its history were resumed, interrupted, dropped,
\* expired or not saved, and whatever changed meanwhile: the vault has every change
\* before the cursor on disk, but of items given up.
THEOREM CursorSaysWhatIsThere == Spec => []CursorIsHonest
<1>1. Init => Typed /\ Kept
  BY InitTyped, InitKept
<1>2. Typed /\ Kept /\ [Next]_vars => Typed' /\ Kept'
  BY StepTyped, StepKept
<1>3. Typed /\ Kept => CursorIsHonest
  BY KeptIsHonest
<1> QED
  BY <1>1, <1>2, <1>3, PTL DEF Spec

=============================================================================
