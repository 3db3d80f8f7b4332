--------------------------- MODULE CompanionProofs ---------------------------
(***************************************************************************)
(* Theorems about a companion host: Capture, for any number of listeners,  *)
(* captures, keys and memory ids, any policies, ages and bounds, and any   *)
(* steps that may fail; and Pairing, for any devices, invocations,         *)
(* listeners, limits and faults.                                           *)
(*                                                                         *)
(* About Pairing, what a step does to one device (Moves), to its tokens    *)
(* and to its audit rows (Minting, Granting, AuditRows) is proved once,    *)
(* action by action; the invariants Credential and Budgeted then follow    *)
(* from these alone.                                                       *)
(***************************************************************************)
EXTENDS Capture, Pairing, FiniteSetTheorems, TLAPS

-----------------------------------------------------------------------------
(* What a listener has in hand at each step.                                *)

Serving == Steps \ {"down", "idle"}
Bodied == {"finish", "backfill", "rollback", "receipt", "trim", "tidy", "settle", "answer"}
Early == {"lookup", "finish", "reserve", "backfill", "published", "live", "publish", "claim", "link"}
Claims == {"pointer", "create", "write", "verify", "rollback"}

Served(l) ==
    /\ at[l] # "down" => l \in crew.listeners /\ census[l] \in Counts
    /\ at[l] \in Serving => my[l] \in Request
    /\ at[l] \in Bodied => my[l].body \in Body

\* A claim made after the revocation goes past no check that would let it write.
LateIsOut(l) ==
    at[l] \in Serving /\ my[l].late =>
        ~ live /\ at[l] \in {"live", "published", "receipt", "trim", "tidy", "settle", "answer"}

Shaped == TypeOK /\ \A l \in Listeners : Served(l) /\ LateIsOut(l)

-----------------------------------------------------------------------------
(* What is on record belongs to its key and to a capture of this phone.     *)

FilesKeyed ==
    /\ \A k \in Keys : pubs[k] # None => pubs[k] \in crew.captures /\ KeyOf[pubs[k]] = k
    /\ \A k \in Keys : res[k] # None => KeyOf[res[k].cap] = k
    /\ \A k \in Keys : res[k] # None /\ res[k].body # None => KeyOf[res[k].body.cap] = k
    /\ \A k \in Keys : rcpts[k] # None => KeyOf[rcpts[k].cap] = k
    /\ \A i \in Ids : vault[i] # None => vault[i] \in crew.captures /\ IdOf[vault[i]] = i
    /\ \A i \in Ids : ptrs[i] # None => \E c \in crew.captures : KeyOf[c] = ptrs[i] /\ IdOf[c] = i

RequestKeyed(l) ==
    /\ at[l] \in Serving => my[l].cap \in crew.captures
    /\ at[l] \in Bodied => KeyOf[my[l].body.cap] = KeyOf[my[l].cap]


-----------------------------------------------------------------------------
(* An answer that says applied is the receipt beside the record.            *)

Says(b) == b.verdict = "applied"
Stands(b) == KeyOf[b.cap] \in trimmed \/ rcpts[KeyOf[b.cap]] = b

AnswersStand ==
    /\ \A k \in Keys : res[k] # None /\ res[k].body # None /\ Says(res[k].body) => Stands(res[k].body)
    /\ \A b \in told : Says(b) => b \in Body /\ Stands(b)
    /\ \A k \in Keys : rcpts[k] # None /\ Says(rcpts[k]) =>
          k \in trimmed \/ vault[IdOf[rcpts[k].cap]] = rcpts[k].cap

RequestStands(l) ==
    /\ at[l] \in {"finish", "backfill", "trim", "tidy", "settle", "answer"} /\ Says(my[l].body) =>
          Stands(my[l].body)
    /\ at[l] = "receipt" => my[l].body.cap = my[l].cap /\ vault[IdOf[my[l].cap]] = my[l].cap
    /\ at[l] = "rollback" => ~ Says(my[l].body)

Filed == FilesKeyed /\ AnswersStand
Known(l) == RequestKeyed(l) /\ RequestStands(l)
Truthful == Filed /\ \A l \in Listeners : Known(l)

-----------------------------------------------------------------------------
(* Who may write under a key.                                               *)

\* One listener answers this phone.
Lone == \A l, m \in crew.listeners : l = m
\* No two captures derive one id, and no claim is given up halfway.
Steady ==
    /\ \A c, d \in crew.captures : IdOf[c] = IdOf[d] => c = d
    /\ crew.faults = 0 \/ Fallible \cap {"pointer", "create"} = {}
\* The phone sends one capture under a key.
NeverRestamped(captures) == \A c, d \in captures : KeyOf[c] = KeyOf[d] => c = d

Unwritten(k) == \A i \in Ids : vault[i] # None => KeyOf[vault[i]] # k

\* A memory's capture has the record of its key.
Owned == \A i \in Ids : vault[i] # None =>
            LET k == KeyOf[vault[i]] IN k \in trimmed \/ pubs[k] = vault[i]

ClaimHeld(l) ==
    LET c == my[l].cap
        k == KeyOf[c]
    IN
    /\ at[l] \in Early => my[l].created = {}
    /\ at[l] \in {"pointer", "create", "write"} => k \in trimmed \/ pubs[k] = c
    /\ at[l] = "verify" => vault[IdOf[c]] # None
    /\ Lone /\ at[l] \in Claims /\ "record" \in my[l].created => k \in trimmed \/ Unwritten(k)
    /\ ~ Lone /\ at[l] = "rollback" => k \in trimmed

Held == Owned /\ \A l \in Listeners : ClaimHeld(l)
Claimed == Lone \/ Steady => Held

IInv == Shaped /\ Truthful /\ Claimed

-----------------------------------------------------------------------------
(* One listener's turn. *)

\* What a request is made of.
LEMMA RequestFields ==
  ASSUME NEW m \in Request
  PROVE  /\ m.cap \in Captures /\ m.id \in Receipts /\ m.found \in BOOLEAN /\ m.over \in BOOLEAN
         /\ m.age \in 0 .. Ttl /\ m.created \in SUBSET {"record", "pointer"}
         /\ m.body \in Body \cup {None} /\ m.late \in BOOLEAN
  BY DEF Request

LEMMA BodyFields ==
  ASSUME NEW b \in Body
  PROVE  b.cap \in Captures /\ b.verdict \in Verdicts /\ b.id \in Receipts /\ b # None
  BY CaptureAssumption DEF Body

LEMMA ServingFacts ==
  ASSUME Shaped, NEW l \in Listeners, at[l] \in Serving
  PROVE  /\ my[l] \in Request /\ my[l].cap \in Captures /\ my[l].id \in Receipts
         /\ my[l].age \in 0 .. Ttl /\ my[l].late \in BOOLEAN
         /\ KeyOf[my[l].cap] \in Keys /\ IdOf[my[l].cap] \in Ids
         /\ l \in crew.listeners /\ census[l] \in Counts
         /\ at[l] \in Bodied => my[l].body \in Body
<1>1. my[l] \in Request /\ Served(l)  BY DEF Shaped, Served, Serving
<1>2. my[l].cap \in Captures /\ KeyOf[my[l].cap] \in Keys /\ IdOf[my[l].cap] \in Ids
  BY <1>1, RequestFields, CaptureAssumption
<1> QED BY <1>1, <1>2, RequestFields DEF Served, Serving

\* Listener l comes to step s with request m; the others stay as they are.
Turn(l, s, m) ==
    /\ at' \in [Listeners -> Steps] /\ my' \in [Listeners -> Request \cup {None}]
    /\ at'[l] = s /\ my'[l] = m
    /\ \A o \in Listeners \ {l} : at'[o] = at[o] /\ my'[o] = my[o]

LEMMA TurnGoto ==
  ASSUME TypeOK, NEW l \in Listeners, NEW s \in Steps, Goto(l, s), UNCHANGED my
  PROVE  Turn(l, s, my[l])
  BY DEF TypeOK, Goto, Turn

LEMMA TurnTo ==
  ASSUME TypeOK, NEW l \in Listeners, NEW s \in Steps, NEW m \in Request \cup {None}, Goto(l, s),
         my' = [my EXCEPT ![l] = m]
  PROVE  Turn(l, s, m)
  BY DEF TypeOK, Goto, Turn

LEMMA TurnIdle ==
  ASSUME TypeOK, NEW l \in Listeners, Finished(l)
  PROVE  Turn(l, "idle", None)
  BY TurnTo DEF Finished, Steps

\* The same request with a body.
Bears(m, r, b) ==
    /\ m \in Request /\ m.cap = r.cap /\ m.id = r.id /\ m.created = r.created /\ m.late = r.late
    /\ m.age = r.age /\ m.body = b

LEMMA TurnBody ==
  ASSUME TypeOK, NEW l \in Listeners, my[l] \in Request, NEW s \in Steps, NEW b \in Body \cup {None},
         Goto(l, s), my' = [my EXCEPT ![l].body = b]
  PROVE  \E m \in Request : Turn(l, s, m) /\ Bears(m, my[l], b)
<1> DEFINE m == [my[l] EXCEPT !.body = b]
<1>1. my' = [my EXCEPT ![l] = m]  BY DEF TypeOK
<1>2. m \in Request /\ Bears(m, my[l], b)  BY DEF Request, Bears
<1> HIDE DEF m
<1> QED BY <1>1, <1>2, TurnTo

LEMMA AnswerIsBody ==
  ASSUME NEW l \in Listeners, my[l] \in Request, NEW v \in Verdicts
  PROVE  /\ Answer(l, v) \in Body /\ Answer(l, v).cap = my[l].cap
         /\ Answer(l, v).verdict = v /\ Answer(l, v).id = my[l].id
  BY RequestFields DEF Answer, Body

LEMMA TurnWith ==
  ASSUME TypeOK, NEW l \in Listeners, my[l] \in Request, NEW s \in Steps, NEW v \in Verdicts,
         With(l, v, s)
  PROVE  \E m \in Request :
           /\ Turn(l, s, m) /\ Bears(m, my[l], m.body)
           /\ m.body \in Body /\ m.body.cap = my[l].cap /\ m.body.verdict = v
<1>1. PICK m \in Request : Turn(l, s, m) /\ Bears(m, my[l], Answer(l, v))
  BY TurnBody, AnswerIsBody DEF With
<1> QED BY <1>1, AnswerIsBody DEF Bears

-----------------------------------------------------------------------------
(* Shaped.                                                                  *)

LEMMA ServedStays ==
  ASSUME NEW l, Served(l), LateIsOut(l), at'[l] = at[l], my'[l] = my[l],
         UNCHANGED <<crew, live>>,
         at[l] # "down" => census'[l] \in Counts
  PROVE  Served(l)' /\ LateIsOut(l)'
  BY DEF Served, LateIsOut

\* After a turn it is enough to look at the listener whose turn it was.
LEMMA ShapedTurn ==
  ASSUME Shaped, NEW l \in Listeners, NEW s, NEW m, Turn(l, s, m),
         UNCHANGED <<crew, live>>, TypeOK',
         \A o \in Listeners \ {l} : census'[o] = census[o],
         Served(l)', LateIsOut(l)'
  PROVE  Shaped'
<1>1. \A o \in Listeners \ {l} : Served(o)' /\ LateIsOut(o)'
  BY ServedStays DEF Shaped, Turn, Served
<1> QED BY <1>1 DEF Shaped

\* The usual case: a listener that serves goes on serving.
LEMMA ShapedServing ==
  ASSUME Shaped, NEW l \in Listeners, at[l] # "down", NEW s \in Serving, NEW m \in Request, Turn(l, s, m),
         UNCHANGED <<crew, live>>, TypeOK',
         \A o \in Listeners \ {l} : census'[o] = census[o], census'[l] \in Counts,
         s \in Bodied => m.body \in Body,
         m.late => ~ live /\ s \in {"live", "published", "receipt", "trim", "tidy", "settle", "answer"}
  PROVE  Shaped'
<1>1. l \in crew.listeners  BY DEF Shaped, Served
<1>2. Served(l)' /\ LateIsOut(l)'  BY <1>1 DEF Served, LateIsOut, Turn
<1> QED BY <1>2, ShapedTurn

\* Or it is through with its request.
LEMMA ShapedIdle ==
  ASSUME Shaped, NEW l \in Listeners, NEW m, Turn(l, "idle", m), at[l] # "down",
         UNCHANGED <<crew, live>>, TypeOK',
         \A o \in Listeners \ {l} : census'[o] = census[o], census'[l] \in Counts
  PROVE  Shaped'
<1>1. l \in crew.listeners  BY DEF Shaped, Served
<1>2. Served(l)' /\ LateIsOut(l)'  BY <1>1 DEF Served, LateIsOut, Turn, Serving, Bodied
<1> QED BY <1>2, ShapedTurn

LEMMA CountFields ==
  ASSUME NEW c \in Counts
  PROVE  c.total \in Nat /\ c.pending \in [Keys -> (0 .. Ttl) \cup {None}]
  BY DEF Counts

LEMMA ReservationFields ==
  ASSUME TypeOK, NEW k \in Keys, res[k] # None
  PROVE  /\ res[k] \in Reservation /\ res[k].cap \in Captures /\ res[k].age \in 0 .. Ttl
         /\ res[k].body \in Body \cup {None}
  BY DEF TypeOK, Reservation

LEMMA CountKeys ==
  ASSUME NEW s \in SUBSET Keys
  PROVE  Cardinality(s) \in Nat
  BY CaptureAssumption, FS_Subset, FS_CardinalityType

LEMMA LessIsNat ==
  ASSUME NEW n \in Nat, NEW m \in Nat
  PROVE  Less(n, m) \in Nat
  BY DEF Less

LEMMA ShapedStart ==
  ASSUME Shaped, NEW l \in Listeners, Start(l)
  PROVE  Shaped'
<1> DEFINE pending == [k \in Keys |-> IF k \in Kept /\ Pending(k) THEN res[k].age ELSE None]
           files == [k \in Keys |-> IF k \in Kept THEN res[k] ELSE None]
           counts == [total |-> Cardinality(Kept), pending |-> pending]
<1>1. /\ l \in crew.listeners /\ res' = files /\ census' = [census EXCEPT ![l] = counts]
      /\ Goto(l, "idle")
      /\ UNCHANGED <<crew, live, policy, changes, pubs, ptrs, rcpts, vault, staged, shelf, my>>
      /\ UNCHANGED <<told, repeats, trimmed, faults>>
  BY DEF Start, env, published, history
<1>2. Kept \in SUBSET Keys  BY DEF Kept, Rows
<1>3. files \in [Keys -> Reservation \cup {None}]  BY DEF Shaped, TypeOK
<1>4. pending \in [Keys -> (0 .. Ttl) \cup {None}]
  BY ReservationFields DEF Kept, Rows, Shaped
<1>5. counts \in Counts
  <2> HIDE DEF pending
  <2> QED BY <1>2, <1>4, CountKeys DEF Counts
<1> HIDE DEF files, counts
<1>6. census' \in [Listeners -> Counts \cup {None}] /\ census'[l] = counts
      /\ \A o \in Listeners \ {l} : census'[o] = census[o]
  BY <1>1, <1>5 DEF Shaped, TypeOK
<1>7. Turn(l, "idle", my[l])  BY <1>1, TurnGoto DEF Shaped, Steps
<1>8. TypeOK'  BY <1>1, <1>3, <1>6, <1>7 DEF Shaped, TypeOK, Turn
<1>9. Served(l)' /\ LateIsOut(l)'
  BY <1>1, <1>5, <1>6, <1>7 DEF Served, LateIsOut, Turn, Serving, Bodied
<1> QED BY <1>1, <1>6, <1>7, <1>8, <1>9, ShapedTurn

LEMMA ShapedCrash ==
  ASSUME Shaped, NEW l \in Listeners, Crash(l)
  PROVE  Shaped'
<1>1. /\ faults < crew.faults /\ faults' = faults + 1
      /\ census' = [census EXCEPT ![l] = None] /\ shelf' = [shelf EXCEPT ![l] = None]
      /\ my' = [my EXCEPT ![l] = None] /\ Goto(l, "down")
      /\ UNCHANGED <<crew, live, policy, changes, res, pubs, ptrs, rcpts, vault, staged>>
      /\ UNCHANGED <<told, repeats, trimmed>>
  BY DEF Crash, env, published, history
<1>2. Turn(l, "down", None)  BY <1>1, TurnTo DEF Shaped, Steps
<1>3. faults' \in 0 .. MaxFaults
  BY <1>1, CaptureAssumption DEF Shaped, TypeOK
<1>4. TypeOK'  BY <1>1, <1>2, <1>3 DEF Shaped, TypeOK, Turn
<1>5. Served(l)' /\ LateIsOut(l)'  BY <1>2 DEF Served, LateIsOut, Turn, Serving, Bodied
<1>6. \A o \in Listeners \ {l} : census'[o] = census[o]  BY <1>1 DEF Shaped, TypeOK
<1> QED BY <1>1, <1>2, <1>4, <1>5, <1>6, ShapedTurn

LEMMA ShapedFail ==
  ASSUME Shaped, NEW l \in Listeners, Fail(l)
  PROVE  Shaped'
<1>1. /\ at[l] \in Serving /\ faults < crew.faults /\ faults' = faults + 1 /\ Finished(l)
      /\ pubs' \in {pubs, [pubs EXCEPT ![KeyOf[my[l].cap]] = None]}
      /\ UNCHANGED <<crew, live, policy, changes, res, ptrs, rcpts, vault, staged, census, shelf>>
      /\ UNCHANGED <<told, repeats, trimmed>>
  BY CaptureAssumption DEF Fail, env, published, history, Serving, Steps
<1>2. Turn(l, "idle", None)  BY <1>1, TurnIdle DEF Shaped
<1>3. faults' \in 0 .. MaxFaults
  BY <1>1, CaptureAssumption DEF Shaped, TypeOK
<1>4. TypeOK'  BY <1>1, <1>2, <1>3, ServingFacts DEF Shaped, TypeOK, Turn
<1>5. at[l] # "down" /\ census'[l] \in Counts  BY <1>1, ServingFacts DEF Serving
<1> QED BY <1>1, <1>2, <1>4, <1>5, ShapedIdle

\* The request a listener admits.
LEMMA Admitted ==
  ASSUME Shaped, NEW l \in Listeners, NEW c \in Captures, Admit(l, c)
  PROVE  /\ live /\ at[l] = "idle" /\ c \in crew.captures
         /\ repeats' \in 0 .. MaxRepeats
         /\ \E m \in Request : Turn(l, "lookup", m) /\ m.cap = c /\ ~ m.late /\ m.created = {}
         /\ UNCHANGED <<crew, live, policy, changes, res, pubs, ptrs, rcpts, vault, staged>>
         /\ UNCHANGED <<census, shelf, told, trimmed, faults>>
<1> DEFINE i == CHOOSE r \in Receipts \ UsedReceipts : TRUE
           m == [cap |-> c, id |-> i, found |-> FALSE,
                 over |-> FALSE, age |-> 0, created |-> {}, body |-> None, late |-> FALSE]
<1>1. /\ live /\ at[l] = "idle" /\ c \in crew.captures /\ Receipts \ UsedReceipts # {}
      /\ IF Answered(c) THEN repeats < MaxRepeats /\ repeats' = repeats + 1 ELSE UNCHANGED repeats
      /\ my' = [my EXCEPT ![l] = m] /\ Goto(l, "lookup")
      /\ UNCHANGED <<crew, live, policy, changes, res, pubs, ptrs, rcpts, vault, staged>>
      /\ UNCHANGED <<census, shelf, told, trimmed, faults>>
  BY DEF Admit, env, published
<1>2. i \in Receipts  BY <1>1
<1> HIDE DEF i
<1>3. m \in Request /\ m.cap = c /\ ~ m.late /\ m.created = {}
  BY <1>2, CaptureAssumption DEF Request
<1> HIDE DEF m
<1>4. Turn(l, "lookup", m)  BY <1>1, <1>3, TurnTo DEF Shaped, Steps
<1>5. repeats' \in 0 .. MaxRepeats  BY <1>1, CaptureAssumption DEF Shaped, TypeOK
<1> QED BY <1>1, <1>3, <1>4, <1>5

LEMMA ShapedAdmit ==
  ASSUME Shaped, NEW l \in Listeners, NEW c \in Captures, Admit(l, c)
  PROVE  Shaped'
<1>1. /\ live /\ at[l] = "idle"
      /\ repeats' \in 0 .. MaxRepeats
      /\ UNCHANGED <<crew, live, policy, changes, res, pubs, ptrs, rcpts, vault, staged>>
      /\ UNCHANGED <<census, shelf, told, trimmed, faults>>
  BY Admitted
<1>2. PICK m \in Request : Turn(l, "lookup", m) /\ ~ m.late  BY Admitted
<1>3. TypeOK'  BY <1>1, <1>2 DEF Shaped, TypeOK, Turn
<1>4. census'[l] \in Counts  BY <1>1 DEF Shaped, Served
<1> QED BY <1>1, <1>2, <1>3, <1>4, ShapedServing DEF Serving, Steps, Bodied

-----------------------------------------------------------------------------
(* The way in. *)

\* What PublishedForKey comes to: nothing is published, the request is refused,
\* there is a receipt, or the record has none.
LEMMA LookedUp ==
  ASSUME Shaped, NEW l \in Listeners, Lookup(l)
  PROVE  /\ at[l] = "lookup"
         /\ UNCHANGED <<crew, live, policy, changes, res, pubs, rcpts, vault, staged, census, shelf>>
         /\ UNCHANGED <<told, repeats, trimmed, faults>>
         /\ \/ ptrs' = ptrs
            \/ LET k == KeyOf[my[l].cap]
               IN pubs[k] # None /\ ptrs[IdOf[pubs[k]]] \in {None, k}
                  /\ ptrs' = [ptrs EXCEPT ![IdOf[pubs[k]]] = k]
         /\ \E m \in Request, s \in {"reserve", "answer", "finish"} :
              /\ Turn(l, s, m) /\ Bears(m, my[l], m.body)
              /\ \/ s = "reserve"
                 \/ s = "answer" /\ m.body \in Body /\ m.body.cap = m.cap
                       /\ m.body.verdict \in {"internal", "conflict"}
                 \/ s = "finish" /\ rcpts[KeyOf[m.cap]] # None /\ m.body = rcpts[KeyOf[m.cap]]
<1> DEFINE k == KeyOf[my[l].cap]
<1>1. /\ at[l] = "lookup"
      /\ UNCHANGED <<crew, live, policy, changes, res, pubs, rcpts, vault, staged, census, shelf>>
      /\ UNCHANGED <<told, repeats, trimmed, faults>>
  BY DEF Lookup, env, history
<1>2. my[l] \in Request /\ k \in Keys /\ TypeOK
  BY <1>1, ServingFacts DEF Shaped, Serving, Steps
<1>3. CASE Goto(l, "reserve") /\ UNCHANGED <<ptrs, my>>
  <2>1. Turn(l, "reserve", my[l]) /\ Bears(my[l], my[l], my[l].body)
    BY <1>2, <1>3, TurnGoto DEF Steps, Bears
  <2> QED BY <1>1, <1>2, <1>3, <2>1
<1>4. CASE pubs[k] # None /\ Refuse(l, "internal") /\ UNCHANGED ptrs
  <2>1. PICK m \in Request : Turn(l, "answer", m) /\ Bears(m, my[l], m.body)
             /\ m.body \in Body /\ m.body.cap = my[l].cap /\ m.body.verdict = "internal"
    BY <1>2, <1>4, TurnWith DEF Steps, Verdicts, Refuse
  <2> QED BY <1>1, <1>4, <2>1 DEF Bears
<1>5. CASE /\ pubs[k] # None /\ ptrs[IdOf[pubs[k]]] \in {None, k}
           /\ ptrs' = [ptrs EXCEPT ![IdOf[pubs[k]]] = k]
           /\ Refuse(l, "conflict")
  <2>1. PICK m \in Request : Turn(l, "answer", m) /\ Bears(m, my[l], m.body)
             /\ m.body \in Body /\ m.body.cap = my[l].cap /\ m.body.verdict = "conflict"
    <3>1. With(l, "conflict", "answer")  BY <1>5 DEF Refuse
    <3> QED BY <1>2, <3>1, TurnWith DEF Steps, Verdicts
  <2> QED BY <1>1, <1>5, <2>1 DEF Bears
<1>6. CASE /\ pubs[k] # None /\ ptrs[IdOf[pubs[k]]] \in {None, k}
           /\ ptrs' = [ptrs EXCEPT ![IdOf[pubs[k]]] = k]
           /\ rcpts[k] # None /\ my' = [my EXCEPT ![l].body = rcpts[k]] /\ Goto(l, "finish")
  <2>1. rcpts[k] \in Body  BY <1>2, <1>6 DEF TypeOK
  <2>2. PICK m \in Request : Turn(l, "finish", m) /\ Bears(m, my[l], rcpts[k])
    BY <1>2, <1>6, <2>1, TurnBody DEF Steps
  <2> QED BY <1>1, <1>6, <2>2 DEF Bears
<1>7. CASE /\ pubs[k] # None /\ ptrs[IdOf[pubs[k]]] \in {None, k}
           /\ ptrs' = [ptrs EXCEPT ![IdOf[pubs[k]]] = k]
           /\ my' = [my EXCEPT ![l].found = TRUE] /\ Goto(l, "reserve")
  <2> DEFINE m == [my[l] EXCEPT !.found = TRUE]
  <2>1. m \in Request /\ Bears(m, my[l], m.body)
    <3>1. m \in Request /\ m.cap = my[l].cap /\ m.id = my[l].id /\ m.created = my[l].created
          /\ m.late = my[l].late /\ m.age = my[l].age /\ m.body = my[l].body
      BY <1>2 DEF Request
    <3> QED BY <3>1 DEF Bears
  <2>2. my' = [my EXCEPT ![l] = m]  BY <1>2, <1>7 DEF TypeOK
  <2> HIDE DEF m
  <2>3. Turn(l, "reserve", m)  BY <1>2, <1>7, <2>1, <2>2, TurnTo DEF Steps
  <2> QED BY <1>1, <1>7, <2>1, <2>3
<1> QED BY <1>3, <1>4, <1>5, <1>6, <1>7 DEF Lookup

LEMMA ShapedLookup ==
  ASSUME Shaped, NEW l \in Listeners, Lookup(l)
  PROVE  Shaped'
<1>1. /\ at[l] = "lookup"
      /\ UNCHANGED <<crew, live, policy, changes, res, pubs, rcpts, vault, staged, census, shelf>>
      /\ UNCHANGED <<told, repeats, trimmed, faults>>
  BY LookedUp
<1>2. PICK m \in Request, s \in {"reserve", "answer", "finish"} :
         /\ Turn(l, s, m) /\ Bears(m, my[l], m.body)
         /\ \/ s = "reserve"
            \/ s = "answer" /\ m.body \in Body /\ m.body.cap = m.cap
                  /\ m.body.verdict \in {"internal", "conflict"}
            \/ s = "finish" /\ rcpts[KeyOf[m.cap]] # None /\ m.body = rcpts[KeyOf[m.cap]]
  BY LookedUp
<1>3. /\ my[l] \in Request /\ census[l] \in Counts /\ KeyOf[my[l].cap] \in Keys
      /\ m.cap = my[l].cap /\ m.late = my[l].late /\ ~ my[l].late
  BY <1>1, <1>2, ServingFacts DEF Serving, Steps, Bears, Shaped, LateIsOut
<1>4. s \in Bodied => m.body \in Body  BY <1>2, <1>3 DEF Shaped, TypeOK, Bodied
<1>5. ptrs' \in [Ids -> Keys \cup {None}]
  <2>1. CASE ptrs' = ptrs  BY <2>1 DEF Shaped, TypeOK
  <2>2. ASSUME NEW i, ptrs' = [ptrs EXCEPT ![i] = KeyOf[my[l].cap]] PROVE ptrs' \in [Ids -> Keys \cup {None}]
    BY <1>3, <2>2 DEF Shaped, TypeOK
  <2> QED BY <2>1, <2>2, LookedUp
<1>6. TypeOK'  BY <1>1, <1>2, <1>5 DEF Shaped, TypeOK, Turn
<1>7. s \in Serving /\ at[l] # "down" /\ s \in Steps  BY <1>1, <1>2 DEF Serving, Steps
<1> QED BY <1>1, <1>2, <1>3, <1>4, <1>6, <1>7, ShapedServing

\* SettleFromReplay settles the reservation of the same capture, or nothing.
LEMMA FinishFacts ==
  ASSUME Shaped, NEW l \in Listeners, Finish(l)
  PROVE  /\ at[l] = "finish" /\ Turn(l, "answer", my[l])
         /\ UNCHANGED <<crew, live, policy, changes, pubs, ptrs, rcpts, vault, staged, shelf>>
         /\ UNCHANGED <<told, repeats, trimmed, faults>>
         /\ census'[l] \in Counts /\ census' \in [Listeners -> Counts \cup {None}]
         /\ \A o \in Listeners \ {l} : census'[o] = census[o]
         /\ \/ res' = res
            \/ \E r \in Reservation :
                  /\ res' = [res EXCEPT ![KeyOf[my[l].cap]] = r]
                  /\ r.cap = my[l].cap /\ r.body = my[l].body
<1> DEFINE k == KeyOf[my[l].cap]
           r == [res[k] EXCEPT !.body = my[l].body]
           counts == [census[l] EXCEPT !.pending = [census[l].pending EXCEPT ![k] = None]]
<1>1. /\ at[l] = "finish" /\ Goto(l, "answer")
      /\ UNCHANGED <<crew, live, policy, changes, pubs, ptrs, rcpts, vault, staged, shelf, my>>
      /\ UNCHANGED <<told, repeats, trimmed, faults>>
  BY DEF Finish, env, published, history
<1>2. my[l] \in Request /\ my[l].body \in Body /\ k \in Keys /\ census[l] \in Counts
  BY <1>1, ServingFacts DEF Serving, Steps, Bodied
<1>3. Turn(l, "answer", my[l])  BY <1>1, TurnGoto DEF Shaped, Steps
<1>4. CASE UNCHANGED <<res, census>>
  BY <1>1, <1>2, <1>3, <1>4 DEF Shaped, TypeOK
<1>5. CASE /\ Pending(k) /\ res[k].cap = my[l].cap
           /\ res' = [res EXCEPT ![k].body = my[l].body]
           /\ census' = [census EXCEPT ![l].pending[k] = None]
  <2>1. res[k] \in Reservation  BY <1>2, <1>5, ReservationFields DEF Shaped, Pending
  <2>2. r \in Reservation /\ r.cap = my[l].cap /\ r.body = my[l].body
    BY <1>2, <1>5, <2>1 DEF Reservation
  <2>3. counts \in Counts  BY <1>2 DEF Counts
  <2>4. res' = [res EXCEPT ![k] = r] /\ census' = [census EXCEPT ![l] = counts]
    BY <1>5
  <2> HIDE DEF r, counts
  <2>5. /\ census'[l] \in Counts /\ census' \in [Listeners -> Counts \cup {None}]
        /\ \A o \in Listeners \ {l} : census'[o] = census[o]
    BY <2>3, <2>4 DEF Shaped, TypeOK
  <2> QED BY <1>1, <1>3, <2>2, <2>4, <2>5
<1> QED BY <1>4, <1>5 DEF Finish

LEMMA ShapedFinish ==
  ASSUME Shaped, NEW l \in Listeners, Finish(l)
  PROVE  Shaped'
<1>1. /\ at[l] = "finish" /\ Turn(l, "answer", my[l])
      /\ UNCHANGED <<crew, live, policy, changes, pubs, ptrs, rcpts, vault, staged, shelf>>
      /\ UNCHANGED <<told, repeats, trimmed, faults>>
      /\ census'[l] \in Counts /\ census' \in [Listeners -> Counts \cup {None}]
      /\ \A o \in Listeners \ {l} : census'[o] = census[o]
  BY FinishFacts
<1>2. /\ my[l] \in Request /\ my[l].body \in Body /\ ~ my[l].late /\ KeyOf[my[l].cap] \in Keys
  BY <1>1, ServingFacts DEF Serving, Steps, Bodied, Shaped, LateIsOut
<1>3. res' \in [Keys -> Reservation \cup {None}]  BY FinishFacts, <1>2 DEF Shaped, TypeOK
<1>4. TypeOK'  BY <1>1, <1>3 DEF Shaped, TypeOK, Turn
<1>5. "answer" \in Serving /\ at[l] # "down"  BY <1>1 DEF Serving, Steps
<1> QED BY <1>1, <1>2, <1>4, <1>5, ShapedServing

-----------------------------------------------------------------------------
(* Reserve. *)

LEMMA TrimmedKeys ==
  ASSUME NEW files, NEW total, NEW k \in Keys, NEW drop \in TrimmedTo(files, total, k)
  PROVE  drop \in SUBSET Keys
  BY DEF TrimmedTo

\* What a reservation does to the files: those of other keys stay or go, and the
\* key's own stays, goes or is this capture's, without an answer.
Reserves(k, c) ==
    /\ res' \in [Keys -> Reservation \cup {None}]
    /\ \A j \in Keys \ {k} : res'[j] \in {res[j], None}
    /\ \/ res'[k] \in {res[k], None}
       \/ res'[k] \in Reservation /\ res'[k].cap = c /\ res'[k].body = None

Recounts(l) ==
    /\ census' \in [Listeners -> Counts \cup {None}] /\ census'[l] \in Counts
    /\ \A o \in Listeners \ {l} : census'[o] = census[o]

\* A claim under way, with the age of its reservation.
LEMMA TurnClaim ==
  ASSUME TypeOK, NEW l \in Listeners, my[l] \in Request, NEW s \in Steps, NEW o \in BOOLEAN,
         Goto(l, s), my' = [my EXCEPT ![l].over = o, ![l].age = 0, ![l].late = ~ live]
  PROVE  \E m \in Request :
            Turn(l, s, m) /\ m.cap = my[l].cap /\ m.created = my[l].created /\ m.body = my[l].body
              /\ m.late = ~ live
<1> DEFINE m == [my[l] EXCEPT !.over = o, !.age = 0, !.late = ~ live]
<1>1. live \in BOOLEAN /\ 0 \in 0 .. Ttl  BY CaptureAssumption DEF TypeOK
<1>2. my' = [my EXCEPT ![l] = m]  BY DEF TypeOK
<1>3. m \in Request /\ m.cap = my[l].cap /\ m.created = my[l].created /\ m.body = my[l].body
  BY <1>1 DEF Request
<1>4. m.late = ~ live
  <2>1. my[l] \in [cap: Captures, id: Receipts, found: BOOLEAN, over: BOOLEAN, age: 0..Ttl,
            created: SUBSET {"record", "pointer"}, body: Body \cup {None}, late: BOOLEAN]
    BY DEF Request
  <2> QED BY <2>1
<1> HIDE DEF m
<1> QED BY <1>2, <1>3, <1>4, TurnTo

\* How a Reserve ends, for the request.
Reserved(l) ==
    \E m \in Request \cup {None}, s \in {"idle", "live", "published", "answer", "backfill"} :
       /\ Turn(l, s, m)
       /\ \/ s = "idle" /\ m = None
          \/ /\ s \in {"live", "published"} /\ m \in Request /\ m.cap = my[l].cap
             /\ m.created = my[l].created /\ m.late = ~ live
          \/ /\ s = "answer" /\ Bears(m, my[l], m.body) /\ m.body \in Body /\ m.body.cap = my[l].cap
             /\ m.body.verdict = "conflict"
          \/ /\ s \in {"answer", "backfill"}
             /\ LET k == KeyOf[my[l].cap]
                IN res[k] # None /\ res[k].body # None /\ Bears(m, my[l], res[k].body)

LEMMA FreshFacts ==
  ASSUME Shaped, NEW l \in Listeners, at[l] = "reserve", NEW k \in Keys, k = KeyOf[my[l].cap],
         ReserveFresh(l, k)
  PROVE  Reserves(k, my[l].cap) /\ Recounts(l) /\ Reserved(l)
<1> DEFINE dead == res[k] # None
           pending == [census[l].pending EXCEPT ![k] = IF dead THEN None ELSE @]
           swept == Swept(pending)
           left == [j \in Keys |-> IF j \in swept THEN None ELSE pending[j]]
           total0 == IF dead THEN Less(census[l].total, 1) ELSE census[l].total
           total1 == Less(total0, Cardinality(swept))
           files == [j \in Keys |-> IF j \in swept \/ (j = k /\ dead) THEN None ELSE res[j]]
           new == [cap |-> my[l].cap, age |-> 0, body |-> None]
           written == [files EXCEPT ![k] = new]
<1>1. /\ my[l] \in Request /\ census[l] \in Counts /\ my[l].cap \in Captures /\ TypeOK
  BY ServingFacts DEF Serving, Steps, Shaped
<1>2. pending \in [Keys -> (0 .. Ttl) \cup {None}]  BY <1>1, CountFields
<1>3. swept \in SUBSET Keys  BY DEF Swept
<1>4. left \in [Keys -> (0 .. Ttl) \cup {None}]  BY <1>2
<1>5. total0 \in Nat  BY <1>1, CountFields, LessIsNat
<1>6. total1 \in Nat  BY <1>3, <1>5, CountKeys, LessIsNat
<1>7. files \in [Keys -> Reservation \cup {None}] /\ \A j \in Keys : files[j] \in {res[j], None}
  BY <1>1 DEF TypeOK
<1>8. new \in Reservation /\ new.cap = my[l].cap /\ new.body = None
  BY <1>1, CaptureAssumption DEF Reservation
<1>9. \/ /\ res' = files
         /\ census' = [census EXCEPT ![l] = [total |-> total1, pending |-> left]]
         /\ Finished(l)
      \/ /\ \E drop \in TrimmedTo(written, total1 + 1, k) :
              /\ res' = [j \in Keys |-> IF j \in drop THEN None ELSE written[j]]
              /\ census' = [census EXCEPT ![l] =
                   [total |-> Less(total1 + 1, Cardinality(drop)),
                    pending |-> [j \in Keys |-> IF j = k THEN 0
                                                ELSE IF j \in drop THEN None ELSE left[j]]]]
         /\ my' = [my EXCEPT ![l].over = FALSE, ![l].age = 0, ![l].late = ~ live]
         /\ Goto(l, "live")
  BY DEF ReserveFresh
<1> HIDE DEF pending, swept, left, total0, total1, files, new
<1>10. CASE /\ res' = files
            /\ census' = [census EXCEPT ![l] = [total |-> total1, pending |-> left]]
            /\ Finished(l)
  <2> DEFINE counts == [total |-> total1, pending |-> left]
  <2>1. counts \in Counts  BY <1>4, <1>6 DEF Counts
  <2> HIDE DEF counts
  <2>2. Recounts(l)  BY <1>1, <1>10, <2>1 DEF Recounts, TypeOK, counts
  <2>3. Reserves(k, my[l].cap)  BY <1>7, <1>10 DEF Reserves
  <2>4. Turn(l, "idle", None)  BY <1>1, <1>10, TurnIdle
  <2> QED BY <2>2, <2>3, <2>4 DEF Reserved
<1>11. ASSUME NEW drop \in TrimmedTo(written, total1 + 1, k),
              res' = [j \in Keys |-> IF j \in drop THEN None ELSE written[j]],
              census' = [census EXCEPT ![l] =
                   [total |-> Less(total1 + 1, Cardinality(drop)),
                    pending |-> [j \in Keys |-> IF j = k THEN 0
                                                ELSE IF j \in drop THEN None ELSE left[j]]]],
              my' = [my EXCEPT ![l].over = FALSE, ![l].age = 0, ![l].late = ~ live],
              Goto(l, "live")
       PROVE  Reserves(k, my[l].cap) /\ Recounts(l) /\ Reserved(l)
  <2> DEFINE p == [j \in Keys |-> IF j = k THEN 0 ELSE IF j \in drop THEN None ELSE left[j]]
             counts == [total |-> Less(total1 + 1, Cardinality(drop)), pending |-> p]
  <2>1. drop \in SUBSET Keys  BY <1>11, TrimmedKeys
  <2>2. p \in [Keys -> (0 .. Ttl) \cup {None}]  BY <1>4, CaptureAssumption
  <2>3. Less(total1 + 1, Cardinality(drop)) \in Nat  BY <1>6, <2>1, CountKeys, LessIsNat
  <2> HIDE DEF p
  <2>4. counts \in Counts  BY <2>2, <2>3 DEF Counts
  <2>5. census' = [census EXCEPT ![l] = counts]  BY <1>11 DEF p
  <2> HIDE DEF counts
  <2>6. Recounts(l)  BY <1>1, <2>4, <2>5 DEF Recounts, TypeOK
  <2>7. written \in [Keys -> Reservation \cup {None}] /\ written[k] = new
        /\ \A j \in Keys \ {k} : written[j] = files[j]
    BY <1>7, <1>8
  <2> HIDE DEF written
  <2>8. /\ res' \in [Keys -> Reservation \cup {None}]
        /\ \A j \in Keys \ {k} : res'[j] \in {res[j], None}
        /\ res'[k] \in {new, None}
    BY <1>7, <1>11, <2>7
  <2>9. Reserves(k, my[l].cap)  BY <1>8, <2>8 DEF Reserves
  <2>10. PICK m \in Request : Turn(l, "live", m) /\ m.cap = my[l].cap /\ m.created = my[l].created
               /\ m.late = ~ live
    BY <1>1, <1>11, TurnClaim DEF Steps
  <2> QED BY <2>6, <2>9, <2>10 DEF Reserved
<1> QED BY <1>9, <1>10, <1>11

LEMMA HeldFacts ==
  ASSUME Shaped, NEW l \in Listeners, at[l] = "reserve", NEW k \in Keys, k = KeyOf[my[l].cap],
         res[k] # None, ReserveHeld(l, k)
  PROVE  Reserves(k, my[l].cap) /\ Recounts(l) /\ Reserved(l)
<1>1. /\ my[l] \in Request /\ census[l] \in Counts /\ my[l].cap \in Captures /\ TypeOK
      /\ res[k] \in Reservation
  BY ServingFacts, ReservationFields DEF Serving, Steps, Shaped
<1>2. UNCHANGED <<res, census>> => Reserves(k, my[l].cap) /\ Recounts(l)
  BY <1>1 DEF Reserves, Recounts, TypeOK
<1>3. CASE Refuse(l, "conflict") /\ UNCHANGED <<res, census>>
  <2>1. With(l, "conflict", "answer")  BY <1>3 DEF Refuse
  <2>2. PICK m \in Request : /\ Turn(l, "answer", m) /\ Bears(m, my[l], m.body)
             /\ m.body \in Body /\ m.body.cap = my[l].cap /\ m.body.verdict = "conflict"
    BY <1>1, <2>1, TurnWith DEF Steps, Verdicts
  <2> QED BY <1>2, <1>3, <2>2 DEF Reserved
<1>4. CASE /\ res[k].body # None /\ my' = [my EXCEPT ![l].body = res[k].body]
           /\ Goto(l, IF my[l].found THEN "backfill" ELSE "answer")
           /\ UNCHANGED <<res, census>>
  <2>1. PICK s \in {"backfill", "answer"} : Goto(l, s)  BY <1>4
  <2>2. res[k].body \in Body  BY <1>1, <1>4, ReservationFields
  <2>3. PICK m \in Request : Turn(l, s, m) /\ Bears(m, my[l], res[k].body)
    BY <1>1, <1>4, <2>1, <2>2, TurnBody DEF Steps
  <2> QED BY <1>2, <1>4, <2>1, <2>3 DEF Reserved
<1>5. CASE Finished(l) /\ UNCHANGED <<res, census>>
  <2>1. Turn(l, "idle", None)  BY <1>1, <1>5, TurnIdle
  <2> QED BY <1>2, <1>5, <2>1 DEF Reserved
<1>6. ASSUME res[k].body = None,
             NEW drop \in TrimmedTo(res, census[l].total, k),
             res' = [j \in Keys |-> IF j = k THEN [res[k] EXCEPT !.age = 0]
                                    ELSE IF j \in drop THEN None ELSE res[j]],
             census' = [census EXCEPT ![l].total = Less(@, Cardinality(drop)),
                   ![l].pending = [j \in Keys |-> IF j = k THEN 0
                                                  ELSE IF j \in drop THEN None ELSE @[j]]],
             my' = [my EXCEPT ![l].over = TRUE, ![l].age = 0, ![l].late = ~ live],
             Goto(l, "published"), res[k].cap = my[l].cap
      PROVE  Reserves(k, my[l].cap) /\ Recounts(l) /\ Reserved(l)
  <2> DEFINE p == [j \in Keys |-> IF j = k THEN 0 ELSE IF j \in drop THEN None ELSE census[l].pending[j]]
             n == Less(census[l].total, Cardinality(drop))
             counts == [census[l] EXCEPT !.total = n, !.pending = p]
             r == [res[k] EXCEPT !.age = 0]
  <2>1. drop \in SUBSET Keys  BY <1>6, TrimmedKeys
  <2>2. p \in [Keys -> (0 .. Ttl) \cup {None}]  BY <1>1, CountFields, CaptureAssumption
  <2>3. n \in Nat  BY <1>1, <2>1, CountFields, CountKeys, LessIsNat
  <2>4. census' = [census EXCEPT ![l] = counts]  BY <1>1, <1>6 DEF TypeOK, Counts
  <2> HIDE DEF p, n
  <2>5. counts \in Counts  BY <1>1, <2>2, <2>3 DEF Counts
  <2> HIDE DEF counts
  <2>6. Recounts(l)  BY <1>1, <2>4, <2>5 DEF Recounts, TypeOK
  <2>7. r \in Reservation /\ r.cap = my[l].cap /\ r.body = None
    <3>1. res[k] \in Reservation /\ res[k].cap = my[l].cap /\ res[k].body = None
      BY <1>1, <1>6
    <3>2. 0 \in 0 .. Ttl
      BY CaptureAssumption
    <3> QED
      BY <3>1, <3>2 DEF Reservation
  <2>8. res' = [j \in Keys |-> IF j = k THEN r ELSE IF j \in drop THEN None ELSE res[j]]
    BY <1>6
  <2> HIDE DEF r
  <2>9. Reserves(k, my[l].cap)  BY <1>1, <2>7, <2>8 DEF Reserves, TypeOK
  <2>10. PICK m \in Request : Turn(l, "published", m) /\ m.cap = my[l].cap /\ m.created = my[l].created
               /\ m.late = ~ live
    BY <1>1, <1>6, TurnClaim DEF Steps
  <2> QED BY <2>6, <2>9, <2>10 DEF Reserved
<1> QED BY <1>3, <1>4, <1>5, <1>6 DEF ReserveHeld

LEMMA ReserveFacts ==
  ASSUME Shaped, NEW l \in Listeners, Reserve(l)
  PROVE  /\ at[l] = "reserve" /\ Reserves(KeyOf[my[l].cap], my[l].cap) /\ Recounts(l) /\ Reserved(l)
         /\ UNCHANGED <<crew, live, policy, changes, pubs, ptrs, rcpts, vault, staged, shelf>>
         /\ UNCHANGED <<told, repeats, trimmed, faults>>
<1>1. /\ at[l] = "reserve"
      /\ UNCHANGED <<crew, live, policy, changes, pubs, ptrs, rcpts, vault, staged, shelf>>
      /\ UNCHANGED <<told, repeats, trimmed, faults>>
  BY DEF Reserve, env, published, history
<1>2. KeyOf[my[l].cap] \in Keys  BY <1>1, ServingFacts DEF Serving, Steps
<1>3. CASE KeyOf[my[l].cap] \in Kept /\ ReserveHeld(l, KeyOf[my[l].cap])
  BY <1>1, <1>2, <1>3, HeldFacts DEF Kept, Rows
<1>4. CASE ReserveFresh(l, KeyOf[my[l].cap])
  BY <1>1, <1>2, <1>4, FreshFacts
<1> QED BY <1>1, <1>3, <1>4 DEF Reserve

LEMMA ShapedReserve ==
  ASSUME Shaped, NEW l \in Listeners, Reserve(l)
  PROVE  Shaped'
<1>1. /\ at[l] = "reserve" /\ Reserves(KeyOf[my[l].cap], my[l].cap) /\ Recounts(l) /\ Reserved(l)
      /\ UNCHANGED <<crew, live, policy, changes, pubs, ptrs, rcpts, vault, staged, shelf>>
      /\ UNCHANGED <<told, repeats, trimmed, faults>>
  BY ReserveFacts
<1>2. /\ ~ my[l].late /\ my[l].late \in BOOLEAN /\ at[l] # "down" /\ TypeOK
      /\ KeyOf[my[l].cap] \in Keys
  BY <1>1, ServingFacts DEF Shaped, LateIsOut, Serving, Steps
<1>3. PICK m \in Request \cup {None}, s \in {"idle", "live", "published", "answer", "backfill"} :
       /\ Turn(l, s, m)
       /\ \/ s = "idle" /\ m = None
          \/ /\ s \in {"live", "published"} /\ m \in Request /\ m.cap = my[l].cap
             /\ m.created = my[l].created /\ m.late = ~ live
          \/ /\ s = "answer" /\ Bears(m, my[l], m.body) /\ m.body \in Body /\ m.body.cap = my[l].cap
             /\ m.body.verdict = "conflict"
          \/ /\ s \in {"answer", "backfill"}
             /\ LET k == KeyOf[my[l].cap]
                IN res[k] # None /\ res[k].body # None /\ Bears(m, my[l], res[k].body)
  BY <1>1 DEF Reserved
<1>4. TypeOK'  BY <1>1, <1>3 DEF Shaped, TypeOK, Turn, Reserves, Recounts
<1>5. CASE s = "idle"
  BY <1>1, <1>2, <1>3, <1>4, <1>5, ShapedIdle DEF Recounts
<1>6. CASE s \in {"live", "published"} /\ m \in Request /\ m.late = ~ live
  <2>1. s \in Serving /\ s \notin Bodied  BY <1>6 DEF Serving, Steps, Bodied
  <2> QED BY <1>1, <1>2, <1>3, <1>4, <1>6, <2>1, ShapedServing DEF Recounts
<1>7. CASE s = "answer" /\ Bears(m, my[l], m.body) /\ m.body \in Body
  <2>1. s \in Serving  BY <1>7 DEF Serving, Steps
  <2> QED BY <1>1, <1>2, <1>3, <1>4, <1>7, <2>1, ShapedServing DEF Recounts, Bears
<1>8. CASE /\ s \in {"answer", "backfill"}
           /\ res[KeyOf[my[l].cap]] # None /\ res[KeyOf[my[l].cap]].body # None
           /\ Bears(m, my[l], res[KeyOf[my[l].cap]].body)
  <2>1. s \in Serving  BY <1>8 DEF Serving, Steps
  <2>2. m \in Request /\ m.body \in Body /\ ~ m.late
    BY <1>2, <1>8, ReservationFields DEF Bears
  <2> QED BY <1>1, <1>2, <1>3, <1>4, <2>1, <2>2, ShapedServing DEF Recounts
<1> QED BY <1>3, <1>5, <1>6, <1>7, <1>8

-----------------------------------------------------------------------------
(* The vault and the published store. *)

OutOfIt == {"live", "published", "receipt", "trim", "tidy", "settle", "answer"}

\* A listener goes on with its request as it is, or with an answer.
Proceeds(l, s) == Turn(l, s, my[l])
Answers(l, v, s) ==
    \E m \in Request : /\ Turn(l, s, m) /\ Bears(m, my[l], m.body)
                       /\ m.body \in Body /\ m.body.cap = my[l].cap /\ m.body.verdict = v

LEMMA WithAnswers ==
  ASSUME Shaped, NEW l \in Listeners, at[l] \in Serving, NEW v \in Verdicts, NEW s \in Steps, With(l, v, s)
  PROVE  Answers(l, v, s)
  BY TurnWith, ServingFacts DEF Shaped, Answers

LEMMA GotoProceeds ==
  ASSUME Shaped, NEW l \in Listeners, NEW s \in Steps, Goto(l, s), UNCHANGED my
  PROVE  Proceeds(l, s)
  BY TurnGoto DEF Shaped, Proceeds

LEMMA ShapedProceeds ==
  ASSUME Shaped, NEW l \in Listeners, at[l] \in Serving, NEW s \in Serving, Proceeds(l, s),
         UNCHANGED <<crew, live, census>>, TypeOK',
         s \in Bodied => my[l].body \in Body,
         my[l].late => s \in OutOfIt
  PROVE  Shaped'
<1>1. my[l] \in Request /\ census[l] \in Counts /\ at[l] # "down" /\ s \in Steps
  BY ServingFacts DEF Serving
<1>2. my[l].late => ~ live  BY DEF Shaped, LateIsOut
<1> QED BY <1>1, <1>2, ShapedServing DEF Proceeds, OutOfIt

LEMMA ShapedAnswers ==
  ASSUME Shaped, NEW l \in Listeners, at[l] \in Serving, NEW s \in Serving, NEW v, Answers(l, v, s),
         UNCHANGED <<crew, live, census>>, TypeOK',
         my[l].late => s \in OutOfIt
  PROVE  Shaped'
<1>1. census[l] \in Counts /\ at[l] # "down" /\ s \in Steps
  BY ServingFacts DEF Serving
<1>2. my[l].late => ~ live  BY DEF Shaped, LateIsOut
<1>3. PICK m \in Request : Turn(l, s, m) /\ Bears(m, my[l], m.body) /\ m.body \in Body
  BY DEF Answers
<1> QED BY <1>1, <1>2, <1>3, ShapedServing DEF Bears, OutOfIt

LEMMA PublishedFacts ==
  ASSUME Shaped, NEW l \in Listeners, Published(l)
  PROVE  /\ at[l] = "published"
         /\ \/ Proceeds(l, "live")
            \/ Answers(l, "internal", "settle")
            \/ Answers(l, "applied", "receipt") /\ vault[IdOf[my[l].cap]] = my[l].cap
         /\ UNCHANGED <<crew, live, policy, changes, res, pubs, ptrs, rcpts, vault, staged, census, shelf>>
         /\ UNCHANGED <<told, repeats, trimmed, faults>>
<1>1. /\ at[l] = "published" /\ at[l] \in Serving
      /\ UNCHANGED <<crew, live, policy, changes, res, pubs, ptrs, rcpts, vault, staged, census, shelf>>
      /\ UNCHANGED <<told, repeats, trimmed, faults>>
  BY DEF Published, env, published, history, Serving, Steps
<1>2. \/ Goto(l, "live") /\ UNCHANGED my
      \/ Ours(my[l].cap) /\ With(l, "applied", "receipt")
      \/ With(l, "internal", "settle")
  BY DEF Published
<1> QED BY <1>1, <1>2, WithAnswers, GotoProceeds DEF Steps, Verdicts, Ours

LEMMA StillLiveFacts ==
  ASSUME Shaped, NEW l \in Listeners, StillLive(l)
  PROVE  /\ at[l] = "live"
         /\ (live /\ Proceeds(l, "publish")) \/ Answers(l, "unknown_device", "settle")
         /\ UNCHANGED <<crew, live, policy, changes, res, pubs, ptrs, rcpts, vault, staged, census, shelf>>
         /\ UNCHANGED <<told, repeats, trimmed, faults>>
<1>1. /\ at[l] = "live" /\ at[l] \in Serving
      /\ UNCHANGED <<crew, live, policy, changes, res, pubs, ptrs, rcpts, vault, staged, census, shelf>>
      /\ UNCHANGED <<told, repeats, trimmed, faults>>
  BY DEF StillLive, env, published, history, Serving, Steps
<1>2. \/ live /\ Goto(l, "publish") /\ UNCHANGED my
      \/ With(l, "unknown_device", "settle")
  BY DEF StillLive
<1> QED BY <1>1, <1>2, WithAnswers, GotoProceeds DEF Steps, Verdicts

LEMMA PublishFacts ==
  ASSUME Shaped, NEW l \in Listeners, Publish(l)
  PROVE  /\ at[l] = "publish"
         /\ \/ Proceeds(l, "claim")
            \/ Answers(l, "policy", "settle")
            \/ Answers(l, "accepted", "settle")
         /\ staged' \in {staged, staged \cup {my[l].cap}}
         /\ UNCHANGED <<crew, live, policy, changes, res, pubs, ptrs, rcpts, vault, census, shelf>>
         /\ UNCHANGED <<told, repeats, trimmed, faults>>
<1>1. /\ at[l] = "publish" /\ at[l] \in Serving
      /\ UNCHANGED <<crew, live, policy, changes, res, pubs, ptrs, rcpts, vault, census, shelf>>
      /\ UNCHANGED <<told, repeats, trimmed, faults>>
      /\ staged' \in {staged, staged \cup {my[l].cap}}
  BY DEF Publish, env, published, history, Serving, Steps
<1>2. \/ Goto(l, "claim") /\ UNCHANGED my
      \/ With(l, "policy", "settle") \/ With(l, "accepted", "settle")
  BY DEF Publish
<1> QED BY <1>1, <1>2, WithAnswers, GotoProceeds DEF Steps, Verdicts

LEMMA ClaimFacts ==
  ASSUME Shaped, NEW l \in Listeners, Claim(l)
  PROVE  /\ at[l] = "claim"
         /\ \/ Answers(l, "internal", "settle")
            \/ Proceeds(l, "pointer") /\ pubs[KeyOf[my[l].cap]] = my[l].cap
            \/ Proceeds(l, "link")
         /\ UNCHANGED <<crew, live, policy, changes, res, pubs, ptrs, rcpts, vault, staged, census, shelf>>
         /\ UNCHANGED <<told, repeats, trimmed, faults>>
<1>1. /\ at[l] = "claim" /\ at[l] \in Serving
      /\ UNCHANGED <<crew, live, policy, changes, res, pubs, ptrs, rcpts, vault, staged, census, shelf>>
      /\ UNCHANGED <<told, repeats, trimmed, faults>>
  BY DEF Claim, env, published, history, Serving, Steps
<1>2. \/ With(l, "internal", "settle")
      \/ pubs[KeyOf[my[l].cap]] = my[l].cap /\ Goto(l, "pointer") /\ UNCHANGED my
      \/ Goto(l, "link") /\ UNCHANGED my
  BY DEF Claim
<1> QED BY <1>1, <1>2, WithAnswers, GotoProceeds DEF Steps, Verdicts

LEMMA PointerFacts ==
  ASSUME Shaped, NEW l \in Listeners, Pointer(l)
  PROVE  /\ at[l] = "pointer"
         /\ \/ Proceeds(l, "create") \/ Proceeds(l, "write")
            \/ Answers(l, "internal", "rollback") /\ ptrs[IdOf[my[l].cap]] \notin {None, KeyOf[my[l].cap]}
         /\ UNCHANGED <<crew, live, policy, changes, res, pubs, ptrs, rcpts, vault, staged, census, shelf>>
         /\ UNCHANGED <<told, repeats, trimmed, faults>>
<1>1. /\ at[l] = "pointer" /\ at[l] \in Serving
      /\ UNCHANGED <<crew, live, policy, changes, res, pubs, ptrs, rcpts, vault, staged, census, shelf>>
      /\ UNCHANGED <<told, repeats, trimmed, faults>>
  BY DEF Pointer, env, published, history, Serving, Steps
<1>2. \/ Goto(l, "create") /\ UNCHANGED my
      \/ Goto(l, "write") /\ UNCHANGED my
      \/ With(l, "internal", "rollback") /\ ptrs[IdOf[my[l].cap]] \notin {None, KeyOf[my[l].cap]}
  BY DEF Pointer
<1> QED BY <1>1, <1>2, WithAnswers, GotoProceeds DEF Steps, Verdicts

LEMMA VerifyFacts ==
  ASSUME Shaped, NEW l \in Listeners, Verify(l)
  PROVE  /\ at[l] = "verify"
         /\ \/ Answers(l, "applied", "receipt") /\ vault[IdOf[my[l].cap]] = my[l].cap
            \/ Answers(l, "internal", "rollback") /\ ~ Ours(my[l].cap)
         /\ UNCHANGED <<crew, live, policy, changes, res, pubs, ptrs, rcpts, vault, staged, census, shelf>>
         /\ UNCHANGED <<told, repeats, trimmed, faults>>
<1>1. /\ at[l] = "verify" /\ at[l] \in Serving
      /\ UNCHANGED <<crew, live, policy, changes, res, pubs, ptrs, rcpts, vault, staged, census, shelf>>
      /\ UNCHANGED <<told, repeats, trimmed, faults>>
  BY DEF Verify, env, published, history, Serving, Steps
<1>2. \/ Ours(my[l].cap) /\ With(l, "applied", "receipt")
      \/ ~ Ours(my[l].cap) /\ With(l, "internal", "rollback")
  BY DEF Verify
<1> QED BY <1>1, <1>2, WithAnswers DEF Steps, Verdicts, Ours

\* After a step that changes no file but perhaps the proposals.
Quiet ==
    /\ UNCHANGED <<crew, live, policy, changes, res, pubs, ptrs, rcpts, vault, census, shelf>>
    /\ UNCHANGED <<told, repeats, trimmed, faults>>

LEMMA ShapedQuiet ==
  ASSUME Shaped, NEW l \in Listeners, at[l] \in Serving, staged' \in SUBSET Captures, Quiet,
         NEW s \in {"live", "publish", "claim", "pointer", "link", "create", "write",
                    "settle", "rollback", "receipt"},
         \/ Proceeds(l, s) /\ s \notin Bodied
         \/ \E v \in Verdicts : Answers(l, v, s),
         my[l].late => s \in OutOfIt
  PROVE  Shaped'
<1>1. TypeOK'
  <2>1. \E m : Turn(l, s, m)  BY DEF Proceeds, Answers
  <2> QED BY <2>1 DEF Turn, Shaped, TypeOK, Quiet
<1>2. s \in Serving  BY DEF Serving, Steps
<1>3. CASE Proceeds(l, s) /\ s \notin Bodied
  BY <1>1, <1>2, <1>3, ShapedProceeds DEF Quiet
<1>4. ASSUME NEW v \in Verdicts, Answers(l, v, s) PROVE Shaped'
  BY <1>1, <1>2, <1>4, ShapedAnswers DEF Quiet
<1> QED BY <1>3, <1>4

LEMMA ShapedPublished ==
  ASSUME Shaped, NEW l \in Listeners, Published(l)
  PROVE  Shaped'
<1>1. Quiet /\ staged' \in SUBSET Captures /\ at[l] \in Serving
  BY PublishedFacts DEF Quiet, Shaped, TypeOK, Serving, Steps
<1> QED BY <1>1, PublishedFacts, ShapedQuiet DEF OutOfIt, Bodied, Verdicts

LEMMA ShapedStillLive ==
  ASSUME Shaped, NEW l \in Listeners, StillLive(l)
  PROVE  Shaped'
<1>1. Quiet /\ staged' \in SUBSET Captures /\ at[l] \in Serving
  BY StillLiveFacts DEF Quiet, Shaped, TypeOK, Serving, Steps
<1>2. live => ~ my[l].late  BY <1>1 DEF Shaped, LateIsOut
<1>3. CASE live /\ Proceeds(l, "publish")
  BY <1>1, <1>2, <1>3, ShapedQuiet DEF Bodied
<1>4. CASE Answers(l, "unknown_device", "settle")
  BY <1>1, <1>4, ShapedQuiet DEF OutOfIt, Verdicts
<1> QED BY <1>3, <1>4, StillLiveFacts

LEMMA ShapedPublish ==
  ASSUME Shaped, NEW l \in Listeners, Publish(l)
  PROVE  Shaped'
<1>1. Quiet /\ at[l] = "publish" /\ at[l] \in Serving
  BY PublishFacts DEF Quiet, Serving, Steps
<1>2. ~ my[l].late /\ staged' \in SUBSET Captures
  BY <1>1, PublishFacts, ServingFacts DEF Shaped, LateIsOut, TypeOK
<1> QED BY <1>1, <1>2, PublishFacts, ShapedQuiet DEF Bodied, Verdicts

LEMMA ShapedClaim ==
  ASSUME Shaped, NEW l \in Listeners, Claim(l)
  PROVE  Shaped'
<1>1. Quiet /\ at[l] = "claim" /\ at[l] \in Serving /\ staged' \in SUBSET Captures
  BY ClaimFacts DEF Quiet, Serving, Steps, Shaped, TypeOK
<1>2. ~ my[l].late  BY <1>1 DEF Shaped, LateIsOut
<1> QED BY <1>1, <1>2, ClaimFacts, ShapedQuiet DEF Bodied, Verdicts

LEMMA ShapedPointer ==
  ASSUME Shaped, NEW l \in Listeners, Pointer(l)
  PROVE  Shaped'
<1>1. Quiet /\ at[l] = "pointer" /\ at[l] \in Serving /\ staged' \in SUBSET Captures
  BY PointerFacts DEF Quiet, Serving, Steps, Shaped, TypeOK
<1>2. ~ my[l].late  BY <1>1 DEF Shaped, LateIsOut
<1> QED BY <1>1, <1>2, PointerFacts, ShapedQuiet DEF Bodied, Verdicts

LEMMA ShapedVerify ==
  ASSUME Shaped, NEW l \in Listeners, Verify(l)
  PROVE  Shaped'
<1>1. Quiet /\ at[l] = "verify" /\ at[l] \in Serving /\ staged' \in SUBSET Captures
  BY VerifyFacts DEF Quiet, Serving, Steps, Shaped, TypeOK
<1>2. ~ my[l].late  BY <1>1 DEF Shaped, LateIsOut
<1> QED BY <1>1, <1>2, VerifyFacts, ShapedQuiet DEF Bodied, Verdicts

\* The link that one of two can make.
LEMMA LinkFacts ==
  ASSUME Shaped, NEW l \in Listeners, Link(l)
  PROVE  /\ at[l] = "link"
         /\ UNCHANGED <<crew, live, policy, changes, res, ptrs, rcpts, vault, staged, census, shelf>>
         /\ UNCHANGED <<told, repeats, trimmed, faults>>
         /\ \/ /\ pubs[KeyOf[my[l].cap]] = None
               /\ pubs' = [pubs EXCEPT ![KeyOf[my[l].cap]] = my[l].cap]
               /\ \E m \in Request : /\ Turn(l, "pointer", m) /\ m.cap = my[l].cap
                                     /\ m.late = my[l].late /\ m.created = {"record"}
            \/ /\ pubs' = pubs
               /\ \/ Proceeds(l, "write") /\ pubs[KeyOf[my[l].cap]] = my[l].cap
                  \/ Answers(l, "internal", "settle")
<1>1. /\ at[l] = "link" /\ at[l] \in Serving
      /\ UNCHANGED <<crew, live, policy, changes, res, ptrs, rcpts, vault, staged, census, shelf>>
      /\ UNCHANGED <<told, repeats, trimmed, faults>>
  BY DEF Link, env, history, Serving, Steps
<1>2. \/ /\ pubs[KeyOf[my[l].cap]] = None
         /\ pubs' = [pubs EXCEPT ![KeyOf[my[l].cap]] = my[l].cap]
         /\ my' = [my EXCEPT ![l].created = {"record"}] /\ Goto(l, "pointer")
      \/ /\ pubs' = pubs
         /\ \/ Goto(l, "write") /\ UNCHANGED my /\ pubs[KeyOf[my[l].cap]] = my[l].cap
            \/ With(l, "internal", "settle")
  BY DEF Link
<1>3. CASE my' = [my EXCEPT ![l].created = {"record"}] /\ Goto(l, "pointer")
  <2> DEFINE m == [my[l] EXCEPT !.created = {"record"}]
  <2>1. my' = [my EXCEPT ![l] = m]  BY <1>3 DEF Shaped, TypeOK
  <2>2. m \in Request /\ m.cap = my[l].cap /\ m.late = my[l].late /\ m.created = {"record"}
    BY <1>1, ServingFacts DEF Request
  <2> HIDE DEF m
  <2>3. Turn(l, "pointer", m)  BY <1>3, <2>1, <2>2, TurnTo DEF Shaped, Steps
  <2> QED BY <1>1, <1>2, <2>2, <2>3, WithAnswers, GotoProceeds DEF Steps, Verdicts
<1> QED BY <1>1, <1>2, <1>3, WithAnswers, GotoProceeds DEF Steps, Verdicts

LEMMA ShapedLink ==
  ASSUME Shaped, NEW l \in Listeners, Link(l)
  PROVE  Shaped'
<1>1. /\ at[l] = "link" /\ at[l] \in Serving /\ at[l] # "down"
      /\ UNCHANGED <<crew, live, policy, changes, res, ptrs, rcpts, vault, staged, census, shelf>>
      /\ UNCHANGED <<told, repeats, trimmed, faults>>
  BY LinkFacts DEF Serving, Steps
<1>2. ~ my[l].late /\ my[l].cap \in Captures /\ census[l] \in Counts
  BY <1>1, ServingFacts DEF Shaped, LateIsOut
<1>3. pubs' \in [Keys -> Captures \cup {None}]
  BY <1>2, LinkFacts DEF Shaped, TypeOK
<1>4. \A s, m : Turn(l, s, m) => TypeOK'
  BY <1>1, <1>3 DEF Turn, Shaped, TypeOK
<1>5. ASSUME NEW m \in Request, Turn(l, "pointer", m), m.late = my[l].late
      PROVE  Shaped'
  BY <1>1, <1>2, <1>4, <1>5, ShapedServing DEF Serving, Steps, Bodied
<1>6. CASE Proceeds(l, "write")
  <2>1. TypeOK'  BY <1>4, <1>6 DEF Proceeds
  <2> QED BY <1>1, <1>2, <1>6, <2>1, ShapedProceeds DEF Serving, Steps, Bodied
<1>7. CASE Answers(l, "internal", "settle")
  <2>1. TypeOK'  BY <1>4, <1>7 DEF Answers
  <2> QED BY <1>1, <1>2, <1>7, <2>1, ShapedAnswers DEF Serving, Steps
<1> QED BY <1>5, <1>6, <1>7, LinkFacts

LEMMA CreateFacts ==
  ASSUME Shaped, NEW l \in Listeners, Create(l)
  PROVE  /\ at[l] = "create"
         /\ UNCHANGED <<crew, live, policy, changes, res, pubs, rcpts, vault, staged, census, shelf>>
         /\ UNCHANGED <<told, repeats, trimmed, faults>>
         /\ ptrs' \in {ptrs, [ptrs EXCEPT ![IdOf[my[l].cap]] = KeyOf[my[l].cap]]}
         /\ \E m \in Request : /\ Turn(l, "write", m) /\ m.cap = my[l].cap /\ m.late = my[l].late
                               /\ m.created \in {my[l].created, my[l].created \cup {"pointer"}}
<1>1. /\ at[l] = "create" /\ my[l] \in Request /\ Goto(l, "write")
      /\ UNCHANGED <<crew, live, policy, changes, res, pubs, rcpts, vault, staged, census, shelf>>
      /\ UNCHANGED <<told, repeats, trimmed, faults>>
  BY ServingFacts DEF Create, env, history, Serving, Steps
<1>2. \/ /\ ptrs' = [ptrs EXCEPT ![IdOf[my[l].cap]] = KeyOf[my[l].cap]]
         /\ my' = [my EXCEPT ![l].created = @ \cup {"pointer"}]
      \/ UNCHANGED <<ptrs, my>>
  BY DEF Create
<1>3. CASE UNCHANGED <<ptrs, my>>
  <2>1. Turn(l, "write", my[l])  BY <1>1, <1>3, TurnGoto DEF Shaped, Steps
  <2> QED BY <1>1, <1>3, <2>1
<1>4. CASE /\ ptrs' = [ptrs EXCEPT ![IdOf[my[l].cap]] = KeyOf[my[l].cap]]
           /\ my' = [my EXCEPT ![l].created = @ \cup {"pointer"}]
  <2> DEFINE made == my[l].created \cup {"pointer"}
             m == [my[l] EXCEPT !.created = made]
  <2>1. my' = [my EXCEPT ![l] = m]  BY <1>4 DEF Shaped, TypeOK
  <2>2. made \in SUBSET {"record", "pointer"}  BY <1>1, RequestFields
  <2> HIDE DEF made
  <2>3. m \in Request /\ m.cap = my[l].cap /\ m.late = my[l].late /\ m.created = made
    BY <1>1, <2>2 DEF Request
  <2> HIDE DEF m
  <2>4. Turn(l, "write", m)  BY <1>1, <2>1, <2>3, TurnTo DEF Shaped, Steps
  <2> QED BY <1>1, <1>4, <2>3, <2>4 DEF made
<1> QED BY <1>2, <1>3, <1>4

LEMMA ShapedCreate ==
  ASSUME Shaped, NEW l \in Listeners, Create(l)
  PROVE  Shaped'
<1>1. /\ at[l] = "create" /\ at[l] \in Serving /\ at[l] # "down"
      /\ UNCHANGED <<crew, live, policy, changes, res, pubs, rcpts, vault, staged, census, shelf>>
      /\ UNCHANGED <<told, repeats, trimmed, faults>>
  BY CreateFacts DEF Serving, Steps
<1>2. ~ my[l].late /\ KeyOf[my[l].cap] \in Keys /\ census[l] \in Counts
  BY <1>1, ServingFacts DEF Shaped, LateIsOut
<1>3. ptrs' \in [Ids -> Keys \cup {None}]
  BY <1>2, CreateFacts DEF Shaped, TypeOK
<1>4. PICK m \in Request : Turn(l, "write", m) /\ m.late = my[l].late
  BY CreateFacts
<1>5. TypeOK'  BY <1>1, <1>3, <1>4 DEF Turn, Shaped, TypeOK
<1> QED BY <1>1, <1>2, <1>4, <1>5, ShapedServing DEF Serving, Steps, Bodied

LEMMA RollbackFacts ==
  ASSUME Shaped, NEW l \in Listeners, Rollback(l)
  PROVE  /\ at[l] = "rollback" /\ Proceeds(l, "settle")
         /\ pubs' = IF "record" \in my[l].created THEN [pubs EXCEPT ![KeyOf[my[l].cap]] = None] ELSE pubs
         /\ ptrs' \in {ptrs, [ptrs EXCEPT ![IdOf[my[l].cap]] = None]}
         /\ UNCHANGED <<crew, live, policy, changes, res, rcpts, vault, staged, census, shelf>>
         /\ UNCHANGED <<told, repeats, trimmed, faults>>
  BY GotoProceeds DEF Rollback, env, history, Steps

LEMMA ShapedRollback ==
  ASSUME Shaped, NEW l \in Listeners, Rollback(l)
  PROVE  Shaped'
<1>1. /\ at[l] = "rollback" /\ at[l] \in Serving /\ Proceeds(l, "settle")
      /\ pubs' \in {pubs, [pubs EXCEPT ![KeyOf[my[l].cap]] = None]}
      /\ ptrs' \in {ptrs, [ptrs EXCEPT ![IdOf[my[l].cap]] = None]}
      /\ UNCHANGED <<crew, live, policy, changes, res, rcpts, vault, staged, census, shelf>>
      /\ UNCHANGED <<told, repeats, trimmed, faults>>
  BY RollbackFacts DEF Serving, Steps
<1>2. pubs' \in [Keys -> Captures \cup {None}] /\ ptrs' \in [Ids -> Keys \cup {None}]
  BY <1>1 DEF Shaped, TypeOK
<1>3. TypeOK'  BY <1>1, <1>2 DEF Proceeds, Turn, Shaped, TypeOK
<1>4. my[l].body \in Body  BY <1>1, ServingFacts DEF Bodied
<1> QED BY <1>1, <1>3, <1>4, ShapedProceeds DEF Serving, Steps, OutOfIt

LEMMA WriteFacts ==
  ASSUME Shaped, NEW l \in Listeners, Write(l)
  PROVE  /\ at[l] = "write"
         /\ UNCHANGED <<crew, live, policy, changes, res, pubs, ptrs, rcpts, staged, census, shelf>>
         /\ UNCHANGED <<told, repeats, trimmed, faults>>
         /\ \/ /\ vault[IdOf[my[l].cap]] = None
               /\ vault' = [vault EXCEPT ![IdOf[my[l].cap]] = my[l].cap]
               /\ Answers(l, "applied", "receipt")
            \/ vault[IdOf[my[l].cap]] # None /\ vault' = vault /\ Proceeds(l, "verify")
<1>1. /\ at[l] = "write" /\ at[l] \in Serving
      /\ UNCHANGED <<crew, live, policy, changes, res, pubs, ptrs, rcpts, staged, census, shelf>>
      /\ UNCHANGED <<told, repeats, trimmed, faults>>
  BY DEF Write, env, published, history, Serving, Steps
<1>2. \/ /\ vault[IdOf[my[l].cap]] = None
         /\ vault' = [vault EXCEPT ![IdOf[my[l].cap]] = my[l].cap]
         /\ With(l, "applied", "receipt")
      \/ vault[IdOf[my[l].cap]] # None /\ vault' = vault /\ Goto(l, "verify") /\ UNCHANGED my
  BY DEF Write
<1> QED BY <1>1, <1>2, WithAnswers, GotoProceeds DEF Steps, Verdicts

LEMMA ShapedWrite ==
  ASSUME Shaped, NEW l \in Listeners, Write(l)
  PROVE  Shaped'
<1>1. /\ at[l] = "write" /\ at[l] \in Serving
      /\ UNCHANGED <<crew, live, policy, changes, res, pubs, ptrs, rcpts, staged, census, shelf>>
      /\ UNCHANGED <<told, repeats, trimmed, faults>>
  BY WriteFacts DEF Serving, Steps
<1>2. ~ my[l].late /\ my[l].cap \in Captures
  BY <1>1, ServingFacts DEF Shaped, LateIsOut
<1>3. vault' \in [Ids -> Captures \cup {None}]  BY <1>2, WriteFacts DEF Shaped, TypeOK
<1>4. CASE Answers(l, "applied", "receipt")
  <2>1. TypeOK'  BY <1>1, <1>3, <1>4 DEF Answers, Turn, Shaped, TypeOK
  <2> QED BY <1>1, <1>2, <1>4, <2>1, ShapedAnswers DEF Serving, Steps
<1>5. CASE Proceeds(l, "verify")
  <2>1. TypeOK'  BY <1>1, <1>3, <1>5 DEF Proceeds, Turn, Shaped, TypeOK
  <2> QED BY <1>1, <1>2, <1>5, <2>1, ShapedProceeds DEF Serving, Steps, Bodied
<1> QED BY <1>4, <1>5, WriteFacts

-----------------------------------------------------------------------------
(* The receipt. *)

\* The first receipt beside a record stays, and is the answer.
LEMMA RecordFacts ==
  ASSUME Shaped, NEW l \in Listeners, at[l] \in {"receipt", "backfill"}, NEW next \in {"trim", "tidy"},
         Record(l, next)
  PROVE  \/ /\ rcpts' = rcpts /\ Turn(l, "idle", None)
         \/ /\ rcpts' = [rcpts EXCEPT ![KeyOf[my[l].cap]] =
                             IF rcpts[KeyOf[my[l].cap]] = None THEN my[l].body ELSE @]
            /\ \E m \in Request :
                 /\ Turn(l, next, m) /\ Bears(m, my[l], m.body) /\ m.body \in Body
                 /\ m.body = IF next = "trim" /\ rcpts[KeyOf[my[l].cap]] # None
                             THEN rcpts[KeyOf[my[l].cap]] ELSE my[l].body
<1> DEFINE k == KeyOf[my[l].cap]
           b == IF next = "trim" /\ rcpts[k] # None THEN rcpts[k] ELSE my[l].body
<1>1. my[l] \in Request /\ my[l].body \in Body /\ k \in Keys /\ TypeOK
  BY ServingFacts DEF Serving, Steps, Bodied, Shaped
<1>2. CASE Finished(l) /\ UNCHANGED rcpts
  BY <1>1, <1>2, TurnIdle
<1>3. CASE /\ rcpts' = IF rcpts[k] = None THEN [rcpts EXCEPT ![k] = my[l].body] ELSE rcpts
           /\ my' = [my EXCEPT ![l].body = IF next = "trim" /\ rcpts[k] # None THEN rcpts[k] ELSE @]
           /\ Goto(l, next)
  <2>1. b \in Body  BY <1>1 DEF TypeOK
  <2>2. my' = [my EXCEPT ![l].body = b]  BY <1>1, <1>3 DEF TypeOK
  <2> HIDE DEF b
  <2>3. PICK m \in Request : Turn(l, next, m) /\ Bears(m, my[l], b)
    <3>1. next \in Steps /\ Goto(l, next) /\ b \in Body \cup {None}  BY <1>3, <2>1 DEF Steps
    <3> QED BY <1>1, <2>2, <3>1, TurnBody
  <2>4. rcpts' = [rcpts EXCEPT ![k] = IF rcpts[k] = None THEN my[l].body ELSE @]
    BY <1>1, <1>3 DEF TypeOK
  <2>5. m.body = b /\ Bears(m, my[l], m.body)  BY <2>3 DEF Bears
  <2> QED BY <2>1, <2>3, <2>4, <2>5 DEF b
<1> QED BY <1>2, <1>3 DEF Record

LEMMA ShapedRecord ==
  ASSUME Shaped, NEW l \in Listeners, at[l] \in {"receipt", "backfill"}, NEW next \in {"trim", "tidy"},
         Record(l, next),
         UNCHANGED <<crew, live, policy, changes, res, pubs, ptrs, vault, staged, census, shelf>>,
         UNCHANGED <<told, repeats, trimmed, faults>>
  PROVE  Shaped'
<1>1. /\ my[l] \in Request /\ my[l].body \in Body /\ KeyOf[my[l].cap] \in Keys /\ TypeOK
      /\ at[l] # "down" /\ census[l] \in Counts /\ at[l] \in Serving
  BY ServingFacts DEF Serving, Steps, Bodied, Shaped
<1>2. rcpts' \in [Keys -> Body \cup {None}]
  BY <1>1, RecordFacts DEF TypeOK
<1>3. \A s, m : Turn(l, s, m) => TypeOK'  BY <1>1, <1>2 DEF Turn, TypeOK
<1>4. my[l].late => ~ live  BY <1>1 DEF Shaped, LateIsOut
<1>5. CASE Turn(l, "idle", None)
  BY <1>1, <1>3, <1>5, ShapedIdle
<1>6. ASSUME NEW m \in Request, Turn(l, next, m), Bears(m, my[l], m.body), m.body \in Body
      PROVE  Shaped'
  <2>1. m.late = my[l].late /\ next \in Serving  BY <1>6 DEF Bears, Serving, Steps
  <2> QED BY <1>1, <1>3, <1>4, <1>6, <2>1, ShapedServing
<1> QED BY <1>5, <1>6, RecordFacts

LEMMA ShapedReceipt ==
  ASSUME Shaped, NEW l \in Listeners, Receipt(l)
  PROVE  Shaped'
  BY ShapedRecord DEF Receipt, env, history

LEMMA ShapedBackfill ==
  ASSUME Shaped, NEW l \in Listeners, Backfill(l)
  PROVE  Shaped'
  BY ShapedRecord DEF Backfill, env, history

\* What is dropped over the cap is dropped from all three places, and noted.
LEMMA TrimFacts ==
  ASSUME Shaped, NEW l \in Listeners, Trim(l)
  PROVE  /\ at[l] \in {"trim", "tidy"} /\ (Proceeds(l, "settle") \/ Proceeds(l, "answer"))
         /\ UNCHANGED <<crew, live, policy, changes, res, vault, staged, census>>
         /\ UNCHANGED <<told, repeats, faults>>
         /\ shelf' \in [Listeners -> [Captures -> {"none", "open", "answered"}] \cup {None}]
         /\ \E drop \in SUBSET Captures :
              /\ pubs' = [k \in Keys |-> IF \E c \in drop : KeyOf[c] = k THEN None ELSE pubs[k]]
              /\ rcpts' = [k \in Keys |-> IF \E c \in drop : KeyOf[c] = k THEN None ELSE rcpts[k]]
              /\ ptrs' = [i \in Ids |-> IF \E c \in drop : IdOf[c] = i THEN None ELSE ptrs[i]]
              /\ trimmed' = trimmed \cup {KeyOf[c] : c \in drop}
<1> DEFINE known == Counted(l)
           all == {c \in Captures : known[c] # "none"}
           spare == {c \in all : known[c] = "answered" /\ IdOf[c] # IdOf[my[l].cap]}
<1>1. /\ at[l] \in {"trim", "tidy"} /\ (Goto(l, "settle") \/ Goto(l, "answer"))
      /\ UNCHANGED <<crew, live, policy, changes, res, vault, staged, census, my>>
      /\ UNCHANGED <<told, repeats, faults>>
  BY DEF Trim, env
<1>2. PICK drop \in SUBSET spare :
         /\ pubs' = [k \in Keys |-> IF \E c \in drop : KeyOf[c] = k THEN None ELSE pubs[k]]
         /\ rcpts' = [k \in Keys |-> IF \E c \in drop : KeyOf[c] = k THEN None ELSE rcpts[k]]
         /\ ptrs' = [i \in Ids |-> IF \E c \in drop : IdOf[c] = i THEN None ELSE ptrs[i]]
         /\ shelf' = [shelf EXCEPT ![l] = [c \in Captures |-> IF c \in drop THEN "none" ELSE known[c]]]
         /\ trimmed' = trimmed \cup {KeyOf[c] : c \in drop}
  BY DEF Trim
<1>3. drop \in SUBSET Captures  OBVIOUS
<1>4. known \in [Captures -> {"none", "open", "answered"}]
  BY DEF Counted, Shaped, TypeOK
<1> HIDE DEF known
<1>5. shelf' \in [Listeners -> [Captures -> {"none", "open", "answered"}] \cup {None}]
  BY <1>2, <1>4 DEF Shaped, TypeOK
<1>6. Proceeds(l, "settle") \/ Proceeds(l, "answer")  BY <1>1, GotoProceeds DEF Steps
<1> QED BY <1>1, <1>2, <1>3, <1>5, <1>6

LEMMA ShapedTrim ==
  ASSUME Shaped, NEW l \in Listeners, Trim(l)
  PROVE  Shaped'
<1>1. /\ at[l] \in {"trim", "tidy"} /\ at[l] \in Serving
      /\ Proceeds(l, "settle") \/ Proceeds(l, "answer")
      /\ UNCHANGED <<crew, live, policy, changes, res, vault, staged, census>>
      /\ UNCHANGED <<told, repeats, faults>>
      /\ shelf' \in [Listeners -> [Captures -> {"none", "open", "answered"}] \cup {None}]
  BY TrimFacts DEF Serving, Steps
<1>2. PICK drop \in SUBSET Captures :
              /\ pubs' = [k \in Keys |-> IF \E c \in drop : KeyOf[c] = k THEN None ELSE pubs[k]]
              /\ rcpts' = [k \in Keys |-> IF \E c \in drop : KeyOf[c] = k THEN None ELSE rcpts[k]]
              /\ ptrs' = [i \in Ids |-> IF \E c \in drop : IdOf[c] = i THEN None ELSE ptrs[i]]
              /\ trimmed' = trimmed \cup {KeyOf[c] : c \in drop}
  BY TrimFacts
<1>3. /\ pubs' \in [Keys -> Captures \cup {None}] /\ rcpts' \in [Keys -> Body \cup {None}]
      /\ ptrs' \in [Ids -> Keys \cup {None}] /\ trimmed' \subseteq Keys
  BY <1>2, CaptureAssumption DEF Shaped, TypeOK
<1>4. TypeOK'  BY <1>1, <1>3 DEF Proceeds, Turn, Shaped, TypeOK
<1>5. my[l].body \in Body  BY <1>1, ServingFacts DEF Bodied
<1> QED BY <1>1, <1>4, <1>5, ShapedProceeds DEF Serving, Steps, OutOfIt

LEMMA SettleFacts ==
  ASSUME Shaped, NEW l \in Listeners, Settle(l)
  PROVE  /\ at[l] = "settle" /\ Proceeds(l, "answer") /\ Recounts(l)
         /\ UNCHANGED <<crew, live, policy, changes, pubs, ptrs, rcpts, vault, staged, shelf>>
         /\ UNCHANGED <<told, repeats, trimmed, faults>>
         /\ \E r \in Reservation :
              /\ res' = [res EXCEPT ![KeyOf[my[l].cap]] = r]
              /\ r.cap = my[l].cap /\ r.body = my[l].body
<1> DEFINE k == KeyOf[my[l].cap]
           r == [cap |-> my[l].cap, age |-> my[l].age, body |-> my[l].body]
           counts == [census[l] EXCEPT !.pending = [census[l].pending EXCEPT ![k] = None]]
<1>1. /\ at[l] = "settle" /\ Goto(l, "answer")
      /\ res' = [res EXCEPT ![k] = r] /\ census' = [census EXCEPT ![l] = counts]
      /\ UNCHANGED <<crew, live, policy, changes, pubs, ptrs, rcpts, vault, staged, shelf, my>>
      /\ UNCHANGED <<told, repeats, trimmed, faults>>
  BY DEF Settle, env, published, history
<1>2. my[l] \in Request /\ my[l].body \in Body /\ census[l] \in Counts
  BY <1>1, ServingFacts DEF Serving, Steps, Bodied
<1>3. r \in Reservation /\ r.cap = my[l].cap /\ r.body = my[l].body
  BY <1>2, RequestFields DEF Reservation
<1>4. counts \in Counts  BY <1>2 DEF Counts
<1> HIDE DEF r, counts
<1>5. Recounts(l)  BY <1>1, <1>4 DEF Recounts, Shaped, TypeOK
<1>6. Proceeds(l, "answer")  BY <1>1, GotoProceeds DEF Steps
<1> QED BY <1>1, <1>3, <1>5, <1>6

LEMMA ShapedSettle ==
  ASSUME Shaped, NEW l \in Listeners, Settle(l)
  PROVE  Shaped'
<1>1. /\ at[l] = "settle" /\ at[l] \in Serving /\ at[l] # "down"
      /\ Turn(l, "answer", my[l]) /\ Recounts(l)
      /\ UNCHANGED <<crew, live, policy, changes, pubs, ptrs, rcpts, vault, staged, shelf>>
      /\ UNCHANGED <<told, repeats, trimmed, faults>>
  BY SettleFacts DEF Serving, Steps, Proceeds
<1>2. /\ my[l] \in Request /\ my[l].body \in Body /\ KeyOf[my[l].cap] \in Keys
      /\ my[l].late => ~ live
  BY <1>1, ServingFacts DEF Bodied, Shaped, LateIsOut
<1>3. res' \in [Keys -> Reservation \cup {None}]  BY <1>2, SettleFacts DEF Shaped, TypeOK
<1>4. TypeOK'  BY <1>1, <1>3 DEF Shaped, TypeOK, Turn, Recounts
<1> QED BY <1>1, <1>2, <1>4, ShapedServing DEF Serving, Steps, Recounts

LEMMA ReplyFacts ==
  ASSUME Shaped, NEW l \in Listeners, Reply(l)
  PROVE  /\ at[l] = "answer" /\ Turn(l, "idle", None)
         /\ UNCHANGED <<crew, live, policy, changes, res, pubs, ptrs, rcpts, vault, staged, census, shelf>>
         /\ UNCHANGED <<repeats, trimmed, faults>>
         /\ \E b \in Told : /\ told' = told \cup {b}
                            /\ Says(b) => b = my[l].body
                            /\ b.cap = my[l].body.cap /\ b.verdict = my[l].body.verdict
<1> DEFINE b == my[l].body
           x == IF b.verdict = "applied" THEN b ELSE [b EXCEPT !.id = None]
<1>1. /\ at[l] = "answer" /\ told' = told \cup {x} /\ Finished(l)
      /\ UNCHANGED <<crew, live, policy, changes, res, pubs, ptrs, rcpts, vault, staged, census, shelf>>
      /\ UNCHANGED <<repeats, trimmed, faults>>
  BY DEF Reply, env, published
<1>2. b \in Body  BY <1>1, ServingFacts DEF Serving, Steps, Bodied
<1> HIDE DEF b
<1>3. x \in Told /\ x.cap = b.cap /\ x.verdict = b.verdict /\ (Says(x) => x = b)
  <2>1. CASE b.verdict = "applied"  BY <1>2, <2>1 DEF Body, Told, Says
  <2>2. CASE b.verdict # "applied"
    <3> DEFINE y == [b EXCEPT !.id = None]
    <3>1. y \in Told /\ y.cap = b.cap /\ y.verdict = b.verdict  BY <1>2 DEF Body, Told
    <3> HIDE DEF y
    <3>2. x = y  BY <2>2 DEF y
    <3> QED BY <2>2, <3>1, <3>2 DEF Says
  <2> QED BY <2>1, <2>2
<1> HIDE DEF x
<1>4. Turn(l, "idle", None)  BY <1>1, TurnIdle DEF Shaped
<1> QED BY <1>1, <1>3, <1>4 DEF b

LEMMA ShapedReply ==
  ASSUME Shaped, NEW l \in Listeners, Reply(l)
  PROVE  Shaped'
<1>1. /\ at[l] = "answer" /\ Turn(l, "idle", None)
      /\ UNCHANGED <<crew, live, policy, changes, res, pubs, ptrs, rcpts, vault, staged, census, shelf>>
      /\ UNCHANGED <<repeats, trimmed, faults>>
      /\ told' \subseteq Told
  BY ReplyFacts DEF Shaped, TypeOK
<1>2. TypeOK'  BY <1>1 DEF Shaped, TypeOK, Turn
<1>3. at[l] # "down" /\ census[l] \in Counts  BY <1>1, ServingFacts DEF Serving, Steps
<1> QED BY <1>1, <1>2, <1>3, ShapedIdle

-----------------------------------------------------------------------------
(* The world outside. *)

\* What a request and a file are about does not age.
LEMMA TickFacts ==
  ASSUME Shaped, Tick
  PROVE  /\ UNCHANGED <<crew, live, policy, changes, pubs, ptrs, rcpts, vault, staged, shelf, at>>
         /\ UNCHANGED <<told, repeats, trimmed, faults>>
         /\ res' \in [Keys -> Reservation \cup {None}]
         /\ \A k \in Keys : \/ res[k] = None /\ res'[k] = None
                            \/ res[k] # None /\ res'[k].cap = res[k].cap /\ res'[k].body = res[k].body
         /\ census' \in [Listeners -> Counts \cup {None}]
         /\ \A l \in Listeners : census[l] \in Counts => census'[l] \in Counts
         /\ my' \in [Listeners -> Request \cup {None}]
         /\ \A l \in Listeners : at[l] \in Serving =>
              /\ my'[l] \in Request /\ my'[l].cap = my[l].cap /\ my'[l].body = my[l].body
              /\ my'[l].late = my[l].late /\ my'[l].created = my[l].created
<1> DEFINE old(c) == [k \in Keys |-> IF c.pending[k] = None THEN None ELSE Older(c.pending[k])]
           oldCount(c) == [c EXCEPT !.pending = old(c)]
           oldRes(r) == [r EXCEPT !.age = Older(r.age)]
           oldReq(m) == [m EXCEPT !.age = Older(m.age)]
<1>1. /\ UNCHANGED <<crew, live, policy, changes, pubs, ptrs, rcpts, vault, staged, shelf, at>>
      /\ UNCHANGED <<told, repeats, trimmed, faults>>
      /\ res' = [k \in Keys |-> IF res[k] = None THEN None ELSE oldRes(res[k])]
      /\ my' = [l \in Listeners |-> IF my[l] = None THEN None ELSE oldReq(my[l])]
  BY DEF Tick, env, published, history
<1>2. census' = [l \in Listeners |-> IF census[l] = None THEN None ELSE oldCount(census[l])]
  BY DEF Tick
<1>3. \A a \in 0 .. Ttl : Older(a) \in 0 .. Ttl  BY CaptureAssumption DEF Older
<1>4. \A r \in Reservation : oldRes(r) \in Reservation /\ oldRes(r).cap = r.cap /\ oldRes(r).body = r.body
  BY <1>3 DEF Reservation
<1>5. \A m \in Request : /\ oldReq(m) \in Request /\ oldReq(m).cap = m.cap /\ oldReq(m).body = m.body
                         /\ oldReq(m).late = m.late /\ oldReq(m).created = m.created
  BY <1>3 DEF Request
<1>6. \A c \in Counts : oldCount(c) \in Counts
  <2> SUFFICES ASSUME NEW c \in Counts PROVE oldCount(c) \in Counts  OBVIOUS
  <2>1. old(c) \in [Keys -> (0 .. Ttl) \cup {None}]  BY <1>3, CountFields
  <2> HIDE DEF old
  <2> QED BY <2>1 DEF Counts
<1> HIDE DEF oldRes, oldReq, oldCount
<1>7. /\ res' \in [Keys -> Reservation \cup {None}]
      /\ \A k \in Keys : \/ res[k] = None /\ res'[k] = None
                         \/ res[k] # None /\ res'[k].cap = res[k].cap /\ res'[k].body = res[k].body
  BY <1>1, <1>4 DEF Shaped, TypeOK
<1>8. /\ census' \in [Listeners -> Counts \cup {None}]
      /\ \A l \in Listeners : census[l] \in Counts /\ census[l] # None => census'[l] \in Counts
  BY <1>2, <1>6 DEF Shaped, TypeOK
<1>9. my' \in [Listeners -> Request \cup {None}]
  BY <1>1, <1>5 DEF Shaped, TypeOK
<1>10. ASSUME NEW l \in Listeners, at[l] \in Serving
       PROVE  /\ my'[l] \in Request /\ my'[l].cap = my[l].cap /\ my'[l].body = my[l].body
              /\ my'[l].late = my[l].late /\ my'[l].created = my[l].created
  <2>1. my[l] \in Request  BY <1>10, ServingFacts
  <2> QED BY <1>1, <1>5, <2>1
<1> QED BY <1>1, <1>7, <1>8, <1>9, <1>10

LEMMA ShapedTick ==
  ASSUME Shaped, Tick
  PROVE  Shaped'
<1>1. /\ UNCHANGED <<crew, live, policy, changes, pubs, ptrs, rcpts, vault, staged, shelf, at>>
      /\ UNCHANGED <<told, repeats, trimmed, faults>>
      /\ res' \in [Keys -> Reservation \cup {None}]
      /\ census' \in [Listeners -> Counts \cup {None}]
      /\ \A l \in Listeners : census[l] \in Counts => census'[l] \in Counts
      /\ my' \in [Listeners -> Request \cup {None}]
      /\ \A l \in Listeners : at[l] \in Serving =>
            /\ my'[l] \in Request /\ my'[l].body = my[l].body /\ my'[l].late = my[l].late
  BY TickFacts
<1>2. TypeOK'  BY <1>1 DEF Shaped, TypeOK
<1>3. \A l \in Listeners : Served(l)' /\ LateIsOut(l)'
  <2> SUFFICES ASSUME NEW l \in Listeners PROVE Served(l)' /\ LateIsOut(l)'  OBVIOUS
  <2>1. Served(l) /\ LateIsOut(l)  BY DEF Shaped
  <2>2. Bodied \subseteq Serving  BY DEF Bodied, Serving, Steps
  <2>3. Served(l)'  BY <1>1, <2>1, <2>2 DEF Served
  <2>4. LateIsOut(l)'  BY <1>1, <2>1 DEF LateIsOut
  <2> QED BY <2>3, <2>4
<1> QED BY <1>2, <1>3 DEF Shaped

LEMMA ShapedRevoke ==
  ASSUME Shaped, Revoke
  PROVE  Shaped'
<1>1. /\ UNCHANGED <<crew, policy, changes, res, pubs, ptrs, rcpts, vault, staged, census, shelf, at, my>>
      /\ UNCHANGED <<told, repeats, trimmed, faults>> /\ live' = FALSE
  BY DEF Revoke, published, history
<1>2. TypeOK'  BY <1>1 DEF Shaped, TypeOK
<1>3. \A l \in Listeners : Served(l)' /\ LateIsOut(l)'
  BY <1>1 DEF Shaped, Served, LateIsOut
<1> QED BY <1>2, <1>3 DEF Shaped

LEMMA ShapedSetPolicy ==
  ASSUME Shaped, NEW p \in Policies, SetPolicy(p)
  PROVE  Shaped'
<1>1. /\ UNCHANGED <<crew, live, res, pubs, ptrs, rcpts, vault, staged, census, shelf, at, my>>
      /\ UNCHANGED <<told, repeats, trimmed, faults>>
      /\ policy' = p /\ changes < MaxChanges /\ changes' = changes + 1
  BY DEF SetPolicy, published, history
<1>2. TypeOK'  BY <1>1, CaptureAssumption DEF Shaped, TypeOK
<1>3. \A l \in Listeners : Served(l)' /\ LateIsOut(l)'
  BY <1>1 DEF Shaped, Served, LateIsOut
<1> QED BY <1>2, <1>3 DEF Shaped

LEMMA ShapedListen ==
  ASSUME Shaped, NEW l \in Listeners, Listen(l)
  PROVE  Shaped'
  BY ShapedLookup, ShapedFinish, ShapedReserve, ShapedPublished, ShapedStillLive, ShapedPublish,
     ShapedClaim, ShapedLink, ShapedPointer, ShapedCreate, ShapedRollback, ShapedWrite, ShapedVerify,
     ShapedReceipt, ShapedBackfill, ShapedTrim, ShapedSettle, ShapedReply
  DEF Listen

LEMMA ShapedInit ==
  ASSUME Init
  PROVE  Shaped
<1>1. TypeOK  BY CaptureAssumption DEF Init, TypeOK, Steps
<1>2. \A l \in Listeners : Served(l) /\ LateIsOut(l)
  BY DEF Init, Served, LateIsOut, Serving, Bodied
<1> QED BY <1>1, <1>2 DEF Shaped

LEMMA ShapedNext ==
  ASSUME Shaped, [Next]_vars
  PROVE  Shaped'
<1>1. CASE UNCHANGED vars
  <2>1. /\ UNCHANGED <<crew, live, policy, changes, res, pubs, ptrs, rcpts, vault, staged, census, shelf>>
        /\ UNCHANGED <<at, my, told, repeats, trimmed, faults>>
    BY <1>1 DEF vars
  <2>2. TypeOK'  BY <2>1 DEF Shaped, TypeOK
  <2>3. \A l \in Listeners : Served(l)' /\ LateIsOut(l)'
    BY <2>1 DEF Shaped, Served, LateIsOut
  <2> QED BY <2>2, <2>3 DEF Shaped
<1>2. ASSUME NEW l \in Listeners, Start(l) \/ Crash(l) \/ Fail(l) \/ Listen(l) PROVE Shaped'
  BY <1>2, ShapedStart, ShapedCrash, ShapedFail, ShapedListen
<1>3. ASSUME NEW l \in Listeners, NEW c \in Captures, Admit(l, c) PROVE Shaped'
  BY <1>3, ShapedAdmit
<1>4. CASE Tick  BY <1>4, ShapedTick
<1>5. CASE Revoke  BY <1>5, ShapedRevoke
<1>6. ASSUME NEW p \in Policies, SetPolicy(p) PROVE Shaped'
  BY <1>6, ShapedSetPolicy
<1> QED BY <1>1, <1>2, <1>3, <1>4, <1>5, <1>6 DEF Next

\* Every handler, crash and failed operation leaves the files, the listeners'
\* counts, their requests and the answers in their types, for any number of
\* listeners over one state directory.
THEOREM CaptureTypeCorrect == Spec => []TypeOK
<1>1. Init => Shaped  BY ShapedInit
<1>2. Shaped /\ [Next]_vars => Shaped'  BY ShapedNext
<1>3. Shaped => TypeOK  BY DEF Shaped
<1> QED BY <1>1, <1>2, <1>3, PTL DEF Spec

\* stillLive stands between the reservation and every write: a request whose key
\* was reserved after the device was revoked changes neither the vault nor the
\* proposals, however long it had been in the listener.
THEOREM RevokedIsOut == Spec => RevokedWritesNothing
<1>1. Init => Shaped  BY ShapedInit
<1>2. Shaped /\ [Next]_vars => Shaped'  BY ShapedNext
<1>3. Shaped /\ [Next]_vars =>
        [\A l \in Listeners : my[l] # None /\ my[l].late =>
         ~ (at[l] \in {"publish", "write"} /\ at'[l] # at[l] /\ <<vault, staged>>' # <<vault, staged>>)]_vars
  BY DEF Shaped, LateIsOut, Serving, Steps
<1> QED BY <1>1, <1>2, <1>3, PTL DEF Spec, RevokedWritesNothing

-----------------------------------------------------------------------------
(* Truthful.                                                                *)

\* Neither the vault nor a receipt is taken back, except with its key.
Grows ==
    /\ crew' = crew /\ trimmed \subseteq trimmed'
    /\ \A k \in Keys : rcpts[k] # None => rcpts'[k] = rcpts[k] \/ k \in trimmed'
    /\ \A i \in Ids : vault[i] # None => vault'[i] = vault[i]

LEMMA StandsOn ==
  ASSUME Grows, NEW b \in Body, Stands(b)
  PROVE  Stands(b)'
<1>1. KeyOf[b.cap] \in Keys /\ b # None  BY BodyFields, CaptureAssumption
<1> QED BY <1>1 DEF Stands, Grows

LEMMA KnownStays ==
  ASSUME Shaped, Grows, NEW l \in Listeners, Known(l), at'[l] = at[l],
         at[l] \in Serving => my'[l].cap = my[l].cap /\ my'[l].body = my[l].body
  PROVE  Known(l)'
<1>1. Bodied \subseteq Serving  BY DEF Bodied, Serving, Steps
<1>2. RequestKeyed(l)'  BY <1>1 DEF Known, RequestKeyed, Grows
<1>3. CASE at[l] \in {"finish", "backfill", "trim", "tidy", "settle", "answer"} /\ Says(my[l].body)
  <2>1. my[l].body \in Body /\ at[l] \in Serving  BY <1>3, <1>1, ServingFacts DEF Bodied
  <2>2. Stands(my[l].body)'  BY <1>3, <2>1, StandsOn DEF Known, RequestStands
  <2> QED BY <1>2, <1>3, <2>1, <2>2 DEF Known, RequestStands, Stands
<1>4. CASE at[l] = "receipt"
  <2>1. at[l] \in Serving  BY <1>4 DEF Serving, Steps
  <2>2. my[l].cap \in Captures /\ IdOf[my[l].cap] \in Ids /\ my[l].cap # None
    BY <2>1, ServingFacts, CaptureAssumption
  <2> QED BY <1>2, <1>4, <2>1, <2>2 DEF Known, RequestStands, Grows
<1>5. CASE at[l] = "rollback"
  BY <1>2, <1>5 DEF Known, RequestStands, Says, Serving, Steps
<1>6. CASE /\ at[l] \notin {"receipt", "rollback"}
           /\ ~ (at[l] \in {"finish", "backfill", "trim", "tidy", "settle", "answer"} /\ Says(my[l].body))
  BY <1>1, <1>2, <1>6 DEF Known, RequestStands, Says, Bodied
<1> QED BY <1>3, <1>4, <1>5, <1>6

LEMMA AnswersStay ==
  ASSUME Shaped, AnswersStand, Grows, told' = told,
         \A k \in Keys : \/ res'[k] = None \/ res'[k].body = None
                         \/ res[k] # None /\ res'[k].body = res[k].body
                         \/ Says(res'[k].body) => res'[k].body \in Body /\ Stands(res[k].body)',
         \A k \in Keys : \/ rcpts'[k] \in {rcpts[k], None}
                         \/ Says(rcpts'[k]) => k \in trimmed' \/ vault'[IdOf[rcpts'[k].cap]] = rcpts'[k].cap
  PROVE  AnswersStand'
<1>1. ASSUME NEW k \in Keys, res'[k] # None, res'[k].body # None, Says(res'[k].body)
      PROVE  Stands(res[k].body)'
  <2>1. CASE res[k] # None /\ res'[k].body = res[k].body
    <3>1. res[k].body \in Body  BY <1>1, <2>1, ReservationFields DEF Shaped
    <3>2. Stands(res[k].body)  BY <1>1, <2>1 DEF AnswersStand
    <3>3. KeyOf[res[k].body.cap] \in Keys /\ res[k].body # None
      BY <3>1, BodyFields, CaptureAssumption
    <3> QED BY <2>1, <3>2, <3>3 DEF Stands, Grows
  <2> QED BY <1>1, <2>1
<1>2. \A b \in told : Says(b) => b \in Body /\ Stands(b)'
  BY StandsOn DEF AnswersStand
<1>3. ASSUME NEW k \in Keys, rcpts'[k] # None, Says(rcpts'[k])
      PROVE  k \in trimmed' \/ vault'[IdOf[rcpts'[k].cap]] = rcpts'[k].cap
  <2>1. CASE rcpts'[k] = rcpts[k]
    <3>1. rcpts[k] \in Body  BY <1>3, <2>1 DEF Shaped, TypeOK
    <3>2. rcpts[k].cap \in Captures /\ rcpts[k].cap # None /\ IdOf[rcpts[k].cap] \in Ids
      BY <3>1, BodyFields, CaptureAssumption
    <3>3. k \in trimmed \/ vault[IdOf[rcpts[k].cap]] = rcpts[k].cap  BY <1>3, <2>1 DEF AnswersStand
    <3> QED BY <2>1, <3>2, <3>3 DEF Grows
  <2> QED BY <1>3, <2>1
<1> QED BY <1>1, <1>2, <1>3 DEF AnswersStand, Says, Stands

\* After a turn it is enough to look at the files and the listener whose turn it was.
LEMMA TruthfulTurn ==
  ASSUME Shaped, Truthful, Grows, NEW l \in Listeners, NEW s, NEW m, Turn(l, s, m),
         FilesKeyed', AnswersStand', Known(l)'
  PROVE  Truthful'
<1>1. \A o \in Listeners \ {l} : Known(o)'
  BY KnownStays DEF Truthful, Turn
<1> QED BY <1>1 DEF Truthful, Filed

\* Steps that leave the files as they are.
LEMMA FilesStay ==
  ASSUME Shaped, Truthful,
         UNCHANGED <<crew, res, pubs, ptrs, rcpts, vault, told, trimmed>>
  PROVE  FilesKeyed' /\ AnswersStand' /\ Grows
<1>1. FilesKeyed'  BY DEF Truthful, Filed, FilesKeyed
<1>2. Grows  BY DEF Grows
<1>3. AnswersStand'  BY <1>2, AnswersStay DEF Truthful, Filed
<1> QED BY <1>1, <1>2, <1>3

LEMMA IdleKnown ==
  ASSUME NEW l, at'[l] \notin Serving
  PROVE  Known(l)'
  BY DEF Known, RequestKeyed, RequestStands, Bodied, Serving, Steps

\* A request goes on as it is to a step where it needs no answer.
LEMMA ProceedsKnown ==
  ASSUME NEW l, NEW s \in {"live", "publish", "claim", "pointer", "link", "create", "write", "verify",
                           "published", "lookup", "reserve"},
         NEW m, Turn(l, s, m), crew' = crew, m.cap \in crew.captures
  PROVE  Known(l)'
  BY DEF Known, RequestKeyed, RequestStands, Bodied, Serving, Steps, Turn

\* A request is answered, and not with a write.
LEMMA RefusedKnown ==
  ASSUME NEW l, NEW s \in {"settle", "rollback", "answer"}, NEW m, Turn(l, s, m), crew' = crew,
         m.cap \in crew.captures, KeyOf[m.body.cap] = KeyOf[m.cap], ~ Says(m.body)
  PROVE  Known(l)'
  BY DEF Known, RequestKeyed, RequestStands, Bodied, Serving, Steps, Turn, Says

\* A memory is there, and the receipt is next.
LEMMA AppliedKnown ==
  ASSUME NEW l, NEW m, Turn(l, "receipt", m), crew' = crew,
         m.cap \in crew.captures, m.body.cap = m.cap, vault'[IdOf[m.cap]] = m.cap
  PROVE  Known(l)'
  BY DEF Known, RequestKeyed, RequestStands, Bodied, Serving, Steps, Turn, Says

\* A request has an answer that stands, if it is one.
LEMMA AnswerKnown ==
  ASSUME NEW l, NEW s \in {"finish", "backfill", "trim", "tidy", "settle", "answer"}, NEW m, Turn(l, s, m),
         crew' = crew, m.cap \in crew.captures, KeyOf[m.body.cap] = KeyOf[m.cap],
         Says(m.body) => Stands(m.body)'
  PROVE  Known(l)'
  BY DEF Known, RequestKeyed, RequestStands, Bodied, Serving, Steps, Turn, Says, Stands

LEMMA CapInCrew ==
  ASSUME Truthful, NEW l \in Listeners, at[l] \in Serving
  PROVE  /\ my[l].cap \in crew.captures
         /\ at[l] \in Bodied => KeyOf[my[l].body.cap] = KeyOf[my[l].cap]
  BY DEF Truthful, Known, RequestKeyed

-----------------------------------------------------------------------------

LEMMA TruthfulStart ==
  ASSUME Shaped, Truthful, NEW l \in Listeners, Start(l)
  PROVE  Truthful'
<1>1. /\ res' = [k \in Keys |-> IF k \in Kept THEN res[k] ELSE None] /\ Goto(l, "idle")
      /\ UNCHANGED <<crew, pubs, ptrs, rcpts, vault, my, told, trimmed>>
  BY DEF Start, env, published, history
<1>2. \A k \in Keys : res'[k] \in {res[k], None}  BY <1>1
<1>3. FilesKeyed'  BY <1>1, <1>2 DEF Truthful, Filed, FilesKeyed
<1>4. Grows  BY <1>1 DEF Grows
<1>5. AnswersStand'  BY <1>1, <1>2, <1>4, AnswersStay DEF Truthful, Filed
<1>6. Turn(l, "idle", my[l])  BY <1>1, TurnGoto DEF Shaped, Steps
<1>7. Known(l)'  BY <1>6, IdleKnown DEF Turn, Serving
<1> QED BY <1>3, <1>4, <1>5, <1>6, <1>7, TruthfulTurn

LEMMA TruthfulCrash ==
  ASSUME Shaped, Truthful, NEW l \in Listeners, Crash(l)
  PROVE  Truthful'
<1>1. /\ my' = [my EXCEPT ![l] = None] /\ Goto(l, "down")
      /\ UNCHANGED <<crew, res, pubs, ptrs, rcpts, vault, told, trimmed>>
  BY DEF Crash, env, published, history
<1>2. Turn(l, "down", None)  BY <1>1, TurnTo DEF Shaped, Steps
<1>3. Known(l)'  BY <1>2, IdleKnown DEF Turn, Serving
<1> QED BY <1>1, <1>2, <1>3, FilesStay, TruthfulTurn

LEMMA TruthfulFail ==
  ASSUME Shaped, Truthful, NEW l \in Listeners, Fail(l)
  PROVE  Truthful'
<1>1. /\ Finished(l)
      /\ pubs' \in {pubs, [pubs EXCEPT ![KeyOf[my[l].cap]] = None]}
      /\ UNCHANGED <<crew, res, ptrs, rcpts, vault, told, trimmed>>
  BY DEF Fail, env, history
<1>2. Turn(l, "idle", None)  BY <1>1, TurnIdle DEF Shaped
<1>3. Known(l)'  BY <1>2, IdleKnown DEF Turn, Serving
<1>4. \A k \in Keys : pubs'[k] \in {pubs[k], None}  BY <1>1 DEF Shaped, TypeOK
<1>5. FilesKeyed'  BY <1>1, <1>4 DEF Truthful, Filed, FilesKeyed
<1>6. Grows  BY <1>1 DEF Grows
<1>7. AnswersStand'  BY <1>1, <1>6, AnswersStay DEF Truthful, Filed
<1> QED BY <1>2, <1>3, <1>5, <1>6, <1>7, TruthfulTurn

LEMMA TruthfulAdmit ==
  ASSUME Shaped, Truthful, NEW l \in Listeners, NEW c \in Captures, Admit(l, c)
  PROVE  Truthful'
<1>1. c \in crew.captures /\ UNCHANGED <<crew, res, pubs, ptrs, rcpts, vault, told, trimmed>>
  BY Admitted
<1>2. PICK m \in Request : Turn(l, "lookup", m) /\ m.cap = c /\ ~ m.late /\ m.created = {}
  BY Admitted
<1>3. Known(l)'  BY <1>1, <1>2, ProceedsKnown
<1> QED BY <1>1, <1>2, <1>3, FilesStay, TruthfulTurn

LEMMA TruthfulLookup ==
  ASSUME Shaped, Truthful, NEW l \in Listeners, Lookup(l)
  PROVE  Truthful'
<1> DEFINE k == KeyOf[my[l].cap]
<1>1. at[l] = "lookup" /\ UNCHANGED <<crew, res, pubs, rcpts, vault, told, trimmed>>
  BY LookedUp
<1>2. /\ my[l].cap \in Captures /\ my[l].cap \in crew.captures /\ k \in Keys
  BY <1>1, ServingFacts, CapInCrew DEF Serving, Steps
<1>3. PICK m \in Request, s \in {"reserve", "answer", "finish"} :
              /\ Turn(l, s, m) /\ Bears(m, my[l], m.body)
              /\ \/ s = "reserve"
                 \/ s = "answer" /\ m.body \in Body /\ m.body.cap = m.cap
                       /\ m.body.verdict \in {"internal", "conflict"}
                 \/ s = "finish" /\ rcpts[KeyOf[m.cap]] # None /\ m.body = rcpts[KeyOf[m.cap]]
  BY LookedUp
<1>4. m.cap = my[l].cap  BY <1>3 DEF Bears
<1>5. Known(l)'
  <2>1. CASE s = "reserve"  BY <1>1, <1>2, <1>3, <1>4, <2>1, ProceedsKnown
  <2>2. CASE s = "answer" /\ m.body.cap = m.cap /\ m.body.verdict \in {"internal", "conflict"}
    BY <1>1, <1>2, <1>3, <1>4, <2>2, RefusedKnown DEF Says
  <2>3. CASE s = "finish" /\ rcpts[k] # None /\ m.body = rcpts[k]
    <3>1. KeyOf[rcpts[k].cap] = k  BY <1>2, <2>3 DEF Truthful, Filed, FilesKeyed
    <3>2. Stands(m.body)'  BY <1>1, <2>3, <3>1 DEF Stands
    <3> QED BY <1>1, <1>2, <1>3, <1>4, <2>3, <3>1, <3>2, AnswerKnown
  <2> QED BY <1>3, <1>4, <2>1, <2>2, <2>3
<1>6. \A i \in Ids : ptrs'[i] = ptrs[i] \/ (pubs[k] # None /\ i = IdOf[pubs[k]] /\ ptrs'[i] = k)
  <2>1. \/ ptrs' = ptrs
        \/ pubs[k] # None /\ ptrs' = [ptrs EXCEPT ![IdOf[pubs[k]]] = k]
    BY LookedUp
  <2> QED BY <2>1 DEF Shaped, TypeOK
<1>7. pubs[k] # None => pubs[k] \in crew.captures /\ KeyOf[pubs[k]] = k
  BY <1>2 DEF Truthful, Filed, FilesKeyed
<1>8. FilesKeyed'
  <2>1. ASSUME NEW i \in Ids, ptrs'[i] # None
        PROVE  \E c \in crew.captures : KeyOf[c] = ptrs'[i] /\ IdOf[c] = i
    <3>1. CASE ptrs'[i] = ptrs[i]  BY <2>1, <3>1 DEF Truthful, Filed, FilesKeyed
    <3>2. CASE pubs[k] # None /\ i = IdOf[pubs[k]] /\ ptrs'[i] = k  BY <1>7, <3>2
    <3> QED BY <1>6, <3>1, <3>2
  <2> QED BY <1>1, <2>1 DEF Truthful, Filed, FilesKeyed
<1>9. Grows  BY <1>1 DEF Grows
<1>10. AnswersStand'  BY <1>1, <1>9, AnswersStay DEF Truthful, Filed
<1> QED BY <1>3, <1>5, <1>8, <1>9, <1>10, TruthfulTurn

LEMMA TruthfulFinish ==
  ASSUME Shaped, Truthful, NEW l \in Listeners, Finish(l)
  PROVE  Truthful'
<1> DEFINE k == KeyOf[my[l].cap]
<1> PICK b : b = my[l].body  OBVIOUS
<1>1. /\ at[l] = "finish" /\ Turn(l, "answer", my[l])
      /\ UNCHANGED <<crew, pubs, ptrs, rcpts, vault, told, trimmed>>
  BY FinishFacts
<1>2. \/ res' = res
      \/ \E r \in Reservation : res' = [res EXCEPT ![k] = r] /\ r.cap = my[l].cap /\ r.body = b
  BY FinishFacts
<1>3. /\ my[l].cap \in crew.captures /\ KeyOf[b.cap] = k /\ k \in Keys /\ b \in Body
  BY <1>1, ServingFacts, CapInCrew DEF Serving, Steps, Bodied
<1>4. Grows  BY <1>1 DEF Grows
<1>5. Says(b) => Stands(b)'
  BY <1>1, <1>3, <1>4, StandsOn DEF Truthful, Known, RequestStands, Says
<1>6. Known(l)'  BY <1>1, <1>3, <1>5, AnswerKnown
<1>7. CASE res' = res
  <2>1. FilesKeyed' /\ AnswersStand'  BY <1>1, <1>7, FilesStay
  <2> QED BY <1>1, <1>4, <1>6, <2>1, TruthfulTurn
<1>8. ASSUME NEW r \in Reservation, res' = [res EXCEPT ![k] = r], r.cap = my[l].cap, r.body = b
      PROVE  Truthful'
  <2>1. \A j \in Keys : res'[j] = IF j = k THEN r ELSE res[j]  BY <1>8 DEF Shaped, TypeOK
  <2>2. FilesKeyed'
    BY <1>1, <1>3, <1>8, <2>1 DEF Truthful, Filed, FilesKeyed
  <2>3. AnswersStand'
    <3>1. \A j \in Keys : res'[j] = res[j] \/ (res'[j].body \in Body /\ (Says(res'[j].body) => Stands(res[j].body)'))
      BY <1>3, <1>5, <1>8, <2>1 DEF Stands
    <3>2. ASSUME NEW j \in Keys
          PROVE  \/ res'[j] = None \/ res'[j].body = None
                 \/ res[j] # None /\ res'[j].body = res[j].body
                 \/ Says(res'[j].body) => res'[j].body \in Body /\ Stands(res[j].body)'
      <4>1. CASE res'[j] = res[j]  BY <4>1
      <4>2. CASE res'[j].body \in Body /\ (Says(res'[j].body) => Stands(res[j].body)')  BY <4>2
      <4> QED BY <3>1, <4>1, <4>2
    <3> QED BY <1>1, <1>4, <3>2, AnswersStay DEF Truthful, Filed
  <2> QED BY <1>1, <1>4, <1>6, <2>2, <2>3, TruthfulTurn
<1> QED BY <1>2, <1>7, <1>8

LEMMA TruthfulReserve ==
  ASSUME Shaped, Truthful, NEW l \in Listeners, Reserve(l)
  PROVE  Truthful'
<1> DEFINE k == KeyOf[my[l].cap]
<1>1. /\ at[l] = "reserve" /\ Reserves(k, my[l].cap) /\ Reserved(l)
      /\ UNCHANGED <<crew, pubs, ptrs, rcpts, vault, told, trimmed>>
  BY ReserveFacts
<1>2. /\ my[l].cap \in crew.captures /\ k \in Keys
  BY <1>1, ServingFacts, CapInCrew DEF Serving, Steps
<1>3. Grows  BY <1>1 DEF Grows
<1>4. /\ \A j \in Keys \ {k} : res'[j] \in {res[j], None}
      /\ \/ res'[k] \in {res[k], None}
         \/ res'[k] \in Reservation /\ res'[k].cap = my[l].cap /\ res'[k].body = None
  BY <1>1 DEF Reserves
<1>5. FilesKeyed'  BY <1>1, <1>2, <1>4 DEF Truthful, Filed, FilesKeyed
<1>6. AnswersStand'  BY <1>1, <1>2, <1>3, <1>4, AnswersStay DEF Truthful, Filed
<1>7. PICK m \in Request \cup {None}, s \in {"idle", "live", "published", "answer", "backfill"} :
       /\ Turn(l, s, m)
       /\ \/ s = "idle" /\ m = None
          \/ /\ s \in {"live", "published"} /\ m \in Request /\ m.cap = my[l].cap
             /\ m.created = my[l].created /\ m.late = ~ live
          \/ /\ s = "answer" /\ Bears(m, my[l], m.body) /\ m.body \in Body /\ m.body.cap = my[l].cap
             /\ m.body.verdict = "conflict"
          \/ /\ s \in {"answer", "backfill"}
             /\ res[k] # None /\ res[k].body # None /\ Bears(m, my[l], res[k].body)
  BY <1>1 DEF Reserved
<1>8. Known(l)'
  <2>1. CASE s = "idle"  BY <1>7, <2>1, IdleKnown DEF Turn, Serving
  <2>2. CASE s \in {"live", "published"} /\ m.cap = my[l].cap
    BY <1>1, <1>2, <1>7, <2>2, ProceedsKnown
  <2>3. CASE /\ s = "answer" /\ Bears(m, my[l], m.body) /\ m.body.cap = my[l].cap
             /\ m.body.verdict = "conflict"
    BY <1>1, <1>2, <1>7, <2>3, RefusedKnown DEF Says, Bears
  <2>4. CASE /\ s \in {"answer", "backfill"}
             /\ res[k] # None /\ res[k].body # None /\ Bears(m, my[l], res[k].body)
    <3>1. m.body = res[k].body /\ m.cap = my[l].cap  BY <2>4 DEF Bears
    <3>2. KeyOf[res[k].body.cap] = k  BY <1>2, <2>4 DEF Truthful, Filed, FilesKeyed
    <3>3. Says(m.body) => Stands(m.body)'
      BY <1>1, <1>2, <2>4, <3>1 DEF Truthful, Filed, AnswersStand, Stands
    <3> QED BY <1>1, <1>2, <1>7, <2>4, <3>1, <3>2, <3>3, AnswerKnown
  <2> QED BY <1>7, <2>1, <2>2, <2>3, <2>4
<1> QED BY <1>3, <1>5, <1>6, <1>7, <1>8, TruthfulTurn

\* The quiet steps.
LEMMA TruthfulProceeds ==
  ASSUME Shaped, Truthful, NEW l \in Listeners, at[l] \in Serving,
         UNCHANGED <<crew, res, pubs, ptrs, rcpts, vault, told, trimmed>>,
         NEW s \in {"live", "publish", "claim", "pointer", "link", "create", "write", "verify"},
         Proceeds(l, s)
  PROVE  Truthful'
<1>1. Known(l)'  BY CapInCrew, ProceedsKnown DEF Proceeds
<1> QED BY <1>1, FilesStay, TruthfulTurn DEF Proceeds

LEMMA TruthfulRefuses ==
  ASSUME Shaped, Truthful, NEW l \in Listeners, at[l] \in Serving,
         UNCHANGED <<crew, res, pubs, ptrs, rcpts, vault, told, trimmed>>,
         NEW s \in {"settle", "rollback"}, NEW v, v # "applied", Answers(l, v, s)
  PROVE  Truthful'
<1>1. PICK m \in Request : /\ Turn(l, s, m) /\ Bears(m, my[l], m.body)
                       /\ m.body \in Body /\ m.body.cap = my[l].cap /\ m.body.verdict = v
  BY DEF Answers
<1>2. Known(l)'  BY <1>1, CapInCrew, RefusedKnown DEF Bears, Says
<1> QED BY <1>1, <1>2, FilesStay, TruthfulTurn

LEMMA TruthfulApplied ==
  ASSUME Shaped, Truthful, NEW l \in Listeners, at[l] \in Serving,
         UNCHANGED <<crew, res, pubs, ptrs, rcpts, vault, told, trimmed>>,
         Answers(l, "applied", "receipt"), vault[IdOf[my[l].cap]] = my[l].cap
  PROVE  Truthful'
<1>1. PICK m \in Request : /\ Turn(l, "receipt", m) /\ Bears(m, my[l], m.body)
                       /\ m.body \in Body /\ m.body.cap = my[l].cap /\ m.body.verdict = "applied"
  BY DEF Answers
<1>2. Known(l)'  BY <1>1, CapInCrew, AppliedKnown DEF Bears
<1> QED BY <1>1, <1>2, FilesStay, TruthfulTurn

LEMMA TruthfulPublished ==
  ASSUME Shaped, Truthful, NEW l \in Listeners, Published(l)
  PROVE  Truthful'
<1>1. at[l] \in Serving /\ UNCHANGED <<crew, res, pubs, ptrs, rcpts, vault, told, trimmed>>
  BY PublishedFacts DEF Serving, Steps
<1> QED BY <1>1, PublishedFacts, TruthfulProceeds, TruthfulRefuses, TruthfulApplied

LEMMA TruthfulStillLive ==
  ASSUME Shaped, Truthful, NEW l \in Listeners, StillLive(l)
  PROVE  Truthful'
<1>1. at[l] \in Serving /\ UNCHANGED <<crew, res, pubs, ptrs, rcpts, vault, told, trimmed>>
  BY StillLiveFacts DEF Serving, Steps
<1> QED BY <1>1, StillLiveFacts, TruthfulProceeds, TruthfulRefuses

LEMMA TruthfulPublish ==
  ASSUME Shaped, Truthful, NEW l \in Listeners, Publish(l)
  PROVE  Truthful'
<1>1. at[l] \in Serving /\ UNCHANGED <<crew, res, pubs, ptrs, rcpts, vault, told, trimmed>>
  BY PublishFacts DEF Serving, Steps
<1> QED BY <1>1, PublishFacts, TruthfulProceeds, TruthfulRefuses

LEMMA TruthfulClaim ==
  ASSUME Shaped, Truthful, NEW l \in Listeners, Claim(l)
  PROVE  Truthful'
<1>1. at[l] \in Serving /\ UNCHANGED <<crew, res, pubs, ptrs, rcpts, vault, told, trimmed>>
  BY ClaimFacts DEF Serving, Steps
<1> QED BY <1>1, ClaimFacts, TruthfulProceeds, TruthfulRefuses

LEMMA TruthfulPointer ==
  ASSUME Shaped, Truthful, NEW l \in Listeners, Pointer(l)
  PROVE  Truthful'
<1>1. at[l] \in Serving /\ UNCHANGED <<crew, res, pubs, ptrs, rcpts, vault, told, trimmed>>
  BY PointerFacts DEF Serving, Steps
<1> QED BY <1>1, PointerFacts, TruthfulProceeds, TruthfulRefuses

LEMMA TruthfulVerify ==
  ASSUME Shaped, Truthful, NEW l \in Listeners, Verify(l)
  PROVE  Truthful'
<1>1. at[l] \in Serving /\ UNCHANGED <<crew, res, pubs, ptrs, rcpts, vault, told, trimmed>>
  BY VerifyFacts DEF Serving, Steps
<1> QED BY <1>1, VerifyFacts, TruthfulApplied, TruthfulRefuses

LEMMA TruthfulLink ==
  ASSUME Shaped, Truthful, NEW l \in Listeners, Link(l)
  PROVE  Truthful'
<1> DEFINE c == my[l].cap
           k == KeyOf[c]
<1>1. at[l] \in Serving /\ UNCHANGED <<crew, res, ptrs, rcpts, vault, told, trimmed>>
  BY LinkFacts DEF Serving, Steps
<1>2. c \in crew.captures /\ k \in Keys  BY <1>1, ServingFacts, CapInCrew
<1>3. CASE pubs' = pubs /\ (Proceeds(l, "write") \/ Answers(l, "internal", "settle"))
  BY <1>1, <1>3, TruthfulProceeds, TruthfulRefuses
<1>4. ASSUME pubs' = [pubs EXCEPT ![k] = c],
             NEW m \in Request, Turn(l, "pointer", m), m.cap = c
      PROVE  Truthful'
  <2>1. Known(l)'  BY <1>1, <1>2, <1>4, ProceedsKnown
  <2>2. \A j \in Keys : pubs'[j] = IF j = k THEN c ELSE pubs[j]  BY <1>4 DEF Shaped, TypeOK
  <2>3. FilesKeyed'  BY <1>1, <1>2, <2>2 DEF Truthful, Filed, FilesKeyed
  <2>4. Grows  BY <1>1 DEF Grows
  <2>5. AnswersStand'  BY <1>1, <2>4, AnswersStay DEF Truthful, Filed
  <2> QED BY <1>4, <2>1, <2>3, <2>4, <2>5, TruthfulTurn
<1> QED BY <1>3, <1>4, LinkFacts

LEMMA TruthfulCreate ==
  ASSUME Shaped, Truthful, NEW l \in Listeners, Create(l)
  PROVE  Truthful'
<1> DEFINE c == my[l].cap
           k == KeyOf[c]
<1>1. /\ at[l] \in Serving /\ UNCHANGED <<crew, res, pubs, rcpts, vault, told, trimmed>>
      /\ ptrs' \in {ptrs, [ptrs EXCEPT ![IdOf[c]] = k]}
  BY CreateFacts DEF Serving, Steps
<1>2. c \in crew.captures  BY <1>1, CapInCrew
<1>3. PICK m \in Request : Turn(l, "write", m) /\ m.cap = c  BY CreateFacts
<1>4. Known(l)'  BY <1>1, <1>2, <1>3, ProceedsKnown
<1>5. \A i \in Ids : ptrs'[i] = ptrs[i] \/ (i = IdOf[c] /\ ptrs'[i] = k)
  BY <1>1 DEF Shaped, TypeOK
<1>6. FilesKeyed'
  <2>1. ASSUME NEW i \in Ids, ptrs'[i] # None
        PROVE  \E d \in crew.captures : KeyOf[d] = ptrs'[i] /\ IdOf[d] = i
    <3>1. CASE ptrs'[i] = ptrs[i]  BY <2>1, <3>1 DEF Truthful, Filed, FilesKeyed
    <3>2. CASE i = IdOf[c] /\ ptrs'[i] = k  BY <1>2, <3>2
    <3> QED BY <1>5, <3>1, <3>2
  <2> QED BY <1>1, <2>1 DEF Truthful, Filed, FilesKeyed
<1>7. Grows  BY <1>1 DEF Grows
<1>8. AnswersStand'  BY <1>1, <1>7, AnswersStay DEF Truthful, Filed
<1> QED BY <1>3, <1>4, <1>6, <1>7, <1>8, TruthfulTurn

LEMMA TruthfulRollback ==
  ASSUME Shaped, Truthful, NEW l \in Listeners, Rollback(l)
  PROVE  Truthful'
<1>1. /\ at[l] = "rollback" /\ Turn(l, "settle", my[l])
      /\ UNCHANGED <<crew, res, rcpts, vault, told, trimmed>>
      /\ pubs' \in {pubs, [pubs EXCEPT ![KeyOf[my[l].cap]] = None]}
      /\ ptrs' \in {ptrs, [ptrs EXCEPT ![IdOf[my[l].cap]] = None]}
  BY RollbackFacts DEF Proceeds
<1>2. /\ \A k \in Keys : pubs'[k] \in {pubs[k], None}
      /\ \A i \in Ids : ptrs'[i] \in {ptrs[i], None}
  BY <1>1 DEF Shaped, TypeOK
<1>3. /\ my[l].cap \in crew.captures /\ KeyOf[my[l].body.cap] = KeyOf[my[l].cap]
      /\ ~ Says(my[l].body)
  BY <1>1, CapInCrew DEF Serving, Steps, Bodied, Truthful, Known, RequestStands
<1>4. Known(l)'  BY <1>1, <1>3, RefusedKnown
<1>5. FilesKeyed'  BY <1>1, <1>2 DEF Truthful, Filed, FilesKeyed
<1>6. Grows  BY <1>1 DEF Grows
<1>7. AnswersStand'  BY <1>1, <1>6, AnswersStay DEF Truthful, Filed
<1> QED BY <1>1, <1>4, <1>5, <1>6, <1>7, TruthfulTurn

LEMMA TruthfulWrite ==
  ASSUME Shaped, Truthful, NEW l \in Listeners, Write(l)
  PROVE  Truthful'
<1> DEFINE c == my[l].cap
           i == IdOf[c]
<1>1. at[l] \in Serving /\ UNCHANGED <<crew, res, pubs, ptrs, rcpts, told, trimmed>>
  BY WriteFacts DEF Serving, Steps
<1>2. c \in crew.captures /\ i \in Ids  BY <1>1, ServingFacts, CapInCrew
<1>3. CASE vault' = vault /\ Proceeds(l, "verify")
  BY <1>1, <1>3, TruthfulProceeds
<1>4. CASE /\ vault[i] = None /\ vault' = [vault EXCEPT ![i] = c]
           /\ Answers(l, "applied", "receipt")
  <2>1. PICK m \in Request : /\ Turn(l, "receipt", m) /\ Bears(m, my[l], m.body)
                       /\ m.body \in Body /\ m.body.cap = my[l].cap /\ m.body.verdict = "applied"
    BY <1>4 DEF Answers
  <2>2. \A j \in Ids : vault'[j] = IF j = i THEN c ELSE vault[j]  BY <1>4 DEF Shaped, TypeOK
  <2>3. Known(l)'  BY <1>1, <1>2, <2>1, <2>2, AppliedKnown DEF Bears
  <2>4. FilesKeyed'  BY <1>1, <1>2, <2>2 DEF Truthful, Filed, FilesKeyed
  <2>5. Grows  BY <1>1, <1>4, <2>2 DEF Grows
  <2>6. AnswersStand'  BY <1>1, <2>5, AnswersStay DEF Truthful, Filed
  <2> QED BY <2>1, <2>3, <2>4, <2>5, <2>6, TruthfulTurn
<1> QED BY <1>3, <1>4, WriteFacts

LEMMA TruthfulRecord ==
  ASSUME Shaped, Truthful, NEW l \in Listeners, NEW next \in {"trim", "tidy"},
         at[l] = (IF next = "trim" THEN "receipt" ELSE "backfill"),
         Record(l, next),
         UNCHANGED <<crew, res, pubs, ptrs, vault, told, trimmed>>
  PROVE  Truthful'
<1> DEFINE c == my[l].cap
           k == KeyOf[c]
<1> PICK b : b = my[l].body  OBVIOUS
<1>1. /\ at[l] \in Bodied /\ at[l] \in Serving /\ at[l] \in {"receipt", "backfill"}
  BY DEF Bodied, Serving, Steps
<1>2. c \in crew.captures /\ k \in Keys /\ KeyOf[b.cap] = k /\ b \in Body
  BY <1>1, ServingFacts, CapInCrew
<1>3. CASE rcpts' = rcpts /\ Turn(l, "idle", None)
  <2>1. Known(l)'  BY <1>3, IdleKnown DEF Turn, Serving
  <2> QED BY <1>3, <2>1, FilesStay, TruthfulTurn
<1>4. ASSUME rcpts' = [rcpts EXCEPT ![k] = IF rcpts[k] = None THEN b ELSE @],
             NEW m \in Request, Turn(l, next, m), Bears(m, my[l], m.body), m.body \in Body,
             m.body = IF next = "trim" /\ rcpts[k] # None THEN rcpts[k] ELSE b
      PROVE  Truthful'
  <2>1. \A j \in Keys : rcpts'[j] = IF j = k /\ rcpts[k] = None THEN b ELSE rcpts[j]
    BY <1>2, <1>4 DEF Shaped, TypeOK
  <2>2. Grows  BY <2>1 DEF Grows
  <2>3. FilesKeyed'  BY <1>2, <2>1 DEF Truthful, Filed, FilesKeyed
  <2>4. CASE next = "trim"
    <3>1. b.cap = c /\ vault[IdOf[c]] = c
      BY <2>4 DEF Truthful, Known, RequestStands
    <3>2. \A j \in Keys : rcpts'[j] \in {rcpts[j], None} \/ vault'[IdOf[rcpts'[j].cap]] = rcpts'[j].cap
      BY <2>1, <3>1
    <3>3. AnswersStand'  BY <2>2, <3>2, AnswersStay DEF Truthful, Filed
    <3>4. m.body = rcpts'[k] /\ m.cap = c  BY <1>2, <1>4, <2>1, <2>4 DEF Bears
    <3>5. KeyOf[m.body.cap] = k
      BY <1>2, <1>4, <2>4 DEF Truthful, Filed, FilesKeyed
    <3>6. Stands(m.body)'  BY <3>4, <3>5 DEF Stands
    <3>7. Known(l)'  BY <1>2, <1>4, <2>4, <3>4, <3>5, <3>6, AnswerKnown
    <3> QED BY <1>4, <2>2, <2>3, <3>3, <3>7, TruthfulTurn
  <2>5. CASE next = "tidy"
    <3>1. Says(b) => Stands(b)
      BY <2>5 DEF Truthful, Known, RequestStands
    <3>2. Says(b) => Stands(b)'  BY <1>2, <2>2, <3>1, StandsOn
    <3>3. rcpts[k] = None /\ Says(b) => k \in trimmed
      BY <1>2, <3>1, BodyFields DEF Stands
    <3>4. \A j \in Keys : rcpts'[j] \in {rcpts[j], None} \/ (Says(rcpts'[j]) => j \in trimmed')
      BY <2>1, <3>3
    <3>5. AnswersStand'  BY <2>2, <3>4, AnswersStay DEF Truthful, Filed
    <3>6. m.body = b /\ m.cap = c  BY <1>4, <2>5 DEF Bears
    <3>7. Known(l)'  BY <1>2, <1>4, <2>5, <3>2, <3>6, AnswerKnown
    <3> QED BY <1>4, <2>2, <2>3, <3>5, <3>7, TruthfulTurn
  <2> QED BY <2>4, <2>5
<1> QED BY <1>1, <1>3, <1>4, RecordFacts

LEMMA TruthfulReceipt ==
  ASSUME Shaped, Truthful, NEW l \in Listeners, Receipt(l)
  PROVE  Truthful'
  BY TruthfulRecord DEF Receipt, env, history

LEMMA TruthfulBackfill ==
  ASSUME Shaped, Truthful, NEW l \in Listeners, Backfill(l)
  PROVE  Truthful'
  BY TruthfulRecord DEF Backfill, env, history

LEMMA TruthfulTrim ==
  ASSUME Shaped, Truthful, NEW l \in Listeners, Trim(l)
  PROVE  Truthful'
<1>1. /\ at[l] \in {"trim", "tidy"} /\ (Turn(l, "settle", my[l]) \/ Turn(l, "answer", my[l]))
      /\ UNCHANGED <<crew, res, vault, told>>
  BY TrimFacts DEF Proceeds
<1>2. PICK drop \in SUBSET Captures :
              /\ pubs' = [k \in Keys |-> IF \E c \in drop : KeyOf[c] = k THEN None ELSE pubs[k]]
              /\ rcpts' = [k \in Keys |-> IF \E c \in drop : KeyOf[c] = k THEN None ELSE rcpts[k]]
              /\ ptrs' = [i \in Ids |-> IF \E c \in drop : IdOf[c] = i THEN None ELSE ptrs[i]]
              /\ trimmed' = trimmed \cup {KeyOf[c] : c \in drop}
  BY TrimFacts
<1>3. /\ \A k \in Keys : pubs'[k] \in {pubs[k], None}
      /\ \A i \in Ids : ptrs'[i] \in {ptrs[i], None}
      /\ \A k \in Keys : rcpts'[k] \in {rcpts[k], None}
      /\ \A k \in Keys : rcpts'[k] = rcpts[k] \/ k \in trimmed'
  BY <1>2
<1>4. FilesKeyed'  BY <1>1, <1>3 DEF Truthful, Filed, FilesKeyed
<1>5. Grows  BY <1>1, <1>2, <1>3 DEF Grows
<1>6. AnswersStand'  BY <1>1, <1>3, <1>5, AnswersStay DEF Truthful, Filed
<1>7. /\ my[l].cap \in crew.captures /\ KeyOf[my[l].body.cap] = KeyOf[my[l].cap] /\ my[l].body \in Body
  BY <1>1, ServingFacts, CapInCrew DEF Serving, Steps, Bodied
<1>8. Says(my[l].body) => Stands(my[l].body)
  BY <1>1 DEF Truthful, Known, RequestStands
<1>9. Says(my[l].body) => Stands(my[l].body)' 
  <2> DEFINE b == my[l].body
  <2>1. Says(b) => KeyOf[b.cap] \in trimmed' \/ rcpts'[KeyOf[b.cap]] = b
    BY <1>7, <1>8, <1>5, BodyFields, CaptureAssumption DEF Stands, Grows
  <2>2. my'[l] = my[l]  BY <1>1 DEF Turn
  <2> QED BY <2>1, <2>2 DEF Stands
<1>10. Known(l)'
  <2> DEFINE b == my[l].body
  <2>1. my'[l] = my[l]  BY <1>1 DEF Turn
  <2> QED BY <1>1, <1>7, <1>9, <2>1, AnswerKnown DEF Stands
<1> QED BY <1>1, <1>4, <1>5, <1>6, <1>10, TruthfulTurn

LEMMA TruthfulSettle ==
  ASSUME Shaped, Truthful, NEW l \in Listeners, Settle(l)
  PROVE  Truthful'
<1> DEFINE k == KeyOf[my[l].cap]
<1> PICK b : b = my[l].body  OBVIOUS
<1>1. /\ at[l] = "settle" /\ Turn(l, "answer", my[l])
      /\ UNCHANGED <<crew, pubs, ptrs, rcpts, vault, told, trimmed>>
  BY SettleFacts DEF Proceeds
<1>2. PICK r \in Reservation : res' = [res EXCEPT ![k] = r] /\ r.cap = my[l].cap /\ r.body = b
  BY SettleFacts
<1>3. /\ my[l].cap \in crew.captures /\ KeyOf[b.cap] = k /\ k \in Keys /\ b \in Body
  BY <1>1, ServingFacts, CapInCrew DEF Serving, Steps, Bodied
<1>4. Grows  BY <1>1 DEF Grows
<1>5. Says(b) => Stands(b)'
  BY <1>1, <1>3, <1>4, StandsOn DEF Truthful, Known, RequestStands, Says
<1>6. Known(l)'  BY <1>1, <1>3, <1>5, AnswerKnown
<1>7. \A j \in Keys : res'[j] = IF j = k THEN r ELSE res[j]  BY <1>2 DEF Shaped, TypeOK
<1>8. FilesKeyed'
  BY <1>1, <1>2, <1>3, <1>7 DEF Truthful, Filed, FilesKeyed
<1>9. AnswersStand'
  <2>1. ASSUME NEW j \in Keys
        PROVE  \/ res'[j] = None \/ res'[j].body = None
               \/ res[j] # None /\ res'[j].body = res[j].body
               \/ Says(res'[j].body) => res'[j].body \in Body /\ Stands(res[j].body)'
    <3>1. CASE res'[j] = res[j]  BY <3>1
    <3>2. CASE res'[j] = r  BY <1>2, <1>3, <1>5, <3>2 DEF Stands
    <3> QED BY <1>7, <3>1, <3>2
  <2> QED BY <1>1, <1>4, <2>1, AnswersStay DEF Truthful, Filed
<1> QED BY <1>1, <1>4, <1>6, <1>8, <1>9, TruthfulTurn

LEMMA TruthfulReply ==
  ASSUME Shaped, Truthful, NEW l \in Listeners, Reply(l)
  PROVE  Truthful'
<1>1. /\ at[l] = "answer" /\ Turn(l, "idle", None)
      /\ UNCHANGED <<crew, res, pubs, ptrs, rcpts, vault, trimmed>>
  BY ReplyFacts
<1>2. PICK b \in Told : /\ told' = told \cup {b}
                        /\ Says(b) => b = my[l].body
                        /\ b.cap = my[l].body.cap /\ b.verdict = my[l].body.verdict
  BY ReplyFacts
<1>3. my[l].body \in Body  BY <1>1, ServingFacts DEF Serving, Steps, Bodied
<1>4. Says(b) => b \in Body /\ Stands(b)
  BY <1>1, <1>2, <1>3 DEF Truthful, Known, RequestStands
<1>5. FilesKeyed'  BY <1>1 DEF Truthful, Filed, FilesKeyed
<1>6. Grows  BY <1>1 DEF Grows
<1>7. AnswersStand'
  BY <1>1, <1>2, <1>4 DEF Truthful, Filed, AnswersStand, Stands
<1>8. Known(l)'  BY <1>1, IdleKnown DEF Turn, Serving
<1> QED BY <1>1, <1>5, <1>6, <1>7, <1>8, TruthfulTurn

LEMMA TruthfulTick ==
  ASSUME Shaped, Truthful, Tick
  PROVE  Truthful'
<1>1. /\ UNCHANGED <<crew, pubs, ptrs, rcpts, vault, at, told, trimmed>>
      /\ \A k \in Keys : \/ res[k] = None /\ res'[k] = None
                         \/ res[k] # None /\ res'[k].cap = res[k].cap /\ res'[k].body = res[k].body
      /\ \A l \in Listeners : at[l] \in Serving => my'[l].cap = my[l].cap /\ my'[l].body = my[l].body
  BY TickFacts
<1>2. Grows  BY <1>1 DEF Grows
<1>3. FilesKeyed'  BY <1>1 DEF Truthful, Filed, FilesKeyed
<1>4. AnswersStand'  BY <1>1, <1>2, AnswersStay DEF Truthful, Filed
<1>5. \A l \in Listeners : Known(l)'  BY <1>1, <1>2, KnownStays DEF Truthful
<1> QED BY <1>3, <1>4, <1>5 DEF Truthful, Filed

\* Steps that change nothing an answer depends on.
LEMMA TruthfulStays ==
  ASSUME Shaped, Truthful,
         UNCHANGED <<crew, res, pubs, ptrs, rcpts, vault, at, my, told, trimmed>>
  PROVE  Truthful'
<1>1. \A l \in Listeners : Known(l)'  BY FilesStay, KnownStays DEF Truthful
<1> QED BY <1>1, FilesStay DEF Truthful, Filed

LEMMA TruthfulListen ==
  ASSUME Shaped, Truthful, NEW l \in Listeners, Listen(l)
  PROVE  Truthful'
  BY TruthfulLookup, TruthfulFinish, TruthfulReserve, TruthfulPublished, TruthfulStillLive,
     TruthfulPublish, TruthfulClaim, TruthfulLink, TruthfulPointer, TruthfulCreate, TruthfulRollback,
     TruthfulWrite, TruthfulVerify, TruthfulReceipt, TruthfulBackfill, TruthfulTrim, TruthfulSettle,
     TruthfulReply
  DEF Listen

LEMMA TruthfulInit ==
  ASSUME Init
  PROVE  Truthful
<1>1. FilesKeyed /\ AnswersStand  BY DEF Init, FilesKeyed, AnswersStand
<1>2. \A l \in Listeners : Known(l)
  BY DEF Init, Known, RequestKeyed, RequestStands, Serving, Bodied
<1> QED BY <1>1, <1>2 DEF Truthful, Filed

LEMMA TruthfulNext ==
  ASSUME Shaped, Truthful, [Next]_vars
  PROVE  Truthful'
<1>1. CASE UNCHANGED vars
  BY <1>1, TruthfulStays DEF vars
<1>2. ASSUME NEW l \in Listeners, Start(l) \/ Crash(l) \/ Fail(l) \/ Listen(l) PROVE Truthful'
  BY <1>2, TruthfulStart, TruthfulCrash, TruthfulFail, TruthfulListen
<1>3. ASSUME NEW l \in Listeners, NEW c \in Captures, Admit(l, c) PROVE Truthful'
  BY <1>3, TruthfulAdmit
<1>4. CASE Tick  BY <1>4, TruthfulTick
<1>5. CASE Revoke  BY <1>5, TruthfulStays DEF Revoke, published, history
<1>6. ASSUME NEW p \in Policies, SetPolicy(p) PROVE Truthful'
  BY <1>6, TruthfulStays DEF SetPolicy, published, history
<1> QED BY <1>1, <1>2, <1>3, <1>4, <1>5, <1>6 DEF Next

-----------------------------------------------------------------------------
(* Claimed.                                                                 *)

\* A record is taken back only with its key, or by the only listener there is.
PubsStay ==
    \A k \in Keys : pubs[k] # None => pubs'[k] = pubs[k] \/ k \in trimmed' \/ Lone

LEMMA OthersHold ==
  ASSUME Shaped, Grows, PubsStay, NEW l \in Listeners, l \in crew.listeners,
         NEW o \in Listeners \ {l}, at'[o] = at[o], my'[o] = my[o], ClaimHeld(o)
  PROVE  ClaimHeld(o)'
<1>1. Lone' = Lone  BY DEF Lone, Grows
<1>2. CASE at[o] \in Serving
  <2>1. /\ my[o].cap \in Captures /\ KeyOf[my[o].cap] \in Keys /\ IdOf[my[o].cap] \in Ids
        /\ my[o].cap # None /\ ~ Lone
    BY <1>2, ServingFacts, CaptureAssumption DEF Lone
  <2> QED BY <1>1, <2>1 DEF ClaimHeld, Grows, PubsStay
<1>3. CASE at[o] \notin Serving
  BY <1>3 DEF ClaimHeld, Early, Claims, Serving, Steps
<1> QED BY <1>2, <1>3

LEMMA HeldTurn ==
  ASSUME Shaped, Held, Grows, PubsStay, NEW l \in Listeners, l \in crew.listeners,
         NEW s, NEW m, Turn(l, s, m), Owned', ClaimHeld(l)'
  PROVE  Held'
  BY OthersHold DEF Held, Turn

\* Records, memories and forgotten keys are as they were.
LEMMA OwnedStays ==
  ASSUME Shaped, Owned, UNCHANGED <<crew, pubs, rcpts, vault, trimmed>>
  PROVE  Owned' /\ Grows /\ PubsStay
  BY DEF Owned, Grows, PubsStay

\* The listener has no claim in hand.
LEMMA OutHeld ==
  ASSUME NEW l, at'[l] \notin Claims, at'[l] \in Early => my'[l].created = {}
  PROVE  ClaimHeld(l)'
  BY DEF ClaimHeld, Claims

LEMMA HeldIdle ==
  ASSUME Shaped, Held, NEW l \in Listeners, l \in crew.listeners, NEW s \in {"idle", "down"}, NEW m, Turn(l, s, m),
         UNCHANGED <<crew, pubs, rcpts, vault, trimmed>>
  PROVE  Held'
<1>1. ClaimHeld(l)'  BY OutHeld DEF Turn, Claims, Early
<1> QED BY <1>1, OwnedStays, HeldTurn DEF Held

LEMMA HeldEarly ==
  ASSUME Shaped, Held, NEW l \in Listeners, l \in crew.listeners,
         NEW s \in Early \cup {"answer", "settle", "receipt"}, NEW m, Turn(l, s, m),
         s \in Early => m.created = {},
         UNCHANGED <<crew, pubs, rcpts, vault, trimmed>>
  PROVE  Held'
<1>1. ClaimHeld(l)'  BY OutHeld DEF Turn, Claims, Early
<1> QED BY <1>1, OwnedStays, HeldTurn DEF Held

LEMMA EarlyIsServing ==
  ASSUME Shaped, NEW l \in Listeners, at[l] \in Early \cup Claims \cup {"receipt", "trim", "tidy", "settle", "answer"}
  PROVE  l \in crew.listeners /\ at[l] \in Serving
  BY ServingFacts DEF Early, Claims, Serving, Steps

LEMMA HeldStart ==
  ASSUME Shaped, Held, NEW l \in Listeners, Start(l)
  PROVE  Held'
<1>1. l \in crew.listeners /\ Goto(l, "idle") /\ UNCHANGED <<crew, pubs, rcpts, vault, my, trimmed>>
  BY DEF Start, env, published, history
<1>2. Turn(l, "idle", my[l])  BY <1>1, TurnGoto DEF Shaped, Steps
<1> QED BY <1>1, <1>2, HeldIdle

LEMMA HeldCrash ==
  ASSUME Shaped, Held, NEW l \in Listeners, Crash(l)
  PROVE  Held'
<1>1. /\ at[l] # "down" /\ my' = [my EXCEPT ![l] = None] /\ Goto(l, "down")
      /\ UNCHANGED <<crew, pubs, rcpts, vault, trimmed>>
  BY DEF Crash, env, published, history
<1>2. Turn(l, "down", None)  BY <1>1, TurnTo DEF Shaped, Steps
<1>3. l \in crew.listeners  BY <1>1 DEF Shaped, Served
<1> QED BY <1>1, <1>2, <1>3, HeldIdle

LEMMA HeldFail ==
  ASSUME Shaped, Truthful, Lone \/ Steady, Held, NEW l \in Listeners, Fail(l)
  PROVE  Held'
<1> DEFINE k == KeyOf[my[l].cap]
<1>1. /\ at[l] \in Fallible /\ faults < crew.faults /\ Finished(l)
      /\ UNCHANGED <<crew, rcpts, vault, trimmed>>
      /\ \/ pubs' = pubs
         \/ at[l] \in {"pointer", "create"} /\ "record" \in my[l].created /\ pubs' = [pubs EXCEPT ![k] = None]
  BY DEF Fail, env, history
<1>2. at[l] \in Serving  BY <1>1, CaptureAssumption DEF Serving, Steps
<1>3. Turn(l, "idle", None) /\ l \in crew.listeners  BY <1>1, <1>2, TurnIdle, ServingFacts DEF Shaped
<1>4. CASE pubs' = pubs  BY <1>1, <1>3, <1>4, HeldIdle
<1>5. CASE at[l] \in {"pointer", "create"} /\ "record" \in my[l].created /\ pubs' = [pubs EXCEPT ![k] = None]
  <2>1. Lone
    <3>1. faults \in Nat /\ crew.faults \in Nat
      BY CaptureAssumption DEF Shaped, TypeOK
    <3>2. ~ Steady  BY <1>1, <1>5, <3>1 DEF Steady
    <3> QED BY <3>2
  <2>2. k \in trimmed \/ Unwritten(k)
    BY <1>5, <2>1 DEF Held, ClaimHeld, Claims
  <2>3. \A j \in Keys : pubs'[j] = IF j = k THEN None ELSE pubs[j]  BY <1>5 DEF Shaped, TypeOK
  <2>4. \A i \in Ids : vault[i] # None => KeyOf[vault[i]] \in Keys
    BY CaptureAssumption DEF Shaped, TypeOK
  <2>5. Owned'  BY <1>1, <2>2, <2>3, <2>4 DEF Held, Owned, Unwritten
  <2>6. Grows /\ PubsStay  BY <1>1, <2>1 DEF Grows, PubsStay
  <2>7. ClaimHeld(l)'  BY <1>3, OutHeld DEF Turn, Claims, Early
  <2> QED BY <1>3, <2>5, <2>6, <2>7, HeldTurn
<1> QED BY <1>1, <1>4, <1>5

LEMMA HeldAdmit ==
  ASSUME Shaped, Held, NEW l \in Listeners, NEW c \in Captures, Admit(l, c)
  PROVE  Held'
<1>1. at[l] = "idle" /\ UNCHANGED <<crew, pubs, rcpts, vault, trimmed>>
  BY Admitted
<1>2. PICK m \in Request : Turn(l, "lookup", m) /\ m.cap = c /\ ~ m.late /\ m.created = {}
  BY Admitted
<1>3. l \in crew.listeners  BY <1>1 DEF Shaped, Served
<1> QED BY <1>1, <1>2, <1>3, HeldEarly DEF Early

LEMMA HeldLookup ==
  ASSUME Shaped, Held, NEW l \in Listeners, Lookup(l)
  PROVE  Held'
<1>1. at[l] = "lookup" /\ UNCHANGED <<crew, pubs, rcpts, vault, trimmed>>
  BY LookedUp
<1>2. \E m \in Request, s \in {"reserve", "answer", "finish"} :
         Turn(l, s, m) /\ Bears(m, my[l], m.body)
  BY LookedUp
<1>3. l \in crew.listeners /\ my[l].created = {}
  BY <1>1, EarlyIsServing DEF Early, Held, ClaimHeld
<1> QED BY <1>1, <1>2, <1>3, HeldEarly DEF Early, Bears

LEMMA HeldFinish ==
  ASSUME Shaped, Held, NEW l \in Listeners, Finish(l)
  PROVE  Held'
<1>1. at[l] = "finish" /\ Turn(l, "answer", my[l]) /\ UNCHANGED <<crew, pubs, rcpts, vault, trimmed>>
  BY FinishFacts
<1> QED BY <1>1, EarlyIsServing, HeldEarly DEF Early

LEMMA HeldReserve ==
  ASSUME Shaped, Held, NEW l \in Listeners, Reserve(l)
  PROVE  Held'
<1>1. at[l] = "reserve" /\ Reserved(l) /\ UNCHANGED <<crew, pubs, rcpts, vault, trimmed>>
  BY ReserveFacts
<1>2. l \in crew.listeners /\ my[l].created = {}
  BY <1>1, EarlyIsServing DEF Early, Held, ClaimHeld
<1>3. \E m, s : /\ Turn(l, s, m)
                /\ \/ s = "idle"
                   \/ s \in {"live", "published", "answer", "backfill"} /\ m.created = {}
  BY <1>1, <1>2 DEF Reserved, Bears
<1> QED BY <1>1, <1>2, <1>3, HeldEarly, HeldIdle DEF Early

LEMMA HeldProceeds ==
  ASSUME Shaped, Held, NEW l \in Listeners, at[l] \in Early,
         UNCHANGED <<crew, pubs, rcpts, vault, trimmed>>,
         NEW s \in Early, Proceeds(l, s)
  PROVE  Held'
  BY EarlyIsServing, HeldEarly DEF Proceeds, Held, ClaimHeld

LEMMA HeldAnswers ==
  ASSUME Shaped, Held, NEW l \in Listeners, at[l] \in Early \cup Claims,
         UNCHANGED <<crew, pubs, rcpts, vault, trimmed>>,
         NEW s \in {"settle", "receipt"}, NEW v, Answers(l, v, s)
  PROVE  Held'
<1>1. \E m : Turn(l, s, m)  BY DEF Answers
<1> QED BY <1>1, EarlyIsServing, HeldEarly DEF Early

LEMMA HeldPublished ==
  ASSUME Shaped, Held, NEW l \in Listeners, Published(l)
  PROVE  Held'
<1>1. at[l] \in Early /\ UNCHANGED <<crew, pubs, rcpts, vault, trimmed>>
  BY PublishedFacts DEF Early
<1> QED BY <1>1, PublishedFacts, HeldProceeds, HeldAnswers DEF Early

LEMMA HeldStillLive ==
  ASSUME Shaped, Held, NEW l \in Listeners, StillLive(l)
  PROVE  Held'
<1>1. at[l] \in Early /\ UNCHANGED <<crew, pubs, rcpts, vault, trimmed>>
  BY StillLiveFacts DEF Early
<1> QED BY <1>1, StillLiveFacts, HeldProceeds, HeldAnswers DEF Early

LEMMA HeldPublish ==
  ASSUME Shaped, Held, NEW l \in Listeners, Publish(l)
  PROVE  Held'
<1>1. at[l] \in Early /\ UNCHANGED <<crew, pubs, rcpts, vault, trimmed>>
  BY PublishFacts DEF Early
<1> QED BY <1>1, PublishFacts, HeldProceeds, HeldAnswers DEF Early

\* A claim that goes on to the next step of the claim.
LEMMA HeldClaims ==
  ASSUME Shaped, Held, NEW l \in Listeners, at[l] \in Early \cup Claims,
         UNCHANGED <<crew, pubs, rcpts, vault, trimmed>>,
         NEW s \in {"pointer", "create", "write"}, NEW m, Turn(l, s, m),
         m.cap = my[l].cap,
         "record" \in m.created => "record" \in my[l].created,
         at[l] \in {"pointer", "create"} \/ pubs[KeyOf[my[l].cap]] = my[l].cap
  PROVE  Held'
<1>1. Lone' = Lone  BY DEF Lone
<1>2. ClaimHeld(l)'
  <2>1. KeyOf[m.cap] \in trimmed \/ pubs[KeyOf[m.cap]] = m.cap
    BY DEF Held, ClaimHeld
  <2>2. Lone /\ "record" \in m.created => KeyOf[m.cap] \in trimmed \/ Unwritten(KeyOf[m.cap])
    BY DEF Held, ClaimHeld, Early, Claims
  <2>3. m = my'[l] /\ at'[l] = s  BY DEF Turn
  <2> QED BY <1>1, <2>1, <2>2, <2>3 DEF ClaimHeld, Early, Unwritten
<1> QED BY <1>2, EarlyIsServing, OwnedStays, HeldTurn DEF Held

LEMMA HeldClaim ==
  ASSUME Shaped, Held, NEW l \in Listeners, Claim(l)
  PROVE  Held'
<1>1. at[l] \in Early /\ UNCHANGED <<crew, pubs, rcpts, vault, trimmed>>
  BY ClaimFacts DEF Early
<1>2. CASE Answers(l, "internal", "settle")  BY <1>1, <1>2, HeldAnswers
<1>3. CASE Proceeds(l, "link")  BY <1>1, <1>3, HeldProceeds DEF Early
<1>4. CASE Proceeds(l, "pointer") /\ pubs[KeyOf[my[l].cap]] = my[l].cap
  BY <1>1, <1>4, HeldClaims DEF Proceeds
<1> QED BY <1>2, <1>3, <1>4, ClaimFacts

LEMMA HeldLink ==
  ASSUME Shaped, Truthful, Held, NEW l \in Listeners, Link(l)
  PROVE  Held'
<1> DEFINE k == KeyOf[my[l].cap]
<1>1. at[l] \in Early /\ UNCHANGED <<crew, rcpts, vault, trimmed>>
  BY LinkFacts DEF Early
<1>2. l \in crew.listeners /\ k \in Keys /\ my[l].created = {} /\ my[l].cap \in Captures /\ my[l].cap # None
  BY <1>1, EarlyIsServing, ServingFacts, CaptureAssumption DEF Held, ClaimHeld
<1>3. CASE pubs' = pubs /\ Proceeds(l, "write") /\ pubs[k] = my[l].cap
  BY <1>1, <1>3, HeldClaims DEF Proceeds
<1>4. CASE pubs' = pubs /\ Answers(l, "internal", "settle")
  BY <1>1, <1>4, HeldAnswers
<1>5. ASSUME pubs[k] = None, pubs' = [pubs EXCEPT ![k] = my[l].cap],
             NEW m \in Request, Turn(l, "pointer", m), m.cap = my[l].cap
      PROVE  Held'
  <2>1. \A j \in Keys : pubs'[j] = IF j = k THEN my[l].cap ELSE pubs[j]  BY <1>5 DEF Shaped, TypeOK
  <2>2. k \in trimmed \/ Unwritten(k)
    BY <1>5 DEF Shaped, TypeOK, Held, Owned, Unwritten
  <2>3. \A i \in Ids : vault[i] # None => KeyOf[vault[i]] \in Keys
    BY CaptureAssumption DEF Shaped, TypeOK
  <2>4. Owned'  BY <1>1, <2>1, <2>2, <2>3 DEF Held, Owned, Unwritten
  <2>5. Grows /\ PubsStay  BY <1>1, <1>5, <2>1 DEF Grows, PubsStay
  <2>6. ClaimHeld(l)'
    <3>1. pubs'[k] = my[l].cap /\ at'[l] = "pointer" /\ my'[l].cap = my[l].cap
      BY <1>2, <1>5, <2>1 DEF Turn
    <3> QED BY <1>1, <2>2, <3>1 DEF ClaimHeld, Early, Unwritten
  <2> QED BY <1>2, <1>5, <2>4, <2>5, <2>6, HeldTurn
<1> QED BY <1>3, <1>4, <1>5, LinkFacts

\* A claim whose record may have to go: it made the record for a key with no
\* memory, or the key was dropped over the cap meanwhile.
LEMMA HeldRollsBack ==
  ASSUME Shaped, Held, NEW l \in Listeners, at[l] \in Claims,
         UNCHANGED <<crew, pubs, rcpts, vault, trimmed>>,
         Answers(l, "internal", "rollback"),
         ~ Lone => KeyOf[my[l].cap] \in trimmed
  PROVE  Held'
<1>1. PICK m \in Request : Turn(l, "rollback", m) /\ Bears(m, my[l], m.body)  BY DEF Answers
<1>2. Lone' = Lone  BY DEF Lone
<1>3. /\ m = my'[l] /\ at'[l] = "rollback" /\ m.cap = my[l].cap /\ m.created = my[l].created
  BY <1>1 DEF Turn, Bears
<1>4. ClaimHeld(l)'
  <2>1. Lone /\ "record" \in m.created => KeyOf[m.cap] \in trimmed \/ Unwritten(KeyOf[m.cap])
    BY <1>3 DEF Held, ClaimHeld, Claims
  <2> QED BY <1>2, <1>3, <2>1 DEF ClaimHeld, Early, Unwritten
<1> QED BY <1>1, <1>4, EarlyIsServing, OwnedStays, HeldTurn DEF Held

\* Where no two captures derive one id, a pointer is its capture's key.
LEMMA PointsHome ==
  ASSUME Truthful, Steady, NEW c \in crew.captures, IdOf[c] \in Ids
  PROVE  /\ ptrs[IdOf[c]] \in {None, KeyOf[c]}
         /\ vault[IdOf[c]] \in {None, c}
  BY DEF Truthful, Filed, FilesKeyed, Steady

LEMMA HeldPointer ==
  ASSUME Shaped, Truthful, Lone \/ Steady, Held, NEW l \in Listeners, Pointer(l)
  PROVE  Held'
<1>1. at[l] = "pointer" /\ at[l] \in Claims /\ at[l] \in Serving /\ UNCHANGED <<crew, pubs, rcpts, vault, trimmed>>
  BY PointerFacts DEF Claims, Serving, Steps
<1>2. CASE Proceeds(l, "create") \/ Proceeds(l, "write")
  BY <1>1, <1>2, HeldClaims DEF Proceeds
<1>3. CASE Answers(l, "internal", "rollback") /\ ptrs[IdOf[my[l].cap]] \notin {None, KeyOf[my[l].cap]}
  <2>1. Lone  BY <1>1, <1>3, PointsHome, ServingFacts, CapInCrew
  <2> QED BY <1>1, <1>3, <2>1, HeldRollsBack
<1> QED BY <1>2, <1>3, PointerFacts

LEMMA HeldCreate ==
  ASSUME Shaped, Held, NEW l \in Listeners, Create(l)
  PROVE  Held'
<1>1. at[l] = "create" /\ at[l] \in Claims /\ UNCHANGED <<crew, pubs, rcpts, vault, trimmed>>
  BY CreateFacts DEF Claims
<1>2. PICK m \in Request : /\ Turn(l, "write", m) /\ m.cap = my[l].cap /\ m.late = my[l].late
                           /\ m.created \in {my[l].created, my[l].created \cup {"pointer"}}
  BY CreateFacts
<1> QED BY <1>1, <1>2, HeldClaims

LEMMA HeldRollback ==
  ASSUME Shaped, Held, NEW l \in Listeners, Rollback(l)
  PROVE  Held'
<1> DEFINE k == KeyOf[my[l].cap]
<1>1. /\ at[l] = "rollback" /\ Turn(l, "settle", my[l]) /\ UNCHANGED <<crew, rcpts, vault, trimmed>>
      /\ pubs' = IF "record" \in my[l].created THEN [pubs EXCEPT ![k] = None] ELSE pubs
  BY RollbackFacts DEF Proceeds
<1>2. l \in crew.listeners  BY <1>1, EarlyIsServing DEF Claims
<1>3. ClaimHeld(l)'  BY <1>1, OutHeld DEF Turn, Claims, Early
<1>4. CASE "record" \notin my[l].created
  <2>1. pubs' = pubs  BY <1>1, <1>4
  <2> QED BY <1>1, <1>2, <1>3, <2>1, OwnedStays, HeldTurn DEF Held
<1>5. CASE "record" \in my[l].created
  <2>1. \A j \in Keys : pubs'[j] = IF j = k THEN None ELSE pubs[j]  BY <1>1, <1>5 DEF Shaped, TypeOK
  <2>2. k \in trimmed \/ (Lone /\ Unwritten(k))
    BY <1>1, <1>5 DEF Held, ClaimHeld, Claims
  <2>3. \A i \in Ids : vault[i] # None => KeyOf[vault[i]] \in Keys
    BY CaptureAssumption DEF Shaped, TypeOK
  <2>4. Owned'  BY <1>1, <2>1, <2>2, <2>3 DEF Held, Owned, Unwritten
  <2>5. Grows /\ PubsStay  BY <1>1, <2>1, <2>2 DEF Grows, PubsStay
  <2> QED BY <1>1, <1>2, <1>3, <2>4, <2>5, HeldTurn
<1> QED BY <1>4, <1>5

LEMMA HeldWrite ==
  ASSUME Shaped, Held, NEW l \in Listeners, Write(l)
  PROVE  Held'
<1> DEFINE c == my[l].cap
           i == IdOf[c]
<1>1. at[l] = "write" /\ at[l] \in Claims /\ UNCHANGED <<crew, pubs, rcpts, trimmed>>
  BY WriteFacts DEF Claims
<1>2. l \in crew.listeners /\ i \in Ids
  BY <1>1, EarlyIsServing, ServingFacts
<1>3. CASE vault[i] = None /\ vault' = [vault EXCEPT ![i] = c] /\ Answers(l, "applied", "receipt")
  <2>1. PICK m \in Request : Turn(l, "receipt", m)  BY <1>3 DEF Answers
  <2>2. \A j \in Ids : vault'[j] = IF j = i THEN c ELSE vault[j]  BY <1>3 DEF Shaped, TypeOK
  <2>3. KeyOf[c] \in trimmed \/ pubs[KeyOf[c]] = c  BY <1>1 DEF Held, ClaimHeld
  <2>4. Owned'  BY <1>1, <2>2, <2>3 DEF Held, Owned
  <2>5. Grows /\ PubsStay  BY <1>1, <1>3, <2>2 DEF Grows, PubsStay
  <2>6. ClaimHeld(l)'  BY <2>1, OutHeld DEF Turn, Claims, Early
  <2> QED BY <1>2, <2>1, <2>4, <2>5, <2>6, HeldTurn
<1>4. CASE vault[i] # None /\ vault' = vault /\ Proceeds(l, "verify")
  <2>1. Turn(l, "verify", my[l])  BY <1>4 DEF Proceeds
  <2>2. Lone' = Lone  BY <1>1 DEF Lone
  <2>3. ClaimHeld(l)'
    <3>1. my'[l] = my[l] /\ at'[l] = "verify"  BY <2>1 DEF Turn
    <3>2. Lone /\ "record" \in my[l].created => KeyOf[c] \in trimmed \/ Unwritten(KeyOf[c])
      BY <1>1 DEF Held, ClaimHeld
    <3> QED BY <1>1, <1>4, <2>2, <3>1, <3>2 DEF ClaimHeld, Early, Unwritten
  <2> QED BY <1>1, <1>2, <1>4, <2>1, <2>3, OwnedStays, HeldTurn DEF Held
<1> QED BY <1>3, <1>4, WriteFacts

LEMMA HeldVerify ==
  ASSUME Shaped, Truthful, Lone \/ Steady, Held, NEW l \in Listeners, Verify(l)
  PROVE  Held'
<1> DEFINE c == my[l].cap
           i == IdOf[c]
           k == KeyOf[c]
<1>1. /\ at[l] = "verify" /\ at[l] \in Claims /\ at[l] \in Serving
      /\ UNCHANGED <<crew, pubs, rcpts, vault, trimmed>>
  BY VerifyFacts DEF Claims, Serving, Steps
<1>2. CASE Answers(l, "applied", "receipt")  BY <1>1, <1>2, HeldAnswers
<1>3. CASE Answers(l, "internal", "rollback") /\ ~ Ours(c)
  <2>1. ~ Lone => k \in trimmed
    <3> SUFFICES ASSUME ~ Lone PROVE k \in trimmed  OBVIOUS
    <3>1. Steady /\ c \in crew.captures /\ i \in Ids /\ vault[i] # None
      BY <1>1, ServingFacts, CapInCrew DEF Held, ClaimHeld
    <3>2. vault[i] = c /\ ptrs[i] \in {None, k}  BY <3>1, PointsHome
    <3>3. Owner(i) \notin {None, c}  BY <1>3, <3>2 DEF Ours
    <3>4. pubs[k] # c  BY <3>2, <3>3 DEF Owner
    <3> QED BY <3>1, <3>2, <3>4 DEF Held, Owned
  <2> QED BY <1>1, <1>3, <2>1, HeldRollsBack
<1> QED BY <1>2, <1>3, VerifyFacts

LEMMA HeldRecord ==
  ASSUME Shaped, Held, NEW l \in Listeners, NEW next \in {"trim", "tidy"},
         at[l] \in {"receipt", "backfill"}, Record(l, next),
         UNCHANGED <<crew, pubs, vault, trimmed>>
  PROVE  Held'
<1> DEFINE k == KeyOf[my[l].cap]
<1>1. l \in crew.listeners /\ at[l] \in Serving /\ k \in Keys
  BY EarlyIsServing, ServingFacts DEF Early
<1>2. \E s \in {"idle", "trim", "tidy"} : \E m : Turn(l, s, m)  BY RecordFacts
<1>3. Grows
  <2>1. \A j \in Keys : rcpts[j] # None => rcpts'[j] = rcpts[j]
    BY <1>1, RecordFacts DEF Shaped, TypeOK
  <2> QED BY <2>1 DEF Grows
<1>4. Owned' /\ PubsStay  BY DEF Held, Owned, PubsStay
<1>5. ClaimHeld(l)'  BY <1>2, OutHeld DEF Turn, Claims, Early
<1> QED BY <1>1, <1>2, <1>3, <1>4, <1>5, HeldTurn

LEMMA HeldTrim ==
  ASSUME Shaped, Held, NEW l \in Listeners, Trim(l)
  PROVE  Held'
<1>1. /\ at[l] \in {"trim", "tidy"} /\ (Turn(l, "settle", my[l]) \/ Turn(l, "answer", my[l]))
      /\ UNCHANGED <<crew, vault>>
  BY TrimFacts DEF Proceeds
<1>2. PICK drop \in SUBSET Captures :
              /\ pubs' = [k \in Keys |-> IF \E c \in drop : KeyOf[c] = k THEN None ELSE pubs[k]]
              /\ rcpts' = [k \in Keys |-> IF \E c \in drop : KeyOf[c] = k THEN None ELSE rcpts[k]]
              /\ ptrs' = [i \in Ids |-> IF \E c \in drop : IdOf[c] = i THEN None ELSE ptrs[i]]
              /\ trimmed' = trimmed \cup {KeyOf[c] : c \in drop}
  BY TrimFacts
<1>3. /\ trimmed \subseteq trimmed'
      /\ \A k \in Keys : rcpts'[k] = rcpts[k] \/ k \in trimmed'
      /\ \A k \in Keys : pubs'[k] = pubs[k] \/ k \in trimmed'
  BY <1>2
<1>4. \A i \in Ids : vault[i] # None => KeyOf[vault[i]] \in Keys
  BY CaptureAssumption DEF Shaped, TypeOK
<1>5. Owned'  BY <1>1, <1>3, <1>4 DEF Held, Owned
<1>6. Grows /\ PubsStay  BY <1>1, <1>3 DEF Grows, PubsStay
<1>7. l \in crew.listeners  BY <1>1, EarlyIsServing
<1>8. ClaimHeld(l)'  BY <1>1, OutHeld DEF Turn, Claims, Early
<1> QED BY <1>1, <1>5, <1>6, <1>7, <1>8, HeldTurn

LEMMA HeldSettle ==
  ASSUME Shaped, Held, NEW l \in Listeners, Settle(l)
  PROVE  Held'
<1>1. at[l] = "settle" /\ Turn(l, "answer", my[l]) /\ UNCHANGED <<crew, pubs, rcpts, vault, trimmed>>
  BY SettleFacts DEF Proceeds
<1> QED BY <1>1, EarlyIsServing, HeldEarly DEF Early

LEMMA HeldReply ==
  ASSUME Shaped, Held, NEW l \in Listeners, Reply(l)
  PROVE  Held'
<1>1. at[l] = "answer" /\ Turn(l, "idle", None) /\ UNCHANGED <<crew, pubs, rcpts, vault, trimmed>>
  BY ReplyFacts
<1> QED BY <1>1, EarlyIsServing, HeldIdle

LEMMA HeldStays ==
  ASSUME Shaped, Held, UNCHANGED <<crew, pubs, vault, trimmed, at>>,
         \A l \in Listeners : at[l] \in Serving => my'[l].cap = my[l].cap /\ my'[l].created = my[l].created
  PROVE  Held'
<1>1. Lone' = Lone /\ Owned'  BY DEF Lone, Held, Owned
<1>2. ASSUME NEW l \in Listeners PROVE ClaimHeld(l)'
  <2>1. ClaimHeld(l)  BY DEF Held
  <2>2. CASE at[l] \notin Serving
    BY <2>2 DEF ClaimHeld, Early, Claims, Serving, Steps
  <2>3. CASE at[l] \in Serving
    <3>1. my'[l].cap = my[l].cap /\ my'[l].created = my[l].created  BY <2>3
    <3> QED BY <1>1, <2>1, <3>1 DEF ClaimHeld, Unwritten
  <2> QED BY <2>2, <2>3
<1> QED BY <1>1, <1>2 DEF Held

LEMMA HeldListen ==
  ASSUME Shaped, Truthful, Lone \/ Steady, Held, NEW l \in Listeners, Listen(l)
  PROVE  Held'
<1>1. Receipt(l) => Held'  BY HeldRecord DEF Receipt, env, history
<1>2. Backfill(l) => Held'  BY HeldRecord DEF Backfill, env, history
<1> QED BY <1>1, <1>2, HeldLookup, HeldFinish, HeldReserve, HeldPublished, HeldStillLive, HeldPublish,
           HeldClaim, HeldLink, HeldPointer, HeldCreate, HeldRollback, HeldWrite, HeldVerify,
           HeldTrim, HeldSettle, HeldReply
        DEF Listen

LEMMA HeldNext ==
  ASSUME Shaped, Truthful, Lone \/ Steady, Held, [Next]_vars
  PROVE  Held'
<1>1. CASE UNCHANGED vars
  BY <1>1, HeldStays DEF vars
<1>2. ASSUME NEW l \in Listeners, Start(l) \/ Crash(l) \/ Fail(l) \/ Listen(l) PROVE Held'
  BY <1>2, HeldStart, HeldCrash, HeldFail, HeldListen
<1>3. ASSUME NEW l \in Listeners, NEW c \in Captures, Admit(l, c) PROVE Held'
  BY <1>3, HeldAdmit
<1>4. CASE Tick
  <2>1. /\ UNCHANGED <<crew, pubs, vault, trimmed, at>>
        /\ \A l \in Listeners : at[l] \in Serving => my'[l].cap = my[l].cap /\ my'[l].created = my[l].created
    BY <1>4, TickFacts
  <2> QED BY <2>1, HeldStays
<1>5. CASE Revoke  BY <1>5, HeldStays DEF Revoke, published, history
<1>6. ASSUME NEW p \in Policies, SetPolicy(p) PROVE Held'
  BY <1>6, HeldStays DEF SetPolicy, published, history
<1> QED BY <1>1, <1>2, <1>3, <1>4, <1>5, <1>6 DEF Next

LEMMA CrewStays ==
  ASSUME [Next]_vars
  PROVE  crew' = crew
  BY ZenonT(60) DEF Next, vars, env, Start, Crash, Fail, Admit, Listen, Lookup, Finish, Reserve, Published, StillLive,
         Publish, Claim, Link, Pointer, Create, Rollback, Write, Verify, Receipt, Backfill, Trim, Settle,
         Reply, Tick, Revoke, SetPolicy

-----------------------------------------------------------------------------
(* One memory for a key.                                                    *)

\* What the crews of a run must be for a key to make one memory: one listener;
\* or ids that do not collide and claims that are not given up halfway, which
\* take back a record that another listener goes by; or a phone that never
\* re-stamps a capture.
Apart ==
    \A w \in Crews :
        \/ \A l, m \in w.listeners : l = m
        \/ /\ \A c, d \in w.captures : IdOf[c] = IdOf[d] => c = d
           /\ w.faults = 0 \/ Fallible \cap {"pointer", "create"} = {}
        \/ NeverRestamped(w.captures)

LEMMA HeldInit ==
  ASSUME Init
  PROVE  Held
<1>1. Owned  BY DEF Init, Owned
<1>2. \A l \in Listeners : ClaimHeld(l)  BY DEF Init, ClaimHeld, Early, Claims
<1> QED BY <1>1, <1>2 DEF Held

LEMMA IInvInit == Init => IInv
  BY ShapedInit, TruthfulInit, HeldInit DEF IInv, Claimed

LEMMA IInvNext ==
  ASSUME IInv, [Next]_vars
  PROVE  IInv'
<1>1. Shaped' /\ Truthful'  BY ShapedNext, TruthfulNext DEF IInv
<1>2. crew' = crew  BY CrewStays
<1>3. (Lone \/ Steady)' = (Lone \/ Steady)  BY <1>2 DEF Lone, Steady
<1>4. ASSUME Lone \/ Steady PROVE Held'
  BY <1>4, HeldNext DEF IInv, Claimed
<1> QED BY <1>1, <1>3, <1>4 DEF IInv, Claimed

\* The record of a key, which one memory can have, or the one capture of the key.
LEMMA OneMemoryFor ==
  ASSUME Apart, IInv
  PROVE  OneMemoryPerKey
<1> SUFFICES ASSUME NEW i \in Ids, NEW j \in Ids,
                    vault[i] # None, vault[j] # None, i # j,
                    KeyOf[vault[i]] = KeyOf[vault[j]]
             PROVE  KeyOf[vault[i]] \in trimmed
  BY DEF OneMemoryPerKey
<1>1. /\ vault[i] \in crew.captures /\ IdOf[vault[i]] = i
      /\ vault[j] \in crew.captures /\ IdOf[vault[j]] = j
  BY DEF IInv, Truthful, Filed, FilesKeyed
<1>2. vault[i] # vault[j]  BY <1>1
<1>3. ~ NeverRestamped(crew.captures)  BY <1>1, <1>2 DEF NeverRestamped
<1>4. crew \in Crews  BY DEF IInv, Shaped, TypeOK
<1>5. Lone \/ Steady  BY <1>3, <1>4 DEF Apart, Lone, Steady
<1>6. Owned  BY <1>5 DEF IInv, Claimed, Held
<1> QED BY <1>2, <1>6 DEF Owned

\* A key makes one memory, over every retry, takeover, sweep and crash: a capture
\* is written only under the publication record of its key, and that record stays
\* while a memory does (claimCapturePublication and its rollback, which takes a
\* record back; OneMemoryPerKey).  Where the rollback of one listener can take
\* back what another relies on, the promise is not kept, hence Apart.
THEOREM OneMemory ==
  ASSUME Apart
  PROVE  Spec => []OneMemoryPerKey
<1>1. Init => IInv  BY IInvInit
<1>2. IInv /\ [Next]_vars => IInv'  BY IInvNext
<1>3. IInv => OneMemoryPerKey  BY OneMemoryFor
<1> QED BY <1>1, <1>2, <1>3, PTL DEF Spec

-----------------------------------------------------------------------------
(* Capture keeps the promise of WriteOnce, read as in Capture: every step is *)
(* a step of the promise or leaves what it speaks of alone.                  *)

LEMMA OnKeys ==
  /\ Wrote = [k \in Keys |-> Wrote[k]] /\ Wrote' = [k \in Keys |-> Wrote'[k]]
  /\ Receipted = [k \in Keys |-> Receipted[k]] /\ Receipted' = [k \in Keys |-> Receipted'[k]]
  /\ Heard = [k \in Keys |-> Heard[k]] /\ Heard' = [k \in Keys |-> Heard'[k]]
  BY DEF Wrote, Receipted, Heard

LEMMA WroteAlike ==
  ASSUME \A k \in Keys : Wrote'[k] = Wrote[k]
  PROVE  Wrote' = Wrote
  BY OnKeys

LEMMA ReceiptedAlike ==
  ASSUME \A k \in Keys : Receipted'[k] = Receipted[k]
  PROVE  Receipted' = Receipted
  BY OnKeys

LEMMA HeardAlike ==
  ASSUME \A k \in Keys : Heard'[k] = Heard[k]
  PROVE  Heard' = Heard
  BY OnKeys

LEMMA PromiseStays ==
  ASSUME trimmed' = trimmed, Wrote' = Wrote, Receipted' = Receipted, Heard' = Heard
  PROVE  UNCHANGED Promise!promise
  BY DEF Promise!promise

LEMMA PromiseWrites ==
  ASSUME trimmed' = trimmed, NEW k \in Keys \ trimmed,
         Wrote[k] = None, Wrote'[k] \in Captures,
         \A j \in Keys \ {k} : Wrote'[j] = Wrote[j],
         Receipted' = Receipted, Heard' = Heard
  PROVE  Promise!Next
<1>1. Wrote' = [Wrote EXCEPT ![k] = Wrote'[k]]  BY OnKeys
<1>2. Promise!Write(k)
  BY <1>1 DEF Promise!Write
<1> QED BY <1>2 DEF Promise!Next

LEMMA PromiseStamps ==
  ASSUME trimmed' = trimmed, NEW k \in Keys \ trimmed,
         Receipted[k] = None, Receipted'[k] \in Receipts, Wrote[k] # None,
         \A j \in Keys \ {k} : Receipted'[j] = Receipted[j],
         Wrote' = Wrote, Heard' = Heard
  PROVE  Promise!Next
<1>1. Receipted' = [Receipted EXCEPT ![k] = Receipted'[k]]  BY OnKeys
<1>2. Promise!Stamp(k)
  BY <1>1 DEF Promise!Stamp
<1> QED BY <1>2 DEF Promise!Next

LEMMA PromiseAnswers ==
  ASSUME trimmed' = trimmed, NEW k \in Keys \ trimmed,
         Heard[k] = {}, Heard'[k] = {Receipted[k]}, Receipted[k] # None,
         \A j \in Keys \ {k} : Heard'[j] = Heard[j],
         Wrote' = Wrote, Receipted' = Receipted
  PROVE  Promise!Next
<1>1. Heard' = [Heard EXCEPT ![k] = Heard'[k]]  BY OnKeys
<1>2. Promise!Answer(k)
  BY <1>1 DEF Promise!Answer
<1> QED BY <1>2 DEF Promise!Next

LEMMA PromiseForgets ==
  ASSUME trimmed \subseteq trimmed', trimmed' \subseteq Keys, trimmed' # trimmed,
         \A k \in Keys : Wrote'[k] = IF k \in trimmed' THEN None ELSE Wrote[k],
         \A k \in Keys : Receipted'[k] = IF k \in trimmed' THEN None ELSE Receipted[k],
         \A k \in Keys : Heard'[k] = IF k \in trimmed' THEN {} ELSE Heard[k]
  PROVE  Promise!Next
<1>1. /\ (Keys \ trimmed)' # Keys \ trimmed /\ (Keys \ trimmed)' \subseteq Keys \ trimmed
      /\ \A k \in Keys : k \in (Keys \ trimmed)' <=> k \notin trimmed'
  OBVIOUS
<1>2. /\ Wrote' = [k \in Keys |-> IF k \in (Keys \ trimmed)' THEN Wrote[k] ELSE None]
      /\ Receipted' = [k \in Keys |-> IF k \in (Keys \ trimmed)' THEN Receipted[k] ELSE None]
      /\ Heard' = [k \in Keys |-> IF k \in (Keys \ trimmed)' THEN Heard[k] ELSE {}]
  BY <1>1, OnKeys
<1>3. Promise!Forget
  BY <1>1, <1>2 DEF Promise!Forget
<1> QED BY <1>3 DEF Promise!Next

LEMMA PromiseInit == Init => Promise!Init
<1> SUFFICES ASSUME Init PROVE Promise!Init  OBVIOUS
<1>1. \A k \in Keys : Written(k) = {} /\ Applied(k) = {}
  BY CaptureAssumption DEF Init, Written, Applied
<1>2. /\ Wrote = [k \in Keys |-> None]
      /\ Receipted = [k \in Keys |-> None]
  BY <1>1 DEF Init, Wrote, Receipted
<1>3. \A k \in Keys : {b.id : b \in Applied(k)} = {}  BY <1>1
<1>4. Heard = [k \in Keys |-> {}]  BY <1>3 DEF Init, Heard
<1> QED BY <1>2, <1>4 DEF Init, Promise!Init

LEMMA WroteStays ==
  ASSUME UNCHANGED <<vault, trimmed>>
  PROVE  Wrote' = Wrote
<1>1. ASSUME NEW k \in Keys PROVE Wrote'[k] = Wrote[k]
  <2>1. Written(k)' = Written(k)  BY DEF Written
  <2> QED BY <2>1 DEF Wrote
<1> QED BY <1>1, WroteAlike

LEMMA ReceiptedStays ==
  ASSUME UNCHANGED <<rcpts, trimmed>>
  PROVE  Receipted' = Receipted
  BY ReceiptedAlike DEF Receipted

LEMMA HeardStays ==
  ASSUME UNCHANGED <<told, trimmed>>
  PROVE  Heard' = Heard
<1>1. ASSUME NEW k \in Keys PROVE Heard'[k] = Heard[k]
  <2>1. Applied(k)' = Applied(k)  BY DEF Applied
  <2> QED BY <2>1 DEF Heard
<1> QED BY <1>1, HeardAlike

\* Most steps touch nothing the promise speaks of.
LEMMA QuietKeeps ==
  ASSUME UNCHANGED <<vault, rcpts, told, trimmed>>
  PROVE  [Promise!Next]_Promise!promise
<1>1. Wrote' = Wrote /\ Receipted' = Receipted /\ Heard' = Heard
  <2>1. Wrote' = Wrote  BY WroteStays
  <2>2. Receipted' = Receipted  BY ReceiptedStays
  <2>3. Heard' = Heard  BY HeardStays
  <2> QED BY <2>1, <2>2, <2>3
<1>2. UNCHANGED Promise!promise  BY <1>1, PromiseStays
<1> QED BY <1>2

\* A memory comes under a key that had none, or that is forgotten.
LEMMA OneMore ==
  ASSUME TypeOK, OneMemoryPerKey', UNCHANGED <<rcpts, told, trimmed>>,
         NEW c \in Captures, vault[IdOf[c]] = None, vault' = [vault EXCEPT ![IdOf[c]] = c]
  PROVE  [Promise!Next]_Promise!promise
<1> DEFINE k == KeyOf[c]
           i == IdOf[c]
<1>1. k \in Keys /\ i \in Ids /\ c # None  BY CaptureAssumption
<1>2. vault'[i] = c /\ \A j \in Ids \ {i} : vault'[j] = vault[j]  BY <1>1 DEF TypeOK
<1>3. ASSUME NEW j \in Keys, NEW d \in Captures
      PROVE  d \in Written(j)' <=> d \in Written(j) \/ (d = c /\ j = k)
  BY <1>1, <1>2, CaptureAssumption DEF Written
<1>4. ASSUME NEW j \in Keys PROVE Written(j) \subseteq Captures /\ Written(j)' \subseteq Captures
  BY DEF Written
<1>5. ASSUME NEW j \in Keys \ {k} PROVE Wrote'[j] = Wrote[j]
  <2>1. Written(j)' = Written(j)  BY <1>3, <1>4
  <2> QED BY <2>1 DEF Wrote
<1>6. Receipted' = Receipted /\ Heard' = Heard  BY ReceiptedStays, HeardStays
<1>7. CASE k \in trimmed
  <2>1. Wrote'[k] = Wrote[k]  BY <1>1, <1>7 DEF Wrote
  <2>2. Wrote' = Wrote  BY <1>5, <2>1, WroteAlike
  <2>3. UNCHANGED Promise!promise  BY <1>6, <2>2, PromiseStays
  <2> QED BY <2>3
<1>8. CASE k \notin trimmed
  <2>1. ASSUME NEW d \in Written(k) PROVE FALSE
    <3>1. /\ d \in Captures /\ d # None /\ KeyOf[d] = k /\ IdOf[d] \in Ids /\ vault[IdOf[d]] = d
      BY <2>1, CaptureAssumption DEF Written
    <3>2. IdOf[d] # i  BY <3>1
    <3>3. vault'[IdOf[d]] = d  BY <1>2, <3>1, <3>2
    <3> QED BY <1>1, <1>2, <1>8, <3>1, <3>2, <3>3 DEF OneMemoryPerKey
  <2>2. Wrote[k] = None
    <3>1. Written(k) = {}  BY <2>1
    <3> QED BY <1>1, <3>1 DEF Wrote
  <2>3. c \in Written(k)'  BY <1>1, <1>3
  <2>4. Wrote'[k] = CHOOSE d \in Written(k)' : TRUE  BY <1>1, <1>8, <2>3 DEF Wrote
  <2>5. Wrote'[k] \in Written(k)'  BY <2>3, <2>4
  <2>6. Wrote'[k] \in Captures  BY <1>1, <1>4, <2>5
  <2>7. Promise!Next  BY <1>1, <1>5, <1>6, <1>8, <2>2, <2>6, PromiseWrites
  <2> QED BY <2>7
<1> QED BY <1>7, <1>8

LEMMA WriteKeeps ==
  ASSUME Shaped, OneMemoryPerKey', NEW l \in Listeners, Write(l)
  PROVE  [Promise!Next]_Promise!promise
<1>1. at[l] \in Serving /\ UNCHANGED <<rcpts, told, trimmed>> /\ TypeOK
  BY WriteFacts DEF Serving, Steps, Shaped
<1>2. my[l].cap \in Captures  BY <1>1, ServingFacts
<1>3. CASE vault' = vault
  <2>1. UNCHANGED <<vault, rcpts, told, trimmed>>  BY <1>1, <1>3
  <2> QED BY <2>1, QuietKeeps
<1>4. PICK c \in Captures : c = my[l].cap  BY <1>2
<1>5. CASE vault[IdOf[c]] = None /\ vault' = [vault EXCEPT ![IdOf[c]] = c]
  BY <1>1, <1>5, OneMore
<1> QED BY <1>3, <1>4, <1>5, WriteFacts

LEMMA RecordKeeps ==
  ASSUME Shaped, Truthful, NEW l \in Listeners, at[l] \in {"receipt", "backfill"},
         NEW next \in {"trim", "tidy"}, Record(l, next), UNCHANGED <<vault, told, trimmed>>
  PROVE  [Promise!Next]_Promise!promise
<1>1. at[l] \in Serving /\ TypeOK  BY DEF Serving, Steps, Shaped
<1>2. /\ my[l].cap \in Captures /\ KeyOf[my[l].cap] \in Keys /\ my[l].body \in Body
      /\ KeyOf[my[l].body.cap] = KeyOf[my[l].cap]
  BY <1>1, ServingFacts DEF Truthful, Known, RequestKeyed, Bodied
<1>3. PICK k \in Keys, b \in Body : k = KeyOf[my[l].cap] /\ b = my[l].body  BY <1>2
<1>4. b.id \in Receipts /\ b # None /\ KeyOf[b.cap] = k /\ b.cap \in Captures
  BY <1>2, <1>3, BodyFields
<1>5. CASE rcpts' = rcpts
  <2>1. UNCHANGED <<vault, rcpts, told, trimmed>>  BY <1>5
  <2> QED BY <2>1, QuietKeeps
<1>6. CASE rcpts[k] = None /\ rcpts' = [rcpts EXCEPT ![k] = b]
  <2>1. rcpts'[k] = b /\ \A j \in Keys \ {k} : rcpts'[j] = rcpts[j]  BY <1>1, <1>6 DEF TypeOK
  <2>2. Wrote' = Wrote /\ Heard' = Heard
    <3>1. Wrote' = Wrote  BY WroteStays
    <3>2. Heard' = Heard  BY HeardStays
    <3> QED BY <3>1, <3>2
  <2>3. \A j \in Keys \ {k} : Receipted'[j] = Receipted[j]  BY <2>1 DEF Receipted
  <2>4. CASE k \in trimmed \/ ~ Says(b)
    <3>1. Receipted'[k] = Receipted[k]  BY <1>6, <2>1, <2>4 DEF Receipted, Says
    <3>2. Receipted' = Receipted  BY <2>3, <3>1, ReceiptedAlike
    <3>3. UNCHANGED Promise!promise  BY <2>2, <3>2, PromiseStays
    <3> QED BY <3>3
  <2>5. CASE k \notin trimmed /\ Says(b)
    <3>1. at[l] = "receipt"
      <4>1. at[l] = "backfill" => Stands(b)  BY <1>3, <2>5 DEF Truthful, Known, RequestStands
      <4>2. ~ Stands(b)  BY <1>4, <1>6, <2>5 DEF Stands
      <4> QED BY <4>1, <4>2
    <3>2. my[l].cap \in Written(k)
      BY <1>2, <1>3, <3>1 DEF Truthful, Known, RequestStands, Written
    <3>3. Wrote[k] # None
      <4>1. Wrote[k] = CHOOSE c \in Written(k) : TRUE  BY <2>5, <3>2 DEF Wrote
      <4>2. Wrote[k] \in Written(k)  BY <3>2, <4>1
      <4> QED BY <4>2, CaptureAssumption DEF Written
    <3>4. Receipted[k] = None  BY <1>6 DEF Receipted
    <3>5. Receipted'[k] = b.id  BY <1>4, <2>1, <2>5 DEF Receipted, Says
    <3>6. Promise!Next  BY <1>4, <2>2, <2>3, <2>5, <3>3, <3>4, <3>5, PromiseStamps
    <3> QED BY <3>6
  <2> QED BY <2>4, <2>5
<1>7. rcpts' = rcpts \/ rcpts' = [rcpts EXCEPT ![k] = IF rcpts[k] = None THEN b ELSE @]
  BY <1>3, RecordFacts
<1>8. rcpts' = rcpts \/ (rcpts[k] = None /\ rcpts' = [rcpts EXCEPT ![k] = b])
  BY <1>1, <1>7 DEF TypeOK
<1> QED BY <1>5, <1>6, <1>8

LEMMA ReplyKeeps ==
  ASSUME Shaped, Truthful, NEW l \in Listeners, Reply(l)
  PROVE  [Promise!Next]_Promise!promise
<1>1. at[l] = "answer" /\ at[l] \in Serving /\ UNCHANGED <<vault, rcpts, trimmed>>
  BY ReplyFacts DEF Serving, Steps
<1>2. PICK b \in Told : /\ told' = told \cup {b}
                        /\ Says(b) => b = my[l].body
                        /\ b.cap = my[l].body.cap /\ b.verdict = my[l].body.verdict
  BY ReplyFacts
<1>3. Wrote' = Wrote /\ Receipted' = Receipted
  <2>1. Wrote' = Wrote  BY <1>1, WroteStays
  <2>2. Receipted' = Receipted  BY <1>1, ReceiptedStays
  <2> QED BY <2>1, <2>2
<1>4. CASE ~ Says(b)
  <2>1. ASSUME NEW k \in Keys PROVE Heard'[k] = Heard[k]
    <3>1. Applied(k)' = Applied(k)  BY <1>2, <1>4 DEF Applied, Says
    <3> QED BY <1>1, <3>1 DEF Heard
  <2>2. Heard' = Heard  BY <2>1, HeardAlike
  <2>3. UNCHANGED Promise!promise  BY <1>1, <1>3, <2>2, PromiseStays
  <2> QED BY <2>3
<1>5. CASE Says(b)
  <2>1. b = my[l].body /\ my[l].body \in Body  BY <1>1, <1>2, <1>5, ServingFacts DEF Bodied
  <2>2. b \in Body /\ b # None /\ b.id \in Receipts /\ b.id # None /\ b.cap \in Captures
    BY <2>1, BodyFields, CaptureAssumption
  <2>3. Stands(b)  BY <1>1, <1>5, <2>1 DEF Truthful, Known, RequestStands
  <2>4. PICK k \in Keys : k = KeyOf[b.cap]  BY <2>2, CaptureAssumption
  <2>5. ASSUME NEW j \in Keys \ {k} PROVE Heard'[j] = Heard[j]
    <3>1. Applied(j)' = Applied(j)  BY <1>2, <2>4 DEF Applied
    <3> QED BY <1>1, <3>1 DEF Heard
  <2>6. CASE k \in trimmed
    <3>1. Heard'[k] = Heard[k]  BY <1>1, <2>6 DEF Heard
    <3>2. Heard' = Heard  BY <2>5, <3>1, HeardAlike
    <3>3. UNCHANGED Promise!promise  BY <1>1, <1>3, <3>2, PromiseStays
    <3> QED BY <3>3
  <2>7. CASE k \notin trimmed
    <3>1. rcpts[k] = b /\ Receipted[k] = b.id
      BY <1>5, <2>2, <2>3, <2>4, <2>7 DEF Stands, Receipted, Says
    <3>2. ASSUME NEW e \in Applied(k) PROVE e = b
      BY <2>7, <3>1 DEF Truthful, Filed, AnswersStand, Applied, Says, Stands
    <3>3. Applied(k)' = Applied(k) \cup {b}  BY <1>2, <1>5, <2>4 DEF Applied, Says
    <3>4. Applied(k)' = {b}  BY <3>2, <3>3
    <3>5. Heard'[k] = {b.id}
      <4>1. {e.id : e \in Applied(k)'} = {b.id}  BY <3>4
      <4>2. Heard'[k] = {e.id : e \in Applied(k)'}  BY <1>1, <2>7 DEF Heard
      <4> QED BY <4>1, <4>2
    <3>6. CASE b \in Applied(k)
      <4>1. Applied(k)' = Applied(k)  BY <3>3, <3>6
      <4>2. Heard'[k] = Heard[k]  BY <1>1, <4>1 DEF Heard
      <4>3. Heard' = Heard  BY <2>5, <4>2, HeardAlike
      <4>4. UNCHANGED Promise!promise  BY <1>1, <1>3, <4>3, PromiseStays
      <4> QED BY <4>4
    <3>7. CASE b \notin Applied(k)
      <4>1. Applied(k) = {}  BY <3>2, <3>7
      <4>2. Heard[k] = {}
        <5>1. {e.id : e \in Applied(k)} = {}  BY <4>1
        <5> QED BY <2>7, <5>1 DEF Heard
      <4>3. Promise!Next  BY <1>1, <1>3, <2>2, <2>5, <2>7, <3>1, <3>5, <4>2, PromiseAnswers
      <4> QED BY <4>3
    <3> QED BY <3>6, <3>7
  <2> QED BY <2>6, <2>7
<1> QED BY <1>4, <1>5

LEMMA TrimKeeps ==
  ASSUME Shaped, NEW l \in Listeners, Trim(l)
  PROVE  [Promise!Next]_Promise!promise
<1>1. UNCHANGED <<vault, told>>  BY TrimFacts
<1>2. PICK drop \in SUBSET Captures :
        /\ rcpts' = [k \in Keys |-> IF \E c \in drop : KeyOf[c] = k THEN None ELSE rcpts[k]]
        /\ trimmed' = trimmed \cup {KeyOf[c] : c \in drop}
  <2>1. \E drop \in SUBSET Captures :
              /\ pubs' = [k \in Keys |-> IF \E c \in drop : KeyOf[c] = k THEN None ELSE pubs[k]]
              /\ rcpts' = [k \in Keys |-> IF \E c \in drop : KeyOf[c] = k THEN None ELSE rcpts[k]]
              /\ ptrs' = [i \in Ids |-> IF \E c \in drop : IdOf[c] = i THEN None ELSE ptrs[i]]
              /\ trimmed' = trimmed \cup {KeyOf[c] : c \in drop}
    BY TrimFacts
  <2> QED BY <2>1
<1>3. trimmed \subseteq trimmed' /\ \A k \in Keys \ trimmed' : rcpts'[k] = rcpts[k]  BY <1>2
<1>4. trimmed' \subseteq Keys
  BY <1>2, CaptureAssumption DEF Shaped, TypeOK
<1>5. ASSUME NEW k \in Keys
      PROVE  /\ Wrote'[k] = IF k \in trimmed' THEN None ELSE Wrote[k]
             /\ Receipted'[k] = IF k \in trimmed' THEN None ELSE Receipted[k]
             /\ Heard'[k] = IF k \in trimmed' THEN {} ELSE Heard[k]
  <2>1. CASE k \in trimmed'  BY <2>1 DEF Wrote, Receipted, Heard
  <2>2. CASE k \notin trimmed'
    <3>1. k \notin trimmed /\ rcpts'[k] = rcpts[k]  BY <1>3, <2>2
    <3>2. Written(k)' = Written(k) /\ Applied(k)' = Applied(k)  BY <1>1 DEF Written, Applied
    <3>3. Wrote'[k] = Wrote[k]  BY <2>2, <3>1, <3>2 DEF Wrote
    <3>4. Receipted'[k] = Receipted[k]  BY <2>2, <3>1 DEF Receipted
    <3>5. Heard'[k] = Heard[k]  BY <2>2, <3>1, <3>2 DEF Heard
    <3> QED BY <2>2, <3>3, <3>4, <3>5
  <2> QED BY <2>1, <2>2
<1>6. CASE trimmed' = trimmed
  <2>1. \A k \in Keys : k \in trimmed => Wrote[k] = None /\ Receipted[k] = None /\ Heard[k] = {}
    BY DEF Wrote, Receipted, Heard
  <2>2. Wrote' = Wrote  BY <1>5, <1>6, <2>1, WroteAlike
  <2>3. Receipted' = Receipted  BY <1>5, <1>6, <2>1, ReceiptedAlike
  <2>4. Heard' = Heard  BY <1>5, <1>6, <2>1, HeardAlike
  <2>5. UNCHANGED Promise!promise  BY <1>6, <2>2, <2>3, <2>4, PromiseStays
  <2> QED BY <2>5
<1>7. CASE trimmed' # trimmed
  <2>1. Promise!Next  BY <1>3, <1>4, <1>5, <1>7, PromiseForgets
  <2> QED BY <2>1
<1> QED BY <1>6, <1>7

LEMMA KeepsNext ==
  ASSUME Shaped, Truthful, OneMemoryPerKey', [Next]_vars
  PROVE  [Promise!Next]_Promise!promise
<1>1. CASE UNCHANGED <<vault, rcpts, told, trimmed>>  BY <1>1, QuietKeeps
<1>2. ASSUME NEW l \in Listeners, Write(l) PROVE [Promise!Next]_Promise!promise
  BY <1>2, WriteKeeps
<1>3. ASSUME NEW l \in Listeners, Receipt(l) PROVE [Promise!Next]_Promise!promise
  BY <1>3, RecordKeeps DEF Receipt, history
<1>4. ASSUME NEW l \in Listeners, Backfill(l) PROVE [Promise!Next]_Promise!promise
  BY <1>4, RecordKeeps DEF Backfill, history
<1>5. ASSUME NEW l \in Listeners, Trim(l) PROVE [Promise!Next]_Promise!promise
  BY <1>5, TrimKeeps
<1>6. ASSUME NEW l \in Listeners, Reply(l) PROVE [Promise!Next]_Promise!promise
  BY <1>6, ReplyKeeps
<1>7. ASSUME NEW l \in Listeners, Start(l) \/ Crash(l) \/ Fail(l) \/ Listen(l)
      PROVE  \/ UNCHANGED <<vault, rcpts, told, trimmed>>
             \/ Write(l) \/ Receipt(l) \/ Backfill(l) \/ Trim(l) \/ Reply(l)
  <2> USE DEF published, history
  <2>1. CASE Start(l) \/ Crash(l) \/ Fail(l)  BY <2>1 DEF Start, Crash, Fail
  <2>2. CASE Lookup(l) \/ Finish(l) \/ Reserve(l)  BY <2>2 DEF Lookup, Finish, Reserve
  <2>3. CASE Published(l) \/ StillLive(l) \/ Publish(l) \/ Claim(l)
    BY <2>3 DEF Published, StillLive, Publish, Claim
  <2>4. CASE Link(l) \/ Pointer(l) \/ Create(l)  BY <2>4 DEF Link, Pointer, Create
  <2>5. CASE Rollback(l) \/ Verify(l) \/ Settle(l)  BY <2>5 DEF Rollback, Verify, Settle
  <2> QED BY <1>7, <2>1, <2>2, <2>3, <2>4, <2>5 DEF Listen
<1>8. ASSUME NEW l \in Listeners, NEW c \in Captures, Admit(l, c)
      PROVE  UNCHANGED <<vault, rcpts, told, trimmed>>
  BY <1>8 DEF Admit, published
<1>9. Tick \/ Revoke \/ (\E p \in Policies : SetPolicy(p)) \/ UNCHANGED vars
        => UNCHANGED <<vault, rcpts, told, trimmed>>
  BY DEF Tick, Revoke, SetPolicy, vars, published, history
<1> QED BY <1>1, <1>2, <1>3, <1>4, <1>5, <1>6, <1>7, <1>8, <1>9 DEF Next

\* One write, one receipt and one answer for a key: Capture implements WriteOnce,
\* step by step, through every reservation, takeover, replay, trim and crash
\* (handleCapture, Reserve, Published, Publish, SettleFromReplay; KeepsThePromise).
THEOREM PromiseKept ==
  ASSUME Apart
  PROVE  Spec => KeepsThePromise
<1>1. Init => IInv /\ Promise!Init  BY IInvInit, PromiseInit
<1>2. IInv => OneMemoryPerKey  BY OneMemoryFor
<1>3. IInv /\ [Next]_vars => IInv'  BY IInvNext
<1>4. IInv /\ OneMemoryPerKey' /\ [Next]_vars => [Promise!Next]_Promise!promise
  BY KeepsNext DEF IInv
<1> QED BY <1>1, <1>2, <1>3, <1>4, PTL DEF Spec, KeepsThePromise, Promise!Spec

-----------------------------------------------------------------------------
(* Types. *)

\* A route that is past its slot serves a request.
Confirming == \A l \in Listeners : step[l] \notin {"down", "idle"} => req[l] # None
Typed == PairingTypeOK /\ Confirming

\* A change of the registry gives a device a record, and an audit row is of a
\* device.
LEMMA CommitType ==
    ASSUME Typed, NEW d \in Devices, NEW record \in DeviceRecord \cup {None},
           NEW event \in {"paired", "confirmed", "expired", "revoked"},
           Commit(d, record, event) \/ CommitFails(d, record)
    PROVE  /\ reg' \in [Devices -> DeviceRecord \cup {None}]
           /\ audit' \subseteq Audit
           /\ trouble' \in 0..MaxFaults
  BY PairingAssumption DEF Typed, PairingTypeOK, Commit, CommitFails, Audit

LEMMA RecordType ==
    ASSUME Typed, NEW d \in Devices
    PROVE  /\ OneMoreFailure(d) \in DeviceRecord \cup {None}
           /\ NewTotal(d) \in Nat
           /\ reg[d] # None => Revoked(d) \in DeviceRecord
           /\ Live(d) => [reg[d] EXCEPT !.code = FALSE] \in DeviceRecord
           /\ Live(d) => [reg[d] EXCEPT !.state = "active", !.code = FALSE] \in DeviceRecord
           /\ [state |-> "pending", code |-> TRUE, late |-> FALSE, attempts |-> 0] \in DeviceRecord
<1>1. /\ reg[d] \in DeviceRecord \cup {None}
      /\ Live(d) => reg[d] \in DeviceRecord
  BY DEF Typed, PairingTypeOK, Live
<1>2. ASSUME NEW r \in DeviceRecord
      PROVE  /\ [r EXCEPT !.attempts = @ + 1] \in DeviceRecord
             /\ [r EXCEPT !.state = "revoked", !.code = FALSE] \in DeviceRecord
             /\ [r EXCEPT !.code = FALSE] \in DeviceRecord
             /\ [r EXCEPT !.state = "active", !.code = FALSE] \in DeviceRecord
             /\ [r EXCEPT !.attempts = @ + 1].attempts \in Nat
  <2>1. [r EXCEPT !.attempts = @ + 1] \in DeviceRecord
    BY DEF DeviceRecord
  <2>2. [r EXCEPT !.state = "revoked", !.code = FALSE] \in DeviceRecord
    BY DEF DeviceRecord
  <2>3. [r EXCEPT !.code = FALSE] \in DeviceRecord
    BY DEF DeviceRecord
  <2>4. [r EXCEPT !.state = "active", !.code = FALSE] \in DeviceRecord
    BY DEF DeviceRecord
  <2>5. [r EXCEPT !.attempts = @ + 1].attempts \in Nat
    BY <2>1 DEF DeviceRecord
  <2> QED
    BY <2>1, <2>2, <2>3, <2>4, <2>5
<1>3. [state |-> "pending", code |-> TRUE, late |-> FALSE, attempts |-> 0] \in DeviceRecord
  BY DEF DeviceRecord
<1> QED
  BY <1>1, <1>2, <1>3 DEF OneMoreFailure, NewTotal, Revoked

LEMMA RevokeCommitType ==
    ASSUME Typed, NEW d \in Devices, RevokeCommit(d)
    PROVE  /\ reg' \in [Devices -> DeviceRecord \cup {None}]
           /\ audit' \subseteq Audit
           /\ trouble' \in 0..MaxFaults
<1>1. CASE Unchanged
  BY <1>1 DEF Unchanged, Typed, PairingTypeOK
<1>2. CASE ~ Unchanged
  BY <1>2, CommitType, RecordType DEF RevokeCommit
<1> QED
  BY <1>1, <1>2

LEMMA GotoType ==
    ASSUME Typed, NEW l \in Listeners, NEW s \in RouteSteps, req[l] # None, RouteGoto(l, s)
    PROVE  /\ step' \in [Listeners -> RouteSteps]
           /\ req' \in [Listeners -> Guess \cup {None}]
           /\ Confirming'
  BY DEF Typed, PairingTypeOK, Confirming, RouteGoto

LEMMA RefusedType ==
    ASSUME Typed, NEW l \in Listeners, Refused(l)
    PROVE  /\ step' \in [Listeners -> RouteSteps]
           /\ req' \in [Listeners -> Guess \cup {None}]
           /\ Confirming'
  BY DEF Typed, PairingTypeOK, Confirming, Refused, RouteSteps

LEMMA RequestType ==
    ASSUME Typed, NEW l \in Listeners, step[l] \notin {"down", "idle"}
    PROVE  /\ req[l] # None /\ req[l].device \in Devices /\ req[l].right \in BOOLEAN
           /\ RouteSteps = {"down", "idle", "budget", "retry", "clear", "clear spent", "confirm",
                            "count", "mark", "revoke", "grant"}
  BY DEF Typed, PairingTypeOK, Confirming, RouteSteps, Guess

LEMMA PairTyped ==
    ASSUME Typed, NEW c \in Clis,
           PairSeed(c) \/ PairCommit(c) \/ \E d \in Devices : PairBegin(c, d)
    PROVE  Typed'
<1>1. CASE PairSeed(c)
  BY <1>1, PairingAssumption DEF PairSeed, Typed, PairingTypeOK, Confirming, routes, pairingHistory
<1>2. CASE PairCommit(c)
  <2>1. /\ cli[c].device \in Devices /\ cli[c].pin \in Clis
        /\ UNCHANGED <<seed, marks, routes, pairingHistory>>
        /\ cli' = [cli EXCEPT ![c] = None]
    BY <1>2 DEF PairCommit, Typed, PairingTypeOK
  <2>2. /\ reg' \in [Devices -> DeviceRecord \cup {None}]
        /\ audit' \subseteq Audit
        /\ trouble' \in 0..MaxFaults
    <3>1. CASE Unchanged
      BY <3>1 DEF Unchanged, Typed, PairingTypeOK
    <3>2. CASE ~ Unchanged
      BY <1>2, <2>1, <3>2, CommitType, RecordType DEF PairCommit
    <3> QED
      BY <3>1, <3>2
  <2>3. pins' \in [Devices -> Clis \cup {None}]
    BY <1>2, <2>1 DEF PairCommit, Typed, PairingTypeOK
  <2> QED
    BY <2>1, <2>2, <2>3 DEF Typed, PairingTypeOK, Confirming, routes, pairingHistory
<1>3. ASSUME NEW d \in Devices, PairBegin(c, d)
      PROVE  Typed'
  BY <1>3 DEF PairBegin, Typed, PairingTypeOK, Confirming, routes, pairingHistory
<1> QED
  BY <1>1, <1>2, <1>3

LEMMA RegistryTyped ==
    ASSUME Typed, NEW d \in Devices, RevokeByHand(d) \/ Lapse(d)
    PROVE  Typed'
<1>1. CASE RevokeByHand(d)
  BY <1>1, RevokeCommitType
  DEF RevokeByHand, Typed, PairingTypeOK, Confirming, routes, pairingHistory
<1>2. CASE Lapse(d)
  <2>1. reg[d] \in DeviceRecord
    BY <1>2, PairingAssumption DEF Lapse, Typed, PairingTypeOK
  <2>2. [reg[d] EXCEPT !.late = ~ @] \in DeviceRecord
    BY <2>1 DEF DeviceRecord
  <2>3. reg' = [reg EXCEPT ![d] = [reg[d] EXCEPT !.late = ~ @]]
    BY <1>2 DEF Lapse, Typed, PairingTypeOK
  <2> QED
    BY <1>2, <2>2, <2>3 DEF Lapse, Typed, PairingTypeOK, Confirming, routes, pairingHistory
<1> QED
  BY <1>1, <1>2

LEMMA ListenerTyped ==
    ASSUME Typed, NEW l \in Listeners,
           \/ RouteStart(l) \/ RouteCrash(l)
           \/ \E d \in Devices, right \in BOOLEAN : Ask(l, d, right)
    PROVE  Typed'
<1>1. CASE RouteStart(l)
  BY <1>1 DEF RouteStart, RouteGoto, RouteSteps, Typed, PairingTypeOK, Confirming, pairingHistory
<1>2. CASE RouteCrash(l)
  <2>1. /\ trouble' \in 0..MaxFaults
        /\ latch' \in [Listeners -> SUBSET Devices]
        /\ lost' \in [Devices -> Nat]
    BY <1>2, PairingAssumption DEF RouteCrash, Typed, PairingTypeOK
  <2>2. /\ step' \in [Listeners -> RouteSteps]
        /\ req' \in [Listeners -> Guess \cup {None}]
        /\ Confirming'
    BY <1>2 DEF RouteCrash, RouteSteps, Typed, PairingTypeOK, Confirming
  <2> QED
    BY <1>2, <2>1, <2>2 DEF RouteCrash, Typed, PairingTypeOK
<1>3. ASSUME NEW d \in Devices, NEW right \in BOOLEAN, Ask(l, d, right)
      PROVE  Typed'
  <2> DEFINE request == [device |-> d, right |-> right]
  <2>1. request \in Guess /\ request # None
    BY PairingAssumption DEF Guess
  <2>2. req' = [req EXCEPT ![l] = request]
    BY <1>3 DEF Ask
  <2> HIDE DEF request
  <2>3. /\ step' = [step EXCEPT ![l] = "budget"]
        /\ UNCHANGED <<reg, audit, seed, pins, marks, latch, cli, pairingHistory, trouble>>
    BY <1>3 DEF Ask
  <2>4. /\ step' \in [Listeners -> RouteSteps]
        /\ req' \in [Listeners -> Guess \cup {None}]
        /\ Confirming'
    BY <2>1, <2>2, <2>3 DEF RouteSteps, Typed, PairingTypeOK, Confirming
  <2> QED
    BY <2>3, <2>4 DEF Typed, PairingTypeOK, pairingHistory
<1> QED
  BY <1>1, <1>2, <1>3

\* A route's step moves it on or refuses.
LEMMA MovedOn ==
    ASSUME Typed, NEW l \in Listeners, step[l] \notin {"down", "idle"},
           Refused(l) \/ \E s \in RouteSteps : RouteGoto(l, s)
    PROVE  /\ step' \in [Listeners -> RouteSteps]
           /\ req' \in [Listeners -> Guess \cup {None}]
           /\ Confirming'
  BY GotoType, RefusedType, RequestType

LEMMA LatchType ==
    ASSUME NEW f \in [Listeners -> SUBSET Devices], NEW l \in Listeners, NEW d \in Devices
    PROVE  /\ [f EXCEPT ![l] = @ \cup {d}] \in [Listeners -> SUBSET Devices]
           /\ [f EXCEPT ![l] = @ \ {d}] \in [Listeners -> SUBSET Devices]
  OBVIOUS

LEMMA CountType ==
    ASSUME NEW f \in [Devices -> Nat], NEW d \in Devices
    PROVE  [f EXCEPT ![d] = @ + 1] \in [Devices -> Nat]
  OBVIOUS

LEMMA RouteTyped ==
    ASSUME Typed, NEW l \in Listeners, Route(l)
    PROVE  Typed'
<1> DEFINE d == req[l].device
<1>0. step[l] \notin {"down", "idle"}
  BY DEF Route, Budget, Retry, Clear, Confirm, Count, Mark, RevokeSpent, Grant
<1>1. d \in Devices
  BY <1>0, RequestType
<1>a. {"budget", "retry", "clear", "clear spent", "confirm", "count", "mark", "revoke", "grant"}
        \subseteq RouteSteps
  BY DEF RouteSteps
<1>2. CASE Budget(l)
  BY <1>2, <1>0, <1>a, MovedOn DEF Budget, Typed, PairingTypeOK, pairingHistory
<1>3. CASE Retry(l)
  <2>1. /\ reg' \in [Devices -> DeviceRecord \cup {None}]
        /\ audit' \subseteq Audit
        /\ trouble' \in 0..MaxFaults
    <3>1. OneMoreFailure(d) \in DeviceRecord \cup {None}
      BY <1>1, RecordType
    <3>2. CASE reg' = [reg EXCEPT ![d] = OneMoreFailure(d)] /\ UNCHANGED <<audit, trouble>>
      BY <1>1, <3>1, <3>2 DEF Typed, PairingTypeOK
    <3>3. CASE CommitFails(d, OneMoreFailure(d))
      BY <1>1, <3>1, <3>3, CommitType
    <3> QED
      BY <1>3, <3>2, <3>3 DEF Retry
  <2> QED
    BY <1>3, <2>1, <1>0, <1>a, MovedOn DEF Retry, Typed, PairingTypeOK, pairingHistory
<1>4. CASE Clear(l)
  <2>1. /\ marks' \subseteq Devices /\ latch' \in [Listeners -> SUBSET Devices]
        /\ trouble' \in 0..MaxFaults
    <3>1. /\ marks' \in {marks, marks \ {d}}
          /\ latch' \in {latch, [latch EXCEPT ![l] = @ \ {d}]}
          /\ trouble' = trouble \/ (trouble < MaxFaults /\ trouble' = trouble + 1)
      BY <1>4, <1>a DEF Clear
    <3>2. latch' \in [Listeners -> SUBSET Devices]
      BY <1>1, <3>1, LatchType DEF Typed, PairingTypeOK
    <3>3. trouble' \in 0..MaxFaults
      BY <3>1, PairingAssumption DEF Typed, PairingTypeOK
    <3> QED
      BY <1>1, <3>1, <3>2, <3>3 DEF Typed, PairingTypeOK
  <2>2. Refused(l) \/ \E s \in RouteSteps : RouteGoto(l, s)
    BY <1>4, <1>a DEF Clear
  <2> QED
    BY <1>4, <2>1, <2>2, <1>0, <1>a, MovedOn DEF Clear, Typed, PairingTypeOK, pairingHistory
<1>5. CASE Confirm(l)
  <2>1. /\ reg' \in [Devices -> DeviceRecord \cup {None}]
        /\ audit' \subseteq Audit
        /\ trouble' \in 0..MaxFaults
    BY <1>5, <1>1, CommitType, RecordType DEF Confirm, Unchanged, Typed, PairingTypeOK
  <2>2. minted' \in [Devices -> Nat] /\ tries' \in [Devices -> Nat]
    <3>1. /\ minted' \in {minted, [minted EXCEPT ![d] = @ + 1]}
          /\ tries' \in {tries, [tries EXCEPT ![d] = @ + 1]}
      BY <1>5 DEF Confirm
    <3> QED
      BY <1>1, <3>1, CountType DEF Typed, PairingTypeOK
  <2> QED
    BY <1>5, <2>1, <2>2, <1>0, <1>a, MovedOn DEF Confirm, Typed, PairingTypeOK
<1>6. CASE Count(l)
  <2>1. /\ reg' \in [Devices -> DeviceRecord \cup {None}]
        /\ audit' \subseteq Audit
        /\ trouble' \in 0..MaxFaults
    <3>1. OneMoreFailure(d) \in DeviceRecord \cup {None}
      BY <1>1, RecordType
    <3>2. CASE reg' = [reg EXCEPT ![d] = OneMoreFailure(d)] /\ UNCHANGED <<audit, trouble>>
      BY <1>1, <3>1, <3>2 DEF Typed, PairingTypeOK
    <3>3. CASE CommitFails(d, OneMoreFailure(d))
      BY <1>1, <3>1, <3>3, CommitType
    <3> QED
      BY <1>6, <3>2, <3>3 DEF Count
  <2> QED
    BY <1>6, <2>1, <1>0, <1>a, MovedOn DEF Count, Typed, PairingTypeOK, pairingHistory
<1>7. CASE Mark(l)
  <2>1. /\ marks' \subseteq Devices /\ latch' \in [Listeners -> SUBSET Devices]
        /\ trouble' \in 0..MaxFaults
    <3>1. /\ marks' \in {marks, marks \cup {d}}
          /\ latch' = [latch EXCEPT ![l] = @ \cup {d}]
          /\ trouble' = trouble \/ (trouble < MaxFaults /\ trouble' = trouble + 1)
      BY <1>7 DEF Mark
    <3>2. latch' \in [Listeners -> SUBSET Devices]
      BY <1>1, <3>1, LatchType DEF Typed, PairingTypeOK
    <3>3. trouble' \in 0..MaxFaults
      BY <3>1, PairingAssumption DEF Typed, PairingTypeOK
    <3> QED
      BY <1>1, <3>1, <3>2, <3>3 DEF Typed, PairingTypeOK
  <2> QED
    BY <1>7, <2>1, <1>0, <1>a, MovedOn DEF Mark, Typed, PairingTypeOK, pairingHistory
<1>8. CASE RevokeSpent(l)
  BY <1>8, <1>0, <1>1, <1>a, MovedOn, RevokeCommitType DEF RevokeSpent, Typed, PairingTypeOK, pairingHistory
<1>9. CASE Grant(l)
  BY <1>9, <1>0, <1>a, <1>1, MovedOn DEF Grant, Typed, PairingTypeOK
<1> QED
  BY <1>2, <1>3, <1>4, <1>5, <1>6, <1>7, <1>8, <1>9 DEF Route

LEMMA InitTyped == InitPairing => Typed
  BY PairingAssumption DEF InitPairing, Typed, PairingTypeOK, Confirming, RouteSteps

LEMMA NextTyped == Typed /\ [PairNext]_pairingVars => Typed'
<1> SUFFICES ASSUME Typed, [PairNext]_pairingVars PROVE Typed'
  OBVIOUS
<1>1. CASE PairNext
  BY <1>1, PairTyped, RegistryTyped, ListenerTyped, RouteTyped DEF PairNext
<1>2. CASE UNCHANGED pairingVars
  BY <1>2 DEF pairingVars, Typed, PairingTypeOK, Confirming
<1> QED
  BY <1>1, <1>2

\* Every file, history and route keeps its type.
THEOREM PairingTypeCorrect == PairingSpec => []PairingTypeOK
<1>1. PairingSpec => []Typed
  BY InitTyped, NextTyped, PTL DEF PairingSpec
<1>2. Typed => PairingTypeOK
  BY DEF Typed
<1> QED
  BY <1>1, <1>2, PTL

-----------------------------------------------------------------------------
(* What a step of the registry does to one device. *)

Burned(r) == [r EXCEPT !.code = FALSE]
Activated(r) == [r EXCEPT !.state = "active", !.code = FALSE]
MissCounted(r) == [r EXCEPT !.attempts = @ + 1]
Late(r) == [r EXCEPT !.late = ~ @]
Fresh == [state |-> "pending", code |-> TRUE, late |-> FALSE, attempts |-> 0]

\* A listener is about to try a code for d.
Tried(d) == \E l \in Listeners : step[l] = "confirm" /\ req[l].device = d

\* A record is new, stays, or moves from one that is not revoked; only an open
\* pairing is burned, counted for or made active, and that in time and by a route
\* that tries its code.
Moves(d) ==
    \/ reg'[d] = reg[d]
    \/ reg[d] = None /\ reg'[d] = Fresh
    \/ Live(d) /\ reg'[d] \in {Burned(reg[d]), MissCounted(reg[d])}
    \/ Live(d) /\ ~ reg[d].late /\ Tried(d) /\ reg'[d] = Activated(reg[d])
    \/ reg[d] # None /\ reg[d].state = "pending" /\ reg'[d] = Late(reg[d])
    \/ reg[d] # None /\ reg[d].state # "revoked" /\ reg'[d] = Revoked(d)

LEMMA MovedRecords ==
    ASSUME NEW r \in DeviceRecord
    PROVE  /\ Burned(r).code = FALSE /\ Burned(r) \in DeviceRecord
           /\ Activated(r).code = FALSE /\ Activated(r) \in DeviceRecord
           /\ MissCounted(r).code = r.code /\ MissCounted(r) \in DeviceRecord
           /\ Late(r).code = r.code /\ Late(r).state = r.state /\ Late(r) \in DeviceRecord
<1>1. Burned(r).code = FALSE /\ Burned(r) \in DeviceRecord
  BY DEF DeviceRecord, Burned
<1>2. Activated(r).code = FALSE /\ Activated(r) \in DeviceRecord
  BY DEF DeviceRecord, Activated
<1>3. MissCounted(r).code = r.code /\ MissCounted(r) \in DeviceRecord
  BY DEF DeviceRecord, MissCounted
<1>4. Late(r).code = r.code /\ Late(r).state = r.state /\ Late(r) \in DeviceRecord
  BY DEF DeviceRecord, Late
<1> QED
  BY <1>1, <1>2, <1>3, <1>4

LEMMA Committed ==
    ASSUME Typed, NEW d \in Devices, NEW record \in DeviceRecord \cup {None},
           NEW event, Commit(d, record, event) \/ CommitFails(d, record)
    PROVE  /\ reg'[d] \in {reg[d], record}
           /\ \A e \in Devices \ {d} : reg'[e] = reg[e]
  BY DEF Typed, PairingTypeOK, Commit, CommitFails

LEMMA MovesOther ==
    ASSUME NEW d \in Devices, \A e \in Devices \ {d} : reg'[e] = reg[e], Moves(d)
    PROVE  \A e \in Devices : Moves(e)
  BY DEF Moves

LEMMA RevokeCommitMoves ==
    ASSUME Typed, NEW d \in Devices, RevokeCommit(d)
    PROVE  \A e \in Devices : Moves(e)
<1>1. CASE Unchanged
  BY <1>1 DEF Unchanged, Moves
<1>2. CASE ~ Unchanged
  <2>1. /\ reg[d] # None /\ reg[d].state # "revoked" /\ Revoked(d) \in DeviceRecord
        /\ Commit(d, Revoked(d), "revoked") \/ CommitFails(d, Revoked(d))
    BY <1>2, RecordType DEF RevokeCommit
  <2> QED
    BY <2>1, Committed, MovesOther DEF Moves
<1> QED
  BY <1>1, <1>2

LEMMA OneMoreMoves ==
    ASSUME Typed, NEW d \in Devices,
           reg' = [reg EXCEPT ![d] = OneMoreFailure(d)] \/ CommitFails(d, OneMoreFailure(d))
    PROVE  \A e \in Devices : Moves(e)
<1>1. /\ reg'[d] \in {reg[d], OneMoreFailure(d)}
      /\ \A e \in Devices \ {d} : reg'[e] = reg[e]
  BY RecordType, Committed DEF Typed, PairingTypeOK
<1>2. OneMoreFailure(d) \in {reg[d], MissCounted(reg[d])} /\ (OneMoreFailure(d) # reg[d] => Live(d))
  BY DEF OneMoreFailure, MissCounted
<1> QED
  BY <1>1, <1>2, MovesOther DEF Moves

LEMMA NextMoves ==
    ASSUME Typed, [PairNext]_pairingVars
    PROVE  \A d \in Devices : Moves(d)
<1>1. CASE UNCHANGED reg
  BY <1>1 DEF Moves
<1>2. ASSUME NEW c \in Clis, PairCommit(c)
      PROVE  \A e \in Devices : Moves(e)
  <2> DEFINE d == cli[c].device
  <2>1. d \in Devices
    BY <1>2 DEF PairCommit, Typed, PairingTypeOK
  <2>2. CASE Unchanged
    BY <2>2 DEF Unchanged, Moves
  <2>3. CASE ~ Unchanged
    <3>1. /\ reg[d] = None
          /\ Commit(d, Fresh, "paired") \/ CommitFails(d, Fresh)
          /\ Fresh \in DeviceRecord
      BY <1>2, <2>1, <2>3, RecordType DEF PairCommit, Fresh
    <3> QED
      BY <2>1, <3>1, Committed, MovesOther DEF Moves
  <2> QED
    BY <2>2, <2>3
<1>3. ASSUME NEW d \in Devices, RevokeByHand(d)
      PROVE  \A e \in Devices : Moves(e)
  BY <1>3, RevokeCommitMoves DEF RevokeByHand
<1>4. ASSUME NEW d \in Devices, Lapse(d)
      PROVE  \A e \in Devices : Moves(e)
  <2>1. /\ reg[d] # None /\ reg[d].state = "pending" /\ reg'[d] = Late(reg[d])
        /\ \A e \in Devices \ {d} : reg'[e] = reg[e]
    BY <1>4 DEF Lapse, Late, Typed, PairingTypeOK
  <2> QED
    BY <2>1, MovesOther DEF Moves
<1>5. ASSUME NEW l \in Listeners, Retry(l) \/ Count(l)
      PROVE  \A e \in Devices : Moves(e)
  BY <1>5, RequestType, OneMoreMoves DEF Retry, Count
<1>6. ASSUME NEW l \in Listeners, RevokeSpent(l)
      PROVE  \A e \in Devices : Moves(e)
  BY <1>6, RequestType, RevokeCommitMoves DEF RevokeSpent
<1>7. ASSUME NEW l \in Listeners, Confirm(l)
      PROVE  \A e \in Devices : Moves(e)
  <2> DEFINE d == req[l].device
  <2>1. d \in Devices
    BY <1>7, RequestType DEF Confirm
  <2>2. CASE Unchanged
    BY <2>2 DEF Unchanged, Moves
  <2>3. CASE ~ Unchanged
    <3>1. /\ Live(d)
          /\ \/ Commit(d, Burned(reg[d]), "expired") \/ CommitFails(d, Burned(reg[d]))
             \/ /\ ~ reg[d].late
                /\ Commit(d, Activated(reg[d]), "confirmed") \/ CommitFails(d, Activated(reg[d]))
      BY <1>7, <2>3 DEF Confirm, Burned, Activated
    <3>2. Burned(reg[d]) \in DeviceRecord /\ Activated(reg[d]) \in DeviceRecord
      BY <2>1, <3>1, RecordType DEF Burned, Activated
    <3>3. /\ reg'[d] \in {reg[d], Burned(reg[d])} \/ (reg'[d] = Activated(reg[d]) /\ ~ reg[d].late)
          /\ \A e \in Devices \ {d} : reg'[e] = reg[e]
      BY <2>1, <3>1, <3>2, Committed
    <3>4. Tried(d)
      BY <1>7 DEF Confirm, Tried
    <3> QED
      BY <2>1, <3>1, <3>3, <3>4, MovesOther DEF Moves
  <2> QED
    BY <2>2, <2>3
<1> QED
  BY <1>1, <1>2, <1>3, <1>4, <1>5, <1>6, <1>7
  DEF PairNext, Route, PairSeed, PairBegin, RouteStart, RouteCrash, Ask, Budget, Clear, Mark, Grant,
      pairingVars

-----------------------------------------------------------------------------
(* What a step mints and what it writes down. *)

\* A token is minted for a pairing that was open, by the write that makes it
\* active, and the route that minted it is the one about to grant it.
Minting ==
    \A d \in Devices :
        \/ minted'[d] = minted[d]
        \/ /\ Live(d) /\ pins[d] # None /\ minted'[d] = minted[d] + 1
           /\ reg'[d] = Activated(reg[d])

Granting ==
    /\ \A l \in Listeners : step'[l] = "grant" =>
         \/ step[l] = "grant" /\ req'[l] = req[l]
         \/ /\ step[l] = "confirm" /\ req'[l] = req[l] /\ Live(req[l].device)
            /\ minted'[req[l].device] = minted[req[l].device] + 1
    /\ \A d \in held' : d \in held \/ \E l \in Listeners : step[l] = "grant" /\ req[l].device = d

\* A row is written by the change it tells of.
AuditRows ==
    \A d \in Devices :
        /\ <<"confirmed", d>> \in audit' =>
             <<"confirmed", d>> \in audit \/ (Live(d) /\ minted'[d] = minted[d] + 1)
        /\ <<"expired", d>> \in audit' =>
             \/ <<"expired", d>> \in audit
             \/ Live(d) /\ reg'[d] = Burned(reg[d]) /\ minted'[d] = minted[d]
        /\ <<"revoked", d>> \in audit' =>
             \/ <<"revoked", d>> \in audit
             \/ reg[d] # None /\ reg'[d] = Revoked(d)

\* What was shown: a guess that is right was shown to the phone.
Shown == \A l \in Listeners : req[l] # None /\ req[l].right => pins[req[l].device] # None

LEMMA RevokeCommitRows ==
    ASSUME Typed, NEW d \in Devices, RevokeCommit(d), UNCHANGED minted
    PROVE  AuditRows
<1>1. CASE UNCHANGED audit
  BY <1>1 DEF AuditRows
<1>2. CASE ~ UNCHANGED audit
  <2>1. /\ reg[d] # None /\ reg' = [reg EXCEPT ![d] = Revoked(d)]
        /\ audit' = audit \cup {<<"revoked", d>>}
    BY <1>2 DEF RevokeCommit, Commit, CommitFails, Unchanged
  <2>2. reg'[d] = Revoked(d)
    BY <2>1 DEF Typed, PairingTypeOK
  <2> QED
    BY <2>1, <2>2 DEF AuditRows
<1> QED
  BY <1>1, <1>2

LEMMA ConfirmMints ==
    ASSUME Typed, Shown, NEW l \in Listeners, Confirm(l)
    PROVE  Minting /\ Granting /\ AuditRows
<1> DEFINE d == req[l].device
<1>1. /\ step[l] = "confirm" /\ d \in Devices /\ req[l] # None /\ UNCHANGED held
      /\ step \in [Listeners -> RouteSteps] /\ req \in [Listeners -> Guess \cup {None}]
      /\ reg \in [Devices -> DeviceRecord \cup {None}] /\ minted \in [Devices -> Nat]
  BY RequestType DEF Confirm, Typed, PairingTypeOK
<1>2. CASE RouteGoto(l, "grant")
  <2>0. step'[l] = "grant" /\ step' = [step EXCEPT ![l] = "grant"] /\ UNCHANGED req
    BY <1>1, <1>2 DEF RouteGoto
  <2>1. /\ Live(d) /\ req[l].right
        /\ Commit(d, Activated(reg[d]), "confirmed")
        /\ minted' = [minted EXCEPT ![d] = @ + 1]
    BY <1>1, <2>0 DEF Confirm, Refused, RouteGoto, Activated
  <2>2. /\ pins[d] # None /\ reg'[d] = Activated(reg[d])
        /\ minted'[d] = minted[d] + 1 /\ \A e \in Devices \ {d} : minted'[e] = minted[e]
    BY <1>1, <2>1 DEF Commit, Shown
  <2>3. audit' \subseteq audit \cup {<<"confirmed", d>>}
    BY <2>1 DEF Commit
  <2>4. Minting
    BY <1>1, <2>1, <2>2 DEF Minting
  <2>5. Granting
    BY <1>1, <2>0, <2>1, <2>2 DEF Granting
  <2>6. AuditRows
    BY <1>1, <2>1, <2>2, <2>3 DEF AuditRows
  <2> QED
    BY <2>4, <2>5, <2>6
<1>3. CASE ~ RouteGoto(l, "grant")
  <2>1. /\ UNCHANGED minted
        /\ step' \in {[step EXCEPT ![l] = "idle"], [step EXCEPT ![l] = "count"]}
        /\ req' \in {req, [req EXCEPT ![l] = None]}
    BY <1>1, <1>3 DEF Confirm, RouteGoto, Refused
  <2>2. \/ UNCHANGED audit
        \/ Live(d) /\ Commit(d, Burned(reg[d]), "expired")
    BY <1>1, <1>3 DEF Confirm, CommitFails, Unchanged, Burned
  <2>3. \/ UNCHANGED audit
        \/ Live(d) /\ reg'[d] = Burned(reg[d]) /\ audit' \subseteq audit \cup {<<"expired", d>>}
    BY <1>1, <2>2 DEF Commit
  <2>4. Minting
    BY <2>1 DEF Minting
  <2>5. Granting
    BY <1>1, <2>1 DEF Granting
  <2>6. AuditRows
    BY <1>1, <2>1, <2>3 DEF AuditRows
  <2> QED
    BY <2>4, <2>5, <2>6
<1> QED
  BY <1>2, <1>3

\* A route's step to anywhere but the grant.
LEMMA NoGrant ==
    ASSUME Typed, NEW l \in Listeners, UNCHANGED held,
           Refused(l) \/ \E s \in RouteSteps \ {"grant"} : RouteGoto(l, s)
    PROVE  Granting
  BY DEF Typed, PairingTypeOK, Refused, RouteGoto, Granting

LEMMA NextMints ==
    ASSUME Typed, Shown, [PairNext]_pairingVars
    PROVE  Minting /\ Granting /\ AuditRows
<1>a. {"retry", "clear", "clear spent", "confirm", "count", "mark", "revoke", "idle"}
        \subseteq RouteSteps \ {"grant"}
  BY DEF RouteSteps
<1>1. ASSUME UNCHANGED <<audit, minted>>
      PROVE  Minting /\ AuditRows
  BY <1>1 DEF Minting, AuditRows
<1>2. ASSUME UNCHANGED <<routes, held>>
      PROVE  Granting
  BY <1>2 DEF Granting, routes
<1>3. ASSUME NEW c \in Clis, PairSeed(c) \/ \E d \in Devices : PairBegin(c, d)
      PROVE  Minting /\ Granting /\ AuditRows
  BY <1>1, <1>2, <1>3 DEF PairSeed, PairBegin, pairingHistory
<1>4. ASSUME NEW c \in Clis, PairCommit(c)
      PROVE  Minting /\ Granting /\ AuditRows
  <2>1. UNCHANGED <<routes, held, minted>>
    BY <1>4 DEF PairCommit, pairingHistory
  <2>2. audit' = audit \/ audit' = audit \cup {<<"paired", cli[c].device>>}
    BY <1>4 DEF PairCommit, Commit, CommitFails, Unchanged
  <2>3. AuditRows
    BY <2>2 DEF AuditRows
  <2>4. Minting
    BY <2>1 DEF Minting
  <2> QED
    BY <1>2, <2>1, <2>3, <2>4
<1>5. ASSUME NEW d \in Devices, RevokeByHand(d)
      PROVE  Minting /\ Granting /\ AuditRows
  <2>1. UNCHANGED <<routes, held, minted>> /\ RevokeCommit(d)
    BY <1>5 DEF RevokeByHand, pairingHistory
  <2> QED
    BY <1>2, <2>1, RevokeCommitRows DEF Minting
<1>6. ASSUME NEW d \in Devices, Lapse(d)
      PROVE  Minting /\ Granting /\ AuditRows
  BY <1>1, <1>2, <1>6 DEF Lapse, pairingHistory
<1>7. ASSUME NEW l \in Listeners, RouteStart(l)
      PROVE  Minting /\ Granting /\ AuditRows
  BY <1>1, <1>7, <1>a, NoGrant DEF RouteStart, pairingHistory
<1>8. ASSUME NEW l \in Listeners, RouteCrash(l)
      PROVE  Minting /\ Granting /\ AuditRows
  <2>1. /\ UNCHANGED <<audit, minted, held>>
        /\ step' = [step EXCEPT ![l] = "down"] /\ req' = [req EXCEPT ![l] = None]
    BY <1>8 DEF RouteCrash
  <2>2. Granting
    BY <2>1 DEF Granting, Typed, PairingTypeOK
  <2> QED
    BY <1>1, <2>1, <2>2
<1>9. ASSUME NEW l \in Listeners, NEW d \in Devices, NEW right \in BOOLEAN, Ask(l, d, right)
      PROVE  Minting /\ Granting /\ AuditRows
  <2>1. /\ UNCHANGED <<audit, minted, held>>
        /\ step' = [step EXCEPT ![l] = "budget"]
        /\ \A k \in Listeners \ {l} : req'[k] = req[k]
    BY <1>9 DEF Ask, pairingHistory, Typed, PairingTypeOK
  <2>2. Granting
    BY <2>1 DEF Granting, Typed, PairingTypeOK
  <2> QED
    BY <1>1, <2>1, <2>2
<1>10. ASSUME NEW l \in Listeners, Budget(l)
       PROVE  Minting /\ Granting /\ AuditRows
  BY <1>1, <1>10, <1>a, NoGrant DEF Budget, pairingHistory
<1>11. ASSUME NEW l \in Listeners, Retry(l)
       PROVE  Minting /\ Granting /\ AuditRows
  BY <1>1, <1>11, <1>a, NoGrant DEF Retry, CommitFails, pairingHistory
<1>12. ASSUME NEW l \in Listeners, Clear(l)
       PROVE  Minting /\ Granting /\ AuditRows
  BY <1>1, <1>12, <1>a, NoGrant DEF Clear, pairingHistory
<1>13. ASSUME NEW l \in Listeners, Count(l)
       PROVE  Minting /\ Granting /\ AuditRows
  BY <1>1, <1>13, <1>a, NoGrant DEF Count, CommitFails, pairingHistory
<1>14. ASSUME NEW l \in Listeners, Mark(l)
       PROVE  Minting /\ Granting /\ AuditRows
  BY <1>1, <1>14, <1>a, NoGrant DEF Mark, pairingHistory
<1>15. ASSUME NEW l \in Listeners, RevokeSpent(l)
       PROVE  Minting /\ Granting /\ AuditRows
  <2>1. /\ UNCHANGED <<minted, held>> /\ Refused(l) /\ RevokeCommit(req[l].device)
        /\ req[l].device \in Devices
    BY <1>15, RequestType DEF RevokeSpent, pairingHistory
  <2> QED
    BY <2>1, NoGrant, RevokeCommitRows DEF Minting
<1>16. ASSUME NEW l \in Listeners, Grant(l)
       PROVE  Minting /\ Granting /\ AuditRows
  <2>1. /\ step[l] = "grant" /\ held' \subseteq held \cup {req[l].device}
        /\ Refused(l) /\ UNCHANGED <<audit, minted>>
    BY <1>16 DEF Grant
  <2>2. Granting
    BY <2>1 DEF Granting, Refused, Typed, PairingTypeOK
  <2> QED
    BY <1>1, <2>1, <2>2
<1>17. ASSUME UNCHANGED pairingVars
       PROVE  Minting /\ Granting /\ AuditRows
  BY <1>1, <1>2, <1>17 DEF pairingVars, routes
<1> QED
  BY <1>3, <1>4, <1>5, <1>6, <1>7, <1>8, <1>9, <1>10, <1>11, <1>12, <1>13, <1>14, <1>15, <1>16,
     <1>17, ConfirmMints
  DEF PairNext, Route

-----------------------------------------------------------------------------
(* One credential, and rows that tell the truth. *)

\* A pairing that can be opened has minted nothing; what was granted or is about
\* to be was minted once.
Tokens ==
    /\ \A d \in Devices : minted[d] <= 1 /\ (reg[d] = None \/ Live(d) => minted[d] = 0)
    /\ \A l \in Listeners : step[l] = "grant" => minted[req[l].device] = 1
    /\ \A d \in held : minted[d] = 1

\* The host has one seed: what an invocation read and what a phone was shown is
\* its fingerprint, and only a phone that was shown one confirms.
Pins ==
    /\ \A c \in Clis : cli[c] # None /\ cli[c].pin # None => cli[c].pin = seed
    /\ \A d \in Devices : pins[d] # None => pins[d] = seed
    /\ \A d \in Devices : minted[d] # 0 => pins[d] # None

RowsHold ==
    \A d \in Devices :
        /\ <<"confirmed", d>> \in audit => minted[d] = 1
        /\ <<"expired", d>> \in audit => reg[d] # None /\ minted[d] = 0 /\ ~ reg[d].code
        /\ <<"revoked", d>> \in audit => reg[d] # None /\ reg[d].state = "revoked"

Credential == Typed /\ Shown /\ Tokens /\ Pins /\ RowsHold

LEMMA InitCredential == InitPairing => Credential
<1> SUFFICES ASSUME InitPairing PROVE Credential
  OBVIOUS
<1>1. Typed
  BY InitTyped
<1>2. Shown /\ Pins /\ RowsHold
  BY DEF InitPairing, Shown, Pins, RowsHold
<1>3. Tokens
  BY DEF InitPairing, Tokens
<1> QED
  BY <1>1, <1>2, <1>3 DEF Credential

\* A record is of its type once a device has one.
LEMMA KnownRecord ==
    ASSUME Typed, NEW d \in Devices, reg[d] # None
    PROVE  reg[d] \in DeviceRecord /\ None \notin DeviceRecord
<1>1. reg[d] \in DeviceRecord \cup {None}
  BY DEF Typed, PairingTypeOK
<1> QED
  BY <1>1, PairingAssumption

\* A device whose code is gone stays known and stays so; one that was revoked
\* stays revoked.
LEMMA CodeStaysGone ==
    ASSUME Typed, NEW d \in Devices, Moves(d), reg[d] # None
    PROVE  /\ reg'[d] # None
           /\ ~ reg[d].code => ~ reg'[d].code
           /\ reg[d].state = "revoked" => reg'[d].state = "revoked"
           /\ ~ Live(d) => reg'[d] = reg[d] \/ ~ reg'[d].code
<1>1. reg[d] \in DeviceRecord /\ None \notin DeviceRecord
  BY KnownRecord
<1>2. /\ Burned(reg[d]).code = FALSE /\ Burned(reg[d]) \in DeviceRecord
      /\ Activated(reg[d]).code = FALSE /\ Activated(reg[d]) \in DeviceRecord
      /\ MissCounted(reg[d]).code = reg[d].code /\ MissCounted(reg[d]) \in DeviceRecord
      /\ Late(reg[d]).code = reg[d].code /\ Late(reg[d]).state = reg[d].state
      /\ Late(reg[d]) \in DeviceRecord
  BY <1>1, MovedRecords
<1>3. /\ Revoked(d).state = "revoked" /\ Revoked(d).code = FALSE
      /\ Revoked(d) \in DeviceRecord
  BY <1>1, RecordType DEF Revoked, DeviceRecord
<1>4. CASE Live(d)
  BY <1>1, <1>2, <1>3, <1>4 DEF Moves, Live
<1>5. CASE ~ Live(d)
  BY <1>1, <1>2, <1>3, <1>5 DEF Moves, Live
<1> QED
  BY <1>4, <1>5

LEMMA TokensStep ==
    ASSUME Typed, Tokens, Granting, Minting, \A d \in Devices : Moves(d)
    PROVE  Tokens'
<1>1. ASSUME NEW d \in Devices
      PROVE  /\ minted'[d] <= 1 /\ (reg'[d] = None \/ Live(d)' => minted'[d] = 0)
             /\ minted[d] = 1 => minted'[d] = 1
  <2>1. CASE minted'[d] = minted[d]
    <3>1. reg'[d] = None \/ Live(d)' => reg[d] = None \/ Live(d)
      BY <1>1, CodeStaysGone DEF Live
    <3> QED
      BY <2>1, <3>1 DEF Tokens
  <2>2. CASE minted'[d] # minted[d]
    <3>1. Live(d) /\ minted'[d] = minted[d] + 1 /\ reg'[d] = Activated(reg[d])
      BY <2>2 DEF Minting
    <3>2. reg'[d] # None /\ ~ reg'[d].code
      <4>1. reg[d] \in DeviceRecord /\ None \notin DeviceRecord
        BY <3>1, KnownRecord DEF Live
      <4>2. ~ Activated(reg[d]).code /\ Activated(reg[d]) \in DeviceRecord
        BY <4>1, MovedRecords
      <4> QED
        BY <3>1, <4>1, <4>2
    <3> QED
      BY <3>1, <3>2 DEF Tokens, Live
  <2> QED
    BY <2>1, <2>2
<1>2. ASSUME NEW l \in Listeners, step'[l] = "grant"
      PROVE  minted'[req'[l].device] = 1
  <2>1. CASE step[l] = "grant" /\ req'[l] = req[l]
    BY <1>1, <2>1, RequestType DEF Tokens
  <2>2. CASE /\ step[l] = "confirm" /\ req'[l] = req[l] /\ Live(req[l].device)
             /\ minted'[req[l].device] = minted[req[l].device] + 1
    <3>1. req[l].device \in Devices
      BY <2>2, RequestType
    <3>2. minted[req[l].device] = 0
      BY <2>2, <3>1 DEF Tokens
    <3> QED
      BY <2>2, <3>2
  <2> QED
    BY <1>2, <2>1, <2>2 DEF Granting
<1>3. ASSUME NEW d \in held'
      PROVE  minted'[d] = 1
  <2>1. CASE d \in held
    BY <1>1, <2>1 DEF Tokens, Typed, PairingTypeOK
  <2>2. ASSUME NEW l \in Listeners, step[l] = "grant", req[l].device = d
        PROVE  minted'[d] = 1
    BY <1>1, <2>2, RequestType DEF Tokens
  <2> QED
    BY <2>1, <2>2 DEF Granting
<1> QED
  BY <1>1, <1>2, <1>3 DEF Tokens

LEMMA RowsStep ==
    ASSUME Typed, Tokens, RowsHold, AuditRows, Minting, \A d \in Devices : Moves(d)
    PROVE  RowsHold'
<1> SUFFICES ASSUME NEW d \in Devices
             PROVE  /\ <<"confirmed", d>> \in audit' => minted'[d] = 1
                    /\ <<"expired", d>> \in audit' =>
                         reg'[d] # None /\ minted'[d] = 0 /\ ~ reg'[d].code
                    /\ <<"revoked", d>> \in audit' => reg'[d] # None /\ reg'[d].state = "revoked"
  BY DEF RowsHold
<1>1. ASSUME <<"confirmed", d>> \in audit'
      PROVE  minted'[d] = 1
  <2>1. minted[d] \in Nat
    BY DEF Typed, PairingTypeOK
  <2>2. CASE <<"confirmed", d>> \in audit
    <3>1. minted[d] = 1
      BY <2>2 DEF RowsHold
    <3>2. ~ Live(d)
      BY <3>1 DEF Tokens
    <3> QED
      BY <3>1, <3>2 DEF Minting
  <2>3. CASE Live(d) /\ minted'[d] = minted[d] + 1
    BY <2>3 DEF Tokens
  <2> QED
    BY <1>1, <2>2, <2>3 DEF AuditRows
<1>2. ASSUME <<"expired", d>> \in audit'
      PROVE  reg'[d] # None /\ minted'[d] = 0 /\ ~ reg'[d].code
  <2>1. CASE <<"expired", d>> \in audit
    <3>1. reg[d] # None /\ minted[d] = 0 /\ ~ reg[d].code
      BY <2>1 DEF RowsHold
    <3>2. reg'[d] # None /\ ~ reg'[d].code
      BY <3>1, CodeStaysGone
    <3>3. minted'[d] = minted[d]
      BY <3>1 DEF Minting, Live
    <3> QED
      BY <3>1, <3>2, <3>3
  <2>2. CASE Live(d) /\ reg'[d] = Burned(reg[d]) /\ minted'[d] = minted[d]
    <3>1. reg[d] \in DeviceRecord /\ None \notin DeviceRecord /\ minted[d] = 0
      BY <2>2, KnownRecord DEF Tokens, Live
    <3>2. ~ Burned(reg[d]).code /\ Burned(reg[d]) \in DeviceRecord
      BY <3>1, MovedRecords
    <3> QED
      BY <2>2, <3>1, <3>2
  <2> QED
    BY <1>2, <2>1, <2>2 DEF AuditRows
<1>3. ASSUME <<"revoked", d>> \in audit'
      PROVE  reg'[d] # None /\ reg'[d].state = "revoked"
  <2>1. CASE <<"revoked", d>> \in audit
    BY <2>1, CodeStaysGone DEF RowsHold
  <2>2. CASE reg[d] # None /\ reg'[d] = Revoked(d)
    <3>1. reg[d] \in DeviceRecord /\ None \notin DeviceRecord
      BY <2>2, KnownRecord
    <3>2. Revoked(d).state = "revoked" /\ Revoked(d) \in DeviceRecord
      BY <2>2, <3>1, RecordType DEF Revoked, DeviceRecord
    <3> QED
      BY <2>2, <3>1, <3>2
  <2> QED
    BY <1>3, <2>1, <2>2 DEF AuditRows
<1> QED
  BY <1>1, <1>2, <1>3

\* What was shown only grows, and is the seed's.
LEMMA PinsStep ==
    ASSUME Typed, Shown, Pins, Minting, PairNext
    PROVE  Pins' /\ Shown'
<1>1. ASSUME UNCHANGED <<pins, seed, cli>>,
             \A l \in Listeners : req'[l] # None /\ req'[l].right => pins[req'[l].device] # None
      PROVE  Pins' /\ Shown'
  <2>1. \A d \in Devices : minted'[d] # 0 => pins[d] # None
    BY DEF Minting, Pins
  <2> QED
    BY <1>1, <2>1 DEF Pins, Shown
<1>2. ASSUME UNCHANGED <<pins, seed, cli, req>>
      PROVE  Pins' /\ Shown'
  BY <1>1, <1>2 DEF Shown
<1>3. ASSUME NEW l \in Listeners, Refused(l), UNCHANGED <<pins, seed, cli>>
      PROVE  Pins' /\ Shown'
  <2>1. \A k \in Listeners : req'[k] = None \/ req'[k] = req[k]
    BY <1>3 DEF Refused, Typed, PairingTypeOK
  <2> QED
    BY <1>1, <1>3, <2>1 DEF Shown
<1>4. ASSUME NEW c \in Clis, NEW d \in Devices, PairBegin(c, d)
      PROVE  Pins' /\ Shown'
  <2>1. /\ cli' = [cli EXCEPT ![c] = [device |-> d, pin |-> seed]]
        /\ UNCHANGED <<seed, pins, req, minted>>
    BY <1>4 DEF PairBegin, routes, pairingHistory
  <2>2. cli'[c].pin = seed /\ \A k \in Clis \ {c} : cli'[k] = cli[k]
    BY <2>1 DEF Typed, PairingTypeOK
  <2> QED
    BY <2>1, <2>2 DEF Pins, Shown
<1>5. ASSUME NEW c \in Clis, PairSeed(c)
      PROVE  Pins' /\ Shown'
  <2>1. /\ cli[c] # None /\ cli[c].pin = None
        /\ seed' \in {seed, IF seed = None THEN c ELSE seed}
        /\ cli' \in {[cli EXCEPT ![c].pin = seed'], [cli EXCEPT ![c] = None]}
        /\ UNCHANGED <<pins, req, minted>>
    BY <1>5 DEF PairSeed, routes, pairingHistory
  <2>2. cli[c] \in [device: Devices, pin: Clis \cup {None}]
    BY <2>1 DEF Typed, PairingTypeOK
  <2>3. /\ cli'[c] = None \/ cli'[c].pin = seed'
        /\ \A k \in Clis \ {c} : cli'[k] = cli[k]
    BY <2>1, <2>2 DEF Typed, PairingTypeOK
  <2>4. seed # None => seed' = seed
    BY <2>1
  <2> QED
    BY <2>1, <2>3, <2>4 DEF Pins, Shown
<1>6. ASSUME NEW c \in Clis, PairCommit(c)
      PROVE  Pins' /\ Shown'
  <2> DEFINE d == cli[c].device
  <2>1. /\ cli[c] # None /\ cli[c].pin # None
        /\ cli' = [cli EXCEPT ![c] = None]
        /\ pins' \in {pins, [pins EXCEPT ![d] = cli[c].pin]}
        /\ UNCHANGED <<seed, req, minted>>
    BY <1>6 DEF PairCommit, routes, pairingHistory
  <2>2. /\ cli[c].pin = seed
        /\ \A k \in Clis : cli'[k] = None \/ cli'[k] = cli[k]
    BY <2>1 DEF Typed, PairingTypeOK, Pins
  <2>3. \A e \in Devices : pins'[e] = pins[e] \/ (pins'[e] = seed /\ seed # None)
    BY <2>1, <2>2 DEF Typed, PairingTypeOK
  <2>4. \A l \in Listeners : req[l] # None => req[l].device \in Devices
    BY DEF Typed, PairingTypeOK, Guess
  <2> QED
    BY <2>1, <2>2, <2>3, <2>4 DEF Pins, Shown
<1>7. ASSUME NEW d \in Devices, RevokeByHand(d) \/ Lapse(d)
      PROVE  Pins' /\ Shown'
  BY <1>2, <1>7 DEF RevokeByHand, Lapse, routes
<1>8. ASSUME NEW l \in Listeners, RouteStart(l)
      PROVE  Pins' /\ Shown'
  BY <1>2, <1>8 DEF RouteStart, RouteGoto
<1>9. ASSUME NEW l \in Listeners, RouteCrash(l)
      PROVE  Pins' /\ Shown'
  <2>1. /\ UNCHANGED <<pins, seed, cli>>
        /\ \A k \in Listeners : req'[k] = None \/ req'[k] = req[k]
    BY <1>9 DEF RouteCrash, Typed, PairingTypeOK
  <2> QED
    BY <1>1, <2>1 DEF Shown
<1>10. ASSUME NEW l \in Listeners, NEW d \in Devices, NEW right \in BOOLEAN, Ask(l, d, right)
       PROVE  Pins' /\ Shown'
  <2>1. /\ UNCHANGED <<pins, seed, cli>>
        /\ right => pins[d] # None
        /\ req'[l] = [device |-> d, right |-> right]
        /\ \A k \in Listeners \ {l} : req'[k] = req[k]
    BY <1>10 DEF Ask, Typed, PairingTypeOK
  <2>2. req'[l].device = d /\ req'[l].right = right
    BY <2>1
  <2> QED
    BY <1>1, <2>1, <2>2 DEF Shown
<1>11. ASSUME NEW l \in Listeners, Route(l)
       PROVE  Pins' /\ Shown'
  <2>1. UNCHANGED <<pins, seed, cli>>
    BY <1>11 DEF Route, Budget, Retry, Clear, Confirm, Count, Mark, RevokeSpent, Grant
  <2>2. Refused(l) \/ UNCHANGED req
    BY <1>11
    DEF Route, Budget, Retry, Clear, Confirm, Count, Mark, RevokeSpent, Grant, RouteGoto
  <2> QED
    BY <1>2, <1>3, <2>1, <2>2
<1> QED
  BY <1>4, <1>5, <1>6, <1>7, <1>8, <1>9, <1>10, <1>11 DEF PairNext

LEMMA NextCredential == Credential /\ [PairNext]_pairingVars => Credential'
<1> SUFFICES ASSUME Credential, [PairNext]_pairingVars PROVE Credential'
  OBVIOUS
<1>1. CASE PairNext
  BY <1>1, NextTyped, NextMoves, NextMints, TokensStep, RowsStep, PinsStep DEF Credential
<1>2. CASE UNCHANGED pairingVars
  BY <1>2, NextTyped DEF Credential, pairingVars, Shown, Tokens, Pins, RowsHold, Live
<1> QED
  BY <1>1, <1>2

\* A pairing mints one token, however its confirmation is repeated, and a phone
\* that holds one was shown the fingerprint of the host it talks to.
THEOREM OneCredentialCorrect == PairingSpec => []OneCredential
<1>1. Credential => OneCredential
  <2> SUFFICES ASSUME Credential PROVE OneCredential
    OBVIOUS
  <2>1. \A d \in held : d \in Devices /\ minted[d] = 1
    BY DEF Credential, Typed, PairingTypeOK, Tokens
  <2>2. \A d \in held : pins[d] = seed
    BY <2>1 DEF Credential, Pins
  <2> QED
    BY <2>1, <2>2 DEF OneCredential, Credential, Tokens
<1> QED
  BY <1>1, InitCredential, NextCredential, PTL DEF PairingSpec

\* An audit row never asserts what the record file does not hold.
THEOREM AuditIsTrueCorrect == PairingSpec => []AuditIsTrue
<1>1. Credential => AuditIsTrue
  BY DEF Credential, RowsHold, AuditIsTrue, Live
<1> QED
  BY <1>1, InitCredential, NextCredential, PTL DEF PairingSpec

-----------------------------------------------------------------------------
(* The budget, for one listener. *)

\* A wrong code that was compared and is not yet counted.
Owing(d) ==
    \/ d \in marks
    \/ \E l \in Listeners :
         d \in latch[l] \/ (step[l] \in {"count", "mark"} /\ req[l].device = d)

\* An open pairing's counter is behind by what is owed, and by what a crash
\* forgot.
CountsFor(d) ==
    /\ tries[d] <= MaxAttempts + lost[d]
    /\ reg[d] = None => tries[d] = 0
    /\ Live(d) => tries[d] <= reg[d].attempts + lost[d] + 1
    /\ Live(d) /\ ~ Owing(d) => tries[d] <= reg[d].attempts + lost[d]

\* A guess is compared when nothing is owed and the budget is not spent, and a
\* mark is taken away when its count was paid.
RouteCounts(l) ==
    LET d == req[l].device IN
    /\ step[l] \in {"confirm", "count", "mark"} => d \notin marks /\ d \notin latch[l]
    /\ step[l] = "confirm" /\ Live(d) => reg[d].attempts < MaxAttempts
    /\ step[l] \in {"clear", "clear spent"} /\ Live(d) => tries[d] <= reg[d].attempts + lost[d]

Budgeted == (\A d \in Devices : CountsFor(d)) /\ (\A l \in Listeners : RouteCounts(l))

LEMMA Numbers ==
    ASSUME Typed, NEW d \in Devices
    PROVE  /\ tries[d] \in Nat /\ lost[d] \in Nat /\ MaxAttempts \in Nat \ {0}
           /\ reg[d] # None => reg[d].attempts \in Nat
<1>1. \A r \in DeviceRecord : r.attempts \in Nat
  BY DEF DeviceRecord
<1>2. reg[d] # None => reg[d].attempts \in Nat
  BY <1>1, KnownRecord
<1> QED
  BY <1>2, PairingAssumption DEF Typed, PairingTypeOK

LEMMA NumbersNext ==
    ASSUME Typed', NEW d \in Devices
    PROVE  /\ tries'[d] \in Nat /\ lost'[d] \in Nat
           /\ Live(d)' => reg'[d].attempts \in Nat
<1>1. \A r \in DeviceRecord : r.attempts \in Nat
  BY DEF DeviceRecord
<1>2. reg'[d] \in DeviceRecord \cup {None}
  BY DEF Typed, PairingTypeOK
<1> QED
  BY <1>1, <1>2 DEF Typed, PairingTypeOK, Live

\* An open pairing was open, with no more on its counter, or is a new one.
OnlyGrows(d) ==
    Live(d)' => \/ reg[d] = None /\ reg'[d].attempts = 0
                \/ Live(d) /\ reg'[d].attempts >= reg[d].attempts

\* The step does not count.
Keeps(d) ==
    Live(d)' => \/ reg[d] = None /\ reg'[d].attempts = 0
                \/ Live(d) /\ reg'[d].attempts = reg[d].attempts

LEMMA MovesGrow ==
    ASSUME Typed, NEW d \in Devices, Moves(d)
    PROVE  /\ OnlyGrows(d)
           /\ reg'[d] = None => reg[d] = None
           /\ reg'[d] # MissCounted(reg[d]) => Keeps(d)
<1>1. CASE reg[d] = None
  <2>1. reg'[d] = reg[d] \/ reg'[d] = Fresh
    BY <1>1 DEF Moves, Live
  <2>2. Fresh.attempts = 0
    BY DEF Fresh
  <2> QED
    BY <1>1, <2>1, <2>2 DEF OnlyGrows, Keeps, Live
<1>2. CASE reg[d] # None
  <2>1. reg[d] \in DeviceRecord /\ reg[d].attempts \in Nat
    BY <1>2, KnownRecord, Numbers
  <2>2. /\ Burned(reg[d]).code = FALSE /\ Activated(reg[d]).code = FALSE
        /\ Revoked(d).code = FALSE
        /\ Late(reg[d]).code = reg[d].code /\ Late(reg[d]).state = reg[d].state
    BY <2>1, MovedRecords DEF Revoked, DeviceRecord
  <2>3. MissCounted(reg[d]).attempts = reg[d].attempts + 1
    BY <2>1 DEF MissCounted, DeviceRecord
  <2>4. Late(reg[d]).attempts = reg[d].attempts
    BY <2>1 DEF Late, DeviceRecord
  <2>5. /\ Live(d)' => Live(d) /\ reg'[d] \in {reg[d], MissCounted(reg[d]), Late(reg[d])}
        /\ reg'[d] # None
    <3>1. Live(d)' => reg'[d].code
      BY DEF Live
    <3>2. Live(d)' => reg'[d] \in {reg[d], MissCounted(reg[d]), Late(reg[d])}
      BY <1>2, <2>2, <3>1 DEF Moves
    <3>3. Live(d)' => Live(d)
      BY <1>2, <2>2, <3>1 DEF Moves, Live
    <3>4. reg'[d] # None
      BY <1>2, CodeStaysGone
    <3> QED
      BY <3>2, <3>3, <3>4
  <2>6. OnlyGrows(d)
    BY <2>1, <2>3, <2>4, <2>5 DEF OnlyGrows
  <2>7. reg'[d] # MissCounted(reg[d]) => Keeps(d)
    BY <2>4, <2>5 DEF Keeps
  <2> QED
    BY <2>5, <2>6, <2>7
<1> QED
  BY <1>1, <1>2

\* A device's counter holds on as long as nothing owed is dropped.
LEMMA CountsStay ==
    ASSUME Typed, Typed', NEW d \in Devices, CountsFor(d), Moves(d), tries'[d] = tries[d],
           lost'[d] >= lost[d], Owing(d) => Owing(d)' \/ lost'[d] >= lost[d] + 1
    PROVE  CountsFor(d)'
<1>1. /\ tries[d] \in Nat /\ lost[d] \in Nat /\ lost'[d] \in Nat /\ MaxAttempts \in Nat
      /\ Live(d) => reg[d].attempts \in Nat
      /\ Live(d)' => reg'[d].attempts \in Nat
  BY Numbers, NumbersNext DEF Live
<1>2. OnlyGrows(d) /\ (reg'[d] = None => reg[d] = None)
  BY MovesGrow
<1>3. tries'[d] <= MaxAttempts + lost'[d] /\ (reg'[d] = None => tries'[d] = 0)
  BY <1>1, <1>2 DEF CountsFor
<1>4. CASE ~ Live(d)'
  BY <1>3, <1>4 DEF CountsFor
<1>5. CASE Live(d)' /\ reg[d] = None /\ reg'[d].attempts = 0
  BY <1>1, <1>3, <1>5 DEF CountsFor
<1>6. CASE Live(d)' /\ Live(d) /\ reg'[d].attempts >= reg[d].attempts
  BY <1>1, <1>3, <1>6 DEF CountsFor
<1> QED
  BY <1>2, <1>4, <1>5, <1>6 DEF OnlyGrows

\* Nothing is owed any more when the counter has it.
LEMMA CountsSettle ==
    ASSUME Typed, Typed', NEW d \in Devices, CountsFor(d), Moves(d), tries'[d] = tries[d],
           lost'[d] = lost[d], Live(d)' => tries[d] <= reg'[d].attempts + lost[d]
    PROVE  CountsFor(d)'
<1>1. /\ tries[d] \in Nat /\ lost[d] \in Nat /\ MaxAttempts \in Nat
      /\ Live(d)' => reg'[d].attempts \in Nat
  BY Numbers, NumbersNext DEF Live
<1>2. reg'[d] = None => reg[d] = None
  BY MovesGrow
<1> QED
  BY <1>1, <1>2 DEF CountsFor

\* A route that is not at a step that counts promises nothing.
LEMMA RouteRests ==
    ASSUME NEW l \in Listeners,
           step'[l] \notin {"confirm", "count", "mark", "clear", "clear spent"}
    PROVE  RouteCounts(l)'
  BY DEF RouteCounts

\* What other programs do to the registry.
LEMMA OthersBudgeted ==
    ASSUME Typed, Typed', Budgeted, UNCHANGED <<marks, routes, tries, lost>>,
           \A d \in Devices : Moves(d) /\ Keeps(d)
    PROVE  Budgeted'
<1>1. ASSUME NEW d \in Devices
      PROVE  CountsFor(d)'
  <2>1. Owing(d) => Owing(d)'
    BY DEF Owing, routes
  <2>2. lost'[d] >= lost[d]
    BY Numbers
  <2> QED
    BY <2>1, <2>2, CountsStay DEF Budgeted
<1>2. ASSUME NEW l \in Listeners
      PROVE  RouteCounts(l)'
  <2> DEFINE d == req[l].device
  <2>0. step' = step /\ req' = req /\ latch' = latch
    BY DEF routes
  <2>1. CASE step[l] \in {"down", "idle"}
    BY <2>0, <2>1, RouteRests
  <2>2. CASE step[l] \notin {"down", "idle"}
    <3>1. d \in Devices
      BY <2>2, RequestType
    <3>2. /\ Keeps(d) /\ CountsFor(d) /\ RouteCounts(l)
          /\ tries[d] \in Nat /\ lost[d] \in Nat /\ MaxAttempts \in Nat \ {0}
      BY <3>1, Numbers DEF Budgeted
    <3>3. CASE ~ Live(d)'
      BY <2>0, <3>2, <3>3 DEF RouteCounts
    <3>4. CASE Live(d)' /\ reg[d] = None /\ reg'[d].attempts = 0
      <4>1. tries[d] = 0
        BY <3>2, <3>4 DEF CountsFor
      <4>2. reg'[d].attempts < MaxAttempts /\ tries[d] <= reg'[d].attempts + lost[d]
        BY <3>2, <3>4, <4>1
      <4> QED
        BY <2>0, <3>2, <4>2 DEF RouteCounts
    <3>5. CASE Live(d)' /\ Live(d) /\ reg'[d].attempts = reg[d].attempts
      BY <2>0, <3>2, <3>5 DEF RouteCounts
    <3> QED
      BY <3>2, <3>3, <3>4, <3>5 DEF Keeps
  <2> QED
    BY <2>1, <2>2
<1> QED
  BY <1>1, <1>2 DEF Budgeted

LEMMA TheRoute ==
    ASSUME OneListener, NEW l \in Listeners, RouteCounts(l)', \A d \in Devices : CountsFor(d)'
    PROVE  Budgeted'
  BY DEF OneListener, Budgeted

\* A step of the route that owes nothing itself forgets nothing.
LEMMA OwingStays ==
    ASSUME OneListener, NEW l \in Listeners, step[l] \notin {"count", "mark"},
           marks \subseteq marks', latch[l] \subseteq latch'[l], NEW d
    PROVE  Owing(d) => Owing(d)'
  BY DEF OneListener, Owing

\* A step of the route that neither compares nor counts nor clears.
LEMMA QuietRoute ==
    ASSUME Typed, Typed', OneListener, Budgeted, \A d \in Devices : Moves(d),
           NEW l \in Listeners, step[l] \notin {"count", "mark"},
           UNCHANGED <<marks, latch, tries, lost>>, RouteCounts(l)'
    PROVE  Budgeted'
<1>1. ASSUME NEW d \in Devices
      PROVE  CountsFor(d)'
  <2>1. Owing(d) => Owing(d)'
    BY OwingStays
  <2>2. lost'[d] >= lost[d]
    BY Numbers
  <2> QED
    BY <2>1, <2>2, CountsStay DEF Budgeted
<1> QED
  BY <1>1, TheRoute

LEMMA GoneTo ==
    ASSUME Typed, NEW l \in Listeners, NEW s, RouteGoto(l, s)
    PROVE  step'[l] = s /\ req' = req
  BY DEF RouteGoto, Typed, PairingTypeOK

LEMMA GoneIdle ==
    ASSUME Typed, NEW l \in Listeners, Refused(l)
    PROVE  step'[l] = "idle"
  BY DEF Refused, Typed, PairingTypeOK

LEMMA BudgetBudgeted ==
    ASSUME Typed, Typed', OneListener, Budgeted, \A d \in Devices : Moves(d),
           NEW l \in Listeners, Budget(l)
    PROVE  Budgeted'
<1>0. PICK d \in Devices : d = req[l].device
  BY RequestType DEF Budget
<1>1. step[l] = "budget" /\ UNCHANGED <<reg, marks, latch, tries, lost>>
  BY DEF Budget, pairingHistory
<1>2. CASE RouteGoto(l, "confirm")
  <2>1. step'[l] = "confirm" /\ req' = req
    BY <1>2, GoneTo
  <2>2. /\ d \notin marks /\ d \notin latch[l]
        /\ ~ (reg[d] # None /\ reg[d].attempts >= MaxAttempts)
    BY <1>0, <1>1, <2>1, GoneTo, GoneIdle DEF Budget
  <2>3. Live(d) => reg[d].attempts < MaxAttempts
    BY <1>1, <2>2, Numbers DEF Live
  <2>4. Live(d)' <=> Live(d)
    BY <1>1 DEF Live
  <2>5. RouteCounts(l)'
    BY <1>0, <1>1, <2>1, <2>2, <2>3, <2>4 DEF RouteCounts
  <2> QED
    BY <1>1, <2>5, QuietRoute
<1>3. CASE ~ RouteGoto(l, "confirm")
  <2>1. step'[l] \in {"retry", "revoke", "idle"}
    BY <1>3, GoneTo, GoneIdle DEF Budget
  <2> QED
    BY <1>1, <2>1, RouteRests, QuietRoute
<1> QED
  BY <1>2, <1>3

\* The counter of a device that is counted for.
LEMMA OneMoreCounts ==
    ASSUME Typed, NEW d \in Devices, reg' = [reg EXCEPT ![d] = OneMoreFailure(d)]
    PROVE  /\ Live(d)' => Live(d) /\ reg'[d].attempts = reg[d].attempts + 1
           /\ \A e \in Devices \ {d} : reg'[e] = reg[e]
<1>1. reg'[d] = OneMoreFailure(d) /\ \A e \in Devices \ {d} : reg'[e] = reg[e]
  BY DEF Typed, PairingTypeOK
<1>2. CASE Live(d)
  <2>1. reg[d] \in DeviceRecord
    BY <1>2, KnownRecord DEF Live
  <2>2. OneMoreFailure(d).attempts = reg[d].attempts + 1
    BY <1>2, <2>1 DEF OneMoreFailure, DeviceRecord
  <2> QED
    BY <1>1, <1>2, <2>2
<1>3. CASE ~ Live(d)
  BY <1>1, <1>3 DEF OneMoreFailure, Live
<1> QED
  BY <1>1, <1>2, <1>3

LEMMA RetryBudgeted ==
    ASSUME Typed, Typed', OneListener, Budgeted, \A d \in Devices : Moves(d),
           NEW l \in Listeners, Retry(l)
    PROVE  Budgeted'
<1>0. PICK d \in Devices : d = req[l].device
  BY RequestType DEF Retry
<1>1. step[l] = "retry" /\ UNCHANGED <<marks, latch, tries, lost>>
  BY DEF Retry, pairingHistory
<1>2. CASE Refused(l)
  BY <1>1, <1>2, GoneIdle, RouteRests, QuietRoute
<1>3. CASE ~ Refused(l)
  <2>1. /\ reg' = [reg EXCEPT ![d] = OneMoreFailure(d)]
        /\ RouteGoto(l, "clear spent") \/ RouteGoto(l, "clear")
    BY <1>0, <1>3 DEF Retry
  <2>2. step'[l] \in {"clear spent", "clear"} /\ req' = req
    BY <2>1, GoneTo
  <2>3. Live(d)' => tries[d] <= reg'[d].attempts + lost[d]
    <3>1. /\ tries[d] \in Nat /\ lost[d] \in Nat
          /\ Live(d) => reg[d].attempts \in Nat /\ tries[d] <= reg[d].attempts + lost[d] + 1
      BY <1>1, Numbers DEF Budgeted, CountsFor, Live
    <3>2. Live(d)' => Live(d) /\ reg'[d].attempts = reg[d].attempts + 1
      BY <1>1, <2>1, OneMoreCounts
    <3> QED
      BY <3>1, <3>2
  <2>4. RouteCounts(l)'
    BY <1>0, <1>1, <2>2, <2>3 DEF RouteCounts
  <2> QED
    BY <1>1, <2>4, QuietRoute
<1> QED
  BY <1>2, <1>3

LEMMA ClearBudgeted ==
    ASSUME Typed, Typed', OneListener, Budgeted, \A d \in Devices : Moves(d),
           NEW l \in Listeners, Clear(l)
    PROVE  Budgeted'
<1>0. PICK d \in Devices : d = req[l].device
  BY RequestType DEF Clear
<1>1. /\ step[l] \in {"clear", "clear spent"}
      /\ UNCHANGED <<reg, tries, lost>>
  BY DEF Clear, pairingHistory
<1>2. RouteCounts(l)'
  <2>1. step'[l] \in {"revoke", "idle"}
    BY GoneTo, GoneIdle DEF Clear
  <2> QED
    BY <2>1, RouteRests
<1>3. CASE UNCHANGED <<marks, latch>>
  BY <1>1, <1>2, <1>3, QuietRoute
<1>4. CASE marks' = marks \ {d} /\ latch' = [latch EXCEPT ![l] = @ \ {d}]
  <2>1. CountsFor(d)'
    <3>1. Live(d)' => tries[d] <= reg'[d].attempts + lost[d]
      BY <1>0, <1>1 DEF Budgeted, RouteCounts, Live
    <3> QED
      BY <1>1, <3>1, CountsSettle DEF Budgeted
  <2>2. ASSUME NEW e \in Devices, e # d
        PROVE  CountsFor(e)'
    <3>1. Owing(e) => Owing(e)'
      <4>1. latch'[l] = latch[l] \ {d}
        BY <1>4 DEF Typed, PairingTypeOK
      <4> QED
        BY <1>1, <1>4, <2>2, <4>1 DEF Owing, OneListener
    <3>2. lost'[e] >= lost[e]
      <4>1. lost[e] \in Nat
        BY Numbers
      <4>2. lost' = lost
        BY <1>1
      <4> QED
        BY <4>1, <4>2
    <3> QED
      BY <1>1, <3>1, <3>2, CountsStay DEF Budgeted
  <2> QED
    BY <1>2, <2>1, <2>2, TheRoute
<1> QED
  BY <1>0, <1>3, <1>4 DEF Clear

LEMMA ConfirmBudgeted ==
    ASSUME Typed, Typed', OneListener, Budgeted, \A d \in Devices : Moves(d),
           NEW l \in Listeners, Confirm(l)
    PROVE  Budgeted'
<1>0. PICK d \in Devices : d = req[l].device
  BY RequestType DEF Confirm
<1>1. step[l] = "confirm" /\ UNCHANGED <<marks, latch, lost>>
  BY DEF Confirm
<1>2. CASE RouteGoto(l, "count")
  <2>1. step'[l] = "count" /\ req' = req
    BY <1>2, GoneTo
  <2>2. /\ Live(d) /\ UNCHANGED reg
        /\ tries' = [tries EXCEPT ![d] = @ + 1]
    BY <1>0, <1>1, <2>1, GoneTo, GoneIdle DEF Confirm, Unchanged
  <2>3. /\ tries'[d] = tries[d] + 1 /\ \A e \in Devices : e # d => tries'[e] = tries[e]
        /\ tries[d] \in Nat /\ lost[d] \in Nat /\ reg[d].attempts \in Nat /\ MaxAttempts \in Nat
    BY <2>2, Numbers DEF Live, Typed, PairingTypeOK
  <2>4. d \notin marks /\ d \notin latch[l] /\ reg[d].attempts < MaxAttempts
    BY <1>0, <1>1, <2>2 DEF Budgeted, RouteCounts
  <2>5. tries[d] <= reg[d].attempts + lost[d]
    <3>1. ~ Owing(d)
      BY <1>1, <2>4 DEF OneListener, Owing
    <3> QED
      BY <2>2, <3>1 DEF Budgeted, CountsFor
  <2>6. RouteCounts(l)'
    BY <1>0, <1>1, <2>1, <2>4 DEF RouteCounts
  <2>7. CountsFor(d)'
    <3>1. Owing(d)'
      BY <1>0, <2>1 DEF Owing
    <3>2. /\ tries'[d] <= MaxAttempts + lost'[d]
          /\ tries'[d] <= reg'[d].attempts + lost'[d] + 1
      BY <1>1, <2>2, <2>3, <2>4, <2>5
    <3> QED
      BY <2>2, <3>1, <3>2 DEF CountsFor, Live
  <2>8. ASSUME NEW e \in Devices, e # d
        PROVE  CountsFor(e)'
    <3>1. Owing(e) => Owing(e)'
      BY <1>1, OwingStays
    <3>2. lost'[e] >= lost[e]
      BY <1>1, Numbers
    <3> QED
      BY <2>3, <2>8, <3>1, <3>2, CountsStay DEF Budgeted
  <2> QED
    BY <2>6, <2>7, <2>8, TheRoute
<1>3. CASE ~ RouteGoto(l, "count")
  <2>1. step'[l] \in {"grant", "idle"} /\ UNCHANGED tries
    BY <1>3, GoneTo, GoneIdle DEF Confirm
  <2> QED
    BY <1>1, <2>1, RouteRests, QuietRoute
<1> QED
  BY <1>2, <1>3

LEMMA CountBudgeted ==
    ASSUME Typed, Typed', OneListener, Budgeted, \A d \in Devices : Moves(d),
           NEW l \in Listeners, Count(l)
    PROVE  Budgeted'
<1>0. PICK d \in Devices : d = req[l].device
  BY RequestType DEF Count
<1>1. step[l] = "count" /\ UNCHANGED <<marks, latch, tries, lost>>
  BY DEF Count, pairingHistory
<1>2. d \notin marks /\ d \notin latch[l]
  BY <1>0, <1>1 DEF Budgeted, RouteCounts
<1>3. ASSUME NEW e \in Devices, e # d
      PROVE  CountsFor(e)'
  <2>1. Owing(e) => Owing(e)'
    BY <1>0, <1>1, <1>3 DEF OneListener, Owing
  <2>2. lost'[e] >= lost[e]
    BY <1>1, Numbers
  <2> QED
    BY <1>1, <2>1, <2>2, CountsStay DEF Budgeted
<1>4. CASE RouteGoto(l, "mark")
  <2>1. step'[l] = "mark" /\ req' = req
    BY <1>4, GoneTo
  <2>2. RouteCounts(l)'
    BY <1>0, <1>1, <1>2, <2>1 DEF RouteCounts
  <2>3. Owing(d)'
    BY <1>0, <2>1 DEF Owing
  <2>4. lost'[d] >= lost[d]
    BY <1>1, Numbers
  <2>5. CountsFor(d)'
    BY <1>1, <2>3, <2>4, CountsStay DEF Budgeted
  <2> QED
    BY <1>3, <2>2, <2>5, TheRoute
<1>5. CASE ~ RouteGoto(l, "mark")
  <2>1. step'[l] \in {"revoke", "idle"} /\ reg' = [reg EXCEPT ![d] = OneMoreFailure(d)]
    BY <1>0, <1>5, GoneTo, GoneIdle DEF Count
  <2>2. Live(d)' => tries[d] <= reg'[d].attempts + lost[d]
    <3>1. /\ tries[d] \in Nat /\ lost[d] \in Nat
          /\ Live(d) => reg[d].attempts \in Nat /\ tries[d] <= reg[d].attempts + lost[d] + 1
      BY Numbers DEF Budgeted, CountsFor, Live
    <3>2. Live(d)' => Live(d) /\ reg'[d].attempts = reg[d].attempts + 1
      BY <2>1, OneMoreCounts
    <3> QED
      BY <3>1, <3>2
  <2>3. CountsFor(d)'
    BY <1>1, <2>2, CountsSettle DEF Budgeted
  <2> QED
    BY <1>3, <2>1, <2>3, RouteRests, TheRoute
<1> QED
  BY <1>4, <1>5

LEMMA MarkBudgeted ==
    ASSUME Typed, Typed', OneListener, Budgeted, \A d \in Devices : Moves(d),
           NEW l \in Listeners, Mark(l)
    PROVE  Budgeted'
<1>0. PICK d \in Devices : d = req[l].device
  BY RequestType DEF Mark
<1>1. /\ step[l] = "mark" /\ UNCHANGED <<tries, lost>> /\ marks \subseteq marks' /\ Refused(l)
      /\ latch' = [latch EXCEPT ![l] = @ \cup {d}]
  BY <1>0 DEF Mark, pairingHistory
<1>2. latch'[l] = latch[l] \cup {d}
  BY <1>1 DEF Typed, PairingTypeOK
<1>3. ASSUME NEW e \in Devices
      PROVE  CountsFor(e)'
  <2>1. Owing(e) => Owing(e)'
    BY <1>0, <1>1, <1>2 DEF OneListener, Owing
  <2>2. lost'[e] >= lost[e]
    BY <1>1, Numbers
  <2> QED
    BY <1>1, <2>1, <2>2, CountsStay DEF Budgeted
<1> QED
  BY <1>1, <1>3, GoneIdle, RouteRests, TheRoute

LEMMA CrashBudgeted ==
    ASSUME Typed, Typed', OneListener, Budgeted, \A d \in Devices : Moves(d),
           NEW l \in Listeners, RouteCrash(l)
    PROVE  Budgeted'
<1>1. UNCHANGED <<marks, tries>>
  BY DEF RouteCrash
<1>2. step'[l] = "down"
  BY DEF RouteCrash, Typed, PairingTypeOK
<1>3. ASSUME NEW d \in Devices
      PROVE  CountsFor(d)'
  <2>1. lost[d] \in Nat
    BY Numbers
  <2>2. lost'[d] = IF d \in latch[l] \ marks \/ (step[l] \in {"count", "mark"} /\ req[l].device = d)
                   THEN lost[d] + 1 ELSE lost[d]
    BY DEF RouteCrash
  <2>3. Owing(d) => Owing(d)' \/ lost'[d] >= lost[d] + 1
    BY <1>1, <2>1, <2>2 DEF OneListener, Owing
  <2>4. lost'[d] >= lost[d]
    BY <2>1, <2>2
  <2> QED
    BY <1>1, <2>3, <2>4, CountsStay DEF Budgeted
<1> QED
  BY <1>2, <1>3, RouteRests, TheRoute

LEMMA InitBudgeted == InitPairing => Budgeted
<1> SUFFICES ASSUME InitPairing PROVE Budgeted
  OBVIOUS
<1>1. MaxAttempts \in Nat
  BY PairingAssumption
<1>2. \A d \in Devices : reg[d] = None /\ tries[d] = 0 /\ lost[d] = 0
  BY DEF InitPairing
<1>3. \A l \in Listeners : step[l] = "down"
  BY DEF InitPairing
<1> QED
  <2>1. \A d \in Devices : CountsFor(d)
    BY <1>1, <1>2 DEF CountsFor, Live
  <2>2. \A l \in Listeners : RouteCounts(l)
    BY <1>3 DEF RouteCounts
  <2> QED
    BY <2>1, <2>2 DEF Budgeted

LEMMA CommitKeeps ==
    ASSUME Typed, NEW c \in Clis, PairCommit(c)
    PROVE  \A d \in Devices : Keeps(d)
<1>1. \A d \in Devices : reg'[d] = reg[d] \/ (reg[d] = None /\ reg'[d] = Fresh)
  <2>1. cli[c].device \in Devices
    BY DEF PairCommit, Typed, PairingTypeOK
  <2>2. CASE Unchanged
    BY <2>2 DEF Unchanged
  <2>3. CASE ~ Unchanged
    <3>1. /\ reg[cli[c].device] = None
          /\ Commit(cli[c].device, Fresh, "paired") \/ CommitFails(cli[c].device, Fresh)
          /\ Fresh \in DeviceRecord
      BY <2>1, <2>3, RecordType DEF PairCommit, Fresh
    <3> QED
      BY <2>1, <3>1, Committed
  <2> QED
    BY <2>2, <2>3
<1>2. Fresh.attempts = 0
  BY DEF Fresh
<1> QED
  BY <1>1, <1>2 DEF Keeps, Live

LEMMA SameRecordKeeps ==
    ASSUME NEW d \in Devices, reg'[d] = reg[d]
    PROVE  Keeps(d)
  BY DEF Keeps, Live

LEMMA RevokeKeeps ==
    ASSUME Typed, NEW d \in Devices, RevokeCommit(d)
    PROVE  \A e \in Devices : Keeps(e)
<1>1. CASE Unchanged
  BY <1>1, SameRecordKeeps DEF Unchanged
<1>2. CASE ~ Unchanged
  <2>1. /\ reg[d] # None /\ Revoked(d) \in DeviceRecord
        /\ Commit(d, Revoked(d), "revoked") \/ CommitFails(d, Revoked(d))
    BY <1>2, RecordType DEF RevokeCommit
  <2>2. /\ reg'[d] \in {reg[d], Revoked(d)}
        /\ \A e \in Devices : e # d => reg'[e] = reg[e]
    BY <2>1, Committed
  <2>3. Revoked(d).code = FALSE
    BY <2>1, KnownRecord DEF Revoked, DeviceRecord
  <2>4. Keeps(d)
    BY <2>2, <2>3 DEF Keeps, Live
  <2> QED
    BY <2>2, <2>4, SameRecordKeeps
<1> QED
  BY <1>1, <1>2

LEMMA LapseKeeps ==
    ASSUME Typed, NEW d \in Devices, Lapse(d)
    PROVE  \A e \in Devices : Keeps(e)
<1>1. /\ reg[d] # None /\ reg'[d] = Late(reg[d])
      /\ \A e \in Devices : e # d => reg'[e] = reg[e]
  BY DEF Lapse, Late, Typed, PairingTypeOK
<1>2. /\ Late(reg[d]).attempts = reg[d].attempts /\ Late(reg[d]).code = reg[d].code
      /\ Late(reg[d]).state = reg[d].state
  BY <1>1, KnownRecord DEF Late, DeviceRecord
<1>3. Keeps(d)
  BY <1>1, <1>2 DEF Keeps, Live
<1> QED
  BY <1>1, <1>3, SameRecordKeeps

LEMMA NextBudgeted ==
    ASSUME Typed, Typed', OneListener, Budgeted, [PairNext]_pairingVars
    PROVE  Budgeted'
<1>0. \A d \in Devices : Moves(d)
  BY NextMoves
<1>1. CASE UNCHANGED <<reg, marks, routes, tries, lost>>
  BY <1>0, <1>1, OthersBudgeted, SameRecordKeeps
<1>2. ASSUME NEW c \in Clis, PairSeed(c) \/ \E d \in Devices : PairBegin(c, d)
      PROVE  Budgeted'
  BY <1>1, <1>2 DEF PairSeed, PairBegin, pairingHistory
<1>3. ASSUME NEW c \in Clis, PairCommit(c)
      PROVE  Budgeted'
  <2>1. UNCHANGED <<marks, routes, tries, lost>>
    BY <1>3 DEF PairCommit, pairingHistory
  <2> QED
    BY <1>0, <1>3, <2>1, CommitKeeps, OthersBudgeted
<1>4. ASSUME NEW d \in Devices, RevokeByHand(d)
      PROVE  Budgeted'
  <2>1. UNCHANGED <<marks, routes, tries, lost>> /\ RevokeCommit(d)
    BY <1>4 DEF RevokeByHand, pairingHistory
  <2> QED
    BY <1>0, <2>1, RevokeKeeps, OthersBudgeted
<1>5. ASSUME NEW d \in Devices, Lapse(d)
      PROVE  Budgeted'
  <2>1. UNCHANGED <<marks, routes, tries, lost>>
    BY <1>5 DEF Lapse, pairingHistory
  <2> QED
    BY <1>0, <1>5, <2>1, LapseKeeps, OthersBudgeted
<1>6. ASSUME NEW l \in Listeners, RouteStart(l)
      PROVE  Budgeted'
  <2>1. /\ step[l] = "down" /\ step'[l] = "idle"
        /\ UNCHANGED <<marks, latch, tries, lost>>
    BY <1>6, GoneTo DEF RouteStart, pairingHistory
  <2> QED
    BY <1>0, <2>1, RouteRests, QuietRoute
<1>7. ASSUME NEW l \in Listeners, NEW d \in Devices, NEW right \in BOOLEAN, Ask(l, d, right)
      PROVE  Budgeted'
  <2>1. /\ step[l] = "idle" /\ step'[l] = "budget"
        /\ UNCHANGED <<marks, latch, tries, lost>>
    BY <1>7 DEF Ask, pairingHistory, Typed, PairingTypeOK
  <2> QED
    BY <1>0, <2>1, RouteRests, QuietRoute
<1>8. ASSUME NEW l \in Listeners, RevokeSpent(l) \/ Grant(l)
      PROVE  Budgeted'
  <2>1. /\ step[l] \in {"revoke", "grant"} /\ step'[l] = "idle"
        /\ UNCHANGED <<marks, latch, tries, lost>>
    BY <1>8, GoneIdle DEF RevokeSpent, Grant, pairingHistory
  <2> QED
    BY <1>0, <2>1, RouteRests, QuietRoute
<1>9. CASE UNCHANGED pairingVars
  BY <1>1, <1>9 DEF pairingVars, routes
<1> QED
  BY <1>0, <1>2, <1>3, <1>4, <1>5, <1>6, <1>7, <1>8, <1>9, BudgetBudgeted, RetryBudgeted,
     ClearBudgeted, ConfirmBudgeted, CountBudgeted, MarkBudgeted, CrashBudgeted
  DEF PairNext, Route

\* However guesses, failing writes, restarts and retries interleave, one listener
\* compares no more wrong codes for a pairing than the budget allows.
THEOREM BudgetCorrect == PairingSpec => []BudgetHolds
<1> DEFINE Inv == Typed /\ (OneListener => Budgeted)
<1>1. InitPairing => Inv
  BY InitTyped, InitBudgeted
<1>2. Inv /\ [PairNext]_pairingVars => Inv'
  BY NextTyped, NextBudgeted DEF OneListener
<1>3. Inv => BudgetHolds
  BY DEF BudgetHolds, OneListener, Budgeted, CountsFor
<1> QED
  BY <1>1, <1>2, <1>3, PTL DEF PairingSpec

\* What a step of the registry does to one device that has a record: neither a
\* confirmation decided from an earlier state of it, a revocation, a failing write
\* nor a clock set back opens what was settled, or a pairing with a spent budget.
Settles(d) ==
    reg[d] # None /\ reg[d] # reg'[d] =>
       /\ reg'[d] # None /\ reg[d].state # "revoked"
       /\ reg[d].state = "active" => reg'[d].state = "revoked"
       /\ reg'[d].code => reg[d].code
       /\ reg'[d].state = "active" =>
             /\ reg[d].code /\ ~ reg[d].late
             /\ OneListener => reg[d].attempts < MaxAttempts

LEMMA MoveSettles ==
    ASSUME Typed, OneListener => Budgeted, NEW d \in Devices, Moves(d)
    PROVE  Settles(d)
<1> SUFFICES ASSUME reg[d] # None, reg[d] # reg'[d] PROVE Settles(d)
  BY DEF Settles
<1>1. reg[d] \in DeviceRecord /\ None \notin DeviceRecord
  BY KnownRecord
<1>2. /\ Burned(reg[d]).code = FALSE /\ Burned(reg[d]).state = reg[d].state
      /\ Activated(reg[d]).code = FALSE /\ Activated(reg[d]).state = "active"
      /\ MissCounted(reg[d]).code = reg[d].code /\ MissCounted(reg[d]).state = reg[d].state
      /\ Late(reg[d]).code = reg[d].code /\ Late(reg[d]).state = reg[d].state
      /\ Revoked(d).code = FALSE /\ Revoked(d).state = "revoked"
  BY <1>1 DEF DeviceRecord, Burned, Activated, MissCounted, Late, Revoked
<1>3. reg'[d] # None
  BY <1>1, CodeStaysGone
<1>4. CASE Live(d) /\ reg'[d] \in {Burned(reg[d]), MissCounted(reg[d])}
  BY <1>2, <1>3, <1>4 DEF Settles, Live
<1>5. CASE Live(d) /\ ~ reg[d].late /\ Tried(d) /\ reg'[d] = Activated(reg[d])
  <2>1. OneListener => reg[d].attempts < MaxAttempts
    BY <1>5 DEF Tried, Budgeted, RouteCounts
  <2> QED
    BY <1>2, <1>3, <1>5, <2>1 DEF Settles, Live
<1>6. CASE reg[d].state = "pending" /\ reg'[d] = Late(reg[d])
  BY <1>2, <1>3, <1>6 DEF Settles
<1>7. CASE reg[d].state # "revoked" /\ reg'[d] = Revoked(d)
  BY <1>2, <1>3, <1>7 DEF Settles
<1> QED
  BY <1>4, <1>5, <1>6, <1>7 DEF Moves

\* A device that was revoked, or whose code was spent or burned, is opened by
\* nobody, and where one listener serves the directory neither is a pairing whose
\* budget is spent: confirmations, revocations, failing writes and any clock.
THEOREM SettledCorrect == PairingSpec => SettledStaysSettled
<1> DEFINE Inv == Typed /\ (OneListener => Budgeted)
<1>1. InitPairing => Inv
  BY InitTyped, InitBudgeted
<1>2. Inv /\ [PairNext]_pairingVars => Inv'
  BY NextTyped, NextBudgeted DEF OneListener
<1>3. Inv /\ [PairNext]_pairingVars => [\A d \in Devices : Settles(d)]_pairingVars
  BY NextMoves, MoveSettles
<1>4. [\A d \in Devices : Settles(d)]_pairingVars <=>
        [\A d \in Devices : reg[d] # None /\ reg[d] # reg'[d] =>
           /\ reg'[d] # None /\ reg[d].state # "revoked"
           /\ reg[d].state = "active" => reg'[d].state = "revoked"
           /\ reg'[d].code => reg[d].code
           /\ reg'[d].state = "active" =>
                 /\ reg[d].code /\ ~ reg[d].late
                 /\ OneListener => reg[d].attempts < MaxAttempts]_pairingVars
  BY DEF Settles
<1> HIDE DEF Inv
<1> QED
  BY <1>1, <1>2, <1>3, <1>4, PTL DEF PairingSpec, SettledStaysSettled

=============================================================================
