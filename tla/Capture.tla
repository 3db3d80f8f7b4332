------------------------------- MODULE Capture -------------------------------
(***************************************************************************)
(* The companion's governed capture: a phone repeats a capture under one   *)
(* idempotency key until it holds a receipt, and one memory may come of it.*)
(*                                                                         *)
(* A listener (`mora companion serve`) runs one capture at a time, since   *)
(* its kernel slot admits one call.  Between two steps of a capture the    *)
(* device may be revoked, the policy changed, the listener killed, and     *)
(* another listener over the same state directory may run.  A step is one  *)
(* operation on one store: the reservation files (under their lock), the   *)
(* publication record of a key, the pointer of a memory id, the receipt    *)
(* beside the record, the vault.                                           *)
(*                                                                         *)
(* Time is the age of a reservation, and a receipt id that nothing mentions*)
(* any more serves as a new one.                                           *)
(***************************************************************************)
EXTENDS Companion, Naturals, FiniteSets

CONSTANTS
    Captures,  \* by identity: device, key, stamp and everything written
    Keys,      \* idempotency keys of the device
    Crews,     \* bounds, of which a behaviour picks one
    KeyOf,     \* the key a capture was sent under
    Ids,       \* memory ids
    IdOf,      \* the memory id derived from a capture
    Receipts,  \* bound: receipt ids
    TakeoverAge,     \* ReservationTakeover
    SweepAge,        \* PendingSweepAfter
    Ttl,             \* ReservationTTL
    MaxPending,      \* MaxPendingReservations
    MaxReservations,
    Policies,        \* what the vault's config may say
    MaxRepeats,      \* bound on requests for what the phone holds an answer to
    MaxChanges,      \* bound on changes of the policy
    Fallible         \* the steps whose operation may fail

PolicyNames == {"open", "propose", "readonly", "unreadable"}
Verdicts == {"applied", "accepted", "policy", "unknown_device", "conflict", "internal"}
Body == [cap: Captures, verdict: Verdicts, id: Receipts]

ASSUME CaptureAssumption ==
    /\ None \notin Listeners \cup Captures \cup Keys \cup Ids \cup Receipts
    /\ None \notin Body
    /\ Crews \subseteq [captures: SUBSET Captures, listeners: SUBSET Listeners,
                    revocable: BOOLEAN, faults: 0..MaxFaults]
    /\ KeyOf \in [Captures -> Keys]
    /\ IdOf \in [Captures -> Ids]
    /\ IsFiniteSet(Keys)
    /\ TakeoverAge \in Nat /\ SweepAge \in Nat /\ Ttl \in Nat
    /\ 0 < TakeoverAge /\ TakeoverAge < SweepAge /\ SweepAge <= Ttl
    /\ MaxPending \in Nat /\ MaxReservations \in Nat
    /\ Policies \subseteq PolicyNames /\ Policies # {}
    /\ MaxRepeats \in Nat /\ MaxChanges \in Nat /\ MaxFaults \in Nat
    /\ Fallible \subseteq {"lookup", "finish", "reserve", "backfill", "publish", "claim", "link",
                          "pointer", "create", "rollback", "write", "receipt", "settle"}

VARIABLES
    crew,    \* the captures this phone sends, the listeners it finds, what may befall them
    live,    \* the device is paired and not revoked
    policy,  \* the write policy in the vault's config
    res,     \* reservation file of each key
    pubs,    \* publication record of each key: the capture that owns it
    ptrs,    \* pointer of each memory id: the key that owns it
    rcpts,   \* receipt sibling of each key's record
    vault,   \* the memory at each id: the capture it was written from
    staged,  \* proposals waiting for a decision: the captures staged
    census,  \* each listener's counts of the reservation files
    shelf,   \* each listener's census of the publication records
    at,      \* the step each listener is about to take
    my,      \* the request each listener is serving
    told,    \* history: the answers the phone received
    repeats, \* requests for what was answered
    trimmed, \* history: keys whose publication was dropped over the cap
    changes,
    faults

vars == <<crew, live, policy, res, pubs, ptrs, rcpts, vault, staged, census, shelf,
          at, my, told, repeats, trimmed, changes, faults>>
env == <<crew, live, policy, changes>>
published == <<pubs, ptrs, rcpts>>
history == <<told, repeats, trimmed>>

\* The history keeps the id of a receipt only when it says applied.
Told == [cap: Captures, verdict: Verdicts, id: Receipts \cup {None}]
Reservation == [cap: Captures, age: 0..Ttl, body: Body \cup {None}]
Steps == {"down", "idle", "lookup", "finish", "reserve", "backfill", "published", "live",
          "publish", "claim", "link", "pointer", "create", "rollback", "write", "verify",
          "receipt", "trim", "tidy", "settle", "answer"}
\* A request: its capture and receipt id; whether its key had a record without
\* a receipt; whether it reclaimed a crashed reservation; the age of the
\* reservation it holds; the files it created; its answer; whether the device
\* was revoked before it reserved its key.
Request == [cap: Captures, id: Receipts, found: BOOLEAN, over: BOOLEAN, age: 0..Ttl,
            created: SUBSET {"record", "pointer"}, body: Body \cup {None}, late: BOOLEAN]

Pending(k) == res[k] # None /\ res[k].body = None
Rows == {k \in Keys : res[k] # None}
\* collectable
Collectable(r) == r.age >= Ttl \/ (r.body = None /\ r.age >= SweepAge)
Kept == {k \in Rows : ~ Collectable(res[k])}
Answer(l, verdict) == [cap |-> my[l].cap, verdict |-> verdict, id |-> my[l].id]
Older(a) == IF a < Ttl THEN a + 1 ELSE Ttl
Answered(c) == \E b \in told : b.cap = c
UsedReceipts ==
    {b.id : b \in ({rcpts[k] : k \in Keys} \cup told \cup {res[k].body : k \in Rows}) \ {None}}
        \cup {my[l].id : l \in {x \in Listeners : my[x] # None}}
        \cup {my[l].body.id : l \in {x \in Listeners : my[x] # None /\ my[x].body # None}}

Init ==
    /\ crew \in Crews
    /\ live = TRUE
    /\ policy \in Policies
    /\ res = [k \in Keys |-> None]
    /\ pubs = [k \in Keys |-> None]
    /\ ptrs = [i \in Ids |-> None]
    /\ rcpts = [k \in Keys |-> None]
    /\ vault = [i \in Ids |-> None]
    /\ staged = {}
    /\ census = [l \in Listeners |-> None]
    /\ shelf = [l \in Listeners |-> None]
    /\ at = [l \in Listeners |-> "down"]
    /\ my = [l \in Listeners |-> None]
    /\ told = {} /\ repeats = 0 /\ trimmed = {}
    /\ changes = 0 /\ faults = 0

-----------------------------------------------------------------------------
(* Moving a request along.                                                  *)

Goto(l, step) == at' = [at EXCEPT ![l] = step]
\* The request proceeds with an answer in hand.
With(l, verdict, step) ==
    /\ my' = [my EXCEPT ![l].body = Answer(l, verdict)]
    /\ Goto(l, step)
\* refuse, refuseIntegrity: a receipt the store is not told about.
Refuse(l, verdict) == With(l, verdict, "answer")

\* cmdCompanionServe opens the store, and opening sweeps and counts.
Start(l) ==
    /\ at[l] = "down" /\ l \in crew.listeners
    /\ res' = [k \in Keys |-> IF k \in Kept THEN res[k] ELSE None]
    /\ census' = [census EXCEPT ![l] =
         [total |-> Cardinality(Kept),
          pending |-> [k \in Keys |-> IF k \in Kept /\ Pending(k) THEN res[k].age ELSE None]]]
    /\ Goto(l, "idle")
    /\ UNCHANGED <<env, published, vault, staged, shelf, my, history, faults>>

\* A listener that is killed leaves the files as they are.
Crash(l) ==
    /\ at[l] # "down" /\ faults < crew.faults
    /\ faults' = faults + 1
    /\ Goto(l, "down")
    /\ census' = [census EXCEPT ![l] = None]
    /\ shelf' = [shelf EXCEPT ![l] = None]
    /\ my' = [my EXCEPT ![l] = None]
    /\ UNCHANGED <<env, res, published, vault, staged, history>>

Finished(l) ==
    /\ Goto(l, "idle")
    /\ my' = [my EXCEPT ![l] = None]

\* A store operation fails: the request answers 503 and its claim is abandoned,
\* its reservation left pending.  A claim that cannot finish its pointer takes
\* its record back.
Fail(l) ==
    /\ at[l] \in Fallible /\ faults < crew.faults
    /\ faults' = faults + 1
    /\ Finished(l)
    /\ pubs' = IF at[l] \in {"pointer", "create"} /\ "record" \in my[l].created
               THEN [pubs EXCEPT ![KeyOf[my[l].cap]] = None] ELSE pubs
    /\ UNCHANGED <<env, res, ptrs, rcpts, vault, staged, census, shelf, history>>

\* The guards of the route, the credential, a decodable body and the kernel slot.
\* The phone repeats what was not answered, and may repeat what was.
Admit(l, c) ==
    /\ at[l] = "idle" /\ live /\ c \in crew.captures
    /\ IF Answered(c) THEN repeats < MaxRepeats /\ repeats' = repeats + 1 ELSE UNCHANGED repeats
    /\ Receipts \ UsedReceipts # {}
    /\ my' = [my EXCEPT ![l] =
         [cap |-> c, id |-> CHOOSE r \in Receipts \ UsedReceipts : TRUE, found |-> FALSE,
          over |-> FALSE, age |-> 0, created |-> {}, body |-> None, late |-> FALSE]]
    /\ Goto(l, "lookup")
    /\ UNCHANGED <<env, res, published, vault, staged, census, shelf, told, trimmed, faults>>

\* PublishedForKey: what the key has published already, its pointer repaired on
\* the way.  A config that cannot be read answers that it published nothing.
Lookup(l) ==
    LET c == my[l].cap
        k == KeyOf[c]
        owner == pubs[k]
    IN
    /\ at[l] = "lookup"
    /\ \/ /\ policy = "unreadable" \/ owner = None
          /\ Goto(l, "reserve")
          /\ UNCHANGED <<ptrs, my>>
       \/ /\ policy # "unreadable" /\ owner # None
          /\ IF ptrs[IdOf[owner]] \notin {None, k}
             THEN Refuse(l, "internal") /\ UNCHANGED ptrs
             ELSE /\ ptrs' = [ptrs EXCEPT ![IdOf[owner]] = k]
                  /\ \/ owner # c /\ Refuse(l, "conflict")
                     \/ /\ owner = c /\ rcpts[k] # None
                        /\ my' = [my EXCEPT ![l].body = rcpts[k]]
                        /\ Goto(l, "finish")
                     \/ /\ owner = c /\ rcpts[k] = None
                        /\ my' = [my EXCEPT ![l].found = TRUE]
                        /\ Goto(l, "reserve")
    /\ UNCHANGED <<env, res, pubs, rcpts, vault, staged, census, shelf, history, faults>>

\* SettleFromReplay: the published answer settles a reservation left pending.
Finish(l) ==
    LET k == KeyOf[my[l].cap] IN
    /\ at[l] = "finish"
    /\ \/ /\ Pending(k) /\ res[k].cap = my[l].cap
          /\ res' = [res EXCEPT ![k].body = my[l].body]
          /\ census' = [census EXCEPT ![l].pending[k] = None]
       \/ /\ ~ (Pending(k) /\ res[k].cap = my[l].cap)
          /\ UNCHANGED <<res, census>>
    /\ Goto(l, "answer")
    /\ UNCHANGED <<env, published, vault, staged, shelf, my, history, faults>>

-----------------------------------------------------------------------------
(* Reserve, under the store's lock.                                         *)

\* sweep: the reservations this listener counts as pending and saw made long ago.
Swept(pending) == {j \in Keys : pending[j] # None /\ pending[j] >= SweepAge}

\* trim drops settled reservations over the cap, and never the one just written.
TrimmedTo(files, total, k) ==
    LET rows == {j \in Keys : files[j] # None}
        spare == {j \in rows \ {k} : files[j].body # None}
        excess == Cardinality(rows) - MaxReservations
    IN IF total <= MaxReservations \/ Cardinality(rows) <= MaxReservations THEN {{}}
       ELSE {drop \in SUBSET spare : \/ Cardinality(drop) = excess
                                     \/ Cardinality(spare) < excess /\ drop = spare}

\* forget: a count of files that others delete and make stays at zero.
Less(total, n) == IF total > n THEN total - n ELSE 0

\* A reservation under a key nobody holds: what may not be kept is collected,
\* the bound checked, and only then a file written.
ReserveFresh(l, k) ==
    LET dead == res[k] # None
        pending == [census[l].pending EXCEPT ![k] = IF dead THEN None ELSE @]
        swept == Swept(pending)
        left == [j \in Keys |-> IF j \in swept THEN None ELSE pending[j]]
        total0 == IF dead THEN Less(census[l].total, 1) ELSE census[l].total
        total1 == Less(total0, Cardinality(swept))
        files == [j \in Keys |-> IF j \in swept \/ (j = k /\ dead) THEN None ELSE res[j]]
        written == [files EXCEPT ![k] = [cap |-> my[l].cap, age |-> 0, body |-> None]]
    IN
    \/ /\ Cardinality({j \in Keys : left[j] # None}) >= MaxPending
       /\ res' = files
       /\ census' = [census EXCEPT ![l] = [total |-> total1, pending |-> left]]
       /\ Finished(l)
    \/ /\ Cardinality({j \in Keys : left[j] # None}) < MaxPending
       /\ \E drop \in TrimmedTo(written, total1 + 1, k) :
            /\ res' = [j \in Keys |-> IF j \in drop THEN None ELSE written[j]]
            /\ census' = [census EXCEPT ![l] =
                 [total |-> Less(total1 + 1, Cardinality(drop)),
                  pending |-> [j \in Keys |-> IF j = k THEN 0
                                              ELSE IF j \in drop THEN None ELSE left[j]]]]
       /\ my' = [my EXCEPT ![l].over = FALSE, ![l].age = 0, ![l].late = ~ live]
       /\ Goto(l, "live")

\* A key that has a reservation: another capture's is a conflict, a settled one
\* is the answer, a recent one is somebody's work, an old one is a crash's.
ReserveHeld(l, k) ==
    LET c == my[l].cap IN
    \/ /\ res[k].cap # c
       /\ Refuse(l, "conflict")
       /\ UNCHANGED <<res, census>>
    \/ /\ res[k].cap = c /\ res[k].body # None
       /\ my' = [my EXCEPT ![l].body = res[k].body]
       /\ Goto(l, IF my[l].found THEN "backfill" ELSE "answer")
       /\ UNCHANGED <<res, census>>
    \/ /\ res[k].cap = c /\ res[k].body = None /\ res[k].age < TakeoverAge
       /\ Finished(l)
       /\ UNCHANGED <<res, census>>
    \/ /\ res[k].cap = c /\ res[k].body = None /\ res[k].age >= TakeoverAge
       /\ \E drop \in TrimmedTo(res, census[l].total, k) :
            /\ res' = [j \in Keys |-> IF j = k THEN [res[k] EXCEPT !.age = 0]
                                      ELSE IF j \in drop THEN None ELSE res[j]]
            /\ census' = [census EXCEPT ![l].total = Less(@, Cardinality(drop)),
                   ![l].pending = [j \in Keys |-> IF j = k THEN 0
                                                  ELSE IF j \in drop THEN None ELSE @[j]]]
       /\ my' = [my EXCEPT ![l].over = TRUE, ![l].age = 0, ![l].late = ~ live]
       /\ Goto(l, "published")

Reserve(l) ==
    LET k == KeyOf[my[l].cap] IN
    /\ at[l] = "reserve"
    /\ IF k \in Kept THEN ReserveHeld(l, k) ELSE ReserveFresh(l, k)
    /\ UNCHANGED <<env, published, vault, staged, shelf, history, faults>>

-----------------------------------------------------------------------------
(* The vault and the published store.                                       *)

\* verifyPublication: the memory at the id is this capture's when the file says
\* so and no other capture's record does.
Owner(i) == IF ptrs[i] = None THEN None ELSE pubs[ptrs[i]]
Ours(c) == vault[IdOf[c]] = c /\ Owner(IdOf[c]) \in {None, c}

\* publish, of a reclaimed claim: a crashed attempt may have written already.
Published(l) ==
    LET c == my[l].cap IN
    /\ at[l] = "published"
    /\ \/ (policy = "unreadable" \/ vault[IdOf[c]] = None) /\ Goto(l, "live") /\ UNCHANGED my
       \/ /\ policy # "unreadable" /\ vault[IdOf[c]] # None
          /\ \/ Ours(c) /\ With(l, "applied", "receipt")
             \/ ~ Ours(c) /\ With(l, "internal", "settle")
    /\ UNCHANGED <<env, res, published, vault, staged, census, shelf, history, faults>>

\* MUTANT of StillLive: the answer the guard chain got at admission is remembered.
StillLiveAsAdmitted(l) ==
    /\ at[l] = "live"
    /\ Goto(l, "publish")
    /\ UNCHANGED <<env, res, published, vault, staged, census, shelf, my, history, faults>>

\* stillLive asks the registry again.
StillLive(l) ==
    /\ at[l] = "live"
    /\ \/ live /\ Goto(l, "publish") /\ UNCHANGED my
       \/ ~ live /\ With(l, "unknown_device", "settle")
    /\ UNCHANGED <<env, res, published, vault, staged, census, shelf, history, faults>>

\* MUTANT of Publish: a config that cannot be read is an error, not a refusal.
PublishErrs(l) ==
    /\ at[l] = "publish"
    /\ IF policy = "unreadable" THEN Finished(l) ELSE Goto(l, "claim") /\ UNCHANGED my
    /\ UNCHANGED <<env, res, published, vault, staged, census, shelf, history, faults>>

\* Publish reads the policy; `propose` stages the capture for a human.
Publish(l) ==
    /\ at[l] = "publish"
    /\ \/ /\ policy \in {"unreadable", "readonly"}
          /\ With(l, "policy", "settle")
          /\ UNCHANGED staged
       \/ /\ policy = "propose"
          /\ staged' = staged \cup {my[l].cap}
          /\ With(l, "accepted", "settle")
       \/ /\ policy = "open"
          /\ Goto(l, "claim")
          /\ UNCHANGED <<my, staged>>
    /\ UNCHANGED <<env, res, published, vault, census, shelf, history, faults>>

\* claimCapturePublication reads the key's record, and the id's pointer when
\* there is none.
Claim(l) ==
    LET c == my[l].cap
        k == KeyOf[c]
    IN
    /\ at[l] = "claim"
    /\ \/ /\ \/ pubs[k] \notin {None, c}
             \/ pubs[k] = None /\ ptrs[IdOf[c]] \notin {None, k}
          /\ With(l, "internal", "settle")
       \/ pubs[k] = c /\ Goto(l, "pointer") /\ UNCHANGED my
       \/ /\ pubs[k] = None /\ ptrs[IdOf[c]] \in {None, k}
          /\ Goto(l, "link") /\ UNCHANGED my
    /\ UNCHANGED <<env, res, published, vault, staged, census, shelf, history, faults>>

\* MUTANT of Link: stat, then rename over whatever is there.
LinkByRename(l) ==
    /\ at[l] = "link"
    /\ pubs' = [pubs EXCEPT ![KeyOf[my[l].cap]] = my[l].cap]
    /\ my' = [my EXCEPT ![l].created = {"record"}]
    /\ Goto(l, "pointer")
    /\ UNCHANGED <<env, res, ptrs, rcpts, vault, staged, census, shelf, history, faults>>

\* writeCapturePublicationRecord: the link that only one of two can make.
Link(l) ==
    LET c == my[l].cap
        k == KeyOf[c]
    IN
    /\ at[l] = "link"
    /\ \/ /\ pubs[k] = None
          /\ pubs' = [pubs EXCEPT ![k] = c]
          /\ my' = [my EXCEPT ![l].created = {"record"}]
          /\ Goto(l, "pointer")
       \/ pubs[k] = c /\ Goto(l, "write") /\ UNCHANGED <<pubs, my>>
       \/ pubs[k] \notin {None, c} /\ With(l, "internal", "settle") /\ UNCHANGED pubs
    /\ UNCHANGED <<env, res, ptrs, rcpts, vault, staged, census, shelf, history, faults>>

\* repairCapturePublicationIndex reads the pointer ...
Pointer(l) ==
    LET p == ptrs[IdOf[my[l].cap]] IN
    /\ at[l] = "pointer"
    /\ \/ p = None /\ Goto(l, "create") /\ UNCHANGED my
       \/ p = KeyOf[my[l].cap] /\ Goto(l, "write") /\ UNCHANGED my
       \/ p \notin {None, KeyOf[my[l].cap]} /\ With(l, "internal", "rollback")
    /\ UNCHANGED <<env, res, published, vault, staged, census, shelf, history, faults>>

\* ... and creates it, exclusively: one that appeared meanwhile will do.
Create(l) ==
    LET i == IdOf[my[l].cap] IN
    /\ at[l] = "create"
    /\ \/ /\ ptrs[i] = None
          /\ ptrs' = [ptrs EXCEPT ![i] = KeyOf[my[l].cap]]
          /\ my' = [my EXCEPT ![l].created = @ \cup {"pointer"}]
       \/ ptrs[i] # None /\ UNCHANGED <<ptrs, my>>
    /\ Goto(l, "write")
    /\ UNCHANGED <<env, res, pubs, rcpts, vault, staged, census, shelf, history, faults>>

\* rollback removes what this claim created.
Rollback(l) ==
    LET c == my[l].cap IN
    /\ at[l] = "rollback"
    /\ pubs' = IF "record" \in my[l].created THEN [pubs EXCEPT ![KeyOf[c]] = None] ELSE pubs
    /\ ptrs' = IF "pointer" \in my[l].created THEN [ptrs EXCEPT ![IdOf[c]] = None] ELSE ptrs
    /\ Goto(l, "settle")
    /\ UNCHANGED <<env, res, rcpts, vault, staged, census, shelf, my, history, faults>>

\* createMemory publishes the file under the pinned id unless there is one.
Write(l) ==
    LET c == my[l].cap IN
    /\ at[l] = "write"
    /\ \/ /\ vault[IdOf[c]] = None
          /\ vault' = [vault EXCEPT ![IdOf[c]] = c]
          /\ With(l, "applied", "receipt")
       \/ vault[IdOf[c]] # None /\ Goto(l, "verify") /\ UNCHANGED <<vault, my>>
    /\ UNCHANGED <<env, res, published, staged, census, shelf, history, faults>>

\* A file that is there already is this capture's or somebody else's.
Verify(l) ==
    /\ at[l] = "verify"
    /\ \/ Ours(my[l].cap) /\ With(l, "applied", "receipt")
       \/ ~ Ours(my[l].cap) /\ With(l, "internal", "rollback")
    /\ UNCHANGED <<env, res, published, vault, staged, census, shelf, history, faults>>

-----------------------------------------------------------------------------
(* The receipt.                                                             *)

\* MUTANT of Record: the receipt is rewritten in place by whoever comes last.
RecordInPlace(l, next) ==
    /\ rcpts' = [rcpts EXCEPT ![KeyOf[my[l].cap]] = my[l].body]
    /\ UNCHANGED my
    /\ Goto(l, next)

\* recordCaptureReceipt: the first attempt to link a receipt beside the record
\* has the answer; a record that is missing or another's is an error.
Record(l, next) ==
    LET k == KeyOf[my[l].cap] IN
    \/ /\ policy # "unreadable" /\ pubs[k] = my[l].cap
       /\ rcpts' = IF rcpts[k] = None THEN [rcpts EXCEPT ![k] = my[l].body] ELSE rcpts
       /\ my' = [my EXCEPT ![l].body = IF next = "trim" /\ rcpts[k] # None THEN rcpts[k] ELSE @]
       /\ Goto(l, next)
    \/ /\ policy = "unreadable" \/ pubs[k] # my[l].cap
       /\ Finished(l)
       /\ UNCHANGED rcpts

Receipt(l) ==
    /\ at[l] = "receipt" /\ Record(l, "trim")
    /\ UNCHANGED <<env, res, pubs, ptrs, vault, staged, census, shelf, history, faults>>

\* A replay puts the reservation's bytes beside a record that lacks its receipt,
\* keeps its own bytes, and trims before it answers.
Backfill(l) ==
    /\ at[l] = "backfill" /\ Record(l, "tidy")
    /\ UNCHANGED <<env, res, pubs, ptrs, vault, staged, census, shelf, history, faults>>

\* publishedCensus: note the record, or count them all the first time, then drop
\* answered ones over the cap: pointer, receipt and record.
Counted(l) ==
    IF shelf[l] = None
    THEN [c \in Captures |-> IF pubs[KeyOf[c]] # c THEN "none"
                             ELSE IF rcpts[KeyOf[c]] # None THEN "answered" ELSE "open"]
    ELSE [shelf[l] EXCEPT ![my[l].cap] = "answered"]

Trim(l) ==
    LET known == Counted(l)
        all == {c \in Captures : known[c] # "none"}
        spare == {c \in all : known[c] = "answered" /\ IdOf[c] # IdOf[my[l].cap]}
        excess == Cardinality(all) - MaxReservations
    IN
    /\ at[l] \in {"trim", "tidy"}
    /\ \E drop \in SUBSET spare :
         /\ \/ excess <= 0 /\ drop = {}
            \/ excess > 0 /\ Cardinality(drop) = excess
            \/ excess > 0 /\ Cardinality(spare) < excess /\ drop = spare
         /\ pubs' = [k \in Keys |-> IF \E c \in drop : KeyOf[c] = k THEN None ELSE pubs[k]]
         /\ rcpts' = [k \in Keys |-> IF \E c \in drop : KeyOf[c] = k THEN None ELSE rcpts[k]]
         /\ ptrs' = [i \in Ids |-> IF \E c \in drop : IdOf[c] = i THEN None ELSE ptrs[i]]
         /\ shelf' = [shelf EXCEPT ![l] = [c \in Captures |-> IF c \in drop THEN "none" ELSE known[c]]]
         /\ trimmed' = trimmed \cup {KeyOf[c] : c \in drop}
    /\ Goto(l, IF at[l] = "trim" THEN "settle" ELSE "answer")
    /\ UNCHANGED <<env, res, vault, staged, census, my, told, repeats, faults>>

\* Settle writes this claim's record with its answer, whatever is there.
Settle(l) ==
    LET k == KeyOf[my[l].cap] IN
    /\ at[l] = "settle"
    /\ res' = [res EXCEPT ![k] = [cap |-> my[l].cap, age |-> my[l].age, body |-> my[l].body]]
    /\ census' = [census EXCEPT ![l].pending[k] = None]
    /\ Goto(l, "answer")
    /\ UNCHANGED <<env, published, vault, staged, shelf, my, history, faults>>

\* The bytes reach the phone.
Reply(l) ==
    LET b == my[l].body IN
    /\ at[l] = "answer"
    /\ told' = told \cup {IF b.verdict = "applied" THEN b ELSE [b EXCEPT !.id = None]}
    /\ Finished(l)
    /\ UNCHANGED <<env, res, published, vault, staged, census, shelf, repeats, trimmed, faults>>

-----------------------------------------------------------------------------
(* The world outside.                                                       *)

\* Time passes: reservations age, on disk and in what the listeners remember.
Tick ==
    /\ res' = [k \in Keys |-> IF res[k] = None THEN None ELSE [res[k] EXCEPT !.age = Older(@)]]
    /\ census' = [l \in Listeners |-> IF census[l] = None THEN None
         ELSE [census[l] EXCEPT !.pending = [k \in Keys |-> IF @[k] = None THEN None ELSE Older(@[k])]]]
    /\ my' = [l \in Listeners |-> IF my[l] = None THEN None ELSE [my[l] EXCEPT !.age = Older(@)]]
    /\ UNCHANGED <<env, published, vault, staged, shelf, at, history, faults>>

Revoke ==
    /\ live /\ crew.revocable
    /\ live' = FALSE
    /\ UNCHANGED <<crew, policy, changes, res, published, vault, staged, census, shelf, at, my, history, faults>>

SetPolicy(p) ==
    /\ changes < MaxChanges /\ p # policy
    /\ policy' = p
    /\ changes' = changes + 1
    /\ UNCHANGED <<crew, live, res, published, vault, staged, census, shelf, at, my, history, faults>>

Listen(l) ==
    \/ Lookup(l) \/ Finish(l) \/ Reserve(l) \/ Published(l) \/ StillLive(l) \/ Publish(l)
    \/ Claim(l) \/ Link(l) \/ Pointer(l) \/ Create(l) \/ Rollback(l) \/ Write(l) \/ Verify(l)
    \/ Receipt(l) \/ Backfill(l) \/ Trim(l) \/ Settle(l) \/ Reply(l)

Next ==
    \/ \E l \in Listeners : Start(l) \/ Crash(l) \/ Fail(l) \/ Listen(l)
    \/ \E l \in Listeners, c \in Captures : Admit(l, c)
    \/ Tick \/ Revoke
    \/ \E p \in Policies : SetPolicy(p)

Spec == Init /\ [][Next]_vars

\* A listener is kept running and finishes what it serves, time passes, and the
\* phone repeats a capture until it holds an answer: whenever a listener could
\* take it again and again, one does.
Fairness ==
    /\ \A l \in Listeners : WF_vars(Start(l)) /\ WF_vars(Listen(l))
    /\ WF_vars(Tick)
    /\ \A c \in Captures : SF_vars(\E l \in Listeners : Admit(l, c))

FairSpec == Spec /\ Fairness

-----------------------------------------------------------------------------

Counts == [total: Nat, pending: [Keys -> (0..Ttl) \cup {None}]]

\* Every variable keeps its type: the files hold what the code writes to them.
TypeOK ==
    /\ crew \in Crews
    /\ live \in BOOLEAN
    /\ policy \in Policies
    /\ res \in [Keys -> Reservation \cup {None}]
    /\ pubs \in [Keys -> Captures \cup {None}]
    /\ ptrs \in [Ids -> Keys \cup {None}]
    /\ rcpts \in [Keys -> Body \cup {None}]
    /\ vault \in [Ids -> Captures \cup {None}]
    /\ staged \subseteq Captures
    /\ census \in [Listeners -> Counts \cup {None}]
    /\ shelf \in [Listeners -> [Captures -> {"none", "open", "answered"}] \cup {None}]
    /\ at \in [Listeners -> Steps]
    /\ my \in [Listeners -> Request \cup {None}]
    /\ told \subseteq Told
    /\ trimmed \subseteq Keys
    /\ repeats \in 0..MaxRepeats
    /\ changes \in 0..MaxChanges /\ faults \in 0..MaxFaults

\* Whatever is retried, re-stamped, reclaimed, swept or run by two listeners at
\* once, a key makes one memory; only a publication dropped over the cap is
\* forgotten.
OneMemoryPerKey ==
    \A i, j \in Ids :
        /\ vault[i] # None /\ vault[j] # None /\ i # j
        /\ KeyOf[vault[i]] = KeyOf[vault[j]]
        => KeyOf[vault[i]] \in trimmed

\* The promise, read off the vault, the receipt beside each key's record and what
\* the phone was told.
Written(k) == {c \in Captures : KeyOf[c] = k /\ vault[IdOf[c]] = c}
Applied(k) == {b \in told : b.verdict = "applied" /\ KeyOf[b.cap] = k}
Wrote == [k \in Keys |-> IF k \in trimmed \/ Written(k) = {} THEN None
                         ELSE CHOOSE c \in Written(k) : TRUE]
Receipted == [k \in Keys |-> IF k \in trimmed \/ rcpts[k] = None THEN None
                             ELSE IF rcpts[k].verdict = "applied" THEN rcpts[k].id ELSE None]
Heard == [k \in Keys |-> IF k \in trimmed THEN {} ELSE {b.id : b \in Applied(k)}]
Promise == INSTANCE WriteOnce WITH
    Writes <- Captures, kept <- Keys \ trimmed, write <- Wrote, receipt <- Receipted, heard <- Heard

\* Reserving, reclaiming, claiming, linking, writing, answering and repeating,
\* killed anywhere and by two listeners at once, come to one write, one receipt
\* and one answer for a key.
KeepsThePromise == Promise!Spec

\* A capture that reserved its key after the device was revoked writes nothing
\* and stages nothing, however long it had been in the listener.
RevokedWritesNothing ==
    [][\A l \in Listeners : my[l] # None /\ my[l].late =>
         ~ (at[l] \in {"publish", "write"} /\ at'[l] # at[l] /\ <<vault, staged>>' # <<vault, staged>>)]_vars

\* What a rejection says stays true: the capture it rejected is not in the vault.
\* capture.go:445 has it that "a rejected receipt would claim the capture will
\* NEVER be applied".
RejectedIsNotInVault ==
    \A b \in told : b.verdict \in {"policy", "unknown_device"} => vault[IdOf[b.cap]] # b.cap

\* A capture the phone keeps sending is answered, or its device is revoked.
RepeatedIsAnswered ==
    \A c \in Captures : <>(c \in crew.captures => ~ live \/ Answered(c))

=============================================================================
