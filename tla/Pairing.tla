------------------------------- MODULE Pairing -------------------------------
(***************************************************************************)
(* The companion's device registry and the route that confirms a pairing.  *)
(*                                                                         *)
(* `mora companion pair` registers a device under a one-time code and      *)
(* `revoke` ends it; a listener's confirmation route spends the code or    *)
(* counts a wrong one.  A change of the registry is read, made and written *)
(* under the lock beside it, so it is one step; what a route decided from  *)
(* one step may be stale at the next.  The confirmation route has one slot.*)
(*                                                                         *)
(* A write that fails may have renamed its file into place all the same.   *)
(* Codes and tokens are what they open: a guess is right or wrong, and a   *)
(* token is its device's.                                                  *)
(***************************************************************************)
EXTENDS Companion, Naturals, FiniteSets

CONSTANTS
    Devices,     \* bound: device ids
    Clis,        \* invocations of `mora companion pair`
    MaxAttempts, \* MaxPairingAttempts
    MaxDevices

DeviceRecord == [state: {"pending", "active", "revoked"}, code: BOOLEAN, late: BOOLEAN, attempts: Nat]
Guess == [device: Devices, right: BOOLEAN]

ASSUME PairingAssumption ==
    /\ None \notin Devices \cup Clis \cup DeviceRecord \cup Guess
    /\ MaxAttempts \in Nat \ {0} /\ MaxDevices \in Nat /\ MaxFaults \in Nat
    /\ IsFiniteSet(Devices)

VARIABLES
    reg,     \* devices.json
    audit,   \* the receipts directory
    seed,    \* host.key: who generated it
    pins,    \* the host fingerprint each phone was shown
    marks,   \* unrecorded-failures: devices that owe a count
    latch,   \* each listener's memory of the same
    step,    \* what each listener's confirmation is about to do
    req,     \* the confirmation each listener is serving
    cli,     \* the pairing each invocation is making
    held,    \* history: phones that were handed a token
    minted,  \* history: tokens minted for each device
    tries,   \* history: wrong codes compared for each device
    lost,    \* history: of those, the ones a crash forgot
    trouble

pairingVars == <<reg, audit, seed, pins, marks, latch, step, req, cli, held, minted, tries, lost, trouble>>
pairingHistory == <<held, minted, tries, lost>>
routes == <<latch, step, req>>

Audit == {"paired", "confirmed", "expired", "revoked"} \X Devices
RouteSteps == {"down", "idle", "budget", "retry", "clear", "clear spent", "confirm", "count", "mark", "revoke", "grant"}

\* MUTANT of Live: a burned code is not looked at.
LiveIfPending(d) == reg[d] # None /\ reg[d].state = "pending"

\* A pairing that can still be confirmed.
Live(d) == reg[d] # None /\ reg[d].state = "pending" /\ reg[d].code
Paired == {d \in Devices : reg[d] # None}

InitPairing ==
    /\ reg = [d \in Devices |-> None]
    /\ audit = {}
    /\ seed = None
    /\ pins = [d \in Devices |-> None]
    /\ marks = {}
    /\ latch = [l \in Listeners |-> {}]
    /\ step = [l \in Listeners |-> "down"]
    /\ req = [l \in Listeners |-> None]
    /\ cli = [c \in Clis |-> None]
    /\ held = {}
    /\ minted = [d \in Devices |-> 0]
    /\ tries = [d \in Devices |-> 0]
    /\ lost = [d \in Devices |-> 0]
    /\ trouble = 0

-----------------------------------------------------------------------------
(* The registry.                                                            *)

\* MUTANT of Commit: the audit row first, the record file second.
CommitAuditFirst(d, record, event) ==
    /\ audit' = audit \cup {<<event, d>>}
    /\ \/ reg' = [reg EXCEPT ![d] = record] /\ UNCHANGED trouble
       \/ trouble < MaxFaults /\ trouble' = trouble + 1 /\ UNCHANGED reg

\* mutate: the record file commits first; the audit row follows, or is lost.
Commit(d, record, event) ==
    /\ reg' = [reg EXCEPT ![d] = record]
    /\ \/ audit' = audit \cup {<<event, d>>} /\ UNCHANGED trouble
       \/ trouble < MaxFaults /\ trouble' = trouble + 1 /\ UNCHANGED audit

\* An error: the lock, the read or the write failed, or the file was renamed
\* into place and its directory could not be synced.
CommitFails(d, record) ==
    /\ trouble < MaxFaults
    /\ trouble' = trouble + 1
    /\ reg' \in {reg, [reg EXCEPT ![d] = record]}
    /\ UNCHANGED audit

\* mutate: the change is none, or it cannot be made.
Unchanged == UNCHANGED <<reg, audit, trouble>>

Revoked(d) == [reg[d] EXCEPT !.state = "revoked", !.code = FALSE]

RevokeCommit(d) ==
    IF reg[d] = None \/ reg[d].state = "revoked" THEN Unchanged
    ELSE Commit(d, Revoked(d), "revoked") \/ CommitFails(d, Revoked(d))

\* RecordPairingFailure counts for a pairing that is still open, and only then.
OneMoreFailure(d) == IF Live(d) THEN [reg[d] EXCEPT !.attempts = @ + 1] ELSE reg[d]

\* The total it returns: none when it counted nothing.
NewTotal(d) == IF Live(d) THEN OneMoreFailure(d).attempts ELSE 0

-----------------------------------------------------------------------------
(* mora companion pair, mora companion revoke.                              *)

\* Pair mints an id and looks for the host's seed, without the lock.
PairBegin(c, d) ==
    /\ cli[c] = None /\ reg[d] = None
    /\ cli' = [cli EXCEPT ![c] = [device |-> d, pin |-> seed]]
    /\ UNCHANGED <<reg, audit, seed, pins, marks, routes, pairingHistory, trouble>>

\* MUTANT of PairSeed: generated without looking again.
PairSeedBlind(c) ==
    /\ cli[c] # None /\ cli[c].pin = None
    /\ seed' = c
    /\ cli' = [cli EXCEPT ![c].pin = c]
    /\ UNCHANGED <<reg, audit, pins, marks, routes, pairingHistory, trouble>>

\* HostFingerprint, under the lock: read again, and only then generate.
PairSeed(c) ==
    /\ cli[c] # None /\ cli[c].pin = None
    /\ LET found == IF seed = None THEN c ELSE seed
       IN  \/ /\ seed' = found
              /\ cli' = [cli EXCEPT ![c].pin = found]
              /\ UNCHANGED trouble
           \/ /\ trouble < MaxFaults /\ trouble' = trouble + 1
              /\ seed' \in {seed, found}
              /\ cli' = [cli EXCEPT ![c] = None]
    /\ UNCHANGED <<reg, audit, pins, marks, routes, pairingHistory>>

\* The registration: refused for an id in use or a registry at its limit.  The
\* phone is shown the code and the host's fingerprint.
PairCommit(c) ==
    LET d == cli[c].device
        record == [state |-> "pending", code |-> TRUE, late |-> FALSE, attempts |-> 0]
        room == reg[d] = None /\ Cardinality(Paired) < MaxDevices
    IN
    /\ cli[c] # None /\ cli[c].pin # None
    /\ \/ room /\ Commit(d, record, "paired") /\ pins' = [pins EXCEPT ![d] = cli[c].pin]
       \/ room /\ CommitFails(d, record) /\ UNCHANGED pins
       \/ ~ room /\ Unchanged /\ UNCHANGED pins
    /\ cli' = [cli EXCEPT ![c] = None]
    /\ UNCHANGED <<seed, marks, routes, pairingHistory>>

RevokeByHand(d) ==
    /\ reg[d] # None /\ reg[d].state # "revoked"
    /\ RevokeCommit(d)
    /\ UNCHANGED <<seed, pins, marks, routes, cli, pairingHistory>>

\* The clock passes the pairing's deadline, or is set back before it.
Lapse(d) ==
    /\ reg[d] # None /\ reg[d].state = "pending"
    /\ reg' = [reg EXCEPT ![d].late = ~ @]
    /\ UNCHANGED <<audit, seed, pins, marks, routes, cli, pairingHistory, trouble>>

-----------------------------------------------------------------------------
(* POST confirm.                                                            *)

RouteGoto(l, s) == step' = [step EXCEPT ![l] = s] /\ UNCHANGED req
Refused(l) ==
    /\ step' = [step EXCEPT ![l] = "idle"]
    /\ req' = [req EXCEPT ![l] = None]

RouteStart(l) ==
    /\ step[l] = "down"
    /\ RouteGoto(l, "idle")
    /\ UNCHANGED <<reg, audit, seed, pins, marks, latch, cli, pairingHistory, trouble>>

\* A listener that dies forgets its latch, and a count it was about to write.
RouteCrash(l) ==
    /\ step[l] # "down" /\ trouble < MaxFaults
    /\ trouble' = trouble + 1
    /\ step' = [step EXCEPT ![l] = "down"]
    /\ req' = [req EXCEPT ![l] = None]
    /\ lost' = [d \in Devices |->
         IF d \in latch[l] \ marks \/ (step[l] \in {"count", "mark"} /\ req[l].device = d)
         THEN lost[d] + 1 ELSE lost[d]]
    /\ latch' = [latch EXCEPT ![l] = {}]
    /\ UNCHANGED <<reg, audit, seed, pins, marks, cli, held, minted, tries>>

\* The slot, the body: a code for a device, right or wrong.  A phone knows the
\* code it was shown.
Ask(l, d, right) ==
    /\ step[l] = "idle" /\ (right => pins[d] # None)
    /\ req' = [req EXCEPT ![l] = [device |-> d, right |-> right]]
    /\ step' = [step EXCEPT ![l] = "budget"]
    /\ UNCHANGED <<reg, audit, seed, pins, marks, latch, cli, pairingHistory, trouble>>

\* MUTANT of Budget: an owed count is remembered in memory only.
BudgetInMemory(l) ==
    LET d == req[l].device
        spent == reg[d] # None /\ reg[d].attempts >= MaxAttempts
    IN
    /\ step[l] = "budget"
    /\ \/ d \in latch[l] /\ RouteGoto(l, "retry")
       \/ d \notin latch[l] /\ spent /\ Live(d) /\ RouteGoto(l, "revoke")
       \/ d \notin latch[l] /\ spent /\ ~ Live(d) /\ Refused(l)
       \/ d \notin latch[l] /\ ~ spent /\ RouteGoto(l, "confirm")
    /\ UNCHANGED <<reg, audit, seed, pins, marks, latch, cli, pairingHistory, trouble>>

\* MUTANT of Budget: one guess too many.
BudgetOneOver(l) ==
    LET d == req[l].device
        owed == d \in marks \/ d \in latch[l]
        spent == reg[d] # None /\ reg[d].attempts > MaxAttempts
    IN
    /\ step[l] = "budget"
    /\ \/ owed /\ RouteGoto(l, "retry")
       \/ ~ owed /\ spent /\ Live(d) /\ RouteGoto(l, "revoke")
       \/ ~ owed /\ spent /\ ~ Live(d) /\ Refused(l)
       \/ ~ owed /\ ~ spent /\ RouteGoto(l, "confirm")
    /\ UNCHANGED <<reg, audit, seed, pins, marks, latch, cli, pairingHistory, trouble>>

\* MUTANT of Budget: a spent budget is refused, the revocation left as it went.
BudgetRefuses(l) ==
    LET d == req[l].device
        owed == d \in marks \/ d \in latch[l]
        spent == reg[d] # None /\ reg[d].attempts >= MaxAttempts
    IN
    /\ step[l] = "budget"
    /\ \/ owed /\ RouteGoto(l, "retry")
       \/ ~ owed /\ spent /\ Refused(l)
       \/ ~ owed /\ ~ spent /\ RouteGoto(l, "confirm")
    /\ UNCHANGED <<reg, audit, seed, pins, marks, latch, cli, pairingHistory, trouble>>

\* PairingBudget, read without the lock, before the guess is tried: a count that
\* is owed is paid first, a spent pairing is revoked, and both are refused, as
\* is everybody when the budget cannot be read.
Budget(l) ==
    LET d == req[l].device
        owed == d \in marks \/ d \in latch[l]
        spent == reg[d] # None /\ reg[d].attempts >= MaxAttempts
    IN
    /\ step[l] = "budget"
    /\ \/ owed /\ RouteGoto(l, "retry")
       \/ ~ owed /\ spent /\ Live(d) /\ RouteGoto(l, "revoke")
       \/ ~ owed /\ spent /\ ~ Live(d) /\ Refused(l)
       \/ ~ owed /\ ~ spent /\ RouteGoto(l, "confirm")
    /\ UNCHANGED <<reg, audit, seed, pins, marks, latch, cli, pairingHistory, trouble>>

\* retryOwedFailure: the count that is owed ...
Retry(l) ==
    LET d == req[l].device IN
    /\ step[l] = "retry"
    /\ \/ /\ reg' = [reg EXCEPT ![d] = OneMoreFailure(d)]
          /\ RouteGoto(l, IF NewTotal(d) >= MaxAttempts THEN "clear spent" ELSE "clear")
          /\ UNCHANGED <<audit, trouble>>
       \/ CommitFails(d, OneMoreFailure(d)) /\ Refused(l)
    /\ UNCHANGED <<seed, pins, marks, latch, cli, pairingHistory>>

\* ... then the mark, then the latch: only what was really cleared is forgotten.
Clear(l) ==
    LET d == req[l].device IN
    /\ step[l] \in {"clear", "clear spent"}
    /\ \/ /\ marks' = marks \ {d}
          /\ latch' = [latch EXCEPT ![l] = @ \ {d}]
          /\ IF step[l] = "clear spent" THEN RouteGoto(l, "revoke") ELSE Refused(l)
          /\ UNCHANGED trouble
       \/ /\ trouble < MaxFaults /\ trouble' = trouble + 1
          /\ Refused(l)
          /\ UNCHANGED <<marks, latch>>
    /\ UNCHANGED <<reg, audit, seed, pins, cli, pairingHistory>>

\* Confirm compares first and looks at the deadline second: a wrong code changes
\* nothing, a late one is burned, a right one makes the device active.  The
\* only copy of the token goes back unless the write failed.
Confirm(l) ==
    LET d == req[l].device
        burned == [reg[d] EXCEPT !.code = FALSE]
        active == [reg[d] EXCEPT !.state = "active", !.code = FALSE]
        opens == Live(d) /\ req[l].right
    IN
    /\ step[l] = "confirm"
    /\ \/ ~ Live(d) /\ Unchanged /\ Refused(l) /\ UNCHANGED <<minted, tries>>
       \/ /\ Live(d) /\ ~ req[l].right
          /\ tries' = [tries EXCEPT ![d] = @ + 1]
          /\ Unchanged /\ RouteGoto(l, "count") /\ UNCHANGED minted
       \/ /\ opens /\ reg[d].late
          /\ Commit(d, burned, "expired") \/ CommitFails(d, burned)
          /\ Refused(l) /\ UNCHANGED <<minted, tries>>
       \/ /\ opens /\ ~ reg[d].late
          /\ Commit(d, active, "confirmed")
          /\ minted' = [minted EXCEPT ![d] = @ + 1]
          /\ RouteGoto(l, "grant") /\ UNCHANGED tries
       \/ /\ opens /\ ~ reg[d].late
          /\ CommitFails(d, active)
          /\ Refused(l) /\ UNCHANGED <<minted, tries>>
    /\ UNCHANGED <<seed, pins, marks, latch, cli, held, lost>>

\* A wrong code is counted, and a spent budget ends the pairing.
Count(l) ==
    LET d == req[l].device IN
    /\ step[l] = "count"
    /\ \/ /\ reg' = [reg EXCEPT ![d] = OneMoreFailure(d)]
          /\ IF NewTotal(d) >= MaxAttempts THEN RouteGoto(l, "revoke") ELSE Refused(l)
          /\ UNCHANGED <<audit, trouble>>
       \/ CommitFails(d, OneMoreFailure(d)) /\ RouteGoto(l, "mark")
    /\ UNCHANGED <<seed, pins, marks, latch, cli, pairingHistory>>

\* A count that could not be written is written down and remembered.
Mark(l) ==
    LET d == req[l].device IN
    /\ step[l] = "mark"
    /\ \/ marks' = marks \cup {d} /\ UNCHANGED trouble
       \/ trouble < MaxFaults /\ trouble' = trouble + 1 /\ UNCHANGED marks
    /\ latch' = [latch EXCEPT ![l] = @ \cup {d}]
    /\ Refused(l)
    /\ UNCHANGED <<reg, audit, seed, pins, cli, pairingHistory>>

RevokeSpent(l) ==
    /\ step[l] = "revoke"
    /\ RevokeCommit(req[l].device)
    /\ Refused(l)
    /\ UNCHANGED <<seed, pins, marks, latch, cli, pairingHistory>>

\* The grant reaches the phone, or the connection is gone.
Grant(l) ==
    /\ step[l] = "grant"
    /\ held' \in {held, held \cup {req[l].device}}
    /\ Refused(l)
    /\ UNCHANGED <<reg, audit, seed, pins, marks, latch, cli, minted, tries, lost, trouble>>

Route(l) ==
    \/ Budget(l) \/ Retry(l) \/ Clear(l) \/ Confirm(l)
    \/ Count(l) \/ Mark(l) \/ RevokeSpent(l) \/ Grant(l)

PairNext ==
    \/ \E c \in Clis : PairSeed(c) \/ PairCommit(c) \/ \E d \in Devices : PairBegin(c, d)
    \/ \E d \in Devices : RevokeByHand(d) \/ Lapse(d)
    \/ \E l \in Listeners :
         \/ RouteStart(l) \/ RouteCrash(l) \/ Route(l)
         \/ \E d \in Devices, right \in BOOLEAN : Ask(l, d, right)

PairingSpec == InitPairing /\ [][PairNext]_pairingVars

\* A listener is kept running and finishes what it serves, and somebody keeps
\* guessing at a device.
PairingFairness ==
    /\ \A l \in Listeners : WF_pairingVars(RouteStart(l)) /\ WF_pairingVars(Route(l))
    /\ \A d \in Devices : SF_pairingVars(\E l \in Listeners : Ask(l, d, FALSE))

PairingFairSpec == PairingSpec /\ PairingFairness

-----------------------------------------------------------------------------

\* Every file, history and route keeps its type.
PairingTypeOK ==
    /\ reg \in [Devices -> DeviceRecord \cup {None}]
    /\ audit \subseteq Audit
    /\ seed \in Clis \cup {None}
    /\ pins \in [Devices -> Clis \cup {None}]
    /\ marks \subseteq Devices
    /\ latch \in [Listeners -> SUBSET Devices]
    /\ step \in [Listeners -> RouteSteps]
    /\ req \in [Listeners -> Guess \cup {None}]
    /\ cli \in [Clis -> [device: Devices, pin: Clis \cup {None}] \cup {None}]
    /\ held \subseteq Devices
    /\ minted \in [Devices -> Nat] /\ tries \in [Devices -> Nat] /\ lost \in [Devices -> Nat]
    /\ trouble \in 0..MaxFaults

\* A pairing mints one token, however its confirmation is repeated, and a phone
\* that holds one was shown the fingerprint of the host it talks to.
OneCredential ==
    /\ \A d \in Devices : minted[d] <= 1
    /\ \A d \in held : minted[d] = 1 /\ pins[d] = seed

\* An audit row never asserts what the record file does not hold: a confirmed
\* device was made active, a burned code opens nothing again, a revoked device
\* stays revoked.
AuditIsTrue ==
    \A d \in Devices :
        /\ <<"confirmed", d>> \in audit => minted[d] = 1
        /\ <<"expired", d>> \in audit => minted[d] = 0 /\ ~ Live(d)
        /\ <<"revoked", d>> \in audit => reg[d].state = "revoked"

OneListener == \A l, k \in Listeners : l = k

\* However guesses, failing writes, restarts and retries interleave, one listener
\* compares no more wrong codes for a pairing than the budget allows: only one
\* it died on before anything could be written down goes uncounted.
BudgetHolds ==
    OneListener => \A d \in Devices : tries[d] <= MaxAttempts + lost[d]

\* Whatever a route or an invocation decided from an earlier state of the
\* registry, a device that was revoked is never touched again, one that is active
\* only gets revoked, a burned code never comes back, and a device only becomes
\* active from a pairing whose code was neither burned nor seen to be late and,
\* where one listener serves the directory, whose budget of guesses is not spent.
SettledStaysSettled ==
    [][\A d \in Devices : reg[d] # None /\ reg[d] # reg'[d] =>
         /\ reg'[d] # None /\ reg[d].state # "revoked"
         /\ reg[d].state = "active" => reg'[d].state = "revoked"
         /\ reg'[d].code => reg[d].code
         /\ reg'[d].state = "active" =>
               /\ reg[d].code /\ ~ reg[d].late
               /\ OneListener => reg[d].attempts < MaxAttempts]_pairingVars

\* A pairing whose budget is spent is ended as long as somebody keeps guessing,
\* though a revocation fails.
SpentIsRevoked ==
    \A d \in Devices :
        (Live(d) /\ reg[d].attempts >= MaxAttempts) ~> ~ Live(d)

=============================================================================
