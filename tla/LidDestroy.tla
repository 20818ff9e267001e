------------------------------ MODULE LidDestroy ------------------------------
(***************************************************************************)
(* Destroy-on-lid-close (core/destroy.go, core/supervisor.go, utils/       *)
(* liddebt.go, cmd/server.go): shutting the lid deletes the server, and a  *)
(* delete that fails becomes a debt that later ticks and wakes try to pay. *)
(*                                                                         *)
(* Three goroutines of the daemon act on it:                               *)
(*   "N"  the power notifications, one at a time: onLidClose before the    *)
(*        machine sleeps, reconcileLidDebt on a full wake;                 *)
(*   "T"  the probe loop, which calls reconcileLidDebt on every tick;      *)
(*   "U"  the goroutine runLinkWatch starts when the uplink comes back.    *)
(* State.LidDestroy is guarded by stateMu one access at a time; lidMu      *)
(* covers a retry from its clamshell read to its end, but neither the      *)
(* read that found something owed nor the deferral of a lid close.         *)
(*                                                                         *)
(* The daemon is armed and not a dry run; the clamshell can be read; every *)
(* server has a local entry and an instance.  People use the machine with  *)
(* the lid open.                                                           *)
(***************************************************************************)
EXTENDS Naturals

CONSTANTS
  Servers,  \* the servers ever deployed: a redeployed one has a new name
  Graces,   \* values of --lid-grace, in minutes; 0 destroys at the lid close
  Floor,    \* wakeRetryFloor, 1 minute
  Answers   \* what becomes of a management call: "ok", "fail", or "lost" after it acted

None == "none"
Threads == {"N", "T", "U"}

ASSUME ServersAssumption == Servers # {} /\ None \notin Servers
ASSUME GracesAssumption == Graces # {} /\ Graces \subseteq Nat
ASSUME FloorAssumption == Floor \in Nat
ASSUME AnswersAssumption == {"ok"} \subseteq Answers /\ Answers \subseteq {"ok", "fail", "lost"}

VARIABLES
  lid,       \* the clamshell
  closeDue,  \* the machine is about to sleep on a shut lid and has not said so yet
  wakeDue,   \* a full wake has not been announced yet
  uplink,    \* a physical interface has an address
  remote,    \* the instances on the account, each of them billing
  entries,   \* servers.json
  active,    \* the entry marked active
  debt,      \* lid-debt.json
  grace,     \* the daemon's --lid-grace
  up,        \* the daemon runs
  named,     \* State.Server, the server it was started with
  life,      \* State.LidDestroy
  since,     \* minutes since State.LidDestroyPendingSince, saturated at the grace
  filed,     \* history: the file took the daemon's last word on what is owed or given up
  attempted, \* minutes since lastLidAttempt, saturated at the floor
  gone,      \* lidDestroyed is closed: the daemon is about to stop
  mu,        \* who holds lidMu
  pc,        \* where each goroutine stands
  held,      \* minutes since the deferral a goroutine has read
  target     \* the entry the delete in flight is for

machine == <<lid, closeDue, wakeDue, uplink>>
account == <<remote, entries, active>>
daemon == <<grace, up, named, gone>>
record == <<life, since, filed>>
vars == <<machine, account, debt, daemon, record, attempted, mu, pc, held, target>>

NoDebt == [server |-> None, state |-> None]
Debt(state) == [server |-> named, state |-> state]

AtMost(n, bound) == IF n < bound THEN n ELSE bound

Init ==
  /\ lid = "open" /\ closeDue = FALSE /\ wakeDue = FALSE /\ uplink = TRUE
  /\ remote = Servers /\ entries = Servers /\ active \in Servers
  /\ debt = NoDebt
  /\ grace \in Graces /\ up = TRUE /\ named = active /\ gone = FALSE
  /\ life = "armed" /\ since = 0 /\ filed = TRUE /\ attempted = Floor
  /\ mu = None /\ pc = [t \in Threads |-> "idle"]
  /\ held = [t \in Threads |-> 0] /\ target = None

Goto(t, l) == pc' = [pc EXCEPT ![t] = l]

----------------------------------------------------------------------------
(* reconcileLidDebt.                                                       *)

\* What a caller finds owed, read before lidMu is tried.
ReadOwed(t) ==
  IF life = "deferred" THEN Goto(t, "held") /\ held' = [held EXCEPT ![t] = since]
  ELSE IF life = "pending" THEN Goto(t, "owed") /\ UNCHANGED held
  ELSE Goto(t, "idle") /\ UNCHANGED held

ProbeTick ==
  /\ up /\ pc["T"] = "idle" /\ life \in {"deferred", "pending"}
  /\ ReadOwed("T")
  /\ UNCHANGED <<machine, account, debt, daemon, record, attempted, mu, target>>

UplinkBack ==
  /\ pc["U"] = "spawned"
  /\ ReadOwed("U")
  /\ UNCHANGED <<machine, account, debt, daemon, record, attempted, mu, target>>

OnPowerWake ==
  /\ up /\ pc["N"] = "idle" /\ wakeDue
  /\ wakeDue' = FALSE
  /\ ReadOwed("N")
  /\ UNCHANGED <<lid, closeDue, uplink, account, debt, daemon, record, attempted, mu, target>>

\* attemptLidDestroy begins: the active server is looked up, the delete goes out.
BeginDestroy(t) ==
  /\ mu' = t
  /\ Goto(t, "destroy")
  /\ target' = active
  /\ attempted' = 0

\* Somebody else is at it, the grace is running, the last attempt is too recent, or
\* there is no link to send it over.
NotNow(t) ==
  /\ pc[t] \in {"held", "owed"}
  /\ \/ mu # None
     \/ lid = "shut" /\ (attempted < Floor \/ ~uplink \/ (pc[t] = "held" /\ held[t] < grace))
  /\ Goto(t, "idle")
  /\ UNCHANGED <<machine, account, debt, daemon, record, attempted, mu, held, target>>

\* A fault: the link is asked for before the lid is.
SeeLidOpenOnline(t) ==
  /\ pc[t] \in {"held", "owed"} /\ mu = None /\ lid = "open" /\ uplink
  /\ mu' = t
  /\ Goto(t, IF pc[t] = "held" THEN "reopen" ELSE "cancel")
  /\ UNCHANGED <<machine, account, debt, daemon, record, attempted, held, target>>

\* lidMu is taken and the lid reads open: the destroy is off, on record next.
SeeLidOpen(t) ==
  /\ pc[t] \in {"held", "owed"} /\ mu = None /\ lid = "open"
  /\ mu' = t
  /\ Goto(t, IF pc[t] = "held" THEN "reopen" ELSE "cancel")
  /\ UNCHANGED <<machine, account, debt, daemon, record, attempted, held, target>>

\* A fault: a retry that does not get lidMu goes on without it.
RetryUnlocked(t) ==
  /\ pc[t] \in {"held", "owed"} /\ lid = "shut"
  /\ attempted >= Floor /\ uplink /\ (pc[t] = "held" => held[t] >= grace)
  /\ BeginDestroy(t)
  /\ UNCHANGED <<machine, account, debt, daemon, record, held>>

\* A fault: what was found owed is destroyed without another look at the lid.
RetryUnseen(t) ==
  /\ pc[t] \in {"held", "owed"} /\ mu = None
  /\ attempted >= Floor /\ uplink /\ (pc[t] = "held" => held[t] >= grace)
  /\ BeginDestroy(t)
  /\ UNCHANGED <<machine, account, debt, daemon, record, held>>

\* Still shut, past the grace and the floor, and there is a link: destroy.
Retry(t) ==
  /\ pc[t] \in {"held", "owed"} /\ mu = None /\ lid = "shut"
  /\ attempted >= Floor /\ uplink /\ (pc[t] = "held" => held[t] >= grace)
  /\ BeginDestroy(t)
  /\ UNCHANGED <<machine, account, debt, daemon, record, held>>

Unlock(t) == mu' = None /\ Goto(t, "idle")

\* persistLidDebtLocked: best effort.  A write that fails leaves the file as it was, and
\* nobody hears of it.
Persist(written) == filed' \in BOOLEAN /\ debt' = IF filed' THEN written ELSE debt

\* ClearLidDebt, whose error every caller drops as well.
ClearLidDebt == debt' \in {NoDebt, debt}

\* recordLidReopened: kept inside the grace, armed again.
RecordLidReopened(t) ==
  /\ pc[t] = "reopen"
  /\ life' = "armed" /\ since' = 0 /\ filed' = TRUE
  /\ Unlock(t)
  /\ UNCHANGED <<machine, account, debt, daemon, attempted, held, target>>

\* recordLidDestroyCancelled: the debt goes on record as no longer pursued.
RecordLidDestroyCancelled(t) ==
  /\ pc[t] = "cancel"
  /\ life' = "cancelled"
  /\ Persist(Debt("cancelled"))
  /\ Unlock(t)
  /\ UNCHANGED <<machine, account, daemon, since, attempted, held, target>>

----------------------------------------------------------------------------
(* attemptLidDestroy, from the management call's answer on.                *)

\* destroyServerWithin after its DELETE: the entry goes, another becomes active.
Forget(s) ==
  /\ entries' = entries \ {s}
  /\ IF active = s
     THEN active' \in (IF entries = {s} THEN {None} ELSE entries \ {s})
     ELSE UNCHANGED active

\* markLidSettled: no server, no bill, no debt; the daemon will stop.
Settle(t) ==
  /\ life' = "fired" /\ since' = 0 /\ filed' = TRUE
  /\ ClearLidDebt
  /\ gone' = TRUE
  /\ Unlock(t)

\* A fault: the debt is mirrored to its file before the state it mirrors is set.
OweStale(t) ==
  /\ life' = "pending" /\ since' = IF life = "pending" THEN since ELSE 0
  /\ Persist(Debt(life))
  /\ Unlock(t)
  /\ UNCHANGED gone

\* recordLidDestroyPending: the first failure is when the debt began.
Owe(t) ==
  /\ life' = "pending" /\ since' = IF life = "pending" THEN since ELSE 0
  /\ Persist(Debt("pending"))
  /\ Unlock(t)
  /\ UNCHANGED gone

\* The instance is deleted, or was gone already, and the answer arrives.
DestroySucceeds(t) ==
  /\ pc[t] = "destroy" /\ target # None
  /\ remote' = remote \ {target}
  /\ Forget(target)
  /\ Settle(t)
  /\ target' = None
  /\ UNCHANGED <<machine, grace, up, named, attempted, held>>

\* The call fails; a lost answer hides a delete that happened.  An entry that was
\* removed meanwhile is not found, and nothing is deleted.
DestroyFails(t, answer) ==
  /\ pc[t] = "destroy" /\ target # None /\ answer # "ok"
  /\ remote' = IF answer = "lost" THEN remote \ {target} ELSE remote
  /\ Owe(t)
  /\ target' = None
  /\ UNCHANGED <<machine, entries, active, grace, up, named, attempted, held>>

\* A fault: no local entry is taken for no instance.
TrustLocal(t, answer) ==
  /\ pc[t] = "destroy" /\ target = None
  /\ Settle(t)
  /\ UNCHANGED <<machine, account, grace, up, named, attempted, held, target>>

\* No local entry: only an account that answers and is empty proves there is nothing to
\* destroy (ErrNothingToDestroy).
NothingLocal(t, answer) ==
  /\ pc[t] = "destroy" /\ target = None
  /\ IF answer = "ok" /\ remote = {} THEN Settle(t) ELSE Owe(t)
  /\ UNCHANGED <<machine, account, grace, up, named, attempted, held, target>>

----------------------------------------------------------------------------
(* onLidClose.                                                             *)

\* With a grace the close is a note, made without lidMu; one already made stands.
DeferLidClose ==
  /\ up /\ pc["N"] = "idle" /\ ~wakeDue /\ lid = "shut" /\ grace > 0
  /\ closeDue' = FALSE
  /\ IF life = "deferred" THEN UNCHANGED record ELSE life' = "deferred" /\ since' = 0 /\ filed' = TRUE
  /\ UNCHANGED <<lid, wakeDue, uplink, account, debt, daemon, attempted, mu, pc, held, target>>

\* Without one it destroys, after whatever retry is in flight.
OnLidClose ==
  /\ up /\ pc["N"] = "idle" /\ ~wakeDue /\ lid = "shut" /\ grace = 0
  /\ closeDue' = FALSE
  /\ Goto("N", "close")
  /\ UNCHANGED <<lid, wakeDue, uplink, account, debt, daemon, record, attempted, mu, held, target>>

\* A fault: the lid close skips when a retry is in flight, as a tick does.
SkipOnClose ==
  /\ pc["N"] = "close"
  /\ IF mu = None THEN BeginDestroy("N")
     ELSE Goto("N", "idle") /\ UNCHANGED <<mu, target, attempted>>
  /\ UNCHANGED <<machine, account, debt, daemon, record, held>>

DestroyOnClose ==
  /\ pc["N"] = "close" /\ mu = None
  /\ BeginDestroy("N")
  /\ UNCHANGED <<machine, account, debt, daemon, record, held>>

----------------------------------------------------------------------------
(* The machine, time and the person.                                       *)

LidShuts ==
  /\ lid = "open"
  /\ lid' = "shut" /\ closeDue' = TRUE
  /\ UNCHANGED <<wakeDue, uplink, account, debt, daemon, record, attempted, mu, pc, held, target>>

\* A machine that slept on the shut lid wakes.
LidOpens ==
  /\ lid = "shut"
  /\ lid' = "open" /\ closeDue' = FALSE /\ wakeDue' = (wakeDue \/ ~closeDue)
  /\ UNCHANGED <<uplink, account, debt, daemon, record, attempted, mu, pc, held, target>>

\* runLinkWatch starts a goroutine at each return of the uplink; one at a time is kept.
UplinkChanges ==
  /\ uplink' = ~uplink
  /\ IF up /\ uplink' /\ pc["U"] = "idle" THEN Goto("U", "spawned") ELSE UNCHANGED pc
  /\ UNCHANGED <<lid, closeDue, wakeDue, account, debt, daemon, record, attempted, mu, held, target>>

\* A minute of wall time, asleep or awake.  A management call is over within it.
Tick ==
  /\ \A t \in Threads : pc[t] # "destroy"
  /\ since' = AtMost(since + 1, grace) /\ UNCHANGED filed
  /\ held' = [t \in Threads |-> AtMost(held[t] + 1, grace)]
  /\ attempted' = AtMost(attempted + 1, Floor)
  /\ UNCHANGED <<machine, account, debt, daemon, life, mu, pc, target>>

\* The daemon stops: on its own once the server is gone, by `mole down`, or with the
\* machine.  What it was doing is lost; a delete on its way may still arrive.
DaemonStops ==
  /\ up
  /\ up' = FALSE
  /\ remote' \in {remote, remote \ {target}}
  /\ mu' = None /\ target' = None
  /\ pc' = [t \in Threads |-> "idle"] /\ held' = [t \in Threads |-> 0]
  /\ UNCHANGED <<machine, entries, active, debt, grace, named, gone, record, attempted>>

\* `mole up`: armed again, whatever the last daemon still owed.
DaemonStarts ==
  /\ ~up /\ lid = "open" /\ active # None
  /\ up' = TRUE /\ named' = active /\ gone' = FALSE
  /\ life' = "armed" /\ since' = 0 /\ filed' = TRUE /\ attempted' = Floor
  /\ wakeDue' = FALSE
  /\ UNCHANGED <<lid, closeDue, uplink, account, debt, grace, mu, pc, held, target>>

\* `mole server use`.
Use(s) ==
  /\ lid = "open" /\ s \in entries \ {active}
  /\ active' = s
  /\ UNCHANGED <<machine, remote, entries, debt, daemon, record, attempted, mu, pc, held, target>>

\* `mole server destroy`: clears the debt that names this server, and no other.  With
\* --force-local the entry goes although the delete failed.
Destroy(s, answer, forced) ==
  /\ lid = "open" /\ s \in entries
  /\ remote' = IF answer = "fail" THEN remote ELSE remote \ {s}
  /\ IF answer = "ok" \/ forced
     THEN Forget(s) /\ (IF debt.server = s THEN ClearLidDebt ELSE UNCHANGED debt)
     ELSE UNCHANGED <<entries, active, debt>>
  /\ UNCHANGED <<machine, daemon, record, attempted, mu, pc, held, target>>

----------------------------------------------------------------------------

Attempt(t) ==
  \/ DestroySucceeds(t)
  \/ \E a \in Answers : DestroyFails(t, a)
  \/ \E a \in Answers : NothingLocal(t, a)

Reconcile(t) ==
  \/ NotNow(t) \/ SeeLidOpen(t) \/ Retry(t)
  \/ RecordLidReopened(t) \/ RecordLidDestroyCancelled(t)
  \/ Attempt(t)

Notifications == OnPowerWake \/ DeferLidClose \/ OnLidClose \/ DestroyOnClose

Person ==
  \/ \E s \in Servers : Use(s) \/ \E a \in Answers, forced \in BOOLEAN : Destroy(s, a, forced)
  \/ DaemonStarts \/ DaemonStops

Next ==
  \/ (\E t \in Threads : Reconcile(t)) \/ ProbeTick \/ UplinkBack \/ Notifications
  \/ LidShuts \/ LidOpens \/ UplinkChanges \/ Tick \/ Person

Spec == Init /\ [][Next]_vars

\* The probe loop ticks, the machine announces that it sleeps or wakes, time passes,
\* and a management call that is tried again and again gets through.
Fairness ==
  /\ WF_vars(ProbeTick) /\ WF_vars(UplinkBack)
  /\ \A t \in Threads : WF_vars(Reconcile(t)) /\ SF_vars(DestroySucceeds(t) \/ NothingLocal(t, "ok"))
  /\ WF_vars(OnPowerWake) /\ WF_vars(DestroyOnClose)
  /\ WF_vars(closeDue /\ (DeferLidClose \/ OnLidClose))
  /\ WF_vars(Tick)

FairSpec == Spec /\ Fairness

----------------------------------------------------------------------------
(* Properties.                                                             *)

Lives == {"armed", "deferred", "pending", "cancelled", "fired"}
Places == {"idle", "spawned", "held", "owed", "reopen", "cancel", "close", "destroy"}
Debts == {NoDebt} \cup [server : Servers \cup {None}, state : {"pending", "cancelled"}]

\* Types of the machine, the account, the two files and the daemon's lid bookkeeping.
TypeOK ==
  /\ lid \in {"open", "shut"} /\ closeDue \in BOOLEAN /\ wakeDue \in BOOLEAN /\ uplink \in BOOLEAN
  /\ remote \subseteq Servers /\ entries \subseteq Servers
  /\ active \in entries \/ (active = None /\ entries = {})
  /\ debt \in Debts
  /\ grace \in Graces /\ up \in BOOLEAN /\ named \in Servers /\ gone \in BOOLEAN
  /\ life \in Lives /\ since \in 0..grace /\ filed \in BOOLEAN /\ attempted \in 0..Floor
  /\ mu \in Threads \cup {None} /\ pc \in [Threads -> Places]
  /\ held \in [Threads -> 0..grace] /\ target \in Servers \cup {None}

\* lidMu: one goroutine at a time acts on what is owed, and a delete is in flight only
\* under it (reconcileLidDebt, onLidClose).
Locked == \A t \in Threads : pc[t] \in {"reopen", "cancel", "destroy"} <=> mu = t

\* The inductive invariant: types, the lock, and a target only while a delete is in flight
\* (attemptLidDestroy).
IInv == TypeOK /\ Locked /\ (target # None => \E t \in Threads : pc[t] = "destroy")

\* The file that outlives the daemon says of an owed or abandoned destroy what the daemon
\* says, once it took the daemon's last word: no restart under another server's name, no
\* `mole server use`, no destroy of another server and no stale state of the retries comes
\* between, until a person destroys the server it names.  The record is best effort
\* (persistLidDebtLocked drops the error of its write), so a daemon that is killed after a
\* write that failed leaves what the file said before, possibly nothing
\* (recordLidDestroyPending, recordLidDestroyCancelled, destroyServerWithin).
OwedIsOnRecord ==
  life \in {"pending", "cancelled"} /\ filed => debt = Debt(life) \/ named \notin entries

\* The daemon settles, clears the debt and shuts down only on proof: the instance its
\* delete was for is gone, or, with no local entry to go by, the account is empty
\* (ErrNothingToDestroy, destroyActiveServerWithin).
SettledIsProven ==
  [][~gone /\ gone' => IF target = None THEN remote' = {} ELSE target \notin remote']_vars

\* Nothing is owed, and no lid close and no delete is on its way.
NothingUnderWay ==
  life \notin {"deferred", "pending"} /\ \A t \in Threads : pc[t] \notin {"close", "destroy"}

\* Once it has come to rest under an open lid it stays at rest until the lid shuts, whatever
\* a tick, a wake or a returning uplink has read before and only now acts on, and across a
\* restart of the daemon: nobody's server goes while they use it (reconcileLidDebt reads the
\* clamshell again under lidMu).
OpenLidIsSafe ==
  [][lid = "open" /\ lid' = "open" /\ NothingUnderWay => NothingUnderWay']_vars

\* As long as the lid stays shut on a daemon without a grace, its close is on the way to an
\* end: not announced yet, waiting for lidMu, at the provider, settled, or owed with nobody
\* about to take it back; no retry or cancellation that was under way when it shut swallows
\* it (onLidClose, reconcileLidDebt).
CloseStands ==
  lid = "shut" /\ up /\ grace = 0 =>
    \/ closeDue \/ pc["N"] = "close" \/ gone
    \/ \E t \in Threads : pc[t] = "destroy"
    \/ life = "pending" /\ \A t \in Threads : pc[t] \notin {"reopen", "cancel"}

\* A lid close is never lost without a grace: if the lid stays shut, the link stays up and
\* no instance is orphaned, the server is destroyed in the end, whatever retry, wake or
\* cancellation was under way when it shut (onLidClose waits for lidMu, reconcileLidDebt).
LidCloseIsAnswered ==
  <>[](lid = "shut" /\ up /\ uplink /\ remote \subseteq entries /\ grace = 0) => <>gone

\* A lid that stays open ends it: no delete is in flight for good and nothing is held or
\* owed any more, with or without a link (reconcileLidDebt's clamshell read).
OpenLidEndsIt ==
  <>[](lid = "open") =>
    <>[](up => life \notin {"deferred", "pending"} /\ \A t \in Threads : pc[t] # "destroy")

\* utils/liddebt.go: "Call it only when the server it names is actually gone - a destroy
\* that succeeded, or a `mole server destroy` that removed the same entry".
DebtClearedOnlyWhenGone ==
  [][debt # NoDebt /\ debt' = NoDebt => debt.server \notin remote' \/ debt.server \notin entries']_vars

=============================================================================
