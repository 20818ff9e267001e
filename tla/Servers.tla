------------------------------- MODULE Servers -------------------------------
(***************************************************************************)
(* servers.json, the deployment receipts and the account they are about,   *)
(* with every `mole server` command that changes them (cmd/server.go,      *)
(* server_store.go, deploy_vultr.go, deploy_record.go, verify_server.go,   *)
(* repair.go) and the recovery of `mole up` (up.go).  Commands run in      *)
(* processes of their own.  Each reads the file without a lock, talks to   *)
(* the provider for as long as that takes, and changes the file under its  *)
(* lock, from a copy read under that lock.  Any of them may be killed at   *)
(* any point, or fail at any call.                                         *)
(*                                                                         *)
(* A deployment and the one instance it may create share an identity.  The *)
(* order of the file is left out: it decides only which of several servers *)
(* inherits the active mark, and here any of them may.                     *)
(***************************************************************************)
EXTENDS FiniteSets, Integers

CONSTANTS
  Procs,    \* processes that may run a command
  Deploys,  \* deployments that may be started, and so instances
  Names,    \* what people call a server, deployed, imported or adopted
  Commands, \* the commands people use
  None

ASSUME NoneAssumption == None \notin Procs \cup Deploys

VARIABLES
  store,   \* the entries of servers.json
  lock,    \* who holds servers.json.lock
  account, \* what the provider has: an instance per deployment
  stage,   \* the stage in each deployment's receipt.json
  run,     \* what each process is doing
  dropped  \* history: instances whose entry a careless removal took

vars == <<store, lock, account, stage, run, dropped>>

(* An entry.  "stands" is the instance its owner added it for, which the   *)
(* program does not store; "id" is the one it does.                        *)
Entries == [name : Names, id : Deploys \cup {None}, stands : Deploys \cup {None},
            addr : BOOLEAN, stopped : BOOLEAN, verified : BOOLEAN, active : BOOLEAN]

Entry(n, i, s, a) == [name |-> n, id |-> i, stands |-> s, addr |-> a,
                      stopped |-> FALSE, verified |-> FALSE, active |-> FALSE]

NoEntry == Entry(None, None, None, FALSE)

(* What a command keeps of the entry it found. *)
Ref(e) == Entry(e.name, e.id, e.stands, FALSE)

(* The stages of a receipt.  "preparing" is every stage before the         *)
(* instance is asked for, "recorded" every one that waits for an address,  *)
(* verifies, or gives the verdict on an instance that has its entry.       *)
Stages == {"none", "preparing", "creating_instance", "instance_creation_unconfirmed",
           "created", "local_record_failed", "recorded", "destroying_after_interrupt",
           "cleanup_pending", "deleted_local_cleanup_pending", "destroyed"}

Changes == {"append", "address", "verified", "remove", "stopped", "started",
            "repaired", "use", "fill"}

(* A process: its command, where it is, the deployment it runs, the copy   *)
(* of the entry it acts on, the change it is about to make, the copy of    *)
(* the file it read under the lock, and what else it carries.              *)
Idle == [cmd |-> "none", at |-> "idle", deploy |-> None, target |-> NoEntry,
         change |-> "use", read |-> {}, seen |-> {}, force |-> FALSE, intr |-> FALSE]

Ids(file) == {e.id : e \in file} \ {None}
Billing == {d \in Deploys : account[d] \in {"on", "halted"}}
Called(n) == {e \in store : e.name = n}

Go(p, r) == run' = [run EXCEPT ![p] = r]
To(p, place) == Go(p, [run[p] EXCEPT !.at = place])
Want(p, c, t) == Go(p, [run[p] EXCEPT !.at = "want", !.change = c, !.target = t])
Stage(p, s) == stage' = [stage EXCEPT ![run[p].deploy] = s]
-----------------------------------------------------------------------------
(* The file and its lock.                                                  *)

(* The entries a change of a server may hit. *)
Meant(file, t) ==
    {e \in file : IF t.id # None THEN e.id = t.id ELSE e.name = t.name}

Patched(c, e) ==
    CASE c = "address"  -> [e EXCEPT !.addr = TRUE]
      [] c = "verified" -> [e EXCEPT !.addr = TRUE, !.verified = TRUE]
      [] c = "stopped"  -> [e EXCEPT !.stopped = TRUE, !.verified = FALSE]
      [] c = "started"  -> [e EXCEPT !.stopped = FALSE, !.verified = FALSE]
      [] c = "repaired" -> [e EXCEPT !.verified = FALSE]
      [] OTHER          -> e

(* A fault: the file is not searched for the name and the instance again.  *)
AppendUnchecked(file, t) == {file \cup {[t EXCEPT !.active = (file = {})]}}

AppendServer(file, t) ==
    IF \E e \in file : e.name = t.name \/ (t.id # None /\ e.id = t.id)
    THEN {}
    ELSE {file \cup {[t EXCEPT !.active = (file = {})]}}

ChangeServer(file, c, t) ==
    {(file \ {e}) \cup {Patched(c, e)} : e \in Meant(file, t)}

Inherited(left) ==
    IF left = {} THEN {left}
    ELSE {(left \ {h}) \cup {[h EXCEPT !.active = TRUE]} : h \in left}

RemoveServer(file, t) ==
    IF Meant(file, t) = {} THEN {file}
    ELSE UNION {IF e.active THEN Inherited(file \ {e}) ELSE {file \ {e}} : e \in Meant(file, t)}

UseServer(file, t) ==
    IF \E e \in file : e.name = t.name
    THEN {{[e EXCEPT !.active = (e.name = t.name)] : e \in file}}
    ELSE {}

(* fillAddresses: the entries without an address whose instance has one. *)
FillAddresses(file, assigned) ==
    {{IF e.id \in assigned /\ ~e.addr THEN [e EXCEPT !.addr = TRUE] ELSE e : e \in file}}

(* What the caller's function may make of the file; nothing when it        *)
(* returns an error.                                                       *)
Outcomes(r, file) ==
    CASE r.change = "append" -> AppendServer(file, r.target)
      [] r.change = "remove" -> RemoveServer(file, r.target)
      [] r.change = "use"    -> UseServer(file, r.target)
      [] r.change = "fill"   -> FillAddresses(file, r.seen)
      [] OTHER               -> ChangeServer(file, r.change, r.target)

(* A fault: the lock file is opened, and the lock not waited for. *)
LockBlindly(p) ==
    /\ run[p].at = "want"
    /\ lock' = p
    /\ Go(p, [run[p] EXCEPT !.at = "locked", !.read = store])
    /\ UNCHANGED <<store, account, stage, dropped>>

(* flock without blocking until it is free, and then the read. *)
Lock(p) ==
    /\ run[p].at = "want"
    /\ lock = None
    /\ lock' = p
    /\ Go(p, [run[p] EXCEPT !.at = "locked", !.read = store])
    /\ UNCHANGED <<store, account, stage, dropped>>

(* The change is over, "stored" or "refused": only a deployment and a      *)
(* verification have more to do.                                           *)
Over(p, how) ==
    Go(p, IF run[p].cmd \in {"deploy", "verify"}
          THEN [run[p] EXCEPT !.at = how, !.read = {}]
          ELSE Idle)

(* A removal that nobody asked the provider about: with --force-local, or  *)
(* by the name of an entry that had no instance when the command looked.   *)
(* By now the name may be another entry's (removeRecordedServer("", name)).*)
Careless(r) == r.force \/ (r.change = "remove" /\ r.target.id = None)

(* Five seconds are over, or the lock file cannot be opened. *)
LockFails(p) ==
    /\ run[p].at = "want"
    /\ Over(p, "refused")
    /\ UNCHANGED <<store, lock, account, stage, dropped>>

(* The new file is renamed over the old one, and the lock released. *)
Write(p) ==
    /\ run[p].at = "locked"
    /\ store' \in Outcomes(run[p], run[p].read)
    /\ lock' = None
    /\ Over(p, "stored")
    /\ dropped' = IF Careless(run[p]) THEN dropped \cup (Ids(store) \ Ids(store')) ELSE dropped
    /\ UNCHANGED <<account, stage>>

(* The function returns an error, or the disk is full. *)
WriteFails(p) ==
    /\ run[p].at = "locked"
    /\ lock' = None
    /\ Over(p, "refused")
    /\ UNCHANGED <<store, account, stage, dropped>>
-----------------------------------------------------------------------------
(* `mole server deploy`.                                                   *)

Begin(p, c, r) == run[p] = Idle /\ c \in Commands /\ Go(p, [r EXCEPT !.cmd = c])
End(p) == Go(p, Idle)

StartDeploy(p, d, n) ==
    /\ stage[d] = "none"
    /\ Called(n) = {}
    /\ Begin(p, "deploy", [Idle EXCEPT !.at = "script", !.deploy = d,
                                      !.target = Entry(n, None, d, FALSE)])
    /\ stage' = [stage EXCEPT ![d] = "preparing"]
    /\ UNCHANGED <<store, lock, account, dropped>>

(* The boot script is created, after a complete lookup if need be, and the *)
(* firewall group prepared; failing at the latter only warns.              *)
CreateStartupScript(p) ==
    /\ run[p].at = "script"
    /\ To(p, "wind") \/ To(p, "order")
    /\ UNCHANGED <<store, lock, account, stage, dropped>>

(* The last look at the context before anything can bill. *)
Order(p) ==
    /\ run[p].at = "order"
    /\ IF run[p].intr
       THEN To(p, "wind") /\ UNCHANGED stage
       ELSE To(p, "post") /\ Stage(p, "creating_instance")
    /\ UNCHANGED <<store, lock, account, dropped>>

(* One POST, never repeated.  Its answer may be lost. *)
CreateInstance(p) ==
    /\ run[p].at = "post"
    /\ \/ /\ account' = [account EXCEPT ![run[p].deploy] = "on"]
          /\ Go(p, [run[p] EXCEPT !.at = "created", !.target.id = run[p].deploy])
          /\ UNCHANGED stage
       \/ /\ account' \in {account, [account EXCEPT ![run[p].deploy] = "on"]}
          /\ Stage(p, "instance_creation_unconfirmed")
          /\ To(p, "wind")
    /\ UNCHANGED <<store, lock, dropped>>

Created(p) ==
    /\ run[p].at = "created"
    /\ \/ Stage(p, "created") /\ Want(p, "append", run[p].target)
       \/ UNCHANGED stage /\ To(p, "wind")
    /\ UNCHANGED <<store, lock, account, dropped>>

(* finishDeploy after appendServer. *)
Recorded(p) ==
    /\ run[p].cmd = "deploy" /\ run[p].change = "append"
    /\ \/ run[p].at = "stored" /\ Stage(p, "recorded") /\ To(p, "address")
       \/ run[p].at = "refused" /\ Stage(p, "local_record_failed") /\ To(p, "wind")
    /\ UNCHANGED <<store, lock, account, dropped>>

(* waitForIP, for a deployment and for `mole server verify`. *)
WaitForIP(p) ==
    /\ run[p].at = "address"
    /\ \/ /\ account[run[p].deploy] # "gone"
          /\ IF run[p].cmd = "deploy"
             THEN Want(p, "address", run[p].target)
             ELSE To(p, "verify")
       \/ To(p, "wind")
    /\ Stage(p, "recorded")
    /\ UNCHANGED <<store, lock, account, dropped>>

Addressed(p) ==
    /\ run[p].change = "address"
    /\ \/ run[p].at = "stored" /\ Stage(p, "recorded") /\ (To(p, "verify") \/ To(p, "wind"))
       \/ run[p].at = "refused" /\ UNCHANGED stage /\ To(p, "wind")
    /\ UNCHANGED <<store, lock, account, dropped>>

(* The verdict, whatever it is, goes into the file and the receipt. *)
VerifyNode(p) ==
    /\ run[p].at = "verify"
    /\ Want(p, "verified", run[p].target)
    /\ UNCHANGED <<store, lock, account, stage, dropped>>

Verified(p) ==
    /\ run[p].change = "verified" /\ run[p].at \in {"stored", "refused"}
    /\ IF run[p].deploy = None THEN UNCHANGED stage ELSE Stage(p, "recorded")
    /\ To(p, "wind")
    /\ UNCHANGED <<store, lock, account, dropped>>

(* runDeployLifecycle: the work is over; an interrupt deletes what it      *)
(* knows it created.                                                       *)
WorkIsOver(p) ==
    /\ run[p].at = "wind"
    /\ IF run[p].cmd = "deploy" /\ run[p].intr /\ run[p].target.id # None
       THEN To(p, "clean") /\ Stage(p, "destroying_after_interrupt")
       ELSE End(p) /\ UNCHANGED stage
    /\ UNCHANGED <<store, lock, account, dropped>>

(* A fault: the entry goes however the DELETE was answered.                *)
CleanupUnheard(p) ==
    /\ run[p].at = "clean"
    /\ account' \in {account, [account EXCEPT ![run[p].target.id] = "gone"]}
    /\ Want(p, "remove", run[p].target)
    /\ UNCHANGED <<store, lock, stage, dropped>>

CleanupInstance(p) ==
    /\ run[p].at = "clean"
    /\ \/ /\ account' = [account EXCEPT ![run[p].target.id] = "gone"]
          /\ Want(p, "remove", run[p].target)
          /\ UNCHANGED stage
       \/ /\ account' \in {account, [account EXCEPT ![run[p].target.id] = "gone"]}
          /\ Stage(p, "cleanup_pending")
          /\ End(p)
    /\ UNCHANGED <<store, lock, dropped>>

(* A fault: the receipt does not tell whether the entry could be removed. *)
CleanedUpRegardless(p) ==
    /\ run[p].cmd = "deploy" /\ run[p].change = "remove"
    /\ run[p].at \in {"stored", "refused"}
    /\ Stage(p, "destroyed")
    /\ End(p)
    /\ UNCHANGED <<store, lock, account, dropped>>

CleanedUp(p) ==
    /\ run[p].cmd = "deploy" /\ run[p].change = "remove"
    /\ \/ run[p].at = "stored" /\ Stage(p, "destroyed")
       \/ run[p].at = "refused" /\ Stage(p, "deleted_local_cleanup_pending")
    /\ End(p)
    /\ UNCHANGED <<store, lock, account, dropped>>

(* Ctrl-C or SIGTERM reaches a deployment that still works. *)
Interrupt(p) ==
    /\ run[p].cmd = "deploy" /\ ~run[p].intr
    /\ run[p].at # "clean" /\ run[p].change # "remove"
    /\ Go(p, [run[p] EXCEPT !.intr = TRUE])
    /\ UNCHANGED <<store, lock, account, stage, dropped>>
-----------------------------------------------------------------------------
(* The other commands.                                                     *)

(* `mole server destroy`, and the lid close for the active entry: an entry *)
(* without an instance has nothing to delete first.                        *)
StartDestroy(p, e, forceLocal) ==
    /\ Begin(p, "destroy", [Idle EXCEPT !.at = IF e.id = None THEN "want" ELSE "delete",
                                       !.change = "remove", !.target = Ref(e),
                                       !.force = forceLocal])
    /\ UNCHANGED <<store, lock, account, stage, dropped>>

(* A fault: whatever becomes of the DELETE, the entry goes. *)
DeleteRegardless(p) ==
    /\ run[p].at = "delete"
    /\ account' \in {account, [account EXCEPT ![run[p].target.id] = "gone"]}
    /\ To(p, "want")
    /\ UNCHANGED <<store, lock, stage, dropped>>

(* The DELETE is answered, also by "not found"; or it fails, and may have  *)
(* acted all the same.                                                     *)
DeleteInstance(p) ==
    /\ run[p].at = "delete"
    /\ \/ /\ account' = [account EXCEPT ![run[p].target.id] = "gone"]
          /\ To(p, "want")
       \/ /\ account' \in {account, [account EXCEPT ![run[p].target.id] = "gone"]}
          /\ IF run[p].force THEN To(p, "want") ELSE End(p)
    /\ UNCHANGED <<store, lock, stage, dropped>>

(* What the provider says of one instance: the fields come in an envelope. *)
Reply(d) == [instance |-> [id |-> d, status |-> account[d]]]

(* The value of a field that is looked for outside the envelope. *)
TopLevel(reply, field) == IF field \in DOMAIN reply THEN reply[field] ELSE None

(* `mole server stop`, `start` and the wake-up of `mole up`. *)
StartStop(p, e) ==
    /\ ~e.stopped /\ e.id # None
    /\ Begin(p, "stop", [Idle EXCEPT !.at = "power", !.target = Ref(e)])
    /\ UNCHANGED <<store, lock, account, stage, dropped>>

StartStart(p, e, c) ==
    /\ e.stopped /\ e.id # None
    /\ c = "wake" => e.active
    /\ Begin(p, c, [Idle EXCEPT !.at = "power", !.target = Ref(e)])
    /\ UNCHANGED <<store, lock, account, stage, dropped>>

Power(cmd, was) == IF was = "gone" THEN "gone" ELSE IF cmd = "stop" THEN "halted" ELSE "on"

(* The POST is answered, or fails and may have acted. *)
PowerInstance(p) ==
    LET d == run[p].target.id
        powered == [account EXCEPT ![d] = Power(run[p].cmd, account[d])]
    IN  /\ run[p].at = "power"
        /\ \/ account[d] # "gone" /\ account' = powered /\ To(p, "poll")
           \/ account' \in {account, powered} /\ End(p)
        /\ UNCHANGED <<store, lock, stage, dropped>>

(* `start` gives up waiting and goes on; the wake-up insists on "active".  *)
PollInstance(p) ==
    LET d == run[p].target.id
    IN  /\ run[p].at = "poll"
        /\ IF run[p].cmd = "wake" /\ TopLevel(Reply(d), "status") # "on"
           THEN End(p)
           ELSE Want(p, IF run[p].cmd = "stop" THEN "stopped" ELSE "started", run[p].target)
        /\ UNCHANGED <<store, lock, account, stage, dropped>>

StartUse(p, e) ==
    /\ Begin(p, "manage", [Idle EXCEPT !.at = "want", !.change = "use", !.target = Ref(e)])
    /\ UNCHANGED <<store, lock, account, stage, dropped>>

(* A node with a share link and no instance on the account.  Its name      *)
(* comes from --name or from the link, and may once have been a server's.  *)
StartImport(p, n) ==
    /\ Called(n) = {}
    /\ Begin(p, "import", [Idle EXCEPT !.at = "want", !.change = "append",
                                      !.target = Entry(n, None, None, TRUE)])
    /\ UNCHANGED <<store, lock, account, stage, dropped>>

(* The answer is read without its envelope: no id, no label, no address.   *)
StartAdopt(p, d, n) ==
    /\ d \in Billing
    /\ Called(n) = {} /\ \A e \in store : e.id # d
    /\ Begin(p, "adopt", [Idle EXCEPT !.at = "want", !.change = "append",
                   !.target = Entry(n, TopLevel(Reply(d), "id"), d, FALSE)])
    /\ UNCHANGED <<store, lock, account, stage, dropped>>

(* `mole server verify`: a receipt of the entry's deployment is rewritten. *)
StartVerify(p, e) ==
    /\ ~e.stopped /\ (e.addr \/ e.id # None)
    /\ Begin(p, "verify", [Idle EXCEPT !.at = IF e.addr THEN "verify" ELSE "address",
                                      !.deploy = e.id, !.target = Ref(e)])
    /\ stage' = IF e.id = None THEN stage
                ELSE [stage EXCEPT ![e.id] = "recorded"]
    /\ UNCHANGED <<store, lock, account, dropped>>

(* `mole server repair` that has to mint a new REALITY identity. *)
StartRepair(p, e) ==
    /\ e.addr
    /\ Begin(p, "repair", [Idle EXCEPT !.at = "want", !.change = "repaired", !.target = Ref(e)])
    /\ UNCHANGED <<store, lock, account, stage, dropped>>

(* reconcileAddresses: the account is read before the lock is taken. *)
StartFill(p) ==
    /\ \E e \in store : e.id # None /\ ~e.addr
    /\ \E assigned \in SUBSET Billing :
         Begin(p, "reconcile", [Idle EXCEPT !.at = "want", !.change = "fill", !.seen = assigned])
    /\ UNCHANGED <<store, lock, account, stage, dropped>>

(* `mole server reconcile --destroy-remote`: the file, then the account,   *)
(* then one DELETE for each instance that was in the second only.          *)
StartReconcile(p) ==
    /\ Begin(p, "reconcile", [Idle EXCEPT !.at = "list", !.seen = Ids(store)])
    /\ UNCHANGED <<store, lock, account, stage, dropped>>

ListInstances(p) ==
    /\ run[p].at = "list"
    /\ \/ Go(p, [run[p] EXCEPT !.at = "purge", !.seen = Billing \ run[p].seen])
       \/ End(p)
    /\ UNCHANGED <<store, lock, account, stage, dropped>>

DestroyRemote(p) ==
    /\ run[p].at = "purge"
    /\ \/ run[p].seen = {} /\ End(p) /\ UNCHANGED account
       \/ \E d \in run[p].seen :
            /\ account' \in {account, [account EXCEPT ![d] = "gone"]}
            /\ Go(p, [run[p] EXCEPT !.seen = run[p].seen \ {d}])
    /\ UNCHANGED <<store, lock, stage, dropped>>

(* A process dies where it is; the system releases its lock. *)
Kill(p) ==
    /\ run[p] # Idle
    /\ End(p)
    /\ lock' = IF lock = p THEN None ELSE lock
    /\ UNCHANGED <<store, account, stage, dropped>>
-----------------------------------------------------------------------------
Init ==
    /\ store = {}
    /\ lock = None
    /\ account = [d \in Deploys |-> "none"]
    /\ stage = [d \in Deploys |-> "none"]
    /\ run = [p \in Procs |-> Idle]
    /\ dropped = {}

Start(p) ==
    \/ \E d \in Deploys, n \in Names : StartDeploy(p, d, n)
    \/ \E e \in store :
         \/ \E f \in BOOLEAN : StartDestroy(p, e, f)
         \/ StartStop(p, e)
         \/ \E c \in {"start", "wake"} : StartStart(p, e, c)
         \/ StartUse(p, e)
         \/ StartVerify(p, e)
         \/ StartRepair(p, e)
    \/ \E n \in Names : StartImport(p, n) \/ \E d \in Deploys : StartAdopt(p, d, n)
    \/ StartFill(p)
    \/ StartReconcile(p)

FileStep(p) == Lock(p) \/ LockFails(p) \/ Write(p) \/ WriteFails(p)

DeployStep(p) ==
    \/ CreateStartupScript(p) \/ Order(p) \/ CreateInstance(p) \/ Created(p)
    \/ Recorded(p) \/ WaitForIP(p) \/ Addressed(p) \/ VerifyNode(p) \/ Verified(p)
    \/ WorkIsOver(p) \/ CleanupInstance(p) \/ CleanedUp(p) \/ Interrupt(p)

CommandStep(p) ==
    \/ DeleteInstance(p) \/ PowerInstance(p) \/ PollInstance(p)
    \/ ListInstances(p) \/ DestroyRemote(p) \/ Kill(p)

Next == \E p \in Procs : Start(p) \/ FileStep(p) \/ DeployStep(p) \/ CommandStep(p)

Spec == Init /\ [][Next]_vars
-----------------------------------------------------------------------------
(* Properties.                                                             *)

Places == {"idle", "want", "locked", "stored", "refused", "script", "order", "post", "created",
           "address", "verify", "wind", "clean", "delete", "power", "poll", "list", "purge"}

Runs == [cmd : Commands \cup {"none"}, at : Places, deploy : Deploys \cup {None},
         target : Entries \cup {NoEntry}, change : Changes, read : SUBSET Entries,
         seen : SUBSET Deploys, force : BOOLEAN, intr : BOOLEAN]

TypeOK ==
    /\ store \subseteq Entries
    /\ lock \in Procs \cup {None}
    /\ account \in [Deploys -> {"none", "on", "halted", "gone"}]
    /\ stage \in [Deploys -> Stages]
    /\ run \in [Procs -> Runs]
    /\ dropped \subseteq Deploys

(* The file holds no two entries for one name or one instance, and one of  *)
(* its entries, if there are any, is the active one.                       *)
Unique(file) ==
    \A e, f \in file : e.name = f.name \/ (e.id # None /\ e.id = f.id) => e = f

OneActive(file) ==
    file # {} => \E e \in file : e.active /\ \A f \in file : f.active => f = e

(* Who holds the lock changes the file from the file as it is. *)
Locked ==
    \A p \in Procs :
        /\ run[p].at = "locked" <=> lock = p
        /\ run[p].at = "locked" => run[p].read = store

(* An instance that bills is known to mole: an entry names it, or its      *)
(* deployment's receipt is at a stage that says it may exist without one.  *)
(* Two removals escape: --force-local, and one by a name that has become   *)
(* another server's since the command looked.                              *)
Unsettled == {"creating_instance", "instance_creation_unconfirmed", "created",
              "local_record_failed", "destroying_after_interrupt", "cleanup_pending"}

Covered(d) == d \in Ids(store) \/ account[d] = "gone" \/ d \in dropped

BillIsOnRecord == \A d \in Billing : Covered(d) \/ stage[d] \in Unsettled

(* A receipt that says "destroyed" (deploy_record.go:121) is right: the    *)
(* instance is gone and no entry names it, for good.                       *)
DestroyedIsOver ==
    \A d \in Deploys : stage[d] = "destroyed" => account[d] = "gone" /\ d \notin Ids(store)

(* The instance of an entry was created. *)
Deployed == \A e \in store : e.id # None => account[e.id] # "none"

(* What a process carries from one of its steps to a later one agrees with *)
(* the file, the account and the receipts it was taken from.               *)
Exists(d) == account[d] # "none"

Storing == {"want", "locked"}

PlacesOf(cmd) ==
    CASE cmd = "none"                     -> {"idle"}
      [] cmd = "deploy"                   -> Places \ {"idle", "delete", "power", "poll", "list", "purge"}
      [] cmd = "verify"                   -> Storing \cup {"stored", "refused", "address", "verify", "wind"}
      [] cmd = "destroy"                  -> Storing \cup {"delete"}
      [] cmd \in {"stop", "start", "wake"} -> Storing \cup {"power", "poll"}
      [] cmd = "reconcile"                -> Storing \cup {"list", "purge"}
      [] OTHER                            -> Storing

Target(r) ==
    /\ r.at \in PlacesOf(r.cmd)
    /\ r.target.id # None => Exists(r.target.id)
    /\ r.at \in {"delete", "power", "poll", "clean"} => r.target.id # None
    /\ r.force => r.cmd = "destroy"
    /\ r.cmd = "destroy" => r.change = "remove"
    /\ r.change = "append" =>
         /\ r.target \in Entries /\ ~r.target.active
         /\ r.target.id # None => r.cmd = "deploy"
    /\ r.change = "remove" /\ r.at \in Storing =>
         Careless(r) \/ account[r.target.id] = "gone"
    /\ r.at = "purge" => \A d \in r.seen : Exists(d)

Deploying(r) ==
    LET d == r.deploy
    IN  /\ d \in Deploys /\ r.target \in Entries /\ ~r.target.active
        /\ r.target.name \in Names /\ r.target.id \in {None, d}
        /\ stage[d] \notin {"none", "destroyed"}
        /\ r.at \in {"script", "order", "post"} => ~Exists(d)
        /\ r.at = "post" => stage[d] = "creating_instance"
        /\ r.at = "created" \/ r.change \in {"append", "remove"} => r.target.id = d
        /\ r.at \in {"address", "verify"} \/ (r.change = "append" /\ r.at = "stored")
              \/ r.change \in {"address", "verified"} =>
                r.target.id = d /\ Exists(d) /\ Covered(d)
        /\ r.change = "remove" => account[d] = "gone"
        /\ r.change = "remove" /\ r.at = "stored" => d \notin Ids(store)

Verifying(r) == r.deploy = None \/ (r.deploy \in Deploys /\ Exists(r.deploy) /\ Covered(r.deploy))

InStep ==
    \A p \in Procs :
        /\ Target(run[p])
        /\ run[p].cmd = "deploy" => Deploying(run[p])
        /\ run[p].cmd = "verify" => Verifying(run[p])

(* A deployment is run by one process, and nothing exists of it before the *)
(* instance is asked for.                                                  *)
Alone ==
    \A p, q \in Procs :
        run[p].cmd = "deploy" /\ run[q].cmd = "deploy" /\ run[p].deploy = run[q].deploy => p = q

Fresh == \A d \in Deploys : stage[d] \in {"none", "preparing"} => ~Exists(d)

IInv == /\ TypeOK /\ Unique(store) /\ OneActive(store) /\ Locked
        /\ BillIsOnRecord /\ DestroyedIsOver /\ Deployed /\ InStep /\ Alone /\ Fresh

(* The entry of an instance outlives its bill: whatever commands race, it  *)
(* leaves the file only after the provider has confirmed that the instance *)
(* is gone.  The exceptions are --force-local, and a command that found an *)
(* entry without an instance and removes by its name what has that name by *)
(* the time it holds the lock (runServerDestroy, deleteInterruptedInstance,*)
(* removeRecordedServer; server.go:829-830).                               *)
EntryOutlivesBill ==
    [][\A d \in Ids(store) \ Ids(store') :
         account[d] = "gone" \/ \E p \in Procs : lock = p /\ Careless(run[p])]_vars

(* Seen as a list of who is on the books, the file keeps the promise of    *)
(* Registry through races, failures and kills: no lost update, no return.  *)
Books == {[name |-> e.name, id |-> e.id] : e \in store}
R == INSTANCE Registry WITH Name <- Names, Instance <- Deploys, books <- Books
StoreIsRegistry == R!Spec

(* A destroy that drops an entry without --force-local leaves no instance  *)
(* behind that the entry stands for (server.go:829-830: a failed delete    *)
(* must not leave mole believing a billing instance is gone).              *)
DestroyedIsGone ==
    [][\A p \in Procs, e \in store :
         /\ run[p].at = "locked" /\ run'[p] # run[p]
         /\ run[p].cmd = "destroy" /\ ~run[p].force
         /\ e.stands # None /\ \A f \in store' : f.name # e.name
         => account[e.stands] = "gone"]_vars
=============================================================================
