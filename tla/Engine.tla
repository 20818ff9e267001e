------------------------------- MODULE Engine -------------------------------
(***************************************************************************)
(* sing-box under its daemon, and the daemon under `mole up` and           *)
(* `mole down` (core/singbox.go, core/supervisor.go, cmd/up.go,            *)
(* cmd/down.go, utils/pid.go).                                             *)
(*                                                                         *)
(* A daemon has three goroutines that start and stop its sing-box: main,   *)
(* which turns a signal into Supervisor.Stop; Run, which starts the engine *)
(* and stops it when everything has wound down; and the lifecycle loop,    *)
(* which starts it again whenever it exits.  Start and the waiter that     *)
(* reaps a dead sing-box hold processMutex, so each is one step.  Commands *)
(* run one at a time; signals, kills, dead and wedged processes come       *)
(* whenever they like.                                                     *)
(***************************************************************************)
EXTENDS Integers, FiniteSets

CONSTANTS
  Daemon,     \* process ids of daemons
  Box,        \* process ids of sing-boxes
  Faults,     \* what may go wrong: "start", "dns", "box", "kill", "wedge"
  MaxAstray   \* bound: leaving daemons, wedged and stray sing-boxes at once

Processes == Daemon \cup Box
Nobody == 0
Stray == -1   \* whoever owned a sing-box that a leaving daemon left behind

ASSUME ProcessesAssumption ==
  /\ Processes \subseteq Nat \ {Nobody} /\ IsFiniteSet(Processes)
  /\ Daemon \cap Box = {}
ASSUME FaultsAssumption == Faults \subseteq {"start", "dns", "box", "kill", "wedge"}
ASSUME MaxAstrayAssumption == MaxAstray \in Nat

VARIABLES
  daemon,   \* the daemons, each with its goroutines, until they remove their pid file
  leaving,  \* the daemons that have removed it and whose process has not ended yet
  parent,   \* the live sing-boxes, each with the daemon that owns it, or Nobody or Stray
  wedged,   \* the sing-boxes that no signal reaches
  pidFile,  \* mole.pid
  file,     \* state.json: [pid, box]
  cli,      \* where the command stands: <<command, step>>
  target,   \* the daemon `mole up` has started
  seen,     \* the daemons `mole down` has found
  sound     \* the configuration, the binary and the network let sing-box run

files == <<pidFile, file>>
command == <<cli, target, seen>>
vars == <<daemon, leaving, parent, wedged, files, command, sound>>

NoFile == [pid |-> Nobody, box |-> Nobody]
Idle == <<"none", "idle">>

Daemons == DOMAIN daemon
Boxes == DOMAIN parent

\* A process id is not given again while a file or a goroutine remembers it.
Remembered ==
  {pidFile, file.pid, file.box, target} \cup seen \cup {daemon[d].box : d \in Daemons}

Fresh(Pids) == Pids \ (Daemons \cup leaving \cup Boxes \cup Remembered)
NewPid(Pids) == CHOOSE p \in Fresh(Pids) : \A q \in Fresh(Pids) : p <= q

\* The places of main at which nobody listens to signals yet and Run has not been called.
Deaf == {"boot", "prepare"}

\* main, run and life are the positions of the goroutines; box is currentProcess; closed
\* says that exitCh is; stop is stopCh, told a signal that main has yet to take.
Newborn ==
  [main |-> "boot", run |-> "start", life |-> "off", box |-> Nobody, closed |-> FALSE,
   stop |-> FALSE, told |-> FALSE]

\* The wedged sing-boxes, and what leaving daemons have left behind.
Astray == wedged \cup {b \in Boxes : parent[b] = Stray}

Without(f, S) == [x \in DOMAIN f \ S |-> f[x]]

\* Fault: the waiter closes exitCh and leaves currentProcess as it is.
ReapedHalf(gone) ==
  [d \in Daemons |-> IF daemon[d].box \in gone
                     THEN [daemon[d] EXCEPT !.closed = TRUE] ELSE daemon[d]]

\* The daemons once the sing-boxes in gone have exited and were reaped.
Reaped(gone) ==
  [d \in Daemons |-> IF daemon[d].box \in gone
                     THEN [daemon[d] EXCEPT !.box = Nobody, !.closed = TRUE] ELSE daemon[d]]

\* What is left once the sing-boxes in S were killed.
Kill(S) ==
  LET gone == S \ wedged
  IN  parent' = Without(parent, gone) /\ daemon' = Reaped(gone)

Init ==
  /\ daemon = << >> /\ leaving = {} /\ parent = << >> /\ wedged = {}
  /\ pidFile = Nobody /\ file = NoFile
  /\ cli = Idle /\ target = Nobody /\ seen = {} /\ sound \in BOOLEAN

----------------------------------------------------------------------------
(* Start and Stop, by goroutine g of daemon d.                             *)

\* Start spawns a sing-box, unless one is tracked already.
Spawn(d, g) ==
  /\ daemon[d].box = Nobody /\ Fresh(Box) # {}
  /\ parent' = [b \in Boxes \cup {NewPid(Box)} |-> IF b = NewPid(Box) THEN d ELSE parent[b]]
  /\ daemon' = [daemon EXCEPT ![d].box = NewPid(Box), ![d].closed = FALSE, ![d][g] = "settle"]
  /\ UNCHANGED <<wedged, files, command, leaving, sound>>

\* Fault: exitCh is made anew before it is known that there is a process.
StartFailsAnew(d, g, to) ==
  /\ daemon[d].box # Nobody \/ (~sound /\ "start" \in Faults)
  /\ daemon' = [daemon EXCEPT ![d][g] = to, ![d].closed = FALSE]
  /\ UNCHANGED <<parent, wedged, files, command, leaving, sound>>

\* It fails, and whoever watches exitCh sees what it saw before.
StartFails(d, g, to) ==
  /\ daemon[d].box # Nobody \/ (~sound /\ "start" \in Faults)
  /\ daemon' = [daemon EXCEPT ![d][g] = to]
  /\ UNCHANGED <<parent, wedged, files, command, leaving, sound>>

\* It settles when it lives through its first seconds and answers a query; what it does
\* before the daemon writes that down is another matter.
Settled(d, g) == daemon[d][g] = "settle"

\* It has died, or it answers nothing and is stopped.
Unsettled(d, g, to) ==
  /\ daemon[d][g] = "settle"
  /\ daemon[d].closed \/ (~sound /\ "dns" \in Faults)
  /\ LET gone == {daemon[d].box} \ (wedged \cup {Nobody})
     IN  /\ parent' = Without(parent, gone)
         /\ daemon' = [Reaped(gone) EXCEPT ![d][g] = to]
  /\ UNCHANGED <<wedged, files, command, leaving, sound>>

\* Stop kills what is tracked and waits for it, in vain when it is wedged.
StopBox(d, g, to) ==
  /\ LET gone == {daemon[d].box} \ (wedged \cup {Nobody})
     IN  /\ parent' = Without(parent, gone)
         /\ daemon' = [Reaped(gone) EXCEPT ![d][g] = to]
  /\ UNCHANGED <<wedged, files, command, leaving, sound>>

----------------------------------------------------------------------------
(* runDaemon.                                                              *)

WritePID(d) ==
  /\ daemon[d].main = "boot"
  /\ pidFile' = d
  /\ daemon' = [daemon EXCEPT ![d].main = "prepare"]
  /\ UNCHANGED <<parent, wedged, file, command, leaving, sound>>

\* No server, no valid configuration, or the DNS is not taken over.
PrepareFails(d) ==
  /\ daemon[d].main = "prepare" /\ ~sound /\ "start" \in Faults
  /\ daemon' = [daemon EXCEPT ![d].main = "leave"]
  /\ UNCHANGED <<parent, wedged, files, command, leaving, sound>>

\* From here on a signal is heard, and Run runs.
Notify(d) ==
  /\ daemon[d].main = "prepare"
  /\ daemon' = [daemon EXCEPT ![d].main = "serve"]
  /\ UNCHANGED <<parent, wedged, files, command, leaving, sound>>

\* A signal: stopCh is closed.
TakeSignal(d) ==
  /\ daemon[d].main = "serve" /\ daemon[d].told
  /\ daemon' = [daemon EXCEPT ![d].main = "stop", ![d].stop = TRUE, ![d].told = FALSE]
  /\ UNCHANGED <<parent, wedged, files, command, leaving, sound>>

StopEngine(d) == daemon[d].main = "stop" /\ StopBox(d, "main", "wait")

\* doneCh is closed, or ten seconds are over.
Waited(d) ==
  /\ daemon[d].main = "wait"
  /\ daemon' = [daemon EXCEPT ![d].main = "leave"]
  /\ UNCHANGED <<parent, wedged, files, command, leaving, sound>>

\* Run has returned by itself: the engine did not start, or the lid destroy stopped it.
RunReturned(d) ==
  /\ daemon[d].main = "serve" /\ daemon[d].run = "returned"
  /\ daemon' = [daemon EXCEPT ![d].main = "leave"]
  /\ UNCHANGED <<parent, wedged, files, command, leaving, sound>>

RemoveState(d) ==
  /\ daemon[d].main = "leave"
  /\ file' = NoFile
  /\ daemon' = [daemon EXCEPT ![d].main = "exit"]
  /\ UNCHANGED <<parent, wedged, pidFile, command, leaving, sound>>

\* From here on the process lives, and no file says so.
RemovePID(d) ==
  /\ daemon[d].main = "exit"
  /\ Cardinality(leaving \cup (Astray \ {daemon[d].box})) < MaxAstray
  /\ pidFile' = Nobody
  /\ daemon' = Without(daemon, {d}) /\ leaving' = leaving \cup {d}
  /\ UNCHANGED <<parent, wedged, file, command, sound>>

\* Its goroutines run on: each may still start, record or stop a sing-box.
LastStart(d) ==
  /\ Fresh(Box) # {} /\ \A b \in Boxes : parent[b] # d
  /\ parent' = [b \in Boxes \cup {NewPid(Box)} |-> IF b = NewPid(Box) THEN d ELSE parent[b]]
  /\ UNCHANGED <<daemon, leaving, wedged, files, command, sound>>

LastWrite(d) ==
  /\ file' \in [pid : {d}, box : {Nobody} \cup {b \in Boxes : parent[b] = d}]
  /\ UNCHANGED <<daemon, leaving, parent, wedged, pidFile, command, sound>>

LastStop(d) ==
  /\ parent' = Without(parent, {b \in Boxes \ wedged : parent[b] = d})
  /\ UNCHANGED <<daemon, leaving, wedged, files, command, sound>>

\* What becomes of the sing-boxes of the daemons in S, which are gone.
Orphaned(S) ==
  [b \in Boxes |-> IF parent[b] \in S \cap leaving THEN Stray
                   ELSE IF parent[b] \in S THEN Nobody ELSE parent[b]]

\* Those processes are gone; their sing-boxes, if they still run, are orphans.
Gone(S) ==
  /\ daemon' = Without(daemon, S) /\ leaving' = leaving \ S
  /\ parent' = Orphaned(S)

Exit(d) ==
  /\ Gone({d})
  /\ UNCHANGED <<wedged, files, command, sound>>

----------------------------------------------------------------------------
(* Run and the lifecycle loop.                                             *)

RunStarts(d) ==
  /\ daemon[d].run = "start" /\ daemon[d].main \notin Deaf
  /\ Spawn(d, "run") \/ StartFails(d, "run", "returned")

\* The first snapshot says that the daemon is up, and the loops start.
RunRecords(d) ==
  /\ Settled(d, "run")
  /\ file' = [pid |-> d, box |-> daemon[d].box]
  /\ daemon' = [daemon EXCEPT ![d].run = "loops", ![d].life = "watch"]
  /\ UNCHANGED <<parent, wedged, pidFile, command, leaving, sound>>

\* Any loop writes a snapshot now and then.
Publish(d) ==
  /\ daemon[d].run = "loops"
  /\ file' = [pid |-> d, box |-> daemon[d].box]
  /\ UNCHANGED <<daemon, parent, wedged, pidFile, command, leaving, sound>>

\* The lid destroy has deleted the server and stops the supervisor.
StopItself(d) ==
  /\ daemon[d].run = "loops" /\ ~daemon[d].stop
  /\ LET gone == {daemon[d].box} \ (wedged \cup {Nobody})
     IN  /\ parent' = Without(parent, gone)
         /\ daemon' = [Reaped(gone) EXCEPT ![d].stop = TRUE]
  /\ UNCHANGED <<wedged, files, command, leaving, sound>>

LoopsEnded(d) ==
  /\ daemon[d].run = "loops" /\ daemon[d].stop /\ daemon[d].life = "off"
  /\ daemon' = [daemon EXCEPT ![d].run = "done"]
  /\ UNCHANGED <<parent, wedged, files, command, leaving, sound>>

\* The deferred Stop.
RunReturns(d) == daemon[d].run = "done" /\ StopBox(d, "run", "returned")

LifeEnds(d) ==
  /\ daemon[d].life \in {"watch", "backoff"} /\ daemon[d].stop
  /\ daemon' = [daemon EXCEPT ![d].life = "off"]
  /\ UNCHANGED <<parent, wedged, files, command, leaving, sound>>

\* sing-box has exited; after a pause it is started again.
SeesExit(d) ==
  /\ daemon[d].life = "watch" /\ daemon[d].closed
  /\ daemon' = [daemon EXCEPT ![d].life = "backoff"]
  /\ UNCHANGED <<parent, wedged, files, command, leaving, sound>>

BackedOff(d) ==
  /\ daemon[d].life = "backoff"
  /\ daemon' = [daemon EXCEPT ![d].life = "start"]
  /\ UNCHANGED <<parent, wedged, files, command, leaving, sound>>

LifeStarts(d) ==
  /\ daemon[d].life = "start"
  /\ Spawn(d, "life") \/ StartFails(d, "life", "watch")

LifeRecords(d) ==
  /\ Settled(d, "life")
  /\ file' = [pid |-> d, box |-> daemon[d].box]
  /\ daemon' = [daemon EXCEPT ![d].life = "watch"]
  /\ UNCHANGED <<parent, wedged, pidFile, command, leaving, sound>>

----------------------------------------------------------------------------
(* `mole up`.                                                              *)

At(word, step) == cli = <<word, step>>
Step(word, step) == cli' = <<word, step>>

Up ==
  /\ cli = Idle /\ Step("up", "check")
  /\ UNCHANGED <<daemon, parent, wedged, files, target, seen, leaving, sound>>

\* Fault: the pid file is taken for that of a dead process.
CheckBlind ==
  /\ At("up", "check")
  /\ pidFile' = Nobody /\ Step("up", "sweep")
  /\ UNCHANGED <<daemon, parent, wedged, file, target, seen, leaving, sound>>

\* CheckAlreadyRunning: a pid file of a dead process is removed.
Check ==
  /\ At("up", "check")
  /\ IF pidFile \in Daemons THEN cli' = Idle /\ UNCHANGED pidFile
     ELSE pidFile' = Nobody /\ Step("up", "sweep")
  /\ UNCHANGED <<daemon, parent, wedged, file, target, seen, leaving, sound>>

\* Fault: only what state.json records is swept.
OrphansOnRecord == {file.box} \cap Boxes

\* KillOrphanedSingboxes: the one on record, and every one without a parent.
Orphans == {b \in Boxes : parent[b] \in {Nobody, Stray}} \cup ({file.box} \cap Boxes)

SweepOrphans ==
  /\ At("up", "sweep")
  /\ Kill(Orphans)
  /\ Step("up", "daemonize")
  /\ UNCHANGED <<wedged, files, target, seen, leaving, sound>>

Daemonize ==
  /\ At("up", "daemonize") /\ Fresh(Daemon) # {}
  /\ daemon' = [d \in Daemons \cup {NewPid(Daemon)} |->
                   IF d = NewPid(Daemon) THEN Newborn ELSE daemon[d]]
  /\ target' = NewPid(Daemon)
  /\ Step("up", "wait")
  /\ UNCHANGED <<parent, wedged, files, seen, leaving, sound>>

\* Fault: any state file will do.
ReadyByAnyState == At("up", "wait") /\ file # NoFile

\* waitForDaemonReady: the state names the daemon, or the pid file names another.
Ready == At("up", "wait") /\ file.pid = target

UpEnds ==
  /\ cli' = Idle /\ target' = Nobody
  /\ UNCHANGED <<daemon, parent, wedged, files, seen, leaving, sound>>

UpReady == Ready /\ UpEnds

\* It gives up after ten seconds; a daemon has written its pid file long before.
UpFails ==
  /\ At("up", "wait")
  /\ target \in Daemons => daemon[target].main # "boot"
  /\ UpEnds

----------------------------------------------------------------------------
(* `mole down`.                                                            *)

Down ==
  /\ cli = Idle /\ Step("down", "collect")
  /\ UNCHANGED <<daemon, parent, wedged, files, target, seen, leaving, sound>>

Collect ==
  /\ At("down", "collect")
  /\ seen' = Daemons \cup leaving
  /\ IF seen' = {} /\ Boxes = {} THEN Step("down", "clear") ELSE Step("down", "term")
  /\ UNCHANGED <<daemon, parent, wedged, files, target, leaving, sound>>

\* Nothing was alive: the host is tidied, and nobody looks again.
Clear ==
  /\ At("down", "clear")
  /\ pidFile' = Nobody /\ file' = NoFile /\ seen' = {}
  /\ Step("down", "stopped")
  /\ UNCHANGED <<daemon, parent, wedged, target, leaving, sound>>

\* A daemon that does not listen yet is killed by the signal.
Term ==
  /\ At("down", "term")
  /\ LET deaf == {d \in seen \cap Daemons : daemon[d].main \in Deaf}
     IN  /\ daemon' = [d \in Daemons \ deaf |->
                         IF d \in seen /\ daemon[d].main = "serve"
                         THEN [daemon[d] EXCEPT !.told = TRUE] ELSE daemon[d]]
         /\ parent' = Orphaned(deaf)
  /\ Step("down", "kill")
  /\ UNCHANGED <<wedged, files, target, seen, leaving, sound>>

\* Whoever is left after ten seconds is killed.
KillDaemons ==
  /\ At("down", "kill")
  /\ Gone(seen)
  /\ Step("down", "sweep")
  /\ UNCHANGED <<wedged, files, target, seen, sound>>

\* Fault: `mole down` sweeps no more than what state.json records.
SweepRecorded ==
  /\ At("down", "sweep")
  /\ Kill(OrphansOnRecord)
  /\ Step("down", "tidy")
  /\ UNCHANGED <<wedged, files, target, seen, leaving, sound>>

SweepAll ==
  /\ At("down", "sweep")
  /\ Kill(Boxes)
  /\ Step("down", "tidy")
  /\ UNCHANGED <<wedged, files, target, seen, leaving, sound>>

Tidy ==
  /\ At("down", "tidy")
  /\ pidFile' = Nobody /\ file' = NoFile
  /\ Step("down", "verify")
  /\ UNCHANGED <<daemon, parent, wedged, target, seen, leaving, sound>>

\* "VPN stopped", or what is still there.
Report(word) ==
  /\ At("down", "verify")
  /\ word = IF Daemons \cup leaving = {} /\ Boxes = {} THEN "stopped" ELSE "leftovers"
  /\ Step("down", word)
  /\ seen' = {}
  /\ UNCHANGED <<daemon, parent, wedged, files, target, leaving, sound>>

DownEnds ==
  /\ cli \in {<<"down", "stopped">>, <<"down", "leftovers">>}
  /\ cli' = Idle
  /\ UNCHANGED <<daemon, parent, wedged, files, target, seen, leaving, sound>>

\* Ctrl-C; `mole up` is not interrupted in the instant before the daemon has its pid file.
Interrupt ==
  /\ cli # Idle
  /\ target \in Daemons => daemon[target].main # "boot"
  /\ cli' = Idle /\ target' = Nobody /\ seen' = {}
  /\ UNCHANGED <<daemon, parent, wedged, files, leaving, sound>>

----------------------------------------------------------------------------
(* What happens by itself.                                                 *)

Signalled(d) ==
  /\ daemon[d].main = "serve" /\ ~daemon[d].told
  /\ daemon' = [daemon EXCEPT ![d].told = TRUE]
  /\ UNCHANGED <<parent, wedged, files, command, leaving, sound>>

DaemonKilled(d) ==
  /\ "kill" \in Faults /\ Gone({d})
  /\ UNCHANGED <<wedged, files, command, sound>>

BoxDies(b) ==
  /\ "box" \in Faults /\ ~sound
  /\ parent' = Without(parent, {b}) /\ daemon' = Reaped({b})
  /\ wedged' = wedged \ {b}
  /\ UNCHANGED <<files, command, leaving, sound>>

BoxWedges(b) ==
  /\ "wedge" \in Faults /\ b \notin wedged
  /\ Cardinality(leaving \cup (Astray \ {b})) < MaxAstray
  /\ wedged' = wedged \cup {b}
  /\ UNCHANGED <<daemon, parent, files, command, leaving, sound>>

Weather ==
  /\ sound' = ~sound
  /\ UNCHANGED <<daemon, leaving, parent, wedged, files, command>>

----------------------------------------------------------------------------

Main(d) ==
  \/ WritePID(d) \/ PrepareFails(d) \/ Notify(d)
  \/ TakeSignal(d) \/ StopEngine(d) \/ Waited(d) \/ RunReturned(d)
  \/ RemoveState(d) \/ RemovePID(d)

Leaves(d) == LastStart(d) \/ LastWrite(d) \/ LastStop(d) \/ Exit(d)

Run(d) ==
  \/ RunStarts(d) \/ RunRecords(d) \/ Unsettled(d, "run", "returned")
  \/ LoopsEnded(d) \/ RunReturns(d)

Life(d) ==
  \/ LifeEnds(d) \/ SeesExit(d) \/ BackedOff(d) \/ LifeStarts(d) \/ LifeRecords(d)
  \/ Unsettled(d, "life", "watch")

Command ==
  \/ Up \/ Check \/ SweepOrphans \/ Daemonize \/ UpReady \/ UpFails
  \/ Down \/ Collect \/ Clear \/ Term \/ KillDaemons \/ SweepAll \/ Tidy
  \/ (\E w \in {"stopped", "leftovers"} : Report(w)) \/ DownEnds \/ Interrupt

Nature ==
  \/ \E d \in Daemons : Publish(d) \/ StopItself(d) \/ Signalled(d) \/ DaemonKilled(d)
  \/ \E b \in Boxes : BoxDies(b) \/ BoxWedges(b)
  \/ Weather

Next ==
  \/ \E d \in Daemons : Main(d) \/ Run(d) \/ Life(d)
  \/ \E d \in leaving : Leaves(d)
  \/ Command \/ Nature

\* The goroutines run; nothing is owed by people, commands or the machine.
Fairness ==
  \A d \in Daemon :
    /\ WF_vars(d \in Daemons /\ Main(d))
    /\ WF_vars(d \in Daemons /\ Run(d))
    /\ WF_vars(d \in Daemons /\ Life(d))

Spec == Init /\ [][Next]_vars
FairSpec == Spec /\ Fairness

----------------------------------------------------------------------------
(* Properties.                                                             *)

Words ==
  {Idle} \cup ({"up"} \X {"check", "sweep", "daemonize", "wait"})
  \cup ({"down"} \X {"collect", "clear", "term", "kill", "sweep", "tidy", "verify", "stopped", "leftovers"})

Lives ==
  [main : {"boot", "prepare", "serve", "stop", "wait", "leave", "exit"},
   run : {"start", "settle", "loops", "done", "returned"},
   life : {"off", "watch", "backoff", "start", "settle"},
   box : Box \cup {Nobody}, closed : BOOLEAN, stop : BOOLEAN, told : BOOLEAN]

TypeOK ==
  /\ Daemons \cup leaving \subseteq Daemon /\ Daemons \cap leaving = {} /\ Boxes \subseteq Box
  /\ daemon \in [Daemons -> Lives] /\ parent \in [Boxes -> Daemons \cup leaving \cup {Nobody, Stray}]
  /\ wedged \subseteq Boxes /\ pidFile \in Daemon \cup {Nobody}
  /\ file \in [pid : Daemon \cup {Nobody}, box : Box \cup {Nobody}]
  /\ target \in Daemon \cup {Nobody}
  /\ cli \in Words /\ seen \subseteq Daemon /\ sound \in BOOLEAN

\* A daemon tracks every sing-box it has started and that still runs, so that Stop can
\* reach it (currentProcess).
Tracked ==
  \A d \in Daemons :
    /\ daemon[d].box # Nobody => daemon[d].box \in Boxes /\ parent[daemon[d].box] = d
    /\ \A b \in Boxes : parent[b] = d => b = daemon[d].box
    /\ daemon[d].box # Nobody => ~daemon[d].closed

\* There is one daemon that is not leaving, which its pid file or the waiting `mole up`
\* knows; whoever is about to start one, or has stopped it, has made sure that there is none.
NoDaemonAt ==
  {<<"up", "sweep">>, <<"up", "daemonize">>}
  \cup ({"down"} \X {"clear", "sweep", "tidy", "verify", "stopped", "leftovers"})

OneDaemon ==
  /\ \A d, e \in Daemons : d = e
  /\ \A d \in Daemons :
       IF daemon[d].main = "boot" THEN At("up", "wait") /\ target = d ELSE pidFile = d
  /\ cli \in NoDaemonAt => Daemons = {}
  /\ At("down", "term") \/ At("down", "kill") => Daemons \cup leaving \subseteq seen

\* A sing-box that a killed daemon left is wedged, once there is a daemon again.
OrphansAreWedged ==
  Daemons # {} \/ At("up", "daemonize") => \A b \in Boxes : parent[b] = Nobody => b \in wedged

\* state.json names a daemon only if its engine came up; so did whoever restarts it.
CameUp == {"loops", "done", "returned"}

OnFile ==
  /\ file.pid \in Daemons => daemon[file.pid].run \in CameUp
  /\ \A d \in Daemons : /\ daemon[d].life # "off" => daemon[d].run = "loops"
                        /\ daemon[d].main \in Deaf => daemon[d].run = "start"

\* Once `mole down` has killed the daemons nobody is left, and once it has swept nothing that
\* a signal reaches.
Swept ==
  /\ cli \in {"down"} \X {"clear", "sweep", "tidy", "verify", "stopped", "leftovers"} =>
       leaving = {}
  /\ cli \in {"down"} \X {"tidy", "verify", "leftovers"} => Boxes \subseteq wedged
  /\ cli \in {"down"} \X {"clear", "stopped"} => Boxes = {}

IInv == TypeOK /\ Tracked /\ OneDaemon /\ OrphansAreWedged /\ OnFile /\ Swept

\* The sing-boxes that a signal reaches, but those of leaving daemons.
Engines == {b \in Boxes \ wedged : parent[b] \notin leaving \cup {Stray}}

\* There is never a second engine on the same TUN device and the same ports, whatever was
\* killed, orphaned or started again; wedged ones aside, and that of a daemon which had
\* removed its pid file and not ended yet when `mole up` looked for it
\* (runParent, KillOrphanedSingboxes, runDaemon).
OneEngine == Cardinality(Engines) <= 1

\* `mole up` reports a daemon as running only once that daemon's sing-box has answered; the
\* state file of an earlier daemon does not count (waitForDaemonReady, Run).
ReadyIsReal ==
  Ready /\ target \in Daemons => daemon[target].run \in CameUp

\* The machine has one tenant at a time, and no engine outlives it into the next tenancy:
\* the daemon, until it removes its pid file, and the engines, each with its owner
\* (CheckAlreadyRunning, KillOrphanedSingboxes, runDaemon, Start).
Holder == IF Daemons = {} THEN Nobody ELSE CHOOSE d \in Daemons : TRUE

Machine == INSTANCE Tenancy WITH tenant <- Holder, engine <- [b \in Engines |-> parent[b]]

OneTenant == Machine!Spec

\* When `mole down` ends, with a second look or without one, no daemon lives, leaving or
\* not, what still runs no signal reaches, and "VPN stopped" is true (runDown).
DownIsThorough ==
  /\ cli \in {<<"down", "stopped">>, <<"down", "leftovers">>} =>
       Daemons \cup leaving = {} /\ Boxes \subseteq wedged
  /\ At("down", "stopped") => Boxes = {}

\* A sing-box that exits comes back, as long as its daemon serves (runLifecycle).
Serving(d) == d \in Daemons /\ daemon[d].run = "loops" /\ ~daemon[d].stop

EngineComesBack ==
  \A d \in Daemon :
    <>[](Serving(d) /\ sound) => <>[](Serving(d) /\ daemon[d].box # Nobody)

=============================================================================
