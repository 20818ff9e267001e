------------------------------ MODULE HostState ------------------------------
(***************************************************************************)
(* The host state a daemon borrows (utils/dns.go, sysctl.go, killswitch.go)*)
(* and gives back, over `mole up` (cmd/up.go) and `mole down` (cmd/down.go)*)
(* on macOS: the DNS of each network service with its backup file, the     *)
(* UDP buffer sysctls with theirs, the PF anchor with its token, the pid   *)
(* file and the sing-box child.                                            *)
(*                                                                         *)
(* Two processes: the daemon (runDaemon) and one `mole down`.  A step      *)
(* reads or changes one file or one part of the host; between any two the  *)
(* process may be killed or the machine restart.  Both run the same        *)
(* restore, whose variables copy and todo belong to whichever is in it.    *)
(*                                                                         *)
(* People type one command at a time and leave the DNS of a service alone  *)
(* while it is in the backup; SIGKILL takes; the JSON of the DNS backup,   *)
(* renamed into place, is never torn.  The sysctls count as one knob: they *)
(* are backed up together.                                                 *)
(***************************************************************************)
CONSTANTS
  Services, \* network services
  Settings, \* resolvers a person may have chosen; "Empty" is what DHCP gives
  Faults    \* operations that may fail: "boot", "read", "save", "set", "sysctl", "pfctl", "box"

Tun == "tun"          \* tunGatewayDNS
Missing == "missing"  \* not in the backup
Procs == {"daemon", "down"}

ASSUME SettingsAssumption == "Empty" \in Settings /\ Tun \notin Settings /\ Missing \notin Settings

VARIABLES
  present,  \* the services that are plugged in and listed
  dns,      \* the resolver of each service
  own,      \* the one its owner chose
  file,     \* dns-backup.json exists
  saved,    \* what it holds
  knob,     \* the sysctls: "stock" or "tuned"
  knobFile, \* sysctl-backup.json: "none", "torn" or the value saved
  anchor,   \* the kill switch blocks
  token,    \* pf-token exists
  armed,    \* the daemon has deferred the unload
  pid,      \* the pid file exists
  box,      \* a sing-box of ours runs
  pc,       \* where each process stands
  copy,     \* the backup as the process in a transaction holds it
  todo,     \* services it has yet to set
  root,     \* `mole down` runs as root
  failed,   \* its dnsErr
  report    \* what the last `mole down` said

borrowed == <<dns, own, file, saved>>
tuning == <<knob, knobFile>>
filter == <<anchor, token, armed>>
life == <<pid, box>>
work == <<copy, todo>>
answer == <<root, failed, report>>
vars == <<present, borrowed, tuning, filter, life, pc, work, answer>>

AtRest == [p \in Procs |-> IF p = "daemon" THEN "off" ELSE "idle"]
Nothing == [s \in Services |-> Missing]
Goto(p, place) == pc' = [pc EXCEPT ![p] = place]
Fails(operation) == operation \in Faults

\* stripTunGateway: a service left at the tunnel's resolver counts as DHCP.
Strip(resolver) == IF resolver = Tun THEN "Empty" ELSE resolver

\* The deferred calls run in reverse; runDown has an order of its own.
After(p, place) ==
  CASE place = "unload" -> IF p = "daemon" THEN "untune" ELSE "restore"
    [] place = "untune" -> IF p = "daemon" THEN "restore" ELSE "verify"
    [] place = "restore" -> IF p = "daemon" THEN "bye" ELSE "untune"

CleanUp == IF armed THEN "unload" ELSE "untune"

Init ==
  /\ present = Services
  /\ own \in [Services -> Settings] /\ dns = own
  /\ file = FALSE /\ saved = Nothing
  /\ knob = "stock" /\ knobFile = "none"
  /\ anchor = FALSE /\ token = FALSE /\ armed = FALSE
  /\ pid = FALSE /\ box = FALSE
  /\ pc = AtRest
  /\ copy = Nothing /\ todo = {}
  /\ root = FALSE /\ failed = FALSE /\ report = "none"

----------------------------------------------------------------------------
(* mole up.                                                                *)

\* runParent: no live daemon, so a pid file is stale and a sing-box an orphan; then the
\* daemon is started, unless the configuration fails.
Up ==
  /\ pc["daemon"] = "off" /\ pc["down"] = "idle"
  /\ pid' = FALSE /\ box' = FALSE /\ report' = "none"
  /\ \/ Goto("daemon", "boot")
     \/ Fails("boot") /\ UNCHANGED pc
  /\ UNCHANGED <<present, borrowed, tuning, filter, work, root, failed>>

\* WritePID, the active server and the engine's preflight, all before the take-over.
Boot ==
  /\ pc["daemon"] = "boot"
  /\ pid' = TRUE
  /\ Goto("daemon", "read") \/ (Fails("boot") /\ Goto("daemon", "bye"))
  /\ UNCHANGED <<present, borrowed, tuning, filter, box, work, answer>>

\* Without the look into the backup: every listed service is read again.
ReadAfresh ==
  /\ pc["daemon"] = "read"
  /\ copy' = [s \in Services |-> IF s \in present THEN Strip(dns[s]) ELSE saved[s]]
  /\ todo' = present
  /\ Goto("daemon", "save")
  /\ UNCHANGED <<present, borrowed, tuning, filter, life, answer>>

\* takeOver reads: what an earlier daemon left in the backup stands, the rest is added.
ReadForTakeOver ==
  /\ pc["daemon"] = "read"
  /\ \/ /\ copy' = [s \in Services |->
                      IF s \in present /\ saved[s] = Missing THEN Strip(dns[s]) ELSE saved[s]]
        /\ todo' = present
        /\ Goto("daemon", "save")
     \/ Fails("read") /\ Goto("daemon", "restore") /\ UNCHANGED work
  /\ UNCHANGED <<present, borrowed, tuning, filter, life, answer>>

\* With the error of saveBackup ignored.
SaveBackupOrNot ==
  /\ pc["daemon"] = "save"
  /\ \/ file' = TRUE /\ saved' = copy
     \/ Fails("save") /\ UNCHANGED <<file, saved>>
  /\ Goto("daemon", "point")
  /\ UNCHANGED <<present, dns, own, tuning, filter, life, work, answer>>

\* saveBackup, a rename: all of it or nothing.
SaveBackup ==
  /\ pc["daemon"] = "save"
  /\ \/ file' = TRUE /\ saved' = copy /\ Goto("daemon", "point")
     \/ Fails("save") /\ Goto("daemon", "restore") /\ UNCHANGED <<file, saved>>
  /\ UNCHANGED <<present, dns, own, tuning, filter, life, work, answer>>

\* The services a round of networksetup calls gets through to.
Reached ==
  {done \in SUBSET (todo \cap present) : Fails("set") \/ done = todo \cap present}

\* takeOver sets every service it has listed; one that fails fails the start.
Point ==
  /\ pc["daemon"] = "point"
  /\ \E done \in Reached :
       /\ dns' = [s \in Services |-> IF s \in done THEN Tun ELSE dns[s]]
       /\ Goto("daemon", IF done = todo THEN "backup" ELSE "restore")
  /\ UNCHANGED <<present, own, file, saved, tuning, filter, life, work, answer>>

\* TuneNetworkStack saves what no backup has yet.  Its file is truncated and then written,
\* and whatever goes wrong with it is ignored.
BackUpKnob ==
  /\ pc["daemon"] = "backup"
  /\ IF knobFile \in {"stock", "tuned"}
     THEN UNCHANGED knobFile
     ELSE knobFile' \in {knob} \cup (IF Fails("sysctl") THEN {"torn", knobFile} ELSE {})
  /\ Goto("daemon", "tune")
  /\ UNCHANGED <<present, borrowed, knob, filter, life, work, answer>>

TuneKnob ==
  /\ pc["daemon"] = "tune"
  /\ knob' \in {"tuned"} \cup (IF Fails("sysctl") THEN {knob} ELSE {})
  /\ Goto("daemon", "load")
  /\ UNCHANGED <<present, borrowed, knobFile, filter, life, work, answer>>

\* LoadKillSwitch: the anchor, then pfctl -E, then the token.  The daemon goes on without
\* it when it fails or is not wanted.
LoadAnchor ==
  /\ pc["daemon"] = "load"
  /\ \/ anchor' = TRUE /\ Goto("daemon", "enable")
     \/ Goto("daemon", "start") /\ UNCHANGED anchor
  /\ UNCHANGED <<present, borrowed, tuning, token, armed, life, work, answer>>

EnableFilter ==
  /\ pc["daemon"] = "enable"
  /\ \/ Goto("daemon", "token") /\ UNCHANGED anchor
     \/ Fails("pfctl") /\ anchor' \in BOOLEAN /\ Goto("daemon", "start")
  /\ UNCHANGED <<present, borrowed, tuning, token, armed, life, work, answer>>

WriteToken ==
  /\ pc["daemon"] = "token"
  /\ token' \in {TRUE} \cup (IF Fails("save") THEN {token} ELSE {})
  /\ armed' = TRUE
  /\ Goto("daemon", "start")
  /\ UNCHANGED <<present, borrowed, tuning, anchor, life, work, answer>>

\* Supervisor.Run.
StartBox ==
  /\ pc["daemon"] = "start"
  /\ \/ box' = TRUE /\ Goto("daemon", "run")
     \/ Fails("box") /\ Goto("daemon", CleanUp) /\ UNCHANGED box
  /\ UNCHANGED <<present, borrowed, tuning, filter, pid, work, answer>>

\* sing-box exits, and runLifecycle starts it again.
BoxFlaps ==
  /\ pc["daemon"] = "run" /\ Fails("box")
  /\ box' = ~box
  /\ UNCHANGED <<present, borrowed, tuning, filter, pid, pc, work, answer>>

\* The supervisor returns by itself (the lid destroyed the server) and the daemon unwinds.
Exit ==
  /\ pc["daemon"] = "run"
  /\ box' \in {FALSE} \cup (IF Fails("box") THEN {box} ELSE {})
  /\ Goto("daemon", CleanUp)
  /\ UNCHANGED <<present, borrowed, tuning, filter, pid, work, answer>>

\* RemoveState and RemovePID, deferred first and so run last.
Bye ==
  /\ pc["daemon"] = "bye"
  /\ pid' = FALSE /\ armed' = FALSE
  /\ Goto("daemon", "off")
  /\ UNCHANGED <<present, borrowed, tuning, anchor, token, box, work, answer>>

----------------------------------------------------------------------------
(* Giving back, by the unwinding daemon or by mole down.                   *)

\* UnloadKillSwitch removes the token whether or not pfctl did anything.
Unload(p) ==
  /\ pc[p] = "unload"
  /\ anchor' \in {FALSE} \cup (IF Fails("pfctl") THEN {anchor} ELSE {})
  /\ token' = FALSE
  /\ Goto(p, After(p, "unload"))
  /\ UNCHANGED <<present, borrowed, tuning, armed, life, work, answer>>

\* RestoreNetworkStack: sysctl -w needs root and has no sudo; its backup goes either way.
Untune(p) ==
  /\ pc[p] = "untune"
  /\ IF knobFile \in {"stock", "tuned"}
     THEN /\ knob' \in IF p = "down" /\ ~root THEN {knob}
                       ELSE {knobFile} \cup (IF Fails("sysctl") THEN {knob} ELSE {})
          /\ knobFile' = "none"
     ELSE UNCHANGED tuning
  /\ Goto(p, After(p, "untune"))
  /\ UNCHANGED <<present, borrowed, filter, life, work, answer>>

\* restore reads the backup; without one it looks for services left at the tunnel's resolver.
ReadForRestore(p) ==
  /\ pc[p] = "restore"
  /\ \/ /\ copy' = IF file THEN saved ELSE [s \in Services |-> Strip(dns[s])]
        /\ todo' = IF file THEN {s \in Services : saved[s] # Missing}
                           ELSE {s \in present : dns[s] = Tun}
        /\ Goto(p, "give") /\ UNCHANGED failed
     \/ Fails("read") /\ Goto(p, After(p, "restore")) /\ failed' = (p = "down") /\ UNCHANGED work
  /\ UNCHANGED <<present, borrowed, tuning, filter, life, root, report>>

GiveBack(p) ==
  /\ pc[p] = "give"
  /\ \E done \in Reached :
       /\ dns' = [s \in Services |-> IF s \in done THEN copy[s] ELSE dns[s]]
       /\ todo' = todo \ done
  /\ Goto(p, "settle")
  /\ UNCHANGED <<present, own, file, saved, tuning, filter, life, copy, answer>>

\* With the errors of the calls ignored, as RestoreNetworkStack ignores them.
SettleRegardless(p) ==
  /\ pc[p] = "settle"
  /\ saved' = Nothing /\ file' = FALSE
  /\ copy' = Nothing /\ todo' = {}
  /\ Goto(p, After(p, "restore"))
  /\ UNCHANGED <<present, dns, own, tuning, filter, life, answer>>

\* The backup goes when nothing is pending and keeps what is; either write may fail.
Settle(p) ==
  /\ pc[p] = "settle"
  /\ \/ /\ saved' = [s \in Services |-> IF s \in todo THEN saved[s] ELSE Missing]
        /\ file' = (file /\ todo # {})
        /\ failed' = (p = "down" /\ todo # {})
     \/ file /\ Fails("save") /\ failed' = (p = "down") /\ UNCHANGED <<file, saved>>
  /\ copy' = Nothing /\ todo' = {}
  /\ Goto(p, After(p, "restore"))
  /\ UNCHANGED <<present, dns, own, tuning, filter, life, root, report>>

----------------------------------------------------------------------------
(* mole down.                                                              *)

Down ==
  /\ pc["down"] = "idle"
  /\ Goto("down", "look")
  /\ root' \in BOOLEAN /\ failed' = FALSE /\ report' = "none"
  /\ UNCHANGED <<present, borrowed, tuning, filter, life, work>>

\* With RestoreDNS left to the path that has found something alive.
TidyTheRest ==
  /\ pc["down"] = "look" /\ pc["daemon"] = "off" /\ ~box
  /\ Goto("down", "untune")
  /\ UNCHANGED <<present, borrowed, tuning, filter, life, work, answer>>

\* Nothing alive: no sudo, and the kill switch is unloaded if there is a token.
Tidy ==
  /\ pc["down"] = "look" /\ pc["daemon"] = "off" /\ ~box
  /\ Goto("down", IF token THEN "unload" ELSE "restore")
  /\ UNCHANGED <<present, borrowed, tuning, filter, life, work, answer>>

\* Where SIGTERM takes the daemon: before signal.Notify it kills, later it is a request.
\* A daemon that unwinds ignores it, unless it never got as far as signal.Notify.
Interrupted(place) ==
  CASE place = "run" -> {CleanUp}
    [] place = "start" -> {CleanUp, "off"}
    [] place \in {"unload", "untune", "restore", "give", "settle", "bye"} -> {place, "off"}
    [] OTHER -> {"off"}

\* Something is alive: sudo, and SIGTERM.
Term ==
  /\ pc["down"] = "look" /\ (pc["daemon"] # "off" \/ box)
  /\ root' = TRUE
  /\ \E next \in Interrupted(pc["daemon"]) :
       /\ pc' = [pc EXCEPT !["down"] = "wait", !["daemon"] = next]
       /\ armed' = (armed /\ next # "off")
       /\ IF next = "off" THEN copy' = Nothing /\ todo' = {} ELSE UNCHANGED work
  /\ box' \in {box /\ pc["daemon"] # "run"} \cup (IF Fails("box") THEN {box} ELSE {})
  /\ UNCHANGED <<present, borrowed, tuning, anchor, token, pid, failed, report>>

\* The wait is over: SIGKILL for a daemon that is still there, then every sing-box.
Sweep ==
  /\ pc["down"] = "wait"
  /\ pc' = [pc EXCEPT !["down"] = "unload", !["daemon"] = "off"]
  /\ box' \in {FALSE} \cup (IF Fails("box") THEN {box} ELSE {})
  /\ copy' = Nothing /\ todo' = {} /\ armed' = FALSE
  /\ UNCHANGED <<present, borrowed, tuning, anchor, token, pid, answer>>

\* RemovePID, RemoveState and the final verification.
Verify ==
  /\ pc["down"] = "verify"
  /\ pid' = FALSE
  /\ report' = IF box \/ pc["daemon"] # "off" \/ failed THEN "error" ELSE "stopped"
  /\ Goto("down", "idle") /\ root' = FALSE /\ failed' = FALSE
  /\ UNCHANGED <<present, borrowed, tuning, filter, box, work>>

----------------------------------------------------------------------------
(* The world.                                                              *)

\* The daemon is killed; its sing-box lives on.
Kill ==
  /\ pc["daemon"] # "off"
  /\ Goto("daemon", "off")
  /\ copy' = Nothing /\ todo' = {} /\ armed' = FALSE
  /\ UNCHANGED <<present, borrowed, tuning, anchor, token, life, answer>>

\* `mole down` is cut short, or its sudo refused.
CutShort ==
  /\ pc["down"] # "idle"
  /\ Goto("down", "idle") /\ root' = FALSE /\ failed' = FALSE
  /\ IF pc["daemon"] = "off" THEN copy' = Nothing /\ todo' = {} ELSE UNCHANGED work
  /\ UNCHANGED <<present, borrowed, tuning, filter, life, report>>

\* A restart forgets the processes, the sysctls and the anchor, but no file and no DNS setting.
Reboot ==
  /\ pc' = AtRest
  /\ box' = FALSE /\ knob' = "stock" /\ anchor' = FALSE /\ armed' = FALSE
  /\ copy' = Nothing /\ todo' = {} /\ root' = FALSE /\ failed' = FALSE /\ report' = "none"
  /\ UNCHANGED <<present, borrowed, knobFile, token, pid>>

Plug(s) ==
  /\ s \notin present
  /\ present' = present \cup {s}
  /\ UNCHANGED <<borrowed, tuning, filter, life, pc, work, answer>>

Unplug(s) ==
  /\ s \in present
  /\ present' = present \ {s}
  /\ UNCHANGED <<borrowed, tuning, filter, life, pc, work, answer>>

\* A person chooses another resolver for a service that is not in the backup.
Choose(s, v) ==
  /\ pc["daemon"] \in {"off", "run"} /\ pc["down"] = "idle"
  /\ saved[s] = Missing
  /\ own' = [own EXCEPT ![s] = v] /\ dns' = [dns EXCEPT ![s] = v]
  /\ UNCHANGED <<present, file, saved, tuning, filter, life, pc, work, answer>>

Restore(p) == Unload(p) \/ Untune(p) \/ ReadForRestore(p) \/ GiveBack(p) \/ Settle(p)

Daemon ==
  \/ Boot \/ ReadForTakeOver \/ SaveBackup \/ Point \/ BackUpKnob \/ TuneKnob
  \/ LoadAnchor \/ EnableFilter \/ WriteToken \/ StartBox \/ BoxFlaps \/ Exit \/ Bye
  \/ Restore("daemon")

DownStep == Tidy \/ Term \/ Sweep \/ Verify \/ Restore("down")

Next ==
  \/ Up \/ Daemon \/ Down \/ DownStep \/ Kill \/ CutShort \/ Reboot
  \/ \E s \in Services : Plug(s) \/ Unplug(s) \/ \E v \in Settings : Choose(s, v)

Spec == Init /\ [][Next]_vars

\* People run `mole down` until it has nothing left to do, a service comes back, and a
\* command that is tried again and again succeeds.
Fairness ==
  /\ WF_vars(Down) /\ WF_vars(DownStep)
  /\ \A s \in Services : WF_vars(Plug(s))
  /\ SF_vars(ReadForRestore("down") /\ pc'["down"] = "give")
  /\ SF_vars(GiveBack("down") /\ todo' = {})
  /\ SF_vars(Settle("down") /\ ~file')

FairSpec == Spec /\ Fairness

----------------------------------------------------------------------------
(* Properties.                                                             *)

Resolvers == Settings \cup {Tun}
Backups == [Services -> Settings \cup {Missing}]
Undo == {"unload", "untune", "restore", "give", "settle"}
DaemonPlaces == Undo \cup
  {"off", "boot", "read", "save", "point", "backup", "tune", "load", "enable", "token",
   "start", "run", "bye"}
DownPlaces == Undo \cup {"idle", "look", "wait", "verify"}

PlacesOK ==
  /\ pc \in [Procs -> DaemonPlaces \cup DownPlaces]
  /\ pc["daemon"] \in DaemonPlaces /\ pc["down"] \in DownPlaces

FlagsOK ==
  /\ file \in BOOLEAN /\ anchor \in BOOLEAN /\ token \in BOOLEAN /\ armed \in BOOLEAN
  /\ pid \in BOOLEAN /\ box \in BOOLEAN /\ root \in BOOLEAN /\ failed \in BOOLEAN

\* Types of the host, the files and the two processes.
TypeOK ==
  /\ PlacesOK /\ FlagsOK
  /\ present \subseteq Services
  /\ dns \in [Services -> Resolvers] /\ own \in [Services -> Settings] /\ saved \in Backups
  /\ knob \in {"stock", "tuned"} /\ knobFile \in {"none", "torn", "stock", "tuned"}
  /\ copy \in Backups /\ todo \subseteq Services
  /\ report \in {"none", "error", "stopped"}

\* The backup holds owners' values only, and what is not at its owner's is on record.
Recorded ==
  /\ ~file => saved = Nothing
  /\ \A s \in Services : saved[s] \in {Missing, own[s]}
  /\ \A s \in Services : dns[s] = own[s] \/ (dns[s] = Tun /\ saved[s] = own[s])

\* What a process in a transaction holds agrees with the backup.
InStep ==
  /\ pc["daemon"] = "save" =>
       \A s \in Services : /\ copy[s] \in {Missing, own[s]}
                           /\ s \in todo \/ saved[s] # Missing => copy[s] = own[s]
  /\ pc["daemon"] = "point" => \A s \in todo : saved[s] # Missing
  /\ \A p \in Procs : pc[p] = "give" =>
       \A s \in Services : IF s \in todo THEN saved[s] # Missing /\ copy[s] = saved[s]
                                          ELSE saved[s] = Missing
  /\ \A p \in Procs : pc[p] = "settle" =>
       \A s \in Services : IF s \in todo THEN saved[s] # Missing ELSE saved[s] = Missing \/ dns[s] = own[s]

\* `mole down` gives back only when the daemon is gone, and reports no success otherwise.
Alone ==
  /\ pc["down"] \in Undo \cup {"verify"} => pc["daemon"] = "off"
  /\ pc["down"] \in {"untune", "verify"} /\ ~failed => ~file
  /\ report = "stopped" => ~file /\ ~pid /\ ~box /\ pc["daemon"] = "off"

\* The inductive invariant (takeOver, restore, runDaemon, runDown).
IInv == TypeOK /\ Recorded /\ InStep /\ Alone

\* The DNS of the host as a setting that is borrowed.
Lending == INSTANCE Borrowed WITH
  Items <- Services, Values <- Settings, Lent <- Tun, setting <- dns, kept <- saved

\* takeOver, restore, saveBackup: however the two processes fail, are killed or start over,
\* a service is at the tunnel's resolver only while its owner's is in the backup, the backup
\* holds nothing else, and it forgets a service only when that is back in place.
DnsIsBorrowed == Lending!Spec

\* `mole down` says "VPN stopped" only with every service at its owner's resolver, no pid
\* file, no daemon and no sing-box (runDown).
StoppedIsClean ==
  report = "stopped" => dns = own /\ ~file /\ ~pid /\ ~box /\ pc["daemon"] = "off"

\* Once nobody brings it up, kills anything or unplugs a service any more, every service
\* gets its owner's resolver back and the backup goes (RestoreDNS retains it for retry).
Disturbed == Up \/ Kill \/ CutShort \/ Reboot \/ \E s \in Services : Unplug(s)
DnsIsGivenBack == <>[][~Disturbed]_vars => <>[](dns = own /\ ~file)

\* cmd/down.go: "still tidy up any host state a previous unclean exit may have left behind.
\* That includes a kill switch armed by a SIGKILL'd daemon": a `mole down` that reports
\* success leaves neither the sysctls nor the anchor.
DownTidiesUp == report = "stopped" => knob = "stock" /\ ~anchor

=============================================================================
