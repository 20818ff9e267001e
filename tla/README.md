# mole: a TLA+ development

`mole` is a VPN client for macOS: a command line, and a daemon that supervises
sing-box, watches the path, moves traffic between two transports and destroys
the rented server when the lid shuts. This directory models the parts of it
whose correctness depends on interleavings, failures and time, checks them with
TLC on small instances, and proves the central facts with TLAPS for every value
of the constants. Line numbers refer to the source in this repository.

## The system

| Part | State | Operations | Hard because |
|---|---|---|---|
| Transport failover (`core/supervisor.go`, `standby.go`, `legmeasure.go`, `monitor.go`, `cmd/leg.go`) | `fallbackState`, `KeepaliveFails`, the dial window, `probeGeneration`, `legTestAt`, the pin file, the sing-box selector | keepalive beat, fresh dial, paired comparison, timed return, scheduler tick, `mole leg` | two goroutines and a command move one selector; every decision spans network calls |
| Destroy on lid close (`core/destroy.go`, `utils/liddebt.go`, `cmd/server.go`) | `LidDestroy` marker and times, `lidMu`, the debt file, `servers.json`, the account | lid close, deferral, reconcile from probe loop, wake and uplink, server use and destroy | the machine sleeps in the middle; the management call fails, or acts and loses its answer |
| Self-heal ladder, health verdict (`core/supervisor.go`, `utils/state.go`, `core/schedule.go`, `cmd/ceiling.go`) | `healState`, the ceiling pin, the selector, latches | tick, retarget, select, `mole ceiling` | hysteresis; the verdict and the floods disagree; the pin changes under the tick |
| Dual-leg balancing (`core/balance_*.go`, `udp_pressure.go`, `flood.go`) | eight lane selectors, thresholds, the pressure latch | balance tick, lane writes | lanes are written one by one and can fail halfway |
| sing-box lifecycle (`core/singbox.go`, `runLifecycle`) | the child process, its exit channel, the config | start, stop, restart with backoff, orphan cleanup | crashes at any point, orphans of an earlier daemon |
| Start and stop (`cmd/up.go`, `cmd/down.go`, `utils/pid.go`, `daemon.go`) | pid file, take-over order | up, down, signals | check-then-act between processes; unwinding order |
| Host state (`utils/dns.go`, `sysctl.go`, `killswitch.go`) | DNS of each service and its backup, PF anchor, buffers | take over, restore | killed between steps; one service of several fails |
| Server store (`cmd/server_store.go`) | `servers.json` under a file lock | append, change, remove, use | processes race; the lock times out |
| Deployment (`cmd/deploy_*.go`, `server.go`, `verify_server.go`, `repair.go`) | `receipt.json`, the instances of the account, firewall rules | deploy, destroy, stop, start, wake-up, verify, reconcile, adopt, import | a create or delete call that may have acted; an interrupt or a kill between any two steps |
| Rules, exemptions (`core/ruleswatch.go`, `utils/directexempt.go`) | stamps, retry clock, exempted addresses | watch, compile, prune | change during work |
| State file (`utils/state.go`) | `state.json` | snapshot, write | snapshots are ordered by one lock, writes by another |
| Configuration compiler, probes, status | none, or only files | translate, measure, print | input and output, no protocol |

The parts meet in four places. The **selector** of sing-box is moved by
keepalive, by the bandwidth scheduler and by `mole leg`. The **stateMu** fields
are written by every loop and published by all of them. The **servers.json**
and debt files are written by the daemon and by commands in other processes.
The **host's settings and their backups** are written by the daemon and by
`mole down`.

What makes each part correct: a pin is obeyed and prevails, traffic ends up on
the leg that carries, memory and selector agree in the end (failover); a lid
close is answered, an open lid ends it, a debt is on record and names a real
bill (lid); every rung of descent was paid for in floods, a pinned ceiling
prevails, lasting floods do lower it (self-heal); no lane goes to a leg that is
not trusted, and lanes, published allocation and `proxy` agree in the end
(balancing); at most one engine, and none after down (lifecycle); the host is
what it was before up, whatever died (host state); no lost update (store); no
instance that bills without a record, and no record of a destroy that did not
happen (deployment).

## Modules

| Module | Models | Status |
|---|---|---|
| `LegFailover` | the failover and all three writers of the selector | done |
| `MCLegFailover` | the network conditions of its runs | done |
| `LegFailoverProofs` | its types, the pin theorem, no flapping | done |
| `LidDestroy` | lid close, debt, retries, server use and destroy | done |
| `MCLidDestroy` | the symmetry of its servers | done |
| `LidDestroyProofs` | types and lock, the record, the proof of settling, open and shut lids | done |
| `Borrowed` | a host setting that is borrowed and given back (abstract) | done |
| `HostState` | take-over and restore of DNS, sysctls and the PF anchor over `mole up` and `mole down`; implements `Borrowed` | done |
| `HostStateProofs` | its invariant, the clean stop and the refinement | done |
| `Registry` | a list of servers that enter and leave one at a time (abstract) | done |
| `Servers` | `servers.json` under its lock, the receipts and the account, with every `mole server` command; implements `Registry` | done |
| `MCServers` | the symmetry of its processes | done |
| `ServersProofs` | the lock, the file, the refinement; bills, receipts, entries | done |
| `Ladder` | the rungs and how to step between them | done |
| `LadderProofs` | that stepping stays on the ladder, adds up, and is monotone | done |
| `SelfHeal` | `healState`, the clock and the pin, the scheduler's tick, `mole ceiling`; on `Ladder` | done |
| `SelfHealProofs` | its invariant, that descents are earned and followed | done |
| `Balance` | the balancer's round, the lanes, the pressure cap, with the scheduler and `mole leg`; on `Ladder` | done |
| `MCBalance` | the conditions of its run | done |
| `BalanceProofs` | its invariant, trusted lanes, a balance that stays, the pressure cap | done |
| `Tenancy` | a machine with one tenant and its engine (abstract) | done |
| `Engine` | sing-box under the goroutines of its daemon, and the daemon under `mole up` and `mole down`; implements `Tenancy` | done |
| `EngineProofs` | its invariant, one engine, readiness, a thorough `mole down`, the refinement | done |

Left for later, in this order: the verdict (`State.Health` with the link and
dial latches) as functions over sequences of samples against a reference; the
order of snapshots and writes of `state.json`; the retry clock of rule
watching.

### LegFailover

Two goroutines, `K` (`runKeepalive`) and `S` (`runBandwidthScheduler`), and the
`mole leg` command. A step is what runs between two points where a goroutine can
lose the processor for long: a network call or another goroutine's lock. So
`enterFallback` is `EnterFallback` (checks, and the commit under `fallbackMu`),
`WarmFallback` (up to five seconds through the tunnel), then `SelectFallback`,
then `ResetKeepaliveCount` or `UndoFallback`; a keepalive is `StartKeepalive`
and `FinishKeepalive`; `apply` is `ApplyPinned` or `ApplyAuto`, perhaps
`VerifyLegRecovery`, `SelectPrimary`, `ReleaseFallback`, then
`CompareSelection`, `CheckGeneration` and `SelectMember`. `probeGeneration` is
the flag `current`: no reset since the goroutine loaded it. `mole leg` writes
its file in two steps (`TruncateLeg`, `WriteLeg`) because `os.WriteFile`
truncates first, and selects in a third.

Abstractions: the rungs of the hy2 ladder are one leg; a sample is clean, slow
or dead; clocks count minutes and saturate where the code only compares them;
the probe's verdict and the first hop may be anything at any time; the node has
a REALITY leg and a known address. `both` leaves the selector to the balancer,
which may choose either leg.

### LidDestroy

Goroutines `N` (power notifications, which arrive one at a time), `T` (probe
loop) and `U` (the goroutine started when the uplink returns; one at a time is
kept). `reconcileLidDebt` is `ReadOwed`, before the lock, then under `lidMu`
one of `SeeLidOpen` (and the record that follows), `Retry`, or `NotNow`; a
delete in flight ends in `DestroySucceeds`, `DestroyFails` or `NothingLocal`.
The lid close is `DeferLidClose` (without the lock, as in the code) or
`OnLidClose` and `DestroyOnClose`, which waits. `DaemonStops` may happen
anywhere, also with a delete on its way. Commands act on `servers.json` and the
debt file: `Use`, and `Destroy` with or without `--force-local`.

The debt file is best effort in the code, which drops the error of every write
and removal; `Persist` and `ClearLidDebt` may leave it as it was, and `filed` is
a history of whether it took the daemon's last word.

Abstractions: the dry run is off, the clamshell can be read, every entry has an
instance, an update of `servers.json` is atomic, a management call is over
within a minute, and people use the machine with the lid open.

### HostState

Two processes: the daemon (`runDaemon`) and one `mole down` (`runDown`). A step
reads or changes one file or one part of the host, so a kill or a restart of
the machine falls between any two. The daemon goes through `Boot`,
`ReadForTakeOver`, `SaveBackup` (a rename, so all or nothing), `Point`,
`BackUpKnob`, `TuneKnob`, `LoadAnchor`, `EnableFilter`, `WriteToken` and
`StartBox`; a failure or the end of the run goes to the deferred calls, which
undo in reverse (`After`). `mole down` looks (`Tidy` when nothing is alive,
`Term` otherwise), waits, sweeps (`Sweep`), undoes in an order of its own and
verifies (`Verify`). Both share the restore: `Unload`, `Untune`,
`ReadForRestore`, `GiveBack`, `Settle`. A round of `networksetup` calls over
all services is one step that gets through to any subset of them when it may
fail, and never to a service that is unplugged. `Interrupted` is what SIGTERM
does at each place.

`copy` and `todo`, the local variables of the restore, belong to whichever
process is in it: `mole down` restores only when the daemon is gone (`Alone`).
Abstractions: people type one command at a time and leave the resolver of a
service alone while it is borrowed (between the commands they may change any
other, and plug and unplug at any time); SIGKILL takes; the sysctls are one
knob; the contents of the anchor, state.json and `--destroy` are left out.

`Borrowed` is the promise: owners choose, what is about to be lent goes on
record, settings move between the lent value and the recorded one, and an item
comes off the record only once it is back. `HostState` maps its resolvers and
its backup file to it (`Lending`).

### Servers

Processes that each run one command. A command reads the file without the lock,
talks to the provider, and then makes one change: `Lock` (or `LockFails`),
which reads the file again, and `Write` (or `WriteFails`), which applies the
change to that copy and renames it into place. What the change makes of the
file is `Outcomes`: `AppendServer`, `ChangeServer`, `RemoveServer`, `UseServer`
and `FillAddresses`, one operator per function of `server_store.go` and
`server.go`. A deployment is `StartDeploy`, `CreateStartupScript`, `Order`,
`CreateInstance`, `Created`, `Recorded`, `WaitForIP`, `Addressed`,
`VerifyNode`, `Verified`, and `WorkIsOver`, after which an interrupted one
deletes what it created (`CleanupInstance`, `CleanedUp`); `Interrupt` is
noticed only where the code looks. `stage` is what `receipt.json` says. The
other commands are a `Start...` action, their calls (`DeleteInstance`,
`PowerInstance`, `PollInstance`, `ListInstances`, `DestroyRemote`) and the
change of the file. `Kill` takes a process anywhere, and its lock with it. A
call to the provider fails, succeeds, or acts and loses its answer.

Abstractions: a deployment and the instance it may create have one identity; an
address is there or not; the order of the file decides only who inherits the
active mark, and any entry may; `stands` is a history of what an entry was
added for, which the program does not store. Imported and adopted nodes may bear
any name, one in use included: the commands look before they start and the file
is asked again under the lock, but a removal by name may meet another entry than
the one it was meant for (`Careless`; `dropped` is a history of what went that
way). `mole server start` and the wake-up look for `status`
outside the envelope the provider answers in (`TopLevel`), as the code does, so
the wait of `start` always runs out and the wake-up never succeeds.

`Registry` is the promise of the file, whatever commands race: servers enter
the books under a name and an instance nobody there has, and leave, one at a
time. `Servers` maps the entries' names and instances to it (`Books`).

### SelfHeal and Ladder

The scheduler's minute is `Minute`: the verdict and the flood count go through
`HealTick`, after `Retarget` when the target has changed. Then come
`CompareSelection`, `CheckGeneration` and `SelectMember`, each around a call of
the local API. `mole ceiling` writes its pin in two steps (`TruncateCeiling`,
`WriteCeiling`) and then asks and selects (`AskCeiling`, `SelectCeiling`).
A leg change commits to a leg (`LegChange`), warms the member it will select
for seconds, and selects it late: `LateSelection` comes at any later time, with
REALITY or a resting point of the ladder as it was read then, without the
descent. `Clock` is the local hour. `sightings` is a history: the flooded
minutes since the pin last changed, those left out in which the keepalive is
known to be dark. It is kept across the edge of the peak window, and counts a
flood whose verdict is a refused probe, because the code does both (see below).

Abstractions: a member of the selector is its rung, REALITY is 0; the verdict
is an input, any of the six at any minute; `both` is not in force.

### Balance

The balancer's round is `BeginSingle`, `BeginBlind` (a bad first hop) or `Aim`;
then the lanes one `WriteLane` at a time, `Probe` (both legs are measured and
judged, `Observe`, and the share decided), the lanes again, and `Route`, which
publishes the allocation and moves `proxy`; `Forget` follows a restore under a
single leg. `Aim` ages and presses the pressure cap and moves the probe
selector; during a cooldown it drains the lanes to REALITY. `mole leg` writes
its pin (`LegBoth`, `LegSingle`) and resets the lanes one by one (`ResetLane`,
`EndSingle`). The scheduler decides by what is published (`Decide`), then pushes
the rate, asks and warms up, and selects late: `moves` is what is still on its
way to `proxy`, and `Move` ends such a tick with its selection or without. Under
a single leg everybody moves `proxy` anyhow (`Schedule`). `BoxRestart` forgets
every selection, and `World` changes the conditions.

Abstractions: a probe's answer is clean, slow or dead; a lane is asked and set
in one step; the ceiling of the scheduler is fixed, since it moves far slower
than the rounds; elapsed time is a number of rounds.

### Engine

A daemon is a record with the places of its three goroutines (`Main`, `Run`,
`Life`), `currentProcess`, whether its exit channel is closed, and the two signs
to stop. A sing-box is an entry of `parent`: whose it is, or an orphan. Start,
Stop and the waiter that reaps hold `processMutex`, so each is a step. Until
`Notify` a daemon is killed by a signal. Its deferred calls remove state.json
(`RemoveState`) and the pid file (`RemovePID`), and the process lives on: it is
in `leaving`, where its goroutines may still start, record and stop a sing-box
(`LastStart`, `LastWrite`, `LastStop`) until `Exit`. `Command` is `mole up`
(look for a daemon, sweep orphans, daemonize, wait) and `mole down` (collect,
and either `Clear`, or TERM, KILL, sweep, tidy, verify); `Nature` kills daemons
and sing-boxes, wedges a sing-box so that no signal ends it, and makes the
engine fail to start.

Abstractions: commands run one at a time and `mole up` is not interrupted
before the pid file is there; every daemon is visible to `pgrep`; a process id
is not given again while a file, a goroutine or a command remembers it; a
process id is a daemon's or a sing-box's; the length of the pause before a
restart is left out. `MaxAstray` bounds the leaving daemons, the wedged
sing-boxes and those that leaving daemons left (`Stray`), all together.

`Tenancy` is the promise to the machine, whose TUN device, ports and routes
serve one: a daemon moves in only where no other lives and no engine runs, only
the tenant starts an engine, an engine left behind belongs to nobody, and it is
ended before the next daemon moves in. `Engine` maps the daemon that has its pid
file, or is about to (`Holder`), and the sing-boxes it or its dead predecessors
started to it (`Machine`). Outside the promise are a sing-box that no signal can
end, as it is outside what `mole` can do, and one whose daemon has removed its
pid file: `mole up` does not see that daemon, and its sing-box is no orphan, so
a second engine can come up beside it.

## Runs

| Run | Bounds | Shows |
|---|---|---|
| `LegPins` | pins auto and hy2, refused selections, any network; every count 1, a dwell of one minute | `IInv`, `PinIsNeverOverridden`, `PinConverges`, `DecisionPrevails` |
| `LegReach` | no pins, refused selections, exactly one leg carries and which one may change | `SteadyStays`, `TrafficReachesCarryingLeg` |
| `LidRecord` | two servers, graces 0 and 1, floor 1, calls that fail or lose their answer, writes of the debt file that fail; servers are symmetric | `IInv`, `OwedIsOnRecord`, `CloseStands`, `SettledIsProven`, `OpenLidIsSafe` |
| `LidAnswered` | one server, calls that fail or lose their answer | `LidCloseIsAnswered`, `OpenLidEndsIt` |
| `LidDebtDropped` | two servers | violated: `DebtClearedOnlyWhenGone` |
| `HostGiven` | one service, two resolvers, every fault | `IInv`, `StoppedIsClean`, `DnsIsBorrowed`, `DnsIsGivenBack` |
| `HostTidy` | one service, no fault but kills | violated: `DownTidiesUp` |
| `ServersKept` | two processes, one deployment, two names that anybody may use, every command; processes are symmetric | `IInv`, `BillIsOnRecord`, `DestroyedIsOver`, `StoreIsRegistry`, `EntryOutlivesBill` |
| `ServersAdopted` | one process that deploys, adopts, imports and destroys | violated: `DestroyedIsGone` |
| `SelfHeal` | a ladder of three rungs (a fourth is above its maximum), a two-hour day with a peak hour, a pin to the middle rung, late selections of any resting point, two bad ticks to descend, two good ones to climb, one rung of descent | `IInv`, `DescentIsEarned`, `CeilingFollows`, `CeilingPrevails`, `FloodLowersCeiling` |
| `Balance` | two lanes, one for hy2, a leg withdrawn after one failure or two slow answers, a cooldown of one round, ticks under way for either leg, five conditions: all well, REALITY dead, hy2 slow, a bad link, and a storm in which sing-box fails too | `IInv`, `NoLaneToADeadLeg`, `BalanceStays`, `LanesSettle`, `LanesComeBack`, `CapIsLifted` |
| `Engine` | two process ids for daemons and three for sing-boxes, every fault, one leaving daemon, wedged or stray sing-box at a time | `IInv`, `OneEngine`, `ReadyIsReal`, `DownIsThorough`, `OneTenant`, `EngineComesBack` |

The bounds are enough because thresholds only count: a window or a streak of
one failed sample reaches every branch that one of six or twenty reaches, and
interleavings do not depend on the count. Where adding up matters (the bad
minutes of a descent, the slow answers of a leg) the streak is two. A dwell of
one minute leaves nothing to double in `LegPins`; that the dwell stays within
its cap for every one is part of `FailoverTypes`. Two servers are
what it takes to confuse them in `LidDestroy`; its liveness run has one, since
only the active server's destroy is awaited. One network service is enough for
`HostState`: each is taken over and given back on its own, a round of calls may
reach any subset of them, and the theorems hold for any number. Nothing in
`HostState`, `Servers` and `Engine` is counted, so those runs cover every length
of behaviour. Two processes are what a race for `servers.json` takes; one
deployment and two names make two entries, which is what inheriting the active
mark and a name that changes hands take. Two lanes are what it takes to be
written halfway. Two daemons are one and its predecessor, three sing-boxes one
for each and one that a file still remembers; where `NewPid` has none left, the
step waits until a number is forgotten.

Several properties come in pairs, what happens in the end and what no step may
do meanwhile: `TrafficReachesCarryingLeg` and `SteadyStays`, `CeilingPrevails`
and `CeilingFollows`, `LanesSettle` and `BalanceStays`, `LidCloseIsAnswered` and
`CloseStands`, `OpenLidEndsIt` and `OpenLidIsSafe`, `EngineComesBack` and
`OneTenant`. The second of each needs no fairness and is proved. The two runs of
`LegFailover` exclude time-outs of the local API that acted all the same (their
answers are `ok` and `fail`); the theorems do not.

The violated properties quote comments of the source; PROJECT.json lists each
finding with its line.

- `LidDebtDropped`: settling one server's destroy removes the debt file of
  another. The shortest trace goes through a misnamed debt; the same happens
  when a debt left by an earlier daemon names another server correctly.
- `HostTidy`: `mole down` that finds nothing alive stays an ordinary user, so
  `sysctl -w` fails; the backup is removed all the same and the sysctls stay
  tuned until the machine restarts. The same property fails in a second way: a
  daemon killed after `pfctl` and before the token is written leaves an anchor
  that `KillSwitchLoaded` denies, and that path of `mole down` does not unload
  it.
- `ServersAdopted`: `mole server adopt` reads the answer without its envelope
  and stores an entry without an instance id, so `mole server destroy` takes it
  for a node that was never rented: the entry goes, the instance bills on.

### Also noticed

Seen while modelling, without a run of their own.

- Failover: failed beats on both legs add up over a short `mole leg hy2`, so a
  beat that hy2 carried can enter the fallback *to* hy2 (`supervisor.go:924`). A
  pin written while `enterFallback` warms the standby leg is overridden until
  the next tick (`supervisor.go:1333`). When that selection is refused the log
  says that traffic stays on REALITY, although a tick may have moved it to the
  ladder during the pre-warm (`supervisor.go:1337`). `supervisor.go:102` says
  `fallbackMu` is never taken while `stateMu` is held, but `keepaliveOnce`
  evaluates `activeOnHy2` and `onFallback` under `stateMu`; the opposite order
  occurs nowhere, so nothing deadlocks.
- Lid: `reconcileLidDebt` reads when the lid was shut before it takes `lidMu`
  (`destroy.go:293`). A lid that opened and shut again before the lock is taken
  has started a new grace, and the retry still counts the old one; the pause
  would have to last a minute. After `mole server use`, a failed destroy is
  filed under the name the daemon was started with (`supervisor.go:1886`). The
  errors of writing and removing the debt file are dropped
  (`supervisor.go:1885`, by intent), so a daemon that is killed after one may
  leave a debt unrecorded.
- Self-heal: `heal.bad` is not reset by dark ticks, so two floods an hour apart
  descend a rung, while `flood.go` says that descending requires flooding that
  persists. `mole ceiling` asks and then selects, so it can pull traffic off
  REALITY until the next tick. The comment at `supervisor.go:604` says that the
  descent restarts when the ceiling target changes under it; `retarget` is given
  the pin alone, so the edge of the peak window keeps it. The comment at
  `supervisor.go:653` says that a flood inside a keepalive blackout holds the
  ceiling; the verdict of a refused probe is returned before the keepalive is
  looked at (`state.go:386`, `407`), so with both the ceiling goes down.
  `enterFallback` and `mole leg hy2` select the resting point of the ladder,
  which undoes a descent until the next tick; the comment at
  `supervisor.go:1562` says that nothing else writes the ladder's selector
  between ticks.
- Balancing: when a first allocation fails halfway nothing is published, and if
  the reset of `mole leg` fails too, nobody repairs the lanes. sing-box keeps
  its selections over a restart of the daemon, which starts with nothing
  published, so a pin changed meanwhile leaves the lanes split. A new allocation
  does not move the generation, so a tick that was decided on the old one may
  still select by it; the next tick repairs that.
- Engine: `Run` closes `doneCh` before its deferred `Stop`, though
  `supervisor.go:449` says it is closed when `Run` has fully returned; the
  process may exit in between and leave an orphan, which the next command
  sweeps. `up.go:74` says that no daemon lives once `CheckAlreadyRunning` has
  passed; but the pid file goes in a deferred call, before the process does
  (`up.go:249`), and its sing-box, whose parent lives, is not swept: a `mole up`
  in that instant starts a second engine beside it. `Engine` reaches this, and
  `OneEngine` leaves it out. The sing-box pid of a stale `state.json` is killed
  if any process has it (`singbox.go:222`). Two concurrent `mole up` start two
  daemons (`pid.go:130`).
- Link: the comment at `linkprobe.go:30` says the gateway is read again on
  every uplink change; `runLinkProbe` refreshes it only when it has none or on
  a socket error.
- Servers: `reconcile --destroy-remote` reads the file, then the account, and
  does not look again before it deletes (`server.go:981`). A change by name, for
  an entry without an instance, can hit another entry that has taken the name
  since: a `mole server destroy` of an imported node which overlaps with a
  removal of that node and a deployment under its name drops the deployment's
  entry, whose instance bills on with no record but the receipt of a finished
  deployment (`server_store.go:129`). Two `mole server repair` share one
  firewall rule, and a killed one leaves it open. Only the first hundred
  instances are listed (`server.go:1825`).

## Fairness

`LegFailover`. `PinSpec` assumes the scheduler keeps ticking (weak fairness:
it is a ticker loop) and that a local API call repeated for ever succeeds
infinitely often (strong fairness of the "ok" answers: sing-box is on the same
machine, and a dead one is restarted). Nothing is assumed of keepalive, the
user or the network, so pins are shown to prevail without help.
`TrafficReachesCarryingLeg` needs more: both goroutines run, time passes, a
fresh dial comes due, and `Prompt`: a goroutine in the middle of a routing
change finishes it before the other completes a new *measurement*. Local calls
take milliseconds and measurements take tunnel round trips; without this TLC
finds behaviours in which the two goroutines undo each other for ever in step.
The pre-warm of `enterFallback` is a tunnel round trip itself and not urgent:
whole ticks of the scheduler fit between the stay and its selection. The safety
properties are proved without `Prompt`, and `LegPins` uses plain interleavings,
for `DecisionPrevails` too.

`LidDestroy`. The probe loop ticks, a notification the system holds sleep open
for is delivered, time passes, a goroutine that was started runs, and a delete
that is attempted infinitely often succeeds in the end (strong fairness). The
lid, the uplink and people are free; a premise says when they settle.
`LidCloseIsAnswered` is stated without a grace: with one, `DeferLidClose` takes
no lock and a cancellation under way can swallow the close (a hazard listed in
PROJECT.json).

`HostState`. `FairSpec` assumes that people type `mole down` again as long as
there is something to do, that it then runs, that an unplugged service comes
back, and that reading, setting and saving succeed in the end when they are
tried for ever (strong fairness). The daemon owes nothing: it may hang anywhere
and be killed. The premise of `DnsIsGivenBack` is that `mole up`, kills,
restarts and unplugging stop.

`SelfHeal`. The scheduler ticks (weak fairness of its ticker loop), and a local
call that is repeated for ever is answered in the end (strong fairness of the
"ok" answers, as in `LegFailover`). `CeilingPrevails` assumes that the pin and
the leg stand, no late selection is to come and the verdict is good from some
time on; `FloodLowersCeiling` that floods last.

`Balance`. The balancer's loop runs, a tick of the scheduler that is under way
ends, and a round takes no longer than its interval infinitely often: a round
that always overran would age the pressure clocks in jumps, and `CapIsLifted`
counts on `Aim(1, _)`. Calls fail only while the condition says that sing-box
does; the premises say when the conditions settle.

`Engine`. The goroutines of each daemon run; nothing is owed by people, commands
or the machine. `sound` says that configuration, binary and network let
sing-box run; `EngineComesBack` assumes that they do in the end and that the
daemon serves.

`Servers` has no liveness: a command is run when somebody types it, and every
one of them may fail.

## Proofs

All theorems hold for every value of the constants that satisfies the named
assumptions (counts are positive naturals, the dwell's floor is not above its
cap, at least one server, and so on).

- `FailoverTypes`: `Spec => []IInv` for the failover. `IInv` is `TypeOK` and
  `CarriedOK`. `TypeOK` alone is not inductive: that the selector stays a leg
  when `SelectMember` writes the carried member needs that a goroutine there
  has one, which `CarriedOK` says per place. The bound on the dwell comes from
  `NextDwellType`, the bound on the window from `RecordType`. One lemma per
  operation both goroutines share, then one step per action (`StepIInv`).
- `PinDisarmsFailover`: `Spec => PinIsNeverOverridden`. `Settled(l)` says that
  the pin stands and nothing decided before it is on its way to the selector;
  `SettledStep` shows that no step leaves it while the pin stands, none begins a
  stay and none moves the selector off the leg.
- `SteadyTheorem`: `Spec => SteadyStays`, without `Prompt`. `Steady` lists what
  is still under way from before the weather turned and could move traffic: a
  request that rides the other leg, a comparison that saw it clean, a tick
  whose generation stands. One case per action; the generation check decides
  the tick's.
- `LidTypes`: `Spec => []IInv` for the lid. `Locked` is an equivalence between
  the lock's holder and the places under it; only that form is inductive,
  because each release must know that it was the holder.
- `OwedOnRecord`: `OwedIsOnRecord` is inductive by itself. The interesting steps
  are a person's destroy, which can remove the file only with the entry it
  names, and a restart under another name, which finds nothing owed.
- `SettledOnProof`: of all steps only a delete that was answered, and an empty
  account, raise `gone`.
- `OpenLidTheorem`, `CloseTheorem`: both rest on `Locked`. Under an open lid a
  goroutine that holds an old reading meets the clamshell again under `lidMu`
  and can only record a reopening or a cancellation. With the lid shut,
  `CloseStands` is inductive given the invariant: while one goroutine
  cancels, it holds the lock and the new close waits for it; while one is at
  the provider, its failure owes.
- `HostInvariant`: `Spec => []IInv` for the host state. `Recorded` (what is not
  at its owner's resolver is on record, and the record holds owners' resolvers
  only) is the heart, but not inductive: that saving, pointing and giving back
  keep it depends on what the process in the middle carries (`InStep`), and
  that the daemon and `mole down` never carry it at once (`Alone`).
- `CleanStop` and `OwnersValueSurvives` follow from it: the first because
  `mole down` reports success only without a backup file, and without one every
  resolver is its owner's.
- `DnsImplementsBorrowed`: `Spec => DnsIsBorrowed`. Under the invariant saving
  is a `Note`, pointing and giving back are a `Move`, settling is a `Forget`, a
  person's change is a `Choose`, and every other step stutters (`StepLends`).
- `FileInvariant` and `RegistryTheorem`: `FileInv` says that whoever holds the
  lock has read the file as it is, that the file holds nothing twice, and that
  what is about to be appended is an entry (a deployment has one in hand from
  its start). One lemma for the steps of a process outside the lock
  (`Elsewhere`), one for those that let go of it (`Released`), and one per
  action. `OutcomesTurn` shows that whatever a change makes of the file it
  read, one server enters the books, one leaves, or none; since that file is
  the file as it is, the write is a step of `Registry`.
- `ServersInvariant`, `BillTheorem`, `DestroyedTheorem`: `Spec => []IInv` for
  the store, and the two promises in it. Bills and receipts are not inductive:
  whether the next change of a receipt or of the file is right depends on what
  the command took from the file, the account and the receipts several steps
  ago. `Fits` says of one process that what it carries still agrees with them,
  place by place. `Onward` says what a step of one process may do to the facts
  the others rest on: an instance that exists stays one that existed, what is on
  record stays on record, and only the process of a deployment creates its
  instance, enters it, or moves its receipt anywhere but to `recorded`
  (`OthersFit`). `MovesOn` is the step of a process that leaves the file alone;
  `WriteHolds` the one that changes it, by what the change does to the books
  (`WriteBooks`); one lemma per action on top. `EntryTheorem` follows: a write
  that drops an entry comes after an answer of the provider, or is careless, and
  what is gone stays gone (`LeavesWhenGone`). Nothing is assumed of names. That
  the file has one active entry follows from the five changes one by one
  (`OutcomesKeepOne`).
- `DescentStaysOnTheLadder`, `AscentStaysOnTheLadder`: for any finite ladder
  there is a rung of every height (`Ladder` picks by counting), so the CHOOSE
  of both steps has a witness. `DescentsAddUp`, `DescentIsMonotone` and
  `AscentUndoesDescent` compute with the rank of a rung, the number of rungs up
  to it (`RankOf`): it orders the ladder, and a descent subtracts from it.
- `HealInvariant` and `DescentTheorem`: `DescentIsEarned` weighs the descent in
  bad minutes, backoff times the price of a rung plus the minutes counted so
  far, against `sightings`. It needs `FullAtTheBottom`: the counter stands at
  its threshold only when there is no rung left to descend.
- `CeilingFollowsTheorem`: `Following` says that between ticks the selector is
  on the rung of the descent, and within a tick that the member carried is and
  its generation stands. A minute moves descent and member together
  (`MinuteFollows`); the calls of a tick that are answered bring the selector
  there (`TickFollows`).
- `BalanceInvariant` and `NoLaneToADeadLegTheorem`: a lane is written from
  `policy.lanes`, which while lanes are written is the share of what the last
  measurement said of both legs, and a drain begins only while REALITY is
  trusted. Nothing but `Probe` changes what is thought of a leg, and it runs
  with no lane half written.
- `BalanceStaysTheorem`: `Balanced` joins what is thought, written and
  published, and excludes a round or a tick that was decided otherwise: what the
  allocation still has under way goes where `proxy` is (`DecideStays`,
  `MoveStays`). Under it each
  write repeats what is there, and a probe under the same conditions confirms
  the judgement (`JudgementStays`).
- `FloodOnlyLowers`, `ReliefClimbsOneRung`: of one round, for every ladder: a
  flood never raises the ceiling of hy2, and its absence raises it one rung at
  most, also where the round judges hy2 healthy in the same breath. The first
  needs a cooldown, as the code has one: it keeps the judgement from lifting
  what the flood has just pressed.
- `EngineInvariant`, `OneEngineTheorem`, `ReadyIsRealTheorem`,
  `DownIsThoroughTheorem`: one engine is not inductive by itself. It rests on
  one daemon with a pid file (`OneDaemon`), which tracks what it started
  (`Tracked`); on orphans, which are swept before a daemon starts, so that only
  the wedged ones remain beside it (`OrphansAreWedged`); and on the pids on file
  being those of daemons whose engine came up (`OnFile`). `Swept` carries what
  `mole down` has ended so far to its end: the short path has found nothing, the
  long one has killed every daemon it saw, and nobody moves in meanwhile.
- `OneTenantTheorem`: `Spec => OneTenant`, step by step. `EveryStepMoves` shows
  that under that invariant each action moves the tenant in or out, starts or
  ends its engine, or does neither: one daemon makes `Holder` well defined,
  swept orphans leave the place empty for `MoveIn`, and what a start finds is
  empty because the daemon tracks what it started.

Every invariant and every action property of the passing runs is a theorem.
Only model-checked are the properties under fairness: `PinConverges`,
`DecisionPrevails`, `TrafficReachesCarryingLeg`, `LidCloseIsAnswered`,
`OpenLidEndsIt`, `DnsIsGivenBack`, `CeilingPrevails`, `FloodLowersCeiling`,
`LanesSettle`, `LanesComeBack`, `CapIsLifted`, `EngineComesBack`. The proof
system does not reason about liveness under fairness or ENABLED.

## Not modelled

- The verdict. `State.Health`, the link latch and the dial latch decide which
  of six words a minute gets; `SelfHeal` takes any word at any minute, which
  covers what they can say and more.
- The push of the rate to the node and the node's refusal of it: it changes
  nothing the ladder reads.
- In the failover the daemon's restart (its memory starts over, which is the
  initial state) and the ladder's rungs (`SelfHeal` has them).
- In the lid close the dry run, an unreadable clamshell, and a crash between a
  failed delete and the write of its debt beyond the fact that it loses the
  record.
- In `Servers` the boot scripts, the firewall group, SSH keys, and what a
  verification measures; of `mole server repair` only its change of the file.
- In `Engine` two commands at once, `mole down --destroy`, the preflight of the
  configuration and the rescue of the FakeIP cache.
- The order of snapshots and writes of `state.json`: an old snapshot may be
  renamed over a newer one and stays until the next write.
- Rule watching, hot rules and direct exemptions: stamps and caches around a
  compiler and a resolver, which no other part reads back.
- Configuration compilation, probing and status output: they translate, measure
  and print, and keep no state between calls.
