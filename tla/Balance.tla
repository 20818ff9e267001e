------------------------------ MODULE Balance ------------------------------
(***************************************************************************)
(* Dual routing, `mole leg both` (core/balance_controller.go,              *)
(* balance_policy.go, balance_io.go, udp_pressure.go, cmd/leg.go).         *)
(*                                                                         *)
(* New connections are spread over lanes by source port.  Each lane is a   *)
(* sing-box selector: it follows the selector `proxy`, or REALITY, or the  *)
(* ladder through the probe selector.  Every round the balancer measures   *)
(* both legs, folds the samples into what it thinks of them and writes the *)
(* lanes one by one; `mole leg` with a single leg writes them back one by  *)
(* one, and so does the balancer when it finds that pin.  The bandwidth    *)
(* scheduler and the failover move `proxy` too: they decide, warm the leg  *)
(* up for seconds, and select it late, whatever was decided meanwhile.  A  *)
(* lane is asked and set in one step: what it held in between matters to   *)
(* nobody.                                                                 *)
(***************************************************************************)
EXTENDS Ladder, Sequences

CONSTANTS
  BalanceLanes,     \* 8
  DefaultHy2Lanes,  \* lanes on hy2 when both legs are healthy, 2
  ErrorThreshold,   \* legErrorThreshold, 3
  SlowSamples,      \* balanceSlowSamples, 3
  RecoverSamples,   \* balanceRecoverSamples, 3
  Cooldown,         \* udpPressureCooldown, in rounds' time
  DropEvery,        \* udpPressureDropEvery
  RecoverAfter,     \* udpPressureRecover
  Ceiling,          \* the rung the scheduler has published; it moves far slower than the rounds
  Worlds,           \* conditions of network and engine: [reality, hy2, linkBad, flood, flaky]
  Answers           \* how sing-box may answer

Qualities == {"clean", "slow", "dead"}

ASSUME CeilingAssumption == Ceiling \in Rungs
ASSUME LanesAssumption ==
  /\ BalanceLanes \in Nat \ {0} /\ DefaultHy2Lanes \in 0..BalanceLanes
ASSUME SamplesAssumption ==
  ErrorThreshold \in Nat \ {0} /\ SlowSamples \in Nat \ {0} /\ RecoverSamples \in Nat \ {0}
ASSUME PressureAssumption == Cooldown \in Nat /\ DropEvery \in Nat /\ RecoverAfter \in Nat
ASSUME WorldsAssumption ==
  Worlds \subseteq [reality : Qualities, hy2 : Qualities, linkBad : BOOLEAN, flood : BOOLEAN,
                    flaky : BOOLEAN]
ASSUME AnswersAssumption == {"ok"} \subseteq Answers /\ Answers \subseteq {"ok", "fail", "lost"}

Lanes == 1..BalanceLanes

VARIABLES
  leg,       \* the pin: "both", or any single leg
  lanes,     \* where each lane points: "proxy", "reality" or "hy2"
  main,      \* where `proxy` points
  moves,     \* under `both`: the legs that moves of `proxy` decided earlier still go for
  rung,      \* where the probe selector points
  pub,       \* State.Balance: [enabled, hy2]
  policy,    \* balancePolicy without its pressure: [reality, hy2, lanes]
  pressure,  \* udpPressure: [cap, cool, clean, drop]
  pc,        \* where the balancer stands
  lane,      \* the next lane it writes
  cli,       \* the next lane `mole leg` resets; 0: none
  world      \* the condition right now

switches == <<lanes, main, rung>>
balancer == <<pub, policy, pressure, pc, lane>>
vars == <<leg, switches, moves, balancer, cli, world>>

Never == -1

----------------------------------------------------------------------------
(* What the balancer thinks of a leg (balanceLeg.observe).                 *)

FreshLeg == [good |-> 0, bad |-> 0, slow |-> 0, healthy |-> FALSE]

\* A leg is withdrawn after enough consecutive failures, or enough slow answers; it
\* returns after enough consecutive clean ones.
Observe(l, sample) ==
  CASE sample = "dead" ->
         LET bad == AtMost(l.bad + 1, ErrorThreshold)
         IN  [good |-> 0, bad |-> bad, slow |-> 0, healthy |-> l.healthy /\ bad < ErrorThreshold]
    [] sample = "slow" ->
         LET slow == AtMost(l.slow + 1, SlowSamples)
         IN  [good |-> 0, bad |-> 0, slow |-> slow, healthy |-> l.healthy /\ slow < SlowSamples]
    [] sample = "clean" ->
         LET good == AtMost(l.good + 1, RecoverSamples)
         IN  [good |-> good, bad |-> 0, slow |-> 0, healthy |-> l.healthy \/ good = RecoverSamples]

\* balancePolicy.observe: what cannot be trusted gets no lane, REALITY is trusted last.
Share(reality, hy2) ==
  IF ~hy2.healthy THEN 0 ELSE IF ~reality.healthy THEN BalanceLanes ELSE DefaultHy2Lanes

FreshPolicy == [reality |-> FreshLeg, hy2 |-> FreshLeg, lanes |-> 0]

\* The lanes that carry hy2 when n of them do: spread evenly.
Member(l, n) ==
  IF (l * n) \div BalanceLanes > ((l - 1) * n) \div BalanceLanes THEN "hy2" ELSE "reality"

Split(n) == [l \in Lanes |-> Member(l, n)]
Plain == [l \in Lanes |-> "proxy"]

----------------------------------------------------------------------------
(* Local UDP pressure (udpPressure).  Times are counted in rounds.         *)

FreshPressure == [cap |-> 0, cool |-> 0, clean |-> Never, drop |-> DropEvery]

\* Time passes between two rounds, or hardly any when a round overran.
Aged(p, elapsed) ==
  [p EXCEPT !.cool = AtLeast(@ - elapsed, 0),
            !.clean = IF @ = Never THEN Never ELSE AtMost(@ + elapsed, RecoverAfter),
            !.drop = AtMost(@ + elapsed, DropEvery)]

\* A fresh ENOBUFS starts the cooldown and lowers the cap, at most once per DropEvery.
Pressed(p, live) ==
  LET known == {Ceiling} \cup ({live} \cap Rungs) \cup ({p.cap} \ {0})
      base == CHOOSE r \in known : \A q \in known : r <= q
      due == p.drop = DropEvery
  IN  [cap |-> IF due THEN StepDown(base, 1) ELSE p.cap, cool |-> Cooldown, clean |-> 0,
       drop |-> IF due THEN 0 ELSE p.drop]

\* Fault: every clean round starts the stretch over.
RelievedAnew(p, healthy) ==
  LET q == [p EXCEPT !.clean = IF ~healthy THEN Never ELSE 0]
  IN  IF q.cap > 0 /\ healthy /\ q.cool = 0 /\ q.clean = RecoverAfter
      THEN [q EXCEPT !.cap = IF @ >= Ceiling THEN 0 ELSE AtMost(StepUp(@), Ceiling), !.clean = 0]
      ELSE q

\* A clean stretch raises the cap one rung, and lifts it at the ceiling.
Relieved(p, healthy) ==
  LET q == [p EXCEPT !.clean = IF ~healthy THEN Never ELSE IF @ = Never THEN 0 ELSE @]
  IN  IF q.cap > 0 /\ healthy /\ q.cool = 0 /\ q.clean = RecoverAfter
      THEN [q EXCEPT !.cap = IF @ >= Ceiling THEN 0 ELSE AtMost(StepUp(@), Ceiling), !.clean = 0]
      ELSE q

Guarded(p) == IF p.cap > 0 THEN AtMost(Ceiling, p.cap) ELSE Ceiling

----------------------------------------------------------------------------

Init ==
  /\ leg \in {"both", "single"} /\ lanes = Plain /\ main = "reality" /\ moves = {}
  /\ rung \in Rungs
  /\ pub = [enabled |-> FALSE, hy2 |-> 0]
  /\ policy = FreshPolicy /\ pressure = FreshPressure
  /\ pc = "idle" /\ lane = 0 /\ cli = 0 /\ world \in Worlds

\* sing-box answers, unless it is failing.
Said == IF world.flaky THEN Answers ELSE {"ok"}

\* What a selector points at once its selection was answered.
Selected(was, answer, target) == IF answer = "fail" THEN was ELSE target

Writing == {"restore", "drain", "write"}

Goto(place) == pc' = place /\ lane' = IF place \in Writing THEN 1 ELSE 0

----------------------------------------------------------------------------
(* One round of the balancer.  An error is published with the allocation   *)
(* left as it was, and ends the round.                                     *)

\* Fault: single mode is published before the lanes are back.
BeginForgetting ==
  /\ pc = "idle" /\ leg = "single" /\ pub.enabled
  /\ pub' = [enabled |-> FALSE, hy2 |-> 0]
  /\ Goto("restore")
  /\ UNCHANGED <<leg, moves, switches, policy, pressure, cli, world>>

\* Not `both`: there is nothing to do unless an allocation was published.
BeginSingle ==
  /\ pc = "idle" /\ leg = "single" /\ pub.enabled
  /\ Goto("restore")
  /\ UNCHANGED <<leg, moves, switches, pub, policy, pressure, cli, world>>

\* A bad first hop is no evidence about either leg.
BeginBlind(elapsed) ==
  /\ pc = "idle" /\ leg = "both" /\ world.linkBad
  /\ pressure' = [Aged(pressure, elapsed) EXCEPT !.clean = Never]
  /\ UNCHANGED <<leg, moves, switches, pub, policy, pc, lane, cli, world>>

\* Fault: a leg that is not trusted is drained onto.
AimAndDrain(elapsed, answer) ==
  /\ pc = "idle" /\ leg = "both" /\ ~world.linkBad
  /\ LET aged == Aged(pressure, elapsed)
         pressed == IF world.flood THEN Pressed(aged, rung) ELSE aged
     IN  pressure' = Relieved(pressed, policy.hy2.healthy /\ policy.hy2.slow = 0)
  /\ rung' = Selected(rung, answer, Guarded(pressure'))
  /\ Goto(IF answer # "ok" /\ rung # Guarded(pressure') THEN "idle"
          ELSE IF pressure'.cool > 0 THEN "drain" ELSE "probe")
  /\ UNCHANGED <<leg, moves, lanes, main, pub, policy, cli, world>>

\* The pressure is weighed and the probe selector set to the rung it allows; without that
\* nothing is measured (and a refused query of that selector ends the round before it has
\* changed anything).  During a cooldown hy2 is drained first, if REALITY can take it.
Aim(elapsed, answer) ==
  /\ pc = "idle" /\ leg = "both" /\ ~world.linkBad
  /\ LET aged == Aged(pressure, elapsed)
         pressed == IF world.flood THEN Pressed(aged, rung) ELSE aged
     IN  pressure' = Relieved(pressed, policy.hy2.healthy /\ policy.hy2.slow = 0)
  /\ rung' = Selected(rung, answer, Guarded(pressure'))
  /\ Goto(IF answer # "ok" /\ rung # Guarded(pressure') THEN "idle"
          ELSE IF pressure'.cool > 0 /\ policy.reality.healthy THEN "drain" ELSE "probe")
  /\ UNCHANGED <<leg, moves, lanes, main, pub, policy, cli, world>>

\* ApplyBalancedLanes, one lane.
Wanted ==
  CASE pc = "restore" -> "proxy" [] pc = "drain" -> Member(lane, 0)
    [] pc = "write" -> Member(lane, policy.lanes)

Afterwards == CASE pc = "restore" -> "forget" [] pc = "drain" -> "probe" [] pc = "write" -> "route"

\* Fault: an allocation that is published already is not written again.
WriteChanges(answer) ==
  /\ pc \in Writing
  /\ lanes' = IF pc = "write" /\ pub = [enabled |-> TRUE, hy2 |-> policy.lanes] THEN lanes
              ELSE [lanes EXCEPT ![lane] = Selected(@, answer, Wanted)]
  /\ IF answer # "ok" THEN Goto("idle")
     ELSE IF lane < BalanceLanes THEN lane' = lane + 1 /\ UNCHANGED pc
     ELSE Goto(Afterwards)
  /\ UNCHANGED <<leg, moves, main, rung, pub, policy, pressure, cli, world>>

WriteLane(answer) ==
  /\ pc \in Writing
  /\ lanes' = [lanes EXCEPT ![lane] = Selected(@, answer, Wanted)]
  /\ IF answer # "ok" THEN Goto("idle")
     ELSE IF lane < BalanceLanes THEN lane' = lane + 1 /\ UNCHANGED pc
     ELSE Goto(Afterwards)
  /\ UNCHANGED <<leg, moves, main, rung, pub, policy, pressure, cli, world>>

\* Fault: with both legs down the last allocation is kept.
ProbeKeeping ==
  /\ pc = "probe"
  /\ LET reality == Observe(policy.reality, world.reality)
         hy2 == Observe(policy.hy2, world.hy2)
     IN  policy' = [reality |-> reality, hy2 |-> hy2,
                    lanes |-> IF reality.healthy \/ hy2.healthy THEN Share(reality, hy2)
                              ELSE policy.lanes]
  /\ IF leg = "both" /\ ~world.linkBad
     THEN Goto("write") /\ UNCHANGED pressure
     ELSE Goto("idle") /\ pressure' = [pressure EXCEPT !.clean = Never]
  /\ UNCHANGED <<leg, moves, switches, pub, cli, world>>

\* Both legs are probed at once and judged; a pin or a bad link that came meanwhile ends
\* the round, with the judgement kept.
Probe ==
  /\ pc = "probe"
  /\ LET reality == Observe(policy.reality, world.reality)
         hy2 == Observe(policy.hy2, world.hy2)
     IN  policy' = [reality |-> reality, hy2 |-> hy2, lanes |-> Share(reality, hy2)]
  /\ IF leg = "both" /\ ~world.linkBad
     THEN Goto("write") /\ UNCHANGED pressure
     ELSE Goto("idle") /\ pressure' = [pressure EXCEPT !.clean = Never]
  /\ UNCHANGED <<leg, moves, switches, pub, cli, world>>

\* The leg that `proxy` backs for an allocation of n lanes to hy2.
Backed(n) == IF n >= BalanceLanes \div 2 THEN "hy2" ELSE "reality"

\* The main selector follows, or not, and the allocation is published either way.
Route(answer) ==
  /\ pc = "route"
  /\ main' = Selected(main, answer, Backed(policy.lanes))
  /\ pub' = [enabled |-> TRUE, hy2 |-> policy.lanes]
  /\ Goto("idle")
  /\ UNCHANGED <<leg, moves, lanes, rung, policy, pressure, cli, world>>

\* Single mode is restored: the judgement starts over.
Forget ==
  /\ pc = "forget"
  /\ policy' = FreshPolicy /\ pressure' = FreshPressure
  /\ pub' = [enabled |-> FALSE, hy2 |-> 0]
  /\ Goto("idle")
  /\ UNCHANGED <<leg, moves, switches, cli, world>>

----------------------------------------------------------------------------
(* The scheduler and `mole leg`.                                           *)

\* Under a single leg the pin and the failover move `proxy`, to either leg and when they
\* like, so that what they decided earlier makes no difference.
Schedule ==
  /\ leg = "single"
  /\ main' \in {"reality", "hy2"}
  /\ UNCHANGED <<leg, lanes, rung, moves, balancer, cli, world>>

\* Fault: `both` is another word for the failover's own choice.
DecideByFailover ==
  /\ leg = "both"
  /\ moves' \in {moves \cup {member} : member \in {"reality", "hy2"}}
  /\ UNCHANGED <<leg, switches, balancer, cli, world>>

\* apply under `both`: the published allocation decides.  The rate is pushed to the keeper,
\* `proxy` is asked and the leg is warmed up before anything is selected.
Decide ==
  /\ leg = "both"
  /\ moves' = moves \cup {IF pub.enabled THEN Backed(pub.hy2) ELSE "reality"}
  /\ UNCHANGED <<leg, switches, balancer, cli, world>>

\* A move ends: with its selection, or without one because that was refused, `proxy` was
\* there already, or the generation has changed, which the code asks just before and not in
\* the same instant.  Another move may go for the same leg.
Move(member, rest) ==
  /\ member \in moves /\ rest \in {moves, moves \ {member}}
  /\ main' \in {main, member}
  /\ moves' = rest
  /\ UNCHANGED <<leg, lanes, rung, balancer, cli, world>>

\* `mole leg both`; one command at a time.  What moved `proxy` until now may still be at it.
LegBoth ==
  /\ cli = 0 /\ leg = "single"
  /\ leg' = "both" /\ moves' \in SUBSET {"reality", "hy2"}
  /\ UNCHANGED <<switches, balancer, cli, world>>

\* `mole leg` with any other word: the pin, then the lanes, then `proxy`.
LegSingle ==
  /\ cli = 0
  /\ leg' = "single" /\ cli' = 1 /\ moves' = {}
  /\ UNCHANGED <<switches, balancer, world>>

ResetLane(answer) ==
  /\ cli \in Lanes
  /\ lanes' = [lanes EXCEPT ![cli] = Selected(@, answer, "proxy")]
  /\ cli' = IF answer = "ok" THEN cli + 1 ELSE 0
  /\ UNCHANGED <<leg, moves, main, rung, balancer, world>>

EndSingle ==
  /\ cli > BalanceLanes
  /\ main' \in {main, "reality", "hy2"}
  /\ cli' = 0
  /\ UNCHANGED <<leg, moves, lanes, rung, balancer, world>>

----------------------------------------------------------------------------
(* The world.                                                              *)

\* The default of the probe selector.
Highest == CHOOSE r \in Rungs : Below(r) = Rungs

\* sing-box exits and is started again: its cache remembers what each selector held, or
\* was lost, and then each is at its default.
BoxRestart ==
  /\ world.flaky
  /\ \/ UNCHANGED switches
     \/ lanes' = Plain /\ main' = "reality" /\ rung' = Highest
  /\ UNCHANGED <<leg, moves, balancer, cli, world>>

World ==
  /\ world' \in Worlds
  /\ UNCHANGED <<leg, moves, switches, balancer, cli>>

----------------------------------------------------------------------------

Balancer ==
  \/ BeginSingle \/ \E e \in {0, 1} : BeginBlind(e) \/ \E a \in Said : Aim(e, a)
  \/ (\E a \in Said : WriteLane(a)) \/ Probe \/ (\E a \in Said : Route(a)) \/ Forget

Scheduler ==
  \/ Schedule \/ Decide
  \/ \E member \in moves : \E rest \in {moves, moves \ {member}} : Move(member, rest)

Command == LegBoth \/ LegSingle \/ (\E a \in Said : ResetLane(a)) \/ EndSingle

Next == Balancer \/ Scheduler \/ Command \/ BoxRestart \/ World

\* The balancer is a ticker loop, time passes between its rounds, and every move of `proxy`
\* ends.  Nothing is assumed of the user, the network or sing-box.
Fairness ==
  /\ WF_vars(Balancer) /\ SF_vars(\E a \in Said : Aim(1, a))
  /\ \A member \in {"reality", "hy2"} : WF_vars(Move(member, moves \ {member}))

Spec == Init /\ [][Next]_vars /\ Fairness

----------------------------------------------------------------------------
(* Properties.                                                             *)

LegOK ==
  [good : 0..RecoverSamples, bad : 0..ErrorThreshold, slow : 0..SlowSamples, healthy : BOOLEAN]

TypeOK ==
  /\ leg \in {"both", "single"} /\ lanes \in [Lanes -> {"proxy", "reality", "hy2"}]
  /\ main \in {"reality", "hy2"} /\ rung \in Rungs /\ moves \subseteq {"reality", "hy2"}
  /\ pub \in [enabled : BOOLEAN, hy2 : 0..BalanceLanes]
  /\ policy \in [reality : LegOK, hy2 : LegOK, lanes : 0..BalanceLanes]
  /\ pressure \in [cap : Rungs \cup {0}, cool : 0..Cooldown, clean : 0..RecoverAfter \cup {Never},
                   drop : 0..DropEvery]
  /\ pc \in Writing \cup {"idle", "probe", "route", "forget"} /\ lane \in Lanes \cup {0}
  /\ cli \in 0..BalanceLanes + 1 /\ world \in Worlds

CarriedOK ==
  /\ lane # 0 <=> pc \in Writing
  /\ cli # 0 => leg = "single"
  /\ moves # {} => leg = "both"
  /\ pc \in {"write", "route"} => policy.lanes = Share(policy.reality, policy.hy2)
  /\ pc = "drain" => policy.reality.healthy

IInv == TypeOK /\ CarriedOK

\* No lane is moved onto a leg the balancer does not trust while it trusts the other, by
\* an allocation or by the drain of a cooldown (balancePolicy.observe, balanceOnce).
NoLaneToADeadLeg ==
  [][\A l \in Lanes :
       LET to == lanes'[l]
       IN  lanes[l] # to /\ to \in {"reality", "hy2"} =>
             policy[to].healthy \/ (~policy.reality.healthy /\ ~policy.hy2.healthy)]_vars

Calm == ~world.linkBad /\ ~world.flood /\ ~world.flaky

\* The share of hy2 that the conditions call for.
Deserved ==
  Share([healthy |-> world.reality = "clean"], [healthy |-> world.hy2 = "clean"])

\* What the balancer thinks, what it wrote and what it published agree on what the
\* conditions call for, and nothing is under way that was decided otherwise.
Balanced ==
  /\ lanes = Split(Deserved) /\ main = Backed(Deserved) /\ moves \subseteq {Backed(Deserved)}
  /\ pub = [enabled |-> TRUE, hy2 |-> Deserved] /\ policy.lanes = Deserved
  /\ policy.reality.healthy <=> world.reality = "clean"
  /\ policy.hy2.healthy <=> world.hy2 = "clean"
  /\ pc \notin {"restore", "drain", "forget"} /\ pressure.cool = 0

\* Once it is so, it stays so for as long as the conditions and the pin do: neither a round
\* that was half way, nor the next one, nor a tick that was, moves a lane or `proxy`, and no
\* single sample undoes a judgement (balanceOnce, balancePolicy.observe, apply).
BalanceStays ==
  [][leg = "both" /\ leg' = "both" /\ Calm /\ UNCHANGED world /\ Balanced => Balanced']_vars

\* Under `mole leg both`, once the conditions settle, the lanes, the published allocation
\* and `proxy` settle on what the conditions call for, whatever failed halfway before, and
\* whatever sing-box forgot (balanceOnce, ApplyBalancedLanes, apply).
LanesSettle ==
  <>[](leg = "both" /\ Calm) /\ <>[][UNCHANGED world]_vars =>
    <>[](lanes = Split(Deserved) /\ pub = [enabled |-> TRUE, hy2 |-> Deserved]
         /\ main = Backed(Deserved))

\* An allocation that was published is taken back once the pin says so: every lane follows
\* `proxy` again (balanceOnce).
LanesComeBack ==
  <>[]~world.flaky =>
    [](pub.enabled /\ leg = "single" => <>(leg = "both" \/ lanes = Plain))

\* A pressure cap is temporary: on a clean hy2 leg without ENOBUFS the ladder gets its
\* ceiling back (udpPressure.target).
CapIsLifted ==
  <>[](leg = "both" /\ Calm /\ world.hy2 = "clean") =>
    <>[](pressure.cap = 0 /\ rung = Ceiling)

=============================================================================
