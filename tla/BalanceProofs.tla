---------------------------- MODULE BalanceProofs ---------------------------
(***************************************************************************)
(* For every number of lanes, every ladder and every threshold, however    *)
(* sing-box answers and the legs fare: the balancer's state is sound, and  *)
(* no lane is moved onto a leg it does not trust while it trusts the       *)
(* other.                                                                  *)
(***************************************************************************)
EXTENDS Balance, LadderProofs

Pressures ==
  [cap : Rungs \cup {0}, cool : 0..Cooldown, clean : 0..RecoverAfter \cup {Never},
   drop : 0..DropEvery]

LEMMA BoundedBelow == ASSUME NEW n \in Nat, NEW b \in Nat PROVE AtMost(n, b) \in 0..b
BY DEF AtMost

\* Both sides of a lane's turn.
LEMMA DivideBack ==
  ASSUME NEW l \in Nat, NEW n \in Nat \ {0}
  PROVE  (l * n) \div n = l
OBVIOUS

\* All the lanes, or none of them.
LEMMA AllOrNone ==
  ASSUME NEW l \in Lanes
  PROVE  /\ Member(l, 0) = "reality" /\ Member(l, BalanceLanes) = "hy2"
         /\ \A n : Member(l, n) \in {"reality", "hy2"}
<1>1. l \in Nat /\ l - 1 \in Nat /\ BalanceLanes \in Nat \ {0}
  BY LanesAssumption DEF Lanes
<1>2. (l * BalanceLanes) \div BalanceLanes = l /\ ((l - 1) * BalanceLanes) \div BalanceLanes = l - 1
  BY <1>1, DivideBack
<1>3. l * 0 = 0 /\ (l - 1) * 0 = 0
  BY <1>1
<1> QED
  BY <1>1, <1>2, <1>3 DEF Member

LEMMA ObserveIsALeg ==
  ASSUME NEW l \in LegOK, NEW sample \in Qualities
  PROVE  Observe(l, sample) \in LegOK
<1>1. /\ l.good \in Nat /\ l.bad \in Nat /\ l.slow \in Nat /\ l.healthy \in BOOLEAN
      /\ ErrorThreshold \in Nat /\ SlowSamples \in Nat /\ RecoverSamples \in Nat
  BY SamplesAssumption DEF LegOK
<1>2. /\ AtMost(l.bad + 1, ErrorThreshold) \in 0..ErrorThreshold
      /\ AtMost(l.slow + 1, SlowSamples) \in 0..SlowSamples
      /\ AtMost(l.good + 1, RecoverSamples) \in 0..RecoverSamples
  <2>1. l.bad + 1 \in Nat /\ l.slow + 1 \in Nat /\ l.good + 1 \in Nat
    BY <1>1
  <2> QED
    BY <1>1, <2>1, BoundedBelow
<1>3. /\ 0 \in 0..ErrorThreshold /\ 0 \in 0..SlowSamples /\ 0 \in 0..RecoverSamples
  BY <1>1
<1>4. CASE sample = "dead"
  BY <1>1, <1>2, <1>3, <1>4 DEF Observe, LegOK
<1>5. CASE sample = "slow"
  BY <1>1, <1>2, <1>3, <1>5 DEF Observe, LegOK
<1>6. CASE sample = "clean"
  BY <1>1, <1>2, <1>3, <1>6 DEF Observe, LegOK
<1> QED
  BY <1>4, <1>5, <1>6 DEF Qualities

LEMMA ShareIsANumberOfLanes ==
  ASSUME NEW reality, NEW hy2
  PROVE  Share(reality, hy2) \in 0..BalanceLanes
BY LanesAssumption DEF Share

LEMMA FreshIsSound == FreshLeg \in LegOK /\ FreshPressure \in Pressures
BY SamplesAssumption, PressureAssumption DEF FreshLeg, FreshPressure, LegOK, Pressures, Never

LEMMA AgedIsSound ==
  ASSUME NEW p \in Pressures, NEW elapsed \in {0, 1}
  PROVE  Aged(p, elapsed) \in Pressures
<1>1. /\ p.cap \in Rungs \cup {0} /\ p.cool \in 0..Cooldown /\ p.drop \in 0..DropEvery
      /\ p.clean \in 0..RecoverAfter \cup {Never}
      /\ Cooldown \in Nat /\ DropEvery \in Nat /\ RecoverAfter \in Nat
  BY PressureAssumption DEF Pressures
<1> DEFINE cool == AtLeast(p.cool - elapsed, 0)
           clean == IF p.clean = Never THEN Never ELSE AtMost(p.clean + elapsed, RecoverAfter)
           drop == AtMost(p.drop + elapsed, DropEvery)
<1>2. cool \in 0..Cooldown
  BY <1>1 DEF AtLeast
<1>3. clean \in 0..RecoverAfter \cup {Never}
  BY <1>1 DEF AtMost
<1>4. drop \in 0..DropEvery
  BY <1>1 DEF AtMost
<1>5. Aged(p, elapsed) = [p EXCEPT !.cool = cool, !.clean = clean, !.drop = drop]
  BY DEF Aged
<1> HIDE DEF cool, clean, drop
<1> QED
  BY <1>2, <1>3, <1>4, <1>5 DEF Pressures

LEMMA PressedIsSound ==
  ASSUME NEW p \in Pressures, NEW live
  PROVE  Pressed(p, live) \in Pressures
<1> DEFINE known == {Ceiling} \cup ({live} \cap Rungs) \cup ({p.cap} \ {0})
           base == CHOOSE r \in known : \A q \in known : r <= q
<1>1. known \subseteq Rungs /\ known # {}
  BY CeilingAssumption DEF Pressures
<1>2. known \in SUBSET Nat
  BY <1>1, RungsAreNumbers
<1>3. base \in Rungs
  <2>1. \E r \in known : \A q \in known : r <= q
    <3> HIDE DEF known
    <3> QED
      BY <1>1, <1>2, LeastNumber
  <2> QED
    BY <1>1, <2>1
<1>4. StepDown(base, 1) \in Rungs
  BY <1>3, DescentStaysOnTheLadder
<1>5. /\ p.cap \in Rungs \cup {0} /\ p.drop \in 0..DropEvery
      /\ Cooldown \in 0..Cooldown /\ 0 \in 0..DropEvery /\ 0 \in 0..RecoverAfter
  BY PressureAssumption DEF Pressures
<1>6. Pressed(p, live) =
        [cap |-> IF p.drop = DropEvery THEN StepDown(base, 1) ELSE p.cap, cool |-> Cooldown,
         clean |-> 0, drop |-> IF p.drop = DropEvery THEN 0 ELSE p.drop]
  BY DEF Pressed
<1> HIDE DEF base
<1> QED
  BY <1>4, <1>5, <1>6 DEF Pressures

LEMMA RelievedIsSound ==
  ASSUME NEW p \in Pressures, NEW healthy
  PROVE  Relieved(p, healthy) \in Pressures
<1> DEFINE q == [p EXCEPT !.clean = IF ~healthy THEN Never ELSE IF @ = Never THEN 0 ELSE @]
<1>1. 0 \in 0..RecoverAfter
  BY PressureAssumption
<1>2. q \in Pressures
  BY <1>1 DEF Pressures
<1>3. ASSUME q.cap > 0
      PROVE  (IF q.cap >= Ceiling THEN 0 ELSE AtMost(StepUp(q.cap), Ceiling)) \in Rungs \cup {0}
  <2>1. q.cap \in Rungs
    BY <1>2, <1>3 DEF Pressures
  <2>2. StepUp(q.cap) \in Rungs
    BY <2>1, AscentStaysOnTheLadder
  <2> QED
    BY <2>2, CeilingAssumption DEF AtMost
<1>4. Relieved(p, healthy) =
        IF q.cap > 0 /\ healthy /\ q.cool = 0 /\ q.clean = RecoverAfter
        THEN [q EXCEPT !.cap = IF @ >= Ceiling THEN 0 ELSE AtMost(StepUp(@), Ceiling), !.clean = 0]
        ELSE q
  BY DEF Relieved
<1> HIDE DEF q
<1> QED
  BY <1>1, <1>2, <1>3, <1>4 DEF Pressures

LEMMA GuardedIsARung ==
  ASSUME NEW p \in Pressures
  PROVE  Guarded(p) \in Rungs
BY CeilingAssumption, RungsAreNumbers DEF Guarded, AtMost, Pressures

-----------------------------------------------------------------------------

\* The ladder has a top, where a probe selector that forgot is found.
LEMMA HighestIsARung == Highest \in Rungs
<1> DEFINE top == AtLeast(PeakDown, OffDown)
<1>1. /\ PeakDown \in Nat /\ OffDown \in Nat \ {0}
      /\ \A n \in StandardRungs : n \in Nat
  BY LadderAssumption
<1>2. top \in Rungs /\ \A r \in Rungs : r <= top
  BY <1>1 DEF AtLeast, Rungs
<1>3. Below(top) = Rungs
  BY <1>2 DEF Below
<1> QED
  BY <1>2, <1>3 DEF Highest

\* A place where nothing is written.
LEMMA GoElsewhere ==
  ASSUME NEW place \in {"idle", "probe", "route", "forget"}, Goto(place)
  PROVE  pc' = place /\ lane' = 0
BY DEF Goto, Writing

\* The start of a pass over the lanes.
LEMMA GoWriting ==
  ASSUME NEW place \in Writing, Goto(place)
  PROVE  pc' = place /\ lane' = 1 /\ lane' \in Lanes
BY LanesAssumption DEF Goto, Writing, Lanes

LEMMA InitHolds == ASSUME Init PROVE IInv
<1>1. lanes \in [Lanes -> {"proxy", "reality", "hy2"}] /\ 0 \in 0..BalanceLanes
      /\ 0 \in 0..BalanceLanes + 1
  BY LanesAssumption DEF Init, Plain
<1>2. policy \in [reality : LegOK, hy2 : LegOK, lanes : 0..BalanceLanes]
  BY <1>1, FreshIsSound DEF Init, FreshPolicy
<1>3. pressure \in Pressures
  BY FreshIsSound DEF Init
<1> QED
  BY <1>1, <1>2, <1>3 DEF Init, IInv, TypeOK, CarriedOK, Pressures, Writing

\* A pass over the lanes keeps the invariant.
LEMMA WriteLaneHolds ==
  ASSUME IInv, NEW answer, WriteLane(answer)
  PROVE  IInv'
<1> USE DEF IInv
<1>1. lane \in Lanes /\ pc \in Writing
  BY DEF WriteLane, CarriedOK, TypeOK
<1>2. Wanted \in {"proxy", "reality", "hy2"}
  BY <1>1, AllOrNone DEF Wanted, Writing
<1>3. lanes' \in [Lanes -> {"proxy", "reality", "hy2"}]
  BY <1>1, <1>2 DEF WriteLane, Selected, TypeOK
<1>4. Afterwards \in {"forget", "probe", "route"} /\ (Afterwards = "route" => pc = "write")
  BY <1>1 DEF Afterwards, Writing
<1>5. \/ pc' = "idle" /\ lane' = 0
      \/ pc' = pc /\ lane' \in Lanes
      \/ pc' = Afterwards /\ lane' = 0
  <2>1. CASE answer # "ok"
    BY <2>1, GoElsewhere DEF WriteLane
  <2>2. CASE answer = "ok" /\ lane < BalanceLanes
    BY <1>1, <2>2, LanesAssumption DEF WriteLane, Lanes
  <2>3. CASE answer = "ok" /\ ~(lane < BalanceLanes)
    BY <1>4, <2>3, GoElsewhere DEF WriteLane
  <2> QED
    BY <2>1, <2>2, <2>3
<1>6. pc' \in Writing \cup {"idle", "probe", "route", "forget"} /\ (lane' # 0 <=> pc' \in Writing)
  <2>1. 0 \notin Lanes
    BY LanesAssumption DEF Lanes
  <2> QED
    BY <1>1, <1>4, <1>5, <2>1 DEF Writing
<1>7. TypeOK'
  BY <1>3, <1>5, <1>6 DEF WriteLane, TypeOK
<1>8. CarriedOK'
  BY <1>4, <1>5, <1>6 DEF WriteLane, CarriedOK
<1> QED
  BY <1>7, <1>8

\* What Aim leaves in the pressure.
LEMMA AimHolds ==
  ASSUME IInv, NEW elapsed \in {0, 1}, NEW answer, Aim(elapsed, answer)
  PROVE  IInv'
<1> USE DEF IInv
<1> DEFINE aged == Aged(pressure, elapsed)
           pressed == IF world.flood THEN Pressed(aged, rung) ELSE aged
<1>1. pressure' = Relieved(pressed, policy.hy2.healthy /\ policy.hy2.slow = 0)
  BY DEF Aim
<1>2. pressure' \in Pressures
  <2>1. pressure \in Pressures
    BY DEF TypeOK, Pressures
  <2>2. aged \in Pressures
    BY <2>1, AgedIsSound
  <2>3. pressed \in Pressures
    BY <2>2, PressedIsSound
  <2> HIDE DEF pressed
  <2> QED
    BY <1>1, <2>3, RelievedIsSound
<1>3. rung' \in Rungs
  BY <1>2, GuardedIsARung DEF Aim, Selected, TypeOK
<1>4. \/ pc' \in {"idle", "probe"} /\ lane' = 0
      \/ pc' = "drain" /\ lane' \in Lanes /\ lane' = 1 /\ policy.reality.healthy
  <2>1. CASE answer # "ok" /\ rung # Guarded(pressure')
    BY <2>1, GoElsewhere DEF Aim
  <2>2. CASE /\ ~(answer # "ok" /\ rung # Guarded(pressure'))
             /\ pressure'.cool > 0 /\ policy.reality.healthy
    <3>1. Goto("drain")
      BY <2>2 DEF Aim
    <3> QED
      BY <2>2, <3>1, GoWriting DEF Writing
  <2>3. CASE /\ ~(answer # "ok" /\ rung # Guarded(pressure'))
             /\ ~(pressure'.cool > 0 /\ policy.reality.healthy)
    BY <2>3, GoElsewhere DEF Aim
  <2> QED
    BY <2>1, <2>2, <2>3
<1>5. TypeOK'
  BY <1>2, <1>3, <1>4 DEF Aim, TypeOK, Pressures, Writing
<1>6. CarriedOK'
  BY <1>4 DEF Aim, CarriedOK, Writing
<1> QED
  BY <1>5, <1>6

LEMMA ProbeHolds == ASSUME IInv, Probe PROVE IInv'
<1> USE DEF IInv
<1> DEFINE reality == Observe(policy.reality, world.reality)
           hy2 == Observe(policy.hy2, world.hy2)
<1>1. world.reality \in Qualities /\ world.hy2 \in Qualities
  BY WorldsAssumption DEF TypeOK
<1>2. reality \in LegOK /\ hy2 \in LegOK
  BY <1>1, ObserveIsALeg DEF TypeOK
<1>3. policy' = [reality |-> reality, hy2 |-> hy2, lanes |-> Share(reality, hy2)]
  BY DEF Probe
<1> HIDE DEF reality, hy2
<1>4. policy' \in [reality : LegOK, hy2 : LegOK, lanes : 0..BalanceLanes]
      /\ policy'.lanes = Share(policy'.reality, policy'.hy2)
  BY <1>2, <1>3, ShareIsANumberOfLanes
<1>5. \/ pc' = "write" /\ lane' = 1 /\ lane' \in Lanes /\ UNCHANGED pressure
      \/ pc' = "idle" /\ lane' = 0 /\ pressure' = [pressure EXCEPT !.clean = Never]
  BY GoWriting, GoElsewhere DEF Probe, Writing
<1>6. UNCHANGED <<leg, switches, moves, pub, cli, world>>
  BY DEF Probe
<1>7. TypeOK'
  BY <1>4, <1>5, <1>6 DEF TypeOK, switches, Writing
<1>8. CarriedOK'
  BY <1>4, <1>5, <1>6 DEF CarriedOK, Writing
<1> QED
  BY <1>7, <1>8

LEMMA StepHolds == ASSUME IInv, [Next]_vars PROVE IInv'
<1> USE DEF IInv
<1>1. CASE BeginSingle
  <2>1. pc' = "restore" /\ lane' = 1 /\ lane' \in Lanes
    BY <1>1, GoWriting DEF BeginSingle, Writing
  <2> QED
    BY <1>1, <2>1 DEF BeginSingle, TypeOK, CarriedOK, Writing, switches
<1>2. ASSUME NEW e \in {0, 1}, BeginBlind(e) PROVE IInv'
  <2>1. Aged(pressure, e) \in Pressures
    BY AgedIsSound DEF TypeOK, Pressures
  <2>2. pressure' \in Pressures
    BY <1>2, <2>1 DEF BeginBlind, Pressures
  <2> QED
    BY <1>2, <2>2 DEF BeginBlind, TypeOK, CarriedOK, switches, Pressures
<1>3. ASSUME NEW e \in {0, 1}, NEW a \in Said, Aim(e, a) PROVE IInv'
  BY <1>3, AimHolds
<1>4. ASSUME NEW a \in Said, WriteLane(a) PROVE IInv'
  BY <1>4, WriteLaneHolds
<1>5. CASE Probe
  BY <1>5, ProbeHolds
<1>6. ASSUME NEW a \in Said, Route(a) PROVE IInv'
  <2>1. pc' = "idle" /\ lane' = 0
    BY <1>6, GoElsewhere DEF Route
  <2>2. main' \in {"reality", "hy2"}
    BY <1>6 DEF Route, Selected, Backed, TypeOK
  <2>3. pub' \in [enabled : BOOLEAN, hy2 : 0..BalanceLanes]
    BY <1>6 DEF Route, TypeOK
  <2> QED
    BY <1>6, <2>1, <2>2, <2>3 DEF Route, TypeOK, CarriedOK, Writing
<1>7. CASE Forget
  <2>1. pc' = "idle" /\ lane' = 0
    BY <1>7, GoElsewhere DEF Forget
  <2>2. 0 \in 0..BalanceLanes
    BY LanesAssumption
  <2>3. policy' \in [reality : LegOK, hy2 : LegOK, lanes : 0..BalanceLanes]
        /\ pub' \in [enabled : BOOLEAN, hy2 : 0..BalanceLanes]
    BY <1>7, <2>2, FreshIsSound DEF Forget, FreshPolicy
  <2>4. pressure' \in Pressures
    BY <1>7, FreshIsSound DEF Forget
  <2> QED
    BY <1>7, <2>1, <2>3, <2>4 DEF Forget, TypeOK, CarriedOK, Writing, switches, Pressures
<1>8. CASE Scheduler
  <2>1. CASE Schedule
    BY <2>1 DEF Schedule, TypeOK, CarriedOK, balancer
  <2>2. CASE Decide
    <3>1. moves' \subseteq {"reality", "hy2"} /\ leg' = "both"
      BY <2>2 DEF Decide, Backed, TypeOK
    <3> QED
      BY <2>2, <3>1 DEF Decide, TypeOK, CarriedOK, switches, balancer
  <2>3. ASSUME NEW member \in moves, NEW rest \in {moves, moves \ {member}}, Move(member, rest)
        PROVE  IInv'
    <3>1. moves' \subseteq moves /\ moves # {} /\ main' \in {"reality", "hy2"}
      BY <2>3 DEF Move, TypeOK
    <3>2. UNCHANGED <<leg, lanes, rung, cli, world>> /\ UNCHANGED balancer
      BY <2>3 DEF Move
    <3> QED
      BY <3>1, <3>2 DEF TypeOK, CarriedOK, balancer
  <2> QED
    BY <1>8, <2>1, <2>2, <2>3 DEF Scheduler
<1>9. CASE LegBoth
  BY <1>9 DEF LegBoth, TypeOK, CarriedOK, switches, balancer
<1>10. CASE LegSingle
  <2>1. 1 \in 0..BalanceLanes + 1
    BY LanesAssumption
  <2> QED
    BY <1>10, <2>1 DEF LegSingle, TypeOK, CarriedOK, switches, balancer
<1>11. ASSUME NEW a \in Said, ResetLane(a) PROVE IInv'
  <2>1. cli' \in 0..BalanceLanes + 1 /\ cli # 0
    BY <1>11, LanesAssumption DEF ResetLane, Lanes
  <2>2. lanes' \in [Lanes -> {"proxy", "reality", "hy2"}]
    BY <1>11 DEF ResetLane, Selected, TypeOK
  <2> QED
    BY <1>11, <2>1, <2>2 DEF ResetLane, TypeOK, CarriedOK, balancer
<1>12. CASE EndSingle
  <2>1. 0 \in 0..BalanceLanes + 1
    BY LanesAssumption
  <2> QED
    BY <1>12, <2>1 DEF EndSingle, TypeOK, CarriedOK, balancer
<1>13. CASE BoxRestart
  BY <1>13, HighestIsARung DEF BoxRestart, Plain, TypeOK, CarriedOK, switches, balancer
<1>14. CASE World
  BY <1>14 DEF World, TypeOK, CarriedOK, switches, balancer
<1>15. CASE UNCHANGED vars
  BY <1>15 DEF vars, TypeOK, CarriedOK, switches, balancer
<1> QED
  BY <1>1, <1>2, <1>3, <1>4, <1>5, <1>6, <1>7, <1>8, <1>9, <1>10, <1>11, <1>12, <1>13, <1>14,
     <1>15
  DEF Next, Balancer, Command

\* The types hold, a pass over the lanes knows which lane is next, an allocation that is being
\* written is the one the last judgement calls for, and lanes are drained only onto a REALITY
\* leg that is trusted (balanceOnce, ApplyBalancedLanes, balancePolicy.observe).
THEOREM BalanceInvariant == Spec => []IInv
<1>1. Init => IInv
  BY InitHolds
<1>2. IInv /\ [Next]_vars => IInv'
  BY StepHolds
<1> QED
  BY <1>1, <1>2, PTL DEF Spec

-----------------------------------------------------------------------------

Trusted(to) == policy[to].healthy \/ (~policy.reality.healthy /\ ~policy.hy2.healthy)

\* A lane that is written goes to a leg that is trusted.
LEMMA WrittenIsTrusted ==
  ASSUME IInv, NEW answer, WriteLane(answer), NEW l \in Lanes, lanes'[l] # lanes[l],
         lanes'[l] \in {"reality", "hy2"}
  PROVE  Trusted(lanes'[l])
<1> USE DEF IInv
<1>1. l = lane /\ pc \in Writing /\ lanes'[l] = Wanted
  BY DEF WriteLane, Selected, TypeOK
<1>2. CASE pc = "restore"
  BY <1>1, <1>2 DEF Wanted
<1>3. CASE pc = "drain"
  <2>1. lanes'[l] = "reality"
    BY <1>1, <1>3, AllOrNone DEF Wanted
  <2> QED
    BY <1>3, <2>1 DEF CarriedOK, Trusted
<1>4. CASE pc = "write"
  <2>1. lanes'[l] = Member(l, policy.lanes) /\ policy.lanes = Share(policy.reality, policy.hy2)
    BY <1>1, <1>4 DEF Wanted, CarriedOK
  <2>2. CASE ~policy.hy2.healthy
    <3>1. lanes'[l] = "reality"
      BY <2>1, <2>2, AllOrNone DEF Share
    <3> QED
      BY <2>2, <3>1 DEF Trusted
  <2>3. CASE policy.hy2.healthy /\ ~policy.reality.healthy
    <3>1. lanes'[l] = "hy2"
      BY <2>1, <2>3, AllOrNone DEF Share
    <3> QED
      BY <2>3, <3>1 DEF Trusted
  <2>4. CASE policy.hy2.healthy /\ policy.reality.healthy
    BY <2>4 DEF Trusted
  <2> QED
    BY <2>2, <2>3, <2>4
<1> QED
  BY <1>1, <1>2, <1>3, <1>4 DEF Writing

\* No lane is moved onto a leg the balancer does not trust while it trusts the other
\* (balanceOnce: the allocation, and the drain of a cooldown).
THEOREM NoLaneToADeadLegTheorem == Spec => NoLaneToADeadLeg
<1>1. ASSUME IInv, [Next]_vars, NEW l \in Lanes, lanes'[l] # lanes[l],
             lanes'[l] \in {"reality", "hy2"}
      PROVE  Trusted(lanes'[l])
  <2>1. ASSUME NEW a \in Said, WriteLane(a) PROVE Trusted(lanes'[l])
    BY <1>1, <2>1, WrittenIsTrusted
  <2>2. ASSUME NEW a \in Said, ResetLane(a) PROVE FALSE
    BY <1>1, <2>2 DEF ResetLane, Selected, IInv, TypeOK
  <2>3. CASE BoxRestart
    BY <1>1, <2>3 DEF BoxRestart, Plain, switches
  <2>4. CASE UNCHANGED lanes
    BY <1>1, <2>4
  <2>5. UNCHANGED lanes \/ BoxRestart \/ (\E a \in Said : WriteLane(a) \/ ResetLane(a))
    BY <1>1 DEF Next, Balancer, Scheduler, Command, BeginSingle, BeginBlind, Aim, Probe, Route,
                Forget, Schedule, Decide, Move, LegBoth, LegSingle, EndSingle, World, switches, vars
  <2> QED
    BY <2>1, <2>2, <2>3, <2>4, <2>5
<1>2. IInv /\ [Next]_vars =>
        [\A l \in Lanes :
           LET to == lanes'[l]
           IN  lanes[l] # to /\ to \in {"reality", "hy2"} =>
                 policy[to].healthy \/ (~policy.reality.healthy /\ ~policy.hy2.healthy)]_vars
  BY <1>1 DEF Trusted
<1> QED
  BY <1>2, BalanceInvariant, PTL DEF Spec, NoLaneToADeadLeg

-----------------------------------------------------------------------------

\* A judgement that fits the conditions survives another sample of them.
LEMMA JudgementStays ==
  ASSUME NEW l \in LegOK, NEW sample \in Qualities, l.healthy <=> sample = "clean"
  PROVE  Observe(l, sample).healthy <=> sample = "clean"
BY DEF Observe, Qualities, LegOK

\* The share of hy2 depends on nothing but who is healthy.
LEMMA ShareIsDeserved ==
  ASSUME NEW reality, NEW hy2,
         reality.healthy <=> world.reality = "clean", hy2.healthy <=> world.hy2 = "clean"
  PROVE  Share(reality, hy2) = Deserved
BY DEF Share, Deserved

\* Without a flood no cooldown begins.
LEMMA CoolStays ==
  ASSUME NEW p \in Pressures, p.cool = 0, NEW elapsed \in {0, 1}, NEW healthy
  PROVE  Relieved(Aged(p, elapsed), healthy).cool = 0
<1> DEFINE q == Aged(p, elapsed)
           r == [q EXCEPT !.clean = IF ~healthy THEN Never ELSE IF @ = Never THEN 0 ELSE @]
<1>1. q.cool = 0 /\ q \in Pressures
  <2>1. AtLeast(p.cool - elapsed, 0) = 0
    BY DEF AtLeast
  <2>2. q.cool = AtLeast(p.cool - elapsed, 0)
    BY DEF Aged, Pressures
  <2> QED
    BY <2>1, <2>2, AgedIsSound
<1> HIDE DEF q
<1>2. r.cool = 0
  BY <1>1 DEF Pressures
<1>3. r \in [cap : Rungs \cup {0}, cool : 0..Cooldown, clean : 0..RecoverAfter \cup {Never},
             drop : 0..DropEvery]
  BY <1>1, PressureAssumption DEF Pressures
<1>4. Relieved(q, healthy) =
        IF r.cap > 0 /\ healthy /\ r.cool = 0 /\ r.clean = RecoverAfter
        THEN [r EXCEPT !.cap = IF @ >= Ceiling THEN 0 ELSE AtMost(StepUp(@), Ceiling), !.clean = 0]
        ELSE r
  BY DEF Relieved
<1> HIDE DEF r
<1> QED
  BY <1>2, <1>3, <1>4 DEF q

\* The balancer's own steps.
LEMMA AimStays ==
  ASSUME IInv, Balanced, Calm, NEW elapsed \in {0, 1}, NEW answer, Aim(elapsed, answer)
  PROVE  Balanced'
<1>1. pressure \in Pressures
  BY DEF IInv, TypeOK, Pressures
<1>2. pressure' = Relieved(Aged(pressure, elapsed), policy.hy2.healthy /\ policy.hy2.slow = 0)
  BY DEF Aim, Calm
<1>3. pressure'.cool = 0
  BY <1>1, <1>2, CoolStays DEF Balanced
<1>4. pc' \in {"idle", "probe"}
  BY <1>3 DEF Aim, Goto
<1> QED
  BY <1>3, <1>4 DEF Aim, Balanced, Deserved

LEMMA WriteLaneStays ==
  ASSUME IInv, Balanced, NEW answer, WriteLane(answer)
  PROVE  Balanced'
<1>1. pc = "write" /\ lane \in Lanes /\ lanes \in [Lanes -> {"proxy", "reality", "hy2"}]
  BY DEF IInv, TypeOK, CarriedOK, Balanced, WriteLane, Writing
<1>2. Wanted = Member(lane, Deserved) /\ lanes[lane] = Member(lane, Deserved)
  BY <1>1 DEF Wanted, Balanced, Split
<1>3. lanes' = lanes
  BY <1>1, <1>2 DEF WriteLane, Selected
<1>4. pc' \in {"idle", "write", "route"}
  BY <1>1 DEF WriteLane, Goto, Afterwards
<1> QED
  BY <1>3, <1>4 DEF WriteLane, Balanced, Deserved

LEMMA ProbeStays ==
  ASSUME IInv, Balanced, Calm, leg = "both", Probe
  PROVE  Balanced'
<1> DEFINE reality == Observe(policy.reality, world.reality)
           hy2 == Observe(policy.hy2, world.hy2)
<1>1. /\ world.reality \in Qualities /\ world.hy2 \in Qualities
      /\ policy.reality \in LegOK /\ policy.hy2 \in LegOK
  BY WorldsAssumption DEF IInv, TypeOK
<1>2. (reality.healthy <=> world.reality = "clean") /\ (hy2.healthy <=> world.hy2 = "clean")
  BY <1>1, JudgementStays DEF Balanced
<1>3. policy' = [reality |-> reality, hy2 |-> hy2, lanes |-> Share(reality, hy2)]
  BY DEF Probe
<1> HIDE DEF reality, hy2
<1>4. Share(reality, hy2) = Deserved
  BY <1>2, ShareIsDeserved
<1>5. /\ policy'.lanes = Deserved
      /\ policy'.reality.healthy <=> world.reality = "clean"
      /\ policy'.hy2.healthy <=> world.hy2 = "clean"
  BY <1>2, <1>3, <1>4
<1>6. UNCHANGED <<lanes, main, moves, pub, pressure, world>> /\ pc' = "write"
  BY DEF Probe, Calm, switches, Goto
<1>7. Deserved' = Deserved
  BY <1>6 DEF Deserved
<1> QED
  BY <1>5, <1>6, <1>7 DEF Balanced

LEMMA RouteStays ==
  ASSUME IInv, Balanced, NEW answer, Route(answer)
  PROVE  Balanced'
BY DEF Route, Balanced, Selected, Deserved, Goto

\* The scheduler's: what it decides now, and what it decided before.
LEMMA DecideStays ==
  ASSUME Balanced, Decide
  PROVE  Balanced'
<1>1. moves' \subseteq {Backed(Deserved)}
  BY DEF Decide, Balanced
<1> QED
  BY <1>1 DEF Decide, Balanced, Deserved, Backed, switches, balancer

LEMMA MoveStays ==
  ASSUME Balanced, NEW member \in moves, NEW rest \in {moves, moves \ {member}}, Move(member, rest)
  PROVE  Balanced'
<1>1. member = Backed(Deserved) /\ main' = Backed(Deserved) /\ moves' \subseteq {Backed(Deserved)}
  BY DEF Move, Balanced
<1> QED
  BY <1>1 DEF Move, Balanced, Deserved, Backed, balancer

\* Once lanes, `proxy`, judgement and publication agree on what the conditions call for, they
\* go on to for as long as the conditions and the pin stay as they are (balanceOnce,
\* balancePolicy.observe, apply): the safety half of LanesSettle.
THEOREM BalanceStaysTheorem == Spec => BalanceStays
<1>1. ASSUME IInv, [Next]_vars, leg = "both", leg' = "both", Calm, UNCHANGED world, Balanced
      PROVE  Balanced'
  <2>1. ASSUME NEW e \in {0, 1}, NEW a \in Said, Aim(e, a) PROVE Balanced'
    BY <1>1, <2>1, AimStays
  <2>2. ASSUME NEW a \in Said, WriteLane(a) PROVE Balanced'
    BY <1>1, <2>2, WriteLaneStays
  <2>3. CASE Probe
    BY <1>1, <2>3, ProbeStays
  <2>4. ASSUME NEW a \in Said, Route(a) PROVE Balanced'
    BY <1>1, <2>4, RouteStays
  <2>5. CASE Scheduler
    <3>1. ~Schedule
      BY <1>1 DEF Schedule
    <3>2. ASSUME NEW member \in moves, NEW rest \in {moves, moves \ {member}}, Move(member, rest)
          PROVE  Balanced'
      BY <1>1, <3>2, MoveStays
    <3> QED
      BY <1>1, <2>5, <3>1, <3>2, DecideStays DEF Scheduler
  <2>6. CASE BeginSingle \/ (\E e \in {0, 1} : BeginBlind(e)) \/ Forget \/ BoxRestart
    BY <1>1, <2>6 DEF BeginSingle, BeginBlind, Forget, BoxRestart, Calm, Balanced
  <2>7. CASE LegBoth \/ LegSingle \/ (\E a \in Said : ResetLane(a)) \/ EndSingle
    BY <1>1, <2>7, LanesAssumption
    DEF LegBoth, LegSingle, ResetLane, EndSingle, IInv, CarriedOK, Lanes
  <2>8. CASE World \/ UNCHANGED vars
    BY <1>1, <2>8 DEF World, vars, switches, balancer, Balanced, Deserved
  <2> QED
    BY <1>1, <2>1, <2>2, <2>3, <2>4, <2>5, <2>6, <2>7, <2>8 DEF Next, Balancer, Command
<1>2. IInv /\ [Next]_vars =>
        [leg = "both" /\ leg' = "both" /\ Calm /\ UNCHANGED world /\ Balanced => Balanced']_vars
  BY <1>1
<1> QED
  BY <1>2, BalanceInvariant, PTL DEF Spec, BalanceStays

-----------------------------------------------------------------------------
(* What a flood does to the ceiling, and a clean stretch.                  *)

LEMMA GuardedIsTheLower ==
  ASSUME NEW p \in Pressures
  PROVE  /\ Guarded(p) <= Ceiling /\ (p.cap > 0 => Guarded(p) <= p.cap)
         /\ \A bound \in Nat : /\ p.cap > 0 /\ p.cap <= bound => Guarded(p) <= bound
                               /\ Ceiling <= bound => Guarded(p) <= bound
<1>1. Ceiling \in Nat /\ p.cap \in Nat
  BY CeilingAssumption, RungsAreNumbers DEF Pressures
<1> QED
  BY <1>1 DEF Guarded, AtMost

\* Ageing leaves the cap alone.
LEMMA AgedCap ==
  ASSUME NEW p \in Pressures, NEW elapsed \in {0, 1}
  PROVE  Aged(p, elapsed).cap = p.cap
BY DEF Aged, Pressures

\* Relief does nothing in the round of a flood, whose cooldown has just begun.
LEMMA NoReliefYet ==
  ASSUME NEW p \in Pressures, p.cool # 0, NEW healthy
  PROVE  Relieved(p, healthy).cap = p.cap
<1> DEFINE q == [p EXCEPT !.clean = IF ~healthy THEN Never ELSE IF @ = Never THEN 0 ELSE @]
<1>1. q.cap = p.cap /\ q.cool = p.cool
  BY DEF Pressures
<1>2. Relieved(p, healthy) =
        IF q.cap > 0 /\ healthy /\ q.cool = 0 /\ q.clean = RecoverAfter
        THEN [q EXCEPT !.cap = IF @ >= Ceiling THEN 0 ELSE AtMost(StepUp(@), Ceiling), !.clean = 0]
        ELSE q
  BY DEF Relieved
<1> HIDE DEF q
<1> QED
  BY <1>1, <1>2

\* What a flood lowers the cap to.
LEMMA PressedCap ==
  ASSUME NEW p \in Pressures, NEW live \in Rungs
  PROVE  LET q == Pressed(p, live)
         IN  /\ q.cool = Cooldown
             /\ p.drop # DropEvery => q.cap = p.cap
             /\ p.drop = DropEvery =>
                  /\ q.cap \in Rungs /\ q.cap <= StepDown(live, 1)
                  /\ q.cap <= StepDown(Ceiling, 1) /\ (p.cap > 0 => q.cap <= StepDown(p.cap, 1))
<1> DEFINE known == {Ceiling} \cup ({live} \cap Rungs) \cup ({p.cap} \ {0})
           base == CHOOSE r \in known : \A q \in known : r <= q
<1>1. known \subseteq Rungs /\ known # {} /\ live \in known /\ Ceiling \in known
      /\ (p.cap > 0 => p.cap \in known)
  BY CeilingAssumption DEF Pressures
<1>2. known \in SUBSET Nat
  BY <1>1, RungsAreNumbers
<1>3. base \in known /\ \A q \in known : base <= q
  <2>1. \E r \in known : \A q \in known : r <= q
    <3> HIDE DEF known
    <3> QED
      BY <1>1, <1>2, LeastNumber
  <2> QED
    BY <2>1
<1> HIDE DEF base, known
<1>4. \A r \in known : StepDown(base, 1) <= StepDown(r, 1)
  BY <1>1, <1>3, DescentIsMonotone
<1>5. StepDown(base, 1) \in Rungs
  BY <1>1, <1>3, DescentStaysOnTheLadder
<1>6. Pressed(p, live) =
        [cap |-> IF p.drop = DropEvery THEN StepDown(base, 1) ELSE p.cap, cool |-> Cooldown,
         clean |-> 0, drop |-> IF p.drop = DropEvery THEN 0 ELSE p.drop]
  BY DEF Pressed, base, known
<1> QED
  BY <1>1, <1>4, <1>5, <1>6

\* A round that saw fresh ENOBUFS never goes for a higher rung than the round before it, and
\* once a drop is due it goes at least one rung below the rung that is live and below the one
\* allowed before: judging hy2 healthy in the same round cannot undo it, for every ladder
\* (balanceOnce, udpPressure.observe, udpPressure.target).
THEOREM FloodOnlyLowers ==
  ASSUME IInv, Cooldown > 0, world.flood, NEW elapsed \in {0, 1}, NEW answer, Aim(elapsed, answer)
  PROVE  /\ Guarded(pressure') <= Guarded(pressure)
         /\ Aged(pressure, elapsed).drop = DropEvery =>
              /\ Guarded(pressure') <= StepDown(rung, 1)
              /\ Guarded(pressure') <= StepDown(Guarded(pressure), 1)
<1> DEFINE aged == Aged(pressure, elapsed)
           pressed == Pressed(aged, rung)
           healthy == policy.hy2.healthy /\ policy.hy2.slow = 0
<1>1. pressure \in Pressures /\ rung \in Rungs
  BY DEF IInv, TypeOK, Pressures
<1>2. aged \in Pressures /\ aged.cap = pressure.cap
  BY <1>1, AgedIsSound, AgedCap
<1>3. pressed \in Pressures /\ pressed.cool = Cooldown
      /\ (aged.drop # DropEvery => pressed.cap = pressure.cap)
      /\ (aged.drop = DropEvery =>
            /\ pressed.cap \in Rungs /\ pressed.cap <= StepDown(rung, 1)
            /\ pressed.cap <= StepDown(Ceiling, 1)
            /\ (pressure.cap > 0 => pressed.cap <= StepDown(pressure.cap, 1)))
  <2> HIDE DEF aged
  <2> QED
    BY <1>1, <1>2, PressedIsSound, PressedCap
<1>4. pressure' = Relieved(pressed, healthy)
  BY DEF Aim
<1> HIDE DEF pressed, aged, healthy
<1>5. pressure' \in Pressures /\ pressure'.cap = pressed.cap
  BY <1>3, <1>4, RelievedIsSound, NoReliefYet, PressureAssumption
<1>6. Guarded(pressure) \in Rungs /\ Guarded(pressure') \in Rungs
      /\ Guarded(pressure) \in {Ceiling, pressure.cap}
      /\ (Guarded(pressure) = Ceiling \/ pressure.cap > 0)
  BY <1>1, <1>5, GuardedIsARung DEF Guarded, AtMost
<1>7. CASE aged.drop # DropEvery
  <2>1. Guarded(pressure') = Guarded(pressure)
    BY <1>3, <1>5, <1>7 DEF Guarded
  <2> QED
    BY <1>6, <1>7, <2>1, RungsAreNumbers DEF aged
<1>8. CASE aged.drop = DropEvery
  <2>1. Guarded(pressure') <= pressed.cap /\ pressed.cap \in Nat
    BY <1>3, <1>5, <1>8, RungsAreNumbers, GuardedIsTheLower
  <2>2. pressed.cap <= StepDown(Guarded(pressure), 1)
    BY <1>3, <1>6, <1>8
  <2>3. /\ StepDown(rung, 1) \in Rungs
        /\ StepDown(Guarded(pressure), 1) \in Rungs
        /\ StepDown(Guarded(pressure), 1) <= Guarded(pressure)
    BY <1>1, <1>6, DescentStaysOnTheLadder
  <2>4. /\ StepDown(rung, 1) \in Nat /\ StepDown(Guarded(pressure), 1) \in Nat
        /\ Guarded(pressure) \in Nat /\ Guarded(pressure') \in Nat
    BY <1>6, <2>3, RungsAreNumbers
  <2> QED
    BY <1>3, <1>8, <2>1, <2>2, <2>3, <2>4
<1> QED
  BY <1>7, <1>8

\* A round without a flood goes at most one rung higher than the round before it
\* (udpPressure.target): the cap is lifted by clean stretches, never all at once.
THEOREM ReliefClimbsOneRung ==
  ASSUME IInv, ~world.flood, NEW elapsed \in {0, 1}, NEW answer, Aim(elapsed, answer)
  PROVE  Guarded(pressure') <= StepUp(Guarded(pressure))
<1> DEFINE aged == Aged(pressure, elapsed)
           healthy == policy.hy2.healthy /\ policy.hy2.slow = 0
           q == [aged EXCEPT !.clean = IF ~healthy THEN Never ELSE IF @ = Never THEN 0 ELSE @]
           raised == IF q.cap >= Ceiling THEN 0 ELSE AtMost(StepUp(q.cap), Ceiling)
<1>1. pressure \in Pressures
  BY DEF IInv, TypeOK, Pressures
<1>2. aged \in Pressures /\ aged.cap = pressure.cap
  BY <1>1, AgedIsSound, AgedCap
<1>3. pressure' = Relieved(aged, healthy)
  BY DEF Aim
<1> HIDE DEF aged
<1>4. q.cap = pressure.cap /\ q \in [cap : Rungs \cup {0}, cool : 0..Cooldown,
                                     clean : 0..RecoverAfter \cup {Never}, drop : 0..DropEvery]
  BY <1>2, PressureAssumption DEF Pressures
<1>5. Relieved(aged, healthy) =
        IF q.cap > 0 /\ healthy /\ q.cool = 0 /\ q.clean = RecoverAfter
        THEN [q EXCEPT !.cap = IF @ >= Ceiling THEN 0 ELSE AtMost(StepUp(@), Ceiling), !.clean = 0]
        ELSE q
  BY DEF Relieved
<1> HIDE DEF q, healthy
<1>6. pressure'.cap = pressure.cap \/ (pressure.cap > 0 /\ pressure'.cap = raised)
  BY <1>3, <1>4, <1>5
<1>7. /\ pressure.cap \in Rungs \cup {0} /\ pressure.cap \in Nat /\ Ceiling \in Nat
      /\ Guarded(pressure) \in Rungs /\ Guarded(pressure) \in Nat
      /\ StepUp(Guarded(pressure)) \in Rungs /\ StepUp(Guarded(pressure)) \in Nat
      /\ StepUp(Guarded(pressure)) >= Guarded(pressure)
  BY <1>1, CeilingAssumption, GuardedIsARung, RungsAreNumbers, AscentStaysOnTheLadder
  DEF Pressures
<1>8. CASE pressure'.cap = pressure.cap
  BY <1>7, <1>8 DEF Guarded
<1>9. CASE pressure.cap > 0 /\ pressure'.cap = raised
  <2>1. CASE pressure.cap >= Ceiling
    <3>1. Guarded(pressure') = Ceiling /\ Guarded(pressure) = Ceiling
      BY <1>4, <1>7, <1>9, <2>1 DEF Guarded, AtMost
    <3> QED
      BY <1>7, <3>1
  <2>2. CASE pressure.cap < Ceiling
    <3>1. Guarded(pressure) = pressure.cap
      BY <1>7, <1>9, <2>2 DEF Guarded, AtMost
    <3>2. pressure'.cap = AtMost(StepUp(Guarded(pressure)), Ceiling)
      BY <1>4, <1>7, <1>9, <2>2, <3>1
    <3>3. StepUp(Guarded(pressure)) > 0
      BY <1>7, RungsAreNumbers
    <3> QED
      BY <1>7, <3>2, <3>3, CeilingAssumption, RungsAreNumbers DEF Guarded, AtMost
  <2> QED
    BY <1>7, <2>1, <2>2
<1> QED
  BY <1>6, <1>8, <1>9

=============================================================================
