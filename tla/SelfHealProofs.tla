--------------------------- MODULE SelfHealProofs ---------------------------
(***************************************************************************)
(* The invariant of SelfHeal, for every ladder, every clock, every number  *)
(* of minutes a descent or a climb takes, and every way a call may fail.   *)
(***************************************************************************)
EXTENDS SelfHeal, LadderProofs

\* What a descent weighs: the minutes it took.
Rest(bad) == bad % BackoffTicks
Weight(h) == h.backoff * BackoffTicks + Rest(h.bad)

\* A healState that fits its history of n flooded minutes.
Fits(h, n) ==
  /\ h \in Heals /\ n \in 0..Enough
  /\ h.bad = BackoffTicks => h.backoff = MaxBackoff
  /\ Weight(h) <= n

LEMMA Products ==
  ASSUME NEW t \in Nat, NEW b \in Nat
  PROVE  b * t \in Nat /\ (b + 1) * t = b * t + t /\ \A c \in Nat : b <= c => b * t <= c * t
OBVIOUS

LEMMA Rests ==
  /\ Rest(0) = 0 /\ Rest(BackoffTicks) = 0
  /\ \A n \in Nat : Rest(n) \in 0..BackoffTicks - 1
  /\ \A n \in Nat : n < BackoffTicks => Rest(n) = n
BY HealAssumption DEF Rest

\* No descent weighs more than the history counts.
LEMMA EnoughForAll ==
  ASSUME NEW h \in Heals
  PROVE  Weight(h) \in 0..Enough
<1>1. h.backoff \in Nat /\ h.bad \in Nat /\ h.backoff <= MaxBackoff
  BY HealAssumption DEF Heals
<1>2. Rest(h.bad) \in 0..BackoffTicks - 1
  BY <1>1, Rests
<1>3. h.backoff * BackoffTicks \in Nat /\ h.backoff * BackoffTicks <= MaxBackoff * BackoffTicks
  BY <1>1, Products, HealAssumption
<1>4. MaxBackoff * BackoffTicks \in Nat
  BY Products, HealAssumption
<1> QED
  BY <1>2, <1>3, <1>4, HealAssumption DEF Weight, Enough

\* A flooded minute adds at most one to the weight.
LEMMA DescendFits ==
  ASSUME NEW h, NEW n, Fits(h, n)
  PROVE  Fits(Descend(h), AtMost(n + 1, Enough))
<1> DEFINE bad == AtMost(h.bad + 1, BackoffTicks)
           g == Descend(h)
<1>1. /\ h \in Heals /\ h.backoff \in 0..MaxBackoff /\ h.bad \in 0..BackoffTicks
      /\ n \in 0..Enough /\ Enough \in Nat /\ Weight(h) <= n
      /\ BackoffTicks \in Nat \ {0} /\ MaxBackoff \in Nat
      /\ h.bad = BackoffTicks => h.backoff = MaxBackoff
  <2>1. MaxBackoff * BackoffTicks \in Nat
    BY HealAssumption, Products
  <2>2. Enough \in Nat
    BY <2>1, HealAssumption DEF Enough
  <2> QED
    BY <2>2, HealAssumption DEF Fits, Heals
<1>2. bad \in 1..BackoffTicks /\ (bad < BackoffTicks => bad = h.bad + 1)
  BY <1>1 DEF AtMost
<1>3. g \in Heals /\ (g.bad = BackoffTicks => g.backoff = MaxBackoff)
  <2>1. CASE bad = BackoffTicks /\ h.backoff < MaxBackoff
    <3>1. g = [backoff |-> h.backoff + 1, bad |-> 0, good |-> 0, target |-> h.target]
      BY <1>1, <2>1 DEF Descend, Heals
    <3>2. h.backoff + 1 \in 0..MaxBackoff /\ h.target \in Typed \cup {0} /\ 0 # BackoffTicks
      BY <1>1, <2>1 DEF Heals
    <3> QED
      BY <1>1, <3>1, <3>2, HealAssumption DEF Heals
  <2>2. CASE ~(bad = BackoffTicks /\ h.backoff < MaxBackoff)
    <3>1. g = [backoff |-> h.backoff, bad |-> bad, good |-> 0, target |-> h.target]
      BY <1>1, <2>2 DEF Descend, Heals
    <3>2. bad \in 0..BackoffTicks /\ (bad = BackoffTicks => h.backoff = MaxBackoff)
      BY <1>1, <1>2, <2>2
    <3>3. h.target \in Typed \cup {0}
      BY <1>1 DEF Heals
    <3> HIDE DEF bad
    <3> QED
      BY <1>1, <3>1, <3>2, <3>3, HealAssumption DEF Heals
  <2> QED
    BY <2>1, <2>2
<1>4. Weight(g) <= n + 1
  <2>1. CASE bad = BackoffTicks /\ h.backoff < MaxBackoff
    <3>1. g.backoff = h.backoff + 1 /\ g.bad = 0
      BY <1>1, <2>1 DEF Descend, Heals
    <3>2. h.bad = BackoffTicks - 1
      BY <1>1, <2>1 DEF AtMost
    <3>3. Rest(h.bad) = BackoffTicks - 1 /\ Rest(g.bad) = 0
      BY <1>1, <3>1, <3>2, Rests
    <3>4. g.backoff * BackoffTicks = h.backoff * BackoffTicks + BackoffTicks
      BY <1>1, <3>1, Products
    <3>5. h.backoff * BackoffTicks \in Nat
      BY <1>1, Products
    <3> QED
      BY <1>1, <3>3, <3>4, <3>5 DEF Weight
  <2>2. CASE ~(bad = BackoffTicks /\ h.backoff < MaxBackoff)
    <3>1. g.backoff = h.backoff /\ g.bad = bad
      BY <1>1, <2>2 DEF Descend, Heals
    <3>2. Rest(bad) <= Rest(h.bad) + 1
      <4>1. Rest(h.bad) \in Nat
        BY <1>1, Rests
      <4>2. CASE bad = BackoffTicks
        BY <1>1, <4>1, <4>2, Rests
      <4>3. CASE bad < BackoffTicks
        BY <1>1, <1>2, <4>3, Rests
      <4> QED
        BY <1>1, <1>2, <4>2, <4>3
    <3>3. h.backoff * BackoffTicks \in Nat /\ Rest(h.bad) \in Nat /\ Rest(bad) \in Nat
      BY <1>1, <1>2, Products, Rests
    <3> QED
      BY <1>1, <3>1, <3>2, <3>3 DEF Weight
  <2> QED
    BY <2>1, <2>2
<1>5. Weight(g) \in 0..Enough
  BY <1>3, EnoughForAll
<1>6. AtMost(n + 1, Enough) \in 0..Enough /\ Weight(g) <= AtMost(n + 1, Enough)
  <2>1. Enough \in Nat /\ n \in Nat /\ n <= Enough
    BY <1>1
  <2> HIDE DEF g
  <2> QED
    BY <2>1, <1>4, <1>5 DEF AtMost
<1> QED
  BY <1>3, <1>6 DEF Fits

\* A clean minute adds nothing to it.
LEMMA ClimbFits ==
  ASSUME NEW h, NEW n, Fits(h, n)
  PROVE  Fits(Climb(h), n)
<1> DEFINE good == AtMost(h.good + 1, RecoverTicks)
           g == Climb(h)
<1>1. /\ h \in Heals /\ h.backoff \in 0..MaxBackoff /\ h.bad \in 0..BackoffTicks
      /\ h.good \in 0..RecoverTicks /\ n \in 0..Enough /\ Weight(h) <= n
      /\ BackoffTicks \in Nat \ {0} /\ RecoverTicks \in Nat \ {0} /\ MaxBackoff \in Nat
  BY HealAssumption DEF Fits, Heals
<1>2. good \in 0..RecoverTicks
  BY <1>1 DEF AtMost
<1>3. g \in Heals /\ g.bad = 0 /\ g.backoff <= h.backoff
  <2>1. CASE good = RecoverTicks /\ h.backoff > 0
    <3>1. g = [backoff |-> h.backoff - 1, bad |-> 0, good |-> 0, target |-> h.target]
      BY <1>1, <2>1 DEF Climb, Heals
    <3>2. h.backoff - 1 \in 0..MaxBackoff /\ h.target \in Typed \cup {0}
      BY <1>1, <2>1 DEF Heals
    <3> QED
      BY <1>1, <3>1, <3>2 DEF Heals
  <2>2. CASE ~(good = RecoverTicks /\ h.backoff > 0)
    <3>1. g = [backoff |-> h.backoff, bad |-> 0, good |-> good, target |-> h.target]
      BY <1>1, <2>2 DEF Climb, Heals
    <3>2. h.target \in Typed \cup {0}
      BY <1>1 DEF Heals
    <3> HIDE DEF good
    <3> QED
      BY <1>1, <1>2, <3>1, <3>2 DEF Heals
  <2> QED
    BY <2>1, <2>2
<1>4. g.backoff \in Nat /\ h.backoff \in Nat
  BY <1>1, <1>3 DEF Heals
<1>5. g.backoff * BackoffTicks <= h.backoff * BackoffTicks /\ g.backoff * BackoffTicks \in Nat
  BY <1>1, <1>3, <1>4, Products
<1>6. Rest(g.bad) = 0 /\ Rest(h.bad) \in Nat
  BY <1>1, <1>3, Rests
<1>7. Weight(g) <= Weight(h) /\ Weight(h) \in Nat /\ Weight(g) \in Nat
  BY <1>1, <1>3, <1>5, <1>6, EnoughForAll DEF Weight
<1> QED
  BY <1>1, <1>3, <1>7 DEF Fits

\* Neither does a minute that only stops the climb.
LEMMA HoldFits ==
  ASSUME NEW h, NEW n, Fits(h, n)
  PROVE  Fits([h EXCEPT !.good = 0], n)
<1>1. h \in Heals
  BY DEF Fits
<1>2. [h EXCEPT !.good = 0] \in Heals
  BY <1>1, HealAssumption DEF Heals
<1>3. [h EXCEPT !.good = 0].bad = h.bad /\ [h EXCEPT !.good = 0].backoff = h.backoff
  BY <1>1 DEF Heals
<1> QED
  BY <1>2, <1>3 DEF Fits, Weight

\* The history after a minute.
Counted(n, verdict, flooding) == IF Earns(verdict, flooding) THEN AtMost(n + 1, Enough) ELSE n

\* Whatever a minute finds, the healState fits the history it leaves.
LEMMA TickFits ==
  ASSUME NEW h, NEW n, Fits(h, n), NEW verdict \in Verdicts, NEW flooding \in BOOLEAN
  PROVE  Fits(HealTick(h, verdict, flooding), Counted(n, verdict, flooding))
<1>1. CASE verdict \in NoEvidence \/ ~flooding \/ verdict = "path-blackhole"
  <2>1. Counted(n, verdict, flooding) = n
    BY <1>1 DEF Counted, Earns
  <2>2. HealTick(h, verdict, flooding) \in {h, Climb(h), [h EXCEPT !.good = 0]}
    BY <1>1 DEF HealTick
  <2> QED
    BY <2>1, <2>2, ClimbFits, HoldFits
<1>2. CASE verdict \notin NoEvidence /\ flooding /\ verdict # "path-blackhole"
  <2>1. Counted(n, verdict, flooding) = AtMost(n + 1, Enough)
    BY <1>2 DEF Counted, Earns
  <2>2. HealTick(h, verdict, flooding) = Descend(h)
    BY <1>2 DEF HealTick
  <2> QED
    BY <2>1, <2>2, DescendFits
<1> QED
  BY <1>1, <1>2

\* A new target starts over, and so does its history.
LEMMA FreshFits ==
  ASSUME NEW t \in Typed \cup {0}
  PROVE  Fits(Fresh(t), 0)
<1>1. Fresh(t) \in Heals /\ Fresh(t).bad = 0 /\ Fresh(t).backoff = 0
  BY HealAssumption DEF Fresh, Heals
<1>2. 0 * BackoffTicks = 0 /\ Rest(0) = 0
  BY HealAssumption, Rests
<1>3. Weight(Fresh(t)) = 0
  BY <1>1, <1>2 DEF Weight
<1> QED
  BY <1>1, <1>3, EnoughForAll, HealAssumption DEF Fits

\* What the ladder rests at is a rung.
LEMMA TargetIsARung == Profile \in Rungs /\ Target \in Rungs
  BY RungsAreNumbers DEF Target, Profile

-----------------------------------------------------------------------------

\* The variables a step of apply's ends in.
LEMMA ApplyKeeps ==
  ASSUME IInv, NEW h, NEW n, Fits(h, n), h.target = heal.target, Apply(h, n)
  PROVE  IInv'
<1> USE DEF IInv
<1> DEFINE next == Retarget(h, pin)
<1>1. pin \in Typed \cup {0} /\ heal' = next /\ sightings' = IF pin = h.target THEN n ELSE 0
  BY DEF Apply, TypeOK
<1>2. Fits(heal', sightings')
  <2>1. CASE pin = h.target
    BY <1>1, <2>1 DEF Retarget
  <2>2. CASE pin # h.target
    <3>1. heal' = Fresh(pin) /\ sightings' = 0
      BY <1>1, <2>2 DEF Retarget
    <3> QED
      BY <1>1, <3>1, FreshFits
  <2> QED
    BY <2>1, <2>2
<1>3. member' \in Members
  <2>1. next \in Heals /\ next.backoff \in Nat
    BY <1>1, <1>2, HealAssumption DEF Fits, Heals
  <2>2. StepDown(Target, next.backoff) \in Rungs
    BY <2>1, TargetIsARung, DescentStaysOnTheLadder
  <2> QED
    BY <2>2 DEF Apply, Members
<1>4. member' # NoMember
  BY <1>3, RungsAreNumbers DEF Members, Reality, NoMember
<1>5. TypeOK'
  BY <1>2, <1>3 DEF TypeOK, Apply, Fits, command
<1>6. CarriedOK'
  BY <1>4 DEF CarriedOK, Apply, command
<1>7. FullAtTheBottom' /\ DescentIsEarned'
  BY <1>2 DEF Fits, Weight, Rest, FullAtTheBottom, DescentIsEarned
<1> QED
  BY <1>5, <1>6, <1>7

\* The healState of a reachable state fits its history.
LEMMA HealFits == ASSUME IInv PROVE Fits(heal, sightings)
  BY DEF IInv, TypeOK, FullAtTheBottom, DescentIsEarned, Fits, Weight, Rest

\* A minute leaves the target alone, and retarget weighs it against the pin.
LEMMA TickKeepsTarget ==
  ASSUME NEW h \in Heals, NEW verdict, NEW flooding
  PROVE  HealTick(h, verdict, flooding).target = h.target
BY DEF HealTick, Descend, Climb, Heals

\* A step that leaves the healState alone.
LEMMA Undisturbed ==
  ASSUME IInv, UNCHANGED heals, TypeOK', CarriedOK'
  PROVE  IInv'
BY DEF IInv, heals, FullAtTheBottom, DescentIsEarned

LEMMA SelectedIsAMember ==
  ASSUME NEW answer, NEW target \in Members, selector \in Members
  PROVE  Selected(answer, target) \in Members
BY DEF Selected

LEMMA InitHolds == ASSUME Init PROVE IInv
<1>1. Fits(heal, sightings)
  BY FreshFits DEF Init
<1>2. TypeOK
  BY <1>1 DEF Init, TypeOK, Fits, Members, Reality
<1>3. CarriedOK
  BY DEF Init, CarriedOK
<1> QED
  BY <1>1, <1>2, <1>3 DEF IInv, FullAtTheBottom, DescentIsEarned, Fits, Weight, Rest

LEMMA StepHolds == ASSUME IInv, [Next]_vars PROVE IInv'
<1> USE DEF IInv
<1>1. CASE FirstApply
  BY <1>1, HealFits, ApplyKeeps DEF FirstApply
<1>2. ASSUME NEW verdict \in Verdicts, NEW flooding \in BOOLEAN, Minute(verdict, flooding)
      PROVE  IInv'
  <2>1. Fits(HealTick(heal, verdict, flooding), Counted(sightings, verdict, flooding))
    BY HealFits, TickFits
  <2>2. HealTick(heal, verdict, flooding).target = heal.target
    BY TickKeepsTarget DEF TypeOK
  <2>3. Apply(HealTick(heal, verdict, flooding), Counted(sightings, verdict, flooding))
    BY <1>2 DEF Minute, Counted
  <2> QED
    BY <2>1, <2>2, <2>3, ApplyKeeps
<1>3. ASSUME NEW a \in Answers, CompareSelection(a) PROVE IInv'
  <2>1. TypeOK' /\ CarriedOK' /\ UNCHANGED heals
    BY <1>3 DEF CompareSelection, EndTick, StaySame, TypeOK, CarriedOK, command, heals
  <2> QED
    BY <2>1, Undisturbed
<1>4. CASE CheckGeneration
  <2>1. TypeOK' /\ CarriedOK' /\ UNCHANGED heals
    BY <1>4 DEF CheckGeneration, EndTick, StaySame, TypeOK, CarriedOK, command, heals
  <2> QED
    BY <2>1, Undisturbed
<1>5. ASSUME NEW a \in Answers, SelectMember(a) PROVE IInv'
  <2>1. member \in Members
    BY <1>5 DEF SelectMember, TypeOK, CarriedOK
  <2>2. selector' \in Members
    BY <1>5, <2>1, SelectedIsAMember DEF SelectMember, TypeOK
  <2>3. TypeOK' /\ CarriedOK' /\ UNCHANGED heals
    BY <1>5, <2>1, <2>2 DEF SelectMember, EndTick, StaySame, TypeOK, CarriedOK, command, heals
  <2> QED
    BY <2>3, Undisturbed
<1>6. CASE ClearCeiling
  <2>1. goal' \in Rungs /\ goal' # 0
    BY <1>6, TargetIsARung, RungsAreNumbers DEF ClearCeiling
  <2>2. TypeOK' /\ CarriedOK' /\ UNCHANGED heals
    BY <1>6, <2>1 DEF ClearCeiling, Elsewhere, TypeOK, CarriedOK, tick, heals
  <2> QED
    BY <2>2, Undisturbed
<1>7. ASSUME NEW want \in Typed, TruncateCeiling(want) PROVE IInv'
  <2>1. goal' \in Rungs /\ goal' # 0 /\ goal' \in Typed
    BY <1>7, RungsAreNumbers DEF TruncateCeiling
  <2>2. TypeOK' /\ CarriedOK' /\ UNCHANGED heals
    BY <1>7, <2>1 DEF TruncateCeiling, Elsewhere, TypeOK, CarriedOK, tick, heals
  <2> QED
    BY <2>2, Undisturbed
<1>8. CASE WriteCeiling
  <2>1. TypeOK' /\ CarriedOK' /\ UNCHANGED heals
    BY <1>8 DEF WriteCeiling, Elsewhere, TypeOK, CarriedOK, tick, heals
  <2> QED
    BY <2>1, Undisturbed
<1>9. ASSUME NEW a \in Answers, AskCeiling(a) PROVE IInv'
  <2>1. TypeOK' /\ CarriedOK' /\ UNCHANGED heals
    BY <1>9 DEF AskCeiling, EndCommand, Elsewhere, TypeOK, CarriedOK, tick, heals
  <2> QED
    BY <2>1, Undisturbed
<1>10. ASSUME NEW a \in Answers, SelectCeiling(a) PROVE IInv'
  <2>1. goal \in Rungs
    BY <1>10 DEF SelectCeiling, TypeOK, CarriedOK
  <2>2. selector' \in Members
    BY <1>10, <2>1, SelectedIsAMember DEF SelectCeiling, TypeOK, Members
  <2>3. TypeOK' /\ CarriedOK' /\ UNCHANGED heals
    BY <1>10, <2>2 DEF SelectCeiling, EndCommand, Elsewhere, TypeOK, CarriedOK, tick, heals
  <2> QED
    BY <2>3, Undisturbed
<1>11. CASE Legs
  <2>1. ASSUME NEW to \in {"reality", "hy2"}, LegChange(to) PROVE IInv'
    <3>1. TypeOK' /\ CarriedOK' /\ UNCHANGED heals
      BY <2>1 DEF LegChange, TypeOK, CarriedOK, command, heals
    <3> QED
      BY <3>1, Undisturbed
  <2>2. ASSUME NEW m \in Members, NEW a \in Answers, LateSelection(m, a) PROVE IInv'
    <3>1. selector' \in Members
      BY <2>2, SelectedIsAMember DEF LateSelection, TypeOK
    <3>2. TypeOK' /\ CarriedOK' /\ UNCHANGED heals
      BY <2>2, <3>1 DEF LateSelection, TypeOK, CarriedOK, tick, command, heals
    <3> QED
      BY <3>2, Undisturbed
  <2> QED
    BY <1>11, <2>1, <2>2 DEF Legs
<1>12. CASE Clock
  <2>1. hour' \in 0..Day - 1
    BY <1>12, ClockAssumption DEF Clock, TypeOK
  <2>2. TypeOK' /\ CarriedOK' /\ UNCHANGED heals
    BY <1>12, <2>1 DEF Clock, TypeOK, CarriedOK, tick, command, heals
  <2> QED
    BY <2>2, Undisturbed
<1>13. CASE UNCHANGED vars
  <2>1. TypeOK' /\ CarriedOK' /\ UNCHANGED heals
    BY <1>13 DEF vars, TypeOK, CarriedOK, tick, command, heals
  <2> QED
    BY <2>1, Undisturbed
<1> QED
  BY <1>1, <1>2, <1>3, <1>4, <1>5, <1>6, <1>7, <1>8, <1>9, <1>10, <1>11, <1>12, <1>13
  DEF Next, Scheduler, Command

\* The types hold, and every descent is one that the flooded minutes since the pin changed,
\* blackouts left out, account for (healState.tick, freeze, retarget; apply).
THEOREM HealInvariant == Spec => []IInv
<1>1. Init => IInv
  BY InitHolds
<1>2. IInv /\ [Next]_vars => IInv'
  BY StepHolds
<1> QED
  BY <1>1, <1>2, PTL DEF Spec

\* The ceiling comes down only for floods that were seen since the pin changed and outside a
\* known blackout, one rung for BackoffTicks of them (healState.tick, freeze, retarget).
THEOREM DescentTheorem == Spec => []DescentIsEarned
<1>1. IInv => DescentIsEarned
  BY DEF IInv
<1> QED
  BY <1>1, HealInvariant, PTL

-----------------------------------------------------------------------------

\* A minute decides on the rung that its verdict leaves the descent at.
LEMMA MinuteFollows ==
  ASSUME IInv, Following, Target' = Target, NEW verdict, NEW flooding, Minute(verdict, flooding)
  PROVE  Following'
<1> DEFINE h == HealTick(heal, verdict, flooding)
<1>1. h.target = pin
  BY TickKeepsTarget DEF IInv, TypeOK, Following
<1> HIDE DEF h
<1>2. PICK count : Apply(h, count)
  BY DEF Minute, h
<1>3. heal' = h
  BY <1>1, <1>2 DEF Apply, Retarget
<1>4. /\ member' = StepDown(Target, heal'.backoff) /\ pc' = "compare" /\ current' = TRUE
      /\ UNCHANGED <<pin, leg, cli>>
  BY <1>1, <1>2, <1>3 DEF Apply, Retarget, Following, command
<1> QED
  BY <1>1, <1>3, <1>4 DEF Following

\* A tick whose calls are answered ends on the rung it decided on.
LEMMA TickFollows ==
  ASSUME Following, Target' = Target, ~Unheard,
         (\E a \in Answers : CompareSelection(a)) \/ CheckGeneration
         \/ (\E a \in Answers : SelectMember(a))
  PROVE  Following'
<1>1. CASE CheckGeneration
  BY <1>1 DEF CheckGeneration, Following, StaySame, heals, command
<1>2. CASE CompareSelection("ok")
  BY <1>2 DEF CompareSelection, EndTick, Following, StaySame, heals, command
<1>3. CASE SelectMember("ok")
  BY <1>3 DEF SelectMember, Selected, EndTick, Following, StaySame, heals, command
<1> QED
  BY <1>1, <1>2, <1>3 DEF Unheard

\* The selector is on the rung that the floods and the clean minutes call for after every
\* tick whose calls are answered, and stays there until a command, a leg change or its late
\* selection moves it, for every ladder and every healState (retune, apply): the safety half
\* of CeilingPrevails and FloodLowersCeiling.
THEOREM CeilingFollowsTheorem == Spec => CeilingFollows
<1>1. ASSUME IInv, [Next]_vars, Following, Target' = Target, ~(Command \/ Legs), ~Unheard
      PROVE  Following'
  <2>1. CASE FirstApply
    BY <1>1, <2>1 DEF FirstApply, Following
  <2>2. ASSUME NEW v \in Verdicts, NEW f \in BOOLEAN, Minute(v, f) PROVE Following'
    BY <1>1, <2>2, MinuteFollows
  <2>3. CASE (\E a \in Answers : CompareSelection(a)) \/ CheckGeneration
             \/ (\E a \in Answers : SelectMember(a))
    BY <1>1, <2>3, TickFollows
  <2>4. CASE Clock \/ UNCHANGED vars
    BY <1>1, <2>4 DEF Clock, vars, heals, tick, command, Following
  <2> QED
    BY <1>1, <2>1, <2>2, <2>3, <2>4 DEF Next, Scheduler
<1>2. IInv /\ [Next]_vars =>
        [Following /\ Target' = Target /\ ~(Command \/ Legs) /\ ~Unheard => Following']_vars
  BY <1>1
<1> QED
  BY <1>2, HealInvariant, PTL DEF Spec, CeilingFollows

=============================================================================
