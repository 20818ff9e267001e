----------------------------- MODULE LegFailover -----------------------------
(***************************************************************************)
(* The transport failover of the mole daemon (core/supervisor.go,          *)
(* core/standby.go, core/legmeasure.go, core/monitor.go).                  *)
(*                                                                         *)
(* A node has two transports ("legs"): REALITY over TCP, the primary, and  *)
(* the hysteria2 ladder over UDP, the fallback.  One sing-box selector,    *)
(* `proxy`, says which leg carries new connections.  Three writers move it *)
(* over the Clash API, and no lock covers a whole decision of any of them: *)
(*                                                                         *)
(*   "K"  runKeepalive: a warm request every beat (keepaliveOnce), then a  *)
(*        fresh dial (dialOnce), and from their evidence enterFallback,    *)
(*        recoverPrimary and considerLegFailover;                          *)
(*   "S"  runBandwidthScheduler: re-reads the pin every tick, tries the    *)
(*        timed return to the primary, and points the selector at the leg  *)
(*        in force;                                                        *)
(*   the `mole leg` command: a file (the pin) and a selection of its own.  *)
(*                                                                         *)
(* A step is what runs between two points where the goroutine can lose the *)
(* processor for long: a network call, or the lock of another goroutine.   *)
(* All rungs of the ladder are one leg here; which rung it is belongs to   *)
(* the ladder's own policy.  The node has a REALITY leg and its address is *)
(* known: without them the code disarms the failover.                      *)
(***************************************************************************)
EXTENDS Naturals, Sequences, FiniteSets

CONSTANTS
  Pins,          \* what `mole leg` may ask for
  Answers,       \* how the Clash API may answer a selection
  Quality,       \* what a leg may do to a request
  Weather,       \* the network conditions: for each leg, what its requests may meet
  EnterFails,    \* fallbackEnterFails, 6
  DialWindow,    \* utils.DialWindow, 20
  DialBadEnter,  \* utils.DialBadEnter, 4
  LegGateProbes, \* rounds of a comparison or of a recovery check, 3
  TestInterval,  \* legTestInterval, 1 minute
  MinDwell,      \* fallbackMinDwell, 10 minutes
  MaxDwell,      \* fallbackMaxDwell, 60 minutes
  Probation      \* fallbackProbation, 3 minutes

Legs == {"reality", "hy2"}
Threads == {"K", "S"}
NoLeg == "none"

ASSUME PinsAssumption == {"auto"} \subseteq Pins /\ Pins \subseteq {"auto", "reality", "hy2", "both"}
ASSUME AnswersAssumption == {"ok"} \subseteq Answers /\ Answers \subseteq {"ok", "fail", "lost"}
ASSUME QualityAssumption == {"clean", "dead"} \subseteq Quality /\ Quality \subseteq {"clean", "slow", "dead"}
ASSUME WeatherAssumption == Weather # {} /\ Weather \subseteq [Legs -> SUBSET Quality \ {{}}]
ASSUME CountsAssumption ==
  /\ EnterFails \in Nat \ {0} /\ DialWindow \in Nat \ {0} /\ DialBadEnter \in Nat \ {0}
  /\ LegGateProbes \in Nat \ {0} /\ TestInterval \in Nat
ASSUME DwellAssumption ==
  /\ MinDwell \in Nat \ {0} /\ MaxDwell \in Nat /\ MinDwell <= MaxDwell
  /\ Probation \in Nat

VARIABLES
  pin,       \* the file utils.ReadLeg reads
  cli,       \* what a running `mole leg` still has to do
  selector,  \* the leg the `proxy` selector points at
  applied,   \* the scheduler's memory of its last confirmed selection
  fb,        \* fallbackState: [on, dwell]
  stay,      \* minutes since fallbackState.since, while on
  back,      \* minutes since fallbackState.lastBack, while off; Probation = long ago or never
  kaFails,   \* State.KeepaliveFails, saturated at EnterFails (only >= is read)
  dials,     \* State.DialSamples
  testAge,   \* minutes since legTestAt, saturated
  linkBad,   \* State.LinkBad, written by the link sampler
  weather,   \* the network condition right now
  pooled,    \* the leg under the warm client's idle connection
  pc,        \* where each goroutine stands
  current,   \* no probeGeneration.Add since the goroutine loaded it
  arm,       \* which half of K's beat is running
  leg,       \* the leg K's request in flight is riding
  round,     \* probes passed so far
  race,      \* considerLegFailover's locals: leg at start, what was seen
  member     \* the leg the scheduler decided on

vars == <<pin, cli, selector, applied, fb, stay, back, kaFails, dials, testAge, linkBad,
          weather, pooled, pc, current, arm, leg, round, race, member>>

policy == <<fb, stay, back>>
evidence == <<kaFails, dials>>
world == <<linkBad, weather>>
user == <<pin, cli>>
locals == <<arm, leg, race>>

----------------------------------------------------------------------------
(* fallbackState (core/standby.go): a value and four operations on it.     *)

AtMost(n, bound) == IF n < bound THEN n ELSE bound
AtLeast(n, bound) == IF n > bound THEN n ELSE bound

\* The dwell the next stay gets: doubled when the last leave is still on probation.
NextDwell ==
  AtLeast(IF back < Probation THEN AtMost(2 * fb.dwell, MaxDwell) ELSE MinDwell, MinDwell)

Enter ==
  /\ ~fb.on
  /\ fb' = [on |-> TRUE, dwell |-> NextDwell]
  /\ stay' = 0
  /\ back' = Probation

Leave ==
  /\ fb.on
  /\ fb' = [fb EXCEPT !.on = FALSE]
  /\ stay' = 0
  /\ back' = 0

Extend ==
  /\ stay' = 0
  /\ UNCHANGED <<fb, back>>

DueBack == fb.on /\ stay >= fb.dwell

----------------------------------------------------------------------------
(* Evidence about the leg in force (utils/state.go, core/standby.go).      *)

\* Fault: the window is never trimmed.
RecordUntrimmed(window, sample) == Append(window, sample)

Record(window, sample) ==
  LET longer == Append(window, sample)
  IN  IF Len(longer) > DialWindow THEN Tail(longer) ELSE longer

Count(window, kinds) == Cardinality({i \in DOMAIN window : window[i] \in kinds})

\* Four failed dials open the comparison; a slow one is not a failed one.
FreshFlowsFailing(window) == Count(window, {"dead"}) >= DialBadEnter

OnHy2 == pin = "hy2" \/ (pin # "reality" /\ fb.on)

\* What a streak of n failed beats asks for, read under one lock.
KeepaliveLegAction(n, probeAlive) ==
  IF ~probeAlive \/ linkBad \/ n < EnterFails \/ pin # "auto" THEN "hold"
  ELSE IF ~OnHy2 THEN "fallback"
  ELSE IF fb.on THEN "abandon"
  ELSE "hold"

\* UDP silence must not strand a failed fallback.
RescueStuck(n, action) == action = "hold" /\ n >= EnterFails /\ fb.on /\ ~linkBad

LegTestDue == pin = "auto" /\ testAge > TestInterval

\* A bad first hop may do anything to a request, whichever leg it rides.
Outcomes(l) == IF linkBad THEN Quality ELSE weather[l]

----------------------------------------------------------------------------

NoRace == [onFallback |-> FALSE, candidate |-> TRUE, active |-> TRUE]

\* Where a goroutine goes when the operation it is in returns.
After(t) ==
  IF t = "S" THEN (IF member = NoLeg THEN "choose" ELSE "compare")
  ELSE (IF arm = "warm" THEN "sample" ELSE "idle")

Goto(t, l) == pc' = [pc EXCEPT ![t] = l]

\* An operation returns; K's beat ends with its second half.
Return(t) ==
  /\ Goto(t, After(t))
  /\ arm' = IF t = "K" THEN "warm" ELSE arm

\* What the selector points at once a selection was answered: a call that timed
\* out ("lost") may have taken effect although the caller sees an error.
Selected(answer, target) == IF answer = "fail" THEN selector ELSE target

Init ==
  /\ pin = "auto" /\ cli = "idle"
  /\ selector = "reality" /\ applied = NoLeg
  /\ fb = [on |-> FALSE, dwell |-> 0] /\ stay = 0 /\ back = Probation
  /\ kaFails = 0 /\ dials = <<>> /\ testAge = TestInterval + 1
  /\ linkBad = FALSE /\ weather \in Weather /\ pooled = NoLeg
  /\ pc = [t \in Threads |-> "idle"] /\ current = [t \in Threads |-> FALSE]
  /\ arm = "warm" /\ leg = NoLeg /\ round = [t \in Threads |-> 0]
  /\ race = NoRace /\ member = NoLeg

----------------------------------------------------------------------------
(* Decisions that run to their next call or lock without waiting.          *)

\* Fault: the pin is not read again after the probes.
HandoffUnderPin(t) ==
  IF linkBad THEN Return(t) ELSE Goto(t, "selectPrimary") /\ UNCHANGED arm

\* handoffToPrimary, its checks; the selection comes next.
HandoffToPrimary(t) ==
  IF pin # "auto" \/ linkBad
  THEN Return(t)
  ELSE Goto(t, "selectPrimary") /\ UNCHANGED arm

\* enterFallback up to its pre-warm: a pin disarms it, and a stay is entered once.  The
\* stay is committed before the selector moves, a request through the tunnel earlier.
EnterFallback ==
  IF pin # "auto" \/ fb.on
  THEN Return("K") /\ UNCHANGED policy
  ELSE Enter /\ Goto("K", "warmUp") /\ UNCHANGED arm

\* recoverPrimary up to its first probe.
RecoverPrimary ==
  IF fb.on /\ ~linkBad /\ pin = "auto"
  THEN Goto("K", "verify") /\ UNCHANGED arm
  ELSE Return("K")

----------------------------------------------------------------------------
(* Operations both goroutines run.                                         *)

\* resetKeepaliveCount: close the idle monitor connection, move to a new
\* generation, forget the streak and the dial window.
ResetKeepaliveCount(t) ==
  /\ pc[t] = "reset"
  /\ pooled' = NoLeg
  /\ current' = [u \in Threads |-> FALSE]
  /\ kaFails' = 0 /\ dials' = <<>>
  /\ Return(t)
  /\ UNCHANGED <<user, selector, applied, policy, testAge, world, leg, round, race, member>>

\* verifyLegRecovery: spaced probes of REALITY, each clean, or the check fails.  The
\* scheduler answers a failed check by waiting out another dwell.
VerifyLegRecovery(t) ==
  /\ pc[t] = "verify"
  /\ \E seen \in Outcomes("reality") :
       \/ /\ seen = "clean" /\ round[t] + 1 < LegGateProbes
          /\ round' = [round EXCEPT ![t] = @ + 1]
          /\ UNCHANGED <<pc, arm, policy>>
       \/ /\ seen = "clean" /\ round[t] + 1 = LegGateProbes
          /\ round' = [round EXCEPT ![t] = 0]
          /\ HandoffToPrimary(t)
          /\ UNCHANGED policy
       \/ /\ seen # "clean"
          /\ round' = [round EXCEPT ![t] = 0]
          /\ Return(t)
          /\ IF t = "S" /\ fb.on THEN Extend ELSE UNCHANGED policy
  /\ UNCHANGED <<user, selector, applied, evidence, testAge, world, pooled, current, leg, race, member>>

\* handoffToPrimary, its selection: the routing change is committed before the
\* evidence is discarded, and an error keeps the fallback.
SelectPrimary(t, answer) ==
  /\ pc[t] = "selectPrimary"
  /\ selector' = Selected(answer, "reality")
  /\ IF answer = "ok" THEN Goto(t, "release") /\ UNCHANGED arm ELSE Return(t)
  /\ UNCHANGED <<user, applied, policy, evidence, testAge, world, pooled, current, leg, round,
                 race, member>>

\* releaseFallback: fallbackState.leave, and a reset if there was a stay to leave.
ReleaseFallback(t) ==
  /\ pc[t] = "release"
  /\ IF fb.on
     THEN Leave /\ Goto(t, "reset") /\ UNCHANGED arm
     ELSE Return(t) /\ UNCHANGED policy
  /\ UNCHANGED <<user, selector, applied, evidence, testAge, world, pooled, current, leg, round,
                 race, member>>

----------------------------------------------------------------------------
(* The keepalive goroutine.                                                *)

\* keepaliveOnce, the request: over the warm connection when there is one.
StartKeepalive ==
  /\ pc["K"] = "idle"
  /\ Goto("K", "fetch")
  /\ current' = [current EXCEPT !["K"] = TRUE]
  /\ leg' = IF pooled = NoLeg THEN selector ELSE pooled
  /\ UNCHANGED <<user, selector, applied, policy, evidence, testAge, world, pooled, arm, round,
                 race, member>>

\* keepaliveOnce, the answer: dropped when a leg change overtook the request,
\* otherwise counted and judged under one lock.  LastProbeVerdict is whatever the
\* probe goroutine last saw.  A failed request may cost its connection; one in
\* flight while the idle connections are closed is not kept.
FinishKeepalive ==
  /\ pc["K"] = "fetch"
  /\ \E seen \in Outcomes(leg), probeAlive \in BOOLEAN :
       LET fails == IF seen = "dead" THEN AtMost(kaFails + 1, EnterFails) ELSE 0
           action == KeepaliveLegAction(fails, probeAlive)
       IN  IF ~current["K"]
           THEN pooled' = NoLeg /\ Return("K") /\ UNCHANGED <<kaFails, policy>>
           ELSE /\ kaFails' = fails
                /\ pooled' \in (IF seen = "dead" THEN {NoLeg, leg} ELSE {leg})
                /\ CASE action = "fallback" -> EnterFallback
                     [] action = "abandon" \/ RescueStuck(fails, action) ->
                          RecoverPrimary /\ UNCHANGED policy
                     [] OTHER -> Return("K") /\ UNCHANGED policy
  /\ current' = [current EXCEPT !["K"] = FALSE]
  /\ leg' = NoLeg
  /\ UNCHANGED <<user, selector, applied, dials, testAge, world, round, race, member>>

\* enterFallback, its pre-warm: up to five seconds through the tunnel, and no gate.
WarmFallback ==
  /\ pc["K"] = "warmUp"
  /\ Goto("K", "selectFallback")
  /\ UNCHANGED <<user, selector, applied, policy, evidence, testAge, world, pooled, current, locals, round,
                 member>>

\* enterFallback after its pre-warm: the selector follows, whatever moved it meanwhile.
SelectFallback(answer) ==
  /\ pc["K"] = "selectFallback"
  /\ selector' = Selected(answer, "hy2")
  /\ Goto("K", IF answer = "ok" THEN "reset" ELSE "undo")
  /\ UNCHANGED <<user, applied, policy, evidence, testAge, world, pooled, current, locals, round,
                 member>>

\* enterFallback, the selection failed: the stay is taken back.  No generation is bumped and
\* the selector is not looked at: a tick may have put the ladder in during the pre-warm.
UndoFallback ==
  /\ pc["K"] = "undo"
  /\ IF fb.on THEN Leave ELSE UNCHANGED policy
  /\ Return("K")
  /\ UNCHANGED <<user, selector, applied, evidence, testAge, world, pooled, current, leg, round,
                 race, member>>

\* shouldSampleFreshDial and dialOnce's start: never on a bad link.  The cadence (a
\* beat, or a minute after a full clean window) runs from one sample's start to the
\* next beat's end, so any beat may find the next sample not yet due.
StartDial ==
  /\ pc["K"] = "sample" /\ ~linkBad
  /\ Goto("K", "dial")
  /\ arm' = "fresh"
  /\ current' = [current EXCEPT !["K"] = TRUE]
  /\ leg' = selector
  /\ UNCHANGED <<user, selector, applied, policy, evidence, testAge, world, pooled, round, race,
                 member>>

SkipDial ==
  /\ pc["K"] = "sample"
  /\ Goto("K", "idle")
  /\ UNCHANGED <<user, selector, applied, policy, evidence, testAge, world, pooled, current,
                 locals, round, member>>

\* dialOnce, the answer: recorded unless a leg change overtook it.
FinishDial ==
  /\ pc["K"] = "dial"
  /\ \E seen \in Outcomes(leg) :
       IF ~current["K"]
       THEN Return("K") /\ UNCHANGED dials
       ELSE /\ dials' = Record(dials, seen)
            /\ IF FreshFlowsFailing(dials')
               THEN Goto("K", "consider") /\ UNCHANGED arm
               ELSE Return("K")
  /\ current' = [current EXCEPT !["K"] = FALSE]
  /\ leg' = NoLeg
  /\ UNCHANGED <<user, selector, applied, policy, kaFails, testAge, world, pooled, round, race,
                 member>>

\* considerLegFailover up to its first probe: at most one comparison a minute, and
\* none if the probe selector cannot be set.
SkipRace ==
  /\ pc["K"] = "consider" /\ (linkBad \/ ~LegTestDue)
  /\ Return("K")
  /\ UNCHANGED <<user, selector, applied, policy, evidence, testAge, world, pooled, current, leg,
                 round, race, member>>

StartRace(answer) ==
  /\ pc["K"] = "consider" /\ ~linkBad /\ LegTestDue
  /\ testAge' = 0
  /\ IF answer = "ok"
     THEN Goto("K", "race") /\ race' = [NoRace EXCEPT !.onFallback = fb.on] /\ UNCHANGED arm
     ELSE Return("K") /\ UNCHANGED race
  /\ UNCHANGED <<user, selector, applied, policy, evidence, world, pooled, current, leg, round,
                 member>>

\* Fault: a failed active leg discards the candidate's measurement.
RaceTogether ==
  /\ pc["K"] = "race"
  /\ \E hy2 \in Outcomes("hy2"), reality \in Outcomes("reality") :
       race' = [race EXCEPT !.candidate = @ /\ {hy2, reality} = {"clean"},
                            !.active = @ /\ hy2 # "dead" /\ reality # "dead"]
  /\ IF round["K"] + 1 < LegGateProbes
     THEN round' = [round EXCEPT !["K"] = @ + 1] /\ UNCHANGED pc
     ELSE round' = [round EXCEPT !["K"] = 0] /\ Goto("K", "judge")
  /\ UNCHANGED <<user, selector, applied, policy, evidence, testAge, world, pooled, current, arm,
                 leg, member>>

\* measureLegs, one round: both legs, the worst of each remembered.
RaceRound ==
  /\ pc["K"] = "race"
  /\ \E hy2 \in Outcomes("hy2"), reality \in Outcomes("reality") :
       LET candidate == IF race.onFallback THEN reality ELSE hy2
           active == IF race.onFallback THEN hy2 ELSE reality
       IN  race' = [race EXCEPT !.candidate = @ /\ candidate = "clean",
                                !.active = @ /\ active # "dead"]
  /\ IF round["K"] + 1 < LegGateProbes
     THEN round' = [round EXCEPT !["K"] = @ + 1] /\ UNCHANGED pc
     ELSE round' = [round EXCEPT !["K"] = 0] /\ Goto("K", "judge")
  /\ UNCHANGED <<user, selector, applied, policy, evidence, testAge, world, pooled, current, arm,
                 leg, member>>

\* considerLegFailover, the verdict: evidence gathered for another leg, pin or link is
\* dropped; a clean candidate wins over a leg that failed, and may win over a slower one.
JudgeRace ==
  /\ pc["K"] = "judge"
  /\ \/ /\ fb.on # race.onFallback \/ pin # "auto" \/ linkBad \/ ~race.candidate \/ race.active
        /\ Return("K")
        /\ UNCHANGED policy
     \/ /\ fb.on = race.onFallback /\ pin = "auto" /\ ~linkBad /\ race.candidate
        /\ IF race.onFallback THEN HandoffToPrimary("K") /\ UNCHANGED policy ELSE EnterFallback
  /\ race' = NoRace
  /\ UNCHANGED <<user, selector, applied, evidence, testAge, world, pooled, current, leg, round,
                 member>>

----------------------------------------------------------------------------
(* The scheduler goroutine: one apply() per tick.                          *)

\* apply under a pin: a stay in progress is released, the pin decides the leg.  Under
\* `both` the lanes' own policy decides which leg the selector backs.
ApplyPinned ==
  /\ pc["S"] = "idle" /\ pin # "auto"
  /\ member' \in (IF pin = "both" THEN Legs ELSE {pin})
  /\ Goto("S", IF fb.on THEN "release" ELSE "compare")
  /\ current' = [current EXCEPT !["S"] = TRUE]
  /\ UNCHANGED <<user, selector, applied, policy, evidence, testAge, world, pooled, locals, round>>

\* apply unpinned: tryReturnToPrimary first, when the dwell is over and the link is
\* good; then the leg the failover has decided on.
Decided == IF fb.on THEN "hy2" ELSE "reality"

ApplyAuto ==
  /\ pc["S"] = "idle" /\ pin = "auto"
  /\ IF ~linkBad /\ DueBack
     THEN Goto("S", "verify") /\ UNCHANGED member
     ELSE Goto("S", "compare") /\ member' = Decided
  /\ current' = [current EXCEPT !["S"] = TRUE]
  /\ UNCHANGED <<user, selector, applied, policy, evidence, testAge, world, pooled, locals, round>>

ChooseMember ==
  /\ pc["S"] = "choose"
  /\ member' = Decided
  /\ Goto("S", "compare")
  /\ UNCHANGED <<user, selector, applied, policy, evidence, testAge, world, pooled, current,
                 locals, round>>

\* The scheduler's tick ends.
EndTick ==
  /\ Goto("S", "idle")
  /\ member' = NoLeg
  /\ current' = [current EXCEPT !["S"] = FALSE]

\* Fault: apply trusts its own memory of the last selection.
CompareMemory(answer) ==
  /\ pc["S"] = "compare"
  /\ IF member = applied
     THEN EndTick /\ applied' = member
     ELSE Goto("S", "prewarm") /\ UNCHANGED <<applied, member, current>>
  /\ UNCHANGED <<user, selector, policy, evidence, testAge, world, pooled, locals, round>>

\* apply asks the selector where it points; an unanswered query falls back on memory.
CompareSelection(answer) ==
  /\ pc["S"] = "compare"
  /\ LET live == IF answer = "ok" THEN selector ELSE applied
     IN  IF member = live
         THEN EndTick /\ applied' = member
         ELSE Goto("S", "prewarm") /\ UNCHANGED <<applied, member, current>>
  /\ UNCHANGED <<user, selector, policy, evidence, testAge, world, pooled, locals, round>>

\* Fault: the generation is not read after the pre-warm.
CheckNothing ==
  /\ pc["S"] = "prewarm"
  /\ Goto("S", "selectMember")
  /\ UNCHANGED <<user, selector, applied, policy, evidence, testAge, world, pooled, current,
                 locals, round, member>>

\* apply after its pre-warm: a leg change since the tick began ends the tick.
CheckGeneration ==
  /\ pc["S"] = "prewarm"
  /\ IF current["S"]
     THEN Goto("S", "selectMember") /\ UNCHANGED <<member, current>>
     ELSE EndTick
  /\ UNCHANGED <<user, selector, applied, policy, evidence, testAge, world, pooled, locals, round>>

SelectMember(answer) ==
  /\ pc["S"] = "selectMember"
  /\ selector' = Selected(answer, member)
  /\ applied' = IF answer = "ok" THEN member ELSE applied
  /\ EndTick
  /\ UNCHANGED <<user, policy, evidence, testAge, world, pooled, locals, round>>

----------------------------------------------------------------------------
(* `mole leg` (cmd/leg.go), time, and the world.                           *)

NoUser == <<selector, applied, policy, evidence, testAge, world, pooled, pc, current, locals, round,
            member>>

\* `mole leg auto`: the pin is removed and nothing is selected.
ClearLeg ==
  /\ cli = "idle" /\ pin # "auto"
  /\ pin' = "auto"
  /\ UNCHANGED <<cli, NoUser>>

\* utils.WriteLeg truncates the file before it writes: an empty file reads as unpinned.
TruncateLeg(want) ==
  /\ cli = "idle" /\ want # "auto"
  /\ pin' = "auto"
  /\ cli' = want
  /\ UNCHANGED NoUser

\* The word is in the file; only a single leg is then selected.
WriteLeg ==
  /\ cli \in Pins /\ pin = "auto"
  /\ pin' = cli
  /\ cli' = IF cli = "both" THEN "idle" ELSE "select"
  /\ UNCHANGED NoUser

SelectPinned(answer) ==
  /\ cli = "select"
  /\ selector' = Selected(answer, pin)
  /\ cli' = "idle"
  /\ UNCHANGED <<pin, applied, policy, evidence, testAge, world, pooled, pc, current, locals, round,
                 member>>

\* Sections that are a few lock operations and at most one pre-warm and one selection.
\* Their HTTP deadlines (7 s and 10 s) keep them well under a minute.
Short == {"warmUp", "selectFallback", "undo", "selectPrimary", "release", "reset", "choose", "prewarm",
          "selectMember"}

\* A minute passes; not inside a section that takes seconds.
Tick ==
  /\ \A t \in Threads : pc[t] \notin Short
  /\ stay' = IF fb.on THEN AtMost(stay + 1, MaxDwell) ELSE stay
  /\ back' = AtMost(back + 1, Probation)
  /\ testAge' = AtMost(testAge + 1, TestInterval + 1)
  /\ UNCHANGED <<user, selector, applied, fb, evidence, world, pooled, pc, current, locals, round,
                 member>>

\* The first hop and what the legs do to a request change at any time.
World ==
  /\ linkBad' \in BOOLEAN /\ weather' \in Weather
  /\ UNCHANGED <<user, selector, applied, policy, evidence, testAge, pooled, pc, current, locals,
                 round, member>>

----------------------------------------------------------------------------

Shared(t) ==
  \/ VerifyLegRecovery(t)
  \/ \E a \in Answers : SelectPrimary(t, a)
  \/ ReleaseFallback(t)
  \/ ResetKeepaliveCount(t)

Keepalive ==
  \/ StartKeepalive \/ FinishKeepalive
  \/ WarmFallback \/ (\E a \in Answers : SelectFallback(a)) \/ UndoFallback
  \/ StartDial \/ SkipDial \/ FinishDial
  \/ SkipRace \/ (\E a \in Answers : StartRace(a)) \/ RaceRound \/ JudgeRace
  \/ Shared("K")

Scheduler ==
  \/ ApplyPinned \/ ApplyAuto \/ ChooseMember
  \/ (\E a \in Answers : CompareSelection(a)) \/ CheckGeneration
  \/ (\E a \in Answers : SelectMember(a))
  \/ Shared("S")

Command ==
  \/ ClearLeg \/ (\E want \in Pins : TruncateLeg(want)) \/ WriteLeg
  \/ \E a \in Answers : SelectPinned(a)

Next == Keepalive \/ Scheduler \/ Command \/ Tick \/ World

Spec == Init /\ [][Next]_vars

\* Scheduling.  Both goroutines run, time passes, a local API that is asked again and
\* again answers in the end, and a fresh dial comes due.  Nothing is assumed of the user
\* or of the network.
SchedulerFairness ==
  WF_vars(Scheduler) /\ SF_vars(CompareSelection("ok")) /\ SF_vars(SelectMember("ok"))

PinSpec == Spec /\ SchedulerFairness

\* Calls to the local API and lock operations take milliseconds where a measurement takes a
\* round trip through the tunnel: neither goroutine's next measurement, nor a command,
\* overtakes one that has a routing change to finish.  The pre-warm of enterFallback is such
\* a round trip: a whole tick of the scheduler fits between the stay and its selection.
Urgent == {"selectFallback", "undo", "selectPrimary", "release", "reset", "choose", "selectMember"}

Prompt ==
  (\E t \in Threads : pc[t] \in Urgent) => \E t \in Threads : pc[t] \in Urgent /\ pc'[t] # pc[t]

PromptFairness ==
  /\ WF_vars(Keepalive /\ Prompt) /\ WF_vars(Scheduler /\ Prompt) /\ WF_vars(Tick /\ Prompt)
  /\ SF_vars(StartDial /\ Prompt) /\ SF_vars(StartRace("ok") /\ Prompt)
  /\ SF_vars(CompareSelection("ok") /\ Prompt) /\ SF_vars(SelectMember("ok"))
  /\ SF_vars(SelectFallback("ok"))
  /\ \A t \in Threads : SF_vars(SelectPrimary(t, "ok"))

PromptSpec == Init /\ [][Next /\ Prompt]_vars /\ PromptFairness

----------------------------------------------------------------------------
(* Properties.                                                             *)

PCs == Urgent \cup {"idle", "fetch", "verify", "warmUp", "sample", "dial", "consider", "race", "judge",
                    "compare", "prewarm"}

UserOK == pin \in Pins /\ cli \in Pins \cup {"idle", "select"}

RouteOK == selector \in Legs /\ applied \in Legs \cup {NoLeg} /\ pooled \in Legs \cup {NoLeg}

\* A stay never dwells longer than the cap, however often its return failed probation.
PolicyOK ==
  /\ fb \in [on : BOOLEAN, dwell : {0} \cup MinDwell..MaxDwell]
  /\ stay \in 0..MaxDwell /\ back \in 0..Probation
  /\ fb.on => fb.dwell # 0

EvidenceOK ==
  /\ kaFails \in 0..EnterFails
  /\ dials \in Seq(Quality) /\ Len(dials) <= DialWindow
  /\ testAge \in 0..TestInterval + 1

WorldOK == linkBad \in BOOLEAN /\ weather \in Weather

ControlOK ==
  /\ pc \in [Threads -> PCs] /\ current \in [Threads -> BOOLEAN]
  /\ arm \in {"warm", "fresh"} /\ leg \in Legs \cup {NoLeg}
  /\ round \in [Threads -> 0..LegGateProbes - 1]
  /\ race \in [onFallback : BOOLEAN, candidate : BOOLEAN, active : BOOLEAN]
  /\ member \in Legs \cup {NoLeg}

\* The types of the daemon's failover state (State, fallbackState, the goroutines' locals).
TypeOK == UserOK /\ RouteOK /\ PolicyOK /\ EvidenceOK /\ WorldOK /\ ControlOK

\* What a goroutine or the command carries from one step to the next: a request in flight
\* rides a leg, the scheduler has a member exactly between its choice and its selection,
\* and `mole leg` selects only after it has written a single leg.
CarriedOK ==
  /\ pc["K"] \in {"fetch", "dial"} => leg \in Legs
  /\ pc["S"] \in {"compare", "prewarm", "selectMember"} => member \in Legs
  /\ pc["S"] \in {"idle", "verify", "selectPrimary", "choose"} => member = NoLeg
  /\ cli # "auto" /\ (cli = "select" => pin \in Legs)

\* The inductive invariant: the types, and what is carried between steps (enterFallback,
\* keepaliveOnce, apply, runLeg).
IInv == TypeOK /\ CarriedOK

\* The pin stands and nothing decided before it is still on its way to the selector.
Settled(l) ==
  /\ pin = l
  /\ pc["K"] \notin {"warmUp", "selectFallback", "selectPrimary"}
  /\ pc["S"] = "idle" \/ member = l

\* `mole leg` disarms the failover: once the moves that were decided before the pin have
\* landed, no measurement, timed return or tick already under way decides another one
\* while the pin stands, begins a stay, or takes the selector off the pinned leg
\* (enterFallback, handoffToPrimary, considerLegFailover, apply).
PinIsNeverOverridden ==
  [][\A l \in Legs :
       Settled(l) /\ pin' = l =>
         /\ Settled(l)'
         /\ selector = l => selector' = l
         /\ fb'.on => fb.on]_vars

\* A pin that is left alone prevails: the scheduler re-applies it until the selector is on
\* the pinned leg for good, whatever the failover was doing when it was written.
PinConverges == \A l \in Legs : <>[](pin = l) => <>[](selector = l)

Only(l) == [m \in Legs |-> IF m = l THEN {"clean"} ELSE {"dead"}]

\* The failover does its job: when exactly one leg carries traffic from some time on,
\* with a good first hop and no pin, traffic ends up on that leg, and the failover's
\* memory agrees (enterFallback, recoverPrimary, considerLegFailover, tryReturnToPrimary).
TrafficReachesCarryingLeg ==
  \A l \in Legs :
    <>[](pin = "auto" /\ ~linkBad /\ weather = Only(l)) => <>[](selector = l /\ (fb.on <=> l = "hy2"))

\* No pin, and no `mole leg` half way through writing one.
Unpinned == pin = "auto" /\ cli = "idle"

\* The failover's memory and the selector may part for a while: a stay whose selection was
\* refused is taken back after a tick has put the ladder in, `mole leg auto` selects nothing,
\* a tick may have lost its generation.  They do not part for good: once the failover keeps
\* to a leg and nobody pins, the selector ends up there and stays (apply, which asks the
\* selector where it points instead of trusting what it selected last).
DecisionPrevails == \A l \in Legs : <>[](Unpinned /\ Decided = l) => <>[](selector = l)

\* Traffic is on leg l, and nothing measured under another weather is still on its way to a
\* decision: no request rides the other leg, no comparison has seen it clean, no tick that
\* would point the selector there has its generation.
Steady(l) ==
  /\ selector = l /\ (fb.on <=> l = "hy2")
  /\ pooled \in {NoLeg, l} /\ leg \in {NoLeg, l}
  /\ pc["K"] \notin {"warmUp", "selectFallback", "undo"}
  /\ l = "hy2" => \A t \in Threads : pc[t] \notin {"selectPrimary", "release"}
  /\ pc["K"] = "judge" => race.onFallback # fb.on \/ ~race.candidate
  /\ \/ member \in {NoLeg, l}
     \/ pc["S"] \in {"compare", "prewarm"} /\ ~current["S"]

\* Nothing flaps: while exactly one leg carries traffic, with a good first hop and no pin, no
\* step of either goroutine takes settled traffic off that leg or changes the failover's
\* mind, not even evidence recorded before the weather turned, a check or a comparison
\* begun then, or a tick overtaken by the change (probeGeneration,
\* verifyLegRecovery, considerLegFailover, apply).
SteadyStays ==
  [][\A l \in Legs : Steady(l) /\ Unpinned /\ ~linkBad /\ weather = Only(l) => Steady(l)']_vars

=============================================================================
