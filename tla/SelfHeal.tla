------------------------------ MODULE SelfHeal ------------------------------
(***************************************************************************)
(* The ceiling of the hysteria2 ladder (core/supervisor.go healState and   *)
(* runBandwidthScheduler, core/schedule.go, core/flood.go, cmd/ceiling.go, *)
(* utils/ceiling.go).                                                      *)
(*                                                                         *)
(* The scheduler goroutine wakes every minute.  It folds the health        *)
(* verdict and the ENOBUFS lines of sing-box into a number of rungs to     *)
(* stay below the target (`retune`), reads the target (the pin, or the     *)
(* clock) and the leg in force, and points the selector at the rung        *)
(* (`apply`).  The same selector is moved by `mole ceiling`, which writes  *)
(* the pin first, and by whoever changes the leg (module LegFailover):     *)
(* that one reads the target, without the descent, warms the leg up for    *)
(* seconds, and only then selects it.                                      *)
(*                                                                         *)
(* A step is what runs between two network calls.  The node has a REALITY  *)
(* leg, its server has a ladder, and `mole leg both` is not in force.  The *)
(* push of the rate to the node's keeper changes none of this state.       *)
(***************************************************************************)
EXTENDS Ladder

CONSTANTS
  StartHour,      \* the peak window, on the local clock
  EndHour,
  Day,            \* hours in a day, 24
  Typed,          \* what the pin file may hold: rungs, and numbers that are none
  BackoffTicks,   \* healBackoffTicks, 2
  RecoverTicks,   \* healRecoverTicks, 15
  MaxBackoff,     \* healMaxBackoff, 3
  Answers         \* how a local call may answer

ASSUME TypedAssumption == Typed \subseteq Nat \ {0}
ASSUME ClockAssumption == Day \in Nat \ {0} /\ StartHour \in 0..Day - 1 /\ EndHour \in 0..Day - 1
ASSUME HealAssumption ==
  BackoffTicks \in Nat \ {0} /\ RecoverTicks \in Nat \ {0} /\ MaxBackoff \in Nat
ASSUME AnswersAssumption == {"ok"} \subseteq Answers /\ Answers \subseteq {"ok", "fail", "lost"}

\* A member of the selector is its rung; REALITY is none (BandwidthRungMbps answers 0).
Reality == 0
NoMember == -1
Members == Rungs \cup {Reality}

\* As many sightings as a full descent can take; the history is not counted further.
Enough == MaxBackoff * BackoffTicks + BackoffTicks - 1

VARIABLES
  hour,       \* the local clock
  pin,        \* the ceiling file; 0: no pin, or nothing readable
  leg,        \* the leg in force, by pin or failover
  selector,   \* the member the `proxy` selector points at
  heal,       \* healState: [backoff, bad, good, target]
  pc,         \* where the scheduler stands
  member,     \* what this tick decided to select
  applied,    \* the scheduler's memory of its last confirmed selection
  current,    \* no probeGeneration.Add since the tick began
  cli,        \* where a running `mole ceiling` stands
  goal,       \* and the rung it goes for
  sightings   \* history: the flooded minutes since the pin changed, blackouts left out

heals == <<heal, sightings>>
tick == <<pc, member, applied, current>>
command == <<cli, goal>>
vars == <<hour, pin, leg, selector, heals, tick, command>>

----------------------------------------------------------------------------
(* What the ladder rests at (core/schedule.go).                            *)

InPeak(h) ==
  IF StartHour <= EndHour THEN StartHour <= h /\ h < EndHour ELSE h >= StartHour \/ h < EndHour

Profile == IF PeakDown > 0 /\ InPeak(hour) THEN PeakDown ELSE OffDown

\* What the ceiling rests at: a pin that names a rung, otherwise the clock.
Target == IF pin \in Rungs THEN pin ELSE Profile

----------------------------------------------------------------------------
(* healState.                                                              *)

Verdicts == {"ok", "degraded", "vps-down", "path-blackhole", "no-link", "local-link"}
Usable == {"ok", "degraded"}
NoEvidence == {"no-link", "local-link"}

\* retarget is given the pin, so a target that the clock changes keeps its descent.
Fresh(target) == [backoff |-> 0, bad |-> 0, good |-> 0, target |-> target]

\* Fault: the descent survives a change of the target.
RetargetKeeping(h, target) == [h EXCEPT !.target = target]

Retarget(h, target) == IF target = h.target THEN h ELSE Fresh(target)

\* A flooded minute descends after BackoffTicks of them.  `bad` goes on counting at the
\* bottom; only whether it has reached BackoffTicks is ever asked.
Descend(h) ==
  LET bad == AtMost(h.bad + 1, BackoffTicks)
  IN  IF bad = BackoffTicks /\ h.backoff < MaxBackoff
      THEN [h EXCEPT !.backoff = @ + 1, !.bad = 0, !.good = 0]
      ELSE [h EXCEPT !.bad = bad, !.good = 0]

\* A clean minute climbs after RecoverTicks of them.
Climb(h) ==
  LET good == AtMost(h.good + 1, RecoverTicks)
  IN  IF good = RecoverTicks /\ h.backoff > 0
      THEN [h EXCEPT !.backoff = @ - 1, !.bad = 0, !.good = 0]
      ELSE [h EXCEPT !.bad = 0, !.good = good]

\* Fault: flooding counts only while the path is unhealthy.
TickOnUnhealthy(h, verdict, flooding) ==
  IF verdict \in NoEvidence THEN h
  ELSE IF flooding /\ verdict = "path-blackhole" THEN [h EXCEPT !.good = 0]
  ELSE IF verdict \in Usable THEN Climb(h)
  ELSE IF flooding THEN Descend(h)
  ELSE [h EXCEPT !.good = 0]

\* Fault: a flood inside a blackout descends.
TickInTheDark(h, verdict, flooding) ==
  IF verdict \in NoEvidence THEN h
  ELSE IF flooding THEN Descend(h)
  ELSE IF verdict \in Usable THEN Climb(h)
  ELSE [h EXCEPT !.good = 0]

\* freeze and tick: a missing uplink is no evidence, a flood inside a blackout holds, any
\* other flood descends whatever the verdict, a usable path climbs, a dark one holds.
HealTick(h, verdict, flooding) ==
  IF verdict \in NoEvidence THEN h
  ELSE IF flooding /\ verdict = "path-blackhole" THEN [h EXCEPT !.good = 0]
  ELSE IF flooding THEN Descend(h)
  ELSE IF verdict \in Usable THEN Climb(h)
  ELSE [h EXCEPT !.good = 0]

----------------------------------------------------------------------------
(* The scheduler.                                                          *)

Init ==
  /\ hour \in 0..Day - 1 /\ pin \in Typed \cup {0} /\ leg = "reality" /\ selector = Reality
  /\ heal = Fresh(0) /\ sightings = 0
  /\ pc = "start" /\ member = NoMember /\ applied = NoMember /\ current = FALSE
  /\ cli = "idle" /\ goal = 0

\* apply up to its question to the selector: the pin and the leg are read, the descent is
\* folded in.
Apply(h, count) ==
  LET next == Retarget(h, pin)
  IN  /\ heal' = next
      /\ sightings' = IF pin = h.target THEN count ELSE 0
      /\ member' = IF leg = "hy2" THEN StepDown(Target, next.backoff) ELSE Reality
      /\ pc' = "compare" /\ current' = TRUE
      /\ UNCHANGED <<hour, pin, leg, selector, applied, command>>

FirstApply == pc = "start" /\ Apply(heal, sightings)

\* The minutes that count towards a descent: flooded ones, unless the keepalive is known to
\* be dark.  A refused probe (vps-down) is read before the keepalive and hides that.
Earns(verdict, flooding) == flooding /\ verdict \notin NoEvidence \cup {"path-blackhole"}

\* A minute is over: retune reads the verdict and drains the flood sensor, which has seen
\* ENOBUFS lines of sing-box in that minute or not; then apply runs.
Minute(verdict, flooding) ==
  /\ pc = "idle"
  /\ Apply(HealTick(heal, verdict, flooding),
           IF Earns(verdict, flooding) THEN AtMost(sightings + 1, Enough) ELSE sightings)

\* The scheduler's tick ends.
EndTick == pc' = "idle" /\ member' = NoMember /\ current' = FALSE

StaySame == <<hour, pin, leg, heals, command>>

\* Fault: apply trusts its own memory of the last selection.
CompareMemory(answer) ==
  /\ pc = "compare"
  /\ IF member = applied
     THEN EndTick /\ UNCHANGED applied
     ELSE pc' = "prewarm" /\ UNCHANGED <<member, applied, current>>
  /\ UNCHANGED <<selector, StaySame>>

\* apply asks the selector where it points; an unanswered query falls back on memory.
CompareSelection(answer) ==
  /\ pc = "compare"
  /\ IF member = (IF answer = "ok" THEN selector ELSE applied)
     THEN EndTick /\ applied' = member
     ELSE pc' = "prewarm" /\ UNCHANGED <<member, applied, current>>
  /\ UNCHANGED <<selector, StaySame>>

\* apply after its pre-warm: a leg change since the tick began ends the tick.
CheckGeneration ==
  /\ pc = "prewarm"
  /\ IF current THEN pc' = "select" /\ UNCHANGED <<member, current>> ELSE EndTick
  /\ UNCHANGED <<selector, applied, StaySame>>

\* What the selector points at once a selection was answered.
Selected(answer, target) == IF answer = "fail" THEN selector ELSE target

SelectMember(answer) ==
  /\ pc = "select"
  /\ selector' = Selected(answer, member)
  /\ applied' = IF answer = "ok" THEN member ELSE applied
  /\ EndTick
  /\ UNCHANGED StaySame

----------------------------------------------------------------------------
(* `mole ceiling` (cmd/ceiling.go), one at a time.                         *)

Elsewhere == <<hour, leg, heals, tick>>

\* `mole ceiling auto`: the pin is removed at once, and the clock's rung is gone for.
ClearCeiling ==
  /\ cli = "idle"
  /\ pin' = 0 /\ goal' = Profile /\ cli' = "ask"
  /\ UNCHANGED <<selector, Elsewhere>>

\* WriteCeiling truncates the file before it writes.  Only a rung is accepted.
TruncateCeiling(want) ==
  /\ cli = "idle" /\ want \in Rungs
  /\ pin' = 0 /\ goal' = want /\ cli' = "write"
  /\ UNCHANGED <<selector, Elsewhere>>

WriteCeiling ==
  /\ cli = "write"
  /\ pin' = goal /\ cli' = "ask"
  /\ UNCHANGED <<goal, selector, Elsewhere>>

EndCommand == cli' = "idle" /\ goal' = 0

\* Traffic is not pulled off REALITY; an unanswered query lets the selection go ahead.
AskCeiling(answer) ==
  /\ cli = "ask"
  /\ IF answer = "ok" /\ selector = Reality THEN EndCommand ELSE cli' = "select" /\ UNCHANGED goal
  /\ UNCHANGED <<pin, selector, Elsewhere>>

SelectCeiling(answer) ==
  /\ cli = "select"
  /\ selector' = Selected(answer, goal)
  /\ EndCommand
  /\ UNCHANGED <<pin, Elsewhere>>

----------------------------------------------------------------------------
(* The rest of the system, and the world.                                  *)

\* Another part changes the leg in force (module LegFailover), or only who decides on it;
\* some of them move the generation.
LegChange(to) ==
  /\ leg' = to
  /\ current' \in {current, FALSE}
  /\ UNCHANGED <<hour, pin, selector, heals, pc, member, applied, command>>

\* What the ladder may rest at, now or at another time.
Resting == Rungs \cap ({OffDown, PeakDown} \cup Typed)

\* Its selection comes when the leg is warm, at any later time and after any other step, and
\* is REALITY or the target as it was when the change began, without the descent.
LateSelection(m, answer) ==
  /\ m \in Resting \cup {Reality}
  /\ selector' = Selected(answer, m)
  /\ UNCHANGED <<hour, pin, leg, heals, tick, command>>

Clock ==
  /\ hour' = (hour + 1) % Day
  /\ UNCHANGED <<pin, leg, selector, heals, tick, command>>

Scheduler ==
  \/ FirstApply \/ (\E v \in Verdicts, f \in BOOLEAN : Minute(v, f))
  \/ (\E a \in Answers : CompareSelection(a)) \/ CheckGeneration
  \/ (\E a \in Answers : SelectMember(a))

Command ==
  \/ ClearCeiling \/ (\E want \in Typed : TruncateCeiling(want)) \/ WriteCeiling
  \/ \E a \in Answers : AskCeiling(a) \/ SelectCeiling(a)

Legs ==
  \/ \E to \in {"reality", "hy2"} : LegChange(to)
  \/ \E m \in Members, a \in Answers : LateSelection(m, a)

Next == Scheduler \/ Command \/ Legs \/ Clock

\* The scheduler is a ticker loop, and a local call that is made for ever is answered in
\* the end.  Nothing is assumed of the user, the legs or the path.
Fairness ==
  WF_vars(Scheduler) /\ SF_vars(CompareSelection("ok")) /\ SF_vars(SelectMember("ok"))

Spec == Init /\ [][Next]_vars /\ Fairness

----------------------------------------------------------------------------
(* Properties.                                                             *)

Heals ==
  [backoff : 0..MaxBackoff, bad : 0..BackoffTicks, good : 0..RecoverTicks,
   target : Typed \cup {0}]

TypeOK ==
  /\ hour \in 0..Day - 1 /\ pin \in Typed \cup {0} /\ leg \in {"reality", "hy2"}
  /\ selector \in Members /\ sightings \in 0..Enough
  /\ heal \in Heals
  /\ pc \in {"start", "idle", "compare", "prewarm", "select"}
  /\ member \in Members \cup {NoMember}
  /\ applied \in Members \cup {NoMember} /\ current \in BOOLEAN
  /\ cli \in {"idle", "write", "ask", "select"} /\ goal \in Rungs \cup {0}

\* What a tick or a command carries from one step to the next names a rung.
CarriedOK ==
  /\ pc \in {"start", "idle"} <=> member = NoMember
  /\ cli = "idle" <=> goal = 0
  /\ cli = "write" => goal \in Typed

\* core/supervisor.go: "Only the flood evidence ... moves it down".  Every rung of the
\* descent, and every minute counted towards the next, is a flooded minute seen since the
\* pin last changed, and none of them found the keepalive dark (healState.tick, freeze,
\* retarget).
DescentIsEarned ==
  heal.backoff * BackoffTicks + (heal.bad % BackoffTicks) <= sightings

\* The flooded minutes are all counted and none is spent only where there is no rung left.
FullAtTheBottom == heal.bad = BackoffTicks => heal.backoff = MaxBackoff

IInv == TypeOK /\ CarriedOK /\ FullAtTheBottom /\ DescentIsEarned

\* The ladder carries the traffic and is on its rung, or a tick is about to put it there.
Following ==
  /\ leg = "hy2" /\ cli = "idle" /\ heal.target = pin /\ pc # "start"
  /\ IF pc = "idle" THEN selector = StepDown(Target, heal.backoff)
     ELSE current /\ member = StepDown(Target, heal.backoff)

\* A step of the scheduler that an answered call would not have taken.
Unheard ==
  /\ \E a \in Answers : CompareSelection(a) \/ SelectMember(a)
  /\ ~(CompareSelection("ok") \/ SelectMember("ok"))

\* The selector follows the descent: as long as the ladder keeps its target, every tick whose
\* calls are answered ends on the rung that the floods and clean minutes so far call for, and
\* nothing but a command or a leg change, its late selection included, moves it from there
\* between ticks (retune, apply, runBandwidthScheduler).
CeilingFollows ==
  [][Following /\ Target' = Target /\ ~(Command \/ Legs) /\ ~Unheard => Following']_vars

\* From some time on every minute finds a verdict of V, and a flood or not.
Minutes(V, flooding) ==
  <>[][pc = "idle" /\ pc' # "idle" => \E v \in V : Minute(v, flooding)]_vars

\* From some time on nobody touches the pin or the leg, and no late selection is to come.
Pinned(r) == <>[](pin = r /\ leg = "hy2") /\ <>[][~Legs]_vars

\* "The pin stays the resting point": a pinned rung that is left alone carries the traffic
\* for good once the path is usable and nothing floods, whatever descent, stale memory,
\* refused selection, leg change or late selection came before (apply, retune).
CeilingPrevails ==
  \A r \in Typed \cap Rungs : Pinned(r) /\ Minutes(Usable, FALSE) => <>[](selector = r)

\* A path that is flooded every minute brings the ceiling down as far as it goes, whether or
\* not the tunnel answers meanwhile (healState.tick: "checked BEFORE health").
FloodLowersCeiling ==
  \A r \in Typed \cap Rungs :
    Pinned(r) /\ Minutes({"ok", "degraded", "vps-down"}, TRUE)
      => <>[](selector = StepDown(r, MaxBackoff))

=============================================================================
