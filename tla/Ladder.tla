------------------------------- MODULE Ladder -------------------------------
(***************************************************************************)
(* The hysteria2 ladder (core/schedule.go): one outbound per ceiling, so a *)
(* set of ceilings ordered by size.                                        *)
(***************************************************************************)
EXTENDS Integers, FiniteSets

CONSTANTS
  OffDown,        \* the off-peak ceiling
  PeakDown,       \* the ceiling of the peak window; 0: no window
  StandardRungs   \* ceilings the ladder offers below its maximum

ASSUME LadderAssumption ==
  /\ OffDown \in Nat \ {0} /\ PeakDown \in Nat
  /\ StandardRungs \subseteq Nat \ {0} /\ IsFiniteSet(StandardRungs)

AtMost(n, bound) == IF n < bound THEN n ELSE bound
AtLeast(n, bound) == IF n > bound THEN n ELSE bound

\* What the clock can ask for is always there; standard rungs fill in below the maximum.
Rungs ==
  ({OffDown, PeakDown} \ {0}) \cup {n \in StandardRungs : n < AtLeast(PeakDown, OffDown)}

Below(n) == {r \in Rungs : r <= n}

\* `steps` rungs below n, and never below the lowest.
StepDown(n, steps) ==
  CHOOSE r \in Rungs : Cardinality(Below(r)) = AtLeast(Cardinality(Below(n)) - steps, 1)

\* The next rung above n, if there is one.
StepUp(n) == IF Rungs = Below(n) THEN n ELSE CHOOSE r \in Rungs : Below(r) \ Below(n) = {r}

=============================================================================
