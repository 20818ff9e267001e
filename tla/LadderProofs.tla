---------------------------- MODULE LadderProofs ----------------------------
(***************************************************************************)
(* What the steps of the ladder return, for every set of ceilings: the     *)
(* definitions choose a rung by its rank, and there always is one.         *)
(***************************************************************************)
EXTENDS Ladder, FiniteSetTheorems, WellFoundedInduction, TLAPS

\* A set of numbers has a least one.
LEMMA LeastNumber ==
  ASSUME NEW T \in SUBSET Nat, T # {}
  PROVE  \E m \in T : \A k \in T : m <= k
<1>1. PICK m \in T : \A k \in T : ~ (<<k, m>> \in OpToRel(<, Nat))
  BY WFMin, NatLessThanWellFounded
<1>2. \A k \in T : ~ (k < m)
  BY <1>1 DEF OpToRel
<1> QED
  BY <1>2

\* A bounded one has a greatest.
LEMMA GreatestNumber ==
  ASSUME NEW S \in SUBSET Nat, S # {}, NEW bound \in Nat, \A x \in S : x <= bound
  PROVE  \E m \in S : \A x \in S : x <= m
<1> DEFINE Bounds == {b \in Nat : \A x \in S : x <= b}
<1>1. PICK m \in Bounds : \A b \in Bounds : m <= b
  BY LeastNumber, bound \in Bounds
<1>2. m \in S
  <2>1. SUFFICES ASSUME m \notin S PROVE FALSE
    OBVIOUS
  <2>2. \A x \in S : x \in Nat /\ x <= m - 1
    BY <2>1
  <2>3. PICK x \in S : TRUE
    OBVIOUS
  <2>4. m - 1 \in Nat
    BY <2>2, <2>3
  <2>5. m - 1 \in Bounds
    BY <2>2, <2>4
  <2> QED
    BY <1>1, <2>5
<1> QED
  BY <1>2

\* The ladder is a finite set of numbers, and the rung the clock asks for is on it.
LEMMA RungsAreNumbers ==
  /\ \A r \in Rungs : r \in Nat /\ r > 0
  /\ OffDown \in Rungs /\ (PeakDown > 0 => PeakDown \in Rungs)
<1>1. \A r \in StandardRungs : r \in Nat /\ r > 0
  BY LadderAssumption
<1>2. OffDown \in Nat /\ OffDown > 0 /\ PeakDown \in Nat
  BY LadderAssumption
<1> QED
  BY <1>1, <1>2 DEF Rungs

LEMMA LadderIsFinite == IsFiniteSet(Rungs)
<1>1. IsFiniteSet({OffDown} \cup {PeakDown})
  BY FS_Singleton, FS_AddElement
<1>2. IsFiniteSet({OffDown, PeakDown} \ {0})
  BY <1>1, FS_Subset, {OffDown, PeakDown} \ {0} \subseteq {OffDown} \cup {PeakDown}
<1>3. IsFiniteSet({n \in StandardRungs : n < AtLeast(PeakDown, OffDown)})
  BY FS_Subset, LadderAssumption
<1> QED
  BY <1>2, <1>3, FS_Union DEF Rungs

\* Who is below whom.
LEMMA BelowIsOrdered ==
  ASSUME NEW n \in Rungs, NEW m \in Rungs
  PROVE  /\ \A x \in Below(n) : x \in Rungs /\ x \in Nat /\ x <= n
         /\ n \in Below(n) /\ n \in Nat
         /\ n < m => Below(n) \subseteq Below(m) /\ m \notin Below(n)
<1>1. \A x \in Below(n) : x \in Rungs /\ x \in Nat /\ x <= n
  BY RungsAreNumbers DEF Below
<1>2. n \in Nat /\ m \in Nat /\ n \in Below(n)
  BY RungsAreNumbers DEF Below
<1>3. ASSUME n < m PROVE Below(n) \subseteq Below(m) /\ m \notin Below(n)
  <2>1. \A x \in Below(n) : x \in Rungs /\ x <= m
    BY <1>1, <1>2, <1>3
  <2>2. Below(n) \subseteq Below(m)
    BY <2>1 DEF Below
  <2> QED
    BY <1>1, <1>2, <1>3, <2>2
<1> QED
  BY <1>1, <1>2, <1>3

\* The rank of a rung is a number from one, and a higher rung has a higher rank.
LEMMA Rank ==
  ASSUME NEW n \in Rungs
  PROVE  /\ IsFiniteSet(Below(n)) /\ Cardinality(Below(n)) \in Nat \ {0}
         /\ \A m \in Rungs : n < m => Cardinality(Below(n)) < Cardinality(Below(m))
<1>1. \A m : IsFiniteSet(Below(m)) /\ Cardinality(Below(m)) \in Nat
  BY LadderIsFinite, FS_Subset, FS_CardinalityType DEF Below
<1>2. Below(n) # {}
  BY BelowIsOrdered
<1>3. ASSUME NEW m \in Rungs, n < m
      PROVE  Cardinality(Below(n)) < Cardinality(Below(m))
  <2>1. Below(n) \subseteq Below(m) /\ m \in Below(m) /\ m \notin Below(n)
    BY <1>3, BelowIsOrdered
  <2>2. /\ Cardinality(Below(n)) <= Cardinality(Below(m))
        /\ Cardinality(Below(n)) = Cardinality(Below(m)) => Below(m) = Below(n)
    BY <1>1, <2>1, FS_Subset
  <2> QED
    BY <1>1, <2>1, <2>2
<1> QED
  BY <1>1, <1>2, <1>3, FS_EmptySet

\* Every rank up to that of a rung is the rank of a rung.
LEMMA RankIsReached ==
  ASSUME NEW n \in Rungs, NEW k \in Nat \ {0}, k <= Cardinality(Below(n))
  PROVE  \E r \in Rungs : Cardinality(Below(r)) = k
<1> DEFINE High == {r \in Rungs : Cardinality(Below(r)) >= k}
<1>1. PICK r \in High : \A q \in High : r <= q
  BY LeastNumber, RungsAreNumbers, Rank, n \in High
<1>2. SUFFICES ASSUME Cardinality(Below(r)) # k PROVE FALSE
  BY <1>1
<1>3. Cardinality(Below(r)) \in Nat /\ Cardinality(Below(r)) > k /\ IsFiniteSet(Below(r))
  BY <1>1, <1>2, Rank
<1> DEFINE Lower == Below(r) \ {r}
<1>4. IsFiniteSet(Lower) /\ Cardinality(Lower) = Cardinality(Below(r)) - 1
  BY <1>3, FS_RemoveElement, BelowIsOrdered
<1>5. Lower # {}
  BY <1>3, <1>4, FS_EmptySet
<1>6. PICK m \in Lower : \A x \in Lower : x <= m
  <2>1. Lower \in SUBSET Nat /\ r \in Nat /\ \A x \in Lower : x <= r
    BY BelowIsOrdered
  <2> HIDE DEF Lower
  <2> QED
    BY <1>5, <2>1, GreatestNumber
<1>7. m \in Rungs /\ m \in Nat /\ r \in Nat /\ m < r
  BY BelowIsOrdered
<1>8. Below(m) = Lower
  <2>1. Below(m) \subseteq Lower
    BY <1>7, BelowIsOrdered
  <2>2. \A x \in Lower : x \in Rungs /\ x <= m
    BY <1>6, BelowIsOrdered
  <2> QED
    BY <2>1, <2>2 DEF Below
<1>9. m \in High
  BY <1>3, <1>4, <1>7, <1>8
<1> QED
  BY <1>1, <1>7, <1>9

\* A descent of any length ends on a rung, one no higher than where it began
\* (core/schedule.go StepDown): the ceiling it selects always has an outbound.
THEOREM DescentStaysOnTheLadder ==
  ASSUME NEW n \in Rungs, NEW steps \in Nat
  PROVE  StepDown(n, steps) \in Rungs /\ StepDown(n, steps) <= n
<1> DEFINE k == AtLeast(Cardinality(Below(n)) - steps, 1)
<1>1. k \in Nat \ {0} /\ k <= Cardinality(Below(n))
  BY Rank DEF AtLeast
<1>2. \E r \in Rungs : Cardinality(Below(r)) = k
  <2> HIDE DEF k
  <2> QED
    BY <1>1, RankIsReached
<1>3. StepDown(n, steps) \in Rungs /\ Cardinality(Below(StepDown(n, steps))) = k
  BY <1>2 DEF StepDown
<1>4. ~ (n < StepDown(n, steps))
  BY <1>1, <1>3, Rank
<1> QED
  BY <1>3, <1>4, RungsAreNumbers

\* A step up ends on a rung, one no lower than where it began (schedule.go StepUp).
THEOREM AscentStaysOnTheLadder ==
  ASSUME NEW n \in Rungs
  PROVE  StepUp(n) \in Rungs /\ StepUp(n) >= n
<1>1. CASE Rungs = Below(n)
  BY <1>1, RungsAreNumbers DEF StepUp
<1>2. CASE Rungs # Below(n)
  <2> DEFINE Above == Rungs \ Below(n)
  <2>1. \A x \in Above : x \in Nat /\ n < x
    BY RungsAreNumbers DEF Below
  <2>2. Above \in SUBSET Nat /\ Above # {}
    BY <1>2, <2>1 DEF Below
  <2>3. PICK m \in Above : \A x \in Above : m <= x
    <3> HIDE DEF Above
    <3> QED
      BY <2>2, LeastNumber
  <2>4. Below(m) \ Below(n) = {m}
    <3>1. m \in Rungs /\ m \in Below(m) /\ m \notin Below(n)
      BY BelowIsOrdered
    <3>2. ASSUME NEW x \in Below(m) \ Below(n) PROVE x = m
      <4>1. x \in Nat /\ x <= m /\ x \in Above
        BY <3>1, <3>2, BelowIsOrdered
      <4> QED
        BY <2>1, <2>3, <4>1
    <3> QED
      BY <3>1, <3>2
  <2>5. StepUp(n) \in Rungs /\ Below(StepUp(n)) \ Below(n) = {StepUp(n)}
    BY <1>2, <2>4 DEF StepUp
  <2>6. StepUp(n) \in Above
    BY <2>5
  <2> QED
    BY <2>1, <2>5, <2>6, RungsAreNumbers
<1> QED
  BY <1>1, <1>2

-----------------------------------------------------------------------------
(* How descents and ascents combine.  A rung is known by its rank.         *)

RankOf(n) == Cardinality(Below(n))

\* The ranks keep the order, and tell the rungs apart.
LEMMA RankOrders ==
  ASSUME NEW n \in Rungs, NEW m \in Rungs
  PROVE  /\ RankOf(n) \in Nat \ {0} /\ n \in Nat /\ m \in Nat
         /\ n < m <=> RankOf(n) < RankOf(m)
         /\ n = m <=> RankOf(n) = RankOf(m)
<1>1. n \in Nat /\ m \in Nat /\ RankOf(n) \in Nat \ {0} /\ RankOf(m) \in Nat \ {0}
  BY RungsAreNumbers, Rank DEF RankOf
<1>2. (n < m => RankOf(n) < RankOf(m)) /\ (m < n => RankOf(m) < RankOf(n))
  BY Rank DEF RankOf
<1> QED
  BY <1>1, <1>2

LEMMA RankOfDescent ==
  ASSUME NEW n \in Rungs, NEW steps \in Nat
  PROVE  /\ StepDown(n, steps) \in Rungs
         /\ RankOf(StepDown(n, steps)) = AtLeast(RankOf(n) - steps, 1)
<1> DEFINE k == AtLeast(Cardinality(Below(n)) - steps, 1)
<1>1. k \in Nat \ {0} /\ k <= Cardinality(Below(n))
  BY Rank DEF AtLeast
<1>2. \E r \in Rungs : Cardinality(Below(r)) = k
  <2> HIDE DEF k
  <2> QED
    BY <1>1, RankIsReached
<1> QED
  BY <1>2 DEF StepDown, RankOf

\* Above a rung that is not the highest, the next one has the next rank.
LEMMA RankOfAscent ==
  ASSUME NEW n \in Rungs, Rungs # Below(n)
  PROVE  StepUp(n) \in Rungs /\ RankOf(StepUp(n)) = RankOf(n) + 1
<1> DEFINE Above == Rungs \ Below(n)
<1>1. \A x \in Above : x \in Nat /\ n < x /\ n \in Nat
  BY RungsAreNumbers DEF Below
<1>2. PICK m \in Above : \A x \in Above : m <= x
  <2>1. Above \in SUBSET Nat /\ Above # {}
    BY <1>1 DEF Below
  <2> HIDE DEF Above
  <2> QED
    BY <2>1, LeastNumber
<1>3. m \in Rungs /\ m \in Below(m) /\ m \notin Below(n) /\ Below(n) \subseteq Below(m)
  BY <1>1, <1>2, BelowIsOrdered
<1>4. ASSUME NEW x \in Below(m) \ Below(n) PROVE x = m
  <2>1. x \in Nat /\ m \in Nat /\ x <= m /\ x \in Above
    BY <1>3, <1>4, BelowIsOrdered
  <2> QED
    BY <1>2, <2>1
<1>5. Below(m) \ Below(n) = {m}
  BY <1>3, <1>4
<1>6. StepUp(n) \in Rungs /\ Below(StepUp(n)) \ Below(n) = {StepUp(n)}
  BY <1>3, <1>5 DEF StepUp
<1>7. Below(StepUp(n)) = Below(n) \cup {StepUp(n)} /\ StepUp(n) \notin Below(n)
  <2>1. StepUp(n) \in Above /\ n < StepUp(n)
    BY <1>1, <1>6
  <2>2. Below(n) \subseteq Below(StepUp(n))
    BY <1>6, <2>1, BelowIsOrdered
  <2> QED
    BY <1>6, <2>2
<1>8. IsFiniteSet(Below(n)) /\ Cardinality(Below(n)) \in Nat
  BY Rank
<1>9. Cardinality(Below(n) \cup {StepUp(n)}) = Cardinality(Below(n)) + 1
  BY <1>7, <1>8, FS_AddElement
<1> QED
  BY <1>6, <1>7, <1>9 DEF RankOf

\* Two descents are one of both lengths, and none is none: retune may count rungs below the
\* target, and the pressure cap may descend rung by rung from wherever it is
\* (core/schedule.go StepDown, udpPressure.observe).
THEOREM DescentsAddUp ==
  ASSUME NEW n \in Rungs, NEW i \in Nat, NEW j \in Nat
  PROVE  StepDown(n, 0) = n /\ StepDown(StepDown(n, i), j) = StepDown(n, i + j)
<1>1. RankOf(n) \in Nat \ {0}
  BY RankOrders
<1>2. StepDown(n, 0) = n
  <2>1. StepDown(n, 0) \in Rungs /\ RankOf(StepDown(n, 0)) = RankOf(n)
    BY <1>1, RankOfDescent DEF AtLeast
  <2> QED
    BY <2>1, RankOrders
<1>3. StepDown(StepDown(n, i), j) = StepDown(n, i + j)
  <2>1. StepDown(n, i) \in Rungs /\ RankOf(StepDown(n, i)) = AtLeast(RankOf(n) - i, 1)
    BY RankOfDescent
  <2> DEFINE m == StepDown(n, i)
  <2> HIDE DEF m
  <2>2. /\ StepDown(m, j) \in Rungs
        /\ RankOf(StepDown(m, j)) = AtLeast(AtLeast(RankOf(n) - i, 1) - j, 1)
    BY <2>1, RankOfDescent DEF m
  <2>3. i + j \in Nat
    OBVIOUS
  <2>4. /\ StepDown(n, i + j) \in Rungs
        /\ RankOf(StepDown(n, i + j)) = AtLeast(RankOf(n) - (i + j), 1)
    BY <2>3, RankOfDescent
  <2>5. AtLeast(AtLeast(RankOf(n) - i, 1) - j, 1) = AtLeast(RankOf(n) - (i + j), 1)
    BY <1>1 DEF AtLeast
  <2>6. RankOf(StepDown(m, j)) = RankOf(StepDown(n, i + j))
    BY <2>2, <2>4, <2>5
  <2> QED
    BY <2>2, <2>4, <2>6, RankOrders DEF m
<1> QED
  BY <1>2, <1>3

\* A descent from higher up ends no lower, and a longer one no higher: a lower target never
\* leads to a higher ceiling (Target, retune, udpPressure.target).
THEOREM DescentIsMonotone ==
  ASSUME NEW n \in Rungs, NEW m \in Rungs, n <= m, NEW i \in Nat, NEW j \in Nat, i <= j
  PROVE  StepDown(n, j) <= StepDown(m, i)
<1>1. RankOf(n) \in Nat /\ RankOf(m) \in Nat /\ RankOf(n) <= RankOf(m)
  BY RankOrders
<1>2. /\ StepDown(n, j) \in Rungs /\ RankOf(StepDown(n, j)) = AtLeast(RankOf(n) - j, 1)
      /\ StepDown(m, i) \in Rungs /\ RankOf(StepDown(m, i)) = AtLeast(RankOf(m) - i, 1)
  BY RankOfDescent
<1>3. ~ (RankOf(StepDown(m, i)) < RankOf(StepDown(n, j)))
  BY <1>1, <1>2 DEF AtLeast
<1> QED
  BY <1>2, <1>3, RankOrders

\* A step down goes to a lower rung, unless there is none, and a step up takes it back: a
\* descent that was not deserved is undone rung by rung, without drift (healState.tick,
\* udpPressure.target).
THEOREM AscentUndoesDescent ==
  ASSUME NEW n \in Rungs, NEW low \in Rungs, low < n
  PROVE  StepDown(n, 1) < n /\ StepUp(StepDown(n, 1)) = n
<1>1. RankOf(n) \in Nat /\ RankOf(low) \in Nat \ {0} /\ RankOf(low) < RankOf(n)
  BY RankOrders
<1> DEFINE m == StepDown(n, 1)
<1>2. m \in Rungs /\ RankOf(m) = RankOf(n) - 1
  <2>1. 1 \in Nat
    OBVIOUS
  <2>2. m \in Rungs /\ RankOf(m) = AtLeast(RankOf(n) - 1, 1)
    BY <2>1, RankOfDescent
  <2>3. AtLeast(RankOf(n) - 1, 1) = RankOf(n) - 1
    BY <1>1 DEF AtLeast
  <2> QED
    BY <2>2, <2>3
<1> HIDE DEF m
<1>3. m < n
  BY <1>1, <1>2, RankOrders
<1>4. Rungs # Below(m)
  BY <1>2, <1>3, BelowIsOrdered
<1>5. StepUp(m) \in Rungs /\ RankOf(StepUp(m)) = RankOf(n)
  BY <1>1, <1>2, <1>4, RankOfAscent
<1>6. StepUp(m) = n
  BY <1>5, RankOrders
<1> QED
  BY <1>3, <1>6 DEF m

=============================================================================
