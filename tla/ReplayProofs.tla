---------------------------- MODULE ReplayProofs ----------------------------
(***************************************************************************)
(* Theorems about the paper replay and the backtest over the same stored   *)
(* sessions, for any calendar, sessions, minutes, warmup, answers, prices  *)
(* and limits.                                                             *)
(***************************************************************************)
EXTENDS ReplayParity, FiniteSetTheorems, SequenceTheorems, TLAPS

-----------------------------------------------------------------------------
(* Sizes.                                                                  *)

(* Integer division by a positive number rounds down.                      *)
LEMMA DivisionRoundsDown ==
  ASSUME NEW a \in Int, NEW b \in Nat \ {0}
  PROVE  a \div b \in Int /\ (a \div b) * b <= a /\ a < (a \div b) * b + b
  BY SMT

(* Whole lots never exceed the units they are cut from.                    *)
LEMMA LotsRoundDown ==
  ASSUME NEW units \in Int
  PROVE  InLots(units) \in Int /\ InLots(units) <= units
  BY DivisionRoundsDown, SizingAssumption DEF InLots

(* What is no more than a / b, b positive, costs no more than a.           *)
LEMMA WithinQuotient ==
  ASSUME NEW a \in Int, NEW b \in Nat \ {0}, NEW q \in Int, q <= a \div b
  PROVE  q * b <= a
  <1>1. (a \div b) \in Int /\ (a \div b) * b <= a
    BY DivisionRoundsDown
  <1>2. q * b <= (a \div b) * b
    BY <1>1, SMT
  <1> QED
    BY <1>1, <1>2, SMT

(* The least of the three limits is one of them and no more than any.      *)
LEMMA LeastIsLeast ==
  ASSUME NEW x \in Int, NEW y \in Int, NEW z \in Int
  PROVE  LET least == Least({x, y, z})
         IN  least \in Int /\ least <= x /\ least <= y /\ least <= z
  <1> DEFINE S == {x, y, z}
  <1>1. \E q \in S : \A l \in S : q <= l
    <2>1. CASE x <= y /\ x <= z
      BY <2>1
    <2>2. CASE y <= x /\ y <= z
      BY <2>2
    <2>3. CASE z <= x /\ z <= y
      BY <2>3
    <2> QED
      BY <2>1, <2>2, <2>3
  <1>2. Least(S) \in S /\ \A l \in S : Least(S) <= l
    BY <1>1 DEF Least
  <1> QED
    BY <1>2

(* What SizePosition is bounded by once the proposal is valid.             *)
Within(q, equity, cash, entry, distance) ==
  /\ q * entry <= cash
  /\ q * (Whole * distance) <= equity * RiskPerTrade
  /\ q * (Whole * entry) <= equity * MaxNotional

LEMMA LimitsBound ==
  ASSUME NEW equity \in Int, NEW cash \in Int, NEW entry \in Nat \ {0},
         NEW distance \in Nat \ {0}
  PROVE  LET q == Least(Limits(equity, cash, entry, distance))
         IN  q \in Int /\ Within(q, equity, cash, entry, distance)
  <1> DEFINE risk == (equity * RiskPerTrade) \div (Whole * distance)
             notional == (equity * MaxNotional) \div (Whole * entry)
             affordable == cash \div entry
             q == Least(Limits(equity, cash, entry, distance))
  <1>1. /\ Whole * distance \in Nat \ {0}
        /\ Whole * entry \in Nat \ {0}
        /\ equity * RiskPerTrade \in Int
        /\ equity * MaxNotional \in Int
    BY SizingAssumption, SMT
  <1>2. risk \in Int /\ notional \in Int /\ affordable \in Int
    BY <1>1, DivisionRoundsDown
  <1>3. /\ InLots(risk) \in Int /\ InLots(risk) <= risk
        /\ InLots(notional) \in Int /\ InLots(notional) <= notional
        /\ InLots(affordable) \in Int /\ InLots(affordable) <= affordable
    <2> HIDE DEF risk, notional, affordable
    <2> QED
      BY <1>2, LotsRoundDown
  <1>4. Limits(equity, cash, entry, distance)
          = {InLots(risk), InLots(notional), InLots(affordable)}
    BY DEF Limits, ByRisk, ByNotional, ByCash
  <1>5. q \in Int /\ q <= InLots(risk) /\ q <= InLots(notional) /\ q <= InLots(affordable)
    <2> HIDE DEF risk, notional, affordable
    <2> QED
      BY <1>3, <1>4, LeastIsLeast
  <1>6. q <= risk /\ q <= notional /\ q <= affordable
    <2> HIDE DEF risk, notional, affordable, q
    <2> QED
      BY <1>2, <1>3, <1>5
  <1> HIDE DEF q
  <1>7. q * entry <= cash
    BY <1>5, <1>6, WithinQuotient DEF affordable
  <1>8. q * (Whole * distance) <= equity * RiskPerTrade
    BY <1>1, <1>5, <1>6, WithinQuotient DEF risk
  <1>9. q * (Whole * entry) <= equity * MaxNotional
    BY <1>1, <1>5, <1>6, WithinQuotient DEF notional
  <1> QED
    BY <1>5, <1>7, <1>8, <1>9 DEF Within, q

(* An approved size is at least the minimum, costs no more than the cash   *)
(* at the proposed entry, loses no more at its stop than the risk budget,  *)
(* and exposes no more than the notional limit, for every proposal: what   *)
(* size_position rounds, it rounds down, and a rejection is the size 0.    *)
THEOREM ApprovedSizeIsWithinEveryLimit ==
  ASSUME NEW equity \in Int, NEW cash \in Int, NEW isLong \in BOOLEAN,
         NEW entry \in Int, NEW stop \in Int,
         SizePosition(equity, cash, isLong, entry, stop) # 0
  PROVE  LET q == SizePosition(equity, cash, isLong, entry, stop)
         IN  /\ q \in Nat /\ q >= MinQuantity
             /\ StopDistance(isLong, entry, stop) > 0
             /\ Within(q, equity, cash, entry, StopDistance(isLong, entry, stop))
  <1> DEFINE distance == StopDistance(isLong, entry, stop)
             least == Least(Limits(equity, cash, entry, distance))
  <1>1. Valid(equity, cash, isLong, entry, stop)
    BY DEF SizePosition
  <1>2. distance \in Nat \ {0} /\ entry \in Nat \ {0}
    BY <1>1 DEF Valid, StopDistance
  <1>3. SizePosition(equity, cash, isLong, entry, stop) = least /\ LargeEnough(least)
    BY <1>1 DEF SizePosition
  <1>4. least \in Int /\ Within(least, equity, cash, entry, distance)
    <2> HIDE DEF distance
    <2> QED
      BY <1>2, LimitsBound
  <1>5. least \in Nat /\ least >= MinQuantity
    <2> HIDE DEF least
    <2> QED
      BY <1>3, <1>4, SizingAssumption DEF LargeEnough
  <1> HIDE DEF least
  <1> QED
    BY <1>2, <1>3, <1>4, <1>5

-----------------------------------------------------------------------------
(* Extremes.                                                               *)
LEMMA LeastNatural ==
  ASSUME NEW S \in SUBSET Nat, S # {}
  PROVE  \E x \in S : \A y \in S : x <= y
<1> DEFINE R == OpToRel(<, Nat)
<1>1. IsWellFoundedOn(R, Nat)
  BY NatLessThanWellFounded
<1>2. \A x, y \in Nat : x < y => <<x, y>> \in R
  BY DEF OpToRel
<1> HIDE DEF R
<1>3. PICK x \in S : \A y \in S : <<y, x>> \notin R
  BY <1>1, WFMin
<1>4. \A y \in S : ~(y < x)
  BY <1>2, <1>3
<1>5. QED
  BY <1>4

(* Of finitely many elements one has the greatest value.                   *)
LEMMA GreatestValue ==
  ASSUME NEW T, IsFiniteSet(T), T # {}, NEW f \in [T -> Int]
  PROVE  \E x \in T : \A y \in T : f[y] <= f[x]
<1> DEFINE Good(U) == \E x \in U : \A y \in U : f[y] <= f[x]
           Bad == {n \in Nat : \E U \in SUBSET T : U # {} /\ Cardinality(U) = n /\ ~Good(U)}
<1> SUFFICES ASSUME ~Good(T) PROVE FALSE
  OBVIOUS
<1>1. Cardinality(T) \in Bad
  BY FS_CardinalityType
<1> HIDE DEF Good
<1>2. PICK n \in Bad : \A m \in Bad : n <= m
  BY <1>1, LeastNatural
<1>3. PICK U \in SUBSET T : U # {} /\ Cardinality(U) = n /\ ~Good(U)
  BY <1>2
<1>4. PICK u \in U : TRUE
  BY <1>3
<1>5. /\ IsFiniteSet(U) /\ n \in Nat
      /\ IsFiniteSet(U \ {u}) /\ Cardinality(U \ {u}) = n - 1
  BY <1>2, <1>3, <1>4, FS_Subset, FS_RemoveElement
<1>6. U \ {u} # {}
  <2> SUFFICES ASSUME U = {u} PROVE FALSE
    BY <1>4
  <2>1. Good(U)
    BY DEF Good
  <2>2. QED
    BY <1>3, <2>1
<1>7. Good(U \ {u})
  <2>1. n - 1 \in Nat
    BY <1>5, FS_CardinalityType
  <2>2. n - 1 \notin Bad
    BY <1>2, <1>5, <2>1
  <2>3. QED
    BY <1>3, <1>5, <1>6, <2>1, <2>2
<1>8. PICK x \in U \ {u} : \A y \in U \ {u} : f[y] <= f[x]
  BY <1>7 DEF Good
<1>9. Good(U)
  <2>1. f[x] \in Int /\ f[u] \in Int /\ \A y \in U : f[y] \in Int
    BY <1>3, <1>4, <1>8
  <2>2. CASE f[u] <= f[x]
    BY <1>8, <2>1, <2>2 DEF Good
  <2>3. CASE f[x] <= f[u]
    BY <1>4, <1>8, <2>1, <2>3 DEF Good
  <2>4. QED
    BY <2>1, <2>2, <2>3
<1>10. QED
  BY <1>3, <1>9

LEMMA GreatestNumber ==
  ASSUME NEW T \in SUBSET Int, IsFiniteSet(T), T # {}
  PROVE  \E x \in T : \A y \in T : y <= x
<1> DEFINE f == [x \in T |-> x]
<1>1. f \in [T -> Int] /\ \A x \in T : f[x] = x
  OBVIOUS
<1> HIDE DEF f
<1>2. PICK x \in T : \A y \in T : f[y] <= f[x]
  BY <1>1, GreatestValue
<1>3. QED
  BY <1>1, <1>2

-----------------------------------------------------------------------------
(* Days and moments.                                                       *)
LEMMA DayIsUnique ==
  ASSUME NEW d \in Int, NEW e \in Int, NEW t \in Int, NEW n \in Nat \ {0},
         d * n <= t, t < d * n + n, e * n <= t, t < e * n + n
  PROVE  d = e
<1>1. CASE d < e
  <2>1. d + 1 <= e
    BY <1>1
  <2>2. (d + 1) * n <= e * n
    BY <2>1, SMT
  <2>3. (d + 1) * n = d * n + n
    BY SMT
  <2>4. QED
    BY <2>2, <2>3, SMT
<1>2. CASE e < d
  <2>1. e + 1 <= d
    BY <1>2
  <2>2. (e + 1) * n <= d * n
    BY <2>1, SMT
  <2>3. (e + 1) * n = e * n + n
    BY SMT
  <2>4. QED
    BY <2>2, <2>3, SMT
<1>3. QED
  BY <1>1, <1>2

Midnight(d) == d * DayLength

LEMMA Midnights ==
  ASSUME NEW d \in Int
  PROVE  /\ Midnight(d) \in Int /\ Midnight(d + 1) = Midnight(d) + DayLength
         /\ d >= 0 => Midnight(d) >= 0
<1>1. DayLength \in Nat \ {0}
  BY ExecutionAssumption
<1>2. d * DayLength \in Int /\ (d + 1) * DayLength = d * DayLength + DayLength
  BY <1>1, SMT
<1>3. d >= 0 => d * DayLength >= 0
  BY <1>1, SMT
<1>4. QED
  BY <1>2, <1>3 DEF Midnight

LEMMA MidnightsAscend ==
  ASSUME NEW d \in Int, NEW e \in Int, d <= e
  PROVE  Midnight(d) <= Midnight(e)
<1>1. DayLength \in Nat \ {0}
  BY ExecutionAssumption
<1>2. d * DayLength <= e * DayLength
  BY <1>1, SMT
<1>3. QED
  BY <1>2 DEF Midnight

(* The day of a moment is the one whose midnights it lies between.         *)
LEMMA DayOfMoment ==
  ASSUME NEW t \in Int
  PROVE  /\ SessionDay(t) \in Int
         /\ Midnight(SessionDay(t)) <= t /\ t < Midnight(SessionDay(t)) + DayLength
         /\ TimeOfDay(t) = t - Midnight(SessionDay(t))
<1>1. DayLength \in Nat \ {0}
  BY ExecutionAssumption
<1>2. /\ t \div DayLength \in Int /\ (t \div DayLength) * DayLength <= t
      /\ t < (t \div DayLength) * DayLength + DayLength
  BY <1>1, DivisionRoundsDown
<1>3. t % DayLength = t - (t \div DayLength) * DayLength
  BY <1>1, SMT
<1>4. QED
  BY <1>2, <1>3 DEF SessionDay, TimeOfDay, Midnight

LEMMA DayBetweenMidnights ==
  ASSUME NEW t \in Int, NEW d \in Int, Midnight(d) <= t, t < Midnight(d) + DayLength
  PROVE  SessionDay(t) = d
<1>1. DayLength \in Nat \ {0}
  BY ExecutionAssumption
<1>2. /\ SessionDay(t) \in Int
      /\ SessionDay(t) * DayLength <= t /\ t < SessionDay(t) * DayLength + DayLength
  BY DayOfMoment DEF Midnight
<1>3. d * DayLength <= t /\ t < d * DayLength + DayLength
  BY DEF Midnight
<1>4. QED
  BY <1>1, <1>2, <1>3, DayIsUnique

(* Multiples of the interval.                                              *)
OnGrid(t) == t % Interval = 0

LEMMA GridFactor ==
  ASSUME NEW t \in Int
  PROVE  OnGrid(t) <=> \E k \in Int : t = k * Interval
<1>1. Interval \in Nat \ {0}
  BY ExecutionAssumption
<1>2. t = ((t \div Interval) * Interval) + (t % Interval) /\ t \div Interval \in Int
  BY <1>1, SMT
<1>3. ASSUME NEW k \in Int, t = k * Interval PROVE t % Interval = 0
  <2>1. /\ (t \div Interval) * Interval <= t /\ t < (t \div Interval) * Interval + Interval
        /\ t \div Interval \in Int
    BY <1>1, DivisionRoundsDown
  <2>2. k * Interval <= t /\ t < k * Interval + Interval
    BY <1>1, <1>3, SMT
  <2>3. k = t \div Interval
    BY <1>1, <2>1, <2>2, DayIsUnique
  <2>4. QED
    BY <1>1, <1>2, <1>3, <2>3, SMT
<1>4. ASSUME t % Interval = 0 PROVE \E k \in Int : t = k * Interval
  <2>1. t = (t \div Interval) * Interval /\ t \div Interval \in Int
    BY <1>1, <1>2, <1>4, SMT
  <2>2. QED
    BY <2>1
<1>5. QED
  BY <1>3, <1>4 DEF OnGrid

LEMMA GridSum ==
  ASSUME NEW a \in Int, NEW b \in Int, OnGrid(a)
  PROVE  (OnGrid(b) <=> OnGrid(a + b)) /\ (OnGrid(b) <=> OnGrid(b - a))
<1>1. Interval \in Nat \ {0}
  BY ExecutionAssumption
<1>2. PICK k \in Int : a = k * Interval
  BY GridFactor
<1>3. ASSUME NEW c \in Int, OnGrid(c) PROVE OnGrid(a + c) /\ OnGrid(c - a)
  <2>1. PICK l \in Int : c = l * Interval
    BY <1>3, GridFactor
  <2>2. a + c = (k + l) * Interval /\ c - a = (l - k) * Interval
    BY <1>1, <1>2, <2>1, SMT
  <2>3. k + l \in Int /\ l - k \in Int /\ a + c \in Int /\ c - a \in Int
    OBVIOUS
  <2>4. QED
    BY <2>2, <2>3, GridFactor
<1>4. a + b \in Int /\ b - a \in Int /\ (a + b) - a = b /\ a + (b - a) = b
  OBVIOUS
<1>5. OnGrid(a + b) => OnGrid((a + b) - a)
  BY <1>3, <1>4
<1>6. OnGrid(b - a) => OnGrid(a + (b - a))
  BY <1>3, <1>4
<1>7. QED
  BY <1>3, <1>4, <1>5, <1>6

(* Two moments of the grid are an interval apart.                          *)
LEMMA GridStep ==
  ASSUME NEW a \in Int, NEW b \in Int, OnGrid(a), OnGrid(b), a < b
  PROVE  a + Interval <= b
<1>1. Interval \in Nat \ {0}
  BY ExecutionAssumption
<1>2. PICK k \in Int : a = k * Interval
  BY GridFactor
<1>3. PICK l \in Int : b = l * Interval
  BY GridFactor
<1>4. k + 1 <= l
  <2> SUFFICES ASSUME l <= k PROVE FALSE
    OBVIOUS
  <2>1. l * Interval <= k * Interval
    BY <1>1, SMT
  <2>2. QED
    BY <1>2, <1>3, <2>1
<1>5. (k + 1) * Interval <= l * Interval /\ (k + 1) * Interval = k * Interval + Interval
  BY <1>1, <1>4, SMT
<1>6. QED
  BY <1>2, <1>3, <1>5

LEMMA IntervalOnGrid == OnGrid(Interval) /\ \A d \in Int : OnGrid(Midnight(d) + SessionOpen)
<1>1. Interval \in Nat \ {0} /\ SessionOpen \in Nat /\ DayLength \in Nat \ {0}
  BY ExecutionAssumption, CalendarAssumption
<1>2. OnGrid(Interval) /\ OnGrid(DayLength) /\ OnGrid(SessionOpen)
  BY <1>1, AlignmentAssumption, SMT DEF OnGrid
<1>3. ASSUME NEW d \in Int PROVE OnGrid(Midnight(d) + SessionOpen)
  <2>1. PICK k \in Int : DayLength = k * Interval
    BY <1>1, <1>2, GridFactor
  <2>2. Midnight(d) = (d * k) * Interval /\ d * k \in Int /\ Midnight(d) \in Int
    BY <1>1, <2>1, SMT DEF Midnight
  <2>3. OnGrid(Midnight(d))
    BY <2>2, GridFactor
  <2>4. QED
    BY <1>1, <1>2, <2>2, <2>3, GridSum
<1>4. QED
  BY <1>2, <1>3

-----------------------------------------------------------------------------
(* The adapter and the engine use the same resolvers.                      *)
LEMMA SameTimes ==
  /\ \A s : Paper!EntryBarStart(s) = EntryBarStart(s)
  /\ \A b : Paper!BarEnd(b) = BarEnd(b) /\ Paper!Executable(b) = Executable(b)
  /\ \A b : Paper!HardExitDue(b) = HardExitDue(b)
  /\ \A t : Paper!SessionDay(t) = SessionDay(t)
  BY DEF Paper!EntryBarStart, Paper!BarEnd, Paper!Executable, Paper!HardExitDue, Paper!SessionDay,
     Paper!TimeOfDay, EntryBarStart, BarEnd, Executable, HardExitDue, SessionDay, TimeOfDay

LEMMA SameCharges ==
  \A side, turnover : Paper!LegCharges(side, turnover) = LegCharges(side, turnover)
  BY DEF Paper!LegCharges, Paper!Brokerage, Paper!Sebi, Paper!Exchange, Paper!SideTax, Paper!ToPaisa,
     Paper!NoCap, LegCharges, Brokerage, Sebi, Exchange, SideTax, ToPaisa, NoCap

LEMMA SameFills ==
  /\ \A i, b : Paper!EntryFill(i, b) = EntryFill(i, b)
  /\ \A i, reason, reference, b : Paper!ExitFill(i, reason, reference, b) = ExitFill(i, reason, reference, b)
  BY SameCharges, SameTimes DEF Paper!EntryFill, Paper!ExitFill, Paper!MakeFill, Paper!EntrySide, Paper!ExitSide,
     Paper!IsLong, Paper!EntrySlipped, Paper!ExitSlipped, Paper!Slippage, Paper!ExitMoment, Paper!Gapped,
     Paper!AtOrAgainst, EntryFill, ExitFill, MakeFill, EntrySide, ExitSide,
     IsLong, EntrySlipped, ExitSlipped, Slippage, ExitMoment, Gapped, AtOrAgainst

LEMMA SamePrices ==
  /\ \A d, b : Paper!Enterable(d, b) <=> Enterable(d, b)
  /\ \A d, p : Paper!ExitPriced(d, p) <=> ExitPriced(d, p)
  BY SameTimes DEF Paper!Enterable, Paper!EntryPriced, Paper!ExitPriced, Paper!Priced, Paper!EntrySlipped,
     Paper!ExitSlipped, Paper!Slippage, Paper!IsLong, Enterable, EntryPriced, ExitPriced, Priced, EntrySlipped,
     ExitSlipped, Slippage, IsLong

LEMMA SameExits ==
  /\ \A i, e, b, m : Paper!ResolveExit(i, e, b, m) = ResolveExit(i, e, b, m)
  /\ \A i, e, b, m : Paper!ExitWalkRaises(i, e, b, m) <=> ExitWalkRaises(i, e, b, m)
  /\ \A i, e, reason, b : Paper!ExitReference(i, e, reason, b) = ExitReference(i, e, reason, b)
<1>1. /\ \A i, e : Paper!Risk(i, e) = Risk(i, e)
      /\ \A i, e : Paper!TargetPrice(i, e) = TargetPrice(i, e)
      /\ \A i, b : Paper!Gapped(i, b) = Gapped(i, b)
      /\ \A i, b : Paper!StopTouched(i, b) = StopTouched(i, b)
  BY DEF Paper!Risk, Paper!TargetPrice, Paper!Gapped, Paper!StopTouched, Paper!AtOrAgainst, Paper!WorstPrice, Paper!IsLong,
     Risk, TargetPrice, Gapped, StopTouched, AtOrAgainst, WorstPrice, IsLong
<1>2. \A i, e, b : Paper!TargetReached(i, e, b) = TargetReached(i, e, b)
  BY <1>1 DEF Paper!TargetReached, Paper!BestPrice, Paper!IsLong, TargetReached, BestPrice, IsLong
<1>3. \A i, e, m : Paper!Silent(i, e, m) = Silent(i, e, m)
  BY <1>1, <1>2, SameTimes DEF Paper!Silent, Silent
<1>4. \A b, m : Paper!MinutesInside(b, m) = MinutesInside(b, m)
  <2>1. ASSUME NEW S PROVE Paper!Cardinality(S) = Cardinality(S)
    BY Zenon DEF Paper!Cardinality, Cardinality
  <2>2. ASSUME NEW bar, NEW minutes PROVE Paper!MinutesInside(bar, minutes) = MinutesInside(bar, minutes)
    <3> DEFINE Covered(end) == {m \in minutes : bar.start <= m.start /\ m.start + 1 <= end}
               Starts(end) == {m.start : m \in Covered(end)} = bar.start .. (end - 1)
    <3>1. MinutesInside(bar, minutes) =
            IF Cardinality(Covered(BarEnd(bar))) = Interval /\ Starts(BarEnd(bar))
            THEN Covered(BarEnd(bar)) ELSE {}
      BY Zenon DEF MinutesInside
    <3>2. Paper!MinutesInside(bar, minutes) =
            IF Paper!Cardinality(Covered(Paper!BarEnd(bar))) = Interval /\ Starts(Paper!BarEnd(bar))
            THEN Covered(Paper!BarEnd(bar)) ELSE {}
      BY Zenon DEF Paper!MinutesInside
    <3>3. Paper!BarEnd(bar) = BarEnd(bar)
      BY SameTimes
    <3>4. Paper!Cardinality(Covered(BarEnd(bar))) = Cardinality(Covered(BarEnd(bar)))
      BY <2>1
    <3> HIDE DEF Covered, Starts
    <3>5. QED
      BY <3>1, <3>2, <3>3, <3>4
  <2>3. QED
    BY <2>2
<1>5. ASSUME NEW i, NEW e, NEW b, NEW m
      PROVE  /\ Paper!Loud(i, e, b, m) = Loud(i, e, b, m)
             /\ Paper!ResolveCollision(i, e, b, m) = ResolveCollision(i, e, b, m)
  <2>1. Paper!Loud(i, e, b, m) = Loud(i, e, b, m)
    BY <1>3, <1>4 DEF Paper!Loud, Loud
  <2>2. QED
    BY <1>1, <1>2, <2>1, SameTimes DEF Paper!ResolveCollision, Paper!Resolved, ResolveCollision, Resolved
<1>6. \A i, e, b, m : Paper!ResolveExit(i, e, b, m) = ResolveExit(i, e, b, m)
  BY <1>1, <1>2, <1>5 DEF Paper!ResolveExit, Paper!Resolved, ResolveExit, Resolved
<1>7. \A i, e, reason, b : Paper!ExitReference(i, e, reason, b) = ExitReference(i, e, reason, b)
  BY <1>1 DEF Paper!ExitReference, Paper!StopReference, ExitReference, StopReference
<1>8. \A i, e, b : Paper!LevelUnpriced(i, e, b) <=> LevelUnpriced(i, e, b)
  BY <1>1, <1>2, SamePrices DEF Paper!LevelUnpriced, Paper!StopReference, LevelUnpriced, StopReference
<1>9. \A i, e, b, m : Paper!WalkUnpriced(i, e, b, m) <=> WalkUnpriced(i, e, b, m)
  BY <1>1, <1>2, <1>5, <1>8, SameTimes DEF Paper!WalkUnpriced, WalkUnpriced
<1>10. \A i, e, b, m : Paper!Unresolved(i, e, b, m) <=> Unresolved(i, e, b, m)
  BY <1>6 DEF Paper!Unresolved, Unresolved
<1>11. \A i, e, b, m : Paper!ExitUnpriced(i, e, b, m) <=> ExitUnpriced(i, e, b, m)
  BY <1>8, <1>9, <1>10, SamePrices, SameTimes DEF Paper!ExitUnpriced, ExitUnpriced
<1>12. \A i, e, b, m : Paper!ExitWalkRaises(i, e, b, m) <=> ExitWalkRaises(i, e, b, m)
  BY <1>1, <1>10, <1>11, SameTimes DEF Paper!ExitWalkRaises, ExitWalkRaises
<1>13. QED
  BY <1>6, <1>7, <1>12

LEMMA SameBooks ==
  /\ \A d, e, x, a : Paper!CloseTrade(d, e, x, a) = CloseTrade(d, e, x, a)
  /\ \A l, f : Paper!AfterEntry(l, f) = AfterEntry(l, f)
  /\ \A l, t : Paper!AfterExit(l, t) = AfterExit(l, t)
  /\ \A c : Paper!Funded(c) = Funded(c)
  BY DEF Paper!CloseTrade, Paper!AfterEntry, Paper!AfterExit, Paper!Funded, Paper!CashDelta, Paper!IsLong,
     CloseTrade, AfterEntry, AfterExit, Funded, CashDelta, IsLong

-----------------------------------------------------------------------------
(* Types of what the resolvers make.                                       *)
Reasons == {"entry", "stop", "target", "time_exit"}
Ambiguities == {"unambiguous", "resolved_by_1m", "pessimistic_fallback"}
AnyTrade == [direction : {"LONG", "SHORT"}, entry : AnyFill, exit : AnyFill,
             ambiguity : Ambiguities, gross_pnl : Int, costs : Int]
AnyLedger == [cash : Int, gross : Int, costs : Int, closed_trades : Int]

LEMMA ChargesAreInt ==
  ASSUME NEW side, NEW turnover \in Int
  PROVE  LegCharges(side, turnover) \in Int
<1>1. \A f \in RateFields : Schedule[f] \in Int
  BY ScheduleAssumption
<1>2. /\ Schedule.brokerage_rate \in Int /\ Schedule.stt_sell_rate \in Int
      /\ Schedule.exchange_transaction_rate \in Int /\ Schedule.sebi_turnover_rate \in Int
      /\ Schedule.stamp_duty_buy_rate \in Int /\ Schedule.gst_rate \in Int
      /\ Schedule.scale \in Int /\ Schedule.brokerage_cap \in Int
  BY ScheduleAssumption DEF RateFields, NoCap
<1>3. \A amount \in Int : ToPaisa(amount) \in Int
  BY ScheduleAssumption DEF ToPaisa
<1>4. Brokerage(turnover) \in Int
  BY <1>2, <1>3 DEF Brokerage
<1>5. Exchange(turnover) \in Int /\ Sebi(turnover) \in Int /\ SideTax(side, turnover) \in Int
  BY <1>2, <1>3 DEF Exchange, Sebi, SideTax
<1>6. QED
  BY <1>2, <1>3, <1>4, <1>5 DEF LegCharges

LEMMA SlippageIsNat == Slippage \in Nat
<1>1. AdverseTicks \in Nat /\ TickSize \in Nat
  BY ExecutionAssumption
<1>2. QED
  BY <1>1, SMT DEF Slippage

LEMMA IntervalIsPositive == Interval \in Nat \ {0} /\ Interval >= 1
  BY ExecutionAssumption

LEMMA SignalFields ==
  ASSUME NEW s \in OrbSignals
  PROVE  /\ s.instrument_token = Instrument /\ s.direction \in {"LONG", "SHORT"}
         /\ s.signal_bar_start \in BarStarts /\ s.signal_bar_start \in Nat /\ s.stop_price \in Int
         /\ s.target_r_multiple \in Nat
         /\ EntryBarStart(s) = s.signal_bar_start + Interval /\ EntryBarStart(s) \in Nat
<1>1. /\ s.instrument_token = Instrument /\ s.direction \in {"LONG", "SHORT"}
      /\ s.signal_bar_start \in BarStarts /\ s.stop_price \in Int /\ s.target_r_multiple = TargetR
  BY DEF OrbSignals
<1>2. s.signal_bar_start \in Nat /\ s.target_r_multiple \in Nat
  BY <1>1, ReplayAssumption, StrategyAssumption
<1>3. QED
  BY <1>1, <1>2, IntervalIsPositive DEF EntryBarStart

LEMMA BarFields ==
  ASSUME NEW b \in AnyBar
  PROVE  /\ b.start \in BarStarts /\ b.start \in Nat
         /\ b.open \in Int /\ b.high \in Int /\ b.low \in Int /\ b.close \in Int
         /\ BarEnd(b) = b.start + Interval /\ BarEnd(b) \in Nat
<1>1. b.start \in BarStarts /\ b.open \in Int /\ b.high \in Int /\ b.low \in Int /\ b.close \in Int
  BY DEF AnyBar
<1>2. b.start \in Nat
  BY <1>1, ReplayAssumption
<1>3. QED
  BY <1>1, <1>2, IntervalIsPositive DEF BarEnd

LEMMA MadeFill ==
  ASSUME NEW side \in {"BUY", "SELL"}, NEW reason \in Reasons, NEW quantity \in Int,
         NEW price \in Int, NEW bar \in AnyBar, NEW at \in Int
  PROVE  MakeFill(side, reason, quantity, price, bar, at) \in AnyFill
<1>1. LegCharges(side, price * quantity) \in Int
  BY ChargesAreInt
<1>2. bar.start \in Int
  BY BarFields
<1>3. QED
  BY <1>1, <1>2 DEF MakeFill, AnyFill, Reasons

LEMMA EntryFilled ==
  ASSUME NEW i \in AnyIntent, NEW bar \in AnyBar
  PROVE  LET fill == EntryFill(i, bar)
         IN  /\ fill \in AnyFill /\ fill.bar_start = bar.start /\ fill.occurred_at = bar.start
             /\ fill.side = EntrySide(i.signal.direction) /\ fill.reason = "entry"
             /\ fill.price = EntrySlipped(i.signal.direction, bar.open)
<1>1. i.quantity \in Int
  BY DEF AnyIntent
<1>2. EntrySlipped(i.signal.direction, bar.open) \in Int
  BY BarFields, SlippageIsNat DEF EntrySlipped
<1>3. EntrySide(i.signal.direction) \in {"BUY", "SELL"}
  BY DEF EntrySide
<1>4. EntryFill(i, bar) \in AnyFill
  <2>0. "entry" \in Reasons
    BY DEF Reasons
  <2>1. bar.start \in Int
    BY BarFields
  <2>2. MakeFill(EntrySide(i.signal.direction), "entry", i.quantity,
                EntrySlipped(i.signal.direction, bar.open), bar, bar.start) \in AnyFill
    BY <1>1, <1>2, <1>3, <2>0, <2>1, MadeFill
  <2>3. QED
    BY <2>2 DEF EntryFill
<1>5. QED
  BY <1>4 DEF EntryFill, MakeFill

LEMMA ReferenceIsInt ==
  ASSUME NEW i \in AnyIntent, NEW e \in AnyFill, NEW bar \in AnyBar,
         NEW reason \in {"stop", "target", "time_exit"}
  PROVE  ExitReference(i, e, reason, bar) \in Int
<1>1. /\ i.signal \in OrbSignals /\ i.signal.stop_price \in Int /\ i.signal.target_r_multiple \in Int
      /\ e.price \in Int
  BY SignalFields DEF AnyIntent, AnyFill
<1>2. bar.open \in Int /\ bar.close \in Int
  BY BarFields
<1>3. Risk(i, e) \in Int
  BY <1>1 DEF Risk
<1>4. TargetPrice(i, e) \in Int
  BY <1>1, <1>3 DEF TargetPrice
<1>5. StopReference(i, bar) \in Int
  BY <1>1, <1>2 DEF StopReference
<1>6. QED
  BY <1>2, <1>4, <1>5 DEF ExitReference

LEMMA ExitFilled ==
  ASSUME NEW i \in AnyIntent, NEW reference \in Int, NEW bar \in AnyBar, NEW reason \in Reasons
  PROVE  LET fill == ExitFill(i, reason, reference, bar)
         IN  /\ fill \in AnyFill /\ fill.bar_start = bar.start /\ fill.reason = reason
             /\ fill.side = ExitSide(i.signal.direction)
             /\ fill.price = ExitSlipped(i.signal.direction, reference)
             /\ fill.occurred_at = ExitMoment(i, reason, bar)
             /\ bar.start <= fill.occurred_at /\ fill.occurred_at <= bar.start + Interval
<1>1. i.quantity \in Int
  BY DEF AnyIntent
<1>2. ExitSlipped(i.signal.direction, reference) \in Int
  BY SlippageIsNat DEF ExitSlipped
<1>3. ExitSide(i.signal.direction) \in {"BUY", "SELL"}
  BY DEF ExitSide
<1>4. /\ ExitMoment(i, reason, bar) \in Int /\ bar.start <= ExitMoment(i, reason, bar)
      /\ ExitMoment(i, reason, bar) <= bar.start + Interval
  BY BarFields, IntervalIsPositive DEF ExitMoment
<1>5. ExitFill(i, reason, reference, bar) \in AnyFill
  BY <1>1, <1>2, <1>3, <1>4, MadeFill DEF ExitFill
<1>6. QED
  BY <1>4, <1>5 DEF ExitFill, MakeFill

(* What a bar makes of a position: it resolves to one exit or to none.     *)
LEMMA ExitKinds ==
  ASSUME NEW i, NEW e, NEW bar, NEW minutes
  PROVE  LET exit == ResolveExit(i, e, bar, minutes)
         IN  /\ exit.reason \in {"none", "stop", "target"} /\ exit.ambiguity \in Ambiguities
             /\ exit = [reason |-> exit.reason, ambiguity |-> exit.ambiguity]
             /\ exit.reason = "none" => exit.ambiguity = "unambiguous"
<1>1. ASSUME NEW reason, NEW a
      PROVE  /\ Resolved(reason, a).reason = reason /\ Resolved(reason, a).ambiguity = a
             /\ Resolved(reason, a) = [reason |-> Resolved(reason, a).reason,
                                      ambiguity |-> Resolved(reason, a).ambiguity]
  BY DEF Resolved
<1>2. \/ ResolveCollision(i, e, bar, minutes) = Resolved("stop", "pessimistic_fallback")
      \/ ResolveCollision(i, e, bar, minutes) = Resolved("stop", "resolved_by_1m")
      \/ ResolveCollision(i, e, bar, minutes) = Resolved("target", "resolved_by_1m")
  BY DEF ResolveCollision
<1>3. \/ ResolveExit(i, e, bar, minutes) = ResolveCollision(i, e, bar, minutes)
      \/ ResolveExit(i, e, bar, minutes) = Resolved("stop", "unambiguous")
      \/ ResolveExit(i, e, bar, minutes) = Resolved("target", "unambiguous")
      \/ ResolveExit(i, e, bar, minutes) = Resolved("none", "unambiguous")
  BY DEF ResolveExit
<1>4. PICK reason \in {"none", "stop", "target"}, a \in Ambiguities :
        /\ ResolveExit(i, e, bar, minutes) = Resolved(reason, a)
        /\ reason = "none" => a = "unambiguous"
  BY <1>2, <1>3 DEF Ambiguities
<1>5. QED
  BY <1>1, <1>4

LEMMA ClosedTrade ==
  ASSUME NEW d \in {"LONG", "SHORT"}, NEW e \in AnyFill, NEW x \in AnyFill, NEW a \in Ambiguities
  PROVE  LET trade == CloseTrade(d, e, x, a)
         IN  /\ trade \in AnyTrade /\ trade.entry = e /\ trade.exit = x
             /\ trade.direction = d /\ trade.ambiguity = a
<1>1. /\ e.price \in Int /\ e.quantity \in Int /\ e.costs \in Int /\ x.price \in Int /\ x.costs \in Int
  BY DEF AnyFill
<1>2. /\ (IF IsLong(d) THEN x.price - e.price ELSE e.price - x.price) * e.quantity \in Int
      /\ e.costs + x.costs \in Int
  BY <1>1
<1>3. QED
  BY <1>2 DEF CloseTrade, AnyTrade

LEMMA LedgerMoves ==
  ASSUME NEW l \in AnyLedger
  PROVE  /\ \A f \in AnyFill : AfterEntry(l, f) \in AnyLedger
         /\ \A t \in AnyTrade : AfterExit(l, t) \in AnyLedger
<1>1. \A f \in AnyFill : CashDelta(f) \in Int
  <2>1. \A f \in AnyFill : f.price \in Int /\ f.quantity \in Int /\ f.costs \in Int
    BY DEF AnyFill
  <2>2. QED
    BY <2>1 DEF CashDelta
<1>2. ASSUME NEW f \in AnyFill PROVE AfterEntry(l, f) \in AnyLedger
  BY <1>1 DEF AfterEntry, AnyLedger
<1>3. ASSUME NEW t \in AnyTrade PROVE AfterExit(l, t) \in AnyLedger
  <2>1. t.exit \in AnyFill /\ t.gross_pnl \in Int /\ t.costs \in Int
    BY DEF AnyTrade
  <2>2. QED
    BY <1>1, <2>1 DEF AfterExit, AnyLedger
<1>4. QED
  BY <1>2, <1>3

LEMMA FixedQuantityIsInt ==
  ASSUME NEW price \in Nat \ {0}
  PROVE  FixedQuantity(price) \in Int
<1>1. FixedNotional \div price \in Int
  BY SizingAssumption, DivisionRoundsDown
<1>2. QED
  BY <1>1, LotsRoundDown DEF FixedQuantity

LEMMA SizeIsInt ==
  ASSUME NEW equity \in Int, NEW isLong \in BOOLEAN, NEW entry \in Int, NEW stop \in Int
  PROVE  SizePosition(equity, equity, isLong, entry, stop) \in Int
<1>1. CASE SizePosition(equity, equity, isLong, entry, stop) = 0
  BY <1>1
<1>2. CASE SizePosition(equity, equity, isLong, entry, stop) # 0
  BY <1>2, ApprovedSizeIsWithinEveryLimit
<1>3. QED
  BY <1>1, <1>2

-----------------------------------------------------------------------------
(* The opening range of the bars of a day.                                 *)
BarsOf(d, bars) ==
  IsFiniteSet(bars) /\ \A b \in bars : b \in AnyBar /\ SessionDay(b.start) = d

OpenOf(d) == Midnight(d) + SessionOpen
WindowOf(d) == OpenOf(d) + OpeningRangeMinutes

LEMMA WindowFollowsOpen ==
  ASSUME NEW d \in Int
  PROVE  OpenOf(d) \in Int /\ WindowOf(d) \in Int /\ Midnight(d) <= OpenOf(d) /\ OpenOf(d) < WindowOf(d)
<1>1. SessionOpen \in Nat /\ OpeningRangeMinutes \in Nat \ {0}
  BY CalendarAssumption, StrategyAssumption
<1>2. Midnight(d) \in Int
  BY Midnights
<1>3. QED
  BY <1>1, <1>2 DEF OpenOf, WindowOf

LEMMA WindowOfBar ==
  \A b : Opens(b) = OpenOf(SessionDay(b.start)) /\ WindowEnd(b) = WindowOf(SessionDay(b.start))
  BY DEF Opens, WindowEnd, OpenOf, WindowOf, Midnight

LEMMA OpeningBarsOf ==
  ASSUME NEW d, NEW bars, BarsOf(d, bars)
  PROVE  /\ OpeningBars(bars) = {b \in bars : OpenOf(d) <= b.start /\ b.start < WindowOf(d)}
         /\ IsFiniteSet(OpeningBars(bars)) /\ BarsOf(d, OpeningBars(bars))
<1>1. OpeningBars(bars) = {b \in bars : OpenOf(d) <= b.start /\ b.start < WindowOf(d)}
  BY WindowOfBar DEF OpeningBars, BarsOf
<1>2. IsFiniteSet(OpeningBars(bars))
  BY <1>1, FS_Subset DEF BarsOf
<1>3. QED
  BY <1>1, <1>2 DEF BarsOf

(* A complete range has a bar at the open, and two extremes.               *)
LEMMA RangeIsThere ==
  ASSUME NEW d \in Int, NEW bars, BarsOf(d, bars), NEW bar, SessionDay(bar.start) = d,
         RangeIsComplete(bars, bar)
  PROVE  OpeningBars(bars) # {} /\ RangeHigh(bars) \in Int /\ RangeLow(bars) \in Int
<1> DEFINE S == OpeningBars(bars)
<1>1. S # {}
  <2>1. Opens(bar) = OpenOf(d) /\ WindowEnd(bar) = WindowOf(d)
    BY WindowOfBar
  <2>2. OpenOf(d) \in OpenOf(d) .. WindowOf(d) - 1 /\ (OpenOf(d) - OpenOf(d)) % Interval = 0
    <3>1. OpenOf(d) \in Int /\ WindowOf(d) \in Int /\ OpenOf(d) < WindowOf(d)
      BY WindowFollowsOpen
    <3>2. OpenOf(d) - OpenOf(d) = 0 /\ 0 % Interval = 0
      BY <3>1, IntervalIsPositive, SMT
    <3>3. QED
      BY <3>1, <3>2
  <2>3. OpenOf(d) \in {b.start : b \in S}
    BY <2>1, <2>2 DEF RangeIsComplete
  <2>4. QED
    BY <2>3
<1>2. IsFiniteSet(S) /\ \A b \in S : b.high \in Int /\ b.low \in Int /\ -b.low \in Int
  BY OpeningBarsOf, BarFields DEF BarsOf
<1> HIDE DEF S
<1>3. Highest(S) \in Int
  <2> DEFINE f == [b \in S |-> b.high]
  <2>1. f \in [S -> Int]
    BY <1>2
  <2>2. \E x \in S : \A y \in S : f[y] <= f[x]
    <3> HIDE DEF f
    <3>1. QED
      BY <1>1, <1>2, <2>1, GreatestValue
  <2>3. \E p \in {b.high : b \in S} : \A b \in S : b.high <= p
    BY <2>2
  <2>4. Highest(S) \in {b.high : b \in S}
    BY <2>3 DEF Highest
  <2>5. QED
    BY <1>2, <2>4
<1>4. Lowest(S) \in Int
  <2> DEFINE f == [b \in S |-> -b.low]
  <2>1. f \in [S -> Int]
    BY <1>2
  <2>2. PICK x \in S : \A y \in S : f[y] <= f[x]
    <3> HIDE DEF f
    <3>1. QED
      BY <1>1, <1>2, <2>1, GreatestValue
  <2>3. \A y \in S : x.low <= y.low
    BY <1>2, <2>2
  <2>4. \E p \in {b.low : b \in S} : \A b \in S : p <= b.low
    BY <2>3
  <2>5. Lowest(S) \in {b.low : b \in S}
    BY <2>4 DEF Lowest
  <2>6. QED
    BY <1>2, <2>5
<1>5. QED
  BY <1>1, <1>3, <1>4 DEF S, RangeHigh, RangeLow

(* What the strategy reads of a session, but for its last bar, is its      *)
(* opening range.                                                          *)
LEMMA SameRange ==
  ASSUME NEW S, NEW T, OpeningBars(S) = OpeningBars(T)
  PROVE  /\ \A b : RangeIsComplete(S, b) <=> RangeIsComplete(T, b)
         /\ \A b, direction : BreaksOut(S, b, direction) <=> BreaksOut(T, b, direction)
         /\ \A b, direction, atr : Rejects(S, b, direction, atr) <=> Rejects(T, b, direction, atr)
<1>1. RangeHigh(S) = RangeHigh(T) /\ RangeLow(S) = RangeLow(T) /\ RangeWidth(S) = RangeWidth(T)
  BY DEF RangeHigh, RangeLow, RangeWidth
<1>2. \A b : RangeIsComplete(S, b) <=> RangeIsComplete(T, b)
  BY DEF RangeIsComplete
<1>3. \A b, direction : BreaksOut(S, b, direction) <=> BreaksOut(T, b, direction)
  BY <1>1 DEF BreaksOut
<1>4. /\ \A direction : TooCostly(S, direction) <=> TooCostly(T, direction)
      /\ \A atr : TooWide(S, atr) <=> TooWide(T, atr)
  BY <1>1 DEF TooCostly, TooWide
<1>5. \A b, direction, atr : Rejects(S, b, direction, atr) <=> Rejects(T, b, direction, atr)
  BY <1>1, <1>4 DEF Rejects
<1>6. QED
  BY <1>2, <1>3, <1>5

(* The bars up to one after the window hold the whole opening range.       *)
LEMMA RangeIsKept ==
  ASSUME NEW d \in Int, NEW bars, BarsOf(d, bars), NEW x \in Int, WindowOf(d) <= x
  PROVE  /\ BarsOf(d, {b \in bars : b.start <= x})
         /\ OpeningBars({b \in bars : b.start <= x}) = OpeningBars(bars)
<1>1. BarsOf(d, {b \in bars : b.start <= x})
  BY FS_Subset DEF BarsOf
<1>2. \A b \in bars : b.start \in Int
  BY BarFields DEF BarsOf
<1>3. \A b \in bars : b.start < WindowOf(d) => b.start <= x
  BY <1>2, WindowFollowsOpen
<1>4. QED
  BY <1>1, <1>3, OpeningBarsOf

LEMMA OneWindow ==
  ASSUME NEW bars, NEW b, NEW c, SessionDay(b.start) = SessionDay(c.start)
  PROVE  RangeIsComplete(bars, b) <=> RangeIsComplete(bars, c)
  BY WindowOfBar DEF RangeIsComplete

(* What the strategy decides on a bar of a session with its opening range. *)
LEMMA DecidedSignal ==
  ASSUME NEW d \in Int, NEW bars, BarsOf(d, bars), NEW bar \in bars, NEW atr,
         ~EvaluateRaises(bars, bar), Decision(bars, bar, atr) # None
  PROVE  LET signal == Decision(bars, bar, atr)
         IN  /\ signal \in OrbSignals /\ signal.signal_bar_start = bar.start
             /\ signal.direction \in {"LONG", "SHORT"}
             /\ Fires(bars, bar, signal.direction, atr)
             /\ WindowOf(d) <= bar.start
<1>1. PICK direction \in {"LONG", "SHORT"} :
        Decision(bars, bar, atr) = SignalOf(bars, bar, direction) /\ Fires(bars, bar, direction, atr)
  BY DEF Decision
<1>2. bar.start >= WindowEnd(bar) /\ SessionDay(bar.start) = d /\ WindowEnd(bar) = WindowOf(d)
  BY <1>1, WindowOfBar DEF Fires, BarsOf
<1>3. RangeIsComplete(bars, bar)
  BY <1>2 DEF EvaluateRaises
<1>4. StopOf(bars, direction) \in Int
  BY <1>2, <1>3, RangeIsThere DEF StopOf
<1>5. bar.start \in BarStarts /\ bar.start \in Int /\ WindowOf(d) \in Int
  BY BarFields, WindowFollowsOpen DEF BarsOf
<1>6. /\ SignalOf(bars, bar, direction) \in OrbSignals
      /\ SignalOf(bars, bar, direction).signal_bar_start = bar.start
      /\ SignalOf(bars, bar, direction).direction = direction
  BY <1>4, <1>5 DEF SignalOf, OrbSignals
<1>7. QED
  BY <1>1, <1>2, <1>5, <1>6

-----------------------------------------------------------------------------
(* Where the two programs are in the stored bars.                          *)
InSession == turn # "session" /\ Midnight(day) <= cursor
Seen == {b \in today : b.start <= cursor}

InData ==
  /\ day \in 0 .. Days /\ cursor \in Int /\ cursor >= -1
  /\ turn \in {"session", "bar", "decide"}
  /\ turn = "session" => today = {} /\ cursor < Midnight(day)
  /\ turn # "session" =>
       /\ day < Days /\ today # {} /\ today \in StoredSessions(day) /\ ValidSession(today)
       /\ cursor < Midnight(day + 1)
       /\ Midnight(day) <= cursor => \E b \in today : b.start = cursor
  /\ turn = "decide" => Midnight(day) <= cursor
  /\ cursor = -1 \/ OnGrid(cursor)

LEMMA DaysIsNat == Days \in Nat
  BY ParityAssumption, Zenon

LEMMA DayIsInt ==
  ASSUME InData
  PROVE  day \in Int /\ day >= 0 /\ Days \in Nat /\ Midnight(day) \in Int /\ Midnight(day) >= 0
         /\ cursor \in Int
<1>1. day \in Int /\ day >= 0 /\ Days \in Nat
  BY DaysIsNat DEF InData
<1>2. QED
  BY <1>1, Midnights DEF InData

LEMMA StoredBars ==
  ASSUME NEW d \in 0 .. Days - 1, NEW bars \in StoredSessions(d), ValidSession(bars)
  PROVE  /\ BarsOf(d, bars)
         /\ \A b \in bars : /\ b.start \in Nat /\ OnGrid(b.start) /\ SessionDay(b.start) = d
                            /\ b.open \in Int
                            /\ Midnight(d) <= b.start /\ b.start < Midnight(d + 1)
                            /\ TimeOfDay(b.start) = b.start - Midnight(d)
                            /\ \A c \in bars : c.start = b.start => c = b
<1>1. d \in Int
  BY DaysIsNat
<1>2. BarsOf(d, bars)
  BY ParityAssumption DEF BarsOf
<1>3. ASSUME NEW b \in bars
      PROVE  /\ b.start \in Nat /\ SessionDay(b.start) = d /\ b.open \in Int
             /\ Midnight(d) <= b.start /\ b.start < Midnight(d + 1)
             /\ TimeOfDay(b.start) = b.start - Midnight(d)
  <2>1. b \in AnyBar /\ SessionDay(b.start) = d
    BY <1>2 DEF BarsOf
  <2>2. b.start \in Nat /\ b.open \in Int
    BY <2>1, BarFields
  <2>3. /\ Midnight(SessionDay(b.start)) <= b.start
        /\ b.start < Midnight(SessionDay(b.start)) + DayLength
        /\ TimeOfDay(b.start) = b.start - Midnight(SessionDay(b.start))
    BY <2>2, DayOfMoment
  <2>4. Midnight(d + 1) = Midnight(d) + DayLength
    BY <1>1, Midnights
  <2>5. QED
    BY <2>1, <2>2, <2>3, <2>4
<1>4. \A b \in bars : OnGrid(b.start) /\ \A c \in bars : c.start = b.start => c = b
  BY DEF ValidSession, OnGrid
<1>5. QED
  BY <1>2, <1>3, <1>4

LEMMA TodaysBars ==
  ASSUME InData, turn # "session"
  PROVE  /\ BarsOf(day, today) /\ day \in Int /\ day >= 0
         /\ \A b \in today : /\ b.start \in Nat /\ OnGrid(b.start) /\ SessionDay(b.start) = day
                             /\ b.open \in Int
                             /\ Midnight(day) <= b.start /\ b.start < Midnight(day + 1)
                             /\ TimeOfDay(b.start) = b.start - Midnight(day)
                             /\ \A c \in today : c.start = b.start => c = b
<1>1. day \in 0 .. Days - 1 /\ today \in StoredSessions(day) /\ ValidSession(today) /\ day \in Int /\ day >= 0
  BY DaysIsNat DEF InData
<1>2. QED
  BY <1>1, StoredBars

(* The bar both are given next.                                            *)
IsNext(bar) ==
  /\ bar \in today /\ cursor < bar.start
  /\ \A c \in today : c.start <= bar.start <=> (c.start <= cursor \/ c = bar)

LEMMA NextIsGiven ==
  ASSUME InData, GiveBar
  PROVE  \E bar \in today :
           /\ IsNext(bar) /\ cursor' = bar.start
           /\ \E minutes : /\ ReplayBar(bar, minutes) \/ ReplayOver
                           /\ EngineFills(bar, minutes) \/ EngineOver
<1> DEFINE bar == CHOOSE b \in Unread : \A c \in Unread : b.start <= c.start
           starts == {b.start : b \in Unread}
<1>1. /\ turn = "bar" /\ Unread # {} /\ cursor' = bar.start
      /\ \E minutes : (ReplayBar(bar, minutes) \/ ReplayOver) /\ (EngineFills(bar, minutes) \/ EngineOver)
  BY DEF GiveBar
<1>2. \A b \in today : b.start \in Nat /\ \A c \in today : c.start = b.start => c = b
  BY <1>1, TodaysBars
<1>3. cursor \in Int
  BY DEF InData
<1>4. \E b \in Unread : \A c \in Unread : b.start <= c.start
  <2>1. starts \in SUBSET Nat /\ starts # {}
    BY <1>1, <1>2 DEF Unread
  <2>2. PICK x \in starts : \A y \in starts : x <= y
    BY <2>1, LeastNatural
  <2>3. QED
    BY <2>2
<1>5. bar \in Unread /\ \A c \in Unread : bar.start <= c.start
  BY <1>4
<1> HIDE DEF bar
<1>6. IsNext(bar) /\ bar \in today
  <2>1. bar \in today /\ cursor < bar.start
    BY <1>2, <1>3, <1>5 DEF Unread
  <2>2. ASSUME NEW c \in today
        PROVE  c.start <= bar.start <=> (c.start <= cursor \/ c = bar)
    <3>1. c.start \in Nat /\ bar.start \in Nat /\ (c.start = bar.start => c = bar)
      BY <1>2, <2>1
    <3>2. c.start > cursor => bar.start <= c.start
      BY <1>5 DEF Unread
    <3>3. QED
      BY <1>3, <2>1, <3>1, <3>2
  <2>3. QED
    BY <2>1, <2>2 DEF IsNext
<1>7. QED
  BY <1>1, <1>6

LEMMA DecidedBar ==
  ASSUME InData, AskStrategy
  PROVE  \E bar \in today :
           /\ bar.start = cursor
           /\ bar = CHOOSE b \in today : b.start = cursor
<1>1. \E b \in today : b.start = cursor
  BY DEF InData, AskStrategy
<1>2. QED
  BY <1>1

LEMMA InDataInit == Init => InData
<1> SUFFICES ASSUME Init PROVE InData
  OBVIOUS
<1>1. Midnight(0) \in Int /\ Midnight(0) >= 0
  BY Midnights
<1>2. QED
  BY <1>1, DaysIsNat DEF Init, InData

LEMMA InDataStep == InData /\ [Next]_vars => InData'
<1> SUFFICES ASSUME InData, [Next]_vars PROVE InData'
  OBVIOUS
<1>1. /\ day \in Int /\ day >= 0 /\ Days \in Nat /\ Midnight(day) \in Int /\ Midnight(day + 1) \in Int
      /\ Midnight(day) <= Midnight(day + 1) /\ cursor \in Int /\ day + 1 \in Int
  <2>1. day \in Int /\ day + 1 \in Int /\ day <= day + 1
    BY DayIsInt
  <2>2. QED
    BY <2>1, DayIsInt, Midnights, MidnightsAscend
<1>2. CASE SkipDay
  BY <1>1, <1>2 DEF SkipDay, InData
<1>3. CASE StartSession
  <2>1. PICK bars \in StoredSessions(day) \ {{}} : ValidSession(bars) /\ today' = bars
    BY <1>3 DEF StartSession
  <2>2. /\ turn = "session" /\ day < Days /\ turn' = "bar" /\ day' = day /\ cursor' = cursor
    BY <1>3 DEF StartSession
  <2>3. QED
    BY <1>1, <2>1, <2>2 DEF InData, ValidSession
<1>4. CASE GiveBar
  <2>1. PICK bar \in today : IsNext(bar) /\ cursor' = bar.start
    BY <1>4, NextIsGiven
  <2>2. turn = "bar" /\ turn' = "decide" /\ day' = day /\ today' = today
    BY <1>4 DEF GiveBar
  <2>3. /\ bar.start \in Nat /\ OnGrid(bar.start) /\ Midnight(day) <= bar.start
        /\ bar.start < Midnight(day + 1)
    BY <2>2, TodaysBars
  <2>4. QED
    BY <1>1, <2>1, <2>2, <2>3 DEF InData, ValidSession, OnGrid
<1>5. CASE AskStrategy
  BY <1>5 DEF AskStrategy, InData, ValidSession
<1>6. CASE EndSession
  <2>1. turn = "bar" /\ turn' = "session" /\ day' = day + 1 /\ today' = {} /\ cursor' = cursor
    BY <1>6 DEF EndSession
  <2>2. QED
    BY <1>1, <2>1 DEF InData
<1>7. CASE MeasureRun
  BY <1>7 DEF MeasureRun, data_vars, InData, ValidSession
<1>8. CASE Finished
  BY <1>8 DEF Finished, vars, data_vars, InData, ValidSession
<1>9. CASE UNCHANGED vars
  BY <1>9 DEF vars, data_vars, InData, ValidSession
<1>10. QED
  BY <1>2, <1>3, <1>4, <1>5, <1>6, <1>7, <1>8, <1>9 DEF Next

-----------------------------------------------------------------------------
(* What a bar makes of the adapter, and of a position.                     *)
DueNow(bar) == working # None /\ bar.start >= EntryBarStart(orders[working].signal)
EntersNow(bar) == working # None /\ bar.start = EntryBarStart(orders[working].signal)
AwaitedIntent ==
  [signal |-> orders[working].signal, quantity |-> orders[working].quantity,
   entry_bar_start |-> EntryBarStart(orders[working].signal)]
Entered(intent, bar) == [intent |-> intent, entry |-> EntryFill(intent, bar)]
HeldNow(bar) == IF EntersNow(bar) THEN Entered(AwaitedIntent, bar) ELSE position

CannotBeWalked(on, bar, minutes) == ExitWalkRaises(on.intent, on.entry, bar, minutes)
ExitOn(on, bar, minutes) ==
  IF ResolveExit(on.intent, on.entry, bar, minutes).reason = "none" /\ HardExitDue(bar)
  THEN Resolved("time_exit", "unambiguous")
  ELSE ResolveExit(on.intent, on.entry, bar, minutes)
TradeOn(on, exit, bar) ==
  CloseTrade(on.intent.signal.direction, on.entry,
             ExitFill(on.intent, exit.reason, ExitReference(on.intent, on.entry, exit.reason, bar), bar),
             exit.ambiguity)

TakesEntry(bar) == EntersNow(bar) => Enterable(orders[working].signal.direction, bar)

RaisesOn(bar, minutes) ==
  ~TakesEntry(bar) \/ (HeldNow(bar) # None /\ CannotBeWalked(HeldNow(bar), bar, minutes))

OrdersMove(bar) ==
  /\ working' = IF DueNow(bar) THEN None ELSE working
  /\ IF DueNow(bar)
     THEN \E status \in {"filled", "expired"} : \E fill :
            orders' = [orders EXCEPT ![working] =
                         [signal |-> @.signal, quantity |-> @.quantity, status |-> status,
                          reasons |-> @.reasons, fill |-> fill]]
     ELSE orders' = orders

LedgerNow(bar) == IF EntersNow(bar) THEN AfterEntry(ledger, HeldNow(bar).entry) ELSE ledger
GoesOn(bar, minutes) ==
  \/ /\ HeldNow(bar) # None =>
          /\ ~CannotBeWalked(HeldNow(bar), bar, minutes)
          /\ ExitOn(HeldNow(bar), bar, minutes).reason = "none"
     /\ position' = HeldNow(bar) /\ trades' = trades
     /\ ledger' = LedgerNow(bar)
  \/ /\ HeldNow(bar) # None /\ ~CannotBeWalked(HeldNow(bar), bar, minutes)
     /\ LET exit == ExitOn(HeldNow(bar), bar, minutes)
        IN  /\ exit.reason # "none"
            /\ trades' = Append(trades, TradeOn(HeldNow(bar), exit, bar))
            /\ ledger' = AfterExit(LedgerNow(bar), TradeOn(HeldNow(bar), exit, bar))
     /\ position' = None

LEMMA SameEntry ==
  ASSUME NEW bar \in AnyBar
  PROVE  /\ Paper!EntryDue(bar) <=> DueNow(bar)
         /\ Paper!EntryBar(bar) <=> EntersNow(bar)
         /\ Paper!Held(bar) = HeldNow(bar)
         /\ EntersNow(bar) => Paper!FillOfEntry(bar) = HeldNow(bar).entry
         /\ Paper!EntryTaken(bar) <=> TakesEntry(bar)
<1>1. Paper!EntryDue(bar) <=> DueNow(bar)
  BY SameTimes DEF Paper!EntryDue, DueNow
<1>2. DueNow(bar) /\ bar.start = EntryBarStart(orders[working].signal) <=> EntersNow(bar)
  BY BarFields DEF DueNow, EntersNow
<1>3. Paper!EntryBar(bar) <=> EntersNow(bar)
  BY <1>1, <1>2, SameTimes DEF Paper!EntryBar
<1>4. Paper!IntentOf(orders[working]) = AwaitedIntent
  BY SameTimes DEF Paper!IntentOf, AwaitedIntent
<1>5. Paper!FillOfEntry(bar) = EntryFill(AwaitedIntent, bar)
  BY <1>4, SameFills DEF Paper!FillOfEntry
<1>6. Paper!EntryTaken(bar) <=> TakesEntry(bar)
  BY <1>3, SamePrices DEF Paper!EntryTaken, TakesEntry
<1>7. QED
  BY <1>1, <1>3, <1>4, <1>5, <1>6 DEF Paper!Held, HeldNow, Entered

LEMMA SameExit ==
  ASSUME NEW bar \in AnyBar, NEW minutes, flatten_pending = FALSE
  PROVE  /\ Paper!ExitRaises(bar, minutes) <=>
              HeldNow(bar) # None /\ CannotBeWalked(HeldNow(bar), bar, minutes)
         /\ Paper!ExitOf(bar, minutes) = ExitOn(HeldNow(bar), bar, minutes)
<1>1. Paper!Held(bar) = HeldNow(bar)
  BY SameEntry
<1>2. Paper!Protective(bar, minutes) = ResolveExit(HeldNow(bar).intent, HeldNow(bar).entry, bar, minutes)
  BY <1>1, SameExits DEF Paper!Protective
<1>3. Paper!ExitRaises(bar, minutes) <=>
        HeldNow(bar) # None /\ CannotBeWalked(HeldNow(bar), bar, minutes)
  BY <1>1, SameExits DEF Paper!ExitRaises, CannotBeWalked
<1>4. Paper!ExitOf(bar, minutes) = ExitOn(HeldNow(bar), bar, minutes)
  BY <1>2, SameTimes DEF Paper!ExitOf, ExitOn, Paper!Resolved, Resolved
<1>5. QED
  BY <1>3, <1>4

LEMMA SameStage ==
  ASSUME NEW bar \in AnyBar, Paper!EntryStage(bar)
  PROVE  OrdersMove(bar)
<1>1. (Paper!EntryDue(bar) <=> DueNow(bar)) /\ (Paper!EntryBar(bar) <=> EntersNow(bar))
  BY SameEntry
<1>2. EntersNow(bar) => DueNow(bar)
  BY <1>1 DEF Paper!EntryBar
<1>3. working' = IF DueNow(bar) THEN None ELSE working
  BY <1>1 DEF Paper!EntryStage
<1>4. CASE ~DueNow(bar)
  BY <1>1, <1>2, <1>3, <1>4 DEF Paper!EntryStage, OrdersMove
<1>5. CASE DueNow(bar)
  <2>1. PICK status \in {"filled", "expired"} : \E fill :
          orders' = [orders EXCEPT ![working] = Paper!Finished(@, status, fill)]
    BY <1>1, <1>5 DEF Paper!EntryStage
  <2>2. QED
    BY <1>3, <1>5, <2>1 DEF Paper!Finished, OrdersMove
<1>6. QED
  BY <1>4, <1>5

LEMMA AdapterBar ==
  ASSUME NEW bar \in AnyBar, NEW minutes, ReplayBar(bar, minutes), flatten_pending = FALSE
  PROVE  /\ Running /\ cancelled' = cancelled
         /\ \/ replay' = "off_grid" /\ trades' = trades /\ orders' = orders
            \/ /\ replay' = "raised" /\ RaisesOn(bar, minutes) /\ trades' = trades
               /\ orders' = orders \/ OrdersMove(bar)
            \/ /\ replay' = replay /\ ~OffGrid(bar)
               /\ missing' = missing \cup Skipped(bar) /\ expected' = BarEnd(bar)
               /\ session_bars' = SessionBarsWith(bar)
               /\ flatten_pending' = FALSE /\ last_bar_start' = bar.start
               /\ TakesEntry(bar) /\ OrdersMove(bar) /\ GoesOn(bar, minutes)
<1>1. Running /\ cancelled' = cancelled
  BY DEF ReplayBar
<1>2. /\ Paper!EntryBar(bar) <=> EntersNow(bar)
      /\ Paper!Held(bar) = HeldNow(bar)
      /\ EntersNow(bar) => Paper!FillOfEntry(bar) = HeldNow(bar).entry
  BY SameEntry
<1>3. Paper!LedgerIn(bar) = LedgerNow(bar)
  BY <1>2, SameBooks DEF Paper!LedgerIn, LedgerNow
<1>4. CASE replay' = "off_grid" /\ UNCHANGED paper_vars
  BY <1>1, <1>4 DEF paper_vars
<1>5. CASE Paper!OnBarEntryRaises(bar) /\ replay' = "raised"
  <2>1. ~TakesEntry(bar)
    BY <1>5, SameEntry DEF Paper!OnBarEntryRaises
  <2>2. trades' = trades /\ orders' = orders
    BY <1>5 DEF Paper!OnBarEntryRaises
  <2>3. QED
    BY <1>1, <1>5, <2>1, <2>2 DEF RaisesOn
<1>6. CASE Paper!OnBarExitRaises(bar, minutes) /\ replay' = "raised"
  <2>1. Paper!ExitRaises(bar, minutes)
    BY <1>6 DEF Paper!OnBarExitRaises
  <2>2. trades' = trades /\ OrdersMove(bar)
    BY <1>6, SameStage DEF Paper!OnBarExitRaises
  <2>3. QED
    BY <1>1, <1>6, <2>1, <2>2, SameExit DEF RaisesOn
<1>7. ASSUME ~OffGrid(bar), Paper!OnBarHolds(bar, minutes)
      PROVE  /\ flatten_pending' = FALSE /\ last_bar_start' = bar.start
             /\ TakesEntry(bar) /\ OrdersMove(bar) /\ GoesOn(bar, minutes)
  <2>0. TakesEntry(bar)
    BY <1>7, SameEntry DEF Paper!OnBarHolds
  <2>1. /\ flatten_pending' = FALSE /\ last_bar_start' = bar.start /\ Paper!EntryStage(bar)
        /\ position' = HeldNow(bar) /\ trades' = trades /\ ledger' = LedgerNow(bar)
    BY <1>2, <1>3, <1>7 DEF Paper!OnBarHolds, Paper!NextBar
  <2>2. HeldNow(bar) # None => ~Paper!ExitRaises(bar, minutes) /\ Paper!ExitOf(bar, minutes).reason = "none"
    BY <1>2, <1>7 DEF Paper!OnBarHolds
  <2>3. HeldNow(bar) # None => /\ ~CannotBeWalked(HeldNow(bar), bar, minutes)
                               /\ ExitOn(HeldNow(bar), bar, minutes).reason = "none"
    BY <2>2, SameExit
  <2>4. QED
    BY <2>0, <2>1, <2>3, SameStage DEF GoesOn
<1>8. ASSUME ~OffGrid(bar), Paper!OnBarCloses(bar, minutes)
      PROVE  /\ flatten_pending' = FALSE /\ last_bar_start' = bar.start
             /\ TakesEntry(bar) /\ OrdersMove(bar) /\ GoesOn(bar, minutes)
  <2> DEFINE exit == ExitOn(HeldNow(bar), bar, minutes)
  <2>0. TakesEntry(bar)
    BY <1>8, SameEntry DEF Paper!OnBarCloses
  <2>1. /\ flatten_pending' = FALSE /\ last_bar_start' = bar.start /\ Paper!EntryStage(bar)
        /\ HeldNow(bar) # None /\ ~Paper!ExitRaises(bar, minutes) /\ position' = None
    BY <1>2, <1>8 DEF Paper!OnBarCloses, Paper!NextBar
  <2>2. ~CannotBeWalked(HeldNow(bar), bar, minutes) /\ Paper!ExitOf(bar, minutes) = exit
    BY <2>1, SameExit
  <2>3. /\ exit.reason # "none"
        /\ trades' = Append(trades, TradeOn(HeldNow(bar), exit, bar))
        /\ ledger' = AfterExit(LedgerNow(bar), TradeOn(HeldNow(bar), exit, bar))
    <3> HIDE DEF exit
    <3>1. QED
      BY <1>2, <1>3, <1>8, <2>2, SameExits, SameFills, SameBooks DEF Paper!OnBarCloses, TradeOn
  <2>4. QED
    BY <2>0, <2>1, <2>2, <2>3, SameStage DEF GoesOn
<1>9. QED
  BY <1>1, <1>4, <1>5, <1>6, <1>7, <1>8 DEF ReplayBar

(* The adapter decides: it submits a valid entry or nothing at all.        *)
Submits(bar, signal, quantity) ==
  /\ working' = bar.start
  /\ orders' = [orders EXCEPT ![bar.start] =
                  [signal |-> signal, quantity |-> quantity, status |-> "accepted",
                   reasons |-> {}, fill |-> None]]
  /\ position' = position /\ ledger' = ledger /\ trades' = trades

DecidesOn(bar, atr, takes) ==
  IF Wants(bar, atr) /\ SizeOf(Decision(session_bars, bar, atr), bar) # 0 /\ takes
  THEN IF orders[bar.start] = None
       THEN /\ Submits(bar, Decision(session_bars, bar, atr),
                       SizeOf(Decision(session_bars, bar, atr), bar))
            /\ replay' = replay
       ELSE /\ replay' = "raised"
            /\ orders' = orders /\ working' = working /\ position' = position
            /\ ledger' = ledger /\ trades' = trades
  ELSE /\ orders' = orders /\ working' = working /\ position' = position
       /\ ledger' = ledger /\ trades' = trades /\ replay' = replay

LEMMA AdapterDecides ==
  ASSUME NEW bar \in AnyBar, NEW atr, NEW takes, Decide(bar, atr, takes),
         flatten_pending = FALSE, last_bar_start = bar.start
  PROVE  /\ Running /\ session_bars' = session_bars /\ expected' = expected
         /\ missing' = missing /\ cancelled' = cancelled
         /\ flatten_pending' = FALSE /\ last_bar_start' = bar.start
         /\ IF EvaluateRaises(session_bars, bar)
            THEN /\ replay' = "no_range" /\ orders' = orders /\ trades' = trades
            ELSE DecidesOn(bar, atr, takes)
<1> DEFINE signal == Decision(session_bars, bar, atr)
           quantity == SizeOf(signal, bar)
<1>1. /\ Running /\ session_bars' = session_bars /\ expected' = expected
      /\ missing' = missing /\ cancelled' = cancelled
  BY DEF Decide
<1>2. CASE /\ EvaluateRaises(session_bars, bar) /\ replay' = "no_range" /\ UNCHANGED paper_vars
  BY <1>1, <1>2 DEF paper_vars
<1>3. CASE /\ ~EvaluateRaises(session_bars, bar)
           /\ Wants(bar, atr) => quantity = 0 \/ ~takes
           /\ UNCHANGED <<paper_vars, replay>>
  BY <1>1, <1>3 DEF paper_vars, DecidesOn
<1>4. CASE /\ ~EvaluateRaises(session_bars, bar)
           /\ Wants(bar, atr) /\ quantity # 0 /\ takes
           /\ orders[bar.start] # None /\ replay' = "raised" /\ UNCHANGED paper_vars
  BY <1>1, <1>4 DEF paper_vars, DecidesOn
<1>5. CASE /\ ~EvaluateRaises(session_bars, bar)
           /\ Wants(bar, atr) /\ quantity # 0 /\ takes
           /\ orders[bar.start] = None
           /\ Paper!Submit(bar.start, signal, quantity) /\ UNCHANGED replay
  <2>1. signal # None /\ position = None /\ working = None
    BY <1>5 DEF Wants, Busy
  <2>2. signal.instrument_token = Instrument /\ signal.signal_bar_start = bar.start
    BY <2>1 DEF Decision, SignalOf
  <2>3. ~Paper!Active
    BY <2>1 DEF Paper!Active, Paper!IsFlat
  <2>4. ~Paper!AlreadyPassed(signal)
    <3>1. bar.start \in Nat /\ Interval \in Nat /\ Interval >= 1
      BY BarFields, IntervalIsPositive
    <3>2. Paper!EntryBarStart(signal) = bar.start + Interval
      BY <2>2, SameTimes DEF EntryBarStart
    <3>3. QED
      BY <3>1, <3>2 DEF Paper!AlreadyPassed
  <2> HIDE DEF signal, quantity
  <2>5. Paper!Reasons(signal, quantity) = {}
    BY <1>5, <2>2, <2>3, <2>4 DEF Paper!Reasons
  <2>6. /\ working' = bar.start
        /\ orders' = [orders EXCEPT ![bar.start] = Paper!Order(signal, quantity, "accepted", {})]
        /\ UNCHANGED <<position, flatten_pending, last_bar_start, ledger, trades, returned>>
    BY <1>5, <2>5 DEF Paper!Submit
  <2>7. Submits(bar, signal, quantity)
    BY <2>6 DEF Paper!Order, Submits
  <2>8. QED
    BY <1>1, <1>5, <2>6, <2>7 DEF DecidesOn, signal, quantity
<1>6. QED
  BY <1>2, <1>3, <1>4, <1>5 DEF Decide

(* The end of a session: what works is cancelled, what is held raises.     *)
LEMMA AdapterEnds ==
  ASSUME ReplayEndSession
  PROVE  /\ Running /\ session_bars' = session_bars /\ expected' = expected /\ missing' = missing
         /\ replay' = IF position = None THEN "running" ELSE "raised"
         /\ working' = None /\ position' = position /\ ledger' = ledger /\ trades' = trades
         /\ flatten_pending' = flatten_pending /\ last_bar_start' = last_bar_start
         /\ \/ orders' = orders
            \/ /\ working # None
               /\ orders' = [orders EXCEPT ![working] =
                               [signal |-> @.signal, quantity |-> @.quantity, status |-> "cancelled",
                                reasons |-> @.reasons, fill |-> None]]
<1>1. CASE working = None
  BY <1>1 DEF ReplayEndSession, paper_vars
<1>2. CASE working # None
  <2>1. Paper!Cancel(working)
    BY <1>2 DEF ReplayEndSession
  <2>2. QED
    BY <1>2, <2>1 DEF ReplayEndSession, Paper!Cancel, Paper!Finished
<1>3. QED
  BY <1>1, <1>2

-----------------------------------------------------------------------------
(* The adapter between two bars: what it has seen, what works, what is     *)
(* held and what has been traded.                                          *)
SeenInv ==
  Running =>
    /\ flatten_pending = FALSE /\ last_bar_start = cursor
    /\ IF InSession THEN session_bars = Seen
       ELSE \A b \in session_bars : b.start \in Nat /\ b.start < Midnight(day)

EntryTime(e) ==
  TimeOfDay(e) > SessionOpen + OpeningRangeMinutes /\ TimeOfDay(e) <= NoNewEntryAfter
HeldUntil(e, x) ==
  \A b \in today : e <= b.start /\ b.start < x => TimeOfDay(BarEnd(b)) < HardExitTime

WorkingInv ==
  Running /\ working # None =>
    /\ turn = "bar" /\ InSession /\ position = None
    /\ working = cursor /\ working \in BarStarts
    /\ orders[working].signal \in OrbSignals /\ orders[working].quantity \in Int
    /\ orders[working].signal.signal_bar_start = cursor
    /\ WindowOf(day) <= cursor
    /\ TimeOfDay(cursor + Interval) <= NoNewEntryAfter

(* A position that was entered today, in time, and could not be left yet.  *)
HeldToday(on) ==
  /\ on \in AnyPosition
  /\ on.intent.entry_bar_start = on.entry.bar_start
  /\ SessionDay(on.entry.bar_start) = day /\ EntryTime(on.entry.bar_start)

PositionInv ==
  Running /\ position # None =>
    /\ turn # "session" /\ HeldToday(position)
    /\ position.entry.bar_start <= cursor
    /\ HeldUntil(position.entry.bar_start, cursor + 1)

RoundTrip(trade) ==
  /\ SessionDay(trade.entry.bar_start) = SessionDay(trade.exit.bar_start)
  /\ EntryTime(trade.entry.bar_start)
  /\ trade.exit.bar_start <= cursor
  /\ HeldUntil(trade.entry.bar_start, trade.exit.bar_start)

TradesInv == trades \in Seq(AnyTrade) /\ \A i \in DOMAIN trades : RoundTrip(trades[i])

LedgerInv == Running => ledger \in AnyLedger

AdapterInv == SeenInv /\ WorkingInv /\ PositionInv /\ TradesInv /\ LedgerInv

-----------------------------------------------------------------------------
(* One bar given to both.                                                  *)
BarGoesOn(bar, minutes) ==
  /\ Running /\ Running' /\ ~OffGrid(bar)
  /\ missing' = missing \cup Skipped(bar) /\ expected' = BarEnd(bar)
  /\ session_bars' = SessionBarsWith(bar)
  /\ flatten_pending' = FALSE /\ last_bar_start' = bar.start
  /\ TakesEntry(bar) /\ OrdersMove(bar) /\ GoesOn(bar, minutes)

BarEnds(bar, minutes) ==
  /\ Running /\ ~Running' /\ trades' = trades /\ cancelled' = cancelled
  /\ orders' = orders \/ OrdersMove(bar)
  /\ replay' = "off_grid" \/ (replay' = "raised" /\ RaisesOn(bar, minutes))

Given(bar) ==
  /\ turn = "bar" /\ turn' = "decide"
  /\ bar \in today /\ IsNext(bar) /\ cursor' = bar.start
  /\ version' = version /\ day' = day /\ today' = today /\ past' = past
  /\ trading_sessions' = trading_sessions /\ declined' = declined

LEMMA GiveBarCases ==
  ASSUME InData, SeenInv, GiveBar
  PROVE  \E bar \in AnyBar : \E minutes :
           /\ Given(bar)
           /\ \/ ~Running /\ UNCHANGED replay_vars
              \/ BarEnds(bar, minutes)
              \/ BarGoesOn(bar, minutes)
           /\ EngineFills(bar, minutes) \/ EngineOver
<1>1. PICK bar \in today :
        /\ IsNext(bar) /\ cursor' = bar.start
        /\ \E minutes : /\ ReplayBar(bar, minutes) \/ ReplayOver
                        /\ EngineFills(bar, minutes) \/ EngineOver
  BY NextIsGiven
<1>2. PICK minutes : /\ ReplayBar(bar, minutes) \/ ReplayOver
                     /\ EngineFills(bar, minutes) \/ EngineOver
  BY <1>1
<1>3. turn = "bar" /\ turn' = "decide" /\ UNCHANGED <<version, day, today, past, trading_sessions, declined>>
  BY DEF GiveBar
<1>4. bar \in AnyBar
  BY <1>3, TodaysBars DEF BarsOf
<1>5. Given(bar)
  BY <1>1, <1>3 DEF Given
<1>6. CASE ReplayOver
  BY <1>2, <1>4, <1>5, <1>6 DEF ReplayOver
<1>7. CASE ReplayBar(bar, minutes)
  <2>1. Running
    BY <1>7 DEF ReplayBar
  <2>2. flatten_pending = FALSE
    BY <2>1 DEF SeenInv
  <2>3. BarEnds(bar, minutes) \/ BarGoesOn(bar, minutes)
    BY <1>4, <1>7, <2>2, AdapterBar DEF BarEnds, BarGoesOn, Running
  <2>4. QED
    BY <1>2, <1>4, <1>5, <2>3
<1>8. QED
  BY <1>2, <1>6, <1>7

(* The next bar of a session is after its opening, and a working order is  *)
(* due on it.                                                              *)
LEMMA GivenBar ==
  ASSUME InData, NEW bar, Given(bar)
  PROVE  /\ bar \in AnyBar /\ bar.start \in Nat /\ bar.open \in Int
         /\ SessionDay(bar.start) = day /\ TimeOfDay(bar.start) = bar.start - Midnight(day)
         /\ Midnight(day) <= bar.start /\ cursor < bar.start /\ cursor \in Int
         /\ Midnight(day) \in Int /\ OnGrid(bar.start)
         /\ Midnight(day) <= cursor => cursor + Interval <= bar.start
<1>1. /\ bar \in today /\ cursor < bar.start /\ turn # "session"
  BY DEF Given, IsNext
<1>2. /\ bar \in AnyBar /\ bar.start \in Nat /\ bar.open \in Int
      /\ SessionDay(bar.start) = day /\ TimeOfDay(bar.start) = bar.start - Midnight(day)
      /\ Midnight(day) <= bar.start /\ OnGrid(bar.start)
  BY <1>1, TodaysBars DEF BarsOf
<1>3. cursor \in Int /\ Midnight(day) \in Int /\ Midnight(day) >= 0
  BY DayIsInt
<1>4. Midnight(day) <= cursor => OnGrid(cursor)
  BY <1>3 DEF InData
<1>5. QED
  BY <1>1, <1>2, <1>3, <1>4, GridStep

LEMMA DueOrNotWorking ==
  ASSUME InData, WorkingInv, Running, NEW bar, Given(bar), working # None
  PROVE  /\ DueNow(bar)
         /\ AwaitedIntent \in AnyIntent
         /\ EntryBarStart(orders[working].signal) = cursor + Interval
<1>1. orders[working].signal \in OrbSignals /\ orders[working].quantity \in Int
      /\ orders[working].signal.signal_bar_start = cursor /\ Midnight(day) <= cursor
  BY DEF WorkingInv, InSession
<1>2. cursor + Interval <= bar.start /\ EntryBarStart(orders[working].signal) = cursor + Interval
  BY <1>1, GivenBar, SignalFields
<1>3. EntryBarStart(orders[working].signal) \in Int
  BY <1>1, SignalFields
<1>4. QED
  BY <1>1, <1>2, <1>3 DEF DueNow, AwaitedIntent, AnyIntent

LEMMA EnteredPosition ==
  ASSUME NEW i \in AnyIntent, NEW bar \in AnyBar
  PROVE  Entered(i, bar) \in AnyPosition /\ Entered(i, bar) # None
         /\ Entered(i, bar).intent = i /\ Entered(i, bar).entry = EntryFill(i, bar)
         /\ Entered(i, bar).entry.bar_start = bar.start
         /\ EntryFill(i, bar) \in AnyFill
<1>1. EntryFill(i, bar) \in AnyFill /\ EntryFill(i, bar).bar_start = bar.start
  BY EntryFilled
<1>2. QED
  BY <1>1, NoneAssumption DEF Entered, AnyPosition

(* What is held on a bar was entered today, and so far in vain.            *)
LEMMA HeldOnBar ==
  ASSUME InData, WorkingInv, PositionInv, Running, NEW bar, Given(bar), HeldNow(bar) # None
  PROVE  /\ HeldToday(HeldNow(bar))
         /\ HeldNow(bar).entry.bar_start <= bar.start
         /\ HeldUntil(HeldNow(bar).entry.bar_start, bar.start)
<1>1. CASE EntersNow(bar)
  <2>1. working # None /\ bar.start = EntryBarStart(orders[working].signal)
    BY <1>1 DEF EntersNow
  <2>2. /\ AwaitedIntent \in AnyIntent /\ bar.start = cursor + Interval
        /\ AwaitedIntent.entry_bar_start = bar.start
    BY <2>1, DueOrNotWorking DEF AwaitedIntent
  <2>3. /\ HeldNow(bar) = Entered(AwaitedIntent, bar) /\ HeldNow(bar) \in AnyPosition
        /\ HeldNow(bar).intent.entry_bar_start = bar.start /\ HeldNow(bar).entry.bar_start = bar.start
    BY <1>1, <2>2, EnteredPosition, GivenBar DEF HeldNow
  <2>4. EntryTime(bar.start)
    <3>1. WindowOf(day) <= cursor /\ TimeOfDay(bar.start) <= NoNewEntryAfter
      BY <2>1, <2>2 DEF WorkingInv
    <3>2. /\ TimeOfDay(bar.start) = bar.start - Midnight(day) /\ Midnight(day) \in Int /\ cursor \in Int
          /\ Interval \in Nat /\ Interval >= 1
      BY GivenBar, IntervalIsPositive
    <3>3. SessionOpen \in Nat /\ OpeningRangeMinutes \in Nat
      BY CalendarAssumption, StrategyAssumption
    <3>4. Midnight(day) + SessionOpen + OpeningRangeMinutes <= cursor
      BY <3>1 DEF WindowOf, OpenOf
    <3>5. TimeOfDay(bar.start) > SessionOpen + OpeningRangeMinutes
      BY <2>2, <3>2, <3>3, <3>4
    <3>6. QED
      BY <3>1, <3>5 DEF EntryTime
  <2>5. HeldUntil(bar.start, bar.start)
    <3>1. \A b \in today : b.start \in Nat
      BY TodaysBars DEF Given
    <3>2. bar.start \in Nat
      BY GivenBar
    <3>3. QED
      BY <3>1, <3>2 DEF HeldUntil
  <2>6. QED
    BY <2>3, <2>4, <2>5, GivenBar DEF HeldToday
<1>2. CASE ~EntersNow(bar)
  <2>1. HeldNow(bar) = position /\ position # None
    BY <1>2 DEF HeldNow
  <2>2. /\ HeldToday(position) /\ position.entry.bar_start <= cursor
        /\ HeldUntil(position.entry.bar_start, cursor + 1)
    BY <2>1 DEF PositionInv
  <2>3. position.entry.bar_start \in Int
    BY <2>2 DEF HeldToday, AnyPosition, AnyFill
  <2>4. HeldUntil(position.entry.bar_start, bar.start)
    <3>1. \A b \in today : b.start < bar.start => b.start <= cursor
      <4>1. \A b \in today : b.start \in Nat /\ (b.start <= bar.start <=> b.start <= cursor \/ b = bar)
        BY TodaysBars DEF Given, IsNext
      <4>2. bar.start \in Nat
        BY GivenBar
      <4>3. QED
        BY <4>1, <4>2
    <3>2. cursor \in Int /\ \A b \in today : b.start \in Nat
      BY GivenBar, TodaysBars DEF Given
    <3>3. QED
      BY <2>2, <3>1, <3>2 DEF HeldUntil
  <2>5. QED
    BY <2>1, <2>2, <2>3, <2>4, GivenBar
<1>3. QED
  BY <1>1, <1>2

-----------------------------------------------------------------------------
(* AdapterInv holds at the start and in every step.                        *)
LEMMA AdapterInit == Init => AdapterInv
<1> SUFFICES ASSUME Init PROVE AdapterInv
  OBVIOUS
<1>1. /\ orders = [id \in BarStarts |-> None] /\ working = None /\ position = None
      /\ flatten_pending = FALSE /\ last_bar_start = -1 /\ trades = <<>>
      /\ ledger = Funded(StartingCapital) /\ session_bars = {} /\ cursor = -1 /\ turn = "session"
  BY SameBooks DEF Init, ReplayInit, Paper!Init, Paper!NoBar
<1>2. ledger \in AnyLedger
  <2>1. StartingCapital \in Int
    BY ReplayAssumption
  <2>2. QED
    BY <1>1, <2>1 DEF Funded, AnyLedger
<1>3. trades \in Seq(AnyTrade) /\ DOMAIN trades = {}
  <2>1. <<>> \in Seq(AnyTrade) /\ DOMAIN <<>> = {}
    OBVIOUS
  <2>2. QED
    BY <1>1, <2>1
<1>4. SeenInv
  BY <1>1 DEF SeenInv, InSession
<1>5. QED
  BY <1>1, <1>2, <1>3, <1>4 DEF AdapterInv, WorkingInv, PositionInv, TradesInv, LedgerInv

LEMMA WorkingOnlyInABar ==
  ASSUME WorkingInv, Running, turn # "bar"
  PROVE  working = None
  BY DEF WorkingInv

LEMMA HeldOnlyInASession ==
  ASSUME PositionInv, Running, turn = "session"
  PROVE  position = None
  BY DEF PositionInv

(* Neither a day left out nor a session started touches the adapter.       *)
LEMMA NextDayAdapter ==
  ASSUME InData, InData', AdapterInv, turn = "session", Running' => Running,
         UNCHANGED <<paper_vars, session_bars, cursor>>,
         \/ turn' = "session" /\ day' = day + 1 /\ today' = {}
         \/ turn' = "bar" /\ day' = day /\ today' \in StoredSessions(day) /\ ValidSession(today') /\ day < Days
  PROVE  AdapterInv'
<1>1. /\ orders' = orders /\ working' = working /\ position' = position
      /\ flatten_pending' = flatten_pending /\ last_bar_start' = last_bar_start
      /\ ledger' = ledger /\ trades' = trades /\ session_bars' = session_bars /\ cursor' = cursor
  BY DEF paper_vars
<1>2. /\ day \in Int /\ Midnight(day) \in Int /\ Midnight(day + 1) \in Int /\ cursor \in Int
      /\ Midnight(day) <= Midnight(day + 1) /\ cursor < Midnight(day)
  <2>1. day \in Int /\ day + 1 \in Int /\ day <= day + 1 /\ cursor \in Int
    BY DayIsInt
  <2>2. QED
    BY <2>1, Midnights, MidnightsAscend DEF InData
<1>3. Running' => working = None /\ position = None
  BY WorkingOnlyInABar, HeldOnlyInASession DEF AdapterInv
<1>4. SeenInv'
  <2>1. Running' => /\ flatten_pending' = FALSE /\ last_bar_start' = cursor'
                    /\ \A b \in session_bars' : b.start \in Nat /\ b.start < Midnight(day)
    BY <1>1, <1>2 DEF AdapterInv, SeenInv, InSession
  <2>2. ~InSession'
    BY <1>1, <1>2 DEF InSession
  <2>3. Midnight(day') \in Int /\ Midnight(day) <= Midnight(day')
    BY <1>2
  <2>4. \A b \in session_bars' : b.start \in Nat /\ b.start < Midnight(day) => b.start < Midnight(day')
    BY <1>2, <2>3
  <2>5. QED
    BY <2>1, <2>2, <2>4 DEF SeenInv
<1>5. TradesInv'
  <2>1. trades' \in Seq(AnyTrade)
    BY <1>1 DEF AdapterInv, TradesInv
  <2>2. ASSUME NEW i \in DOMAIN trades PROVE RoundTrip(trades[i])'
    <3>1. RoundTrip(trades[i]) /\ trades[i] \in AnyTrade
      BY DEF AdapterInv, TradesInv
    <3>2. trades[i].entry.bar_start \in Int /\ trades[i].exit.bar_start \in Int
          /\ trades[i].exit.bar_start < Midnight(day)
      BY <1>2, <3>1 DEF AnyTrade, AnyFill, RoundTrip
    <3>3. \A b \in today' : b.start \in Nat /\ Midnight(day) <= b.start
      <4>1. CASE today' = {}
        BY <4>1
      <4>2. CASE today' \in StoredSessions(day) /\ ValidSession(today') /\ day < Days
        <5>1. day \in 0 .. Days - 1
          BY <4>2, DayIsInt
        <5>2. QED
          BY <4>2, <5>1, StoredBars
      <4>3. QED
        BY <4>1, <4>2
    <3>4. \A b \in today' : ~(b.start < trades[i].exit.bar_start)
      BY <1>2, <3>2, <3>3
    <3>5. QED
      BY <1>1, <3>1, <3>4 DEF RoundTrip, EntryTime, HeldUntil
  <2>3. QED
    BY <1>1, <2>1, <2>2 DEF TradesInv
<1>6. QED
  BY <1>1, <1>3, <1>4, <1>5 DEF AdapterInv, WorkingInv, PositionInv, LedgerInv

(* Nothing moves but, perhaps, what is held: the replay is over.           *)
LEMMA OverAdapter ==
  ASSUME InData, AdapterInv, ~Running', trades' = trades, today' = today \/ today' = {},
         cursor' \in Int, cursor <= cursor'
  PROVE  AdapterInv'
<1>1. TradesInv'
  <2>1. trades' \in Seq(AnyTrade)
    BY DEF AdapterInv, TradesInv
  <2>2. ASSUME NEW i \in DOMAIN trades PROVE RoundTrip(trades[i])'
    <3>1. RoundTrip(trades[i]) /\ trades[i] \in AnyTrade
      BY DEF AdapterInv, TradesInv
    <3>2. trades[i].exit.bar_start \in Int /\ cursor \in Int
      BY <3>1, DayIsInt DEF AnyTrade, AnyFill
    <3>3. trades[i].exit.bar_start <= cursor'
      BY <3>1, <3>2 DEF RoundTrip
    <3>4. QED
      BY <3>1, <3>3 DEF RoundTrip, EntryTime, HeldUntil
  <2>3. QED
    BY <2>1, <2>2 DEF TradesInv
<1>2. QED
  BY <1>1 DEF AdapterInv, SeenInv, WorkingInv, PositionInv, LedgerInv

(* Both programs make one trade of one position by one exit.               *)
LEMMA TradeMade ==
  ASSUME NEW on \in AnyPosition, NEW bar \in AnyBar, NEW minutes,
         ExitOn(on, bar, minutes).reason # "none"
  PROVE  LET trade == TradeOn(on, ExitOn(on, bar, minutes), bar)
         IN  /\ trade \in AnyTrade /\ trade.entry = on.entry
             /\ trade.exit.bar_start = bar.start
             /\ bar.start <= trade.exit.occurred_at
             /\ trade.exit.occurred_at <= bar.start + Interval
<1> DEFINE exit == ExitOn(on, bar, minutes)
           reference == ExitReference(on.intent, on.entry, exit.reason, bar)
           fill == ExitFill(on.intent, exit.reason, reference, bar)
<1>1. on.intent \in AnyIntent /\ on.entry \in AnyFill /\ on.intent.signal \in OrbSignals
  BY DEF AnyPosition, AnyIntent
<1>2. on.intent.signal.direction \in {"LONG", "SHORT"}
  BY <1>1, SignalFields
<1>3. exit.reason \in {"stop", "target", "time_exit"} /\ exit.ambiguity \in Ambiguities
  <2>1. LET resolved == ResolveExit(on.intent, on.entry, bar, minutes)
        IN  resolved.reason \in {"none", "stop", "target"} /\ resolved.ambiguity \in Ambiguities
    BY ExitKinds
  <2>2. \/ exit.reason = "time_exit" /\ exit.ambiguity = "unambiguous"
        \/ exit = ResolveExit(on.intent, on.entry, bar, minutes)
    BY DEF ExitOn, Resolved
  <2> HIDE DEF exit
  <2>3. exit.reason # "none"
    BY DEF exit
  <2>4. QED
    BY <2>1, <2>2, <2>3 DEF Ambiguities
<1> HIDE DEF exit
<1>4. reference \in Int
  BY <1>1, <1>3, ReferenceIsInt
<1> HIDE DEF reference
<1>5. /\ fill \in AnyFill /\ fill.bar_start = bar.start
      /\ bar.start <= fill.occurred_at /\ fill.occurred_at <= bar.start + Interval
  <2>1. exit.reason \in Reasons
    BY <1>3 DEF Reasons
  <2>2. QED
    BY <1>1, <1>4, <2>1, ExitFilled
<1> HIDE DEF fill
<1>6. TradeOn(on, exit, bar) = CloseTrade(on.intent.signal.direction, on.entry, fill, exit.ambiguity)
  BY DEF TradeOn, fill, reference
<1>7. QED
  BY <1>1, <1>2, <1>3, <1>5, <1>6, ClosedTrade DEF exit

LEMMA LedgerOnBar ==
  ASSUME InData, WorkingInv, LedgerInv, Running, NEW bar, Given(bar)
  PROVE  LedgerNow(bar) \in AnyLedger
<1>1. ledger \in AnyLedger
  BY DEF LedgerInv
<1>2. CASE EntersNow(bar)
  <2>1. AwaitedIntent \in AnyIntent /\ bar \in AnyBar
    BY <1>2, DueOrNotWorking, GivenBar DEF EntersNow
  <2>2. HeldNow(bar).entry \in AnyFill
    BY <1>2, <2>1, EnteredPosition DEF HeldNow
  <2>3. QED
    BY <1>1, <1>2, <2>2, LedgerMoves DEF LedgerNow
<1>3. QED
  BY <1>1, <1>2 DEF LedgerNow

LEMMA SeenOnBar ==
  ASSUME InData, AdapterInv, NEW bar, Given(bar), session_bars' = SessionBarsWith(bar), Running
  PROVE  session_bars' = Seen' /\ Seen' = Seen \cup {bar} /\ InSession'
<1>1. /\ bar \in today /\ SessionDay(bar.start) = day /\ Midnight(day) <= bar.start /\ turn # "session"
      /\ cursor < bar.start /\ cursor \in Int /\ bar.start \in Nat /\ day \in Int /\ Midnight(day) \in Int
  BY GivenBar, TodaysBars DEF Given
<1>2. Seen' = Seen \cup {bar}
  BY <1>1 DEF Given, IsNext, Seen
<1>3. \A b \in Seen : SessionDay(b.start) = day
  BY <1>1, TodaysBars DEF Seen
<1>4. ASSUME InSession PROVE session_bars' = Seen \cup {bar}
  <2>1. session_bars = Seen
    BY <1>4 DEF AdapterInv, SeenInv
  <2>2. {b \in Seen : SessionDay(b.start) = SessionDay(bar.start)} = Seen
    BY <1>1, <1>3
  <2>3. QED
    BY <2>1, <2>2 DEF SessionBarsWith
<1>5. ASSUME ~InSession PROVE session_bars' = Seen \cup {bar}
  <2>1. \A b \in session_bars : b.start \in Nat /\ b.start < Midnight(day)
    BY <1>5 DEF AdapterInv, SeenInv
  <2>2. \A b \in session_bars : SessionDay(b.start) # day
    <3>1. ASSUME NEW b \in session_bars, SessionDay(b.start) = day PROVE FALSE
      <4>1. Midnight(day) <= b.start
        BY <2>1, <3>1, DayOfMoment
      <4>2. QED
        BY <1>1, <2>1, <4>1
    <3>2. QED
      BY <3>1
  <2>3. Seen = {}
    <3>1. cursor < Midnight(day)
      BY <1>1, <1>5 DEF InSession
    <3>2. \A b \in today : Midnight(day) <= b.start /\ b.start \in Nat
      BY <1>1, TodaysBars
    <3>3. QED
      BY <1>1, <3>1, <3>2 DEF Seen
  <2>4. {b \in session_bars : SessionDay(b.start) = SessionDay(bar.start)} = {}
    BY <1>1, <2>2
  <2>5. QED
    BY <2>3, <2>4 DEF SessionBarsWith
<1>6. InSession'
  BY <1>1 DEF Given, InSession
<1>7. session_bars' = Seen'
  BY <1>1, <1>2, <1>4, <1>5
<1>8. QED
  BY <1>2, <1>6, <1>7

LEMMA BarAdapter ==
  ASSUME InData, AdapterInv, NEW bar, NEW minutes, Given(bar), BarGoesOn(bar, minutes)
  PROVE  AdapterInv'
<1>1. /\ InData /\ SeenInv /\ WorkingInv /\ PositionInv /\ TradesInv /\ LedgerInv /\ Running
      /\ bar \in AnyBar /\ bar.start \in Nat /\ cursor \in Int /\ cursor < bar.start
      /\ bar \in today /\ turn # "session"
  BY GivenBar DEF AdapterInv, BarGoesOn, Given
<1>2. \A b \in today : b.start \in Nat /\ (b.start < bar.start + 1 => b.start < bar.start \/ b = bar)
  <2>1. \A b \in today : b.start \in Nat /\ (b.start = bar.start => b = bar)
    BY <1>1, TodaysBars
  <2>2. QED
    BY <1>1, <2>1
<1>3. /\ cursor' = bar.start /\ today' = today /\ day' = day /\ turn' = "decide"
  BY DEF Given
<1>4. SeenInv'
  <2>1. session_bars' = Seen' /\ InSession'
    BY <1>1, SeenOnBar DEF BarGoesOn
  <2>2. QED
    BY <1>3, <2>1 DEF SeenInv, BarGoesOn
<1>5. working' = None
  <2>1. working # None => DueNow(bar)
    BY <1>1, DueOrNotWorking
  <2>2. QED
    BY <2>1 DEF BarGoesOn, OrdersMove
<1>6. LedgerNow(bar) \in AnyLedger
  BY <1>1, LedgerOnBar
<1>7. ASSUME NEW trade, RoundTrip(trade), trade \in AnyTrade PROVE RoundTrip(trade)'
  <2>1. trade.exit.bar_start \in Int
    BY <1>7 DEF AnyTrade, AnyFill
  <2>2. trade.exit.bar_start <= bar.start
    BY <1>1, <1>7, <2>1 DEF RoundTrip
  <2>3. QED
    BY <1>3, <1>7, <2>2 DEF RoundTrip, EntryTime, HeldUntil
<1>8. CASE /\ HeldNow(bar) # None =>
                /\ ~CannotBeWalked(HeldNow(bar), bar, minutes)
                /\ ExitOn(HeldNow(bar), bar, minutes).reason = "none"
           /\ position' = HeldNow(bar) /\ trades' = trades
           /\ ledger' = LedgerNow(bar)
  <2>1. PositionInv'
    <3> SUFFICES ASSUME position' # None PROVE PositionInv'
      BY DEF PositionInv
    <3>1. /\ HeldToday(HeldNow(bar)) /\ HeldNow(bar).entry.bar_start <= bar.start
          /\ HeldUntil(HeldNow(bar).entry.bar_start, bar.start)
      BY <1>1, <1>8, HeldOnBar
    <3>2. TimeOfDay(BarEnd(bar)) < HardExitTime
      <4>1. ~HardExitDue(bar)
        BY <1>8 DEF ExitOn, Resolved
      <4>2. TimeOfDay(BarEnd(bar)) \in Int /\ HardExitTime \in Int
        <5>1. DayLength \in Nat \ {0} /\ HardExitTime \in Int /\ BarEnd(bar) \in Int
          BY <1>1, BarFields, ExecutionAssumption
        <5>2. QED
          BY <5>1 DEF TimeOfDay
      <4>3. QED
        BY <4>1, <4>2 DEF HardExitDue
    <3>3. HeldUntil(HeldNow(bar).entry.bar_start, bar.start + 1)
      BY <1>2, <3>1, <3>2 DEF HeldUntil
    <3>4. QED
      BY <1>3, <1>8, <3>1, <3>3 DEF PositionInv, HeldToday, EntryTime, HeldUntil
  <2>2. TradesInv'
    BY <1>1, <1>7, <1>8 DEF TradesInv
  <2>3. QED
    BY <1>4, <1>5, <1>6, <1>8, <2>1, <2>2 DEF AdapterInv, WorkingInv, LedgerInv
<1>9. CASE /\ HeldNow(bar) # None /\ ~CannotBeWalked(HeldNow(bar), bar, minutes)
           /\ LET exit == ExitOn(HeldNow(bar), bar, minutes)
              IN  /\ exit.reason # "none"
                  /\ trades' = Append(trades, TradeOn(HeldNow(bar), exit, bar))
                  /\ ledger' = AfterExit(LedgerNow(bar), TradeOn(HeldNow(bar), exit, bar))
           /\ position' = None
  <2>0. PICK trade : trade = TradeOn(HeldNow(bar), ExitOn(HeldNow(bar), bar, minutes), bar)
    OBVIOUS
  <2>1. /\ HeldToday(HeldNow(bar)) /\ HeldNow(bar).entry.bar_start <= bar.start
        /\ HeldUntil(HeldNow(bar).entry.bar_start, bar.start)
    BY <1>1, <1>9, HeldOnBar
  <2>2. trade \in AnyTrade /\ trade.entry = HeldNow(bar).entry /\ trade.exit.bar_start = bar.start
    BY <1>1, <1>9, <2>0, <2>1, TradeMade DEF HeldToday
  <2>3. trades' = Append(trades, trade) /\ ledger' = AfterExit(LedgerNow(bar), trade) /\ position' = None
    BY <1>9, <2>0
  <2>4. SessionDay(bar.start) = day
    BY GivenBar
  <2>5. RoundTrip(trade)'
    BY <1>3, <2>1, <2>2, <2>4, <1>1 DEF RoundTrip, HeldToday, EntryTime, HeldUntil
  <2>6. TradesInv'
    <3>1. /\ trades \in Seq(AnyTrade) /\ \A i \in DOMAIN trades : RoundTrip(trades[i]) /\ trades[i] \in AnyTrade
      BY <1>1 DEF TradesInv
    <3>2. /\ trades' \in Seq(AnyTrade)
          /\ \A i \in DOMAIN trades' : (i \in DOMAIN trades /\ trades'[i] = trades[i]) \/ trades'[i] = trade
      BY <2>2, <2>3, <3>1
    <3>3. ASSUME NEW i \in DOMAIN trades' PROVE RoundTrip(trades[i])'
      <4>1. PICK made : made = trades'[i] /\ RoundTrip(made)'
        <5>1. CASE i \in DOMAIN trades /\ trades'[i] = trades[i]
          BY <1>7, <3>1, <5>1
        <5>2. CASE trades'[i] = trade
          BY <2>5, <5>2
        <5>3. QED
          BY <3>2, <5>1, <5>2
      <4>2. QED
        BY <4>1 DEF RoundTrip, EntryTime, HeldUntil
    <3>4. QED
      BY <3>2, <3>3 DEF TradesInv
  <2>7. ledger' \in AnyLedger
    BY <1>6, <2>2, <2>3, LedgerMoves
  <2>8. QED
    BY <1>4, <1>5, <2>3, <2>6, <2>7 DEF AdapterInv, WorkingInv, PositionInv, LedgerInv
<1>10. QED
  BY <1>8, <1>9 DEF BarGoesOn, GoesOn

(* One decision asked of both.                                             *)
Asked(bar) ==
  /\ turn = "decide" /\ turn' = "bar" /\ InSession
  /\ bar \in today /\ bar.start = cursor
  /\ version' = version /\ day' = day /\ today' = today /\ cursor' = cursor /\ past' = past
  /\ trading_sessions' = trading_sessions

DecisionGoesOn(bar, takes) ==
  /\ Running /\ session_bars = Seen
  /\ session_bars' = session_bars /\ expected' = expected /\ missing' = missing
  /\ flatten_pending' = FALSE /\ last_bar_start' = bar.start
  /\ IF EvaluateRaises(session_bars, bar)
     THEN replay' = "no_range" /\ orders' = orders /\ trades' = trades
     ELSE DecidesOn(bar, prior_atr, takes)

LEMMA AskCases ==
  ASSUME InData, SeenInv, AskStrategy
  PROVE  \E bar \in AnyBar : \E takes \in BOOLEAN :
           /\ Asked(bar)
           /\ \/ ~Running /\ UNCHANGED replay_vars
              \/ DecisionGoesOn(bar, takes)
           /\ EngineDecides(today, bar, prior_atr, takes) \/ EngineOver
           /\ declined' <=> \/ declined
                            \/ /\ Running /\ ~EvaluateRaises(session_bars, bar)
                               /\ Wants(bar, prior_atr)
                               /\ SizeOf(Decision(session_bars, bar, prior_atr), bar) = 0
<1>1. PICK bar \in today : bar.start = cursor /\ bar = CHOOSE b \in today : b.start = cursor
  BY DecidedBar
<1>2. PICK takes \in BOOLEAN :
        /\ Decide(bar, prior_atr, takes) \/ ReplayOver
        /\ EngineDecides(today, bar, prior_atr, takes) \/ EngineOver
  BY <1>1 DEF AskStrategy, Takes
<1>3. /\ turn = "decide" /\ turn' = "bar" /\ UNCHANGED <<version, day, today, cursor, past, trading_sessions>>
      /\ declined' = \/ declined
                     \/ /\ Running /\ ~EvaluateRaises(session_bars, bar)
                        /\ Wants(bar, prior_atr)
                        /\ SizeOf(Decision(session_bars, bar, prior_atr), bar) = 0
  BY <1>1 DEF AskStrategy
<1>4. bar \in AnyBar /\ InSession
  BY <1>1, <1>3, TodaysBars DEF BarsOf, InData, InSession
<1>5. Asked(bar)
  BY <1>1, <1>3, <1>4 DEF Asked
<1>6. CASE ReplayOver
  BY <1>2, <1>3, <1>4, <1>5, <1>6 DEF ReplayOver
<1>7. CASE Decide(bar, prior_atr, takes)
  <2>1. Running
    BY <1>7 DEF Decide
  <2>2. flatten_pending = FALSE /\ last_bar_start = bar.start /\ session_bars = Seen
    BY <1>1, <1>4, <2>1 DEF SeenInv
  <2>3. DecisionGoesOn(bar, takes)
    BY <1>4, <1>7, <2>1, <2>2, AdapterDecides DEF DecisionGoesOn
  <2>4. QED
    BY <1>2, <1>3, <1>4, <1>5, <2>3
<1>8. QED
  BY <1>2, <1>6, <1>7

(* What a session that decides to enter submits.                           *)
LEMMA SubmittedEntry ==
  ASSUME InData, LedgerInv, Running, NEW bar, Asked(bar), session_bars = Seen,
         ~EvaluateRaises(session_bars, bar), Decision(session_bars, bar, prior_atr) # None
  PROVE  LET signal == Decision(session_bars, bar, prior_atr)
         IN  /\ signal \in OrbSignals /\ signal.signal_bar_start = cursor
             /\ signal.direction \in {"LONG", "SHORT"}
             /\ SizeOf(signal, bar) \in Int
             /\ Fires(Seen, bar, signal.direction, prior_atr)
             /\ WindowOf(day) <= cursor /\ cursor \in BarStarts
             /\ TimeOfDay(cursor + Interval) <= NoNewEntryAfter
<1> DEFINE signal == Decision(session_bars, bar, prior_atr)
<1>1. BarsOf(day, today) /\ day \in Int /\ bar \in today /\ bar \in Seen /\ bar.start = cursor
      /\ cursor \in Int
  BY TodaysBars, DayIsInt DEF Asked, Seen
<1>2. BarsOf(day, Seen)
  BY <1>1, FS_Subset DEF BarsOf, Seen
<1>3. /\ signal \in OrbSignals /\ signal.signal_bar_start = bar.start
      /\ signal.direction \in {"LONG", "SHORT"}
      /\ Fires(Seen, bar, signal.direction, prior_atr) /\ WindowOf(day) <= bar.start
  BY <1>1, <1>2, DecidedSignal
<1> HIDE DEF signal
<1>4. bar \in AnyBar /\ bar.start \in BarStarts /\ bar.close \in Int /\ BarEnd(bar) = cursor + Interval
  BY <1>1, BarFields DEF BarsOf
<1>5. TimeOfDay(cursor + Interval) <= NoNewEntryAfter
  <2>1. ~TooLate(bar)
    BY <1>3 DEF Fires, Rejects
  <2>2. TimeOfDay(cursor + Interval) \in Int /\ NoNewEntryAfter \in Int
    <3>1. DayLength \in Nat \ {0} /\ NoNewEntryAfter \in Int /\ cursor + Interval \in Int
      BY <1>1, IntervalIsPositive, ExecutionAssumption, StrategyAssumption
    <3>2. QED
      BY <3>1 DEF TimeOfDay
  <2>3. QED
    BY <1>4, <2>1, <2>2 DEF TooLate
<1>6. SizeOf(signal, bar) \in Int
  <2>1. ledger.cash \in Int /\ signal.stop_price \in Int /\ IsLong(signal.direction) \in BOOLEAN
    BY <1>3, SignalFields DEF LedgerInv, AnyLedger, IsLong
  <2>2. QED
    BY <1>4, <2>1, SizeIsInt DEF SizeOf
<1>7. QED
  BY <1>1, <1>3, <1>4, <1>5, <1>6 DEF signal

LEMMA AskAdapter ==
  ASSUME InData, AdapterInv, DOMAIN orders = BarStarts, NEW bar, NEW takes, Asked(bar),
         DecisionGoesOn(bar, takes), Running'
  PROVE  AdapterInv'
<1>1. /\ Running /\ SeenInv /\ WorkingInv /\ PositionInv /\ TradesInv /\ LedgerInv
      /\ session_bars = Seen /\ working = None
  BY WorkingOnlyInABar DEF AdapterInv, DecisionGoesOn, Asked
<1>2. ~EvaluateRaises(session_bars, bar) /\ DecidesOn(bar, prior_atr, takes)
  BY DEF DecisionGoesOn, Running
<1>3. /\ position' = position /\ ledger' = ledger /\ trades' = trades
  BY <1>2 DEF DecidesOn, Submits
<1>4. day' = day /\ today' = today /\ cursor' = cursor /\ turn = "decide" /\ turn' = "bar" /\ InSession
      /\ bar.start = cursor
  BY DEF Asked
<1>5. SeenInv'
  BY <1>1, <1>4 DEF SeenInv, DecisionGoesOn, InSession, Seen
<1>6. PositionInv'
  BY <1>1, <1>3, <1>4 DEF PositionInv, HeldToday, EntryTime, HeldUntil
<1>7. TradesInv'
  BY <1>1, <1>3, <1>4 DEF TradesInv, RoundTrip, EntryTime, HeldUntil
<1>8. WorkingInv'
  <2>1. CASE working' = None
    BY <2>1 DEF WorkingInv
  <2>2. CASE working' # None
    <3> DEFINE signal == Decision(session_bars, bar, prior_atr)
               quantity == SizeOf(signal, bar)
    <3>1. Wants(bar, prior_atr) /\ Submits(bar, signal, quantity)
      BY <1>1, <1>2, <2>2 DEF DecidesOn, Running
    <3>2. signal # None /\ position = None
      BY <3>1 DEF Wants, Busy
    <3>3. /\ signal \in OrbSignals /\ signal.signal_bar_start = cursor /\ quantity \in Int
          /\ WindowOf(day) <= cursor /\ cursor \in BarStarts
          /\ TimeOfDay(cursor + Interval) <= NoNewEntryAfter
      BY <1>1, <1>2, <3>2, SubmittedEntry
    <3> HIDE DEF signal, quantity
    <3>4. /\ working' = cursor
          /\ orders'[cursor].signal = signal /\ orders'[cursor].quantity = quantity
      BY <1>4, <3>1, <3>3 DEF Submits
    <3>5. WindowOf(day)' = WindowOf(day) /\ InSession'
      BY <1>4 DEF WindowOf, OpenOf, Midnight, InSession
    <3>6. QED
      BY <1>3, <1>4, <3>2, <3>3, <3>4, <3>5 DEF WorkingInv
  <2>3. QED
    BY <2>1, <2>2
<1>9. QED
  BY <1>1, <1>3, <1>5, <1>6, <1>7, <1>8 DEF AdapterInv, LedgerInv

LEMMA EndAdapter ==
  ASSUME InData, AdapterInv, ReplayEndSession, turn = "bar", turn' = "session", day' = day + 1,
         cursor' = cursor, today' = {}, Running'
  PROVE  AdapterInv'
<1>1. /\ Running /\ SeenInv /\ WorkingInv /\ PositionInv /\ TradesInv /\ LedgerInv
  BY AdapterEnds DEF AdapterInv
<1>2. /\ session_bars' = session_bars /\ working' = None /\ position' = position /\ position = None
      /\ ledger' = ledger /\ trades' = trades /\ flatten_pending' = flatten_pending
      /\ last_bar_start' = last_bar_start
  BY AdapterEnds DEF Running
<1>3. /\ day \in Int /\ Midnight(day) \in Int /\ Midnight(day + 1) \in Int /\ cursor \in Int
      /\ Midnight(day) <= Midnight(day + 1) /\ cursor < Midnight(day + 1)
  <2>1. day \in Int /\ day + 1 \in Int /\ day <= day + 1 /\ cursor \in Int
    BY DayIsInt
  <2>2. QED
    BY <2>1, Midnights, MidnightsAscend DEF InData
<1>4. SeenInv'
  <2>1. ASSUME NEW b \in session_bars PROVE b.start \in Nat /\ b.start < Midnight(day + 1)
    <3>1. CASE InSession
      <4>1. b \in Seen
        BY <1>1, <3>1 DEF SeenInv
      <4>2. QED
        BY <4>1, TodaysBars DEF Seen
    <3>2. CASE ~InSession
      <4>1. b.start \in Nat /\ b.start < Midnight(day)
        BY <1>1, <3>2 DEF SeenInv
      <4>2. QED
        BY <1>3, <4>1
    <3>3. QED
      BY <3>1, <3>2
  <2>2. ~InSession'
    BY DEF InSession
  <2>3. Midnight(day') = Midnight(day + 1)
    OBVIOUS
  <2>4. flatten_pending' = FALSE /\ last_bar_start' = cursor'
    BY <1>1, <1>2 DEF SeenInv
  <2>5. \A b \in session_bars' : b.start \in Nat /\ b.start < Midnight(day')
    BY <1>2, <2>1, <2>3
  <2>6. QED
    BY <2>2, <2>4, <2>5 DEF SeenInv
<1>5. TradesInv'
  BY <1>1, <1>2 DEF TradesInv, RoundTrip, EntryTime, HeldUntil
<1>6. QED
  BY <1>1, <1>2, <1>4, <1>5 DEF AdapterInv, WorkingInv, PositionInv, LedgerInv

-----------------------------------------------------------------------------
(* The order book: what has an order has fired in its session, and a       *)
(* direction fires once.                                                   *)
Known(id) == orders[id] # None \/ (Running /\ working = id)

Fired(id, direction) ==
  \A S, atr : S = Seen /\ atr = prior_atr =>
    \E b \in S : /\ b.start = id /\ BreaksOut(S, b, direction)
                 /\ ~Rejects(S, b, direction, atr)

FiredToday(id) ==
  \A direction :
    /\ orders[id].signal.direction = direction
    /\ Running /\ turn # "session" /\ SessionDay(id) = day
    => Fired(id, direction)

OrdersInv ==
  /\ DOMAIN orders = BarStarts
  /\ \A id \in BarStarts : Known(id) =>
       /\ orders[id].status # "rejected"
       /\ id <= cursor /\ (Running /\ turn = "decide" => id # cursor)
       /\ FiredToday(id)
  /\ \A i, j \in BarStarts :
       /\ Known(i) /\ Known(j) /\ SessionDay(i) = SessionDay(j)
       /\ orders[i].signal.direction = orders[j].signal.direction
       => i = j

LEMMA RejectsKept ==
  ASSUME version' = version
  PROVE  \A S, b, direction, atr : Rejects(S, b, direction, atr)' <=> Rejects(S, b, direction, atr)
  BY DEF Rejects, TooWide

(* A step that submits nothing keeps the order book.                       *)
LEMMA OrdersKept ==
  ASSUME InData, OrdersInv, cursor' \in Int, cursor <= cursor', DOMAIN orders' = BarStarts,
         \A id \in BarStarts : Known(id)' =>
           /\ Known(id) /\ orders'[id].signal = orders[id].signal
           /\ orders'[id].status # "rejected"
           /\ Running' /\ turn' = "decide" => id # cursor'
           /\ FiredToday(id)'
  PROVE  OrdersInv'
<1>1. ASSUME NEW id \in BarStarts, Known(id)' PROVE id <= cursor'
  <2>1. id \in Int /\ cursor \in Int
    BY DayIsInt, ReplayAssumption
  <2>2. id <= cursor
    BY <1>1 DEF OrdersInv
  <2>3. QED
    BY <2>1, <2>2
<1>2. ASSUME NEW id \in BarStarts, Known(id)'
      PROVE  /\ orders'[id].status # "rejected"
             /\ id <= cursor' /\ (Running' /\ turn' = "decide" => id # cursor')
             /\ FiredToday(id)'
  BY <1>1, <1>2
<1>3. ASSUME NEW i \in BarStarts, NEW j \in BarStarts, Known(i)', Known(j)',
             SessionDay(i) = SessionDay(j),
             orders'[i].signal.direction = orders'[j].signal.direction
      PROVE  i = j
  BY <1>3 DEF OrdersInv
<1>4. QED
  BY <1>2, <1>3 DEF OrdersInv

(* What leaves the orders alone knows no new one.                          *)
LEMMA SameOrders ==
  ASSUME OrdersInv, orders' = orders, Running' => Running /\ working' \in {working, None}
  PROVE  /\ DOMAIN orders' = BarStarts
         /\ \A id \in BarStarts : Known(id)' =>
              /\ Known(id) /\ orders'[id].signal = orders[id].signal
              /\ orders'[id].status # "rejected"
<1>1. None \notin BarStarts
  BY NoneAssumption
<1>2. ASSUME NEW id \in BarStarts, Known(id)' PROVE Known(id)
  BY <1>1, <1>2 DEF Known
<1>3. QED
  BY <1>2 DEF OrdersInv

(* What executes, expires or is cancelled was known.                       *)
LEMMA MovedOrders ==
  ASSUME OrdersInv, Running, working # None, working' \in {working, None},
         NEW status \in {"filled", "expired", "cancelled"}, NEW fill,
         orders' = [orders EXCEPT ![working] =
                      [signal |-> @.signal, quantity |-> @.quantity, status |-> status,
                       reasons |-> @.reasons, fill |-> fill]]
  PROVE  /\ DOMAIN orders' = BarStarts
         /\ \A id \in BarStarts : Known(id)' =>
              /\ Known(id) /\ orders'[id].signal = orders[id].signal
              /\ orders'[id].status # "rejected"
<1>1. None \notin BarStarts /\ DOMAIN orders' = DOMAIN orders /\ DOMAIN orders = BarStarts
  BY NoneAssumption DEF OrdersInv
<1>2. ASSUME NEW id \in BarStarts, id # working, Known(id)'
      PROVE  Known(id) /\ orders'[id] = orders[id]
  <2>1. orders'[id] = orders[id] /\ working' # id
    BY <1>1, <1>2
  <2>2. QED
    BY <1>2, <2>1 DEF Known
<1>3. ASSUME NEW id \in BarStarts, id = working
      PROVE  /\ Known(id) /\ orders'[id].signal = orders[id].signal
             /\ orders'[id].status # "rejected"
  BY <1>1, <1>3 DEF Known
<1>4. QED
  BY <1>1, <1>2, <1>3 DEF OrdersInv

LEMMA KnownBeforeToday ==
  ASSUME InData, OrdersInv, turn = "session", NEW id \in BarStarts, Known(id)
  PROVE  SessionDay(id) # day
<1>1. id <= cursor /\ cursor < Midnight(day) /\ id \in Nat /\ cursor \in Int /\ Midnight(day) \in Int
  BY DayIsInt, ReplayAssumption DEF OrdersInv, InData
<1>2. Midnight(SessionDay(id)) <= id
  BY <1>1, DayOfMoment
<1>3. QED
  BY <1>1, <1>2

(* What has fired has fired, one bar later as well.                        *)
LEMMA FiredIsKept ==
  ASSUME InData, turn # "session", turn' # "session", version' = version, past' = past,
         day' = day, today' = today, cursor' \in Int, cursor <= cursor',
         NEW id, NEW direction, Fired(id, direction)
  PROVE  Fired(id, direction)'
<1>1. PICK S : S = Seen
  OBVIOUS
<1>2. PICK T : T = Seen'
  OBVIOUS
<1>3. PICK atr : atr = prior_atr
  OBVIOUS
<1>4. PICK b \in S : b.start = id /\ BreaksOut(S, b, direction) /\ ~Rejects(S, b, direction, atr)
  BY <1>1, <1>3 DEF Fired
<1>5. S = {c \in today : c.start <= cursor} /\ T = {c \in today : c.start <= cursor'}
  BY <1>1, <1>2 DEF Seen
<1>6. /\ BarsOf(day, today) /\ day \in Int /\ cursor \in Int /\ \A c \in today : c.start \in Nat
  BY DayIsInt, TodaysBars
<1>7. b \in today /\ b.start <= cursor /\ b.start \in Nat /\ b \in T
  BY <1>4, <1>5, <1>6
<1>8. WindowOf(day) <= b.start /\ WindowOf(day) \in Int
  BY <1>4, <1>6, <1>7, WindowOfBar, WindowFollowsOpen DEF BreaksOut, BarsOf
<1>9. WindowOf(day) <= cursor /\ WindowOf(day) <= cursor'
  BY <1>6, <1>7, <1>8
<1>10. OpeningBars(S) = OpeningBars(T)
  BY <1>5, <1>6, <1>9, RangeIsKept
<1>11. BreaksOut(T, b, direction) /\ ~Rejects(T, b, direction, atr)
  BY <1>4, <1>10, SameRange
<1>12. BreaksOut(T, b, direction)' /\ ~Rejects(T, b, direction, atr)'
  BY <1>11, RejectsKept DEF BreaksOut
<1>13. atr = prior_atr'
  BY <1>3 DEF prior_atr
<1>14. QED
  BY <1>2, <1>4, <1>7, <1>12, <1>13 DEF Fired

LEMMA FiredTodayIsKept ==
  ASSUME InData, OrdersInv, turn # "session", turn' # "session", version' = version, past' = past,
         day' = day, today' = today, cursor' \in Int, cursor <= cursor', Running' => Running,
         NEW id \in BarStarts, Known(id), orders'[id].signal = orders[id].signal
  PROVE  FiredToday(id)'
<1>1. FiredToday(id)
  BY DEF OrdersInv
<1>2. ASSUME NEW direction, orders'[id].signal.direction = direction, Running', SessionDay(id) = day
      PROVE  Fired(id, direction)'
  <2>1. Fired(id, direction)
    BY <1>1, <1>2 DEF FiredToday
  <2>2. QED
    BY <2>1, FiredIsKept
<1>3. QED
  BY <1>2 DEF FiredToday

LEMMA NextDayOrders ==
  ASSUME InData, OrdersInv, turn = "session", turn' = "session" \/ day' = day, turn' # "decide",
         orders' = orders, working' = working, cursor' = cursor, Running' => Running
  PROVE  OrdersInv'
<1>1. /\ DOMAIN orders' = BarStarts
      /\ \A id \in BarStarts : Known(id)' =>
           /\ Known(id) /\ orders'[id].signal = orders[id].signal
           /\ orders'[id].status # "rejected"
  BY SameOrders
<1>2. ASSUME NEW id \in BarStarts, Known(id) PROVE FiredToday(id)'
  BY <1>2, KnownBeforeToday DEF FiredToday
<1>3. cursor' \in Int /\ cursor <= cursor'
  BY DayIsInt
<1>4. QED
  BY <1>1, <1>2, <1>3, OrdersKept

LEMMA GivenOrders ==
  ASSUME InData, WorkingInv, OrdersInv, NEW bar, Given(bar), Running' => Running,
         \/ orders' = orders /\ ~Running'
         \/ Running /\ OrdersMove(bar)
  PROVE  OrdersInv'
<1>1. /\ DOMAIN orders' = BarStarts
      /\ \A id \in BarStarts : Known(id)' =>
           /\ Known(id) /\ orders'[id].signal = orders[id].signal
           /\ orders'[id].status # "rejected"
  <2>1. CASE orders' = orders /\ (Running' => working' = working)
    BY <2>1, SameOrders
  <2>2. CASE Running /\ OrdersMove(bar) /\ DueNow(bar)
    <3>1. working # None /\ working' = None
      BY <2>2 DEF DueNow, OrdersMove
    <3>2. PICK status \in {"filled", "expired"} : \E fill :
            orders' = [orders EXCEPT ![working] =
                         [signal |-> @.signal, quantity |-> @.quantity, status |-> status,
                          reasons |-> @.reasons, fill |-> fill]]
      BY <2>2 DEF OrdersMove
    <3>3. QED
      BY <2>2, <3>1, <3>2, MovedOrders
  <2>3. CASE Running /\ OrdersMove(bar) /\ ~DueNow(bar)
    BY <2>1, <2>3 DEF OrdersMove
  <2>4. QED
    BY <2>1, <2>2, <2>3
<1>2. /\ turn # "session" /\ turn' # "session" /\ version' = version /\ past' = past /\ day' = day
      /\ today' = today /\ cursor' = bar.start
  BY DEF Given
<1>3. cursor' \in Int /\ cursor < cursor' /\ cursor \in Int
  BY <1>2, GivenBar
<1>4. ASSUME NEW id \in BarStarts, Known(id) PROVE id # cursor'
  <2>1. id \in Nat /\ id <= cursor
    BY <1>4, ReplayAssumption DEF OrdersInv
  <2>2. QED
    BY <1>3, <2>1
<1>5. ASSUME NEW id \in BarStarts, Known(id), orders'[id].signal = orders[id].signal
      PROVE FiredToday(id)'
  BY <1>2, <1>3, <1>5, FiredTodayIsKept
<1>6. QED
  BY <1>1, <1>3, <1>4, <1>5, OrdersKept

LEMMA EndOrders ==
  ASSUME InData, OrdersInv, ReplayEndSession, turn' = "session", cursor' = cursor
  PROVE  OrdersInv'
<1>1. Running /\ working' = None
  BY AdapterEnds
<1>2. /\ DOMAIN orders' = BarStarts
      /\ \A id \in BarStarts : Known(id)' =>
           /\ Known(id) /\ orders'[id].signal = orders[id].signal
           /\ orders'[id].status # "rejected"
  <2>1. CASE orders' = orders
    BY <1>1, <2>1, SameOrders
  <2>2. CASE orders' # orders
    BY <1>1, <2>2, AdapterEnds, MovedOrders
  <2>3. QED
    BY <2>1, <2>2
<1>3. \A id \in BarStarts : FiredToday(id)'
  BY DEF FiredToday
<1>4. cursor' \in Int /\ cursor <= cursor'
  BY DayIsInt
<1>5. QED
  BY <1>2, <1>3, <1>4, OrdersKept

(* An entry that is submitted is the first of its direction in its session. *)
LEMMA SubmittedOrders ==
  ASSUME InData, AdapterInv, OrdersInv, Running, session_bars = Seen, NEW bar, Asked(bar),
         ~EvaluateRaises(session_bars, bar), Decision(session_bars, bar, prior_atr) # None,
         Submits(bar, Decision(session_bars, bar, prior_atr),
                 SizeOf(Decision(session_bars, bar, prior_atr), bar))
  PROVE  OrdersInv'
<1> DEFINE signal == Decision(session_bars, bar, prior_atr)
           quantity == SizeOf(signal, bar)
<1>1. /\ turn = "decide" /\ turn' = "bar" /\ bar \in today /\ bar.start = cursor /\ InSession
      /\ version' = version /\ day' = day /\ today' = today /\ cursor' = cursor /\ past' = past
  BY DEF Asked
<1>2. /\ signal \in OrbSignals /\ signal.direction \in {"LONG", "SHORT"}
      /\ Fires(Seen, bar, signal.direction, prior_atr)
      /\ cursor \in BarStarts /\ SessionDay(cursor) = day /\ bar \in Seen
  <2>1. LedgerInv
    BY DEF AdapterInv
  <2>2. SessionDay(cursor) = day /\ bar \in Seen
    BY <1>1, TodaysBars, DayIsInt DEF Seen
  <2>3. QED
    BY <2>1, <2>2, SubmittedEntry
<1>3. /\ DOMAIN orders' = BarStarts /\ working' = cursor
      /\ orders'[cursor].signal = signal /\ orders'[cursor].status = "accepted"
      /\ \A id \in BarStarts \ {cursor} : orders'[id] = orders[id]
  BY <1>1, <1>2 DEF Submits, OrdersInv
<1> HIDE DEF signal, quantity
<1>4. ASSUME NEW id \in BarStarts, id # cursor, Known(id)'
      PROVE  /\ Known(id) /\ orders'[id] = orders[id] /\ FiredToday(id) /\ FiredToday(id)'
             /\ orders'[id].status # "rejected" /\ id <= cursor
  <2>1. Known(id) /\ orders'[id] = orders[id]
    BY <1>3, <1>4 DEF Known
  <2>2. FiredToday(id)'
    BY <1>1, <2>1, DayIsInt, FiredTodayIsKept
  <2>3. QED
    BY <2>1, <2>2 DEF OrdersInv
<1>5. FiredToday(cursor)'
  <2>1. ASSUME NEW direction, signal.direction = direction PROVE Fired(cursor, direction)'
    <3>1. PICK S : S = Seen
      OBVIOUS
    <3>2. PICK atr : atr = prior_atr
      OBVIOUS
    <3>3. /\ bar \in S /\ bar.start = cursor' /\ BreaksOut(S, bar, direction)
          /\ ~Rejects(S, bar, direction, atr)
      BY <1>1, <1>2, <2>1, <3>1, <3>2 DEF Fires
    <3>4. ~Rejects(S, bar, direction, atr)' /\ BreaksOut(S, bar, direction)'
      BY <1>1, <3>3, RejectsKept DEF BreaksOut
    <3>5. S = Seen' /\ atr = prior_atr'
      BY <1>1, <3>1, <3>2 DEF Seen, prior_atr
    <3>6. QED
      BY <1>1, <3>3, <3>4, <3>5 DEF Fired
  <2>2. QED
    BY <1>1, <1>3, <2>1 DEF FiredToday
<1>6. ASSUME NEW id \in BarStarts, id # cursor, Known(id)', SessionDay(id) = day,
             orders'[id].signal.direction = signal.direction
      PROVE  FALSE
  <2>1. PICK S : S = Seen
    OBVIOUS
  <2>2. PICK atr : atr = prior_atr
    OBVIOUS
  <2>3. Fired(id, signal.direction)
    BY <1>1, <1>4, <1>6 DEF FiredToday
  <2>4. PICK b \in S : b.start = id /\ BreaksOut(S, b, signal.direction)
                       /\ ~Rejects(S, b, signal.direction, atr)
    BY <2>1, <2>2, <2>3 DEF Fired
  <2>5. id < cursor
    <3>1. id \in Nat /\ cursor \in Int /\ id <= cursor
      BY <1>4, <1>6, DayIsInt, ReplayAssumption
    <3>2. QED
      BY <1>6, <3>1
  <2>6. AlreadySignalled(S, bar, signal.direction, atr)
    BY <1>1, <2>4, <2>5 DEF AlreadySignalled
  <2>7. QED
    BY <1>2, <2>1, <2>2, <2>6 DEF Fires
<1>7. ASSUME NEW id \in BarStarts, Known(id)'
      PROVE  /\ orders'[id].status # "rejected" /\ id <= cursor' /\ FiredToday(id)'
  <2>1. cursor <= cursor
    BY DayIsInt
  <2>2. QED
    BY <1>1, <1>3, <1>4, <1>5, <1>7, <2>1
<1>8. ASSUME NEW i \in BarStarts, NEW j \in BarStarts, Known(i)', Known(j)',
             SessionDay(i) = SessionDay(j),
             orders'[i].signal.direction = orders'[j].signal.direction
      PROVE  i = j
  <2>1. CASE i = cursor
    BY <1>2, <1>3, <1>6, <1>8, <2>1
  <2>2. CASE j = cursor
    BY <1>2, <1>3, <1>6, <1>8, <2>2
  <2>3. CASE i # cursor /\ j # cursor
    BY <1>4, <1>8, <2>3 DEF OrdersInv
  <2>4. QED
    BY <2>1, <2>2, <2>3
<1>9. QED
  BY <1>1, <1>3, <1>7, <1>8 DEF OrdersInv

LEMMA AskedOrders ==
  ASSUME InData, AdapterInv, OrdersInv, NEW bar, NEW takes, Asked(bar),
         \/ ~Running /\ UNCHANGED replay_vars
         \/ DecisionGoesOn(bar, takes)
  PROVE  OrdersInv'
<1>1. /\ turn = "decide" /\ turn' = "bar" /\ cursor \in Int /\ cursor' = cursor
      /\ version' = version /\ day' = day /\ today' = today /\ past' = past
  BY DayIsInt DEF Asked
<1>2. CASE orders' = orders /\ (Running' => Running /\ working' = working)
  <2>1. /\ DOMAIN orders' = BarStarts
        /\ \A id \in BarStarts : Known(id)' =>
             /\ Known(id) /\ orders'[id].signal = orders[id].signal
             /\ orders'[id].status # "rejected"
    BY <1>2, SameOrders
  <2>2. ASSUME NEW id \in BarStarts, Known(id), orders'[id].signal = orders[id].signal
        PROVE FiredToday(id)'
    BY <1>1, <1>2, <2>2, FiredTodayIsKept
  <2>3. cursor' \in Int /\ cursor <= cursor'
    BY <1>1
  <2>4. QED
    BY <1>1, <2>1, <2>2, <2>3, OrdersKept
<1>3. CASE ~Running /\ UNCHANGED replay_vars
  BY <1>2, <1>3 DEF replay_vars, paper_vars, Running
<1>4. CASE DecisionGoesOn(bar, takes)
  <2>1. Running /\ session_bars = Seen
    BY <1>4 DEF DecisionGoesOn
  <2>2. CASE EvaluateRaises(session_bars, bar)
    BY <1>2, <1>4, <2>2 DEF DecisionGoesOn, Running
  <2>3. CASE ~EvaluateRaises(session_bars, bar) /\ DecidesOn(bar, prior_atr, takes)
    <3>1. \/ orders' = orders /\ working' = working
          \/ /\ Decision(session_bars, bar, prior_atr) # None
             /\ Submits(bar, Decision(session_bars, bar, prior_atr),
                        SizeOf(Decision(session_bars, bar, prior_atr), bar))
      BY <2>3 DEF DecidesOn, Wants
    <3>2. QED
      BY <1>2, <2>1, <2>3, <3>1, SubmittedOrders
  <2>4. QED
    BY <1>4, <2>2, <2>3 DEF DecisionGoesOn
<1>5. QED
  BY <1>3, <1>4

-----------------------------------------------------------------------------
(* The replay, from its first state through every step.                    *)
ReplayInv == InData /\ AdapterInv /\ OrdersInv

LEMMA ReplayInvInit == Init => ReplayInv
<1> SUFFICES ASSUME Init PROVE OrdersInv
  BY InDataInit, AdapterInit DEF ReplayInv
<1>1. orders = [id \in BarStarts |-> None] /\ working = None /\ turn = "session"
  BY SameBooks DEF Init, ReplayInit, Paper!Init
<1>2. \A id \in BarStarts : ~Known(id)
  BY <1>1, NoneAssumption DEF Known
<1>3. QED
  BY <1>1, <1>2 DEF OrdersInv

LEMMA ReplayStepInv == ReplayInv /\ [Next]_vars => ReplayInv'
<1> SUFFICES ASSUME InData, AdapterInv, OrdersInv, [Next]_vars PROVE AdapterInv' /\ OrdersInv'
  BY InDataStep DEF ReplayInv
<1>1. /\ InData' /\ SeenInv /\ WorkingInv /\ cursor \in Int /\ cursor <= cursor
      /\ DOMAIN orders = BarStarts
  BY InDataStep, DayIsInt DEF AdapterInv, OrdersInv
<1>2. CASE SkipDay
  <2>1. /\ turn = "session" /\ UNCHANGED <<paper_vars, session_bars, cursor, turn, today, replay>>
        /\ day' = day + 1 /\ today = {}
    BY <1>2 DEF SkipDay, replay_vars, InData
  <2>2. orders' = orders /\ working' = working /\ (Running' => Running)
    BY <2>1 DEF paper_vars, Running
  <2>3. QED
    BY <1>1, <2>1, <2>2, NextDayAdapter, NextDayOrders
<1>3. CASE StartSession
  <2>1. PICK bars \in StoredSessions(day) \ {{}} :
          /\ ValidSession(bars) /\ today' = bars
          /\ ReplayStartSession(day, bars) \/ ReplayOver
    BY <1>3 DEF StartSession
  <2>2. turn = "session" /\ turn' = "bar" /\ day < Days /\ day' = day /\ cursor' = cursor
    BY <1>3 DEF StartSession
  <2>3. /\ UNCHANGED <<paper_vars, session_bars>> /\ (Running' => Running)
    BY <2>1 DEF ReplayStartSession, ReplayOver, replay_vars, Running
  <2>4. orders' = orders /\ working' = working
    BY <2>3 DEF paper_vars
  <2>5. QED
    BY <1>1, <2>1, <2>2, <2>3, <2>4, NextDayAdapter, NextDayOrders
<1>4. CASE GiveBar
  <2>1. PICK bar \in AnyBar : \E minutes :
           /\ Given(bar)
           /\ \/ ~Running /\ UNCHANGED replay_vars
              \/ BarEnds(bar, minutes)
              \/ BarGoesOn(bar, minutes)
    BY <1>1, <1>4, GiveBarCases
  <2>2. PICK minutes : \/ ~Running /\ UNCHANGED replay_vars
                       \/ BarEnds(bar, minutes)
                       \/ BarGoesOn(bar, minutes)
    BY <2>1
  <2>3. cursor' = bar.start /\ bar.start \in Int /\ cursor < bar.start /\ today' = today
    BY <2>1, GivenBar DEF Given
  <2>4. cursor' \in Int /\ cursor <= cursor'
    BY <1>1, <2>3
  <2>5. CASE ~Running /\ UNCHANGED replay_vars
    <3>1. ~Running' /\ trades' = trades /\ orders' = orders
      BY <2>5 DEF Running, replay_vars, paper_vars
    <3>2. QED
      BY <1>1, <2>1, <2>3, <2>4, <3>1, OverAdapter, GivenOrders
  <2>6. CASE BarEnds(bar, minutes)
    <3>1. /\ Running /\ ~Running' /\ trades' = trades
          /\ orders' = orders \/ OrdersMove(bar)
      BY <2>6 DEF BarEnds
    <3>2. QED
      BY <1>1, <2>1, <2>3, <2>4, <3>1, OverAdapter, GivenOrders
  <2>7. CASE BarGoesOn(bar, minutes)
    <3>1. Running /\ OrdersMove(bar)
      BY <2>7 DEF BarGoesOn
    <3>2. QED
      BY <1>1, <2>1, <2>7, <3>1, BarAdapter, GivenOrders
  <2>8. QED
    BY <2>2, <2>5, <2>6, <2>7
<1>5. CASE AskStrategy
  <2>1. PICK bar \in AnyBar : \E takes \in BOOLEAN :
           /\ Asked(bar)
           /\ \/ ~Running /\ UNCHANGED replay_vars
              \/ DecisionGoesOn(bar, takes)
    BY <1>1, <1>5, AskCases
  <2>2. PICK takes : \/ ~Running /\ UNCHANGED replay_vars
                     \/ DecisionGoesOn(bar, takes)
    BY <2>1
  <2>3. OrdersInv'
    BY <1>1, <2>1, <2>2, AskedOrders
  <2>4. CASE Running'
    <3>1. Running
      BY <2>2, <2>4 DEF DecisionGoesOn, replay_vars, Running
    <3>2. DecisionGoesOn(bar, takes)
      BY <2>2, <3>1
    <3>3. QED
      BY <1>1, <2>1, <2>3, <2>4, <3>2, AskAdapter
  <2>5. CASE ~Running'
    <3>1. trades' = trades
      BY <2>2 DEF DecisionGoesOn, DecidesOn, Submits, replay_vars, paper_vars
    <3>2. cursor' \in Int /\ cursor <= cursor' /\ today' = today
      BY <1>1, <2>1 DEF Asked
    <3>3. QED
      BY <2>3, <2>5, <3>1, <3>2, OverAdapter
  <2>6. QED
    BY <2>3, <2>4, <2>5
<1>6. CASE EndSession
  <2>1. /\ turn = "bar" /\ turn' = "session" /\ day' = day + 1 /\ today' = {} /\ cursor' = cursor
        /\ ReplayEndSession \/ ReplayOver
    BY <1>6 DEF EndSession
  <2>2. CASE ReplayEndSession
    <3>1. trades' = trades
      BY <2>2, AdapterEnds
    <3>2. QED
      BY <1>1, <2>1, <2>2, <3>1, EndAdapter, EndOrders, OverAdapter
  <2>3. CASE ReplayOver
    <3>1. ~Running' /\ trades' = trades /\ orders' = orders /\ working' = working
      BY <2>3 DEF ReplayOver, replay_vars, paper_vars, Running
    <3>2. /\ DOMAIN orders' = BarStarts
          /\ \A id \in BarStarts : Known(id)' =>
               /\ Known(id) /\ orders'[id].signal = orders[id].signal
               /\ orders'[id].status # "rejected"
      BY <3>1, SameOrders
    <3>3. \A id \in BarStarts : FiredToday(id)'
      BY <2>1 DEF FiredToday
    <3>4. QED
      BY <1>1, <2>1, <3>1, <3>2, <3>3, OverAdapter, OrdersKept
  <2>4. QED
    BY <2>1, <2>2, <2>3
<1>7. CASE UNCHANGED <<replay_vars, data_vars>>
  <2>1. UNCHANGED <<orders, working, position, flatten_pending, last_bar_start, ledger, trades,
                    replay, session_bars, version, day, today, cursor, past, turn>>
    BY <1>7 DEF replay_vars, paper_vars, data_vars
  <2>2. AdapterInv'
    BY <2>1 DEF AdapterInv, SeenInv, WorkingInv, PositionInv, TradesInv, LedgerInv, Running,
                InSession, Seen, HeldToday, HeldUntil, EntryTime, RoundTrip, WindowOf, OpenOf, Midnight
  <2>3. /\ DOMAIN orders' = BarStarts
        /\ \A id \in BarStarts : Known(id)' =>
             /\ Known(id) /\ orders'[id].signal = orders[id].signal
             /\ orders'[id].status # "rejected"
    BY <2>1, SameOrders DEF Running
  <2>4. ASSUME NEW id \in BarStarts, Known(id) PROVE FiredToday(id)'
    <3>1. CASE turn = "session"
      BY <2>1, <3>1 DEF FiredToday
    <3>2. CASE turn # "session"
      BY <1>1, <2>1, <2>4, <3>2, FiredTodayIsKept DEF Running
    <3>3. QED
      BY <3>1, <3>2
  <2>5. ASSUME NEW id \in BarStarts, Known(id), Running, turn = "decide" PROVE id # cursor
    BY <2>5 DEF OrdersInv
  <2>6. ASSUME NEW id \in BarStarts, Known(id)', Running', turn' = "decide" PROVE id # cursor'
    BY <2>1, <2>3, <2>5, <2>6 DEF Running
  <2>7. OrdersInv'
    BY <1>1, <2>1, <2>3, <2>4, <2>6, OrdersKept
  <2>8. QED
    BY <2>2, <2>7
<1>8. CASE MeasureRun
  BY <1>7, <1>8 DEF MeasureRun
<1>9. CASE Finished \/ UNCHANGED vars
  BY <1>7, <1>9 DEF Finished, vars
<1>10. QED
  BY <1>2, <1>3, <1>4, <1>5, <1>6, <1>8, <1>9 DEF Next

LEMMA ReplayInvHolds == Spec => []ReplayInv
<1>1. Init => ReplayInv
  BY ReplayInvInit
<1>2. ReplayInv /\ [Next]_vars => ReplayInv'
  BY ReplayStepInv
<1>3. QED
  BY <1>1, <1>2, PTL DEF Spec

LEMMA OneOrderEach == ReplayInv => OneOrderPerDirection
<1> SUFFICES ASSUME OrdersInv PROVE OneOrderPerDirection
  BY DEF ReplayInv
<1>1. ASSUME NEW id \in BarStarts, orders[id] # None PROVE orders[id].status # "rejected"
  BY <1>1 DEF OrdersInv, Known
<1>2. ASSUME NEW d \in 0 .. Days - 1, NEW direction \in {"LONG", "SHORT"}
      PROVE  Cardinality(OrdersOf(d, direction)) <= 1
  <2> DEFINE S == OrdersOf(d, direction)
  <2>1. \A i, j \in S : i = j
    BY DEF OrdersOf, OrdersInv, Known
  <2> HIDE DEF S
  <2>2. CASE S = {}
    <3>1. Cardinality(S) = 0
      BY <2>2, FS_EmptySet
    <3>2. QED
      BY <3>1 DEF S
  <2>3. CASE S # {}
    <3>1. PICK x \in S : TRUE
      BY <2>3
    <3>2. S = {x}
      BY <2>1, <3>1
    <3>3. Cardinality({x}) = 1
      BY FS_Singleton
    <3>4. QED
      BY <3>2, <3>3 DEF S
  <2>4. QED
    BY <2>2, <2>3
<1>3. QED
  BY <1>1, <1>2 DEF OneOrderPerDirection

(* No order of the replay is ever rejected, and none of its sessions holds *)
(* two of one direction: the replay keeps no flag of what it has signalled *)
(* and derives it again from its bars, whose opening range stays the same. *)
THEOREM DirectionsSignalOnce == Spec => []OneOrderPerDirection
<1>1. ReplayInv => OneOrderPerDirection
  BY OneOrderEach
<1>2. QED
  BY <1>1, ReplayInvHolds, PTL

-----------------------------------------------------------------------------
(* The backtest: what awaits its bar, what is held and what is closed.     *)
Signalled ==
  [signal : OrbSignals, accepted : BOOLEAN, status : {"NONE", "FILLED", "NO_EXECUTION_BAR"}]

EngineRuns == engine = "running"

AwaitingInv ==
  /\ signal_log \in Seq(Signalled) /\ pending \in 0 .. Len(signal_log)
  /\ held = None \/ held \in AnyPosition
  /\ turn = "session" => pending = 0 /\ held = None

ClosedBefore(trade, at) ==
  /\ at # -1
  /\ 0 <= trade.exit.occurred_at /\ trade.exit.occurred_at <= at + Interval

ClosedInv ==
  /\ closed \in Seq(AnyTrade)
  /\ \A i \in DOMAIN closed :
       /\ ClosedBefore(closed[i], cursor)
       /\ i > 1 => closed[i - 1].exit.occurred_at <= closed[i].exit.occurred_at

EngineInv ==
  EngineRuns =>
    /\ AwaitingInv /\ ClosedInv
    /\ turn # "session" => (tradable <=> HasOpeningRange(today))

EngineLeaves(bar, minutes) ==
  /\ ~EntryRaises(bar)
  /\ signal_log' = SignalLogOn(bar) /\ pending' = 0
  /\ \/ /\ HeldOn(bar) # None => ExitOn(HeldOn(bar), bar, minutes).reason = "none"
        /\ held' = HeldOn(bar) /\ closed' = closed
     \/ /\ HeldOn(bar) # None /\ ExitOn(HeldOn(bar), bar, minutes).reason # "none"
        /\ held' = None
        /\ closed' = Append(closed, TradeOn(HeldOn(bar), ExitOn(HeldOn(bar), bar, minutes), bar))

LEMMA SameLeaves ==
  ASSUME NEW bar, NEW minutes
  PROVE  Leaves(bar, minutes) = ExitOn(HeldOn(bar), bar, minutes)
<1> DEFINE exit == ResolveExit(HeldOn(bar).intent, HeldOn(bar).entry, bar, minutes)
<1>1. exit.reason = "none" => exit.ambiguity = "unambiguous"
  BY ExitKinds
<1>2. QED
  BY <1>1 DEF Leaves, ExitOn

LEMMA EngineBarCases ==
  ASSUME NEW bar, NEW minutes, EngineFills(bar, minutes)
  PROVE  /\ EngineRuns /\ tradable' = tradable /\ result' = result /\ session_log' = session_log
         /\ \/ ~tradable /\ UNCHANGED engine_vars
            \/ /\ tradable /\ Unsizeable(bar) /\ engine' = "unsizeable"
            \/ /\ tradable /\ ~Unsizeable(bar) /\ FillsRaise(bar, minutes) /\ engine' = "raised"
            \/ /\ tradable /\ ~Unsizeable(bar) /\ ~FillsRaise(bar, minutes) /\ engine' = "running"
               /\ EngineLeaves(bar, minutes)
<1>1. CASE ~tradable /\ UNCHANGED engine_vars
  BY <1>1 DEF EngineFills, EngineRuns, engine_vars
<1>2. CASE /\ tradable
           /\ Unsizeable(bar) \/ FillsRaise(bar, minutes)
           /\ engine' = IF Unsizeable(bar) THEN "unsizeable" ELSE "raised"
           /\ UNCHANGED <<tradable, signal_log, pending, held, portfolio, closed, session_log, result>>
  BY <1>2 DEF EngineFills, EngineRuns
<1>3. CASE /\ tradable
           /\ ~Unsizeable(bar) /\ ~FillsRaise(bar, minutes)
           /\ signal_log' = SignalLogOn(bar)
           /\ pending' = 0
           /\ \/ /\ HeldOn(bar) # None => Leaves(bar, minutes).reason = "none"
                 /\ held' = HeldOn(bar)
                 /\ portfolio' = PortfolioOn(bar)
                 /\ UNCHANGED closed
              \/ /\ HeldOn(bar) # None
                 /\ Leaves(bar, minutes).reason # "none"
                 /\ EngineCloses(bar, minutes)
           /\ UNCHANGED <<engine, tradable, session_log, result>>
  <2>1. Leaves(bar, minutes) = ExitOn(HeldOn(bar), bar, minutes)
    BY SameLeaves
  <2>2. EngineCloses(bar, minutes) =>
          /\ held' = None
          /\ closed' = Append(closed, TradeOn(HeldOn(bar), ExitOn(HeldOn(bar), bar, minutes), bar))
    BY <2>1 DEF EngineCloses, TradeOn
  <2>3. EngineLeaves(bar, minutes)
    BY <1>3, <2>1, <2>2 DEF EngineLeaves, FillsRaise
  <2>4. QED
    BY <1>3, <2>3 DEF EngineFills, EngineRuns
<1>4. QED
  BY <1>1, <1>2, <1>3 DEF EngineFills

(* The log learns how an entry ended, and nothing else.                    *)
LEMMA LoggedSignals ==
  ASSUME AwaitingInv, NEW status \in {"FILLED", "NO_EXECUTION_BAR"}, pending # 0
  PROVE  Logged(status) \in Seq(Signalled)
<1>1. pending \in DOMAIN signal_log /\ signal_log \in Seq(Signalled)
  BY DEF AwaitingInv
<1>2. \A r \in Signalled : [r EXCEPT !.status = status] \in Signalled
  BY DEF Signalled
<1>3. Logged(status) = [signal_log EXCEPT ![pending] = [signal_log[pending] EXCEPT !.status = status]]
  BY <1>1 DEF Logged
<1>4. signal_log[pending] \in Signalled
  BY <1>1
<1>5. QED
  BY <1>1, <1>2, <1>3, <1>4

LEMMA AwaitedSignal ==
  ASSUME AwaitingInv, pending # 0
  PROVE  Awaited \in OrbSignals
<1>1. signal_log[pending] \in Signalled
  BY DEF AwaitingInv
<1>2. QED
  BY <1>1 DEF Signalled, Awaited

LEMMA EngineIntended ==
  ASSUME AwaitingInv, NEW bar \in AnyBar, Enters(bar), ~EntryRaises(bar)
  PROVE  EngineIntent(bar) \in AnyIntent
<1>1. Awaited \in OrbSignals /\ EntryBarStart(Awaited) \in Int
  BY AwaitedSignal, SignalFields DEF Enters
<1>2. ProbePrice(bar) \in Nat \ {0}
  <2>1. bar.open \in Int /\ Slippage \in Nat
    BY BarFields, SlippageIsNat
  <2>2. ProbePrice(bar) > 0
    BY DEF EntryRaises, Enterable, EntryPriced, Priced, ProbePrice
  <2>3. QED
    BY <2>1, <2>2 DEF ProbePrice, EntrySlipped
<1>3. QED
  BY <1>1, <1>2, FixedQuantityIsInt DEF EngineIntent, AnyIntent

LEMMA HeldByEngine ==
  ASSUME AwaitingInv, NEW bar \in AnyBar, ~EntryRaises(bar), HeldOn(bar) # None
  PROVE  HeldOn(bar) \in AnyPosition
<1>1. CASE Enters(bar)
  <2>1. EngineIntent(bar) \in AnyIntent
    BY <1>1, EngineIntended
  <2>2. QED
    BY <1>1, <2>1, EnteredPosition DEF HeldOn, Entered
<1>2. CASE ~Enters(bar)
  BY <1>2 DEF HeldOn, AwaitingInv
<1>3. QED
  BY <1>1, <1>2

LEMMA ClosedEarlier ==
  ASSUME InData, NEW bar, Given(bar), NEW trade \in AnyTrade, ClosedBefore(trade, cursor)
  PROVE  trade.exit.occurred_at <= bar.start /\ ClosedBefore(trade, bar.start)
<1>1. /\ cursor # -1 /\ 0 <= trade.exit.occurred_at /\ trade.exit.occurred_at <= cursor + Interval
      /\ trade.exit.occurred_at \in Int
  BY DEF ClosedBefore, AnyTrade, AnyFill
<1>2. /\ bar.start \in Nat /\ cursor < bar.start /\ cursor \in Int /\ OnGrid(bar.start)
      /\ OnGrid(cursor) /\ cursor' = bar.start /\ Interval \in Nat
  BY <1>1, GivenBar, IntervalIsPositive DEF Given, InData
<1>3. cursor + Interval <= bar.start
  BY <1>2, GridStep
<1>4. trade.exit.occurred_at <= bar.start /\ trade.exit.occurred_at <= bar.start + Interval
  BY <1>1, <1>2, <1>3
<1>5. bar.start # -1
  BY <1>2
<1>6. QED
  BY <1>1, <1>2, <1>4, <1>5 DEF ClosedBefore

LEMMA EngineOnBar ==
  ASSUME InData, AwaitingInv, ClosedInv, NEW bar, NEW minutes, Given(bar), EngineLeaves(bar, minutes)
  PROVE  AwaitingInv' /\ ClosedInv'
<1>1. bar \in AnyBar /\ ~EntryRaises(bar) /\ cursor' = bar.start /\ turn' = "decide" /\ bar.start \in Nat
  BY GivenBar DEF Given, EngineLeaves
<1>2. HeldOn(bar) # None => HeldOn(bar) \in AnyPosition
  BY <1>1, HeldByEngine
<1>3. signal_log' \in Seq(Signalled)
  BY LoggedSignals DEF EngineLeaves, SignalLogOn, AwaitingInv
<1>4. AwaitingInv'
  <2>1. pending' = 0 /\ (held' = None \/ held' \in AnyPosition)
    BY <1>2 DEF EngineLeaves
  <2>2. pending' \in 0 .. Len(signal_log')
    BY <1>3, <2>1
  <2>3. QED
    BY <1>1, <1>3, <2>1, <2>2 DEF AwaitingInv
<1>5. \A i \in DOMAIN closed : closed[i] \in AnyTrade
  BY DEF ClosedInv
<1>6. \A i \in DOMAIN closed :
        closed[i].exit.occurred_at <= bar.start /\ ClosedBefore(closed[i], bar.start)
  BY <1>5, ClosedEarlier DEF ClosedInv
<1>7. CASE closed' = closed
  BY <1>1, <1>4, <1>6, <1>7 DEF ClosedInv
<1>8. CASE closed' # closed
  <2>1. /\ HeldOn(bar) # None /\ ExitOn(HeldOn(bar), bar, minutes).reason # "none"
        /\ closed' = Append(closed, TradeOn(HeldOn(bar), ExitOn(HeldOn(bar), bar, minutes), bar))
    BY <1>8 DEF EngineLeaves
  <2>2. PICK trade : trade = TradeOn(HeldOn(bar), ExitOn(HeldOn(bar), bar, minutes), bar)
    OBVIOUS
  <2>3. /\ trade \in AnyTrade /\ bar.start <= trade.exit.occurred_at
        /\ trade.exit.occurred_at <= bar.start + Interval
    BY <1>1, <1>2, <2>1, <2>2, TradeMade
  <2>4. trade.exit.occurred_at \in Int
    BY <2>3 DEF AnyTrade, AnyFill
  <2>5. ClosedBefore(trade, bar.start)
    BY <1>1, <2>3, <2>4 DEF ClosedBefore
  <2>6. closed \in Seq(AnyTrade) /\ closed' = Append(closed, trade)
    BY <2>1, <2>2 DEF ClosedInv
  <2>7. /\ closed' \in Seq(AnyTrade) /\ DOMAIN closed' = 1 .. Len(closed) + 1
        /\ DOMAIN closed = 1 .. Len(closed) /\ Len(closed) \in Nat
        /\ closed'[Len(closed) + 1] = trade /\ \A i \in 1 .. Len(closed) : closed'[i] = closed[i]
    BY <2>3, <2>6
  <2>8. ASSUME NEW i \in DOMAIN closed'
        PROVE  /\ ClosedBefore(closed'[i], bar.start)
               /\ i > 1 => closed'[i - 1].exit.occurred_at <= closed'[i].exit.occurred_at
    <3>1. CASE i = Len(closed) + 1
      <4>1. ClosedBefore(closed'[i], bar.start) /\ closed'[i] = trade
        BY <2>5, <2>7, <3>1
      <4>2. ASSUME i > 1 PROVE closed'[i - 1].exit.occurred_at <= trade.exit.occurred_at
        <5>1. i - 1 \in DOMAIN closed /\ closed'[i - 1] = closed[i - 1]
          BY <2>7, <3>1, <4>2
        <5>2. closed[i - 1].exit.occurred_at <= bar.start /\ closed[i - 1] \in AnyTrade
          BY <1>5, <1>6, <5>1
        <5>3. closed[i - 1].exit.occurred_at \in Int
          BY <5>2 DEF AnyTrade, AnyFill
        <5>4. QED
          BY <1>1, <2>3, <2>4, <5>1, <5>2, <5>3
      <4>3. QED
        BY <4>1, <4>2
    <3>2. CASE i # Len(closed) + 1
      <4>1. i \in DOMAIN closed /\ closed'[i] = closed[i]
        BY <2>7, <3>2
      <4>2. i > 1 => i - 1 \in DOMAIN closed /\ closed'[i - 1] = closed[i - 1]
        BY <2>7, <4>1
      <4>3. QED
        BY <1>6, <4>1, <4>2 DEF ClosedInv
    <3>3. QED
      BY <3>1, <3>2
  <2>9. ClosedInv'
    BY <1>1, <2>7, <2>8 DEF ClosedInv
  <2>10. QED
    BY <1>4, <2>9
<1>9. QED
  BY <1>7, <1>8

(* Once the window of a session is over, the bars seen hold its range if   *)
(* and only if the stored bars do.                                         *)
LEMMA CoveredRange ==
  ASSUME InData, NEW bar, Asked(bar)
  PROVE  /\ bar.start >= WindowEnd(bar) => (RangeIsComplete(Seen, bar) <=> HasOpeningRange(today))
         /\ EvaluateRaises(Seen, bar) <=> bar.start >= WindowEnd(bar) /\ ~HasOpeningRange(today)
<1>1. /\ bar \in today /\ bar.start = cursor /\ turn # "session" /\ cursor \in Int
      /\ BarsOf(day, today) /\ day \in Int /\ SessionDay(bar.start) = day
      /\ \A b \in today : SessionDay(b.start) = day
  BY TodaysBars, DayIsInt DEF Asked
<1>2. WindowEnd(bar) = WindowOf(day) /\ WindowOf(day) \in Int
  BY <1>1, WindowOfBar, WindowFollowsOpen
<1>3. RangeIsComplete(today, bar) <=> HasOpeningRange(today)
  BY <1>1, OneWindow DEF HasOpeningRange
<1>4. ASSUME bar.start >= WindowEnd(bar)
      PROVE  RangeIsComplete(Seen, bar) <=> HasOpeningRange(today)
  <2>1. WindowOf(day) <= cursor
    BY <1>1, <1>2, <1>4
  <2>2. OpeningBars(Seen) = OpeningBars(today)
    BY <1>1, <2>1, RangeIsKept DEF Seen
  <2>3. RangeIsComplete(Seen, bar) <=> RangeIsComplete(today, bar)
    BY <2>2, SameRange
  <2>4. QED
    BY <1>3, <2>3
<1>5. QED
  BY <1>4 DEF EvaluateRaises

(* What the engine decides it decides of the bars the replay has seen.     *)
EngineSignals(bar, takes) ==
  LET signal == Decision(Seen, bar, prior_atr)
  IN  /\ signal \in OrbSignals
      /\ signal_log' = Append(signal_log, [signal |-> signal, accepted |-> takes, status |-> "NONE"])
      /\ pending' = IF held = None /\ takes THEN Len(signal_log) + 1 ELSE pending

LEMMA EngineAskCases ==
  ASSUME InData, NEW bar, NEW takes, Asked(bar), tradable <=> HasOpeningRange(today),
         EngineDecides(today, bar, prior_atr, takes)
  PROVE  /\ EngineRuns /\ engine' = engine /\ tradable' = tradable /\ held' = held
         /\ closed' = closed /\ session_log' = session_log /\ result' = result
         /\ IF ~tradable \/ Decision(Seen, bar, prior_atr) = None
            THEN signal_log' = signal_log /\ pending' = pending
            ELSE EngineSignals(bar, takes)
<1>1. {b \in today : b.start <= bar.start} = Seen
  BY DEF Asked, Seen
<1>2. /\ EngineRuns /\ engine' = engine /\ tradable' = tradable /\ held' = held
      /\ closed' = closed /\ session_log' = session_log /\ result' = result
  BY DEF EngineDecides, EngineRuns
<1>3. CASE ~tradable \/ Decision(Seen, bar, prior_atr) = None
  BY <1>1, <1>2, <1>3 DEF EngineDecides
<1>4. CASE tradable /\ Decision(Seen, bar, prior_atr) # None
  <2>1. ~EvaluateRaises(Seen, bar)
    BY <1>4, CoveredRange
  <2>2. BarsOf(day, Seen) /\ day \in Int /\ bar \in Seen
    <3>1. BarsOf(day, today) /\ day \in Int /\ bar \in today /\ bar.start <= cursor
      BY TodaysBars, DayIsInt DEF Asked
    <3>2. QED
      BY <3>1, FS_Subset DEF BarsOf, Seen
  <2>3. Decision(Seen, bar, prior_atr) \in OrbSignals
    BY <1>4, <2>1, <2>2, DecidedSignal
  <2>4. EngineSignals(bar, takes)
    BY <1>1, <1>4, <2>3 DEF EngineDecides, EngineSignals
  <2>5. QED
    BY <1>2, <1>4, <2>4
<1>5. QED
  BY <1>3, <1>4

LEMMA EngineAsked ==
  ASSUME InData, AwaitingInv, NEW bar, NEW takes \in BOOLEAN, Asked(bar),
         tradable <=> HasOpeningRange(today), EngineDecides(today, bar, prior_atr, takes)
  PROVE  AwaitingInv'
<1>1. turn' = "bar" /\ held' = held
  BY EngineAskCases DEF Asked
<1>2. signal_log \in Seq(Signalled) /\ pending \in 0 .. Len(signal_log)
  BY DEF AwaitingInv
<1>3. CASE signal_log' = signal_log /\ pending' = pending
  BY <1>1, <1>3 DEF AwaitingInv
<1>4. CASE EngineSignals(bar, takes)
  <2>1. PICK signal : signal = Decision(Seen, bar, prior_atr)
    OBVIOUS
  <2>2. /\ signal \in OrbSignals
        /\ signal_log' = Append(signal_log, [signal |-> signal, accepted |-> takes, status |-> "NONE"])
        /\ pending' = Len(signal_log) + 1 \/ pending' = pending
    BY <1>4, <2>1 DEF EngineSignals
  <2>3. [signal |-> signal, accepted |-> takes, status |-> "NONE"] \in Signalled
    BY <2>2 DEF Signalled
  <2>4. signal_log' \in Seq(Signalled) /\ Len(signal_log') = Len(signal_log) + 1 /\ Len(signal_log) \in Nat
    BY <1>2, <2>2, <2>3
  <2>5. pending' \in 0 .. Len(signal_log')
    BY <1>2, <2>2, <2>4
  <2>6. QED
    BY <1>1, <2>4, <2>5 DEF AwaitingInv
<1>5. QED
  BY <1>3, <1>4, EngineAskCases

LEMMA EngineInvInit == Init => EngineInv
<1> SUFFICES ASSUME Init PROVE EngineInv
  OBVIOUS
<1>1. signal_log = <<>> /\ pending = 0 /\ held = None /\ closed = <<>> /\ turn = "session"
  BY DEF Init, EngineInit
<1>2. /\ signal_log \in Seq(Signalled) /\ closed \in Seq(AnyTrade) /\ DOMAIN closed = {}
      /\ Len(signal_log) = 0
  <2>1. <<>> \in Seq(Signalled) /\ <<>> \in Seq(AnyTrade) /\ DOMAIN <<>> = {} /\ Len(<<>>) = 0
    OBVIOUS
  <2>2. QED
    BY <1>1, <2>1
<1>3. pending \in 0 .. Len(signal_log)
  BY <1>1, <1>2
<1>4. QED
  BY <1>1, <1>2, <1>3 DEF EngineInv, AwaitingInv, ClosedInv

LEMMA EngineStepInv ==
  ASSUME ReplayInv, EngineInv, [Next]_vars
  PROVE  EngineInv'
<1> SUFFICES ASSUME EngineRuns' PROVE EngineInv'
  BY DEF EngineInv
<1>1. InData /\ SeenInv
  BY DEF ReplayInv, AdapterInv
<1>2. ASSUME closed' = closed, cursor' = cursor, ClosedInv PROVE ClosedInv'
  BY <1>2 DEF ClosedInv
<1>3. CASE SkipDay
  <2>1. UNCHANGED <<engine_vars, cursor, turn>> /\ turn = "session"
    BY <1>3 DEF SkipDay
  <2>2. EngineRuns /\ AwaitingInv /\ ClosedInv
    BY <2>1 DEF EngineInv, engine_vars, EngineRuns
  <2>3. AwaitingInv' /\ ClosedInv'
    BY <1>2, <2>1, <2>2 DEF engine_vars, AwaitingInv
  <2>4. QED
    BY <2>1, <2>3 DEF EngineInv
<1>4. CASE StartSession
  <2>1. PICK bars \in StoredSessions(day) \ {{}} :
          today' = bars /\ (EngineStartSession(day, bars) \/ EngineOver)
    BY <1>4 DEF StartSession
  <2>2. turn = "session" /\ turn' = "bar" /\ cursor' = cursor
    BY <1>4 DEF StartSession
  <2>3. EngineStartSession(day, bars) /\ EngineRuns
    BY <2>1 DEF EngineOver, engine_vars, EngineRuns, EngineStartSession
  <2>4. /\ signal_log' = signal_log /\ pending' = pending /\ held' = held /\ closed' = closed
        /\ tradable' <=> HasOpeningRange(bars)
    BY <2>3 DEF EngineStartSession, EngineRuns
  <2>5. AwaitingInv' /\ ClosedInv'
    BY <1>2, <2>2, <2>3, <2>4 DEF EngineInv, AwaitingInv
  <2>6. tradable' <=> HasOpeningRange(today')
    BY <2>1, <2>4
  <2>7. QED
    BY <2>5, <2>6 DEF EngineInv, HasOpeningRange
<1>5. CASE GiveBar
  <2>1. PICK bar \in AnyBar : \E minutes :
           Given(bar) /\ (EngineFills(bar, minutes) \/ EngineOver)
    BY <1>1, <1>5, GiveBarCases
  <2>2. PICK minutes : EngineFills(bar, minutes)
    BY <2>1 DEF EngineOver, engine_vars, EngineRuns
  <2>3. EngineRuns /\ AwaitingInv /\ ClosedInv /\ turn # "session" /\ turn' # "session"
        /\ today' = today /\ cursor' = bar.start /\ (tradable <=> HasOpeningRange(today))
    BY <2>1, <2>2, EngineBarCases DEF EngineInv, Given
  <2>4. tradable' <=> HasOpeningRange(today')
    BY <2>2, <2>3, EngineBarCases
  <2>5. CASE UNCHANGED engine_vars
    <3>1. signal_log' = signal_log /\ pending' = pending /\ held' = held /\ closed' = closed
      BY <2>5 DEF engine_vars
    <3>2. \A i \in DOMAIN closed : closed[i] \in AnyTrade /\ ClosedBefore(closed[i], bar.start)
      BY <1>1, <2>1, <2>3, ClosedEarlier DEF ClosedInv
    <3>3. AwaitingInv' /\ ClosedInv'
      BY <2>3, <3>1, <3>2 DEF AwaitingInv, ClosedInv
    <3>4. QED
      BY <2>4, <3>3 DEF EngineInv, HasOpeningRange
  <2>6. CASE EngineLeaves(bar, minutes)
    <3>1. AwaitingInv' /\ ClosedInv'
      BY <1>1, <2>1, <2>3, <2>6, EngineOnBar
    <3>2. QED
      BY <2>4, <3>1 DEF EngineInv, HasOpeningRange
  <2>7. QED
    BY <2>2, <2>5, <2>6, EngineBarCases DEF EngineRuns
<1>6. CASE AskStrategy
  <2>1. PICK bar \in AnyBar : \E takes \in BOOLEAN :
           /\ Asked(bar)
           /\ EngineDecides(today, bar, prior_atr, takes) \/ EngineOver
    BY <1>1, <1>6, AskCases
  <2>2. PICK takes \in BOOLEAN : EngineDecides(today, bar, prior_atr, takes)
    BY <2>1 DEF EngineOver, engine_vars, EngineRuns
  <2>3. EngineRuns
    BY <2>2 DEF EngineDecides, EngineRuns
  <2>4. AwaitingInv /\ ClosedInv /\ turn # "session" /\ (tradable <=> HasOpeningRange(today))
        /\ today' = today /\ cursor' = cursor
    BY <2>1, <2>3 DEF EngineInv, Asked
  <2>5. AwaitingInv'
    BY <1>1, <2>1, <2>2, <2>4, EngineAsked
  <2>6. closed' = closed /\ tradable' = tradable
    BY <1>1, <2>1, <2>2, <2>4, EngineAskCases
  <2>7. ClosedInv' /\ (tradable' <=> HasOpeningRange(today'))
    BY <1>2, <2>4, <2>6
  <2>8. QED
    BY <2>5, <2>7 DEF EngineInv, HasOpeningRange
<1>7. CASE EndSession
  <2>1. /\ turn' = "session" /\ cursor' = cursor /\ (EngineEndSession(day) \/ EngineOver)
    BY <1>7 DEF EndSession
  <2>2. EngineEndSession(day) /\ EngineRuns
    BY <2>1 DEF EngineOver, engine_vars, EngineRuns, EngineEndSession
  <2>3. /\ signal_log' = (IF pending = 0 THEN signal_log ELSE Logged("NO_EXECUTION_BAR"))
        /\ pending' = 0 /\ held' = held /\ held = None /\ closed' = closed
    BY <2>2 DEF EngineEndSession, EngineRuns
  <2>4. AwaitingInv /\ ClosedInv
    BY <2>2 DEF EngineInv
  <2>5. signal_log' \in Seq(Signalled)
    BY <2>3, <2>4, LoggedSignals DEF AwaitingInv
  <2>6. AwaitingInv'
    BY <2>1, <2>3, <2>5 DEF AwaitingInv
  <2>7. QED
    BY <1>2, <2>1, <2>3, <2>4, <2>6 DEF EngineInv
<1>8. CASE MeasureRun
  <2>1. /\ turn = "session" /\ turn' = turn /\ cursor' = cursor /\ EngineRuns
        /\ signal_log' = signal_log /\ pending' = pending /\ held' = held /\ closed' = closed
    BY <1>8 DEF MeasureRun, EngineFinish, data_vars, EngineRuns
  <2>2. AwaitingInv' /\ ClosedInv'
    BY <1>2, <2>1 DEF EngineInv, AwaitingInv
  <2>3. QED
    BY <2>1, <2>2 DEF EngineInv
<1>9. CASE Finished \/ UNCHANGED vars
  <2>1. UNCHANGED <<engine_vars, data_vars>>
    BY <1>9 DEF Finished, vars
  <2>2. /\ turn' = turn /\ cursor' = cursor /\ today' = today /\ EngineRuns /\ tradable' = tradable
        /\ signal_log' = signal_log /\ pending' = pending /\ held' = held /\ closed' = closed
    BY <2>1 DEF engine_vars, data_vars, EngineRuns
  <2>3. AwaitingInv' /\ ClosedInv'
    BY <1>2, <2>2 DEF EngineInv, AwaitingInv
  <2>4. QED
    BY <2>2, <2>3 DEF EngineInv, HasOpeningRange
<1>10. QED
  BY <1>3, <1>4, <1>5, <1>6, <1>7, <1>8, <1>9 DEF Next

LEMMA EngineInvHolds == Spec => []EngineInv
<1>1. ReplayInv /\ EngineInv /\ [Next]_vars => EngineInv'
  BY EngineStepInv
<1>2. QED
  BY <1>1, EngineInvInit, ReplayInvHolds, PTL DEF Spec

LEMMA FlatAtNight == ReplayInv /\ EngineInv => FlatBetweenSessions
<1> SUFFICES ASSUME ReplayInv, EngineInv PROVE FlatBetweenSessions
  OBVIOUS
<1>1. turn = "session" /\ Running => working = None /\ position = None
  BY DEF ReplayInv, AdapterInv, WorkingInv, PositionInv
<1>2. turn = "session" /\ engine = "running" => pending = 0 /\ held = None
  BY DEF EngineInv, AwaitingInv, EngineRuns
<1>3. ASSUME NEW i \in DOMAIN trades PROVE RoundTrip(trades[i])
  BY DEF ReplayInv, AdapterInv, TradesInv
<1>4. QED
  BY <1>1, <1>2, <1>3 DEF FlatBetweenSessions, RoundTrip, EntryTime, HeldUntil

(* Between its sessions neither the replay nor the backtest has anything   *)
(* working or held, and every trade of the replay was entered after the    *)
(* opening range of its session and before the cutoff, and was left on the *)
(* first stored bar that reaches the hard exit, if not earlier.            *)
THEOREM NothingIsHeldOvernight == Spec => []FlatBetweenSessions
<1>1. ReplayInv /\ EngineInv => FlatBetweenSessions
  BY FlatAtNight
<1>2. QED
  BY <1>1, ReplayInvHolds, EngineInvHolds, PTL

-----------------------------------------------------------------------------
(* The gaps of the replay: the grid of a session up to the bar last read.  *)
GridOf(d, x) == {t \in OpenOf(d) .. x : OnGrid(t)}

GapInv ==
  Running =>
    /\ missing \subseteq Int /\ \A t \in missing : t <= cursor
    /\ turn # "session" =>
         IF InSession
         THEN /\ expected = cursor + Interval /\ OpenOf(day) <= cursor
              /\ GridOf(day, cursor) =
                   {b.start : b \in Seen} \cup {t \in missing : SessionDay(t) = day}
         ELSE expected = OpenOf(day)

(* The grid of a session is that of its day.                               *)
LEMMA GridFromOpen ==
  ASSUME NEW d \in Int, NEW t \in Int
  PROVE  OnGrid(t - OpenOf(d)) <=> OnGrid(t)
<1>1. OpenOf(d) \in Int /\ OnGrid(OpenOf(d))
  BY WindowFollowsOpen, IntervalOnGrid DEF OpenOf
<1>2. QED
  BY <1>1, GridSum

(* What is skipped before a bar is the grid since the bar expected.        *)
LEMMA SkippedOnGrid ==
  ASSUME NEW bar \in AnyBar, expected \in Int, OnGrid(expected)
  PROVE  \A t : t \in Skipped(bar) <=> t \in Int /\ expected <= t /\ t < bar.start /\ OnGrid(t)
<1>1. bar.start \in Int
  BY BarFields
<1>2. \A t \in Int : OnGrid(t - expected) <=> OnGrid(t)
  BY GridSum
<1>3. \A t : t \in Skipped(bar) <=> t \in expected .. bar.start - 1 /\ OnGrid(t - expected)
  BY DEF Skipped, OnGrid
<1>4. QED
  BY <1>1, <1>2, <1>3

(* The bar due is on the grid, at the open or an interval after the last.  *)
LEMMA ExpectedOnGrid ==
  ASSUME InData, GapInv, Running, turn # "session"
  PROVE  /\ expected \in Int /\ OnGrid(expected) /\ OpenOf(day) <= expected
         /\ IF InSession THEN expected = cursor + Interval ELSE expected = OpenOf(day)
<1>1. /\ day \in Int /\ cursor \in Int /\ OpenOf(day) \in Int /\ Interval \in Int /\ Interval >= 1
      /\ OnGrid(OpenOf(day)) /\ OnGrid(Interval) /\ Midnight(day) \in Int /\ Midnight(day) >= 0
  BY DayIsInt, WindowFollowsOpen, IntervalOnGrid, IntervalIsPositive DEF OpenOf
<1>2. CASE InSession
  <2>1. expected = cursor + Interval /\ OpenOf(day) <= cursor /\ Midnight(day) <= cursor
    BY <1>2 DEF GapInv, InSession
  <2>2. OnGrid(cursor)
    BY <1>1, <2>1 DEF InData
  <2>3. OnGrid(cursor + Interval)
    BY <1>1, <2>2, GridSum
  <2>4. QED
    BY <1>1, <1>2, <2>1, <2>3
<1>3. CASE ~InSession
  BY <1>1, <1>3 DEF GapInv
<1>4. QED
  BY <1>2, <1>3

LEMMA GapsOnBar ==
  ASSUME InData, AdapterInv, GapInv, NEW bar, NEW minutes, Given(bar), BarGoesOn(bar, minutes)
  PROVE  GapInv'
<1>1. /\ Running /\ turn # "session" /\ turn' # "session" /\ day' = day /\ cursor' = bar.start
      /\ bar \in AnyBar /\ bar.start \in Nat /\ SessionDay(bar.start) = day /\ OnGrid(bar.start)
      /\ Midnight(day) <= bar.start /\ cursor \in Int /\ Midnight(day) \in Int /\ cursor < bar.start
  BY GivenBar DEF Given, BarGoesOn
<1>2. /\ missing' = missing \cup Skipped(bar) /\ expected' = bar.start + Interval
      /\ expected <= bar.start
  <2>1. missing' = missing \cup Skipped(bar) /\ expected' = BarEnd(bar) /\ ~OffGrid(bar)
    BY DEF BarGoesOn
  <2>2. expected \in Int
    BY <1>1, ExpectedOnGrid
  <2>3. QED
    BY <1>1, <2>1, <2>2, BarFields DEF OffGrid
<1>3. /\ expected \in Int /\ OpenOf(day) <= expected
      /\ IF InSession THEN expected = cursor + Interval ELSE expected = OpenOf(day)
      /\ \A t : t \in Skipped(bar) <=> t \in Int /\ expected <= t /\ t < bar.start /\ OnGrid(t)
  BY <1>1, ExpectedOnGrid, SkippedOnGrid
<1>4. /\ day \in Int /\ OpenOf(day) \in Int /\ Midnight(day) <= OpenOf(day)
      /\ Midnight(day + 1) = Midnight(day) + DayLength /\ bar.start < Midnight(day + 1)
  BY <1>1, DayIsInt, WindowFollowsOpen, Midnights, TodaysBars DEF Given
<1>5. Seen' = Seen \cup {bar} /\ InSession'
  BY <1>1, SeenOnBar DEF BarGoesOn
<1>6. missing' \subseteq Int /\ \A t \in missing' : t <= cursor'
  <2>1. missing \subseteq Int /\ \A t \in missing : t <= cursor
    BY <1>1 DEF GapInv
  <2>2. ASSUME NEW t \in missing' PROVE t \in Int /\ t <= bar.start
    <3>1. CASE t \in missing
      <4>1. t \in Int /\ t <= cursor
        BY <2>1, <3>1
      <4>2. QED
        BY <1>1, <4>1
    <3>2. CASE t \in Skipped(bar)
      <4>1. t \in Int /\ t < bar.start
        BY <1>3, <3>2
      <4>2. QED
        BY <1>1, <4>1
    <3>3. QED
      BY <1>2, <3>1, <3>2
  <2>3. QED
    BY <1>1, <2>2
<1>7. \A t \in Skipped(bar) : SessionDay(t) = day
  <2>1. ASSUME NEW t \in Skipped(bar) PROVE t \in Int /\ Midnight(day) <= t /\ t < Midnight(day) + DayLength
    <3>1. t \in Int /\ expected <= t /\ t < bar.start
      BY <1>3
    <3>2. DayLength \in Nat
      BY ExecutionAssumption
    <3>3. QED
      BY <1>1, <1>3, <1>4, <3>1, <3>2
  <2>2. QED
    BY <1>4, <2>1, DayBetweenMidnights
<1>8. {t \in missing' : SessionDay(t) = day} = {t \in missing : SessionDay(t) = day} \cup Skipped(bar)
  BY <1>2, <1>7
<1>9. {b.start : b \in Seen'} = {b.start : b \in Seen} \cup {bar.start}
  BY <1>5
<1>10. GridOf(day, bar.start) =
         {b.start : b \in Seen} \cup {t \in missing : SessionDay(t) = day} \cup Skipped(bar) \cup {bar.start}
  <2>1. \A t : t \in GridOf(day, bar.start) <=> t \in Int /\ OpenOf(day) <= t /\ t <= bar.start /\ OnGrid(t)
    BY <1>1, <1>4 DEF GridOf
  <2>2. OpenOf(day) <= bar.start
    BY <1>1, <1>2, <1>3, <1>4
  <2>3. CASE InSession
    <3>1. GridOf(day, cursor) = {b.start : b \in Seen} \cup {t \in missing : SessionDay(t) = day}
          /\ OnGrid(cursor)
      <4>1. cursor # -1
        BY <1>1, <1>4, <2>3, DayIsInt DEF InSession
      <4>2. QED
        BY <1>1, <2>3, <4>1 DEF GapInv, InData
    <3>2. \A t : t \in GridOf(day, cursor) <=> t \in Int /\ OpenOf(day) <= t /\ t <= cursor /\ OnGrid(t)
      BY <1>1, <1>4 DEF GridOf
    <3>3. \A t \in Int : OnGrid(t) /\ cursor < t => cursor + Interval <= t
      BY <1>1, <3>1, GridStep
    <3>4. \A t : t \in GridOf(day, bar.start) <=>
                   t \in GridOf(day, cursor) \/ t \in Skipped(bar) \/ t = bar.start
      <4>1. Interval \in Int /\ Interval >= 1
        BY IntervalIsPositive
      <4>2. QED
        BY <1>1, <1>3, <1>4, <2>1, <2>2, <2>3, <3>2, <3>3, <4>1
    <3>5. QED
      BY <3>1, <3>4
  <2>4. CASE ~InSession
    <3>1. cursor < Midnight(day)
      BY <1>1, <2>4 DEF InSession
    <3>2. {b.start : b \in Seen} = {}
      <4>1. \A b \in today : b.start \in Nat /\ Midnight(day) <= b.start
        BY <1>1, TodaysBars
      <4>2. QED
        BY <1>1, <3>1, <4>1 DEF Seen
    <3>3. {t \in missing : SessionDay(t) = day} = {}
      <4>1. \A t \in missing : t \in Int /\ t < Midnight(day)
        <5>1. missing \subseteq Int /\ \A t \in missing : t <= cursor
          BY <1>1 DEF GapInv
        <5>2. QED
          BY <1>1, <3>1, <5>1
      <4>2. ASSUME NEW t \in missing, SessionDay(t) = day PROVE FALSE
        <5>1. t \in Int /\ t < Midnight(day) /\ Midnight(day) <= t
          BY <4>1, <4>2, DayOfMoment
        <5>2. QED
          BY <1>1, <5>1
      <4>3. QED
        BY <4>2
    <3>4. \A t : t \in GridOf(day, bar.start) <=> t \in Skipped(bar) \/ t = bar.start
      BY <1>1, <1>3, <1>4, <2>1, <2>2, <2>4
    <3>5. QED
      BY <3>2, <3>3, <3>4
  <2>5. QED
    BY <2>3, <2>4
<1>11. GridOf(day, bar.start) = {b.start : b \in Seen'} \cup {t \in missing' : SessionDay(t) = day}
  BY <1>8, <1>9, <1>10
<1>12. OpenOf(day) <= bar.start
  BY <1>1, <1>2, <1>3, <1>4
<1>13. /\ GridOf(day, cursor)' = GridOf(day, bar.start) /\ OpenOf(day)' = OpenOf(day)
       /\ {t \in missing : SessionDay(t) = day}' = {t \in missing' : SessionDay(t) = day}
       /\ {b.start : b \in Seen}' = {b.start : b \in Seen'}
  BY <1>1 DEF GridOf, OpenOf, Midnight, OnGrid
<1>14. QED
  BY <1>1, <1>2, <1>5, <1>6, <1>11, <1>12, <1>13 DEF GapInv

LEMMA GapInvInit == Init => GapInv
<1> SUFFICES ASSUME Init PROVE GapInv
  OBVIOUS
<1>1. missing = {} /\ turn = "session"
  BY DEF Init, ReplayInit
<1>2. QED
  BY <1>1 DEF GapInv

(* A step that reads no bar leaves the gaps as they are.                   *)
LEMMA GapsKept ==
  ASSUME InData, GapInv, Running, missing' = missing, expected' = expected, cursor' = cursor,
         turn' = "session" \/ (turn # "session" /\ turn' # "session" /\ day' = day /\ today' = today)
  PROVE  GapInv'
<1>1. missing' \subseteq Int /\ \A t \in missing' : t <= cursor'
  BY DEF GapInv
<1>2. CASE turn' = "session"
  BY <1>1, <1>2 DEF GapInv
<1>3. CASE turn' # "session"
  <2>1. turn # "session" /\ day' = day /\ today' = today
    BY <1>3
  <2>2. /\ InSession' <=> InSession
        /\ OpenOf(day)' = OpenOf(day) /\ GridOf(day, cursor)' = GridOf(day, cursor)
        /\ {b.start : b \in Seen}' = {b.start : b \in Seen}
        /\ {t \in missing : SessionDay(t) = day}' = {t \in missing : SessionDay(t) = day}
    BY <1>3, <2>1 DEF InSession, Seen, OpenOf, Midnight, GridOf, OnGrid
  <2>3. QED
    BY <1>1, <2>1, <2>2 DEF GapInv
<1>4. QED
  BY <1>2, <1>3

LEMMA GapStep ==
  ASSUME ReplayInv, GapInv, [Next]_vars
  PROVE  GapInv'
<1> SUFFICES ASSUME Running' PROVE GapInv'
  BY DEF GapInv
<1>1. InData /\ AdapterInv /\ SeenInv
  BY DEF ReplayInv, AdapterInv
<1>2. CASE SkipDay
  <2>1. UNCHANGED <<replay_vars, cursor, turn>> /\ turn = "session"
    BY <1>2 DEF SkipDay
  <2>2. QED
    BY <1>1, <2>1, GapsKept DEF replay_vars, Running
<1>3. CASE StartSession
  <2>1. PICK bars \in StoredSessions(day) \ {{}} :
          ValidSession(bars) /\ today' = bars /\ (ReplayStartSession(day, bars) \/ ReplayOver)
    BY <1>3 DEF StartSession
  <2>2. turn = "session" /\ turn' = "bar" /\ day < Days /\ day' = day /\ cursor' = cursor
        /\ cursor < Midnight(day) /\ day \in 0 .. Days - 1 /\ cursor \in Int /\ Midnight(day) \in Int
    BY <1>1, <1>3, DayIsInt DEF StartSession, InData
  <2>3. /\ Running /\ missing' = missing
        /\ expected' = Opens(CHOOSE b \in bars : TRUE)
    BY <2>1 DEF ReplayOver, replay_vars, ReplayStartSession, Running
  <2>4. (CHOOSE b \in bars : TRUE) \in bars
    BY <2>1
  <2>5. expected' = OpenOf(day)
    <3>1. \A b \in bars : Opens(b) = OpenOf(day)
      BY <2>1, <2>2, StoredBars, WindowOfBar
    <3>2. QED
      BY <2>3, <2>4, <3>1
  <2>6. ~InSession'
    BY <2>2 DEF InSession, Midnight
  <2>7. missing' \subseteq Int /\ \A t \in missing' : t <= cursor'
    BY <2>2, <2>3 DEF GapInv
  <2>8. OpenOf(day)' = OpenOf(day)
    BY <2>2 DEF OpenOf, Midnight
  <2>9. QED
    BY <2>5, <2>6, <2>7, <2>8 DEF GapInv
<1>4. CASE GiveBar
  <2>1. PICK bar \in AnyBar : \E minutes :
           /\ Given(bar)
           /\ \/ ~Running /\ UNCHANGED replay_vars
              \/ BarEnds(bar, minutes)
              \/ BarGoesOn(bar, minutes)
    BY <1>1, <1>4, GiveBarCases
  <2>2. PICK minutes : BarGoesOn(bar, minutes)
    BY <2>1 DEF BarEnds, replay_vars, Running
  <2>3. QED
    BY <1>1, <2>1, <2>2, GapsOnBar
<1>5. CASE AskStrategy
  <2>1. PICK bar \in AnyBar : \E takes \in BOOLEAN :
           /\ Asked(bar)
           /\ \/ ~Running /\ UNCHANGED replay_vars
              \/ DecisionGoesOn(bar, takes)
    BY <1>1, <1>5, AskCases
  <2>2. PICK takes \in BOOLEAN : DecisionGoesOn(bar, takes)
    BY <2>1 DEF replay_vars, Running
  <2>3. /\ Running /\ missing' = missing /\ expected' = expected
        /\ cursor' = cursor /\ day' = day /\ today' = today /\ turn # "session" /\ turn' # "session"
    BY <2>1, <2>2 DEF DecisionGoesOn, Asked
  <2>4. QED
    BY <1>1, <2>3, GapsKept
<1>6. CASE EndSession
  <2>1. turn' = "session" /\ cursor' = cursor /\ (ReplayEndSession \/ ReplayOver)
    BY <1>6 DEF EndSession
  <2>2. ReplayEndSession
    BY <2>1 DEF ReplayOver, replay_vars, Running
  <2>3. QED
    BY <1>1, <2>1, <2>2, AdapterEnds, GapsKept
<1>7. CASE MeasureRun \/ Finished \/ UNCHANGED vars
  <2>1. UNCHANGED <<replay_vars, data_vars>>
    BY <1>7 DEF MeasureRun, Finished, vars
  <2>2. /\ Running /\ missing' = missing /\ expected' = expected /\ cursor' = cursor /\ turn' = turn
        /\ day' = day /\ today' = today
    BY <2>1 DEF replay_vars, data_vars, Running
  <2>3. QED
    BY <1>1, <2>2, GapsKept
<1>8. QED
  BY <1>2, <1>3, <1>4, <1>5, <1>6, <1>7 DEF Next

-----------------------------------------------------------------------------
(* The session log of the backtest: one record for each session so far.    *)
LoggedOnce(r) ==
  \/ r.session \in trading_sessions /\ r.status # "NO_DATA"
  \/ turn = "session" /\ day = Days /\ r \in NoData(trading_sessions)

LogInv ==
  /\ result # None => EngineRuns /\ turn = "session" /\ day = Days
                      /\ NoData(trading_sessions) \subseteq session_log
  /\ EngineRuns =>
       /\ \A d \in trading_sessions :
            d \in 0 .. Days - 1 /\ IsTradingDay(d) /\ (d < day \/ (d = day /\ turn # "session"))
       /\ turn # "session" => day \in trading_sessions
       /\ day = Days /\ Days # 0 => trading_sessions # {}
       /\ \A r \in session_log : LoggedOnce(r)
       /\ \A r, s \in session_log : r.session = s.session => r = s
       /\ \A d \in trading_sessions :
            d < day \/ ~tradable => \E r \in session_log : r.session = d
       /\ turn # "session" /\ tradable => \A r \in session_log : r.session # day

LEMMA NoDataRecords ==
  ASSUME NEW days, NEW r, r \in NoData(days)
  PROVE  /\ r.session \notin days /\ r.status = "NO_DATA"
         /\ \A s \in NoData(days) : r.session = s.session => r = s
BY DEF NoData

LEMMA LogInvInit == Init => LogInv
<1> SUFFICES ASSUME Init PROVE LogInv
  OBVIOUS
<1>1. trading_sessions = {} /\ turn = "session" /\ session_log = {} /\ result = None /\ day = 0
  BY DEF Init, EngineInit
<1>2. QED
  BY <1>1 DEF LogInv

LEMMA LogKept ==
  ASSUME LogInv, EngineRuns, result = None,
         UNCHANGED <<trading_sessions, session_log, tradable, result, day>>,
         turn # "session", turn' # "session"
  PROVE  LogInv'
BY DEF LogInv, LoggedOnce

LEMMA LogStopped ==
  ASSUME LogInv, result = None, result' = None, ~EngineRuns'
  PROVE  LogInv'
BY DEF LogInv

LEMMA LogOnStart ==
  ASSUME InData, LogInv, turn = "session", day < Days, NEW bars,
         EngineStartSession(day, bars), trading_sessions' = trading_sessions \cup {day},
         turn' = "bar", day' = day
  PROVE  LogInv'
<1>1. EngineRuns /\ result = None /\ result' = None /\ day \in 0 .. Days - 1
  BY DaysIsNat, DayIsInt DEF LogInv, EngineStartSession, EngineRuns, InData
<1>2. CASE ~EngineRuns'
  BY <1>1, <1>2, LogStopped
<1>3. CASE EngineRuns'
  <2>1. /\ IsTradingDay(day) /\ (tradable' <=> HasOpeningRange(bars))
        /\ session_log' = IF HasOpeningRange(bars) THEN session_log
                          ELSE session_log \cup {[session |-> day, status |-> "UNTRADABLE_NO_OPENING_RANGE"]}
    BY <1>1, <1>3 DEF EngineStartSession, EngineRuns
  <2>2. PICK new : new = [session |-> day, status |-> "UNTRADABLE_NO_OPENING_RANGE"]
    OBVIOUS
  <2>3. new.session = day /\ new.status # "NO_DATA"
    BY <2>2
  <2>4. \A r \in session_log : r.session \in trading_sessions /\ r.status # "NO_DATA"
    BY <1>1 DEF LogInv, LoggedOnce
  <2>5. \A d \in trading_sessions : d \in 0 .. Days - 1 /\ IsTradingDay(d) /\ d < day /\ d # day
    BY <1>1, DayIsInt DEF LogInv
  <2>6. /\ \A r, s \in session_log : r.session = s.session => r = s
        /\ \A d \in trading_sessions : \E r \in session_log : r.session = d
    BY <1>1, <2>5 DEF LogInv
  <2>7. /\ \A r \in session_log' : r \in session_log \/ (r = new /\ ~tradable')
        /\ session_log \subseteq session_log' /\ (~tradable' => new \in session_log')
    BY <2>1, <2>2
  <2>8. \A r \in session_log' : LoggedOnce(r)'
    BY <2>3, <2>4, <2>7 DEF LoggedOnce
  <2>9. \A r, s \in session_log' : r.session = s.session => r = s
    BY <2>3, <2>4, <2>5, <2>6, <2>7
  <2>10. /\ \A d \in trading_sessions' : d < day \/ ~tradable' => \E r \in session_log' : r.session = d
         /\ tradable' => \A r \in session_log' : r.session # day
    BY <1>1, <2>3, <2>4, <2>5, <2>6, <2>7, DayIsInt
  <2>11. /\ \A d \in trading_sessions' : d \in 0 .. Days - 1 /\ IsTradingDay(d) /\ (d < day \/ d = day)
         /\ day \in trading_sessions'
    BY <1>1, <2>1, <2>5
  <2>12. QED
    BY <1>1, <2>8, <2>9, <2>10, <2>11 DEF LogInv
<1>4. QED
  BY <1>2, <1>3

LEMMA LogOnEnd ==
  ASSUME InData, LogInv, turn = "bar", EngineEndSession(day), trading_sessions' = trading_sessions,
         turn' = "session", day' = day + 1
  PROVE  LogInv'
<1>1. EngineRuns /\ result = None /\ result' = None /\ day \in Int /\ Days \in Nat
  BY DayIsInt DEF LogInv, EngineEndSession, EngineRuns
<1>2. CASE ~EngineRuns'
  BY <1>1, <1>2, LogStopped
<1>3. CASE EngineRuns'
  <2>1. /\ tradable' = tradable
        /\ session_log' = IF tradable THEN session_log \cup {[session |-> day, status |-> StatusOf(day)]}
                                      ELSE session_log
    BY <1>1, <1>3 DEF EngineEndSession, EngineRuns
  <2>2. PICK new : new = [session |-> day, status |-> StatusOf(day)]
    OBVIOUS
  <2>3. new.session = day /\ new.status # "NO_DATA"
    BY <2>2 DEF StatusOf
  <2>4. /\ \A r \in session_log : r.session \in trading_sessions /\ r.status # "NO_DATA"
        /\ tradable => \A r \in session_log : r.session # day
        /\ \A r, s \in session_log : r.session = s.session => r = s
        /\ \A d \in trading_sessions : d < day \/ ~tradable => \E r \in session_log : r.session = d
        /\ day \in trading_sessions
    BY <1>1 DEF LogInv, LoggedOnce
  <2>5. /\ \A r \in session_log' : r \in session_log \/ (r = new /\ tradable)
        /\ session_log \subseteq session_log' /\ (tradable => new \in session_log')
    BY <2>1, <2>2
  <2>6. \A d \in trading_sessions : d \in 0 .. Days - 1 /\ IsTradingDay(d) /\ d < day + 1
                                    /\ (d < day \/ d = day)
    BY <1>1 DEF LogInv
  <2>7. \A r \in session_log' : LoggedOnce(r)'
    BY <2>3, <2>4, <2>5 DEF LoggedOnce
  <2>8. \A r, s \in session_log' : r.session = s.session => r = s
    BY <2>3, <2>4, <2>5
  <2>9. \A d \in trading_sessions : \E r \in session_log' : r.session = d
    <3>1. ASSUME NEW d \in trading_sessions PROVE \E r \in session_log' : r.session = d
      <4>1. CASE d = day /\ tradable
        BY <2>3, <2>5, <4>1
      <4>2. CASE d < day \/ ~tradable
        BY <2>4, <2>5, <4>2
      <4>3. QED
        BY <2>6, <4>1, <4>2
    <3>2. QED
      BY <3>1
  <2>10. QED
    BY <1>1, <2>4, <2>6, <2>7, <2>8, <2>9 DEF LogInv
<1>4. QED
  BY <1>2, <1>3

LEMMA LogOnFinish ==
  ASSUME InData, LogInv, turn = "session", day = Days, EngineFinish(trading_sessions),
         trading_sessions' = trading_sessions, turn' = turn, day' = day
  PROVE  LogInv'
<1>1. EngineRuns /\ result = None /\ tradable' = tradable
      /\ session_log' = session_log \cup NoData(trading_sessions)
  BY DEF EngineFinish, EngineRuns
<1>2. CASE ~EngineRuns'
  <2>1. result' = None
    BY <1>1, <1>2 DEF EngineFinish, EngineRuns
  <2>2. QED
    BY <1>1, <1>2, <2>1, LogStopped
<1>3. CASE EngineRuns'
  <2>1. /\ \A r \in session_log : \/ r.session \in trading_sessions /\ r.status # "NO_DATA"
                                \/ r \in NoData(trading_sessions)
        /\ \A r, s \in session_log : r.session = s.session => r = s
        /\ \A d \in trading_sessions : d < day \/ ~tradable => \E r \in session_log : r.session = d
        /\ \A d \in trading_sessions : d \in 0 .. Days - 1 /\ IsTradingDay(d)
                                       /\ (d < day \/ (d = day /\ turn # "session"))
        /\ day = Days /\ Days # 0 => trading_sessions # {}
    BY <1>1 DEF LogInv, LoggedOnce
  <2>2. PICK blanks : blanks = NoData(trading_sessions)
    OBVIOUS
  <2>3. /\ \A r \in blanks : r.session \notin trading_sessions /\ r.status = "NO_DATA"
        /\ \A r, s \in blanks : r.session = s.session => r = s
    BY <2>2, NoDataRecords
  <2>4. session_log' = session_log \cup blanks
    BY <1>1, <2>2
  <2>5. \A r, s \in session_log' : r.session = s.session => r = s
    BY <2>1, <2>2, <2>3, <2>4
  <2>6. NoData(trading_sessions)' = blanks
    BY <2>2 DEF NoData, UpTo, LastOf
  <2>7. \A r \in session_log' : LoggedOnce(r)'
    BY <2>1, <2>2, <2>4, <2>6 DEF LoggedOnce
  <2>8. QED
    BY <1>1, <1>3, <2>1, <2>4, <2>5, <2>6, <2>7 DEF LogInv
<1>4. QED
  BY <1>2, <1>3

LEMMA LogStep ==
  ASSUME ReplayInv, LogInv, [Next]_vars
  PROVE  LogInv'
<1>1. InData /\ SeenInv
  BY DEF ReplayInv, AdapterInv
<1>2. CASE SkipDay
  <2>1. /\ UNCHANGED <<engine_vars, trading_sessions, turn>> /\ turn = "session" /\ day' = day + 1
        /\ day < Days /\ (day = Days - 1 => trading_sessions # {})
    BY <1>2 DEF SkipDay
  <2>2. /\ day \in Int /\ Days \in Int /\ result = None /\ result' = None
        /\ tradable' = tradable /\ session_log' = session_log /\ (EngineRuns' <=> EngineRuns)
    BY <1>1, <2>1, DayIsInt DEF LogInv, engine_vars, EngineRuns
  <2>3. CASE ~EngineRuns
    BY <2>2, <2>3 DEF LogInv
  <2>4. CASE EngineRuns
    <3>1. \A d \in trading_sessions : d \in 0 .. Days - 1 /\ IsTradingDay(d) /\ d < day /\ d < day + 1
      BY <2>1, <2>2, <2>4 DEF LogInv
    <3>2. \A r \in session_log : LoggedOnce(r)'
      BY <2>1, <2>2, <2>4 DEF LogInv, LoggedOnce
    <3>3. \A r, s \in session_log : r.session = s.session => r = s
      BY <2>4 DEF LogInv
    <3>4. \A d \in trading_sessions : \E r \in session_log : r.session = d
      BY <2>4, <3>1 DEF LogInv
    <3>5. day + 1 = Days => trading_sessions # {}
      BY <2>1, <2>2
    <3>6. QED
      BY <2>1, <2>2, <3>1, <3>2, <3>3, <3>4, <3>5 DEF LogInv
  <2>5. QED
    BY <2>3, <2>4
<1>3. CASE StartSession
  <2>1. PICK bars \in StoredSessions(day) \ {{}} : EngineStartSession(day, bars) \/ EngineOver
    BY <1>3 DEF StartSession
  <2>2. /\ turn = "session" /\ turn' = "bar" /\ day < Days /\ day' = day
        /\ trading_sessions' = trading_sessions \cup {day}
    BY <1>3 DEF StartSession
  <2>3. CASE EngineStartSession(day, bars)
    BY <1>1, <2>2, <2>3, LogOnStart
  <2>4. CASE EngineOver
    <3>1. ~EngineRuns /\ ~EngineRuns' /\ result' = result
      BY <2>4 DEF EngineOver, engine_vars, EngineRuns
    <3>2. QED
      BY <3>1 DEF LogInv
  <2>5. QED
    BY <2>1, <2>3, <2>4
<1>4. CASE GiveBar
  <2>1. PICK bar \in AnyBar : \E minutes :
           Given(bar) /\ (EngineFills(bar, minutes) \/ EngineOver)
    BY <1>1, <1>4, GiveBarCases
  <2>2. PICK minutes : EngineFills(bar, minutes) \/ EngineOver
    BY <2>1
  <2>3. turn = "bar" /\ turn' = "decide" /\ trading_sessions' = trading_sessions /\ day' = day
    BY <2>1 DEF Given
  <2>4. /\ result' = result /\ (EngineRuns' => EngineRuns)
        /\ EngineRuns => tradable' = tradable /\ session_log' = session_log
    BY <2>2, EngineBarCases DEF EngineOver, engine_vars, EngineRuns
  <2>5. result = None
    BY <2>3 DEF LogInv
  <2>6. CASE EngineRuns
    BY <2>3, <2>4, <2>5, <2>6, LogKept, LogStopped
  <2>7. QED
    BY <2>4, <2>5, <2>6 DEF LogInv
<1>5. CASE AskStrategy
  <2>1. PICK bar \in AnyBar : \E takes \in BOOLEAN :
           Asked(bar) /\ (EngineDecides(today, bar, prior_atr, takes) \/ EngineOver)
    BY <1>1, <1>5, AskCases
  <2>2. PICK takes \in BOOLEAN : EngineDecides(today, bar, prior_atr, takes) \/ EngineOver
    BY <2>1
  <2>3. turn = "decide" /\ turn' = "bar" /\ trading_sessions' = trading_sessions /\ day' = day
    BY <2>1 DEF Asked
  <2>4. /\ result' = result /\ (EngineRuns' => EngineRuns)
        /\ EngineRuns => tradable' = tradable /\ session_log' = session_log
    BY <2>2 DEF EngineDecides, EngineOver, engine_vars, EngineRuns
  <2>5. result = None
    BY <2>3 DEF LogInv
  <2>6. CASE EngineRuns
    BY <2>3, <2>4, <2>5, <2>6, LogKept, LogStopped
  <2>7. QED
    BY <2>4, <2>5, <2>6 DEF LogInv
<1>6. CASE EndSession
  <2>1. /\ turn = "bar" /\ turn' = "session" /\ day' = day + 1 /\ trading_sessions' = trading_sessions
        /\ EngineEndSession(day) \/ EngineOver
    BY <1>6 DEF EndSession
  <2>2. CASE EngineEndSession(day)
    BY <1>1, <2>1, <2>2, LogOnEnd
  <2>3. CASE EngineOver
    <3>1. ~EngineRuns /\ ~EngineRuns' /\ result' = result
      BY <2>3 DEF EngineOver, engine_vars, EngineRuns
    <3>2. QED
      BY <3>1 DEF LogInv
  <2>4. QED
    BY <2>1, <2>2, <2>3
<1>7. CASE MeasureRun
  BY <1>1, <1>7, LogOnFinish DEF MeasureRun, data_vars
<1>8. CASE Finished \/ UNCHANGED vars
  <2>1. UNCHANGED <<engine_vars, data_vars>>
    BY <1>8 DEF Finished, vars
  <2>2. UNCHANGED <<engine, tradable, session_log, result, trading_sessions, turn, day>>
    BY <2>1 DEF engine_vars, data_vars
  <2>3. NoData(trading_sessions)' = NoData(trading_sessions)
    BY <2>2 DEF NoData, UpTo, LastOf
  <2>4. QED
    BY <2>2, <2>3 DEF LogInv, LoggedOnce, EngineRuns
<1>9. QED
  BY <1>2, <1>3, <1>4, <1>5, <1>6, <1>7, <1>8 DEF Next

-----------------------------------------------------------------------------
(* Both gap reports.                                                       *)
LEMMA LastSession ==
  ASSUME trading_sessions \subseteq 0 .. Days - 1, trading_sessions # {}
  PROVE  /\ LastOf(trading_sessions) \in trading_sessions
         /\ \A d \in trading_sessions : d <= LastOf(trading_sessions)
<1>1. IsFiniteSet(0 .. Days - 1)
  BY DaysIsNat, FS_Interval
<1>2. IsFiniteSet(trading_sessions) /\ trading_sessions \in SUBSET Int
  <2>1. IsFiniteSet(trading_sessions)
    BY <1>1, FS_Subset
  <2>2. 0 .. Days - 1 \subseteq Int
    BY DaysIsNat
  <2>3. QED
    BY <2>1, <2>2
<1>3. \E x \in trading_sessions : \A y \in trading_sessions : y <= x
  BY <1>2, GreatestNumber
<1>4. QED
  BY <1>3 DEF LastOf

LEMMA DaysAreLogged ==
  ASSUME LogInv, result # None, NEW d \in 0 .. Days - 1
  PROVE  LET logged == {r \in session_log : r.session = d}
         IN  IF IsTradingDay(d) /\ \E last \in trading_sessions : d <= last
             THEN \E r \in logged : /\ logged = {r}
                                    /\ r.status = "NO_DATA" <=> d \in sessions_without_data
             ELSE logged = {}
<1> DEFINE logged == {r \in session_log : r.session = d}
<1>1. /\ EngineRuns /\ turn = "session" /\ day = Days /\ NoData(trading_sessions) \subseteq session_log
      /\ \A r \in session_log : \/ r.session \in trading_sessions /\ r.status # "NO_DATA"
                                \/ r \in NoData(trading_sessions)
      /\ \A r, s \in session_log : r.session = s.session => r = s
  BY DEF LogInv, LoggedOnce
<1>2. /\ \A e \in trading_sessions : e \in 0 .. Days - 1 /\ IsTradingDay(e) /\ e < day
      /\ trading_sessions # {}
      /\ \A e \in trading_sessions : e < day => \E r \in session_log : r.session = e
  BY <1>1, DaysIsNat DEF LogInv
<1>3. PICK last \in trading_sessions :
        last = LastOf(trading_sessions) /\ \A e \in trading_sessions : e <= last
  BY <1>2, LastSession
<1>4. last \in Int /\ d \in Int /\ 0 <= d /\ \A e \in trading_sessions : e \in Int
  BY <1>2, DaysIsNat
<1>5. (\E e \in trading_sessions : d <= e) <=> d <= last
  BY <1>3, <1>4
<1>6. /\ \A r \in NoData(trading_sessions) :
           /\ r.session \in 0 .. last /\ IsTradingDay(r.session) /\ r.session \notin trading_sessions
           /\ r.status = "NO_DATA"
      /\ IsTradingDay(d) /\ d <= last /\ d \notin trading_sessions =>
           \E r \in NoData(trading_sessions) : r.session = d
  <2>1. UpTo(trading_sessions) = {e \in 0 .. last : IsTradingDay(e)}
    BY <1>3 DEF UpTo
  <2>2. ASSUME NEW r \in NoData(trading_sessions)
        PROVE  /\ r.session \in 0 .. last /\ IsTradingDay(r.session)
               /\ r.session \notin trading_sessions /\ r.status = "NO_DATA"
    <3>1. PICK e \in UpTo(trading_sessions) \ trading_sessions : r = [session |-> e, status |-> "NO_DATA"]
      BY DEF NoData
    <3>2. QED
      BY <2>1, <3>1
  <2>3. ASSUME IsTradingDay(d), d <= last, d \notin trading_sessions
        PROVE  \E r \in NoData(trading_sessions) : r.session = d
    <3>1. d \in UpTo(trading_sessions) \ trading_sessions
      BY <1>4, <2>1, <2>3
    <3>2. [session |-> d, status |-> "NO_DATA"] \in NoData(trading_sessions)
      BY <3>1 DEF NoData
    <3>3. QED
      BY <3>2
  <2>4. QED
    BY <2>2, <2>3
<1>7. CASE IsTradingDay(d) /\ d <= last
  <2>1. \E r \in session_log : r.session = d
    BY <1>1, <1>2, <1>6, <1>7
  <2>2. PICK r \in session_log : r.session = d
    BY <2>1
  <2>3. logged = {r}
    BY <1>1, <2>2
  <2>4. r.status = "NO_DATA" <=> d \notin trading_sessions
    BY <1>1, <1>6, <2>2
  <2>5. QED
    BY <1>5, <1>7, <2>2, <2>3, <2>4 DEF sessions_without_data
<1>8. CASE ~(IsTradingDay(d) /\ d <= last)
  <2>1. ASSUME NEW r \in session_log, r.session = d PROVE FALSE
    <3>1. d \notin trading_sessions
      BY <1>2, <1>3, <1>8
    <3>2. r \in NoData(trading_sessions)
      BY <1>1, <2>1, <3>1
    <3>3. d \in 0 .. last /\ IsTradingDay(d)
      BY <1>6, <2>1, <3>2
    <3>4. QED
      BY <1>4, <1>8, <3>3
  <2>2. logged = {}
    BY <2>1
  <2>3. QED
    BY <1>5, <1>8, <2>2
<1>9. QED
  BY <1>7, <1>8

LEMMA GapsReported == ReplayInv /\ GapInv /\ LogInv => GapsAreReported
<1> SUFFICES ASSUME ReplayInv, GapInv, LogInv PROVE GapsAreReported
  OBVIOUS
<1>1. ASSUME turn # "session", Running, cursor >= day * DayLength
      PROVE  {t \in day * DayLength + SessionOpen .. cursor :
                (t - SessionOpen - day * DayLength) % Interval = 0}
             = {b.start : b \in {c \in today : c.start <= cursor}}
               \cup {t \in missing : SessionDay(t) = day}
  <2>1. InData /\ day \in Int /\ cursor \in Int /\ Midnight(day) \in Int /\ SessionOpen \in Int
    BY DayIsInt, CalendarAssumption DEF ReplayInv
  <2>2. day * DayLength = Midnight(day) /\ InSession
    BY <1>1, <2>1 DEF Midnight, InSession
  <2>3. GridOf(day, cursor) = {b.start : b \in Seen} \cup {t \in missing : SessionDay(t) = day}
    BY <1>1, <2>2 DEF GapInv
  <2>4. ASSUME NEW t \in OpenOf(day) .. cursor
        PROVE  OnGrid(t) <=> (t - SessionOpen - Midnight(day)) % Interval = 0
    <3>1. t \in Int /\ OpenOf(day) \in Int
      BY <2>1, WindowFollowsOpen
    <3>2. t - SessionOpen - Midnight(day) = t - OpenOf(day)
      BY <2>1, <3>1 DEF OpenOf
    <3>3. OnGrid(t - OpenOf(day)) <=> OnGrid(t)
      BY <2>1, <3>1, GridFromOpen
    <3>4. QED
      BY <3>2, <3>3 DEF OnGrid
  <2>5. GridOf(day, cursor) = {t \in OpenOf(day) .. cursor : (t - SessionOpen - Midnight(day)) % Interval = 0}
    BY <2>4 DEF GridOf
  <2>6. QED
    BY <2>2, <2>3, <2>5 DEF OpenOf, Seen
<1>2. ASSUME result # None, NEW d \in 0 .. Days - 1
      PROVE  LET logged == {r \in session_log : r.session = d}
             IN  IF IsTradingDay(d) /\ \E last \in trading_sessions : d <= last
                 THEN \E r \in logged : /\ logged = {r}
                                        /\ r.status = "NO_DATA" <=> d \in sessions_without_data
                 ELSE logged = {}
  BY <1>2, DaysAreLogged
<1>3. QED
  BY <1>1, <1>2 DEF GapsAreReported

(* No gap goes unreported: what the replay has read of a session and what  *)
(* it reports missing are the grid of the session up to there, and the     *)
(* backtest logs every trading day up to the last once, as one without     *)
(* data if and only if the loader reports it.                              *)
THEOREM NoGapGoesUnreported == Spec => []GapsAreReported
<1>1. ReplayInv /\ GapInv /\ [Next]_vars => GapInv'
  BY GapStep
<1>2. ReplayInv /\ LogInv /\ [Next]_vars => LogInv'
  BY LogStep
<1>3. QED
  BY <1>1, <1>2, GapInvInit, LogInvInit, GapsReported, ReplayInvHolds, PTL DEF Spec

-----------------------------------------------------------------------------
(* The same position and the same trade, but for the size.                 *)
SameButSize(f, g) ==
  /\ f.side = g.side /\ f.reason = g.reason /\ f.price = g.price
  /\ f.occurred_at = g.occurred_at /\ f.bar_start = g.bar_start

SamePosition(p, h) ==
  /\ p.intent.signal = h.intent.signal /\ p.intent.entry_bar_start = h.intent.entry_bar_start
  /\ SameButSize(p.entry, h.entry)

LEMMA LegsAgree ==
  ASSUME NEW f \in AnyFill, NEW g \in AnyFill, SameButSize(f, g)
  PROVE  SameLeg(f, g)
<1>1. \A h : [h EXCEPT !.quantity = 0, !.costs = 0] =
              [x \in DOMAIN h |-> IF x = "costs" THEN 0 ELSE IF x = "quantity" THEN 0 ELSE h[x]]
  OBVIOUS
<1>2. DOMAIN f = DOMAIN g
  BY DEF AnyFill
<1>3. \A x \in DOMAIN f : x \notin {"costs", "quantity"} => f[x] = g[x]
  BY DEF AnyFill, SameButSize
<1>4. QED
  BY <1>1, <1>2, <1>3 DEF SameLeg

(* A bar makes the same of two positions that differ in size.              *)
LEMMA SameExitKind ==
  ASSUME NEW p, NEW h, SamePosition(p, h), NEW bar, NEW minutes
  PROVE  /\ Risk(p.intent, p.entry) = Risk(h.intent, h.entry)
         /\ ExitOn(p, bar, minutes) = ExitOn(h, bar, minutes)
         /\ CannotBeWalked(p, bar, minutes) <=> CannotBeWalked(h, bar, minutes)
<1>1. /\ p.intent.signal = h.intent.signal /\ p.entry.price = h.entry.price
      /\ p.intent.entry_bar_start = h.intent.entry_bar_start
  BY DEF SamePosition, SameButSize
<1>2. Risk(p.intent, p.entry) = Risk(h.intent, h.entry)
  BY <1>1 DEF Risk
<1>3. TargetPrice(p.intent, p.entry) = TargetPrice(h.intent, h.entry)
  BY <1>1, <1>2 DEF TargetPrice
<1>4. \A b : /\ StopTouched(p.intent, b) <=> StopTouched(h.intent, b)
             /\ TargetReached(p.intent, p.entry, b) <=> TargetReached(h.intent, h.entry, b)
  BY <1>1, <1>3 DEF StopTouched, TargetReached
<1>5. \A b : Silent(p.intent, p.entry, b) <=> Silent(h.intent, h.entry, b)
  BY <1>4 DEF Silent
<1>6. Loud(p.intent, p.entry, bar, minutes) = Loud(h.intent, h.entry, bar, minutes)
  BY <1>5 DEF Loud
<1>7. ResolveCollision(p.intent, p.entry, bar, minutes) = ResolveCollision(h.intent, h.entry, bar, minutes)
  BY <1>4, <1>6 DEF ResolveCollision
<1>8. ResolveExit(p.intent, p.entry, bar, minutes) = ResolveExit(h.intent, h.entry, bar, minutes)
  BY <1>4, <1>7 DEF ResolveExit
<1>9. \A b : LevelUnpriced(p.intent, p.entry, b) <=> LevelUnpriced(h.intent, h.entry, b)
  BY <1>1, <1>3, <1>4 DEF LevelUnpriced, StopReference, Gapped
<1>10. WalkUnpriced(p.intent, p.entry, bar, minutes) <=> WalkUnpriced(h.intent, h.entry, bar, minutes)
  BY <1>4, <1>6, <1>9 DEF WalkUnpriced
<1>11. ExitUnpriced(p.intent, p.entry, bar, minutes) <=> ExitUnpriced(h.intent, h.entry, bar, minutes)
  BY <1>1, <1>8, <1>9, <1>10 DEF ExitUnpriced, Unresolved
<1>12. CannotBeWalked(p, bar, minutes) <=> CannotBeWalked(h, bar, minutes)
  BY <1>1, <1>2, <1>8, <1>11 DEF CannotBeWalked, ExitWalkRaises, Unresolved
<1>13. QED
  BY <1>2, <1>8, <1>12 DEF ExitOn

LEMMA SameTradeMade ==
  ASSUME NEW p \in AnyPosition, NEW h \in AnyPosition, SamePosition(p, h), NEW bar \in AnyBar,
         NEW minutes, ExitOn(p, bar, minutes).reason # "none"
  PROVE  SameTrade(TradeOn(p, ExitOn(p, bar, minutes), bar), TradeOn(h, ExitOn(h, bar, minutes), bar))
<1>1. PICK exit : exit = ExitOn(p, bar, minutes)
  OBVIOUS
<1>2. exit = ExitOn(h, bar, minutes)
  BY <1>1, SameExitKind
<1>3. PICK t : t = TradeOn(p, exit, bar)
  OBVIOUS
<1>4. PICK u : u = TradeOn(h, exit, bar)
  OBVIOUS
<1>5. t \in AnyTrade /\ t.entry = p.entry /\ u \in AnyTrade /\ u.entry = h.entry
  <2>1. ExitOn(h, bar, minutes).reason # "none"
    BY <1>1, <1>2
  <2>2. t = TradeOn(p, ExitOn(p, bar, minutes), bar) /\ u = TradeOn(h, ExitOn(h, bar, minutes), bar)
    BY <1>1, <1>2, <1>3, <1>4
  <2>3. t \in AnyTrade /\ t.entry = p.entry
    BY <2>2, TradeMade
  <2>4. u \in AnyTrade /\ u.entry = h.entry
    BY <2>1, <2>2, TradeMade
  <2>5. QED
    BY <2>3, <2>4
<1>6. p.intent.signal = h.intent.signal /\ p.entry.price = h.entry.price /\ SameButSize(p.entry, h.entry)
  BY DEF SamePosition, SameButSize
<1>7. p.entry \in AnyFill /\ h.entry \in AnyFill
  BY DEF AnyPosition
<1>8. ExitReference(p.intent, p.entry, exit.reason, bar) = ExitReference(h.intent, h.entry, exit.reason, bar)
  <2>1. TargetPrice(p.intent, p.entry) = TargetPrice(h.intent, h.entry)
    BY <1>6 DEF TargetPrice, Risk
  <2>2. StopReference(p.intent, bar) = StopReference(h.intent, bar)
    BY <1>6 DEF StopReference, Gapped
  <2>3. QED
    BY <2>1, <2>2 DEF ExitReference
<1>9. PICK reference : reference = ExitReference(p.intent, p.entry, exit.reason, bar)
  OBVIOUS
<1>10. /\ t.exit = ExitFill(p.intent, exit.reason, reference, bar)
       /\ u.exit = ExitFill(h.intent, exit.reason, reference, bar)
       /\ t.direction = p.intent.signal.direction /\ u.direction = h.intent.signal.direction
       /\ t.ambiguity = exit.ambiguity /\ u.ambiguity = exit.ambiguity
  BY <1>3, <1>4, <1>8, <1>9 DEF TradeOn, CloseTrade
<1>11. ExitMoment(p.intent, exit.reason, bar) = ExitMoment(h.intent, exit.reason, bar)
  BY <1>6 DEF ExitMoment, Gapped
<1>12. SameButSize(t.exit, u.exit)
  BY <1>6, <1>10, <1>11 DEF ExitFill, MakeFill, SameButSize
<1>13. t.exit \in AnyFill /\ u.exit \in AnyFill
  BY <1>5 DEF AnyTrade
<1>14. SameLeg(t.exit, u.exit) /\ SameLeg(t.entry, u.entry)
  BY <1>5, <1>6, <1>7, <1>12, <1>13, LegsAgree
<1>15. QED
  BY <1>1, <1>2, <1>3, <1>4, <1>6, <1>10, <1>14 DEF SameTrade

LEMMA SameEntered ==
  ASSUME NEW i \in AnyIntent, NEW j \in AnyIntent, i.signal = j.signal,
         i.entry_bar_start = j.entry_bar_start, NEW bar \in AnyBar
  PROVE  SamePosition(Entered(i, bar), Entered(j, bar))
<1>1. /\ Entered(i, bar).intent = i /\ Entered(i, bar).entry = EntryFill(i, bar)
      /\ Entered(j, bar).intent = j /\ Entered(j, bar).entry = EntryFill(j, bar)
  BY EnteredPosition
<1>2. SameButSize(EntryFill(i, bar), EntryFill(j, bar))
  BY DEF EntryFill, MakeFill, SameButSize
<1>3. QED
  BY <1>1, <1>2 DEF SamePosition

-----------------------------------------------------------------------------
(* Where the two programs stand to each other while both run: the same     *)
(* trades, the same position, the same entry awaited, and none of the last *)
(* two in a session without its opening range.                             *)
TradesMatch ==
  Len(trades) = Len(closed) /\ \A i \in DOMAIN trades : SameTrade(trades[i], closed[i])
HeldMatch == ((position = None) <=> (held = None)) /\ (position # None => SamePosition(position, held))
AwaitMatch ==
  ((working = None) <=> (pending = 0)) /\ (working # None => orders[working].signal = Awaited)

Matched ==
  /\ TradesMatch /\ HeldMatch /\ AwaitMatch
  /\ turn # "session" /\ ~tradable => working = None /\ position = None

(* What ends the comparison, and for good.                                 *)
Settled ==
  \/ declined
  \/ replay \in {"no_range", "off_grid"}
  \/ engine = "unsizeable"
  \/ ~Running /\ ~EngineRuns

ParityInv == Settled \/ (Running /\ EngineRuns /\ Matched)

LEMMA OverStays ==
  ASSUME [Next]_vars
  PROVE  (~Running => replay' = replay) /\ (~EngineRuns => engine' = engine) /\ (declined => declined')
<1>1. CASE SkipDay
  BY <1>1 DEF SkipDay, replay_vars, engine_vars
<1>2. CASE StartSession
  BY <1>2 DEF StartSession, ReplayStartSession, EngineStartSession, ReplayOver, EngineOver,
     replay_vars, engine_vars, EngineRuns
<1>3. CASE GiveBar
  <2>1. PICK bar, minutes : /\ ReplayBar(bar, minutes) \/ ReplayOver
                            /\ EngineFills(bar, minutes) \/ EngineOver
    BY <1>3 DEF GiveBar
  <2>2. declined' = declined
    BY <1>3 DEF GiveBar
  <2>3. ~Running => replay' = replay
    BY <2>1 DEF ReplayBar, ReplayOver, replay_vars
  <2>4. ~EngineRuns => engine' = engine
    BY <2>1 DEF EngineFills, EngineOver, engine_vars, EngineRuns
  <2>5. QED
    BY <2>2, <2>3, <2>4
<1>4. CASE AskStrategy
  <2>1. PICK bar, takes : /\ Decide(bar, prior_atr, takes) \/ ReplayOver
                          /\ EngineDecides(today, bar, prior_atr, takes) \/ EngineOver
    BY <1>4 DEF AskStrategy
  <2>2. declined => declined'
    BY <1>4 DEF AskStrategy
  <2>3. ~Running => replay' = replay
    BY <2>1 DEF Decide, ReplayOver, replay_vars
  <2>4. ~EngineRuns => engine' = engine
    BY <2>1 DEF EngineDecides, EngineOver, engine_vars, EngineRuns
  <2>5. QED
    BY <2>2, <2>3, <2>4
<1>5. CASE EndSession
  BY <1>5 DEF EndSession, ReplayEndSession, EngineEndSession, ReplayOver, EngineOver,
     replay_vars, engine_vars, EngineRuns
<1>6. CASE MeasureRun
  BY <1>6 DEF MeasureRun, EngineFinish, replay_vars, data_vars, EngineRuns
<1>7. CASE Finished \/ UNCHANGED vars
  BY <1>7 DEF Finished, vars, replay_vars, engine_vars, data_vars
<1>8. QED
  BY <1>1, <1>2, <1>3, <1>4, <1>5, <1>6, <1>7 DEF Next

LEMMA SettledStays ==
  ASSUME [Next]_vars, Settled
  PROVE  Settled'
<1>1. (~Running => replay' = replay) /\ (~EngineRuns => engine' = engine) /\ (declined => declined')
  BY OverStays
<1>2. CASE declined
  BY <1>1, <1>2 DEF Settled
<1>3. CASE replay \in {"no_range", "off_grid"}
  BY <1>1, <1>3 DEF Settled, Running
<1>4. CASE engine = "unsizeable"
  BY <1>1, <1>4 DEF Settled, EngineRuns
<1>5. CASE ~Running /\ ~EngineRuns
  BY <1>1, <1>5 DEF Settled, Running, EngineRuns
<1>6. QED
  BY <1>2, <1>3, <1>4, <1>5 DEF Settled

(* What stays as it was stays matched.                                     *)
LEMMA MatchedKept ==
  ASSUME Matched, UNCHANGED <<trades, closed, position, held, working, pending, orders, signal_log>>,
         turn' # "session" /\ ~tradable' => working = None /\ position = None
  PROVE  Matched'
  BY DEF Matched, TradesMatch, HeldMatch, AwaitMatch, Awaited

LEMMA ParityOnStart ==
  ASSUME ReplayInv, Running, EngineRuns, Matched, StartSession
  PROVE  ParityInv'
<1>1. PICK bars : ReplayStartSession(day, bars) /\ EngineStartSession(day, bars)
  BY DEF StartSession, ReplayOver, EngineOver, EngineRuns
<1>2. turn = "session" /\ working = None /\ position = None
  <2>1. turn = "session"
    BY DEF StartSession
  <2>2. QED
    BY <2>1, WorkingOnlyInABar, HeldOnlyInASession DEF ReplayInv, AdapterInv
<1>3. CASE IsTradingDay(day)
  <2>1. replay' = replay /\ engine' = engine
    BY <1>1, <1>3 DEF ReplayStartSession, EngineStartSession
  <2>2. UNCHANGED <<trades, closed, position, held, working, pending, orders, signal_log>>
    BY <1>1 DEF ReplayStartSession, EngineStartSession, paper_vars
  <2>3. Matched'
    BY <1>2, <2>2, MatchedKept
  <2>4. QED
    BY <2>1, <2>3 DEF ParityInv, Running, EngineRuns
<1>4. CASE ~IsTradingDay(day)
  BY <1>1, <1>4 DEF ReplayStartSession, EngineStartSession, ParityInv, Settled, Running, EngineRuns
<1>5. QED
  BY <1>3, <1>4

(* Both enter on the same bar, raise or not alike, and then hold the same. *)
LEMMA BothDue ==
  ASSUME Matched, NEW bar
  PROVE  /\ EntersNow(bar) <=> Enters(bar)
         /\ EntersNow(bar) => orders[working].signal = Awaited
         /\ TakesEntry(bar) <=> ~EntryRaises(bar)
<1>1. /\ EntersNow(bar) <=> Enters(bar)
      /\ EntersNow(bar) => orders[working].signal = Awaited
  BY DEF Matched, AwaitMatch, EntersNow, Enters
<1>2. QED
  BY <1>1 DEF TakesEntry, EntryRaises

LEMMA BothEnter ==
  ASSUME ReplayInv, EngineInv, Running, EngineRuns, Matched, NEW bar, Given(bar), ~EntryRaises(bar)
  PROVE  /\ EntersNow(bar) => HeldNow(bar) # None
         /\ (HeldNow(bar) = None) <=> (HeldOn(bar) = None)
         /\ HeldNow(bar) # None =>
              /\ HeldNow(bar) \in AnyPosition /\ HeldOn(bar) \in AnyPosition
              /\ SamePosition(HeldNow(bar), HeldOn(bar))
<1>1. /\ InData /\ WorkingInv /\ PositionInv /\ AwaitingInv /\ HeldMatch
  BY DEF ReplayInv, AdapterInv, EngineInv, Matched
<1>2. bar \in AnyBar
  BY <1>1, GivenBar
<1>3. EntersNow(bar) <=> Enters(bar)
  BY BothDue
<1>4. CASE EntersNow(bar)
  <2>1. working # None /\ Enters(bar) /\ orders[working].signal = Awaited
    BY <1>4, BothDue DEF EntersNow
  <2>2. AwaitedIntent \in AnyIntent
    BY <1>1, <2>1, DueOrNotWorking
  <2>3. EngineIntent(bar) \in AnyIntent
    BY <1>1, <1>2, <2>1, EngineIntended
  <2>4. /\ AwaitedIntent.signal = EngineIntent(bar).signal
        /\ AwaitedIntent.entry_bar_start = EngineIntent(bar).entry_bar_start
    BY <2>1 DEF AwaitedIntent, EngineIntent
  <2>5. /\ HeldNow(bar) = Entered(AwaitedIntent, bar)
        /\ HeldOn(bar) = Entered(EngineIntent(bar), bar)
    BY <1>3, <1>4 DEF HeldNow, HeldOn, Entered
  <2>6. /\ Entered(AwaitedIntent, bar) \in AnyPosition /\ Entered(AwaitedIntent, bar) # None
        /\ Entered(EngineIntent(bar), bar) \in AnyPosition /\ Entered(EngineIntent(bar), bar) # None
        /\ SamePosition(Entered(AwaitedIntent, bar), Entered(EngineIntent(bar), bar))
    BY <1>2, <2>2, <2>3, <2>4, EnteredPosition, SameEntered
  <2>7. QED
    BY <2>5, <2>6
<1>5. CASE ~EntersNow(bar)
  <2>1. HeldNow(bar) = position /\ HeldOn(bar) = held
    BY <1>3, <1>5 DEF HeldNow, HeldOn
  <2>2. position # None => position \in AnyPosition
    BY <1>1 DEF PositionInv, HeldToday
  <2>3. held # None => held \in AnyPosition
    BY <1>1 DEF AwaitingInv
  <2>4. QED
    BY <1>1, <1>5, <2>1, <2>2, <2>3 DEF HeldMatch
<1>6. QED
  BY <1>4, <1>5

LEMMA BothWalk ==
  ASSUME ReplayInv, EngineInv, Running, EngineRuns, Matched, NEW bar, NEW minutes, Given(bar),
         ~EntryRaises(bar)
  PROVE  (HeldNow(bar) # None /\ CannotBeWalked(HeldNow(bar), bar, minutes)) <=> FillsRaise(bar, minutes)
<1>1. (HeldNow(bar) = None) <=> (HeldOn(bar) = None)
  BY BothEnter
<1>2. ASSUME HeldNow(bar) # None
      PROVE  CannotBeWalked(HeldNow(bar), bar, minutes) <=> CannotBeWalked(HeldOn(bar), bar, minutes)
  BY <1>2, BothEnter, SameExitKind
<1>3. QED
  BY <1>1, <1>2 DEF FillsRaise, CannotBeWalked

(* What the replay cannot execute the backtest cannot either.              *)
LEMMA BothRaise ==
  ASSUME ReplayInv, EngineInv, Running, EngineRuns, Matched, NEW bar, NEW minutes, Given(bar),
         RaisesOn(bar, minutes)
  PROVE  tradable /\ FillsRaise(bar, minutes)
<1>1. FillsRaise(bar, minutes)
  <2>1. CASE EntryRaises(bar)
    BY <2>1 DEF FillsRaise
  <2>2. CASE ~EntryRaises(bar)
    BY <2>2, BothDue, BothWalk DEF RaisesOn
  <2>3. QED
    BY <2>1, <2>2
<1>2. tradable
  <2>1. working # None \/ position # None
    BY DEF RaisesOn, TakesEntry, HeldNow, EntersNow
  <2>2. turn # "session"
    BY DEF Given
  <2>3. QED
    BY <2>1, <2>2 DEF Matched
<1>3. QED
  BY <1>1, <1>2

(* A bar both go on with.                                                  *)
LEMMA ParityOnBar ==
  ASSUME ReplayInv, EngineInv, Running, EngineRuns, Matched, tradable,
         NEW bar, NEW minutes, Given(bar), BarGoesOn(bar, minutes), EngineLeaves(bar, minutes)
  PROVE  TradesMatch' /\ HeldMatch' /\ AwaitMatch'
<1>1. /\ InData /\ WorkingInv /\ TradesInv /\ ClosedInv /\ TradesMatch /\ bar \in AnyBar
  BY GivenBar DEF ReplayInv, AdapterInv, EngineInv, Matched
<1>2. OrdersMove(bar) /\ GoesOn(bar, minutes)
  BY DEF BarGoesOn
<1>3. AwaitMatch'
  <2>1. working' = None
    BY <1>1, <1>2, DueOrNotWorking DEF OrdersMove
  <2>2. pending' = 0
    BY DEF EngineLeaves
  <2>3. QED
    BY <2>1, <2>2 DEF AwaitMatch
<1>0. ~EntryRaises(bar)
  BY DEF EngineLeaves
<1>4. CASE HeldNow(bar) = None
  <2>1. HeldOn(bar) = None
    BY <1>0, <1>4, BothEnter
  <2>2. position' = None /\ held' = None /\ trades' = trades /\ closed' = closed
    BY <1>2, <1>4, <2>1 DEF GoesOn, EngineLeaves
  <2>3. QED
    BY <1>1, <1>3, <2>2 DEF HeldMatch, TradesMatch
<1>5. CASE HeldNow(bar) # None
  <2>1. /\ HeldOn(bar) # None /\ SamePosition(HeldNow(bar), HeldOn(bar))
        /\ HeldNow(bar) \in AnyPosition /\ HeldOn(bar) \in AnyPosition
    BY <1>0, <1>5, BothEnter
  <2>2. PICK exit : exit = ExitOn(HeldNow(bar), bar, minutes)
    OBVIOUS
  <2>3. exit = ExitOn(HeldOn(bar), bar, minutes)
    BY <2>1, <2>2, SameExitKind
  <2>4. CASE exit.reason = "none"
    <3>1. position' = HeldNow(bar) /\ trades' = trades
      BY <1>2, <2>2, <2>4 DEF GoesOn
    <3>2. held' = HeldOn(bar) /\ closed' = closed
      BY <2>3, <2>4 DEF EngineLeaves
    <3>3. HeldMatch'
      BY <1>5, <2>1, <3>1, <3>2 DEF HeldMatch
    <3>4. TradesMatch'
      BY <1>1, <3>1, <3>2 DEF TradesMatch
    <3>5. QED
      BY <1>3, <3>3, <3>4
  <2>5. CASE exit.reason # "none"
    <3>1. PICK t : t = TradeOn(HeldNow(bar), exit, bar)
      OBVIOUS
    <3>2. PICK u : u = TradeOn(HeldOn(bar), exit, bar)
      OBVIOUS
    <3>3. position' = None /\ trades' = Append(trades, t)
      BY <1>2, <1>5, <2>2, <2>5, <3>1 DEF GoesOn
    <3>4. held' = None /\ closed' = Append(closed, u)
      BY <2>1, <2>3, <2>5, <3>2 DEF EngineLeaves
    <3>5. SameTrade(t, u)
      BY <1>1, <2>1, <2>2, <2>3, <2>5, <3>1, <3>2, SameTradeMade
    <3>6. trades \in Seq(AnyTrade) /\ closed \in Seq(AnyTrade)
      BY <1>1 DEF TradesInv, ClosedInv
    <3>7. /\ Len(trades') = Len(trades) + 1 /\ DOMAIN trades' = 1 .. Len(trades) + 1
          /\ DOMAIN trades = 1 .. Len(trades) /\ Len(trades) \in Nat
          /\ trades'[Len(trades) + 1] = t /\ \A i \in 1 .. Len(trades) : trades'[i] = trades[i]
      BY <3>3, <3>6
    <3>8. /\ Len(closed') = Len(closed) + 1
          /\ closed'[Len(closed) + 1] = u /\ \A i \in 1 .. Len(closed) : closed'[i] = closed[i]
      BY <3>4, <3>6
    <3>9. Len(trades) = Len(closed) /\ \A i \in 1 .. Len(trades) : SameTrade(trades[i], closed[i])
      BY <1>1, <3>7 DEF TradesMatch
    <3>10. \A i \in 1 .. Len(trades) + 1 : SameTrade(trades'[i], closed'[i])
      <4>1. \A i \in 1 .. Len(trades) + 1 : i = Len(trades) + 1 \/ i \in 1 .. Len(trades)
        BY <3>7
      <4>2. QED
        BY <3>5, <3>7, <3>8, <3>9, <4>1
    <3>11. TradesMatch'
      BY <3>7, <3>8, <3>9, <3>10 DEF TradesMatch
    <3>12. HeldMatch'
      BY <3>3, <3>4 DEF HeldMatch
    <3>13. QED
      BY <1>3, <3>11, <3>12
  <2>6. QED
    BY <2>4, <2>5
<1>6. QED
  BY <1>4, <1>5

LEMMA ParityOnGiven ==
  ASSUME ReplayInv, EngineInv, Running, EngineRuns, Matched, GiveBar
  PROVE  ParityInv'
<1>1. InData /\ SeenInv /\ WorkingInv
  BY DEF ReplayInv, AdapterInv
<1>2. PICK bar \in AnyBar : \E minutes :
        /\ Given(bar)
        /\ BarEnds(bar, minutes) \/ BarGoesOn(bar, minutes)
        /\ EngineFills(bar, minutes)
  BY <1>1, GiveBarCases DEF EngineOver, EngineRuns
<1>3. PICK minutes : /\ Given(bar)
                     /\ BarEnds(bar, minutes) \/ BarGoesOn(bar, minutes)
                     /\ EngineFills(bar, minutes)
  BY <1>2
<1>4. /\ tradable' = tradable
      /\ \/ ~tradable /\ UNCHANGED engine_vars
         \/ engine' = "unsizeable"
         \/ tradable /\ FillsRaise(bar, minutes) /\ engine' = "raised"
         \/ tradable /\ ~FillsRaise(bar, minutes) /\ engine' = "running" /\ EngineLeaves(bar, minutes)
  BY <1>3, EngineBarCases
<1>5. CASE engine' = "unsizeable"
  BY <1>5 DEF ParityInv, Settled
<1>6. CASE BarEnds(bar, minutes)
  <2>1. replay' = "off_grid" \/ (~Running' /\ RaisesOn(bar, minutes))
    BY <1>6 DEF BarEnds
  <2>2. CASE RaisesOn(bar, minutes) /\ ~Running'
    <3>1. tradable /\ FillsRaise(bar, minutes)
      BY <1>3, <2>2, BothRaise
    <3>2. ~EngineRuns'
      BY <1>4, <3>1 DEF EngineRuns
    <3>3. QED
      BY <2>2, <3>2 DEF ParityInv, Settled
  <2>3. QED
    BY <2>1, <2>2 DEF ParityInv, Settled
<1>7. CASE BarGoesOn(bar, minutes) /\ ~tradable /\ UNCHANGED engine_vars
  <2>1. working = None /\ position = None
    BY <1>3, <1>7 DEF Matched, Given
  <2>2. HeldNow(bar) = None /\ ~DueNow(bar)
    BY <2>1 DEF HeldNow, EntersNow, DueNow
  <2>3. Running' /\ TakesEntry(bar) /\ OrdersMove(bar) /\ GoesOn(bar, minutes)
    BY <1>7 DEF BarGoesOn
  <2>4. working' = working /\ orders' = orders /\ position' = position /\ trades' = trades
    BY <2>1, <2>2, <2>3 DEF OrdersMove, GoesOn
  <2>5. UNCHANGED <<closed, held, pending, signal_log, engine>>
    BY <1>7 DEF engine_vars
  <2>6. Matched'
    BY <2>1, <2>4, <2>5, MatchedKept
  <2>7. QED
    BY <2>3, <2>5, <2>6 DEF ParityInv, EngineRuns
<1>8. ASSUME BarGoesOn(bar, minutes), FillsRaise(bar, minutes)
      PROVE  FALSE
  <2>1. ~EntryRaises(bar)
    BY <1>8, BothDue DEF BarGoesOn
  <2>2. HeldNow(bar) # None /\ CannotBeWalked(HeldNow(bar), bar, minutes)
    BY <1>3, <1>8, <2>1, BothWalk
  <2>3. QED
    BY <1>8, <2>2 DEF BarGoesOn, GoesOn
<1>9. CASE BarGoesOn(bar, minutes) /\ tradable /\ engine' = "running" /\ EngineLeaves(bar, minutes)
  <2>1. TradesMatch' /\ HeldMatch' /\ AwaitMatch'
    BY <1>3, <1>9, ParityOnBar
  <2>2. tradable' /\ Running'
    BY <1>4, <1>9 DEF BarGoesOn
  <2>3. Matched'
    BY <2>1, <2>2 DEF Matched
  <2>4. QED
    BY <1>9, <2>2, <2>3 DEF ParityInv, EngineRuns
<1>10. QED
  BY <1>3, <1>4, <1>5, <1>6, <1>7, <1>8, <1>9

(* A decision both are asked for.                                          *)
LEMMA ParityOnSubmit ==
  ASSUME ReplayInv, EngineInv, Running, EngineRuns, Matched, NEW bar, Asked(bar),
         NEW signal, Submits(bar, signal, SizeOf(signal, bar)),
         signal_log' = Append(signal_log, [signal |-> signal, accepted |-> TRUE, status |-> "NONE"]),
         signal \in OrbSignals, pending' = Len(signal_log) + 1, held' = held, closed' = closed
  PROVE  TradesMatch' /\ HeldMatch' /\ AwaitMatch'
<1>1. /\ InData /\ DOMAIN orders = BarStarts /\ signal_log \in Seq(Signalled)
      /\ TradesMatch /\ HeldMatch
  BY DEF ReplayInv, OrdersInv, EngineInv, AwaitingInv, Matched
<1>2. bar.start \in BarStarts
  <2>1. bar \in AnyBar
    BY <1>1, TodaysBars DEF Asked, BarsOf
  <2>2. QED
    BY <2>1, BarFields
<1>3. working' = bar.start /\ working' # None /\ orders'[bar.start].signal = signal
  BY <1>1, <1>2, NoneAssumption DEF Submits
<1>4. [signal |-> signal, accepted |-> TRUE, status |-> "NONE"] \in Signalled
  BY DEF Signalled
<1>5. pending' # 0 /\ signal_log'[pending'].signal = signal
  <2>1. PICK record \in Signalled :
          record = [signal |-> signal, accepted |-> TRUE, status |-> "NONE"]
    BY <1>4
  <2>2. signal_log' = Append(signal_log, record) /\ record.signal = signal
    BY <2>1
  <2>3. Len(signal_log) \in Nat /\ signal_log'[Len(signal_log) + 1] = record
    BY <1>1, <2>2
  <2>4. QED
    BY <2>2, <2>3
<1>6. AwaitMatch'
  BY <1>3, <1>5 DEF AwaitMatch, Awaited
<1>7. position' = position /\ trades' = trades
  BY DEF Submits
<1>8. QED
  BY <1>1, <1>6, <1>7 DEF TradesMatch, HeldMatch

LEMMA ParityOnAsked ==
  ASSUME ReplayInv, EngineInv, Running, EngineRuns, Matched, AskStrategy
  PROVE  ParityInv'
<1>1. /\ InData /\ SeenInv /\ WorkingInv /\ LedgerInv /\ OrdersInv
      /\ TradesMatch /\ HeldMatch /\ AwaitMatch
  BY DEF ReplayInv, AdapterInv, Matched
<1>2. PICK bar \in AnyBar : \E takes \in BOOLEAN :
        /\ Asked(bar)
        /\ DecisionGoesOn(bar, takes)
        /\ EngineDecides(today, bar, prior_atr, takes)
        /\ declined' <=> \/ declined
                         \/ /\ Running /\ ~EvaluateRaises(session_bars, bar)
                            /\ Wants(bar, prior_atr)
                            /\ SizeOf(Decision(session_bars, bar, prior_atr), bar) = 0
  BY <1>1, AskCases DEF EngineOver, EngineRuns
<1>3. PICK takes \in BOOLEAN :
        /\ Asked(bar)
        /\ DecisionGoesOn(bar, takes)
        /\ EngineDecides(today, bar, prior_atr, takes)
        /\ declined' <=> \/ declined
                         \/ /\ Running /\ ~EvaluateRaises(session_bars, bar)
                            /\ Wants(bar, prior_atr)
                            /\ SizeOf(Decision(session_bars, bar, prior_atr), bar) = 0
  BY <1>2
<1>4. PICK signal : signal = Decision(session_bars, bar, prior_atr)
  OBVIOUS
<1>5. turn = "decide" /\ turn' = "bar" /\ bar.start = cursor /\ session_bars = Seen
  BY <1>3 DEF Asked, DecisionGoesOn
<1>6. tradable <=> HasOpeningRange(today)
  BY <1>5 DEF EngineInv
<1>7. working = None /\ pending = 0
  BY <1>1, <1>5, WorkingOnlyInABar DEF AwaitMatch
<1>8. /\ engine' = engine /\ tradable' = tradable /\ held' = held /\ closed' = closed
      /\ IF ~tradable \/ signal = None
         THEN signal_log' = signal_log /\ pending' = pending
         ELSE EngineSignals(bar, takes)
  BY <1>1, <1>3, <1>4, <1>5, <1>6, EngineAskCases
<1>9. CASE EvaluateRaises(session_bars, bar)
  BY <1>3, <1>9 DEF DecisionGoesOn, ParityInv, Settled
<1>10. ASSUME ~EvaluateRaises(session_bars, bar), ~tradable
       PROVE  signal = None
  <2>1. ~(bar.start >= WindowEnd(bar))
    BY <1>1, <1>3, <1>5, <1>6, <1>10, CoveredRange
  <2>2. QED
    BY <1>4, <2>1 DEF Decision, Fires
<1>11. CASE /\ ~EvaluateRaises(session_bars, bar)
            /\ ~(Wants(bar, prior_atr) /\ SizeOf(signal, bar) # 0 /\ takes)
  <2>1. /\ UNCHANGED <<orders, working, position, trades>> /\ replay' = replay
    BY <1>3, <1>4, <1>11 DEF DecisionGoesOn, DecidesOn
  <2>2. CASE Wants(bar, prior_atr) /\ SizeOf(signal, bar) = 0
    BY <1>3, <1>4, <1>11, <2>2 DEF ParityInv, Settled
  <2>3. CASE ~Wants(bar, prior_atr) \/ ~takes
    <3>1. pending' = 0
      <4>1. CASE ~tradable \/ signal = None
        BY <1>7, <1>8, <4>1
      <4>2. CASE tradable /\ signal # None
        <5>1. held # None \/ ~takes
          BY <1>1, <1>4, <1>7, <2>3, <4>2 DEF Wants, Busy, HeldMatch
        <5>2. QED
          BY <1>7, <1>8, <4>2, <5>1 DEF EngineSignals
      <4>3. QED
        BY <4>1, <4>2
    <3>2. AwaitMatch'
      BY <1>7, <2>1, <3>1 DEF AwaitMatch
    <3>3. TradesMatch' /\ HeldMatch'
      BY <1>1, <1>8, <2>1 DEF TradesMatch, HeldMatch
    <3>4. ~tradable' => working' = None /\ position' = None
      BY <1>5, <1>8, <2>1 DEF Matched
    <3>5. Matched'
      BY <3>2, <3>3, <3>4 DEF Matched
    <3>6. QED
      BY <1>8, <2>1, <3>5 DEF ParityInv, Running, EngineRuns
  <2>4. QED
    BY <1>11, <2>2, <2>3
<1>12. CASE /\ ~EvaluateRaises(session_bars, bar)
            /\ Wants(bar, prior_atr) /\ SizeOf(signal, bar) # 0 /\ takes
  <2>1. signal # None /\ position = None /\ held = None
    BY <1>1, <1>4, <1>12 DEF Wants, Busy, HeldMatch
  <2>2. signal \in OrbSignals
    BY <1>1, <1>3, <1>4, <1>5, <1>12, <2>1, SubmittedEntry
  <2>3. orders[bar.start] = None
    <3>1. bar.start \in BarStarts
      BY BarFields
    <3>2. QED
      BY <1>1, <1>5, <3>1 DEF OrdersInv, Known
  <2>4. Submits(bar, signal, SizeOf(signal, bar)) /\ replay' = replay
    BY <1>3, <1>4, <1>12, <2>3 DEF DecisionGoesOn, DecidesOn
  <2>5. tradable
    BY <1>10, <1>12, <2>1
  <2>6. EngineSignals(bar, takes)
    BY <1>8, <2>1, <2>5
  <2>7. /\ signal_log' = Append(signal_log, [signal |-> signal, accepted |-> TRUE, status |-> "NONE"])
        /\ pending' = Len(signal_log) + 1
    BY <1>4, <1>5, <1>12, <2>1, <2>6 DEF EngineSignals
  <2>8. TradesMatch' /\ HeldMatch' /\ AwaitMatch'
    BY <1>3, <1>8, <2>2, <2>4, <2>7, ParityOnSubmit
  <2>9. Matched'
    BY <1>8, <2>5, <2>8 DEF Matched
  <2>10. QED
    BY <1>8, <2>4, <2>9 DEF ParityInv, Running, EngineRuns
<1>13. QED
  BY <1>9, <1>11, <1>12

LEMMA ParityOnEnd ==
  ASSUME Running, EngineRuns, Matched, EndSession
  PROVE  ParityInv'
<1>1. ReplayEndSession /\ EngineEndSession(day) /\ turn' = "session"
  BY DEF EndSession, ReplayOver, EngineOver, EngineRuns
<1>2. /\ replay' = (IF position = None THEN "running" ELSE "raised")
      /\ working' = None /\ position' = position /\ trades' = trades
  BY <1>1, AdapterEnds
<1>3. /\ engine' = (IF held = None THEN "running" ELSE "raised")
      /\ pending' = 0 /\ held' = held /\ closed' = closed
  BY <1>1 DEF EngineEndSession
<1>4. (position = None) <=> (held = None)
  BY DEF Matched, HeldMatch
<1>5. Matched'
  BY <1>1, <1>2, <1>3 DEF Matched, TradesMatch, HeldMatch, AwaitMatch
<1>6. QED
  BY <1>2, <1>3, <1>4, <1>5 DEF ParityInv, Settled, Running, EngineRuns

(* The curve of the run is in order: the trades closed one after another.  *)
LEMMA ParityOnFinish ==
  ASSUME ReplayInv, EngineInv, Running, EngineRuns, Matched, MeasureRun
  PROVE  ParityInv'
<1>1. /\ turn = "session" /\ turn' = "session" /\ EngineFinish(trading_sessions)
      /\ UNCHANGED <<replay, trades, position, working, orders>>
  BY DEF MeasureRun, replay_vars, paper_vars, data_vars
<1>2. Metrics!InOrder(StartedAt, closed)
  <2>1. closed \in Seq(AnyTrade) /\ ClosedInv
    BY DEF EngineInv, ClosedInv
  <2>2. StartedAt \in Int /\ StartedAt < 0
    BY EngineAssumption
  <2>3. ASSUME NEW i \in DOMAIN closed
        PROVE  closed[i].exit.occurred_at >=
                 (IF i = 1 THEN StartedAt ELSE closed[i - 1].exit.occurred_at)
    <3>1. i \in 1 .. Len(closed) /\ Len(closed) \in Nat /\ closed[i] \in AnyTrade
      BY <2>1
    <3>2. closed[i].exit.occurred_at \in Int /\ 0 <= closed[i].exit.occurred_at
      BY <2>1, <3>1 DEF ClosedInv, ClosedBefore, AnyTrade, AnyFill
    <3>3. CASE i = 1
      BY <2>2, <3>2, <3>3
    <3>4. CASE i # 1
      <4>1. i > 1 /\ i - 1 \in 1 .. Len(closed)
        BY <3>1, <3>4
      <4>2. closed[i - 1] \in AnyTrade
        BY <2>1, <4>1
      <4>3. closed[i - 1].exit.occurred_at \in Int
        BY <4>2 DEF AnyTrade, AnyFill
      <4>4. closed[i - 1].exit.occurred_at <= closed[i].exit.occurred_at
        BY <2>1, <4>1 DEF ClosedInv
      <4>5. QED
        BY <3>2, <3>4, <4>3, <4>4
    <3>5. QED
      BY <3>3, <3>4
  <2>4. QED
    BY <2>3 DEF Metrics!InOrder
<1>3. /\ engine' = engine /\ UNCHANGED <<tradable, signal_log, pending, held, closed>>
  BY <1>1, <1>2 DEF EngineFinish
<1>4. Matched'
  BY <1>1, <1>3, MatchedKept
<1>5. QED
  BY <1>1, <1>3, <1>4 DEF ParityInv, Running, EngineRuns

LEMMA ParityStep ==
  ASSUME ReplayInv, EngineInv, ParityInv, [Next]_vars
  PROVE  ParityInv'
<1> SUFFICES ASSUME Running, EngineRuns, Matched PROVE ParityInv'
  BY SettledStays DEF ParityInv
<1>1. ASSUME UNCHANGED <<replay_vars, engine_vars, turn>> PROVE ParityInv'
  <2>1. /\ replay' = replay /\ engine' = engine /\ turn' = turn /\ tradable' = tradable
        /\ UNCHANGED <<trades, closed, position, held, working, pending, orders, signal_log>>
    BY <1>1 DEF replay_vars, paper_vars, engine_vars
  <2>2. Matched'
    BY <2>1, MatchedKept DEF Matched
  <2>3. QED
    BY <2>1, <2>2 DEF ParityInv, Running, EngineRuns
<1>2. CASE SkipDay \/ Finished \/ UNCHANGED vars
  BY <1>1, <1>2 DEF SkipDay, Finished, vars, data_vars
<1>3. QED
  BY <1>2, ParityOnStart, ParityOnGiven, ParityOnAsked, ParityOnEnd, ParityOnFinish DEF Next

LEMMA ParityInit == Init => ParityInv
<1> SUFFICES ASSUME Init PROVE Running /\ EngineRuns /\ Matched
  BY DEF ParityInv
<1>1. /\ working = None /\ position = None /\ trades = <<>> /\ replay = "running" /\ turn = "session"
  BY DEF Init, ReplayInit, Paper!Init
<1>2. /\ pending = 0 /\ held = None /\ closed = <<>> /\ engine = "running"
  BY DEF Init, EngineInit
<1>3. Len(trades) = Len(closed) /\ DOMAIN trades = {}
  BY <1>1, <1>2
<1>4. QED
  BY <1>1, <1>2, <1>3 DEF Running, EngineRuns, Matched, TradesMatch, HeldMatch, AwaitMatch

LEMMA TradesAreTheSame == ReplayInv /\ EngineInv /\ ParityInv => SameTradesAsBacktest
<1> SUFFICES ASSUME ReplayInv, EngineInv, ParityInv, ~declined PROVE SameTradesAsBacktest
  BY DEF SameTradesAsBacktest
<1>1. ASSUME BothRun, position # None PROVE SameLeg(position.entry, held.entry)
  <2>1. Matched /\ Running /\ EngineRuns
    BY <1>1 DEF BothRun, ParityInv, Settled, Running, EngineRuns
  <2>2. SamePosition(position, held) /\ held # None
    BY <1>1, <2>1 DEF Matched, HeldMatch
  <2>3. position \in AnyPosition /\ held \in AnyPosition
    BY <1>1, <2>1, <2>2 DEF ReplayInv, AdapterInv, PositionInv, HeldToday, EngineInv, AwaitingInv
  <2>4. position.entry \in AnyFill /\ held.entry \in AnyFill
    BY <2>3 DEF AnyPosition
  <2>5. QED
    BY <2>2, <2>4, LegsAgree DEF SamePosition
<1>2. BothRun => Matched
  BY DEF BothRun, ParityInv, Settled, Running, EngineRuns
<1>3. /\ replay = "raised" => engine # "running"
      /\ engine = "raised" => replay # "running"
  BY DEF ParityInv, Settled, Running, EngineRuns
<1>4. QED
  BY <1>1, <1>2, <1>3 DEF SameTradesAsBacktest, Matched, TradesMatch, HeldMatch, AwaitMatch

(* Whatever sessions are stored and whatever the analyst says of a signal, *)
(* the paper session and the backtest make the same trades of the same     *)
(* bars, size apart, and neither of them stops where the other goes on,    *)
(* but in the three ways SameTradesAsBacktest names.                       *)
THEOREM PaperTradesAsTheBacktest == Spec => []SameTradesAsBacktest
<1>1. ReplayInv /\ EngineInv /\ ParityInv /\ [Next]_vars => ParityInv'
  BY ParityStep
<1>2. QED
  BY <1>1, ParityInit, TradesAreTheSame, ReplayInvHolds, EngineInvHolds, PTL DEF Spec

-----------------------------------------------------------------------------
(* Recursions over the trades of a run: what is defined step by step.      *)
LEMMA InductionUpto ==
  ASSUME NEW l \in Nat, NEW S, 0 \in S, \A n \in 0 .. l - 1 : n \in S => n + 1 \in S
  PROVE  \A n \in 0 .. l : n \in S
<1> DEFINE T == {n \in 0 .. l : n \notin S}
<1> SUFFICES ASSUME T # {} PROVE FALSE
  OBVIOUS
<1>1. T \in SUBSET Nat
  OBVIOUS
<1> HIDE DEF T
<1>2. PICK x \in T : \A y \in T : x <= y
  BY <1>1, LeastNatural
<1>3. x \in 0 .. l /\ x \notin S /\ x # 0
  BY <1>2 DEF T
<1>4. x - 1 \in 0 .. l - 1 /\ x - 1 \in 0 .. l /\ ~(x <= x - 1) /\ (x - 1) + 1 = x
  BY <1>3
<1>5. x - 1 \in S
  BY <1>2, <1>4 DEF T
<1>6. QED
  BY <1>3, <1>4, <1>5

Recursive(D, l, base, step, f) ==
  f \in [0 .. l -> D] /\ f[0] = base /\ \A n \in 1 .. l : f[n] = step[<<n, f[n - 1]>>]

LEMMA RecursionExists ==
  ASSUME NEW D, NEW l \in Nat, NEW base \in D, NEW step \in [(1 .. l) \X D -> D]
  PROVE  \E f : Recursive(D, l, base, step, f)
<1> DEFINE Upto(k, f) == f[0] = base /\ \A n \in 1 .. k : f[n] = step[<<n, f[n - 1]>>]
           S == {k \in Nat : \E f \in [0 .. k -> D] : Upto(k, f)}
<1>1. 0 \in S
  <2>1. [n \in 0 .. 0 |-> base] \in [0 .. 0 -> D] /\ Upto(0, [n \in 0 .. 0 |-> base])
    OBVIOUS
  <2>2. QED
    BY <2>1
<1>2. ASSUME NEW k \in 0 .. l - 1, k \in S PROVE k + 1 \in S
  <2>1. PICK f \in [0 .. k -> D] : Upto(k, f)
    BY <1>2
  <2>2. k \in Nat /\ k + 1 \in 1 .. l /\ k + 1 \in Nat /\ k \in 0 .. k
    BY <1>2
  <2>3. PICK x \in D : x = step[<<k + 1, f[k]>>]
    <3>1. f[k] \in D
      BY <2>1, <2>2
    <3>2. <<k + 1, f[k]>> \in (1 .. l) \X D
      BY <2>2, <3>1
    <3>3. QED
      BY <3>2
  <2> DEFINE g == [n \in 0 .. k + 1 |-> IF n = k + 1 THEN x ELSE f[n]]
  <2>4. g \in [0 .. k + 1 -> D] /\ g[k + 1] = x /\ \A n \in 0 .. k : g[n] = f[n]
    BY <2>1, <2>2
  <2> HIDE DEF g
  <2>5. ASSUME NEW n \in 1 .. k + 1 PROVE g[n] = step[<<n, g[n - 1]>>]
    <3>1. CASE n = k + 1
      <4>1. n - 1 = k /\ g[n - 1] = f[k]
        BY <2>2, <2>4, <3>1
      <4>2. QED
        BY <2>3, <2>4, <3>1, <4>1
    <3>2. CASE n # k + 1
      <4>1. n \in 1 .. k /\ n \in 0 .. k /\ n - 1 \in 0 .. k
        BY <2>2, <3>2
      <4>2. QED
        BY <2>1, <2>4, <4>1
    <3>3. QED
      BY <3>1, <3>2
  <2>6. Upto(k + 1, g)
    BY <2>1, <2>2, <2>4, <2>5
  <2>7. QED
    BY <2>2, <2>4, <2>6
<1> HIDE DEF S
<1>3. l \in S
  BY <1>1, <1>2, InductionUpto
<1>4. PICK f \in [0 .. l -> D] : Upto(l, f)
  BY <1>3 DEF S
<1>5. QED
  BY <1>4 DEF Recursive

(* The sum of a sequence of numbers.                                       *)
Sums(l, a, f) ==
  f \in [0 .. l -> Int] /\ f[0] = 0 /\ \A n \in 1 .. l : f[n] = f[n - 1] + a[n]

LEMMA TotalIsSum ==
  ASSUME NEW l \in Nat, NEW a \in [1 .. l -> Int]
  PROVE  \E f : Sums(l, a, f) /\ Metrics!Total(a) = f[l]
<1> DEFINE Upto(f) == f = [n \in 0 .. l |-> IF n = 0 THEN 0 ELSE f[n - 1] + a[n]]
           t == CHOOSE f : Upto(f)
<1>1. Len(a) = l
  OBVIOUS
<1>2. \E f : Upto(f)
  <2> DEFINE step == [x \in (1 .. l) \X Int |-> x[2] + a[x[1]]]
  <2>1. step \in [(1 .. l) \X Int -> Int]
    OBVIOUS
  <2>2. \A n \in 1 .. l, x \in Int : step[<<n, x>>] = x + a[n]
    OBVIOUS
  <2> HIDE DEF step
  <2>3. PICK base \in Int : base = 0
    OBVIOUS
  <2>4. PICK f : Recursive(Int, l, base, step, f)
    BY <2>1, RecursionExists, Zenon
  <2>5. ASSUME NEW n \in 1 .. l PROVE f[n] = f[n - 1] + a[n]
    <3>1. n - 1 \in 0 .. l
      OBVIOUS
    <3>2. f[n - 1] \in Int
      BY <2>4, <3>1 DEF Recursive
    <3>3. QED
      BY <2>2, <2>4, <3>2 DEF Recursive
  <2>6. f[0] = 0 /\ \A n \in 0 .. l : n # 0 => n \in 1 .. l
    BY <2>3, <2>4 DEF Recursive
  <2>7. Upto(f)
    BY <2>4, <2>5, <2>6 DEF Recursive
  <2>8. QED
    BY <2>7
<1>3. Upto(t)
  BY <1>2
<1>4. Metrics!Total(a) = t[l]
  BY <1>1 DEF Metrics!Total
<1> HIDE DEF t
<1>5. DOMAIN t = 0 .. l /\ t[0] = 0 /\ \A n \in 1 .. l : t[n] = t[n - 1] + a[n]
  BY <1>3
<1>6. \A n \in 0 .. l : t[n] \in Int
  <2> DEFINE S == {n \in 0 .. l : t[n] \in Int}
  <2>1. 0 \in S
    BY <1>5
  <2>2. ASSUME NEW n \in 0 .. l - 1, n \in S PROVE n + 1 \in S
    <3>1. n + 1 \in 1 .. l /\ (n + 1) - 1 = n
      OBVIOUS
    <3>2. t[n + 1] = t[n] + a[n + 1] /\ a[n + 1] \in Int
      BY <1>5, <3>1
    <3>3. QED
      BY <2>2, <3>1, <3>2
  <2> HIDE DEF S
  <2>3. \A n \in 0 .. l : n \in S
    BY <2>1, <2>2, InductionUpto
  <2>4. QED
    BY <2>3 DEF S
<1>7. t \in [0 .. l -> Int]
  BY <1>3, <1>6
<1>8. QED
  BY <1>4, <1>5, <1>7 DEF Sums

LEMMA TotalAtMost ==
  ASSUME NEW l \in Nat, NEW a \in [1 .. l -> Int], NEW g \in [0 .. l -> Int],
         \A n \in 1 .. l : a[n] <= g[n] - g[n - 1]
  PROVE  Metrics!Total(a) <= g[l] - g[0]
<1>1. PICK f : Sums(l, a, f) /\ Metrics!Total(a) = f[l]
  BY TotalIsSum
<1> DEFINE S == {n \in 0 .. l : f[n] <= g[n] - g[0]}
<1>2. 0 \in S
  <2>1. 0 \in 0 .. l
    OBVIOUS
  <2>2. g[0] \in Int /\ f[0] = 0
    BY <1>1, <2>1 DEF Sums
  <2>3. QED
    BY <2>1, <2>2
<1>3. ASSUME NEW n \in 0 .. l - 1, n \in S PROVE n + 1 \in S
  <2>1. n + 1 \in 1 .. l /\ n + 1 \in 0 .. l /\ n \in 0 .. l /\ 0 \in 0 .. l /\ (n + 1) - 1 = n
    OBVIOUS
  <2>2. /\ f[n] \in Int /\ g[n] \in Int /\ g[n + 1] \in Int /\ g[0] \in Int /\ a[n + 1] \in Int
        /\ f[n + 1] = f[n] + a[n + 1] /\ a[n + 1] <= g[n + 1] - g[n] /\ f[n] <= g[n] - g[0]
    BY <1>1, <1>3, <2>1 DEF Sums
  <2>3. f[n + 1] <= g[n + 1] - g[0]
    BY <2>2
  <2>4. QED
    BY <2>1, <2>3
<1> HIDE DEF S
<1>4. \A n \in 0 .. l : n \in S
  BY <1>2, <1>3, InductionUpto
<1>5. l \in 0 .. l
  OBVIOUS
<1>6. QED
  BY <1>1, <1>4, <1>5 DEF S

LEMMA TotalOfSteps ==
  ASSUME NEW l \in Nat, NEW a \in [1 .. l -> Int], NEW g \in [0 .. l -> Int],
         \A n \in 1 .. l : g[n] = g[n - 1] + a[n]
  PROVE  Metrics!Total(a) = g[l] - g[0] /\ Metrics!Total(a) \in Int
<1>1. PICK f : Sums(l, a, f) /\ Metrics!Total(a) = f[l]
  BY TotalIsSum
<1> DEFINE S == {n \in 0 .. l : f[n] = g[n] - g[0]}
<1>2. 0 \in S
  <2>1. 0 \in 0 .. l
    OBVIOUS
  <2>2. g[0] \in Int /\ f[0] = 0
    BY <1>1, <2>1 DEF Sums
  <2>3. QED
    BY <2>1, <2>2
<1>3. ASSUME NEW n \in 0 .. l - 1, n \in S PROVE n + 1 \in S
  <2>1. n + 1 \in 1 .. l /\ n + 1 \in 0 .. l /\ n \in 0 .. l /\ 0 \in 0 .. l /\ (n + 1) - 1 = n
    OBVIOUS
  <2>2. /\ f[n] \in Int /\ g[n] \in Int /\ g[0] \in Int /\ a[n + 1] \in Int
        /\ f[n + 1] = f[n] + a[n + 1] /\ g[n + 1] = g[n] + a[n + 1] /\ f[n] = g[n] - g[0]
    BY <1>1, <1>3, <2>1 DEF Sums
  <2>3. f[n + 1] = g[n + 1] - g[0]
    BY <2>2
  <2>4. QED
    BY <2>1, <2>3
<1> HIDE DEF S
<1>4. \A n \in 0 .. l : n \in S
  BY <1>2, <1>3, InductionUpto
<1>5. l \in 0 .. l /\ f[l] \in Int
  BY <1>1 DEF Sums
<1>6. QED
  BY <1>1, <1>4, <1>5 DEF S

LEMMA TotalIsInt ==
  ASSUME NEW l \in Nat, NEW a \in [1 .. l -> Int]
  PROVE  Metrics!Total(a) \in Int
<1>1. PICK f : Sums(l, a, f) /\ Metrics!Total(a) = f[l]
  BY TotalIsSum
<1>2. l \in 0 .. l
  OBVIOUS
<1>3. QED
  BY <1>1, <1>2 DEF Sums

LEMMA TotalOfDifference ==
  ASSUME NEW l \in Nat, NEW a \in [1 .. l -> Int], NEW b \in [1 .. l -> Int],
         NEW c \in [1 .. l -> Int], \A n \in 1 .. l : c[n] = a[n] - b[n]
  PROVE  Metrics!Total(c) = Metrics!Total(a) - Metrics!Total(b)
<1>1. PICK f : Sums(l, a, f) /\ Metrics!Total(a) = f[l]
  BY TotalIsSum
<1>2. PICK h : Sums(l, b, h) /\ Metrics!Total(b) = h[l]
  BY TotalIsSum
<1> DEFINE g == [n \in 0 .. l |-> f[n] - h[n]]
<1>3. g \in [0 .. l -> Int] /\ \A n \in 0 .. l : g[n] = f[n] - h[n]
  BY <1>1, <1>2 DEF Sums
<1> HIDE DEF g
<1>4. ASSUME NEW n \in 1 .. l PROVE g[n] = g[n - 1] + c[n]
  <2>1. n \in 0 .. l /\ n - 1 \in 0 .. l
    OBVIOUS
  <2>2. /\ f[n - 1] \in Int /\ h[n - 1] \in Int /\ a[n] \in Int /\ b[n] \in Int
        /\ f[n] = f[n - 1] + a[n] /\ h[n] = h[n - 1] + b[n] /\ c[n] = a[n] - b[n]
    BY <1>1, <1>2, <2>1 DEF Sums
  <2>3. g[n] = f[n] - h[n] /\ g[n - 1] = f[n - 1] - h[n - 1]
    BY <1>3, <2>1
  <2>4. QED
    BY <2>2, <2>3
<1>5. Metrics!Total(c) = g[l] - g[0]
  BY <1>3, <1>4, TotalOfSteps
<1>6. 0 \in 0 .. l /\ l \in 0 .. l
  OBVIOUS
<1>7. g[l] = f[l] - h[l] /\ g[0] = 0 - 0 /\ f[l] \in Int /\ h[l] \in Int
  BY <1>1, <1>2, <1>3, <1>6 DEF Sums
<1>8. QED
  BY <1>1, <1>2, <1>5, <1>7

LEMMA TotalOfMore ==
  ASSUME NEW l \in Nat, NEW a \in [1 .. l -> Int], NEW b \in [1 .. l + 1 -> Int],
         \A n \in 1 .. l : b[n] = a[n]
  PROVE  Metrics!Total(b) = Metrics!Total(a) + b[l + 1]
<1>1. PICK f : Sums(l, a, f) /\ Metrics!Total(a) = f[l]
  BY TotalIsSum
<1>2. l \in 0 .. l /\ l + 1 \in Nat /\ l + 1 \in 1 .. l + 1 /\ 0 \in 0 .. l
  OBVIOUS
<1>3. PICK x \in Int : x = f[l] + b[l + 1]
  BY <1>1, <1>2 DEF Sums
<1> DEFINE g == [n \in 0 .. l + 1 |-> IF n = l + 1 THEN x ELSE f[n]]
<1>4. g \in [0 .. l + 1 -> Int] /\ g[l + 1] = x /\ \A n \in 0 .. l : g[n] = f[n]
  BY <1>1 DEF Sums
<1> HIDE DEF g
<1>5. ASSUME NEW n \in 1 .. l + 1 PROVE g[n] = g[n - 1] + b[n]
  <2>1. CASE n = l + 1
    <3>1. n - 1 = l
      BY <2>1
    <3>2. QED
      BY <1>2, <1>3, <1>4, <2>1, <3>1
  <2>2. CASE n # l + 1
    <3>1. n \in 1 .. l /\ n \in 0 .. l /\ n - 1 \in 0 .. l
      BY <2>2
    <3>2. QED
      BY <1>1, <1>4, <3>1 DEF Sums
  <2>3. QED
    BY <2>1, <2>2
<1>6. Metrics!Total(b) = g[l + 1] - g[0]
  BY <1>2, <1>4, <1>5, TotalOfSteps
<1>7. g[0] = 0
  BY <1>1, <1>2, <1>4 DEF Sums
<1>8. QED
  BY <1>1, <1>3, <1>4, <1>6, <1>7

-----------------------------------------------------------------------------
(* The curve of some trades.                                               *)
PaidFor(trade) == trade.gross_pnl - trade.costs = CashDelta(trade.entry) + CashDelta(trade.exit)
SettledBy(led, trade) == AfterExit(AfterEntry(led, trade.entry), trade)

LEMMA MetricsCash ==
  /\ \A capital \in Int : Metrics!Funded(capital) = Funded(capital) /\ Funded(capital) \in AnyLedger
  /\ \A l \in AnyLedger, t \in AnyTrade :
       Metrics!Settled(l, t) = SettledBy(l, t) /\ SettledBy(l, t) \in AnyLedger
<1>1. ASSUME NEW capital \in Int
      PROVE  Metrics!Funded(capital) = Funded(capital) /\ Funded(capital) \in AnyLedger
  BY DEF Metrics!Funded, Funded, AnyLedger
<1>2. ASSUME NEW l \in AnyLedger, NEW t \in AnyTrade
      PROVE  Metrics!Settled(l, t) = SettledBy(l, t) /\ SettledBy(l, t) \in AnyLedger
  <2>1. t.entry \in AnyFill
    BY DEF AnyTrade
  <2>2. SettledBy(l, t) \in AnyLedger
    BY <2>1, LedgerMoves DEF SettledBy
  <2>3. \A f : Metrics!CashDelta(f) = CashDelta(f)
    BY DEF Metrics!CashDelta, CashDelta
  <2>4. \A f : Metrics!AfterEntry(l, f) = AfterEntry(l, f)
    BY <2>3 DEF Metrics!AfterEntry, AfterEntry
  <2>5. \A m : Metrics!AfterExit(m, t) = AfterExit(m, t)
    BY <2>3 DEF Metrics!AfterExit, AfterExit
  <2>6. QED
    BY <2>2, <2>4, <2>5 DEF Metrics!Settled, SettledBy
<1>3. QED
  BY <1>1, <1>2

LEMMA SettledCash ==
  ASSUME NEW l \in AnyLedger, NEW t \in AnyTrade, PaidFor(t)
  PROVE  SettledBy(l, t).cash = l.cash + (t.gross_pnl - t.costs)
<1>1. CashDelta(t.entry) \in Int /\ CashDelta(t.exit) \in Int
  <2>1. \A f \in AnyFill : f.price \in Int /\ f.quantity \in Int /\ f.costs \in Int
    BY DEF AnyFill
  <2>2. \A f \in AnyFill : CashDelta(f) \in Int
    BY <2>1 DEF CashDelta
  <2>3. QED
    BY <2>2 DEF AnyTrade
<1>2. l.cash \in Int
  BY DEF AnyLedger
<1>3. AfterEntry(l, t.entry).cash = l.cash + CashDelta(t.entry)
  BY DEF AfterEntry, AnyLedger
<1>4. SettledBy(l, t).cash = (l.cash + CashDelta(t.entry)) + CashDelta(t.exit)
  BY <1>3 DEF SettledBy, AfterExit
<1>5. QED
  BY <1>1, <1>2, <1>4 DEF PaidFor

Balances(l, capital, tr, f) ==
  /\ f \in [0 .. l -> AnyLedger] /\ f[0] = Funded(capital)
  /\ \A n \in 1 .. l : f[n] = SettledBy(f[n - 1], tr[n])

LEMMA LedgersAreBalances ==
  ASSUME NEW capital \in Int, NEW tr \in Seq(AnyTrade)
  PROVE  Balances(Len(tr), capital, tr, Metrics!Ledgers(capital, tr))
<1> DEFINE l == Len(tr)
           Upto(f) == f = [n \in 0 .. l |-> IF n = 0 THEN Metrics!Funded(capital)
                                                    ELSE Metrics!Settled(f[n - 1], tr[n])]
           t == CHOOSE f : Upto(f)
<1>1. Metrics!Ledgers(capital, tr) = t
  BY DEF Metrics!Ledgers
<1>2. l \in Nat /\ \A n \in 1 .. l : tr[n] \in AnyTrade
  OBVIOUS
<1>3. Metrics!Funded(capital) = Funded(capital) /\ Funded(capital) \in AnyLedger
  BY MetricsCash
<1>4. \A n \in 1 .. l, x \in AnyLedger :
        Metrics!Settled(x, tr[n]) = SettledBy(x, tr[n]) /\ SettledBy(x, tr[n]) \in AnyLedger
  BY <1>2, MetricsCash
<1> HIDE DEF l
<1>5. \E f : Upto(f)
  <2> DEFINE step == [x \in (1 .. l) \X AnyLedger |-> SettledBy(x[2], tr[x[1]])]
  <2>1. step \in [(1 .. l) \X AnyLedger -> AnyLedger]
    BY <1>4
  <2>2. \A n \in 1 .. l, x \in AnyLedger : step[<<n, x>>] = SettledBy(x, tr[n])
    OBVIOUS
  <2> HIDE DEF step
  <2>3. PICK base \in AnyLedger : base = Funded(capital)
    BY <1>3
  <2>4. PICK f : Recursive(AnyLedger, l, base, step, f)
    BY <1>2, <2>1, RecursionExists, Zenon
  <2>5. ASSUME NEW n \in 1 .. l PROVE f[n] = Metrics!Settled(f[n - 1], tr[n])
    <3>1. n - 1 \in 0 .. l
      BY <1>2
    <3>2. f[n - 1] \in AnyLedger
      BY <2>4, <3>1 DEF Recursive
    <3>3. PICK x \in AnyLedger : x = f[n - 1]
      BY <3>2
    <3>4. f[n] = step[<<n, x>>]
      BY <2>4, <3>3 DEF Recursive
    <3>5. step[<<n, x>>] = SettledBy(x, tr[n])
      BY <2>2
    <3>6. Metrics!Settled(x, tr[n]) = SettledBy(x, tr[n])
      BY <1>4
    <3>7. QED
      BY <3>3, <3>4, <3>5, <3>6
  <2>6. f[0] = Metrics!Funded(capital) /\ \A n \in 0 .. l : n # 0 => n \in 1 .. l
    BY <1>2, <1>3, <2>3, <2>4 DEF Recursive
  <2>7. Upto(f)
    BY <2>4, <2>5, <2>6 DEF Recursive
  <2>8. QED
    BY <2>7
<1>6. Upto(t)
  BY <1>5
<1> HIDE DEF t
<1>7. /\ DOMAIN t = 0 .. l /\ t[0] = Funded(capital)
      /\ \A n \in 1 .. l : t[n] = Metrics!Settled(t[n - 1], tr[n])
  BY <1>2, <1>3, <1>6
<1>8. \A n \in 0 .. l : t[n] \in AnyLedger
  <2> DEFINE S == {n \in 0 .. l : t[n] \in AnyLedger}
  <2>1. 0 \in S
    BY <1>2, <1>3, <1>7
  <2>2. ASSUME NEW n \in 0 .. l - 1, n \in S PROVE n + 1 \in S
    <3>1. n + 1 \in 1 .. l /\ n + 1 \in 0 .. l /\ (n + 1) - 1 = n
      BY <1>2
    <3>2. t[n + 1] = Metrics!Settled(t[n], tr[n + 1])
      BY <1>7, <3>1
    <3>3. t[n + 1] \in AnyLedger
      BY <1>4, <2>2, <3>1, <3>2
    <3>4. QED
      BY <3>1, <3>3
  <2> HIDE DEF S
  <2>3. \A n \in 0 .. l : n \in S
    BY <1>2, <2>1, <2>2, InductionUpto
  <2>4. QED
    BY <2>3 DEF S
<1>9. t \in [0 .. l -> AnyLedger]
  BY <1>6, <1>8
<1>10. ASSUME NEW n \in 1 .. l PROVE t[n] = SettledBy(t[n - 1], tr[n])
  <2>1. n - 1 \in 0 .. l
    BY <1>2
  <2>2. QED
    BY <1>4, <1>7, <1>8, <2>1
<1>11. Balances(l, capital, tr, t)
  BY <1>7, <1>9, <1>10 DEF Balances
<1>12. QED
  BY <1>1, <1>11 DEF l

-----------------------------------------------------------------------------
(* The largest fall of a curve of m points.                                *)
Points == [at : Int, equity : Int]
FallStates == [peak : Points, worst : Int, from : Points, trough : Int]
Unfallen(c) == [peak |-> c[1], worst |-> 0, from |-> c[1], trough |-> 1]

(* After n points the peak is their highest, and no fall among them is     *)
(* larger than the one found.                                              *)
Peaks(c, n, s) ==
  (\E p \in 1 .. n : s.peak = c[p]) /\ \A i \in 1 .. n : c[i].equity <= s.peak.equity
Bounds(c, n, s) ==
  \A i, j \in 1 .. n : i <= j => c[i].equity - c[j].equity <= s.worst
IsAFall(c, n, s) ==
  \E i, j \in 1 .. n : /\ i <= j /\ s.from = c[i] /\ s.trough = j
                       /\ s.worst = c[i].equity - c[j].equity
FallInv(c, n, s) ==
  s \in FallStates /\ s.worst >= 0 /\ Peaks(c, n, s) /\ Bounds(c, n, s) /\ IsAFall(c, n, s)

LEMMA FallenCases ==
  ASSUME NEW m \in Nat, NEW c \in [1 .. m -> Points], NEW n \in 1 .. m, NEW s \in FallStates
  PROVE  LET next == Metrics!Fallen(s, c, n)
             peak == Metrics!PeakWith(s.peak, c[n])
         IN  /\ next \in FallStates /\ next.peak = peak
             /\ peak = IF c[n].equity > s.peak.equity THEN c[n] ELSE s.peak
             /\ IF peak.equity - c[n].equity > s.worst
                THEN /\ next.worst = peak.equity - c[n].equity
                     /\ next.from = peak /\ next.trough = n
                ELSE next.worst = s.worst /\ next.from = s.from /\ next.trough = s.trough
<1> DEFINE peak == Metrics!PeakWith(s.peak, c[n])
           fall == peak.equity - c[n].equity
<1>1. peak = IF c[n].equity > s.peak.equity THEN c[n] ELSE s.peak
  BY DEF Metrics!PeakWith
<1>2. peak \in Points
  BY <1>1 DEF FallStates
<1>3. fall \in Int /\ n \in Int
  BY <1>2 DEF Points
<1>4. Metrics!Fallen(s, c, n) = IF fall > s.worst
        THEN [peak |-> peak, worst |-> fall, from |-> peak, trough |-> n]
        ELSE [s EXCEPT !.peak = peak]
  BY DEF Metrics!Fallen
<1> HIDE DEF peak, fall
<1>5. CASE fall > s.worst
  <2>1. Metrics!Fallen(s, c, n) = [peak |-> peak, worst |-> fall, from |-> peak, trough |-> n]
    BY <1>4, <1>5
  <2>2. QED
    BY <1>1, <1>2, <1>3, <1>5, <2>1 DEF FallStates, peak, fall
<1>6. CASE ~(fall > s.worst)
  <2>1. Metrics!Fallen(s, c, n) = [s EXCEPT !.peak = peak]
    BY <1>4, <1>6
  <2>2. [s EXCEPT !.peak = peak] \in FallStates
    BY <1>2 DEF FallStates
  <2>3. /\ [s EXCEPT !.peak = peak].peak = peak /\ [s EXCEPT !.peak = peak].worst = s.worst
        /\ [s EXCEPT !.peak = peak].from = s.from /\ [s EXCEPT !.peak = peak].trough = s.trough
    BY DEF FallStates
  <2>4. QED
    BY <1>1, <1>6, <2>1, <2>2, <2>3 DEF peak, fall
<1>7. QED
  BY <1>5, <1>6

LEMMA FirstPoint ==
  ASSUME NEW m \in Nat, NEW c \in [1 .. m -> Points], 1 <= m
  PROVE  Unfallen(c) \in FallStates /\ FallInv(c, 1, Metrics!Fallen(Unfallen(c), c, 1))
<1> DEFINE s == Unfallen(c)
           next == Metrics!Fallen(s, c, 1)
<1>1. c[1] \in Points /\ 1 \in 1 .. m /\ c[1].equity \in Int
  BY DEF Points
<1>2. s \in FallStates /\ s.peak = c[1] /\ s.worst = 0 /\ s.from = c[1] /\ s.trough = 1
  BY <1>1 DEF Unfallen, FallStates
<1> HIDE DEF s
<1>3. /\ next \in FallStates /\ next.peak = c[1]
      /\ next.worst = 0 /\ next.from = c[1] /\ next.trough = 1
  <2>1. ~(c[1].equity > c[1].equity) /\ ~(c[1].equity - c[1].equity > 0)
    BY <1>1
  <2>2. Metrics!PeakWith(s.peak, c[1]) = c[1]
    BY <1>2 DEF Metrics!PeakWith
  <2>3. QED
    BY <1>1, <1>2, <2>1, <2>2, FallenCases
<1> HIDE DEF next
<1>4. \A i \in 1 .. 1 : i = 1
  OBVIOUS
<1>5. c[1].equity - c[1].equity = 0 /\ c[1].equity <= c[1].equity
  BY <1>1
<1>6. Peaks(c, 1, next) /\ Bounds(c, 1, next)
  BY <1>3, <1>4, <1>5 DEF Peaks, Bounds
<1>7. IsAFall(c, 1, next)
  BY <1>3, <1>5 DEF IsAFall
<1>8. FallInv(c, 1, next)
  BY <1>3, <1>6, <1>7 DEF FallInv
<1>9. QED
  BY <1>2, <1>8 DEF next, s

LEMMA NextPoint ==
  ASSUME NEW m \in Nat, NEW c \in [1 .. m -> Points], NEW n \in 1 .. m, n + 1 <= m,
         NEW s, FallInv(c, n, s)
  PROVE  FallInv(c, n + 1, Metrics!Fallen(s, c, n + 1))
<1> DEFINE k == n + 1
           next == Metrics!Fallen(s, c, k)
           peak == Metrics!PeakWith(s.peak, c[k])
<1>1. /\ k \in 1 .. m /\ k = n + 1 /\ n \in Nat /\ k \in Nat
      /\ \A i \in 1 .. k : i \in 1 .. n \/ i = k
      /\ \A i \in 1 .. n : i \in 1 .. k /\ i <= k /\ i # k
  OBVIOUS
<1>2. /\ s \in FallStates /\ s.worst \in Int /\ s.worst >= 0
      /\ Peaks(c, n, s) /\ Bounds(c, n, s) /\ IsAFall(c, n, s)
  BY DEF FallInv, FallStates
<1>3. \A i \in 1 .. m : c[i] \in Points /\ c[i].equity \in Int
  BY DEF Points
<1> HIDE DEF k
<1>4. /\ next \in FallStates /\ next.peak = peak
      /\ peak = IF c[k].equity > s.peak.equity THEN c[k] ELSE s.peak
      /\ IF peak.equity - c[k].equity > s.worst
         THEN next.worst = peak.equity - c[k].equity /\ next.from = peak /\ next.trough = k
         ELSE next.worst = s.worst /\ next.from = s.from /\ next.trough = s.trough
  BY <1>1, <1>2, FallenCases
<1> HIDE DEF next, peak
<1>5. PICK p \in 1 .. k : peak = c[p]
  BY <1>1, <1>2, <1>4 DEF Peaks
<1>6. s.peak.equity \in Int /\ c[k].equity \in Int /\ peak.equity \in Int /\ p \in 1 .. m /\ p <= k
  <2>1. p \in 1 .. m /\ p <= k
    BY <1>1
  <2>2. s.peak \in Points
    BY <1>2 DEF FallStates
  <2>3. QED
    BY <1>1, <1>3, <1>5, <2>1, <2>2 DEF Points
<1>7. s.peak.equity <= peak.equity /\ c[k].equity <= peak.equity
  BY <1>4, <1>6
<1>8. \A i \in 1 .. k : c[i].equity <= peak.equity
  <2>1. ASSUME NEW i \in 1 .. n PROVE c[i].equity <= peak.equity
    <3>1. c[i].equity <= s.peak.equity /\ c[i].equity \in Int
      BY <1>1, <1>2, <1>3 DEF Peaks
    <3>2. QED
      BY <1>6, <1>7, <3>1
  <2>2. QED
    BY <1>1, <1>7, <2>1
<1>9. Peaks(c, k, next)
  BY <1>4, <1>5, <1>8 DEF Peaks
<1>10. /\ next.worst \in Int /\ s.worst <= next.worst /\ next.worst >= 0
       /\ peak.equity - c[k].equity <= next.worst
  BY <1>2, <1>4, <1>6
<1>11. Bounds(c, k, next)
  <2>1. ASSUME NEW i \in 1 .. k, NEW j \in 1 .. k, i <= j
        PROVE  c[i].equity - c[j].equity <= next.worst
    <3>1. c[i].equity \in Int /\ c[j].equity \in Int
      BY <1>1, <1>3
    <3>2. CASE j = k
      <4>1. c[i].equity <= peak.equity
        BY <1>8
      <4>2. QED
        BY <1>6, <1>10, <3>1, <3>2, <4>1
    <3>3. CASE j # k
      <4>1. j \in 1 .. n
        BY <1>1, <3>3
      <4>2. i \in 1 .. n
        BY <1>1, <2>1, <4>1
      <4>3. c[i].equity - c[j].equity <= s.worst
        BY <1>2, <2>1, <4>1, <4>2 DEF Bounds
      <4>4. QED
        BY <1>2, <1>10, <3>1, <4>3
    <3>4. QED
      BY <3>2, <3>3
  <2>2. QED
    BY <2>1 DEF Bounds
<1>12. IsAFall(c, k, next)
  <2>1. CASE peak.equity - c[k].equity > s.worst
    <3>1. k \in 1 .. k
      BY <1>1
    <3>2. QED
      BY <1>4, <1>5, <1>6, <2>1, <3>1 DEF IsAFall
  <2>2. CASE ~(peak.equity - c[k].equity > s.worst)
    <3>1. PICK i \in 1 .. n, j \in 1 .. n : /\ i <= j /\ s.from = c[i] /\ s.trough = j
                                            /\ s.worst = c[i].equity - c[j].equity
      BY <1>2 DEF IsAFall
    <3>2. i \in 1 .. k /\ j \in 1 .. k
      BY <1>1
    <3>3. QED
      BY <1>4, <2>2, <3>1, <3>2 DEF IsAFall
  <2>3. QED
    BY <2>1, <2>2
<1>13. FallInv(c, k, next)
  BY <1>4, <1>9, <1>10, <1>11, <1>12 DEF FallInv
<1>14. QED
  BY <1>13 DEF next, k

LEMMA WorstFallFound ==
  ASSUME NEW m \in Nat, NEW c \in [1 .. m -> Points], 1 <= m
  PROVE  FallInv(c, m, Metrics!WorstFall(c))
<1> DEFINE Upto(f) == f = [n \in 0 .. m |-> IF n = 0 THEN Unfallen(c)
                                                    ELSE Metrics!Fallen(f[n - 1], c, n)]
           t == CHOOSE f : Upto(f)
<1>1. Len(c) = m
  OBVIOUS
<1>2. Metrics!WorstFall(c) = t[m]
  BY <1>1 DEF Metrics!WorstFall, Unfallen
<1>3. Unfallen(c) \in FallStates /\ FallInv(c, 1, Metrics!Fallen(Unfallen(c), c, 1))
  BY FirstPoint
<1>4. \E f : Upto(f)
  <2> DEFINE step == [x \in (1 .. m) \X FallStates |-> Metrics!Fallen(x[2], c, x[1])]
  <2>1. \A n \in 1 .. m, s \in FallStates : Metrics!Fallen(s, c, n) \in FallStates
    BY FallenCases
  <2>2. step \in [(1 .. m) \X FallStates -> FallStates]
    BY <2>1
  <2>3. \A n \in 1 .. m, s \in FallStates : step[<<n, s>>] = Metrics!Fallen(s, c, n)
    OBVIOUS
  <2> HIDE DEF step
  <2>4. PICK base \in FallStates : base = Unfallen(c)
    BY <1>3
  <2>5. PICK f : Recursive(FallStates, m, base, step, f)
    BY <2>2, RecursionExists, Zenon
  <2>6. ASSUME NEW n \in 1 .. m PROVE f[n] = Metrics!Fallen(f[n - 1], c, n)
    <3>1. n - 1 \in 0 .. m
      OBVIOUS
    <3>2. f[n - 1] \in FallStates
      BY <2>5, <3>1 DEF Recursive
    <3>3. QED
      BY <2>3, <2>5, <3>2 DEF Recursive
  <2>7. f[0] = Unfallen(c) /\ \A n \in 0 .. m : n # 0 => n \in 1 .. m
    BY <2>4, <2>5 DEF Recursive
  <2>8. Upto(f)
    BY <2>5, <2>6, <2>7 DEF Recursive
  <2>9. QED
    BY <2>8
<1>5. Upto(t)
  BY <1>4
<1> HIDE DEF t
<1>6. t[0] = Unfallen(c) /\ \A n \in 1 .. m : t[n] = Metrics!Fallen(t[n - 1], c, n)
  BY <1>5
<1> DEFINE S == {n \in 0 .. m : n = 0 \/ FallInv(c, n, t[n])}
<1>7. 0 \in S
  OBVIOUS
<1>8. ASSUME NEW n \in 0 .. m - 1, n \in S PROVE n + 1 \in S
  <2>1. n + 1 \in 1 .. m /\ n + 1 \in 0 .. m /\ (n + 1) - 1 = n /\ n + 1 <= m
    OBVIOUS
  <2>2. t[n + 1] = Metrics!Fallen(t[n], c, n + 1)
    BY <1>6, <2>1
  <2>3. CASE n = 0
    BY <1>3, <1>6, <2>1, <2>2, <2>3
  <2>4. CASE n # 0
    <3>1. n \in 1 .. m /\ FallInv(c, n, t[n])
      BY <1>8, <2>4
    <3>2. FallInv(c, n + 1, Metrics!Fallen(t[n], c, n + 1))
      BY <2>1, <3>1, NextPoint
    <3>3. QED
      BY <2>1, <2>2, <3>2
  <2>5. QED
    BY <2>3, <2>4
<1> HIDE DEF S
<1>9. \A n \in 0 .. m : n \in S
  BY <1>7, <1>8, InductionUpto
<1>10. m \in 0 .. m /\ m # 0
  OBVIOUS
<1>11. FallInv(c, m, t[m])
  BY <1>9, <1>10 DEF S
<1>12. QED
  BY <1>2, <1>11

-----------------------------------------------------------------------------
FallsOf(m) == {f \in (1 .. m) \X (1 .. m) : f[1] <= f[2]}
BackAt(c, m, f) == \E k \in f[2] .. m : c[k].equity >= c[f[1]].equity

LEMMA DrawdownFound ==
  ASSUME NEW m \in Nat, NEW c \in [1 .. m -> Points], 1 <= m,
         NEW d, d = Metrics!Drawdown(c)
  PROVE  /\ \A f \in FallsOf(m) : c[f[1]].equity - c[f[2]].equity <= d.amount
         /\ \E f \in FallsOf(m) : /\ c[f[1]].equity - c[f[2]].equity = d.amount
                                  /\ d.recovered <=> BackAt(c, m, f)
<1>1. PICK s : s = Metrics!WorstFall(c)
  OBVIOUS
<1>2. FallInv(c, m, s)
  BY <1>1, WorstFallFound
<1>3. Len(c) = m
  OBVIOUS
<1> DEFINE back == {k \in s.trough .. m : c[k].equity >= s.from.equity}
<1>4. d.amount = s.worst
  BY <1>1 DEF Metrics!Drawdown
<1>5. d.recovered <=> (s.worst = 0 \/ back # {})
  BY <1>1, <1>3 DEF Metrics!Drawdown
<1>6. \A f \in FallsOf(m) : c[f[1]].equity - c[f[2]].equity <= s.worst
  <2>1. ASSUME NEW f \in FallsOf(m) PROVE c[f[1]].equity - c[f[2]].equity <= s.worst
    <3>1. f[1] \in 1 .. m /\ f[2] \in 1 .. m /\ f[1] <= f[2]
      BY DEF FallsOf
    <3>2. QED
      BY <1>2, <3>1 DEF FallInv, Bounds
  <2>2. QED
    BY <2>1
<1>7. PICK i \in 1 .. m, j \in 1 .. m : /\ i <= j /\ s.from = c[i] /\ s.trough = j
                                        /\ s.worst = c[i].equity - c[j].equity
  BY <1>2 DEF FallInv, IsAFall
<1>8. PICK f : f = <<i, j>>
  OBVIOUS
<1>9. f \in FallsOf(m) /\ f[1] = i /\ f[2] = j
  BY <1>7, <1>8 DEF FallsOf
<1>10. c[i].equity \in Int /\ c[j].equity \in Int /\ j \in j .. m
  BY DEF Points
<1>11. d.recovered <=> BackAt(c, m, f)
  <2>1. BackAt(c, m, f) <=> back # {}
    BY <1>7, <1>9 DEF BackAt
  <2>2. s.worst = 0 => back # {}
    <3>1. ASSUME s.worst = 0 PROVE j \in back
      <4>1. c[j].equity >= c[i].equity
        BY <1>7, <1>10, <3>1
      <4>2. QED
        BY <1>7, <1>10, <4>1
    <3>2. QED
      BY <3>1
  <2>3. QED
    BY <1>5, <2>1, <2>2
<1>12. c[f[1]].equity - c[f[2]].equity = d.amount
  BY <1>4, <1>7, <1>9
<1>13. QED
  BY <1>4, <1>6, <1>9, <1>11, <1>12

-----------------------------------------------------------------------------
(* What the trades of a run add up to.                                     *)
LEMMA TradeAmounts ==
  ASSUME NEW tr \in Seq(AnyTrade), NEW l, l = Len(tr)
  PROVE  /\ l \in Nat /\ DOMAIN tr = 1 .. l /\ \A i \in 1 .. l : tr[i] \in AnyTrade
         /\ \A t \in AnyTrade :
              /\ t.gross_pnl \in Int /\ t.costs \in Int
              /\ t.entry.occurred_at \in Int /\ t.exit.occurred_at \in Int
              /\ Metrics!Net(t) = t.gross_pnl - t.costs
              /\ Metrics!HoldingTime(t) = t.exit.occurred_at - t.entry.occurred_at
         /\ Metrics!Nets(tr) \in [1 .. l -> Int] /\ Metrics!HoldingTimes(tr) \in [1 .. l -> Int]
         /\ \A i \in 1 .. l : /\ Metrics!Nets(tr)[i] = tr[i].gross_pnl - tr[i].costs
                              /\ Metrics!HoldingTimes(tr)[i]
                                   = tr[i].exit.occurred_at - tr[i].entry.occurred_at
<1>1. l \in Nat /\ DOMAIN tr = 1 .. l /\ \A i \in 1 .. l : tr[i] \in AnyTrade
  OBVIOUS
<1>2. ASSUME NEW t \in AnyTrade
      PROVE  /\ t.gross_pnl \in Int /\ t.costs \in Int
             /\ t.entry.occurred_at \in Int /\ t.exit.occurred_at \in Int
             /\ Metrics!Net(t) = t.gross_pnl - t.costs
             /\ Metrics!HoldingTime(t) = t.exit.occurred_at - t.entry.occurred_at
  BY DEF AnyTrade, AnyFill, Metrics!Net, Metrics!HoldingTime
<1>3. \A i \in 1 .. l : /\ Metrics!Net(tr[i]) \in Int
                        /\ Metrics!Net(tr[i]) = tr[i].gross_pnl - tr[i].costs
                        /\ Metrics!HoldingTime(tr[i]) \in Int
                        /\ Metrics!HoldingTime(tr[i])
                             = tr[i].exit.occurred_at - tr[i].entry.occurred_at
  BY <1>1, <1>2
<1>4. /\ Metrics!Nets(tr) = [i \in 1 .. l |-> Metrics!Net(tr[i])]
      /\ Metrics!HoldingTimes(tr) = [i \in 1 .. l |-> Metrics!HoldingTime(tr[i])]
  BY <1>1 DEF Metrics!Nets, Metrics!HoldingTimes
<1>5. Metrics!Nets(tr) \in [1 .. l -> Int] /\ Metrics!HoldingTimes(tr) \in [1 .. l -> Int]
  BY <1>3, <1>4
<1>6. \A i \in 1 .. l : /\ Metrics!Nets(tr)[i] = Metrics!Net(tr[i])
                        /\ Metrics!HoldingTimes(tr)[i] = Metrics!HoldingTime(tr[i])
  BY <1>4
<1>7. \A i \in 1 .. l : /\ Metrics!Nets(tr)[i] = tr[i].gross_pnl - tr[i].costs
                        /\ Metrics!HoldingTimes(tr)[i]
                             = tr[i].exit.occurred_at - tr[i].entry.occurred_at
  BY <1>3, <1>6
<1>8. QED
  BY <1>1, <1>2, <1>5, <1>7

LEMMA SidesPartition ==
  ASSUME NEW tr \in Seq(AnyTrade), NEW l, l = Len(tr)
  PROVE  /\ Metrics!Of("LONG", tr) \cup Metrics!Of("SHORT", tr) = 1 .. l
         /\ Metrics!Of("LONG", tr) \cap Metrics!Of("SHORT", tr) = {}
<1>1. \A i \in 1 .. l : tr[i].direction = "LONG" \/ tr[i].direction = "SHORT"
  <2>1. \A t \in AnyTrade : t.direction = "LONG" \/ t.direction = "SHORT"
    BY DEF AnyTrade
  <2>2. \A i \in 1 .. l : tr[i] \in AnyTrade
    BY TradeAmounts
  <2>3. QED
    BY <2>1, <2>2
<1>2. DOMAIN tr = 1 .. l
  BY TradeAmounts
<1>3. QED
  BY <1>1, <1>2 DEF Metrics!Of

LEMMA SidesCount ==
  ASSUME NEW tr \in Seq(AnyTrade), NEW l, l = Len(tr)
  PROVE  /\ Metrics!Cardinality(Metrics!Of("LONG", tr)) \in Nat
         /\ Metrics!Cardinality(Metrics!Of("SHORT", tr)) \in Nat
         /\ Metrics!Cardinality(Metrics!Of("LONG", tr))
              + Metrics!Cardinality(Metrics!Of("SHORT", tr)) = l
<1>1. PICK a, b : a = Metrics!Of("LONG", tr) /\ b = Metrics!Of("SHORT", tr)
  OBVIOUS
<1>2. a \cup b = 1 .. l /\ a \cap b = {} /\ a \subseteq 1 .. l /\ b \subseteq 1 .. l
  BY <1>1, SidesPartition
<1>3. l \in Nat /\ 1 \in Int /\ l \in Int
  BY TradeAmounts
<1>4. IsFiniteSet(1 .. l) /\ Cardinality(1 .. l) = l
  <2>1. IsFiniteSet(1 .. l) /\ Cardinality(1 .. l) = IF 1 > l THEN 0 ELSE l - 1 + 1
    BY <1>3, FS_Interval, Zenon
  <2>2. (IF 1 > l THEN 0 ELSE l - 1 + 1) = l
    BY <1>3
  <2>3. QED
    BY <2>1, <2>2, Zenon
<1>5. IsFiniteSet(a) /\ IsFiniteSet(b)
  BY <1>2, <1>4, FS_Subset
<1>6. Cardinality(a) \in Nat /\ Cardinality(b) \in Nat
  BY <1>5, FS_CardinalityType
<1>7. IsFiniteSet({}) /\ Cardinality({}) = 0
  BY FS_EmptySet
<1>8. Cardinality(a \cup b) = Cardinality(a) + Cardinality(b) - Cardinality(a \cap b)
  BY <1>5, FS_Union
<1>9. Cardinality(a) + Cardinality(b) = l
  <2>1. l = Cardinality(a) + Cardinality(b) - 0
    BY <1>2, <1>4, <1>7, <1>8, Zenon
  <2>2. PICK x \in Nat, y \in Nat : x = Cardinality(a) /\ y = Cardinality(b)
    BY <1>6, Zenon
  <2>3. l = x + y - 0
    BY <2>1, <2>2, Zenon
  <2>4. QED
    BY <2>2, <2>3
<1>10. ASSUME NEW S PROVE Metrics!Cardinality(S) = Cardinality(S)
  BY Zenon DEF Metrics!Cardinality, Cardinality
<1>11. QED
  BY <1>1, <1>6, <1>9, <1>10

Grosses(tr, l) == [i \in 1 .. l |-> tr[i].gross_pnl]
ChargesOf(tr, l) == [i \in 1 .. l |-> tr[i].costs]

LEMMA NetIsGrossLessCosts ==
  ASSUME NEW tr \in Seq(AnyTrade), NEW l, l = Len(tr)
  PROVE  Metrics!Total(Metrics!Nets(tr))
           = Metrics!Total(Grosses(tr, l)) - Metrics!Total(ChargesOf(tr, l))
<1>1. l \in Nat /\ Metrics!Nets(tr) \in [1 .. l -> Int]
  BY TradeAmounts
<1>2. \A i \in 1 .. l : tr[i].gross_pnl \in Int /\ tr[i].costs \in Int
  BY TradeAmounts
<1>3. Grosses(tr, l) \in [1 .. l -> Int] /\ ChargesOf(tr, l) \in [1 .. l -> Int]
  BY <1>2 DEF Grosses, ChargesOf
<1>4. \A i \in 1 .. l : Metrics!Nets(tr)[i] = Grosses(tr, l)[i] - ChargesOf(tr, l)[i]
  BY TradeAmounts DEF Grosses, ChargesOf
<1>5. QED
  BY <1>1, <1>3, <1>4, TotalOfDifference

LEMMA SidesAddUp ==
  ASSUME NEW tr \in Seq(AnyTrade)
  PROVE  Metrics!TotalOver(Metrics!Of("LONG", tr), Metrics!Nets(tr))
           + Metrics!TotalOver(Metrics!Of("SHORT", tr), Metrics!Nets(tr))
         = Metrics!Total(Metrics!Nets(tr))
<1>1. PICK l, nets, a, b : /\ l = Len(tr) /\ nets = Metrics!Nets(tr)
                           /\ a = Metrics!Of("LONG", tr) /\ b = Metrics!Of("SHORT", tr)
  OBVIOUS
<1>2. l \in Nat /\ nets \in [1 .. l -> Int]
  BY <1>1, TradeAmounts
<1>3. a \cup b = 1 .. l /\ a \cap b = {}
  BY <1>1, SidesPartition
<1> DEFINE In(places) == [i \in 1 .. l |-> IF i \in places THEN nets[i] ELSE 0]
<1>4. \A places : /\ In(places) \in [1 .. l -> Int]
                  /\ Metrics!TotalOver(places, nets) = Metrics!Total(In(places))
  BY <1>2 DEF Metrics!TotalOver
<1>5. \A i \in 1 .. l : In(a)[i] = nets[i] - In(b)[i]
  <2>1. ASSUME NEW i \in 1 .. l PROVE In(a)[i] = nets[i] - In(b)[i]
    <3>1. nets[i] \in Int /\ (i \in a <=> i \notin b)
      BY <1>2, <1>3
    <3>2. nets[i] - 0 = nets[i] /\ nets[i] - nets[i] = 0
      BY <3>1
    <3>3. QED
      BY <3>1, <3>2
  <2>2. QED
    BY <2>1
<1> HIDE DEF In
<1>6. Metrics!Total(In(a)) = Metrics!Total(nets) - Metrics!Total(In(b))
  BY <1>2, <1>4, <1>5, TotalOfDifference
<1>7. PICK x \in Int, y \in Int, z \in Int :
        x = Metrics!Total(In(a)) /\ y = Metrics!Total(In(b)) /\ z = Metrics!Total(nets)
  BY <1>2, <1>4, TotalIsInt
<1>8. x + y = z
  BY <1>6, <1>7
<1>9. QED
  BY <1>1, <1>4, <1>7, <1>8

LEMMA CashIsCapitalAndNet ==
  ASSUME NEW capital \in Int, NEW tr \in Seq(AnyTrade), NEW l, l = Len(tr),
         \A i \in 1 .. l : PaidFor(tr[i])
  PROVE  /\ Metrics!Total(Metrics!Nets(tr)) \in Int
         /\ Metrics!Ledgers(capital, tr)[l].cash = capital + Metrics!Total(Metrics!Nets(tr))
<1>1. PICK f, nets : f = Metrics!Ledgers(capital, tr) /\ nets = Metrics!Nets(tr)
  OBVIOUS
<1>2. Balances(l, capital, tr, f)
  BY <1>1, LedgersAreBalances
<1>3. l \in Nat /\ nets \in [1 .. l -> Int] /\ \A i \in 1 .. l : tr[i] \in AnyTrade
  BY <1>1, TradeAmounts
<1> DEFINE g == [n \in 0 .. l |-> f[n].cash]
<1>4. g \in [0 .. l -> Int] /\ \A n \in 0 .. l : g[n] = f[n].cash
  BY <1>2 DEF Balances, AnyLedger
<1> HIDE DEF g
<1>5. \A n \in 1 .. l : g[n] = g[n - 1] + nets[n]
  <2>1. ASSUME NEW n \in 1 .. l PROVE g[n] = g[n - 1] + nets[n]
    <3>1. n \in 0 .. l /\ n - 1 \in 0 .. l
      BY <1>3
    <3>2. f[n - 1] \in AnyLedger /\ f[n] = SettledBy(f[n - 1], tr[n])
      BY <1>2, <3>1 DEF Balances
    <3>3. f[n].cash = f[n - 1].cash + (tr[n].gross_pnl - tr[n].costs)
      BY <1>3, <3>2, SettledCash
    <3>4. nets[n] = tr[n].gross_pnl - tr[n].costs
      BY <1>1, TradeAmounts
    <3>5. QED
      BY <1>4, <3>1, <3>3, <3>4
  <2>2. QED
    BY <2>1
<1>6. Metrics!Total(nets) = g[l] - g[0] /\ Metrics!Total(nets) \in Int
  BY <1>3, <1>4, <1>5, TotalOfSteps
<1>7. g[0] = capital /\ g[l] \in Int /\ g[l] = f[l].cash
  <2>1. 0 \in 0 .. l /\ l \in 0 .. l
    BY <1>3
  <2>2. QED
    BY <1>2, <1>4, <2>1 DEF Balances, Funded
<1>8. QED
  BY <1>1, <1>6, <1>7

(* Positions that were held one after the other were held no longer than   *)
(* it took from the start to the last exit.                                *)
OneAfterTheOther(started, tr) ==
  \A i \in DOMAIN tr :
    tr[i].entry.occurred_at >= IF i = 1 THEN started ELSE tr[i - 1].exit.occurred_at

LEMMA HeldNoLongerThanItTook ==
  ASSUME NEW started \in Int, NEW tr \in Seq(AnyTrade), NEW l, l = Len(tr),
         OneAfterTheOther(started, tr)
  PROVE  Metrics!Total(Metrics!HoldingTimes(tr))
           <= (IF l = 0 THEN started ELSE tr[l].exit.occurred_at) - started
<1>1. PICK times : times = Metrics!HoldingTimes(tr)
  OBVIOUS
<1>2. /\ l \in Nat /\ DOMAIN tr = 1 .. l /\ times \in [1 .. l -> Int]
      /\ \A i \in 1 .. l : times[i] = tr[i].exit.occurred_at - tr[i].entry.occurred_at
  BY <1>1, TradeAmounts
<1>3. \A i \in 1 .. l : tr[i].entry.occurred_at \in Int /\ tr[i].exit.occurred_at \in Int
  BY TradeAmounts
<1> DEFINE g == [n \in 0 .. l |-> IF n = 0 THEN started ELSE tr[n].exit.occurred_at]
<1>4. /\ g \in [0 .. l -> Int]
      /\ \A n \in 0 .. l : g[n] = IF n = 0 THEN started ELSE tr[n].exit.occurred_at
  BY <1>2, <1>3
<1> HIDE DEF g
<1>5. \A n \in 1 .. l : times[n] <= g[n] - g[n - 1]
  <2>1. ASSUME NEW n \in 1 .. l PROVE times[n] <= g[n] - g[n - 1]
    <3>1. n \in 0 .. l /\ n - 1 \in 0 .. l /\ n # 0 /\ (n - 1 = 0 <=> n = 1)
      BY <1>2
    <3>2. g[n - 1] \in Int /\ g[n] = tr[n].exit.occurred_at
          /\ g[n - 1] = IF n = 1 THEN started ELSE tr[n - 1].exit.occurred_at
      BY <1>4, <3>1
    <3>3. g[n - 1] <= tr[n].entry.occurred_at
      BY <1>2, <1>3, <3>2 DEF OneAfterTheOther
    <3>4. QED
      BY <1>2, <1>3, <3>2, <3>3
  <2>2. QED
    BY <2>1
<1>6. Metrics!Total(times) <= g[l] - g[0]
  BY <1>2, <1>4, <1>5, TotalAtMost
<1>7. g[0] = started /\ g[l] = IF l = 0 THEN started ELSE tr[l].exit.occurred_at
  <2>1. 0 \in 0 .. l /\ l \in 0 .. l
    BY <1>2
  <2>2. QED
    BY <1>4, <2>1
<1>8. QED
  BY <1>1, <1>6, <1>7

Traces(curve, capital, started, tr, l) ==
  /\ curve \in [1 .. l + 1 -> Points] /\ Len(curve) = l + 1 /\ curve[1].equity = capital
  /\ curve[l + 1].equity = Metrics!Ledgers(capital, tr)[l].cash
  /\ \A i \in 1 .. l + 1 :
       curve[i].at = IF i = 1 THEN started ELSE tr[i - 1].exit.occurred_at

LEMMA CurveOfTrades ==
  ASSUME NEW capital \in Int, NEW started \in Int, NEW tr \in Seq(AnyTrade), NEW l, l = Len(tr),
         NEW curve, curve = Metrics!EquityCurve(capital, started, tr)
  PROVE  Traces(curve, capital, started, tr, l)
<1>1. PICK f : f = Metrics!Ledgers(capital, tr)
  OBVIOUS
<1>2. Balances(l, capital, tr, f)
  BY <1>1, LedgersAreBalances
<1>3. l \in Nat /\ \A i \in 1 .. l : tr[i].exit.occurred_at \in Int
  BY TradeAmounts
<1> DEFINE at(i) == IF i = 1 THEN started ELSE tr[i - 1].exit.occurred_at
           c == [i \in 1 .. l + 1 |-> [at |-> at(i), equity |-> f[i - 1].cash]]
<1>4. curve = c
  BY <1>1 DEF Metrics!EquityCurve, Metrics!Point
<1>5. \A i \in 1 .. l + 1 : at(i) \in Int /\ f[i - 1].cash \in Int
  <2>1. ASSUME NEW i \in 1 .. l + 1 PROVE at(i) \in Int /\ f[i - 1].cash \in Int
    <3>1. i - 1 \in 0 .. l /\ (i # 1 => i - 1 \in 1 .. l)
      BY <1>3
    <3>2. f[i - 1] \in AnyLedger
      BY <1>2, <3>1 DEF Balances
    <3>3. QED
      BY <1>3, <3>1, <3>2 DEF AnyLedger
  <2>2. QED
    BY <2>1
<1>6. /\ \A i \in 1 .. l + 1 : c[i].at = at(i) /\ c[i].equity = f[i - 1].cash
      /\ c \in [1 .. l + 1 -> Points]
  BY <1>5 DEF Points
<1> HIDE DEF c
<1>7. Len(c) = l + 1 /\ 1 \in 1 .. l + 1 /\ l + 1 \in 1 .. l + 1 /\ 1 - 1 = 0 /\ l + 1 - 1 = l
  BY <1>3, <1>6
<1>8. f[0].cash = capital
  BY <1>2 DEF Balances, Funded
<1>9. QED
  BY <1>1, <1>4, <1>6, <1>7, <1>8 DEF Traces

-----------------------------------------------------------------------------
(* A run is measured rightly, whatever trades it made, if each of them is  *)
(* paid for and they came one after the other.                             *)
MeasuresRun(curve, p, t, cash) ==
  LET last == Len(curve)
  IN  /\ curve[last].equity = cash /\ curve[1].equity = EngineCapital
      /\ \A i \in 1 .. last - 1 : curve[i].at <= curve[i + 1].at
      /\ \A f \in FallsOf(last) :
           curve[f[1]].equity - curve[f[2]].equity <= p.max_drawdown.amount
      /\ \E f \in FallsOf(last) :
           /\ curve[f[1]].equity - curve[f[2]].equity = p.max_drawdown.amount
           /\ p.max_drawdown.recovered <=> BackAt(curve, last, f)
      /\ p.net_pnl = curve[last].equity - curve[1].equity
      /\ p.net_pnl = p.gross_pnl - p.total_costs
      /\ t.long_net_pnl + t.short_net_pnl = p.net_pnl
      /\ t.win_count + t.loss_count + t.scratch_count = t.long_count + t.short_count
      /\ p.time_in_market <= curve[last].at - StartedAt

Consistent(tr) ==
  /\ tr \in Seq(AnyTrade) /\ \A i \in DOMAIN tr : PaidFor(tr[i])
  /\ OneAfterTheOther(StartedAt, tr)

LEMMA CountsAddUp ==
  ASSUME NEW tr \in Seq(AnyTrade)
  PROVE  LET t == Metrics!TradeMetrics(tr)
         IN  t.win_count + t.loss_count + t.scratch_count = t.long_count + t.short_count
<1> DEFINE t == Metrics!TradeMetrics(tr)
<1>1. PICK l : l = Len(tr)
  OBVIOUS
<1>2. l \in Nat /\ DOMAIN tr = 1 .. l
  BY <1>1, TradeAmounts
<1>3. PICK w, s, long, short :
        /\ w = Metrics!Cardinality(Metrics!Wins(tr)) /\ s = Metrics!Cardinality(Metrics!Losses(tr))
        /\ long = Metrics!Cardinality(Metrics!Of("LONG", tr))
        /\ short = Metrics!Cardinality(Metrics!Of("SHORT", tr))
  OBVIOUS
<1>4. /\ t.win_count = w /\ t.loss_count = s /\ t.scratch_count = l - w - s
      /\ t.long_count = long /\ t.short_count = short
  BY <1>1, <1>3 DEF Metrics!TradeMetrics
<1> HIDE DEF t
<1>5. long \in Nat /\ short \in Nat /\ long + short = l
  BY <1>1, <1>3, SidesCount
<1>6. w \in Nat /\ s \in Nat
  <2>1. IsFiniteSet(1 .. l)
    BY <1>2, FS_Interval
  <2>2. Metrics!Wins(tr) \subseteq 1 .. l /\ Metrics!Losses(tr) \subseteq 1 .. l
    BY <1>2 DEF Metrics!Wins, Metrics!Losses
  <2>3. IsFiniteSet(Metrics!Wins(tr)) /\ IsFiniteSet(Metrics!Losses(tr))
    BY <2>1, <2>2, FS_Subset
  <2>4. ASSUME NEW S PROVE Metrics!Cardinality(S) = Cardinality(S)
    BY Zenon DEF Metrics!Cardinality, Cardinality
  <2>5. Cardinality(Metrics!Wins(tr)) \in Nat /\ Cardinality(Metrics!Losses(tr)) \in Nat
    BY <2>3, FS_CardinalityType
  <2>6. QED
    BY <1>3, <2>4, <2>5
<1>7. w + s + (l - w - s) = long + short
  BY <1>2, <1>5, <1>6
<1>8. QED
  BY <1>4, <1>7 DEF t

LEMMA RunIsMeasured ==
  ASSUME NEW tr, Consistent(tr), Metrics!InOrder(StartedAt, tr), NEW curve, NEW cash,
         curve = Metrics!EquityCurve(EngineCapital, StartedAt, tr),
         cash = EngineCapital + Metrics!Total(Metrics!Nets(tr))
  PROVE  MeasuresRun(curve, Metrics!PortfolioMetrics(tr, curve), Metrics!TradeMetrics(tr), cash)
<1>1. tr \in Seq(AnyTrade) /\ OneAfterTheOther(StartedAt, tr)
  BY DEF Consistent
<1>2. PICK l : l = Len(tr)
  OBVIOUS
<1>3. /\ l \in Nat /\ DOMAIN tr = 1 .. l
      /\ \A i \in 1 .. l : tr[i].exit.occurred_at \in Int
  BY <1>1, <1>2, TradeAmounts
<1>4. EngineCapital \in Int /\ StartedAt \in Int
  BY EngineAssumption
<1>5. PICK net : net = Metrics!Total(Metrics!Nets(tr))
  OBVIOUS
<1>6. /\ curve \in [1 .. l + 1 -> Points] /\ Len(curve) = l + 1 /\ curve[1].equity = EngineCapital
      /\ curve[l + 1].equity = Metrics!Ledgers(EngineCapital, tr)[l].cash
      /\ \A i \in 1 .. l + 1 :
           curve[i].at = IF i = 1 THEN StartedAt ELSE tr[i - 1].exit.occurred_at
  <2>1. Traces(curve, EngineCapital, StartedAt, tr, l)
    BY <1>1, <1>2, <1>4, CurveOfTrades
  <2>2. QED
    BY <2>1 DEF Traces
<1>7. net \in Int /\ curve[l + 1].equity = EngineCapital + net
  <2>1. \A i \in 1 .. l : PaidFor(tr[i])
    BY <1>3 DEF Consistent
  <2>2. QED
    BY <1>1, <1>2, <1>4, <1>5, <1>6, <2>1, CashIsCapitalAndNet
<1>8. \A i \in 1 .. l : curve[i].at <= curve[i + 1].at
  <2>1. ASSUME NEW i \in 1 .. l PROVE curve[i].at <= curve[i + 1].at
    <3>1. i \in 1 .. l + 1 /\ i + 1 \in 1 .. l + 1 /\ i + 1 # 1 /\ i + 1 - 1 = i
      BY <1>3
    <3>2. /\ curve[i + 1].at = tr[i].exit.occurred_at
          /\ curve[i].at = IF i = 1 THEN StartedAt ELSE tr[i - 1].exit.occurred_at
      BY <1>6, <3>1
    <3>3. tr[i].exit.occurred_at >= IF i = 1 THEN StartedAt ELSE tr[i - 1].exit.occurred_at
      BY <1>3 DEF Metrics!InOrder
    <3>4. (IF i = 1 THEN StartedAt ELSE tr[i - 1].exit.occurred_at) \in Int
      <4>1. i # 1 => i - 1 \in 1 .. l
        BY <1>3
      <4>2. QED
        BY <1>3, <1>4, <4>1
    <3>5. QED
      BY <1>3, <3>2, <3>3, <3>4
  <2>2. QED
    BY <2>1
<1> DEFINE p == Metrics!PortfolioMetrics(tr, curve)
           t == Metrics!TradeMetrics(tr)
<1>9. /\ p.max_drawdown = Metrics!Drawdown(curve) /\ p.net_pnl = net
      /\ p.gross_pnl = Metrics!Total(Grosses(tr, l)) /\ p.total_costs = Metrics!Total(ChargesOf(tr, l))
      /\ p.time_in_market = Metrics!Total(Metrics!HoldingTimes(tr))
  BY <1>3, <1>5 DEF Metrics!PortfolioMetrics, Grosses, ChargesOf
<1>10. /\ t.long_net_pnl = Metrics!TotalOver(Metrics!Of("LONG", tr), Metrics!Nets(tr))
       /\ t.short_net_pnl = Metrics!TotalOver(Metrics!Of("SHORT", tr), Metrics!Nets(tr))
  BY DEF Metrics!TradeMetrics
<1>11. t.win_count + t.loss_count + t.scratch_count = t.long_count + t.short_count
  BY <1>1, CountsAddUp
<1> HIDE DEF p, t
<1>12. l + 1 \in Nat /\ 1 <= l + 1 /\ (l + 1) - 1 = l
  BY <1>3
<1>13. /\ \A f \in FallsOf(l + 1) :
            curve[f[1]].equity - curve[f[2]].equity <= p.max_drawdown.amount
       /\ \E f \in FallsOf(l + 1) :
            /\ curve[f[1]].equity - curve[f[2]].equity = p.max_drawdown.amount
            /\ p.max_drawdown.recovered <=> BackAt(curve, l + 1, f)
  <2>1. PICK m \in Nat : m = l + 1 /\ 1 <= m
    BY <1>12
  <2>2. curve \in [1 .. m -> Points]
    BY <1>6, <2>1
  <2>3. PICK d : d = Metrics!Drawdown(curve)
    OBVIOUS
  <2>4. /\ \A f \in FallsOf(m) : curve[f[1]].equity - curve[f[2]].equity <= d.amount
        /\ \E f \in FallsOf(m) : /\ curve[f[1]].equity - curve[f[2]].equity = d.amount
                                 /\ d.recovered <=> BackAt(curve, m, f)
    BY <2>1, <2>2, <2>3, DrawdownFound
  <2>5. p.max_drawdown = d
    BY <1>9, <2>3
  <2>6. QED
    BY <2>1, <2>4, <2>5, Zenon
<1>14. p.net_pnl = curve[l + 1].equity - curve[1].equity
  BY <1>4, <1>6, <1>7, <1>9
<1>15. p.net_pnl = p.gross_pnl - p.total_costs
  BY <1>1, <1>2, <1>5, <1>9, NetIsGrossLessCosts
<1>16. t.long_net_pnl + t.short_net_pnl = p.net_pnl
  BY <1>1, <1>5, <1>9, <1>10, SidesAddUp
<1>17. p.time_in_market <= curve[l + 1].at - StartedAt
  <2>1. curve[l + 1].at = IF l = 0 THEN StartedAt ELSE tr[l].exit.occurred_at
    <3>1. l + 1 \in 1 .. l + 1 /\ (l + 1 = 1 <=> l = 0)
      BY <1>3
    <3>2. QED
      BY <1>6, <1>12, <3>1
  <2>2. QED
    BY <1>1, <1>2, <1>4, <1>9, <2>1, HeldNoLongerThanItTook
<1>18. curve[l + 1].equity = cash
  BY <1>5, <1>7
<1>19. MeasuresRun(curve, p, t, cash)
  BY <1>6, <1>8, <1>11, <1>12, <1>13, <1>14, <1>15, <1>16, <1>17, <1>18 DEF MeasuresRun
<1>20. QED
  BY <1>19 DEF p, t

-----------------------------------------------------------------------------
(* The portfolio never sees the curve: its cash is the capital, what the   *)
(* trades have netted and, while a position is held, what entering it      *)
(* cost.                                                                   *)
LEMMA PaidRoundTrip ==
  ASSUME NEW d \in {"LONG", "SHORT"}, NEW e \in AnyFill, NEW x \in AnyFill, NEW a,
         e.side = EntrySide(d), x.side = ExitSide(d), e.quantity = x.quantity
  PROVE  PaidFor(CloseTrade(d, e, x, a))
<1>1. PICK t : t = CloseTrade(d, e, x, a)
  OBVIOUS
<1>2. PICK q \in Int, p \in Int, y \in Int, m \in Int, n \in Int :
        q = e.quantity /\ p = e.price /\ y = x.price /\ m = e.costs /\ n = x.costs
  BY DEF AnyFill
<1>3. t.entry = e /\ t.exit = x /\ t.costs = m + n
  BY <1>1, <1>2 DEF CloseTrade
<1>4. (y - p) * q = y * q - p * q /\ (p - y) * q = p * q - y * q
  BY <1>2
<1>5. PICK v \in Int, w \in Int : v = p * q /\ w = y * q
  BY <1>2
<1>6. CASE d = "LONG"
  <2>1. e.side = "BUY" /\ x.side = "SELL" /\ t.gross_pnl = (y - p) * q
    BY <1>1, <1>2, <1>6 DEF EntrySide, ExitSide, IsLong, CloseTrade
  <2>2. CashDelta(e) = - v - m /\ CashDelta(x) = w - n
    BY <1>2, <1>5, <2>1 DEF CashDelta
  <2>3. QED
    BY <1>1, <1>2, <1>3, <1>4, <1>5, <2>1, <2>2 DEF PaidFor
<1>7. CASE d = "SHORT"
  <2>1. e.side = "SELL" /\ x.side = "BUY" /\ t.gross_pnl = (p - y) * q
    BY <1>1, <1>2, <1>7 DEF EntrySide, ExitSide, IsLong, CloseTrade
  <2>2. CashDelta(e) = v - m /\ CashDelta(x) = - w - n
    BY <1>2, <1>5, <2>1 DEF CashDelta
  <2>3. QED
    BY <1>1, <1>2, <1>3, <1>4, <1>5, <2>1, <2>2 DEF PaidFor
<1>8. QED
  BY <1>6, <1>7

HeldWell(on, tr) ==
  /\ on \in AnyPosition
  /\ on.entry.quantity = on.intent.quantity
  /\ on.entry.side = EntrySide(on.intent.signal.direction)
  /\ on.entry.occurred_at \in Nat
  /\ \A i \in DOMAIN tr : tr[i].exit.occurred_at <= on.entry.occurred_at

CashOf(tr, on, cash) ==
  cash = EngineCapital + Metrics!Total(Metrics!Nets(tr))
         + (IF on = None THEN 0 ELSE CashDelta(on.entry))

CashInv ==
  EngineRuns =>
    /\ Consistent(closed) /\ (held # None => HeldWell(held, closed))
    /\ portfolio \in AnyLedger /\ CashOf(closed, held, portfolio.cash)
    /\ pending # 0 => held = None

MeasuredInv ==
  result # None => EngineRuns /\ Metrics!InOrder(StartedAt, closed) /\ result = Measured

LEMMA CashMoves == \A f \in AnyFill : CashDelta(f) \in Int
<1>1. \A f \in AnyFill : f.price \in Int /\ f.quantity \in Int /\ f.costs \in Int
  BY DEF AnyFill
<1>2. QED
  BY <1>1 DEF CashDelta

LEMMA PaidTrade ==
  ASSUME NEW on, NEW tr, HeldWell(on, tr), NEW bar \in AnyBar, NEW minutes,
         ExitOn(on, bar, minutes).reason # "none"
  PROVE  PaidFor(TradeOn(on, ExitOn(on, bar, minutes), bar))
<1>1. PICK exit : exit = ExitOn(on, bar, minutes)
  OBVIOUS
<1>2. exit.reason \in {"stop", "target", "time_exit"}
  <2>1. ResolveExit(on.intent, on.entry, bar, minutes).reason \in {"none", "stop", "target"}
    BY ExitKinds
  <2>2. \/ exit.reason = "time_exit"
        \/ exit = ResolveExit(on.intent, on.entry, bar, minutes)
    BY <1>1 DEF ExitOn, Resolved
  <2>3. QED
    BY <1>1, <2>1, <2>2
<1>3. on \in AnyPosition /\ on.intent \in AnyIntent /\ on.entry \in AnyFill
  BY DEF HeldWell, AnyPosition
<1>4. on.intent.signal.direction \in {"LONG", "SHORT"}
  BY <1>3, SignalFields DEF AnyIntent
<1>5. PICK reference \in Int : reference = ExitReference(on.intent, on.entry, exit.reason, bar)
  BY <1>2, <1>3, ReferenceIsInt
<1>6. PICK fill : fill = ExitFill(on.intent, exit.reason, reference, bar)
  OBVIOUS
<1>7. fill \in AnyFill /\ fill.side = ExitSide(on.intent.signal.direction)
  <2>1. exit.reason \in Reasons
    BY <1>2 DEF Reasons
  <2>2. QED
    BY <1>3, <1>6, <2>1, ExitFilled
<1>8. fill.quantity = on.intent.quantity
  BY <1>6 DEF ExitFill, MakeFill
<1>9. TradeOn(on, exit, bar) = CloseTrade(on.intent.signal.direction, on.entry, fill, exit.ambiguity)
  BY <1>5, <1>6 DEF TradeOn
<1>10. QED
  BY <1>1, <1>3, <1>4, <1>7, <1>8, <1>9, PaidRoundTrip DEF HeldWell

LEMMA TradeSettles ==
  ASSUME NEW tr, Consistent(tr), NEW on, on # None, HeldWell(on, tr),
         NEW led \in AnyLedger, CashOf(tr, on, led.cash),
         NEW trade \in AnyTrade, trade.entry = on.entry, PaidFor(trade)
  PROVE  /\ Consistent(Append(tr, trade)) /\ AfterExit(led, trade) \in AnyLedger
         /\ CashOf(Append(tr, trade), None, AfterExit(led, trade).cash)
<1>1. PICK l, more : l = Len(tr) /\ more = Append(tr, trade)
  OBVIOUS
<1>2. tr \in Seq(AnyTrade)
  BY DEF Consistent
<1>3. /\ l \in Nat /\ DOMAIN tr = 1 .. l /\ more \in Seq(AnyTrade) /\ Len(more) = l + 1
      /\ DOMAIN more = 1 .. l + 1 /\ more[l + 1] = trade /\ \A i \in 1 .. l : more[i] = tr[i]
  BY <1>1, <1>2
<1>4. l + 1 \in 1 .. l + 1 /\ \A i \in 1 .. l : i \in 1 .. l + 1
  BY <1>3
<1>5. \A i \in 1 .. l + 1 : i = l + 1 \/ i \in 1 .. l
  BY <1>3
<1>6. \A i \in 1 .. l + 1 : PaidFor(more[i])
  BY <1>3, <1>5 DEF Consistent
<1>7. OneAfterTheOther(StartedAt, more)
  <2>1. ASSUME NEW i \in 1 .. l + 1
        PROVE  more[i].entry.occurred_at >= IF i = 1 THEN StartedAt ELSE more[i - 1].exit.occurred_at
    <3>1. CASE i \in 1 .. l
      <4>1. more[i] = tr[i] /\ (i # 1 => more[i - 1] = tr[i - 1])
        BY <1>3, <3>1
      <4>2. tr[i].entry.occurred_at >= IF i = 1 THEN StartedAt ELSE tr[i - 1].exit.occurred_at
        BY <1>3, <3>1 DEF Consistent, OneAfterTheOther
      <4>3. QED
        BY <4>1, <4>2
    <3>2. CASE i = l + 1
      <4>1. PICK at \in Nat : at = on.entry.occurred_at
        BY DEF HeldWell
      <4>2. more[i].entry.occurred_at = at
        BY <1>3, <3>2, <4>1
      <4>3. CASE i = 1
        <5>1. StartedAt <= at
          BY <4>1, EngineAssumption
        <5>2. QED
          BY <4>1, <4>2, <4>3, <5>1, EngineAssumption
      <4>4. CASE i # 1
        <5>1. i - 1 \in 1 .. l
          BY <1>3, <3>2, <4>4
        <5>2. more[i - 1] = tr[i - 1] /\ tr[i - 1].exit.occurred_at <= at
          BY <1>3, <4>1, <5>1 DEF HeldWell
        <5>3. tr[i - 1].exit.occurred_at \in Int
          BY <1>1, <1>2, <5>1, TradeAmounts
        <5>4. QED
          BY <4>1, <4>2, <4>4, <5>2, <5>3
      <4>5. QED
        BY <4>3, <4>4
    <3>3. QED
      BY <1>5, <3>1, <3>2
  <2>2. QED
    BY <1>3, <2>1 DEF OneAfterTheOther
<1>8. Consistent(more)
  BY <1>3, <1>6, <1>7 DEF Consistent
<1>9. PICK a, b : a = Metrics!Nets(tr) /\ b = Metrics!Nets(more)
  OBVIOUS
<1>10. /\ a \in [1 .. l -> Int] /\ b \in [1 .. l + 1 -> Int]
       /\ \A i \in 1 .. l : b[i] = a[i]
       /\ b[l + 1] = trade.gross_pnl - trade.costs
  <2>1. a \in [1 .. l -> Int] /\ \A i \in 1 .. l : a[i] = tr[i].gross_pnl - tr[i].costs
    BY <1>1, <1>2, <1>9, TradeAmounts
  <2>2. PICK m : m = Len(more)
    OBVIOUS
  <2>3. b \in [1 .. m -> Int] /\ \A i \in 1 .. m : b[i] = more[i].gross_pnl - more[i].costs
    BY <1>3, <1>9, <2>2, TradeAmounts
  <2>4. QED
    BY <1>3, <1>4, <2>1, <2>2, <2>3
<1>11. Metrics!Total(b) = Metrics!Total(a) + b[l + 1]
  BY <1>3, <1>10, TotalOfMore
<1>12. PICK x \in Int, y \in Int, u \in Int, v \in Int, w \in Int :
         /\ x = Metrics!Total(a) /\ y = CashDelta(trade.entry) /\ u = CashDelta(trade.exit)
         /\ v = led.cash /\ w = trade.gross_pnl - trade.costs
  <2>1. Metrics!Total(a) \in Int
    BY <1>3, <1>10, TotalIsInt
  <2>2. trade.entry \in AnyFill /\ trade.exit \in AnyFill /\ trade.gross_pnl - trade.costs \in Int
    BY DEF AnyTrade
  <2>3. led.cash \in Int
    BY DEF AnyLedger
  <2>4. QED
    BY <2>1, <2>2, <2>3, CashMoves
<1>13. v = EngineCapital + x + y
  BY <1>9, <1>12 DEF CashOf
<1>14. w = y + u
  BY <1>12 DEF PaidFor
<1>15. AfterExit(led, trade).cash = v + u
  BY <1>12 DEF AfterExit
<1>16. AfterExit(led, trade).cash = EngineCapital + Metrics!Total(b) + 0
  BY <1>10, <1>11, <1>12, <1>13, <1>14, <1>15, EngineAssumption
<1>17. CashOf(more, None, AfterExit(led, trade).cash)
  BY <1>9, <1>16 DEF CashOf
<1>18. QED
  BY <1>1, <1>8, <1>17, LedgerMoves

(* What a bar does to the backtest's money.                                *)
PaysOnBar(bar, minutes) ==
  /\ ~EntryRaises(bar) /\ pending' = 0
  /\ \/ /\ held' = HeldOn(bar) /\ closed' = closed /\ portfolio' = PortfolioOn(bar)
     \/ LET on    == HeldOn(bar)
            trade == TradeOn(on, ExitOn(on, bar, minutes), bar)
        IN  /\ on # None /\ ExitOn(on, bar, minutes).reason # "none"
            /\ held' = None /\ closed' = Append(closed, trade)
            /\ portfolio' = AfterExit(PortfolioOn(bar), trade)

LEMMA BarPays ==
  ASSUME NEW bar, NEW minutes, EngineFills(bar, minutes), EngineRuns'
  PROVE  \/ UNCHANGED <<pending, held, closed, portfolio>>
         \/ PaysOnBar(bar, minutes)
<1>1. CASE ~tradable /\ UNCHANGED engine_vars
  BY <1>1 DEF engine_vars
<1>2. CASE engine' = IF Unsizeable(bar) THEN "unsizeable" ELSE "raised"
  BY <1>2 DEF EngineRuns
<1>3. CASE /\ ~FillsRaise(bar, minutes) /\ pending' = 0
           /\ \/ /\ HeldOn(bar) # None => Leaves(bar, minutes).reason = "none"
                 /\ held' = HeldOn(bar)
                 /\ portfolio' = PortfolioOn(bar)
                 /\ UNCHANGED closed
              \/ /\ HeldOn(bar) # None
                 /\ Leaves(bar, minutes).reason # "none"
                 /\ EngineCloses(bar, minutes)
  <2>1. Leaves(bar, minutes) = ExitOn(HeldOn(bar), bar, minutes)
    BY SameLeaves
  <2>2. PICK on, trade : on = HeldOn(bar) /\ trade = TradeOn(on, ExitOn(on, bar, minutes), bar)
    OBVIOUS
  <2>3. EngineCloses(bar, minutes) =>
          /\ held' = None /\ closed' = Append(closed, trade)
          /\ portfolio' = AfterExit(PortfolioOn(bar), trade)
    BY <2>1, <2>2 DEF EngineCloses, TradeOn
  <2>4. QED
    BY <1>3, <2>1, <2>2, <2>3 DEF PaysOnBar, FillsRaise
<1>4. QED
  BY <1>1, <1>2, <1>3 DEF EngineFills

LEMMA HeldWellOnBar ==
  ASSUME InData, AwaitingInv, ClosedInv, CashInv, EngineRuns, NEW bar, Given(bar), ~EntryRaises(bar)
  PROVE  /\ HeldOn(bar) # None => HeldWell(HeldOn(bar), closed)
         /\ PortfolioOn(bar) \in AnyLedger
         /\ CashOf(closed, HeldOn(bar), PortfolioOn(bar).cash)
<1>1. /\ Consistent(closed) /\ (held # None => HeldWell(held, closed))
      /\ portfolio \in AnyLedger /\ CashOf(closed, held, portfolio.cash)
      /\ pending # 0 => held = None
  BY DEF CashInv
<1>2. bar \in AnyBar /\ bar.start \in Nat
  BY GivenBar
<1>3. CASE ~Enters(bar)
  BY <1>1, <1>3 DEF HeldOn, PortfolioOn
<1>4. CASE Enters(bar)
  <2>1. EngineIntent(bar) \in AnyIntent /\ held = None
    BY <1>1, <1>2, <1>4, EngineIntended DEF Enters
  <2>2. PICK on, fill : on = HeldOn(bar) /\ fill = EntryFill(EngineIntent(bar), bar)
    OBVIOUS
  <2>3. on = Entered(EngineIntent(bar), bar)
    BY <1>4, <2>2 DEF HeldOn, Entered
  <2>4. on \in AnyPosition /\ on # None /\ on.intent = EngineIntent(bar) /\ on.entry = fill
        /\ fill \in AnyFill
    BY <1>2, <2>1, <2>2, <2>3, EnteredPosition
  <2>5. /\ fill.occurred_at = bar.start
        /\ fill.side = EntrySide(EngineIntent(bar).signal.direction)
    BY <1>2, <2>1, <2>2, EntryFilled
  <2>6. fill.quantity = EngineIntent(bar).quantity
    BY <2>2 DEF EntryFill, MakeFill
  <2>7. \A i \in DOMAIN closed : closed[i].exit.occurred_at <= bar.start
    <3>1. \A i \in DOMAIN closed : closed[i] \in AnyTrade /\ ClosedBefore(closed[i], cursor)
      BY DEF ClosedInv
    <3>2. QED
      BY <3>1, ClosedEarlier
  <2>8. HeldWell(on, closed)
    BY <1>2, <2>4, <2>5, <2>6, <2>7 DEF HeldWell
  <2>9. PICK net \in Int, delta \in Int, cash \in Int :
          /\ net = Metrics!Total(Metrics!Nets(closed)) /\ delta = CashDelta(fill)
          /\ cash = portfolio.cash
    <3>1. closed \in Seq(AnyTrade)
      BY DEF ClosedInv
    <3>2. PICK l \in Nat : l = Len(closed)
      BY <3>1
    <3>3. Metrics!Nets(closed) \in [1 .. l -> Int]
      BY <3>1, <3>2, TradeAmounts
    <3>4. Metrics!Total(Metrics!Nets(closed)) \in Int
      BY <3>2, <3>3, TotalIsInt
    <3>5. CashDelta(fill) \in Int /\ portfolio.cash \in Int
      BY <1>1, <2>4, CashMoves DEF AnyLedger
    <3>6. QED
      BY <3>4, <3>5
  <2>10. cash = EngineCapital + net + 0
    BY <1>1, <2>1, <2>9 DEF CashOf
  <2>11. PortfolioOn(bar) = AfterEntry(portfolio, fill)
    BY <1>4, <2>2, <2>4 DEF PortfolioOn
  <2>12. AfterEntry(portfolio, fill).cash = cash + delta
    BY <1>1, <2>9 DEF AfterEntry, AnyLedger
  <2>13. cash + delta = EngineCapital + net + delta
    BY <2>9, <2>10, EngineAssumption
  <2>14. CashOf(closed, on, PortfolioOn(bar).cash)
    BY <2>4, <2>9, <2>11, <2>12, <2>13 DEF CashOf
  <2>15. PortfolioOn(bar) \in AnyLedger
    BY <1>1, <2>4, <2>11, LedgerMoves
  <2>16. QED
    BY <2>2, <2>8, <2>14, <2>15
<1>5. QED
  BY <1>3, <1>4

LEMMA CashOnBar ==
  ASSUME InData, AwaitingInv, ClosedInv, CashInv, EngineRuns, NEW bar, Given(bar), NEW minutes,
         PaysOnBar(bar, minutes)
  PROVE  CashInv'
<1>1. PICK on, led : on = HeldOn(bar) /\ led = PortfolioOn(bar)
  OBVIOUS
<1>2. /\ on # None => HeldWell(on, closed)
      /\ led \in AnyLedger /\ CashOf(closed, on, led.cash)
  BY <1>1, HeldWellOnBar DEF PaysOnBar
<1>3. Consistent(closed) /\ pending' = 0
  BY DEF CashInv, PaysOnBar
<1>4. CASE held' = on /\ closed' = closed /\ portfolio' = led
  BY <1>2, <1>3, <1>4 DEF CashInv
<1>5. CASE /\ on # None /\ ExitOn(on, bar, minutes).reason # "none" /\ held' = None
           /\ closed' = Append(closed, TradeOn(on, ExitOn(on, bar, minutes), bar))
           /\ portfolio' = AfterExit(led, TradeOn(on, ExitOn(on, bar, minutes), bar))
  <2>1. PICK trade : trade = TradeOn(on, ExitOn(on, bar, minutes), bar)
    OBVIOUS
  <2>2. bar \in AnyBar /\ on \in AnyPosition
    BY <1>2, <1>5, GivenBar DEF HeldWell
  <2>3. trade \in AnyTrade /\ trade.entry = on.entry
    BY <1>5, <2>1, <2>2, TradeMade
  <2>4. PaidFor(trade)
    BY <1>2, <1>5, <2>1, <2>2, PaidTrade
  <2>5. /\ Consistent(Append(closed, trade)) /\ AfterExit(led, trade) \in AnyLedger
        /\ CashOf(Append(closed, trade), None, AfterExit(led, trade).cash)
    BY <1>2, <1>3, <1>5, <2>3, <2>4, TradeSettles
  <2>6. /\ Consistent(closed') /\ portfolio' \in AnyLedger
        /\ CashOf(closed', held', portfolio'.cash) /\ held' = None
    BY <1>5, <2>1, <2>5
  <2>7. QED
    BY <1>3, <2>6 DEF CashInv
<1>6. QED
  BY <1>1, <1>4, <1>5 DEF PaysOnBar

LEMMA CashInit == Init => CashInv /\ MeasuredInv
<1> SUFFICES ASSUME Init PROVE CashInv /\ MeasuredInv
  OBVIOUS
<1>1. /\ closed = <<>> /\ held = None /\ pending = 0 /\ result = None
      /\ portfolio = Funded(EngineCapital)
  BY DEF Init, EngineInit
<1>2. closed \in Seq(AnyTrade) /\ DOMAIN closed = {} /\ Len(closed) = 0
  <2>1. <<>> \in Seq(AnyTrade) /\ DOMAIN <<>> = {} /\ Len(<<>>) = 0
    OBVIOUS
  <2>2. QED
    BY <1>1, <2>1
<1>3. Consistent(closed)
  BY <1>2 DEF Consistent, OneAfterTheOther
<1>4. EngineCapital \in Int
  BY EngineAssumption
<1>5. portfolio \in AnyLedger /\ portfolio.cash = EngineCapital
  BY <1>1, <1>4, MetricsCash DEF Funded
<1>6. Metrics!Total(Metrics!Nets(closed)) = 0
  <2>1. PICK l \in Nat : l = 0
    OBVIOUS
  <2>2. PICK nets : nets = Metrics!Nets(closed)
    OBVIOUS
  <2>3. nets \in [1 .. l -> Int]
    BY <1>2, <2>1, <2>2, TradeAmounts
  <2>4. PICK f : Sums(l, nets, f) /\ Metrics!Total(nets) = f[l]
    BY <2>3, TotalIsSum
  <2>5. QED
    BY <2>1, <2>2, <2>4 DEF Sums
<1>7. CashOf(closed, held, portfolio.cash)
  BY <1>1, <1>4, <1>5, <1>6 DEF CashOf
<1>8. QED
  BY <1>1, <1>3, <1>5, <1>7 DEF CashInv, MeasuredInv

LEMMA CashKept ==
  ASSUME CashInv, EngineRuns' => EngineRuns, held' = held, closed' = closed,
         portfolio' = portfolio, pending' = pending \/ pending' = 0 \/ held = None
  PROVE  CashInv'
<1> SUFFICES ASSUME EngineRuns' PROVE CashInv'
  BY DEF CashInv
<1>1. /\ Consistent(closed) /\ (held # None => HeldWell(held, closed))
      /\ portfolio \in AnyLedger /\ CashOf(closed, held, portfolio.cash)
      /\ pending # 0 => held = None
  BY DEF CashInv
<1>2. pending' # 0 => held' = None
  BY <1>1
<1>3. QED
  BY <1>1, <1>2 DEF CashInv

LEMMA MeasuredKept ==
  ASSUME MeasuredInv, engine' = engine, closed' = closed, result' = result
  PROVE  MeasuredInv'
<1>1. Metrics!InOrder(StartedAt, closed') <=> Metrics!InOrder(StartedAt, closed)
  OBVIOUS
<1>2. Measured' = Measured
  BY DEF Measured
<1>3. QED
  BY <1>1, <1>2 DEF MeasuredInv, EngineRuns

LEMMA CashStep ==
  ASSUME ReplayInv, EngineInv, LogInv, CashInv, MeasuredInv, [Next]_vars
  PROVE  CashInv' /\ MeasuredInv'
<1>1. InData /\ SeenInv
  BY DEF ReplayInv, AdapterInv
<1>2. CASE SkipDay
  <2>1. UNCHANGED engine_vars
    BY <1>2 DEF SkipDay
  <2>2. QED
    BY <2>1, CashKept, MeasuredKept DEF engine_vars, EngineRuns
<1>3. CASE StartSession
  <2>1. PICK bars : EngineStartSession(day, bars) \/ EngineOver
    BY <1>3 DEF StartSession
  <2>2. /\ EngineRuns' => EngineRuns
        /\ held' = held /\ closed' = closed /\ portfolio' = portfolio
        /\ pending' = pending /\ result' = result
    BY <2>1 DEF EngineStartSession, EngineOver, engine_vars, EngineRuns
  <2>3. result # None => day = Days
    BY DEF LogInv
  <2>4. day < Days /\ day \in Int /\ Days \in Int
    BY <1>1, <1>3, DayIsInt, DaysIsNat DEF StartSession
  <2>5. result' = None
    BY <2>2, <2>3, <2>4
  <2>6. QED
    BY <2>2, <2>5, CashKept DEF MeasuredInv
<1>4. CASE GiveBar
  <2>1. PICK bar \in AnyBar : \E minutes :
           Given(bar) /\ (EngineFills(bar, minutes) \/ EngineOver)
    BY <1>1, <1>4, GiveBarCases
  <2>2. PICK minutes : EngineFills(bar, minutes) \/ EngineOver
    BY <2>1
  <2>3. turn = "bar"
    BY <2>1 DEF Given
  <2>4. result = None
    BY <2>3 DEF LogInv
  <2>5. CASE EngineOver
    <3>1. ~EngineRuns' /\ result' = None
      BY <2>4, <2>5 DEF EngineOver, engine_vars, EngineRuns
    <3>2. QED
      BY <3>1 DEF CashInv, MeasuredInv
  <2>6. CASE EngineFills(bar, minutes)
    <3>1. EngineRuns /\ result' = None
      BY <2>4, <2>6, EngineBarCases
    <3>2. AwaitingInv /\ ClosedInv
      BY <3>1 DEF EngineInv
    <3>3. CASE ~EngineRuns'
      BY <3>1, <3>3 DEF CashInv, MeasuredInv
    <3>4. CASE EngineRuns'
      <4>1. CASE UNCHANGED <<pending, held, closed, portfolio>>
        BY <3>1, <4>1, CashKept DEF MeasuredInv
      <4>2. CASE PaysOnBar(bar, minutes)
        BY <1>1, <2>1, <3>1, <3>2, <4>2, CashOnBar DEF MeasuredInv
      <4>3. QED
        BY <2>6, <3>4, <4>1, <4>2, BarPays
    <3>5. QED
      BY <3>3, <3>4
  <2>7. QED
    BY <2>2, <2>5, <2>6
<1>5. CASE AskStrategy
  <2>1. PICK bar : \E takes : EngineDecides(today, bar, prior_atr, takes) \/ EngineOver
    BY <1>5 DEF AskStrategy
  <2>2. PICK takes : EngineDecides(today, bar, prior_atr, takes) \/ EngineOver
    BY <2>1
  <2>3. /\ engine' = engine /\ held' = held /\ closed' = closed
        /\ portfolio' = portfolio /\ result' = result
        /\ pending' = pending \/ held = None
    BY <2>2 DEF EngineDecides, EngineOver, engine_vars
  <2>4. QED
    BY <2>3, CashKept, MeasuredKept DEF EngineRuns
<1>6. CASE EndSession
  <2>1. turn = "bar" /\ (EngineEndSession(day) \/ EngineOver)
    BY <1>6 DEF EndSession
  <2>2. /\ EngineRuns' => EngineRuns
        /\ held' = held /\ closed' = closed /\ portfolio' = portfolio /\ result' = result
        /\ pending' = pending \/ pending' = 0
    BY <2>1 DEF EngineEndSession, EngineOver, engine_vars, EngineRuns
  <2>3. result' = None
    BY <2>1, <2>2 DEF LogInv
  <2>4. QED
    BY <2>2, <2>3, CashKept DEF MeasuredInv
<1>7. CASE MeasureRun
  <2>1. EngineFinish(trading_sessions)
    BY <1>7 DEF MeasureRun
  <2>2. /\ EngineRuns /\ result = None
        /\ held' = held /\ closed' = closed /\ portfolio' = portfolio /\ pending' = pending
        /\ IF Metrics!InOrder(StartedAt, closed)
           THEN result' = Measured /\ engine' = engine
           ELSE engine' = "raised" /\ result' = result
    BY <2>1 DEF EngineFinish, EngineRuns
  <2>3. Measured' = Measured
    BY <2>2 DEF Measured
  <2>4. MeasuredInv'
    BY <2>2, <2>3 DEF MeasuredInv, EngineRuns
  <2>5. QED
    BY <2>2, <2>4, CashKept
<1>8. CASE Finished \/ UNCHANGED vars
  <2>1. UNCHANGED engine_vars
    BY <1>8 DEF Finished, vars
  <2>2. QED
    BY <2>1, CashKept, MeasuredKept DEF engine_vars, EngineRuns
<1>9. QED
  BY <1>2, <1>3, <1>4, <1>5, <1>6, <1>7, <1>8 DEF Next

LEMMA ResultIsRight == EngineInv /\ CashInv /\ MeasuredInv /\ LogInv => ResultMeasuresTheRun
<1> SUFFICES ASSUME EngineInv, CashInv, MeasuredInv, LogInv, result # None
             PROVE  ResultMeasuresTheRun
  BY DEF ResultMeasuresTheRun
<1>1. EngineRuns /\ turn = "session" /\ Metrics!InOrder(StartedAt, closed) /\ result = Measured
  BY DEF MeasuredInv, LogInv
<1>2. held = None
  BY <1>1 DEF EngineInv, AwaitingInv
<1>3. Consistent(closed) /\ portfolio.cash = EngineCapital + Metrics!Total(Metrics!Nets(closed)) + 0
  BY <1>1, <1>2 DEF CashInv, CashOf
<1>4. Metrics!Total(Metrics!Nets(closed)) \in Int
  <2>1. closed \in Seq(AnyTrade)
    BY <1>3 DEF Consistent
  <2>2. PICK l \in Nat : l = Len(closed)
    BY <2>1
  <2>3. Metrics!Nets(closed) \in [1 .. l -> Int]
    BY <2>1, <2>2, TradeAmounts
  <2>4. QED
    BY <2>2, <2>3, TotalIsInt
<1>5. portfolio.cash = EngineCapital + Metrics!Total(Metrics!Nets(closed))
  BY <1>3, <1>4, EngineAssumption
<1>6. PICK curve, p, t : /\ curve = Metrics!EquityCurve(EngineCapital, StartedAt, closed)
                         /\ p = Metrics!PortfolioMetrics(closed, curve)
                         /\ t = Metrics!TradeMetrics(closed)
  OBVIOUS
<1>7. MeasuresRun(curve, p, t, portfolio.cash)
  BY <1>1, <1>3, <1>5, <1>6, RunIsMeasured
<1>8. /\ result.equity_curve = curve /\ result.performance = Metrics!Performance(closed, curve)
  BY <1>1, <1>6 DEF Measured
<1>9. result.performance.portfolio = p /\ result.performance.trades = t
  BY <1>6, <1>8 DEF Metrics!Performance
<1>10. MeasuresRun(result.equity_curve, result.performance.portfolio, result.performance.trades,
                   portfolio.cash)
  BY <1>7, <1>8, <1>9
<1>11. QED
  BY <1>10, Zenon DEF ResultMeasuresTheRun, MeasuresRun, FallsOf, BackAt

(* The backtest measures the run it is of.  Its curve is made from the     *)
(* trades alone, its portfolio was moved fill by fill, and the two end at  *)
(* the same cash; the drawdown is the largest fall from any point to any   *)
(* later one, recovered if and only if equity came back; profit, charges,  *)
(* wins, losses and sides add up; and no more time is spent in the market  *)
(* than the run took.  This for every sequence of trades, however long.    *)
THEOREM RunsAreMeasured == Spec => []ResultMeasuresTheRun
<1>1. ReplayInv /\ EngineInv /\ LogInv /\ CashInv /\ MeasuredInv /\ [Next]_vars
        => CashInv' /\ MeasuredInv'
  BY CashStep
<1>2. ReplayInv /\ LogInv /\ [Next]_vars => LogInv'
  BY LogStep
<1>3. Init => CashInv /\ MeasuredInv /\ LogInv
  BY CashInit, LogInvInit
<1>4. EngineInv /\ CashInv /\ MeasuredInv /\ LogInv => ResultMeasuresTheRun
  BY ResultIsRight
<1>5. QED
  BY <1>1, <1>2, <1>3, <1>4, ReplayInvHolds, EngineInvHolds, PTL DEF Spec
-----------------------------------------------------------------------------
(* Closing in the backtest: the checks of Trade.                           *)
LEMMA RoundTripIsValid ==
  ASSUME NEW d \in {"LONG", "SHORT"}, NEW e \in AnyFill, NEW x \in AnyFill, NEW a,
         e.reason = "entry", x.reason # "entry", e.side = EntrySide(d), x.side = ExitSide(d),
         e.quantity = x.quantity, e.occurred_at <= x.occurred_at
  PROVE  ValidTrade(CloseTrade(d, e, x, a))
<1>1. PICK t : t = CloseTrade(d, e, x, a)
  OBVIOUS
<1>2. /\ t.direction = d /\ t.entry = e /\ t.exit = x /\ t.costs = e.costs + x.costs
      /\ t.gross_pnl = (IF IsLong(d) THEN x.price - e.price ELSE e.price - x.price) * e.quantity
  BY <1>1 DEF CloseTrade
<1>3. ValidTrade(t)
  BY <1>2 DEF ValidTrade
<1>4. QED
  BY <1>1, <1>3

Opened(on, at) ==
  on.entry.reason = "entry" /\ on.entry.occurred_at \in Int /\ on.entry.occurred_at <= at

ValidBook ==
  /\ EngineRuns /\ held # None => Opened(held, cursor)
  /\ \A i \in DOMAIN closed : ValidTrade(closed[i])

LEMMA ValidClose ==
  ASSUME NEW on, NEW tr, HeldWell(on, tr), NEW bar \in AnyBar, bar.start \in Int,
         Opened(on, bar.start), NEW minutes, ExitOn(on, bar, minutes).reason # "none"
  PROVE  ValidTrade(TradeOn(on, ExitOn(on, bar, minutes), bar))
<1>1. PICK exit : exit = ExitOn(on, bar, minutes)
  OBVIOUS
<1>2. exit.reason \in {"stop", "target", "time_exit"}
  <2>1. ResolveExit(on.intent, on.entry, bar, minutes).reason \in {"none", "stop", "target"}
    BY ExitKinds
  <2>2. \/ exit.reason = "time_exit"
        \/ exit = ResolveExit(on.intent, on.entry, bar, minutes)
    BY <1>1 DEF ExitOn, Resolved
  <2>3. QED
    BY <1>1, <2>1, <2>2
<1>3. on \in AnyPosition /\ on.intent \in AnyIntent /\ on.entry \in AnyFill
  BY DEF HeldWell, AnyPosition
<1>4. on.intent.signal.direction \in {"LONG", "SHORT"}
  BY <1>3, SignalFields DEF AnyIntent
<1>5. PICK reference \in Int : reference = ExitReference(on.intent, on.entry, exit.reason, bar)
  BY <1>2, <1>3, ReferenceIsInt
<1>6. PICK fill : fill = ExitFill(on.intent, exit.reason, reference, bar)
  OBVIOUS
<1>7. /\ fill \in AnyFill /\ fill.side = ExitSide(on.intent.signal.direction)
      /\ fill.reason = exit.reason /\ bar.start <= fill.occurred_at
  <2>1. exit.reason \in Reasons
    BY <1>2 DEF Reasons
  <2>2. QED
    BY <1>3, <1>6, <2>1, ExitFilled
<1>8. fill.quantity = on.intent.quantity
  BY <1>6 DEF ExitFill, MakeFill
<1>9. fill.reason # "entry"
  BY <1>2, <1>7
<1>10. on.entry.occurred_at <= fill.occurred_at
  <2>1. fill.occurred_at \in Int
    BY <1>7 DEF AnyFill
  <2>2. on.entry.occurred_at \in Int /\ on.entry.occurred_at <= bar.start
    BY DEF Opened
  <2>3. QED
    BY <1>7, <2>1, <2>2
<1>11. /\ on.entry.reason = "entry" /\ on.entry.quantity = on.intent.quantity
       /\ on.entry.side = EntrySide(on.intent.signal.direction)
  BY DEF Opened, HeldWell
<1>12. TradeOn(on, exit, bar) = CloseTrade(on.intent.signal.direction, on.entry, fill, exit.ambiguity)
  BY <1>5, <1>6 DEF TradeOn
<1>13. QED
  BY <1>1, <1>3, <1>4, <1>7, <1>8, <1>9, <1>10, <1>11, <1>12, RoundTripIsValid

LEMMA OpenedOnBar ==
  ASSUME InData, AwaitingInv, CashInv, ValidBook, EngineRuns, NEW bar, Given(bar), ~EntryRaises(bar),
         HeldOn(bar) # None
  PROVE  Opened(HeldOn(bar), bar.start)
<1>1. bar \in AnyBar /\ bar.start \in Int /\ cursor \in Int /\ cursor < bar.start
  BY GivenBar
<1>2. CASE ~Enters(bar)
  <2>1. HeldOn(bar) = held
    BY <1>2 DEF HeldOn
  <2>2. Opened(held, cursor)
    BY <2>1 DEF ValidBook
  <2>3. QED
    BY <1>1, <2>1, <2>2 DEF Opened
<1>3. CASE Enters(bar)
  <2>1. EngineIntent(bar) \in AnyIntent
    BY <1>1, <1>3, EngineIntended
  <2>2. PICK fill : fill = EntryFill(EngineIntent(bar), bar)
    OBVIOUS
  <2>3. HeldOn(bar).entry = fill
    BY <1>3, <2>2 DEF HeldOn
  <2>4. fill.reason = "entry" /\ fill.occurred_at = bar.start
    BY <1>1, <2>1, <2>2, EntryFilled
  <2>5. QED
    BY <1>1, <2>3, <2>4 DEF Opened
<1>4. QED
  BY <1>2, <1>3

LEMMA ValidOnBar ==
  ASSUME InData, AwaitingInv, ClosedInv, CashInv, ValidBook, EngineRuns, NEW bar, Given(bar),
         NEW minutes, PaysOnBar(bar, minutes)
  PROVE  ValidBook'
<1>1. PICK on : on = HeldOn(bar)
  OBVIOUS
<1>2. on # None => HeldWell(on, closed) /\ Opened(on, bar.start)
  BY <1>1, HeldWellOnBar, OpenedOnBar DEF PaysOnBar
<1>3. cursor' = bar.start /\ bar \in AnyBar /\ bar.start \in Int
  BY GivenBar DEF Given
<1>4. CASE held' = on /\ closed' = closed
  BY <1>2, <1>3, <1>4 DEF ValidBook
<1>5. CASE /\ on # None /\ ExitOn(on, bar, minutes).reason # "none" /\ held' = None
           /\ closed' = Append(closed, TradeOn(on, ExitOn(on, bar, minutes), bar))
  <2>1. PICK trade : trade = TradeOn(on, ExitOn(on, bar, minutes), bar)
    OBVIOUS
  <2>2. ValidTrade(trade)
    BY <1>2, <1>3, <1>5, <2>1, ValidClose
  <2>3. closed \in Seq(AnyTrade) /\ closed' = Append(closed, trade)
    BY <1>5, <2>1 DEF ClosedInv
  <2>4. trade \in AnyTrade
    BY <1>2, <1>3, <1>5, <2>1, TradeMade DEF HeldWell
  <2>5. \A i \in DOMAIN closed' : \/ closed'[i] = trade
                                  \/ i \in DOMAIN closed /\ closed'[i] = closed[i]
    BY <2>3, <2>4
  <2>6. PICK more : more = closed'
    OBVIOUS
  <2>7. \A i \in DOMAIN more : ValidTrade(more[i])
    BY <2>2, <2>5, <2>6 DEF ValidBook
  <2>8. QED
    BY <1>5, <2>6, <2>7 DEF ValidBook, ValidTrade
<1>6. QED
  BY <1>1, <1>4, <1>5 DEF PaysOnBar

LEMMA BookKept ==
  ASSUME ValidBook, EngineRuns' => EngineRuns, held' = held, closed' = closed, cursor' = cursor
  PROVE  ValidBook'
BY DEF ValidBook, Opened, ValidTrade

LEMMA ValidStep ==
  ASSUME ReplayInv, EngineInv, LogInv, CashInv, ValidBook, [Next]_vars
  PROVE  ValidBook'
<1>1. InData /\ SeenInv
  BY DEF ReplayInv, AdapterInv
<1>2. CASE GiveBar
  <2>1. PICK bar \in AnyBar : \E minutes :
           Given(bar) /\ (EngineFills(bar, minutes) \/ EngineOver)
    BY <1>1, <1>2, GiveBarCases
  <2>2. PICK minutes : EngineFills(bar, minutes) \/ EngineOver
    BY <2>1
  <2>3. CASE ~EngineRuns' /\ closed' = closed
    BY <2>3 DEF ValidBook, ValidTrade
  <2>4. CASE EngineOver
    BY <2>3, <2>4 DEF EngineOver, engine_vars, EngineRuns
  <2>5. CASE EngineFills(bar, minutes)
    <3>1. EngineRuns
      BY <2>5, EngineBarCases
    <3>2. AwaitingInv /\ ClosedInv
      BY <3>1 DEF EngineInv
    <3>3. CASE ~EngineRuns'
      <4>1. closed' = closed
        BY <2>5, <3>1, <3>3 DEF EngineFills, engine_vars, EngineRuns
      <4>2. QED
        BY <2>3, <3>3, <4>1
    <3>4. CASE EngineRuns'
      <4>1. CASE UNCHANGED <<held, closed>>
        <5>1. cursor' \in Int /\ cursor \in Int /\ cursor < cursor'
          BY <1>1, <2>1, GivenBar DEF Given
        <5>2. held # None => Opened(held, cursor')
          BY <3>1, <5>1 DEF ValidBook, Opened
        <5>3. QED
          BY <4>1, <5>2 DEF ValidBook, Opened, ValidTrade
      <4>2. CASE PaysOnBar(bar, minutes)
        BY <1>1, <2>1, <3>1, <3>2, <4>2, ValidOnBar
      <4>3. QED
        BY <2>5, <3>4, <4>1, <4>2, BarPays
    <3>5. QED
      BY <3>3, <3>4
  <2>6. QED
    BY <2>2, <2>4, <2>5
<1>3. CASE ~GiveBar
  <2>1. /\ cursor' = cursor /\ held' = held /\ closed' = closed
        /\ EngineRuns' => EngineRuns
    <3>1. CASE SkipDay
      BY <3>1 DEF SkipDay, engine_vars, EngineRuns
    <3>2. CASE StartSession
      BY <3>2 DEF StartSession, EngineStartSession, EngineOver, engine_vars, EngineRuns
    <3>3. CASE AskStrategy
      BY <3>3 DEF AskStrategy, EngineDecides, EngineOver, engine_vars, EngineRuns
    <3>4. CASE EndSession
      BY <3>4 DEF EndSession, EngineEndSession, EngineOver, engine_vars, EngineRuns
    <3>5. CASE MeasureRun
      BY <3>5 DEF MeasureRun, EngineFinish, data_vars, EngineRuns
    <3>6. CASE Finished \/ UNCHANGED vars
      BY <3>6 DEF Finished, vars, engine_vars, data_vars, EngineRuns
    <3>7. QED
      BY <1>3, <3>1, <3>2, <3>3, <3>4, <3>5, <3>6 DEF Next
  <2>2. QED
    BY <2>1, BookKept
<1>4. QED
  BY <1>2, <1>3

(* Trade.__post_init__ refuses no trade of the backtest either: a run ends *)
(* early by what the model says ends it, never by a trade that does not    *)
(* add up.                                                                 *)
THEOREM BacktestTradesAreValid == Spec => [](\A i \in DOMAIN closed : ValidTrade(closed[i]))
<1>1. ReplayInv /\ EngineInv /\ LogInv /\ CashInv /\ ValidBook /\ [Next]_vars => ValidBook'
  BY ValidStep
<1>2. ReplayInv /\ EngineInv /\ LogInv /\ CashInv /\ MeasuredInv /\ [Next]_vars
        => CashInv' /\ MeasuredInv'
  BY CashStep
<1>3. ReplayInv /\ LogInv /\ [Next]_vars => LogInv'
  BY LogStep
<1>4. Init => CashInv /\ MeasuredInv /\ LogInv /\ ValidBook
  <2>1. Init => held = None /\ closed = <<>>
    BY DEF Init, EngineInit
  <2>2. DOMAIN <<>> = {}
    OBVIOUS
  <2>3. QED
    BY <2>1, <2>2, CashInit, LogInvInit DEF ValidBook
<1>5. ValidBook => \A i \in DOMAIN closed : ValidTrade(closed[i])
  BY DEF ValidBook
<1>6. QED
  BY <1>1, <1>2, <1>3, <1>4, <1>5, ReplayInvHolds, EngineInvHolds, PTL DEF Spec
=============================================================================
