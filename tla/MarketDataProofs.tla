-------------------------- MODULE MarketDataProofs --------------------------
(***************************************************************************)
(* Theorems about MarketDataService and its CandleEngine for any derived   *)
(* intervals, volumes, messages, clock and perils.                         *)
(***************************************************************************)
EXTENDS MarketDataService, WellFoundedInduction, SequenceTheorems, TLAPS

-----------------------------------------------------------------------------
(* Induction over the naturals, for a property given as a set.             *)
LEMMA Induction ==
  ASSUME NEW S, 0 \in S, \A n \in Nat : n \in S => n + 1 \in S
  PROVE  Nat \subseteq S
<1> DEFINE R == OpToRel(<, Nat)
           T == Nat \ S
<1>1. IsWellFoundedOn(R, Nat)
  BY NatLessThanWellFounded
<1>2. \A x, y \in Nat : x < y => <<x, y>> \in R
  BY DEF OpToRel
<1> HIDE DEF R
<1> SUFFICES ASSUME T # {} PROVE FALSE
  OBVIOUS
<1>3. PICK x \in T : \A y \in T : <<y, x>> \notin R
  BY <1>1, WFMin
<1>4. x - 1 \in Nat /\ x - 1 < x
  BY <1>3
<1>5. x - 1 \in S
  BY <1>2, <1>3, <1>4
<1>6. QED
  BY <1>3, <1>4, <1>5

(* The recursions of TicksOf and VolumeOf.                                 *)
Joined(ticks, bar) == ticks \o TicksIn(bar)
TicksUpto(bars, k, f) ==
  f = [n \in 0 .. k |-> IF n = 0 THEN <<>> ELSE Joined(f[n - 1], bars[n])]
VolumeUpto(bars, k, f) ==
  f = [n \in 0 .. k |-> IF n = 0 THEN 0 ELSE f[n - 1] + VolumeIn(bars[n])]

LEMMA UptoExists ==
  ASSUME NEW bars, NEW k \in Nat
  PROVE  (\E f : TicksUpto(bars, k, f)) /\ (\E f : VolumeUpto(bars, k, f))
<1>1. \E f : TicksUpto(bars, k, f)
  <2> DEFINE S == {n \in Nat : \E f : TicksUpto(bars, n, f)}
  <2>1. 0 \in S
    <3>1. TicksUpto(bars, 0, [n \in 0 .. 0 |-> <<>>])
      BY DEF TicksUpto
    <3>2. QED
      BY <3>1
  <2>2. ASSUME NEW n \in Nat, n \in S PROVE n + 1 \in S
    <3>1. PICK f : TicksUpto(bars, n, f)
      BY <2>2
    <3> DEFINE g == [i \in 0 .. n + 1 |-> IF i = n + 1 THEN Joined(f[n], bars[n + 1]) ELSE f[i]]
    <3>2. TicksUpto(bars, n + 1, g)
      BY <3>1 DEF TicksUpto
    <3>3. QED
      BY <3>2
  <2> HIDE DEF S
  <2>3. k \in S
    BY <2>1, <2>2, Induction
  <2>4. QED
    BY <2>3 DEF S
<1>2. \E f : VolumeUpto(bars, k, f)
  <2> DEFINE S == {n \in Nat : \E f : VolumeUpto(bars, n, f)}
  <2>1. 0 \in S
    <3>1. VolumeUpto(bars, 0, [n \in 0 .. 0 |-> 0])
      BY DEF VolumeUpto
    <3>2. QED
      BY <3>1
  <2>2. ASSUME NEW n \in Nat, n \in S PROVE n + 1 \in S
    <3>1. PICK f : VolumeUpto(bars, n, f)
      BY <2>2
    <3> DEFINE g == [i \in 0 .. n + 1 |-> IF i = n + 1 THEN f[n] + VolumeIn(bars[n + 1]) ELSE f[i]]
    <3>2. VolumeUpto(bars, n + 1, g)
      BY <3>1 DEF VolumeUpto
    <3>3. QED
      BY <3>2
  <2> HIDE DEF S
  <2>3. k \in S
    BY <2>1, <2>2, Induction
  <2>4. QED
    BY <2>3 DEF S
<1>3. QED
  BY <1>1, <1>2

SameUpto(bars, more, j) == \A n \in 1 .. j : bars[n] = more[n]

LEMMA TicksUnique ==
  ASSUME NEW bars, NEW more, NEW k \in Nat, NEW l \in Nat, NEW j \in Nat, j <= k, j <= l,
         NEW f, NEW g, TicksUpto(bars, k, f), TicksUpto(more, l, g), SameUpto(bars, more, j)
  PROVE  f[j] = g[j]
<1> DEFINE S == {n \in Nat : n <= j => f[n] = g[n]}
<1>1. 0 \in S
  BY DEF TicksUpto
<1>2. ASSUME NEW n \in Nat, n \in S PROVE n + 1 \in S
  <2> SUFFICES ASSUME n + 1 <= j PROVE f[n + 1] = g[n + 1]
    OBVIOUS
  <2>1. /\ f[n + 1] = Joined(f[n], bars[n + 1])
        /\ g[n + 1] = Joined(g[n], more[n + 1])
    BY DEF TicksUpto
  <2>2. QED
    BY <1>2, <2>1 DEF SameUpto
<1> HIDE DEF S
<1>3. j \in S
  BY <1>1, <1>2, Induction
<1>4. QED
  BY <1>3 DEF S

LEMMA VolumeUnique ==
  ASSUME NEW bars, NEW more, NEW k \in Nat, NEW l \in Nat, NEW j \in Nat, j <= k, j <= l,
         NEW f, NEW g, VolumeUpto(bars, k, f), VolumeUpto(more, l, g), SameUpto(bars, more, j)
  PROVE  f[j] = g[j]
<1> DEFINE S == {n \in Nat : n <= j => f[n] = g[n]}
<1>1. 0 \in S
  BY DEF VolumeUpto
<1>2. ASSUME NEW n \in Nat, n \in S PROVE n + 1 \in S
  <2> SUFFICES ASSUME n + 1 <= j PROVE f[n + 1] = g[n + 1]
    OBVIOUS
  <2>1. /\ f[n + 1] = f[n] + VolumeIn(bars[n + 1])
        /\ g[n + 1] = g[n] + VolumeIn(more[n + 1])
    BY DEF VolumeUpto
  <2>2. QED
    BY <1>2, <2>1 DEF SameUpto
<1> HIDE DEF S
<1>3. j \in S
  BY <1>1, <1>2, Induction
<1>4. QED
  BY <1>3 DEF S

LEMMA UptoStep ==
  ASSUME NEW bars, NEW k \in Nat, NEW n \in 1 .. k, NEW f, NEW g,
         TicksUpto(bars, k, f), VolumeUpto(bars, k, g)
  PROVE  f[n] = Joined(f[n - 1], bars[n]) /\ g[n] = g[n - 1] + VolumeIn(bars[n])
BY DEF TicksUpto, VolumeUpto

LEMMA OfUpto ==
  ASSUME NEW bars, Len(bars) \in Nat
  PROVE  /\ \E f : TicksUpto(bars, Len(bars), f) /\ TicksOf(bars) = f[Len(bars)]
         /\ \E f : VolumeUpto(bars, Len(bars), f) /\ VolumeOf(bars) = f[Len(bars)]
<1> DEFINE t == CHOOSE f : TicksUpto(bars, Len(bars), f)
           v == CHOOSE f : VolumeUpto(bars, Len(bars), f)
<1>1. TicksUpto(bars, Len(bars), t) /\ VolumeUpto(bars, Len(bars), v)
  BY UptoExists
<1>2. TicksOf(bars) = t[Len(bars)]
  BY DEF TicksOf, TicksUpto, Joined
<1>3. VolumeOf(bars) = v[Len(bars)]
  BY DEF VolumeOf, VolumeUpto
<1>4. QED
  BY <1>1, <1>2, <1>3

LEMMA OfEmpty == TicksOf(<<>>) = <<>> /\ VolumeOf(<<>>) = 0
<1> DEFINE none == <<>>
<1>1. Len(none) = 0
  OBVIOUS
<1> HIDE DEF none
<1>2. PICK f : TicksUpto(none, 0, f) /\ TicksOf(none) = f[0]
  BY <1>1, OfUpto
<1>3. PICK g : VolumeUpto(none, 0, g) /\ VolumeOf(none) = g[0]
  BY <1>1, OfUpto
<1>4. f[0] = <<>> /\ g[0] = 0
  BY <1>2, <1>3 DEF TicksUpto, VolumeUpto
<1>5. QED
  BY <1>2, <1>3, <1>4 DEF none

LEMMA OfAppend ==
  ASSUME NEW S, NEW bars \in Seq(S), NEW bar \in S
  PROVE  /\ TicksOf(Append(bars, bar)) = TicksOf(bars) \o TicksIn(bar)
         /\ VolumeOf(Append(bars, bar)) = VolumeOf(bars) + VolumeIn(bar)
<1> DEFINE more == Append(bars, bar)
           k == Len(bars)
<1>1. k \in Nat /\ Len(more) = k + 1 /\ more[k + 1] = bar /\ \A n \in 1 .. k : bars[n] = more[n]
  BY AppendProperties, LenProperties
<1> HIDE DEF more, k
<1>2. TicksOf(more) = TicksOf(bars) \o TicksIn(bar)
  <2>1. PICK f : TicksUpto(bars, k, f) /\ TicksOf(bars) = f[k]
    BY <1>1, OfUpto DEF k
  <2>2. PICK g : TicksUpto(more, k + 1, g) /\ TicksOf(more) = g[k + 1]
    BY <1>1, OfUpto
  <2>3. g[k + 1] = Joined(g[k], bar)
    BY <1>1, <2>2 DEF TicksUpto
  <2>4. f[k] = g[k]
    <3>1. SameUpto(bars, more, k) /\ k + 1 \in Nat /\ k <= k + 1
      BY <1>1 DEF SameUpto
    <3>2. QED
      BY <1>1, <2>1, <2>2, <3>1, TicksUnique
  <2>5. QED
    BY <2>1, <2>2, <2>3, <2>4 DEF Joined
<1>3. VolumeOf(more) = VolumeOf(bars) + VolumeIn(bar)
  <2>1. PICK f : VolumeUpto(bars, k, f) /\ VolumeOf(bars) = f[k]
    BY <1>1, OfUpto DEF k
  <2>2. PICK g : VolumeUpto(more, k + 1, g) /\ VolumeOf(more) = g[k + 1]
    BY <1>1, OfUpto
  <2>3. g[k + 1] = g[k] + VolumeIn(bar)
    BY <1>1, <2>2 DEF VolumeUpto
  <2>4. f[k] = g[k]
    <3>1. SameUpto(bars, more, k) /\ k + 1 \in Nat /\ k <= k + 1
      BY <1>1 DEF SameUpto
    <3>2. QED
      BY <1>1, <2>1, <2>2, <3>1, VolumeUnique
  <2>5. QED
    BY <2>1, <2>2, <2>3, <2>4
<1>4. QED
  BY <1>2, <1>3 DEF more

LEMMA TicksAssociate ==
  ASSUME NEW a \in Seq(Ticks), NEW b \in Seq(Ticks), NEW c \in Seq(Ticks)
  PROVE  (a \o b) \o c = a \o (b \o c)
BY ConcatAssociative

LEMMA BarsAssociate ==
  ASSUME NEW a \in Seq(Bars), NEW b \in Seq(Bars), NEW c \in Seq(Bars)
  PROVE  (a \o b) \o c = a \o (b \o c)
BY ConcatAssociative

LEMMA SumOfLengths ==
  ASSUME NEW a \in Nat, NEW b \in Nat, b # 0
  PROVE  a + b # 0
OBVIOUS

LEMMA SecondPart ==
  ASSUME NEW a \in Nat, NEW b \in Nat, NEW k \in 1 .. a + b, ~(k <= a)
  PROVE  k - a \in 1 .. b
OBVIOUS

(* What may hold ticks and volume: a bar, a row, or nothing.               *)
Held == Bars \cup Rows \cup {NoBar}

LEMMA HeldType ==
  ASSUME NEW bar \in Held
  PROVE  TicksIn(bar) \in Seq(Ticks) /\ VolumeIn(bar) \in Nat
<1>1. CASE bar = NoBar
  BY <1>1 DEF TicksIn, VolumeIn
<1>2. CASE bar \in Bars /\ bar # NoBar
  BY <1>2 DEF TicksIn, VolumeIn, Bars
<1>3. CASE bar \in Rows /\ bar # NoBar
  BY <1>3 DEF TicksIn, VolumeIn, Rows
<1>4. QED
  BY <1>1, <1>2, <1>3 DEF Held

LEMMA OfType ==
  ASSUME NEW bars \in Seq(Held)
  PROVE  TicksOf(bars) \in Seq(Ticks) /\ VolumeOf(bars) \in Nat
<1> DEFINE Typed(s) == TicksOf(s) \in Seq(Ticks) /\ VolumeOf(s) \in Nat
           S == {n \in Nat : \A s \in Seq(Held) : Len(s) = n => Typed(s)}
<1>1. 0 \in S
  <2> SUFFICES ASSUME NEW s \in Seq(Held), Len(s) = 0 PROVE Typed(s)
    OBVIOUS
  <2>1. TicksOf(s) = <<>> /\ VolumeOf(s) = 0
    BY EmptySeq, OfEmpty
  <2>2. TicksOf(s) \in Seq(Ticks)
    BY <2>1
  <2>3. QED
    BY <2>1, <2>2
<1>2. ASSUME NEW n \in Nat, n \in S PROVE n + 1 \in S
  <2> SUFFICES ASSUME NEW s \in Seq(Held), Len(s) = n + 1 PROVE Typed(s)
    OBVIOUS
  <2>1. s # <<>>
    BY EmptySeq
  <2>2. PICK r \in Seq(Held), bar \in Held : s = Append(r, bar)
    BY <2>1, SequenceEmptyOrAppend
  <2>3. Len(r) = n
    BY <2>2, AppendProperties, LenProperties
  <2>4. Typed(r)
    BY <1>2, <2>3
  <2>5. TicksOf(s) = TicksOf(r) \o TicksIn(bar) /\ VolumeOf(s) = VolumeOf(r) + VolumeIn(bar)
    BY <2>2, OfAppend
  <2>6. TicksIn(bar) \in Seq(Ticks) /\ VolumeIn(bar) \in Nat
    BY HeldType
  <2>7. QED
    BY <2>4, <2>5, <2>6, ConcatProperties
<1> HIDE DEF S
<1>3. Len(bars) \in S
  BY <1>1, <1>2, Induction, LenProperties
<1>4. QED
  BY <1>3 DEF S

LEMMA OfConcat ==
  ASSUME NEW bars \in Seq(Held), NEW more \in Seq(Held)
  PROVE  /\ TicksOf(bars \o more) = TicksOf(bars) \o TicksOf(more)
         /\ VolumeOf(bars \o more) = VolumeOf(bars) + VolumeOf(more)
<1> DEFINE Splits(s) == /\ TicksOf(bars \o s) = TicksOf(bars) \o TicksOf(s)
                        /\ VolumeOf(bars \o s) = VolumeOf(bars) + VolumeOf(s)
           S == {n \in Nat : \A s \in Seq(Held) : Len(s) = n => Splits(s)}
<1>0. TicksOf(bars) \in Seq(Ticks) /\ VolumeOf(bars) \in Nat
  BY OfType
<1>1. 0 \in S
  <2>1. \A s \in Seq(Held) : Len(s) = 0 => s = <<>>
    BY EmptySeq
  <2>2. Splits(<<>>)
    <3>1. bars \o <<>> = bars /\ TicksOf(bars) \o <<>> = TicksOf(bars)
      BY <1>0, ConcatEmptySeq
    <3>2. QED
      BY <1>0, <3>1, OfEmpty
  <2> HIDE DEF Splits
  <2>3. QED
    BY <2>1, <2>2
<1>2. ASSUME NEW n \in Nat, n \in S PROVE n + 1 \in S
  <2> SUFFICES ASSUME NEW s \in Seq(Held), Len(s) = n + 1 PROVE Splits(s)
    OBVIOUS
  <2>1. s # <<>>
    BY EmptySeq
  <2>2. PICK r \in Seq(Held), bar \in Held : s = Append(r, bar)
    BY <2>1, SequenceEmptyOrAppend
  <2>3. Len(r) = n
    BY <2>2, AppendProperties, LenProperties
  <2>4. Splits(r)
    BY <1>2, <2>3
  <2>5. bars \o s = Append(bars \o r, bar) /\ bars \o r \in Seq(Held)
    <3>1. s = r \o <<bar>> /\ <<bar>> \in Seq(Held)
      BY <2>2, AppendIsConcat
    <3>2. bars \o s = (bars \o r) \o <<bar>>
      BY <3>1, ConcatAssociative
    <3>3. bars \o r \in Seq(Held)
      BY ConcatProperties
    <3>4. QED
      BY <3>2, <3>3, AppendIsConcat
  <2>6. /\ TicksOf(s) = TicksOf(r) \o TicksIn(bar) /\ VolumeOf(s) = VolumeOf(r) + VolumeIn(bar)
        /\ TicksOf(bars \o s) = TicksOf(bars \o r) \o TicksIn(bar)
        /\ VolumeOf(bars \o s) = VolumeOf(bars \o r) + VolumeIn(bar)
    BY <2>2, <2>5, OfAppend
  <2>7. /\ TicksIn(bar) \in Seq(Ticks) /\ VolumeIn(bar) \in Nat
        /\ TicksOf(r) \in Seq(Ticks) /\ VolumeOf(r) \in Nat
    BY HeldType, OfType
  <2>8. TicksOf(bars \o s) = TicksOf(bars) \o TicksOf(s)
    <3>1. (TicksOf(bars) \o TicksOf(r)) \o TicksIn(bar) = TicksOf(bars) \o (TicksOf(r) \o TicksIn(bar))
      BY <1>0, <2>7, TicksAssociate
    <3>2. TicksOf(bars \o r) = TicksOf(bars) \o TicksOf(r)
      BY <2>4
    <3>3. QED
      BY <2>6, <3>1, <3>2
  <2>9. VolumeOf(bars \o s) = VolumeOf(bars) + VolumeOf(s)
    BY <1>0, <2>4, <2>6, <2>7
  <2>10. QED
    BY <2>8, <2>9
<1> HIDE DEF S
<1>3. Len(more) \in S
  BY <1>1, <1>2, Induction, LenProperties
<1>4. QED
  BY <1>3 DEF S

LEMMA OfOne ==
  ASSUME NEW bar \in Held
  PROVE  TicksOf(<<bar>>) = TicksIn(bar) /\ VolumeOf(<<bar>>) = VolumeIn(bar)
<1> DEFINE none == <<>>
<1>1. none \in Seq(Held) /\ <<bar>> = Append(none, bar)
  OBVIOUS
<1>2. TicksOf(none) = <<>> /\ VolumeOf(none) = 0
  BY OfEmpty
<1> HIDE DEF none
<1>3. /\ TicksOf(<<bar>>) = TicksOf(none) \o TicksIn(bar)
      /\ VolumeOf(<<bar>>) = VolumeOf(none) + VolumeIn(bar)
  BY <1>1, OfAppend
<1>4. TicksIn(bar) \in Seq(Ticks) /\ VolumeIn(bar) \in Nat
  BY HeldType
<1>5. <<>> \o TicksIn(bar) = TicksIn(bar)
  BY <1>4, ConcatEmptySeq
<1>6. QED
  BY <1>2, <1>3, <1>4, <1>5

-----------------------------------------------------------------------------
(* Slots of minutes.                                                       *)
LEMMA Bucket ==
  ASSUME NEW m \in Nat, NEW w \in Nat \ {0}
  PROVE  LET b == bucket_start(m, w) IN b \in Nat /\ b <= m /\ m < b + w
<1>1. m = (w * (m \div w)) + (m % w) /\ m \div w \in Nat /\ m % w \in 0 .. w - 1
  OBVIOUS
<1>2. w * (m \div w) \in Nat
  BY <1>1
<1>3. QED
  BY <1>1, <1>2 DEF bucket_start

LEMMA BucketMonotone ==
  ASSUME NEW m \in Nat, NEW n \in Nat, NEW w \in Nat \ {0}, m <= n
  PROVE  bucket_start(m, w) <= bucket_start(n, w)
<1> DEFINE p == m \div w
           q == n \div w
<1>1. p \in Nat /\ q \in Nat
  OBVIOUS
<1>2. /\ bucket_start(m, w) = w * p /\ bucket_start(n, w) = w * q
  BY DEF bucket_start
<1>3. w * p <= m /\ n < w * q + w
  BY <1>2, Bucket
<1> HIDE DEF p, q
<1>4. p <= q
  <2> SUFFICES ASSUME q + 1 <= p PROVE FALSE
    BY <1>1
  <2>1. w * (q + 1) <= w * p
    BY <1>1
  <2>2. w * (q + 1) = w * q + w
    BY <1>1
  <2>3. QED
    BY <1>1, <1>3, <2>1, <2>2
<1>5. w * p <= w * q
  BY <1>1, <1>4
<1>6. QED
  BY <1>2, <1>5

LEMMA SameSlot ==
  ASSUME NEW m \in Nat, NEW n \in Nat, NEW w \in Nat \ {0},
         bucket_start(m, w) <= n, n < bucket_start(m, w) + w
  PROVE  bucket_start(n, w) = bucket_start(m, w)
<1> DEFINE p == m \div w
           q == n \div w
<1>1. p \in Nat /\ q \in Nat
  OBVIOUS
<1>2. /\ bucket_start(m, w) = w * p /\ bucket_start(n, w) = w * q
  BY DEF bucket_start
<1>3. w * q <= n /\ n < w * q + w
  BY <1>2, Bucket
<1> HIDE DEF p, q
<1>4. p <= q
  <2> SUFFICES ASSUME q + 1 <= p PROVE FALSE
    BY <1>1
  <2>1. w * (q + 1) <= w * p
    BY <1>1
  <2>2. w * (q + 1) = w * q + w
    BY <1>1
  <2>3. QED
    BY <1>1, <1>2, <1>3, <2>1, <2>2
<1>5. q <= p
  <2> SUFFICES ASSUME p + 1 <= q PROVE FALSE
    BY <1>1
  <2>1. w * (p + 1) <= w * q
    BY <1>1
  <2>2. w * (p + 1) = w * p + w
    BY <1>1
  <2>3. QED
    BY <1>1, <1>2, <1>3, <2>1, <2>2
<1>6. p = q
  BY <1>1, <1>4, <1>5
<1>7. QED
  BY <1>2, <1>6

(* A start that begins a slot of the interval.                             *)
Aligned(start, w) == start = bucket_start(start, w)

LEMMA BucketAligned ==
  ASSUME NEW m \in Nat, NEW w \in Nat \ {0}
  PROVE  Aligned(bucket_start(m, w), w)
<1>1. bucket_start(m, w) \in Nat
  BY Bucket
<1>2. QED
  BY <1>1, SameSlot DEF Aligned

LEMMA NextSlot ==
  ASSUME NEW a \in Nat, NEW b \in Nat, NEW w \in Nat \ {0},
         Aligned(a, w), Aligned(b, w), a < b
  PROVE  a + w <= b
<1> SUFFICES ASSUME b < a + w PROVE FALSE
  OBVIOUS
<1>1. bucket_start(b, w) = bucket_start(a, w)
  BY SameSlot DEF Aligned
<1>2. QED
  BY <1>1 DEF Aligned

LEMMA MinuteSlots == \A m \in Nat : bucket_start(m, 1) = m /\ Aligned(m, 1)
BY DEF bucket_start, Aligned

LEMMA WidthFacts ==
  /\ \A w \in Intervals : w \in Nat \ {0}
  /\ \A w \in Widths : w # 1 /\ w \in Intervals
  /\ \A w \in Intervals : w # 1 => w \in Widths
  /\ 1 \in Intervals /\ NoVolume \notin Nat
BY EngineAssumption DEF Intervals

-----------------------------------------------------------------------------
(* A bar of an interval: it holds ticks, all of its window.                *)
GoodBar(bar, w) ==
  /\ bar \in Bars /\ bar.width = w /\ bar.ticks # <<>>
  /\ \A k \in 1 .. Len(bar.ticks) :
       bar.start <= bar.ticks[k].time /\ bar.ticks[k].time < bar.start + w

LEMMA GoodBarIsHeld ==
  ASSUME NEW w \in Intervals, NEW bar, GoodBar(bar, w)
  PROVE  /\ bar \in Bars /\ bar \in Held /\ bar # NoBar
         /\ TicksIn(bar) = bar.ticks /\ VolumeIn(bar) = bar.volume
         /\ bar.ticks \in Seq(Ticks) /\ bar.volume \in Nat /\ bar.start \in 0 .. MaxTime
         /\ EndAt(bar) = bar.start + w
BY NoBarAssumption DEF GoodBar, Held, TicksIn, VolumeIn, EndAt, Bars

(* What a minute makes of the open bar of its slot.                        *)
LEMMA GrownBar ==
  ASSUME NEW w \in Widths, NEW open, open # NoBar => GoodBar(open, w),
         NEW minute, GoodBar(minute, 1),
         open # NoBar => open.start <= bucket_start(minute.start, w)
  PROVE  LET grown == WithMinute(open, minute, w)
             fresh == open = NoBar \/ SlotPassed(open, bucket_start(minute.start, w))
         IN  /\ GoodBar(grown, w) /\ grown.start = bucket_start(minute.start, w)
             /\ grown.ticks = IF fresh THEN minute.ticks ELSE open.ticks \o minute.ticks
             /\ grown.volume = IF fresh THEN minute.volume ELSE open.volume + minute.volume
<1> DEFINE slot == bucket_start(minute.start, w)
           fresh == open = NoBar \/ SlotPassed(open, slot)
           base == IF fresh THEN Bar(w, slot, <<>>, 0, NoVolume) ELSE open
           grown == WithMinute(open, minute, w)
<1>1. /\ minute.start \in 0 .. MaxTime /\ minute.ticks \in Seq(Ticks) /\ minute.volume \in Nat
      /\ w \in Nat \ {0} /\ w \in Intervals /\ MaxTime \in Nat
  BY GoodBarIsHeld, WidthFacts, ServiceAssumption
<1>2. slot \in 0 .. MaxTime /\ slot <= minute.start /\ minute.start < slot + w
  <2>1. minute.start \in Nat /\ minute.start <= MaxTime
    BY <1>1
  <2>2. slot \in Nat /\ slot <= minute.start /\ minute.start < slot + w
    BY <1>1, <2>1, Bucket
  <2> HIDE DEF slot
  <2>3. QED
    BY <1>1, <2>1, <2>2
<1>3. \A k \in 1 .. Len(minute.ticks) :
        slot <= minute.ticks[k].time /\ minute.ticks[k].time < slot + w
  <2> SUFFICES ASSUME NEW k \in 1 .. Len(minute.ticks)
               PROVE  slot <= minute.ticks[k].time /\ minute.ticks[k].time < slot + w
    OBVIOUS
  <2>1. minute.start <= minute.ticks[k].time /\ minute.ticks[k].time < minute.start + 1
    BY DEF GoodBar
  <2>2. minute.ticks[k] \in Ticks
    BY <1>1, ElementOfSeq
  <2>3. minute.ticks[k].time \in Int
    BY <1>1, <2>2 DEF Ticks
  <2>4. minute.ticks[k].time = minute.start
    BY <1>1, <2>1, <2>3
  <2>5. QED
    BY <1>2, <2>4
<1>4. /\ base \in Bars /\ base.width = w /\ base.start = slot
      /\ base.ticks = (IF fresh THEN <<>> ELSE open.ticks)
      /\ base.volume = (IF fresh THEN 0 ELSE open.volume)
      /\ \A k \in 1 .. Len(base.ticks) :
           slot <= base.ticks[k].time /\ base.ticks[k].time < slot + w
  <2>1. CASE fresh
    <3>1. base = [width |-> w, start |-> slot, ticks |-> <<>>, volume |-> 0,
                  baseline |-> NoVolume]
      BY <2>1 DEF Bar
    <3>2. <<>> \in Seq(Ticks)
      BY EmptySeq
    <3> HIDE DEF base, fresh, slot
    <3>3. base \in Bars
      BY <1>1, <1>2, <3>1, <3>2 DEF Bars
    <3>4. QED
      BY <2>1, <3>1, <3>3
  <2>2. CASE ~fresh
    <3>1. GoodBar(open, w) /\ open.start <= slot /\ ~(open.start < slot)
      BY <2>2 DEF SlotPassed
    <3>2. open.start \in 0 .. MaxTime
      BY <1>1, <3>1, GoodBarIsHeld
    <3>3. open.start = slot
      BY <1>1, <1>2, <3>1, <3>2
    <3>4. QED
      BY <2>2, <3>1, <3>3 DEF GoodBar
  <2>3. QED
    BY <2>1, <2>2
<1>5. grown = [base EXCEPT !.ticks = @ \o minute.ticks, !.volume = @ + minute.volume]
  BY DEF WithMinute
<1> DEFINE ticks == base.ticks \o minute.ticks
<1> HIDE DEF base, grown, fresh, slot
<1>6. /\ base.ticks \in Seq(Ticks) /\ base.volume \in Nat /\ base.start \in 0 .. MaxTime
      /\ base.baseline \in Nat \cup {NoVolume}
  BY <1>4 DEF Bars
<1>7. /\ ticks \in Seq(Ticks)
      /\ Len(ticks) = Len(base.ticks) + Len(minute.ticks)
      /\ \A k \in 1 .. Len(base.ticks) + Len(minute.ticks) :
           ticks[k] = IF k <= Len(base.ticks) THEN base.ticks[k]
                                              ELSE minute.ticks[k - Len(base.ticks)]
  BY <1>1, <1>6, ConcatProperties
<1> HIDE DEF ticks
<1>8. /\ grown \in Bars /\ grown.width = w /\ grown.start = slot
      /\ grown.ticks = ticks /\ grown.volume = base.volume + minute.volume
  <2>1. base.volume + minute.volume \in Nat
    BY <1>1, <1>6
  <2>2. grown = [base EXCEPT !.ticks = ticks, !.volume = base.volume + minute.volume]
    BY <1>4, <1>5 DEF Bars, ticks
  <2>3. base = [width |-> base.width, start |-> base.start, ticks |-> base.ticks,
                volume |-> base.volume, baseline |-> base.baseline]
    BY <1>4 DEF Bars
  <2>4. grown = [width |-> base.width, start |-> base.start, ticks |-> ticks,
                 volume |-> base.volume + minute.volume, baseline |-> base.baseline]
    BY <2>2, <2>3
  <2>5. QED
    BY <1>1, <1>4, <1>6, <1>7, <2>1, <2>4 DEF Bars
<1>9. Len(base.ticks) \in Nat /\ Len(minute.ticks) \in Nat /\ Len(minute.ticks) # 0
  <2>1. minute.ticks # <<>>
    BY DEF GoodBar
  <2>2. QED
    BY <1>1, <1>6, <2>1, LenProperties, EmptySeq
<1>10. ticks # <<>>
  <2>1. Len(ticks) # 0
    BY <1>7, <1>9, SumOfLengths
  <2>2. QED
    BY <1>7, <2>1, EmptySeq
<1>11. \A k \in 1 .. Len(ticks) : slot <= ticks[k].time /\ ticks[k].time < slot + w
  <2> SUFFICES ASSUME NEW k \in 1 .. Len(ticks)
               PROVE  slot <= ticks[k].time /\ ticks[k].time < slot + w
    OBVIOUS
  <2>0. k \in 1 .. Len(base.ticks) + Len(minute.ticks)
    BY <1>7
  <2>1. CASE k <= Len(base.ticks)
    <3>1. k \in 1 .. Len(base.ticks)
      BY <1>9, <2>0, <2>1
    <3>2. ticks[k] = base.ticks[k]
      BY <1>7, <2>0, <2>1
    <3>3. QED
      BY <1>4, <3>1, <3>2
  <2>2. CASE ~(k <= Len(base.ticks))
    <3>1. k - Len(base.ticks) \in 1 .. Len(minute.ticks)
      BY <1>9, <2>0, <2>2, SecondPart
    <3>2. ticks[k] = minute.ticks[k - Len(base.ticks)]
      BY <1>7, <1>9, <2>2
    <3>3. QED
      BY <1>3, <3>1, <3>2
  <2>3. QED
    BY <2>1, <2>2
<1>12. GoodBar(grown, w)
  BY <1>8, <1>10, <1>11 DEF GoodBar
<1>13. ticks = (IF fresh THEN minute.ticks ELSE open.ticks \o minute.ticks)
  <2>1. <<>> \o minute.ticks = minute.ticks
    BY <1>1, ConcatEmptySeq
  <2>2. QED
    BY <1>4, <2>1 DEF ticks
<1>14. base.volume + minute.volume = IF fresh THEN minute.volume
                                              ELSE open.volume + minute.volume
  BY <1>1, <1>4
<1>15. QED
  BY <1>8, <1>12, <1>13, <1>14 DEF grown, fresh, slot

(* _roll_up: whether it completes the bar it found, the bar it has made,   *)
(* or both, the ticks and the volume of the two are in one bar or other.   *)
Passed(open, minute, w) == open # NoBar /\ open.start < bucket_start(minute.start, w)
Full(open, minute, w)   == LastMinuteOf(minute, WithMinute(open, minute, w))

LEMMA RollUp ==
  ASSUME NEW w \in Widths, NEW open, open # NoBar => GoodBar(open, w),
         NEW minute, GoodBar(minute, 1),
         open # NoBar => open.start <= bucket_start(minute.start, w)
  PROVE  LET grown == WithMinute(open, minute, w)
         IN  /\ RolledUp(open, minute, w) =
                  IF Full(open, minute, w) THEN NoBar ELSE grown
             /\ RollUpDone(open, minute, w) =
                  (IF Passed(open, minute, w) THEN <<open>> ELSE <<>>)
                    \o (IF Full(open, minute, w) THEN <<grown>> ELSE <<>>)
<1> DEFINE slot == bucket_start(minute.start, w)
<1>1. ~SlotMissed(open, slot)
  <2> SUFFICES ASSUME open # NoBar PROVE ~(slot < open.start)
    BY DEF SlotMissed
  <2>1. open.start \in Nat /\ minute.start \in Nat
    BY GoodBarIsHeld, WidthFacts
  <2>2. slot \in Nat
    BY <2>1, Bucket, WidthFacts
  <2>3. QED
    BY <2>1, <2>2
<1>2. SlotPassed(open, slot) <=> Passed(open, minute, w)
  BY DEF SlotPassed, Passed
<1>3. QED
  BY <1>1, <1>2 DEF RolledUp, RollUpDone, Full

LEMMA RollUpConserves ==
  ASSUME NEW w \in Widths, NEW open, open # NoBar => GoodBar(open, w),
         NEW minute, GoodBar(minute, 1),
         open # NoBar => open.start <= bucket_start(minute.start, w)
  PROVE  LET done   == RollUpDone(open, minute, w)
             rolled == RolledUp(open, minute, w)
         IN  /\ done \in Seq(Bars) /\ \A n \in 1 .. Len(done) : GoodBar(done[n], w)
             /\ TicksOf(done) \o TicksIn(rolled) = TicksIn(open) \o minute.ticks
             /\ VolumeOf(done) + VolumeIn(rolled) = VolumeIn(open) + minute.volume
<1> DEFINE done   == RollUpDone(open, minute, w)
           rolled == RolledUp(open, minute, w)
           grown  == WithMinute(open, minute, w)
           passed == Passed(open, minute, w)
           full   == Full(open, minute, w)
           none   == <<>>
<1>1. /\ rolled = (IF full THEN NoBar ELSE grown)
      /\ done = (IF passed THEN <<open>> ELSE none) \o (IF full THEN <<grown>> ELSE none)
  BY RollUp
<1>2. /\ GoodBar(grown, w)
      /\ grown.ticks = IF open = NoBar \/ passed THEN minute.ticks ELSE open.ticks \o minute.ticks
      /\ grown.volume = IF open = NoBar \/ passed THEN minute.volume
                                                  ELSE open.volume + minute.volume
  BY GrownBar DEF SlotPassed, Passed
<1>3. /\ grown \in Bars /\ grown \in Held /\ grown # NoBar
      /\ TicksIn(grown) = grown.ticks /\ VolumeIn(grown) = grown.volume
      /\ grown.ticks \in Seq(Ticks) /\ grown.volume \in Nat
  BY <1>2, GoodBarIsHeld, WidthFacts
<1>4. /\ minute.ticks \in Seq(Ticks) /\ minute.volume \in Nat
      /\ none \in Seq(Held) /\ none \in Seq(Bars) /\ none \in Seq(Ticks) /\ Len(none) = 0
  BY GoodBarIsHeld, WidthFacts
<1>5. open # NoBar => /\ GoodBar(open, w) /\ open \in Bars /\ open \in Held
                      /\ TicksIn(open) = open.ticks /\ VolumeIn(open) = open.volume
                      /\ open.ticks \in Seq(Ticks) /\ open.volume \in Nat
  BY GoodBarIsHeld, WidthFacts
<1>6. TicksOf(none) = none /\ VolumeOf(none) = 0 /\ TicksIn(NoBar) = none /\ VolumeIn(NoBar) = 0
  BY OfEmpty DEF TicksIn, VolumeIn
<1>7. passed => open # NoBar
  BY DEF Passed
<1> DEFINE first  == IF passed THEN <<open>> ELSE none
           second == IF full THEN <<grown>> ELSE none
<1>8. first \in Seq(Held) /\ first \in Seq(Bars) /\ second \in Seq(Held) /\ second \in Seq(Bars)
  BY <1>3, <1>4, <1>5, <1>7
<1>9. /\ TicksOf(first) = IF passed THEN open.ticks ELSE none
      /\ VolumeOf(first) = IF passed THEN open.volume ELSE 0
  BY <1>5, <1>6, <1>7, OfOne
<1>10. /\ TicksOf(second) = IF full THEN grown.ticks ELSE none
       /\ VolumeOf(second) = IF full THEN grown.volume ELSE 0
  BY <1>3, <1>6, OfOne
<1>11. \A n \in 1 .. Len(first) : GoodBar(first[n], w)
  BY <1>4, <1>5, <1>7
<1>12. \A n \in 1 .. Len(second) : GoodBar(second[n], w)
  BY <1>2, <1>4
<1> HIDE DEF none, first, second, grown, passed, full, done, rolled
<1>13. \A t \in Seq(Ticks) : t \o none = t /\ none \o t = t
  BY ConcatEmptySeq DEF none
<1>14. done = first \o second
  BY <1>1 DEF first, second
<1>15. done \in Seq(Bars) /\ \A n \in 1 .. Len(done) : GoodBar(done[n], w)
  <2>1. /\ done \in Seq(Bars) /\ Len(done) = Len(first) + Len(second)
        /\ \A n \in 1 .. Len(first) + Len(second) :
             done[n] = IF n <= Len(first) THEN first[n] ELSE second[n - Len(first)]
    BY <1>8, <1>14, ConcatProperties
  <2>2. Len(first) \in Nat /\ Len(second) \in Nat
    BY <1>8, LenProperties
  <2>3. ASSUME NEW n \in 1 .. Len(first) + Len(second) PROVE GoodBar(done[n], w)
    <3>1. CASE n <= Len(first)
      <4>1. n \in 1 .. Len(first)
        BY <2>2, <2>3, <3>1
      <4>2. QED
        BY <1>11, <2>1, <3>1, <4>1
    <3>2. CASE ~(n <= Len(first))
      <4>1. n - Len(first) \in 1 .. Len(second)
        BY <2>2, <2>3, <3>2, SecondPart
      <4>2. QED
        BY <1>12, <2>1, <3>2, <4>1
    <3>3. QED
      BY <3>1, <3>2
  <2>4. QED
    BY <2>1, <2>3
<1>16. /\ TicksOf(done) = TicksOf(first) \o TicksOf(second)
       /\ VolumeOf(done) = VolumeOf(first) + VolumeOf(second)
  BY <1>8, <1>14, OfConcat
<1>17. /\ TicksOf(first) \in Seq(Ticks) /\ TicksOf(second) \in Seq(Ticks)
       /\ VolumeOf(first) \in Nat /\ VolumeOf(second) \in Nat
       /\ TicksIn(rolled) \in Seq(Ticks) /\ VolumeIn(rolled) \in Nat
  BY <1>1, <1>3, <1>4, <1>6, <1>8, OfType
<1>18. /\ TicksOf(second) \o TicksIn(rolled) = grown.ticks
       /\ VolumeOf(second) + VolumeIn(rolled) = grown.volume
  <2>1. CASE full
    <3>1. TicksIn(rolled) = none /\ VolumeIn(rolled) = 0
      BY <1>1, <1>6, <2>1
    <3>2. TicksOf(second) = grown.ticks /\ VolumeOf(second) = grown.volume
      BY <1>10, <2>1
    <3>3. grown.ticks \o none = grown.ticks /\ grown.volume + 0 = grown.volume
      BY <1>3, <1>13
    <3>4. QED
      BY <3>1, <3>2, <3>3
  <2>2. CASE ~full
    <3>1. TicksIn(rolled) = grown.ticks /\ VolumeIn(rolled) = grown.volume
      BY <1>1, <1>3, <2>2
    <3>2. TicksOf(second) = none /\ VolumeOf(second) = 0
      BY <1>10, <2>2
    <3>3. none \o grown.ticks = grown.ticks /\ 0 + grown.volume = grown.volume
      BY <1>3, <1>13
    <3>4. QED
      BY <3>1, <3>2, <3>3
  <2>3. QED
    BY <2>1, <2>2
<1>19. TicksOf(done) \o TicksIn(rolled) = TicksOf(first) \o grown.ticks
  <2>1. (TicksOf(first) \o TicksOf(second)) \o TicksIn(rolled)
          = TicksOf(first) \o (TicksOf(second) \o TicksIn(rolled))
    BY <1>17, TicksAssociate
  <2>2. QED
    BY <1>16, <1>18, <2>1
<1>20. VolumeOf(done) + VolumeIn(rolled) = VolumeOf(first) + grown.volume
  BY <1>16, <1>17, <1>18
<1>21. TicksOf(first) \o grown.ticks = TicksIn(open) \o minute.ticks
  BY <1>2, <1>3, <1>4, <1>5, <1>6, <1>7, <1>9, <1>13
<1>22. VolumeOf(first) + grown.volume = VolumeIn(open) + minute.volume
  BY <1>2, <1>3, <1>4, <1>5, <1>6, <1>7, <1>9
<1>23. QED
  BY <1>15, <1>19, <1>20, <1>21, <1>22 DEF done, rolled

-----------------------------------------------------------------------------
(* The engine after the tick `at`, a sequence of none or one: the minute   *)
(* that is open is that tick's, and no wider bar is of a later slot.       *)
Engines == [open : [Intervals -> Bars \cup {NoBar}], carry : Nat \cup {NoVolume}]

EngineOK(e, at) ==
  /\ e \in Engines
  /\ at \in Seq(Ticks)
  /\ \A w \in Intervals : e.open[w] # NoBar =>
       /\ GoodBar(e.open[w], w) /\ Aligned(e.open[w].start, w)
       /\ at # <<>> /\ e.open[w].start <= bucket_start(at[1].time, w)
  /\ e.open[1] # NoBar => e.open[1].start = at[1].time

Dones == {done \in [Intervals -> Seq(Bars)] :
            \A w \in Intervals : \A n \in 1 .. Len(done[w]) : GoodBar(done[w][n], w)}

(* A step that only completes bars: nothing is lost, and nothing added.    *)
Closes(e, step) ==
  /\ step.done \in Dones /\ step.engine \in Engines
  /\ step.engine.carry = e.carry
  /\ step.engine.open[1] \in {NoBar, e.open[1]}
  /\ \A w \in Intervals :
       /\ TicksOf(step.done[w]) \o OpenTicks(step.engine, w) = OpenTicks(e, w)
       /\ VolumeOf(step.done[w]) + OpenVolume(step.engine, w) = OpenVolume(e, w)

LEMMA OpenType ==
  ASSUME NEW e \in Engines, NEW w \in Intervals
  PROVE  /\ e.open[w] \in Held /\ e.open[1] \in Held
         /\ OpenTicks(e, w) \in Seq(Ticks) /\ OpenVolume(e, w) \in Nat
         /\ TicksIn(e.open[w]) \in Seq(Ticks) /\ TicksIn(e.open[1]) \in Seq(Ticks)
         /\ VolumeIn(e.open[w]) \in Nat /\ VolumeIn(e.open[1]) \in Nat
<1>1. e.open[w] \in Held /\ e.open[1] \in Held
  BY WidthFacts DEF Engines, Held
<1>2. /\ TicksIn(e.open[w]) \in Seq(Ticks) /\ TicksIn(e.open[1]) \in Seq(Ticks)
      /\ VolumeIn(e.open[w]) \in Nat /\ VolumeIn(e.open[1]) \in Nat
  BY <1>1, HeldType
<1>3. <<>> \in Seq(Ticks)
  OBVIOUS
<1>4. (IF w = 1 THEN <<>> ELSE TicksIn(e.open[1])) \in Seq(Ticks)
  BY <1>2, <1>3
<1>5. OpenTicks(e, w) \in Seq(Ticks)
  BY <1>2, <1>4, ConcatProperties DEF OpenTicks
<1>6. OpenVolume(e, w) \in Nat
  BY <1>2 DEF OpenVolume
<1>7. QED
  BY <1>1, <1>2, <1>5, <1>6

LEMMA DonesFacts ==
  ASSUME NEW done \in Dones, NEW w \in Intervals
  PROVE  /\ done[w] \in Seq(Bars) /\ done[w] \in Seq(Held)
         /\ TicksOf(done[w]) \in Seq(Ticks) /\ VolumeOf(done[w]) \in Nat
<1>1. done[w] \in Seq(Bars)
  BY DEF Dones
<1>2. done[w] \in Seq(Held)
  BY <1>1 DEF Held
<1>3. QED
  BY <1>1, <1>2, OfType

LEMMA OneGoodBar ==
  ASSUME NEW w \in Intervals, NEW bar, GoodBar(bar, w)
  PROVE  <<bar>> \in Seq(Bars) /\ \A n \in 1 .. Len(<<bar>>) : GoodBar(<<bar>>[n], w)
<1>1. bar \in Bars
  BY DEF GoodBar
<1>2. QED
  BY <1>1

LEMMA ThenFacts ==
  ASSUME NEW done \in Dones, NEW more \in Dones
  PROVE  /\ Then(done, more) \in Dones
         /\ \A w \in Intervals :
              /\ Then(done, more)[w] = done[w] \o more[w]
              /\ TicksOf(Then(done, more)[w]) = TicksOf(done[w]) \o TicksOf(more[w])
              /\ VolumeOf(Then(done, more)[w]) = VolumeOf(done[w]) + VolumeOf(more[w])
<1> DEFINE both == Then(done, more)
<1>1. \A w \in Intervals : both[w] = done[w] \o more[w]
  BY DEF Then
<1>2. DOMAIN both = Intervals /\ both = [w \in Intervals |-> both[w]]
  BY DEF Then
<1> HIDE DEF both
<1>3. ASSUME NEW w \in Intervals
      PROVE  /\ both[w] \in Seq(Bars) /\ \A n \in 1 .. Len(both[w]) : GoodBar(both[w][n], w)
             /\ TicksOf(both[w]) = TicksOf(done[w]) \o TicksOf(more[w])
             /\ VolumeOf(both[w]) = VolumeOf(done[w]) + VolumeOf(more[w])
  <2> DEFINE a == done[w]
             b == more[w]
  <2>1. /\ a \in Seq(Bars) /\ b \in Seq(Bars) /\ a \in Seq(Held) /\ b \in Seq(Held)
    BY DonesFacts
  <2>2. (\A n \in 1 .. Len(a) : GoodBar(a[n], w)) /\ \A n \in 1 .. Len(b) : GoodBar(b[n], w)
    BY DEF Dones
  <2>3. both[w] = a \o b
    BY <1>1
  <2> HIDE DEF a, b
  <2>4. /\ a \o b \in Seq(Bars) /\ Len(a \o b) = Len(a) + Len(b)
        /\ \A n \in 1 .. Len(a) + Len(b) :
             (a \o b)[n] = IF n <= Len(a) THEN a[n] ELSE b[n - Len(a)]
    BY <2>1, ConcatProperties
  <2>5. Len(a) \in Nat /\ Len(b) \in Nat
    BY <2>1, LenProperties
  <2>6. ASSUME NEW n \in 1 .. Len(a) + Len(b) PROVE GoodBar((a \o b)[n], w)
    <3>1. CASE n <= Len(a)
      <4>1. n \in 1 .. Len(a)
        BY <2>5, <2>6, <3>1
      <4>2. QED
        BY <2>2, <2>4, <3>1, <4>1
    <3>2. CASE ~(n <= Len(a))
      <4>1. n - Len(a) \in 1 .. Len(b)
        BY <2>5, <2>6, <3>2, SecondPart
      <4>2. QED
        BY <2>2, <2>4, <3>2, <4>1
    <3>3. QED
      BY <3>1, <3>2
  <2>7. /\ TicksOf(a \o b) = TicksOf(a) \o TicksOf(b)
        /\ VolumeOf(a \o b) = VolumeOf(a) + VolumeOf(b)
    BY <2>1, OfConcat
  <2>8. QED
    BY <2>3, <2>4, <2>6, <2>7 DEF a, b
<1>4. both \in [Intervals -> Seq(Bars)]
  BY <1>2, <1>3
<1>5. both \in Dones
  BY <1>3, <1>4 DEF Dones
<1>6. QED
  BY <1>1, <1>3, <1>5 DEF both

LEMMA NoneDoneFacts ==
  /\ NoneDone \in Dones
  /\ \A w \in Intervals : TicksOf(NoneDone[w]) = <<>> /\ VolumeOf(NoneDone[w]) = 0
  /\ \A done \in Dones : Then(done, NoneDone) = done /\ Then(NoneDone, done) = done
<1> DEFINE none == <<>>
<1>1. none \in Seq(Bars) /\ Len(none) = 0
  OBVIOUS
<1>2. TicksOf(none) = none /\ VolumeOf(none) = 0
  BY OfEmpty
<1>3. \A s \in Seq(Bars) : s \o none = s /\ none \o s = s
  BY ConcatEmptySeq
<1>4. NoneDone = [w \in Intervals |-> none]
  BY DEF NoneDone
<1> HIDE DEF none
<1>5. NoneDone \in Dones
  BY <1>1, <1>4 DEF Dones
<1>6. ASSUME NEW done \in Dones PROVE Then(done, NoneDone) = done /\ Then(NoneDone, done) = done
  <2>1. done \in [Intervals -> Seq(Bars)]
    BY DEF Dones
  <2>2. /\ Then(done, NoneDone) = [w \in Intervals |-> done[w]]
        /\ Then(NoneDone, done) = [w \in Intervals |-> done[w]]
    BY <1>3, <1>4, <2>1 DEF Then
  <2>3. QED
    BY <2>1, <2>2
<1>7. QED
  BY <1>2, <1>4, <1>5, <1>6 DEF none

LEMMA ThenAssociates ==
  ASSUME NEW a \in Dones, NEW b \in Dones, NEW c \in Dones
  PROVE  Then(Then(a, b), c) = Then(a, Then(b, c))
<1>1. ASSUME NEW w \in Intervals PROVE (a[w] \o b[w]) \o c[w] = a[w] \o (b[w] \o c[w])
  <2>1. a[w] \in Seq(Bars) /\ b[w] \in Seq(Bars) /\ c[w] \in Seq(Bars)
    BY DonesFacts
  <2>2. QED
    BY <2>1, BarsAssociate
<1>2. QED
  BY <1>1 DEF Then

-----------------------------------------------------------------------------
(* Completing the open minute.                                             *)
LEMMA CloseMinuteCloses ==
  ASSUME NEW e, NEW at, EngineOK(e, at), e.open[1] # NoBar
  PROVE  Closes(e, CloseMinute(e)) /\ EngineOK(CloseMinute(e).engine, at)
<1> DEFINE minute == e.open[1]
           s == CloseMinute(e)
           e2 == s.engine
<1>1. /\ e \in Engines /\ e.open \in [Intervals -> Bars \cup {NoBar}]
      /\ e.carry \in Nat \cup {NoVolume} /\ at \in Seq(Ticks)
      /\ GoodBar(minute, 1) /\ at # <<>> /\ minute.start = at[1].time
      /\ minute.start \in Nat
      /\ \A w \in Intervals : e.open[w] # NoBar =>
           /\ GoodBar(e.open[w], w) /\ Aligned(e.open[w].start, w)
           /\ e.open[w].start <= bucket_start(minute.start, w)
  BY WidthFacts, GoodBarIsHeld DEF EngineOK, Engines
<1>2. /\ s.engine = [e EXCEPT !.open = [w \in Intervals |->
                      IF w = 1 THEN NoBar ELSE RolledUp(e.open[w], minute, w)]]
      /\ s.done = [w \in Intervals |->
                     IF w = 1 THEN <<minute>> ELSE RollUpDone(e.open[w], minute, w)]
  BY DEF CloseMinute, Step
<1>3. /\ e2.carry = e.carry
      /\ e2.open = [w \in Intervals |->
                      IF w = 1 THEN NoBar ELSE RolledUp(e.open[w], minute, w)]
      /\ e2 = [open |-> e2.open, carry |-> e2.carry]
  BY <1>1, <1>2 DEF Engines
<1> HIDE DEF s, e2
<1>4. ASSUME NEW w \in Widths
      PROVE  /\ RollUpDone(e.open[w], minute, w) \in Seq(Bars)
             /\ \A n \in 1 .. Len(RollUpDone(e.open[w], minute, w)) :
                   GoodBar(RollUpDone(e.open[w], minute, w)[n], w)
             /\ TicksOf(RollUpDone(e.open[w], minute, w))
                  \o TicksIn(RolledUp(e.open[w], minute, w)) = TicksIn(e.open[w]) \o minute.ticks
             /\ VolumeOf(RollUpDone(e.open[w], minute, w))
                  + VolumeIn(RolledUp(e.open[w], minute, w))
                  = VolumeIn(e.open[w]) + minute.volume
             /\ RolledUp(e.open[w], minute, w) # NoBar =>
                  /\ GoodBar(RolledUp(e.open[w], minute, w), w)
                  /\ RolledUp(e.open[w], minute, w).start = bucket_start(minute.start, w)
             /\ RolledUp(e.open[w], minute, w) \in Bars \cup {NoBar}
  <2>1. e.open[w] # NoBar => GoodBar(e.open[w], w) /\ e.open[w].start <= bucket_start(minute.start, w)
    BY <1>1, WidthFacts
  <2>2. /\ GoodBar(WithMinute(e.open[w], minute, w), w)
        /\ WithMinute(e.open[w], minute, w).start = bucket_start(minute.start, w)
    BY <1>1, <2>1, GrownBar
  <2>3. RolledUp(e.open[w], minute, w) \in {NoBar, WithMinute(e.open[w], minute, w)}
    BY <1>1, <2>1, RollUp
  <2>4. WithMinute(e.open[w], minute, w) \in Bars
    BY <2>2 DEF GoodBar
  <2>5. w \in Widths /\ GoodBar(minute, 1)
    BY <1>1
  <2>6. /\ RollUpDone(e.open[w], minute, w) \in Seq(Bars)
        /\ \A n \in 1 .. Len(RollUpDone(e.open[w], minute, w)) :
             GoodBar(RollUpDone(e.open[w], minute, w)[n], w)
        /\ TicksOf(RollUpDone(e.open[w], minute, w)) \o TicksIn(RolledUp(e.open[w], minute, w))
             = TicksIn(e.open[w]) \o minute.ticks
        /\ VolumeOf(RollUpDone(e.open[w], minute, w)) + VolumeIn(RolledUp(e.open[w], minute, w))
             = VolumeIn(e.open[w]) + minute.volume
    BY <2>1, <2>5, RollUpConserves
  <2>7. QED
    BY <2>2, <2>3, <2>4, <2>6
<1>5. /\ minute \in Bars /\ minute \in Held /\ TicksIn(minute) = minute.ticks
      /\ VolumeIn(minute) = minute.volume
      /\ minute.ticks \in Seq(Ticks) /\ minute.volume \in Nat
  BY <1>1, GoodBarIsHeld, WidthFacts
<1>6. e2 \in Engines
  <2>1. \A w \in Intervals :
          (IF w = 1 THEN NoBar ELSE RolledUp(e.open[w], minute, w)) \in Bars \cup {NoBar}
    <3>1. \A w \in Widths : RolledUp(e.open[w], minute, w) \in Bars \cup {NoBar}
      BY <1>4
    <3>2. QED
      BY <3>1, WidthFacts
  <2>2. e2.open \in [Intervals -> Bars \cup {NoBar}]
    BY <1>3, <2>1
  <2>3. QED
    BY <1>1, <1>3, <2>2 DEF Engines
<1>7. s.done \in Dones
  <2>1. ASSUME NEW w \in Intervals
        PROVE  s.done[w] \in Seq(Bars) /\ \A n \in 1 .. Len(s.done[w]) : GoodBar(s.done[w][n], w)
    <3>1. CASE w = 1
      <4>1. s.done[w] = <<minute>>
        BY <1>2, <3>1
      <4>2. QED
        BY <1>1, <1>5, <3>1, <4>1
    <3>2. CASE w # 1
      <4>1. w \in Widths /\ s.done[w] = RollUpDone(e.open[w], minute, w)
        BY <1>2, <3>2, WidthFacts
      <4>2. QED
        BY <1>4, <4>1
    <3>3. QED
      BY <3>1, <3>2
  <2>2. s.done \in [Intervals -> Seq(Bars)]
    <3>1. s.done = [w \in Intervals |-> s.done[w]]
      BY <1>2
    <3>2. QED
      BY <2>1, <3>1
  <2>3. QED
    BY <2>1, <2>2 DEF Dones
<1>8. ASSUME NEW w \in Intervals
      PROVE  /\ TicksOf(s.done[w]) \o OpenTicks(e2, w) = OpenTicks(e, w)
             /\ VolumeOf(s.done[w]) + OpenVolume(e2, w) = OpenVolume(e, w)
  <2> DEFINE none == <<>>
  <2>1. /\ TicksIn(NoBar) = none /\ VolumeIn(NoBar) = 0
        /\ e2.open[1] = NoBar
    BY <1>3, WidthFacts DEF TicksIn, VolumeIn
  <2>2. \A t \in Seq(Ticks) : t \o none = t /\ none \o t = t
    BY ConcatEmptySeq
  <2>3. CASE w = 1
    <3>1. s.done[w] = <<minute>>
      BY <1>2, <2>3
    <3>2. TicksOf(s.done[w]) = minute.ticks /\ VolumeOf(s.done[w]) = minute.volume
      BY <1>5, <3>1, OfOne
    <3>3. none \in Seq(Ticks)
      OBVIOUS
    <3>4. OpenTicks(e2, w) = none \o none /\ OpenTicks(e, w) = minute.ticks \o none
      BY <1>5, <2>1, <2>3 DEF OpenTicks
    <3>5. OpenVolume(e2, w) = 0 + 0 /\ OpenVolume(e, w) = minute.volume + 0
      BY <1>5, <2>1, <2>3 DEF OpenVolume
    <3> HIDE DEF none
    <3>6. OpenTicks(e2, w) = none /\ OpenTicks(e, w) = minute.ticks
      BY <1>5, <2>2, <3>3, <3>4
    <3>7. TicksOf(s.done[w]) \o OpenTicks(e2, w) = OpenTicks(e, w)
      BY <1>5, <2>2, <3>2, <3>6
    <3>8. VolumeOf(s.done[w]) + OpenVolume(e2, w) = OpenVolume(e, w)
      BY <1>5, <3>2, <3>5
    <3>9. QED
      BY <3>7, <3>8
  <2>4. CASE w # 1
    <3>1. w \in Widths /\ s.done[w] = RollUpDone(e.open[w], minute, w)
      BY <1>2, <2>4, WidthFacts
    <3>2. e2.open[w] = RolledUp(e.open[w], minute, w)
      BY <1>3, <2>4
    <3>3. /\ OpenTicks(e2, w) = TicksIn(e2.open[w]) \o none
          /\ OpenTicks(e, w) = TicksIn(e.open[w]) \o minute.ticks
      BY <1>5, <2>1, <2>4 DEF OpenTicks
    <3>4. /\ OpenVolume(e2, w) = VolumeIn(e2.open[w]) + 0
          /\ OpenVolume(e, w) = VolumeIn(e.open[w]) + minute.volume
      BY <1>5, <2>1, <2>4 DEF OpenVolume
    <3>5. TicksIn(e2.open[w]) \in Seq(Ticks) /\ VolumeIn(e2.open[w]) \in Nat
      BY <1>6, OpenType
    <3> HIDE DEF none
    <3>6. TicksIn(e2.open[w]) \o none = TicksIn(e2.open[w])
      BY <2>2, <3>5
    <3>7. /\ TicksOf(s.done[w]) \o TicksIn(e2.open[w]) = TicksIn(e.open[w]) \o minute.ticks
          /\ VolumeOf(s.done[w]) + VolumeIn(e2.open[w]) = VolumeIn(e.open[w]) + minute.volume
      BY <1>4, <3>1, <3>2
    <3>8. QED
      BY <3>3, <3>4, <3>5, <3>6, <3>7
  <2>5. QED
    BY <2>3, <2>4
<1>9. EngineOK(e2, at)
  <2>1. ASSUME NEW w \in Intervals, e2.open[w] # NoBar
        PROVE  /\ GoodBar(e2.open[w], w) /\ Aligned(e2.open[w].start, w)
               /\ e2.open[w].start <= bucket_start(at[1].time, w)
    <3>1. w \in Widths /\ e2.open[w] = RolledUp(e.open[w], minute, w)
      BY <1>3, <2>1, WidthFacts
    <3>2. GoodBar(e2.open[w], w) /\ e2.open[w].start = bucket_start(minute.start, w)
      BY <1>4, <2>1, <3>1
    <3>3. bucket_start(minute.start, w) \in Nat /\ Aligned(bucket_start(minute.start, w), w)
      BY <1>1, Bucket, BucketAligned, WidthFacts
    <3>4. QED
      BY <1>1, <3>2, <3>3
  <2>2. e2.open[1] = NoBar
    BY <1>3, WidthFacts
  <2>3. QED
    BY <1>1, <1>6, <2>1, <2>2 DEF EngineOK
<1>10. e2.open[1] = NoBar
  BY <1>3, WidthFacts
<1>11. Closes(e, s) /\ EngineOK(s.engine, at)
  BY <1>3, <1>6, <1>7, <1>8, <1>9, <1>10 DEF Closes, e2
<1>12. QED
  BY <1>11 DEF s

(* Completing wider bars because they are due.                             *)
LEMMA CloseDueCloses ==
  ASSUME NEW e, NEW at, EngineOK(e, at), NEW due, due \subseteq Widths,
         \A w \in due : e.open[w] # NoBar
  PROVE  Closes(e, CloseDue(e, due)) /\ EngineOK(CloseDue(e, due).engine, at)
<1> DEFINE s == CloseDue(e, due)
           e2 == s.engine
<1>1. /\ e \in Engines /\ e.open \in [Intervals -> Bars \cup {NoBar}]
      /\ e.carry \in Nat \cup {NoVolume} /\ at \in Seq(Ticks) /\ due \subseteq Intervals
      /\ 1 \notin due /\ 1 \in Intervals
  BY WidthFacts DEF EngineOK, Engines
<1>2. /\ s.engine = [e EXCEPT !.open = [w \in Intervals |->
                                          IF w \in due THEN NoBar ELSE e.open[w]]]
      /\ s.done = [w \in Intervals |-> IF w \in due THEN <<e.open[w]>> ELSE <<>>]
  BY DEF CloseDue, Step
<1>3. /\ e2.carry = e.carry
      /\ e2.open = [w \in Intervals |-> IF w \in due THEN NoBar ELSE e.open[w]]
      /\ e2 = [open |-> e2.open, carry |-> e2.carry]
  BY <1>1, <1>2 DEF Engines
<1> HIDE DEF s, e2
<1>4. e2 \in Engines
  <2>1. e2.open \in [Intervals -> Bars \cup {NoBar}]
    BY <1>1, <1>3
  <2>2. QED
    BY <1>1, <1>3, <2>1 DEF Engines
<1>5. \A w \in due : GoodBar(e.open[w], w) /\ e.open[w] \in Bars /\ e.open[w] \in Held
  BY <1>1, GoodBarIsHeld DEF EngineOK
<1>6. s.done \in Dones
  <2> DEFINE none == <<>>
  <2>1. none \in Seq(Bars) /\ Len(none) = 0
    OBVIOUS
  <2>2. \A w \in Intervals : s.done[w] = IF w \in due THEN <<e.open[w]>> ELSE none
    BY <1>2
  <2>3. s.done = [w \in Intervals |-> s.done[w]]
    BY <1>2
  <2> HIDE DEF none
  <2>4. ASSUME NEW w \in Intervals
        PROVE  s.done[w] \in Seq(Bars) /\ \A n \in 1 .. Len(s.done[w]) : GoodBar(s.done[w][n], w)
    <3>1. CASE w \in due
      <4>1. s.done[w] = <<e.open[w]>>
        BY <2>2, <3>1
      <4>2. QED
        BY <1>5, <3>1, <4>1, OneGoodBar
    <3>2. CASE w \notin due
      <4>1. s.done[w] = none
        BY <2>2, <3>2
      <4>2. QED
        BY <2>1, <4>1
    <3>3. QED
      BY <3>1, <3>2
  <2>5. s.done \in [Intervals -> Seq(Bars)]
    BY <2>3, <2>4
  <2>6. QED
    BY <2>4, <2>5 DEF Dones
<1>7. ASSUME NEW w \in Intervals
      PROVE  /\ TicksOf(s.done[w]) \o OpenTicks(e2, w) = OpenTicks(e, w)
             /\ VolumeOf(s.done[w]) + OpenVolume(e2, w) = OpenVolume(e, w)
  <2> DEFINE none == <<>>
             rest == IF w = 1 THEN none ELSE TicksIn(e.open[1])
             more == IF w = 1 THEN 0 ELSE VolumeIn(e.open[1])
  <2>1. /\ TicksIn(NoBar) = none /\ VolumeIn(NoBar) = 0
        /\ e2.open[1] = e.open[1]
        /\ TicksOf(none) = none /\ VolumeOf(none) = 0
    BY <1>1, <1>3, OfEmpty DEF TicksIn, VolumeIn
  <2>2. \A t \in Seq(Ticks) : t \o none = t /\ none \o t = t
    BY ConcatEmptySeq
  <2>3. /\ OpenTicks(e2, w) = TicksIn(e2.open[w]) \o rest
        /\ OpenTicks(e, w) = TicksIn(e.open[w]) \o rest
        /\ OpenVolume(e2, w) = VolumeIn(e2.open[w]) + more
        /\ OpenVolume(e, w) = VolumeIn(e.open[w]) + more
    BY <2>1 DEF OpenTicks, OpenVolume
  <2>4. none \in Seq(Ticks)
    OBVIOUS
  <2>5. s.done[w] = IF w \in due THEN <<e.open[w]>> ELSE none
    BY <1>2
  <2> HIDE DEF none
  <2>6. rest \in Seq(Ticks) /\ more \in Nat
    BY <1>1, <2>4, OpenType
  <2> HIDE DEF rest, more
  <2>7. /\ TicksIn(e.open[w]) \in Seq(Ticks) /\ VolumeIn(e.open[w]) \in Nat
        /\ OpenTicks(e, w) \in Seq(Ticks) /\ OpenVolume(e, w) \in Nat
    BY <1>1, OpenType
  <2>8. CASE w \in due
    <3>1. e2.open[w] = NoBar
      BY <1>3, <2>8
    <3>2. TicksOf(s.done[w]) = TicksIn(e.open[w]) /\ VolumeOf(s.done[w]) = VolumeIn(e.open[w])
      BY <1>5, <2>5, <2>8, OfOne
    <3>3. OpenTicks(e2, w) = rest /\ OpenVolume(e2, w) = more
      BY <2>1, <2>2, <2>3, <2>6, <3>1
    <3>4. QED
      BY <2>3, <3>2, <3>3
  <2>9. CASE w \notin due
    <3>1. e2.open[w] = e.open[w]
      BY <1>3, <2>9
    <3>2. TicksOf(s.done[w]) = none /\ VolumeOf(s.done[w]) = 0
      BY <2>1, <2>5, <2>9
    <3>3. OpenTicks(e2, w) = OpenTicks(e, w) /\ OpenVolume(e2, w) = OpenVolume(e, w)
      BY <2>3, <3>1
    <3>4. none \o OpenTicks(e, w) = OpenTicks(e, w)
      BY <2>2, <2>7
    <3>5. QED
      BY <2>7, <3>2, <3>3, <3>4
  <2>10. QED
    BY <2>8, <2>9
<1>8. EngineOK(e2, at)
  <2>1. /\ \A w \in Intervals : e2.open[w] # NoBar => e2.open[w] = e.open[w]
        /\ e2.open[1] = e.open[1]
    BY <1>1, <1>3
  <2>2. QED
    BY <1>1, <1>4, <2>1 DEF EngineOK
<1>9. e2.open[1] = e.open[1]
  BY <1>1, <1>3
<1>10. Closes(e, s) /\ EngineOK(s.engine, at)
  BY <1>3, <1>4, <1>6, <1>7, <1>8, <1>9 DEF Closes, e2
<1>11. QED
  BY <1>10 DEF s

LEMMA ClosesNothing ==
  ASSUME NEW e \in Engines
  PROVE  Closes(e, Step(e, NoneDone))
<1>1. ASSUME NEW w \in Intervals
      PROVE  <<>> \o OpenTicks(e, w) = OpenTicks(e, w) /\ 0 + OpenVolume(e, w) = OpenVolume(e, w)
  BY OpenType, ConcatEmptySeq
<1>2. QED
  BY <1>1, NoneDoneFacts DEF Closes, Step

LEMMA ClosesInTurn ==
  ASSUME NEW e \in Engines, NEW first, Closes(e, first), NEW second, Closes(first.engine, second)
  PROVE  Closes(e, Step(second.engine, Then(first.done, second.done)))
<1> DEFINE done == Then(first.done, second.done)
<1>1. /\ first.done \in Dones /\ second.done \in Dones
      /\ first.engine \in Engines /\ second.engine \in Engines
      /\ second.engine.carry = e.carry
      /\ second.engine.open[1] \in {NoBar, e.open[1]}
  BY DEF Closes
<1>2. /\ done \in Dones
      /\ \A w \in Intervals :
              /\ TicksOf(done[w]) = TicksOf(first.done[w]) \o TicksOf(second.done[w])
              /\ VolumeOf(done[w]) = VolumeOf(first.done[w]) + VolumeOf(second.done[w])
  BY <1>1, ThenFacts
<1> HIDE DEF done
<1>3. ASSUME NEW w \in Intervals
      PROVE  /\ TicksOf(done[w]) \o OpenTicks(second.engine, w) = OpenTicks(e, w)
             /\ VolumeOf(done[w]) + OpenVolume(second.engine, w) = OpenVolume(e, w)
  <2>1. /\ TicksOf(first.done[w]) \in Seq(Ticks) /\ VolumeOf(first.done[w]) \in Nat
        /\ TicksOf(second.done[w]) \in Seq(Ticks) /\ VolumeOf(second.done[w]) \in Nat
    BY <1>1, DonesFacts
  <2>2. OpenTicks(second.engine, w) \in Seq(Ticks) /\ OpenVolume(second.engine, w) \in Nat
    BY <1>1, OpenType
  <2>3. /\ TicksOf(first.done[w]) \o OpenTicks(first.engine, w) = OpenTicks(e, w)
        /\ VolumeOf(first.done[w]) + OpenVolume(first.engine, w) = OpenVolume(e, w)
        /\ TicksOf(second.done[w]) \o OpenTicks(second.engine, w) = OpenTicks(first.engine, w)
        /\ VolumeOf(second.done[w]) + OpenVolume(second.engine, w) = OpenVolume(first.engine, w)
    BY DEF Closes
  <2>4. (TicksOf(first.done[w]) \o TicksOf(second.done[w])) \o OpenTicks(second.engine, w)
          = TicksOf(first.done[w]) \o (TicksOf(second.done[w]) \o OpenTicks(second.engine, w))
    BY <2>1, <2>2, TicksAssociate
  <2>5. TicksOf(done[w]) \o OpenTicks(second.engine, w) = OpenTicks(e, w)
    BY <1>2, <2>3, <2>4
  <2>6. VolumeOf(done[w]) + OpenVolume(second.engine, w) = OpenVolume(e, w)
    BY <1>2, <2>1, <2>2, <2>3
  <2>7. QED
    BY <2>5, <2>6
<1>4. QED
  BY <1>1, <1>2, <1>3 DEF Closes, Step, done

LEMMA ClosedCloses ==
  ASSUME NEW e, NEW at, EngineOK(e, at), NEW minute \in BOOLEAN, minute => e.open[1] # NoBar
  PROVE  Closes(e, Closed(e, minute)) /\ EngineOK(Closed(e, minute).engine, at)
<1>1. CASE minute
  BY <1>1, CloseMinuteCloses DEF Closed
<1>2. CASE ~minute
  <2>1. e \in Engines
    BY DEF EngineOK
  <2>2. Closed(e, minute) = Step(e, NoneDone) /\ Step(e, NoneDone).engine = e
    BY <1>2 DEF Closed, Step
  <2>3. QED
    BY <2>1, <2>2, ClosesNothing
<1>3. QED
  BY <1>1, <1>2

LEMMA ClosingCloses ==
  ASSUME NEW e, NEW at, EngineOK(e, at), NEW minute \in BOOLEAN, minute => e.open[1] # NoBar,
         NEW due, due \subseteq Widths, \A w \in due : Closed(e, minute).engine.open[w] # NoBar
  PROVE  Closes(e, Closing(e, minute, due)) /\ EngineOK(Closing(e, minute, due).engine, at)
<1> DEFINE first  == Closed(e, minute)
           second == CloseDue(first.engine, due)
<1>1. Closes(e, first) /\ EngineOK(first.engine, at)
  BY ClosedCloses
<1>2. Closes(first.engine, second) /\ EngineOK(second.engine, at)
  BY <1>1, CloseDueCloses
<1>3. e \in Engines
  BY DEF EngineOK
<1>4. Closing(e, minute, due) = Step(second.engine, Then(first.done, second.done))
  BY DEF Closing
<1> HIDE DEF first, second
<1>5. Closes(e, Step(second.engine, Then(first.done, second.done)))
  BY <1>1, <1>2, <1>3, ClosesInTurn
<1>6. Step(second.engine, Then(first.done, second.done)).engine = second.engine
  BY DEF Step
<1>7. QED
  BY <1>2, <1>4, <1>5, <1>6

LEMMA FlushCloses ==
  ASSUME NEW e, NEW at, EngineOK(e, at), NEW moment
  PROVE  Closes(e, flush(e, moment)) /\ EngineOK(flush(e, moment).engine, at)
<1>1. /\ FlushMinute(e, moment) \in BOOLEAN /\ (FlushMinute(e, moment) => e.open[1] # NoBar)
      /\ FlushDue(e, moment) \subseteq Widths
      /\ \A w \in FlushDue(e, moment) : Closed(e, FlushMinute(e, moment)).engine.open[w] # NoBar
  BY DEF FlushMinute, FlushDue
<1>2. QED
  BY <1>1, ClosingCloses DEF flush

LEMMA CloseAllCloses ==
  ASSUME NEW e, NEW at, EngineOK(e, at)
  PROVE  Closes(e, close_all(e)) /\ EngineOK(close_all(e).engine, at)
<1>1. /\ (e.open[1] # NoBar) \in BOOLEAN
      /\ AllDue(e) \subseteq Widths
      /\ \A w \in AllDue(e) : Closed(e, e.open[1] # NoBar).engine.open[w] # NoBar
  BY DEF AllDue
<1>2. QED
  BY <1>1, ClosingCloses DEF close_all

-----------------------------------------------------------------------------
(* Applying a tick to the open minute, which is the tick's own, or to a    *)
(* minute opened for it.                                                   *)
MinuteFor(e, tick) == IF e.open[1] = NoBar THEN OpenBar(e, tick) ELSE e.open[1]
VolumeAfter(bar, tick) == IF Counts(bar, tick) THEN VolumeSince(bar, tick) ELSE bar.volume

LEMMA ApplyTickFacts ==
  ASSUME NEW e, NEW at, EngineOK(e, at), NEW tick \in Ticks,
         at = <<>> \/ at[1].time <= tick.time,
         e.open[1] # NoBar => e.open[1].start = tick.time
  PROVE  LET bar == MinuteFor(e, tick)
             e2  == ApplyTick(e, bar, tick)
         IN  /\ EngineOK(e2, <<tick>>)
             /\ e2.open[1] # NoBar /\ e2.open[1].start = tick.time
             /\ e2.open[1].ticks = TicksIn(e.open[1]) \o <<tick>>
             /\ e2.open[1].volume = VolumeAfter(bar, tick)
             /\ e2.open[1].baseline = bar.baseline
             /\ e2.carry = IF Counts(bar, tick) THEN tick.volume ELSE e.carry
             /\ \A w \in Widths : e2.open[w] = e.open[w]
<1> DEFINE bar == MinuteFor(e, tick)
           e2  == ApplyTick(e, bar, tick)
           one == <<tick>>
<1>1. /\ e \in Engines /\ e.open \in [Intervals -> Bars \cup {NoBar}]
      /\ e.carry \in Nat \cup {NoVolume} /\ at \in Seq(Ticks) /\ 1 \in Intervals
  BY WidthFacts DEF EngineOK, Engines
<1>2. /\ tick.time \in 0 .. MaxTime - 1 /\ MaxTime \in Nat
      /\ tick.volume \in Nat \cup {NoVolume} /\ NoVolume \notin Nat
  BY ServiceAssumption, EngineAssumption DEF Ticks
<1>3. /\ bar \in Bars /\ bar.width = 1 /\ bar.start = tick.time /\ bar.ticks = TicksIn(e.open[1])
      /\ \A k \in 1 .. Len(bar.ticks) :
           tick.time <= bar.ticks[k].time /\ bar.ticks[k].time < tick.time + 1
  <2>1. CASE e.open[1] = NoBar
    <3>1. bar = [width |-> 1, start |-> tick.time, ticks |-> <<>>, volume |-> 0,
                 baseline |-> IF e.carry # NoVolume THEN e.carry ELSE tick.volume]
      BY <2>1 DEF MinuteFor, OpenBar, Bar
    <3>2. <<>> \in Seq(Ticks) /\ tick.time \in 0 .. MaxTime
      BY <1>2
    <3>3. (IF e.carry # NoVolume THEN e.carry ELSE tick.volume) \in Nat \cup {NoVolume}
      BY <1>1, <1>2
    <3> HIDE DEF bar
    <3>4. bar \in Bars
      BY <1>1, <3>1, <3>2, <3>3 DEF Bars
    <3>5. TicksIn(e.open[1]) = <<>>
      BY <2>1 DEF TicksIn
    <3>6. QED
      BY <3>1, <3>4, <3>5
  <2>2. CASE e.open[1] # NoBar
    <3>1. bar = e.open[1] /\ GoodBar(bar, 1) /\ bar.start = tick.time
      BY <1>1, <2>2 DEF MinuteFor, EngineOK
    <3>2. bar.ticks = TicksIn(e.open[1])
      BY <2>2, <3>1 DEF TicksIn
    <3> HIDE DEF bar
    <3>3. QED
      BY <3>1, <3>2 DEF GoodBar
  <2>3. QED
    BY <2>1, <2>2
<1> HIDE DEF bar
<1>4. bar.ticks \in Seq(Ticks) /\ bar.volume \in Nat /\ bar.baseline \in Nat \cup {NoVolume}
      /\ bar.start \in 0 .. MaxTime
      /\ bar = [width |-> bar.width, start |-> bar.start, ticks |-> bar.ticks,
                volume |-> bar.volume, baseline |-> bar.baseline]
  BY <1>3 DEF Bars
<1>5. VolumeAfter(bar, tick) \in Nat
  <2>1. CASE Counts(bar, tick)
    <3>1. tick.volume \in Nat /\ bar.baseline \in Nat
      BY <1>2, <1>4, <2>1 DEF Counts
    <3>2. QED
      BY <2>1, <3>1 DEF VolumeAfter, VolumeSince
  <2>2. CASE ~Counts(bar, tick)
    BY <1>4, <2>2 DEF VolumeAfter
  <2>3. QED
    BY <2>1, <2>2
<1> DEFINE ticks == Append(bar.ticks, tick)
           applied == [bar EXCEPT !.ticks = ticks, !.volume = VolumeAfter(bar, tick)]
           carry == IF Counts(bar, tick) THEN tick.volume ELSE e.carry
<1>6. applied = [width |-> bar.width, start |-> bar.start, ticks |-> ticks,
                 volume |-> VolumeAfter(bar, tick), baseline |-> bar.baseline]
  <2> HIDE DEF ticks
  <2>1. bar = [width |-> bar.width, start |-> bar.start, ticks |-> bar.ticks,
               volume |-> bar.volume, baseline |-> bar.baseline]
    BY <1>4
  <2>2. applied = [bar EXCEPT !.ticks = ticks, !.volume = VolumeAfter(bar, tick)]
    OBVIOUS
  <2> HIDE DEF applied
  <2>3. QED
    BY <2>1, <2>2
<1>7. /\ ticks \in Seq(Ticks) /\ Len(ticks) = Len(bar.ticks) + 1 /\ Len(bar.ticks) \in Nat
      /\ ticks[Len(bar.ticks) + 1] = tick
      /\ \A k \in 1 .. Len(bar.ticks) : ticks[k] = bar.ticks[k]
      /\ ticks = bar.ticks \o one
  BY <1>4, AppendProperties, LenProperties, AppendIsConcat
<1>8. e2 = [e EXCEPT !.open = [e.open EXCEPT ![1] = applied], !.carry = carry]
  BY <1>1, <1>4 DEF ApplyTick, VolumeAfter, Engines
<1>9. e2 = [open |-> [e.open EXCEPT ![1] = applied], carry |-> carry]
  BY <1>1, <1>8 DEF Engines
<1>10. carry \in Nat \cup {NoVolume}
  BY <1>1, <1>2
<1> HIDE DEF ticks, applied, carry, e2
<1>11. GoodBar(applied, 1)
  <2>1. applied \in Bars
    BY <1>3, <1>4, <1>5, <1>6, <1>7 DEF Bars
  <2>2. ticks # <<>>
    <3>1. Len(ticks) # 0
      BY <1>7
    <3>2. QED
      BY <1>7, <3>1, EmptySeq
  <2>3. ASSUME NEW k \in 1 .. Len(ticks)
        PROVE  tick.time <= ticks[k].time /\ ticks[k].time < tick.time + 1
    <3>1. CASE k = Len(bar.ticks) + 1
      BY <1>2, <1>7, <3>1
    <3>2. CASE k # Len(bar.ticks) + 1
      <4>1. k \in 1 .. Len(bar.ticks)
        BY <1>7, <3>2
      <4>2. QED
        BY <1>3, <1>7, <4>1
    <3>3. QED
      BY <3>1, <3>2
  <2>4. QED
    BY <1>3, <1>6, <2>1, <2>2, <2>3 DEF GoodBar
<1>12. /\ e2.open[1] = applied /\ e2.carry = carry
       /\ \A w \in Widths : e2.open[w] = e.open[w]
       /\ e2.open \in [Intervals -> Bars \cup {NoBar}]
  <2>1. applied \in Bars
    BY <1>11 DEF GoodBar
  <2>2. QED
    BY <1>1, <1>9, <2>1, WidthFacts
<1>13. e2 \in Engines
  BY <1>9, <1>10, <1>12 DEF Engines
<1>14. applied # NoBar /\ applied.start = tick.time /\ applied.ticks = TicksIn(e.open[1]) \o one
       /\ applied.volume = VolumeAfter(bar, tick) /\ applied.baseline = bar.baseline
  BY <1>1, <1>3, <1>6, <1>7, <1>11, GoodBarIsHeld
<1>15. EngineOK(e2, one)
  <2>1. one \in Seq(Ticks) /\ one # <<>> /\ one[1] = tick
    OBVIOUS
  <2>2. ASSUME NEW w \in Intervals, e2.open[w] # NoBar
        PROVE  /\ GoodBar(e2.open[w], w) /\ Aligned(e2.open[w].start, w)
               /\ e2.open[w].start <= bucket_start(tick.time, w)
    <3>1. CASE w = 1
      <4>1. tick.time \in Nat /\ bucket_start(tick.time, 1) = tick.time /\ Aligned(tick.time, 1)
        BY <1>2, MinuteSlots
      <4>2. QED
        BY <1>11, <1>12, <1>14, <3>1, <4>1
    <3>2. CASE w # 1
      <4>1. e2.open[w] = e.open[w]
        BY <1>12, <3>2, WidthFacts
      <4>2. /\ GoodBar(e.open[w], w) /\ Aligned(e.open[w].start, w)
            /\ at # <<>> /\ e.open[w].start <= bucket_start(at[1].time, w)
        BY <2>2, <4>1 DEF EngineOK
      <4>3. at[1].time <= tick.time /\ at[1].time \in Nat
        <5>1. Len(at) \in Nat /\ Len(at) # 0
          BY <1>1, <4>2, LenProperties, EmptySeq
        <5>2. at[1] \in Ticks
          BY <1>1, <5>1, ElementOfSeq
        <5>3. QED
          BY <1>2, <4>2, <5>2 DEF Ticks
      <4>4. bucket_start(at[1].time, w) <= bucket_start(tick.time, w)
        BY <1>2, <4>3, BucketMonotone, WidthFacts
      <4>5. /\ bucket_start(at[1].time, w) \in Nat /\ bucket_start(tick.time, w) \in Nat
            /\ e.open[w].start \in Nat
        <5>1. tick.time \in Nat /\ w \in Nat \ {0}
          BY <1>2, WidthFacts
        <5>2. bucket_start(at[1].time, w) \in Nat /\ bucket_start(tick.time, w) \in Nat
          BY <4>3, <5>1, Bucket
        <5>3. e.open[w].start \in 0 .. MaxTime
          BY <4>2, GoodBarIsHeld
        <5>4. QED
          BY <5>2, <5>3
      <4>6. QED
        BY <4>1, <4>2, <4>4, <4>5
    <3>3. QED
      BY <3>1, <3>2
  <2> HIDE DEF one
  <2>3. QED
    BY <1>12, <1>13, <1>14, <2>1, <2>2 DEF EngineOK
<1>16. QED
  BY <1>12, <1>14, <1>15 DEF e2, bar, carry

-----------------------------------------------------------------------------
(* The book of an engine: what it has accepted is in its bars, tick by     *)
(* tick, and while the day's volume does not fall the volumes add up.      *)
VolumeBook(e, acc, em) ==
  IF acc = <<>>
  THEN /\ e.carry = NoVolume
       /\ \A w \in Intervals : VolumeOf(em[w]) + OpenVolume(e, w) = 0
  ELSE /\ e.carry = acc[Len(acc)].volume
       /\ e.open[1] # NoBar => /\ e.open[1].baseline \in Nat /\ e.open[1].baseline <= e.carry
                               /\ e.open[1].volume = e.carry - e.open[1].baseline
       /\ \A w \in Intervals : VolumeOf(em[w]) + OpenVolume(e, w) = e.carry - acc[1].volume

Book(e, at, acc, em) ==
  /\ EngineOK(e, at) /\ em \in Dones /\ acc \in Seq(Ticks)
  /\ at = IF acc = <<>> THEN <<>> ELSE <<acc[Len(acc)]>>
  /\ \A w \in Intervals : TicksOf(em[w]) \o OpenTicks(e, w) = acc
  /\ Rising(acc) => VolumeBook(e, acc, em)

LEMMA FreshBook == Book(Fresh, <<>>, <<>>, NoneDone)
<1> DEFINE none == <<>>
<1>1. Fresh.open = [w \in Intervals |-> NoBar] /\ Fresh.carry = NoVolume
  BY DEF Fresh
<1>2. Fresh \in Engines
  BY DEF Fresh, Engines
<1>3. none \in Seq(Ticks) /\ \A w \in Intervals : Fresh.open[w] = NoBar
  BY <1>1
<1>4. EngineOK(Fresh, none)
  BY <1>2, <1>3, WidthFacts DEF EngineOK
<1>5. /\ TicksIn(NoBar) = none /\ VolumeIn(NoBar) = 0
      /\ NoneDone \in Dones
      /\ \A w \in Intervals : TicksOf(NoneDone[w]) = none /\ VolumeOf(NoneDone[w]) = 0
  BY NoneDoneFacts DEF TicksIn, VolumeIn
<1>6. none \o none = none
  BY <1>3, ConcatEmptySeq
<1>7. ASSUME NEW w \in Intervals PROVE OpenTicks(Fresh, w) = none /\ OpenVolume(Fresh, w) = 0
  <2>1. Fresh.open[w] = NoBar /\ Fresh.open[1] = NoBar
    BY <1>3, WidthFacts
  <2>2. OpenTicks(Fresh, w) = none \o none
    BY <1>5, <2>1 DEF OpenTicks
  <2>3. OpenVolume(Fresh, w) = 0 + 0
    BY <1>5, <2>1 DEF OpenVolume
  <2>4. QED
    BY <1>6, <2>2, <2>3
<1>8. VolumeBook(Fresh, none, NoneDone)
  BY <1>1, <1>5, <1>7 DEF VolumeBook
<1> HIDE DEF none
<1>9. Book(Fresh, none, none, NoneDone)
  <2>1. none = <<>>
    BY DEF none
  <2>2. QED
    BY <1>3, <1>4, <1>5, <1>6, <1>7, <1>8, <2>1 DEF Book
<1>10. QED
  BY <1>9 DEF none

LEMMA BookCloses ==
  ASSUME NEW e, NEW at, NEW acc, NEW em, Book(e, at, acc, em),
         NEW s, Closes(e, s), EngineOK(s.engine, at)
  PROVE  Book(s.engine, at, acc, Then(em, s.done))
<1> DEFINE both == Then(em, s.done)
<1>1. /\ e \in Engines /\ em \in Dones /\ acc \in Seq(Ticks) /\ s.done \in Dones
      /\ s.engine \in Engines /\ s.engine.carry = e.carry
      /\ s.engine.open[1] \in {NoBar, e.open[1]}
  BY DEF Book, EngineOK, Closes
<1>2. /\ both \in Dones
      /\ \A w \in Intervals :
           /\ TicksOf(both[w]) = TicksOf(em[w]) \o TicksOf(s.done[w])
           /\ VolumeOf(both[w]) = VolumeOf(em[w]) + VolumeOf(s.done[w])
  BY <1>1, ThenFacts
<1> HIDE DEF both
<1>3. ASSUME NEW w \in Intervals
      PROVE  /\ TicksOf(both[w]) \o OpenTicks(s.engine, w) = TicksOf(em[w]) \o OpenTicks(e, w)
             /\ VolumeOf(both[w]) + OpenVolume(s.engine, w) = VolumeOf(em[w]) + OpenVolume(e, w)
  <2>1. /\ TicksOf(em[w]) \in Seq(Ticks) /\ VolumeOf(em[w]) \in Nat
        /\ TicksOf(s.done[w]) \in Seq(Ticks) /\ VolumeOf(s.done[w]) \in Nat
        /\ OpenTicks(s.engine, w) \in Seq(Ticks) /\ OpenVolume(s.engine, w) \in Nat
    BY <1>1, DonesFacts, OpenType
  <2>2. (TicksOf(em[w]) \o TicksOf(s.done[w])) \o OpenTicks(s.engine, w)
          = TicksOf(em[w]) \o (TicksOf(s.done[w]) \o OpenTicks(s.engine, w))
    BY <2>1, TicksAssociate
  <2>3. /\ TicksOf(s.done[w]) \o OpenTicks(s.engine, w) = OpenTicks(e, w)
        /\ VolumeOf(s.done[w]) + OpenVolume(s.engine, w) = OpenVolume(e, w)
    BY DEF Closes
  <2>4. VolumeOf(both[w]) + OpenVolume(s.engine, w) = VolumeOf(em[w]) + OpenVolume(e, w)
    BY <1>2, <2>1, <2>3
  <2>5. QED
    BY <1>2, <2>2, <2>3, <2>4
<1>4. Rising(acc) => VolumeBook(s.engine, acc, both)
  <2> SUFFICES ASSUME Rising(acc) PROVE VolumeBook(s.engine, acc, both)
    OBVIOUS
  <2>1. VolumeBook(e, acc, em)
    BY DEF Book
  <2>2. QED
    BY <1>1, <1>3, <2>1 DEF VolumeBook
<1>5. Book(s.engine, at, acc, both)
  BY <1>1, <1>2, <1>3, <1>4 DEF Book
<1>6. QED
  BY <1>5 DEF both

LEMMA RisingPrefix ==
  ASSUME NEW acc \in Seq(Ticks), NEW tick \in Ticks, Rising(Append(acc, tick))
  PROVE  /\ Rising(acc) /\ tick.volume \in Nat
         /\ acc # <<>> => /\ acc[Len(acc)].volume \in Nat /\ acc[1].volume \in Nat
                          /\ acc[Len(acc)].volume <= tick.volume
<1> DEFINE more == Append(acc, tick)
           k == Len(acc)
<1>1. /\ more \in Seq(Ticks) /\ k \in Nat /\ Len(more) = k + 1 /\ more[k + 1] = tick
      /\ \A n \in 1 .. k : acc[n] = more[n]
      /\ DOMAIN acc = 1 .. k /\ DOMAIN more = 1 .. k + 1
  BY AppendProperties, LenProperties
<1>2. \A n \in 1 .. k + 1 : /\ more[n].volume # NoVolume
                            /\ n > 1 => more[n - 1].volume <= more[n].volume
  BY <1>1 DEF Rising
<1>3. \A n \in 1 .. k + 1 : more[n] \in Ticks
  BY <1>1, ElementOfSeq
<1> HIDE DEF more
<1>4. ASSUME NEW n \in 1 .. k + 1 PROVE more[n].volume \in Nat
  <2>1. more[n].volume \in Volumes
    BY <1>3 DEF Ticks
  <2>2. more[n].volume # NoVolume
    BY <1>2
  <2>3. QED
    BY <2>1, <2>2, ServiceAssumption
<1>5. Rising(acc)
  <2>1. ASSUME NEW n \in 1 .. k
        PROVE  acc[n].volume # NoVolume /\ (n > 1 => acc[n - 1].volume <= acc[n].volume)
    <3>1. n \in 1 .. k + 1 /\ (n > 1 => n - 1 \in 1 .. k)
      BY <1>1
    <3>2. QED
      BY <1>1, <1>2, <3>1
  <2> HIDE DEF k
  <2>2. QED
    BY <1>1, <2>1 DEF Rising
<1>6. tick.volume \in Nat
  BY <1>1, <1>4
<1>7. ASSUME acc # <<>>
      PROVE  acc[k].volume \in Nat /\ acc[1].volume \in Nat /\ acc[k].volume <= tick.volume
  <2>1. k # 0
    BY <1>7, EmptySeq
  <2>2. k \in 1 .. k /\ 1 \in 1 .. k /\ k \in 1 .. k + 1 /\ 1 \in 1 .. k + 1
        /\ k + 1 \in 1 .. k + 1 /\ k + 1 > 1 /\ k + 1 - 1 = k
    BY <1>1, <2>1
  <2>3. acc[k] = more[k] /\ acc[1] = more[1]
    BY <1>1, <2>2
  <2>4. more[k].volume <= more[k + 1].volume
    BY <1>2, <2>2
  <2>5. QED
    BY <1>1, <1>4, <2>2, <2>3, <2>4
<1>8. QED
  BY <1>5, <1>6, <1>7

(* What is in bars and what is yet to come move together.                  *)
LEMMA ShiftedSum ==
  ASSUME NEW a \in Int, NEW b \in Int, NEW c \in Int, NEW latest \in Int,
         NEW first \in Int,
         NEW base \in Int, NEW next \in Int,
         a + b = latest - first, c + (latest - base) = b + (next - base)
  PROVE  a + c = next - first
OBVIOUS

LEMMA BookTick ==
  ASSUME NEW e, NEW at, NEW acc, NEW em, Book(e, at, acc, em), NEW tick \in Ticks,
         at = <<>> \/ at[1].time <= tick.time,
         e.open[1] # NoBar => e.open[1].start = tick.time
  PROVE  Book(ApplyTick(e, MinuteFor(e, tick), tick), <<tick>>, Append(acc, tick), em)
<1> DEFINE bar == MinuteFor(e, tick)
           e2  == ApplyTick(e, bar, tick)
           one == <<tick>>
           more == Append(acc, tick)
           none == <<>>
<1>1. /\ EngineOK(e, at) /\ e \in Engines /\ em \in Dones /\ acc \in Seq(Ticks)
      /\ at = (IF acc = none THEN none ELSE <<acc[Len(acc)]>>)
      /\ \A w \in Intervals : TicksOf(em[w]) \o OpenTicks(e, w) = acc
  BY DEF Book, EngineOK
<1>2. /\ EngineOK(e2, one)
      /\ e2.open[1] # NoBar
      /\ e2.open[1].ticks = TicksIn(e.open[1]) \o one
      /\ e2.open[1].volume = VolumeAfter(bar, tick)
      /\ e2.open[1].baseline = bar.baseline
      /\ e2.carry = (IF Counts(bar, tick) THEN tick.volume ELSE e.carry)
      /\ \A w \in Widths : e2.open[w] = e.open[w]
  BY <1>1, ApplyTickFacts
<1>3. /\ more \in Seq(Ticks) /\ more = acc \o one /\ one \in Seq(Ticks)
      /\ Len(more) = Len(acc) + 1 /\ Len(acc) \in Nat
      /\ more # none /\ more[Len(more)] = tick /\ more[1] = IF acc = none THEN tick ELSE acc[1]
  <2>1. more \in Seq(Ticks) /\ more = acc \o one /\ one \in Seq(Ticks)
        /\ Len(more) = Len(acc) + 1 /\ Len(acc) \in Nat /\ more[Len(acc) + 1] = tick
        /\ \A n \in 1 .. Len(acc) : more[n] = acc[n]
    BY <1>1, AppendProperties, LenProperties, AppendIsConcat
  <2>2. more # none
    <3>1. Len(more) # 0
      BY <2>1
    <3>2. QED
      BY <2>1, <3>1, EmptySeq
  <2>3. more[1] = IF acc = none THEN tick ELSE acc[1]
    <3>1. CASE acc = none
      <4>1. Len(acc) = 0
        BY <3>1
      <4>2. QED
        BY <2>1, <3>1, <4>1
    <3>2. CASE acc # none
      <4>1. Len(acc) # 0
        BY <1>1, <3>2, EmptySeq
      <4>2. 1 \in 1 .. Len(acc)
        BY <2>1, <4>1
      <4>3. QED
        BY <2>1, <3>2, <4>2
    <3>3. QED
      BY <3>1, <3>2
  <2>4. QED
    BY <2>1, <2>2, <2>3
<1>4. \A t \in Seq(Ticks) : t \o none = t /\ none \o t = t
  BY ConcatEmptySeq
<1>5. e2 \in Engines
  BY <1>2 DEF EngineOK
<1> HIDE DEF e2, more, one, none, bar
<1>6. TicksIn(e2.open[1]) = TicksIn(e.open[1]) \o one /\ VolumeIn(e2.open[1]) = VolumeAfter(bar, tick)
  BY <1>2 DEF TicksIn, VolumeIn
<1>7. ASSUME NEW w \in Intervals
      PROVE  /\ OpenTicks(e2, w) = OpenTicks(e, w) \o one
             /\ OpenVolume(e2, w) + VolumeIn(e.open[1]) = OpenVolume(e, w) + VolumeAfter(bar, tick)
  <2>1. /\ TicksIn(e.open[w]) \in Seq(Ticks) /\ TicksIn(e.open[1]) \in Seq(Ticks)
        /\ VolumeIn(e.open[w]) \in Nat /\ VolumeIn(e.open[1]) \in Nat
        /\ TicksIn(e2.open[1]) \in Seq(Ticks) /\ VolumeIn(e2.open[1]) \in Nat
    BY <1>1, <1>5, OpenType
  <2>2. CASE w = 1
    <3>1. /\ OpenTicks(e2, w) = TicksIn(e2.open[1]) \o none
          /\ OpenTicks(e, w) = TicksIn(e.open[1]) \o none
      BY <2>2 DEF OpenTicks, none
    <3>2. OpenTicks(e2, w) = TicksIn(e2.open[1]) /\ OpenTicks(e, w) = TicksIn(e.open[1])
      BY <1>4, <2>1, <3>1
    <3>3. OpenVolume(e2, w) = VolumeIn(e2.open[1]) + 0 /\ OpenVolume(e, w) = VolumeIn(e.open[1]) + 0
      BY <2>2 DEF OpenVolume
    <3>4. OpenTicks(e2, w) = OpenTicks(e, w) \o one
      BY <1>6, <3>2
    <3>5. OpenVolume(e2, w) + VolumeIn(e.open[1]) = OpenVolume(e, w) + VolumeAfter(bar, tick)
      BY <1>6, <2>1, <3>3
    <3>6. QED
      BY <3>4, <3>5
  <2>3. CASE w # 1
    <3>1. e2.open[w] = e.open[w]
      BY <1>2, <2>3, WidthFacts
    <3>2. /\ OpenTicks(e2, w) = TicksIn(e.open[w]) \o TicksIn(e2.open[1])
          /\ OpenTicks(e, w) = TicksIn(e.open[w]) \o TicksIn(e.open[1])
          /\ OpenVolume(e2, w) = VolumeIn(e.open[w]) + VolumeIn(e2.open[1])
          /\ OpenVolume(e, w) = VolumeIn(e.open[w]) + VolumeIn(e.open[1])
      BY <2>3, <3>1 DEF OpenTicks, OpenVolume
    <3>3. (TicksIn(e.open[w]) \o TicksIn(e.open[1])) \o one
            = TicksIn(e.open[w]) \o (TicksIn(e.open[1]) \o one)
      <4>1. PICK a \in Seq(Ticks) : a = TicksIn(e.open[w])
        BY <2>1
      <4>2. PICK b \in Seq(Ticks) : b = TicksIn(e.open[1])
        BY <2>1
      <4>3. (a \o b) \o one = a \o (b \o one)
        BY <1>3, TicksAssociate
      <4>4. QED
        BY <4>1, <4>2, <4>3
    <3>4. OpenTicks(e2, w) = OpenTicks(e, w) \o one
      BY <1>6, <3>2, <3>3
    <3>5. OpenVolume(e2, w) + VolumeIn(e.open[1]) = OpenVolume(e, w) + VolumeAfter(bar, tick)
      BY <1>6, <2>1, <3>2
    <3>6. QED
      BY <3>4, <3>5
  <2>4. QED
    BY <2>2, <2>3
<1>8. ASSUME NEW w \in Intervals PROVE TicksOf(em[w]) \o OpenTicks(e2, w) = more
  <2>1. TicksOf(em[w]) \in Seq(Ticks) /\ OpenTicks(e, w) \in Seq(Ticks)
    BY <1>1, DonesFacts, OpenType
  <2>2. (TicksOf(em[w]) \o OpenTicks(e, w)) \o one = TicksOf(em[w]) \o (OpenTicks(e, w) \o one)
    <3>1. PICK a \in Seq(Ticks) : a = TicksOf(em[w])
      BY <2>1
    <3>2. PICK b \in Seq(Ticks) : b = OpenTicks(e, w)
      BY <2>1
    <3>3. (a \o b) \o one = a \o (b \o one)
      BY <1>3, TicksAssociate
    <3>4. QED
      BY <3>1, <3>2, <3>3
  <2>3. TicksOf(em[w]) \o OpenTicks(e, w) = acc
    BY <1>1
  <2>4. QED
    BY <1>3, <1>7, <2>2, <2>3
<1>9. Rising(more) => VolumeBook(e2, more, em)
  <2> SUFFICES ASSUME Rising(more) PROVE VolumeBook(e2, more, em)
    OBVIOUS
  <2>1. /\ Rising(acc) /\ tick.volume \in Nat
        /\ acc # none => /\ acc[Len(acc)].volume \in Nat /\ acc[1].volume \in Nat
                         /\ acc[Len(acc)].volume <= tick.volume
    BY <1>1, RisingPrefix DEF more, none
  <2>2. VolumeBook(e, acc, em)
    BY <2>1 DEF Book
  <2>3. NoVolume \notin Nat
    BY WidthFacts
  <2> DEFINE last_volume == IF acc = none THEN tick.volume ELSE e.carry
  <2>4. /\ last_volume \in Nat /\ last_volume <= tick.volume
        /\ more[1].volume \in Nat
        /\ \A w \in Intervals : VolumeOf(em[w]) + OpenVolume(e, w) = last_volume - more[1].volume
    <3>1. CASE acc = none
      <4>1. \A w \in Intervals : VolumeOf(em[w]) + OpenVolume(e, w) = 0
        BY <2>2, <3>1 DEF VolumeBook, none
      <4>2. QED
        BY <1>3, <2>1, <3>1, <4>1
    <3>2. CASE acc # none
      <4>1. /\ e.carry = acc[Len(acc)].volume
            /\ \A w \in Intervals : VolumeOf(em[w]) + OpenVolume(e, w) = e.carry - acc[1].volume
        BY <2>2, <3>2 DEF VolumeBook, none
      <4>2. QED
        BY <1>3, <2>1, <3>2, <4>1
    <3>3. QED
      BY <3>1, <3>2
  <2>5. /\ bar.baseline \in Nat /\ bar.baseline <= last_volume
        /\ VolumeIn(e.open[1]) = last_volume - bar.baseline
    <3>1. CASE e.open[1] = NoBar
      <4>1. VolumeIn(e.open[1]) = 0
        BY <3>1 DEF VolumeIn
      <4>2. bar.baseline = IF e.carry # NoVolume THEN e.carry ELSE tick.volume
        BY <3>1 DEF bar, MinuteFor, OpenBar, Bar
      <4>3. bar.baseline = last_volume
        <5>1. CASE acc = none
          BY <2>2, <4>2, <5>1 DEF VolumeBook, none
        <5>2. CASE acc # none
          <6>1. e.carry = acc[Len(acc)].volume
            BY <2>2, <5>2 DEF VolumeBook, none
          <6>2. QED
            BY <2>1, <2>3, <4>2, <5>2, <6>1
        <5>3. QED
          BY <5>1, <5>2
      <4> HIDE DEF last_volume
      <4>4. QED
        BY <2>4, <4>1, <4>3
    <3>2. CASE e.open[1] # NoBar
      <4>1. acc # none
        BY <1>1, <3>2, WidthFacts DEF EngineOK, none
      <4>2. /\ e.open[1].baseline \in Nat /\ e.open[1].baseline <= e.carry
            /\ e.open[1].volume = e.carry - e.open[1].baseline
        BY <2>2, <3>2, <4>1 DEF VolumeBook, none
      <4>3. bar = e.open[1] /\ VolumeIn(e.open[1]) = e.open[1].volume
        BY <3>2 DEF bar, MinuteFor, VolumeIn
      <4>4. QED
        BY <4>1, <4>2, <4>3
    <3>3. QED
      BY <3>1, <3>2
  <2>6. /\ Counts(bar, tick)
        /\ VolumeAfter(bar, tick) = tick.volume - bar.baseline
        /\ e2.carry = tick.volume
    <3>1. Counts(bar, tick)
      BY <2>1, <2>3, <2>5 DEF Counts
    <3> HIDE DEF last_volume
    <3>2. ~(tick.volume < bar.baseline)
      BY <2>1, <2>4, <2>5
    <3>3. QED
      BY <1>2, <3>1, <3>2 DEF VolumeAfter, VolumeSince
  <2> HIDE DEF last_volume
  <2>7. ASSUME NEW w \in Intervals
        PROVE  VolumeOf(em[w]) + OpenVolume(e2, w) = tick.volume - more[1].volume
    <3>1. /\ VolumeOf(em[w]) \in Nat /\ OpenVolume(e, w) \in Nat /\ OpenVolume(e2, w) \in Nat
      BY <1>1, <1>5, DonesFacts, OpenType
    <3>2. OpenVolume(e2, w) + (last_volume - bar.baseline)
            = OpenVolume(e, w) + (tick.volume - bar.baseline)
      BY <1>7, <2>5, <2>6
    <3>3. VolumeOf(em[w]) + OpenVolume(e, w) = last_volume - more[1].volume
      BY <2>4
    <3>4. PICK done \in Int : done = VolumeOf(em[w])
      BY <3>1
    <3>5. PICK open \in Int : open = OpenVolume(e, w)
      BY <3>1
    <3>6. PICK left \in Int : left = OpenVolume(e2, w)
      BY <3>1
    <3>7. PICK l \in Int : l = last_volume
      BY <2>4
    <3>8. PICK f \in Int : f = more[1].volume
      BY <2>4
    <3>9. PICK base \in Int : base = bar.baseline
      BY <2>5
    <3>10. PICK v \in Int : v = tick.volume
      BY <2>1
    <3>11. done + open = l - f /\ left + (l - base) = open + (v - base)
      BY <3>2, <3>3, <3>4, <3>5, <3>6, <3>7, <3>8, <3>9, <3>10
    <3>12. done + left = v - f
      BY <3>11, ShiftedSum
    <3>13. QED
      BY <3>4, <3>6, <3>8, <3>10, <3>12
  <2>8. /\ e2.open[1].baseline \in Nat /\ e2.open[1].baseline <= e2.carry
        /\ e2.open[1].volume = e2.carry - e2.open[1].baseline
    BY <1>2, <2>1, <2>4, <2>5, <2>6
  <2>9. more # <<>> /\ e2.carry = more[Len(more)].volume
    BY <1>3, <2>6 DEF none
  <2>10. QED
    BY <2>6, <2>7, <2>8, <2>9 DEF VolumeBook
<1>10. Book(e2, one, more, em)
  <2>1. one = IF more = <<>> THEN <<>> ELSE <<more[Len(more)]>>
    BY <1>3 DEF one, none
  <2>2. QED
    BY <1>1, <1>2, <1>3, <1>8, <1>9, <2>1 DEF Book
<1>11. QED
  BY <1>10 DEF e2, one, more, bar

-----------------------------------------------------------------------------
(* on_tick: a minute that is over is completed, and the tick is applied.   *)
MinuteOver(e, tick) == e.open[1] # NoBar /\ e.open[1].start < tick.time

LEMMA OnTickShape ==
  ASSUME NEW e, NEW at, EngineOK(e, at), NEW tick \in Ticks,
         at = <<>> \/ at[1].time <= tick.time
  PROVE  LET closed == Closed(e, MinuteOver(e, tick))
             e1     == closed.engine
         IN  /\ on_tick(e, tick) = Step(ApplyTick(e1, MinuteFor(e1, tick), tick), closed.done)
             /\ Closes(e, closed) /\ EngineOK(e1, at)
             /\ e1.open[1] # NoBar => e1.open[1].start = tick.time
<1> DEFINE closed == Closed(e, MinuteOver(e, tick))
           e1     == closed.engine
<1>1. e.open[1] # NoBar => /\ e.open[1].start = at[1].time /\ e.open[1].start \in Nat
                           /\ e.open[1].start <= tick.time
  BY WidthFacts, GoodBarIsHeld DEF EngineOK
<1>2. tick.time \in Nat
  BY DEF Ticks
<1>3. ~(e.open[1] # NoBar /\ tick.time < e.open[1].start)
  BY <1>1, <1>2
<1>4. /\ closed = IF e.open[1] # NoBar /\ e.open[1].start < tick.time
                  THEN CloseMinute(e) ELSE Step(e, NoneDone)
      /\ MinuteFor(e1, tick) = IF e1.open[1] = NoBar THEN OpenBar(e1, tick) ELSE e1.open[1]
  BY DEF Closed, MinuteOver, MinuteFor
<1>5. on_tick(e, tick) = Step(ApplyTick(e1, MinuteFor(e1, tick), tick), closed.done)
  BY <1>3 DEF on_tick, Closed, MinuteOver, MinuteFor
<1>6. Closes(e, closed) /\ EngineOK(e1, at)
  <2>1. MinuteOver(e, tick) \in BOOLEAN /\ (MinuteOver(e, tick) => e.open[1] # NoBar)
    BY DEF MinuteOver
  <2>2. QED
    BY <2>1, ClosedCloses
<1>7. e1.open[1] # NoBar => e1.open[1].start = tick.time
  <2>1. CASE MinuteOver(e, tick)
    <3>1. e1.open[1] = NoBar
      BY <2>1, WidthFacts DEF Closed, CloseMinute, Step, EngineOK, Engines
    <3>2. QED
      BY <3>1
  <2>2. CASE ~MinuteOver(e, tick)
    <3>1. e1 = e
      BY <2>2 DEF Closed, Step
    <3>2. e.open[1] # NoBar => e.open[1].start = tick.time
      BY <1>1, <1>2, <2>2 DEF MinuteOver
    <3> HIDE DEF e1
    <3>3. QED
      BY <3>1, <3>2
  <2>3. QED
    BY <2>1, <2>2
<1>8. QED
  BY <1>5, <1>6, <1>7

(* What a message has come to so far.                                      *)
SoFars == [engine : Engines, last : Seq(Ticks), ticks : Seq(Ticks), done : Dones]
HandledStart == [engine |-> engine, last |-> last, ticks |-> <<>>, done |-> NoneDone]

HandledUpto(batch, k, f) ==
  f = [n \in 0 .. k |-> IF n = 0 THEN HandledStart ELSE HandledTick(f[n - 1], batch[n])]

LEMMA HandledInduction ==
  ASSUME NEW batch, Len(batch) \in Nat, NEW S, HandledStart \in S,
         \A so_far \in S : \A n \in 1 .. Len(batch) : HandledTick(so_far, batch[n]) \in S
  PROVE  Handled(batch) \in S
<1> DEFINE k == Len(batch)
           h == CHOOSE f : HandledUpto(batch, k, f)
<1>1. \E f : HandledUpto(batch, k, f)
  <2> DEFINE N == {n \in Nat : \E f : HandledUpto(batch, n, f)}
  <2>1. 0 \in N
    <3>1. HandledUpto(batch, 0, [n \in 0 .. 0 |-> HandledStart])
      BY DEF HandledUpto
    <3>2. QED
      BY <3>1
  <2>2. ASSUME NEW n \in Nat, n \in N PROVE n + 1 \in N
    <3>1. PICK f : HandledUpto(batch, n, f)
      BY <2>2
    <3> DEFINE g == [i \in 0 .. n + 1 |-> IF i = n + 1 THEN HandledTick(f[n], batch[n + 1])
                                                       ELSE f[i]]
    <3>2. HandledUpto(batch, n + 1, g)
      BY <3>1 DEF HandledUpto
    <3>3. QED
      BY <3>2
  <2> HIDE DEF N
  <2>3. k \in N
    BY <2>1, <2>2, Induction
  <2>4. QED
    BY <2>3 DEF N
<1>2. HandledUpto(batch, k, h)
  BY <1>1
<1>3. Handled(batch) = h[k]
  BY DEF Handled, HandledUpto, HandledStart
<1> HIDE DEF h
<1> DEFINE N == {n \in Nat : n <= k => h[n] \in S}
<1>4. 0 \in N
  BY <1>2 DEF HandledUpto
<1>5. ASSUME NEW n \in Nat, n \in N PROVE n + 1 \in N
  <2> SUFFICES ASSUME n + 1 <= k PROVE h[n + 1] \in S
    OBVIOUS
  <2>1. h[n + 1] = HandledTick(h[n], batch[n + 1])
    BY <1>2 DEF HandledUpto
  <2>2. h[n] \in S /\ n + 1 \in 1 .. k
    BY <1>5
  <2>3. QED
    BY <2>1, <2>2
<1> HIDE DEF N
<1>6. k \in N
  BY <1>4, <1>5, Induction
<1>7. QED
  BY <1>3, <1>6 DEF N

(* One tick of a message, against a book that already holds those before.  *)
HandledBook(so_far) ==
  Book(so_far.engine, so_far.last, accepted \o so_far.ticks, Then(emitted, so_far.done))

LEMMA TickHandled ==
  ASSUME accepted \in Seq(Ticks), emitted \in Dones,
         NEW so_far \in SoFars, HandledBook(so_far), NEW tick \in Ticks
  PROVE  HandledTick(so_far, tick) \in SoFars /\ HandledBook(HandledTick(so_far, tick))
<1> DEFINE e == so_far.engine
           at == so_far.last
           next == HandledTick(so_far, tick)
           closed == Closed(e, MinuteOver(e, tick))
           e1 == closed.engine
           e2 == ApplyTick(e1, MinuteFor(e1, tick), tick)
<1>1. CASE ~Accepts(at, tick)
  BY <1>1 DEF HandledTick
<1>2. CASE Accepts(at, tick)
  <2>1. at = <<>> \/ at[1].time <= tick.time
    BY <1>2 DEF Accepts
  <2>2. EngineOK(e, at)
    BY DEF HandledBook, Book
  <2>3. /\ on_tick(e, tick) = Step(e2, closed.done)
        /\ Closes(e, closed) /\ EngineOK(e1, at)
        /\ e1.open[1] # NoBar => e1.open[1].start = tick.time
    BY <2>1, <2>2, OnTickShape
  <2>4. next = [engine |-> e2, last |-> <<tick>>, ticks |-> Append(so_far.ticks, tick),
                done |-> Then(so_far.done, closed.done)]
    BY <1>2, <2>3 DEF HandledTick, Step
  <2>5. so_far.ticks \in Seq(Ticks) /\ so_far.done \in Dones /\ closed.done \in Dones
    BY <2>3 DEF SoFars, Closes
  <2> HIDE DEF closed, e1, e2, next, e, at
  <2> DEFINE acc == accepted \o so_far.ticks
             em == Then(emitted, so_far.done)
  <2>6. Book(e, at, acc, em)
    BY DEF HandledBook, e, at
  <2>7. Book(e1, at, acc, Then(em, closed.done))
    BY <2>3, <2>6, BookCloses DEF e1
  <2>8. Book(e2, <<tick>>, Append(acc, tick), Then(em, closed.done))
    BY <2>1, <2>3, <2>7, BookTick DEF e2
  <2>9. Append(acc, tick) = accepted \o Append(so_far.ticks, tick)
    <3>1. <<tick>> \in Seq(Ticks)
      OBVIOUS
    <3>2. /\ Append(acc, tick) = acc \o <<tick>>
          /\ Append(so_far.ticks, tick) = so_far.ticks \o <<tick>>
      <4>1. acc \in Seq(Ticks)
        BY <2>6 DEF Book
      <4>2. QED
        BY <2>5, <4>1, AppendIsConcat
    <3>3. (accepted \o so_far.ticks) \o <<tick>> = accepted \o (so_far.ticks \o <<tick>>)
      BY <2>5, <3>1, TicksAssociate
    <3>4. QED
      BY <3>2, <3>3
  <2>10. Then(em, closed.done) = Then(emitted, Then(so_far.done, closed.done))
    BY <2>5, ThenAssociates
  <2>11. /\ e2 \in Engines /\ <<tick>> \in Seq(Ticks)
         /\ Append(so_far.ticks, tick) \in Seq(Ticks)
         /\ Then(so_far.done, closed.done) \in Dones
    BY <2>5, <2>8, ThenFacts, AppendProperties DEF Book, EngineOK
  <2>12. next \in SoFars
    BY <2>4, <2>11 DEF SoFars
  <2>13. HandledBook(next)
    <3>1. /\ next.engine = e2 /\ next.last = <<tick>>
          /\ next.ticks = Append(so_far.ticks, tick)
          /\ next.done = Then(so_far.done, closed.done)
      BY <2>4
    <3>2. QED
      BY <2>8, <2>9, <2>10, <3>1 DEF HandledBook
  <2>14. QED
    BY <2>12, <2>13 DEF next
<1>3. QED
  BY <1>1, <1>2

-----------------------------------------------------------------------------
(* The inductive invariant of the engine: its book is always right.        *)
BookInv == Book(engine, last, accepted, emitted)

LEMMA StartsHandled ==
  ASSUME BookInv
  PROVE  HandledStart \in SoFars /\ HandledBook(HandledStart)
<1> DEFINE none == <<>>
<1>1. engine \in Engines /\ last \in Seq(Ticks) /\ accepted \in Seq(Ticks) /\ emitted \in Dones
  BY DEF BookInv, Book, EngineOK
<1>2. none \in Seq(Ticks) /\ accepted \o none = accepted
  BY <1>1, ConcatEmptySeq
<1>3. Then(emitted, NoneDone) = emitted /\ NoneDone \in Dones
  BY <1>1, NoneDoneFacts
<1>4. HandledStart = [engine |-> engine, last |-> last, ticks |-> none, done |-> NoneDone]
  BY DEF HandledStart
<1> HIDE DEF none
<1>5. QED
  BY <1>1, <1>2, <1>3, <1>4 DEF SoFars, HandledBook, BookInv

LEMMA BatchHandled ==
  ASSUME BookInv, NEW batch \in Seq(Ticks)
  PROVE  Handled(batch) \in SoFars /\ HandledBook(Handled(batch))
<1> DEFINE S == {so_far \in SoFars : HandledBook(so_far)}
<1>1. HandledStart \in S
  BY StartsHandled
<1>2. ASSUME NEW so_far \in S, NEW n \in 1 .. Len(batch) PROVE HandledTick(so_far, batch[n]) \in S
  <2>1. batch[n] \in Ticks
    BY ElementOfSeq
  <2>2. accepted \in Seq(Ticks) /\ emitted \in Dones
    BY DEF BookInv, Book
  <2>3. QED
    BY <2>1, <2>2, TickHandled
<1> HIDE DEF S
<1>3. Len(batch) \in Nat
  BY LenProperties
<1>4. Handled(batch) \in S
  BY <1>1, <1>2, <1>3, HandledInduction
<1>5. QED
  BY <1>4 DEF S

LEMMA BookKept == BookInv /\ [Next]_vars => BookInv'
<1> SUFFICES ASSUME BookInv, [Next]_vars PROVE BookInv'
  OBVIOUS
<1>1. CASE ReceiveTicks
  <2>0. PICK size \in 1 .. MaxBatch : \E batch \in [1 .. size -> Ticks] : HandleTicks(batch)
    BY <1>1 DEF ReceiveTicks
  <2>1. PICK batch \in [1 .. size -> Ticks] : HandleTicks(batch)
    BY <2>0
  <2>2. batch \in Seq(Ticks)
    BY ServiceAssumption
  <2> DEFINE step == Handled(batch)
  <2>3. HandledBook(step)
    BY <2>2, BatchHandled
  <2>4. /\ engine' = step.engine /\ last' = step.last
        /\ accepted' = accepted \o step.ticks /\ emitted' = Then(emitted, step.done)
    BY <2>1 DEF HandleTicks
  <2> HIDE DEF step
  <2>5. QED
    BY <2>3, <2>4 DEF BookInv, HandledBook
<1>2. CASE HandleGap
  BY <1>2, FreshBook DEF HandleGap, BookInv
<1>3. CASE Flush
  <2> DEFINE step == flush(engine, now)
  <2>1. engine' = step.engine /\ emitted' = Then(emitted, step.done) /\ UNCHANGED <<last, accepted>>
    BY <1>3 DEF Flush, FlushAt
  <2>2. Closes(engine, step) /\ EngineOK(step.engine, last)
    BY FlushCloses DEF BookInv, Book
  <2> HIDE DEF step
  <2>3. QED
    BY <2>1, <2>2, BookCloses DEF BookInv
<1>4. CASE Finalise
  <2> DEFINE step == close_all(engine)
  <2>1. \/ UNCHANGED <<engine, emitted, last, accepted>>
        \/ /\ engine' = step.engine /\ emitted' = Then(emitted, step.done)
           /\ UNCHANGED <<last, accepted>>
    BY <1>4 DEF Finalise
  <2>2. Closes(engine, step) /\ EngineOK(step.engine, last)
    BY CloseAllCloses DEF BookInv, Book
  <2> HIDE DEF step
  <2>3. QED
    BY <2>1, <2>2, BookCloses DEF BookInv
<1>5. CASE Restart
  BY <1>5, FreshBook DEF Restart, BookInv
<1>6. CASE HandleConnection \/ StreamEnds \/ RequestStop \/ AdvanceClock \/ UNCHANGED vars
  <2>1. UNCHANGED <<engine, last, accepted, emitted>>
    BY <1>6 DEF HandleConnection, StreamEnds, RequestStop, AdvanceClock, vars
  <2>2. QED
    BY <2>1 DEF BookInv
<1>7. QED
  BY <1>1, <1>2, <1>3, <1>4, <1>5, <1>6 DEF Next

LEMMA BookHolds == Spec => []BookInv
<1>1. Init => BookInv
  BY FreshBook DEF Init, BookInv
<1>2. QED
  BY <1>1, BookKept, PTL DEF Spec

(* For any intervals and messages, and however late ticks, flushes, gaps,  *)
(* faults and restarts interleave: no tick the engine has accepted is      *)
(* lost, doubled or moved, and each is in the bar whose window holds it.   *)
THEOREM TicksAreKept == Spec => []EveryTickInOneBar
<1>1. BookInv => EveryTickInOneBar
  <2> SUFFICES ASSUME BookInv PROVE EveryTickInOneBar
    OBVIOUS
  <2>1. ASSUME NEW w \in Intervals
        PROVE  TicksOf(emitted[w]) \o OpenTicks(engine, w) = accepted
    BY DEF BookInv, Book
  <2>2. ASSUME NEW w \in Intervals, NEW n \in DOMAIN emitted[w],
               NEW k \in DOMAIN emitted[w][n].ticks
        PROVE  /\ emitted[w][n].start <= emitted[w][n].ticks[k].time
               /\ emitted[w][n].ticks[k].time < EndAt(emitted[w][n])
    <3> DEFINE bar == emitted[w][n]
    <3>1. emitted \in Dones
      BY DEF BookInv, Book
    <3>2. emitted[w] \in Seq(Bars)
      BY <3>1, DonesFacts
    <3>3. n \in 1 .. Len(emitted[w])
      BY <2>2, <3>2, LenProperties
    <3>4. GoodBar(bar, w)
      BY <3>1, <3>3 DEF Dones
    <3> HIDE DEF bar
    <3>5. bar.ticks \in Seq(Ticks) /\ EndAt(bar) = bar.start + w
      BY <3>4, GoodBarIsHeld
    <3>6. k \in 1 .. Len(bar.ticks)
      BY <2>2, <3>5, LenProperties DEF bar
    <3>7. bar.start <= bar.ticks[k].time /\ bar.ticks[k].time < EndAt(bar)
      BY <3>4, <3>5, <3>6 DEF GoodBar
    <3>8. QED
      BY <3>7 DEF bar
  <2>3. QED
    BY <2>1, <2>2 DEF EveryTickInOneBar
<1>2. QED
  BY <1>1, BookHolds, PTL

(* While the feed's volume of the day does not fall, the volumes of the    *)
(* bars of each interval add up to what traded since the first tick.       *)
THEOREM VolumesAreKept == Spec => []VolumesAddUp
<1>1. BookInv => VolumesAddUp
  BY DEF BookInv, Book, VolumeBook, VolumesAddUp
<1>2. QED
  BY <1>1, BookHolds, PTL

-----------------------------------------------------------------------------
(* save_candles.                                                           *)
Tables == [Keys -> Rows \cup {NoBar}]
RowOf(bar) == [open |-> bar.ticks[1], ticks |-> bar.ticks, volume |-> bar.volume]

LEMMA KeyFacts ==
  /\ \A w \in Intervals : \A s \in 0 .. MaxTime : <<w, s>> \in Keys
  /\ \A key \in Keys : key = <<key[1], key[2]>> /\ key[1] \in Intervals /\ key[2] \in 0 .. MaxTime
BY DEF Keys

LEMMA RowFacts ==
  ASSUME NEW w \in Intervals, NEW bar, GoodBar(bar, w)
  PROVE  /\ RowOf(bar) \in Rows /\ RowOf(bar) # NoBar /\ RowOf(bar) \in Held
         /\ TicksIn(RowOf(bar)) = bar.ticks /\ VolumeIn(RowOf(bar)) = bar.volume
<1>1. bar.ticks \in Seq(Ticks) /\ bar.volume \in Nat /\ bar.ticks # <<>>
  BY GoodBarIsHeld DEF GoodBar
<1>2. bar.ticks[1] \in Ticks
  <2>1. Len(bar.ticks) \in Nat /\ Len(bar.ticks) # 0
    BY <1>1, LenProperties, EmptySeq
  <2>2. QED
    BY <1>1, <2>1, ElementOfSeq
<1>3. RowOf(bar) \in Rows
  BY <1>1, <1>2 DEF RowOf, Rows
<1>4. RowOf(bar) # NoBar
  BY <1>3, NoBarAssumption
<1>5. QED
  BY <1>3, <1>4 DEF Held, TicksIn, VolumeIn, RowOf

LEMMA LeastAndGreatest ==
  ASSUME NEW k \in Nat, NEW S, S \subseteq 1 .. k, S # {}
  PROVE  /\ \E n \in S : \A i \in S : n <= i
         /\ \E n \in S : \A i \in S : i <= n
<1> DEFINE Found(T) == /\ \E n \in T : \A i \in T : n <= i
                       /\ \E n \in T : \A i \in T : i <= n
           N == {j \in Nat : \A T \in SUBSET (1 .. j) : T # {} => Found(T)}
<1>1. 0 \in N
  <2>1. 1 .. 0 = {}
    OBVIOUS
  <2>2. \A T \in SUBSET (1 .. 0) : T = {}
    BY <2>1
  <2> HIDE DEF Found
  <2>3. QED
    BY <2>2
<1>2. ASSUME NEW j \in Nat, j \in N PROVE j + 1 \in N
  <2> SUFFICES ASSUME NEW T \in SUBSET (1 .. j + 1), T # {} PROVE Found(T)
    OBVIOUS
  <2>1. CASE j + 1 \notin T
    <3>1. T \in SUBSET (1 .. j)
      BY <2>1
    <3>2. QED
      BY <1>2, <3>1
  <2>2. CASE j + 1 \in T
    <3> DEFINE R == T \ {j + 1}
    <3>1. R \in SUBSET (1 .. j)
      OBVIOUS
    <3>2. CASE R = {}
      <4>1. T = {j + 1}
        BY <2>2, <3>2
      <4>2. QED
        BY <4>1
    <3>3. CASE R # {}
      <4>1. Found(R)
        BY <1>2, <3>1, <3>3
      <4>2. PICK n \in R : \A i \in R : n <= i
        BY <4>1
      <4>3. n \in T /\ \A i \in T : n <= i
        BY <3>1, <4>2
      <4>4. \A i \in T : i <= j + 1
        OBVIOUS
      <4>5. QED
        BY <2>2, <4>3, <4>4
    <3>4. QED
      BY <3>2, <3>3
  <2>3. QED
    BY <2>1, <2>2
<1> HIDE DEF N
<1>3. k \in N
  BY <1>1, <1>2, Induction
<1>4. S \in SUBSET (1 .. k) /\ S # {}
  OBVIOUS
<1>5. Found(S)
  BY <1>3, <1>4 DEF N
<1>6. QED
  BY <1>5

LEMMA SavedNone ==
  ASSUME NEW bars \in Seq(Bars), NEW start, NEW row,
         \A n \in 1 .. Len(bars) : bars[n].start # start
  PROVE  SavedRow(row, bars, start) = row
<1>1. DOMAIN bars = 1 .. Len(bars)
  BY LenProperties
<1>2. {n \in DOMAIN bars : bars[n].start = start} = {}
  BY <1>1
<1>3. QED
  BY <1>2 DEF SavedRow

(* The first and the last of the bars of one start, and what they leave.   *)
Ends(bars, start, n, m) ==
  /\ n \in 1 .. Len(bars) /\ bars[n].start = start
  /\ m \in 1 .. Len(bars) /\ bars[m].start = start
  /\ \A i \in 1 .. Len(bars) : bars[i].start = start => n <= i /\ i <= m
WrittenRow(row, first, latest) ==
  [open   |-> IF row = NoBar THEN first.ticks[1] ELSE row.open,
   ticks  |-> latest.ticks,
   volume |-> latest.volume]

LEMMA SavedSome ==
  ASSUME NEW bars \in Seq(Bars), NEW start, NEW row, NEW n, NEW m, Ends(bars, start, n, m)
  PROVE  SavedRow(row, bars, start) = WrittenRow(row, bars[n], bars[m])
<1> DEFINE of == {i \in DOMAIN bars : bars[i].start = start}
           first == CHOOSE j \in of : \A i \in of : j <= i
           latest == CHOOSE j \in of : \A i \in of : i <= j
<1>1. DOMAIN bars = 1 .. Len(bars) /\ Len(bars) \in Nat
  BY LenProperties
<1>2. n \in of /\ m \in of /\ of \subseteq 1 .. Len(bars) /\ \A i \in of : n <= i /\ i <= m
  BY <1>1 DEF Ends
<1>3. SavedRow(row, bars, start) =
        IF of = {} THEN row ELSE WrittenRow(row, bars[first], bars[latest])
  BY DEF SavedRow, WrittenRow
<1>4. first \in of /\ \A i \in of : first <= i
  BY <1>2
<1>5. latest \in of /\ \A i \in of : i <= latest
  BY <1>2
<1> HIDE DEF of, first, latest
<1>6. first = n
  <2>1. first \in Nat /\ n \in Nat /\ first <= n /\ n <= first
    BY <1>1, <1>2, <1>4
  <2>2. QED
    BY <2>1
<1>7. latest = m
  <2>1. latest \in Nat /\ m \in Nat /\ latest <= m /\ m <= latest
    BY <1>1, <1>2, <1>5
  <2>2. QED
    BY <2>1
<1>8. of # {}
  BY <1>2
<1>9. QED
  BY <1>3, <1>6, <1>7, <1>8

LEMMA SavedOne ==
  ASSUME NEW bars \in Seq(Bars), NEW n \in 1 .. Len(bars),
         \A i \in 1 .. Len(bars) : bars[i].start = bars[n].start => i = n
  PROVE  SavedRow(NoBar, bars, bars[n].start) = RowOf(bars[n])
<1>1. Len(bars) \in Nat
  BY LenProperties
<1>2. Ends(bars, bars[n].start, n, n)
  BY <1>1 DEF Ends
<1>3. SavedRow(NoBar, bars, bars[n].start) = WrittenRow(NoBar, bars[n], bars[n])
  BY <1>2, SavedSome
<1>4. QED
  BY <1>3 DEF RowOf, WrittenRow

(* Saving in one call what two calls would save, one after the other.      *)
LEMMA SavedInTurn ==
  ASSUME NEW w \in Intervals, NEW a \in Seq(Bars), NEW b \in Seq(Bars),
         \A n \in 1 .. Len(a) : GoodBar(a[n], w),
         \A n \in 1 .. Len(b) : GoodBar(b[n], w),
         NEW row \in Rows \cup {NoBar}, NEW start
  PROVE  /\ SavedRow(SavedRow(row, a, start), b, start) = SavedRow(row, a \o b, start)
         /\ SavedRow(row, a, start) \in Rows \cup {NoBar}
<1> DEFINE la == Len(a)
           lb == Len(b)
           ab == a \o b
           A == {n \in 1 .. la : a[n].start = start}
           B == {n \in 1 .. lb : b[n].start = start}
           inner == SavedRow(row, a, start)
<1>1. /\ la \in Nat /\ lb \in Nat /\ ab \in Seq(Bars) /\ Len(ab) = la + lb
      /\ \A n \in 1 .. la + lb : ab[n] = IF n <= la THEN a[n] ELSE b[n - la]
  BY LenProperties, ConcatProperties
<1> HIDE DEF ab
<1>2. /\ \A n \in 1 .. la : n \in 1 .. Len(ab) /\ ab[n] = a[n]
      /\ \A n \in 1 .. lb : la + n \in 1 .. Len(ab) /\ ab[la + n] = b[n]
  <2>1. ASSUME NEW n \in 1 .. la PROVE n \in 1 .. Len(ab) /\ ab[n] = a[n]
    <3>1. n \in 1 .. la + lb /\ n <= la
      BY <1>1
    <3>2. QED
      BY <1>1, <3>1
  <2>2. ASSUME NEW n \in 1 .. lb PROVE la + n \in 1 .. Len(ab) /\ ab[la + n] = b[n]
    <3>1. la + n \in 1 .. la + lb /\ ~(la + n <= la) /\ la + n - la = n
      BY <1>1
    <3>2. QED
      BY <1>1, <3>1
  <2>3. QED
    BY <2>1, <2>2
<1>3. ASSUME NEW i \in 1 .. Len(ab), ab[i].start = start
      PROVE  \/ i \in A
             \/ i - la \in B /\ i > la
  <2>1. i \in 1 .. la + lb
    BY <1>1
  <2>2. CASE i <= la
    <3>1. i \in 1 .. la /\ ab[i] = a[i]
      BY <1>1, <2>1, <2>2
    <3>2. QED
      BY <1>3, <3>1
  <2>3. CASE ~(i <= la)
    <3>1. i - la \in 1 .. lb /\ ab[i] = b[i - la] /\ i > la
      BY <1>1, <2>1, <2>3, SecondPart
    <3>2. QED
      BY <1>3, <3>1
  <2>4. QED
    BY <2>2, <2>3
<1>4. CASE A = {}
  <2>1. inner = row
    BY <1>4, SavedNone
  <2>2. CASE B = {}
    <3>1. SavedRow(row, b, start) = row
      BY <2>2, SavedNone
    <3>2. \A i \in 1 .. Len(ab) : ab[i].start # start
      BY <1>3, <1>4, <2>2
    <3>3. SavedRow(row, ab, start) = row
      BY <1>1, <3>2, SavedNone
    <3>4. QED
      BY <2>1, <3>1, <3>3 DEF ab
  <2>3. CASE B # {}
    <3>1. PICK n \in B, m \in B : \A i \in B : n <= i /\ i <= m
      BY <1>1, <2>3, LeastAndGreatest
    <3>2. n \in 1 .. lb /\ m \in 1 .. lb /\ Ends(b, start, n, m)
      BY <3>1 DEF Ends
    <3>3. SavedRow(row, b, start) = WrittenRow(row, b[n], b[m])
      BY <3>2, SavedSome
    <3>4. /\ la + n \in 1 .. Len(ab) /\ ab[la + n] = b[n]
          /\ la + m \in 1 .. Len(ab) /\ ab[la + m] = b[m]
      BY <1>2, <3>2
    <3>5. ASSUME NEW i \in 1 .. Len(ab), ab[i].start = start PROVE la + n <= i /\ i <= la + m
      <4>1. i - la \in B
        BY <1>3, <1>4, <3>5
      <4>2. i \in Int /\ n \in Int /\ m \in Int
        BY <1>1, <3>2
      <4>3. n <= i - la /\ i - la <= m
        BY <3>1, <4>1
      <4>4. QED
        BY <1>1, <4>2, <4>3
    <3>6. b[n].start = start /\ b[m].start = start
      BY <3>1
    <3>7. Ends(ab, start, la + n, la + m)
      BY <3>4, <3>5, <3>6 DEF Ends
    <3>8. SavedRow(row, ab, start) = WrittenRow(row, ab[la + n], ab[la + m])
      BY <1>1, <3>7, SavedSome
    <3>9. QED
      BY <2>1, <3>3, <3>4, <3>8 DEF ab
  <2>4. QED
    BY <2>2, <2>3
<1>5. CASE A # {}
  <2>1. PICK n \in A, m \in A : \A i \in A : n <= i /\ i <= m
    BY <1>1, <1>5, LeastAndGreatest
  <2>2. n \in 1 .. la /\ m \in 1 .. la /\ Ends(a, start, n, m)
        /\ a[n].start = start /\ a[m].start = start
    BY <2>1 DEF Ends
  <2>3. inner = WrittenRow(row, a[n], a[m])
    BY <2>2, SavedSome
  <2>4. inner \in Rows
    <3>1. GoodBar(a[n], w) /\ GoodBar(a[m], w)
      BY <2>2
    <3>2. RowOf(a[n]) \in Rows /\ RowOf(a[m]) \in Rows
      BY <3>1, RowFacts
    <3>3. a[n].ticks[1] \in Ticks /\ a[m].ticks \in Seq(Ticks) /\ a[m].volume \in Nat
      BY <3>2 DEF RowOf, Rows
    <3>4. row # NoBar => row.open \in Ticks
      BY DEF Rows
    <3> HIDE DEF inner
    <3>5. QED
      BY <2>3, <3>3, <3>4 DEF Rows, WrittenRow
  <2>5. inner # NoBar
    BY <2>4, NoBarAssumption
  <2>6. n \in 1 .. Len(ab) /\ ab[n] = a[n] /\ m \in 1 .. Len(ab) /\ ab[m] = a[m]
    BY <1>2, <2>2
  <2> HIDE DEF inner
  <2>7. CASE B = {}
    <3>1. SavedRow(inner, b, start) = inner
      BY <2>7, SavedNone
    <3>2. \A i \in 1 .. Len(ab) : ab[i].start = start => n <= i /\ i <= m
      BY <1>3, <2>1, <2>7
    <3>3. Ends(ab, start, n, m)
      BY <2>2, <2>6, <3>2 DEF Ends
    <3>4. SavedRow(row, ab, start) = WrittenRow(row, ab[n], ab[m])
      BY <1>1, <3>3, SavedSome
    <3>5. QED
      BY <2>3, <2>4, <2>6, <3>1, <3>4 DEF ab, inner
  <2>8. CASE B # {}
    <3>1. PICK p \in B, q \in B : \A i \in B : p <= i /\ i <= q
      BY <1>1, <2>8, LeastAndGreatest
    <3>2. p \in 1 .. lb /\ q \in 1 .. lb /\ Ends(b, start, p, q) /\ b[q].start = start
      BY <3>1 DEF Ends
    <3>3. SavedRow(inner, b, start) = WrittenRow(inner, b[p], b[q])
      BY <3>2, SavedSome
    <3>4. la + q \in 1 .. Len(ab) /\ ab[la + q] = b[q]
      BY <1>2, <3>2
    <3>5. ASSUME NEW i \in 1 .. Len(ab), ab[i].start = start PROVE n <= i /\ i <= la + q
      <4>1. i \in Nat /\ n \in 1 .. la /\ q \in 1 .. lb
        BY <1>1, <2>2, <3>2
      <4>2. CASE i \in A
        <5>1. n <= i /\ i <= la
          BY <1>1, <2>1, <4>2
        <5>2. QED
          BY <1>1, <4>1, <5>1
      <4>3. CASE i - la \in B /\ i > la
        <5>1. i - la <= q
          BY <3>1, <4>3
        <5>2. QED
          BY <1>1, <4>1, <4>3, <5>1
      <4>4. QED
        BY <1>3, <3>5, <4>2, <4>3
    <3>6. Ends(ab, start, n, la + q)
      BY <2>2, <2>6, <3>2, <3>4, <3>5 DEF Ends
    <3>7. SavedRow(row, ab, start) = WrittenRow(row, ab[n], ab[la + q])
      <4> DEFINE end == la + q
      <4>1. Ends(ab, start, n, end) /\ ab \in Seq(Bars)
        BY <1>1, <3>6
      <4> HIDE DEF end
      <4>2. SavedRow(row, ab, start) = WrittenRow(row, ab[n], ab[end])
        BY <4>1, SavedSome
      <4>3. QED
        BY <4>2 DEF end
    <3>8. WrittenRow(inner, b[p], b[q]) = WrittenRow(row, a[n], b[q])
      BY <2>3, <2>5 DEF WrittenRow
    <3>9. QED
      BY <2>4, <2>6, <3>3, <3>4, <3>7, <3>8 DEF ab, inner
  <2>9. QED
    BY <2>7, <2>8
<1>6. QED
  BY <1>4, <1>5

LEMMA SavesInTurn ==
  ASSUME NEW table \in Tables, NEW done \in Dones, NEW more \in Dones
  PROVE  /\ SaveCandles(SaveCandles(table, done), more) = SaveCandles(table, Then(done, more))
         /\ SaveCandles(table, done) \in Tables
         /\ SaveCandles(table, NoneDone) = table
<1>1. ASSUME NEW key \in Keys
      PROVE  /\ SavedRow(SavedRow(table[key], done[key[1]], key[2]), more[key[1]], key[2])
                  = SavedRow(table[key], Then(done, more)[key[1]], key[2])
             /\ SavedRow(table[key], done[key[1]], key[2]) \in Rows \cup {NoBar}
             /\ SavedRow(table[key], NoneDone[key[1]], key[2]) = table[key]
  <2> DEFINE w == key[1]
             s == key[2]
             row == table[key]
             a == done[w]
             b == more[w]
             none == <<>>
  <2>1. w \in Intervals /\ row \in Rows \cup {NoBar}
    BY KeyFacts DEF Tables
  <2>2. /\ a \in Seq(Bars) /\ b \in Seq(Bars)
        /\ \A n \in 1 .. Len(a) : GoodBar(a[n], w)
        /\ \A n \in 1 .. Len(b) : GoodBar(b[n], w)
        /\ Then(done, more)[w] = a \o b
    <3>1. /\ done[w] \in Seq(Bars) /\ more[w] \in Seq(Bars)
          /\ \A n \in 1 .. Len(done[w]) : GoodBar(done[w][n], w)
          /\ \A n \in 1 .. Len(more[w]) : GoodBar(more[w][n], w)
      BY <2>1 DEF Dones
    <3>2. Then(done, more)[w] = done[w] \o more[w]
      BY <2>1, ThenFacts
    <3>3. QED
      BY <3>1, <3>2
  <2>3. NoneDone[w] = none /\ none \in Seq(Bars) /\ Len(none) = 0
    BY <2>1 DEF NoneDone
  <2> HIDE DEF a, b, w, s, row, none
  <2>4. /\ SavedRow(SavedRow(row, a, s), b, s) = SavedRow(row, a \o b, s)
        /\ SavedRow(row, a, s) \in Rows \cup {NoBar}
    BY <2>1, <2>2, SavedInTurn
  <2>5. \A n \in 1 .. Len(none) : none[n].start # s
    BY <2>3
  <2>6. SavedRow(row, none, s) = row
    BY <2>3, <2>5, SavedNone
  <2>7. QED
    BY <2>2, <2>3, <2>4, <2>6 DEF a, b, w, s, row
<1>2. table = [key \in Keys |-> table[key]]
  BY DEF Tables
<1>3. SaveCandles(table, done) = [key \in Keys |-> SavedRow(table[key], done[key[1]], key[2])]
  BY DEF SaveCandles
<1>4. SaveCandles(SaveCandles(table, done), more) =
        [key \in Keys |-> SavedRow(SavedRow(table[key], done[key[1]], key[2]), more[key[1]], key[2])]
  BY <1>3 DEF SaveCandles
<1>5. SaveCandles(table, Then(done, more)) =
        [key \in Keys |-> SavedRow(table[key], Then(done, more)[key[1]], key[2])]
  BY DEF SaveCandles
<1>6. SaveCandles(table, NoneDone) = [key \in Keys |-> SavedRow(table[key], NoneDone[key[1]], key[2])]
  BY DEF SaveCandles
<1>7. SaveCandles(SaveCandles(table, done), more) = SaveCandles(table, Then(done, more))
  BY <1>1, <1>4, <1>5
<1>8. SaveCandles(table, done) \in Tables
  BY <1>1, <1>3 DEF Tables
<1>9. SaveCandles(table, NoneDone) = table
  BY <1>1, <1>2, <1>6
<1>10. QED
  BY <1>7, <1>8, <1>9

LEMMA SavedNothing == \A row, s : SavedRow(row, <<>>, s) = row
<1> DEFINE none == <<>>
<1>1. none \in Seq(Bars) /\ Len(none) = 0
  OBVIOUS
<1> HIDE DEF none
<1>2. ASSUME NEW row, NEW s PROVE SavedRow(row, none, s) = row
  <2>1. DOMAIN none = {}
    BY <1>1, LenProperties
  <2>2. {n \in DOMAIN none : none[n].start = s} = {}
    BY <2>1
  <2>3. QED
    BY <2>2 DEF SavedRow
<1>3. QED
  BY <1>2 DEF none

LEMMA SavedSingle ==
  ASSUME NEW bar \in Bars, NEW row, NEW s
  PROVE  /\ bar.start # s => SavedRow(row, <<bar>>, s) = row
         /\ bar.start = s => SavedRow(NoBar, <<bar>>, s) = RowOf(bar)
<1> DEFINE one == <<bar>>
<1>1. one \in Seq(Bars) /\ Len(one) = 1 /\ one[1] = bar /\ \A n \in 1 .. Len(one) : n = 1
  OBVIOUS
<1> HIDE DEF one
<1>2. ASSUME bar.start # s PROVE SavedRow(row, one, s) = row
  BY <1>1, <1>2, SavedNone
<1>3. ASSUME bar.start = s PROVE SavedRow(NoBar, one, s) = RowOf(bar)
  <2>1. 1 \in 1 .. Len(one)
    BY <1>1
  <2>2. SavedRow(NoBar, one, one[1].start) = RowOf(one[1])
    BY <1>1, <2>1, SavedOne
  <2>3. QED
    BY <1>1, <1>3, <2>2
<1>4. QED
  BY <1>2, <1>3 DEF one

(* The rows of what is open are still to be written.                       *)
Free(e, table) ==
  /\ \A w \in Widths : e.open[w] # NoBar => table[<<w, e.open[w].start>>] = NoBar
  /\ e.open[1] # NoBar =>
       \A w \in Intervals : table[<<w, bucket_start(e.open[1].start, w)>>] = NoBar

(* What the engine knows of its open minute and wider bars.                *)
LEMMA OpenFacts ==
  ASSUME NEW e, NEW at, EngineOK(e, at)
  PROVE  /\ e \in Engines
         /\ \A w \in Intervals : e.open[w] # NoBar =>
              /\ GoodBar(e.open[w], w) /\ Aligned(e.open[w].start, w)
              /\ e.open[w].start \in 0 .. MaxTime /\ e.open[w] \in Bars
         /\ e.open[1] # NoBar =>
              /\ \A w \in Intervals : /\ bucket_start(e.open[1].start, w) \in 0 .. MaxTime
                                      /\ bucket_start(e.open[1].start, w) <= e.open[1].start
                                      /\ e.open[1].start < bucket_start(e.open[1].start, w) + w
                                      /\ Aligned(bucket_start(e.open[1].start, w), w)
                                      /\ e.open[w] # NoBar =>
                                           e.open[w].start <= bucket_start(e.open[1].start, w)
              /\ bucket_start(e.open[1].start, 1) = e.open[1].start
<1>1. e \in Engines
  BY DEF EngineOK
<1>2. ASSUME NEW w \in Intervals, e.open[w] # NoBar
      PROVE  /\ GoodBar(e.open[w], w) /\ Aligned(e.open[w].start, w)
             /\ e.open[w].start \in 0 .. MaxTime /\ e.open[w] \in Bars
  BY <1>2, GoodBarIsHeld DEF EngineOK
<1>3. ASSUME e.open[1] # NoBar, NEW w \in Intervals
      PROVE  /\ bucket_start(e.open[1].start, w) \in 0 .. MaxTime
             /\ bucket_start(e.open[1].start, w) <= e.open[1].start
             /\ e.open[1].start < bucket_start(e.open[1].start, w) + w
             /\ Aligned(bucket_start(e.open[1].start, w), w)
             /\ e.open[w] # NoBar => e.open[w].start <= bucket_start(e.open[1].start, w)
  <2> DEFINE m == e.open[1].start
  <2>1. m \in 0 .. MaxTime /\ MaxTime \in Nat /\ w \in Nat \ {0}
    BY <1>2, <1>3, WidthFacts, ServiceAssumption
  <2>2. e.open[w] # NoBar => e.open[w].start <= bucket_start(m, w)
    BY <1>3, WidthFacts DEF EngineOK
  <2> HIDE DEF m
  <2>3. m \in Nat /\ m <= MaxTime
    BY <2>1
  <2>4. /\ bucket_start(m, w) \in Nat /\ bucket_start(m, w) <= m /\ m < bucket_start(m, w) + w
        /\ Aligned(bucket_start(m, w), w)
    BY <2>1, <2>3, Bucket, BucketAligned
  <2>5. bucket_start(m, w) \in 0 .. MaxTime
    BY <2>1, <2>3, <2>4
  <2>6. QED
    BY <2>2, <2>4, <2>5 DEF m
<1>4. e.open[1] # NoBar => bucket_start(e.open[1].start, 1) = e.open[1].start
  <2>1. e.open[1] # NoBar => e.open[1].start \in Nat
    BY <1>2, WidthFacts
  <2>2. QED
    BY <2>1, MinuteSlots
<1>5. QED
  BY <1>1, <1>2, <1>3, <1>4

LEMMA MinuteSaved ==
  ASSUME NEW e, NEW at, EngineOK(e, at), e.open[1] # NoBar, NEW table \in Tables, Free(e, table)
  PROVE  LET minute == e.open[1]
             saved  == SaveCandles(table, CloseMinute(e).done)
         IN  /\ \A m \in 0 .. MaxTime :
                  saved[<<1, m>>] = IF m = minute.start THEN RowOf(minute) ELSE table[<<1, m>>]
             /\ \A w \in Widths : \A s \in 0 .. MaxTime :
                  saved[<<w, s>>] =
                    IF Passed(e.open[w], minute, w) /\ s = e.open[w].start THEN RowOf(e.open[w])
                    ELSE IF Full(e.open[w], minute, w) /\ s = bucket_start(minute.start, w)
                    THEN RowOf(WithMinute(e.open[w], minute, w))
                    ELSE table[<<w, s>>]
<1> DEFINE minute == e.open[1]
           done == CloseMinute(e).done
           saved == SaveCandles(table, done)
<1>1. \A key \in Keys : saved[key] = SavedRow(table[key], done[key[1]], key[2])
  BY DEF SaveCandles
<1>2. done = [w \in Intervals |->
                IF w = 1 THEN <<minute>> ELSE RollUpDone(e.open[w], minute, w)]
  BY DEF CloseMinute, Step
<1>3. GoodBar(minute, 1) /\ minute \in Bars
  BY OpenFacts, WidthFacts
<1> HIDE DEF saved, done
<1>4. ASSUME NEW w \in Intervals, NEW s \in 0 .. MaxTime
      PROVE  /\ saved[<<w, s>>] = SavedRow(table[<<w, s>>], done[w], s)
             /\ table[<<w, s>>] \in Rows \cup {NoBar}
  <2>1. <<w, s>> \in Keys
    BY KeyFacts
  <2>2. saved[<<w, s>>] = SavedRow(table[<<w, s>>], done[<<w, s>>[1]], <<w, s>>[2])
    BY <1>1, <2>1
  <2>3. QED
    BY <2>1, <2>2 DEF Tables
<1>5. ASSUME NEW m \in 0 .. MaxTime
      PROVE  saved[<<1, m>>] = IF m = minute.start THEN RowOf(minute) ELSE table[<<1, m>>]
  <2>1. saved[<<1, m>>] = SavedRow(table[<<1, m>>], <<minute>>, m)
    BY <1>2, <1>4, WidthFacts
  <2>2. m = minute.start => table[<<1, m>>] = NoBar
    BY OpenFacts, WidthFacts DEF Free
  <2>3. CASE m = minute.start
    BY <1>3, <2>1, <2>2, <2>3, SavedSingle
  <2>4. CASE m # minute.start
    BY <1>3, <2>1, <2>4, SavedSingle
  <2>5. QED
    BY <2>3, <2>4
<1>6. ASSUME NEW w \in Widths, NEW s \in 0 .. MaxTime
      PROVE  saved[<<w, s>>] =
                    IF Passed(e.open[w], minute, w) /\ s = e.open[w].start THEN RowOf(e.open[w])
                    ELSE IF Full(e.open[w], minute, w) /\ s = bucket_start(minute.start, w)
                    THEN RowOf(WithMinute(e.open[w], minute, w))
                    ELSE table[<<w, s>>]
  <2> DEFINE open == e.open[w]
             grown == WithMinute(open, minute, w)
             slot == bucket_start(minute.start, w)
             passed == Passed(open, minute, w)
             full == Full(open, minute, w)
             none == <<>>
             first == IF passed THEN <<open>> ELSE none
             second == IF full THEN <<grown>> ELSE none
             row == table[<<w, s>>]
  <2>1. w \in Intervals /\ w # 1
    BY WidthFacts
  <2>2. open # NoBar => GoodBar(open, w) /\ open \in Bars /\ open.start <= slot
    BY <2>1, OpenFacts
  <2>3. GoodBar(grown, w) /\ grown.start = slot
    BY <1>3, <2>2, GrownBar
  <2>4. grown \in Bars
    BY <2>3 DEF GoodBar
  <2>5. RollUpDone(open, minute, w) = first \o second
    BY <1>3, <2>2, RollUp
  <2>6. saved[<<w, s>>] = SavedRow(row, first \o second, s) /\ row \in Rows \cup {NoBar}
    <3>1. done[w] = RollUpDone(open, minute, w)
      BY <1>2, <2>1
    <3>2. saved[<<w, s>>] = SavedRow(row, done[w], s) /\ row \in Rows \cup {NoBar}
      BY <1>4, <2>1
    <3> HIDE DEF open, first, second, row
    <3>3. QED
      BY <2>5, <3>1, <3>2
  <2>7. passed => open # NoBar /\ open.start < slot
    BY DEF Passed
  <2>8. none \in Seq(Bars) /\ Len(none) = 0
    OBVIOUS
  <2>9. (passed /\ s = open.start => row = NoBar) /\ (s = slot => row = NoBar)
    BY <2>1, <2>7 DEF Free
  <2> HIDE DEF open, grown, slot, passed, full, none, row
  <2>10. /\ first \in Seq(Bars) /\ \A n \in 1 .. Len(first) : GoodBar(first[n], w)
    <3>1. CASE passed
      BY <2>1, <2>2, <2>7, <3>1, OneGoodBar
    <3>2. CASE ~passed
      BY <2>8, <3>2
    <3>3. QED
      BY <3>1, <3>2
  <2>11. /\ second \in Seq(Bars) /\ \A n \in 1 .. Len(second) : GoodBar(second[n], w)
    <3>1. CASE full
      BY <2>1, <2>3, <3>1, OneGoodBar
    <3>2. CASE ~full
      BY <2>8, <3>2
    <3>3. QED
      BY <3>1, <3>2
  <2> HIDE DEF first, second
  <2>12. saved[<<w, s>>] = SavedRow(SavedRow(row, first, s), second, s)
    <3>0. w \in Intervals /\ row \in Rows \cup {NoBar}
      BY <2>1, <2>6
    <3>1. SavedRow(SavedRow(row, first, s), second, s) = SavedRow(row, first \o second, s)
      BY <2>10, <2>11, <3>0, SavedInTurn
    <3>2. QED
      BY <2>6, <3>1
  <2>13. \A r : SavedRow(r, none, s) = r
    BY SavedNothing DEF none
  <2>14. SavedRow(row, first, s) = IF passed /\ s = open.start THEN RowOf(open) ELSE row
    <3>1. CASE passed
      <4>1. first = <<open>> /\ open \in Bars
        BY <2>2, <2>7, <3>1 DEF first
      <4>2. CASE s = open.start
        BY <2>9, <3>1, <4>1, <4>2, SavedSingle
      <4>3. CASE s # open.start
        BY <4>1, <4>3, SavedSingle
      <4>4. QED
        BY <3>1, <4>2, <4>3
    <3>2. CASE ~passed
      BY <2>13, <3>2 DEF first
    <3>3. QED
      BY <3>1, <3>2
  <2>15. open # NoBar => open.start \in Nat
    BY <2>1, <2>2, GoodBarIsHeld
  <2>16. slot \in Nat
    BY <2>1, OpenFacts DEF slot
  <2>17. passed => open.start # slot
    BY <2>7, <2>15, <2>16
  <2>18. CASE full
    <3>1. second = <<grown>>
      BY <2>18 DEF second
    <3>2. CASE s = slot
      <4>1. SavedRow(row, first, s) = NoBar
        BY <2>9, <2>14, <2>17, <3>2
      <4>2. SavedRow(NoBar, second, s) = RowOf(grown)
        BY <2>3, <2>4, <3>1, <3>2, SavedSingle
      <4>3. QED
        BY <2>12, <2>17, <2>18, <3>2, <4>1, <4>2 DEF open, grown, slot, passed, full, row
    <3>3. CASE s # slot
      <4>1. saved[<<w, s>>] = SavedRow(row, first, s)
        BY <2>3, <2>4, <2>12, <3>1, <3>3, SavedSingle
      <4>2. QED
        BY <2>14, <3>3, <4>1 DEF open, grown, slot, passed, full, row
    <3>4. QED
      BY <3>2, <3>3
  <2>19. CASE ~full
    <3>1. saved[<<w, s>>] = SavedRow(row, first, s)
      BY <2>12, <2>13, <2>19 DEF second
    <3>2. QED
      BY <2>14, <2>19, <3>1 DEF open, grown, slot, passed, full, row
  <2>20. QED
    BY <2>18, <2>19
<1>7. QED
  BY <1>5, <1>6 DEF saved, done

DueOpen(e, due) == due \subseteq Widths /\ \A w \in due : e.open[w] # NoBar
SavesDue(e, due, table, saved) ==
  \A w \in Intervals : \A s \in 0 .. MaxTime :
    saved[<<w, s>>] =
      IF w \in due /\ s = e.open[w].start THEN RowOf(e.open[w]) ELSE table[<<w, s>>]

LEMMA DueSaved ==
  ASSUME NEW e, NEW at, EngineOK(e, at), NEW table \in Tables, Free(e, table),
         NEW due, DueOpen(e, due)
  PROVE  SavesDue(e, due, table, SaveCandles(table, CloseDue(e, due).done))
<1> DEFINE done == CloseDue(e, due).done
           saved == SaveCandles(table, done)
<1>1. \A key \in Keys : saved[key] = SavedRow(table[key], done[key[1]], key[2])
  BY DEF SaveCandles
<1>2. done = [w \in Intervals |-> IF w \in due THEN <<e.open[w]>> ELSE <<>>]
  BY DEF CloseDue, Step
<1> HIDE DEF saved, done
<1>3. ASSUME NEW w \in Intervals, NEW s \in 0 .. MaxTime
      PROVE  saved[<<w, s>>] =
                IF w \in due /\ s = e.open[w].start THEN RowOf(e.open[w]) ELSE table[<<w, s>>]
  <2> DEFINE row == table[<<w, s>>]
             none == <<>>
  <2>1. <<w, s>> \in Keys
    BY KeyFacts
  <2>2. saved[<<w, s>>] = SavedRow(row, done[w], s)
    <3>1. saved[<<w, s>>] = SavedRow(table[<<w, s>>], done[<<w, s>>[1]], <<w, s>>[2])
      BY <1>1, <2>1
    <3>2. QED
      BY <3>1
  <2>3. none \in Seq(Bars) /\ Len(none) = 0 /\ (w \notin due => done[w] = none)
    BY <1>2
  <2> HIDE DEF row, none
  <2>4. CASE w \in due
    <3>1. done[w] = <<e.open[w]>> /\ e.open[w] \in Bars
      BY <1>2, <2>4, OpenFacts DEF DueOpen
    <3>2. CASE s = e.open[w].start
      <4>1. row = NoBar
        BY <2>4, <3>2 DEF Free, DueOpen, row
      <4>2. QED
        BY <2>2, <2>4, <3>1, <3>2, <4>1, SavedSingle
    <3>3. CASE s # e.open[w].start
      <4>1. SavedRow(row, done[w], s) = row
        BY <3>1, <3>3, SavedSingle
      <4>2. QED
        BY <2>2, <3>3, <4>1 DEF row
    <3>4. QED
      BY <3>2, <3>3
  <2>5. CASE w \notin due
    <3>1. SavedRow(row, none, s) = row
      BY SavedNothing DEF none
    <3>2. QED
      BY <2>2, <2>3, <2>5, <3>1 DEF row
  <2>6. QED
    BY <2>4, <2>5
<1>4. QED
  BY <1>3 DEF SavesDue, saved, done

-----------------------------------------------------------------------------
(* A step of the engine, and the table once what it completed is saved.    *)
Extends(table, more) == \A key \in Keys : table[key] # NoBar => more[key] = table[key]

Elapsed(table, moment) ==
  \A w \in Intervals : \A s \in 0 .. MaxTime : table[<<w, s>>] # NoBar => s + w <= moment

AllAligned(table) ==
  \A w \in Intervals : \A s \in 0 .. MaxTime : table[<<w, s>>] # NoBar => Aligned(s, w)

TableOK(e, table) == table \in Tables /\ AllAligned(table) /\ Free(e, table)

LEMMA MinuteTabled ==
  ASSUME NEW e, NEW at, EngineOK(e, at), e.open[1] # NoBar, NEW table, TableOK(e, table),
         NEW moment \in Nat
  PROVE  LET step  == CloseMinute(e)
             saved == SaveCandles(table, step.done)
         IN  /\ TableOK(step.engine, saved) /\ Extends(table, saved)
             /\ Elapsed(table, moment) /\ EndAt(e.open[1]) <= moment => Elapsed(saved, moment)
<1> DEFINE minute == e.open[1]
           step   == CloseMinute(e)
           e2     == step.engine
           saved  == SaveCandles(table, step.done)
           slot(w) == bucket_start(minute.start, w)
           grown(w) == WithMinute(e.open[w], minute, w)
<1>1. table \in Tables /\ AllAligned(table) /\ Free(e, table)
  BY DEF TableOK
<1>2. /\ \A m \in 0 .. MaxTime :
           saved[<<1, m>>] = IF m = minute.start THEN RowOf(minute) ELSE table[<<1, m>>]
      /\ \A w \in Widths : \A s \in 0 .. MaxTime :
           saved[<<w, s>>] =
             IF Passed(e.open[w], minute, w) /\ s = e.open[w].start THEN RowOf(e.open[w])
             ELSE IF Full(e.open[w], minute, w) /\ s = slot(w) THEN RowOf(grown(w))
             ELSE table[<<w, s>>]
  BY <1>1, MinuteSaved
<1>3. saved \in Tables
  <2>1. step.done \in Dones
    BY CloseMinuteCloses DEF Closes
  <2>2. QED
    BY <1>1, <2>1, SavesInTurn
<1>4. /\ e2.open[1] = NoBar
      /\ \A w \in Widths : e2.open[w] = RolledUp(e.open[w], minute, w)
  <2>1. e \in Engines
    BY OpenFacts
  <2>2. e2 = [e EXCEPT !.open = [w \in Intervals |->
                       IF w = 1 THEN NoBar ELSE RolledUp(e.open[w], minute, w)]]
    BY DEF CloseMinute, Step
  <2>3. e2.open = [w \in Intervals |-> IF w = 1 THEN NoBar ELSE RolledUp(e.open[w], minute, w)]
    BY <2>1, <2>2 DEF Engines
  <2>4. QED
    BY <2>3, WidthFacts
<1>5. GoodBar(minute, 1) /\ minute.start \in 0 .. MaxTime /\ EndAt(minute) = minute.start + 1
      /\ slot(1) = minute.start /\ Aligned(minute.start, 1)
  BY OpenFacts, WidthFacts, GoodBarIsHeld
<1>6. ASSUME NEW w \in Widths
      PROVE  /\ w \in Intervals /\ w \in Nat \ {0} /\ w # 1
             /\ slot(w) \in 0 .. MaxTime /\ slot(w) <= minute.start /\ Aligned(slot(w), w)
             /\ e.open[w] # NoBar => /\ GoodBar(e.open[w], w) /\ e.open[w].start \in 0 .. MaxTime
                                     /\ Aligned(e.open[w].start, w)
                                     /\ e.open[w].start <= slot(w)
  BY OpenFacts, WidthFacts
<1>7. ASSUME NEW w \in Widths
      PROVE  /\ RolledUp(e.open[w], minute, w) =
                  IF Full(e.open[w], minute, w) THEN NoBar ELSE grown(w)
             /\ GoodBar(grown(w), w) /\ grown(w).start = slot(w)
             /\ Full(e.open[w], minute, w) => slot(w) + w <= minute.start + 1
             /\ Passed(e.open[w], minute, w) =>
                  e.open[w] # NoBar /\ e.open[w].start < slot(w)
  <2>1. e.open[w] # NoBar => GoodBar(e.open[w], w) /\ e.open[w].start <= slot(w)
    BY <1>6
  <2>2. GoodBar(grown(w), w) /\ grown(w).start = slot(w)
    BY <1>5, <2>1, GrownBar
  <2>3. EndAt(grown(w)) = slot(w) + w
    BY <1>6, <2>2, GoodBarIsHeld
  <2>4. Full(e.open[w], minute, w) => slot(w) + w <= minute.start + 1
    BY <1>5, <2>3 DEF Full, LastMinuteOf
  <2>5. QED
    BY <1>5, <2>1, <2>2, <2>4, RollUp DEF Passed
<1> HIDE DEF minute, step, e2, saved, slot, grown
<1>8. ASSUME NEW w \in Intervals, NEW s \in 0 .. MaxTime
      PROVE  /\ table[<<w, s>>] # NoBar => saved[<<w, s>>] = table[<<w, s>>]
             /\ saved[<<w, s>>] # NoBar =>
                  \/ saved[<<w, s>>] = table[<<w, s>>]
                  \/ w = 1 /\ s = minute.start
                  \/ /\ w \in Widths /\ s = e.open[w].start
                     /\ Passed(e.open[w], minute, w)
                  \/ /\ w \in Widths /\ s = slot(w)
                     /\ Full(e.open[w], minute, w)
  <2>1. table[<<w, slot(w)>>] = NoBar
    BY <1>1 DEF Free, slot, minute
  <2>2. CASE w = 1
    BY <1>2, <1>5, <2>1, <2>2
  <2>3. CASE w \in Widths
    <3>1. e.open[w] # NoBar => table[<<w, e.open[w].start>>] = NoBar
      BY <1>1, <2>3 DEF Free
    <3>2. Passed(e.open[w], minute, w) => e.open[w] # NoBar
      BY DEF Passed
    <3>3. QED
      BY <1>2, <2>1, <2>3, <3>1, <3>2
  <2>4. QED
    BY <2>2, <2>3, WidthFacts
<1>9. Extends(table, saved)
  <2>1. ASSUME NEW key \in Keys, table[key] # NoBar PROVE saved[key] = table[key]
    <3>1. key = <<key[1], key[2]>> /\ key[1] \in Intervals /\ key[2] \in 0 .. MaxTime
      BY KeyFacts
    <3>2. QED
      BY <1>8, <2>1, <3>1
  <2>2. QED
    BY <2>1 DEF Extends
<1>10. AllAligned(saved)
  <2>1. ASSUME NEW w \in Intervals, NEW s \in 0 .. MaxTime, saved[<<w, s>>] # NoBar
        PROVE  Aligned(s, w)
    <3>1. CASE saved[<<w, s>>] = table[<<w, s>>]
      BY <1>1, <2>1, <3>1 DEF AllAligned
    <3>2. CASE w = 1 /\ s = minute.start
      BY <1>5, <3>2
    <3>3. CASE w \in Widths /\ s = e.open[w].start /\ Passed(e.open[w], minute, w)
      BY <1>6, <1>7, <3>3
    <3>4. CASE w \in Widths /\ s = slot(w) /\ Full(e.open[w], minute, w)
      BY <1>6, <3>4
    <3>5. QED
      BY <1>8, <2>1, <3>1, <3>2, <3>3, <3>4
  <2>2. QED
    BY <2>1 DEF AllAligned
<1>11. Free(e2, saved)
  <2>1. ASSUME NEW w \in Widths, e2.open[w] # NoBar
        PROVE  saved[<<w, e2.open[w].start>>] = NoBar
    <3>1. ~Full(e.open[w], minute, w) /\ e2.open[w] = grown(w) /\ e2.open[w].start = slot(w)
      BY <1>4, <1>7, <2>1
    <3>2. Passed(e.open[w], minute, w) => slot(w) # e.open[w].start
      <4>1. slot(w) \in Nat /\ (e.open[w] # NoBar => e.open[w].start \in Nat)
        BY <1>6
      <4>2. QED
        BY <1>7, <4>1
    <3>3. saved[<<w, slot(w)>>] = table[<<w, slot(w)>>]
      BY <1>2, <1>6, <3>1, <3>2
    <3>4. table[<<w, slot(w)>>] = NoBar
      BY <1>1, <1>6 DEF Free, slot, minute
    <3>5. QED
      BY <3>1, <3>3, <3>4
  <2>2. QED
    BY <1>4, <2>1 DEF Free
<1>12. ASSUME Elapsed(table, moment), EndAt(minute) <= moment PROVE Elapsed(saved, moment)
  <2>1. ASSUME NEW w \in Intervals, NEW s \in 0 .. MaxTime, saved[<<w, s>>] # NoBar
        PROVE  s + w <= moment
    <3>1. CASE saved[<<w, s>>] = table[<<w, s>>]
      BY <1>12, <2>1, <3>1 DEF Elapsed
    <3>2. CASE w = 1 /\ s = minute.start
      BY <1>5, <1>12, <3>2
    <3>3. CASE w \in Widths /\ s = e.open[w].start /\ Passed(e.open[w], minute, w)
      <4>1. /\ e.open[w] # NoBar /\ s \in Nat /\ slot(w) \in Nat /\ Aligned(s, w)
            /\ Aligned(slot(w), w) /\ s < slot(w) /\ w \in Nat \ {0}
        BY <1>6, <1>7, <3>3
      <4>2. s + w <= slot(w)
        BY <4>1, NextSlot
      <4>3. slot(w) <= minute.start /\ minute.start \in Nat /\ minute.start + 1 <= moment
        BY <1>5, <1>6, <1>12, <3>3
      <4>4. QED
        BY <4>1, <4>2, <4>3
    <3>4. CASE w \in Widths /\ s = slot(w) /\ Full(e.open[w], minute, w)
      <4>1. s + w <= minute.start + 1 /\ minute.start + 1 <= moment
        BY <1>5, <1>7, <1>12, <3>4
      <4>2. s \in Nat /\ w \in Nat /\ minute.start \in Nat
        BY <1>5, <1>6, <3>4
      <4>3. QED
        BY <4>1, <4>2
    <3>5. QED
      BY <1>8, <2>1, <3>1, <3>2, <3>3, <3>4
  <2>2. QED
    BY <2>1 DEF Elapsed
<1>13. QED
  BY <1>3, <1>9, <1>10, <1>11, <1>12 DEF TableOK, minute, step, e2, saved

LEMMA DueTabled ==
  ASSUME NEW e, NEW at, EngineOK(e, at), NEW table, TableOK(e, table), NEW moment \in Nat,
         NEW due, due \subseteq Widths, \A w \in due : e.open[w] # NoBar,
         e.open[1] # NoBar =>
           \A w \in due : e.open[w].start # bucket_start(e.open[1].start, w)
  PROVE  LET step  == CloseDue(e, due)
             saved == SaveCandles(table, step.done)
         IN  /\ TableOK(step.engine, saved) /\ Extends(table, saved)
             /\ Elapsed(table, moment) /\ (\A w \in due : EndAt(e.open[w]) <= moment)
                  => Elapsed(saved, moment)
<1> DEFINE step   == CloseDue(e, due)
           e2     == step.engine
           saved  == SaveCandles(table, step.done)
<1>1. table \in Tables /\ AllAligned(table) /\ Free(e, table)
  BY DEF TableOK
<1>2. \A w \in Intervals : \A s \in 0 .. MaxTime :
        saved[<<w, s>>] =
          IF w \in due /\ s = e.open[w].start THEN RowOf(e.open[w]) ELSE table[<<w, s>>]
  <2>1. table \in Tables /\ Free(e, table)
    BY <1>1
  <2>2. DueOpen(e, due)
    BY DEF DueOpen
  <2>3. SavesDue(e, due, table, saved)
    BY <2>1, <2>2, DueSaved
  <2> HIDE DEF saved, step
  <2>4. QED
    BY <2>3 DEF SavesDue
<1>3. saved \in Tables
  <2>1. step.done \in Dones
    BY CloseDueCloses DEF Closes
  <2>2. QED
    BY <1>1, <2>1, SavesInTurn
<1>4. \A w \in Intervals : e2.open[w] = IF w \in due THEN NoBar ELSE e.open[w]
  <2>1. e \in Engines
    BY OpenFacts
  <2>2. e2 = [e EXCEPT !.open = [w \in Intervals |-> IF w \in due THEN NoBar ELSE e.open[w]]]
    BY DEF CloseDue, Step
  <2>3. e2.open = [w \in Intervals |-> IF w \in due THEN NoBar ELSE e.open[w]]
    BY <2>1, <2>2 DEF Engines
  <2>4. QED
    BY <2>3
<1>5. ASSUME NEW w \in due
      PROVE  /\ w \in Widths /\ w \in Intervals /\ e.open[w].start \in 0 .. MaxTime
             /\ Aligned(e.open[w].start, w) /\ EndAt(e.open[w]) = e.open[w].start + w
             /\ table[<<w, e.open[w].start>>] = NoBar
  BY <1>1, OpenFacts, WidthFacts, GoodBarIsHeld DEF Free
<1> HIDE DEF step, e2, saved
<1>6. Extends(table, saved)
  <2>1. ASSUME NEW key \in Keys, table[key] # NoBar PROVE saved[key] = table[key]
    <3>1. key = <<key[1], key[2]>> /\ key[1] \in Intervals /\ key[2] \in 0 .. MaxTime
      BY KeyFacts
    <3>2. ~(key[1] \in due /\ key[2] = e.open[key[1]].start)
      BY <1>5, <2>1, <3>1
    <3>3. QED
      BY <1>2, <3>1, <3>2
  <2>2. QED
    BY <2>1 DEF Extends
<1>7. AllAligned(saved)
  <2>1. ASSUME NEW w \in Intervals, NEW s \in 0 .. MaxTime, saved[<<w, s>>] # NoBar
        PROVE  Aligned(s, w)
    <3>1. CASE w \in due /\ s = e.open[w].start
      BY <1>5, <3>1
    <3>2. CASE ~(w \in due /\ s = e.open[w].start)
      BY <1>1, <1>2, <2>1, <3>2 DEF AllAligned
    <3>3. QED
      BY <3>1, <3>2
  <2>2. QED
    BY <2>1 DEF AllAligned
<1>8. Free(e2, saved)
  <2>1. ASSUME NEW w \in Widths, e2.open[w] # NoBar
        PROVE  saved[<<w, e2.open[w].start>>] = NoBar
    <3>1. w \in Intervals /\ w \notin due /\ e2.open[w] = e.open[w]
      BY <1>4, <2>1, WidthFacts
    <3>2. e.open[w].start \in 0 .. MaxTime /\ table[<<w, e.open[w].start>>] = NoBar
      BY <1>1, <2>1, <3>1, OpenFacts DEF Free
    <3>3. QED
      BY <1>2, <3>1, <3>2
  <2>2. ASSUME e2.open[1] # NoBar, NEW w \in Intervals
        PROVE  saved[<<w, bucket_start(e2.open[1].start, w)>>] = NoBar
    <3>1. e2.open[1] = e.open[1] /\ e.open[1] # NoBar
      BY <1>4, <2>2, WidthFacts
    <3>2. /\ bucket_start(e.open[1].start, w) \in 0 .. MaxTime
          /\ table[<<w, bucket_start(e.open[1].start, w)>>] = NoBar
      BY <1>1, <3>1, OpenFacts DEF Free
    <3>3. w \in due => e.open[w].start # bucket_start(e.open[1].start, w)
      BY <3>1
    <3>4. QED
      BY <1>2, <3>1, <3>2, <3>3
  <2>3. QED
    BY <2>1, <2>2 DEF Free
<1>9. ASSUME Elapsed(table, moment), \A w \in due : EndAt(e.open[w]) <= moment
      PROVE  Elapsed(saved, moment)
  <2>1. ASSUME NEW w \in Intervals, NEW s \in 0 .. MaxTime, saved[<<w, s>>] # NoBar
        PROVE  s + w <= moment
    <3>1. CASE w \in due /\ s = e.open[w].start
      BY <1>5, <1>9, <3>1
    <3>2. CASE ~(w \in due /\ s = e.open[w].start)
      BY <1>2, <1>9, <2>1, <3>2 DEF Elapsed
    <3>3. QED
      BY <3>1, <3>2
  <2>2. QED
    BY <2>1 DEF Elapsed
<1>10. QED
  BY <1>3, <1>6, <1>7, <1>8, <1>9 DEF TableOK, step, e2, saved

-----------------------------------------------------------------------------
(* Rows that hold nothing add nothing.                                     *)
LEMMA UptoType ==
  ASSUME NEW bars \in Seq(Held), NEW k \in Nat, k = Len(bars), NEW f, NEW g,
         TicksUpto(bars, k, f), VolumeUpto(bars, k, g)
  PROVE  \A n \in 0 .. k : f[n] \in Seq(Ticks) /\ g[n] \in Nat
<1> DEFINE S == {n \in Nat : n <= k => f[n] \in Seq(Ticks) /\ g[n] \in Nat}
<1>1. 0 \in S
  <2> DEFINE none == <<>>
  <2>1. f[0] = none /\ g[0] = 0
    BY DEF TicksUpto, VolumeUpto
  <2>2. none \in Seq(Ticks)
    OBVIOUS
  <2> HIDE DEF none
  <2>3. QED
    BY <2>1, <2>2
<1>2. ASSUME NEW n \in Nat, n \in S PROVE n + 1 \in S
  <2> SUFFICES ASSUME n + 1 <= k PROVE f[n + 1] \in Seq(Ticks) /\ g[n + 1] \in Nat
    OBVIOUS
  <2>1. f[n + 1] = Joined(f[n], bars[n + 1]) /\ g[n + 1] = g[n] + VolumeIn(bars[n + 1])
    BY DEF TicksUpto, VolumeUpto
  <2>2. f[n] \in Seq(Ticks) /\ g[n] \in Nat
    BY <1>2
  <2>3. bars[n + 1] \in Held
    BY ElementOfSeq
  <2>4. TicksIn(bars[n + 1]) \in Seq(Ticks) /\ VolumeIn(bars[n + 1]) \in Nat
    BY <2>3, HeldType
  <2>5. Joined(f[n], bars[n + 1]) \in Seq(Ticks)
    BY <2>2, <2>4, ConcatProperties DEF Joined
  <2>6. QED
    BY <2>1, <2>2, <2>4, <2>5
<1> HIDE DEF S
<1>3. Nat \subseteq S
  BY <1>1, <1>2, Induction
<1>4. QED
  BY <1>3 DEF S

LEMMA UptoTail ==
  ASSUME NEW bars \in Seq(Held), NEW k \in Nat, k = Len(bars), NEW f, NEW g,
         TicksUpto(bars, k, f), VolumeUpto(bars, k, g),
         NEW from \in 0 .. k, \A n \in from + 1 .. k : bars[n] = NoBar
  PROVE  f[k] = f[from] /\ g[k] = g[from]
<1> DEFINE S == {d \in Nat : from + d <= k => f[from + d] = f[from] /\ g[from + d] = g[from]}
<1>0. \A n \in 0 .. k : f[n] \in Seq(Ticks) /\ g[n] \in Nat
  BY UptoType
<1>1. 0 \in S
  OBVIOUS
<1>2. ASSUME NEW d \in Nat, d \in S PROVE d + 1 \in S
  <2> SUFFICES ASSUME from + (d + 1) <= k
               PROVE  f[from + (d + 1)] = f[from] /\ g[from + (d + 1)] = g[from]
    OBVIOUS
  <2> DEFINE n == from + d
  <2>1. n \in Nat /\ n + 1 <= k /\ from + (d + 1) = n + 1 /\ n \in 0 .. k
        /\ n + 1 \in from + 1 .. k /\ n + 1 \in 0 .. k
    OBVIOUS
  <2>2. f[n] = f[from] /\ g[n] = g[from]
    BY <1>2, <2>1
  <2> HIDE DEF n
  <2>3. f[n + 1] = Joined(f[n], bars[n + 1]) /\ g[n + 1] = g[n] + VolumeIn(bars[n + 1])
    BY <2>1 DEF TicksUpto, VolumeUpto
  <2>4. bars[n + 1] = NoBar
    BY <2>1
  <2>5. f[n] \o <<>> = f[n] /\ g[n] + 0 = g[n]
    BY <1>0, <2>1, ConcatEmptySeq
  <2>6. TicksIn(NoBar) = <<>> /\ VolumeIn(NoBar) = 0
    BY DEF TicksIn, VolumeIn
  <2>7. QED
    BY <2>1, <2>2, <2>3, <2>4, <2>5, <2>6 DEF Joined
<1> HIDE DEF S
<1>3. k - from \in Nat /\ from + (k - from) = k
  OBVIOUS
<1>4. k - from \in S
  BY <1>1, <1>2, <1>3, Induction
<1>5. QED
  BY <1>3, <1>4 DEF S

LEMMA NothingHeld ==
  ASSUME NEW bars \in Seq(Held), \A n \in 1 .. Len(bars) : bars[n] = NoBar
  PROVE  TicksOf(bars) = <<>> /\ VolumeOf(bars) = 0
<1> DEFINE k == Len(bars)
<1>1. k \in Nat
  BY LenProperties
<1>2. PICK f : TicksUpto(bars, k, f) /\ TicksOf(bars) = f[k]
  BY <1>1, OfUpto
<1>3. PICK g : VolumeUpto(bars, k, g) /\ VolumeOf(bars) = g[k]
  BY <1>1, OfUpto
<1>4. \A n \in 0 + 1 .. k : bars[n] = NoBar
  OBVIOUS
<1>5. 0 \in 0 .. k
  BY <1>1
<1>6. f[k] = f[0] /\ g[k] = g[0]
  BY <1>1, <1>2, <1>3, <1>4, <1>5, UptoTail
<1>7. f[0] = <<>> /\ g[0] = 0
  BY <1>1, <1>2, <1>3 DEF TicksUpto, VolumeUpto
<1>8. QED
  BY <1>2, <1>3, <1>6, <1>7

LEMMA LastHeld ==
  ASSUME NEW bars \in Seq(Held), NEW more \in Seq(Held), Len(more) = Len(bars),
         NEW k \in 1 .. Len(bars), bars[k] = NoBar,
         \A n \in 1 .. Len(bars) : n < k => more[n] = bars[n],
         \A n \in 1 .. Len(bars) : n > k => more[n] = NoBar /\ bars[n] = NoBar
  PROVE  /\ TicksOf(more) = TicksOf(bars) \o TicksIn(more[k])
         /\ VolumeOf(more) = VolumeOf(bars) + VolumeIn(more[k])
<1> DEFINE l == Len(bars)
           p == k - 1
<1>1. /\ l \in Nat /\ l = Len(more) /\ l = Len(bars) /\ p \in Nat /\ p <= l
      /\ k \in Nat /\ k <= l /\ p \in 0 .. l /\ k \in 0 .. l /\ k \in 1 .. l
      /\ p + 1 = k /\ p = k - 1
  BY LenProperties
<1> HIDE DEF l, p
<1>2. ASSUME NEW n \in p + 1 .. l PROVE bars[n] = NoBar
  <2>1. n \in 1 .. Len(bars) /\ (n > k \/ n = k)
    BY <1>1
  <2>2. QED
    BY <2>1
<1>3. ASSUME NEW n \in k + 1 .. l PROVE more[n] = NoBar
  <2>1. n \in 1 .. Len(bars) /\ n > k
    BY <1>1
  <2>2. QED
    BY <2>1
<1>4. ASSUME NEW n \in 1 .. p PROVE bars[n] = more[n]
  <2>1. n \in 1 .. Len(bars) /\ n < k
    BY <1>1
  <2>2. QED
    BY <2>1
<1>5. PICK f : TicksUpto(bars, l, f) /\ TicksOf(bars) = f[l]
  BY <1>1, OfUpto
<1>6. PICK g : VolumeUpto(bars, l, g) /\ VolumeOf(bars) = g[l]
  BY <1>1, OfUpto
<1>7. PICK f2 : TicksUpto(more, l, f2) /\ TicksOf(more) = f2[l]
  BY <1>1, OfUpto
<1>8. PICK g2 : VolumeUpto(more, l, g2) /\ VolumeOf(more) = g2[l]
  BY <1>1, OfUpto
<1>9. f[l] = f[p] /\ g[l] = g[p]
  BY <1>1, <1>2, <1>5, <1>6, UptoTail
<1>10. f2[l] = f2[k] /\ g2[l] = g2[k]
  <2>1. l = Len(more) /\ k \in 0 .. l /\ l \in Nat
    BY <1>1
  <2>2. QED
    BY <2>1, <1>3, <1>7, <1>8, UptoTail
<1>11. f2[k] = Joined(f2[p], more[k]) /\ g2[k] = g2[p] + VolumeIn(more[k])
  BY <1>1, <1>7, <1>8, UptoStep
<1>12. f2[p] = f[p] /\ g2[p] = g[p]
  <2>1. l \in Nat /\ p \in Nat /\ p <= l /\ SameUpto(bars, more, p)
    BY <1>1, <1>4 DEF SameUpto
  <2>2. f[p] = f2[p]
    BY <2>1, <1>5, <1>7, TicksUnique
  <2>3. g[p] = g2[p]
    BY <2>1, <1>6, <1>8, VolumeUnique
  <2>4. QED
    BY <2>2, <2>3
<1>13. QED
  BY <1>5, <1>6, <1>7, <1>8, <1>9, <1>10, <1>11, <1>12 DEF Joined

-----------------------------------------------------------------------------
(* A wide row, or what is open of it, and the stored minutes of its slot.  *)
MinuteIn(table, m) == IF m <= MaxTime THEN table[<<1, m>>] ELSE NoBar
MinutesIn(table, start, w) == [n \in 1 .. w |-> MinuteIn(table, start + n - 1)]
FirstIs(open, minutes, w) ==
  \E n \in 1 .. w : /\ minutes[n] # NoBar /\ open = minutes[n].open
                    /\ \A k \in 1 .. n - 1 : minutes[k] = NoBar
SumOf(row, minutes, w) ==
  /\ row.ticks = TicksOf(minutes)
  /\ row.volume = VolumeOf(minutes)
  /\ FirstIs(row.open, minutes, w)

StoredAgree(table) ==
  \A w \in Widths : \A s \in 0 .. MaxTime :
    table[<<w, s>>] # NoBar => SumOf(table[<<w, s>>], MinutesIn(table, s, w), w)
OpenAgree(e, table) ==
  \A w \in Widths : e.open[w] # NoBar =>
    SumOf(RowOf(e.open[w]), MinutesIn(table, e.open[w].start, w), w)
Covers(e, table, m, w) ==
  \/ table[<<w, bucket_start(m, w)>>] # NoBar
  \/ e.open[w] # NoBar /\ e.open[w].start = bucket_start(m, w)
MinutesCovered(e, table) ==
  \A m \in 0 .. MaxTime : table[<<1, m>>] # NoBar => \A w \in Widths : Covers(e, table, m, w)
NothingLater(e, table) ==
  e.open[1] # NoBar => \A m \in e.open[1].start .. MaxTime : table[<<1, m>>] = NoBar

Agree(e, table) ==
  /\ StoredAgree(table) /\ OpenAgree(e, table)
  /\ MinutesCovered(e, table) /\ NothingLater(e, table)

LEMMA MinutesFacts ==
  ASSUME NEW table \in Tables, NEW start \in Nat, NEW w \in Nat \ {0}
  PROVE  /\ MinutesIn(table, start, w) \in Seq(Held) /\ Len(MinutesIn(table, start, w)) = w
         /\ \A n \in 1 .. w : /\ start + n - 1 \in Nat
                              /\ MinutesIn(table, start, w)[n] = MinuteIn(table, start + n - 1)
<1>1. ASSUME NEW m \in Nat PROVE MinuteIn(table, m) \in Held
  <2>1. m <= MaxTime => <<1, m>> \in Keys
    BY KeyFacts, WidthFacts, ServiceAssumption
  <2>2. QED
    BY <2>1 DEF MinuteIn, Held, Tables
<1>2. \A n \in 1 .. w : start + n - 1 \in Nat
  OBVIOUS
<1>3. MinutesIn(table, start, w) = [n \in 1 .. w |-> MinuteIn(table, start + n - 1)]
  BY DEF MinutesIn
<1>4. MinutesIn(table, start, w) \in [1 .. w -> Held]
  BY <1>1, <1>2, <1>3
<1>5. MinutesIn(table, start, w) \in Seq(Held) /\ Len(MinutesIn(table, start, w)) = w
  BY <1>4
<1>6. QED
  BY <1>2, <1>3, <1>5

LEMMA MinutesKept ==
  ASSUME NEW table, NEW saved, NEW start \in Nat, NEW w \in Nat \ {0},
         \A n \in 1 .. w : MinuteIn(saved, start + n - 1) = MinuteIn(table, start + n - 1)
  PROVE  MinutesIn(saved, start, w) = MinutesIn(table, start, w)
BY DEF MinutesIn

(* Storing one minute changes the minutes of its own slot only.            *)
StoresMinute(table, saved, minute) ==
  \A m \in 0 .. MaxTime :
    saved[<<1, m>>] = IF m = minute.start THEN RowOf(minute) ELSE table[<<1, m>>]

LEMMA OtherSlotsKept ==
  ASSUME NEW table, NEW saved, NEW minute, StoresMinute(table, saved, minute),
         minute.start \in Nat, NEW start \in Nat, NEW w \in Nat \ {0}, Aligned(start, w),
         start # bucket_start(minute.start, w)
  PROVE  MinutesIn(saved, start, w) = MinutesIn(table, start, w)
<1>1. ASSUME NEW n \in 1 .. w
      PROVE  MinuteIn(saved, start + n - 1) = MinuteIn(table, start + n - 1)
  <2> DEFINE m == start + n - 1
             k == minute.start
  <2>1. m \in Nat /\ start <= m /\ m < start + w /\ k \in Nat /\ MaxTime \in Nat
    BY ServiceAssumption
  <2>2. bucket_start(start, w) = start
    BY DEF Aligned
  <2>3. bucket_start(m, w) = start
    <3> HIDE DEF m
    <3>1. QED
      BY <2>1, <2>2, SameSlot
  <2> HIDE DEF m
  <2>4. m # k
    BY <2>3 DEF k
  <2>5. m <= MaxTime => saved[<<1, m>>] = table[<<1, m>>]
    BY <2>1, <2>4 DEF StoresMinute, k
  <2>6. QED
    BY <2>5 DEF MinuteIn, m
<1>2. QED
  BY <1>1, MinutesKept

(* What the minute makes of the bar of its slot is the sum of the slot.    *)
LEMMA GrownAgrees ==
  ASSUME NEW e, NEW at, EngineOK(e, at), e.open[1] # NoBar, NEW table, TableOK(e, table),
         Agree(e, table), NEW saved \in Tables, StoresMinute(table, saved, e.open[1]),
         NEW w \in Widths
  PROVE  LET slot == bucket_start(e.open[1].start, w)
         IN  SumOf(RowOf(WithMinute(e.open[w], e.open[1], w)), MinutesIn(saved, slot, w), w)
<1> DEFINE minute == e.open[1]
           open   == e.open[w]
           slot   == bucket_start(minute.start, w)
           grown  == WithMinute(open, minute, w)
           bars   == MinutesIn(table, slot, w)
           more   == MinutesIn(saved, slot, w)
           k      == minute.start - slot + 1
           fresh  == open = NoBar \/ SlotPassed(open, slot)
<1>1. /\ table \in Tables /\ Free(e, table) /\ StoredAgree(table) /\ OpenAgree(e, table)
      /\ MinutesCovered(e, table) /\ NothingLater(e, table)
  BY DEF TableOK, Agree
<1>2. /\ w \in Intervals /\ w \in Nat \ {0} /\ w # 1 /\ MaxTime \in Nat
      /\ GoodBar(minute, 1) /\ minute.start \in 0 .. MaxTime
      /\ slot \in 0 .. MaxTime /\ slot <= minute.start /\ minute.start < slot + w
      /\ open # NoBar => GoodBar(open, w) /\ open.start <= slot /\ open.start \in 0 .. MaxTime
  BY OpenFacts, WidthFacts, ServiceAssumption
<1>3. /\ GoodBar(grown, w) /\ grown.start = slot
      /\ grown.ticks = IF fresh THEN minute.ticks ELSE open.ticks \o minute.ticks
      /\ grown.volume = IF fresh THEN minute.volume ELSE open.volume + minute.volume
  BY <1>2, GrownBar
<1>4. /\ RowOf(minute) # NoBar /\ TicksIn(RowOf(minute)) = minute.ticks
      /\ VolumeIn(RowOf(minute)) = minute.volume
      /\ minute.ticks \in Seq(Ticks) /\ minute.volume \in Nat
      /\ minute.ticks # <<>>
  <2>1. 1 \in Intervals
    BY WidthFacts
  <2>2. QED
    BY <1>2, <2>1, RowFacts, GoodBarIsHeld DEF GoodBar
<1>5. /\ bars \in Seq(Held) /\ Len(bars) = w /\ more \in Seq(Held) /\ Len(more) = w
      /\ \A n \in 1 .. w : /\ slot + n - 1 \in Nat
                           /\ bars[n] = MinuteIn(table, slot + n - 1)
                           /\ more[n] = MinuteIn(saved, slot + n - 1)
  <2>1. slot \in Nat /\ w \in Nat \ {0} /\ table \in Tables /\ saved \in Tables
    BY <1>1, <1>2
  <2> HIDE DEF slot
  <2>2. /\ bars \in Seq(Held) /\ Len(bars) = w
        /\ \A n \in 1 .. w : slot + n - 1 \in Nat /\ bars[n] = MinuteIn(table, slot + n - 1)
    BY <2>1, MinutesFacts
  <2>3. /\ more \in Seq(Held) /\ Len(more) = w
        /\ \A n \in 1 .. w : more[n] = MinuteIn(saved, slot + n - 1)
    BY <2>1, MinutesFacts
  <2>4. QED
    BY <2>2, <2>3
<1>6. table[<<w, slot>>] = NoBar /\ \A m \in minute.start .. MaxTime : table[<<1, m>>] = NoBar
  BY <1>1, <1>2 DEF Free, NothingLater
<1>7. /\ k \in 1 .. w /\ slot + k - 1 = minute.start
      /\ \A n \in 1 .. w : /\ n < k => slot + n - 1 < minute.start
                           /\ n > k => slot + n - 1 > minute.start
  <2> DEFINE start == minute.start
  <2>1. slot \in Nat /\ start \in Nat /\ w \in Nat /\ slot <= start /\ start < slot + w
    BY <1>2
  <2> HIDE DEF slot, start
  <2>2. QED
    BY <2>1 DEF start
<1> HIDE DEF k, bars, more, fresh, grown, slot
<1>8. bars[k] = NoBar /\ more[k] = RowOf(minute)
  <2> DEFINE m == minute.start
  <2>1. bars[k] = MinuteIn(table, m) /\ more[k] = MinuteIn(saved, m)
    BY <1>5, <1>7
  <2>2. m \in 0 .. MaxTime /\ m <= MaxTime /\ m \in m .. MaxTime
    BY <1>2
  <2>3. table[<<1, m>>] = NoBar /\ saved[<<1, m>>] = RowOf(minute)
    BY <1>6, <2>2 DEF StoresMinute
  <2> HIDE DEF m
  <2>4. QED
    BY <2>1, <2>2, <2>3 DEF MinuteIn
<1>9. \A n \in 1 .. w : n < k => more[n] = bars[n]
  <2>1. SUFFICES ASSUME NEW n \in 1 .. w, n < k PROVE more[n] = bars[n]
    OBVIOUS
  <2> DEFINE m == slot + n - 1
  <2>2. m \in Nat /\ m # minute.start
    BY <1>2, <1>5, <1>7, <2>1
  <2>3. MinuteIn(saved, m) = MinuteIn(table, m)
    <3> HIDE DEF m
    <3>1. m <= MaxTime => saved[<<1, m>>] = table[<<1, m>>]
      BY <1>2, <2>2 DEF StoresMinute
    <3>2. QED
      BY <3>1 DEF MinuteIn
  <2>4. QED
    BY <1>5, <2>1, <2>3
<1>10. \A n \in 1 .. w : n > k => more[n] = NoBar /\ bars[n] = NoBar
  <2>1. SUFFICES ASSUME NEW n \in 1 .. w, n > k PROVE more[n] = NoBar /\ bars[n] = NoBar
    OBVIOUS
  <2> DEFINE m == slot + n - 1
  <2>2. m \in Nat /\ m > minute.start /\ minute.start \in Nat
    BY <1>2, <1>5, <1>7, <2>1
  <2>3. MinuteIn(saved, m) = NoBar /\ MinuteIn(table, m) = NoBar
    <3> HIDE DEF m
    <3>1. m <= MaxTime => m \in minute.start .. MaxTime /\ m \in 0 .. MaxTime /\ m # minute.start
      BY <1>2, <2>2
    <3>2. m <= MaxTime => table[<<1, m>>] = NoBar /\ saved[<<1, m>>] = table[<<1, m>>]
      BY <1>6, <3>1 DEF StoresMinute
    <3>3. QED
      BY <3>2 DEF MinuteIn
  <2>4. QED
    BY <1>5, <2>1, <2>3
<1>11. /\ TicksOf(more) = TicksOf(bars) \o minute.ticks
       /\ VolumeOf(more) = VolumeOf(bars) + minute.volume
  <2>1. k \in 1 .. Len(bars)
    BY <1>5, <1>7
  <2>2. /\ TicksOf(more) = TicksOf(bars) \o TicksIn(more[k])
        /\ VolumeOf(more) = VolumeOf(bars) + VolumeIn(more[k])
    <3>1. /\ bars \in Seq(Held) /\ more \in Seq(Held) /\ Len(more) = Len(bars)
          /\ Len(bars) = w /\ bars[k] = NoBar
      BY <1>5, <1>8
    <3>2. \A n \in 1 .. Len(bars) : n < k => more[n] = bars[n]
      BY <1>9, <3>1
    <3>3. \A n \in 1 .. Len(bars) : n > k => more[n] = NoBar /\ bars[n] = NoBar
      BY <1>10, <3>1
    <3>4. QED
      BY <2>1, <3>1, <3>2, <3>3, LastHeld
  <2>3. QED
    BY <1>4, <1>8, <2>2
<1>12. CASE fresh
  <2>1. \A n \in 1 .. w : bars[n] = NoBar
    <3>1. SUFFICES ASSUME NEW n \in 1 .. w, bars[n] # NoBar PROVE FALSE
      OBVIOUS
    <3> DEFINE m == slot + n - 1
    <3>2. /\ m \in Nat /\ slot \in Nat /\ slot <= m /\ m < slot + w
          /\ bars[n] = MinuteIn(table, m)
      BY <1>2, <1>5, <3>1
    <3> HIDE DEF m
    <3>3. m <= MaxTime /\ table[<<1, m>>] # NoBar
      BY <3>1, <3>2 DEF MinuteIn
    <3>4. bucket_start(m, w) = slot
      BY <1>2, <3>2, SameSlot DEF slot
    <3>5. m \in 0 .. MaxTime
      BY <1>2, <3>2, <3>3
    <3>6. Covers(e, table, m, w)
      BY <1>1, <3>3, <3>5 DEF MinutesCovered
    <3>7. open # NoBar /\ open.start = slot
      BY <1>6, <3>4, <3>6 DEF Covers
    <3>8. open.start < slot /\ slot \in Nat
      BY <1>12, <3>2, <3>7 DEF fresh, SlotPassed
    <3>9. QED
      BY <3>7, <3>8
  <2>2. TicksOf(bars) = <<>> /\ VolumeOf(bars) = 0
    BY <1>5, <2>1, NothingHeld
  <2>3. TicksOf(more) = minute.ticks /\ VolumeOf(more) = minute.volume
    BY <1>4, <1>11, <2>2, ConcatEmptySeq
  <2>4. grown.ticks = minute.ticks /\ grown.volume = minute.volume
    BY <1>3, <1>12
  <2>5. FirstIs(grown.ticks[1], more, w)
    <3>1. more[k] # NoBar /\ grown.ticks[1] = more[k].open
      BY <1>4, <1>8, <2>4 DEF RowOf
    <3>2. \A i \in 1 .. k - 1 : more[i] = NoBar
      <4>1. SUFFICES ASSUME NEW i \in 1 .. k - 1 PROVE more[i] = NoBar
        OBVIOUS
      <4>2. i \in 1 .. w /\ i < k
        BY <1>2, <1>7
      <4>3. QED
        BY <1>9, <2>1, <4>2
    <3>3. QED
      BY <1>7, <3>1, <3>2 DEF FirstIs
  <2>6. QED
    BY <2>3, <2>4, <2>5 DEF SumOf, RowOf, grown, more, slot
<1>13. CASE ~fresh
  <2>1. open # NoBar /\ open.start = slot /\ GoodBar(open, w)
    <3>1. open # NoBar /\ ~(open.start < slot)
      BY <1>13 DEF fresh, SlotPassed
    <3>2. open.start <= slot /\ open.start \in Nat /\ slot \in Nat
      BY <1>2, <3>1 DEF slot
    <3>3. QED
      BY <1>2, <3>1, <3>2
  <2>2. SumOf(RowOf(open), bars, w)
    BY <1>1, <2>1 DEF OpenAgree, bars
  <2>3. open.ticks = TicksOf(bars) /\ open.volume = VolumeOf(bars) /\ FirstIs(open.ticks[1], bars, w)
    BY <2>2 DEF SumOf, RowOf
  <2>4. grown.ticks = open.ticks \o minute.ticks /\ grown.volume = open.volume + minute.volume
    BY <1>3, <1>13
  <2>5. grown.ticks = TicksOf(more) /\ grown.volume = VolumeOf(more)
    BY <1>11, <2>3, <2>4
  <2>6. grown.ticks[1] = open.ticks[1]
    <3> DEFINE a == open.ticks
               b == minute.ticks
    <3>1. a \in Seq(Ticks) /\ a # <<>> /\ b \in Seq(Ticks)
      BY <1>2, <1>4, <2>1, GoodBarIsHeld DEF GoodBar
    <3> HIDE DEF a, b
    <3>2. Len(a) \in Nat /\ Len(a) # 0 /\ Len(b) \in Nat
      BY <3>1, LenProperties, EmptySeq
    <3>3. 1 \in 1 .. Len(a) + Len(b) /\ 1 <= Len(a)
      BY <3>2
    <3>4. (a \o b)[1] = a[1]
      BY <3>1, <3>3, ConcatProperties
    <3>5. QED
      BY <2>4, <3>4 DEF a, b
  <2>7. PICK n \in 1 .. w : /\ bars[n] # NoBar /\ open.ticks[1] = bars[n].open
                            /\ \A i \in 1 .. n - 1 : bars[i] = NoBar
    BY <2>3 DEF FirstIs
  <2>8. n < k
    BY <1>2, <1>7, <1>8, <1>10, <2>7
  <2>9. \A i \in 1 .. n - 1 : more[i] = NoBar
    <3>1. SUFFICES ASSUME NEW i \in 1 .. n - 1 PROVE more[i] = NoBar
      OBVIOUS
    <3>2. i \in 1 .. w /\ i < k
      BY <1>2, <1>7, <2>8
    <3>3. QED
      BY <1>9, <2>7, <3>2
  <2>10. more[n] = bars[n]
    BY <1>9, <2>8
  <2>11. FirstIs(grown.ticks[1], more, w)
    BY <2>6, <2>7, <2>9, <2>10 DEF FirstIs
  <2>12. QED
    BY <2>5, <2>11 DEF SumOf, RowOf, grown, more, slot
<1>14. QED
  BY <1>12, <1>13

LEMMA MinuteAgrees ==
  ASSUME NEW e, NEW at, EngineOK(e, at), e.open[1] # NoBar, NEW table, TableOK(e, table),
         Agree(e, table)
  PROVE  LET step == CloseMinute(e)
         IN  Agree(step.engine, SaveCandles(table, step.done))
<1> DEFINE minute == e.open[1]
           step   == CloseMinute(e)
           e2     == step.engine
           saved  == SaveCandles(table, step.done)
           slot(w) == bucket_start(minute.start, w)
           grown(w) == WithMinute(e.open[w], minute, w)
<1>1. /\ table \in Tables /\ AllAligned(table) /\ Free(e, table)
      /\ StoredAgree(table) /\ OpenAgree(e, table) /\ MinutesCovered(e, table)
  BY DEF TableOK, Agree
<1>2. /\ StoresMinute(table, saved, minute)
      /\ \A w \in Widths : \A s \in 0 .. MaxTime :
           saved[<<w, s>>] =
             IF Passed(e.open[w], minute, w) /\ s = e.open[w].start THEN RowOf(e.open[w])
             ELSE IF Full(e.open[w], minute, w) /\ s = slot(w) THEN RowOf(grown(w))
             ELSE table[<<w, s>>]
  BY <1>1, MinuteSaved DEF StoresMinute
<1>3. saved \in Tables
  <2>1. step.done \in Dones
    BY CloseMinuteCloses DEF Closes
  <2>2. QED
    BY <1>1, <2>1, SavesInTurn
<1>4. /\ e2.open[1] = NoBar
      /\ \A w \in Widths : e2.open[w] = RolledUp(e.open[w], minute, w)
  <2>1. e \in Engines
    BY OpenFacts
  <2>2. e2 = [e EXCEPT !.open = [w \in Intervals |->
                       IF w = 1 THEN NoBar ELSE RolledUp(e.open[w], minute, w)]]
    BY DEF CloseMinute, Step
  <2>3. e2.open = [w \in Intervals |-> IF w = 1 THEN NoBar ELSE RolledUp(e.open[w], minute, w)]
    BY <2>1, <2>2 DEF Engines
  <2>4. QED
    BY <2>3, WidthFacts
<1>5. GoodBar(minute, 1) /\ minute.start \in 0 .. MaxTime /\ minute.start \in Nat
  BY OpenFacts, WidthFacts, GoodBarIsHeld
<1>6. ASSUME NEW w \in Widths
      PROVE  /\ w \in Intervals /\ w \in Nat \ {0} /\ w # 1
             /\ slot(w) \in 0 .. MaxTime /\ slot(w) \in Nat
             /\ e.open[w] # NoBar => /\ GoodBar(e.open[w], w) /\ e.open[w].start \in 0 .. MaxTime
                                     /\ e.open[w].start \in Nat
                                     /\ Aligned(e.open[w].start, w)
                                     /\ e.open[w].start <= slot(w)
  BY OpenFacts, WidthFacts
<1>6a. \A w \in Widths : table[<<w, slot(w)>>] = NoBar
  BY <1>1, WidthFacts DEF Free
<1>7. ASSUME NEW w \in Widths
      PROVE  /\ RolledUp(e.open[w], minute, w) =
                  IF Full(e.open[w], minute, w) THEN NoBar ELSE grown(w)
             /\ GoodBar(grown(w), w) /\ grown(w).start = slot(w) /\ RowOf(grown(w)) # NoBar
             /\ Passed(e.open[w], minute, w) <=>
                  e.open[w] # NoBar /\ e.open[w].start < slot(w)
  <2>1. e.open[w] # NoBar => GoodBar(e.open[w], w) /\ e.open[w].start <= slot(w)
    BY <1>6
  <2>2. GoodBar(grown(w), w) /\ grown(w).start = slot(w)
    BY <1>5, <2>1, GrownBar
  <2>3. RowOf(grown(w)) # NoBar
    BY <1>6, <2>2, RowFacts
  <2>4. QED
    BY <1>5, <2>1, <2>2, <2>3, RollUp DEF Passed
<1>8. ASSUME NEW w \in Widths
      PROVE  SumOf(RowOf(grown(w)), MinutesIn(saved, slot(w), w), w)
  BY <1>2, <1>3, GrownAgrees
<1>9. ASSUME NEW w \in Widths, NEW s \in 0 .. MaxTime, Aligned(s, w), s # slot(w)
      PROVE  MinutesIn(saved, s, w) = MinutesIn(table, s, w)
  <2>1. s \in Nat /\ w \in Nat \ {0}
    BY WidthFacts, ServiceAssumption
  <2> HIDE DEF saved
  <2>2. QED
    BY <1>2, <1>5, <1>9, <2>1, OtherSlotsKept
<1> HIDE DEF minute, step, e2, saved, slot, grown
<1>10. StoredAgree(saved)
  <2>1. SUFFICES ASSUME NEW w \in Widths, NEW s \in 0 .. MaxTime, saved[<<w, s>>] # NoBar
                 PROVE  SumOf(saved[<<w, s>>], MinutesIn(saved, s, w), w)
    BY DEF StoredAgree
  <2>2. CASE Passed(e.open[w], minute, w) /\ s = e.open[w].start
    <3>1. e.open[w] # NoBar /\ s < slot(w) /\ Aligned(s, w) /\ s \in Nat /\ slot(w) \in Nat
      BY <1>6, <1>7, <2>2
    <3>2. MinutesIn(saved, s, w) = MinutesIn(table, s, w)
      <4>1. s # slot(w)
        BY <3>1
      <4>2. QED
        BY <1>9, <3>1, <4>1
    <3>3. SumOf(RowOf(e.open[w]), MinutesIn(table, s, w), w)
      BY <1>1, <2>2, <3>1 DEF OpenAgree
    <3>4. QED
      BY <1>2, <2>2, <3>2, <3>3
  <2>3. CASE /\ ~(Passed(e.open[w], minute, w) /\ s = e.open[w].start)
             /\ Full(e.open[w], minute, w) /\ s = slot(w)
    BY <1>2, <1>8, <2>3
  <2>4. CASE /\ ~(Passed(e.open[w], minute, w) /\ s = e.open[w].start)
             /\ ~(Full(e.open[w], minute, w) /\ s = slot(w))
    <3>1. saved[<<w, s>>] = table[<<w, s>>]
      BY <1>2, <2>4
    <3>2. s # slot(w) /\ Aligned(s, w)
      BY <1>1, <1>6, <1>6a, <2>1, <3>1 DEF AllAligned
    <3>3. MinutesIn(saved, s, w) = MinutesIn(table, s, w)
      BY <1>9, <3>2
    <3>4. QED
      BY <1>1, <2>1, <3>1, <3>3 DEF StoredAgree
  <2>5. QED
    BY <2>2, <2>3, <2>4
<1>11. OpenAgree(e2, saved)
  <2>1. SUFFICES ASSUME NEW w \in Widths, e2.open[w] # NoBar
                 PROVE  SumOf(RowOf(e2.open[w]), MinutesIn(saved, e2.open[w].start, w), w)
    BY DEF OpenAgree
  <2>2. e2.open[w] = grown(w) /\ grown(w).start = slot(w)
    BY <1>4, <1>7, <2>1
  <2>3. QED
    BY <1>8, <2>2
<1>12. MinutesCovered(e2, saved)
  <2>1. SUFFICES ASSUME NEW m \in 0 .. MaxTime, saved[<<1, m>>] # NoBar, NEW w \in Widths
                 PROVE  Covers(e2, saved, m, w)
    BY DEF MinutesCovered
  <2>2. ASSUME bucket_start(m, w) = slot(w) PROVE Covers(e2, saved, m, w)
    <3>1. CASE Full(e.open[w], minute, w)
      <4>1. ~(Passed(e.open[w], minute, w) /\ slot(w) = e.open[w].start)
        <5>1. slot(w) \in Nat /\ (e.open[w] # NoBar => e.open[w].start \in Nat)
          BY <1>6
        <5>2. QED
          BY <1>7, <5>1
      <4>2. saved[<<w, slot(w)>>] = RowOf(grown(w))
        BY <1>2, <1>6, <3>1, <4>1
      <4>3. QED
        BY <1>7, <2>2, <4>2 DEF Covers
    <3>2. CASE ~Full(e.open[w], minute, w)
      <4>1. e2.open[w] = grown(w) /\ grown(w).start = slot(w) /\ w \in Intervals
        BY <1>4, <1>6, <1>7, <3>2
      <4>2. grown(w) # NoBar
        BY <1>7, <4>1, GoodBarIsHeld
      <4>3. QED
        BY <2>2, <4>1, <4>2 DEF Covers
    <3>3. QED
      BY <3>1, <3>2
  <2>3. CASE m = minute.start
    BY <2>2, <2>3 DEF slot
  <2>4. CASE m # minute.start
    <3> DEFINE b == bucket_start(m, w)
    <3>1. table[<<1, m>>] # NoBar
      BY <1>2, <2>1, <2>4 DEF StoresMinute
    <3>2. table[<<w, b>>] # NoBar \/ (e.open[w] # NoBar /\ e.open[w].start = b)
      BY <1>1, <3>1 DEF MinutesCovered, Covers
    <3>3. b \in 0 .. MaxTime
      <4>1. m \in Nat /\ MaxTime \in Nat /\ m <= MaxTime /\ w \in Nat \ {0}
        BY WidthFacts, ServiceAssumption
      <4>2. b \in Nat /\ b <= m
        BY <4>1, Bucket
      <4>3. QED
        BY <4>1, <4>2
    <3> HIDE DEF b
    <3>4. CASE table[<<w, b>>] # NoBar
      <4>1. b # slot(w)
        BY <1>6a, <3>4
      <4>2. Passed(e.open[w], minute, w) /\ b = e.open[w].start => RowOf(e.open[w]) # NoBar
        BY <1>6, <1>7, RowFacts
      <4>3. saved[<<w, b>>] # NoBar
        BY <1>2, <3>3, <3>4, <4>1, <4>2
      <4>4. QED
        BY <4>3 DEF Covers, b
    <3>5. CASE e.open[w] # NoBar /\ e.open[w].start = b
      <4>1. CASE b = slot(w)
        BY <2>2, <4>1 DEF b
      <4>2. CASE b # slot(w)
        <5>1. b < slot(w)
          <6>1. b <= slot(w) /\ b \in Nat /\ slot(w) \in Nat
            BY <1>6, <3>5
          <6>2. QED
            BY <4>2, <6>1
        <5>2. Passed(e.open[w], minute, w)
          BY <1>7, <3>5, <5>1
        <5>3. saved[<<w, b>>] = RowOf(e.open[w])
          BY <1>2, <3>3, <3>5, <5>2
        <5>4. RowOf(e.open[w]) # NoBar
          BY <1>6, <3>5, RowFacts
        <5>5. QED
          BY <5>3, <5>4 DEF Covers, b
      <4>3. QED
        BY <4>1, <4>2
    <3>6. QED
      BY <3>2, <3>4, <3>5
  <2>5. QED
    BY <2>3, <2>4
<1>13. NothingLater(e2, saved)
  BY <1>4 DEF NothingLater
<1>14. QED
  BY <1>10, <1>11, <1>12, <1>13 DEF Agree, e2, saved, step

LEMMA DueAgrees ==
  ASSUME NEW e, NEW at, EngineOK(e, at), NEW table, TableOK(e, table), Agree(e, table),
         NEW due, due \subseteq Widths, \A w \in due : e.open[w] # NoBar
  PROVE  LET step == CloseDue(e, due)
         IN  Agree(step.engine, SaveCandles(table, step.done))
<1> DEFINE step   == CloseDue(e, due)
           e2     == step.engine
           saved  == SaveCandles(table, step.done)
<1>1. /\ table \in Tables /\ Free(e, table)
      /\ StoredAgree(table) /\ OpenAgree(e, table) /\ MinutesCovered(e, table)
      /\ NothingLater(e, table)
  BY DEF TableOK, Agree
<1>2. \A w \in Intervals : \A s \in 0 .. MaxTime :
        saved[<<w, s>>] =
          IF w \in due /\ s = e.open[w].start THEN RowOf(e.open[w]) ELSE table[<<w, s>>]
  <2>1. table \in Tables /\ Free(e, table)
    BY <1>1
  <2>2. DueOpen(e, due)
    BY DEF DueOpen
  <2>3. SavesDue(e, due, table, saved)
    BY <2>1, <2>2, DueSaved
  <2> HIDE DEF saved, step
  <2>4. QED
    BY <2>3 DEF SavesDue
<1>3. \A w \in Intervals : e2.open[w] = IF w \in due THEN NoBar ELSE e.open[w]
  <2>1. e \in Engines
    BY OpenFacts
  <2>2. e2 = [e EXCEPT !.open = [w \in Intervals |-> IF w \in due THEN NoBar ELSE e.open[w]]]
    BY DEF CloseDue, Step
  <2>3. e2.open = [w \in Intervals |-> IF w \in due THEN NoBar ELSE e.open[w]]
    BY <2>1, <2>2 DEF Engines
  <2>4. QED
    BY <2>3
<1>4. ASSUME NEW w \in due
      PROVE  /\ w \in Widths /\ w \in Intervals /\ e.open[w] # NoBar
             /\ e.open[w].start \in 0 .. MaxTime /\ RowOf(e.open[w]) # NoBar
  BY OpenFacts, WidthFacts, RowFacts
<1> HIDE DEF step, e2, saved
<1>5. \A m \in 0 .. MaxTime : saved[<<1, m>>] = table[<<1, m>>]
  BY <1>2, WidthFacts
<1>6. ASSUME NEW w \in Widths, NEW s \in 0 .. MaxTime
      PROVE  MinutesIn(saved, s, w) = MinutesIn(table, s, w)
  <2>1. s \in Nat /\ w \in Nat \ {0} /\ MaxTime \in Nat
    BY WidthFacts, ServiceAssumption
  <2>2. ASSUME NEW n \in 1 .. w
        PROVE  MinuteIn(saved, s + n - 1) = MinuteIn(table, s + n - 1)
    <3> DEFINE m == s + n - 1
    <3>1. m \in Nat
      BY <2>1
    <3> HIDE DEF m
    <3>2. m <= MaxTime => saved[<<1, m>>] = table[<<1, m>>]
      BY <1>5, <2>1, <3>1
    <3>3. MinuteIn(saved, m) = MinuteIn(table, m)
      BY <3>2 DEF MinuteIn
    <3>4. QED
      BY <3>3 DEF m
  <2>3. QED
    BY <2>1, <2>2, MinutesKept
<1>7. StoredAgree(saved)
  <2>1. SUFFICES ASSUME NEW w \in Widths, NEW s \in 0 .. MaxTime, saved[<<w, s>>] # NoBar
                 PROVE  SumOf(saved[<<w, s>>], MinutesIn(saved, s, w), w)
    BY DEF StoredAgree
  <2>2. w \in Intervals
    BY WidthFacts
  <2>3. CASE w \in due /\ s = e.open[w].start
    BY <1>1, <1>2, <1>4, <1>6, <2>2, <2>3 DEF OpenAgree
  <2>4. CASE ~(w \in due /\ s = e.open[w].start)
    BY <1>1, <1>2, <1>6, <2>1, <2>2, <2>4 DEF StoredAgree
  <2>5. QED
    BY <2>3, <2>4
<1>8. OpenAgree(e2, saved)
  <2>1. SUFFICES ASSUME NEW w \in Widths, e2.open[w] # NoBar
                 PROVE  SumOf(RowOf(e2.open[w]), MinutesIn(saved, e2.open[w].start, w), w)
    BY DEF OpenAgree
  <2>2. w \in Intervals
    BY WidthFacts
  <2>3. e2.open[w] = e.open[w] /\ e.open[w] # NoBar
    BY <1>3, <2>1, <2>2
  <2>4. e.open[w].start \in 0 .. MaxTime
    BY <2>2, <2>3, OpenFacts
  <2>5. SumOf(RowOf(e.open[w]), MinutesIn(table, e.open[w].start, w), w)
    BY <1>1, <2>3 DEF OpenAgree
  <2>6. QED
    BY <1>6, <2>3, <2>4, <2>5
<1>9. MinutesCovered(e2, saved)
  <2>1. SUFFICES ASSUME NEW m \in 0 .. MaxTime, saved[<<1, m>>] # NoBar, NEW w \in Widths
                 PROVE  Covers(e2, saved, m, w)
    BY DEF MinutesCovered
  <2> DEFINE b == bucket_start(m, w)
  <2>2. table[<<w, b>>] # NoBar \/ (e.open[w] # NoBar /\ e.open[w].start = b)
    BY <1>1, <1>5, <2>1 DEF MinutesCovered, Covers
  <2>3. b \in 0 .. MaxTime /\ w \in Intervals
    <3>1. m \in Nat /\ MaxTime \in Nat /\ m <= MaxTime /\ w \in Nat \ {0} /\ w \in Intervals
      BY WidthFacts, ServiceAssumption
    <3>2. b \in Nat /\ b <= m
      BY <3>1, Bucket
    <3>3. QED
      BY <3>1, <3>2
  <2> HIDE DEF b
  <2>4. saved[<<w, b>>] # NoBar \/ (e2.open[w] # NoBar /\ e2.open[w].start = b)
    BY <1>2, <1>3, <1>4, <2>2, <2>3
  <2>5. QED
    BY <2>4 DEF Covers, b
<1>10. NothingLater(e2, saved)
  <2>1. SUFFICES ASSUME e2.open[1] # NoBar, NEW m \in e2.open[1].start .. MaxTime
                 PROVE  saved[<<1, m>>] = NoBar
    BY DEF NothingLater
  <2>2. e2.open[1] = e.open[1] /\ e.open[1] # NoBar /\ e.open[1].start \in 0 .. MaxTime
    BY <1>3, <2>1, OpenFacts, WidthFacts
  <2>3. m \in 0 .. MaxTime /\ m \in e.open[1].start .. MaxTime
    BY <2>1, <2>2
  <2>4. QED
    BY <1>1, <1>5, <2>2, <2>3 DEF NothingLater
<1>11. QED
  BY <1>7, <1>8, <1>9, <1>10 DEF Agree, e2, saved, step

-----------------------------------------------------------------------------
(* A step of the engine whose bars are saved.                              *)
TabledStep(e, table, step) ==
  LET saved == SaveCandles(table, step.done)
  IN  /\ TableOK(step.engine, saved) /\ Extends(table, saved)
      /\ Agree(e, table) => Agree(step.engine, saved)
ElapsedStep(table, step, moment) ==
  Elapsed(table, moment) => Elapsed(SaveCandles(table, step.done), moment)

LEMMA ExtendsInTurn ==
  ASSUME NEW a, NEW b, NEW c, Extends(a, b), Extends(b, c)
  PROVE  Extends(a, c)
BY DEF Extends

LEMMA TabledInTurn ==
  ASSUME NEW e, NEW table \in Tables,
         NEW first, first.done \in Dones, TabledStep(e, table, first),
         NEW second, second.done \in Dones,
         TabledStep(first.engine, SaveCandles(table, first.done), second)
  PROVE  TabledStep(e, table, Step(second.engine, Then(first.done, second.done)))
<1> DEFINE step == Step(second.engine, Then(first.done, second.done))
           t1 == SaveCandles(table, first.done)
           t2 == SaveCandles(t1, second.done)
<1>1. step.engine = second.engine /\ step.done = Then(first.done, second.done)
  BY DEF Step
<1>2. SaveCandles(table, Then(first.done, second.done)) = t2
  BY SavesInTurn
<1>3. SaveCandles(table, step.done) = t2
  <2> HIDE DEF step, t1, t2
  <2>1. QED
    BY <1>1, <1>2
<1>4. /\ Extends(table, t1) /\ (Agree(e, table) => Agree(first.engine, t1))
      /\ TableOK(second.engine, t2) /\ Extends(t1, t2)
      /\ Agree(first.engine, t1) => Agree(second.engine, t2)
  BY DEF TabledStep
<1> HIDE DEF step, t1, t2
<1>5. Extends(table, t2)
  BY <1>4, ExtendsInTurn
<1>6. QED
  BY <1>1, <1>3, <1>4, <1>5 DEF TabledStep, step

LEMMA ElapsedInTurn ==
  ASSUME NEW table \in Tables, NEW moment,
         NEW first, first.done \in Dones, ElapsedStep(table, first, moment),
         NEW second, second.done \in Dones,
         ElapsedStep(SaveCandles(table, first.done), second, moment)
  PROVE  ElapsedStep(table, Step(second.engine, Then(first.done, second.done)), moment)
<1> DEFINE step == Step(second.engine, Then(first.done, second.done))
           t1 == SaveCandles(table, first.done)
           t2 == SaveCandles(t1, second.done)
<1>1. step.done = Then(first.done, second.done)
  BY DEF Step
<1>2. SaveCandles(table, Then(first.done, second.done)) = t2
  BY SavesInTurn
<1>3. SaveCandles(table, step.done) = t2
  <2> HIDE DEF step, t1, t2
  <2>1. QED
    BY <1>1, <1>2
<1>4. (Elapsed(table, moment) => Elapsed(t1, moment)) /\ (Elapsed(t1, moment) => Elapsed(t2, moment))
  BY DEF ElapsedStep
<1> HIDE DEF step, t1, t2
<1>5. QED
  BY <1>3, <1>4 DEF ElapsedStep, step

LEMMA ClosedTabled ==
  ASSUME NEW e, NEW at, EngineOK(e, at), NEW table, TableOK(e, table),
         NEW minute \in BOOLEAN, minute => e.open[1] # NoBar
  PROVE  TabledStep(e, table, Closed(e, minute))
<1>1. CASE minute
  <2> DEFINE step  == CloseMinute(e)
             saved == SaveCandles(table, step.done)
  <2>1. Closed(e, minute) = step
    BY <1>1 DEF Closed
  <2>2. TableOK(step.engine, saved) /\ Extends(table, saved)
    BY <1>1, MinuteTabled, 0 \in Nat
  <2>3. Agree(e, table) => Agree(step.engine, saved)
    BY <1>1, MinuteAgrees
  <2> HIDE DEF step
  <2>4. QED
    BY <2>1, <2>2, <2>3 DEF TabledStep
<1>2. CASE ~minute
  <2> DEFINE step == Closed(e, minute)
  <2>1. step.engine = e /\ step.done = NoneDone
    BY <1>2 DEF Closed, Step
  <2>2. table \in Tables
    BY DEF TableOK
  <2>3. NoneDone \in Dones
    BY NoneDoneFacts
  <2>4. SaveCandles(table, NoneDone) = table
    BY <2>2, <2>3, SavesInTurn
  <2>5. Extends(table, table)
    BY DEF Extends
  <2> HIDE DEF step
  <2>6. QED
    BY <2>1, <2>4, <2>5 DEF TabledStep, step
<1>3. QED
  BY <1>1, <1>2

LEMMA ClosedElapsed ==
  ASSUME NEW e, NEW at, EngineOK(e, at), NEW table, TableOK(e, table), NEW moment \in Nat,
         NEW minute \in BOOLEAN, minute => e.open[1] # NoBar /\ EndAt(e.open[1]) <= moment
  PROVE  ElapsedStep(table, Closed(e, minute), moment)
<1>1. CASE minute
  <2> DEFINE step  == CloseMinute(e)
             saved == SaveCandles(table, step.done)
  <2>1. Closed(e, minute) = step
    BY <1>1 DEF Closed
  <2>2. Elapsed(table, moment) /\ EndAt(e.open[1]) <= moment => Elapsed(saved, moment)
    BY <1>1, MinuteTabled
  <2> HIDE DEF step
  <2>3. QED
    BY <1>1, <2>1, <2>2 DEF ElapsedStep
<1>2. CASE ~minute
  <2> DEFINE step == Closed(e, minute)
  <2>1. step.done = NoneDone
    BY <1>2 DEF Closed, Step
  <2>2. table \in Tables
    BY DEF TableOK
  <2>3. NoneDone \in Dones
    BY NoneDoneFacts
  <2>4. SaveCandles(table, NoneDone) = table
    BY <2>2, <2>3, SavesInTurn
  <2> HIDE DEF step
  <2>5. QED
    BY <2>1, <2>4 DEF ElapsedStep, step
<1>3. QED
  BY <1>1, <1>2

(* A closing, when a due wider bar is not one the open minute grows.    *)
DueApart(e, due) ==
  e.open[1] # NoBar => \A w \in due : e.open[w].start # bucket_start(e.open[1].start, w)
DueBy(e, due, moment) == \A w \in due : EndAt(e.open[w]) <= moment

LEMMA ClosingTabled ==
  ASSUME NEW e, NEW at, EngineOK(e, at), NEW table, TableOK(e, table),
         NEW minute \in BOOLEAN, minute => e.open[1] # NoBar,
         NEW due, due \subseteq Widths, \A w \in due : Closed(e, minute).engine.open[w] # NoBar,
         DueApart(Closed(e, minute).engine, due)
  PROVE  TabledStep(e, table, Closing(e, minute, due))
<1> DEFINE first  == Closed(e, minute)
           e1     == first.engine
           t1     == SaveCandles(table, first.done)
           second == CloseDue(e1, due)
           saved  == SaveCandles(t1, second.done)
<1>1. TabledStep(e, table, first)
  BY ClosedTabled
<1>2. first.done \in Dones /\ EngineOK(e1, at)
  BY ClosedCloses DEF Closes
<1>3. TableOK(e1, t1)
  BY <1>1 DEF TabledStep
<1>4. e1.open[1] # NoBar => \A w \in due : e1.open[w].start # bucket_start(e1.open[1].start, w)
  BY DEF DueApart
<1>5. Closing(e, minute, due) = Step(second.engine, Then(first.done, second.done))
  BY DEF Closing
<1>6. \A w \in due : e1.open[w] # NoBar
  OBVIOUS
<1> HIDE DEF first, e1, t1
<1>7. TableOK(second.engine, saved) /\ Extends(t1, saved)
  <2>1. 0 \in Nat
    OBVIOUS
  <2>2. QED
    BY <1>2, <1>3, <1>4, <1>6, <2>1, DueTabled
<1>8. Agree(e1, t1) => Agree(second.engine, saved)
  BY <1>2, <1>3, <1>6, DueAgrees
<1>9. TabledStep(e1, t1, second)
  BY <1>7, <1>8 DEF TabledStep
<1>10. second.done \in Dones
  BY <1>2, <1>6, CloseDueCloses DEF Closes
<1> HIDE DEF second, saved
<1>11. table \in Tables
  BY DEF TableOK
<1>12. QED
  BY <1>1, <1>2, <1>5, <1>9, <1>10, <1>11, TabledInTurn DEF e1, t1

LEMMA ClosingElapsed ==
  ASSUME NEW e, NEW at, EngineOK(e, at), NEW table, TableOK(e, table), NEW moment \in Nat,
         NEW minute \in BOOLEAN, minute => e.open[1] # NoBar /\ EndAt(e.open[1]) <= moment,
         NEW due, due \subseteq Widths, \A w \in due : Closed(e, minute).engine.open[w] # NoBar,
         DueApart(Closed(e, minute).engine, due), DueBy(Closed(e, minute).engine, due, moment)
  PROVE  ElapsedStep(table, Closing(e, minute, due), moment)
<1> DEFINE first  == Closed(e, minute)
           e1     == first.engine
           t1     == SaveCandles(table, first.done)
           second == CloseDue(e1, due)
           saved  == SaveCandles(t1, second.done)
<1>1. TabledStep(e, table, first) /\ ElapsedStep(table, first, moment)
  BY ClosedTabled, ClosedElapsed
<1>2. first.done \in Dones /\ EngineOK(e1, at)
  BY ClosedCloses DEF Closes
<1>3. TableOK(e1, t1)
  BY <1>1 DEF TabledStep
<1>4. /\ e1.open[1] # NoBar => \A w \in due : e1.open[w].start # bucket_start(e1.open[1].start, w)
      /\ \A w \in due : EndAt(e1.open[w]) <= moment
  BY DEF DueApart, DueBy
<1>5. Closing(e, minute, due) = Step(second.engine, Then(first.done, second.done))
  BY DEF Closing
<1>6. \A w \in due : e1.open[w] # NoBar
  OBVIOUS
<1> HIDE DEF first, e1, t1
<1>7. Elapsed(t1, moment) /\ (\A w \in due : EndAt(e1.open[w]) <= moment)
         => Elapsed(saved, moment)
  BY <1>2, <1>3, <1>4, <1>6, DueTabled
<1>8. ElapsedStep(t1, second, moment)
  BY <1>4, <1>7 DEF ElapsedStep
<1>9. second.done \in Dones
  BY <1>2, <1>6, CloseDueCloses DEF Closes
<1> HIDE DEF second, saved
<1>10. table \in Tables
  BY DEF TableOK
<1>11. QED
  BY <1>1, <1>2, <1>5, <1>8, <1>9, <1>10, ElapsedInTurn DEF t1

(* What CloseMinute leaves of the minute.                                  *)
LEMMA MinuteClosed ==
  ASSUME NEW e \in Engines
  PROVE  CloseMinute(e).engine.open[1] = NoBar
BY WidthFacts DEF CloseMinute, Step, Engines

LEMMA FlushTabled ==
  ASSUME NEW e, NEW at, EngineOK(e, at), NEW table, TableOK(e, table), NEW moment \in Nat
  PROVE  TabledStep(e, table, flush(e, moment)) /\ ElapsedStep(table, flush(e, moment), moment)
<1> DEFINE minute == FlushMinute(e, moment)
           due    == FlushDue(e, moment)
           e1     == Closed(e, minute).engine
<1>1. /\ minute \in BOOLEAN /\ (minute => e.open[1] # NoBar /\ EndAt(e.open[1]) <= moment)
      /\ due \subseteq Widths
      /\ \A w \in due : e1.open[w] # NoBar
      /\ DueBy(e1, due, moment)
  BY DEF FlushMinute, FlushDue, DueBy
<1>2. EngineOK(e1, at)
  BY <1>1, ClosedCloses
<1>3. flush(e, moment) = Closing(e, minute, due)
  BY DEF flush
<1>4. e1.open[1] # NoBar => ~(EndAt(e1.open[1]) <= moment)
  <2>1. CASE minute
    <3>1. e1 = CloseMinute(e).engine
      BY <2>1 DEF Closed
    <3>2. e \in Engines
      BY DEF EngineOK
    <3>3. QED
      BY <3>1, <3>2, MinuteClosed
  <2>2. CASE ~minute
    <3>1. e1 = e
      BY <2>2 DEF Closed, Step
    <3> HIDE DEF e1
    <3>2. QED
      BY <2>2, <3>1 DEF FlushMinute
  <2>3. QED
    BY <2>1, <2>2
<1> HIDE DEF minute, due
<1>5. DueApart(e1, due)
  <2> HIDE DEF e1
  <2>1. SUFFICES ASSUME e1.open[1] # NoBar, NEW w \in due,
                        e1.open[w].start = bucket_start(e1.open[1].start, w)
                 PROVE  FALSE
    BY DEF DueApart
  <2> DEFINE m == e1.open[1].start
             s == e1.open[w].start
  <2>2. w \in Intervals /\ w \in Nat \ {0} /\ e1.open[w] # NoBar
    BY <1>1, WidthFacts
  <2>3. m < s + w /\ m \in Nat /\ s \in Nat
    BY <1>2, <2>1, <2>2, OpenFacts, WidthFacts
  <2>4. EndAt(e1.open[w]) = s + w /\ EndAt(e1.open[1]) = m + 1
    BY <1>2, <2>1, <2>2, OpenFacts, GoodBarIsHeld, WidthFacts
  <2>5. s + w <= moment
    BY <1>1, <2>4 DEF DueBy
  <2>6. ~(m + 1 <= moment)
    BY <1>4, <2>1, <2>4
  <2> HIDE DEF m, s
  <2>7. QED
    BY <2>2, <2>3, <2>5, <2>6
<1>6. QED
  BY <1>1, <1>3, <1>5, ClosingTabled, ClosingElapsed

LEMMA CloseAllTabled ==
  ASSUME NEW e, NEW at, EngineOK(e, at), NEW table, TableOK(e, table)
  PROVE  TabledStep(e, table, close_all(e))
<1> DEFINE minute == e.open[1] # NoBar
           due    == AllDue(e)
           e1     == Closed(e, minute).engine
<1>1. /\ minute \in BOOLEAN /\ (minute => e.open[1] # NoBar)
      /\ due \subseteq Widths /\ \A w \in due : e1.open[w] # NoBar
  BY DEF AllDue
<1>2. close_all(e) = Closing(e, minute, due)
  BY DEF close_all
<1>3. e1.open[1] = NoBar
  <2>1. CASE minute
    <3>1. e1 = CloseMinute(e).engine
      BY <2>1 DEF Closed
    <3>2. e \in Engines
      BY DEF EngineOK
    <3>3. QED
      BY <3>1, <3>2, MinuteClosed
  <2>2. CASE ~minute
    <3>1. e1 = e
      BY <2>2 DEF Closed, Step
    <3> HIDE DEF e1
    <3>2. QED
      BY <2>2, <3>1
  <2>3. QED
    BY <2>1, <2>2
<1>4. DueApart(e1, due)
  BY <1>3 DEF DueApart
<1> HIDE DEF minute, due
<1>5. QED
  BY <1>1, <1>2, <1>4, ClosingTabled

(* A tick of a minute no stored row reaches.                               *)
LEMMA TickTabled ==
  ASSUME NEW e, NEW at, EngineOK(e, at), NEW table, TableOK(e, table), NEW tick \in Ticks,
         at = <<>> \/ at[1].time <= tick.time, e.open[1] # NoBar => e.open[1].start = tick.time,
         Elapsed(table, tick.time)
  PROVE  LET e2 == ApplyTick(e, MinuteFor(e, tick), tick)
         IN  TableOK(e2, table) /\ (Agree(e, table) => Agree(e2, table))
<1> DEFINE e2 == ApplyTick(e, MinuteFor(e, tick), tick)
           t  == tick.time
<1>1. /\ e2.open[1] # NoBar /\ e2.open[1].start = t
      /\ \A w \in Widths : e2.open[w] = e.open[w]
  BY ApplyTickFacts
<1>2. t \in 0 .. MaxTime /\ t \in Nat /\ MaxTime \in Nat
  BY ServiceAssumption DEF Ticks
<1> HIDE DEF e2
<1>3. ASSUME NEW w \in Intervals PROVE table[<<w, bucket_start(t, w)>>] = NoBar
  <2> DEFINE b == bucket_start(t, w)
  <2>1. w \in Nat \ {0}
    BY WidthFacts
  <2>2. b \in Nat /\ b <= t /\ t < b + w
    BY <1>2, <2>1, Bucket
  <2> HIDE DEF b
  <2>3. b \in 0 .. MaxTime
    BY <1>2, <2>2
  <2>4. table[<<w, b>>] # NoBar => b + w <= t
    BY <2>3 DEF Elapsed
  <2>5. QED
    BY <1>2, <2>1, <2>2, <2>4 DEF b
<1>4. TableOK(e2, table)
  <2>1. table \in Tables /\ AllAligned(table) /\ Free(e, table)
    BY DEF TableOK
  <2>2. Free(e2, table)
    BY <1>1, <1>3, <2>1 DEF Free
  <2>3. QED
    BY <2>1, <2>2 DEF TableOK
<1>5. ASSUME Agree(e, table) PROVE Agree(e2, table)
  <2>1. StoredAgree(table) /\ OpenAgree(e, table) /\ MinutesCovered(e, table)
    BY <1>5 DEF Agree
  <2>2. OpenAgree(e2, table)
    BY <1>1, <2>1 DEF OpenAgree
  <2>3. MinutesCovered(e2, table)
    BY <1>1, <2>1 DEF MinutesCovered, Covers
  <2>4. NothingLater(e2, table)
    <3>1. SUFFICES ASSUME NEW m \in t .. MaxTime, table[<<1, m>>] # NoBar PROVE FALSE
      BY <1>1 DEF NothingLater
    <3>2. m \in 0 .. MaxTime /\ m \in Nat /\ t <= m
      BY <1>2, <3>1
    <3>3. m + 1 <= t
      BY <3>1, <3>2, WidthFacts DEF Elapsed
    <3>4. QED
      BY <1>2, <3>2, <3>3
  <2>5. QED
    BY <2>1, <2>2, <2>3, <2>4 DEF Agree
<1>6. QED
  BY <1>4, <1>5 DEF e2

-----------------------------------------------------------------------------
(* A message of ticks of the current minute, and the table it leaves.      *)
HandledTable(so_far) ==
  LET saved == SaveCandles(rows, so_far.done)
  IN  /\ TableOK(so_far.engine, saved) /\ Extends(rows, saved) /\ Elapsed(saved, now)
      /\ Agree(engine, rows) => Agree(so_far.engine, saved)

LEMMA TickSaved ==
  ASSUME accepted \in Seq(Ticks), emitted \in Dones, rows \in Tables, now \in Nat,
         NEW so_far \in SoFars, HandledBook(so_far), HandledTable(so_far),
         NEW tick \in Ticks, tick.time = now
  PROVE  HandledTable(HandledTick(so_far, tick))
<1> DEFINE e      == so_far.engine
           at     == so_far.last
           over   == MinuteOver(e, tick)
           closed == Closed(e, over)
           e1     == closed.engine
           e2     == ApplyTick(e1, MinuteFor(e1, tick), tick)
           next   == HandledTick(so_far, tick)
           t0     == SaveCandles(rows, so_far.done)
           t1     == SaveCandles(t0, closed.done)
<1>1. CASE ~Accepts(at, tick)
  BY <1>1 DEF HandledTick
<1>2. CASE Accepts(at, tick)
  <2>1. at = <<>> \/ at[1].time <= tick.time
    BY <1>2 DEF Accepts
  <2>2. EngineOK(e, at)
    BY DEF HandledBook, Book
  <2>3. /\ on_tick(e, tick) = Step(e2, closed.done)
        /\ Closes(e, closed) /\ EngineOK(e1, at)
        /\ e1.open[1] # NoBar => e1.open[1].start = tick.time
    BY <2>1, <2>2, OnTickShape
  <2>4. next.engine = e2 /\ next.done = Then(so_far.done, closed.done)
    BY <1>2, <2>3 DEF HandledTick, Step
  <2>5. so_far.done \in Dones /\ closed.done \in Dones
    BY <2>3 DEF SoFars, Closes
  <2>6. /\ TableOK(e, t0) /\ Extends(rows, t0) /\ Elapsed(t0, now)
        /\ Agree(engine, rows) => Agree(e, t0)
    BY DEF HandledTable
  <2>7. over \in BOOLEAN /\ (over => e.open[1] # NoBar /\ EndAt(e.open[1]) <= now)
    <3>1. over => e.open[1] # NoBar /\ e.open[1].start < now
      BY DEF MinuteOver
    <3>2. e.open[1] # NoBar => EndAt(e.open[1]) = e.open[1].start + 1 /\ e.open[1].start \in Nat
      BY <2>2, OpenFacts, GoodBarIsHeld, WidthFacts
    <3>3. over \in BOOLEAN
      BY DEF MinuteOver
    <3> HIDE DEF over
    <3>4. QED
      BY <3>1, <3>2, <3>3
  <2> HIDE DEF e, at, over, t0
  <2>8. TabledStep(e, t0, closed) /\ ElapsedStep(t0, closed, now)
    BY <2>2, <2>6, <2>7, ClosedTabled, ClosedElapsed
  <2> HIDE DEF closed
  <2>9. /\ TableOK(e1, t1) /\ Extends(t0, t1) /\ Elapsed(t1, now)
        /\ Agree(e, t0) => Agree(e1, t1)
    BY <2>6, <2>8 DEF TabledStep, ElapsedStep
  <2> HIDE DEF e1, t1
  <2>10. TableOK(e2, t1) /\ (Agree(e1, t1) => Agree(e2, t1))
    BY <2>1, <2>3, <2>9, TickTabled
  <2>11. SaveCandles(rows, Then(so_far.done, closed.done)) = t1
    BY <2>5, SavesInTurn DEF t0, t1
  <2>12. Extends(rows, t1)
    BY <2>6, <2>9, ExtendsInTurn
  <2> HIDE DEF e2, next
  <2>13. SaveCandles(rows, next.done) = t1
    BY <2>4, <2>11
  <2>14. HandledTable(next)
    BY <2>4, <2>6, <2>9, <2>10, <2>12, <2>13 DEF HandledTable
  <2>15. QED
    BY <2>14 DEF next
<1>3. QED
  BY <1>1, <1>2

LEMMA BatchSaved ==
  ASSUME BookInv, rows \in Tables, now \in Nat, TableOK(engine, rows), Elapsed(rows, now),
         NEW batch \in Seq(Ticks), \A i \in 1 .. Len(batch) : batch[i].time = now
  PROVE  HandledTable(Handled(batch))
<1> DEFINE S == {so_far \in SoFars : HandledBook(so_far) /\ HandledTable(so_far)}
<1>1. HandledStart \in S
  <2>1. HandledStart.engine = engine /\ HandledStart.done = NoneDone
    BY DEF HandledStart
  <2>2. SaveCandles(rows, NoneDone) = rows
    BY NoneDoneFacts, SavesInTurn
  <2>3. Extends(rows, rows)
    BY DEF Extends
  <2>4. HandledTable(HandledStart)
    BY <2>1, <2>2, <2>3 DEF HandledTable
  <2>5. QED
    BY <2>4, StartsHandled
<1>2. ASSUME NEW so_far \in S, NEW n \in 1 .. Len(batch) PROVE HandledTick(so_far, batch[n]) \in S
  <2>1. batch[n] \in Ticks /\ batch[n].time = now
    BY ElementOfSeq
  <2>2. accepted \in Seq(Ticks) /\ emitted \in Dones
    BY DEF BookInv, Book
  <2>3. so_far \in SoFars /\ HandledBook(so_far) /\ HandledTable(so_far)
    OBVIOUS
  <2>4. HandledTick(so_far, batch[n]) \in SoFars /\ HandledBook(HandledTick(so_far, batch[n]))
    BY <2>1, <2>2, <2>3, TickHandled
  <2>5. HandledTable(HandledTick(so_far, batch[n]))
    BY <2>1, <2>2, <2>3, TickSaved
  <2>6. QED
    BY <2>4, <2>5
<1> HIDE DEF S
<1>3. Len(batch) \in Nat
  BY LenProperties
<1>4. Handled(batch) \in S
  BY <1>1, <1>2, <1>3, HandledInduction
<1>5. QED
  BY <1>4 DEF S

-----------------------------------------------------------------------------
(* The inductive invariant of the candle table.  While ticks come within   *)
(* their minute and one process writes, every stored slot has elapsed, and *)
(* what is open is still to be written; and in a calm run the open bars,   *)
(* as the stored ones, are sums of the stored minutes.                     *)
Steady == perils \cap {"late", "restart"} = {}

TableInv ==
  /\ now \in 0 .. MaxTime
  /\ rows \in Tables
  /\ Steady => TableOK(engine, rows)
  /\ Steady /\ phase # "ended" => Elapsed(rows, now)
  /\ Calm => Agree(engine, rows)

LEMMA CalmIsSteady == Calm => Steady /\ {"gap", "fault", "restart", "late"} \cap perils = {}
BY DEF Calm, Steady

LEMMA FreeBefore ==
  ASSUME NEW e, NEW at, EngineOK(e, at), NEW table, NEW saved, Extends(table, saved),
         TableOK(e, saved), table \in Tables, AllAligned(table)
  PROVE  TableOK(e, table)
<1>1. Free(e, saved)
  BY DEF TableOK
<1>2. ASSUME NEW w \in Intervals, NEW s \in 0 .. MaxTime, saved[<<w, s>>] = NoBar
      PROVE  table[<<w, s>>] = NoBar
  <2>1. <<w, s>> \in Keys
    BY KeyFacts
  <2>2. QED
    BY <1>2, <2>1 DEF Extends
<1>3. ASSUME NEW w \in Widths, e.open[w] # NoBar PROVE table[<<w, e.open[w].start>>] = NoBar
  BY <1>1, <1>2, <1>3, OpenFacts, WidthFacts DEF Free
<1>4. ASSUME e.open[1] # NoBar, NEW w \in Intervals
      PROVE  table[<<w, bucket_start(e.open[1].start, w)>>] = NoBar
  BY <1>1, <1>2, <1>4, OpenFacts DEF Free
<1>5. QED
  BY <1>3, <1>4 DEF Free, TableOK

(* An engine whose step is saved, or is not.                               *)
LEMMA SavedOrNot ==
  ASSUME NEW e, NEW at, EngineOK(e, at), NEW step, EngineOK(step.engine, at),
         NEW table, TableOK(e, table), TabledStep(e, table, step)
  PROVE  /\ TableOK(step.engine, SaveCandles(table, step.done))
         /\ TableOK(step.engine, table)
         /\ Extends(table, SaveCandles(table, step.done))
         /\ Agree(e, table) => Agree(step.engine, SaveCandles(table, step.done))
<1> DEFINE saved == SaveCandles(table, step.done)
<1>1. /\ TableOK(step.engine, saved) /\ Extends(table, saved)
      /\ Agree(e, table) => Agree(step.engine, saved)
  BY DEF TabledStep
<1>2. table \in Tables /\ AllAligned(table)
  BY DEF TableOK
<1> HIDE DEF saved
<1>3. TableOK(step.engine, table)
  BY <1>1, <1>2, FreeBefore
<1>4. QED
  BY <1>1, <1>3 DEF saved

LEMMA FreshTabled ==
  ASSUME NEW table \in Tables, AllAligned(table)
  PROVE  TableOK(Fresh, table)
<1>1. \A w \in Intervals : Fresh.open[w] = NoBar
  BY DEF Fresh
<1>2. QED
  BY <1>1, WidthFacts DEF TableOK, Free

LEMMA EmptyTable ==
  LET none == [key \in Keys |-> NoBar]
  IN  /\ none \in Tables /\ AllAligned(none) /\ Elapsed(none, 0) /\ Agree(Fresh, none)
<1> DEFINE none == [key \in Keys |-> NoBar]
<1>1. none \in Tables
  BY DEF Tables
<1>2. \A w \in Intervals : \A s \in 0 .. MaxTime : none[<<w, s>>] = NoBar
  BY KeyFacts
<1>3. \A w \in Intervals : Fresh.open[w] = NoBar
  BY DEF Fresh
<1> HIDE DEF none
<1>4. AllAligned(none) /\ Elapsed(none, 0)
  BY <1>2 DEF AllAligned, Elapsed
<1>5. StoredAgree(none) /\ OpenAgree(Fresh, none)
  BY <1>2, <1>3, WidthFacts DEF StoredAgree, OpenAgree
<1>6. MinutesCovered(Fresh, none) /\ NothingLater(Fresh, none)
  BY <1>2, <1>3, WidthFacts DEF MinutesCovered, NothingLater
<1>7. QED
  BY <1>1, <1>4, <1>5, <1>6 DEF Agree, none

(* A step keeps the invariant, and the rows that are written already.      *)
TableStep == TableInv' /\ (Steady => Extends(rows, rows'))

LEMMA TableNext ==
  ASSUME TableInv, perils' = perils, now' = now, rows' \in Tables,
         Steady => /\ TableOK(engine', rows') /\ Extends(rows, rows')
                   /\ phase' # "ended" => Elapsed(rows', now),
         Calm => Agree(engine', rows')
  PROVE  TableStep
BY DEF TableInv, TableStep, Steady, Calm

LEMMA ReceiveKeeps == BookInv /\ TableInv /\ ReceiveTicks => TableStep
<1> SUFFICES ASSUME BookInv, TableInv, ReceiveTicks PROVE TableStep
  OBVIOUS
<1>1. PICK size \in 1 .. MaxBatch : \E batch \in [1 .. size -> Ticks] :
         /\ \A i \in DOMAIN batch :
              batch[i].time = now \/ ("late" \in perils /\ batch[i].time <= now)
         /\ HandleTicks(batch)
  BY DEF ReceiveTicks
<1>2. PICK batch \in [1 .. size -> Ticks] :
         /\ \A i \in DOMAIN batch :
              batch[i].time = now \/ ("late" \in perils /\ batch[i].time <= now)
         /\ HandleTicks(batch)
  BY <1>1
<1>3. batch \in Seq(Ticks) /\ DOMAIN batch = 1 .. Len(batch)
  BY ServiceAssumption
<1> DEFINE step == Handled(batch)
           saved == SaveCandles(rows, step.done)
<1>4. /\ phase = "running" /\ engine' = step.engine /\ perils' = perils /\ now' = now
      /\ rows' = saved \/ (rows' = rows /\ "fault" \in perils)
  BY <1>2 DEF HandleTicks, Raises
<1>5. step \in SoFars /\ HandledBook(step)
  BY <1>3, BatchHandled
<1>6. EngineOK(step.engine, step.last) /\ step.done \in Dones
  BY <1>5 DEF HandledBook, Book, SoFars
<1>7. rows \in Tables /\ now \in Nat
  BY ServiceAssumption DEF TableInv
<1>8. saved \in Tables
  BY <1>6, <1>7, SavesInTurn
<1>9. ASSUME Steady
      PROVE  /\ TableOK(step.engine, saved) /\ Extends(rows, saved) /\ Elapsed(saved, now)
             /\ Agree(engine, rows) => Agree(step.engine, saved)
  <2>1. \A i \in 1 .. Len(batch) : batch[i].time = now
    BY <1>2, <1>3, <1>9 DEF Steady
  <2>2. TableOK(engine, rows) /\ Elapsed(rows, now)
    BY <1>4, <1>9 DEF TableInv
  <2>3. HandledTable(step)
    BY <1>3, <1>7, <2>1, <2>2, BatchSaved
  <2> HIDE DEF step
  <2>4. QED
    BY <2>3 DEF HandledTable
<1> HIDE DEF step, saved
<1>10. CASE rows' = saved
  <2>1. Calm => Agree(engine', rows')
    BY <1>4, <1>9, <1>10, CalmIsSteady DEF TableInv
  <2>2. QED
    BY <1>4, <1>8, <1>9, <1>10, <2>1, TableNext
<1>11. CASE rows' = rows /\ "fault" \in perils
  <2>1. ~Calm
    BY <1>11, CalmIsSteady
  <2>2. ASSUME Steady PROVE /\ TableOK(engine', rows') /\ Extends(rows, rows')
                            /\ Elapsed(rows', now)
    <3>1. AllAligned(rows) /\ Elapsed(rows, now)
      BY <1>4, <2>2 DEF TableInv, TableOK
    <3>2. TableOK(step.engine, rows)
      BY <1>6, <1>7, <1>9, <2>2, <3>1, FreeBefore
    <3>3. Extends(rows, rows)
      BY DEF Extends
    <3>4. QED
      BY <1>4, <1>11, <3>1, <3>2, <3>3
  <2>3. QED
    BY <1>4, <1>7, <1>11, <2>1, <2>2, TableNext
<1>12. QED
  BY <1>4, <1>10, <1>11

LEMMA FlushKeeps == BookInv /\ TableInv /\ Flush => TableStep
<1> SUFFICES ASSUME BookInv, TableInv, Flush PROVE TableStep
  OBVIOUS
<1> DEFINE step == flush(engine, now)
           saved == SaveCandles(rows, step.done)
<1>1. /\ phase = "running" /\ engine' = step.engine /\ perils' = perils /\ now' = now
      /\ rows' = saved \/ (rows' = rows /\ "fault" \in perils)
  BY DEF Flush, FlushAt
<1>2. EngineOK(engine, last)
  BY DEF BookInv, Book
<1>3. EngineOK(step.engine, last) /\ step.done \in Dones
  BY <1>2, FlushCloses DEF Closes
<1>4. rows \in Tables /\ now \in Nat
  BY ServiceAssumption DEF TableInv
<1>5. saved \in Tables
  BY <1>3, <1>4, SavesInTurn
<1>6. ASSUME Steady
      PROVE  /\ TableOK(step.engine, saved) /\ TableOK(step.engine, rows) /\ Extends(rows, saved)
             /\ Elapsed(saved, now) /\ Elapsed(rows, now)
             /\ Agree(engine, rows) => Agree(step.engine, saved)
  <2>1. TableOK(engine, rows) /\ Elapsed(rows, now)
    BY <1>1, <1>6 DEF TableInv
  <2>2. TabledStep(engine, rows, step) /\ ElapsedStep(rows, step, now)
    BY <1>2, <1>4, <2>1, FlushTabled
  <2> HIDE DEF step
  <2>3. /\ TableOK(step.engine, saved) /\ TableOK(step.engine, rows) /\ Extends(rows, saved)
        /\ Agree(engine, rows) => Agree(step.engine, saved)
    BY <1>2, <1>3, <2>1, <2>2, SavedOrNot
  <2>4. Elapsed(saved, now)
    BY <2>1, <2>2 DEF ElapsedStep
  <2>5. QED
    BY <2>1, <2>3, <2>4
<1> HIDE DEF step, saved
<1>7. CASE rows' = saved
  <2>1. Calm => Agree(engine', rows')
    BY <1>1, <1>6, <1>7, CalmIsSteady DEF TableInv
  <2>2. QED
    BY <1>1, <1>5, <1>6, <1>7, <2>1, TableNext
<1>8. CASE rows' = rows /\ "fault" \in perils
  <2>1. ~Calm
    BY <1>8, CalmIsSteady
  <2>2. Extends(rows, rows)
    BY DEF Extends
  <2>3. QED
    BY <1>1, <1>4, <1>6, <1>8, <2>1, <2>2, TableNext
<1>9. QED
  BY <1>1, <1>7, <1>8

LEMMA FinaliseKeeps == BookInv /\ TableInv /\ Finalise => TableStep
<1> SUFFICES ASSUME BookInv, TableInv, Finalise PROVE TableStep
  OBVIOUS
<1> DEFINE step == close_all(engine)
           saved == SaveCandles(rows, step.done)
<1>1. /\ phase' = "ended" /\ perils' = perils /\ now' = now
      /\ \/ engine' = engine /\ rows' = rows
         \/ engine' = step.engine /\ rows' = saved
         \/ engine' = step.engine /\ rows' = rows /\ "fault" \in perils
  BY DEF Finalise
<1>2. EngineOK(engine, last)
  BY DEF BookInv, Book
<1>3. EngineOK(step.engine, last) /\ step.done \in Dones
  BY <1>2, CloseAllCloses DEF Closes
<1>4. rows \in Tables
  BY DEF TableInv
<1>5. saved \in Tables
  BY <1>3, <1>4, SavesInTurn
<1>6. ASSUME Steady
      PROVE  /\ TableOK(step.engine, saved) /\ TableOK(step.engine, rows) /\ Extends(rows, saved)
             /\ Agree(engine, rows) => Agree(step.engine, saved)
  <2>1. TableOK(engine, rows)
    BY <1>6 DEF TableInv
  <2>2. TabledStep(engine, rows, step)
    BY <1>2, <2>1, CloseAllTabled
  <2> HIDE DEF step
  <2>3. QED
    BY <1>2, <1>3, <2>1, <2>2, SavedOrNot
<1> HIDE DEF step, saved
<1>7. Extends(rows, rows)
  BY DEF Extends
<1>8. CASE engine' = engine /\ rows' = rows
  <2>1. (Steady => TableOK(engine', rows')) /\ (Calm => Agree(engine', rows'))
    BY <1>8 DEF TableInv
  <2>2. QED
    BY <1>1, <1>4, <1>7, <1>8, <2>1, TableNext
<1>9. CASE engine' = step.engine /\ rows' = saved
  <2>1. Calm => Agree(engine', rows')
    BY <1>6, <1>9, CalmIsSteady DEF TableInv
  <2>2. QED
    BY <1>1, <1>5, <1>6, <1>9, <2>1, TableNext
<1>10. CASE engine' = step.engine /\ rows' = rows /\ "fault" \in perils
  <2>1. ~Calm
    BY <1>10, CalmIsSteady
  <2>2. QED
    BY <1>1, <1>4, <1>6, <1>7, <1>10, <2>1, TableNext
<1>11. QED
  BY <1>1, <1>8, <1>9, <1>10

LEMMA OthersKeep ==
  TableInv /\ (HandleGap \/ HandleConnection \/ StreamEnds \/ RequestStop \/ Restart
                \/ AdvanceClock \/ UNCHANGED vars) => TableStep
<1> SUFFICES ASSUME TableInv, HandleGap \/ HandleConnection \/ StreamEnds \/ RequestStop
                                \/ Restart \/ AdvanceClock \/ UNCHANGED vars
             PROVE  TableStep
  OBVIOUS
<1>1. Extends(rows, rows)
  BY DEF Extends
<1>2. rows \in Tables /\ (Steady => AllAligned(rows))
  BY DEF TableInv, TableOK
<1>3. CASE HandleGap
  <2>1. /\ "gap" \in perils /\ phase = "running" /\ perils' = perils /\ now' = now /\ rows' = rows
        /\ engine' = Fresh \/ engine' = engine
    BY <1>3 DEF HandleGap
  <2>2. ~Calm
    BY <2>1, CalmIsSteady
  <2>3. Steady => TableOK(engine', rows') /\ Elapsed(rows', now)
    BY <1>2, <2>1, FreshTabled DEF TableInv
  <2>4. QED
    BY <1>1, <1>2, <2>1, <2>2, <2>3, TableNext
<1>4. CASE HandleConnection \/ StreamEnds \/ RequestStop \/ UNCHANGED vars
  <2>1. /\ perils' = perils /\ now' = now /\ rows' = rows /\ engine' = engine
        /\ phase = "running" \/ phase' = phase
    BY <1>4 DEF HandleConnection, StreamEnds, RequestStop, vars
  <2>2. QED
    BY <1>1, <1>2, <2>1, TableNext DEF TableInv
<1>5. CASE Restart
  <2>1. "restart" \in perils /\ perils' = perils /\ now' = now /\ rows' = rows
    BY <1>5 DEF Restart
  <2>2. ~Steady /\ ~Calm
    BY <2>1, CalmIsSteady DEF Steady
  <2>3. QED
    BY <1>2, <2>1, <2>2, TableNext
<1>6. CASE AdvanceClock
  <2>1. /\ now < MaxTime /\ now' = now + 1
        /\ UNCHANGED <<perils, engine, rows, phase>>
    BY <1>6 DEF AdvanceClock
  <2>2. now \in 0 .. MaxTime /\ MaxTime \in Nat
    BY ServiceAssumption DEF TableInv
  <2>3. now' \in 0 .. MaxTime
    BY <2>1, <2>2
  <2>4. Elapsed(rows, now) => Elapsed(rows', now')
    <3>1. SUFFICES ASSUME Elapsed(rows, now), NEW w \in Intervals, NEW s \in 0 .. MaxTime,
                          rows[<<w, s>>] # NoBar
                   PROVE  s + w <= now + 1
      BY <2>1 DEF Elapsed
    <3>2. s + w <= now /\ s \in Nat /\ w \in Nat
      BY <2>2, <3>1, WidthFacts DEF Elapsed
    <3>3. QED
      BY <2>2, <3>2
  <2>5. QED
    BY <1>1, <2>1, <2>3, <2>4 DEF TableInv, TableStep, Steady, Calm
<1>7. QED
  BY <1>3, <1>4, <1>5, <1>6

LEMMA TableKept == BookInv /\ TableInv /\ [Next]_vars => TableStep
BY ReceiveKeeps, FlushKeeps, FinaliseKeeps, OthersKeep DEF Next

LEMMA TableHolds == Spec => [](BookInv /\ TableInv)
<1>1. Init => TableInv
  <2> SUFFICES ASSUME Init PROVE TableInv
    OBVIOUS
  <2>1. /\ now = 0 /\ engine = Fresh /\ rows = [key \in Keys |-> NoBar]
    BY DEF Init
  <2>2. 0 \in 0 .. MaxTime
    BY ServiceAssumption
  <2>3. TableOK(engine, rows)
    BY <2>1, EmptyTable, FreshTabled
  <2>4. QED
    BY <2>1, <2>2, <2>3, EmptyTable DEF TableInv
<1>2. BookInv /\ TableInv /\ [Next]_vars => TableInv'
  BY TableKept DEF TableStep
<1>3. QED
  BY <1>1, <1>2, BookHolds, PTL DEF Spec

(* For any intervals, messages, gaps, faults and stops: as long as ticks   *)
(* come within their minute and one process writes, a stored bar is never  *)
(* written with other values.                                              *)
THEOREM StoredBarsAreFinal == Spec => CompletedBarsAreFinal
<1> DEFINE Final == perils \cap {"late", "restart"} = {} =>
                      \A key \in Keys : rows[key] # NoBar => rows'[key] = rows[key]
<1>1. BookInv /\ TableInv /\ [Next]_vars => Final
  BY TableKept DEF TableStep, Steady, Extends
<1>2. BookInv /\ TableInv /\ [Next]_vars => [Final]_vars
  BY <1>1
<1> HIDE DEF Final
<1>3. Spec => [][Final]_vars
  BY <1>2, TableHolds, PTL DEF Spec
<1>4. QED
  BY <1>3 DEF CompletedBarsAreFinal, Final

(* For any intervals and any calm run: a stored wide bar is the sum of the *)
(* stored minutes of its slot.                                             *)
THEOREM WideBarsAreSums == Spec => []StoredBarsAgree
<1>1. TableInv => StoredBarsAgree
  <2>1. ASSUME NEW start, NEW w PROVE MinutesIn(rows, start, w) = MinutesOf(start, w)
    BY DEF MinutesIn, MinutesOf, MinuteIn, Minute
  <2>2. SUFFICES ASSUME TableInv, Calm, NEW w \in Widths, NEW start \in 0 .. MaxTime,
                        rows[<<w, start>>] # NoBar
                 PROVE  SumOf(rows[<<w, start>>], MinutesOf(start, w), w)
    BY DEF StoredBarsAgree, SumOf, FirstIs
  <2>3. StoredAgree(rows)
    BY <2>2 DEF TableInv, Agree
  <2>4. QED
    BY <2>1, <2>2, <2>3 DEF StoredAgree
<1>2. QED
  BY <1>1, TableHolds, PTL
=============================================================================
