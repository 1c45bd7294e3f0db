---------------------------- MODULE HistoryProofs ----------------------------
(***************************************************************************)
(* Proofs about how history is fetched, stored and read, for any range,    *)
(* windows, intervals, retry policy, vendor, page size and live bars.      *)
(* First the throttle its requests go through, for any number of tasks,    *)
(* any limit and any period.  Then the backfill, alone and                 *)
(* unconstrained by what else uses the table (HistoricalIngestion's Spec): *)
(* the table keeps its type, no stored bar ever changes, no wider bar is   *)
(* stored without its minutes, a completed run has left nothing out, and a *)
(* report tells of each bar once.  Last the table with all its users       *)
(* (TableSpec): a row keeps its source; and while the backfill goes on     *)
(* inserting, a load by pages is never refused for want of minutes and     *)
(* reads what stays in the table.                                          *)
(***************************************************************************)
EXTENDS CandleTable, RequestThrottle, FiniteSetTheorems, TLAPS

-----------------------------------------------------------------------------
(* The throttle.                                                           *)

(* Starts popped from the deque so far.                                    *)
Gone == Len(begun) - Len(starts)

DequesTyped ==
  /\ starts \in Seq(Int) /\ begun \in Seq(Int)
  /\ clock \in Int

(* The deque is the end of the history, and what was popped is old enough  *)
(* never to matter again.                                                  *)
DequeIsRecentHistory ==
  /\ Len(starts) <= Len(begun)
  /\ \A k \in 1 .. Len(starts) : starts[k] = begun[Gone + k]
  /\ \A k \in 1 .. Gone : clock - begun[k] >= Period

ThrottleInv == DequesTyped /\ DequeIsRecentHistory /\ AtMostMaxPerPeriod

(* Popping keeps the deque the end of the history.                         *)
LEMMA PoppedStartsAreOld ==
  ASSUME DequesTyped, DequeIsRecentHistory, NEW n \in 0 .. Len(starts), Pops(n)
  PROVE  /\ Kept(n) \in Seq(Int)
         /\ Len(Kept(n)) = Len(starts) - n
         /\ \A k \in 1 .. Len(Kept(n)) : Kept(n)[k] = begun[Gone + n + k]
         /\ \A k \in 1 .. Gone + n : clock - begun[k] >= Period
<1>1. Kept(n) \in Seq(Int) /\ Len(Kept(n)) = Len(starts) - n
  BY DEF DequesTyped, Kept
<1>2. \A k \in 1 .. Len(Kept(n)) : Kept(n)[k] = starts[n + k]
  BY <1>1 DEF DequesTyped, Kept
<1>3. \A k \in 1 .. Len(Kept(n)) : Kept(n)[k] = begun[Gone + n + k]
  <2> SUFFICES ASSUME NEW k \in 1 .. Len(Kept(n))
               PROVE  Kept(n)[k] = begun[Gone + n + k]
    OBVIOUS
  <2>1. n + k \in 1 .. Len(starts)
    BY <1>1 DEF DequesTyped
  <2>2. starts[n + k] = begun[Gone + (n + k)]
    BY <2>1 DEF DequeIsRecentHistory
  <2>3. Gone + (n + k) = Gone + n + k
    BY DEF Gone, DequesTyped
  <2>4. QED
    BY <1>2, <2>2, <2>3
<1>4. \A k \in 1 .. Gone + n : clock - begun[k] >= Period
  <2> SUFFICES ASSUME NEW k \in 1 .. Gone + n
               PROVE  clock - begun[k] >= Period
    OBVIOUS
  <2>0. Gone \in Nat
    BY DEF Gone, DequesTyped, DequeIsRecentHistory
  <2>1. CASE k <= Gone
    BY <2>0, <2>1 DEF DequeIsRecentHistory
  <2>2. CASE k > Gone
    <3>1. k - Gone \in 1 .. n /\ Gone + (k - Gone) = k
      BY <2>0, <2>2
    <3>2. k - Gone \in 1 .. Len(starts)
      BY <3>1 DEF DequesTyped
    <3>3. starts[k - Gone] = begun[k]
      BY <3>1, <3>2 DEF DequeIsRecentHistory
    <3>4. QED
      BY <3>1, <3>3 DEF Pops, Expired
  <2>3. QED
    BY <2>0, <2>1, <2>2
<1>5. QED
  BY <1>1, <1>3, <1>4

LEMMA BeginKeepsInv ==
  ASSUME ThrottleInv, NEW c \in Callers, BeginRequest(c)
  PROVE  ThrottleInv'
<1> USE ThrottleAssumption
<1>1. PICK n \in 0 .. Len(starts) :
        Pops(n) /\ Room(Kept(n)) /\ starts' = Append(Kept(n), clock)
  BY DEF BeginRequest
<1>2. begun' = Append(begun, clock) /\ clock' = clock
  BY DEF BeginRequest
<1>3. /\ Kept(n) \in Seq(Int)
      /\ Len(Kept(n)) = Len(starts) - n
      /\ \A k \in 1 .. Len(Kept(n)) : Kept(n)[k] = begun[Gone + n + k]
      /\ \A k \in 1 .. Gone + n : clock - begun[k] >= Period
  BY <1>1, PoppedStartsAreOld DEF ThrottleInv
<1>4. DequesTyped'
  BY <1>1, <1>2, <1>3 DEF ThrottleInv, DequesTyped
<1>5. /\ Len(starts') = Len(starts) - n + 1 /\ Len(begun') = Len(begun) + 1
      /\ Gone' = Gone + n /\ Gone \in Nat /\ Len(begun) \in Nat /\ Len(starts) \in Nat
  <2>1. /\ Len(begun) \in Nat /\ Len(starts) \in Nat /\ n \in Nat
        /\ Len(starts) <= Len(begun)
    BY DEF ThrottleInv, DequesTyped, DequeIsRecentHistory
  <2>2. Len(starts') = Len(starts) - n + 1
    <3>1. clock \in Int
      BY DEF ThrottleInv, DequesTyped
    <3>2. Len(Append(Kept(n), clock)) = Len(Kept(n)) + 1
      BY <1>3, <3>1
    <3>3. QED
      BY <1>1, <1>3, <3>2
  <2>3. Len(begun') = Len(begun) + 1
    BY <1>2 DEF ThrottleInv, DequesTyped
  <2>4. QED
    BY <2>1, <2>2, <2>3 DEF Gone
<1>6. \A k \in 1 .. Len(begun) : begun'[k] = begun[k] /\ begun[k] \in Int
  BY <1>2 DEF ThrottleInv, DequesTyped
<1>7. begun'[Len(begun) + 1] = clock
  BY <1>2 DEF ThrottleInv, DequesTyped
<1>8. DequeIsRecentHistory'
  <2>1. Len(starts') <= Len(begun')
    BY <1>5 DEF ThrottleInv, DequeIsRecentHistory
  <2>2. \A k \in 1 .. Len(starts') : starts'[k] = begun'[Gone' + k]
    <3> SUFFICES ASSUME NEW k \in 1 .. Len(starts')
                 PROVE  starts'[k] = begun'[Gone + n + k]
      BY <1>5
    <3>1. CASE k <= Len(Kept(n))
      <4>1. starts'[k] = Kept(n)[k]
        BY <1>1, <1>3, <3>1, <1>5
      <4>2. Gone + n + k \in 1 .. Len(begun)
        BY <1>3, <1>5, <3>1 DEF Gone
      <4>3. QED
        BY <1>3, <1>6, <3>1, <4>1, <4>2, <1>5
    <3>2. CASE k = Len(Kept(n)) + 1
      <4>1. starts'[k] = clock
        BY <1>1, <1>3, <3>2 DEF ThrottleInv, DequesTyped
      <4>2. Gone + n + k = Len(begun) + 1
        BY <1>3, <1>5, <3>2 DEF Gone
      <4>3. QED
        BY <1>7, <4>1, <4>2
    <3>3. QED
      BY <1>3, <1>5, <3>1, <3>2
  <2>3. \A k \in 1 .. Gone' : clock' - begun'[k] >= Period
    <3>1. \A k \in 1 .. Gone' : k \in 1 .. Len(begun)
      BY <1>5 DEF Gone
    <3>2. QED
      BY <1>2, <1>3, <1>5, <1>6, <3>1
  <2>4. QED
    BY <2>1, <2>2, <2>3 DEF DequeIsRecentHistory
<1>9. AtMostMaxPerPeriod'
  <2> SUFFICES ASSUME NEW k \in 1 .. Len(begun') - MaxRequests
               PROVE  begun'[k + MaxRequests] - begun'[k] >= Period
    BY DEF AtMostMaxPerPeriod
  <2>1. k \in 1 .. Len(begun)
    BY <1>5
  <2>2. CASE k + MaxRequests <= Len(begun)
    <3>1. k \in 1 .. Len(begun) - MaxRequests /\ k + MaxRequests \in 1 .. Len(begun)
      BY <1>5, <2>2
    <3>2. QED
      BY <1>6, <2>1, <3>1 DEF ThrottleInv, AtMostMaxPerPeriod
  <2>3. CASE k + MaxRequests = Len(begun) + 1
    <3>1. k \in 1 .. Gone + n
      BY <1>1, <1>3, <1>5, <2>3 DEF Room, Gone
    <3>2. QED
      BY <1>3, <1>6, <1>7, <2>1, <2>3, <3>1
  <2>4. QED
    BY <1>5, <2>2, <2>3
<1>10. QED
  BY <1>4, <1>8, <1>9 DEF ThrottleInv

LEMMA SleepKeepsInv ==
  ASSUME ThrottleInv, NEW c \in Callers, GoToSleep(c)
  PROVE  ThrottleInv'
<1>1. PICK n \in 0 .. Len(starts) : Pops(n) /\ starts' = Kept(n)
  BY DEF GoToSleep
<1>2. begun' = begun /\ clock' = clock
  BY DEF GoToSleep
<1>3. /\ Kept(n) \in Seq(Int)
      /\ Len(Kept(n)) = Len(starts) - n
      /\ \A k \in 1 .. Len(Kept(n)) : Kept(n)[k] = begun[Gone + n + k]
      /\ \A k \in 1 .. Gone + n : clock - begun[k] >= Period
  BY <1>1, PoppedStartsAreOld DEF ThrottleInv
<1>4. Gone' = Gone + n
  BY <1>1, <1>2, <1>3 DEF Gone, ThrottleInv, DequesTyped
<1>5. DequesTyped' /\ AtMostMaxPerPeriod'
  BY <1>1, <1>2, <1>3 DEF ThrottleInv, DequesTyped, AtMostMaxPerPeriod
<1>6. DequeIsRecentHistory'
  BY <1>1, <1>2, <1>3, <1>4 DEF ThrottleInv, DequesTyped, DequeIsRecentHistory
<1>7. QED
  BY <1>5, <1>6 DEF ThrottleInv

LEMMA ThrottleInvInductive == ThrottleInv /\ [ThrottleNext]_throttleVars => ThrottleInv'
<1> SUFFICES ASSUME ThrottleInv, [ThrottleNext]_throttleVars PROVE ThrottleInv'
  OBVIOUS
<1>1. CASE Tick
  <2>1. Gone' = Gone /\ begun' = begun /\ starts' = starts /\ clock' = clock + 1
    BY <1>1 DEF Tick, Gone
  <2>2. \A k \in 1 .. Gone : clock' - begun[k] >= Period
    <3> SUFFICES ASSUME NEW k \in 1 .. Gone PROVE clock' - begun[k] >= Period
      OBVIOUS
    <3>1. k \in 1 .. Len(begun)
      BY DEF Gone, ThrottleInv, DequesTyped, DequeIsRecentHistory
    <3>2. begun[k] \in Int /\ clock \in Int
      BY <3>1 DEF ThrottleInv, DequesTyped
    <3>3. QED
      BY <2>1, <3>2, ThrottleAssumption DEF ThrottleInv, DequeIsRecentHistory
  <2>3. QED
    BY <2>1, <2>2 DEF ThrottleInv, DequesTyped, DequeIsRecentHistory, AtMostMaxPerPeriod
<1>2. CASE \E c \in Callers : Acquire(c)
  BY <1>2 DEF Acquire, ThrottleInv, DequesTyped, DequeIsRecentHistory, AtMostMaxPerPeriod, Gone
<1>3. CASE \E c \in Callers : BeginRequest(c)
  BY <1>3, BeginKeepsInv
<1>4. CASE \E c \in Callers : GoToSleep(c)
  BY <1>4, SleepKeepsInv
<1>5. CASE UNCHANGED throttleVars
  BY <1>5 DEF throttleVars, ThrottleInv, DequesTyped, DequeIsRecentHistory, AtMostMaxPerPeriod, Gone
<1>6. QED
  BY <1>1, <1>2, <1>3, <1>4, <1>5 DEF ThrottleNext

(* "At most max_requests request starts in any period", for any number of  *)
(* tasks sharing the throttle.                                             *)
THEOREM RateIsLimited == ThrottleSpec => []AtMostMaxPerPeriod
<1>1. ThrottleInit => ThrottleInv
  BY ThrottleAssumption DEF ThrottleInit, ThrottleInv, DequesTyped, DequeIsRecentHistory,
     AtMostMaxPerPeriod, Gone
<1>2. ThrottleInv => AtMostMaxPerPeriod
  BY DEF ThrottleInv
<1>3. QED
  BY <1>1, <1>2, ThrottleInvInductive, PTL DEF ThrottleSpec

-----------------------------------------------------------------------------
(* The backfill.                                                           *)

(* What the open transaction read is still there: rows are never removed.  *)
KnownIsStored ==
  pc = "commit" =>
    \A s \in Minutes : known[s] # None => stored[Saved][s] # None

(* Once the minutes of the window have been saved they are in the table,   *)
(* which is why the wider bars made of them may follow.                    *)
MinutesComeFirst ==
  (pc \in {"read", "commit"} /\ saving > 1) =>
    \A m \in DOMAIN fetched : stored["1m"][m] # None

(* No stored bar reaches beyond the minutes of the model.                  *)
SlotsFit ==
  \A i \in Names, s \in Minutes : stored[i][s] # None => Slot(s, Width[i]) \subseteq Minutes

(* A minute at hand that was still forming was foretold, as is whatever is *)
(* still to come before this run's as_of.                                  *)
FormingWasForetold ==
  /\ \A m \in DOMAIN fetched : fetched[m] = Forming => m \in foretold
  /\ \A m \in Minutes : (now <= m /\ m < as_of) => m \in foretold

IngestInv ==
  /\ SlotsFit /\ TypeOK
  /\ KnownIsStored /\ MinutesComeFirst /\ FormingWasForetold /\ StoredBarsAreWhole

-----------------------------------------------------------------------------
LEMMA IntervalFacts ==
  /\ \A j \in DOMAIN Intervals : Intervals[j] \in Names
  /\ "1m" \in Names /\ Intervals[1] = "1m" /\ 1 \in DOMAIN Intervals
  /\ \A i \in Names : Width[i] \in Nat \ {0}
  /\ \A j \in DOMAIN Intervals : Intervals[j] = "1m" => j = 1
BY IngestionAssumption DEF Names

(* A batch built from the fetched minutes holds rows, under starts whose   *)
(* every minute was fetched.                                               *)
LEMMA BatchRows ==
  ASSUME DOMAIN fetched \subseteq Minutes, fetched \in [DOMAIN fetched -> Served],
         NEW i \in Names
  PROVE  LET B == Aggregate(fetched, Width[i], Source)
         IN  /\ DOMAIN B \subseteq Minutes
             /\ \A s \in DOMAIN B : /\ Slot(s, Width[i]) \subseteq DOMAIN fetched
                                    /\ B[s] \in RowsOf(s, Width[i])
                                    /\ B[s] # None
                                    /\ \A m \in Slot(s, Width[i]) : B[s].observed[m] = fetched[m]
<1> DEFINE B == Aggregate(fetched, Width[i], Source)
<1>1. DOMAIN B = WholeSlots(fetched, Width[i])
  BY DEF Aggregate
<1>2. DOMAIN B \subseteq Minutes
  BY <1>1 DEF WholeSlots
<1>3. ASSUME NEW s \in DOMAIN B
      PROVE  /\ Slot(s, Width[i]) \subseteq DOMAIN fetched /\ B[s] \in RowsOf(s, Width[i])
             /\ \A m \in Slot(s, Width[i]) : B[s].observed[m] = fetched[m]
  <2>1. Slot(s, Width[i]) \subseteq DOMAIN fetched
    BY <1>1 DEF WholeSlots
  <2>2. B[s] = [observed |-> [m \in Slot(s, Width[i]) |-> fetched[m]], source |-> Source]
    BY <1>1 DEF Aggregate, Row
  <2>3. [m \in Slot(s, Width[i]) |-> fetched[m]] \in [Slot(s, Width[i]) -> Served]
    BY <2>1
  <2>4. QED
    BY <2>1, <2>2, <2>3 DEF RowsOf
<1>4. \A s \in DOMAIN B : B[s] # None
  BY <1>2, <1>3, NoneAssumption
<1>5. QED
  BY <1>2, <1>3, <1>4

(* A minute is its own whole slot.                                         *)
LEMMA MinuteBatch ==
  ASSUME DOMAIN fetched \subseteq Minutes
  PROVE  DOMAIN Aggregate(fetched, Width["1m"], Source) = DOMAIN fetched
<1>1. Width["1m"] = 1
  BY IngestionAssumption
<1>2. \A s \in DOMAIN fetched : s % 1 = 0 /\ Slot(s, 1) = {s}
  BY IngestionAssumption DEF Minutes, Slot
<1>3. WholeSlots(fetched, 1) = DOMAIN fetched
  BY <1>2 DEF WholeSlots
<1>4. QED
  BY <1>1, <1>3 DEF Aggregate

-----------------------------------------------------------------------------
(* The one action that writes the table.                                   *)
LEMMA CommitWrites ==
  ASSUME TypeOK, CommitSave
  PROVE  /\ Saved \in Names
         /\ DOMAIN stored' = Names
         /\ \A i \in Names : DOMAIN stored'[i] = Minutes
         /\ \A i \in Names, s \in Minutes :
              /\ stored'[i][s] \in RowsOf(s, Width[i]) \cup {None}
              /\ stored[i][s] # None => stored'[i][s] = stored[i][s]
         /\ \A s \in DOMAIN Batch :
              known[s] = None => stored'[Saved][s] # None
         /\ \A i \in Names, s \in Minutes :
              (stored[i][s] = None /\ stored'[i][s] # None) =>
                i = Saved /\ s \in DOMAIN Batch /\ stored'[i][s] = Batch[s]
<1> DEFINE keys == NewKeys(known, Batch)
<1>1. Saved \in Names
  BY IntervalFacts DEF TypeOK, Saved
<1>2. /\ DOMAIN Batch \subseteq Minutes
      /\ \A s \in DOMAIN Batch : Batch[s] \in RowsOf(s, Width[Saved]) /\ Batch[s] # None
  BY <1>1, BatchRows DEF TypeOK, Batch
<1>3. stored' = [i \in Names |->
         IF i = Saved THEN WithInserted(stored[i], Batch, keys) ELSE stored[i]]
  BY DEF CommitSave
<1>4. \A s \in keys : stored[Saved][s] = None /\ s \in DOMAIN Batch /\ known[s] = None
  BY DEF CommitSave, Unique, NewKeys
<1>5. \A i \in Names : DOMAIN stored[i] = Minutes
  BY DEF TypeOK
<1>6. \A i \in Names, s \in Minutes :
        stored'[i][s] = IF i = Saved /\ s \in keys THEN Batch[s] ELSE stored[i][s]
  BY <1>3, <1>5 DEF WithInserted
<1>7. DOMAIN stored' = Names /\ \A i \in Names : DOMAIN stored'[i] = Minutes
  BY <1>3, <1>5 DEF WithInserted
<1>8. \A i \in Names, s \in Minutes :
        /\ stored'[i][s] \in RowsOf(s, Width[i]) \cup {None}
        /\ stored[i][s] # None => stored'[i][s] = stored[i][s]
  BY <1>2, <1>4, <1>6 DEF TypeOK
<1>9. \A s \in DOMAIN Batch : known[s] = None => stored'[Saved][s] # None
  BY <1>1, <1>2, <1>6 DEF NewKeys
<1>10. \A i \in Names, s \in Minutes :
         (stored[i][s] = None /\ stored'[i][s] # None) =>
           i = Saved /\ s \in DOMAIN Batch /\ stored'[i][s] = Batch[s]
  BY <1>4, <1>6
<1>11. QED
  BY <1>1, <1>7, <1>8, <1>9, <1>10

LEMMA WindowFacts ==
  ASSUME cursor \in Start .. End
  PROVE  Upper \in Start .. End /\ Wanted \subseteq Minutes
<1>1. Upper \in Start .. End
  BY IngestionAssumption DEF Upper
<1>2. QED
  BY <1>1, IngestionAssumption DEF Wanted, Minutes

LEMMA WindowTyped ==
  ASSUME IngestInv
  PROVE  /\ cursor \in Start .. End /\ now \in 0 .. Horizon
         /\ Start \in Nat /\ End \in Nat /\ cursor \in Nat /\ now \in Nat /\ as_of \in Nat
         /\ Upper \in Start .. End /\ Upper \in Nat /\ Upper <= End
         /\ Wanted \subseteq Minutes
<1>1. cursor \in Start .. End /\ now \in 0 .. Horizon /\ as_of \in Nat
  BY DEF IngestInv, TypeOK
<1>2. Upper \in Start .. End /\ Wanted \subseteq Minutes
  BY <1>1, WindowFacts
<1>3. Start \in Nat /\ End \in Nat /\ Horizon \in Nat
  BY IngestionAssumption
<1>4. QED
  BY <1>1, <1>2, <1>3

LEMMA CommitKeepsInv ==
  ASSUME IngestInv, CommitSave
  PROVE  IngestInv'
<1>1. /\ Saved \in Names
      /\ DOMAIN stored' = Names
      /\ \A i \in Names : DOMAIN stored'[i] = Minutes
      /\ \A i \in Names, s \in Minutes :
           /\ stored'[i][s] \in RowsOf(s, Width[i]) \cup {None}
           /\ stored[i][s] # None => stored'[i][s] = stored[i][s]
      /\ \A s \in DOMAIN Batch : known[s] = None => stored'[Saved][s] # None
      /\ \A i \in Names, s \in Minutes :
           (stored[i][s] = None /\ stored'[i][s] # None) =>
             i = Saved /\ s \in DOMAIN Batch /\ stored'[i][s] = Batch[s]
  BY CommitWrites DEF IngestInv
<1>2. /\ DOMAIN Batch \subseteq Minutes
      /\ \A s \in DOMAIN Batch :
           /\ Slot(s, Width[Saved]) \subseteq DOMAIN fetched
           /\ \A m \in Slot(s, Width[Saved]) : Batch[s].observed[m] = fetched[m]
  BY <1>1, BatchRows DEF IngestInv, TypeOK, Batch
<1>3. \A s \in DOMAIN Batch : stored'[Saved][s] # None
  <2> SUFFICES ASSUME NEW s \in DOMAIN Batch, known[s] # None PROVE stored'[Saved][s] # None
    BY <1>1
  <2>1. stored[Saved][s] # None
    BY <1>2 DEF IngestInv, KnownIsStored, CommitSave
  <2>2. QED
    BY <1>1, <1>2, <2>1
(* After this commit the minutes of the window are in the table.           *)
<1>4. \A m \in DOMAIN fetched : stored'["1m"][m] # None
  <2>1. CASE saving = 1
    <3>1. Saved = "1m"
      BY <2>1, IntervalFacts DEF Saved
    <3>2. DOMAIN Batch = DOMAIN fetched
      BY <3>1, MinuteBatch DEF Batch, IngestInv, TypeOK
    <3>3. QED
      BY <1>3, <3>1, <3>2
  <2>2. CASE saving # 1
    <3>1. saving > 1
      BY <2>2, IngestionAssumption DEF IngestInv, TypeOK
    <3>2. \A m \in DOMAIN fetched : stored["1m"][m] # None
      BY <3>1 DEF IngestInv, MinutesComeFirst, CommitSave
    <3>3. DOMAIN fetched \subseteq Minutes
      BY DEF IngestInv, TypeOK
    <3>4. QED
      BY <1>1, <3>2, <3>3, IntervalFacts
  <2>3. QED
    BY <2>1, <2>2
<1>5. SlotsFit'
  <2> SUFFICES ASSUME NEW i \in Names, NEW s \in Minutes, stored'[i][s] # None
               PROVE  Slot(s, Width[i]) \subseteq Minutes
    BY DEF SlotsFit
  <2>1. CASE stored[i][s] # None
    BY <2>1 DEF IngestInv, SlotsFit
  <2>2. CASE stored[i][s] = None
    BY <1>1, <1>2, <2>2 DEF IngestInv, TypeOK
  <2>3. QED
    BY <2>1, <2>2
<1>6. StoredBarsAreWhole'
  <2> SUFFICES ASSUME NEW i \in Names, NEW s \in Minutes, stored'[i][s] # None,
                      NEW m \in Slot(s, Width[i])
               PROVE  /\ stored'["1m"][m] # None
                      /\ stored'[i][s].observed[m] = Forming => m \in foretold
    BY DEF StoredBarsAreWhole, CommitSave
  <2>1. CASE stored[i][s] # None
    <3>1. stored["1m"][m] # None /\ m \in Minutes
          /\ (stored[i][s].observed[m] = Forming => m \in foretold)
      BY <2>1 DEF IngestInv, StoredBarsAreWhole, SlotsFit
    <3>2. QED
      BY <1>1, <2>1, <3>1, IntervalFacts
  <2>2. CASE stored[i][s] = None
    <3>1. /\ i = Saved /\ s \in DOMAIN Batch /\ stored'[i][s] = Batch[s]
          /\ m \in DOMAIN fetched /\ Batch[s].observed[m] = fetched[m]
      BY <1>1, <1>2, <2>2
    <3>2. fetched[m] = Forming => m \in foretold
      BY <3>1 DEF IngestInv, FormingWasForetold
    <3>3. QED
      BY <1>4, <3>1, <3>2
  <2>3. QED
    BY <2>1, <2>2
<1>7. pc' \in {"read", "fetch", "completed"}
  BY DEF CommitSave, NextSave, NextWindow
<1>8. KnownIsStored'
  BY <1>7 DEF KnownIsStored
<1>9. fetched' = fetched \/ (fetched' = Nothing /\ saving' = 1)
  BY DEF CommitSave, NextSave, NextWindow, WindowForgotten
<1>10. MinutesComeFirst' /\ FormingWasForetold'
  BY <1>4, <1>9 DEF MinutesComeFirst, FormingWasForetold, IngestInv, CommitSave, Nothing
<1>11. TypeOK'
  <2>1. Upper \in Start .. End
    BY WindowFacts DEF IngestInv, TypeOK
  <2>2. CASE saving = Len(Intervals)
    <3>1. NextWindow
      BY <2>2 DEF CommitSave, NextSave
    <3>2. /\ pc' \in Over \cup {"fetch"} /\ cursor' = Upper /\ failures' = 0
          /\ taken' = taken \cup DOMAIN fetched /\ fetched' = Nothing
          /\ saving' = 1 /\ known' = NoRows
      BY <3>1 DEF NextWindow, WindowForgotten, Over
    <3>3. DOMAIN Nothing = {} /\ Nothing \in [DOMAIN Nothing -> Served] /\ DOMAIN NoRows = Minutes
      BY DEF Nothing, NoRows
    <3>4. vendor' = vendor /\ now' = now /\ as_of' = as_of /\ offered' = offered
          /\ runs' = runs /\ foretold' = foretold
      BY DEF CommitSave
    <3>5. failures' \in 0 .. MaxAttempts
      BY <3>2, IngestionAssumption
    <3>6. QED
      BY <1>1, <2>1, <3>2, <3>3, <3>4, <3>5, IntervalFacts DEF IngestInv, TypeOK
  <2>3. CASE saving # Len(Intervals)
    <3>1. /\ pc' = "read" /\ saving' = saving + 1 /\ known' = NoRows
          /\ UNCHANGED <<cursor, failures, taken, fetched, vendor, now, foretold, as_of, offered, runs>>
      BY <2>3 DEF CommitSave, NextSave
    <3>2. saving' \in DOMAIN Intervals
      <4>1. saving \in DOMAIN Intervals
        BY DEF IngestInv, TypeOK
      <4>2. DOMAIN Intervals = 1 .. Len(Intervals) /\ Len(Intervals) \in Nat
        BY IngestionAssumption
      <4>3. QED
        BY <2>3, <3>1, <4>1, <4>2
    <3>3. DOMAIN NoRows = Minutes
      BY DEF NoRows
    <3>4. QED
      BY <1>1, <3>1, <3>2, <3>3 DEF IngestInv, TypeOK
  <2>4. QED
    BY <2>2, <2>3
<1>12. QED
  BY <1>5, <1>6, <1>8, <1>10, <1>11 DEF IngestInv

-----------------------------------------------------------------------------
(* The other steps leave the table alone.                                  *)
LEMMA FetchKeepsInv ==
  ASSUME IngestInv, FetchOk
  PROVE  IngestInv'
<1>1. /\ fetched' = [m \in Wanted |-> Serves(m)] /\ saving' = 1 /\ pc' = "read"
      /\ UNCHANGED <<stored, vendor, now, foretold, as_of, offered, cursor, failures, known, taken, runs>>
  BY DEF FetchOk, report
<1>2. \A m \in Wanted : /\ Serves(m) \in Served /\ m \in Minutes
                        /\ Serves(m) = Forming => m = now /\ m < as_of
  <2> SUFFICES ASSUME NEW m \in Wanted
               PROVE  /\ Serves(m) \in Served /\ m \in Minutes
                      /\ Serves(m) = Forming => m = now /\ m < as_of
    OBVIOUS
  <2>1. m \in Minutes /\ m \in Int /\ now \in Int /\ as_of \in Int
    BY WindowFacts, IngestionAssumption DEF IngestInv, TypeOK, Minutes
  <2>2. Serves(m) # Missing /\ m < as_of
    BY <2>1 DEF Wanted
  <2>3. vendor[m] \in Versions \cup {Missing} /\ Forming \notin Versions
    BY <2>1, IngestionAssumption DEF IngestInv, TypeOK
  <2>4. CASE m < now
    BY <2>1, <2>2, <2>3, <2>4 DEF Serves, Served
  <2>5. CASE ~(m < now)
    BY <2>1, <2>2, <2>5 DEF Serves, Served
  <2>6. QED
    BY <2>4, <2>5
<1>3. TypeOK'
  <2>1. 1 \in DOMAIN Intervals
    BY IntervalFacts
  <2>2. DOMAIN fetched' = Wanted /\ Wanted \subseteq Minutes
        /\ fetched' \in [DOMAIN fetched' -> Served]
    BY <1>1, <1>2
  <2>3. QED
    BY <1>1, <2>1, <2>2 DEF IngestInv, TypeOK, Over
<1>4. FormingWasForetold'
  <2>1. \A m \in Wanted : fetched'[m] = Forming => now <= m /\ m < as_of /\ m \in Minutes
    <3>1. now \in Int
      BY WindowTyped
    <3>2. QED
      BY <1>1, <1>2, <3>1
  <2>2. QED
    BY <1>1, <2>1 DEF FormingWasForetold, IngestInv
<1>5. QED
  BY <1>1, <1>3, <1>4 DEF IngestInv, KnownIsStored, MinutesComeFirst, StoredBarsAreWhole, SlotsFit

LEMMA ReadKeepsInv ==
  ASSUME IngestInv, ReadStored
  PROVE  IngestInv'
<1>1. /\ pc = "read" /\ known' = stored[Saved] /\ pc' = "commit" /\ Saved' = Saved
      /\ UNCHANGED <<stored, vendor, now, foretold, as_of, offered, cursor, failures, fetched, saving, taken, runs>>
  BY DEF ReadStored, Saved, report
<1>2. Saved \in Names
  BY IntervalFacts DEF IngestInv, TypeOK, Saved
<1>3. QED
  BY <1>1, <1>2 DEF IngestInv, TypeOK, KnownIsStored, MinutesComeFirst, FormingWasForetold,
                    StoredBarsAreWhole, SlotsFit, Over

LEMMA EndKeepsInv ==
  ASSUME IngestInv, Begin \/ FetchFails \/ Wake \/ FetchAborts \/ Crash
  PROVE  IngestInv'
<1>1. stored' = stored /\ vendor' = vendor /\ now' = now
  BY DEF Begin, FetchFails, Wake, FetchAborts, Crash, ReportLost
<1>2. pc' \in Over \cup {"fetch", "sleep"}
  BY DEF Begin, FetchFails, Wake, FetchAborts, Crash, Over
<1>0. /\ foretold \subseteq foretold' /\ foretold' \subseteq Minutes /\ as_of' \in Nat
      /\ \A m \in Minutes : (now <= m /\ m < as_of') => m \in foretold'
  <2>0. /\ foretold \subseteq Minutes /\ now \in Nat /\ as_of \in Nat
        /\ \A m \in Minutes : (now <= m /\ m < as_of) => m \in foretold
    BY WindowTyped DEF IngestInv, TypeOK, FormingWasForetold
  <2>1. CASE Begin
    <3>1. /\ as_of' \in {now} \cup GivenAsOf
          /\ foretold' = foretold \cup {m \in Minutes : now <= m /\ m < as_of'}
      BY <2>1 DEF Begin
    <3>2. QED
      BY <2>0, <3>1, IngestionAssumption
  <2>2. CASE Crash
    <3>1. as_of' = 0 /\ foretold' = foretold
      BY <2>2 DEF Crash, ReportLost
    <3>2. \A m \in Minutes : ~(now <= m /\ m < 0)
      BY <2>0, IngestionAssumption DEF Minutes
    <3>3. QED
      BY <2>0, <3>1, <3>2
  <2>3. CASE FetchFails \/ Wake \/ FetchAborts
    <3>1. as_of' = as_of /\ foretold' = foretold
      BY <2>3 DEF FetchFails, Wake, FetchAborts
    <3>2. QED
      BY <2>0, <3>1
  <2>4. QED
    BY <2>1, <2>2, <2>3
<1>3. TypeOK'
  <2>1. DOMAIN Nothing = {} /\ Nothing \in [DOMAIN Nothing -> Served] /\ DOMAIN NoRows = Minutes
    BY DEF Nothing, NoRows
  <2>2. Start \in Start .. End /\ 0 \in 0 .. MaxAttempts /\ 1 \in DOMAIN Intervals
    BY IngestionAssumption
  <2>3. CASE Begin
    <3>1. /\ runs' = runs + 1 /\ cursor' = Start /\ failures' = 0 /\ taken' = {}
          /\ offered' \subseteq Minutes
          /\ UNCHANGED <<fetched, saving, known>> /\ runs < MaxRuns
      BY <2>3 DEF Begin
    <3>2. runs' \in 0 .. MaxRuns
      <4>1. runs \in 0 .. MaxRuns
        BY DEF IngestInv, TypeOK
      <4>2. QED
        BY <3>1, <4>1, IngestionAssumption
    <3>3. QED
      BY <1>0, <1>1, <1>2, <2>2, <3>1, <3>2 DEF IngestInv, TypeOK
  <2>4. CASE FetchFails
    <3>1. UNCHANGED <<foretold, as_of, offered, cursor, fetched, saving, known, taken, runs>>
      BY <2>4 DEF FetchFails, report
    <3>2. failures' \in 0 .. MaxAttempts
      BY <2>4, IngestionAssumption DEF FetchFails, IngestInv, TypeOK
    <3>3. QED
      BY <1>1, <1>2, <3>1, <3>2 DEF IngestInv, TypeOK
  <2>5. CASE Wake \/ FetchAborts
    <3>1. UNCHANGED <<foretold, as_of, offered, cursor, failures, fetched, saving, known, taken, runs>>
      BY <2>5 DEF Wake, FetchAborts, report
    <3>2. QED
      BY <1>1, <1>2, <3>1 DEF IngestInv, TypeOK
  <2>6. CASE Crash
    <3>1. /\ as_of' = 0 /\ offered' = {} /\ cursor' = Start /\ failures' = 0 /\ taken' = {}
          /\ fetched' = Nothing /\ saving' = 1 /\ known' = NoRows /\ runs' = runs
      BY <2>6 DEF Crash, ReportLost, WindowForgotten
    <3>2. QED
      BY <1>0, <1>1, <1>2, <2>1, <2>2, <3>1 DEF IngestInv, TypeOK
  <2>7. QED
    BY <2>3, <2>4, <2>5, <2>6
<1>4. FormingWasForetold'
  <2>1. fetched' = fetched \/ fetched' = Nothing
    BY DEF Begin, FetchFails, Wake, FetchAborts, Crash, ReportLost, WindowForgotten
  <2>2. QED
    BY <1>0, <1>1, <2>1 DEF IngestInv, FormingWasForetold, Nothing
<1>5. QED
  BY <1>0, <1>1, <1>2, <1>3, <1>4 DEF IngestInv, KnownIsStored, MinutesComeFirst,
                                StoredBarsAreWhole, SlotsFit, Over

LEMMA OthersKeepInv ==
  ASSUME IngestInv, Publish \/ Correct \/ AdvanceClock \/ UNCHANGED vars
  PROVE  IngestInv'
<1>1. stored' = stored /\ foretold' = foretold /\ UNCHANGED ingestVars
  BY DEF Publish, Correct, AdvanceClock, vars
<1>2. UNCHANGED <<pc, as_of, offered, cursor, failures, fetched, saving, known, taken, runs>>
  BY <1>1 DEF ingestVars, report
<1>3. vendor' \in [Minutes -> Versions \cup {Missing}] /\ now' \in 0 .. Horizon /\ now <= now'
  <2>1. CASE Publish \/ Correct
    <3>1. PICK m \in Minutes, v \in Versions : vendor' = [vendor EXCEPT ![m] = v]
      BY <2>1, IngestionAssumption DEF Publish, Correct
    <3>2. now' = now
      BY <2>1 DEF Publish, Correct
    <3>3. QED
      BY <3>1, <3>2, IngestionAssumption DEF IngestInv, TypeOK
  <2>2. CASE AdvanceClock
    <3>1. now < Horizon /\ now' = now + 1 /\ vendor' = vendor
      BY <2>2 DEF AdvanceClock
    <3>2. now \in 0 .. Horizon /\ vendor \in [Minutes -> Versions \cup {Missing}]
      BY DEF IngestInv, TypeOK
    <3>3. now' \in 0 .. Horizon /\ now <= now'
      BY <3>1, <3>2, IngestionAssumption
    <3>4. QED
      BY <3>1, <3>2, <3>3
  <2>3. CASE UNCHANGED vars
    BY <2>3, IngestionAssumption DEF vars, IngestInv, TypeOK
  <2>4. QED
    BY <2>1, <2>2, <2>3
<1>4. TypeOK'
  BY <1>1, <1>2, <1>3 DEF IngestInv, TypeOK
<1>5. \A m \in Minutes : now' <= m => now <= m
  <2>1. now \in Int /\ now' \in Int
    BY <1>3, WindowTyped, IngestionAssumption
  <2>2. QED
    BY <1>3, <2>1, IngestionAssumption DEF Minutes
<1>6. FormingWasForetold'
  BY <1>1, <1>2, <1>5 DEF IngestInv, FormingWasForetold
<1>7. StoredBarsAreWhole'
  BY <1>1 DEF IngestInv, StoredBarsAreWhole
<1>8. QED
  BY <1>1, <1>2, <1>4, <1>6, <1>7 DEF IngestInv, KnownIsStored, MinutesComeFirst, Saved, SlotsFit

LEMMA IngestInvInductive == IngestInv /\ [Next]_vars => IngestInv'
BY CommitKeepsInv, FetchKeepsInv, ReadKeepsInv, EndKeepsInv, OthersKeepInv
   DEF Next, Ingest, Work

LEMMA IngestInvInitially == Init => IngestInv
<1> SUFFICES ASSUME Init PROVE IngestInv
  OBVIOUS
<1>1. \A i \in Names, s \in Minutes : stored[i][s] = None
  BY DEF Init, NoRows
<1>2. DOMAIN stored = Names /\ \A i \in Names : DOMAIN stored[i] = Minutes
  BY DEF Init, NoRows
<1>3. DOMAIN Nothing = {} /\ Nothing \in [DOMAIN Nothing -> Served] /\ DOMAIN NoRows = Minutes
  BY DEF Nothing, NoRows
<1>4. /\ Start \in Start .. End /\ 0 \in 0 .. MaxAttempts /\ 1 \in DOMAIN Intervals
      /\ 0 \in 0 .. MaxRuns /\ now \in 0 .. Horizon
  BY IngestionAssumption DEF Init
<1>5. TypeOK
  BY <1>1, <1>2, <1>3, <1>4 DEF Init, TypeOK, Over
<1>6. FormingWasForetold
  <2>1. \A m \in Minutes : ~(now <= m /\ m < 0)
    BY <1>4, IngestionAssumption DEF Minutes
  <2>2. QED
    BY <2>1 DEF Init, FormingWasForetold, Nothing
<1>7. QED
  BY <1>1, <1>5, <1>6 DEF Init, IngestInv, KnownIsStored, MinutesComeFirst,
                          StoredBarsAreWhole, SlotsFit

THEOREM IngestInvariant == Spec => []IngestInv
BY IngestInvInitially, IngestInvInductive, PTL DEF Spec

(* Every variable of the backfill keeps its type: whatever was fetched and *)
(* however a run ended, what is in the table are rows of whole bars.       *)
THEOREM TypeCorrect == Spec => []TypeOK
<1>1. IngestInv => TypeOK
  BY DEF IngestInv
<1>2. QED
  BY <1>1, IngestInvariant, PTL

(* However runs are interrupted, no bar is in the table without every one  *)
(* of its minutes, nor one with a minute that had not ended, but for those *)
(* that the --as-of of a run said would have.                              *)
THEOREM StoredBarsAreOfPublishedMinutes == Spec => []StoredBarsAreWhole
<1>1. IngestInv => StoredBarsAreWhole
  BY DEF IngestInv
<1>2. QED
  BY <1>1, IngestInvariant, PTL

(* save_historical_candles never changes a stored bar, whatever the vendor *)
(* has corrected since.                                                    *)
THEOREM StoredBarsNeverChange == Spec => HistoryIsFrozen
<1> DEFINE Frozen == \A i \in Names, s \in Minutes :
                       stored[i][s] # None => stored'[i][s] = stored[i][s]
<1>1. IngestInv /\ [Next]_vars => Frozen
  <2> SUFFICES ASSUME IngestInv, [Next]_vars PROVE Frozen
    OBVIOUS
  <2>1. CASE CommitSave
    BY <2>1, CommitWrites DEF IngestInv
  <2>2. CASE stored' = stored
    BY <2>2
  <2>3. stored' = stored \/ CommitSave
    BY DEF Next, Ingest, Work, Begin, FetchOk, FetchFails, Wake, FetchAborts, ReadStored,
           Crash, ReportLost, Publish, Correct, AdvanceClock, vars
  <2>4. QED
    BY <2>1, <2>2, <2>3
<1>2. QED
  BY <1>1, IngestInvariant, PTL DEF Spec, HistoryIsFrozen

-----------------------------------------------------------------------------
(* What a completed run owes.  Everything on offer when the run began is   *)
(* so still, and was over by both the clock and the run's as_of.           *)
OfferStands == \A m \in offered : m < as_of /\ m < now /\ vendor[m] # Missing

(* Windows begin between the bars of every interval.                       *)
CursorAligned == \A i \in Names : cursor % Width[i] = 0

(* What was fetched holds all of the window that was on offer.             *)
WindowFetched ==
  pc \in {"read", "commit"} =>
    \A m \in offered : (cursor <= m /\ m < Upper) => m \in DOMAIN fetched

(* The intervals before the one being saved have all of their bars.        *)
WindowSaved ==
  pc \in {"read", "commit"} =>
    \A j \in DOMAIN Intervals : j < saving =>
      \A s \in WholeSlots(fetched, Width[Intervals[j]]) : stored[Intervals[j]][s] # None

(* So do all intervals for the windows before the cursor.                  *)
Offers(s, width, to) ==
  Start <= s /\ s + width <= to /\ s % width = 0 /\ Slot(s, width) \subseteq offered

WindowsStored ==
  /\ \A i \in Names, s \in Minutes : Offers(s, Width[i], cursor) => stored[i][s] # None
  /\ \A m \in offered : (Start <= m /\ m < cursor) => m \in taken

EndReached == pc = "completed" => cursor = End

RunInv ==
  /\ OfferStands /\ CursorAligned /\ WindowFetched /\ WindowSaved /\ WindowsStored
  /\ EndReached

-----------------------------------------------------------------------------
(* Arithmetic of bars that lie end to end.                                 *)
LEMMA Multiple ==
  ASSUME NEW a \in Nat, NEW w \in Nat \ {0}, a % w = 0
  PROVE  a = w * (a \div w) /\ a \div w \in Nat
OBVIOUS

LEMMA AlignedSum ==
  ASSUME NEW a \in Nat, NEW b \in Nat, NEW w \in Nat \ {0}, a % w = 0, b % w = 0
  PROVE  (a + b) % w = 0
<1>1. PICK k \in Nat : a = w * k
  BY Multiple
<1>2. PICK l \in Nat : b = w * l
  BY Multiple
<1> DEFINE q == (a + b) \div w
           r == (a + b) % w
<1>3. q \in Nat /\ r \in 0 .. w - 1 /\ a + b = w * q + r
  OBVIOUS
<1> HIDE DEF q, r
<1>4. PICK d \in Int : d = k + l - q
  BY <1>3
<1>5. w * d = r
  BY <1>1, <1>2, <1>3, <1>4
<1>6. d >= 1 => w * d >= w
  OBVIOUS
<1>7. d <= -1 => w * d <= -w
  OBVIOUS
<1>8. d = 0
  BY <1>3, <1>5, <1>6, <1>7
<1>9. r = 0
  BY <1>5, <1>8
<1>10. QED
  BY <1>9 DEF r

LEMMA AlignedGap ==
  ASSUME NEW a \in Nat, NEW b \in Nat, NEW w \in Nat \ {0}, a % w = 0, b % w = 0, a < b
  PROVE  a + w <= b
<1>1. PICK k \in Nat : a = w * k
  BY Multiple
<1>2. PICK l \in Nat : b = w * l
  BY Multiple
<1>3. k + 1 <= l
  BY <1>1, <1>2
<1>4. w * (k + 1) <= w * l
  BY <1>3
<1>5. QED
  BY <1>1, <1>2, <1>4

LEMMA UpperAligned ==
  ASSUME cursor \in Start .. End, CursorAligned, NEW i \in Names
  PROVE  Upper % Width[i] = 0
<1>1. MaxSpan % Width[i] = 0 /\ End % Width[i] = 0
  BY IngestionAssumption
<1>2. cursor \in Nat /\ MaxSpan \in Nat /\ Width[i] \in Nat \ {0} /\ cursor % Width[i] = 0
  BY IngestionAssumption DEF CursorAligned
<1>3. (cursor + MaxSpan) % Width[i] = 0
  BY <1>1, <1>2, AlignedSum
<1>4. QED
  BY <1>1, <1>3 DEF Upper

(* A bar on offer by the end of a window ended before it or lies in it.    *)
LEMMA OfferedInWindow ==
  ASSUME cursor \in Start .. End, CursorAligned, NEW i \in Names, NEW s \in Minutes,
         Offers(s, Width[i], Upper), ~ Offers(s, Width[i], cursor),
         \A m \in offered : (cursor <= m /\ m < Upper) => m \in DOMAIN fetched
  PROVE  s \in WholeSlots(fetched, Width[i])
<1>1. Width[i] \in Nat \ {0} /\ s \in Nat /\ cursor \in Nat /\ Upper \in Nat
  BY IngestionAssumption DEF Upper, Minutes
<1>2. Start <= s /\ s + Width[i] <= Upper /\ s % Width[i] = 0 /\ Slot(s, Width[i]) \subseteq offered
  BY DEF Offers
<1>3. ~(s + Width[i] <= cursor)
  BY <1>2 DEF Offers
<1>4. cursor % Width[i] = 0
  BY DEF CursorAligned
<1>5. cursor <= s
  BY <1>1, <1>2, <1>3, <1>4, AlignedGap
<1>6. \A m \in Slot(s, Width[i]) : cursor <= m /\ m < Upper
  BY <1>1, <1>2, <1>5 DEF Slot
<1>7. s \in Slot(s, Width[i])
  BY <1>1 DEF Slot
<1>8. QED
  BY <1>2, <1>6, <1>7 DEF WholeSlots

LEMMA BatchStored ==
  ASSUME IngestInv, CommitSave
  PROVE  /\ \A s \in WholeSlots(fetched, Width[Saved]) : stored'[Saved][s] # None
         /\ \A i \in Names, s \in Minutes : stored[i][s] # None => stored'[i][s] # None
<1>1. /\ \A s \in DOMAIN Batch : known[s] = None => stored'[Saved][s] # None
      /\ \A i \in Names, s \in Minutes : stored[i][s] # None => stored'[i][s] = stored[i][s]
      /\ Saved \in Names
  BY CommitWrites DEF IngestInv
<1>2. DOMAIN Batch = WholeSlots(fetched, Width[Saved]) /\ DOMAIN Batch \subseteq Minutes
  BY DEF Batch, Aggregate, WholeSlots, IngestInv, TypeOK
<1>3. \A s \in DOMAIN Batch : known[s] # None => stored[Saved][s] # None
  BY <1>2 DEF IngestInv, KnownIsStored, CommitSave
<1>4. QED
  BY <1>1, <1>2, <1>3

(* A window is done: all of its bars are there.                            *)
LEMMA WindowDone ==
  ASSUME IngestInv, RunInv, CommitSave, saving = Len(Intervals)
  PROVE  RunInv'
<1>1. /\ pc = "commit" /\ cursor' = Upper /\ taken' = taken \cup DOMAIN fetched
      /\ pc' = (IF Upper < End THEN "fetch" ELSE "completed")
      /\ UNCHANGED <<vendor, now, as_of, offered>>
  BY DEF CommitSave, NextSave, NextWindow
<1>2. cursor \in Start .. End /\ Upper \in Start .. End
  BY WindowFacts DEF IngestInv, TypeOK
<1>3. \A m \in offered : (cursor <= m /\ m < Upper) => m \in DOMAIN fetched
  BY <1>1 DEF RunInv, WindowFetched
<1>4. ASSUME NEW i \in Names, NEW s \in WholeSlots(fetched, Width[i])
      PROVE  stored'[i][s] # None
  <2>1. PICK j \in DOMAIN Intervals : i = Intervals[j]
    BY DEF Names
  <2>2. s \in Minutes
    BY DEF WholeSlots, IngestInv, TypeOK
  <2>3. CASE j = saving
    BY <2>1, <2>3, BatchStored DEF Saved
  <2>4. CASE j # saving
    <3>1. j < saving
      BY <2>4, IngestionAssumption
    <3>2. stored[i][s] # None
      BY <1>1, <2>1, <3>1 DEF RunInv, WindowSaved
    <3>3. QED
      BY <2>2, <3>2, BatchStored
  <2>5. QED
    BY <2>3, <2>4
<1>5. ASSUME NEW i \in Names, NEW s \in Minutes, Offers(s, Width[i], Upper)
      PROVE  stored'[i][s] # None
  <2>1. CASE Offers(s, Width[i], cursor)
    BY <2>1, BatchStored DEF RunInv, WindowsStored
  <2>2. CASE ~ Offers(s, Width[i], cursor)
    BY <1>2, <1>3, <1>4, <1>5, <2>2, OfferedInWindow DEF RunInv
  <2>3. QED
    BY <2>1, <2>2
<1>6. \A m \in offered : (Start <= m /\ m < Upper) => m \in taken'
  <2> SUFFICES ASSUME NEW m \in offered, Start <= m, m < Upper PROVE m \in taken'
    OBVIOUS
  <2>1. m \in Int /\ cursor \in Int
    BY <1>2, IngestionAssumption DEF IngestInv, TypeOK, Minutes
  <2>2. CASE m < cursor
    BY <1>1, <2>2 DEF RunInv, WindowsStored
  <2>3. CASE cursor <= m
    BY <1>1, <1>3, <2>3
  <2>4. QED
    BY <2>1, <2>2, <2>3
<1>7. WindowsStored'
  <2>1. \A i \in Names, s \in Minutes : Offers(s, Width[i], cursor)' => Offers(s, Width[i], Upper)
    BY <1>1 DEF Offers
  <2>2. QED
    BY <1>1, <1>5, <1>6, <2>1 DEF WindowsStored
<1>8. CursorAligned'
  BY <1>1, <1>2, UpperAligned DEF RunInv, CursorAligned
<1>9. EndReached'
  BY <1>1, <1>2, IngestionAssumption DEF EndReached
<1>10. QED
  BY <1>1, <1>7, <1>8, <1>9 DEF RunInv, OfferStands, WindowFetched, WindowSaved

(* One interval more of the window is there.                               *)
LEMMA IntervalDone ==
  ASSUME IngestInv, RunInv, CommitSave, saving # Len(Intervals)
  PROVE  RunInv'
<1>1. /\ pc = "commit" /\ pc' = "read" /\ saving' = saving + 1
      /\ UNCHANGED <<cursor, taken, fetched, vendor, now, as_of, offered>>
  BY DEF CommitSave, NextSave
<1>2. ASSUME NEW j \in DOMAIN Intervals, j < saving + 1,
             NEW s \in WholeSlots(fetched, Width[Intervals[j]])
      PROVE  stored'[Intervals[j]][s] # None
  <2>1. s \in Minutes /\ Intervals[j] \in Names
    BY IntervalFacts DEF WholeSlots, IngestInv, TypeOK
  <2>2. CASE j = saving
    BY <2>2, BatchStored DEF Saved
  <2>3. CASE j # saving
    <3>1. j < saving
      <4>1. saving \in DOMAIN Intervals
        BY DEF IngestInv, TypeOK
      <4>2. DOMAIN Intervals = 1 .. Len(Intervals)
        BY IngestionAssumption
      <4>3. j \in Int /\ saving \in Int
        BY <1>2, <4>1, <4>2
      <4>4. QED
        BY <1>2, <2>3, <4>3
    <3>2. stored[Intervals[j]][s] # None
      BY <1>1, <3>1 DEF RunInv, WindowSaved
    <3>3. QED
      BY <2>1, <3>2, BatchStored
  <2>4. QED
    BY <2>2, <2>3
<1>3. WindowSaved'
  BY <1>1, <1>2 DEF WindowSaved
<1>4. WindowsStored'
  BY <1>1, BatchStored DEF RunInv, WindowsStored, Offers
<1>5. QED
  BY <1>1, <1>3, <1>4 DEF RunInv, OfferStands, CursorAligned, WindowFetched, Upper, EndReached

-----------------------------------------------------------------------------
LEMMA FetchKeepsRun ==
  ASSUME IngestInv, RunInv, FetchOk
  PROVE  RunInv'
<1>1. /\ fetched' = [m \in Wanted |-> Serves(m)] /\ saving' = 1 /\ pc' = "read"
      /\ UNCHANGED <<stored, vendor, now, foretold, as_of, offered, cursor, taken>>
  BY DEF FetchOk, report
<1>2. ASSUME NEW m \in offered, cursor <= m, m < Upper
      PROVE  m \in Wanted
  <2>1. m < as_of /\ m < now /\ vendor[m] # Missing
    BY DEF RunInv, OfferStands
  <2>2. m \in Int /\ as_of \in Int /\ now \in Int /\ cursor \in Int /\ Upper \in Int
    BY IngestionAssumption DEF IngestInv, TypeOK, Minutes, Upper
  <2>3. m < now /\ m + 1 <= as_of
    BY <2>1, <2>2
  <2>4. Serves(m) # Missing
    BY <2>1, <2>3 DEF Serves
  <2>5. m \in cursor .. Upper - 1
    BY <1>2, <2>2
  <2>6. QED
    BY <2>3, <2>4, <2>5 DEF Wanted
<1>3. WindowFetched'
  BY <1>1, <1>2 DEF WindowFetched, Upper
<1>4. WindowSaved'
  <2>1. \A j \in DOMAIN Intervals : ~(j < 1)
    BY IngestionAssumption
  <2>2. QED
    BY <1>1, <2>1 DEF WindowSaved
<1>5. QED
  BY <1>1, <1>3, <1>4 DEF RunInv, OfferStands, CursorAligned, WindowsStored, Offers, EndReached

LEMMA BeginKeepsRun ==
  ASSUME IngestInv, RunInv, Begin \/ Crash
  PROVE  RunInv'
<1>1. /\ cursor' = Start /\ stored' = stored /\ vendor' = vendor
      /\ pc' \in {"fetch", "crashed"}
  BY DEF Begin, Crash, ReportLost
<1>2. OfferStands'
  BY DEF Begin, Crash, ReportLost, OfferStands
<1>3. CursorAligned'
  BY <1>1, IngestionAssumption DEF CursorAligned
<1>4. WindowsStored'
  <2>1. \A i \in Names, s \in Minutes : ~(Start <= s /\ s + Width[i] <= Start)
    BY IngestionAssumption DEF Minutes
  <2>2. offered' \subseteq Minutes
    BY DEF Begin, Crash, ReportLost
  <2>3. \A m \in Minutes : ~(Start <= m /\ m < Start)
    BY IngestionAssumption DEF Minutes
  <2>4. QED
    BY <1>1, <2>1, <2>2, <2>3 DEF WindowsStored, Offers
<1>5. QED
  BY <1>1, <1>2, <1>3, <1>4 DEF RunInv, WindowFetched, WindowSaved, EndReached

LEMMA PauseKeepsRun ==
  ASSUME IngestInv, RunInv, FetchFails \/ Wake \/ FetchAborts \/ ReadStored
  PROVE  RunInv'
<1>1. UNCHANGED <<stored, vendor, now, as_of, offered, cursor, fetched, saving, taken>>
  BY DEF FetchFails, Wake, FetchAborts, ReadStored, report
<1>2. \/ pc' \notin {"read", "commit", "completed"}
      \/ pc = "read" /\ pc' = "commit"
  BY DEF FetchFails, Wake, FetchAborts, ReadStored
<1>3. QED
  BY <1>1, <1>2 DEF RunInv, OfferStands, CursorAligned, WindowFetched, WindowSaved,
                    WindowsStored, Offers, EndReached, Upper

LEMMA OthersKeepRun ==
  ASSUME IngestInv, RunInv, Publish \/ Correct \/ AdvanceClock \/ UNCHANGED vars
  PROVE  RunInv'
<1>1. stored' = stored /\ UNCHANGED ingestVars
  BY DEF Publish, Correct, AdvanceClock, vars
<1>2. UNCHANGED <<pc, as_of, offered, cursor, fetched, saving, taken>>
  BY <1>1 DEF ingestVars, report
<1>3. \A m \in Minutes : vendor[m] # Missing => vendor'[m] # Missing
  <2>1. CASE Publish \/ Correct
    <3>1. PICK m \in Minutes, v \in Versions : vendor' = [vendor EXCEPT ![m] = v]
      BY <2>1, IngestionAssumption DEF Publish, Correct
    <3>2. QED
      BY <3>1, IngestionAssumption DEF IngestInv, TypeOK
  <2>2. CASE vendor' = vendor
    BY <2>2
  <2>3. QED
    BY <2>1, <2>2 DEF AdvanceClock, vars
<1>4. OfferStands'
  <2>1. \A m \in Minutes : m < now => m < now'
    BY DEF IngestInv, TypeOK, Publish, Correct, AdvanceClock, vars, Minutes
  <2>2. QED
    BY <1>2, <1>3, <2>1 DEF RunInv, OfferStands, IngestInv, TypeOK
<1>5. QED
  BY <1>1, <1>2, <1>4 DEF RunInv, CursorAligned, WindowFetched, WindowSaved,
                          WindowsStored, Offers, EndReached, Upper

LEMMA RunInvInductive == IngestInv /\ RunInv /\ [Next]_vars => RunInv'
<1> SUFFICES ASSUME IngestInv, RunInv, [Next]_vars PROVE RunInv'
  OBVIOUS
<1>1. CASE CommitSave
  BY <1>1, WindowDone, IntervalDone
<1>2. CASE FetchOk
  BY <1>2, FetchKeepsRun
<1>3. CASE Begin \/ Crash
  BY <1>3, BeginKeepsRun
<1>4. CASE FetchFails \/ Wake \/ FetchAborts \/ ReadStored
  BY <1>4, PauseKeepsRun
<1>5. CASE Publish \/ Correct \/ AdvanceClock \/ UNCHANGED vars
  BY <1>5, OthersKeepRun
<1>6. QED
  BY <1>1, <1>2, <1>3, <1>4, <1>5 DEF Next, Ingest, Work

LEMMA RunInvInitially == Init => RunInv
<1> SUFFICES ASSUME Init PROVE RunInv
  OBVIOUS
<1>1. \A i \in Names, s \in Minutes : ~(Start <= s /\ s + Width[i] <= Start)
  BY IngestionAssumption DEF Minutes
<1>2. WindowsStored
  BY <1>1 DEF Init, WindowsStored, Offers
<1>3. CursorAligned
  BY IngestionAssumption DEF Init, CursorAligned
<1>4. QED
  BY <1>2, <1>3 DEF Init, RunInv, OfferStands, WindowFetched, WindowSaved, EndReached

(* However many runs died half way before it and whatever the vendor has   *)
(* published or corrected since, a run that reports completion has every   *)
(* bar of its range that the minutes over by its as_of, as far as the      *)
(* vendor had them when it began, make up, and no day of these among those *)
(* it reports as empty.                                                    *)
THEOREM NothingIsMissed == Spec => []CompletedRunMissesNothing
<1>1. IngestInv /\ RunInv => CompletedRunMissesNothing
  <2> SUFFICES ASSUME IngestInv, RunInv, pc = "completed" PROVE CompletedRunMissesNothing
    BY DEF CompletedRunMissesNothing
  <2> DEFINE there == {m \in offered : Start <= m /\ m < End}
  <2>1. cursor = End
    BY DEF RunInv, EndReached
  <2>2. ASSUME NEW i \in Names, NEW s \in WholeSlots([m \in there |-> vendor[m]], Width[i])
        PROVE  stored[i][s] # None
    <3>1. s \in there /\ s % Width[i] = 0 /\ Slot(s, Width[i]) \subseteq there
      BY DEF WholeSlots
    <3>2. s \in Minutes /\ s \in Int /\ Width[i] \in Nat \ {0} /\ End \in Int
      BY <3>1, IngestionAssumption DEF IngestInv, TypeOK, Minutes
    <3>3. s + Width[i] - 1 \in Slot(s, Width[i])
      BY <3>2 DEF Slot
    <3>4. s + Width[i] <= End
      BY <3>1, <3>2, <3>3
    <3>5. Offers(s, Width[i], cursor)
      BY <2>1, <3>1, <3>4 DEF Offers
    <3>6. QED
      BY <3>2, <3>5 DEF RunInv, WindowsStored
  <2>3. \A m \in there : DayOf(m) \notin NoDataSessions
    BY <2>1 DEF RunInv, WindowsStored, NoDataSessions
  <2>4. QED
    BY <2>2, <2>3 DEF CompletedRunMissesNothing
<1>2. Spec => []RunInv
  BY RunInvInitially, RunInvInductive, IngestInvariant, PTL DEF Spec
<1>3. QED
  BY <1>1, <1>2, IngestInvariant, PTL

-----------------------------------------------------------------------------
(* What a report owes.                                                     *)
SlotOf(m, width) == m - (m % width)

OneVerdict(bar) ==
  \/ bar \in inserted /\ bar \notin identical \cup conflicts \cup incomplete
  \/ bar \in identical /\ bar \notin inserted \cup conflicts \cup incomplete
  \/ bar \in conflicts /\ bar \notin inserted \cup identical \cup incomplete
  \/ bar \in incomplete /\ bar \notin inserted \cup identical \cup conflicts

NoVerdict(bar) == bar \notin inserted \cup identical \cup conflicts \cup incomplete

(* A window holds its own minutes, so no bar belongs to two.               *)
MinutesInWindow ==
  /\ taken \subseteq Start .. cursor - 1
  /\ pc \in {"read", "commit"} => DOMAIN fetched \subseteq cursor .. Upper - 1

(* Bars ahead of the cursor have no verdict yet, but for the intervals of  *)
(* the window that are saved.                                              *)
AheadUnjudged ==
  /\ \A i \in Names, s \in Minutes :
       (cursor <= s /\ pc \notin {"read", "commit"}) => NoVerdict(<<i, s>>)
  /\ pc \in {"read", "commit"} =>
       /\ \A j \in DOMAIN Intervals, s \in Minutes :
            (cursor <= s /\ saving <= j) => NoVerdict(<<Intervals[j], s>>)
       /\ \A i \in Names, s \in Minutes : Upper <= s => NoVerdict(<<i, s>>)

BehindJudged ==
  \A i \in Names, m \in taken : OneVerdict(<<i, SlotOf(m, Width[i])>>)

WindowJudged ==
  pc \in {"read", "commit"} =>
    \A j \in DOMAIN Intervals, m \in DOMAIN fetched :
      j < saving => OneVerdict(<<Intervals[j], SlotOf(m, Width[Intervals[j]])>>)

ReportInv == MinutesInWindow /\ AheadUnjudged /\ BehindJudged /\ WindowJudged

(* A slot of a window begins in it.                                        *)
LEMMA SlotBounds ==
  ASSUME NEW i \in Names, NEW from \in Nat, from % Width[i] = 0, NEW m \in Nat, from <= m
  PROVE  SlotOf(m, Width[i]) \in from .. m
<1> DEFINE w == Width[i]
<1>1. w \in Nat \ {0}
  BY IngestionAssumption
<1> HIDE DEF w
<1>2. PICK k \in Nat : from = w * k
  BY <1>1, Multiple DEF w
<1> DEFINE q == m \div w
           r == m % w
<1>3. q \in Nat /\ r \in 0 .. w - 1 /\ m = w * q + r
  BY <1>1
<1> HIDE DEF q, r
<1>4. k <= q
  <2> SUFFICES ASSUME q + 1 <= k PROVE FALSE
    BY <1>3
  <2>1. w * (q + 1) <= w * k
    BY <1>1, <1>3
  <2>2. w * (q + 1) = w * q + w
    BY <1>1, <1>3
  <2>3. QED
    BY <1>1, <1>2, <1>3, <2>1, <2>2
<1>5. w * k <= w * q
  BY <1>1, <1>3, <1>4
<1>6. SlotOf(m, w) = w * q /\ w * q \in Int
  BY <1>1, <1>3 DEF SlotOf, r
<1>7. from <= w * q /\ w * q <= m
  BY <1>1, <1>2, <1>3, <1>5
<1>8. QED
  BY <1>6, <1>7 DEF w

(* The bars a commit judges: each slot of the fetched minutes, once.       *)
LEMMA BatchVerdicts ==
  ASSUME IngestInv, RunInv, MinutesInWindow, CommitSave
  PROVE  LET new == NewKeys(known, Batch)
             same == SameKeys(known, Batch)
             clash == ConflictKeys(known, Batch)
             lacking == IncompleteSlots(fetched, Width[Saved])
         IN  /\ new \cup same \cup clash \cup lacking \subseteq cursor .. Upper - 1
             /\ \A m \in DOMAIN fetched :
                  SlotOf(m, Width[Saved]) \in new \cup same \cup clash \cup lacking
             /\ new \cap same = {} /\ clash \cap (new \cup same) = {}
             /\ lacking \cap (new \cup same \cup clash) = {}
<1> DEFINE w == Width[Saved]
           whole == WholeSlots(fetched, w)
           new == NewKeys(known, Batch)
           same == SameKeys(known, Batch)
           clash == ConflictKeys(known, Batch)
           lacking == IncompleteSlots(fetched, w)
<1>1. Saved \in Names /\ cursor \in Nat /\ Upper \in Nat /\ cursor % w = 0
  <2>1. cursor \in Start .. End /\ saving \in DOMAIN Intervals
    BY DEF IngestInv, TypeOK
  <2>2. Start \in Nat /\ End \in Nat /\ Upper \in Start .. End
    BY <2>1, WindowFacts, IngestionAssumption
  <2>3. Saved \in Names
    BY <2>1, IntervalFacts DEF Saved
  <2>4. cursor % w = 0
    BY <2>3 DEF RunInv, CursorAligned
  <2>5. QED
    BY <2>1, <2>2, <2>3, <2>4
<1>2. DOMAIN fetched \subseteq cursor .. Upper - 1
  BY DEF MinutesInWindow, CommitSave
<1>3. DOMAIN Batch = whole
  BY DEF Batch, Aggregate
<1>4. whole \subseteq DOMAIN fetched
  BY DEF WholeSlots
<1>5. \A s \in DOMAIN Batch : Batch[s] # None
  BY <1>1, BatchRows DEF IngestInv, TypeOK, Batch
<1>6. new \cup same \cup clash = whole /\ new \cap same = {} /\ clash \cap (new \cup same) = {}
  BY <1>3, <1>5 DEF NewKeys, SameKeys, ConflictKeys
<1>7. lacking = {SlotOf(m, w) : m \in DOMAIN fetched} \ whole
  BY DEF IncompleteSlots, SlotOf
<1>8. \A m \in DOMAIN fetched : SlotOf(m, w) \in cursor .. Upper - 1
  <2> SUFFICES ASSUME NEW m \in DOMAIN fetched PROVE SlotOf(m, w) \in cursor .. Upper - 1
    OBVIOUS
  <2>1. m \in Nat /\ cursor <= m /\ m < Upper
    BY <1>1, <1>2
  <2>2. SlotOf(m, w) \in cursor .. m
    BY <1>1, <2>1, SlotBounds
  <2>3. QED
    BY <1>1, <2>1, <2>2
<1> HIDE DEF w, whole, new, same, clash, lacking
<1>9. lacking \subseteq cursor .. Upper - 1 /\ lacking \cap whole = {}
  BY <1>7, <1>8
<1>10. \A m \in DOMAIN fetched : SlotOf(m, w) \in whole \cup lacking
  BY <1>7
<1>11. new \cup same \cup clash \cup lacking \subseteq cursor .. Upper - 1
  BY <1>2, <1>4, <1>6, <1>9
<1>12. QED
  BY <1>6, <1>9, <1>10, <1>11 DEF w, new, same, clash, lacking

(* A commit judges bars of one interval of its window, and no others.      *)
LEMMA CommitJudges ==
  ASSUME IngestInv, RunInv, ReportInv, CommitSave
  PROVE  /\ \A i \in Names, s \in Minutes :
              (i # Saved \/ s < cursor \/ Upper <= s) =>
                /\ OneVerdict(<<i, s>>) => OneVerdict(<<i, s>>)'
                /\ NoVerdict(<<i, s>>) => NoVerdict(<<i, s>>)'
         /\ \A m \in DOMAIN fetched, i \in Names, s \in Minutes :
              (i = Saved /\ s = SlotOf(m, Width[i])) => OneVerdict(<<i, s>>)'
<1> DEFINE new == NewKeys(known, Batch)
           same == SameKeys(known, Batch)
           clash == ConflictKeys(known, Batch)
           lacking == IncompleteSlots(fetched, Width[Saved])
<1>1. /\ inserted' = inserted \cup Keyed(new) /\ identical' = identical \cup Keyed(same)
      /\ conflicts' = conflicts \cup Keyed(clash) /\ incomplete' = incomplete \cup Keyed(lacking)
  BY DEF CommitSave
<1>2. /\ new \cup same \cup clash \cup lacking \subseteq cursor .. Upper - 1
      /\ \A m \in DOMAIN fetched :
           SlotOf(m, Width[Saved]) \in new \cup same \cup clash \cup lacking
      /\ new \cap same = {} /\ clash \cap (new \cup same) = {}
      /\ lacking \cap (new \cup same \cup clash) = {}
  BY BatchVerdicts DEF ReportInv
<1> HIDE DEF new, same, clash, lacking
<1>3. ASSUME NEW begins, NEW i, NEW s
      PROVE  <<i, s>> \in Keyed(begins) <=> (i = Saved /\ s \in begins)
  BY DEF Keyed
<1>4. Upper \in Nat /\ cursor \in Nat /\ Upper <= End
  BY WindowTyped
<1>5. ASSUME NEW i \in Names, NEW s \in Minutes, i # Saved \/ s < cursor \/ Upper <= s
      PROVE  /\ OneVerdict(<<i, s>>) => OneVerdict(<<i, s>>)'
             /\ NoVerdict(<<i, s>>) => NoVerdict(<<i, s>>)'
  <2>1. ~(i = Saved /\ s \in new \cup same \cup clash \cup lacking)
    <3>1. s \in new \cup same \cup clash \cup lacking => s \in cursor .. Upper - 1
      BY <1>2
    <3>2. s \in Nat
      BY IngestionAssumption DEF Minutes
    <3>3. QED
      BY <1>4, <1>5, <3>1, <3>2
  <2>2. /\ <<i, s>> \in inserted' <=> <<i, s>> \in inserted
        /\ <<i, s>> \in identical' <=> <<i, s>> \in identical
        /\ <<i, s>> \in conflicts' <=> <<i, s>> \in conflicts
        /\ <<i, s>> \in incomplete' <=> <<i, s>> \in incomplete
    BY <1>1, <1>3, <2>1
  <2>3. QED
    BY <2>2 DEF OneVerdict, NoVerdict
<1>6. ASSUME NEW m \in DOMAIN fetched, NEW i \in Names, NEW s \in Minutes,
             i = Saved, s = SlotOf(m, Width[i])
      PROVE  OneVerdict(<<i, s>>)'
  <2>1. s \in new \cup same \cup clash \cup lacking
    BY <1>2, <1>6
  <2>2. cursor <= s
    BY <1>2, <1>4, <2>1
  <2>3. NoVerdict(<<i, s>>)
    <3>1. saving \in DOMAIN Intervals /\ saving <= saving /\ i = Intervals[saving]
      BY <1>6, IngestionAssumption DEF IngestInv, TypeOK, Saved
    <3>2. QED
      BY <2>2, <3>1 DEF ReportInv, AheadUnjudged, CommitSave
  <2>4. /\ <<i, s>> \in inserted' <=> s \in new
        /\ <<i, s>> \in identical' <=> s \in same
        /\ <<i, s>> \in conflicts' <=> s \in clash
        /\ <<i, s>> \in incomplete' <=> s \in lacking
    BY <1>1, <1>3, <1>6, <2>3 DEF NoVerdict
  <2>5. QED
    BY <1>2, <2>1, <2>4 DEF OneVerdict
<1>7. QED
  BY <1>5, <1>6

LEMMA WindowNumbers ==
  ASSUME cursor \in Start .. End
  PROVE  /\ cursor \in Nat /\ Upper \in Nat /\ cursor <= Upper /\ Start \in Nat /\ Start <= cursor
         /\ Upper <= End /\ End <= Horizon /\ End \in Nat /\ Horizon \in Nat
<1>1. Start \in Nat /\ End \in Nat /\ End <= Horizon /\ Horizon \in Nat /\ MaxSpan \in Nat
  BY IngestionAssumption
<1>2. cursor \in Nat /\ Start <= cursor /\ cursor <= End
  BY <1>1
<1>3. Upper \in Nat /\ cursor <= Upper /\ Upper <= End
  BY <1>1, <1>2 DEF Upper
<1>4. QED
  BY <1>1, <1>2, <1>3

(* A window is done: its minutes are behind the cursor, judged.            *)
LEMMA ReportWindowDone ==
  ASSUME IngestInv, RunInv, ReportInv, CommitSave, saving = Len(Intervals)
  PROVE  ReportInv'
<1>1. /\ pc = "commit" /\ cursor' = Upper /\ taken' = taken \cup DOMAIN fetched
      /\ pc' \in {"fetch", "completed"}
  BY DEF CommitSave, NextSave, NextWindow
<1>2. saving \in DOMAIN Intervals
  BY DEF IngestInv, TypeOK
<1>3. cursor \in Nat /\ Upper \in Nat /\ cursor <= Upper /\ Start \in Nat /\ Start <= cursor
      /\ Upper <= End /\ End <= Horizon /\ End \in Nat /\ Horizon \in Nat
  BY WindowNumbers DEF IngestInv, TypeOK
<1>4. DOMAIN fetched \subseteq cursor .. Upper - 1 /\ taken \subseteq Start .. cursor - 1
  BY <1>1 DEF ReportInv, MinutesInWindow
<1>5. MinutesInWindow'
  <2>1. taken \cup DOMAIN fetched \subseteq Start .. Upper - 1
    <3> SUFFICES ASSUME NEW m \in taken \cup DOMAIN fetched PROVE m \in Start .. Upper - 1
      OBVIOUS
    <3>1. m \in Int /\ ((Start <= m /\ m < cursor) \/ (cursor <= m /\ m < Upper))
      BY <1>3, <1>4
    <3>2. QED
      BY <1>3, <3>1
  <2>2. QED
    BY <1>1, <2>1 DEF MinutesInWindow
<1>6. AheadUnjudged'
  <2> SUFFICES ASSUME NEW i \in Names, NEW s \in Minutes, Upper <= s
               PROVE  NoVerdict(<<i, s>>)'
    BY <1>1 DEF AheadUnjudged
  <2>1. NoVerdict(<<i, s>>)
    BY <1>1 DEF ReportInv, AheadUnjudged
  <2>2. QED
    BY <2>1, CommitJudges
<1>7. ASSUME NEW i \in Names, NEW m \in taken'
      PROVE  \A s \in Minutes : s = SlotOf(m, Width[i]) => OneVerdict(<<i, s>>)'
  <2> SUFFICES ASSUME NEW s \in Minutes, s = SlotOf(m, Width[i]) PROVE OneVerdict(<<i, s>>)'
    OBVIOUS
  <2>1. CASE m \in taken
    <3>1. m \in Nat /\ 0 <= m /\ m < cursor /\ 0 % Width[i] = 0
      BY <1>3, <1>4, <2>1, IngestionAssumption
    <3>2. SlotOf(m, Width[i]) \in 0 .. m
      BY <3>1, SlotBounds
    <3>3. s < cursor
      BY <1>3, <3>1, <3>2
    <3>4. OneVerdict(<<i, s>>)
      BY <2>1 DEF ReportInv, BehindJudged
    <3>5. QED
      BY <3>3, <3>4, CommitJudges
  <2>2. CASE m \in DOMAIN fetched /\ i = Saved
    BY <2>2, CommitJudges
  <2>3. CASE m \in DOMAIN fetched /\ i # Saved
    <3>1. PICK j \in DOMAIN Intervals : i = Intervals[j]
      BY DEF Names
    <3>2. j < saving
      BY <1>2, <2>3, <3>1, IngestionAssumption DEF Saved
    <3>3. OneVerdict(<<i, s>>)
      BY <1>1, <2>3, <3>1, <3>2 DEF ReportInv, WindowJudged
    <3>4. QED
      BY <2>3, <3>3, CommitJudges
  <2>4. QED
    BY <1>1, <2>1, <2>2, <2>3
<1>8. \A i \in Names, m \in taken' : SlotOf(m, Width[i]) \in Minutes
  <2> SUFFICES ASSUME NEW i \in Names, NEW m \in taken' PROVE SlotOf(m, Width[i]) \in Minutes
    OBVIOUS
  <2>1. m \in Nat /\ m < Upper /\ 0 <= m /\ 0 % Width[i] = 0
    BY <1>1, <1>3, <1>4, IngestionAssumption
  <2>2. SlotOf(m, Width[i]) \in 0 .. m
    BY <2>1, SlotBounds
  <2> DEFINE s == SlotOf(m, Width[i])
  <2> HIDE DEF s
  <2>3. s \in 0 .. Horizon - 1
    BY <1>3, <2>1, <2>2 DEF s
  <2>4. QED
    BY <2>3 DEF Minutes, s
<1>9. BehindJudged'
  BY <1>7, <1>8 DEF BehindJudged, SlotOf
<1>10. QED
  BY <1>1, <1>5, <1>6, <1>9 DEF ReportInv, WindowJudged

(* One interval more of the window is judged.                              *)
LEMMA ReportIntervalDone ==
  ASSUME IngestInv, RunInv, ReportInv, CommitSave, saving # Len(Intervals)
  PROVE  ReportInv'
<1>1. /\ pc = "commit" /\ pc' = "read" /\ saving' = saving + 1
      /\ UNCHANGED <<cursor, taken, fetched>>
  BY DEF CommitSave, NextSave
<1>2. Upper' = Upper /\ saving \in DOMAIN Intervals
  BY <1>1 DEF IngestInv, TypeOK, Upper
<1>2a. cursor \in Nat /\ Upper \in Nat /\ Start \in Nat /\ cursor <= Upper
       /\ Upper <= End /\ End <= Horizon /\ End \in Nat /\ Horizon \in Nat
  BY WindowNumbers DEF IngestInv, TypeOK
<1>3. DOMAIN fetched \subseteq cursor .. Upper - 1 /\ taken \subseteq Start .. cursor - 1
  BY <1>1 DEF ReportInv, MinutesInWindow
<1>4. MinutesInWindow'
  BY <1>1, <1>2, <1>3 DEF MinutesInWindow
<1>5. AheadUnjudged'
  <2>1. ASSUME NEW j \in DOMAIN Intervals, NEW s \in Minutes, cursor <= s, saving + 1 <= j
        PROVE  \A i \in Names : i = Intervals[j] => NoVerdict(<<i, s>>)'
    <3>1. saving <= j /\ Intervals[j] # Saved
      BY <1>2, <2>1, IngestionAssumption DEF Saved
    <3>2. NoVerdict(<<Intervals[j], s>>)
      BY <1>1, <2>1, <3>1 DEF ReportInv, AheadUnjudged
    <3>3. QED
      BY <3>1, <3>2, CommitJudges
  <2>2. ASSUME NEW i \in Names, NEW s \in Minutes, Upper <= s
        PROVE  NoVerdict(<<i, s>>)'
    <3>1. NoVerdict(<<i, s>>)
      BY <1>1, <2>2 DEF ReportInv, AheadUnjudged
    <3>2. QED
      BY <2>2, <3>1, CommitJudges
  <2>3. QED
    BY <1>1, <1>2, <2>1, <2>2, IntervalFacts DEF AheadUnjudged
<1>6. ASSUME NEW i \in Names, NEW m \in taken \cup DOMAIN fetched
      PROVE  SlotOf(m, Width[i]) \in Minutes /\ (m \in taken => SlotOf(m, Width[i]) < cursor)
  <2>1. m \in Nat /\ m < Upper /\ (m \in taken => m < cursor)
    BY <1>3, <1>2a
  <2>2. 0 <= m /\ 0 % Width[i] = 0
    BY <2>1, IngestionAssumption
  <2>3. SlotOf(m, Width[i]) \in 0 .. m
    BY <2>1, <2>2, SlotBounds
  <2> DEFINE s == SlotOf(m, Width[i])
  <2> HIDE DEF s
  <2>4. s \in 0 .. Horizon - 1 /\ (m < cursor => s < cursor)
    BY <1>2a, <2>1, <2>3 DEF s
  <2>5. QED
    BY <2>1, <2>4 DEF Minutes, s
<1>7. ASSUME NEW i \in Names, NEW m \in taken
      PROVE  \A s \in Minutes : s = SlotOf(m, Width[i]) => OneVerdict(<<i, s>>)'
  BY <1>6, <1>7, CommitJudges DEF ReportInv, BehindJudged
<1>8. BehindJudged'
  BY <1>1, <1>6, <1>7 DEF BehindJudged, SlotOf
<1>9. ASSUME NEW j \in DOMAIN Intervals, NEW m \in DOMAIN fetched, j < saving + 1
      PROVE  \A i \in Names, s \in Minutes :
               (i = Intervals[j] /\ s = SlotOf(m, Width[i])) => OneVerdict(<<i, s>>)'
  <2> SUFFICES ASSUME NEW i \in Names, NEW s \in Minutes, i = Intervals[j], s = SlotOf(m, Width[i])
               PROVE  OneVerdict(<<i, s>>)'
    OBVIOUS
  <2>1. CASE i = Saved
    BY <2>1, CommitJudges
  <2>2. CASE i # Saved
    <3>1. j < saving
      BY <1>2, <1>9, <2>2, IngestionAssumption DEF Saved
    <3>2. OneVerdict(<<i, s>>)
      BY <1>1, <3>1 DEF ReportInv, WindowJudged
    <3>3. QED
      BY <2>2, <3>2, CommitJudges
  <2>3. QED
    BY <2>1, <2>2
<1>10. WindowJudged'
  BY <1>1, <1>6, <1>9, IntervalFacts DEF WindowJudged, SlotOf
<1>11. QED
  BY <1>4, <1>5, <1>8, <1>10 DEF ReportInv

LEMMA ReportInvInductive == IngestInv /\ RunInv /\ ReportInv /\ [Next]_vars => ReportInv'
<1> SUFFICES ASSUME IngestInv, RunInv, ReportInv, [Next]_vars PROVE ReportInv'
  OBVIOUS
<1>1. CASE CommitSave
  BY <1>1, ReportWindowDone, ReportIntervalDone
<1>2. CASE Begin \/ Crash
  <2>1. /\ taken' = {} /\ inserted' = {} /\ identical' = {} /\ conflicts' = {} /\ incomplete' = {}
        /\ pc' \notin {"read", "commit"}
    BY <1>2 DEF Begin, Crash, ReportLost
  <2>2. QED
    BY <2>1 DEF ReportInv, MinutesInWindow, AheadUnjudged, BehindJudged, WindowJudged, NoVerdict
<1>3. CASE FetchOk
  <2>1. /\ pc = "fetch" /\ pc' = "read" /\ saving' = 1 /\ fetched' = [m \in Wanted |-> Serves(m)]
        /\ UNCHANGED <<cursor, taken, inserted, identical, conflicts, incomplete>>
    BY <1>3 DEF FetchOk, report
  <2>2. \A j \in DOMAIN Intervals : ~(j < 1) /\ Intervals[j] \in Names
    BY IngestionAssumption DEF Names
  <2>3. Wanted \subseteq cursor .. Upper - 1 /\ Upper' = Upper
    BY <2>1 DEF Wanted, Upper
  <2>4. cursor \in Nat /\ Upper \in Nat /\ cursor <= Upper
    BY WindowNumbers DEF IngestInv, TypeOK
  <2>5. \A i \in Names, s \in Minutes : cursor <= s => NoVerdict(<<i, s>>)'
    BY <2>1 DEF ReportInv, AheadUnjudged, NoVerdict
  <2>6. \A s \in Minutes : Upper <= s => cursor <= s
    BY <2>4, IngestionAssumption DEF Minutes
  <2>7. MinutesInWindow'
    BY <2>1, <2>3 DEF ReportInv, MinutesInWindow
  <2>8. AheadUnjudged'
    BY <2>1, <2>2, <2>3, <2>5, <2>6 DEF AheadUnjudged, NoVerdict
  <2>9. BehindJudged' /\ WindowJudged'
    BY <2>1, <2>2 DEF ReportInv, BehindJudged, WindowJudged, OneVerdict
  <2>10. QED
    BY <2>7, <2>8, <2>9 DEF ReportInv
<1>4. CASE UNCHANGED <<cursor, fetched, saving, report>>
           /\ (pc' \in {"read", "commit"}) = (pc \in {"read", "commit"})
  <2>1. /\ UNCHANGED <<cursor, fetched, saving, taken, inserted, identical, conflicts, incomplete>>
        /\ Upper' = Upper
    BY <1>4 DEF report, Upper
  <2>2. MinutesInWindow'
    BY <1>4, <2>1 DEF ReportInv, MinutesInWindow
  <2>3. AheadUnjudged'
    BY <1>4, <2>1 DEF ReportInv, AheadUnjudged, NoVerdict
  <2>4. BehindJudged'
    BY <2>1 DEF ReportInv, BehindJudged, OneVerdict
  <2>5. WindowJudged'
    BY <1>4, <2>1 DEF ReportInv, WindowJudged, OneVerdict
  <2>6. QED
    BY <2>2, <2>3, <2>4, <2>5 DEF ReportInv
<1>5. CASE FetchFails \/ Wake \/ FetchAborts \/ ReadStored
  BY <1>4, <1>5 DEF FetchFails, Wake, FetchAborts, ReadStored, report
<1>6. CASE Publish \/ Correct \/ AdvanceClock \/ UNCHANGED vars
  BY <1>4, <1>6 DEF Publish, Correct, AdvanceClock, vars, ingestVars, report
<1>7. QED
  BY <1>1, <1>2, <1>3, <1>5, <1>6 DEF Next, Ingest, Work

(* However a run ends, its report tells of every bar of the windows it     *)
(* stored exactly one thing: inserted, identical, refused or incomplete.   *)
THEOREM EveryBarIsReportedOnce == Spec => []ReportAccountsForEveryBar
<1>1. ReportInv => ReportAccountsForEveryBar
  <2> SUFFICES ASSUME ReportInv, NEW i \in Names, NEW m \in taken
               PROVE  LET bar == <<i, m - (m % Width[i])>> IN
                        Cardinality({verdict \in {1, 2, 3, 4} :
                          bar \in <<inserted, identical, conflicts, incomplete>>[verdict]}) = 1
    BY DEF ReportAccountsForEveryBar
  <2> DEFINE bar == <<i, m - (m % Width[i])>>
             said == {verdict \in {1, 2, 3, 4} :
                        bar \in <<inserted, identical, conflicts, incomplete>>[verdict]}
  <2>1. OneVerdict(bar)
    BY DEF ReportInv, BehindJudged, SlotOf
  <2>2. \E v \in {1, 2, 3, 4} : said = {v}
    <3>1. CASE bar \in inserted
      <4>1. said = {1}
        BY <2>1, <3>1 DEF OneVerdict
      <4>2. QED
        BY <4>1
    <3>2. CASE bar \in identical
      <4>1. said = {2}
        BY <2>1, <3>2 DEF OneVerdict
      <4>2. QED
        BY <4>1
    <3>3. CASE bar \in conflicts
      <4>1. said = {3}
        BY <2>1, <3>3 DEF OneVerdict
      <4>2. QED
        BY <4>1
    <3>4. CASE bar \in incomplete
      <4>1. said = {4}
        BY <2>1, <3>4 DEF OneVerdict
      <4>2. QED
        BY <4>1
    <3>5. QED
      BY <2>1, <3>1, <3>2, <3>3, <3>4 DEF OneVerdict
  <2>3. Cardinality(said) = 1
    BY <2>2, FS_Singleton
  <2>4. QED
    BY <2>3
<1>2. Init => ReportInv
  BY DEF Init, ReportInv, MinutesInWindow, AheadUnjudged, BehindJudged, WindowJudged, NoVerdict
<1>3. Spec => []ReportInv
  <2>1. Spec => [](IngestInv /\ RunInv)
    BY RunInvInitially, RunInvInductive, IngestInvariant, PTL DEF Spec
  <2>2. QED
    BY <1>2, <2>1, ReportInvInductive, PTL DEF Spec
<1>4. QED
  BY <1>1, <1>3, PTL

-----------------------------------------------------------------------------
(* Every row is a vendor's or the live service's.                          *)
Sources ==
  \A i \in Names, s \in Minutes :
    stored[i][s] # None => stored[i][s].source \in {Source, LiveSource}

LiveKnown ==
  /\ DOMAIN stored = Names /\ \A i \in Names : DOMAIN stored[i] = Minutes
  /\ live_bar # <<>> =>
       /\ live_bar \in LiveBars
       /\ live_found => stored[live_bar[1]][live_bar[2]] # None

SourcesInv == Sources /\ LiveKnown

Permanent ==
  \A i \in Names, s \in Minutes :
    stored[i][s] # None => stored'[i][s] # None /\ stored'[i][s].source = stored[i][s].source

LEMMA RevisedRow ==
  ASSUME NEW bar \in LiveBars, NEW source \in {Source, LiveSource}, NEW row, row.source = source
  PROVE  /\ Revised(row, Observed(bar, LiveSource)) # None
         /\ Revised(row, Observed(bar, LiveSource)).source = source
         /\ Observed(bar, LiveSource) # None /\ Observed(bar, LiveSource).source = LiveSource
<1>1. Observed(bar, source) # None /\ Observed(bar, LiveSource) # None
  BY TableAssumption
<1>2. Revised(row, Observed(bar, LiveSource)) = Observed(bar, source)
  BY DEF Revised, Observed, Row
<1>3. QED
  BY <1>1, <1>2 DEF Observed, Row

LEMMA CommitKeepsSources ==
  ASSUME SourcesInv, CommitSave, UNCHANGED <<live_bar, live_found>>
  PROVE  SourcesInv' /\ Permanent
<1> DEFINE keys == NewKeys(known, Batch)
<1>1. stored' = [i \in Names |->
         IF i = Saved THEN WithInserted(stored[i], Batch, keys) ELSE stored[i]]
  BY DEF CommitSave
<1>2. \A s \in keys : stored[Saved][s] = None /\ s \in DOMAIN Batch
  BY DEF CommitSave, Unique, NewKeys
<1>3. \A s \in DOMAIN Batch : Batch[s].source = Source
  BY DEF Batch, Aggregate, Row
<1>4. \A i \in Names, s \in Minutes :
        stored'[i][s] = IF i = Saved /\ s \in keys THEN Batch[s] ELSE stored[i][s]
  BY <1>1 DEF WithInserted, SourcesInv, LiveKnown
<1>5. DOMAIN stored' = Names /\ \A i \in Names : DOMAIN stored'[i] = Minutes
  BY <1>1 DEF WithInserted, SourcesInv, LiveKnown
<1>6. Sources'
  BY <1>2, <1>3, <1>4 DEF Sources, SourcesInv
<1>7. Permanent
  BY <1>2, <1>4 DEF Permanent
<1>8. \A bar \in LiveBars : bar[1] \in Names /\ bar[2] \in Minutes
  BY TableAssumption
<1>9. LiveKnown'
  BY <1>5, <1>7, <1>8 DEF SourcesInv, LiveKnown, Permanent
<1>10. QED
  BY <1>6, <1>7, <1>9 DEF SourcesInv

(* The live service writes one row: its own, or one that keeps its source. *)
LEMMA LiveStoresOne ==
  ASSUME SourcesInv, NEW row, live_bar # <<>>, LiveStores(row), row # None,
         row.source \in {Source, LiveSource},
         stored[live_bar[1]][live_bar[2]] # None =>
           row.source = stored[live_bar[1]][live_bar[2]].source
  PROVE  SourcesInv' /\ Permanent
<1>1. stored' = [i \in Names |-> [s \in Minutes |->
        IF <<i, s>> = live_bar THEN row ELSE stored[i][s]]]
  BY DEF LiveStores
<1>2. live_bar' = <<>>
  BY DEF LiveStores
<1>3. \A i \in Names, s \in Minutes :
        stored'[i][s] = IF <<i, s>> = live_bar THEN row ELSE stored[i][s]
  BY <1>1
<1>4. LiveKnown'
  BY <1>1, <1>2 DEF LiveKnown
<1>5. Sources'
  BY <1>3 DEF Sources, SourcesInv
<1>6. Permanent
  BY <1>3 DEF Permanent
<1>7. QED
  BY <1>4, <1>5, <1>6 DEF SourcesInv

LEMMA LiveKeepsSources ==
  ASSUME SourcesInv, Live
  PROVE  SourcesInv' /\ Permanent
<1>1. CASE LiveLooksUp
  <2>1. stored' = stored /\ live_bar' \in LiveBars
    BY <1>1 DEF LiveLooksUp, vars
  <2>2. live_found' => stored[live_bar'[1]][live_bar'[2]] # None
    BY <1>1 DEF LiveLooksUp
  <2>3. QED
    BY <2>1, <2>2 DEF SourcesInv, Sources, LiveKnown, Permanent
<1>2. CASE LiveUpdates
  <2> DEFINE row == stored[live_bar[1]][live_bar[2]]
  <2>1. /\ live_bar # <<>> /\ live_bar \in LiveBars /\ row # None
        /\ LiveStores(Revised(row, LiveBar))
    BY <1>2 DEF LiveUpdates, SourcesInv, LiveKnown
  <2>2. row.source \in {Source, LiveSource}
    BY <2>1, TableAssumption DEF SourcesInv, Sources
  <2>3. Revised(row, LiveBar) # None /\ Revised(row, LiveBar).source = row.source
    BY <2>1, <2>2, RevisedRow DEF LiveBar
  <2>4. QED
    BY <2>1, <2>2, <2>3, LiveStoresOne
<1>3. CASE LiveInserts
  <2>1. /\ live_bar # <<>> /\ live_bar \in LiveBars /\ LiveStores(LiveBar)
        /\ stored[live_bar[1]][live_bar[2]] = None
    BY <1>3 DEF LiveInserts, LiveInsertsMay, SourcesInv, LiveKnown
  <2>2. LiveBar # None /\ LiveBar.source = LiveSource
    BY <2>1, TableAssumption DEF LiveBar, Observed, Row
  <2>3. QED
    BY <2>1, <2>2, LiveStoresOne
<1>4. CASE LiveRefused
  <2>1. stored' = stored /\ live_bar' = <<>>
    BY <1>4 DEF LiveRefused, vars
  <2>2. QED
    BY <2>1 DEF SourcesInv, Sources, LiveKnown, Permanent
<1>5. QED
  BY <1>1, <1>2, <1>3, <1>4 DEF Live

LEMMA SourcesStep ==
  ASSUME SourcesInv, [TableNext]_tableVars
  PROVE  SourcesInv' /\ Permanent
<1>1. CASE Live
  BY <1>1, LiveKeepsSources
<1>2. CASE CommitSave /\ UNCHANGED liveVars
  BY <1>2, CommitKeepsSources DEF liveVars
<1>3. CASE stored' = stored /\ UNCHANGED liveVars
  BY <1>3 DEF SourcesInv, Sources, LiveKnown, Permanent, liveVars
<1>4. CASE Backfill
  BY <1>2, <1>3, <1>4 DEF Backfill, CommitRefused, Next, Ingest, Work, Begin, FetchOk, FetchFails,
     Wake, FetchAborts, ReadStored, Crash, ReportLost, Publish, Correct, AdvanceClock
<1>5. CASE Loader \/ UNCHANGED tableVars
  BY <1>3, <1>5 DEF Loader, BeginLoad, ReadSignalPage, ReadMinutesPage, Validate, tableVars, vars
<1>6. QED
  BY <1>1, <1>4, <1>5 DEF TableNext

LEMMA SourcesInitially == TableInit => SourcesInv
<1> SUFFICES ASSUME TableInit PROVE SourcesInv
  OBVIOUS
<1>1. stored = [i \in Names |-> NoRows] /\ live_bar = <<>>
  BY DEF TableInit, Init
<1>2. QED
  BY <1>1 DEF SourcesInv, Sources, LiveKnown, NoRows

(* Whoever writes, and whatever transactions are refused or interrupted,   *)
(* no row is ever removed and none changes its source: what the live       *)
(* service built never passes for history, nor history for live bars.      *)
THEOREM SourcesNeverChange == TableSpec => SourceIsPermanent
<1> DEFINE Stays == \A i \in Names, s \in Minutes :
                     stored[i][s] # None => /\ stored'[i][s] # None
                                            /\ stored'[i][s].source = stored[i][s].source
<1>1. TableSpec => []SourcesInv
  BY SourcesInitially, SourcesStep, PTL DEF TableSpec
<1>2. SourcesInv /\ [TableNext]_tableVars => Stays
  BY SourcesStep DEF Permanent
<1>3. QED
  BY <1>1, <1>2, PTL DEF TableSpec, SourceIsPermanent
-----------------------------------------------------------------------------
(* Pages.  A nonempty set of minutes has a least and a greatest element.   *)
LEMMA LeastMinute ==
  ASSUME NEW T \in SUBSET Nat, NEW t \in T
  PROVE  \E x \in T : \A y \in T : x <= y
<1> DEFINE R == OpToRel(<, Nat)
<1>1. IsWellFoundedOn(R, Nat)
  BY NatLessThanWellFounded
<1> HIDE DEF R
<1>2. PICK x \in T : \A y \in T : ~(<<y, x>> \in R)
  BY <1>1, WFMin
<1>3. \A y \in T : ~(y < x)
  BY <1>2 DEF R, OpToRel
<1>4. \A y \in T : x <= y
  BY <1>3
<1>5. QED
  BY <1>4

LEMMA GreatestMinute ==
  ASSUME NEW T \in SUBSET Minutes, NEW t \in T
  PROVE  LastOf(T) \in T /\ \A y \in T : y <= LastOf(T)
<1> DEFINE mirrored == {Horizon - y : y \in T}
<1>1. Horizon \in Nat /\ \A y \in T : y \in Nat /\ y < Horizon
  BY IngestionAssumption DEF Minutes
<1>2. mirrored \in SUBSET Nat /\ Horizon - t \in mirrored
  BY <1>1
<1> HIDE DEF mirrored
<1>3. PICK z \in mirrored : \A w \in mirrored : z <= w
  BY <1>2, LeastMinute
<1>4. PICK x \in T : z = Horizon - x
  BY DEF mirrored
<1>5. \A y \in T : Horizon - y \in mirrored
  BY DEF mirrored
<1>6. \A y \in T : z <= Horizon - y
  BY <1>3, <1>5
<1>7. \A y \in T : y <= x
  BY <1>1, <1>4, <1>6
<1>8. \E last \in T : \A y \in T : y <= last
  BY <1>7
<1>9. QED
  BY <1>8 DEF LastOf

(* candles_page misses nothing: a page holds the first rows of those that  *)
(* follow, and all of them when it says that no more do.                   *)
LEMMA PageFacts ==
  ASSUME NEW F \in SUBSET Minutes
  PROVE  LET page == PageOf(F, PageSize) IN
           /\ page \subseteq F
           /\ PageEndsSeries(F) => page = F
           /\ ~PageEndsSeries(F) => /\ LastOf(page) \in page
                                    /\ \A m \in F : m <= LastOf(page) => m \in page
<1> DEFINE below(m) == {k \in F : k < m}
           page == PageOf(F, PageSize)
<1>1. Horizon \in Nat /\ PageSize \in Nat \ {0} /\ \A m \in F : m \in Nat
  BY IngestionAssumption, TableAssumption DEF Minutes
<1>2. IsFiniteSet(F)
  <2>1. IsFiniteSet(Minutes)
    BY <1>1, FS_Interval DEF Minutes
  <2>2. QED
    BY <2>1, FS_Subset
<1>3. page = {m \in F : Cardinality(below(m)) < PageSize}
  BY DEF PageOf
<1>4. \A m \in F : IsFiniteSet(below(m)) /\ Cardinality(below(m)) \in Nat
  <2>1. \A m \in F : below(m) \in SUBSET F
    OBVIOUS
  <2> HIDE DEF below
  <2>2. QED
    BY <1>2, <2>1, FS_Subset, FS_CardinalityType
<1>5. ASSUME NEW m \in F, NEW n \in F, m <= n
      PROVE  Cardinality(below(m)) <= Cardinality(below(n))
  <2>1. below(m) \in SUBSET below(n)
    BY <1>1, <1>5
  <2> HIDE DEF below
  <2>2. QED
    BY <1>4, <2>1, FS_Subset
<1>6. ASSUME NEW m \in F
      PROVE  Cardinality(below(m)) < Cardinality(F)
  <2>1. below(m) \in SUBSET F /\ m \notin below(m)
    BY <1>1
  <2> HIDE DEF below
  <2>2. Cardinality(below(m)) <= Cardinality(F) /\ Cardinality(below(m)) # Cardinality(F)
    BY <1>2, <2>1, FS_Subset
  <2>3. Cardinality(below(m)) \in Nat /\ Cardinality(F) \in Nat
    BY <1>2, <1>4, FS_CardinalityType
  <2>4. QED
    BY <2>2, <2>3
<1> DEFINE size == Cardinality(F)
<1>7. size \in Nat
  BY <1>2, FS_CardinalityType
<1>8. ASSUME PageEndsSeries(F) PROVE page = F
  <2>1. size <= PageSize
    BY <1>8 DEF PageEndsSeries
  <2> HIDE DEF below, size
  <2>2. \A m \in F : Cardinality(below(m)) < PageSize
    BY <1>1, <1>4, <1>6, <1>7, <2>1 DEF size
  <2>3. QED
    BY <1>3, <2>2
<1>9. ASSUME ~PageEndsSeries(F)
      PROVE  LastOf(page) \in page /\ \A m \in F : m <= LastOf(page) => m \in page
  <2>1. PageSize < size
    BY <1>1, <1>7, <1>9 DEF PageEndsSeries
  <2>2. F # {}
    <3>1. size # 0
      BY <1>1, <1>7, <2>1
    <3>2. QED
      BY <3>1, FS_EmptySet
  <2>3. PICK first \in F : \A m \in F : first <= m
    <3>1. F \in SUBSET Nat
      BY <1>1
    <3>2. QED
      BY <2>2, <3>1, LeastMinute
  <2>4. below(first) = {}
    BY <1>1, <2>3
  <2>5. first \in page
    <3>1. Cardinality(below(first)) = 0
      BY <2>4, FS_EmptySet
    <3> HIDE DEF below
    <3>2. QED
      BY <1>1, <1>3, <3>1
  <2>6. page \in SUBSET Minutes
    BY <1>3
  <2> HIDE DEF page, below
  <2>7. LastOf(page) \in page
    BY <2>5, <2>6, GreatestMinute
  <2>8. ASSUME NEW m \in F, m <= LastOf(page) PROVE m \in page
    <3>1. LastOf(page) \in F /\ Cardinality(below(LastOf(page))) < PageSize
      BY <1>3, <2>7
    <3>2. Cardinality(below(m)) <= Cardinality(below(LastOf(page)))
      BY <1>5, <2>8, <3>1
    <3>3. QED
      BY <1>1, <1>3, <1>4, <3>1, <3>2
  <2>9. QED
    BY <2>7, <2>8
<1>10. page \subseteq F
  BY <1>3
<1>11. QED
  BY <1>8, <1>9, <1>10
-----------------------------------------------------------------------------
(* What a load owes.  Only the backfill and the loader meet in one         *)
(* behaviour: a loader without live bars, or live bars without a loader.   *)
Alone ==
  /\ actor \in {"live", "load"}
  /\ actor = "live" => load = "idle"
  /\ actor = "load" => live_bar = <<>>

(* Bars begin at multiples of their width.                                 *)
StartsAligned == \A i \in Names, s \in Minutes : stored[i][s] # None => s % Width[i] = 0

(* What has been read of a series is of the range, and as it is stored.    *)
ReadAsStored(interval, read) ==
  /\ DOMAIN read \subseteq Start .. End - 1
  /\ \A s \in DOMAIN read : read[s] # None /\ stored[interval][s] = read[s]

(* The minutes up to the cursor that a signal bar needs have been read,    *)
(* and when the loader checks, all of them.                                *)
MinutesRead ==
  load \notin {"idle", "signal"} =>
    \A s \in DOMAIN signal : \A m \in Slot(s, Width[SignalBars]) :
      (load # "minutes" \/ m <= after) => m \in DOMAIN minutes

LoadProgress ==
  /\ load \in {"idle", "signal", "minutes", "check", "empty", "foreign", "disagrees", "loaded"}
  /\ load = "minutes" => after \in Int
  /\ load = "loaded" => Matching

LoadInv ==
  actor = "load" =>
    /\ IngestInv /\ StartsAligned
    /\ ReadAsStored(SignalBars, signal) /\ ReadAsStored("1m", minutes)
    /\ MinutesRead /\ LoadProgress

(* Every minute of a signal bar that was read is in the range and stored.  *)
LEMMA SignalMinutes ==
  ASSUME IngestInv, StartsAligned, NEW read, ReadAsStored(SignalBars, read),
         NEW s \in DOMAIN read, NEW m \in Slot(s, Width[SignalBars])
  PROVE  m \in Start .. End - 1 /\ stored["1m"][m] # None
<1> DEFINE w == Width[SignalBars]
<1>1. /\ Start \in Nat /\ End \in Nat /\ End <= Horizon /\ Horizon \in Nat
      /\ SignalBars \in Names /\ w \in Nat \ {0} /\ End % w = 0
  BY IngestionAssumption, TableAssumption
<1>2. s \in Start .. End - 1 /\ stored[SignalBars][s] # None
  BY DEF ReadAsStored
<1>3. s \in Nat /\ s < End /\ s \in Minutes
  BY <1>1, <1>2 DEF Minutes
<1>4. s % w = 0
  BY <1>1, <1>2, <1>3 DEF StartsAligned
<1>5. s + w <= End
  BY <1>1, <1>3, <1>4, AlignedGap
<1>6. m \in s .. s + w - 1
  BY DEF Slot
<1>7. m \in Start .. End - 1
  BY <1>1, <1>2, <1>3, <1>5, <1>6
<1>8. stored["1m"][m] # None
  BY <1>1, <1>2, <1>3 DEF IngestInv, StoredBarsAreWhole
<1>9. QED
  BY <1>7, <1>8

(* The backfill while a load is under way.                                 *)
LEMMA RefusedKeepsInv ==
  ASSUME IngestInv, CommitRefused
  PROVE  IngestInv'
<1>1. /\ stored' = stored /\ vendor' = vendor /\ now' = now /\ runs' = runs /\ pc' = "raised"
      /\ as_of' = 0 /\ offered' = {} /\ cursor' = Start /\ failures' = 0 /\ taken' = {}
      /\ fetched' = Nothing /\ saving' = 1 /\ known' = NoRows /\ foretold' = foretold
  BY DEF CommitRefused, ReportLost, WindowForgotten
<1>2. DOMAIN Nothing = {} /\ Nothing \in [DOMAIN Nothing -> Served] /\ DOMAIN NoRows = Minutes
  BY DEF Nothing, NoRows
<1>3. Start \in Start .. End /\ 0 \in 0 .. MaxAttempts /\ 1 \in DOMAIN Intervals /\ 0 \in 0 .. now
  <2>1. Start \in Start .. End /\ 0 \in 0 .. MaxAttempts
    BY IngestionAssumption
  <2>2. now \in 0 .. Horizon /\ Horizon \in Nat
    BY IngestionAssumption DEF IngestInv, TypeOK
  <2>3. 0 \in 0 .. now
    BY <2>2
  <2>4. QED
    BY <2>1, <2>3, IntervalFacts
<1>4. TypeOK'
  BY <1>1, <1>2, <1>3 DEF IngestInv, TypeOK, Over
<1>5. FormingWasForetold'
  <2>1. \A m \in Minutes : ~(m < 0)
    BY IngestionAssumption DEF Minutes
  <2>2. DOMAIN fetched' = {}
    BY <1>1, <1>2
  <2>3. QED
    BY <1>1, <2>1, <2>2 DEF FormingWasForetold, IngestInv
<1>6. QED
  BY <1>1, <1>2, <1>4, <1>5 DEF IngestInv, KnownIsStored, MinutesComeFirst,
                                StoredBarsAreWhole, SlotsFit

LEMMA BackfillKeepsTable ==
  ASSUME IngestInv, StartsAligned, Backfill
  PROVE  /\ IngestInv' /\ StartsAligned'
         /\ \A i \in Names, s \in Minutes : stored[i][s] # None => stored'[i][s] = stored[i][s]
<1>1. IngestInv'
  BY IngestInvInductive, RefusedKeepsInv DEF Backfill
<1>2. CASE CommitSave
  <2>1. \A i \in Names, s \in Minutes :
          /\ stored[i][s] # None => stored'[i][s] = stored[i][s]
          /\ (stored[i][s] = None /\ stored'[i][s] # None) => i = Saved /\ s \in DOMAIN Batch
    BY <1>2, CommitWrites DEF IngestInv
  <2>2. \A s \in DOMAIN Batch : s % Width[Saved] = 0
    BY DEF Batch, Aggregate, WholeSlots
  <2>3. StartsAligned'
    BY <2>1, <2>2 DEF StartsAligned
  <2>4. QED
    BY <1>1, <2>1, <2>3
<1>3. CASE stored' = stored
  BY <1>1, <1>3 DEF StartsAligned
<1>4. QED
  BY <1>2, <1>3 DEF Backfill, CommitRefused, Next, Ingest, Work, Begin, FetchOk, FetchFails,
     Wake, FetchAborts, ReadStored, Crash, ReportLost, Publish, Correct, AdvanceClock

LEMMA BackfillKeepsLoad ==
  ASSUME LoadInv, Backfill
  PROVE  LoadInv'
<1>1. UNCHANGED <<actor, load, after, signal, minutes>>
  BY DEF Backfill, CommitRefused, loadVars
<1> SUFFICES ASSUME actor = "load" PROVE LoadInv'
  BY <1>1 DEF LoadInv
<1>2. /\ IngestInv /\ StartsAligned
      /\ ReadAsStored(SignalBars, signal) /\ ReadAsStored("1m", minutes)
      /\ MinutesRead /\ LoadProgress
  BY DEF LoadInv
<1>3. /\ IngestInv' /\ StartsAligned'
      /\ \A i \in Names, s \in Minutes : stored[i][s] # None => stored'[i][s] = stored[i][s]
  BY <1>2, BackfillKeepsTable
<1>4. Start .. End - 1 \subseteq Minutes
  BY IngestionAssumption DEF Minutes
<1>5. SignalBars \in Names /\ "1m" \in Names
  BY TableAssumption, IntervalFacts
<1>6. ReadAsStored(SignalBars, signal)' /\ ReadAsStored("1m", minutes)'
  BY <1>1, <1>2, <1>3, <1>4, <1>5 DEF ReadAsStored
<1>7. MinutesRead' /\ LoadProgress'
  BY <1>1, <1>2 DEF MinutesRead, LoadProgress, Matching
<1>8. QED
  BY <1>3, <1>6, <1>7 DEF LoadInv

-----------------------------------------------------------------------------
(* One page of either series.                                              *)
LEMMA PageKeepsRead ==
  ASSUME NEW interval \in Names, NEW read, ReadAsStored(interval, read),
         NEW page, page \subseteq Following(stored[interval], Start, End, after)
  PROVE  /\ ReadAsStored(interval, WithPage(read, stored[interval], page))
         /\ DOMAIN WithPage(read, stored[interval], page) = DOMAIN read \cup page
BY DEF ReadAsStored, WithPage, Following

LEMMA SignalPageKeepsLoad ==
  ASSUME LoadInv, actor = "load", ReadSignalPage
  PROVE  LoadInv'
<1> DEFINE following == Following(stored[SignalBars], Start, End, after)
           page == PageOf(following, PageSize)
<1>1. /\ signal' = WithPage(signal, stored[SignalBars], page)
      /\ (load' = "minutes" /\ after' = Before) \/ load' = "signal"
      /\ UNCHANGED <<vars, actor, minutes>>
  BY DEF ReadSignalPage, ReadPage
<1>2. /\ IngestInv /\ StartsAligned
      /\ ReadAsStored(SignalBars, signal) /\ ReadAsStored("1m", minutes)
  BY DEF LoadInv
<1>3. page \subseteq following
  BY DEF PageOf
<1>4. ReadAsStored(SignalBars, signal)' /\ ReadAsStored("1m", minutes)'
  <2> HIDE DEF page
  <2>1. ReadAsStored(SignalBars, WithPage(signal, stored[SignalBars], page))
    BY <1>2, <1>3, PageKeepsRead, TableAssumption
  <2>2. QED
    BY <1>1, <1>2, <2>1 DEF ReadAsStored, vars
<1>5. IngestInv' /\ StartsAligned'
  BY <1>1, <1>2, IngestInvInductive DEF vars, StartsAligned
<1>6. MinutesRead'
  <2> SUFFICES ASSUME load' = "minutes", NEW s \in DOMAIN signal',
                      NEW m \in Slot(s, Width[SignalBars]), m <= after'
               PROVE  m \in DOMAIN minutes'
    BY <1>1 DEF MinutesRead
  <2>1. m \in Start .. End - 1
    <3>1. ReadAsStored(SignalBars, signal')
      BY <1>1, <1>4 DEF ReadAsStored, vars
    <3>2. QED
      BY <1>2, <3>1, SignalMinutes
  <2>2. FALSE
    BY <1>1, <2>1, IngestionAssumption DEF Before
  <2>3. QED
    BY <2>2
<1>7. LoadProgress'
  BY <1>1 DEF LoadProgress, Before
<1>8. QED
  BY <1>1, <1>4, <1>5, <1>6, <1>7 DEF LoadInv

LEMMA MinutesPageKeepsLoad ==
  ASSUME LoadInv, actor = "load", ReadMinutesPage
  PROVE  LoadInv'
<1> DEFINE following == Following(stored["1m"], Start, End, after)
           page == PageOf(following, PageSize)
<1>1. /\ load = "minutes" /\ minutes' = WithPage(minutes, stored["1m"], page)
      /\ IF PageEndsSeries(following) THEN load' = "check"
                                      ELSE load' = load /\ after' = LastOf(page)
      /\ UNCHANGED <<vars, actor, signal>>
  BY DEF ReadMinutesPage, ReadPage
<1>2. /\ IngestInv /\ StartsAligned
      /\ ReadAsStored(SignalBars, signal) /\ ReadAsStored("1m", minutes)
      /\ MinutesRead /\ after \in Int
  BY <1>1 DEF LoadInv, LoadProgress
<1>3. following \subseteq Start .. End - 1 /\ following \in SUBSET Minutes
  BY IngestionAssumption DEF Following, Minutes
<1>4. /\ page \subseteq following
      /\ PageEndsSeries(following) => page = following
      /\ ~PageEndsSeries(following) => /\ LastOf(page) \in page
                                       /\ \A m \in following : m <= LastOf(page) => m \in page
  <2> HIDE DEF following
  <2>1. QED
    BY <1>3, PageFacts
<1>5. ASSUME NEW m \in Start .. End - 1, stored["1m"][m] # None, ~(m <= after)
      PROVE  m \in following
  BY <1>2, <1>5, IngestionAssumption DEF Following
<1> HIDE DEF page, following
<1>6. /\ ReadAsStored("1m", WithPage(minutes, stored["1m"], page))
      /\ DOMAIN minutes' = DOMAIN minutes \cup page
  BY <1>1, <1>2, <1>4, PageKeepsRead, IntervalFacts DEF following
<1>7. ReadAsStored(SignalBars, signal)' /\ ReadAsStored("1m", minutes)'
  BY <1>1, <1>2, <1>6 DEF ReadAsStored, vars
<1>8. IngestInv' /\ StartsAligned'
  BY <1>1, <1>2, IngestInvInductive DEF vars, StartsAligned
<1>9. MinutesRead'
  <2> SUFFICES ASSUME NEW s \in DOMAIN signal, NEW m \in Slot(s, Width[SignalBars]),
                      load' # "minutes" \/ m <= after'
               PROVE  m \in DOMAIN minutes'
    BY <1>1 DEF MinutesRead
  <2>1. m \in Start .. End - 1 /\ stored["1m"][m] # None
    BY <1>2, SignalMinutes
  <2>2. CASE m <= after
    BY <1>1, <1>2, <1>6, <2>2 DEF MinutesRead
  <2>3. CASE ~(m <= after)
    <3>1. m \in following
      BY <1>5, <2>1, <2>3
    <3>2. m \in page
      BY <1>1, <1>4, <3>1
    <3>3. QED
      BY <1>6, <3>2
  <2>4. QED
    BY <2>2, <2>3
<1>10. LoadProgress'
  <2>1. load' = "minutes" => after' \in Int
    <3> SUFFICES ASSUME load' = "minutes" PROVE after' \in Int
      OBVIOUS
    <3>1. after' \in Start .. End - 1
      BY <1>1, <1>3, <1>4
    <3>2. QED
      BY <3>1
  <2>2. QED
    BY <1>1, <2>1 DEF LoadProgress
<1>11. QED
  BY <1>1, <1>7, <1>8, <1>9, <1>10 DEF LoadInv

(* The check finds the minutes of every signal bar.                        *)
LEMMA ValidateKeepsLoad ==
  ASSUME LoadInv, actor = "load", Validate
  PROVE  LoadInv'
<1>1. load = "check" /\ load' = Verdict /\ UNCHANGED <<vars, actor, after, signal, minutes>>
  BY DEF Validate
<1>2. /\ IngestInv /\ StartsAligned
      /\ ReadAsStored(SignalBars, signal) /\ ReadAsStored("1m", minutes) /\ MinutesRead
  BY DEF LoadInv
<1>3. Covered
  BY <1>1, <1>2 DEF MinutesRead, Covered
<1>4. Verdict \in {"empty", "foreign", "disagrees", "loaded"} /\ (Verdict = "loaded" => Matching)
  BY <1>3 DEF Verdict
<1>5. IngestInv' /\ StartsAligned'
  BY <1>1, <1>2, IngestInvInductive DEF vars, StartsAligned
<1>6. ReadAsStored(SignalBars, signal)' /\ ReadAsStored("1m", minutes)'
  BY <1>1, <1>2 DEF ReadAsStored, vars
<1>7. MinutesRead' /\ LoadProgress'
  BY <1>1, <1>2, <1>4 DEF MinutesRead, LoadProgress, Matching
<1>8. QED
  BY <1>1, <1>5, <1>6, <1>7 DEF LoadInv

LEMMA RestKeepsLoad ==
  ASSUME LoadInv, actor = "load", BeginLoad \/ UNCHANGED tableVars
  PROVE  LoadInv'
<1>1. /\ UNCHANGED <<vars, actor, after, signal, minutes>>
      /\ (load' = "signal") \/ load' = load
  BY DEF BeginLoad, tableVars, loadVars
<1>2. /\ IngestInv /\ StartsAligned
      /\ ReadAsStored(SignalBars, signal) /\ ReadAsStored("1m", minutes)
      /\ MinutesRead /\ LoadProgress
  BY DEF LoadInv
<1>3. IngestInv' /\ StartsAligned'
  BY <1>1, <1>2, IngestInvInductive DEF vars, StartsAligned
<1>4. ReadAsStored(SignalBars, signal)' /\ ReadAsStored("1m", minutes)'
  BY <1>1, <1>2 DEF ReadAsStored, vars
<1>5. MinutesRead' /\ LoadProgress'
  BY <1>1, <1>2 DEF MinutesRead, LoadProgress, Matching
<1>6. QED
  BY <1>1, <1>3, <1>4, <1>5 DEF LoadInv

LEMMA AloneStep == Alone /\ [TableNext]_tableVars => Alone'
BY DEF Alone, TableNext, Backfill, CommitRefused, Live, LiveLooksUp, LiveUpdates, LiveInserts,
       LiveRefused, LiveStores, Loader, BeginLoad, ReadSignalPage, ReadMinutesPage, Validate,
       tableVars, liveVars, loadVars

LEMMA LoadInvInductive == Alone /\ LoadInv /\ [TableNext]_tableVars => LoadInv'
<1> SUFFICES ASSUME Alone, LoadInv, [TableNext]_tableVars PROVE LoadInv'
  OBVIOUS
<1>1. actor' = actor
  BY DEF TableNext, Backfill, CommitRefused, Live, LiveLooksUp, LiveUpdates, LiveInserts,
         LiveRefused, LiveStores, Loader, BeginLoad, ReadSignalPage, ReadMinutesPage, Validate,
         tableVars
<1>2. CASE actor # "load"
  BY <1>1, <1>2 DEF LoadInv
<1>3. CASE actor = "load"
  <2>1. live_bar = <<>>
    BY <1>3 DEF Alone
  <2>2. ~Live
    BY <1>3, <2>1 DEF Live, LiveLooksUp, LiveUpdates, LiveInserts, LiveRefused
  <2>3. QED
    BY <1>3, <2>2, BackfillKeepsLoad, SignalPageKeepsLoad, MinutesPageKeepsLoad,
       ValidateKeepsLoad, RestKeepsLoad DEF TableNext, Loader
<1>4. QED
  BY <1>2, <1>3

LEMMA LoadInvInitially == TableInit => Alone /\ LoadInv
<1> SUFFICES ASSUME TableInit PROVE Alone /\ LoadInv
  OBVIOUS
<1>1. /\ Init /\ actor \in Actors /\ load = "idle" /\ live_bar = <<>>
      /\ signal = NoneRead /\ minutes = NoneRead
  BY DEF TableInit
<1>2. Alone
  BY <1>1, TableAssumption DEF Alone
<1>3. IngestInv
  BY <1>1, IngestInvInitially
<1>4. StartsAligned
  BY <1>1 DEF Init, NoRows, StartsAligned
<1>5. DOMAIN NoneRead = {}
  BY DEF NoneRead
<1>6. ReadAsStored(SignalBars, signal) /\ ReadAsStored("1m", minutes)
  BY <1>1, <1>5 DEF ReadAsStored
<1>7. MinutesRead /\ LoadProgress
  BY <1>1 DEF MinutesRead, LoadProgress
<1>8. QED
  BY <1>2, <1>3, <1>4, <1>6, <1>7 DEF LoadInv

LEMMA LoadInvariant == TableSpec => [](Alone /\ LoadInv)
BY LoadInvInitially, LoadInvInductive, AloneStep, PTL DEF TableSpec

(* A load that raced a backfill - killed, refused, retried or still going  *)
(* on - is never refused for want of a minute: bars are stored after their *)
(* minutes and read before them, and no page misses one.                   *)
THEOREM LoadsAreCovered == TableSpec => []NeverUncovered
<1>1. Alone /\ LoadInv => NeverUncovered
  BY DEF Alone, LoadInv, LoadProgress, NeverUncovered
<1>2. QED
  BY <1>1, LoadInvariant, PTL

(* What a backtest was loaded from stays in the table, and its signal bars *)
(* are made of exactly the minutes that are stored.                        *)
THEOREM LoadsStayTrue == TableSpec => []LoadedIsWhatIsStored
<1>1. Alone /\ LoadInv => LoadedIsWhatIsStored
  <2> SUFFICES ASSUME Alone, LoadInv, load = "loaded" PROVE LoadedIsWhatIsStored
    BY DEF LoadedIsWhatIsStored
  <2>1. /\ ReadAsStored(SignalBars, signal) /\ ReadAsStored("1m", minutes)
        /\ MinutesRead /\ Matching
    BY DEF Alone, LoadInv, LoadProgress
  <2>2. \A s \in DOMAIN signal : Slot(s, Width[SignalBars]) \subseteq DOMAIN minutes
    BY <2>1 DEF MinutesRead
  <2>3. QED
    BY <2>1, <2>2 DEF LoadedIsWhatIsStored, ReadAsStored, Matching
<1>2. QED
  BY <1>1, LoadInvariant, PTL
=============================================================================
