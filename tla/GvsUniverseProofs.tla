------------------------- MODULE GvsUniverseProofs -------------------------
(***************************************************************************)
(* For every shortlist, instrument master and evidence, and any number of  *)
(* slots: the slots go to those that trade most, one whose data is lost is *)
(* not replaced, and more turnover never costs a slot.                     *)
(***************************************************************************)
EXTENDS GvsUniverse, FunctionTheorems, FiniteSetTheorems, TLAPS

-----------------------------------------------------------------------------
(* Ranks.  Before is a strict order of any two securities, so that ranks   *)
(* are the numbers from 1 on, each of them taken once.                     *)
Ranking(values) ==
  /\ IsFiniteSet(DOMAIN values) /\ DOMAIN values \subseteq Nat
  /\ values \in [DOMAIN values -> Int]

Earlier(values, s) == {t \in DOMAIN values : Before(values, t, s)}
Top(values, n) == {s \in DOMAIN values : Rank(values, s) <= n}

LEMMA EarlierIsFinite ==
  ASSUME NEW values, Ranking(values), NEW s
  PROVE  IsFiniteSet(Earlier(values, s)) /\ Cardinality(Earlier(values, s)) \in Nat
BY FS_Subset, FS_CardinalityType DEF Earlier, Ranking

LEMMA RankCounts ==
  ASSUME NEW values, NEW s
  PROVE  Rank(values, s) = 1 + Cardinality(Earlier(values, s))
BY DEF Rank, Earlier

LEMMA RankType ==
  ASSUME NEW values, Ranking(values), NEW s \in DOMAIN values
  PROVE  Rank(values, s) \in 1 .. Cardinality(DOMAIN values)
<1>1. Earlier(values, s) \subseteq DOMAIN values \ {s}
  BY DEF Earlier, Before, Ranking
<1>2. /\ IsFiniteSet(DOMAIN values \ {s}) /\ Cardinality(DOMAIN values) \in Nat
      /\ Cardinality(DOMAIN values \ {s}) = Cardinality(DOMAIN values) - 1
  BY FS_RemoveElement, FS_CardinalityType DEF Ranking
<1>3. Cardinality(Earlier(values, s)) <= Cardinality(DOMAIN values \ {s})
  BY <1>1, <1>2, FS_Subset
<1>4. QED
  BY <1>2, <1>3, RankCounts, EarlierIsFinite

(* A security that comes before another has the smaller rank.              *)
LEMMA RankFollowsOrder ==
  ASSUME NEW values, Ranking(values), NEW s \in DOMAIN values, NEW t \in DOMAIN values,
         Before(values, s, t)
  PROVE  Rank(values, s) < Rank(values, t)
<1>1. Earlier(values, s) \cup {s} \subseteq Earlier(values, t) /\ s \notin Earlier(values, s)
  BY DEF Earlier, Before, Ranking
<1>2. Cardinality(Earlier(values, s) \cup {s}) = Cardinality(Earlier(values, s)) + 1
  BY <1>1, EarlierIsFinite, FS_AddElement
<1>3. Cardinality(Earlier(values, s) \cup {s}) <= Cardinality(Earlier(values, t))
  BY <1>1, EarlierIsFinite, FS_Subset
<1>4. QED
  BY <1>2, <1>3, RankCounts, EarlierIsFinite

LEMMA RanksDiffer ==
  ASSUME NEW values, Ranking(values), NEW s \in DOMAIN values, NEW t \in DOMAIN values, s # t
  PROVE  Rank(values, s) # Rank(values, t)
<1>1. Before(values, s, t) \/ Before(values, t, s)
  BY DEF Before, Ranking
<1>2. Rank(values, s) < Rank(values, t) \/ Rank(values, t) < Rank(values, s)
  BY <1>1, RankFollowsOrder
<1>3. Rank(values, s) \in Int /\ Rank(values, t) \in Int
  BY RankType
<1>4. QED
  BY <1>2, <1>3

(* Who ranks higher is worth at least as much.                             *)
LEMMA RankFollowsValue ==
  ASSUME NEW values, Ranking(values), NEW s \in DOMAIN values, NEW t \in DOMAIN values,
         Rank(values, s) <= Rank(values, t)
  PROVE  values[s] >= values[t]
<1>1. SUFFICES ASSUME values[s] < values[t] PROVE FALSE
  BY DEF Ranking
<1>2. Rank(values, t) < Rank(values, s)
  BY <1>1, RankFollowsOrder DEF Before
<1>3. QED
  BY <1>2, RankType

(* Every rank is taken.                                                    *)
LEMMA EveryRankIsTaken ==
  ASSUME NEW values, Ranking(values), NEW n \in 1 .. Cardinality(DOMAIN values)
  PROVE  \E s \in DOMAIN values : Rank(values, s) = n
<1> DEFINE D    == DOMAIN values
           size == Cardinality(D)
           f    == [s \in D |-> Rank(values, s)]
<1>1. IsFiniteSet(D) /\ size \in Nat
  BY FS_CardinalityType DEF Ranking
<1>2. IsFiniteSet(1 .. size) /\ Cardinality(1 .. size) = size
  BY <1>1, FS_Interval
<1>3. f \in [D -> 1 .. size]
  BY RankType
<1>4. \A s, t \in D : f[s] = f[t] => s = t
  BY RanksDiffer
<1>5. f \in Injection(D, 1 .. size)
  BY <1>3, <1>4 DEF Injection, IsInjective
<1>6. f \in Surjection(D, 1 .. size)
  BY <1>2, <1>5, FS_Injection
<1>7. QED
  BY <1>6 DEF Surjection

(* So the first n ranks are n securities, if there are as many; and never  *)
(* more than n.                                                            *)
LEMMA TopIsFinite ==
  ASSUME NEW values, Ranking(values), NEW n
  PROVE  IsFiniteSet(Top(values, n)) /\ Cardinality(Top(values, n)) \in Nat
BY FS_Subset, FS_CardinalityType DEF Top, Ranking

LEMMA TopIsAtMost ==
  ASSUME NEW values, Ranking(values), NEW n \in Nat
  PROVE  Cardinality(Top(values, n)) <= n
<1> DEFINE f == [s \in Top(values, n) |-> Rank(values, s)]
<1>1. f \in [Top(values, n) -> 1 .. n]
  BY RankType DEF Top
<1>2. \A s, t \in Top(values, n) : f[s] = f[t] => s = t
  BY RanksDiffer DEF Top
<1>3. f \in Injection(Top(values, n), 1 .. n)
  BY <1>1, <1>2 DEF Injection, IsInjective
<1>4. IsFiniteSet(1 .. n) /\ Cardinality(1 .. n) = n
  BY FS_Interval
<1>5. QED
  BY <1>3, <1>4, FS_Injection

LEMMA TopIsFull ==
  ASSUME NEW values, Ranking(values), NEW n \in Nat, n <= Cardinality(DOMAIN values)
  PROVE  Cardinality(Top(values, n)) = n
<1> DEFINE f == [s \in Top(values, n) |-> Rank(values, s)]
<1>1. f \in [Top(values, n) -> 1 .. n]
  BY RankType DEF Top
<1>2. \A s, t \in Top(values, n) : f[s] = f[t] => s = t
  BY RanksDiffer DEF Top
<1>3. f \in Injection(Top(values, n), 1 .. n)
  BY <1>1, <1>2 DEF Injection, IsInjective
<1>4. IsFiniteSet(1 .. n) /\ Cardinality(1 .. n) = n
  BY FS_Interval
<1>5. \A m \in 1 .. n : \E s \in Top(values, n) : f[s] = m
  <2>1. TAKE m \in 1 .. n
  <2>2. m \in 1 .. Cardinality(DOMAIN values)
    BY FS_CardinalityType DEF Ranking
  <2>3. QED
    BY <2>2, EveryRankIsTaken DEF Top
<1>6. f \in Surjection(Top(values, n), 1 .. n)
  BY <1>1, <1>5 DEF Surjection
<1>7. QED
  BY <1>3, <1>4, <1>6, FS_Injection

(* Without a tie across the cutoff, who is above it is worth strictly more *)
(* than who is below: the alphabet decides nothing.                        *)
LEMMA CutoffSeparates ==
  ASSUME NEW values, Ranking(values), NEW n \in Int, ~Tied(values, n),
         NEW s \in DOMAIN values, NEW t \in DOMAIN values,
         Rank(values, s) <= n, n < Rank(values, t)
  PROVE  values[s] > values[t]
<1>1. /\ Rank(values, s) \in 1 .. Cardinality(DOMAIN values)
      /\ Rank(values, t) \in 1 .. Cardinality(DOMAIN values)
      /\ Cardinality(DOMAIN values) \in Nat
  BY RankType, FS_CardinalityType DEF Ranking
<1>2. n \in 1 .. Cardinality(DOMAIN values) /\ n + 1 \in 1 .. Cardinality(DOMAIN values)
  BY <1>1
<1>3. PICK u \in DOMAIN values : Rank(values, u) = n
  BY <1>2, EveryRankIsTaken
<1>4. PICK v \in DOMAIN values : Rank(values, v) = n + 1
  BY <1>2, EveryRankIsTaken
<1>5. values[u] # values[v]
  BY <1>3, <1>4 DEF Tied
<1>6. values[s] >= values[u] /\ values[u] >= values[v] /\ values[v] >= values[t]
  <2>1. Rank(values, s) <= Rank(values, u) /\ Rank(values, u) <= Rank(values, v)
        /\ Rank(values, v) <= Rank(values, t)
    BY <1>1, <1>3, <1>4
  <2>2. QED
    BY <2>1, RankFollowsValue
<1>7. /\ values[s] \in Int /\ values[t] \in Int /\ values[u] \in Int /\ values[v] \in Int
  BY DEF Ranking
<1>8. QED
  BY <1>5, <1>6, <1>7

(* Without one of the ranked, nobody else rises by more than a rank.       *)
LEMMA LossMovesOneRank ==
  ASSUME NEW values, Ranking(values), NEW lost \in DOMAIN values,
         NEW rest, Ranking(rest), DOMAIN rest = DOMAIN values \ {lost},
         \A t \in DOMAIN rest : rest[t] = values[t],
         NEW s \in DOMAIN rest
  PROVE  Rank(values, s) <= Rank(rest, s) + 1
<1>1. Earlier(values, s) \subseteq Earlier(rest, s) \cup {lost}
  BY DEF Earlier, Before
<1>2. /\ IsFiniteSet(Earlier(rest, s) \cup {lost})
      /\ Cardinality(Earlier(rest, s) \cup {lost}) \in Nat
      /\ Cardinality(Earlier(rest, s) \cup {lost}) <= Cardinality(Earlier(rest, s)) + 1
  BY EarlierIsFinite, FS_AddElement
<1>3. Cardinality(Earlier(values, s)) <= Cardinality(Earlier(rest, s) \cup {lost})
  BY <1>1, <1>2, FS_Subset
<1>4. QED
  BY <1>2, <1>3, RankCounts, EarlierIsFinite

(* Whoever is worth more than before ranks no lower.                       *)
LEMMA MoreValueRanksNoLower ==
  ASSUME NEW values, Ranking(values), NEW raised, Ranking(raised),
         DOMAIN raised = DOMAIN values, NEW s \in DOMAIN values, raised[s] >= values[s],
         \A t \in DOMAIN values \ {s} : raised[t] = values[t]
  PROVE  Rank(raised, s) <= Rank(values, s)
<1>1. Earlier(raised, s) \subseteq Earlier(values, s)
  BY DEF Earlier, Before, Ranking
<1>2. Cardinality(Earlier(raised, s)) <= Cardinality(Earlier(values, s))
  BY <1>1, EarlierIsFinite, FS_Subset
<1>3. QED
  BY <1>2, RankCounts, EarlierIsFinite

-----------------------------------------------------------------------------
(* What a build ranks, the file over all that are eligible and the         *)
(* turnover over those whose data is complete, and whose slots stay open.  *)
File == FileValues(Drafts)
Turnover == Turnovers(Drafts, evidence)
Open == Presumed(Drafts, File, Turnover)

(* The universe is always the one the evidence at hand gives.              *)
BuiltFromEvidence ==
  /\ candidates \in Files
  /\ evidence \in [DOMAIN evidence -> Evidence]
  /\ universe # <<>> => universe = build_universe(evidence)

LEMMA BuiltInitially == Init => BuiltFromEvidence
BY DEF Init, BuiltFromEvidence

LEMMA DraftsAreKept ==
  ASSUME UNCHANGED <<candidates, changes, listed>>
  PROVE  Drafts' = Drafts
BY DEF Drafts, FirstPass, Contested, SameInstrument, Mapping, Instrument, Matches, Renamed,
       MatchesOf, Ordinary

LEMMA BuildIsKept ==
  ASSUME UNCHANGED <<candidates, changes, listed>>, NEW found
  PROVE  build_universe(found)' = build_universe(found)
<1>1. Drafts' = Drafts
  BY DraftsAreKept
<1>2. candidates' = candidates
  OBVIOUS
<1>3. /\ FileValues(Drafts)' = FileValues(Drafts)
      /\ Turnovers(Drafts, found)' = Turnovers(Drafts, found)
      /\ Refused(Drafts, found)' = Refused(Drafts, found)
  BY <1>1, <1>2 DEF FileValues, Turnovers, Refused, Rankable, Complete
<1>4. QED
  BY <1>1, <1>3 DEF build_universe, Presumed, Outcome, Status, Tied, Rank, Before, Places, Raised

LEMMA BuiltKept ==
  ASSUME BuiltFromEvidence, [Next]_vars
  PROVE  BuiltFromEvidence'
<1>1. CASE Build
  <2>1. /\ UNCHANGED <<candidates, changes, listed, evidence>>
        /\ universe' = build_universe(evidence)
    BY <1>1 DEF Build
  <2>2. build_universe(evidence)' = build_universe(evidence)
    <3>1. \A found : build_universe(found)' = build_universe(found)
      BY <2>1, BuildIsKept
    <3>2. QED
      BY <2>1, <3>1
  <2>3. QED
    BY <2>1, <2>2 DEF BuiltFromEvidence
<1>2. ASSUME NEW s \in Symbols, NEW e \in Evidence, Reattempt(s, e)
      PROVE  BuiltFromEvidence'
  <2>1. /\ UNCHANGED <<candidates, changes, listed>>
        /\ evidence' = [t \in DOMAIN evidence \cup {s} |-> IF t = s THEN e ELSE evidence[t]]
        /\ universe' = build_universe(evidence')
    BY <1>2 DEF Reattempt
  <2>2. QED
    BY <2>1, BuildIsKept DEF BuiltFromEvidence
<1>3. CASE UNCHANGED vars
  <2>1. UNCHANGED <<candidates, changes, listed, evidence, universe>>
    BY <1>3 DEF vars
  <2>2. QED
    BY <2>1, BuildIsKept DEF BuiltFromEvidence
<1>4. QED
  BY <1>1, <1>2, <1>3 DEF Next

-----------------------------------------------------------------------------
(* Reading a valid universe: what each status in it means.                 *)
Slots == Places(Open)

LEMMA ValidIsNotRefused ==
  ASSUME BuiltFromEvidence, Valid
  PROVE  /\ ~Refused(Drafts, evidence)
         /\ ~Tied(File, UniverseSize) /\ ~Tied(Turnover, Slots)
         /\ Outcome(Drafts, Turnover, Open) = "VALID"
         /\ universe[2] = [s \in Securities |-> Status(Drafts, Turnover, Open, "VALID", s)]
<1>1. universe = build_universe(evidence) /\ universe[1] = "VALID"
  BY DEF BuiltFromEvidence, Valid
<1>2. universe # Raised
  BY <1>1 DEF Raised
<1>3. /\ ~Refused(Drafts, evidence) /\ ~Tied(File, UniverseSize)
      /\ ~(Outcome(Drafts, Turnover, Open) = "VALID" /\ Tied(Turnover, Slots))
      /\ universe = <<Outcome(Drafts, Turnover, Open),
                      [s \in Securities |->
                         Status(Drafts, Turnover, Open, Outcome(Drafts, Turnover, Open), s)]>>
  BY <1>1, <1>2 DEF build_universe, File, Turnover, Open, Slots
<1>4. Outcome(Drafts, Turnover, Open) = "VALID"
  BY <1>1, <1>3
<1>5. QED
  BY <1>3, <1>4

LEMMA ValidOutcome ==
  ASSUME Outcome(Drafts, Turnover, Open) = "VALID"
  PROVE  /\ \A s \in Securities : Drafts[s] # "INVALID"
         /\ ~(Cardinality(Open) > MaxUnresolvedSlots)
         /\ ~(Cardinality(DOMAIN Turnover) < Slots)
BY DEF Outcome, Slots

LEMMA RankedFile ==
  ASSUME BuiltFromEvidence
  PROVE  /\ Ranking(File) /\ DOMAIN File = {s \in Securities : Drafts[s] # "INELIGIBLE"}
         /\ \A s \in DOMAIN File : File[s] = candidates[s].value
<1>1. /\ DOMAIN File = {s \in Securities : Drafts[s] # "INELIGIBLE"}
      /\ \A s \in DOMAIN File : File[s] = candidates[s].value
      /\ File = [s \in DOMAIN File |-> File[s]]
  BY DEF File, FileValues
<1>2. IsFiniteSet(DOMAIN File)
  BY <1>1, UniverseAssumption, FS_Subset
<1>3. \A s \in Securities : candidates[s].value \in Int
  BY UniverseAssumption DEF BuiltFromEvidence, CandidateRow
<1>4. DOMAIN File \subseteq Nat
  BY <1>1, UniverseAssumption DEF Symbols
<1>5. File \in [DOMAIN File -> Int]
  BY <1>1, <1>3
<1>6. QED
  BY <1>1, <1>2, <1>4, <1>5 DEF Ranking

LEMMA RankedTurnover ==
  ASSUME BuiltFromEvidence, ~Refused(Drafts, evidence)
  PROVE  /\ Ranking(Turnover)
         /\ DOMAIN evidence = Rankable(Drafts)
         /\ DOMAIN Turnover = {s \in DOMAIN evidence : Complete(evidence, s)}
         /\ DOMAIN Turnover \subseteq Securities
         /\ \A s \in DOMAIN Turnover : Turnover[s] = evidence[s].median /\ Drafts[s] = "MAPPED"
<1>1. /\ DOMAIN evidence = Rankable(Drafts)
      /\ \A s \in DOMAIN evidence : ~((evidence[s].median = None) = Complete(evidence, s))
  BY DEF Refused
<1>2. /\ DOMAIN Turnover = {s \in DOMAIN evidence : Complete(evidence, s)}
      /\ \A s \in DOMAIN Turnover : Turnover[s] = evidence[s].median
      /\ Turnover = [s \in DOMAIN Turnover |-> Turnover[s]]
  BY <1>1 DEF Turnover, Turnovers
<1>3. /\ DOMAIN Turnover \subseteq Securities
      /\ \A s \in DOMAIN Turnover : Drafts[s] = "MAPPED"
  BY <1>1, <1>2 DEF Rankable
<1>4. IsFiniteSet(DOMAIN Turnover) /\ DOMAIN Turnover \subseteq Nat
  BY <1>3, UniverseAssumption, FS_Subset DEF Symbols
<1>5. \A s \in DOMAIN Turnover : Turnover[s] \in Int
  <2>1. TAKE s \in DOMAIN Turnover
  <2>2. evidence[s] \in Evidence
    BY <1>2 DEF BuiltFromEvidence
  <2>3. evidence[s].median \in Medians \cup {None} /\ evidence[s].median # None
    BY <1>1, <1>2, <2>2 DEF Evidence, Complete
  <2>4. QED
    BY <1>2, <2>3, UniverseAssumption
<1>6. Turnover \in [DOMAIN Turnover -> Int]
  BY <1>2, <1>5
<1>7. QED
  BY <1>1, <1>2, <1>3, <1>4, <1>6 DEF Ranking

LEMMA OpenSlots ==
  ASSUME BuiltFromEvidence
  PROVE  /\ Open \subseteq Top(File, UniverseSize) /\ Open \cap DOMAIN Turnover = {}
         /\ IsFiniteSet(Open) /\ Cardinality(Open) \in Nat /\ Slots \in Nat
         /\ Slots = UniverseSize - Cardinality(Open)
<1>1. Open \subseteq Top(File, UniverseSize) /\ Open \cap DOMAIN Turnover = {}
  BY DEF Open, Presumed, Top
<1>2. /\ IsFiniteSet(Top(File, UniverseSize)) /\ Cardinality(Top(File, UniverseSize)) \in Nat
      /\ Cardinality(Top(File, UniverseSize)) <= UniverseSize /\ UniverseSize \in Nat
  BY RankedFile, TopIsFinite, TopIsAtMost, UniverseAssumption
<1>3. /\ IsFiniteSet(Open) /\ Cardinality(Open) \in Nat
      /\ Cardinality(Open) <= Cardinality(Top(File, UniverseSize))
  BY <1>1, <1>2, FS_Subset, FS_CardinalityType
<1>4. QED
  BY <1>1, <1>2, <1>3 DEF Slots, Places

(* In a valid universe: who is selected, left out, unresolved, ineligible. *)
LEMMA StatusesMean ==
  ASSUME BuiltFromEvidence, Valid
  PROVE  /\ With("SELECTED") = {s \in DOMAIN Turnover : Rank(Turnover, s) <= Slots}
         /\ With("NOT_SELECTED") = {s \in DOMAIN Turnover : ~(Rank(Turnover, s) <= Slots)}
         /\ With("UNRESOLVED") = Open
         /\ \A s \in Securities : universe[2][s] # "INELIGIBLE" <=> s \in DOMAIN File
<1>1. /\ ~Refused(Drafts, evidence)
      /\ Outcome(Drafts, Turnover, Open) = "VALID"
      /\ universe[2] = [s \in Securities |-> Status(Drafts, Turnover, Open, "VALID", s)]
  BY ValidIsNotRefused
<1>2. \A s \in Securities : Drafts[s] # "INVALID"
  BY <1>1, ValidOutcome
<1>3. /\ DOMAIN Turnover \subseteq Securities
      /\ \A s \in DOMAIN Turnover : Drafts[s] = "MAPPED"
  BY <1>1, RankedTurnover
<1>4. /\ Open \subseteq DOMAIN File /\ Open \cap DOMAIN Turnover = {}
      /\ DOMAIN File = {s \in Securities : Drafts[s] # "INELIGIBLE"}
  BY OpenSlots, RankedFile DEF Top
<1>5. \A s \in Securities :
        universe[2][s] =
          IF Drafts[s] \in {"INELIGIBLE", "INVALID"} THEN Drafts[s]
          ELSE IF s \in Open                        THEN "UNRESOLVED"
          ELSE IF Drafts[s] = "UNMAPPED"            THEN "UNMAPPED"
          ELSE IF s \notin DOMAIN Turnover          THEN "INSUFFICIENT_DATA"
          ELSE IF Rank(Turnover, s) <= Slots        THEN "SELECTED"
          ELSE                                           "NOT_SELECTED"
  BY <1>1 DEF Status, Slots
<1>6. ASSUME NEW s \in Securities
      PROVE  /\ universe[2][s] = "SELECTED"
                  <=> s \in DOMAIN Turnover /\ Rank(Turnover, s) <= Slots
             /\ universe[2][s] = "NOT_SELECTED"
                  <=> s \in DOMAIN Turnover /\ ~(Rank(Turnover, s) <= Slots)
             /\ universe[2][s] = "UNRESOLVED" <=> s \in Open
             /\ universe[2][s] # "INELIGIBLE" <=> s \in DOMAIN File
  <2> DEFINE status == universe[2][s]
  <2>1. CASE Drafts[s] = "INELIGIBLE"
    <3>1. status = "INELIGIBLE"
      BY <1>5, <2>1
    <3>2. s \notin DOMAIN File /\ s \notin Open /\ s \notin DOMAIN Turnover
      BY <1>3, <1>4, <2>1
    <3> HIDE DEF status
    <3>3. QED
      BY <3>1, <3>2 DEF status
  <2>2. CASE Drafts[s] # "INELIGIBLE" /\ s \in Open
    <3>1. status = "UNRESOLVED"
      BY <1>2, <1>5, <2>2
    <3>2. s \in DOMAIN File /\ s \notin DOMAIN Turnover
      BY <1>4, <2>2
    <3> HIDE DEF status
    <3>3. QED
      BY <2>2, <3>1, <3>2 DEF status
  <2>3. CASE Drafts[s] # "INELIGIBLE" /\ s \notin Open /\ s \in DOMAIN Turnover
    BY <1>3, <1>4, <1>5, <2>3
  <2>4. CASE Drafts[s] # "INELIGIBLE" /\ s \notin Open /\ s \notin DOMAIN Turnover
    <3>1. status = "UNMAPPED" \/ status = "INSUFFICIENT_DATA"
      BY <1>2, <1>5, <2>4
    <3>2. s \in DOMAIN File
      BY <1>4, <2>4
    <3> HIDE DEF status
    <3>3. QED
      BY <2>4, <3>1, <3>2 DEF status
  <2>5. QED
    BY <2>1, <2>2, <2>3, <2>4
<1>7. QED
  BY <1>3, <1>4, <1>6 DEF With

-----------------------------------------------------------------------------
(* The members of the file.                                                *)
LEMMA OpenAreMembers ==
  ASSUME BuiltFromEvidence, Valid, NEW s \in Open
  PROVE  Member(s)
<1> DEFINE Best == Top(File, UniverseSize)
<1>1. /\ ~Tied(File, UniverseSize) /\ UniverseSize \in Nat
      /\ Ranking(File) /\ DOMAIN File = {t \in Securities : Drafts[t] # "INELIGIBLE"}
      /\ \A t \in DOMAIN File : File[t] = candidates[t].value
  BY ValidIsNotRefused, RankedFile, UniverseAssumption
<1>2. s \in Best /\ IsFiniteSet(Best) /\ Cardinality(Best) \in Nat
      /\ Cardinality(Best) <= UniverseSize
  BY <1>1, OpenSlots, TopIsFinite, TopIsAtMost
<1>3. ASSUME NEW t \in AtLeastAsHigh(s)
      PROVE  t \in Best \ {s}
  <2>1. /\ t \in Securities /\ t # s /\ t \in DOMAIN File /\ s \in DOMAIN File
        /\ File[t] >= File[s]
    <3>1. t \in Securities \ {s} /\ universe[2][t] # "INELIGIBLE"
          /\ candidates[t].value >= candidates[s].value
      BY DEF AtLeastAsHigh
    <3>2. t \in DOMAIN File /\ s \in DOMAIN File
      BY <1>2, <3>1, StatusesMean DEF Top
    <3>3. QED
      BY <1>1, <3>1, <3>2
  <2>2. ASSUME UniverseSize < Rank(File, t) PROVE FALSE
    <3>1. File[s] > File[t]
      BY <1>1, <1>2, <2>1, <2>2, CutoffSeparates DEF Top
    <3>2. File[s] \in Int /\ File[t] \in Int
      BY <1>1, <2>1 DEF Ranking
    <3>3. QED
      BY <2>1, <3>1, <3>2
  <2>3. Rank(File, t) \in Int
    BY <1>1, <2>1, RankType
  <2>4. QED
    BY <1>1, <2>1, <2>2, <2>3 DEF Top
<1>4. /\ IsFiniteSet(Best \ {s}) /\ Cardinality(Best \ {s}) = Cardinality(Best) - 1
  BY <1>2, FS_RemoveElement
<1>5. /\ Cardinality(AtLeastAsHigh(s)) \in Nat
      /\ Cardinality(AtLeastAsHigh(s)) <= Cardinality(Best \ {s})
  <2>1. AtLeastAsHigh(s) \subseteq Best \ {s}
    BY <1>3
  <2>2. QED
    BY <1>4, <2>1, FS_Subset, FS_CardinalityType
<1>6. QED
  BY <1>1, <1>2, <1>4, <1>5 DEF Member

LEMMA MembersRankWithin ==
  ASSUME BuiltFromEvidence, Valid, NEW s \in DOMAIN File, Member(s)
  PROVE  Rank(File, s) <= UniverseSize
<1>1. /\ Ranking(File) /\ DOMAIN File = {t \in Securities : Drafts[t] # "INELIGIBLE"}
      /\ \A t \in DOMAIN File : File[t] = candidates[t].value
  BY RankedFile
<1>2. Earlier(File, s) \subseteq AtLeastAsHigh(s)
  <2>1. SUFFICES ASSUME NEW t \in DOMAIN File, Before(File, t, s)
                 PROVE  t \in AtLeastAsHigh(s)
    BY DEF Earlier
  <2>2. t \in Securities /\ t # s /\ File[t] \in Int /\ File[s] \in Int /\ t \in Nat
    BY <1>1, <2>1 DEF Before, Ranking
  <2>3. File[t] >= File[s]
    BY <2>1, <2>2 DEF Before
  <2>4. universe[2][t] # "INELIGIBLE"
    BY <2>2, StatusesMean
  <2>5. QED
    BY <1>1, <2>2, <2>3, <2>4 DEF AtLeastAsHigh
<1>3. IsFiniteSet(AtLeastAsHigh(s)) /\ Cardinality(AtLeastAsHigh(s)) \in Nat
  <2>1. AtLeastAsHigh(s) \subseteq Securities
    BY DEF AtLeastAsHigh
  <2>2. QED
    BY <2>1, UniverseAssumption, FS_Subset, FS_CardinalityType
<1>4. Cardinality(Earlier(File, s)) <= Cardinality(AtLeastAsHigh(s))
  BY <1>2, <1>3, FS_Subset
<1>5. QED
  BY <1>1, <1>3, <1>4, RankCounts, EarlierIsFinite, UniverseAssumption DEF Member

LEMMA BestInAValidUniverse ==
  ASSUME BuiltFromEvidence, Valid
  PROVE  /\ Cardinality(With("SELECTED")) + Cardinality(With("UNRESOLVED")) = UniverseSize
         /\ Cardinality(With("UNRESOLVED")) <= MaxUnresolvedSlots
         /\ \A s \in With("SELECTED"), t \in With("NOT_SELECTED") :
              evidence[s].median > evidence[t].median
         /\ \A s \in With("UNRESOLVED") : Member(s)
<1>1. /\ ~Refused(Drafts, evidence) /\ ~Tied(Turnover, Slots)
      /\ Outcome(Drafts, Turnover, Open) = "VALID"
  BY ValidIsNotRefused
<1>2. /\ Ranking(Turnover)
      /\ \A s \in DOMAIN Turnover : Turnover[s] = evidence[s].median
  BY <1>1, RankedTurnover
<1>3. /\ With("SELECTED") = Top(Turnover, Slots) /\ With("UNRESOLVED") = Open
      /\ With("NOT_SELECTED") = {s \in DOMAIN Turnover : ~(Rank(Turnover, s) <= Slots)}
  BY StatusesMean DEF Top
<1>4. /\ Slots \in Nat /\ Cardinality(Open) \in Nat /\ Slots = UniverseSize - Cardinality(Open)
  BY OpenSlots
<1>5. /\ ~(Cardinality(Open) > MaxUnresolvedSlots)
      /\ ~(Cardinality(DOMAIN Turnover) < Slots) /\ Cardinality(DOMAIN Turnover) \in Nat
  BY <1>1, <1>2, ValidOutcome, FS_CardinalityType DEF Ranking
<1>6. Cardinality(Top(Turnover, Slots)) = Slots
  BY <1>2, <1>4, <1>5, TopIsFull
<1>7. ASSUME NEW s \in With("SELECTED"), NEW t \in With("NOT_SELECTED")
      PROVE  evidence[s].median > evidence[t].median
  <2>1. /\ s \in DOMAIN Turnover /\ t \in DOMAIN Turnover
        /\ Rank(Turnover, s) <= Slots /\ ~(Rank(Turnover, t) <= Slots)
    BY <1>3 DEF Top
  <2>2. Slots < Rank(Turnover, t)
    BY <1>2, <1>4, <2>1, RankType
  <2>3. Turnover[s] > Turnover[t]
    BY <1>1, <1>2, <1>4, <2>1, <2>2, CutoffSeparates
  <2>4. QED
    BY <1>2, <2>1, <2>3
<1>8. \A s \in With("UNRESOLVED") : Member(s)
  BY <1>3, OpenAreMembers
<1>9. QED
  BY <1>3, <1>4, <1>5, <1>6, <1>7, <1>8, UniverseAssumption

LEMMA AlwaysBuilt == Spec => []BuiltFromEvidence
<1>1. Init => BuiltFromEvidence
  BY BuiltInitially
<1>2. BuiltFromEvidence /\ [Next]_vars => BuiltFromEvidence'
  BY BuiltKept
<1>3. QED
  BY <1>1, <1>2, PTL DEF Spec

(* In a valid universe every slot is filled or open for a presumed member, *)
(* no more are open than may be, and a selected security trades strictly   *)
(* more than any obtainable one left out, however many securities, slots   *)
(* and ties there are: build_universe raises rather than let the alphabet  *)
(* decide.                                                                 *)
THEOREM TheBestAreChosen == Spec => []BestAreChosen
<1>1. BuiltFromEvidence => BestAreChosen
  BY BestInAValidUniverse DEF BestAreChosen
<1>2. QED
  BY <1>1, AlwaysBuilt, PTL

-----------------------------------------------------------------------------
(* How two universes built one after the other differ.  Reading says of    *)
(* one of them what the lemmas above do, so that it can be said of both.   *)
ReadsTurnover ==
  /\ Ranking(Turnover) /\ DOMAIN evidence = Rankable(Drafts)
  /\ DOMAIN Turnover = {s \in DOMAIN evidence : Complete(evidence, s)}
  /\ DOMAIN Turnover \subseteq DOMAIN File
  /\ \A s \in DOMAIN Turnover : Turnover[s] = evidence[s].median /\ Drafts[s] # "INVALID"

ReadsStatuses ==
  /\ With("SELECTED") = Top(Turnover, Slots) /\ With("UNRESOLVED") = Open
  /\ WithData = DOMAIN Turnover

ReadsSlots ==
  /\ IsFiniteSet(Open) /\ Cardinality(Open) \in Nat /\ Slots \in Nat
  /\ Slots = UniverseSize - Cardinality(Open)
  /\ \A s \in DOMAIN File : Member(s) => Rank(File, s) <= UniverseSize

Reading == Valid => ReadsTurnover /\ ReadsStatuses /\ ReadsSlots

LEMMA ReadingHolds ==
  ASSUME BuiltFromEvidence, Valid
  PROVE  ReadsTurnover /\ ReadsStatuses /\ ReadsSlots
<1>1. ~Refused(Drafts, evidence)
  BY ValidIsNotRefused
<1>2. ReadsTurnover
  <2>1. /\ Ranking(Turnover) /\ DOMAIN evidence = Rankable(Drafts)
        /\ DOMAIN Turnover = {s \in DOMAIN evidence : Complete(evidence, s)}
        /\ DOMAIN Turnover \subseteq Securities
        /\ \A s \in DOMAIN Turnover : Turnover[s] = evidence[s].median /\ Drafts[s] = "MAPPED"
    BY <1>1, RankedTurnover
  <2>2. DOMAIN File = {s \in Securities : Drafts[s] # "INELIGIBLE"}
    BY RankedFile
  <2>3. QED
    BY <2>1, <2>2 DEF ReadsTurnover
<1>3. ReadsStatuses
  <2>1. /\ With("SELECTED") = {s \in DOMAIN Turnover : Rank(Turnover, s) <= Slots}
        /\ With("NOT_SELECTED") = {s \in DOMAIN Turnover : ~(Rank(Turnover, s) <= Slots)}
        /\ With("UNRESOLVED") = Open
    BY StatusesMean
  <2>2. QED
    BY <2>1 DEF ReadsStatuses, WithData, Top
<1>4. ReadsSlots
  BY OpenSlots, MembersRankWithin DEF ReadsSlots
<1>5. QED
  BY <1>2, <1>3, <1>4

LEMMA AlwaysReading == Spec => []Reading
<1>1. BuiltFromEvidence => Reading
  BY ReadingHolds DEF Reading
<1>2. QED
  BY <1>1, AlwaysBuilt, PTL

(* What a further attempt leaves as it was.                                *)
LEMMA AttemptChangesOne ==
  ASSUME ReadsTurnover, ReadsTurnover', NEW s \in Symbols, NEW e \in Evidence, Reattempt(s, e)
  PROVE  /\ Drafts' = Drafts /\ File' = File /\ candidates' = candidates
         /\ DOMAIN evidence' = DOMAIN evidence
         /\ \A t \in DOMAIN evidence \ {s} : evidence'[t] = evidence[t]
         /\ \A t \in DOMAIN evidence \ {s} : t \in DOMAIN Turnover' <=> t \in DOMAIN Turnover
<1>1. /\ UNCHANGED <<candidates, changes, listed>>
      /\ evidence' = [t \in DOMAIN evidence \cup {s} |-> IF t = s THEN e ELSE evidence[t]]
  BY DEF Reattempt
<1>2. Drafts' = Drafts /\ candidates' = candidates
  BY <1>1, DraftsAreKept
<1>3. File' = File
  BY <1>2 DEF File, FileValues
<1>4. DOMAIN evidence' = DOMAIN evidence
  BY <1>2 DEF ReadsTurnover, Rankable
<1>5. \A t \in DOMAIN evidence \ {s} : evidence'[t] = evidence[t]
  BY <1>1
<1>6. /\ DOMAIN Turnover = {t \in DOMAIN evidence : evidence[t].bars = candidates[t].sessions}
      /\ DOMAIN Turnover' = {t \in DOMAIN evidence' : evidence'[t].bars = candidates'[t].sessions}
  BY DEF ReadsTurnover, Complete
<1>7. QED
  BY <1>2, <1>3, <1>4, <1>5, <1>6

LEMMA OpenIs ==
  /\ Open = {s \in DOMAIN File \ DOMAIN Turnover :
               Drafts[s] # "INVALID" /\ Rank(File, s) <= UniverseSize}
  /\ Open' = {s \in DOMAIN File' \ DOMAIN Turnover' :
                Drafts'[s] # "INVALID" /\ Rank(File', s) <= UniverseSize}
BY DEF Open, Presumed, Rank, Before

LEMMA LossReplacesNobody ==
  ASSUME ReadsTurnover, ReadsTurnover', ReadsStatuses, ReadsStatuses', ReadsSlots, ReadsSlots',
         NEW s \in Symbols, NEW e \in Evidence, Reattempt(s, e),
         NEW lost \in WithData \ WithData', Member(lost)
  PROVE  With("SELECTED")' \subseteq With("SELECTED")
<1>1. WithData = DOMAIN Turnover /\ WithData' = DOMAIN Turnover'
  BY DEF ReadsStatuses
<1>2. /\ Drafts' = Drafts /\ File' = File
      /\ DOMAIN evidence' = DOMAIN evidence
      /\ \A t \in DOMAIN evidence \ {s} : evidence'[t] = evidence[t]
      /\ \A t \in DOMAIN evidence \ {s} : t \in DOMAIN Turnover' <=> t \in DOMAIN Turnover
  BY AttemptChangesOne
<1>3. /\ DOMAIN Turnover \subseteq DOMAIN evidence
      /\ DOMAIN Turnover' \subseteq DOMAIN evidence'
  BY DEF ReadsTurnover
<1>4. lost = s /\ DOMAIN Turnover' = DOMAIN Turnover \ {lost}
  BY <1>1, <1>2, <1>3
<1>5. /\ lost \in DOMAIN File \ DOMAIN Turnover' /\ lost \notin Open
      /\ Drafts[lost] # "INVALID" /\ Rank(File, lost) <= UniverseSize
  <2>1. lost \in DOMAIN Turnover /\ lost \in DOMAIN File /\ Drafts[lost] # "INVALID"
    BY <1>1 DEF ReadsTurnover
  <2>2. Rank(File, lost) <= UniverseSize
    BY <2>1 DEF ReadsSlots
  <2>3. QED
    BY <1>4, <2>1, <2>2, OpenIs
<1>6. Open' = Open \cup {lost}
  BY <1>2, <1>4, <1>5, OpenIs
<1>7. Slots' = Slots - 1 /\ Slots \in Nat
  <2>1. Cardinality(Open \cup {lost}) = Cardinality(Open) + 1
    BY <1>5, FS_AddElement DEF ReadsSlots
  <2>2. /\ Slots' = UniverseSize - Cardinality(Open') /\ Slots = UniverseSize - Cardinality(Open)
        /\ Cardinality(Open) \in Nat /\ Slots \in Nat
    BY DEF ReadsSlots
  <2>3. QED
    BY <1>6, <2>1, <2>2, UniverseAssumption
<1>8. /\ With("SELECTED") = {t \in DOMAIN Turnover : Rank(Turnover, t) <= Slots}
      /\ With("SELECTED")' = {t \in DOMAIN Turnover' : Rank(Turnover', t) <= Slots'}
  BY DEF ReadsStatuses, Top, Rank, Before
<1>9. ASSUME NEW t \in With("SELECTED")'
      PROVE  t \in With("SELECTED")
  <2>1. t \in DOMAIN Turnover' /\ t \in DOMAIN Turnover /\ Rank(Turnover', t) <= Slots'
    BY <1>4, <1>8
  <2>2. Ranking(Turnover) /\ Ranking(Turnover')
    BY DEF ReadsTurnover, Ranking
  <2>3. \A u \in DOMAIN Turnover' : Turnover'[u] = Turnover[u]
    <3>1. TAKE u \in DOMAIN Turnover'
    <3>2. u \in DOMAIN evidence \ {s} /\ u \in DOMAIN Turnover
      BY <1>2, <1>3, <1>4
    <3>3. Turnover'[u] = evidence'[u].median /\ Turnover[u] = evidence[u].median
      BY <3>2 DEF ReadsTurnover
    <3>4. QED
      BY <1>2, <3>2, <3>3
  <2>4. Rank(Turnover, t) <= Rank(Turnover', t) + 1
    BY <1>1, <1>4, <2>1, <2>2, <2>3, LossMovesOneRank
  <2>5. Rank(Turnover, t) \in Int /\ Rank(Turnover', t) \in Int
    BY <2>1, <2>2, RankType
  <2>6. QED
    BY <1>7, <1>8, <2>1, <2>4, <2>5
<1>10. QED
  BY <1>9

LEMMA SameDataSameOpen ==
  ASSUME ReadsTurnover, ReadsTurnover', ReadsStatuses, ReadsStatuses', ReadsSlots, ReadsSlots',
         NEW s \in Symbols, NEW e \in Evidence, Reattempt(s, e), WithData = WithData'
  PROVE  /\ With("UNRESOLVED")' = With("UNRESOLVED")
         /\ \A better \in With("SELECTED") :
              (/\ evidence'[better].median >= evidence[better].median
               /\ \A t \in WithData \ {better} : evidence'[t] = evidence[t])
              => better \in With("SELECTED")'
<1>1. WithData = DOMAIN Turnover /\ WithData' = DOMAIN Turnover'
  BY DEF ReadsStatuses
<1>2. /\ Drafts' = Drafts /\ File' = File /\ DOMAIN Turnover' = DOMAIN Turnover
  BY <1>1, AttemptChangesOne
<1>3. Open' = Open
  BY <1>2, OpenIs
<1>4. With("UNRESOLVED")' = With("UNRESOLVED")
  BY <1>3 DEF ReadsStatuses
<1>5. Slots' = Slots /\ Slots \in Nat
  BY <1>3 DEF ReadsSlots
<1>6. /\ With("SELECTED") = {t \in DOMAIN Turnover : Rank(Turnover, t) <= Slots}
      /\ With("SELECTED")' = {t \in DOMAIN Turnover' : Rank(Turnover', t) <= Slots'}
  BY DEF ReadsStatuses, Top, Rank, Before
<1>7. ASSUME NEW better \in With("SELECTED"),
             evidence'[better].median >= evidence[better].median,
             \A t \in WithData \ {better} : evidence'[t] = evidence[t]
      PROVE  better \in With("SELECTED")'
  <2>1. better \in DOMAIN Turnover /\ Rank(Turnover, better) <= Slots
    BY <1>6
  <2>2. Ranking(Turnover) /\ Ranking(Turnover')
    BY DEF ReadsTurnover, Ranking
  <2>3. \A t \in DOMAIN Turnover :
          Turnover'[t] = evidence'[t].median /\ Turnover[t] = evidence[t].median
    BY <1>2 DEF ReadsTurnover
  <2>4. /\ Turnover'[better] >= Turnover[better]
        /\ \A t \in DOMAIN Turnover \ {better} : Turnover'[t] = Turnover[t]
    BY <1>1, <1>7, <2>1, <2>3
  <2>5. Rank(Turnover', better) <= Rank(Turnover, better)
    BY <1>2, <2>1, <2>2, <2>4, MoreValueRanksNoLower
  <2>6. Rank(Turnover, better) \in Int /\ Rank(Turnover', better) \in Int
    BY <1>2, <2>1, <2>2, RankType
  <2>7. QED
    BY <1>2, <1>5, <1>6, <2>1, <2>5, <2>6
<1>8. QED
  BY <1>4, <1>7

(* Two valid universes in a row differ by one further attempt.             *)
LEMMA ValidTwiceIsAnAttempt ==
  ASSUME [Next]_vars, ~UNCHANGED vars, Valid
  PROVE  \E s \in Symbols, e \in Evidence : Reattempt(s, e)
BY DEF Next, Build, Valid

(* When a later attempt loses the data of a presumed member, nobody is     *)
(* selected who was not selected before: the slot is left open, whatever   *)
(* the file, the turnover and the number of slots.                         *)
THEOREM NobodyIsReplaced == Spec => NeverReplaced
<1> DEFINE Step == (Valid /\ Valid' /\ \E s \in WithData \ WithData' : Member(s))
                     => With("SELECTED")' \subseteq With("SELECTED")
<1>1. Reading /\ Reading' /\ [Next]_vars => [Step]_vars
  <2>1. SUFFICES ASSUME Reading, Reading', [Next]_vars, ~UNCHANGED vars, Valid, Valid',
                        NEW lost \in WithData \ WithData', Member(lost)
                 PROVE  With("SELECTED")' \subseteq With("SELECTED")
    OBVIOUS
  <2>2. PICK s \in Symbols, e \in Evidence : Reattempt(s, e)
    BY <2>1, ValidTwiceIsAnAttempt
  <2>3. /\ ReadsTurnover /\ ReadsStatuses /\ ReadsSlots
        /\ ReadsTurnover' /\ ReadsStatuses' /\ ReadsSlots'
    BY <2>1 DEF Reading
  <2>4. QED
    BY <2>1, <2>2, <2>3, LossReplacesNobody
<1>2. Spec => [][Step]_vars
  BY <1>1, AlwaysReading, PTL DEF Spec
<1>3. QED
  BY <1>2 DEF NeverReplaced

(* More turnover never costs a security its slot, and who has data, not    *)
(* how much was traded, decides which slots are left open.                 *)
THEOREM TurnoverNeverHurts == Spec => MoreTurnoverNeverHurts
<1> DEFINE Step ==
      (Valid /\ Valid' /\ WithData = WithData')
      => /\ With("UNRESOLVED")' = With("UNRESOLVED")
         /\ \A s \in With("SELECTED") :
              (/\ evidence'[s].median >= evidence[s].median
               /\ \A t \in WithData \ {s} : evidence'[t] = evidence[t])
              => s \in With("SELECTED")'
<1>1. Reading /\ Reading' /\ [Next]_vars => [Step]_vars
  <2>1. SUFFICES ASSUME Reading, Reading', [Next]_vars, ~UNCHANGED vars, Valid, Valid',
                        WithData = WithData'
                 PROVE  Step
    OBVIOUS
  <2>2. PICK s \in Symbols, e \in Evidence : Reattempt(s, e)
    BY <2>1, ValidTwiceIsAnAttempt
  <2>3. /\ ReadsTurnover /\ ReadsStatuses /\ ReadsSlots
        /\ ReadsTurnover' /\ ReadsStatuses' /\ ReadsSlots'
    BY <2>1 DEF Reading
  <2>4. QED
    BY <2>1, <2>2, <2>3, SameDataSameOpen
<1>2. Spec => [][Step]_vars
  BY <1>1, AlwaysReading, PTL DEF Spec
<1>3. QED
  BY <1>2 DEF MoreTurnoverNeverHurts
=============================================================================
