----------------------------- MODULE GvsUniverse -----------------------------
(***************************************************************************)
(* The historical universe of the GVS study (domain/backtest/universe.py): *)
(* build_universe fills a fixed number of slots from a verified shortlist, *)
(* the instrument master and the evidence of one ingestion attempt per     *)
(* security.  It is a pure function, called again whenever the evidence    *)
(* changes; what matters is how two of its results differ.                 *)
(*                                                                         *)
(* Symbols are numbers in the order in which Python sorts them.  The       *)
(* instruments are those listed on the NSE, the others being skipped.      *)
(***************************************************************************)
EXTENDS Integers, FiniteSets

CONSTANTS
  Securities,         (* the shortlisted symbols                            *)
  NewSymbols,         (* symbols that are only names to change to           *)
  Masters,            (* instrument masters: sets of [id, symbol, conforms] *)
  Files,              (* shortlists that may be supplied                    *)
  Changes,            (* symbol-change files that may be supplied           *)
  Medians,            (* turnover medians                                   *)
  UniverseSize,       (* 50 in the code                                     *)
  MaxUnresolvedSlots, (* 5 in the code                                      *)
  SelectionSessions,  (* 60 in the code                                     *)
  None

Symbols == Securities \cup NewSymbols
CandidateRow == [value : Int, sessions : Int, class : STRING]
Evidence == [bars : 0 .. SelectionSessions, median : Medians \cup {None}]

ASSUME UniverseAssumption ==
  /\ IsFiniteSet(Securities) /\ Files \subseteq [Securities -> CandidateRow]
  /\ Symbols \subseteq Nat /\ Medians \subseteq Nat /\ None \notin Medians
  /\ \A m \in Masters : \A i \in m : i.symbol \in Symbols /\ i.conforms \in BOOLEAN
  /\ UniverseSize \in Nat \ {0} /\ MaxUnresolvedSlots \in Nat
  /\ SelectionSessions \in Nat \ {0}

VARIABLES
  candidates,  (* the shortlist: symbol -> [value, sessions, class]         *)
  changes,     (* old symbol -> new symbol                                  *)
  listed,      (* the instrument master                                     *)
  evidence,    (* minute_evidence: symbol -> what its ingestion found       *)
  universe     (* what build_universe returned or raised, or <<>>           *)

vars == <<candidates, changes, listed, evidence, universe>>

-----------------------------------------------------------------------------
(* parse_file_set: sessions in range, no change to oneself and no chain of *)
(* changes.  (Symbols cannot repeat in a function; hashes and the syntax   *)
(* of fields are left out.)                                                *)
Verified(rows, renamed) ==
  /\ DOMAIN rows # {}
  /\ \A s \in DOMAIN rows : rows[s].sessions \in 1 .. SelectionSessions
  /\ \A s \in DOMAIN renamed : renamed[s] # s /\ renamed[s] \notin DOMAIN renamed

(* _map: an exact match, or a documented change; never inferred.           *)
MatchesOf(symbol) == {i \in listed : i.symbol = symbol}
Renamed(s) == s \in DOMAIN changes
Matches(s) == IF Renamed(s) THEN MatchesOf(changes[s]) ELSE MatchesOf(s)

Mapping(s) ==
  IF \/ Renamed(s) /\ MatchesOf(s) # {}
     \/ Cardinality(Matches(s)) > 1     THEN "AMBIGUOUS"
  ELSE IF Matches(s) = {}               THEN "UNMAPPED"
  ELSE IF Renamed(s)                    THEN "SYMBOL_CHANGE"
  ELSE                                       "EXACT"

Instrument(s) == CHOOSE i \in Matches(s) : TRUE

(* The first pass over the shortlist.  "ordinary" is the only eligible     *)
(* class of the authoritative classification, which may be missing or      *)
(* carry another ISIN.                                                     *)
Ordinary(s) == candidates[s].class = "ordinary"
FirstPass ==
  [s \in Securities |->
    IF ~Ordinary(s)                     THEN "INELIGIBLE"
    ELSE IF Mapping(s) = "AMBIGUOUS"    THEN "INVALID"
    ELSE IF Mapping(s) = "UNMAPPED"     THEN "UNMAPPED"
    ELSE IF ~Instrument(s).conforms     THEN "INELIGIBLE"
    ELSE                                     "MAPPED"]

(* Two eligible securities that resolve to one instrument are both         *)
(* ambiguous.                                                              *)
SameInstrument(s, t) == Instrument(s).symbol = Instrument(t).symbol
Contested(first, s) ==
  \E t \in Securities \ {s} : first[t] = "MAPPED" /\ SameInstrument(s, t)

Drafts ==
  LET first == FirstPass
  IN  [s \in Securities |->
        IF first[s] = "MAPPED" /\ Contested(first, s) THEN "INVALID" ELSE first[s]]

(* Evidence for anything else than a mapped security would be substituted  *)
(* data, and a missing entry a silent omission.                            *)
Rankable(drafts) == {s \in Securities : drafts[s] = "MAPPED"}
Complete(found, s) == found[s].bars = candidates[s].sessions

Refused(drafts, found) ==
  \/ DOMAIN found # Rankable(drafts)
  \/ \E s \in DOMAIN found :
       \/ found[s].bars > candidates[s].sessions
       \/ (found[s].median = None) = Complete(found, s)

-----------------------------------------------------------------------------
(* _ranked: by descending value, then by symbol; a tie across the cutoff   *)
(* is an error.                                                            *)
BUG_Before(values, s, t) == values[s] < values[t] \/ (values[s] = values[t] /\ s < t)
Before(values, s, t) == values[s] > values[t] \/ (values[s] = values[t] /\ s < t)

Rank(values, s) == 1 + Cardinality({t \in DOMAIN values : Before(values, t, s)})

BUG_Tied(values, cutoff) == FALSE
Tied(values, cutoff) ==
  \E s, t \in DOMAIN values :
    Rank(values, s) = cutoff /\ Rank(values, t) = cutoff + 1 /\ values[s] = values[t]

FileValues(drafts) ==
  [s \in {t \in Securities : drafts[t] # "INELIGIBLE"} |-> candidates[s].value]
Turnovers(drafts, found) ==
  [s \in {t \in Rankable(drafts) : Complete(found, t)} |-> found[s].median]

(* Presumed members whose data cannot be obtained hold a slot each.        *)
Presumed(drafts, file, turnover) ==
  {s \in DOMAIN file \ DOMAIN turnover :
     drafts[s] # "INVALID" /\ Rank(file, s) <= UniverseSize}

BUG_Places(presumed) == UniverseSize
Places(presumed) == UniverseSize - Cardinality(presumed)

Outcome(drafts, turnover, presumed) ==
  IF \E s \in Securities : drafts[s] = "INVALID"      THEN "AMBIGUOUS_MAPPING"
  ELSE IF Cardinality(presumed) > MaxUnresolvedSlots  THEN "UNIVERSE_UNOBTAINABLE"
  ELSE IF Cardinality(DOMAIN turnover) < Places(presumed) THEN "SHORTLIST_EXHAUSTED"
  ELSE                                                     "VALID"

Status(drafts, turnover, presumed, outcome, s) ==
  IF drafts[s] \in {"INELIGIBLE", "INVALID"} THEN drafts[s]
  ELSE IF s \in presumed                    THEN "UNRESOLVED"
  ELSE IF drafts[s] = "UNMAPPED"            THEN "UNMAPPED"
  ELSE IF s \notin DOMAIN turnover          THEN "INSUFFICIENT_DATA"
  ELSE IF outcome = "VALID" /\ Rank(turnover, s) <= Places(presumed) THEN "SELECTED"
  ELSE                                           "NOT_SELECTED"

(* build_universe: it raises, or returns every security with its status.   *)
Raised == <<"UniverseValidationError">>
build_universe(found) ==
  LET drafts   == Drafts
      file     == FileValues(drafts)
      turnover == Turnovers(drafts, found)
      presumed == Presumed(drafts, file, turnover)
      outcome  == Outcome(drafts, turnover, presumed)
  IN  IF \/ Refused(drafts, found)
         \/ Tied(file, UniverseSize)
         \/ outcome = "VALID" /\ Tied(turnover, Places(presumed))
      THEN Raised
      ELSE <<outcome, [s \in Securities |->
                         Status(drafts, turnover, presumed, outcome, s)]>>

-----------------------------------------------------------------------------
(* What a build starts from: a verified file set, a master, and evidence   *)
(* of exactly the securities that are to be ranked.                        *)
Init ==
  /\ candidates \in Files
  /\ changes \in Changes
  /\ Verified(candidates, changes)
  /\ listed \in Masters
  /\ evidence \in [Rankable(Drafts) -> Evidence]
  /\ ~Refused(Drafts, evidence)
  /\ universe = <<>>

Build ==
  /\ universe = <<>>
  /\ universe' = build_universe(evidence)
  /\ UNCHANGED <<candidates, changes, listed, evidence>>

(* One security's ingestion is attempted again, with another result (or    *)
(* one for a security that needed none), and the universe built anew.      *)
Reattempt(s, e) ==
  /\ universe # <<>> /\ universe # Raised
  /\ \E found \in {[t \in DOMAIN evidence \cup {s} |-> IF t = s THEN e ELSE evidence[t]]} :
       /\ evidence' = found
       /\ universe' = build_universe(found)
  /\ UNCHANGED <<candidates, changes, listed>>

Next == Build \/ \E s \in Symbols, e \in Evidence : Reattempt(s, e)

Spec == Init /\ [][Next]_vars

-----------------------------------------------------------------------------
Valid == universe # <<>> /\ universe[1] = "VALID"
With(status) == {s \in Securities : universe[2][s] = status}

(* Eligible securities the file values as much as this one or more: fewer  *)
(* than UniverseSize of them make it a presumed member, whatever its name. *)
AtLeastAsHigh(s) ==
  {t \in Securities \ {s} : /\ universe[2][t] # "INELIGIBLE"
                            /\ candidates[t].value >= candidates[s].value}
Member(s) == Cardinality(AtLeastAsHigh(s)) < UniverseSize

(* In a valid universe every slot is filled, and membership is decided by  *)
(* what was traded and never by the alphabet: a selected security trades   *)
(* strictly more than any obtainable one left out, and only a presumed     *)
(* member of the file leaves its slot open.                                *)
BestAreChosen ==
  Valid =>
    /\ Cardinality(With("SELECTED")) + Cardinality(With("UNRESOLVED")) = UniverseSize
    /\ Cardinality(With("UNRESOLVED")) <= MaxUnresolvedSlots
    /\ \A s \in With("SELECTED"), t \in With("NOT_SELECTED") :
         evidence[s].median > evidence[t].median
    /\ \A s \in With("UNRESOLVED") : Member(s)

(* "a shortlisted security whose data cannot be obtained is never          *)
(* replaced": when a later attempt loses the data of a presumed member,    *)
(* nobody is selected who was not selected before.                         *)
WithData == With("SELECTED") \cup With("NOT_SELECTED")
NeverReplaced ==
  [][(Valid /\ Valid' /\ \E s \in WithData \ WithData' : Member(s))
     => With("SELECTED")' \subseteq With("SELECTED")]_vars

(* More turnover never costs a security its slot, and who has data, not    *)
(* how much was traded, decides which slots are left open.                 *)
MoreTurnoverNeverHurts ==
  [][(Valid /\ Valid' /\ WithData = WithData')
     => /\ With("UNRESOLVED")' = With("UNRESOLVED")
        /\ \A s \in With("SELECTED") :
             (/\ evidence'[s].median >= evidence[s].median
              /\ \A t \in WithData \ {s} : evidence'[t] = evidence[t])
             => s \in With("SELECTED")']_vars
=============================================================================
