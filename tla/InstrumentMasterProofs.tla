----------------------- MODULE InstrumentMasterProofs -----------------------
(***************************************************************************)
(* For any number of runners, any dumps and any deaths: the instrument     *)
(* table never mixes two dumps; a master taken for fresh is recent, or a   *)
(* recent one was stored while it was loaded; and a tick is attributed to  *)
(* what its token was subscribed for, or another runner's master or a      *)
(* token listed twice is to blame.                                         *)
(***************************************************************************)
EXTENDS InstrumentMaster, FiniteSetTheorems, TLAPS

(* What a dump becomes when it is retrieved.                               *)
Dated(dump, at) ==
  [i \in DOMAIN dump |-> [symbol |-> dump[i].symbol, token |-> dump[i].token, at |-> at]]

(* A refresh stores a whole dump that can be used.                         *)
FetchedIsADump ==
  \A r \in Runners : pc[r] \in {"received", "storing"} =>
    \E dump \in Dumps, at \in 0 .. now : is_usable(dump) /\ fetched[r] = Dated(dump, at)

Typed ==
  /\ now \in Nat
  /\ published \in Dumps
  /\ DOMAIN pc = Runners /\ DOMAIN fetched = Runners

MasterInv == Typed /\ FetchedIsADump /\ StoredMasterIsOneDump

-----------------------------------------------------------------------------
(* The steps that neither store nor receive a dump.                        *)
LEMMA NothingStored ==
  ASSUME MasterInv, rows' = rows, published' \in Dumps, now' \in Nat, now <= now',
         DOMAIN pc' = Runners, DOMAIN fetched' = Runners,
         \A r \in Runners : pc'[r] \in {"received", "storing"} =>
           pc[r] \in {"received", "storing"} /\ fetched'[r] = fetched[r]
  PROVE  MasterInv'
<1>1. \A at \in 0 .. now : at \in 0 .. now'
  BY DEF MasterInv, Typed
<1>2. FetchedIsADump'
  BY <1>1 DEF MasterInv, FetchedIsADump
<1>3. StoredMasterIsOneDump'
  BY <1>1 DEF MasterInv, StoredMasterIsOneDump
<1>4. QED
  BY <1>2, <1>3 DEF MasterInv, Typed

LEMMA ReceiveKeepsInv ==
  ASSUME MasterInv, NEW r \in Runners, ReceiveDump(r)
  PROVE  MasterInv'
<1>1. /\ is_usable(published) /\ pc' = [pc EXCEPT ![r] = "received"]
      /\ fetched' = [fetched EXCEPT ![r] = Retrieved(published)]
      /\ now' = now /\ published' = published /\ rows' = rows
  BY DEF ReceiveDump, Becomes
<1>2. Retrieved(published) = Dated(published, now)
  BY DEF Retrieved, Dated
<1>3. now \in 0 .. now
  BY DEF MasterInv, Typed
<1>4. FetchedIsADump'
  <2> SUFFICES ASSUME NEW q \in Runners, pc'[q] \in {"received", "storing"}
               PROVE  \E dump \in Dumps, at \in 0 .. now :
                        is_usable(dump) /\ fetched'[q] = Dated(dump, at)
    BY <1>1 DEF FetchedIsADump
  <2>1. CASE q = r
    BY <1>1, <1>2, <1>3, <2>1 DEF MasterInv, Typed
  <2>2. CASE q # r
    <3>1. pc[q] \in {"received", "storing"} /\ fetched'[q] = fetched[q]
      BY <1>1, <2>2 DEF MasterInv, Typed
    <3>2. QED
      BY <3>1 DEF MasterInv, FetchedIsADump
  <2>3. QED
    BY <2>1, <2>2
<1>5. QED
  BY <1>1, <1>4 DEF MasterInv, Typed, StoredMasterIsOneDump

(* A transaction that was overtaken meets a symbol of the master that is   *)
(* there, so it fails rather than mix its rows with them.                  *)
LEMMA ReplacesAll ==
  ASSUME MasterInv, NEW r \in Runners, Replace(r),
         ~ (r \in superseded /\ \E i \in rows, j \in Range(fetched[r]) : i.symbol = j.symbol)
  PROVE  rows' = Range(fetched[r])
<1>1. PICK dump \in Dumps, at \in 0 .. now : is_usable(dump) /\ fetched[r] = Dated(dump, at)
  BY DEF MasterInv, FetchedIsADump, Replace
<1> DEFINE incoming == Range(fetched[r])
<1>2. incoming = {[symbol |-> dump[i].symbol, token |-> dump[i].token, at |-> at] : i \in DOMAIN dump}
  BY <1>1 DEF Range, Dated
<1>3. rows' = Kept(r) \cup incoming
  BY DEF Replace
<1>4. CASE rows = {}
  BY <1>3, <1>4 DEF Kept
<1>5. CASE rows # {}
  <2>1. PICK d \in Dumps, t \in 0 .. now :
          /\ is_usable(d)
          /\ rows = {[symbol |-> d[i].symbol, token |-> d[i].token, at |-> t] : i \in DOMAIN d}
    BY <1>5 DEF MasterInv, StoredMasterIsOneDump
  <2>2. PICK i \in DOMAIN d, j \in DOMAIN dump : d[i].symbol = dump[j].symbol
    BY <1>1, <2>1, ExchangeAssumption
  <2>3. \E x \in rows, y \in incoming : x.symbol = y.symbol
    <3> DEFINE x == [symbol |-> d[i].symbol, token |-> d[i].token, at |-> t]
               y == [symbol |-> dump[j].symbol, token |-> dump[j].token, at |-> at]
    <3>1. x \in rows /\ y \in incoming
      BY <1>2, <2>1
    <3>2. x.symbol = y.symbol
      BY <2>2
    <3>3. QED
      BY <3>1, <3>2
  <2>4. Kept(r) = {}
    BY <2>3 DEF Kept
  <2>5. QED
    BY <1>3, <2>4
<1>6. QED
  BY <1>4, <1>5

LEMMA ReplaceKeepsInv ==
  ASSUME MasterInv, NEW r \in Runners, Replace(r)
  PROVE  MasterInv'
<1>1. PICK dump \in Dumps, at \in 0 .. now : is_usable(dump) /\ fetched[r] = Dated(dump, at)
  BY DEF MasterInv, FetchedIsADump, Replace
<1> DEFINE incoming == Range(fetched[r])
           blocked  == r \in superseded /\ \E i \in rows, j \in incoming : i.symbol = j.symbol
<1>2. incoming = {[symbol |-> dump[i].symbol, token |-> dump[i].token, at |-> at] : i \in DOMAIN dump}
  BY <1>1 DEF Range, Dated
<1>3. /\ now' = now /\ published' = published
      /\ fetched' = [fetched EXCEPT ![r] = <<>>]
      /\ \E state \in {"ended", "resolving"} : pc' = [pc EXCEPT ![r] = state]
  BY DEF Replace, Becomes, Leave
<1>4. rows' = rows \/ rows' = incoming
  <2>1. CASE blocked
    BY <2>1 DEF Replace
  <2>2. CASE ~blocked
    BY <2>2, ReplacesAll
  <2>3. QED
    BY <2>1, <2>2
<1>5. StoredMasterIsOneDump'
  <2>1. CASE rows' = rows
    BY <1>3, <2>1 DEF MasterInv, StoredMasterIsOneDump
  <2>2. CASE rows' = incoming
    BY <1>1, <1>2, <1>3, <2>2 DEF StoredMasterIsOneDump
  <2>3. QED
    BY <1>4, <2>1, <2>2
<1>6. FetchedIsADump'
  <2> SUFFICES ASSUME NEW q \in Runners, pc'[q] \in {"received", "storing"}
               PROVE  \E d \in Dumps, t \in 0 .. now : is_usable(d) /\ fetched'[q] = Dated(d, t)
    BY <1>3 DEF FetchedIsADump
  <2>1. q # r
    BY <1>3 DEF MasterInv, Typed
  <2>2. pc[q] \in {"received", "storing"} /\ fetched'[q] = fetched[q]
    BY <1>3, <2>1 DEF MasterInv, Typed
  <2>3. QED
    BY <2>2 DEF MasterInv, FetchedIsADump
<1>7. QED
  BY <1>3, <1>5, <1>6 DEF MasterInv, Typed

LEMMA MasterInvInductive == MasterInv /\ [Next]_vars => MasterInv'
<1> SUFFICES ASSUME MasterInv, [Next]_vars PROVE MasterInv'
  OBVIOUS
<1>1. CASE AdvanceClock
  BY <1>1, NothingStored DEF AdvanceClock, MasterInv, Typed
<1>2. CASE UNCHANGED vars
  BY <1>2, NothingStored DEF vars, MasterInv, Typed
<1>3. ASSUME NEW r \in Runners,
             \/ SkipRefresh(r) \/ BeginRefresh(r) \/ RefreshFails(r) \/ Subscribe(r)
             \/ LoadStamp(r) \/ Resolve(r) \/ LookUpToken(r) \/ BeginReplace(r)
      PROVE  MasterInv'
  <2>1. /\ rows' = rows /\ now' = now /\ published' = published /\ fetched' = fetched
        /\ \/ pc' = pc
           \/ \E state \in {"resolving", "fetching", "serving", "loaded", "ended"} :
                pc' = [pc EXCEPT ![r] = state]
           \/ pc[r] = "received" /\ pc' = [pc EXCEPT ![r] = "storing"]
    BY <1>3 DEF SkipRefresh, BeginRefresh, RefreshFails, Subscribe, LoadStamp, Resolve,
                LookUpToken, BeginReplace, Becomes, Leave
  <2>2. DOMAIN pc' = Runners /\ \A q \in Runners :
                                   pc'[q] \in {"received", "storing"} => pc[q] \in {"received", "storing"}
    BY <2>1 DEF MasterInv, Typed
  <2>3. QED
    BY <2>1, <2>2, NothingStored DEF MasterInv, Typed
<1>4. ASSUME NEW r \in Runners, LoadInstruments(r) \/ EndRun(r)
      PROVE  MasterInv'
  <2>1. /\ rows' = rows /\ now' = now /\ published' = published
        /\ fetched' = [fetched EXCEPT ![r] = <<>>]
        /\ \E state \in {"loading", "ended"} : pc' = [pc EXCEPT ![r] = state]
    BY <1>4 DEF LoadInstruments, EndRun, Becomes, Leave
  <2>2. /\ DOMAIN pc' = Runners /\ DOMAIN fetched' = Runners
        /\ \A q \in Runners :
             pc'[q] \in {"received", "storing"} => pc[q] \in {"received", "storing"} /\ fetched'[q] = fetched[q]
    BY <2>1 DEF MasterInv, Typed
  <2>3. QED
    BY <2>1, <2>2, NothingStored DEF MasterInv, Typed
<1>5. QED
  BY <1>1, <1>2, <1>3, <1>4, ReceiveKeepsInv, ReplaceKeepsInv DEF Next

LEMMA InitialMaster == Init => MasterInv
<1> SUFFICES ASSUME Init PROVE MasterInv
  OBVIOUS
<1>1. \A r \in Runners : pc[r] = "ended"
  BY DEF Init
<1>2. QED
  BY <1>1 DEF Init, MasterInv, Typed, FetchedIsADump, StoredMasterIsOneDump

(* "merging would leave expired contracts behind forever": however many    *)
(* refreshes overlap and wherever a process dies, replace_instruments      *)
(* leaves one whole dump in the table, or none.                            *)
THEOREM MasterIsNeverMixed == Spec => []StoredMasterIsOneDump
<1>1. MasterInv => StoredMasterIsOneDump
  BY DEF MasterInv
<1>2. QED
  BY <1>1, InitialMaster, MasterInvInductive, PTL DEF Spec
-----------------------------------------------------------------------------
(* What _index makes of a list of instruments.                             *)
LEMMA LeastElement ==
  ASSUME NEW T, T \subseteq Nat, T # {}
  PROVE  \E x \in T : \A y \in T : x <= y
<1> DEFINE R == OpToRel(<, Nat)
<1>1. IsWellFoundedOn(R, Nat)
  BY NatLessThanWellFounded
<1>2. \A x, y \in Nat : x < y => <<x, y>> \in R
  BY DEF OpToRel
<1> HIDE DEF R
<1>3. PICK x \in T : \A y \in T : <<y, x>> \notin R
  BY <1>1, WFMin
<1>4. \A y \in T : ~ (y < x)
  BY <1>2, <1>3
<1>5. QED
  BY <1>4

LEMMA LastPosition ==
  ASSUME NEW n \in Nat, NEW S, S \subseteq 1 .. n, S # {}
  PROVE  Max(S) \in S
<1> DEFINE T == {k \in Nat : n - k \in S}
<1>1. PICK i \in S : TRUE
  OBVIOUS
<1>2. n - i \in T
  <2>1. i \in 1 .. n /\ n - i \in Nat /\ n - (n - i) = i
    BY <1>1
  <2>2. QED
    BY <1>1, <2>1
<1> HIDE DEF T
<1>3. PICK k \in T : \A l \in T : k <= l
  <2>1. T \subseteq Nat
    BY DEF T
  <2>2. QED
    BY <1>2, <2>1, LeastElement
<1>4. n - k \in S /\ k \in Nat
  BY DEF T
<1>5. \A j \in S : n - k >= j
  <2> SUFFICES ASSUME NEW j \in S PROVE n - k >= j
    OBVIOUS
  <2>1. j \in 1 .. n /\ n - j \in Nat /\ n - (n - j) = j
    OBVIOUS
  <2>2. n - j \in T
    BY <2>1 DEF T
  <2>3. k <= n - j
    BY <1>3, <2>2
  <2>4. QED
    BY <1>4, <2>1, <2>3
<1>6. QED
  BY <1>4, <1>5 DEF Max

(* A list of instruments, as the table or a dump gives it.                 *)
IsList(list) ==
  /\ \E n \in Nat : DOMAIN list = 1 .. n
  /\ \A i \in DOMAIN list : list[i] \in Instruments

(* Each entry of the index by symbol is in the list, under its own symbol, *)
(* and its token has an entry in the index by token.                       *)
LEMMA Indexes ==
  ASSUME NEW r, NEW list, IsList(list)
  PROVE  /\ IndexBySymbol(list) \in [Symbols -> Instruments \cup {None}]
         /\ IndexByToken(r, list) \in [Tokens -> Instruments \cup {None}]
         /\ \A s \in Symbols : IndexBySymbol(list)[s] # None =>
              /\ IndexBySymbol(list)[s] \in Range(list)
              /\ IndexBySymbol(list)[s].symbol = s
         /\ \A t \in Tokens : IndexByToken(r, list)[t] # None =>
              IndexByToken(r, list)[t] \in Range(list)
         /\ \A i \in Range(list) : IndexByToken(r, list)[i.token] # None
<1> DEFINE named(s) == {i \in DOMAIN list : list[i].symbol = s}
           held(t)  == {i \in DOMAIN list : list[i].token = t}
<1>1. PICK n \in Nat : DOMAIN list = 1 .. n
  BY DEF IsList
<1>2. \A s : named(s) # {} => Max(named(s)) \in DOMAIN list /\ list[Max(named(s))].symbol = s
  <2>1. \A s : named(s) # {} => Max(named(s)) \in named(s)
    BY <1>1, LastPosition
  <2>2. QED
    BY <2>1
<1>3. \A t : held(t) # {} => Max(held(t)) \in DOMAIN list
  <2>1. \A t : held(t) # {} => Max(held(t)) \in held(t)
    BY <1>1, LastPosition
  <2>2. QED
    BY <2>1
<1>4. \A s \in Symbols : IndexBySymbol(list)[s] =
        IF named(s) # {} THEN list[Max(named(s))] ELSE None
  BY DEF IndexBySymbol, LastOf
<1>5. \A t \in Tokens : IndexByToken(r, list)[t] =
        IF held(t) # {} THEN list[Max(held(t))] ELSE None
  BY DEF IndexByToken, LastOf
<1>6. \A i \in DOMAIN list : list[i] \in Instruments /\ list[i] # None /\ list[i] \in Range(list)
  BY NoneAssumption DEF IsList, Range
<1>7. \A i \in DOMAIN list : i \in named(list[i].symbol) /\ i \in held(list[i].token)
  OBVIOUS
<1> HIDE DEF named, held
<1>8. \A s \in Symbols :
        /\ IndexBySymbol(list)[s] \in Instruments \cup {None}
        /\ IndexBySymbol(list)[s] # None =>
             IndexBySymbol(list)[s] \in Range(list) /\ IndexBySymbol(list)[s].symbol = s
  BY <1>2, <1>4, <1>6
<1>9. \A t \in Tokens :
        /\ IndexByToken(r, list)[t] \in Instruments \cup {None}
        /\ IndexByToken(r, list)[t] # None => IndexByToken(r, list)[t] \in Range(list)
  BY <1>3, <1>5, <1>6
<1>10. \A i \in Range(list) : IndexByToken(r, list)[i.token] # None
  <2> SUFFICES ASSUME NEW k \in DOMAIN list PROVE IndexByToken(r, list)[list[k].token] # None
    BY DEF Range
  <2>1. k \in held(list[k].token) /\ list[k].token \in Tokens
    BY <1>6, <1>7 DEF Instruments
  <2>2. QED
    BY <1>3, <1>5, <1>6, <2>1
<1>11. /\ IndexBySymbol(list) = [s \in Symbols |-> IndexBySymbol(list)[s]]
       /\ IndexByToken(r, list) = [t \in Tokens |-> IndexByToken(r, list)[t]]
  BY DEF IndexBySymbol, IndexByToken
<1>12. QED
  BY <1>8, <1>9, <1>10, <1>11
-----------------------------------------------------------------------------
(* The caches of the runners.                                              *)
CacheTyped ==
  /\ now \in 0 .. MaxTime
  /\ rows \subseteq Instruments
  /\ by_symbol \in [Runners -> [Symbols -> Instruments \cup {None}]]
  /\ by_token \in [Runners -> [Tokens -> Instruments \cup {None}]]
  /\ loaded_at \in [Runners -> 0 .. MaxTime \cup {None}]
  /\ asked \in [Runners -> SUBSET Symbols]
  /\ subscribed \in [Runners -> SUBSET Instruments]
  /\ outside \in [Runners -> SUBSET Symbols]
  /\ since \in [Runners -> SUBSET (0 .. MaxTime)]

(* The token of an instrument is known, from one dump with it.             *)
TokenKnown(r, i) ==
  by_token[r][i.token] # None /\ FromOneDump({by_token[r][i.token], i})

(* Nothing is resolved before the master is there.                         *)
NothingAsked(r) ==
  pc[r] \in {"loading", "loaded", "fetching", "received", "storing"} =>
    subscribed[r] = {} /\ outside[r] = {}

CacheAgrees(r) ==
  \A s \in Symbols : by_symbol[r][s] # None =>
    /\ by_symbol[r][s].symbol = s
    /\ s \in outside[r] \/ TokenKnown(r, by_symbol[r][s])

SubscribedKnown(r) ==
  \A i \in subscribed[r] : i.symbol \in outside[r] \/ TokenKnown(r, i)

(* The stamp is the age of what was loaded, or, after a load that was      *)
(* overtaken, that of a master stored meanwhile.                           *)
StampIsTrue(r) ==
  IF r \notin overtaken
  THEN /\ pc[r] = "loading" => MasterOf(r) \subseteq rows
       /\ pc[r] \notin {"ended", "loading"} =>
            \A i \in MasterOf(r) : loaded_at[r] # None /\ i.at = loaded_at[r]
  ELSE /\ pc[r] = "loading" => rows # {} /\ \A i \in rows : i.at \in since[r]
       /\ pc[r] \notin {"ended", "loading"} => loaded_at[r] # None /\ loaded_at[r] \in since[r]

(* What a runner holds and the table are of one dump, except for what      *)
(* others have stored since.                                               *)
Seen(r) ==
  ({by_symbol[r][s] : s \in Symbols} \cup {by_token[r][t] : t \in Tokens}
     \cup subscribed[r] \cup rows) \ {None}

OneMaster(r) ==
  pc[r] # "ended" =>
    \A i, j \in Seen(r) : FromOneDump({i, j}) \/ {i.at, j.at} \cap since[r] # {}

OvertakenRuns(r) == r \in overtaken => pc[r] # "ended"

RunnerInv(r) ==
  /\ NothingAsked(r) /\ CacheAgrees(r) /\ SubscribedKnown(r)
  /\ StampIsTrue(r) /\ OvertakenRuns(r) /\ OneMaster(r)

CacheInv == CacheTyped /\ \A r \in Runners : RunnerInv(r)

(* A runner whose cache a step leaves alone: the table may be replaced by  *)
(* another one's dump.                                                     *)
Passed(q) ==
  \/ /\ rows' = rows /\ (q \in overtaken' <=> q \in overtaken)
     /\ since'[q] = since[q]
  \/ /\ rows' # {} /\ \A i \in rows' : i.at \in since'[q]
     /\ since[q] \subseteq since'[q]
     /\ IF pc[q] = "loading" THEN q \in overtaken' ELSE q \in overtaken' <=> q \in overtaken

LEMMA RunnerUnmoved ==
  ASSUME NEW q \in Runners, RunnerInv(q),
         by_symbol'[q] = by_symbol[q], by_token'[q] = by_token[q],
         loaded_at'[q] = loaded_at[q], subscribed'[q] = subscribed[q], outside'[q] = outside[q],
         IF pc'[q] = "ended" THEN q \notin overtaken' ELSE Passed(q),
         pc'[q] = "loading" <=> pc[q] = "loading" /\ pc'[q] # "ended",
         pc'[q] \in {"loaded", "fetching", "received", "storing"} =>
           pc[q] \in {"loaded", "fetching", "received", "storing"},
         pc'[q] # "ended" => pc[q] # "ended"
  PROVE  RunnerInv(q)'
<1>1. NothingAsked(q)'
  BY DEF RunnerInv, NothingAsked
<1>2. CacheAgrees(q)' /\ SubscribedKnown(q)'
  BY DEF RunnerInv, CacheAgrees, SubscribedKnown, TokenKnown
<1>3. MasterOf(q)' = MasterOf(q)
  BY DEF MasterOf, LookedUp
<1>4. CASE pc'[q] = "ended"
  <2>1. StampIsTrue(q)' /\ OvertakenRuns(q)' /\ OneMaster(q)'
    BY <1>4 DEF StampIsTrue, OvertakenRuns, OneMaster
  <2>2. QED
    BY <1>1, <1>2, <2>1 DEF RunnerInv
<1>5. CASE pc'[q] # "ended"
  <2>1. StampIsTrue(q)'
    BY <1>3, <1>5 DEF RunnerInv, StampIsTrue, Passed
  <2>2. \A i \in Seen(q)' : i \in Seen(q) \/ (i \in rows' /\ i.at \in since'[q])
    BY <1>5 DEF Seen, Passed
  <2>3. since[q] \subseteq since'[q]
    BY <1>5 DEF Passed
  <2>4. OneMaster(q)'
    BY <1>5, <2>2, <2>3 DEF RunnerInv, OneMaster
  <2>5. QED
    BY <1>1, <1>2, <1>5, <2>1, <2>4 DEF RunnerInv, OvertakenRuns
<1>6. QED
  BY <1>4, <1>5

LEMMA RunnerStays ==
  ASSUME NEW q \in Runners, RunnerInv(q), pc'[q] = pc[q], Passed(q),
         by_symbol'[q] = by_symbol[q], by_token'[q] = by_token[q],
         loaded_at'[q] = loaded_at[q], subscribed'[q] = subscribed[q], outside'[q] = outside[q],
         pc[q] = "ended" => (q \in overtaken' <=> q \in overtaken)
  PROVE  RunnerInv(q)'
BY RunnerUnmoved DEF RunnerInv, OvertakenRuns

(* One of the runners ends.                                                *)
LEMMA RunnerEnds ==
  ASSUME MasterInv, CacheInv, NEW r \in Runners, NEW q \in Runners, pc[r] # "ended",
         pc' = [pc EXCEPT ![r] = "ended"],
         overtaken' = overtaken \ {r}, since' = [since EXCEPT ![r] = {}],
         rows' = rows, by_symbol' = by_symbol, by_token' = by_token, loaded_at' = loaded_at,
         subscribed' = subscribed, outside' = outside
  PROVE  RunnerInv(q)'
<1>1. CASE q = r
  <2>1. pc'[q] = "ended" /\ q \notin overtaken' /\ pc[q] # "ended"
    BY <1>1 DEF MasterInv, Typed
  <2>2. QED
    BY <2>1, RunnerUnmoved DEF CacheInv
<1>2. CASE q # r
  <2>1. pc'[q] = pc[q] /\ Passed(q) /\ (q \in overtaken' <=> q \in overtaken)
    BY <1>2 DEF Passed, MasterInv, Typed, CacheInv, CacheTyped
  <2>2. QED
    BY <2>1, RunnerStays DEF CacheInv
<1>3. QED
  BY <1>1, <1>2

(* What comes from one dump.                                               *)
LEMMA PairsOfADump ==
  ASSUME NEW dump \in Dumps, is_usable(dump), NEW at, NEW found, found \subseteq Range(Dated(dump, at))
  PROVE  FromOneDump(found)
<1>1. ASSUME NEW i \in found
      PROVE  /\ [symbol |-> i.symbol, token |-> i.token] \in Range(dump)
             /\ i.at = at
  <2>1. PICK k \in DOMAIN dump :
          i = [symbol |-> dump[k].symbol, token |-> dump[k].token, at |-> at]
    BY DEF Range, Dated
  <2>2. dump[k] = [symbol |-> dump[k].symbol, token |-> dump[k].token]
    <3> DEFINE Entries == [symbol : Symbols, token : Tokens]
    <3> HIDE DEF Entries
    <3>1. dump \in Seq(Entries)
      BY MasterAssumption DEF Entries
    <3>2. dump[k] \in Entries
      BY <3>1
    <3>3. QED
      BY <3>2 DEF Entries
  <2>3. QED
    BY <2>1, <2>2 DEF Range
<1>2. QED
  BY <1>1 DEF FromOneDump

LEMMA TableIsOfOneDump ==
  ASSUME StoredMasterIsOneDump, NEW i \in rows, NEW j \in rows
  PROVE  FromOneDump({i, j})
<1>1. PICK dump \in Dumps, at \in 0 .. now :
        /\ is_usable(dump)
        /\ rows = {[symbol |-> dump[k].symbol, token |-> dump[k].token, at |-> at] : k \in DOMAIN dump}
  BY DEF StoredMasterIsOneDump
<1>2. rows \subseteq Range(Dated(dump, at))
  BY <1>1 DEF Range, Dated
<1>3. QED
  BY <1>1, <1>2, PairsOfADump

(* The instruments of the table are of one age.                            *)
LEMMA TableHasOneAge ==
  ASSUME StoredMasterIsOneDump, CacheTyped
  PROVE  /\ \A i, j \in rows : i.at = j.at
         /\ rows # {} => \A i \in rows : instruments_retrieved_at(rows) = i.at
<1>1. \A i, j \in rows : i.at = j.at
  BY DEF StoredMasterIsOneDump
<1>2. ASSUME NEW i \in rows
      PROVE  instruments_retrieved_at(rows) = i.at
  <2>1. {j.at : j \in rows} = {i.at}
    BY <1>1
  <2>2. i.at \in Nat
    BY DEF CacheTyped, Instruments
  <2>3. Max({i.at}) = i.at
    BY <2>2 DEF Max
  <2>4. QED
    BY <2>1, <2>3 DEF instruments_retrieved_at
<1>3. QED
  BY <1>1, <1>2

LEMMA TableIsListed ==
  ASSUME StoredMasterIsOneDump, CacheTyped, NEW list \in Listings(rows)
  PROVE  IsList(list) /\ Range(list) \subseteq rows
<1>1. IsFiniteSet(rows)
  <2>1. CASE rows = {}
    BY <2>1, FS_EmptySet
  <2>2. ASSUME NEW dump \in Dumps, NEW at \in 0 .. now,
               rows = {[symbol |-> dump[i].symbol, token |-> dump[i].token, at |-> at] : i \in DOMAIN dump}
        PROVE  IsFiniteSet(rows)
    <3>1. PICK n \in Nat : DOMAIN dump = 1 .. n
      BY MasterAssumption
    <3> DEFINE f == Dated(dump, at)
    <3>2. f \in Surjection(1 .. n, rows)
      BY <2>2, <3>1 DEF Surjection, Dated
    <3>3. QED
      BY <3>2, FS_NatSurjection DEF ExistsSurjection
  <2>3. QED
    BY <2>1, <2>2 DEF StoredMasterIsOneDump
<1>2. PICK part \in SUBSET rows : list \in SetToSeqs(part)
  BY DEF Listings, kSubset
<1>3. IsFiniteSet(part)
  BY <1>1, FS_Subset
<1>4. Cardinality(part) \in Nat
  BY <1>3, FS_CardinalityType
<1>5. list \in [1 .. Cardinality(part) -> part]
  BY <1>2 DEF SetToSeqs
<1>6. QED
  BY <1>4, <1>5 DEF IsList, Range, CacheTyped

LEMMA FetchedIsListed ==
  ASSUME MasterInv, CacheTyped, NEW r \in Runners, pc[r] = "storing"
  PROVE  /\ IsList(fetched[r]) /\ 1 \in DOMAIN fetched[r]
         /\ fetched[r][1].at \in 0 .. MaxTime
         /\ \A i \in Range(fetched[r]) : i \in Instruments /\ i.at = fetched[r][1].at
         /\ \A i, j \in Range(fetched[r]) : FromOneDump({i, j})
<1>1. PICK dump \in Dumps, at \in 0 .. now : is_usable(dump) /\ fetched[r] = Dated(dump, at)
  BY DEF MasterInv, FetchedIsADump
<1> DEFINE n == Len(dump)
<1>2. /\ n \in Nat \ {0} /\ DOMAIN dump = 1 .. n
      /\ \A i \in 1 .. n : dump[i] \in [symbol : Symbols, token : Tokens]
  <2>1. dump \in Seq([symbol : Symbols, token : Tokens]) /\ dump # <<>>
    BY <1>1, MasterAssumption DEF is_usable
  <2> DEFINE Entries == [symbol : Symbols, token : Tokens]
  <2> HIDE DEF Entries
  <2>2. n \in Nat /\ DOMAIN dump = 1 .. n
    BY <2>1
  <2>3. \A i \in 1 .. n : dump[i] \in Entries
    <3>1. dump \in Seq(Entries)
      BY <2>1 DEF Entries
    <3>2. QED
      BY <3>1
  <2>4. n # 0
    BY <2>1
  <2>5. QED
    BY <2>2, <2>3, <2>4 DEF Entries
<1> HIDE DEF n
<1>3. 1 \in 1 .. n /\ at \in 0 .. MaxTime
  BY <1>2, MasterAssumption DEF CacheTyped
<1>4. \A i \in 1 .. n : fetched[r][i] \in Instruments /\ fetched[r][i].at = at
  BY <1>1, <1>2, <1>3 DEF Dated, Instruments
<1>5. DOMAIN fetched[r] = 1 .. n
  BY <1>1, <1>2 DEF Dated
<1>6. \A i, j \in Range(fetched[r]) : FromOneDump({i, j})
  BY <1>1, PairsOfADump
<1>7. QED
  BY <1>2, <1>3, <1>4, <1>5, <1>6 DEF IsList, Range

(* A new master: what is cached afterwards is what was indexed.            *)
LEMMA ReIndexed ==
  ASSUME CacheTyped, NEW r \in Runners, NEW list, IsList(list), ReIndex(r, list),
         \A i, j \in Range(list) : FromOneDump({i, j}),
         subscribed'[r] = {}, outside'[r] = {}
  PROVE  /\ by_symbol' \in [Runners -> [Symbols -> Instruments \cup {None}]]
         /\ by_token' \in [Runners -> [Tokens -> Instruments \cup {None}]]
         /\ CacheAgrees(r)' /\ SubscribedKnown(r)'
         /\ MasterOf(r)' \subseteq Range(list)
         /\ Seen(r)' \subseteq Range(list) \cup rows'
<1>1. /\ by_symbol'[r] = IndexBySymbol(list) /\ by_token'[r] = IndexByToken(r, list)
      /\ by_symbol' \in [Runners -> [Symbols -> Instruments \cup {None}]]
      /\ by_token' \in [Runners -> [Tokens -> Instruments \cup {None}]]
  BY Indexes DEF ReIndex, CacheTyped
<1>2. \A s \in Symbols : by_symbol'[r][s] # None =>
        by_symbol'[r][s] \in Range(list) /\ by_symbol'[r][s].symbol = s
  BY <1>1, Indexes
<1>3. \A t \in Tokens : by_token'[r][t] # None => by_token'[r][t] \in Range(list)
  BY <1>1, Indexes
<1>4. \A i \in Range(list) :
        /\ i.token \in Tokens /\ by_token'[r][i.token] # None
        /\ FromOneDump({by_token'[r][i.token], i})
  <2> SUFFICES ASSUME NEW i \in Range(list)
               PROVE  /\ i.token \in Tokens /\ by_token'[r][i.token] # None
                      /\ FromOneDump({by_token'[r][i.token], i})
    OBVIOUS
  <2>1. i.token \in Tokens
    BY DEF IsList, Range, Instruments
  <2>2. by_token'[r][i.token] # None
    BY <1>1, Indexes
  <2>3. QED
    BY <1>3, <2>1, <2>2
<1>5. CacheAgrees(r)'
  BY <1>2, <1>4 DEF CacheAgrees, TokenKnown, FromOneDump
<1>6. SubscribedKnown(r)'
  BY DEF SubscribedKnown
<1>7. MasterOf(r)' \subseteq Range(list)
  BY <1>2, <1>3 DEF MasterOf
<1>8. Seen(r)' \subseteq Range(list) \cup rows'
  BY <1>2, <1>3 DEF Seen
<1>9. QED
  BY <1>1, <1>5, <1>6, <1>7, <1>8

LEMMA LoadKeepsCache ==
  ASSUME MasterInv, CacheInv, NEW r \in Runners, LoadInstruments(r)
  PROVE  CacheInv'
<1>1. PICK list \in Listings(rows) : ReIndex(r, list)
  BY DEF LoadInstruments
<1>2. /\ pc' = [pc EXCEPT ![r] = "loading"] /\ rows' = rows /\ now' = now
      /\ loaded_at' = [loaded_at EXCEPT ![r] = None]
      /\ asked' = [asked EXCEPT ![r] = {}]
      /\ subscribed' = [subscribed EXCEPT ![r] = {}]
      /\ outside' = [outside EXCEPT ![r] = {}]
      /\ pc[r] = "ended" /\ overtaken' = overtaken /\ since' = since
  BY DEF LoadInstruments, Becomes
<1>3. IsList(list) /\ Range(list) \subseteq rows
  BY <1>1, TableIsListed DEF MasterInv, CacheInv
<1>4. \A i, j \in rows : FromOneDump({i, j})
  BY TableIsOfOneDump DEF MasterInv
<1>5. subscribed'[r] = {} /\ outside'[r] = {} /\ pc'[r] = "loading"
  BY <1>2 DEF CacheInv, CacheTyped, MasterInv, Typed
<1>6. /\ by_symbol' \in [Runners -> [Symbols -> Instruments \cup {None}]]
      /\ by_token' \in [Runners -> [Tokens -> Instruments \cup {None}]]
      /\ CacheAgrees(r)' /\ SubscribedKnown(r)' /\ MasterOf(r)' \subseteq Range(list)
      /\ Seen(r)' \subseteq Range(list) \cup rows'
  BY <1>1, <1>3, <1>4, <1>5, ReIndexed DEF CacheInv
<1>7. CacheTyped'
  BY <1>2, <1>6 DEF CacheInv, CacheTyped
<1>8. RunnerInv(r)'
  <2>1. r \notin overtaken
    BY <1>2 DEF CacheInv, RunnerInv, OvertakenRuns
  <2>2. StampIsTrue(r)' /\ OvertakenRuns(r)'
    BY <1>2, <1>3, <1>5, <1>6, <2>1 DEF StampIsTrue, OvertakenRuns
  <2>3. OneMaster(r)'
    BY <1>2, <1>3, <1>4, <1>6 DEF OneMaster
  <2>4. QED
    BY <1>5, <1>6, <2>2, <2>3 DEF RunnerInv, NothingAsked
<1>9. ASSUME NEW q \in Runners, q # r PROVE RunnerInv(q)'
  <2>1. /\ by_symbol'[q] = by_symbol[q] /\ by_token'[q] = by_token[q] /\ pc'[q] = pc[q]
        /\ loaded_at'[q] = loaded_at[q] /\ subscribed'[q] = subscribed[q]
        /\ outside'[q] = outside[q] /\ Passed(q)
    BY <1>1, <1>2, <1>9 DEF Passed, ReIndex, CacheInv, CacheTyped, MasterInv, Typed
  <2>2. QED
    BY <1>2, <2>1, RunnerStays DEF CacheInv
<1>10. QED
  BY <1>7, <1>8, <1>9 DEF CacheInv

LEMMA StampKeepsCache ==
  ASSUME MasterInv, CacheInv, NEW r \in Runners, LoadStamp(r)
  PROVE  CacheInv'
<1>1. /\ pc[r] = "loading" /\ pc' = [pc EXCEPT ![r] = "loaded"]
      /\ loaded_at' = [loaded_at EXCEPT ![r] = instruments_retrieved_at(rows)]
      /\ rows' = rows /\ now' = now /\ by_symbol' = by_symbol /\ by_token' = by_token
      /\ asked' = asked /\ subscribed' = subscribed /\ outside' = outside
      /\ overtaken' = overtaken /\ since' = since
  BY DEF LoadStamp, Becomes
<1>2. rows # {} => \A i \in rows : instruments_retrieved_at(rows) = i.at
  BY TableHasOneAge DEF MasterInv, CacheInv
<1>3. instruments_retrieved_at(rows) \in 0 .. MaxTime \cup {None}
  <2>1. CASE rows = {}
    BY <2>1 DEF instruments_retrieved_at
  <2>2. CASE rows # {}
    BY <1>2, <2>2 DEF CacheInv, CacheTyped, Instruments
  <2>3. QED
    BY <2>1, <2>2
<1>4. CacheTyped'
  BY <1>1, <1>3 DEF CacheInv, CacheTyped
<1>5. pc'[r] = "loaded" /\ loaded_at'[r] = instruments_retrieved_at(rows)
  BY <1>1 DEF CacheInv, CacheTyped, MasterInv, Typed
<1>6. RunnerInv(r)'
  <2>1. NothingAsked(r)' /\ CacheAgrees(r)' /\ SubscribedKnown(r)'
    BY <1>1, <1>5 DEF CacheInv, RunnerInv, NothingAsked, CacheAgrees, SubscribedKnown, TokenKnown
  <2>2. MasterOf(r)' = MasterOf(r)
    BY <1>1 DEF MasterOf, LookedUp
  <2>3. StampIsTrue(r)'
    <3>1. \A i \in rows : i.at # None
      BY NoneAssumption DEF CacheInv, CacheTyped, Instruments
    <3>2. CASE r \notin overtaken
      BY <1>1, <1>2, <1>5, <2>2, <3>1, <3>2 DEF CacheInv, RunnerInv, StampIsTrue
    <3>3. CASE r \in overtaken
      BY <1>1, <1>2, <1>5, <3>1, <3>3 DEF CacheInv, RunnerInv, StampIsTrue
    <3>4. QED
      BY <3>2, <3>3
  <2>4. OneMaster(r)' /\ OvertakenRuns(r)'
    BY <1>1, <1>5 DEF CacheInv, RunnerInv, OneMaster, Seen, OvertakenRuns
  <2>5. QED
    BY <2>1, <2>3, <2>4 DEF RunnerInv
<1>7. ASSUME NEW q \in Runners, q # r PROVE RunnerInv(q)'
  <2>1. pc'[q] = pc[q] /\ loaded_at'[q] = loaded_at[q] /\ Passed(q)
    BY <1>1, <1>7 DEF Passed, CacheInv, CacheTyped, MasterInv, Typed
  <2>2. QED
    BY <1>1, <2>1, RunnerStays DEF CacheInv
<1>8. QED
  BY <1>4, <1>6, <1>7 DEF CacheInv

LEMMA ReplaceKeepsCache ==
  ASSUME MasterInv, CacheInv, NEW r \in Runners, Replace(r)
  PROVE  CacheInv'
<1> DEFINE blocked == r \in superseded /\ \E i \in rows, j \in Range(fetched[r]) : i.symbol = j.symbol
<1>1. /\ pc[r] = "storing" /\ now' = now /\ asked' = asked
      /\ subscribed' = subscribed /\ outside' = outside
  BY DEF Replace
<1>2. blocked =>
        /\ pc' = [pc EXCEPT ![r] = "ended"] /\ rows' = rows /\ loaded_at' = loaded_at
        /\ by_symbol' = by_symbol /\ by_token' = by_token
        /\ overtaken' = overtaken \ {r} /\ since' = [since EXCEPT ![r] = {}]
  BY DEF Replace, Leave, Becomes, cache_vars
<1>3. ~blocked =>
        /\ pc' = [pc EXCEPT ![r] = "resolving"]
        /\ rows' = Kept(r) \cup Range(fetched[r])
        /\ ReIndex(r, fetched[r])
        /\ loaded_at' = [loaded_at EXCEPT ![r] = fetched[r][1].at]
        /\ overtaken' = (overtaken \cup {q \in Runners : pc[q] = "loading"}) \ {r}
        /\ since' = [q \in Runners |-> IF q = r \/ pc[q] = "ended" THEN {}
                                      ELSE since[q] \cup {fetched[r][1].at}]
  BY DEF Replace, Becomes
<1> HIDE DEF blocked
<1>4. CASE blocked
  <2>1. ASSUME NEW q \in Runners PROVE RunnerInv(q)'
    BY <1>1, <1>2, <1>4, RunnerEnds
  <2>2. QED
    BY <1>1, <1>2, <1>4, <2>1 DEF CacheInv, CacheTyped
<1>5. CASE ~blocked
  <2>1. /\ IsList(fetched[r]) /\ fetched[r][1].at \in 0 .. MaxTime /\ 1 \in DOMAIN fetched[r]
        /\ \A i \in Range(fetched[r]) : i \in Instruments /\ i.at = fetched[r][1].at
        /\ \A i, j \in Range(fetched[r]) : FromOneDump({i, j})
    BY <1>1, FetchedIsListed DEF CacheInv
  <2>2. subscribed'[r] = {} /\ outside'[r] = {}
    BY <1>1 DEF CacheInv, RunnerInv, NothingAsked
  <2>3. /\ by_symbol' \in [Runners -> [Symbols -> Instruments \cup {None}]]
        /\ by_token' \in [Runners -> [Tokens -> Instruments \cup {None}]]
        /\ CacheAgrees(r)' /\ SubscribedKnown(r)' /\ MasterOf(r)' \subseteq Range(fetched[r])
        /\ Seen(r)' \subseteq Range(fetched[r]) \cup rows'
    BY <1>3, <1>5, <2>1, <2>2, ReIndexed DEF CacheInv
  <2>4. rows' = Range(fetched[r])
    BY <1>5, ReplacesAll DEF blocked
  <2>5. rows' \subseteq Instruments /\ rows' # {}
    BY <2>1, <2>4 DEF Range
  <2>6. since' \in [Runners -> SUBSET (0 .. MaxTime)]
    <3> DEFINE Times == 0 .. MaxTime
    <3> HIDE DEF Times
    <3>1. since \in [Runners -> SUBSET Times] /\ fetched[r][1].at \in Times
      BY <2>1 DEF Times, CacheInv, CacheTyped
    <3>2. since' \in [Runners -> SUBSET Times]
      BY <1>3, <1>5, <3>1
    <3>3. QED
      BY <3>2 DEF Times
  <2>7. CacheTyped'
    BY <1>1, <1>3, <1>5, <2>1, <2>3, <2>5, <2>6 DEF CacheInv, CacheTyped
  <2>8. pc'[r] = "resolving" /\ loaded_at'[r] = fetched[r][1].at /\ r \notin overtaken'
    BY <1>3, <1>5 DEF CacheInv, CacheTyped, MasterInv, Typed
  <2>9. RunnerInv(r)'
    <3>1. fetched[r][1].at # None
      BY <2>1, NoneAssumption
    <3>2. StampIsTrue(r)' /\ OvertakenRuns(r)' /\ NothingAsked(r)'
      BY <2>1, <2>3, <2>8, <3>1 DEF StampIsTrue, OvertakenRuns, NothingAsked
    <3>3. OneMaster(r)'
      BY <2>1, <2>3, <2>4 DEF OneMaster
    <3>4. QED
      BY <2>3, <3>2, <3>3 DEF RunnerInv
  <2>10. ASSUME NEW q \in Runners, q # r PROVE RunnerInv(q)'
    <3>1. /\ by_symbol'[q] = by_symbol[q] /\ by_token'[q] = by_token[q] /\ pc'[q] = pc[q]
          /\ loaded_at'[q] = loaded_at[q]
      BY <1>3, <1>5, <2>10 DEF ReIndex, CacheInv, CacheTyped, MasterInv, Typed
    <3>2. CASE pc[q] = "ended"
      <4>1. q \notin overtaken'
        BY <1>3, <1>5, <3>2 DEF CacheInv, RunnerInv, OvertakenRuns
      <4>2. QED
        BY <1>1, <3>1, <3>2, <4>1, RunnerUnmoved DEF CacheInv
    <3>3. CASE pc[q] # "ended"
      <4>1. since'[q] = since[q] \cup {fetched[r][1].at}
        BY <1>3, <1>5, <2>10, <3>3
      <4>2. \A i \in rows' : i.at \in since'[q]
        BY <2>1, <2>4, <4>1
      <4>3. IF pc[q] = "loading" THEN q \in overtaken' ELSE q \in overtaken' <=> q \in overtaken
        BY <1>3, <1>5, <2>10
      <4>4. Passed(q)
        BY <2>5, <4>1, <4>2, <4>3 DEF Passed
      <4>5. QED
        BY <1>1, <3>1, <3>3, <4>4, RunnerStays DEF CacheInv
    <3>4. QED
      BY <3>2, <3>3
  <2>11. QED
    BY <2>7, <2>9, <2>10 DEF CacheInv
<1>6. QED
  BY <1>4, <1>5

(* An entry found in the cache is subscribed with a token the cache knows; *)
(* one found in the table is marked.                                       *)
LEMMA ResolveKeepsCache ==
  ASSUME MasterInv, CacheInv, NEW r \in Runners, Resolve(r)
  PROVE  CacheInv'
<1> USE DEF CacheInv, CacheTyped
<1>1. /\ pc[r] = "resolving" /\ pc' = pc /\ now' = now /\ rows' = rows /\ by_token' = by_token
      /\ loaded_at' = loaded_at /\ overtaken' = overtaken /\ since' = since
  BY DEF Resolve
<1>2. PICK s \in Universe \ asked[r] :
        /\ asked' = [asked EXCEPT ![r] = asked[r] \cup {s}]
        /\ \/ /\ by_symbol[r][s] # None
              /\ subscribed' = [subscribed EXCEPT ![r] = subscribed[r] \cup {by_symbol[r][s]}]
              /\ by_symbol' = by_symbol /\ outside' = outside
           \/ /\ InTable(s) # {}
              /\ by_symbol' = [by_symbol EXCEPT ![r] =
                                 [by_symbol[r] EXCEPT ![s] = CHOOSE i \in InTable(s) : TRUE]]
              /\ subscribed' = [subscribed EXCEPT ![r] = subscribed[r] \cup InTable(s)]
              /\ outside' = [outside EXCEPT ![r] = outside[r] \cup {s}]
           \/ by_symbol' = by_symbol /\ subscribed' = subscribed /\ outside' = outside
  BY DEF Resolve
<1>3. s \in Symbols /\ asked' \in [Runners -> SUBSET Symbols]
  BY <1>2, MasterAssumption
<1>4. \A j : TokenKnown(r, j) => TokenKnown(r, j)'
  BY <1>1 DEF TokenKnown, FromOneDump
<1>5. ASSUME NEW q \in Runners, q # r PROVE RunnerInv(q)'
  <2>1. /\ by_symbol'[q] = by_symbol[q] /\ subscribed'[q] = subscribed[q]
        /\ outside'[q] = outside[q] /\ Passed(q)
    BY <1>1, <1>2, <1>5 DEF Passed
  <2>2. QED
    BY <1>1, <2>1, RunnerStays
<1>6. CASE /\ by_symbol[r][s] # None
           /\ subscribed' = [subscribed EXCEPT ![r] = subscribed[r] \cup {by_symbol[r][s]}]
           /\ by_symbol' = by_symbol /\ outside' = outside
  <2>1. by_symbol[r][s] \in Instruments /\ subscribed'[r] = subscribed[r] \cup {by_symbol[r][s]}
    BY <1>3, <1>6
  <2>2. CacheTyped'
    BY <1>1, <1>3, <1>6, <2>1
  <2>3. NothingAsked(r)' /\ CacheAgrees(r)'
    BY <1>4, <1>1, <1>6 DEF RunnerInv, NothingAsked, CacheAgrees
  <2>4. SubscribedKnown(r)'
    <3>1. \/ by_symbol[r][s].symbol \in outside[r]
          \/ TokenKnown(r, by_symbol[r][s])
      BY <1>3, <1>6 DEF RunnerInv, CacheAgrees
    <3>2. \A j \in subscribed[r] : j.symbol \in outside[r] \/ TokenKnown(r, j)
      BY DEF RunnerInv, SubscribedKnown
    <3>3. QED
      BY <1>4, <1>6, <2>1, <3>1, <3>2 DEF SubscribedKnown
  <2>5. MasterOf(r)' \subseteq MasterOf(r)
    BY <1>1, <1>6, <2>1 DEF MasterOf, LookedUp
  <2>6. StampIsTrue(r)' /\ OvertakenRuns(r)'
    BY <1>1, <2>5 DEF RunnerInv, StampIsTrue, OvertakenRuns
  <2>7. OneMaster(r)'
    <3>1. Seen(r)' \subseteq Seen(r)
      BY <1>1, <1>3, <1>6, <2>1 DEF Seen
    <3>2. QED
      BY <1>1, <3>1 DEF RunnerInv, OneMaster
  <2>8. QED
    BY <1>5, <2>2, <2>3, <2>4, <2>6, <2>7 DEF RunnerInv
<1>7. CASE /\ InTable(s) # {}
           /\ by_symbol' = [by_symbol EXCEPT ![r] =
                              [by_symbol[r] EXCEPT ![s] = CHOOSE i \in InTable(s) : TRUE]]
           /\ subscribed' = [subscribed EXCEPT ![r] = subscribed[r] \cup InTable(s)]
           /\ outside' = [outside EXCEPT ![r] = outside[r] \cup {s}]
  <2>1. PICK found \in InTable(s) :
          by_symbol' = [by_symbol EXCEPT ![r] = [by_symbol[r] EXCEPT ![s] = found]]
    BY <1>7
  <2>2. /\ \A i \in InTable(s) : i \in Instruments /\ i.symbol = s
        /\ found \in Instruments /\ found.symbol = s
    BY <2>1 DEF InTable
  <2>3. /\ by_symbol'[r] = [by_symbol[r] EXCEPT ![s] = found]
        /\ subscribed'[r] = subscribed[r] \cup InTable(s)
        /\ outside'[r] = outside[r] \cup {s}
    BY <1>7, <2>1
  <2>4. CacheTyped'
    BY <1>1, <1>3, <1>7, <2>1, <2>2, <2>3
  <2>5. NothingAsked(r)'
    BY <1>1 DEF RunnerInv, NothingAsked
  <2>6. CacheAgrees(r)'
    <3>1. \A x \in Symbols : by_symbol'[r][x] = IF x = s THEN found ELSE by_symbol[r][x]
      BY <1>3, <2>3
    <3>2. QED
      BY <1>4, <2>2, <2>3, <3>1 DEF RunnerInv, CacheAgrees
  <2>7. SubscribedKnown(r)'
    BY <1>4, <2>2, <2>3 DEF RunnerInv, SubscribedKnown
  <2>8. MasterOf(r)' \subseteq MasterOf(r)
    <3>1. LookedUp(r) \subseteq LookedUp(r)'
      BY <2>3 DEF LookedUp
    <3>2. \A x \in Symbols : x # s => by_symbol'[r][x] = by_symbol[r][x]
      BY <2>3
    <3>3. QED
      BY <1>1, <2>3, <3>1, <3>2 DEF MasterOf
  <2>9. StampIsTrue(r)' /\ OvertakenRuns(r)'
    BY <1>1, <2>8 DEF RunnerInv, StampIsTrue, OvertakenRuns
  <2>10. OneMaster(r)'
    <3>1. InTable(s) \subseteq rows \ {None} /\ found \in rows /\ found # None
      BY <2>1, <2>2, NoneAssumption DEF InTable
    <3>2. Seen(r)' \subseteq Seen(r)
      BY <1>1, <1>3, <2>3, <3>1 DEF Seen
    <3>3. QED
      BY <1>1, <3>2 DEF RunnerInv, OneMaster
  <2>11. QED
    BY <1>5, <2>4, <2>5, <2>6, <2>7, <2>9, <2>10 DEF RunnerInv
<1>8. CASE by_symbol' = by_symbol /\ subscribed' = subscribed /\ outside' = outside
  <2>1. CacheTyped'
    BY <1>1, <1>3, <1>8
  <2>2. RunnerInv(r)'
    BY <1>1, <1>8, RunnerStays DEF Passed
  <2>3. QED
    BY <1>5, <2>1, <2>2
<1>9. QED
  BY <1>2, <1>6, <1>7, <1>8

(* Only a token that came with an entry found in the table is looked up.   *)
LEMMA LookUpKeepsCache ==
  ASSUME MasterInv, CacheInv, NEW r \in Runners, LookUpToken(r)
  PROVE  CacheInv'
<1> USE DEF CacheInv, CacheTyped
<1>1. /\ pc[r] = "serving" /\ now' = now /\ rows' = rows /\ by_symbol' = by_symbol
      /\ loaded_at' = loaded_at
      /\ asked' = asked /\ subscribed' = subscribed /\ outside' = outside
  BY DEF LookUpToken
<1>2. PICK i \in subscribed[r] :
        /\ by_token[r][i.token] = None /\ HoldersOf(i.token) # {}
        /\ \/ /\ by_token' = [by_token EXCEPT ![r] =
                               [by_token[r] EXCEPT ![i.token] = CHOOSE j \in HoldersOf(i.token) : TRUE]]
              /\ pc' = pc /\ overtaken' = overtaken /\ since' = since
           \/ /\ by_token' = by_token /\ pc' = [pc EXCEPT ![r] = "ended"]
              /\ overtaken' = overtaken \ {r} /\ since' = [since EXCEPT ![r] = {}]
  BY DEF LookUpToken, Leave, Becomes
<1>3. i.token \in Tokens
  BY DEF Instruments
<1>4. CASE /\ by_token' = [by_token EXCEPT ![r] =
                            [by_token[r] EXCEPT ![i.token] = CHOOSE j \in HoldersOf(i.token) : TRUE]]
           /\ pc' = pc /\ overtaken' = overtaken /\ since' = since
  <2>1. PICK holder \in HoldersOf(i.token) :
          by_token' = [by_token EXCEPT ![r] = [by_token[r] EXCEPT ![i.token] = holder]]
    BY <1>2, <1>4
  <2>2. holder \in Instruments /\ holder \in rows /\ holder # None
    BY NoneAssumption DEF HoldersOf
  <2>3. by_token'[r] = [by_token[r] EXCEPT ![i.token] = holder]
    BY <2>1
  <2>4. CacheTyped'
    <3>1. by_token' \in [Runners -> [Tokens -> Instruments \cup {None}]]
      BY <1>3, <2>1, <2>2
    <3>2. QED
      BY <1>1, <1>4, <3>1
  <2>5. i.symbol \in outside[r]
    BY <1>2 DEF RunnerInv, SubscribedKnown, TokenKnown
  <2>6. \A t \in Tokens : t # i.token => by_token'[r][t] = by_token[r][t]
    BY <1>3, <2>3
  <2>7. ASSUME NEW j \in Instruments, TokenKnown(r, j) PROVE TokenKnown(r, j)'
    <3>1. j.token # i.token /\ j.token \in Tokens
      BY <1>2, <2>7 DEF TokenKnown, Instruments
    <3>2. QED
      BY <2>6, <2>7, <3>1 DEF TokenKnown, FromOneDump
  <2>8. NothingAsked(r)' /\ CacheAgrees(r)' /\ SubscribedKnown(r)'
    BY <1>1, <1>4, <2>7 DEF RunnerInv, NothingAsked, CacheAgrees, SubscribedKnown
  <2>9. MasterOf(r)' \subseteq MasterOf(r)
    <3>1. i.token \in LookedUp(r) /\ LookedUp(r)' = LookedUp(r)
      BY <1>1, <2>5 DEF LookedUp
    <3>2. QED
      BY <1>1, <2>6, <3>1 DEF MasterOf
  <2>10. StampIsTrue(r)' /\ OvertakenRuns(r)'
    BY <1>1, <1>4, <2>9 DEF RunnerInv, StampIsTrue, OvertakenRuns
  <2>11. OneMaster(r)'
    <3>1. Seen(r)' \subseteq Seen(r)
      BY <1>1, <1>3, <2>2, <2>3 DEF Seen
    <3>2. QED
      BY <1>1, <1>4, <3>1 DEF RunnerInv, OneMaster
  <2>12. ASSUME NEW q \in Runners, q # r PROVE RunnerInv(q)'
    <3>1. by_token'[q] = by_token[q]
      BY <2>1, <2>12
    <3>2. QED
      BY <1>1, <1>4, <3>1, RunnerStays DEF Passed
  <2>13. QED
    BY <2>4, <2>8, <2>10, <2>11, <2>12 DEF RunnerInv
<1>5. CASE /\ by_token' = by_token /\ pc' = [pc EXCEPT ![r] = "ended"]
           /\ overtaken' = overtaken \ {r} /\ since' = [since EXCEPT ![r] = {}]
  <2>1. ASSUME NEW q \in Runners PROVE RunnerInv(q)'
    BY <1>1, <1>5, RunnerEnds
  <2>2. QED
    BY <1>1, <1>5, <2>1
<1>6. QED
  BY <1>2, <1>4, <1>5

LEMMA CacheInvInductive == MasterInv /\ CacheInv /\ [Next]_vars => CacheInv'
<1> SUFFICES ASSUME MasterInv, CacheInv, [Next]_vars PROVE CacheInv'
  OBVIOUS
<1>1. CASE UNCHANGED vars
  <2>1. ASSUME NEW q \in Runners PROVE RunnerInv(q)'
    BY <1>1, RunnerStays DEF vars, cache_vars, CacheInv, Passed
  <2>2. QED
    BY <1>1, <2>1 DEF vars, cache_vars, CacheInv, CacheTyped
<1>2. CASE AdvanceClock
  <2>1. ASSUME NEW q \in Runners PROVE RunnerInv(q)'
    BY <1>2, RunnerStays DEF AdvanceClock, cache_vars, CacheInv, Passed
  <2>2. now' \in 0 .. MaxTime
    BY <1>2, MasterAssumption DEF AdvanceClock, CacheInv, CacheTyped
  <2>3. QED
    BY <1>2, <2>1, <2>2 DEF AdvanceClock, cache_vars, CacheInv, CacheTyped
<1>3. ASSUME NEW r \in Runners, EndRun(r)
      PROVE  CacheInv'
  <2>1. /\ pc[r] # "ended" /\ pc' = [pc EXCEPT ![r] = "ended"]
        /\ overtaken' = overtaken \ {r} /\ since' = [since EXCEPT ![r] = {}]
        /\ now' = now /\ rows' = rows /\ by_symbol' = by_symbol /\ by_token' = by_token
        /\ loaded_at' = loaded_at /\ asked' = asked
        /\ subscribed' = subscribed /\ outside' = outside
    BY <1>3 DEF EndRun, Leave, Becomes, cache_vars
  <2>2. ASSUME NEW q \in Runners PROVE RunnerInv(q)'
    BY <2>1, RunnerEnds
  <2>3. QED
    BY <2>1, <2>2 DEF CacheInv, CacheTyped
<1>4. ASSUME NEW r \in Runners,
             \/ SkipRefresh(r) \/ BeginRefresh(r) \/ ReceiveDump(r) \/ RefreshFails(r)
             \/ BeginReplace(r) \/ Subscribe(r)
      PROVE  CacheInv'
  <2>1. /\ now' = now /\ rows' = rows /\ by_symbol' = by_symbol /\ by_token' = by_token
        /\ loaded_at' = loaded_at /\ overtaken' = overtaken /\ since' = since
        /\ asked' = asked /\ subscribed' = subscribed /\ outside' = outside
    BY <1>4 DEF SkipRefresh, BeginRefresh, ReceiveDump, RefreshFails, BeginReplace, Subscribe,
                cache_vars
  <2>2. \/ /\ pc[r] \in {"loaded", "fetching", "received"}
           /\ \E state \in {"fetching", "received", "storing", "resolving"} :
                pc' = [pc EXCEPT ![r] = state]
        \/ pc[r] = "resolving" /\ pc' = [pc EXCEPT ![r] = "serving"]
    BY <1>4 DEF SkipRefresh, BeginRefresh, ReceiveDump, RefreshFails, BeginReplace, Subscribe,
                Becomes
  <2>3. ASSUME NEW q \in Runners PROVE RunnerInv(q)'
    <3>1. /\ pc'[q] = "loading" <=> pc[q] = "loading"
          /\ pc'[q] \in {"loaded", "fetching", "received", "storing"} =>
               pc[q] \in {"loaded", "fetching", "received", "storing"}
          /\ pc'[q] = "ended" <=> pc[q] = "ended"
      BY <2>2 DEF MasterInv, Typed
    <3>2. Passed(q) /\ (pc[q] = "ended" => q \notin overtaken')
      BY <2>1 DEF Passed, CacheInv, RunnerInv, OvertakenRuns
    <3>3. QED
      BY <2>1, <3>1, <3>2, RunnerUnmoved DEF CacheInv
  <2>4. QED
    BY <2>1, <2>3 DEF CacheInv, CacheTyped
<1>5. QED
  BY <1>1, <1>2, <1>3, <1>4, LoadKeepsCache, StampKeepsCache, ReplaceKeepsCache, ResolveKeepsCache,
     LookUpKeepsCache DEF Next

THEOREM CachesAreConsistent == Spec => [](MasterInv /\ CacheInv)
<1>1. Init => CacheInv
  <2> SUFFICES ASSUME Init PROVE CacheInv
    OBVIOUS
  <2>1. CacheTyped
    BY MasterAssumption DEF Init, CacheTyped
  <2>2. ASSUME NEW r \in Runners PROVE RunnerInv(r)
    BY DEF Init, RunnerInv, NothingAsked, CacheAgrees, SubscribedKnown, StampIsTrue,
           OvertakenRuns, OneMaster
  <2>3. QED
    BY <2>1, <2>2 DEF CacheInv
<1>2. QED
  BY <1>1, InitialMaster, MasterInvInductive, CacheInvInductive, PTL DEF Spec

(* A runner that takes its master for fresh has a recent one, whichever    *)
(* refreshes replace the table, in whatever order they commit; after a     *)
(* load_from_repository whose two reads they came between, a recent one    *)
(* was stored between these.                                               *)
THEOREM FreshIsRecent == Spec => []FreshMeansRecent
<1>1. CacheInv => FreshMeansRecent
  <2> SUFFICES ASSUME CacheInv, NEW r \in Runners,
                      pc[r] \in {"loaded", "resolving", "serving"}, ~is_stale(r)
               PROVE  \/ \A i \in MasterOf(r) : now - i.at <= MaxAge
                      \/ r \in overtaken /\ \E at \in since[r] : now - at <= MaxAge
    BY DEF FreshMeansRecent
  <2>1. loaded_at[r] # None => ~ (now - loaded_at[r] > MaxAge)
    BY DEF is_stale, Stamp, Stale
  <2>2. now \in Nat /\ MaxAge \in Nat /\ (loaded_at[r] # None => loaded_at[r] \in Nat)
    BY MasterAssumption DEF CacheInv, CacheTyped
  <2>3. loaded_at[r] # None => now - loaded_at[r] <= MaxAge
    BY <2>1, <2>2
  <2>4. CASE r \notin overtaken
    BY <2>3, <2>4 DEF CacheInv, RunnerInv, StampIsTrue
  <2>5. CASE r \in overtaken
    BY <2>3, <2>5 DEF CacheInv, RunnerInv, StampIsTrue
  <2>6. QED
    BY <2>4, <2>5
<1>2. QED
  BY <1>1, CachesAreConsistent, PTL

(* Although tokens are reissued, a tick goes to the entry its token was    *)
(* subscribed for, if the runner's own master has it and not two of one    *)
(* token; one found in the table alone may go astray, but only after       *)
(* another runner's refresh.                                               *)
THEOREM TicksAreAttributed == Spec => []TicksCarryTheirSymbol
<1>1. CacheInv => TicksCarryTheirSymbol
  <2> SUFFICES ASSUME CacheInv, NEW r \in Runners, pc[r] = "serving", NEW i \in subscribed[r],
                      by_token[r][i.token] # None
               PROVE  \/ FromOneDump({by_token[r][i.token], i})
                      \/ /\ i.symbol \in outside[r]
                         /\ {by_token[r][i.token].at, i.at} \cap since[r] # {}
    BY DEF TicksCarryTheirSymbol
  <2>1. CASE i.symbol \notin outside[r]
    BY <2>1 DEF CacheInv, RunnerInv, SubscribedKnown, TokenKnown
  <2>2. CASE i.symbol \in outside[r]
    <3>1. i \in Seen(r) /\ by_token[r][i.token] \in Seen(r)
      BY NoneAssumption DEF Seen, CacheInv, CacheTyped, Instruments
    <3>2. QED
      BY <2>2, <3>1 DEF CacheInv, RunnerInv, OneMaster
  <2>3. QED
    BY <2>1, <2>2
<1>2. QED
  BY <1>1, CachesAreConsistent, PTL
=============================================================================
