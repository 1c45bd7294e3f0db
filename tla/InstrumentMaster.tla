-------------------------- MODULE InstrumentMaster --------------------------
(***************************************************************************)
(* The instrument master (services/instrument_master.py) as the streaming  *)
(* runners use it (runtime/market_data.py): each runner loads the stored   *)
(* master, refreshes it when it is stale, resolves the universe against    *)
(* its own cache and attributes ticks to instruments until it ends.        *)
(* Several runners share one table.                                        *)
(*                                                                         *)
(* An instrument is [symbol, token, at]: `at' is its retrieved_at.  The    *)
(* symbol identifies it, the token may be reissued to another symbol.      *)
(***************************************************************************)
EXTENDS SequencesExt

CONSTANTS
  Runners,      (* processes: a new run of one begins where its last ended  *)
  Symbols, Tokens,
  Universe,     (* market_data_universe, parsed                             *)
  Dumps,        (* the dumps the broker may publish: sequences of           *)
                (* [symbol, token]                                          *)
  limit,        (* of all_instruments                                       *)
  MaxAge,       (* max_age                                                  *)
  MaxTime,      (* bound: the clock stops here                              *)
  None

ASSUME MasterAssumption ==
  /\ Universe \subseteq Symbols
  /\ Dumps \subseteq Seq([symbol : Symbols, token : Tokens])
  /\ limit \in Nat /\ MaxAge \in Nat /\ MaxTime \in Nat

Instruments == [symbol : Symbols, token : Tokens, at : 0 .. MaxTime]

ASSUME NoneAssumption == None \notin Instruments \cup 0 .. MaxTime

VARIABLES
  now,          (* the clock, which all processes share                     *)
  published,    (* the dump the broker serves                               *)
  rows,         (* the instrument table: a set of instruments               *)
  writers,      (* the open replacing transactions, by the order of their   *)
                (* DELETEs                                                  *)
  pc,
  by_symbol,    (* _by_symbol                                               *)
  by_token,     (* _by_token                                                *)
  loaded_at,    (* _loaded_at                                               *)
  fetched,      (* the dump a refresh is about to store                     *)
  asked,        (* the universe entries resolve has looked up               *)
  subscribed,   (* the instruments it found for them                        *)
  superseded,   (* runners whose DELETE came before another one's commit    *)
  overtaken,    (* history: the table was replaced between the two reads of *)
                (* load_from_repository                                     *)
  outside,      (* history: universe entries found in the table only        *)
  since         (* history: the ages of the masters that other runners have *)
                (* stored since this one read or stored its own             *)

cache_vars == <<by_symbol, by_token, loaded_at>>
vars == <<now, published, rows, writers, pc, cache_vars, fetched, asked, subscribed,
          superseded, overtaken, outside, since>>

-----------------------------------------------------------------------------
(* validate_instruments: a repeated token is reported, and accepted.       *)
is_usable(dump) ==
  /\ dump # <<>>
  /\ \A i, j \in DOMAIN dump : dump[i].symbol = dump[j].symbol => i = j

(* Whatever else they hold, two dumps of the exchange that can be used     *)
(* share a symbol (an index, say).                                         *)
ASSUME ExchangeAssumption ==
  \A d, e \in Dumps :
    is_usable(d) /\ is_usable(e) => \E i \in DOMAIN d, j \in DOMAIN e : d[i].symbol = e[j].symbol

Retrieved(dump) ==
  [i \in DOMAIN dump |-> [symbol |-> dump[i].symbol, token |-> dump[i].token, at |-> now]]

(* _index: of two instruments with one key, the last in the list.          *)
LastOf(list, Fits(_)) ==
  IF \E i \in DOMAIN list : Fits(list[i])
  THEN list[Max({i \in DOMAIN list : Fits(list[i])})]
  ELSE None

IndexBySymbol(list) == [s \in Symbols |-> LastOf(list, LAMBDA i : i.symbol = s)]
BUG_TokensIndexedOnce(r, list) ==
  [t \in Tokens |-> IF by_token[r][t] # None THEN by_token[r][t]
                    ELSE LastOf(list, LAMBDA i : i.token = t)]
IndexByToken(r, list) == [t \in Tokens |-> LastOf(list, LAMBDA i : i.token = t)]

(* all_instruments has no order, so the table comes as any list of it, and *)
(* of a table that is larger than the limit as a list of any part.         *)
Listings(table) ==
  UNION {SetToSeqs(part) : part \in kSubset(Min({limit, Cardinality(table)}), table)}

BUG_RetrievedNow(table) == IF table = {} THEN None ELSE now
instruments_retrieved_at(table) == IF table = {} THEN None ELSE Max({i.at : i \in table})

Stamp(loaded, table) == IF loaded # None THEN loaded ELSE instruments_retrieved_at(table)
Stale(stamp, moment) == IF stamp = None THEN TRUE ELSE moment - stamp > MaxAge
is_stale(r) == Stale(Stamp(loaded_at[r], rows), now)

-----------------------------------------------------------------------------
Init ==
  /\ now = 0
  /\ published \in Dumps
  /\ rows = {}
  /\ writers = <<>>
  /\ pc = [r \in Runners |-> "ended"]
  /\ by_symbol = [r \in Runners |-> [s \in Symbols |-> None]]
  /\ by_token = [r \in Runners |-> [t \in Tokens |-> None]]
  /\ loaded_at = [r \in Runners |-> None]
  /\ fetched = [r \in Runners |-> <<>>]
  /\ asked = [r \in Runners |-> {}]
  /\ subscribed = [r \in Runners |-> {}]
  /\ superseded = {}
  /\ overtaken = {}
  /\ outside = [r \in Runners |-> {}]
  /\ since = [r \in Runners |-> {}]

Becomes(r, state) == pc' = [pc EXCEPT ![r] = state]

ReIndex(r, list) ==
  /\ by_symbol' = [by_symbol EXCEPT ![r] = IndexBySymbol(list)]
  /\ by_token' = [by_token EXCEPT ![r] = IndexByToken(r, list)]

(* The end of a process by itself, by a signal or by an exception: its     *)
(* transaction, if one is open, is rolled back.                            *)
Leave(r) ==
  /\ Becomes(r, "ended")
  /\ writers' = Remove(writers, r)
  /\ superseded' = superseded \ {r}
  /\ overtaken' = overtaken \ {r}
  /\ since' = [since EXCEPT ![r] = {}]

(* build_service, a new master with the instruments the table holds.       *)
LoadInstruments(r) ==
  /\ pc[r] = "ended"
  /\ Becomes(r, "loading")
  /\ \E list \in Listings(rows) : ReIndex(r, list)
  /\ loaded_at' = [loaded_at EXCEPT ![r] = None]
  /\ asked' = [asked EXCEPT ![r] = {}]
  /\ subscribed' = [subscribed EXCEPT ![r] = {}]
  /\ fetched' = [fetched EXCEPT ![r] = <<>>]
  /\ outside' = [outside EXCEPT ![r] = {}]
  /\ UNCHANGED <<now, published, rows, writers, superseded, overtaken, since>>

(* The second transaction of load_from_repository.                         *)
LoadStamp(r) ==
  /\ pc[r] = "loading"
  /\ Becomes(r, "loaded")
  /\ loaded_at' = [loaded_at EXCEPT ![r] = instruments_retrieved_at(rows)]
  /\ UNCHANGED <<now, published, rows, writers, by_symbol, by_token, fetched,
                 asked, subscribed, superseded, overtaken, outside, since>>

(* _refresh_instruments finds the master fresh, or --no-refresh is given,  *)
(* or the provider has no client to refresh with.                          *)
SkipRefresh(r) ==
  /\ pc[r] = "loaded"
  /\ Becomes(r, "resolving")
  /\ UNCHANGED <<now, published, rows, writers, cache_vars, fetched, asked, subscribed,
                 superseded, overtaken, outside, since>>

BeginRefresh(r) ==
  /\ pc[r] = "loaded"
  /\ is_stale(r)
  /\ Becomes(r, "fetching")
  /\ UNCHANGED <<now, published, rows, writers, cache_vars, fetched, asked, subscribed,
                 superseded, overtaken, outside, since>>

(* A dump that can be used, with the moment it was retrieved.              *)
ReceiveDump(r) ==
  /\ pc[r] = "fetching"
  /\ is_usable(published)
  /\ Becomes(r, "received")
  /\ fetched' = [fetched EXCEPT ![r] = Retrieved(published)]
  /\ UNCHANGED <<now, published, rows, writers, cache_vars, asked, subscribed, superseded,
                 overtaken, outside, since>>

(* replace_instruments has a session: the DELETE goes out.                 *)
BeginReplace(r) ==
  /\ pc[r] = "received"
  /\ Becomes(r, "storing")
  /\ writers' = Append(writers, r)
  /\ UNCHANGED <<now, published, rows, cache_vars, fetched, asked, subscribed, superseded,
                 overtaken, outside, since>>

(* "a cached master is still better than no market data at all"            *)
RefreshFails(r) ==
  /\ pc[r] = "fetching"
  /\ Becomes(r, "resolving")
  /\ UNCHANGED <<now, published, rows, writers, cache_vars, fetched, asked, subscribed,
                 superseded, overtaken, outside, since>>

(* replace_instruments.  The first DELETE locks the rows; one that waits   *)
(* for it removes the rows it saw at its own start, not the new ones, and  *)
(* what is inserted after it meets uq_instrument_symbol.                   *)
BUG_Kept(r) == rows
Kept(r) == IF r \in superseded THEN rows ELSE {}

Replace(r) ==
  /\ pc[r] = "storing"
  /\ Head(writers) = r
  /\ LET incoming == Range(fetched[r])
         retrieved_at == fetched[r][1].at
     IN  IF r \in superseded /\ \E i \in rows, j \in incoming : i.symbol = j.symbol
         THEN /\ Leave(r)
              /\ UNCHANGED <<rows, cache_vars>>
         ELSE /\ rows' = Kept(r) \cup incoming
              /\ writers' = Tail(writers)
              /\ superseded' = (superseded \cup Range(Tail(writers))) \ {r}
              /\ overtaken' = (overtaken \cup {q \in Runners : pc[q] = "loading"}) \ {r}
              /\ since' = [q \in Runners |-> IF q = r \/ pc[q] = "ended" THEN {}
                                            ELSE since[q] \cup {retrieved_at}]
              /\ ReIndex(r, fetched[r])
              /\ loaded_at' = [loaded_at EXCEPT ![r] = retrieved_at]
              /\ Becomes(r, "resolving")
  /\ fetched' = [fetched EXCEPT ![r] = <<>>]
  /\ UNCHANGED <<now, published, asked, subscribed, outside>>

(* resolve_universe asks by_symbol for each entry: the cache, or else the  *)
(* table, in a transaction of its own, whose answer is cached.             *)
InTable(s) == {i \in rows : i.symbol = s}

Resolve(r) ==
  /\ pc[r] = "resolving"
  /\ \E s \in Universe \ asked[r] :
       /\ asked' = [asked EXCEPT ![r] = @ \cup {s}]
       /\ LET found == InTable(s)
          IN  CASE by_symbol[r][s] # None ->
                     /\ subscribed' = [subscribed EXCEPT ![r] = @ \cup {by_symbol[r][s]}]
                     /\ UNCHANGED <<by_symbol, outside>>
                [] by_symbol[r][s] = None /\ found # {} ->
                     /\ by_symbol' = [by_symbol EXCEPT ![r] = [@ EXCEPT ![s] = CHOOSE i \in found : TRUE]]
                     /\ subscribed' = [subscribed EXCEPT ![r] = @ \cup found]
                     /\ outside' = [outside EXCEPT ![r] = @ \cup {s}]
                [] by_symbol[r][s] = None /\ found = {} ->
                     UNCHANGED <<by_symbol, subscribed, outside>>
  /\ UNCHANGED <<now, published, rows, writers, pc, by_token, loaded_at, fetched,
                 superseded, overtaken, since>>

(* subscribe_universe; a universe that resolves to nothing is served, too. *)
Subscribe(r) ==
  /\ pc[r] = "resolving"
  /\ asked[r] = Universe
  /\ Becomes(r, "serving")
  /\ UNCHANGED <<now, published, rows, writers, cache_vars, fetched, asked, subscribed,
                 superseded, overtaken, outside, since>>

(* A tick of a subscribed token the cache does not know (one it knows      *)
(* changes nothing): scalar_one_or_none raises if the table has it twice.  *)
HoldersOf(token) == {i \in rows : i.token = token}

LookUpToken(r) ==
  /\ pc[r] = "serving"
  /\ \E i \in subscribed[r] :
       LET found == HoldersOf(i.token)
       IN  /\ by_token[r][i.token] = None
           /\ found # {}
           /\ IF Cardinality(found) = 1
              THEN /\ by_token' = [by_token EXCEPT ![r] = [@ EXCEPT ![i.token] = CHOOSE j \in found : TRUE]]
                   /\ UNCHANGED <<writers, pc, superseded, overtaken, since>>
              ELSE /\ Leave(r)
                   /\ UNCHANGED by_token
  /\ UNCHANGED <<now, published, rows, by_symbol, loaded_at, fetched, asked, subscribed,
                 outside>>

(* Killed, or the run is over.                                             *)
EndRun(r) ==
  /\ pc[r] # "ended"
  /\ Leave(r)
  /\ fetched' = [fetched EXCEPT ![r] = <<>>]
  /\ UNCHANGED <<now, published, rows, cache_vars, asked, subscribed, outside>>

(* The broker may publish another dump every day.                          *)
AdvanceClock ==
  /\ now < MaxTime
  /\ now' = now + 1
  /\ published' \in Dumps
  /\ UNCHANGED <<rows, writers, pc, cache_vars, fetched, asked, subscribed, superseded,
                 overtaken, outside, since>>

Next ==
  \/ AdvanceClock
  \/ \E r \in Runners :
       \/ LoadInstruments(r) \/ LoadStamp(r)
       \/ SkipRefresh(r) \/ BeginRefresh(r) \/ ReceiveDump(r) \/ RefreshFails(r)
       \/ BeginReplace(r) \/ Replace(r)
       \/ Resolve(r) \/ Subscribe(r) \/ LookUpToken(r) \/ EndRun(r)

Spec == Init /\ [][Next]_vars

-----------------------------------------------------------------------------
(* What a runner's master was loaded or refreshed with: its cache without  *)
(* what it looked up in the table afterwards.                              *)
LookedUp(r) == {i.token : i \in {j \in subscribed[r] : j.symbol \in outside[r]}}
MasterOf(r) ==
  ({by_symbol[r][s] : s \in Symbols \ outside[r]}
     \cup {by_token[r][t] : t \in Tokens \ LookedUp(r)}) \ {None}

(* "knowing when it has gone stale": a runner that takes its master for    *)
(* fresh has no instrument in it older than the limit, however loads,      *)
(* refreshes and deaths interleave - or else a master that is no older has *)
(* been stored between the two reads of its load, and the stamp is that    *)
(* one's.                                                                  *)
FreshMeansRecent ==
  \A r \in Runners :
    (pc[r] \in {"loaded", "resolving", "serving"} /\ ~is_stale(r))
    => \/ \A i \in MasterOf(r) : now - i.at <= MaxAge
       \/ r \in overtaken /\ \E at \in since[r] : now - at <= MaxAge

(* "merging would leave expired contracts behind forever": whichever       *)
(* refreshes overlap and whichever processes die, the table is empty or    *)
(* holds one usable dump, whole, as it was retrieved.                      *)
StoredMasterIsOneDump ==
  rows = {} \/ \E dump \in Dumps, at \in 0 .. now :
    /\ is_usable(dump)
    /\ rows = {[symbol |-> dump[i].symbol, token |-> dump[i].token, at |-> at] : i \in DOMAIN dump}

(* Instruments of one retrieval of one dump.                               *)
FromOneDump(found) ==
  \E dump \in Dumps :
    /\ is_usable(dump)
    /\ {[symbol |-> i.symbol, token |-> i.token] : i \in found} \subseteq Range(dump)
    /\ \A i, j \in found : i.at = j.at

(* "a token can be reissued to a different contract": a tick of a token a  *)
(* runner subscribed to is attributed to the entry it was subscribed for - *)
(* unless one dump has the token under both symbols, or the runner's cache *)
(* did not have the entry and it, or the holder of its token, was found in *)
(* a master that another runner has stored meanwhile.                      *)
TicksCarryTheirSymbol ==
  \A r \in Runners : pc[r] = "serving" =>
    \A i \in subscribed[r] :
      LET known == by_token[r][i.token]
      IN  (known # None /\ known.symbol # i.symbol)
          => \/ FromOneDump({known, i})
             \/ i.symbol \in outside[r] /\ {known.at, i.at} \cap since[r] # {}
=============================================================================
