--------------------------- MODULE PaperExecution ---------------------------
(***************************************************************************)
(* PaperExecutionAdapter (adapters/paper/execution.py): one instrument,    *)
(* one working order or one held position at a time, advanced by completed *)
(* bars.  The code is single-threaded; what is hard is the order in which  *)
(* submit, cancel, flatten and on_bar can be called, and on_bar raising    *)
(* half way through: what it had already changed by then stays changed.    *)
(*                                                                         *)
(* A call that is refused before it changes anything (a reused id, a bar   *)
(* out of order, cancelling a finished order, a second flatten) raises and *)
(* is a stuttering step.                                                   *)
(***************************************************************************)
EXTENDS CashLedger, Sequences

CONSTANTS
  ClientIds,        (* client_order_ids the callers use                      *)
  Signals,          (* signals that may be submitted                         *)
  Quantities,       (* RiskDecision.quantity; 0 iff the decision rejects     *)
  Bars,             (* completed bars of the signal interval the feed may    *)
                    (* deliver; two may share a start (what could print)     *)
  MinuteFeeds(_),   (* the sets of minute bars a caller may pass with a bar  *)
  Instrument,       (* the instrument_token this adapter trades              *)
  StartingCapital,
  None              (* no order, no fill, no position                        *)

NoBar == -1         (* _last_bar_start is None                               *)

ASSUME PaperAssumption ==
  /\ Quantities \subseteq Nat
  /\ StartingCapital \in Int
  /\ \A s \in Signals :
       /\ DOMAIN s = {"instrument_token", "direction", "signal_bar_start",
                      "stop_price", "target_r_multiple"}
       /\ s.direction \in {"LONG", "SHORT"}
       /\ s.signal_bar_start \in Nat
       /\ s.stop_price \in Int
       /\ s.target_r_multiple \in Nat \ {0}
  /\ \A b \in Bars :
       /\ b.start \in Nat
       /\ b.open \in Int /\ b.high \in Int /\ b.low \in Int /\ b.close \in Int
       /\ b.volume \in Nat

(* BacktestInput refuses bars that are not on the grid of their interval.  *)
ASSUME GridAssumption ==
  \A b, c \in Bars : b.start < c.start => b.start + Interval <= c.start

-----------------------------------------------------------------------------
(* Types, with what the records check of themselves.  A Fill has a positive *)
(* quantity and price, and costs that are not negative.  An order has      *)
(* reasons if and only if it is rejected, and a fill if and only if it is  *)
(* filled; one for nothing is rejected, so that no intent is for nothing.  *)
ReasonCodes == {"risk", "instrument_mismatch", "order_or_position_active",
                "entry_bar_already_passed"}

FillReasons == {"entry", "stop", "target", "time_exit", "flatten"}

Fill == [side : {"BUY", "SELL"}, reason : FillReasons, quantity : Nat \ {0},
         price : Nat \ {0}, costs : Nat, occurred_at : Nat, bar_start : Nat]

Statuses == {"accepted", "rejected", "filled", "cancelled", "expired"}

OrderRecord == {o \in [signal : Signals, quantity : Quantities, status : Statuses,
                       reasons : SUBSET ReasonCodes, fill : Fill \cup {None}] :
                  /\ (o.status = "rejected") <=> (o.reasons # {})
                  /\ (o.status = "filled") <=> (o.fill # None)
                  /\ o.quantity = 0 => o.status = "rejected"}

Intent == [signal : Signals, quantity : Quantities \ {0}, entry_bar_start : Int]

Position == [intent : Intent, entry : Fill]

Trade == [direction : {"LONG", "SHORT"}, entry : Fill, exit : Fill,
          ambiguity : {"unambiguous", "resolved_by_1m", "pessimistic_fallback"},
          gross_pnl : Int, costs : Int]

Ledger == [cash : Int, gross : Int, costs : Int, closed_trades : Nat]

ASSUME NoneAssumption ==
  /\ None \notin ClientIds
  /\ None \notin Fill
  /\ None \notin OrderRecord
  /\ None \notin Position

VARIABLES
  orders,           (* _orders: ClientIds -> OrderRecord, None if not used   *)
  working,          (* _working                                              *)
  position,         (* _book.position with _intent, which change together    *)
  flatten_pending,  (* _flatten_pending                                      *)
  last_bar_start,   (* _last_bar_start                                       *)
  ledger,           (* _ledger                                               *)
  trades,           (* _trades                                               *)
  returned          (* every fill on_bar has handed back to its caller       *)

vars == <<orders, working, position, flatten_pending, last_bar_start,
          ledger, trades, returned>>

-----------------------------------------------------------------------------
Order(signal, quantity, status, reasons) ==
  [signal |-> signal, quantity |-> quantity, status |-> status,
   reasons |-> reasons, fill |-> None]

(* _transition: the record with its final status, and its fill if filled.  *)
Finished(order, status, fill) ==
  [signal |-> order.signal, quantity |-> order.quantity, status |-> status,
   reasons |-> order.reasons, fill |-> fill]

IntentOf(order) ==
  [signal |-> order.signal, quantity |-> order.quantity,
   entry_bar_start |-> EntryBarStart(order.signal)]

IsFlat == position = None

Init ==
  /\ orders = [id \in ClientIds |-> None]
  /\ working = None
  /\ position = None
  /\ flatten_pending = FALSE
  /\ last_bar_start = NoBar
  /\ ledger = Funded(StartingCapital)
  /\ trades = <<>>
  /\ returned = {}

BUG_ActiveIgnoresPosition == working # None \/ flatten_pending
Active == working # None \/ ~IsFlat \/ flatten_pending

AlreadyPassed(signal) == EntryBarStart(signal) <= last_bar_start

(* Every reason there is to refuse an entry, in no order.                  *)
Reasons(signal, quantity) ==
  {r \in ReasonCodes :
     \/ r = "risk" /\ quantity = 0
     \/ r = "instrument_mismatch" /\ signal.instrument_token # Instrument
     \/ r = "order_or_position_active" /\ Active
     \/ r = "entry_bar_already_passed" /\ AlreadyPassed(signal)}

(* A new id is recorded as REJECTED, or as ACCEPTED and working.           *)
Submit(id, signal, quantity) ==
  /\ orders[id] = None
  /\ LET reasons == Reasons(signal, quantity)
         status  == IF reasons = {} THEN "accepted" ELSE "rejected"
     IN  /\ orders' = [orders EXCEPT ![id] = Order(signal, quantity, status, reasons)]
         /\ working' = IF reasons = {} THEN id ELSE working
  /\ UNCHANGED <<position, flatten_pending, last_bar_start, ledger, trades, returned>>

BUG_CancellableOnceKnown(id) == orders[id] # None
Cancellable(id) == orders[id] # None /\ orders[id].status = "accepted"

(* _transition clears the working order whichever record it moves.         *)
BUG_CancelKeepsWorking(id) ==
  /\ Cancellable(id)
  /\ orders' = [orders EXCEPT ![id] = Finished(@, "cancelled", None)]
  /\ UNCHANGED <<working, position, flatten_pending, last_bar_start, ledger, trades, returned>>

Cancel(id) ==
  /\ Cancellable(id)
  /\ orders' = [orders EXCEPT ![id] = Finished(@, "cancelled", None)]
  /\ working' = None
  /\ UNCHANGED <<position, flatten_pending, last_bar_start, ledger, trades, returned>>

Flatten ==
  /\ ~flatten_pending
  /\ working # None \/ ~IsFlat
  /\ \/ /\ working = None
        /\ UNCHANGED <<orders, working>>
     \/ /\ working # None
        /\ Cancellable(working)
        /\ orders' = [orders EXCEPT ![working] = Finished(@, "cancelled", None)]
        /\ working' = None
  /\ flatten_pending' = ~IsFlat
  /\ UNCHANGED <<position, last_bar_start, ledger, trades, returned>>

-----------------------------------------------------------------------------
(* on_bar.  A bar before the entry bar leaves the order working; the entry *)
(* bar fills it at its open; any later one expires it.                     *)
BUG_EntryDueOnlyOnItsBar(bar) ==
  working # None /\ bar.start = EntryBarStart(orders[working].signal)
EntryDue(bar) ==
  working # None /\ bar.start >= EntryBarStart(orders[working].signal)

EntryBar(bar) ==
  EntryDue(bar) /\ bar.start = EntryBarStart(orders[working].signal)

FillOfEntry(bar) == EntryFill(IntentOf(orders[working]), bar)

EntryStage(bar) ==
  /\ working' = IF EntryDue(bar) THEN None ELSE working
  /\ \/ /\ ~EntryDue(bar)
        /\ UNCHANGED orders
     \/ /\ EntryBar(bar)
        /\ orders' = [orders EXCEPT ![working] = Finished(@, "filled", FillOfEntry(bar))]
     \/ /\ EntryDue(bar) /\ ~EntryBar(bar)
        /\ orders' = [orders EXCEPT ![working] = Finished(@, "expired", None)]

(* The position and the cash the exit stage starts from.                   *)
Held(bar) ==
  IF EntryBar(bar)
  THEN [intent |-> IntentOf(orders[working]), entry |-> FillOfEntry(bar)]
  ELSE position

BUG_LedgerInSkipsEntry(bar) == ledger
LedgerIn(bar) ==
  IF EntryBar(bar) THEN AfterEntry(ledger, FillOfEntry(bar)) ELSE ledger

(* The entry bar takes the order: any other bar needs to take none.        *)
EntryTaken(bar) ==
  EntryBar(bar) => Enterable(orders[working].signal.direction, bar)

EntryFills(bar) == IF EntryBar(bar) THEN {FillOfEntry(bar)} ELSE {}

(* The protective exit of the position held on this bar.                   *)
Protective(bar, minutes) ==
  ResolveExit(Held(bar).intent, Held(bar).entry, bar, minutes)

(* The exit stage raises where the flatten, or the exit the bar calls for, *)
(* cannot be established.                                                  *)
ExitRaises(bar, minutes) ==
  /\ Held(bar) # None
  /\ LET intent == Held(bar).intent
     IN  IF flatten_pending
         THEN ~ExitPriced(intent.signal.direction, bar.open)
         ELSE ExitWalkRaises(intent, Held(bar).entry, bar, minutes)

ExitOf(bar, minutes) ==
  IF flatten_pending THEN Resolved("flatten", "unambiguous")
  ELSE IF Protective(bar, minutes).reason = "none" /\ HardExitDue(bar)
       THEN Resolved("time_exit", "unambiguous")
       ELSE Protective(bar, minutes)

BUG_NextBarAnyOrder(bar) == last_bar_start' = bar.start
NextBar(bar) ==
  /\ bar.start > last_bar_start
  /\ last_bar_start' = bar.start

(* The working order's own bar has no trades, or no positive price for it: *)
(* the bar is consumed, and the order goes on working.                     *)
OnBarEntryRaises(bar) ==
  /\ NextBar(bar)
  /\ ~EntryTaken(bar)
  /\ UNCHANGED <<orders, working, position, flatten_pending, ledger, trades, returned>>

(* The exit stage raises after the entry stage has taken effect: the fills *)
(* of this bar never reach the caller.                                     *)
OnBarExitRaises(bar, minutes) ==
  /\ NextBar(bar)
  /\ EntryTaken(bar)
  /\ ExitRaises(bar, minutes)
  /\ EntryStage(bar)
  /\ position' = Held(bar)
  /\ ledger' = LedgerIn(bar)
  /\ UNCHANGED <<flatten_pending, trades, returned>>

(* Nothing closes: flat after the entry stage, or held and left alone.     *)
OnBarHolds(bar, minutes) ==
  /\ NextBar(bar)
  /\ EntryTaken(bar)
  /\ \/ Held(bar) = None
     \/ /\ Held(bar) # None
        /\ ~ExitRaises(bar, minutes)
        /\ ExitOf(bar, minutes).reason = "none"
  /\ EntryStage(bar)
  /\ position' = Held(bar)
  /\ ledger' = LedgerIn(bar)
  /\ returned' = returned \cup EntryFills(bar)
  /\ UNCHANGED <<flatten_pending, trades>>

(* The bar closes the position: at its open if a flatten was pending,      *)
(* otherwise at the stop, the target or the hard exit.                     *)
OnBarCloses(bar, minutes) ==
  /\ NextBar(bar)
  /\ EntryTaken(bar)
  /\ Held(bar) # None
  /\ ~ExitRaises(bar, minutes)
  /\ ExitOf(bar, minutes).reason # "none"
  /\ EntryStage(bar)
  /\ LET held  == Held(bar)
         exit  == ExitOf(bar, minutes)
         fill  == ExitFill(held.intent, exit.reason,
                           ExitReference(held.intent, held.entry, exit.reason, bar), bar)
         trade == CloseTrade(held.intent.signal.direction, held.entry, fill, exit.ambiguity)
     IN  /\ ledger' = AfterExit(LedgerIn(bar), trade)
         /\ trades' = Append(trades, trade)
         /\ returned' = returned \cup EntryFills(bar) \cup {fill}
  /\ position' = None
  /\ flatten_pending' = FALSE

OnBar(bar, minutes) ==
  \/ OnBarEntryRaises(bar)
  \/ OnBarExitRaises(bar, minutes)
  \/ OnBarHolds(bar, minutes)
  \/ OnBarCloses(bar, minutes)

Next ==
  \/ \E id \in ClientIds, s \in Signals, q \in Quantities : Submit(id, s, q)
  \/ \E id \in ClientIds : Cancel(id)
  \/ Flatten
  \/ \E bar \in Bars : \E minutes \in MinuteFeeds(bar) : OnBar(bar, minutes)

Spec == Init /\ [][Next]_vars

-----------------------------------------------------------------------------
(* Every variable holds a value of the program's types: every order record *)
(* would pass OrderRecord's checks of itself, and every fill Fill's.       *)
TypeOK ==
  /\ orders \in [ClientIds -> OrderRecord \cup {None}]
  /\ working \in ClientIds \cup {None}
  /\ position \in Position \cup {None}
  /\ flatten_pending \in BOOLEAN
  /\ last_bar_start \in Nat \cup {NoBar}
  /\ ledger \in Ledger
  /\ trades \in Seq(Trade)
  /\ returned \subseteq Fill

Status(id) == IF orders[id] = None THEN "none" ELSE orders[id].status
FilledIds == {id \in ClientIds : Status(id) = "filled"}

(* The order the adapter calls working is the one accepted order there is: *)
(* no path through submit, cancel, flatten or on_bar leaves an accepted    *)
(* order behind, or a working id whose record has finished.                *)
WorkingIsTheAcceptedOrder ==
  \A id \in ClientIds : Status(id) = "accepted" <=> working = id

(* "One working order or position at a time": an entry never waits while a *)
(* position is held, and a flatten is pending only for a position.         *)
OneOrderOrPosition ==
  /\ working # None => IsFlat
  /\ flatten_pending => ~IsFlat

(* One exposure at a time, and the books agree on which.                   *)
OneExposure == WorkingIsTheAcceptedOrder /\ OneOrderOrPosition

(* The adapter is an executor: whatever its callers see through the port   *)
(* (the status of every order, whether a position is held, how many trades *)
(* there are) follows the lifecycle the port documents.  Half-finished     *)
(* calls show nothing else: an order that left ACCEPTED never changes      *)
(* again, and every filled order is the position or a trade.               *)
PortStatus == [id \in ClientIds |-> Status(id)]
Port == INSTANCE ExecutionPort
  WITH status <- PortStatus,
       held   <- ~IsFlat,
       closed <- Len(trades)

ImplementsExecutionPort == Port!Spec

(* An entry executes on the bar after its signal or never: once a later    *)
(* bar has been consumed the order is not working any more, and it can     *)
(* survive its own bar only if that bar had no trades, or opened so near   *)
(* zero that the entry had no positive price.                              *)
NoStaleEntry ==
  working # None =>
    LET entry == EntryBarStart(orders[working].signal)
    IN  /\ last_bar_start <= entry
        /\ last_bar_start = entry =>
             \E b \in Bars : /\ b.start = entry
                             /\ ~Enterable(orders[working].signal.direction, b)

(* A bar this position was entered on called for an exit with no price.    *)
LeftUnpriced(intent, entry) ==
  \E b \in Bars : \E minutes \in MinuteFeeds(b) :
    b.start = entry.bar_start /\ ExitUnpriced(intent, entry, b, minutes)

(* Every fill of an order is the entry of the held position or of exactly  *)
(* one trade, never both; and nothing is held or traded that no order was  *)
(* filled for.  Every exit was also handed back to the caller of the       *)
(* on_bar that made it, and so was every entry but one made at its own     *)
(* stop, or on a bar whose exit had no positive price.  No path that       *)
(* raises loses or doubles a position.                                     *)
EveryFillAccountedFor ==
  /\ \A id \in FilledIds :
       LET traded == {i \in DOMAIN trades : trades[i].entry = orders[id].fill}
           held   == ~IsFlat /\ position.entry = orders[id].fill
       IN  /\ held => traded = {}
           /\ ~held => \E i \in traded : traded = {i}
  /\ ~IsFlat => \E id \in FilledIds : position.entry = orders[id].fill
  /\ \A i \in DOMAIN trades : \E id \in FilledIds : trades[i].entry = orders[id].fill
  /\ \A i \in DOMAIN trades : trades[i].exit \in returned
  /\ \A id \in FilledIds : \/ orders[id].fill \in returned
                           \/ orders[id].fill.price = orders[id].signal.stop_price
                           \/ LeftUnpriced(IntentOf(orders[id]), orders[id].fill)

(* Cash is the starting capital plus what the trades realized, less (or    *)
(* for a short plus) what the held position's entry moved: the balance and *)
(* the trade log never disagree, whichever calls raised in between.        *)
CashReconciles ==
  /\ ledger.cash = StartingCapital + ledger.gross - ledger.costs
                     + (IF IsFlat THEN 0 ELSE CashDelta(position.entry))
  /\ ledger.closed_trades = Len(trades)

(* Round trips never overlap: a trade does not exit before it entered, the *)
(* next one enters on a later bar than the last one left on, not before it *)
(* was left, and the held position is later than all of them.              *)
RoundTripsDoNotOverlap ==
  /\ \A i \in DOMAIN trades : trades[i].entry.occurred_at <= trades[i].exit.occurred_at
  /\ \A i, j \in DOMAIN trades :
       i < j => trades[i].exit.occurred_at <= trades[j].entry.occurred_at
  /\ \A i, j \in DOMAIN trades :
       i < j => trades[i].exit.bar_start < trades[j].entry.bar_start
  /\ ~IsFlat => \A i \in DOMAIN trades :
                  trades[i].exit.bar_start < position.entry.bar_start

(* The bar at `start' calls for an exit at no positive price.              *)
LastBarUnpriced(held, start, flattening) ==
  \E b \in Bars : \E minutes \in MinuteFeeds(b) :
    /\ b.start = start
    /\ \/ ExitUnpriced(held.intent, held.entry, b, minutes)
       \/ flattening /\ ~ExitPriced(held.intent.signal.direction, b.open)

(* What keeps a position through the bar at `start'.                       *)
CutoffMissed(held, start, flattening) ==
  \/ Risk(held.intent, held.entry) = 0
  \/ SessionDay(start) # SessionDay(held.entry.bar_start)
  \/ \E b \in Bars : b.start = start /\ ~Executable(b)
  \/ LastBarUnpriced(held, start, flattening)

(* Nothing is held past the cutoff of its session unless the bar at the    *)
(* cutoff could not be used: it had no trades, or no positive price for    *)
(* the exit; the position was entered at its own stop (every exit raises); *)
(* or its session had no such bar.                                         *)
HeldPastCutoff ==
  (~IsFlat /\ TimeOfDay(last_bar_start + Interval) >= HardExitTime) =>
    CutoffMissed(position, last_bar_start, flatten_pending)

=============================================================================
