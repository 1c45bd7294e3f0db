------------------------ MODULE PaperExecutionProofs ------------------------
(***************************************************************************)
(* Theorems about PaperExecution, for every set of ids, signals, bars and  *)
(* minutes, every schedule of charges, and every order of calls and way of *)
(* on_bar to raise: its types and lifecycle, and what holds over time      *)
(* (when an entry may still execute, how long a position may be held, that *)
(* round trips never overlap, that no fill is lost and no trade invalid).  *)
(***************************************************************************)
EXTENDS PaperExecution, TLAPS

(* What the inductive steps need of one another: types, the accepted order *)
(* is the working one, and an order never waits while a position is held.  *)
CoreInv == TypeOK /\ WorkingIsTheAcceptedOrder /\ OneOrderOrPosition

-----------------------------------------------------------------------------
(* The resolvers stay within their types.                                  *)

(* Rounding to the paisa gives a whole number of paisa.                    *)
LEMMA ToPaisaType ==
  ASSUME NEW amount \in Nat
  PROVE  ToPaisa(amount) \in Nat
<1> DEFINE above == 2 * amount + Schedule.scale
           below == 2 * Schedule.scale
<1>1. above \in Nat /\ below \in Nat \ {0}
  BY ScheduleAssumption
<1> HIDE DEF above, below
<1>2. above \div below \in Nat
  BY <1>1
<1>3. QED
  BY <1>2 DEF ToPaisa, above, below

(* The charges of a leg are a whole number of paisa, and not negative.     *)
LEMMA LegChargesType ==
  ASSUME NEW side \in {"BUY", "SELL"}, NEW turnover \in Nat
  PROVE  LegCharges(side, turnover) \in Nat
<1> USE ToPaisaType
<1>1. \A f \in RateFields : Schedule[f] \in Nat
  BY ScheduleAssumption
<1>2. /\ Schedule.brokerage_rate \in Nat
      /\ Schedule.stt_sell_rate \in Nat
      /\ Schedule.exchange_transaction_rate \in Nat
      /\ Schedule.sebi_turnover_rate \in Nat
      /\ Schedule.stamp_duty_buy_rate \in Nat
      /\ Schedule.gst_rate \in Nat
      /\ Schedule.scale \in Nat
      /\ Schedule.brokerage_cap # NoCap => Schedule.brokerage_cap \in Nat
  BY <1>1, ScheduleAssumption DEF RateFields
<1>3. Brokerage(turnover) \in Nat
  <2>1. turnover * Schedule.brokerage_rate \in Nat
    BY <1>2
  <2>2. Schedule.brokerage_cap # NoCap => Schedule.brokerage_cap * Schedule.scale \in Nat
    BY <1>2
  <2>3. QED
    BY <2>1, <2>2 DEF Brokerage
<1>4. Exchange(turnover) \in Nat /\ Sebi(turnover) \in Nat
  <2>1. /\ turnover * Schedule.exchange_transaction_rate \in Nat
        /\ turnover * Schedule.sebi_turnover_rate \in Nat
    BY <1>2
  <2>2. QED
    BY <2>1 DEF Exchange, Sebi
<1>5. SideTax(side, turnover) \in Nat
  <2>1. /\ turnover * Schedule.stamp_duty_buy_rate \in Nat
        /\ turnover * Schedule.stt_sell_rate \in Nat
    BY <1>2
  <2>2. QED
    BY <2>1 DEF SideTax
<1>6. QED
  <2> DEFINE taxable == Brokerage(turnover) + Sebi(turnover) + Exchange(turnover)
  <2>1. taxable \in Nat
    BY <1>3, <1>4
  <2>2. taxable * Schedule.gst_rate \in Nat
    BY <1>2, <2>1
  <2> HIDE DEF taxable
  <2>3. taxable + SideTax(side, turnover) + ToPaisa(taxable * Schedule.gst_rate) \in Nat
    BY <1>5, <2>1, <2>2
  <2>4. QED
    BY <2>3 DEF LegCharges, taxable

(* What the assumptions say of one signal and of one bar.                  *)
LEMMA SignalType ==
  ASSUME NEW s \in Signals
  PROVE  /\ s.direction \in {"LONG", "SHORT"}
         /\ s.signal_bar_start \in Nat
         /\ s.stop_price \in Int
         /\ s.target_r_multiple \in Nat
         /\ EntryBarStart(s) \in Nat
         /\ EntryBarStart(s) > s.signal_bar_start
BY PaperAssumption, ExecutionAssumption DEF EntryBarStart

LEMMA BarType ==
  ASSUME NEW b \in Bars
  PROVE  /\ b.start \in Nat
         /\ b.open \in Int /\ b.high \in Int /\ b.low \in Int /\ b.close \in Int
         /\ b.volume \in Nat
BY PaperAssumption

LEMMA SlippageType == Slippage \in Nat
BY ExecutionAssumption DEF Slippage

LEMMA SideType ==
  ASSUME NEW d
  PROVE  /\ EntrySide(d) \in {"BUY", "SELL"}
         /\ ExitSide(d) \in {"BUY", "SELL"}
         /\ EntrySide(d) # ExitSide(d)
         /\ EntrySide(d) = "BUY" <=> IsLong(d)
BY DEF EntrySide, ExitSide

(* A fill made of well-typed parts at a positive price is a Fill.          *)
LEMMA MakeFillType ==
  ASSUME NEW side \in {"BUY", "SELL"}, NEW reason \in FillReasons,
         NEW quantity \in Nat \ {0}, NEW price \in Nat \ {0}, NEW bar \in Bars,
         NEW occurred_at \in Nat
  PROVE  MakeFill(side, reason, quantity, price, bar, occurred_at) \in Fill
<1>1. price * quantity \in Nat
  OBVIOUS
<1>2. LegCharges(side, price * quantity) \in Nat
  BY <1>1, LegChargesType
<1>3. QED
  BY <1>2, BarType DEF MakeFill, Fill

LEMMA EntryFillType ==
  ASSUME NEW intent \in Intent, NEW bar \in Bars
  PROVE  /\ EntryPriced(intent.signal.direction, bar) => EntryFill(intent, bar) \in Fill
         /\ EntryFill(intent, bar).side = EntrySide(intent.signal.direction)
         /\ EntryFill(intent, bar).reason = "entry"
         /\ EntryFill(intent, bar).quantity = intent.quantity
         /\ EntryFill(intent, bar).bar_start = bar.start
         /\ EntryFill(intent, bar).price = EntrySlipped(intent.signal.direction, bar.open)
<1>1. intent.quantity \in Nat \ {0}
  BY PaperAssumption DEF Intent
<1>2. EntrySlipped(intent.signal.direction, bar.open) \in Int
  BY BarType, SlippageType DEF EntrySlipped
<1>3. EntrySide(intent.signal.direction) \in {"BUY", "SELL"}
  BY SideType
<1>4. ASSUME EntryPriced(intent.signal.direction, bar)
      PROVE  EntryFill(intent, bar) \in Fill
  <2>1. EntrySlipped(intent.signal.direction, bar.open) \in Nat \ {0}
    BY <1>2, <1>4 DEF EntryPriced, Priced
  <2>2. QED
    BY <1>1, <1>3, <2>1, BarType, MakeFillType DEF EntryFill, FillReasons
<1>5. QED
  BY <1>4 DEF EntryFill, MakeFill

(* The protective exit is a stop, a target or nothing.                     *)
LEMMA ResolveExitType ==
  ASSUME NEW intent, NEW entry, NEW bar, NEW minutes
  PROVE  /\ ResolveExit(intent, entry, bar, minutes).reason \in {"none", "stop", "target"}
         /\ ResolveExit(intent, entry, bar, minutes).ambiguity \in
               {"unambiguous", "resolved_by_1m", "pessimistic_fallback"}
BY DEF ResolveExit, ResolveCollision, Resolved

(* The price an exit is measured from is a price.                          *)
LEMMA ExitReferenceType ==
  ASSUME NEW intent \in Intent, NEW entry \in Fill, NEW bar \in Bars,
         NEW reason \in {"stop", "target", "time_exit", "flatten"}
  PROVE  ExitReference(intent, entry, reason, bar) \in Int
<1>1. intent.signal \in Signals /\ entry.price \in Int
  BY DEF Intent, Fill
<1>2. Risk(intent, entry) \in Int
  BY <1>1, SignalType DEF Risk
<1>3. TargetPrice(intent, entry) \in Int
  BY <1>1, <1>2, SignalType DEF TargetPrice
<1>4. StopReference(intent, bar) \in Int
  BY <1>1, SignalType, BarType DEF StopReference, Gapped
<1>5. QED
  BY <1>3, <1>4, BarType DEF ExitReference

LEMMA ExitFillType ==
  ASSUME NEW intent \in Intent, NEW bar \in Bars, NEW reference \in Int,
         NEW reason \in {"stop", "target", "time_exit", "flatten"},
         ExitPriced(intent.signal.direction, reference)
  PROVE  /\ ExitFill(intent, reason, reference, bar) \in Fill
         /\ ExitFill(intent, reason, reference, bar).side = ExitSide(intent.signal.direction)
         /\ ExitFill(intent, reason, reference, bar).quantity = intent.quantity
         /\ ExitFill(intent, reason, reference, bar).bar_start = bar.start
         /\ ExitFill(intent, reason, reference, bar).reason = reason
<1>1. intent.quantity \in Nat \ {0}
  BY PaperAssumption DEF Intent
<1>2. ExitSlipped(intent.signal.direction, reference) \in Nat \ {0}
  <2>1. ExitSlipped(intent.signal.direction, reference) \in Int
    BY SlippageType DEF ExitSlipped
  <2>2. QED
    BY <2>1 DEF ExitPriced, Priced
<1>3. ExitSide(intent.signal.direction) \in {"BUY", "SELL"}
  BY SideType
<1>4. ExitMoment(intent, reason, bar) \in Nat
  BY BarType, ExecutionAssumption DEF ExitMoment, BarEnd
<1>5. ExitFill(intent, reason, reference, bar) \in Fill
  BY <1>1, <1>2, <1>3, <1>4, MakeFillType DEF ExitFill, FillReasons
<1>6. QED
  BY <1>5 DEF ExitFill, MakeFill

(* An exit that does not raise is filled at a positive price.              *)
LEMMA ExitIsPriced ==
  ASSUME NEW bar \in Bars, NEW minutes, Held(bar) # None,
         ExitOf(bar, minutes).reason # "none", ~ExitRaises(bar, minutes)
  PROVE  ExitPriced(Held(bar).intent.signal.direction,
                    ExitReference(Held(bar).intent, Held(bar).entry,
                                  ExitOf(bar, minutes).reason, bar))
<1> DEFINE intent == Held(bar).intent
           entry  == Held(bar).entry
           exit   == ResolveExit(intent, entry, bar, minutes)
<1>1. CASE flatten_pending
  <2>1. ExitReference(intent, entry, "flatten", bar) = bar.open
    BY DEF ExitReference
  <2>2. QED
    BY <1>1, <2>1 DEF ExitRaises, ExitOf, Resolved
<1>2. CASE ~flatten_pending
  <2>1. ~ExitUnpriced(intent, entry, bar, minutes)
    BY <1>2 DEF ExitRaises, ExitWalkRaises
  <2>2. CASE exit.reason = "none"
    <3>1. HardExitDue(bar) /\ ExitOf(bar, minutes).reason = "time_exit"
      BY <1>2, <2>2 DEF ExitOf, Protective, Resolved
    <3>2. ExitReference(intent, entry, "time_exit", bar) = bar.close
      BY DEF ExitReference
    <3>3. QED
      BY <2>1, <2>2, <3>1, <3>2 DEF ExitUnpriced, Unresolved
  <2>3. CASE exit.reason = "stop"
    <3>1. StopTouched(intent, bar)
      BY <2>3 DEF ResolveExit, Resolved
    <3>2. ExitOf(bar, minutes).reason = "stop"
      BY <1>2, <2>3 DEF ExitOf, Protective
    <3>3. ExitReference(intent, entry, "stop", bar) = StopReference(intent, bar)
      BY DEF ExitReference
    <3>4. QED
      BY <2>1, <3>1, <3>2, <3>3 DEF ExitUnpriced, LevelUnpriced
  <2>4. CASE exit.reason = "target"
    <3>1. TargetReached(intent, entry, bar)
      BY <2>4 DEF ResolveExit, Resolved
    <3>2. ExitOf(bar, minutes).reason = "target"
      BY <1>2, <2>4 DEF ExitOf, Protective
    <3>3. ExitReference(intent, entry, "target", bar) = TargetPrice(intent, entry)
      BY DEF ExitReference
    <3>4. QED
      BY <2>1, <3>1, <3>2, <3>3 DEF ExitUnpriced, LevelUnpriced
  <2>5. QED
    BY <2>2, <2>3, <2>4, ResolveExitType
<1>3. QED
  BY <1>1, <1>2

(* Closing a position makes a Trade.                                       *)
LEMMA CloseTradeType ==
  ASSUME NEW d \in {"LONG", "SHORT"}, NEW entry \in Fill, NEW exit \in Fill,
         NEW a \in {"unambiguous", "resolved_by_1m", "pessimistic_fallback"}
  PROVE  /\ CloseTrade(d, entry, exit, a) \in Trade
         /\ CloseTrade(d, entry, exit, a).entry = entry
         /\ CloseTrade(d, entry, exit, a).exit = exit
<1>1. /\ entry.price \in Int /\ entry.quantity \in Nat /\ entry.costs \in Int
      /\ exit.price \in Int /\ exit.costs \in Int
  BY DEF Fill
<1>2. QED
  BY <1>1 DEF CloseTrade, Trade

(* Entering and closing keep a Ledger a Ledger.                            *)
LEMMA LedgerType ==
  ASSUME NEW l \in Ledger, NEW f \in Fill, NEW t \in Trade
  PROVE  /\ CashDelta(f) \in Int
         /\ AfterEntry(l, f) \in Ledger
         /\ AfterExit(l, t) \in Ledger
<1>1. \A g \in Fill : CashDelta(g) \in Int
  BY DEF CashDelta, Fill
<1>2. t.exit \in Fill /\ t.gross_pnl \in Int /\ t.costs \in Int
  BY DEF Trade
<1>3. QED
  BY <1>1, <1>2 DEF AfterEntry, AfterExit, Ledger

-----------------------------------------------------------------------------
(* The inductive step of CoreInv, one lemma per operation.                 *)

LEMMA CoreInit == Init => CoreInv
<1> SUFFICES ASSUME Init PROVE CoreInv
  OBVIOUS
<1>1. Funded(StartingCapital) \in Ledger
  BY PaperAssumption DEF Funded, Ledger
<1>2. TypeOK
  <2>1. <<>> \in Seq(Trade)
    OBVIOUS
  <2>2. orders \in [ClientIds -> OrderRecord \cup {None}]
    BY DEF Init
  <2>3. QED
    BY <1>1, <2>1, <2>2 DEF Init, TypeOK
<1>3. QED
  BY <1>2, NoneAssumption DEF Init, CoreInv, WorkingIsTheAcceptedOrder,
     OneOrderOrPosition, IsFlat, Status

(* What is known of the working order.                                     *)
LEMMA WorkingOrder ==
  ASSUME CoreInv, working # None
  PROVE  /\ working \in ClientIds
         /\ orders[working] \in OrderRecord
         /\ orders[working].status = "accepted"
         /\ orders[working].reasons = {}
         /\ orders[working].fill = None
         /\ orders[working].signal \in Signals
         /\ orders[working].quantity \in Quantities \ {0}
         /\ position = None
         /\ flatten_pending = FALSE
<1>1. working \in ClientIds /\ Status(working) = "accepted"
  BY DEF CoreInv, TypeOK, WorkingIsTheAcceptedOrder
<1>2. orders[working] # None /\ orders[working].status = "accepted"
  BY <1>1 DEF Status
<1>3. orders[working] \in OrderRecord
  BY <1>1, <1>2 DEF CoreInv, TypeOK
<1>4. QED
  BY <1>1, <1>2, <1>3 DEF OrderRecord, CoreInv, OneOrderOrPosition, IsFlat, TypeOK

(* A record made for a submission is an order record: one for nothing has  *)
(* the risk check among its reasons.                                       *)
LEMMA SubmittedOrder ==
  ASSUME NEW s \in Signals, NEW q \in Quantities
  PROVE  LET reasons == Reasons(s, q)
             status  == IF reasons = {} THEN "accepted" ELSE "rejected"
             record  == Order(s, q, status, reasons)
         IN  record \in OrderRecord /\ record.status = status
<1> DEFINE reasons == Reasons(s, q)
           status  == IF reasons = {} THEN "accepted" ELSE "rejected"
<1>1. reasons \subseteq ReasonCodes
  BY DEF Reasons
<1>2. q = 0 => reasons # {}
  <2>1. q = 0 => "risk" \in reasons
    BY DEF Reasons, ReasonCodes
  <2>2. QED
    BY <2>1
<1> HIDE DEF reasons
<1>3. Order(s, q, status, reasons) \in OrderRecord
  BY <1>1, <1>2 DEF Order, OrderRecord, Statuses
<1>4. QED
  BY <1>3 DEF Order, reasons

LEMMA SubmitCore ==
  ASSUME CoreInv, NEW id \in ClientIds, NEW s \in Signals, NEW q \in Quantities,
         Submit(id, s, q)
  PROVE  CoreInv'
<1> DEFINE reasons == Reasons(s, q)
           status  == IF reasons = {} THEN "accepted" ELSE "rejected"
           record  == Order(s, q, status, reasons)
<1>1. /\ orders[id] = None
      /\ orders' = [orders EXCEPT ![id] = record]
      /\ working' = IF reasons = {} THEN id ELSE working
      /\ UNCHANGED <<position, flatten_pending, last_bar_start, ledger, trades, returned>>
  BY DEF Submit
<1>2. reasons \subseteq ReasonCodes
  BY DEF Reasons
<1>3. record \in OrderRecord /\ record.status = status
  BY SubmittedOrder
<1>4. reasons = {} => working = None /\ position = None /\ flatten_pending = FALSE
  BY DEF Reasons, ReasonCodes, Active, IsFlat, CoreInv, TypeOK
<1> HIDE DEF reasons, record
<1>5. TypeOK'
  BY <1>1, <1>3 DEF CoreInv, TypeOK
<1>6. WorkingIsTheAcceptedOrder'
  <2> SUFFICES ASSUME NEW x \in ClientIds
               PROVE  Status(x)' = "accepted" <=> working' = x
    BY DEF WorkingIsTheAcceptedOrder
  <2>1. CASE x = id
    <3>1. Status(id)' = status
      BY <1>1, <1>3, NoneAssumption DEF Status, CoreInv, TypeOK
    <3>2. working # id
      BY <1>1 DEF Status, CoreInv, WorkingIsTheAcceptedOrder
    <3>3. QED
      BY <1>1, <2>1, <3>1, <3>2
  <2>2. CASE x # id
    <3>1. Status(x)' = Status(x)
      BY <1>1, <2>2 DEF Status, CoreInv, TypeOK
    <3>2. Status(x) = "accepted" <=> working = x
      BY DEF CoreInv, WorkingIsTheAcceptedOrder
    <3>3. QED
      BY <1>1, <1>4, <2>2, <3>1, <3>2, NoneAssumption
  <2>3. QED
    BY <2>1, <2>2
<1>7. OneOrderOrPosition'
  BY <1>1, <1>4 DEF CoreInv, OneOrderOrPosition, IsFlat
<1>8. QED
  BY <1>5, <1>6, <1>7 DEF CoreInv

(* Moving the working order to a final status keeps the records in order.  *)
LEMMA FinishWorking ==
  ASSUME CoreInv, working # None, NEW status \in {"cancelled", "expired"},
         orders' = [orders EXCEPT ![working] = Finished(@, status, None)],
         working' = None
  PROVE  /\ orders' \in [ClientIds -> OrderRecord \cup {None}]
         /\ WorkingIsTheAcceptedOrder'
<1> DEFINE record == Finished(orders[working], status, None)
<1>1. record \in OrderRecord /\ record.status = status
  BY WorkingOrder DEF OrderRecord, Statuses, Finished
<1>2. orders' = [orders EXCEPT ![working] = record]
  BY WorkingOrder DEF CoreInv, TypeOK
<1> HIDE DEF record
<1>3. orders' \in [ClientIds -> OrderRecord \cup {None}]
  BY <1>1, <1>2, WorkingOrder DEF CoreInv, TypeOK
<1>4. ASSUME NEW x \in ClientIds PROVE Status(x)' # "accepted"
  <2>1. CASE x = working
    <3>1. orders'[x] # None /\ orders'[x].status = status
      BY <1>1, <1>2, <2>1, WorkingOrder, NoneAssumption DEF CoreInv, TypeOK
    <3>2. QED
      BY <3>1 DEF Status
  <2>2. CASE x # working
    <3>1. orders'[x] = orders[x]
      BY <1>2, <2>2 DEF CoreInv, TypeOK
    <3>2. QED
      BY <2>2, <3>1 DEF Status, CoreInv, WorkingIsTheAcceptedOrder
  <2>3. QED
    BY <2>1, <2>2
<1>5. QED
  BY <1>3, <1>4, NoneAssumption DEF WorkingIsTheAcceptedOrder

LEMMA CancelCore ==
  ASSUME CoreInv, NEW id \in ClientIds, Cancel(id)
  PROVE  CoreInv'
<1>1. working = id /\ working # None
  BY NoneAssumption DEF Cancel, Cancellable, CoreInv, WorkingIsTheAcceptedOrder, Status
<1>2. /\ orders' = [orders EXCEPT ![working] = Finished(@, "cancelled", None)]
      /\ working' = None
  BY <1>1 DEF Cancel
<1>3. /\ orders' \in [ClientIds -> OrderRecord \cup {None}]
      /\ WorkingIsTheAcceptedOrder'
  BY <1>1, <1>2, FinishWorking
<1>4. TypeOK' /\ OneOrderOrPosition'
  BY <1>2, <1>3 DEF Cancel, CoreInv, TypeOK, OneOrderOrPosition, IsFlat
<1>5. QED
  BY <1>3, <1>4 DEF CoreInv

LEMMA FlattenCore ==
  ASSUME CoreInv, Flatten
  PROVE  CoreInv'
<1>1. CASE working = None /\ UNCHANGED <<orders, working>>
  BY <1>1 DEF Flatten, CoreInv, TypeOK, OneOrderOrPosition, IsFlat,
     WorkingIsTheAcceptedOrder, Status
<1>2. CASE /\ working # None
           /\ orders' = [orders EXCEPT ![working] = Finished(@, "cancelled", None)]
           /\ working' = None
  <2>1. /\ orders' \in [ClientIds -> OrderRecord \cup {None}]
        /\ WorkingIsTheAcceptedOrder'
    BY <1>2, FinishWorking
  <2>2. TypeOK' /\ OneOrderOrPosition'
    BY <1>2, <2>1 DEF Flatten, CoreInv, TypeOK, OneOrderOrPosition, IsFlat
  <2>3. QED
    BY <2>1, <2>2 DEF CoreInv
<1>3. QED
  BY <1>1, <1>2 DEF Flatten

-----------------------------------------------------------------------------
(* on_bar: what the entry stage hands to the exit stage.                   *)
LEMMA EntryStageTypes ==
  ASSUME CoreInv, NEW bar \in Bars, EntryTaken(bar)
  PROVE  /\ Held(bar) \in Position \cup {None}
         /\ LedgerIn(bar) \in Ledger
         /\ EntryFills(bar) \subseteq Fill
         /\ EntryBar(bar) => /\ IntentOf(orders[working]) \in Intent
                             /\ FillOfEntry(bar) \in Fill
                             /\ Held(bar) # None
                             /\ Held(bar) = [intent |-> IntentOf(orders[working]),
                                             entry  |-> FillOfEntry(bar)]
         /\ ~EntryBar(bar) => Held(bar) = position /\ LedgerIn(bar) = ledger
         /\ EntryDue(bar) => position = None /\ flatten_pending = FALSE
<1>1. EntryDue(bar) => working # None
  BY DEF EntryDue
<1>2. ASSUME EntryBar(bar)
      PROVE  IntentOf(orders[working]) \in Intent /\ FillOfEntry(bar) \in Fill
  <2>1. working # None
    BY <1>2 DEF EntryBar, EntryDue
  <2>2. IntentOf(orders[working]) \in Intent
    <3>1. /\ orders[working].signal \in Signals
          /\ orders[working].quantity \in Quantities \ {0}
      BY <2>1, WorkingOrder
    <3>2. EntryBarStart(orders[working].signal) \in Int
      BY <3>1, SignalType
    <3>3. QED
      BY <3>1, <3>2 DEF IntentOf, Intent
  <2>3. EntryPriced(IntentOf(orders[working]).signal.direction, bar)
    BY <1>2 DEF EntryTaken, Enterable, IntentOf
  <2>4. QED
    BY <2>2, <2>3, EntryFillType DEF FillOfEntry
<1>3. ASSUME EntryBar(bar)
      PROVE  Held(bar) \in Position /\ LedgerIn(bar) \in Ledger
  <2>1. Held(bar) \in Position
    BY <1>2, <1>3 DEF Held, Position
  <2>2. AfterEntry(ledger, FillOfEntry(bar)) \in Ledger
    <3>1. CashDelta(FillOfEntry(bar)) \in Int
      BY <1>2, <1>3 DEF CashDelta, Fill
    <3>2. QED
      BY <3>1 DEF AfterEntry, Ledger, CoreInv, TypeOK
  <2>3. QED
    BY <2>1, <2>2, <1>3 DEF LedgerIn
<1>4. CASE EntryBar(bar)
  <2>1. EntryFills(bar) \subseteq Fill
    BY <1>2, <1>4 DEF EntryFills
  <2>2. Held(bar) = [intent |-> IntentOf(orders[working]), entry |-> FillOfEntry(bar)]
    BY <1>4 DEF Held
  <2>3. QED
    BY <1>1, <1>2, <1>3, <1>4, <2>1, <2>2, WorkingOrder, NoneAssumption
<1>5. CASE ~EntryBar(bar)
  BY <1>1, <1>5, WorkingOrder DEF Held, LedgerIn, EntryFills, CoreInv, TypeOK
<1>6. QED
  BY <1>4, <1>5

LEMMA EntryStageOrders ==
  ASSUME CoreInv, NEW bar \in Bars, EntryTaken(bar), EntryStage(bar)
  PROVE  /\ orders' \in [ClientIds -> OrderRecord \cup {None}]
         /\ working' \in ClientIds \cup {None}
         /\ WorkingIsTheAcceptedOrder'
         /\ EntryDue(bar) => working' = None
         /\ ~EntryDue(bar) => UNCHANGED <<orders, working>>
<1>1. CASE ~EntryDue(bar)
  <2>1. UNCHANGED <<orders, working>>
    BY <1>1 DEF EntryStage, EntryBar
  <2>2. QED
    BY <1>1, <2>1 DEF CoreInv, TypeOK, WorkingIsTheAcceptedOrder, Status
<1>2. CASE EntryDue(bar) /\ ~EntryBar(bar)
  <2>1. /\ working # None
        /\ working' = None
        /\ orders' = [orders EXCEPT ![working] = Finished(@, "expired", None)]
    BY <1>2 DEF EntryStage, EntryDue
  <2>2. QED
    BY <1>2, <2>1, FinishWorking
<1>3. CASE EntryBar(bar)
  <2> DEFINE record == Finished(orders[working], "filled", FillOfEntry(bar))
  <2>1. /\ working # None
        /\ working' = None
        /\ orders' = [orders EXCEPT ![working] = record]
    BY <1>3, WorkingOrder DEF EntryStage, EntryDue, EntryBar, CoreInv, TypeOK
  <2>2. FillOfEntry(bar) \in Fill
    BY <1>3, EntryStageTypes
  <2>3. record \in OrderRecord /\ record.status = "filled"
    BY <2>1, <2>2, WorkingOrder, NoneAssumption DEF OrderRecord, Statuses, Finished
  <2> HIDE DEF record
  <2>4. orders' \in [ClientIds -> OrderRecord \cup {None}]
    BY <2>1, <2>3, WorkingOrder DEF CoreInv, TypeOK
  <2>5. ASSUME NEW x \in ClientIds PROVE Status(x)' # "accepted"
    <3>1. CASE x = working
      BY <2>1, <2>3, <3>1, WorkingOrder, NoneAssumption DEF CoreInv, TypeOK, Status
    <3>2. CASE x # working
      <4>1. orders'[x] = orders[x]
        BY <2>1, <3>2 DEF CoreInv, TypeOK
      <4>2. QED
        BY <3>2, <4>1 DEF Status, CoreInv, WorkingIsTheAcceptedOrder
    <3>3. QED
      BY <3>1, <3>2
  <2>6. WorkingIsTheAcceptedOrder'
    BY <2>1, <2>5, NoneAssumption DEF WorkingIsTheAcceptedOrder
  <2>7. QED
    BY <1>3, <2>1, <2>4, <2>6 DEF EntryBar
<1>4. QED
  BY <1>1, <1>2, <1>3

(* What the exit of a bar that closes the position is made of.             *)
LEMMA ExitTypes ==
  ASSUME CoreInv, NEW bar \in Bars, NEW minutes, EntryTaken(bar), Held(bar) # None,
         ExitOf(bar, minutes).reason # "none", ~ExitRaises(bar, minutes)
  PROVE  LET held  == Held(bar)
             exit  == ExitOf(bar, minutes)
             fill  == ExitFill(held.intent, exit.reason,
                        ExitReference(held.intent, held.entry, exit.reason, bar), bar)
             trade == CloseTrade(held.intent.signal.direction, held.entry, fill,
                                 exit.ambiguity)
         IN  /\ held \in Position
             /\ fill \in Fill
             /\ fill.side = ExitSide(held.intent.signal.direction)
             /\ fill.quantity = held.intent.quantity
             /\ fill.bar_start = bar.start
             /\ fill.reason # "entry"
             /\ trade \in Trade
             /\ trade.entry = held.entry
             /\ trade.exit = fill
             /\ AfterExit(LedgerIn(bar), trade) \in Ledger
<1> DEFINE held  == Held(bar)
           exit  == ExitOf(bar, minutes)
           price == ExitReference(held.intent, held.entry, exit.reason, bar)
           fill  == ExitFill(held.intent, exit.reason, price, bar)
           trade == CloseTrade(held.intent.signal.direction, held.entry, fill,
                               exit.ambiguity)
<1>1. held \in Position /\ LedgerIn(bar) \in Ledger
  BY EntryStageTypes
<1>2. /\ held.intent \in Intent
      /\ held.entry \in Fill
      /\ held.intent.signal.direction \in {"LONG", "SHORT"}
  BY <1>1, SignalType DEF Position, Intent
<1>3. /\ exit.reason \in {"stop", "target", "time_exit", "flatten"}
      /\ exit.ambiguity \in {"unambiguous", "resolved_by_1m", "pessimistic_fallback"}
  BY ResolveExitType DEF ExitOf, Protective, Resolved
<1>3a. ExitPriced(held.intent.signal.direction, price)
  BY ExitIsPriced
<1> HIDE DEF held, exit
<1>4. price \in Int
  BY <1>2, <1>3, ExitReferenceType
<1> HIDE DEF price
<1>5. /\ fill \in Fill
      /\ fill.side = ExitSide(held.intent.signal.direction)
      /\ fill.quantity = held.intent.quantity
      /\ fill.bar_start = bar.start
      /\ fill.reason # "entry"
  BY <1>2, <1>3, <1>3a, <1>4, ExitFillType
<1> HIDE DEF fill
<1>6. trade \in Trade /\ trade.entry = held.entry /\ trade.exit = fill
  BY <1>2, <1>3, <1>5, CloseTradeType
<1> HIDE DEF trade
<1>7. AfterExit(LedgerIn(bar), trade) \in Ledger
  BY <1>1, <1>5, <1>6, LedgerType
<1>8. QED
  BY <1>1, <1>5, <1>6, <1>7 DEF held, exit, price, fill, trade

LEMMA OnBarCore ==
  ASSUME CoreInv, NEW bar \in Bars, NEW minutes, OnBar(bar, minutes)
  PROVE  CoreInv'
<1>1. last_bar_start' \in Nat \cup {NoBar}
  BY BarType DEF OnBar, OnBarEntryRaises, OnBarExitRaises, OnBarHolds, OnBarCloses, NextBar
<1>2. CASE OnBarEntryRaises(bar)
  BY <1>1, <1>2 DEF OnBarEntryRaises, CoreInv, TypeOK, WorkingIsTheAcceptedOrder,
     Status, OneOrderOrPosition, IsFlat
<1>3. ASSUME EntryTaken(bar), EntryStage(bar), position' = Held(bar),
             UNCHANGED flatten_pending
      PROVE  OneOrderOrPosition'
  BY <1>3, EntryStageOrders, EntryStageTypes DEF OneOrderOrPosition, IsFlat, CoreInv, EntryBar
<1>4. CASE OnBarExitRaises(bar, minutes)
  <2>1. TypeOK'
    BY <1>1, <1>4, EntryStageOrders, EntryStageTypes DEF OnBarExitRaises, CoreInv, TypeOK
  <2>2. QED
    BY <1>3, <1>4, <2>1, EntryStageOrders DEF OnBarExitRaises, CoreInv
<1>5. CASE OnBarHolds(bar, minutes)
  <2>1. TypeOK'
    BY <1>1, <1>5, EntryStageOrders, EntryStageTypes DEF OnBarHolds, CoreInv, TypeOK
  <2>2. QED
    BY <1>3, <1>5, <2>1, EntryStageOrders DEF OnBarHolds, CoreInv
<1>6. CASE OnBarCloses(bar, minutes)
  <2>1. /\ EntryTaken(bar) /\ EntryStage(bar)
        /\ position' = None
        /\ flatten_pending' = FALSE
        /\ Held(bar) # None
        /\ ExitOf(bar, minutes).reason # "none"
        /\ ~ExitRaises(bar, minutes)
    BY <1>6 DEF OnBarCloses
  <2>2. ledger' \in Ledger /\ trades' \in Seq(Trade) /\ returned' \subseteq Fill
    <3> DEFINE held  == Held(bar)
               exit  == ExitOf(bar, minutes)
               fill  == ExitFill(held.intent, exit.reason,
                          ExitReference(held.intent, held.entry, exit.reason, bar), bar)
               trade == CloseTrade(held.intent.signal.direction, held.entry, fill,
                                   exit.ambiguity)
    <3>1. /\ ledger' = AfterExit(LedgerIn(bar), trade)
          /\ trades' = Append(trades, trade)
          /\ returned' = returned \cup EntryFills(bar) \cup {fill}
      BY <1>6 DEF OnBarCloses
    <3>2. /\ fill \in Fill
          /\ trade \in Trade
          /\ AfterExit(LedgerIn(bar), trade) \in Ledger
      BY <2>1, ExitTypes
    <3> HIDE DEF fill, trade
    <3>3. EntryFills(bar) \subseteq Fill /\ trades \in Seq(Trade) /\ returned \subseteq Fill
      BY <2>1, EntryStageTypes DEF CoreInv, TypeOK
    <3>4. QED
      BY <3>1, <3>2, <3>3
  <2>3. TypeOK'
    BY <1>1, <2>1, <2>2, EntryStageOrders DEF TypeOK
  <2>4. QED
    BY <2>1, <2>3, EntryStageOrders DEF CoreInv, OneOrderOrPosition, IsFlat
<1>7. QED
  BY <1>2, <1>4, <1>5, <1>6 DEF OnBar

(* CoreInv is inductive.                                                   *)
LEMMA CoreStep == CoreInv /\ [Next]_vars => CoreInv'
<1> SUFFICES ASSUME CoreInv, [Next]_vars PROVE CoreInv'
  OBVIOUS
<1>1. CASE UNCHANGED vars
  BY <1>1 DEF vars, CoreInv, TypeOK, WorkingIsTheAcceptedOrder, Status,
     OneOrderOrPosition, IsFlat
<1>2. CASE Next
  BY <1>2, SubmitCore, CancelCore, FlattenCore, OnBarCore DEF Next
<1>3. QED
  BY <1>1, <1>2

LEMMA CoreInvariant == Spec => []CoreInv
  BY CoreInit, CoreStep, PTL DEF Spec

(* Type correctness, with the checks OrderRecord and Fill make of every    *)
(* record and every fill: nothing the code would refuse to build is there. *)
THEOREM TypeCorrect == Spec => []TypeOK
<1>1. CoreInv => TypeOK
  BY DEF CoreInv
<1>2. QED
  BY <1>1, CoreInvariant, PTL

(* One working order or position at a time, and the working order is the   *)
(* one accepted order there is, whatever was called and whatever raised.   *)
THEOREM OneExposureAtATime == Spec => []OneExposure
<1>1. CoreInv => OneExposure
  BY DEF CoreInv, OneExposure
<1>2. QED
  BY <1>1, CoreInvariant, PTL

-----------------------------------------------------------------------------
(* Cash.  The two legs of a round trip move cash by the trade's gross less *)
(* its costs, for a long and for a short alike.                            *)
LEMMA RoundTripCash ==
  ASSUME NEW d \in {"LONG", "SHORT"}, NEW entry \in Fill, NEW exit \in Fill, NEW a,
         entry.side = EntrySide(d), exit.side = ExitSide(d),
         entry.quantity = exit.quantity
  PROVE  LET trade == CloseTrade(d, entry, exit, a)
         IN  CashDelta(entry) + CashDelta(exit) = trade.gross_pnl - trade.costs
<1> DEFINE q == entry.quantity
           p == entry.price
           x == exit.price
<1>1. /\ q \in Int /\ p \in Int /\ x \in Int
      /\ entry.costs \in Int /\ exit.costs \in Int
  BY DEF Fill
<1>2. (x - p) * q = x * q - p * q /\ (p - x) * q = p * q - x * q
  BY <1>1
<1>3. /\ p * q \in Int /\ x * q \in Int
      /\ (x - p) * q \in Int /\ (p - x) * q \in Int
  BY <1>1
<1>4. CASE IsLong(d)
  <2>1. entry.side = "BUY" /\ exit.side = "SELL"
    BY <1>4 DEF EntrySide, ExitSide
  <2>2. /\ CashDelta(entry) = - (p * q) - entry.costs
        /\ CashDelta(exit) = x * q - exit.costs
        /\ CloseTrade(d, entry, exit, a).gross_pnl = (x - p) * q
        /\ CloseTrade(d, entry, exit, a).costs = entry.costs + exit.costs
    BY <2>1, <1>4 DEF CashDelta, CloseTrade
  <2> HIDE DEF p, q, x
  <2>3. QED
    BY <1>1, <1>2, <1>3, <2>2
<1>5. CASE ~IsLong(d)
  <2>1. entry.side = "SELL" /\ exit.side = "BUY"
    BY <1>5 DEF EntrySide, ExitSide
  <2>2. /\ CashDelta(entry) = p * q - entry.costs
        /\ CashDelta(exit) = - (x * q) - exit.costs
        /\ CloseTrade(d, entry, exit, a).gross_pnl = (p - x) * q
        /\ CloseTrade(d, entry, exit, a).costs = entry.costs + exit.costs
    BY <2>1, <1>5 DEF CashDelta, CloseTrade
  <2> HIDE DEF p, q, x
  <2>3. QED
    BY <1>1, <1>2, <1>3, <2>2
<1>6. QED
  BY <1>4, <1>5

(* The held position was entered on its intent's side, for its quantity:   *)
(* what PositionBook.enter checks, and what makes the round trip add up.   *)
Matches(held) ==
  /\ held.entry.side = EntrySide(held.intent.signal.direction)
  /\ held.entry.quantity = held.intent.quantity

CashInv == (~IsFlat => Matches(position)) /\ CashReconciles

(* The balance a ledger must show, given the position held with it.        *)
Reconciled(l, held, n) ==
  /\ l.cash = StartingCapital + l.gross - l.costs
                + (IF held = None THEN 0 ELSE CashDelta(held.entry))
  /\ l.closed_trades = n

(* The entry stage keeps the balance reconciled with what it hands on.     *)
LEMMA EntryStageCash ==
  ASSUME CoreInv, CashInv, NEW bar \in Bars, EntryTaken(bar)
  PROVE  /\ Held(bar) # None => Matches(Held(bar))
         /\ Reconciled(LedgerIn(bar), Held(bar), Len(trades))
<1>1. CASE ~EntryBar(bar)
  BY <1>1, EntryStageTypes DEF CashInv, CashReconciles, Reconciled, IsFlat
<1>2. CASE EntryBar(bar)
  <2> DEFINE intent == IntentOf(orders[working])
             fill   == FillOfEntry(bar)
  <2>1. /\ position = None
        /\ intent \in Intent
        /\ fill \in Fill
        /\ Held(bar) # None
        /\ Held(bar) = [intent |-> intent, entry |-> fill]
    BY <1>2, EntryStageTypes DEF EntryBar
  <2>2. fill.side = EntrySide(intent.signal.direction) /\ fill.quantity = intent.quantity
    BY <2>1, EntryFillType DEF FillOfEntry
  <2>3. CashDelta(fill) \in Int
    BY <2>1 DEF CashDelta, Fill
  <2>4. LedgerIn(bar) = AfterEntry(ledger, fill)
    BY <1>2 DEF LedgerIn
  <2> HIDE DEF intent, fill
  <2>5. Matches(Held(bar))
    BY <2>1, <2>2 DEF Matches
  <2>6. ledger \in Ledger /\ Reconciled(ledger, None, Len(trades))
    BY <2>1 DEF CashInv, CashReconciles, Reconciled, IsFlat, CoreInv, TypeOK
  <2>7. /\ LedgerIn(bar).cash = ledger.cash + CashDelta(fill)
        /\ LedgerIn(bar).gross = ledger.gross
        /\ LedgerIn(bar).costs = ledger.costs
        /\ LedgerIn(bar).closed_trades = ledger.closed_trades
    BY <2>4, <2>6 DEF AfterEntry, Ledger
  <2>8. Held(bar).entry = fill
    BY <2>1
  <2>9. Reconciled(LedgerIn(bar), Held(bar), Len(trades))
    BY <2>1, <2>3, <2>6, <2>7, <2>8, PaperAssumption DEF Reconciled, Ledger
  <2>10. QED
    BY <2>5, <2>9
<1>3. QED
  BY <1>1, <1>2

(* The two legs of a round trip are its gross result less its costs, so    *)
(* settling the second takes the first out of the balance.                 *)
LEMMA SettledSum ==
  ASSUME NEW capital \in Int, NEW gross \in Int, NEW costs \in Int,
         NEW entered \in Int, NEW exited \in Int, NEW pnl \in Int, NEW charged \in Int,
         entered + exited = pnl - charged
  PROVE  (capital + gross - costs + entered) + exited
           = capital + (gross + pnl) - (costs + charged) + 0
  OBVIOUS

(* The exit leg settles the trade and leaves a flat book reconciled.       *)
LEMMA CloseCash ==
  ASSUME CoreInv, CashInv, NEW bar \in Bars, NEW minutes, OnBarCloses(bar, minutes)
  PROVE  CashInv'
<1> DEFINE held  == Held(bar)
           exit  == ExitOf(bar, minutes)
           fill  == ExitFill(held.intent, exit.reason,
                      ExitReference(held.intent, held.entry, exit.reason, bar), bar)
           trade == CloseTrade(held.intent.signal.direction, held.entry, fill,
                               exit.ambiguity)
           l     == LedgerIn(bar)
<1>1. /\ held # None
      /\ ledger' = AfterExit(l, trade)
      /\ trades' = Append(trades, trade)
      /\ position' = None
  BY DEF OnBarCloses
<1>2. /\ held \in Position
      /\ fill \in Fill
      /\ fill.side = ExitSide(held.intent.signal.direction)
      /\ fill.quantity = held.intent.quantity
      /\ trade \in Trade
      /\ trade.exit = fill
  BY ExitTypes DEF OnBarCloses
<1>3. Matches(held) /\ Reconciled(l, held, Len(trades)) /\ l \in Ledger
  BY <1>1, EntryStageCash, EntryStageTypes DEF OnBarCloses
<1>4. CashDelta(held.entry) + CashDelta(fill) = trade.gross_pnl - trade.costs
  <2>1. held.intent.signal.direction \in {"LONG", "SHORT"} /\ held.entry \in Fill
    BY <1>2, SignalType DEF Position, Intent
  <2> HIDE DEF held, fill
  <2>2. QED
    BY <1>2, <1>3, <2>1, RoundTripCash DEF Matches
<1>5. /\ CashDelta(held.entry) \in Int /\ CashDelta(fill) \in Int
      /\ trade.gross_pnl \in Int /\ trade.costs \in Int
  <2>1. held.entry \in Fill
    BY <1>2 DEF Position
  <2> HIDE DEF held, fill, trade
  <2>2. QED
    BY <1>2, <2>1 DEF CashDelta, Fill, Trade
<1>6. trades \in Seq(Trade)
  BY DEF CoreInv, TypeOK
<1> HIDE DEF held, exit, fill, trade, l
<1>7. Len(trades') = Len(trades) + 1
  BY <1>1, <1>2, <1>6
<1>8. /\ ledger'.cash = l.cash + CashDelta(fill)
      /\ ledger'.gross = l.gross + trade.gross_pnl
      /\ ledger'.costs = l.costs + trade.costs
      /\ ledger'.closed_trades = l.closed_trades + 1
  BY <1>1, <1>2 DEF AfterExit
<1>9. Reconciled(ledger', None, Len(trades'))
  <2>1. /\ l.cash = StartingCapital + l.gross - l.costs + CashDelta(held.entry)
        /\ l.closed_trades = Len(trades)
    BY <1>1, <1>3 DEF Reconciled
  <2>2. l.cash \in Int /\ l.gross \in Int /\ l.costs \in Int /\ StartingCapital \in Int
    BY <1>3, PaperAssumption DEF Ledger
  <2>3. ledger'.cash = StartingCapital + ledger'.gross - ledger'.costs + 0
    <3>1. ledger'.cash = (StartingCapital + l.gross - l.costs + CashDelta(held.entry)) + CashDelta(fill)
      BY <1>8, <2>1
    <3>2. @ = StartingCapital + (l.gross + trade.gross_pnl) - (l.costs + trade.costs) + 0
      BY <1>4, <1>5, <2>2, SettledSum
    <3>3. QED
      BY <1>8, <3>1, <3>2
  <2>4. ledger'.closed_trades = Len(trades')
    BY <1>7, <1>8, <2>1
  <2>5. QED
    BY <2>3, <2>4 DEF Reconciled
<1>10. QED
  BY <1>1, <1>9 DEF CashInv, CashReconciles, Reconciled, IsFlat

LEMMA CashStep == CoreInv /\ CashInv /\ [Next]_vars => CashInv'
<1> SUFFICES ASSUME CoreInv, CashInv, [Next]_vars PROVE CashInv'
  OBVIOUS
<1>1. CASE UNCHANGED <<position, ledger, trades>>
  BY <1>1 DEF CashInv, CashReconciles, IsFlat, Matches
<1>2. ASSUME NEW bar \in Bars, NEW minutes, OnBar(bar, minutes)
      PROVE  CashInv'
  <2>1. CASE OnBarEntryRaises(bar)
    BY <1>1, <2>1 DEF OnBarEntryRaises
  <2>2. CASE /\ EntryTaken(bar) /\ position' = Held(bar)
             /\ ledger' = LedgerIn(bar) /\ UNCHANGED trades
    BY <2>2, EntryStageCash DEF CashInv, CashReconciles, Reconciled, IsFlat, Matches
  <2>3. CASE OnBarCloses(bar, minutes)
    BY <2>3, CloseCash
  <2>4. QED
    BY <1>2, <2>1, <2>2, <2>3 DEF OnBar, OnBarExitRaises, OnBarHolds
<1>3. QED
  BY <1>1, <1>2 DEF Next, vars, Submit, Cancel, Flatten

(* Cash is the starting capital plus what the trade log realized, adjusted *)
(* by the entry of the held position and nothing else.                     *)
THEOREM CashAlwaysReconciles == Spec => []CashReconciles
<1>1. Init => CashInv
  BY PaperAssumption DEF Init, CashInv, CashReconciles, IsFlat, Funded
<1>2. CashInv => CashReconciles
  BY DEF CashInv
<1>3. QED
  BY <1>1, <1>2, CashStep, CoreInvariant, PTL DEF Spec
-----------------------------------------------------------------------------
(* The adapter implements the port: each of its steps is one step of the   *)
(* lifecycle, or one its callers cannot see.                               *)

(* Replacing one record replaces one status.                               *)
LEMMA StatusOfReplaced ==
  ASSUME TypeOK, NEW id \in ClientIds, NEW record \in OrderRecord,
         orders' = [orders EXCEPT ![id] = record]
  PROVE  PortStatus' = [PortStatus EXCEPT ![id] = record.status]
<1>1. ASSUME NEW x \in ClientIds
      PROVE  Status(x)' = IF x = id THEN record.status ELSE Status(x)
  BY <1>1, NoneAssumption DEF TypeOK, Status
<1>2. QED
  BY <1>1 DEF PortStatus

(* The working order as the port sees it.                                  *)
LEMMA PortWorking ==
  ASSUME CoreInv, working # None
  PROVE  working \in ClientIds /\ PortStatus[working] = "accepted" /\ IsFlat
BY WorkingOrder, NoneAssumption DEF PortStatus, Status, IsFlat

LEMMA SubmitOfPort ==
  ASSUME CoreInv, NEW id \in ClientIds, NEW s \in Signals, NEW q \in Quantities,
         Submit(id, s, q)
  PROVE  Port!Submit(id)
<1> DEFINE reasons == Reasons(s, q)
           status  == IF reasons = {} THEN "accepted" ELSE "rejected"
           record  == Order(s, q, status, reasons)
<1>1. /\ orders[id] = None
      /\ orders' = [orders EXCEPT ![id] = record]
      /\ UNCHANGED <<position, trades>>
  BY DEF Submit
<1>2. record \in OrderRecord /\ record.status = status
  BY SubmittedOrder
<1>3. reasons = {} => ~Port!Busy
  <2>1. reasons = {} => working = None /\ IsFlat
    BY DEF Reasons, ReasonCodes, Active
  <2>2. working = None => \A x \in ClientIds : PortStatus[x] # "accepted"
    BY NoneAssumption DEF PortStatus, CoreInv, WorkingIsTheAcceptedOrder
  <2>3. QED
    BY <2>1, <2>2 DEF Port!Busy
<1> HIDE DEF reasons, record
<1>4. PortStatus' = [PortStatus EXCEPT ![id] = status]
  BY <1>1, <1>2, StatusOfReplaced DEF CoreInv
<1>5. PortStatus[id] = "none"
  BY <1>1 DEF PortStatus, Status
<1>6. UNCHANGED <<~IsFlat, Len(trades)>>
  BY <1>1 DEF IsFlat
<1>7. QED
  BY <1>3, <1>4, <1>5, <1>6 DEF Port!Submit

(* The working order leaves ACCEPTED for a status without a fill.          *)
LEMMA LeaveOfPort ==
  ASSUME CoreInv, working # None, NEW outcome \in {"cancelled", "expired"},
         orders' = [orders EXCEPT ![working] = Finished(@, outcome, None)]
  PROVE  Port!Leave(working, outcome)
<1> DEFINE record == Finished(orders[working], outcome, None)
<1>1. record \in OrderRecord /\ record.status = outcome
  BY WorkingOrder DEF OrderRecord, Statuses, Finished
<1>2. orders' = [orders EXCEPT ![working] = record]
  BY WorkingOrder DEF CoreInv, TypeOK
<1> HIDE DEF record
<1>3. PortStatus' = [PortStatus EXCEPT ![working] = outcome]
  BY <1>1, <1>2, StatusOfReplaced, PortWorking DEF CoreInv
<1>4. QED
  BY <1>3, PortWorking DEF Port!Leave

LEMMA CancelOfPort ==
  ASSUME CoreInv, NEW id \in ClientIds, Cancel(id)
  PROVE  Port!Cancel(id)
<1>1. working = id /\ working # None
  BY NoneAssumption DEF Cancel, Cancellable, CoreInv, WorkingIsTheAcceptedOrder, Status
<1>2. orders' = [orders EXCEPT ![working] = Finished(@, "cancelled", None)]
  BY <1>1 DEF Cancel
<1>3. Port!Leave(id, "cancelled")
  BY <1>1, <1>2, LeaveOfPort
<1>4. QED
  BY <1>3 DEF Cancel, Port!Cancel, IsFlat

LEMMA FlattenOfPort ==
  ASSUME CoreInv, Flatten
  PROVE  \/ UNCHANGED Port!port
         \/ working \in ClientIds /\ Port!Cancel(working)
<1>1. UNCHANGED <<position, trades>>
  BY DEF Flatten
<1>2. CASE working = None /\ UNCHANGED <<orders, working>>
  BY <1>1, <1>2 DEF Port!port, PortStatus, Status, IsFlat
<1>3. CASE /\ working # None
           /\ orders' = [orders EXCEPT ![working] = Finished(@, "cancelled", None)]
  <2>1. Port!Leave(working, "cancelled")
    BY <1>3, LeaveOfPort
  <2>2. QED
    BY <1>1, <1>3, <2>1, PortWorking DEF Port!Cancel, IsFlat
<1>4. QED
  BY <1>2, <1>3 DEF Flatten

(* What the entry stage of a bar is to the port.                           *)
LEMMA EntryStageOfPort ==
  ASSUME CoreInv, NEW bar \in Bars, EntryTaken(bar), EntryStage(bar)
  PROVE  /\ ~EntryDue(bar) => UNCHANGED PortStatus
         /\ EntryDue(bar) => working \in ClientIds /\ IsFlat
         /\ EntryDue(bar) /\ ~EntryBar(bar) =>
              Port!Leave(working, "expired") /\ Held(bar) = None
         /\ EntryBar(bar) => Port!Leave(working, "filled") /\ Held(bar) # None
         /\ ~EntryBar(bar) => Held(bar) = position
<1>1. CASE ~EntryDue(bar)
  BY <1>1 DEF EntryStage, EntryBar, PortStatus, Status, Held
<1>2. CASE EntryDue(bar) /\ ~EntryBar(bar)
  <2>1. /\ working # None
        /\ orders' = [orders EXCEPT ![working] = Finished(@, "expired", None)]
    BY <1>2 DEF EntryStage, EntryDue
  <2>2. Port!Leave(working, "expired")
    BY <2>1, LeaveOfPort
  <2>3. QED
    BY <1>2, <2>1, <2>2, PortWorking DEF Held, IsFlat
<1>3. CASE EntryBar(bar)
  <2> DEFINE record == Finished(orders[working], "filled", FillOfEntry(bar))
  <2>1. /\ working # None
        /\ orders' = [orders EXCEPT ![working] = record]
    BY <1>3, WorkingOrder DEF EntryStage, EntryDue, EntryBar, CoreInv, TypeOK
  <2>2. FillOfEntry(bar) \in Fill /\ Held(bar) # None
    BY <1>3, EntryStageTypes
  <2>3. record \in OrderRecord /\ record.status = "filled"
    BY <2>1, <2>2, WorkingOrder, NoneAssumption DEF OrderRecord, Statuses, Finished
  <2> HIDE DEF record
  <2>4. PortStatus' = [PortStatus EXCEPT ![working] = "filled"]
    BY <2>1, <2>3, StatusOfReplaced, PortWorking DEF CoreInv
  <2>5. Port!Leave(working, "filled")
    BY <2>1, <2>4, PortWorking DEF Port!Leave
  <2>6. QED
    BY <1>3, <2>1, <2>2, <2>5, PortWorking DEF EntryBar
<1>4. QED
  BY <1>1, <1>2, <1>3 DEF EntryBar

LEMMA OnBarOfPort ==
  ASSUME CoreInv, CoreInv', NEW bar \in Bars, NEW minutes, OnBar(bar, minutes)
  PROVE  [Port!Next]_(Port!port)
<1>1. CASE OnBarEntryRaises(bar)
  BY <1>1 DEF OnBarEntryRaises, Port!port, PortStatus, Status, IsFlat
<1>2. ASSUME EntryTaken(bar), EntryStage(bar), position' = Held(bar), UNCHANGED trades
      PROVE  [Port!Next]_(Port!port)
  <2>1. CASE ~EntryDue(bar)
    BY <1>2, <2>1, EntryStageOfPort DEF Port!port, IsFlat, EntryBar
  <2>2. CASE EntryDue(bar) /\ ~EntryBar(bar)
    <3>1. Port!Leave(working, "expired") /\ IsFlat /\ IsFlat' /\ working \in ClientIds
      BY <1>2, <2>2, EntryStageOfPort DEF IsFlat
    <3>2. Port!Expire(working)
      BY <1>2, <3>1 DEF Port!Expire
    <3>3. QED
      BY <3>1, <3>2 DEF Port!Next
  <2>3. CASE EntryBar(bar)
    <3>1. Port!Leave(working, "filled") /\ ~IsFlat' /\ working \in ClientIds
      BY <1>2, <2>3, EntryStageOfPort DEF IsFlat, EntryBar
    <3>2. Port!Enter(working)
      BY <1>2, <3>1 DEF Port!Enter
    <3>3. QED
      BY <3>1, <3>2 DEF Port!Next
  <2>4. QED
    BY <2>1, <2>2, <2>3
<1>3. CASE OnBarExitRaises(bar, minutes)
  BY <1>2, <1>3 DEF OnBarExitRaises
<1>4. CASE OnBarHolds(bar, minutes)
  BY <1>2, <1>4 DEF OnBarHolds
<1>5. CASE OnBarCloses(bar, minutes)
  <2>1. EntryTaken(bar) /\ EntryStage(bar) /\ IsFlat' /\ Held(bar) # None
    BY <1>5 DEF OnBarCloses, IsFlat
  <2>2. Len(trades)' = Len(trades) + 1
    <3>1. PICK trade : trades' = Append(trades, trade)
      BY <1>5 DEF OnBarCloses
    <3>2. trades \in Seq(Trade) /\ trades' \in Seq(Trade)
      BY DEF CoreInv, TypeOK
    <3>3. QED
      BY <3>1, <3>2
  <2>3. CASE ~EntryDue(bar)
    <3>1. ~IsFlat /\ UNCHANGED PortStatus
      BY <2>1, <2>3, EntryStageOfPort DEF IsFlat, EntryBar
    <3>2. Port!Exit
      BY <2>1, <2>2, <3>1 DEF Port!Exit
    <3>3. QED
      BY <3>2 DEF Port!Next
  <2>4. CASE EntryDue(bar)
    <3>1. Port!Leave(working, "filled") /\ working \in ClientIds
      BY <2>1, <2>4, EntryStageOfPort
    <3>2. Port!Enter(working)
      BY <2>1, <2>2, <3>1 DEF Port!Enter
    <3>3. QED
      BY <3>1, <3>2 DEF Port!Next
  <2>5. QED
    BY <2>3, <2>4
<1>6. QED
  BY <1>1, <1>3, <1>4, <1>5 DEF OnBar

LEMMA PortInit == Init => Port!Init
BY NoneAssumption DEF Init, Port!Init, PortStatus, Status, IsFlat

LEMMA PortStep == CoreInv /\ CoreInv' /\ [Next]_vars => [Port!Next]_(Port!port)
<1> SUFFICES ASSUME CoreInv, CoreInv', [Next]_vars
             PROVE  [Port!Next]_(Port!port)
  OBVIOUS
<1>1. CASE UNCHANGED vars
  BY <1>1 DEF vars, Port!port, PortStatus, Status, IsFlat
<1>2. ASSUME NEW id \in ClientIds, NEW s \in Signals, NEW q \in Quantities,
             Submit(id, s, q)
      PROVE  Port!Next
  BY <1>2, SubmitOfPort DEF Port!Next
<1>3. ASSUME NEW id \in ClientIds, Cancel(id) PROVE Port!Next
  BY <1>3, CancelOfPort DEF Port!Next
<1>4. CASE Flatten
  BY <1>4, FlattenOfPort DEF Port!Next
<1>5. QED
  BY <1>1, <1>2, <1>3, <1>4, OnBarOfPort DEF Next

(* The paper adapter implements the execution port: for every feed and     *)
(* every order of calls, what its callers see is a behaviour of the        *)
(* documented lifecycle.                                                   *)
THEOREM PortImplemented == Spec => ImplementsExecutionPort
  BY CoreInvariant, PortInit, PortStep, PTL DEF Spec, ImplementsExecutionPort, Port!Spec

-----------------------------------------------------------------------------
(* Over time.                                                              *)

(* What is held was entered on the bar after its signal, at its open, and  *)
(* that bar has been consumed.                                             *)
EnteredOn(held, bar_start) ==
  /\ held.entry.bar_start = held.intent.entry_bar_start
  /\ held.entry.occurred_at = held.entry.bar_start
  /\ held.entry.bar_start <= bar_start

HeldIsEntered == ~IsFlat => EnteredOn(position, last_bar_start)

(* A trade is in time: entered at an open, left on a bar that is now       *)
(* consumed, at the latest at its close.                                   *)
InTime(trade, bar_start) ==
  /\ trade.entry.occurred_at = trade.entry.bar_start
  /\ trade.entry.bar_start <= trade.exit.bar_start
  /\ trade.entry.occurred_at <= trade.exit.occurred_at
  /\ trade.exit.bar_start <= bar_start
  /\ trade.exit.occurred_at <= trade.exit.bar_start + Interval
  /\ \E b \in Bars : b.start = trade.exit.bar_start

(* The next entry is on a later bar.                                       *)
Before(trade, entry) ==
  /\ trade.exit.bar_start < entry.bar_start
  /\ trade.exit.occurred_at <= entry.occurred_at

TradesInTime ==
  /\ \A i \in DOMAIN trades : InTime(trades[i], last_bar_start)
  /\ \A i, j \in DOMAIN trades : i < j => Before(trades[i], trades[j].entry)
  /\ ~IsFlat => \A i \in DOMAIN trades : Before(trades[i], position.entry)

-----------------------------------------------------------------------------
(* An entry executes on its bar or never.                                  *)
LEMMA StaleStep == CoreInv /\ NoStaleEntry /\ [Next]_vars => NoStaleEntry'
<1> SUFFICES ASSUME CoreInv, NoStaleEntry, [Next]_vars PROVE NoStaleEntry'
  OBVIOUS
<1>1. CASE UNCHANGED <<orders, working, last_bar_start>>
  BY <1>1 DEF NoStaleEntry
<1>2. CASE working' = None
  BY <1>2 DEF NoStaleEntry
<1>3. ASSUME NEW id \in ClientIds, NEW s \in Signals, NEW q \in Quantities, Submit(id, s, q)
      PROVE  NoStaleEntry'
  <2> DEFINE reasons == Reasons(s, q)
             record  == Order(s, q, IF reasons = {} THEN "accepted" ELSE "rejected", reasons)
  <2>1. /\ orders[id] = None /\ last_bar_start' = last_bar_start
        /\ orders' = [orders EXCEPT ![id] = record]
        /\ working' = IF reasons = {} THEN id ELSE working
    BY <1>3 DEF Submit
  <2>2. record.signal = s
    BY DEF Order
  <2>3. reasons = {} => ~AlreadyPassed(s)
    BY DEF Reasons, ReasonCodes
  <2>4. orders \in [ClientIds -> OrderRecord \cup {None}] /\ last_bar_start \in Int
    BY DEF CoreInv, TypeOK, NoBar
  <2> HIDE DEF reasons, record
  <2>5. CASE reasons = {}
    <3>1. working' = id /\ orders'[id].signal = s
      BY <2>1, <2>2, <2>4, <2>5
    <3>2. last_bar_start < EntryBarStart(s)
      BY <2>3, <2>4, <2>5, SignalType DEF AlreadyPassed
    <3>3. EntryBarStart(orders[working].signal)' = EntryBarStart(s)
      BY <3>1 DEF EntryBarStart
    <3>4. QED
      BY <2>1, <2>4, <3>2, <3>3, SignalType DEF NoStaleEntry
  <2>6. CASE reasons # {} /\ working # None
    <3>1. working # id
      BY <2>1, <2>6, WorkingOrder, NoneAssumption
    <3>2. working' = working /\ orders'[working] = orders[working]
      BY <2>1, <2>4, <2>6, <3>1, WorkingOrder
    <3>3. QED
      BY <2>1, <2>6, <3>2 DEF NoStaleEntry
  <2>7. QED
    BY <1>2, <2>1, <2>5, <2>6
<1>4. ASSUME NEW bar \in Bars, NEW minutes, OnBar(bar, minutes)
      PROVE  NoStaleEntry'
  <2> SUFFICES ASSUME working' # None PROVE NoStaleEntry'
    BY <1>2
  <2>1. last_bar_start' = bar.start
    BY <1>4 DEF OnBar, OnBarEntryRaises, OnBarExitRaises, OnBarHolds, OnBarCloses, NextBar
  <2>2. CASE OnBarEntryRaises(bar)
    <3>1. /\ bar.start = EntryBarStart(orders[working].signal)
          /\ ~Enterable(orders[working].signal.direction, bar)
          /\ UNCHANGED <<orders, working>>
      BY <2>2 DEF OnBarEntryRaises, EntryTaken, EntryBar
    <3>2. QED
      BY <2>1, <3>1, BarType DEF NoStaleEntry
  <2>3. CASE EntryTaken(bar) /\ EntryStage(bar)
    <3>1. ~EntryDue(bar) /\ UNCHANGED <<orders, working>>
      BY <2>3, EntryStageOrders
    <3>2. ~(bar.start >= EntryBarStart(orders[working].signal))
      BY <3>1 DEF EntryDue
    <3>3. bar.start < EntryBarStart(orders[working].signal)
      BY <3>1, <3>2, BarType, SignalType, WorkingOrder
    <3>4. EntryBarStart(orders[working].signal) \in Int /\ bar.start \in Int
      BY <3>1, BarType, SignalType, WorkingOrder
    <3>5. QED
      BY <2>1, <3>1, <3>3, <3>4 DEF NoStaleEntry
  <2>4. QED
    BY <1>4, <2>2, <2>3 DEF OnBar, OnBarExitRaises, OnBarHolds, OnBarCloses
<1>5. CASE UNCHANGED vars
  BY <1>1, <1>5 DEF vars
<1>6. ASSUME NEW id \in ClientIds, Cancel(id) PROVE NoStaleEntry'
  BY <1>2, <1>6 DEF Cancel
<1>7. CASE Flatten
  BY <1>1, <1>2, <1>7 DEF Flatten
<1>8. QED
  BY <1>3, <1>4, <1>5, <1>6, <1>7 DEF Next

(* An entry order outlives the bar after its signal only if that bar had   *)
(* no trades or no positive price for it, and it never executes on a later *)
(* one.                                                                    *)
THEOREM EntriesAreNeverStale == Spec => []NoStaleEntry
<1>1. Init => NoStaleEntry
  BY DEF Init, NoStaleEntry
<1>2. QED
  BY <1>1, StaleStep, CoreInvariant, PTL DEF Spec

-----------------------------------------------------------------------------
(* The moments of the fills of a bar.                                      *)
LEMMA EntryMoment ==
  ASSUME NEW intent \in Intent, NEW bar \in Bars
  PROVE  EntryFill(intent, bar).occurred_at = bar.start
BY DEF EntryFill, MakeFill

LEMMA ExitIsWithinBar ==
  ASSUME NEW intent, NEW reason, NEW reference, NEW bar \in Bars
  PROVE  LET fill == ExitFill(intent, reason, reference, bar)
         IN  /\ fill.bar_start = bar.start
             /\ bar.start <= fill.occurred_at
             /\ fill.occurred_at <= bar.start + Interval
<1>1. /\ bar.start <= ExitMoment(intent, reason, bar)
      /\ ExitMoment(intent, reason, bar) <= bar.start + Interval
  BY BarType, ExecutionAssumption DEF ExitMoment, BarEnd
<1>2. QED
  BY <1>1 DEF ExitFill, MakeFill

(* Consuming a bar keeps every trade in time.                              *)
LEMMA ConsumedInTime ==
  ASSUME CoreInv, TradesInTime, NEW bar \in Bars, NextBar(bar)
  PROVE  \A i \in DOMAIN trades : InTime(trades[i], bar.start)
<1>1. /\ bar.start \in Nat /\ last_bar_start \in Int /\ last_bar_start < bar.start
      /\ Interval \in Nat
  BY BarType, ExecutionAssumption DEF NextBar, CoreInv, TypeOK, NoBar
<1>2. ASSUME NEW i \in DOMAIN trades
      PROVE  /\ trades[i].entry \in Fill /\ trades[i].exit \in Fill
             /\ InTime(trades[i], last_bar_start)
  <2>1. trades[i] \in Trade
    BY <1>2 DEF CoreInv, TypeOK
  <2>2. QED
    BY <1>2, <2>1 DEF Trade, TradesInTime
<1>3. QED
  BY <1>1, <1>2 DEF InTime, Fill

(* What the exit stage starts from is entered in time, after every trade.  *)
LEMMA EntryStageTime ==
  ASSUME CoreInv, HeldIsEntered, TradesInTime, NEW bar \in Bars, EntryTaken(bar),
         NextBar(bar)
  PROVE  /\ Held(bar) # None =>
              /\ EnteredOn(Held(bar), bar.start)
              /\ \A i \in DOMAIN trades : Before(trades[i], Held(bar).entry)
         /\ \A i \in DOMAIN trades : InTime(trades[i], bar.start)
<1>1. /\ bar.start \in Nat /\ last_bar_start \in Int /\ last_bar_start < bar.start
      /\ Interval \in Nat
  BY BarType, ExecutionAssumption DEF NextBar, CoreInv, TypeOK, NoBar
<1>2. ASSUME NEW i \in DOMAIN trades
      PROVE  /\ trades[i].entry \in Fill /\ trades[i].exit \in Fill
             /\ InTime(trades[i], last_bar_start)
  <2>1. trades[i] \in Trade
    BY <1>2 DEF CoreInv, TypeOK
  <2>2. QED
    BY <1>2, <2>1 DEF Trade, TradesInTime
<1>3. \A i \in DOMAIN trades : InTime(trades[i], bar.start)
  BY ConsumedInTime
<1>4. CASE ~EntryBar(bar)
  <2>1. Held(bar) = position
    BY <1>4 DEF Held
  <2>2. position # None => position.entry \in Fill
    BY DEF CoreInv, TypeOK, Position
  <2>3. position # None => EnteredOn(position, bar.start)
    BY <1>1, <2>2 DEF HeldIsEntered, IsFlat, EnteredOn, Fill
  <2>4. QED
    BY <1>3, <2>1, <2>3 DEF TradesInTime, IsFlat
<1>5. CASE EntryBar(bar)
  <2> DEFINE intent == IntentOf(orders[working])
             fill   == FillOfEntry(bar)
  <2>1. intent \in Intent /\ Held(bar) = [intent |-> intent, entry |-> fill]
    BY <1>5, EntryStageTypes
  <2>2. fill.bar_start = bar.start /\ fill.occurred_at = bar.start
    BY <2>1, EntryFillType, EntryMoment DEF FillOfEntry
  <2>3. intent.entry_bar_start = bar.start
    BY <1>5 DEF EntryBar, IntentOf
  <2> HIDE DEF intent, fill
  <2>4. EnteredOn(Held(bar), bar.start)
    BY <1>1, <2>1, <2>2, <2>3 DEF EnteredOn
  <2>5. ASSUME NEW i \in DOMAIN trades
        PROVE  Before(trades[i], fill)
    <3> DEFINE left == trades[i].exit
    <3>1. /\ left \in Fill
          /\ left.bar_start <= last_bar_start
          /\ left.occurred_at <= left.bar_start + Interval
      BY <1>2, <2>5 DEF InTime
    <3>2. PICK b \in Bars : b.start = left.bar_start
      BY <1>2, <2>5 DEF InTime
    <3>3. left.bar_start \in Nat /\ left.occurred_at \in Nat
      BY <3>1 DEF Fill
    <3> HIDE DEF left
    <3>4. left.bar_start < bar.start
      BY <1>1, <3>1, <3>3
    <3>5. left.bar_start + Interval <= bar.start
      BY <3>2, <3>4, GridAssumption
    <3>6. left.occurred_at <= bar.start
      BY <1>1, <3>1, <3>3, <3>5
    <3>7. QED
      BY <2>2, <3>4, <3>6 DEF Before, left
  <2>6. QED
    BY <1>3, <2>1, <2>4, <2>5
<1>6. QED
  BY <1>4, <1>5

(* The trade of a bar that closes the position.                            *)
LEMMA CloseInTime ==
  ASSUME CoreInv, HeldIsEntered, TradesInTime,
         NEW bar \in Bars, NEW minutes, OnBarCloses(bar, minutes)
  PROVE  TradesInTime'
<1> DEFINE held  == Held(bar)
           exit  == ExitOf(bar, minutes)
           fill  == ExitFill(held.intent, exit.reason,
                      ExitReference(held.intent, held.entry, exit.reason, bar), bar)
           trade == CloseTrade(held.intent.signal.direction, held.entry, fill,
                               exit.ambiguity)
<1>1. /\ held # None /\ exit.reason # "none"
      /\ trades' = Append(trades, trade)
      /\ position' = None
      /\ last_bar_start' = bar.start
      /\ NextBar(bar) /\ EntryTaken(bar) /\ ~ExitRaises(bar, minutes)
  BY DEF OnBarCloses, NextBar
<1>2. /\ held \in Position /\ fill \in Fill /\ trade \in Trade
      /\ trade.entry = held.entry /\ trade.exit = fill
  BY <1>1, ExitTypes
<1>3. /\ EnteredOn(held, bar.start)
      /\ \A i \in DOMAIN trades : Before(trades[i], held.entry)
      /\ \A i \in DOMAIN trades : InTime(trades[i], bar.start)
  BY <1>1, EntryStageTime
<1>4. /\ fill.bar_start = bar.start
      /\ bar.start <= fill.occurred_at
      /\ fill.occurred_at <= bar.start + Interval
  BY ExitIsWithinBar
<1> HIDE DEF held, exit, fill, trade
<1>5. InTime(trade, bar.start)
  <2>1. held.entry.occurred_at \in Nat /\ held.entry.bar_start \in Nat
        /\ fill.occurred_at \in Nat /\ bar.start \in Nat
    BY <1>2, BarType DEF Position, Fill
  <2>2. QED
    BY <1>2, <1>3, <1>4, <2>1 DEF InTime, EnteredOn
<1>6. trades \in Seq(Trade)
  BY DEF CoreInv, TypeOK
<1>7. ASSUME NEW i \in DOMAIN trades'
      PROVE  \/ i \in DOMAIN trades /\ trades'[i] = trades[i]
             \/ i = Len(trades) + 1 /\ trades'[i] = trade
  BY <1>1, <1>2, <1>6, <1>7
<1>8. \A i \in DOMAIN trades' : InTime(trades'[i], bar.start)
  BY <1>3, <1>5, <1>7
<1>9. ASSUME NEW i \in DOMAIN trades', NEW j \in DOMAIN trades', i < j
      PROVE  Before(trades'[i], trades'[j].entry)
  <2>1. i \in DOMAIN trades /\ trades'[i] = trades[i]
    <3>1. DOMAIN trades' = 1 .. Len(trades) + 1 /\ DOMAIN trades = 1 .. Len(trades)
          /\ Len(trades) \in Nat
      BY <1>1, <1>2, <1>6
    <3>2. i # Len(trades) + 1
      BY <1>9, <3>1
    <3>3. QED
      BY <1>7, <3>2
  <2>2. CASE j \in DOMAIN trades /\ trades'[j] = trades[j]
    BY <1>9, <2>1, <2>2 DEF TradesInTime
  <2>3. CASE trades'[j] = trade
    BY <1>2, <1>3, <2>1, <2>3
  <2>4. QED
    BY <1>7, <2>2, <2>3
<1>10. QED
  BY <1>1, <1>8, <1>9 DEF TradesInTime, IsFlat

TimeInv == HeldIsEntered /\ TradesInTime /\ HeldPastCutoff

(* The exit stage leaves a position alone past the cutoff only when it     *)
(* cannot close it.                                                        *)
LEMMA HoldInTime ==
  ASSUME CoreInv, TimeInv, NEW bar \in Bars, NEW minutes \in MinuteFeeds(bar),
         OnBarExitRaises(bar, minutes) \/ OnBarHolds(bar, minutes)
  PROVE  TimeInv'
<1>1. /\ position' = Held(bar) /\ trades' = trades
      /\ last_bar_start' = bar.start /\ NextBar(bar) /\ EntryTaken(bar)
      /\ flatten_pending' = flatten_pending
  BY DEF OnBarExitRaises, OnBarHolds, NextBar
<1>2. /\ Held(bar) # None => /\ EnteredOn(Held(bar), bar.start)
                             /\ \A i \in DOMAIN trades : Before(trades[i], Held(bar).entry)
      /\ \A i \in DOMAIN trades : InTime(trades[i], bar.start)
  BY <1>1, EntryStageTime DEF TimeInv
<1>3. HeldIsEntered'
  BY <1>1, <1>2 DEF HeldIsEntered, IsFlat, EnteredOn
<1>4. TradesInTime'
  BY <1>1, <1>2 DEF TimeInv, TradesInTime, IsFlat
<1>5. HeldPastCutoff'
  <2> DEFINE held == Held(bar)
  <2>1. ASSUME held # None, TimeOfDay(bar.start + Interval) >= HardExitTime
        PROVE  CutoffMissed(held, bar.start, flatten_pending)
    <3>1. CASE OnBarExitRaises(bar, minutes)
      <4>1. IF flatten_pending
            THEN ~ExitPriced(held.intent.signal.direction, bar.open)
            ELSE ExitWalkRaises(held.intent, held.entry, bar, minutes)
        BY <3>1 DEF OnBarExitRaises, ExitRaises
      <4>2. EnteredOn(held, bar.start)
        BY <1>2, <2>1
      <4> HIDE DEF held
      <4>3. QED
        BY <4>1, <4>2 DEF ExitWalkRaises, CutoffMissed, LastBarUnpriced, EnteredOn
    <3>2. CASE OnBarHolds(bar, minutes)
      <4>1. HardExitDue(bar)
        BY <2>1 DEF HardExitDue, BarEnd
      <4>2. ExitOf(bar, minutes).reason = "none"
        BY <2>1, <3>2 DEF OnBarHolds
      <4>3. QED
        BY <4>1, <4>2 DEF ExitOf, Resolved
    <3>3. QED
      BY <3>1, <3>2
  <2> HIDE DEF held
  <2>2. position' = held
    BY <1>1 DEF held
  <2>3. QED
    BY <1>1, <2>1, <2>2 DEF HeldPastCutoff, IsFlat, TimeOfDay
<1>6. QED
  BY <1>3, <1>4, <1>5 DEF TimeInv

LEMMA TimeStep == CoreInv /\ TimeInv /\ [Next]_vars => TimeInv'
<1> SUFFICES ASSUME CoreInv, TimeInv, [Next]_vars PROVE TimeInv'
  OBVIOUS
<1>1. CASE /\ UNCHANGED <<position, last_bar_start, trades>>
           /\ flatten_pending => flatten_pending'
  <2>1. (HeldIsEntered /\ TradesInTime)'
    BY <1>1 DEF TimeInv, HeldIsEntered, TradesInTime, IsFlat, EnteredOn, InTime, Before
  <2>2. ASSUME NEW held, NEW start, CutoffMissed(held, start, flatten_pending)
        PROVE  CutoffMissed(held, start, flatten_pending')
    BY <1>1, <2>2 DEF CutoffMissed, LastBarUnpriced
  <2>3. HeldPastCutoff'
    BY <1>1, <2>2 DEF TimeInv, HeldPastCutoff, IsFlat, TimeOfDay
  <2>4. QED
    BY <2>1, <2>3 DEF TimeInv
<1>2. ASSUME NEW bar \in Bars, NEW minutes \in MinuteFeeds(bar), OnBar(bar, minutes)
      PROVE  TimeInv'
  <2>1. CASE OnBarEntryRaises(bar)
    <3>1. /\ position = None /\ position' = None /\ trades' = trades
          /\ last_bar_start' = bar.start /\ NextBar(bar)
      BY <2>1, WorkingOrder DEF OnBarEntryRaises, EntryTaken, EntryBar, EntryDue, NextBar
    <3>2. \A i \in DOMAIN trades : InTime(trades[i], bar.start)
      BY <3>1, ConsumedInTime DEF TimeInv
    <3>3. QED
      BY <3>1, <3>2 DEF TimeInv, HeldIsEntered, TradesInTime, HeldPastCutoff, IsFlat
  <2>2. CASE OnBarCloses(bar, minutes)
    <3>1. position' = None
      BY <2>2 DEF OnBarCloses
    <3>2. TradesInTime'
      BY <2>2, CloseInTime DEF TimeInv
    <3>3. QED
      BY <3>1, <3>2 DEF TimeInv, HeldIsEntered, HeldPastCutoff, IsFlat
  <2>3. CASE OnBarExitRaises(bar, minutes) \/ OnBarHolds(bar, minutes)
    BY <2>3, HoldInTime
  <2>4. QED
    BY <1>2, <2>1, <2>2, <2>3 DEF OnBar
<1>3. QED
  BY <1>1, <1>2 DEF Next, vars, Submit, Cancel, Flatten

LEMMA TimeInvariant == Spec => []TimeInv
<1>1. Init => TimeInv
  BY DEF Init, TimeInv, HeldIsEntered, TradesInTime, HeldPastCutoff, IsFlat
<1>2. QED
  BY <1>1, TimeStep, CoreInvariant, PTL DEF Spec

(* One round trip ends before the next begins, by bar and by moment, and   *)
(* none ends before it began.                                              *)
THEOREM RoundTripsAreOrdered == Spec => []RoundTripsDoNotOverlap
<1>1. TimeInv => RoundTripsDoNotOverlap
  BY DEF TimeInv, TradesInTime, InTime, Before, RoundTripsDoNotOverlap
<1>2. QED
  BY <1>1, TimeInvariant, PTL

(* A position outlives the cutoff of its session only on a bar without     *)
(* trades or without a positive price for the exit it calls for, when      *)
(* entered at its own stop, or in another session.                         *)
THEOREM CutoffIsKept == Spec => []HeldPastCutoff
<1>1. TimeInv => HeldPastCutoff
  BY DEF TimeInv
<1>2. QED
  BY <1>1, TimeInvariant, PTL

-----------------------------------------------------------------------------
(* A round trip that passes the checks of Trade.                           *)
LEMMA RoundTripIsValid ==
  ASSUME NEW d \in {"LONG", "SHORT"}, NEW entry \in Fill, NEW exit \in Fill, NEW a,
         entry.reason = "entry", exit.reason # "entry",
         entry.side = EntrySide(d), exit.side = ExitSide(d),
         entry.quantity = exit.quantity, entry.occurred_at <= exit.occurred_at
  PROVE  ValidTrade(CloseTrade(d, entry, exit, a))
<1>1. PICK trade : trade = CloseTrade(d, entry, exit, a)
  OBVIOUS
<1>2. /\ trade.direction = d /\ trade.entry = entry /\ trade.exit = exit
      /\ trade.costs = entry.costs + exit.costs
      /\ trade.gross_pnl = (IF IsLong(d) THEN exit.price - entry.price
                                         ELSE entry.price - exit.price) * entry.quantity
  BY <1>1 DEF CloseTrade
<1>3. ValidTrade(trade)
  BY <1>2 DEF ValidTrade
<1>4. QED
  BY <1>1, <1>3

ValidInv ==
  /\ ~IsFlat => position.entry.reason = "entry"
  /\ \A i \in DOMAIN trades : ValidTrade(trades[i])

LEMMA HeldByEntry ==
  ASSUME CoreInv, ValidInv, NEW bar \in Bars, EntryTaken(bar), Held(bar) # None
  PROVE  Held(bar).entry.reason = "entry"
<1>1. CASE ~EntryBar(bar)
  BY <1>1 DEF Held, ValidInv, IsFlat
<1>2. CASE EntryBar(bar)
  <2>1. /\ IntentOf(orders[working]) \in Intent
        /\ Held(bar) = [intent |-> IntentOf(orders[working]), entry |-> FillOfEntry(bar)]
    BY <1>2, EntryStageTypes
  <2>2. FillOfEntry(bar).reason = "entry"
    BY <2>1, EntryFillType DEF FillOfEntry
  <2>3. QED
    BY <2>1, <2>2
<1>3. QED
  BY <1>1, <1>2

LEMMA CloseIsValid ==
  ASSUME CoreInv, CashInv, TimeInv, ValidInv, NEW bar \in Bars, NEW minutes,
         OnBarCloses(bar, minutes)
  PROVE  ValidInv'
<1> DEFINE exit == ExitOf(bar, minutes)
           made(held) == ExitFill(held.intent, exit.reason,
                           ExitReference(held.intent, held.entry, exit.reason, bar), bar)
<1>1. PICK held, fill, trade :
        /\ held = Held(bar) /\ fill = made(held)
        /\ trade = CloseTrade(held.intent.signal.direction, held.entry, fill, exit.ambiguity)
  OBVIOUS
<1>2. /\ held # None /\ exit.reason # "none" /\ trades' = Append(trades, trade)
      /\ position' = None /\ NextBar(bar)
      /\ EntryTaken(bar) /\ ~ExitRaises(bar, minutes)
  BY <1>1 DEF OnBarCloses
<1>3. /\ held \in Position /\ fill \in Fill /\ trade \in Trade
      /\ fill.side = ExitSide(held.intent.signal.direction)
      /\ fill.quantity = held.intent.quantity /\ fill.reason # "entry"
  BY <1>1, <1>2, ExitTypes
<1>4. held.entry \in Fill /\ held.intent.signal.direction \in {"LONG", "SHORT"}
  BY <1>3, SignalType DEF Position, Intent
<1>5. Matches(held) /\ held.entry.reason = "entry"
  BY <1>1, <1>2, EntryStageCash, HeldByEntry
<1>6. held.entry.occurred_at <= fill.occurred_at
  <2>1. EnteredOn(held, bar.start) /\ bar.start <= fill.occurred_at
    BY <1>1, <1>2, EntryStageTime, ExitIsWithinBar DEF TimeInv
  <2>2. /\ held.entry.occurred_at \in Nat /\ held.entry.bar_start \in Nat
        /\ fill.occurred_at \in Nat /\ bar.start \in Nat
    BY <1>3, <1>4, BarType DEF Fill
  <2>3. QED
    BY <2>1, <2>2 DEF EnteredOn
<1>7. ValidTrade(trade)
  BY <1>1, <1>3, <1>4, <1>5, <1>6, RoundTripIsValid DEF Matches
<1>8. \A i \in DOMAIN trades' : ValidTrade(trades'[i])
  <2>1. trades \in Seq(Trade)
    BY DEF CoreInv, TypeOK
  <2>2. \A i \in DOMAIN trades' : \/ trades'[i] = trade
                                  \/ i \in DOMAIN trades /\ trades'[i] = trades[i]
    BY <1>2, <1>3, <2>1
  <2>3. QED
    BY <1>7, <2>2 DEF ValidInv
<1>9. QED
  BY <1>2, <1>8 DEF ValidInv, IsFlat, ValidTrade

LEMMA ValidStep == CoreInv /\ CashInv /\ TimeInv /\ ValidInv /\ [Next]_vars => ValidInv'
<1> SUFFICES ASSUME CoreInv, CashInv, TimeInv, ValidInv, [Next]_vars PROVE ValidInv'
  OBVIOUS
<1>1. CASE UNCHANGED <<position, trades>>
  BY <1>1 DEF ValidInv, IsFlat, ValidTrade
<1>2. ASSUME NEW bar \in Bars, NEW minutes, OnBar(bar, minutes)
      PROVE  ValidInv'
  <2>1. CASE OnBarEntryRaises(bar)
    BY <1>1, <2>1 DEF OnBarEntryRaises
  <2>2. CASE EntryTaken(bar) /\ position' = Held(bar) /\ UNCHANGED trades
    BY <2>2, HeldByEntry DEF ValidInv, IsFlat, ValidTrade
  <2>3. CASE OnBarCloses(bar, minutes)
    BY <2>3, CloseIsValid
  <2>4. QED
    BY <1>2, <2>1, <2>2, <2>3 DEF OnBar, OnBarExitRaises, OnBarHolds
<1>3. QED
  BY <1>1, <1>2 DEF Next, vars, Submit, Cancel, Flatten

(* Trade.__post_init__ refuses no trade the adapter makes: closing a       *)
(* position never raises there, which is why no action of the model does.  *)
THEOREM ClosingNeverRaises == Spec => [](\A i \in DOMAIN trades : ValidTrade(trades[i]))
<1>1. Init => CashInv /\ ValidInv
  BY PaperAssumption DEF Init, CashInv, CashReconciles, ValidInv, IsFlat, Funded
<1>2. ValidInv => \A i \in DOMAIN trades : ValidTrade(trades[i])
  BY DEF ValidInv
<1>3. CoreInv /\ CashInv /\ [Next]_vars => CashInv'
  BY CashStep
<1>4. CoreInv /\ CashInv /\ TimeInv /\ ValidInv /\ [Next]_vars => ValidInv'
  BY ValidStep
<1>5. QED
  BY <1>1, <1>2, <1>3, <1>4, CoreInvariant, TimeInvariant, PTL DEF Spec

-----------------------------------------------------------------------------
(* Fills.  Which ids are filled, and with what, changes only when an entry *)
(* executes; then the fill is the one of the position the bar goes on with.*)
FillsOfOrders ==
  /\ \A id \in FilledIds :
       \/ ~IsFlat /\ position.entry = orders[id].fill
       \/ \E i \in DOMAIN trades : trades[i].entry = orders[id].fill
  /\ ~IsFlat => \E id \in FilledIds : position.entry = orders[id].fill
  /\ \A i \in DOMAIN trades : \E id \in FilledIds : trades[i].entry = orders[id].fill

FillsReturned ==
  /\ \A i \in DOMAIN trades : trades[i].exit \in returned
  /\ \A id \in FilledIds : \/ orders[id].fill \in returned
                             \/ orders[id].fill.price = orders[id].signal.stop_price
                             \/ LeftUnpriced(IntentOf(orders[id]), orders[id].fill)

FillInv == FillsOfOrders /\ FillsReturned

SameFilled ==
  /\ FilledIds' = FilledIds
  /\ \A id \in FilledIds : orders'[id] = orders[id]

LEMMA NothingFilled ==
  ASSUME TypeOK, NEW id \in ClientIds, NEW record, record # None,
         Status(id) # "filled", record.status # "filled",
         orders' = [orders EXCEPT ![id] = record]
  PROVE  SameFilled
<1>1. ASSUME NEW x \in ClientIds, x # id
      PROVE  orders'[x] = orders[x] /\ Status(x)' = Status(x)
  BY <1>1 DEF TypeOK, Status
<1>2. Status(id)' # "filled"
  BY DEF TypeOK, Status
<1>3. \A x \in ClientIds : Status(x)' = "filled" <=> Status(x) = "filled"
  BY <1>1, <1>2
<1>4. FilledIds' = FilledIds
  BY <1>3 DEF FilledIds
<1>5. QED
  BY <1>1, <1>4 DEF SameFilled, FilledIds

(* The entry stage of a bar, seen from the fills.                          *)
LEMMA EntryStageFilled ==
  ASSUME CoreInv, NEW bar \in Bars, EntryTaken(bar), EntryStage(bar)
  PROVE  /\ ~EntryBar(bar) => SameFilled
         /\ EntryBar(bar) =>
              /\ FilledIds' = FilledIds \cup {working} /\ working \notin FilledIds
              /\ \A id \in FilledIds : orders'[id] = orders[id]
              /\ orders'[working].fill = FillOfEntry(bar)
              /\ orders'[working].signal = orders[working].signal
              /\ orders'[working].quantity = orders[working].quantity
<1>1. CASE ~EntryDue(bar)
  <2>1. orders' = orders /\ ~EntryBar(bar)
    BY <1>1, EntryStageOrders DEF EntryBar
  <2>2. QED
    BY <2>1 DEF SameFilled, FilledIds, Status
<1>2. CASE EntryDue(bar)
  <2>1. /\ working # None /\ working \in ClientIds
        /\ orders \in [ClientIds -> OrderRecord \cup {None}]
        /\ Status(working) = "accepted"
    BY <1>2, WorkingOrder DEF EntryDue, CoreInv, TypeOK, WorkingIsTheAcceptedOrder
  <2>2. CASE ~EntryBar(bar)
    <3> DEFINE record == Finished(orders[working], "expired", None)
    <3>1. orders' = [orders EXCEPT ![working] = record]
      BY <1>2, <2>1, <2>2 DEF EntryStage
    <3>2. record \in OrderRecord /\ record.status = "expired"
      BY <2>1, WorkingOrder DEF OrderRecord, Statuses, Finished
    <3> HIDE DEF record
    <3>3. QED
      BY <2>1, <2>2, <3>1, <3>2, NothingFilled, NoneAssumption DEF CoreInv
  <2>3. CASE EntryBar(bar)
    <3> DEFINE record == Finished(orders[working], "filled", FillOfEntry(bar))
    <3>1. orders' = [orders EXCEPT ![working] = record]
      BY <1>2, <2>1, <2>3 DEF EntryStage
    <3>2. FillOfEntry(bar) \in Fill
      BY <2>3, EntryStageTypes
    <3>3. /\ record \in OrderRecord /\ record.status = "filled"
          /\ record.fill = FillOfEntry(bar) /\ record.signal = orders[working].signal
          /\ record.quantity = orders[working].quantity
      BY <2>1, <3>2, WorkingOrder, NoneAssumption DEF OrderRecord, Statuses, Finished
    <3> HIDE DEF record
    <3>4. orders'[working] = record /\ record # None
      BY <2>1, <3>1, <3>3, NoneAssumption
    <3>5. ASSUME NEW x \in ClientIds, x # working
          PROVE  orders'[x] = orders[x] /\ Status(x)' = Status(x)
      BY <2>1, <3>1, <3>5 DEF Status
    <3>6. ASSUME NEW x \in ClientIds, x = working
          PROVE  Status(x)' = "filled"
      <4>1. orders'[x] # None /\ orders'[x].status = "filled"
        BY <3>3, <3>4, <3>6
      <4>2. QED
        BY <4>1 DEF Status
    <3>7. \A x \in ClientIds : Status(x)' = "filled" <=> Status(x) = "filled" \/ x = working
      BY <3>5, <3>6
    <3>8. FilledIds' = FilledIds \cup {working} /\ working \notin FilledIds
      BY <2>1, <3>7 DEF FilledIds
    <3>9. QED
      BY <2>3, <3>3, <3>4, <3>5, <3>8 DEF FilledIds
  <2>4. QED
    BY <2>2, <2>3
<1>3. QED
  BY <1>1, <1>2

(* What the exit stage starts from: every filled order is the position it  *)
(* holds or a trade, and conversely.                                       *)
LEMMA EntryStageFills ==
  ASSUME CoreInv, FillsOfOrders, NEW bar \in Bars, EntryTaken(bar), EntryStage(bar)
  PROVE  /\ \A id \in FilledIds' :
              \/ Held(bar) # None /\ Held(bar).entry = orders'[id].fill
              \/ \E i \in DOMAIN trades : trades[i].entry = orders'[id].fill
         /\ Held(bar) # None => \E id \in FilledIds' : Held(bar).entry = orders'[id].fill
         /\ \A i \in DOMAIN trades :
              \E id \in FilledIds' : trades[i].entry = orders'[id].fill
<1>1. CASE ~EntryBar(bar)
  <2>1. SameFilled /\ Held(bar) = position
    BY <1>1, EntryStageFilled, EntryStageTypes
  <2>2. QED
    BY <2>1 DEF SameFilled, FillsOfOrders, IsFlat
<1>2. CASE EntryBar(bar)
  <2>1. /\ Held(bar) # None
        /\ Held(bar) = [intent |-> IntentOf(orders[working]), entry |-> FillOfEntry(bar)]
        /\ position = None
    BY <1>2, EntryStageTypes DEF EntryBar
  <2>2. Held(bar).entry = FillOfEntry(bar)
    BY <2>1
  <2>3. /\ FilledIds' = FilledIds \cup {working}
        /\ \A id \in FilledIds : orders'[id] = orders[id]
        /\ orders'[working].fill = FillOfEntry(bar)
    BY <1>2, EntryStageFilled
  <2>4. QED
    BY <2>1, <2>2, <2>3 DEF FillsOfOrders, IsFlat
<1>3. QED
  BY <1>1, <1>2

(* A filled entry reaches the caller, unless it was made at its own stop,  *)
(* or its bar called for an exit that cannot be filled.                    *)
LEMMA RaisingEntry ==
  ASSUME CoreInv, NEW bar \in Bars, NEW minutes \in MinuteFeeds(bar),
         OnBarExitRaises(bar, minutes), EntryBar(bar)
  PROVE  \/ FillOfEntry(bar).price = orders[working].signal.stop_price
         \/ LeftUnpriced(IntentOf(orders[working]), FillOfEntry(bar))
<1> DEFINE intent == IntentOf(orders[working])
           fill   == FillOfEntry(bar)
<1>1. /\ intent \in Intent /\ fill \in Fill
      /\ Held(bar) = [intent |-> intent, entry |-> fill]
      /\ flatten_pending = FALSE
  BY EntryStageTypes DEF OnBarExitRaises, EntryBar
<1>2. /\ intent.entry_bar_start = bar.start
      /\ intent.signal = orders[working].signal
  BY DEF IntentOf, EntryBar
<1>3. fill.bar_start = bar.start
  BY <1>1, EntryFillType DEF FillOfEntry
<1>4. Executable(bar) /\ ExitWalkRaises(Held(bar).intent, Held(bar).entry, bar, minutes)
  BY <1>1 DEF OnBarExitRaises, ExitRaises, EntryTaken, Enterable
<1> HIDE DEF intent, fill
<1>5. ExitWalkRaises(intent, fill, bar, minutes)
  BY <1>1, <1>4
<1>6. Risk(intent, fill) = 0 \/ ExitUnpriced(intent, fill, bar, minutes)
  BY <1>2, <1>4, <1>5 DEF ExitWalkRaises
<1>7. ASSUME Risk(intent, fill) = 0
      PROVE  fill.price = intent.signal.stop_price
  <2>1. fill.price \in Int /\ intent.signal.stop_price \in Int
    BY <1>1, SignalType DEF Fill, Intent
  <2>2. QED
    BY <1>7, <2>1 DEF Risk
<1>8. ASSUME ExitUnpriced(intent, fill, bar, minutes)
      PROVE  LeftUnpriced(intent, fill)
  BY <1>3, <1>8 DEF LeftUnpriced
<1>9. fill.price = intent.signal.stop_price \/ LeftUnpriced(intent, fill)
  BY <1>6, <1>7, <1>8
<1>10. QED
  BY <1>2, <1>9 DEF intent, fill

LEMMA FillStep == CoreInv /\ FillInv /\ [Next]_vars => FillInv'
<1> SUFFICES ASSUME CoreInv, FillInv, [Next]_vars PROVE FillInv'
  OBVIOUS
<1>1. CASE SameFilled /\ UNCHANGED <<position, trades, returned>>
  BY <1>1 DEF SameFilled, FillInv, FillsOfOrders, FillsReturned, IsFlat
<1>2. CASE UNCHANGED <<orders, position, trades, returned>>
  BY <1>1, <1>2 DEF SameFilled, FilledIds, Status
<1>3. ASSUME NEW id \in ClientIds, NEW s \in Signals, NEW q \in Quantities, Submit(id, s, q)
      PROVE  FillInv'
  <2> DEFINE reasons == Reasons(s, q)
             status  == IF reasons = {} THEN "accepted" ELSE "rejected"
             record  == Order(s, q, status, reasons)
  <2>1. /\ orders[id] = None /\ orders' = [orders EXCEPT ![id] = record]
        /\ UNCHANGED <<position, trades, returned>>
    BY <1>3 DEF Submit
  <2>2. record \in OrderRecord /\ record.status = status
    BY SubmittedOrder
  <2>3. record.status # "filled"
    BY <2>2
  <2>4. Status(id) # "filled"
    BY <2>1 DEF Status
  <2> HIDE DEF record
  <2>5. SameFilled
    BY <2>1, <2>2, <2>3, <2>4, NothingFilled, NoneAssumption DEF CoreInv
  <2>6. QED
    BY <1>1, <2>1, <2>5
<1>4. ASSUME NEW id \in ClientIds, Cancellable(id),
             orders' = [orders EXCEPT ![id] = Finished(@, "cancelled", None)],
             UNCHANGED <<position, trades, returned>>
      PROVE  FillInv'
  <2> DEFINE record == Finished(orders[id], "cancelled", None)
  <2>1. /\ orders[id] \in OrderRecord /\ orders[id].status = "accepted"
        /\ orders' = [orders EXCEPT ![id] = record]
    BY <1>4 DEF Cancellable, CoreInv, TypeOK
  <2>2. record \in OrderRecord /\ record.status # "filled"
    BY <2>1 DEF Finished, OrderRecord, Statuses
  <2>3. Status(id) # "filled"
    BY <2>1 DEF Status
  <2> HIDE DEF record
  <2>4. SameFilled
    BY <2>1, <2>2, <2>3, NothingFilled, NoneAssumption DEF CoreInv
  <2>5. QED
    BY <1>1, <1>4, <2>4
<1>5. CASE Flatten
  <2>1. CASE UNCHANGED orders
    BY <1>2, <1>5, <2>1 DEF Flatten
  <2>2. CASE /\ working # None /\ Cancellable(working)
             /\ orders' = [orders EXCEPT ![working] = Finished(@, "cancelled", None)]
    BY <1>4, <1>5, <2>2, WorkingOrder DEF Flatten
  <2>3. QED
    BY <1>5, <2>1, <2>2 DEF Flatten
<1>6. ASSUME NEW bar \in Bars, NEW minutes \in MinuteFeeds(bar), OnBar(bar, minutes)
      PROVE  FillInv'
  <2>1. CASE OnBarEntryRaises(bar)
    BY <1>2, <2>1 DEF OnBarEntryRaises
  <2>2. CASE OnBarHolds(bar, minutes) \/ OnBarExitRaises(bar, minutes)
    <3>1. /\ EntryTaken(bar) /\ EntryStage(bar)
          /\ position' = Held(bar) /\ trades' = trades
      BY <2>2 DEF OnBarHolds, OnBarExitRaises
    <3>2. FillsOfOrders'
      BY <3>1, EntryStageFills DEF FillsOfOrders, FillInv, IsFlat
    <3>3. returned \subseteq returned'
      BY <2>2 DEF OnBarHolds, OnBarExitRaises
    <3>4. CASE ~EntryBar(bar)
      <4>1. SameFilled
        BY <3>1, <3>4, EntryStageFilled
      <4>2. QED
        BY <3>1, <3>2, <3>3, <4>1 DEF FillInv, FillsReturned, SameFilled
    <3>5. CASE EntryBar(bar)
      <4>1. /\ FilledIds' = FilledIds \cup {working}
            /\ \A id \in FilledIds : orders'[id] = orders[id]
            /\ orders'[working].fill = FillOfEntry(bar)
            /\ orders'[working].signal = orders[working].signal
            /\ IntentOf(orders'[working]) = IntentOf(orders[working])
        BY <3>1, <3>5, EntryStageFilled DEF IntentOf
      <4>2. \/ FillOfEntry(bar) \in returned'
            \/ FillOfEntry(bar).price = orders[working].signal.stop_price
            \/ LeftUnpriced(IntentOf(orders[working]), FillOfEntry(bar))
        <5>1. CASE OnBarHolds(bar, minutes)
          BY <3>5, <5>1 DEF OnBarHolds, EntryFills
        <5>2. CASE OnBarExitRaises(bar, minutes)
          BY <3>5, <5>2, RaisingEntry
        <5>3. QED
          BY <2>2, <5>1, <5>2
      <4>3. QED
        BY <3>1, <3>2, <3>3, <4>1, <4>2 DEF FillInv, FillsReturned
    <3>6. QED
      BY <3>4, <3>5
  <2>3. CASE OnBarCloses(bar, minutes)
    <3> DEFINE held  == Held(bar)
               exit  == ExitOf(bar, minutes)
               fill  == ExitFill(held.intent, exit.reason,
                          ExitReference(held.intent, held.entry, exit.reason, bar), bar)
               trade == CloseTrade(held.intent.signal.direction, held.entry, fill,
                                   exit.ambiguity)
    <3>1. /\ EntryTaken(bar) /\ EntryStage(bar) /\ held # None /\ exit.reason # "none"
          /\ ~ExitRaises(bar, minutes)
          /\ trades' = Append(trades, trade)
          /\ returned' = returned \cup EntryFills(bar) \cup {fill}
          /\ position' = None
      BY <2>3 DEF OnBarCloses
    <3>2. trade \in Trade /\ trade.entry = held.entry /\ trade.exit = fill
      BY <3>1, ExitTypes
    <3>3. /\ \A id \in FilledIds' :
               \/ held.entry = orders'[id].fill
               \/ \E i \in DOMAIN trades : trades[i].entry = orders'[id].fill
          /\ \E id \in FilledIds' : held.entry = orders'[id].fill
          /\ \A i \in DOMAIN trades :
               \E id \in FilledIds' : trades[i].entry = orders'[id].fill
      BY <3>1, EntryStageFills DEF FillInv
    <3>4. trades \in Seq(Trade)
      BY DEF CoreInv, TypeOK
    <3> HIDE DEF held, exit, fill, trade
    <3>5. /\ DOMAIN trades' = DOMAIN trades \cup {Len(trades) + 1}
          /\ trades'[Len(trades) + 1] = trade
          /\ \A i \in DOMAIN trades : trades'[i] = trades[i]
      BY <3>1, <3>2, <3>4
    <3>6. FillsOfOrders'
      BY <3>1, <3>2, <3>3, <3>5 DEF FillsOfOrders, IsFlat
    <3>7. \A i \in DOMAIN trades' : trades'[i].exit \in returned'
      BY <3>1, <3>2, <3>5 DEF FillInv, FillsReturned
    <3>8. ASSUME NEW id \in FilledIds'
          PROVE  \/ orders'[id].fill \in returned'
                 \/ orders'[id].fill.price = orders'[id].signal.stop_price
                 \/ LeftUnpriced(IntentOf(orders'[id]), orders'[id].fill)
      <4>1. CASE ~EntryBar(bar)
        BY <3>1, <3>8, <4>1, EntryStageFilled DEF SameFilled, FillInv, FillsReturned
      <4>2. CASE EntryBar(bar)
        <5>1. FillOfEntry(bar) \in returned'
          BY <3>1, <4>2 DEF EntryFills
        <5>2. QED
          BY <3>1, <3>8, <4>2, <5>1, EntryStageFilled DEF FillInv, FillsReturned
      <4>3. QED
        BY <4>1, <4>2
    <3>9. QED
      BY <3>6, <3>7, <3>8 DEF FillInv, FillsReturned
  <2>4. QED
    BY <1>6, <2>1, <2>2, <2>3 DEF OnBar
<1>7. ASSUME NEW id \in ClientIds, Cancel(id) PROVE FillInv'
  BY <1>4, <1>7 DEF Cancel
<1>8. CASE UNCHANGED vars
  BY <1>2, <1>8 DEF vars
<1>9. QED
  BY <1>3, <1>5, <1>6, <1>7, <1>8 DEF Next

(* No two trades, nor a trade and the position, have one entry.            *)
LEMMA EntriesDiffer ==
  ASSUME CoreInv, TradesInTime
  PROVE  /\ \A i, j \in DOMAIN trades : trades[i].entry = trades[j].entry => i = j
         /\ ~IsFlat => \A i \in DOMAIN trades : trades[i].entry # position.entry
<1>1. ASSUME NEW i \in DOMAIN trades, NEW entry \in Fill, Before(trades[i], entry)
      PROVE  trades[i].entry # entry
  <2>1. trades[i] \in Trade
    BY <1>1 DEF CoreInv, TypeOK
  <2>2. trades[i].entry \in Fill /\ trades[i].exit \in Fill /\ InTime(trades[i], last_bar_start)
    BY <1>1, <2>1 DEF Trade, TradesInTime
  <2>3. trades[i].entry.bar_start < entry.bar_start
    BY <1>1, <2>2 DEF Before, InTime, Fill
  <2>4. QED
    BY <1>1, <2>3 DEF Fill
<1>2. ASSUME NEW i \in DOMAIN trades, NEW j \in DOMAIN trades, i < j
      PROVE  trades[i].entry # trades[j].entry
  <2>1. trades[j] \in Trade
    BY <1>2 DEF CoreInv, TypeOK
  <2>2. trades[j].entry \in Fill /\ Before(trades[i], trades[j].entry)
    BY <1>2, <2>1 DEF Trade, TradesInTime
  <2>3. QED
    BY <1>1, <2>2
<1>3. ASSUME ~IsFlat, NEW i \in DOMAIN trades
      PROVE  trades[i].entry # position.entry
  BY <1>1, <1>3 DEF TradesInTime, IsFlat, CoreInv, TypeOK, Position
<1>4. DOMAIN trades \subseteq Int
  BY DEF CoreInv, TypeOK
<1>5. QED
  BY <1>2, <1>3, <1>4

(* No path through the adapter, and none that raises, loses or doubles a   *)
(* position.  Its caller is handed every exit, and every entry but one at  *)
(* its own stop or on a bar whose exit has no positive price.              *)
THEOREM FillsAreAccountedFor == Spec => []EveryFillAccountedFor
<1>1. Init => FillInv
  BY DEF Init, FillInv, FillsOfOrders, FillsReturned, FilledIds, Status, IsFlat
<1>2. CoreInv /\ TimeInv /\ FillInv => EveryFillAccountedFor
  <2> SUFFICES ASSUME CoreInv, TimeInv, FillInv PROVE EveryFillAccountedFor
    OBVIOUS
  <2>1. ASSUME NEW id \in FilledIds
        PROVE  LET traded == {i \in DOMAIN trades : trades[i].entry = orders[id].fill}
                   held   == ~IsFlat /\ position.entry = orders[id].fill
               IN  /\ held => traded = {}
                   /\ ~held => \E i \in traded : traded = {i}
    BY <2>1, EntriesDiffer DEF TimeInv, FillInv, FillsOfOrders
  <2>2. QED
    BY <2>1 DEF EveryFillAccountedFor, FillInv, FillsOfOrders, FillsReturned
<1>3. QED
  BY <1>1, <1>2, FillStep, TimeInvariant, CoreInvariant, PTL DEF Spec
=============================================================================
