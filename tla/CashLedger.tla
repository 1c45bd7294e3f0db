----------------------------- MODULE CashLedger -----------------------------
(***************************************************************************)
(* The round trip and what it does to cash: PositionBook.close of          *)
(* domain/backtest/position.py and CashLedger of domain/backtest/cash.py,  *)
(* used by the paper adapter and by the backtest portfolio.  Fills are the *)
(* records made by module Execution.                                       *)
(***************************************************************************)
EXTENDS Execution

CashDelta(fill) ==
  IF fill.side = "BUY" THEN - (fill.price * fill.quantity) - fill.costs
                       ELSE fill.price * fill.quantity - fill.costs

Funded(startingCapital) ==
  [cash |-> startingCapital, gross |-> 0, costs |-> 0, closed_trades |-> 0]

(* Entering moves cash and realizes nothing.                               *)
AfterEntry(ledger, fill) == [ledger EXCEPT !.cash = @ + CashDelta(fill)]

AfterExit(ledger, trade) ==
  [cash          |-> ledger.cash + CashDelta(trade.exit),
   gross         |-> ledger.gross + trade.gross_pnl,
   costs         |-> ledger.costs + trade.costs,
   closed_trades |-> ledger.closed_trades + 1]

(* The trade that closing a position entered by `entry' makes.             *)
CloseTrade(direction, entry, exit, ambiguity) ==
  [direction |-> direction,
   entry     |-> entry,
   exit      |-> exit,
   ambiguity |-> ambiguity,
   gross_pnl |-> (IF IsLong(direction) THEN exit.price - entry.price
                                       ELSE entry.price - exit.price) * entry.quantity,
   costs     |-> entry.costs + exit.costs]

(* What Trade.__post_init__ demands; anything else raises out of closing.  *)
ValidTrade(trade) ==
  LET entry == trade.entry
      exit  == trade.exit
      move  == IF IsLong(trade.direction) THEN exit.price - entry.price
                                          ELSE entry.price - exit.price
  IN  /\ entry.reason = "entry" /\ exit.reason # "entry"
      /\ entry.side = EntrySide(trade.direction)
      /\ exit.side = ExitSide(trade.direction)
      /\ entry.quantity = exit.quantity
      /\ entry.occurred_at <= exit.occurred_at
      /\ trade.gross_pnl = move * entry.quantity
      /\ trade.costs = entry.costs + exit.costs
=============================================================================
