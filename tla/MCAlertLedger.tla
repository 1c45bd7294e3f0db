--------------------------- MODULE MCAlertLedger ---------------------------
(***************************************************************************)
(* A small instance of AlertLedger: two alerts with one id, the second of  *)
(* them too far ahead at first; another that is soon stale; and a request  *)
(* for each check of what it says.                                         *)
(***************************************************************************)
EXTENDS AlertLedger

Fresh(event_id, occurred_at) ==
  [large |-> FALSE, json |-> TRUE, secret |-> "s", on_contract |-> TRUE,
   event_id |-> event_id, occurred_at |-> occurred_at]

MCRequests ==
  {Fresh(1, 0), Fresh(1, 2), Fresh(2, -1),
   [Fresh(1, 0) EXCEPT !.large = TRUE],
   [Fresh(1, 0) EXCEPT !.json = FALSE],
   [Fresh(1, 0) EXCEPT !.secret = "guess"],
   [Fresh(1, 0) EXCEPT !.on_contract = FALSE]}

MCEnvironments ==
  {[mode |-> "paper", secret |-> "s"], [mode |-> "live", secret |-> "s"]}
=============================================================================
