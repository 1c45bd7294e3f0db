---------------------------- MODULE AlertLedger ----------------------------
(***************************************************************************)
(* The TradingView webhook (api/webhooks.py, adapters/tradingview) and the *)
(* ledger of accepted alerts (infrastructure/repositories/alerts.py): some *)
(* API workers over one database.  A worker handles one request at a time: *)
(* from the body on, the handler never yields.  What interleaves are the   *)
(* workers, at the statements of their transactions, and the sender may    *)
(* deliver any request again, to any worker.                               *)
(*                                                                         *)
(* A request is what the checks tell apart, not its text.  One that fails  *)
(* a check (413, 403, 503, 422 or 401) is answered before anything is      *)
(* changed and is a stuttering step.                                       *)
(***************************************************************************)
EXTENDS Integers, Sequences

CONSTANTS
  Workers,          (* API worker processes                                 *)
  Requests,         (* requests that may be delivered, each any number of   *)
                    (* times                                                *)
  Environments,     (* the settings a worker may be started with            *)
  MaxAge,           (* tradingview_webhook_max_age_seconds                  *)
  MaxFuture,        (* tradingview_webhook_max_future_seconds               *)
  NoSecret,         (* TRADINGVIEW_WEBHOOK_SECRET is not set                *)
  None,             (* no alert                                             *)
  MaxTime,          (* bound: the clock stops here                          *)
  MaxDeliveries     (* bound: requests that pass the checks                 *)

ASSUME LedgerAssumption ==
  /\ \A r \in Requests :
       /\ {"large", "json", "secret", "on_contract", "event_id", "occurred_at"}
            = DOMAIN r
       /\ r.large \in BOOLEAN /\ r.json \in BOOLEAN /\ r.on_contract \in BOOLEAN
       /\ r.occurred_at \in Int
  /\ \A e \in Environments : DOMAIN e = {"mode", "secret"}
  /\ MaxAge \in Nat \ {0} /\ MaxFuture \in Nat \ {0}
  /\ MaxTime \in Nat /\ MaxDeliveries \in Nat

VARIABLES
  now,              (* the clock of the workers                             *)
  settings,         (* what each worker was started with                    *)
  pc,               (* where each worker is in its handler                  *)
  job,              (* the ExternalAlert it is recording, with the number   *)
                    (* of the delivery it came with                         *)
  ledger,           (* the committed rows of webhook_event                  *)
  sent,             (* history: the event of each delivery that passed the  *)
                    (* checks, in order                                     *)
  answers           (* history: what each of them was answered              *)

vars == <<now, settings, pc, job, ledger, sent, answers>>

(* "lost": the worker died before it answered.                             *)
Answers == {"pending", "accepted", "duplicate", "internal_error", "lost"}

Alert(delivery, request, received_at) ==
  [delivery |-> delivery, event_id |-> request.event_id,
   occurred_at |-> request.occurred_at, received_at |-> received_at]

-----------------------------------------------------------------------------
Init ==
  /\ now = 0
  /\ settings \in [Workers -> Environments]
  /\ pc = [w \in Workers |-> "idle"]
  /\ job = [w \in Workers |-> None]
  /\ ledger = {}
  /\ sent = <<>>
  /\ answers = <<>>

(* The checks before the ledger: size, mode and secret configured by the   *)
(* handler; JSON, secret, contract and freshness by parse_alert.           *)
IsFresh(request) ==
  now - request.occurred_at <= MaxAge /\ request.occurred_at - now <= MaxFuture

Passes(env, request) ==
  /\ ~request.large
  /\ env.mode = "paper"
  /\ env.secret # NoSecret
  /\ request.json
  /\ request.secret = env.secret
  /\ request.on_contract
  /\ IsFresh(request)

(* receive_tradingview_alert up to the ledger: the alert is stamped with   *)
(* the time it was received.                                               *)
Receive(w, request) ==
  /\ pc[w] = "idle"
  /\ Len(sent) < MaxDeliveries
  /\ Passes(settings[w], request)
  /\ sent' = Append(sent, request.event_id)
  /\ answers' = Append(answers, "pending")
  /\ job' = [job EXCEPT ![w] = Alert(Len(sent) + 1, request, now)]
  /\ pc' = [pc EXCEPT ![w] = "inserting"]
  /\ UNCHANGED <<now, settings, ledger>>

Finish(w, answer) ==
  /\ answers' = [answers EXCEPT ![job[w].delivery] = answer]
  /\ job' = [job EXCEPT ![w] = None]
  /\ pc' = [pc EXCEPT ![w] = "idle"]

(* uq_webhook_event_source_event: a committed row of the event refuses the *)
(* insert; an uncommitted one makes it wait for that transaction's end.    *)
Recorded(event_id) == \E row \in ledger : row.event_id = event_id

BUG_ChecksThenInserts(w) == FALSE
BUG_WaitsForAnyInsert(w) ==
  \E v \in Workers \ {w} :
    pc[v] \in {"inserting", "inserted"} /\ job[v].event_id = job[w].event_id
Waits(w) ==
  \E v \in Workers \ {w} : pc[v] = "inserted" /\ job[v].event_id = job[w].event_id

BUG_ConflictsOnceSeen(w) ==
  \E n \in 1 .. job[w].delivery - 1 :
    sent[n] = job[w].event_id
Conflicts(w) == Recorded(job[w].event_id)

Insert(w) ==
  /\ pc[w] = "inserting"
  /\ ~Waits(w) /\ ~Conflicts(w)
  /\ pc' = [pc EXCEPT ![w] = "inserted"]
  /\ UNCHANGED <<now, settings, job, ledger, sent, answers>>

(* IntegrityError: rolled back, and answered 409.                          *)
RefuseDuplicate(w) ==
  /\ pc[w] = "inserting"
  /\ ~Waits(w) /\ Conflicts(w)
  /\ Finish(w, "duplicate")
  /\ UNCHANGED <<now, settings, ledger, sent>>

Commit(w) ==
  /\ pc[w] = "inserted"
  /\ ledger' = ledger \cup {job[w]}
  /\ pc' = [pc EXCEPT ![w] = "recorded"]
  /\ UNCHANGED <<now, settings, job, sent, answers>>

Accept(w) ==
  /\ pc[w] = "recorded"
  /\ Finish(w, "accepted")
  /\ UNCHANGED <<now, settings, ledger, sent>>

(* Any other database error leaves record_if_new as it is: a 500.  When it *)
(* is the commit that fails, the row may be there all the same.            *)
DatabaseFails(w) ==
  /\ \/ pc[w] \in {"inserting", "inserted"} /\ UNCHANGED ledger
     \/ pc[w] = "inserted" /\ ledger' = ledger \cup {job[w]}
  /\ Finish(w, "internal_error")
  /\ UNCHANGED <<now, settings, sent>>

(* A worker dies; the database rolls back what it had not committed.       *)
Crash(w) ==
  /\ pc[w] # "down"
  /\ pc' = [pc EXCEPT ![w] = "down"]
  /\ job' = [job EXCEPT ![w] = None]
  /\ answers' = IF pc[w] = "idle" THEN answers
                ELSE [answers EXCEPT ![job[w].delivery] = "lost"]
  /\ UNCHANGED <<now, settings, ledger, sent>>

Restart(w) ==
  /\ pc[w] = "down"
  /\ pc' = [pc EXCEPT ![w] = "idle"]
  /\ \E env \in Environments : settings' = [settings EXCEPT ![w] = env]
  /\ UNCHANGED <<now, job, ledger, sent, answers>>

AdvanceClock ==
  /\ now < MaxTime
  /\ now' = now + 1
  /\ UNCHANGED <<settings, pc, job, ledger, sent, answers>>

Handle(w) == Insert(w) \/ RefuseDuplicate(w) \/ Commit(w) \/ Accept(w)

Next ==
  \/ \E w \in Workers :
       \/ \E request \in Requests : Receive(w, request)
       \/ Handle(w) \/ DatabaseFails(w) \/ Crash(w) \/ Restart(w)
  \/ AdvanceClock

Spec == Init /\ [][Next]_vars

(* A worker that is alive goes on with its request.                        *)
FairSpec == Spec /\ \A w \in Workers : WF_vars(Handle(w))

-----------------------------------------------------------------------------
Deliveries == DOMAIN sent

EventIds == {request.event_id : request \in Requests}
Row ==
  [delivery : Nat \ {0}, event_id : EventIds, occurred_at : Int, received_at : Nat]

ASSUME NoneAssumption == None \notin Row

(* Every variable holds a value of the program's types; a worker has a job *)
(* exactly while it handles a request.                                     *)
TypeOK ==
  /\ now \in Nat
  /\ settings \in [Workers -> Environments]
  /\ pc \in [Workers -> {"idle", "inserting", "inserted", "recorded", "down"}]
  /\ job \in [Workers -> Row \cup {None}]
  /\ \A w \in Workers : job[w] = None <=> pc[w] \in {"idle", "down"}
  /\ ledger \subseteq Row
  /\ sent \in Seq(EventIds)
  /\ answers \in Seq(Answers)
  /\ Len(answers) = Len(sent)

(* "None is accepted twice": of all the deliveries of one event, to any    *)
(* worker, before or after crashes, at most one is answered 202; the event *)
(* has one row, and it is the row of that delivery.                        *)
AcceptedOnce ==
  /\ \A m, n \in Deliveries :
       (/\ answers[m] = "accepted" /\ answers[n] = "accepted"
        /\ sent[m] = sent[n]) => m = n
  /\ \A n \in Deliveries :
       answers[n] = "accepted" => \E row \in ledger : row.delivery = n
  /\ \A r1, r2 \in ledger : r1.event_id = r2.event_id => r1 = r2

(* A 409 is never an alert lost: the event it names is on record, from     *)
(* another delivery; and what is on record is only what was answered 202,  *)
(* or would have been had its worker or its connection survived the        *)
(* commit.                                                                 *)
DuplicateIsOnRecord ==
  /\ \A n \in Deliveries : answers[n] = "duplicate" =>
       \E row \in ledger : row.event_id = sent[n] /\ row.delivery # n
  /\ \A row \in ledger :
       answers[row.delivery] \in {"pending", "accepted", "internal_error", "lost"}

(* No request waits for ever, however many workers wait for one another's  *)
(* transactions: each is answered, or dies with its worker.                *)
EveryRequestEnds ==
  \A n \in 1 .. MaxDeliveries :
    (n \in Deliveries /\ answers[n] = "pending")
      ~> (n \in Deliveries /\ answers[n] # "pending")
=============================================================================
