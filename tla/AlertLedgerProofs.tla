------------------------- MODULE AlertLedgerProofs -------------------------
(***************************************************************************)
(* That no alert is accepted twice and that no refusal loses one, for      *)
(* every number of workers, any requests and any number of deliveries.     *)
(*                                                                         *)
(* AcceptedOnce is not inductive: it says nothing of the transactions that *)
(* are open.  Ledgered adds which delivery each worker is handling, and    *)
(* what the insert has established for it: an inserted row is of an event  *)
(* that no row and no other open transaction is of.                        *)
(***************************************************************************)
EXTENDS AlertLedger, SequenceTheorems, TLAPS

Busy(w) == pc[w] \in {"inserting", "inserted", "recorded"}

JobsAreTheirOwn ==
  /\ \A w \in Workers : Busy(w) =>
       /\ job[w] \in Row
       /\ job[w].delivery \in 1 .. Len(sent)
       /\ sent[job[w].delivery] = job[w].event_id
       /\ answers[job[w].delivery] = "pending"
  /\ \A v, w \in Workers :
       (Busy(v) /\ Busy(w) /\ job[v].delivery = job[w].delivery) => v = w

RowsAreDeliveries ==
  /\ \A row \in ledger :
       /\ row.delivery \in 1 .. Len(sent)
       /\ sent[row.delivery] = row.event_id
       /\ answers[row.delivery] \in {"pending", "accepted", "internal_error", "lost"}
  /\ \A r1, r2 \in ledger : r1.event_id = r2.event_id => r1 = r2

OpenTransactions ==
  /\ \A w \in Workers : pc[w] = "inserting" =>
       \A row \in ledger : row.delivery # job[w].delivery
  /\ \A w \in Workers : pc[w] = "inserted" => ~Recorded(job[w].event_id)
  /\ \A v, w \in Workers :
       (/\ pc[v] = "inserted" /\ pc[w] = "inserted"
        /\ job[v].event_id = job[w].event_id) => v = w
  /\ \A w \in Workers : pc[w] = "recorded" => job[w] \in ledger

AnswersAreTrue ==
  /\ \A n \in 1 .. Len(sent) :
       answers[n] = "accepted" => \E row \in ledger : row.delivery = n
  /\ \A n \in 1 .. Len(sent) :
       answers[n] = "duplicate" =>
         \E row \in ledger : row.event_id = sent[n] /\ row.delivery # n

Ledgered ==
  TypeOK /\ JobsAreTheirOwn /\ RowsAreDeliveries /\ OpenTransactions /\ AnswersAreTrue

-----------------------------------------------------------------------------
(* A new delivery leaves the earlier ones and their answers as they are.   *)
LEMMA AnotherDelivery ==
  ASSUME TypeOK, NEW e \in EventIds,
         sent' = Append(sent, e), answers' = Append(answers, "pending")
  PROVE  /\ sent' \in Seq(EventIds) /\ answers' \in Seq(Answers)
         /\ Len(sent) \in Nat
         /\ Len(sent') = Len(sent) + 1 /\ Len(answers') = Len(sent')
         /\ \A n \in 1 .. Len(sent) : sent'[n] = sent[n] /\ answers'[n] = answers[n]
         /\ sent'[Len(sent) + 1] = e /\ answers'[Len(sent) + 1] = "pending"
<1>1. sent \in Seq(EventIds) /\ answers \in Seq(Answers) /\ Len(answers) = Len(sent)
  BY DEF TypeOK
<1>2. "pending" \in Answers
  BY DEF Answers
<1>3. Len(sent) \in Nat
  BY <1>1, LenProperties
<1> QED
  BY <1>1, <1>2, <1>3, AppendProperties

(* An answer is one delivery's only.                                       *)
LEMMA OneAnswer ==
  ASSUME TypeOK, NEW d \in 1 .. Len(sent), NEW answer \in Answers,
         answers' = [answers EXCEPT ![d] = answer]
  PROVE  /\ answers' \in Seq(Answers) /\ Len(answers') = Len(sent)
         /\ \A n \in 1 .. Len(sent) :
              answers'[n] = IF n = d THEN answer ELSE answers[n]
<1>1. answers \in Seq(Answers) /\ Len(answers) = Len(sent)
  BY DEF TypeOK
<1> QED
  BY <1>1, ExceptSeq

-----------------------------------------------------------------------------
LEMMA InitLedgered ==
  ASSUME Init
  PROVE  Ledgered
<1>1. Len(sent) = 0 /\ sent \in Seq(EventIds) /\ answers \in Seq(Answers)
  BY EmptySeq DEF Init
<1>2. TypeOK
  BY <1>1 DEF Init, TypeOK
<1> QED
  BY <1>1, <1>2, SMT DEF Init, Ledgered, JobsAreTheirOwn, RowsAreDeliveries,
     OpenTransactions, AnswersAreTrue, Busy, Recorded

LEMMA ReceiveKeeps ==
  ASSUME Ledgered, NEW w \in Workers, NEW request \in Requests, Receive(w, request)
  PROVE  Ledgered'
<1> DEFINE alert == Alert(Len(sent) + 1, request, now)
<1>1. request.event_id \in EventIds
  BY DEF EventIds
<1>2. /\ sent' \in Seq(EventIds) /\ answers' \in Seq(Answers)
      /\ Len(sent) \in Nat
      /\ Len(sent') = Len(sent) + 1 /\ Len(answers') = Len(sent')
      /\ \A n \in 1 .. Len(sent) : sent'[n] = sent[n] /\ answers'[n] = answers[n]
      /\ sent'[Len(sent) + 1] = request.event_id
      /\ answers'[Len(sent) + 1] = "pending"
  BY <1>1, AnotherDelivery DEF Ledgered, Receive
<1>3. /\ alert \in Row
      /\ alert.delivery = Len(sent) + 1
      /\ alert.event_id = request.event_id
  BY <1>1, <1>2, LedgerAssumption DEF Alert, Row, Ledgered, TypeOK
<1>4. /\ pc[w] = "idle"
      /\ pc' = [pc EXCEPT ![w] = "inserting"]
      /\ job' = [job EXCEPT ![w] = alert]
      /\ UNCHANGED <<now, settings, ledger>>
  BY DEF Receive
<1> HIDE DEF alert
<1>5. TypeOK'
  BY <1>2, <1>3, <1>4, NoneAssumption DEF Ledgered, TypeOK
<1>6. \A v \in Workers : v # w => pc'[v] = pc[v] /\ job'[v] = job[v]
  BY <1>4 DEF Ledgered, TypeOK
<1>7. pc'[w] = "inserting" /\ job'[w] = alert
  BY <1>4 DEF Ledgered, TypeOK
<1>8. JobsAreTheirOwn'
  BY <1>2, <1>3, <1>6, <1>7 DEF Ledgered, JobsAreTheirOwn, Busy
<1>9. RowsAreDeliveries'
  BY <1>2, <1>4 DEF Ledgered, RowsAreDeliveries
<1>10. \A row \in ledger : row.delivery # Len(sent) + 1
  BY <1>2 DEF Ledgered, RowsAreDeliveries
<1>11. OpenTransactions'
  BY <1>3, <1>4, <1>6, <1>7, <1>10 DEF Ledgered, OpenTransactions, Recorded
<1>12. \A n \in 1 .. Len(sent') : n \in 1 .. Len(sent) \/ n = Len(sent) + 1
  BY <1>2
<1>13. AnswersAreTrue'
  <2>1. \A n \in 1 .. Len(sent') : answers'[n] = "accepted" =>
          \E row \in ledger' : row.delivery = n
    BY <1>2, <1>4, <1>12 DEF Ledgered, AnswersAreTrue
  <2>2. \A n \in 1 .. Len(sent') : answers'[n] = "duplicate" =>
          \E row \in ledger' : row.event_id = sent'[n] /\ row.delivery # n
    BY <1>2, <1>4, <1>12 DEF Ledgered, AnswersAreTrue
  <2> QED
    BY <2>1, <2>2 DEF AnswersAreTrue
<1> QED
  BY <1>5, <1>8, <1>9, <1>11, <1>13 DEF Ledgered

LEMMA InsertKeeps ==
  ASSUME Ledgered, NEW w \in Workers, Insert(w)
  PROVE  Ledgered'
<1>1. /\ pc[w] = "inserting" /\ ~Waits(w) /\ ~Recorded(job[w].event_id)
      /\ pc' = [pc EXCEPT ![w] = "inserted"]
      /\ UNCHANGED <<now, settings, job, ledger, sent, answers>>
  BY DEF Insert, Conflicts
<1>2. TypeOK'
  BY <1>1 DEF Ledgered, TypeOK
<1>3. /\ \A v \in Workers : v # w => pc'[v] = pc[v]
      /\ pc'[w] = "inserted"
  BY <1>1 DEF Ledgered, TypeOK
<1>4. JobsAreTheirOwn'
  BY <1>1, <1>3 DEF Ledgered, JobsAreTheirOwn, Busy
<1>5. RowsAreDeliveries' /\ AnswersAreTrue'
  BY <1>1 DEF Ledgered, RowsAreDeliveries, AnswersAreTrue
<1>6. OpenTransactions'
  BY <1>1, <1>3 DEF Ledgered, OpenTransactions, Recorded, Waits
<1> QED
  BY <1>2, <1>4, <1>5, <1>6 DEF Ledgered

LEMMA CommitKeeps ==
  ASSUME Ledgered, NEW w \in Workers, Commit(w)
  PROVE  Ledgered'
<1>1. /\ pc[w] = "inserted"
      /\ ledger' = ledger \cup {job[w]}
      /\ pc' = [pc EXCEPT ![w] = "recorded"]
      /\ UNCHANGED <<now, settings, job, sent, answers>>
  BY DEF Commit
<1>2. Busy(w) /\ job[w] \in Row
  BY <1>1 DEF Busy, Ledgered, JobsAreTheirOwn
<1>3. TypeOK'
  BY <1>1, <1>2 DEF Ledgered, TypeOK
<1>4. /\ \A v \in Workers : v # w => pc'[v] = pc[v]
      /\ pc'[w] = "recorded"
  BY <1>1 DEF Ledgered, TypeOK
<1>5. JobsAreTheirOwn'
  BY <1>1, <1>2, <1>4 DEF Ledgered, JobsAreTheirOwn, Busy
<1>6. RowsAreDeliveries'
  BY <1>1, <1>2 DEF Ledgered, RowsAreDeliveries, JobsAreTheirOwn, OpenTransactions,
     Recorded
<1>7. AnswersAreTrue'
  BY <1>1 DEF Ledgered, AnswersAreTrue
<1>8. OpenTransactions'
  BY <1>1, <1>2, <1>4 DEF Ledgered, OpenTransactions, Recorded, JobsAreTheirOwn, Busy
<1> QED
  BY <1>3, <1>5, <1>6, <1>7, <1>8 DEF Ledgered

(* A request ends, with its answer or with its worker; what the others are *)
(* doing, and what has been answered before, stays.                        *)
LEMMA EndKeeps ==
  ASSUME Ledgered, NEW w \in Workers, Busy(w),
         NEW answer \in Answers, NEW rest \in {"idle", "down"},
         answers' = [answers EXCEPT ![job[w].delivery] = answer],
         job' = [job EXCEPT ![w] = None],
         pc' = [pc EXCEPT ![w] = rest],
         UNCHANGED <<now, settings, sent>>,
         ledger' = ledger \/ (pc[w] = "inserted" /\ ledger' = ledger \cup {job[w]}),
         answer = "duplicate" => pc[w] = "inserting" /\ Recorded(job[w].event_id),
         answer = "accepted" => pc[w] = "recorded",
         answer # "pending"
  PROVE  Ledgered'
<1> DEFINE d == job[w].delivery
<1>1. /\ job[w] \in Row
      /\ d \in 1 .. Len(sent)
      /\ sent[d] = job[w].event_id
      /\ answers[d] = "pending"
  BY DEF Ledgered, JobsAreTheirOwn
<1>2. /\ answers' = [answers EXCEPT ![d] = answer]
      /\ job' = [job EXCEPT ![w] = None]
      /\ pc' = [pc EXCEPT ![w] = rest]
  OBVIOUS
<1> HIDE DEF d
<1>3. /\ answers' \in Seq(Answers) /\ Len(answers') = Len(sent)
      /\ \A n \in 1 .. Len(sent) : answers'[n] = IF n = d THEN answer ELSE answers[n]
  BY <1>1, <1>2, OneAnswer DEF Ledgered
<1>4. /\ \A v \in Workers : v # w => pc'[v] = pc[v] /\ job'[v] = job[v]
      /\ pc'[w] = rest /\ job'[w] = None
  BY <1>2 DEF Ledgered, TypeOK
<1>5. TypeOK'
  <2>1. pc' \in [Workers -> {"idle", "inserting", "inserted", "recorded", "down"}]
    BY <1>2 DEF Ledgered, TypeOK
  <2>2. job' \in [Workers -> Row \cup {None}]
    BY <1>2 DEF Ledgered, TypeOK
  <2>3. \A v \in Workers : job'[v] = None <=> pc'[v] \in {"idle", "down"}
    BY <1>4 DEF Ledgered, TypeOK
  <2>4. ledger' \subseteq Row
    BY <1>1 DEF Ledgered, TypeOK
  <2> QED
    BY <1>3, <2>1, <2>2, <2>3, <2>4 DEF Ledgered, TypeOK
<1>6. \A v \in Workers : Busy(v)' => v # w /\ Busy(v) /\ job[v].delivery # d
  BY <1>4 DEF Ledgered, JobsAreTheirOwn, Busy, d
<1>7. JobsAreTheirOwn'
  BY <1>3, <1>4, <1>6 DEF Ledgered, JobsAreTheirOwn, Busy
<1>8. \A row \in ledger : answers'[row.delivery] = answers[row.delivery]
                            \/ row.delivery = d
  BY <1>3 DEF Ledgered, RowsAreDeliveries
<1>9. pc[w] = "inserting" => \A row \in ledger : row.delivery # d
  BY DEF Ledgered, OpenTransactions, d
<1>10. RowsAreDeliveries'
  <2>1. ASSUME NEW row \in ledger'
        PROVE  /\ row.delivery \in 1 .. Len(sent)
               /\ sent[row.delivery] = row.event_id
               /\ answers'[row.delivery]
                    \in {"pending", "accepted", "internal_error", "lost"}
    <3>1. CASE row \in ledger /\ row.delivery # d
      BY <3>1, <1>3 DEF Ledgered, RowsAreDeliveries
    <3>2. CASE row.delivery = d /\ (row \in ledger \/ row = job[w])
      <4>1. answer # "duplicate"
        <5>1. CASE row \in ledger
          BY <3>2, <5>1, <1>9
        <5>2. CASE row \notin ledger
          BY <5>2
        <5> QED
          BY <5>1, <5>2
      <4> QED
        BY <3>2, <4>1, <1>1, <1>3 DEF Ledgered, RowsAreDeliveries, Answers
    <3> QED
      BY <3>1, <3>2 DEF d
  <2>2. \A r1, r2 \in ledger' : r1.event_id = r2.event_id => r1 = r2
    BY DEF Ledgered, RowsAreDeliveries, OpenTransactions, Recorded
  <2> QED
    BY <2>1, <2>2 DEF RowsAreDeliveries
<1>11. OpenTransactions'
  <2>1. ASSUME NEW v \in Workers, pc'[v] = "inserting"
        PROVE  \A row \in ledger' : row.delivery # job'[v].delivery
    BY <2>1, <1>4, <1>6 DEF Ledgered, OpenTransactions, Busy, d
  <2>2. ASSUME NEW v \in Workers, pc'[v] = "inserted"
        PROVE  ~Recorded(job[v].event_id)' /\ job'[v] = job[v]
    BY <2>2, <1>4 DEF Ledgered, OpenTransactions, Recorded
  <2>3. \A v \in Workers : pc'[v] = "recorded" => job'[v] \in ledger'
    BY <1>4 DEF Ledgered, OpenTransactions
  <2>4. \A u, v \in Workers :
          (/\ pc'[u] = "inserted" /\ pc'[v] = "inserted"
           /\ job'[u].event_id = job'[v].event_id) => u = v
    BY <1>4 DEF Ledgered, OpenTransactions
  <2> QED
    BY <2>1, <2>2, <2>3, <2>4 DEF OpenTransactions, Recorded
<1>12. AnswersAreTrue'
  <2>1. ASSUME NEW n \in 1 .. Len(sent), answers'[n] = "accepted"
        PROVE  \E row \in ledger' : row.delivery = n
    <3>1. CASE n = d
      BY <3>1, <2>1, <1>3 DEF Ledgered, OpenTransactions, d
    <3>2. CASE n # d
      BY <3>2, <2>1, <1>3 DEF Ledgered, AnswersAreTrue
    <3> QED
      BY <3>1, <3>2
  <2>2. ASSUME NEW n \in 1 .. Len(sent), answers'[n] = "duplicate"
        PROVE  \E row \in ledger' : row.event_id = sent[n] /\ row.delivery # n
    <3>1. CASE n = d
      BY <3>1, <2>2, <1>1, <1>3, <1>9 DEF Recorded
    <3>2. CASE n # d
      BY <3>2, <2>2, <1>3 DEF Ledgered, AnswersAreTrue
    <3> QED
      BY <3>1, <3>2
  <2> QED
    BY <2>1, <2>2 DEF AnswersAreTrue
<1> QED
  BY <1>5, <1>7, <1>10, <1>11, <1>12 DEF Ledgered

LEMMA CrashKeeps ==
  ASSUME Ledgered, NEW w \in Workers, Crash(w)
  PROVE  Ledgered'
<1>1. CASE pc[w] = "idle"
  <2>1. /\ pc' = [pc EXCEPT ![w] = "down"]
        /\ job' = [job EXCEPT ![w] = None]
        /\ UNCHANGED <<now, settings, ledger, sent, answers>>
    BY <1>1 DEF Crash
  <2>2. /\ \A v \in Workers : v # w => pc'[v] = pc[v]
        /\ \A v \in Workers : job'[v] = job[v]
        /\ pc'[w] = "down"
    BY <1>1, <2>1 DEF Ledgered, TypeOK
  <2>3. TypeOK'
    BY <2>1, <2>2 DEF Ledgered, TypeOK
  <2>4. JobsAreTheirOwn'
    BY <2>1, <2>2 DEF Ledgered, JobsAreTheirOwn, Busy
  <2>5. OpenTransactions'
    BY <2>1, <2>2 DEF Ledgered, OpenTransactions, Recorded
  <2>6. RowsAreDeliveries' /\ AnswersAreTrue'
    BY <2>1 DEF Ledgered, RowsAreDeliveries, AnswersAreTrue
  <2> QED
    BY <2>3, <2>4, <2>5, <2>6 DEF Ledgered
<1>2. CASE pc[w] # "idle"
  <2>1. Busy(w)
    BY <1>2 DEF Crash, Busy, Ledgered, TypeOK
  <2>2. /\ answers' = [answers EXCEPT ![job[w].delivery] = "lost"]
        /\ job' = [job EXCEPT ![w] = None]
        /\ pc' = [pc EXCEPT ![w] = "down"]
        /\ UNCHANGED <<now, settings, ledger, sent>>
    BY <1>2 DEF Crash
  <2>3. "lost" \in Answers
    BY DEF Answers
  <2> QED
    BY <2>1, <2>2, <2>3, EndKeeps
<1> QED
  BY <1>1, <1>2

LEMMA OthersKeep ==
  ASSUME Ledgered,
         \/ \E w \in Workers : Restart(w)
         \/ AdvanceClock
         \/ UNCHANGED vars
  PROVE  Ledgered'
<1>1. ASSUME NEW w \in Workers, Restart(w)
      PROVE  Ledgered'
  <2>1. /\ pc[w] = "down"
        /\ pc' = [pc EXCEPT ![w] = "idle"]
        /\ settings' \in [Workers -> Environments]
        /\ UNCHANGED <<now, job, ledger, sent, answers>>
    BY <1>1 DEF Restart, Ledgered, TypeOK
  <2>2. /\ \A v \in Workers : v # w => pc'[v] = pc[v]
        /\ pc'[w] = "idle"
    BY <2>1 DEF Ledgered, TypeOK
  <2>3. TypeOK'
    BY <2>1, <2>2 DEF Ledgered, TypeOK
  <2>4. JobsAreTheirOwn'
    BY <2>1, <2>2 DEF Ledgered, JobsAreTheirOwn, Busy
  <2>5. OpenTransactions'
    BY <2>1, <2>2 DEF Ledgered, OpenTransactions, Recorded
  <2>6. RowsAreDeliveries' /\ AnswersAreTrue'
    BY <2>1 DEF Ledgered, RowsAreDeliveries, AnswersAreTrue
  <2> QED
    BY <2>3, <2>4, <2>5, <2>6 DEF Ledgered
<1>2. CASE AdvanceClock
  <2>1. now' \in Nat /\ UNCHANGED <<settings, pc, job, ledger, sent, answers>>
    BY <1>2 DEF AdvanceClock, Ledgered, TypeOK
  <2> QED
    BY <2>1 DEF Ledgered, TypeOK, JobsAreTheirOwn, RowsAreDeliveries,
       OpenTransactions, AnswersAreTrue, Busy, Recorded
<1>3. CASE UNCHANGED vars
  BY <1>3 DEF vars, Ledgered, TypeOK, JobsAreTheirOwn, RowsAreDeliveries,
     OpenTransactions, AnswersAreTrue, Busy, Recorded
<1> QED
  BY <1>1, <1>2, <1>3

LEMMA StepLedgered ==
  ASSUME Ledgered, [Next]_vars
  PROVE  Ledgered'
<1>1. ASSUME NEW w \in Workers, RefuseDuplicate(w)
      PROVE  Ledgered'
  <2>1. Busy(w) /\ "duplicate" \in Answers
    BY <1>1 DEF RefuseDuplicate, Busy, Answers
  <2> QED
    BY <1>1, <2>1, EndKeeps DEF RefuseDuplicate, Conflicts, Finish
<1>2. ASSUME NEW w \in Workers, Accept(w)
      PROVE  Ledgered'
  <2>1. Busy(w) /\ "accepted" \in Answers
    BY <1>2 DEF Accept, Busy, Answers
  <2> QED
    BY <1>2, <2>1, EndKeeps DEF Accept, Finish
<1>3. ASSUME NEW w \in Workers, DatabaseFails(w)
      PROVE  Ledgered'
  <2>1. Busy(w) /\ "internal_error" \in Answers
    BY <1>3 DEF DatabaseFails, Busy, Answers
  <2>2. ledger' = ledger \/ (pc[w] = "inserted" /\ ledger' = ledger \cup {job[w]})
    BY <1>3 DEF DatabaseFails
  <2> QED
    BY <1>3, <2>1, <2>2, EndKeeps DEF DatabaseFails, Finish
<1>4. CASE \E w \in Workers : \/ \E request \in Requests : Receive(w, request)
                              \/ Insert(w) \/ Commit(w) \/ Crash(w)
  BY <1>4, ReceiveKeeps, InsertKeeps, CommitKeeps, CrashKeeps
<1>5. CASE (\E w \in Workers : Restart(w)) \/ AdvanceClock \/ UNCHANGED vars
  BY <1>5, OthersKeep
<1> QED
  BY <1>1, <1>2, <1>3, <1>4, <1>5 DEF Next, Handle

(* Every reachable state is one in which the open transactions agree with  *)
(* the rows and with the answers (SqlAlertLedger.record_if_new).           *)
THEOREM LedgerIsConsistent == Spec => []Ledgered
<1>1. Init => Ledgered
  BY InitLedgered
<1>2. Ledgered /\ [Next]_vars => Ledgered'
  BY StepLedgered
<1> QED
  BY <1>1, <1>2, PTL DEF Spec

(* Of all the deliveries of one event, to any number of workers, at most   *)
(* one is answered 202, and its row is the only row of the event.          *)
THEOREM NoneAcceptedTwice == Spec => []AcceptedOnce
<1>1. Ledgered => AcceptedOnce
  <2> SUFFICES ASSUME Ledgered PROVE AcceptedOnce
    OBVIOUS
  <2>1. Deliveries = 1 .. Len(sent)
    BY LenProperties DEF Deliveries, Ledgered, TypeOK
  <2>2. ASSUME NEW m \in Deliveries, NEW n \in Deliveries,
               answers[m] = "accepted", answers[n] = "accepted", sent[m] = sent[n]
        PROVE  m = n
    <3>1. PICK r1 \in ledger : r1.delivery = m
      BY <2>1, <2>2 DEF Ledgered, AnswersAreTrue
    <3>2. PICK r2 \in ledger : r2.delivery = n
      BY <2>1, <2>2 DEF Ledgered, AnswersAreTrue
    <3>3. r1.event_id = r2.event_id
      BY <2>2, <3>1, <3>2 DEF Ledgered, RowsAreDeliveries
    <3> QED
      BY <3>1, <3>2, <3>3 DEF Ledgered, RowsAreDeliveries
  <2> QED
    BY <2>1, <2>2 DEF AcceptedOnce, Ledgered, AnswersAreTrue, RowsAreDeliveries
<1> QED
  BY <1>1, LedgerIsConsistent, PTL

(* A 409 names an event that another delivery has put on record, and what  *)
(* is on record was never refused.                                         *)
THEOREM NoAlertIsLost == Spec => []DuplicateIsOnRecord
<1>1. Ledgered => DuplicateIsOnRecord
  <2> SUFFICES ASSUME Ledgered PROVE DuplicateIsOnRecord
    OBVIOUS
  <2>1. Deliveries = 1 .. Len(sent)
    BY LenProperties DEF Deliveries, Ledgered, TypeOK
  <2> QED
    BY <2>1 DEF DuplicateIsOnRecord, Ledgered, AnswersAreTrue, RowsAreDeliveries
<1> QED
  BY <1>1, LedgerIsConsistent, PTL
=============================================================================
