-------------------------- MODULE SyncIntakeProofs ---------------------------
(***************************************************************************)
(* Theorems about SyncIntake, for every set of events, payloads and        *)
(* requests and every value of the bounds.                                 *)
(*                                                                         *)
(* The argument: two open transactions never hold a receipt for the same   *)
(* event, and none holds one for an event already judged, because the      *)
(* receipt key is unique; inside one transaction the writes of an event    *)
(* and its ACCEPTED receipt come together, except between apply_event and  *)
(* put_receipt, where the savepoint still knows how to undo the former.    *)
(* So a commit adds writes and receipts together and once.                 *)
(***************************************************************************)
EXTENDS SyncIntake, TLAPS

-----------------------------------------------------------------------------
(* The inductive invariant *)

InIteration == {"gate", "savepoint", "apply", "put_accepted", "release",
                "rollback", "put_rejected"}
Unjudged    == InIteration \ {"release"}

IsAccepted(r) == r # NoReceipt /\ r.status = "ACCEPTED"

\* The event of an iteration is one still to process, without a receipt of
\* this request until put_receipt.
CurrentEvent ==
  \A s \in Sessions :
    /\ pc[s] \in InIteration => event[s] \in todo[s]
    /\ pc[s] \in Unjudged => txn[s].receipts[event[s]] = NoReceipt
    /\ pc[s] = "put_accepted" => event[s] \in txn[s].effects
    /\ pc[s] = "release" =>
         txn[s].receipts[event[s]] = [status |-> "ACCEPTED", hash |-> sent[s][event[s]]]

\* The unique key of the receipts.
UniqueKey ==
  \A s \in Sessions, e \in EventIds :
    txn[s].receipts[e] # NoReceipt =>
      /\ receipts[e] = NoReceipt
      /\ \A t \in Sessions \ {s} : txn[t].receipts[e] = NoReceipt

EffectsExact ==
  \A e \in EventIds : applied[e] = IF IsAccepted(receipts[e]) THEN 1 ELSE 0

TxnExact ==
  \A s \in Sessions, e \in EventIds :
    \/ pc[s] \in {"put_accepted", "rollback"} /\ e = event[s]
    \/ e \in txn[s].effects <=> IsAccepted(txn[s].receipts[e])

SavedExact ==
  \A s \in Sessions, e \in EventIds :
    pc[s] \in {"apply", "put_accepted", "rollback"} =>
      /\ saved[s].receipts[e] = txn[s].receipts[e]
      /\ e \in saved[s].effects <=> e \in txn[s].effects /\ e # event[s]

\* A request that has committed, or is over, holds nothing any more.
Quiet ==
  \A s \in Sessions, e \in EventIds :
    /\ pc[s] \in {"idle", "answer"} => e \notin todo[s] /\ txn[s].receipts[e] = NoReceipt
    /\ pc[s] = "idle" => answer[s][e] = None

\* What a request has collected for its answer is true of the receipts it
\* sees, and every event it was sent is answered or still to do.
AnswersTrue ==
  \A s \in Sessions, e \in EventIds :
    /\ e \in todo[s] => answer[s][e] = None
    /\ sent[s][e] # None <=> e \in todo[s] \/ answer[s][e] # None
    /\ answer[s][e] = "accepted"  => VisibleReceipt(s, e) = [status |-> "ACCEPTED", hash |-> sent[s][e]]
    /\ answer[s][e] = "rejected"  => VisibleReceipt(s, e) = [status |-> "REJECTED", hash |-> sent[s][e]]
    /\ answer[s][e] = "duplicate" => VisibleReceipt(s, e) # NoReceipt /\ VisibleReceipt(s, e).hash \in {sent[s][e], NoHash}
    /\ answer[s][e] = "conflict"  => VisibleReceipt(s, e) # NoReceipt /\ VisibleReceipt(s, e).hash \notin {sent[s][e], NoHash}
    /\ answer[s][e] = "refused"   => txn[s].receipts[e] = NoReceipt

\* The answer a station waits for is about the values it holds.
SentIsHeld ==
  \A s \in Sessions, e \in EventIds :
    awaiting = s => sent[s][e] \in {None, payload[e]}

IInv ==
  /\ TypeOK /\ CurrentEvent
  /\ UniqueKey /\ EffectsExact /\ TxnExact /\ SavedExact
  /\ Quiet /\ AnswersTrue /\ SentIsHeld /\ StationRecordIsTrue

-----------------------------------------------------------------------------
(* Each action preserves it *)

USE DEF stationVars, centralVars, requestVars, boundVars

\* The initial state satisfies the inductive invariant.
LEMMA InitHolds == Init => IInv
BY IntakeAssumption, MarkersAssumption
   DEF Init, IInv, TypeOK, CurrentEvent, UniqueKey, EffectsExact, TxnExact, SavedExact,
       Quiet, AnswersTrue, SentIsHeld, StationRecordIsTrue, EmptyTxn, NoReceipts,
       LegacyReceipt, VisibleReceipt, Agrees,
       Receipt, Txn, Statuses, Outcomes, Points, IsAccepted, InIteration, Unjudged

-----------------------------------------------------------------------------
(* What the helpers of the actions do, value by value *)

\* What Conclude does, value by value: one answer, one event less to do.
LEMMA ConcludeValues ==
  ASSUME TypeOK, NEW s \in Sessions, NEW e \in EventIds,
         NEW outcome \in Outcomes \cup {None}, Conclude(s, e, outcome)
  PROVE  /\ answer' \in [Sessions -> [EventIds -> Outcomes \cup {None}]]
         /\ todo' \in [Sessions -> SUBSET EventIds]
         /\ event' \in [Sessions -> EventIds \cup {None}]
         /\ pc' \in [Sessions -> Points]
         /\ \A t \in Sessions, d \in EventIds :
              answer'[t][d] = IF t = s /\ d = e THEN outcome ELSE answer[t][d]
         /\ \A t \in Sessions : todo'[t] = IF t = s THEN todo[t] \ {e} ELSE todo[t]
         /\ \A t \in Sessions : event'[t] = IF t = s THEN None ELSE event[t]
         /\ \A t \in Sessions : pc'[t] = IF t = s THEN "next" ELSE pc[t]
<1>1. /\ answer \in [Sessions -> [EventIds -> Outcomes \cup {None}]]
      /\ todo \in [Sessions -> SUBSET EventIds]
      /\ event \in [Sessions -> EventIds \cup {None}]
      /\ pc \in [Sessions -> Points]
  BY DEF TypeOK
<1>2. answer' = [answer EXCEPT ![s] = [@ EXCEPT ![e] = outcome]] BY DEF Conclude
<1>3. [answer[s] EXCEPT ![e] = outcome] \in [EventIds -> Outcomes \cup {None}]
  BY <1>1
<1>4. /\ answer' \in [Sessions -> [EventIds -> Outcomes \cup {None}]]
      /\ \A t \in Sessions, d \in EventIds :
           answer'[t][d] = IF t = s /\ d = e THEN outcome ELSE answer[t][d]
  BY <1>1, <1>2, <1>3
<1> QED BY <1>1, <1>4 DEF Conclude, Points

\* What StoreReceipt does, value by value: one receipt in one transaction.
LEMMA StoreReceiptValues ==
  ASSUME TypeOK, NEW s \in Sessions, NEW e \in EventIds, NEW status \in Statuses,
         sent[s][e] # None, StoreReceipt(s, e, status)
  PROVE  /\ txn' \in [Sessions -> Txn]
         /\ \A t \in Sessions, d \in EventIds :
              txn'[t].receipts[d] = IF t = s /\ d = e
                                    THEN [status |-> status, hash |-> sent[s][e]]
                                    ELSE txn[t].receipts[d]
         /\ \A t \in Sessions : txn'[t].effects = txn[t].effects
<1>1. txn \in [Sessions -> Txn] /\ sent \in [Sessions -> [EventIds -> Values \cup {None}]]
  BY DEF TypeOK
<1> DEFINE r == [status |-> status, hash |-> sent[s][e]]
<1>2. r \in Receipt BY <1>1 DEF Receipt
<1>3. /\ txn[s].receipts \in [EventIds -> Receipt \cup {NoReceipt}]
      /\ txn[s].effects \in SUBSET EventIds
      /\ txn[s] = [receipts |-> txn[s].receipts, effects |-> txn[s].effects]
  BY <1>1 DEF Txn
<1> DEFINE rs == [txn[s].receipts EXCEPT ![e] = r]
<1>4. rs \in [EventIds -> Receipt \cup {NoReceipt}] BY <1>2, <1>3
<1>5. txn' = [txn EXCEPT ![s] = [receipts |-> rs, effects |-> txn[s].effects]]
  <2>1. txn' = [txn EXCEPT ![s] = [txn[s] EXCEPT !.receipts = rs]]
    BY <1>1 DEF StoreReceipt
  <2>2. [txn[s] EXCEPT !.receipts = rs] = [receipts |-> rs, effects |-> txn[s].effects]
    BY <1>3
  <2> QED BY <2>1, <2>2
<1>6. [receipts |-> rs, effects |-> txn[s].effects] \in Txn BY <1>3, <1>4 DEF Txn
<1>7. \A d \in EventIds : rs[d] = IF d = e THEN r ELSE txn[s].receipts[d] BY <1>3
<1> HIDE DEF rs, r
<1>8. txn' \in [Sessions -> Txn] BY <1>1, <1>5, <1>6
<1>9. \A t \in Sessions : txn'[t].receipts = IF t = s THEN rs ELSE txn[t].receipts
  BY <1>1, <1>5
<1>10. \A t \in Sessions : txn'[t].effects = txn[t].effects
  BY <1>1, <1>5
<1>11. \A t \in Sessions, d \in EventIds :
         txn'[t].receipts[d] = IF t = s /\ d = e THEN r ELSE txn[t].receipts[d]
  BY <1>7, <1>9
<1> QED BY <1>8, <1>10, <1>11 DEF r

\* An empty transaction holds no receipt and no write.
LEMMA EmptyTxnValues ==
  /\ EmptyTxn \in Txn
  /\ \A e \in EventIds : EmptyTxn.receipts[e] = NoReceipt
  /\ EmptyTxn.effects = {}
BY DEF EmptyTxn, Txn, NoReceipts

\* What EndRequest does, value by value: one request is back at its start.
LEMMA EndRequestValues ==
  ASSUME TypeOK, NEW s \in Sessions, EndRequest(s)
  PROVE  /\ answer' \in [Sessions -> [EventIds -> Outcomes \cup {None}]]
         /\ sent' \in [Sessions -> [EventIds -> Values \cup {None}]]
         /\ todo' \in [Sessions -> SUBSET EventIds]
         /\ event' \in [Sessions -> EventIds \cup {None}]
         /\ pc' \in [Sessions -> Points]
         /\ txn' \in [Sessions -> Txn]
         /\ saved' \in [Sessions -> Txn]
         /\ \A t \in Sessions \ {s} :
              /\ answer'[t] = answer[t] /\ sent'[t] = sent[t] /\ todo'[t] = todo[t]
              /\ event'[t] = event[t] /\ pc'[t] = pc[t]
              /\ txn'[t] = txn[t] /\ saved'[t] = saved[t]
         /\ pc'[s] = "idle" /\ todo'[s] = {} /\ txn'[s].effects = {}
         /\ \A d \in EventIds :
              answer'[s][d] = None /\ sent'[s][d] = None /\ txn'[s].receipts[d] = NoReceipt
<1> DEFINE nothing == [e \in EventIds |-> None]
<1>1. /\ nothing \in [EventIds -> Outcomes \cup {None}]
      /\ nothing \in [EventIds -> Values \cup {None}]
      /\ \A d \in EventIds : nothing[d] = None
  OBVIOUS
<1>2. /\ answer' = [answer EXCEPT ![s] = nothing]
      /\ sent' = [sent EXCEPT ![s] = nothing]
      /\ txn' = [txn EXCEPT ![s] = EmptyTxn]
      /\ saved' = [saved EXCEPT ![s] = EmptyTxn]
      /\ todo' = [todo EXCEPT ![s] = {}]
      /\ event' = [event EXCEPT ![s] = None]
      /\ pc' = [pc EXCEPT ![s] = "idle"]
  BY DEF EndRequest
<1>3. /\ answer \in [Sessions -> [EventIds -> Outcomes \cup {None}]]
      /\ sent \in [Sessions -> [EventIds -> Values \cup {None}]]
      /\ todo \in [Sessions -> SUBSET EventIds]
      /\ event \in [Sessions -> EventIds \cup {None}]
      /\ pc \in [Sessions -> Points]
      /\ txn \in [Sessions -> Txn]
      /\ saved \in [Sessions -> Txn]
  BY DEF TypeOK
<1> HIDE DEF nothing
<1>4. /\ answer' \in [Sessions -> [EventIds -> Outcomes \cup {None}]]
      /\ sent' \in [Sessions -> [EventIds -> Values \cup {None}]]
      /\ \A t \in Sessions \ {s} : answer'[t] = answer[t] /\ sent'[t] = sent[t]
      /\ answer'[s] = nothing /\ sent'[s] = nothing
  BY <1>1, <1>2, <1>3
<1>5. /\ todo' \in [Sessions -> SUBSET EventIds]
      /\ event' \in [Sessions -> EventIds \cup {None}]
      /\ pc' \in [Sessions -> Points]
      /\ \A t \in Sessions \ {s} :
           todo'[t] = todo[t] /\ event'[t] = event[t] /\ pc'[t] = pc[t]
      /\ pc'[s] = "idle" /\ todo'[s] = {}
  BY <1>2, <1>3 DEF Points
<1>6. /\ txn' \in [Sessions -> Txn]
      /\ saved' \in [Sessions -> Txn]
      /\ \A t \in Sessions \ {s} : txn'[t] = txn[t] /\ saved'[t] = saved[t]
      /\ txn'[s] = EmptyTxn
  BY <1>2, <1>3, EmptyTxnValues
<1> QED BY <1>1, <1>4, <1>5, <1>6, EmptyTxnValues

-----------------------------------------------------------------------------
(* An iteration ends, or a request does *)

\* What the answer may say of an event, given the receipt the request sees.
TrueOutcome(outcome, visible, own, hash) ==
  /\ outcome \in Outcomes
  /\ outcome = "accepted"  => visible = [status |-> "ACCEPTED", hash |-> hash]
  /\ outcome = "rejected"  => visible = [status |-> "REJECTED", hash |-> hash]
  /\ outcome = "duplicate" => visible # NoReceipt /\ visible.hash \in {hash, NoHash}
  /\ outcome = "conflict"  => visible # NoReceipt /\ visible.hash \notin {hash, NoHash}
  /\ outcome = "refused"   => own = NoReceipt

\* An iteration that ends without touching a table keeps the invariant.
LEMMA ConcludeStep ==
  ASSUME IInv, NEW s \in Sessions, NEW e \in todo[s], NEW outcome,
         pc[s] \in InIteration \cup {"next"}, pc[s] \in InIteration => e = event[s],
         pc[s] \notin {"put_accepted", "rollback"},
         TrueOutcome(outcome, VisibleReceipt(s, e), txn[s].receipts[e], sent[s][e]),
         Conclude(s, e, outcome),
         UNCHANGED <<stationVars, centralVars, sent, txn, saved, boundVars>>
  PROVE  IInv'
<1> USE DEF IInv
<1>1. todo \in [Sessions -> SUBSET EventIds] /\ e \in EventIds BY DEF TypeOK
<1>2. outcome \in Outcomes /\ outcome # None BY MarkersAssumption DEF TrueOutcome
<1> DEFINE Values1 ==
         /\ answer' \in [Sessions -> [EventIds -> Outcomes \cup {None}]]
         /\ todo' \in [Sessions -> SUBSET EventIds]
         /\ event' \in [Sessions -> EventIds \cup {None}]
         /\ pc' \in [Sessions -> Points]
         /\ \A t \in Sessions, d \in EventIds :
              answer'[t][d] = IF t = s /\ d = e THEN outcome ELSE answer[t][d]
         /\ \A t \in Sessions : todo'[t] = IF t = s THEN todo[t] \ {e} ELSE todo[t]
         /\ \A t \in Sessions : event'[t] = IF t = s THEN None ELSE event[t]
         /\ \A t \in Sessions : pc'[t] = IF t = s THEN "next" ELSE pc[t]
<1>3. Values1 BY <1>1, <1>2, ConcludeValues
<1>4. TypeOK'       BY <1>3 DEF TypeOK
<1>5. CurrentEvent' BY <1>3 DEF CurrentEvent, InIteration, Unjudged
<1>6. UniqueKey' /\ EffectsExact' /\ SentIsHeld' /\ StationRecordIsTrue'
  BY DEF UniqueKey, EffectsExact, SentIsHeld, StationRecordIsTrue, Agrees
<1>7. TxnExact'     BY <1>3 DEF TxnExact
<1>8. SavedExact'   BY <1>3 DEF SavedExact
<1>9. Quiet'        BY <1>3 DEF Quiet, InIteration
<1>10. AnswersTrue'
  <2> SUFFICES ASSUME NEW t \in Sessions, NEW d \in EventIds
               PROVE  AnswersTrue!(t, d)'
    BY DEF AnswersTrue
  <2>1. VisibleReceipt(t, d)' = VisibleReceipt(t, d) BY DEF VisibleReceipt
  <2>2. CASE t = s /\ d = e
    BY <1>1, <1>2, <1>3, <2>1, <2>2, MarkersAssumption DEF AnswersTrue, TrueOutcome, Outcomes
  <2>3. CASE ~(t = s /\ d = e)
    BY <1>1, <1>2, <1>3, <2>1, <2>3 DEF AnswersTrue
  <2> QED BY <2>2, <2>3
<1> QED BY <1>4, <1>5, <1>6, <1>7, <1>8, <1>9, <1>10

\* A request that ends without having committed keeps the invariant.
LEMMA EndRequestStep ==
  ASSUME IInv, NEW s \in Sessions, EndRequest(s),
         awaiting' \in {awaiting, None},
         outbox' \in [EventIds -> {"PENDING", "ACCEPTED", "REJECTED", "REFUSED"}],
         StationRecordIsTrue', failures' \in Nat,
         UNCHANGED <<payload, centralVars, reissues, toggles>>
  PROVE  IInv'
<1> USE DEF IInv
<1>1. TypeOK' BY EndRequestValues DEF TypeOK
<1>2. EffectsExact' BY DEF EffectsExact
<1>3. \A t \in Sessions \ {s} :
        /\ answer'[t] = answer[t] /\ sent'[t] = sent[t] /\ todo'[t] = todo[t]
        /\ event'[t] = event[t] /\ pc'[t] = pc[t]
        /\ txn'[t].receipts = txn[t].receipts /\ txn'[t].effects = txn[t].effects
        /\ saved'[t].receipts = saved[t].receipts /\ saved'[t].effects = saved[t].effects
  BY EndRequestValues
<1>4. CurrentEvent'
  <2>1. CurrentEvent!(s)' BY EndRequestValues DEF InIteration, Unjudged
  <2>2. ASSUME NEW t \in Sessions \ {s} PROVE CurrentEvent!(t)'
    <3>1. /\ sent'[t] = sent[t] /\ todo'[t] = todo[t]
          /\ event'[t] = event[t] /\ pc'[t] = pc[t]
          /\ txn'[t].receipts = txn[t].receipts /\ txn'[t].effects = txn[t].effects
      BY <1>3
    <3> QED BY <3>1 DEF CurrentEvent
  <2> QED BY <2>1, <2>2 DEF CurrentEvent
<1>5. ASSUME NEW t \in Sessions, NEW d \in EventIds
      PROVE  /\ UniqueKey!(t, d)' /\ TxnExact!(t, d)' /\ SavedExact!(t, d)'
             /\ Quiet!(t, d)' /\ AnswersTrue!(t, d)' /\ SentIsHeld!(t, d)'
  <2>1. CASE t = s
    <3>1. /\ UniqueKey!(t, d)' /\ TxnExact!(t, d)'
          /\ SavedExact!(t, d)' /\ Quiet!(t, d)'
      BY <2>1, EndRequestValues DEF IsAccepted
    <3>2. AnswersTrue!(t, d)'
      BY <2>1, EndRequestValues, MarkersAssumption DEF Outcomes
    <3>3. SentIsHeld!(t, d)' BY <2>1, EndRequestValues
    <3> QED BY <3>1, <3>2, <3>3
  <2>2. CASE t # s
    <3>1. \A u \in Sessions : txn'[u].receipts[d] \in {NoReceipt, txn[u].receipts[d]}
      BY EndRequestValues
    <3>2. UniqueKey!(t, d)' BY <1>3, <2>2, <3>1 DEF UniqueKey
    <3>3. TxnExact!(t, d)' BY <1>3, <2>2 DEF TxnExact
    <3>4. SavedExact!(t, d)' BY <1>3, <2>2 DEF SavedExact
    <3>5. Quiet!(t, d)' BY <1>3, <2>2 DEF Quiet
    <3>6. AnswersTrue!(t, d)'
      <4>1. VisibleReceipt(t, d)' = VisibleReceipt(t, d)
        BY <1>3, <2>2 DEF VisibleReceipt
      <4> QED BY <1>3, <2>2, <4>1 DEF AnswersTrue
    <3>7. SentIsHeld!(t, d)'
      BY <1>3, <2>2, IntakeAssumption DEF SentIsHeld
    <3> QED BY <3>2, <3>3, <3>4, <3>5, <3>6, <3>7
  <2> QED BY <2>1, <2>2
<1>6. UniqueKey' /\ TxnExact' BY <1>5 DEF UniqueKey, TxnExact
<1>7. SavedExact' /\ Quiet' BY <1>5 DEF SavedExact, Quiet
<1>8. AnswersTrue' BY <1>5 DEF AnswersTrue
<1>9. SentIsHeld' BY <1>5 DEF SentIsHeld
<1> QED BY <1>1, <1>2, <1>4, <1>6, <1>7, <1>8, <1>9

-----------------------------------------------------------------------------
(* Each action preserves the invariant *)

\* An answer that arrives keeps the invariant: what it says is on record.
LEMMA DeliverStep ==
  ASSUME IInv, NEW s \in Sessions, Deliver(s) PROVE IInv'
<1>1. UNCHANGED <<payload, centralVars, boundVars>> /\ EndRequest(s) BY DEF Deliver
<1>2. CASE awaiting = s
  <2>1. outbox' = [e \in EventIds |-> Reconciled(outbox[e], answer[s][e])] /\ awaiting' = None
    BY <1>2 DEF Deliver
  <2>2. \A e \in EventIds : /\ answer[s][e] \in Outcomes \cup {None}
                            /\ outbox[e] \in {"PENDING", "ACCEPTED", "REJECTED", "REFUSED"}
    BY DEF IInv, TypeOK
  <2>3. outbox' \in [EventIds -> {"PENDING", "ACCEPTED", "REJECTED", "REFUSED"}]
    BY <2>1, <2>2 DEF Reconciled
  <2>4. ASSUME NEW e \in EventIds PROVE StationRecordIsTrue!(e)'
    <3>1. VisibleReceipt(s, e) = receipts[e] BY DEF IInv, Quiet, VisibleReceipt, Deliver
    <3>2. sent[s][e] \in {None, payload[e]} BY <1>2 DEF IInv, SentIsHeld
    <3>3. answer[s][e] # None => sent[s][e] = payload[e]
      BY <3>2 DEF IInv, AnswersTrue
    <3>4. CASE answer[s][e] = "accepted"
      BY <1>1, <2>1, <3>1, <3>3, <3>4, MarkersAssumption
      DEF IInv, AnswersTrue, Reconciled, Agrees, Outcomes, Receipt, Statuses, TypeOK
    <3>5. CASE answer[s][e] = "duplicate"
      BY <1>1, <2>1, <3>1, <3>3, <3>5, MarkersAssumption
      DEF IInv, AnswersTrue, Reconciled, Agrees, Outcomes
    <3>6. CASE answer[s][e] \in {"rejected", "conflict", "refused", None}
      <4>1. outbox'[e] = Reconciled(outbox[e], answer[s][e]) BY <2>1
      <4>2. outbox'[e] = "ACCEPTED" => outbox[e] = "ACCEPTED"
        BY <3>6, <4>1, MarkersAssumption DEF Reconciled, Outcomes
      <4>3. outbox'[e] = "REJECTED" => outbox[e] = "REJECTED" \/ answer[s][e] \in {"rejected", "conflict"}
        BY <3>6, <4>1, MarkersAssumption DEF Reconciled, Outcomes
      <4>4. answer[s][e] \in {"rejected", "conflict"} => receipts[e] # NoReceipt
        <5>1. CASE answer[s][e] = "rejected"
          <6>1. receipts[e] = [status |-> "REJECTED", hash |-> sent[s][e]]
            BY <3>1, <5>1 DEF IInv, AnswersTrue
          <6>2. sent[s][e] \in Values
            BY <5>1, MarkersAssumption DEF IInv, AnswersTrue, TypeOK, Outcomes
          <6> QED BY <6>1, <6>2, MarkersAssumption DEF Receipt, Statuses
        <5>2. CASE answer[s][e] = "conflict"
          BY <3>1, <5>2 DEF IInv, AnswersTrue
        <5> QED BY <5>1, <5>2
      <4> QED BY <1>1, <4>2, <4>3, <4>4 DEF IInv, StationRecordIsTrue, Agrees
    <3> QED BY <2>2, <3>4, <3>5, <3>6 DEF Outcomes
  <2> QED BY <1>1, <2>1, <2>3, <2>4, EndRequestStep DEF StationRecordIsTrue, boundVars, IInv, TypeOK
<1>3. CASE awaiting # s
  <2>1. UNCHANGED <<outbox, awaiting>> BY <1>3 DEF Deliver
  <2>2. StationRecordIsTrue' BY <1>1, <2>1 DEF IInv, StationRecordIsTrue, Agrees
  <2> QED BY <1>1, <2>1, <2>2, EndRequestStep DEF IInv, TypeOK
<1> QED BY <1>2, <1>3

\* Lost answers, errors, crashes and failed puts keep the invariant.
LEMMA FailureStep ==
  ASSUME IInv, NEW s \in Sessions, Fail(s) \/ LoseAnswer(s) \/ PutFails(s) PROVE IInv'
<1>1. EndRequest(s) /\ UNCHANGED <<stationVars, centralVars, reissues, toggles>>
  BY DEF Fail, LoseAnswer, PutFails
<1>2. failures' \in Nat BY DEF Fail, LoseAnswer, PutFails, IInv, TypeOK
<1>3. StationRecordIsTrue' BY <1>1 DEF IInv, StationRecordIsTrue, Agrees
<1> QED BY <1>1, <1>2, <1>3, EndRequestStep DEF IInv, TypeOK
\* The gate keeps the invariant: a refusal leaves no trace.
LEMMA GateStep ==
  ASSUME IInv, NEW s \in Sessions, Gate(s) PROVE IInv'
<1>1. pc[s] = "gate" /\ event[s] \in todo[s] /\ txn[s].receipts[event[s]] = NoReceipt
  BY DEF Gate, IInv, CurrentEvent, InIteration, Unjudged
<1>2. CASE gateOpen
  <2>1. /\ pc' = [pc EXCEPT ![s] = "savepoint"]
        /\ UNCHANGED <<stationVars, centralVars, todo, event, sent, answer, txn, saved, boundVars>>
    BY <1>2 DEF Gate
  <2>2. pc \in [Sessions -> Points] BY DEF IInv, TypeOK
  <2>3. /\ pc' \in [Sessions -> Points] /\ pc'[s] = "savepoint"
        /\ \A t \in Sessions \ {s} : pc'[t] = pc[t]
    BY <2>1, <2>2 DEF Points
  <2>4. TypeOK' BY <2>1, <2>3 DEF IInv, TypeOK
  <2>5. CurrentEvent' BY <1>1, <2>1, <2>3 DEF IInv, CurrentEvent, InIteration, Unjudged
  <2>6. TxnExact' /\ SavedExact' /\ Quiet'
    BY <1>1, <2>1, <2>3 DEF IInv, TxnExact, SavedExact, Quiet
  <2>7. UniqueKey' /\ EffectsExact' /\ SentIsHeld' /\ StationRecordIsTrue'
    BY <2>1 DEF IInv, UniqueKey, EffectsExact, SentIsHeld, StationRecordIsTrue, Agrees
  <2>8. AnswersTrue' BY <2>1 DEF IInv, AnswersTrue, VisibleReceipt
  <2> QED BY <2>4, <2>5, <2>6, <2>7, <2>8 DEF IInv
<1>3. CASE ~gateOpen
  <2>1. /\ Conclude(s, event[s], "refused")
        /\ UNCHANGED <<stationVars, centralVars, sent, txn, saved, boundVars>>
    BY <1>3 DEF Gate, Refuse
  <2>2. TrueOutcome("refused", VisibleReceipt(s, event[s]), txn[s].receipts[event[s]], sent[s][event[s]])
    BY <1>1 DEF TrueOutcome, Outcomes
  <2> QED BY <1>1, <2>1, <2>2, ConcludeStep DEF InIteration
<1> QED BY <1>2, <1>3

\* Releasing the savepoint keeps the invariant.
LEMMA ReleaseStep ==
  ASSUME IInv, NEW s \in Sessions, Release(s) PROVE IInv'
<1>1. /\ pc[s] = "release" /\ Conclude(s, event[s], "accepted")
      /\ UNCHANGED <<stationVars, centralVars, sent, txn, saved, boundVars>>
  BY DEF Release
<1>2. /\ event[s] \in todo[s] /\ event[s] \in EventIds
      /\ txn[s].receipts[event[s]] = [status |-> "ACCEPTED", hash |-> sent[s][event[s]]]
  BY <1>1 DEF IInv, TypeOK, CurrentEvent, InIteration
<1>3. sent[s][event[s]] \in Values BY <1>2 DEF IInv, TypeOK, AnswersTrue
<1>4. txn[s].receipts[event[s]] # NoReceipt
  BY <1>2, <1>3, MarkersAssumption DEF Receipt, Statuses
<1>5. TrueOutcome("accepted", VisibleReceipt(s, event[s]), txn[s].receipts[event[s]], sent[s][event[s]])
  BY <1>2, <1>4 DEF TrueOutcome, VisibleReceipt, Outcomes
<1> QED BY <1>1, <1>2, <1>5, ConcludeStep DEF InIteration

\* The dedupe test keeps the invariant: its verdict agrees with a receipt.
LEMMA DedupeStep ==
  ASSUME IInv, NEW s \in Sessions, NEW e \in EventIds, Dedupe(s, e) PROVE IInv'
<1>1. /\ pc[s] = "next" /\ e \in todo[s]
      /\ UNCHANGED <<stationVars, centralVars, sent, txn, saved, boundVars>>
  BY DEF Dedupe
<1> DEFINE found == VisibleReceipt(s, e)
<1>2. CASE found # NoReceipt
  <2>1. Conclude(s, e, DedupeOutcome(found, sent[s][e])) BY <1>2 DEF Dedupe
  <2>2. TrueOutcome(DedupeOutcome(found, sent[s][e]), found, txn[s].receipts[e], sent[s][e])
    BY <1>2 DEF TrueOutcome, DedupeOutcome, Outcomes
  <2>3. CASE DedupeOutcome(found, sent[s][e]) = "conflict"
    BY <1>1, <2>1, <2>2, <2>3, ConcludeStep DEF InIteration
  <2>4. CASE DedupeOutcome(found, sent[s][e]) = "duplicate"
    BY <1>1, <2>1, <2>2, <2>4, ConcludeStep DEF InIteration
  <2> QED BY <2>3, <2>4 DEF DedupeOutcome
<1>3. CASE found = NoReceipt
  <2>1. /\ event' = [event EXCEPT ![s] = e] /\ pc' = [pc EXCEPT ![s] = "gate"]
        /\ UNCHANGED <<answer, todo>>
    BY <1>3 DEF Dedupe
  <2>2. pc \in [Sessions -> Points] /\ event \in [Sessions -> EventIds \cup {None}]
    BY DEF IInv, TypeOK
  <2>3. /\ pc' \in [Sessions -> Points] /\ event' \in [Sessions -> EventIds \cup {None}]
        /\ pc'[s] = "gate" /\ event'[s] = e
        /\ \A t \in Sessions \ {s} : pc'[t] = pc[t] /\ event'[t] = event[t]
    BY <2>1, <2>2 DEF Points
  <2>4. txn[s].receipts[e] = NoReceipt BY <1>3 DEF VisibleReceipt
  <2>5. TypeOK' BY <1>1, <2>1, <2>3 DEF IInv, TypeOK
  <2>6. CurrentEvent' BY <1>1, <2>1, <2>3, <2>4 DEF IInv, CurrentEvent, InIteration, Unjudged
  <2>7. TxnExact' /\ SavedExact' /\ Quiet'
    BY <1>1, <2>1, <2>3 DEF IInv, TxnExact, SavedExact, Quiet
  <2>8. UniqueKey' /\ EffectsExact' /\ SentIsHeld' /\ StationRecordIsTrue'
    BY <1>1 DEF IInv, UniqueKey, EffectsExact, SentIsHeld, StationRecordIsTrue, Agrees
  <2>9. AnswersTrue' BY <1>1, <2>1 DEF IInv, AnswersTrue, VisibleReceipt
  <2> QED BY <2>5, <2>6, <2>7, <2>8, <2>9 DEF IInv
<1> QED BY <1>2, <1>3

\* Opening the savepoint keeps the invariant.
LEMMA SavepointStep ==
  ASSUME IInv, NEW s \in Sessions, Savepoint(s) PROVE IInv'
<1>1. /\ pc[s] = "savepoint" /\ saved' = [saved EXCEPT ![s] = txn[s]]
      /\ pc' = [pc EXCEPT ![s] = "apply"]
      /\ UNCHANGED <<stationVars, centralVars, todo, event, sent, answer, txn, boundVars>>
  BY DEF Savepoint
<1>2. pc \in [Sessions -> Points] /\ saved \in [Sessions -> Txn] /\ txn \in [Sessions -> Txn]
  BY DEF IInv, TypeOK
<1>3. /\ pc' \in [Sessions -> Points] /\ saved' \in [Sessions -> Txn]
      /\ pc'[s] = "apply" /\ saved'[s] = txn[s]
      /\ \A t \in Sessions \ {s} : pc'[t] = pc[t] /\ saved'[t] = saved[t]
  BY <1>1, <1>2 DEF Points
<1>4. TypeOK' BY <1>1, <1>3 DEF IInv, TypeOK
<1>5. CurrentEvent' BY <1>1, <1>3 DEF IInv, CurrentEvent, InIteration, Unjudged
<1>6. TxnExact' /\ Quiet' BY <1>1, <1>3 DEF IInv, TxnExact, Quiet
<1>7. SavedExact'
  <2>1. event[s] \in EventIds /\ event[s] \notin txn[s].effects
    BY <1>1 DEF IInv, TypeOK, CurrentEvent, TxnExact, InIteration, Unjudged, IsAccepted
  <2> QED BY <1>1, <1>3, <2>1 DEF IInv, SavedExact
<1>8. UniqueKey' /\ EffectsExact' /\ SentIsHeld' /\ StationRecordIsTrue'
  BY <1>1 DEF IInv, UniqueKey, EffectsExact, SentIsHeld, StationRecordIsTrue, Agrees
<1>9. AnswersTrue' BY <1>1 DEF IInv, AnswersTrue, VisibleReceipt
<1> QED BY <1>4, <1>5, <1>6, <1>7, <1>8, <1>9 DEF IInv
\* The writes of one request change, its receipts do not.
LEMMA EffectsValues ==
  ASSUME TypeOK, NEW s \in Sessions, NEW W \in SUBSET EventIds,
         WriteFor(s, W)
  PROVE  /\ txn' \in [Sessions -> Txn]
         /\ \A t \in Sessions : txn'[t].receipts = txn[t].receipts
         /\ \A t \in Sessions \ {s} : txn'[t].effects = txn[t].effects
         /\ txn'[s].effects = txn[s].effects \cup W
<1>1. /\ txn \in [Sessions -> Txn]
      /\ txn[s].receipts \in [EventIds -> Receipt \cup {NoReceipt}]
      /\ txn[s].effects \in SUBSET EventIds
      /\ txn[s] = [receipts |-> txn[s].receipts, effects |-> txn[s].effects]
  BY DEF TypeOK, Txn
<1> DEFINE new == [receipts |-> txn[s].receipts, effects |-> txn[s].effects \cup W]
<1>2. new \in Txn BY <1>1 DEF Txn
<1>3. txn' = [txn EXCEPT ![s] = [txn[s] EXCEPT !.effects = txn[s].effects \cup W]]
  BY <1>1 DEF WriteFor
<1>4. [txn[s] EXCEPT !.effects = txn[s].effects \cup W] = new BY <1>1
<1>5. txn' = [txn EXCEPT ![s] = new] BY <1>3, <1>4
<1>6. new.receipts = txn[s].receipts /\ new.effects = txn[s].effects \cup W OBVIOUS
<1> HIDE DEF new
<1>7. txn' \in [Sessions -> Txn] /\ txn'[s] = new BY <1>1, <1>2, <1>5
<1>8. \A t \in Sessions \ {s} : txn'[t] = txn[t] BY <1>1, <1>5
<1>9. \A t \in Sessions : txn'[t].receipts = txn[t].receipts BY <1>6, <1>7, <1>8
<1>10. \A t \in Sessions \ {s} : txn'[t].effects = txn[t].effects BY <1>8
<1> QED BY <1>6, <1>7, <1>9, <1>10

\* Applying an event, rejected or not, keeps the invariant.
LEMMA ApplySteps ==
  ASSUME IInv, NEW s \in Sessions, Apply(s) \/ ApplyRejects(s) PROVE IInv'
<1>1. /\ pc[s] = "apply" /\ event[s] \in todo[s]
      /\ UNCHANGED <<stationVars, centralVars, todo, event, sent, answer, saved, boundVars>>
  BY DEF Apply, ApplyRejects, IInv, CurrentEvent, InIteration
<1>2. event[s] \in EventIds BY <1>1 DEF IInv, TypeOK
<1>3. PICK W \in SUBSET {event[s]} :
        /\ WriteFor(s, W)
        /\ \/ W = {event[s]} /\ pc' = [pc EXCEPT ![s] = "put_accepted"]
           \/ pc' = [pc EXCEPT ![s] = "rollback"]
  BY DEF Apply, ApplyRejects
<1>4. /\ txn' \in [Sessions -> Txn]
      /\ \A t \in Sessions : txn'[t].receipts = txn[t].receipts
      /\ \A t \in Sessions \ {s} : txn'[t].effects = txn[t].effects
      /\ txn'[s].effects = txn[s].effects \cup W
  BY <1>2, <1>3, EffectsValues DEF IInv
<1>5. pc \in [Sessions -> Points] BY DEF IInv, TypeOK
<1>6. /\ pc' \in [Sessions -> Points]
      /\ pc'[s] \in {"put_accepted", "rollback"}
      /\ pc'[s] = "put_accepted" => W = {event[s]}
      /\ \A t \in Sessions \ {s} : pc'[t] = pc[t]
  BY <1>3, <1>5 DEF Points
<1>7. TypeOK' BY <1>1, <1>4, <1>6 DEF IInv, TypeOK
<1>8. CurrentEvent'
  <2> SUFFICES ASSUME NEW t \in Sessions PROVE CurrentEvent!(t)' BY DEF CurrentEvent
  <2>1. txn'[t].receipts = txn[t].receipts BY <1>4
  <2>2. CASE t = s
    BY <1>1, <1>4, <1>6, <2>1, <2>2 DEF IInv, CurrentEvent, InIteration, Unjudged
  <2>3. CASE t # s
    <3>1. pc'[t] = pc[t] /\ txn'[t].effects = txn[t].effects BY <1>4, <1>6, <2>3
    <3> QED BY <1>1, <2>1, <3>1 DEF IInv, CurrentEvent
  <2> QED BY <2>2, <2>3
<1>9. TxnExact'
  <2> SUFFICES ASSUME NEW t \in Sessions, NEW d \in EventIds PROVE TxnExact!(t, d)'
    BY DEF TxnExact
  <2>1. txn'[t].receipts = txn[t].receipts BY <1>4
  <2>2. CASE t = s BY <1>1, <1>4, <1>6, <2>1, <2>2 DEF IInv, TxnExact
  <2>3. CASE t # s BY <1>1, <1>4, <1>6, <2>1, <2>3 DEF IInv, TxnExact
  <2> QED BY <2>2, <2>3
<1>10. SavedExact'
  <2> SUFFICES ASSUME NEW t \in Sessions, NEW d \in EventIds PROVE SavedExact!(t, d)'
    BY DEF SavedExact
  <2>1. txn'[t].receipts = txn[t].receipts BY <1>4
  <2>2. CASE t = s
    <3>1. event[s] \notin txn[s].effects
      BY <1>1, <1>2 DEF IInv, TxnExact, CurrentEvent, InIteration, Unjudged, IsAccepted
    <3> QED BY <1>1, <1>4, <2>1, <2>2, <3>1 DEF IInv, SavedExact
  <2>3. CASE t # s BY <1>1, <1>4, <1>6, <2>1, <2>3 DEF IInv, SavedExact
  <2> QED BY <2>2, <2>3
<1>11. Quiet' BY <1>1, <1>4, <1>6 DEF IInv, Quiet
<1>12. EffectsExact' /\ SentIsHeld' /\ StationRecordIsTrue'
  BY <1>1 DEF IInv, EffectsExact, SentIsHeld, StationRecordIsTrue, Agrees
<1>13. UniqueKey' BY <1>1, <1>4 DEF IInv, UniqueKey
<1>14. AnswersTrue' BY <1>1, <1>4 DEF IInv, AnswersTrue, VisibleReceipt
<1> QED BY <1>7, <1>8, <1>9, <1>10, <1>11, <1>12, <1>13, <1>14 DEF IInv

\* Rolling back to the savepoint keeps the invariant.
LEMMA RollbackStep ==
  ASSUME IInv, NEW s \in Sessions, Rollback(s) PROVE IInv'
<1>1. /\ pc[s] = "rollback" /\ txn' = [txn EXCEPT ![s] = saved[s]]
      /\ pc' = [pc EXCEPT ![s] = "put_rejected"]
      /\ UNCHANGED <<stationVars, centralVars, todo, event, sent, answer, saved, boundVars>>
  BY DEF Rollback
<1>2. pc \in [Sessions -> Points] /\ txn \in [Sessions -> Txn] /\ saved \in [Sessions -> Txn]
  BY DEF IInv, TypeOK
<1>3. /\ pc' \in [Sessions -> Points] /\ txn' \in [Sessions -> Txn]
      /\ pc'[s] = "put_rejected" /\ txn'[s] = saved[s]
      /\ \A t \in Sessions \ {s} : pc'[t] = pc[t] /\ txn'[t] = txn[t]
  BY <1>1, <1>2 DEF Points
<1>4. event[s] \in todo[s] /\ event[s] \in EventIds
  BY <1>1 DEF IInv, TypeOK, CurrentEvent, InIteration
<1>5. \A t \in Sessions, d \in EventIds : txn'[t].receipts[d] = txn[t].receipts[d]
  BY <1>1, <1>3 DEF IInv, SavedExact
<1>6. /\ \A t \in Sessions \ {s} : txn'[t].effects = txn[t].effects
      /\ \A d \in EventIds : d \in txn'[s].effects <=> d \in txn[s].effects /\ d # event[s]
  BY <1>1, <1>3 DEF IInv, SavedExact
<1>7. TypeOK' BY <1>1, <1>3 DEF IInv, TypeOK
<1>8. CurrentEvent'
  <2> SUFFICES ASSUME NEW t \in Sessions PROVE CurrentEvent!(t)' BY DEF CurrentEvent
  <2>1. CASE t = s
    BY <1>1, <1>3, <1>4, <1>5, <2>1 DEF IInv, CurrentEvent, InIteration, Unjudged
  <2>2. CASE t # s
    <3>1. /\ pc'[t] = pc[t] /\ txn'[t].effects = txn[t].effects
          /\ txn'[t].receipts = txn[t].receipts
      BY <1>3, <2>2
    <3> QED BY <1>1, <3>1 DEF IInv, CurrentEvent
  <2> QED BY <2>1, <2>2
<1>9. TxnExact'
  <2> SUFFICES ASSUME NEW t \in Sessions, NEW d \in EventIds PROVE TxnExact!(t, d)'
    BY DEF TxnExact
  <2>1. txn'[t].receipts[d] = txn[t].receipts[d] BY <1>5
  <2>2. CASE t = s
    <3>1. CASE d = event[s]
      BY <1>1, <1>6, <2>1, <2>2, <3>1 DEF IInv, CurrentEvent, InIteration, Unjudged, IsAccepted
    <3>2. CASE d # event[s]
      BY <1>1, <1>6, <2>1, <2>2, <3>2 DEF IInv, TxnExact, IsAccepted
    <3> QED BY <3>1, <3>2
  <2>3. CASE t # s BY <1>1, <1>3, <1>6, <2>1, <2>3 DEF IInv, TxnExact
  <2> QED BY <2>2, <2>3
<1>10. SavedExact'
  <2> SUFFICES ASSUME NEW t \in Sessions, NEW d \in EventIds PROVE SavedExact!(t, d)'
    BY DEF SavedExact
  <2>1. CASE t = s BY <1>3, <2>1
  <2>2. CASE t # s BY <1>1, <1>3, <1>5, <1>6, <2>2 DEF IInv, SavedExact
  <2> QED BY <2>1, <2>2
<1>11. Quiet' BY <1>1, <1>3, <1>5 DEF IInv, Quiet
<1>12. EffectsExact' /\ SentIsHeld' /\ StationRecordIsTrue'
  BY <1>1 DEF IInv, EffectsExact, SentIsHeld, StationRecordIsTrue, Agrees
<1>13. UniqueKey' BY <1>1, <1>5 DEF IInv, UniqueKey
<1>14. AnswersTrue' BY <1>1, <1>5 DEF IInv, AnswersTrue, VisibleReceipt
<1> QED BY <1>7, <1>8, <1>9, <1>10, <1>11, <1>12, <1>13, <1>14 DEF IInv
\* What put_receipt needs and what it does to everybody's receipts.
LEMMA PutFacts ==
  ASSUME IInv, NEW s \in Sessions, NEW status \in Statuses,
         pc[s] \in {"put_accepted", "put_rejected"},
         ReceiptFree(s, event[s]), StoreReceipt(s, event[s], status)
  PROVE  /\ event[s] \in todo[s] /\ event[s] \in EventIds
         /\ sent[s][event[s]] \in Values
         /\ [status |-> status, hash |-> sent[s][event[s]]] # NoReceipt
         /\ receipts[event[s]] = NoReceipt
         /\ \A t \in Sessions : txn[t].receipts[event[s]] = NoReceipt
         /\ txn' \in [Sessions -> Txn]
         /\ txn'[s].receipts[event[s]] = [status |-> status, hash |-> sent[s][event[s]]]
         /\ \A t \in Sessions, d \in EventIds :
              ~(t = s /\ d = event[s]) => txn'[t].receipts[d] = txn[t].receipts[d]
         /\ \A t \in Sessions : txn'[t].effects = txn[t].effects
<1>1. event[s] \in todo[s] /\ event[s] \in EventIds /\ txn[s].receipts[event[s]] = NoReceipt
  BY DEF IInv, TypeOK, CurrentEvent, InIteration, Unjudged
<1>2. sent[s][event[s]] \in Values BY <1>1 DEF IInv, TypeOK, AnswersTrue
<1>3. [status |-> status, hash |-> sent[s][event[s]]] \in Receipt BY <1>2 DEF Receipt
<1>4. receipts[event[s]] = NoReceipt /\ \A t \in Sessions : txn[t].receipts[event[s]] = NoReceipt
  BY <1>1 DEF ReceiptFree, Holders
<1>5. sent[s][event[s]] # None BY <1>2, IntakeAssumption
<1>6. /\ txn' \in [Sessions -> Txn]
      /\ \A t \in Sessions, d \in EventIds :
           txn'[t].receipts[d] = IF t = s /\ d = event[s]
                                 THEN [status |-> status, hash |-> sent[s][event[s]]]
                                 ELSE txn[t].receipts[d]
      /\ \A t \in Sessions : txn'[t].effects = txn[t].effects
  BY <1>1, <1>5, StoreReceiptValues DEF IInv
<1>7. [status |-> status, hash |-> sent[s][event[s]]] # NoReceipt BY <1>3, MarkersAssumption
<1> QED BY <1>1, <1>2, <1>4, <1>6, <1>7

\* An ACCEPTED receipt keeps the invariant: no other request holds the key.
LEMMA PutAcceptedStep ==
  ASSUME IInv, NEW s \in Sessions, PutAccepted(s) PROVE IInv'
<1> DEFINE e == event[s]
           r == [status |-> "ACCEPTED", hash |-> sent[s][e]]
<1>1. /\ pc[s] = "put_accepted" /\ pc' = [pc EXCEPT ![s] = "release"]
      /\ UNCHANGED <<stationVars, centralVars, todo, event, sent, answer, saved, boundVars>>
  BY DEF PutAccepted
<1>2. /\ e \in todo[s] /\ e \in EventIds /\ r # NoReceipt
      /\ receipts[e] = NoReceipt
      /\ \A t \in Sessions : txn[t].receipts[e] = NoReceipt
      /\ txn' \in [Sessions -> Txn]
      /\ txn'[s].receipts[e] = r
      /\ \A t \in Sessions, d \in EventIds :
           ~(t = s /\ d = e) => txn'[t].receipts[d] = txn[t].receipts[d]
      /\ \A t \in Sessions : txn'[t].effects = txn[t].effects
  BY PutFacts DEF PutAccepted, Statuses
<1>3. r.status = "ACCEPTED" /\ r.hash = sent[s][e] OBVIOUS
<1>4. e \in txn[s].effects BY <1>1 DEF IInv, CurrentEvent
<1>5. pc \in [Sessions -> Points] BY DEF IInv, TypeOK
<1>6. /\ pc' \in [Sessions -> Points] /\ pc'[s] = "release"
      /\ \A t \in Sessions \ {s} : pc'[t] = pc[t]
  BY <1>1, <1>5 DEF Points
<1>7. TypeOK' BY <1>1, <1>2, <1>6 DEF IInv, TypeOK
<1>8. CurrentEvent'
  <2> SUFFICES ASSUME NEW t \in Sessions PROVE CurrentEvent!(t)' BY DEF CurrentEvent
  <2>1. CASE t = s BY <1>1, <1>2, <1>6, <2>1 DEF InIteration, Unjudged
  <2>2. CASE t # s
    <3>1. pc'[t] = pc[t] /\ txn'[t].effects = txn[t].effects BY <1>2, <1>6, <2>2
    <3>2. pc[t] \in InIteration => event[t] \in EventIds BY DEF IInv, TypeOK, CurrentEvent
    <3>3. pc[t] \in InIteration => txn'[t].receipts[event[t]] = txn[t].receipts[event[t]]
      BY <1>2, <2>2, <3>2
    <3> QED BY <1>1, <3>1, <3>3 DEF IInv, CurrentEvent, InIteration, Unjudged
  <2> QED BY <2>1, <2>2
<1> HIDE DEF r
<1>9. UniqueKey' BY <1>1, <1>2 DEF IInv, UniqueKey
<1>10. TxnExact'
  <2> SUFFICES ASSUME NEW t \in Sessions, NEW d \in EventIds PROVE TxnExact!(t, d)'
    BY DEF TxnExact
  <2>1. CASE t = s /\ d = e BY <1>2, <1>3, <1>4, <2>1 DEF IsAccepted
  <2>2. CASE ~(t = s /\ d = e)
    <3>1. txn'[t].receipts[d] = txn[t].receipts[d] /\ txn'[t].effects = txn[t].effects
      BY <1>2, <2>2
    <3> QED BY <1>1, <1>6, <2>2, <3>1 DEF IInv, TxnExact, IsAccepted
  <2> QED BY <2>1, <2>2
<1>11. SavedExact'
  <2> SUFFICES ASSUME NEW t \in Sessions, NEW d \in EventIds PROVE SavedExact!(t, d)'
    BY DEF SavedExact
  <2>1. CASE t = s BY <1>6, <2>1
  <2>2. CASE t # s BY <1>1, <1>2, <1>6, <2>2 DEF IInv, SavedExact
  <2> QED BY <2>1, <2>2
<1>12. Quiet'
  <2> SUFFICES ASSUME NEW t \in Sessions, NEW d \in EventIds PROVE Quiet!(t, d)'
    BY DEF Quiet
  <2>1. CASE t = s BY <1>6, <2>1
  <2>2. CASE t # s BY <1>1, <1>2, <1>6, <2>2 DEF IInv, Quiet
  <2> QED BY <2>1, <2>2
<1>13. EffectsExact' /\ SentIsHeld' /\ StationRecordIsTrue'
  BY <1>1 DEF IInv, EffectsExact, SentIsHeld, StationRecordIsTrue, Agrees
<1>14. AnswersTrue'
  <2> SUFFICES ASSUME NEW t \in Sessions, NEW d \in EventIds PROVE AnswersTrue!(t, d)'
    BY DEF AnswersTrue
  <2>1. CASE t = s /\ d = e
    BY <1>1, <1>2, <2>1, MarkersAssumption DEF IInv, AnswersTrue, Outcomes
  <2>2. CASE ~(t = s /\ d = e)
    <3>1. txn'[t].receipts[d] = txn[t].receipts[d] BY <1>2, <2>2
    <3> QED BY <1>1, <3>1 DEF IInv, AnswersTrue, VisibleReceipt
  <2> QED BY <2>1, <2>2
<1> QED BY <1>7, <1>8, <1>9, <1>10, <1>11, <1>12, <1>13, <1>14 DEF IInv

\* A REJECTED receipt keeps the invariant: no other request holds the key.
LEMMA PutRejectedStep ==
  ASSUME IInv, NEW s \in Sessions, PutRejected(s) PROVE IInv'
<1> DEFINE e == event[s]
           r == [status |-> "REJECTED", hash |-> sent[s][e]]
<1>1. /\ pc[s] = "put_rejected" /\ Conclude(s, e, "rejected")
      /\ UNCHANGED <<stationVars, centralVars, sent, saved, boundVars>>
  BY DEF PutRejected
<1>2. /\ e \in todo[s] /\ e \in EventIds /\ r # NoReceipt
      /\ receipts[e] = NoReceipt
      /\ \A t \in Sessions : txn[t].receipts[e] = NoReceipt
      /\ txn' \in [Sessions -> Txn]
      /\ txn'[s].receipts[e] = r
      /\ \A t \in Sessions, d \in EventIds :
           ~(t = s /\ d = e) => txn'[t].receipts[d] = txn[t].receipts[d]
      /\ \A t \in Sessions : txn'[t].effects = txn[t].effects
  BY PutFacts DEF PutRejected, Statuses
<1>3. r.status = "REJECTED" /\ r.hash = sent[s][e] OBVIOUS
<1>4. e \notin txn[s].effects
  BY <1>1, <1>2 DEF IInv, TxnExact, IsAccepted
<1>5. /\ answer' \in [Sessions -> [EventIds -> Outcomes \cup {None}]]
      /\ todo' \in [Sessions -> SUBSET EventIds]
      /\ event' \in [Sessions -> EventIds \cup {None}]
      /\ pc' \in [Sessions -> Points]
      /\ \A t \in Sessions, d \in EventIds :
           answer'[t][d] = IF t = s /\ d = e THEN "rejected" ELSE answer[t][d]
      /\ \A t \in Sessions : todo'[t] = IF t = s THEN todo[t] \ {e} ELSE todo[t]
      /\ \A t \in Sessions : event'[t] = IF t = s THEN None ELSE event[t]
      /\ \A t \in Sessions : pc'[t] = IF t = s THEN "next" ELSE pc[t]
  BY <1>1, <1>2, ConcludeValues DEF IInv, Outcomes
<1>6. TypeOK' BY <1>1, <1>2, <1>5 DEF IInv, TypeOK
<1> HIDE DEF r, e
<1>7. CurrentEvent'
  <2> SUFFICES ASSUME NEW t \in Sessions PROVE CurrentEvent!(t)' BY DEF CurrentEvent
  <2>1. CASE t = s BY <1>5, <2>1 DEF InIteration, Unjudged
  <2>2. CASE t # s
    <3>1. /\ pc'[t] = pc[t] /\ todo'[t] = todo[t] /\ event'[t] = event[t]
          /\ txn'[t].effects = txn[t].effects
      BY <1>2, <1>5, <2>2
    <3>2. pc[t] \in InIteration => event[t] \in EventIds BY DEF IInv, TypeOK, CurrentEvent
    <3>3. pc[t] \in InIteration => txn'[t].receipts[event[t]] = txn[t].receipts[event[t]]
      BY <1>2, <2>2, <3>2
    <3> QED BY <1>1, <3>1, <3>3 DEF IInv, CurrentEvent, InIteration, Unjudged
  <2> QED BY <2>1, <2>2
<1>8. UniqueKey' BY <1>1, <1>2 DEF IInv, UniqueKey
<1>9. TxnExact'
  <2> SUFFICES ASSUME NEW t \in Sessions, NEW d \in EventIds PROVE TxnExact!(t, d)'
    BY DEF TxnExact
  <2>1. CASE t = s /\ d = e BY <1>2, <1>3, <1>4, <2>1 DEF IsAccepted
  <2>2. CASE ~(t = s /\ d = e)
    <3>1. txn'[t].receipts[d] = txn[t].receipts[d] /\ txn'[t].effects = txn[t].effects
      BY <1>2, <2>2
    <3> QED BY <1>1, <1>5, <2>2, <3>1 DEF IInv, TxnExact, IsAccepted
  <2> QED BY <2>1, <2>2
<1>10. SavedExact'
  <2> SUFFICES ASSUME NEW t \in Sessions, NEW d \in EventIds PROVE SavedExact!(t, d)'
    BY DEF SavedExact
  <2>1. CASE t = s BY <1>5, <2>1
  <2>2. CASE t # s
    <3>1. /\ pc'[t] = pc[t] /\ event'[t] = event[t] /\ saved'[t] = saved[t]
          /\ txn'[t].receipts[d] = txn[t].receipts[d] /\ txn'[t].effects = txn[t].effects
      BY <1>1, <1>2, <1>5, <2>2
    <3> QED BY <3>1 DEF IInv, SavedExact
  <2> QED BY <2>1, <2>2
<1>11. Quiet'
  <2> SUFFICES ASSUME NEW t \in Sessions, NEW d \in EventIds PROVE Quiet!(t, d)'
    BY DEF Quiet
  <2>1. CASE t = s BY <1>5, <2>1
  <2>2. CASE t # s BY <1>1, <1>2, <1>5, <2>2 DEF IInv, Quiet
  <2> QED BY <2>1, <2>2
<1>12. EffectsExact' /\ SentIsHeld' /\ StationRecordIsTrue'
  BY <1>1 DEF IInv, EffectsExact, SentIsHeld, StationRecordIsTrue, Agrees
<1>13. AnswersTrue'
  <2> SUFFICES ASSUME NEW t \in Sessions, NEW d \in EventIds PROVE AnswersTrue!(t, d)'
    BY DEF AnswersTrue
  <2>1. CASE t = s /\ d = e
    <3>1. VisibleReceipt(t, d)' = r BY <1>2, <2>1 DEF VisibleReceipt
    <3>2. sent[t][d] # None BY <1>2, <2>1 DEF IInv, AnswersTrue
    <3>3. answer'[t][d] = "rejected" /\ d \notin todo'[t] BY <1>2, <1>5, <2>1
    <3> QED BY <1>1, <2>1, <3>1, <3>2, <3>3, MarkersAssumption DEF r, Outcomes
  <2>2. CASE ~(t = s /\ d = e)
    <3>1. txn'[t].receipts[d] = txn[t].receipts[d] BY <1>2, <2>2
    <3>2. VisibleReceipt(t, d)' = VisibleReceipt(t, d) BY <1>1, <3>1 DEF VisibleReceipt
    <3>3. /\ answer'[t][d] = answer[t][d] /\ sent'[t][d] = sent[t][d]
          /\ d \in todo'[t] <=> d \in todo[t]
      BY <1>1, <1>5, <2>2
    <3> QED BY <3>1, <3>2, <3>3 DEF IInv, AnswersTrue
  <2> QED BY <2>1, <2>2
<1> QED BY <1>6, <1>7, <1>8, <1>9, <1>10, <1>11, <1>12, <1>13 DEF IInv
\* The commit of a request keeps the invariant.
LEMMA CommitStep ==
  ASSUME IInv, NEW s \in Sessions, Commit(s) PROVE IInv'
<1>1. /\ pc[s] = "next" /\ todo[s] = {} /\ pc' = [pc EXCEPT ![s] = "answer"]
      /\ txn' = [txn EXCEPT ![s] = EmptyTxn] /\ saved' = [saved EXCEPT ![s] = EmptyTxn]
      /\ UNCHANGED <<stationVars, gateOpen, todo, event, sent, answer, boundVars>>
  BY DEF Commit
<1>2. /\ \A d \in EventIds : receipts'[d] = IF txn[s].receipts[d] # NoReceipt
                                            THEN txn[s].receipts[d] ELSE receipts[d]
      /\ \A d \in EventIds : applied'[d] = IF d \in txn[s].effects
                                           THEN applied[d] + 1 ELSE applied[d]
  BY DEF Commit
<1>3. /\ pc \in [Sessions -> Points] /\ txn \in [Sessions -> Txn] /\ saved \in [Sessions -> Txn]
      /\ receipts \in [EventIds -> Receipt \cup {NoReceipt}] /\ applied \in [EventIds -> Nat]
      /\ txn[s].receipts \in [EventIds -> Receipt \cup {NoReceipt}]
  BY DEF IInv, TypeOK, Txn
<1>4. receipts' \in [EventIds -> Receipt \cup {NoReceipt}] /\ applied' \in [EventIds -> Nat]
  BY <1>3 DEF Commit
<1>5. /\ pc' \in [Sessions -> Points] /\ txn' \in [Sessions -> Txn] /\ saved' \in [Sessions -> Txn]
      /\ pc'[s] = "answer" /\ txn'[s] = EmptyTxn /\ saved'[s] = EmptyTxn
      /\ \A t \in Sessions \ {s} : pc'[t] = pc[t] /\ txn'[t] = txn[t] /\ saved'[t] = saved[t]
  BY <1>1, <1>3, EmptyTxnValues DEF Points
<1>6. /\ txn'[s].effects = {}
      /\ \A d \in EventIds : txn'[s].receipts[d] = NoReceipt
      /\ \A t \in Sessions \ {s} : /\ txn'[t].receipts = txn[t].receipts
                                   /\ txn'[t].effects = txn[t].effects
                                   /\ saved'[t].receipts = saved[t].receipts
                                   /\ saved'[t].effects = saved[t].effects
  BY <1>5, EmptyTxnValues
<1>7. TypeOK' BY <1>1, <1>4, <1>5 DEF IInv, TypeOK
<1>8. CurrentEvent'
  <2> SUFFICES ASSUME NEW t \in Sessions PROVE CurrentEvent!(t)' BY DEF CurrentEvent
  <2>1. CASE t = s BY <1>5, <2>1 DEF InIteration, Unjudged
  <2>2. CASE t # s
    <3>1. /\ pc'[t] = pc[t] /\ txn'[t].receipts = txn[t].receipts
          /\ txn'[t].effects = txn[t].effects
      BY <1>5, <1>6, <2>2
    <3> QED BY <1>1, <3>1 DEF IInv, CurrentEvent
  <2> QED BY <2>1, <2>2
\* What the others hold is still unjudged: the key is unique.
<1>9. ASSUME NEW t \in Sessions \ {s}, NEW d \in EventIds, txn[t].receipts[d] # NoReceipt
      PROVE  receipts'[d] = NoReceipt
  BY <1>2, <1>9 DEF IInv, UniqueKey
<1>10. UniqueKey'
  <2> SUFFICES ASSUME NEW t \in Sessions, NEW d \in EventIds PROVE UniqueKey!(t, d)'
    BY DEF UniqueKey
  <2>1. CASE t = s BY <1>6, <2>1
  <2>2. CASE t # s
    <3>1. txn'[t].receipts = txn[t].receipts BY <1>6, <2>2
    <3>2. \A u \in Sessions : txn'[u].receipts[d] \in {NoReceipt, txn[u].receipts[d]} BY <1>6
    <3> QED BY <1>9, <2>2, <3>1, <3>2 DEF IInv, UniqueKey
  <2> QED BY <2>1, <2>2
<1>11. EffectsExact'
  <2> SUFFICES ASSUME NEW d \in EventIds PROVE EffectsExact!(d)'
    BY DEF EffectsExact
  <2>1. d \in txn[s].effects <=> IsAccepted(txn[s].receipts[d])
    BY <1>1 DEF IInv, TxnExact
  <2>2. txn[s].receipts[d] # NoReceipt => receipts[d] = NoReceipt
    BY DEF IInv, UniqueKey
  <2>3. applied[d] = IF IsAccepted(receipts[d]) THEN 1 ELSE 0
    BY DEF IInv, EffectsExact
  <2> QED BY <1>2, <2>1, <2>2, <2>3 DEF IsAccepted
<1>12. TxnExact'
  <2> SUFFICES ASSUME NEW t \in Sessions, NEW d \in EventIds PROVE TxnExact!(t, d)'
    BY DEF TxnExact
  <2>1. CASE t = s BY <1>6, <2>1 DEF IsAccepted
  <2>2. CASE t # s BY <1>1, <1>5, <1>6, <2>2 DEF IInv, TxnExact
  <2> QED BY <2>1, <2>2
<1>13. SavedExact'
  <2> SUFFICES ASSUME NEW t \in Sessions, NEW d \in EventIds PROVE SavedExact!(t, d)'
    BY DEF SavedExact
  <2>1. CASE t = s BY <1>5, <2>1
  <2>2. CASE t # s BY <1>1, <1>5, <1>6, <2>2 DEF IInv, SavedExact
  <2> QED BY <2>1, <2>2
<1>14. Quiet'
  <2> SUFFICES ASSUME NEW t \in Sessions, NEW d \in EventIds PROVE Quiet!(t, d)'
    BY DEF Quiet
  <2>1. CASE t = s BY <1>1, <1>6, <2>1
  <2>2. CASE t # s BY <1>1, <1>5, <1>6, <2>2 DEF IInv, Quiet
  <2> QED BY <2>1, <2>2
<1>15. AnswersTrue'
  <2> SUFFICES ASSUME NEW t \in Sessions, NEW d \in EventIds PROVE AnswersTrue!(t, d)'
    BY DEF AnswersTrue
  <2>1. CASE t = s
    <3>1. VisibleReceipt(t, d)' = VisibleReceipt(t, d) BY <1>2, <1>6, <2>1 DEF VisibleReceipt
    <3>2. txn'[t].receipts[d] = NoReceipt BY <1>6, <2>1
    <3> QED BY <1>1, <3>1, <3>2 DEF IInv, AnswersTrue
  <2>2. CASE t # s
    <3>1. txn'[t].receipts = txn[t].receipts BY <1>6, <2>2
    <3>2. VisibleReceipt(t, d) # NoReceipt => VisibleReceipt(t, d)' = VisibleReceipt(t, d)
      BY <1>2, <1>9, <2>2, <3>1 DEF IInv, UniqueKey, VisibleReceipt
    <3>3. answer[t][d] \in {"accepted", "rejected"} => VisibleReceipt(t, d) # NoReceipt
      <4>1. answer[t][d] \in {"accepted", "rejected"} => sent[t][d] \in Values
        BY MarkersAssumption DEF IInv, AnswersTrue, TypeOK, Outcomes
      <4>2. answer[t][d] \in {"accepted", "rejected"} => VisibleReceipt(t, d) \in Receipt
        BY <4>1 DEF IInv, AnswersTrue, Receipt, Statuses
      <4> QED BY <4>2, MarkersAssumption
    <3> QED BY <1>1, <3>1, <3>2, <3>3 DEF IInv, AnswersTrue
  <2> QED BY <2>1, <2>2
<1>16. SentIsHeld' BY <1>1 DEF IInv, SentIsHeld
<1>17. StationRecordIsTrue'
  <2> SUFFICES ASSUME NEW d \in EventIds PROVE StationRecordIsTrue!(d)'
    BY DEF StationRecordIsTrue
  <2>1. receipts[d] # NoReceipt => receipts'[d] = receipts[d]
    BY <1>2 DEF IInv, UniqueKey
  <2> QED BY <1>1, <2>1 DEF IInv, StationRecordIsTrue, Agrees
<1> QED BY <1>7, <1>8, <1>10, <1>11, <1>12, <1>13, <1>14, <1>15, <1>16, <1>17 DEF IInv

\* A new request keeps the invariant.
LEMMA SendStep ==
  ASSUME IInv, NEW s \in Sessions, NEW batch \in SUBSET EventIds, Send(s, batch) PROVE IInv'
<1> DEFINE hashes == [e \in EventIds |-> IF e \in batch THEN payload[e] ELSE None]
<1>1. /\ pc[s] = "idle" /\ awaiting = None /\ awaiting' = s
      /\ pc' = [pc EXCEPT ![s] = "next"] /\ todo' = [todo EXCEPT ![s] = batch]
      /\ sent' = [sent EXCEPT ![s] = hashes]
      /\ UNCHANGED <<outbox, payload, centralVars, event, answer, txn, saved, boundVars>>
  BY DEF Send
<1>2. /\ pc \in [Sessions -> Points] /\ todo \in [Sessions -> SUBSET EventIds]
      /\ sent \in [Sessions -> [EventIds -> Values \cup {None}]]
      /\ payload \in [EventIds -> Values]
  BY DEF IInv, TypeOK
<1>3. /\ hashes \in [EventIds -> Values \cup {None}]
      /\ \A d \in EventIds : hashes[d] = IF d \in batch THEN payload[d] ELSE None
  BY <1>2
<1> HIDE DEF hashes
<1>4. /\ pc' \in [Sessions -> Points] /\ todo' \in [Sessions -> SUBSET EventIds]
      /\ sent' \in [Sessions -> [EventIds -> Values \cup {None}]]
      /\ pc'[s] = "next" /\ todo'[s] = batch /\ sent'[s] = hashes
      /\ \A t \in Sessions \ {s} : pc'[t] = pc[t] /\ todo'[t] = todo[t] /\ sent'[t] = sent[t]
  BY <1>1, <1>2, <1>3 DEF Points
<1>5. TypeOK' BY <1>1, <1>4 DEF IInv, TypeOK
<1>6. CurrentEvent' BY <1>1, <1>4 DEF IInv, CurrentEvent, InIteration, Unjudged
<1>7. TxnExact' /\ SavedExact' /\ Quiet' BY <1>1, <1>4 DEF IInv, TxnExact, SavedExact, Quiet
<1>8. UniqueKey' /\ EffectsExact' /\ StationRecordIsTrue'
  BY <1>1 DEF IInv, UniqueKey, EffectsExact, StationRecordIsTrue, Agrees
<1>9. SentIsHeld' BY <1>1, <1>2, <1>3, <1>4 DEF SentIsHeld
<1>10. AnswersTrue'
  <2> SUFFICES ASSUME NEW t \in Sessions, NEW d \in EventIds PROVE AnswersTrue!(t, d)'
    BY DEF AnswersTrue
  <2>1. VisibleReceipt(t, d)' = VisibleReceipt(t, d) BY <1>1 DEF VisibleReceipt
  <2>2. CASE t = s
    <3>1. answer[s][d] = None BY <1>1 DEF IInv, Quiet
    <3> QED BY <1>1, <1>2, <1>3, <1>4, <2>2, <3>1, IntakeAssumption, MarkersAssumption DEF Outcomes
  <2>3. CASE t # s BY <1>1, <1>4, <2>1, <2>3 DEF IInv, AnswersTrue
  <2> QED BY <2>2, <2>3
<1> QED BY <1>5, <1>6, <1>7, <1>8, <1>9, <1>10 DEF IInv
\* Steps of the station and of the exam that leave every request alone.
LEMMA AroundStep ==
  ASSUME IInv, UNCHANGED <<receipts, applied, requestVars>>,
         Timeout \/ ToggleGate \/ Rest \/ (\E e \in EventIds : Requeue(e))
           \/ (\E e \in EventIds, value \in Values : Reissue(e, value))
  PROVE  IInv'
<1> DEFINE Around ==
      /\ awaiting' \in {awaiting, None}
      /\ failures' \in Nat /\ reissues' \in Nat /\ toggles' \in Nat /\ gateOpen' \in BOOLEAN
      /\ outbox' \in [EventIds -> {"PENDING", "ACCEPTED", "REJECTED", "REFUSED"}]
      /\ payload' \in [EventIds -> Values]
      /\ \A e \in EventIds : 
           outbox'[e] = "PENDING" \/ (outbox'[e] = outbox[e] /\ payload'[e] = payload[e])
      /\ payload' = payload \/ awaiting' = None
<1>0. /\ outbox \in [EventIds -> {"PENDING", "ACCEPTED", "REJECTED", "REFUSED"}]
      /\ payload \in [EventIds -> Values] /\ gateOpen \in BOOLEAN
      /\ failures \in Nat /\ reissues \in Nat /\ toggles \in Nat
  BY DEF IInv, TypeOK
<1>1. Timeout => Around
  BY <1>0 DEF Timeout
<1>2. ToggleGate => Around
  BY <1>0 DEF ToggleGate
<1>3. Rest => Around
  BY <1>0 DEF Rest, vars
<1>4. (\E e \in EventIds : Requeue(e)) => Around
  BY <1>0 DEF Requeue
<1>5. (\E e \in EventIds, value \in Values : Reissue(e, value)) => Around
  <2> SUFFICES ASSUME NEW e \in EventIds, NEW value \in Values, Reissue(e, value)
               PROVE  Around
    OBVIOUS
  <2>1. /\ payload' = [payload EXCEPT ![e] = value]
        /\ outbox' = [outbox EXCEPT ![e] = "PENDING"]
        /\ awaiting' = None /\ reissues' = reissues + 1
        /\ UNCHANGED <<gateOpen, failures, toggles>>
    BY DEF Reissue
  <2>2. /\ payload' \in [EventIds -> Values]
        /\ \A d \in EventIds \ {e} : payload'[d] = payload[d]
    BY <1>0, <2>1
  <2>3. /\ outbox' \in [EventIds -> {"PENDING", "ACCEPTED", "REJECTED", "REFUSED"}]
        /\ outbox'[e] = "PENDING"
        /\ \A d \in EventIds \ {e} : outbox'[d] = outbox[d]
    BY <1>0, <2>1
  <2> QED BY <1>0, <2>1, <2>2, <2>3
<1>6. Around BY <1>1, <1>2, <1>3, <1>4, <1>5
<1>7. TypeOK' BY <1>6 DEF IInv, TypeOK
<1>8. CurrentEvent' /\ UniqueKey' /\ EffectsExact' /\ TxnExact' /\ SavedExact' /\ Quiet'
  BY DEF IInv, CurrentEvent, UniqueKey, EffectsExact, TxnExact, SavedExact, Quiet
<1>9. AnswersTrue' BY DEF IInv, AnswersTrue, VisibleReceipt
<1>10. SentIsHeld' BY <1>6, IntakeAssumption DEF IInv, SentIsHeld
<1>11. StationRecordIsTrue' BY <1>6 DEF IInv, StationRecordIsTrue, Agrees
<1> QED BY <1>7, <1>8, <1>9, <1>10, <1>11 DEF IInv

\* A stuttering step keeps the invariant.
LEMMA StutterStep == ASSUME IInv, UNCHANGED vars PROVE IInv'
BY DEF vars, IInv, TypeOK, CurrentEvent, UniqueKey, EffectsExact, TxnExact, SavedExact,
       Quiet, AnswersTrue, SentIsHeld, StationRecordIsTrue, VisibleReceipt, Agrees

\* Every step keeps the invariant.
LEMMA NextStep == ASSUME IInv, [Next]_vars PROVE IInv'
<1>1. CASE \E s \in Sessions : Process(s) \/ Fail(s) \/ LoseAnswer(s)
  BY <1>1, DedupeStep, GateStep, SavepointStep, ApplySteps, PutAcceptedStep, ReleaseStep,
     RollbackStep, PutRejectedStep, CommitStep, DeliverStep, FailureStep
  DEF Process
<1>2. CASE \E s \in Sessions, batch \in SUBSET EventIds : Send(s, batch)
  BY <1>2, SendStep
<1>3. CASE Timeout \/ ToggleGate \/ Rest \/ (\E e \in EventIds : Requeue(e))
           \/ (\E e \in EventIds, value \in Values : Reissue(e, value))
  <2>1. UNCHANGED <<receipts, applied, requestVars>>
    BY <1>3 DEF Timeout, ToggleGate, Rest, Requeue, Reissue, vars
  <2> QED BY <1>3, <2>1, AroundStep
<1>4. CASE UNCHANGED vars BY <1>4, StutterStep
<1> QED BY <1>1, <1>2, <1>3, <1>4 DEF Next

-----------------------------------------------------------------------------
(* The theorems *)

\* The inductive invariant holds in every reachable state; the theorems below
\* read the properties of the engine off it.
THEOREM Invariance == Spec => []IInv
BY InitHolds, NextStep, PTL DEF Spec

\* Every variable keeps its type.
THEOREM TypeCorrect == Spec => []TypeOK
<1>1. IInv => TypeOK BY DEF IInv
<1> QED BY <1>1, Invariance, PTL

\* No interleaving of requests, crashes and retries commits an event twice.
THEOREM AppliedOnce == Spec => []AppliedAtMostOnce
<1>1. IInv => AppliedAtMostOnce
  BY DEF IInv, EffectsExact, AppliedAtMostOnce
<1> QED BY <1>1, Invariance, PTL

\* An event has an ACCEPTED receipt exactly when its writes are committed.
THEOREM ReceiptsAreExact == Spec => []ReceiptMatchesEffect
<1>1. IInv => ReceiptMatchesEffect
  BY DEF IInv, EffectsExact, ReceiptMatchesEffect, IsAccepted
<1> QED BY <1>1, Invariance, PTL

\* Every answer names every event it was sent, truthfully.
THEOREM AnswersAreOnRecord == Spec => []AnswerIsOnRecord
<1>1. ASSUME IInv, NEW s \in Sessions, NEW e \in EventIds, pc[s] = "answer"
      PROVE  VisibleReceipt(s, e) = receipts[e] /\ e \notin todo[s]
  BY <1>1 DEF IInv, Quiet, VisibleReceipt
<1>2. IInv => AnswerIsOnRecord
  BY <1>1 DEF IInv, AnswersTrue, AnswerIsOnRecord, Agrees
<1> QED BY <1>2, Invariance, PTL

\* A refusal by the gate leaves neither receipt nor write.
THEOREM RefusalsLeaveNoTrace == Spec => []RefusalLeavesNoTrace
<1>1. ASSUME IInv, NEW s \in Sessions, NEW e \in EventIds, answer[s][e] = "refused"
      PROVE  txn[s].receipts[e] = NoReceipt /\ e \notin txn[s].effects
  <2>1. txn[s].receipts[e] = NoReceipt BY <1>1 DEF IInv, AnswersTrue
  <2>2. e \notin todo[s] BY <1>1, MarkersAssumption DEF IInv, AnswersTrue, Outcomes
  <2>3. pc[s] \in {"put_accepted", "rollback"} => event[s] \in todo[s]
    BY <1>1 DEF IInv, CurrentEvent, InIteration
  <2>4. e \in txn[s].effects <=> IsAccepted(txn[s].receipts[e])
    BY <1>1, <2>2, <2>3 DEF IInv, TxnExact
  <2> QED BY <2>1, <2>4 DEF IsAccepted
<1>2. IInv => RefusalLeavesNoTrace BY <1>1 DEF RefusalLeavesNoTrace
<1> QED BY <1>2, Invariance, PTL

\* What the station shows as ACCEPTED or REJECTED is on record at the Central.
THEOREM StationRecordsAreTrue == Spec => []StationRecordIsTrue
<1>1. IInv => StationRecordIsTrue BY DEF IInv
<1> QED BY <1>1, Invariance, PTL
\* The engine implements the ledger: a commit judges open events and applies
\* exactly those that land, and no other step changes the ledger.
THEOREM LedgerIsKept == Spec => LedgerKept
<1> DEFINE verdictOf(e) == IF receipts[e] = NoReceipt THEN "undecided" ELSE receipts[e].status
<1>1. ASSUME Init PROVE Ledger!Init
  <2>1. LegacyReceipt # NoReceipt /\ LegacyReceipt.status = "ACCEPTED"
    BY MarkersAssumption DEF LegacyReceipt, Receipt, Statuses
  <2>2. \A e \in EventIds : receipts[e] = IF e \in LegacyIds THEN LegacyReceipt ELSE NoReceipt
    BY <1>1 DEF Init
  <2>3. \A e \in EventIds : verdictOf(e) = IF e \in LegacyIds THEN "ACCEPTED" ELSE "undecided"
    BY <2>1, <2>2
  <2>4. applied = [e \in EventIds |-> IF e \in LegacyIds THEN 1 ELSE 0] BY <1>1 DEF Init
  <2> QED BY <2>3, <2>4
    DEF Ledger!Init, Ledger!Verdicts, Ledger!Landed, Ledger!Refused, Ledger!Open
<1>2. ASSUME IInv, NEW s \in Sessions, Commit(s) PROVE Ledger!Next
  <2> DEFINE D == {e \in EventIds : txn[s].receipts[e] # NoReceipt}
             decision == [e \in D |-> txn[s].receipts[e].status]
  <2>1. /\ receipts' = [e \in EventIds |->
                    IF txn[s].receipts[e] # NoReceipt THEN txn[s].receipts[e] ELSE receipts[e]]
        /\ applied' = [e \in EventIds |->
                    IF e \in txn[s].effects THEN applied[e] + 1 ELSE applied[e]]
        /\ pc[s] = "next"
    BY <1>2 DEF Commit
  <2>2. \A e \in D : txn[s].receipts[e] \in Receipt /\ decision[e] \in Statuses
    BY <1>2 DEF IInv, TypeOK, Txn, Receipt
  <2>3. \A e \in D : receipts[e] = NoReceipt BY <1>2 DEF IInv, UniqueKey
  <2>4. \A e \in EventIds : e \in txn[s].effects <=> e \in D /\ decision[e] = "ACCEPTED"
    BY <1>2, <2>1 DEF IInv, TxnExact, IsAccepted
  <2>5. decision \in [D -> Ledger!Verdicts]
    BY <2>2 DEF Ledger!Verdicts, Ledger!Landed, Ledger!Refused, Statuses
  <2>6. PICK E \in SUBSET EventIds : E = D OBVIOUS
  <2>7. PICK f \in [E -> Ledger!Verdicts] : \A e \in E : f[e] = decision[e]
    BY <2>5, <2>6
  <2>8. DOMAIN f = E /\ \A e \in E : verdictOf(e) = "undecided" BY <2>3, <2>7, <2>6
  <2>9. \A e \in EventIds : verdictOf(e)' = IF e \in E THEN f[e] ELSE verdictOf(e)
    BY <2>1, <2>2, <2>7, <2>6, MarkersAssumption
  <2>10. \A e \in EventIds : applied'[e] = IF e \in E /\ f[e] = "ACCEPTED"
                                          THEN applied[e] + 1 ELSE applied[e]
    BY <2>1, <2>4, <2>7, <2>6
  <2>11. Ledger!Judge(f)
    BY <2>8, <2>9, <2>10, <2>1 DEF Ledger!Judge, Ledger!Open, Ledger!Landed
  <2> QED BY <2>11 DEF Ledger!Next
<1>3. ASSUME [Next]_vars, \A s \in Sessions : ~Commit(s)
      PROVE  UNCHANGED <<receipts, applied>>
  BY <1>3 DEF Next, Process, Dedupe, Gate, Savepoint, Apply, ApplyRejects, PutAccepted, Release,
      Rollback, PutRejected, PutFails, Deliver, Fail, LoseAnswer, Send, Requeue, Reissue,
      Timeout, ToggleGate, Rest, vars
<1>4. IInv /\ [Next]_vars => [Ledger!Next]_(Ledger!ledgerVars)
  BY <1>2, <1>3 DEF Ledger!ledgerVars
<1> QED BY <1>1, <1>4, Invariance, PTL DEF Spec, LedgerKept, Ledger!Spec
=============================================================================
