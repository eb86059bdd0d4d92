----------------------------- MODULE SyncIntake ------------------------------
(***************************************************************************)
(* The shared batch engine of station-sync/v1, process_sync_batch of       *)
(* central/sync.py, between one station's outbox and one Central's         *)
(* database.                                                               *)
(*                                                                         *)
(* process_sync_batch is a coroutine: several requests of one station may  *)
(* be under way at once (a request the station gave up on keeps running    *)
(* beside its retry), and they interleave at every await.  There is one    *)
(* action per await of the loop body, so each action is what runs between  *)
(* two of them.  A request runs in the transaction its Central opened for  *)
(* it; what it wrote is visible to itself at once and to others when that  *)
(* transaction commits, after the engine has returned.                     *)
(*                                                                         *)
(* External, and modelled from how the engine uses it: the station's       *)
(* outbox, the network, the transaction around the engine, and a receipt   *)
(* table whose event_id is unique, so that a second insert waits for the   *)
(* first transaction and fails once it has committed.                      *)
(*                                                                         *)
(* A batch lists each event once, as an outbox does, and is represented by *)
(* the events it still has to process: the loop takes them in an order     *)
(* this model leaves open, which covers every order the list can have.     *)
(***************************************************************************)
EXTENDS Naturals, FiniteSets

CONSTANTS
  EventIds,       \* the event_ids of the outbox
  Values,         \* the payload hashes an event's value can have
  Sessions,       \* the requests a Central can be processing at once
  LegacyIds,      \* events whose receipt was stored without a payload hash
  MaxBatch,       \* the most events one request carries
  MaxFailures,    \* bound: crashes, lost answers and early timeouts
  MaxReissues,    \* bound: an event_id reused for another payload
  MaxToggles,     \* bound: the gate opening or closing
  NoHash,         \* the payload_hash of a receipt that has none
  NoReceipt,      \* get_receipt found nothing
  None            \* no session, no event, no payload

ASSUME IntakeAssumption ==
  /\ LegacyIds \subseteq EventIds
  /\ MaxBatch \in Nat /\ MaxFailures \in Nat
  /\ MaxReissues \in Nat /\ MaxToggles \in Nat
  /\ NoHash \notin Values
  /\ None \notin Values /\ None \notin Sessions /\ None \notin EventIds

Statuses == {"ACCEPTED", "REJECTED"}
Receipt  == [status : Statuses, hash : Values \cup {NoHash}]


\* How the answer names an event: accepted, duplicates, or one of the three
\* ways into rejected (EVENT_ID_PAYLOAD_CONFLICT, a SyncRejected, the gate).
Outcomes == {"accepted", "duplicate", "conflict", "rejected", "refused"}

ASSUME MarkersAssumption == NoReceipt \notin Receipt /\ None \notin Outcomes

\* Where a request is suspended.  "next" is the head of the loop, where a
\* request with nothing left to do commits; "answer" is after that commit.
Points == {"idle", "next", "gate", "savepoint", "apply", "put_accepted",
           "release", "rollback", "put_rejected", "answer"}

VARIABLES
  \* the station
  outbox,         \* event -> PENDING, or what the station made of an answer
  payload,        \* event -> hash of the value the station holds for it
  awaiting,       \* the request the station waits for
  \* committed at the Central
  receipts,       \* event -> stored receipt
  applied,        \* event -> how often its writes were committed
  gateOpen,       \* whether the exam takes marks now
  \* one request
  pc,             \* where it is suspended
  todo,           \* events it has not processed yet
  event,          \* the event of the current iteration
  sent,           \* event -> payload hash as sent
  answer,         \* event -> outcome collected for the response
  txn,            \* its uncommitted writes: receipts, and events applied
  saved,          \* txn when the savepoint was opened
  \* bounds
  failures, reissues, toggles

stationVars == <<outbox, payload, awaiting>>
centralVars == <<receipts, applied, gateOpen>>
requestVars == <<pc, todo, event, sent, answer, txn, saved>>
boundVars   == <<failures, reissues, toggles>>
vars == <<stationVars, centralVars, requestVars, boundVars>>

-----------------------------------------------------------------------------
(* The initial state *)

NoReceipts == [e \in EventIds |-> NoReceipt]
EmptyTxn   == [receipts |-> NoReceipts, effects |-> {}]

LegacyReceipt == [status |-> "ACCEPTED", hash |-> NoHash]

Init ==
  /\ outbox = [e \in EventIds |-> "PENDING"]
  /\ payload \in [EventIds -> Values]
  /\ awaiting = None
  /\ receipts = [e \in EventIds |-> IF e \in LegacyIds THEN LegacyReceipt ELSE NoReceipt]
  /\ applied = [e \in EventIds |-> IF e \in LegacyIds THEN 1 ELSE 0]
  /\ gateOpen \in BOOLEAN
  /\ pc = [s \in Sessions |-> "idle"]
  /\ todo = [s \in Sessions |-> {}]
  /\ event = [s \in Sessions |-> None]
  /\ sent = [s \in Sessions |-> [e \in EventIds |-> None]]
  /\ answer = [s \in Sessions |-> [e \in EventIds |-> None]]
  /\ txn = [s \in Sessions |-> EmptyTxn]
  /\ saved = [s \in Sessions |-> EmptyTxn]
  /\ failures = 0 /\ reissues = 0 /\ toggles = 0

-----------------------------------------------------------------------------
(* Helpers *)

Pending == {e \in EventIds : outbox[e] = "PENDING"}

\* The end of a request: its transaction is gone and the coroutine with it.
EndRequest(s) ==
  /\ pc' = [pc EXCEPT ![s] = "idle"]
  /\ todo' = [todo EXCEPT ![s] = {}]
  /\ event' = [event EXCEPT ![s] = None]
  /\ sent' = [sent EXCEPT ![s] = [e \in EventIds |-> None]]
  /\ answer' = [answer EXCEPT ![s] = [e \in EventIds |-> None]]
  /\ txn' = [txn EXCEPT ![s] = EmptyTxn]
  /\ saved' = [saved EXCEPT ![s] = EmptyTxn]

\* What get_receipt returns: the request's own uncommitted receipt, or the
\* committed one.
VisibleReceipt(s, e) ==
  IF txn[s].receipts[e] # NoReceipt THEN txn[s].receipts[e] ELSE receipts[e]

\* One iteration ends with its event in one list of the answer.
Conclude(s, e, outcome) ==
  /\ answer' = [answer EXCEPT ![s][e] = outcome]
  /\ todo' = [todo EXCEPT ![s] = @ \ {e}]
  /\ event' = [event EXCEPT ![s] = None]
  /\ pc' = [pc EXCEPT ![s] = "next"]

\* Mistake: any receipt makes a duplicate, whatever was in it.
DedupeOutcomeIgnoringHash(receipt, hash) == "duplicate"

\* Mistake: a conflict is skipped without being named in the answer.
DedupeOutcomeSilent(receipt, hash) ==
  IF receipt.hash \in {hash, NoHash} THEN "duplicate" ELSE None

\* The dedupe test: any receipt makes the event a duplicate, unless its hash
\* is recorded and differs.
DedupeOutcome(receipt, hash) ==
  IF receipt.hash # NoHash /\ receipt.hash # hash THEN "conflict" ELSE "duplicate"

\* The requests whose uncommitted receipt for e a put_receipt has to wait for.
Holders(s, e) == {t \in Sessions \ {s} : txn[t].receipts[e] # NoReceipt}

\* Mistake: event_id is no unique key of the receipts.
ReceiptFreeAlways(s, e) == TRUE

ReceiptFree(s, e) == Holders(s, e) = {} /\ receipts[e] = NoReceipt

StoreReceipt(s, e, status) ==
  txn' = [txn EXCEPT ![s].receipts =
            [@ EXCEPT ![e] = [status |-> status, hash |-> sent[s][e]]]]

\* apply_event writes for the events of W.
WriteFor(s, W) == txn' = [txn EXCEPT ![s].effects = @ \cup W]

-----------------------------------------------------------------------------
(* The station: its outbox and its requests *)

\* The station posts a batch of pending events.  It waits for one request at
\* a time.
Send(s, batch) ==
  /\ awaiting = None
  /\ pc[s] = "idle"
  /\ batch # {} /\ batch \subseteq Pending /\ Cardinality(batch) <= MaxBatch
  /\ awaiting' = s
  /\ pc' = [pc EXCEPT ![s] = "next"]
  /\ todo' = [todo EXCEPT ![s] = batch]
  /\ sent' = [sent EXCEPT ![s] =
                [e \in EventIds |-> IF e \in batch THEN payload[e] ELSE None]]
  /\ UNCHANGED <<outbox, payload, centralVars, event, answer, txn, saved, boundVars>>

\* The station gives up on its request: always when the request is gone, and
\* early, while it is still being processed, as often as the bound allows.
Timeout ==
  /\ awaiting # None
  /\ \/ pc[awaiting] = "idle" /\ UNCHANGED failures
     \/ pc[awaiting] # "idle" /\ failures < MaxFailures /\ failures' = failures + 1
  /\ awaiting' = None
  /\ UNCHANGED <<outbox, payload, centralVars, requestVars, reissues, toggles>>

\* Mistake: the station keeps the name of the list as its status.
ReconciledByList(old, outcome) ==
  CASE outcome = "accepted"                            -> "ACCEPTED"
    [] outcome = "duplicate"                           -> "DUPLICATE"
    [] outcome \in {"rejected", "conflict", "refused"} -> "REJECTED"
    [] OTHER                                           -> old

\* What the station makes of the list that names an event: accepted and
\* duplicates are done; a rejection stays visible; a refusal by the gate may
\* be sent again; what is not named stays PENDING.
Reconciled(old, outcome) ==
  CASE outcome \in {"accepted", "duplicate"} -> "ACCEPTED"
    [] outcome \in {"rejected", "conflict"}  -> "REJECTED"
    [] outcome = "refused"                   -> "REFUSED"
    [] OTHER                                 -> old

\* The answer arrives.  One the station no longer waits for is dropped.
Deliver(s) ==
  /\ pc[s] = "answer"
  /\ IF awaiting = s
     THEN /\ outbox' = [e \in EventIds |-> Reconciled(outbox[e], answer[s][e])]
          /\ awaiting' = None
     ELSE UNCHANGED <<outbox, awaiting>>
  /\ EndRequest(s)
  /\ UNCHANGED <<payload, centralVars, boundVars>>

\* The answer is lost on its way, after the Central committed.
LoseAnswer(s) ==
  /\ pc[s] = "answer"
  /\ failures < MaxFailures
  /\ failures' = failures + 1
  /\ EndRequest(s)
  /\ UNCHANGED <<stationVars, centralVars, reissues, toggles>>

\* An event the gate refused is queued again.
Requeue(e) ==
  /\ outbox[e] = "REFUSED"
  /\ outbox' = [outbox EXCEPT ![e] = "PENDING"]
  /\ UNCHANGED <<payload, awaiting, centralVars, requestVars, boundVars>>

\* The station comes to disagree about what an event_id was: it queues the id
\* with another value, and no longer waits for anything it sent before.
Reissue(e, value) ==
  /\ reissues < MaxReissues
  /\ value # payload[e]
  /\ reissues' = reissues + 1
  /\ payload' = [payload EXCEPT ![e] = value]
  /\ outbox' = [outbox EXCEPT ![e] = "PENDING"]
  /\ awaiting' = None
  /\ UNCHANGED <<centralVars, requestVars, failures, toggles>>

-----------------------------------------------------------------------------
(* process_sync_batch *)

\* await get_receipt: an event with a receipt is answered at once.
Dedupe(s, e) ==
  /\ pc[s] = "next"
  /\ e \in todo[s]
  /\ IF VisibleReceipt(s, e) # NoReceipt
     THEN Conclude(s, e, DedupeOutcome(VisibleReceipt(s, e), sent[s][e]))
     ELSE /\ event' = [event EXCEPT ![s] = e]
          /\ pc' = [pc EXCEPT ![s] = "gate"]
          /\ UNCHANGED <<answer, todo>>
  /\ UNCHANGED <<stationVars, centralVars, sent, txn, saved, boundVars>>

\* Mistake: a refusal is recorded like a rejection.
RefuseWithReceipt(s) ==
  Conclude(s, event[s], "refused") /\ StoreReceipt(s, event[s], "REJECTED")

\* No receipt: a refusal is temporary.
Refuse(s) == Conclude(s, event[s], "refused") /\ UNCHANGED txn

\* await gate.
Gate(s) ==
  /\ pc[s] = "gate"
  /\ IF gateOpen
     THEN pc' = [pc EXCEPT ![s] = "savepoint"] /\ UNCHANGED <<answer, todo, event, txn>>
     ELSE Refuse(s)
  /\ UNCHANGED <<stationVars, centralVars, sent, saved, boundVars>>

\* await savepoint.
Savepoint(s) ==
  /\ pc[s] = "savepoint"
  /\ saved' = [saved EXCEPT ![s] = txn[s]]
  /\ pc' = [pc EXCEPT ![s] = "apply"]
  /\ UNCHANGED <<stationVars, centralVars, todo, event, sent, answer, txn, boundVars>>

\* Mistake: apply_event commits on its own.
ApplyCommits(s) ==
  /\ pc[s] = "apply"
  /\ applied' = [applied EXCEPT ![event[s]] = @ + 1]
  /\ pc' = [pc EXCEPT ![s] = "put_accepted"]
  /\ UNCHANGED <<stationVars, receipts, gateOpen, todo, event, sent, answer, txn, saved,
                 boundVars>>

\* await apply_event returns: the event's writes are in the transaction.
Apply(s) ==
  /\ pc[s] = "apply"
  /\ WriteFor(s, {event[s]})
  /\ pc' = [pc EXCEPT ![s] = "put_accepted"]
  /\ UNCHANGED <<stationVars, centralVars, todo, event, sent, answer, saved, boundVars>>

\* await apply_event raises SyncRejected, before or after it wrote something.
ApplyRejects(s) ==
  /\ pc[s] = "apply"
  /\ \E W \in SUBSET {event[s]} : WriteFor(s, W)
  /\ pc' = [pc EXCEPT ![s] = "rollback"]
  /\ UNCHANGED <<stationVars, centralVars, todo, event, sent, answer, saved, boundVars>>

\* await put_receipt, ACCEPTED, inside the savepoint.
PutAccepted(s) ==
  /\ pc[s] = "put_accepted"
  /\ ReceiptFree(s, event[s])
  /\ StoreReceipt(s, event[s], "ACCEPTED")
  /\ pc' = [pc EXCEPT ![s] = "release"]
  /\ UNCHANGED <<stationVars, centralVars, todo, event, sent, answer, saved, boundVars>>

\* await sp.commit, then accepted.append.
Release(s) ==
  /\ pc[s] = "release"
  /\ Conclude(s, event[s], "accepted")
  /\ UNCHANGED <<stationVars, centralVars, sent, txn, saved, boundVars>>

\* Mistake: the savepoint is left as it is.
RollbackForgotten(s) ==
  /\ pc[s] = "rollback"
  /\ pc' = [pc EXCEPT ![s] = "put_rejected"]
  /\ UNCHANGED <<stationVars, centralVars, todo, event, sent, answer, txn, saved, boundVars>>

\* await sp.rollback: this event's writes are undone, the batch's are kept.
Rollback(s) ==
  /\ pc[s] = "rollback"
  /\ txn' = [txn EXCEPT ![s] = saved[s]]
  /\ pc' = [pc EXCEPT ![s] = "put_rejected"]
  /\ UNCHANGED <<stationVars, centralVars, todo, event, sent, answer, saved, boundVars>>

\* Mistake: the receipt is written inside the savepoint and undone with it.
PutRejectedInSavepoint(s) ==
  /\ pc[s] = "put_rejected"
  /\ ReceiptFree(s, event[s])
  /\ Conclude(s, event[s], "rejected")
  /\ UNCHANGED <<stationVars, centralVars, sent, txn, saved, boundVars>>

\* await put_receipt, REJECTED, outside the savepoint, then rejected.append.
PutRejected(s) ==
  /\ pc[s] = "put_rejected"
  /\ ReceiptFree(s, event[s])
  /\ StoreReceipt(s, event[s], "REJECTED")
  /\ Conclude(s, event[s], "rejected")
  /\ UNCHANGED <<stationVars, centralVars, sent, saved, boundVars>>

\* An exception that is not a SyncRejected leaves the engine from any await,
\* or the Central stops: the whole transaction is undone, nothing is answered.
Fail(s) ==
  /\ pc[s] \notin {"idle", "answer"}
  /\ failures < MaxFailures
  /\ failures' = failures + 1
  /\ EndRequest(s)
  /\ UNCHANGED <<stationVars, centralVars, reissues, toggles>>

-----------------------------------------------------------------------------
(* The Central around the engine *)

\* Mistake: nobody ends the wait of two requests on one another.
PutFailsOnlyIfCommitted(s) ==
  /\ pc[s] \in {"put_accepted", "put_rejected"}
  /\ receipts[event[s]] # NoReceipt
  /\ EndRequest(s)
  /\ UNCHANGED <<stationVars, centralVars, boundVars>>

\* A put_receipt that cannot have its key fails, and surfaces like any other
\* error: the key is already committed, or the database ends its wait on
\* another request (its answer to two requests that wait for one another).
PutFails(s) ==
  /\ pc[s] \in {"put_accepted", "put_rejected"}
  /\ ~ReceiptFree(s, event[s])
  /\ EndRequest(s)
  /\ UNCHANGED <<stationVars, centralVars, boundVars>>

\* The engine has returned and its Central commits.
Commit(s) ==
  /\ pc[s] = "next"
  /\ todo[s] = {}
  /\ receipts' = [e \in EventIds |->
                    IF txn[s].receipts[e] # NoReceipt THEN txn[s].receipts[e] ELSE receipts[e]]
  /\ applied' = [e \in EventIds |->
                    IF e \in txn[s].effects THEN applied[e] + 1 ELSE applied[e]]
  /\ txn' = [txn EXCEPT ![s] = EmptyTxn]
  /\ saved' = [saved EXCEPT ![s] = EmptyTxn]
  /\ pc' = [pc EXCEPT ![s] = "answer"]
  /\ UNCHANGED <<stationVars, gateOpen, todo, event, sent, answer, boundVars>>

\* The exam is published, unpublished, locked or unlocked.
ToggleGate ==
  /\ toggles < MaxToggles
  /\ toggles' = toggles + 1
  /\ gateOpen' = ~gateOpen
  /\ UNCHANGED <<stationVars, receipts, applied, requestVars, failures, reissues>>

-----------------------------------------------------------------------------
(* The specification *)

\* Everything that goes on in one request without a failure.
Process(s) ==
  \/ \E e \in EventIds : Dedupe(s, e)
  \/ Gate(s) \/ Savepoint(s) \/ Apply(s) \/ ApplyRejects(s)
  \/ PutAccepted(s) \/ Release(s) \/ Rollback(s) \/ PutRejected(s)
  \/ PutFails(s) \/ Commit(s) \/ Deliver(s)

Settled(e) == outbox[e] \in {"ACCEPTED", "REJECTED"}

\* All events are settled and nothing is under way: the system may rest.
Rest ==
  /\ \A e \in EventIds : Settled(e)
  /\ \A s \in Sessions : pc[s] = "idle"
  /\ UNCHANGED vars

Next ==
  \/ \E s \in Sessions : Process(s) \/ Fail(s) \/ LoseAnswer(s)
  \/ \E s \in Sessions, batch \in SUBSET EventIds : Send(s, batch)
  \/ \E e \in EventIds : Requeue(e)
  \/ \E e \in EventIds, value \in Values : Reissue(e, value)
  \/ Timeout \/ ToggleGate \/ Rest

Spec == Init /\ [][Next]_vars

\* The event loop resumes every coroutine whose await is over, a response
\* that is not lost arrives, and a station keeps sending what is pending and
\* keeps queueing what the gate refused.
Fairness ==
  /\ \A s \in Sessions : WF_vars(Process(s))
  /\ WF_vars(\E s \in Sessions, batch \in SUBSET EventIds : Send(s, batch))
  /\ WF_vars(Timeout)
  /\ \A e \in EventIds : WF_vars(Requeue(e))

FairSpec == Spec /\ Fairness

-----------------------------------------------------------------------------
(* Properties *)

Txn == [receipts : [EventIds -> Receipt \cup {NoReceipt}], effects : SUBSET EventIds]

\* Every variable has its type: the states the columns, lists and rows of
\* the engine, its database and its station can be in.
TypeOK ==
  /\ outbox \in [EventIds -> {"PENDING", "ACCEPTED", "REJECTED", "REFUSED"}]
  /\ payload \in [EventIds -> Values]
  /\ awaiting \in Sessions \cup {None}
  /\ receipts \in [EventIds -> Receipt \cup {NoReceipt}]
  /\ applied \in [EventIds -> Nat]
  /\ gateOpen \in BOOLEAN
  /\ pc \in [Sessions -> Points]
  /\ todo \in [Sessions -> SUBSET EventIds]
  /\ event \in [Sessions -> EventIds \cup {None}]
  /\ sent \in [Sessions -> [EventIds -> Values \cup {None}]]
  /\ answer \in [Sessions -> [EventIds -> Outcomes \cup {None}]]
  /\ txn \in [Sessions -> Txn]
  /\ saved \in [Sessions -> Txn]
  /\ failures \in Nat /\ reissues \in Nat /\ toggles \in Nat

\* However requests overlap, crash and repeat, the writes of one event are
\* committed at most once ("the second send must not apply again").
AppliedAtMostOnce == \A e \in EventIds : applied[e] <= 1

\* The tables and the receipts agree: an event has an ACCEPTED receipt exactly
\* when its writes are committed, so a rejected event left nothing behind and
\* nothing was written that a receipt does not own up to.
ReceiptMatchesEffect ==
  \A e \in EventIds :
    applied[e] > 0 <=> receipts[e] # NoReceipt /\ receipts[e].status = "ACCEPTED"

\* The hash recorded for e does not contradict hash h.
Agrees(e, h) == receipts[e] # NoReceipt /\ receipts[e].hash \in {h, NoHash}

\* An answer on its way names every event it was sent, and what it says of
\* each is what the committed receipts say: accepted and rejected events have
\* that receipt for the payload sent, a duplicate has one that agrees with it,
\* a conflict one that does not.  Only a refusal commits nothing.
AnswerIsOnRecord ==
  \A s \in Sessions, e \in EventIds :
    pc[s] = "answer" /\ sent[s][e] # None =>
      /\ answer[s][e] # None
      /\ answer[s][e] = "accepted"  => receipts[e] = [status |-> "ACCEPTED", hash |-> sent[s][e]]
      /\ answer[s][e] = "rejected"  => receipts[e] = [status |-> "REJECTED", hash |-> sent[s][e]]
      /\ answer[s][e] = "duplicate" => Agrees(e, sent[s][e])
      /\ answer[s][e] = "conflict"  => receipts[e] # NoReceipt /\ ~Agrees(e, sent[s][e])

\* A refusal by the gate is temporary: the request that reports it has neither
\* a receipt nor a write for the event in its transaction, so a later attempt
\* at the same event_id is judged afresh instead of being a duplicate.
RefusalLeavesNoTrace ==
  \A s \in Sessions, e \in EventIds :
    answer[s][e] = "refused" =>
      txn[s].receipts[e] = NoReceipt /\ e \notin txn[s].effects

\* What the station shows its operator is on record at the Central: an event
\* it holds as ACCEPTED was judged with the value the station holds, one it
\* holds as REJECTED was judged.
StationRecordIsTrue ==
  \A e \in EventIds :
    /\ outbox[e] = "ACCEPTED" => Agrees(e, payload[e])
    /\ outbox[e] = "REJECTED" => receipts[e] # NoReceipt

\* The ledger this engine keeps.
Ledger == INSTANCE EventLedger WITH
  verdict <- [e \in EventIds |-> IF receipts[e] = NoReceipt THEN "undecided" ELSE receipts[e].status]

\* The engine implements the ledger: each event is judged at most once, for
\* good, and its writes are committed together with the judgement.
LedgerKept == Ledger!Spec

\* When the gate is open for good, every event of the outbox is settled in the
\* end: none stays PENDING through retries, lost answers and crashes.
EverythingSettles ==
  <>[]gateOpen => \A e \in EventIds : <>[]Settled(e)

\* NOT a property of this engine.  What the duplicates list means to the
\* station ("it would mark it accepted"), to the note on the gate ("duplicate
\* for what already landed") and to STALE_EVENT ("the station keeps it visible
\* as REJECTED"): an event the station holds as ACCEPTED landed.
AcceptedMeansLanded ==
  \A e \in EventIds : outbox[e] = "ACCEPTED" => applied[e] = 1
=============================================================================
