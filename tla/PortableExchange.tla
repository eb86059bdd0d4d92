-------------------------- MODULE PortableExchange ---------------------------
(***************************************************************************)
(* portable.py: events and acknowledgements carried by hand between a      *)
(* station that cannot reach its Centrals and the Centrals, in envelopes   *)
(* that are sealed, bound to a recipient, expire, and open once.           *)
(*                                                                         *)
(* The medium can be copied, lost, and brought to the wrong place.  Each   *)
(* machine opens an envelope, does what it says, and may stop in between:  *)
(* open_envelope remembers the nonce before its caller has done anything.  *)
(* The caller's set of nonces is taken to outlive a restart.               *)
(*                                                                         *)
(* External: Fernet (a token opens with the right key, unaltered, when its *)
(* stamp is not too old and not ahead of the reader's clock), the station, *)
(* and the sync service behind the import, which judges an event once.     *)
(***************************************************************************)
EXTENDS Integers, FiniteSets

CONSTANTS
  Centrals,
  Station,
  Events,         \* the events of the station's outbox
  Home,           \* event -> the Central it is for
  Errors,         \* how far ahead the station's clock may be
  Ttl,            \* ttl_seconds, in the unit of `now'
  MaxSkew,        \* how far ahead of the reader Fernet lets a stamp be
  MaxTime,        \* bound on true time
  MaxFailures,    \* bound: envelopes lost, exports repeated early, stops
  MaxNonces,      \* bound: envelopes sealed
  None

Machines == Centrals \cup {Station}

ASSUME PortableAssumption ==
  /\ Home \in [Events -> Centrals]
  /\ Station \notin Centrals
  /\ Errors \subseteq Int
  /\ Ttl \in Nat /\ MaxSkew \in Nat
  /\ MaxTime \in Nat /\ MaxFailures \in Nat /\ MaxNonces \in Nat
  /\ None \notin Machines

Nonces   == 1..MaxNonces
Statuses == {"ACCEPTED", "REJECTED"}

\* What is sealed: for some events, what is known of each.
Payloads == UNION {[E -> {"PENDING"} \cup Statuses] : E \in SUBSET Events}

Envelopes ==
  [nonce : Nat, sender : Machines, recipient : Machines, exchange : Nat,
   stamp : Int, sealedAt : Nat, payload : Payloads]

\* An envelope that is open, and the answer of a Central once it has one.
OpenWork == [envelope : Envelopes, answer : Payloads \cup {None}]

ASSUME NoneAssumption == None \notin Statuses /\ None \notin Payloads /\ None \notin OpenWork

VARIABLES
  now,            \* true time
  clockError,     \* of the station; a Central's clock is right
  status,         \* event -> PENDING, ACCEPTED, REJECTED, at the station
  waiting,        \* Central -> the exchange the station waits for, or None
  media,          \* sealed envelopes, each in as many copies as one likes
  nonces,         \* envelopes sealed so far: the next nonce
  seen,           \* machine -> seen_nonces
  work,           \* machine -> the envelope it opened and what it answers, or None
  receipts,       \* Central -> event -> its judgement, or None
  processed,      \* nonce -> how often its payload was acted on
  failures

vars == <<now, clockError, status, waiting, media, nonces, seen, work, receipts,
          processed, failures>>

Init ==
  /\ now = 0
  /\ clockError \in Errors
  /\ status = [e \in Events |-> "PENDING"]
  /\ waiting = [c \in Centrals |-> None]
  /\ media = {}
  /\ nonces = 0
  /\ seen = [m \in Machines |-> {}]
  /\ work = [m \in Machines |-> None]
  /\ receipts = [c \in Centrals |-> [e \in Events |-> None]]
  /\ processed = [n \in Nonces |-> 0]
  /\ failures = 0

Clock(m) == IF m = Station THEN now + clockError ELSE now

-----------------------------------------------------------------------------
(* seal and open_envelope *)

\* Mistake: the nonce is made of the payload, so it is the same for the same.
SealByPayload(sender, recipient, exchange, payload) ==
  LET same == {t \in media : t.recipient = recipient /\ t.payload = payload}
  IN /\ nonces < MaxNonces
     /\ nonces' = nonces + 1
     /\ media' = media \cup
          {[nonce |-> IF same = {} THEN nonces + 1 ELSE (CHOOSE t \in same : TRUE).nonce,
            sender |-> sender, recipient |-> recipient, exchange |-> exchange,
            stamp |-> Clock(sender), sealedAt |-> now, payload |-> payload]}

\* Every seal has a nonce of its own.  direction and sequence are carried for
\* the callers; nothing here reads them.
Seal(sender, recipient, exchange, payload) ==
  /\ nonces < MaxNonces
  /\ nonces' = nonces + 1
  /\ media' = media \cup
       {[nonce |-> nonces + 1, sender |-> sender, recipient |-> recipient,
         exchange |-> exchange, stamp |-> Clock(sender), sealedAt |-> now, payload |-> payload]}

\* Mistake: decrypt is called without ttl, which also skips the skew test.
DecryptsAlways(m, t) == TRUE

Decrypts(m, t) == t.stamp + Ttl >= Clock(m) /\ Clock(m) + MaxSkew >= t.stamp

\* Mistake: whoever holds the key may open.
OpenOutcomeAnyone(m, t) ==
  CASE ~Decrypts(m, t)      -> "CONFIGURATION_MISMATCH"
    [] t.nonce \in seen[m]  -> "EVENT_ID_PAYLOAD_CONFLICT"
    [] OTHER                -> "opened"

OpenOutcome(m, t) ==
  CASE ~Decrypts(m, t)      -> "CONFIGURATION_MISMATCH"
    [] t.recipient # m      -> "OUTSIDE_STATION_SCOPE"
    [] t.nonce \in seen[m]  -> "EVENT_ID_PAYLOAD_CONFLICT"
    [] OTHER                -> "opened"

\* Mistake: the nonce is looked up and not recorded.
Forget(m, t) == UNCHANGED seen

Remember(m, t) == seen' = [seen EXCEPT ![m] = @ \cup {t.nonce}]

\* A refused envelope changes nothing.
OpenEnvelope(m, t) ==
  /\ work[m] = None
  /\ OpenOutcome(m, t) = "opened"
  /\ Remember(m, t)
  /\ work' = [work EXCEPT ![m] = [envelope |-> t, answer |-> None]]
  /\ UNCHANGED <<now, clockError, status, waiting, media, nonces, receipts, processed, failures>>

-----------------------------------------------------------------------------
(* The callers *)

\* The station exports what is pending for c, one exchange at a time.
Export(c) ==
  LET pending == {e \in Events : Home[e] = c /\ status[e] = "PENDING"}
  IN /\ waiting[c] = None
     /\ pending # {}
     /\ Seal(Station, c, nonces + 1, [e \in pending |-> "PENDING"])
     /\ waiting' = [waiting EXCEPT ![c] = nonces + 1]
  /\ UNCHANGED <<now, clockError, status, seen, work, receipts, processed, failures>>

\* Envelopes and work of an exchange from which something can still come.
Alive(x) ==
  \/ \E t \in media, m \in Machines : t.exchange = x /\ OpenOutcome(m, t) = "opened"
  \/ \E m \in Machines : work[m] # None /\ work[m].envelope.exchange = x

\* The station gives an exchange up: always when nothing can come of it any
\* more, and early as often as the bound allows.
GiveUp(c) ==
  /\ waiting[c] # None
  /\ \/ ~Alive(waiting[c]) /\ UNCHANGED failures
     \/ Alive(waiting[c]) /\ failures < MaxFailures /\ failures' = failures + 1
  /\ waiting' = [waiting EXCEPT ![c] = None]
  /\ UNCHANGED <<now, clockError, status, media, nonces, seen, work, receipts, processed>>

\* What a station makes of a duplicate.
DuplicateStatus == "ACCEPTED"

\* Mistake: the answers leave, and the transaction does not commit.
ImportUncommitted(c) ==
  LET t == work[c].envelope
  IN /\ work[c] # None /\ work[c].answer = None
     /\ work' = [work EXCEPT ![c].answer = [e \in DOMAIN t.payload |-> "ACCEPTED"]]
     /\ processed' = [processed EXCEPT ![t.nonce] = @ + 1]
     /\ UNCHANGED <<now, clockError, status, waiting, media, nonces, seen, receipts, failures>>

\* The import of an envelope commits: what has no receipt is judged, the rest
\* are duplicates.
Import(c) ==
  LET t == work[c].envelope
      new == {e \in DOMAIN t.payload : receipts[c][e] = None}
  IN /\ work[c] # None /\ work[c].answer = None
     /\ \E verdict \in [new -> Statuses] :
          /\ receipts' = [receipts EXCEPT ![c] =
                            [e \in Events |-> IF e \in new THEN verdict[e] ELSE @[e]]]
          /\ work' = [work EXCEPT ![c].answer =
                        [e \in DOMAIN t.payload |-> IF e \in new THEN verdict[e] ELSE DuplicateStatus]]
     /\ processed' = [processed EXCEPT ![t.nonce] = @ + 1]
     /\ UNCHANGED <<now, clockError, status, waiting, media, nonces, seen, failures>>

\* Then the acknowledgements are sealed.
Acknowledge(c) ==
  /\ work[c] # None /\ work[c].answer # None
  /\ Seal(c, Station, work[c].envelope.exchange, work[c].answer)
  /\ work' = [work EXCEPT ![c] = None]
  /\ UNCHANGED <<now, clockError, status, waiting, seen, receipts, processed, failures>>

\* The station takes the acknowledgements of an envelope over.
Settle ==
  LET t == work[Station].envelope
  IN /\ work[Station] # None
     /\ status' = [e \in Events |-> IF e \in DOMAIN t.payload THEN t.payload[e] ELSE status[e]]
     /\ waiting' = [c \in Centrals |-> IF waiting[c] = t.exchange THEN None ELSE waiting[c]]
     /\ processed' = [processed EXCEPT ![t.nonce] = @ + 1]
     /\ work' = [work EXCEPT ![Station] = None]
     /\ UNCHANGED <<now, clockError, media, nonces, seen, receipts, failures>>

-----------------------------------------------------------------------------
(* The world *)

Tick ==
  /\ now < MaxTime
  /\ now' = now + 1
  /\ UNCHANGED <<clockError, status, waiting, media, nonces, seen, work, receipts, processed, failures>>

\* All copies of an envelope are lost.
Lose(t) ==
  /\ failures < MaxFailures
  /\ failures' = failures + 1
  /\ media' = media \ {t}
  /\ UNCHANGED <<now, clockError, status, waiting, nonces, seen, work, receipts, processed>>

\* A machine stops with an envelope open, before or after it has committed.
Stop(m) ==
  /\ work[m] # None
  /\ failures < MaxFailures
  /\ failures' = failures + 1
  /\ work' = [work EXCEPT ![m] = None]
  /\ UNCHANGED <<now, clockError, status, waiting, media, nonces, seen, receipts, processed>>

Next ==
  \/ Tick \/ Settle
  \/ \E c \in Centrals : Export(c) \/ GiveUp(c) \/ Import(c) \/ Acknowledge(c)
  \/ \E m \in Machines, t \in media : OpenEnvelope(m, t)
  \/ \E t \in media : Lose(t)
  \/ \E m \in Machines : Stop(m)

\* People keep carrying: what is pending is exported, an envelope that opens is
\* brought to where it opens, and what was opened is dealt with.
Fairness ==
  /\ \A c \in Centrals : WF_vars(Export(c)) /\ WF_vars(Import(c)) /\ WF_vars(Acknowledge(c))
  /\ \A c \in Centrals : WF_vars(~Alive(waiting[c]) /\ GiveUp(c))
  /\ \A m \in Machines : WF_vars(\E t \in media : OpenEnvelope(m, t))
  /\ WF_vars(Settle)

Spec == Init /\ [][Next]_vars

FairSpec == Spec /\ Fairness

-----------------------------------------------------------------------------
(* Properties *)

\* "Replay-protected": an envelope that is copied, carried twice, or brought
\* again after its reader stopped half-way, is acted on once at most.
ProcessedOnce == \A n \in Nonces : processed[n] <= 1

\* "Recipient-bound": one station serves two Centrals under one key, and its
\* envelopes are brought to either; no Central judges an event of the other.
JudgedAtHome == \A c \in Centrals, e \in Events : receipts[c][e] # None => Home[e] = c

\* The station shows an event as settled only if its Central has judged it,
\* wherever imports and acknowledgements are cut off.
SettledIsJudged ==
  \A e \in Events : status[e] # "PENDING" => receipts[Home[e]][e] # None

\* "Expiring": what is opened was sealed, by true time, no longer ago than the
\* time to live and the error of the clock on the station's side of it.
OpenedFresh ==
  [][\A m \in Machines : work[m] = None /\ work'[m] # None =>
       LET slack == IF m = Station THEN 0 - clockError ELSE clockError
       IN now - work'[m].envelope.sealedAt \in 0..(Ttl + slack)]_vars

\* Every event is settled in the end, through envelopes that are lost, expire,
\* or are spent on a machine that stopped after it recorded their nonce, if no
\* stamp is further ahead of its reader than a reader lets it be.
EverythingSettles ==
  clockError \in (0 - MaxSkew)..MaxSkew => \A e \in Events : <>(status[e] # "PENDING")
=============================================================================
