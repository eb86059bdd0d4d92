------------------------ MODULE PortableExchangeProofs ------------------------
(***************************************************************************)
(* What the portable exchange keeps for any Centrals, events, envelopes,   *)
(* losses and stops, and any error of the station's clock: replay          *)
(* protection, recipient binding, expiry, and that a settled event was     *)
(* judged.  All rest on who holds which envelope, on the medium or open.   *)
(***************************************************************************)
EXTENDS PortableExchange, FiniteSetTheorems, TLAPS

\* The envelopes that can still be read: those on the medium and those open.
Held == media \cup {work[m].envelope : m \in {x \in Machines : work[x] # None}}

Typed ==
  /\ now \in Nat /\ clockError \in Int
  /\ status \in [Events -> {"PENDING"} \cup Statuses]
  /\ media \subseteq Envelopes
  /\ nonces \in 0..MaxNonces
  /\ seen \in [Machines -> SUBSET Nat]
  /\ work \in [Machines -> OpenWork \cup {None}]
  /\ receipts \in [Centrals -> [Events -> Statuses \cup {None}]]
  /\ processed \in [Nonces -> Nat]

\* Every event of p is said to be ACCEPTED or REJECTED, and its Central has judged it.
Judged(p) == \A e \in DOMAIN p : p[e] \in Statuses /\ receipts[Home[e]][e] # None

\* Who sends what to whom: the station its events to their Central, a Central
\* its judgements to the station, each with the time on its own clock.
ToCentral(t) ==
  /\ t.sender = Station /\ t.recipient \in Centrals
  /\ t.stamp = t.sealedAt + clockError
  /\ \A e \in DOMAIN t.payload : Home[e] = t.recipient

ToStation(t) ==
  /\ t.sender \in Centrals /\ t.recipient = Station
  /\ t.stamp = t.sealedAt
  /\ Judged(t.payload)

WellSealed ==
  \A t \in Held : (ToCentral(t) \/ ToStation(t)) /\ t.sealedAt <= now /\ t.nonce \in 1..nonces

\* A nonce names one envelope.
NonceNamesOne == \A t, u \in Held : t.nonce = u.nonce => t = u

\* What is open was opened by its recipient, who remembers it.
OpenIsSeen ==
  \A m \in Machines : work[m] # None =>
    work[m].envelope.recipient = m /\ work[m].envelope.nonce \in seen[m]

\* What was acted on is remembered by its recipient.
SpentIsSeen ==
  \A n \in Nonces : processed[n] # 0 =>
    n <= nonces /\ \A t \in Held : t.nonce = n => n \in seen[t.recipient]

\* What is open and not answered was not acted on.
OpenIsUnspent ==
  \A m \in Machines : work[m] # None /\ work[m].answer = None =>
    processed[work[m].envelope.nonce] = 0

\* Only Centrals answer, and what they have judged.
AnswersJudged ==
  \A m \in Machines : work[m] # None /\ work[m].answer # None =>
    m \in Centrals /\ Judged(work[m].answer)

\* The inductive invariant: the promises themselves, and why they hold.
IInv ==
  /\ Typed
  /\ WellSealed
  /\ NonceNamesOne
  /\ OpenIsSeen
  /\ SpentIsSeen
  /\ OpenIsUnspent
  /\ AnswersJudged
  /\ ProcessedOnce
  /\ JudgedAtHome
  /\ SettledIsJudged

-----------------------------------------------------------------------------
(* What can be read *)

LEMMA HeldIs ==
  ASSUME Typed
  PROVE  /\ \A t : t \in Held <=>
              t \in media \/ \E m \in Machines : work[m] # None /\ t = work[m].envelope
         /\ Held \subseteq Envelopes
<1>1. \A m \in Machines : work[m] # None => work[m] \in OpenWork BY DEF Typed
<1>2. \A m \in Machines : work[m] # None => work[m].envelope \in Envelopes
  BY <1>1 DEF OpenWork
<1> QED BY <1>2 DEF Held, Typed

\* A step that opens nothing and only forgets adds nothing to what can be read.
LEMMA HeldShrinks ==
  ASSUME Typed, Typed', NEW fresh, media' \subseteq media \cup fresh,
         \A m \in Machines : work'[m] # None =>
           \/ work[m] # None /\ work'[m].envelope = work[m].envelope
           \/ work'[m].envelope \in media
  PROVE  Held' \subseteq Held \cup fresh
<1> SUFFICES ASSUME NEW t \in Held', t \notin fresh PROVE t \in Held
  OBVIOUS
<1>1. CASE t \in media' BY <1>1 DEF Held
<1>2. ASSUME NEW m \in Machines, work'[m] # None, t = work'[m].envelope PROVE t \in Held
  BY <1>2 DEF Held
<1> QED BY <1>1, <1>2 DEF Held

\* No judgement is taken back.
StillJudged == \A c \in Centrals, e \in Events : receipts[c][e] # None => receipts'[c][e] # None

LEMMA JudgedStays ==
  ASSUME StillJudged, NEW p \in Payloads, Judged(p)
  PROVE  Judged(p)'
BY PortableAssumption DEF Judged, StillJudged, Payloads

\* What can be read stays well sealed while nothing but a seal, with the next
\* nonce, adds to it.
LEMMA SealsStay ==
  ASSUME IInv, Typed', StillJudged, UNCHANGED clockError, now <= now', nonces <= nonces',
         NEW fresh \in SUBSET Envelopes, Held' \subseteq Held \cup fresh,
         \A t \in fresh : /\ ToCentral(t) \/ ToStation(t)
                          /\ t.sealedAt <= now /\ nonces < t.nonce /\ t.nonce <= nonces',
         \A t, u \in fresh : t = u
  PROVE  WellSealed' /\ NonceNamesOne'
<1> USE DEF IInv
<1>1. Held \subseteq Envelopes BY HeldIs
<1>2. now \in Nat /\ now' \in Nat /\ nonces \in Nat /\ nonces' \in Nat BY DEF Typed
<1>3. ASSUME NEW t \in Held' PROVE (ToCentral(t)' \/ ToStation(t)') /\ t.sealedAt <= now' /\ t.nonce \in 1..nonces'
  <2>1. t \in Envelopes BY <1>1
  <2>2. t.payload \in Payloads /\ t.sealedAt \in Nat /\ t.nonce \in Nat BY <2>1 DEF Envelopes
  <2>3. (ToCentral(t) \/ ToStation(t)) /\ t.sealedAt <= now /\ 0 < t.nonce /\ t.nonce <= nonces'
    BY <1>2, <2>2 DEF WellSealed
  <2>4. ToCentral(t) => ToCentral(t)' BY DEF ToCentral
  <2>5. ToStation(t) => ToStation(t)' BY <2>2, JudgedStays DEF ToStation
  <2> QED BY <1>2, <2>2, <2>3, <2>4, <2>5
<1>4. WellSealed' BY <1>3 DEF WellSealed
<1>5. ASSUME NEW t \in Held', NEW u \in Held', t.nonce = u.nonce PROVE t = u
  <2>1. t \in Envelopes /\ u \in Envelopes BY <1>1
  <2>2. t.nonce \in Nat BY <2>1 DEF Envelopes
  <2>3. \A v \in Held : v.nonce <= nonces BY DEF WellSealed
  <2> QED BY <1>2, <1>5, <2>2, <2>3 DEF NonceNamesOne
<1> QED BY <1>4, <1>5 DEF NonceNamesOne

\* What was acted on stays remembered while nobody forgets and nobody acts.
LEMMA SpentStays ==
  ASSUME IInv, Typed', UNCHANGED processed, nonces <= nonces',
         \A m \in Machines : seen[m] \subseteq seen'[m],
         NEW fresh \in SUBSET Envelopes, Held' \subseteq Held \cup fresh,
         \A t \in fresh : nonces < t.nonce
  PROVE  SpentIsSeen' /\ ProcessedOnce'
<1> USE DEF IInv
<1>1. nonces \in Nat /\ nonces' \in Nat BY DEF Typed
<1>2. Held \subseteq Envelopes BY HeldIs
<1>3. ASSUME NEW n \in Nonces, processed[n] # 0, NEW t \in Held', t.nonce = n
      PROVE  n \in seen'[t.recipient]
  <2>1. n <= nonces /\ n \in Nat BY <1>3 DEF SpentIsSeen, Nonces
  <2>2. t \notin fresh BY <1>1, <1>3, <2>1
  <2>3. n \in seen[t.recipient] /\ t.recipient \in Machines
    BY <1>2, <1>3, <2>2 DEF SpentIsSeen, Envelopes
  <2> QED BY <2>3
<1>4. ASSUME NEW n \in Nonces, processed[n] # 0 PROVE n <= nonces'
  BY <1>1, <1>4 DEF SpentIsSeen, Nonces
<1> QED BY <1>3, <1>4 DEF SpentIsSeen, ProcessedOnce
-----------------------------------------------------------------------------
(* Each step keeps the invariant *)

LEMMA IInvInit == Init => IInv
<1> SUFFICES ASSUME Init PROVE IInv
  OBVIOUS
<1>1. Held = {} BY DEF Init, Held
<1>2. Typed BY PortableAssumption DEF Init, Typed
<1> QED
  BY <1>1, <1>2 DEF Init, IInv, WellSealed, NonceNamesOne, OpenIsSeen, SpentIsSeen,
     OpenIsUnspent, AnswersJudged, ProcessedOnce, JudgedAtHome, SettledIsJudged

\* Time passes, an exchange is given up, copies are lost, a machine stops: what
\* is open is as it was, or is closed.
LEMMA WorldStep ==
  ASSUME IInv, Typed', now <= now', media' \subseteq media,
         UNCHANGED <<clockError, status, nonces, seen, receipts, processed>>,
         \A m \in Machines : work'[m] \in {work[m], None}
  PROVE  IInv'
<1> USE DEF IInv
<1>1. Held' \subseteq Held \cup {} /\ {} \in SUBSET Envelopes BY HeldShrinks
<1>2. StillJudged BY DEF StillJudged
<1>3. now <= now' /\ nonces <= nonces' /\ UNCHANGED <<clockError, processed>> BY DEF Typed
<1>4. WellSealed' /\ NonceNamesOne' BY <1>1, <1>2, <1>3, SealsStay
<1>5. SpentIsSeen' /\ ProcessedOnce' BY <1>1, <1>3, SpentStays
<1>6. OpenIsSeen' /\ OpenIsUnspent' BY DEF OpenIsSeen, OpenIsUnspent
<1>7. AnswersJudged' BY DEF AnswersJudged, Judged
<1>8. JudgedAtHome' /\ SettledIsJudged' BY DEF JudgedAtHome, SettledIsJudged
<1> QED BY <1>4, <1>5, <1>6, <1>7, <1>8

\* A seal by a machine that has something to say puts one envelope on the medium.
LEMMA SealStep ==
  ASSUME IInv, Typed', NEW s \in Machines, NEW r \in Machines, NEW x \in Nat, NEW p \in Payloads,
         Seal(s, r, x, p),
         \/ s = Station /\ r \in Centrals /\ \A e \in DOMAIN p : Home[e] = r
         \/ s \in Centrals /\ r = Station /\ Judged(p),
         UNCHANGED <<now, clockError, status, seen, receipts, processed>>,
         \A m \in Machines : work'[m] \in {work[m], None}
  PROVE  IInv'
<1> USE DEF IInv
<1> DEFINE t == [nonce |-> nonces + 1, sender |-> s, recipient |-> r, exchange |-> x,
                 stamp |-> Clock(s), sealedAt |-> now, payload |-> p]
<1>1. nonces \in Nat /\ nonces' = nonces + 1 /\ now \in Nat /\ clockError \in Int
  BY DEF Typed, Seal
<1>2. Clock(s) \in Int BY <1>1 DEF Clock
<1>3. t \in Envelopes BY <1>1, <1>2 DEF Envelopes
<1>4. media' \subseteq media \cup {t} BY DEF Seal
<1>5. ToCentral(t) \/ ToStation(t)
  BY PortableAssumption DEF ToCentral, ToStation, Clock
<1>6. t.nonce = nonces + 1 /\ t.sealedAt = now OBVIOUS
<1> HIDE DEF t
<1>7. Held' \subseteq Held \cup {t} /\ {t} \in SUBSET Envelopes BY <1>3, <1>4, HeldShrinks
<1>8. StillJudged /\ nonces <= nonces' /\ now <= now' BY <1>1 DEF StillJudged
<1>9. /\ \A v \in {t} : /\ ToCentral(v) \/ ToStation(v)
                        /\ v.sealedAt <= now /\ nonces < v.nonce /\ v.nonce <= nonces'
      /\ \A u, v \in {t} : u = v
  BY <1>1, <1>5, <1>6
<1>10. WellSealed' /\ NonceNamesOne' /\ SpentIsSeen' /\ ProcessedOnce'
  BY <1>7, <1>8, <1>9, SealsStay, SpentStays
<1>11. OpenIsSeen' /\ OpenIsUnspent' BY DEF OpenIsSeen, OpenIsUnspent
<1>12. AnswersJudged' BY DEF AnswersJudged, Judged
<1>13. JudgedAtHome' /\ SettledIsJudged' BY DEF JudgedAtHome, SettledIsJudged
<1> QED BY <1>10, <1>11, <1>12, <1>13

LEMMA ExportStep ==
  ASSUME IInv, NEW c \in Centrals, Export(c) PROVE IInv'
<1> USE DEF IInv
<1> DEFINE pending == {e \in Events : Home[e] = c /\ status[e] = "PENDING"}
           p == [e \in pending |-> "PENDING"]
<1>1. p \in [pending -> {"PENDING"} \cup Statuses] /\ pending \in SUBSET Events OBVIOUS
<1>2. p \in Payloads BY <1>1 DEF Payloads
<1>3. Seal(Station, c, nonces + 1, p) BY DEF Export
<1>4. \A e \in DOMAIN p : Home[e] = c OBVIOUS
<1> HIDE DEF p, pending
<1>5. nonces + 1 \in Nat /\ now \in Nat /\ clockError \in Int BY DEF Typed
<1>6. c \in Machines /\ Station \in Machines BY DEF Machines
<1>7. Typed'
  <2>1. [nonce |-> nonces + 1, sender |-> Station, recipient |-> c, exchange |-> nonces + 1,
         stamp |-> Clock(Station), sealedAt |-> now, payload |-> p] \in Envelopes
    BY <1>2, <1>5, <1>6 DEF Envelopes, Clock
  <2>2. nonces' \in 0..MaxNonces BY <1>3, PortableAssumption DEF Seal, Typed
  <2> QED BY <1>3, <2>1, <2>2 DEF Export, Typed, Seal
<1> QED BY <1>2, <1>3, <1>4, <1>5, <1>6, <1>7, SealStep DEF Export

LEMMA AcknowledgeStep ==
  ASSUME IInv, NEW c \in Centrals, Acknowledge(c) PROVE IInv'
<1> USE DEF IInv
<1> DEFINE w == work[c]
<1>1. c \in Machines /\ Station \in Machines BY DEF Machines
<1>2. w \in OpenWork /\ w.answer # None BY <1>1 DEF Acknowledge, Typed
<1>3. w.answer \in Payloads /\ w.envelope.exchange \in Nat BY <1>2 DEF OpenWork, Envelopes
<1>4. Judged(w.answer) BY <1>1 DEF AnswersJudged, Acknowledge
<1>5. Seal(c, Station, w.envelope.exchange, w.answer) BY DEF Acknowledge
<1>6. work' = [work EXCEPT ![c] = None] BY DEF Acknowledge
<1> HIDE DEF w
<1>7. nonces + 1 \in Nat /\ now \in Nat /\ clockError \in Int BY DEF Typed
<1>8. Typed'
  <2>1. [nonce |-> nonces + 1, sender |-> c, recipient |-> Station, exchange |-> w.envelope.exchange,
         stamp |-> Clock(c), sealedAt |-> now, payload |-> w.answer] \in Envelopes
    BY <1>1, <1>3, <1>7 DEF Envelopes, Clock
  <2>2. nonces' \in 0..MaxNonces BY <1>5, PortableAssumption DEF Seal, Typed
  <2> QED BY <1>5, <1>6, <2>1, <2>2 DEF Acknowledge, Typed, Seal
<1>9. \A m \in Machines : work'[m] \in {work[m], None} BY <1>6 DEF Typed
<1> QED BY <1>1, <1>3, <1>4, <1>5, <1>8, <1>9, SealStep DEF Acknowledge
\* Who opens an envelope is its recipient, and has not acted on it.
LEMMA OpenStep ==
  ASSUME IInv, NEW m \in Machines, NEW t \in media, OpenEnvelope(m, t) PROVE IInv'
<1> USE DEF IInv
<1>1. t \in Envelopes /\ t \in Held BY DEF Typed, Held
<1>2. t.recipient = m /\ t.nonce \notin seen[m] BY DEF OpenEnvelope, OpenOutcome
<1>3. t.nonce \in Nat /\ t.nonce \in Nonces
  BY <1>1, PortableAssumption DEF WellSealed, Typed, Nonces, Envelopes
<1>4. processed[t.nonce] = 0 BY <1>1, <1>2, <1>3 DEF SpentIsSeen
<1>5. /\ seen' = [seen EXCEPT ![m] = @ \cup {t.nonce}]
      /\ work' = [work EXCEPT ![m] = [envelope |-> t, answer |-> None]]
      /\ UNCHANGED <<now, clockError, status, media, nonces, receipts, processed>>
  BY DEF OpenEnvelope, Remember
<1>6. [envelope |-> t, answer |-> None] \in OpenWork BY <1>1 DEF OpenWork
<1>7. Typed' BY <1>3, <1>5, <1>6 DEF Typed
<1>8. Held' \subseteq Held \cup {} /\ {} \in SUBSET Envelopes
  BY <1>5, <1>7, HeldShrinks DEF Typed
<1>9. StillJudged /\ now <= now' /\ nonces <= nonces' BY <1>5 DEF StillJudged, Typed
<1>10. \A n \in Machines : seen[n] \subseteq seen'[n] BY <1>5 DEF Typed
<1>11. UNCHANGED <<clockError, processed>> BY <1>5
<1>12. WellSealed' /\ NonceNamesOne' /\ SpentIsSeen' /\ ProcessedOnce'
  BY <1>7, <1>8, <1>9, <1>10, <1>11, SealsStay, SpentStays
<1>13. OpenIsSeen' BY <1>2, <1>5 DEF OpenIsSeen, Typed
<1>14. OpenIsUnspent' BY <1>4, <1>5 DEF OpenIsUnspent, Typed
<1>15. AnswersJudged' BY <1>5 DEF AnswersJudged, Judged, Typed
<1>16. JudgedAtHome' /\ SettledIsJudged' BY <1>5 DEF JudgedAtHome, SettledIsJudged
<1> QED BY <1>7, <1>12, <1>13, <1>14, <1>15, <1>16

\* Acting on an open envelope spends its nonce, and no other open envelope has it.
LEMMA ActSpends ==
  ASSUME IInv, Typed', NEW m \in Machines, work[m] # None, work[m].answer = None,
         processed' = [processed EXCEPT ![work[m].envelope.nonce] = @ + 1],
         UNCHANGED <<media, nonces, seen>>,
         \A n \in Machines \ {m} : work'[n] = work[n],
         work'[m] # None => work'[m].answer # None /\ work'[m].envelope = work[m].envelope
  PROVE  /\ SpentIsSeen' /\ ProcessedOnce' /\ OpenIsUnspent' /\ OpenIsSeen'
         /\ Held' \subseteq Held \cup {}
<1> USE DEF IInv
<1> DEFINE t == work[m].envelope
<1>1. t \in Held BY DEF Held
<1>2. t \in Envelopes BY <1>1, HeldIs
<1>3. t.nonce \in Nonces /\ t.nonce <= nonces /\ nonces \in Nat
  BY <1>1, <1>2, PortableAssumption DEF WellSealed, Typed, Nonces, Envelopes
<1>4. processed[t.nonce] = 0 BY DEF OpenIsUnspent
<1>5. t.recipient = m /\ t.nonce \in seen[m] BY DEF OpenIsSeen
<1>6. Held' \subseteq Held \cup {} BY HeldShrinks
<1>7. \A n \in Nonces \ {t.nonce} : processed'[n] = processed[n] BY DEF Typed
<1>8. processed'[t.nonce] = 1 BY <1>3, <1>4 DEF Typed
<1> HIDE DEF t
<1>9. ProcessedOnce' BY <1>7, <1>8 DEF ProcessedOnce
<1>10. SpentIsSeen'
  <2> SUFFICES ASSUME NEW n \in Nonces, processed'[n] # 0
               PROVE  n <= nonces' /\ \A u \in Held' : u.nonce = n => n \in seen'[u.recipient]
    BY DEF SpentIsSeen
  <2>1. CASE n = t.nonce BY <1>1, <1>3, <1>5, <1>6, <2>1 DEF NonceNamesOne
  <2>2. CASE n # t.nonce BY <1>6, <1>7, <2>2 DEF SpentIsSeen
  <2> QED BY <2>1, <2>2
<1>11. OpenIsUnspent'
  <2> SUFFICES ASSUME NEW n \in Machines, work'[n] # None, work'[n].answer = None
               PROVE  processed'[work'[n].envelope.nonce] = 0
    BY DEF OpenIsUnspent
  <2>1. n # m /\ work'[n] = work[n] OBVIOUS
  <2>2. work[n].envelope \in Held BY <2>1 DEF Held
  <2>3. work[n].envelope \in Envelopes BY <2>2, HeldIs
  <2>4. work[n].envelope.nonce \in Nonces
    BY <2>2, <2>3, PortableAssumption DEF WellSealed, Typed, Nonces, Envelopes
  <2>5. work[n].envelope.recipient = n BY <2>1 DEF OpenIsSeen
  <2>6. work[n].envelope.nonce # t.nonce BY <1>1, <1>5, <2>1, <2>2, <2>5 DEF NonceNamesOne
  <2> QED BY <1>7, <2>1, <2>4, <2>6 DEF OpenIsUnspent
<1>12. OpenIsSeen' BY <1>5 DEF OpenIsSeen, t
<1> QED BY <1>6, <1>9, <1>10, <1>11, <1>12

\* An import judges what is its own, and answers with what it has judged.
LEMMA ImportStep ==
  ASSUME IInv, NEW c \in Centrals, Import(c) PROVE IInv'
<1> USE DEF IInv
<1> DEFINE t == work[c].envelope
           new == {e \in DOMAIN t.payload : receipts[c][e] = None}
<1>1. c \in Machines /\ c # Station BY PortableAssumption DEF Machines
<1>2. work[c] # None /\ work[c] \in OpenWork /\ work[c].answer = None BY <1>1 DEF Import, Typed
<1>3. t \in Held BY <1>1, <1>2 DEF Held
<1>4. t \in Envelopes /\ t.recipient = c BY <1>1, <1>2, <1>3, HeldIs DEF OpenIsSeen
<1>5. ToCentral(t) BY <1>1, <1>3, <1>4 DEF WellSealed, ToStation
<1>6. DOMAIN t.payload \in SUBSET Events BY <1>4 DEF Envelopes, Payloads
<1>7. \A e \in DOMAIN t.payload : Home[e] = c BY <1>4, <1>5 DEF ToCentral
<1>8. PICK verdict \in [new -> Statuses] :
        /\ receipts' = [receipts EXCEPT ![c] =
                          [e \in Events |-> IF e \in new THEN verdict[e] ELSE @[e]]]
        /\ work' = [work EXCEPT ![c].answer =
                      [e \in DOMAIN t.payload |-> IF e \in new THEN verdict[e] ELSE DuplicateStatus]]
  BY DEF Import
<1> DEFINE answer == [e \in DOMAIN t.payload |-> IF e \in new THEN verdict[e] ELSE DuplicateStatus]
<1>9. answer \in [DOMAIN t.payload -> Statuses] BY DEF DuplicateStatus, Statuses
<1>10. answer \in Payloads BY <1>6, <1>9 DEF Payloads
<1>11. /\ processed' = [processed EXCEPT ![t.nonce] = @ + 1]
       /\ UNCHANGED <<now, clockError, status, media, nonces, seen>>
  BY DEF Import
<1>12. /\ \A e \in Events : receipts'[c][e] = IF e \in new THEN verdict[e] ELSE receipts[c][e]
       /\ \A d \in Centrals \ {c} : receipts'[d] = receipts[d]
  BY <1>8 DEF Typed
<1>13. receipts' \in [Centrals -> [Events -> Statuses \cup {None}]] BY <1>8 DEF Typed
<1>14. /\ work'[c] = [work[c] EXCEPT !.answer = answer]
       /\ \A n \in Machines \ {c} : work'[n] = work[n]
  BY <1>1, <1>8 DEF Typed
<1>15. work'[c] \in OpenWork /\ work'[c].answer = answer /\ work'[c].envelope = t
  BY <1>2, <1>10, <1>14 DEF OpenWork
<1>16. \A e \in DOMAIN t.payload : answer[e] \in Statuses /\ receipts'[Home[e]][e] # None
  BY <1>6, <1>7, <1>9, <1>12, NoneAssumption
<1>17. StillJudged BY <1>12, NoneAssumption DEF StillJudged
<1>18. JudgedAtHome' BY <1>7, <1>12 DEF JudgedAtHome
<1>19. t.nonce \in Nonces BY <1>3, <1>4, PortableAssumption DEF WellSealed, Typed, Nonces, Envelopes
<1>20. DOMAIN answer = DOMAIN t.payload OBVIOUS
<1>21. answer # None BY <1>10, NoneAssumption
<1> HIDE DEF new, answer
<1>22. Typed'
  <2>1. processed' \in [Nonces -> Nat] BY <1>11, <1>19 DEF Typed
  <2>2. work' \in [Machines -> OpenWork \cup {None}] BY <1>8, <1>14, <1>15 DEF Typed
  <2> QED BY <1>11, <1>13, <2>1, <2>2 DEF Typed
<1>23. /\ SpentIsSeen' /\ ProcessedOnce' /\ OpenIsUnspent' /\ OpenIsSeen'
       /\ Held' \subseteq Held \cup {}
  BY <1>1, <1>2, <1>11, <1>14, <1>15, <1>21, <1>22, ActSpends
<1>24. now <= now' /\ nonces <= nonces' /\ UNCHANGED clockError /\ {} \in SUBSET Envelopes
  BY <1>11 DEF Typed
<1>25. WellSealed' /\ NonceNamesOne' BY <1>17, <1>22, <1>23, <1>24, SealsStay
<1>26. AnswersJudged'
  <2> SUFFICES ASSUME NEW n \in Machines, work'[n] # None, work'[n].answer # None
               PROVE  /\ n \in Centrals
                      /\ \A e \in DOMAIN work'[n].answer :
                           work'[n].answer[e] \in Statuses /\ receipts'[Home[e]][e] # None
    BY DEF AnswersJudged, Judged
  <2>1. CASE n = c BY <1>15, <1>16, <1>20, <2>1
  <2>2. CASE n # c
    <3>1. work'[n] = work[n] /\ work[n] \in OpenWork BY <1>14, <2>2 DEF Typed
    <3>2. work[n].answer \in Payloads BY <3>1 DEF OpenWork
    <3>3. n \in Centrals /\ Judged(work[n].answer) BY <3>1 DEF AnswersJudged
    <3>4. \A e \in DOMAIN work[n].answer : e \in Events BY <3>2 DEF Payloads
    <3>5. \A e \in DOMAIN work[n].answer : receipts'[Home[e]][e] # None
      BY <1>17, <3>3, <3>4, PortableAssumption DEF Judged, StillJudged
    <3> QED BY <3>1, <3>3, <3>5 DEF Judged
  <2> QED BY <2>1, <2>2
<1>27. SettledIsJudged'
  BY <1>11, <1>17, PortableAssumption DEF SettledIsJudged, StillJudged
<1> QED BY <1>18, <1>22, <1>23, <1>25, <1>26, <1>27

\* The station takes over what the sender of the acknowledgements has judged.
LEMMA SettleStep ==
  ASSUME IInv, Settle PROVE IInv'
<1> USE DEF IInv
<1> DEFINE t == work[Station].envelope
<1>1. Station \in Machines /\ Station \notin Centrals BY PortableAssumption DEF Machines
<1>2. work[Station] # None /\ work[Station] \in OpenWork /\ work[Station].answer = None
  BY <1>1 DEF Settle, Typed, AnswersJudged
<1>3. t \in Held BY <1>1, <1>2 DEF Held
<1>4. t \in Envelopes /\ t.recipient = Station BY <1>1, <1>2, <1>3, HeldIs DEF OpenIsSeen
<1>5. Judged(t.payload) BY <1>1, <1>3, <1>4 DEF WellSealed, ToCentral, ToStation
<1>6. t.nonce \in Nonces BY <1>3, <1>4, PortableAssumption DEF WellSealed, Typed, Nonces, Envelopes
<1>7. /\ status' = [e \in Events |-> IF e \in DOMAIN t.payload THEN t.payload[e] ELSE status[e]]
      /\ processed' = [processed EXCEPT ![t.nonce] = @ + 1]
      /\ work' = [work EXCEPT ![Station] = None]
      /\ UNCHANGED <<now, clockError, media, nonces, seen, receipts>>
  BY DEF Settle
<1>8. \A m \in Machines \ {Station} : work'[m] = work[m] BY <1>7 DEF Typed
<1>9. work'[Station] = None BY <1>1, <1>7 DEF Typed
<1>10. \A e \in DOMAIN t.payload : t.payload[e] \in Statuses BY <1>5 DEF Judged
<1>11. Typed'
  <2>1. status' \in [Events -> {"PENDING"} \cup Statuses] BY <1>7, <1>10 DEF Typed
  <2>2. processed' \in [Nonces -> Nat] BY <1>6, <1>7 DEF Typed
  <2> QED BY <1>7, <2>1, <2>2 DEF Typed
<1>12. StillJudged /\ now <= now' /\ nonces <= nonces' /\ UNCHANGED clockError /\ {} \in SUBSET Envelopes
  BY <1>7 DEF StillJudged, Typed
<1>13. /\ SpentIsSeen' /\ ProcessedOnce' /\ OpenIsUnspent' /\ OpenIsSeen'
       /\ Held' \subseteq Held \cup {}
  BY <1>1, <1>2, <1>7, <1>8, <1>9, <1>11, ActSpends
<1>14. WellSealed' /\ NonceNamesOne' BY <1>11, <1>12, <1>13, SealsStay
<1>15. AnswersJudged' BY <1>7, <1>8, <1>9 DEF AnswersJudged, Judged
<1>16. JudgedAtHome' BY <1>7 DEF JudgedAtHome
<1>17. SettledIsJudged' BY <1>5, <1>7 DEF SettledIsJudged, Judged
<1> QED BY <1>11, <1>13, <1>14, <1>15, <1>16, <1>17
LEMMA IInvStep == IInv /\ [Next]_vars => IInv'
<1> SUFFICES ASSUME IInv, [Next]_vars PROVE IInv'
  OBVIOUS
<1> USE DEF IInv
<1>1. CASE Tick
  <2>1. now \in Nat /\ now' = now + 1 BY <1>1 DEF Tick, Typed
  <2>2. Typed' /\ now <= now' BY <1>1, <2>1 DEF Tick, Typed
  <2> QED BY <1>1, <2>2, WorldStep DEF Tick
<1>2. ASSUME NEW c \in Centrals, GiveUp(c) PROVE IInv'
  <2>1. Typed' /\ now <= now' BY <1>2 DEF GiveUp, Typed
  <2> QED BY <1>2, <2>1, WorldStep DEF GiveUp
<1>3. ASSUME NEW t \in media, Lose(t) PROVE IInv'
  <2>1. Typed' /\ now <= now' BY <1>3 DEF Lose, Typed
  <2> QED BY <1>3, <2>1, WorldStep DEF Lose
<1>4. ASSUME NEW m \in Machines, Stop(m) PROVE IInv'
  <2>1. Typed' /\ now <= now' BY <1>4 DEF Stop, Typed
  <2>2. \A n \in Machines : work'[n] \in {work[n], None} BY <1>4 DEF Stop, Typed
  <2> QED BY <1>4, <2>1, <2>2, WorldStep DEF Stop
<1>5. CASE UNCHANGED vars
  <2>1. Typed' /\ now <= now' BY <1>5 DEF vars, Typed
  <2> QED BY <1>5, <2>1, WorldStep DEF vars
<1> QED
  BY <1>1, <1>2, <1>3, <1>4, <1>5, ExportStep, AcknowledgeStep, OpenStep, ImportStep, SettleStep
     DEF Next

LEMMA IInvHolds == Spec => []IInv
BY IInvInit, IInvStep, PTL DEF Spec

-----------------------------------------------------------------------------
(* The promises *)

\* Replay protection (the nonce and seen_nonces of open_envelope): whatever is
\* copied, carried twice, lost or cut off, no envelope is acted on twice.
THEOREM NoReplay == Spec => []ProcessedOnce
<1>1. IInv => ProcessedOnce BY DEF IInv
<1> QED BY <1>1, IInvHolds, PTL

\* Recipient binding (expected_recipient of open_envelope): with any number of
\* Centrals under one key, none judges an event that is not its own.
THEOREM BoundToRecipient == Spec => []JudgedAtHome
<1>1. IInv => JudgedAtHome BY DEF IInv
<1> QED BY <1>1, IInvHolds, PTL

\* The same sync service answers by envelope: what the station shows as settled
\* its Central has judged, wherever an import or an acknowledgement is cut off.
THEOREM SettledWasJudged == Spec => []SettledIsJudged
<1>1. IInv => SettledIsJudged BY DEF IInv
<1> QED BY <1>1, IInvHolds, PTL

\* An envelope that decrypts is no older than the time to live and the error of
\* the one clock that can be wrong.
LEMMA DecryptsFresh ==
  ASSUME IInv, NEW m \in Machines, NEW t \in media, OpenOutcome(m, t) = "opened"
  PROVE  LET slack == IF m = Station THEN 0 - clockError ELSE clockError
         IN now - t.sealedAt \in 0..(Ttl + slack)
<1> USE DEF IInv
<1>1. t \in Envelopes /\ t \in Held BY DEF Typed, Held
<1>2. Decrypts(m, t) /\ t.recipient = m BY DEF OpenOutcome
<1>3. /\ now \in Nat /\ clockError \in Int /\ Ttl \in Nat
      /\ t.sealedAt \in Nat /\ t.stamp \in Int /\ t.sealedAt <= now
  BY <1>1, PortableAssumption DEF Typed, Envelopes, WellSealed
<1>4. t.stamp + Ttl >= Clock(m) BY <1>2 DEF Decrypts
<1>5. CASE m = Station
  <2>1. t.stamp = t.sealedAt
    BY <1>1, <1>2, <1>5, PortableAssumption DEF WellSealed, ToCentral, ToStation
  <2> QED BY <1>3, <1>4, <1>5, <2>1 DEF Clock
<1>6. CASE m # Station
  <2>1. t.stamp = t.sealedAt + clockError
    BY <1>1, <1>2, <1>6 DEF WellSealed, ToCentral, ToStation
  <2> QED BY <1>3, <1>4, <1>6, <2>1 DEF Clock
<1> QED BY <1>5, <1>6

\* Only open_envelope opens.
LEMMA OnlyOpenOpens ==
  ASSUME IInv, Next, NEW m \in Machines, work[m] = None, work'[m] # None
  PROVE  \E t \in media : /\ OpenOutcome(m, t) = "opened"
                          /\ work'[m] = [envelope |-> t, answer |-> None]
<1> USE DEF IInv, Typed
<1>1. ASSUME NEW n \in Machines, NEW t \in media, OpenEnvelope(n, t)
      PROVE  m = n /\ OpenOutcome(m, t) = "opened" /\ work'[m] = [envelope |-> t, answer |-> None]
  BY <1>1 DEF OpenEnvelope
<1>2. ~Tick /\ ~\E t \in media : Lose(t) BY DEF Tick, Lose
<1>3. ~Settle BY DEF Settle
<1>4. ASSUME NEW c \in Centrals, Export(c) \/ GiveUp(c) \/ Import(c) \/ Acknowledge(c) PROVE FALSE
  BY <1>4 DEF Export, GiveUp, Import, Acknowledge
<1>5. ~\E n \in Machines : Stop(n) BY DEF Stop
<1> QED BY <1>1, <1>2, <1>3, <1>4, <1>5 DEF Next

\* Expiry (ttl_seconds of open_envelope): what is opened was sealed, by true
\* time, within the time to live, give or take the error of the station's clock,
\* and never ahead of now.
THEOREM ExpiryHolds == Spec => OpenedFresh
<1>1. IInv /\ [Next]_vars =>
        [\A m \in Machines : work[m] = None /\ work'[m] # None =>
           LET slack == IF m = Station THEN 0 - clockError ELSE clockError
           IN now - work'[m].envelope.sealedAt \in 0..(Ttl + slack)]_vars
  <2> SUFFICES ASSUME IInv, Next, NEW m \in Machines, work[m] = None, work'[m] # None
               PROVE  LET slack == IF m = Station THEN 0 - clockError ELSE clockError
                      IN now - work'[m].envelope.sealedAt \in 0..(Ttl + slack)
    OBVIOUS
  <2>1. PICK t \in media : OpenOutcome(m, t) = "opened" /\ work'[m] = [envelope |-> t, answer |-> None]
    BY OnlyOpenOpens
  <2>2. work'[m].envelope = t BY <2>1
  <2> QED BY <2>1, <2>2, DecryptsFresh
<1> QED BY <1>1, IInvHolds, PTL DEF Spec, OpenedFresh
-----------------------------------------------------------------------------
(***************************************************************************)
(* A different transport, never different logic: the Centrals together     *)
(* keep the ledger that the batch engine keeps over HTTPS.  An event has   *)
(* the judgement of any Central that has judged it, and was applied by as  *)
(* many Centrals as accepted it.                                           *)
(***************************************************************************)
JudgedBy(e)   == {c \in Centrals : receipts[c][e] # None}
AcceptedBy(e) == {c \in Centrals : receipts[c][e] = "ACCEPTED"}

Ledger == INSTANCE EventLedger WITH
  EventIds <- Events,
  verdict  <- [e \in Events |-> IF JudgedBy(e) = {} THEN "undecided"
                                ELSE receipts[CHOOSE c \in JudgedBy(e) : TRUE][e]],
  applied  <- [e \in Events |-> Cardinality(AcceptedBy(e))]

SameLedger == Ledger!Spec

\* What the ledger shows of an event, by the one Central that may judge it.
Verdict(e) == IF receipts[Home[e]][e] = None THEN "undecided" ELSE receipts[Home[e]][e]
Applied(e) == IF receipts[Home[e]][e] = "ACCEPTED" THEN 1 ELSE 0

Shown ==
  \A e \in Events :
    /\ (IF JudgedBy(e) = {} THEN "undecided"
        ELSE receipts[CHOOSE c \in JudgedBy(e) : TRUE][e]) = Verdict(e)
    /\ Cardinality(AcceptedBy(e)) = Applied(e)
    /\ Verdict(e) \in {"ACCEPTED", "REJECTED", "undecided"}

LEMMA OneJudge == IInv => Shown
<1> SUFFICES ASSUME IInv, NEW e \in Events
             PROVE  /\ (IF JudgedBy(e) = {} THEN "undecided"
                        ELSE receipts[CHOOSE c \in JudgedBy(e) : TRUE][e]) = Verdict(e)
                    /\ Cardinality(AcceptedBy(e)) = Applied(e)
                    /\ Verdict(e) \in {"ACCEPTED", "REJECTED", "undecided"}
  BY DEF Shown
<1>1. Home[e] \in Centrals /\ None \notin Statuses BY PortableAssumption, NoneAssumption
<1>2. JudgedBy(e) = IF receipts[Home[e]][e] = None THEN {} ELSE {Home[e]}
  BY <1>1 DEF IInv, JudgedAtHome, JudgedBy
<1>3. AcceptedBy(e) = IF receipts[Home[e]][e] = "ACCEPTED" THEN {Home[e]} ELSE {}
  BY <1>1 DEF IInv, JudgedAtHome, AcceptedBy, Statuses
<1>4. receipts[Home[e]][e] \in Statuses \cup {None} BY <1>1 DEF IInv, Typed
<1>5. Cardinality(AcceptedBy(e)) = Applied(e)
  BY <1>3, FS_EmptySet, FS_Singleton DEF Applied
<1> QED BY <1>2, <1>4, <1>5 DEF Verdict, Statuses

LEMMA LedgerInit == Init => Ledger!Init
<1> SUFFICES ASSUME Init PROVE Ledger!Init
  OBVIOUS
<1>1. IInv BY IInvInit
<1>2. \A e \in Events : receipts[Home[e]][e] = None BY PortableAssumption DEF Init
<1>3. \A e \in Events : Verdict(e) = "undecided" /\ Applied(e) = 0
  BY <1>2, NoneAssumption DEF Verdict, Applied, Statuses
<1> QED
  BY <1>1, <1>3, OneJudge DEF Shown, Ledger!Init, Ledger!Verdicts, Ledger!Landed, Ledger!Refused, Ledger!Open

\* An import is one commit of the ledger, and nothing else touches it.
LEMMA LedgerStep == IInv /\ [Next]_vars => [Ledger!Next]_(Ledger!ledgerVars)
<1> SUFFICES ASSUME IInv, [Next]_vars PROVE [Ledger!Next]_(Ledger!ledgerVars)
  OBVIOUS
<1>1. Shown /\ Shown'
  <2>1. IInv' BY IInvStep
  <2>2. IInv' => Shown' BY OneJudge, PTL
  <2> QED BY <2>1, <2>2, OneJudge
<1>2. CASE UNCHANGED receipts
  BY <1>2 DEF Ledger!ledgerVars, JudgedBy, AcceptedBy
<1>3. ASSUME NEW c \in Centrals, Import(c) PROVE Ledger!Next
  <2> DEFINE t == work[c].envelope
             new == {e \in DOMAIN t.payload : receipts[c][e] = None}
  <2>1. PICK verdict \in [new -> Statuses] :
          receipts' = [receipts EXCEPT ![c] =
                        [e \in Events |-> IF e \in new THEN verdict[e] ELSE @[e]]]
    BY <1>3 DEF Import
  <2>2. c \in Machines /\ c # Station /\ work[c] \in OpenWork /\ work[c] # None
    BY <1>3, PortableAssumption DEF Machines, Import, IInv, Typed
  <2>3. t \in Held /\ t \in Envelopes /\ t.recipient = c
    BY <2>2, HeldIs DEF Held, IInv, OpenIsSeen
  <2>4. new \in SUBSET Events BY <2>3 DEF Envelopes, Payloads
  <2>5. \A e \in new : Home[e] = c
    BY <2>2, <2>3 DEF IInv, WellSealed, ToCentral, ToStation
  <2>6. \A e \in Events : receipts'[Home[e]][e] = IF e \in new THEN verdict[e] ELSE receipts[Home[e]][e]
    BY <2>1, <2>4, <2>5, PortableAssumption DEF IInv, Typed
  <2>7. \A e \in new : receipts[Home[e]][e] = None BY <2>5
  <2> HIDE DEF new
  <2>8. \A e \in Events : /\ e \in new => Verdict(e) = "undecided"
                          /\ Verdict(e)' = IF e \in new THEN verdict[e] ELSE Verdict(e)
                          /\ Applied(e)' = IF e \in new /\ verdict[e] = "ACCEPTED"
                                           THEN Applied(e) + 1 ELSE Applied(e)
    BY <2>6, <2>7, NoneAssumption DEF Verdict, Applied, Statuses
  <2>9. Ledger!Judge(verdict)
    BY <1>1, <2>4, <2>8 DEF Shown, Ledger!Judge, Ledger!Open, Ledger!Landed
  <2> QED BY <2>4, <2>9 DEF Ledger!Next, Ledger!Verdicts, Ledger!Landed, Ledger!Refused, Statuses
<1> QED
  BY <1>2, <1>3 DEF Next, Tick, Settle, Export, GiveUp, Acknowledge, OpenEnvelope, Lose, Stop, vars

\* The portable exchange implements the ledger: over any number of Centrals an
\* event is judged once, for good, and applied by exactly one Central if accepted.
THEOREM LedgerByEnvelope == Spec => SameLedger
<1> QED BY LedgerInit, LedgerStep, IInvHolds, PTL DEF Spec, SameLedger, Ledger!Spec
=============================================================================
