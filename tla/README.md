# lazeims-common, specified

`lazeims-common` is the library that two Central servers (`lazeims-core` and
`backend-sis`) and the offline marking stations share: the rules by which marks
are validated, the engine that takes a station's events in, the rules that decide
between conflicting writes, the digests by which two sides find out whether they
hold the same data, and the contracts they exchange. This directory is its
verification development in TLA+: modules that model the parts that change state
or decide something, TLC configurations that check them on small instances, and
theorems proved with TLAPS for instances of any size.

`PROJECT.json` is the index: components, runs, the mutant that each property
catches, the source lines of each definition, findings, hazards, and theorems.

    tlc -workers 2 -config MCSyncIntake.cfg MCSyncIntake
    tlapm SyncIntakeProofs.tla

## 1. Inventory

Paths are below `src/lazeims_common/`.

| Part | State it keeps | Operations | Interacts with |
|---|---|---|---|
| Batch intake engine, `central/sync.py` | the request's lists `accepted`, `duplicates`, `rejected`; through callbacks: receipts by `event_id`, the rows of marks, a savepoint | `process_sync_batch`: per event `get_receipt`, `gate`, `savepoint`, `apply_event`, `put_receipt`, commit or rollback of the savepoint | awaits callbacks of its Central; is called by HTTPS intake and by the portable import; answers a station |
| Write-conflict rules, `central/conflict.py` | none; judge a stored write (station, local version, corrected time, value hash) and the row beside it | `skew_seconds`, `normalize_occurred_at`, `decide` | called in `apply_event`; times come from stations' clocks in `SyncRequest` |
| Marks, attendance, scoring, scope, `validation/` | none; their callers keep attendance rows, marks, incidents, finalized scopes | `effective_attendance`, `validate_paper_config`, `validate_marks_submission`, `compute_paper_total`, `evaluate_scope_completeness` | both Central and the station run the same rules |
| Collection digest, `exametrics_digest.py` | none | canonical form, digest, `chunk_payload`, `merge_chunks`, `chunk_manifest` | Central builds, ExaMetrics verifies, over the upload contract of `schemas/exametrics.py` |
| ExaMetrics contracts, `schemas/exametrics.py`, `fixtures/` | upload sessions and processing requests live at ExaMetrics | message shapes: session start, chunk, complete; quote, approval, run; webhooks | Central and ExaMetrics |
| Portable exchange, `portable.py` | the caller's set of nonces | `seal`, `open_envelope` | carries events and acknowledgements when there is no network |
| Station sync contract, `schemas/station_sync.py` | none | `SyncRequest`, `SyncResponse`, `SnapshotResponse` | station and Central |
| Package preparation, `central/package.py`, `schemas/station_package.py` | none; issued packages, their versions and the seed are Central's | `compute_package_id`, `compute_configuration_hash`, `new_machine_credential`, `build_manifest`, `assemble_bundle`, `build_package_zip` | signs through `signing.py`, hashes through `hashing.py`; the station verifies and imports |
| Signing, `signing.py` | the two keys a process has cached (`signing.py:51`, 65) | `get_signing_private_key`, `get_public_key_pem`, `sign_data`, `verify_signature` | a key file that is replaced while processes run; a PEM in the station's software |
| Reconciliation digest, `reconcile.py` | none; a station and a Central keep rows in representations of their own | record normalisation, `scope_digest`, counts, `reconcile` | station against Central per scope; `central_digest` of a snapshot |
| Hashing, natural keys, enums, errors | none | pure | everybody |

What is hard here, and where no unit test reaches:

* **Interleaving.** `process_sync_batch` is a coroutine. A request that a station
  gave up on keeps running beside its retry, over the same events, in transactions
  that see each other's work only when they commit.
* **Failure in the middle.** A savepoint per event inside a transaction per batch;
  an answer lost after the commit; an envelope whose nonce is spent on a machine
  that stopped before acting on it.
* **Order without clocks.** Stations are offline for hours, under clocks that are
  wrong; entries arrive late, twice and in any order, at several Centrals, beside
  corrections made by hand.
* **Long legal sequences.** Attendance, marks, incidents and finalization come in
  any order; what a finalized scope promises is a property of all of them.
* **Data that changes meanwhile.** Chunks are resent from fresh queries; packages
  are prepared from tables that others edit, by workers that took the same version.
* **One batch, many rules.** The events of a batch rest on one another (marks on
  attendance, finalization on both), and each is gated, judged and answered alone.
* **Keys that outlive their file.** Each worker signs with the key it loaded first.
* **Numeric edges.** Best N of M, ties, zeros, values that are no numbers.

The hazards, line by line, with the properties that watch over them or the reason
why none does, are in `PROJECT.json`.

## 2. Modules

| Module | Models |
|---|---|
| `EventLedger` | what the engine promises: each event judged once, for good, its writes committed with the judgement |
| `SyncIntake` | `process_sync_batch` between an outbox and a database |
| `Conflict` | the functions of `conflict.py` |
| `PaperWrites` | what those functions add up to: stations, clocks, Centrals, corrections |
| `MarksRules` | the functions of `validation/` |
| `PaperScope` | one scope under those functions, from configuration to finalization |
| `Collection` | the functions of `exametrics_digest.py` |
| `CollectionUpload` | the resumable upload they are for |
| `PortableExchange` | envelopes carried by hand |
| `Reconcile` | the functions of `reconcile.py` |
| `ScopeSync` | composition: one scope at a station and at its Central, each a `PaperScope`, and the engine's batches between them |
| `StationPackage` | packages prepared, signed and imported, with workers, key files and changing tables |
| `ScopeReconcile` | a scope at a station and at its Central, digests and snapshots between them |
| `MC...` | values, symmetry and sets for TLC |
| `...Proofs` | theorems about the module of that name |
| `ScopeProofs` | theorems about `MarksRules`, `PaperScope` and `ScopeSync` |
| `OrderTheorems` | what several proofs need: least elements, induction, the ranks of a total order |

`Conflict`, `MarksRules`, `Collection` and `Reconcile` are operators; `PaperWrites`,
`PaperScope`, `ScopeSync`, `CollectionUpload` and `ScopeReconcile` are the state machines that
call them, as the code's callers do. An operator or action under a comment that starts with
"Mistake:" is a plausible bug: no specification uses it, and put in the place of
its correct neighbour it breaks the property it is listed with.

### SyncIntake

One action per `await` of the loop body, because that is where another request may
run: `Dedupe` (`get_receipt`), `Gate`, `Savepoint`, `Apply` and `ApplyRejects`
(`apply_event` returning, or raising `SyncRejected` before or after it wrote
something), `PutAccepted`, `Release` (`sp.commit`), `Rollback`, `PutRejected`, and
`Fail` for any other exception out of any of them. `txn[s]` is what request `s`
has written and not committed, `saved[s]` is `txn[s]` at its savepoint, and
`receipts` and `applied` are what is committed.

External, from how the engine uses them: `Commit` (the Central commits after the
engine has returned), a unique key on `event_id` whose second insert waits for the
first transaction and fails after its commit or when the database ends a deadlock
(`ReceiptFree`, `PutFails`), the station (`Send`, `Timeout`, `Deliver`, `Requeue`,
`Reissue`), the network (`LoseAnswer`). A batch is the *set* of events still to be
processed: every order of the list is covered, and nothing in the engine depends
on it as long as `apply_event` may accept or reject anything.

### Conflict and PaperWrites

`now` is true time. A station's clock is wrong by a constant, until someone sets
it; an entry carries the next `local_version` and the station's time; a request
carries the station's time of sending and is processed at most `MaxTransit` later.
`Receive` is the whole of `apply_event` for one entry: measure the skew, correct
the time, `Decide` against the stored write and the row, write both or neither.
`CentralEdit` changes the row and not the stored write, as the UI does.

The fields `typedAt`, `received` and `edited` are there for the properties; no
rule reads them.

### MarksRules and PaperScope

The rules are translated function by function, in the order in which they report
errors. Marks are integers, plus `None` (null), `Junk` (no number) and
`NotANumber` (NaN, which `Decimal` accepts). The caller is external. Of it we take
what the code's own comments say: it writes what the rules accept, a finalized
scope takes no more writes, and the finalize check reads and writes in one
transaction. The filling mode, which callers pass beside the configuration, is a
field of the configuration here. "Its pick_count highest scores" are said by rank:
a question counts if fewer than pick_count of its group stand before it in the order
that `compute_paper_total` sorts by, a higher score or an equal one further up on the
paper (`Ahead`, `Best`). A set of answers to be marked is a set of places on the paper
(`Marked`).

### ScopeSync

The station's scope is `PaperScope`'s own variables, the Central's is the instance
`Central` of the same module, because both call the same rules. What the station
stores it records as an event (`Enter`), in the order of its outbox; `past` keeps,
for the properties, its scope after each event. Batches of at most `MaxBatch`
events leave in order (`Send`); a request is the *set* of places in the outbox that
it carries, because it keeps their order. A request may be given up (`Timeout`) and arrive
later or never; the next one then carries the same events, of which the Central
has seen some. The Central asks the rules about its own tables and stores the
result as a station does (`LandMarks`, `PaperScope`'s `StoreResult`).
`Begin`, the judgements `Duplicate`, `Refuse`, `Accept`, `Reject`
(one event of the loop each: dedupe, gate, `apply_event`, and what it raises) and
`Answer` are one run of `process_sync_batch`; `Fail` rolls the tables and the
receipts back to `before`. The gate moves at any time, also between two events.
`SyncIntake` has what this module leaves out: two requests in the engine at once,
and every await of one event.

`torn` marks that the gate *opened* while a batch was in the engine. That is the
one case in which a Central rejects for good what a station could store: an
attendance is refused without a receipt, the exam is reopened, and the marks that
follow in the same batch are judged without it, rejected with
`ATTENDANCE_REQUIRED_FIRST`, and given a receipt. The note in `sync.py:117` says
what a temporary refusal must not do: "the marks would be lost in silence"; here
they are not silent, but they are `REJECTED`, and have to be entered again.

### StationPackage

`Prepare` is what a Central's worker reads when it begins: the version it takes and
the seed. `Issue` is `compute_configuration_hash` to `build_package_zip` and loads
the signing key if the process has none; `KeyUnavailable` is the file that cannot
be read, which nothing caches. `Release` puts `get_public_key_pem` of a worker into
a station's software. `SigningPrivateKey` and `SigningPublicKey` have the two
caches; a worker is one thread. A seed is a dict of which only the keys and their
kind matter, and its canonical text the order of the entries: `sort_keys` sorts
numbers as numbers and writes them as text (`Place`), and the n-th entry is the one
with n - 1 before it. `Configure`, `Rotate`, `Restart` and `ChangeSeed` are the
deployment and the people at the tables. `ImportOutcome` is the station's, with the
checks that `package.py` names (lines 125 and 286). `assemble_bundle` takes a manifest
and a seed and compares nothing; so does `Bundle`, and its caller in `Issue` bundles
the seed it hashed or the one it finds by then. Assumed of that caller: a credential
of its own for each bundle, and the version that `Prepare` took. A bundle's `from`
(the seed that was hashed) and `by` are there for the properties.

### Collection and CollectionUpload

The digest is the canonical form itself (SHA-256 is taken to be injective). Sorting
is said by rank, as in `MarksRules`: place n is for the row with n - 1 ahead of it.
`chunk_payload` draws row after row; of the i-th collection, `RowsDrawn` are among
the first so many of the payload, and a chunk holds those between two multiples of
the limit. A payload is queried in any order, with nulls omitted or explicit. Of the
data we take (`WellKept`) that a natural key has one row, and that schools, subjects
and students that rows refer to are there.
`Start`, `Resume`, `Send`, `Deliver`, `Complete` and `Expire` are the upload session.
No code here runs one: `schemas/exametrics.py` (section 7.2) has its messages, and the
server and the uploader are external, modelled from what these say. `held` is the
state of the data that Central last queried: it may lose it and query again
(`Resume`), so that chunks of two states can meet in one session.

### PortableExchange

`Seal` gives every envelope a nonce of its own and a stamp of the sealer's clock.
`OpenOutcome` is `open_envelope` up to its result, `Decrypts` Fernet's test of the
stamp in both directions. `OpenEnvelope` records the nonce and hands the payload
to a caller, who acts on it in a later step or stops before that (`Stop`). The
medium keeps every envelope until it is lost, so each may be presented any number
of times, at any machine. The caller's nonce set is taken to outlive a restart.
The import behind it judges each event once, as `SyncIntake` shows.

### Reconcile and ScopeReconcile

A number is a sign, a coefficient and a scale, as `Decimal` has it; `NumStr` is
`_numstr`: it drops as many decimals as `PowerOfTen` divides out. The digest is the
ordered list of records (canonical JSON and SHA-256 taken to be injective); the
order is given by rank, the number of records ahead. What either side holds is a
function of the students with data. Records are built in any order, numbers are
entered in several ways to write them, Central's column has one scale and one zero,
and a snapshot carries totals as floats. What is entered fits the column
(`EntriesAssumption`); the 28 digits to which `normalize` rounds are not modelled.
`Ask` and `Compare` are apart, as are `TakeSnapshot` and `Restore`: entries,
corrections and a reinstallation happen in between. What a station does with a
snapshot is external: it takes every row for which it has nothing to send itself. Row
versions, which no code in `src` reads, are left out.

## 3. Runs

| Run | Configuration | Shows |
|---|---|---|
| `intake` | 2 events (one with a receipt from before hashes were recorded), 2 payloads, 2 concurrent requests, 2 failures, 1 reissue, 1 gate change | `TypeOK`, `AppliedAtMostOnce`, `ReceiptMatchesEffect`, `AnswerIsOnRecord`, `RefusalLeavesNoTrace`, `StationRecordIsTrue`, and the refinement `LedgerKept` |
| `intake_settles` | 2 events in one batch, 2 requests, 1 failure, 1 gate change; fairness | `EverythingSettles`: also two requests that hold each other's receipt keys come to an end |
| `intake_lost_rejection` | 1 event, 1 request, 1 lost answer | *violated*: `AcceptedMeansLanded` (finding 1) |
| `paper_order` | 2 stations with clocks 2 behind or 1 ahead, 2 entries each, 3 instants, 2 Centrals, redelivery | `LatestAuthorshipWins`, `CentralsAgree`, `NoResurrection` |
| `paper_clocks` | a clock 2 ahead that is fixed mid-session, one station without `station_time`, slow transit, 1 correction | `CounterNeedsNoClock`, `CorrectionsAreFlagged` |
| `paper_correction` | 2 stations, right clocks, 1 correction of a stored write | *violated*: `CorrectionSurvivesOlderEntry` (finding 2) |
| `scope` | 2 students, NaN among the totals, a paper by total, two by item with optional groups, five bad configurations | `StoredMarksAreExplicit`, `TotalIsTheBestChoice`, `MarksNeedTheReport`, `FinalizedIsComplete` |
| `sync` | 1 student, a paper by total with marks 0 and 1, incidents of the scope, 4 events, batches of 2, 1 timeout or failed batch, 1 gate change; fairness | `NothingTypedIsRejected`, `CentralIsThePast`, `CentralFinalizedIsComplete`, `EventuallySame` |
| `package` | 2 workers, 1 station, 2 keys and the test key, 2 seeds keyed by numbers (in the order of their digits, and not), bundled as hashed or read again, 2 bundles, 2 versions, 1 restart | `OneProcessOneKey`, `ImportedIfHashed`, `SameIdSamePackage` |
| `upload` | 3 states of the data, of 8 rows in 2 full chunks of 4 or 10 rows in 3 chunks, 2 requests in flight, 1 expiry; fairness | `IngestedIsOneState`, `SameDataVerifies`, `MismatchNamesAChunk`, `ReferencesFirst`, `EventuallyIngested` |
| `portable` | a batch of 2 events for one of 2 Centrals, time to live 2 in 3 instants, clock errors -1, 0, 1, 1 failure; fairness | `ProcessedOnce`, `JudgedAtHome`, `SettledIsJudged`, `OpenedFresh`, `EverythingSettles` |
| `reconcile` | 2 students, by total (absent, no mark, 0, "-0", 10 in two ways, 0.5) and by item, 2 changes on either side, 1 reinstallation; fairness | `VerdictIsTrue`, `RestoredMatches`, `CountsAreOfMarks`, `EventuallyMatched` |

Why these bounds. The conflicts the engine can have are between two requests, over
one event (a retry beside its original) or two (receipt keys taken in opposite
order); a third request repeats one of the two. Two failures let a crash and a lost
answer meet. The conflict rules compare two writes at a time, of the same station
or of two, and two entries each give every order of old, new, own and other. Two
Centrals are what agreement is about. Of optional groups, one of two and two of
three have ties, zeros and full marks above the paper's. Two full chunks have a
first, a last and one boundary, and the last leaves none over; the third state adds a
chunk that is not full. Two changes, at one side or both, come before, between and
after the messages of a reconciliation, and two students give records an order.
Four events are a report, marks, and two of an incident, a correction, a second report or the finalization,
in two batches that may overlap by a retry; a second failure or change of the gate
brings nothing that the first did not. Two bundles are what an id is compared on,
and one restart gives a worker two lives, with a rotation before, between and after. `MaxReissues`,
`MaxToggles`, `MaxEdits`, `MaxExpiries`, `MaxFailures`, `MaxNonces`, `MaxChanges`,
`MaxReinstalls`, `MaxBatch`, `MaxEvents`, `MaxBundles`, `MaxRestarts`, `MaxTime` and
`MaxVersion` are bounds of the models and guard the actions that would count without
end. The proofs hold for every value of them.

Deadlock is checked in the intake runs, in `reconcile` and in `package`. It is off
(`CHECK_DEADLOCK FALSE`) where the system really stops: a finalized scope takes nothing more,
an upload that is done is done, all events of an exchange are settled, and writing ends at the bounds of
`PaperWrites`.

### Fairness

* `SyncIntake`: weak fairness of each request's steps (the event loop resumes a
  coroutine whose await is over; a response that is not lost arrives), of `Send`
  (a station keeps posting what is pending), of `Timeout` once its request is
  gone, and of `Requeue` (a refusal by the gate "may be sent again"). Failures,
  reissues and the gate owe nothing: `EverythingSettles` assumes a gate that is
  open for good in the end.
* `CollectionUpload`: weak fairness of `Start`, `Complete` (written out, see there) and
  of a PUT leaving the network; strong fairness of sending and delivering each missing chunk, because a
  chunk that is sent over and over gets through. Nothing is owed by changes,
  resumption or expiry.
* `PortableExchange`: someone keeps exporting, carrying and opening, and a machine
  deals with what it opened. Loss, stops and early repetition are bounded.
* `ScopeSync`: a station sends what is pending, and a request it still waits for is
  taken up, judged and answered. Nobody has to enter anything or open the gate, a
  request that was given up may never arrive, and `EventuallySame` asks for a gate
  that does not close again and again.
* `ScopeReconcile`: the outbox empties, the station asks and fetches again and
  again, and what it asks is answered. Nothing is owed by people, nor by machines
  that break down; both end at their bounds, and `EventuallyMatched` says what
  follows.

## 4. Theorems

All of them are checked by `tlapm` to the last leaf. They hold for every value of
the constants that the named assumptions allow.

**`SyncIntakeProofs`** (any outbox, any number of concurrent requests, any bounds).
The invariants of the runs are not inductive. `IInv` strengthens them with what
the engine relies on at each await: `CurrentEvent` (a request inside an iteration
has an event that is still to do, and was sent), `UniqueKey` (of all transactions
at most one holds an uncommitted receipt for an event, and only where none is
committed), `EffectsExact` and `TxnExact` (ACCEPTED receipts and writes go
together, in the tables and in each transaction outside the window between
`apply_event` and `put_receipt`), `SavedExact` (the savepoint is the transaction
without the current event), `Quiet` (an idle request holds nothing), `AnswersTrue`
(what is collected agrees with the receipts the request sees), `SentIsHeld` (what
the awaited request carries is what the station holds). From it follow
`AppliedOnce`, `ReceiptsAreExact`, `AnswersAreOnRecord`, `RefusalsLeaveNoTrace`,
`StationRecordsAreTrue`, and `LedgerIsKept`, the refinement of `EventLedger`:
`Commit` is the ledger's `Judge`, every other step stutters.
Assumed: `IntakeAssumption`, `MarkersAssumption` (markers are told apart from data).

**`PaperWritesProofs`** (any stations, Centrals, values, clock errors).
`OneStationNeedsNoClock` needs no assumption about clocks, transit or
corrections; its invariant `BaseInv` says how entries of one station are ordered
and that what is stored was received. `ReplacedMarksStayReplaced` needs an
immediate network (`MaxTransit = 0`) and clocks that are not set
(`ClocksGetFixed = FALSE`); `ClockInv` adds that a stored time is on the Central's
clock up to the station's constant error. `LaterAuthorshipStored` and
`OrderOfArrivalIsIrrelevant` need all stations to send their time as well; of writers
that tie, two Centrals may keep different ones, but of one instant (`CentralsAgree`).
That the first assumption is needed is shown under 5. `NoSilentOverwrite`
needs none of them: while a correction stands, the stored write is the one it
replaced (`EditInv`).

**`ScopeProofs`**, on `PaperScope` (any students, configurations and entries).
`MarksRestOnTheReport`: a result with a total exists only if the effective
attendance is specific and present. `FinalizedStaysComplete`:
`evaluate_scope_completeness` without blockers means what `FinalizedIsComplete`
says, and no step after finalization touches it (`SettledStays`). `NoBlankMarks`
(`StoredMarksAreExplicit`) and `TotalsAreBest` (`TotalIsTheBestChoice`) have the
inductive invariant `StoredInv`: the paper in force was accepted by
`validate_item_configuration`, with what that says of its groups and marks, and each
stored submission is what the rules made of it. Assumed: `ModeAssumption`,
`PaperAssumption`.

The module begins with the rules (any paper, any answers). `BestIsBest` is what
`TotalsAreBest` rests on: no choice of pick_count answers in each group, with all
compulsory ones, is marked higher than the one `compute_paper_total` makes. A choice
with an answer that does not count can give it up for one of the same group that does
and is worth no less, and has one fewer such answer then (`Exchange`); that pick_count
many count, whatever the ties, is `BestAreEnough`. Sums are unfolded by induction over
a set of numbers (`Induct` of `OrderTheorems`, from the library's well-founded ordering of
finite sets), which needs no operator as a parameter.

**`ScopeProofs`**, on `ScopeSync` (any scope, batch size, number of events, failures,
changes of the gate). `CentralFinalizesComplete`: the Central's tables move by steps
of `PaperScope`, for which `NoBlockersMeansSettled` is stated of any scope
(`ApplySettled`), or by a rollback. That is why the invariant `SettledInv` also says
it of `before`, the state a rollback brings back. Assumed: `ModeAssumption`.

The other two theorems are about following. `SharedRulesAgree`
(`NothingTypedIsRejected`) and `CentralTrails` (`CentralIsThePast`) rest on the
inductive invariant `FollowInv`. `History`: each scope in `past` follows from the one
before by the event between them (`Follows`), and `Follows` is a function of the scope
it starts from. `CentralFollows`, as long as `torn` is false: receipts and tables of
the Central are those of the first n events, and so are those a rollback would
restore (`Front`); whatever precedes an event of a request under way, in the engine
or outside, is in the request or judged (`InOrder`); what the station or an answer
takes for settled has a receipt. So, with the gate open, the event being judged is
event n + 1, its Central is in the scope the station stored it in, and the same rules
accept it (`NextInLine`, `AcceptFollows`, `NoRejection`); with the gate
closed nothing moves. That `InOrder` is asked only while the gate is open is what
makes `torn` necessary. Assumed: `ModeAssumption`, `PaperAssumption`, `SyncAssumption`
(with `None` told apart from data).

**`PortableExchangeProofs`** (any number of Centrals, events and envelopes, any
clock error, time to live and skew). The inductive invariant `IInv` says what an
envelope on the medium, in a machine's hands, and spent are: every envelope of one
nonce is the same envelope; a nonce in hand is in `seen` of its recipient, and its
payload has not been acted on there; what has been acted on has been seen; an
envelope to a Central carries events that are that Central's own, one to the station
carries judgements that Centrals have on record, and so does a Central that has
answered and not yet sealed. `NoReplay` (`ProcessedOnce`), `BoundToRecipient`
(`JudgedAtHome`) and `SettledWasJudged` (`SettledIsJudged`) are parts of it.
`ExpiryHolds` (`OpenedFresh`) needs of it that a stamp is the sealer's clock when it
sealed and that sealing lies in the past; it has no bound on the clock error.
`LedgerByEnvelope`: the exchange refines `EventLedger`, the abstract specification
that `SyncIntake` refines as well. The verdict of an event is that of the Central that
has one, the number of effects that of the Centrals that accepted; `Import` is
`Judge` of the events that have no receipt (or a stutter, if all are duplicates), all
else stutters. Assumed: `PortableAssumption`, `NoneAssumption` (`None` is no payload, status or
opened envelope).

**`StationPackageProofs`** (any workers, stations, keys, seeds, bounds).
`ProcessVerifiesItself` (`OneProcessOneKey`): its invariant `KeyInv` says of every
bundle and release by whom, in which of its lives, and with what key it was made,
and that a worker in that life still has this key cached; the public key in a cache
is the private key's. `IdNamesThePackage` (`SameIdSamePackage`): `ShelfInv` says how
each bundle is made and that a new one has a number no other has. `HashedIsImported`
(`ImportedIfHashed`): `WrittenInv` says that a bundle carries the text of some seed
and a manifest the hash of the seed that was read for it. `TextLists` says that reading
a text back gives the keys it was made of, because a list by rank lists its set
(`RankedList`), and `ReadAgain` that a dict read back is text and is read back the same
from then on: so equal hashes mean equal dicts, and the station's comparison decides.
The second part of `SameIdSamePackage` needs `WrittenInv` too. `PackageTypes`.
Assumed: `PackageAssumption`.

**`CollectionUploadProofs`** (any tables, chunk size, requests in flight, expiries).
Sorting first: `SortSorts` (the same rows, each once, none before an earlier one),
`SortedStay`, and `SortRanks`: however the rows of a table are listed, the sorted
list is the one that their keys give. So all payloads of a state have one canonical
form (`OneCanonicalForm`), and canonical rows stay as they are (`CanonicalStays`).
Then chunks: what is drawn up to a chunk, over all four collections, is the multiple
of the limit or everything (`RowsDrawnInAll`), which bounds a chunk (`ChunkIs`) and
puts a collection before the next (`DrawnInTurn`, `LandedBefore`); and chunks merge
back into what they were made of (`MergeGivesBack`, by unfolding the recursive
function in `Joined`). The inductive invariant `UploadInv` says that a session is of a
state that was, that what is on the network or has landed is a chunk of that state or
of one queried since (`SessionIsFed`), and that after a mismatch one of the chunks is
not of the declared state (`MismatchIsReal`). What is rebuilt from chunks of several
states is canonical as well (`MergeIsCanonical`), so that equal digests mean equal
payloads (`CompleteJudges`). From it follow `OneStateIsIngested`, `SameDataIsVerified`,
`MismatchIsNamed` and `ReferencesLandFirst`. Assumed: `DataAssumption`,
`BoundsAssumption`. That keys are unique is needed: rows with one key would keep the
order of the query.

**`ScopeReconcileProofs`** (any students, entries, scale of Central's column, changes
and reinstallations). Numbers first: powers of ten multiply (`PowersMultiply`, by
`Induct`), `NumStrKeepsValue` says that only decimals that are 0 are dropped, and
`NotShorter` that of two forms of one value neither is shorter. So `NumStrAgrees`: one
canonical string exactly if sign and value are the same. Then records: sorted by rank,
they come out the same in whatever order they were read (`OneOrder`, `OneDigest`), so
that a side has one digest, and this tells the students with data and the record of each
(`DigestsTell`). `RecordsTell` takes that back to the marks.

The inductive invariant `ReconcileInv` says what is held and in transit are: rows of
students, with numbers; no minus zero in Central's; an entry that waits is the station's
row; a digest asked for is that of its rows; and a snapshot, taken over, has the digest
that came with it, which rests on a float, and the column before it, keeping the number
(`FloatKeepsValue`, `ColumnIsNumber`, `SnapshotKeeps`). From it follow `CountsAreRight`,
`VerdictsAreTrue` and `SnapshotsMatch`. Assumed: `ReconcileAssumption` (`None` is no
number), `EntriesAssumption`. That a minus zero has to be excepted is the one place where
equal marks have two strings; see 5.

A type invariant is stated where proofs rest on it (`SyncIntake`, `PaperWrites`,
`StationPackage`); in the other modules the properties themselves bound what the
variables may hold, as `StoredMarksAreExplicit` does.

Every invariant and action property of the passing runs is stated by a theorem, and so
are both refinements of `EventLedger`. Only model-checked are the liveness properties
(`EverythingSettles` of two modules, `EventuallySame`, `EventuallyIngested`,
`EventuallyMatched`), under the fairness of section 3: `ENABLED` is out of the prover's
reach. The two violations are traces that TLC finds. An induction over numbers or over
the parts of a finite set is made without an operator for its hypothesis: `Induct` of
`OrderTheorems` speaks of the set of those for which it holds.

## 5. Findings

1. **A lost rejection becomes an acceptance** (`central/sync.py:149`). Any receipt
   makes an event a duplicate, a REJECTED one too. If the answer that named the
   rejection is lost, the retry is answered `duplicate`, which a station marks as
   accepted. Nothing was written.
2. **An older entry overwrites a correction** (`central/conflict.py:198`). Incoming
   entries are compared with the stored write, whose time a correction outside
   sync does not move. In the run geita's mark is stored, mwanza types one, the value
   is corrected at Central, and mwanza's entry arrives: newer than the stored write
   and older than the correction, it wins. It is flagged (`CorrectionsAreFlagged`), and
   it does win. The property leaves out what the code means to do: a first synced
   write supersedes what it finds (lines 149-151), and a station's own next version
   needs no clock. The test of this name (`tests/test_conflict.py:157`) has an entry
   that is older than the stored write as well.

Beside these, which runs show, the following came up. They are not listed as
findings in `PROJECT.json`; each can be seen by changing a configuration as said.

* *Carried requests are dated late* (`central/conflict.py:117`). The skew of a
  station is measured against the time of processing. What a request waits, in a
  queue or an envelope, is added to the time of its entries, and an older entry of
  another station replaces a newer one although all clocks are right. Seen with
  `MaxTransit = 2`, `MaxEdits = 0` and `LatestAuthorshipWins` in the configuration
  of `paper_correction`.
* *NaN has no rejection code* (`validation/marks.py:23`). The range check raises
  `decimal.InvalidOperation`, which is no `ValidationError`; `MarksRules` calls that
  outcome `Surfaces`. NaN is never stored (`StoredMarksAreExplicit`).
* *A gate that opens in the middle of a batch* (`central/sync.py:156`), told under
  `ScopeSync`. Seen with `torn` left out of `NothingTypedIsRejected`.
* *Dicts keyed by numbers* (`hashing.py:40`). "Object keys sorted lexicographically"
  (line 10) is not what `sort_keys` does to numbers: {2: a, 10: b} is hashed in that
  order and, parsed again, as "10", "2". A station refuses such a seed with
  `CONFIGURATION_MISMATCH`, which `ImportedIfHashed` says (`SortsAsText`) and the run has
  a seed for. The seeds in the tests have text for keys.

Met on the way and no disagreement between the code and what is said of it: an
absent student's open incident does not keep a scope from being finalized
(`validation/scope.py:73`, which line 68 announces); a mark entered as "-0" passes the
range check and has a canonical string of its own (`reconcile.py:29`), so that its
scope does not match until a snapshot replaces it; a `SnapshotRow` has no items
(`schemas/station_sync.py:111`), so that a scope filled by item cannot be restored.

## 6. Plan

What is left: two stations with one scope in `ScopeSync`, under the rules of `Conflict`.

### Not modelled, and why

* *Natural keys* (`natural_keys.py`): shapes of strings. A record's key is a model
  value, and no modelled behaviour depends on how a key is spelled. (`exam_id` is not
  looked at, although `build_natural_key` says that all required parts are.)
* *The rest of `schemas/exametrics.py`*: quotes, approvals, runs, webhooks,
  provisioning and entitlements are fields and enumerations. No code in `src` moves
  a processing request from one state to the next or refuses to, so that any
  transition in a model would be invented.
* *Row versions of snapshots, `truncated`, writers*: what a station makes of them is
  in the station's repository.
* *Supersession, expiry and least versions of packages*: carried in the manifest,
  read by the station alone. Scope conflicts are raised by the Centrals.
* *`schemas/collection_export.py`*: the shape of a sealed snapshot that nothing in
  `src` builds. *`fixtures/`*: data. `__init__.py`: re-exports. Enumerations that no
  modelled part uses; the layout of the ZIP.
