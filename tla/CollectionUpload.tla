-------------------------- MODULE CollectionUpload ---------------------------
(***************************************************************************)
(* A collection goes from Central to ExaMetrics by a chunked, resumable    *)
(* upload (schemas/exametrics.py, 7.2).  Central builds the payload from   *)
(* SQL results, whose order and explicit nulls differ from query to query, *)
(* declares chunk count and digest, and puts the chunks over a network     *)
(* that loses, repeats and reorders them.  It may lose its own state and   *)
(* resume with a fresh query, and the data may change meanwhile.           *)
(* ExaMetrics rebuilds the payload from the chunks it has and ingests it   *)
(* only if its digest is the declared one.                                 *)
(***************************************************************************)
EXTENDS Collection

CONSTANTS
  Versions,       \* the successive states of the data: key -> set of rows, or value
  MaxRows,        \* rows per chunk
  MaxInFlight,    \* bound: requests on the network
  MaxExpiries     \* bound: sessions that expire

\* What can be said of the data at any time: rows are found by their natural keys,
\* and there is a row for what another one refers to.
WellKept(data) ==
  /\ \A name \in DOMAIN CollectionSortKeys :
       LET Key(r) == SortKey(r, CollectionSortKeys[name])
       IN /\ name \in DOMAIN data /\ IsFiniteSet(data[name])
          /\ \A r \in data[name] : DropNulls(r) = r /\ \A i \in DOMAIN Key(r) : Key(r)[i] \in Nat
          /\ \A r, s \in data[name] : Key(r) = Key(s) => r = s
  /\ \A r \in data.students \cup data.marks :
       \E s \in data.schools : s.centre_number = r.centre_number
  /\ \A r \in data.marks :
       /\ \E s \in data.subjects : s.subject_code = r.subject_code
       /\ \E s \in data.students : s.student_id = r.student_id

ASSUME DataAssumption ==
  /\ Len(Versions) \in Nat \ {0} /\ DOMAIN Versions = 1..Len(Versions)
  /\ \A v \in DOMAIN Versions : WellKept(Versions[v])

ASSUME BoundsAssumption == MaxRows \in Nat \ {0} /\ MaxInFlight \in Nat /\ MaxExpiries \in Nat

VARIABLES
  version,        \* the state of the data, an index of Versions
  held,           \* the state Central last queried
  session,        \* None, or what was declared, from which state, and how it stands
  wire,           \* PUTs on the network: index and chunk
  received,       \* chunks that have landed, by index
  ingested,       \* what ExaMetrics took, None before that
  expiries

vars == <<version, held, session, wire, received, ingested, expiries>>

WithNull(row) ==
  [f \in DOMAIN row \cup {"middle_name"} |-> IF f \in DOMAIN row THEN row[f] ELSE None]

\* What a query may return: the rows in any order, nulls omitted or explicit.
Queried(rows, nulls) ==
  {[i \in DOMAIN s |-> IF nulls THEN WithNull(s[i]) ELSE s[i]] :
     s \in {s \in [1..Cardinality(rows) -> rows] : \A i, j \in DOMAIN s : s[i] = s[j] => i = j}}

PayloadsWith(data, nulls) ==
  {[name \in DOMAIN data |-> IF IsCollection(name) THEN rows[name] ELSE data[name]] :
     rows \in [schools  : Queried(data.schools, nulls),  subjects : Queried(data.subjects, nulls),
               students : Queried(data.students, nulls), marks    : Queried(data.marks, nulls)]}

Payloads(data) == PayloadsWith(data, TRUE) \cup PayloadsWith(data, FALSE)

\* The chunks that Central makes of what it queries, by the state of the data.
ChunkLists ==
  [v \in DOMAIN Versions |-> {ChunkPayload(p, MaxRows) : p \in Payloads(Versions[v])}]

\* What can be declared of them.
Manifests == [v \in DOMAIN Versions |-> {ChunkManifest(chunks) : chunks \in ChunkLists[v]}]

ChunkIndices == UNION {DOMAIN chunks : chunks \in UNION {ChunkLists[v] : v \in DOMAIN Versions}}

Init ==
  /\ version = 1
  /\ held = 1
  /\ session = None
  /\ wire = {}
  /\ received = <<>>
  /\ ingested = None
  /\ expiries = 0

Change ==
  /\ version < Len(Versions)
  /\ version' = version + 1
  /\ UNCHANGED <<held, session, wire, received, ingested, expiries>>

InState(states) == session # None /\ session.state \in states

\* Central has nothing to do: the data as it is was verified, or an upload is
\* under way that its payload still fits.
UpToDate == InState({"verified"}) /\ session.source = version

UnderWay ==
  InState({"open"}) /\ \E chunks \in ChunkLists[held] : Len(chunks) = session.manifest.chunk_count

\* A new session.  PUTs of an older one are refused, which is to say lost.
Start ==
  /\ ~UpToDate
  /\ ~UnderWay
  /\ \E manifest \in Manifests[version] :
       session' = [manifest |-> manifest, source |-> version, state |-> "open"]
  /\ held' = version
  /\ wire' = {}
  /\ received' = <<>>
  /\ UNCHANGED <<version, ingested, expiries>>

\* Central lost what it held and queries again to resume.
Resume ==
  /\ InState({"open"})
  /\ held' = version
  /\ UNCHANGED <<version, session, wire, received, ingested, expiries>>

\* Central does not re-send what it has been told has landed, but may not have
\* been told.
Send(n) ==
  /\ InState({"open"})
  /\ Cardinality(wire) < MaxInFlight
  /\ n \in 1..session.manifest.chunk_count
  /\ \E chunks \in ChunkLists[held] :
       /\ n \in DOMAIN chunks
       /\ wire' = wire \cup {[index |-> n, chunk |-> chunks[n]]}
  /\ UNCHANGED <<version, held, session, received, ingested, expiries>>

\* A PUT replaces the chunk; a copy of it may arrive again.
Deliver(put, again) ==
  /\ InState({"open"})
  /\ received' = [n \in DOMAIN received \cup {put.index} |->
                    IF n = put.index THEN put.chunk ELSE received[n]]
  /\ wire' = IF again THEN wire ELSE wire \ {put}
  /\ UNCHANGED <<version, held, session, ingested, expiries>>

Lose(put) ==
  /\ wire' = wire \ {put}
  /\ UNCHANGED <<version, held, session, received, ingested, expiries>>

\* Mistake: the last chunk is left out.
MergedShort == MergeChunks([n \in 1..(session.manifest.chunk_count - 1) |-> received[n]])

Merged == MergeChunks([n \in 1..session.manifest.chunk_count |-> received[n]])

Verified == CollectionDigest(Merged) = session.manifest.digest

CanComplete == InState({"open"}) /\ DOMAIN received = 1..session.manifest.chunk_count

Complete ==
  /\ CanComplete
  /\ session' = [session EXCEPT !.state = IF Verified THEN "verified" ELSE "mismatch"]
  /\ ingested' = IF Verified THEN Merged ELSE ingested
  /\ UNCHANGED <<version, held, wire, received, expiries>>

Expire ==
  /\ InState({"open"})
  /\ expiries < MaxExpiries
  /\ expiries' = expiries + 1
  /\ session' = [session EXCEPT !.state = "expired"]
  /\ UNCHANGED <<version, held, wire, received, ingested>>

Next ==
  \/ Change \/ Start \/ Resume \/ Complete \/ Expire
  \/ \E n \in ChunkIndices : Send(n)
  \/ \E put \in wire, again \in BOOLEAN : Deliver(put, again)
  \/ \E put \in wire : Lose(put)

Missing(n) == n \notin DOMAIN received

\* Central keeps at it and completes; no request stays on the network for ever,
\* and of those sent over and over some get through.  That the data changes,
\* that Central resumes or that a session expires is not owed.  The second line
\* is the definition of WF_vars(Complete): CanComplete is what enables Complete,
\* and TLC need not rebuild a payload to see it.
Fairness ==
  /\ WF_vars(Start)
  /\ []<>~CanComplete \/ []<><<Complete>>_vars
  /\ WF_vars(\E put \in wire : Lose(put))
  /\ \A n \in ChunkIndices :
       /\ SF_vars(Missing(n) /\ Send(n))
       /\ SF_vars(\E put \in wire : put.index = n /\ Missing(n) /\ Deliver(put, FALSE))

Spec == Init /\ [][Next]_vars /\ Fairness

-----------------------------------------------------------------------------

\* A payload holds a state of the data: the same keys, every row once, and the
\* same values beside the collections.
IsStateOf(payload, data) ==
  /\ DOMAIN payload = DOMAIN data
  /\ \A name \in DOMAIN data :
       IF IsCollection(name)
       THEN Range(payload[name]) = data[name] /\ Len(payload[name]) = Cardinality(data[name])
       ELSE payload[name] = data[name]

\* What is ingested is, row for row, one state that the data really had, and the
\* one that was declared: never chunks of two states put together, whatever the
\* network repeats and Central resumes.
IngestedIsOneState ==
  /\ ingested # None => \E v \in 1..version : IsStateOf(ingested, Versions[v])
  /\ InState({"verified"}) => IsStateOf(ingested, Versions[session.source])

\* "A mismatch means the data differs, never that the two implementations
\* differ" (schemas/exametrics.py:485-486): unless the data changed since the
\* session began, another order or another way to say null fails no upload.
SameDataVerifies == InState({"mismatch"}) => version # session.source

\* "A failed verification names the chunk that differs instead of only reporting
\* that something does" (exametrics_digest.py:170-172).
MismatchNamesAChunk ==
  InState({"mismatch"}) =>
    \E n \in DOMAIN received : CanonicalCollection(received[n]) # session.manifest.chunks[n].digest

\* "A chunk boundary never puts a mark ahead of the school it belongs to"
\* (exametrics_digest.py:113-114): of a session fed from one state of the data,
\* the chunks up to any index hold, for each student and mark, the school, and
\* for each mark the subject and the student; and no chunk is above the limit.
ReferencesFirst ==
  \A n \in DOMAIN received :
    /\ ChunkRows(received[n]) <= MaxRows
    /\ session.source = version /\ 1..n \subseteq DOMAIN received =>
         LET Landed(name) == UNION {Range(received[i][name]) : i \in 1..n}
         IN /\ \A r \in Range(received[n].students) \cup Range(received[n].marks) :
                 \E s \in Landed("schools") : s.centre_number = r.centre_number
            /\ \A r \in Range(received[n].marks) :
                 /\ \E s \in Landed("subjects") : s.subject_code = r.subject_code
                 /\ \E s \in Landed("students") : s.student_id = r.student_id

\* An upload comes to its end: once the data stays as it is, ExaMetrics has it
\* and Central knows.
EventuallyIngested == <>[](InState({"verified"}) /\ session.source = version)
=============================================================================
