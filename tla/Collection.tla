----------------------------- MODULE Collection ------------------------------
(***************************************************************************)
(* exametrics_digest.py: the canonical form of an ExaMetrics collection    *)
(* payload, its digest, and its division into chunks.  A payload maps      *)
(* top-level keys to sequences of rows, or, for a key that is no           *)
(* collection, to any value.  A row maps columns to values, None for null. *)
(* Natural keys are positive codes; the code compares them as strings.     *)
(***************************************************************************)
EXTENDS Integers, FiniteSets, FiniteSetsExt, Functions, Sequences

CONSTANT None

CollectionSortKeys ==
  [schools  |-> <<"centre_number">>,
   subjects |-> <<"subject_code">>,
   students |-> <<"centre_number", "student_id">>,
   marks    |-> <<"centre_number", "student_id", "subject_code">>]

CollectionNames == <<"schools", "subjects", "students", "marks">>

IsCollection(name) == name \in DOMAIN CollectionSortKeys

\* Mistake: an explicit null is kept.
KeepNulls(row) == row

DropNulls(row) == [f \in {f \in DOMAIN row : row[f] # None} |-> row[f]]

\* A missing key sorts first.
SortKey(row, fields) ==
  [i \in DOMAIN fields |-> IF fields[i] \in DOMAIN row THEN row[fields[i]] ELSE 0]

Before(k, l) == \E i \in DOMAIN k : k[i] < l[i] /\ \A j \in 1..(i - 1) : k[j] = l[j]

\* Mistake: the order of the query planner.
AsQueried(rows, fields) == rows

\* A stable sort by the natural key: place n is for the row with n - 1 ahead of it.
SortRows(rows, fields) ==
  LET Key(i) == SortKey(rows[i], fields)
      ahead == [i \in DOMAIN rows |->
                  {j \in DOMAIN rows : Before(Key(j), Key(i)) \/ (Key(j) = Key(i) /\ j < i)}]
  IN [n \in DOMAIN rows |-> rows[CHOOSE i \in DOMAIN rows : Cardinality(ahead[i]) = n - 1]]

CanonicalCollection(payload) ==
  [name \in DOMAIN payload |->
     IF IsCollection(name)
     THEN SortRows([i \in DOMAIN payload[name] |-> DropNulls(payload[name][i])],
                   CollectionSortKeys[name])
     ELSE payload[name]]

\* Mistake: of a row only the natural key is hashed.
CollectionDigestOfKeys(payload) ==
  LET canonical == CanonicalCollection(payload)
  IN [name \in DOMAIN canonical |->
        IF IsCollection(name)
        THEN [i \in DOMAIN canonical[name] |->
                SortKey(canonical[name][i], CollectionSortKeys[name])]
        ELSE canonical[name]]

\* SHA-256 of the canonical JSON, taken to be injective.
CollectionDigest(payload) == CanonicalCollection(payload)

-----------------------------------------------------------------------------

\* How many rows a payload has in the first few collections of a list of four.
RowsIn(payload, names, few) ==
  LET Count(i) == IF i <= few /\ names[i] \in DOMAIN payload THEN Len(payload[names[i]]) ELSE 0
  IN Count(1) + Count(2) + Count(3) + Count(4)

\* Of the rows of its i-th collection, those among the first `drawn' of a payload.
RowsDrawn(payload, names, i, drawn) ==
  Min({RowsIn(payload, names, i) - RowsIn(payload, names, i - 1),
       Max({0, drawn - RowsIn(payload, names, i - 1)})})

\* The fewest chunks that hold the rows; one if there is none.
ChunkCount(payload, max) ==
  LET total == RowsIn(payload, CollectionNames, 4)
  IN Min({c \in 1..(total + 1) : c * max >= total})

\* Rows are drawn collection by collection, and a chunk is begun when one is full.
ChunksOf(canonical, names, max) ==
  [c \in 1..ChunkCount(canonical, max) |->
    [name \in DOMAIN canonical |->
      IF IsCollection(name)
      THEN LET i == CHOOSE i \in 1..4 : names[i] = name
           IN SubSeq(canonical[name], RowsDrawn(canonical, names, i, (c - 1) * max) + 1,
                                      RowsDrawn(canonical, names, i, c * max))
      ELSE canonical[name]]]

\* Mistake: collections in the order of their names.
ChunkPayloadByName(payload, max) ==
  ChunksOf(CanonicalCollection(payload), <<"marks", "schools", "students", "subjects">>, max)

\* At most `max' rows in each chunk; every chunk has all the keys, and there is
\* a chunk even if there is no row.
ChunkPayload(payload, max) == ChunksOf(CanonicalCollection(payload), CollectionNames, max)

\* The rows of one collection from all chunks.
Joined(chunks, name) ==
  LET rows[c \in 0..Len(chunks)] ==
        IF c = 0 THEN <<>>
        ELSE IF name \in DOMAIN chunks[c] THEN rows[c - 1] \o chunks[c][name]
        ELSE rows[c - 1]
  IN rows[Len(chunks)]

\* Of any other key the last value counts.
MergeChunks(chunks) ==
  CanonicalCollection(
    [name \in UNION {DOMAIN chunks[c] : c \in DOMAIN chunks} |->
       IF IsCollection(name) THEN Joined(chunks, name)
       ELSE chunks[Max({c \in DOMAIN chunks : name \in DOMAIN chunks[c]})][name]])

ChunkRows(chunk) == RowsIn(chunk, CollectionNames, 4)

ChunkManifest(chunks) ==
  [chunk_count |-> Len(chunks),
   total_rows  |-> MapThenSumSet(LAMBDA c : ChunkRows(chunks[c]), DOMAIN chunks),
   digest      |-> CollectionDigest(MergeChunks(chunks)),
   chunks      |-> [c \in DOMAIN chunks |->
                      [rows |-> ChunkRows(chunks[c]), digest |-> CanonicalCollection(chunks[c])]]]
=============================================================================
