--------------------------- MODULE StationPackage ---------------------------
(***************************************************************************)
(* Station packages, from a Central's tables to a station's import:        *)
(* central/package.py derives the ids and writes the bundle, signing.py    *)
(* signs it with a key that each worker process loads once, hashing.py     *)
(* says what is hashed and signed.                                         *)
(*                                                                         *)
(* Several workers of one Central prepare packages at once, each from what *)
(* it read when it began, while the tables go on changing, the key file is *)
(* replaced, and workers are restarted.                                    *)
(*                                                                         *)
(* External: the Central's tables and the versions it gives out, which     *)
(* seed a caller bundles, its deployment, and the station, whose checks    *)
(* are those package.py names.  A worker is one thread: lru_cache would    *)
(* let two threads load the key at once, and give each what it loaded.     *)
(* SHA-256 is taken to be injective, Ed25519 to verify with its own key.   *)
(* The manifest stands for its JSON dump, which is what is signed.         *)
(***************************************************************************)
EXTENDS Integers, FiniteSets, FiniteSetsExt, Sequences

CONSTANTS
  Workers,        \* the processes of the Central
  Stations,
  Keys,           \* the key pairs a key file can hold
  TestKey,        \* generate_test_keypair
  Seeds,          \* what the tables may say: Python dicts, see CanonicalJson
  MaxBundles,     \* bound: bundles written
  MaxVersion,     \* bound: versions given out
  MaxRestarts,    \* bound: restarts of workers
  None

ASSUME PackageAssumption ==
  /\ TestKey \notin Keys /\ None \notin Keys \cup {TestKey}
  /\ Seeds \subseteq [keyedBy : {"int", "str"}, keys : SUBSET (0..99)]
  /\ MaxBundles \in Nat /\ MaxVersion \in Nat /\ MaxRestarts \in Nat

VARIABLES
  \* the deployment
  pathSet,        \* whether PACKAGE_SIGNING_PRIVATE_KEY_PATH is set for new processes
  keyFile,        \* the key in the file, or None when it cannot be read
  \* the workers
  environment,    \* worker -> whether the path was set when it started
  life,           \* worker -> how often it was restarted
  privateKey,     \* worker -> what get_signing_private_key has cached, or None
  publicKey,      \* worker -> what get_signing_public_key has cached, or None
  preparing,      \* worker -> what it read to prepare a package from, or None
  \* the Central
  seed,           \* what a seed read now would hold
  latest,         \* station -> the last version registered for it
  shelf,          \* the bundles written
  \* the stations
  release         \* station -> the public key in its software, and who gave it out

deploymentVars == <<pathSet, keyFile>>
workerVars     == <<environment, life, privateKey, publicKey, preparing>>
vars == <<deploymentVars, workerVars, seed, latest, shelf, release>>

Init ==
  /\ pathSet \in BOOLEAN
  /\ keyFile \in Keys
  /\ environment = [w \in Workers |-> pathSet]
  /\ life = [w \in Workers |-> 0]
  /\ privateKey = [w \in Workers |-> None]
  /\ publicKey = [w \in Workers |-> None]
  /\ preparing = [w \in Workers |-> None]
  /\ seed \in Seeds
  /\ latest = [s \in Stations |-> 0]
  /\ shelf = {}
  /\ release = [s \in Stations |-> None]

-----------------------------------------------------------------------------
(* hashing.py: a dict, of which only the keys and their kind matter here,  *)
(* becomes a text, of which only the order of the entries does             *)

\* A number below 100 as the dictionary orders its decimal digits: "1" < "10" < "2".
TextRank(n) == IF n < 10 THEN 100 * n ELSE 10 * n + 1

\* sort_keys orders the keys as they are, numbers as numbers, and writes all of
\* them as text.
Place(dict, k) == IF dict.keyedBy = "int" THEN k ELSE TextRank(k)

CanonicalJson(dict) ==
  LET before == [k \in dict.keys |-> {j \in dict.keys : Place(dict, j) < Place(dict, k)}]
  IN [n \in 1..Cardinality(dict.keys) |->
       CHOOSE k \in dict.keys : Cardinality(before[k]) = n - 1]

\* What json.loads makes of it: the keys are text from now on.
Parsed(text) == [keyedBy |-> "str", keys |-> {text[n] : n \in DOMAIN text}]

Sha256Prefixed(dict) == <<"sha256", CanonicalJson(dict)>>

-----------------------------------------------------------------------------
(* signing.py: both functions cache what they return for the process       *)

\* Mistake: the key is read from the file each time.
PrivateKeyUncached(w) == IF environment[w] THEN keyFile ELSE TestKey

\* What get_signing_private_key returns to w; None when the file cannot be read.
SigningPrivateKey(w) ==
  IF privateKey[w] # None THEN privateKey[w]
  ELSE IF environment[w] THEN keyFile ELSE TestKey

\* A key pair stands for either of its keys.
SigningPublicKey(w) == IF publicKey[w] # None THEN publicKey[w] ELSE SigningPrivateKey(w)

\* get_public_key_pem goes into the software of a station, and is kept there.
Release(w, s) ==
  LET key == SigningPublicKey(w)
  IN /\ key # None
     /\ privateKey' = [privateKey EXCEPT ![w] = SigningPrivateKey(w)]
     /\ publicKey' = [publicKey EXCEPT ![w] = key]
     /\ release' = [release EXCEPT ![s] = [key |-> key, by |-> <<w, life[w]>>]]
     /\ UNCHANGED <<deploymentVars, environment, life, preparing, seed, latest, shelf>>

Sign(data, key) == [key |-> key, over |-> data]

VerifySignature(data, signature, key) == signature = Sign(data, key)

-----------------------------------------------------------------------------
(* package.py *)

\* Mistake: the id names the station and the version only.
PackageIdOfVersion(station, version, hash) == <<"pkg", station, version>>

PackageId(station, version, hash) == <<"pkg", station, version, hash>>

\* Mistake: sha256_hex, without the prefix that the station's hash has.
ConfigurationHashHex(hashed) == <<"hex", CanonicalJson(hashed)>>

ConfigurationHash(hashed) == Sha256Prefixed(hashed)

Manifest(station, version, hash, credential) ==
  [package_id |-> PackageId(station, version, hash), package_version |-> version,
   station_code |-> station, configuration_hash |-> hash,
   machine_credential |-> credential]

\* A caller begins: it reads the tables, and takes the next version, or the
\* latest one again to issue it anew.
Prepare(w, s) ==
  /\ preparing[w] = None
  /\ \E version \in {latest[s], latest[s] + 1} \cap (1..MaxVersion) :
       preparing' = [preparing EXCEPT ![w] = [station |-> s, version |-> version, seed |-> seed]]
  /\ UNCHANGED <<deploymentVars, environment, life, privateKey, publicKey, seed, latest,
                 shelf, release>>

\* new_machine_credential: no two are the same.
NewCredential == Cardinality(shelf) + 1

CredentialPayload(credential, id) == [id |-> credential, package_id |-> id]

\* What build_manifest makes of the seed that was hashed.
PreparedManifest(w) ==
  LET p == preparing[w]
  IN Manifest(p.station, p.version, ConfigurationHash(p.seed), NewCredential)

\* assemble_bundle: it takes the manifest and the seed as they come and compares
\* nothing.  For the history, with the seed that was hashed and the process that
\* signed.
Bundle(w, manifest, written) ==
  [manifest |-> manifest, seed |-> written,
   signature |-> Sign(manifest, SigningPrivateKey(w)),
   credential |-> CredentialPayload(manifest.machine_credential, manifest.package_id),
   from |-> preparing[w].seed, by |-> <<w, life[w]>>]

\* The files are written in the form that is hashed and signed.
PackageZip(bundle) == [bundle EXCEPT !.seed = CanonicalJson(@)]

\* Mistake: the bundle is written whether or not there is a key.
IssueUnsigned(w) ==
  /\ preparing[w] # None
  /\ Cardinality(shelf) < MaxBundles
  /\ privateKey' = [privateKey EXCEPT ![w] = SigningPrivateKey(w)]
  /\ \E written \in {preparing[w].seed, seed} :
       shelf' = shelf \cup {PackageZip(Bundle(w, PreparedManifest(w), written))}
  /\ latest' = [latest EXCEPT ![preparing[w].station] =
                    IF preparing[w].version > @ THEN preparing[w].version ELSE @]
  /\ preparing' = [preparing EXCEPT ![w] = None]
  /\ UNCHANGED <<deploymentVars, environment, life, publicKey, seed, release>>

\* The caller bundles the seed it hashed, or one that it read once more.
Issue(w) ==
  /\ preparing[w] # None
  /\ Cardinality(shelf) < MaxBundles
  /\ SigningPrivateKey(w) # None
  /\ privateKey' = [privateKey EXCEPT ![w] = SigningPrivateKey(w)]
  /\ \E written \in {preparing[w].seed, seed} :
       shelf' = shelf \cup {PackageZip(Bundle(w, PreparedManifest(w), written))}
  /\ latest' = [latest EXCEPT ![preparing[w].station] =
                    IF preparing[w].version > @ THEN preparing[w].version ELSE @]
  /\ preparing' = [preparing EXCEPT ![w] = None]
  /\ UNCHANGED <<deploymentVars, environment, life, publicKey, seed, release>>

\* Loading the key raises, which is not cached, and nothing is issued.
KeyUnavailable(w) ==
  /\ preparing[w] # None
  /\ SigningPrivateKey(w) = None
  /\ preparing' = [preparing EXCEPT ![w] = None]
  /\ UNCHANGED <<deploymentVars, environment, life, privateKey, publicKey, seed, latest,
                 shelf, release>>

\* What a station says to a bundle: the signature, then the integrity of the
\* seed, then whom it is for.
ImportOutcome(s, b) ==
  CASE ~VerifySignature(b.manifest, b.signature, release[s].key)       -> "SIGNATURE_INVALID"
    [] Sha256Prefixed(Parsed(b.seed)) # b.manifest.configuration_hash  -> "CONFIGURATION_MISMATCH"
    [] b.manifest.station_code # s                                     -> "OUTSIDE_STATION_SCOPE"
    [] OTHER                                                           -> "imported"

-----------------------------------------------------------------------------
(* The deployment *)

\* The path is set for the processes that start from now on.
Configure ==
  /\ ~pathSet /\ pathSet' = TRUE
  /\ UNCHANGED <<keyFile, workerVars, seed, latest, shelf, release>>

\* The file is replaced, or cannot be read for a while.
Rotate ==
  /\ keyFile' \in (Keys \cup {None}) \ {keyFile}
  /\ UNCHANGED <<pathSet, workerVars, seed, latest, shelf, release>>

Restart(w) ==
  /\ MapThenSumSet(LAMBDA v : life[v], Workers) < MaxRestarts
  /\ life' = [life EXCEPT ![w] = @ + 1]
  /\ environment' = [environment EXCEPT ![w] = pathSet]
  /\ privateKey' = [privateKey EXCEPT ![w] = None]
  /\ publicKey' = [publicKey EXCEPT ![w] = None]
  /\ preparing' = [preparing EXCEPT ![w] = None]
  /\ UNCHANGED <<deploymentVars, seed, latest, shelf, release>>

ChangeSeed ==
  /\ seed' \in Seeds \ {seed}
  /\ UNCHANGED <<deploymentVars, workerVars, latest, shelf, release>>

Next ==
  \/ Configure \/ Rotate \/ ChangeSeed
  \/ \E w \in Workers :
       \/ Issue(w) \/ KeyUnavailable(w) \/ Restart(w)
       \/ \E s \in Stations : Release(w, s) \/ Prepare(w, s)

Spec == Init /\ [][Next]_vars

-----------------------------------------------------------------------------
(* Properties *)

AllKeys == Keys \cup {TestKey}

\* Every variable has its type.
TypeOK ==
  /\ pathSet \in BOOLEAN /\ keyFile \in Keys \cup {None}
  /\ environment \in [Workers -> BOOLEAN] /\ life \in [Workers -> Nat]
  /\ privateKey \in [Workers -> AllKeys \cup {None}]
  /\ publicKey \in [Workers -> AllKeys \cup {None}]
  /\ \A w \in Workers : preparing[w] # None =>
       preparing[w] \in [station : Stations, version : 1..MaxVersion, seed : Seeds]
  /\ seed \in Seeds /\ latest \in [Stations -> 0..MaxVersion]
  /\ \A b \in shelf : b.signature.key \in AllKeys /\ b.credential.id \in 1..MaxBundles
  /\ \A s \in Stations : release[s] # None => release[s].key \in AllKeys

\* A station whose software carries the key a process gave out verifies what
\* that process signs, before and after, whatever happened to the key file in
\* between (signing.py:51, 65).
OneProcessOneKey ==
  \A b \in shelf, s \in Stations :
    release[s] # None /\ release[s].by = b.by =>
      VerifySignature(b.manifest, b.signature, release[s].key)

\* A dict whose keys, once they are text, are in the order they had.
SortsAsText(dict) == CanonicalJson(dict) = CanonicalJson([dict EXCEPT !.keyedBy = "str"])

\* Of the bundles whose signature verifies, a station imports those for it that
\* carry, once parsed, the configuration that was hashed, and "refuses the import
\* on any difference" (package.py:125-126): what the tables said when the bundle
\* was written, and which seed the caller put in, is of no consequence.  It also
\* refuses a dict keyed by numbers that sort otherwise than their digits: "sorted
\* lexicographically" (hashing.py:10) is only true of keys that are text.
ImportedIfHashed ==
  \A b \in shelf, s \in Stations :
    release[s] # None /\ VerifySignature(b.manifest, b.signature, release[s].key) =>
      (ImportOutcome(s, b) = "imported" <=>
         /\ b.manifest.station_code = s
         /\ Parsed(b.seed) = Parsed(CanonicalJson(b.from))
         /\ SortsAsText(b.from))

\* "A re-issued bundle is recognisably the same bundle" (package.py:139-140),
\* and only then: two workers that took the same version at once, or that issue
\* a version again after the tables changed, never write one id for two
\* configurations, and of one id no station can import two; each bundle has a
\* credential of its own, bound to its id.
SameIdSamePackage ==
  LET Intact(b) == Sha256Prefixed(Parsed(b.seed)) = b.manifest.configuration_hash
  IN \A b, c \in shelf :
       /\ b.manifest.package_id = c.manifest.package_id <=>
            /\ b.manifest.station_code = c.manifest.station_code
            /\ b.manifest.package_version = c.manifest.package_version
            /\ CanonicalJson(b.from) = CanonicalJson(c.from)
       /\ b.manifest.package_id = c.manifest.package_id /\ Intact(b) /\ Intact(c) =>
            Parsed(b.seed) = Parsed(c.seed)
       /\ b # c => b.credential.id # c.credential.id
       /\ b.credential.package_id = b.manifest.package_id
=============================================================================
