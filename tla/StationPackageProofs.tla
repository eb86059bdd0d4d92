------------------------- MODULE StationPackageProofs ------------------------
(***************************************************************************)
(* What StationPackage keeps whatever its workers, stations, keys and      *)
(* seeds: the key of a process, and what a package id stands for.          *)
(***************************************************************************)
EXTENDS StationPackage, OrderTheorems

(***************************************************************************)
(* The key of a process.  OneProcessOneKey is not inductive: what a process *)
(* did earlier agrees with what it does now because of what it has cached.  *)
(***************************************************************************)

\* x, a bundle or a release, was made by this process or an earlier one with key.
MadeWith(x, key) ==
  /\ x.by = <<x.by[1], x.by[2]>> /\ x.by[1] \in Workers /\ x.by[2] \in Nat
  /\ x.by[2] <= life[x.by[1]]
  /\ x.by[2] = life[x.by[1]] => privateKey[x.by[1]] = key
  /\ key # None

Typed ==
  /\ life \in [Workers -> Nat]
  /\ DOMAIN privateKey = Workers /\ DOMAIN publicKey = Workers
  /\ DOMAIN release = Stations

\* The inductive invariant.
KeyInv ==
  /\ Typed
  /\ \A w \in Workers : publicKey[w] \in {None, privateKey[w]}
  /\ \A b \in shelf :
       b.signature = Sign(b.manifest, b.signature.key) /\ MadeWith(b, b.signature.key)
  /\ \A s \in Stations : release[s] # None => MadeWith(release[s], release[s].key)
  /\ OneProcessOneKey

LEMMA KeyInvInit == Init => KeyInv
  BY DEF Init, KeyInv, Typed, OneProcessOneKey

\* Who made a thing, and with what key, stays true: a process only ever caches
\* the key it returns, and a restart makes another process of the worker.
LEMMA MadeStays ==
  ASSUME Typed, [Next]_vars, NEW x, NEW key, MadeWith(x, key)
  PROVE  MadeWith(x, key)'
<1> USE DEF MadeWith, Typed
<1>1. CASE UNCHANGED <<life, privateKey>>
  BY <1>1
<1>2. ASSUME NEW w \in Workers, life' = life,
             privateKey' = [privateKey EXCEPT ![w] = SigningPrivateKey(w)]
      PROVE  MadeWith(x, key)'
  BY <1>2 DEF SigningPrivateKey
<1>3. ASSUME NEW w \in Workers, Restart(w) PROVE MadeWith(x, key)'
  <2>1. life' = [life EXCEPT ![w] = @ + 1] /\ privateKey' = [privateKey EXCEPT ![w] = None]
    BY <1>3 DEF Restart
  <2>2. CASE x.by[1] = w
    BY <2>1, <2>2
  <2>3. CASE x.by[1] # w
    BY <2>1, <2>3
  <2> QED
    BY <2>2, <2>3
<1> QED
  BY <1>1, <1>2, <1>3 DEF Next, Configure, Rotate, ChangeSeed, Issue, KeyUnavailable, Release,
     Prepare, vars, workerVars

LEMMA TypedStays == Typed /\ [Next]_vars => Typed'
<1> SUFFICES ASSUME Typed, [Next]_vars PROVE Typed'
  OBVIOUS
<1> USE DEF Typed
<1>1. ASSUME NEW w \in Workers, Restart(w) PROVE Typed'
  BY <1>1 DEF Restart
<1>2. ASSUME NEW w \in Workers, Issue(w) PROVE Typed'
  BY <1>2 DEF Issue
<1>3. ASSUME NEW w \in Workers, NEW s \in Stations, Release(w, s) PROVE Typed'
  BY <1>3 DEF Release
<1>4. CASE UNCHANGED <<life, privateKey, publicKey, release>>
  BY <1>4
<1> QED
  BY <1>1, <1>2, <1>3, <1>4 DEF Next, Configure, Rotate, ChangeSeed, KeyUnavailable, Prepare,
     vars, workerVars

\* The public key a process has cached is the private key's.
LEMMA PublicIsPrivate ==
  ASSUME Typed, \A w \in Workers : publicKey[w] \in {None, privateKey[w]}, [Next]_vars
  PROVE  \A w \in Workers : publicKey'[w] \in {None, privateKey'[w]}
  BY DEF Typed, SigningPrivateKey, SigningPublicKey, Next, Configure, Rotate, ChangeSeed, Issue,
     KeyUnavailable, Restart, Release, Prepare, vars, workerVars

LEMMA KeyInvStep == KeyInv /\ [Next]_vars => KeyInv'
<1> SUFFICES ASSUME KeyInv, [Next]_vars PROVE KeyInv'
  OBVIOUS
<1>1. Typed' /\ \A w \in Workers : publicKey'[w] \in {None, privateKey'[w]}
  BY TypedStays, PublicIsPrivate DEF KeyInv
<1>2. ASSUME UNCHANGED <<shelf, release>> PROVE KeyInv'
  <2>1. \A b \in shelf' : MadeWith(b, b.signature.key)'
    BY <1>2, MadeStays DEF KeyInv
  <2>2. ASSUME NEW s \in Stations, release'[s] # None
        PROVE  MadeWith(release[s], release[s].key)'
    <3>1. PICK r : r = release[s]
      OBVIOUS
    <3>2. MadeWith(r, r.key)
      BY <1>2, <2>2, <3>1 DEF KeyInv
    <3>3. MadeWith(r, r.key)'
      BY <3>2, MadeStays DEF KeyInv
    <3> QED
      BY <1>2, <3>1, <3>3 DEF MadeWith
  <2>3. OneProcessOneKey'
    BY <1>2 DEF KeyInv, OneProcessOneKey
  <2> QED
    BY <1>1, <1>2, <2>1, <2>2, <2>3 DEF KeyInv
<1>3. ASSUME NEW w \in Workers, Issue(w) PROVE KeyInv'
  <2>0. PICK written \in {preparing[w].seed, seed} :
          shelf' = shelf \cup {PackageZip(Bundle(w, PreparedManifest(w), written))}
    BY <1>3 DEF Issue
  <2> DEFINE new == PackageZip(Bundle(w, PreparedManifest(w), written))
  <2>1. /\ shelf' = shelf \cup {new} /\ release' = release /\ life' = life
        /\ privateKey' = [privateKey EXCEPT ![w] = SigningPrivateKey(w)]
        /\ SigningPrivateKey(w) # None
    BY <1>3, <2>0 DEF Issue
  <2>2. /\ new.by = <<w, life[w]>> /\ new.signature.key = SigningPrivateKey(w)
        /\ new.signature = Sign(new.manifest, new.signature.key)
    BY DEF PackageZip, Bundle, Sign
  <2> HIDE DEF new
  <2>3. PICK n : n = new
    OBVIOUS
  <2>4. MadeWith(n, n.signature.key)'
    BY <2>1, <2>2, <2>3 DEF MadeWith, KeyInv, Typed
  <2>5. \A b \in shelf : MadeWith(b, b.signature.key)'
    BY MadeStays DEF KeyInv
  <2>6. ASSUME NEW s \in Stations, release'[s] # None
        PROVE  /\ MadeWith(release[s], release[s].key)'
               /\ release[s].by = n.by => VerifySignature(n.manifest, n.signature, release[s].key)
    <3>1. PICK r : r = release[s]
      OBVIOUS
    <3>2. MadeWith(r, r.key)
      BY <2>1, <2>6, <3>1 DEF KeyInv
    <3>3. MadeWith(r, r.key)'
      BY <3>2, MadeStays DEF KeyInv
    <3>4. r.by = n.by => r.key = SigningPrivateKey(w)
      BY <2>2, <2>3, <3>2 DEF MadeWith, SigningPrivateKey
    <3> QED
      BY <2>1, <2>2, <2>3, <3>1, <3>3, <3>4 DEF MadeWith, VerifySignature
  <2> QED
    BY <1>1, <2>1, <2>2, <2>3, <2>4, <2>5, <2>6 DEF KeyInv, OneProcessOneKey, VerifySignature
<1>4. ASSUME NEW w \in Workers, NEW t \in Stations, Release(w, t) PROVE KeyInv'
  <2> DEFINE key == SigningPublicKey(w)
  <2>1. /\ shelf' = shelf /\ life' = life /\ key # None
        /\ release' = [release EXCEPT ![t] = [key |-> key, by |-> <<w, life[w]>>]]
        /\ privateKey' = [privateKey EXCEPT ![w] = SigningPrivateKey(w)]
    BY <1>4 DEF Release
  <2>2. key = SigningPrivateKey(w)
    BY DEF KeyInv, SigningPublicKey, SigningPrivateKey
  <2> HIDE DEF key
  <2>3. \A b \in shelf : MadeWith(b, b.signature.key)'
    BY MadeStays DEF KeyInv
  <2>4. ASSUME NEW s \in Stations, release'[s] # None
        PROVE  /\ MadeWith(release[s], release[s].key)'
               /\ \A b \in shelf : release'[s].by = b.by =>
                    VerifySignature(b.manifest, b.signature, release'[s].key)
    <3>1. CASE s = t
      <4>1. PICK r : r = release'[s]
        OBVIOUS
      <4>2. r.key = key /\ r.by = <<w, life[w]>>
        BY <2>1, <3>1, <4>1 DEF KeyInv, Typed
      <4>3. MadeWith(r, r.key)'
        BY <2>1, <2>2, <4>2 DEF KeyInv, Typed, MadeWith
      <4>4. \A b \in shelf : r.by = b.by => b.signature.key = key
        BY <2>1, <2>2, <4>2 DEF KeyInv, MadeWith, SigningPrivateKey
      <4> QED
        BY <4>1, <4>2, <4>3, <4>4 DEF KeyInv, MadeWith, VerifySignature
    <3>2. CASE s # t
      <4>1. PICK r : r = release[s]
        OBVIOUS
      <4>2. release'[s] = r
        BY <2>1, <3>2, <4>1 DEF KeyInv, Typed
      <4>3. MadeWith(r, r.key)'
        BY <2>4, <4>1, <4>2, MadeStays DEF KeyInv
      <4> QED
        BY <2>4, <4>1, <4>2, <4>3 DEF KeyInv, MadeWith, OneProcessOneKey
    <3> QED
      BY <3>1, <3>2
  <2> QED
    BY <1>1, <2>1, <2>3, <2>4 DEF KeyInv, OneProcessOneKey
<1> QED
  BY <1>2, <1>3, <1>4 DEF Next, Configure, Rotate, ChangeSeed, KeyUnavailable, Restart, Prepare,
     vars, workerVars, deploymentVars

\* For any workers, keys and number of restarts: a station that carries the key
\* a process gave out verifies everything that process signs.
THEOREM ProcessVerifiesItself == Spec => []OneProcessOneKey
<1>1. KeyInv => OneProcessOneKey
  BY DEF KeyInv
<1> QED
  BY KeyInvInit, KeyInvStep, <1>1, PTL DEF Spec

-----------------------------------------------------------------------------
(***************************************************************************)
(* What is imported is what was hashed.  A text lists the keys of the dict *)
(* it was made of, each once, so that reading it back loses nothing but    *)
(* that they were numbers, and no two dicts that were read have one text.  *)
(***************************************************************************)

Dicts == [keyedBy : {"int", "str"}, keys : SUBSET (0..99)]

LEMMA TextLists ==
  ASSUME NEW dict \in Dicts
  PROVE  Parsed(CanonicalJson(dict)) = [keyedBy |-> "str", keys |-> dict.keys]
<1> DEFINE M == dict.keys
           A == [k \in M |-> {j \in M : Place(dict, j) < Place(dict, k)}]
<1>1. M \in SUBSET (0..99) /\ dict = [keyedBy |-> dict.keyedBy, keys |-> M]
  BY DEF Dicts
<1>2. IsFiniteSet(M)
  <2> DEFINE T == 0..99
  <2>1. IsFiniteSet(T)
    <3>1. 0 \in Int /\ 99 \in Int
      OBVIOUS
    <3> QED
      BY <3>1, FS_Interval, Zenon
  <2>2. M \subseteq T
    BY <1>1
  <2> HIDE DEF T, M
  <2> QED
    BY <2>1, <2>2, FS_Subset
<1>3. \A j, k \in M : Place(dict, j) \in Int /\ (Place(dict, j) = Place(dict, k) => j = k)
  BY <1>1 DEF Place, TextRank
<1>4. TotalOrder(A, M)
  <2> HIDE DEF M
  <2>1. A \in [M -> SUBSET M] /\ \A k \in M : k \notin A[k]
    BY <1>3
  <2>2. ASSUME NEW i \in M, NEW j \in M, i # j
        PROVE  \/ i \in A[j] /\ A[i] \subseteq A[j]
               \/ j \in A[i] /\ A[j] \subseteq A[i]
    <3>1. Place(dict, i) < Place(dict, j) \/ Place(dict, j) < Place(dict, i)
      BY <1>3, <2>2
    <3> QED
      BY <1>3, <3>1
  <2> QED
    BY <2>1, <2>2 DEF TotalOrder
<1> DEFINE text == [n \in 1..Cardinality(M) |-> CHOOSE k \in M : Cardinality(A[k]) = n - 1]
<1>5. CanonicalJson(dict) = text
  BY DEF CanonicalJson
<1>6. {text[n] : n \in DOMAIN text} =
        {CHOOSE k \in M : Cardinality(A[k]) = n - 1 : n \in 1..Cardinality(M)}
  OBVIOUS
<1> HIDE DEF A, M, text
<1>7. {text[n] : n \in DOMAIN text} = M
  BY <1>2, <1>4, <1>6, RankedList
<1> QED
  BY <1>5, <1>7 DEF Parsed, M

\* What was read comes of a text again.
LEMMA ReadAgain ==
  ASSUME NEW dict \in Dicts
  PROVE  LET read == Parsed(CanonicalJson(dict))
         IN read \in Dicts /\ Parsed(CanonicalJson(read)) = read
<1> DEFINE read == Parsed(CanonicalJson(dict))
<1>1. read = [keyedBy |-> "str", keys |-> dict.keys] /\ read \in Dicts
  BY TextLists DEF Dicts
<1>2. Parsed(CanonicalJson(read)) = [keyedBy |-> "str", keys |-> read.keys]
  BY <1>1, TextLists
<1> QED
  BY <1>1, <1>2

\* The inductive invariant: a manifest has the hash of the seed that was read for
\* it, and a bundle the text of some seed.
WrittenInv ==
  /\ seed \in Seeds /\ DOMAIN preparing = Workers
  /\ \A w \in Workers : preparing[w] # None => preparing[w].seed \in Seeds
  /\ \A b \in shelf :
       /\ b.from \in Seeds /\ \E written \in Seeds : b.seed = CanonicalJson(written)
       /\ b.manifest.configuration_hash = Sha256Prefixed(b.from)

LEMMA WrittenInvInit == Init => WrittenInv
  BY DEF Init, WrittenInv

LEMMA WrittenInvStep == WrittenInv /\ [Next]_vars => WrittenInv'
<1> SUFFICES ASSUME WrittenInv, [Next]_vars PROVE WrittenInv'
  OBVIOUS
<1> USE DEF WrittenInv
<1>1. ASSUME NEW w \in Workers, Issue(w) PROVE WrittenInv'
  <2>. PICK written \in {preparing[w].seed, seed} :
          shelf' = shelf \cup {PackageZip(Bundle(w, PreparedManifest(w), written))}
    BY <1>1 DEF Issue
  <2>1. PICK new : /\ new = PackageZip(Bundle(w, PreparedManifest(w), written))
                   /\ shelf' = shelf \cup {new}
    OBVIOUS
  <2>2. new.from = preparing[w].seed /\ new.seed = CanonicalJson(written)
        /\ new.manifest.configuration_hash = Sha256Prefixed(preparing[w].seed)
    BY <2>1 DEF PackageZip, Bundle, PreparedManifest, Manifest, ConfigurationHash
  <2>3. preparing[w].seed \in Seeds /\ written \in Seeds
    BY <1>1, <2>1 DEF Issue
  <2>4. \A b \in shelf' :
          /\ b.from \in Seeds /\ \E d \in Seeds : b.seed = CanonicalJson(d)
          /\ b.manifest.configuration_hash = Sha256Prefixed(b.from)
    BY <2>1, <2>2, <2>3
  <2>5. /\ seed' = seed
        /\ DOMAIN preparing' = Workers
        /\ \A v \in Workers : preparing'[v] # None => preparing'[v].seed \in Seeds
    BY <1>1 DEF Issue
  <2> HIDE DEF WrittenInv
  <2> QED
    BY <2>4, <2>5 DEF WrittenInv, CanonicalJson, Place, TextRank, Sha256Prefixed
<1>2. ASSUME NEW w \in Workers, NEW s \in Stations, Prepare(w, s) PROVE WrittenInv'
  BY <1>2 DEF Prepare
<1>3. ASSUME NEW w \in Workers, KeyUnavailable(w) \/ Restart(w) PROVE WrittenInv'
  BY <1>3 DEF KeyUnavailable, Restart
<1>4. ASSUME NEW w \in Workers, NEW s \in Stations, Release(w, s) PROVE WrittenInv'
  BY <1>4 DEF Release
<1>5. CASE Configure \/ Rotate \/ ChangeSeed \/ UNCHANGED vars
  BY <1>5 DEF Configure, Rotate, ChangeSeed, vars, workerVars
<1> QED
  BY <1>1, <1>2, <1>3, <1>4, <1>5 DEF Next

\* For any seeds, however their keys are ordered, and whichever seed a caller puts in:
\* of the bundles whose signature verifies, a station imports those for it that carry
\* the configuration that was hashed, and whose dict sorts as its text does.
THEOREM HashedIsImported == Spec => []ImportedIfHashed
<1>1. WrittenInv => ImportedIfHashed
  <2> SUFFICES ASSUME WrittenInv, NEW b \in shelf, NEW s \in Stations,
                      VerifySignature(b.manifest, b.signature, release[s].key)
               PROVE  ImportOutcome(s, b) = "imported" <=>
                        /\ b.manifest.station_code = s
                        /\ Parsed(b.seed) = Parsed(CanonicalJson(b.from))
                        /\ SortsAsText(b.from)
    BY DEF ImportedIfHashed
  <2>1. PICK written \in Seeds : b.seed = CanonicalJson(written)
    BY DEF WrittenInv
  <2>2. /\ written \in Dicts /\ b.from \in Dicts
        /\ b.manifest.configuration_hash = Sha256Prefixed(b.from)
    BY PackageAssumption DEF WrittenInv, Dicts
  <2> DEFINE read == Parsed(b.seed)
             hashed == Parsed(CanonicalJson(b.from))
  <2>3. Parsed(CanonicalJson(read)) = read
    BY <2>1, <2>2, ReadAgain
  <2>4. hashed = [b.from EXCEPT !.keyedBy = "str"]
    <3>1. hashed = [keyedBy |-> "str", keys |-> b.from.keys]
      BY <2>2, TextLists
    <3> QED
      BY <2>2, <3>1 DEF Dicts
  <2>5. SortsAsText(b.from) <=> CanonicalJson(b.from) = CanonicalJson(hashed)
    BY <2>4 DEF SortsAsText
  <2>6. ImportOutcome(s, b) = "imported" <=>
          b.manifest.station_code = s /\ CanonicalJson(read) = CanonicalJson(b.from)
    BY <2>2 DEF ImportOutcome, Sha256Prefixed
  <2>7. CanonicalJson(read) = CanonicalJson(b.from) <=>
          read = hashed /\ CanonicalJson(b.from) = CanonicalJson(hashed)
    <3> HIDE DEF read
    <3>1. ASSUME CanonicalJson(read) = CanonicalJson(b.from) PROVE read = hashed
      BY <2>3, <3>1
    <3> HIDE DEF hashed
    <3> QED
      BY <3>1
  <2> QED
    BY <2>5, <2>6, <2>7
<1> QED
  BY <1>1, WrittenInvInit, WrittenInvStep, PTL DEF Spec

-----------------------------------------------------------------------------
(***************************************************************************)
(* What an id stands for.  The credential's number is the size of the      *)
(* shelf, so that no bundle written later can have it again.               *)
(***************************************************************************)

\* What a bundle is made of, alone.
WellMade(b) ==
  /\ b.manifest.package_id = <<"pkg", b.manifest.station_code, b.manifest.package_version,
                              b.manifest.configuration_hash>>
  /\ b.manifest.configuration_hash = <<"sha256", CanonicalJson(b.from)>>
  /\ b.credential.package_id = b.manifest.package_id

\* The inductive invariant.
ShelfInv ==
  /\ IsFiniteSet(shelf) /\ Cardinality(shelf) <= MaxBundles
  /\ \A b \in shelf : WellMade(b) /\ b.credential.id \in 1..Cardinality(shelf)
  /\ \A b, c \in shelf : b # c => b.credential.id # c.credential.id

LEMMA ShelfInvInit == Init => ShelfInv
  BY FS_EmptySet, PackageAssumption DEF Init, ShelfInv

\* Only Issue writes bundles, and the one it writes has a number of its own.
LEMMA ShelfInvStep == ShelfInv /\ [Next]_vars => ShelfInv'
<1> SUFFICES ASSUME ShelfInv, [Next]_vars PROVE ShelfInv'
  OBVIOUS
<1>1. CASE UNCHANGED shelf
  BY <1>1 DEF ShelfInv, WellMade, CanonicalJson, Place, TextRank
<1>2. ASSUME NEW w \in Workers, Issue(w) PROVE ShelfInv'
  <2>. PICK written \in {preparing[w].seed, seed} :
          shelf' = shelf \cup {PackageZip(Bundle(w, PreparedManifest(w), written))}
    BY <1>2 DEF Issue
  <2>1. PICK new : /\ new = PackageZip(Bundle(w, PreparedManifest(w), written))
                   /\ shelf' = shelf \cup {new}
    OBVIOUS
  <2>2. shelf' = shelf \cup {new} /\ Cardinality(shelf) < MaxBundles
    BY <1>2, <2>1 DEF Issue
  <2>3. WellMade(new) /\ new.credential.id = Cardinality(shelf) + 1
    BY <2>1 DEF PackageZip, Bundle, PreparedManifest, CredentialPayload, Manifest,
       PackageId, ConfigurationHash, Sha256Prefixed, NewCredential, WellMade
  <2>4. Cardinality(shelf) \in Nat
    BY FS_CardinalityType DEF ShelfInv
  <2>5. \A b \in shelf : b.credential.id # new.credential.id
    BY <2>3, <2>4 DEF ShelfInv
  <2>6. IsFiniteSet(shelf') /\ Cardinality(shelf') = Cardinality(shelf) + 1
    BY <2>2, <2>5, FS_AddElement DEF ShelfInv
  <2>7. \A b \in shelf' : WellMade(b) /\ b.credential.id \in 1..Cardinality(shelf')
    BY <2>2, <2>3, <2>4, <2>6 DEF ShelfInv
  <2>8. \A b, c \in shelf' : b # c => b.credential.id # c.credential.id
    BY <2>2, <2>5 DEF ShelfInv
  <2>9. Cardinality(shelf') <= MaxBundles
    BY <2>2, <2>4, <2>6, PackageAssumption
  <2> QED
    BY <2>6, <2>7, <2>8, <2>9 DEF ShelfInv, WellMade, CanonicalJson, Place, TextRank
<1> QED
  BY <1>1, <1>2 DEF Next, Configure, Rotate, ChangeSeed, KeyUnavailable, Restart, Release,
     Prepare, vars

\* For any number of workers, bundles and versions: one id, one configuration of
\* one version for one station, whichever seed is put in, and a credential for each
\* bundle.
THEOREM IdNamesThePackage == Spec => []SameIdSamePackage
<1> DEFINE Intact(bundle) == Sha256Prefixed(Parsed(bundle.seed)) = bundle.manifest.configuration_hash
<1>1. ShelfInv /\ WrittenInv => SameIdSamePackage
  <2> SUFFICES ASSUME ShelfInv, WrittenInv, NEW b \in shelf, NEW c \in shelf
               PROVE  /\ b.manifest.package_id = c.manifest.package_id <=>
                           /\ b.manifest.station_code = c.manifest.station_code
                           /\ b.manifest.package_version = c.manifest.package_version
                           /\ CanonicalJson(b.from) = CanonicalJson(c.from)
                      /\ b.manifest.package_id = c.manifest.package_id /\ Intact(b) /\ Intact(c) =>
                           Parsed(b.seed) = Parsed(c.seed)
                      /\ b # c => b.credential.id # c.credential.id
                      /\ b.credential.package_id = b.manifest.package_id
    BY DEF SameIdSamePackage
  <2>1. WellMade(b) /\ WellMade(c) /\ (b # c => b.credential.id # c.credential.id)
    BY DEF ShelfInv
  <2>2. b.manifest.package_id = c.manifest.package_id <=>
          /\ b.manifest.station_code = c.manifest.station_code
          /\ b.manifest.package_version = c.manifest.package_version
          /\ CanonicalJson(b.from) = CanonicalJson(c.from)
    BY <2>1 DEF WellMade
  <2>3. ASSUME b.manifest.package_id = c.manifest.package_id,
               Sha256Prefixed(Parsed(b.seed)) = b.manifest.configuration_hash,
               Sha256Prefixed(Parsed(c.seed)) = c.manifest.configuration_hash
        PROVE  Parsed(b.seed) = Parsed(c.seed)
    <3>1. CanonicalJson(Parsed(b.seed)) = CanonicalJson(Parsed(c.seed))
      BY <2>1, <2>2, <2>3 DEF WellMade, Sha256Prefixed
    <3>2. /\ Parsed(CanonicalJson(Parsed(b.seed))) = Parsed(b.seed)
          /\ Parsed(CanonicalJson(Parsed(c.seed))) = Parsed(c.seed)
      BY ReadAgain, PackageAssumption DEF WrittenInv, Dicts
    <3> QED
      BY <3>1, <3>2
  <2>4. b.credential.package_id = b.manifest.package_id
    BY <2>1 DEF WellMade
  <2> QED
    BY <2>1, <2>2, <2>3, <2>4
<1>2. Spec => []ShelfInv
  BY ShelfInvInit, ShelfInvStep, PTL DEF Spec
<1>3. Spec => []WrittenInv
  BY WrittenInvInit, WrittenInvStep, PTL DEF Spec
<1> QED
  BY <1>1, <1>2, <1>3, PTL

-----------------------------------------------------------------------------
(* Types                                                                   *)

LEMMA KeysTyped ==
  ASSUME TypeOK, NEW w \in Workers
  PROVE  /\ SigningPrivateKey(w) \in AllKeys \cup {None}
         /\ SigningPublicKey(w) \in AllKeys \cup {None}
  BY DEF TypeOK, AllKeys, SigningPrivateKey, SigningPublicKey

LEMMA TypeOKStep == TypeOK /\ ShelfInv /\ ShelfInv' /\ [Next]_vars => TypeOK'
<1> SUFFICES ASSUME TypeOK, ShelfInv, ShelfInv', [Next]_vars PROVE TypeOK'
  OBVIOUS
<1> USE DEF TypeOK
<1>1. ASSUME NEW w \in Workers, Issue(w) PROVE TypeOK'
  <2>1. PICK written \in {preparing[w].seed, seed} :
          shelf' = shelf \cup {PackageZip(Bundle(w, PreparedManifest(w), written))}
    BY <1>1 DEF Issue
  <2> DEFINE new == PackageZip(Bundle(w, PreparedManifest(w), written))
  <2>2. shelf' = shelf \cup {new} /\ SigningPrivateKey(w) \in AllKeys
    BY <1>1, <2>1, KeysTyped DEF Issue
  <2>3. new.signature.key = SigningPrivateKey(w)
    BY <2>1 DEF PackageZip, Bundle, Sign
  <2>4. \A b \in shelf' : b.signature.key \in AllKeys /\ b.credential.id \in 1..MaxBundles
    <3>1. Cardinality(shelf') \in Nat
      BY FS_CardinalityType DEF ShelfInv
    <3>2. \A b \in shelf' : b.credential.id \in 1..Cardinality(shelf')
      BY DEF ShelfInv
    <3>3. Cardinality(shelf') <= MaxBundles
      BY DEF ShelfInv
    <3>4. \A b \in shelf' : b.credential.id \in 1..MaxBundles
      BY <3>1, <3>2, <3>3, PackageAssumption
    <3>5. \A b \in shelf' : b.signature.key \in AllKeys
      BY <2>2, <2>3
    <3> QED
      BY <3>4, <3>5
  <2>5. privateKey' \in [Workers -> AllKeys \cup {None}]
    BY <1>1, <2>2 DEF Issue
  <2>6. preparing[w] \in [station : Stations, version : 1..MaxVersion, seed : Seeds]
    BY <1>1 DEF Issue
  <2>7. latest' \in [Stations -> 0..MaxVersion]
    BY <1>1, <2>6, PackageAssumption DEF Issue
  <2>8. \A v \in Workers : preparing'[v] # None =>
          preparing'[v] \in [station : Stations, version : 1..MaxVersion, seed : Seeds]
    BY <1>1 DEF Issue
  <2> QED
    BY <1>1, <2>4, <2>5, <2>7, <2>8 DEF Issue, deploymentVars
<1>2. ASSUME NEW w \in Workers, NEW s \in Stations, Release(w, s) PROVE TypeOK'
  BY <1>2, KeysTyped DEF Release, deploymentVars
<1>3. ASSUME NEW w \in Workers, NEW s \in Stations, Prepare(w, s) PROVE TypeOK'
  BY <1>3 DEF Prepare, deploymentVars
<1>4. ASSUME NEW w \in Workers, Restart(w) PROVE TypeOK'
  BY <1>4 DEF Restart, deploymentVars
<1>5. CASE Configure \/ Rotate \/ ChangeSeed \/ UNCHANGED vars
  BY <1>5 DEF Configure, Rotate, ChangeSeed, vars, deploymentVars, workerVars
<1>6. ASSUME NEW w \in Workers, KeyUnavailable(w) PROVE TypeOK'
  BY <1>6 DEF KeyUnavailable, deploymentVars
<1> QED
  BY <1>1, <1>2, <1>3, <1>4, <1>5, <1>6 DEF Next

\* Every variable keeps its type.
THEOREM PackageTypes == Spec => []TypeOK
<1>1. Init => TypeOK
  BY PackageAssumption DEF Init, TypeOK, AllKeys
<1> QED
  BY <1>1, TypeOKStep, ShelfInvInit, ShelfInvStep, PTL DEF Spec

=============================================================================
