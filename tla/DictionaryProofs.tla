--------------------------- MODULE DictionaryProofs ---------------------------
(***************************************************************************)
(* Proofs about Dictionary, for any keys, items, enumerators and bounds:   *)
(* its buckets, its count and its enumerators stay sound, and it           *)
(* implements OrderedMap.                                                  *)
(***************************************************************************)
EXTENDS Dictionary, ListFacts

\* Scripts use at most one of the keys that Empty matches, besides Empty: the
\* empty string, or zero without a sign.  (With both, put_Key can leave a pair
\* whose own key finds another pair, for it looks at the first match only.)
OneDefault ==
  /\ \A k, l \in Default : kind[k] # "empty" /\ kind[l] # "empty" => k = l
  /\ \A m \in Method, k \in Default : hash_of(m, k) = 0

Frames == [op : {"release", "store", "rename", "removeall"},
           pair : Pair \cup {None}, val : Item \cup Key]
Matches(p, k) == Same(method, key[p], k)

-----------------------------------------------------------------------------
(***************************************************************************)
(* The inductive invariant                                                 *)
(***************************************************************************)

HashesSound == \A p \in pairs : hash[p] = get_HashVal(key[p])

\* The list of a bucket holds the pairs with that bucket, each once.
ListsSound ==
  \A b \in Buckets :
    /\ IsInjective(bucket[b])
    /\ \A p \in Pair : p \in Range(bucket[b]) <=> p \in pairs /\ Bucket(hash[p]) = b

KeysDistinct == \A p, q \in pairs : Matches(p, key[q]) => p = q

\* While RemoveAll is under way count stands still.
CountSound ==
  (\A n \in DOMAIN calls : calls[n].op # "removeall") => count = Cardinality(pairs)

EnumeratorsSound ==
  /\ \A e \in Enumerator \ open : cur[e] = None
  /\ \A e \in open \ stale : cur[e] \in pairs \cup {None}

\* What a call under way still relies on: the pair of a put_Item is in the list;
\* the new key of a put_Key is still free; RemoveAll stands on the first pair,
\* and no enumerator walks meanwhile.
ReleaseSound(f) == f.pair = None
StoreSound(f) == f.pair \in pairs /\ f.val \in Item
RenameSound(f) ==
  /\ f.pair \in pairs /\ f.val \in Key
  /\ \A q \in pairs : Matches(q, f.val) => q = f.pair
RemoveAllSound(f) == f.pair = NextPair(None) /\ open \subseteq stale
CallsSound ==
  \A n \in DOMAIN calls :
    /\ calls[n].op = "release" => ReleaseSound(calls[n])
    /\ calls[n].op = "store" => StoreSound(calls[n])
    /\ calls[n].op = "rename" => RenameSound(calls[n])
    /\ calls[n].op = "removeall" => RemoveAllSound(calls[n])

\* A put_Key under way is alone with releases and stores, a RemoveAll with
\* releases.
CallsNest ==
  \A m, n \in DOMAIN calls : m # n =>
    /\ calls[n].op = "rename" => calls[m].op \in {"release", "store"}
    /\ calls[n].op = "removeall" => calls[m].op = "release"

ListInv == HashesSound /\ ListsSound /\ KeysDistinct /\ CountSound
IInv == TypeOK /\ ListInv /\ EnumeratorsSound /\ CallsSound /\ CallsNest

-----------------------------------------------------------------------------
(***************************************************************************)
(* Keys                                                                    *)
(***************************************************************************)

\* Keys that are the same have the same hash.
LEMMA SameHash ==
  ASSUME OneDefault, NEW m \in Method, NEW k \in Key, NEW l \in Key, Same(m, k, l)
  PROVE  hash_of(m, k) = hash_of(m, l)
<1>. USE DictionaryAssumption
<1>1. CASE "empty" \in {kind[k], kind[l]}
  BY <1>1 DEF Same, OneDefault
<1>2. CASE "empty" \notin {kind[k], kind[l]}
  <2>1. kind[k] = kind[l] /\ kind[k] \in {"string", "number", "ptr", "null"}
    BY <1>2 DEF Same
  <2>2. CASE kind[k] = "string"
    BY <1>2, <2>1, <2>2 DEF Same, Method
  <2>3. CASE kind[k] \in {"number", "ptr"}
    BY <1>2, <2>1, <2>3 DEF Same
  <2>4. CASE kind[k] = "null"
    BY <2>1, <2>4
  <2>. QED
    BY <2>1, <2>2, <2>3, <2>4
<1>. QED
  BY <1>1, <1>2

LEMMA SameReflexive ==
  ASSUME NEW m \in Method, NEW k \in Key
  PROVE  Same(m, k, k)
BY DictionaryAssumption DEF Same, Method

LEMMA SameSymmetric ==
  ASSUME NEW m \in Method, NEW k \in Key, NEW l \in Key, Same(m, k, l)
  PROVE  Same(m, l, k)
BY DictionaryAssumption DEF Same, Method

LEMMA SameTransitive ==
  ASSUME OneDefault, NEW m \in Method, NEW j \in Key, NEW k \in Key, NEW l \in Key,
         Same(m, j, k), Same(m, k, l)
  PROVE  Same(m, j, l)
<1>. USE DictionaryAssumption
<1>1. CASE kind[k] = "empty"
  <2>1. {j, k, l} \subseteq Default
    BY <1>1 DEF Same
  <2>2. CASE "empty" \in {kind[j], kind[l]}
    BY <2>1, <2>2 DEF Same
  <2>3. CASE "empty" \notin {kind[j], kind[l]}
    <3>1. j = l
      BY <2>1, <2>3 DEF OneDefault
    <3>. QED
      BY <3>1, SameReflexive
  <2>. QED
    BY <2>2, <2>3
<1>2. CASE kind[k] # "empty" /\ "empty" \in {kind[j], kind[l]}
  <2>1. ASSUME NEW x \in Key, Same(m, x, k) \/ Same(m, k, x), k \in Default
        PROVE  x \in Default
    BY <1>2, <2>1 DEF Same, Method
  <2>2. k \in Default
    BY <1>2 DEF Same
  <2>3. j \in Default /\ l \in Default
    BY <2>1, <2>2
  <2>. QED
    BY <1>2, <2>3 DEF Same
<1>3. CASE "empty" \notin {kind[j], kind[k], kind[l]}
  BY <1>3 DEF Same, Method
<1>. QED
  BY <1>1, <1>2, <1>3
-----------------------------------------------------------------------------
(***************************************************************************)
(* Looking up                                                              *)
(***************************************************************************)

LEMMA PairsAreNumbers ==
  ASSUME TypeOK
  PROVE  /\ pairs \subseteq Pair /\ Pair \subseteq Nat /\ None \notin Pair
         /\ \A p \in Pair : key[p] \in Key /\ hash[p] \in Nat /\ item[p] \in Item
         /\ method \in Method
<1>1. MaxPairs \in Nat /\ allocated \in 0..MaxPairs /\ pairs \subseteq 1..allocated
  BY DictionaryAssumption DEF TypeOK
<1>2. 1..allocated \subseteq 1..MaxPairs
  BY <1>1
<1>3. pairs \subseteq Pair /\ Pair \subseteq Nat /\ None \notin Pair
  BY <1>1, <1>2 DEF Pair, None
<1>. QED
  BY <1>3 DEF TypeOK

LEMMA HashIsBucket ==
  ASSUME NEW m \in Method, NEW k \in Key
  PROVE  hash_of(m, k) \in Nat /\ Bucket(hash_of(m, k)) \in Buckets
BY DictionaryAssumption DEF Buckets

\* The pair after p: the least one above p.
LEMMA NextPairIs ==
  ASSUME TypeOK, NEW p \in Nat
  PROVE  /\ NextPair(p) \in pairs \cup {None}
         /\ NextPair(p) = None <=> \A q \in pairs : ~(q > p)
         /\ NextPair(p) # None => NextPair(p) > p /\ \A q \in pairs : q > p => NextPair(p) <= q
<1>. DEFINE later == {q \in pairs : q > p}
<1>1. later \in SUBSET Nat /\ pairs \subseteq Pair
  BY PairsAreNumbers
<1>2. CASE later = {}
  <2>1. NextPair(p) = None
    BY <1>2 DEF NextPair
  <2>. QED
    BY <1>2, <2>1
<1>3. CASE later # {}
  <2>1. Min(later) \in later /\ \A q \in later : Min(later) <= q
    BY <1>1, <1>3, MinIsLeast
  <2>2. NextPair(p) = Min(later)
    BY <1>3 DEF NextPair
  <2>3. NextPair(p) # None
    BY <2>1, <2>2, PairsAreNumbers
  <2>. QED
    BY <1>3, <2>1, <2>2, <2>3
<1>. QED
  BY <1>2, <1>3

\* A pair in the list matches a key, as the code compares, if the keys are the
\* same.
LEMMA MatchingIsSame ==
  ASSUME OneDefault, TypeOK, HashesSound, NEW k \in Key, NEW p \in pairs
  PROVE  is_matching_key(p, k, get_HashVal(k)) <=> Matches(p, k)
<1>1. /\ key[p] \in Key /\ method \in Method /\ hash[p] = hash_of(method, key[p])
      /\ kind[k] \in {"string", "number", "ptr", "empty", "null"}
      /\ kind[key[p]] \in {"string", "number", "ptr", "empty", "null"}
  BY DictionaryAssumption DEF TypeOK, HashesSound, get_HashVal, Pair
<1>2. Same(method, key[p], k) => hash[p] = hash_of(method, k)
  BY <1>1, SameHash
<1>3. CASE "empty" \in {kind[k], kind[key[p]]}
  BY <1>3 DEF is_matching_key, Matches, Same
<1>4. CASE "empty" \notin {kind[k], kind[key[p]]} /\ kind[k] = "string"
  BY <1>1, <1>2, <1>4 DEF is_matching_key, Matches, Same, get_HashVal, strcmp_key, Method
<1>5. CASE "empty" \notin {kind[k], kind[key[p]]} /\ kind[k] # "string"
  BY <1>1, <1>2, <1>5 DEF is_matching_key, Matches, Same, get_HashVal
<1>. QED
  BY <1>3, <1>4, <1>5

\* What a lookup finds is in the list and matches; it finds nothing only if
\* nothing in the list matches.
LEMMA LookupFinds ==
  ASSUME OneDefault, TypeOK, HashesSound, ListsSound, NEW k \in Key
  PROVE  LET p == get_keyitem_pair(k) IN
           /\ p \in pairs \cup {None} /\ (p # None => Matches(p, k))
           /\ p = None => \A q \in pairs : ~Matches(q, k)
<1>. DEFINE h == get_HashVal(k)
            list == bucket[Bucket(h)]
            hits == {n \in DOMAIN list : is_matching_key(list[n], k, h)}
<1>1. h \in Nat /\ Bucket(h) \in Buckets /\ method \in Method /\ pairs \subseteq Pair /\ None \notin Pair
  BY HashIsBucket, PairsAreNumbers DEF get_HashVal
<1>2. list \in Seq(Pair) /\ DOMAIN list = 1..Len(list) /\ Len(list) \in Nat
  <2>1. list \in Seq(Pair)
    BY <1>1 DEF TypeOK
  <2>. QED
    BY <2>1, LenProperties
<1>3. \A n \in DOMAIN list : list[n] \in pairs
  <2>1. \A n \in DOMAIN list : list[n] \in Pair /\ list[n] \in Range(list)
    BY <1>2, ElementOfSeq DEF Range
  <2>. QED
    BY <1>1, <2>1 DEF ListsSound
<1>4. hits \in SUBSET Nat
  BY <1>2
<1>5. CASE hits = {}
  <2>1. get_keyitem_pair(k) = None
    BY <1>5 DEF get_keyitem_pair
  <2>2. ASSUME NEW q \in pairs, Matches(q, k)
        PROVE  FALSE
    <3>1. key[q] \in Key /\ hash[q] = h
      <4>1. key[q] \in Key
        BY <1>1 DEF TypeOK
      <4>2. hash_of(method, key[q]) = hash_of(method, k)
        BY <1>1, <2>2, <4>1, SameHash DEF Matches
      <4>. QED
        BY <4>1, <4>2 DEF HashesSound, get_HashVal
    <3>2. q \in Range(list)
      BY <1>1, <3>1 DEF ListsSound
    <3>3. PICK n \in DOMAIN list : list[n] = q
      BY <3>2 DEF Range
    <3>4. is_matching_key(q, k, get_HashVal(k))
      BY <2>2, MatchingIsSame
    <3>. QED
      BY <1>5, <3>3, <3>4
  <2>. QED
    BY <2>1, <2>2
<1>6. CASE hits # {}
  <2>1. Min(hits) \in hits
    BY <1>4, <1>6, MinIsLeast
  <2>2. get_keyitem_pair(k) = list[Min(hits)]
    BY <1>6 DEF get_keyitem_pair
  <2>. DEFINE p == list[Min(hits)]
  <2>3. p \in pairs /\ is_matching_key(p, k, get_HashVal(k))
    BY <1>3, <2>1
  <2>4. Matches(p, k) /\ p # None
    BY <1>1, <2>3, MatchingIsSame
  <2>. QED
    BY <2>2, <2>3, <2>4
<1>. QED
  BY <1>5, <1>6

\* With keys distinct, it finds the pair that matches.
LEMMA LookupIs ==
  ASSUME OneDefault, TypeOK, HashesSound, ListsSound, KeysDistinct,
         NEW k \in Key, NEW p \in pairs, Matches(p, k)
  PROVE  get_keyitem_pair(k) = p
<1>. DEFINE f == get_keyitem_pair(k)
<1>1. f \in pairs /\ Matches(f, k)
  BY LookupFinds
<1>2. key[f] \in Key /\ key[p] \in Key /\ method \in Method
  BY <1>1, PairsAreNumbers
<1>3. Matches(f, key[p])
  BY <1>1, <1>2, SameSymmetric, SameTransitive DEF Matches
<1>. QED
  BY <1>1, <1>3 DEF KeysDistinct
-----------------------------------------------------------------------------
(***************************************************************************)
(* Calls under way                                                         *)
(***************************************************************************)

\* Frames that wait for nothing.
Releases == {f \in Frames : f.op = "release" /\ f.pair = None}

LEMMA ReleaseIs ==
  ASSUME NEW v \in Item \cup Key
  PROVE  Release(v) \in Seq(Releases)
<1>1. Frame("release", None, v) \in Releases
  BY DEF Frame, Frames, Releases
<1>2. \A f \in Releases : <<f>> \in Seq(Releases)
  OBVIOUS
<1>. QED
  BY <1>1, <1>2, EmptySeq DEF Release

LEMMA TwoReleases ==
  ASSUME NEW v \in Item \cup Key, NEW w \in Item \cup Key
  PROVE  Release(v) \o Release(w) \in Seq(Releases)
BY ReleaseIs, ConcatProperties

\* The innermost call and what is below it.
LEMMA TopIs ==
  ASSUME TypeOK, calls # <<>>
  PROVE  /\ Len(calls) \in Nat \ {0} /\ DOMAIN calls = 1..Len(calls)
         /\ Len(calls) \in DOMAIN calls /\ Top \in Frames
         /\ Return \in Seq(Frames) /\ DOMAIN Return = 1..Len(calls) - 1
         /\ Len(Return) = Len(calls) - 1
         /\ \A n \in DOMAIN Return : n \in DOMAIN calls /\ n # Len(calls) /\ Return[n] = calls[n]
<1>1. calls \in Seq(Frames)
  BY DEF TypeOK, Frames
<1>2. /\ Len(calls) \in Nat \ {0} /\ DOMAIN calls = 1..Len(calls)
      /\ Return \in Seq(Frames) /\ DOMAIN Return = 1..Len(calls) - 1
      /\ Len(Return) = Len(calls) - 1
      /\ \A n \in DOMAIN Return : Return[n] = calls[n]
  BY <1>1, FrontParts DEF Return
<1>3. Len(calls) \in DOMAIN calls
  BY <1>2
<1>4. Top \in Frames
  BY <1>1, <1>2, <1>3, ElementOfSeq DEF Top
<1>. QED
  BY <1>2, <1>3, <1>4

\* Where a careful script changes the dictionary, no put_Key and no RemoveAll is
\* under way.
LEMMA MayChangeAlone ==
  ASSUME Careful, MayChange, NEW n \in DOMAIN calls
  PROVE  calls[n].op # "rename" /\ calls[n].op # "removeall"
BY DEF MayChange

\* Calls with more on top of them.
LEMMA PushParts ==
  ASSUME NEW cs \in Seq(Frames), NEW fs \in Seq(Frames)
  PROVE  /\ cs \o fs \in Seq(Frames)
         /\ \A n \in DOMAIN cs : n \in DOMAIN (cs \o fs) /\ (cs \o fs)[n] = cs[n]
         /\ \A n \in DOMAIN (cs \o fs) : n \notin DOMAIN cs =>
              n - Len(cs) \in DOMAIN fs /\ (cs \o fs)[n] = fs[n - Len(cs)]
<1>1. /\ Len(cs) \in Nat /\ DOMAIN cs = 1..Len(cs)
      /\ Len(fs) \in Nat /\ DOMAIN fs = 1..Len(fs)
  BY LenProperties
<1>2. /\ cs \o fs \in Seq(Frames)
      /\ Len(cs \o fs) = Len(cs) + Len(fs)
      /\ \A i \in 1..Len(cs) + Len(fs) : (cs \o fs)[i] = IF i <= Len(cs) THEN cs[i] ELSE fs[i - Len(cs)]
  BY ConcatProperties
<1>3. DOMAIN (cs \o fs) = 1..Len(cs) + Len(fs)
  BY <1>2, LenProperties
<1>. QED
  BY <1>1, <1>2, <1>3

LEMMA PushReleases ==
  ASSUME NEW cs \in Seq(Frames), NEW fs \in Seq(Releases)
  PROVE  /\ cs \o fs \in Seq(Frames)
         /\ \A n \in DOMAIN cs : n \in DOMAIN (cs \o fs) /\ (cs \o fs)[n] = cs[n]
         /\ \A n \in DOMAIN (cs \o fs) : n \notin DOMAIN cs => (cs \o fs)[n] \in Releases
<1>1. fs \in Seq(Frames)
  BY SeqMonotonic DEF Releases
<1>2. \A n \in DOMAIN fs : fs[n] \in Releases
  BY ElementOfSeq, LenProperties
<1>. QED
  BY <1>1, <1>2, PushParts

\* A frame with releases on top of it.
LEMMA PushOne ==
  ASSUME NEW cs \in Seq(Frames), NEW f \in Frames, NEW fs \in Seq(Releases)
  PROVE  LET ds == cs \o <<f>> \o fs IN
           /\ ds \in Seq(Frames)
           /\ \A n \in DOMAIN cs : n \in DOMAIN ds /\ ds[n] = cs[n]
           /\ Len(cs) + 1 \in DOMAIN ds /\ ds[Len(cs) + 1] = f
           /\ \A n \in DOMAIN ds : n \in DOMAIN cs \/ n = Len(cs) + 1 \/ ds[n] \in Releases
           /\ Len(cs) + 1 \notin DOMAIN cs
<1>. DEFINE es == Append(cs, f)
<1>1. cs \o <<f>> = es
  BY AppendIsConcat
<1>2. /\ es \in Seq(Frames) /\ DOMAIN es = 1..Len(cs) + 1 /\ DOMAIN cs = 1..Len(cs)
      /\ \A n \in DOMAIN cs : es[n] = cs[n]
      /\ es[Len(cs) + 1] = f /\ Len(cs) \in Nat
  BY AppendParts
<1>. HIDE DEF es
<1>3. /\ es \o fs \in Seq(Frames)
      /\ \A n \in DOMAIN es : n \in DOMAIN (es \o fs) /\ (es \o fs)[n] = es[n]
      /\ \A n \in DOMAIN (es \o fs) : n \notin DOMAIN es => (es \o fs)[n] \in Releases
  BY <1>2, PushReleases
<1>4. \A n \in DOMAIN es : n \in DOMAIN cs \/ n = Len(cs) + 1
  BY <1>2
<1>. QED
  BY <1>1, <1>2, <1>3, <1>4
-----------------------------------------------------------------------------
(***************************************************************************)
(* Types                                                                   *)
(***************************************************************************)

LEMMA InitTypes == Init => TypeOK
<1>. SUFFICES ASSUME Init
     PROVE  TypeOK
  OBVIOUS
<1>1. NoKey \in Key
  BY DictionaryAssumption DEF NoKey
<1>2. calls \in Seq(Frames) /\ \A b \in Buckets : <<>> \in Seq(Pair)
  BY EmptySeq DEF Init
<1>. QED
  BY <1>1, <1>2, DictionaryAssumption DEF Init, TypeOK, Frames, Method, None

LEMMA NoKeyIsKey == NoKey \in Key /\ Empty \in Item
BY DictionaryAssumption DEF NoKey

\* The lists of the buckets stay lists of pairs.
LEMMA LinkTypes ==
  ASSUME NEW b \in [Buckets -> Seq(Pair)], NEW h \in Nat, NEW p \in Pair
  PROVE  Linked(b, h, p) \in [Buckets -> Seq(Pair)]
<1>1. \A l \in Seq(Pair) : Append(l, p) \in Seq(Pair)
  BY AppendProperties
<1>. QED
  BY <1>1 DEF Linked

LEMMA UnlinkTypes ==
  ASSUME TypeOK, ListsSound, NEW h \in Nat, NEW p \in Pair
  PROVE  Unlinked(bucket, h, p) \in [Buckets -> Seq(Pair)]
<1>1. bucket \in [Buckets -> Seq(Pair)]
  BY DEF TypeOK
<1>2. \A b \in Buckets : RemoveFirst(bucket[b], p) \in Seq(Pair)
  BY <1>1, RemoveParts DEF ListsSound
<1>. QED
  BY <1>1, <1>2 DEF Unlinked

LEMMA AddTypes ==
  ASSUME TypeOK, NEW k \in Key, NEW x \in Item, add_keyitem_pair(k, x)
  PROVE  TypeOK'
<1>. DEFINE p == allocated + 1
<1>1. /\ p \in Pair /\ p \in 0..MaxPairs /\ allocated \in Nat
      /\ pairs \subseteq 1..allocated /\ 1..allocated \subseteq 1..p /\ p \in 1..p
  BY DictionaryAssumption DEF TypeOK, add_keyitem_pair, Pair
<1>2. get_HashVal(k) \in Nat /\ method \in Method
  BY HashIsBucket DEF TypeOK, get_HashVal
<1>3. bucket' \in [Buckets -> Seq(Pair)]
  BY <1>1, <1>2, LinkTypes DEF TypeOK, add_keyitem_pair
<1>4. allocated' \in 0..MaxPairs /\ pairs' \subseteq 1..allocated'
  BY <1>1 DEF add_keyitem_pair
<1>5. key' \in [Pair -> Key] /\ item' \in [Pair -> Item] /\ hash' \in [Pair -> Nat]
  BY <1>1, <1>2 DEF TypeOK, add_keyitem_pair
<1>6. count' \in Nat
  BY DEF TypeOK, add_keyitem_pair
<1>. QED
  BY <1>3, <1>4, <1>5, <1>6 DEF TypeOK, add_keyitem_pair

LEMMA UnlinkPairTypes ==
  ASSUME TypeOK, ListsSound, NEW p \in Pair, unlink(p)
  PROVE  /\ pairs' \subseteq 1..allocated /\ bucket' \in [Buckets -> Seq(Pair)]
         /\ key' \in [Pair -> Key] /\ item' \in [Pair -> Item] /\ hash' \in [Pair -> Nat]
<1>1. bucket' \in [Buckets -> Seq(Pair)]
  BY UnlinkTypes, PairsAreNumbers DEF unlink
<1>. QED
  BY <1>1, NoKeyIsKey DEF TypeOK, unlink

\* A finite number of pairs.
LEMMA PairsAreFinite ==
  ASSUME TypeOK
  PROVE  IsFiniteSet(pairs) /\ Cardinality(pairs) \in Nat
<1>1. IsFiniteSet(1..allocated)
  BY FS_Interval, DictionaryAssumption DEF TypeOK
<1>. QED
  BY <1>1, FS_Subset, FS_CardinalityType DEF TypeOK

LEMMA NextTypes ==
  ASSUME Careful, OneDefault, IInv, [Next]_vars
  PROVE  TypeOK'
<1>. USE DEF IInv, ListInv
<1>1. ASSUME NEW k \in Key, NEW x \in Item, add_keyitem_pair(k, x)
      PROVE  TypeOK'
  BY <1>1, AddTypes
<1>2. CASE put_Item
  <2>1. PICK k \in Key, x \in Item :
          LET p == get_keyitem_pair(k)
          IN IF p = None THEN add_keyitem_pair(k, x)
             ELSE /\ Free(p)
                  /\ calls' = calls \o <<Frame("store", p, x)>> \o Release(item[p])
                  /\ UNCHANGED <<dict, enums>>
    BY <1>2 DEF put_Item
  <2>. DEFINE p == get_keyitem_pair(k)
  <2>2. CASE p = None
    BY <1>1, <2>1, <2>2
  <2>3. CASE p # None
    <3>1. p \in Pair
      BY <2>3, LookupFinds, PairsAreNumbers
    <3>2. Frame("store", p, x) \in Frames /\ item[p] \in Item
      BY <3>1, PairsAreNumbers DEF Frame, Frames
    <3>3. calls' \in Seq(Frames)
      <4>1. calls \in Seq(Frames) /\ Release(item[p]) \in Seq(Releases)
        BY <3>2, ReleaseIs DEF TypeOK, Frames
      <4>2. calls' = calls \o <<Frame("store", p, x)>> \o Release(item[p])
        BY <2>1, <2>3
      <4>. HIDE DEF p
      <4>. QED
        BY <3>2, <4>1, <4>2, PushOne
    <3>. QED
      BY <2>1, <2>3, <3>3 DEF TypeOK, Frames, dict, enums
  <2>. QED
    BY <2>2, <2>3
<1>3. CASE Stored
  <2>1. calls # <<>> /\ Top.op = "store"
    BY <1>3 DEF Stored, Is
  <2>2. Top.val \in Item /\ Top.pair \in Pair /\ Return \in Seq(Frames)
    BY <2>1, TopIs, PairsAreNumbers DEF CallsSound, StoreSound, Top
  <2>. QED
    BY <1>3, <2>2 DEF Stored, TypeOK, Frames, enums
<1>4. CASE put_Key
  <2>1. PICK k \in Key, l \in Key :
          LET p == get_keyitem_pair(k)
          IN /\ p # None
             /\ calls' = calls \o <<Frame("rename", p, l)>> \o Release(key[p])
             /\ UNCHANGED <<dict, enums>>
    BY <1>4 DEF put_Key
  <2>. DEFINE p == get_keyitem_pair(k)
  <2>2. p \in Pair
    BY <2>1, LookupFinds, PairsAreNumbers
  <2>3. Frame("rename", p, l) \in Frames /\ key[p] \in Key
    BY <2>2, PairsAreNumbers DEF Frame, Frames
  <2>4. calls' \in Seq(Frames)
    BY <2>1, <2>3, ReleaseIs, PushOne DEF TypeOK, Frames
  <2>. QED
    BY <2>1, <2>4 DEF TypeOK, Frames, dict, enums
<1>5. CASE Renamed
  <2>1. calls # <<>> /\ Top.op = "rename"
    BY <1>5 DEF Renamed, Is
  <2>2. Top.val \in Key /\ Top.pair \in Pair /\ Return \in Seq(Frames)
    BY <2>1, TopIs, PairsAreNumbers DEF CallsSound, RenameSound, Top
  <2>3. get_HashVal(Top.val) \in Nat
    BY <2>2, HashIsBucket, PairsAreNumbers DEF get_HashVal
  <2>4. bucket' \in [Buckets -> Seq(Pair)]
    BY <1>5, <2>2, <2>3, UnlinkTypes, LinkTypes, PairsAreNumbers DEF Renamed
  <2>5. key' \in [Pair -> Key] /\ hash' \in [Pair -> Nat]
    BY <1>5, <2>2, <2>3 DEF Renamed, TypeOK
  <2>. QED
    BY <1>5, <2>2, <2>4, <2>5 DEF Renamed, TypeOK, Frames, enums
<1>6. CASE dictionary_Remove
  <2>1. PICK k \in Key :
          LET p == get_keyitem_pair(k)
          IN /\ p # None
             /\ notify_remove_pair(p)
             /\ unlink(p)
             /\ count' = count - 1
             /\ calls' = calls \o free_keyitem_pair(p)
    BY <1>6 DEF dictionary_Remove
  <2>. DEFINE p == get_keyitem_pair(k)
  <2>2. p \in pairs /\ p \in Pair
    BY <2>1, LookupFinds, PairsAreNumbers
  <2>3. item[p] \in Item /\ key[p] \in Key
    BY <2>2, PairsAreNumbers
  <2>4. calls' \in Seq(Frames)
    BY <2>1, <2>3, TwoReleases, PushReleases DEF TypeOK, Frames, free_keyitem_pair
  <2>5. cur' \in [Enumerator -> Pair \cup {None}]
    BY <2>1, <2>2, NextPairIs, PairsAreNumbers DEF notify_remove_pair, TypeOK
  <2>6. count' \in Nat
    <3>1. count = Cardinality(pairs)
      BY <1>6, MayChangeAlone DEF dictionary_Remove, CountSound
    <3>2. Cardinality(pairs) # 0
      BY <2>2, PairsAreFinite, FS_EmptySet
    <3>. QED
      BY <2>1, <3>1, <3>2, PairsAreFinite
  <2>. QED
    BY <1>6, <2>1, <2>2, <2>4, <2>5, <2>6, UnlinkPairTypes DEF dictionary_Remove, TypeOK, Frames
<1>7. CASE RemoveAll
  <2>1. NextPair(None) \in Pair \cup {None}
    BY NextPairIs, PairsAreNumbers DEF None
  <2>2. Frame("removeall", NextPair(None), Empty) \in Frames
    BY <2>1, NoKeyIsKey DEF Frame, Frames
  <2>3. calls' \in Seq(Frames)
    BY <1>7, <2>2, AppendParts DEF RemoveAll, TypeOK, Frames
  <2>4. cur' \in [Enumerator -> Pair \cup {None}] /\ stale' \subseteq open
    BY <1>7, <2>1 DEF RemoveAll, TypeOK
  <2>. QED
    BY <1>7, <2>3, <2>4 DEF RemoveAll, TypeOK, Frames, dict
<1>8. CASE RemoveOne
  <2>1. calls # <<>> /\ Top.pair # None
    BY <1>8 DEF RemoveOne, Is
  <2>2. Top.pair \in Pair /\ Return \in Seq(Frames)
    BY <2>1, TopIs DEF Frames
  <2>3. item[Top.pair] \in Item /\ key[Top.pair] \in Key /\ Top.pair \in Nat
    BY <2>2, PairsAreNumbers
  <2>. DEFINE f == Frame("removeall", NextPair(Top.pair), Empty)
  <2>4. f \in Frames
    BY <2>3, NextPairIs, NoKeyIsKey, PairsAreNumbers DEF Frame, Frames
  <2>5. Append(Return, f) \in Seq(Frames)
    BY <2>2, <2>4, AppendParts
  <2>6. calls' \in Seq(Frames)
    BY <1>8, <2>3, <2>5, TwoReleases, PushReleases DEF RemoveOne, free_keyitem_pair
  <2>. QED
    BY <1>8, <2>2, <2>6, UnlinkPairTypes DEF RemoveOne, TypeOK, Frames, enums
<1>9. CASE RemovedAll
  <2>1. Return \in Seq(Frames)
    BY <1>9, TopIs DEF RemovedAll, Is
  <2>. QED
    BY <1>9, <2>1 DEF RemovedAll, TypeOK, Frames, enums
<1>10. CASE put_CompareMode
  BY <1>10 DEF put_CompareMode, TypeOK, enums
<1>11. CASE Released
  <2>1. Return \in Seq(Frames)
    BY <1>11, TopIs DEF Released, Is
  <2>. QED
    BY <1>11, <2>1 DEF Released, TypeOK, Frames, dict, enums
<1>12. CASE create_dict_enum \/ EnumReset \/ EnumNext \/ EnumRelease
  <2>1. \A p \in Pair \cup {None} : NextPair(p) \in Pair \cup {None}
    BY NextPairIs, PairsAreNumbers DEF None
  <2>2. cur' \in [Enumerator -> Pair \cup {None}]
    <3>1. None \in Pair \cup {None} /\ cur \in [Enumerator -> Pair \cup {None}]
      BY DEF TypeOK
    <3>. QED
      BY <1>12, <2>1, <3>1 DEF create_dict_enum, EnumReset, EnumNext, EnumRelease
  <2>3. open' \subseteq Enumerator /\ stale' \subseteq open'
    BY <1>12 DEF create_dict_enum, EnumReset, EnumNext, EnumRelease, TypeOK
  <2>. QED
    BY <1>12, <2>2, <2>3 DEF create_dict_enum, EnumReset, EnumNext, EnumRelease, TypeOK, dict
<1>13. CASE UNCHANGED vars
  BY <1>13 DEF vars, TypeOK
<1>14. CASE Add \/ get_Item
  BY <1>1, <1>14, NoKeyIsKey DEF Add, get_Item
<1>. QED
  BY <1>2, <1>3, <1>4, <1>5, <1>6, <1>7, <1>8, <1>9, <1>10, <1>11, <1>12, <1>13, <1>14
     DEF Next
-----------------------------------------------------------------------------
(***************************************************************************)
(* Buckets, keys and the count                                             *)
(***************************************************************************)

LEMMA LinkedHolds ==
  ASSUME NEW b \in [Buckets -> Seq(Pair)], NEW h, NEW p \in Pair, Bucket(h) \in Buckets,
         \A c \in Buckets : IsInjective(b[c]), p \notin Range(b[Bucket(h)])
  PROVE  \A c \in Buckets :
           /\ IsInjective(Linked(b, h, p)[c])
           /\ \A q : q \in Range(Linked(b, h, p)[c]) <=>
                       q \in Range(b[c]) \/ (c = Bucket(h) /\ q = p)
<1>. SUFFICES ASSUME NEW c \in Buckets
     PROVE  /\ IsInjective(Linked(b, h, p)[c])
            /\ \A q : q \in Range(Linked(b, h, p)[c]) <=>
                        q \in Range(b[c]) \/ (c = Bucket(h) /\ q = p)
  OBVIOUS
<1>1. CASE c # Bucket(h)
  BY <1>1 DEF Linked
<1>2. CASE c = Bucket(h)
  <2>. DEFINE s == b[c]
              t == Append(s, p)
  <2>1. Linked(b, h, p)[c] = t
    BY <1>2 DEF Linked
  <2>2. /\ DOMAIN t = 1..Len(s) + 1 /\ DOMAIN s = 1..Len(s) /\ Len(s) \in Nat
        /\ \A n \in DOMAIN s : t[n] = s[n]
        /\ t[Len(s) + 1] = p
    BY AppendParts
  <2>3. IsInjective(s) /\ \A n \in DOMAIN s : s[n] # p
    BY <1>2 DEF Range
  <2>. HIDE DEF t, s
  <2>4. \A n \in DOMAIN t : n \in DOMAIN s \/ n = Len(s) + 1
    BY <2>2
  <2>5. IsInjective(t)
    BY <2>2, <2>3, <2>4 DEF IsInjective
  <2>6. DOMAIN s \subseteq DOMAIN t /\ Len(s) + 1 \in DOMAIN t
    BY <2>2
  <2>7. \A q : q \in Range(t) <=> q \in Range(s) \/ q = p
    BY <2>2, <2>4, <2>6 DEF Range
  <2>. QED
    BY <1>2, <2>1, <2>5, <2>7 DEF s
<1>. QED
  BY <1>1, <1>2

LEMMA UnlinkedHolds ==
  ASSUME NEW b \in [Buckets -> Seq(Pair)], NEW h, NEW p \in Pair,
         \A c \in Buckets : IsInjective(b[c])
  PROVE  \A c \in Buckets :
           /\ IsInjective(Unlinked(b, h, p)[c])
           /\ \A q : q \in Range(Unlinked(b, h, p)[c]) <=>
                       q \in Range(b[c]) /\ ~(c = Bucket(h) /\ q = p)
BY RemoveParts DEF Unlinked

LEMMA AddLists ==
  ASSUME OneDefault, TypeOK, ListInv, NEW k \in Key, NEW x \in Item,
         get_keyitem_pair(k) = None, add_keyitem_pair(k, x)
  PROVE  ListInv'
<1>. USE DEF ListInv
<1>. DEFINE p == allocated + 1
            h == get_HashVal(k)
<1>1. /\ p \in Pair /\ p \notin pairs /\ pairs \subseteq Pair
      /\ h \in Nat /\ Bucket(h) \in Buckets /\ method \in Method
  <2>1. p \in Pair /\ p \notin pairs
    BY DictionaryAssumption DEF TypeOK, add_keyitem_pair, Pair
  <2>. QED
    BY <2>1, HashIsBucket, PairsAreNumbers DEF get_HashVal
<1>2. /\ pairs' = pairs \cup {p} /\ method' = method
      /\ key'[p] = k /\ hash'[p] = h
      /\ \A q \in pairs : key'[q] = key[q] /\ hash'[q] = hash[q]
      /\ bucket' = Linked(bucket, h, p) /\ count' = count + 1 /\ calls' = calls
  BY <1>1 DEF add_keyitem_pair, TypeOK
<1>3. \A q \in pairs : key[q] \in Key
  BY PairsAreNumbers
<1>. HIDE DEF p, h
<1>4. HashesSound'
  <2>1. h = hash_of(method, k)
    BY DEF h, get_HashVal
  <2>. QED
    BY <1>1, <1>2, <2>1 DEF HashesSound, get_HashVal
<1>5. ListsSound'
  <2>1. bucket \in [Buckets -> Seq(Pair)]
    BY DEF TypeOK
  <2>2. p \notin Range(bucket[Bucket(h)])
    BY <1>1 DEF ListsSound
  <2>3. \A c \in Buckets :
           /\ IsInjective(bucket'[c])
           /\ \A q : q \in Range(bucket'[c]) <=>
                       q \in Range(bucket[c]) \/ (c = Bucket(h) /\ q = p)
    <3>1. \A c \in Buckets : IsInjective(bucket[c])
      BY DEF ListsSound
    <3>2. bucket' = Linked(bucket, h, p) /\ Bucket(h) \in Buckets /\ p \in Pair
      BY <1>1, <1>2
    <3>. QED
      BY ONLY <2>1, <2>2, <3>1, <3>2, LinkedHolds
  <2>4. ASSUME NEW c \in Buckets, NEW q \in Pair
        PROVE  q \in Range(bucket'[c]) <=> q \in pairs' /\ Bucket(hash'[q]) = c
    BY <1>1, <1>2, <2>3, <2>4 DEF ListsSound
  <2>. QED
    BY <2>3, <2>4 DEF ListsSound
<1>6. KeysDistinct'
  <2>1. \A q \in pairs : ~Same(method, key[q], k)
    BY LookupFinds DEF Matches
  <2>2. \A q \in pairs : ~Same(method, k, key[q])
    BY <1>1, <1>3, <2>1, SameSymmetric
  <2>. QED
    BY <1>1, <1>2, <2>1, <2>2 DEF KeysDistinct, Matches
<1>7. CountSound'
  <2>1. Cardinality(pairs \cup {p}) = Cardinality(pairs) + 1
    BY <1>1, PairsAreFinite, FS_AddElement
  <2>. QED
    BY <1>2, <2>1 DEF CountSound
<1>. QED
  BY <1>4, <1>5, <1>6, <1>7

\* A pair that leaves.
LEMMA UnlinkLists ==
  ASSUME TypeOK, ListInv, NEW p \in pairs, unlink(p), method' = method
  PROVE  /\ HashesSound' /\ ListsSound' /\ KeysDistinct'
         /\ Cardinality(pairs') = Cardinality(pairs) - 1
<1>. USE DEF ListInv
<1>1. p \in Pair /\ pairs \subseteq Pair
  BY PairsAreNumbers
<1>2. /\ pairs' = pairs \ {p} /\ bucket' = Unlinked(bucket, hash[p], p)
      /\ \A q \in pairs' : key'[q] = key[q] /\ hash'[q] = hash[q]
  BY <1>1 DEF unlink, TypeOK
<1>3. HashesSound'
  BY <1>2 DEF HashesSound, get_HashVal
<1>4. ListsSound'
  <2>1. bucket \in [Buckets -> Seq(Pair)]
    BY DEF TypeOK
  <2>2. \A c \in Buckets :
           /\ IsInjective(bucket'[c])
           /\ \A q : q \in Range(bucket'[c]) <=>
                       q \in Range(bucket[c]) /\ ~(c = Bucket(hash[p]) /\ q = p)
    <3>1. \A c \in Buckets : IsInjective(bucket[c])
      BY DEF ListsSound
    <3>2. bucket' = Unlinked(bucket, hash[p], p) /\ p \in Pair
      BY <1>1, <1>2
    <3>. QED
      BY ONLY <2>1, <3>1, <3>2, UnlinkedHolds
  <2>3. ASSUME NEW c \in Buckets, NEW q \in Pair
        PROVE  q \in Range(bucket'[c]) <=> q \in pairs' /\ Bucket(hash'[q]) = c
    BY <1>1, <1>2, <2>2, <2>3 DEF ListsSound
  <2>. QED
    BY <2>2, <2>3 DEF ListsSound
<1>5. KeysDistinct'
  BY <1>2 DEF KeysDistinct, Matches
<1>6. Cardinality(pairs') = Cardinality(pairs) - 1
  BY <1>2, PairsAreFinite, FS_RemoveElement
<1>. QED
  BY <1>3, <1>4, <1>5, <1>6

LEMMA RenameLists ==
  ASSUME OneDefault, IInv, Renamed
  PROVE  HashesSound' /\ ListsSound' /\ KeysDistinct'
<1>. USE DEF IInv, ListInv
<1>1. PICK p \in pairs, l \in Key, h \in Nat :
        /\ h = hash_of(method, l)
        /\ key' = [key EXCEPT ![p] = l] /\ hash' = [hash EXCEPT ![p] = h]
        /\ bucket' = Linked(Unlinked(bucket, hash[p], p), h, p)
        /\ \A q \in pairs : Matches(q, l) => q = p
  <2>1. calls # <<>> /\ Len(calls) \in DOMAIN calls /\ Top.op = "rename"
    BY TopIs DEF Renamed, Is
  <2>2. RenameSound(Top)
    BY <2>1 DEF CallsSound, Top
  <2>3. method \in Method /\ Top.val \in Key
    BY <2>2 DEF RenameSound, TypeOK
  <2>4. hash_of(method, Top.val) \in Nat
    BY <2>3, DictionaryAssumption
  <2>. QED
    BY <2>2, <2>4 DEF RenameSound, Renamed, get_HashVal
<1>2. /\ p \in Pair /\ pairs \subseteq Pair /\ method \in Method
      /\ h \in Nat /\ Bucket(h) \in Buckets
      /\ \A q \in pairs : key[q] \in Key
  BY <1>1, HashIsBucket, PairsAreNumbers
<1>3. /\ pairs' = pairs /\ method' = method
      /\ key'[p] = l /\ hash'[p] = h
      /\ \A q \in Pair : q # p => key'[q] = key[q] /\ hash'[q] = hash[q]
  BY <1>1, <1>2 DEF Renamed, TypeOK
<1>4. HashesSound'
  BY <1>1, <1>2, <1>3 DEF HashesSound, get_HashVal
<1>5. ListsSound'
  <2>. DEFINE b == Unlinked(bucket, hash[p], p)
  <2>1. bucket \in [Buckets -> Seq(Pair)] /\ hash[p] \in Nat
    BY <1>2 DEF TypeOK
  <2>2. \A c \in Buckets :
           /\ IsInjective(b[c])
           /\ \A q : q \in Range(b[c]) <=>
                       q \in Range(bucket[c]) /\ ~(c = Bucket(hash[p]) /\ q = p)
    BY <1>2, <2>1, UnlinkedHolds DEF ListsSound
  <2>3. b \in [Buckets -> Seq(Pair)]
    BY <1>2, <2>1, UnlinkTypes
  <2>4. \A c \in Buckets : p \notin Range(b[c])
    BY <1>2, <2>2 DEF ListsSound
  <2>5. \A c \in Buckets :
           /\ IsInjective(bucket'[c])
           /\ \A q : q \in Range(bucket'[c]) <=>
                       q \in Range(b[c]) \/ (c = Bucket(h) /\ q = p)
    <3>. HIDE DEF b
    <3>1. bucket' = Linked(b, h, p)
      BY <1>1 DEF b
    <3>2. /\ Bucket(h) \in Buckets /\ p \in Pair /\ p \notin Range(b[Bucket(h)])
          /\ \A c \in Buckets : IsInjective(b[c])
      BY <1>2, <2>2, <2>4
    <3>3. \A c \in Buckets :
           /\ IsInjective(Linked(b, h, p)[c])
           /\ \A q : q \in Range(Linked(b, h, p)[c]) <=>
                       q \in Range(b[c]) \/ (c = Bucket(h) /\ q = p)
      BY ONLY <2>3, <3>2, LinkedHolds
    <3>. QED
      BY <3>1, <3>3
  <2>. HIDE DEF b
  <2>6. ASSUME NEW c \in Buckets, NEW q \in Pair
        PROVE  q \in Range(bucket'[c]) <=> q \in pairs' /\ Bucket(hash'[q]) = c
    <3>1. CASE q = p
      BY <1>1, <1>3, <2>4, <2>5, <3>1
    <3>2. CASE q # p
      BY <1>3, <2>2, <2>5, <3>2 DEF ListsSound
    <3>. QED
      BY <3>1, <3>2
  <2>. QED
    BY <2>5, <2>6 DEF ListsSound
<1>6. KeysDistinct'
  <2>1. \A q \in pairs : Same(method, key[q], l) => q = p
    BY <1>1 DEF Matches
  <2>2. \A q \in pairs : Same(method, l, key[q]) => q = p
    BY <1>2, <2>1, SameSymmetric
  <2>. QED
    BY <1>1, <1>2, <1>3, <2>1, <2>2 DEF KeysDistinct, Matches
<1>. QED
  BY <1>4, <1>5, <1>6
\* RemoveAll under way: it is the innermost call but for releases, and stands on
\* the first pair.
LEMMA RemovingAll ==
  ASSUME IInv, Is("removeall")
  PROVE  /\ Top.pair \in pairs \cup {None} /\ open \subseteq stale
         /\ \A q \in pairs : Top.pair # None /\ Top.pair <= q
         /\ \A n \in DOMAIN Return : Return[n] \in Releases
<1>. USE DEF IInv
<1>1. /\ Len(calls) \in DOMAIN calls /\ Top = calls[Len(calls)] /\ Top.op = "removeall"
      /\ Return \in Seq(Frames)
      /\ \A n \in DOMAIN Return : n \in DOMAIN calls /\ n # Len(calls) /\ Return[n] = calls[n]
  BY TopIs DEF Is, Top
<1>2. Top.pair = NextPair(None) /\ open \subseteq stale
  BY <1>1 DEF CallsSound, RemoveAllSound
<1>3. \A q \in pairs : q > None /\ q \in Nat
  BY PairsAreNumbers DEF None
<1>4. \A q \in pairs : Top.pair # None /\ Top.pair <= q
  BY <1>2, <1>3, NextPairIs DEF None
<1>5. ASSUME NEW n \in DOMAIN Return
      PROVE  Return[n] \in Releases
  <2>1. Return[n] \in Frames /\ Return[n].op = "release"
    BY <1>1, <1>5, ElementOfSeq, LenProperties DEF CallsNest
  <2>. QED
    BY <1>1, <2>1 DEF CallsSound, ReleaseSound, Releases
<1>. QED
  BY <1>2, <1>4, <1>5, NextPairIs DEF None

LEMMA ListsStay ==
  ASSUME ListInv, UNCHANGED <<pairs, bucket, key, hash, method>>
  PROVE  HashesSound' /\ ListsSound' /\ KeysDistinct'
BY DEF ListInv, HashesSound, ListsSound, KeysDistinct, Matches, get_HashVal

\* The count is right as long as no RemoveAll is under way.
LEMMA CountStays ==
  ASSUME CountSound, UNCHANGED <<pairs, count>>,
         \A n \in DOMAIN calls : calls[n].op = "removeall" =>
           \E m \in DOMAIN calls' : calls'[m] = calls[n]
  PROVE  CountSound'
BY DEF CountSound

LEMMA NextLists ==
  ASSUME Careful, OneDefault, IInv, [Next]_vars
  PROVE  ListInv'
<1>. USE DEF IInv
<1>0. HashesSound /\ ListsSound /\ KeysDistinct /\ CountSound
  BY DEF ListInv
<1>1. ASSUME NEW k \in Key, NEW x \in Item, get_keyitem_pair(k) = None, add_keyitem_pair(k, x)
      PROVE  ListInv'
  BY <1>1, AddLists
<1>2. ASSUME NEW f \in Frames, NEW fs \in Seq(Releases), calls' = calls \o <<f>> \o fs,
             UNCHANGED dict
      PROVE  ListInv'
  <2>1. calls \in Seq(Frames)
    BY DEF TypeOK, Frames
  <2>2. \A n \in DOMAIN calls : n \in DOMAIN calls' /\ calls'[n] = calls[n]
    BY <1>2, <2>1, PushOne
  <2>. QED
    BY <1>0, <1>2, <2>2, ListsStay, CountStays DEF dict, ListInv
<1>3. CASE put_Item
  <2>1. PICK k \in Key, x \in Item :
          LET p == get_keyitem_pair(k)
          IN IF p = None THEN add_keyitem_pair(k, x)
             ELSE /\ Free(p)
                  /\ calls' = calls \o <<Frame("store", p, x)>> \o Release(item[p])
                  /\ UNCHANGED <<dict, enums>>
    BY <1>3 DEF put_Item
  <2>. DEFINE p == get_keyitem_pair(k)
  <2>2. CASE p = None
    BY <1>1, <2>1, <2>2
  <2>3. CASE p # None
    <3>1. p \in Pair
      BY <1>0, <2>3, LookupFinds, PairsAreNumbers
    <3>2. Frame("store", p, x) \in Frames /\ Release(item[p]) \in Seq(Releases)
      BY <3>1, PairsAreNumbers, ReleaseIs DEF Frame, Frames
    <3>3. calls' = calls \o <<Frame("store", p, x)>> \o Release(item[p]) /\ UNCHANGED dict
      BY <2>1, <2>3
    <3>. QED
      BY <1>2, <3>2, <3>3
  <2>. QED
    BY <2>2, <2>3
<1>4. CASE put_Key
  <2>1. PICK k \in Key, l \in Key :
          LET p == get_keyitem_pair(k)
          IN /\ p # None
             /\ calls' = calls \o <<Frame("rename", p, l)>> \o Release(key[p])
             /\ UNCHANGED <<dict, enums>>
    BY <1>4 DEF put_Key
  <2>. DEFINE p == get_keyitem_pair(k)
  <2>2. p \in Pair
    BY <1>0, <2>1, LookupFinds, PairsAreNumbers
  <2>3. Frame("rename", p, l) \in Frames /\ Release(key[p]) \in Seq(Releases)
    BY <2>2, PairsAreNumbers, ReleaseIs DEF Frame, Frames
  <2>. QED
    BY <1>2, <2>1, <2>3
<1>5. ASSUME calls # <<>>, Top.op # "removeall", calls' = Return, UNCHANGED <<pairs, count>>
      PROVE  CountSound'
  <2>1. /\ Top = calls[Len(calls)] /\ DOMAIN calls = 1..Len(calls)
        /\ DOMAIN Return = 1..Len(calls) - 1 /\ Len(calls) \in Nat \ {0}
        /\ \A n \in DOMAIN Return : Return[n] = calls[n]
    BY <1>5, TopIs DEF Top
  <2>2. \A n \in DOMAIN calls : n \in DOMAIN Return \/ n = Len(calls)
    BY <2>1
  <2>. QED
    BY <1>0, <1>5, <2>1, <2>2, CountStays
<1>6. CASE Stored
  BY <1>5, <1>6, ListsStay DEF Stored, Is, ListInv
<1>7. CASE Released
  BY <1>5, <1>7, ListsStay DEF Released, Is, ListInv, dict
<1>8. CASE Renamed
  BY <1>5, <1>8, RenameLists DEF Renamed, Is, ListInv
<1>9. CASE dictionary_Remove
  <2>1. PICK k \in Key :
          LET p == get_keyitem_pair(k)
          IN p # None /\ unlink(p) /\ count' = count - 1
    BY <1>9 DEF dictionary_Remove
  <2>. DEFINE p == get_keyitem_pair(k)
  <2>2. p \in pairs
    BY <1>0, <2>1, LookupFinds
  <2>3. /\ HashesSound' /\ ListsSound' /\ KeysDistinct'
        /\ Cardinality(pairs') = Cardinality(pairs) - 1
    BY <1>9, <2>1, <2>2, UnlinkLists DEF dictionary_Remove
  <2>4. count = Cardinality(pairs)
    BY <1>0, <1>9, MayChangeAlone DEF dictionary_Remove, CountSound
  <2>. QED
    BY <2>1, <2>3, <2>4 DEF ListInv, CountSound
<1>10. CASE RemoveAll
  <2>1. NextPair(None) \in Pair \cup {None}
    BY NextPairIs, PairsAreNumbers DEF None
  <2>. DEFINE f == Frame("removeall", NextPair(None), Empty)
  <2>2. f \in Frames /\ f.op = "removeall"
    BY <2>1, NoKeyIsKey DEF Frame, Frames
  <2>3. Len(calls) + 1 \in DOMAIN calls' /\ calls'[Len(calls) + 1] = f
    <3>1. calls \in Seq(Frames) /\ calls' = Append(calls, f)
      BY <1>10 DEF RemoveAll, TypeOK, Frames
    <3>. HIDE DEF f
    <3>. QED
      BY <2>2, <3>1, AppendParts
  <2>. QED
    BY <1>10, <2>2, <2>3, ListsStay DEF RemoveAll, ListInv, CountSound, dict
<1>11. CASE RemoveOne
  <2>1. Top.pair \in pairs /\ unlink(Top.pair) /\ method' = method /\ Return \in Seq(Frames)
    BY <1>11, RemovingAll, TopIs DEF RemoveOne, Is
  <2>2. HashesSound' /\ ListsSound' /\ KeysDistinct'
    BY <2>1, UnlinkLists
  <2>. DEFINE f == Frame("removeall", NextPair(Top.pair), Empty)
              cs == Append(Return, f)
              fs == free_keyitem_pair(Top.pair)
  <2>3. f \in Frames /\ f.op = "removeall"
    BY <2>1, NextPairIs, NoKeyIsKey, PairsAreNumbers DEF Frame, Frames
  <2>4. fs \in Seq(Releases)
    BY <2>1, TwoReleases, PairsAreNumbers DEF free_keyitem_pair
  <2>5. calls' = cs \o fs
    BY <1>11 DEF RemoveOne
  <2>6. Len(Return) + 1 \in DOMAIN calls' /\ calls'[Len(Return) + 1] = f
    <3>. HIDE DEF f, fs
    <3>1. cs \in Seq(Frames) /\ Len(Return) + 1 \in DOMAIN cs /\ cs[Len(Return) + 1] = f
      BY <2>1, <2>3, AppendParts
    <3>. HIDE DEF cs
    <3>. QED
      BY <2>4, <2>5, <3>1, PushReleases
  <2>. QED
    BY <2>2, <2>3, <2>6 DEF ListInv, CountSound
<1>12. CASE RemovedAll
  <2>1. pairs = {}
    BY <1>12, RemovingAll DEF RemovedAll
  <2>. QED
    BY <1>12, <2>1, ListsStay, FS_EmptySet DEF RemovedAll, ListInv, CountSound
<1>13. CASE put_CompareMode
  <2>1. pairs = {}
    <3>1. Cardinality(pairs) = 0
      BY <1>0, <1>13, MayChangeAlone DEF put_CompareMode, CountSound
    <3>. QED
      BY <3>1, PairsAreFinite, FS_EmptySet
  <2>. QED
    BY <1>0, <1>13, <2>1 DEF put_CompareMode, ListInv, HashesSound, ListsSound, KeysDistinct, CountSound
<1>14. CASE create_dict_enum \/ EnumReset \/ EnumNext \/ EnumRelease
  <2>1. UNCHANGED <<dict, calls>>
    BY <1>14 DEF create_dict_enum, EnumReset, EnumNext, EnumRelease
  <2>. QED
    BY <1>0, <2>1, ListsStay, CountStays DEF dict, ListInv
<1>15. CASE UNCHANGED vars
  BY <1>0, <1>15, ListsStay, CountStays DEF vars, ListInv
<1>16. CASE Add \/ get_Item
  BY <1>1, <1>16, NoKeyIsKey DEF Add, get_Item
<1>. QED
  BY <1>3, <1>4, <1>6, <1>7, <1>8, <1>9, <1>10, <1>11, <1>12, <1>13, <1>14, <1>15, <1>16
     DEF Next
-----------------------------------------------------------------------------
(***************************************************************************)
(* Enumerators                                                             *)
(***************************************************************************)

LEMMA NextEnumerators ==
  ASSUME Careful, OneDefault, IInv, [Next]_vars
  PROVE  EnumeratorsSound'
<1>. USE DEF IInv, ListInv
<1>0. /\ \A e \in Enumerator \ open : cur[e] = None
      /\ \A e \in open \ stale : cur[e] \in pairs \cup {None}
      /\ open \subseteq Enumerator /\ cur \in [Enumerator -> Pair \cup {None}]
  BY DEF EnumeratorsSound, TypeOK
<1>1. ASSUME pairs \subseteq pairs', UNCHANGED enums
      PROVE  EnumeratorsSound'
  BY <1>0, <1>1 DEF EnumeratorsSound, enums
<1>2. ASSUME NEW k \in Key, NEW x \in Item, add_keyitem_pair(k, x)
      PROVE  EnumeratorsSound'
  BY <1>1, <1>2 DEF add_keyitem_pair, enums
<1>3. CASE Add \/ get_Item \/ put_Item
  BY <1>1, <1>2, <1>3, NoKeyIsKey DEF Add, get_Item, put_Item, dict
<1>4. CASE Stored \/ put_Key \/ Renamed \/ RemovedAll \/ put_CompareMode \/ Released
  BY <1>1, <1>4 DEF Stored, put_Key, Renamed, RemovedAll, put_CompareMode, Released, dict
<1>5. CASE dictionary_Remove
  <2>1. PICK k \in Key :
          LET p == get_keyitem_pair(k)
          IN p # None /\ unlink(p) /\ notify_remove_pair(p)
    BY <1>5 DEF dictionary_Remove
  <2>. DEFINE p == get_keyitem_pair(k)
  <2>2. p \in pairs /\ p \in Nat
    BY <2>1, LookupFinds, PairsAreNumbers
  <2>3. NextPair(p) \in pairs' \cup {None}
    BY <2>1, <2>2, NextPairIs DEF unlink
  <2>4. open' = open /\ stale' = stale /\ pairs' = pairs \ {p}
        /\ \A e \in Enumerator : cur'[e] = IF e \in open /\ cur[e] = p THEN NextPair(p) ELSE cur[e]
    BY <1>5, <2>1 DEF dictionary_Remove, unlink, notify_remove_pair
  <2>. HIDE DEF p
  <2>. QED
    BY <1>0, <2>3, <2>4 DEF EnumeratorsSound
<1>6. CASE RemoveAll
  BY <1>0, <1>6 DEF RemoveAll, EnumeratorsSound
<1>7. CASE RemoveOne
  <2>1. open \subseteq stale
    BY <1>7, RemovingAll DEF RemoveOne
  <2>. QED
    BY <1>0, <1>7, <2>1 DEF RemoveOne, EnumeratorsSound, enums
<1>8. \A p \in pairs \cup {None} : NextPair(p) \in pairs \cup {None}
  BY NextPairIs, PairsAreNumbers DEF None
<1>9. CASE create_dict_enum
  BY <1>0, <1>8, <1>9 DEF create_dict_enum, EnumeratorsSound, dict
<1>10. CASE EnumReset
  BY <1>0, <1>8, <1>10 DEF EnumReset, EnumeratorsSound, dict
<1>11. CASE EnumNext
  BY <1>0, <1>8, <1>11 DEF EnumNext, EnumeratorsSound, dict
<1>12. CASE EnumRelease
  BY <1>0, <1>12 DEF EnumRelease, EnumeratorsSound, dict
<1>13. CASE UNCHANGED vars
  BY <1>1, <1>13 DEF vars, enums
<1>. QED
  BY <1>3, <1>4, <1>5, <1>6, <1>7, <1>9, <1>10, <1>11, <1>12, <1>13 DEF Next

-----------------------------------------------------------------------------
(***************************************************************************)
(* The calls under way keep what they rely on                              *)
(***************************************************************************)

FrameSound(f) ==
  /\ f.op = "release" => ReleaseSound(f)
  /\ f.op = "store" => StoreSound(f)
  /\ f.op = "rename" => RenameSound(f)
  /\ f.op = "removeall" => RemoveAllSound(f)

\* A step that changes nothing calls rely on, with calls that are old, releases,
\* or sound.
LEMMA CallsKept ==
  ASSUME CallsSound, UNCHANGED <<pairs, key, method, open, stale>>,
         \A n \in DOMAIN calls' :
           \/ \E m \in DOMAIN calls : calls'[n] = calls[m]
           \/ calls'[n] \in Releases
           \/ FrameSound(calls'[n])
  PROVE  CallsSound'
<1>1. \A f : FrameSound(f) => FrameSound(f)'
  BY DEF FrameSound, ReleaseSound, StoreSound, RenameSound, RemoveAllSound, Matches, NextPair
<1>2. \A f \in Releases : FrameSound(f)
  BY DEF FrameSound, Releases, ReleaseSound
<1>3. \A m \in DOMAIN calls : FrameSound(calls[m])
  BY DEF CallsSound, FrameSound
<1>4. \A n \in DOMAIN calls' : FrameSound(calls'[n])
  BY <1>2, <1>3
<1>. QED
  BY <1>1, <1>4 DEF CallsSound, FrameSound
\* Calls that go on where no put_Key and no RemoveAll is under way.
LEMMA AloneStep ==
  ASSUME CallsSound, calls \in Seq(Frames), calls' = calls,
         \A n \in DOMAIN calls : calls[n].op # "rename" /\ calls[n].op # "removeall",
         \A n \in DOMAIN calls : calls[n].op = "store" => calls[n].pair \in pairs'
  PROVE  CallsSound' /\ CallsNest'
BY DEF CallsSound, ReleaseSound, StoreSound, CallsNest

\* The innermost call returns, and changes nothing others rely on.
LEMMA ReturnStep ==
  ASSUME IInv, calls # <<>>, calls' = Return, UNCHANGED <<pairs, key, method, open, stale>>
  PROVE  CallsSound' /\ CallsNest'
<1>. USE DEF IInv
<1>1. \A n \in DOMAIN calls' : n \in DOMAIN calls /\ calls'[n] = calls[n]
  BY TopIs
<1>2. CallsSound'
  BY <1>1, CallsKept
<1>3. CallsNest'
  BY <1>1 DEF CallsNest
<1>. QED
  BY <1>2, <1>3

\* A call begins, with the releases it causes.
LEMMA PushStep ==
  ASSUME Careful, IInv, MayChange, NEW f \in Frames, NEW fs \in Seq(Releases), FrameSound(f),
         f.op = "removeall" => \A n \in DOMAIN calls : calls[n].op # "store",
         calls' = calls \o <<f>> \o fs, UNCHANGED <<pairs, key, method, open, stale>>
  PROVE  CallsSound' /\ CallsNest'
<1>. USE DEF IInv
<1>1. calls \in Seq(Frames)
  BY DEF TypeOK, Frames
<1>2. /\ \A n \in DOMAIN calls : n \in DOMAIN calls' /\ calls'[n] = calls[n]
      /\ calls'[Len(calls) + 1] = f
      /\ \A n \in DOMAIN calls' : n \in DOMAIN calls \/ n = Len(calls) + 1 \/ calls'[n] \in Releases
  BY <1>1, PushOne
<1>3. CallsSound'
  BY <1>2, CallsKept
<1>4. \A n \in DOMAIN calls : calls[n].op \in {"release", "store"}
  <2>1. \A n \in DOMAIN calls : calls[n] \in Frames
    BY <1>1, ElementOfSeq, LenProperties
  <2>. QED
    BY <2>1, MayChangeAlone DEF Frames
<1>5. \A n \in DOMAIN calls' : n = Len(calls) + 1 \/ calls'[n].op \in {"release", "store"}
  BY <1>2, <1>4 DEF Releases
<1>6. \A n \in DOMAIN calls' : n = Len(calls) + 1 \/ calls'[n].op = "release" \/ f.op # "removeall"
  BY <1>2, <1>4 DEF Releases
<1>7. CallsNest'
  <2>. SUFFICES ASSUME NEW m \in DOMAIN calls', NEW n \in DOMAIN calls', m # n
       PROVE  /\ calls'[n].op = "rename" => calls'[m].op \in {"release", "store"}
              /\ calls'[n].op = "removeall" => calls'[m].op = "release"
    BY DEF CallsNest
  <2>. QED
    BY <1>2, <1>5, <1>6
<1>. QED
  BY <1>3, <1>7

LEMMA AddCalls ==
  ASSUME Careful, IInv, MayChange, NEW k \in Key, NEW x \in Item, add_keyitem_pair(k, x)
  PROVE  CallsSound' /\ CallsNest'
<1>1. calls \in Seq(Frames) /\ CallsSound
  BY DEF IInv, TypeOK, Frames
<1>2. \A n \in DOMAIN calls : calls[n].op = "store" => calls[n].pair \in pairs'
  BY <1>1 DEF CallsSound, StoreSound, add_keyitem_pair
<1>. QED
  BY <1>1, <1>2, MayChangeAlone, AloneStep DEF add_keyitem_pair

LEMMA NextCalls ==
  ASSUME Careful, OneDefault, IInv, [Next]_vars
  PROVE  CallsSound' /\ CallsNest'
<1>. USE DEF IInv, ListInv
<1>0. calls \in Seq(Frames)
  BY DEF TypeOK, Frames
<1>1. CASE Add \/ get_Item
  BY <1>1, AddCalls, NoKeyIsKey DEF Add, get_Item
<1>2. CASE put_Item
  <2>1. PICK k \in Key, x \in Item :
          LET p == get_keyitem_pair(k)
          IN IF p = None THEN add_keyitem_pair(k, x)
             ELSE /\ Free(p)
                  /\ calls' = calls \o <<Frame("store", p, x)>> \o Release(item[p])
                  /\ UNCHANGED <<dict, enums>>
    BY <1>2 DEF put_Item
  <2>. DEFINE p == get_keyitem_pair(k)
              f == Frame("store", p, x)
  <2>2. CASE p = None
    BY <1>2, <2>1, <2>2, AddCalls DEF put_Item
  <2>3. CASE p # None
    <3>1. p \in pairs /\ p \in Pair
      BY <2>3, LookupFinds, PairsAreNumbers
    <3>2. f \in Frames /\ Release(item[p]) \in Seq(Releases)
      BY <3>1, PairsAreNumbers, ReleaseIs DEF Frame, Frames
    <3>3. FrameSound(f) /\ f.op # "removeall"
      BY <3>1 DEF FrameSound, StoreSound, Frame
    <3>4. calls' = calls \o <<f>> \o Release(item[p]) /\ UNCHANGED <<pairs, key, method, open, stale>>
      BY <2>1, <2>3 DEF dict, enums
    <3>5. MayChange
      BY <1>2 DEF put_Item
    <3>. HIDE DEF f, p
    <3>. QED
      BY <3>2, <3>3, <3>4, <3>5, PushStep
  <2>. QED
    BY <2>2, <2>3
<1>3. CASE put_Key
  <2>1. PICK k \in Key, l \in Key :
          LET p == get_keyitem_pair(k)
          IN /\ p # None /\ ~Collides(p, l)
             /\ calls' = calls \o <<Frame("rename", p, l)>> \o Release(key[p])
             /\ UNCHANGED <<dict, enums>>
    BY <1>3 DEF put_Key
  <2>. DEFINE p == get_keyitem_pair(k)
              f == Frame("rename", p, l)
  <2>2. p \in pairs /\ p \in Pair
    BY <2>1, LookupFinds, PairsAreNumbers
  <2>3. f \in Frames /\ Release(key[p]) \in Seq(Releases)
    BY <2>2, PairsAreNumbers, ReleaseIs DEF Frame, Frames
  <2>4. \A q \in pairs : Matches(q, l) => q = p
    <3>1. get_keyitem_pair(l) \in {None, p}
      BY <2>1 DEF Collides
    <3>2. ASSUME NEW q \in pairs, Matches(q, l)
          PROVE  q = p
      <4>1. get_keyitem_pair(l) = q /\ q # None
        BY <3>2, LookupIs, PairsAreNumbers
      <4>. QED
        BY <3>1, <4>1
    <3>. QED
      BY <3>2
  <2>5. FrameSound(f) /\ f.op # "removeall"
    BY <2>2, <2>4 DEF FrameSound, RenameSound, Frame
  <2>6. /\ calls' = calls \o <<f>> \o Release(key[p])
        /\ UNCHANGED <<pairs, key, method, open, stale>> /\ MayChange
    BY <1>3, <2>1 DEF put_Key, dict, enums
  <2>. HIDE DEF f, p
  <2>. QED
    BY <2>3, <2>5, <2>6, PushStep
<1>4. CASE Stored
  BY <1>4, ReturnStep DEF Stored, Is, enums
<1>5. CASE Renamed
  <2>1. /\ calls # <<>> /\ Top = calls[Len(calls)] /\ Top.op = "rename" /\ Len(calls) \in DOMAIN calls
        /\ \A n \in DOMAIN calls' : n \in DOMAIN calls /\ n # Len(calls) /\ calls'[n] = calls[n]
    BY <1>5, TopIs DEF Renamed, Is, Top
  <2>2. \A n \in DOMAIN calls' : calls'[n].op \in {"release", "store"}
    BY <2>1 DEF CallsNest
  <2>3. CallsSound'
    BY <1>5, <2>1, <2>2 DEF CallsSound, ReleaseSound, StoreSound, Renamed
  <2>4. CallsNest'
    BY <2>2 DEF CallsNest
  <2>. QED
    BY <2>3, <2>4
<1>6. CASE dictionary_Remove
  <2>1. PICK k \in Key :
          LET p == get_keyitem_pair(k)
          IN p # None /\ Free(p) /\ unlink(p) /\ calls' = calls \o free_keyitem_pair(p)
    BY <1>6 DEF dictionary_Remove
  <2>. DEFINE p == get_keyitem_pair(k)
  <2>2. p \in pairs /\ p \in Pair
    BY <2>1, LookupFinds, PairsAreNumbers
  <2>3. free_keyitem_pair(p) \in Seq(Releases)
    BY <2>2, TwoReleases, PairsAreNumbers DEF free_keyitem_pair
  <2>4. /\ \A n \in DOMAIN calls : calls'[n] = calls[n]
        /\ \A n \in DOMAIN calls' : n \notin DOMAIN calls => calls'[n] \in Releases
    BY <1>0, <2>1, <2>3, PushReleases
  <2>5. \A n \in DOMAIN calls : calls[n].op # "rename" /\ calls[n].op # "removeall"
    BY <1>6, MayChangeAlone DEF dictionary_Remove
  <2>6. \A n \in DOMAIN calls : calls[n].op = "store" => calls[n].pair \in pairs'
    BY <2>1 DEF Free, CallsSound, StoreSound, unlink
  <2>7. \A n \in DOMAIN calls' :
          /\ calls'[n].op # "rename" /\ calls'[n].op # "removeall"
          /\ calls'[n].op = "store" => calls'[n].pair \in pairs' /\ calls'[n].val \in Item
          /\ calls'[n].op = "release" => calls'[n].pair = None
    BY <2>4, <2>5, <2>6 DEF CallsSound, StoreSound, ReleaseSound, Releases
  <2>8. CallsSound'
    BY <2>7 DEF CallsSound, StoreSound, ReleaseSound
  <2>9. CallsNest'
    BY <2>7 DEF CallsNest
  <2>. QED
    BY <2>8, <2>9
<1>7. CASE RemoveAll
  <2>. DEFINE f == Frame("removeall", NextPair(None), Empty)
  <2>1. f \in Frames /\ f.op = "removeall" /\ f.pair = NextPair(None)
    BY NextPairIs, PairsAreNumbers, NoKeyIsKey DEF Frame, Frames, None
  <2>2. /\ \A n \in DOMAIN calls : calls[n].op # "rename" /\ calls[n].op # "removeall"
    BY <1>7, MayChangeAlone DEF RemoveAll
  <2>3. \A n \in DOMAIN calls : calls[n].op # "store"
    BY <1>7 DEF RemoveAll, Free, CallsSound, StoreSound
  <2>4. \A n \in DOMAIN calls : calls[n].op = "release" /\ calls[n].pair = None
    <3>1. \A n \in DOMAIN calls : calls[n] \in Frames
      BY <1>0, ElementOfSeq, LenProperties
    <3>. QED
      BY <2>2, <2>3, <3>1 DEF Frames, CallsSound, ReleaseSound
  <2>5. \A n \in DOMAIN calls' : (n \in DOMAIN calls /\ calls'[n] = calls[n]) \/ (n = Len(calls) + 1 /\ calls'[n] = f)
    <3>1. calls' = Append(calls, f)
      BY <1>7 DEF RemoveAll
    <3>. HIDE DEF f
    <3>. QED
      BY <1>0, <2>1, <3>1, AppendParts
  <2>6. open' \subseteq stale' /\ NextPair(None)' = NextPair(None)
    BY <1>7 DEF RemoveAll, dict, NextPair
  <2>. HIDE DEF f
  <2>7. CallsSound'
    BY <2>1, <2>4, <2>5, <2>6 DEF CallsSound, ReleaseSound, RemoveAllSound
  <2>8. CallsNest'
    BY <2>1, <2>4, <2>5 DEF CallsNest
  <2>. QED
    BY <2>7, <2>8
<1>8. CASE RemoveOne
  <2>. DEFINE p == Top.pair
              f == Frame("removeall", NextPair(p), Empty)
              cs == Append(Return, f)
              fs == free_keyitem_pair(p)
  <2>1. /\ p \in pairs /\ p \in Pair /\ p \in Nat /\ open \subseteq stale
        /\ \A q \in pairs : p <= q
        /\ \A n \in DOMAIN Return : Return[n] \in Releases
    BY <1>8, RemovingAll, PairsAreNumbers DEF RemoveOne
  <2>2. f \in Frames /\ f.op = "removeall" /\ f.pair = NextPair(p)
    <3>1. NextPair(p) \in Pair \cup {None}
      BY <2>1, NextPairIs, PairsAreNumbers
    <3>. QED
      BY <3>1, NoKeyIsKey DEF Frame, Frames
  <2>3. fs \in Seq(Releases)
    BY <2>1, TwoReleases, PairsAreNumbers DEF free_keyitem_pair
  <2>4. Return \in Seq(Frames) /\ calls' = cs \o fs
    BY <1>8, TopIs DEF RemoveOne, Is
  <2>5. NextPair(None)' = NextPair(p)
    <3>1. pairs' = pairs \ {p}
      BY <1>8 DEF RemoveOne, unlink
    <3>2. \A q \in pairs : q \in Nat /\ q # None
      BY PairsAreNumbers
    <3>3. {q \in pairs' : q > None} = {q \in pairs : q > p}
      BY <2>1, <3>1, <3>2 DEF None
    <3>. QED
      BY <3>3 DEF NextPair
  <2>6. open' \subseteq stale'
    BY <1>8, <2>1 DEF RemoveOne, enums
  <2>7. \A n \in DOMAIN calls' : calls'[n] \in Releases \/ (n = Len(Return) + 1 /\ calls'[n] = f)
    <3>. HIDE DEF f, fs
    <3>1. /\ cs \in Seq(Frames)
          /\ \A n \in DOMAIN cs : (n \in DOMAIN Return /\ cs[n] = Return[n]) \/ (n = Len(Return) + 1 /\ cs[n] = f)
      BY <2>2, <2>4, AppendParts
    <3>. HIDE DEF cs
    <3>2. /\ \A n \in DOMAIN cs : calls'[n] = cs[n]
          /\ \A n \in DOMAIN calls' : n \notin DOMAIN cs => calls'[n] \in Releases
      BY <2>3, <2>4, <3>1, PushReleases
    <3>. QED
      BY <2>1, <3>1, <3>2
  <2>. HIDE DEF f
  <2>8. CallsSound'
    BY <2>2, <2>5, <2>6, <2>7 DEF CallsSound, ReleaseSound, RemoveAllSound, Releases
  <2>9. CallsNest'
    BY <2>2, <2>7 DEF CallsNest, Releases
  <2>. QED
    BY <2>8, <2>9
<1>9. CASE RemovedAll
  BY <1>9, ReturnStep DEF RemovedAll, Is, enums
<1>10. CASE put_CompareMode
  <2>1. \A n \in DOMAIN calls : calls[n].op # "rename" /\ calls[n].op # "removeall"
    BY <1>10, MayChangeAlone DEF put_CompareMode
  <2>2. \A n \in DOMAIN calls : calls[n].op = "store" => calls[n].pair \in pairs'
    BY <1>10 DEF put_CompareMode, CallsSound, StoreSound
  <2>. QED
    BY <1>0, <1>10, <2>1, <2>2, AloneStep DEF put_CompareMode
<1>11. CASE Released
  BY <1>11, ReturnStep DEF Released, Is, dict, enums
<1>12. CASE create_dict_enum \/ EnumReset
  <2>1. \A n \in DOMAIN calls : calls[n].op # "rename" /\ calls[n].op # "removeall"
    BY <1>12, MayChangeAlone DEF create_dict_enum, EnumReset
  <2>2. UNCHANGED <<pairs, calls>>
    BY <1>12 DEF create_dict_enum, EnumReset, dict
  <2>3. \A n \in DOMAIN calls : calls[n].op = "store" => calls[n].pair \in pairs'
    BY <2>2 DEF CallsSound, StoreSound
  <2>. QED
    BY <1>0, <2>1, <2>2, <2>3, AloneStep
<1>13. CASE EnumNext \/ UNCHANGED vars
  <2>1. UNCHANGED <<pairs, key, method, open, stale, calls>>
    BY <1>13 DEF EnumNext, dict, vars
  <2>. QED
    BY <2>1, CallsKept DEF CallsNest
<1>14. CASE EnumRelease
  <2>1. UNCHANGED <<pairs, key, method, calls>> /\ (open \subseteq stale => open' \subseteq stale')
    BY <1>14 DEF EnumRelease, dict
  <2>2. NextPair(None)' = NextPair(None)
    BY <2>1 DEF NextPair
  <2>. QED
    BY <2>1, <2>2 DEF CallsNest, CallsSound, ReleaseSound, StoreSound, RenameSound, RemoveAllSound, Matches
<1>. QED
  BY <1>1, <1>2, <1>3, <1>4, <1>5, <1>6, <1>7, <1>8, <1>9, <1>10, <1>11, <1>12, <1>13, <1>14
     DEF Next
-----------------------------------------------------------------------------
(***************************************************************************)
(* The theorems                                                            *)
(***************************************************************************)

LEMMA InitInvariant == Init => IInv
<1>. SUFFICES ASSUME Init
     PROVE  IInv
  OBVIOUS
<1>1. DOMAIN calls = {} /\ pairs = {} /\ Cardinality(pairs) = 0
  BY FS_EmptySet DEF Init
<1>2. ListInv
  <2>1. \A b \in Buckets : bucket[b] = <<>> /\ DOMAIN bucket[b] = {}
    BY DEF Init
  <2>. QED
    BY <1>1, <2>1 DEF Init, ListInv, HashesSound, ListsSound, KeysDistinct, CountSound, IsInjective, Range
<1>3. EnumeratorsSound /\ CallsSound /\ CallsNest
  BY <1>1 DEF Init, EnumeratorsSound, CallsSound, CallsNest
<1>. QED
  BY <1>2, <1>3, InitTypes DEF IInv

LEMMA Invariance ==
  ASSUME Careful, OneDefault
  PROVE  Spec => []IInv
<1>1. IInv /\ [Next]_vars => IInv'
  BY NextTypes, NextLists, NextEnumerators, NextCalls DEF IInv
<1>. QED
  BY <1>1, InitInvariant, PTL DEF Spec

\* Every variable of a dictionary keeps its type.
THEOREM TypesAlways ==
  ASSUME Careful, OneDefault
  PROVE  Spec => []TypeOK
<1>1. IInv => TypeOK
  BY DEF IInv
<1>. QED
  BY <1>1, Invariance, PTL

\* Every pair is in the bucket of its key, its key finds it, and Count counts,
\* whatever scripts do that run while a key or an item is released.
THEOREM BucketsSoundAlways ==
  ASSUME Careful, OneDefault
  PROVE  Spec => []BucketsSound
<1>1. ASSUME IInv
      PROVE  BucketsSound
  <2>. USE <1>1 DEF IInv, ListInv
  <2>1. \A p \in pairs : get_keyitem_pair(key[p]) = p
    <3>1. \A p \in pairs : key[p] \in Key /\ method \in Method
      BY PairsAreNumbers
    <3>2. \A p \in pairs : Matches(p, key[p])
      BY <3>1, SameReflexive DEF Matches
    <3>. QED
      BY <3>1, <3>2, LookupIs
  <2>2. \A b \in Buckets : Range(bucket[b]) = {p \in pairs : Bucket(hash[p]) = b}
    <3>1. \A b \in Buckets : Range(bucket[b]) \subseteq Pair
      <4>1. \A b \in Buckets : bucket[b] \in Seq(Pair)
        BY DEF TypeOK
      <4>. QED
        BY <4>1, ElementOfSeq, LenProperties DEF Range
    <3>. QED
      BY <3>1, PairsAreNumbers DEF ListsSound
  <2>. QED
    BY <2>1, <2>2 DEF BucketsSound, HashesSound, ListsSound, CountSound
<1>. QED
  BY <1>1, Invariance, PTL

\* Enumerators and calls under way stand on pairs of the list.
THEOREM NothingStaleAlways ==
  ASSUME Careful, OneDefault
  PROVE  Spec => []NothingStale
<1>1. ASSUME IInv
      PROVE  NothingStale
  <2>. USE <1>1 DEF IInv, ListInv
  <2>1. \A n \in DOMAIN calls : calls[n] \in Frames
    <3>1. calls \in Seq(Frames)
      BY DEF TypeOK, Frames
    <3>. QED
      BY <3>1, ElementOfSeq, LenProperties
  <2>2. NextPair(None) \in pairs \cup {None}
    BY NextPairIs DEF None
  <2>. QED
    BY <2>1, <2>2 DEF NothingStale, EnumeratorsSound, CallsSound, Frames,
         ReleaseSound, StoreSound, RenameSound, RemoveAllSound
<1>. QED
  BY <1>1, Invariance, PTL
-----------------------------------------------------------------------------
(***************************************************************************)
(* A dictionary is an ordered map                                          *)
(***************************************************************************)

Ahead(e) == IF e \in stale \/ cur[e] = None THEN {} ELSE {p \in pairs : p >= cur[e]}
EntryOf(p) == [key |-> key[p], item |-> item[p]]

\* What an enumerator is still to visit is empty only at the end of the list.
LEMMA AheadIs ==
  ASSUME IInv, NEW e \in Enumerator
  PROVE  /\ Ahead(e) = {} <=> e \in stale \/ cur[e] = None
         /\ e \notin open => cur[e] = None
         /\ e \in stale => e \in open
         /\ e \notin stale /\ cur[e] # None => cur[e] \in pairs /\ cur[e] \in Ahead(e)
<1>. USE DEF IInv
<1>1. /\ e \notin open => cur[e] = None
      /\ e \in stale => e \in open
      /\ e \notin stale /\ cur[e] # None => cur[e] \in pairs
  BY DEF EnumeratorsSound, TypeOK
<1>2. \A p \in pairs : p \in Nat
  BY PairsAreNumbers
<1>. QED
  BY <1>1, <1>2 DEF Ahead

\* How the state of the map follows from the state of the dictionary.
LEMMA MapQuiet ==
  ASSUME UNCHANGED <<pairs, method, cur, stale>>,
         \A p \in pairs : key'[p] = key[p] /\ item'[p] = item[p]
  PROVE  UNCHANGED Map!vars
BY DEF Map!vars

LEMMA AddIsAdd ==
  ASSUME OneDefault, IInv, NEW k \in Key, NEW x \in Item,
         get_keyitem_pair(k) = None, add_keyitem_pair(k, x)
  PROVE  Map!Add(k, x)
<1>. USE DEF IInv, ListInv
<1>. DEFINE p == allocated + 1
            entries == [q \in pairs |-> EntryOf(q)]
            ahead == [e \in Enumerator |-> Ahead(e)]
<1>1. /\ p \in Pair /\ p \notin pairs /\ \A q \in pairs : q < p /\ q \in Nat
      /\ pairs \subseteq Pair
  <2>1. p \in Pair /\ \A q \in pairs : q < p
    BY DictionaryAssumption DEF TypeOK, add_keyitem_pair, Pair
  <2>2. p \notin pairs
    BY <2>1, PairsAreNumbers
  <2>. QED
    BY <2>1, <2>2, PairsAreNumbers
<1>2. /\ pairs' = pairs \cup {p} /\ key'[p] = k /\ item'[p] = x
      /\ \A q \in pairs : key'[q] = key[q] /\ item'[q] = item[q]
      /\ UNCHANGED <<method, cur, stale>>
  BY <1>1 DEF add_keyitem_pair, TypeOK
<1>. HIDE DEF p
<1>3. Map!There = pairs
  BY DEF Map!There
<1>4. Map!Under(k) = {}
  BY <1>3, LookupFinds DEF Map!Under, Matches
<1>5. entries' = [q \in pairs \cup {p} |-> IF q = p THEN [key |-> k, item |-> x] ELSE entries[q]]
  BY <1>1, <1>2 DEF EntryOf
<1>6. ahead' = [e \in Enumerator |-> ahead[e] \cup IF ahead[e] = {} THEN {} ELSE {p}]
  <2>1. \A e \in Enumerator : Ahead(e)' = Ahead(e) \cup IF Ahead(e) = {} THEN {} ELSE {p}
    <3>. SUFFICES ASSUME NEW e \in Enumerator
         PROVE  Ahead(e)' = Ahead(e) \cup IF Ahead(e) = {} THEN {} ELSE {p}
      OBVIOUS
    <3>1. CASE Ahead(e) = {}
      BY <1>2, <3>1, AheadIs DEF Ahead
    <3>2. CASE Ahead(e) # {}
      <4>1. e \notin stale /\ cur[e] # None /\ cur[e] \in pairs
        BY <3>2, AheadIs
      <4>2. p >= cur[e]
        BY <1>1, <4>1, PairsAreNumbers
      <4>3. Ahead(e)' = {q \in pairs \cup {p} : q >= cur[e]} /\ Ahead(e) = {q \in pairs : q >= cur[e]}
        BY <1>2, <4>1 DEF Ahead
      <4>4. Ahead(e)' = Ahead(e) \cup {p}
        BY <4>2, <4>3
      <4>. QED
        BY <3>2, <4>4
    <3>. QED
      BY <3>1, <3>2
  <2>. QED
    BY <2>1
<1>. QED
  BY <1>1, <1>2, <1>3, <1>4, <1>5, <1>6 DEF Map!Add, Ahead, EntryOf
LEMMA UnlinkIsRemove ==
  ASSUME IInv, NEW p \in pairs, unlink(p), UNCHANGED <<method, stale>>,
         \A e \in Enumerator :
           e \in stale \/ cur'[e] = IF cur[e] = p THEN NextPair(p) ELSE cur[e]
  PROVE  Map!Remove(p)
<1>. USE DEF IInv
<1>. DEFINE entries == [q \in pairs |-> EntryOf(q)]
            ahead == [e \in Enumerator |-> Ahead(e)]
<1>1. pairs \subseteq Pair /\ \A q \in pairs : q \in Nat /\ q # None
  BY PairsAreNumbers
<1>2. /\ pairs' = pairs \ {p}
      /\ \A q \in pairs' : key'[q] = key[q] /\ item'[q] = item[q]
  BY <1>1 DEF unlink, TypeOK
<1>3. Map!There = pairs
  BY DEF Map!There
<1>4. entries' = Map!Restrict(entries, pairs \ {p})
  BY <1>2 DEF EntryOf, Map!Restrict
<1>5. \A e \in Enumerator : Ahead(e)' = Ahead(e) \ {p}
  <2>. SUFFICES ASSUME NEW e \in Enumerator, e \notin stale
       PROVE  Ahead(e)' = Ahead(e) \ {p}
    BY DEF Ahead
  <2>1. CASE cur[e] = p
    <3>1. cur'[e] = NextPair(p) /\ Ahead(e) = {q \in pairs : q >= p}
      BY <1>1, <2>1 DEF Ahead
    <3>2. CASE NextPair(p) = None
      <4>1. \A q \in pairs : ~(q > p)
        BY <1>1, <3>2, NextPairIs
      <4>2. Ahead(e) \ {p} = {}
        BY <1>1, <3>1, <4>1
      <4>. QED
        BY <3>1, <3>2, <4>2 DEF Ahead
    <3>3. CASE NextPair(p) # None
      <4>1. NextPair(p) \in pairs /\ NextPair(p) > p /\ \A q \in pairs : q > p => NextPair(p) <= q
        BY <1>1, <3>3, NextPairIs
      <4>2. Ahead(e)' = {q \in pairs' : q >= NextPair(p)}
        BY <3>1, <3>3 DEF Ahead
      <4>. QED
        BY <1>1, <1>2, <3>1, <4>1, <4>2
    <3>. QED
      BY <3>2, <3>3
  <2>2. CASE cur[e] # p
    BY <1>2, <2>2 DEF Ahead
  <2>. QED
    BY <2>1, <2>2
<1>6. ahead' = [e \in Enumerator |-> ahead[e] \ {p}]
  BY <1>5
<1>. QED
  BY <1>3, <1>4, <1>6 DEF Map!Remove, Ahead, EntryOf

LEMMA StoredIsPut ==
  ASSUME IInv, Stored
  PROVE  \E k \in Key, x \in Item : Map!Put(k, x)
<1>. USE DEF IInv
<1>. DEFINE entries == [q \in pairs |-> EntryOf(q)]
<1>1. PICK p \in pairs, x \in Item : item' = [item EXCEPT ![p] = x]
  <2>1. calls # <<>> /\ Len(calls) \in DOMAIN calls /\ Top.op = "store"
    BY TopIs DEF Stored, Is
  <2>2. StoreSound(Top)
    BY <2>1 DEF CallsSound, Top
  <2>. QED
    BY <2>2 DEF StoreSound, Stored
<1>2. p \in Pair /\ key[p] \in Key /\ method \in Method
  BY PairsAreNumbers
<1>3. Map!There = pairs /\ p \in Map!Under(key[p])
  BY <1>2, SameReflexive DEF Map!There, Map!Under
<1>4. /\ \A q \in pairs : item'[q] = IF q = p THEN x ELSE item[q]
      /\ UNCHANGED <<pairs, key, method, cur, stale>>
  BY <1>1, <1>2, PairsAreNumbers DEF Stored, enums, TypeOK
<1>5. entries' = [entries EXCEPT ![p].item = x]
  BY <1>4 DEF EntryOf
<1>6. Map!Put(key[p], x)
  BY <1>3, <1>4, <1>5 DEF Map!Put, EntryOf
<1>. QED
  BY <1>2, <1>6

LEMMA RenamedIsRename ==
  ASSUME IInv, Renamed
  PROVE  \E k, l \in Key : Map!Rename(k, l)
<1>. USE DEF IInv
<1>. DEFINE entries == [q \in pairs |-> EntryOf(q)]
<1>1. PICK p \in pairs, l \in Key :
        /\ key' = [key EXCEPT ![p] = l]
        /\ \A q \in pairs : Matches(q, l) => q = p
  <2>1. calls # <<>> /\ Len(calls) \in DOMAIN calls /\ Top.op = "rename"
    BY TopIs DEF Renamed, Is
  <2>2. RenameSound(Top)
    BY <2>1 DEF CallsSound, Top
  <2>. QED
    BY <2>2 DEF RenameSound, Renamed
<1>2. p \in Pair /\ key[p] \in Key /\ method \in Method
  BY PairsAreNumbers
<1>3. Map!There = pairs /\ p \in Map!Under(key[p]) /\ Map!Under(l) \subseteq {p}
  BY <1>1, <1>2, SameReflexive DEF Map!There, Map!Under, Matches
<1>4. /\ \A q \in pairs : key'[q] = IF q = p THEN l ELSE key[q]
      /\ UNCHANGED <<pairs, item, method, cur, stale>>
  BY <1>1, <1>2, PairsAreNumbers DEF Renamed, enums, TypeOK
<1>5. entries' = [entries EXCEPT ![p].key = l]
  BY <1>4 DEF EntryOf
<1>6. Map!Rename(key[p], l)
  BY <1>3, <1>4, <1>5 DEF Map!Rename, EntryOf
<1>. QED
  BY <1>2, <1>6
\* The first pair is where an enumerator that is rewound has everything ahead.
LEMMA RewoundAhead ==
  ASSUME TypeOK
  PROVE  /\ NextPair(None) = None <=> pairs = {}
         /\ NextPair(None) # None => {p \in pairs : p >= NextPair(None)} = pairs
<1>1. None \in Nat /\ \A q \in pairs : q \in Nat /\ q > None
  BY PairsAreNumbers DEF None
<1>. QED
  BY <1>1, NextPairIs

LEMMA EnumerationIsMap ==
  ASSUME IInv, create_dict_enum \/ EnumReset \/ EnumNext \/ EnumRelease
  PROVE  \E e \in Enumerator : Map!Rewind(e) \/ Map!Visit(e) \/ Map!Leave(e)
<1>. USE DEF IInv
<1>. DEFINE entries == [q \in pairs |-> EntryOf(q)]
            ahead == [e \in Enumerator |-> Ahead(e)]
<1>1. /\ UNCHANGED <<pairs, key, item, method>> /\ Map!There = pairs
      /\ open \subseteq Enumerator /\ stale \subseteq open /\ cur \in [Enumerator -> Pair \cup {None}]
  BY DEF create_dict_enum, EnumReset, EnumNext, EnumRelease, dict, Map!There, TypeOK
<1>2. entries' = entries
  BY <1>1 DEF EntryOf
<1>3. ASSUME NEW e \in Enumerator, stale' = stale \ {e},
             cur' = [cur EXCEPT ![e] = NextPair(None)]
      PROVE  Map!Rewind(e)
  <2>1. Ahead(e)' = pairs
    BY <1>1, <1>3, RewoundAhead DEF Ahead
  <2>2. \A d \in Enumerator : d # e => Ahead(d)' = Ahead(d)
    BY <1>1, <1>3 DEF Ahead
  <2>3. ahead' = [ahead EXCEPT ![e] = Map!There]
    BY <1>1, <2>1, <2>2
  <2>. QED
    BY <1>1, <1>2, <1>3, <2>3 DEF Map!Rewind, Ahead, EntryOf
<1>4. CASE create_dict_enum
  <2>1. PICK e \in Enumerator \ open : cur' = [cur EXCEPT ![e] = NextPair(None)] /\ stale' = stale
    BY <1>4 DEF create_dict_enum
  <2>2. stale' = stale \ {e}
    BY <1>1, <2>1
  <2>. QED
    BY <1>3, <2>1, <2>2
<1>5. CASE EnumReset
  BY <1>1, <1>3, <1>5 DEF EnumReset
<1>6. CASE EnumNext
  <2>1. PICK e \in open \ stale : cur[e] # None /\ cur' = [cur EXCEPT ![e] = NextPair(@)]
    BY <1>6 DEF EnumNext
  <2>2. stale' = stale
    BY <1>6 DEF EnumNext
  <2>. DEFINE c == cur[e]
              n == NextPair(c)
  <2>3. e \in Enumerator /\ cur'[e] = n /\ c \in pairs /\ c \in Ahead(e) /\ Ahead(e) = {p \in pairs : p >= c}
    BY <1>1, <2>1, AheadIs DEF Ahead
  <2>4. \A q \in pairs : q \in Nat /\ q # None
    BY PairsAreNumbers
  <2>5. Map!Min(Ahead(e)) = c
    <3>1. Ahead(e) \in SUBSET Nat /\ \A q \in Ahead(e) : c <= q
      BY <2>3, <2>4
    <3>2. Min(Ahead(e)) = c
      BY <2>3, <3>1, MinIs
    <3>. QED
      BY <3>2 DEF Map!Min, Min
  <2>6. Ahead(e)' = Ahead(e) \ {c}
    <3>1. CASE n = None
      <4>1. \A q \in pairs : ~(q > c)
        BY <2>3, <2>4, <3>1, NextPairIs
      <4>2. Ahead(e) \ {c} = {}
        BY <2>3, <2>4, <4>1
      <4>. QED
        BY <2>3, <3>1, <4>2 DEF Ahead
    <3>2. CASE n # None
      <4>1. n \in pairs /\ n > c /\ \A q \in pairs : q > c => n <= q
        BY <2>3, <2>4, <3>2, NextPairIs
      <4>2. Ahead(e)' = {q \in pairs : q >= n}
        BY <1>1, <2>1, <2>2, <2>3, <3>2 DEF Ahead
      <4>3. \A q \in pairs : q >= n <=> q >= c /\ q # c
        <5>. HIDE DEF c, n
        <5>. QED
          BY <2>3, <2>4, <4>1
      <4>. QED
        BY <2>3, <4>2, <4>3
    <3>. QED
      BY <3>1, <3>2
  <2>7. \A d \in Enumerator : d # e => Ahead(d)' = Ahead(d)
    BY <1>1, <2>1, <2>2 DEF Ahead
  <2>. HIDE DEF c
  <2>8. ahead' = [ahead EXCEPT ![e] = @ \ {Map!Min(@)}]
    BY <2>3, <2>5, <2>6, <2>7
  <2>9. Map!Visit(e)
    BY <1>1, <1>2, <2>2, <2>3, <2>8 DEF Map!Visit, Ahead, EntryOf
  <2>. QED
    BY <2>3, <2>9
<1>7. CASE EnumRelease
  <2>1. PICK e \in open : cur' = [cur EXCEPT ![e] = None] /\ stale' = stale \ {e}
    BY <1>7 DEF EnumRelease
  <2>2. e \in Enumerator /\ Ahead(e)' = {}
    BY <1>1, <2>1 DEF Ahead
  <2>3. \A d \in Enumerator : d # e => Ahead(d)' = Ahead(d)
    BY <1>1, <2>1 DEF Ahead
  <2>4. ahead' = [ahead EXCEPT ![e] = {}]
    BY <2>2, <2>3
  <2>5. Map!Leave(e)
    BY <1>1, <1>2, <2>1, <2>4 DEF Map!Leave, Ahead, EntryOf
  <2>. QED
    BY <2>2, <2>5
<1>. QED
  BY <1>4, <1>5, <1>6, <1>7

LEMMA RemoveAllIsLose ==
  ASSUME Careful, IInv, RemoveAll
  PROVE  Map!Lose(open)
<1>. USE DEF IInv, ListInv
<1>. DEFINE entries == [q \in pairs |-> EntryOf(q)]
            ahead == [e \in Enumerator |-> Ahead(e)]
<1>1. pairs # {}
  <2>1. count = Cardinality(pairs) /\ count # 0
    BY MayChangeAlone DEF RemoveAll, CountSound
  <2>. QED
    BY <2>1, FS_EmptySet
<1>2. UNCHANGED <<pairs, key, item, method>> /\ Map!There = pairs /\ stale' = stale \cup open
  BY DEF RemoveAll, dict, Map!There
<1>3. \A e \in Enumerator : Ahead(e)' = {}
  BY <1>2, AheadIs DEF RemoveAll, Ahead
<1>4. entries' = entries /\ ahead' = [e \in Enumerator |-> {}]
  BY <1>2, <1>3 DEF EntryOf
<1>. QED
  BY <1>1, <1>2, <1>4 DEF Map!Lose, Ahead, EntryOf

\* Every step of the dictionary is a step of the map, or none.
LEMMA StepIsMapStep ==
  ASSUME Careful, OneDefault, IInv, [Next]_vars
  PROVE  [Map!Next]_Map!vars
<1>. USE DEF IInv, ListInv
<1>1. ASSUME NEW k \in Key, NEW x \in Item, get_keyitem_pair(k) = None, add_keyitem_pair(k, x)
      PROVE  Map!Next
  BY <1>1, AddIsAdd DEF Map!Next
<1>2. ASSUME UNCHANGED <<pairs, method, cur, stale, key, item>>
      PROVE  UNCHANGED Map!vars
  BY <1>2, MapQuiet
<1>3. CASE Add \/ get_Item
  BY <1>1, <1>3, NoKeyIsKey DEF Add, get_Item
<1>4. CASE put_Item
  BY <1>1, <1>2, <1>4 DEF put_Item, dict, enums
<1>5. CASE put_Key \/ RemovedAll \/ Released \/ UNCHANGED vars
  BY <1>2, <1>5 DEF put_Key, RemovedAll, Released, dict, enums, vars
<1>6. CASE Stored
  BY <1>6, StoredIsPut DEF Map!Next
<1>7. CASE Renamed
  BY <1>7, RenamedIsRename DEF Map!Next
<1>8. CASE dictionary_Remove
  <2>1. PICK k \in Key :
          LET p == get_keyitem_pair(k)
          IN p # None /\ unlink(p) /\ notify_remove_pair(p)
    BY <1>8 DEF dictionary_Remove
  <2>. DEFINE p == get_keyitem_pair(k)
  <2>2. p \in pairs /\ p \in Pair /\ p # None
    BY <2>1, LookupFinds, PairsAreNumbers
  <2>3. \A e \in Enumerator : e \in stale \/ cur'[e] = IF cur[e] = p THEN NextPair(p) ELSE cur[e]
    BY <2>1, <2>2, AheadIs DEF notify_remove_pair
  <2>4. UNCHANGED <<method, stale>>
    BY <1>8 DEF dictionary_Remove
  <2>. HIDE DEF p
  <2>5. unlink(p)
    BY <2>1 DEF p
  <2>. QED
    BY <2>2, <2>3, <2>4, <2>5, UnlinkIsRemove DEF Map!Next
<1>9. CASE RemoveAll
  <2>1. PICK live : live = open
    OBVIOUS
  <2>2. live \in SUBSET Enumerator
    BY <2>1 DEF TypeOK
  <2>3. Map!Lose(open)
    BY <1>9, RemoveAllIsLose
  <2>4. Map!Lose(live)
    BY <2>1, <2>3 DEF Map!Lose
  <2>5. \E l \in SUBSET Enumerator : Map!Lose(l)
    BY <2>2, <2>4
  <2>. QED
    BY <2>5 DEF Map!Next
<1>10. CASE RemoveOne
  <2>1. Top.pair \in pairs /\ Top.pair \in Pair /\ open \subseteq stale
    BY <1>10, RemovingAll, PairsAreNumbers DEF RemoveOne
  <2>2. unlink(Top.pair) /\ UNCHANGED <<method, stale, cur>>
    BY <1>10 DEF RemoveOne, enums
  <2>3. \A e \in Enumerator : e \in stale \/ cur[e] = None
    BY <2>1, AheadIs
  <2>4. \A e \in Enumerator :
          e \in stale \/ cur'[e] = IF cur[e] = Top.pair THEN NextPair(Top.pair) ELSE cur[e]
    BY <2>1, <2>2, <2>3, PairsAreNumbers
  <2>. QED
    BY <2>1, <2>2, <2>4, UnlinkIsRemove DEF Map!Next
<1>11. CASE put_CompareMode
  <2>1. pairs = {}
    <3>1. Cardinality(pairs) = 0
      BY <1>11, MayChangeAlone DEF put_CompareMode, CountSound
    <3>. QED
      BY <3>1, PairsAreFinite, FS_EmptySet
  <2>2. method' \in Method /\ UNCHANGED <<pairs, key, item, cur, stale>>
    BY <1>11 DEF put_CompareMode, enums
  <2>3. Map!SetMethod(method')
    BY <2>1, <2>2 DEF Map!SetMethod, Map!There
  <2>. QED
    BY <2>2, <2>3 DEF Map!Next
<1>12. CASE create_dict_enum \/ EnumReset \/ EnumNext \/ EnumRelease
  BY <1>12, EnumerationIsMap DEF Map!Next
<1>. QED
  BY <1>3, <1>4, <1>5, <1>6, <1>7, <1>8, <1>9, <1>10, <1>11, <1>12 DEF Next

\* The dictionary implements OrderedMap: hashing, buckets and the scripts that
\* run in the middle of an operation do not show.
THEOREM ImplementsOrderedMap ==
  ASSUME Careful, OneDefault
  PROVE  Spec => KeepsOrderedMap
<1>1. Init => Map!Init
  BY DEF Init, Map!Init, Method, None
<1>2. IInv /\ [Next]_vars => [Map!Next]_Map!vars
  BY StepIsMapStep
<1>. QED
  BY <1>1, <1>2, Invariance, PTL DEF Spec, KeepsOrderedMap, Map!Spec
===============================================================================
