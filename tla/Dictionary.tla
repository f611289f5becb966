------------------------------ MODULE Dictionary ------------------------------
(* scrrun/dictionary.c.  The pairs are in one list in the order they were     *)
(* added, and each is in the list of its hash bucket too.  Releasing a key or *)
(* an item may run a script (Class_Terminate of an object), which may call    *)
(* the dictionary again while the call that released it is still under way:   *)
(* those calls are a stack of frames.                                         *)
EXTENDS Integers, Sequences, SequencesExt, FiniteSets, FiniteSetsExt

CONSTANTS Key, Item, Enumerator,
          kind,         \* of a key: string, number, ptr, empty or null
          folded,       \* a key as a comparison without case sees it
          Default,      \* the keys that Empty matches: zero, the empty string
          hash_of(_, _),\* get_HashVal of a key under a method
          Callback,     \* keys and items whose last release runs a script
          MaxPairs,     \* the pairs allocated
          MaxDepth,     \* calls under way at a time
          Careful       \* scripts keep to the rules of Free and MayChange

BUCKET_COUNT == 509
\* DatabaseCompare is as TextCompare; any other number is kept as well.
Method == {"BinaryCompare", "TextCompare", "other"}
Empty == "Empty"
NoKey == CHOOSE k \in Key : kind[k] = "empty"  \* of a pair that is not allocated

ASSUME DictionaryAssumption ==
  /\ MaxPairs \in Nat /\ MaxDepth \in Nat /\ Careful \in BOOLEAN
  /\ kind \in [Key -> {"string", "number", "ptr", "empty", "null"}]
  /\ folded \in [Key -> Key]
  /\ \E k \in Key : kind[k] = "empty"
  /\ Default \subseteq Key /\ \A k \in Key : kind[k] = "empty" => k \in Default
  /\ \A k \in Default : kind[k] \in {"empty", "string", "number"}
  /\ \A k \in Default, l \in Key :
       kind[k] = "string" /\ kind[l] = "string" /\ folded[l] = folded[k] => l = k
  /\ \A m \in Method, k \in Key :
       /\ hash_of(m, k) \in Nat
       /\ kind[k] \in {"empty", "null"} => hash_of(m, k) = 0
  /\ \A k, l \in Key : folded[k] = folded[l] /\ kind[k] = "string" /\ kind[l] = "string" =>
       hash_of("TextCompare", k) = hash_of("TextCompare", l)
  /\ Empty \in Item /\ Empty \notin Callback

Pair == 1..MaxPairs
None == 0  \* NULL, and the head of the list of pairs
Bucket(h) == h % BUCKET_COUNT
Buckets == {Bucket(hash_of(m, k)) : m \in Method, k \in Key}

VARIABLES allocated, \* the pairs allocated so far
          pairs,     \* those in the list of pairs: in the order of their numbers
          bucket,    \* the list of each bucket
          key, item, hash, \* of each pair
          count, method,
          open,      \* the enumerators there are
          cur,       \* dictionary_enum.cur
          stale,     \* the enumerators that RemoveAll left at a pair it freed
          calls      \* the calls under way, the innermost last
dict == <<allocated, pairs, bucket, key, item, hash, count, method>>
enums == <<open, cur, stale>>
vars == <<allocated, pairs, bucket, key, item, hash, count, method, open, cur, stale, calls>>

Frame(op, p, v) == [op |-> op, pair |-> p, val |-> v]

Init == /\ allocated = 0 /\ pairs = {}
        /\ bucket = [b \in Buckets |-> <<>>]
        /\ key = [p \in Pair |-> NoKey]
        /\ item = [p \in Pair |-> Empty]
        /\ hash = [p \in Pair |-> 0]
        /\ count = 0 /\ method = "BinaryCompare"
        /\ open = {} /\ cur = [e \in Enumerator |-> None] /\ stale = {}
        /\ calls = <<>>

Top == calls[Len(calls)]
Is(op) == calls # <<>> /\ Top.op = op
Return == Front(calls)

\* VariantClear: nothing, or a script that runs before the caller goes on.
Release(v) == IF v \in Callback THEN <<Frame("release", None, v)>> ELSE <<>>

\* A script calls the dictionary: the host's, or one that a release runs.
Calling == calls = <<>> \/ (Is("release") /\ Len(calls) < MaxDepth)
\* A careful script leaves the pair alone whose item is being replaced, and
\* changes nothing while a put_Key or RemoveAll is under way.
Free(p) == Careful => \A n \in DOMAIN calls : calls[n].op = "store" => calls[n].pair # p
MayChange == Careful => \A n \in DOMAIN calls : calls[n].op \notin {"rename", "removeall"}

NextPair(p) == LET later == {q \in pairs : q > p} IN IF later = {} THEN None ELSE Min(later)

-------------------------------------------------------------------------------
(* Looking a key up.                                                          *)

strcmp_key(k, l) == IF method = "BinaryCompare" THEN k = l ELSE folded[k] = folded[l]

is_matching_key(p, k, h) ==
  LET q == key[p]
  IN IF "empty" \in {kind[k], kind[q]}
     THEN {k, q} \subseteq Default
     ELSE /\ kind[k] = kind[q]
          /\ kind[k] = "string" => h = hash[p] /\ strcmp_key(k, q)
          /\ kind[k] \in {"number", "ptr"} => h = hash[p] /\ k = q

\* mutant: the hash does not fold cases
get_HashValCased(k) == hash_of("BinaryCompare", k)
get_HashVal(k) == hash_of(method, k)

\* The first pair of the key's bucket that matches.
get_keyitem_pair(k) ==
  LET h == get_HashVal(k)
      list == bucket[Bucket(h)]
      hits == {n \in DOMAIN list : is_matching_key(list[n], k, h)}
  IN IF hits = {} THEN None ELSE list[Min(hits)]

Linked(b, h, p) == [b EXCEPT ![Bucket(h)] = Append(@, p)]
Unlinked(b, h, p) == [b EXCEPT ![Bucket(h)] = RemoveFirst(@, p)]

-------------------------------------------------------------------------------
(* Changing the dictionary.                                                   *)

\* mutant: the new pair is not counted
add_keyitem_pairUncounted(k, x) ==
  LET p == allocated + 1
  IN /\ allocated < MaxPairs
     /\ allocated' = p
     /\ pairs' = pairs \cup {p}
     /\ key' = [key EXCEPT ![p] = k]
     /\ item' = [item EXCEPT ![p] = x]
     /\ hash' = [hash EXCEPT ![p] = get_HashVal(k)]
     /\ bucket' = Linked(bucket, get_HashVal(k), p)
     /\ UNCHANGED <<count, method, open, cur, stale, calls>>

add_keyitem_pair(k, x) ==
  LET p == allocated + 1
  IN /\ allocated < MaxPairs
     /\ allocated' = p
     /\ pairs' = pairs \cup {p}
     /\ key' = [key EXCEPT ![p] = k]
     /\ item' = [item EXCEPT ![p] = x]
     /\ hash' = [hash EXCEPT ![p] = get_HashVal(k)]
     /\ bucket' = Linked(bucket, get_HashVal(k), p)
     /\ count' = count + 1
     /\ UNCHANGED <<method, open, cur, stale, calls>>

Add == /\ Calling /\ MayChange
       /\ \E k \in Key, x \in Item : get_keyitem_pair(k) = None /\ add_keyitem_pair(k, x)

\* A lookup of what is not there adds it, without an item.
get_Item == /\ Calling /\ MayChange
            /\ \E k \in Key : get_keyitem_pair(k) = None /\ add_keyitem_pair(k, Empty)

\* put_Item: VariantCopyInd clears the old item before it copies the new one.
put_Item ==
  /\ Calling /\ MayChange
  /\ \E k \in Key, x \in Item :
       LET p == get_keyitem_pair(k)
       IN IF p = None THEN add_keyitem_pair(k, x)
          ELSE /\ Free(p)
               /\ calls' = calls \o <<Frame("store", p, x)>> \o Release(item[p])
               /\ UNCHANGED <<dict, enums>>
Stored == /\ Is("store")
          /\ item' = [item EXCEPT ![Top.pair] = Top.val]
          /\ calls' = Return
          /\ UNCHANGED <<allocated, pairs, bucket, key, hash, count, method, enums>>

\* put_Key: the collision is looked for before the old key is released,
Collides(p, l) == get_keyitem_pair(l) \notin {None, p}
put_Key ==
  /\ Calling /\ MayChange
  /\ \E k, l \in Key :
       LET p == get_keyitem_pair(k)
       IN /\ p # None /\ Free(p) /\ ~Collides(p, l)
          /\ calls' = calls \o <<Frame("rename", p, l)>> \o Release(key[p])
          /\ UNCHANGED <<dict, enums>>
\* mutant: the pair stays in the bucket of its old key
RenamedInPlace ==
  /\ Is("rename")
  /\ key' = [key EXCEPT ![Top.pair] = Top.val]
  /\ hash' = [hash EXCEPT ![Top.pair] = get_HashVal(Top.val)]
  /\ calls' = Return
  /\ UNCHANGED <<allocated, pairs, bucket, item, count, method, enums>>

\* and the pair moves to the end of the new key's bucket.
Renamed ==
  /\ Is("rename")
  /\ LET p == Top.pair
         h == get_HashVal(Top.val)
     IN /\ key' = [key EXCEPT ![p] = Top.val]
        /\ hash' = [hash EXCEPT ![p] = h]
        /\ bucket' = Linked(Unlinked(bucket, hash[p], p), h, p)
  /\ calls' = Return
  /\ UNCHANGED <<allocated, pairs, item, count, method, enums>>

\* The pair leaves both lists.  Its key and its item are released after that.
unlink(p) == /\ pairs' = pairs \ {p}
             /\ bucket' = Unlinked(bucket, hash[p], p)
             /\ key' = [key EXCEPT ![p] = NoKey]
             /\ item' = [item EXCEPT ![p] = Empty]
             /\ hash' = [hash EXCEPT ![p] = 0]
free_keyitem_pair(p) == Release(item[p]) \o Release(key[p])

\* mutant: enumerators stay on the pair that goes
notify_remove_pairNot(p) == UNCHANGED cur

\* notify_remove_pair: enumerators go on to the pair after this one.
notify_remove_pair(p) ==
  cur' = [e \in Enumerator |-> IF e \in open /\ cur[e] = p THEN NextPair(p) ELSE cur[e]]

dictionary_Remove ==
  /\ Calling /\ MayChange
  /\ \E k \in Key :
       LET p == get_keyitem_pair(k)
       IN /\ p # None /\ Free(p)
          /\ notify_remove_pair(p)
          /\ unlink(p)
          /\ count' = count - 1
          /\ calls' = calls \o free_keyitem_pair(p)
  /\ UNCHANGED <<allocated, method, open, stale>>

\* RemoveAll sends every enumerator to the first pair, which it frees next.
RemoveAll ==
  /\ Calling /\ MayChange
  /\ count # 0 /\ \A p \in pairs : Free(p)
  /\ cur' = [e \in Enumerator |-> IF e \in open THEN NextPair(None) ELSE cur[e]]
  /\ stale' = stale \cup open
  /\ calls' = Append(calls, Frame("removeall", NextPair(None), Empty))
  /\ UNCHANGED <<dict, open>>
RemoveOne ==
  /\ Is("removeall") /\ Top.pair # None
  /\ unlink(Top.pair)
  /\ calls' = Append(Return, Frame("removeall", NextPair(Top.pair), Empty))
                \o free_keyitem_pair(Top.pair)
  /\ UNCHANGED <<allocated, count, method, enums>>
RemovedAll ==
  /\ Is("removeall") /\ Top.pair = None
  /\ count' = 0
  /\ calls' = Return
  /\ UNCHANGED <<allocated, pairs, bucket, key, item, hash, method, enums>>

put_CompareMode ==
  /\ Calling /\ MayChange /\ count = 0
  /\ method' \in Method
  /\ UNCHANGED <<allocated, pairs, bucket, key, item, hash, count, enums, calls>>

\* The script that a release ran returns.
Released == /\ Is("release")
            /\ calls' = Return
            /\ UNCHANGED <<dict, enums>>

-------------------------------------------------------------------------------
(* Enumerators.  Clone starts at the first pair, wherever the original is.    *)

create_dict_enum ==
  /\ Calling /\ MayChange
  /\ \E e \in Enumerator \ open :
       /\ open' = open \cup {e}
       /\ cur' = [cur EXCEPT ![e] = NextPair(None)]
  /\ UNCHANGED <<dict, stale, calls>>

EnumReset ==
  /\ Calling /\ MayChange
  /\ \E e \in open : /\ cur' = [cur EXCEPT ![e] = NextPair(None)]
                     /\ stale' = stale \ {e}
  /\ UNCHANGED <<dict, open, calls>>

\* Next and Skip, of one pair; of more they are repeated.
EnumNext ==
  /\ Calling
  /\ \E e \in open \ stale : cur[e] # None /\ cur' = [cur EXCEPT ![e] = NextPair(@)]
  /\ UNCHANGED <<dict, open, stale, calls>>

EnumRelease ==
  /\ Calling
  /\ \E e \in open : /\ open' = open \ {e} /\ stale' = stale \ {e}
                     /\ cur' = [cur EXCEPT ![e] = None]
  /\ UNCHANGED <<dict, calls>>

Next == \/ Add \/ get_Item \/ put_Item \/ Stored \/ put_Key \/ Renamed
        \/ dictionary_Remove \/ RemoveAll \/ RemoveOne \/ RemovedAll \/ put_CompareMode \/ Released
        \/ create_dict_enum \/ EnumReset \/ EnumNext \/ EnumRelease

Spec == Init /\ [][Next]_vars

-------------------------------------------------------------------------------
(* Correctness.                                                               *)

\* Types.
TypeOK ==
  /\ allocated \in 0..MaxPairs
  /\ pairs \subseteq 1..allocated
  /\ bucket \in [Buckets -> Seq(Pair)]
  /\ key \in [Pair -> Key] /\ item \in [Pair -> Item] /\ hash \in [Pair -> Nat]
  /\ count \in Nat /\ method \in Method
  /\ open \subseteq Enumerator /\ stale \subseteq open
  /\ cur \in [Enumerator -> Pair \cup {None}]
  /\ calls \in Seq([op : {"release", "store", "rename", "removeall"},
                    pair : Pair \cup {None}, val : Item \cup Key])

\* Every pair is in the list of one bucket, once: the bucket of the key it has
\* under the method there is now.  Its own key finds it: no other pair before it in
\* the bucket matches too, also after renames.  Count is the number of pairs, but
\* while RemoveAll is at work.
BucketsSound ==
  /\ \A p \in pairs : hash[p] = get_HashVal(key[p])
  /\ \A b \in Buckets : /\ IsInjective(bucket[b])
                        /\ Range(bucket[b]) = {p \in pairs : Bucket(hash[p]) = b}
  /\ \A p \in pairs : get_keyitem_pair(key[p]) = p
  /\ (\A n \in DOMAIN calls : calls[n].op # "removeall") => count = Cardinality(pairs)

\* An enumerator stands on a pair of the list, or at the end, and so do the
\* calls under way that have the pair in their hands.
NothingStale ==
  /\ \A e \in open \ stale : cur[e] \in pairs \cup {None}
  /\ \A n \in DOMAIN calls : calls[n].pair \in pairs \cup {None}

\* The dictionary keeps the promise of OrderedMap: buckets, hashes, and the
\* callbacks in the middle of an operation do not show.  Under a number that is
\* none of the methods, strings are the same that differ in case only and have
\* the same hash, cases included.
Same(m, k, l) ==
  IF "empty" \in {kind[k], kind[l]} THEN {k, l} \subseteq Default
  ELSE /\ kind[k] = kind[l]
       /\ kind[k] = "string" =>
            CASE m = "BinaryCompare" -> k = l
              [] m = "TextCompare" -> folded[k] = folded[l]
              [] m = "other" -> folded[k] = folded[l] /\ hash_of(m, k) = hash_of(m, l)
       /\ kind[k] \in {"number", "ptr"} => k = l
Map == INSTANCE OrderedMap WITH
         Entry <- Pair, NoItem <- Empty,
         entries <- [p \in pairs |-> [key |-> key[p], item |-> item[p]]],
         ahead <- [e \in Enumerator |->
                     IF e \in stale \/ cur[e] = None THEN {} ELSE {p \in pairs : p >= cur[e]}],
         lost <- stale
KeepsOrderedMap == Map!Spec
===============================================================================
