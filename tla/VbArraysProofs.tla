---------------------------- MODULE VbArraysProofs -----------------------------
(***************************************************************************)
(* Proofs about VbArrays: every lock has its frame, nothing refers to an    *)
(* array that is gone, only a locked array is left without an owner; and    *)
(* what scripts see of arrays and loops is what ArrayContents says: the     *)
(* strides number the cells one to one, and every step is one of            *)
(* ArrayContents or none.                                                   *)
(***************************************************************************)
EXTENDS VbArrays, ListFacts

-------------------------------------------------------------------------------
\* p holds the products of the first elements of s.
Products(p, s) ==
  /\ p \in [0..Len(s) -> Nat] /\ p[0] = 1
  /\ \A k \in 1..Len(s) : p[k] = s[k] * p[k - 1]

\* The product of the bounds is a natural number.
LEMMA ProductIs ==
  ASSUME NEW s \in Seq(Nat)
  PROVE  \E p : Products(p, s) /\ Product(s) = p[Len(s)] /\ Product(s) \in Nat
<1>. DEFINE n == Len(s)
            zero == [k \in 1..n |-> 0]
            Def(p) == p = [k \in 0..n |-> IF k = 0 THEN 1 ELSE p[k - 1] * s[k]]
<1>1. n \in Nat /\ s \in [1..n -> Nat] /\ zero \in [1..n -> Nat] /\ \A k \in 1..n : zero[k] = 0
  BY LenProperties, ElementOfSeq
<1>. HIDE DEF n, zero
<1>2. PICK p \in [0..n -> Nat] : p[0] = 1 /\ Follows(p, n, zero, s)
  BY <1>1, RecursionDefines
<1>3. Def(p)
  <2>1. ASSUME NEW k \in 1..n PROVE p[k] = p[k - 1] * s[k]
    <3>1. p[k] = 0 + s[k] * p[k - 1]
      BY <1>1, <1>2 DEF Follows
    <3>2. s[k] \in Nat /\ p[k - 1] \in Nat
      BY <1>1, <1>2
    <3>. QED
      BY <3>1, <3>2
  <2>. QED
    BY <1>1, <1>2, <2>1
<1>. DEFINE q == CHOOSE x : Def(x)
<1>4. Def(q) /\ Product(s) = q[n]
  BY <1>3 DEF Product, n
<1>. HIDE DEF q
<1>5. q[0] = 1 /\ \A k \in 1..n : q[k] = q[k - 1] * s[k]
  BY <1>1, <1>4
<1>6. \A k \in 0..n : q[k] \in Nat
  <2>. DEFINE S == {k \in Nat : k <= n => q[k] \in Nat}
  <2>1. ASSUME NEW k \in S PROVE k + 1 \in S
    <3>. SUFFICES ASSUME k + 1 <= n PROVE q[k + 1] \in Nat
      OBVIOUS
    <3>1. k + 1 \in 1..n /\ (k + 1) - 1 = k /\ q[k] \in Nat
      BY <1>1
    <3>2. q[k + 1] = q[k] * s[k + 1] /\ s[k + 1] \in Nat
      BY <1>1, <1>5, <3>1
    <3>. QED
      BY <3>1, <3>2
  <2>2. 0 \in S /\ S \in SUBSET Nat
    BY <1>5
  <2>3. S = Nat
    <3>. HIDE DEF S
    <3>. QED
      BY <2>1, <2>2, Induction
  <2>. QED
    BY <1>1, <2>3
<1>7. Products(q, s)
  <2>1. q \in [0..n -> Nat]
    BY <1>4, <1>6
  <2>2. ASSUME NEW k \in 1..n PROVE q[k] = s[k] * q[k - 1]
    BY <1>1, <1>5, <1>6
  <2>. QED
    BY <1>5, <2>1, <2>2 DEF Products, n
<1>. QED
  BY <1>1, <1>4, <1>6, <1>7 DEF n

\* An index within the bounds stands for a cell of the array.
LEMMA PtrIsCell ==
  ASSUME NEW sa, sa.rgsabound \in Seq(Nat), NEW idx \in Seq(Nat), InBounds(sa, idx)
  PROVE  SafeArrayPtrOfIndex(sa, idx) \in 1..CellCount(sa)
<1>1. PICK n \in Nat, r \in Seq(Nat) :
        /\ r = sa.rgsabound /\ n = Len(r) /\ r \in [1..n -> Nat]
        /\ Len(idx) = n /\ \A d \in 1..n : idx[d] \in Nat
  <2>1. Len(idx) = Len(sa.rgsabound)
    BY DEF InBounds
  <2>. QED
    BY <2>1, LenProperties, ElementOfSeq
<1>. DEFINE b == [k \in 1..n |-> idx[n + 1 - k]]
            Def(c) == c = [d \in 1..n + 1 |->
                             IF d > n THEN 0 ELSE idx[d] + Bound(sa, d) * c[d + 1]]
<1>2. \A d \in 1..n : Bound(sa, d) = r[n + 1 - d] /\ idx[d] < r[n + 1 - d]
  <2>1. \A d \in 1..n : Bound(sa, d) = r[n + 1 - d]
    BY <1>1 DEF Bound
  <2>2. \A d \in 1..n : idx[d] < Bound(sa, d)
    BY <1>1, LenProperties DEF InBounds
  <2>. QED
    BY <2>1, <2>2
<1>2a. \A k \in 1..n : n + 1 - k \in 1..n /\ n + 1 - (n + 1 - k) = k
  OBVIOUS
<1>2b. \A k \in 1..n : b[k] = idx[n + 1 - k]
  OBVIOUS
<1>2c. b \in [1..n -> Nat]
  BY <1>1, <1>2a
<1>. HIDE DEF b
<1>3. PICK p : Products(p, r) /\ CellCount(sa) = p[n]
  BY <1>1, ProductIs DEF CellCount
<1>4. PICK e \in [0..n -> Nat] : e[0] = 0 /\ Follows(e, n, b, r)
  BY <1>1, <1>2c, RecursionDefines
<1>. DEFINE c0 == [d \in 1..n + 1 |-> e[n + 1 - d]]
<1>5. Def(c0)
  <2>1. ASSUME NEW d \in 1..n + 1
        PROVE  c0[d] = IF d > n THEN 0 ELSE idx[d] + Bound(sa, d) * c0[d + 1]
    <3>1. CASE d > n
      BY <1>1, <1>4, <3>1
    <3>2. CASE ~(d > n)
      <4>0. PICK k \in 1..n : k = n + 1 - d
        BY <3>2
      <4>1. k \in 1..n /\ d \in 1..n /\ k - 1 = n + 1 - (d + 1) /\ n + 1 - k = d /\ d + 1 \in 1..n + 1
        BY <3>2, <4>0
      <4>2. e[k] = b[k] + r[k] * e[k - 1]
        BY <1>4, <4>1 DEF Follows
      <4>3. c0[d] = e[k] /\ c0[d + 1] = e[k - 1] /\ b[k] = idx[d] /\ Bound(sa, d) = r[k]
        BY <1>2, <1>2b, <4>1
      <4>. QED
        BY <3>2, <4>2, <4>3
    <3>. QED
      BY <3>1, <3>2
  <2>. QED
    BY <2>1
<1>. DEFINE c == CHOOSE x : Def(x)
<1>6. Def(c) /\ SafeArrayPtrOfIndex(sa, idx) = 1 + c[1]
  <2>1. Def(c)
    BY <1>5
  <2>2. SafeArrayPtrOfIndex(sa, idx) = 1 + c[1]
    BY <1>1 DEF SafeArrayPtrOfIndex
  <2>. QED
    BY <2>1, <2>2
<1>. HIDE DEF c
<1>. DEFINE S == {k \in Nat : k <= n => c[n + 1 - k] \in Nat /\ c[n + 1 - k] < p[k]}
<1>7. S = Nat
  <2>1. 0 \in S
    BY <1>1, <1>3, <1>6 DEF Products
  <2>2. ASSUME NEW k \in S PROVE k + 1 \in S
    <3>0. SUFFICES ASSUME k + 1 <= n
                   PROVE  c[n + 1 - (k + 1)] \in Nat /\ c[n + 1 - (k + 1)] < p[k + 1]
      OBVIOUS
    <3>0a. PICK d \in 1..n : d = n + 1 - (k + 1)
      BY <3>0
    <3>1. /\ k + 1 \in 1..n /\ (k + 1) - 1 = k /\ k \in 0..n /\ d \in 1..n
          /\ d + 1 = n + 1 - k /\ n + 1 - d = k + 1 /\ ~(d > n) /\ d \in 1..n + 1
      BY <3>0, <3>0a
    <3>2. c[d + 1] \in Nat /\ c[d + 1] < p[k]
      <4>1. k <= n
        BY <3>0
      <4>. QED
        BY <3>1, <4>1
    <3>3. c[d] = idx[d] + r[k + 1] * c[d + 1]
      <4>1. Bound(sa, d) = r[k + 1]
        BY <1>2, <3>1
      <4>. QED
        BY <1>6, <3>1, <4>1
    <3>4. p[k + 1] = r[k + 1] * p[k] /\ p[k] \in Nat /\ r[k + 1] \in Nat
      BY <1>1, <1>3, <3>1 DEF Products
    <3>5. idx[d] \in Nat /\ idx[d] < r[k + 1]
      BY <1>1, <1>2, <3>1
    <3>6. idx[d] + r[k + 1] * c[d + 1] < r[k + 1] * p[k]
      BY <3>2, <3>4, <3>5, Smaller
    <3>7. idx[d] + r[k + 1] * c[d + 1] \in Nat
      BY <3>2, <3>4, <3>5, NatSum
    <3>. QED
      BY <3>0a, <3>3, <3>4, <3>6, <3>7
  <2>3. S \in SUBSET Nat
    OBVIOUS
  <2>. HIDE DEF S
  <2>. QED
    BY <2>1, <2>2, <2>3, Induction
<1>8. c[1] \in Nat /\ c[1] < p[n] /\ p[n] \in Nat
  <2>1. n \in S /\ n <= n /\ n + 1 - n = 1
    BY <1>1, <1>7
  <2>. QED
    BY <1>1, <1>3, <2>1 DEF Products
<1>9. \A x \in Nat, y \in Nat : x < y => 1 + x \in 1..y
  OBVIOUS
<1>. QED
  BY <1>3, <1>6, <1>8, <1>9

-------------------------------------------------------------------------------
(***************************************************************************)
(* The invariant.  as, vs and fs are SAFEARRAYs, variables and frames.      *)
(***************************************************************************)
\* The frames that hold a lock of an array; those that go over its cells; those
\* that end with an assignment; those that free their array in the end.
Locks(fs, id) == {k \in DOMAIN fs : IsLock(fs[k]) /\ fs[k].id = id}
Visits(f) == f.op \in Emptying \cup {"foreach"}
Writes(f) == f.op \in {"destroy", "assign"}
Owns(f) == (f.op = "foreach" /\ f.to = Owned) \/ (f.op = "destroy" /\ f.to = NoVar)

Typed(as, vs, fs) ==
  /\ as \in [Id -> SafeArrays \cup {NoArray}]
  /\ vs \in [Variable -> Variants]
  /\ fs \in Seq(Frames)
  /\ \A id \in Id : as[id] # NoArray => Len(as[id].pvData) = CellCount(as[id])

\* A variable has an array of its own, and refers to it by reference only when the
\* array is of fixed size.
VarSound(as, vs, v) ==
  /\ vs[v].id # NoId =>
       /\ as[vs[v].id] # NoArray
       /\ vs[v].vt = "ARRAY" \/ (vs[v].vt = "BYREF" /\ as[vs[v].id].fixed)
       /\ \A w \in Variable \ {v} : vs[w].id # vs[v].id
  /\ v = LoopVar => vs[v].vt # "BYREF"

\* A value that is still to be assigned has an array that no variable has.
ValueSound(as, vs, x) ==
  /\ x.vt # "BYREF"
  /\ x.id # NoId => /\ x.vt = "ARRAY" /\ as[x.id] # NoArray
                    /\ \A v \in Variable : vs[v].id # x.id

\* A frame has an array that exists and knows its size; the variable of an
\* assignment still holds what is being released.
FrameSound(as, vs, f) ==
  /\ Visits(f) => f.id \in Id /\ as[f.id] # NoArray /\ f.last = CellCount(as[f.id])
  /\ f.op = "foreach" => f.to \notin Variable /\ f.pos # 0
  /\ f.op = "store" =>
       f.id \in Id /\ as[f.id] # NoArray /\ f.pos \in DOMAIN as[f.id].pvData /\ f.value \in Elements
  /\ f.op \in {"script", "assign"} => f.id = NoId
  /\ f.op = "assign" => f.to \in Variable /\ vs[f.to].vt = "DISPATCH"
  /\ f.op = "destroy" => f.to # Owned /\ (f.to \in Variable => vs[f.to].id = f.id)
  /\ Writes(f) => ValueSound(as, vs, f.value)
  /\ Owns(f) => \A v \in Variable : vs[v].id # f.id

\* Two assignments under way are to two variables, and what is being assigned or
\* belongs to a frame alone is in no other frame.
Apart(f, g) ==
  /\ Writes(f) /\ Writes(g) /\ f.to \in Variable => f.to # g.to
  /\ Writes(f) /\ f.value.id # NoId =>
       f.value.id # g.id /\ (Writes(g) => f.value.id # g.value.id)
  /\ Owns(f) => f.id # g.id

FramesApart(fs) == \A j, k \in DOMAIN fs : j # k => Apart(fs[j], fs[k])

\* What frame k needs of those below it.
Above(fs, k) ==
  /\ fs[k].op = "script" => k > 1 /\ fs[k - 1].op \in Emptying \cup {"assign", "store"}
  /\ fs[k].op \in {"destroy", "shrink"} => \A j \in 1..k - 1 : fs[j].id # fs[k].id

\* What the three have to do with each other, but for the number of locks.
Sound(as, vs, fs) ==
  /\ Typed(as, vs, fs)
  /\ \A v \in Variable : VarSound(as, vs, v)
  /\ \A k \in DOMAIN fs : FrameSound(as, vs, fs[k]) /\ Above(fs, k)
  /\ FramesApart(fs)

\* An array is locked once for each frame that holds a lock of it.
LocksCounted(as, fs) ==
  \A id \in Id : as[id] # NoArray => as[id].cLocks = Cardinality(Locks(fs, id))

-------------------------------------------------------------------------------
\* A frame begins that agrees with those under way.
LEMMA SoundPush ==
  ASSUME NEW as, NEW vs, NEW fs, Sound(as, vs, fs), NEW f \in Frames,
         FrameSound(as, vs, f),
         \A k \in DOMAIN fs : Apart(fs[k], f) /\ Apart(f, fs[k]),
         f.op \in {"destroy", "shrink"} => \A k \in DOMAIN fs : fs[k].id # f.id,
         f.op = "script" => fs # <<>> /\ fs[Len(fs)].op \in Emptying \cup {"assign", "store"}
  PROVE  Sound(as, vs, Append(fs, f))
<1>. DEFINE gs == Append(fs, f)
<1>1. fs \in Seq(Frames)
  BY DEF Sound, Typed
<1>2. /\ gs \in Seq(Frames) /\ DOMAIN gs = 1..Len(fs) + 1 /\ DOMAIN fs = 1..Len(fs)
      /\ \A k \in DOMAIN fs : gs[k] = fs[k]
      /\ gs[Len(fs) + 1] = f /\ Len(fs) \in Nat
  BY <1>1, AppendParts
<1>. HIDE DEF gs
<1>3. Typed(as, vs, gs)
  BY <1>2 DEF Sound, Typed
<1>4. ASSUME NEW k \in DOMAIN gs PROVE FrameSound(as, vs, gs[k]) /\ Above(gs, k)
  <2>1. CASE k = Len(fs) + 1
    <3>1. FrameSound(as, vs, gs[k])
      BY <1>2, <2>1
    <3>2. gs[k].op = "script" => k > 1 /\ gs[k - 1].op \in Emptying \cup {"assign", "store"}
      <4>1. fs # <<>> => Len(fs) > 0
        BY <1>1, EmptySeq, <1>2
      <4>2. Len(fs) > 0 => k > 1 /\ k - 1 = Len(fs) /\ Len(fs) \in DOMAIN fs
        BY <1>2, <2>1
      <4>. QED
        BY <1>2, <2>1, <4>1, <4>2
    <3>3. gs[k].op \in {"destroy", "shrink"} => \A j \in 1..k - 1 : gs[j].id # gs[k].id
      BY <1>2, <2>1
    <3>. QED
      BY <3>1, <3>2, <3>3 DEF Above
  <2>2. CASE k # Len(fs) + 1
    <3>1. k \in DOMAIN fs /\ gs[k] = fs[k] /\ (\A j \in 1..k - 1 : j \in DOMAIN fs /\ gs[j] = fs[j])
          /\ (k > 1 => k - 1 \in DOMAIN fs /\ gs[k - 1] = fs[k - 1])
      BY <1>2, <2>2
    <3>2. FrameSound(as, vs, fs[k]) /\ Above(fs, k)
      BY <3>1 DEF Sound
    <3>. QED
      BY <3>1, <3>2 DEF Above
  <2>. QED
    BY <2>1, <2>2
<1>5. FramesApart(gs)
  <2>1. \A k \in DOMAIN gs : k # Len(fs) + 1 => k \in DOMAIN fs
    BY <1>2
  <2>. QED
    BY <1>2, <2>1 DEF FramesApart, Sound
<1>. QED
  BY <1>3, <1>4, <1>5 DEF Sound, gs

\* The innermost frame is over.
LEMMA SoundPop ==
  ASSUME NEW as, NEW vs, NEW fs, Sound(as, vs, fs), fs # <<>>
  PROVE  Sound(as, vs, Front(fs))
<1>. DEFINE gs == Front(fs)
<1>1. fs \in Seq(Frames)
  BY DEF Sound, Typed
<1>2. /\ gs \in Seq(Frames) /\ DOMAIN gs = 1..Len(fs) - 1 /\ DOMAIN fs = 1..Len(fs)
      /\ \A k \in DOMAIN gs : gs[k] = fs[k]
      /\ Len(fs) \in Nat
  BY <1>1, FrontParts
<1>. HIDE DEF gs
<1>3. Typed(as, vs, gs)
  BY <1>2 DEF Sound, Typed
<1>4. ASSUME NEW k \in DOMAIN gs PROVE FrameSound(as, vs, gs[k]) /\ Above(gs, k)
  <2>1. k \in DOMAIN fs /\ gs[k] = fs[k] /\ (\A j \in 1..k - 1 : j \in DOMAIN gs /\ gs[j] = fs[j])
          /\ (k > 1 => k - 1 \in DOMAIN gs /\ gs[k - 1] = fs[k - 1])
    BY <1>2
  <2>2. FrameSound(as, vs, fs[k]) /\ Above(fs, k)
    BY <2>1 DEF Sound
  <2>. QED
    BY <2>1, <2>2 DEF Above
<1>5. FramesApart(gs)
  <2>1. \A k \in DOMAIN gs : k \in DOMAIN fs
    BY <1>2
  <2>. QED
    BY <1>2, <2>1 DEF FramesApart, Sound
<1>. QED
  BY <1>3, <1>4, <1>5 DEF Sound, gs

\* The same frame further on.
Alike(f, g) ==
  /\ g.op = f.op /\ g.id = f.id /\ g.last = f.last /\ g.to = f.to
  /\ f.op # "foreach" => g.value = f.value
  /\ f.op = "store" => g.pos = f.pos
  /\ f.pos # 0 => g.pos # 0

\* The innermost frame replaced.
WithTop(fs, g) == [fs EXCEPT ![Len(fs)] = g]

\* The innermost frame goes on.
LEMMA SoundTop ==
  ASSUME NEW as, NEW vs, NEW fs, Sound(as, vs, fs), fs # <<>>,
         NEW g \in Frames, Alike(fs[Len(fs)], g)
  PROVE  /\ Sound(as, vs, WithTop(fs, g))
         /\ \A id \in Id : Locks(WithTop(fs, g), id) = Locks(fs, id)
<1>. DEFINE gs == WithTop(fs, g)
<1>1. fs \in Seq(Frames)
  BY DEF Sound, Typed
<1>2. /\ gs \in Seq(Frames) /\ DOMAIN gs = DOMAIN fs /\ DOMAIN fs = 1..Len(fs) /\ Len(fs) \in Nat
      /\ \A k \in DOMAIN fs : k # Len(fs) => gs[k] = fs[k]
      /\ gs[Len(fs)] = g
  BY <1>1, EmptySeq, LenProperties, ExceptSeq DEF WithTop
<1>. HIDE DEF gs
<1>3. \A k \in DOMAIN fs : Alike(fs[k], gs[k])
  BY <1>2 DEF Alike
<1>4. ASSUME NEW k \in DOMAIN gs PROVE FrameSound(as, vs, gs[k]) /\ Above(gs, k)
  <2>1. Alike(fs[k], gs[k]) /\ FrameSound(as, vs, fs[k]) /\ Above(fs, k)
    BY <1>2, <1>3 DEF Sound
  <2>2. FrameSound(as, vs, gs[k])
    BY <2>1 DEF FrameSound, Alike, Visits, Writes, Owns, Emptying
  <2>3. \A j \in 1..k - 1 : j \in DOMAIN fs /\ gs[j].id = fs[j].id
    BY <1>2, <1>3 DEF Alike
  <2>4. k > 1 => k - 1 \in DOMAIN fs /\ gs[k - 1].op = fs[k - 1].op
    BY <1>2, <1>3 DEF Alike
  <2>. QED
    BY <2>1, <2>2, <2>3, <2>4 DEF Above, Alike
<1>5. FramesApart(gs)
  <2>1. ASSUME NEW j \in DOMAIN fs, NEW k \in DOMAIN fs, j # k PROVE Apart(gs[j], gs[k])
    <3>1. Apart(fs[j], fs[k]) /\ Alike(fs[j], gs[j]) /\ Alike(fs[k], gs[k])
      BY <1>3, <2>1 DEF Sound, FramesApart
    <3>. QED
      BY <3>1 DEF Apart, Alike, Writes, Owns
  <2>. QED
    BY <1>2, <2>1 DEF FramesApart
<1>6. Sound(as, vs, gs)
  BY <1>2, <1>4, <1>5 DEF Sound, Typed
<1>7. ASSUME NEW id \in Id PROVE Locks(gs, id) = Locks(fs, id)
  BY <1>2, <1>3 DEF Locks, IsLock, Alike
<1>. QED
  BY <1>6, <1>7 DEF gs

\* The arrays change from as to bs, but not what the frames fs rely on.
Keeps(as, bs, fs) ==
  /\ bs \in [Id -> SafeArrays \cup {NoArray}]
  /\ \A id \in Id : as[id] # NoArray =>
       /\ bs[id] # NoArray /\ bs[id].fixed = as[id].fixed
       /\ \/ CellCount(bs[id]) = CellCount(as[id])
          \/ \A k \in DOMAIN fs : fs[k].id # id
  /\ \A id \in Id : bs[id] # NoArray => Len(bs[id].pvData) = CellCount(bs[id])

\* Such a change leaves sound what was sound.
LEMMA SoundArrays ==
  ASSUME NEW as, NEW vs, NEW fs, Sound(as, vs, fs), NEW bs, Keeps(as, bs, fs)
  PROVE  Sound(bs, vs, fs)
<1>1. Typed(bs, vs, fs)
  BY DEF Sound, Typed, Keeps
<1>2. bs \in [Id -> SafeArrays \cup {NoArray}] /\ as \in [Id -> SafeArrays \cup {NoArray}] /\ vs \in [Variable -> Variants]
  BY DEF Sound, Typed, Keeps
<1>3. ASSUME NEW v \in Variable PROVE VarSound(bs, vs, v)
  <2>1. VarSound(as, vs, v) /\ (vs[v].id # NoId => vs[v].id \in Id)
    BY <1>2 DEF Sound, Variants
  <2>. QED
    BY <2>1 DEF VarSound, Keeps
<1>4. ASSUME NEW k \in DOMAIN fs PROVE FrameSound(bs, vs, fs[k])
  <2>1. FrameSound(as, vs, fs[k]) /\ fs[k] \in Frames
    BY ElementOfSeq, LenProperties DEF Sound, Typed
  <2>2. fs[k].value \in Variants
    BY <2>1 DEF Frames
  <2>3. \A x \in Variants : ValueSound(as, vs, x) => ValueSound(bs, vs, x)
    BY DEF ValueSound, Variants, Keeps
  <2>4. ASSUME NEW id \in Id, as[id] # NoArray, fs[k].id = id
        PROVE  /\ bs[id] # NoArray /\ CellCount(bs[id]) = CellCount(as[id])
               /\ DOMAIN bs[id].pvData = DOMAIN as[id].pvData
    <3>1. bs[id] \in SafeArrays /\ as[id] \in SafeArrays /\ bs[id] # NoArray
      BY <1>2, <2>4 DEF Keeps
    <3>2. bs[id].pvData \in Seq(Elements) /\ as[id].pvData \in Seq(Elements)
      BY <3>1 DEF SafeArrays
    <3>3. CellCount(bs[id]) = CellCount(as[id])
      BY <2>4 DEF Keeps
    <3>4. Len(bs[id].pvData) = Len(as[id].pvData)
      BY <2>4, <3>1, <3>3 DEF Sound, Typed, Keeps
    <3>. QED
      BY <3>1, <3>2, <3>3, <3>4, LenProperties
  <2>5. Writes(fs[k]) => ValueSound(bs, vs, fs[k].value)
    BY <2>1, <2>2, <2>3 DEF FrameSound
  <2>. QED
    BY <2>1, <2>4, <2>5 DEF FrameSound
<1>. QED
  BY <1>1, <1>3, <1>4 DEF Sound

\* Memory that nothing refers to is freed.
LEMMA SoundFree ==
  ASSUME NEW as, NEW vs, NEW fs, Sound(as, vs, fs), NEW id \in Id,
         \A v \in Variable : vs[v].id # id,
         \A k \in DOMAIN fs : fs[k].id # id /\ (Writes(fs[k]) => fs[k].value.id # id)
  PROVE  Sound([as EXCEPT ![id] = NoArray], vs, fs)
<1>. DEFINE bs == [as EXCEPT ![id] = NoArray]
<1>1. as \in [Id -> SafeArrays \cup {NoArray}] /\ vs \in [Variable -> Variants]
  BY DEF Sound, Typed
<1>2. /\ bs \in [Id -> SafeArrays \cup {NoArray}] /\ bs[id] = NoArray
      /\ \A i \in Id : i # id => bs[i] = as[i]
  BY <1>1
<1>. HIDE DEF bs
<1>3. Typed(bs, vs, fs)
  BY <1>2 DEF Sound, Typed
<1>4. ASSUME NEW v \in Variable PROVE VarSound(bs, vs, v)
  <2>1. VarSound(as, vs, v) /\ (vs[v].id # NoId => vs[v].id \in Id)
    BY <1>1 DEF Sound, Variants
  <2>. QED
    BY <1>2, <2>1 DEF VarSound
<1>5. ASSUME NEW k \in DOMAIN fs PROVE FrameSound(bs, vs, fs[k])
  <2>1. FrameSound(as, vs, fs[k]) /\ fs[k] \in Frames
    BY ElementOfSeq, LenProperties DEF Sound, Typed
  <2>2. fs[k].value \in Variants /\ fs[k].id # id
    BY <2>1 DEF Frames
  <2>3. \A x \in Variants : x.id # id /\ ValueSound(as, vs, x) => ValueSound(bs, vs, x)
    BY <1>2 DEF ValueSound, Variants
  <2>4. Writes(fs[k]) => ValueSound(bs, vs, fs[k].value)
    BY <2>1, <2>2, <2>3 DEF FrameSound
  <2>5. fs[k].id \in Id => bs[fs[k].id] = as[fs[k].id]
    BY <1>2, <2>2
  <2>. QED
    BY <2>1, <2>2, <2>4, <2>5 DEF FrameSound
<1>. QED
  BY <1>3, <1>4, <1>5 DEF Sound, bs

\* A variable that no assignment under way is about gets a value.
LEMMA SoundVar ==
  ASSUME NEW as, NEW vs, NEW fs, Sound(as, vs, fs), NEW v \in Variable, NEW x \in Variants,
         ValueSound(as, vs, x),
         x.id # NoId => \A k \in DOMAIN fs :
           fs[k].id # x.id /\ (Writes(fs[k]) => fs[k].value.id # x.id),
         \A k \in DOMAIN fs : Writes(fs[k]) => fs[k].to # v
  PROVE  Sound(as, [vs EXCEPT ![v] = x], fs)
<1>. DEFINE ws == [vs EXCEPT ![v] = x]
<1>1. as \in [Id -> SafeArrays \cup {NoArray}] /\ vs \in [Variable -> Variants]
  BY DEF Sound, Typed
<1>2. /\ ws \in [Variable -> Variants] /\ ws[v] = x
      /\ \A w \in Variable : w # v => ws[w] = vs[w]
  BY <1>1
<1>. HIDE DEF ws
<1>3. Typed(as, ws, fs)
  BY <1>2 DEF Sound, Typed
<1>4. ASSUME NEW w \in Variable PROVE VarSound(as, ws, w)
  <2>1. VarSound(as, vs, w)
    BY DEF Sound
  <2>2. CASE w = v
    BY <1>2, <2>2 DEF VarSound, ValueSound
  <2>3. CASE w # v
    BY <1>2, <2>1, <2>3 DEF VarSound, ValueSound
  <2>. QED
    BY <2>2, <2>3
<1>5. ASSUME NEW k \in DOMAIN fs PROVE FrameSound(as, ws, fs[k])
  <2>1. FrameSound(as, vs, fs[k]) /\ fs[k] \in Frames
    BY ElementOfSeq, LenProperties DEF Sound, Typed
  <2>. DEFINE f == fs[k]
  <2>2. f.id \in Id \cup {NoId} /\ f.value \in Variants
    BY <2>1 DEF Frames
  <2>3. Writes(f) => ValueSound(as, ws, f.value)
    BY <1>2, <2>1 DEF FrameSound, ValueSound
  <2>4. Owns(f) => \A w \in Variable : ws[w].id # f.id
    <3>1. Owns(f) => f.id \in Id /\ \A w \in Variable : vs[w].id # f.id
      BY <2>1 DEF FrameSound, Owns, Visits, Emptying
    <3>. QED
      BY <1>2, <3>1, ArrayAssumption
  <2>5. f.op = "assign" => f.to \in Variable /\ ws[f.to].vt = "DISPATCH"
    BY <1>2, <2>1 DEF FrameSound, Writes
  <2>6. f.op = "destroy" => f.to # Owned /\ (f.to \in Variable => ws[f.to].id = f.id)
    BY <1>2, <2>1 DEF FrameSound, Writes
  <2>. QED
    BY <2>1, <2>3, <2>4, <2>5, <2>6 DEF FrameSound
<1>. QED
  BY <1>3, <1>4, <1>5 DEF Sound, ws

-------------------------------------------------------------------------------
\* The locks of an array can be counted.
LEMMA LocksFinite ==
  ASSUME NEW fs \in Seq(Frames), NEW id
  PROVE  IsFiniteSet(Locks(fs, id)) /\ Cardinality(Locks(fs, id)) \in Nat
<1>1. Locks(fs, id) \subseteq 1..Len(fs) /\ Len(fs) \in Nat
  BY LenProperties DEF Locks
<1>2. IsFiniteSet(1..Len(fs))
  BY <1>1, FS_Interval
<1>. QED
  BY <1>1, <1>2, FS_Subset, FS_CardinalityType

\* The locks that one frame holds.
Lock(f, id) == IF IsLock(f) /\ f.id = id THEN 1 ELSE 0

\* A frame adds the lock that it holds.
LEMMA LocksPush ==
  ASSUME NEW fs \in Seq(Frames), NEW f \in Frames, NEW id
  PROVE  Cardinality(Locks(Append(fs, f), id)) = Cardinality(Locks(fs, id)) + Lock(f, id)
<1>. DEFINE gs == Append(fs, f)
            n == Len(fs) + 1
<1>1. /\ DOMAIN gs = 1..n /\ DOMAIN fs = 1..Len(fs) /\ Len(fs) \in Nat
      /\ \A k \in DOMAIN fs : gs[k] = fs[k]
      /\ gs[n] = f
  BY AppendParts
<1>. HIDE DEF gs
<1>2. n \notin DOMAIN fs /\ DOMAIN gs = DOMAIN fs \cup {n}
  BY <1>1
<1>. HIDE DEF n
<1>3. CASE IsLock(f) /\ f.id = id
  <2>1. Locks(gs, id) = Locks(fs, id) \cup {n} /\ n \notin Locks(fs, id)
    BY <1>1, <1>2, <1>3 DEF Locks
  <2>2. IsFiniteSet(Locks(fs, id))
    BY LocksFinite
  <2>3. Cardinality(Locks(gs, id)) = Cardinality(Locks(fs, id)) + 1
    BY <2>1, <2>2, FS_AddElement
  <2>. QED
    BY <1>3, <2>3 DEF Lock, gs
<1>4. CASE ~(IsLock(f) /\ f.id = id)
  <2>1. Locks(gs, id) = Locks(fs, id)
    BY <1>1, <1>2, <1>4 DEF Locks
  <2>2. Cardinality(Locks(fs, id)) \in Nat
    BY LocksFinite
  <2>. QED
    BY <1>4, <2>1, <2>2 DEF Lock, gs
<1>. QED
  BY <1>3, <1>4

\* A frame that ends takes its lock away.
LEMMA LocksPop ==
  ASSUME NEW fs \in Seq(Frames), fs # <<>>, NEW id
  PROVE  Cardinality(Locks(fs, id)) = Cardinality(Locks(Front(fs), id)) + Lock(fs[Len(fs)], id)
<1>1. Front(fs) \in Seq(Frames) /\ fs[Len(fs)] \in Frames /\ fs = Append(Front(fs), fs[Len(fs)])
  BY FrontAndLast, FrontParts
<1>. DEFINE g == Front(fs)
            f == fs[Len(fs)]
<1>2. Cardinality(Locks(Append(g, f), id)) = Cardinality(Locks(g, id)) + Lock(f, id)
  BY <1>1, LocksPush
<1>. QED
  BY <1>1, <1>2

\* An array without locks is in no frame that locks it.
LEMMA NoLocks ==
  ASSUME NEW fs \in Seq(Frames), NEW id, Cardinality(Locks(fs, id)) = 0
  PROVE  \A k \in DOMAIN fs : IsLock(fs[k]) => fs[k].id # id
<1>1. Locks(fs, id) = {}
  BY LocksFinite, FS_EmptySet
<1>. QED
  BY <1>1 DEF Locks

-------------------------------------------------------------------------------
(***************************************************************************)
(* The model                                                                *)
(***************************************************************************)
IInv == Sound(array, var, frames) /\ LocksCounted(array, frames)

\* The number of cells is a natural number.
LEMMA CountIsNat ==
  ASSUME NEW sa \in SafeArrays
  PROVE  CellCount(sa) \in Nat
<1>1. sa.rgsabound \in Seq(Nat)
  BY DEF SafeArrays
<1>. QED
  BY <1>1, ProductIs DEF CellCount

\* The values that the model names are VARIANTs.
LEMMA ValuesTyped ==
  /\ Empty \in Variants /\ Object \in Variants /\ Elements \subseteq Variants
  /\ Empty.id = NoId /\ Object.id = NoId /\ Empty.vt = "EMPTY" /\ Object.vt = "DISPATCH"
  /\ \A id \in Id \cup {NoId} :
       Array(id) \in Variants /\ Array(id).id = id /\ Array(id).vt = "ARRAY"
BY DEF Empty, Object, Elements, Variants, Variant, Array

\* A Class_Terminate is a frame without an array.
LEMMA ScriptTyped ==
  Script \in Frames /\ Script.op = "script" /\ Script.id = NoId
<1>1. Empty \in Variants
  BY ValuesTyped
<1>. QED
  BY <1>1 DEF Script, Frame, Frames

\* A Class_Terminate begins in the middle of a release.
LEMMA ScriptPush ==
  ASSUME NEW as, NEW vs, NEW fs, Sound(as, vs, fs), LocksCounted(as, fs), fs # <<>>,
         fs[Len(fs)].op \in Emptying \cup {"assign", "store"}
  PROVE  Sound(as, vs, Append(fs, Script)) /\ LocksCounted(as, Append(fs, Script))
<1>1. /\ Script \in Frames /\ Script.op = "script" /\ Script.id = NoId
  BY ScriptTyped
<1>2. /\ fs \in Seq(Frames)
      /\ \A k \in DOMAIN fs : fs[k] \in Frames /\ FrameSound(as, vs, fs[k])
  BY LenProperties, ElementOfSeq DEF Sound, Typed
<1>3. FrameSound(as, vs, Script)
  BY <1>1 DEF FrameSound, Visits, Writes, Owns, Emptying
<1>4. ASSUME NEW k \in DOMAIN fs PROVE Apart(fs[k], Script) /\ Apart(Script, fs[k])
  <2>1. Owns(fs[k]) => fs[k].id \in Id
    BY <1>2 DEF FrameSound, Owns, Visits, Emptying
  <2>. QED
    BY <1>1, <2>1, ArrayAssumption DEF Apart, Writes, Owns
<1>5. Sound(as, vs, Append(fs, Script))
  BY <1>1, <1>3, <1>4, SoundPush
<1>6. ASSUME NEW id \in Id
      PROVE  Cardinality(Locks(Append(fs, Script), id)) = Cardinality(Locks(fs, id))
  <2>1. Lock(Script, id) = 0
    BY <1>1 DEF Lock, IsLock
  <2>. QED
    BY <1>1, <1>2, <2>1, LocksPush, LocksFinite
<1>. QED
  BY <1>5, <1>6 DEF LocksCounted

\* Put, on whatever stack and arrays it finds.
LEMMA PutKeeps ==
  ASSUME NEW STATE as, NEW STATE fs, NEW v \in Variable, NEW STATE x,
         Sound(as, var, fs), LocksCounted(as, fs), x \in Variants, ValueSound(as, var, x),
         x.id # NoId => \A k \in DOMAIN fs :
           fs[k].id # x.id /\ (Writes(fs[k]) => fs[k].value.id # x.id),
         Settled(v) => \A k \in DOMAIN fs : Writes(fs[k]) => fs[k].to # v,
         ArraySettled(var[v].id) =>
           \A k \in DOMAIN fs : fs[k].id = var[v].id => fs[k].op \notin {"destroy", "erase", "store"},
         Put(v, x, as, fs)
  PROVE  IInv'
<1>. DEFINE old == var[v]
<1>1. /\ fs \in Seq(Frames) /\ as \in [Id -> SafeArrays \cup {NoArray}] /\ var \in [Variable -> Variants]
      /\ \A k \in DOMAIN fs : fs[k] \in Frames /\ FrameSound(as, var, fs[k])
      /\ VarSound(as, var, v) /\ old \in Variants
  <2>1. Typed(as, var, fs) /\ VarSound(as, var, v) /\ \A k \in DOMAIN fs : FrameSound(as, var, fs[k])
    BY DEF Sound
  <2>2. /\ fs \in Seq(Frames) /\ as \in [Id -> SafeArrays \cup {NoArray}]
        /\ var \in [Variable -> Variants]
    BY <2>1 DEF Typed
  <2>3. \A k \in DOMAIN fs : fs[k] \in Frames
    BY <2>2, LenProperties, ElementOfSeq
  <2>. QED
    BY <2>1, <2>2, <2>3
<1>2. array' = as /\ \A k \in DOMAIN fs : Writes(fs[k]) => fs[k].to # v
  BY DEF Put
<1>3. CASE /\ old.vt = "ARRAY" /\ old.id # NoId /\ Destroyable(as[old.id]) /\ ArraySettled(old.id)
           /\ frames' = Append(fs, Frame("destroy", old.id, 1, CellCount(as[old.id]), v, x))
           /\ UNCHANGED var
  <2>. DEFINE f == Frame("destroy", old.id, 1, CellCount(as[old.id]), v, x)
  <2>1. old.id \in Id /\ as[old.id] \in SafeArrays /\ CellCount(as[old.id]) \in Nat
    BY <1>1, <1>3, CountIsNat DEF VarSound, Variants
  <2>2. /\ f \in Frames /\ f.op = "destroy" /\ f.id = old.id /\ f.last = CellCount(as[old.id])
        /\ f.to = v /\ f.value = x
    BY <2>1 DEF Frame, Frames
  <2>. HIDE DEF f
  <2>3. FrameSound(as, var, f)
    BY <1>1, <1>3, <2>1, <2>2, ArrayAssumption DEF FrameSound, Visits, Emptying, Writes, Owns, VarSound
  <2>4. ASSUME NEW k \in DOMAIN fs PROVE Apart(fs[k], f) /\ Apart(f, fs[k]) /\ fs[k].id # f.id
    <3>1. FrameSound(as, var, fs[k]) /\ fs[k] \in Frames
      BY <1>1
    <3>2. Writes(fs[k]) /\ fs[k].value.id # NoId =>
            fs[k].value.id # old.id /\ fs[k].value.id # x.id
      BY <3>1 DEF FrameSound, ValueSound
    <3>3. Owns(fs[k]) => fs[k].id # old.id
      BY <3>1 DEF FrameSound
    <3>4. Apart(fs[k], f)
      BY <1>2, <2>2, <3>2, <3>3 DEF Apart
    <3>5. fs[k].to # v \/ ~Writes(fs[k])
      BY <1>2
    <3>6. ~Owns(f)
      BY <2>2, ArrayAssumption DEF Owns
    <3>7. Apart(f, fs[k])
      BY <2>2, <3>5, <3>6 DEF Apart
    <3>8. fs[k].id # f.id
      <4>1. IsLock(fs[k]) => fs[k].id # old.id
        <5>1. Cardinality(Locks(fs, old.id)) = 0
          BY <1>3, <2>1, ArrayAssumption DEF LocksCounted, Destroyable
        <5>. QED
          BY <1>1, <5>1, NoLocks
      <4>2. fs[k].op \in {"script", "assign"} => fs[k].id # old.id
        BY <1>3, <3>1 DEF FrameSound
      <4>3. fs[k].id = old.id => fs[k].op \notin {"destroy", "erase", "store"}
        BY <1>3
      <4>4. fs[k].op \in {"script", "destroy", "shrink", "erase", "assign", "store", "foreach"}
        BY <3>1 DEF Frames
      <4>. QED
        BY <2>2, <4>1, <4>2, <4>3, <4>4 DEF IsLock
    <3>. QED
      BY <3>4, <3>7, <3>8
  <2>5. Sound(as, var, Append(fs, f))
    BY <2>2, <2>3, <2>4, SoundPush
  <2>6. ASSUME NEW id \in Id
        PROVE  Cardinality(Locks(Append(fs, f), id)) = Cardinality(Locks(fs, id))
    <3>1. Lock(f, id) = 0
      BY <2>2 DEF Lock, IsLock
    <3>. QED
      BY <1>1, <2>2, <3>1, LocksPush, LocksFinite
  <2>7. LocksCounted(as, Append(fs, f))
    BY <2>6 DEF LocksCounted
  <2>8. array' = as /\ var' = var /\ frames' = Append(fs, f)
    BY <1>2, <1>3 DEF f
  <2>. QED
    BY <2>5, <2>7, <2>8 DEF IInv
<1>4. CASE /\ old.vt = "DISPATCH"
           /\ frames' = fs \o <<Frame("assign", NoId, 0, 0, v, x), Script>>
           /\ UNCHANGED var
  <2>. DEFINE f == Frame("assign", NoId, 0, 0, v, x)
              gs == Append(fs, f)
  <2>1. f \in Frames /\ f.op = "assign" /\ f.id = NoId /\ f.to = v /\ f.value = x
    BY DEF Frame, Frames
  <2>2. Script \in Frames
    BY ScriptTyped
  <2>3. frames' = Append(gs, Script)
    BY <1>1, <1>4, <2>1, <2>2, ConcatTwo
  <2>. HIDE DEF f
  <2>4. FrameSound(as, var, f)
    BY <1>4, <2>1 DEF FrameSound, Visits, Emptying, Writes, Owns
  <2>5. ASSUME NEW k \in DOMAIN fs PROVE Apart(fs[k], f) /\ Apart(f, fs[k])
    <3>1. FrameSound(as, var, fs[k])
      BY <1>1
    <3>2. Owns(fs[k]) => fs[k].id \in Id
      BY <3>1 DEF FrameSound, Owns, Visits, Emptying
    <3>3. Writes(fs[k]) /\ fs[k].value.id # NoId => fs[k].value.id # x.id
      OBVIOUS
    <3>4. Apart(fs[k], f)
      BY <1>2, <2>1, <3>2, <3>3, ArrayAssumption DEF Apart
    <3>5. Apart(f, fs[k])
      BY <1>2, <2>1 DEF Apart, Owns
    <3>. QED
      BY <3>4, <3>5
  <2>6. Sound(as, var, gs)
    BY <2>1, <2>4, <2>5, SoundPush
  <2>7. ASSUME NEW id \in Id PROVE Cardinality(Locks(gs, id)) = Cardinality(Locks(fs, id))
    <3>1. Lock(f, id) = 0
      BY <2>1 DEF Lock, IsLock
    <3>. QED
      BY <1>1, <2>1, <3>1, LocksPush, LocksFinite
  <2>8. LocksCounted(as, gs)
    BY <2>7 DEF LocksCounted
  <2>9. gs # <<>> /\ gs[Len(gs)] = f
    <3>1. gs \in Seq(Frames) /\ gs[Len(fs) + 1] = f /\ Len(gs) = Len(fs) + 1 /\ Len(fs) \in Nat
      BY <1>1, <2>1, AppendParts
    <3>2. Len(gs) # 0
      BY <3>1
    <3>. QED
      BY <3>1, <3>2, EmptySeq
  <2>. HIDE DEF gs
  <2>10. Sound(as, var, Append(gs, Script)) /\ LocksCounted(as, Append(gs, Script))
    BY <2>1, <2>6, <2>8, <2>9, ScriptPush
  <2>. QED
    BY <1>2, <1>4, <2>3, <2>10 DEF IInv
<1>5. CASE frames' = fs /\ var' = [var EXCEPT ![v] = x]
  <2>1. Sound(as, [var EXCEPT ![v] = x], fs)
    BY <1>2, SoundVar
  <2>. QED
    BY <1>2, <1>5, <2>1 DEF IInv
<1>. QED
  BY <1>3, <1>4, <1>5 DEF Put

\* What SafeArrayCreate returns.
LEMMA CreateParts ==
  ASSUME NEW shape \in Shapes \cup {FixedShape}
  PROVE  /\ SafeArrayCreate(shape) \in SafeArrays
         /\ Len(SafeArrayCreate(shape).pvData) = CellCount(SafeArrayCreate(shape))
         /\ SafeArrayCreate(shape).cLocks = 0
<1>. DEFINE r == Reverse(shape)
            c == [k \in 1..Product(r) |-> Empty]
<1>1. r \in Seq(Nat)
  <2>1. shape \in Seq(0..MaxIndex + 1) /\ MaxIndex \in Nat
    BY ArrayAssumption
  <2>2. PICK n \in Nat : n = Len(shape) /\ shape \in [1..n -> 0..MaxIndex + 1]
    BY <2>1, LenProperties
  <2>3. \A k \in 1..n : (n - k) + 1 \in 1..n
    OBVIOUS
  <2>4. \A k \in 0..MaxIndex + 1 : k \in Nat
    BY <2>1
  <2>5. r \in [1..n -> Nat]
    BY <2>2, <2>3, <2>4 DEF Reverse
  <2>. HIDE DEF r
  <2>. QED
    BY <2>5, FunctionIsSeq
<1>. HIDE DEF r
<1>2. Product(r) \in Nat
  BY <1>1, ProductIs
<1>3. c \in Seq(Elements) /\ Len(c) = Product(r)
  <2>1. c \in [1..Product(r) -> Elements]
    BY DEF Elements
  <2>. HIDE DEF c
  <2>. QED
    BY <1>2, <2>1, FunctionIsSeq
<1>4. SafeArrayCreate(shape) = [rgsabound |-> r, pvData |-> c, fixed |-> FALSE, cLocks |-> 0]
  BY DEF SafeArrayCreate, SafeArray, r
<1>. HIDE DEF c
<1>. QED
  BY <1>1, <1>3, <1>4 DEF SafeArrays, CellCount

\* What SafeArrayRedim leaves.
LEMMA ResizedParts ==
  ASSUME NEW sa \in SafeArrays, NEW n \in Nat
  PROVE  /\ Resized(sa, n) \in SafeArrays
         /\ Len(Resized(sa, n).pvData) = CellCount(Resized(sa, n))
         /\ Resized(sa, n).fixed = sa.fixed /\ Resized(sa, n).cLocks = sa.cLocks
<1>. DEFINE r == [sa.rgsabound EXCEPT ![1] = n]
            c == [k \in 1..Product(r) |-> IF k \in DOMAIN sa.pvData THEN sa.pvData[k] ELSE Empty]
<1>1. /\ sa.rgsabound \in Seq(Nat) /\ sa.pvData \in Seq(Elements)
      /\ sa.fixed \in BOOLEAN /\ sa.cLocks \in Nat
      /\ sa = [rgsabound |-> sa.rgsabound, pvData |-> sa.pvData, fixed |-> sa.fixed, cLocks |-> sa.cLocks]
  BY DEF SafeArrays
<1>2. r \in Seq(Nat)
  <2>1. PICK m \in Nat : m = Len(sa.rgsabound) /\ sa.rgsabound \in [1..m -> Nat]
    BY <1>1, LenProperties
  <2>2. r \in [1..m -> Nat]
    BY <2>1
  <2>. HIDE DEF r
  <2>. QED
    BY <2>1, <2>2, FunctionIsSeq
<1>. HIDE DEF r
<1>3. Product(r) \in Nat
  BY <1>2, ProductIs
<1>4. c \in Seq(Elements) /\ Len(c) = Product(r)
  <2>1. \A k \in DOMAIN sa.pvData : sa.pvData[k] \in Elements
    BY <1>1, LenProperties
  <2>2. c \in [1..Product(r) -> Elements]
    BY <2>1 DEF Elements
  <2>. HIDE DEF c
  <2>. QED
    BY <1>3, <2>2, FunctionIsSeq
<1>5. Resized(sa, n) = [rgsabound |-> r, pvData |-> c, fixed |-> sa.fixed, cLocks |-> sa.cLocks]
  <2>1. Resized(sa, n) = [sa EXCEPT !.rgsabound = r, !.pvData = c]
    BY DEF Resized, r
  <2>. HIDE DEF c
  <2>. QED
    BY <1>1, <2>1
<1>. HIDE DEF c
<1>. QED
  BY <1>1, <1>2, <1>4, <1>5 DEF SafeArrays, CellCount

\* Locks and copies leave the cells alone.
LEMMA LockParts ==
  ASSUME NEW sa \in SafeArrays
  PROVE  /\ Locked(sa) \in SafeArrays /\ Locked(sa).cLocks = sa.cLocks + 1
         /\ sa.cLocks # 0 => Unlocked(sa) \in SafeArrays /\ Unlocked(sa).cLocks = sa.cLocks - 1
         /\ SafeArrayCopy(sa) \in SafeArrays /\ SafeArrayCopy(sa).cLocks = 0
         /\ \A t \in {Locked(sa), Unlocked(sa), SafeArrayCopy(sa)} :
              CellCount(t) = CellCount(sa) /\ Len(t.pvData) = Len(sa.pvData)
         /\ Locked(sa).fixed = sa.fixed /\ Unlocked(sa).fixed = sa.fixed
<1>1. /\ sa.rgsabound \in Seq(Nat) /\ sa.pvData \in Seq(Elements)
      /\ sa.fixed \in BOOLEAN /\ sa.cLocks \in Nat
  BY DEF SafeArrays
<1>. DEFINE With(fixed, n) == [sa EXCEPT !.fixed = fixed, !.cLocks = n]
<1>2. ASSUME NEW fixed \in BOOLEAN, NEW n \in Nat
      PROVE  /\ With(fixed, n) \in SafeArrays
             /\ With(fixed, n).fixed = fixed /\ With(fixed, n).cLocks = n
             /\ With(fixed, n).rgsabound = sa.rgsabound /\ With(fixed, n).pvData = sa.pvData
  BY <1>1 DEF SafeArrays
<1>3. /\ Locked(sa) = With(sa.fixed, sa.cLocks + 1)
      /\ Unlocked(sa) = With(sa.fixed, sa.cLocks - 1)
  BY DEF Locked, Unlocked, SafeArrays
<1>. HIDE DEF With
<1>4. sa.cLocks + 1 \in Nat /\ 0 \in Nat /\ (sa.cLocks # 0 => sa.cLocks - 1 \in Nat)
  BY <1>1
<1>5. /\ Unlocked(sa).fixed = sa.fixed
      /\ Unlocked(sa).rgsabound = sa.rgsabound /\ Unlocked(sa).pvData = sa.pvData
  BY <1>1 DEF Unlocked, SafeArrays
<1>6. Locked(sa) \in SafeArrays /\ Locked(sa).cLocks = sa.cLocks + 1 /\ Locked(sa).fixed = sa.fixed
      /\ Locked(sa).rgsabound = sa.rgsabound /\ Locked(sa).pvData = sa.pvData
  BY <1>1, <1>2, <1>3, <1>4
<1>7. SafeArrayCopy(sa) \in SafeArrays /\ SafeArrayCopy(sa).cLocks = 0
      /\ SafeArrayCopy(sa).rgsabound = sa.rgsabound /\ SafeArrayCopy(sa).pvData = sa.pvData
  BY <1>1 DEF SafeArrayCopy, SafeArrays
<1>8. sa.cLocks # 0 => Unlocked(sa) \in SafeArrays /\ Unlocked(sa).cLocks = sa.cLocks - 1
  BY <1>1, <1>2, <1>3, <1>4
<1>. QED
  BY <1>5, <1>6, <1>7, <1>8 DEF CellCount

\* A cell gets another element.
LEMMA CellParts ==
  ASSUME NEW sa \in SafeArrays, NEW c, NEW x \in Elements
  PROVE  /\ [sa EXCEPT !.pvData[c] = x] \in SafeArrays
         /\ [sa EXCEPT !.pvData[c] = x].fixed = sa.fixed
         /\ [sa EXCEPT !.pvData[c] = x].cLocks = sa.cLocks
         /\ CellCount([sa EXCEPT !.pvData[c] = x]) = CellCount(sa)
         /\ Len([sa EXCEPT !.pvData[c] = x].pvData) = Len(sa.pvData)
<1>. DEFINE d == [sa.pvData EXCEPT ![c] = x]
<1>1. /\ sa.rgsabound \in Seq(Nat) /\ sa.pvData \in Seq(Elements)
      /\ sa.fixed \in BOOLEAN /\ sa.cLocks \in Nat
      /\ sa = [rgsabound |-> sa.rgsabound, pvData |-> sa.pvData, fixed |-> sa.fixed, cLocks |-> sa.cLocks]
  BY DEF SafeArrays
<1>2. d \in Seq(Elements) /\ Len(d) = Len(sa.pvData)
  <2>1. PICK m \in Nat : m = Len(sa.pvData) /\ sa.pvData \in [1..m -> Elements]
    BY <1>1, LenProperties
  <2>2. d \in [1..m -> Elements]
    BY <2>1
  <2>. HIDE DEF d
  <2>. QED
    BY <2>1, <2>2, FunctionIsSeq
<1>3. [sa EXCEPT !.pvData[c] = x] = [rgsabound |-> sa.rgsabound, pvData |-> d, fixed |-> sa.fixed, cLocks |-> sa.cLocks]
  <2>1. [sa EXCEPT !.pvData[c] = x] = [sa EXCEPT !.pvData = d]
    OBVIOUS
  <2>. HIDE DEF d
  <2>. QED
    BY <1>1, <2>1
<1>. HIDE DEF d
<1>. QED
  BY <1>1, <1>2, <1>3 DEF SafeArrays, CellCount

\* What Sound says about the parts.
LEMMA Parts ==
  ASSUME NEW as, NEW vs, NEW fs, Sound(as, vs, fs)
  PROVE  /\ fs \in Seq(Frames) /\ Len(fs) \in Nat /\ DOMAIN fs = 1..Len(fs)
         /\ as \in [Id -> SafeArrays \cup {NoArray}]
         /\ vs \in [Variable -> Variants]
         /\ \A k \in DOMAIN fs : fs[k] \in Frames /\ FrameSound(as, vs, fs[k]) /\ Above(fs, k)
         /\ \A v \in Variable : vs[v] \in Variants /\ VarSound(as, vs, v)
         /\ \A id \in Id : as[id] # NoArray => as[id] \in SafeArrays /\ Len(as[id].pvData) = CellCount(as[id])
         /\ \A j, k \in DOMAIN fs : j # k => Apart(fs[j], fs[k])
<1>1. /\ Typed(as, vs, fs) /\ \A v \in Variable : VarSound(as, vs, v)
      /\ \A k \in DOMAIN fs : FrameSound(as, vs, fs[k]) /\ Above(fs, k)
      /\ FramesApart(fs)
  BY DEF Sound
<1>2. /\ fs \in Seq(Frames) /\ as \in [Id -> SafeArrays \cup {NoArray}] /\ vs \in [Variable -> Variants]
      /\ \A id \in Id : as[id] # NoArray => Len(as[id].pvData) = CellCount(as[id])
  BY <1>1 DEF Typed
<1>3. \A k \in DOMAIN fs : fs[k] \in Frames
  BY <1>2, LenProperties, ElementOfSeq
<1>4. Len(fs) \in Nat /\ DOMAIN fs = 1..Len(fs)
  BY <1>2, LenProperties
<1>. QED
  BY <1>1, <1>2, <1>3, <1>4 DEF FramesApart

\* What it says about the innermost frame and those below.
LEMMA TopParts ==
  ASSUME NEW as, NEW vs, NEW fs, Sound(as, vs, fs), fs # <<>>
  PROVE  /\ fs[Len(fs)] \in Frames /\ FrameSound(as, vs, fs[Len(fs)]) /\ Above(fs, Len(fs))
         /\ Front(fs) \in Seq(Frames) /\ Len(fs) \in Nat \ {0}
         /\ DOMAIN Front(fs) = 1..Len(fs) - 1 /\ Len(Front(fs)) = Len(fs) - 1
         /\ \A k \in DOMAIN Front(fs) : k \in DOMAIN fs /\ Front(fs)[k] = fs[k]
         /\ \A k \in DOMAIN Front(fs) :
              Apart(fs[Len(fs)], Front(fs)[k]) /\ Apart(Front(fs)[k], fs[Len(fs)])
         /\ fs[Len(fs)].op \in {"destroy", "shrink"} =>
              \A k \in DOMAIN Front(fs) : Front(fs)[k].id # fs[Len(fs)].id
<1>1. /\ fs \in Seq(Frames) /\ DOMAIN fs = 1..Len(fs)
      /\ \A k \in DOMAIN fs : fs[k] \in Frames /\ FrameSound(as, vs, fs[k]) /\ Above(fs, k)
      /\ \A j, k \in DOMAIN fs : j # k => Apart(fs[j], fs[k])
  BY Parts
<1>2. /\ Front(fs) \in Seq(Frames) /\ Len(fs) \in Nat \ {0}
      /\ DOMAIN Front(fs) = 1..Len(fs) - 1 /\ Len(Front(fs)) = Len(fs) - 1
      /\ \A k \in DOMAIN Front(fs) : Front(fs)[k] = fs[k]
  BY <1>1, FrontParts
<1>3. Len(fs) \in DOMAIN fs /\ \A k \in DOMAIN Front(fs) : k \in DOMAIN fs /\ k # Len(fs)
  BY <1>1, <1>2
<1>4. fs[Len(fs)].op \in {"destroy", "shrink"} =>
        \A k \in DOMAIN Front(fs) : Front(fs)[k].id # fs[Len(fs)].id
  BY <1>1, <1>2, <1>3 DEF Above
<1>. QED
  BY <1>1, <1>2, <1>3, <1>4

\* No frame refers to memory that holds no array, and no variable.
LEMMA FreeIsUnused ==
  ASSUME NEW as, NEW vs, NEW fs, Sound(as, vs, fs), NEW id \in Id, as[id] = NoArray
  PROVE  /\ \A v \in Variable : vs[v].id # id
         /\ \A k \in DOMAIN fs : fs[k].id # id /\ (Writes(fs[k]) => fs[k].value.id # id)
<1>1. id # NoId
  BY ArrayAssumption
<1>2. \A v \in Variable : VarSound(as, vs, v)
  BY Parts
<1>3. ASSUME NEW k \in DOMAIN fs PROVE fs[k].id # id /\ (Writes(fs[k]) => fs[k].value.id # id)
  <2>1. FrameSound(as, vs, fs[k]) /\ fs[k] \in Frames
    BY Parts
  <2>2. fs[k].op \in {"script", "destroy", "shrink", "erase", "assign", "store", "foreach"}
    BY <2>1 DEF Frames
  <2>3. fs[k].id # id
    BY <1>1, <2>1, <2>2 DEF FrameSound, Visits, Emptying
  <2>4. Writes(fs[k]) => fs[k].value.id # id
    BY <1>1, <2>1 DEF FrameSound, ValueSound
  <2>. QED
    BY <2>3, <2>4
<1>. QED
  BY <1>1, <1>2, <1>3 DEF VarSound

\* An array that a variable holds is assigned to no other, and no iterator owns it.
LEMMA HeldByVariable ==
  ASSUME NEW as, NEW vs, NEW fs, Sound(as, vs, fs), NEW v \in Variable, vs[v].id # NoId
  PROVE  /\ vs[v].id \in Id /\ as[vs[v].id] \in SafeArrays /\ as[vs[v].id] # NoArray
         /\ \A k \in DOMAIN fs : /\ Writes(fs[k]) => fs[k].value.id # vs[v].id
                                 /\ Owns(fs[k]) => fs[k].id # vs[v].id
<1>1. VarSound(as, vs, v) /\ vs[v] \in Variants
  BY Parts
<1>2. vs[v].id \in Id
  BY <1>1 DEF Variants
<1>3. ASSUME NEW k \in DOMAIN fs
      PROVE  /\ Writes(fs[k]) => fs[k].value.id # vs[v].id
             /\ Owns(fs[k]) => fs[k].id # vs[v].id
  <2>1. FrameSound(as, vs, fs[k])
    BY Parts
  <2>. QED
    BY <2>1 DEF FrameSound, ValueSound
<1>4. as[vs[v].id] # NoArray
  BY <1>1 DEF VarSound
<1>. QED
  BY <1>2, <1>3, <1>4, Parts

\* Nothing that is under way concerns an array that is not locked, unless an
\* assignment points into it or it is being destroyed.
LEMMA NoFrame ==
  ASSUME NEW as, NEW vs, NEW fs, Sound(as, vs, fs), LocksCounted(as, fs),
         NEW id \in Id, as[id] # NoArray, as[id].cLocks = 0,
         \A k \in DOMAIN fs : fs[k].id = id => fs[k].op \notin {"destroy", "erase", "store"}
  PROVE  \A k \in DOMAIN fs : fs[k].id # id
<1>. SUFFICES ASSUME NEW k \in DOMAIN fs PROVE fs[k].id # id
  OBVIOUS
<1>1. fs \in Seq(Frames) /\ FrameSound(as, vs, fs[k]) /\ fs[k] \in Frames
  BY Parts
<1>2. IsLock(fs[k]) => fs[k].id # id
  <2>1. Cardinality(Locks(fs, id)) = 0
    BY DEF LocksCounted
  <2>. QED
    BY <1>1, <2>1, NoLocks
<1>3. fs[k].op \in {"script", "assign"} => fs[k].id # id
  BY <1>1, ArrayAssumption DEF FrameSound
<1>4. fs[k].op \in {"script", "destroy", "shrink", "erase", "assign", "store", "foreach"}
  BY <1>1 DEF Frames
<1>. QED
  BY <1>2, <1>3, <1>4 DEF IsLock

-------------------------------------------------------------------------------
\* One array changes, but not the number of its locks.
LEMMA ChangeArray ==
  ASSUME NEW as, NEW vs, NEW fs, Sound(as, vs, fs), LocksCounted(as, fs),
         NEW id \in Id, NEW sa \in SafeArrays, Len(sa.pvData) = CellCount(sa),
         as[id] # NoArray => /\ sa.fixed = as[id].fixed /\ sa.cLocks = as[id].cLocks
                             /\ \/ CellCount(sa) = CellCount(as[id])
                                \/ \A k \in DOMAIN fs : fs[k].id # id,
         as[id] = NoArray => sa.cLocks = 0
  PROVE  Sound([as EXCEPT ![id] = sa], vs, fs) /\ LocksCounted([as EXCEPT ![id] = sa], fs)
<1>. DEFINE bs == [as EXCEPT ![id] = sa]
<1>1. /\ as \in [Id -> SafeArrays \cup {NoArray}]
      /\ \A i \in Id : as[i] # NoArray => Len(as[i].pvData) = CellCount(as[i])
      /\ fs \in Seq(Frames)
  BY Parts
<1>2. sa # NoArray
  BY ArrayAssumption
<1>3. bs \in [Id -> SafeArrays \cup {NoArray}] /\ bs[id] = sa /\ \A i \in Id : i # id => bs[i] = as[i]
  BY <1>1
<1>. HIDE DEF bs
<1>4. Keeps(as, bs, fs)
  BY <1>1, <1>2, <1>3 DEF Keeps
<1>6. Sound(bs, vs, fs)
  BY <1>4, SoundArrays
<1>7. LocksCounted(bs, fs)
  <2>1. as[id] = NoArray => Cardinality(Locks(fs, id)) = 0
    <3>. SUFFICES ASSUME as[id] = NoArray PROVE Cardinality(Locks(fs, id)) = 0
      OBVIOUS
    <3>1. \A k \in DOMAIN fs : fs[k].id # id
      BY FreeIsUnused
    <3>2. Locks(fs, id) = {}
      BY <3>1 DEF Locks
    <3>. QED
      BY <3>2, FS_EmptySet
  <2>2. ASSUME NEW i \in Id, bs[i] # NoArray PROVE bs[i].cLocks = Cardinality(Locks(fs, i))
    <3>1. CASE i = id
      BY <1>3, <2>1, <3>1 DEF LocksCounted
    <3>2. CASE i # id
      BY <1>3, <2>2, <3>2 DEF LocksCounted
    <3>. QED
      BY <3>1, <3>2
  <2>. QED
    BY <2>2 DEF LocksCounted
<1>. QED
  BY <1>6, <1>7 DEF bs

\* A cell gets another element.
LEMMA ChangeCell ==
  ASSUME NEW as, NEW vs, NEW fs, Sound(as, vs, fs), LocksCounted(as, fs),
         NEW id \in Id, as[id] # NoArray, NEW c, NEW x \in Elements
  PROVE  /\ Sound([as EXCEPT ![id].pvData[c] = x], vs, fs)
         /\ LocksCounted([as EXCEPT ![id].pvData[c] = x], fs)
<1>1. as \in [Id -> SafeArrays \cup {NoArray}] /\ as[id] \in SafeArrays /\ Len(as[id].pvData) = CellCount(as[id])
  BY Parts
<1>1a. PICK a \in SafeArrays : a = as[id]
  BY <1>1
<1>. DEFINE sa == [a EXCEPT !.pvData[c] = x]
<1>2. [as EXCEPT ![id].pvData[c] = x] = [as EXCEPT ![id] = sa]
  BY <1>1, <1>1a
<1>3a. /\ sa \in SafeArrays /\ sa.fixed = a.fixed /\ sa.cLocks = a.cLocks
       /\ CellCount(sa) = CellCount(a) /\ Len(sa.pvData) = Len(a.pvData)
  BY ONLY a \in SafeArrays, x \in Elements, CellParts
<1>3. /\ sa \in SafeArrays /\ sa.fixed = as[id].fixed /\ sa.cLocks = as[id].cLocks
      /\ CellCount(sa) = CellCount(as[id]) /\ Len(sa.pvData) = Len(as[id].pvData)
  BY <1>1a, <1>3a
<1>. HIDE DEF sa
<1>4. Sound([as EXCEPT ![id] = sa], vs, fs) /\ LocksCounted([as EXCEPT ![id] = sa], fs)
  BY <1>1, <1>3, ChangeArray
<1>. QED
  BY <1>2, <1>4

\* The innermost frame goes on to its next cell.
LEMMA TopAdvances ==
  ASSUME NEW as, NEW vs, NEW fs, Sound(as, vs, fs), LocksCounted(as, fs), fs # <<>>,
         fs[Len(fs)].op \in Emptying
  PROVE  /\ Sound(as, vs, [fs EXCEPT ![Len(fs)].pos = @ + 1])
         /\ LocksCounted(as, [fs EXCEPT ![Len(fs)].pos = @ + 1])
<1>. DEFINE f == fs[Len(fs)]
            g == [f EXCEPT !.pos = @ + 1]
<1>1. f \in Frames /\ fs \in Seq(Frames) /\ Len(fs) \in DOMAIN fs
  <2>1. fs \in Seq(Frames) /\ DOMAIN fs = 1..Len(fs)
    BY Parts
  <2>2. f \in Frames /\ Len(fs) \in Nat \ {0}
    BY TopParts
  <2>. QED
    BY <2>1, <2>2
<1>2. g \in Frames /\ Alike(f, g)
  <2>1. f.pos \in Nat
    BY <1>1 DEF Frames
  <2>2. f.pos + 1 \in Nat \ {0}
    BY <2>1
  <2>3. g \in Frames /\ g.pos = f.pos + 1
    BY <1>1, <2>2 DEF Frames
  <2>4. g.op = f.op /\ g.id = f.id /\ g.last = f.last /\ g.to = f.to /\ g.value = f.value
    BY <1>1 DEF Frames
  <2>. QED
    BY <2>2, <2>3, <2>4 DEF Alike, Emptying
<1>3. [fs EXCEPT ![Len(fs)].pos = @ + 1] = WithTop(fs, g)
  BY <1>1 DEF WithTop
<1>. HIDE DEF g
<1>4. /\ Sound(as, vs, WithTop(fs, g))
      /\ \A id \in Id : Locks(WithTop(fs, g), id) = Locks(fs, id)
  BY <1>2, SoundTop
<1>5. LocksCounted(as, WithTop(fs, g))
  BY <1>4 DEF LocksCounted
<1>. QED
  BY <1>3, <1>4, <1>5

\* The innermost frame goes and holds no lock.
LEMMA PopPlain ==
  ASSUME NEW as, NEW vs, NEW fs, Sound(as, vs, fs), LocksCounted(as, fs), fs # <<>>,
         ~IsLock(fs[Len(fs)])
  PROVE  Sound(as, vs, Front(fs)) /\ LocksCounted(as, Front(fs))
<1>1. fs \in Seq(Frames) /\ Front(fs) \in Seq(Frames)
  BY Parts, TopParts
<1>2. ASSUME NEW id \in Id PROVE Cardinality(Locks(Front(fs), id)) = Cardinality(Locks(fs, id))
  <2>1. Cardinality(Locks(fs, id)) = Cardinality(Locks(Front(fs), id)) + Lock(fs[Len(fs)], id)
    BY <1>1, LocksPop
  <2>2. Lock(fs[Len(fs)], id) = 0
    BY DEF Lock
  <2>3. Cardinality(Locks(Front(fs), id)) \in Nat
    BY <1>1, LocksFinite
  <2>. QED
    BY <2>1, <2>2, <2>3
<1>. QED
  BY <1>2, SoundPop DEF LocksCounted

\* A frame that holds a lock begins.
LEMMA PushLocked ==
  ASSUME NEW as, NEW vs, NEW fs, Sound(as, vs, fs), LocksCounted(as, fs),
         NEW f \in Frames, IsLock(f), f.id \in Id, as[f.id] # NoArray, FrameSound(as, vs, f),
         \A k \in DOMAIN fs : Apart(fs[k], f) /\ Apart(f, fs[k]),
         f.op = "shrink" => \A k \in DOMAIN fs : fs[k].id # f.id
  PROVE  /\ Sound([as EXCEPT ![f.id] = Locked(@)], vs, Append(fs, f))
         /\ LocksCounted([as EXCEPT ![f.id] = Locked(@)], Append(fs, f))
<1>. DEFINE id == f.id
            sa == Locked(as[id])
            bs == [as EXCEPT ![id] = Locked(@)]
            gs == Append(fs, f)
<1>1. /\ as \in [Id -> SafeArrays \cup {NoArray}] /\ as[id] \in SafeArrays /\ fs \in Seq(Frames)
      /\ \A i \in Id : as[i] # NoArray => Len(as[i].pvData) = CellCount(as[i])
  BY Parts
<1>2. Sound(as, vs, gs)
  BY SoundPush DEF IsLock
<1>3. /\ sa \in SafeArrays /\ sa.cLocks = as[id].cLocks + 1 /\ sa.fixed = as[id].fixed
      /\ CellCount(sa) = CellCount(as[id]) /\ Len(sa.pvData) = Len(as[id].pvData)
  BY <1>1, LockParts
<1>4. sa # NoArray
  BY <1>3, ArrayAssumption
<1>5. bs \in [Id -> SafeArrays \cup {NoArray}] /\ bs[id] = sa /\ \A i \in Id : i # id => bs[i] = as[i]
  BY <1>1, <1>3
<1>. HIDE DEF bs, sa
<1>7. Sound(bs, vs, gs)
  <2>. HIDE DEF gs
  <2>1. Keeps(as, bs, gs)
    BY <1>1, <1>3, <1>4, <1>5 DEF Keeps
  <2>. QED
    BY <1>2, <2>1, SoundArrays
<1>8. LocksCounted(bs, gs)
  <2>1. ASSUME NEW i \in Id, bs[i] # NoArray PROVE bs[i].cLocks = Cardinality(Locks(gs, i))
    <3>1. Cardinality(Locks(gs, i)) = Cardinality(Locks(fs, i)) + Lock(f, i)
      BY <1>1, LocksPush
    <3>2. Cardinality(Locks(fs, i)) \in Nat
      BY <1>1, LocksFinite
    <3>3. CASE i = id
      BY <1>3, <1>5, <3>1, <3>3 DEF LocksCounted, Lock
    <3>4. CASE i # id
      <4>1. Lock(f, i) = 0 /\ bs[i] = as[i]
        BY <1>5, <3>4 DEF Lock
      <4>2. as[i].cLocks = Cardinality(Locks(fs, i))
        BY <2>1, <4>1 DEF LocksCounted
      <4>. QED
        BY <3>1, <3>2, <4>1, <4>2
    <3>. QED
      BY <3>3, <3>4
  <2>. QED
    BY <2>1 DEF LocksCounted
<1>. QED
  BY <1>7, <1>8 DEF bs

\* The innermost frame is over and unlocks its array, which is sa by now.
LEMMA PopLocked ==
  ASSUME NEW as, NEW vs, NEW fs, Sound(as, vs, fs), LocksCounted(as, fs), fs # <<>>,
         IsLock(fs[Len(fs)]), NEW sa \in SafeArrays, Len(sa.pvData) = CellCount(sa),
         sa.cLocks = as[fs[Len(fs)].id].cLocks, sa.fixed = as[fs[Len(fs)].id].fixed,
         fs[Len(fs)].op # "shrink" => CellCount(sa) = CellCount(as[fs[Len(fs)].id])
  PROVE  /\ Sound([as EXCEPT ![fs[Len(fs)].id] = Unlocked(sa)], vs, Front(fs))
         /\ LocksCounted([as EXCEPT ![fs[Len(fs)].id] = Unlocked(sa)], Front(fs))
         /\ Unlocked(sa) \in SafeArrays /\ CellCount(Unlocked(sa)) = CellCount(sa)
<1>. DEFINE f == fs[Len(fs)]
            id == f.id
            gs == Front(fs)
            bs == [as EXCEPT ![id] = Unlocked(sa)]
<1>1. f \in Frames /\ FrameSound(as, vs, f) /\ gs \in Seq(Frames) /\ fs \in Seq(Frames)
      /\ (f.op = "shrink" => \A k \in DOMAIN gs : gs[k].id # id)
  <2>1. fs \in Seq(Frames)
    BY Parts
  <2>2. f \in Frames /\ FrameSound(as, vs, f) /\ gs \in Seq(Frames)
    BY TopParts
  <2>3. f.op \in {"destroy", "shrink"} => \A k \in DOMAIN gs : gs[k].id # id
    BY TopParts
  <2>. HIDE DEF f, gs
  <2>. QED
    BY <2>1, <2>2, <2>3
<1>2. id \in Id /\ as[id] # NoArray
  BY <1>1 DEF FrameSound, Visits, Emptying, IsLock
<1>3. /\ as \in [Id -> SafeArrays \cup {NoArray}] /\ as[id] \in SafeArrays
      /\ \A i \in Id : as[i] # NoArray => Len(as[i].pvData) = CellCount(as[i])
  BY <1>2, Parts
<1>4. \A i \in Id : /\ Cardinality(Locks(fs, i)) = Cardinality(Locks(gs, i)) + Lock(f, i)
                    /\ Cardinality(Locks(gs, i)) \in Nat
  BY <1>1, LocksPop, LocksFinite
<1>5. sa.cLocks = Cardinality(Locks(gs, id)) + 1 /\ sa.cLocks # 0
        /\ sa.cLocks - 1 = Cardinality(Locks(gs, id))
  <2>1. Lock(f, id) = 1
    BY DEF Lock
  <2>2. sa.cLocks = Cardinality(Locks(fs, id))
    BY <1>2 DEF LocksCounted
  <2>3. Cardinality(Locks(fs, id)) = Cardinality(Locks(gs, id)) + 1 /\ Cardinality(Locks(gs, id)) \in Nat
    BY <1>2, <1>4, <2>1
  <2>. QED
    BY <2>2, <2>3
<1>6. /\ Unlocked(sa) \in SafeArrays /\ Unlocked(sa).cLocks = Cardinality(Locks(gs, id))
      /\ Unlocked(sa).fixed = as[id].fixed /\ Unlocked(sa) # NoArray
      /\ CellCount(Unlocked(sa)) = CellCount(sa) /\ Len(Unlocked(sa).pvData) = CellCount(sa)
  BY <1>5, LockParts, ArrayAssumption
<1>7. Sound(as, vs, gs)
  BY SoundPop
<1>. HIDE DEF id, gs
<1>8. /\ bs \in [Id -> SafeArrays \cup {NoArray}] /\ bs[id] = Unlocked(sa)
      /\ \A i \in Id : i # id => bs[i] = as[i]
  BY <1>2, <1>3, <1>6
<1>. HIDE DEF bs
<1>9. Sound(bs, vs, gs)
  <2>1. Keeps(as, bs, gs)
    BY <1>1, <1>3, <1>6, <1>8 DEF Keeps, id
  <2>. QED
    BY <1>7, <2>1, SoundArrays
<1>10. LocksCounted(bs, gs)
  <2>1. ASSUME NEW i \in Id, bs[i] # NoArray PROVE bs[i].cLocks = Cardinality(Locks(gs, i))
    <3>1. CASE i = id
      BY <1>6, <1>8, <3>1
    <3>2. CASE i # id
      <4>1. Lock(f, i) = 0 /\ bs[i] = as[i]
        BY <1>8, <3>2 DEF Lock, id
      <4>2. as[i].cLocks = Cardinality(Locks(fs, i))
        BY <2>1, <4>1 DEF LocksCounted
      <4>. QED
        BY <1>4, <4>1, <4>2
    <3>. QED
      BY <3>1, <3>2
  <2>. QED
    BY <2>1 DEF LocksCounted
<1>. QED
  BY <1>6, <1>9, <1>10 DEF bs, id, gs

\* The names that the actions use for the innermost frame and the rest.
LEMMA TopIsFront ==
  /\ Below = Front(frames)
  /\ \A ops : Runs(ops) <=> frames # <<>> /\ frames[Len(frames)].op \in ops
  /\ Top = frames[Len(frames)]
BY DEF Below, Front, Runs, Top

\* The invariant holds when the script starts.
LEMMA InitSound == Init => IInv
<1>. SUFFICES ASSUME Init PROVE IInv
  OBVIOUS
<1>. DEFINE sa == [SafeArrayCreate(FixedShape) EXCEPT !.fixed = TRUE]
<1>1. /\ sa \in SafeArrays /\ Len(sa.pvData) = CellCount(sa) /\ sa.cLocks = 0 /\ sa.fixed
  <2>1. PICK t \in SafeArrays :
          t = SafeArrayCreate(FixedShape) /\ Len(t.pvData) = CellCount(t) /\ t.cLocks = 0
    BY CreateParts
  <2>2. [t EXCEPT !.fixed = TRUE] \in SafeArrays /\ [t EXCEPT !.fixed = TRUE].fixed
        /\ [t EXCEPT !.fixed = TRUE].pvData = t.pvData /\ [t EXCEPT !.fixed = TRUE].cLocks = t.cLocks
        /\ [t EXCEPT !.fixed = TRUE].rgsabound = t.rgsabound
    BY DEF SafeArrays
  <2>. QED
    BY <2>1, <2>2 DEF CellCount
<1>. HIDE DEF sa
<1>2. /\ array \in [Id -> SafeArrays \cup {NoArray}] /\ array[FixedId] = sa
      /\ \A id \in Id : id # FixedId => array[id] = NoArray
  BY <1>1, ArrayAssumption DEF Init, sa
<1>3. sa # NoArray
  BY <1>1, ArrayAssumption
<1>4. frames = <<>> /\ frames \in Seq(Frames) /\ DOMAIN frames = {}
  <2>1. frames = <<>> /\ frames \in Seq(Frames) /\ Len(frames) = 0
    BY EmptySeq DEF Init
  <2>. QED
    BY <2>1, LenProperties
<1>5. /\ var[FixedVar] = ByRef(FixedId) /\ var[DynamicVar] = ByRef(NoId) /\ var[LoopVar] = Empty
      /\ var \in [Variable -> Variants]
  <2>1. /\ ByRef(FixedId) \in Variants /\ ByRef(NoId) \in Variants /\ Empty \in Variants
    BY ArrayAssumption DEF ByRef, Empty, Variant, Variants
  <2>2. DynamicVar # FixedVar /\ LoopVar # FixedVar /\ LoopVar # DynamicVar
    BY ArrayAssumption
  <2>3. /\ var[FixedVar] = ByRef(FixedId) /\ var[DynamicVar] = ByRef(NoId) /\ var[LoopVar] = Empty
    BY <2>2 DEF Init, Variable
  <2>4. \A v \in Variable : var[v] \in Variants
    BY <2>1, <2>3 DEF Variable
  <2>5. var \in [Variable -> Variants]
    BY <2>4 DEF Init
  <2>. QED
    BY <2>3, <2>5
<1>6. /\ var[FixedVar].id = FixedId /\ var[FixedVar].vt = "BYREF" /\ var[DynamicVar].id = NoId
      /\ var[LoopVar].id = NoId /\ var[LoopVar].vt = "EMPTY" /\ FixedId \in Id
  BY <1>5, ArrayAssumption DEF ByRef, Empty, Variant
<1>7. Typed(array, var, frames)
  BY <1>1, <1>2, <1>4, <1>5 DEF Typed
<1>8. \A v \in Variable : VarSound(array, var, v)
  <2>1. ASSUME NEW v \in Variable, v = FixedVar PROVE VarSound(array, var, v)
    BY <1>1, <1>2, <1>3, <1>6, <2>1, ArrayAssumption DEF VarSound, Variable
  <2>2. ASSUME NEW v \in Variable, v # FixedVar PROVE VarSound(array, var, v)
    BY <1>6, <2>2 DEF VarSound, Variable
  <2>. QED
    BY <2>1, <2>2
<1>9. Sound(array, var, frames)
  BY <1>4, <1>7, <1>8 DEF Sound, FramesApart
<1>10. LocksCounted(array, frames)
  <2>1. \A id \in Id : Locks(frames, id) = {}
    BY <1>4 DEF Locks
  <2>2. \A id \in Id : Cardinality(Locks(frames, id)) = 0
    BY <2>1, FS_EmptySet
  <2>. QED
    BY <1>1, <1>2, <2>2 DEF LocksCounted
<1>. QED
  BY <1>9, <1>10 DEF IInv

-------------------------------------------------------------------------------
\* A frame that goes over the cells of an array, or stores to one, has an array.
LEMMA FrameHasArray ==
  ASSUME NEW as, NEW vs, NEW f, FrameSound(as, vs, f), f.op \in Emptying \cup {"store", "foreach"}
  PROVE  f.id \in Id /\ as[f.id] # NoArray
BY DEF FrameSound, Visits

\* The steps of what is under way.
LEMMA ClearCellKeeps == IInv /\ ClearCell => IInv'
<1>. SUFFICES ASSUME IInv, ClearCell PROVE IInv'
  OBVIOUS
<1>1. Sound(array, var, frames) /\ LocksCounted(array, frames)
  BY DEF IInv
<1>2. frames # <<>> /\ Top.op \in Emptying /\ Top = frames[Len(frames)]
  BY TopIsFront DEF ClearCell
<1>3. FrameSound(array, var, Top)
  BY <1>1, <1>2, TopParts
<1>4. Top.id \in Id /\ array[Top.id] # NoArray
  BY <1>2, <1>3, FrameHasArray
<1>. DEFINE bs == [array EXCEPT ![Top.id].pvData[Top.pos] = Empty]
<1>5. Sound(bs, var, frames) /\ LocksCounted(bs, frames)
  <2>1. Empty \in Elements
    BY DEF Elements
  <2>. QED
    BY <1>1, <1>4, <2>1, ChangeCell
<1>6. array' = bs /\ var' = var /\ frames' = [frames EXCEPT ![Len(frames)].pos = @ + 1]
  BY DEF ClearCell, Advance
<1>. HIDE DEF bs
<1>7. Sound(bs, var, frames') /\ LocksCounted(bs, frames')
  BY <1>2, <1>5, <1>6, TopAdvances
<1>. QED
  BY <1>6, <1>7 DEF IInv

\* A Class_Terminate begins.
LEMMA TerminatorRunsKeeps == IInv /\ TerminatorRuns => IInv'
<1>. SUFFICES ASSUME IInv, TerminatorRuns PROVE IInv'
  OBVIOUS
<1>1. frames # <<>> /\ frames[Len(frames)].op \in Emptying
  BY TopIsFront DEF TerminatorRuns
<1>2. frames' = Append(frames, Script) /\ array' = array /\ var' = var
  BY DEF TerminatorRuns, Push
<1>. QED
  BY <1>1, <1>2, ScriptPush DEF IInv

\* It is over: the cell that it was in becomes empty.
LEMMA TerminatorReturnsKeeps == IInv /\ TerminatorReturns => IInv'
<1>. SUFFICES ASSUME IInv, TerminatorReturns PROVE IInv'
  OBVIOUS
<1>. DEFINE gs == Front(frames)
            f == gs[Len(gs)]
<1>1. Sound(array, var, frames) /\ LocksCounted(array, frames)
  BY DEF IInv
<1>2. frames # <<>> /\ frames[Len(frames)].op = "script" /\ Below = gs
  BY TopIsFront DEF TerminatorReturns
<1>3. ~IsLock(frames[Len(frames)])
  BY <1>2 DEF IsLock
<1>4. Sound(array, var, gs) /\ LocksCounted(array, gs)
  BY <1>1, <1>2, <1>3, PopPlain
<1>5. gs # <<>> /\ f.op \in Emptying \cup {"assign", "store"}
  <2>1. /\ Above(frames, Len(frames)) /\ Len(frames) \in Nat \ {0} /\ Len(gs) = Len(frames) - 1
        /\ DOMAIN gs = 1..Len(frames) - 1
        /\ \A k \in DOMAIN gs : gs[k] = frames[k]
    BY <1>1, <1>2, TopParts
  <2>2. Len(frames) > 1 /\ frames[Len(frames) - 1].op \in Emptying \cup {"assign", "store"}
    BY <1>2, <2>1 DEF Above
  <2>3. Len(gs) \in DOMAIN gs /\ Len(gs) # 0
    BY <2>1, <2>2
  <2>4. f = frames[Len(frames) - 1]
    BY <2>1, <2>3
  <2>. HIDE DEF gs
  <2>. QED
    BY <2>2, <2>3, <2>4, EmptySeq
<1>6. var' = var /\ IF f.op \in Emptying
                    THEN /\ array' = [array EXCEPT ![f.id].pvData[f.pos] = Empty]
                         /\ frames' = [gs EXCEPT ![Len(gs)].pos = @ + 1]
                    ELSE frames' = gs /\ array' = array
  BY <1>2 DEF TerminatorReturns, Pop
<1>. HIDE DEF gs
<1>7. CASE f.op \in Emptying
  <2>1. FrameSound(array, var, f)
    BY <1>4, <1>5, TopParts
  <2>2. f.id \in Id /\ array[f.id] # NoArray
    BY <1>7, <2>1, FrameHasArray
  <2>. DEFINE bs == [array EXCEPT ![f.id].pvData[f.pos] = Empty]
  <2>3. Empty \in Elements
    BY DEF Elements
  <2>4. Sound(bs, var, gs) /\ LocksCounted(bs, gs)
    BY <1>4, <2>2, <2>3, ChangeCell
  <2>5. array' = bs /\ frames' = [gs EXCEPT ![Len(gs)].pos = @ + 1]
    BY <1>6, <1>7
  <2>. HIDE DEF bs
  <2>6. Sound(bs, var, frames') /\ LocksCounted(bs, frames')
    BY <1>5, <1>7, <2>4, <2>5, TopAdvances
  <2>. QED
    BY <1>6, <2>5, <2>6 DEF IInv
<1>8. CASE f.op \notin Emptying
  BY <1>4, <1>6, <1>8 DEF IInv
<1>. QED
  BY <1>7, <1>8

\* A variable gets its value after the release of the old one.
LEMMA AssignFinishedKeeps == IInv /\ AssignFinished => IInv'
<1>. SUFFICES ASSUME IInv, AssignFinished PROVE IInv'
  OBVIOUS
<1>. DEFINE gs == Front(frames)
            f == frames[Len(frames)]
<1>1. Sound(array, var, frames) /\ LocksCounted(array, frames)
  BY DEF IInv
<1>2. /\ frames # <<>> /\ f.op = "assign"
      /\ var' = [var EXCEPT ![f.to] = f.value] /\ frames' = gs /\ array' = array
  BY TopIsFront DEF AssignFinished, Pop
<1>3. Sound(array, var, gs) /\ LocksCounted(array, gs)
  BY <1>1, <1>2, PopPlain DEF IsLock
<1>4. /\ f \in Frames /\ FrameSound(array, var, f)
      /\ \A k \in DOMAIN gs : Apart(f, gs[k])
  BY <1>1, <1>2, TopParts
<1>. HIDE DEF gs, f
<1>5. f.to \in Variable /\ ValueSound(array, var, f.value) /\ f.value \in Variants /\ Writes(f)
  BY <1>2, <1>4 DEF FrameSound, Writes, Frames
<1>6. \A k \in DOMAIN gs : Writes(gs[k]) => gs[k].to # f.to
  BY <1>4, <1>5 DEF Apart
<1>7. f.value.id # NoId => \A k \in DOMAIN gs :
        gs[k].id # f.value.id /\ (Writes(gs[k]) => gs[k].value.id # f.value.id)
  BY <1>4, <1>5 DEF Apart
<1>8. Sound(array, [var EXCEPT ![f.to] = f.value], gs)
  BY <1>3, <1>5, <1>6, <1>7, SoundVar
<1>. QED
  BY <1>2, <1>3, <1>8 DEF IInv

\* So does a cell.
LEMMA StoreFinishedKeeps == IInv /\ StoreFinished => IInv'
<1>. SUFFICES ASSUME IInv, StoreFinished PROVE IInv'
  OBVIOUS
<1>. DEFINE gs == Front(frames)
            f == frames[Len(frames)]
<1>1. Sound(array, var, frames) /\ LocksCounted(array, frames)
  BY DEF IInv
<1>2. /\ frames # <<>> /\ f.op = "store"
      /\ array' = [array EXCEPT ![f.id].pvData[f.pos] = f.value] /\ frames' = gs /\ var' = var
  BY TopIsFront DEF StoreFinished, Pop
<1>3. Sound(array, var, gs) /\ LocksCounted(array, gs)
  BY <1>1, <1>2, PopPlain DEF IsLock
<1>4. FrameSound(array, var, f)
  BY <1>1, <1>2, TopParts
<1>. HIDE DEF gs, f
<1>5. f.id \in Id /\ array[f.id] # NoArray /\ f.value \in Elements
  BY <1>2, <1>4 DEF FrameSound
<1>6. /\ Sound([array EXCEPT ![f.id].pvData[f.pos] = f.value], var, gs)
      /\ LocksCounted([array EXCEPT ![f.id].pvData[f.pos] = f.value], gs)
  BY <1>3, <1>5, ChangeCell
<1>. QED
  BY <1>2, <1>6 DEF IInv

\* An array is freed: the variable that referred to it gets its value.
LEMMA DestroyFinishedKeeps == IInv /\ DestroyFinished => IInv'
<1>. SUFFICES ASSUME IInv, DestroyFinished PROVE IInv'
  OBVIOUS
<1>. DEFINE gs == Front(frames)
            f == frames[Len(frames)]
            id == f.id
<1>1. Sound(array, var, frames) /\ LocksCounted(array, frames)
  BY DEF IInv
<1>2. /\ frames # <<>> /\ f.op = "destroy"
      /\ array' = [array EXCEPT ![id] = NoArray] /\ frames' = gs
      /\ var' = IF f.to = NoVar THEN var ELSE [var EXCEPT ![f.to] = f.value]
  BY TopIsFront DEF DestroyFinished, Pop
<1>3. Sound(array, var, gs) /\ LocksCounted(array, gs)
  BY <1>1, <1>2, PopPlain DEF IsLock
<1>4. /\ f \in Frames /\ FrameSound(array, var, f)
      /\ \A k \in DOMAIN gs : Apart(f, gs[k]) /\ Apart(gs[k], f) /\ gs[k].id # id
  BY <1>1, <1>2, TopParts
<1>. HIDE DEF gs, f
<1>5. /\ id \in Id /\ id # NoId /\ f.value \in Variants /\ ValueSound(array, var, f.value) /\ Writes(f)
      /\ f.to \in Variable \/ f.to = NoVar
      /\ f.to \in Variable => var[f.to].id = id
      /\ f.to = NoVar => \A v \in Variable : var[v].id # id
  BY <1>2, <1>4, ArrayAssumption DEF FrameSound, Writes, Frames, Visits, Emptying, Owns
<1>6. \A k \in DOMAIN gs : gs[k].id # id /\ (Writes(gs[k]) => gs[k].value.id # id)
  BY <1>4, <1>5 DEF Apart
<1>7. Sound(array, var', gs) /\ \A v \in Variable : var'[v].id # id
  <2>1. CASE f.to = NoVar
    BY <1>2, <1>3, <1>5, <2>1
  <2>2. CASE f.to \in Variable
    <3>1. f.to # NoVar
      BY <2>2, ArrayAssumption
    <3>2. var' = [var EXCEPT ![f.to] = f.value]
      BY <1>2, <3>1
    <3>3. \A k \in DOMAIN gs : Writes(gs[k]) => gs[k].to # f.to
      BY <1>4, <1>5, <2>2 DEF Apart
    <3>4. f.value.id # NoId => \A k \in DOMAIN gs :
            gs[k].id # f.value.id /\ (Writes(gs[k]) => gs[k].value.id # f.value.id)
      BY <1>4, <1>5 DEF Apart
    <3>5. Sound(array, var', gs)
      BY <1>3, <1>5, <2>2, <3>2, <3>3, <3>4, SoundVar
    <3>6. \A v \in Variable : v # f.to => var[v].id # id
      <4>1. VarSound(array, var, f.to)
        BY <1>1, <2>2, Parts
      <4>. QED
        BY <1>5, <2>2, <4>1 DEF VarSound
    <3>7. f.value.id # id
      BY <1>5, <2>2 DEF ValueSound
    <3>8. var \in [Variable -> Variants]
      BY <1>1, Parts
    <3>. QED
      BY <2>2, <3>2, <3>5, <3>6, <3>7, <3>8
  <2>. QED
    BY <1>5, <2>1, <2>2
<1>8. Sound([array EXCEPT ![id] = NoArray], var', gs)
  BY <1>5, <1>6, <1>7, SoundFree
<1>9. LocksCounted([array EXCEPT ![id] = NoArray], gs)
  <2>1. array \in [Id -> SafeArrays \cup {NoArray}]
    BY <1>1, Parts
  <2>. QED
    BY <1>3, <2>1 DEF LocksCounted
<1>. QED
  BY <1>2, <1>8, <1>9 DEF IInv

\* An array gets its smaller size, and its lock is given back.
LEMMA ShrinkFinishedKeeps == IInv /\ ShrinkFinished => IInv'
<1>. SUFFICES ASSUME IInv, ShrinkFinished PROVE IInv'
  OBVIOUS
<1>. DEFINE f == frames[Len(frames)]
            sa == Resized(array[f.id], f.size)
<1>1. Sound(array, var, frames) /\ LocksCounted(array, frames)
  BY DEF IInv
<1>2. frames # <<>> /\ f.op = "shrink"
  BY TopIsFront DEF ShrinkFinished
<1>3. f \in Frames /\ FrameSound(array, var, f)
  BY <1>1, <1>2, TopParts
<1>4. /\ f.id \in Id /\ array[f.id] # NoArray /\ array[f.id] \in SafeArrays /\ f.size \in Nat
      /\ array \in [Id -> SafeArrays \cup {NoArray}]
  <2>1. f.id \in Id /\ array[f.id] # NoArray
    BY <1>2, <1>3, FrameHasArray DEF Emptying
  <2>2. array \in [Id -> SafeArrays \cup {NoArray}] /\ array[f.id] \in SafeArrays
    BY <1>1, <2>1, Parts
  <2>. QED
    BY <1>3, <2>1, <2>2 DEF Frames
<1>5. /\ array' = [array EXCEPT ![f.id] = Unlocked(sa)] /\ frames' = Front(frames) /\ var' = var
  BY <1>4, TopIsFront DEF ShrinkFinished, Pop
<1>6. /\ sa \in SafeArrays /\ Len(sa.pvData) = CellCount(sa)
      /\ sa.fixed = array[f.id].fixed /\ sa.cLocks = array[f.id].cLocks
  BY <1>4, ResizedParts
<1>. HIDE DEF sa
<1>7. IsLock(f)
  BY <1>2 DEF IsLock
<1>8. /\ Sound([array EXCEPT ![f.id] = Unlocked(sa)], var, Front(frames))
      /\ LocksCounted([array EXCEPT ![f.id] = Unlocked(sa)], Front(frames))
  BY <1>1, <1>2, <1>6, <1>7, PopLocked
<1>. QED
  BY <1>5, <1>8 DEF IInv

\* An Erase is over.
LEMMA EraseFinishedKeeps == IInv /\ EraseFinished => IInv'
<1>. SUFFICES ASSUME IInv, EraseFinished PROVE IInv'
  OBVIOUS
<1>. DEFINE f == frames[Len(frames)]
            sa == array[f.id]
<1>1. Sound(array, var, frames) /\ LocksCounted(array, frames)
  BY DEF IInv
<1>2. frames # <<>> /\ f.op = "erase"
  BY TopIsFront DEF EraseFinished
<1>3. FrameSound(array, var, f)
  BY <1>1, <1>2, TopParts
<1>4. f.id \in Id /\ array[f.id] # NoArray
  BY <1>2, <1>3, FrameHasArray DEF Emptying
<1>5. /\ array \in [Id -> SafeArrays \cup {NoArray}]
      /\ sa \in SafeArrays /\ Len(sa.pvData) = CellCount(sa)
  BY <1>1, <1>4, Parts
<1>6. /\ array' = [array EXCEPT ![f.id] = Unlocked(sa)] /\ frames' = Front(frames) /\ var' = var
  BY <1>4, <1>5, TopIsFront DEF EraseFinished, Pop
<1>7. IsLock(f)
  BY <1>2 DEF IsLock
<1>8. /\ Sound([array EXCEPT ![f.id] = Unlocked(sa)], var, Front(frames))
      /\ LocksCounted([array EXCEPT ![f.id] = Unlocked(sa)], Front(frames))
  BY <1>1, <1>2, <1>5, <1>7, PopLocked
<1>. QED
  BY <1>6, <1>8 DEF IInv

\* A For Each is over: a copy that it owns is destroyed.
LEMMA LoopEndsKeeps == IInv /\ LoopEnds => IInv'
<1>. SUFFICES ASSUME IInv, LoopEnds PROVE IInv'
  OBVIOUS
<1>. DEFINE f == frames[Len(frames)]
            gs == Front(frames)
            sa == array[f.id]
            bs == [array EXCEPT ![f.id] = Unlocked(sa)]
            d == Frame("destroy", f.id, 1, f.last, NoVar, Empty)
<1>1. Sound(array, var, frames) /\ LocksCounted(array, frames)
  BY DEF IInv
<1>2. frames # <<>> /\ f.op = "foreach"
  BY TopIsFront DEF LoopEnds
<1>3. /\ f \in Frames /\ FrameSound(array, var, f)
      /\ \A k \in DOMAIN gs : Apart(f, gs[k]) /\ Apart(gs[k], f)
  BY <1>1, <1>2, TopParts
<1>4. f.id \in Id /\ array[f.id] # NoArray
  BY <1>2, <1>3, FrameHasArray
<1>5. /\ array \in [Id -> SafeArrays \cup {NoArray}]
      /\ sa \in SafeArrays /\ Len(sa.pvData) = CellCount(sa)
  BY <1>1, <1>4, Parts
<1>6. /\ array' = bs /\ var' = var
      /\ frames' = IF f.to = Owned THEN Append(gs, d) ELSE gs
  BY <1>4, <1>5, TopIsFront DEF LoopEnds
<1>7. IsLock(f)
  BY <1>2 DEF IsLock
<1>8. /\ Sound(bs, var, gs) /\ LocksCounted(bs, gs)
      /\ Unlocked(sa) \in SafeArrays /\ CellCount(Unlocked(sa)) = CellCount(sa)
  BY <1>1, <1>2, <1>5, <1>7, PopLocked
<1>9. CASE f.to # Owned
  BY <1>6, <1>8, <1>9 DEF IInv
<1>10. CASE f.to = Owned
  <2>1. /\ f.last = CellCount(sa) /\ f.last \in Nat /\ f.id # NoId
        /\ \A v \in Variable : var[v].id # f.id
    BY <1>2, <1>3, <1>4, <1>10, ArrayAssumption DEF FrameSound, Visits, Owns, Frames
  <2>2. /\ d \in Frames /\ d.op = "destroy" /\ d.id = f.id /\ d.last = f.last /\ d.to = NoVar
        /\ d.value = Empty
    BY <1>4, <2>1, ValuesTyped DEF Frame, Frames
  <2>3. bs[f.id] # NoArray /\ CellCount(bs[f.id]) = f.last
    <3>1. bs[f.id] = Unlocked(sa)
      BY <1>4, <1>5
    <3>. QED
      BY <1>8, <2>1, <3>1, ArrayAssumption
  <2>. HIDE DEF bs, d, gs, f, sa
  <2>3a. NoVar # Owned
    BY DEF NoVar, Owned
  <2>4. FrameSound(bs, var, d)
    BY <1>4, <2>1, <2>2, <2>3, <2>3a, ValuesTyped, ArrayAssumption
       DEF FrameSound, Visits, Writes, Owns, Emptying, ValueSound
  <2>5. ASSUME NEW k \in DOMAIN gs PROVE Apart(gs[k], d) /\ Apart(d, gs[k]) /\ gs[k].id # d.id
    <3>1. gs[k].id # f.id
      BY <1>2, <1>3, <1>10 DEF Apart, Owns
    <3>2. Apart(gs[k], d)
      BY <1>3, <2>2, ValuesTyped, ArrayAssumption DEF Apart
    <3>3. Apart(d, gs[k])
      BY <2>2, <3>1, ValuesTyped, ArrayAssumption DEF Apart
    <3>. QED
      BY <2>2, <3>1, <3>2, <3>3
  <2>6. Sound(bs, var, Append(gs, d))
    BY <1>8, <2>2, <2>4, <2>5, SoundPush
  <2>7. LocksCounted(bs, Append(gs, d))
    <3>1. gs \in Seq(Frames)
      BY <1>8, Parts
    <3>2. \A id \in Id : Lock(d, id) = 0
      BY <2>2 DEF Lock, IsLock
    <3>3. \A id \in Id : /\ Cardinality(Locks(Append(gs, d), id)) = Cardinality(Locks(gs, id)) + Lock(d, id)
                         /\ Cardinality(Locks(gs, id)) \in Nat
      BY <2>2, <3>1, LocksPush, LocksFinite
    <3>. QED
      BY <1>8, <3>2, <3>3 DEF LocksCounted
  <2>. QED
    BY <1>6, <1>10, <2>6, <2>7 DEF IInv
<1>. QED
  BY <1>9, <1>10

\* An allocation takes memory that holds no array.
LEMMA FirstFreshIs ==
  ASSUME CanAllocate
  PROVE  FirstFresh \in Id /\ array[FirstFresh] = NoArray
BY DEF CanAllocate, FirstFresh, Fresh, Allocated

\* The SAFEARRAY sa is allocated: what refers to nothing else can refer to it.
LEMMA Allocates ==
  ASSUME IInv, NEW id \in Id, array[id] = NoArray,
         NEW sa \in SafeArrays, Len(sa.pvData) = CellCount(sa), sa.cLocks = 0
  PROVE  /\ Sound([array EXCEPT ![id] = sa], var, frames)
         /\ LocksCounted([array EXCEPT ![id] = sa], frames)
         /\ ValueSound([array EXCEPT ![id] = sa], var, Array(id)) /\ Array(id) \in Variants
         /\ Array(id).id = id
         /\ \A v \in Variable : var[v].id # id
         /\ \A k \in DOMAIN frames :
              frames[k].id # id /\ (Writes(frames[k]) => frames[k].value.id # id)
<1>1. Sound(array, var, frames) /\ LocksCounted(array, frames)
  BY DEF IInv
<1>2. /\ \A v \in Variable : var[v].id # id
      /\ \A k \in DOMAIN frames :
              frames[k].id # id /\ (Writes(frames[k]) => frames[k].value.id # id)
  BY <1>1, FreeIsUnused
<1>3. /\ Sound([array EXCEPT ![id] = sa], var, frames)
      /\ LocksCounted([array EXCEPT ![id] = sa], frames)
  BY <1>1, ChangeArray
<1>4. [array EXCEPT ![id] = sa][id] # NoArray
  <2>1. array \in [Id -> SafeArrays \cup {NoArray}]
    BY <1>1, Parts
  <2>. QED
    BY <2>1, ArrayAssumption
<1>5. Array(id) \in Variants /\ Array(id).id = id /\ Array(id).vt = "ARRAY"
  BY ValuesTyped
<1>6. ValueSound([array EXCEPT ![id] = sa], var, Array(id))
  BY <1>2, <1>4, <1>5 DEF ValueSound
<1>. QED
  BY <1>2, <1>3, <1>5, <1>6

\* Put by a statement, of a new array or of a value without one.
LEMMA PutByStatement ==
  ASSUME NEW STATE as, NEW v \in Variable, NEW STATE x,
         Sound(as, var, frames), LocksCounted(as, frames), x \in Variants, ValueSound(as, var, x),
         x.id # NoId => \A k \in DOMAIN frames :
           frames[k].id # x.id /\ (Writes(frames[k]) => frames[k].value.id # x.id),
         Put(v, x, as, frames)
  PROVE  IInv'
<1>1. Settled(v) => \A k \in DOMAIN frames : Writes(frames[k]) => frames[k].to # v
  BY DEF Settled, Writes
<1>2. ArraySettled(var[v].id) =>
        \A k \in DOMAIN frames : frames[k].id = var[v].id => frames[k].op \notin {"destroy", "erase", "store"}
  BY DEF ArraySettled
<1>. QED
  BY <1>1, <1>2, PutKeeps

\* The statements.
LEMMA ReDimKeeps ==
  ASSUME NEW v \in Variable, NEW s \in Shapes, IInv, ReDim(v, s)
  PROVE  IInv'
<1>. DEFINE id == FirstFresh
            sa == SafeArrayCreate(s)
            as == [array EXCEPT ![id] = sa]
            x == Array(id)
<1>1. id \in Id /\ array[id] = NoArray
  BY FirstFreshIs DEF ReDim
<1>2. sa \in SafeArrays /\ Len(sa.pvData) = CellCount(sa) /\ sa.cLocks = 0
  BY CreateParts
<1>3. Put(v, x, as, frames)
  BY DEF ReDim
<1>. HIDE DEF id, sa
<1>4. /\ Sound(as, var, frames) /\ LocksCounted(as, frames) /\ ValueSound(as, var, x) /\ x \in Variants
      /\ x.id = id
      /\ \A k \in DOMAIN frames :
              frames[k].id # id /\ (Writes(frames[k]) => frames[k].value.id # id)
  BY <1>1, <1>2, Allocates
<1>. HIDE DEF as, x
<1>. QED
  BY <1>3, <1>4, PutByStatement

\* ReDim Preserve of a variable without an array.
LEMMA ReDimPreserveNewKeeps ==
  ASSUME NEW v \in Variable, NEW s \in Shapes, IInv, ReDimPreserveNew(v, s)
  PROVE  IInv'
<1>. DEFINE id == FirstFresh
            sa == SafeArrayCreate(s)
            as == [array EXCEPT ![id] = sa]
            x == Array(id)
<1>1. id \in Id /\ array[id] = NoArray
  BY FirstFreshIs DEF ReDimPreserveNew
<1>2. sa \in SafeArrays /\ Len(sa.pvData) = CellCount(sa) /\ sa.cLocks = 0
  BY CreateParts
<1>3. /\ array' = as /\ var' = [var EXCEPT ![v] = x] /\ frames' = frames
      /\ \A k \in DOMAIN frames : Writes(frames[k]) => frames[k].to # v
  BY DEF ReDimPreserveNew, Settled, Writes
<1>. HIDE DEF id, sa
<1>4. /\ Sound(as, var, frames) /\ LocksCounted(as, frames) /\ ValueSound(as, var, x) /\ x \in Variants
      /\ x.id = id
      /\ \A k \in DOMAIN frames :
              frames[k].id # id /\ (Writes(frames[k]) => frames[k].value.id # id)
  BY <1>1, <1>2, Allocates
<1>. HIDE DEF as, x
<1>5. Sound(as, [var EXCEPT ![v] = x], frames)
  BY <1>3, <1>4, SoundVar
<1>. QED
  BY <1>3, <1>4, <1>5 DEF IInv

\* A frame that is no assignment and owns nothing, over the array of a variable,
\* agrees with every frame.
LEMMA ApartFromVariable ==
  ASSUME IInv, NEW v \in Variable, var[v].id # NoId, NEW f \in Frames, f.id = var[v].id,
         f.op \in {"shrink", "erase", "store", "foreach"}, f.to = NoVar
  PROVE  \A k \in DOMAIN frames : Apart(frames[k], f) /\ Apart(f, frames[k])
<1>1. \A k \in DOMAIN frames : /\ Writes(frames[k]) => frames[k].value.id # var[v].id
                               /\ Owns(frames[k]) => frames[k].id # var[v].id
  BY HeldByVariable DEF IInv
<1>2. NoVar # Owned
  BY DEF NoVar, Owned
<1>3. ~Writes(f) /\ ~Owns(f)
  BY <1>2 DEF Writes, Owns
<1>. QED
  BY <1>1, <1>3 DEF Apart

\* A loop over the cells of the array of a variable begins, and locks it.
LEMMA LocksVariable ==
  ASSUME IInv, NEW v \in Variable, var[v].id # NoId, NEW f \in Frames, f.id = var[v].id,
         f.op \in {"shrink", "erase", "foreach"}, f.to = NoVar,
         f.last = CellCount(array[var[v].id]), f.op = "foreach" => f.pos # 0,
         f.op = "shrink" => \A k \in DOMAIN frames : frames[k].id # f.id
  PROVE  /\ Sound([array EXCEPT ![f.id] = Locked(@)], var, Append(frames, f))
         /\ LocksCounted([array EXCEPT ![f.id] = Locked(@)], Append(frames, f))
<1>1. Sound(array, var, frames) /\ LocksCounted(array, frames)
  BY DEF IInv
<1>2. f.id \in Id /\ array[f.id] # NoArray
  BY <1>1, HeldByVariable
<1>3. NoVar # Owned /\ NoVar \notin Variable
  BY ArrayAssumption DEF NoVar, Owned
<1>4. FrameSound(array, var, f)
  BY <1>2, <1>3 DEF FrameSound, Visits, Writes, Owns, Emptying
<1>5. \A k \in DOMAIN frames : Apart(frames[k], f) /\ Apart(f, frames[k])
  BY ApartFromVariable
<1>6. IsLock(f)
  BY DEF IsLock
<1>. QED
  BY <1>1, <1>2, <1>4, <1>5, <1>6, PushLocked

\* ReDim Preserve of one that has an array.
LEMMA ReDimPreserveKeeps ==
  ASSUME NEW v \in Variable, NEW s \in Shapes, IInv, ReDimPreserve(v, s)
  PROVE  IInv'
<1>. DEFINE id == var[v].id
            n == Last(s)
            sa == array[id]
<1>1. Sound(array, var, frames) /\ LocksCounted(array, frames)
  BY DEF IInv
<1>2. /\ id # NoId /\ ArraySettled(id) /\ Resizable(sa)
      /\ var' = var
  BY DEF ReDimPreserve
<1>3. id \in Id /\ sa # NoArray /\ sa \in SafeArrays
  BY <1>1, <1>2, HeldByVariable
<1>4. /\ Len(sa.pvData) = CellCount(sa) /\ array \in [Id -> SafeArrays \cup {NoArray}]
  BY <1>1, <1>3, Parts
<1>5. n \in Nat
  <2>1. s # <<>> /\ s \in Seq(0..MaxIndex + 1) /\ MaxIndex \in Nat
    BY ArrayAssumption
  <2>2. Last(s) \in 0..MaxIndex + 1
    BY <2>1, FrontAndLast DEF Last
  <2>. QED
    BY <2>1, <2>2
<1>6. \A k \in DOMAIN frames : frames[k].id # id
  <2>1. sa.cLocks = 0
    BY <1>2 DEF Resizable
  <2>2. \A k \in DOMAIN frames : frames[k].id = id => frames[k].op \notin {"destroy", "erase", "store"}
    BY <1>2 DEF ArraySettled
  <2>. QED
    BY <1>1, <1>3, <2>1, <2>2, NoFrame
<1>7. CASE n < sa.rgsabound[1]
  <2>. DEFINE kept == CellsKept(sa, n)
              f == Shrink(id, kept + 1, CellCount(sa), n)
  <2>1. frames' = Append(frames, f) /\ array' = [array EXCEPT ![id] = Locked(@)]
    BY <1>7 DEF ReDimPreserve, Push
  <2>2. /\ f \in Frames /\ f.op = "shrink" /\ f.id = id /\ f.to = NoVar /\ f.last = CellCount(sa)
    <3>1. CellCount(sa) \in Nat
      BY <1>3, CountIsNat
    <3>2. kept + 1 \in Nat
      <4>1. sa.rgsabound \in Seq(Nat)
        BY <1>3 DEF SafeArrays
      <4>2. Len(s) = Len(sa.rgsabound) /\ Len(s) \in Nat \ {0}
        <5>1. s # <<>> /\ s \in Seq(0..MaxIndex + 1)
          BY ArrayAssumption
        <5>. QED
          BY <5>1, EmptySeq DEF ReDimPreserve, SameButLast
      <4>3. sa.rgsabound[1] \in Nat \ {0}
        <5>1. 1 \in 1..Len(sa.rgsabound)
          BY <4>2
        <5>2. sa.rgsabound[1] \in Nat
          BY <4>1, <5>1, ElementOfSeq
        <5>. QED
          BY <1>5, <1>7, <5>2
      <4>4. \A a \in Nat, b \in Nat \ {0} : a \div b \in Nat
        OBVIOUS
      <4>5. CellCount(sa) \div sa.rgsabound[1] \in Nat
        BY <3>1, <4>3, <4>4
      <4>6. kept \in Nat
        BY <1>5, <4>5, NatSum DEF CellsKept
      <4>. HIDE DEF kept
      <4>. QED
        BY <4>6
    <3>3. Empty \in Variants /\ id \in Id
      BY <1>3, ValuesTyped
    <3>. HIDE DEF kept
    <3>. QED
      BY <1>5, <3>1, <3>2, <3>3 DEF Shrink, Frame, Frames
  <2>. HIDE DEF f
  <2>3. Sound([array EXCEPT ![id] = Locked(@)], var, Append(frames, f))
        /\ LocksCounted([array EXCEPT ![id] = Locked(@)], Append(frames, f))
    BY <1>2, <1>6, <2>2, LocksVariable
  <2>. QED
    BY <1>2, <2>1, <2>3 DEF IInv
<1>8. CASE ~(n < sa.rgsabound[1])
  <2>. DEFINE sb == Resized(sa, n)
  <2>1. frames' = frames /\ array' = [array EXCEPT ![id] = sb]
    BY <1>3, <1>4, <1>8 DEF ReDimPreserve
  <2>2. /\ sb \in SafeArrays /\ Len(sb.pvData) = CellCount(sb)
        /\ sb.fixed = sa.fixed /\ sb.cLocks = sa.cLocks
    BY <1>3, <1>5, ResizedParts
  <2>. HIDE DEF sb
  <2>3. Sound([array EXCEPT ![id] = sb], var, frames) /\ LocksCounted([array EXCEPT ![id] = sb], frames)
    BY <1>1, <1>3, <1>6, <2>2, ChangeArray
  <2>. QED
    BY <1>2, <2>1, <2>3 DEF IInv
<1>. QED
  BY <1>7, <1>8

\* Erase of an array that can be resized is the assignment of no array.
LEMMA EraseIsPut ==
  ASSUME IInv, NEW v \in Variable, Erase(v), ~array[var[v].id].fixed
  PROVE  Put(v, Array(NoId), array, frames) /\ var[v].vt = "ARRAY"
<1>. DEFINE id == var[v].id
<1>1. VarSound(array, var, v)
  BY Parts DEF IInv
<1>2. id # NoId
  BY DEF Erase
<1>3. var[v].vt = "ARRAY"
  BY <1>1, <1>2 DEF VarSound
<1>. QED
  BY <1>2, <1>3 DEF Erase, Put, Push

\* Erase.
LEMMA EraseKeeps ==
  ASSUME NEW v \in Variable, IInv, Erase(v)
  PROVE  IInv'
<1>. DEFINE id == var[v].id
            f == Frame("erase", id, 1, CellCount(array[id]), NoVar, Empty)
<1>1. Sound(array, var, frames) /\ LocksCounted(array, frames)
  BY DEF IInv
<1>2. id # NoId
  BY DEF Erase
<1>3. id \in Id /\ array[id] \in SafeArrays
  BY <1>1, <1>2, HeldByVariable
<1>4. CASE array[id].fixed
  <2>1. /\ frames' = Append(frames, f) /\ array' = [array EXCEPT ![id] = Locked(@)] /\ var' = var
    BY <1>4 DEF Erase, Push
  <2>2. /\ f \in Frames /\ f.op = "erase" /\ f.id = id /\ f.to = NoVar /\ f.last = CellCount(array[id])
    <3>1. CellCount(array[id]) \in Nat /\ Empty \in Variants
      BY <1>3, CountIsNat, ValuesTyped
    <3>. QED
      BY <1>3, <3>1 DEF Frame, Frames
  <2>. HIDE DEF f
  <2>3. Sound([array EXCEPT ![id] = Locked(@)], var, Append(frames, f))
        /\ LocksCounted([array EXCEPT ![id] = Locked(@)], Append(frames, f))
    BY <1>2, <2>2, LocksVariable
  <2>. QED
    BY <2>1, <2>3 DEF IInv
<1>5. CASE ~array[id].fixed
  <2>1. Put(v, Array(NoId), array, frames)
    BY <1>5, EraseIsPut
  <2>2. Array(NoId) \in Variants /\ Array(NoId).id = NoId /\ Array(NoId).vt = "ARRAY"
    BY ValuesTyped
  <2>3. ValueSound(array, var, Array(NoId))
    BY <2>2 DEF ValueSound
  <2>. QED
    BY <1>1, <2>1, <2>2, <2>3, PutByStatement
<1>. QED
  BY <1>4, <1>5

\* Assignments to variables.
LEMMA AssignKeeps ==
  ASSUME NEW v \in Variable, NEW STATE value, IInv, Assign(v, value),
         value \in {Empty, Object} \cup {var[w] : w \in Variable}
  PROVE  IInv'
<1>1. Sound(array, var, frames) /\ LocksCounted(array, frames)
  BY DEF IInv
<1>2. value \in Variants /\ (value.id # NoId => IsArray(value) /\ value.id \in Id /\ array[value.id] # NoArray)
  <2>1. CASE value \in {Empty, Object}
    BY <2>1, ValuesTyped
  <2>2. ASSUME NEW w \in Variable, value = var[w]
        PROVE  value \in Variants /\ (value.id # NoId => IsArray(value) /\ value.id \in Id /\ array[value.id] # NoArray)
    <3>1. var[w] \in Variants /\ VarSound(array, var, w)
      BY <1>1, Parts
    <3>. QED
      BY <2>2, <3>1 DEF VarSound, Variants, IsArray
  <2>. QED
    BY <2>1, <2>2
<1>3. CASE IsArray(value) /\ value.id # NoId
  <2>. DEFINE id == FirstFresh
              sa == SafeArrayCopy(array[value.id])
              as == [array EXCEPT ![id] = sa]
              x == Array(id)
  <2>1. id \in Id /\ array[id] = NoArray
    BY <1>3, FirstFreshIs DEF Assign
  <2>2. sa \in SafeArrays /\ Len(sa.pvData) = CellCount(sa) /\ sa.cLocks = 0
    <3>1. array[value.id] \in SafeArrays /\ Len(array[value.id].pvData) = CellCount(array[value.id])
      BY <1>1, <1>2, <1>3, Parts
    <3>. QED
      BY <3>1, LockParts
  <2>3. Put(v, x, as, frames)
    BY <1>3 DEF Assign
  <2>. HIDE DEF id, sa
  <2>4. /\ Sound(as, var, frames) /\ LocksCounted(as, frames) /\ ValueSound(as, var, x) /\ x \in Variants
        /\ x.id = id
        /\ \A k \in DOMAIN frames :
                frames[k].id # id /\ (Writes(frames[k]) => frames[k].value.id # id)
    BY <2>1, <2>2, Allocates
  <2>. HIDE DEF as, x
  <2>. QED
    BY <2>3, <2>4, PutByStatement
<1>4. CASE ~(IsArray(value) /\ value.id # NoId)
  <2>. DEFINE x == IF IsArray(value) THEN Array(NoId) ELSE value
  <2>1. Put(v, x, array, frames)
    BY <1>4 DEF Assign
  <2>2. x \in Variants /\ x.id = NoId /\ x.vt # "BYREF"
    BY <1>2, <1>4, ValuesTyped DEF IsArray
  <2>. HIDE DEF x
  <2>3. ValueSound(array, var, x)
    BY <2>2 DEF ValueSound
  <2>. QED
    BY <1>1, <2>1, <2>2, <2>3, PutByStatement
<1>. QED
  BY <1>3, <1>4

\* Assignments to elements.
LEMMA SetElementKeeps ==
  ASSUME NEW v \in Variable, NEW idx \in Index, NEW value \in Elements, IInv, SetElement(v, idx, value)
  PROVE  IInv'
<1>. DEFINE id == var[v].id
            c == SafeArrayPtrOfIndex(array[id], idx)
            f == Frame("store", id, c, 0, NoVar, value)
<1>1. Sound(array, var, frames) /\ LocksCounted(array, frames)
  BY DEF IInv
<1>2. id # NoId /\ InBounds(array[id], idx) /\ var' = var
  BY DEF SetElement
<1>3. id \in Id /\ array[id] # NoArray /\ array[id] \in SafeArrays
  BY <1>1, <1>2, HeldByVariable
<1>4. idx \in Seq(Nat)
  <2>1. PICK s \in Shapes \cup {FixedShape} : idx \in [DOMAIN s -> 0..MaxIndex]
    BY DEF Index
  <2>2. s \in Seq(0..MaxIndex + 1) /\ MaxIndex \in Nat
    BY ArrayAssumption
  <2>3. PICK n \in Nat : DOMAIN s = 1..n
    BY <2>2, LenProperties
  <2>4. idx \in [1..n -> Nat]
    BY <2>1, <2>2, <2>3
  <2>. QED
    BY <2>4, FunctionIsSeq
<1>5. c \in 1..CellCount(array[id]) /\ c \in DOMAIN array[id].pvData /\ c \in Nat
  <2>1. array[id].rgsabound \in Seq(Nat) /\ array[id].pvData \in Seq(Elements)
    BY <1>3 DEF SafeArrays
  <2>2. c \in 1..CellCount(array[id])
    BY <1>2, <1>4, <2>1, PtrIsCell
  <2>3. Len(array[id].pvData) = CellCount(array[id])
    BY <1>1, <1>3, Parts
  <2>. HIDE DEF c
  <2>. QED
    BY <2>1, <2>2, <2>3, LenProperties
<1>6. \/ array' = [array EXCEPT ![id].pvData[c] = value] /\ frames' = frames
      \/ frames' = frames \o <<f, Script>> /\ array' = array
  BY DEF SetElement
<1>. HIDE DEF c
<1>7. CASE array' = [array EXCEPT ![id].pvData[c] = value] /\ frames' = frames
  <2>1. /\ Sound([array EXCEPT ![id].pvData[c] = value], var, frames)
        /\ LocksCounted([array EXCEPT ![id].pvData[c] = value], frames)
    BY <1>1, <1>3, ChangeCell
  <2>. QED
    BY <1>2, <1>7, <2>1 DEF IInv
<1>8. CASE frames' = frames \o <<f, Script>> /\ array' = array
  <2>. DEFINE gs == Append(frames, f)
  <2>1. /\ f \in Frames /\ f.op = "store" /\ f.id = id /\ f.pos = c /\ f.to = NoVar /\ f.value = value
    <3>1. value \in Variants
      BY ValuesTyped
    <3>. QED
      BY <1>3, <1>5, <3>1 DEF Frame, Frames
  <2>2. frames \in Seq(Frames) /\ Script \in Frames
    BY <1>1, Parts, ScriptTyped
  <2>. HIDE DEF f
  <2>3. frames' = Append(gs, Script)
    BY <1>8, <2>1, <2>2, ConcatTwo
  <2>4. FrameSound(array, var, f)
    BY <1>3, <1>5, <2>1 DEF FrameSound, Visits, Writes, Owns, Emptying
  <2>5. \A k \in DOMAIN frames : Apart(frames[k], f) /\ Apart(f, frames[k])
    BY <1>2, <2>1, ApartFromVariable
  <2>6. Sound(array, var, gs)
    BY <1>1, <2>1, <2>4, <2>5, SoundPush
  <2>7. LocksCounted(array, gs)
    <3>1. \A i \in Id : Lock(f, i) = 0
      BY <2>1 DEF Lock, IsLock
    <3>2. \A i \in Id : /\ Cardinality(Locks(gs, i)) = Cardinality(Locks(frames, i)) + Lock(f, i)
                        /\ Cardinality(Locks(frames, i)) \in Nat
      BY <2>1, <2>2, LocksPush, LocksFinite
    <3>. QED
      BY <1>1, <3>1, <3>2 DEF LocksCounted
  <2>8. gs # <<>> /\ gs[Len(gs)] = f
    <3>1. gs \in Seq(Frames) /\ gs[Len(frames) + 1] = f /\ Len(gs) = Len(frames) + 1 /\ Len(frames) \in Nat
      BY <2>1, <2>2, AppendParts
    <3>2. Len(gs) # 0
      BY <3>1
    <3>. QED
      BY <3>1, <3>2, EmptySeq
  <2>. HIDE DEF gs
  <2>9. Sound(array, var, Append(gs, Script)) /\ LocksCounted(array, Append(gs, Script))
    BY <2>1, <2>6, <2>7, <2>8, ScriptPush
  <2>. QED
    BY <1>2, <1>8, <2>3, <2>9 DEF IInv
<1>. QED
  BY <1>6, <1>7, <1>8

\* A For Each over the array of a variable.
LEMMA NewEnumKeeps ==
  ASSUME NEW v \in Variable, IInv, NewEnum(v)
  PROVE  IInv'
<1>. DEFINE id == var[v].id
            f == ForEach(id, array[id], NoVar)
<1>1. Sound(array, var, frames)
  BY DEF IInv
<1>2. /\ id # NoId /\ frames' = Append(frames, f)
      /\ array' = [array EXCEPT ![id] = Locked(@)] /\ var' = var
  BY DEF NewEnum, Push
<1>3. id \in Id /\ array[id] \in SafeArrays
  BY <1>1, <1>2, HeldByVariable
<1>4. /\ f \in Frames /\ f.op = "foreach" /\ f.id = id /\ f.to = NoVar
      /\ f.last = CellCount(array[id]) /\ f.pos # 0
  <2>1. CellCount(array[id]) \in Nat /\ Empty \in Variants
    BY <1>3, CountIsNat, ValuesTyped
  <2>. QED
    BY <1>3, <2>1 DEF ForEach, Frame, Frames
<1>. HIDE DEF f
<1>5. /\ Sound([array EXCEPT ![id] = Locked(@)], var, Append(frames, f))
      /\ LocksCounted([array EXCEPT ![id] = Locked(@)], Append(frames, f))
  BY <1>2, <1>4, LocksVariable
<1>. QED
  BY <1>2, <1>5 DEF IInv

\* A For Each over a copy.
LEMMA NewEnumOwnedKeeps ==
  ASSUME NEW v \in Variable, IInv, NewEnumOwned(v)
  PROVE  IInv'
<1>. DEFINE sa == array[var[v].id]
            sb == SafeArrayCopy(sa)
            id == FirstFresh
            f == ForEach(id, sb, Owned)
            as == [array EXCEPT ![id] = sb]
<1>1. Sound(array, var, frames)
  BY DEF IInv
<1>2. /\ var[v].id # NoId /\ frames' = Append(frames, f)
      /\ array' = [array EXCEPT ![id] = Locked(sb)] /\ var' = var
  BY DEF NewEnumOwned, Push
<1>3. /\ sa \in SafeArrays /\ Len(sa.pvData) = CellCount(sa)
      /\ array \in [Id -> SafeArrays \cup {NoArray}]
  BY <1>1, <1>2, HeldByVariable, Parts
<1>4. id \in Id /\ array[id] = NoArray
  BY FirstFreshIs DEF NewEnumOwned
<1>5. sb \in SafeArrays /\ Len(sb.pvData) = CellCount(sb) /\ sb.cLocks = 0
  BY <1>3, LockParts
<1>6. /\ f \in Frames /\ f.op = "foreach" /\ f.id = id /\ f.to = Owned
      /\ f.last = CellCount(sb) /\ f.pos # 0
  <2>1. CellCount(sb) \in Nat /\ Empty \in Variants
    BY <1>5, CountIsNat, ValuesTyped
  <2>. HIDE DEF sb, id
  <2>. QED
    BY <1>4, <2>1 DEF ForEach, Frame, Frames
<1>. HIDE DEF f, sb, id
<1>7. /\ Sound(as, var, frames) /\ LocksCounted(as, frames)
      /\ \A w \in Variable : var[w].id # id
      /\ \A k \in DOMAIN frames :
              frames[k].id # id /\ (Writes(frames[k]) => frames[k].value.id # id)
  BY <1>4, <1>5, Allocates
<1>8. as[id] = sb /\ as[id] # NoArray
  BY <1>3, <1>4, <1>5, ArrayAssumption
<1>9. [as EXCEPT ![id] = Locked(@)] = [array EXCEPT ![id] = Locked(sb)]
  BY <1>3, <1>4
<1>. HIDE DEF as
<1>10. FrameSound(as, var, f)
  <2>1. Owned \notin Variable
    BY ArrayAssumption
  <2>. QED
    BY <1>4, <1>6, <1>7, <1>8, <2>1 DEF FrameSound, Visits, Writes
<1>11. \A k \in DOMAIN frames : Apart(frames[k], f) /\ Apart(f, frames[k])
  BY <1>6, <1>7 DEF Apart, Writes
<1>12. IsLock(f)
  BY <1>6 DEF IsLock
<1>13. /\ Sound([as EXCEPT ![id] = Locked(@)], var, Append(frames, f))
       /\ LocksCounted([as EXCEPT ![id] = Locked(@)], Append(frames, f))
  BY <1>4, <1>6, <1>7, <1>8, <1>10, <1>11, <1>12, PushLocked
<1>. QED
  BY <1>2, <1>9, <1>13 DEF IInv

\* The value that the loop variable gets.
EnumValue == IF Top.pos <= Top.last THEN array[Top.id].pvData[Top.pos] ELSE Empty

\* The frame of the loop when it has.
Onward(g) ==
  /\ g.op = "foreach" /\ g.id = Top.id /\ g.last = Top.last
  /\ g.pos = Top.pos + 1 /\ g.value = EnumValue

\* OP_enumnext stores an element, or Empty, to the loop variable while its own
\* frame goes on.
LEMMA EnumNextIsPut ==
  ASSUME IInv, EnumNext
  PROVE  \E fs : /\ Put(LoopVar, EnumValue, array, fs)
                 /\ Sound(array, var, fs) /\ LocksCounted(array, fs)
                 /\ DOMAIN fs = DOMAIN frames /\ \A k \in DOMAIN fs : Alike(frames[k], fs[k])
                 /\ EnumValue \in Elements
                 /\ \E g \in Frames : fs = Append(Front(frames), g) /\ Onward(g)
<1>. DEFINE f == frames[Len(frames)]
            g == [f EXCEPT !.pos = @ + 1, !.value = EnumValue]
            fs == WithTop(frames, g)
<1>1. Sound(array, var, frames) /\ LocksCounted(array, frames)
  BY DEF IInv
<1>2. frames # <<>> /\ f.op = "foreach" /\ Top = f /\ Below = Front(frames)
  BY TopIsFront DEF EnumNext, AtNext
<1>3. f \in Frames /\ FrameSound(array, var, f)
  BY <1>1, <1>2, TopParts
<1>4. EnumValue \in Elements
  <2>1. CASE f.pos <= f.last
    <3>1. /\ f.id \in Id /\ array[f.id] \in SafeArrays /\ f.last = CellCount(array[f.id])
          /\ f.pos # 0 /\ f.pos \in Nat /\ f.last \in Nat
      <4>1. f.id \in Id /\ array[f.id] # NoArray
        BY <1>2, <1>3, FrameHasArray
      <4>. QED
        BY <1>1, <1>2, <1>3, <4>1, Parts DEF FrameSound, Visits, Frames
    <3>2. array[f.id].pvData \in Seq(Elements) /\ Len(array[f.id].pvData) = f.last
      BY <1>1, <3>1, ArrayAssumption, Parts DEF SafeArrays
    <3>3. f.pos \in 1..Len(array[f.id].pvData)
      BY <2>1, <3>1, <3>2
    <3>4. array[f.id].pvData[f.pos] \in Elements
      BY <3>2, <3>3, ElementOfSeq
    <3>. QED
      BY <1>2, <2>1, <3>4 DEF EnumValue
  <2>2. CASE ~(f.pos <= f.last)
    BY <1>2, <2>2 DEF EnumValue, Elements
  <2>. QED
    BY <2>1, <2>2
<1>5. g \in Frames /\ Alike(f, g) /\ Onward(g)
  <2>1. EnumValue \in Variants
    BY <1>4, ValuesTyped
  <2>2. f.pos + 1 \in Nat \ {0}
    BY <1>3 DEF Frames
  <2>3. g \in Frames /\ g.pos = f.pos + 1
    BY <1>3, <2>1, <2>2 DEF Frames
  <2>4. g.op = f.op /\ g.id = f.id /\ g.last = f.last /\ g.to = f.to
    BY <1>3 DEF Frames
  <2>5. g.value = EnumValue
    BY <1>3 DEF Frames
  <2>. QED
    BY <1>2, <2>2, <2>3, <2>4, <2>5 DEF Alike, Onward
<1>6. frames \in Seq(Frames) /\ Len(frames) \in 1..Len(frames) /\ DOMAIN frames = 1..Len(frames)
  <2>1. Len(frames) \in Nat \ {0}
    BY <1>1, <1>2, TopParts
  <2>. QED
    BY <1>1, <2>1, Parts
<1>7. Put(LoopVar, EnumValue, array, Append(Front(frames), g))
  BY <1>2 DEF EnumNext, EnumValue
<1>. HIDE DEF g
<1>8. Append(Front(frames), g) = fs
  BY <1>2, <1>5, <1>6, LastReplaced DEF WithTop
<1>9. /\ Sound(array, var, fs)
      /\ \A id \in Id : Locks(fs, id) = Locks(frames, id)
  BY <1>1, <1>2, <1>5, SoundTop
<1>10. LocksCounted(array, fs)
  BY <1>1, <1>9 DEF LocksCounted
<1>11. DOMAIN fs = DOMAIN frames /\ \A k \in DOMAIN fs : Alike(frames[k], fs[k])
  <2>1. /\ DOMAIN fs = DOMAIN frames
        /\ \A k \in DOMAIN frames : k # Len(frames) => fs[k] = frames[k]
        /\ fs[Len(frames)] = g
    BY <1>6 DEF WithTop
  <2>. QED
    BY <1>5, <2>1 DEF Alike
<1>. HIDE DEF fs
<1>12. \E h \in Frames : fs = Append(Front(frames), h) /\ Onward(h)
  BY <1>5, <1>8
<1>. QED
  BY <1>4, <1>7, <1>8, <1>9, <1>10, <1>11, <1>12

\* Therefore it keeps the invariant.
LEMMA EnumNextKeeps ==
  ASSUME IInv, EnumNext
  PROVE  IInv'
<1>1. PICK fs : /\ Put(LoopVar, EnumValue, array, fs)
                /\ Sound(array, var, fs) /\ LocksCounted(array, fs)
                /\ DOMAIN fs = DOMAIN frames /\ \A k \in DOMAIN fs : Alike(frames[k], fs[k])
                /\ EnumValue \in Elements
                /\ \E g \in Frames : fs = Append(Front(frames), g) /\ Onward(g)
  BY EnumNextIsPut
<1>2. LoopVar \in Variable
  BY DEF Variable
<1>3. EnumValue \in Variants /\ EnumValue.id = NoId /\ EnumValue.vt # "BYREF"
  BY <1>1, ValuesTyped DEF Elements
<1>4. ValueSound(array, var, EnumValue)
  BY <1>3 DEF ValueSound
<1>5. Settled(LoopVar) => \A k \in DOMAIN fs : Writes(fs[k]) => fs[k].to # LoopVar
  BY <1>1 DEF Settled, Writes, Alike
<1>6. ArraySettled(var[LoopVar].id) =>
        \A k \in DOMAIN fs : fs[k].id = var[LoopVar].id => fs[k].op \notin {"destroy", "erase", "store"}
  BY <1>1 DEF ArraySettled, Alike
<1>. QED
  BY <1>1, <1>2, <1>3, <1>4, <1>5, <1>6, PutKeeps

-------------------------------------------------------------------------------
\* Every statement keeps the invariant.
LEMMA StatementKeeps == IInv /\ Statement => IInv'
<1>. SUFFICES ASSUME IInv, NEW v \in Variable,
                     \/ \E s \in Shapes : ReDim(v, s) \/ ReDimPreserveNew(v, s) \/ ReDimPreserve(v, s)
                     \/ Erase(v)
                     \/ \E w \in Variable : Assign(v, var[w])
                     \/ Assign(v, Empty) \/ Assign(v, Object)
                     \/ \E idx \in Index, value \in Elements : SetElement(v, idx, value)
                     \/ NewEnum(v) \/ NewEnumOwned(v)
              PROVE  IInv'
  BY DEF Statement
<1>1. ASSUME NEW s \in Shapes, ReDim(v, s) PROVE IInv'
  BY <1>1, ReDimKeeps
<1>2. ASSUME NEW s \in Shapes, ReDimPreserveNew(v, s) PROVE IInv'
  BY <1>2, ReDimPreserveNewKeeps
<1>3. ASSUME NEW s \in Shapes, ReDimPreserve(v, s) PROVE IInv'
  BY <1>3, ReDimPreserveKeeps
<1>4. CASE Erase(v)
  BY <1>4, EraseKeeps
<1>5. ASSUME NEW w \in Variable, Assign(v, var[w]) PROVE IInv'
  BY <1>5, AssignKeeps
<1>6. CASE Assign(v, Empty)
  BY <1>6, AssignKeeps
<1>7. CASE Assign(v, Object)
  BY <1>7, AssignKeeps
<1>8. ASSUME NEW idx \in Index, NEW value \in Elements, SetElement(v, idx, value) PROVE IInv'
  BY <1>8, SetElementKeeps
<1>9. CASE NewEnum(v)
  BY <1>9, NewEnumKeeps
<1>10. CASE NewEnumOwned(v)
  BY <1>10, NewEnumOwnedKeeps
<1>. QED
  BY <1>1, <1>2, <1>3, <1>4, <1>5, <1>6, <1>7, <1>8, <1>9, <1>10

\* The same of every step.
LEMMA Invariance == IInv /\ [Next]_vars => IInv'
<1>. SUFFICES ASSUME IInv, [Next]_vars PROVE IInv'
  OBVIOUS
<1>1. CASE Statement
  BY <1>1, StatementKeeps
<1>2. CASE Step
  BY <1>2, ClearCellKeeps, TerminatorRunsKeeps, TerminatorReturnsKeeps, AssignFinishedKeeps,
     StoreFinishedKeeps, DestroyFinishedKeeps, ShrinkFinishedKeeps, EraseFinishedKeeps,
     EnumNextKeeps, LoopEndsKeeps DEF Step
<1>3. CASE UNCHANGED vars
  BY <1>3 DEF vars, IInv, Sound, Typed, VarSound, FrameSound, ValueSound, LocksCounted
<1>. QED
  BY <1>1, <1>2, <1>3 DEF Next

\* The invariant always holds.
LEMMA Always == Spec => []IInv
BY InitSound, Invariance, PTL DEF Spec

\* It implies the types and the number of locks.
LEMMA Typing == IInv => TypeOK
<1>. SUFFICES ASSUME IInv PROVE TypeOK
  OBVIOUS
<1>1. Sound(array, var, frames) /\ LocksCounted(array, frames)
  BY DEF IInv
<1>2. /\ array \in [Id -> SafeArrays \cup {NoArray}] /\ var \in [Variable -> Variants]
      /\ frames \in Seq(Frames)
      /\ \A id \in Id : array[id] # NoArray => Len(array[id].pvData) = CellCount(array[id])
  BY <1>1, Parts
<1>. QED
  BY <1>1, <1>2 DEF TypeOK, LocksCounted, Locks, Allocated

\* It implies that nothing dangles.
LEMMA Dangling == IInv => NothingDangles
<1>. SUFFICES ASSUME IInv PROVE NothingDangles
  OBVIOUS
<1>1. Sound(array, var, frames)
  BY DEF IInv
<1>2. ASSUME NEW v \in Variable, var[v].id # NoId
      PROVE  Allocated(var[v].id) /\ \A w \in Variable \ {v} : var[w].id # var[v].id
  <2>1. VarSound(array, var, v)
    BY <1>1, Parts
  <2>. QED
    BY <1>2, <2>1 DEF VarSound, Allocated
<1>3. ASSUME NEW k \in DOMAIN frames, frames[k].id # NoId
      PROVE  /\ Allocated(frames[k].id)
             /\ frames[k].op = "store" => frames[k].pos \in DOMAIN array[frames[k].id].pvData
             /\ frames[k].op # "store" => frames[k].last = CellCount(array[frames[k].id])
  <2>1. FrameSound(array, var, frames[k]) /\ frames[k] \in Frames
    BY <1>1, Parts
  <2>2. frames[k].op \in {"script", "destroy", "shrink", "erase", "assign", "store", "foreach"}
    BY <2>1 DEF Frames
  <2>3. CASE frames[k].op = "store"
    BY <2>1, <2>3 DEF FrameSound, Allocated
  <2>4. CASE frames[k].op # "store"
    BY <1>3, <2>1, <2>2, <2>4 DEF FrameSound, Visits, Emptying, Allocated
  <2>. QED
    BY <2>3, <2>4
<1>. QED
  BY <1>2, <1>3 DEF NothingDangles

-------------------------------------------------------------------------------
\* What OnlyLockedArraysAreLost says of one variable.
Loses(v) ==
  var[v].id # NoId /\ var'[v].id # var[v].id =>
    array'[var[v].id] = NoArray \/ array[var[v].id].cLocks > 0

\* Storing to a variable loses its array only when the array is locked.
LEMMA PutLoses ==
  ASSUME IInv, NEW v \in Variable, NEW x, NEW as, NEW fs, Put(v, x, as, fs),
         var[v].id # NoId => var[v].vt = "ARRAY" /\ as[var[v].id] = array[var[v].id]
  PROVE  \A w \in Variable : Loses(w)
<1>1. var \in [Variable -> Variants] /\ Sound(array, var, frames)
  BY Parts DEF IInv
<1>2. CASE var' = var
  BY <1>2 DEF Loses
<1>3. CASE var' # var
  <2>1. /\ var' = [var EXCEPT ![v] = x]
        /\ var[v].id # NoId => ~Destroyable(array[var[v].id])
    BY <1>3 DEF Put
  <2>2. var[v].id # NoId => array[var[v].id].cLocks > 0
    <3>. SUFFICES ASSUME var[v].id # NoId PROVE array[var[v].id].cLocks > 0
      OBVIOUS
    <3>1. array[var[v].id] \in SafeArrays
      BY <1>1, HeldByVariable
    <3>2. array[var[v].id].cLocks \in Nat /\ array[var[v].id].cLocks # 0
      BY <2>1, <3>1 DEF SafeArrays, Destroyable
    <3>. QED
      BY <3>2
  <2>. QED
    BY <1>1, <2>1, <2>2 DEF Loses
<1>. QED
  BY <1>2, <1>3

\* A variable with an array that is neither fixed nor missing holds it by value.
LEMMA HoldsByValue ==
  ASSUME IInv, NEW v \in Variable, var[v].id # NoId,
         var[v].vt # "BYREF" \/ ~array[var[v].id].fixed
  PROVE  var[v].vt = "ARRAY" /\ var[v].id \in Id /\ array[var[v].id] # NoArray
<1>1. VarSound(array, var, v) /\ var[v] \in Variants
  BY Parts DEF IInv
<1>. QED
  BY <1>1 DEF VarSound, Variants

\* The statements that store to a variable lose no other array.
LEMMA StatementLoses ==
  ASSUME IInv, NEW v \in Variable,
         \/ \E s \in Shapes : ReDim(v, s) \/ ReDimPreserveNew(v, s)
         \/ Erase(v)
         \/ \E x : Assign(v, x)
  PROVE  \A w \in Variable : Loses(w)
<1>1. var \in [Variable -> Variants] /\ array \in [Id -> SafeArrays \cup {NoArray}]
  BY Parts DEF IInv
<1>. DEFINE Grown(sa) == [array EXCEPT ![FirstFresh] = sa]
<1>2. ASSUME CanAllocate, NEW sa, var[v].id # NoId, var[v].id \in Id, array[var[v].id] # NoArray
      PROVE  Grown(sa)[var[v].id] = array[var[v].id]
  BY <1>1, <1>2, FirstFreshIs
<1>. HIDE DEF Grown
<1>3. ASSUME NEW s \in Shapes, ReDim(v, s) PROVE \A w \in Variable : Loses(w)
  <2>1. /\ CanAllocate /\ Put(v, Array(FirstFresh), Grown(SafeArrayCreate(s)), frames)
        /\ IsArray(var[v]) /\ var[v].id # NoId => ~array[var[v].id].fixed
    BY <1>3 DEF ReDim, Grown
  <2>2. ASSUME var[v].id # NoId
        PROVE  var[v].vt = "ARRAY" /\ var[v].id \in Id /\ array[var[v].id] # NoArray
    BY <2>1, <2>2, HoldsByValue DEF IsArray
  <2>. QED
    BY <1>2, <2>1, <2>2, PutLoses
<1>4. ASSUME NEW s \in Shapes, ReDimPreserveNew(v, s) PROVE \A w \in Variable : Loses(w)
  BY <1>1, <1>4 DEF ReDimPreserveNew, Loses
<1>5. ASSUME Erase(v) PROVE \A w \in Variable : Loses(w)
  <2>1. CASE array[var[v].id].fixed
    BY <1>5, <2>1 DEF Erase, Loses
  <2>2. CASE ~array[var[v].id].fixed
    BY <1>5, <2>2, EraseIsPut, PutLoses
  <2>. QED
    BY <2>1, <2>2
<1>6. ASSUME NEW x, Assign(v, x) PROVE \A w \in Variable : Loses(w)
  <2>1. var[v].vt # "BYREF"
    BY <1>6 DEF Assign
  <2>2. ASSUME var[v].id # NoId
        PROVE  var[v].vt = "ARRAY" /\ var[v].id \in Id /\ array[var[v].id] # NoArray
    BY <2>1, <2>2, HoldsByValue
  <2>3. CASE IsArray(x) /\ x.id # NoId
    <3>1. CanAllocate /\ Put(v, Array(FirstFresh), Grown(SafeArrayCopy(array[x.id])), frames)
      BY <1>6, <2>3 DEF Assign, Grown
    <3>. QED
      BY <1>2, <2>2, <3>1, PutLoses
  <2>4. CASE ~(IsArray(x) /\ x.id # NoId)
    <3>1. Put(v, IF IsArray(x) THEN Array(NoId) ELSE x, array, frames)
      BY <1>6, <2>4 DEF Assign
    <3>. QED
      BY <2>2, <3>1, PutLoses
  <2>. QED
    BY <2>3, <2>4
<1>. QED
  BY <1>3, <1>4, <1>5, <1>6

\* The same of every step.
LEMMA StepLoses ==
  ASSUME IInv, [Next]_vars
  PROVE  \A w \in Variable : Loses(w)
<1>1. CASE var' = var
  BY <1>1 DEF Loses
<1>2. ASSUME NEW v \in Variable,
             \/ \E s \in Shapes : ReDim(v, s) \/ ReDimPreserveNew(v, s)
             \/ Erase(v)
             \/ \E x : Assign(v, x)
      PROVE  \A w \in Variable : Loses(w)
  BY <1>2, StatementLoses
<1>3. CASE EnumNext
  <2>1. PICK fs : Put(LoopVar, EnumValue, array, fs)
    BY <1>3, EnumNextIsPut
  <2>2. LoopVar \in Variable
    BY DEF Variable
  <2>3. VarSound(array, var, LoopVar)
    BY <2>2, Parts DEF IInv
  <2>4. var[LoopVar].id # NoId => var[LoopVar].vt = "ARRAY"
    BY <2>3 DEF VarSound
  <2>. QED
    BY <2>1, <2>2, <2>4, PutLoses
<1>. DEFINE f == frames[Len(frames)]
<1>4. CASE AssignFinished
  <2>1. frames # <<>> /\ f.op = "assign" /\ var' = [var EXCEPT ![f.to] = f.value]
    BY <1>4, TopIsFront DEF AssignFinished
  <2>2. FrameSound(array, var, f) /\ var \in [Variable -> Variants]
    BY <2>1, TopParts, Parts DEF IInv
  <2>3. f.to \in Variable /\ var[f.to].vt = "DISPATCH"
    BY <2>1, <2>2 DEF FrameSound
  <2>4. var[f.to].id = NoId
    <3>1. VarSound(array, var, f.to)
      BY <2>3, Parts DEF IInv
    <3>. QED
      BY <2>3, <3>1 DEF VarSound
  <2>. QED
    BY <2>1, <2>2, <2>3, <2>4 DEF Loses
<1>5. CASE DestroyFinished
  <2>1. /\ frames # <<>> /\ f.op = "destroy"
        /\ array' = [array EXCEPT ![f.id] = NoArray]
        /\ var' = IF f.to = NoVar THEN var ELSE [var EXCEPT ![f.to] = f.value]
    BY <1>5, TopIsFront DEF DestroyFinished
  <2>2. /\ FrameSound(array, var, f) /\ f \in Frames /\ var \in [Variable -> Variants]
        /\ array \in [Id -> SafeArrays \cup {NoArray}]
    BY <2>1, TopParts, Parts DEF IInv
  <2>3. f.id \in Id /\ (f.to = NoVar \/ (f.to \in Variable /\ var[f.to].id = f.id))
    BY <2>1, <2>2 DEF FrameSound, Visits, Emptying, Frames
  <2>4. array'[f.id] = NoArray
    BY <2>1, <2>2, <2>3
  <2>. QED
    BY <2>1, <2>2, <2>3, <2>4 DEF Loses
<1>6. \/ var' = var
      \/ \E v \in Variable : \/ \E s \in Shapes : ReDim(v, s) \/ ReDimPreserveNew(v, s)
                             \/ Erase(v)
                             \/ \E x : Assign(v, x)
      \/ EnumNext \/ AssignFinished \/ DestroyFinished
  <2>1. CASE Statement
    <3>1. \A v \in Variable :
            /\ \A s \in Shapes : ReDimPreserve(v, s) => var' = var
            /\ \A idx \in Index, x \in Elements : SetElement(v, idx, x) => var' = var
            /\ NewEnum(v) \/ NewEnumOwned(v) => var' = var
      BY DEF ReDimPreserve, SetElement, NewEnum, NewEnumOwned
    <3>. QED
      BY <2>1, <3>1 DEF Statement
  <2>2. CASE Step
    BY <2>2 DEF Step, ClearCell, TerminatorRuns, TerminatorReturns, StoreFinished,
       ShrinkFinished, EraseFinished, LoopEnds
  <2>3. CASE UNCHANGED vars
    BY <2>3 DEF vars
  <2>. QED
    BY <2>1, <2>2, <2>3 DEF Next
<1>. QED
  BY <1>1, <1>2, <1>3, <1>4, <1>5, <1>6

-------------------------------------------------------------------------------
\* TypeOK, with the number of locks: at any moment of any script an array is
\* locked once for each iterator, resize and Erase under way, and has the cells
\* that its bounds say.
THEOREM TypesAlways == Spec => []TypeOK
BY Always, Typing, PTL

\* No variable, iterator or loop over cells refers to an array that is gone or to
\* a cell beyond its end, and no array has two owners, however many terminators
\* run in the middle of a release.
THEOREM NothingDanglesAlways == Spec => []NothingDangles
BY Always, Dangling, PTL

\* A statement takes an array away from its variable only to free it, unless
\* something has it locked at that moment.
THEOREM OnlyLockedArraysAreLostEver == Spec => OnlyLockedArraysAreLost
<1>1. IInv /\ [Next]_vars => \A v \in Variable :
        LET id == var[v].id IN
        id # NoId /\ var'[v].id # id => array'[id] = NoArray \/ array[id].cLocks > 0
  BY StepLoses DEF Loses
<1>. QED
  BY Always, <1>1, PTL DEF Spec, OnlyLockedArraysAreLost

-------------------------------------------------------------------------------
\* e[k] is the place of idx among the cells that differ in the last k dimensions; r is
\* rgsabound, which has the dimensions backwards.
Chain(e, r, idx) ==
  /\ e \in [0..Len(r) -> Nat] /\ e[0] = 0
  /\ \A k \in 1..Len(r) : e[k] = idx[Len(r) + 1 - k] + r[k] * e[k - 1]

\* Such an e exists.
LEMMA ChainExists ==
  ASSUME NEW r \in Seq(Nat), NEW idx \in Seq(Nat), Len(idx) = Len(r)
  PROVE  \E e : Chain(e, r, idx)
<1>1. PICK n \in Nat : n = Len(r) /\ r \in [1..n -> Nat] /\ \A d \in 1..n : idx[d] \in Nat
  BY LenProperties, ElementOfSeq
<1>. DEFINE b == [k \in 1..n |-> idx[n + 1 - k]]
<1>2. \A k \in 1..n : n + 1 - k \in 1..n
  OBVIOUS
<1>3. b \in [1..n -> Nat] /\ \A k \in 1..n : b[k] = idx[n + 1 - k]
  BY <1>1, <1>2
<1>. HIDE DEF b
<1>4. PICK e \in [0..n -> Nat] : e[0] = 0 /\ Follows(e, n, b, r)
  BY <1>1, <1>3, RecursionDefines
<1>. QED
  BY <1>1, <1>3, <1>4 DEF Chain, Follows

\* SafeArrayPtrOfIndex computes it.
LEMMA PtrIs ==
  ASSUME NEW sa, sa.rgsabound \in Seq(Nat), NEW idx \in Seq(Nat), Len(idx) = Len(sa.rgsabound),
         NEW e, Chain(e, sa.rgsabound, idx)
  PROVE  SafeArrayPtrOfIndex(sa, idx) = 1 + e[Len(sa.rgsabound)]
<1>1. PICK n \in Nat, r \in Seq(Nat) :
        /\ r = sa.rgsabound /\ n = Len(r) /\ r \in [1..n -> Nat]
        /\ Len(idx) = n /\ \A d \in 1..n : idx[d] \in Nat
  BY LenProperties, ElementOfSeq
<1>2. e \in [0..n -> Nat] /\ e[0] = 0 /\ \A k \in 1..n : e[k] = idx[n + 1 - k] + r[k] * e[k - 1]
  BY <1>1 DEF Chain
<1>3. \A d \in 1..n : Bound(sa, d) = r[n + 1 - d]
  BY <1>1 DEF Bound
<1>. DEFINE Def(c) == c = [d \in 1..n + 1 |->
                             IF d > n THEN 0 ELSE idx[d] + Bound(sa, d) * c[d + 1]]
            c0 == [d \in 1..n + 1 |-> e[n + 1 - d]]
<1>4. Def(c0)
  <2>1. ASSUME NEW d \in 1..n + 1
        PROVE  c0[d] = IF d > n THEN 0 ELSE idx[d] + Bound(sa, d) * c0[d + 1]
    <3>1. CASE d > n
      BY <1>1, <1>2, <3>1
    <3>2. CASE ~(d > n)
      <4>1. PICK k \in 1..n : k = n + 1 - d
        BY <3>2
      <4>2. d \in 1..n /\ k - 1 = n + 1 - (d + 1) /\ n + 1 - k = d /\ d + 1 \in 1..n + 1
        BY <3>2, <4>1
      <4>3. e[k] = idx[d] + r[k] * e[k - 1]
        BY <1>2, <4>2
      <4>4. c0[d] = e[k] /\ c0[d + 1] = e[k - 1] /\ Bound(sa, d) = r[k]
        BY <1>3, <4>1, <4>2
      <4>. QED
        BY <3>2, <4>3, <4>4
    <3>. QED
      BY <3>1, <3>2
  <2>. QED
    BY <2>1
<1>. DEFINE c == CHOOSE x : Def(x)
<1>5. Def(c) /\ SafeArrayPtrOfIndex(sa, idx) = 1 + c[1]
  <2>1. Def(c)
    BY <1>4
  <2>2. SafeArrayPtrOfIndex(sa, idx) = 1 + c[1]
    BY <1>1 DEF SafeArrayPtrOfIndex
  <2>. QED
    BY <2>1, <2>2
<1>. HIDE DEF c
<1>. DEFINE S == {k \in Nat : k <= n => c[n + 1 - k] = e[k]}
<1>6. S = Nat
  <2>1. 0 \in S
    BY <1>2, <1>5
  <2>2. ASSUME NEW k \in S PROVE k + 1 \in S
    <3>1. SUFFICES ASSUME k + 1 <= n PROVE c[n + 1 - (k + 1)] = e[k + 1]
      OBVIOUS
    <3>2. PICK d \in 1..n : d = n + 1 - (k + 1)
      BY <3>1
    <3>3. /\ k + 1 \in 1..n /\ (k + 1) - 1 = k /\ d + 1 = n + 1 - k /\ n + 1 - d = k + 1
          /\ ~(d > n) /\ d \in 1..n + 1 /\ k <= n
      BY <3>1, <3>2
    <3>4. c[d + 1] = e[k]
      BY <3>3
    <3>5. c[d] = idx[d] + Bound(sa, d) * c[d + 1]
      BY <1>5, <3>3
    <3>6. Bound(sa, d) = r[k + 1]
      BY <1>3, <3>3
    <3>7. e[k + 1] = idx[n + 1 - (k + 1)] + r[k + 1] * e[k]
      BY <1>2, <3>3
    <3>. QED
      BY <3>2, <3>4, <3>5, <3>6, <3>7
  <2>. HIDE DEF S
  <2>3. S \in SUBSET Nat
    BY DEF S
  <2>. QED
    BY <2>1, <2>2, <2>3, Induction
<1>7. n \in S /\ n <= n /\ n + 1 - n = 1
  BY <1>6
<1>. QED
  BY <1>1, <1>5, <1>7

\* The digits of idx are below the bounds r.
Within(idx, r) == \A k \in 1..Len(r) : idx[Len(r) + 1 - k] < r[k]

\* That is what InBounds asks for.
LEMMA InBoundsIs ==
  ASSUME NEW sa, sa.rgsabound \in Seq(Nat), NEW idx \in Seq(Nat)
  PROVE  InBounds(sa, idx) <=> Len(idx) = Len(sa.rgsabound) /\ Within(idx, sa.rgsabound)
<1>1. PICK n \in Nat, r \in Seq(Nat) : r = sa.rgsabound /\ n = Len(r)
  BY LenProperties
<1>2. SUFFICES ASSUME Len(idx) = n
               PROVE  (\A d \in DOMAIN idx : idx[d] < Bound(sa, d)) <=> Within(idx, r)
  BY <1>1 DEF InBounds
<1>3. DOMAIN idx = 1..n
  BY <1>2, LenProperties
<1>4. \A d \in 1..n : Bound(sa, d) = r[n + 1 - d]
  BY <1>1 DEF Bound
<1>5. \A d \in 1..n : n + 1 - d \in 1..n /\ n + 1 - (n + 1 - d) = d
  OBVIOUS
<1>6. ASSUME \A d \in 1..n : idx[d] < Bound(sa, d), NEW k \in 1..n PROVE idx[n + 1 - k] < r[k]
  <2>1. PICK d \in 1..n : d = n + 1 - k /\ n + 1 - d = k
    BY <1>5
  <2>. QED
    BY <1>4, <1>6, <2>1
<1>7. ASSUME Within(idx, r), NEW d \in 1..n PROVE idx[d] < Bound(sa, d)
  <2>1. PICK k \in 1..n : k = n + 1 - d /\ n + 1 - k = d
    BY <1>5
  <2>2. idx[n + 1 - k] < r[k]
    BY <1>1, <1>7 DEF Within
  <2>. QED
    BY <1>4, <2>1, <2>2
<1>. QED
  BY <1>1, <1>3, <1>6, <1>7 DEF Within

\* A number has one digit and one rest.
LEMMA OneDigit ==
  ASSUME NEW r \in Nat, NEW a \in Nat, NEW b \in Nat, NEW x \in Nat, NEW y \in Nat,
         a < r, b < r, a + r * x = b + r * y
  PROVE  a = b /\ x = y
<1>1. r * x \in Nat /\ r * y \in Nat
  OBVIOUS
<1>2. ASSUME x < y PROVE FALSE
  <2>1. a + r * x < r * y
    BY <1>2, Smaller
  <2>. QED
    BY <1>1, <2>1
<1>3. ASSUME y < x PROVE FALSE
  <2>1. b + r * y < r * x
    BY <1>3, Smaller
  <2>. QED
    BY <1>1, <2>1
<1>4. x = y
  BY <1>2, <1>3
<1>. QED
  BY <1>1, <1>4

\* Different indices have different places.
LEMMA ChainInjective ==
  ASSUME NEW r \in Seq(Nat), NEW i \in Seq(Nat), NEW j \in Seq(Nat), Len(i) = Len(r), Len(j) = Len(r),
         Within(i, r), Within(j, r), NEW e, Chain(e, r, i), NEW f, Chain(f, r, j),
         e[Len(r)] = f[Len(r)]
  PROVE  i = j
<1>1. PICK n \in Nat : /\ n = Len(r) /\ r \in [1..n -> Nat]
                       /\ \A d \in 1..n : i[d] \in Nat /\ j[d] \in Nat
  BY LenProperties, ElementOfSeq
<1>2. e \in [0..n -> Nat] /\ \A k \in 1..n : e[k] = i[n + 1 - k] + r[k] * e[k - 1]
  BY <1>1 DEF Chain
<1>3. f \in [0..n -> Nat] /\ \A k \in 1..n : f[k] = j[n + 1 - k] + r[k] * f[k - 1]
  BY <1>1 DEF Chain
<1>4. ASSUME NEW k \in 1..n, e[k] = f[k]
      PROVE  e[k - 1] = f[k - 1] /\ i[n + 1 - k] = j[n + 1 - k]
  <2>1. PICK d \in 1..n : d = n + 1 - k
    OBVIOUS
  <2>2. PICK a \in Nat, b \in Nat, x \in Nat, y \in Nat, m \in Nat :
          a = i[d] /\ b = j[d] /\ x = e[k - 1] /\ y = f[k - 1] /\ m = r[k]
    <3>1. k - 1 \in 0..n
      OBVIOUS
    <3>. QED
      BY <1>1, <1>2, <1>3, <2>1, <3>1
  <2>3. a < m /\ b < m
    BY <1>1, <2>1, <2>2 DEF Within
  <2>4. a + m * x = b + m * y
    BY <1>2, <1>3, <1>4, <2>1, <2>2
  <2>5. a = b /\ x = y
    BY <2>3, <2>4, OneDigit
  <2>. QED
    BY <2>1, <2>2, <2>5
<1>. DEFINE S == {k \in Nat : k <= n => e[n - k] = f[n - k]}
<1>5. 0 \in S
  BY <1>1
<1>6. ASSUME NEW k \in S PROVE k + 1 \in S
  <2>1. SUFFICES ASSUME k + 1 <= n PROVE e[n - (k + 1)] = f[n - (k + 1)]
    OBVIOUS
  <2>2. PICK m \in 1..n : m = n - k /\ m - 1 = n - (k + 1)
    BY <2>1
  <2>3. e[m] = f[m]
    BY <2>1, <2>2
  <2>. QED
    BY <1>4, <2>2, <2>3
<1>. HIDE DEF S
<1>7. S = Nat
  <2>1. S \in SUBSET Nat
    BY DEF S
  <2>. QED
    BY <1>5, <1>6, <2>1, Induction
<1>8. ASSUME NEW k \in 0..n PROVE e[k] = f[k]
  <2>1. n - k \in S /\ n - (n - k) = k /\ n - k <= n
    BY <1>7
  <2>. QED
    BY <2>1 DEF S
<1>9. ASSUME NEW d \in 1..n PROVE i[d] = j[d]
  <2>1. PICK k \in 1..n : k = n + 1 - d /\ n + 1 - k = d
    OBVIOUS
  <2>. QED
    BY <1>4, <1>8, <2>1
<1>. QED
  BY <1>1, <1>9, SeqEqual

\* A number below a product is a digit and a rest below the other factor.
LEMMA HasDigit ==
  ASSUME NEW r \in Nat, NEW p \in Nat, NEW c \in Nat, c < r * p
  PROVE  \E a \in Nat, x \in Nat : a < r /\ x < p /\ c = a + r * x
<1>1. r # 0
  OBVIOUS
<1>2. PICK x \in Nat, a \in Nat : x = c \div r /\ a = c % r /\ a < r
  BY <1>1
<1>3. a = c - r * x
  BY <1>1, <1>2, ModIs
<1>4. r * x \in Nat
  OBVIOUS
<1>5. c = a + r * x
  BY <1>3, <1>4
<1>6. x < p
  <2>1. ASSUME p <= x PROVE FALSE
    <3>1. r * p <= r * x
      BY <2>1
    <3>2. r * p \in Nat
      OBVIOUS
    <3>. QED
      BY <1>4, <1>5, <3>1, <3>2
  <2>. QED
    BY <2>1
<1>. QED
  BY <1>2, <1>5, <1>6

\* Every number below the product of the bounds is the place of an index.
LEMMA ChainOnto ==
  ASSUME NEW r \in Seq(Nat), NEW p, Products(p, r), NEW c \in Nat, c < p[Len(r)]
  PROVE  \E idx \in Seq(Nat) : \E e : /\ Len(idx) = Len(r) /\ Within(idx, r)
                                      /\ Chain(e, r, idx) /\ e[Len(r)] = c
<1>1. PICK n \in Nat : n = Len(r) /\ r \in [1..n -> Nat]
  BY LenProperties
<1>2. p \in [0..n -> Nat] /\ p[0] = 1 /\ \A k \in 1..n : p[k] = r[k] * p[k - 1]
  BY <1>1 DEF Products
<1>. DEFINE Steps(e, m) == \A k \in 1..m : \E d \in Nat : d < r[k] /\ e[k] = d + r[k] * e[k - 1]
            Reaches(m, x) == \E e \in [0..m -> Nat] : e[0] = 0 /\ e[m] = x /\ Steps(e, m)
            S == {m \in Nat : m <= n => \A x \in Nat : x < p[m] => Reaches(m, x)}
<1>. HIDE DEF Reaches
<1>3. 0 \in S
  <2>1. SUFFICES ASSUME NEW x \in Nat, x < p[0] PROVE Reaches(0, x)
    OBVIOUS
  <2>2. x = 0
    BY <1>2, <2>1
  <2>. DEFINE e == [k \in 0..0 |-> 0]
  <2>3. e \in [0..0 -> Nat] /\ e[0] = 0
    OBVIOUS
  <2>. HIDE DEF e
  <2>4. Steps(e, 0)
    OBVIOUS
  <2>. HIDE DEF Steps
  <2>. QED
    BY <2>2, <2>3, <2>4 DEF Reaches
<1>4. ASSUME NEW m \in S PROVE m + 1 \in S
  <2>1. SUFFICES ASSUME m + 1 <= n, NEW x \in Nat, x < p[m + 1] PROVE Reaches(m + 1, x)
    OBVIOUS
  <2>2. m + 1 \in 1..n /\ (m + 1) - 1 = m /\ m \in 0..n /\ m <= n
    BY <2>1
  <2>3. PICK q \in Nat, t \in Nat : q = p[m] /\ t = r[m + 1] /\ p[m + 1] = t * q
    BY <1>1, <1>2, <2>2
  <2>4. PICK a \in Nat, y \in Nat : a < t /\ y < q /\ x = a + t * y
    <3>1. x < t * q
      BY <2>1, <2>3
    <3>. QED
      BY <3>1, HasDigit
  <2>5. Reaches(m, y)
    BY <2>2, <2>3, <2>4
  <2>6. PICK e \in [0..m -> Nat] : e[0] = 0 /\ e[m] = y /\ Steps(e, m)
    BY <2>5 DEF Reaches
  <2>. DEFINE f == [k \in 0..m + 1 |-> IF k = m + 1 THEN x ELSE e[k]]
  <2>7. /\ f \in [0..m + 1 -> Nat] /\ f[0] = 0 /\ f[m + 1] = x
        /\ \A k \in 0..m : f[k] = e[k]
    BY <2>6
  <2>. HIDE DEF f
  <2>8. Steps(f, m + 1)
    <3>1. SUFFICES ASSUME NEW k \in 1..m + 1
                   PROVE  \E d \in Nat : d < r[k] /\ f[k] = d + r[k] * f[k - 1]
      OBVIOUS
    <3>2. CASE k = m + 1
      <4>1. f[k - 1] = y /\ f[k] = x /\ r[k] = t
        BY <2>2, <2>3, <2>6, <2>7, <3>2
      <4>. QED
        BY <2>4, <4>1
    <3>3. CASE k # m + 1
      <4>1. k \in 1..m /\ k \in 0..m /\ k - 1 \in 0..m
        BY <3>3
      <4>2. PICK d \in Nat : d < r[k] /\ e[k] = d + r[k] * e[k - 1]
        BY <2>6, <4>1
      <4>3. f[k] = e[k] /\ f[k - 1] = e[k - 1]
        BY <2>7, <4>1
      <4>. QED
        BY <4>2, <4>3
    <3>. QED
      BY <3>2, <3>3
  <2>. HIDE DEF Steps
  <2>. QED
    BY <2>7, <2>8 DEF Reaches
<1>. HIDE DEF S
<1>5. S = Nat
  <2>1. S \in SUBSET Nat
    BY DEF S
  <2>. QED
    BY <1>3, <1>4, <2>1, Induction
<1>6. Reaches(n, c)
  <2>1. n \in S /\ n <= n
    BY <1>5
  <2>. QED
    BY <1>1, <2>1 DEF S
<1>7. PICK e \in [0..n -> Nat] : e[0] = 0 /\ e[n] = c /\ Steps(e, n)
  BY <1>6 DEF Reaches
<1>. DEFINE Digit(k) == CHOOSE d \in Nat : d < r[k] /\ e[k] = d + r[k] * e[k - 1]
            idx == [d \in 1..n |-> Digit(n + 1 - d)]
<1>8. ASSUME NEW k \in 1..n
      PROVE  Digit(k) \in Nat /\ Digit(k) < r[k] /\ e[k] = Digit(k) + r[k] * e[k - 1]
  BY <1>7
<1>. HIDE DEF Digit
<1>9. \A k \in 1..n : n + 1 - k \in 1..n /\ n + 1 - (n + 1 - k) = k
  OBVIOUS
<1>10. idx \in [1..n -> Nat] /\ \A k \in 1..n : idx[n + 1 - k] = Digit(k)
  BY <1>8, <1>9
<1>. HIDE DEF idx
<1>11. idx \in Seq(Nat) /\ Len(idx) = n
  BY <1>10, FunctionIsSeq
<1>12. Within(idx, r)
  BY <1>1, <1>8, <1>10 DEF Within
<1>13. Chain(e, r, idx)
  BY <1>1, <1>7, <1>8, <1>10 DEF Chain
<1>. QED
  BY <1>1, <1>7, <1>11, <1>12, <1>13

\* The first bound does not matter for a place; an index beyond it has none below the
\* product.
LEMMA ChainResized ==
  ASSUME NEW r \in Seq(Nat), r # <<>>, NEW m \in Nat, NEW idx \in Seq(Nat), Len(idx) = Len(r),
         NEW e, Chain(e, r, idx), NEW p, Products(p, r), Within(idx, [r EXCEPT ![1] = m])
  PROVE  /\ Chain(e, [r EXCEPT ![1] = m], idx)
         /\ [r EXCEPT ![1] = m] \in Seq(Nat) /\ Len([r EXCEPT ![1] = m]) = Len(r)
         /\ ~Within(idx, r) => e[Len(r)] >= p[Len(r)]
<1>1. PICK n \in Nat \ {0} : n = Len(r) /\ r \in [1..n -> Nat] /\ \A d \in 1..n : idx[d] \in Nat
  <2>1. Len(r) \in Nat \ {0}
    BY EmptySeq
  <2>. QED
    BY <2>1, LenProperties, ElementOfSeq
<1>2. e \in [0..n -> Nat] /\ e[0] = 0 /\ \A k \in 1..n : e[k] = idx[n + 1 - k] + r[k] * e[k - 1]
  BY <1>1 DEF Chain
<1>3. PICK q : q = [r EXCEPT ![1] = m]
  OBVIOUS
<1>4. q \in [1..n -> Nat] /\ q[1] = m /\ \A k \in 2..n : q[k] = r[k]
  BY <1>1, <1>3
<1>5. q \in Seq(Nat) /\ Len(q) = n
  BY <1>4, FunctionIsSeq
<1>6. Chain(e, q, idx)
  <2>1. ASSUME NEW k \in 1..n PROVE e[k] = idx[n + 1 - k] + q[k] * e[k - 1]
    <3>1. CASE k = 1
      <4>1. e[k - 1] = 0 /\ r[k] \in Nat /\ q[k] \in Nat
        BY <1>1, <1>2, <1>4, <3>1
      <4>2. r[k] * 0 = 0 /\ q[k] * 0 = 0
        BY <4>1
      <4>3. e[k] = idx[n + 1 - k] + r[k] * e[k - 1]
        BY <1>2
      <4>. QED
        BY <4>1, <4>2, <4>3
    <3>2. CASE k # 1
      <4>1. k \in 2..n
        BY <3>2
      <4>. QED
        BY <1>2, <1>4, <4>1
    <3>. QED
      BY <3>1, <3>2
  <2>. QED
    BY <1>2, <1>5, <2>1 DEF Chain
<1>7. ASSUME ~Within(idx, r) PROVE e[n] >= p[n]
  <2>1. p \in [0..n -> Nat] /\ p[0] = 1 /\ \A k \in 1..n : p[k] = r[k] * p[k - 1]
    BY <1>1 DEF Products
  <2>2. PICK k \in 1..n : ~(idx[n + 1 - k] < r[k])
    BY <1>1, <1>7 DEF Within
  <2>3. k = 1
    <3>1. idx[n + 1 - k] < q[k]
      BY <1>3, <1>5 DEF Within
    <3>2. CASE k # 1
      <4>1. k \in 2..n
        BY <3>2
      <4>. QED
        BY <1>4, <2>2, <3>1, <4>1
    <3>. QED
      BY <3>2
  <2>4. idx[n] \in Nat /\ r[1] \in Nat /\ ~(idx[n] < r[1])
    <3>1. n \in 1..n /\ 1 \in 1..n /\ n + 1 - 1 = n
      OBVIOUS
    <3>. QED
      BY <1>1, <2>2, <2>3, <3>1
  <2>. DEFINE S == {j \in Nat : j + 1 <= n => e[j + 1] >= p[j + 1]}
  <2>5. 0 \in S
    <3>1. 1 \in 1..n /\ 1 - 1 = 0 /\ n + 1 - 1 = n /\ 0 + 1 = 1
      OBVIOUS
    <3>2. e[1] = idx[n] + r[1] * e[0] /\ p[1] = r[1] * p[0]
      BY <1>2, <2>1, <3>1
    <3>3. r[1] * 0 = 0 /\ r[1] * 1 = r[1]
      BY <2>4
    <3>4. e[1] >= p[1]
      BY <1>2, <2>1, <2>4, <3>2, <3>3
    <3>. QED
      BY <3>4
  <2>6. ASSUME NEW j \in S PROVE j + 1 \in S
    <3>1. SUFFICES ASSUME (j + 1) + 1 <= n PROVE e[(j + 1) + 1] >= p[(j + 1) + 1]
      OBVIOUS
    <3>2. PICK i \in 1..n : i = (j + 1) + 1 /\ i - 1 = j + 1 /\ j + 1 \in 0..n /\ j + 1 <= n
      BY <3>1
    <3>3. e[i - 1] >= p[i - 1]
      BY <3>2
    <3>4. PICK x \in Nat, y \in Nat, t \in Nat, a \in Nat :
            x = e[i - 1] /\ y = p[i - 1] /\ t = r[i] /\ a = idx[n + 1 - i]
      <4>1. n + 1 - i \in 1..n /\ i - 1 \in 0..n
        BY <3>2
      <4>. QED
        BY <1>1, <1>2, <2>1, <4>1
    <3>5. e[i] = a + t * x /\ p[i] = t * y /\ x >= y
      BY <1>2, <2>1, <3>3, <3>4
    <3>6. t * x >= t * y /\ t * x \in Nat /\ t * y \in Nat
      BY <3>5
    <3>7. e[i] >= p[i]
      <4>1. PICK u \in Nat, v \in Nat : u = t * x /\ v = t * y /\ u >= v
        BY <3>6
      <4>2. e[i] = a + u /\ p[i] = v
        BY <3>5, <4>1
      <4>3. a + u >= v
        BY <4>1
      <4>. QED
        BY <4>2, <4>3
    <3>. QED
      BY <3>2, <3>7
  <2>. HIDE DEF S
  <2>7. S = Nat
    <3>1. S \in SUBSET Nat
      BY DEF S
    <3>. QED
      BY <2>5, <2>6, <3>1, Induction
  <2>8. n - 1 \in S /\ (n - 1) + 1 = n /\ n <= n
    BY <2>7
  <2>. QED
    BY <2>8 DEF S
<1>. QED
  BY <1>1, <1>3, <1>5, <1>6, <1>7

-------------------------------------------------------------------------------
\* Two indices within the bounds stand for two cells.
LEMMA PlacesApart ==
  ASSUME NEW sa, sa.rgsabound \in Seq(Nat), NEW i \in Seq(Nat), NEW j \in Seq(Nat),
         InBounds(sa, i), InBounds(sa, j), SafeArrayPtrOfIndex(sa, i) = SafeArrayPtrOfIndex(sa, j)
  PROVE  i = j
<1>1. PICK r \in Seq(Nat), n \in Nat : r = sa.rgsabound /\ n = Len(r)
  BY LenProperties
<1>2. Len(i) = n /\ Within(i, r) /\ Len(j) = n /\ Within(j, r)
  BY <1>1, InBoundsIs
<1>3. PICK e : Chain(e, r, i)
  BY <1>1, <1>2, ChainExists
<1>4. PICK f : Chain(f, r, j)
  BY <1>1, <1>2, ChainExists
<1>5. SafeArrayPtrOfIndex(sa, i) = 1 + e[n] /\ SafeArrayPtrOfIndex(sa, j) = 1 + f[n]
  <2>1. /\ Chain(e, sa.rgsabound, i) /\ Chain(f, sa.rgsabound, j)
        /\ Len(i) = Len(sa.rgsabound) /\ Len(j) = Len(sa.rgsabound)
    BY <1>1, <1>2, <1>3, <1>4
  <2>2. SafeArrayPtrOfIndex(sa, i) = 1 + e[Len(sa.rgsabound)]
    BY <2>1, PtrIs
  <2>3. SafeArrayPtrOfIndex(sa, j) = 1 + f[Len(sa.rgsabound)]
    BY <2>1, PtrIs
  <2>. QED
    BY <1>1, <2>2, <2>3
<1>6. e[n] \in Nat /\ f[n] \in Nat
  <2>1. n \in 0..n
    OBVIOUS
  <2>2. e \in [0..n -> Nat] /\ f \in [0..n -> Nat]
    BY <1>1, <1>3, <1>4 DEF Chain
  <2>. QED
    BY <2>1, <2>2
<1>7. e[n] = f[n]
  <2>1. PICK x \in Nat, y \in Nat : x = e[n] /\ y = f[n]
    BY <1>6
  <2>2. 1 + x = 1 + y
    BY <1>5, <2>1
  <2>3. x = y
    BY <2>2
  <2>. QED
    BY <2>1, <2>3
<1>. QED
  BY <1>1, <1>2, <1>3, <1>4, <1>7, ChainInjective

\* Every cell is that of an index within the bounds.
LEMMA PlaceExists ==
  ASSUME NEW sa, sa.rgsabound \in Seq(Nat), NEW c \in 1..CellCount(sa)
  PROVE  \E i \in Seq(Nat) : InBounds(sa, i) /\ SafeArrayPtrOfIndex(sa, i) = c
<1>1. PICK r \in Seq(Nat), n \in Nat : r = sa.rgsabound /\ n = Len(r)
  BY LenProperties
<1>2. PICK p : Products(p, r) /\ CellCount(sa) = p[n] /\ p[n] \in Nat
  BY <1>1, ProductIs DEF CellCount
<1>3. PICK d \in Nat : d = c - 1 /\ d < p[n] /\ c = 1 + d
  BY <1>2
<1>4. PICK i \in Seq(Nat) : \E e : Len(i) = Len(r) /\ Within(i, r) /\ Chain(e, r, i) /\ e[Len(r)] = d
  BY <1>1, <1>2, <1>3, ChainOnto
<1>5. PICK e : Len(i) = n /\ Within(i, r) /\ Chain(e, r, i) /\ e[n] = d
  BY <1>1, <1>4
<1>6. InBounds(sa, i)
  BY <1>1, <1>5, InBoundsIs
<1>7. SafeArrayPtrOfIndex(sa, i) = 1 + e[n]
  BY <1>1, <1>5, PtrIs
<1>. QED
  BY <1>3, <1>5, <1>6, <1>7

\* The bounds alone decide about places.
LEMMA PlacesSame ==
  ASSUME NEW sa, NEW sb, sa.rgsabound \in Seq(Nat), sb.rgsabound = sa.rgsabound,
         NEW i \in Seq(Nat)
  PROVE  /\ InBounds(sb, i) <=> InBounds(sa, i)
         /\ InBounds(sa, i) => SafeArrayPtrOfIndex(sb, i) = SafeArrayPtrOfIndex(sa, i)
<1>1. PICK r \in Seq(Nat) : r = sa.rgsabound /\ r = sb.rgsabound
  OBVIOUS
<1>2. InBounds(sb, i) <=> InBounds(sa, i)
  BY <1>1, InBoundsIs
<1>3. ASSUME InBounds(sa, i) PROVE SafeArrayPtrOfIndex(sb, i) = SafeArrayPtrOfIndex(sa, i)
  <2>1. Len(i) = Len(r)
    BY <1>1, <1>3, InBoundsIs
  <2>2. PICK e : Chain(e, r, i)
    BY <2>1, ChainExists
  <2>3. SafeArrayPtrOfIndex(sa, i) = 1 + e[Len(r)]
    BY <1>1, <2>1, <2>2, PtrIs
  <2>4. SafeArrayPtrOfIndex(sb, i) = 1 + e[Len(r)]
    BY <1>1, <2>1, <2>2, PtrIs
  <2>. QED
    BY <2>3, <2>4
<1>. QED
  BY <1>2, <1>3

\* An index keeps its cell when the last dimension is resized; one that was not within
\* the bounds gets a new cell.
LEMMA PlacesResized ==
  ASSUME NEW sa, NEW sb, sa.rgsabound \in Seq(Nat), sa.rgsabound # <<>>, NEW m \in Nat,
         sb.rgsabound = [sa.rgsabound EXCEPT ![1] = m],
         NEW i \in Seq(Nat), InBounds(sb, i)
  PROVE  /\ InBounds(sa, i) => SafeArrayPtrOfIndex(sb, i) = SafeArrayPtrOfIndex(sa, i)
         /\ ~InBounds(sa, i) => SafeArrayPtrOfIndex(sb, i) \notin 1..CellCount(sa)
<1>1. PICK r \in Seq(Nat), n \in Nat : r = sa.rgsabound /\ n = Len(r) /\ r # <<>>
  BY LenProperties
<1>2. PICK q : q = [r EXCEPT ![1] = m] /\ q = sb.rgsabound
  BY <1>1
<1>3. q \in Seq(Nat) /\ Len(q) = n
  <2>1. r \in [1..n -> Nat]
    BY <1>1, LenProperties
  <2>2. q \in [1..n -> Nat]
    BY <1>2, <2>1
  <2>. QED
    BY <2>2, FunctionIsSeq
<1>4. Len(i) = n /\ Within(i, q)
  <2>1. sb.rgsabound \in Seq(Nat)
    BY <1>2, <1>3
  <2>2. Len(i) = Len(sb.rgsabound) /\ Within(i, sb.rgsabound)
    BY <2>1, InBoundsIs
  <2>. QED
    BY <1>2, <1>3, <2>2
<1>5. PICK e : Chain(e, r, i)
  BY <1>1, <1>4, ChainExists
<1>6. PICK p : Products(p, r) /\ CellCount(sa) = p[n] /\ p[n] \in Nat
  BY <1>1, ProductIs DEF CellCount
<1>7. Chain(e, q, i) /\ (~Within(i, r) => e[n] >= p[n])
  <2>1. Len(i) = Len(r) /\ Within(i, [r EXCEPT ![1] = m])
    BY <1>1, <1>2, <1>4
  <2>2. Chain(e, [r EXCEPT ![1] = m], i) /\ (~Within(i, r) => e[Len(r)] >= p[Len(r)])
    BY <1>1, <1>5, <1>6, <2>1, ChainResized
  <2>. QED
    BY <1>1, <1>2, <2>2
<1>8. SafeArrayPtrOfIndex(sb, i) = 1 + e[n]
  <2>1. sb.rgsabound \in Seq(Nat) /\ Len(i) = Len(sb.rgsabound) /\ Chain(e, sb.rgsabound, i)
    BY <1>2, <1>3, <1>4, <1>7
  <2>2. SafeArrayPtrOfIndex(sb, i) = 1 + e[Len(sb.rgsabound)]
    BY <2>1, PtrIs
  <2>. QED
    BY <1>2, <1>3, <2>2
<1>9. InBounds(sa, i) <=> Within(i, r)
  BY <1>1, <1>4, InBoundsIs
<1>10. SafeArrayPtrOfIndex(sa, i) = 1 + e[n]
  BY <1>1, <1>4, <1>5, PtrIs
<1>11. e[n] \in Nat
  BY <1>1, <1>5 DEF Chain
<1>. QED
  BY <1>6, <1>7, <1>8, <1>9, <1>10, <1>11

-------------------------------------------------------------------------------
\* A set of numbers with a bound has a greatest, which is its Max.
LEMMA MaxIsGreatest ==
  ASSUME NEW m \in Nat, NEW S \in SUBSET (0..m), S # {}
  PROVE  Abstract!Max(S) \in S /\ \A j \in S : j <= Abstract!Max(S)
<1>. DEFINE R == {m - x : x \in S}
<1>1. R \in SUBSET Nat /\ R # {}
  <2>1. \A x \in S : m - x \in Nat /\ m - x \in R
    OBVIOUS
  <2>2. PICK x : x \in S
    OBVIOUS
  <2>. QED
    BY <2>1, <2>2
<1>. HIDE DEF R
<1>2. PICK a \in R : \A j \in R : a <= j
  BY <1>1, MinIsLeast
<1>. USE DEF R
<1>3. PICK k \in S : a = m - k
  OBVIOUS
<1>4. ASSUME NEW j \in S PROVE k >= j
  <2>1. a <= m - j
    BY <1>2
  <2>. QED
    BY <1>3, <2>1
<1>5. \E x \in S : \A y \in S : x >= y
  BY <1>4
<1>6. Abstract!Max(S) \in S /\ \A y \in S : Abstract!Max(S) >= y
  BY <1>5 DEF Abstract!Max
<1>. QED
  BY <1>6

\* Reversed, the last comes first.
LEMMA ReverseIs ==
  ASSUME NEW S, NEW s \in Seq(S)
  PROVE  /\ Reverse(s) \in Seq(S) /\ Len(Reverse(s)) = Len(s)
         /\ \A k \in 1..Len(s) : Reverse(s)[k] = s[Len(s) + 1 - k]
<1>1. PICK n \in Nat : n = Len(s) /\ s \in [1..n -> S]
  BY LenProperties
<1>. DEFINE r == [i \in 1..n |-> s[(n - i) + 1]]
<1>2. \A k \in 1..n : (n - k) + 1 \in 1..n /\ (n - k) + 1 = n + 1 - k
  OBVIOUS
<1>3. r \in [1..n -> S] /\ \A k \in 1..n : r[k] = s[n + 1 - k]
  BY <1>1, <1>2
<1>4. Reverse(s) = r
  BY <1>1 DEF Reverse
<1>. HIDE DEF r
<1>5. r \in Seq(S) /\ Len(r) = n
  BY <1>3, FunctionIsSeq
<1>. QED
  BY <1>1, <1>3, <1>4, <1>5

\* The bounds of an array of a known shape.
AllShapes == Shapes \cup {FixedShape}
Known(r) == \E s \in AllShapes : r = Reverse(s)

\* Shapes are numbers up to MaxIndex + 1.
LEMMA ShapeIs ==
  ASSUME NEW s \in AllShapes
  PROVE  /\ MaxIndex \in Nat /\ s \in Seq(0..MaxIndex + 1) /\ s \in Seq(Nat) /\ s # <<>>
         /\ Len(s) \in Nat \ {0} /\ DOMAIN s = 1..Len(s)
         /\ \A d \in 1..Len(s) : s[d] \in 0..MaxIndex + 1
<1>1. s \in Seq(0..MaxIndex + 1) /\ s # <<>> /\ MaxIndex \in Nat
  BY ArrayAssumption DEF AllShapes
<1>2. PICK n \in Nat : n = Len(s) /\ s \in [1..n -> 0..MaxIndex + 1] /\ DOMAIN s = 1..n
  BY <1>1, LenProperties
<1>3. s \in [1..n -> Nat]
  BY <1>1, <1>2
<1>4. s \in Seq(Nat)
  BY <1>3, FunctionIsSeq
<1>5. n # 0
  BY <1>1, <1>2, EmptySeq
<1>. QED
  BY <1>1, <1>2, <1>4, <1>5

\* The bounds of an array of shape s.
LEMMA BoundIs ==
  ASSUME NEW s \in AllShapes, NEW sa, sa.rgsabound = Reverse(s)
  PROVE  /\ sa.rgsabound \in Seq(Nat) /\ Len(sa.rgsabound) = Len(s) /\ sa.rgsabound # <<>>
         /\ \A d \in 1..Len(s) : Bound(sa, d) = s[d]
         /\ \A k \in 1..Len(s) : sa.rgsabound[k] = s[Len(s) + 1 - k]
<1>1. PICK n \in Nat \ {0} : n = Len(s) /\ s \in Seq(Nat)
  BY ShapeIs
<1>2. /\ Reverse(s) \in Seq(Nat) /\ Len(Reverse(s)) = n
      /\ \A k \in 1..n : Reverse(s)[k] = s[n + 1 - k]
  BY <1>1, ReverseIs
<1>3. PICK r \in Seq(Nat) : r = sa.rgsabound /\ Len(r) = n /\ \A k \in 1..n : r[k] = s[n + 1 - k]
  BY <1>2
<1>4. \A d \in 1..n : n + 1 - d \in 1..n /\ n + 1 - (n + 1 - d) = d
  OBVIOUS
<1>5. \A d \in 1..n : Bound(sa, d) = s[d]
  BY <1>3, <1>4 DEF Bound
<1>6. r # <<>>
  BY <1>3, EmptySeq
<1>. QED
  BY <1>1, <1>3, <1>5, <1>6

\* The indices of scripts are sequences of numbers.
LEMMA IndexIsSeq ==
  ASSUME NEW i \in Index
  PROVE  i \in Seq(Nat)
<1>1. PICK s \in AllShapes : i \in [DOMAIN s -> 0..MaxIndex]
  BY DEF Index, AllShapes
<1>2. PICK n \in Nat : DOMAIN s = 1..n
  BY ShapeIs
<1>3. MaxIndex \in Nat
  BY ShapeIs
<1>4. i \in [1..n -> Nat]
  BY <1>1, <1>2, <1>3
<1>. QED
  BY <1>4, FunctionIsSeq

\* The indices of an array, as ArrayContents has them.
Inside(sa) == {i \in Index : InBounds(sa, i)}

\* Every index within the bounds is one that scripts use, and one of the shape.
LEMMA IndicesAre ==
  ASSUME NEW s \in AllShapes, NEW sa, sa.rgsabound = Reverse(s)
  PROVE  /\ Inside(sa) = Abstract!Indices(s)
         /\ \A i \in Seq(Nat) : InBounds(sa, i) => i \in Inside(sa)
<1>1. PICK n \in Nat \ {0} : n = Len(s) /\ DOMAIN s = 1..n /\ \A d \in 1..n : s[d] \in 0..MaxIndex + 1
  BY ShapeIs
<1>2. MaxIndex \in Nat
  BY ShapeIs
<1>3. /\ sa.rgsabound \in Seq(Nat) /\ Len(sa.rgsabound) = n
      /\ \A d \in 1..n : Bound(sa, d) = s[d]
  BY <1>1, BoundIs
<1>4. ASSUME NEW i \in Seq(Nat)
      PROVE  /\ DOMAIN i = 1..Len(i) /\ Len(i) \in Nat
             /\ InBounds(sa, i) <=> Len(i) = n /\ \A d \in 1..n : i[d] < s[d]
  <2>1. DOMAIN i = 1..Len(i) /\ Len(i) \in Nat
    BY LenProperties
  <2>. QED
    BY <1>3, <2>1 DEF InBounds
<1>. DEFINE m == Abstract!Max({s[d] : d \in DOMAIN s})
<1>5. m \in 0..MaxIndex + 1 /\ \A d \in 1..n : s[d] <= m
  <2>1. {s[d] : d \in DOMAIN s} \in SUBSET (0..MaxIndex + 1) /\ {s[d] : d \in DOMAIN s} # {}
    BY <1>1
  <2>2. MaxIndex + 1 \in Nat
    BY <1>2
  <2>3. m \in {s[d] : d \in DOMAIN s} /\ \A j \in {s[d] : d \in DOMAIN s} : j <= m
    BY <2>1, <2>2, MaxIsGreatest
  <2>. HIDE DEF m
  <2>. QED
    BY <1>1, <2>1, <2>3
<1>6. Abstract!Indices(s) = {i \in [1..n -> 0..m] : \A d \in 1..n : i[d] < s[d]}
  BY <1>1 DEF Abstract!Indices
<1>. HIDE DEF m
<1>7. ASSUME NEW i \in Seq(Nat), InBounds(sa, i)
      PROVE  i \in Index /\ i \in Abstract!Indices(s)
  <2>1. i \in [1..n -> Nat] /\ \A d \in 1..n : i[d] < s[d]
    BY <1>4, <1>7, LenProperties
  <2>2. \A d \in 1..n : i[d] \in 0..MaxIndex /\ i[d] \in 0..m
    <3>1. ASSUME NEW d \in 1..n PROVE i[d] \in 0..MaxIndex /\ i[d] \in 0..m
      <4>1. i[d] \in Nat /\ i[d] < s[d] /\ s[d] \in 0..MaxIndex + 1 /\ s[d] <= m
        BY <1>1, <1>5, <2>1
      <4>. QED
        BY <1>2, <1>5, <4>1
    <3>. QED
      BY <3>1
  <2>3. i \in [DOMAIN s -> 0..MaxIndex] /\ i \in [1..n -> 0..m]
    BY <1>1, <2>1, <2>2
  <2>4. i \in Index
    BY <2>3 DEF Index, AllShapes
  <2>. QED
    BY <1>6, <2>1, <2>3, <2>4
<1>8. ASSUME NEW i \in Abstract!Indices(s) PROVE i \in Inside(sa)
  <2>1. i \in [1..n -> 0..m] /\ \A d \in 1..n : i[d] < s[d]
    BY <1>6
  <2>2. i \in [1..n -> Nat]
    BY <1>5, <2>1
  <2>3. i \in Seq(Nat) /\ Len(i) = n
    BY <2>2, FunctionIsSeq
  <2>4. InBounds(sa, i)
    BY <1>4, <2>1, <2>3
  <2>. QED
    BY <1>7, <2>3, <2>4 DEF Inside
<1>9. ASSUME NEW i \in Inside(sa) PROVE i \in Abstract!Indices(s)
  BY <1>7, IndexIsSeq DEF Inside
<1>. QED
  BY <1>7, <1>8, <1>9 DEF Inside

-------------------------------------------------------------------------------
\* An array as the invariant has it.
Whole(sa) == sa \in SafeArrays /\ Len(sa.pvData) = CellCount(sa) /\ Known(sa.rgsabound)

\* What the contents of an array are.
LEMMA ContentsAre ==
  ASSUME NEW sa, Whole(sa)
  PROVE  /\ Contents(sa) \in [Inside(sa) -> Elements] /\ Contents(sa) # NoArray
         /\ DOMAIN Contents(sa) = Inside(sa)
         /\ \A i \in Inside(sa) : /\ Contents(sa)[i] = sa.pvData[SafeArrayPtrOfIndex(sa, i)]
                                  /\ SafeArrayPtrOfIndex(sa, i) \in 1..CellCount(sa)
                                  /\ i \in Seq(Nat) /\ InBounds(sa, i)
         /\ sa.rgsabound \in Seq(Nat) /\ sa.pvData \in [1..CellCount(sa) -> Elements]
         /\ CellCount(sa) \in Nat
<1>1. sa.rgsabound \in Seq(Nat) /\ sa.pvData \in Seq(Elements)
  BY DEF Whole, SafeArrays
<1>2. CellCount(sa) \in Nat
  BY CountIsNat DEF Whole
<1>3. sa.pvData \in [1..CellCount(sa) -> Elements]
  BY <1>1, LenProperties DEF Whole
<1>4. ASSUME NEW i \in Inside(sa)
      PROVE  SafeArrayPtrOfIndex(sa, i) \in 1..CellCount(sa) /\ i \in Seq(Nat) /\ InBounds(sa, i)
  <2>1. i \in Seq(Nat) /\ InBounds(sa, i)
    BY IndexIsSeq DEF Inside
  <2>. QED
    BY <1>1, <2>1, PtrIsCell
<1>5. Contents(sa) = [i \in Inside(sa) |-> sa.pvData[SafeArrayPtrOfIndex(sa, i)]]
  BY DEF Contents, Inside
<1>6. Contents(sa) \in [Inside(sa) -> Elements]
  BY <1>3, <1>4, <1>5
<1>7. Contents(sa) # NoArray
  <2>1. Inside(sa) \in SUBSET Index
    BY DEF Inside
  <2>. QED
    BY <1>6, <2>1, ContentsAssumption
<1>. QED
  BY <1>1, <1>2, <1>3, <1>4, <1>5, <1>6, <1>7

\* The contents are those of the bounds and the cells.
LEMMA ContentsSame ==
  ASSUME NEW sa, Whole(sa), NEW sb, sb.rgsabound = sa.rgsabound, sb.pvData = sa.pvData
  PROVE  Contents(sb) = Contents(sa)
<1>1. sa.rgsabound \in Seq(Nat)
  BY ContentsAre
<1>2. \A i \in Index : InBounds(sb, i) <=> InBounds(sa, i)
  BY <1>1, PlacesSame, IndexIsSeq
<1>3. Inside(sb) = Inside(sa)
  BY <1>2 DEF Inside
<1>4. \A i \in Inside(sa) : SafeArrayPtrOfIndex(sb, i) = SafeArrayPtrOfIndex(sa, i)
  BY <1>1, PlacesSame, ContentsAre
<1>. QED
  BY <1>3, <1>4 DEF Contents, Inside

\* A cell that gets a value is the element of one index, or of none.
Wrote(old, new, x) ==
  new = old \/ \E i \in DOMAIN old : new = [old EXCEPT ![i] = x]
\* The contents after a cell is written: an element changes, or none.
LEMMA ContentsWritten ==
  ASSUME NEW sa, Whole(sa), NEW c, NEW x \in Elements, NEW sb, sb.rgsabound = sa.rgsabound,
         sb.pvData = [sa.pvData EXCEPT ![c] = x]
  PROVE  Wrote(Contents(sa), Contents(sb), x)
<1>1. /\ sa.rgsabound \in Seq(Nat) /\ DOMAIN Contents(sa) = Inside(sa)
      /\ sa.pvData \in [1..CellCount(sa) -> Elements]
      /\ Contents(sa) \in [Inside(sa) -> Elements]
      /\ \A i \in Inside(sa) : /\ Contents(sa)[i] = sa.pvData[SafeArrayPtrOfIndex(sa, i)]
                               /\ SafeArrayPtrOfIndex(sa, i) \in 1..CellCount(sa)
                               /\ i \in Seq(Nat) /\ InBounds(sa, i)
  BY ContentsAre
<1>2. \A i \in Index : InBounds(sb, i) <=> InBounds(sa, i)
  BY <1>1, PlacesSame, IndexIsSeq
<1>3. Inside(sb) = Inside(sa)
  BY <1>2 DEF Inside
<1>4. \A i \in Inside(sa) : SafeArrayPtrOfIndex(sb, i) = SafeArrayPtrOfIndex(sa, i)
  BY <1>1, PlacesSame
<1>5. Contents(sb) = [i \in Inside(sa) |-> sb.pvData[SafeArrayPtrOfIndex(sa, i)]]
  <2>1. Contents(sb) = [i \in Inside(sb) |-> sb.pvData[SafeArrayPtrOfIndex(sb, i)]]
    BY DEF Contents, Inside
  <2>. QED
    BY <1>3, <1>4, <2>1
<1>6. \A k \in 1..CellCount(sa) : sb.pvData[k] = IF k = c THEN x ELSE sa.pvData[k]
  BY <1>1
<1>7. \A i \in Inside(sa) : sb.pvData[SafeArrayPtrOfIndex(sa, i)] =
        IF SafeArrayPtrOfIndex(sa, i) = c THEN x ELSE Contents(sa)[i]
  BY <1>1, <1>6
<1>8. CASE \E i \in Inside(sa) : SafeArrayPtrOfIndex(sa, i) = c
  <2>1. PICK i \in Inside(sa) : SafeArrayPtrOfIndex(sa, i) = c
    BY <1>8
  <2>2. \A j \in Inside(sa) : SafeArrayPtrOfIndex(sa, j) = c => j = i
    BY <1>1, <2>1, PlacesApart
  <2>3. Contents(sb) = [Contents(sa) EXCEPT ![i] = x]
    BY <1>1, <1>5, <1>7, <2>1, <2>2
  <2>. QED
    BY <1>1, <2>3 DEF Wrote
<1>9. CASE ~\E i \in Inside(sa) : SafeArrayPtrOfIndex(sa, i) = c
  <2>1. \A i \in Inside(sa) : sb.pvData[SafeArrayPtrOfIndex(sa, i)] = Contents(sa)[i]
    BY <1>7, <1>9
  <2>2. Contents(sb) = Contents(sa)
    BY <1>1, <1>5, <2>1
  <2>. QED
    BY <2>2 DEF Wrote
<1>. QED
  BY <1>8, <1>9

\* A new array holds nothing at the indices of its shape.
LEMMA ContentsCreated ==
  ASSUME NEW s \in AllShapes
  PROVE  /\ Contents(SafeArrayCreate(s)) = [i \in Abstract!Indices(s) |-> Empty]
         /\ Whole(SafeArrayCreate(s))
<1>1. PICK sa : sa = SafeArrayCreate(s)
  OBVIOUS
<1>2. sa \in SafeArrays /\ Len(sa.pvData) = CellCount(sa)
  BY <1>1, CreateParts DEF AllShapes
<1>3. sa.rgsabound = Reverse(s) /\ sa.pvData = [c \in 1..Product(Reverse(s)) |-> Empty]
  BY <1>1 DEF SafeArrayCreate, SafeArray
<1>4. Whole(sa)
  BY <1>2, <1>3 DEF Whole, Known
<1>5. CellCount(sa) = Product(Reverse(s))
  BY <1>3 DEF CellCount
<1>6. /\ Contents(sa) \in [Inside(sa) -> Elements]
      /\ \A i \in Inside(sa) : /\ Contents(sa)[i] = sa.pvData[SafeArrayPtrOfIndex(sa, i)]
                               /\ SafeArrayPtrOfIndex(sa, i) \in 1..CellCount(sa)
  BY <1>4, ContentsAre
<1>7. \A i \in Inside(sa) : Contents(sa)[i] = Empty
  BY <1>3, <1>5, <1>6
<1>8. Contents(sa) = [i \in Inside(sa) |-> Empty]
  BY <1>6, <1>7
<1>9. Inside(sa) = Abstract!Indices(s)
  BY <1>3, IndicesAre
<1>. QED
  BY <1>1, <1>4, <1>8, <1>9

\* ReDim Preserve keeps the elements of the indices that stay.
LEMMA ContentsResized ==
  ASSUME NEW sa, Whole(sa), NEW m \in Nat, NEW s \in AllShapes,
         [sa.rgsabound EXCEPT ![1] = m] = Reverse(s), NEW sb,
         sb.rgsabound = [sa.rgsabound EXCEPT ![1] = m], sb.pvData = Resized(sa, m).pvData
  PROVE  Contents(sb) = [i \in Abstract!Indices(s) |->
                           IF i \in DOMAIN Contents(sa) THEN Contents(sa)[i] ELSE Empty]
<1>1. /\ sa.rgsabound \in Seq(Nat) /\ DOMAIN Contents(sa) = Inside(sa)
      /\ sa.pvData \in [1..CellCount(sa) -> Elements]
      /\ \A i \in Inside(sa) : /\ Contents(sa)[i] = sa.pvData[SafeArrayPtrOfIndex(sa, i)]
                               /\ SafeArrayPtrOfIndex(sa, i) \in 1..CellCount(sa)
                               /\ i \in Seq(Nat) /\ InBounds(sa, i)
  BY ContentsAre
<1>2. PICK t \in AllShapes : sa.rgsabound = Reverse(t)
  BY DEF Whole, Known
<1>3. sa.rgsabound # <<>>
  BY <1>2, BoundIs
<1>4. sb.rgsabound \in Seq(Nat)
  BY BoundIs
<1>5. Inside(sb) = Abstract!Indices(s)
  BY IndicesAre
<1>6. /\ CellCount(sb) = Product(sb.rgsabound)
      /\ sb.pvData = [c \in 1..CellCount(sb) |->
                        IF c \in DOMAIN sa.pvData THEN sa.pvData[c] ELSE Empty]
  <2>1. PICK b : b = [sa.rgsabound EXCEPT ![1] = m] /\ b = sb.rgsabound
    OBVIOUS
  <2>2. PICK d : d = [c \in 1..Product(b) |-> IF c \in DOMAIN sa.pvData THEN sa.pvData[c] ELSE Empty]
    OBVIOUS
  <2>3. Resized(sa, m) = [sa EXCEPT !.rgsabound = b, !.pvData = d]
    BY <2>1, <2>2 DEF Resized
  <2>4. Resized(sa, m).pvData = d
    <3>1. sa \in SafeArrays
      BY DEF Whole
    <3>. QED
      BY <2>3, <3>1 DEF SafeArrays
  <2>5. CellCount(sb) = Product(b)
    BY <2>1 DEF CellCount
  <2>. QED
    BY <2>1, <2>2, <2>4, <2>5
<1>7. ASSUME NEW i \in Inside(sb)
      PROVE  /\ SafeArrayPtrOfIndex(sb, i) \in 1..CellCount(sb)
             /\ i \in Inside(sa) => SafeArrayPtrOfIndex(sb, i) = SafeArrayPtrOfIndex(sa, i)
             /\ i \notin Inside(sa) => SafeArrayPtrOfIndex(sb, i) \notin 1..CellCount(sa)
  <2>1. i \in Index /\ i \in Seq(Nat) /\ InBounds(sb, i)
    BY IndexIsSeq DEF Inside
  <2>2. SafeArrayPtrOfIndex(sb, i) \in 1..CellCount(sb)
    BY <1>4, <2>1, PtrIsCell
  <2>3. /\ InBounds(sa, i) => SafeArrayPtrOfIndex(sb, i) = SafeArrayPtrOfIndex(sa, i)
        /\ ~InBounds(sa, i) => SafeArrayPtrOfIndex(sb, i) \notin 1..CellCount(sa)
    BY <1>1, <1>3, <2>1, PlacesResized
  <2>. QED
    BY <2>1, <2>2, <2>3 DEF Inside
<1>8. Contents(sb) = [i \in Inside(sb) |-> sb.pvData[SafeArrayPtrOfIndex(sb, i)]]
  BY DEF Contents, Inside
<1>9. DOMAIN sa.pvData = 1..CellCount(sa)
  BY <1>1
<1>10. ASSUME NEW i \in Inside(sb)
       PROVE  sb.pvData[SafeArrayPtrOfIndex(sb, i)] =
                IF i \in Inside(sa) THEN Contents(sa)[i] ELSE Empty
  <2>1. CASE i \in Inside(sa)
    BY <1>1, <1>6, <1>7, <1>9, <2>1
  <2>2. CASE i \notin Inside(sa)
    BY <1>6, <1>7, <1>9, <2>2
  <2>. QED
    BY <2>1, <2>2
<1>. QED
  BY <1>1, <1>5, <1>8, <1>10

-------------------------------------------------------------------------------
\* The loop of a For Each frame f over the arrays as, and what a frame adds to the loops.
LoopIn(as, f) ==
  [id   |-> f.id,
   seen |-> {idx \in Index : InBounds(as[f.id], idx) /\ SafeArrayPtrOfIndex(as[f.id], idx) < f.pos},
   got  |-> f.value,
   done |-> f.pos = f.last + 2]
Part(as, f) == IF f.op = "foreach" THEN <<LoopIn(as, f)>> ELSE <<>>
LoopsOf(as, fs) == FlattenSeq([k \in DOMAIN fs |-> Part(as, fs[k])])
LoopSet(as, S) == {LoopIn(as, f) : f \in S}

\* No loop and one loop are lists of loops.
LEMMA PartIs ==
  ASSUME NEW as, NEW f, NEW T, LoopIn(as, f) \in T
  PROVE  Part(as, f) \in Seq(T)
<1>1. PICK x \in T : x = LoopIn(as, f)
  OBVIOUS
<1>2. <<x>> \in Seq(T) /\ <<>> \in Seq(T)
  <2>1. <<x>> \in [1..1 -> T] /\ <<>> \in Seq(T)
    OBVIOUS
  <2>2. 1 \in Nat
    OBVIOUS
  <2>. QED
    BY <2>1, <2>2, FunctionIsSeq
<1>. QED
  BY <1>1, <1>2 DEF Part

\* The parts of the frames are lists of loops.
LEMMA PartsAre ==
  ASSUME NEW as, NEW S, NEW fs \in Seq(S)
  PROVE  /\ [k \in DOMAIN fs |-> Part(as, fs[k])] \in Seq(Seq(LoopSet(as, S)))
         /\ Len([k \in DOMAIN fs |-> Part(as, fs[k])]) = Len(fs)
         /\ LoopsOf(as, fs) \in Seq(LoopSet(as, S))
<1>1. PICK n \in Nat : n = Len(fs) /\ DOMAIN fs = 1..n /\ \A k \in 1..n : fs[k] \in S
  BY LenProperties, ElementOfSeq
<1>. DEFINE T == LoopSet(as, S)
            ss == [k \in 1..n |-> Part(as, fs[k])]
<1>2. ASSUME NEW f \in S PROVE Part(as, f) \in Seq(T)
  <2>1. LoopIn(as, f) \in T
    BY DEF LoopSet
  <2>. QED
    BY <2>1, PartIs
<1>. HIDE DEF T
<1>3. ss \in [1..n -> Seq(T)]
  BY <1>1, <1>2
<1>. HIDE DEF ss
<1>4. ss \in Seq(Seq(T)) /\ Len(ss) = n
  BY <1>3, FunctionIsSeq
<1>5. FlattenSeq(ss) \in Seq(T)
  BY <1>4, FlattenType
<1>. QED
  BY <1>1, <1>4, <1>5 DEF ss, T, LoopsOf

\* One more frame adds its part.
LEMMA LoopsAppend ==
  ASSUME NEW as, NEW S, NEW fs \in Seq(S), NEW f \in S
  PROVE  /\ Part(as, f) \in Seq(LoopSet(as, S))
         /\ LoopsOf(as, Append(fs, f)) = LoopsOf(as, fs) \o Part(as, f)
<1>. DEFINE T == LoopSet(as, S)
            ss == [k \in DOMAIN fs |-> Part(as, fs[k])]
<1>1. ss \in Seq(Seq(T)) /\ Len(ss) = Len(fs)
  BY PartsAre
<1>2. PICK x \in Seq(T) : x = Part(as, f)
  <2>1. LoopIn(as, f) \in T
    BY DEF LoopSet
  <2>. HIDE DEF T
  <2>. QED
    BY <2>1, PartIs
<1>3. PICK gs \in Seq(S), n \in Nat :
        /\ gs = Append(fs, f) /\ n = Len(fs) /\ DOMAIN fs = 1..n /\ DOMAIN gs = 1..n + 1 /\ Len(gs) = n + 1
        /\ gs[n + 1] = f /\ \A k \in 1..n : gs[k] = fs[k]
  <2>1. /\ Append(fs, f) \in Seq(S) /\ Append(fs, f)[Len(fs) + 1] = f
        /\ Len(Append(fs, f)) = Len(fs) + 1 /\ DOMAIN Append(fs, f) = 1..Len(fs) + 1
        /\ DOMAIN fs = 1..Len(fs)
        /\ \A k \in DOMAIN fs : Append(fs, f)[k] = fs[k]
    BY AppendParts
  <2>2. Len(fs) \in Nat
    BY LenProperties
  <2>. QED
    BY <2>1, <2>2
<1>4. PICK tt : tt = [k \in DOMAIN gs |-> Part(as, gs[k])]
  OBVIOUS
<1>5. tt \in Seq(Seq(T)) /\ Len(tt) = n + 1
  <2>1. tt \in Seq(Seq(T)) /\ Len(tt) = Len(gs)
    BY <1>4, PartsAre
  <2>. QED
    BY <1>3, <2>1
<1>6. /\ \A k \in 1..n : ss[k] = Part(as, fs[k]) /\ tt[k] = Part(as, fs[k])
      /\ tt[n + 1] = x
  <2>1. \A k \in 1..n : k \in 1..n + 1
    OBVIOUS
  <2>2. n + 1 \in 1..n + 1
    OBVIOUS
  <2>. QED
    BY <1>2, <1>3, <1>4, <2>1, <2>2
<1>7. LoopsOf(as, fs) = FlattenSeq(ss) /\ LoopsOf(as, gs) = FlattenSeq(tt)
  BY <1>4 DEF LoopsOf
<1>. HIDE DEF ss, T
<1>8. PICK uu \in Seq(Seq(T)) :
        uu = Append(ss, x) /\ Len(uu) = n + 1 /\ uu[n + 1] = x /\ \A k \in 1..n : uu[k] = ss[k]
  <2>1. /\ Append(ss, x) \in Seq(Seq(T)) /\ Append(ss, x)[Len(ss) + 1] = x
        /\ Len(Append(ss, x)) = Len(ss) + 1
        /\ \A k \in 1..Len(ss) : Append(ss, x)[k] = ss[k]
    BY <1>1, AppendProperties
  <2>. QED
    BY <1>1, <1>3, <2>1
<1>9. \A k \in 1..n + 1 : tt[k] = uu[k]
  <2>1. \A k \in 1..n + 1 : k \in 1..n \/ k = n + 1
    OBVIOUS
  <2>. QED
    BY <1>6, <1>8, <2>1
<1>10. tt = uu
  BY <1>5, <1>8, <1>9, SeqEqual
<1>11. FlattenSeq(Append(ss, x)) = FlattenSeq(ss) \o x
  BY <1>1, FlattenAppend
<1>. QED
  BY <1>2, <1>3, <1>7, <1>8, <1>10, <1>11 DEF T

\* A frame that is no loop adds none; a For Each is one.
LEMMA LoopsPush ==
  ASSUME NEW as, NEW S, NEW fs \in Seq(S), NEW f \in S
  PROVE  /\ f.op # "foreach" => LoopsOf(as, Append(fs, f)) = LoopsOf(as, fs)
         /\ f.op = "foreach" => LoopsOf(as, Append(fs, f)) = Append(LoopsOf(as, fs), LoopIn(as, f))
<1>1. PICK T, l : T = LoopSet(as, S) /\ l = LoopsOf(as, fs) /\ l \in Seq(T)
  BY PartsAre
<1>2. LoopsOf(as, Append(fs, f)) = l \o Part(as, f)
  BY <1>1, LoopsAppend
<1>3. l \o <<>> = l
  BY Nothing
<1>4. PICK x \in T : x = LoopIn(as, f)
  BY <1>1 DEF LoopSet
<1>5. l \o <<x>> = Append(l, x)
  BY AppendIsConcat
<1>6. f.op # "foreach" => Part(as, f) = <<>>
  BY DEF Part
<1>7. f.op = "foreach" => Part(as, f) = <<x>>
  BY <1>4 DEF Part
<1>. QED
  BY <1>1, <1>2, <1>3, <1>4, <1>5, <1>6, <1>7

\* No frame, no loop.
LEMMA LoopsEmpty ==
  ASSUME NEW as
  PROVE  LoopsOf(as, <<>>) = <<>>
<1>1. [k \in DOMAIN <<>> |-> Part(as, <<>>[k])] = <<>>
  OBVIOUS
<1>. QED
  BY <1>1, FlattenEmpty DEF LoopsOf

-------------------------------------------------------------------------------
\* What the arrays as and the frames fs show of loops: l.  Every array has a known shape,
\* and so it will have when a resize that is under way is over.
Shows(as, fs, l) ==
  /\ as \in [Id -> SafeArrays \cup {NoArray}] /\ fs \in Seq(Frames)
  /\ \A k \in DOMAIN fs : fs[k].op \in {"foreach", "shrink"} => fs[k].id \in Id /\ as[fs[k].id] # NoArray
  /\ \A id \in Id : as[id] # NoArray => Known(as[id].rgsabound)
  /\ \A k \in DOMAIN fs : fs[k].op = "shrink" =>
       Known([as[fs[k].id].rgsabound EXCEPT ![1] = fs[k].size])
  /\ LoopsOf(as, fs) = l

\* An array that keeps its bounds, or one that no frame knows, may change.
LEMMA ShowsArray ==
  ASSUME NEW as, NEW fs, NEW l, Shows(as, fs, l), NEW id \in Id, NEW sa \in SafeArrays \cup {NoArray},
         \/ sa # NoArray /\ as[id] # NoArray /\ sa.rgsabound = as[id].rgsabound
         \/ (\A k \in DOMAIN fs : fs[k].id # id) /\ (sa # NoArray => Known(sa.rgsabound))
  PROVE  Shows([as EXCEPT ![id] = sa], fs, l)
<1>1. PICK bs : bs = [as EXCEPT ![id] = sa]
  OBVIOUS
<1>2. /\ as \in [Id -> SafeArrays \cup {NoArray}] /\ fs \in Seq(Frames)
      /\ \A k \in DOMAIN fs : fs[k].op \in {"foreach", "shrink"} => fs[k].id \in Id /\ as[fs[k].id] # NoArray
      /\ \A i \in Id : as[i] # NoArray => Known(as[i].rgsabound)
      /\ \A k \in DOMAIN fs : fs[k].op = "shrink" =>
           Known([as[fs[k].id].rgsabound EXCEPT ![1] = fs[k].size])
      /\ LoopsOf(as, fs) = l
  BY DEF Shows
<1>3. /\ bs \in [Id -> SafeArrays \cup {NoArray}]
      /\ bs[id] = sa /\ \A i \in Id : i # id => bs[i] = as[i]
  BY <1>1, <1>2
<1>4. ASSUME NEW k \in DOMAIN fs, fs[k].op \in {"foreach", "shrink"}
      PROVE  bs[fs[k].id] # NoArray /\ bs[fs[k].id].rgsabound = as[fs[k].id].rgsabound
  <2>1. fs[k].id \in Id /\ as[fs[k].id] # NoArray
    BY <1>2, <1>4
  <2>2. CASE fs[k].id = id
    BY <1>3, <2>2
  <2>3. CASE fs[k].id # id
    BY <1>3, <2>1, <2>3
  <2>. QED
    BY <2>2, <2>3
<1>5. ASSUME NEW i \in Id, bs[i] # NoArray PROVE Known(bs[i].rgsabound)
  <2>1. CASE i = id
    BY <1>2, <1>3, <1>5, <2>1
  <2>2. CASE i # id
    BY <1>2, <1>3, <1>5, <2>2
  <2>. QED
    BY <2>1, <2>2
<1>6. ASSUME NEW k \in DOMAIN fs PROVE Part(bs, fs[k]) = Part(as, fs[k])
  <2>1. CASE fs[k].op # "foreach"
    BY <2>1 DEF Part
  <2>2. CASE fs[k].op = "foreach"
    <3>1. PICK f : f = fs[k] /\ f.op = "foreach"
      BY <2>2
    <3>2. PICK a, b : a = as[f.id] /\ b = bs[f.id]
      OBVIOUS
    <3>3. a \in SafeArrays /\ b.rgsabound = a.rgsabound
      BY <1>2, <1>4, <3>1, <3>2
    <3>4. a.rgsabound \in Seq(Nat)
      BY <3>3 DEF SafeArrays
    <3>5. \A i \in Index : /\ InBounds(b, i) <=> InBounds(a, i)
                           /\ InBounds(a, i) => SafeArrayPtrOfIndex(b, i) = SafeArrayPtrOfIndex(a, i)
      BY <3>3, <3>4, PlacesSame, IndexIsSeq
    <3>6. {i \in Index : InBounds(b, i) /\ SafeArrayPtrOfIndex(b, i) < f.pos} =
            {i \in Index : InBounds(a, i) /\ SafeArrayPtrOfIndex(a, i) < f.pos}
      BY <3>5
    <3>7. LoopIn(bs, f) = LoopIn(as, f)
      BY <3>2, <3>6 DEF LoopIn
    <3>. QED
      BY <3>1, <3>7 DEF Part
  <2>. QED
    BY <2>1, <2>2
<1>7. LoopsOf(bs, fs) = LoopsOf(as, fs)
  <2>1. [k \in DOMAIN fs |-> Part(bs, fs[k])] = [k \in DOMAIN fs |-> Part(as, fs[k])]
    BY <1>6
  <2>. QED
    BY <2>1 DEF LoopsOf
<1>8. Shows(bs, fs, l)
  BY <1>2, <1>3, <1>4, <1>5, <1>7 DEF Shows
<1>. QED
  BY <1>1, <1>8

\* A frame begins.
LEMMA ShowsPush ==
  ASSUME NEW as, NEW fs, NEW l, Shows(as, fs, l), NEW f \in Frames,
         f.op \in {"foreach", "shrink"} => f.id \in Id /\ as[f.id] # NoArray,
         f.op = "shrink" => Known([as[f.id].rgsabound EXCEPT ![1] = f.size])
  PROVE  Shows(as, Append(fs, f), IF f.op = "foreach" THEN Append(l, LoopIn(as, f)) ELSE l)
<1>1. /\ as \in [Id -> SafeArrays \cup {NoArray}] /\ fs \in Seq(Frames)
      /\ \A k \in DOMAIN fs : fs[k].op \in {"foreach", "shrink"} => fs[k].id \in Id /\ as[fs[k].id] # NoArray
      /\ \A i \in Id : as[i] # NoArray => Known(as[i].rgsabound)
      /\ \A k \in DOMAIN fs : fs[k].op = "shrink" =>
           Known([as[fs[k].id].rgsabound EXCEPT ![1] = fs[k].size])
      /\ LoopsOf(as, fs) = l
  BY DEF Shows
<1>2. PICK gs \in Seq(Frames), n \in Nat :
        /\ gs = Append(fs, f) /\ n = Len(fs) /\ DOMAIN fs = 1..n /\ DOMAIN gs = 1..n + 1
        /\ gs[n + 1] = f /\ \A k \in 1..n : gs[k] = fs[k]
  <2>1. /\ Append(fs, f) \in Seq(Frames) /\ Append(fs, f)[Len(fs) + 1] = f
        /\ DOMAIN Append(fs, f) = 1..Len(fs) + 1
        /\ DOMAIN fs = 1..Len(fs) /\ Len(fs) \in Nat
        /\ \A k \in DOMAIN fs : Append(fs, f)[k] = fs[k]
    BY <1>1, AppendParts
  <2>. QED
    BY <2>1
<1>3. ASSUME NEW k \in 1..n + 1 PROVE gs[k] = f \/ (k \in 1..n /\ gs[k] = fs[k])
  <2>1. k = n + 1 \/ k \in 1..n
    OBVIOUS
  <2>. QED
    BY <1>2, <2>1
<1>4. /\ \A k \in DOMAIN gs : gs[k].op \in {"foreach", "shrink"} => gs[k].id \in Id /\ as[gs[k].id] # NoArray
      /\ \A k \in DOMAIN gs : gs[k].op = "shrink" =>
           Known([as[gs[k].id].rgsabound EXCEPT ![1] = gs[k].size])
  BY <1>1, <1>2, <1>3
<1>5. LoopsOf(as, gs) = IF f.op = "foreach" THEN Append(l, LoopIn(as, f)) ELSE l
  <2>1. /\ f.op # "foreach" => LoopsOf(as, Append(fs, f)) = LoopsOf(as, fs)
        /\ f.op = "foreach" => LoopsOf(as, Append(fs, f)) = Append(LoopsOf(as, fs), LoopIn(as, f))
    BY <1>1, LoopsPush
  <2>. QED
    BY <1>1, <1>2, <2>1
<1>6. Shows(as, gs, IF f.op = "foreach" THEN Append(l, LoopIn(as, f)) ELSE l)
  BY <1>1, <1>4, <1>5 DEF Shows
<1>. QED
  BY <1>2, <1>6

\* The innermost frame ends.
LEMMA ShowsPop ==
  ASSUME NEW as, NEW fs, NEW l, Shows(as, fs, l), fs # <<>>
  PROVE  \E m : /\ Shows(as, Front(fs), m)
                /\ m \in Seq(LoopSet(as, Frames)) /\ LoopIn(as, fs[Len(fs)]) \in LoopSet(as, Frames)
                /\ fs[Len(fs)].op # "foreach" => l = m
                /\ fs[Len(fs)].op = "foreach" => l = Append(m, LoopIn(as, fs[Len(fs)]))
<1>1. /\ as \in [Id -> SafeArrays \cup {NoArray}] /\ fs \in Seq(Frames)
      /\ \A k \in DOMAIN fs : fs[k].op \in {"foreach", "shrink"} => fs[k].id \in Id /\ as[fs[k].id] # NoArray
      /\ \A i \in Id : as[i] # NoArray => Known(as[i].rgsabound)
      /\ \A k \in DOMAIN fs : fs[k].op = "shrink" =>
           Known([as[fs[k].id].rgsabound EXCEPT ![1] = fs[k].size])
      /\ LoopsOf(as, fs) = l
  BY DEF Shows
<1>2. PICK gs \in Seq(Frames), f \in Frames :
        /\ gs = Front(fs) /\ f = fs[Len(fs)] /\ fs = Append(gs, f)
        /\ \A k \in DOMAIN gs : k \in DOMAIN fs /\ gs[k] = fs[k]
  <2>1. fs[Len(fs)] \in Frames /\ fs = Append(Front(fs), fs[Len(fs)])
    BY <1>1, FrontAndLast
  <2>2. /\ Front(fs) \in Seq(Frames) /\ Len(fs) \in Nat \ {0} /\ DOMAIN fs = 1..Len(fs)
        /\ DOMAIN Front(fs) = 1..Len(fs) - 1
        /\ \A n \in DOMAIN Front(fs) : Front(fs)[n] = fs[n]
    BY <1>1, FrontParts
  <2>3. \A k \in DOMAIN Front(fs) : k \in DOMAIN fs
    BY <2>2
  <2>. QED
    BY <2>1, <2>2, <2>3
<1>3. PICK m : m = LoopsOf(as, gs) /\ m \in Seq(LoopSet(as, Frames))
  BY PartsAre
<1>4. Shows(as, gs, m)
  BY <1>1, <1>2, <1>3 DEF Shows
<1>5. LoopIn(as, f) \in LoopSet(as, Frames)
  BY DEF LoopSet
<1>6. /\ f.op # "foreach" => LoopsOf(as, Append(gs, f)) = m
      /\ f.op = "foreach" => LoopsOf(as, Append(gs, f)) = Append(m, LoopIn(as, f))
  BY <1>3, LoopsPush
<1>7. /\ f.op # "foreach" => l = m
      /\ f.op = "foreach" => l = Append(m, LoopIn(as, f))
  BY <1>1, <1>2, <1>6
<1>. QED
  BY <1>2, <1>3, <1>4, <1>5, <1>7

\* The innermost frame, which is no loop and no resize or the same resize, goes on.
LEMMA ShowsTop ==
  ASSUME NEW as, NEW fs, NEW l, Shows(as, fs, l), fs # <<>>, NEW g \in Frames,
         g.op = fs[Len(fs)].op, g.id = fs[Len(fs)].id, g.size = fs[Len(fs)].size, g.op # "foreach"
  PROVE  Shows(as, [fs EXCEPT ![Len(fs)] = g], l)
<1>1. fs \in Seq(Frames) /\ Len(fs) \in DOMAIN fs
  <2>1. fs \in Seq(Frames)
    BY DEF Shows
  <2>2. Len(fs) \in Nat \ {0} /\ DOMAIN fs = 1..Len(fs)
    BY <2>1, FrontParts
  <2>. QED
    BY <2>1, <2>2
<1>2. PICK f : f = fs[Len(fs)] /\ g.op = f.op /\ g.id = f.id /\ g.size = f.size
  OBVIOUS
<1>3. /\ f.op \in {"foreach", "shrink"} => f.id \in Id /\ as[f.id] # NoArray
      /\ f.op = "shrink" => Known([as[f.id].rgsabound EXCEPT ![1] = f.size])
  <2>1. PICK n \in DOMAIN fs : n = Len(fs)
    BY <1>1
  <2>2. f = fs[n]
    BY <1>2, <2>1
  <2>3. /\ fs[n].op \in {"foreach", "shrink"} => fs[n].id \in Id /\ as[fs[n].id] # NoArray
        /\ fs[n].op = "shrink" => Known([as[fs[n].id].rgsabound EXCEPT ![1] = fs[n].size])
    BY DEF Shows
  <2>. QED
    BY <2>2, <2>3
<1>4. Shows(as, Front(fs), l)
  <2>1. PICK m : /\ Shows(as, Front(fs), m)
                 /\ m \in Seq(LoopSet(as, Frames)) /\ LoopIn(as, fs[Len(fs)]) \in LoopSet(as, Frames)
                 /\ fs[Len(fs)].op # "foreach" => l = m
                 /\ fs[Len(fs)].op = "foreach" => l = Append(m, LoopIn(as, fs[Len(fs)]))
    BY ShowsPop
  <2>. QED
    BY <1>2, <2>1
<1>5. Shows(as, Append(Front(fs), g), l)
  <2>1. /\ g.op \in {"foreach", "shrink"} => g.id \in Id /\ as[g.id] # NoArray
        /\ g.op = "shrink" => Known([as[g.id].rgsabound EXCEPT ![1] = g.size])
    BY <1>2, <1>3
  <2>2. Shows(as, Append(Front(fs), g), IF g.op = "foreach" THEN Append(l, LoopIn(as, g)) ELSE l)
    BY <1>4, <2>1, ShowsPush
  <2>. QED
    BY <2>2
<1>6. Append(Front(fs), g) = [fs EXCEPT ![Len(fs)] = g]
  BY <1>1, LastReplaced
<1>. QED
  BY <1>5, <1>6

-------------------------------------------------------------------------------
\* What the arrays as hold, by index.
ElemsOf(as) == [id \in Id |-> IF as[id] # NoArray THEN Contents(as[id]) ELSE NoArray]

\* The invariant that ArrayContents needs besides IInv.
Shown == Shows(array, frames, Loops)

\* A step of ArrayContents, or none.
ContentStep == [Abstract!Next]_(Abstract!contentsVars)
Refines == Shown' /\ ContentStep

\* What VbArrays calls the elements and the loops.
LEMMA ShownParts ==
  /\ Elems = ElemsOf(array) /\ Loops = LoopsOf(array, frames)
  /\ Elems' = ElemsOf(array') /\ Loops' = LoopsOf(array', frames')
<1>1. Elems = ElemsOf(array) /\ Elems' = ElemsOf(array')
  BY DEF Elems, ElemsOf, Allocated
<1>2. Loops = LoopsOf(array, frames)
  BY DEF Loops, LoopsOf, Part, LoopIn, Loop
<1>3. Loops' = LoopsOf(array', frames')
  BY DEF Loops, LoopsOf, Part, LoopIn, Loop
<1>. QED
  BY <1>1, <1>2, <1>3

\* The loops of the next state.
LEMMA ShownNext ==
  ASSUME NEW l, Shows(array', frames', l)
  PROVE  Loops' = l /\ Shown'
<1>1. LoopsOf(array', frames') = l
  BY DEF Shows
<1>. QED
  BY <1>1, ShownParts DEF Shown

\* One array changes, and its contents.
LEMMA ElemsChanged ==
  ASSUME IInv, NEW id \in Id, NEW sa, array' = [array EXCEPT ![id] = sa]
  PROVE  /\ sa # NoArray => Elems' = [Elems EXCEPT ![id] = Contents(sa)]
         /\ sa = NoArray => Elems' = [Elems EXCEPT ![id] = NoArray]
<1>1. array \in [Id -> SafeArrays \cup {NoArray}]
  BY Parts DEF IInv
<1>. QED
  BY <1>1, ShownParts DEF ElemsOf

\* What IInv and Shown say of one array.
LEMMA WholeArray ==
  ASSUME IInv, Shown
  PROVE  /\ array \in [Id -> SafeArrays \cup {NoArray}] /\ frames \in Seq(Frames)
         /\ \A id \in Id : array[id] # NoArray =>
              Whole(array[id]) /\ array[id] \in SafeArrays /\ Elems[id] = Contents(array[id])
                /\ Elems[id] # NoArray
         /\ \A id \in Id : array[id] = NoArray => Elems[id] = NoArray
         /\ DOMAIN Elems = Id /\ Elems = [i \in Id |-> Elems[i]]
<1>1. /\ array \in [Id -> SafeArrays \cup {NoArray}] /\ frames \in Seq(Frames)
      /\ \A id \in Id : array[id] # NoArray =>
           array[id] \in SafeArrays /\ Len(array[id].pvData) = CellCount(array[id])
  BY Parts DEF IInv
<1>2. \A id \in Id : array[id] # NoArray => Known(array[id].rgsabound)
  BY DEF Shown, Shows
<1>3. \A id \in Id : array[id] # NoArray => Whole(array[id])
  BY <1>1, <1>2 DEF Whole
<1>4. \A id \in Id : array[id] # NoArray => Contents(array[id]) # NoArray
  BY <1>3, ContentsAre
<1>5. Elems = ElemsOf(array)
  BY ShownParts
<1>. QED
  BY <1>1, <1>3, <1>4, <1>5 DEF ElemsOf

-------------------------------------------------------------------------------
\* The steps of ArrayContents, one by one.
LEMMA StutterStep ==
  ASSUME Elems' = Elems, Loops' = Loops
  PROVE  ContentStep
BY DEF ContentStep, Abstract!contentsVars

\* The contents of one array change.
LEMMA ChangeStep ==
  ASSUME Loops' = Loops, NEW id \in Id, Abstract!Change(id), Elems = [i \in Id |-> Elems[i]],
         NEW new, Elems' = [Elems EXCEPT ![id] = new]
  PROVE  ContentStep
<1>1. CASE new = Elems[id]
  <2>1. Elems' = Elems
    BY <1>1
  <2>. QED
    BY <2>1, StutterStep
<1>2. CASE new # Elems[id]
  <2>1. Elems'[id] # Elems[id]
    BY <1>2
  <2>2. Abstract!Next
    BY <2>1 DEF Abstract!Next
  <2>. QED
    BY <2>2 DEF ContentStep
<1>. QED
  BY <1>1, <1>2

\* An element changes.
LEMMA WriteStep ==
  ASSUME Loops' = Loops, NEW id \in Id, Elems = [i \in Id |-> Elems[i]], Elems[id] # NoArray,
         NEW new, NEW x \in Elements, Wrote(Elems[id], new, x), Elems' = [Elems EXCEPT ![id] = new]
  PROVE  ContentStep
<1>1. CASE new = Elems[id]
  <2>1. Elems' = Elems
    BY <1>1
  <2>. QED
    BY <2>1, StutterStep
<1>2. CASE new # Elems[id]
  <2>1. PICK i \in DOMAIN Elems[id] : new = [Elems[id] EXCEPT ![i] = x]
    BY <1>2 DEF Wrote
  <2>2. Elems' = [Elems EXCEPT ![id][i] = x]
    BY <2>1
  <2>3. Abstract!Write(id, i, x)
    BY <2>2 DEF Abstract!Write
  <2>4. Abstract!Change(id)
    BY <2>1, <2>3 DEF Abstract!Change, Abstract!Exists
  <2>. QED
    BY <2>4, ChangeStep
<1>. QED
  BY <1>1, <1>2

\* An array is made.
LEMMA NewStep ==
  ASSUME Loops' = Loops, NEW id \in Id, Elems = [i \in Id |-> Elems[i]], Elems[id] = NoArray,
         NEW s \in AllShapes, NEW new, new = [i \in Abstract!Indices(s) |-> Empty],
         Elems' = [Elems EXCEPT ![id] = new]
  PROVE  ContentStep
<1>1. Abstract!New(id, s)
  BY DEF Abstract!New, Abstract!Exists
<1>2. Abstract!Change(id)
  BY <1>1 DEF Abstract!Change, AllShapes
<1>. QED
  BY <1>2, ChangeStep

\* An array gets another size.
LEMMA ResizeStep ==
  ASSUME Loops' = Loops, NEW id \in Id, Elems = [i \in Id |-> Elems[i]], Elems[id] # NoArray,
         \A k \in DOMAIN Loops : Loops[k].id # id,
         NEW s \in AllShapes, NEW new,
         new = [i \in Abstract!Indices(s) |-> IF i \in DOMAIN Elems[id] THEN Elems[id][i] ELSE Empty],
         Elems' = [Elems EXCEPT ![id] = new]
  PROVE  ContentStep
<1>1. ~Abstract!LoopedOver(id)
  BY DEF Abstract!LoopedOver
<1>2. Elems' = [Elems EXCEPT ![id] =
         [i \in Abstract!Indices(s) |-> IF i \in DOMAIN @ THEN @[i] ELSE Empty]]
  OBVIOUS
<1>3. Abstract!Resize(id, s)
  BY <1>1, <1>2 DEF Abstract!Resize, Abstract!Exists
<1>4. Abstract!Change(id)
  BY <1>3 DEF Abstract!Change, AllShapes
<1>. QED
  BY <1>4, ChangeStep

\* An array is copied.
LEMMA CopyStep ==
  ASSUME Loops' = Loops, NEW id \in Id, Elems = [i \in Id |-> Elems[i]], Elems[id] = NoArray,
         NEW from \in Id, Elems[from] # NoArray, Elems' = [Elems EXCEPT ![id] = Elems[from]]
  PROVE  ContentStep
<1>1. Abstract!Copy(id, from)
  BY DEF Abstract!Copy, Abstract!Exists
<1>2. Abstract!Change(id)
  BY <1>1 DEF Abstract!Change
<1>. QED
  BY <1>2, ChangeStep

\* An array is freed.
LEMMA FreeStep ==
  ASSUME Loops' = Loops, NEW id \in Id, Elems = [i \in Id |-> Elems[i]],
         \A k \in DOMAIN Loops : Loops[k].id # id, Elems' = [Elems EXCEPT ![id] = NoArray]
  PROVE  ContentStep
<1>1. Abstract!Free(id)
  BY DEF Abstract!Free, Abstract!LoopedOver
<1>2. Abstract!Change(id)
  BY <1>1 DEF Abstract!Change
<1>. QED
  BY <1>2, ChangeStep

\* A For Each begins, over an array that is there or over a copy of one.
LEMMA BeginStep ==
  ASSUME NEW id \in Id, Elems'[id] # NoArray, Loops' = Append(Loops, Abstract!Loop(id)),
         \/ Elems' = Elems
         \/ \E from \in Id : /\ Elems[id] = NoArray /\ Elems[from] # NoArray
                             /\ Elems' = [Elems EXCEPT ![id] = Elems[from]]
  PROVE  ContentStep
<1>1. Abstract!Begin(id)
  BY DEF Abstract!Begin
<1>2. Elems' = Elems \/ \E from \in Id : Abstract!Copy(id, from)
  BY DEF Abstract!Copy, Abstract!Exists
<1>3. Abstract!Next
  BY <1>1, <1>2 DEF Abstract!Next
<1>. QED
  BY <1>3 DEF ContentStep

\* A list with another last element.
LEMMA LastOf ==
  ASSUME NEW T, NEW m \in Seq(T), NEW a \in T, NEW b \in T, NEW l, l = Append(m, a)
  PROVE  /\ l # <<>> /\ l[Len(l)] = a /\ SubSeq(l, 1, Len(l) - 1) = m
         /\ [l EXCEPT ![Len(l)] = b] = Append(m, b)
<1>1. PICK n \in Nat : n = Len(m) /\ DOMAIN m = 1..n
  BY LenProperties
<1>2. l \in Seq(T) /\ Len(l) = n + 1 /\ l[n + 1] = a /\ \A k \in 1..n : l[k] = m[k]
  <2>1. /\ Append(m, a) \in Seq(T) /\ Len(Append(m, a)) = Len(m) + 1 /\ Append(m, a)[Len(m) + 1] = a
        /\ \A k \in DOMAIN m : Append(m, a)[k] = m[k]
    BY AppendParts
  <2>. QED
    BY <1>1, <2>1
<1>3. l # <<>>
  BY <1>2, EmptySeq
<1>4. PICK f \in Seq(T) : f = Front(l) /\ Len(f) = n /\ \A k \in 1..n : f[k] = l[k]
  <2>1. /\ Front(l) \in Seq(T) /\ DOMAIN Front(l) = 1..Len(l) - 1 /\ Len(Front(l)) = Len(l) - 1
        /\ \A k \in DOMAIN Front(l) : Front(l)[k] = l[k]
    BY <1>2, <1>3, FrontParts
  <2>2. Len(l) - 1 = n
    BY <1>2
  <2>. QED
    BY <2>1, <2>2
<1>5. f = m
  <2>1. Len(f) = Len(m) /\ \A k \in 1..Len(f) : f[k] = m[k]
    BY <1>1, <1>2, <1>4
  <2>. QED
    BY <2>1, SeqEqual
<1>6. Append(Front(l), b) = [l EXCEPT ![Len(l)] = b]
  <2>1. PICK s \in Seq(T) : s = l /\ s # <<>>
    BY <1>2, <1>3
  <2>2. Append(Front(s), b) = [s EXCEPT ![Len(s)] = b]
    BY ONLY b \in T, s \in Seq(T), <2>1, LastReplaced
  <2>. QED
    BY <2>1, <2>2
<1>. QED
  BY <1>2, <1>3, <1>4, <1>5, <1>6 DEF Front

\* A For Each goes on to another element.
LEMMA VisitStep ==
  ASSUME Elems' = Elems, NEW T, NEW m \in Seq(T), NEW a \in T, NEW b \in T,
         Loops = Append(m, a), Loops' = Append(m, b), NEW id, NEW S, NEW x, NEW d, NEW i, NEW y,
         a = [id |-> id, seen |-> S, got |-> x, done |-> d],
         b = [id |-> id, seen |-> S \cup {i}, got |-> y, done |-> d],
         i \in DOMAIN Elems[id], i \notin S, y = Elems[id][i]
  PROVE  ContentStep
<1>1. /\ Loops # <<>> /\ Loops[Len(Loops)] = a
      /\ [Loops EXCEPT ![Len(Loops)] = b] = Append(m, b)
  <2>1. PICK l : l = Loops
    OBVIOUS
  <2>2. l # <<>> /\ l[Len(l)] = a /\ [l EXCEPT ![Len(l)] = b] = Append(m, b)
    BY ONLY m \in Seq(T), a \in T, b \in T, <2>1, Loops = Append(m, a), LastOf
  <2>. QED
    BY <2>1, <2>2
<1>2. a.id = id /\ a.seen = S /\ [a EXCEPT !.seen = @ \cup {i}, !.got = y] = b
  <2>1. PICK z, r : z = S \cup {i} /\ r = [a EXCEPT !.seen = z]
    OBVIOUS
  <2>2. r = [id |-> id, seen |-> z, got |-> x, done |-> d]
    BY <2>1
  <2>3. [r EXCEPT !.got = y] = [id |-> id, seen |-> z, got |-> y, done |-> d]
    BY ONLY <2>2
  <2>4. [a EXCEPT !.seen = z, !.got = y] = [r EXCEPT !.got = y]
    BY ONLY <2>1
  <2>5. a.id = id /\ a.seen = S
    OBVIOUS
  <2>. QED
    BY <2>1, <2>3, <2>4, <2>5
<1>3. Abstract!Visit(i)
  <2>1. PICK l : l = Loops[Len(Loops)] /\ l = a
    BY <1>1
  <2>2. i \in DOMAIN Elems[l.id] \ l.seen
    BY <1>2, <2>1
  <2>3. [l EXCEPT !.seen = @ \cup {i}, !.got = Elems[l.id][i]] = b
    BY <1>2, <2>1
  <2>4. Loops' = [Loops EXCEPT ![Len(Loops)] =
                    [l EXCEPT !.seen = @ \cup {i}, !.got = Elems[l.id][i]]]
    BY <1>1, <2>3
  <2>. QED
    BY <2>1, <2>2, <2>4 DEF Abstract!Visit
<1>4. Abstract!Next
  BY <1>1, <1>2, <1>3 DEF Abstract!Next
<1>. QED
  BY <1>4 DEF ContentStep

\* It has visited all elements.
LEMMA FinishStep ==
  ASSUME Elems' = Elems, NEW T, NEW m \in Seq(T), NEW a \in T, NEW b \in T,
         Loops = Append(m, a), Loops' = Append(m, b), NEW id, NEW S, NEW x, NEW d,
         a = [id |-> id, seen |-> S, got |-> x, done |-> d],
         b = [id |-> id, seen |-> S, got |-> Empty, done |-> TRUE],
         S = DOMAIN Elems[id]
  PROVE  ContentStep
<1>1. /\ Loops # <<>> /\ Loops[Len(Loops)] = a
      /\ [Loops EXCEPT ![Len(Loops)] = b] = Append(m, b)
  <2>1. PICK l : l = Loops
    OBVIOUS
  <2>2. l # <<>> /\ l[Len(l)] = a /\ [l EXCEPT ![Len(l)] = b] = Append(m, b)
    BY ONLY m \in Seq(T), a \in T, b \in T, <2>1, Loops = Append(m, a), LastOf
  <2>. QED
    BY <2>1, <2>2
<1>2. a.id = id /\ a.seen = S /\ [a EXCEPT !.got = Empty, !.done = TRUE] = b
  <2>1. PICK r, t : r = [a EXCEPT !.got = Empty] /\ t = TRUE
    OBVIOUS
  <2>2. r = [id |-> id, seen |-> S, got |-> Empty, done |-> d]
    BY <2>1
  <2>3. [r EXCEPT !.done = t] = [id |-> id, seen |-> S, got |-> Empty, done |-> t]
    BY ONLY <2>2
  <2>4. [a EXCEPT !.got = Empty, !.done = t] = [r EXCEPT !.done = t]
    BY ONLY <2>1
  <2>5. a.id = id /\ a.seen = S
    OBVIOUS
  <2>. QED
    BY <2>1, <2>3, <2>4, <2>5
<1>3. Abstract!Finish
  BY <1>1, <1>2 DEF Abstract!Finish
<1>4. Abstract!Next
  BY <1>1, <1>3 DEF Abstract!Next
<1>. QED
  BY <1>4 DEF ContentStep

\* It is over.
LEMMA LeaveStep ==
  ASSUME Elems' = Elems, NEW T, NEW m \in Seq(T), NEW a \in T, Loops = Append(m, a), Loops' = m
  PROVE  ContentStep
<1>1. Loops # <<>> /\ SubSeq(Loops, 1, Len(Loops) - 1) = m
  BY LastOf
<1>2. Abstract!Leave
  BY <1>1 DEF Abstract!Leave
<1>3. Abstract!Next
  BY <1>1, <1>2 DEF Abstract!Next
<1>. QED
  BY <1>3 DEF ContentStep

-------------------------------------------------------------------------------
\* How the steps of VbArrays show.  Nothing shows while the arrays and loops stay.
LEMMA Unseen ==
  ASSUME Shown, array' = array, Shows(array', frames', Loops)
  PROVE  Refines
<1>1. Loops' = Loops /\ Shown'
  BY ShownNext
<1>2. Elems' = Elems
  BY ShownParts
<1>. QED
  BY <1>1, <1>2, StutterStep DEF Refines

\* Locks do not show.
LEMMA LockUnseen ==
  ASSUME IInv, Shown, NEW id \in Id, array[id] # NoArray, NEW sb \in SafeArrays,
         sb.rgsabound = array[id].rgsabound, sb.pvData = array[id].pvData,
         array' = [array EXCEPT ![id] = sb]
  PROVE  Elems' = Elems
<1>1. /\ array \in [Id -> SafeArrays \cup {NoArray}]
      /\ Whole(array[id]) /\ Elems[id] = Contents(array[id]) /\ Elems = [i \in Id |-> Elems[i]]
  BY WholeArray
<1>2. Contents(sb) = Elems[id]
  BY <1>1, ContentsSame
<1>3. sb # NoArray
  BY ArrayAssumption
<1>4. Elems' = [Elems EXCEPT ![id] = Contents(sb)]
  BY <1>3, ElemsChanged
<1>. QED
  BY <1>1, <1>2, <1>4

\* A cell gets an element.
LEMMA CellSeen ==
  ASSUME IInv, Shown, NEW id \in Id, array[id] # NoArray, NEW sb \in SafeArrays, NEW c,
         NEW x \in Elements, sb.rgsabound = array[id].rgsabound,
         sb.pvData = [array[id].pvData EXCEPT ![c] = x],
         array' = [array EXCEPT ![id] = sb], Shows(array', frames', Loops)
  PROVE  Refines
<1>1. /\ array \in [Id -> SafeArrays \cup {NoArray}]
      /\ Whole(array[id]) /\ Elems[id] = Contents(array[id]) /\ Elems = [i \in Id |-> Elems[i]]
      /\ Elems[id] # NoArray
  BY WholeArray
<1>2. Wrote(Elems[id], Contents(sb), x)
  <2>1. PICK sa : sa = array[id]
    OBVIOUS
  <2>2. Whole(sa) /\ sb.rgsabound = sa.rgsabound /\ sb.pvData = [sa.pvData EXCEPT ![c] = x]
    BY <1>1, <2>1
  <2>3. Wrote(Contents(sa), Contents(sb), x)
    BY <2>2, ContentsWritten
  <2>. QED
    BY <1>1, <2>1, <2>3
<1>3. sb # NoArray
  BY ArrayAssumption
<1>5. Elems' = [Elems EXCEPT ![id] = Contents(sb)]
  BY <1>3, ElemsChanged
<1>6. Loops' = Loops /\ Shown'
  BY ShownNext
<1>. QED
  BY <1>1, <1>2, <1>5, <1>6, WriteStep DEF Refines

\* An array is made.
LEMMA NewSeen ==
  ASSUME IInv, Shown, NEW id \in Id, array[id] = NoArray, NEW s \in AllShapes,
         array' = [array EXCEPT ![id] = SafeArrayCreate(s)], Shows(array', frames', Loops)
  PROVE  Refines
<1>1. /\ array \in [Id -> SafeArrays \cup {NoArray}] /\ Elems = [i \in Id |-> Elems[i]]
      /\ Elems[id] = NoArray
  BY WholeArray
<1>2. PICK sb : sb = SafeArrayCreate(s)
  OBVIOUS
<1>2a. sb \in SafeArrays /\ Contents(sb) = [i \in Abstract!Indices(s) |-> Empty]
  BY <1>2, ContentsCreated DEF Whole
<1>3. sb # NoArray
  BY <1>2a, ArrayAssumption
<1>5. Elems' = [Elems EXCEPT ![id] = Contents(sb)]
  BY <1>2, <1>3, ElemsChanged
<1>6. Loops' = Loops /\ Shown'
  BY ShownNext
<1>. QED
  BY <1>1, <1>2a, <1>5, <1>6, NewStep DEF Refines

\* The contents of a copy.
LEMMA CopySeen ==
  ASSUME IInv, Shown, NEW id \in Id, array[id] = NoArray, NEW from \in Id, array[from] # NoArray,
         NEW sb \in SafeArrays,
         sb.rgsabound = array[from].rgsabound, sb.pvData = array[from].pvData,
         array' = [array EXCEPT ![id] = sb]
  PROVE  /\ Elems = [i \in Id |-> Elems[i]] /\ Elems[id] = NoArray /\ Elems[from] # NoArray
         /\ Elems' = [Elems EXCEPT ![id] = Elems[from]]
<1>1. /\ array \in [Id -> SafeArrays \cup {NoArray}] /\ Elems = [i \in Id |-> Elems[i]]
      /\ Elems[id] = NoArray /\ Elems[from] # NoArray
      /\ Whole(array[from]) /\ Elems[from] = Contents(array[from])
  BY WholeArray
<1>2. Contents(sb) = Elems[from]
  BY <1>1, ContentsSame
<1>3. sb # NoArray
  BY ArrayAssumption
<1>4. Elems' = [Elems EXCEPT ![id] = Contents(sb)]
  BY <1>3, ElemsChanged
<1>. QED
  BY <1>1, <1>2, <1>4

\* No loop is over an array that no frame has.
LEMMA NotLooped ==
  ASSUME NEW as, NEW fs, NEW l, Shows(as, fs, l), NEW id, \A k \in DOMAIN fs : fs[k].id # id
  PROVE  \A k \in DOMAIN l : l[k].id # id
<1>. SUFFICES ASSUME NEW k \in DOMAIN l PROVE l[k].id # id
  OBVIOUS
<1>. DEFINE R == {fs[j] : j \in DOMAIN fs}
<1>0. fs \in Seq(Frames) /\ LoopsOf(as, fs) = l
  BY DEF Shows
<1>1. PICK n \in Nat : n = Len(fs) /\ DOMAIN fs = 1..n /\ fs \in [1..n -> Frames]
  BY <1>0, LenProperties
<1>2. fs \in [1..n -> R]
  BY <1>1
<1>3. fs \in Seq(R)
  <2>. HIDE DEF R
  <2>. QED
    BY <1>2, FunctionIsSeq
<1>4. PICK T : T = LoopSet(as, R) /\ l \in Seq(T)
  BY <1>0, <1>3, PartsAre
<1>5. l[k] \in T
  <2>1. PICK m \in Nat : DOMAIN l = 1..m /\ l \in [1..m -> T]
    BY <1>4, LenProperties
  <2>2. k \in 1..m
    BY <1>4, <2>1
  <2>. QED
    BY <2>1, <2>2
<1>6. PICK f \in R : l[k] = LoopIn(as, f)
  BY <1>4, <1>5 DEF LoopSet
<1>7. l[k].id = f.id
  BY <1>6 DEF LoopIn
<1>. QED
  BY <1>4, <1>6, <1>7

-------------------------------------------------------------------------------
\* An array is freed that no loop is over.
LEMMA FreeSeen ==
  ASSUME IInv, Shown, NEW id \in Id, array' = [array EXCEPT ![id] = NoArray],
         Shows(array', frames', Loops), \A k \in DOMAIN Loops : Loops[k].id # id
  PROVE  Refines
<1>1. Elems = [i \in Id |-> Elems[i]]
  BY WholeArray
<1>2. Elems' = [Elems EXCEPT ![id] = NoArray]
  BY ElemsChanged
<1>3. Loops' = Loops /\ Shown'
  BY ShownNext
<1>. QED
  BY <1>1, <1>2, <1>3, FreeStep DEF Refines

\* An array that no loop is over gets another size.
LEMMA ResizeSeen ==
  ASSUME IInv, Shown, NEW id \in Id, array[id] # NoArray, NEW m \in Nat, NEW sb \in SafeArrays,
         Known([array[id].rgsabound EXCEPT ![1] = m]),
         sb.rgsabound = [array[id].rgsabound EXCEPT ![1] = m],
         sb.pvData = Resized(array[id], m).pvData, array' = [array EXCEPT ![id] = sb],
         Shows(array', frames', Loops), \A k \in DOMAIN Loops : Loops[k].id # id
  PROVE  Refines
<1>1. PICK sa : sa = array[id]
  OBVIOUS
<1>2. PICK s \in AllShapes : [sa.rgsabound EXCEPT ![1] = m] = Reverse(s)
  BY <1>1 DEF Known
<1>3. /\ Elems = [i \in Id |-> Elems[i]] /\ Elems[id] # NoArray
      /\ Whole(sa) /\ Elems[id] = Contents(sa)
  BY <1>1, WholeArray
<1>4. Contents(sb) = [i \in Abstract!Indices(s) |->
                        IF i \in DOMAIN Contents(sa) THEN Contents(sa)[i] ELSE Empty]
  BY <1>1, <1>2, <1>3, ContentsResized
<1>5. PICK new : new = Contents(sb)
  OBVIOUS
<1>6. new = [i \in Abstract!Indices(s) |-> IF i \in DOMAIN Elems[id] THEN Elems[id][i] ELSE Empty]
  BY <1>3, <1>4, <1>5
<1>7. sb # NoArray
  BY ArrayAssumption
<1>8. Elems' = [Elems EXCEPT ![id] = new]
  BY <1>5, <1>7, ElemsChanged
<1>9. Loops' = Loops /\ Shown'
  BY ShownNext
<1>. QED
  BY <1>3, <1>6, <1>8, <1>9, ResizeStep DEF Refines

\* The bounds and the cells of what the model makes of an array.
LEMMA BoundsAndCells ==
  ASSUME NEW sa \in SafeArrays
  PROVE  /\ \A t \in {Locked(sa), Unlocked(sa), SafeArrayCopy(sa)} :
              t.rgsabound = sa.rgsabound /\ t.pvData = sa.pvData
         /\ \A m \in Nat : Resized(sa, m).rgsabound = [sa.rgsabound EXCEPT ![1] = m]
         /\ \A c, x : /\ [sa EXCEPT !.pvData[c] = x].rgsabound = sa.rgsabound
                      /\ [sa EXCEPT !.pvData[c] = x].pvData = [sa.pvData EXCEPT ![c] = x]
<1>1. /\ Locked(sa).rgsabound = sa.rgsabound /\ Locked(sa).pvData = sa.pvData
      /\ Unlocked(sa).rgsabound = sa.rgsabound /\ Unlocked(sa).pvData = sa.pvData
      /\ SafeArrayCopy(sa).rgsabound = sa.rgsabound /\ SafeArrayCopy(sa).pvData = sa.pvData
  BY DEF Locked, Unlocked, SafeArrayCopy, SafeArrays
<1>2. ASSUME NEW m \in Nat PROVE Resized(sa, m).rgsabound = [sa.rgsabound EXCEPT ![1] = m]
  <2>1. PICK b, d : /\ b = [sa.rgsabound EXCEPT ![1] = m]
                    /\ d = [c \in 1..Product(b) |->
                              IF c \in DOMAIN sa.pvData THEN sa.pvData[c] ELSE Empty]
    OBVIOUS
  <2>2. Resized(sa, m) = [sa EXCEPT !.rgsabound = b, !.pvData = d]
    BY <2>1 DEF Resized
  <2>. QED
    BY <2>1, <2>2 DEF SafeArrays
<1>3. ASSUME NEW c, NEW x
      PROVE  /\ [sa EXCEPT !.pvData[c] = x].rgsabound = sa.rgsabound
             /\ [sa EXCEPT !.pvData[c] = x].pvData = [sa.pvData EXCEPT ![c] = x]
  BY DEF SafeArrays
<1>. QED
  BY <1>1, <1>2, <1>3

\* A frame that is no loop ends.
LEMMA ShowsLess ==
  ASSUME NEW as, NEW fs, NEW l, Shows(as, fs, l), fs # <<>>, fs[Len(fs)].op # "foreach"
  PROVE  Shows(as, Front(fs), l)
<1>1. PICK m : /\ Shows(as, Front(fs), m)
               /\ m \in Seq(LoopSet(as, Frames)) /\ LoopIn(as, fs[Len(fs)]) \in LoopSet(as, Frames)
               /\ fs[Len(fs)].op # "foreach" => l = m
               /\ fs[Len(fs)].op = "foreach" => l = Append(m, LoopIn(as, fs[Len(fs)]))
  BY ShowsPop
<1>. QED
  BY <1>1

\* A frame that is no loop and no resize begins.
LEMMA ShowsMore ==
  ASSUME NEW as, NEW fs, NEW l, Shows(as, fs, l), NEW f \in Frames, f.op \notin {"foreach", "shrink"}
  PROVE  Shows(as, Append(fs, f), l)
<1>1. Shows(as, Append(fs, f), IF f.op = "foreach" THEN Append(l, LoopIn(as, f)) ELSE l)
  BY ShowsPush
<1>. QED
  BY <1>1

\* The innermost frame goes on to its next cell.
LEMMA ShowsAdvance ==
  ASSUME NEW as, NEW vs, NEW fs, Sound(as, vs, fs), NEW l, Shows(as, fs, l), fs # <<>>,
         fs[Len(fs)].op \in Emptying
  PROVE  Shows(as, [fs EXCEPT ![Len(fs)].pos = @ + 1], l)
<1>. DEFINE f == fs[Len(fs)]
            g == [f EXCEPT !.pos = @ + 1]
<1>1. f \in Frames /\ fs \in Seq(Frames) /\ Len(fs) \in DOMAIN fs
  <2>1. fs \in Seq(Frames) /\ DOMAIN fs = 1..Len(fs)
    BY Parts
  <2>2. f \in Frames /\ Len(fs) \in Nat \ {0}
    BY TopParts
  <2>. QED
    BY <2>1, <2>2
<1>2. /\ g \in Frames /\ g.op = f.op /\ g.id = f.id /\ g.size = f.size
      /\ g.op # "foreach"
  <2>1. f.pos + 1 \in Nat
    BY <1>1 DEF Frames
  <2>. QED
    BY <1>1, <2>1 DEF Frames, Emptying
<1>3. [fs EXCEPT ![Len(fs)].pos = @ + 1] = [fs EXCEPT ![Len(fs)] = g]
  BY <1>1
<1>. HIDE DEF g
<1>4. Shows(as, [fs EXCEPT ![Len(fs)] = g], l)
  BY <1>2, ShowsTop
<1>. QED
  BY <1>3, <1>4

-------------------------------------------------------------------------------
\* A cell is emptied or gets a value.
LEMMA CellStep ==
  ASSUME IInv, Shown, NEW id \in Id, array[id] # NoArray, NEW c, NEW x \in Elements,
         Shows(array, frames', Loops),
         array' = [array EXCEPT ![id].pvData[c] = x]
  PROVE  Refines
<1>1. array \in [Id -> SafeArrays \cup {NoArray}] /\ array[id] \in SafeArrays
  BY WholeArray
<1>2. PICK sa \in SafeArrays : sa = array[id]
  BY <1>1
<1>2a. PICK sb : sb = [sa EXCEPT !.pvData[c] = x]
  OBVIOUS
<1>2b. sb \in SafeArrays
  BY ONLY sa \in SafeArrays, x \in Elements, <1>2a, CellParts
<1>2c. sb.rgsabound = sa.rgsabound /\ sb.pvData = [sa.pvData EXCEPT ![c] = x]
  BY ONLY sa \in SafeArrays, <1>2a, BoundsAndCells
<1>3. array' = [array EXCEPT ![id] = sb]
  BY <1>1, <1>2, <1>2a
<1>4. sb # NoArray
  BY <1>2b, ArrayAssumption
<1>5. Shows([array EXCEPT ![id] = sb], frames', Loops)
  BY <1>2, <1>2b, <1>2c, <1>4, ShowsArray
<1>6. Shows(array', frames', Loops)
  BY <1>3, <1>5
<1>7. sb.rgsabound = array[id].rgsabound /\ sb.pvData = [array[id].pvData EXCEPT ![c] = x]
  BY <1>2, <1>2c
<1>. QED
  BY ONLY IInv, Shown, id \in Id, array[id] # NoArray, x \in Elements, <1>2b, <1>3, <1>6, <1>7, CellSeen

\* A cell is emptied.
LEMMA ClearCellSeen == IInv /\ Shown /\ ClearCell => Refines
<1>. SUFFICES ASSUME IInv, Shown, ClearCell PROVE Refines
  OBVIOUS
<1>1. Sound(array, var, frames)
  BY DEF IInv
<1>2. frames # <<>> /\ Top.op \in Emptying /\ Top = frames[Len(frames)]
  BY TopIsFront DEF ClearCell
<1>3. FrameSound(array, var, Top)
  BY <1>1, <1>2, TopParts
<1>4. Top.id \in Id /\ array[Top.id] # NoArray
  BY <1>2, <1>3, FrameHasArray
<1>5. /\ array' = [array EXCEPT ![Top.id].pvData[Top.pos] = Empty]
      /\ frames' = [frames EXCEPT ![Len(frames)].pos = @ + 1]
  BY DEF ClearCell, Advance
<1>6. Shows(array, [frames EXCEPT ![Len(frames)].pos = @ + 1], Loops)
  BY <1>1, <1>2, ShowsAdvance DEF Shown
<1>7. Empty \in Elements
  BY DEF Elements
<1>. QED
  BY <1>4, <1>5, <1>6, <1>7, CellStep

\* A Class_Terminate begins, which does not show.
LEMMA TerminatorRunsSeen == IInv /\ Shown /\ TerminatorRuns => Refines
<1>. SUFFICES ASSUME IInv, Shown, TerminatorRuns PROVE Refines
  OBVIOUS
<1>1. frames' = Append(frames, Script) /\ array' = array
  BY DEF TerminatorRuns, Push
<1>2. Shows(array, Append(frames, Script), Loops)
  BY ScriptTyped, ShowsMore DEF Shown
<1>. QED
  BY <1>1, <1>2, Unseen

\* A Class_Terminate is over, and the cell that it was in is emptied.
LEMMA TerminatorReturnsSeen == IInv /\ Shown /\ TerminatorReturns => Refines
<1>. SUFFICES ASSUME IInv, Shown, TerminatorReturns PROVE Refines
  OBVIOUS
<1>. DEFINE gs == Front(frames)
            f == gs[Len(gs)]
<1>1. Sound(array, var, frames) /\ LocksCounted(array, frames)
  BY DEF IInv
<1>2. frames # <<>> /\ frames[Len(frames)].op = "script" /\ Below = gs
  BY TopIsFront DEF TerminatorReturns
<1>3. ~IsLock(frames[Len(frames)])
  BY <1>2 DEF IsLock
<1>4. Sound(array, var, gs)
  BY <1>1, <1>2, <1>3, PopPlain
<1>5. gs # <<>>
  <2>1. /\ Above(frames, Len(frames)) /\ Len(frames) \in Nat \ {0} /\ Len(gs) = Len(frames) - 1
    BY <1>1, <1>2, TopParts
  <2>2. Len(frames) > 1
    BY <1>2, <2>1 DEF Above
  <2>3. Len(gs) # 0
    BY <2>1, <2>2
  <2>. HIDE DEF gs
  <2>. QED
    BY <2>3, EmptySeq
<1>6. Shows(array, gs, Loops)
  BY <1>2, ShowsLess DEF Shown
<1>7. IF f.op \in Emptying
      THEN /\ array' = [array EXCEPT ![f.id].pvData[f.pos] = Empty]
           /\ frames' = [gs EXCEPT ![Len(gs)].pos = @ + 1]
      ELSE frames' = gs /\ array' = array
  BY <1>2 DEF TerminatorReturns, Pop
<1>. HIDE DEF gs
<1>8. CASE f.op \in Emptying
  <2>1. FrameSound(array, var, f)
    BY <1>4, <1>5, TopParts
  <2>2. f.id \in Id /\ array[f.id] # NoArray
    BY <1>8, <2>1, FrameHasArray
  <2>3. Empty \in Elements
    BY DEF Elements
  <2>4. Shows(array, [gs EXCEPT ![Len(gs)].pos = @ + 1], Loops)
    BY <1>4, <1>5, <1>6, <1>8, ShowsAdvance
  <2>5. PICK hs : hs = [gs EXCEPT ![Len(gs)].pos = @ + 1]
    OBVIOUS
  <2>6. frames' = hs /\ array' = [array EXCEPT ![f.id].pvData[f.pos] = Empty] /\ Shows(array, hs, Loops)
    BY <1>7, <1>8, <2>4, <2>5
  <2>. QED
    BY <2>2, <2>3, <2>6, CellStep
<1>9. CASE f.op \notin Emptying
  BY <1>6, <1>7, <1>9, Unseen
<1>. QED
  BY <1>8, <1>9

\* The rest of an assignment to a variable does not show.
LEMMA AssignFinishedSeen == IInv /\ Shown /\ AssignFinished => Refines
<1>. SUFFICES ASSUME IInv, Shown, AssignFinished PROVE Refines
  OBVIOUS
<1>1. /\ frames # <<>> /\ frames[Len(frames)].op = "assign"
      /\ frames' = Front(frames) /\ array' = array
  BY TopIsFront DEF AssignFinished, Pop
<1>2. Shows(array, Front(frames), Loops)
  BY <1>1, ShowsLess DEF Shown
<1>. QED
  BY <1>1, <1>2, Unseen

\* The rest of an assignment to an element writes it.
LEMMA StoreFinishedSeen == IInv /\ Shown /\ StoreFinished => Refines
<1>. SUFFICES ASSUME IInv, Shown, StoreFinished PROVE Refines
  OBVIOUS
<1>. DEFINE f == frames[Len(frames)]
<1>1. Sound(array, var, frames)
  BY DEF IInv
<1>2. /\ frames # <<>> /\ f.op = "store" /\ frames' = Front(frames)
      /\ array' = [array EXCEPT ![f.id].pvData[f.pos] = f.value]
  BY TopIsFront DEF StoreFinished, Pop
<1>3. FrameSound(array, var, f)
  BY <1>1, <1>2, TopParts
<1>. HIDE DEF f
<1>4. f.id \in Id /\ array[f.id] # NoArray /\ f.value \in Elements
  BY <1>2, <1>3 DEF FrameSound
<1>. USE DEF f
<1>5. Shows(array, Front(frames), Loops)
  BY <1>2, ShowsLess DEF Shown
<1>. HIDE DEF f
<1>. QED
  BY <1>2, <1>4, <1>5, CellStep

-------------------------------------------------------------------------------
\* The innermost frame gives its lock back.
LEMMA TopUnlocked ==
  ASSUME IInv, Shown, frames # <<>>, IsLock(frames[Len(frames)]), NEW id, id = frames[Len(frames)].id,
         array' = [array EXCEPT ![id] = Unlocked(@)]
  PROVE  /\ id \in Id /\ array[id] # NoArray /\ Elems' = Elems
         /\ \A fs, l : Shows(array, fs, l) => Shows(array', fs, l)
<1>1. Sound(array, var, frames) /\ LocksCounted(array, frames)
  BY DEF IInv
<1>2. id \in Id /\ array[id] # NoArray
  <2>1. FrameSound(array, var, frames[Len(frames)])
    BY <1>1, TopParts
  <2>. QED
    BY <2>1, FrameHasArray DEF IsLock, Emptying
<1>3. PICK sa \in SafeArrays : sa = array[id] /\ Len(sa.pvData) = CellCount(sa)
  BY <1>1, <1>2, Parts
<1>4. PICK sb \in SafeArrays : sb = Unlocked(sa)
  <2>1. Unlocked(sa) \in SafeArrays
    BY <1>1, <1>3, PopLocked
  <2>. QED
    BY <2>1
<1>5. sb.rgsabound = sa.rgsabound /\ sb.pvData = sa.pvData
  <2>1. \A t \in {Locked(sa), Unlocked(sa), SafeArrayCopy(sa)} :
          t.rgsabound = sa.rgsabound /\ t.pvData = sa.pvData
    BY BoundsAndCells
  <2>. QED
    BY <1>4, <2>1
<1>6. array' = [array EXCEPT ![id] = sb]
  BY <1>3, <1>4
<1>7. sb # NoArray
  BY ArrayAssumption
<1>8. Elems' = Elems
  <2>1. sb.rgsabound = array[id].rgsabound /\ sb.pvData = array[id].pvData
    BY <1>3, <1>5
  <2>. QED
    BY ONLY IInv, Shown, <1>2, sb \in SafeArrays, <2>1, <1>6, LockUnseen
<1>9. ASSUME NEW fs, NEW l, Shows(array, fs, l) PROVE Shows(array', fs, l)
  <2>1. Shows([array EXCEPT ![id] = sb], fs, l)
    BY <1>2, <1>3, <1>5, <1>7, <1>9, ShowsArray
  <2>. QED
    BY ONLY <1>6, <2>1
<1>. QED
  BY <1>2, <1>8, <1>9

\* An Erase is over, which does not show.
LEMMA EraseFinishedSeen == IInv /\ Shown /\ EraseFinished => Refines
<1>. SUFFICES ASSUME IInv, Shown, EraseFinished PROVE Refines
  OBVIOUS
<1>1. /\ frames # <<>> /\ frames[Len(frames)].op = "erase" /\ frames' = Front(frames)
      /\ array' = [array EXCEPT ![frames[Len(frames)].id] = Unlocked(@)]
  BY TopIsFront DEF EraseFinished, Pop
<1>2. IsLock(frames[Len(frames)])
  BY <1>1 DEF IsLock
<1>3. Elems' = Elems /\ \A fs, l : Shows(array, fs, l) => Shows(array', fs, l)
  BY <1>1, <1>2, TopUnlocked
<1>4. Shows(array, Front(frames), Loops)
  BY <1>1, ShowsLess DEF Shown
<1>5. Shows(array', frames', Loops)
  BY <1>1, <1>3, <1>4
<1>6. Loops' = Loops /\ Shown'
  BY <1>5, ShownNext
<1>. QED
  BY <1>3, <1>6, StutterStep DEF Refines

\* No frame but the innermost is about an array that is destroyed or resized.
LEMMA NoLoopBelow ==
  ASSUME IInv, Shown, frames # <<>>, frames[Len(frames)].op \in {"destroy", "shrink"}
  PROVE  /\ Shows(array, Front(frames), Loops)
         /\ \A k \in DOMAIN Front(frames) : Front(frames)[k].id # frames[Len(frames)].id
         /\ \A k \in DOMAIN Loops : Loops[k].id # frames[Len(frames)].id
         /\ frames[Len(frames)].id \in Id /\ array[frames[Len(frames)].id] # NoArray
<1>1. Sound(array, var, frames)
  BY DEF IInv
<1>2. Shows(array, Front(frames), Loops)
  BY ShowsLess DEF Shown
<1>3. \A k \in DOMAIN Front(frames) : Front(frames)[k].id # frames[Len(frames)].id
  BY <1>1, TopParts
<1>4. \A k \in DOMAIN Loops : Loops[k].id # frames[Len(frames)].id
  <2>1. PICK fs, l, id : fs = Front(frames) /\ l = Loops /\ id = frames[Len(frames)].id
    OBVIOUS
  <2>2. Shows(array, fs, l) /\ \A k \in DOMAIN fs : fs[k].id # id
    BY <1>2, <1>3, <2>1
  <2>3. \A k \in DOMAIN l : l[k].id # id
    BY ONLY <2>2, NotLooped
  <2>. QED
    BY <2>1, <2>3
<1>5. FrameSound(array, var, frames[Len(frames)])
  BY <1>1, TopParts
<1>6. frames[Len(frames)].id \in Id /\ array[frames[Len(frames)].id] # NoArray
  BY <1>5, FrameHasArray DEF Emptying
<1>. QED
  BY <1>2, <1>3, <1>4, <1>6

\* An array is freed.
LEMMA DestroyFinishedSeen == IInv /\ Shown /\ DestroyFinished => Refines
<1>. SUFFICES ASSUME IInv, Shown, DestroyFinished PROVE Refines
  OBVIOUS
<1>1. PICK id : id = frames[Len(frames)].id
  OBVIOUS
<1>2. /\ frames # <<>> /\ frames[Len(frames)].op = "destroy" /\ frames' = Front(frames)
      /\ array' = [array EXCEPT ![id] = NoArray]
  BY <1>1, TopIsFront DEF DestroyFinished, Pop
<1>3. PICK fs : fs = Front(frames)
  OBVIOUS
<1>4. /\ Shows(array, fs, Loops) /\ \A k \in DOMAIN fs : fs[k].id # id
      /\ \A k \in DOMAIN Loops : Loops[k].id # id
      /\ id \in Id
  BY <1>1, <1>2, <1>3, NoLoopBelow
<1>5. Shows([array EXCEPT ![id] = NoArray], fs, Loops)
  BY <1>4, ShowsArray
<1>6. Shows(array', frames', Loops)
  BY <1>2, <1>3, <1>5
<1>. QED
  BY ONLY IInv, Shown, <1>2, <1>4, <1>6, FreeSeen

\* An array gets its smaller size when the cells that go are empty.
LEMMA ShrinkFinishedSeen == IInv /\ Shown /\ ShrinkFinished => Refines
<1>. SUFFICES ASSUME IInv, Shown, ShrinkFinished PROVE Refines
  OBVIOUS
<1>1. PICK id, m : id = frames[Len(frames)].id /\ m = frames[Len(frames)].size
  OBVIOUS
<1>2. /\ frames # <<>> /\ frames[Len(frames)].op = "shrink" /\ frames' = Front(frames)
      /\ array' = [array EXCEPT ![id] = Unlocked(Resized(@, m))]
  BY <1>1, TopIsFront DEF ShrinkFinished, Pop
<1>3. PICK fs : fs = Front(frames)
  OBVIOUS
<1>4. /\ Shows(array, fs, Loops) /\ \A k \in DOMAIN fs : fs[k].id # id
      /\ \A k \in DOMAIN Loops : Loops[k].id # id
      /\ id \in Id /\ array[id] # NoArray
  BY <1>1, <1>2, <1>3, NoLoopBelow
<1>5. Sound(array, var, frames) /\ LocksCounted(array, frames)
  BY DEF IInv
<1>6. PICK sa \in SafeArrays : sa = array[id]
  BY <1>4, <1>5, Parts
<1>7. m \in Nat
  <2>1. frames[Len(frames)] \in Frames
    BY <1>2, <1>5, TopParts
  <2>. QED
    BY <1>1, <2>1 DEF Frames
<1>8. PICK sr \in SafeArrays : /\ sr = Resized(sa, m) /\ Len(sr.pvData) = CellCount(sr)
                               /\ sr.fixed = sa.fixed /\ sr.cLocks = sa.cLocks
                               /\ sr.rgsabound = [sa.rgsabound EXCEPT ![1] = m]
  BY <1>7, ResizedParts, BoundsAndCells
<1>9. PICK sb \in SafeArrays : sb = Unlocked(sr)
  <2>1. IsLock(frames[Len(frames)])
    BY <1>2 DEF IsLock
  <2>2. sr.cLocks = array[frames[Len(frames)].id].cLocks /\ sr.fixed = array[frames[Len(frames)].id].fixed
    BY <1>1, <1>6, <1>8
  <2>3. frames[Len(frames)].op # "shrink" => CellCount(sr) = CellCount(array[frames[Len(frames)].id])
    BY <1>2
  <2>4. PICK as, vs, fq : as = array /\ vs = var /\ fq = frames
    OBVIOUS
  <2>5. /\ Sound(as, vs, fq) /\ LocksCounted(as, fq) /\ fq # <<>> /\ IsLock(fq[Len(fq)])
        /\ Len(sr.pvData) = CellCount(sr)
        /\ sr.cLocks = as[fq[Len(fq)].id].cLocks /\ sr.fixed = as[fq[Len(fq)].id].fixed
        /\ fq[Len(fq)].op # "shrink" => CellCount(sr) = CellCount(as[fq[Len(fq)].id])
    BY <1>2, <1>5, <1>8, <2>1, <2>2, <2>3, <2>4
  <2>6. Unlocked(sr) \in SafeArrays
    BY ONLY <2>5, sr \in SafeArrays, PopLocked
  <2>. QED
    BY <2>6
<1>10. sb.rgsabound = sr.rgsabound /\ sb.pvData = sr.pvData
  <2>1. \A t \in {Locked(sr), Unlocked(sr), SafeArrayCopy(sr)} :
          t.rgsabound = sr.rgsabound /\ t.pvData = sr.pvData
    BY BoundsAndCells
  <2>. QED
    BY <1>9, <2>1
<1>11. array' = [array EXCEPT ![id] = sb]
  BY <1>2, <1>6, <1>8, <1>9
<1>12. Known([array[id].rgsabound EXCEPT ![1] = m])
  <2>1. PICK n \in DOMAIN frames : n = Len(frames)
    <3>1. Len(frames) \in DOMAIN frames
      BY <1>2, <1>5, Parts, EmptySeq
    <3>. QED
      BY <3>1
  <2>2. frames[n].op = "shrink" /\ frames[n].id = id /\ frames[n].size = m
    BY <1>1, <1>2, <2>1
  <2>3. frames[n].op = "shrink" => Known([array[frames[n].id].rgsabound EXCEPT ![1] = frames[n].size])
    BY DEF Shown, Shows
  <2>. QED
    BY <2>2, <2>3
<1>13. sb.rgsabound = [array[id].rgsabound EXCEPT ![1] = m] /\ sb.pvData = Resized(array[id], m).pvData
  BY <1>6, <1>8, <1>10
<1>14. Shows([array EXCEPT ![id] = sb], fs, Loops)
  <2>1. Known(sb.rgsabound)
    BY <1>12, <1>13
  <2>. QED
    BY <1>4, <2>1, ShowsArray
<1>15. Shows(array', frames', Loops)
  BY <1>2, <1>3, <1>11, <1>14
<1>. QED
  BY ONLY IInv, Shown, <1>4, <1>7, sb \in SafeArrays, <1>11, <1>12, <1>13, <1>15, ResizeSeen

-------------------------------------------------------------------------------
\* Clearing and storing changes no array that the caller did not, and no loop.
LEMMA PutShows ==
  ASSUME NEW STATE as, NEW STATE fs, NEW v \in Variable, NEW STATE x, NEW STATE l,
         Sound(as, var, fs), x \in Variants, Shows(as, fs, l), Put(v, x, as, fs)
  PROVE  array' = as /\ Shows(as, frames', l)
<1>. DEFINE old == var[v]
            f == Frame("destroy", old.id, 1, CellCount(as[old.id]), v, x)
            g == Frame("assign", NoId, 0, 0, v, x)
<1>1. array' = as
  BY DEF Put
<1>2. \/ old.vt = "ARRAY" /\ old.id # NoId /\ frames' = Append(fs, f)
      \/ frames' = fs \o <<g, Script>>
      \/ frames' = fs
  BY DEF Put
<1>3. fs \in Seq(Frames)
  BY Parts
<1>4. CASE old.id # NoId /\ frames' = Append(fs, f)
  <2>1. old.id \in Id /\ as[old.id] \in SafeArrays
    BY <1>4, HeldByVariable
  <2>2. CellCount(as[old.id]) \in Nat
    BY <2>1, CountIsNat
  <2>3. f \in Frames /\ f.op = "destroy"
    BY <2>1, <2>2 DEF Frame, Frames
  <2>. HIDE DEF f
  <2>4. Shows(as, Append(fs, f), l)
    BY <2>3, ShowsMore
  <2>. QED
    BY <1>1, <1>4, <2>4
<1>5. CASE frames' = fs \o <<g, Script>>
  <2>1. g \in Frames /\ g.op = "assign"
    BY DEF Frame, Frames
  <2>2. Script \in Frames /\ Script.op = "script"
    BY ScriptTyped
  <2>. HIDE DEF g
  <2>3. fs \o <<g, Script>> = Append(Append(fs, g), Script)
    BY <1>3, <2>1, <2>2, ConcatTwo
  <2>4. Shows(as, Append(fs, g), l)
    BY <2>1, ShowsMore
  <2>5. PICK gs : gs = Append(fs, g)
    OBVIOUS
  <2>6. Shows(as, Append(gs, Script), l)
    BY <2>2, <2>4, <2>5, ShowsMore
  <2>. QED
    BY <1>1, <1>5, <2>3, <2>5, <2>6
<1>6. CASE frames' = fs
  BY <1>1, <1>6
<1>. QED
  BY <1>2, <1>4, <1>5, <1>6

\* A new array has no loop.
LEMMA AllocationShows ==
  ASSUME IInv, Shown, NEW id \in Id, array[id] = NoArray, NEW sa \in SafeArrays, Known(sa.rgsabound)
  PROVE  Shows([array EXCEPT ![id] = sa], frames, Loops)
<1>1. \A k \in DOMAIN frames : frames[k].id # id
  BY FreeIsUnused DEF IInv
<1>2. Shows(array, frames, Loops)
  BY DEF Shown
<1>. QED
  BY <1>1, <1>2, ShowsArray

\* ReDim makes an array.
LEMMA ReDimSeen ==
  ASSUME NEW v \in Variable, NEW s \in Shapes, IInv, Shown, ReDim(v, s)
  PROVE  Refines
<1>. DEFINE id == FirstFresh
            sa == SafeArrayCreate(s)
            as == [array EXCEPT ![id] = sa]
            x == Array(id)
<1>1. id \in Id /\ array[id] = NoArray
  BY FirstFreshIs DEF ReDim
<1>2. sa \in SafeArrays /\ Len(sa.pvData) = CellCount(sa) /\ sa.cLocks = 0
  BY CreateParts
<1>2a. s \in AllShapes
  BY DEF AllShapes
<1>2b. Known(sa.rgsabound)
  BY <1>2a, ContentsCreated DEF Whole
<1>3. Put(v, x, as, frames)
  BY DEF ReDim
<1>. HIDE DEF id, sa
<1>4. /\ Sound(as, var, frames) /\ x \in Variants
  BY <1>1, <1>2, Allocates
<1>5. Shows(as, frames, Loops)
  BY <1>1, <1>2, <1>2b, AllocationShows
<1>. HIDE DEF as, x
<1>6. array' = as /\ Shows(as, frames', Loops)
  BY <1>3, <1>4, <1>5, PutShows
<1>7. array' = [array EXCEPT ![id] = SafeArrayCreate(s)] /\ Shows(array', frames', Loops)
  BY <1>6 DEF as, sa
<1>. QED
  BY <1>1, <1>2a, <1>7, NewSeen

\* ReDim Preserve makes one for a variable that has none.
LEMMA ReDimPreserveNewSeen ==
  ASSUME NEW v \in Variable, NEW s \in Shapes, IInv, Shown, ReDimPreserveNew(v, s)
  PROVE  Refines
<1>. DEFINE id == FirstFresh
            sa == SafeArrayCreate(s)
<1>1. id \in Id /\ array[id] = NoArray
  BY FirstFreshIs DEF ReDimPreserveNew
<1>2. s \in AllShapes
  BY DEF AllShapes
<1>3. sa \in SafeArrays /\ Known(sa.rgsabound)
  BY <1>2, ContentsCreated DEF Whole
<1>4. array' = [array EXCEPT ![id] = sa] /\ frames' = frames
  BY DEF ReDimPreserveNew
<1>. HIDE DEF id
<1>5. Shows([array EXCEPT ![id] = sa], frames, Loops)
  BY <1>1, <1>3, AllocationShows
<1>6. Shows(array', frames', Loops)
  BY <1>4, <1>5
<1>. QED
  BY <1>1, <1>2, <1>4, <1>6, NewSeen

\* A lock of an array does not show.
LEMMA LockShows ==
  ASSUME IInv, Shown, NEW id \in Id, array[id] # NoArray, array' = [array EXCEPT ![id] = Locked(@)]
  PROVE  /\ Elems' = Elems
         /\ \A fs, l : Shows(array, fs, l) => Shows(array', fs, l)
<1>1. PICK sa \in SafeArrays : sa = array[id]
  BY WholeArray
<1>2. PICK sb \in SafeArrays : sb = Locked(sa)
  BY LockParts
<1>3. sb.rgsabound = sa.rgsabound /\ sb.pvData = sa.pvData
  <2>1. \A t \in {Locked(sa), Unlocked(sa), SafeArrayCopy(sa)} :
          t.rgsabound = sa.rgsabound /\ t.pvData = sa.pvData
    BY BoundsAndCells
  <2>. QED
    BY <1>2, <2>1
<1>4. array' = [array EXCEPT ![id] = sb]
  BY <1>1, <1>2
<1>5. sb # NoArray
  BY ArrayAssumption
<1>6. Elems' = Elems
  <2>1. sb.rgsabound = array[id].rgsabound /\ sb.pvData = array[id].pvData
    BY <1>1, <1>3
  <2>. QED
    BY ONLY IInv, Shown, id \in Id, array[id] # NoArray, sb \in SafeArrays, <2>1, <1>4, LockUnseen
<1>7. ASSUME NEW fs, NEW l, Shows(array, fs, l) PROVE Shows(array', fs, l)
  <2>1. Shows([array EXCEPT ![id] = sb], fs, l)
    BY <1>1, <1>3, <1>5, <1>7, ShowsArray
  <2>. QED
    BY ONLY <1>4, <2>1
<1>. QED
  BY <1>6, <1>7

\* ReDim Preserve for the shape s, which differs in the last dimension only.
LEMMA LastDimension ==
  ASSUME NEW sa \in SafeArrays, NEW s \in AllShapes, SameButLast(sa, s)
  PROVE  [sa.rgsabound EXCEPT ![1] = Last(s)] = Reverse(s) /\ Last(s) \in Nat
<1>1. PICK r \in Seq(Nat) : r = sa.rgsabound
  BY DEF SafeArrays
<1>2. PICK n \in Nat \ {0} : /\ n = Len(s) /\ n = Len(r) /\ s \in Seq(Nat)
                             /\ \A d \in 1..n - 1 : r[n + 1 - d] = s[d]
  <2>1. Len(s) \in Nat \ {0} /\ s \in Seq(Nat)
    BY ShapeIs
  <2>2. Len(s) = Len(r) /\ \A d \in 1..Len(s) - 1 : r[Len(r) + 1 - d] = s[d]
    BY <1>1 DEF SameButLast, Bound
  <2>3. PICK n : n = Len(s)
    OBVIOUS
  <2>4. n = Len(r) /\ \A d \in 1..n - 1 : r[n + 1 - d] = s[d]
    BY <2>2, <2>3
  <2>. QED
    BY <2>1, <2>3, <2>4
<1>3. PICK m \in Nat : m = Last(s) /\ m = s[n]
  <2>0. n \in 1..n
    OBVIOUS
  <2>1. s[n] \in Nat
    BY <1>2, <2>0, ElementOfSeq
  <2>2. Last(s) = s[n]
    BY <1>2 DEF Last
  <2>. QED
    BY <2>1, <2>2
<1>4. PICK q \in Seq(Nat) : q = Reverse(s) /\ Len(q) = n /\ \A k \in 1..n : q[k] = s[n + 1 - k]
  <2>1. /\ Reverse(s) \in Seq(Nat) /\ Len(Reverse(s)) = Len(s)
        /\ \A k \in 1..Len(s) : Reverse(s)[k] = s[Len(s) + 1 - k]
    BY <1>2, ReverseIs
  <2>. QED
    BY <1>2, <2>1
<1>5. PICK t \in Seq(Nat) : t = [r EXCEPT ![1] = m] /\ Len(t) = n /\ t[1] = m /\ \A k \in 2..n : t[k] = r[k]
  <2>1. DOMAIN r = 1..n /\ r \in [1..n -> Nat]
    BY <1>2, LenProperties
  <2>2. 1 \in 1..n /\ 2..n \subseteq 1..n
    BY <1>2
  <2>3. PICK t \in [1..n -> Nat] : t = [r EXCEPT ![1] = m]
    BY <2>1
  <2>4. t \in Seq(Nat) /\ Len(t) = n
    BY <2>3, FunctionIsSeq
  <2>5. t[1] = m /\ \A k \in 2..n : t[k] = r[k]
    <3>1. \A k \in 2..n : k # 1
      OBVIOUS
    <3>. QED
      BY <2>1, <2>2, <2>3, <3>1
  <2>. QED
    BY <2>3, <2>4, <2>5
<1>6. \A k \in 1..n : t[k] = q[k]
  <2>1. q[1] = m
    BY <1>2, <1>3, <1>4
  <2>2. ASSUME NEW k \in 2..n PROVE t[k] = q[k]
    <3>1. k \in 1..n /\ n + 1 - k \in 1..n - 1 /\ n + 1 - (n + 1 - k) = k
      BY <1>2
    <3>. QED
      BY <1>2, <1>4, <1>5, <3>1
  <2>3. \A k \in 1..n : k = 1 \/ k \in 2..n
    BY <1>2
  <2>. QED
    BY <1>5, <2>1, <2>2, <2>3
<1>7. t = q
  BY <1>4, <1>5, <1>6, SeqEqual
<1>. QED
  BY <1>1, <1>3, <1>4, <1>5, <1>7

\* ReDim Preserve makes an array longer at once and shorter later.
LEMMA ReDimPreserveSeen ==
  ASSUME NEW v \in Variable, NEW s \in Shapes, IInv, Shown, ReDimPreserve(v, s)
  PROVE  Refines
<1>. DEFINE id == var[v].id
            sa == array[id]
<1>1. Sound(array, var, frames) /\ LocksCounted(array, frames)
  BY DEF IInv
<1>2. /\ id # NoId /\ ArraySettled(id) /\ SameButLast(sa, s) /\ Resizable(sa)
      /\ IF Last(s) < sa.rgsabound[1]
           THEN /\ frames' = Append(frames, Shrink(id, CellsKept(sa, Last(s)) + 1, CellCount(sa), Last(s)))
                /\ array' = [array EXCEPT ![id] = Locked(@)]
           ELSE frames' = frames /\ array' = [array EXCEPT ![id] = Resized(@, Last(s))]
  BY DEF ReDimPreserve, Push
<1>3. id \in Id /\ sa \in SafeArrays /\ sa # NoArray
  BY <1>1, <1>2, HeldByVariable
<1>. HIDE DEF id
<1>4. PICK m \in Nat : m = Last(s) /\ [sa.rgsabound EXCEPT ![1] = m] = Reverse(s)
  BY <1>2, <1>3, LastDimension DEF AllShapes
<1>5. Known([sa.rgsabound EXCEPT ![1] = m])
  BY <1>4 DEF Known, AllShapes
<1>6. \A k \in DOMAIN frames : frames[k].id # id
  <2>1. sa.cLocks = 0
    BY <1>2 DEF Resizable
  <2>2. \A k \in DOMAIN frames : frames[k].id = id => frames[k].op \notin {"destroy", "erase", "store"}
    BY <1>2 DEF ArraySettled
  <2>. QED
    BY <1>1, <1>3, <2>1, <2>2, NoFrame
<1>7. Shows(array, frames, Loops)
  BY DEF Shown
<1>8. CASE m < sa.rgsabound[1]
  <2>1. PICK f : f = Shrink(id, CellsKept(sa, m) + 1, CellCount(sa), m)
    OBVIOUS
  <2>2. frames' = Append(frames, f) /\ array' = [array EXCEPT ![id] = Locked(@)]
    BY <1>2, <1>4, <1>8, <2>1
  <2>3. f.op = "shrink" /\ f.id = id /\ f.size = m
    BY <2>1 DEF Shrink, Frame
  <2>4. f \in Frames
    <3>0. IInv'
      BY ReDimPreserveKeeps
    <3>1. Sound(array', var', frames')
      BY ONLY <3>0 DEF IInv
    <3>2. PICK n \in Nat : n = Len(frames) + 1 /\ frames'[n] = f /\ n \in DOMAIN frames'
      <4>0. PICK T : T = Frames \cup {f}
        OBVIOUS
      <4>1. PICK n \in Nat : n = Len(frames) + 1 /\ n >= 1
        <5>1. PICK j : j = Len(frames) /\ j \in Nat
          BY <1>1, Parts
        <5>2. j + 1 \in Nat /\ j + 1 >= 1
          BY <5>1
        <5>. QED
          BY <5>1, <5>2
      <4>2. frames \in Seq(T) /\ f \in T
        <5>1. PICK j \in Nat : DOMAIN frames = 1..j /\ frames \in [1..j -> Frames]
          BY <1>1, Parts, LenProperties
        <5>2. frames \in [1..j -> T]
          BY <4>0, <5>1
        <5>. QED
          BY <4>0, <5>2, FunctionIsSeq
      <4>3. DOMAIN Append(frames, f) = 1..n /\ Append(frames, f)[n] = f
        BY <4>1, <4>2, AppendParts
      <4>4. n \in 1..n
        BY <4>1
      <4>. QED
        BY <2>2, <4>1, <4>3, <4>4
    <3>3. frames'[n] \in Frames
      BY <3>1, <3>2, Parts
    <3>. QED
      BY <3>2, <3>3
  <2>5. Shows(array, Append(frames, f), Loops)
    <3>1. /\ f.op \in {"foreach", "shrink"} => f.id \in Id /\ array[f.id] # NoArray
          /\ f.op = "shrink" => Known([array[f.id].rgsabound EXCEPT ![1] = f.size])
      BY <1>3, <1>5, <2>3
    <3>2. Shows(array, Append(frames, f), IF f.op = "foreach" THEN Append(Loops, LoopIn(array, f)) ELSE Loops)
      BY ONLY <1>7, <2>4, <3>1, ShowsPush
    <3>. QED
      BY <2>3, <3>2
  <2>6. Elems' = Elems /\ \A fs, l : Shows(array, fs, l) => Shows(array', fs, l)
    BY <1>3, <2>2, LockShows
  <2>7. Shows(array', frames', Loops)
    BY <2>2, <2>5, <2>6
  <2>8. Loops' = Loops /\ Shown'
    BY <2>7, ShownNext
  <2>. QED
    BY <2>6, <2>8, StutterStep DEF Refines
<1>9. CASE ~(m < sa.rgsabound[1])
  <2>1. PICK sb \in SafeArrays : sb = Resized(sa, m) /\ sb.rgsabound = [sa.rgsabound EXCEPT ![1] = m]
    BY <1>3, ResizedParts, BoundsAndCells
  <2>2. frames' = frames /\ array' = [array EXCEPT ![id] = sb]
    BY <1>2, <1>3, <1>4, <1>9, <2>1
  <2>3. Shows([array EXCEPT ![id] = sb], frames, Loops)
    BY <1>3, <1>5, <1>6, <1>7, <2>1, ShowsArray
  <2>4. Shows(array', frames', Loops)
    BY <2>2, <2>3
  <2>5. \A k \in DOMAIN Loops : Loops[k].id # id
    BY ONLY <1>6, <1>7, NotLooped
  <2>6. /\ sb.rgsabound = [array[id].rgsabound EXCEPT ![1] = m] /\ sb.pvData = Resized(array[id], m).pvData
        /\ Known([array[id].rgsabound EXCEPT ![1] = m]) /\ array[id] # NoArray
    BY <1>3, <1>5, <2>1
  <2>7. array' = [array EXCEPT ![id] = sb]
    BY <2>2
  <2>. QED
    BY ONLY IInv, Shown, <1>3, m \in Nat, sb \in SafeArrays, <2>4, <2>5, <2>6, <2>7, ResizeSeen
<1>. QED
  BY <1>8, <1>9

\* Erase does not show when it begins.
LEMMA EraseSeen ==
  ASSUME NEW v \in Variable, IInv, Shown, Erase(v)
  PROVE  Refines
<1>. DEFINE id == var[v].id
            f == Frame("erase", id, 1, CellCount(array[id]), NoVar, Empty)
<1>1. Sound(array, var, frames) /\ Shows(array, frames, Loops)
  BY DEF IInv, Shown
<1>2. id # NoId
  BY DEF Erase
<1>3. id \in Id /\ array[id] \in SafeArrays /\ array[id] # NoArray
  BY <1>1, <1>2, HeldByVariable
<1>4. CASE array[id].fixed
  <2>1. frames' = Append(frames, f) /\ array' = [array EXCEPT ![id] = Locked(@)]
    BY <1>4 DEF Erase, Push
  <2>2. f \in Frames /\ f.op = "erase"
    <3>1. CellCount(array[id]) \in Nat /\ Empty \in Variants
      BY <1>3, CountIsNat, ValuesTyped
    <3>. QED
      BY <1>3, <3>1 DEF Frame, Frames
  <2>. HIDE DEF f
  <2>3. Shows(array, Append(frames, f), Loops)
    BY <1>1, <2>2, ShowsMore
  <2>4. Elems' = Elems /\ \A fs, l : Shows(array, fs, l) => Shows(array', fs, l)
    BY <1>3, <2>1, LockShows
  <2>5. Shows(array', frames', Loops)
    BY <2>1, <2>3, <2>4
  <2>6. Loops' = Loops /\ Shown'
    BY <2>5, ShownNext
  <2>. QED
    BY <2>4, <2>6, StutterStep DEF Refines
<1>5. CASE ~array[id].fixed
  <2>1. PICK x \in Variants : x = Array(NoId)
    BY ValuesTyped
  <2>2. Put(v, x, array, frames)
    BY <1>5, <2>1, EraseIsPut
  <2>3. array' = array /\ Shows(array, frames', Loops)
    BY <1>1, <2>2, PutShows
  <2>4. Shows(array', frames', Loops)
    BY <2>3
  <2>. QED
    BY <2>3, <2>4, Unseen
<1>. QED
  BY <1>4, <1>5

\* An assignment copies an array.
LEMMA AssignSeen ==
  ASSUME NEW v \in Variable, NEW STATE value, IInv, Shown, Assign(v, value),
         value \in {Empty, Object} \cup {var[w] : w \in Variable}
  PROVE  Refines
<1>1. Sound(array, var, frames) /\ Shows(array, frames, Loops)
  BY DEF IInv, Shown
<1>2. value \in Variants /\ (value.id # NoId => value.id \in Id /\ array[value.id] # NoArray)
  <2>1. CASE value \in {Empty, Object}
    BY <2>1, ValuesTyped
  <2>2. ASSUME NEW w \in Variable, value = var[w]
        PROVE  value \in Variants /\ (value.id # NoId => value.id \in Id /\ array[value.id] # NoArray)
    <3>1. var[w] \in Variants /\ VarSound(array, var, w)
      BY <1>1, Parts
    <3>. QED
      BY <2>2, <3>1 DEF VarSound, Variants
  <2>. QED
    BY <2>1, <2>2
<1>3. CASE IsArray(value) /\ value.id # NoId
  <2>. DEFINE id == FirstFresh
              sa == SafeArrayCopy(array[value.id])
              as == [array EXCEPT ![id] = sa]
              x == Array(id)
  <2>1. id \in Id /\ array[id] = NoArray
    BY <1>3, FirstFreshIs DEF Assign
  <2>2. PICK s0 \in SafeArrays : s0 = array[value.id] /\ Len(s0.pvData) = CellCount(s0)
    BY <1>1, <1>2, <1>3, Parts
  <2>3. /\ sa \in SafeArrays /\ Len(sa.pvData) = CellCount(sa) /\ sa.cLocks = 0
        /\ sa.rgsabound = s0.rgsabound /\ sa.pvData = s0.pvData
    <3>1. /\ SafeArrayCopy(s0) \in SafeArrays /\ SafeArrayCopy(s0).cLocks = 0
          /\ \A t \in {Locked(s0), Unlocked(s0), SafeArrayCopy(s0)} :
               CellCount(t) = CellCount(s0) /\ Len(t.pvData) = Len(s0.pvData)
      BY LockParts
    <3>2. \A t \in {Locked(s0), Unlocked(s0), SafeArrayCopy(s0)} :
            t.rgsabound = s0.rgsabound /\ t.pvData = s0.pvData
      BY BoundsAndCells
    <3>3. sa = SafeArrayCopy(s0)
      BY <2>2
    <3>. HIDE DEF sa
    <3>. QED
      BY <2>2, <3>1, <3>2, <3>3
  <2>4. Put(v, x, as, frames)
    BY <1>3 DEF Assign
  <2>5. Known(sa.rgsabound)
    <3>1. Known(array[value.id].rgsabound)
      BY <1>1, <1>2, <1>3 DEF Shows
    <3>. HIDE DEF sa
    <3>. QED
      BY <2>2, <2>3, <3>1
  <2>. HIDE DEF id, sa
  <2>6. Sound(as, var, frames) /\ x \in Variants
    BY <2>1, <2>3, Allocates
  <2>7. Shows(as, frames, Loops)
    BY <2>1, <2>3, <2>5, AllocationShows
  <2>. HIDE DEF as, x
  <2>8. array' = as /\ Shows(as, frames', Loops)
    BY <2>4, <2>6, <2>7, PutShows
  <2>9. array' = [array EXCEPT ![id] = sa] /\ Shows(array', frames', Loops)
    BY <2>8 DEF as
  <2>10. PICK from \in Id : from = value.id /\ array[from] # NoArray
    BY <1>2, <1>3
  <2>11. sa.rgsabound = array[from].rgsabound /\ sa.pvData = array[from].pvData
    BY <2>2, <2>3, <2>10
  <2>12. /\ Elems = [i \in Id |-> Elems[i]] /\ Elems[id] = NoArray /\ Elems[from] # NoArray
         /\ Elems' = [Elems EXCEPT ![id] = Elems[from]]
    BY ONLY IInv, Shown, <2>1, from \in Id, <2>3, <2>9, <2>10, <2>11, CopySeen
  <2>13. Loops' = Loops /\ Shown'
    BY <2>9, ShownNext
  <2>. QED
    BY <2>1, <2>12, <2>13, CopyStep DEF Refines
<1>4. CASE ~(IsArray(value) /\ value.id # NoId)
  <2>. DEFINE x == IF IsArray(value) THEN Array(NoId) ELSE value
  <2>1. Put(v, x, array, frames)
    BY <1>4 DEF Assign
  <2>2. x \in Variants
    BY <1>2, ValuesTyped
  <2>. HIDE DEF x
  <2>3. array' = array /\ Shows(array, frames', Loops)
    BY <1>1, <2>1, <2>2, PutShows
  <2>4. Shows(array', frames', Loops)
    BY <2>3
  <2>. QED
    BY <2>3, <2>4, Unseen
<1>. QED
  BY <1>3, <1>4

\* An assignment to an element writes it, now or later.
LEMMA SetElementSeen ==
  ASSUME NEW v \in Variable, NEW idx \in Index, NEW value \in Elements, IInv, Shown,
         SetElement(v, idx, value)
  PROVE  Refines
<1>. DEFINE id == var[v].id
            c == SafeArrayPtrOfIndex(array[id], idx)
            f == Frame("store", id, c, 0, NoVar, value)
<1>1. Sound(array, var, frames) /\ Shows(array, frames, Loops)
  BY DEF IInv, Shown
<1>2. id # NoId /\ InBounds(array[id], idx)
  BY DEF SetElement
<1>3. id \in Id /\ array[id] # NoArray /\ array[id] \in SafeArrays
  BY <1>1, <1>2, HeldByVariable
<1>4. c \in Nat
  <2>1. array[id].rgsabound \in Seq(Nat)
    BY <1>3 DEF SafeArrays
  <2>2. c \in 1..CellCount(array[id])
    BY <1>2, <2>1, IndexIsSeq, PtrIsCell
  <2>. HIDE DEF c
  <2>. QED
    BY <2>2
<1>5. \/ array' = [array EXCEPT ![id].pvData[c] = value] /\ frames' = frames
      \/ frames' = frames \o <<f, Script>> /\ array' = array
  BY DEF SetElement
<1>. HIDE DEF c, id
<1>6. CASE array' = [array EXCEPT ![id].pvData[c] = value] /\ frames' = frames
  <2>1. Shows(array, frames', Loops)
    BY <1>1, <1>6
  <2>. QED
    BY <1>3, <1>6, <2>1, CellStep
<1>7. CASE frames' = frames \o <<f, Script>> /\ array' = array
  <2>1. f \in Frames /\ f.op = "store"
    <3>1. value \in Variants
      BY ValuesTyped
    <3>. QED
      BY <1>3, <1>4, <3>1 DEF Frame, Frames
  <2>2. frames \in Seq(Frames) /\ Script \in Frames /\ Script.op = "script"
    BY <1>1, Parts, ScriptTyped
  <2>. HIDE DEF f
  <2>3. frames \o <<f, Script>> = Append(Append(frames, f), Script)
    BY <2>1, <2>2, ConcatTwo
  <2>4. PICK gs : gs = Append(frames, f)
    OBVIOUS
  <2>5. Shows(array, gs, Loops)
    BY <1>1, <2>1, <2>4, ShowsMore
  <2>6. Shows(array, Append(gs, Script), Loops)
    BY <2>2, <2>5, ShowsMore
  <2>7. Shows(array', frames', Loops) /\ array' = array
    BY <1>7, <2>3, <2>4, <2>6
  <2>. QED
    BY <2>7, Unseen
<1>. QED
  BY <1>5, <1>6, <1>7

-------------------------------------------------------------------------------
\* A For Each begins.
LEMMA BeginShows ==
  ASSUME NEW as, NEW fs, NEW l, Shows(as, fs, l), NEW f \in Frames, f.op = "foreach",
         f.id \in Id, as[f.id] # NoArray, Whole(as[f.id]), f.pos = 1, f.value = Empty
  PROVE  Shows(as, Append(fs, f), Append(l, Abstract!Loop(f.id)))
<1>1. Shows(as, Append(fs, f), Append(l, LoopIn(as, f)))
  <2>1. Shows(as, Append(fs, f), IF f.op = "foreach" THEN Append(l, LoopIn(as, f)) ELSE l)
    BY ShowsPush
  <2>. QED
    BY <2>1
<1>2. {idx \in Index : InBounds(as[f.id], idx) /\ SafeArrayPtrOfIndex(as[f.id], idx) < f.pos} = {}
  <2>1. PICK sa : sa = as[f.id]
    OBVIOUS
  <2>2. \A i \in Index : InBounds(sa, i) => SafeArrayPtrOfIndex(sa, i) \in 1..CellCount(sa)
    <3>1. \A i \in Inside(sa) : SafeArrayPtrOfIndex(sa, i) \in 1..CellCount(sa)
      BY <2>1, ContentsAre
    <3>. QED
      BY <3>1 DEF Inside
  <2>3. CellCount(sa) \in Nat
    BY <2>1, ContentsAre
  <2>4. \A i \in Index : InBounds(sa, i) => ~(SafeArrayPtrOfIndex(sa, i) < 1)
    BY <2>2, <2>3
  <2>. QED
    BY <2>1, <2>4
<1>3. (f.pos = f.last + 2) = FALSE
  <2>1. f.last \in Nat
    BY DEF Frames
  <2>. QED
    BY <2>1
<1>4. LoopIn(as, f) = Abstract!Loop(f.id)
  BY <1>2, <1>3 DEF LoopIn, Abstract!Loop
<1>. QED
  BY <1>1, <1>4

\* A For Each over the array of a variable begins.
LEMMA NewEnumSeen ==
  ASSUME NEW v \in Variable, IInv, Shown, NewEnum(v)
  PROVE  Refines
<1>. DEFINE id == var[v].id
            f == ForEach(id, array[id], NoVar)
<1>1. Sound(array, var, frames) /\ Shows(array, frames, Loops)
  BY DEF IInv, Shown
<1>2. id # NoId /\ frames' = Append(frames, f) /\ array' = [array EXCEPT ![id] = Locked(@)]
  BY DEF NewEnum, Push
<1>3. id \in Id /\ array[id] \in SafeArrays /\ array[id] # NoArray
  BY <1>1, <1>2, HeldByVariable
<1>4. f \in Frames /\ f.op = "foreach" /\ f.id = id /\ f.pos = 1 /\ f.value = Empty
  <2>1. CellCount(array[id]) \in Nat /\ Empty \in Variants
    BY <1>3, CountIsNat, ValuesTyped
  <2>. QED
    BY <1>3, <2>1 DEF ForEach, Frame, Frames
<1>. HIDE DEF f, id
<1>5. Whole(array[id]) /\ Elems[id] # NoArray
  BY <1>3, WholeArray
<1>6. Shows(array, Append(frames, f), Append(Loops, Abstract!Loop(id)))
  <2>1. f.id \in Id /\ array[f.id] # NoArray /\ Whole(array[f.id])
    BY <1>3, <1>4, <1>5
  <2>2. Shows(array, Append(frames, f), Append(Loops, Abstract!Loop(f.id)))
    BY ONLY <1>1, <1>4, <2>1, BeginShows
  <2>. QED
    BY <1>4, <2>2
<1>7. Elems' = Elems /\ \A fs, l : Shows(array, fs, l) => Shows(array', fs, l)
  BY <1>2, <1>3, LockShows
<1>8. Shows(array', frames', Append(Loops, Abstract!Loop(id)))
  BY <1>2, <1>6, <1>7
<1>9. Loops' = Append(Loops, Abstract!Loop(id)) /\ Shown'
  BY <1>8, ShownNext
<1>10. Elems'[id] # NoArray
  BY <1>5, <1>7
<1>11. ContentStep
  BY <1>3, <1>7, <1>9, <1>10, BeginStep
<1>. QED
  BY <1>9, <1>11 DEF Refines

\* One over a copy begins.
LEMMA NewEnumOwnedSeen ==
  ASSUME NEW v \in Variable, IInv, Shown, NewEnumOwned(v)
  PROVE  Refines
<1>. DEFINE from == var[v].id
            id == FirstFresh
<1>1. Sound(array, var, frames) /\ Shows(array, frames, Loops)
  BY DEF IInv, Shown
<1>2. /\ from # NoId
      /\ frames' = Append(frames, ForEach(id, SafeArrayCopy(array[from]), Owned))
      /\ array' = [array EXCEPT ![id] = Locked(SafeArrayCopy(array[from]))]
  BY DEF NewEnumOwned, Push
<1>3. from \in Id /\ array[from] \in SafeArrays /\ array[from] # NoArray
  BY <1>1, <1>2, HeldByVariable
<1>4. id \in Id /\ array[id] = NoArray
  BY FirstFreshIs DEF NewEnumOwned
<1>. HIDE DEF from, id
<1>5. PICK sa \in SafeArrays : sa = array[from] /\ Whole(sa)
  BY <1>3, WholeArray
<1>6. PICK sc \in SafeArrays : /\ sc = SafeArrayCopy(sa) /\ sc.rgsabound = sa.rgsabound
                               /\ sc.pvData = sa.pvData
  <2>1. SafeArrayCopy(sa) \in SafeArrays
    BY LockParts
  <2>2. \A t \in {Locked(sa), Unlocked(sa), SafeArrayCopy(sa)} :
          t.rgsabound = sa.rgsabound /\ t.pvData = sa.pvData
    BY BoundsAndCells
  <2>. QED
    BY <2>1, <2>2
<1>7. PICK sb \in SafeArrays : /\ sb = Locked(sc) /\ sb.rgsabound = sa.rgsabound
                               /\ sb.pvData = sa.pvData
  <2>1. Locked(sc) \in SafeArrays
    BY LockParts
  <2>2. \A t \in {Locked(sc), Unlocked(sc), SafeArrayCopy(sc)} :
          t.rgsabound = sc.rgsabound /\ t.pvData = sc.pvData
    BY BoundsAndCells
  <2>. QED
    BY <1>6, <2>1, <2>2
<1>8. PICK f : f = ForEach(id, sc, Owned)
  OBVIOUS
<1>9. f \in Frames /\ f.op = "foreach" /\ f.id = id /\ f.pos = 1 /\ f.value = Empty
  <2>1. CellCount(sc) \in Nat /\ Empty \in Variants
    BY CountIsNat, ValuesTyped
  <2>. QED
    BY <1>4, <1>8, <2>1 DEF ForEach, Frame, Frames
<1>10. frames' = Append(frames, f) /\ array' = [array EXCEPT ![id] = sb]
  BY <1>2, <1>5, <1>6, <1>7, <1>8
<1>11. Whole(sb)
  BY <1>5, <1>7 DEF Whole, CellCount
<1>12. Shows([array EXCEPT ![id] = sb], frames, Loops)
  BY <1>4, <1>11, AllocationShows DEF Whole
<1>13. PICK as : as = [array EXCEPT ![id] = sb] /\ as[id] = sb /\ sb # NoArray
  <2>1. array \in [Id -> SafeArrays \cup {NoArray}]
    BY <1>1, Parts
  <2>2. sb # NoArray
    BY <1>7, ArrayAssumption
  <2>3. [array EXCEPT ![id] = sb][id] = sb
    BY <1>4, <2>1
  <2>. QED
    BY <2>2, <2>3
<1>14. Shows(as, Append(frames, f), Append(Loops, Abstract!Loop(id)))
  <2>1. f.id \in Id /\ as[f.id] # NoArray /\ Whole(as[f.id]) /\ Shows(as, frames, Loops)
    BY <1>4, <1>9, <1>11, <1>12, <1>13
  <2>2. Shows(as, Append(frames, f), Append(Loops, Abstract!Loop(f.id)))
    BY ONLY <1>9, <2>1, BeginShows
  <2>. QED
    BY <1>9, <2>2
<1>15. Shows(array', frames', Append(Loops, Abstract!Loop(id)))
  BY <1>10, <1>13, <1>14
<1>16. Loops' = Append(Loops, Abstract!Loop(id)) /\ Shown'
  BY <1>15, ShownNext
<1>17. /\ Elems = [i \in Id |-> Elems[i]] /\ Elems[id] = NoArray /\ Elems[from] # NoArray
       /\ Elems' = [Elems EXCEPT ![id] = Elems[from]]
  <2>1. sb.rgsabound = array[from].rgsabound /\ sb.pvData = array[from].pvData
    BY <1>5, <1>7
  <2>. QED
    BY ONLY IInv, Shown, <1>3, <1>4, sb \in SafeArrays, <2>1, <1>10, CopySeen
<1>18. Elems'[id] # NoArray
  BY <1>4, <1>17
<1>19. ContentStep
  BY <1>3, <1>4, <1>16, <1>17, <1>18, BeginStep
<1>. QED
  BY <1>16, <1>19 DEF Refines

\* A For Each is over.
LEMMA LoopEndsSeen == IInv /\ Shown /\ LoopEnds => Refines
<1>. SUFFICES ASSUME IInv, Shown, LoopEnds PROVE Refines
  OBVIOUS
<1>1. PICK f : f = frames[Len(frames)]
  OBVIOUS
<1>2. /\ frames # <<>> /\ f.op = "foreach"
      /\ array' = [array EXCEPT ![f.id] = Unlocked(@)]
      /\ frames' = IF f.to = Owned
                   THEN Append(Front(frames), Frame("destroy", f.id, 1, f.last, NoVar, Empty))
                   ELSE Front(frames)
  BY <1>1, TopIsFront DEF LoopEnds
<1>3. /\ f.id \in Id /\ Elems' = Elems
      /\ \A fs, l : Shows(array, fs, l) => Shows(array', fs, l)
  <2>1. IsLock(frames[Len(frames)]) /\ f.id = frames[Len(frames)].id
    BY <1>1, <1>2 DEF IsLock
  <2>. QED
    BY ONLY IInv, Shown, <1>2, <2>1, TopUnlocked
<1>4. f \in Frames
  BY <1>1, <1>2, TopParts DEF IInv
<1>5. Shows(array, frames, Loops)
  BY DEF Shown
<1>6. PICK m : /\ Shows(array, Front(frames), m)
               /\ m \in Seq(LoopSet(array, Frames))
               /\ LoopIn(array, frames[Len(frames)]) \in LoopSet(array, Frames)
               /\ frames[Len(frames)].op # "foreach" => Loops = m
               /\ frames[Len(frames)].op = "foreach" => Loops = Append(m, LoopIn(array, frames[Len(frames)]))
  BY <1>2, <1>5, ShowsPop
<1>7. Shows(array, frames', m)
  <2>1. CASE f.to # Owned
    BY <1>2, <1>6, <2>1
  <2>2. CASE f.to = Owned
    <3>1. PICK d : d = Frame("destroy", f.id, 1, f.last, NoVar, Empty)
      OBVIOUS
    <3>2. d \in Frames /\ d.op = "destroy"
      <4>1. f.last \in Nat /\ Empty \in Variants
        BY <1>4, ValuesTyped DEF Frames
      <4>. QED
        BY <1>3, <3>1, <4>1 DEF Frame, Frames
    <3>3. Shows(array, Append(Front(frames), d), m)
      BY <1>6, <3>2, ShowsMore
    <3>. QED
      BY <1>2, <2>2, <3>1, <3>3
  <2>. QED
    BY <2>1, <2>2
<1>8. Shows(array', frames', m)
  BY <1>3, <1>7
<1>9. Loops' = m /\ Shown'
  BY <1>8, ShownNext
<1>10. PICK T, a : T = LoopSet(array, Frames) /\ a = LoopIn(array, f)
  OBVIOUS
<1>11. m \in Seq(T) /\ a \in T /\ Loops = Append(m, a)
  BY <1>1, <1>2, <1>6, <1>10
<1>12. ContentStep
  BY ONLY <1>3, <1>9, <1>11, LeaveStep
<1>. QED
  BY <1>9, <1>12 DEF Refines

\* One index more, or all.
LEMMA NextSeen ==
  ASSUME NEW sa, Whole(sa), NEW p \in Nat \ {0}, p <= CellCount(sa) + 1,
         NEW S, S = {idx \in Index : InBounds(sa, idx) /\ SafeArrayPtrOfIndex(sa, idx) < p},
         NEW R, R = {idx \in Index : InBounds(sa, idx) /\ SafeArrayPtrOfIndex(sa, idx) < p + 1}
  PROVE  /\ p <= CellCount(sa) => \E i \in DOMAIN Contents(sa) :
                 i \notin S /\ R = S \cup {i} /\ Contents(sa)[i] = sa.pvData[p]
         /\ p = CellCount(sa) + 1 => S = DOMAIN Contents(sa) /\ R = DOMAIN Contents(sa)
<1>1. /\ DOMAIN Contents(sa) = Inside(sa) /\ CellCount(sa) \in Nat /\ sa.rgsabound \in Seq(Nat)
      /\ \A i \in Inside(sa) : /\ Contents(sa)[i] = sa.pvData[SafeArrayPtrOfIndex(sa, i)]
                               /\ SafeArrayPtrOfIndex(sa, i) \in 1..CellCount(sa)
                               /\ i \in Seq(Nat) /\ InBounds(sa, i)
  BY ContentsAre
<1>2. /\ S = {i \in Inside(sa) : SafeArrayPtrOfIndex(sa, i) < p}
      /\ R = {i \in Inside(sa) : SafeArrayPtrOfIndex(sa, i) < p + 1}
  BY DEF Inside
<1>3. CASE p <= CellCount(sa)
  <2>1. p \in 1..CellCount(sa)
    BY <1>1, <1>3
  <2>2. PICK i \in Seq(Nat) : InBounds(sa, i) /\ SafeArrayPtrOfIndex(sa, i) = p
    BY <1>1, <2>1, PlaceExists
  <2>3. PICK s \in AllShapes : sa.rgsabound = Reverse(s)
    BY DEF Whole, Known
  <2>4. i \in Inside(sa)
    BY <2>2, <2>3, IndicesAre
  <2>5. i \notin S
    BY <1>2, <2>2
  <2>6. ASSUME NEW j \in Inside(sa), SafeArrayPtrOfIndex(sa, j) = p PROVE j = i
    BY <1>1, <2>2, <2>6, PlacesApart
  <2>7. \A j \in Inside(sa) : SafeArrayPtrOfIndex(sa, j) < p + 1 <=>
                                SafeArrayPtrOfIndex(sa, j) < p \/ SafeArrayPtrOfIndex(sa, j) = p
    <3>1. \A c \in 1..CellCount(sa) : c < p + 1 <=> c < p \/ c = p
      BY <1>1
    <3>. QED
      BY <1>1, <3>1
  <2>8. R = S \cup {i}
    BY <1>2, <2>2, <2>4, <2>6, <2>7
  <2>9. Contents(sa)[i] = sa.pvData[p]
    BY <1>1, <2>2, <2>4
  <2>10. ~(p = CellCount(sa) + 1)
    BY <1>1, <1>3
  <2>. QED
    BY <1>1, <2>4, <2>5, <2>8, <2>9, <2>10
<1>4. CASE p = CellCount(sa) + 1
  <2>1. \A c \in 1..CellCount(sa) : c < p /\ c < p + 1
    BY <1>1, <1>4
  <2>2. S = Inside(sa) /\ R = Inside(sa)
    BY <1>1, <1>2, <2>1
  <2>3. ~(p <= CellCount(sa))
    BY <1>1, <1>4
  <2>. QED
    BY <1>1, <2>2, <2>3
<1>. QED
  BY <1>1, <1>3, <1>4

\* A For Each goes on: to an index that it has not seen, or to its end.
LEMMA EnumNextSeen ==
  ASSUME IInv, Shown, EnumNext
  PROVE  Refines
<1>1. PICK f : f = frames[Len(frames)]
  OBVIOUS
<1>2. frames # <<>> /\ f.op = "foreach" /\ Top = f /\ f.pos <= f.last + 1
  BY <1>1, TopIsFront DEF EnumNext, AtNext
<1>3. Sound(array, var, frames) /\ Shows(array, frames, Loops)
  BY DEF IInv, Shown
<1>4. f \in Frames /\ FrameSound(array, var, f)
  BY <1>1, <1>2, <1>3, TopParts
<1>5. f.id \in Id /\ array[f.id] # NoArray
  BY <1>2, <1>4, FrameHasArray
<1>6. PICK id \in Id, sa \in SafeArrays :
        id = f.id /\ sa = array[id] /\ Whole(sa) /\ Elems[id] = Contents(sa)
  BY <1>5, WholeArray
<1>7. PICK p \in Nat \ {0} : p = f.pos /\ f.last = CellCount(sa) /\ p <= CellCount(sa) + 1 /\ f.last \in Nat
  BY <1>2, <1>4, <1>6 DEF FrameSound, Visits, Frames
<1>8. PICK fs : /\ Put(LoopVar, EnumValue, array, fs)
                /\ Sound(array, var, fs) /\ LocksCounted(array, fs)
                /\ DOMAIN fs = DOMAIN frames /\ \A k \in DOMAIN fs : Alike(frames[k], fs[k])
                /\ EnumValue \in Elements
                /\ \E g \in Frames : fs = Append(Front(frames), g) /\ Onward(g)
  BY EnumNextIsPut
<1>9. PICK g \in Frames : fs = Append(Front(frames), g) /\ Onward(g)
  BY <1>8
<1>10. PICK y : y = EnumValue
  OBVIOUS
<1>11. /\ g.op = "foreach" /\ g.id = id /\ g.last = f.last /\ g.pos = p + 1 /\ g.value = y
       /\ p <= CellCount(sa) => y = sa.pvData[p]
       /\ ~(p <= CellCount(sa)) => y = Empty
  BY <1>2, <1>6, <1>7, <1>9, <1>10 DEF Onward, EnumValue
<1>12. PICK S, R : /\ S = {idx \in Index : InBounds(sa, idx) /\ SafeArrayPtrOfIndex(sa, idx) < p}
                   /\ R = {idx \in Index : InBounds(sa, idx) /\ SafeArrayPtrOfIndex(sa, idx) < p + 1}
  OBVIOUS
<1>13. /\ p <= CellCount(sa) => \E i \in DOMAIN Contents(sa) :
                 i \notin S /\ R = S \cup {i} /\ Contents(sa)[i] = sa.pvData[p]
       /\ p = CellCount(sa) + 1 => S = DOMAIN Contents(sa) /\ R = DOMAIN Contents(sa)
  BY ONLY p \in Nat \ {0}, <1>6, <1>7, <1>12, NextSeen
<1>14. PICK a, b : a = LoopIn(array, f) /\ b = LoopIn(array, g)
  OBVIOUS
<1>15. PICK x, d, e : x = f.value /\ d = (f.pos = f.last + 2) /\ e = (g.pos = g.last + 2)
  OBVIOUS
<1>16. /\ a = [id |-> id, seen |-> S, got |-> x, done |-> d]
       /\ b = [id |-> id, seen |-> R, got |-> y, done |-> e]
  BY <1>6, <1>7, <1>11, <1>12, <1>14, <1>15 DEF LoopIn
<1>17. PICK m : /\ Shows(array, Front(frames), m)
                /\ m \in Seq(LoopSet(array, Frames))
                /\ LoopIn(array, frames[Len(frames)]) \in LoopSet(array, Frames)
                /\ frames[Len(frames)].op # "foreach" => Loops = m
                /\ frames[Len(frames)].op = "foreach" => Loops = Append(m, LoopIn(array, frames[Len(frames)]))
  BY <1>2, <1>3, ShowsPop
<1>18. PICK T : T = LoopSet(array, Frames)
  OBVIOUS
<1>19. m \in Seq(T) /\ a \in T /\ b \in T /\ Loops = Append(m, a)
  <2>1. b \in T
    BY <1>14, <1>18 DEF LoopSet
  <2>. QED
    BY <1>1, <1>2, <1>14, <1>17, <1>18, <2>1
<1>20. Shows(array, fs, Append(m, b))
  <2>1. g.op \in {"foreach", "shrink"} => g.id \in Id /\ array[g.id] # NoArray
    BY <1>5, <1>6, <1>11
  <2>2. g.op = "shrink" => Known([array[g.id].rgsabound EXCEPT ![1] = g.size])
    BY <1>11
  <2>3. Shows(array, Append(Front(frames), g),
              IF g.op = "foreach" THEN Append(m, LoopIn(array, g)) ELSE m)
    BY <1>17, <2>1, <2>2, ShowsPush
  <2>. QED
    BY <1>9, <1>11, <1>14, <2>3
<1>21. PICK l : l = Append(m, b)
  OBVIOUS
<1>22. array' = array /\ Shows(array, frames', l)
  <2>1. LoopVar \in Variable
    BY DEF Variable
  <2>2. EnumValue \in Variants
    BY <1>8, ValuesTyped
  <2>. QED
    BY <1>8, <1>20, <1>21, <2>1, <2>2, PutShows
<1>23. Shows(array', frames', l)
  BY <1>22
<1>24. Loops' = Append(m, b) /\ Shown'
  BY <1>21, <1>23, ShownNext
<1>25. Elems' = Elems
  BY <1>22, ShownParts
<1>26. CASE p <= CellCount(sa)
  <2>1. PICK i \in DOMAIN Contents(sa) : i \notin S /\ R = S \cup {i} /\ Contents(sa)[i] = sa.pvData[p]
    BY <1>13, <1>26
  <2>2. i \in DOMAIN Elems[id] /\ y = Elems[id][i]
    BY <1>6, <1>11, <1>26, <2>1
  <2>3. d = e
    <3>1. CellCount(sa) \in Nat
      BY <1>7
    <3>2. ~(p = CellCount(sa) + 2) /\ ~(p + 1 = CellCount(sa) + 2)
      BY <1>26, <3>1
    <3>. QED
      BY <1>7, <1>11, <1>15, <3>2
  <2>4. b = [id |-> id, seen |-> S \cup {i}, got |-> y, done |-> d]
    BY <1>16, <2>1, <2>3
  <2>5. ContentStep
    BY ONLY <1>16, <1>19, <1>24, <1>25, <2>1, <2>2, <2>4, VisitStep
  <2>. QED
    BY <1>24, <2>5 DEF Refines
<1>27. CASE ~(p <= CellCount(sa))
  <2>1. p = CellCount(sa) + 1
    BY <1>7, <1>27
  <2>2. S = DOMAIN Elems[id] /\ R = S /\ y = Empty
    BY <1>6, <1>11, <1>13, <1>27, <2>1
  <2>3. e = TRUE
    <3>1. CellCount(sa) \in Nat
      BY <1>7
    <3>2. g.pos = g.last + 2
      BY <1>7, <1>11, <2>1, <3>1
    <3>. QED
      BY <1>15, <3>2
  <2>4. b = [id |-> id, seen |-> S, got |-> Empty, done |-> TRUE]
    BY <1>16, <2>2, <2>3
  <2>5. ContentStep
    BY ONLY <1>16, <1>19, <1>24, <1>25, <2>2, <2>4, FinishStep
  <2>. QED
    BY <1>24, <2>5 DEF Refines
<1>. QED
  BY <1>26, <1>27

-------------------------------------------------------------------------------
\* Every statement.
LEMMA StatementSeen == IInv /\ Shown /\ Statement => Refines
<1>. SUFFICES ASSUME IInv, Shown, NEW v \in Variable,
                     \/ \E s \in Shapes : ReDim(v, s) \/ ReDimPreserveNew(v, s) \/ ReDimPreserve(v, s)
                     \/ Erase(v)
                     \/ \E w \in Variable : Assign(v, var[w])
                     \/ Assign(v, Empty) \/ Assign(v, Object)
                     \/ \E idx \in Index, value \in Elements : SetElement(v, idx, value)
                     \/ NewEnum(v) \/ NewEnumOwned(v)
              PROVE  Refines
  BY DEF Statement
<1>1. ASSUME NEW s \in Shapes, ReDim(v, s) PROVE Refines
  BY <1>1, ReDimSeen
<1>2. ASSUME NEW s \in Shapes, ReDimPreserveNew(v, s) PROVE Refines
  BY <1>2, ReDimPreserveNewSeen
<1>3. ASSUME NEW s \in Shapes, ReDimPreserve(v, s) PROVE Refines
  BY <1>3, ReDimPreserveSeen
<1>4. CASE Erase(v)
  BY <1>4, EraseSeen
<1>5. ASSUME NEW w \in Variable, Assign(v, var[w]) PROVE Refines
  BY <1>5, AssignSeen
<1>6. CASE Assign(v, Empty)
  BY <1>6, AssignSeen
<1>7. CASE Assign(v, Object)
  BY <1>7, AssignSeen
<1>8. ASSUME NEW idx \in Index, NEW value \in Elements, SetElement(v, idx, value) PROVE Refines
  BY <1>8, SetElementSeen
<1>9. CASE NewEnum(v)
  BY <1>9, NewEnumSeen
<1>10. CASE NewEnumOwned(v)
  BY <1>10, NewEnumOwnedSeen
<1>. QED
  BY <1>1, <1>2, <1>3, <1>4, <1>5, <1>6, <1>7, <1>8, <1>9, <1>10

\* Every step of VbArrays is a step of ArrayContents or none, and keeps Shown.
LEMMA StepSeen == IInv /\ Shown /\ [Next]_vars => Refines
<1>. SUFFICES ASSUME IInv, Shown, [Next]_vars PROVE Refines
  OBVIOUS
<1>1. CASE Statement
  BY <1>1, StatementSeen
<1>2. CASE Step
  BY <1>2, ClearCellSeen, TerminatorRunsSeen, TerminatorReturnsSeen, AssignFinishedSeen,
     StoreFinishedSeen, DestroyFinishedSeen, ShrinkFinishedSeen, EraseFinishedSeen,
     EnumNextSeen, LoopEndsSeen DEF Step
<1>3. CASE UNCHANGED vars
  <2>1. array' = array /\ frames' = frames
    BY <1>3 DEF vars
  <2>2. Shows(array', frames', Loops)
    BY <2>1 DEF Shown
  <2>. QED
    BY <2>1, <2>2, Unseen
<1>. QED
  BY <1>1, <1>2, <1>3 DEF Next

\* The first state.
LEMMA InitSeen == Init => Shown /\ Abstract!Init
<1>. SUFFICES ASSUME Init PROVE Shown /\ Abstract!Init
  OBVIOUS
<1>1. PICK sc \in SafeArrays :
        sc = SafeArrayCreate(FixedShape) /\ Whole(sc)
          /\ Contents(sc) = [i \in Abstract!Indices(FixedShape) |-> Empty]
  <2>1. FixedShape \in AllShapes
    BY DEF AllShapes
  <2>. QED
    BY <2>1, ContentsCreated DEF Whole
<1>2. PICK sb : sb = [sc EXCEPT !.fixed = TRUE]
  OBVIOUS
<1>3. sb \in SafeArrays /\ sb.rgsabound = sc.rgsabound /\ sb.pvData = sc.pvData
  <2>1. PICK t \in BOOLEAN : t = TRUE
    OBVIOUS
  <2>2. sb = [sc EXCEPT !.fixed = t]
    BY <1>2, <2>1
  <2>. QED
    BY <2>2 DEF SafeArrays
<1>4. Known(sb.rgsabound) /\ Contents(sb) = [i \in Abstract!Indices(FixedShape) |-> Empty]
  BY <1>1, <1>3, ContentsSame DEF Whole
<1>5. /\ array = [id \in Id |-> IF id = FixedId THEN sb ELSE NoArray] /\ frames = <<>>
  BY <1>1, <1>2 DEF Init
<1>6. Shown
  <2>1. array \in [Id -> SafeArrays \cup {NoArray}]
    BY <1>3, <1>5
  <2>2. frames \in Seq(Frames) /\ DOMAIN frames = {}
    BY <1>5
  <2>3. \A id \in Id : array[id] # NoArray => Known(array[id].rgsabound)
    BY <1>4, <1>5
  <2>4. LoopsOf(array, frames) = Loops
    BY ShownParts
  <2>. QED
    BY <2>1, <2>2, <2>3, <2>4 DEF Shown, Shows
<1>7. Loops = <<>>
  BY <1>5, ShownParts, LoopsEmpty
<1>8. Elems \in [Id -> {NoArray} \cup UNION {[Abstract!Indices(s) -> {Empty}] : s \in Shapes \cup {FixedShape}}]
  <2>1. \A id \in Id : array[id] = sb \/ array[id] = NoArray
    BY <1>5
  <2>2. Elems = [id \in Id |-> IF array[id] # NoArray THEN Contents(array[id]) ELSE NoArray]
    BY ShownParts DEF ElemsOf
  <2>3. Contents(sb) \in [Abstract!Indices(FixedShape) -> {Empty}]
    BY <1>4
  <2>4. Contents(sb) \in UNION {[Abstract!Indices(s) -> {Empty}] : s \in Shapes \cup {FixedShape}}
    BY <2>3
  <2>. QED
    BY <2>1, <2>2, <2>4
<1>. QED
  BY <1>6, <1>7, <1>8 DEF Abstract!Init

\* VbArrays implements ArrayContents: cells, strides, locks and the releases in the middle of
\* a statement do not show.
THEOREM ArraysAreFunctionsAlways == Spec => ArraysAreFunctions
<1>1. Init => IInv /\ Shown /\ Abstract!Init
  BY InitSound, InitSeen
<1>2. IInv /\ Shown /\ [Next]_vars => IInv' /\ Shown' /\ [Abstract!Next]_Abstract!contentsVars
  BY Invariance, StepSeen DEF Refines, ContentStep
<1>. QED
  BY <1>1, <1>2, PTL DEF Spec, ArraysAreFunctions, Abstract!Spec
===============================================================================
