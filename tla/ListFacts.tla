------------------------------ MODULE ListFacts -------------------------------
(***************************************************************************)
(* Facts about sequences and numbers that the proofs about the containers, *)
(* the names and the text streams keep needing.                            *)
(***************************************************************************)
EXTENDS Integers, Sequences, SequencesExt, FiniteSets, FiniteSetsExt,
        TLAPS, FiniteSetTheorems, SequenceTheorems, WellFoundedInduction

\* A non-empty set of naturals has a least element, which is its Min.
LEMMA MinIsLeast ==
  ASSUME NEW S \in SUBSET Nat, S # {}
  PROVE  Min(S) \in S /\ \A j \in S : Min(S) <= j
<1>1. PICK k \in S : \A j \in S : <<j, k>> \notin OpToRel(<, Nat)
  BY NatLessThanWellFounded, WFMin
<1>2. \A j \in S : ~(j < k)
  BY <1>1 DEF OpToRel
<1>3. \E k0 \in S : \A j \in S : k0 <= j
  BY <1>2
<1>. QED
  BY <1>3 DEF Min

\* Whatever is in S and not above the rest of S is its Min.
LEMMA MinIs ==
  ASSUME NEW S \in SUBSET Nat, NEW m \in S, \A j \in S : m <= j
  PROVE  Min(S) = m
<1>1. Min(S) \in S /\ \A j \in S : Min(S) <= j
  <2>1. S # {}
    OBVIOUS
  <2>. QED
    BY <2>1, MinIsLeast
<1>2. Min(S) \in Int /\ m \in Int
  <2>1. \A j \in S : j \in Int
    OBVIOUS
  <2>. QED
    BY <1>1, <2>1
<1>3. Min(S) <= m /\ m <= Min(S)
  BY <1>1
<1>. QED
  BY <1>2, <1>3

\* What a list with an element more at its end holds.
LEMMA AppendParts ==
  ASSUME NEW S, NEW s \in Seq(S), NEW x \in S
  PROVE  /\ Append(s, x) \in Seq(S)
         /\ DOMAIN Append(s, x) = 1..Len(s) + 1 /\ DOMAIN s = 1..Len(s)
         /\ \A n \in DOMAIN s : Append(s, x)[n] = s[n]
         /\ Append(s, x)[Len(s) + 1] = x
         /\ Len(Append(s, x)) = Len(s) + 1 /\ Len(s) \in Nat
  BY LenProperties, AppendProperties

\* What a list without its last element holds.
LEMMA FrontParts ==
  ASSUME NEW S, NEW s \in Seq(S), s # <<>>
  PROVE  /\ Front(s) \in Seq(S)
         /\ Len(s) \in Nat \ {0} /\ DOMAIN s = 1..Len(s)
         /\ DOMAIN Front(s) = 1..Len(s) - 1 /\ Len(Front(s)) = Len(s) - 1
         /\ \A n \in DOMAIN Front(s) : Front(s)[n] = s[n]
<1>1. Len(s) \in Nat \ {0} /\ DOMAIN s = 1..Len(s)
  BY EmptySeq, LenProperties
<1>2. /\ SubSeq(s, 1, Len(s) - 1) \in Seq(S)
      /\ Len(SubSeq(s, 1, Len(s) - 1)) = Len(s) - 1
      /\ \A n \in 1..Len(s) - 1 : SubSeq(s, 1, Len(s) - 1)[n] = s[n]
  <2>1. \A i \in 1..Len(s) - 1 : s[i] \in S
    BY <1>1, ElementOfSeq
  <2>. QED
    BY <1>1, <2>1, SubSeqProperties
<1>. QED
  BY <1>1, <1>2, LenProperties DEF Front

\* A list with one element taken out, as list_remove of wine/list.h does.
LEMMA RemoveParts ==
  ASSUME NEW S, NEW s \in Seq(S), IsInjective(s), NEW e
  PROVE  /\ RemoveFirst(s, e) \in Seq(S)
         /\ IsInjective(RemoveFirst(s, e))
         /\ Range(RemoveFirst(s, e)) = Range(s) \ {e}
<1>1. Len(s) \in Nat /\ DOMAIN s = 1..Len(s) /\ \A n \in 1..Len(s) : s[n] \in S
  BY LenProperties, ElementOfSeq
<1>2. CASE ~\E i \in 1..Len(s) : s[i] = e
  <2>1. RemoveFirst(s, e) = s
    BY <1>2 DEF RemoveFirst
  <2>2. e \notin Range(s)
    BY <1>1, <1>2 DEF Range
  <2>. QED
    BY <2>1, <2>2
<1>3. CASE \E i \in 1..Len(s) : s[i] = e
  <2>1. PICK i \in 1..Len(s) : RemoveFirst(s, e) = RemoveAt(s, i) /\ s[i] = e
    <3>. DEFINE I == {j \in 1..Len(s) : s[j] = e}
    <3>1. I \in SUBSET Nat /\ I # {}
      BY <1>1, <1>3
    <3>2. Min(I) \in I
      BY <3>1, MinIsLeast
    <3>3. RemoveFirst(s, e) = RemoveAt(s, Min(I))
      BY <1>3, <3>1 DEF RemoveFirst, SelectInSeq
    <3>. QED
      BY <3>2, <3>3
  <2>. DEFINE a == SubSeq(s, 1, i - 1)
              b == SubSeq(s, i + 1, Len(s))
  <2>2. a \in Seq(S) /\ Len(a) = i - 1 /\ \A n \in 1..i - 1 : a[n] = s[n]
    <3>1. \A n \in 1..i - 1 : s[n] \in S
      BY <1>1
    <3>2. i - 1 \in 1 - 1..Len(s) /\ 1 \in 1..Len(s) + 1
      BY <1>1
    <3>. QED
      BY <1>1, <3>1, <3>2, SubSeqProperties
  <2>3. b \in Seq(S) /\ Len(b) = Len(s) - i /\ \A n \in 1..Len(s) - i : b[n] = s[i + n]
    <3>1. \A n \in i + 1..Len(s) : s[n] \in S
      BY <1>1
    <3>2. i + 1 \in Int /\ Len(s) \in Int
      BY <1>1
    <3>3. /\ b \in Seq(S)
          /\ Len(b) = IF i + 1 <= Len(s) THEN Len(s) - (i + 1) + 1 ELSE 0
          /\ \A n \in 1..Len(s) - (i + 1) + 1 : b[n] = s[(i + 1) + n - 1]
      BY <1>1, <3>1, <3>2, SubSeqProperties
    <3>4. \A n \in 1..Len(s) - i : (i + 1) + n - 1 = i + n /\ n \in 1..Len(s) - (i + 1) + 1
      BY <1>1
    <3>. HIDE DEF b
    <3>5. Len(b) = Len(s) - i
      <4>1. CASE i + 1 <= Len(s)
        BY <1>1, <3>3, <4>1
      <4>2. CASE ~(i + 1 <= Len(s))
        <5>0. PICK m \in Nat : m = Len(s)
          BY <1>1
        <5>1. Len(s) - i = 0
          BY <4>2, <5>0
        <5>. QED
          BY <3>3, <4>2, <5>1
      <4>. QED
        BY <4>1, <4>2
    <3>. QED
      BY <3>3, <3>4, <3>5
  <2>4. /\ a \o b \in Seq(S) /\ Len(a \o b) = Len(s) - 1
        /\ \A n \in 1..Len(s) - 1 : (a \o b)[n] = IF n < i THEN s[n] ELSE s[n + 1]
    <3>. HIDE DEF a, b
    <3>1. /\ a \o b \in Seq(S) /\ Len(a \o b) = Len(a) + Len(b)
          /\ \A n \in 1..Len(a) + Len(b) :
               (a \o b)[n] = IF n <= Len(a) THEN a[n] ELSE b[n - Len(a)]
      BY <2>2, <2>3, ConcatProperties
    <3>2. ASSUME NEW n \in 1..Len(s) - 1
          PROVE  (a \o b)[n] = IF n < i THEN s[n] ELSE s[n + 1]
      <4>1. CASE n < i
        BY <1>1, <2>2, <2>3, <3>1, <4>1
      <4>2. CASE ~(n < i)
        <5>1. n - (i - 1) \in 1..Len(s) - i /\ i + (n - (i - 1)) = n + 1 /\ ~(n <= i - 1)
          BY <1>1, <4>2
        <5>2. b[n - (i - 1)] = s[n + 1]
          BY <2>3, <5>1
        <5>. QED
          BY <1>1, <2>2, <2>3, <3>1, <4>2, <5>1, <5>2
      <4>. QED
        BY <4>1, <4>2
    <3>. QED
      BY <1>1, <2>2, <2>3, <3>1, <3>2
  <2>. DEFINE r == a \o b
  <2>5. RemoveFirst(s, e) = r
    BY <2>1 DEF RemoveAt
  <2>. HIDE DEF r
  <2>6. /\ r \in Seq(S) /\ DOMAIN r = 1..Len(s) - 1
        /\ \A n \in 1..Len(s) - 1 : r[n] = IF n < i THEN s[n] ELSE s[n + 1]
    BY <2>4, LenProperties DEF r
  <2>7. IsInjective(r)
    <3>. SUFFICES ASSUME NEW m \in 1..Len(s) - 1, NEW n \in 1..Len(s) - 1, r[m] = r[n]
                  PROVE  m = n
      BY <2>6 DEF IsInjective
    <3>. DEFINE At(k) == IF k < i THEN k ELSE k + 1
    <3>1. At(m) \in 1..Len(s) /\ At(n) \in 1..Len(s) /\ (At(m) = At(n) => m = n)
      BY <1>1
    <3>2. s[At(m)] = s[At(n)]
      BY <2>6
    <3>3. At(m) = At(n)
      BY <1>1, <3>1, <3>2 DEF IsInjective
    <3>. QED
      BY <3>1, <3>3
  <2>8. ASSUME NEW x
        PROVE  x \in Range(r) <=> x \in Range(s) \ {e}
    <3>1. ASSUME x \in Range(r) PROVE x \in Range(s) \ {e}
      <4>1. PICK n \in 1..Len(s) - 1 : x = r[n]
        BY <2>6, <3>1 DEF Range
      <4>2. PICK k \in 1..Len(s) : x = s[k] /\ k # i
        BY <1>1, <2>6, <4>1
      <4>. QED
        BY <1>1, <2>1, <4>2 DEF Range, IsInjective
    <3>2. ASSUME x \in Range(s) \ {e} PROVE x \in Range(r)
      <4>1. PICK k \in 1..Len(s) : x = s[k] /\ k # i
        BY <1>1, <2>1, <3>2 DEF Range
      <4>2. \E n \in 1..Len(s) - 1 : x = r[n]
        <5>1. CASE k < i
          BY <1>1, <2>6, <4>1, <5>1
        <5>2. CASE k > i
          <6>1. k - 1 \in 1..Len(s) - 1 /\ ~(k - 1 < i) /\ (k - 1) + 1 = k
            BY <1>1, <5>2
          <6>. QED
            BY <2>6, <4>1, <6>1
        <5>. QED
          BY <1>1, <4>1, <5>1, <5>2
      <4>. QED
        BY <2>6, <4>2 DEF Range
    <3>. QED
      BY <3>1, <3>2
  <2>. QED
    BY <2>5, <2>6, <2>7, <2>8
<1>. QED
  BY <1>2, <1>3

\* A function on 1..n is a sequence.
LEMMA FunctionIsSeq ==
  ASSUME NEW S, NEW n \in Nat, NEW f \in [1..n -> S]
  PROVE  f \in Seq(S) /\ Len(f) = n
OBVIOUS

\* A non-empty sequence is its front and its last element.
LEMMA FrontAndLast ==
  ASSUME NEW S, NEW s \in Seq(S), s # <<>>
  PROVE  s[Len(s)] \in S /\ s = Append(Front(s), s[Len(s)])
<1>1. PICK f \in Seq(S), n \in Nat \ {0} :
        /\ f = Front(s) /\ n = Len(s) /\ DOMAIN s = 1..n
        /\ DOMAIN f = 1..n - 1 /\ Len(f) = n - 1
        /\ \A k \in 1..n - 1 : f[k] = s[k]
  BY FrontParts
<1>2. PICK x \in S : x = s[n]
  BY <1>1, ElementOfSeq
<1>3. PICK g \in Seq(S) :
        /\ g = Append(f, x) /\ Len(g) = Len(f) + 1 /\ g[Len(f) + 1] = x
        /\ \A k \in DOMAIN f : g[k] = f[k]
  BY <1>1, <1>2, AppendParts
<1>4. Len(g) = Len(s) /\ g[n] = x
  BY <1>1, <1>3
<1>5. \A k \in 1..n : k = n \/ k \in 1..n - 1
  OBVIOUS
<1>6. \A k \in 1..n : g[k] = s[k]
  BY <1>1, <1>2, <1>3, <1>4, <1>5
<1>7. g = s
  BY <1>1, <1>4, <1>6, SeqEqual
<1>. QED
  BY <1>1, <1>2, <1>3, <1>7

\* Two elements appended at once are two appended one by one.
LEMMA ConcatTwo ==
  ASSUME NEW S, NEW s \in Seq(S), NEW x \in S, NEW y \in S
  PROVE  s \o <<x, y>> = Append(Append(s, x), y)
<1>1. PICK n \in Nat : n = Len(s) /\ DOMAIN s = 1..n
  BY LenProperties
<1>1a. PICK g \in Seq(S) :
        /\ g = Append(s, x) /\ Len(g) = n + 1 /\ g[n + 1] = x
        /\ \A k \in 1..n : g[k] = s[k]
        /\ DOMAIN g = 1..n + 1
  <2>1. /\ Append(s, x) \in Seq(S) /\ Append(s, x)[Len(s) + 1] = x
        /\ Len(Append(s, x)) = Len(s) + 1 /\ DOMAIN Append(s, x) = 1..Len(s) + 1
        /\ \A k \in DOMAIN s : Append(s, x)[k] = s[k]
    BY AppendParts
  <2>. QED
    BY <1>1, <2>1
<1>2. PICK h \in Seq(S) :
        /\ h = Append(g, y) /\ Len(h) = n + 2 /\ h[n + 2] = y
        /\ \A k \in 1..n + 1 : h[k] = g[k]
  <2>1. /\ Append(g, y) \in Seq(S) /\ Append(g, y)[Len(g) + 1] = y
        /\ Len(Append(g, y)) = Len(g) + 1
        /\ \A k \in DOMAIN g : Append(g, y)[k] = g[k]
    BY AppendParts
  <2>2. Len(g) + 1 = n + 2
    BY <1>1a
  <2>. QED
    BY <1>1a, <2>1, <2>2
<1>3. PICK t \in Seq(S) : t = <<x, y>> /\ Len(t) = 2 /\ t[1] = x /\ t[2] = y
  <2>1. /\ <<x, y>> \in Seq(S)
        /\ Len(<<x, y>>) = 2 /\ <<x, y>>[1] = x /\ <<x, y>>[2] = y
    OBVIOUS
  <2>. QED
    BY <2>1
<1>4. PICK c \in Seq(S) :
        /\ c = s \o t /\ Len(c) = n + 2
        /\ \A k \in 1..n + 2 : c[k] = IF k <= n THEN s[k] ELSE t[k - n]
  <2>1. /\ s \o t \in Seq(S) /\ Len(s \o t) = Len(s) + Len(t)
        /\ \A k \in 1..Len(s) + Len(t) : (s \o t)[k] = IF k <= Len(s) THEN s[k] ELSE t[k - Len(s)]
    BY ConcatProperties
  <2>. QED
    BY <1>1, <1>3, <2>1
<1>5. ASSUME NEW k \in 1..n + 2 PROVE c[k] = h[k]
  <2>1. CASE k <= n
    BY <1>1a, <1>2, <1>4, <2>1
  <2>2. CASE k = n + 1
    <3>1. ~(k <= n) /\ k - n = 1 /\ k \in 1..n + 1
      BY <2>2
    <3>. QED
      BY <1>1a, <1>2, <1>3, <1>4, <2>2, <3>1
  <2>3. CASE k = n + 2
    <3>1. ~(k <= n) /\ k - n = 2
      BY <2>3
    <3>. QED
      BY <1>2, <1>3, <1>4, <2>3, <3>1
  <2>4. k <= n \/ k = n + 1 \/ k = n + 2
    OBVIOUS
  <2>. QED
    BY ONLY <2>1, <2>2, <2>3, <2>4
<1>6. c = h
  BY <1>2, <1>4, <1>5, SeqEqual
<1>. QED
  BY <1>1a, <1>2, <1>3, <1>4, <1>6

\* Replacing the last element is taking it away and appending another.
LEMMA LastReplaced ==
  ASSUME NEW S, NEW s \in Seq(S), s # <<>>, NEW x \in S
  PROVE  Append(Front(s), x) = [s EXCEPT ![Len(s)] = x]
<1>1. PICK n \in Nat \ {0} : n = Len(s) /\ DOMAIN s = 1..n
  BY FrontParts
<1>2. PICK f \in Seq(S) : f = Front(s) /\ Len(f) = n - 1 /\ DOMAIN f = 1..n - 1 /\ \A k \in 1..n - 1 : f[k] = s[k]
  BY <1>1, FrontParts
<1>3. PICK g \in Seq(S) :
        g = Append(f, x) /\ Len(g) = n /\ g[n] = x /\ \A k \in 1..n - 1 : g[k] = f[k]
  <2>1. /\ Append(f, x) \in Seq(S) /\ Len(Append(f, x)) = Len(f) + 1 /\ Append(f, x)[Len(f) + 1] = x
        /\ \A k \in DOMAIN f : Append(f, x)[k] = f[k]
    BY AppendParts
  <2>2. Len(f) + 1 = n
    BY <1>1, <1>2
  <2>. QED
    BY <1>2, <2>1, <2>2
<1>4. PICK h \in Seq(S) :
        h = [s EXCEPT ![n] = x] /\ Len(h) = n /\ \A k \in 1..n : h[k] = IF k = n THEN x ELSE s[k]
  <2>1. n \in 1..Len(s)
    BY <1>1
  <2>2. /\ [s EXCEPT ![n] = x] \in Seq(S) /\ Len([s EXCEPT ![n] = x]) = Len(s)
        /\ \A k \in 1..Len(s) : [s EXCEPT ![n] = x][k] = IF k = n THEN x ELSE s[k]
    BY <2>1, ExceptSeq
  <2>. QED
    BY <1>1, <2>2
<1>5. ASSUME NEW k \in 1..n PROVE g[k] = h[k]
  <2>1. CASE k = n
    BY <1>3, <1>4, <2>1
  <2>2. CASE k # n
    <3>1. k \in 1..n - 1
      BY <2>2
    <3>. QED
      BY <1>2, <1>3, <1>4, <2>2, <3>1
  <2>. QED
    BY <2>1, <2>2
<1>6. g = h
  BY <1>3, <1>4, <1>5, SeqEqual
<1>. QED
  BY <1>1, <1>2, <1>3, <1>4, <1>6

-------------------------------------------------------------------------------
\* A set of numbers with 0 and with the successors of its elements is Nat.
LEMMA Induction ==
  ASSUME NEW S \in SUBSET Nat, 0 \in S, \A n \in S : n + 1 \in S
  PROVE  S = Nat
<1>. DEFINE R == Nat \ S
<1>1. SUFFICES ASSUME R # {} PROVE FALSE
  OBVIOUS
<1>2. R \in SUBSET Nat
  OBVIOUS
<1>. HIDE DEF R
<1>3. Min(R) \in R /\ \A j \in R : Min(R) <= j
  BY <1>1, <1>2, MinIsLeast
<1>. USE DEF R
<1>4. PICK m \in Nat : m \notin S /\ \A j \in Nat \ S : m <= j
  BY <1>3
<1>5. m # 0 /\ m - 1 \in Nat /\ ~(m <= m - 1) /\ (m - 1) + 1 = m
  BY <1>4
<1>6. m - 1 \in S
  BY <1>4, <1>5
<1>. QED
  BY <1>4, <1>5, <1>6

\* The naturals are closed under the arithmetic of strides.
LEMMA NatSum ==
  ASSUME NEW x \in Nat, NEW y \in Nat, NEW z \in Nat
  PROVE  x + y * z \in Nat /\ y * z \in Nat
<1>1. y * z \in Nat
  OBVIOUS
<1>2. \A w \in Nat : x + w \in Nat
  OBVIOUS
<1>. QED
  BY <1>1, <1>2

\* x + a * y stays below a * b.
LEMMA Smaller ==
  ASSUME NEW a \in Nat, NEW b \in Nat, NEW x \in Nat, NEW y \in Nat, x < a, y < b
  PROVE  x + a * y < a * b
<1>1. y <= b - 1 /\ b - 1 \in Nat
  OBVIOUS
<1>2. a * y <= a * (b - 1)
  BY <1>1
<1>3. a * (b - 1) = a * b - a
  OBVIOUS
<1>4. a * y \in Nat /\ a * b \in Nat
  OBVIOUS
<1>. QED
  BY <1>2, <1>3, <1>4

\* A sequence of numbers can be defined by p[k] = b[k] + c[k] * p[k - 1].
Follows(p, n, b, c) == \A k \in 1..n : p[k] = b[k] + c[k] * p[k - 1]

\* Such a p exists.
LEMMA RecursionDefines ==
  ASSUME NEW n \in Nat, NEW a \in Nat, NEW b \in [1..n -> Nat], NEW c \in [1..n -> Nat]
  PROVE  \E p \in [0..n -> Nat] : p[0] = a /\ Follows(p, n, b, c)
<1>. DEFINE Partial(m) == m <= n => \E p \in [0..m -> Nat] : p[0] = a /\ Follows(p, m, b, c)
<1>1. Partial(0)
  <2>. DEFINE p == [k \in 0..0 |-> a]
  <2>1. p \in [0..0 -> Nat] /\ p[0] = a /\ Follows(p, 0, b, c)
    BY DEF Follows
  <2>. HIDE DEF p
  <2>. QED
    BY <2>1
<1>2. ASSUME NEW m \in Nat, Partial(m) PROVE Partial(m + 1)
  <2>1. SUFFICES ASSUME m + 1 <= n
                 PROVE  \E p \in [0..m + 1 -> Nat] : p[0] = a /\ Follows(p, m + 1, b, c)
    OBVIOUS
  <2>2. m <= n /\ m + 1 \in 1..n
    BY <2>1
  <2>3. PICK p \in [0..m -> Nat] : p[0] = a /\ Follows(p, m, b, c)
    BY <1>2, <2>2
  <2>. DEFINE last == b[m + 1] + c[m + 1] * p[m]
              q == [k \in 0..m + 1 |-> IF k = m + 1 THEN last ELSE p[k]]
  <2>4. last \in Nat
    <3>1. p[m] \in Nat /\ b[m + 1] \in Nat /\ c[m + 1] \in Nat
      BY <2>2
    <3>. QED
      BY <3>1, NatSum
  <2>5. q \in [0..m + 1 -> Nat] /\ q[0] = a
    BY <2>3, <2>4
  <2>6. ASSUME NEW k \in 1..m + 1 PROVE q[k] = b[k] + c[k] * q[k - 1]
    <3>1. CASE k = m + 1
      BY <3>1
    <3>2. CASE k # m + 1
      <4>1. k \in 1..m /\ k - 1 # m + 1 /\ k - 1 \in 0..m + 1 /\ k \in 0..m + 1
        BY <3>2
      <4>2. q[k] = p[k] /\ q[k - 1] = p[k - 1]
        BY <3>2, <4>1
      <4>3. p[k] = b[k] + c[k] * p[k - 1]
        BY <2>3, <4>1 DEF Follows
      <4>. QED
        BY <4>2, <4>3
    <3>. QED
      BY <3>1, <3>2
  <2>. HIDE DEF q
  <2>7. Follows(q, m + 1, b, c)
    BY <2>6 DEF Follows
  <2>. QED
    BY <2>5, <2>7
<1>. DEFINE S == {m \in Nat : Partial(m)}
<1>. HIDE DEF Partial
<1>3. 0 \in S /\ S \in SUBSET Nat /\ \A m \in S : m + 1 \in S
  BY <1>1, <1>2
<1>4. S = Nat
  <2>. HIDE DEF S
  <2>. QED
    BY <1>3, Induction
<1>5. Partial(n) /\ n <= n
  BY <1>4
<1>. QED
  BY <1>5 DEF Partial

-------------------------------------------------------------------------------
\* What the recursion of FlattenSeq computes: the concatenation of the first i lists.
Flattens(f, ss) ==
  f = [i \in 1..Len(ss) |-> IF i = 1 THEN ss[i] ELSE f[i - 1] \o ss[i]]

\* Such an f exists, and all its values are lists.
LEMMA FlattensExists ==
  ASSUME NEW S, NEW ss \in Seq(Seq(S))
  PROVE  \E f \in [1..Len(ss) -> Seq(S)] : Flattens(f, ss)
<1>. DEFINE n == Len(ss)
            Step(f, m) == \A i \in 1..m : f[i] = IF i = 1 THEN ss[i] ELSE f[i - 1] \o ss[i]
            Part(m) == m <= n => \E f \in [1..m -> Seq(S)] : Step(f, m)
            Good == {m \in Nat : Part(m)}
<1>0. n \in Nat /\ \A i \in 1..n : ss[i] \in Seq(S)
  BY LenProperties, ElementOfSeq
<1>1. Part(0)
  <2>. DEFINE e == [i \in 1..0 |-> <<>>]
  <2>1. e \in [1..0 -> Seq(S)] /\ Step(e, 0)
    OBVIOUS
  <2>. QED
    BY <2>1
<1>2. ASSUME NEW m \in Nat, Part(m) PROVE Part(m + 1)
  <2>1. SUFFICES ASSUME m + 1 <= n
                 PROVE  \E f \in [1..m + 1 -> Seq(S)] : Step(f, m + 1)
    OBVIOUS
  <2>2a. m <= n
    BY <1>0, <2>1
  <2>2. PICK f \in [1..m -> Seq(S)] : Step(f, m)
    BY <1>2, <2>2a
  <2>. DEFINE last == IF m = 0 THEN ss[1] ELSE f[m] \o ss[m + 1]
              g == [i \in 1..m + 1 |-> IF i = m + 1 THEN last ELSE f[i]]
  <2>3. last \in Seq(S)
    <3>1. CASE m = 0
      BY <1>0, <2>1, <3>1
    <3>2. CASE m # 0
      <4>1. f[m] \in Seq(S) /\ ss[m + 1] \in Seq(S)
        BY <1>0, <2>1, <3>2
      <4>. QED
        BY <4>1, <3>2, ConcatProperties
    <3>. QED
      BY <3>1, <3>2
  <2>4. g \in [1..m + 1 -> Seq(S)]
    BY <2>3
  <2>5. ASSUME NEW i \in 1..m + 1 PROVE g[i] = IF i = 1 THEN ss[i] ELSE g[i - 1] \o ss[i]
    <3>1. CASE i = m + 1 /\ i = 1
      <4>1. m = 0 /\ g[i] = last
        BY <3>1
      <4>. QED
        BY <3>1, <4>1
    <3>2. CASE i = m + 1 /\ i # 1
      <4>1. m # 0 /\ i - 1 = m /\ m \in 1..m + 1 /\ m # m + 1
        BY <3>2
      <4>1a. g[i] = f[m] \o ss[m + 1]
        BY <3>2, <4>1
      <4>2. g[i - 1] = f[m]
        BY <4>1
      <4>. QED
        BY <3>2, <4>1, <4>1a, <4>2
    <3>3. CASE i # m + 1
      <4>1. i \in 1..m /\ g[i] = f[i]
        BY <3>3
      <4>2. i # 1 => i - 1 \in 1..m /\ g[i - 1] = f[i - 1]
        BY <4>1
      <4>. QED
        BY <2>2, <4>1, <4>2
    <3>. QED
      BY <3>1, <3>2, <3>3
  <2>. HIDE DEF g
  <2>. QED
    BY <2>4, <2>5
<1>. HIDE DEF Part
<1>3. Good = Nat
  <2>1. Good \in SUBSET Nat /\ 0 \in Good /\ \A m \in Good : m + 1 \in Good
    BY <1>1, <1>2
  <2>. QED
    BY <2>1, Induction
<1>3a. Part(n)
  BY <1>0, <1>3
<1>4. PICK f \in [1..n -> Seq(S)] : Step(f, n)
  BY <1>0, <1>3a DEF Part
<1>5. f = [i \in 1..n |-> IF i = 1 THEN ss[i] ELSE f[i - 1] \o ss[i]]
  BY <1>4
<1>. QED
  BY <1>5 DEF Flattens

\* FlattenSeq is the last of them.
LEMMA FlattenIs ==
  ASSUME NEW S, NEW ss \in Seq(Seq(S)), Len(ss) # 0
  PROVE  \E f \in [1..Len(ss) -> Seq(S)] :
           Flattens(f, ss) /\ FlattenSeq(ss) = f[Len(ss)]
<1>. DEFINE g == CHOOSE f : Flattens(f, ss)
            n == Len(ss)
<1>0. n \in Nat /\ n # 0 /\ \A i \in 1..n : ss[i] \in Seq(S)
  BY LenProperties, ElementOfSeq
<1>1. Flattens(g, ss)
  BY FlattensExists
<1>2. FlattenSeq(ss) = g[Len(ss)]
  BY DEF FlattenSeq, Flattens
<1>. HIDE DEF g
<1>3. \A i \in 1..n : g[i] = IF i = 1 THEN ss[i] ELSE g[i - 1] \o ss[i]
  BY <1>1 DEF Flattens
<1>. DEFINE Good == {m \in Nat : m + 1 <= n => g[m + 1] \in Seq(S)}
<1>4. Good = Nat
  <2>1. 0 \in Good
    BY <1>0, <1>3
  <2>2. ASSUME NEW m \in Good PROVE m + 1 \in Good
    <3>1. SUFFICES ASSUME (m + 1) + 1 <= n PROVE g[(m + 1) + 1] \in Seq(S)
      OBVIOUS
    <3>2. g[m + 1] \in Seq(S)
      BY <1>0, <3>1
    <3>3. (m + 1) + 1 \in 1..n /\ (m + 1) + 1 # 1 /\ ((m + 1) + 1) - 1 = m + 1
      BY <1>0, <3>1
    <3>4. g[(m + 1) + 1] = g[m + 1] \o ss[(m + 1) + 1]
      BY <1>3, <3>3
    <3>5. ss[(m + 1) + 1] \in Seq(S)
      BY <1>0, <3>3
    <3>. QED
      BY <3>2, <3>4, <3>5, ConcatProperties
  <2>. HIDE DEF Good
  <2>3. Good \in SUBSET Nat
    BY DEF Good
  <2>. QED
    BY <2>1, <2>2, <2>3, Induction
<1>5. \A i \in 1..n : g[i] \in Seq(S)
  <2>1. ASSUME NEW i \in 1..n PROVE g[i] \in Seq(S)
    <3>. HIDE DEF Good
    <3>1. PICK m \in Good : m = i - 1 /\ m + 1 = i
      BY <1>0, <1>4
    <3>2. m + 1 <= n => g[m + 1] \in Seq(S)
      BY DEF Good
    <3>. QED
      BY <1>0, <3>1, <3>2
  <2>. QED
    BY <2>1
<1>6. g \in [1..n -> Seq(S)]
  BY <1>1, <1>5 DEF Flattens
<1>. QED
  BY <1>1, <1>2, <1>6

\* Nothing flattened is nothing.
LEMMA FlattenEmpty == FlattenSeq(<<>>) = <<>>
  BY DEF FlattenSeq

\* The concatenation of lists is a list.
LEMMA FlattenType ==
  ASSUME NEW S, NEW ss \in Seq(Seq(S))
  PROVE  FlattenSeq(ss) \in Seq(S)
<1>0. Len(ss) \in Nat
  BY LenProperties
<1>1. CASE Len(ss) = 0
  <2>1. ss = <<>> /\ <<>> \in Seq(S)
    BY <1>1, EmptySeq
  <2>2. FlattenSeq(ss) = <<>>
    BY <2>1, FlattenEmpty
  <2>. QED
    BY <2>1, <2>2
<1>2. CASE Len(ss) # 0
  <2>1. PICK f \in [1..Len(ss) -> Seq(S)] : FlattenSeq(ss) = f[Len(ss)]
    BY <1>2, FlattenIs
  <2>2. Len(ss) \in 1..Len(ss)
    BY <1>0, <1>2
  <2>. QED
    BY <2>1, <2>2
<1>. QED
  BY <1>1, <1>2

\* One more list at the end is concatenated at the end.
LEMMA FlattenAppend ==
  ASSUME NEW S, NEW ss \in Seq(Seq(S)), NEW x \in Seq(S)
  PROVE  FlattenSeq(Append(ss, x)) = FlattenSeq(ss) \o x
<1>. DEFINE tt == Append(ss, x)
            n == Len(ss)
<1>0. n \in Nat
  BY LenProperties
<1>1. /\ tt \in Seq(Seq(S)) /\ Len(tt) = n + 1 /\ tt[n + 1] = x
      /\ \A i \in 1..n : tt[i] = ss[i]
  BY AppendProperties
<1>. HIDE DEF tt
<1>2. PICK g \in [1..n + 1 -> Seq(S)] : Flattens(g, tt) /\ FlattenSeq(tt) = g[n + 1]
  <2>1. Len(tt) # 0
    BY <1>0, <1>1
  <2>. QED
    BY <1>1, <2>1, FlattenIs
<1>2a. \A i \in 1..n + 1 : g[i] = IF i = 1 THEN tt[i] ELSE g[i - 1] \o tt[i]
  BY <1>1, <1>2 DEF Flattens
<1>3. CASE n = 0
  <2>1. ss = <<>>
    BY <1>3, EmptySeq
  <2>2. FlattenSeq(tt) = x
    BY <1>1, <1>2, <1>2a, <1>3
  <2>. QED
    BY <2>1, <2>2, FlattenEmpty, ConcatEmptySeq DEF tt
<1>4. CASE n # 0
  <2>1. PICK f \in [1..n -> Seq(S)] : Flattens(f, ss) /\ FlattenSeq(ss) = f[n]
    BY <1>4, FlattenIs
  <2>2. \A i \in 1..n : f[i] = IF i = 1 THEN ss[i] ELSE f[i - 1] \o ss[i]
    BY <2>1 DEF Flattens
  <2>. DEFINE Good == {m \in Nat : m + 1 <= n => g[m + 1] = f[m + 1]}
  <2>3. 0 \in Good
    <3>1. 1 \in 1..n /\ 1 \in 1..n + 1
      BY <1>0, <1>4
    <3>2. g[1] = tt[1] /\ f[1] = ss[1] /\ tt[1] = ss[1]
      BY <1>1, <1>2a, <2>2, <3>1
    <3>. QED
      BY <3>2
  <2>4. ASSUME NEW m \in Good PROVE m + 1 \in Good
    <3>1. SUFFICES ASSUME (m + 1) + 1 <= n PROVE g[(m + 1) + 1] = f[(m + 1) + 1]
      OBVIOUS
    <3>2. PICK k \in 1..n : k = (m + 1) + 1 /\ k # 1 /\ k - 1 = m + 1 /\ k \in 1..n + 1
      BY <1>0, <3>1
    <3>3. g[k - 1] = f[k - 1]
      BY <1>0, <3>1, <3>2
    <3>4. g[k] = g[k - 1] \o tt[k] /\ f[k] = f[k - 1] \o ss[k] /\ tt[k] = ss[k]
      BY <1>1, <1>2a, <2>2, <3>2
    <3>. QED
      BY <3>2, <3>3, <3>4
  <2>. HIDE DEF Good
  <2>5. Good = Nat
    <3>1. Good \in SUBSET Nat
      BY DEF Good
    <3>. QED
      BY <2>3, <2>4, <3>1, Induction
  <2>6. n - 1 \in Good /\ (n - 1) + 1 = n
    BY <1>0, <1>4, <2>5
  <2>7. g[n] = f[n]
    BY <2>6 DEF Good
  <2>8. g[n + 1] = g[n] \o x
    <3>1. n + 1 \in 1..n + 1 /\ n + 1 # 1 /\ (n + 1) - 1 = n
      BY <1>0, <1>4
    <3>. QED
      BY <1>1, <1>2a, <3>1
  <2>. QED
    BY <1>2, <2>1, <2>7, <2>8 DEF tt
<1>. QED
  BY <1>3, <1>4

\* What holds of the empty list and of one element more holds of every list.
LEMMA ListInduction ==
  ASSUME NEW S, NEW T \in SUBSET Seq(S), <<>> \in T,
         \A s \in T, x \in S : Append(s, x) \in T
  PROVE  T = Seq(S)
<1>. DEFINE Good == {n \in Nat : \A s \in Seq(S) : Len(s) = n => s \in T}
<1>1. 0 \in Good
  BY EmptySeq
<1>2. ASSUME NEW n \in Good PROVE n + 1 \in Good
  <2>1. SUFFICES ASSUME NEW s \in Seq(S), Len(s) = n + 1 PROVE s \in T
    OBVIOUS
  <2>2. s # <<>>
    BY <2>1, EmptySeq
  <2>3. Front(s) \in Seq(S) /\ Len(Front(s)) = Len(s) - 1
    BY <2>2, FrontParts
  <2>4. s[Len(s)] \in S /\ s = Append(Front(s), s[Len(s)])
    BY <2>2, FrontAndLast
  <2>5. Front(s) \in T
    BY <2>1, <2>3
  <2>. QED
    BY <2>4, <2>5
<1>. HIDE DEF Good
<1>3. Good = Nat
  <2>1. Good \in SUBSET Nat
    BY DEF Good
  <2>. QED
    BY <1>1, <1>2, <2>1, Induction
<1>4. ASSUME NEW s \in Seq(S) PROVE s \in T
  BY <1>3, LenProperties DEF Good
<1>. QED
  BY <1>4

\* Flattening two lists of lists together is flattening each.
LEMMA FlattenConcat ==
  ASSUME NEW S, NEW ss \in Seq(Seq(S)), NEW tt \in Seq(Seq(S))
  PROVE  FlattenSeq(ss \o tt) = FlattenSeq(ss) \o FlattenSeq(tt)
<1>. DEFINE T == {uu \in Seq(Seq(S)) : FlattenSeq(ss \o uu) = FlattenSeq(ss) \o FlattenSeq(uu)}
<1>1. <<>> \in T
  <2>1. ss \o <<>> = ss /\ FlattenSeq(ss) \o <<>> = FlattenSeq(ss)
    BY ConcatEmptySeq, FlattenType
  <2>. QED
    BY <2>1, FlattenEmpty, EmptySeq
<1>2. ASSUME NEW uu \in T, NEW x \in Seq(S) PROVE Append(uu, x) \in T
  <2>1. /\ Append(uu, x) = uu \o <<x>> /\ Append(uu, x) \in Seq(Seq(S))
        /\ <<x>> \in Seq(Seq(S))
    BY AppendIsConcat, AppendProperties
  <2>2. ss \o Append(uu, x) = (ss \o uu) \o <<x>>
    BY <2>1, ConcatAssociative
  <2>3. ss \o uu \in Seq(Seq(S))
    BY ConcatProperties
  <2>4. (ss \o uu) \o <<x>> = Append(ss \o uu, x)
    BY <2>3, AppendIsConcat
  <2>5. FlattenSeq(ss \o Append(uu, x)) = (FlattenSeq(ss) \o FlattenSeq(uu)) \o x
    <3>1. FlattenSeq(Append(ss \o uu, x)) = FlattenSeq(ss \o uu) \o x
      BY <2>3, FlattenAppend
    <3>2. FlattenSeq(ss \o uu) = FlattenSeq(ss) \o FlattenSeq(uu)
      OBVIOUS
    <3>. QED
      BY <2>2, <2>4, <3>1, <3>2
  <2>6. FlattenSeq(ss) \in Seq(S) /\ FlattenSeq(uu) \in Seq(S)
    BY FlattenType
  <2>7. FlattenSeq(ss \o Append(uu, x)) = FlattenSeq(ss) \o (FlattenSeq(uu) \o x)
    BY <2>5, <2>6, ConcatAssociative
  <2>8. FlattenSeq(Append(uu, x)) = FlattenSeq(uu) \o x
    BY FlattenAppend
  <2>. QED
    BY <2>1, <2>7, <2>8
<1>. HIDE DEF T
<1>3. T = Seq(Seq(S))
  <2>1. T \in SUBSET Seq(Seq(S))
    BY DEF T
  <2>. QED
    BY <1>1, <1>2, <2>1, ListInduction
<1>. QED
  BY <1>3 DEF T

\* One list, flattened, is that list.
LEMMA FlattenOne ==
  ASSUME NEW S, NEW x \in Seq(S)
  PROVE  <<x>> \in Seq(Seq(S)) /\ FlattenSeq(<<x>>) = x
<1>1. <<>> \in Seq(Seq(S))
  BY EmptySeq
<1>2. Append(<<>>, x) = <<x>>
  OBVIOUS
<1>3. FlattenSeq(Append(<<>>, x)) = FlattenSeq(<<>>) \o x
  BY <1>1, FlattenAppend
<1>. QED
  BY <1>2, <1>3, FlattenEmpty, ConcatEmptySeq

\* A list from a place on is a slice of it and what follows that.
LEMMA Slices ==
  ASSUME NEW S, NEW s \in Seq(S), NEW p \in Nat, NEW q \in Nat, p <= q, q <= Len(s)
  PROVE  /\ SubSeq(s, p + 1, Len(s)) = SubSeq(s, p + 1, q) \o SubSeq(s, q + 1, Len(s))
         /\ SubSeq(s, p + 1, q) \in Seq(S) /\ Len(SubSeq(s, p + 1, q)) = q - p
         /\ SubSeq(s, q + 1, Len(s)) \in Seq(S) /\ Len(SubSeq(s, q + 1, Len(s))) = Len(s) - q
<1>1. PICK n \in Nat : n = Len(s) /\ q <= n
  BY LenProperties
<1>2. SubSeq(s, p + 1, q) \o SubSeq(s, q + 1, n) = SubSeq(s, p + 1, n)
  <2>1. p + 1 \in 1..Len(s) + 1 /\ q \in (p + 1) - 1..Len(s) /\ n \in q..Len(s)
    BY <1>1
  <2>. QED
    BY <2>1, ConcatAdjacentSubSeq
<1>3. SubSeq(s, p + 1, q) \in Seq(S) /\ Len(SubSeq(s, p + 1, q)) = q - p
  BY <1>1
<1>4. SubSeq(s, q + 1, n) \in Seq(S) /\ Len(SubSeq(s, q + 1, n)) = n - q
  BY <1>1
<1>. QED
  BY <1>1, <1>2, <1>3, <1>4

\* The first q elements of a list and those after them are the list.
LEMMA Wholes ==
  ASSUME NEW S, NEW s \in Seq(S), NEW q \in Nat, q <= Len(s)
  PROVE  /\ SubSeq(s, 1, q) \o SubSeq(s, q + 1, Len(s)) = s
         /\ SubSeq(s, 1, q) \in Seq(S) /\ Len(SubSeq(s, 1, q)) = q
         /\ SubSeq(s, q + 1, Len(s)) \in Seq(S) /\ Len(SubSeq(s, q + 1, Len(s))) = Len(s) - q
         /\ SubSeq(s, 1, Len(s)) = s
<1>1. PICK n \in Nat : n = Len(s) /\ q <= n
  BY LenProperties
<1>2. SubSeq(s, 1, q) \o SubSeq(s, q + 1, n) = s /\ SubSeq(s, 1, n) = s
  <2>1. 1 \in 1..Len(s) + 1 /\ q \in 1 - 1..Len(s) /\ n \in q..Len(s)
    BY <1>1
  <2>2. SubSeq(s, 1, n) = s
    BY <1>1
  <2>. QED
    BY <2>1, <2>2, ConcatAdjacentSubSeq
<1>3. SubSeq(s, 1, q) \in Seq(S) /\ Len(SubSeq(s, 1, q)) = q
  BY <1>1
<1>4. SubSeq(s, q + 1, n) \in Seq(S) /\ Len(SubSeq(s, q + 1, n)) = n - q
  BY <1>1
<1>. QED
  BY <1>1, <1>2, <1>3, <1>4

\* The two parts of a concatenation.
LEMMA Concats ==
  ASSUME NEW S, NEW x \in Seq(S), NEW y \in Seq(S)
  PROVE  /\ x \o y \in Seq(S) /\ Len(x \o y) = Len(x) + Len(y)
         /\ SubSeq(x \o y, 1, Len(x)) = x
         /\ SubSeq(x \o y, Len(x) + 1, Len(x) + Len(y)) = y
  OBVIOUS

\* A list is the concatenation of two if it has the elements of one after the other.
LEMMA ConcatIs ==
  ASSUME NEW S, NEW x \in Seq(S), NEW y \in Seq(S), NEW z \in Seq(S),
         Len(z) = Len(x) + Len(y),
         \A i \in 1..Len(x) : z[i] = x[i], \A i \in 1..Len(y) : z[Len(x) + i] = y[i]
  PROVE  z = x \o y
<1>1. /\ x \o y \in Seq(S) /\ Len(x \o y) = Len(x) + Len(y)
      /\ \A i \in 1..Len(x) + Len(y) : (x \o y)[i] = IF i <= Len(x) THEN x[i] ELSE y[i - Len(x)]
  BY ConcatProperties
<1>2. PICK m \in Nat, n \in Nat : m = Len(x) /\ n = Len(y)
  BY LenProperties
<1>3. ASSUME NEW i \in 1..m + n PROVE z[i] = (x \o y)[i]
  <2>1. CASE i <= m
    <3>1. i \in 1..m
      BY <2>1
    <3>. QED
      BY <1>1, <1>2, <2>1, <3>1
  <2>2. CASE ~(i <= m)
    <3>1. PICK k \in 1..n : k = i - m /\ i = m + k
      BY <2>2
    <3>2. z[i] = y[k]
      BY <1>2, <3>1
    <3>. QED
      BY <1>1, <1>2, <2>2, <3>1, <3>2
  <2>. QED
    BY <2>1, <2>2
<1>. QED
  BY <1>1, <1>2, <1>3, SeqEqual
\* Division counts the blocks of B: one more for B more, none for less than B.
LEMMA DivStep ==
  ASSUME NEW B \in Nat \ {0}, NEW x \in Nat
  PROVE  /\ x \div B \in Nat /\ (x + B) \div B = (x \div B) + 1
         /\ x < B => x \div B = 0
  OBVIOUS

\* What a remainder is.
LEMMA ModIs ==
  ASSUME NEW B \in Nat \ {0}, NEW x \in Nat
  PROVE  x % B = x - B * (x \div B)
  OBVIOUS

\* A remainder does not see B.
LEMMA ModStep ==
  ASSUME NEW B \in Nat \ {0}, NEW x \in Nat
  PROVE  (x + B) % B = x % B /\ B % B = 0
<1>1. (x + B) \div B = (x \div B) + 1
  OBVIOUS
<1>2. x + B \in Nat /\ x \div B \in Nat
  OBVIOUS
<1>3. B * ((x \div B) + 1) = B * (x \div B) + B /\ B * (x \div B) \in Nat
  BY <1>2
<1>4. (x + B) % B = (x + B) - (B * (x \div B) + B) /\ x % B = x - B * (x \div B)
  <2>1. PICK y \in Nat : y = x + B /\ y \div B = (x \div B) + 1
    BY <1>1, <1>2
  <2>2. y % B = y - B * (y \div B)
    BY ModIs
  <2>. QED
    BY <1>3, <2>1, <2>2, ModIs
<1>5. B % B = 0
  OBVIOUS
<1>. QED
  BY <1>3, <1>4, <1>5

\* Flattening a list of lists begins with its first.
LEMMA FlattenCons ==
  ASSUME NEW S, NEW x \in Seq(S), NEW ss \in Seq(Seq(S))
  PROVE  <<x>> \o ss \in Seq(Seq(S)) /\ FlattenSeq(<<x>> \o ss) = x \o FlattenSeq(ss)
<1>1. <<x>> \in Seq(Seq(S)) /\ FlattenSeq(<<x>>) = x
  BY FlattenOne
<1>2. FlattenSeq(<<x>> \o ss) = FlattenSeq(<<x>>) \o FlattenSeq(ss)
  BY <1>1, FlattenConcat
<1>. QED
  BY <1>1, <1>2, ConcatProperties

\* Nothing is neutral, and it is the list without elements.
LEMMA Nothing ==
  ASSUME NEW S, NEW x \in Seq(S)
  PROVE  x \o <<>> = x /\ <<>> \o x = x /\ <<>> \in Seq(S) /\ (Len(x) = 0 <=> x = <<>>)
OBVIOUS

\* Nothing twice is nothing.
LEMMA NothingTwice == <<>> \o <<>> = <<>> /\ Len(<<>>) = 0
OBVIOUS

\* Two lists that make nothing are nothing.
LEMMA NothingParts ==
  ASSUME NEW S, NEW x \in Seq(S), NEW y \in Seq(S), x \o y = <<>>
  PROVE  x = <<>> /\ y = <<>>
<1>1. Len(x \o y) = Len(x) + Len(y) /\ Len(x) \in Nat /\ Len(y) \in Nat
  BY Concats, LenProperties
<1>2. Len(x \o y) = 0
  BY NothingTwice
<1>3. Len(x) = 0 /\ Len(y) = 0
  BY <1>1, <1>2
<1>. QED
  BY <1>3, Nothing
===============================================================================
