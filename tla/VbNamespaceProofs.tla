--------------------------- MODULE VbNamespaceProofs ---------------------------
(***************************************************************************)
(* Proofs about VbNamespace: the entries of a script dispatch lead to its   *)
(* slots, what a text declares stands, and the caches change no answer.     *)
(***************************************************************************)
EXTENDS VbNamespace, ListFacts

\* What is cached is what the host or the builtins would answer: a host property
\* only in the dispatch of an item that asks its object, a builtin only for the
\* engine, while no item is visible under its name and none can be added.
CachesSound ==
  \A s \in Scope, n \in Name :
    /\ members[s][n].kind = "host" => s \in disps \ CodeOnly /\ s \notin Members /\ n \in HostProp[s]
    /\ members[s][n].kind = "builtin" =>
         s = NoItem /\ n \in Builtin /\ phase # "waiting" /\ Named(n, Visible) = {}

\* Nothing has run before the host starts the engine.
WaitsIdle == phase = "waiting" => Idle /\ \A s \in Scope : funcs[s] = <<>>

\* The entry of a procedure's name leads back to its slot.
SlotsHaveEntries ==
  \A s \in Scope : \A k \in DOMAIN funcs[s] : members[s][funcs[s][k].name] = Entry("func", k)

\* The class lists hold the code that has run and has classes, and no other.
LinkedSound ==
  /\ \A s \in Scope : \A c \in Range(linked[s]) : codes[c].status = "declared" /\ ScopeOf(c) = s
  /\ \A c \in DOMAIN codes : codes[c].status = "declared" /\ UnitOf(c).classes # {} =>
       c \in Range(linked[ScopeOf(c)])

IInv ==
  /\ TypeOK /\ WaitsIdle
  /\ SlotsMatchEntries /\ SlotsHaveEntries
  /\ CachesSound
  /\ LinkedSound /\ DeclarationsResolve /\ OnlyExecuteCollides

-------------------------------------------------------------------------------
(* Operators of the model.                                                    *)

\* Those(ns, S) lists the names of S that ns has, once each.
LEMMA ThoseParts ==
  ASSUME NEW T, NEW ns \in Seq(T), IsInjective(ns), NEW S
  PROVE  /\ Those(ns, S) \in Seq(T)
         /\ IsInjective(Those(ns, S))
         /\ Range(Those(ns, S)) = Range(ns) \cap S
<1>. DEFINE K == {k \in DOMAIN ns : ns[k] \in S}
            r == [k \in K |-> Cardinality(K \cap 1..k)]
            at(j) == CHOOSE k \in K : Cardinality(K \cap 1..k) = j
<1>1. Len(ns) \in Nat /\ DOMAIN ns = 1..Len(ns) /\ \A k \in 1..Len(ns) : ns[k] \in T
  BY LenProperties, ElementOfSeq
<1>2. IsFiniteSet(K) /\ Cardinality(K) \in Nat /\ K \subseteq Nat
  <2>1. IsFiniteSet(1..Len(ns)) /\ K \in SUBSET (1..Len(ns))
    BY <1>1, FS_Interval
  <2>2. IsFiniteSet(K)
    BY <2>1, FS_Subset
  <2>3. 1..Len(ns) \subseteq Nat
    BY <1>1
  <2>. QED
    BY <2>1, <2>2, <2>3, FS_CardinalityType
<1>. DEFINE c == Cardinality(K)
<1>. HIDE DEF K
<1>3. ASSUME NEW k \in K
      PROVE  Cardinality(K \cap 1..k) \in 1..c /\ IsFiniteSet(K \cap 1..k)
  <2>1. K \cap 1..k \in SUBSET K /\ k \in K \cap 1..k
    <3>1. k \in Nat /\ k # 0
      BY <1>1, <1>2 DEF K
    <3>. QED
      BY <3>1
  <2>2. IsFiniteSet(K \cap 1..k) /\ Cardinality(K \cap 1..k) <= c
    BY <1>2, <2>1, FS_Subset
  <2>3. Cardinality(K \cap 1..k) \in Nat /\ Cardinality(K \cap 1..k) # 0
    BY <2>1, <2>2, FS_CardinalityType, FS_EmptySet
  <2>. QED
    BY <1>2, <2>2, <2>3
<1>4. ASSUME NEW i \in K, NEW j \in K, i < j
      PROVE  Cardinality(K \cap 1..i) # Cardinality(K \cap 1..j)
  <2>1. K \cap 1..i \in SUBSET (K \cap 1..j) /\ j \in K \cap 1..j /\ j \notin K \cap 1..i
    BY <1>2, <1>4
  <2>. QED
    BY <1>3, <2>1, FS_Subset
<1>5. r \in Injection(K, 1..c)
  <2>1. r \in [K -> 1..c]
    BY <1>3
  <2>2. ASSUME NEW i \in K, NEW j \in K, r[i] = r[j] PROVE i = j
    <3>1. i \in Nat /\ j \in Nat
      BY <1>2
    <3>. QED
      BY <3>1, <1>4, <2>2
  <2>. QED
    BY <2>1, <2>2 DEF Injection, IsInjective
<1>6. \A j \in 1..c : at(j) \in K /\ Cardinality(K \cap 1..at(j)) = j
  <2>1. IsFiniteSet(1..c) /\ Cardinality(1..c) = c
    BY <1>2, FS_Interval
  <2>2. r \in Surjection(K, 1..c)
    BY <1>5, <2>1, FS_Injection
  <2>3. \A j \in 1..c : \E k \in K : r[k] = j
    BY <2>2 DEF Surjection
  <2>. QED
    BY <2>3
<1>7. Those(ns, S) = [j \in 1..c |-> ns[at(j)]]
  BY DEF Those, K
<1>. HIDE DEF c, at
<1>8. \A j \in 1..c : ns[at(j)] \in T /\ ns[at(j)] \in S /\ at(j) \in DOMAIN ns
  BY <1>1, <1>6 DEF K
<1>9. Those(ns, S) \in Seq(T)
  <2>1. c \in Nat
    BY <1>2 DEF c
  <2>. QED
    BY <1>7, <1>8, <2>1, SeqDef
<1>10. IsInjective(Those(ns, S))
  <2>1. DOMAIN Those(ns, S) = 1..c /\ \A j \in 1..c : Those(ns, S)[j] = ns[at(j)]
    BY <1>7
  <2>2. ASSUME NEW i \in 1..c, NEW j \in 1..c, ns[at(i)] = ns[at(j)] PROVE i = j
    <3>1. at(i) = at(j)
      BY <1>8, <2>2 DEF IsInjective
    <3>. QED
      BY <1>6, <3>1
  <2>. QED
    BY <2>1, <2>2 DEF IsInjective
<1>11. \A k \in K : k = at(Cardinality(K \cap 1..k)) /\ Cardinality(K \cap 1..k) \in 1..c
  <2>. TAKE k \in K
  <2>1. Cardinality(K \cap 1..k) \in 1..c
    BY <1>3 DEF c
  <2>2. at(r[k]) \in K /\ r[at(r[k])] = r[k]
    BY <1>6, <2>1
  <2>. QED
    BY <1>5, <2>1, <2>2 DEF Injection, IsInjective
<1>12. Range(Those(ns, S)) = Range(ns) \cap S
  <2>1. DOMAIN Those(ns, S) = 1..c /\ \A j \in 1..c : Those(ns, S)[j] = ns[at(j)]
    BY <1>7
  <2>2. \A j \in 1..c : Those(ns, S)[j] \in Range(ns) \cap S
    BY <1>8, <2>1 DEF Range
  <2>3. ASSUME NEW x \in Range(ns) \cap S
        PROVE  \E j \in 1..c : Those(ns, S)[j] = x
    <3>1. PICK k \in DOMAIN ns : ns[k] = x
      BY DEF Range
    <3>2. k \in K
      BY <3>1 DEF K
    <3>. QED
      BY <1>11, <2>1, <3>1, <3>2
  <2>. QED
    BY <2>1, <2>2, <2>3 DEF Range
<1>. QED
  BY <1>9, <1>10, <1>12

\* The first place that has the name, if one has it.
LEMMA PlaceIs ==
  ASSUME NEW tree, NEW s, NEW n
  PROVE  LET p == Place(tree, s, n)
             P == Places(tree, s, n)
         IN  /\ p \in 0..6
             /\ p = 0 => \A k \in 1..6 : P[k] = NotFound
             /\ p # 0 => P[p] # NotFound /\ \A k \in 1..6 : k < p => P[k] = NotFound
<1>. DEFINE P == Places(tree, s, n)
            I == {k \in 1..6 : P[k] # NotFound}
<1>1. DOMAIN P = 1..6 /\ Len(P) = 6
  BY DEF Places
<1>. HIDE DEF P
<1>2. Place(tree, s, n) = IF I # {} THEN Min(I) ELSE 0
  BY <1>1 DEF Place, SelectInSeq, P
<1>3. I # {} => Min(I) \in I /\ \A j \in I : Min(I) <= j
  BY MinIsLeast
<1>. QED
  BY <1>2, <1>3 DEF P

LEMMA UnknownIs ==
  ASSUME NEW tree, NEW s, NEW n, Resolve(tree, s, n) = NotFound
  PROVE  /\ Place(tree, s, n) = 0
         /\ \A k \in 1..6 : Places(tree, s, n)[k] = NotFound
  BY PlaceIs DEF Resolve

-------------------------------------------------------------------------------
(* The slots after a text has run its declarations.                           *)

LEMMA NewFuncsAre ==
  ASSUME TypeOK, NEW s \in Scope, NEW u \in Unit
  PROVE  /\ NewFuncs(s, u) \in Seq(Name) /\ IsInjective(NewFuncs(s, u))
         /\ Len(NewFuncs(s, u)) \in Nat /\ DOMAIN NewFuncs(s, u) = 1..Len(NewFuncs(s, u))
         /\ Range(NewFuncs(s, u)) = {n \in Range(u.funcs) : members[s][n].kind # "func"}
         /\ Range(u.funcs) \subseteq Name
<1>1. u.funcs \in Seq(Name) /\ IsInjective(u.funcs)
  BY NamespaceAssumption
<1>2. Range(u.funcs) \subseteq Name
  BY <1>1, LenProperties, ElementOfSeq DEF Range
<1>3. /\ NewFuncs(s, u) \in Seq(Name) /\ IsInjective(NewFuncs(s, u))
      /\ Range(NewFuncs(s, u)) = Range(u.funcs) \cap {n \in Name : members[s][n].kind # "func"}
  BY <1>1, ThoseParts DEF NewFuncs
<1>. QED
  BY <1>2, <1>3, LenProperties

LEMMA NewDimsAre ==
  ASSUME TypeOK, NEW s \in Scope, NEW u \in Unit
  PROVE  /\ NewDims(s, u) \in Seq(Name) /\ IsInjective(NewDims(s, u))
         /\ Range(NewDims(s, u)) = {n \in Range(u.dims) : ~HasVariable(s, n)}
         /\ Range(u.dims) \subseteq Name
<1>1. u.dims \in Seq(Name) /\ IsInjective(u.dims)
  BY NamespaceAssumption
<1>2. Range(u.dims) \subseteq Name
  BY <1>1, LenProperties, ElementOfSeq DEF Range
<1>3. /\ NewDims(s, u) \in Seq(Name) /\ IsInjective(NewDims(s, u))
      /\ Range(NewDims(s, u)) = Range(u.dims) \cap {n \in Name : ~HasVariable(s, n)}
  BY <1>1, ThoseParts DEF NewDims
<1>. QED
  BY <1>2, <1>3

\* The slot of each procedure of a text: its own if the name is known, else one of
\* those after the last.
LEMMA FuncIndexIs ==
  ASSUME TypeOK, SlotsMatchEntries, NEW s \in Scope, NEW u \in Unit
  PROVE  LET L == Len(funcs[s])
             N == Len(NewFuncs(s, u))
         IN  /\ L \in Nat /\ N \in Nat /\ DOMAIN funcs[s] = 1..L
             /\ \A n \in Range(u.funcs) :
                  IF members[s][n].kind = "func"
                  THEN /\ FuncIndex(s, u, n) = members[s][n].index
                       /\ FuncIndex(s, u, n) \in 1..L
                       /\ funcs[s][FuncIndex(s, u, n)].name = n
                  ELSE /\ FuncIndex(s, u, n) \in L + 1..L + N
                       /\ NewFuncs(s, u)[FuncIndex(s, u, n) - L] = n
             /\ \A m, n \in Range(u.funcs) : FuncIndex(s, u, m) = FuncIndex(s, u, n) => m = n
             /\ \A j \in L + 1..L + N : \E n \in Range(u.funcs) : FuncIndex(s, u, n) = j
<1>. DEFINE L == Len(funcs[s])
            new == NewFuncs(s, u)
            N == Len(new)
            at(n) == CHOOSE k \in DOMAIN new : new[k] = n
<1>1. L \in Nat /\ DOMAIN funcs[s] = 1..L
  <2>1. funcs[s] \in Seq([name : Name, code : DOMAIN codes])
    BY DEF TypeOK
  <2>. QED
    BY <2>1, LenProperties
<1>2. /\ N \in Nat /\ DOMAIN new = 1..N /\ IsInjective(new) /\ Range(u.funcs) \subseteq Name
      /\ Range(new) = {n \in Range(u.funcs) : members[s][n].kind # "func"}
  BY NewFuncsAre
<1>. HIDE DEF new
<1>3. ASSUME NEW n \in Range(u.funcs), members[s][n].kind # "func"
      PROVE  at(n) \in 1..N /\ new[at(n)] = n /\ FuncIndex(s, u, n) = L + at(n)
  <2>1. \E k \in DOMAIN new : new[k] = n
    BY <1>2, <1>3 DEF Range
  <2>. QED
    BY <1>2, <1>3, <2>1 DEF FuncIndex, new
<1>. HIDE DEF at
<1>4. ASSUME NEW n \in Range(u.funcs), members[s][n].kind # "func"
      PROVE  FuncIndex(s, u, n) \in L + 1..L + N /\ new[FuncIndex(s, u, n) - L] = n
  <2>1. PICK a \in 1..N : a = at(n) /\ new[a] = n /\ FuncIndex(s, u, n) = L + a
    BY <1>3, <1>4
  <2>. HIDE DEF L, N
  <2>2. L + a \in L + 1..L + N /\ (L + a) - L = a
    BY <1>1, <1>2
  <2>. QED
    BY <2>1, <2>2
<1>5. ASSUME NEW n \in Range(u.funcs), members[s][n].kind = "func"
      PROVE  /\ FuncIndex(s, u, n) = members[s][n].index
             /\ FuncIndex(s, u, n) \in 1..L
             /\ funcs[s][FuncIndex(s, u, n)].name = n
  <2>1. n \in Name
    BY <1>2
  <2>. QED
    BY <1>1, <1>5, <2>1 DEF FuncIndex, SlotsMatchEntries
<1>6. ASSUME NEW m \in Range(u.funcs), NEW n \in Range(u.funcs), FuncIndex(s, u, m) = FuncIndex(s, u, n)
      PROVE  m = n
  <2>. HIDE DEF L, N
  <2>1. ASSUME NEW i \in 1..L, NEW j \in L + 1..L + N PROVE i # j
    BY <1>1, <1>2
  <2>. QED
    BY <1>4, <1>5, <1>6, <2>1
<1>7. ASSUME NEW j \in L + 1..L + N
      PROVE  \E n \in Range(u.funcs) : FuncIndex(s, u, n) = j
  <2>. HIDE DEF L, N
  <2>1. j - L \in 1..N /\ L + (j - L) = j
    BY <1>1, <1>2
  <2>. DEFINE n == new[j - L]
  <2>2. n \in Range(u.funcs) /\ members[s][n].kind # "func"
    BY <1>2, <2>1 DEF Range
  <2>3. at(n) = j - L
    BY <1>2, <1>3, <2>1, <2>2 DEF IsInjective
  <2>. QED
    BY <1>3, <2>1, <2>2, <2>3
<1>. QED
  BY <1>1, <1>2, <1>4, <1>5, <1>6, <1>7 DEF new

\* global_funcs after a text: each of its procedures in its slot, and every other
\* slot as it was.
FuncSlots(s, u, F) ==
  /\ DOMAIN funcs[s] \subseteq DOMAIN F
  /\ \A n \in Range(u.funcs) : FuncIndex(s, u, n) \in DOMAIN F /\ F[FuncIndex(s, u, n)].name = n
  /\ \A j \in DOMAIN F :
       \/ \E n \in Range(u.funcs) : FuncIndex(s, u, n) = j /\ F[j].name = n
       \/ /\ \A n \in Range(u.funcs) : FuncIndex(s, u, n) # j
          /\ j \in DOMAIN funcs[s] /\ F[j] = funcs[s][j]

LEMMA WithFuncsIs ==
  ASSUME TypeOK, SlotsMatchEntries, NEW s \in Scope, NEW u \in Unit, NEW c
  PROVE  /\ WithFuncs(s, u, c) \in Seq([name : Name, code : DOMAIN codes \cup {c}])
         /\ FuncSlots(s, u, WithFuncs(s, u, c))
<1>. DEFINE L == Len(funcs[s])
            N == Len(NewFuncs(s, u))
            F == WithFuncs(s, u, c)
            Taken(j) == \E n \in Range(u.funcs) : FuncIndex(s, u, n) = j
            who(j) == CHOOSE n \in Range(u.funcs) : FuncIndex(s, u, n) = j
<1>1. /\ L \in Nat /\ N \in Nat /\ DOMAIN funcs[s] = 1..L
      /\ \A n \in Range(u.funcs) : FuncIndex(s, u, n) \in 1..L \/ FuncIndex(s, u, n) \in L + 1..L + N
      /\ \A m, n \in Range(u.funcs) : FuncIndex(s, u, m) = FuncIndex(s, u, n) => m = n
      /\ \A j \in L + 1..L + N : Taken(j)
  BY FuncIndexIs
<1>2. Range(u.funcs) \subseteq Name
  BY NewFuncsAre
<1>3. F = [j \in 1..L + N |-> IF Taken(j) THEN [name |-> who(j), code |-> c] ELSE funcs[s][j]]
  BY DEF WithFuncs
<1>. HIDE DEF F, L, N
<1>4. DOMAIN F = 1..L + N /\ L + N \in Nat
  BY <1>1, <1>3
<1>5. ASSUME NEW j \in 1..L + N
      PROVE  F[j] \in [name : Name, code : DOMAIN codes \cup {c}]
  <2>1. CASE Taken(j)
    <3>1. F[j] = [name |-> who(j), code |-> c] /\ who(j) \in Range(u.funcs)
      BY <1>3, <2>1
    <3>. QED
      BY <1>2, <3>1
  <2>2. CASE ~Taken(j)
    <3>1. j \in 1..L
      BY <1>1, <2>2
    <3>2. funcs[s][j] \in [name : Name, code : DOMAIN codes]
      BY <1>1, <3>1, ElementOfSeq DEF TypeOK, L
    <3>. QED
      BY <1>3, <2>2, <3>2
  <2>. QED
    BY <2>1, <2>2
<1>6. ASSUME NEW n \in Range(u.funcs)
      PROVE  FuncIndex(s, u, n) \in 1..L + N /\ F[FuncIndex(s, u, n)].name = n
  <2>1. FuncIndex(s, u, n) \in 1..L + N
    BY <1>1
  <2>2. who(FuncIndex(s, u, n)) = n
    BY <1>1
  <2>. HIDE DEF who
  <2>. QED
    BY <1>3, <2>1, <2>2
<1>7. ASSUME NEW j \in 1..L + N, ~Taken(j)
      PROVE  j \in 1..L /\ F[j] = funcs[s][j]
  <2>1. j \in 1..L
    BY <1>1, <1>7
  <2>. QED
    BY <1>3, <1>7, <2>1
<1>8. F \in Seq([name : Name, code : DOMAIN codes \cup {c}])
  <2>1. PICK m \in Nat : m = L + N
    BY <1>4
  <2>2. F \in [1..m -> [name : Name, code : DOMAIN codes \cup {c}]]
    BY <1>3, <1>5, <2>1
  <2>. QED
    BY <2>2, SeqDef
<1>9. DOMAIN funcs[s] \subseteq DOMAIN F
  BY <1>1, <1>4
<1>10. \A j \in 1..L + N : Taken(j) => \E n \in Range(u.funcs) : FuncIndex(s, u, n) = j /\ F[j].name = n
  BY <1>6
<1>. QED
  BY <1>1, <1>4, <1>6, <1>7, <1>8, <1>9, <1>10 DEF F, FuncSlots

\* global_vars with new variables at its end.
LEMMA WithVarsIs ==
  ASSUME TypeOK, NEW s \in Scope, NEW ns \in Seq(Name)
  PROVE  LET V == WithVars(s, ns)
         IN  /\ V \in Seq([name : Name, const : BOOLEAN])
             /\ IsPrefix(vars[s], V)
             /\ DOMAIN vars[s] \subseteq DOMAIN V /\ \A k \in DOMAIN vars[s] : V[k] = vars[s][k]
             /\ \A n \in Range(ns) : VarIndex(s, ns, n) \in DOMAIN V /\ V[VarIndex(s, ns, n)].name = n
<1>. DEFINE V == WithVars(s, ns)
            T == [name : Name, const : BOOLEAN]
            more == [k \in DOMAIN ns |-> NewVar(ns[k], FALSE)]
            L == Len(vars[s])
            N == Len(ns)
            at(n) == CHOOSE k \in DOMAIN ns : ns[k] = n
<1>1. N \in Nat /\ DOMAIN ns = 1..N /\ \A k \in 1..N : ns[k] \in Name
  BY LenProperties, ElementOfSeq
<1>2. vars[s] \in Seq(T) /\ L \in Nat /\ DOMAIN vars[s] = 1..L
  <2>1. vars[s] \in Seq(T)
    BY DEF TypeOK
  <2>. QED
    BY <2>1, LenProperties
<1>3. more \in Seq(T) /\ Len(more) = N /\ \A k \in 1..N : more[k].name = ns[k]
  <2>1. more \in [1..N -> T]
    BY <1>1 DEF NewVar
  <2>2. more \in Seq(T)
    <3>. HIDE DEF more, T, N
    <3>. QED
      BY <1>1, <2>1, SeqDef
  <2>3. Len(more) = N
    BY <1>1, <2>1, <2>2, LenProperties
  <2>. QED
    BY <1>1, <2>2, <2>3 DEF NewVar
<1>4. V = vars[s] \o more
  BY DEF WithVars
<1>. HIDE DEF V, T, more, L, N
<1>5. /\ V \in Seq(T) /\ Len(V) = L + N
      /\ \A k \in 1..L : V[k] = vars[s][k]
      /\ \A k \in 1..L + N : V[k] = IF k <= L THEN vars[s][k] ELSE more[k - L]
  <2>1. V \in Seq(T) /\ Len(V) = L + N
    BY <1>2, <1>3, <1>4, ConcatProperties DEF L
  <2>2. \A k \in 1..L + N : V[k] = IF k <= L THEN vars[s][k] ELSE more[k - L]
    BY <1>2, <1>3, <1>4, ConcatProperties DEF L
  <2>. QED
    BY <1>1, <1>2, <2>1, <2>2
<1>6. DOMAIN V = 1..L + N
  BY <1>5, LenProperties
<1>7. IsPrefix(vars[s], V)
  <2>1. L <= L + N
    BY <1>1, <1>2
  <2>2. SubSeq(vars[s], 1, L) = SubSeq(V, 1, L)
    <3>1. SubSeq(vars[s], 1, L) = [i \in 1..L |-> vars[s][i]]
      BY <1>2
    <3>2. SubSeq(V, 1, L) = [i \in 1..L |-> V[i]]
      BY <1>1, <1>2, <1>5
    <3>. QED
      BY <1>5, <3>1, <3>2
  <2>. QED
    BY <1>5, <2>1, <2>2 DEF IsPrefix, L
<1>8. ASSUME NEW n \in Range(ns)
      PROVE  VarIndex(s, ns, n) \in 1..L + N /\ V[VarIndex(s, ns, n)].name = n
  <2>1. at(n) \in 1..N /\ ns[at(n)] = n
    BY <1>1 DEF Range
  <2>2. VarIndex(s, ns, n) = L + at(n)
    BY DEF VarIndex, L
  <2>. HIDE DEF at
  <2>3. L + at(n) \in 1..L + N /\ ~(L + at(n) <= L) /\ (L + at(n)) - L = at(n)
    BY <1>1, <1>2, <2>1
  <2>. QED
    BY <1>3, <1>5, <2>1, <2>2, <2>3
<1>. QED
  BY <1>1, <1>2, <1>5, <1>6, <1>7, <1>8 DEF V, T

-------------------------------------------------------------------------------
(* What a step does to the entries and the slots of the dispatches.           *)

Var == [name : Name, const : BOOLEAN]
Func(C) == [name : Name, code : C]
CodeOf(scopes) == [unit : Unit, scope : scopes, checked : BOOLEAN,
                   status : {"pending", "declared", "local"}]
FrameOf(C) == [code : C, kind : {"main", "proc", "local"}, dyn : SUBSET Name]

\* Slots are never reused: what a step may do to a dispatch.
Grows ==
  \A s \in Scope :
    /\ IsPrefix(vars[s], vars'[s])
    /\ \A k \in DOMAIN funcs[s] :
         k \in DOMAIN funcs'[s] /\ funcs'[s][k].name = funcs[s][k].name
    /\ \A n \in Name :
         /\ members[s][n].kind = "func" => members'[s][n] = members[s][n]
         /\ members[s][n].kind = "var" => members'[s][n].kind \in {"var", "func"}

LEMMA PrefixOfItself ==
  ASSUME TypeOK, NEW s \in Scope
  PROVE  IsPrefix(vars[s], vars[s])
<1>1. vars[s] \in Seq(Var)
  BY DEF TypeOK, Var
<1>2. Len(vars[s]) <= Len(vars[s])
  BY <1>1, LenProperties
<1>. QED
  BY <1>2 DEF IsPrefix

LEMMA EntryIs ==
  ASSUME NEW kind, NEW index
  PROVE  Entry(kind, index).kind = kind /\ Entry(kind, index).index = index
  BY DEF Entry

\* A text runs its declarations.
LEMMA ExecIs ==
  ASSUME TypeOK, SlotsMatchEntries, NEW s \in Scope, NEW u \in Unit, NEW c, exec_global_code(c, s, u)
  PROVE  /\ members' \in [Scope -> [Name -> Entries]]
         /\ vars' \in [Scope -> Seq(Var)] /\ funcs' \in [Scope -> Seq(Func(DOMAIN codes \cup {c}))]
         /\ \A t \in Scope \ {s} :
              members'[t] = members[t] /\ vars'[t] = vars[t] /\ funcs'[t] = funcs[t]
         /\ vars'[s] = WithVars(s, NewDims(s, u)) /\ funcs'[s] = WithFuncs(s, u, c)
         /\ \A n \in Name :
              /\ n \in Range(u.funcs) => members'[s][n] = Entry("func", FuncIndex(s, u, n))
              /\ n \notin Range(u.funcs) /\ n \in Range(NewDims(s, u)) =>
                   members'[s][n] = Entry("var", VarIndex(s, NewDims(s, u), n))
              /\ n \notin Range(u.funcs) /\ n \notin Range(NewDims(s, u)) =>
                   members'[s][n] = members[s][n]
<1>. DEFINE ns == NewDims(s, u)
            tree == [n \in Name |->
                       CASE n \in Range(u.funcs) -> Entry("func", FuncIndex(s, u, n))
                         [] n \in Range(ns) -> Entry("var", VarIndex(s, ns, n))
                         [] OTHER -> members[s][n]]
<1>1. /\ members \in [Scope -> [Name -> Entries]]
      /\ vars \in [Scope -> Seq(Var)] /\ funcs \in [Scope -> Seq(Func(DOMAIN codes))]
  BY DEF TypeOK, Var, Func
<1>2. ns \in Seq(Name)
  BY NewDimsAre
<1>. HIDE DEF ns
<1>3. WithVars(s, ns) \in Seq(Var) /\ \A n \in Range(ns) : VarIndex(s, ns, n) \in Nat
  <2>1. WithVars(s, ns) \in Seq(Var)
    BY <1>2, WithVarsIs DEF Var
  <2>2. DOMAIN WithVars(s, ns) \subseteq Nat
    BY <2>1, LenProperties
  <2>3. \A n \in Range(ns) : VarIndex(s, ns, n) \in DOMAIN WithVars(s, ns)
    BY <1>2, WithVarsIs
  <2>. QED
    BY <2>1, <2>2, <2>3
<1>4. WithFuncs(s, u, c) \in Seq(Func(DOMAIN codes \cup {c})) /\ \A n \in Range(u.funcs) : FuncIndex(s, u, n) \in Nat
  <2>1. WithFuncs(s, u, c) \in Seq(Func(DOMAIN codes \cup {c}))
    BY WithFuncsIs DEF Func
  <2>2. DOMAIN WithFuncs(s, u, c) \subseteq Nat
    BY <2>1, LenProperties
  <2>3. \A n \in Range(u.funcs) : FuncIndex(s, u, n) \in DOMAIN WithFuncs(s, u, c)
    BY WithFuncsIs DEF FuncSlots
  <2>. QED
    BY <2>1, <2>2, <2>3
<1>5. /\ members' = [members EXCEPT ![s] = tree]
      /\ vars' = [vars EXCEPT ![s] = WithVars(s, ns)]
      /\ funcs' = [funcs EXCEPT ![s] = WithFuncs(s, u, c)]
  BY DEF exec_global_code, ns
<1>6. /\ vars' \in [Scope -> Seq(Var)]
      /\ vars'[s] = WithVars(s, ns) /\ \A t \in Scope \ {s} : vars'[t] = vars[t]
  BY <1>1, <1>3, <1>5
<1>7. /\ funcs' \in [Scope -> Seq(Func(DOMAIN codes \cup {c}))]
      /\ funcs'[s] = WithFuncs(s, u, c) /\ \A t \in Scope \ {s} : funcs'[t] = funcs[t]
  <2>1. Seq(Func(DOMAIN codes)) \subseteq Seq(Func(DOMAIN codes \cup {c}))
    <3>1. Func(DOMAIN codes) \subseteq Func(DOMAIN codes \cup {c})
      BY DEF Func
    <3>2. \A S, T : S \subseteq T => Seq(S) \subseteq Seq(T)
      BY SeqDef
    <3>. QED
      BY <3>1, <3>2
  <2>. QED
    BY <1>1, <1>4, <1>5, <2>1
<1>8. \A n \in Name :
        /\ n \in Range(u.funcs) => tree[n] = Entry("func", FuncIndex(s, u, n))
        /\ n \notin Range(u.funcs) /\ n \in Range(ns) => tree[n] = Entry("var", VarIndex(s, ns, n))
        /\ n \notin Range(u.funcs) /\ n \notin Range(ns) => tree[n] = members[s][n]
  <2>1. Range(u.funcs) \cap Range(ns) = {}
    BY NewDimsAre, NamespaceAssumption DEF ns
  <2>. QED
    BY <2>1
<1>9. tree \in [Name -> Entries]
  <2>1. ASSUME NEW n \in Name PROVE tree[n] \in Entries
    BY <1>1, <1>3, <1>4, <1>8 DEF Entry, Entries
  <2>. QED
    BY <2>1
<1>. HIDE DEF tree
<1>10. /\ members' \in [Scope -> [Name -> Entries]]
       /\ members'[s] = tree /\ \A t \in Scope \ {s} : members'[t] = members[t]
  BY <1>1, <1>5, <1>9
<1>. QED
  BY <1>6, <1>7, <1>8, <1>10 DEF ns

\* Its classes come first.
LEMMA ExecLinks ==
  ASSUME NEW C, linked \in [Scope -> Seq(C)], NEW s \in Scope, NEW u \in Unit, NEW c,
         exec_global_code(c, s, u)
  PROVE  /\ linked' \in [Scope -> Seq(C \cup {c})]
         /\ \A t \in Scope \ {s} : linked'[t] = linked[t]
         /\ Range(linked'[s]) = Range(linked[s]) \cup (IF u.classes = {} THEN {} ELSE {c})
<1>. DEFINE D == C \cup {c}
<1>1. linked \in [Scope -> Seq(D)] /\ <<c>> \in Seq(D)
  <2>1. Seq(C) \subseteq Seq(D)
    BY SeqDef
  <2>. QED
    BY <2>1
<1>. HIDE DEF D
<1>2. linked[s] \in Seq(D)
  BY <1>1
<1>3. /\ WithClasses(s, u, c) \in Seq(D)
      /\ Range(WithClasses(s, u, c)) = Range(linked[s]) \cup (IF u.classes = {} THEN {} ELSE {c})
  <2>1. CASE u.classes = {}
    BY <1>2, <2>1 DEF WithClasses
  <2>2. CASE u.classes # {}
    <3>. DEFINE new == <<c>> \o linked[s]
                L == Len(linked[s])
    <3>1. /\ new \in Seq(D) /\ Len(new) = 1 + L
          /\ \A i \in 1..1 + L : new[i] = IF i <= 1 THEN c ELSE linked[s][i - 1]
      BY <1>1, <1>2, ConcatProperties
    <3>2. L \in Nat /\ DOMAIN linked[s] = 1..L /\ DOMAIN new = 1..1 + L
      BY <1>2, <3>1, LenProperties
    <3>. HIDE DEF new, L
    <3>3. ASSUME NEW i \in DOMAIN new
          PROVE  new[i] \in Range(linked[s]) \cup {c}
      BY <3>1, <3>2 DEF Range
    <3>4. new[1] = c
      BY <3>1, <3>2
    <3>5. ASSUME NEW j \in DOMAIN linked[s]
          PROVE  j + 1 \in DOMAIN new /\ new[j + 1] = linked[s][j]
      BY <3>1, <3>2
    <3>6. Range(new) = Range(linked[s]) \cup {c}
      BY <3>2, <3>3, <3>4, <3>5 DEF Range
    <3>. QED
      BY <2>2, <3>1, <3>6 DEF WithClasses, new
  <2>. QED
    BY <2>1, <2>2
<1>4. linked' = [linked EXCEPT ![s] = WithClasses(s, u, c)]
  BY DEF exec_global_code
<1>. QED
  BY <1>1, <1>3, <1>4 DEF D

\* Its declarations keep entries and slots in step.
LEMMA ExecSlots ==
  ASSUME TypeOK, SlotsMatchEntries, SlotsHaveEntries,
         NEW s \in Scope, NEW u \in Unit, NEW c, exec_global_code(c, s, u)
  PROVE  SlotsMatchEntries' /\ SlotsHaveEntries' /\ Grows
<1>. DEFINE ns == NewDims(s, u)
            F == WithFuncs(s, u, c)
            V == WithVars(s, ns)
<1>1. /\ \A t \in Scope \ {s} :
           members'[t] = members[t] /\ vars'[t] = vars[t] /\ funcs'[t] = funcs[t]
      /\ vars'[s] = V /\ funcs'[s] = F
      /\ \A n \in Name :
           /\ n \in Range(u.funcs) => members'[s][n] = Entry("func", FuncIndex(s, u, n))
           /\ n \notin Range(u.funcs) /\ n \in Range(ns) =>
                members'[s][n] = Entry("var", VarIndex(s, ns, n))
           /\ n \notin Range(u.funcs) /\ n \notin Range(ns) => members'[s][n] = members[s][n]
  BY ExecIs
<1>2. /\ DOMAIN funcs[s] \subseteq DOMAIN F
      /\ \A n \in Range(u.funcs) :
           FuncIndex(s, u, n) \in DOMAIN F /\ F[FuncIndex(s, u, n)].name = n
      /\ \A j \in DOMAIN F :
           \/ \E n \in Range(u.funcs) : FuncIndex(s, u, n) = j /\ F[j].name = n
           \/ /\ \A n \in Range(u.funcs) : FuncIndex(s, u, n) # j
              /\ j \in DOMAIN funcs[s] /\ F[j] = funcs[s][j]
  <2>1. FuncSlots(s, u, F)
    BY WithFuncsIs
  <2>. QED
    BY <2>1 DEF FuncSlots
<1>3. /\ ns \in Seq(Name) /\ Range(u.funcs) \subseteq Name
      /\ \A n \in Range(ns) : ~HasVariable(s, n)
  BY NewDimsAre, NewFuncsAre
<1>. HIDE DEF ns
<1>4. /\ IsPrefix(vars[s], V)
      /\ DOMAIN vars[s] \subseteq DOMAIN V /\ \A k \in DOMAIN vars[s] : V[k] = vars[s][k]
      /\ \A n \in Range(ns) : VarIndex(s, ns, n) \in DOMAIN V /\ V[VarIndex(s, ns, n)].name = n
  BY <1>3, WithVarsIs
<1>. HIDE DEF F, V
\* A known procedure keeps its slot.
<1>5. ASSUME NEW n \in Range(u.funcs), members[s][n].kind = "func"
      PROVE  /\ members[s][n] = Entry("func", FuncIndex(s, u, n))
             /\ FuncIndex(s, u, n) \in DOMAIN funcs[s]
             /\ funcs[s][FuncIndex(s, u, n)].name = n
  <2>1. /\ FuncIndex(s, u, n) = members[s][n].index
        /\ FuncIndex(s, u, n) \in DOMAIN funcs[s] /\ funcs[s][FuncIndex(s, u, n)].name = n
    BY <1>5, FuncIndexIs
  <2>. QED
    BY <2>1 DEF SlotsHaveEntries
<1>6. \A j \in DOMAIN funcs[s] :
        funcs[s][j].name \in Name /\ members[s][funcs[s][j].name] = Entry("func", j)
  <2>1. funcs[s] \in Seq(Func(DOMAIN codes))
    BY DEF TypeOK, Func
  <2>2. \A j \in DOMAIN funcs[s] : funcs[s][j] \in Func(DOMAIN codes)
    BY <2>1, LenProperties, ElementOfSeq
  <2>. QED
    BY <2>2 DEF SlotsHaveEntries, Func
\* No variable takes the name of a procedure.
<1>7. \A n \in Range(ns) : members[s][n].kind # "func"
  BY <1>3 DEF HasVariable
\* The slot of a procedure that the text does not declare.
<1>8. ASSUME NEW j \in DOMAIN funcs[s], \A n \in Range(u.funcs) : FuncIndex(s, u, n) # j
      PROVE  /\ F[j] = funcs[s][j] /\ funcs[s][j].name \notin Range(u.funcs)
             /\ members'[s][funcs[s][j].name] = members[s][funcs[s][j].name]
  <2>1. F[j] = funcs[s][j]
    BY <1>2, <1>8
  <2>2. funcs[s][j].name \notin Range(u.funcs)
    BY <1>5, <1>6, <1>8, EntryIs
  <2>3. funcs[s][j].name \notin Range(ns)
    BY <1>6, <1>7, EntryIs
  <2>. QED
    BY <1>1, <1>6, <2>1, <2>2, <2>3
<1>9. ASSUME NEW t \in Scope, t # s
      PROVE  /\ \A n \in Name :
                  /\ members'[t][n].kind = "var" =>
                       members'[t][n].index \in DOMAIN vars'[t] /\ vars'[t][members'[t][n].index].name = n
                  /\ members'[t][n].kind = "func" =>
                       members'[t][n].index \in DOMAIN funcs'[t] /\ funcs'[t][members'[t][n].index].name = n
             /\ \A k \in DOMAIN funcs'[t] : members'[t][funcs'[t][k].name] = Entry("func", k)
  <2>1. members'[t] = members[t] /\ vars'[t] = vars[t] /\ funcs'[t] = funcs[t]
    BY <1>1, <1>9
  <2>. QED
    BY <2>1 DEF SlotsMatchEntries, SlotsHaveEntries
<1>10. \A k \in DOMAIN F : members'[s][F[k].name] = Entry("func", k) /\ F[k].name \in Name
  <2>. TAKE k \in DOMAIN F
  <2>1. CASE \E n \in Range(u.funcs) : FuncIndex(s, u, n) = k /\ F[k].name = n
    BY <1>1, <1>3, <2>1
  <2>2. CASE /\ \A n \in Range(u.funcs) : FuncIndex(s, u, n) # k
             /\ k \in DOMAIN funcs[s] /\ F[k] = funcs[s][k]
    BY <1>6, <1>8, <2>2
  <2>. QED
    BY <1>2, <2>1, <2>2
<1>11. ASSUME NEW n \in Name
       PROVE  /\ members'[s][n].kind = "var" =>
                   members'[s][n].index \in DOMAIN V /\ V[members'[s][n].index].name = n
              /\ members'[s][n].kind = "func" =>
                   members'[s][n].index \in DOMAIN F /\ F[members'[s][n].index].name = n
  <2>1. CASE n \in Range(u.funcs)
    BY <1>1, <1>2, <2>1, EntryIs
  <2>2. CASE n \notin Range(u.funcs) /\ n \in Range(ns)
    BY <1>1, <1>4, <2>2, EntryIs
  <2>3. CASE n \notin Range(u.funcs) /\ n \notin Range(ns)
    <3>1. members'[s][n] = members[s][n]
      BY <1>1, <2>3
    <3>2. members[s][n].kind = "var" =>
            members[s][n].index \in DOMAIN V /\ V[members[s][n].index].name = n
      BY <1>4 DEF SlotsMatchEntries
    <3>3. ASSUME members[s][n].kind = "func"
          PROVE  members[s][n].index \in DOMAIN F /\ F[members[s][n].index].name = n
      <4>1. members[s][n].index \in DOMAIN funcs[s] /\ funcs[s][members[s][n].index].name = n
        BY <3>3 DEF SlotsMatchEntries
      <4>2. members[s][n].index \in DOMAIN F
        BY <1>2, <4>1
      <4>3. \A m \in Range(u.funcs) : FuncIndex(s, u, m) = members[s][n].index => m = n
        BY <1>2, <1>3, <1>5, <1>6, <4>1, FuncIndexIs, EntryIs
      <4>. QED
        BY <1>2, <2>3, <4>1, <4>2, <4>3
    <3>. QED
      BY <3>1, <3>2, <3>3
  <2>. QED
    BY <2>1, <2>2, <2>3
<1>12. SlotsHaveEntries'
  BY <1>1, <1>9, <1>10 DEF SlotsHaveEntries
<1>13. SlotsMatchEntries'
  <2>1. \A t \in Scope : \A j, k \in DOMAIN funcs'[t] : funcs'[t][j].name = funcs'[t][k].name => j = k
    BY <1>12, EntryIs DEF SlotsHaveEntries
  <2>. QED
    BY <1>1, <1>9, <1>11, <2>1 DEF SlotsMatchEntries
<1>14. Grows
  <2>. SUFFICES ASSUME NEW t \in Scope
                PROVE  /\ IsPrefix(vars[t], vars'[t])
                       /\ \A k \in DOMAIN funcs[t] :
                            k \in DOMAIN funcs'[t] /\ funcs'[t][k].name = funcs[t][k].name
                       /\ \A n \in Name :
                            /\ members[t][n].kind = "func" => members'[t][n] = members[t][n]
                            /\ members[t][n].kind = "var" => members'[t][n].kind \in {"var", "func"}
    BY DEF Grows
  <2>1. CASE t # s
    <3>1. members'[t] = members[t] /\ vars'[t] = vars[t] /\ funcs'[t] = funcs[t]
      BY <1>1, <2>1
    <3>. QED
      BY <3>1, PrefixOfItself
  <2>2. CASE t = s
    <3>1. \A k \in DOMAIN funcs[s] : F[k].name = funcs[s][k].name
      <4>. TAKE k \in DOMAIN funcs[s]
      <4>1. CASE \E n \in Range(u.funcs) : FuncIndex(s, u, n) = k
        <5>1. PICK n \in Range(u.funcs) : FuncIndex(s, u, n) = k
          BY <4>1
        <5>2. F[k].name = n
          BY <1>2, <5>1
        <5>3. members[s][n].kind = "func"
          <6>1. \A j \in DOMAIN funcs[s] : j \in 1..Len(funcs[s])
            BY FuncIndexIs
          <6>. QED
            BY <5>1, <6>1, FuncIndexIs
        <5>. QED
          BY <1>5, <5>1, <5>2, <5>3
      <4>2. CASE \A n \in Range(u.funcs) : FuncIndex(s, u, n) # k
        BY <1>8, <4>2
      <4>. QED
        BY <4>1, <4>2
    <3>2. ASSUME NEW n \in Name, members[s][n].kind = "func"
          PROVE  members'[s][n] = members[s][n]
      BY <1>1, <1>5, <1>7, <3>2
    <3>3. ASSUME NEW n \in Name, members[s][n].kind = "var"
          PROVE  members'[s][n].kind \in {"var", "func"}
      BY <1>1, <3>3, EntryIs
    <3>. QED
      BY <1>1, <1>2, <1>4, <2>2, <3>1, <3>2, <3>3
  <2>. QED
    BY <2>1, <2>2
<1>. QED
  BY <1>12, <1>13, <1>14

\* Its declarations have their entries, and nothing new is cached.
LEMMA ExecDeclares ==
  ASSUME TypeOK, SlotsMatchEntries, NEW s \in Scope, NEW u \in Unit, NEW c, exec_global_code(c, s, u)
  PROVE  /\ \A n \in Range(u.funcs) : members'[s][n].kind = "func"
         /\ \A n \in Range(u.dims) : members'[s][n].kind \in {"var", "func"}
         /\ \A t \in Scope, n \in Name :
              members'[t][n].kind \in {"host", "builtin"} => members'[t][n] = members[t][n]
<1>. DEFINE ns == NewDims(s, u)
<1>1. /\ Range(u.funcs) \subseteq Name /\ Range(u.dims) \subseteq Name
      /\ Range(ns) = {n \in Range(u.dims) : ~HasVariable(s, n)}
  BY NewDimsAre, NewFuncsAre
<1>2. /\ \A t \in Scope \ {s} : members'[t] = members[t]
      /\ \A n \in Name :
           /\ n \in Range(u.funcs) => members'[s][n] = Entry("func", FuncIndex(s, u, n))
           /\ n \notin Range(u.funcs) /\ n \in Range(ns) =>
                members'[s][n] = Entry("var", VarIndex(s, ns, n))
           /\ n \notin Range(u.funcs) /\ n \notin Range(ns) => members'[s][n] = members[s][n]
  BY ExecIs
<1>. HIDE DEF ns
<1>3. \A n \in Range(u.dims) \ Range(ns) : members[s][n].kind \in {"var", "func"}
  BY <1>1 DEF HasVariable
<1>4. \A n \in Range(u.dims) : members'[s][n].kind \in {"var", "func"}
  BY <1>1, <1>2, <1>3, EntryIs
<1>5. \A t \in Scope, n \in Name :
        members'[t][n].kind \in {"host", "builtin"} => members'[t][n] = members[t][n]
  BY <1>1, <1>2, EntryIs
<1>. QED
  BY <1>1, <1>2, <1>4, <1>5, EntryIs

\* add_dynamic_var: a name without an entry gets a variable.
LEMMA AddGlobalIs ==
  ASSUME TypeOK, SlotsMatchEntries, SlotsHaveEntries, NEW s \in Scope, NEW n \in Name,
         NEW const \in BOOLEAN, members[s][n].kind = "none",
         AddGlobal(s, n, const, members), UNCHANGED funcs
  PROVE  /\ members' \in [Scope -> [Name -> Entries]] /\ vars' \in [Scope -> Seq(Var)]
         /\ SlotsMatchEntries' /\ SlotsHaveEntries' /\ Grows
         /\ \A t \in Scope \ {s} : members'[t] = members[t] /\ vars'[t] = vars[t]
         /\ \A m \in Name \ {n} : members'[s][m] = members[s][m]
         /\ members'[s][n].kind = "var"
<1>. DEFINE L == Len(vars[s])
            v == NewVar(n, const)
            V == Append(vars[s], v)
<1>1. members \in [Scope -> [Name -> Entries]] /\ vars \in [Scope -> Seq(Var)] /\ vars[s] \in Seq(Var)
  BY DEF TypeOK, Var
<1>2. v \in Var /\ v.name = n
  BY DEF NewVar, Var
<1>. HIDE DEF v
<1>3. /\ V \in Seq(Var) /\ L \in Nat /\ DOMAIN vars[s] = 1..L /\ DOMAIN V = 1..L + 1
      /\ \A k \in 1..L : V[k] = vars[s][k]
      /\ V[L + 1] = v
  BY <1>1, <1>2, AppendParts
<1>4. /\ vars' = [vars EXCEPT ![s] = V]
      /\ members' = [members EXCEPT ![s][n] = Entry("var", L + 1)]
  <2>1. vars' = [vars EXCEPT ![s] = Append(@, v)]
    BY DEF AddGlobal, v
  <2>. QED
    BY <1>1, <2>1 DEF AddGlobal
<1>. HIDE DEF V, L
<1>5. /\ vars' \in [Scope -> Seq(Var)] /\ vars'[s] = V /\ \A t \in Scope \ {s} : vars'[t] = vars[t]
  BY <1>1, <1>3, <1>4
<1>6. Entry("var", L + 1) \in Entries /\ L + 1 \in 1..L + 1
  BY <1>3 DEF Entry, Entries
<1>7. /\ members' \in [Scope -> [Name -> Entries]]
      /\ \A t \in Scope \ {s} : members'[t] = members[t]
      /\ \A m \in Name \ {n} : members'[s][m] = members[s][m]
      /\ members'[s][n] = Entry("var", L + 1)
  BY <1>1, <1>4, <1>6
<1>8. \A t \in Scope, m \in Name : members[t][m].kind # "none" => members'[t][m] = members[t][m]
  BY <1>7
<1>9. IsPrefix(vars[s], V)
  <2>1. Len(V) = L + 1 /\ L <= L + 1
    BY <1>3, LenProperties
  <2>2. SubSeq(vars[s], 1, L) = SubSeq(V, 1, L)
    BY <1>3, <2>1 DEF L
  <2>. QED
    BY <2>1, <2>2 DEF IsPrefix, L
<1>10. \A t \in Scope : IsPrefix(vars[t], vars'[t])
  BY <1>5, <1>9, PrefixOfItself
<1>11. \A t \in Scope : \A k \in DOMAIN funcs[t] :
         funcs[t][k].name \in Name /\ members[t][funcs[t][k].name].kind = "func"
  <2>1. \A t \in Scope : funcs[t] \in Seq(Func(DOMAIN codes))
    BY DEF TypeOK, Func
  <2>2. \A t \in Scope : \A k \in DOMAIN funcs[t] : funcs[t][k] \in Func(DOMAIN codes)
    BY <2>1, LenProperties, ElementOfSeq
  <2>. QED
    BY <2>2, EntryIs DEF Func, SlotsHaveEntries
<1>12. SlotsHaveEntries'
  BY <1>8, <1>11 DEF SlotsHaveEntries
<1>13. SlotsMatchEntries'
  <2>1. ASSUME NEW t \in Scope, NEW m \in Name, members'[t][m].kind = "var"
        PROVE  members'[t][m].index \in DOMAIN vars'[t] /\ vars'[t][members'[t][m].index].name = m
    <3>1. CASE t = s /\ m = n
      <4>1. members'[t][m].index = L + 1
        BY <1>7, <3>1, EntryIs
      <4>. QED
        BY <1>2, <1>3, <1>5, <1>6, <3>1, <4>1
    <3>2. CASE t # s \/ m # n
      <4>1. members'[t][m] = members[t][m]
        BY <1>7, <3>2
      <4>2. members[t][m].index \in DOMAIN vars[t] /\ vars[t][members[t][m].index].name = m
        BY <2>1, <4>1 DEF SlotsMatchEntries
      <4>3. \A k \in DOMAIN vars[t] : k \in DOMAIN vars'[t] /\ vars'[t][k] = vars[t][k]
        BY <1>3, <1>5
      <4>. QED
        BY <4>1, <4>2, <4>3
    <3>. QED
      BY <3>1, <3>2
  <2>2. ASSUME NEW t \in Scope, NEW m \in Name, members'[t][m].kind = "func"
        PROVE  members'[t][m] = members[t][m]
    BY <1>7, <2>2, EntryIs
  <2>. QED
    BY <2>1, <2>2 DEF SlotsMatchEntries
<1>14. Grows
  BY <1>8, <1>10 DEF Grows
<1>. QED
  BY <1>5, <1>7, <1>12, <1>13, <1>14, EntryIs

-------------------------------------------------------------------------------
(* Looking names up.                                                          *)

\* The running code and its dispatch.
LEMMA TopIs ==
  ASSUME TypeOK, ~Idle
  PROVE  /\ Len(frames) \in Nat \ {0} /\ Top.code \in DOMAIN codes
         /\ ScopeOf(Top.code) \in objs \cup {NoItem} /\ ScopeOf(Top.code) \in Scope
         /\ UnitOf(Top.code) \in Unit
<1>1. Len(frames) \in Nat \ {0} /\ frames[Len(frames)].code \in DOMAIN codes
  <2>1. frames \in Seq(FrameOf(DOMAIN codes))
    BY DEF TypeOK, FrameOf
  <2>2. Len(frames) \in Nat \ {0}
    BY <2>1, EmptySeq, LenProperties DEF Idle
  <2>3. frames[Len(frames)] \in FrameOf(DOMAIN codes)
    BY <2>1, <2>2, ElementOfSeq
  <2>. QED
    BY <2>2, <2>3 DEF FrameOf
<1>2. \A c \in DOMAIN codes : codes[c].scope \in objs \cup {NoItem} /\ codes[c].unit \in Unit
  <2>1. codes \in Seq(CodeOf(objs \cup {NoItem}))
    BY DEF TypeOK, CodeOf
  <2>2. \A c \in DOMAIN codes : codes[c] \in CodeOf(objs \cup {NoItem})
    BY <2>1, LenProperties, ElementOfSeq
  <2>. QED
    BY <2>2 DEF CodeOf
<1>3. objs \subseteq Item
  <2>1. \A i \in Range(items) : i \in Item
    BY LenProperties, ElementOfSeq DEF TypeOK, Range
  <2>. QED
    BY <2>1 DEF TypeOK
<1>. QED
  BY <1>1, <1>2, <1>3 DEF Top, ScopeOf, UnitOf, Scope

\* An unknown name has no entry in the dispatch of the running code.
LEMMA UnknownIsFree ==
  ASSUME TypeOK, ~Idle, NEW n \in Name, lookup_identifier(n) = NotFound
  PROVE  members[ScopeOf(Top.code)][n].kind = "none"
<1>. DEFINE s == ScopeOf(Top.code)
            e == members[s][n]
<1>1. s \in Scope
  BY TopIs
<1>. HIDE DEF s
<1>2. Resolve(members, s, n) = NotFound
  BY DEF lookup_identifier, NotFound, Ref, s
<1>3. Places(members, s, n)[1] = NotFound /\ Places(members, s, n)[3] = NotFound
  BY <1>2, UnknownIs
<1>4. FromEntry(e, s) = NotFound
  <2>1. CASE s = NoItem
    BY <1>3, <2>1 DEF Places
  <2>2. CASE s # NoItem
    BY <1>3, <2>2 DEF Places
  <2>. QED
    BY <2>1, <2>2
<1>5. e.kind \in {"none", "var", "func", "host", "builtin"}
  BY <1>1 DEF TypeOK, Entries
<1>. QED
  BY <1>4, <1>5 DEF FromEntry, NotFound, Ref, s

LEMMA NamedParts ==
  ASSUME TypeOK, NEW n, NEW flagged
  PROVE  /\ Named(n, flagged) \subseteq Range(items) \cap flagged
         /\ Range(items) \subseteq Item /\ DOMAIN items \subseteq Nat
         /\ NoItem \notin Range(items) /\ objs \subseteq Item \ Members
<1>1. items \in Seq(Item)
  BY DEF TypeOK
<1>2. DOMAIN items \subseteq Nat /\ \A k \in DOMAIN items : items[k] \in Item
  BY <1>1, LenProperties, ElementOfSeq
<1>3. Range(items) \subseteq Item
  BY <1>2 DEF Range
<1>. QED
  BY <1>2, <1>3, NamespaceAssumption DEF Named, TypeOK

\* What is cached when a name of code of scope s is looked up: nothing over an
\* entry of another kind, and only what CachesSound says.
LEMMA AfterLookupIs ==
  ASSUME TypeOK, NEW s \in objs \cup {NoItem}, NEW n \in Name
  PROVE  /\ AfterLookup(s, n) \in [Scope -> [Name -> Entries]]
         /\ \A t \in Scope, m \in Name :
              \/ AfterLookup(s, n)[t][m] = members[t][m]
              \/ /\ members[t][m].kind \in {"none", "host"} /\ AfterLookup(s, n)[t][m] = Entry("host", 0)
                 /\ t \in disps \ CodeOnly /\ t \in objs /\ t \notin Members /\ m \in HostProp[t]
              \/ /\ members[t][m].kind \in {"none", "builtin"}
                 /\ AfterLookup(s, n)[t][m] = Entry("builtin", 0)
                 /\ t = NoItem /\ m \in Builtin /\ Named(m, Visible) = {}
<1>. DEFINE k == Place(members, s, n)
            P == Places(members, s, n)
            owner == Resolve(members, s, n).scope
<1>1. /\ k \in 0..6
      /\ k = 0 => \A j \in 1..6 : P[j] = NotFound
      /\ k # 0 => P[k] # NotFound /\ \A j \in 1..6 : j < k => P[j] = NotFound
  BY PlaceIs
<1>2. /\ members \in [Scope -> [Name -> Entries]]
      /\ Entry("host", 0) \in Entries /\ Entry("builtin", 0) \in Entries
  BY DEF TypeOK, Entry, Entries
<1>3. ASSUME NEW t \in Scope, NEW kind \in {"host", "builtin"}
      PROVE  /\ Cached(t, n, kind) \in [Scope -> [Name -> Entries]]
             /\ \A r \in Scope, m \in Name :
                  \/ Cached(t, n, kind)[r][m] = members[r][m]
                  \/ /\ r = t /\ m = n /\ members[r][m].kind \in {"none", kind}
                     /\ Cached(t, n, kind)[r][m] = Entry(kind, 0)
  BY <1>2 DEF Cached
<1>4. CASE k = 2
  <2>1. s \in disps \ CodeOnly /\ n \in HostProp[s]
    BY <1>1, <1>4 DEF Places
  <2>2. s \in objs /\ s \in Scope /\ s \notin Members
    <3>1. NoItem \notin Range(items) /\ objs \subseteq Item \ Members
      BY NamedParts
    <3>2. disps \subseteq Range(items)
      BY DEF TypeOK
    <3>. QED
      BY ONLY <2>1, <3>1, <3>2, s \in objs \cup {NoItem} DEF Scope
  <2>3. AfterLookup(s, n) = Cached(s, n, "host")
    BY <1>4 DEF AfterLookup
  <2>. DEFINE C == Cached(s, n, "host")
  <2>4. /\ C \in [Scope -> [Name -> Entries]]
        /\ \A r \in Scope, m \in Name :
             \/ C[r][m] = members[r][m]
             \/ /\ r = s /\ m = n /\ members[r][m].kind \in {"none", "host"}
                /\ C[r][m] = Entry("host", 0)
    BY <1>3, <2>2
  <2>5. AfterLookup(s, n) = C
    BY <2>3
  <2>. HIDE DEF C, P, k, owner
  <2>. QED
    BY <2>1, <2>2, <2>4, <2>5
<1>5. CASE k = 5
  <2>1. P[5] # NotFound /\ P[4] = NotFound
    BY <1>1, <1>5
  <2>2. n \in Builtin
    BY <2>1 DEF Places
  <2>3. Named(n, Visible) = {}
    BY <2>1 DEF Places, NotFound, Ref
  <2>4. AfterLookup(s, n) = Cached(NoItem, n, "builtin")
    BY <1>5 DEF AfterLookup
  <2>5. NoItem \in Scope
    BY DEF Scope
  <2>. QED
    BY <1>3, <2>2, <2>3, <2>4, <2>5
\* An item with global members has no dispatch, so nothing is cached.
<1>6. CASE k = 6
  <2>. DEFINE K == ItemsWithMember(members, n)
  <2>1. P[6] # NotFound
    BY <1>1, <1>6
  <2>2. K # {}
    BY <2>1 DEF Places
  <2>3. K \in SUBSET Nat /\ \A j \in K : items[j] \in Members
    BY NamedParts DEF ItemsWithMember
  <2>4. items[Min(K)] \in Members
    BY <2>2, <2>3, MinIsLeast
  <2>5. owner = items[Min(K)]
    <3>1. Resolve(members, s, n) = P[6]
      BY <1>6 DEF Resolve
    <3>2. P[6] = Ref("disp", items[Min(K)], 0)
      BY <2>2 DEF Places
    <3>. QED
      BY <3>1, <3>2 DEF Ref
  <2>6. owner \notin objs
    BY <2>4, <2>5 DEF TypeOK
  <2>7. AfterLookup(s, n) = members
    BY <1>6, <2>6 DEF AfterLookup
  <2>. QED
    BY <1>2, <2>7
<1>7. CASE k \notin {2, 5, 6}
  <2>1. AfterLookup(s, n) = members
    BY <1>7 DEF AfterLookup
  <2>. QED
    BY <1>2, <2>1
<1>. QED
  BY <1>4, <1>5, <1>6, <1>7

LEMMA ResolveIs ==
  ASSUME NEW tree, NEW s, NEW n, NEW k \in 1..6, Places(tree, s, n)[k] # NotFound,
         \A j \in 1..6 : j < k => Places(tree, s, n)[j] = NotFound
  PROVE  Resolve(tree, s, n) = Places(tree, s, n)[k]
<1>1. LET p == Place(tree, s, n)
          P == Places(tree, s, n)
      IN  /\ p \in 0..6
          /\ p = 0 => \A j \in 1..6 : P[j] = NotFound
          /\ p # 0 => P[p] # NotFound /\ \A j \in 1..6 : j < p => P[j] = NotFound
  BY PlaceIs
<1>2. Place(tree, s, n) = k
  BY <1>1
<1>. QED
  BY <1>2 DEF Resolve

\* While only what CachesSound says is cached, no answer comes from a cache that
\* would not come from behind it.
LEMMA FreshFollows ==
  ASSUME TypeOK, CachesSound
  PROVE  LookupsAreFresh
<1>. SUFFICES ASSUME NEW s \in objs \cup {NoItem}, NEW n \in Name
              PROVE  Resolve(members, s, n) = Resolve(WithoutCaches, s, n)
  BY DEF LookupsAreFresh
<1>. DEFINE P == Places(members, s, n)
            Q == Places(WithoutCaches, s, n)
            Caching(t) == members[t][n].kind \in {"host", "builtin"}
<1>1. s \in Scope /\ NoItem \in Scope /\ objs \cap Members = {} /\ NoItem \notin disps
  BY NamedParts DEF Scope, TypeOK
<1>2. ASSUME NEW t \in Scope
      PROVE  FromEntry(WithoutCaches[t][n], t) =
               IF Caching(t) THEN NotFound ELSE FromEntry(members[t][n], t)
  <2>1. WithoutCaches[t][n] = IF Caching(t) THEN NoEntry ELSE members[t][n]
    BY DEF WithoutCaches
  <2>2. FromEntry(NoEntry, t) = NotFound
    BY DEF FromEntry, NoEntry
  <2>. QED
    BY <2>1, <2>2
<1>3. P[2] = Q[2] /\ P[4] = Q[4] /\ P[5] = Q[5]
  BY DEF Places
<1>4. P[6] = Q[6]
  <2>1. ItemsWithMember(members, n) = ItemsWithMember(WithoutCaches, n)
    BY <1>1 DEF ItemsWithMember
  <2>. QED
    BY <2>1 DEF Places
<1>5. ~Caching(s) \/ s = NoItem => P[1] = Q[1]
  BY <1>1, <1>2 DEF Places
<1>6. ~Caching(NoItem) => P[3] = Q[3]
  BY <1>1, <1>2 DEF Places
\* The host's property is found in the second place.
<1>7. CASE Caching(s) /\ s # NoItem
  <2>1. members[s][n].kind = "host" /\ s \in disps \ CodeOnly /\ n \in HostProp[s]
    BY <1>1, <1>7 DEF CachesSound
  <2>2. P[1] = Ref("disp", s, 0) /\ P[1] # NotFound
    BY <1>7, <2>1 DEF Places, FromEntry, NotFound, Ref
  <2>3. Q[1] = NotFound
    BY <1>1, <1>2, <1>7 DEF Places
  <2>4. Q[2] = Ref("disp", s, 0)
    BY <2>1 DEF Places
  <2>5. Resolve(members, s, n) = P[1]
    <3>1. \A j \in 1..6 : ~(j < 1)
      OBVIOUS
    <3>. QED
      BY <2>2, <3>1, ResolveIs
  <2>6. Resolve(WithoutCaches, s, n) = Q[2]
    <3>1. \A j \in 1..6 : j < 2 => j = 1
      OBVIOUS
    <3>. QED
      BY <2>2, <2>3, <2>4, <3>1, ResolveIs
  <2>. QED
    BY <2>2, <2>4, <2>5, <2>6
\* The builtin is found in the fifth.
<1>8. CASE P[1] = Q[1] /\ Caching(NoItem)
  <2>1. members[NoItem][n].kind = "builtin" /\ n \in Builtin /\ Named(n, Visible) = {}
    BY <1>1, <1>8 DEF CachesSound
  <2>2. P[3] = Ref("builtin", NoItem, 0) /\ P[3] # NotFound
    BY <2>1 DEF Places, FromEntry, NotFound, Ref
  <2>3. Q[3] = NotFound /\ Q[4] = NotFound /\ Q[5] = Ref("builtin", NoItem, 0)
    BY <1>1, <1>2, <1>8, <2>1 DEF Places
  <2>4. CASE P[1] # NotFound
    <3>1. \A j \in 1..6 : ~(j < 1)
      OBVIOUS
    <3>2. Resolve(members, s, n) = P[1]
      BY <2>4, <3>1, ResolveIs
    <3>3. Resolve(WithoutCaches, s, n) = Q[1]
      BY <1>8, <2>4, <3>1, ResolveIs
    <3>. QED
      BY <1>8, <3>2, <3>3
  <2>5. CASE P[1] = NotFound /\ P[2] # NotFound
    <3>1. \A j \in 1..6 : j < 2 => j = 1
      OBVIOUS
    <3>2. Resolve(members, s, n) = P[2]
      BY <2>5, <3>1, ResolveIs
    <3>3. Q[1] = NotFound /\ Q[2] # NotFound
      BY <1>3, <1>8, <2>5
    <3>4. Resolve(WithoutCaches, s, n) = Q[2]
      BY <3>1, <3>3, ResolveIs
    <3>. QED
      BY <1>3, <3>2, <3>4
  <2>6. CASE P[1] = NotFound /\ P[2] = NotFound
    <3>1. (\A j \in 1..6 : j < 3 => j \in {1, 2}) /\ (\A j \in 1..6 : j < 5 => j \in {1, 2, 3, 4})
      OBVIOUS
    <3>2. Resolve(members, s, n) = P[3]
      BY <2>2, <2>6, <3>1, ResolveIs
    <3>3. Q[1] = NotFound /\ Q[2] = NotFound /\ Q[5] # NotFound
      BY <1>3, <1>8, <2>2, <2>3, <2>6
    <3>4. Resolve(WithoutCaches, s, n) = Q[5]
      BY <2>3, <3>1, <3>3, ResolveIs
    <3>. QED
      BY <2>2, <2>3, <3>2, <3>4
  <2>. QED
    BY <2>4, <2>5, <2>6
<1>9. CASE P[1] = Q[1] /\ ~Caching(NoItem)
  <2>1. P = Q
    <3>1. P[3] = Q[3]
      BY <1>6, <1>9
    <3>. QED
      BY <1>3, <1>4, <1>9, <3>1 DEF Places
  <2>. HIDE DEF P, Q
  <2>2. Place(members, s, n) = Place(WithoutCaches, s, n)
    BY <2>1 DEF Place, P, Q
  <2>. QED
    BY <2>1, <2>2 DEF Resolve, P, Q
<1>. QED
  BY <1>5, <1>7, <1>8, <1>9

-------------------------------------------------------------------------------
(* Type correctness.                                                          *)

NamesTyped ==
  /\ members \in [Scope -> [Name -> Entries]]
  /\ vars \in [Scope -> Seq(Var)] /\ funcs \in [Scope -> Seq(Func(DOMAIN codes))]
  /\ linked \in [Scope -> Seq(DOMAIN codes)]
EmptyOutside ==
  \A s \in Scope \ (objs \cup {NoItem}) :
    vars[s] = <<>> /\ funcs[s] = <<>> /\ \A n \in Name : members[s][n] = NoEntry
HostTyped ==
  /\ objs \subseteq Range(items) \ Members /\ disps \subseteq Range(items)
  /\ items \in Seq(Item) /\ IsInjective(items)
CodesTyped == codes \in Seq(CodeOf(objs \cup {NoItem}))
FramesTyped ==
  /\ frames \in Seq(FrameOf(DOMAIN codes))
  /\ \A d \in DOMAIN frames : frames[d].kind = "local" => d > 1 /\ frames[d - 1].kind = "proc"
PhaseTyped == phase \in {"waiting", "running", "run"}

LEMMA Types ==
  /\ TypeOK <=> NamesTyped /\ EmptyOutside /\ HostTyped /\ CodesTyped /\ FramesTyped /\ PhaseTyped
  /\ TypeOK' <=> NamesTyped' /\ EmptyOutside' /\ HostTyped' /\ CodesTyped' /\ FramesTyped' /\ PhaseTyped'
  BY DEF TypeOK, NamesTyped, EmptyOutside, HostTyped, CodesTyped, FramesTyped, PhaseTyped,
         Var, Func, CodeOf, FrameOf

LEMMA SeqGrows ==
  ASSUME NEW S, NEW T, S \subseteq T
  PROVE  Seq(S) \subseteq Seq(T)
  BY SeqDef

LEMMA ScopesAre ==
  ASSUME TypeOK
  PROVE  /\ NoItem \in Scope /\ objs \subseteq Scope /\ objs \cup {NoItem} \subseteq Scope
         /\ Range(items) \subseteq Scope \ {NoItem}
  BY NamedParts DEF Scope

\* More code is there, and more dispatches.
LEMMA CodesGrow ==
  ASSUME TypeOK, NEW u \in Unit, NEW status \in {"pending", "declared", "local"},
         NEW checked \in BOOLEAN, objs \subseteq objs', NEW s \in objs' \cup {NoItem},
         codes' = Append(codes, Code(u, s, status, checked))
  PROVE  /\ CodesTyped'
         /\ DOMAIN codes = 1..Len(codes) /\ Len(codes) \in Nat
         /\ DOMAIN codes' = 1..Len(codes) + 1 /\ DOMAIN codes \subseteq DOMAIN codes'
         /\ Len(codes) + 1 \in DOMAIN codes'
         /\ codes'[Len(codes) + 1] = Code(u, s, status, checked)
         /\ \A c \in DOMAIN codes : codes'[c] = codes[c]
<1>1. codes \in Seq(CodeOf(objs' \cup {NoItem}))
  <2>1. codes \in Seq(CodeOf(objs \cup {NoItem}))
    BY DEF TypeOK, CodeOf
  <2>2. CodeOf(objs \cup {NoItem}) \subseteq CodeOf(objs' \cup {NoItem})
    BY DEF CodeOf
  <2>. QED
    BY <2>1, <2>2, SeqGrows
<1>2. Code(u, s, status, checked) \in CodeOf(objs' \cup {NoItem})
  BY DEF Code, CodeOf
<1>3. /\ codes' \in Seq(CodeOf(objs' \cup {NoItem}))
      /\ DOMAIN codes' = 1..Len(codes) + 1 /\ DOMAIN codes = 1..Len(codes)
      /\ \A c \in DOMAIN codes : codes'[c] = codes[c]
      /\ codes'[Len(codes) + 1] = Code(u, s, status, checked) /\ Len(codes) \in Nat
  BY <1>1, <1>2, AppendParts
<1>. QED
  BY <1>3 DEF CodesTyped

\* A frame more on top.
LEMMA PushTypes ==
  ASSUME FramesTyped, NEW f \in FrameOf(DOMAIN codes'), DOMAIN codes \subseteq DOMAIN codes',
         f.kind # "local", Push(f)
  PROVE  FramesTyped'
<1>1. frames \in Seq(FrameOf(DOMAIN codes'))
  <2>1. FrameOf(DOMAIN codes) \subseteq FrameOf(DOMAIN codes')
    BY DEF FrameOf
  <2>. QED
    BY <2>1, SeqGrows DEF FramesTyped
<1>2. /\ frames' \in Seq(FrameOf(DOMAIN codes')) /\ DOMAIN frames' = 1..Len(frames) + 1
      /\ DOMAIN frames = 1..Len(frames) /\ Len(frames) \in Nat
      /\ \A d \in DOMAIN frames : frames'[d] = frames[d]
      /\ frames'[Len(frames) + 1] = f
  BY <1>1, AppendParts DEF Push
<1>3. ASSUME NEW d \in DOMAIN frames', frames'[d].kind = "local"
      PROVE  d > 1 /\ frames'[d - 1].kind = "proc"
  <2>1. d \in DOMAIN frames /\ frames[d].kind = "local"
    BY <1>2, <1>3
  <2>2. d > 1 /\ frames[d - 1].kind = "proc"
    BY <2>1 DEF FramesTyped
  <2>3. d - 1 \in DOMAIN frames
    BY <1>2, <2>1, <2>2
  <2>. QED
    BY <1>2, <2>2, <2>3
<1>. QED
  BY <1>2, <1>3 DEF FramesTyped

\* Code of scope s runs its declarations.
LEMMA ExecTypes ==
  ASSUME TypeOK, SlotsMatchEntries, NEW u \in Unit, objs \subseteq objs', objs' \subseteq Scope,
         NEW s \in objs' \cup {NoItem},
         NEW c \in DOMAIN codes', DOMAIN codes \subseteq DOMAIN codes', exec_global_code(c, s, u)
  PROVE  NamesTyped' /\ EmptyOutside' /\ FramesTyped'
<1>1. s \in Scope
  BY DEF Scope
<1>2. /\ members' \in [Scope -> [Name -> Entries]]
      /\ vars' \in [Scope -> Seq(Var)] /\ funcs' \in [Scope -> Seq(Func(DOMAIN codes \cup {c}))]
      /\ \A t \in Scope \ {s} :
           members'[t] = members[t] /\ vars'[t] = vars[t] /\ funcs'[t] = funcs[t]
  BY <1>1, ExecIs
<1>3. NamesTyped'
  <2>1. Func(DOMAIN codes \cup {c}) \subseteq Func(DOMAIN codes')
    BY DEF Func
  <2>2. Seq(Func(DOMAIN codes \cup {c})) \subseteq Seq(Func(DOMAIN codes'))
    BY <2>1, SeqGrows
  <2>3. linked' \in [Scope -> Seq(DOMAIN codes')]
    <3>1. linked' \in [Scope -> Seq(DOMAIN codes \cup {c})]
      BY <1>1, ExecLinks DEF TypeOK
    <3>2. Seq(DOMAIN codes \cup {c}) \subseteq Seq(DOMAIN codes')
      BY SeqGrows
    <3>. QED
      BY <3>1, <3>2
  <2>. QED
    BY <1>1, <1>2, <2>2, <2>3 DEF NamesTyped
<1>4. EmptyOutside'
  BY <1>2 DEF TypeOK, EmptyOutside
<1>5. FramesTyped'
  <2>1. Frame(c, "main") \in FrameOf(DOMAIN codes') /\ Frame(c, "main").kind # "local"
    BY DEF Frame, FrameOf
  <2>2. Push(Frame(c, "main"))
    BY DEF exec_global_code
  <2>. QED
    BY <2>1, <2>2, PushTypes, Types
<1>. QED
  BY <1>3, <1>4, <1>5

\* Dispatches and objects are only added, for items of the list.
LEMMA HostGrows ==
  ASSUME TypeOK, NEW S \in SUBSET Range(items), objs' = objs \cup (S \ Members),
         disps' \subseteq disps \cup S, UNCHANGED items
  PROVE  HostTyped' /\ objs \subseteq objs' /\ objs' \subseteq Scope
<1>1. objs' \subseteq Range(items) \ Members /\ disps' \subseteq Range(items)
  BY DEF TypeOK
<1>. QED
  BY <1>1, ScopesAre DEF TypeOK, HostTyped

LEMMA LookedIs ==
  ASSUME TypeOK, NEW n, Looked(n), UNCHANGED <<items, codes>>
  PROVE  /\ HostTyped' /\ CodesTyped' /\ objs \subseteq objs' /\ disps \subseteq disps'
         /\ objs' \subseteq Scope
<1>1. PICK S \in SUBSET Range(items) : objs' = objs \cup (S \ Members) /\ disps' = disps \cup S
  <2>1. \A s : Visited(s, n) \subseteq Range(items)
    BY NamedParts DEF Visited
  <2>. QED
    BY <2>1 DEF Looked, Fetch
<1>2. HostTyped' /\ objs \subseteq objs' /\ objs' \subseteq Scope
  BY <1>1, HostGrows
<1>3. CodesTyped'
  <2>1. CodeOf(objs \cup {NoItem}) \subseteq CodeOf(objs' \cup {NoItem})
    BY <1>2 DEF CodeOf
  <2>2. codes \in Seq(CodeOf(objs \cup {NoItem}))
    BY DEF TypeOK, CodeOf
  <2>. QED
    BY <2>1, <2>2, SeqGrows DEF CodesTyped
<1>. QED
  BY <1>1, <1>2, <1>3

LEMMA AddNamedItemTypes ==
  ASSUME TypeOK, NEW i \in Item, AddNamedItem(i)
  PROVE  TypeOK'
<1>1. /\ items' \in Seq(Item) /\ DOMAIN items' = 1..Len(items) + 1 /\ DOMAIN items = 1..Len(items)
      /\ \A k \in DOMAIN items : items'[k] = items[k]
      /\ items'[Len(items) + 1] = i /\ Len(items) \in Nat
  BY AppendParts DEF TypeOK, AddNamedItem
<1>2. Range(items') = Range(items) \cup {i}
  BY <1>1 DEF Range
<1>3. \A k \in DOMAIN items : items[k] # i
  BY DEF AddNamedItem, Range
<1>4. IsInjective(items')
  <2>1. IsInjective(items)
    BY DEF TypeOK
  <2>. QED
    BY <1>1, <1>3, <2>1 DEF IsInjective
<1>5. HostTyped'
  BY <1>1, <1>2, <1>4 DEF HostTyped, TypeOK, AddNamedItem
<1>. QED
  BY <1>5, Types DEF AddNamedItem, dispVars, NamesTyped, EmptyOutside, CodesTyped, FramesTyped, PhaseTyped

LEMMA ParseTypes ==
  ASSUME TypeOK, SlotsMatchEntries, NEW u \in Unit, NEW i \in Scope, ParseScriptText(u, i)
  PROVE  /\ TypeOK'
         /\ LET s == IF i \in Members THEN NoItem ELSE i
            IN  s \in objs' \cup {NoItem} /\ objs \subseteq objs' /\ objs' \subseteq Scope
<1>. DEFINE s == IF i \in Members THEN NoItem ELSE i
            fetched == IF i = NoItem THEN {} ELSE {i}
<1>1. fetched \in SUBSET Range(items)
  BY DEF ParseScriptText
<1>2. objs' = objs \cup (fetched \ Members) /\ disps' = disps \cup (fetched \ CodeOnly) /\ UNCHANGED items
  BY DEF ParseScriptText
<1>3. HostTyped' /\ objs \subseteq objs' /\ objs' \subseteq Scope
  BY <1>1, <1>2, HostGrows
<1>4. s \in objs' \cup {NoItem}
  BY <1>2
<1>5. PICK status \in {"pending", "declared", "local"} : codes' = Append(codes, Code(u, s, status, TRUE))
  BY DEF ParseScriptText
<1>6. CodesTyped' /\ DOMAIN codes \subseteq DOMAIN codes' /\ Len(codes) + 1 \in DOMAIN codes'
  BY <1>3, <1>4, <1>5, CodesGrow
<1>7. CASE phase = "run"
  <2>1. exec_global_code(Len(codes) + 1, s, u)
    BY <1>7 DEF ParseScriptText
  <2>. HIDE DEF s
  <2>2. NamesTyped' /\ EmptyOutside' /\ FramesTyped'
    BY <1>3, <1>4, <1>6, <2>1, ExecTypes
  <2>3. PhaseTyped'
    BY DEF ParseScriptText, TypeOK, PhaseTyped
  <2>4. TypeOK'
    BY <1>3, <1>6, <2>2, <2>3, Types
  <2>. QED
    BY <1>3, <1>4, <2>4 DEF s
<1>8. CASE phase # "run"
  <2>1. UNCHANGED <<dispVars, frames, phase>>
    BY <1>8 DEF ParseScriptText
  <2>2. NamesTyped' /\ EmptyOutside' /\ FramesTyped' /\ PhaseTyped'
    <3>1. Func(DOMAIN codes) \subseteq Func(DOMAIN codes') /\ FrameOf(DOMAIN codes) \subseteq FrameOf(DOMAIN codes')
      BY <1>6 DEF Func, FrameOf
    <3>2. /\ Seq(Func(DOMAIN codes)) \subseteq Seq(Func(DOMAIN codes'))
          /\ Seq(FrameOf(DOMAIN codes)) \subseteq Seq(FrameOf(DOMAIN codes'))
          /\ Seq(DOMAIN codes) \subseteq Seq(DOMAIN codes')
      BY <1>6, <3>1, SeqGrows
    <3>3. NamesTyped /\ EmptyOutside /\ FramesTyped /\ PhaseTyped
      BY Types
    <3>. QED
      BY <1>3, <2>1, <3>2, <3>3 DEF dispVars, NamesTyped, EmptyOutside, FramesTyped, PhaseTyped
  <2>. HIDE DEF s
  <2>3. TypeOK'
    BY <1>3, <1>6, <2>2, Types
  <2>. QED
    BY <1>3, <1>4, <2>3 DEF s
<1>. QED
  BY <1>7, <1>8

LEMMA RunQueuedIs ==
  ASSUME TypeOK, SlotsMatchEntries, RunQueued
  PROVE  TypeOK' /\ \E c \in DOMAIN codes :
           /\ codes[c].status = "pending" /\ ScopeOf(c) \in objs \cup {NoItem} /\ ScopeOf(c) \in Scope
           /\ UnitOf(c) \in Unit
           /\ exec_global_code(c, ScopeOf(c), UnitOf(c))
           /\ DOMAIN codes' = DOMAIN codes
           /\ \A d \in DOMAIN codes \ {c} : codes'[d] = codes[d]
           /\ codes'[c] = [codes[c] EXCEPT !.status = "declared"]
<1>1. PICK c \in Queued : /\ codes' = [codes EXCEPT ![c].status = "declared"]
                          /\ exec_global_code(c, ScopeOf(c), UnitOf(c))
  BY DEF RunQueued
<1>2. c \in DOMAIN codes /\ codes[c].status = "pending"
  BY <1>1 DEF Queued
<1>3. codes \in Seq(CodeOf(objs \cup {NoItem}))
  BY DEF TypeOK, CodeOf
<1>4. codes[c] \in CodeOf(objs \cup {NoItem})
  BY <1>2, <1>3, LenProperties, ElementOfSeq
<1>5. ScopeOf(c) \in objs \cup {NoItem} /\ UnitOf(c) \in Unit
  BY <1>4 DEF CodeOf, ScopeOf, UnitOf
<1>6. UNCHANGED <<objs, disps, items, phase>> /\ objs \subseteq Scope
  BY ScopesAre DEF RunQueued
<1>7. /\ DOMAIN codes' = DOMAIN codes
      /\ \A d \in DOMAIN codes \ {c} : codes'[d] = codes[d]
      /\ codes'[c] = [codes[c] EXCEPT !.status = "declared"]
  BY <1>1, <1>2
<1>8. CodesTyped'
  <2>1. codes'[c] \in CodeOf(objs \cup {NoItem})
    BY <1>4, <1>7 DEF CodeOf
  <2>2. codes' \in Seq(CodeOf(objs \cup {NoItem}))
    <3>. DEFINE S == CodeOf(objs \cup {NoItem})
    <3>. HIDE DEF S
    <3>1. codes \in Seq(S) /\ codes'[c] \in S
      BY <1>3, <2>1 DEF S
    <3>2. codes' = [codes EXCEPT ![c] = codes'[c]]
      BY <1>1, <1>7
    <3>3. c \in 1..Len(codes)
      BY <1>2, <3>1, LenProperties
    <3>4. codes' \in Seq(S)
      BY <3>1, <3>2, <3>3, ExceptSeq
    <3>. QED
      BY <3>4 DEF S
  <2>. QED
    BY <1>6, <2>2 DEF CodesTyped
<1>9. NamesTyped' /\ EmptyOutside' /\ FramesTyped'
  BY <1>1, <1>2, <1>5, <1>6, <1>7, ExecTypes
<1>10. TypeOK'
  BY <1>6, <1>8, <1>9, Types DEF HostTyped, PhaseTyped
<1>. QED
  BY <1>1, <1>2, <1>5, <1>6, <1>7, <1>10, ScopesAre

LEMMA ExecuteGlobalTypes ==
  ASSUME TypeOK, SlotsMatchEntries, NEW u \in Unit, ExecuteGlobal(u)
  PROVE  TypeOK'
<1>1. /\ codes' = Append(codes, Code(u, NoItem, "declared", FALSE))
      /\ exec_global_code(Len(codes) + 1, NoItem, u)
      /\ UNCHANGED <<objs, disps, items, phase>>
  BY DEF ExecuteGlobal
<1>2. objs \subseteq objs' /\ objs' \subseteq Scope /\ NoItem \in objs' \cup {NoItem}
  BY <1>1, ScopesAre
<1>3. CodesTyped' /\ DOMAIN codes \subseteq DOMAIN codes' /\ Len(codes) + 1 \in DOMAIN codes'
  BY <1>1, <1>2, CodesGrow
<1>4. NamesTyped' /\ EmptyOutside' /\ FramesTyped'
  BY <1>1, <1>2, <1>3, ExecTypes
<1>. QED
  BY <1>1, <1>3, <1>4, Types DEF HostTyped, PhaseTyped

\* More dynamic variables of the running procedure.
LEMMA DynGrows ==
  ASSUME TypeOK, ~Idle, NEW S \in SUBSET Name, NEW fs, fs = [frames EXCEPT ![Len(frames)].dyn = @ \cup S]
  PROVE  /\ fs \in Seq(FrameOf(DOMAIN codes)) /\ Len(fs) = Len(frames)
         /\ DOMAIN fs = DOMAIN frames /\ DOMAIN frames = 1..Len(frames) /\ Len(frames) \in Nat \ {0}
         /\ \A d \in DOMAIN frames : fs[d].kind = frames[d].kind
<1>. DEFINE S0 == FrameOf(DOMAIN codes)
            L == Len(frames)
            top == [frames[L] EXCEPT !.dyn = @ \cup S]
<1>1. frames \in Seq(S0) /\ L \in Nat \ {0} /\ DOMAIN frames = 1..L
  <2>1. frames \in Seq(S0)
    BY DEF TypeOK, FrameOf
  <2>. QED
    BY <2>1, EmptySeq, LenProperties DEF Idle
<1>2. frames[L] \in S0
  BY <1>1, ElementOfSeq
<1>3. top \in S0 /\ top.kind = frames[L].kind
  BY <1>2 DEF FrameOf
<1>4. fs = [frames EXCEPT ![L] = top]
  BY <1>1
<1>. HIDE DEF S0, L, top
<1>5. fs \in Seq(S0)
  <2>1. L \in 1..Len(frames)
    BY <1>1 DEF L
  <2>. QED
    BY ONLY <1>1, <1>3, <1>4, <2>1, ExceptSeq
<1>6. DOMAIN fs = DOMAIN frames /\ fs[L] = top /\ \A d \in DOMAIN frames \ {L} : fs[d] = frames[d]
  BY <1>1, <1>4
<1>7. Len(fs) = L
  BY <1>1, <1>5, <1>6, LenProperties
<1>. QED
  BY <1>1, <1>3, <1>5, <1>6, <1>7 DEF S0, L

LEMMA ExecuteLocalTypes ==
  ASSUME TypeOK, NEW u \in Unit, ExecuteLocal(u)
  PROVE  TypeOK'
<1>. DEFINE L == Len(frames)
            fs == [frames EXCEPT ![L].dyn = @ \cup (Range(u.dims) \ LocalNames(L))]
            f == Frame(Len(codes) + 1, "local")
<1>1. /\ ~Idle /\ frames[L].kind = "proc"
      /\ codes' = Append(codes, Code(u, NoItem, "local", FALSE))
      /\ frames' = Append(fs, f)
      /\ UNCHANGED <<members, vars, funcs, linked, objs, disps, items, phase>>
  BY DEF ExecuteLocal, Top, dispVars
<1>2. CodesTyped' /\ DOMAIN codes \subseteq DOMAIN codes' /\ Len(codes) + 1 \in DOMAIN codes'
  BY <1>1, CodesGrow
<1>3. Range(u.dims) \ LocalNames(L) \in SUBSET Name
  BY LenProperties, ElementOfSeq, NamespaceAssumption DEF Range
<1>4. /\ fs \in Seq(FrameOf(DOMAIN codes)) /\ Len(fs) = L
      /\ DOMAIN fs = DOMAIN frames /\ DOMAIN frames = 1..L /\ L \in Nat \ {0}
      /\ \A d \in DOMAIN frames : fs[d].kind = frames[d].kind
  <2>1. \A S \in SUBSET Name : \A gs : gs = [frames EXCEPT ![L].dyn = @ \cup S] =>
          /\ gs \in Seq(FrameOf(DOMAIN codes)) /\ Len(gs) = L
          /\ DOMAIN gs = DOMAIN frames /\ DOMAIN frames = 1..L /\ L \in Nat \ {0}
          /\ \A d \in DOMAIN frames : gs[d].kind = frames[d].kind
    BY <1>1, DynGrows
  <2>. QED
    BY <1>3, <2>1
<1>5. f \in FrameOf(DOMAIN codes') /\ f.kind = "local"
  BY <1>2 DEF Frame, FrameOf
<1>6. fs \in Seq(FrameOf(DOMAIN codes'))
  <2>1. FrameOf(DOMAIN codes) \subseteq FrameOf(DOMAIN codes')
    BY <1>2 DEF FrameOf
  <2>. QED
    BY <1>4, <2>1, SeqGrows
<1>. HIDE DEF fs, f, L
<1>7. /\ frames' \in Seq(FrameOf(DOMAIN codes')) /\ DOMAIN frames' = 1..L + 1
      /\ \A d \in 1..L : frames'[d] = fs[d]
      /\ frames'[L + 1] = f
  BY <1>1, <1>4, <1>5, <1>6, AppendParts
<1>8. FramesTyped'
  <2>1. ASSUME NEW d \in DOMAIN frames', frames'[d].kind = "local"
        PROVE  d > 1 /\ frames'[d - 1].kind = "proc"
    <3>1. CASE d = L + 1
      <4>1. d > 1 /\ d - 1 = L /\ L \in 1..L
        BY <1>4, <3>1
      <4>. QED
        BY <1>1, <1>4, <1>7, <4>1
    <3>2. CASE d \in 1..L
      <4>1. frames[d].kind = "local"
        BY <1>4, <1>7, <2>1, <3>2
      <4>2. d > 1 /\ frames[d - 1].kind = "proc"
        BY <1>4, <3>2, <4>1 DEF TypeOK
      <4>3. d - 1 \in 1..L
        BY <1>4, <3>2, <4>2
      <4>. QED
        BY <1>4, <1>7, <4>2, <4>3
    <3>. QED
      BY <1>4, <1>7, <3>1, <3>2
  <2>. QED
    BY <1>7, <2>1 DEF FramesTyped
<1>9. NamesTyped'
  <2>1. Func(DOMAIN codes) \subseteq Func(DOMAIN codes')
    BY <1>2 DEF Func
  <2>2. /\ Seq(Func(DOMAIN codes)) \subseteq Seq(Func(DOMAIN codes'))
        /\ Seq(DOMAIN codes) \subseteq Seq(DOMAIN codes')
    BY <1>2, <2>1, SeqGrows
  <2>. QED
    BY <1>1, <2>2, Types DEF NamesTyped
<1>. QED
  BY <1>1, <1>2, <1>8, <1>9, Types DEF EmptyOutside, HostTyped, PhaseTyped

LEMMA QuietTypes ==
  ASSUME TypeOK, Start \/ StartDone \/ Return \/ UNCHANGED allVars
                 \/ \E s \in Scope : \E k \in DOMAIN funcs[s] : CallProcedure(s, k)
  PROVE  TypeOK' /\ UNCHANGED <<members, vars, funcs, linked, objs, disps, items, codes>>
<1>1. UNCHANGED <<members, vars, funcs, linked, objs, disps, items, codes>>
  BY DEF Start, StartDone, Return, CallProcedure, allVars, dispVars
<1>2. PhaseTyped'
  BY DEF TypeOK, Start, StartDone, Return, CallProcedure, allVars, PhaseTyped
<1>3. FramesTyped'
  <2>1. CASE Start \/ StartDone \/ UNCHANGED allVars
    BY <1>1, <2>1, Types DEF Start, StartDone, allVars, FramesTyped
  <2>2. CASE Return
    <3>1. frames \in Seq(FrameOf(DOMAIN codes)) /\ frames # <<>> /\ frames' = Front(frames)
      BY <2>2 DEF Return, Idle, TypeOK, FrameOf
    <3>2. /\ frames' \in Seq(FrameOf(DOMAIN codes)) /\ Len(frames) \in Nat
          /\ DOMAIN frames' = 1..Len(frames) - 1 /\ DOMAIN frames = 1..Len(frames)
          /\ \A d \in DOMAIN frames' : frames'[d] = frames[d]
      BY <3>1, FrontParts
    <3>3. ASSUME NEW d \in DOMAIN frames', frames'[d].kind = "local"
          PROVE  d > 1 /\ frames'[d - 1].kind = "proc"
      <4>1. d \in DOMAIN frames /\ frames[d].kind = "local"
        BY <3>2, <3>3
      <4>2. d > 1 /\ frames[d - 1].kind = "proc"
        BY <4>1 DEF TypeOK
      <4>3. d - 1 \in DOMAIN frames'
        BY <3>2, <4>2
      <4>. QED
        BY <3>2, <4>2, <4>3
    <3>. QED
      BY <1>1, <3>2, <3>3 DEF FramesTyped
  <2>3. ASSUME NEW s \in Scope, NEW k \in DOMAIN funcs[s], CallProcedure(s, k)
        PROVE  FramesTyped'
    <3>1. funcs[s] \in Seq(Func(DOMAIN codes))
      BY DEF TypeOK, Func
    <3>2. funcs[s][k] \in Func(DOMAIN codes)
      BY <3>1, LenProperties, ElementOfSeq
    <3>3. /\ Frame(funcs[s][k].code, "proc") \in FrameOf(DOMAIN codes')
          /\ Frame(funcs[s][k].code, "proc").kind # "local"
      BY <1>1, <3>2 DEF Func, Frame, FrameOf
    <3>4. Push(Frame(funcs[s][k].code, "proc"))
      BY <2>3 DEF CallProcedure
    <3>. QED
      BY <1>1, <3>3, <3>4, PushTypes, Types
  <2>. QED
    BY <2>1, <2>2, <2>3
<1>. QED
  BY <1>1, <1>2, <1>3, Types DEF NamesTyped, EmptyOutside, HostTyped, CodesTyped

\* A step that looks a name up, and may create a variable for it.
LEMMA ReadIs ==
  ASSUME TypeOK, NEW n \in Name, Read(n)
  PROVE  /\ TypeOK' /\ objs \subseteq objs' /\ disps \subseteq disps'
         /\ UNCHANGED <<vars, funcs, linked, items, codes, phase, frames>>
         /\ \/ members' = members
            \/ members' = AfterLookup(ScopeOf(Top.code), n)
         /\ ScopeOf(Top.code) \in objs \cup {NoItem}
<1>1. ~Idle /\ Looked(n) /\ UNCHANGED <<vars, funcs, linked, items, codes, phase, frames>>
  BY DEF Read
<1>2. /\ HostTyped' /\ CodesTyped' /\ objs \subseteq objs' /\ disps \subseteq disps'
      /\ objs' \subseteq Scope
  BY <1>1, LookedIs
<1>. DEFINE s == ScopeOf(Top.code)
<1>3. s \in objs \cup {NoItem} /\ s \in Scope
  BY <1>1, TopIs
<1>4. members' = members \/ members' = AfterLookup(s, n)
  BY DEF Read, MembersAfter
<1>. HIDE DEF s
<1>5. /\ members' \in [Scope -> [Name -> Entries]]
      /\ \A t \in Scope \ (objs \cup {NoItem}), m \in Name : members'[t][m] = members[t][m]
  <2>1. CASE members' = members
    BY <2>1 DEF TypeOK
  <2>2. CASE members' = AfterLookup(s, n)
    BY <1>3, <2>2, AfterLookupIs
  <2>. QED
    BY <1>4, <2>1, <2>2
<1>6. NamesTyped' /\ EmptyOutside'
  BY <1>1, <1>2, <1>5, Types DEF NamesTyped, EmptyOutside
<1>7. TypeOK'
  BY <1>1, <1>2, <1>6, Types DEF FramesTyped, PhaseTyped
<1>. QED
  BY <1>1, <1>2, <1>3, <1>4, <1>7 DEF s

LEMMA AddingIs ==
  ASSUME TypeOK, SlotsMatchEntries, SlotsHaveEntries, NEW n \in Name, AssignUnknown(n) \/ DeclareConst(n)
  PROVE  /\ TypeOK' /\ objs \subseteq objs' /\ disps \subseteq disps'
         /\ SlotsMatchEntries' /\ SlotsHaveEntries' /\ Grows
         /\ UNCHANGED <<funcs, linked, items, codes, phase>> /\ ~Idle
         /\ \A t \in Scope, m \in Name :
              members'[t][m] = members[t][m] \/ members'[t][m].kind = "var"
<1>. DEFINE s == ScopeOf(Top.code)
<1>1. ~Idle /\ lookup_identifier(n) = NotFound /\ Looked(n) /\ UNCHANGED <<funcs, linked, items, codes, phase>>
  BY DEF AssignUnknown, DeclareConst
<1>2. /\ HostTyped' /\ CodesTyped' /\ objs \subseteq objs' /\ disps \subseteq disps'
      /\ objs' \subseteq Scope
  BY <1>1, LookedIs
<1>3. s \in objs \cup {NoItem} /\ s \in Scope /\ members[s][n].kind = "none"
  BY <1>1, TopIs, UnknownIsFree
<1>. HIDE DEF s
<1>4. ASSUME NEW const \in BOOLEAN, AddGlobal(s, n, const, members), UNCHANGED frames
      PROVE  /\ TypeOK' /\ SlotsMatchEntries' /\ SlotsHaveEntries' /\ Grows
             /\ \A t \in Scope, m \in Name :
                  members'[t][m] = members[t][m] \/ members'[t][m].kind = "var"
  <2>1. /\ members' \in [Scope -> [Name -> Entries]] /\ vars' \in [Scope -> Seq(Var)]
        /\ SlotsMatchEntries' /\ SlotsHaveEntries' /\ Grows
        /\ \A t \in Scope \ {s} : members'[t] = members[t] /\ vars'[t] = vars[t]
        /\ \A m \in Name \ {n} : members'[s][m] = members[s][m]
        /\ members'[s][n].kind = "var"
    BY <1>1, <1>3, <1>4, AddGlobalIs
  <2>2. NamesTyped' /\ EmptyOutside'
    BY <1>1, <1>2, <1>3, <2>1, Types DEF NamesTyped, EmptyOutside
  <2>3. TypeOK'
    BY <1>1, <1>2, <1>4, <2>2, Types DEF FramesTyped, PhaseTyped
  <2>. QED
    BY <2>1, <2>3
<1>5. ASSUME UNCHANGED <<members, vars>>, frames' = [frames EXCEPT ![Len(frames)].dyn = @ \cup {n}]
      PROVE  /\ TypeOK' /\ SlotsMatchEntries' /\ SlotsHaveEntries' /\ Grows
             /\ members' = members
  <2>1. PICK fs : fs = [frames EXCEPT ![Len(frames)].dyn = @ \cup {n}]
    OBVIOUS
  <2>2. /\ fs \in Seq(FrameOf(DOMAIN codes)) /\ DOMAIN frames = 1..Len(frames)
        /\ DOMAIN fs = DOMAIN frames /\ \A d \in DOMAIN frames : fs[d].kind = frames[d].kind
    BY <1>1, <2>1, DynGrows
  <2>3. FramesTyped'
    <3>1. ASSUME NEW d \in DOMAIN frames, frames[d].kind = "local"
          PROVE  d > 1 /\ d - 1 \in DOMAIN frames /\ frames[d - 1].kind = "proc"
      <4>1. d > 1 /\ frames[d - 1].kind = "proc"
        BY <3>1 DEF TypeOK
      <4>. QED
        BY <2>2, <4>1
    <3>. QED
      BY <1>1, <1>5, <2>1, <2>2, <3>1 DEF FramesTyped
  <2>4. TypeOK'
    BY <1>1, <1>2, <1>5, <2>3, Types DEF NamesTyped, EmptyOutside, PhaseTyped
  <2>. QED
    BY <1>1, <1>5, <2>4, PrefixOfItself DEF SlotsMatchEntries, SlotsHaveEntries, Grows
<1>6. CASE DeclareConst(n)
  BY <1>1, <1>2, <1>4, <1>6 DEF DeclareConst, s
<1>7. CASE AssignUnknown(n) /\ Top.kind = "proc"
  BY <1>1, <1>2, <1>5, <1>7 DEF AssignUnknown
<1>8. CASE AssignUnknown(n) /\ Top.kind # "proc"
  BY <1>1, <1>2, <1>4, <1>8 DEF AssignUnknown, s
<1>. QED
  BY <1>6, <1>7, <1>8

-------------------------------------------------------------------------------
(* The invariant.                                                             *)

\* A step that declares nothing, or code that does.
Declaring ==
  \E c \in DOMAIN codes', s \in objs' \cup {NoItem}, u \in Unit :
    exec_global_code(c, s, u) /\ s \in Scope

LEMMA NameSteps ==
  ASSUME TypeOK, SlotsMatchEntries, SlotsHaveEntries, [Next]_allVars
  PROVE  \/ UNCHANGED <<members, vars, funcs>>
         \/ Declaring
         \/ \E n \in Name : Read(n) \/ AssignUnknown(n) \/ DeclareConst(n)
<1>1. ASSUME NEW i \in Item, AddNamedItem(i)
      PROVE  UNCHANGED <<members, vars, funcs>>
  BY <1>1 DEF AddNamedItem, dispVars
<1>2. ASSUME NEW u \in Unit, NEW i \in Scope, ParseScriptText(u, i)
      PROVE  UNCHANGED <<members, vars, funcs>> \/ Declaring
  <2>. DEFINE s == IF i \in Members THEN NoItem ELSE i
  <2>1. s \in objs' \cup {NoItem} /\ objs \subseteq objs' /\ objs' \subseteq Scope
    BY <1>2, ParseTypes
  <2>2. CASE phase # "run"
    BY <1>2, <2>2 DEF ParseScriptText, dispVars
  <2>3. CASE phase = "run"
    <3>1. /\ exec_global_code(Len(codes) + 1, s, u)
          /\ codes' = Append(codes, Code(u, s, "declared", TRUE))
      BY <1>2, <2>3 DEF ParseScriptText
    <3>. HIDE DEF s
    <3>2. Len(codes) + 1 \in DOMAIN codes'
      BY <2>1, <3>1, CodesGrow
    <3>. QED
      BY <2>1, <3>1, <3>2, ScopesAre DEF Declaring
  <2>. QED
    BY <2>2, <2>3
<1>3. CASE RunQueued
  <2>1. UNCHANGED objs
    BY <1>3 DEF RunQueued
  <2>. QED
    BY <1>3, <2>1, RunQueuedIs DEF Declaring
<1>4. ASSUME NEW u \in Unit, ExecuteGlobal(u)
      PROVE  Declaring
  <2>1. /\ exec_global_code(Len(codes) + 1, NoItem, u)
        /\ codes' = Append(codes, Code(u, NoItem, "declared", FALSE)) /\ UNCHANGED objs
    BY <1>4 DEF ExecuteGlobal
  <2>2. Len(codes) + 1 \in DOMAIN codes'
    BY <2>1, CodesGrow
  <2>. QED
    BY <2>1, <2>2, ScopesAre DEF Declaring
<1>5. ASSUME NEW u \in LocalUnit, ExecuteLocal(u)
      PROVE  UNCHANGED <<members, vars, funcs>>
  BY <1>5 DEF ExecuteLocal, dispVars
<1>6. CASE Start \/ StartDone \/ Return \/ UNCHANGED allVars
           \/ \E s \in Scope : \E k \in DOMAIN funcs[s] : CallProcedure(s, k)
  BY <1>6, QuietTypes
<1>. QED
  BY <1>1, <1>2, <1>3, <1>4, <1>5, <1>6 DEF Next

LEMMA TypeStep ==
  ASSUME TypeOK, SlotsMatchEntries, SlotsHaveEntries, [Next]_allVars
  PROVE  TypeOK'
<1>1. LocalUnit \subseteq Unit
  BY NamespaceAssumption
<1>. QED
  BY <1>1, AddNamedItemTypes, ParseTypes, RunQueuedIs, ExecuteGlobalTypes, ExecuteLocalTypes,
     QuietTypes, ReadIs, AddingIs DEF Next

LEMMA SlotsStep ==
  ASSUME TypeOK, SlotsMatchEntries, SlotsHaveEntries, [Next]_allVars
  PROVE  SlotsMatchEntries' /\ SlotsHaveEntries' /\ Grows
<1>1. CASE UNCHANGED <<members, vars, funcs>>
  BY <1>1, PrefixOfItself DEF SlotsMatchEntries, SlotsHaveEntries, Grows
<1>2. CASE Declaring
  BY <1>2, ExecSlots DEF Declaring
<1>3. ASSUME NEW n \in Name, Read(n)
      PROVE  SlotsMatchEntries' /\ SlotsHaveEntries' /\ Grows
  <2>1. /\ UNCHANGED <<vars, funcs>>
        /\ members' = members \/ members' = AfterLookup(ScopeOf(Top.code), n)
        /\ ScopeOf(Top.code) \in objs \cup {NoItem}
    BY <1>3, ReadIs
  <2>2. \A t \in Scope, m \in Name :
          \/ members'[t][m] = members[t][m]
          \/ members[t][m].kind \in {"none", "host", "builtin"} /\ members'[t][m].kind \in {"host", "builtin"}
    <3>1. CASE members' = members
      BY <3>1
    <3>2. CASE members' = AfterLookup(ScopeOf(Top.code), n)
      <4>1. PICK s \in objs \cup {NoItem} : s = ScopeOf(Top.code) /\ members' = AfterLookup(s, n)
        BY <2>1, <3>2
      <4>2. \A t \in Scope, m \in Name :
              \/ AfterLookup(s, n)[t][m] = members[t][m]
              \/ /\ members[t][m].kind \in {"none", "host"} /\ AfterLookup(s, n)[t][m] = Entry("host", 0)
              \/ /\ members[t][m].kind \in {"none", "builtin"}
                 /\ AfterLookup(s, n)[t][m] = Entry("builtin", 0)
        BY AfterLookupIs
      <4>. QED
        BY <4>1, <4>2, EntryIs
    <3>. QED
      BY <2>1, <3>1, <3>2
  <2>3. \A t \in Scope : \A k \in DOMAIN funcs[t] :
          funcs[t][k].name \in Name /\ members[t][funcs[t][k].name].kind = "func"
    <3>1. \A t \in Scope : funcs[t] \in Seq(Func(DOMAIN codes))
      BY DEF TypeOK, Func
    <3>2. \A t \in Scope : \A k \in DOMAIN funcs[t] : funcs[t][k] \in Func(DOMAIN codes)
      BY <3>1, LenProperties, ElementOfSeq
    <3>. QED
      BY <3>2, EntryIs DEF Func, SlotsHaveEntries
  <2>4. SlotsMatchEntries'
    BY <2>1, <2>2 DEF SlotsMatchEntries
  <2>5. SlotsHaveEntries'
    BY <2>1, <2>2, <2>3 DEF SlotsHaveEntries
  <2>6. Grows
    BY <2>1, <2>2, PrefixOfItself DEF Grows
  <2>. QED
    BY <2>4, <2>5, <2>6
<1>. QED
  BY <1>1, <1>2, <1>3, AddingIs, NameSteps

\* A step that caches nothing, while no item is added, keeps the caches sound.
LEMMA CachesKept ==
  ASSUME CachesSound, disps \subseteq disps', UNCHANGED items,
         phase # "waiting" => phase' # "waiting",
         \A t \in Scope, n \in Name :
           members'[t][n].kind \in {"host", "builtin"} => members'[t][n] = members[t][n]
  PROVE  CachesSound'
  BY DEF CachesSound, Named

LEMMA CachesStep ==
  ASSUME TypeOK, WaitsIdle, SlotsMatchEntries, SlotsHaveEntries, CachesSound, [Next]_allVars
  PROVE  CachesSound' /\ WaitsIdle'
<1>1. ASSUME NEW i \in Item, AddNamedItem(i)
      PROVE  CachesSound' /\ WaitsIdle'
  <2>1. UNCHANGED <<members, funcs, phase, frames>> /\ disps \subseteq disps' /\ phase = "waiting"
    BY <1>1 DEF AddNamedItem, dispVars
  <2>. QED
    BY <2>1 DEF CachesSound, WaitsIdle, Idle
<1>2. ASSUME NEW c, NEW s \in Scope, NEW u \in Unit, exec_global_code(c, s, u)
      PROVE  \A t \in Scope, n \in Name :
               members'[t][n].kind \in {"host", "builtin"} => members'[t][n] = members[t][n]
  BY <1>2, ExecDeclares
<1>3. ASSUME NEW u \in Unit, NEW i \in Scope, ParseScriptText(u, i)
      PROVE  CachesSound' /\ WaitsIdle'
  <2>. DEFINE s == IF i \in Members THEN NoItem ELSE i
  <2>1. disps \subseteq disps' /\ UNCHANGED <<items, phase>> /\ s \in Scope
    BY <1>3, ScopesAre DEF ParseScriptText
  <2>2. CASE phase # "run"
    <3>1. UNCHANGED <<members, funcs, frames>>
      BY <1>3, <2>2 DEF ParseScriptText, dispVars
    <3>. QED
      BY <2>1, <3>1, CachesKept DEF WaitsIdle, Idle
  <2>3. CASE phase = "run"
    <3>1. exec_global_code(Len(codes) + 1, s, u)
      BY <1>3, <2>3 DEF ParseScriptText
    <3>. HIDE DEF s
    <3>2. CachesSound'
      BY <1>2, <2>1, <3>1, CachesKept
    <3>. QED
      BY <2>1, <2>3, <3>2 DEF WaitsIdle
  <2>. QED
    BY <2>2, <2>3
<1>4. CASE RunQueued
  <2>1. phase = "running" /\ UNCHANGED <<disps, items, phase>>
    BY <1>4 DEF RunQueued
  <2>2. PICK c \in DOMAIN codes : ScopeOf(c) \in Scope /\ UnitOf(c) \in Unit
                                  /\ exec_global_code(c, ScopeOf(c), UnitOf(c))
    BY <1>4, RunQueuedIs
  <2>3. CachesSound'
    BY <1>2, <2>1, <2>2, CachesKept
  <2>. QED
    BY <2>1, <2>3 DEF WaitsIdle
<1>5. ASSUME NEW u \in Unit, ExecuteGlobal(u)
      PROVE  CachesSound' /\ WaitsIdle'
  <2>1. ~Idle /\ exec_global_code(Len(codes) + 1, NoItem, u) /\ UNCHANGED <<disps, items, phase>>
    BY <1>5 DEF ExecuteGlobal
  <2>2. CachesSound'
    BY <1>2, <2>1, ScopesAre, CachesKept
  <2>. QED
    BY <2>1, <2>2 DEF WaitsIdle
<1>6. ASSUME NEW u \in LocalUnit, ExecuteLocal(u)
      PROVE  CachesSound' /\ WaitsIdle'
  <2>1. ~Idle /\ UNCHANGED <<members, disps, items, phase>>
    BY <1>6 DEF ExecuteLocal, dispVars
  <2>2. CachesSound'
    BY <2>1, CachesKept
  <2>. QED
    BY <2>1, <2>2 DEF WaitsIdle
<1>7. CASE Start \/ StartDone \/ Return \/ UNCHANGED allVars
           \/ \E s \in Scope : \E k \in DOMAIN funcs[s] : CallProcedure(s, k)
  <2>1. UNCHANGED <<members, vars, funcs, linked, objs, disps, items, codes>>
    BY <1>7, QuietTypes
  <2>2. phase # "waiting" => phase' # "waiting"
    BY <1>7 DEF Start, StartDone, Return, CallProcedure, allVars
  <2>3. CachesSound'
    BY <2>1, <2>2, CachesKept
  <2>4. WaitsIdle'
    <3>1. CASE Start \/ StartDone
      BY <3>1 DEF Start, StartDone, WaitsIdle
    <3>2. CASE Return
      BY <3>2 DEF Return, WaitsIdle
    <3>3. ASSUME NEW s \in Scope, NEW k \in DOMAIN funcs[s], CallProcedure(s, k)
          PROVE  WaitsIdle'
      BY <3>3 DEF CallProcedure, WaitsIdle
    <3>4. CASE UNCHANGED allVars
      BY <2>1, <3>4 DEF allVars, WaitsIdle, Idle
    <3>. QED
      BY <1>7, <3>1, <3>2, <3>3, <3>4
  <2>. QED
    BY <2>3, <2>4
<1>8. ASSUME NEW n \in Name, Read(n)
      PROVE  CachesSound' /\ WaitsIdle'
  <2>1. /\ ~Idle /\ UNCHANGED <<phase, items>> /\ disps \subseteq disps'
        /\ members' = members \/ members' = AfterLookup(ScopeOf(Top.code), n)
        /\ ScopeOf(Top.code) \in objs \cup {NoItem}
    BY <1>8, ReadIs DEF Read
  <2>2. phase # "waiting"
    BY <2>1 DEF WaitsIdle
  <2>3. CASE members' = members
    BY <2>1, <2>2, <2>3, CachesKept DEF WaitsIdle
  <2>4. CASE members' = AfterLookup(ScopeOf(Top.code), n)
    <3>1. PICK s \in objs \cup {NoItem} : members' = AfterLookup(s, n)
      BY <2>1, <2>4
    <3>2. \A t \in Scope, m \in Name :
            \/ members'[t][m] = members[t][m]
            \/ /\ members'[t][m] = Entry("host", 0)
               /\ t \in disps \ CodeOnly /\ t \notin Members /\ m \in HostProp[t]
            \/ /\ members'[t][m] = Entry("builtin", 0)
               /\ t = NoItem /\ m \in Builtin /\ Named(m, Visible) = {}
      BY <3>1, AfterLookupIs
    <3>3. \A m : Named(m, Visible)' = Named(m, Visible)
      BY <2>1 DEF Named
    <3>. QED
      BY <2>1, <2>2, <3>2, <3>3, EntryIs DEF CachesSound, WaitsIdle
  <2>. QED
    BY <2>1, <2>3, <2>4
<1>9. ASSUME NEW n \in Name, AssignUnknown(n) \/ DeclareConst(n)
      PROVE  CachesSound' /\ WaitsIdle'
  <2>1. /\ ~Idle /\ UNCHANGED <<phase, items>> /\ disps \subseteq disps'
        /\ \A t \in Scope, m \in Name :
             members'[t][m] = members[t][m] \/ members'[t][m].kind = "var"
    BY <1>9, AddingIs
  <2>2. CachesSound'
    BY <2>1, CachesKept
  <2>. QED
    BY <2>1, <2>2 DEF WaitsIdle
<1>. QED
  BY <1>1, <1>3, <1>4, <1>5, <1>6, <1>7, <1>8, <1>9 DEF Next

-------------------------------------------------------------------------------
(* What a text declares stands.                                               *)

\* What code c declares has its entries.
Stands(c) ==
  /\ \A n \in Range(UnitOf(c).funcs) : members[ScopeOf(c)][n].kind = "func"
  /\ \A n \in Range(UnitOf(c).dims) : members[ScopeOf(c)][n].kind \in {"var", "func"}

LEMMA CodeIs ==
  ASSUME TypeOK, NEW c \in DOMAIN codes
  PROVE  /\ UnitOf(c) \in Unit /\ ScopeOf(c) \in Scope
         /\ codes[c].status \in {"pending", "declared", "local"}
         /\ Range(UnitOf(c).funcs) \subseteq Name /\ Range(UnitOf(c).dims) \subseteq Name
<1>1. codes \in Seq(CodeOf(objs \cup {NoItem}))
  BY DEF TypeOK, CodeOf
<1>2. codes[c] \in CodeOf(objs \cup {NoItem})
  BY <1>1, LenProperties, ElementOfSeq
<1>3. UnitOf(c) \in Unit /\ codes[c].status \in {"pending", "declared", "local"} /\ ScopeOf(c) \in Scope
  BY <1>2, ScopesAre DEF CodeOf, UnitOf, ScopeOf
<1>4. UnitOf(c).funcs \in Seq(Name) /\ UnitOf(c).dims \in Seq(Name)
  BY <1>3, NamespaceAssumption
<1>. QED
  BY <1>3, <1>4, LenProperties, ElementOfSeq DEF Range

\* Code that stands goes on standing, if it is the same code.
LEMMA StandsStill ==
  ASSUME TypeOK, Grows, NEW c \in DOMAIN codes, Stands(c),
         codes'[c].unit = codes[c].unit, codes'[c].scope = codes[c].scope
  PROVE  Stands(c)'
<1>1. /\ ScopeOf(c) \in Scope
      /\ Range(UnitOf(c).funcs) \subseteq Name /\ Range(UnitOf(c).dims) \subseteq Name
  BY CodeIs
<1>2. UnitOf(c)' = UnitOf(c) /\ ScopeOf(c)' = ScopeOf(c)
  BY DEF UnitOf, ScopeOf
<1>3. \A n \in Name :
        /\ members[ScopeOf(c)][n].kind = "func" => members'[ScopeOf(c)][n].kind = "func"
        /\ members[ScopeOf(c)][n].kind = "var" => members'[ScopeOf(c)][n].kind \in {"var", "func"}
  BY <1>1 DEF Grows
<1>. QED
  BY <1>1, <1>2, <1>3 DEF Stands

\* Code that has run its declarations stands.
LEMMA ExecStands ==
  ASSUME TypeOK, SlotsMatchEntries, NEW s \in Scope, NEW u \in Unit, NEW c, exec_global_code(c, s, u),
         codes'[c].unit = u, codes'[c].scope = s
  PROVE  Stands(c)'
<1>1. /\ \A n \in Range(u.funcs) : members'[s][n].kind = "func"
      /\ \A n \in Range(u.dims) : members'[s][n].kind \in {"var", "func"}
  BY ExecDeclares
<1>2. UnitOf(c)' = u /\ ScopeOf(c)' = s
  BY DEF UnitOf, ScopeOf
<1>. QED
  BY <1>1, <1>2 DEF Stands

LEMMA ResolveIsStands == /\ DeclarationsResolve <=> \A c \in DOMAIN codes : codes[c].status = "declared" => Stands(c)
                         /\ DeclarationsResolve' <=> \A c \in DOMAIN codes' : codes'[c].status = "declared" => Stands(c)'
  BY DEF DeclarationsResolve, Stands

\* ClassIn finds a class that is there.
LEMMA ClassInIs ==
  ASSUME TypeOK, NEW s \in Scope, NEW n
  PROVE  /\ ClassIn(s, n) = 0 => \A c \in Range(linked[s]) : n \notin UnitOf(c).classes
         /\ ClassIn(s, n) # 0 =>
              /\ linked[s][ClassIn(s, n)] \in Range(linked[s])
              /\ n \in UnitOf(linked[s][ClassIn(s, n)]).classes
<1>. DEFINE I == {i \in 1..Len(linked[s]) : n \in UnitOf(linked[s][i]).classes}
<1>1. linked[s] \in Seq(DOMAIN codes)
  BY DEF TypeOK
<1>2. DOMAIN linked[s] = 1..Len(linked[s]) /\ Len(linked[s]) \in Nat
  BY <1>1, LenProperties
<1>3. ClassIn(s, n) = IF I # {} THEN Min(I) ELSE 0
  BY DEF ClassIn, SelectInSeq
<1>4. I # {} => Min(I) \in I
  <2>1. I \in SUBSET Nat
    BY <1>2
  <2>. HIDE DEF I
  <2>. QED
    BY <2>1, MinIsLeast
<1>5. \A k \in I : k # 0
  BY <1>2
<1>6. I = {} => \A c \in Range(linked[s]) : n \notin UnitOf(c).classes
  BY <1>2 DEF Range
<1>7. \A k \in I : linked[s][k] \in Range(linked[s]) /\ n \in UnitOf(linked[s][k]).classes
  BY <1>2 DEF Range
<1>. HIDE DEF I
<1>. QED
  BY <1>3, <1>4, <1>5, <1>6, <1>7

\* A class of code that has run is found from its own scope.
LEMMA RunClassFound ==
  ASSUME TypeOK, LinkedSound, NEW c \in DOMAIN codes, codes[c].status = "declared",
         NEW n \in UnitOf(c).classes
  PROVE  ClassIn(ScopeOf(c), n) # 0
<1>1. ScopeOf(c) \in Scope
  BY CodeIs
<1>2. c \in Range(linked[ScopeOf(c)])
  BY DEF LinkedSound
<1>. QED
  BY <1>1, <1>2, ClassInIs

\* What check_script_collisions has let pass declares no class that older code
\* declares, and no procedure or constant named like a class of it.
LEMMA NoCollision ==
  ASSUME TypeOK, SlotsMatchEntries, DeclarationsResolve, LinkedSound,
         NEW s \in Scope, NEW u \in Unit, ~check_script_collisions(s, u),
         NEW c \in DOMAIN codes, codes[c].status # "local", ScopeOf(c) \in {s, NoItem}
  PROVE  /\ \A n \in u.classes : ~Declares(c, n)
         /\ UnitOf(c).classes \cap (Range(u.funcs) \cup u.consts) = {}
<1>1. /\ c \in SeenFrom(s) /\ codes[c].status \in {"pending", "declared"}
      /\ ScopeOf(c) \in Scope
      /\ Range(UnitOf(c).funcs) \subseteq Name /\ Range(UnitOf(c).dims) \subseteq Name
  BY CodeIs DEF SeenFrom
<1>2. ASSUME NEW n \in UnitOf(c).classes
      PROVE  lookup_existing_class(s, n)
  <2>1. CASE codes[c].status = "pending"
    BY <1>1, <2>1 DEF lookup_existing_class, Pending
  <2>2. CASE codes[c].status = "declared"
    BY <1>1, <1>2, <2>2, RunClassFound DEF lookup_existing_class
  <2>. QED
    BY <1>1, <2>1, <2>2
<1>3. UnitOf(c).classes \cap (Range(u.funcs) \cup u.consts) = {}
  BY <1>2 DEF check_script_collisions
<1>4. ASSUME NEW n \in u.classes
      PROVE  ~Declares(c, n)
  <2>1. ~lookup_script_identifier(s, n)
    BY DEF check_script_collisions
  <2>2. CASE codes[c].status = "pending"
    BY <1>1, <2>1, <2>2 DEF lookup_script_identifier, Pending
  <2>3. CASE codes[c].status = "declared"
    <3>1. n \notin UnitOf(c).classes
      BY <1>2, <2>1 DEF lookup_script_identifier
    <3>2. n \in Name => members[ScopeOf(c)][n].kind \notin {"var", "func"}
      <4>1. members[ScopeOf(c)][n].kind # "var"
        BY <2>1 DEF lookup_script_identifier
      <4>2. ASSUME n \in Name, members[ScopeOf(c)][n].kind = "func" PROVE FALSE
        <5>1. \E k \in DOMAIN funcs[ScopeOf(c)] : funcs[ScopeOf(c)][k].name = n
          BY <1>1, <4>2 DEF SlotsMatchEntries
        <5>. QED
          BY <2>1, <5>1 DEF lookup_script_identifier
      <4>. QED
        BY <4>1, <4>2
    <3>3. Stands(c)
      BY <2>3, ResolveIsStands
    <3>. QED
      BY <1>1, <3>1, <3>2, <3>3 DEF Stands, Declares
  <2>. QED
    BY <1>1, <2>2, <2>3
<1>. QED
  BY <1>3, <1>4

\* Code c, new or no longer waiting, runs its declarations.
LEMMA ExecKeepsLinked ==
  ASSUME TypeOK, LinkedSound, NEW s \in Scope, NEW u \in Unit, NEW c \in DOMAIN codes',
         exec_global_code(c, s, u), codes'[c].unit = u, codes'[c].scope = s,
         codes'[c].status = "declared", c \in DOMAIN codes => codes[c].status = "pending",
         DOMAIN codes \subseteq DOMAIN codes',
         \A d \in DOMAIN codes' \ {c} : d \in DOMAIN codes /\ codes'[d] = codes[d]
  PROVE  LinkedSound'
<1>1. /\ \A t \in Scope \ {s} : linked'[t] = linked[t]
      /\ Range(linked'[s]) = Range(linked[s]) \cup (IF u.classes = {} THEN {} ELSE {c})
  <2>1. linked \in [Scope -> Seq(DOMAIN codes)]
    BY DEF TypeOK
  <2>2. /\ linked' \in [Scope -> Seq(DOMAIN codes \cup {c})]
        /\ \A t \in Scope \ {s} : linked'[t] = linked[t]
        /\ Range(linked'[s]) = Range(linked[s]) \cup (IF u.classes = {} THEN {} ELSE {c})
    BY ONLY <2>1, s \in Scope, u \in Unit, exec_global_code(c, s, u), ExecLinks
  <2>. QED
    BY <2>2
<1>2. \A t \in Scope : Range(linked[t]) \subseteq DOMAIN codes
  BY LenProperties, ElementOfSeq DEF TypeOK, Range
<1>3. /\ UnitOf(c)' = u /\ ScopeOf(c)' = s
      /\ \A d \in DOMAIN codes' \ {c} : UnitOf(d)' = UnitOf(d) /\ ScopeOf(d)' = ScopeOf(d)
  BY DEF UnitOf, ScopeOf
<1>4. ASSUME NEW t \in Scope, NEW d \in Range(linked[t])
      PROVE  d \in DOMAIN codes' \ {c} /\ codes'[d].status = "declared" /\ ScopeOf(d)' = t
  <2>1. d \in DOMAIN codes /\ codes[d].status = "declared" /\ ScopeOf(d) = t
    BY <1>2, <1>4 DEF LinkedSound
  <2>. QED
    BY <1>3, <2>1
<1>5. ASSUME NEW t \in Scope, NEW d \in Range(linked'[t])
      PROVE  codes'[d].status = "declared" /\ ScopeOf(d)' = t
  BY <1>1, <1>3, <1>4, <1>5
<1>6. ASSUME NEW d \in DOMAIN codes', codes'[d].status = "declared", UnitOf(d)'.classes # {}
      PROVE  d \in Range(linked'[ScopeOf(d)'])
  <2>1. CASE d = c
    BY <1>1, <1>3, <1>6, <2>1
  <2>2. CASE d # c
    <3>1. d \in DOMAIN codes /\ codes[d].status = "declared" /\ UnitOf(d).classes # {}
      BY <1>3, <1>6, <2>2
    <3>2. d \in Range(linked[ScopeOf(d)]) /\ ScopeOf(d) \in Scope
      BY <3>1, CodeIs DEF LinkedSound
    <3>. QED
      BY <1>1, <1>3, <2>2, <3>2
  <2>. QED
    BY <2>1, <2>2
<1>. QED
  BY <1>5, <1>6 DEF LinkedSound

\* Code is added to the list that does not run, or for a procedure.
LEMMA AppendKeepsLinked ==
  ASSUME TypeOK, LinkedSound, UNCHANGED linked, objs \subseteq objs',
         NEW u \in Unit, NEW s \in objs' \cup {NoItem}, NEW status \in {"pending", "local"},
         NEW checked \in BOOLEAN, codes' = Append(codes, Code(u, s, status, checked))
  PROVE  LinkedSound'
<1>1. /\ DOMAIN codes' = 1..Len(codes) + 1 /\ DOMAIN codes = 1..Len(codes) /\ Len(codes) \in Nat
      /\ codes'[Len(codes) + 1] = Code(u, s, status, checked)
      /\ \A c \in DOMAIN codes : codes'[c] = codes[c]
  BY CodesGrow
<1>2. \A t \in Scope : Range(linked[t]) \subseteq DOMAIN codes
  BY LenProperties, ElementOfSeq DEF TypeOK, Range
<1>3. \A c \in DOMAIN codes : UnitOf(c)' = UnitOf(c) /\ ScopeOf(c)' = ScopeOf(c)
  BY <1>1 DEF UnitOf, ScopeOf
<1>4. ASSUME NEW c \in DOMAIN codes', codes'[c].status = "declared"
      PROVE  c \in DOMAIN codes /\ codes[c].status = "declared"
  <2>1. c # Len(codes) + 1
    BY <1>1, <1>4 DEF Code
  <2>. QED
    BY <1>1, <1>4, <2>1
<1>. QED
  BY <1>1, <1>2, <1>3, <1>4 DEF LinkedSound

LEMMA LinkedStep ==
  ASSUME TypeOK, SlotsMatchEntries, SlotsHaveEntries, LinkedSound, [Next]_allVars
  PROVE  LinkedSound'
<1>1. ASSUME UNCHANGED <<linked, codes>>
      PROVE  LinkedSound'
  BY <1>1 DEF LinkedSound, UnitOf, ScopeOf
<1>2. ASSUME NEW u \in Unit, NEW s \in objs' \cup {NoItem}, NEW checked \in BOOLEAN,
             s \in Scope, objs \subseteq objs',
             codes' = Append(codes, Code(u, s, "declared", checked)),
             exec_global_code(Len(codes) + 1, s, u)
      PROVE  LinkedSound'
  <2>1. /\ DOMAIN codes' = 1..Len(codes) + 1 /\ DOMAIN codes = 1..Len(codes) /\ Len(codes) \in Nat
        /\ codes'[Len(codes) + 1] = Code(u, s, "declared", checked)
        /\ \A c \in DOMAIN codes : codes'[c] = codes[c]
    BY <1>2, CodesGrow
  <2>2. PICK c \in DOMAIN codes' : c = Len(codes) + 1
    BY <2>1
  <2>3. /\ codes'[c].unit = u /\ codes'[c].scope = s /\ codes'[c].status = "declared"
        /\ c \notin DOMAIN codes
        /\ \A d \in DOMAIN codes' \ {c} : d \in DOMAIN codes /\ codes'[d] = codes[d]
    BY <2>1, <2>2 DEF Code
  <2>. QED
    BY <1>2, <2>1, <2>2, <2>3, ExecKeepsLinked
<1>3. ASSUME NEW u \in Unit, NEW i \in Scope, ParseScriptText(u, i)
      PROVE  LinkedSound'
  <2>1. PICK s \in objs' \cup {NoItem} :
          /\ s = IF i \in Members THEN NoItem ELSE i
          /\ objs \subseteq objs' /\ s \in Scope
    BY <1>3, ParseTypes, ScopesAre
  <2>2. IF phase = "run"
        THEN /\ codes' = Append(codes, Code(u, s, "declared", TRUE))
             /\ exec_global_code(Len(codes) + 1, s, u)
        ELSE codes' = Append(codes, Code(u, s, "pending", TRUE)) /\ UNCHANGED linked
    BY <1>3, <2>1 DEF ParseScriptText, dispVars
  <2>. QED
    BY <1>2, <2>1, <2>2, AppendKeepsLinked
<1>4. ASSUME NEW u \in Unit, ExecuteGlobal(u)
      PROVE  LinkedSound'
  <2>1. /\ codes' = Append(codes, Code(u, NoItem, "declared", FALSE))
        /\ exec_global_code(Len(codes) + 1, NoItem, u) /\ UNCHANGED objs
    BY <1>4 DEF ExecuteGlobal
  <2>. QED
    BY <1>2, <2>1, ScopesAre
<1>5. ASSUME NEW u \in Unit, ExecuteLocal(u)
      PROVE  LinkedSound'
  <2>1. codes' = Append(codes, Code(u, NoItem, "local", FALSE)) /\ UNCHANGED <<objs, linked>>
    BY <1>5 DEF ExecuteLocal, dispVars
  <2>. QED
    BY <2>1, AppendKeepsLinked
<1>6. CASE RunQueued
  <2>1. PICK c \in DOMAIN codes :
          /\ codes[c].status = "pending" /\ ScopeOf(c) \in Scope /\ UnitOf(c) \in Unit
          /\ exec_global_code(c, ScopeOf(c), UnitOf(c))
          /\ DOMAIN codes' = DOMAIN codes
          /\ \A d \in DOMAIN codes \ {c} : codes'[d] = codes[d]
          /\ codes'[c] = [codes[c] EXCEPT !.status = "declared"]
    BY <1>6, RunQueuedIs
  <2>2. codes'[c].unit = UnitOf(c) /\ codes'[c].scope = ScopeOf(c) /\ codes'[c].status = "declared"
    <3>1. codes[c] \in CodeOf(objs \cup {NoItem})
      <4>1. codes \in Seq(CodeOf(objs \cup {NoItem}))
        BY DEF TypeOK, CodeOf
      <4>. QED
        BY <4>1, LenProperties, ElementOfSeq
    <3>. QED
      BY <2>1, <3>1 DEF CodeOf, UnitOf, ScopeOf
  <2>. QED
    BY <2>1, <2>2, ExecKeepsLinked
<1>7. ASSUME NEW i \in Item, AddNamedItem(i)
      PROVE  UNCHANGED <<linked, codes>>
  BY <1>7 DEF AddNamedItem, dispVars
<1>8. CASE Start \/ StartDone \/ Return \/ UNCHANGED allVars
           \/ \E s \in Scope : \E k \in DOMAIN funcs[s] : CallProcedure(s, k)
  BY <1>1, <1>8, QuietTypes
<1>9. ASSUME NEW n \in Name, Read(n) \/ AssignUnknown(n) \/ DeclareConst(n)
      PROVE  UNCHANGED <<linked, codes>>
  BY <1>9 DEF Read, AssignUnknown, DeclareConst
<1>10. LocalUnit \subseteq Unit
  BY NamespaceAssumption
<1>. QED
  BY <1>1, <1>3, <1>4, <1>5, <1>6, <1>7, <1>8, <1>9, <1>10 DEF Next

\* What OnlyExecuteCollides says of code c and later code d.
Distinct(c, d) ==
  codes[c].status # "local" /\ ScopeOf(c) \in {ScopeOf(d), NoItem} =>
    /\ \A n \in UnitOf(d).classes : ~Declares(c, n)
    /\ UnitOf(c).classes \cap (Range(UnitOf(d).funcs) \cup UnitOf(d).consts) = {}

LEMMA ClassesAreDistinct ==
  /\ OnlyExecuteCollides <=> \A d \in DOMAIN codes : codes[d].checked => \A c \in 1..d - 1 : Distinct(c, d)
  /\ OnlyExecuteCollides' <=>
       \A d \in DOMAIN codes' : codes'[d].checked => \A c \in 1..d - 1 : Distinct(c, d)'
  BY DEF OnlyExecuteCollides, Distinct

LEMMA SameDistinct ==
  ASSUME NEW c, NEW d, Distinct(c, d),
         codes'[c].unit = codes[c].unit, codes'[c].scope = codes[c].scope,
         codes'[d].unit = codes[d].unit, codes'[d].scope = codes[d].scope,
         codes'[c].status # "local" => codes[c].status # "local"
  PROVE  Distinct(c, d)'
  BY DEF Distinct, Declares, UnitOf, ScopeOf

\* A text is added to the code list.
LEMMA AppendStands ==
  ASSUME TypeOK, Grows, DeclarationsResolve, OnlyExecuteCollides,
         NEW u \in Unit, NEW s \in objs' \cup {NoItem}, objs \subseteq objs',
         NEW status \in {"pending", "declared", "local"}, NEW checked \in BOOLEAN,
         codes' = Append(codes, Code(u, s, status, checked)),
         NEW new \in Nat, new = Len(codes) + 1, status = "declared" => Stands(new)',
         checked => \A c \in DOMAIN codes :
           codes[c].status # "local" /\ ScopeOf(c) \in {s, NoItem} =>
             /\ \A n \in u.classes : ~Declares(c, n)
             /\ UnitOf(c).classes \cap (Range(u.funcs) \cup u.consts) = {}
  PROVE  DeclarationsResolve' /\ OnlyExecuteCollides'
<1>1. /\ DOMAIN codes = 1..new - 1 /\ DOMAIN codes' = 1..new /\ new \in DOMAIN codes'
      /\ codes'[new] = Code(u, s, status, checked) /\ \A c \in DOMAIN codes : codes'[c] = codes[c]
  <2>1. /\ DOMAIN codes = 1..Len(codes) /\ Len(codes) \in Nat /\ DOMAIN codes' = 1..Len(codes) + 1
        /\ codes'[Len(codes) + 1] = Code(u, s, status, checked)
        /\ \A c \in DOMAIN codes : codes'[c] = codes[c]
    BY CodesGrow
  <2>. QED
    BY <2>1
<1>2. /\ codes'[new].unit = u /\ codes'[new].scope = s
      /\ codes'[new].status = status /\ codes'[new].checked = checked
  BY <1>1 DEF Code
<1>3. \A c \in DOMAIN codes' : c \in DOMAIN codes \/ c = new
  BY <1>1
<1>4. DeclarationsResolve'
  <2>1. ASSUME NEW c \in DOMAIN codes, codes'[c].status = "declared"
        PROVE  Stands(c)'
    BY <1>1, <2>1, StandsStill, ResolveIsStands
  <2>2. codes'[new].status = "declared" => Stands(new)'
    BY <1>2
  <2>. QED
    BY <1>3, <2>1, <2>2, ResolveIsStands
<1>5. OnlyExecuteCollides'
  <2>1. ASSUME NEW d \in DOMAIN codes, codes'[d].checked, NEW c \in 1..d - 1
        PROVE  Distinct(c, d)'
    <3>1. c \in DOMAIN codes /\ codes[d].checked
      BY <1>1, <2>1
    <3>2. Distinct(c, d)
      BY <3>1, ClassesAreDistinct
    <3>. QED
      BY <1>1, <3>1, <3>2, SameDistinct
  <2>2. ASSUME codes'[new].checked, NEW c \in 1..new - 1
        PROVE  Distinct(c, new)'
    <3>1. c \in DOMAIN codes /\ checked
      BY <1>1, <1>2, <2>2
    <3>2. /\ codes'[c] = codes[c]
          /\ UnitOf(c)' = UnitOf(c) /\ ScopeOf(c)' = ScopeOf(c)
          /\ UnitOf(new)' = u /\ ScopeOf(new)' = s
      BY <1>1, <1>2, <3>1 DEF UnitOf, ScopeOf
    <3>3. \A n : Declares(c, n)' <=> Declares(c, n)
      BY <3>2 DEF Declares
    <3>. QED
      BY <3>1, <3>2, <3>3 DEF Distinct
  <2>. QED
    BY <1>3, <2>1, <2>2, ClassesAreDistinct
<1>. QED
  BY <1>4, <1>5

LEMMA DeclarationsStep ==
  ASSUME TypeOK, SlotsMatchEntries, SlotsHaveEntries, LinkedSound, DeclarationsResolve,
         OnlyExecuteCollides, [Next]_allVars
  PROVE  DeclarationsResolve' /\ OnlyExecuteCollides'
<1>1. Grows
  BY SlotsStep
<1>2. ASSUME UNCHANGED codes
      PROVE  DeclarationsResolve' /\ OnlyExecuteCollides'
  <2>1. ASSUME NEW c \in DOMAIN codes', codes'[c].status = "declared"
        PROVE  Stands(c)'
    BY <1>1, <1>2, <2>1, StandsStill, ResolveIsStands
  <2>2. OnlyExecuteCollides'
    BY <1>2 DEF OnlyExecuteCollides, Declares, UnitOf, ScopeOf
  <2>. QED
    BY <2>1, <2>2, ResolveIsStands
<1>3. ASSUME NEW u \in Unit, NEW i \in Scope, ParseScriptText(u, i)
      PROVE  DeclarationsResolve' /\ OnlyExecuteCollides'
  <2>1. PICK s \in objs' \cup {NoItem} :
          /\ s = IF i \in Members THEN NoItem ELSE i
          /\ objs \subseteq objs' /\ s \in Scope
    BY <1>3, ParseTypes, ScopesAre
  <2>2. PICK new \in Nat : new = Len(codes) + 1
    BY LenProperties DEF TypeOK
  <2>3. /\ ~check_script_collisions(s, u)
        /\ IF phase = "run"
           THEN /\ codes' = Append(codes, Code(u, s, "declared", TRUE))
                /\ exec_global_code(new, s, u)
           ELSE codes' = Append(codes, Code(u, s, "pending", TRUE))
    BY <1>3, <2>1, <2>2 DEF ParseScriptText
  <2>4. \A c \in DOMAIN codes :
          codes[c].status # "local" /\ ScopeOf(c) \in {s, NoItem} =>
            /\ \A n \in u.classes : ~Declares(c, n)
            /\ UnitOf(c).classes \cap (Range(u.funcs) \cup u.consts) = {}
    BY <2>1, <2>3, NoCollision
  <2>5. CASE phase = "run"
    <3>1. codes'[new].unit = u /\ codes'[new].scope = s
      <4>1. codes'[Len(codes) + 1] = Code(u, s, "declared", TRUE)
        BY <2>1, <2>3, <2>5, CodesGrow
      <4>. QED
        BY <2>2, <4>1 DEF Code
    <3>2. Stands(new)'
      BY <2>1, <2>3, <2>5, <3>1, ExecStands
    <3>. QED
      BY <1>1, <2>1, <2>2, <2>3, <2>4, <2>5, <3>2, AppendStands
  <2>6. CASE phase # "run"
    BY <1>1, <2>1, <2>2, <2>3, <2>4, <2>6, AppendStands
  <2>. QED
    BY <2>5, <2>6
<1>4. ASSUME NEW u \in Unit, ExecuteGlobal(u)
      PROVE  DeclarationsResolve' /\ OnlyExecuteCollides'
  <2>1. PICK new \in Nat : new = Len(codes) + 1
    BY LenProperties DEF TypeOK
  <2>2. /\ codes' = Append(codes, Code(u, NoItem, "declared", FALSE))
        /\ exec_global_code(new, NoItem, u) /\ UNCHANGED objs
    BY <1>4, <2>1 DEF ExecuteGlobal
  <2>3. codes'[new].unit = u /\ codes'[new].scope = NoItem
    <3>1. codes'[Len(codes) + 1] = Code(u, NoItem, "declared", FALSE)
      BY <2>2, CodesGrow
    <3>. QED
      BY <2>1, <3>1 DEF Code
  <2>4. Stands(new)'
    BY <2>2, <2>3, ScopesAre, ExecStands
  <2>. QED
    BY <1>1, <2>1, <2>2, <2>4, AppendStands
<1>5. ASSUME NEW u \in Unit, ExecuteLocal(u)
      PROVE  DeclarationsResolve' /\ OnlyExecuteCollides'
  <2>1. PICK new \in Nat : new = Len(codes) + 1
    BY LenProperties DEF TypeOK
  <2>2. codes' = Append(codes, Code(u, NoItem, "local", FALSE)) /\ UNCHANGED objs
    BY <1>5 DEF ExecuteLocal
  <2>. QED
    BY <1>1, <2>1, <2>2, AppendStands
<1>6. CASE RunQueued
  <2>1. PICK c \in DOMAIN codes :
          /\ codes[c].status = "pending" /\ ScopeOf(c) \in Scope /\ UnitOf(c) \in Unit
          /\ exec_global_code(c, ScopeOf(c), UnitOf(c))
          /\ DOMAIN codes' = DOMAIN codes
          /\ \A d \in DOMAIN codes \ {c} : codes'[d] = codes[d]
          /\ codes'[c] = [codes[c] EXCEPT !.status = "declared"]
    BY <1>6, RunQueuedIs
  <2>2. /\ codes'[c].unit = UnitOf(c) /\ codes'[c].scope = ScopeOf(c)
        /\ codes'[c].checked = codes[c].checked
    <3>1. codes[c] \in CodeOf(objs \cup {NoItem})
      <4>1. codes \in Seq(CodeOf(objs \cup {NoItem}))
        BY DEF TypeOK, CodeOf
      <4>. QED
        BY <4>1, LenProperties, ElementOfSeq
    <3>. QED
      BY <2>1, <3>1 DEF CodeOf, UnitOf, ScopeOf
  <2>3. DeclarationsResolve'
    <3>1. Stands(c)'
      BY <2>1, <2>2, ExecStands
    <3>2. ASSUME NEW d \in DOMAIN codes \ {c}, codes'[d].status = "declared"
          PROVE  Stands(d)'
      BY <1>1, <2>1, <3>2, StandsStill, ResolveIsStands
    <3>. QED
      BY <2>1, <3>1, <3>2, ResolveIsStands
  <2>4. OnlyExecuteCollides'
    <3>1. \A d \in DOMAIN codes :
            /\ codes'[d].unit = codes[d].unit /\ codes'[d].scope = codes[d].scope
            /\ codes'[d].checked = codes[d].checked
            /\ codes'[d].status # "local" => codes[d].status # "local"
      BY <2>1, <2>2 DEF UnitOf, ScopeOf
    <3>2. ASSUME NEW d \in DOMAIN codes', codes'[d].checked, NEW b \in 1..d - 1
          PROVE  Distinct(b, d)'
      <4>1. d \in DOMAIN codes /\ b \in DOMAIN codes /\ codes[d].checked
        <5>1. DOMAIN codes = 1..Len(codes) /\ Len(codes) \in Nat
          BY LenProperties DEF TypeOK
        <5>. QED
          BY <2>1, <3>1, <3>2, <5>1
      <4>2. Distinct(b, d)
        BY <3>2, <4>1, ClassesAreDistinct
      <4>. QED
        BY <3>1, <4>1, <4>2, SameDistinct
    <3>. QED
      BY <3>2, ClassesAreDistinct
  <2>. QED
    BY <2>3, <2>4
<1>7. ASSUME NEW i \in Item, AddNamedItem(i)
      PROVE  UNCHANGED codes
  BY <1>7 DEF AddNamedItem
<1>8. CASE Start \/ StartDone \/ Return \/ UNCHANGED allVars
           \/ \E s \in Scope : \E k \in DOMAIN funcs[s] : CallProcedure(s, k)
  BY <1>2, <1>8, QuietTypes
<1>9. ASSUME NEW n \in Name, Read(n) \/ AssignUnknown(n) \/ DeclareConst(n)
      PROVE  UNCHANGED codes
  BY <1>9 DEF Read, AssignUnknown, DeclareConst
<1>10. LocalUnit \subseteq Unit
  BY NamespaceAssumption
<1>. QED
  BY <1>2, <1>3, <1>4, <1>5, <1>6, <1>7, <1>8, <1>9, <1>10 DEF Next

\* Accepted texts collide with nothing they see, so the first class of a name is
\* that of the accepted text, or of an executed one.
LEMMA HidesFollows ==
  ASSUME TypeOK, LinkedSound, OnlyExecuteCollides
  PROVE  OnlyExecuteHidesClass
<1>. SUFFICES ASSUME NEW c \in DOMAIN codes, codes[c].status = "declared", codes[c].checked,
                     NEW n \in UnitOf(c).classes
              PROVE  \/ interp_new(ScopeOf(c), n) = c
                     \/ /\ interp_new(ScopeOf(c), n) \in DOMAIN codes
                        /\ ~codes[interp_new(ScopeOf(c), n)].checked
  BY DEF OnlyExecuteHidesClass
<1>1. PICK d : d = interp_new(ScopeOf(c), n)
  OBVIOUS
<1>2. ScopeOf(c) \in Scope /\ ClassIn(ScopeOf(c), n) # 0
  BY CodeIs, RunClassFound
<1>3. d = linked[ScopeOf(c)][ClassIn(ScopeOf(c), n)]
  BY <1>1, <1>2 DEF interp_new
<1>4. d \in Range(linked[ScopeOf(c)]) /\ n \in UnitOf(d).classes
  BY <1>2, <1>3, ClassInIs
<1>5. d \in DOMAIN codes /\ codes[d].status = "declared" /\ ScopeOf(d) = ScopeOf(c)
  <2>1. Range(linked[ScopeOf(c)]) \subseteq DOMAIN codes
    BY <1>2, LenProperties, ElementOfSeq DEF TypeOK, Range
  <2>. QED
    BY <1>2, <1>4, <2>1 DEF LinkedSound
<1>6. ASSUME codes[d].checked, d # c
      PROVE  FALSE
  <2>1. DOMAIN codes = 1..Len(codes) /\ Len(codes) \in Nat
    BY LenProperties DEF TypeOK
  <2>2. CASE d < c
    <3>1. d \in 1..c - 1
      BY <1>5, <2>1, <2>2
    <3>2. Distinct(d, c)
      BY <3>1, ClassesAreDistinct
    <3>. QED
      BY <1>4, <1>5, <3>2 DEF Distinct, Declares
  <2>3. CASE c < d
    <3>1. c \in 1..d - 1
      BY <1>5, <2>1, <2>3
    <3>2. Distinct(c, d)
      BY <1>5, <1>6, <3>1, ClassesAreDistinct
    <3>. QED
      BY <1>4, <1>5, <3>2 DEF Distinct, Declares
  <2>. QED
    BY <1>5, <1>6, <2>1, <2>2, <2>3
<1>. QED
  BY <1>1, <1>5, <1>6

-------------------------------------------------------------------------------
LEMMA InitInvariant ==
  ASSUME Init
  PROVE  IInv
<1>1. TypeOK
  <2>1. /\ NoEntry \in Entries /\ <<>> \in Seq([name : Name, const : BOOLEAN])
        /\ <<>> \in Seq([name : Name, code : DOMAIN codes]) /\ <<>> \in Seq(Item)
        /\ <<>> \in Seq(CodeOf(objs \cup {NoItem})) /\ <<>> \in Seq(FrameOf(DOMAIN codes))
        /\ DOMAIN <<>> = {} /\ IsInjective(<<>>)
    BY DEF NoEntry, Entries, IsInjective
  <2>2. NamesTyped /\ EmptyOutside
    BY <2>1 DEF Init, NamesTyped, EmptyOutside, Var, Func
  <2>3. HostTyped /\ CodesTyped /\ FramesTyped /\ PhaseTyped
    BY <2>1 DEF Init, HostTyped, CodesTyped, FramesTyped, PhaseTyped
  <2>. QED
    BY <2>2, <2>3, Types
<1>2. WaitsIdle /\ SlotsMatchEntries /\ SlotsHaveEntries
  BY DEF Init, WaitsIdle, Idle, SlotsMatchEntries, SlotsHaveEntries, NoEntry
<1>3. CachesSound
  BY DEF Init, CachesSound, NoEntry
<1>4. LinkedSound /\ DeclarationsResolve /\ OnlyExecuteCollides
  BY DEF Init, LinkedSound, Range, DeclarationsResolve, OnlyExecuteCollides
<1>. QED
  BY <1>1, <1>2, <1>3, <1>4 DEF IInv

LEMMA StepInvariant ==
  ASSUME IInv, [Next]_allVars
  PROVE  IInv'
  BY TypeStep, SlotsStep, CachesStep, LinkedStep, DeclarationsStep DEF IInv

LEMMA Invariance == Spec => []IInv
  BY InitInvariant, StepInvariant, PTL DEF Spec

\* exec_global_code, add_dynamic_var, the caches and the frames of interp.c: every
\* variable keeps its type, whatever is parsed, run and looked up.
THEOREM TypesAlways == Spec => []TypeOK
<1>1. IInv => TypeOK
  BY DEF IInv
<1>. QED
  BY <1>1, Invariance, PTL

\* A DISPID that GetDispID reads from an entry is the slot of the variable or the
\* procedure of that name, and no procedure has two slots.
THEOREM SlotsMatchAlways == Spec => []SlotsMatchEntries
<1>1. IInv => SlotsMatchEntries
  BY DEF IInv
<1>. QED
  BY <1>1, Invariance, PTL

\* What a text that has run declares stays a script name; check_script_collisions
\* keeps accepted texts apart, also those that wait, so that New finds the class a
\* text declared unless Execute or ExecuteGlobal (skip_collisions) declared it again.
THEOREM DeclarationsStandAlways == Spec => []DeclarationsStand
<1>1. IInv => DeclarationsStand
  BY HidesFollows DEF IInv, DeclarationsStand
<1>. QED
  BY <1>1, Invariance, PTL

\* script_disp_add_hostprop and script_disp_add_builtin change no answer: every
\* name stands for what the host and the builtins would answer now.
THEOREM LookupsAreFreshAlways == Spec => []LookupsAreFresh
<1>1. IInv => LookupsAreFresh
  BY FreshFollows DEF IInv
<1>. QED
  BY <1>1, Invariance, PTL

\* No step reuses a slot of a script dispatch or takes a name from a procedure.
THEOREM DispatchOnlyGrowsAlways == Spec => DispatchOnlyGrows
<1>1. IInv /\ [Next]_allVars => [Grows]_allVars
  BY SlotsStep DEF IInv
<1>2. [][Grows]_allVars => DispatchOnlyGrows
  BY PTL DEF DispatchOnlyGrows, Grows
<1>. QED
  BY <1>1, <1>2, Invariance, PTL DEF Spec
===============================================================================
