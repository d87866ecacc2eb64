--------------------------- MODULE GroupGateProofs ---------------------------
(***************************************************************************)
(* Proofs about the writes of one group (GroupGate), for any devices, blobs, *)
(* sizes, ceiling and concurrent requests.                                   *)
(***************************************************************************)
EXTENDS GroupGate, FiniteSetTheorems, TLAPS

-----------------------------------------------------------------------------
(* Sums.  A set of subsets of a finite set has a least member; that is how   *)
(* every induction over a finite set is made here.                           *)

\* A set of subsets of a finite set that is not empty has a least member.
LEMMA Least ==
    ASSUME NEW S, IsFiniteSet(S), NEW Bad \in SUBSET SUBSET S, Bad # {}
    PROVE  \E A \in Bad : \A B \in SUBSET A : B # A => B \notin Bad
<1>1. IsWellFoundedOn(StrictSubsetOrdering(S), SUBSET S)
  BY Zenon, FS_FiniteSubsetsOfFinite, FS_StrictSubsetOrderingWellFounded
<1>2. PICK A \in Bad : \A B \in Bad : ~(<<B, A>> \in StrictSubsetOrdering(S))
  BY Zenon, <1>1, WFMin
<1> QED
  BY Zenon, <1>2 DEF StrictSubsetOrdering

\* The element a sum takes first.
Pick(s) == CHOOSE x \in s : TRUE
\* g is the function that MapThenSumSet defines.
IsSum(g, f, S) ==
    g = [s \in SUBSET S |-> IF s = {} THEN 0 ELSE f[Pick(s)] + g[s \ {Pick(s)}]]
Sum(f, S) == MapThenSumSet(LAMBDA x : f[x], S)

\* The first element is an element.
LEMMA Picked ==
    ASSUME NEW s, s # {}
    PROVE  Pick(s) \in s
BY Zenon DEF Pick

\* Two sums of a set are the same when their terms are.
LEMMA SumsAgree ==
    ASSUME NEW S, IsFiniteSet(S), NEW T, NEW f, NEW e, NEW g, IsSum(g, f, S), NEW h, IsSum(h, e, T),
           NEW s \in SUBSET S, s \in SUBSET T, \A x \in s : f[x] = e[x]
    PROVE  g[s] = h[s]
<1> DEFINE Bad == {t \in SUBSET s : g[t] # h[t]}
<1>1. SUFFICES ASSUME Bad # {} PROVE FALSE
  BY Zenon
<1>2. IsFiniteSet(s)
  BY Zenon, FS_Subset
<1>3. PICK t \in Bad : \A u \in SUBSET t : u # t => u \notin Bad
  <2>1. Bad \in SUBSET SUBSET s
    BY Zenon
  <2> HIDE DEF Bad
  <2> QED
    BY Zenon, <1>1, <1>2, <2>1, Least
<1>4. /\ g[t] = IF t = {} THEN 0 ELSE f[Pick(t)] + g[t \ {Pick(t)}]
      /\ h[t] = IF t = {} THEN 0 ELSE e[Pick(t)] + h[t \ {Pick(t)}]
  BY Zenon, <1>3 DEF IsSum
<1>5. t # {}
  BY Zenon, <1>3, <1>4
<1>6. Pick(t) \in t
  BY Zenon, <1>5, Picked
<1>7. g[t \ {Pick(t)}] = h[t \ {Pick(t)}]
  BY Zenon, <1>3, <1>6
<1> QED
  BY Zenon, <1>3, <1>4, <1>6, <1>7

\* The function that a sum is defined by exists.
LEMMA SumExists ==
    ASSUME NEW S, IsFiniteSet(S), NEW f, \A x \in S : f[x] \in Nat
    PROVE  \E g \in [SUBSET S -> Nat] : IsSum(g, f, S)
<1> DEFINE Bad == {t \in SUBSET S : ~\E g \in [SUBSET t -> Nat] : IsSum(g, f, t)}
<1>1. SUFFICES ASSUME Bad # {} PROVE FALSE
  BY Zenon
<1>2. PICK s \in Bad : \A t \in SUBSET s : t # s => t \notin Bad
  <2>1. Bad \in SUBSET SUBSET S
    BY Zenon
  <2> HIDE DEF Bad
  <2> QED
    BY Zenon, <1>1, <2>1, Least
<1>3. \A t \in SUBSET s : t # s => \E g \in [SUBSET t -> Nat] : IsSum(g, f, t)
  BY Zenon, <1>2
<1> DEFINE of(t) == CHOOSE g \in [SUBSET t -> Nat] : IsSum(g, f, t)
<1>4. \A t \in SUBSET s : t # s => of(t) \in [SUBSET t -> Nat] /\ IsSum(of(t), f, t)
  BY Zenon, <1>3
<1> HIDE DEF of
<1>5. \A t \in SUBSET s : IsFiniteSet(t)
  BY Zenon, <1>2, FS_Subset
<1> DEFINE x == Pick(s)
           G == [t \in SUBSET s |->
                    IF t # s THEN of(t)[t]
                    ELSE IF s = {} THEN 0 ELSE f[x] + of(s \ {x})[s \ {x}]]
<1>6. s # {} => x \in s /\ x \in S /\ f[x] \in Nat /\ s \ {x} \in SUBSET s /\ s \ {x} # s
  BY Zenon, <1>2, Picked
<1>7. G \in [SUBSET s -> Nat]
  <2>1. \A t \in SUBSET s : t # s => of(t)[t] \in Nat
    BY Zenon, <1>4
  <2> QED
    BY <1>6, <2>1
<1>8. ASSUME NEW t \in SUBSET s
      PROVE  G[t] = IF t = {} THEN 0 ELSE f[Pick(t)] + G[t \ {Pick(t)}]
  <2>1. CASE t = s
    BY Zenon, <1>6, <2>1
  <2>2. CASE t # s /\ t = {}
    BY Zenon, <1>4, <2>2 DEF IsSum
  <2>3. CASE t # s /\ t # {}
    <3> DEFINE y == Pick(t)
    <3>1. y \in t /\ t \ {y} \in SUBSET s /\ t \ {y} # s /\ t \ {y} \in SUBSET t
      BY Zenon, <2>3, Picked
    <3>2. of(t)[t] = f[y] + of(t)[t \ {y}]
      BY Zenon, <1>4, <2>3 DEF IsSum
    <3>3. of(t)[t \ {y}] = of(t \ {y})[t \ {y}]
      <4>1. PICK u, g, h : u = t \ {y} /\ g = of(t) /\ h = of(u)
        BY Zenon
      <4>2. IsSum(g, f, t) /\ IsSum(h, f, u) /\ IsFiniteSet(t) /\ u \in SUBSET t
        BY Zenon, <1>4, <1>5, <2>3, <3>1, <4>1
      <4>3. g[u] = h[u]
        BY <4>2, SumsAgree
      <4> QED
        BY Zenon, <4>1, <4>3
    <3> QED
      BY Zenon, <2>3, <3>1, <3>2, <3>3
  <2> QED
    BY Zenon, <2>1, <2>2, <2>3
<1>9. IsSum(G, f, s)
  <2>1. G = [t \in SUBSET s |-> G[t]]
    BY Zenon
  <2> HIDE DEF G
  <2> QED
    BY Zenon, <1>8, <2>1 DEF IsSum
<1> QED
  BY Zenon, <1>2, <1>7, <1>9

\* What a sum is.
LEMMA SumIs ==
    ASSUME NEW S, IsFiniteSet(S), NEW f, \A x \in S : f[x] \in Nat
    PROVE  \E g \in [SUBSET S -> Nat] : IsSum(g, f, S) /\ Sum(f, S) = g[S]
<1>1. Sum(f, S) = (CHOOSE g : IsSum(g, f, S))[S]
  BY Zenon DEF Sum, MapThenSumSet, MapThenFoldSet, Pick, IsSum
<1>2. PICK h \in [SUBSET S -> Nat] : IsSum(h, f, S)
  BY Zenon, SumExists
<1>3. PICK g : g = (CHOOSE k : IsSum(k, f, S)) /\ IsSum(g, f, S)
  BY Zenon, <1>2
<1>4. g = [s \in SUBSET S |-> IF s = {} THEN 0 ELSE f[Pick(s)] + g[s \ {Pick(s)}]]
  BY Zenon, <1>3 DEF IsSum
<1>5. \A s \in SUBSET S : g[s] = h[s]
  BY <1>2, <1>3, SumsAgree
<1>6. g \in [SUBSET S -> Nat]
  <2>1. \A s \in SUBSET S : g[s] \in Nat
    BY Zenon, <1>2, <1>5
  <2>2. g = [s \in SUBSET S |-> g[s]]
    BY Zenon, <1>4
  <2> QED
    BY Zenon, <2>1, <2>2
<1> QED
  BY Zenon, <1>1, <1>3, <1>6

\* A sum is a natural number, and depends on the terms alone.
LEMMA SumSame ==
    ASSUME NEW S, IsFiniteSet(S), NEW f, NEW e, \A x \in S : f[x] \in Nat /\ f[x] = e[x]
    PROVE  Sum(f, S) \in Nat /\ Sum(f, S) = Sum(e, S)
<1>1. PICK g \in [SUBSET S -> Nat] : IsSum(g, f, S) /\ Sum(f, S) = g[S]
  BY Zenon, SumIs
<1>2. \A x \in S : e[x] \in Nat
  BY Zenon
<1>3. PICK h \in [SUBSET S -> Nat] : IsSum(h, e, S) /\ Sum(e, S) = h[S]
  BY Zenon, <1>2, SumIs
<1>4. g[S] = h[S]
  BY <1>1, <1>3, SumsAgree
<1> QED
  BY Zenon, <1>1, <1>3, <1>4

\* Nothing sums to nothing.
LEMMA SumNone ==
    ASSUME NEW f
    PROVE  Sum(f, {}) = 0
<1>1. IsFiniteSet({})
  BY Zenon, FS_EmptySet
<1>2. PICK g \in [SUBSET {} -> Nat] : IsSum(g, f, {}) /\ Sum(f, {}) = g[{}]
  BY Zenon, <1>1, SumIs
<1> QED
  BY Zenon, <1>2 DEF IsSum

\* The first element of a sum may be taken out.
LEMMA SumFirst ==
    ASSUME NEW S, IsFiniteSet(S), S # {}, NEW f, \A x \in S : f[x] \in Nat
    PROVE  Sum(f, S) = f[Pick(S)] + Sum(f, S \ {Pick(S)})
<1>1. PICK g \in [SUBSET S -> Nat] : IsSum(g, f, S) /\ Sum(f, S) = g[S]
  BY Zenon, SumIs
<1>2. PICK T : T = S \ {Pick(S)}
  BY Zenon
<1>3. T \in SUBSET S /\ IsFiniteSet(T) /\ \A x \in T : f[x] \in Nat
  BY Zenon, <1>2, FS_Subset
<1>4. PICK h \in [SUBSET T -> Nat] : IsSum(h, f, T) /\ Sum(f, T) = h[T]
  BY Zenon, <1>3, SumIs
<1>5. g[T] = h[T]
  BY <1>1, <1>3, <1>4, SumsAgree
<1>6. g[S] = f[Pick(S)] + g[T]
  BY Zenon, <1>1, <1>2 DEF IsSum
<1> QED
  BY Zenon, <1>1, <1>2, <1>4, <1>5, <1>6

\* And so may any other.
LEMMA SumSplit ==
    ASSUME NEW S, IsFiniteSet(S), NEW f, \A x \in S : f[x] \in Nat, NEW a \in S
    PROVE  /\ Sum(f, S) \in Nat /\ Sum(f, S \ {a}) \in Nat
           /\ Sum(f, S) = f[a] + Sum(f, S \ {a})
<1>0. \A A \in SUBSET S : IsFiniteSet(A) /\ Sum(f, A) \in Nat
  <2> TAKE A \in SUBSET S
  <2>1. IsFiniteSet(A) /\ \A x \in A : f[x] \in Nat
    BY Zenon, FS_Subset
  <2> QED
    BY Zenon, <2>1, SumSame
<1> DEFINE Bad == {A \in SUBSET S : \E b \in A : Sum(f, A) # f[b] + Sum(f, A \ {b})}
<1>1. SUFFICES ASSUME Bad # {} PROVE FALSE
  BY Zenon, <1>0
<1>2. PICK A \in Bad : \A B \in SUBSET A : B # A => B \notin Bad
  <2>1. Bad \in SUBSET SUBSET S
    BY Zenon
  <2> HIDE DEF Bad
  <2> QED
    BY Zenon, <1>1, <2>1, Least
<1>3. PICK b \in A : Sum(f, A) # f[b] + Sum(f, A \ {b})
  BY Zenon, <1>2
<1>4. PICK x : x = Pick(A)
  BY Zenon
<1>5. x \in A /\ A \in SUBSET S /\ b \in S /\ x \in S
  BY Zenon, <1>2, <1>3, <1>4, Picked
<1>6. Sum(f, A) = f[x] + Sum(f, A \ {x})
  BY Zenon, <1>0, <1>3, <1>4, <1>5, SumFirst
<1>7. x # b
  BY Zenon, <1>3, <1>6
<1>8. A \ {x} \notin Bad /\ A \ {b} \notin Bad
  BY Zenon, <1>2, <1>3, <1>5
<1>9. Sum(f, A \ {x}) = f[b] + Sum(f, (A \ {x}) \ {b})
  <2>1. b \in A \ {x} /\ A \ {x} \in SUBSET S
    BY Zenon, <1>3, <1>5, <1>7
  <2> QED
    BY Zenon, <1>8, <2>1
<1>10. Sum(f, A \ {b}) = f[x] + Sum(f, (A \ {b}) \ {x})
  <2>1. x \in A \ {b} /\ A \ {b} \in SUBSET S
    BY Zenon, <1>3, <1>5, <1>7
  <2> QED
    BY Zenon, <1>8, <2>1
<1>11. (A \ {b}) \ {x} = (A \ {x}) \ {b} /\ (A \ {x}) \ {b} \in SUBSET S
  BY Zenon, <1>5
<1>12. PICK n : n = Sum(f, (A \ {x}) \ {b})
  BY Zenon
<1>13. n \in Nat /\ f[x] \in Nat /\ f[b] \in Nat
  BY Zenon, <1>0, <1>5, <1>11, <1>12
<1>14. Sum(f, A) = f[x] + (f[b] + n) /\ Sum(f, A \ {b}) = f[x] + n
  BY Zenon, <1>6, <1>9, <1>10, <1>11, <1>12
<1> QED
  BY <1>3, <1>13, <1>14

\* A sum in which one term changes.
LEMMA SumChange ==
    ASSUME NEW S, IsFiniteSet(S), NEW f \in [S -> Nat], NEW e \in [S -> Nat], NEW a \in S,
           \A x \in S \ {a} : f[x] = e[x]
    PROVE  /\ Sum(f, S) \in Nat /\ Sum(e, S) \in Nat /\ f[a] <= Sum(f, S)
           /\ Sum(e, S) + f[a] = Sum(f, S) + e[a]
<1>1. PICK T : T = S \ {a}
  BY Zenon
<1>2. IsFiniteSet(T) /\ \A x \in T : f[x] \in Nat /\ f[x] = e[x]
  BY Zenon, <1>1, FS_Subset
<1>3. Sum(f, T) = Sum(e, T)
  BY Zenon, <1>2, SumSame
<1>4. /\ Sum(f, S) \in Nat /\ Sum(f, T) \in Nat /\ Sum(f, S) = f[a] + Sum(f, T)
      /\ Sum(e, S) \in Nat /\ Sum(e, S) = e[a] + Sum(e, T)
  BY Zenon, <1>1, SumSplit
<1>5. f[a] \in Nat /\ e[a] \in Nat
  BY Zenon
<1> QED
  BY <1>3, <1>4, <1>5

\* A part sums to no more than the whole.
LEMMA SumPart ==
    ASSUME NEW S, IsFiniteSet(S), NEW f, \A x \in S : f[x] \in Nat, NEW T \in SUBSET S
    PROVE  Sum(f, T) <= Sum(f, S)
<1>0. \A A \in SUBSET S : IsFiniteSet(A) /\ Sum(f, A) \in Nat /\ \A x \in A : f[x] \in Nat
  <2> TAKE A \in SUBSET S
  <2>1. IsFiniteSet(A) /\ \A x \in A : f[x] \in Nat
    BY Zenon, FS_Subset
  <2> QED
    BY Zenon, <2>1, SumSame
<1> DEFINE Bad == {A \in SUBSET S : T \subseteq A /\ ~(Sum(f, T) <= Sum(f, A))}
<1>1. SUFFICES ASSUME Bad # {} PROVE FALSE
  BY Zenon
<1>2. PICK A \in Bad : \A B \in SUBSET A : B # A => B \notin Bad
  <2>1. Bad \in SUBSET SUBSET S
    BY Zenon
  <2> HIDE DEF Bad
  <2> QED
    BY Zenon, <1>1, <2>1, Least
<1>3. A # T
  BY <1>0, <1>2
<1>4. PICK a \in A : a \notin T
  BY Zenon, <1>2, <1>3
<1>5. Sum(f, T) <= Sum(f, A \ {a})
  <2>1. A \ {a} \in SUBSET A /\ A \ {a} # A /\ A \ {a} \in SUBSET S /\ T \subseteq A \ {a}
    BY Zenon, <1>2, <1>4
  <2> QED
    BY Zenon, <1>2, <2>1
<1>6. Sum(f, A) = f[a] + Sum(f, A \ {a})
  BY Zenon, <1>0, <1>2, <1>4, SumSplit
<1>7. /\ Sum(f, A \ {a}) \in Nat /\ f[a] \in Nat /\ Sum(f, T) \in Nat
      /\ ~(Sum(f, T) <= Sum(f, A))
  BY Zenon, <1>0, <1>2, <1>4
<1> QED
  BY <1>5, <1>6, <1>7

\* Terms that are no larger sum to no more.
LEMMA SumLess ==
    ASSUME NEW S, IsFiniteSet(S), NEW f \in [S -> Nat], NEW e \in [S -> Nat],
           \A x \in S : f[x] <= e[x]
    PROVE  Sum(f, S) <= Sum(e, S) /\ Sum(f, S) \in Nat /\ Sum(e, S) \in Nat
<1>0. \A A \in SUBSET S : /\ IsFiniteSet(A) /\ Sum(f, A) \in Nat /\ Sum(e, A) \in Nat
                          /\ \A x \in A : f[x] \in Nat /\ e[x] \in Nat /\ f[x] <= e[x]
  <2> TAKE A \in SUBSET S
  <2>1. IsFiniteSet(A) /\ \A x \in A : f[x] \in Nat /\ e[x] \in Nat
    BY Zenon, FS_Subset
  <2> QED
    BY Zenon, <2>1, SumSame
<1> DEFINE Bad == {A \in SUBSET S : ~(Sum(f, A) <= Sum(e, A))}
<1>1. SUFFICES ASSUME Bad # {} PROVE FALSE
  BY Zenon, <1>0
<1>2. PICK A \in Bad : \A B \in SUBSET A : B # A => B \notin Bad
  <2>1. Bad \in SUBSET SUBSET S
    BY Zenon
  <2> HIDE DEF Bad
  <2> QED
    BY Zenon, <1>1, <2>1, Least
<1>3. A # {}
  <2>1. Sum(f, {}) = 0 /\ Sum(e, {}) = 0
    BY Zenon, SumNone
  <2>2. ~(Sum(f, A) <= Sum(e, A))
    BY Zenon, <1>2
  <2> HIDE DEF Bad
  <2> QED
    BY <2>1, <2>2
<1>4. PICK a \in A : TRUE
  BY Zenon, <1>3
<1>5. Sum(f, A \ {a}) <= Sum(e, A \ {a})
  <2>1. A \ {a} \in SUBSET A /\ A \ {a} # A /\ A \ {a} \in SUBSET S
    BY Zenon, <1>2, <1>4
  <2> QED
    BY Zenon, <1>2, <2>1
<1>6. Sum(f, A) = f[a] + Sum(f, A \ {a}) /\ Sum(e, A) = e[a] + Sum(e, A \ {a})
  BY Zenon, <1>0, <1>2, <1>4, SumSplit
<1>7. /\ Sum(f, A \ {a}) \in Nat /\ Sum(e, A \ {a}) \in Nat /\ f[a] \in Nat /\ e[a] \in Nat
      /\ f[a] <= e[a] /\ ~(Sum(f, A) <= Sum(e, A))
  BY Zenon, <1>0, <1>2, <1>4
<1> QED
  BY <1>5, <1>6, <1>7

\* Terms that are zero sum to zero.
LEMMA SumZero ==
    ASSUME NEW S, IsFiniteSet(S), NEW f, \A x \in S : f[x] = 0
    PROVE  Sum(f, S) = 0
<1> DEFINE Bad == {A \in SUBSET S : Sum(f, A) # 0}
<1>1. SUFFICES ASSUME Bad # {} PROVE FALSE
  BY Zenon
<1>2. PICK A \in Bad : \A B \in SUBSET A : B # A => B \notin Bad
  <2>1. Bad \in SUBSET SUBSET S
    BY Zenon
  <2> HIDE DEF Bad
  <2> QED
    BY Zenon, <1>1, <2>1, Least
<1>3. PICK a \in A : TRUE
  BY Zenon, <1>2, SumNone
<1>4. Sum(f, A \ {a}) = 0
  <2>1. A \ {a} \in SUBSET A /\ A \ {a} # A /\ A \ {a} \in SUBSET S
    BY Zenon, <1>2, <1>3
  <2> QED
    BY Zenon, <1>2, <2>1
<1>5. IsFiniteSet(A) /\ \A x \in A : f[x] = 0 /\ f[x] \in Nat
  BY <1>2, FS_Subset
<1>6. Sum(f, A) = f[a] + Sum(f, A \ {a})
  BY Zenon, <1>3, <1>5, SumSplit
<1> QED
  BY <1>2, <1>3, <1>4, <1>5, <1>6

-----------------------------------------------------------------------------
(* Bytes.                                                                    *)

SizeOf == [h \in Hashes |-> Size(h)]

\* The bytes of blobs are a sum.
LEMMA TotalIs ==
    ASSUME FiniteAssumption, CeilingAssumption, NEW T \in SUBSET Hashes
    PROVE  /\ Total(T) = Sum(SizeOf, T) /\ Total(T) \in Nat /\ IsFiniteSet(T)
           /\ \A h \in T : SizeOf[h] \in Nat
<1>1. IsFiniteSet(T) /\ \A h \in T : SizeOf[h] = Size(h) /\ SizeOf[h] \in Nat
  BY Zenon, FS_Subset DEF FiniteAssumption, CeilingAssumption, SizeOf
<1>2. PICK g \in [SUBSET T -> Nat] : IsSum(g, SizeOf, T) /\ Sum(SizeOf, T) = g[T]
  BY Zenon, <1>1, SumIs
<1>3. Total(T) = (CHOOSE k : k = [s \in SUBSET T |->
                    IF s = {} THEN 0 ELSE Size(Pick(s)) + k[s \ {Pick(s)}]])[T]
  BY Zenon DEF Total, MapThenSumSet, MapThenFoldSet, Pick
<1>4. \A s \in SUBSET T : s # {} => Pick(s) \in T /\ SizeOf[Pick(s)] = Size(Pick(s))
  BY Zenon, <1>1, Picked
<1>5. g = [s \in SUBSET T |-> IF s = {} THEN 0 ELSE Size(Pick(s)) + g[s \ {Pick(s)}]]
  BY Zenon, <1>2, <1>4 DEF IsSum
<1>6. PICK k : /\ k = [s \in SUBSET T |-> IF s = {} THEN 0 ELSE Size(Pick(s)) + k[s \ {Pick(s)}]]
               /\ Total(T) = k[T]
  BY Zenon, <1>3, <1>5
<1>7. IsSum(k, SizeOf, T)
  BY Zenon, <1>4, <1>6 DEF IsSum
<1>8. k[T] = g[T]
  BY <1>1, <1>2, <1>7, SumsAgree
<1> QED
  BY <1>1, <1>2, <1>6, <1>8

\* Fewer blobs have no more bytes.
LEMMA TotalPart ==
    ASSUME FiniteAssumption, CeilingAssumption, NEW T \in SUBSET Hashes, NEW U \in SUBSET T
    PROVE  Total(U) \in Nat /\ Total(T) \in Nat /\ Total(U) <= Total(T)
<1>1. U \in SUBSET Hashes
  BY Zenon
<1> QED
  BY Zenon, <1>1, TotalIs, SumPart

\* One more blob adds its size, or nothing.
LEMMA TotalMore ==
    ASSUME FiniteAssumption, CeilingAssumption, NEW T \in SUBSET Hashes, NEW h \in Hashes
    PROVE  /\ Total(T) \in Nat /\ Total(T \cup {h}) \in Nat
           /\ Total(T \cup {h}) <= Total(T) + Size(h)
           /\ h \in T => Total(T \cup {h}) = Total(T)
<1>1. CASE h \in T
  <2>1. T \cup {h} = T
    BY Zenon, <1>1
  <2>2. Total(T) \in Nat /\ Size(h) \in Nat
    BY Zenon, TotalIs DEF CeilingAssumption
  <2> QED
    BY <1>1, <2>1, <2>2
<1>2. CASE h \notin T
  <2>1. PICK U : U = T \cup {h}
    BY Zenon
  <2>2. U \in SUBSET Hashes /\ h \in U /\ U \ {h} = T
    BY Zenon, <1>2, <2>1
  <2>3. Sum(SizeOf, U) = SizeOf[h] + Sum(SizeOf, T)
    BY Zenon, <2>2, TotalIs, SumSplit
  <2>4. SizeOf[h] = Size(h) /\ Size(h) \in Nat
    BY Zenon DEF SizeOf, CeilingAssumption
  <2> QED
    BY <1>2, <2>1, <2>2, <2>3, <2>4, TotalIs
<1> QED
  BY Zenon, <1>1, <1>2

\* Blobs that are each held, or paid for by a request, have no more bytes than
\* what is held and what is paid.
LEMMA Paid ==
    ASSUME FiniteAssumption, CeilingAssumption, NEW T \in SUBSET Hashes,
           NEW R, IsFiniteSet(R), NEW w \in [R -> Nat], NEW blob \in [R -> Hashes],
           \A q \in R : blob[q] \in T \/ Size(blob[q]) <= w[q]
    PROVE  Total(T \cup {blob[q] : q \in R}) <= Total(T) + Sum(w, R)
<1> DEFINE All(A) == T \cup {blob[q] : q \in A}
           Bad == {A \in SUBSET R : ~(Total(All(A)) <= Total(T) + Sum(w, A))}
<1>1. SUFFICES ASSUME Bad # {} PROVE FALSE
  BY Zenon
<1>2. PICK A \in Bad : \A B \in SUBSET A : B # A => B \notin Bad
  <2>1. Bad \in SUBSET SUBSET R
    BY Zenon
  <2> HIDE DEF Bad
  <2> QED
    BY Zenon, <1>1, <2>1, Least
<1>3. Total(T) \in Nat
  BY Zenon, TotalIs
<1>4. CASE A = {}
  <2>1. All(A) = T /\ Sum(w, A) = 0
    BY Zenon, <1>4, SumNone
  <2>2. ~(Total(All(A)) <= Total(T) + Sum(w, A))
    BY Zenon, <1>2
  <2> HIDE DEF All
  <2> QED
    BY <1>3, <2>1, <2>2
<1>5. CASE A # {}
  <2>1. PICK a \in A : TRUE
    BY Zenon, <1>5
  <2>2. PICK B : B = A \ {a}
    BY Zenon
  <2>3. A \in SUBSET R /\ B \in SUBSET R /\ B \in SUBSET A /\ B # A
    BY Zenon, <1>2, <2>1, <2>2
  <2>4. Total(All(B)) <= Total(T) + Sum(w, B)
    BY Zenon, <1>2, <2>3
  <2>5. IsFiniteSet(A) /\ \A q \in A : w[q] \in Nat
    BY Zenon, <2>3, FS_Subset
  <2>6. Sum(w, A) = w[a] + Sum(w, B) /\ Sum(w, B) \in Nat
    BY Zenon, <2>1, <2>2, <2>5, SumSplit
  <2>7. All(A) = All(B) \cup {blob[a]} /\ All(B) \in SUBSET Hashes /\ blob[a] \in Hashes
    BY Zenon, <2>1, <2>2, <2>3
  <2>8. /\ Total(All(B)) \in Nat /\ Total(All(A)) \in Nat /\ Size(blob[a]) \in Nat
        /\ Total(All(A)) <= Total(All(B)) + Size(blob[a])
        /\ blob[a] \in All(B) => Total(All(A)) = Total(All(B))
    <3> HIDE DEF All
    <3> QED
      BY Zenon, <2>7, TotalMore DEF CeilingAssumption
  <2>9. blob[a] \in All(B) \/ Size(blob[a]) <= w[a]
    BY Zenon, <2>1, <2>3
  <2>10. w[a] \in Nat /\ ~(Total(All(A)) <= Total(T) + Sum(w, A))
    BY Zenon, <1>2, <2>1, <2>5
  <2> HIDE DEF All
  <2> QED
    BY <1>3, <2>4, <2>6, <2>8, <2>9, <2>10
<1> QED
  BY Zenon, <1>4, <1>5

-----------------------------------------------------------------------------
(* The invariant.                                                            *)

\* The states of a request.
Op == {NoRequest} \cup Uploads \cup Mirrors \cup Deletes

\* The bytes an upload has reserved, and those of them that are not among the
\* holdings yet.
NeedOf(op) == IF op.kind = "upload" THEN op.need ELSE 0
DueOf(op) == IF op.kind = "upload" /\ op.at # "finish" THEN op.need ELSE 0
Needs == [q \in Requests |-> NeedOf(reqs[q])]
Due == [q \in Requests |-> DueOf(reqs[q])]

\* The blobs the group has shown, or keeps because of a crash.
Shown == proved \cup {c[2] : c \in leaked}

\* A request whose claim may have to be taken back.
Pending(op, c) ==
    /\ \/ op.kind = "upload" /\ op.at = "takeBack"
       \/ op.kind = "mirror" /\ op.at = "verdict"
    /\ c = <<op.device, op.hash>>

\* A request that has not looked at the holdings.
Early(op) ==
    /\ op.kind = "upload" => op.at = "held"
    /\ op.kind = "mirror" => op.at \in {"reserved", "held"}

\* What a request that goes on to claim or to insert a blob has to go by.
Informed(op, shown) ==
    /\ op.kind = "upload" /\ (op.held \/ (op.at = "begin" /\ op.proven) \/ op.at = "insert")
        => op.hash \in shown
    /\ op.kind = "mirror" /\ (op.held \/ (op.at = "verdict" /\ ~op.existing))
        => op.hash \in shown

\* An upload pays for a blob the group does not hold.
Priced(op, staying) ==
    op.kind = "upload" =>
        /\ op.gone => ~staying
        /\ op.at \in {"held", "reserve"} => op.need = 0 /\ ~op.gone
        /\ op.at \notin {"held", "reserve"} /\ ~op.gone /\ ~op.held => op.need = Size(op.hash)

\* What a request knows of the holdings, while it is alone or among uploads.
Knows(op, held, claimed) ==
    /\ op.kind = "upload" /\ op.held => op.hash \in held
    /\ op.kind = "mirror" =>
        /\ op.reserved = 0
        /\ op.at \in {"core", "fetch", "verdict"} => (op.held <=> op.hash \in held)
    /\ op.kind = "delete" /\ op.at = "remove" => op.hash \notin claimed

\* A claim the holdings do not name yet.
Adds(op, c) ==
    \/ op.kind = "upload" /\ op.at = "insert" /\ c[2] = op.hash
    \/ Pending(op, c)

Evident ==
    /\ ProvenReads
    /\ \A c \in claims : c[2] \in Shown \/ \E q \in Requests : Pending(reqs[q], c)
    /\ holdings = None => \A q \in Requests : Early(reqs[q])
    /\ \A q \in Requests : Informed(reqs[q], Shown)

Reserving ==
    /\ reserved = Sum(Needs, Requests)
    /\ \A q \in Requests : Priced(reqs[q], stayed)

Exclusive ==
    \A p, q \in Requests :
        p # q /\ reqs[p] # NoRequest /\ reqs[q] # NoRequest => reqs[p].kind = "upload"

Covering ==
    /\ Exclusive
    /\ \A c \in claims : c[2] \in Held \/ \E q \in Requests : Adds(reqs[q], c)
    /\ \A q \in Requests : Knows(reqs[q], Held, Claimed)

Budget == Total(Held) + Sum(Due, Requests) <= Ceiling

IInv ==
    /\ GateTypeOK /\ Evident /\ Reserving
    /\ alone => Covering
    /\ alone /\ stayed => Budget

-----------------------------------------------------------------------------
(* Requests.                                                                 *)

\* A request's kind tells its fields.
LEMMA OpShape ==
    ASSUME NEW op \in Op
    PROVE  /\ op.kind = "upload" => op \in Uploads
           /\ op.kind = "mirror" => op \in Mirrors
           /\ op.kind = "delete" => op \in Deletes
           /\ op.kind = "none" <=> op = NoRequest
           /\ op.kind \in {"none", "upload", "mirror", "delete"}
BY DEF Op, NoRequest, Uploads, Mirrors, Deletes

\* What a request reserves is a number.
LEMMA NeedType ==
    ASSUME NEW op \in Op
    PROVE  NeedOf(op) \in Nat /\ DueOf(op) \in Nat /\ DueOf(op) <= NeedOf(op)
<1>1. op.kind = "upload" => op.need \in Nat
  BY Zenon, OpShape DEF Uploads
<1> QED
  BY <1>1 DEF NeedOf, DueOf

\* The holdings, built or not, are blobs.
LEMMA HeldType ==
    ASSUME GateTypeOK, GateNoneAssumption
    PROVE  /\ Held \in SUBSET Hashes /\ Held # None /\ Claimed \in SUBSET Hashes
           /\ holdings # None => Held = holdings
           /\ holdings = None => Held = Claimed
<1>1. Claimed \in SUBSET Hashes
  BY Zenon DEF GateTypeOK, Claimed
<1> QED
  BY Zenon, <1>1 DEF GateTypeOK, Held, GateNoneAssumption

\* And so they are after a step.
LEMMA HeldTypeNext ==
    ASSUME GateTypeOK', GateNoneAssumption
    PROVE  /\ Held' \in SUBSET Hashes /\ Held' # None /\ Claimed' \in SUBSET Hashes
           /\ holdings' # None => Held' = holdings'
           /\ holdings' = None => Held' = Claimed'
<1>1. Claimed' \in SUBSET Hashes
  BY Zenon DEF GateTypeOK, Claimed
<1> QED
  BY Zenon, <1>1 DEF GateTypeOK, Held, GateNoneAssumption

\* The step of one request.
Changes(q) ==
    /\ reqs' \in [Requests -> Op]
    /\ \A p \in Requests \ {q} : reqs'[p] = reqs[p]

\* What it does to the reserved bytes.
LEMMA SumsStep ==
    ASSUME Assumptions, GateTypeOK, NEW q \in Requests, Changes(q)
    PROVE  /\ Sum(Needs, Requests) \in Nat /\ Sum(Needs, Requests)' \in Nat
           /\ Sum(Due, Requests) \in Nat /\ Sum(Due, Requests)' \in Nat
           /\ NeedOf(reqs[q]) <= Sum(Needs, Requests)
           /\ Sum(Needs, Requests)' + NeedOf(reqs[q]) = Sum(Needs, Requests) + NeedOf(reqs'[q])
           /\ Sum(Due, Requests)' + DueOf(reqs[q]) = Sum(Due, Requests) + DueOf(reqs'[q])
<1>1. reqs \in [Requests -> Op] /\ IsFiniteSet(Requests)
  BY Zenon DEF GateTypeOK, Op, Assumptions, FiniteAssumption
<1>2. PICK f \in [Requests -> Nat], e \in [Requests -> Nat] : f = Needs /\ e = Needs'
  BY Zenon, <1>1, NeedType DEF Needs, Changes
<1>3. PICK d \in [Requests -> Nat], g \in [Requests -> Nat] : d = Due /\ g = Due'
  BY Zenon, <1>1, NeedType DEF Due, Changes
<1>4. /\ f[q] = NeedOf(reqs[q]) /\ e[q] = NeedOf(reqs'[q])
      /\ d[q] = DueOf(reqs[q]) /\ g[q] = DueOf(reqs'[q])
      /\ \A p \in Requests \ {q} : f[p] = e[p] /\ d[p] = g[p]
  BY Zenon, <1>2, <1>3 DEF Needs, Due, Changes
<1>5. /\ Sum(f, Requests) \in Nat /\ Sum(e, Requests) \in Nat /\ f[q] <= Sum(f, Requests)
      /\ Sum(e, Requests) + f[q] = Sum(f, Requests) + e[q]
  <2>1. \A p \in Requests \ {q} : f[p] = e[p]
    BY Zenon, <1>4
  <2> QED
    BY <1>1, <2>1, SumChange
<1>6. /\ Sum(d, Requests) \in Nat /\ Sum(g, Requests) \in Nat
      /\ Sum(g, Requests) + d[q] = Sum(d, Requests) + g[q]
  <2>1. \A p \in Requests \ {q} : d[p] = g[p]
    BY Zenon, <1>4
  <2> QED
    BY <1>1, <2>1, SumChange
<1>7. Sum(e, Requests) = Sum(Needs, Requests)' /\ Sum(g, Requests) = Sum(Due, Requests)'
  BY Zenon, <1>2, <1>3 DEF Sum, MapThenSumSet, MapThenFoldSet
<1> QED
  BY Zenon, <1>2, <1>3, <1>4, <1>5, <1>6, <1>7

\* A request keeps what the group may read to what it has shown.
LEMMA EvidentStep ==
    ASSUME IInv, NEW q \in Requests, Changes(q), proved \subseteq proved', leaked' = leaked,
           Informed(reqs'[q], Shown'),
           \A c \in claims' : c \in claims \/ c[2] \in Shown' \/ Pending(reqs'[q], c),
           \A c \in claims' : Pending(reqs[q], c) => c[2] \in Shown' \/ Pending(reqs'[q], c),
           holdings' = None => holdings = None /\ Early(reqs'[q]),
           holdings' # None => holdings' \subseteq Shown'
    PROVE  Evident'
<1>1. Shown \subseteq Shown'
  BY Zenon DEF Shown
<1>2. ProvenReads'
  BY Zenon DEF ProvenReads, Shown
<1>3. \A c \in claims' : c[2] \in Shown' \/ \E p \in Requests : Pending(reqs'[p], c)
  <2> TAKE c \in claims'
  <2>1. CASE c \notin claims
    BY Zenon, <2>1
  <2>2. CASE c \in claims /\ c[2] \in Shown
    BY Zenon, <1>1, <2>2
  <2>3. CASE c \in claims /\ c[2] \notin Shown
    <3>1. PICK p \in Requests : Pending(reqs[p], c)
      BY Zenon, <2>3 DEF IInv, Evident
    <3> QED
      BY Zenon, <3>1 DEF Changes
  <2> QED
    BY Zenon, <2>1, <2>2, <2>3
<1>4. \A p \in Requests : Informed(reqs'[p], Shown')
  <2> TAKE p \in Requests
  <2>1. CASE p # q
    <3>1. Informed(reqs[p], Shown) /\ reqs'[p] = reqs[p]
      BY Zenon, <2>1 DEF IInv, Evident, Changes
    <3> QED
      BY Zenon, <1>1, <3>1 DEF Informed
  <2> QED
    BY Zenon, <2>1
<1>5. holdings' = None => \A p \in Requests : Early(reqs'[p])
  BY Zenon DEF IInv, Evident, Changes
<1> QED
  BY Zenon, <1>2, <1>3, <1>4, <1>5 DEF Evident

\* A request keeps the reserved bytes what the uploads have reserved.
LEMMA ReservingStep ==
    ASSUME Assumptions, IInv, NEW q \in Requests, Changes(q), stayed' => stayed,
           Priced(reqs'[q], stayed'), reserved' \in Int,
           reserved' + NeedOf(reqs[q]) = reserved + NeedOf(reqs'[q])
    PROVE  Reserving' /\ reserved' \in Nat
<1>1. /\ Sum(Needs, Requests) \in Nat /\ Sum(Needs, Requests)' \in Nat
      /\ Sum(Needs, Requests)' + NeedOf(reqs[q]) = Sum(Needs, Requests) + NeedOf(reqs'[q])
  BY Zenon, SumsStep DEF IInv
<1>2. NeedOf(reqs[q]) \in Nat /\ NeedOf(reqs'[q]) \in Nat
  BY Zenon, NeedType DEF IInv, GateTypeOK, Op, Changes
<1>3. reserved' = Sum(Needs, Requests)'
  BY <1>1, <1>2 DEF IInv, Reserving
<1>4. \A p \in Requests : Priced(reqs'[p], stayed')
  <2> TAKE p \in Requests
  <2>1. CASE p # q
    <3>1. Priced(reqs[p], stayed) /\ reqs'[p] = reqs[p]
      BY Zenon, <2>1 DEF IInv, Reserving, Changes
    <3> QED
      BY Zenon, <3>1 DEF Priced
  <2> QED
    BY Zenon, <2>1
<1> QED
  BY Zenon, <1>1, <1>3, <1>4 DEF Reserving

\* A request that goes on, while only uploads run together.
LEMMA CoveringStep ==
    ASSUME IInv, alone, NEW q \in Requests, Changes(q), reqs[q] # NoRequest,
           reqs'[q] = NoRequest \/ reqs'[q].kind = reqs[q].kind,
           reqs[q].kind = "upload" => Held \subseteq Held',
           Knows(reqs'[q], Held', Claimed'),
           \A c \in claims' : \/ c \in claims /\ c[2] \notin Held /\ ~Adds(reqs[q], c)
                              \/ c[2] \in Held' \/ Adds(reqs'[q], c)
    PROVE  Covering'
<1>1. Covering /\ reqs \in [Requests -> Op]
  BY Zenon DEF IInv, GateTypeOK, Op
<1>2. Exclusive'
  BY Zenon, <1>1 DEF Covering, Exclusive, Changes
<1>3. \A c \in claims' : c[2] \in Held' \/ \E p \in Requests : Adds(reqs'[p], c)
  <2> TAKE c \in claims'
  <2>1. CASE c \in claims /\ c[2] \notin Held /\ ~Adds(reqs[q], c)
    BY Zenon, <1>1, <2>1 DEF Covering, Changes
  <2> QED
    BY Zenon, <2>1
<1>4. \A p \in Requests : Knows(reqs'[p], Held', Claimed')
  <2> TAKE p \in Requests
  <2>1. CASE p # q /\ reqs[p] = NoRequest
    BY <2>1 DEF Changes, NoRequest, Knows
  <2>2. CASE p # q /\ reqs[p] # NoRequest
    <3>1. reqs[p].kind = "upload" /\ reqs[q].kind = "upload" /\ reqs'[p] = reqs[p]
      BY Zenon, <1>1, <2>2 DEF Covering, Exclusive, Changes
    <3>2. Knows(reqs[p], Held, Claimed)
      BY Zenon, <1>1 DEF Covering
    <3> QED
      BY Zenon, <3>1, <3>2 DEF Knows
  <2> QED
    BY Zenon, <2>1, <2>2
<1> QED
  BY Zenon, <1>2, <1>3, <1>4 DEF Covering

\* A request that adds no more to the holdings than it was due keeps the budget.
LEMMA BudgetStep ==
    ASSUME Assumptions, IInv, GateTypeOK', alone, stayed, NEW q \in Requests, Changes(q),
           Total(Held') + DueOf(reqs'[q]) <= Total(Held) + DueOf(reqs[q])
    PROVE  Budget'
<1>1. /\ Sum(Due, Requests) \in Nat /\ Sum(Due, Requests)' \in Nat
      /\ Sum(Due, Requests)' + DueOf(reqs[q]) = Sum(Due, Requests) + DueOf(reqs'[q])
  BY Zenon, SumsStep DEF IInv
<1>2. DueOf(reqs[q]) \in Nat /\ DueOf(reqs'[q]) \in Nat
  BY Zenon, NeedType DEF IInv, GateTypeOK, Op, Changes
<1>3. Held \in SUBSET Hashes /\ Held' \in SUBSET Hashes
  BY Zenon, HeldType, HeldTypeNext DEF IInv, Assumptions
<1>4. Total(Held) \in Nat /\ Total(Held') \in Nat
  BY Zenon, <1>3, TotalIs DEF Assumptions
<1>5. Total(Held) + Sum(Due, Requests) <= Ceiling /\ Ceiling \in Nat
  BY Zenon DEF IInv, Budget, Assumptions, CeilingAssumption
<1>6. Total(Held') + Sum(Due, Requests)' <= Ceiling
  BY <1>1, <1>2, <1>4, <1>5
<1>7. Total(Held)' = Total(Held')
  BY Zenon DEF Total, MapThenSumSet, MapThenFoldSet
<1> QED
  BY Zenon, <1>6, <1>7 DEF Budget

\* What is held has been shown, also when the holdings are still to be built.
LEMMA HeldShown ==
    ASSUME IInv, GateNoneAssumption
    PROVE  Held \subseteq Shown
<1>1. GateTypeOK /\ Evident
  BY Zenon DEF IInv
<1>2. CASE holdings # None
  BY Zenon, <1>1, <1>2 DEF Evident, ProvenReads, Shown, Held
<1>3. CASE holdings = None
  <2>1. \A q \in Requests, c \in claims : ~Pending(reqs[q], c)
    BY Zenon, <1>1, <1>3 DEF Evident, Early, Pending
  <2> QED
    BY Zenon, <1>1, <1>3, <2>1 DEF Evident, Held, Claimed
<1> QED
  BY Zenon, <1>2, <1>3

\* A step that leaves the claims alone keeps the holdings, built or not.
LEMMA HeldSame ==
    ASSUME GateTypeOK, GateNoneAssumption, claims' = claims, holdings' = holdings \/ holdings' = Held
    PROVE  Held' = Held /\ Claimed' = Claimed
<1>1. Claimed' = Claimed
  BY Zenon DEF Claimed
<1>2. Held # None
  BY Zenon, HeldType
<1> QED
  BY Zenon, <1>1, <1>2 DEF Held

\* A request goes on, or ends, and leaves the claims alone.
LEMMA Moves ==
    ASSUME Assumptions, IInv, NEW q \in Requests, reqs[q] # NoRequest,
           NEW n \in Op, n = NoRequest \/ n.kind = reqs[q].kind, reqs' = [reqs EXCEPT ![q] = n],
           reserved' \in Int, reserved' + NeedOf(reqs[q]) = reserved + NeedOf(n),
           UNCHANGED <<claims, others, leaked, alone, crashes, arrived>>,
           proved \subseteq proved', proved' \subseteq Hashes, spent' \subseteq Tokens,
           kept' \subseteq Devices \X Hashes, stayed' \in BOOLEAN, stayed' => stayed,
           \/ holdings' = holdings /\ (holdings = None => Early(n))
           \/ holdings' = Held,
           \A c : (Pending(reqs[q], c) => Pending(n, c)) /\ (Adds(reqs[q], c) => Adds(n, c)),
           Informed(n, Shown'), Priced(n, stayed'),
           alone => Knows(n, Held, Claimed),
           DueOf(n) <= DueOf(reqs[q]) \/ (alone /\ stayed => Budget')
    PROVE  IInv'
<1>1. GateTypeOK /\ reqs \in [Requests -> Op] /\ GateNoneAssumption
  BY Zenon DEF IInv, GateTypeOK, Op, Assumptions
<1>2. Changes(q) /\ reqs'[q] = n
  BY Zenon, <1>1 DEF Changes
<1>3. Held' = Held /\ Claimed' = Claimed
  BY Zenon, <1>1, HeldSame
<1>4. Reserving' /\ reserved' \in Nat
  BY Zenon, <1>2, ReservingStep
<1>5. Held \in SUBSET Hashes /\ Held # None
  BY Zenon, <1>1, HeldType
<1>6. GateTypeOK'
  BY Zenon, <1>1, <1>2, <1>4, <1>5 DEF GateTypeOK, Op, Changes
<1>7. Evident'
  <2>1. Shown \subseteq Shown'
    BY Zenon DEF Shown
  <2>2. holdings' # None => holdings' \subseteq Shown'
    BY Zenon, <1>1, <2>1, HeldType, HeldShown
  <2>3. holdings' = None => holdings = None /\ Early(n)
    BY Zenon, <1>5
  <2> QED
    BY Zenon, <1>2, <2>2, <2>3, EvidentStep
<1>8. alone' => Covering'
  <2> SUFFICES ASSUME alone PROVE Covering'
    BY Zenon
  <2>1. Knows(reqs'[q], Held', Claimed')
    BY Zenon, <1>2, <1>3
  <2> QED
    BY Zenon, <1>2, <1>3, <2>1, CoveringStep
<1>9. alone' /\ stayed' => Budget'
  <2> SUFFICES ASSUME alone, stayed, DueOf(n) <= DueOf(reqs[q]) PROVE Budget'
    BY Zenon
  <2>1. DueOf(n) \in Nat /\ DueOf(reqs[q]) \in Nat /\ Total(Held) \in Nat
    BY Zenon, <1>1, <1>5, NeedType, TotalIs DEF Assumptions
  <2>2. Total(Held') + DueOf(reqs'[q]) <= Total(Held) + DueOf(reqs[q])
    BY <1>2, <1>3, <2>1
  <2> QED
    BY Zenon, <1>2, <1>6, <2>2, BudgetStep
<1> QED
  BY Zenon, <1>4, <1>6, <1>7, <1>8, <1>9 DEF IInv

\* A request ends that has nothing to take back and nothing to insert.
LEMMA Ends ==
    ASSUME Assumptions, IInv, NEW q \in Requests, reqs[q] # NoRequest,
           \A c : ~Pending(reqs[q], c) /\ ~Adds(reqs[q], c),
           reqs' = [reqs EXCEPT ![q] = NoRequest], reserved' = reserved - NeedOf(reqs[q]),
           UNCHANGED <<claims, others, proved, leaked, alone, crashes, arrived>>,
           spent' \subseteq Tokens, kept' \subseteq Devices \X Hashes,
           stayed' \in BOOLEAN, stayed' => stayed, holdings' = holdings \/ holdings' = Held
    PROVE  IInv'
<1>1. GateTypeOK /\ reqs[q] \in Op /\ NoRequest \in Op
  BY Zenon DEF IInv, GateTypeOK, Op
<1>2. NeedOf(NoRequest) = 0 /\ DueOf(NoRequest) = 0 /\ NeedOf(reqs[q]) \in Nat /\ DueOf(reqs[q]) \in Nat
  BY Zenon, <1>1, NeedType DEF NeedOf, DueOf, NoRequest
<1>3. reserved' \in Int /\ reserved' + NeedOf(reqs[q]) = reserved + NeedOf(NoRequest)
  BY <1>1, <1>2 DEF GateTypeOK
<1>4. /\ Early(NoRequest) /\ Informed(NoRequest, Shown') /\ Priced(NoRequest, stayed')
      /\ Knows(NoRequest, Held, Claimed)
  BY Zenon DEF Early, Informed, Priced, Knows, NoRequest
<1>5. proved \subseteq proved' /\ proved' \subseteq Hashes
  BY Zenon, <1>1 DEF GateTypeOK
<1>6. DueOf(NoRequest) <= DueOf(reqs[q])
  BY <1>2
<1>7. /\ \/ holdings' = holdings /\ (holdings = None => Early(NoRequest))
         \/ holdings' = Held
      /\ \A c : (Pending(reqs[q], c) => Pending(NoRequest, c)) /\ (Adds(reqs[q], c) => Adds(NoRequest, c))
  BY Zenon, <1>4
<1> HIDE DEF NoRequest
<1> QED
  BY Zenon, <1>1, <1>3, <1>4, <1>5, <1>6, <1>7, Moves

\* A request that is dropped with its reservation.
LEMMA Dropped ==
    ASSUME Assumptions, IInv, NEW q \in Requests, reqs[q] # NoRequest,
           \A c : ~Pending(reqs[q], c) /\ ~Adds(reqs[q], c), End(q),
           UNCHANGED <<store, holdings, proved, leaked, alone, stayed, bounds>>,
           kept' \subseteq Devices \X Hashes
    PROVE  IInv'
<1>1. GateTypeOK
  BY Zenon DEF IInv
<1>2. reserved' = reserved - NeedOf(reqs[q])
  BY <1>1 DEF End, NeedOf, GateTypeOK
<1> QED
  BY Zenon, <1>1, <1>2, Ends DEF End, GateTypeOK, store, bounds

\* UploadFull, UploadRefused, UploadFinish, MirrorRefused and DeleteFails end a request.
LEMMA EndsStep ==
    ASSUME Assumptions, IInv, NEW q \in Requests,
           \/ UploadFull(q) \/ UploadRefused(q) \/ UploadFinish(q)
           \/ MirrorRefused(q) \/ DeleteFails(q)
    PROVE  IInv'
<1>1. reqs[q] \in Op /\ kept \subseteq Devices \X Hashes
  BY Zenon DEF IInv, GateTypeOK, Op
<1>2. /\ reqs[q] # NoRequest /\ End(q)
      /\ UNCHANGED <<store, holdings, proved, leaked, alone, stayed, bounds>>
      /\ \A c : ~Pending(reqs[q], c) /\ ~Adds(reqs[q], c)
  BY DEF UploadFull, UploadRefused, UploadFinish, MirrorRefused, DeleteFails, At, NoRequest, Pending,
         Adds, history
<1>3. kept' \subseteq Devices \X Hashes
  <2>1. UploadFinish(q) => reqs[q].device \in Devices /\ reqs[q].hash \in Hashes
    BY Zenon, <1>1, OpShape DEF UploadFinish, At, Uploads
  <2> QED
    BY <1>1, <2>1 DEF UploadFull, UploadRefused, UploadFinish, MirrorRefused, DeleteFails, history
<1> QED
  BY Zenon, <1>2, <1>3, Dropped

\* A step within an upload that changes no more than the request and the holdings.
LEMMA UploadMoves ==
    ASSUME Assumptions, IInv, NEW q \in Requests, reqs[q] \in Uploads,
           NEW n \in Uploads, reqs' = [reqs EXCEPT ![q] = n],
           n.need = reqs[q].need, n.hash = reqs[q].hash, n.gone = reqs[q].gone,
           n.held = reqs[q].held, reqs[q].at \notin {"held", "reserve", "takeBack", "insert", "finish"},
           n.at \notin {"held", "reserve"}, n.at \in {"prove", "begin", "body"},
           n.at = "begin" /\ n.proven => n.hash \in Shown',
           UNCHANGED <<store, holdings, reserved, leaked, kept, alone, stayed, bounds>>,
           proved \subseteq proved', proved' \subseteq Hashes
    PROVE  IInv'
<1>1. GateTypeOK /\ reqs[q] \in Op /\ n \in Op /\ Informed(reqs[q], Shown) /\ Priced(reqs[q], stayed)
  BY Zenon DEF IInv, GateTypeOK, Op, Evident, Reserving
<1>2. reqs[q].kind = "upload" /\ n.kind = "upload" /\ reqs[q] # NoRequest
  BY DEF Uploads, NoRequest
<1>3. NeedOf(n) = NeedOf(reqs[q]) /\ DueOf(n) = DueOf(reqs[q]) /\ DueOf(n) \in Nat
  BY Zenon, <1>1, <1>2, NeedType DEF NeedOf, DueOf
<1>4. Shown \subseteq Shown'
  BY Zenon DEF Shown
<1>5. Informed(n, Shown') /\ Priced(n, stayed') /\ (alone => Knows(n, Held, Claimed))
  <2>1. Informed(n, Shown')
    BY Zenon, <1>1, <1>2, <1>4 DEF Informed
  <2>2. Priced(n, stayed')
    BY Zenon, <1>1, <1>2 DEF Priced
  <2>3. alone => Knows(reqs[q], Held, Claimed)
    BY Zenon DEF IInv, Covering
  <2>4. alone => Knows(n, Held, Claimed)
    BY Zenon, <1>2, <2>3 DEF Knows
  <2> QED
    BY Zenon, <2>1, <2>2, <2>4
<1>6. holdings # None
  BY Zenon, <1>2 DEF IInv, Evident, Early
<1>7. \A c : ~Pending(reqs[q], c) /\ ~Adds(reqs[q], c)
  BY Zenon, <1>2 DEF Pending, Adds
<1>8. reserved' \in Int /\ reserved' + NeedOf(reqs[q]) = reserved + NeedOf(n)
  BY <1>1, <1>3 DEF GateTypeOK
<1>9. DueOf(n) <= DueOf(reqs[q])
  BY <1>3
<1> QED
  BY Zenon, <1>1, <1>2, <1>5, <1>6, <1>7, <1>8, <1>9, Moves DEF GateTypeOK, store, bounds

\* An upload looks at the holdings, which are built now if they were not.
LEMMA UploadHeldStep ==
    ASSUME Assumptions, IInv, NEW q \in Requests, UploadHeld(q)
    PROVE  IInv'
<1>1. /\ GateTypeOK /\ GateNoneAssumption /\ reqs[q] \in Op /\ reqs[q] \in Uploads /\ reqs[q].at = "held"
      /\ reqs[q].kind = "upload" /\ reqs[q] # NoRequest
  BY Zenon, OpShape DEF IInv, GateTypeOK, Op, Assumptions, UploadHeld, At, NoRequest
<1>0. PICK held \in BOOLEAN : held = (reqs[q].hash \in Held)
  <2>1. CASE reqs[q].hash \in Held
    <3>1. TRUE \in BOOLEAN /\ TRUE = (reqs[q].hash \in Held)
      BY Zenon, <2>1
    <3> QED
      BY <3>1, Zenon
  <2>2. CASE reqs[q].hash \notin Held
    <3>1. FALSE \in BOOLEAN /\ FALSE = (reqs[q].hash \in Held)
      BY <2>2
    <3> QED
      BY <3>1, Zenon
  <2> QED
    BY Zenon, <2>1, <2>2
<1>2. PICK n : n = [reqs[q] EXCEPT !.held = held, !.at = "reserve"]
  BY Zenon
<1>3. /\ n \in Uploads /\ n \in Op /\ n.kind = "upload" /\ n.at = "reserve" /\ n.hash = reqs[q].hash
      /\ n.held = held /\ n.need = reqs[q].need /\ n.gone = reqs[q].gone
  BY Zenon, <1>1, <1>2 DEF Uploads, Op
<1>4. reqs' = [reqs EXCEPT ![q] = n]
  BY Zenon, <1>0, <1>1, <1>2 DEF UploadHeld, GateTypeOK
<1>5. Priced(reqs[q], stayed) /\ Held \subseteq Shown
  BY Zenon, <1>1, HeldShown DEF IInv, Reserving
<1>6. UNCHANGED <<store, reserved, history, bounds>> /\ holdings' = Held
  BY Zenon DEF UploadHeld
<1>7. Informed(n, Shown') /\ Priced(n, stayed') /\ Knows(n, Held, Claimed)
  <2>1. Shown' = Shown
    BY Zenon, <1>6 DEF Shown, history
  <2>2. Informed(n, Shown')
    BY Zenon, <1>0, <1>3, <1>5, <2>1 DEF Informed
  <2>3. Priced(n, stayed')
    BY Zenon, <1>1, <1>3, <1>5, <1>6 DEF Priced, history
  <2>4. Knows(n, Held, Claimed)
    BY Zenon, <1>0, <1>3 DEF Knows
  <2> QED
    BY Zenon, <2>2, <2>3, <2>4
<1>8. /\ NeedOf(n) = NeedOf(reqs[q]) /\ DueOf(n) <= DueOf(reqs[q])
      /\ reserved' \in Int /\ reserved' + NeedOf(reqs[q]) = reserved + NeedOf(n)
  <2>1. NeedOf(n) = NeedOf(reqs[q]) /\ DueOf(n) = DueOf(reqs[q]) /\ DueOf(n) \in Nat
    BY Zenon, <1>1, <1>3, NeedType DEF NeedOf, DueOf
  <2> QED
    BY <1>1, <1>6, <2>1 DEF GateTypeOK
<1>9. \A c : ~Pending(reqs[q], c) /\ ~Adds(reqs[q], c)
  BY Zenon, <1>1 DEF Pending, Adds
<1> QED
  BY Zenon, <1>1, <1>3, <1>4, <1>6, <1>7, <1>8, <1>9, Moves DEF GateTypeOK, store, history, bounds

\* What is due is among what is reserved.
LEMMA DueReserved ==
    ASSUME Assumptions, IInv
    PROVE  Sum(Due, Requests) <= reserved /\ Sum(Due, Requests) \in Nat /\ reserved \in Nat
<1>1. reqs \in [Requests -> Op] /\ IsFiniteSet(Requests)
  BY Zenon DEF IInv, GateTypeOK, Op, Assumptions, FiniteAssumption
<1>2. PICK d \in [Requests -> Nat], f \in [Requests -> Nat] :
        /\ d = Due /\ f = Needs /\ \A q \in Requests : d[q] <= f[q]
  <2>1. \A q \in Requests :
          NeedOf(reqs[q]) \in Nat /\ DueOf(reqs[q]) \in Nat /\ DueOf(reqs[q]) <= NeedOf(reqs[q])
    BY Zenon, <1>1, NeedType
  <2>2. Due \in [Requests -> Nat] /\ Needs \in [Requests -> Nat]
    BY Zenon, <2>1 DEF Due, Needs
  <2>3. \A q \in Requests : Due[q] <= Needs[q]
    BY Zenon, <2>1 DEF Due, Needs
  <2> QED
    BY Zenon, <2>2, <2>3
<1>3. Sum(d, Requests) <= Sum(f, Requests) /\ Sum(d, Requests) \in Nat
  BY Zenon, <1>1, <1>2, SumLess
<1> QED
  BY Zenon, <1>2, <1>3 DEF IInv, Reserving, GateTypeOK

\* reserve_group_bytes admits an upload only while the ceiling has room for it and
\* for all that is reserved.
LEMMA UploadReserveStep ==
    ASSUME Assumptions, IInv, NEW q \in Requests, UploadReserve(q)
    PROVE  IInv'
<1>1. /\ GateTypeOK /\ GateNoneAssumption /\ reqs[q] \in Op /\ reqs[q] \in Uploads /\ reqs[q].at = "reserve"
      /\ reqs[q].kind = "upload" /\ reqs[q] # NoRequest
  BY Zenon, OpShape DEF IInv, GateTypeOK, Op, Assumptions, UploadReserve, At, NoRequest
<1>2. PICK n : n = [reqs[q] EXCEPT !.need = Need(q), !.at = "exists"]
  BY Zenon
<1>3. Need(q) = (IF reqs[q].held THEN 0 ELSE Size(reqs[q].hash)) /\ Need(q) \in Nat
  BY Zenon, <1>1 DEF Need, Assumptions, CeilingAssumption, Uploads
<1>4. /\ n \in Uploads /\ n \in Op /\ n.kind = "upload" /\ n.at = "exists" /\ n.hash = reqs[q].hash
      /\ n.held = reqs[q].held /\ n.need = Need(q) /\ n.gone = reqs[q].gone
  BY Zenon, <1>1, <1>2, <1>3 DEF Uploads, Op
<1>5. reqs' = [reqs EXCEPT ![q] = n]
  BY Zenon, <1>1, <1>2 DEF UploadReserve, GateTypeOK
<1>6. Priced(reqs[q], stayed) /\ Informed(reqs[q], Shown) /\ holdings # None
  BY Zenon, <1>1 DEF IInv, Reserving, Evident, Early
<1>7. UNCHANGED <<store, holdings, history, bounds>> /\ reserved' = reserved + Need(q)
  BY Zenon DEF UploadReserve
<1>8. /\ Informed(n, Shown') /\ Priced(n, stayed') /\ (alone => Knows(n, Held, Claimed))
  <2>1. Shown' = Shown
    BY Zenon, <1>7 DEF Shown, history
  <2>2. Informed(n, Shown')
    BY Zenon, <1>1, <1>4, <1>6, <2>1 DEF Informed
  <2>3. Priced(n, stayed')
    BY Zenon, <1>1, <1>3, <1>4, <1>6, <1>7 DEF Priced, history
  <2>4. alone => Knows(n, Held, Claimed)
    BY Zenon, <1>1, <1>4 DEF Knows, IInv, Covering
  <2> QED
    BY Zenon, <2>2, <2>3, <2>4
<1>9. NeedOf(reqs[q]) = 0 /\ DueOf(reqs[q]) = 0 /\ NeedOf(n) = Need(q) /\ DueOf(n) = Need(q)
  BY Zenon, <1>1, <1>4, <1>6 DEF NeedOf, DueOf, Priced
<1>10. reserved' \in Int /\ reserved' + NeedOf(reqs[q]) = reserved + NeedOf(n)
  BY <1>1, <1>3, <1>7, <1>9 DEF GateTypeOK
<1>11. \A c : ~Pending(reqs[q], c) /\ ~Adds(reqs[q], c)
  BY Zenon, <1>1 DEF Pending, Adds
<1>12. ASSUME alone, stayed PROVE Budget'
  <2>1. Changes(q) /\ reqs'[q] = n
    BY Zenon, <1>1, <1>4, <1>5 DEF Changes, GateTypeOK, Op
  <2>2. Sum(Due, Requests)' = Sum(Due, Requests) + Need(q)
    BY <1>1, <1>3, <1>9, <2>1, SumsStep
  <2>3. Held' = Held
    BY Zenon, <1>1, <1>7, HeldSame DEF store
  <2>4. Total(Held)' = Total(Held)
    BY Zenon, <2>3 DEF Total, MapThenSumSet, MapThenFoldSet
  <2>5. Total(Held) \in Nat /\ Ceiling \in Nat
    BY Zenon, <1>1, HeldType, TotalIs DEF Assumptions, CeilingAssumption
  <2>6. Total(Held) + Sum(Due, Requests) <= Ceiling
    BY Zenon, <1>12 DEF IInv, Budget
  <2>7. Need(q) > 0 => Total(Held) + reserved + Need(q) <= Ceiling
    BY Zenon DEF UploadReserve, Fits
  <2>8. Total(Held) + (Sum(Due, Requests) + Need(q)) <= Ceiling
    BY <1>3, <2>5, <2>6, <2>7, DueReserved
  <2> QED
    BY Zenon, <2>2, <2>4, <2>8 DEF Budget
<1> QED
  BY Zenon, <1>1, <1>4, <1>5, <1>6, <1>7, <1>8, <1>10, <1>11, <1>12, Moves
    DEF GateTypeOK, store, history, bounds

\* A request goes on, or ends, and changes the claims or the holdings.
LEMMA Steps ==
    ASSUME Assumptions, IInv, NEW q \in Requests, reqs[q] # NoRequest,
           NEW n \in Op, n = NoRequest \/ n.kind = reqs[q].kind, reqs' = [reqs EXCEPT ![q] = n],
           reserved' \in Int, reserved' + NeedOf(reqs[q]) = reserved + NeedOf(n),
           UNCHANGED <<others, leaked, alone, stayed, crashes, arrived>>, spent' \subseteq Tokens,
           claims' \subseteq Devices \X Hashes, kept' \subseteq Devices \X Hashes,
           proved \subseteq proved', proved' \subseteq Hashes,
           holdings' \in {None} \cup SUBSET Hashes,
           holdings' = None => holdings = None /\ Early(n),
           holdings' # None => holdings' \subseteq Shown',
           \A c \in claims' : c \in claims \/ c[2] \in Shown' \/ Pending(n, c),
           \A c \in claims' : Pending(reqs[q], c) => c[2] \in Shown' \/ Pending(n, c),
           Informed(n, Shown'), Priced(n, stayed),
           reqs[q].kind = "upload" => Held \subseteq Held',
           alone => Knows(n, Held', Claimed'),
           alone => \A c \in claims' : \/ c \in claims /\ c[2] \notin Held /\ ~Adds(reqs[q], c)
                                       \/ c[2] \in Held' \/ Adds(n, c),
           alone /\ stayed => Total(Held') + DueOf(n) <= Total(Held) + DueOf(reqs[q]) \/ Budget'
    PROVE  IInv'
<1>1. GateTypeOK /\ reqs \in [Requests -> Op]
  BY Zenon DEF IInv, GateTypeOK, Op
<1>2. Changes(q) /\ reqs'[q] = n
  BY Zenon, <1>1 DEF Changes
<1>3. Reserving' /\ reserved' \in Nat
  BY Zenon, <1>2, ReservingStep
<1>4. GateTypeOK'
  BY Zenon, <1>1, <1>2, <1>3 DEF GateTypeOK, Op, Changes
<1>5. Evident'
  BY Zenon, <1>2, EvidentStep
<1>6. alone' => Covering'
  BY Zenon, <1>2, CoveringStep
<1>7. alone' /\ stayed' => Budget'
  BY Zenon, <1>2, <1>4, BudgetStep
<1> QED
  BY Zenon, <1>3, <1>4, <1>5, <1>6, <1>7 DEF IInv

\* A mirror or a delete that runs alone finds nothing reserved and nothing due.
LEMMA Sole ==
    ASSUME Assumptions, IInv, alone, NEW q \in Requests, reqs[q] # NoRequest, reqs[q].kind # "upload"
    PROVE  reserved = 0 /\ Sum(Due, Requests) = 0 /\ \A p \in Requests \ {q} : reqs[p] = NoRequest
<1>1. \A p \in Requests \ {q} : reqs[p] = NoRequest
  BY Zenon DEF IInv, Covering, Exclusive
<1>2. \A p \in Requests : reqs[p].kind # "upload"
  BY <1>1 DEF NoRequest
<1>3. \A p \in Requests : Needs[p] = 0 /\ Due[p] = 0
  BY Zenon, <1>2 DEF Needs, Due, NeedOf, DueOf
<1>4. Sum(Needs, Requests) = 0 /\ Sum(Due, Requests) = 0
  <2>1. IsFiniteSet(Requests)
    BY Zenon DEF Assumptions, FiniteAssumption
  <2> QED
    BY Zenon, <1>3, <2>1, SumZero
<1> QED
  BY Zenon, <1>1, <1>4 DEF IInv, Reserving

\* UploadExists, UploadProve and BeginReserved.
LEMMA UploadMovesStep ==
    ASSUME Assumptions, IInv, NEW q \in Requests,
           UploadExists(q) \/ UploadProve(q) \/ BeginReserved(q)
    PROVE  IInv'
<1>1. /\ GateTypeOK /\ reqs[q] \in Uploads /\ reqs[q].at \in {"exists", "prove", "begin"}
      /\ proved \subseteq Hashes
  BY Zenon, OpShape DEF IInv, GateTypeOK, Op, UploadExists, UploadProve, BeginReserved, At
<1>2. CASE UploadExists(q)
  <2>1. PICK proven \in BOOLEAN : proven = (~reqs[q].held /\ Stored(reqs[q].hash))
    BY Zenon, <1>1 DEF Uploads
  <2>2. PICK n : n = [reqs[q] EXCEPT !.proven = proven, !.at = IF proven THEN "prove" ELSE "begin"]
    BY Zenon
  <2>3. reqs' = [reqs EXCEPT ![q] = n]
    BY Zenon, <1>1, <1>2, <2>1, <2>2 DEF UploadExists, GateTypeOK
  <2>4. /\ n \in Uploads /\ n.need = reqs[q].need /\ n.hash = reqs[q].hash /\ n.gone = reqs[q].gone
        /\ n.held = reqs[q].held /\ n.at \in {"prove", "begin"} /\ (n.at = "begin" => ~n.proven)
    BY Zenon, <1>1, <2>1, <2>2 DEF Uploads
  <2> QED
    BY Zenon, <1>1, <1>2, <2>3, <2>4, UploadMoves DEF UploadExists, history
<1>3. CASE UploadProve(q)
  <2>1. PICK n : n = [reqs[q] EXCEPT !.at = "begin"]
    BY Zenon
  <2>2. reqs' = [reqs EXCEPT ![q] = n]
    BY Zenon, <1>1, <1>3, <2>1 DEF UploadProve, Goto, GateTypeOK
  <2>3. /\ n \in Uploads /\ n.need = reqs[q].need /\ n.hash = reqs[q].hash /\ n.gone = reqs[q].gone
        /\ n.held = reqs[q].held /\ n.at = "begin" /\ reqs[q].hash \in Hashes
    BY Zenon, <1>1, <2>1 DEF Uploads
  <2>4. n.hash \in Shown' /\ proved \subseteq proved' /\ proved' \subseteq Hashes
    BY Zenon, <1>1, <1>3, <2>3 DEF UploadProve, Shown
  <2> QED
    BY Zenon, <1>1, <1>3, <2>2, <2>3, <2>4, UploadMoves DEF UploadProve
<1>4. CASE BeginReserved(q)
  <2>1. PICK n : n = [reqs[q] EXCEPT !.at = "body"]
    BY Zenon
  <2>2. reqs' = [reqs EXCEPT ![q] = n]
    BY Zenon, <1>1, <1>4, <2>1 DEF BeginReserved, Goto, GateTypeOK
  <2>3. /\ n \in Uploads /\ n.need = reqs[q].need /\ n.hash = reqs[q].hash /\ n.gone = reqs[q].gone
        /\ n.held = reqs[q].held /\ n.at = "body"
    BY Zenon, <1>1, <2>1 DEF Uploads
  <2> QED
    BY Zenon, <1>1, <1>4, <2>2, <2>3, UploadMoves DEF BeginReserved, history
<1> QED
  BY Zenon, <1>2, <1>3, <1>4

\* What an upload that has looked at the holdings goes by.
LEMMA UploadFacts ==
    ASSUME Assumptions, IInv, NEW q \in Requests, reqs[q].kind = "upload", reqs[q].at # "held"
    PROVE  /\ GateTypeOK /\ reqs[q] \in Uploads /\ reqs[q] \in Op /\ reqs[q] # NoRequest /\ reserved \in Nat
           /\ reqs[q].device \in Devices /\ reqs[q].hash \in Hashes /\ reqs[q].need \in Nat
           /\ holdings # None /\ Held = holdings /\ Held \in SUBSET Hashes /\ Held \subseteq Shown
           /\ Total(Held) \in Nat
           /\ Informed(reqs[q], Shown) /\ Priced(reqs[q], stayed)
           /\ alone => Knows(reqs[q], Held, Claimed)
           /\ alone => \A c \in claims : c[2] \in Held \/ \E p \in Requests : Adds(reqs[p], c)
<1>1. GateTypeOK /\ reqs[q] \in Op /\ GateNoneAssumption
  BY Zenon DEF IInv, GateTypeOK, Op, Assumptions
<1>2. reqs[q] \in Uploads
  BY Zenon, <1>1, OpShape
<1>3. reqs[q] # NoRequest
  BY DEF NoRequest
<1>4. reqs[q].device \in Devices /\ reqs[q].hash \in Hashes /\ reqs[q].need \in Nat
  BY Zenon, <1>2 DEF Uploads
<1>5. holdings # None
  BY Zenon DEF IInv, Evident, Early
<1>6. Held = holdings /\ Held \in SUBSET Hashes
  BY Zenon, <1>1, <1>5, HeldType
<1>7. Held \subseteq Shown /\ Total(Held) \in Nat
  BY Zenon, <1>1, <1>6, HeldShown, TotalIs DEF Assumptions
<1>8. Informed(reqs[q], Shown) /\ Priced(reqs[q], stayed) /\ reserved \in Nat
  BY Zenon, <1>1 DEF IInv, Evident, Reserving, GateTypeOK
<1>9. alone => /\ Knows(reqs[q], Held, Claimed)
               /\ \A c \in claims : c[2] \in Held \/ \E p \in Requests : Adds(reqs[p], c)
  BY Zenon DEF IInv, Covering
<1> QED
  BY Zenon, <1>1, <1>2, <1>3, <1>4, <1>5, <1>6, <1>7, <1>8, <1>9

\* BeginExisting and BodyCommit: an upload claims its blob, which is shown, or
\* goes on to take the claim back.
LEMMA UploadClaims ==
    ASSUME Assumptions, IInv, NEW q \in Requests, reqs[q].kind = "upload",
           reqs[q].at \in {"begin", "body"}, NEW at \in {"insert", "takeBack"},
           reqs' = [reqs EXCEPT ![q].at = at],
           claims' = claims \cup {<<reqs[q].device, reqs[q].hash>>},
           UNCHANGED <<others, spent, holdings, reserved, leaked, kept, alone, stayed, bounds>>,
           proved \subseteq proved', proved' \subseteq Hashes,
           at = "insert" => reqs[q].hash \in Shown'
    PROVE  IInv'
<1>1. /\ GateTypeOK /\ reqs[q] \in Uploads /\ reqs[q] \in Op /\ reqs[q] # NoRequest /\ reserved \in Nat
      /\ reqs[q].device \in Devices /\ reqs[q].hash \in Hashes /\ reqs[q].need \in Nat
      /\ holdings # None /\ Held = holdings /\ Held \in SUBSET Hashes /\ Held \subseteq Shown
      /\ Total(Held) \in Nat
      /\ Informed(reqs[q], Shown) /\ Priced(reqs[q], stayed)
      /\ alone => Knows(reqs[q], Held, Claimed)
  BY Zenon, UploadFacts
<1>2. PICK n : n = [reqs[q] EXCEPT !.at = at]
  BY Zenon
<1>3. reqs' = [reqs EXCEPT ![q] = n]
  BY Zenon, <1>1, <1>2 DEF GateTypeOK
<1>4. /\ n \in Uploads /\ n \in Op /\ n.kind = "upload" /\ n.at = at /\ n.hash = reqs[q].hash
      /\ n.device = reqs[q].device /\ n.held = reqs[q].held /\ n.need = reqs[q].need
      /\ n.gone = reqs[q].gone
  BY Zenon, <1>1, <1>2 DEF Uploads, Op
<1>5. /\ NeedOf(n) = NeedOf(reqs[q]) /\ DueOf(n) = DueOf(reqs[q]) /\ DueOf(n) \in Nat
      /\ NeedOf(n) \in Nat
  BY Zenon, <1>1, <1>4, NeedType DEF NeedOf, DueOf
<1>6. Shown \subseteq Shown' /\ Held' = Held
  BY Zenon, <1>1 DEF Shown, Held
<1>7. /\ claims' \subseteq Devices \X Hashes /\ kept' \subseteq Devices \X Hashes
      /\ spent' \subseteq Tokens /\ holdings' \in {None} \cup SUBSET Hashes
  BY <1>1 DEF GateTypeOK
<1>8. \A c : ~Pending(reqs[q], c) /\ ~Adds(reqs[q], c)
  BY Zenon DEF Pending, Adds
<1>9. /\ at = "takeBack" => Pending(n, <<reqs[q].device, reqs[q].hash>>)
      /\ Adds(n, <<reqs[q].device, reqs[q].hash>>)
  BY Zenon, <1>4 DEF Pending, Adds
<1>10. Informed(n, Shown') /\ Priced(n, stayed) /\ (alone => Knows(n, Held', Claimed'))
  <2>1. Informed(n, Shown')
    BY Zenon, <1>1, <1>4, <1>6 DEF Informed
  <2>2. Priced(n, stayed)
    BY Zenon, <1>1, <1>4 DEF Priced
  <2>3. alone => Knows(n, Held', Claimed')
    BY Zenon, <1>1, <1>4, <1>6 DEF Knows
  <2> QED
    BY Zenon, <2>1, <2>2, <2>3
<1>11. \A c \in claims' : c \in claims \/ c[2] \in Shown' \/ Pending(n, c)
  BY <1>9
<1>12. \A c \in claims' : \/ c \in claims /\ c[2] \notin Held /\ ~Adds(reqs[q], c)
                          \/ c[2] \in Held' \/ Adds(n, c)
  BY Zenon, <1>6, <1>8, <1>9
<1>13. Total(Held') + DueOf(n) <= Total(Held) + DueOf(reqs[q])
  BY <1>1, <1>5, <1>6
<1>14. reserved' \in Int /\ reserved' + NeedOf(reqs[q]) = reserved + NeedOf(n)
  BY <1>1, <1>5
<1>15. /\ holdings' # None /\ holdings' \subseteq Shown' /\ Held \subseteq Held'
       /\ UNCHANGED <<others, leaked, alone, stayed, crashes, arrived>>
  BY Zenon, <1>1, <1>6 DEF bounds
<1>16. n.kind = reqs[q].kind
  BY Zenon, <1>4
<1> HIDE DEF NoRequest
<1> QED
  BY Zenon, <1>1, <1>3, <1>4, <1>7, <1>8, <1>10, <1>11, <1>12, <1>13, <1>14, <1>15, <1>16, Steps

\* begin_claimed_upload and UploadReservation::commit.
LEMMA UploadClaimsStep ==
    ASSUME Assumptions, IInv, NEW q \in Requests, BeginExisting(q) \/ BodyCommit(q)
    PROVE  IInv'
<1>1. reqs[q].kind = "upload" /\ reqs[q].at \in {"begin", "body"}
  BY Zenon DEF BeginExisting, BodyCommit, At
<1>2. /\ GateTypeOK /\ reqs[q].hash \in Hashes /\ Informed(reqs[q], Shown) /\ proved \subseteq Hashes
  BY Zenon, <1>1, UploadFacts DEF GateTypeOK
<1>3. CASE BeginExisting(q)
  <2>1. PICK at \in {"insert", "takeBack"} :
            /\ reqs' = [reqs EXCEPT ![q].at = at]
            /\ at = "insert" => reqs[q].held \/ reqs[q].proven
    BY Zenon, <1>3 DEF BeginExisting, Goto
  <2>2. at = "insert" => reqs[q].hash \in Shown'
    BY Zenon, <1>1, <1>2, <1>3, <2>1 DEF BeginExisting, At, Informed, Shown, history
  <2> QED
    BY Zenon, <1>1, <1>2, <1>3, <2>1, <2>2, UploadClaims DEF BeginExisting, history
<1>4. CASE BodyCommit(q)
  <2>1. reqs[q].hash \in Shown' /\ proved \subseteq proved' /\ proved' \subseteq Hashes
    BY Zenon, <1>2, <1>4 DEF BodyCommit, Shown
  <2> QED
    BY Zenon, <1>1, <1>4, <2>1, UploadClaims DEF BodyCommit, Goto
<1> QED
  BY Zenon, <1>3, <1>4

\* The claim on a blob that nothing proved is taken back.
LEMMA TakeBackStep ==
    ASSUME Assumptions, IInv, NEW q \in Requests, TakeBack(q)
    PROVE  IInv'
<1>1. reqs[q].kind = "upload" /\ reqs[q].at = "takeBack"
  BY Zenon DEF TakeBack, At
<1>2. /\ GateTypeOK /\ reqs[q] \in Op /\ reqs[q] # NoRequest /\ reserved \in Nat /\ reqs[q].need \in Nat
      /\ holdings # None /\ Held = holdings /\ Held \in SUBSET Hashes /\ Held \subseteq Shown
      /\ Total(Held) \in Nat
  BY Zenon, <1>1, UploadFacts
<1>3. /\ NeedOf(reqs[q]) = reqs[q].need /\ DueOf(reqs[q]) = reqs[q].need
      /\ NeedOf(NoRequest) = 0 /\ DueOf(NoRequest) = 0 /\ NoRequest \in Op
  BY Zenon, <1>1 DEF NeedOf, DueOf, NoRequest, Op
<1>4. /\ claims' = claims \ {<<reqs[q].device, reqs[q].hash>>}
      /\ reqs' = [reqs EXCEPT ![q] = NoRequest] /\ reserved' = reserved - reqs[q].need
      /\ UNCHANGED <<others, spent, holdings, proved, leaked, kept, alone, stayed, crashes, arrived>>
  BY Zenon, <1>1 DEF TakeBack, End, history, bounds
<1>5. Held' = Held /\ Shown' = Shown
  BY Zenon, <1>2, <1>4 DEF Held, Shown
<1>6. \A c \in claims' : c \in claims /\ ~Pending(reqs[q], c) /\ ~Adds(reqs[q], c)
  BY Zenon, <1>1, <1>4 DEF Pending, Adds
<1>7. Informed(NoRequest, Shown') /\ Priced(NoRequest, stayed) /\ Knows(NoRequest, Held', Claimed')
  BY Zenon DEF Informed, Priced, Knows, NoRequest
<1>8. /\ claims' \subseteq Devices \X Hashes /\ kept' \subseteq Devices \X Hashes
      /\ spent' \subseteq Tokens /\ holdings' \in {None} \cup SUBSET Hashes
      /\ proved \subseteq proved' /\ proved' \subseteq Hashes
  BY Zenon, <1>2, <1>4 DEF GateTypeOK
<1>9. reserved' \in Int /\ reserved' + NeedOf(reqs[q]) = reserved + NeedOf(NoRequest)
  BY <1>2, <1>3, <1>4
<1>10. Total(Held') + DueOf(NoRequest) <= Total(Held) + DueOf(reqs[q])
  BY <1>2, <1>3, <1>5
<1>11. holdings' # None /\ holdings' \subseteq Shown' /\ Held \subseteq Held'
  BY Zenon, <1>2, <1>4, <1>5
<1>12. /\ \A c \in claims' : c \in claims \/ c[2] \in Shown' \/ Pending(NoRequest, c)
       /\ \A c \in claims' : Pending(reqs[q], c) => c[2] \in Shown' \/ Pending(NoRequest, c)
       /\ \A c \in claims' : \/ c \in claims /\ c[2] \notin Held /\ ~Adds(reqs[q], c)
                             \/ c[2] \in Held' \/ Adds(NoRequest, c)
  BY Zenon, <1>5, <1>6
<1> HIDE DEF NoRequest
<1> QED
  BY Zenon, <1>2, <1>3, <1>4, <1>7, <1>8, <1>9, <1>10, <1>11, <1>12, Steps

\* The blob is among the holdings, and what was due for it no longer is.
LEMMA UploadInsertStep ==
    ASSUME Assumptions, IInv, NEW q \in Requests, UploadInsert(q)
    PROVE  IInv'
<1>1. reqs[q].kind = "upload" /\ reqs[q].at = "insert"
  BY Zenon DEF UploadInsert, At
<1>2. /\ GateTypeOK /\ reqs[q] \in Uploads /\ reqs[q] \in Op /\ reqs[q] # NoRequest /\ reserved \in Nat
      /\ reqs[q].hash \in Hashes /\ reqs[q].need \in Nat
      /\ holdings # None /\ Held = holdings /\ Held \in SUBSET Hashes /\ Held \subseteq Shown
      /\ Informed(reqs[q], Shown) /\ Priced(reqs[q], stayed)
      /\ alone => Knows(reqs[q], Held, Claimed)
  BY Zenon, <1>1, UploadFacts
<1>3. PICK n : n = [reqs[q] EXCEPT !.at = "finish"]
  BY Zenon
<1>4. /\ reqs' = [reqs EXCEPT ![q] = n] /\ holdings' = Held \cup {reqs[q].hash}
      /\ UNCHANGED <<claims, others, spent, reserved, proved, leaked, kept, alone, stayed, crashes,
                     arrived>>
  BY Zenon, <1>2, <1>3 DEF UploadInsert, Goto, GateTypeOK, store, history, bounds
<1>5. /\ n \in Uploads /\ n \in Op /\ n.kind = "upload" /\ n.at = "finish" /\ n.hash = reqs[q].hash
      /\ n.held = reqs[q].held /\ n.need = reqs[q].need /\ n.gone = reqs[q].gone
  BY Zenon, <1>2, <1>3 DEF Uploads, Op
<1>6. NeedOf(n) = NeedOf(reqs[q]) /\ NeedOf(n) \in Nat /\ DueOf(n) = 0 /\ DueOf(reqs[q]) = reqs[q].need
  BY Zenon, <1>1, <1>2, <1>5, NeedType DEF NeedOf, DueOf
<1>7. holdings' \in SUBSET Hashes /\ holdings' # None /\ Held' = Held \cup {reqs[q].hash}
  BY Zenon, <1>2, <1>4 DEF Held, Assumptions, GateNoneAssumption
<1>8. Shown' = Shown /\ reqs[q].hash \in Shown
  BY Zenon, <1>1, <1>2, <1>4 DEF Shown, Informed
<1>9. Informed(n, Shown') /\ Priced(n, stayed) /\ (alone => Knows(n, Held', Claimed'))
  <2>1. Informed(n, Shown')
    BY Zenon, <1>5, <1>8 DEF Informed
  <2>2. Priced(n, stayed)
    BY Zenon, <1>1, <1>2, <1>5 DEF Priced
  <2>3. alone => Knows(n, Held', Claimed')
    BY Zenon, <1>5, <1>7 DEF Knows
  <2> QED
    BY Zenon, <2>1, <2>2, <2>3
<1>10. alone /\ stayed => Total(Held') + DueOf(n) <= Total(Held) + DueOf(reqs[q])
  <2> SUFFICES ASSUME alone, stayed
               PROVE  Total(Held') + DueOf(n) <= Total(Held) + DueOf(reqs[q])
    BY Zenon
  <2>1. reqs[q].held => reqs[q].hash \in Held
    BY Zenon, <1>1, <1>2 DEF Knows
  <2>2. ~reqs[q].held => reqs[q].need = Size(reqs[q].hash)
    BY Zenon, <1>1, <1>2 DEF Priced
  <2>3. /\ Total(Held) \in Nat /\ Total(Held') \in Nat
        /\ Total(Held') <= Total(Held) + Size(reqs[q].hash)
        /\ reqs[q].hash \in Held => Total(Held') = Total(Held)
    BY Zenon, <1>2, <1>7, TotalMore DEF Assumptions
  <2>4. reqs[q].need \in Nat /\ DueOf(n) = 0 /\ DueOf(reqs[q]) = reqs[q].need
    BY Zenon, <1>2, <1>6 DEF Uploads
  <2> QED
    BY <2>1, <2>2, <2>3, <2>4
<1>11. \A c : ~Pending(reqs[q], c) /\ (Adds(reqs[q], c) => c[2] \in Held')
  BY Zenon, <1>1, <1>7 DEF Pending, Adds
<1>12. /\ claims' \subseteq Devices \X Hashes /\ kept' \subseteq Devices \X Hashes
       /\ spent' \subseteq Tokens /\ proved \subseteq proved' /\ proved' \subseteq Hashes
  BY Zenon, <1>2, <1>4 DEF GateTypeOK
<1>13. reserved' \in Int /\ reserved' + NeedOf(reqs[q]) = reserved + NeedOf(n)
  BY <1>2, <1>4, <1>6
<1>14. holdings' \subseteq Shown' /\ Held \subseteq Held'
  BY Zenon, <1>2, <1>4, <1>7, <1>8
<1>15. /\ \A c \in claims' : c \in claims \/ c[2] \in Shown' \/ Pending(n, c)
       /\ \A c \in claims' : Pending(reqs[q], c) => c[2] \in Shown' \/ Pending(n, c)
       /\ \A c \in claims' : \/ c \in claims /\ c[2] \notin Held /\ ~Adds(reqs[q], c)
                             \/ c[2] \in Held' \/ Adds(n, c)
  BY Zenon, <1>4, <1>11, <1>14
<1>16. n.kind = reqs[q].kind /\ holdings' \in {None} \cup SUBSET Hashes
  BY Zenon, <1>1, <1>5, <1>7
<1> HIDE DEF NoRequest
<1> QED
  BY Zenon, <1>2, <1>4, <1>5, <1>7, <1>9, <1>10, <1>12, <1>13, <1>14, <1>15, <1>16, Steps

-----------------------------------------------------------------------------
(* Mirrors.                                                                  *)

\* What a mirror goes by.
LEMMA MirrorFacts ==
    ASSUME Assumptions, IInv, NEW q \in Requests, reqs[q].kind = "mirror"
    PROVE  /\ GateTypeOK /\ reqs[q] \in Mirrors /\ reqs[q] \in Op /\ reqs[q] # NoRequest /\ reserved \in Nat
           /\ reqs[q].device \in Devices /\ reqs[q].hash \in Hashes
           /\ Held \in SUBSET Hashes /\ Held # None /\ Held \subseteq Shown /\ Total(Held) \in Nat
           /\ reqs[q].at \notin {"reserved", "held"} => holdings # None /\ Held = holdings
           /\ Informed(reqs[q], Shown) /\ NeedOf(reqs[q]) = 0 /\ DueOf(reqs[q]) = 0
           /\ alone => Knows(reqs[q], Held, Claimed)
           /\ alone => reserved = 0 /\ Sum(Due, Requests) = 0
<1>1. GateTypeOK /\ reqs[q] \in Op /\ GateNoneAssumption
  BY Zenon DEF IInv, GateTypeOK, Op, Assumptions
<1>2. reqs[q] \in Mirrors
  BY Zenon, <1>1, OpShape
<1>3. reqs[q] # NoRequest
  BY DEF NoRequest
<1>4. reqs[q].device \in Devices /\ reqs[q].hash \in Hashes
  BY Zenon, <1>2 DEF Mirrors
<1>5. reqs[q].at \notin {"reserved", "held"} => holdings # None
  BY Zenon DEF IInv, Evident, Early
<1>6. Held \in SUBSET Hashes /\ Held # None /\ (holdings # None => Held = holdings)
  BY Zenon, <1>1, HeldType
<1>7. Held \subseteq Shown /\ Total(Held) \in Nat
  BY Zenon, <1>1, <1>6, HeldShown, TotalIs DEF Assumptions
<1>8. Informed(reqs[q], Shown) /\ reserved \in Nat /\ NeedOf(reqs[q]) = 0 /\ DueOf(reqs[q]) = 0
  BY Zenon, <1>1 DEF IInv, Evident, GateTypeOK, NeedOf, DueOf
<1>9. alone => Knows(reqs[q], Held, Claimed)
  BY Zenon DEF IInv, Covering
<1>10. alone => reserved = 0 /\ Sum(Due, Requests) = 0
  BY Zenon, <1>3, Sole
<1> QED
  BY Zenon, <1>1, <1>2, <1>3, <1>4, <1>5, <1>6, <1>7, <1>8, <1>9, <1>10

\* A step within a mirror that leaves the claims alone.
LEMMA MirrorMoves ==
    ASSUME Assumptions, IInv, NEW q \in Requests, reqs[q].kind = "mirror", reqs[q].at # "verdict",
           NEW n \in Mirrors, reqs' = [reqs EXCEPT ![q] = n], n.at # "verdict",
           UNCHANGED <<store, reserved, history, bounds>>,
           \/ holdings' = holdings /\ (holdings = None => Early(n))
           \/ holdings' = Held,
           n.held => n.hash \in Shown, alone => Knows(n, Held, Claimed)
    PROVE  IInv'
<1>1. /\ GateTypeOK /\ reqs[q] \in Op /\ reqs[q] # NoRequest /\ reserved \in Nat
      /\ NeedOf(reqs[q]) = 0 /\ DueOf(reqs[q]) = 0
  BY Zenon, MirrorFacts
<1>2. n \in Op /\ n.kind = "mirror" /\ n.kind = reqs[q].kind
  BY Zenon DEF Op, Mirrors
<1>3. NeedOf(n) = 0 /\ DueOf(n) = 0
  BY Zenon, <1>2 DEF NeedOf, DueOf
<1>4. reserved' \in Int /\ reserved' + NeedOf(reqs[q]) = reserved + NeedOf(n)
  BY <1>1, <1>3
<1>5. /\ UNCHANGED <<claims, others, leaked, alone, crashes, arrived>>
      /\ proved \subseteq proved' /\ proved' \subseteq Hashes /\ spent' \subseteq Tokens
      /\ kept' \subseteq Devices \X Hashes /\ stayed' \in BOOLEAN /\ (stayed' => stayed)
  BY Zenon, <1>1 DEF GateTypeOK, store, history, bounds
<1>6. \A c : ~Pending(reqs[q], c) /\ ~Adds(reqs[q], c)
  BY Zenon DEF Pending, Adds
<1>7. Shown' = Shown
  BY Zenon DEF Shown, history
<1>8. Informed(n, Shown') /\ Priced(n, stayed')
  BY Zenon, <1>2, <1>7 DEF Informed, Priced
<1>9. DueOf(n) <= DueOf(reqs[q])
  BY <1>1, <1>3
<1> HIDE DEF NoRequest
<1> QED
  BY Zenon, <1>1, <1>2, <1>4, <1>5, <1>6, <1>8, <1>9, Moves

\* MirrorReserved, MirrorHeld and MirrorBegin.
LEMMA MirrorMovesStep ==
    ASSUME Assumptions, IInv, NEW q \in Requests,
           MirrorReserved(q) \/ MirrorHeld(q) \/ MirrorBegin(q)
    PROVE  IInv'
<1>1. reqs[q].kind = "mirror" /\ reqs[q].at \in {"reserved", "held", "core"}
  BY Zenon DEF MirrorReserved, MirrorHeld, MirrorBegin, At
<1>2. /\ GateTypeOK /\ reqs[q] \in Mirrors /\ reqs[q] # NoRequest /\ reserved \in Nat
      /\ reqs[q].hash \in Hashes /\ Held \in SUBSET Hashes /\ Held # None /\ Held \subseteq Shown
      /\ reqs[q].at = "core" => holdings # None
      /\ Informed(reqs[q], Shown) /\ NeedOf(reqs[q]) = 0
      /\ alone => Knows(reqs[q], Held, Claimed)
      /\ alone => reserved = 0
  BY Zenon, <1>1, MirrorFacts
<1>3. CASE MirrorReserved(q)
  <2>1. PICK n : n = [reqs[q] EXCEPT !.reserved = reserved, !.at = "held"]
    BY Zenon
  <2>2. reqs' = [reqs EXCEPT ![q] = n]
    BY Zenon, <1>2, <1>3, <2>1 DEF MirrorReserved, GateTypeOK
  <2>3. /\ n \in Mirrors /\ n.kind = "mirror" /\ n.at = "held" /\ n.reserved = reserved
        /\ n.held = reqs[q].held /\ n.hash = reqs[q].hash
    BY Zenon, <1>2, <2>1 DEF Mirrors
  <2>4. (n.held => n.hash \in Shown) /\ (alone => Knows(n, Held, Claimed)) /\ Early(n)
    BY Zenon, <1>1, <1>2, <2>3 DEF Informed, Knows, Early
  <2> QED
    BY Zenon, <1>1, <1>3, <2>2, <2>3, <2>4, MirrorMoves DEF MirrorReserved, At
<1>4. CASE MirrorHeld(q)
  <2>1. holdings' = Held /\ UNCHANGED <<store, reserved, history, bounds>> /\ reqs[q].at = "held"
    BY Zenon, <1>4 DEF MirrorHeld, At
  <2>2. PICK held \in BOOLEAN : held <=> reqs[q].hash \in Held
    BY Zenon
  <2>3. PICK n : n = [reqs[q] EXCEPT !.held = held, !.at = "core"]
    BY Zenon
  <2>4. /\ n \in Mirrors /\ n.kind = "mirror" /\ n.at = "core" /\ n.reserved = reqs[q].reserved
        /\ (n.held <=> reqs[q].hash \in Held) /\ n.hash = reqs[q].hash
    BY Zenon, <1>2, <2>2, <2>3 DEF Mirrors
  <2>5. reqs' = [reqs EXCEPT ![q] = n] \/ reqs' = [reqs EXCEPT ![q] = NoRequest]
    BY Zenon, <1>2, <1>4, <2>2, <2>3 DEF MirrorHeld, GateTypeOK
  <2>6. CASE reqs' = [reqs EXCEPT ![q] = n]
    <3>1. n.held => n.hash \in Shown
      BY Zenon, <1>2, <2>4
    <3>2. alone => Knows(n, Held, Claimed)
      BY Zenon, <1>1, <1>2, <2>4 DEF Knows
    <3> QED
      BY Zenon, <1>1, <2>1, <2>4, <2>6, <3>1, <3>2, MirrorMoves
  <2>7. CASE reqs' = [reqs EXCEPT ![q] = NoRequest]
    <3>1. \A c : ~Pending(reqs[q], c) /\ ~Adds(reqs[q], c)
      BY Zenon, <1>1, <2>1 DEF Pending, Adds
    <3>2. reserved' = reserved - NeedOf(reqs[q])
      BY <1>2, <2>1
    <3>3. /\ UNCHANGED <<claims, others, proved, leaked, alone, crashes, arrived>>
          /\ spent' \subseteq Tokens /\ kept' \subseteq Devices \X Hashes
          /\ stayed' \in BOOLEAN /\ (stayed' => stayed)
      BY Zenon, <1>2, <2>1 DEF GateTypeOK, store, history, bounds
    <3> HIDE DEF NoRequest
    <3> QED
      BY Zenon, <1>2, <2>1, <2>7, <3>1, <3>2, <3>3, Ends
  <2> QED
    BY Zenon, <2>5, <2>6, <2>7
<1>5. CASE MirrorBegin(q)
  <2>1. PICK n : n = [reqs[q] EXCEPT !.at = "fetch"]
    BY Zenon
  <2>2. reqs' = [reqs EXCEPT ![q] = n]
    BY Zenon, <1>2, <1>5, <2>1 DEF MirrorBegin, Goto, GateTypeOK
  <2>3. /\ n \in Mirrors /\ n.kind = "mirror" /\ n.at = "fetch" /\ n.reserved = reqs[q].reserved
        /\ n.held = reqs[q].held /\ n.hash = reqs[q].hash
    BY Zenon, <1>2, <2>1 DEF Mirrors
  <2>4. (n.held => n.hash \in Shown) /\ (alone => Knows(n, Held, Claimed)) /\ reqs[q].at = "core"
    BY Zenon, <1>1, <1>2, <1>5, <2>3 DEF Informed, Knows, MirrorBegin, At
  <2> QED
    BY Zenon, <1>1, <1>2, <1>5, <2>2, <2>3, <2>4, MirrorMoves DEF MirrorBegin
<1> QED
  BY <1>3, <1>4, <1>5

\* MirrorExisting and MirrorCommit: the core claims the blob, and the verdict is
\* to come.
LEMMA MirrorClaimsStep ==
    ASSUME Assumptions, IInv, NEW q \in Requests, MirrorExisting(q) \/ MirrorCommit(q)
    PROVE  IInv'
<1>1. reqs[q].kind = "mirror" /\ reqs[q].at \in {"core", "fetch"}
  BY Zenon DEF MirrorExisting, MirrorCommit, At
<1>2. /\ GateTypeOK /\ reqs[q] \in Mirrors /\ reqs[q] \in Op /\ reqs[q] # NoRequest /\ reserved \in Nat
      /\ reqs[q].device \in Devices /\ reqs[q].hash \in Hashes
      /\ Held \in SUBSET Hashes /\ Held # None /\ Held \subseteq Shown /\ Total(Held) \in Nat
      /\ holdings # None /\ Held = holdings
      /\ Informed(reqs[q], Shown) /\ NeedOf(reqs[q]) = 0 /\ DueOf(reqs[q]) = 0
      /\ alone => Knows(reqs[q], Held, Claimed)
  BY Zenon, <1>1, MirrorFacts
<1>3. /\ claims' = claims \cup {<<reqs[q].device, reqs[q].hash>>}
      /\ UNCHANGED <<others, spent, holdings, reserved, leaked, kept, alone, stayed, crashes, arrived>>
      /\ proved \subseteq proved' /\ proved' \subseteq Hashes
  BY Zenon, <1>2 DEF MirrorExisting, MirrorCommit, history, bounds, GateTypeOK
<1>4. PICK existing \in BOOLEAN : existing = IF MirrorExisting(q) THEN TRUE ELSE reqs[q].existing
  BY Zenon, <1>2 DEF Mirrors
<1>5. PICK n : n = [reqs[q] EXCEPT !.existing = existing, !.at = "verdict"]
  BY Zenon
<1>6. reqs' = [reqs EXCEPT ![q] = n]
  <2>1. CASE MirrorExisting(q)
    BY Zenon, <1>2, <1>4, <1>5, <2>1 DEF MirrorExisting, GateTypeOK
  <2>2. CASE ~MirrorExisting(q)
    <3>1. n = [reqs[q] EXCEPT !.at = "verdict"]
      BY Zenon, <1>2, <1>4, <1>5, <2>2 DEF Mirrors
    <3> QED
      BY Zenon, <1>2, <2>2, <3>1 DEF MirrorCommit, Goto, GateTypeOK
  <2> QED
    BY Zenon, <2>1, <2>2
<1>7. /\ n \in Mirrors /\ n \in Op /\ n.kind = "mirror" /\ n.at = "verdict"
      /\ n.reserved = reqs[q].reserved /\ n.held = reqs[q].held /\ n.hash = reqs[q].hash
      /\ n.device = reqs[q].device /\ n.existing = existing
  BY Zenon, <1>2, <1>5 DEF Mirrors, Op
<1>8. existing \/ reqs[q].hash \in Shown'
  BY Zenon, <1>4 DEF MirrorCommit, Shown
<1>9. Shown \subseteq Shown' /\ Held' = Held
  BY Zenon, <1>2, <1>3 DEF Shown, Held
<1>10. Informed(n, Shown') /\ Priced(n, stayed) /\ (alone => Knows(n, Held', Claimed'))
  <2>1. Informed(n, Shown')
    BY Zenon, <1>1, <1>2, <1>7, <1>8, <1>9 DEF Informed
  <2>2. Priced(n, stayed)
    BY Zenon, <1>7 DEF Priced
  <2>3. alone => Knows(n, Held', Claimed')
    BY Zenon, <1>1, <1>2, <1>7, <1>9 DEF Knows
  <2> QED
    BY Zenon, <2>1, <2>2, <2>3
<1>11. NeedOf(n) = 0 /\ DueOf(n) = 0
  BY Zenon, <1>7 DEF NeedOf, DueOf
<1>12. reserved' \in Int /\ reserved' + NeedOf(reqs[q]) = reserved + NeedOf(n)
  BY <1>2, <1>3, <1>11
<1>13. Total(Held') + DueOf(n) <= Total(Held) + DueOf(reqs[q])
  BY <1>2, <1>9, <1>11
<1>14. \A c : ~Pending(reqs[q], c) /\ ~Adds(reqs[q], c)
  BY Zenon, <1>1 DEF Pending, Adds
<1>15. Pending(n, <<reqs[q].device, reqs[q].hash>>) /\ Adds(n, <<reqs[q].device, reqs[q].hash>>)
  BY Zenon, <1>7 DEF Pending, Adds
<1>16. /\ claims' \subseteq Devices \X Hashes /\ kept' \subseteq Devices \X Hashes
       /\ spent' \subseteq Tokens /\ holdings' \in {None} \cup SUBSET Hashes
       /\ holdings' # None /\ holdings' \subseteq Shown' /\ n.kind = reqs[q].kind
       /\ reqs[q].kind # "upload"
  BY <1>1, <1>2, <1>3, <1>7, <1>9 DEF GateTypeOK
<1>17. /\ \A c \in claims' : c \in claims \/ c[2] \in Shown' \/ Pending(n, c)
       /\ \A c \in claims' : \/ c \in claims /\ c[2] \notin Held /\ ~Adds(reqs[q], c)
                             \/ c[2] \in Held' \/ Adds(n, c)
  BY Zenon, <1>3, <1>9, <1>14, <1>15
<1> HIDE DEF NoRequest
<1> QED
  BY Zenon, <1>2, <1>3, <1>6, <1>7, <1>10, <1>12, <1>13, <1>14, <1>16, <1>17, Steps

\* A request that is not an upload ends and changes the claims or the holdings.
LEMMA Verdicts ==
    ASSUME Assumptions, IInv, NEW q \in Requests, reqs[q] # NoRequest, reqs[q].kind # "upload",
           reqs' = [reqs EXCEPT ![q] = NoRequest],
           UNCHANGED <<others, spent, reserved, proved, leaked, alone, stayed, crashes, arrived>>,
           claims' \subseteq claims, kept' \subseteq Devices \X Hashes,
           holdings' \in SUBSET Hashes, holdings' \subseteq Shown,
           \A c \in claims' : Pending(reqs[q], c) => c[2] \in Shown,
           alone => \A c \in claims' : c[2] \in Held \/ Adds(reqs[q], c) => c[2] \in holdings',
           alone /\ stayed => \/ Total(holdings') <= Total(Held)
                              \/ Total(holdings') <= Ceiling
    PROVE  IInv'
<1>1. GateTypeOK /\ reqs[q] \in Op /\ GateNoneAssumption
  BY Zenon DEF IInv, GateTypeOK, Op, Assumptions
<1>2. holdings' # None
  BY Zenon, <1>1 DEF GateNoneAssumption
<1>3. Held' = holdings' /\ Shown' = Shown
  BY Zenon, <1>2 DEF Held, Shown
<1>4. /\ NeedOf(reqs[q]) = 0 /\ DueOf(reqs[q]) = 0 /\ NeedOf(NoRequest) = 0 /\ DueOf(NoRequest) = 0
      /\ NoRequest \in Op
  BY Zenon DEF NeedOf, DueOf, NoRequest, Op
<1>5. Informed(NoRequest, Shown') /\ Priced(NoRequest, stayed) /\ Knows(NoRequest, Held', Claimed')
  BY Zenon DEF Informed, Priced, Knows, NoRequest
<1>6. reserved' \in Int /\ reserved' + NeedOf(reqs[q]) = reserved + NeedOf(NoRequest)
  BY <1>1, <1>4 DEF GateTypeOK
<1>7. /\ claims' \subseteq Devices \X Hashes /\ spent' \subseteq Tokens
      /\ proved \subseteq proved' /\ proved' \subseteq Hashes
  BY Zenon, <1>1 DEF GateTypeOK
<1>8. alone /\ stayed => \/ Total(Held') + DueOf(NoRequest) <= Total(Held) + DueOf(reqs[q])
                         \/ Budget'
  <2> SUFFICES ASSUME alone, stayed
               PROVE  Total(Held') + DueOf(NoRequest) <= Total(Held) + DueOf(reqs[q]) \/ Budget'
    BY Zenon
  <2>1. Total(Held) \in Nat /\ Total(Held') \in Nat /\ Ceiling \in Nat
    BY Zenon, <1>1, <1>3, HeldType, TotalIs DEF Assumptions, CeilingAssumption
  <2>2. CASE Total(holdings') <= Total(Held)
    BY <1>3, <1>4, <2>1, <2>2
  <2>3. CASE Total(holdings') <= Ceiling
    <3>1. Changes(q) /\ reqs'[q] = NoRequest
      BY Zenon, <1>1, <1>4 DEF Changes, GateTypeOK, Op
    <3>2. Sum(Due, Requests) = 0
      BY Zenon, Sole
    <3>3. Sum(Due, Requests)' \in Nat /\ Sum(Due, Requests)' + 0 = 0 + 0
      BY Zenon, <1>1, <1>4, <3>1, <3>2, SumsStep
    <3>4. Total(Held)' = Total(Held')
      BY Zenon DEF Total, MapThenSumSet, MapThenFoldSet
    <3>5. Total(Held') + Sum(Due, Requests)' <= Ceiling
      BY <1>3, <2>1, <2>3, <3>3
    <3> QED
      BY Zenon, <3>4, <3>5 DEF Budget
  <2> QED
    BY Zenon, <2>2, <2>3
<1>9. /\ \A c \in claims' : c \in claims \/ c[2] \in Shown' \/ Pending(NoRequest, c)
      /\ \A c \in claims' : Pending(reqs[q], c) => c[2] \in Shown' \/ Pending(NoRequest, c)
      /\ alone => \A c \in claims' : \/ c \in claims /\ c[2] \notin Held /\ ~Adds(reqs[q], c)
                                     \/ c[2] \in Held' \/ Adds(NoRequest, c)
  BY Zenon, <1>3
<1>10. holdings' \in {None} \cup SUBSET Hashes /\ holdings' \subseteq Shown'
  BY Zenon, <1>3
<1> HIDE DEF NoRequest
<1> QED
  BY Zenon, <1>2, <1>4, <1>5, <1>6, <1>7, <1>8, <1>9, <1>10, Steps

\* The verdict on a mirror: the claim is taken back when nothing proves it or the
\* ceiling is passed, and is counted otherwise.
LEMMA MirrorVerdictStep ==
    ASSUME Assumptions, IInv, NEW q \in Requests, MirrorVerdict(q)
    PROVE  IInv'
<1>1. reqs[q].kind = "mirror" /\ reqs[q].at = "verdict" /\ reqs[q].kind # "upload"
  BY Zenon DEF MirrorVerdict, At
<1>2. /\ GateTypeOK /\ reqs[q] \in Mirrors /\ reqs[q] # NoRequest
      /\ reqs[q].device \in Devices /\ reqs[q].hash \in Hashes
      /\ Held \in SUBSET Hashes /\ Held \subseteq Shown /\ Total(Held) \in Nat
      /\ holdings # None /\ Held = holdings /\ Informed(reqs[q], Shown)
      /\ alone => Knows(reqs[q], Held, Claimed)
  BY Zenon, <1>1, MirrorFacts
<1>3. /\ reqs' = [reqs EXCEPT ![q] = NoRequest]
      /\ UNCHANGED <<others, spent, reserved, proved, leaked, alone, stayed, crashes, arrived>>
  BY Zenon, <1>1 DEF MirrorVerdict, End, bounds
<1>4. PICK claim : claim = <<reqs[q].device, reqs[q].hash>>
  BY Zenon
<1>5. claim[2] = reqs[q].hash /\ \A c : (Pending(reqs[q], c) \/ Adds(reqs[q], c)) => c = claim
  BY Zenon, <1>1, <1>4 DEF Pending, Adds
<1>6. alone => reqs[q].reserved = 0 /\ (reqs[q].held <=> reqs[q].hash \in Held)
  BY Zenon, <1>1, <1>2 DEF Knows
<1>7. kept \subseteq Devices \X Hashes
  BY Zenon, <1>2 DEF GateTypeOK
<1>8. CASE Unproven(q)
  <2>1. claims' = claims \ {claim} /\ kept' = kept /\ holdings' = Held
    BY Zenon, <1>2, <1>4, <1>8 DEF MirrorVerdict
  <2>2. Total(holdings') <= Total(Held)
    BY <1>2, <2>1
  <2>3. \A c \in claims' : ~Pending(reqs[q], c) /\ ~Adds(reqs[q], c)
    BY Zenon, <1>5, <2>1
  <2> HIDE DEF NoRequest
  <2> QED
    BY Zenon, <1>1, <1>2, <1>3, <1>7, <2>1, <2>2, <2>3, Verdicts
<1>9. CASE ~Unproven(q) /\ PassesCeiling(q)
  <2>1. claims' = claims \ {claim} /\ kept' = kept /\ holdings' = Held \ {reqs[q].hash}
    BY Zenon, <1>4, <1>9 DEF MirrorVerdict
  <2>2. alone => holdings' = Held
    BY Zenon, <1>6, <1>9, <2>1 DEF PassesCeiling
  <2>3. alone => Total(holdings') <= Total(Held)
    BY <1>2, <2>2
  <2>4. \A c \in claims' : ~Pending(reqs[q], c) /\ ~Adds(reqs[q], c)
    BY Zenon, <1>5, <2>1
  <2>5. holdings' \in SUBSET Hashes /\ holdings' \subseteq Shown
    BY Zenon, <1>2, <2>1
  <2> HIDE DEF NoRequest
  <2> QED
    BY Zenon, <1>1, <1>2, <1>3, <1>7, <2>1, <2>2, <2>3, <2>4, <2>5, Verdicts
<1>10. CASE ~Unproven(q) /\ ~PassesCeiling(q)
  <2>1. claims' = claims /\ kept' = kept \cup {claim} /\ holdings' = Held \cup {reqs[q].hash}
    BY Zenon, <1>4, <1>10 DEF MirrorVerdict
  <2>2. reqs[q].hash \in Shown
    BY Zenon, <1>1, <1>2, <1>10 DEF Unproven, Informed
  <2>3. /\ Total(holdings') \in Nat /\ (reqs[q].hash \in Held => Total(holdings') = Total(Held))
    BY Zenon, <1>2, <2>1, TotalMore DEF Assumptions
  <2>4. alone => Total(holdings') <= Total(Held) \/ Total(holdings') <= Ceiling
    <3> SUFFICES ASSUME alone, reqs[q].hash \notin Held PROVE Total(holdings') <= Ceiling
      BY <1>2, <2>3
    <3>1. ~(Total(holdings') + 0 > Ceiling)
      BY Zenon, <1>6, <1>10, <2>1 DEF PassesCeiling
    <3> QED
      BY <2>3, <3>1 DEF Assumptions, CeilingAssumption
  <2>5. /\ kept' \subseteq Devices \X Hashes /\ holdings' \in SUBSET Hashes
        /\ holdings' \subseteq Shown
    BY <1>2, <1>4, <1>7, <2>1, <2>2
  <2>6. /\ \A c \in claims' : Pending(reqs[q], c) => c[2] \in Shown
        /\ \A c \in claims' : c[2] \in Held \/ Adds(reqs[q], c) => c[2] \in holdings'
    BY Zenon, <1>5, <2>1, <2>2
  <2> HIDE DEF NoRequest
  <2> QED
    BY Zenon, <1>1, <1>2, <1>3, <2>1, <2>4, <2>5, <2>6, Verdicts
<1> QED
  BY Zenon, <1>8, <1>9, <1>10

-----------------------------------------------------------------------------
(* Deletes.                                                                  *)

\* What a delete goes by.
LEMMA DeleteFacts ==
    ASSUME Assumptions, IInv, NEW q \in Requests, reqs[q].kind = "delete"
    PROVE  /\ GateTypeOK /\ GateNoneAssumption /\ reqs[q] \in Deletes /\ reqs[q] \in Op /\ reqs[q] # NoRequest
           /\ reserved \in Nat /\ reqs[q].hash \in Hashes
           /\ Held \in SUBSET Hashes /\ Held # None /\ Held \subseteq Shown /\ Total(Held) \in Nat
           /\ NeedOf(reqs[q]) = 0 /\ DueOf(reqs[q]) = 0
           /\ alone => Knows(reqs[q], Held, Claimed)
           /\ \A c : ~Pending(reqs[q], c) /\ ~Adds(reqs[q], c)
<1>1. GateTypeOK /\ reqs[q] \in Op /\ GateNoneAssumption
  BY Zenon DEF IInv, GateTypeOK, Op, Assumptions
<1>2. reqs[q] \in Deletes
  BY Zenon, <1>1, OpShape
<1>3. reqs[q] # NoRequest
  BY DEF NoRequest
<1>4. reqs[q].hash \in Hashes
  BY Zenon, <1>2 DEF Deletes
<1>5. Held \in SUBSET Hashes /\ Held # None
  BY Zenon, <1>1, HeldType
<1>6. Held \subseteq Shown /\ Total(Held) \in Nat
  BY Zenon, <1>1, <1>5, HeldShown, TotalIs DEF Assumptions
<1>7. reserved \in Nat /\ NeedOf(reqs[q]) = 0 /\ DueOf(reqs[q]) = 0
  BY Zenon, <1>1 DEF GateTypeOK, NeedOf, DueOf
<1>8. alone => Knows(reqs[q], Held, Claimed)
  BY Zenon DEF IInv, Covering
<1>9. \A c : ~Pending(reqs[q], c) /\ ~Adds(reqs[q], c)
  BY Zenon DEF Pending, Adds
<1> QED
  BY Zenon, <1>1, <1>2, <1>3, <1>4, <1>5, <1>6, <1>7, <1>8, <1>9

\* A delete goes on, or ends, and leaves the claims alone.
LEMMA DeleteMoves ==
    ASSUME Assumptions, IInv, NEW q \in Requests, reqs[q].kind = "delete",
           NEW n \in {NoRequest} \cup Deletes, reqs' = [reqs EXCEPT ![q] = n],
           UNCHANGED <<claims, others, holdings, reserved, history, bounds>>,
           spent' \subseteq Tokens, alone => Knows(n, Held, Claimed)
    PROVE  IInv'
<1>1. /\ GateTypeOK /\ reqs[q] # NoRequest /\ reserved \in Nat
      /\ NeedOf(reqs[q]) = 0 /\ DueOf(reqs[q]) = 0
      /\ \A c : ~Pending(reqs[q], c) /\ ~Adds(reqs[q], c)
  BY Zenon, DeleteFacts
<1>2. n \in Op /\ (n = NoRequest \/ n.kind = reqs[q].kind) /\ n.kind \notin {"upload", "mirror"}
  BY DEF Op, Deletes, NoRequest
<1>3. NeedOf(n) = 0 /\ DueOf(n) = 0
  BY Zenon, <1>2 DEF NeedOf, DueOf
<1>4. reserved' \in Int /\ reserved' + NeedOf(reqs[q]) = reserved + NeedOf(n)
  BY <1>1, <1>3
<1>5. /\ UNCHANGED <<claims, others, leaked, alone, crashes, arrived>>
      /\ proved \subseteq proved' /\ proved' \subseteq Hashes
      /\ kept' \subseteq Devices \X Hashes /\ stayed' \in BOOLEAN /\ (stayed' => stayed)
  BY Zenon, <1>1 DEF GateTypeOK, history, bounds
<1>6. Informed(n, Shown') /\ Priced(n, stayed') /\ Early(n)
  BY Zenon, <1>2 DEF Informed, Priced, Early
<1>7. DueOf(n) <= DueOf(reqs[q])
  BY <1>1, <1>3
<1> HIDE DEF NoRequest
<1> QED
  BY Zenon, <1>1, <1>2, <1>4, <1>5, <1>6, <1>7, Moves

\* DeleteSpend and DeleteStill.
LEMMA DeleteMovesStep ==
    ASSUME Assumptions, IInv, NEW q \in Requests, DeleteSpend(q) \/ DeleteStill(q)
    PROVE  IInv'
<1>1. reqs[q].kind = "delete"
  BY Zenon DEF DeleteSpend, DeleteStill, At
<1>2. GateTypeOK /\ reqs[q] \in Deletes
  BY Zenon, <1>1, DeleteFacts
<1>3. Knows(NoRequest, Held, Claimed)
  BY Zenon DEF Knows, NoRequest
<1>4. CASE DeleteSpend(q)
  <2>1. PICK holders : holders = {d \in IF reqs[q].device \in Purgers THEN Devices ELSE {reqs[q].device} :
                                    <<d, reqs[q].hash>> \in claims}
    BY Zenon
  <2>2. holders \in SUBSET Devices
    BY Zenon, <1>2, <2>1 DEF Deletes
  <2>3. PICK n : n = [reqs[q] EXCEPT !.holders = holders, !.at = "delete"]
    BY Zenon
  <2>4. n \in Deletes /\ n.kind = "delete" /\ n.at = "delete"
    BY Zenon, <1>2, <2>2, <2>3 DEF Deletes
  <2>5. Knows(n, Held, Claimed)
    BY Zenon, <2>4 DEF Knows
  <2>6. reqs' = [reqs EXCEPT ![q] = n] \/ reqs' = [reqs EXCEPT ![q] = NoRequest]
    BY Zenon, <1>2, <1>4, <2>1, <2>3 DEF DeleteSpend, GateTypeOK
  <2>7. /\ UNCHANGED <<claims, others, holdings, reserved, history, bounds>>
        /\ spent' \subseteq Tokens
    BY Zenon, <1>2, <1>4 DEF DeleteSpend, GateTypeOK, Deletes
  <2> QED
    BY Zenon, <1>1, <1>3, <2>4, <2>5, <2>6, <2>7, DeleteMoves
<1>5. CASE DeleteStill(q)
  <2>1. PICK n : n = [reqs[q] EXCEPT !.at = "remove"]
    BY Zenon
  <2>2. n \in Deletes /\ n.kind = "delete" /\ n.hash = reqs[q].hash
    BY Zenon, <1>2, <2>1 DEF Deletes
  <2>3. \/ reqs' = [reqs EXCEPT ![q] = n] /\ reqs[q].hash \notin Claimed
        \/ reqs' = [reqs EXCEPT ![q] = NoRequest]
    BY Zenon, <1>2, <1>5, <2>1 DEF DeleteStill, GateTypeOK
  <2>4. reqs[q].hash \notin Claimed => Knows(n, Held, Claimed)
    BY Zenon, <2>2 DEF Knows
  <2>5. /\ UNCHANGED <<claims, others, holdings, reserved, history, bounds>>
        /\ spent' \subseteq Tokens
    BY Zenon, <1>2, <1>5 DEF DeleteStill, GateTypeOK, store
  <2> QED
    BY Zenon, <1>1, <1>3, <2>2, <2>3, <2>4, <2>5, DeleteMoves
<1> QED
  BY <1>4, <1>5

\* One claim after another is removed.
LEMMA DeleteClaimStep ==
    ASSUME Assumptions, IInv, NEW q \in Requests, NEW d \in Devices, DeleteClaim(q, d)
    PROVE  IInv'
<1>1. reqs[q].kind = "delete" /\ reqs[q].kind # "upload"
  BY Zenon DEF DeleteClaim, At
<1>2. /\ GateTypeOK /\ GateNoneAssumption /\ reqs[q] \in Deletes /\ reqs[q] # NoRequest /\ reserved \in Nat
      /\ Held \in SUBSET Hashes /\ Held # None /\ Held \subseteq Shown /\ Total(Held) \in Nat
      /\ NeedOf(reqs[q]) = 0 /\ DueOf(reqs[q]) = 0
      /\ \A c : ~Pending(reqs[q], c) /\ ~Adds(reqs[q], c)
  BY Zenon, <1>1, DeleteFacts
<1>3. PICK n : n = [reqs[q] EXCEPT !.holders = reqs[q].holders \ {d},
                                  !.at = IF reqs[q].holders = {d} THEN "still" ELSE "delete"]
  BY Zenon
<1>4. n \in Deletes /\ n \in Op /\ n.kind = "delete" /\ n.at \in {"still", "delete"}
  BY Zenon, <1>2, <1>3 DEF Deletes, Op
<1>5. /\ reqs' = [reqs EXCEPT ![q] = n] /\ claims' \subseteq claims /\ kept' \subseteq kept
      /\ UNCHANGED <<others, spent, holdings, reserved, proved, leaked, alone, stayed, crashes, arrived>>
  BY Zenon, <1>2, <1>3 DEF DeleteClaim, GateTypeOK, bounds
<1>6. Claimed' \subseteq Claimed /\ Shown' = Shown
  BY Zenon, <1>5 DEF Claimed, Shown
<1>7. /\ holdings = None => Held' = Claimed' /\ Held = Claimed
      /\ holdings # None => Held' = holdings /\ Held = holdings
  BY Zenon, <1>5 DEF Held
<1>8. Held' \in SUBSET Held
  BY Zenon, <1>6, <1>7
<1>9. NeedOf(n) = 0 /\ DueOf(n) = 0 /\ Informed(n, Shown') /\ Priced(n, stayed) /\ Early(n)
  BY Zenon, <1>4 DEF NeedOf, DueOf, Informed, Priced, Early
<1>10. Knows(n, Held', Claimed')
  BY Zenon, <1>4 DEF Knows
<1>11. Total(Held') + DueOf(n) <= Total(Held) + DueOf(reqs[q])
  BY <1>2, <1>8, <1>9, TotalPart DEF Assumptions
<1>12. \A c \in claims' : \/ c \in claims /\ c[2] \notin Held /\ ~Adds(reqs[q], c)
                          \/ c[2] \in Held' \/ Adds(n, c)
  <2> TAKE c \in claims'
  <2>1. c[2] \in Claimed' /\ c \in claims
    BY Zenon, <1>5 DEF Claimed
  <2> QED
    BY Zenon, <1>2, <1>7, <2>1
<1>13. /\ claims' \subseteq Devices \X Hashes /\ kept' \subseteq Devices \X Hashes
       /\ spent' \subseteq Tokens /\ holdings' \in {None} \cup SUBSET Hashes
       /\ proved \subseteq proved' /\ proved' \subseteq Hashes
  BY Zenon, <1>2, <1>5 DEF GateTypeOK
<1>14. reserved' \in Int /\ reserved' + NeedOf(reqs[q]) = reserved + NeedOf(n)
  BY <1>2, <1>5, <1>9
<1>15. /\ holdings' = None => holdings = None
       /\ holdings' # None => holdings' \subseteq Shown'
       /\ n.kind = reqs[q].kind
  BY Zenon, <1>1, <1>2, <1>4, <1>5, <1>6, <1>7
<1> HIDE DEF NoRequest
<1> QED
  BY Zenon, <1>1, <1>2, <1>4, <1>5, <1>9, <1>10, <1>11, <1>12, <1>13, <1>14, <1>15, Steps

\* The blob that no key of the group claims any more leaves the holdings.
LEMMA DeleteRemoveStep ==
    ASSUME Assumptions, IInv, NEW q \in Requests, DeleteRemove(q)
    PROVE  IInv'
<1>1. reqs[q].kind = "delete" /\ reqs[q].kind # "upload" /\ reqs[q].at = "remove"
  BY Zenon DEF DeleteRemove, At
<1>2. /\ GateTypeOK /\ reqs[q] # NoRequest
      /\ Held \in SUBSET Hashes /\ Held \subseteq Shown
      /\ alone => Knows(reqs[q], Held, Claimed)
      /\ \A c : ~Pending(reqs[q], c) /\ ~Adds(reqs[q], c)
  BY Zenon, <1>1, DeleteFacts
<1>3. /\ reqs' = [reqs EXCEPT ![q] = NoRequest] /\ holdings' = Held \ {reqs[q].hash} /\ claims' = claims
      /\ kept' \subseteq Devices \X Hashes
      /\ UNCHANGED <<others, spent, reserved, proved, leaked, alone, stayed, crashes, arrived>>
  BY Zenon, <1>1, <1>2 DEF DeleteRemove, End, GateTypeOK, store, history, bounds
<1>4. alone => \A c \in claims : c[2] # reqs[q].hash
  BY Zenon, <1>1, <1>2 DEF Knows, Claimed
<1>5. holdings' \in SUBSET Held
  BY Zenon, <1>3
<1>6. Total(holdings') <= Total(Held)
  BY Zenon, <1>2, <1>5, TotalPart DEF Assumptions
<1> HIDE DEF NoRequest
<1> QED
  BY Zenon, <1>1, <1>2, <1>3, <1>4, <1>5, <1>6, Verdicts

-----------------------------------------------------------------------------
(* Hang-ups, arrivals, others and crashes.                                   *)

\* A client hangs up: the reservation goes, and the request goes or its task goes on.
LEMMA HangUpStep ==
    ASSUME Assumptions, IInv, NEW q \in Requests, HangUp(q)
    PROVE  IInv'
<1>1. reqs[q].kind = "upload" /\ reqs[q].at \notin {"held", "reserve", "finish"}
  BY Zenon DEF HangUp
<1>2. /\ GateTypeOK /\ reqs[q] \in Uploads /\ reqs[q] \in Op /\ reqs[q] # NoRequest /\ reserved \in Nat
      /\ reqs[q].need \in Nat /\ holdings # None
      /\ Informed(reqs[q], Shown) /\ Priced(reqs[q], stayed)
      /\ alone => Knows(reqs[q], Held, Claimed)
  BY Zenon, <1>1, UploadFacts
<1>3. /\ reserved' = reserved - reqs[q].need /\ stayed' = FALSE
      /\ UNCHANGED <<claims, others, spent, holdings, proved, leaked, kept, alone, crashes, arrived>>
      /\ spent' \subseteq Tokens /\ kept' \subseteq Devices \X Hashes
      /\ proved \subseteq proved' /\ proved' \subseteq Hashes
  BY Zenon, <1>2 DEF HangUp, store, bounds, GateTypeOK
<1>4. NeedOf(reqs[q]) = reqs[q].need /\ DueOf(reqs[q]) = reqs[q].need
  BY Zenon, <1>1 DEF NeedOf, DueOf
<1>5. CASE reqs[q].at \in {"exists", "prove", "begin", "body"} /\ reqs' = [reqs EXCEPT ![q] = NoRequest]
  <2>1. \A c : ~Pending(reqs[q], c) /\ ~Adds(reqs[q], c)
    BY Zenon, <1>1, <1>5 DEF Pending, Adds
  <2> HIDE DEF NoRequest
  <2> QED
    BY Zenon, <1>2, <1>3, <1>4, <1>5, <2>1, Ends
<1>6. CASE reqs' = [reqs EXCEPT ![q].need = 0, ![q].gone = TRUE]
  <2>1. PICK n : n = [reqs[q] EXCEPT !.need = 0, !.gone = TRUE]
    BY Zenon
  <2>2. reqs' = [reqs EXCEPT ![q] = n]
    BY Zenon, <1>2, <1>6, <2>1 DEF GateTypeOK
  <2>3. /\ n \in Uploads /\ n \in Op /\ n.kind = "upload" /\ n.at = reqs[q].at
        /\ n.hash = reqs[q].hash /\ n.device = reqs[q].device /\ n.held = reqs[q].held
        /\ n.proven = reqs[q].proven /\ n.need = 0 /\ n.gone
    BY Zenon, <1>2, <2>1 DEF Uploads, Op
  <2>4. NeedOf(n) = 0 /\ DueOf(n) = 0
    BY Zenon, <2>3 DEF NeedOf, DueOf
  <2>5. Informed(n, Shown')
    BY Zenon, <1>1, <1>2, <1>3, <2>3 DEF Informed, Shown
  <2>6. Priced(n, stayed')
    BY Zenon, <1>1, <1>3, <2>3 DEF Priced
  <2>7. alone => Knows(n, Held, Claimed)
    BY Zenon, <1>1, <1>2, <2>3 DEF Knows
  <2>8. \A c : (Pending(reqs[q], c) => Pending(n, c)) /\ (Adds(reqs[q], c) => Adds(n, c))
    BY Zenon, <1>1, <2>3 DEF Pending, Adds
  <2>9. /\ reserved' \in Int /\ reserved' + NeedOf(reqs[q]) = reserved + NeedOf(n)
        /\ DueOf(n) <= DueOf(reqs[q]) /\ n.kind = reqs[q].kind
    BY <1>1, <1>2, <1>3, <1>4, <2>3, <2>4
  <2> HIDE DEF NoRequest
  <2> QED
    BY Zenon, <1>2, <1>3, <2>2, <2>3, <2>5, <2>6, <2>7, <2>8, <2>9, Moves
<1> QED
  BY Zenon, <1>5, <1>6 DEF HangUp

\* A request arrives, and has done nothing yet.
LEMMA Arrives ==
    ASSUME Assumptions, IInv, NEW q \in Requests, NEW n \in Op, Arrive(q, n.kind),
           reqs' = [reqs EXCEPT ![q] = n], NeedOf(n) = 0, DueOf(n) = 0, n.kind # "none", Early(n),
           Informed(n, Shown), Priced(n, stayed), Knows(n, Held, Claimed),
           \A c : ~Pending(n, c) /\ ~Adds(n, c)
    PROVE  IInv'
<1>1. GateTypeOK /\ reqs \in [Requests -> Op] /\ GateNoneAssumption /\ reserved \in Nat
  BY Zenon DEF IInv, GateTypeOK, Op, Assumptions
<1>2. Changes(q) /\ reqs'[q] = n /\ reqs[q] = NoRequest
  BY Zenon, <1>1 DEF Changes, Arrive
<1>3. /\ UNCHANGED <<claims, others, spent, holdings, reserved, proved, leaked, kept, stayed, crashes>>
      /\ arrived < MaxArrived /\ arrived' = arrived + 1
      /\ alone' \in BOOLEAN /\ (alone' => alone)
  BY Zenon, <1>1 DEF Arrive, store, GateTypeOK
<1>4. Held' = Held /\ Claimed' = Claimed /\ Shown' = Shown
  BY Zenon, <1>3 DEF Held, Claimed, Shown
<1>5. NeedOf(NoRequest) = 0 /\ DueOf(NoRequest) = 0 /\ \A c : ~Pending(NoRequest, c) /\ ~Adds(NoRequest, c)
  BY Zenon DEF NeedOf, DueOf, NoRequest, Pending, Adds
<1>6. Reserving' /\ reserved' \in Nat
  <2>1. reserved' \in Int /\ reserved' + NeedOf(reqs[q]) = reserved + NeedOf(reqs'[q])
    BY <1>1, <1>2, <1>3, <1>5
  <2> QED
    BY Zenon, <1>2, <1>3, <2>1, ReservingStep
<1>7. GateTypeOK'
  <2>1. arrived' \in 0 .. MaxArrived
    BY <1>1, <1>3 DEF GateTypeOK, Assumptions, GateBoundAssumption
  <2> QED
    BY Zenon, <1>1, <1>2, <1>3, <2>1 DEF GateTypeOK, Op, Changes
<1>8. Evident'
  <2>1. holdings' # None => holdings' \subseteq Shown'
    BY Zenon, <1>3, <1>4 DEF IInv, Evident, ProvenReads, Shown
  <2> QED
    BY Zenon, <1>2, <1>3, <1>4, <1>5, <2>1, EvidentStep
<1>9. ASSUME alone' PROVE Covering'
  <2>1. Covering /\ \A p \in Requests : reqs[p] # NoRequest => {reqs[p].kind, n.kind} = {"upload"}
    BY Zenon, <1>3, <1>9 DEF IInv, Arrive, InFlight
  <2>2. Exclusive'
    BY <1>2, <2>1 DEF Covering, Exclusive, Changes
  <2>3. \A c \in claims' : c[2] \in Held' \/ \E p \in Requests : Adds(reqs'[p], c)
    BY Zenon, <1>2, <1>3, <1>4, <1>5, <2>1 DEF Covering, Changes
  <2>4. \A p \in Requests : Knows(reqs'[p], Held', Claimed')
    BY Zenon, <1>2, <1>4, <2>1 DEF Covering, Changes
  <2> QED
    BY Zenon, <2>2, <2>3, <2>4 DEF Covering
<1>10. ASSUME alone', stayed' PROVE Budget'
  <2>1. Total(Held) \in Nat
    BY Zenon, <1>1, HeldType, TotalIs DEF Assumptions
  <2>2. Total(Held') + DueOf(reqs'[q]) <= Total(Held) + DueOf(reqs[q])
    BY <1>2, <1>4, <1>5, <2>1
  <2> QED
    BY Zenon, <1>2, <1>3, <1>7, <1>10, <2>2, BudgetStep
<1> QED
  BY Zenon, <1>6, <1>7, <1>8, <1>9, <1>10 DEF IInv

\* ArriveUpload, ArriveMirror and ArriveDelete.
LEMMA ArrivesStep ==
    ASSUME Assumptions, IInv, NEW q \in Requests, NEW d \in Devices, NEW h \in Hashes,
           ArriveUpload(q, d, h) \/ ArriveMirror(q, d, h) \/ (\E t \in Tokens : ArriveDelete(q, t, d, h))
    PROVE  IInv'
<1>1. CASE ArriveUpload(q, d, h)
  <2>1. PICK n : n = [kind |-> "upload", device |-> d, hash |-> h, held |-> FALSE, proven |-> FALSE,
                      need |-> 0, gone |-> FALSE, at |-> "held"]
    BY Zenon
  <2>2. /\ n \in Op /\ n.kind = "upload" /\ n.at = "held" /\ n.held = FALSE /\ n.proven = FALSE
        /\ n.need = 0 /\ n.gone = FALSE
    BY Zenon, <2>1 DEF Op, Uploads
  <2>3. reqs' = [reqs EXCEPT ![q] = n] /\ Arrive(q, n.kind)
    BY Zenon, <1>1, <2>1, <2>2 DEF ArriveUpload
  <2>4. /\ NeedOf(n) = 0 /\ DueOf(n) = 0 /\ Early(n) /\ Informed(n, Shown) /\ Priced(n, stayed)
        /\ Knows(n, Held, Claimed) /\ n.kind # "none"
        /\ \A c : ~Pending(n, c) /\ ~Adds(n, c)
    BY Zenon, <2>2 DEF NeedOf, DueOf, Early, Informed, Priced, Knows, Pending, Adds
  <2> QED
    BY Zenon, <2>2, <2>3, <2>4, Arrives
<1>2. CASE ArriveMirror(q, d, h)
  <2>1. PICK n : n = [kind |-> "mirror", device |-> d, hash |-> h, held |-> FALSE, reserved |-> 0,
                      existing |-> FALSE, at |-> "reserved"]
    BY Zenon
  <2>2. /\ n \in Op /\ n.kind = "mirror" /\ n.at = "reserved" /\ n.held = FALSE /\ n.reserved = 0
    BY Zenon, <2>1 DEF Op, Mirrors
  <2>3. reqs' = [reqs EXCEPT ![q] = n] /\ Arrive(q, n.kind)
    BY Zenon, <1>2, <2>1, <2>2 DEF ArriveMirror
  <2>4. /\ NeedOf(n) = 0 /\ DueOf(n) = 0 /\ Early(n) /\ Informed(n, Shown) /\ Priced(n, stayed)
        /\ Knows(n, Held, Claimed) /\ n.kind # "none"
        /\ \A c : ~Pending(n, c) /\ ~Adds(n, c)
    BY Zenon, <2>2 DEF NeedOf, DueOf, Early, Informed, Priced, Knows, Pending, Adds
  <2> QED
    BY Zenon, <2>2, <2>3, <2>4, Arrives
<1>3. ASSUME NEW t \in Tokens, ArriveDelete(q, t, d, h) PROVE IInv'
  <2>1. PICK n : n = [kind |-> "delete", device |-> d, hash |-> h, token |-> t, holders |-> {},
                      at |-> "spend"]
    BY Zenon
  <2>2. n \in Op /\ n.kind = "delete" /\ n.at = "spend"
    BY Zenon, <2>1 DEF Op, Deletes
  <2>3. reqs' = [reqs EXCEPT ![q] = n] /\ Arrive(q, n.kind)
    BY Zenon, <1>3, <2>1, <2>2 DEF ArriveDelete
  <2>4. /\ NeedOf(n) = 0 /\ DueOf(n) = 0 /\ Early(n) /\ Informed(n, Shown) /\ Priced(n, stayed)
        /\ Knows(n, Held, Claimed) /\ n.kind # "none"
        /\ \A c : ~Pending(n, c) /\ ~Adds(n, c)
    BY Zenon, <2>2 DEF NeedOf, DueOf, Early, Informed, Priced, Knows, Pending, Adds
  <2> QED
    BY Zenon, <2>2, <2>3, <2>4, Arrives
<1> QED
  BY Zenon, <1>1, <1>2, <1>3

\* A step that leaves the group alone.
LEMMA Apart ==
    ASSUME IInv, UNCHANGED <<claims, spent, holdings, reserved, reqs, history, bounds>>,
           others' \subseteq Hashes
    PROVE  IInv'
<1> USE DEF history, bounds
<1>1. GateTypeOK'
  BY Zenon DEF IInv, GateTypeOK
<1>2. Held' = Held /\ Claimed' = Claimed /\ Shown' = Shown
  BY Zenon DEF Held, Claimed, Shown
<1>3. Evident'
  BY Zenon, <1>2 DEF IInv, Evident, ProvenReads
<1>4. Sum(Needs, Requests)' = Sum(Needs, Requests) /\ Sum(Due, Requests)' = Sum(Due, Requests)
  BY DEF Sum, MapThenSumSet, MapThenFoldSet, Needs, Due
<1>5. Reserving'
  BY Zenon, <1>4 DEF IInv, Reserving
<1>6. ASSUME alone PROVE Covering'
  <2>1. Covering
    BY Zenon, <1>6 DEF IInv
  <2>2. Exclusive'
    BY Zenon, <2>1 DEF Covering, Exclusive
  <2>3. \A c \in claims' : c[2] \in Held' \/ \E q \in Requests : Adds(reqs'[q], c)
    BY Zenon, <1>2, <2>1 DEF Covering
  <2>4. \A q \in Requests : Knows(reqs'[q], Held', Claimed')
    BY Zenon, <1>2, <2>1 DEF Covering
  <2> QED
    BY Zenon, <2>2, <2>3, <2>4 DEF Covering
<1>7. Total(Held)' = Total(Held)
  BY Zenon, <1>2 DEF Total, MapThenSumSet, MapThenFoldSet
<1>8. alone' /\ stayed' => Budget'
  BY Zenon, <1>4, <1>7 DEF IInv, Budget
<1> QED
  BY Zenon, <1>1, <1>3, <1>5, <1>6, <1>8 DEF IInv

\* What the group claims, and not only what it is known to hold, fits the ceiling:
\* a claim that is not among the holdings yet is due to an upload.
LEMMA ClaimedFits ==
    ASSUME Assumptions, IInv, alone, stayed, \A q \in Requests : ~At(q, "mirror", "verdict")
    PROVE  Total(Claimed) <= Ceiling /\ Total(Claimed) \in Nat
<1>1. GateTypeOK /\ reqs \in [Requests -> Op] /\ GateNoneAssumption /\ IsFiniteSet(Requests) /\ Ceiling \in Nat
  BY Zenon DEF IInv, GateTypeOK, Op, Assumptions, FiniteAssumption, CeilingAssumption
<1>2. Held \in SUBSET Hashes /\ Claimed \in SUBSET Hashes
  BY Zenon, <1>1, HeldType
<1>3. PICK R : R = {q \in Requests : reqs[q].kind = "upload" /\ reqs[q].at \in {"takeBack", "insert"}}
  BY Zenon
<1>4. R \in SUBSET Requests /\ IsFiniteSet(R)
  BY Zenon, <1>1, <1>3, FS_Subset
<1>5. \A q \in R : /\ reqs[q] \in Uploads /\ reqs[q].hash \in Hashes /\ reqs[q].need \in Nat
                   /\ Due[q] = reqs[q].need
  BY Zenon, <1>1, <1>3, <1>4, OpShape DEF Uploads, Due, DueOf
<1>6. PICK w \in [R -> Nat], blob \in [R -> Hashes] :
        \A q \in R : w[q] = reqs[q].need /\ w[q] = Due[q] /\ blob[q] = reqs[q].hash
  <2>1. [q \in R |-> reqs[q].need] \in [R -> Nat] /\ [q \in R |-> reqs[q].hash] \in [R -> Hashes]
    BY Zenon, <1>5
  <2> QED
    BY Zenon, <1>5, <2>1
<1>7. \A q \in R : blob[q] \in Held \/ Size(blob[q]) <= w[q]
  <2> TAKE q \in R
  <2>1. Knows(reqs[q], Held, Claimed) /\ Priced(reqs[q], stayed)
    BY Zenon, <1>4 DEF IInv, Covering, Reserving
  <2>2. CASE reqs[q].held
    BY Zenon, <1>3, <1>6, <2>1, <2>2 DEF Knows
  <2>3. CASE ~reqs[q].held
    <3>1. w[q] = Size(blob[q]) /\ w[q] \in Nat
      BY Zenon, <1>3, <1>6, <2>1, <2>3 DEF Priced
    <3> QED
      BY <3>1
  <2> QED
    BY Zenon, <2>2, <2>3
<1>8. PICK All : All = Held \cup {blob[q] : q \in R}
  BY Zenon
<1>9. Total(All) <= Total(Held) + Sum(w, R)
  BY Zenon, <1>2, <1>4, <1>7, <1>8, Paid DEF Assumptions
<1>10. Claimed \in SUBSET All /\ All \in SUBSET Hashes
  <2>1. ASSUME NEW c \in claims PROVE c[2] \in All
    <3>1. c[2] \in Held \/ \E q \in Requests : Adds(reqs[q], c)
      BY Zenon DEF IInv, Covering
    <3>2. ASSUME NEW q \in Requests, Adds(reqs[q], c) PROVE q \in R /\ c[2] = reqs[q].hash
      BY <1>3, <3>2 DEF Adds, Pending, At
    <3> QED
      BY <1>6, <1>8, <3>1, <3>2
  <2>2. All \in SUBSET Hashes
    BY Zenon, <1>2, <1>6, <1>8
  <2> QED
    BY Zenon, <2>1, <2>2 DEF Claimed
<1>11. Total(Claimed) \in Nat /\ Total(All) \in Nat /\ Total(Claimed) <= Total(All)
  BY Zenon, <1>10, TotalPart DEF Assumptions
<1>12. Sum(w, R) <= Sum(Due, Requests) /\ Sum(w, R) \in Nat /\ Sum(Due, Requests) \in Nat
  <2>1. \A q \in Requests : Due[q] \in Nat
    BY Zenon, <1>1, NeedType DEF Due
  <2>2. Sum(Due, R) <= Sum(Due, Requests)
    BY Zenon, <1>1, <1>4, <2>1, SumPart
  <2>3. Sum(w, R) \in Nat /\ Sum(w, R) = Sum(Due, R)
    BY Zenon, <1>4, <1>6, SumSame
  <2> QED
    BY Zenon, <2>2, <2>3, DueReserved
<1>13. Total(Held) + Sum(Due, Requests) <= Ceiling /\ Total(Held) \in Nat
  BY Zenon, <1>2, TotalIs DEF IInv, Budget, Assumptions
<1> QED
  BY <1>1, <1>9, <1>11, <1>12, <1>13

\* The node dies: the holdings are built again from the claims.
LEMMA CrashStep ==
    ASSUME Assumptions, IInv, Crash
    PROVE  IInv'
<1>1. GateTypeOK /\ reqs \in [Requests -> Op] /\ GateNoneAssumption /\ IsFiniteSet(Requests)
  BY Zenon DEF IInv, GateTypeOK, Op, Assumptions, FiniteAssumption
<1>2. /\ crashes < MaxCrashes /\ crashes' = crashes + 1 /\ holdings' = None /\ reserved' = 0
      /\ reqs' = [q \in Requests |-> NoRequest]
      /\ UNCHANGED <<claims, others, spent, proved, kept, stayed, arrived>>
      /\ alone' \in BOOLEAN /\ (alone' => alone)
      /\ alone' => \A q \in Requests : reqs[q] # NoRequest => reqs[q].kind = "upload"
  BY Zenon, <1>1 DEF Crash, store, GateTypeOK, InFlight
<1>3. \A q \in Requests : reqs'[q] = NoRequest
  BY Zenon, <1>2
<1>4. leaked \subseteq leaked' /\ leaked' \subseteq Devices \X Hashes
  <2>1. \A q \in Requests : At(q, "upload", "takeBack") \/ At(q, "mirror", "verdict")
            => reqs[q].device \in Devices /\ reqs[q].hash \in Hashes
    BY Zenon, <1>1, OpShape DEF At, Uploads, Mirrors
  <2> QED
    BY <1>1, <2>1 DEF Crash, GateTypeOK
<1>5. GateTypeOK'
  <2>1. crashes' \in 0 .. MaxCrashes
    BY <1>1, <1>2 DEF GateTypeOK, Assumptions, GateBoundAssumption
  <2> QED
    BY Zenon, <1>1, <1>2, <1>4, <2>1 DEF GateTypeOK
<1>6. /\ Early(NoRequest) /\ \A s : Informed(NoRequest, s) /\ Priced(NoRequest, s)
      /\ NeedOf(NoRequest) = 0 /\ DueOf(NoRequest) = 0 /\ Knows(NoRequest, Held', Claimed')
  BY Zenon DEF Early, Informed, Priced, NeedOf, DueOf, NoRequest, Knows
<1>7. Evident'
  <2>1. ASSUME NEW c \in claims PROVE c[2] \in Shown'
    <3>1. c[2] \in Shown => c[2] \in Shown'
      BY <1>2, <1>4 DEF Shown
    <3>2. ASSUME NEW q \in Requests, Pending(reqs[q], c) PROVE c \in leaked'
      BY Zenon, <3>2 DEF Pending, At, Crash
    <3> QED
      BY Zenon, <3>1, <3>2 DEF IInv, Evident, Shown
  <2> QED
    BY Zenon, <1>2, <1>3, <1>6, <2>1 DEF Evident, ProvenReads
<1>8. Sum(Needs, Requests)' = 0 /\ Sum(Due, Requests)' = 0
  <2>1. PICK e : e = Needs'
    BY Zenon
  <2>2. PICK g : g = Due'
    OBVIOUS
  <2>3. \A q \in Requests : e[q] = 0 /\ g[q] = 0
    BY Zenon, <1>3, <1>6, <2>1, <2>2 DEF Needs, Due
  <2>4. Sum(e, Requests) = 0 /\ Sum(g, Requests) = 0
    BY Zenon, <1>1, <2>3, SumZero
  <2> QED
    BY <2>1, <2>2, <2>4 DEF Sum, MapThenSumSet, MapThenFoldSet
<1>9. Reserving'
  BY Zenon, <1>2, <1>3, <1>6, <1>8 DEF Reserving
<1>10. Held' = Claimed /\ Claimed' = Claimed
  BY Zenon, <1>2 DEF Held, Claimed
<1>11. Covering'
  <2>1. \A c \in claims' : c[2] \in Held'
    BY Zenon, <1>2, <1>10 DEF Claimed
  <2> QED
    BY Zenon, <1>3, <1>6, <2>1 DEF Covering, Exclusive
<1>12. ASSUME alone', stayed' PROVE Budget'
  <2>1. \A q \in Requests : ~At(q, "mirror", "verdict")
    BY <1>2, <1>12 DEF At, NoRequest
  <2>2. Total(Claimed) <= Ceiling /\ Total(Claimed) \in Nat
    BY Zenon, <1>2, <1>12, <2>1, ClaimedFits
  <2>3. Total(Held)' = Total(Claimed)
    BY Zenon, <1>10 DEF Total, MapThenSumSet, MapThenFoldSet
  <2> QED
    BY <1>8, <2>2, <2>3 DEF Budget
<1> QED
  BY Zenon, <1>5, <1>7, <1>9, <1>11, <1>12 DEF IInv

\* A group that has done nothing yet.
LEMMA InitStep ==
    ASSUME Assumptions, GateInit
    PROVE  IInv
<1>1. IsFiniteSet(Requests) /\ Ceiling \in Nat /\ {} \in SUBSET Hashes
  BY Zenon DEF Assumptions, FiniteAssumption, CeilingAssumption
<1>2. \A q \in Requests : reqs[q] = NoRequest
  BY Zenon DEF GateInit
<1>3. GateTypeOK
  BY DEF GateInit, GateTypeOK, Assumptions, GateBoundAssumption
<1>4. /\ Early(NoRequest) /\ \A s : Informed(NoRequest, s) /\ Priced(NoRequest, s)
      /\ NeedOf(NoRequest) = 0 /\ DueOf(NoRequest) = 0 /\ Knows(NoRequest, Held, Claimed)
  BY Zenon DEF Early, Informed, Priced, NeedOf, DueOf, NoRequest, Knows
<1>5. Sum(Needs, Requests) = 0 /\ Sum(Due, Requests) = 0
  <2>1. \A q \in Requests : Needs[q] = 0 /\ Due[q] = 0
    BY Zenon, <1>2, <1>4 DEF Needs, Due
  <2> QED
    BY Zenon, <1>1, <2>1, SumZero
<1>6. Evident /\ Reserving /\ Covering
  BY Zenon, <1>2, <1>4, <1>5 DEF GateInit, Evident, ProvenReads, Reserving, Covering, Exclusive
<1>7. Budget
  <2>1. Held = {}
    BY Zenon DEF GateInit, Held, Claimed
  <2>2. Total({}) = 0
    BY Zenon, <1>1, TotalIs, SumNone DEF Assumptions
  <2> QED
    BY <1>1, <1>5, <2>1, <2>2 DEF Budget
<1> QED
  BY Zenon, <1>3, <1>6, <1>7 DEF IInv

-----------------------------------------------------------------------------
(* The theorems.                                                             *)

\* Every step keeps the invariant.
LEMMA NextStep ==
    ASSUME Assumptions, IInv, [GateNext]_gateVars
    PROVE  IInv'
<1>1. CASE UNCHANGED gateVars
  <2>1. others' \subseteq Hashes
    BY Zenon, <1>1 DEF IInv, GateTypeOK, gateVars, store
  <2> QED
    BY Zenon, <1>1, <2>1, Apart DEF gateVars, store
<1>2. CASE \E q \in Requests, d \in Devices, h \in Hashes :
            \/ ArriveUpload(q, d, h) \/ ArriveMirror(q, d, h)
            \/ \E t \in Tokens : ArriveDelete(q, t, d, h)
  BY Zenon, <1>2, ArrivesStep
<1>3. ASSUME NEW q \in Requests,
             \/ UploadHeld(q) \/ UploadReserve(q) \/ UploadFull(q) \/ UploadExists(q)
             \/ UploadProve(q) \/ BeginExisting(q) \/ TakeBack(q) \/ BeginReserved(q)
             \/ BodyCommit(q) \/ UploadInsert(q) \/ UploadFinish(q) \/ UploadRefused(q)
      PROVE  IInv'
  BY Zenon, <1>3, UploadHeldStep, UploadReserveStep, EndsStep, UploadMovesStep, UploadClaimsStep,
     TakeBackStep, UploadInsertStep
<1>4. ASSUME NEW q \in Requests,
             \/ MirrorReserved(q) \/ MirrorHeld(q) \/ MirrorExisting(q)
             \/ MirrorBegin(q) \/ MirrorCommit(q) \/ MirrorRefused(q) \/ MirrorVerdict(q)
      PROVE  IInv'
  BY Zenon, <1>4, MirrorMovesStep, MirrorClaimsStep, EndsStep, MirrorVerdictStep
<1>5. ASSUME NEW q \in Requests,
             \/ DeleteSpend(q) \/ (\E d \in Devices : DeleteClaim(q, d))
             \/ DeleteFails(q) \/ DeleteStill(q) \/ DeleteRemove(q) \/ HangUp(q)
      PROVE  IInv'
  BY Zenon, <1>5, DeleteMovesStep, DeleteClaimStep, EndsStep, DeleteRemoveStep, HangUpStep
<1>6. CASE \E h \in Hashes : OthersClaim(h) \/ OthersDelete(h)
  <2>1. /\ others' \subseteq Hashes
        /\ UNCHANGED <<claims, spent, holdings, reserved, reqs, history, bounds>>
    BY Zenon, <1>6 DEF IInv, GateTypeOK, OthersClaim, OthersDelete
  <2> QED
    BY Zenon, <2>1, Apart
<1>7. CASE Crash
  BY Zenon, <1>7, CrashStep
<1> QED
  BY Zenon, <1>1, <1>2, <1>3, <1>4, <1>5, <1>6, <1>7 DEF GateNext

\* The invariant holds throughout, for any devices, blobs, sizes, ceiling and
\* concurrent requests.
THEOREM Invariance == GateSpec => []IInv
<1>1. GateInit => IInv
  BY Zenon, GateAssumptions, InitStep
<1>2. IInv /\ [GateNext]_gateVars => IInv'
  BY Zenon, GateAssumptions, NextStep
<1> QED
  BY <1>1, <1>2, PTL DEF GateSpec

\* Every variable keeps its type; reserved bytes are never given back twice.
THEOREM Typed == GateSpec => []GateTypeOK
<1>1. IInv => GateTypeOK
  BY Zenon DEF IInv
<1> QED
  BY <1>1, Invariance, PTL

\* What the group may read it has shown it has, and what it claims is served and
\* counted once its requests have ended (Holdings).
THEOREM HoldingsAreRight == GateSpec => []HoldingsRight
<1>1. IInv => HoldingsRight
  <2> SUFFICES ASSUME IInv PROVE ProvenReads /\ HoldingsCover
    BY Zenon DEF HoldingsRight
  <2>1. ProvenReads
    BY Zenon DEF IInv, Evident
  <2>2. ASSUME alone, InFlight = {} PROVE Claimed \subseteq Held
    <3>1. \A q \in Requests, c \in claims : ~Adds(reqs[q], c)
      BY <2>2 DEF InFlight, Adds, Pending, NoRequest
    <3> QED
      BY Zenon, <2>2, <3>1 DEF IInv, Covering, Claimed
  <2> QED
    BY Zenon, <2>1, <2>2 DEF HoldingsCover
<1> QED
  BY <1>1, Invariance, PTL

\* The claims of the group stay within its ceiling, however its uploads interleave
\* and wherever the node crashes (reserve_group_bytes).
THEOREM WithinCeiling == GateSpec => []CeilingHolds
<1>1. IInv => CeilingHolds
  BY Zenon, GateAssumptions, ClaimedFits DEF CeilingHolds
<1> QED
  BY <1>1, Invariance, PTL
=============================================================================
