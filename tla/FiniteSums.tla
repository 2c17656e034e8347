------------------------------ MODULE FiniteSums ------------------------------
(***************************************************************************)
(* Facts about SumFunctionOnSet of module Functions, with which the ledger *)
(* of the swaps is stated.  The induction theorems of the library take an  *)
(* operator as a parameter, which the provers cannot instantiate: here an  *)
(* induction looks at a smallest set for which a fact fails, and finds that *)
(* there is none.                                                          *)
(***************************************************************************)
EXTENDS Functions, FiniteSetTheorems, TLAPS

\* The element that SumFunctionOnSet adds next.
Pick(s) == CHOOSE x \in s : TRUE

\* g is the function by which SumFunctionOnSet defines the sum over S.
Accumulates(g, f, S) ==
    g = [s \in SUBSET S |-> IF s = {} THEN 0 ELSE f[Pick(s)] + g[s \ {Pick(s)}]]

-------------------------------------------------------------------------------

(* Among sets of elements of a finite set there is a smallest one. *)
LEMMA SmallestSet ==
    ASSUME NEW S, IsFiniteSet(S), NEW F, F \subseteq SUBSET S, F # {}
    PROVE  \E X \in F : \A Y \in F : Y \subseteq X => Y = X
<1>1. IsWellFoundedOn(StrictSubsetOrdering(S), SUBSET S)
  BY FS_StrictSubsetOrderingWellFounded, FS_FiniteSubsetsOfFinite
<1>2. PICK X \in F : \A Y \in F : ~ (<<Y, X>> \in StrictSubsetOrdering(S))
  BY <1>1, WFMin
<1>3. \A Y \in F : Y \subseteq X => Y = X
  BY <1>2 DEF StrictSubsetOrdering
<1> QED BY <1>3

(* Of numbers up to n there is a smallest. *)
LEMMA SmallestNumber ==
    ASSUME NEW n \in Nat, NEW B, B \subseteq 0 .. n, B # {}
    PROVE  \E k \in B : \A m \in B : k <= m
  <1> DEFINE N == 0 .. n
             F == {T \in SUBSET N : \E m \in B : T = 0 .. m}
  <1>1. \A m \in B : m \in Nat /\ m <= n /\ 0 .. m \in F  OBVIOUS
  <1>2. IsFiniteSet(N)  BY FS_Interval
  <1>3. F \subseteq SUBSET N /\ F # {}  BY <1>1
  <1>4. PICK X \in F : \A Y \in F : Y \subseteq X => Y = X
    <2> HIDE DEF F, N
    <2> QED  BY <1>2, <1>3, SmallestSet
  <1>5. PICK k \in B : X = 0 .. k  BY <1>4
  <1>6. ASSUME NEW m \in B, m < k PROVE FALSE
    <2>1. 0 .. m \in F /\ m \in Nat /\ k \in Nat  BY <1>1
    <2>2. 0 .. m \subseteq X  BY <1>5, <1>6, <2>1
    <2>3. 0 .. m = 0 .. k  BY <1>4, <1>5, <2>1, <2>2
    <2>4. k \in 0 .. m  BY <2>1, <2>3
    <2> QED  BY <1>6, <2>1, <2>4
  <1> QED  BY <1>1, <1>6

(* The element picked is in the set. *)
LEMMA PickIn ==
    ASSUME NEW s, s # {}
    PROVE  Pick(s) \in s
  BY DEF Pick

(* The function of a sum is unique. *)
LEMMA AccumulatesUnique ==
    ASSUME NEW S, IsFiniteSet(S), NEW f, NEW g, NEW h,
           Accumulates(g, f, S), Accumulates(h, f, S)
    PROVE  g = h
<1> DEFINE Bad == {s \in SUBSET S : g[s] # h[s]}
<1>1. Bad = {}
  <2> SUFFICES ASSUME Bad # {} PROVE FALSE
    OBVIOUS
  <2>1. PICK s \in Bad : \A t \in Bad : t \subseteq s => t = s
    <3>1. Bad \subseteq SUBSET S
      OBVIOUS
    <3> HIDE DEF Bad
    <3> QED BY <3>1, SmallestSet
  <2>2. s # {}
    BY DEF Accumulates
  <2>3. Pick(s) \in s
    BY <2>2, PickIn
  <2> DEFINE t == s \ {Pick(s)}
  <2>4. t \in SUBSET S /\ t \subseteq s /\ t # s
    BY <2>3
  <2>5. g[t] = h[t]
    BY <2>1, <2>4
  <2>6. g[s] = f[Pick(s)] + g[t] /\ h[s] = f[Pick(s)] + h[t]
    BY <2>2 DEF Accumulates
  <2> QED BY <2>5, <2>6
<1>2. \A s \in SUBSET S : g[s] = h[s]
  BY <1>1
<1> QED BY <1>2 DEF Accumulates

(* What accumulates over a set accumulates over its subsets. *)
LEMMA AccumulatesRestricted ==
    ASSUME NEW S, NEW T, T \subseteq S, NEW f, NEW g, Accumulates(g, f, S),
           NEW h, h = [s \in SUBSET T |-> g[s]]
    PROVE  Accumulates(h, f, T)
<1>1. ASSUME NEW s \in SUBSET T
      PROVE  h[s] = IF s = {} THEN 0 ELSE f[Pick(s)] + h[s \ {Pick(s)}]
  <2>1. s \in SUBSET S /\ s \ {Pick(s)} \in SUBSET T
    OBVIOUS
  <2>2. g[s] = IF s = {} THEN 0 ELSE f[Pick(s)] + g[s \ {Pick(s)}]
    BY <2>1 DEF Accumulates
  <2> QED BY <2>1, <2>2
<1> QED BY <1>1 DEF Accumulates

(* The function of a sum exists. *)
LEMMA AccumulatesExists ==
    ASSUME NEW S, IsFiniteSet(S), NEW f
    PROVE  \E g : Accumulates(g, f, S)
<1> DEFINE Bad == {T \in SUBSET S : ~ \E g : Accumulates(g, f, T)}
<1> SUFFICES ASSUME Bad # {} PROVE FALSE
  OBVIOUS
<1>1. PICK T \in Bad : \A U \in Bad : U \subseteq T => U = T
  <2>1. Bad \subseteq SUBSET S
    OBVIOUS
  <2> HIDE DEF Bad
  <2> QED BY <2>1, SmallestSet
<1> DEFINE G(U) == CHOOSE g : Accumulates(g, f, U)
           h == [s \in SUBSET T |->
                   IF s = {} THEN 0 ELSE f[Pick(s)] + G(s \ {Pick(s)})[s \ {Pick(s)}]]
<1>2. ASSUME NEW U, U \subseteq T, U # T
      PROVE  Accumulates(G(U), f, U)
  <2>1. U \notin Bad /\ U \in SUBSET S
    BY <1>1, <1>2
  <2>2. \E g : Accumulates(g, f, U)
    BY <2>1
  <2> HIDE DEF Bad
  <2> QED BY <2>2
<1>3. ASSUME NEW U, U \subseteq T, U # T
      PROVE  G(U)[U] = h[U]
  <2>1. Accumulates(G(U), f, U)
    BY <1>2, <1>3
  <2>2. CASE U = {}
    BY <2>1, <2>2 DEF Accumulates
  <2>3. CASE U # {}
    <3> DEFINE V == U \ {Pick(U)}
    <3>1. V \subseteq U /\ V # U /\ V \subseteq T /\ V # T
      BY <1>3, <2>3, PickIn
    <3>2. G(U)[U] = f[Pick(U)] + G(U)[V]
      BY <2>1, <2>3 DEF Accumulates
    <3>3. Accumulates([s \in SUBSET V |-> G(U)[s]], f, V)
      <4> DEFINE r == [s \in SUBSET V |-> G(U)[s]]
      <4> HIDE DEF V, G
      <4>1. r = [s \in SUBSET V |-> G(U)[s]]
        OBVIOUS
      <4> HIDE DEF r
      <4>2. V \subseteq U
        BY <3>1
      <4>3. Accumulates(r, f, V)
        BY ONLY <2>1, <4>1, <4>2, AccumulatesRestricted
      <4> QED BY <4>3 DEF r
    <3>4. Accumulates(G(V), f, V)
      BY <1>2, <3>1
    <3>5. IsFiniteSet(V)
      BY <1>1, <3>1, FS_Subset
    <3> HIDE DEF G
    <3>6. [s \in SUBSET V |-> G(U)[s]] = G(V)
      BY <3>3, <3>4, <3>5, AccumulatesUnique
    <3>7. G(U)[V] = G(V)[V]
      BY <3>6
    <3>8. h[U] = f[Pick(U)] + G(V)[V]
      BY <1>3, <2>3
    <3> QED BY <3>2, <3>7, <3>8
  <2> QED BY <2>2, <2>3
<1>4. ASSUME NEW s \in SUBSET T
      PROVE  h[s] = IF s = {} THEN 0 ELSE f[Pick(s)] + h[s \ {Pick(s)}]
  <2>1. CASE s = {}
    BY <2>1
  <2>2. CASE s # {}
    <3>1. s \ {Pick(s)} \subseteq T /\ s \ {Pick(s)} # T
      BY <2>2, PickIn
    <3>2. G(s \ {Pick(s)})[s \ {Pick(s)}] = h[s \ {Pick(s)}]
      BY <3>1, <1>3
    <3> HIDE DEF G
    <3> QED BY <3>2, <2>2
  <2> QED BY <2>1, <2>2
<1>5. Accumulates(h, f, T)
  <2> HIDE DEF G
  <2> QED BY <1>4 DEF Accumulates
<1>6. T \notin Bad
  <2> HIDE DEF h
  <2> QED BY <1>5
<1> QED BY <1>1, <1>6

(* One function gives the sums over a set and over all its subsets. *)
LEMMA SumUnfolds ==
    ASSUME NEW S, IsFiniteSet(S), NEW f
    PROVE  \E g : Accumulates(g, f, S) /\ \A T \in SUBSET S : SumFunctionOnSet(f, T) = g[T]
<1>1. ASSUME NEW T
      PROVE  SumFunctionOnSet(f, T) = (CHOOSE g : Accumulates(g, f, T))[T]
  BY DEF SumFunctionOnSet, FoldFunctionOnSet, MapThenFoldSet, Accumulates, Pick
<1>2. PICK g : Accumulates(g, f, S)
  BY AccumulatesExists
<1>3. ASSUME NEW T \in SUBSET S
      PROVE  SumFunctionOnSet(f, T) = g[T]
  <2> DEFINE h == CHOOSE k : Accumulates(k, f, T)
             r == [s \in SUBSET T |-> g[s]]
  <2>1. IsFiniteSet(T)
    BY FS_Subset
  <2>2. Accumulates(r, f, T)
    <3>1. r = [s \in SUBSET T |-> g[s]]
      OBVIOUS
    <3> HIDE DEF r
    <3> QED BY <1>2, <3>1, AccumulatesRestricted
  <2>3. Accumulates(h, f, T)
    <3> HIDE DEF r
    <3> QED BY <2>2
  <2>4. SumFunctionOnSet(f, T) = h[T]
    BY <1>1
  <2>5. h = r
    <3> HIDE DEF h, r
    <3> QED BY <2>1, <2>2, <2>3, AccumulatesUnique
  <2>6. h[T] = g[T]
    BY <2>5
  <2> QED BY <2>4, <2>6
<1> QED BY <1>2, <1>3

(* An empty sum is zero. *)
LEMMA SumEmpty ==
    ASSUME NEW f
    PROVE  SumFunctionOnSet(f, {}) = 0
<1>1. PICK g : Accumulates(g, f, {}) /\ \A T \in SUBSET {} : SumFunctionOnSet(f, T) = g[T]
  BY SumUnfolds, FS_EmptySet
<1>2. g[{}] = 0
  BY <1>1 DEF Accumulates
<1> QED BY <1>1, <1>2

(* A sum is unfolded by the element picked. *)
LEMMA SumPick ==
    ASSUME NEW S, IsFiniteSet(S), S # {}, NEW f
    PROVE  SumFunctionOnSet(f, S) = f[Pick(S)] + SumFunctionOnSet(f, S \ {Pick(S)})
<1>1. PICK g : Accumulates(g, f, S) /\ \A T \in SUBSET S : SumFunctionOnSet(f, T) = g[T]
  BY SumUnfolds
<1>2. g[S] = f[Pick(S)] + g[S \ {Pick(S)}]
  BY <1>1 DEF Accumulates
<1> QED BY <1>1, <1>2

(* A sum of natural numbers is one. *)
LEMMA SumNat ==
    ASSUME NEW S, IsFiniteSet(S), NEW f, \A x \in S : f[x] \in Nat
    PROVE  SumFunctionOnSet(f, S) \in Nat
<1> DEFINE Bad == {T \in SUBSET S : SumFunctionOnSet(f, T) \notin Nat}
<1> SUFFICES ASSUME Bad # {} PROVE FALSE
  OBVIOUS
<1>1. PICK T \in Bad : \A U \in Bad : U \subseteq T => U = T
  <2>1. Bad \subseteq SUBSET S
    OBVIOUS
  <2> HIDE DEF Bad
  <2> QED BY <2>1, SmallestSet
<1>2. T # {} /\ IsFiniteSet(T)
  <2>1. SumFunctionOnSet(f, {}) = 0
    BY SumEmpty
  <2>2. {} \notin Bad
    BY <2>1
  <2> QED BY <1>1, <2>2, FS_Subset
<1>3. Pick(T) \in T
  BY <1>2, PickIn
<1>4. SumFunctionOnSet(f, T \ {Pick(T)}) \in Nat
  BY <1>1, <1>3
<1>5. SumFunctionOnSet(f, T) = f[Pick(T)] + SumFunctionOnSet(f, T \ {Pick(T)})
  BY <1>2, SumPick
<1>6. SumFunctionOnSet(f, T) \in Nat
  BY <1>3, <1>4, <1>5
<1> QED BY <1>1, <1>6

(* The order of the additions does not matter. *)
LEMMA SumRemove ==
    ASSUME NEW S, IsFiniteSet(S), NEW f, \A x \in S : f[x] \in Nat, NEW x \in S
    PROVE  SumFunctionOnSet(f, S) = f[x] + SumFunctionOnSet(f, S \ {x})
<1> DEFINE Bad == {T \in SUBSET S : \E y \in T : SumFunctionOnSet(f, T) # f[y] + SumFunctionOnSet(f, T \ {y})}
<1> SUFFICES ASSUME Bad # {} PROVE FALSE
  OBVIOUS
<1>1. PICK T \in Bad : \A U \in Bad : U \subseteq T => U = T
  <2>1. Bad \subseteq SUBSET S
    OBVIOUS
  <2> HIDE DEF Bad
  <2> QED BY <2>1, SmallestSet
<1>2. PICK y \in T : SumFunctionOnSet(f, T) # f[y] + SumFunctionOnSet(f, T \ {y})
  BY <1>1
<1> DEFINE p == Pick(T)
<1>3. T # {} /\ IsFiniteSet(T) /\ p \in T
  BY <1>1, <1>2, FS_Subset, PickIn
<1> HIDE DEF p
<1>4. SumFunctionOnSet(f, T) = f[p] + SumFunctionOnSet(f, T \ {p})
  BY <1>3, SumPick DEF p
<1>5. p # y
  BY <1>2, <1>4
<1>6. SumFunctionOnSet(f, T \ {p}) = f[y] + SumFunctionOnSet(f, (T \ {p}) \ {y})
  <2>1. T \ {p} \notin Bad
    BY <1>1, <1>3
  <2>2. y \in T \ {p} /\ T \ {p} \in SUBSET S
    BY <1>5
  <2> QED BY <2>1, <2>2
<1>7. SumFunctionOnSet(f, T \ {y}) = f[p] + SumFunctionOnSet(f, (T \ {y}) \ {p})
  <2>1. T \ {y} \notin Bad
    BY <1>1, <1>3
  <2>2. p \in T \ {y} /\ T \ {y} \in SUBSET S
    BY <1>3, <1>5
  <2> QED BY <2>1, <2>2
<1>8. (T \ {y}) \ {p} = (T \ {p}) \ {y}
  OBVIOUS
<1>9. f[p] \in Nat /\ f[y] \in Nat /\ SumFunctionOnSet(f, (T \ {p}) \ {y}) \in Nat
  <2>1. IsFiniteSet((T \ {p}) \ {y})
    BY <1>3, FS_Subset
  <2> QED BY <2>1, <1>3, SumNat
<1>10. SumFunctionOnSet(f, T) = f[p] + (f[y] + SumFunctionOnSet(f, (T \ {p}) \ {y}))
  BY <1>4, <1>6
<1>11. f[y] + SumFunctionOnSet(f, T \ {y}) = f[y] + (f[p] + SumFunctionOnSet(f, (T \ {p}) \ {y}))
  BY <1>7, <1>8
<1> QED BY <1>2, <1>9, <1>10, <1>11

(* A new element adds its value. *)
LEMMA SumAdd ==
    ASSUME NEW S, IsFiniteSet(S), NEW x, x \notin S, NEW f, \A y \in S \cup {x} : f[y] \in Nat
    PROVE  SumFunctionOnSet(f, S \cup {x}) = f[x] + SumFunctionOnSet(f, S)
<1>1. IsFiniteSet(S \cup {x})
  BY FS_AddElement
<1>2. (S \cup {x}) \ {x} = S
  OBVIOUS
<1> QED BY <1>1, <1>2, SumRemove

(* A sum depends only on the values at the elements of the set. *)
LEMMA SumSame ==
    ASSUME NEW S, IsFiniteSet(S), NEW f, NEW g, \A x \in S : f[x] = g[x]
    PROVE  SumFunctionOnSet(f, S) = SumFunctionOnSet(g, S)
<1> DEFINE Bad == {T \in SUBSET S : SumFunctionOnSet(f, T) # SumFunctionOnSet(g, T)}
<1> SUFFICES ASSUME Bad # {} PROVE FALSE
  OBVIOUS
<1>1. PICK T \in Bad : \A U \in Bad : U \subseteq T => U = T
  <2>1. Bad \subseteq SUBSET S
    OBVIOUS
  <2> HIDE DEF Bad
  <2> QED BY <2>1, SmallestSet
<1>2. T # {} /\ IsFiniteSet(T)
  BY <1>1, SumEmpty, FS_Subset
<1>3. Pick(T) \in T
  BY <1>2, PickIn
<1>4. SumFunctionOnSet(f, T \ {Pick(T)}) = SumFunctionOnSet(g, T \ {Pick(T)})
  BY <1>1, <1>3
<1>5. /\ SumFunctionOnSet(f, T) = f[Pick(T)] + SumFunctionOnSet(f, T \ {Pick(T)})
      /\ SumFunctionOnSet(g, T) = g[Pick(T)] + SumFunctionOnSet(g, T \ {Pick(T)})
  BY <1>2, SumPick
<1> QED BY <1>1, <1>3, <1>4, <1>5

(* The sum over two disjoint sets is the sum of the sums. *)
LEMMA SumUnion ==
    ASSUME NEW S, IsFiniteSet(S), NEW T, IsFiniteSet(T), S \cap T = {},
           NEW f, \A x \in S \cup T : f[x] \in Nat
    PROVE  SumFunctionOnSet(f, S \cup T) = SumFunctionOnSet(f, S) + SumFunctionOnSet(f, T)
<1> DEFINE Bad == {X \in SUBSET T : SumFunctionOnSet(f, S \cup X) # SumFunctionOnSet(f, S) + SumFunctionOnSet(f, X)}
<1> SUFFICES ASSUME Bad # {} PROVE FALSE
  OBVIOUS
<1>1. PICK X \in Bad : \A Y \in Bad : Y \subseteq X => Y = X
  <2>1. Bad \subseteq SUBSET T
    OBVIOUS
  <2> HIDE DEF Bad
  <2> QED BY <2>1, SmallestSet
<1>2. SumFunctionOnSet(f, S) \in Nat /\ IsFiniteSet(X)
  BY <1>1, SumNat, FS_Subset
<1>3. PICK y \in X : TRUE
  <2>1. S \cup {} = S /\ SumFunctionOnSet(f, {}) = 0
    BY SumEmpty
  <2>2. {} \notin Bad
    BY <1>2, <2>1
  <2> QED BY <1>1, <2>2
<1> DEFINE Y == X \ {y}
<1>4. SumFunctionOnSet(f, S \cup Y) = SumFunctionOnSet(f, S) + SumFunctionOnSet(f, Y)
  BY <1>1, <1>3
<1>5. IsFiniteSet(Y) /\ SumFunctionOnSet(f, Y) \in Nat /\ SumFunctionOnSet(f, X) = f[y] + SumFunctionOnSet(f, Y)
  <2>1. IsFiniteSet(Y)
    BY <1>2, FS_Subset
  <2> QED BY <2>1, <1>2, SumNat, SumRemove
<1>6. SumFunctionOnSet(f, S \cup X) = f[y] + SumFunctionOnSet(f, S \cup Y)
  <2>1. S \cup X = (S \cup Y) \cup {y} /\ y \notin S \cup Y
    BY <1>1, <1>3
  <2>2. IsFiniteSet(S \cup Y)
    BY <1>5, FS_Union
  <2> HIDE DEF Y
  <2>3. \A z \in (S \cup Y) \cup {y} : f[z] \in Nat
    BY <1>1 DEF Y
  <2> QED BY <2>1, <2>2, <2>3, SumAdd
<1>7. f[y] \in Nat
  BY <1>1
<1> QED BY <1>1, <1>2, <1>4, <1>5, <1>6, <1>7

(* A part of a sum of natural numbers is at most the whole. *)
LEMMA SumSubset ==
    ASSUME NEW S, IsFiniteSet(S), NEW T, T \subseteq S, NEW f, \A x \in S : f[x] \in Nat
    PROVE  SumFunctionOnSet(f, T) <= SumFunctionOnSet(f, S)
<1>1. IsFiniteSet(T) /\ IsFiniteSet(S \ T)
  BY FS_Subset
<1>2. S = T \cup (S \ T) /\ T \cap (S \ T) = {}
  OBVIOUS
<1>3. SumFunctionOnSet(f, S) = SumFunctionOnSet(f, T) + SumFunctionOnSet(f, S \ T)
  <2> DEFINE U == S \ T
  <2> HIDE DEF U
  <2>1. SumFunctionOnSet(f, T \cup U) = SumFunctionOnSet(f, T) + SumFunctionOnSet(f, U)
    BY <1>1, <1>2, SumUnion DEF U
  <2> QED BY <2>1, <1>2 DEF U
<1>4. SumFunctionOnSet(f, T) \in Nat /\ SumFunctionOnSet(f, S \ T) \in Nat
  BY <1>1, SumNat
<1> QED BY <1>3, <1>4

(* No value is above the sum it is part of. *)
LEMMA SumMember ==
    ASSUME NEW S, IsFiniteSet(S), NEW x \in S, NEW f, \A y \in S : f[y] \in Nat
    PROVE  f[x] <= SumFunctionOnSet(f, S)
<1>1. IsFiniteSet(S \ {x})
  BY FS_Subset
<1>2. SumFunctionOnSet(f, S \ {x}) \in Nat /\ f[x] \in Nat
  BY <1>1, SumNat
<1> QED BY <1>2, SumRemove

(* A sum of lower values is not above the sum of the higher ones. *)
LEMMA SumAtMost ==
    ASSUME NEW S, IsFiniteSet(S), NEW f, NEW g,
           \A x \in S : f[x] \in Nat /\ g[x] \in Nat /\ f[x] <= g[x]
    PROVE  SumFunctionOnSet(f, S) <= SumFunctionOnSet(g, S)
<1> DEFINE Bad == {T \in SUBSET S : ~ (SumFunctionOnSet(f, T) <= SumFunctionOnSet(g, T))}
<1> SUFFICES ASSUME Bad # {} PROVE FALSE
  OBVIOUS
<1>1. PICK T \in Bad : \A U \in Bad : U \subseteq T => U = T
  <2>1. Bad \subseteq SUBSET S
    OBVIOUS
  <2> HIDE DEF Bad
  <2> QED BY <2>1, SmallestSet
<1>2. T # {} /\ IsFiniteSet(T)
  <2>1. SumFunctionOnSet(f, {}) <= SumFunctionOnSet(g, {})
    BY SumEmpty
  <2>2. {} \notin Bad
    BY <2>1
  <2> QED BY <1>1, <2>2, FS_Subset
<1>3. Pick(T) \in T
  BY <1>2, PickIn
<1> DEFINE R == T \ {Pick(T)}
<1>4. SumFunctionOnSet(f, R) <= SumFunctionOnSet(g, R)
  BY <1>1, <1>3
<1>5. IsFiniteSet(R) /\ \A x \in R : f[x] \in Nat /\ g[x] \in Nat
  BY <1>1, <1>2, FS_Subset
<1>6. /\ SumFunctionOnSet(f, T) = f[Pick(T)] + SumFunctionOnSet(f, R)
      /\ SumFunctionOnSet(g, T) = g[Pick(T)] + SumFunctionOnSet(g, R)
  BY <1>2, SumPick
<1>7. f[Pick(T)] \in Nat /\ g[Pick(T)] \in Nat /\ f[Pick(T)] <= g[Pick(T)]
  BY <1>1, <1>3
<1> HIDE DEF R
<1>8. SumFunctionOnSet(f, R) \in Nat /\ SumFunctionOnSet(g, R) \in Nat
  BY <1>5, SumNat
<1>9. SumFunctionOnSet(f, T) <= SumFunctionOnSet(g, T)
  BY <1>4, <1>6, <1>7, <1>8
<1> QED BY <1>1, <1>9

(* Zeros add nothing. *)
LEMMA SumZeros ==
    ASSUME NEW S, IsFiniteSet(S), NEW f, \A x \in S : f[x] = 0
    PROVE  SumFunctionOnSet(f, S) = 0
<1> DEFINE Bad == {T \in SUBSET S : SumFunctionOnSet(f, T) # 0}
<1> SUFFICES ASSUME Bad # {} PROVE FALSE
  OBVIOUS
<1>1. PICK T \in Bad : \A U \in Bad : U \subseteq T => U = T
  <2>1. Bad \subseteq SUBSET S
    OBVIOUS
  <2> HIDE DEF Bad
  <2> QED BY <2>1, SmallestSet
<1>2. T # {} /\ IsFiniteSet(T)
  <2>1. SumFunctionOnSet(f, {}) = 0
    BY SumEmpty
  <2>2. {} \notin Bad
    BY <2>1
  <2> QED BY <1>1, <2>2, FS_Subset
<1>3. Pick(T) \in T
  BY <1>2, PickIn
<1>4. SumFunctionOnSet(f, T \ {Pick(T)}) = 0 /\ f[Pick(T)] = 0
  BY <1>1, <1>3
<1>5. SumFunctionOnSet(f, T) = f[Pick(T)] + SumFunctionOnSet(f, T \ {Pick(T)})
  BY <1>2, SumPick
<1> QED BY <1>1, <1>4, <1>5

(* So elements that map to zero can be left out. *)
LEMMA SumIgnoresZeros ==
    ASSUME NEW S, IsFiniteSet(S), NEW T, T \subseteq S, NEW f, \A x \in S : f[x] \in Nat,
           \A x \in S \ T : f[x] = 0
    PROVE  SumFunctionOnSet(f, S) = SumFunctionOnSet(f, T)
<1> DEFINE R == S \ T
<1>1. IsFiniteSet(T) /\ IsFiniteSet(R) /\ T \cap R = {} /\ S = T \cup R
      /\ (\A x \in R : f[x] = 0) /\ \A x \in T \cup R : f[x] \in Nat
  BY FS_Subset
<1> HIDE DEF R
<1>2. SumFunctionOnSet(f, S) = SumFunctionOnSet(f, T) + SumFunctionOnSet(f, R)
  <2>1. SumFunctionOnSet(f, T \cup R) = SumFunctionOnSet(f, T) + SumFunctionOnSet(f, R)
    BY <1>1, SumUnion
  <2> QED BY <1>1, <2>1
<1>3. SumFunctionOnSet(f, R) = 0 /\ SumFunctionOnSet(f, T) \in Nat
  BY <1>1, SumZeros, SumNat
<1> QED BY <1>1, <1>2, <1>3

(* What one value is raised by, every sum with it is raised by. *)
LEMMA SumRaised ==
    ASSUME NEW S, IsFiniteSet(S), NEW f, \A y \in S : f[y] \in Nat, NEW a \in Nat, NEW x,
           NEW g, x \in S => g[x] = f[x] + a, \A y \in S \ {x} : g[y] = f[y]
    PROVE  SumFunctionOnSet(g, S) = SumFunctionOnSet(f, S) + (IF x \in S THEN a ELSE 0)
<1>1. SumFunctionOnSet(f, S) \in Nat
  BY SumNat
<1>2. CASE x \notin S
  <2>1. \A y \in S : g[y] = f[y]
    BY <1>2
  <2> QED BY <1>1, <1>2, <2>1, SumSame
<1>3. CASE x \in S
  <2> DEFINE R == S \ {x}
  <2>1. \A y \in S : g[y] \in Nat
    BY <1>3
  <2>2. IsFiniteSet(R) /\ \A y \in R : g[y] = f[y] /\ f[y] \in Nat
    BY FS_Subset
  <2>3. /\ SumFunctionOnSet(g, S) = g[x] + SumFunctionOnSet(g, R)
        /\ SumFunctionOnSet(f, S) = f[x] + SumFunctionOnSet(f, R)
    BY <1>3, <2>1, SumRemove
  <2> HIDE DEF R
  <2>4. SumFunctionOnSet(g, R) = SumFunctionOnSet(f, R) /\ SumFunctionOnSet(f, R) \in Nat
    BY <2>2, SumSame, SumNat
  <2>5. f[x] \in Nat /\ g[x] = f[x] + a
    BY <1>3
  <2> QED BY <1>3, <2>3, <2>4, <2>5
<1> QED BY <1>2, <1>3

(* Finitely many elements have finitely many names.                         *)
LEMMA NamesFinite ==
    ASSUME NEW S, IsFiniteSet(S), NEW name
    PROVE  IsFiniteSet({name[x] : x \in S})
<1> DEFINE Names(U) == {name[x] : x \in U}
           Bad == {U \in SUBSET S : ~ IsFiniteSet(Names(U))}
<1> SUFFICES ASSUME Bad # {} PROVE FALSE
  OBVIOUS
<1>1. PICK U \in Bad : \A V \in Bad : V \subseteq U => V = U
  <2>1. Bad \subseteq SUBSET S
    OBVIOUS
  <2> HIDE DEF Bad
  <2> QED BY <2>1, SmallestSet
<1>2. U # {}
  <2>1. Names({}) = {}
    OBVIOUS
  <2> QED BY <1>1, <2>1, FS_EmptySet
<1>3. PICK x \in U : TRUE
  BY <1>2
<1> DEFINE V == U \ {x}
<1>4. V \subseteq U /\ V # U /\ V \in SUBSET S
  BY <1>3
<1>5. IsFiniteSet(Names(V))
  BY <1>1, <1>4
<1>6. Names(U) = Names(V) \cup {name[x]}
  BY <1>3
<1> HIDE DEF Names, V
<1>7. IsFiniteSet(Names(U))
  BY <1>5, <1>6, FS_AddElement
<1> QED BY <1>1, <1>7

(* A sum does not depend on what its elements are called.                   *)
LEMMA SumRenamed ==
    ASSUME NEW S, IsFiniteSet(S), NEW f, \A x \in S : f[x] \in Nat, NEW name,
           \A x, y \in S : name[x] = name[y] => x = y,
           NEW g, \A x \in S : g[name[x]] = f[x]
    PROVE  /\ IsFiniteSet({name[x] : x \in S})
           /\ SumFunctionOnSet(g, {name[x] : x \in S}) = SumFunctionOnSet(f, S)
<1> DEFINE Names(U) == {name[x] : x \in U}
           Bad == {U \in SUBSET S : ~ (/\ IsFiniteSet(Names(U))
                                       /\ SumFunctionOnSet(g, Names(U)) = SumFunctionOnSet(f, U))}
<1> SUFFICES ASSUME Bad # {} PROVE FALSE
  OBVIOUS
<1>1. PICK U \in Bad : \A V \in Bad : V \subseteq U => V = U
  <2>1. Bad \subseteq SUBSET S
    OBVIOUS
  <2> HIDE DEF Bad
  <2> QED BY <2>1, SmallestSet
<1>2. U \subseteq S /\ IsFiniteSet(U)
  BY FS_Subset
<1>3. CASE U = {}
  <2>1. Names(U) = {}
    BY <1>3
  <2> QED BY <1>3, <2>1, FS_EmptySet, SumEmpty
<1>4. CASE U # {}
  <2>1. PICK x \in U : TRUE
    BY <1>4
  <2> DEFINE V == U \ {x}
  <2>2. V \subseteq U /\ V # U /\ V \in SUBSET S /\ x \in S
    BY <1>2, <2>1
  <2>3. IsFiniteSet(Names(V)) /\ SumFunctionOnSet(g, Names(V)) = SumFunctionOnSet(f, V)
    BY <1>1, <2>2
  <2>4. Names(U) = Names(V) \cup {name[x]} /\ name[x] \notin Names(V)
    BY <1>2, <2>1
  <2>5. \A y \in Names(V) \cup {name[x]} : g[y] \in Nat
    BY <1>2, <2>1
  <2>6. SumFunctionOnSet(f, U) = f[x] + SumFunctionOnSet(f, V)
    BY <1>2, <2>1, SumRemove
  <2>7. g[name[x]] = f[x]
    BY <2>2
  <2> HIDE DEF Names, V
  <2>8. SumFunctionOnSet(g, Names(U)) = g[name[x]] + SumFunctionOnSet(g, Names(V))
    <3>1. ASSUME NEW N, IsFiniteSet(N), NEW y, y \notin N, \A z \in N \cup {y} : g[z] \in Nat
          PROVE  SumFunctionOnSet(g, N \cup {y}) = g[y] + SumFunctionOnSet(g, N)
      BY <3>1, SumAdd
    <3>2. SumFunctionOnSet(g, Names(V) \cup {name[x]}) = g[name[x]] + SumFunctionOnSet(g, Names(V))
      BY <2>3, <2>4, <2>5, <3>1
    <3> QED BY <2>4, <3>2
  <2>9. IsFiniteSet(Names(U))
    BY <2>3, <2>4, FS_AddElement
  <2>10. SumFunctionOnSet(g, Names(U)) = SumFunctionOnSet(f, U)
    BY <2>3, <2>6, <2>7, <2>8
  <2>11. U \notin Bad
    BY <1>2, <2>9, <2>10
  <2> QED BY <2>11
<1> QED BY <1>3, <1>4
===============================================================================
