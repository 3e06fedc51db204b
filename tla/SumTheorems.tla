---------------------------- MODULE SumTheorems ----------------------------
(***************************************************************************)
(* Facts about sums and products over finite sets.  Both are folds, which  *)
(* take the elements in the order of CHOOSE.  What holds of every finite   *)
(* set is shown by a smallest counterexample: if it failed of some subset  *)
(* of a finite set, it would fail of one whose smaller subsets all have it *)
(* (MinimalSubset).                                                        *)
(***************************************************************************)
EXTENDS Integers, FiniteSets, Sums, FiniteSetTheorems, TLAPS

\* The element that the fold takes first.
Pick(s) == CHOOSE x \in s : TRUE

\* g sums f over the subsets of S, one element at a time.
Sums(g, f, S) ==
  g = [s \in SUBSET S |-> IF s = {} THEN 0 ELSE f[Pick(s)] + g[s \ {Pick(s)}]]

LEMMA SumChosen ==
  ASSUME NEW f, NEW S
  PROVE  Sum(f, S) = (CHOOSE g : Sums(g, f, S))[S]
BY DEF Sum, MapThenSumSet, MapThenFoldSet, Sums, Pick

LEMMA MinimalSubset ==
  ASSUME NEW S, IsFiniteSet(S), NEW Z, Z \subseteq SUBSET S, Z # {}
  PROVE  \E U \in Z : IsFiniteSet(U) /\ \A V \in SUBSET U : V # U => V \notin Z
<1>1. IsWellFoundedOn(StrictSubsetOrdering(S), FiniteSubsetsOf(S))
  BY FS_StrictSubsetOrderingWellFounded
<1>2. FiniteSubsetsOf(S) = SUBSET S
  BY FS_FiniteSubsetsOfFinite
<1>3. PICK U \in Z : \A V \in Z : <<V, U>> \notin StrictSubsetOrdering(S)
  BY <1>1, <1>2, WFMin
<1>4. IsFiniteSet(U)
  BY FS_Subset
<1> QED
  BY <1>3, <1>4 DEF StrictSubsetOrdering

LEMMA PickIn ==
  ASSUME NEW s, s # {}
  PROVE  Pick(s) \in s
BY DEF Pick

LEMMA SumsAt ==
  ASSUME NEW g, NEW f, NEW S, Sums(g, f, S), NEW s \in SUBSET S
  PROVE  g[s] = IF s = {} THEN 0 ELSE f[Pick(s)] + g[s \ {Pick(s)}]
<1> DEFINE F == [t \in SUBSET S |-> IF t = {} THEN 0 ELSE f[Pick(t)] + g[t \ {Pick(t)}]]
<1>1. g = F
  BY DEF Sums
<1>2. F[s] = IF s = {} THEN 0 ELSE f[Pick(s)] + g[s \ {Pick(s)}]
  OBVIOUS
<1> QED
  BY <1>1, <1>2

\* Two such functions agree where both are defined.
LEMMA SumsAgree ==
  ASSUME NEW f, NEW g, NEW h, NEW A, NEW B, IsFiniteSet(A), Sums(g, f, A), Sums(h, f, B),
         NEW s \in SUBSET A, s \in SUBSET B
  PROVE  g[s] = h[s]
<1> DEFINE Z == {U \in SUBSET A : U \in SUBSET B /\ g[U] # h[U]}
<1> SUFFICES ASSUME Z # {} PROVE FALSE
  OBVIOUS
<1>1. PICK U \in Z : \A V \in SUBSET U : V # U => V \notin Z
  BY MinimalSubset
<1>2. U \in SUBSET A /\ U \in SUBSET B /\ g[U] # h[U]
  BY <1>1
<1>3. /\ g[U] = IF U = {} THEN 0 ELSE f[Pick(U)] + g[U \ {Pick(U)}]
      /\ h[U] = IF U = {} THEN 0 ELSE f[Pick(U)] + h[U \ {Pick(U)}]
  BY <1>2, SumsAt
<1>4. U # {} /\ Pick(U) \in U
  BY <1>2, <1>3, PickIn
<1>5. U \ {Pick(U)} \notin Z
  BY <1>1, <1>4
<1> QED
  BY <1>2, <1>3, <1>4, <1>5

LEMMA SumsExist ==
  ASSUME NEW f, NEW S, IsFiniteSet(S)
  PROVE  \E g : Sums(g, f, S)
<1> DEFINE Z == {U \in SUBSET S : ~ \E g : Sums(g, f, U)}
<1> SUFFICES ASSUME Z # {} PROVE FALSE
  OBVIOUS
<1>0. Z \subseteq SUBSET S
  OBVIOUS
<1> HIDE DEF Z
<1>1. PICK T \in Z : IsFiniteSet(T) /\ \A V \in SUBSET T : V # T => V \notin Z
  BY <1>0, MinimalSubset
<1> USE DEF Z
<1>2. \A V \in SUBSET T : V # T => \E g : Sums(g, f, V)
  BY <1>1
<1> DEFINE G(V) == CHOOSE g : Sums(g, f, V)
<1>3. \A V \in SUBSET T : V # T => Sums(G(V), f, V)
  BY <1>2
<1> DEFINE g == [s \in SUBSET T |-> IF s = {} THEN 0
                                    ELSE f[Pick(s)] + G(s \ {Pick(s)})[s \ {Pick(s)}]]
<1> HIDE DEF G
<1>4. ASSUME NEW V \in SUBSET T, V # T
      PROVE  g[V] = G(V)[V]
  <2>1. G(V)[V] = IF V = {} THEN 0 ELSE f[Pick(V)] + G(V)[V \ {Pick(V)}]
    BY <1>3, <1>4, SumsAt
  <2>2. ASSUME V # {}
        PROVE  G(V)[V \ {Pick(V)}] = G(V \ {Pick(V)})[V \ {Pick(V)}]
    <3> DEFINE W == V \ {Pick(V)}
    <3>1. W \in SUBSET T /\ W # T /\ W \in SUBSET V /\ W \in SUBSET W /\ IsFiniteSet(V)
      BY <1>1, <1>4, <2>2, PickIn, FS_Subset
    <3>2. Sums(G(V), f, V) /\ Sums(G(W), f, W)
      BY <1>3, <1>4, <3>1
    <3> HIDE DEF W
    <3>3. G(V)[W] = G(W)[W]
      BY <3>1, <3>2, SumsAgree
    <3> QED
      BY <3>3 DEF W
  <2> QED
    BY <2>1, <2>2
<1>5. Sums(g, f, T)
  <2>1. ASSUME NEW s \in SUBSET T, s # {}
        PROVE  g[s \ {Pick(s)}] = G(s \ {Pick(s)})[s \ {Pick(s)}]
    <3>1. s \ {Pick(s)} \in SUBSET T /\ s \ {Pick(s)} # T
      BY <2>1, PickIn
    <3> HIDE DEF g
    <3> QED
      BY <1>4, <3>1
  <2>2. g = [s \in SUBSET T |-> IF s = {} THEN 0 ELSE f[Pick(s)] + g[s \ {Pick(s)}]]
    <3> DEFINE h == [s \in SUBSET T |-> IF s = {} THEN 0 ELSE f[Pick(s)] + g[s \ {Pick(s)}]]
    <3>1. \A s \in SUBSET T : g[s] = h[s]
      BY <2>1
    <3> QED
      BY <3>1
  <2> QED
    BY <2>2 DEF Sums
<1> QED
  BY <1>1, <1>5

\* A finite sum, one element at a time.
LEMMA SumUnfolds ==
  ASSUME NEW f, NEW S, IsFiniteSet(S)
  PROVE  Sum(f, S) = IF S = {} THEN 0 ELSE f[Pick(S)] + Sum(f, S \ {Pick(S)})
<1> DEFINE G(V) == CHOOSE g : Sums(g, f, V)
<1>1. ASSUME NEW V, IsFiniteSet(V)
      PROVE  Sums(G(V), f, V) /\ Sum(f, V) = G(V)[V]
  BY <1>1, SumsExist, SumChosen
<1> HIDE DEF G
<1>2. Sum(f, S) = IF S = {} THEN 0 ELSE f[Pick(S)] + G(S)[S \ {Pick(S)}]
  BY <1>1, SumsAt
<1> DEFINE W == S \ {Pick(S)}
<1>3. IsFiniteSet(W) /\ W \in SUBSET S /\ W \in SUBSET W
  BY FS_Subset
<1> HIDE DEF W
<1>4. Sum(f, W) = G(W)[W]
  BY <1>1, <1>3
<1>5. G(S)[W] = G(W)[W]
  BY <1>1, <1>3, SumsAgree
<1> QED
  BY <1>2, <1>4, <1>5 DEF W

LEMMA SumIsAnInteger ==
  ASSUME NEW f, NEW S, IsFiniteSet(S), \A x \in S : f[x] \in Int
  PROVE  Sum(f, S) \in Int
<1> DEFINE Z == {U \in SUBSET S : Sum(f, U) \notin Int}
<1>1. Z \subseteq SUBSET S
  OBVIOUS
<1> SUFFICES ASSUME Z # {} PROVE FALSE
  OBVIOUS
<1> HIDE DEF Z
<1>2. PICK U \in Z : IsFiniteSet(U) /\ \A V \in SUBSET U : V # U => V \notin Z
  BY <1>1, MinimalSubset
<1> USE DEF Z
<1>3. Sum(f, U) = IF U = {} THEN 0 ELSE f[Pick(U)] + Sum(f, U \ {Pick(U)})
  BY <1>2, SumUnfolds
<1>4. U # {} => Pick(U) \in U
  BY PickIn
<1>5. U # {} => Sum(f, U \ {Pick(U)}) \in Int
  BY <1>2, <1>4
<1> QED
  BY <1>3, <1>4, <1>5

\* Any element may come first.
LEMMA SumRemove ==
  ASSUME NEW f, NEW S, IsFiniteSet(S), \A x \in S : f[x] \in Int, NEW x \in S
  PROVE  Sum(f, S) = f[x] + Sum(f, S \ {x})
<1> DEFINE Splits(U) == \A y \in U : Sum(f, U) = f[y] + Sum(f, U \ {y})
<1> DEFINE Z == {U \in SUBSET S : ~Splits(U)}
<1>1. Z \subseteq SUBSET S
  OBVIOUS
<1>2. Z = {}
  <2> SUFFICES ASSUME Z # {} PROVE FALSE
    OBVIOUS
  <2> HIDE DEF Z
  <2>1. PICK U \in Z : IsFiniteSet(U) /\ \A V \in SUBSET U : V # U => V \notin Z
    BY <1>1, MinimalSubset
  <2> USE DEF Z
  <2>2. PICK y \in U : Sum(f, U) # f[y] + Sum(f, U \ {y})
    BY <2>1
  <2> DEFINE p == Pick(U)
  <2>3. p \in U /\ Sum(f, U) = f[p] + Sum(f, U \ {p})
    BY <2>1, <2>2, SumUnfolds, PickIn
  <2> HIDE DEF p
  <2>4. p # y
    BY <2>2, <2>3
  <2>5. Splits(U \ {p}) /\ Splits(U \ {y})
    BY <2>1, <2>2, <2>3
  <2>6. /\ Sum(f, U \ {p}) = f[y] + Sum(f, (U \ {p}) \ {y})
        /\ Sum(f, U \ {y}) = f[p] + Sum(f, (U \ {y}) \ {p})
    BY <2>2, <2>3, <2>4, <2>5
  <2> DEFINE W == (U \ {y}) \ {p}
  <2>7. W = (U \ {p}) \ {y} /\ W \in SUBSET S /\ f[p] \in Int /\ f[y] \in Int
    BY <2>1, <2>2, <2>3
  <2> HIDE DEF Splits, Z
  <2>8. IsFiniteSet(W) /\ \A z \in W : f[z] \in Int
    BY <2>7, FS_Subset
  <2>9. Sum(f, W) \in Int
    BY <2>8, SumIsAnInteger
  <2> QED
    <3>1. Sum(f, U) = f[p] + (f[y] + Sum(f, W)) /\ f[y] + Sum(f, U \ {y}) = f[y] + (f[p] + Sum(f, W))
      BY <2>3, <2>6, <2>7 DEF W
    <3> HIDE DEF W
    <3> QED
      BY <2>2, <2>7, <2>9, <3>1
<1> QED
  BY <1>2

LEMMA SumSame ==
  ASSUME NEW f, NEW g, NEW S, IsFiniteSet(S), \A x \in S : f[x] = g[x]
  PROVE  Sum(f, S) = Sum(g, S)
<1> DEFINE Z == {U \in SUBSET S : Sum(f, U) # Sum(g, U)}
<1>1. Z \subseteq SUBSET S
  OBVIOUS
<1> SUFFICES ASSUME Z # {} PROVE FALSE
  OBVIOUS
<1> HIDE DEF Z
<1>2. PICK U \in Z : IsFiniteSet(U) /\ \A V \in SUBSET U : V # U => V \notin Z
  BY <1>1, MinimalSubset
<1> USE DEF Z
<1>3. /\ Sum(f, U) = IF U = {} THEN 0 ELSE f[Pick(U)] + Sum(f, U \ {Pick(U)})
      /\ Sum(g, U) = IF U = {} THEN 0 ELSE g[Pick(U)] + Sum(g, U \ {Pick(U)})
  BY <1>2, SumUnfolds
<1>4. U # {} => Pick(U) \in U
  BY PickIn
<1>5. U # {} => Sum(f, U \ {Pick(U)}) = Sum(g, U \ {Pick(U)})
  BY <1>2, <1>4
<1> QED
  BY <1>3, <1>4, <1>5

LEMMA SumOfZeros ==
  ASSUME NEW f, NEW S, IsFiniteSet(S), \A x \in S : f[x] = 0
  PROVE  Sum(f, S) = 0
<1> DEFINE Z == {U \in SUBSET S : Sum(f, U) # 0}
<1>1. Z \subseteq SUBSET S
  OBVIOUS
<1> SUFFICES ASSUME Z # {} PROVE FALSE
  OBVIOUS
<1> HIDE DEF Z
<1>2. PICK U \in Z : IsFiniteSet(U) /\ \A V \in SUBSET U : V # U => V \notin Z
  BY <1>1, MinimalSubset
<1> USE DEF Z
<1>3. Sum(f, U) = IF U = {} THEN 0 ELSE f[Pick(U)] + Sum(f, U \ {Pick(U)})
  BY <1>2, SumUnfolds
<1>4. U # {} => Pick(U) \in U
  BY PickIn
<1>5. U # {} => Sum(f, U \ {Pick(U)}) = 0
  BY <1>2, <1>4
<1> QED
  BY <1>3, <1>4, <1>5

LEMMA SumMonotone ==
  ASSUME NEW f, NEW g, NEW S, IsFiniteSet(S),
         \A x \in S : f[x] \in Int /\ g[x] \in Int /\ f[x] <= g[x]
  PROVE  Sum(f, S) <= Sum(g, S)
<1> DEFINE Z == {U \in SUBSET S : ~(Sum(f, U) <= Sum(g, U))}
<1>1. Z \subseteq SUBSET S
  OBVIOUS
<1> SUFFICES ASSUME Z # {} PROVE FALSE
  OBVIOUS
<1> HIDE DEF Z
<1>2. PICK U \in Z : IsFiniteSet(U) /\ \A V \in SUBSET U : V # U => V \notin Z
  BY <1>1, MinimalSubset
<1> USE DEF Z
<1>3. /\ Sum(f, U) = IF U = {} THEN 0 ELSE f[Pick(U)] + Sum(f, U \ {Pick(U)})
      /\ Sum(g, U) = IF U = {} THEN 0 ELSE g[Pick(U)] + Sum(g, U \ {Pick(U)})
  BY <1>2, SumUnfolds
<1>4. U # {} => Pick(U) \in U
  BY PickIn
<1> DEFINE W == U \ {Pick(U)}
<1>5. W \in SUBSET S /\ IsFiniteSet(W) /\ \A x \in W : f[x] \in Int /\ g[x] \in Int
  BY <1>2, FS_Subset
<1>6. U # {} => Sum(f, W) <= Sum(g, W)
  BY <1>2, <1>4
<1> HIDE DEF W
<1>7. Sum(f, W) \in Int /\ Sum(g, W) \in Int
  BY <1>5, SumIsAnInteger
<1>8. U # {} => f[Pick(U)] \in Int /\ g[Pick(U)] \in Int /\ f[Pick(U)] <= g[Pick(U)]
  BY <1>4
<1> HIDE DEF Z
<1>9. Sum(f, U) <= Sum(g, U)
  BY <1>3, <1>6, <1>7, <1>8 DEF W
<1> QED
  BY <1>2, <1>9 DEF Z

LEMMA SumIsNatural ==
  ASSUME NEW f, NEW S, IsFiniteSet(S), \A x \in S : f[x] \in Nat
  PROVE  Sum(f, S) \in Nat
<1> DEFINE z == [x \in S |-> 0]
<1>1. \A x \in S : z[x] = 0 /\ z[x] \in Int /\ f[x] \in Int /\ z[x] <= f[x]
  OBVIOUS
<1> HIDE DEF z
<1>2. Sum(f, S) \in Int /\ Sum(z, S) = 0 /\ Sum(z, S) <= Sum(f, S)
  BY <1>1, SumIsAnInteger, SumOfZeros, SumMonotone
<1> QED
  BY <1>2

\* Adding to one summand adds to the sum.
LEMMA SumAdds ==
  ASSUME NEW S, IsFiniteSet(S), NEW f \in [S -> Int], NEW x \in S, NEW k \in Int
  PROVE  Sum([f EXCEPT ![x] = @ + k], S) = Sum(f, S) + k
<1> DEFINE g == [f EXCEPT ![x] = @ + k]
<1> DEFINE W == S \ {x}
<1>1. IsFiniteSet(W) /\ \A y \in W : f[y] = g[y] /\ f[y] \in Int
  BY FS_Subset
<1>2. g[x] = f[x] + k /\ f[x] \in Int /\ \A y \in S : f[y] \in Int /\ g[y] \in Int
  OBVIOUS
<1> HIDE DEF g
<1>3. Sum(f, S) = f[x] + Sum(f, W) /\ Sum(g, S) = g[x] + Sum(g, W)
  BY <1>2, SumRemove
<1> HIDE DEF W
<1>4. Sum(f, W) = Sum(g, W) /\ Sum(f, W) \in Int
  BY <1>1, SumSame, SumIsAnInteger
<1>5. Sum(g, S) = Sum(f, S) + k
  BY <1>2, <1>3, <1>4
<1> QED
  BY <1>5 DEF g

-----------------------------------------------------------------------------
\* Products, by the same argument.
Products(g, f, S) ==
  g = [s \in SUBSET S |-> IF s = {} THEN 1 ELSE f[Pick(s)] * g[s \ {Pick(s)}]]

LEMMA ProductChosen ==
  ASSUME NEW f, NEW S
  PROVE  Product(f, S) = (CHOOSE g : Products(g, f, S))[S]
BY DEF Product, MapThenFoldSet, Products, Pick

LEMMA ProductsAt ==
  ASSUME NEW g, NEW f, NEW S, Products(g, f, S), NEW s \in SUBSET S
  PROVE  g[s] = IF s = {} THEN 1 ELSE f[Pick(s)] * g[s \ {Pick(s)}]
<1> DEFINE F == [t \in SUBSET S |-> IF t = {} THEN 1 ELSE f[Pick(t)] * g[t \ {Pick(t)}]]
<1>1. g = F
  BY DEF Products
<1>2. F[s] = IF s = {} THEN 1 ELSE f[Pick(s)] * g[s \ {Pick(s)}]
  OBVIOUS
<1> QED
  BY <1>1, <1>2

LEMMA ProductsAgree ==
  ASSUME NEW f, NEW g, NEW h, NEW A, NEW B, IsFiniteSet(A), Products(g, f, A), Products(h, f, B),
         NEW s \in SUBSET A, s \in SUBSET B
  PROVE  g[s] = h[s]
<1> DEFINE Z == {U \in SUBSET A : U \in SUBSET B /\ g[U] # h[U]}
<1> SUFFICES ASSUME Z # {} PROVE FALSE
  OBVIOUS
<1>1. PICK U \in Z : \A V \in SUBSET U : V # U => V \notin Z
  BY MinimalSubset
<1>2. U \in SUBSET A /\ U \in SUBSET B /\ g[U] # h[U]
  BY <1>1
<1>3. /\ g[U] = IF U = {} THEN 1 ELSE f[Pick(U)] * g[U \ {Pick(U)}]
      /\ h[U] = IF U = {} THEN 1 ELSE f[Pick(U)] * h[U \ {Pick(U)}]
  <2>1. g[U] = IF U = {} THEN 1 ELSE f[Pick(U)] * g[U \ {Pick(U)}]
    BY <1>2, ProductsAt, Zenon
  <2>2. h[U] = IF U = {} THEN 1 ELSE f[Pick(U)] * h[U \ {Pick(U)}]
    BY <1>2, ProductsAt, Zenon
  <2> QED
    BY <2>1, <2>2
<1>4. U # {} /\ Pick(U) \in U
  BY <1>2, <1>3, PickIn
<1>5. U \ {Pick(U)} \notin Z
  BY <1>1, <1>4
<1> QED
  BY <1>2, <1>3, <1>4, <1>5

LEMMA ProductsExist ==
  ASSUME NEW f, NEW S, IsFiniteSet(S)
  PROVE  \E g : Products(g, f, S)
<1> DEFINE Z == {U \in SUBSET S : ~ \E g : Products(g, f, U)}
<1> SUFFICES ASSUME Z # {} PROVE FALSE
  OBVIOUS
<1>0. Z \subseteq SUBSET S
  OBVIOUS
<1> HIDE DEF Z
<1>1. PICK T \in Z : IsFiniteSet(T) /\ \A V \in SUBSET T : V # T => V \notin Z
  BY <1>0, MinimalSubset
<1> USE DEF Z
<1>2. \A V \in SUBSET T : V # T => \E g : Products(g, f, V)
  BY <1>1
<1> DEFINE G(V) == CHOOSE g : Products(g, f, V)
<1>3. \A V \in SUBSET T : V # T => Products(G(V), f, V)
  BY <1>2
<1> DEFINE g == [s \in SUBSET T |-> IF s = {} THEN 1
                                    ELSE f[Pick(s)] * G(s \ {Pick(s)})[s \ {Pick(s)}]]
<1> HIDE DEF G
<1>4. ASSUME NEW V \in SUBSET T, V # T
      PROVE  g[V] = G(V)[V]
  <2>1. G(V)[V] = IF V = {} THEN 1 ELSE f[Pick(V)] * G(V)[V \ {Pick(V)}]
    BY <1>3, <1>4, ProductsAt
  <2>2. ASSUME V # {}
        PROVE  G(V)[V \ {Pick(V)}] = G(V \ {Pick(V)})[V \ {Pick(V)}]
    <3> DEFINE W == V \ {Pick(V)}
    <3>1. W \in SUBSET T /\ W # T /\ W \in SUBSET V /\ W \in SUBSET W /\ IsFiniteSet(V)
      BY <1>1, <1>4, <2>2, PickIn, FS_Subset
    <3>2. Products(G(V), f, V) /\ Products(G(W), f, W)
      BY <1>3, <1>4, <3>1
    <3> HIDE DEF W
    <3>3. G(V)[W] = G(W)[W]
      BY <3>1, <3>2, ProductsAgree
    <3> QED
      BY <3>3 DEF W
  <2> QED
    BY <2>1, <2>2
<1>5. Products(g, f, T)
  <2>1. ASSUME NEW s \in SUBSET T, s # {}
        PROVE  g[s \ {Pick(s)}] = G(s \ {Pick(s)})[s \ {Pick(s)}]
    <3>1. s \ {Pick(s)} \in SUBSET T /\ s \ {Pick(s)} # T
      BY <2>1, PickIn
    <3> HIDE DEF g
    <3> QED
      BY <1>4, <3>1
  <2>2. g = [s \in SUBSET T |-> IF s = {} THEN 1 ELSE f[Pick(s)] * g[s \ {Pick(s)}]]
    <3> DEFINE h == [s \in SUBSET T |-> IF s = {} THEN 1 ELSE f[Pick(s)] * g[s \ {Pick(s)}]]
    <3>1. \A s \in SUBSET T : g[s] = h[s]
      BY <2>1
    <3> QED
      BY <3>1
  <2> QED
    BY <2>2 DEF Products
<1> QED
  BY <1>1, <1>5

LEMMA ProductUnfolds ==
  ASSUME NEW f, NEW S, IsFiniteSet(S)
  PROVE  Product(f, S) = IF S = {} THEN 1 ELSE f[Pick(S)] * Product(f, S \ {Pick(S)})
<1> DEFINE G(V) == CHOOSE g : Products(g, f, V)
<1>1. ASSUME NEW V, IsFiniteSet(V)
      PROVE  Products(G(V), f, V) /\ Product(f, V) = G(V)[V]
  BY <1>1, ProductsExist, ProductChosen
<1> HIDE DEF G
<1>2. Product(f, S) = IF S = {} THEN 1 ELSE f[Pick(S)] * G(S)[S \ {Pick(S)}]
  BY <1>1, ProductsAt
<1> DEFINE W == S \ {Pick(S)}
<1>3. IsFiniteSet(W) /\ W \in SUBSET S /\ W \in SUBSET W
  BY FS_Subset
<1> HIDE DEF W
<1>4. Product(f, W) = G(W)[W]
  BY <1>1, <1>3
<1>5. G(S)[W] = G(W)[W]
  BY <1>1, <1>3, ProductsAgree
<1> QED
  BY <1>2, <1>4, <1>5 DEF W

LEMMA ProductIsPositive ==
  ASSUME NEW f, NEW S, IsFiniteSet(S), \A x \in S : f[x] \in Nat \ {0}
  PROVE  Product(f, S) \in Nat \ {0}
<1> DEFINE Z == {U \in SUBSET S : Product(f, U) \notin Nat \ {0}}
<1>1. Z \subseteq SUBSET S
  OBVIOUS
<1> SUFFICES ASSUME Z # {} PROVE FALSE
  OBVIOUS
<1> HIDE DEF Z
<1>2. PICK U \in Z : IsFiniteSet(U) /\ \A V \in SUBSET U : V # U => V \notin Z
  BY <1>1, MinimalSubset
<1> USE DEF Z
<1>3. Product(f, U) = IF U = {} THEN 1 ELSE f[Pick(U)] * Product(f, U \ {Pick(U)})
  BY <1>2, ProductUnfolds
<1>4. U # {} => Pick(U) \in U
  BY PickIn
<1>5. U # {} => Product(f, U \ {Pick(U)}) \in Nat \ {0} /\ f[Pick(U)] \in Nat \ {0}
  BY <1>2, <1>4
<1>6. \A a, b \in Nat \ {0} : a * b \in Nat \ {0}
  OBVIOUS
<1> HIDE DEF Z
<1>7. Product(f, U) \in Nat \ {0}
  BY <1>3, <1>5, <1>6
<1> QED
  BY <1>2, <1>7 DEF Z

\* Any factor may come first.
LEMMA ProductRemove ==
  ASSUME NEW f, NEW S, IsFiniteSet(S), \A x \in S : f[x] \in Nat \ {0}, NEW x \in S
  PROVE  Product(f, S) = f[x] * Product(f, S \ {x})
<1> DEFINE Splits(U) == \A y \in U : Product(f, U) = f[y] * Product(f, U \ {y})
<1> DEFINE Z == {U \in SUBSET S : ~Splits(U)}
<1>1. Z \subseteq SUBSET S
  OBVIOUS
<1>2. Z = {}
  <2> SUFFICES ASSUME Z # {} PROVE FALSE
    OBVIOUS
  <2> HIDE DEF Z
  <2>1. PICK U \in Z : IsFiniteSet(U) /\ \A V \in SUBSET U : V # U => V \notin Z
    BY <1>1, MinimalSubset
  <2> USE DEF Z
  <2>2. PICK y \in U : Product(f, U) # f[y] * Product(f, U \ {y})
    BY <2>1
  <2> DEFINE p == Pick(U)
  <2>3. p \in U /\ Product(f, U) = f[p] * Product(f, U \ {p})
    BY <2>1, <2>2, ProductUnfolds, PickIn
  <2> HIDE DEF p
  <2>4. p # y
    BY <2>2, <2>3
  <2>5. Splits(U \ {p}) /\ Splits(U \ {y})
    BY <2>1, <2>2, <2>3
  <2>6. /\ Product(f, U \ {p}) = f[y] * Product(f, (U \ {p}) \ {y})
        /\ Product(f, U \ {y}) = f[p] * Product(f, (U \ {y}) \ {p})
    BY <2>2, <2>3, <2>4, <2>5
  <2> DEFINE W == (U \ {y}) \ {p}
  <2>7. W = (U \ {p}) \ {y} /\ W \in SUBSET S /\ f[p] \in Nat \ {0} /\ f[y] \in Nat \ {0}
    BY <2>1, <2>2, <2>3
  <2> HIDE DEF Splits, Z
  <2>8. IsFiniteSet(W) /\ \A z \in W : f[z] \in Nat \ {0}
    BY <2>7, FS_Subset
  <2>9. Product(f, W) \in Nat
    BY <2>8, ProductIsPositive
  <2> QED
    <3>1. /\ Product(f, U) = f[p] * (f[y] * Product(f, W))
          /\ f[y] * Product(f, U \ {y}) = f[y] * (f[p] * Product(f, W))
      BY <2>3, <2>6, <2>7 DEF W
    <3>2. \A a, b, w \in Nat : a * (b * w) = b * (a * w)
      OBVIOUS
    <3> HIDE DEF W
    <3> QED
      BY <2>2, <2>7, <2>9, <3>1, <3>2
<1> QED
  BY <1>2
=============================================================================
