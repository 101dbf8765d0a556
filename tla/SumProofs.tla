----------------------------- MODULE SumProofs -----------------------------
(***************************************************************************)
(* Facts about SumFunction and SumFunctionOnSet of the community modules,  *)
(* which the accounts of the exchange, of the node and of the harness are  *)
(* stated with.  The folds behind them are recursive functions over the    *)
(* subsets of a finite set, so each fact below is reached through a least   *)
(* counterexample: a subset where it fails while it holds on every smaller  *)
(* one.  Nothing here depends on the exchange.                             *)
(***************************************************************************)
EXTENDS Sequences, FiniteSetTheorems, TLAPS

Pick(s) == CHOOSE x \in s : TRUE

\* g tabulates the sums of f over the subsets of S, each from the subset without
\* the element the fold picks.
Tabulates(g, f, S) ==
  g = [s \in SUBSET S |-> IF s = {} THEN 0 ELSE f[Pick(s)] + g[s \ {Pick(s)}]]

\* The fold is the table's entry for the whole set, whichever table CHOOSE takes.
LEMMA SumIsTabulated ==
  ASSUME NEW f, NEW S
  PROVE  SumFunctionOnSet(f, S) = (CHOOSE g : Tabulates(g, f, S))[S]
BY DEF SumFunctionOnSet, FoldFunctionOnSet, MapThenFoldSet, Tabulates, Pick

\* A nonempty family of subsets of a finite set has a member none of whose
\* proper subsets is in the family.
LEMMA LeastSubset ==
  ASSUME NEW S, IsFiniteSet(S), NEW T \in SUBSET (SUBSET S), T # {}
  PROVE  \E U \in T : \A V \in T : ~(V \subseteq U /\ V # U)
<1>1. IsWellFoundedOn(StrictSubsetOrdering(S), FiniteSubsetsOf(S))
  BY FS_StrictSubsetOrderingWellFounded
<1>2. FiniteSubsetsOf(S) = SUBSET S
  BY FS_FiniteSubsetsOfFinite
<1>3. PICK U \in T : \A V \in T : ~(<<V, U>> \in StrictSubsetOrdering(S))
  BY <1>1, <1>2, WFMin
<1> QED BY <1>3 DEF StrictSubsetOrdering

\* The picked element of a nonempty set is in it, so the rest is a proper subset.
LEMMA PickInside ==
  ASSUME NEW s, s # {}
  PROVE  Pick(s) \in s /\ s \ {Pick(s)} \subseteq s /\ s \ {Pick(s)} # s
BY DEF Pick

\* Two tables agree on every subset that both of them cover.
LEMMA TablesAgree ==
  ASSUME NEW f, NEW S, NEW T, NEW g, NEW h, NEW U \in SUBSET (S \cap T),
         IsFiniteSet(S), Tabulates(g, f, S), Tabulates(h, f, T)
  PROVE  g[U] = h[U]
<1> DEFINE Bad == {s \in SUBSET (S \cap T) : g[s] # h[s]}
<1>1. SUFFICES ASSUME Bad # {} PROVE FALSE
  OBVIOUS
<1>2. Bad \in SUBSET (SUBSET S)
  OBVIOUS
<1>3. PICK s \in Bad : \A V \in Bad : ~(V \subseteq s /\ V # s)
  <2> HIDE DEF Bad
  <2> QED BY <1>1, <1>2, LeastSubset
<1>4. s \in SUBSET S /\ s \in SUBSET T /\ g[s] # h[s]
  BY <1>3
<1>5. g[s] = IF s = {} THEN 0 ELSE f[Pick(s)] + g[s \ {Pick(s)}]
  BY <1>4 DEF Tabulates
<1>6. h[s] = IF s = {} THEN 0 ELSE f[Pick(s)] + h[s \ {Pick(s)}]
  BY <1>4 DEF Tabulates
<1>7. s # {}
  BY <1>4, <1>5, <1>6
<1>8. s \ {Pick(s)} \in SUBSET (S \cap T) /\ s \ {Pick(s)} \notin Bad
  BY <1>3, <1>4, <1>7, PickInside
<1>9. g[s \ {Pick(s)}] = h[s \ {Pick(s)}]
  BY <1>8
<1> QED BY <1>4, <1>5, <1>6, <1>7, <1>9

\* Every finite set has a table.
LEMMA TableExists ==
  ASSUME NEW f, NEW S, IsFiniteSet(S)
  PROVE  \E g : Tabulates(g, f, S)
<1> DEFINE Bad == {U \in SUBSET S : ~ \E g : Tabulates(g, f, U)}
<1>1. SUFFICES ASSUME Bad # {} PROVE FALSE
  OBVIOUS
<1>2. Bad \in SUBSET (SUBSET S)
  OBVIOUS
<1>3. PICK U \in Bad : \A V \in Bad : ~(V \subseteq U /\ V # U)
  <2> HIDE DEF Bad
  <2> QED BY <1>2, <1>1, LeastSubset
<1> DEFINE G(V) == CHOOSE g : Tabulates(g, f, V)
<1> DEFINE h == [s \in SUBSET U |->
                   IF s = {} THEN 0
                   ELSE f[Pick(s)] + G(s \ {Pick(s)})[s \ {Pick(s)}]]
<1>4. \A V \in SUBSET U : V # U => Tabulates(G(V), f, V)
  <2> SUFFICES ASSUME NEW V \in SUBSET U, V # U PROVE Tabulates(G(V), f, V)
    OBVIOUS
  <2>1. V \in SUBSET S /\ V \notin Bad
    BY <1>3
  <2>2. \E g : Tabulates(g, f, V)
    BY <2>1
  <2> QED BY <2>2
<1>5. \A s \in SUBSET U : IsFiniteSet(s)
  BY <1>3, FS_Subset
<1> HIDE DEF G
<1>6. ASSUME NEW s \in SUBSET U, s # U
      PROVE  h[s] = G(s)[s]
  <2>1. Tabulates(G(s), f, s)
    BY <1>4, <1>6
  <2>2. G(s)[s] = IF s = {} THEN 0 ELSE f[Pick(s)] + G(s)[s \ {Pick(s)}]
    BY <2>1 DEF Tabulates
  <2>3. CASE s = {}
    BY <2>2, <2>3
  <2>4. CASE s # {}
    <3> DEFINE r == s \ {Pick(s)}
    <3>1. r \in SUBSET s /\ r \in SUBSET U /\ r # U
      BY <1>6, <2>4, PickInside
    <3>2. Tabulates(G(r), f, r)
      BY <1>4, <3>1
    <3>3. G(s)[r] = G(r)[r]
      <4>1. r \in SUBSET (s \cap r)
        BY <3>1
      <4>2. IsFiniteSet(s)
        BY <1>5
      <4> HIDE DEF r
      <4> QED BY <4>1, <4>2, <2>1, <3>2, TablesAgree
    <3> QED BY <2>2, <2>4, <3>3
  <2> QED BY <2>3, <2>4
<1>7. \A s \in SUBSET U : s # {} => h[s \ {Pick(s)}] = G(s \ {Pick(s)})[s \ {Pick(s)}]
  <2> SUFFICES ASSUME NEW s \in SUBSET U, s # {}
               PROVE  h[s \ {Pick(s)}] = G(s \ {Pick(s)})[s \ {Pick(s)}]
    OBVIOUS
  <2>1. s \ {Pick(s)} \in SUBSET U /\ s \ {Pick(s)} # U
    BY PickInside
  <2> HIDE DEF h
  <2> QED BY <1>6, <2>1
<1>8. Tabulates(h, f, U)
  <2>1. h = [s \in SUBSET U |-> IF s = {} THEN 0 ELSE f[Pick(s)] + h[s \ {Pick(s)}]]
    <3>1. \A s \in SUBSET U :
            h[s] = IF s = {} THEN 0 ELSE f[Pick(s)] + h[s \ {Pick(s)}]
      BY <1>7
    <3>2. h = [s \in SUBSET U |-> h[s]]
      OBVIOUS
    <3> HIDE DEF h
    <3> QED BY <3>1, <3>2
  <2> HIDE DEF h
  <2> QED BY <2>1 DEF Tabulates
<1> HIDE DEF h
<1> QED BY <1>3, <1>8

\* The empty sum is 0, and a sum is the picked element's value and the rest.
LEMMA SumByPick ==
  ASSUME NEW f, NEW S, IsFiniteSet(S)
  PROVE  SumFunctionOnSet(f, S) =
           IF S = {} THEN 0
           ELSE f[Pick(S)] + SumFunctionOnSet(f, S \ {Pick(S)})
<1> DEFINE G(V) == CHOOSE g : Tabulates(g, f, V)
<1>1. \A V \in SUBSET S : Tabulates(G(V), f, V)
  <2> SUFFICES ASSUME NEW V \in SUBSET S PROVE Tabulates(G(V), f, V)
    OBVIOUS
  <2>1. \E g : Tabulates(g, f, V)
    BY FS_Subset, TableExists
  <2> QED BY <2>1
<1>2. SumFunctionOnSet(f, S) = G(S)[S]
  BY SumIsTabulated
<1>3. SumFunctionOnSet(f, S \ {Pick(S)}) = G(S \ {Pick(S)})[S \ {Pick(S)}]
  BY SumIsTabulated
<1> HIDE DEF G
<1>4. Tabulates(G(S), f, S)
  BY <1>1
<1>5. G(S)[S] = IF S = {} THEN 0 ELSE f[Pick(S)] + G(S)[S \ {Pick(S)}]
  BY <1>4 DEF Tabulates
<1>6. CASE S = {}
  BY <1>2, <1>5, <1>6
<1>7. CASE S # {}
  <2> DEFINE r == S \ {Pick(S)}
  <2>1. r \in SUBSET S /\ r \in SUBSET (S \cap r)
    OBVIOUS
  <2>2. Tabulates(G(r), f, r)
    BY <1>1, <2>1
  <2>3. G(S)[r] = G(r)[r]
    <3> HIDE DEF r
    <3> QED BY <1>4, <2>1, <2>2, TablesAgree
  <2> QED BY <1>2, <1>3, <1>5, <1>7, <2>3
<1> QED BY <1>6, <1>7

\* The empty sum.
LEMMA SumEmpty ==
  ASSUME NEW f
  PROVE  SumFunctionOnSet(f, {}) = 0
BY SumByPick, FS_EmptySet

\* A sum of integers is an integer.
LEMMA SumInt ==
  ASSUME NEW f, NEW S, IsFiniteSet(S), \A x \in S : f[x] \in Int
  PROVE  SumFunctionOnSet(f, S) \in Int
<1> DEFINE Bad == {U \in SUBSET S : SumFunctionOnSet(f, U) \notin Int}
<1>1. SUFFICES ASSUME Bad # {} PROVE FALSE
  OBVIOUS
<1>2. Bad \in SUBSET (SUBSET S)
  OBVIOUS
<1>3. PICK U \in Bad : \A V \in Bad : ~(V \subseteq U /\ V # U)
  <2> HIDE DEF Bad
  <2> QED BY <1>1, <1>2, LeastSubset
<1>4. IsFiniteSet(U) /\ U \in SUBSET S
  BY <1>3, FS_Subset
<1>5. U # {}
  BY <1>3, SumEmpty
<1>6. Pick(U) \in U /\ U \ {Pick(U)} \subseteq U /\ U \ {Pick(U)} # U
  BY <1>5, PickInside
<1>7. SumFunctionOnSet(f, U \ {Pick(U)}) \in Int
  BY <1>3, <1>4, <1>6
<1>8. SumFunctionOnSet(f, U) = f[Pick(U)] + SumFunctionOnSet(f, U \ {Pick(U)})
  BY <1>4, <1>5, SumByPick
<1>9. f[Pick(U)] \in Int
  BY <1>4, <1>6
<1> QED BY <1>3, <1>7, <1>8, <1>9

\* Any element may be taken out first: the sum does not depend on the order.
LEMMA SumTakeOut ==
  ASSUME NEW f, NEW S, IsFiniteSet(S), \A x \in S : f[x] \in Int, NEW k \in S
  PROVE  SumFunctionOnSet(f, S) = f[k] + SumFunctionOnSet(f, S \ {k})
<1> DEFINE Bad == {U \in SUBSET S : \E x \in U :
                     SumFunctionOnSet(f, U) # f[x] + SumFunctionOnSet(f, U \ {x})}
<1>1. SUFFICES ASSUME Bad # {} PROVE FALSE
  OBVIOUS
<1>2. Bad \in SUBSET (SUBSET S)
  OBVIOUS
<1>3. PICK U \in Bad : \A V \in Bad : ~(V \subseteq U /\ V # U)
  <2> HIDE DEF Bad
  <2> QED BY <1>1, <1>2, LeastSubset
<1>4. PICK x \in U : SumFunctionOnSet(f, U) # f[x] + SumFunctionOnSet(f, U \ {x})
  BY <1>3
<1> DEFINE p == Pick(U)
<1> DEFINE Up == U \ {p}
<1> DEFINE Ux == U \ {x}
<1> DEFINE W == U \ {x, p}
<1>5. U \in SUBSET S /\ p \in U
  BY <1>3, PickInside
<1>6. IsFiniteSet(U) /\ IsFiniteSet(W)
  BY <1>5, FS_Subset
<1>7. SumFunctionOnSet(f, U) = f[p] + SumFunctionOnSet(f, Up)
  BY <1>5, <1>6, SumByPick
<1>8. x # p
  BY <1>4, <1>7
<1>9. Up \in SUBSET S /\ Up \notin Bad /\ Ux \in SUBSET S /\ Ux \notin Bad
  <2>1. Up \subseteq U /\ Up # U /\ Ux \subseteq U /\ Ux # U
    BY <1>5
  <2> HIDE DEF Bad, Up, Ux
  <2> QED BY <1>3, <1>5, <2>1
<1>10. SumFunctionOnSet(f, Up) = f[x] + SumFunctionOnSet(f, W)
  <2>1. x \in Up /\ Up \ {x} = W
    BY <1>8
  <2>2. SumFunctionOnSet(f, Up) = f[x] + SumFunctionOnSet(f, Up \ {x})
    BY <1>9, <2>1
  <2> QED BY <2>1, <2>2
<1>11. SumFunctionOnSet(f, Ux) = f[p] + SumFunctionOnSet(f, W)
  <2>1. p \in Ux /\ Ux \ {p} = W
    BY <1>5, <1>8
  <2>2. SumFunctionOnSet(f, Ux) = f[p] + SumFunctionOnSet(f, Ux \ {p})
    BY <1>9, <2>1
  <2> QED BY <2>1, <2>2
<1>12. f[x] \in Int /\ f[p] \in Int /\ SumFunctionOnSet(f, W) \in Int
  <2>1. \A y \in W : f[y] \in Int
    BY <1>5
  <2> HIDE DEF W
  <2> QED BY <1>5, <1>6, <2>1, SumInt
<1>13. SumFunctionOnSet(f, U) = f[x] + SumFunctionOnSet(f, Ux)
  <2> HIDE DEF Ux, Up, W, p
  <2> QED BY <1>7, <1>10, <1>11, <1>12
<1> QED BY <1>4, <1>13

\* Functions that agree on a set have the same sum there.
LEMMA SumSame ==
  ASSUME NEW f, NEW g, NEW S, IsFiniteSet(S), \A x \in S : f[x] = g[x]
  PROVE  SumFunctionOnSet(f, S) = SumFunctionOnSet(g, S)
<1> DEFINE Bad == {U \in SUBSET S : SumFunctionOnSet(f, U) # SumFunctionOnSet(g, U)}
<1>1. SUFFICES ASSUME Bad # {} PROVE FALSE
  OBVIOUS
<1>2. Bad \in SUBSET (SUBSET S)
  OBVIOUS
<1>3. PICK U \in Bad : \A V \in Bad : ~(V \subseteq U /\ V # U)
  <2> HIDE DEF Bad
  <2> QED BY <1>1, <1>2, LeastSubset
<1>4. IsFiniteSet(U) /\ U \in SUBSET S
  BY <1>3, FS_Subset
<1>5. U # {}
  BY <1>3, SumEmpty
<1>6. Pick(U) \in U /\ U \ {Pick(U)} \subseteq U /\ U \ {Pick(U)} # U
  BY <1>5, PickInside
<1>7. SumFunctionOnSet(f, U \ {Pick(U)}) = SumFunctionOnSet(g, U \ {Pick(U)})
  BY <1>3, <1>4, <1>6
<1>8. SumFunctionOnSet(f, U) = f[Pick(U)] + SumFunctionOnSet(f, U \ {Pick(U)})
  BY <1>4, <1>5, SumByPick
<1>9. SumFunctionOnSet(g, U) = g[Pick(U)] + SumFunctionOnSet(g, U \ {Pick(U)})
  BY <1>4, <1>5, SumByPick
<1>10. f[Pick(U)] = g[Pick(U)]
  BY <1>4, <1>6
<1> QED BY <1>3, <1>7, <1>8, <1>9, <1>10

\* A sum of naturals is a natural.
LEMMA SumNatOnSet ==
  ASSUME NEW f, NEW S, IsFiniteSet(S), \A x \in S : f[x] \in Nat
  PROVE  SumFunctionOnSet(f, S) \in Nat
<1> DEFINE Bad == {U \in SUBSET S : SumFunctionOnSet(f, U) \notin Nat}
<1>1. SUFFICES ASSUME Bad # {} PROVE FALSE
  OBVIOUS
<1>2. Bad \in SUBSET (SUBSET S)
  OBVIOUS
<1>3. PICK U \in Bad : \A V \in Bad : ~(V \subseteq U /\ V # U)
  <2> HIDE DEF Bad
  <2> QED BY <1>1, <1>2, LeastSubset
<1>4. IsFiniteSet(U) /\ U \in SUBSET S
  BY <1>3, FS_Subset
<1>5. U # {}
  <2>1. SumFunctionOnSet(f, {}) \in Nat
    BY SumEmpty
  <2> QED BY <1>3, <2>1
<1>6. Pick(U) \in U /\ U \ {Pick(U)} \subseteq U /\ U \ {Pick(U)} # U
  BY <1>5, PickInside
<1>7. SumFunctionOnSet(f, U \ {Pick(U)}) \in Nat
  BY <1>3, <1>4, <1>6
<1>8. SumFunctionOnSet(f, U) = f[Pick(U)] + SumFunctionOnSet(f, U \ {Pick(U)})
  BY <1>4, <1>5, SumByPick
<1>9. f[Pick(U)] \in Nat
  BY <1>4, <1>6
<1> QED BY <1>3, <1>7, <1>8, <1>9

\* The sum of a function's values, all of them integers (all of them naturals).
LEMMA SumType ==
  ASSUME NEW D, IsFiniteSet(D)
  PROVE  /\ \A f \in [D -> Int] : SumFunction(f) \in Int
         /\ \A f \in [D -> Nat] : SumFunction(f) \in Nat
<1>1. ASSUME NEW f \in [D -> Int] PROVE SumFunction(f) \in Int
  <2>1. SumFunctionOnSet(f, D) \in Int
    BY <1>1, SumInt
  <2> QED BY <1>1, <2>1 DEF SumFunction
<1>2. ASSUME NEW f \in [D -> Nat] PROVE SumFunction(f) \in Nat
  <2>1. SumFunctionOnSet(f, D) \in Nat
    BY <1>2, SumNatOnSet
  <2> QED BY <1>2, <2>1 DEF SumFunction
<1> QED BY <1>1, <1>2

\* A function that changes at one point changes its sum by that difference: the
\* form in which every account below is used.
LEMMA SumChange ==
  ASSUME NEW D, IsFiniteSet(D), NEW f \in [D -> Int], NEW g \in [D -> Int],
         NEW k \in D, \A x \in D \ {k} : g[x] = f[x]
  PROVE  SumFunction(g) = SumFunction(f) - f[k] + g[k]
<1> DEFINE R == D \ {k}
<1>1. SumFunctionOnSet(f, D) = f[k] + SumFunctionOnSet(f, R)
  BY SumTakeOut
<1>2. SumFunctionOnSet(g, D) = g[k] + SumFunctionOnSet(g, R)
  BY SumTakeOut
<1>3. IsFiniteSet(R)
  BY FS_Subset
<1>4. SumFunctionOnSet(f, R) = SumFunctionOnSet(g, R)
  <2>1. \A x \in R : f[x] = g[x]
    OBVIOUS
  <2> HIDE DEF R
  <2> QED BY <1>3, <2>1, SumSame
<1>5. SumFunctionOnSet(f, R) \in Int
  <2>1. \A x \in R : f[x] \in Int
    OBVIOUS
  <2> HIDE DEF R
  <2> QED BY <1>3, <2>1, SumInt
<1>6. SumFunction(f) = SumFunctionOnSet(f, D) /\ SumFunction(g) = SumFunctionOnSet(g, D)
  BY DEF SumFunction
<1>7. f[k] \in Int /\ g[k] \in Int
  OBVIOUS
<1> HIDE DEF R
<1> QED BY <1>1, <1>2, <1>4, <1>5, <1>6, <1>7

\* The sum of a function that is 0 everywhere.
LEMMA SumZero ==
  ASSUME NEW D, IsFiniteSet(D), NEW f \in [D -> Int], \A x \in D : f[x] = 0
  PROVE  SumFunction(f) = 0
<1> DEFINE Bad == {U \in SUBSET D : SumFunctionOnSet(f, U) # 0}
<1>0. SumFunction(f) = SumFunctionOnSet(f, D)
  BY DEF SumFunction
<1>1. SUFFICES ASSUME Bad # {} PROVE FALSE
  BY <1>0
<1>2. Bad \in SUBSET (SUBSET D)
  OBVIOUS
<1>3. PICK U \in Bad : \A V \in Bad : ~(V \subseteq U /\ V # U)
  <2> HIDE DEF Bad
  <2> QED BY <1>1, <1>2, LeastSubset
<1>4. IsFiniteSet(U) /\ U \in SUBSET D
  BY <1>3, FS_Subset
<1>5. U # {}
  BY <1>3, SumEmpty
<1>6. Pick(U) \in U /\ U \ {Pick(U)} \subseteq U /\ U \ {Pick(U)} # U
  BY <1>5, PickInside
<1>7. SumFunctionOnSet(f, U \ {Pick(U)}) = 0
  BY <1>3, <1>4, <1>6
<1>8. SumFunctionOnSet(f, U) = f[Pick(U)] + SumFunctionOnSet(f, U \ {Pick(U)})
  BY <1>4, <1>5, SumByPick
<1>9. f[Pick(U)] = 0
  BY <1>4, <1>6
<1> QED BY <1>3, <1>7, <1>8, <1>9

\* No value of a sum of naturals exceeds the sum, and two of them do not either.
LEMMA SumBounds ==
  ASSUME NEW D, IsFiniteSet(D), NEW f \in [D -> Nat], NEW k \in D
  PROVE  f[k] <= SumFunction(f)
<1>1. SumFunctionOnSet(f, D) = f[k] + SumFunctionOnSet(f, D \ {k})
  BY SumTakeOut
<1>2. SumFunctionOnSet(f, D \ {k}) \in Nat
  BY SumNatOnSet, FS_Subset
<1>3. SumFunction(f) = SumFunctionOnSet(f, D)
  BY DEF SumFunction
<1>4. f[k] \in Nat
  OBVIOUS
<1> QED BY <1>1, <1>2, <1>3, <1>4

(* The sum of a sequence grows by what is appended; of an empty one it is zero. *)
LEMMA SumAppend ==
  ASSUME NEW s \in Seq(Nat), NEW n \in Nat
  PROVE  /\ SumFunction(<<>>) = 0
         /\ SumFunction(Append(s, n)) = SumFunction(s) + n /\ SumFunction(s) \in Nat
<1> DEFINE t == Append(s, n)
           D == 1 .. Len(s)
           k == Len(s) + 1
<1>1. /\ Len(s) \in Nat /\ k \notin D /\ (D \cup {k}) \ {k} = D
      /\ IsFiniteSet(D) /\ IsFiniteSet(D \cup {k})
  <2>1. /\ Len(s) \in Nat /\ k \notin D /\ (D \cup {k}) \ {k} = D
        /\ 1 \in Int /\ Len(s) \in Int
    OBVIOUS
  <2>2. IsFiniteSet(D)
    BY <2>1, FS_Interval
  <2> HIDE DEF D, k
  <2>3. IsFiniteSet(D \cup {k})
    BY <2>2, FS_AddElement
  <2> QED
    BY <2>1, <2>2, <2>3 DEF D, k
<1>2. /\ s \in [D -> Nat] /\ DOMAIN s = D
      /\ DOMAIN t = D \cup {k} /\ t[k] = n /\ \A x \in D : t[x] = s[x]
  OBVIOUS
<1> HIDE DEF t, k
<1>3. SumFunctionOnSet(t, D \cup {k}) = t[k] + SumFunctionOnSet(t, (D \cup {k}) \ {k})
  BY <1>1, <1>2, SumTakeOut
<1>4. SumFunctionOnSet(t, D) = SumFunctionOnSet(s, D)
  BY <1>1, <1>2, SumSame
<1>5. SumFunction(t) = n + SumFunction(s) /\ SumFunction(s) \in Nat
  <2>1. SumFunction(s) \in Nat
    BY <1>1, <1>2, SumType
  <2> QED
    BY <1>1, <1>2, <1>3, <1>4, <2>1 DEF SumFunction
<1>6. SumFunction(<<>>) = 0
  BY SumEmpty DEF SumFunction
<1>7. SumFunction(t) = SumFunction(s) + n
  BY <1>5
<1> QED
  BY <1>5, <1>6, <1>7 DEF t

(* A nonempty set of natural numbers has a least one. *)
LEMMA LeastNumber ==
  ASSUME NEW T \in SUBSET Nat, T # {}
  PROVE  \E m \in T : \A n \in T : m <= n
<1>1. PICK m \in T : \A n \in T : ~(<<n, m>> \in OpToRel(<, Nat))
  BY NatLessThanWellFounded, WFMin
<1>2. ASSUME NEW n \in T PROVE m <= n
  <2>1. <<n, m>> \in Nat \X Nat /\ ~(n < m)
    BY <1>1 DEF OpToRel
  <2> QED
    BY <2>1
<1> QED
  BY <1>2

(* A sum of equal terms is their product. *)
LEMMA SumConstant ==
  ASSUME NEW n \in Nat, NEW c \in Int
  PROVE  SumFunction([i \in 1 .. n |-> c]) = n * c
<1> DEFINE f == [i \in 1 .. n |-> c]
           Bad == {k \in 0 .. n : SumFunctionOnSet(f, 1 .. k) # k * c}
<1>1. ASSUME Bad # {} PROVE FALSE
  <2>1. PICK k \in Bad : \A j \in Bad : k <= j
    <3>1. Bad \in SUBSET Nat
      OBVIOUS
    <3> HIDE DEF Bad
    <3> QED
      BY <1>1, <3>1, LeastNumber
  <2>2. k \in 0 .. n /\ SumFunctionOnSet(f, 1 .. k) # k * c
    BY <2>1
  <2>3. k # 0
    <3>1. SumFunctionOnSet(f, {}) = 0 /\ 1 .. 0 = {} /\ 0 * c = 0
      BY SumEmpty
    <3> QED
      BY <2>2, <3>1
  <2>4. k - 1 \in 0 .. n /\ k - 1 \notin Bad
    BY <2>1, <2>2, <2>3
  <2>5. SumFunctionOnSet(f, 1 .. k - 1) = (k - 1) * c
    BY <2>4
  <2>6. SumFunctionOnSet(f, 1 .. k) = f[k] + SumFunctionOnSet(f, (1 .. k) \ {k})
    <3>1. IsFiniteSet(1 .. k)
      <4>1. 1 \in Int /\ k \in Int
        BY <2>2
      <4> QED
        BY <4>1, FS_Interval
    <3>2. k \in 1 .. k /\ \A x \in 1 .. k : f[x] \in Int
      BY <2>2, <2>3
    <3> HIDE DEF f
    <3> QED
      BY <3>1, <3>2, SumTakeOut
  <2>7. (1 .. k) \ {k} = 1 .. k - 1 /\ f[k] = c
    BY <2>2, <2>3
  <2>8. k * c = c + (k - 1) * c
    BY <2>2
  <2> QED
    BY <2>2, <2>5, <2>6, <2>7, <2>8
<1>2. n \in 0 .. n /\ n \notin Bad
  BY <1>1
<1>3. SumFunctionOnSet(f, 1 .. n) = n * c
  BY <1>2
<1> QED
  BY <1>3 DEF SumFunction

=============================================================================
