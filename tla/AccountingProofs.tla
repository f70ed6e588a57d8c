--------------------------- MODULE AccountingProofs ---------------------------
(***************************************************************************)
(* The accounts of Accounting, proved for every number of days, months,     *)
(* bookings, uses and prices.                                               *)
(*                                                                         *)
(* Bills, revenues and counts are sums over finite sets.  A sum is a        *)
(* recursive function, that is, a chosen one: that there is such a function *)
(* and that it does not matter in which order a set is added up follows by  *)
(* looking at a least set for which it were not so.                         *)
(***************************************************************************)
EXTENDS Accounting, FiniteSetTheorems, TLAPS

(* Sums over finite sets *)

Some(S) == CHOOSE x \in S : TRUE
IsSum(g, f, S) ==
  g = [s \in SUBSET S |-> IF s = {} THEN 0 ELSE f[Some(s)] + g[s \ {Some(s)}]]

LEMMA SumIsChosen ==
  ASSUME NEW f, NEW S
  PROVE SumFunctionOnSet(f, S) = (CHOOSE g : IsSum(g, f, S))[S]
  BY DEF SumFunctionOnSet, FoldFunctionOnSet, MapThenFoldSet, IsSum, Some

LEMMA SomeIn ==
  ASSUME NEW S, S # {}
  PROVE Some(S) \in S
  BY DEF Some

\* The least counterexample among the finite subsets of a set
LEMMA LeastSubset ==
  ASSUME NEW S, NEW T, T \subseteq FiniteSubsetsOf(S), T # {}
  PROVE \E s \in T : \A t \in T : t \subseteq s => t = s
<1>1. PICK s \in T : \A t \in T : ~(<<t, s>> \in StrictSubsetOrdering(S))
  BY FS_StrictSubsetOrderingWellFounded, WFMin
<1>2. \A t \in T : t \subseteq s => t = s
  BY <1>1 DEF StrictSubsetOrdering, FiniteSubsetsOf
<1> QED BY <1>2

LEMMA LeastOf ==
  ASSUME NEW S, IsFiniteSet(S), NEW T, T \subseteq SUBSET S, T # {}
  PROVE \E s \in T : \A t \in T : t \subseteq s => t = s
BY LeastSubset, FS_FiniteSubsetsOfFinite

\* What two such functions say of a set that both know
LEMMA SumsAgree ==
  ASSUME NEW f, NEW S, NEW T, IsFiniteSet(S), T \subseteq S,
         NEW g, IsSum(g, f, S), NEW h, IsSum(h, f, T)
  PROVE \A s \in SUBSET T : g[s] = h[s]
<1> DEFINE Bad == {s \in SUBSET T : g[s] # h[s]}
<1> SUFFICES ASSUME Bad # {} PROVE FALSE
  OBVIOUS
<1>1. PICK s \in Bad : \A t \in Bad : t \subseteq s => t = s
  <2>1. Bad \subseteq SUBSET S OBVIOUS
  <2> HIDE DEF Bad
  <2> QED BY <2>1, LeastOf
<1>2. s # {}
  BY <1>1 DEF IsSum
<1>3. Some(s) \in s
  BY <1>2, SomeIn
<1>4. g[s \ {Some(s)}] = h[s \ {Some(s)}]
  BY <1>1, <1>3
<1>5. g[s] = f[Some(s)] + g[s \ {Some(s)}]
  BY <1>1, <1>2 DEF IsSum
<1>6. h[s] = f[Some(s)] + h[s \ {Some(s)}]
  BY <1>1, <1>2 DEF IsSum
<1> QED BY <1>1, <1>4, <1>5, <1>6

\* There is one
LEMMA SumExists ==
  ASSUME NEW f, NEW S, IsFiniteSet(S)
  PROVE \E g : IsSum(g, f, S)
<1> DEFINE Bad == {T \in SUBSET S : ~\E g : IsSum(g, f, T)}
<1> SUFFICES ASSUME Bad # {} PROVE FALSE
  OBVIOUS
<1>1. PICK T \in Bad : \A t \in Bad : t \subseteq T => t = T
  <2>1. Bad \subseteq SUBSET S OBVIOUS
  <2> HIDE DEF Bad
  <2> QED BY <2>1, LeastOf
<1>2. T \in SUBSET S /\ IsFiniteSet(T)
  BY <1>1, FS_Subset
<1> DEFINE K(u) == CHOOSE g : IsSum(g, f, u)
<1>3. \A u \in SUBSET T : u # T => IsSum(K(u), f, u)
  <2>1. \A u \in SUBSET T : u # T => \E g : IsSum(g, f, u)
    BY <1>1
  <2> QED BY <2>1
<1> DEFINE Rest(s) == s \ {Some(s)}
           F == [s \in SUBSET T |-> IF s = {} THEN 0 ELSE f[Some(s)] + K(Rest(s))[Rest(s)]]
<1>4. \A u \in SUBSET T : u # T => F[u] = K(u)[u]
  <2> SUFFICES ASSUME NEW u \in SUBSET T, u # T PROVE F[u] = K(u)[u]
    OBVIOUS
  <2>1. IsSum(K(u), f, u) BY <1>3
  <2>2. CASE u = {}
    <3>1. F[u] = 0 BY <2>2
    <3>2. K(u)[u] = 0
      <4> HIDE DEF K
      <4> QED BY <2>1, <2>2 DEF IsSum
    <3> QED BY <3>1, <3>2
  <2>3. CASE u # {}
    <3>1. Some(u) \in u BY <2>3, SomeIn
    <3>2. IsSum(K(Rest(u)), f, Rest(u)) BY <1>3, <3>1
    <3> HIDE DEF K
    <3>3. Rest(u) \in SUBSET u /\ Rest(u) \subseteq u OBVIOUS
    <3>4. K(u)[u] = f[Some(u)] + K(u)[Rest(u)]
      BY <2>1, <2>3, <3>1 DEF IsSum
    <3>5. IsFiniteSet(u) BY <1>2, FS_Subset
    <3>6. K(u)[Rest(u)] = K(Rest(u))[Rest(u)]
      <4> HIDE DEF Rest
      <4>1. Rest(u) \in SUBSET Rest(u) OBVIOUS
      <4> QED BY <4>1, <2>1, <3>2, <3>3, <3>5, SumsAgree
    <3> QED BY <2>3, <3>4, <3>6
  <2> QED BY <2>2, <2>3
<1>5. \A s \in SUBSET T : s # {} => F[Rest(s)] = K(Rest(s))[Rest(s)]
  <2> SUFFICES ASSUME NEW s \in SUBSET T, s # {} PROVE F[Rest(s)] = K(Rest(s))[Rest(s)]
    OBVIOUS
  <2>1. Some(s) \in s BY SomeIn
  <2>2. Rest(s) \in SUBSET T /\ Rest(s) # T BY <2>1
  <2> HIDE DEF F, Rest, K
  <2> QED BY <2>2, <1>4
<1>6. IsSum(F, f, T)
  <2>1. F = [s \in SUBSET T |-> IF s = {} THEN 0 ELSE f[Some(s)] + F[Rest(s)]]
    <3> DEFINE G == [s \in SUBSET T |-> IF s = {} THEN 0 ELSE f[Some(s)] + F[Rest(s)]]
    <3>1. \A s \in SUBSET T : F[s] = G[s]
      <4> SUFFICES ASSUME NEW s \in SUBSET T PROVE F[s] = G[s]
        OBVIOUS
      <4>1. CASE s = {} BY <4>1
      <4>2. CASE s # {}
        <5>1. F[s] = f[Some(s)] + K(Rest(s))[Rest(s)] BY <4>2
        <5>2. G[s] = f[Some(s)] + F[Rest(s)] BY <4>2
        <5> HIDE DEF F, G, K, Rest
        <5> QED BY <5>1, <5>2, <1>5, <4>2
      <4> QED BY <4>1, <4>2
    <3> HIDE DEF K
    <3> QED BY <3>1
  <2> HIDE DEF F
  <2> QED BY <2>1 DEF IsSum
<1> HIDE DEF F
<1> QED BY <1>1, <1>6

\* The equation the sum is defined by
LEMMA SumIs ==
  ASSUME NEW f, NEW S, IsFiniteSet(S)
  PROVE SumFunctionOnSet(f, S) =
          IF S = {} THEN 0 ELSE f[Some(S)] + SumFunctionOnSet(f, S \ {Some(S)})
<1> DEFINE K(u) == CHOOSE g : IsSum(g, f, u)
           R == S \ {Some(S)}
<1>1. IsSum(K(S), f, S)
  BY SumExists
<1>2. IsFiniteSet(R)
  BY FS_Subset
<1>3. IsSum(K(R), f, R)
  BY <1>2, SumExists
<1>4. SumFunctionOnSet(f, S) = K(S)[S] /\ SumFunctionOnSet(f, R) = K(R)[R]
  BY SumIsChosen
<1>5. R \in SUBSET R /\ R \subseteq S OBVIOUS
<1> HIDE DEF K, R
<1>6. K(S)[R] = K(R)[R]
  BY <1>1, <1>3, <1>5, SumsAgree
<1> USE DEF R
<1>7. S = {} => K(S)[S] = 0
  BY <1>1 DEF IsSum
<1>8. S # {} => K(S)[S] = f[Some(S)] + K(S)[R]
  BY <1>1 DEF IsSum
<1> HIDE DEF R
<1>9. SumFunctionOnSet(f, S) = IF S = {} THEN 0 ELSE f[Some(S)] + SumFunctionOnSet(f, R)
  BY <1>4, <1>6, <1>7, <1>8
<1> QED BY <1>9 DEF R

LEMMA SumEmpty ==
  ASSUME NEW f
  PROVE SumFunctionOnSet(f, {}) = 0
BY SumIs, FS_EmptySet

LEMMA SumNat ==
  ASSUME NEW f, NEW S, IsFiniteSet(S), \A x \in S : f[x] \in Nat
  PROVE SumFunctionOnSet(f, S) \in Nat
<1> DEFINE Bad == {s \in SUBSET S : SumFunctionOnSet(f, s) \notin Nat}
<1> SUFFICES ASSUME Bad # {} PROVE FALSE
  OBVIOUS
<1>1. PICK s \in Bad : \A t \in Bad : t \subseteq s => t = s
  <2>1. Bad \subseteq SUBSET S OBVIOUS
  <2> HIDE DEF Bad
  <2> QED BY <2>1, LeastOf
<1>2. IsFiniteSet(s)
  BY <1>1, FS_Subset
<1>3. s # {}
  <2>1. SumFunctionOnSet(f, {}) \in Nat
    BY SumEmpty
  <2>2. {} \notin Bad
    BY <2>1
  <2> HIDE DEF Bad
  <2> QED BY <1>1, <2>2
<1>4. Some(s) \in s
  BY <1>3, SomeIn
<1>5. SumFunctionOnSet(f, s \ {Some(s)}) \in Nat
  BY <1>1, <1>4
<1>6. SumFunctionOnSet(f, s) = f[Some(s)] + SumFunctionOnSet(f, s \ {Some(s)})
  BY <1>2, <1>3, SumIs
<1>7. f[Some(s)] \in Nat
  BY <1>1, <1>4
<1>8. SumFunctionOnSet(f, s) \in Nat
  BY <1>5, <1>6, <1>7
<1> QED BY <1>1, <1>8

LEMMA SumEqual ==
  ASSUME NEW f, NEW g, NEW S, IsFiniteSet(S), \A x \in S : f[x] = g[x]
  PROVE SumFunctionOnSet(f, S) = SumFunctionOnSet(g, S)
<1> DEFINE Bad == {s \in SUBSET S : SumFunctionOnSet(f, s) # SumFunctionOnSet(g, s)}
<1> SUFFICES ASSUME Bad # {} PROVE FALSE
  OBVIOUS
<1>1. PICK s \in Bad : \A t \in Bad : t \subseteq s => t = s
  <2>1. Bad \subseteq SUBSET S OBVIOUS
  <2> HIDE DEF Bad
  <2> QED BY <2>1, LeastOf
<1>2. IsFiniteSet(s)
  BY <1>1, FS_Subset
<1>3. s # {}
  <2>1. SumFunctionOnSet(f, {}) = 0 /\ SumFunctionOnSet(g, {}) = 0
    BY SumEmpty
  <2> QED BY <1>1, <2>1
<1>4. Some(s) \in s
  BY <1>3, SomeIn
<1>5. SumFunctionOnSet(f, s \ {Some(s)}) = SumFunctionOnSet(g, s \ {Some(s)})
  BY <1>1, <1>4
<1>6. SumFunctionOnSet(f, s) = f[Some(s)] + SumFunctionOnSet(f, s \ {Some(s)})
  BY <1>2, <1>3, SumIs
<1>7. SumFunctionOnSet(g, s) = g[Some(s)] + SumFunctionOnSet(g, s \ {Some(s)})
  BY <1>2, <1>3, SumIs
<1>8. f[Some(s)] = g[Some(s)]
  BY <1>1, <1>4
<1> QED BY <1>1, <1>5, <1>6, <1>7, <1>8

\* Any element may be taken out, whichever comes first
LEMMA SumWithout ==
  ASSUME NEW f, NEW S, IsFiniteSet(S), \A x \in S : f[x] \in Nat, NEW y \in S
  PROVE SumFunctionOnSet(f, S) = f[y] + SumFunctionOnSet(f, S \ {y})
<1> DEFINE Holds(s, z) == SumFunctionOnSet(f, s) = f[z] + SumFunctionOnSet(f, s \ {z})
           Bad == {s \in SUBSET S : \E z \in s : ~Holds(s, z)}
<1> SUFFICES ASSUME Bad # {} PROVE FALSE
  OBVIOUS
<1>1. PICK s \in Bad : \A t \in Bad : t \subseteq s => t = s
  <2>1. Bad \subseteq SUBSET S OBVIOUS
  <2> HIDE DEF Bad
  <2> QED BY <2>1, LeastOf
<1>2. IsFiniteSet(s)
  BY <1>1, FS_Subset
<1>3. PICK z \in s : ~Holds(s, z)
  BY <1>1
<1> DEFINE x == Some(s)
<1>4. x \in s
  BY <1>3, SomeIn
<1>5. Holds(s, x)
  BY <1>2, <1>3, SumIs
<1>6. x # z
  BY <1>3, <1>5
<1> HIDE DEF x
<1>7. s \ {x} \notin Bad /\ s \ {z} \notin Bad
  BY <1>1, <1>3, <1>4
<1>8. s \ {x} \in SUBSET S /\ s \ {z} \in SUBSET S /\ z \in s \ {x} /\ x \in s \ {z}
  BY <1>1, <1>3, <1>4, <1>6
<1>9. Holds(s \ {x}, z) /\ Holds(s \ {z}, x)
  BY <1>7, <1>8
<1>10. (s \ {x}) \ {z} = (s \ {z}) \ {x}
  OBVIOUS
<1> DEFINE rest == SumFunctionOnSet(f, (s \ {z}) \ {x})
<1>11. f[x] \in Nat /\ f[z] \in Nat /\ rest \in Nat
  <2>1. (s \ {z}) \ {x} \subseteq S /\ IsFiniteSet((s \ {z}) \ {x})
    BY <1>1, <1>2, FS_Subset
  <2>2. \A u \in (s \ {z}) \ {x} : f[u] \in Nat
    BY <2>1
  <2> QED BY <1>1, <1>3, <1>4, <2>1, <2>2, SumNat
<1>12. SumFunctionOnSet(f, s) = f[x] + (f[z] + rest)
  BY <1>5, <1>9, <1>10
<1>13. SumFunctionOnSet(f, s \ {z}) = f[x] + rest
  BY <1>9
<1> HIDE DEF rest
<1>14. Holds(s, z)
  BY <1>11, <1>12, <1>13
<1> QED BY <1>3, <1>14

LEMMA SumUnion ==
  ASSUME NEW f, NEW S, NEW T, IsFiniteSet(S), IsFiniteSet(T), S \cap T = {},
         \A x \in S \cup T : f[x] \in Nat
  PROVE SumFunctionOnSet(f, S \cup T) = SumFunctionOnSet(f, S) + SumFunctionOnSet(f, T)
<1> DEFINE Holds(s) == SumFunctionOnSet(f, s \cup T) = SumFunctionOnSet(f, s) + SumFunctionOnSet(f, T)
           Bad == {s \in SUBSET S : ~Holds(s)}
<1> SUFFICES ASSUME Bad # {} PROVE FALSE
  OBVIOUS
<1>1. PICK s \in Bad : \A t \in Bad : t \subseteq s => t = s
  <2>1. Bad \subseteq SUBSET S OBVIOUS
  <2> HIDE DEF Bad
  <2> QED BY <2>1, LeastOf
<1>2. IsFiniteSet(s) /\ IsFiniteSet(s \cup T) /\ s \subseteq S
  BY <1>1, FS_Subset, FS_Union
<1>3. SumFunctionOnSet(f, T) \in Nat
  BY SumNat
<1>4. s # {}
  <2>1. {} \cup T = T OBVIOUS
  <2>2. SumFunctionOnSet(f, {}) = 0
    BY SumEmpty
  <2>3. Holds({})
    BY <1>3, <2>1, <2>2
  <2> QED BY <1>1, <2>3
<1>5. PICK x : x \in s
  BY <1>4
<1>6. Holds(s \ {x})
  BY <1>1, <1>5
<1>7. SumFunctionOnSet(f, s) = f[x] + SumFunctionOnSet(f, s \ {x})
  BY <1>2, <1>5, SumWithout
<1>8. SumFunctionOnSet(f, s \cup T) = f[x] + SumFunctionOnSet(f, (s \ {x}) \cup T)
  <2>1. (s \cup T) \ {x} = (s \ {x}) \cup T
    BY <1>2, <1>5
  <2>2. \A y \in s \cup T : f[y] \in Nat
    BY <1>2
  <2> QED BY <1>2, <1>5, <2>1, <2>2, SumWithout
<1>9. f[x] \in Nat /\ SumFunctionOnSet(f, s \ {x}) \in Nat
  <2>1. IsFiniteSet(s \ {x}) BY <1>2, FS_Subset
  <2>2. \A y \in s \ {x} : f[y] \in Nat BY <1>2
  <2> QED BY <1>2, <1>5, <2>1, <2>2, SumNat
<1>10. Holds(s)
  BY <1>3, <1>6, <1>7, <1>8, <1>9
<1> QED BY <1>1, <1>10

LEMMA SumWithin ==
  ASSUME NEW f, NEW S, NEW T, IsFiniteSet(S), T \subseteq S, \A x \in S : f[x] \in Nat
  PROVE /\ SumFunctionOnSet(f, T) \in Nat /\ SumFunctionOnSet(f, S) \in Nat
        /\ SumFunctionOnSet(f, T) <= SumFunctionOnSet(f, S)
<1>1. IsFiniteSet(T) /\ IsFiniteSet(S \ T) /\ T \cap (S \ T) = {} /\ T \cup (S \ T) = S
  BY FS_Subset
<1>2. SumFunctionOnSet(f, S) = SumFunctionOnSet(f, T) + SumFunctionOnSet(f, S \ T)
  BY <1>1, SumUnion
<1>3. SumFunctionOnSet(f, T) \in Nat /\ SumFunctionOnSet(f, S \ T) \in Nat
  <2>1. (\A x \in T : f[x] \in Nat) /\ (\A x \in S \ T : f[x] \in Nat) OBVIOUS
  <2> QED BY <1>1, <2>1, SumNat
<1> QED BY <1>2, <1>3

LEMMA SumIsCount ==
  ASSUME NEW f, NEW S, IsFiniteSet(S), \A x \in S : f[x] = 1
  PROVE SumFunctionOnSet(f, S) = Cardinality(S)
<1> DEFINE Holds(s) == SumFunctionOnSet(f, s) = Cardinality(s)
           Bad == {s \in SUBSET S : ~Holds(s)}
<1> SUFFICES ASSUME Bad # {} PROVE FALSE
  OBVIOUS
<1>1. PICK s \in Bad : \A t \in Bad : t \subseteq s => t = s
  <2>1. Bad \subseteq SUBSET S OBVIOUS
  <2> HIDE DEF Bad
  <2> QED BY <2>1, LeastOf
<1>2. IsFiniteSet(s) /\ s \subseteq S
  BY <1>1, FS_Subset
<1>3. s # {}
  <2>1. Holds({})
    BY SumEmpty, FS_EmptySet
  <2> QED BY <1>1, <2>1
<1>4. PICK x : x \in s
  BY <1>3
<1>5. Holds(s \ {x})
  BY <1>1, <1>4
<1>6. SumFunctionOnSet(f, s) = 1 + SumFunctionOnSet(f, s \ {x})
  BY <1>2, <1>4, SumWithout
<1>7. Cardinality(s \ {x}) = Cardinality(s) - 1 /\ Cardinality(s) \in Nat
  BY <1>2, <1>4, FS_RemoveElement, FS_CardinalityType
<1>8. Holds(s)
  BY <1>5, <1>6, <1>7
<1> QED BY <1>1, <1>8

LEMMA SumMonotone ==
  ASSUME NEW f, NEW g, NEW S, IsFiniteSet(S),
         \A x \in S : f[x] \in Nat /\ g[x] \in Nat /\ f[x] <= g[x]
  PROVE SumFunctionOnSet(f, S) <= SumFunctionOnSet(g, S)
<1> DEFINE Holds(s) == SumFunctionOnSet(f, s) <= SumFunctionOnSet(g, s)
           Bad == {s \in SUBSET S : ~Holds(s)}
<1> SUFFICES ASSUME Bad # {} PROVE FALSE
  OBVIOUS
<1>1. PICK s \in Bad : \A t \in Bad : t \subseteq s => t = s
  <2>1. Bad \subseteq SUBSET S OBVIOUS
  <2> HIDE DEF Bad
  <2> QED BY <2>1, LeastOf
<1>2. IsFiniteSet(s) /\ s \subseteq S
  BY <1>1, FS_Subset
<1>3. s # {}
  <2>1. SumFunctionOnSet(f, {}) = 0 /\ SumFunctionOnSet(g, {}) = 0
    BY SumEmpty
  <2>2. Holds({})
    BY <2>1
  <2> QED BY <1>1, <2>2
<1>4. PICK x : x \in s
  BY <1>3
<1>5. Holds(s \ {x})
  BY <1>1, <1>4
<1>6. SumFunctionOnSet(f, s) = f[x] + SumFunctionOnSet(f, s \ {x})
  BY <1>2, <1>4, SumWithout
<1>7. SumFunctionOnSet(g, s) = g[x] + SumFunctionOnSet(g, s \ {x})
  BY <1>2, <1>4, SumWithout
<1>8. /\ f[x] \in Nat /\ g[x] \in Nat /\ f[x] <= g[x]
      /\ SumFunctionOnSet(f, s \ {x}) \in Nat /\ SumFunctionOnSet(g, s \ {x}) \in Nat
  <2>1. IsFiniteSet(s \ {x}) BY <1>2, FS_Subset
  <2>2. \A y \in s \ {x} : f[y] \in Nat /\ g[y] \in Nat BY <1>2
  <2> QED BY <1>2, <1>4, <2>1, <2>2, SumNat
<1>9. Holds(s)
  BY <1>5, <1>6, <1>7, <1>8
<1> QED BY <1>1, <1>9

\* The parts of a whole, one for every element of M
Parts(M, P, whole) ==
  /\ IsFiniteSet(M) /\ \A m \in M : IsFiniteSet(P[m])
  /\ \A m, n \in M : m # n => P[m] \cap P[n] = {}
  /\ \A x : x \in whole <=> \E m \in M : x \in P[m]
SumsOfParts(h, f, M, P) ==
  /\ \A m \in M : h[m] = SumFunctionOnSet(f, P[m])
  /\ \A m \in M : \A x \in P[m] : f[x] \in Nat
CountsOfParts(h, M, P) == \A m \in M : h[m] = Cardinality(P[m])

\* The parts of a partition come to the whole
LEMMA SumOfParts ==
  ASSUME NEW f, NEW M, NEW P, NEW h, NEW whole,
         Parts(M, P, whole), SumsOfParts(h, f, M, P)
  PROVE /\ IsFiniteSet(whole)
        /\ SumFunctionOnSet(h, M) = SumFunctionOnSet(f, whole)
<1> USE DEF Parts, SumsOfParts
<1> DEFINE U(s) == UNION {P[m] : m \in s}
           Holds(s) == IsFiniteSet(U(s)) /\ SumFunctionOnSet(h, s) = SumFunctionOnSet(f, U(s))
           Bad == {s \in SUBSET M : ~Holds(s)}
<1>0. U(M) = whole
  OBVIOUS
<1> SUFFICES ASSUME Bad # {} PROVE FALSE
  <2>1. M \notin Bad => Holds(M)
    OBVIOUS
  <2> HIDE DEF Bad, U
  <2> QED BY <1>0, <2>1
<1>1. PICK s \in Bad : \A t \in Bad : t \subseteq s => t = s
  <2>1. Bad \subseteq SUBSET M OBVIOUS
  <2> HIDE DEF Bad
  <2> QED BY <2>1, LeastOf
<1>2. IsFiniteSet(s) /\ s \subseteq M
  BY <1>1, FS_Subset
<1>3. s # {}
  <2>1. U({}) = {}
    OBVIOUS
  <2>2. SumFunctionOnSet(h, {}) = 0 /\ SumFunctionOnSet(f, {}) = 0
    BY SumEmpty
  <2>3. Holds({})
    BY <2>1, <2>2, FS_EmptySet
  <2> QED BY <1>1, <2>3
<1>4. PICK m : m \in s
  BY <1>3
<1> DEFINE r == s \ {m}
<1>5. Holds(r)
  <2>1. r \subseteq s /\ r # s /\ r \in SUBSET M
    BY <1>2, <1>4
  <2> HIDE DEF r, Holds
  <2> QED BY <1>1, <2>1
<1>6. SumFunctionOnSet(h, s) = h[m] + SumFunctionOnSet(h, r)
  <2>1. \A n \in s : h[n] \in Nat
    <3> SUFFICES ASSUME NEW n \in s PROVE h[n] \in Nat
      OBVIOUS
    <3>1. n \in M BY <1>2
    <3>2. SumFunctionOnSet(f, P[n]) \in Nat BY <3>1, SumNat
    <3> QED BY <3>1, <3>2
  <2> QED BY <1>2, <1>4, <2>1, SumWithout
<1>7. U(s) = P[m] \cup U(r)
  BY <1>4
<1>8. P[m] \cap U(r) = {}
  BY <1>2, <1>4
<1>9. m \in M /\ IsFiniteSet(P[m]) /\ \A x \in P[m] \cup U(r) : f[x] \in Nat
  BY <1>2, <1>4
<1> HIDE DEF U, r
<1>10. SumFunctionOnSet(f, U(s)) = SumFunctionOnSet(f, P[m]) + SumFunctionOnSet(f, U(r))
  <2>1. SumFunctionOnSet(f, P[m] \cup U(r))
          = SumFunctionOnSet(f, P[m]) + SumFunctionOnSet(f, U(r))
    BY <1>5, <1>8, <1>9, SumUnion
  <2> QED BY <1>7, <2>1
<1>11. IsFiniteSet(U(s))
  <2>1. IsFiniteSet(P[m] \cup U(r))
    BY <1>5, <1>9, FS_Union
  <2> QED BY <1>7, <2>1
<1>12. h[m] = SumFunctionOnSet(f, P[m])
  BY <1>9
<1>13. Holds(s)
  BY <1>5, <1>6, <1>10, <1>11, <1>12
<1> QED BY <1>1, <1>13

\* The counts of the parts of a partition come to the count of the whole
LEMMA CountOfParts ==
  ASSUME NEW M, NEW P, NEW h, NEW whole,
         Parts(M, P, whole), CountsOfParts(h, M, P)
  PROVE SumFunctionOnSet(h, M) = Cardinality(whole)
<1> DEFINE f == [x \in whole |-> 1]
<1>1. \A m \in M : \A x \in P[m] : f[x] = 1
  BY DEF Parts
<1>2. \A x \in whole : f[x] = 1
  OBVIOUS
<1> HIDE DEF f
<1>3. \A m \in M : h[m] = SumFunctionOnSet(f, P[m])
  <2> SUFFICES ASSUME NEW m \in M PROVE h[m] = SumFunctionOnSet(f, P[m])
    OBVIOUS
  <2>1. IsFiniteSet(P[m])
    BY DEF Parts
  <2> QED BY <1>1, <2>1, SumIsCount DEF CountsOfParts
<1>4. SumsOfParts(h, f, M, P)
  BY <1>1, <1>3 DEF SumsOfParts
<1>5. IsFiniteSet(whole) /\ SumFunctionOnSet(h, M) = SumFunctionOnSet(f, whole)
  BY <1>4, SumOfParts
<1>6. SumFunctionOnSet(f, whole) = Cardinality(whole)
  BY <1>2, <1>5, SumIsCount
<1> QED BY <1>5, <1>6
-----------------------------------------------------------------------------
(* Rows and amounts are numbers *)

LEMMA Products ==
  \A k, l \in Nat : k * l \in Nat
OBVIOUS

LEMMA Quotients ==
  \A k \in Nat, l \in Nat \ {0} : k \div l \in Nat
OBVIOUS

LEMMA DaysAreNat ==
  ASSUME NEW i \in Nat, NEW o \in Nat
  PROVE DaysDiff(i, o) \in Nat
<1>1. Ticks \in Nat \ {0}
  BY AccountingAssumption
<1>2. Distance(i, o) + Ticks - 1 \in Nat
  BY <1>1 DEF Distance
<1> QED BY <1>1, <1>2, Quotients DEF DaysDiff

LEMMA HundredthsAreNat ==
  ASSUME NEW p \in Nat, NEW q \in Nat, NEW d \in Nat, NEW off \in 0 .. 100
  PROVE Hundredths(p, q, d, off) \in Nat
<1>1. p * q \in Nat BY Products
<1>2. p * q * d \in Nat BY <1>1, Products
<1>3. 100 - off \in Nat OBVIOUS
<1> QED BY <1>2, <1>3, Products DEF Hundredths

BookingRow ==
  [type : TypeRooms, checkin : Nat, checkout : Nat, price : Prices,
   quantity : Quantities, discount : 0 .. 100, rooms : Quantities \cup {0},
   out : BOOLEAN, state : {"Init", "Success", "Done", "Reject"}]
UsedRow == [booking : Bookings, service : Services, price : Prices, quantity : Portions]
BillRow == [booking : Bookings, for : {"Room", "Service"}, amount : 0 .. MaxInteger]

LEMMA TypeIs ==
  AccountingType <=>
    /\ type_price \in [TypeRooms -> Prices] /\ service_price \in [Services -> Prices]
    /\ booking \in Seq(BookingRow) /\ used \in Seq(UsedRow) /\ bill \in Seq(BillRow)
    /\ reprices \in 0 .. MaxReprices
BY DEF AccountingType, BookingRow, UsedRow, BillRow

LEMMA StayIsNat ==
  ASSUME NEW b \in BookingRow
  PROVE StayAmount(b) \in Nat
<1>1. b.price \in Nat /\ b.quantity \in Nat /\ b.discount \in 0 .. 100
      /\ b.checkin \in Nat /\ b.checkout \in Nat
  BY AccountingAssumption DEF BookingRow
<1> QED BY <1>1, DaysAreNat, HundredthsAreNat DEF StayAmount

LEMMA FiniteTables ==
  ASSUME AccountingType
  PROVE /\ IsFiniteSet(DOMAIN used) /\ IsFiniteSet(Bookings)
        /\ \A b : IsFiniteSet(UsedBy(b)) /\ UsedBy(b) \subseteq DOMAIN used
<1>1. used \in Seq(UsedRow) /\ booking \in Seq(BookingRow)
  BY TypeIs
<1>2. DOMAIN used = 1 .. Len(used) /\ Len(used) \in Nat
  BY <1>1
<1>3. DOMAIN booking = 1 .. Len(booking) /\ Len(booking) \in Nat
  BY <1>1
<1>4. \A n \in Nat : IsFiniteSet(1 .. n)
  BY FS_Interval
<1>5. IsFiniteSet(DOMAIN used) /\ IsFiniteSet(Bookings)
  BY <1>2, <1>3, <1>4 DEF Bookings
<1> QED BY <1>5, FS_Subset DEF UsedBy

\* Sums of comprehensions
LEMMA SumOverDomain ==
  ASSUME NEW f PROVE SumFunction(f) = SumFunctionOnSet(f, DOMAIN f)
BY DEF SumFunction

LEMMA AmountsAreNat ==
  ASSUME AccountingType, NEW u \in DOMAIN used
  PROVE RecordedAmount(u) \in Nat /\ CurrentAmount(u) \in Nat
<1>1. used[u] \in UsedRow /\ service_price \in [Services -> Prices]
  BY TypeIs
<1>2. used[u].price \in Nat /\ used[u].quantity \in Nat /\ service_price[used[u].service] \in Nat
  BY <1>1, AccountingAssumption DEF UsedRow
<1> QED BY <1>2, Products DEF RecordedAmount, CurrentAmount

LEMMA RecordedIsNat ==
  ASSUME AccountingType, NEW uses \in SUBSET DOMAIN used
  PROVE Recorded(uses) \in Nat
<1> DEFINE f == [u \in uses |-> RecordedAmount(u)]
<1>1. IsFiniteSet(uses)
  BY FiniteTables, FS_Subset
<1>2. \A u \in uses : f[u] \in Nat
  BY AmountsAreNat
<1>3. DOMAIN f = uses OBVIOUS
<1> HIDE DEF f
<1>4. SumFunction(f) \in Nat
  BY <1>1, <1>2, <1>3, SumOverDomain, SumNat
<1> QED BY <1>4 DEF Recorded, f

LEMMA ServiceBillIsNat ==
  ASSUME AccountingType, NEW b
  PROVE ServiceBill(b) \in Nat
<1> DEFINE f == [u \in UsedBy(b) |-> CurrentAmount(u)]
<1>1. IsFiniteSet(UsedBy(b)) /\ UsedBy(b) \subseteq DOMAIN used
  BY FiniteTables
<1>2. \A u \in UsedBy(b) : f[u] \in Nat
  BY <1>1, AmountsAreNat
<1>3. DOMAIN f = UsedBy(b) OBVIOUS
<1> HIDE DEF f
<1>4. SumFunction(f) \in Nat
  BY <1>1, <1>2, <1>3, SumOverDomain, SumNat
<1> QED BY <1>4 DEF ServiceBill, f
-----------------------------------------------------------------------------
(* Type correctness *)

LEMMA FittingAmounts ==
  /\ \A k \in Nat : Fits(k) => k \div 100 \in 0 .. MaxInteger /\ 100 * (k \div 100) = k
  /\ \A k \in Nat : Fits(100 * k) => k \in 0 .. MaxInteger
<1>1. MaxInteger \in Nat
  BY AccountingAssumption
<1>2. \A k \in Nat : k % 100 = 0 => k \div 100 \in Nat /\ 100 * (k \div 100) = k
  OBVIOUS
<1>3. \A k \in Nat : (100 * k) \div 100 = k
  OBVIOUS
<1> QED BY <1>1, <1>2, <1>3 DEF Fits

LEMMA TypeAtFirst ==
  ASSUME AccountingInit
  PROVE AccountingType
BY AccountingAssumption DEF AccountingInit, TypeIs, AccountingType

NewRow(type, stay, quantity, discount, atDesk) ==
  LET amount == Hundredths(type_price[type], quantity, DaysDiff(stay.checkin, stay.checkout), discount)
  IN [type |-> type, checkin |-> stay.checkin, checkout |-> stay.checkout,
      price |-> type_price[type], quantity |-> quantity, discount |-> discount,
      rooms |-> IF Fits(amount) THEN quantity ELSE 0, out |-> FALSE,
      state |-> IF Fits(amount) \/ atDesk THEN "Init" ELSE "Reject"]

LEMMA NewRowIs ==
  ASSUME AccountingType, NEW type \in TypeRooms, NEW stay \in Stays, NEW quantity \in Quantities,
         NEW offer \in Offers \cup {NoOffer}, NEW atDesk \in BOOLEAN,
         Book(type, stay, quantity, offer, atDesk)
  PROVE \E discount \in 0 .. 100 :
          LET new == NewRow(type, stay, quantity, discount, atDesk) IN
          /\ new \in BookingRow
          /\ booking' = Append(booking, new)
          /\ bill' = IF ~Fits(StayAmount(new)) THEN bill
                     ELSE Append(bill, [booking |-> Len(booking) + 1, for |-> "Room",
                                        amount |-> StayAmount(new) \div 100])
<1> DEFINE applies == offer # NoOffer /\ type_price[type] * quantity >= offer.condition
           discount == IF applies THEN offer.discount ELSE 0
           new == NewRow(type, stay, quantity, discount, atDesk)
<1>1. discount \in 0 .. 100
  BY AccountingAssumption
<1>2. /\ stay.checkin \in Nat /\ stay.checkout \in Nat /\ quantity \in Quantities
      /\ type_price[type] \in Prices
  BY AccountingAssumption, TypeIs
<1>3. new \in BookingRow
  <2> HIDE DEF discount
  <2> QED BY <1>1, <1>2 DEF NewRow, BookingRow
<1>4. StayAmount(new) = Hundredths(type_price[type], quantity,
                                   DaysDiff(stay.checkin, stay.checkout), discount)
  <2> HIDE DEF discount
  <2> QED BY DEF NewRow, StayAmount
<1>5. booking' = Append(booking, new)
  BY DEF Book, NewRow
<1>6. bill' = IF ~Fits(Hundredths(type_price[type], quantity,
                                   DaysDiff(stay.checkin, stay.checkout), discount)) THEN bill
                     ELSE Append(bill, [booking |-> Len(booking) + 1, for |-> "Room",
                                        amount |-> Hundredths(type_price[type], quantity,
                                   DaysDiff(stay.checkin, stay.checkout), discount) \div 100])
  BY DEF Book
<1> HIDE DEF discount
<1> QED BY <1>1, <1>3, <1>4, <1>5, <1>6

LEMMA TypeKept ==
  ASSUME AccountingType, [AccountingNext]_accounting_vars
  PROVE AccountingType'
<1> DEFINE NextBill == [booking : Bookings', for : {"Room", "Service"}, amount : 0 .. MaxInteger]
           NextUsed == [booking : Bookings', service : Services, price : Prices, quantity : Portions]
<1>1. /\ type_price \in [TypeRooms -> Prices] /\ service_price \in [Services -> Prices]
      /\ booking \in Seq(BookingRow) /\ used \in Seq(UsedRow) /\ bill \in Seq(BillRow)
      /\ reprices \in 0 .. MaxReprices
  BY TypeIs
<1>2. SUFFICES /\ type_price' \in [TypeRooms -> Prices] /\ service_price' \in [Services -> Prices]
               /\ booking' \in Seq(BookingRow) /\ used' \in Seq(NextUsed) /\ bill' \in Seq(NextBill)
               /\ reprices' \in 0 .. MaxReprices
  BY DEF AccountingType, BookingRow
<1>3. Bookings \subseteq Bookings' => used \in Seq(NextUsed) /\ bill \in Seq(NextBill)
  <2> SUFFICES ASSUME Bookings \subseteq Bookings'
               PROVE used \in Seq(NextUsed) /\ bill \in Seq(NextBill)
    OBVIOUS
  <2>1. UsedRow \subseteq NextUsed /\ BillRow \subseteq NextBill
    BY DEF UsedRow, BillRow
  <2>2. \A S, T, q : S \subseteq T /\ q \in Seq(S) => q \in Seq(T)
    OBVIOUS
  <2> HIDE DEF NextUsed, NextBill
  <2> QED BY <1>1, <2>1, <2>2
<1>4. Bookings = 1 .. Len(booking) /\ Len(booking) \in Nat
  BY <1>1 DEF Bookings
<1>5. ASSUME NEW type \in TypeRooms, NEW stay \in Stays, NEW quantity \in Quantities,
             NEW offer \in Offers \cup {NoOffer}, NEW atDesk \in BOOLEAN,
             Book(type, stay, quantity, offer, atDesk)
      PROVE <1>2!1
  <2>1. PICK discount \in 0 .. 100 :
          LET new == NewRow(type, stay, quantity, discount, atDesk) IN
          /\ new \in BookingRow
          /\ booking' = Append(booking, new)
          /\ bill' = IF ~Fits(StayAmount(new)) THEN bill
                     ELSE Append(bill, [booking |-> Len(booking) + 1, for |-> "Room",
                                        amount |-> StayAmount(new) \div 100])
    BY <1>5, NewRowIs
  <2> DEFINE new == NewRow(type, stay, quantity, discount, atDesk)
  <2> HIDE DEF new
  <2>2. new \in BookingRow /\ booking' = Append(booking, new)
    BY <2>1 DEF new
  <2>3. Bookings \subseteq Bookings' /\ Len(booking) + 1 \in Bookings'
    BY <1>1, <1>4, <2>2 DEF Bookings
  <2>4. UNCHANGED <<type_price, service_price, used, reprices>>
    BY <1>5 DEF Book
  <2>5. bill' \in Seq(NextBill)
    <3>1. CASE Fits(StayAmount(new))
      <4>1. StayAmount(new) \div 100 \in 0 .. MaxInteger
        BY <2>2, <3>1, StayIsNat, FittingAmounts
      <4>2. bill' = Append(bill, [booking |-> Len(booking) + 1, for |-> "Room",
                                  amount |-> StayAmount(new) \div 100])
        BY <2>1, <3>1 DEF new
      <4> QED BY <1>3, <2>3, <4>1, <4>2
    <3>2. CASE ~Fits(StayAmount(new))
      BY <1>3, <2>1, <2>3, <3>2 DEF new
    <3> QED BY <3>1, <3>2
  <2> QED BY <1>1, <1>3, <2>2, <2>3, <2>4, <2>5
<1>6. ASSUME NEW b \in Bookings, NEW s \in Services, NEW quantity \in Portions,
             UseService(b, s, quantity)
      PROVE <1>2!1
  <2>1. UNCHANGED <<type_price, service_price, booking, bill, reprices>>
    BY <1>6 DEF UseService
  <2>2. Bookings' = Bookings
    BY <2>1 DEF Bookings
  <2>3. used' = Append(used, [booking |-> b, service |-> s,
                              price |-> service_price[s], quantity |-> quantity])
    BY <1>6 DEF UseService
  <2>4. service_price[s] \in Prices
    BY <1>1
  <2> QED BY <1>1, <1>3, <2>1, <2>2, <2>3, <2>4
<1>7. ASSUME NEW b \in Bookings, CheckOut(b)
      PROVE <1>2!1
  <2>1. booking' = [booking EXCEPT ![b].out = TRUE, ![b].state = "Done"]
        /\ UNCHANGED <<type_price, service_price, used, reprices>>
    BY <1>7 DEF CheckOut
  <2>2. booking' \in Seq(BookingRow) /\ Bookings' = Bookings
    <3>1. booking[b] \in BookingRow
      BY <1>1 DEF Bookings
    <3>2. [[booking[b] EXCEPT !.out = TRUE] EXCEPT !.state = "Done"] \in BookingRow
      BY <3>1 DEF BookingRow
    <3>3. booking' = [booking EXCEPT ![b] = [[booking[b] EXCEPT !.out = TRUE] EXCEPT !.state = "Done"]]
      BY <1>1, <2>1 DEF BookingRow
    <3> QED BY <1>1, <1>4, <3>2, <3>3 DEF Bookings
  <2>3. bill' \in Seq(NextBill)
    <3>1. ServiceBill(b) \in Nat
      BY ServiceBillIsNat
    <3>2. CASE Fits(100 * ServiceBill(b))
      <4>1. ServiceBill(b) \in 0 .. MaxInteger
        BY <3>1, <3>2, FittingAmounts
      <4>2. bill' = Append(bill, [booking |-> b, for |-> "Service", amount |-> ServiceBill(b)])
        BY <1>7, <3>2 DEF CheckOut
      <4> QED BY <1>3, <2>2, <4>1, <4>2
    <3>3. CASE ~Fits(100 * ServiceBill(b))
      BY <1>3, <1>7, <2>2, <3>3 DEF CheckOut
    <3> QED BY <3>2, <3>3
  <2> QED BY <1>1, <1>3, <2>1, <2>2, <2>3
<1>8. ASSUME NEW b \in Bookings, Callback(b)
      PROVE <1>2!1
  <2>1. PICK state \in {"Success", "Reject"} : booking' = [booking EXCEPT ![b].state = state]
    BY <1>8 DEF Callback
  <2>0. UNCHANGED <<type_price, service_price, used, bill, reprices>>
    BY <1>8 DEF Callback
  <2>2. booking' \in Seq(BookingRow) /\ Bookings' = Bookings
    <3>1. booking[b] \in BookingRow
      BY <1>1 DEF Bookings
    <3>2. [booking[b] EXCEPT !.state = state] \in BookingRow
      BY <3>1 DEF BookingRow
    <3> QED BY <1>1, <1>4, <2>1, <3>2 DEF Bookings
  <2> QED BY <1>1, <1>3, <2>0, <2>2
<1>9. ASSUME NEW price \in Prices, Reprice(price)
      PROVE <1>2!1
  <2>1. UNCHANGED <<booking, used, bill>> /\ Bookings' = Bookings
    BY <1>9 DEF Reprice, Bookings
  <2>2. type_price' \in [TypeRooms -> Prices] /\ service_price' \in [Services -> Prices]
    BY <1>1, <1>9 DEF Reprice
  <2>3. reprices' \in 0 .. MaxReprices
    BY <1>1, <1>9, AccountingAssumption DEF Reprice
  <2> QED BY <1>1, <1>3, <2>1, <2>2, <2>3
<1>10. CASE UNCHANGED accounting_vars
  <2>1. Bookings' = Bookings
    BY <1>10 DEF accounting_vars, Bookings
  <2> QED BY <1>1, <1>3, <1>10, <2>1 DEF accounting_vars
<1> HIDE DEF NextBill, NextUsed
<1> QED BY <1>5, <1>6, <1>7, <1>8, <1>9, <1>10 DEF AccountingNext

\* Every row of booking, used_service and bill has the columns it should: what a
\* stay or its services come to is saved only as a number the column takes.
THEOREM AccountsWellTyped == AccountingSpec => []AccountingType
<1>1. AccountingInit => AccountingType
  BY TypeAtFirst
<1>2. AccountingType /\ [AccountingNext]_accounting_vars => AccountingType'
  BY TypeKept
<1> QED BY <1>1, <1>2, PTL DEF AccountingSpec

\* What a booking and its bills have in common
DoneIsOut == \A b \in Bookings : booking[b].state = "Done" => booking[b].out
RoomsAreBilled == \A b \in Bookings : booking[b].rooms > 0 => Fits(StayAmount(booking[b]))
BillIsOfStay(n) ==
  LET b == booking[bill[n].booking] IN
  /\ Fits(StayAmount(b)) /\ 100 * bill[n].amount = StayAmount(b) /\ b.rooms = b.quantity
RoomBillsAreStays == \A n \in DOMAIN bill : bill[n].for = "Room" => BillIsOfStay(n)
AccountsInv == AccountingType /\ DoneIsOut /\ RoomsAreBilled /\ RoomBillsAreStays
-----------------------------------------------------------------------------
(* What a step does to the tables *)

\* Steps, named for what they are
IsBook == \E type \in TypeRooms, stay \in Stays, quantity \in Quantities,
             offer \in Offers \cup {NoOffer}, atDesk \in BOOLEAN :
            Book(type, stay, quantity, offer, atDesk)
IsUse == \E b \in Bookings, s \in Services, quantity \in Portions : UseService(b, s, quantity)
IsReprice == \E price \in Prices : Reprice(price)

LEMMA StepIs ==
  ASSUME [AccountingNext]_accounting_vars
  PROVE \/ IsBook \/ IsUse \/ IsReprice
        \/ \E b \in Bookings : CheckOut(b)
        \/ \E b \in Bookings : Callback(b)
        \/ UNCHANGED accounting_vars
BY DEF AccountingNext, IsBook, IsUse, IsReprice

\* The rows of the tables are where they were
LEMMA RowsOf ==
  ASSUME AccountingType
  PROVE /\ Bookings = 1 .. Len(booking) /\ Len(booking) \in Nat
        /\ DOMAIN used = 1 .. Len(used) /\ Len(used) \in Nat
        /\ DOMAIN bill = 1 .. Len(bill) /\ Len(bill) \in Nat
        /\ \A b \in Bookings : booking[b] \in BookingRow
        /\ \A u \in DOMAIN used : used[u] \in UsedRow
        /\ \A n \in DOMAIN bill : bill[n] \in BillRow
BY TypeIs DEF Bookings

\* A booking that is made is not out, and has rooms only if its bill fits
FreshBooking(row) ==
  /\ row \in BookingRow /\ ~row.out /\ row.state # "Done"
  /\ row.rooms > 0 => Fits(StayAmount(row))
  /\ Fits(StayAmount(row)) => row.rooms = row.quantity

LEMMA BookStep ==
  ASSUME AccountingType, IsBook
  PROVE /\ \E row : /\ FreshBooking(row) /\ booking' = Append(booking, row)
                    /\ bill' = IF ~Fits(StayAmount(row)) THEN bill
                               ELSE Append(bill, [booking |-> Len(booking) + 1, for |-> "Room",
                                                  amount |-> StayAmount(row) \div 100])
        /\ UNCHANGED <<type_price, service_price, used, reprices>>
<1>1. PICK type \in TypeRooms, stay \in Stays, quantity \in Quantities,
           offer \in Offers \cup {NoOffer}, atDesk \in BOOLEAN :
        Book(type, stay, quantity, offer, atDesk)
  BY DEF IsBook
<1>2. PICK discount \in 0 .. 100 :
          LET new == NewRow(type, stay, quantity, discount, atDesk) IN
          /\ new \in BookingRow
          /\ booking' = Append(booking, new)
          /\ bill' = IF ~Fits(StayAmount(new)) THEN bill
                     ELSE Append(bill, [booking |-> Len(booking) + 1, for |-> "Room",
                                        amount |-> StayAmount(new) \div 100])
  BY <1>1, NewRowIs
<1> DEFINE new == NewRow(type, stay, quantity, discount, atDesk)
<1>3. FreshBooking(new)
  <2>1. /\ ~new.out /\ new.state # "Done"
        /\ new.rooms > 0 => Fits(StayAmount(new))
        /\ Fits(StayAmount(new)) => new.rooms = new.quantity
    BY DEF NewRow, StayAmount
  <2> QED BY <1>2, <2>1 DEF FreshBooking
<1> HIDE DEF new
<1>4. booking' = Append(booking, new)
      /\ bill' = IF ~Fits(StayAmount(new)) THEN bill
                 ELSE Append(bill, [booking |-> Len(booking) + 1, for |-> "Room",
                                    amount |-> StayAmount(new) \div 100])
  BY <1>2 DEF new
<1>5. UNCHANGED <<type_price, service_price, used, reprices>>
  BY <1>1 DEF Book
<1> QED BY <1>3, <1>4, <1>5

\* What a step does to a booking there is
LEMMA BookingStep ==
  ASSUME AccountingType, [AccountingNext]_accounting_vars, NEW b \in Bookings
  PROVE /\ b \in Bookings'
        /\ \/ booking'[b] = booking[b]
           \/ CheckOut(b) /\ booking'[b] = [booking[b] EXCEPT !.out = TRUE, !.state = "Done"]
           \/ Callback(b) /\ booking'[b] = [booking[b] EXCEPT !.state = "Success"]
           \/ Callback(b) /\ booking'[b] = [booking[b] EXCEPT !.state = "Reject"]
<1>1. /\ Bookings = 1 .. Len(booking) /\ Len(booking) \in Nat /\ booking \in Seq(BookingRow)
      /\ DOMAIN booking = 1 .. Len(booking)
  BY RowsOf, TypeIs
<1>2. CASE IsBook
  <2>1. PICK row : FreshBooking(row) /\ booking' = Append(booking, row)
    BY <1>2, BookStep
  <2> QED BY <1>1, <2>1 DEF Bookings, FreshBooking
<1>3. CASE IsUse \/ IsReprice \/ UNCHANGED accounting_vars
  <2>1. booking' = booking
    BY <1>3 DEF IsUse, IsReprice, UseService, Reprice, accounting_vars
  <2> QED BY <2>1 DEF Bookings
<1>4. ASSUME NEW c \in Bookings, CheckOut(c)
      PROVE /\ b \in Bookings'
            /\ \/ booking'[b] = booking[b]
               \/ CheckOut(b) /\ booking'[b] = [booking[b] EXCEPT !.out = TRUE, !.state = "Done"]
  <2>1. booking' = [booking EXCEPT ![c].out = TRUE, ![c].state = "Done"]
    BY <1>4 DEF CheckOut
  <2>2. CASE c = b
    BY <1>1, <1>4, <2>1, <2>2 DEF Bookings
  <2>3. CASE c # b
    BY <1>1, <1>4, <2>1, <2>3 DEF Bookings
  <2> QED BY <2>2, <2>3
<1>5. ASSUME NEW c \in Bookings, Callback(c)
      PROVE /\ b \in Bookings'
            /\ \/ booking'[b] = booking[b]
               \/ Callback(b) /\ booking'[b] = [booking[b] EXCEPT !.state = "Success"]
               \/ Callback(b) /\ booking'[b] = [booking[b] EXCEPT !.state = "Reject"]
  <2>1. PICK state \in {"Success", "Reject"} : booking' = [booking EXCEPT ![c].state = state]
    BY <1>5 DEF Callback
  <2>2. CASE c = b
    BY <1>1, <1>5, <2>1, <2>2 DEF Bookings
  <2>3. CASE c # b
    BY <1>1, <1>5, <2>1, <2>3 DEF Bookings
  <2> QED BY <2>2, <2>3
<1> QED BY <1>2, <1>3, <1>4, <1>5, StepIs

\* A booking keeps all but its state and whether its guest is out, who stays out
SameTerms(b) ==
  /\ booking'[b].type = booking[b].type
  /\ booking'[b].checkin = booking[b].checkin /\ booking'[b].checkout = booking[b].checkout
  /\ booking'[b].price = booking[b].price /\ booking'[b].quantity = booking[b].quantity
  /\ booking'[b].discount = booking[b].discount /\ booking'[b].rooms = booking[b].rooms
  /\ booking[b].out => booking'[b].out

LEMMA TermsStand ==
  ASSUME AccountingType, [AccountingNext]_accounting_vars, NEW b \in Bookings
  PROVE SameTerms(b) /\ StayAmount(booking'[b]) = StayAmount(booking[b])
<1>1. booking[b] \in BookingRow
  BY RowsOf
<1>2. SameTerms(b)
  BY <1>1, BookingStep DEF SameTerms, BookingRow
<1> QED BY <1>2 DEF SameTerms, StayAmount

\* A booking there was not
LEMMA FreshStep ==
  ASSUME AccountingType, [AccountingNext]_accounting_vars, NEW b \in Bookings' \ Bookings
  PROVE b = Len(booking) + 1 /\ FreshBooking(booking'[b])
<1>1. /\ Bookings = 1 .. Len(booking) /\ Len(booking) \in Nat /\ booking \in Seq(BookingRow)
  BY RowsOf, TypeIs
<1>2. CASE IsBook
  <2>1. PICK row : FreshBooking(row) /\ booking' = Append(booking, row)
    BY <1>2, BookStep
  <2>2. Bookings' = 1 .. Len(booking) + 1
    BY <1>1, <2>1 DEF Bookings, FreshBooking
  <2>3. b = Len(booking) + 1
    BY <1>1, <2>2
  <2>4. booking'[b] = row
    BY <1>1, <2>1, <2>3 DEF FreshBooking
  <2> QED BY <2>1, <2>3, <2>4
<1>3. CASE ~IsBook
  <2>1. \/ booking' = booking
        \/ \E c \in Bookings : \/ booking' = [booking EXCEPT ![c].out = TRUE, ![c].state = "Done"]
                               \/ \E state \in {"Success", "Reject"} :
                                    booking' = [booking EXCEPT ![c].state = state]
    BY <1>3, StepIs DEF IsUse, IsReprice, UseService, Reprice, accounting_vars, CheckOut, Callback
  <2>2. Bookings' = Bookings
    BY <1>1, <2>1 DEF Bookings
  <2> QED BY <2>2
<1> QED BY <1>2, <1>3

\* Uses of services are only added, at the prices of the moment
LEMMA UsedStep ==
  ASSUME AccountingType, [AccountingNext]_accounting_vars
  PROVE /\ \A u \in DOMAIN used : u \in DOMAIN used' /\ used'[u] = used[u]
        /\ \A u \in DOMAIN used' \ DOMAIN used : used'[u].booking \in Bookings
        /\ ~IsUse => used' = used
<1>1. /\ DOMAIN used = 1 .. Len(used) /\ Len(used) \in Nat /\ used \in Seq(UsedRow)
  BY RowsOf, TypeIs
<1>2. CASE IsUse
  <2>1. PICK b \in Bookings, s \in Services, quantity \in Portions : UseService(b, s, quantity)
    BY <1>2 DEF IsUse
  <2>2. used' = Append(used, [booking |-> b, service |-> s,
                              price |-> service_price[s], quantity |-> quantity])
    BY <2>1 DEF UseService
  <2>3. [booking |-> b, service |-> s, price |-> service_price[s], quantity |-> quantity] \in UsedRow
    BY <2>1, TypeIs DEF UsedRow
  <2> QED BY <1>1, <1>2, <2>2, <2>3
<1>3. CASE ~IsUse
  <2>1. used' = used
    BY <1>3, StepIs, BookStep DEF IsReprice, Reprice, CheckOut, Callback, accounting_vars
  <2> QED BY <2>1
<1> QED BY <1>2, <1>3

\* Bills are only added: the one of a stay with its booking, or one of services
LEMMA BillStep ==
  ASSUME AccountingType, [AccountingNext]_accounting_vars
  PROVE /\ \A n \in DOMAIN bill : n \in DOMAIN bill' /\ bill'[n] = bill[n]
        /\ \A n \in DOMAIN bill' \ DOMAIN bill :
             \/ bill'[n].for = "Service"
             \/ /\ bill'[n].booking = Len(booking) + 1 /\ Len(booking) + 1 \in Bookings'
                /\ Fits(StayAmount(booking'[Len(booking) + 1]))
                /\ 100 * bill'[n].amount = StayAmount(booking'[Len(booking) + 1])
<1>1. /\ DOMAIN bill = 1 .. Len(bill) /\ Len(bill) \in Nat /\ bill \in Seq(BillRow)
      /\ Bookings = 1 .. Len(booking) /\ Len(booking) \in Nat /\ booking \in Seq(BookingRow)
  BY RowsOf, TypeIs
<1>2. CASE IsBook
  <2>1. PICK row : /\ FreshBooking(row) /\ booking' = Append(booking, row)
                   /\ bill' = IF ~Fits(StayAmount(row)) THEN bill
                              ELSE Append(bill, [booking |-> Len(booking) + 1, for |-> "Room",
                                                 amount |-> StayAmount(row) \div 100])
    BY <1>2, BookStep
  <2>2. Len(booking) + 1 \in Bookings' /\ booking'[Len(booking) + 1] = row
    BY <1>1, <2>1 DEF Bookings, FreshBooking
  <2>3. CASE ~Fits(StayAmount(row))
    BY <2>1, <2>3
  <2>4. CASE Fits(StayAmount(row))
    <3> DEFINE amount == StayAmount(row) \div 100
               new == [booking |-> Len(booking) + 1, for |-> "Room", amount |-> amount]
    <3>1. 100 * amount = StayAmount(row)
      BY <2>1, <2>4, StayIsNat, FittingAmounts DEF FreshBooking
    <3>2. bill' = Append(bill, new)
      BY <2>1, <2>4
    <3>3. new.booking = Len(booking) + 1 /\ new.amount = amount
      OBVIOUS
    <3> HIDE DEF amount, new
    <3>4. \A n \in DOMAIN bill : n \in DOMAIN bill' /\ bill'[n] = bill[n]
      BY <1>1, <3>2
    <3>5. \A n \in DOMAIN bill' \ DOMAIN bill : bill'[n] = new
      BY <1>1, <3>2
    <3> QED BY <2>2, <2>4, <3>1, <3>3, <3>4, <3>5
  <2> QED BY <2>3, <2>4
<1>3. ASSUME NEW b \in Bookings, CheckOut(b)
      PROVE /\ \A n \in DOMAIN bill : n \in DOMAIN bill' /\ bill'[n] = bill[n]
            /\ \A n \in DOMAIN bill' \ DOMAIN bill : bill'[n].for = "Service"
  <2> DEFINE new == [booking |-> b, for |-> "Service", amount |-> ServiceBill(b)]
  <2>1. bill' = bill \/ bill' = Append(bill, new)
    BY <1>3 DEF CheckOut
  <2>2. new.for = "Service"
    OBVIOUS
  <2> HIDE DEF new
  <2> QED BY <1>1, <2>1, <2>2
<1>4. CASE IsUse \/ IsReprice \/ UNCHANGED accounting_vars \/ \E b \in Bookings : Callback(b)
  BY <1>4 DEF IsUse, IsReprice, UseService, Reprice, Callback, accounting_vars
<1> QED BY <1>2, <1>3, <1>4, StepIs

LEMMA InvAtFirst ==
  ASSUME AccountingInit
  PROVE AccountsInv
<1>1. booking = <<>> /\ bill = <<>>
  BY DEF AccountingInit
<1>2. Bookings = {} /\ DOMAIN bill = {}
  BY <1>1 DEF Bookings
<1> QED BY <1>2, TypeAtFirst DEF AccountsInv, DoneIsOut, RoomsAreBilled, RoomBillsAreStays

LEMMA InvKept ==
  ASSUME AccountsInv, [AccountingNext]_accounting_vars
  PROVE AccountsInv'
<1>1. AccountingType /\ AccountingType'
  BY TypeKept DEF AccountsInv
<1>2. DoneIsOut'
  <2> SUFFICES ASSUME NEW b \in Bookings', booking'[b].state = "Done"
               PROVE booking'[b].out
    BY DEF DoneIsOut
  <2>1. CASE b \in Bookings
    <3>1. booking[b] \in BookingRow
      BY <1>1, <2>1, RowsOf
    <3> QED BY <1>1, <2>1, <3>1, BookingStep DEF BookingRow, AccountsInv, DoneIsOut
  <2>2. CASE b \notin Bookings
    BY <1>1, <2>2, FreshStep DEF FreshBooking
  <2> QED BY <2>1, <2>2
<1>3. RoomsAreBilled'
  <2> SUFFICES ASSUME NEW b \in Bookings', booking'[b].rooms > 0
               PROVE Fits(StayAmount(booking'[b]))
    BY DEF RoomsAreBilled
  <2>1. CASE b \in Bookings
    BY <1>1, <2>1, TermsStand DEF SameTerms, AccountsInv, RoomsAreBilled
  <2>2. CASE b \notin Bookings
    BY <1>1, <2>2, FreshStep DEF FreshBooking
  <2> QED BY <2>1, <2>2
<1>4. RoomBillsAreStays'
  <2> SUFFICES ASSUME NEW n \in DOMAIN bill', bill'[n].for = "Room"
               PROVE BillIsOfStay(n)'
    BY DEF RoomBillsAreStays
  <2>1. CASE n \in DOMAIN bill
    <3>1. bill'[n] = bill[n]
      BY <1>1, <2>1, BillStep
    <3>2. bill[n].booking \in Bookings
      BY <1>1, <2>1, RowsOf DEF BillRow
    <3>3. BillIsOfStay(n)
      BY <2>1, <3>1 DEF AccountsInv, RoomBillsAreStays
    <3> DEFINE b == bill[n].booking
    <3>4. SameTerms(b) /\ StayAmount(booking'[b]) = StayAmount(booking[b])
      BY <1>1, <3>2, TermsStand
    <3> QED BY <3>1, <3>3, <3>4 DEF BillIsOfStay, SameTerms
  <2>2. CASE n \notin DOMAIN bill
    <3> DEFINE b == Len(booking) + 1
    <3>1. /\ bill'[n].booking = b /\ b \in Bookings'
          /\ Fits(StayAmount(booking'[b])) /\ 100 * bill'[n].amount = StayAmount(booking'[b])
      BY <1>1, <2>2, BillStep
    <3>2. b \notin Bookings
      BY <1>1, RowsOf
    <3>3. FreshBooking(booking'[b])
      BY <1>1, <3>1, <3>2, FreshStep
    <3> QED BY <3>1, <3>3 DEF BillIsOfStay, FreshBooking
  <2> QED BY <2>1, <2>2
<1> QED BY <1>1, <1>2, <1>3, <1>4 DEF AccountsInv

\* The invariant of every behaviour
LEMMA AccountsHold == AccountingSpec => []AccountsInv
<1>1. AccountingInit => AccountsInv
  BY InvAtFirst
<1>2. AccountsInv /\ [AccountingNext]_accounting_vars => AccountsInv'
  BY InvKept
<1> QED BY <1>1, <1>2, PTL DEF AccountingSpec
-----------------------------------------------------------------------------
(* Revenue *)

SumOfUses(b) ==
  \E f, S : /\ S = UsedBy(b) /\ IsFiniteSet(S)
            /\ \A u \in S : f[u] = RecordedAmount(u) /\ f[u] \in Nat
            /\ Recorded(UsedBy(b)) = SumFunctionOnSet(f, S)
            /\ Recorded(UsedBy(b)) \in Nat

LEMMA RecordedIs == \A b : AccountingType => SumOfUses(b)
<1> SUFFICES ASSUME NEW b, AccountingType PROVE SumOfUses(b)
  OBVIOUS
<1>1. IsFiniteSet(UsedBy(b)) /\ UsedBy(b) \subseteq DOMAIN used
  BY FiniteTables
<1>2. PICK f : f = [u \in UsedBy(b) |-> RecordedAmount(u)]
  OBVIOUS
<1>3. \A u \in UsedBy(b) : f[u] = RecordedAmount(u) /\ f[u] \in Nat
  BY <1>1, <1>2, AmountsAreNat
<1>4. Recorded(UsedBy(b)) = SumFunctionOnSet(f, UsedBy(b))
  BY <1>2, SumOverDomain DEF Recorded
<1>5. Recorded(UsedBy(b)) \in Nat
  BY <1>1, RecordedIsNat
<1> QED BY <1>1, <1>3, <1>4, <1>5 DEF SumOfUses

LEMMA RecordedIsNext ==
  ASSUME NEW b
  PROVE AccountingType' => SumOfUses(b)'
<1>1. AccountingType => SumOfUses(b)
  BY RecordedIs
<1> QED BY <1>1, PTL

\* What was recorded for a booking stays and only grows with a service added
LEMMA RecordedStep ==
  ASSUME AccountingType, AccountingType', [AccountingNext]_accounting_vars, NEW b
  PROVE /\ Recorded(UsedBy(b)) \in Nat /\ Recorded(UsedBy(b))' \in Nat
        /\ Recorded(UsedBy(b)) <= Recorded(UsedBy(b))'
        /\ UsedBy(b)' = UsedBy(b) => Recorded(UsedBy(b))' = Recorded(UsedBy(b))
<1>1. PICK f, S : /\ S = UsedBy(b) /\ IsFiniteSet(S)
                  /\ \A u \in S : f[u] = RecordedAmount(u) /\ f[u] \in Nat
                  /\ Recorded(UsedBy(b)) = SumFunctionOnSet(f, S)
                  /\ Recorded(UsedBy(b)) \in Nat
  BY RecordedIs DEF SumOfUses
<1>2. PICK g, T : /\ T = UsedBy(b)' /\ IsFiniteSet(T)
                  /\ \A u \in T : g[u] = RecordedAmount(u)' /\ g[u] \in Nat
                  /\ Recorded(UsedBy(b))' = SumFunctionOnSet(g, T)
                  /\ Recorded(UsedBy(b))' \in Nat
  <2>2. SumOfUses(b)'
    BY RecordedIsNext
  <2> QED BY <2>2 DEF SumOfUses
<1>3. S \subseteq T /\ \A u \in S : f[u] = g[u]
  <2>1. \A u \in DOMAIN used : u \in DOMAIN used' /\ used'[u] = used[u]
    BY UsedStep
  <2> QED BY <1>1, <1>2, <2>1 DEF UsedBy, RecordedAmount
<1>4. SumFunctionOnSet(f, S) = SumFunctionOnSet(g, S)
  BY <1>1, <1>3, SumEqual
<1>5. SumFunctionOnSet(g, S) <= SumFunctionOnSet(g, T)
  BY <1>2, <1>3, SumWithin
<1> QED BY <1>1, <1>2, <1>4, <1>5

LEMMA EarnedIsNat ==
  ASSUME AccountingType, NEW b \in Bookings
  PROVE Earned(b) \in Nat
<1>1. StayAmount(booking[b]) \in Nat
  BY RowsOf, StayIsNat
<1>2. Recorded(UsedBy(b)) \in Nat
  BY RecordedIs DEF SumOfUses
<1> QED BY <1>1, <1>2 DEF Earned

LEMMA EarnedStep ==
  ASSUME AccountingType, AccountingType', [AccountingNext]_accounting_vars, NEW b \in Bookings
  PROVE /\ Earned(b) \in Nat /\ Earned(b)' \in Nat /\ Earned(b) <= Earned(b)'
        /\ UsedBy(b)' = UsedBy(b) => Earned(b)' = Earned(b)
<1>1. StayAmount(booking[b]) \in Nat /\ StayAmount(booking'[b]) = StayAmount(booking[b])
  BY RowsOf, StayIsNat, TermsStand
<1>2. /\ Recorded(UsedBy(b)) \in Nat /\ Recorded(UsedBy(b))' \in Nat
      /\ Recorded(UsedBy(b)) <= Recorded(UsedBy(b))'
      /\ UsedBy(b)' = UsedBy(b) => Recorded(UsedBy(b))' = Recorded(UsedBy(b))
  BY RecordedStep
<1>3. Earned(b) = StayAmount(booking[b]) + 100 * Recorded(UsedBy(b))
  BY DEF Earned
<1>4. Earned(b)' = StayAmount(booking'[b]) + 100 * Recorded(UsedBy(b))'
  BY DEF Earned
<1>5. \A k, l, m \in Nat : l <= m => /\ k + 100 * l \in Nat /\ k + 100 * m \in Nat
                                     /\ k + 100 * l <= k + 100 * m
  OBVIOUS
<1> QED BY <1>1, <1>2, <1>3, <1>4, <1>5

SumOfEarned(year, month) ==
  \E f, S : /\ S = OutIn(year, month) /\ IsFiniteSet(S)
            /\ \A b \in S : f[b] = Earned(b) /\ f[b] \in Nat
            /\ Revenue(year, month) = SumFunctionOnSet(f, S)

LEMMA OutInBookings ==
  ASSUME AccountingType, NEW year, NEW month
  PROVE OutIn(year, month) \subseteq Bookings /\ IsFiniteSet(OutIn(year, month))
<1>1. OutIn(year, month) \subseteq Bookings
  BY DEF OutIn
<1> QED BY <1>1, FiniteTables, FS_Subset

LEMMA RevenueIs == \A year, month : AccountingType => SumOfEarned(year, month)
<1> SUFFICES ASSUME NEW year, NEW month, AccountingType PROVE SumOfEarned(year, month)
  OBVIOUS
<1>1. OutIn(year, month) \subseteq Bookings /\ IsFiniteSet(OutIn(year, month))
  BY OutInBookings
<1>2. PICK f : f = [b \in OutIn(year, month) |-> Earned(b)]
  OBVIOUS
<1>3. \A b \in OutIn(year, month) : f[b] = Earned(b) /\ f[b] \in Nat
  BY <1>1, <1>2, EarnedIsNat
<1>4. Revenue(year, month) = SumFunctionOnSet(f, OutIn(year, month))
  BY <1>2, SumOverDomain DEF Revenue
<1> QED BY <1>1, <1>3, <1>4 DEF SumOfEarned

LEMMA RevenueIsNext ==
  ASSUME NEW year, NEW month
  PROVE AccountingType' => SumOfEarned(year, month)'
<1>1. AccountingType => SumOfEarned(year, month)
  BY RevenueIs
<1> QED BY <1>1, PTL

RevenueStep ==
  \A year \in Years, month \in Months :
       /\ Revenue(year, month)' >= Revenue(year, month)
       /\ Revenue(year, month)' # Revenue(year, month) =>
            \E b \in OutIn(year, month)' :
              b \notin OutIn(year, month) \/ UsedBy(b)' # UsedBy(b)

LEMMA RevenueStays ==
  ASSUME AccountingType, AccountingType', [AccountingNext]_accounting_vars
  PROVE RevenueStep
<1> SUFFICES ASSUME NEW year \in Years, NEW month \in Months
             PROVE /\ Revenue(year, month)' >= Revenue(year, month)
                   /\ Revenue(year, month)' # Revenue(year, month) =>
                        \E b \in OutIn(year, month)' :
                          b \notin OutIn(year, month) \/ UsedBy(b)' # UsedBy(b)
  BY DEF RevenueStep
<1>1. PICK f, S : /\ S = OutIn(year, month) /\ IsFiniteSet(S)
                  /\ \A b \in S : f[b] = Earned(b) /\ f[b] \in Nat
                  /\ Revenue(year, month) = SumFunctionOnSet(f, S)
  BY RevenueIs DEF SumOfEarned
<1>2. PICK g, T : /\ T = OutIn(year, month)' /\ IsFiniteSet(T)
                  /\ \A b \in T : g[b] = Earned(b)' /\ g[b] \in Nat
                  /\ Revenue(year, month)' = SumFunctionOnSet(g, T)
  <2>1. SumOfEarned(year, month)'
    BY RevenueIsNext
  <2> QED BY <2>1 DEF SumOfEarned
<1>3. S \subseteq Bookings /\ S \subseteq T
  <2>1. S \subseteq Bookings
    BY <1>1, OutInBookings
  <2>2. \A b \in S : b \in Bookings' /\ SameTerms(b)
    BY <2>1, BookingStep, TermsStand
  <2> QED BY <1>1, <1>2, <2>1, <2>2 DEF OutIn, SameTerms, Year, Month, Date
<1>4. \A b \in S : /\ f[b] \in Nat /\ g[b] \in Nat /\ f[b] <= g[b]
                   /\ UsedBy(b)' = UsedBy(b) => g[b] = f[b]
  BY <1>1, <1>2, <1>3, EarnedStep
<1>5. SumFunctionOnSet(f, S) <= SumFunctionOnSet(g, S)
  BY <1>1, <1>4, SumMonotone
<1>6. /\ SumFunctionOnSet(g, S) \in Nat /\ SumFunctionOnSet(g, T) \in Nat
      /\ SumFunctionOnSet(g, S) <= SumFunctionOnSet(g, T)
  BY <1>2, <1>3, SumWithin
<1>7. SumFunctionOnSet(f, S) \in Nat
  BY <1>1, SumNat
<1>8. Revenue(year, month)' >= Revenue(year, month)
  BY <1>1, <1>2, <1>5, <1>6, <1>7
<1>9. ASSUME ~\E b \in T : b \notin S \/ UsedBy(b)' # UsedBy(b)
      PROVE Revenue(year, month)' = Revenue(year, month)
  <2>1. S = T
    BY <1>3, <1>9
  <2>2. \A b \in S : g[b] = f[b]
    BY <1>3, <1>4, <1>9
  <2>3. SumFunctionOnSet(g, S) = SumFunctionOnSet(f, S)
    BY <1>1, <2>2, SumEqual
  <2> QED BY <1>1, <1>2, <2>1, <2>3
<1> QED BY <1>1, <1>2, <1>8, <1>9

\* revenueStats: what was reported of a month only grows, and only by a check-out
\* or by a service added to a booking that was checked out in it.
THEOREM RevenueIsFinal == AccountingSpec => RevenueStands
<1>1. AccountingType /\ AccountingType' /\ [AccountingNext]_accounting_vars => [RevenueStep]_accounting_vars
  BY RevenueStays
<1>2. AccountingSpec => [][RevenueStep]_accounting_vars
  BY <1>1, AccountsWellTyped, PTL DEF AccountingSpec
<1> QED BY <1>2 DEF RevenueStands, RevenueStep
-----------------------------------------------------------------------------
(* Check-out *)

\* At the prices of the booking what is billed is what was recorded
LEMMA BilledAsRecorded ==
  ASSUME AccountingType, NEW b \in Bookings, AsBooked(b)
  PROVE ServiceBill(b) = Recorded(UsedBy(b))
<1>1. \A u \in UsedBy(b) : CurrentAmount(u) = RecordedAmount(u)
  BY DEF AsBooked, CurrentAmount, RecordedAmount
<1>2. [u \in UsedBy(b) |-> CurrentAmount(u)] = [u \in UsedBy(b) |-> RecordedAmount(u)]
  BY <1>1
<1> QED BY <1>2 DEF ServiceBill, Recorded

BalanceOf(b) ==
       /\ booking'[b].out /\ ~booking[b].out /\ bill' # bill
       /\ RoomBills(b) # {} /\ AsBooked(b)
       => LET room == bill[CHOOSE n \in RoomBills(b) : TRUE].amount
              service == bill'[Len(bill')].amount
          IN /\ 100 * (room + service) = Earned(b)'
             /\ DaysDiff(booking[b].checkin, booking[b].checkout) = 1
                  => Invoice(b)' = Earned(b)' /\ ExportRow(b)' = Earned(b)'

LEMMA ServiceBillNext ==
  ASSUME NEW b, UNCHANGED <<service_price, used>>
  PROVE /\ UsedBy(b)' = UsedBy(b) /\ ServiceBill(b)' = ServiceBill(b)
        /\ Recorded(UsedBy(b))' = Recorded(UsedBy(b))
<1>1. UsedBy(b)' = UsedBy(b)
  BY DEF UsedBy
<1>2. [u \in UsedBy(b)' |-> CurrentAmount(u)'] = [u \in UsedBy(b) |-> CurrentAmount(u)]
  BY <1>1 DEF CurrentAmount
<1>3. [u \in UsedBy(b)' |-> RecordedAmount(u)'] = [u \in UsedBy(b) |-> RecordedAmount(u)]
  BY <1>1 DEF RecordedAmount
<1>4. ServiceBill(b)' = SumFunction([u \in UsedBy(b)' |-> CurrentAmount(u)'])
  BY DEF ServiceBill
<1>5. Recorded(UsedBy(b))' = SumFunction([u \in UsedBy(b)' |-> RecordedAmount(u)'])
  BY DEF Recorded
<1> QED BY <1>1, <1>2, <1>3, <1>4, <1>5 DEF ServiceBill, Recorded

LEMMA Balances ==
  ASSUME AccountsInv, [AccountingNext]_accounting_vars, NEW b \in Bookings
  PROVE BalanceOf(b)
<1> SUFFICES ASSUME booking'[b].out, ~booking[b].out, bill' # bill,
                    RoomBills(b) # {}, AsBooked(b)
             PROVE LET room == bill[CHOOSE n \in RoomBills(b) : TRUE].amount
                       service == bill'[Len(bill')].amount
                   IN /\ 100 * (room + service) = Earned(b)'
                      /\ DaysDiff(booking[b].checkin, booking[b].checkout) = 1
                           => Invoice(b)' = Earned(b)' /\ ExportRow(b)' = Earned(b)'
  BY DEF BalanceOf
<1>1. AccountingType
  BY DEF AccountsInv
<1>2. booking[b] \in BookingRow
  BY <1>1, RowsOf
<1>3. CheckOut(b)
  BY <1>1, <1>2, BookingStep DEF BookingRow
<1>4. PICK n : n = CHOOSE m \in RoomBills(b) : TRUE
  OBVIOUS
<1>5. n \in RoomBills(b)
  BY <1>4
<1>6. PICK room : room = bill[n].amount
  OBVIOUS
<1>7. 100 * room = StayAmount(booking[b]) /\ room \in Nat /\ booking[b].rooms = booking[b].quantity
  <2>1. n \in DOMAIN bill /\ bill[n].booking = b /\ bill[n].for = "Room"
    BY <1>5 DEF RoomBills
  <2>2. BillIsOfStay(n)
    BY <2>1 DEF AccountsInv, RoomBillsAreStays
  <2>3. bill[n] \in BillRow
    BY <1>1, <2>1, RowsOf
  <2> QED BY <1>6, <2>1, <2>2, <2>3, AccountingAssumption DEF BillIsOfStay, BillRow
<1>8. PICK sum : sum = ServiceBill(b)
  OBVIOUS
<1>9. sum \in Nat /\ sum = Recorded(UsedBy(b))
  BY <1>1, <1>8, ServiceBillIsNat, BilledAsRecorded
<1>10. bill'[Len(bill')].amount = sum
  <2>1. bill' = Append(bill, [booking |-> b, for |-> "Service", amount |-> sum])
    BY <1>3, <1>8 DEF CheckOut
  <2>2. bill \in Seq(BillRow)
    BY <1>1, TypeIs
  <2> DEFINE new == [booking |-> b, for |-> "Service", amount |-> sum]
  <2>3. new.amount = sum OBVIOUS
  <2> HIDE DEF new
  <2>4. bill'[Len(bill')] = new
    BY <2>1, <2>2 DEF new
  <2> QED BY <2>3, <2>4
<1>11. UNCHANGED <<type_price, service_price, used>>
  BY <1>3 DEF CheckOut
<1>12. ServiceBill(b)' = sum /\ Recorded(UsedBy(b))' = sum
  BY <1>8, <1>9, <1>11, ServiceBillNext
<1>13. SameTerms(b) /\ StayAmount(booking'[b]) = StayAmount(booking[b])
  BY <1>1, TermsStand
<1>14. Earned(b)' = 100 * room + 100 * sum
  BY <1>7, <1>12, <1>13 DEF Earned
<1>15. 100 * (room + sum) = Earned(b)'
  BY <1>7, <1>9, <1>14
<1>16. ASSUME DaysDiff(booking[b].checkin, booking[b].checkout) = 1
       PROVE Invoice(b)' = Earned(b)' /\ ExportRow(b)' = Earned(b)'
  <2>1. StayAmount(booking[b])
          = Hundredths(booking[b].price, booking[b].quantity, 1, booking[b].discount)
    BY <1>16 DEF StayAmount
  <2>2. ExportRow(b)' = Earned(b)'
    <3>1. ExportRow(b)' = Hundredths(booking'[b].price, booking'[b].quantity, 1, booking'[b].discount)
                            + 100 * Recorded(UsedBy(b))'
      BY DEF ExportRow
    <3> QED BY <1>7, <1>12, <1>13, <1>14, <2>1, <3>1 DEF SameTerms
  <2>3. Invoice(b)' = Earned(b)'
    <3>1. Invoice(b)' = Hundredths(type_price'[booking'[b].type], booking'[b].rooms, 1,
                                   booking'[b].discount) + 100 * ServiceBill(b)'
      BY DEF Invoice
    <3>2. type_price'[booking'[b].type] = booking[b].price
      BY <1>11, <1>13 DEF AsBooked, SameTerms
    <3> QED BY <1>7, <1>12, <1>13, <1>14, <2>1, <3>1, <3>2 DEF SameTerms
  <2> QED BY <2>2, <2>3
<1> QED BY <1>4, <1>6, <1>10, <1>15, <1>16

BalanceStep == \A b \in Bookings : BalanceOf(b)

\* checkout: at the prices of the booking, the room bill of create and the service
\* bill of checkout come to what the stay adds to the revenue.
THEOREM CheckoutAddsUp == AccountingSpec => CheckoutBalances
<1>1. AccountsInv /\ [AccountingNext]_accounting_vars => [BalanceStep]_accounting_vars
  BY Balances DEF BalanceStep
<1>2. AccountingSpec => [][BalanceStep]_accounting_vars
  BY <1>1, AccountsHold, PTL DEF AccountingSpec
<1> QED BY <1>2 DEF CheckoutBalances, BalanceStep, BalanceOf
-----------------------------------------------------------------------------
(* A year's days and months *)

\* Days of a year
LEMMA DaysOfYears ==
  ASSUME NEW year \in Nat, NEW d \in Nat
  PROVE /\ MonthDays * YearMonths \in Nat \ {0}
        /\ year * MonthDays * YearMonths \in Nat
        /\ d \div (MonthDays * YearMonths) = year
             <=> d \in year * MonthDays * YearMonths ..
                       year * MonthDays * YearMonths + MonthDays * YearMonths - 1
<1>1. MonthDays \in Nat \ {0} /\ YearMonths \in Nat \ {0}
  BY AccountingAssumption
<1>2. PICK l : l = MonthDays * YearMonths
  OBVIOUS
<1>3. l \in Nat \ {0}
  <2>1. \A m, n \in Nat \ {0} : m * n \in Nat \ {0}
    OBVIOUS
  <2> QED BY <1>1, <1>2, <2>1
<1>4. year * MonthDays * YearMonths = year * l
  <2>1. \A k, m, n \in Nat : k * m * n = k * (m * n)
    OBVIOUS
  <2> QED BY <1>1, <1>2, <2>1
<1>5. year * l \in Nat
  BY <1>3, Products
<1>6. \A k \in Nat, m \in Nat \ {0} : /\ k \div m \in Nat
                                      /\ m * (k \div m) <= k /\ k < m * (k \div m) + m
  OBVIOUS
<1>7. \A j, k \in Nat, m \in Nat \ {0} : j < k => m * j + m <= m * k
  <2> SUFFICES ASSUME NEW j \in Nat, NEW k \in Nat, NEW m \in Nat \ {0}, j < k
               PROVE m * j + m <= m * k
    OBVIOUS
  <2>1. PICK i \in Nat : k = j + 1 + i
    <3>1. k - j - 1 \in Nat /\ k = j + 1 + (k - j - 1) OBVIOUS
    <3> QED BY <3>1
  <2>2. m * k = m * j + m + m * i
    BY <2>1
  <2>3. m * i \in Nat /\ m * j \in Nat
    BY Products
  <2> QED BY <2>2, <2>3
<1>8. PICK q : q = d \div l
  OBVIOUS
<1>9. q \in Nat /\ l * q <= d /\ d < l * q + l
  BY <1>3, <1>6, <1>8
<1>10. l * q \in Nat /\ l * year = year * l
  BY <1>3, <1>9, Products
<1>11. q = year <=> year * l <= d /\ d <= year * l + l - 1
  <2>1. CASE q = year
    BY <1>3, <1>5, <1>9, <1>10, <2>1
  <2>2. CASE q < year
    <3>1. l * q + l <= l * year
      BY <1>3, <1>7, <1>9, <2>2
    <3> QED BY <1>3, <1>5, <1>9, <1>10, <2>2, <3>1
  <2>3. CASE year < q
    <3>1. l * year + l <= l * q
      BY <1>3, <1>7, <1>9, <2>3
    <3> QED BY <1>3, <1>5, <1>9, <1>10, <2>3, <3>1
  <2> QED BY <1>9, <2>1, <2>2, <2>3
<1> QED BY <1>2, <1>3, <1>4, <1>5, <1>8, <1>11

OutOf(year) == {b \in Bookings : booking[b].out /\ Year(booking[b].checkout) = year}

LEMMA DatesOfBookings ==
  ASSUME AccountingType, NEW b \in Bookings
  PROVE /\ Date(booking[b].checkout) \in Nat /\ Month(booking[b].checkout) \in Months
<1>1. booking[b].checkout \in Nat
  BY RowsOf DEF BookingRow
<1>2. {Ticks, MonthDays, YearMonths} \subseteq Nat \ {0}
  BY AccountingAssumption
<1>3. Date(booking[b].checkout) \in Nat
  BY <1>1, <1>2, Quotients DEF Date
<1>4. Date(booking[b].checkout) \div MonthDays \in Nat
  BY <1>2, <1>3, Quotients
<1>5. \A k \in Nat, l \in Nat \ {0} : 1 + (k % l) \in 1 .. l
  OBVIOUS
<1> QED BY <1>2, <1>3, <1>4, <1>5 DEF Month, Months

LEMMA YearAddsUp ==
  ASSUME AccountingType, NEW year
  PROVE YearTotal(year) = SumFunction([b \in OutOf(year) |-> Earned(b)])
<1>1. PICK f : f = [b \in Bookings |-> Earned(b)]
  OBVIOUS
<1>2. \A b \in Bookings : f[b] = Earned(b) /\ f[b] \in Nat
  BY <1>1, EarnedIsNat
<1>3. PICK P : P = [month \in Months |-> OutIn(year, month)]
  OBVIOUS
<1>4. PICK h : h = [month \in Months |-> Revenue(year, month)]
  OBVIOUS
<1>5. \A m \in Months : P[m] = OutIn(year, m) /\ P[m] \subseteq Bookings /\ IsFiniteSet(P[m])
  BY <1>3, OutInBookings
<1>6. \A m \in Months : \A b \in P[m] : f[b] \in Nat
  BY <1>2, <1>5
<1>7. \A m, n \in Months : m # n => P[m] \cap P[n] = {}
  BY <1>5 DEF OutIn
<1>8. \A m \in Months : h[m] = SumFunctionOnSet(f, P[m])
  <2> SUFFICES ASSUME NEW m \in Months PROVE h[m] = SumFunctionOnSet(f, P[m])
    OBVIOUS
  <2>1. PICK g, S : /\ S = OutIn(year, m) /\ IsFiniteSet(S)
                    /\ \A b \in S : g[b] = Earned(b) /\ g[b] \in Nat
                    /\ Revenue(year, m) = SumFunctionOnSet(g, S)
    BY RevenueIs DEF SumOfEarned
  <2>2. \A b \in S : f[b] = g[b]
    BY <1>2, <1>5, <2>1
  <2>3. SumFunctionOnSet(f, S) = SumFunctionOnSet(g, S)
    BY <2>1, <2>2, SumEqual
  <2> QED BY <1>4, <1>5, <2>1, <2>3
<1>9. IsFiniteSet(Months)
  <2>1. YearMonths \in Nat BY AccountingAssumption
  <2> QED BY <2>1, FS_Interval DEF Months
<1>10. \A b : b \in OutOf(year) <=> \E m \in Months : b \in P[m]
  <2>1. \A b \in OutOf(year) : Month(booking[b].checkout) \in Months
    BY DatesOfBookings DEF OutOf
  <2> QED BY <1>5, <2>1 DEF OutIn, OutOf
<1>11. IsFiniteSet(OutOf(year)) /\ SumFunctionOnSet(h, Months) = SumFunctionOnSet(f, OutOf(year))
  <2>1. Parts(Months, P, OutOf(year))
    BY <1>5, <1>7, <1>9, <1>10 DEF Parts
  <2>2. SumsOfParts(h, f, Months, P)
    BY <1>6, <1>8 DEF SumsOfParts
  <2> QED BY <2>1, <2>2, SumOfParts
<1>12. YearTotal(year) = SumFunctionOnSet(h, Months)
  BY <1>4, SumOverDomain DEF YearTotal
<1>13. PICK e : e = [b \in OutOf(year) |-> Earned(b)]
  OBVIOUS
<1>14. \A b \in OutOf(year) : e[b] = f[b]
  BY <1>2, <1>13 DEF OutOf
<1>15. SumFunctionOnSet(e, OutOf(year)) = SumFunctionOnSet(f, OutOf(year))
  BY <1>11, <1>14, SumEqual
<1>16. SumFunction(e) = SumFunctionOnSet(e, OutOf(year))
  BY <1>13, SumOverDomain
<1> QED BY <1>11, <1>12, <1>13, <1>15, <1>16

LEMMA DoneInBookings ==
  ASSUME AccountingType, NEW from, NEW to
  PROVE DoneIn(from, to) \subseteq Bookings /\ IsFiniteSet(DoneIn(from, to))
<1>1. DoneIn(from, to) \subseteq Bookings
  BY DEF DoneIn
<1> QED BY <1>1, FiniteTables, FS_Subset

LEMMA DaysAddUp ==
  ASSUME AccountingType, NEW from \in Nat, NEW to \in Int
  PROVE DayTotal(from, to) = Cardinality(DoneIn(from, to))
<1>1. PICK P : P = [day \in from .. to |-> DoneIn(day, day)]
  OBVIOUS
<1>2. PICK h : h = [day \in from .. to |-> CountOn(day)]
  OBVIOUS
<1>3. \A day \in from .. to : P[day] = DoneIn(day, day) /\ IsFiniteSet(P[day])
  BY <1>1, DoneInBookings
<1>4. \A b \in Bookings : Date(booking[b].checkout) \in Nat
  BY DatesOfBookings
<1>5. \A k, l \in from .. to : k # l => P[k] \cap P[l] = {}
  <2> SUFFICES ASSUME NEW k \in from .. to, NEW l \in from .. to, NEW b \in P[k], b \in P[l]
               PROVE k = l
    OBVIOUS
  <2>1. b \in Bookings /\ k <= Date(booking[b].checkout) /\ Date(booking[b].checkout) <= k
        /\ l <= Date(booking[b].checkout) /\ Date(booking[b].checkout) <= l
    BY <1>3 DEF DoneIn
  <2> QED BY <1>4, <2>1
<1>6. \A day \in from .. to : h[day] = Cardinality(P[day])
  BY <1>2, <1>3 DEF CountOn
<1>7. IsFiniteSet(from .. to)
  BY FS_Interval
<1>8. \A b : b \in DoneIn(from, to) <=> \E day \in from .. to : b \in P[day]
  <2>1. \A b \in DoneIn(from, to) : /\ Date(booking[b].checkout) \in from .. to
                                    /\ b \in DoneIn(Date(booking[b].checkout), Date(booking[b].checkout))
    BY <1>4 DEF DoneIn
  <2>2. \A day \in from .. to : DoneIn(day, day) \subseteq DoneIn(from, to)
    <3> SUFFICES ASSUME NEW day \in from .. to, NEW b \in DoneIn(day, day)
                 PROVE b \in DoneIn(from, to)
      OBVIOUS
    <3>1. b \in Bookings /\ day <= Date(booking[b].checkout) /\ Date(booking[b].checkout) <= day
      BY DEF DoneIn
    <3> QED BY <1>4, <3>1 DEF DoneIn
  <2> QED BY <1>3, <2>1, <2>2
<1>9. SumFunctionOnSet(h, from .. to) = Cardinality(DoneIn(from, to))
  <2>1. Parts(from .. to, P, DoneIn(from, to))
    BY <1>3, <1>5, <1>7, <1>8 DEF Parts
  <2>2. CountsOfParts(h, from .. to, P)
    BY <1>6 DEF CountsOfParts
  <2> QED BY <2>1, <2>2, CountOfParts
<1> QED BY <1>2, <1>9, SumOverDomain DEF DayTotal

LEMMA DoneInYear ==
  ASSUME AccountsInv, NEW year \in Nat
  PROVE LET first == year * MonthDays * YearMonths
            last == first + MonthDays * YearMonths - 1
        IN /\ first \in Nat /\ last \in Int
           /\ DoneIn(first, last) = {b \in OutOf(year) : booking[b].state = "Done"}
<1>1. PICK first, last : /\ first = year * MonthDays * YearMonths
                         /\ last = first + MonthDays * YearMonths - 1
  OBVIOUS
<1>2. first \in Nat /\ last \in Int
  BY <1>1, DaysOfYears
<1>3. \A d \in Nat : d \div (MonthDays * YearMonths) = year <=> d \in first .. last
  BY <1>1, DaysOfYears
<1>4. \A b \in Bookings :
        /\ Year(booking[b].checkout) = year
             <=> first <= Date(booking[b].checkout) /\ Date(booking[b].checkout) <= last
        /\ booking[b].state = "Done" => booking[b].out
  BY <1>2, <1>3, DatesOfBookings DEF Year, AccountsInv, DoneIsOut
<1>5. DoneIn(first, last) = {b \in OutOf(year) : booking[b].state = "Done"}
  BY <1>4 DEF DoneIn, OutOf
<1> QED BY <1>1, <1>2, <1>5

LEMMA YearsAreCounted ==
  ASSUME AccountsInv
  PROVE CountedOnce
<1> SUFFICES ASSUME NEW year \in Years
             PROVE LET first == year * MonthDays * YearMonths
                       last == first + MonthDays * YearMonths - 1
                   IN /\ YearTotal(year) = SumFunction([b \in OutOf(year) |-> Earned(b)])
                      /\ DayTotal(first, last)
                           = Cardinality({b \in OutOf(year) : booking[b].state = "Done"})
  BY DEF CountedOnce, OutOf
<1>1. AccountingType /\ year \in Nat
  BY AccountingAssumption DEF AccountsInv
<1>2. PICK first, last : /\ first = year * MonthDays * YearMonths
                         /\ last = first + MonthDays * YearMonths - 1
  OBVIOUS
<1>3. /\ first \in Nat /\ last \in Int
      /\ DoneIn(first, last) = {b \in OutOf(year) : booking[b].state = "Done"}
  BY <1>1, <1>2, DoneInYear
<1>4. DayTotal(first, last) = Cardinality({b \in OutOf(year) : booking[b].state = "Done"})
  BY <1>1, <1>3, DaysAddUp
<1>5. YearTotal(year) = SumFunction([b \in OutOf(year) |-> Earned(b)])
  BY <1>1, YearAddsUp
<1> QED BY <1>2, <1>4, <1>5

\* exportRevenue and revenueStatsBooking: the months add up to the checked-out
\* bookings of the year, the days to those of them whose state is still Done.
THEOREM EveryStayCountsOnce == AccountingSpec => []CountedOnce
<1>1. AccountsInv => CountedOnce
  BY YearsAreCounted
<1> QED BY <1>1, AccountsHold, PTL
-----------------------------------------------------------------------------
(* The lists of services and types *)

LEMMA RecordedWithin ==
  ASSUME AccountingType, NEW G, NEW T, G \subseteq T, T \subseteq DOMAIN used
  PROVE Recorded(G) <= Recorded(T) /\ Recorded(G) \in Nat /\ Recorded(T) \in Nat
<1>1. IsFiniteSet(T) /\ IsFiniteSet(G)
  BY FiniteTables, FS_Subset
<1>2. PICK f : f = [u \in T |-> RecordedAmount(u)]
  OBVIOUS
<1>3. PICK g : g = [u \in G |-> RecordedAmount(u)]
  OBVIOUS
<1>4. (\A u \in T : f[u] \in Nat) /\ (\A u \in G : g[u] = f[u])
  BY <1>2, <1>3, AmountsAreNat
<1>5. SumFunctionOnSet(g, G) = SumFunctionOnSet(f, G)
  BY <1>1, <1>4, SumEqual
<1>6. /\ SumFunctionOnSet(f, G) \in Nat /\ SumFunctionOnSet(f, T) \in Nat
      /\ SumFunctionOnSet(f, G) <= SumFunctionOnSet(f, T)
  BY <1>1, <1>4, SumWithin
<1>7. Recorded(T) = SumFunctionOnSet(f, T) /\ Recorded(G) = SumFunctionOnSet(g, G)
  BY <1>2, <1>3, SumOverDomain DEF Recorded
<1> QED BY <1>5, <1>6, <1>7

\* Times n, in order
LEMMA ProductOrder ==
  \A j, k, m \in Nat : j <= k => m * j <= m * k
<1> SUFFICES ASSUME NEW j \in Nat, NEW k \in Nat, NEW m \in Nat, j <= k
             PROVE m * j <= m * k
  OBVIOUS
<1>1. PICK i \in Nat : k = j + i
  <2>1. k - j \in Nat /\ k = j + (k - j) OBVIOUS
  <2> QED BY <2>1
<1>2. m * k = m * j + m * i
  BY <1>1
<1>3. m * i \in Nat /\ m * j \in Nat
  BY Products
<1> QED BY <1>2, <1>3

\* The days SQL counts between two dates are at most those the code counts
LEMMA DatesWithinDays ==
  ASSUME NEW i \in Nat, NEW o \in Nat
  PROVE DateDiff(i, o) \in Int /\ DateDiff(i, o) <= DaysDiff(i, o)
<1>1. Ticks \in Nat \ {0}
  BY AccountingAssumption
<1>2. \A k \in Nat, m \in Nat \ {0} : /\ k \div m \in Nat
                                      /\ m * (k \div m) <= k /\ k < m * (k \div m) + m
  OBVIOUS
<1>3. PICK d : d = Distance(i, o) + Ticks - 1
  OBVIOUS
<1>4. d \in Nat
  BY <1>1, <1>3 DEF Distance
<1>5. PICK p, q, n : p = i \div Ticks /\ q = o \div Ticks /\ n = d \div Ticks
  OBVIOUS
<1>6. /\ p \in Nat /\ Ticks * p <= i /\ i < Ticks * p + Ticks
      /\ q \in Nat /\ Ticks * q <= o /\ o < Ticks * q + Ticks
      /\ n \in Nat /\ Ticks * n <= d /\ d < Ticks * n + Ticks
  BY <1>1, <1>2, <1>4, <1>5
<1>7. DateDiff(i, o) = q - p /\ DaysDiff(i, o) = n
  BY <1>3, <1>5 DEF DateDiff, Date, DaysDiff
<1>8. Ticks * p \in Nat /\ Ticks * q \in Nat /\ Ticks * n \in Nat
  BY <1>1, <1>6, Products
<1>9. q <= n + p
  <2> SUFFICES ASSUME n + p + 1 <= q PROVE FALSE
    BY <1>6
  <2>1. n + p + 1 \in Nat
    BY <1>6
  <2>2. Ticks * (n + p + 1) <= Ticks * q
    BY <1>1, <1>6, <2>1, ProductOrder
  <2>3. Ticks * (n + p + 1) = Ticks * n + Ticks * p + Ticks
    BY <1>1, <1>6
  <2>4. CASE i <= o
    <3>1. d = o - i + Ticks - 1
      BY <1>3, <2>4 DEF Distance
    <3> QED BY <1>1, <1>6, <1>8, <2>2, <2>3, <3>1
  <2>5. CASE o < i
    BY <1>1, <1>6, <1>8, <2>2, <2>3, <2>5
  <2> QED BY <2>4, <2>5
<1> QED BY <1>6, <1>7, <1>9

LEMMA FigureWithin ==
  ASSUME AccountingType, NEW b \in Bookings, Fits(StayAmount(booking[b]))
  PROVE RoomFigure(b) \in Int /\ 100 * RoomFigure(b) <= StayAmount(booking[b])
<1>1. PICK i, o, p, q, off : /\ i = booking[b].checkin /\ o = booking[b].checkout
                             /\ p = booking[b].price /\ q = booking[b].quantity
                             /\ off = booking[b].discount
  OBVIOUS
<1>2. i \in Nat /\ o \in Nat /\ p \in Nat /\ q \in Nat /\ off \in 0 .. 100
  BY <1>1, RowsOf, AccountingAssumption DEF BookingRow
<1>3. PICK d, n : d = DateDiff(i, o) /\ n = DaysDiff(i, o)
  OBVIOUS
<1>4. d \in Int /\ n \in Nat /\ d <= n
  BY <1>2, <1>3, DatesWithinDays, DaysAreNat
<1>5. PICK k : k = p * q
  OBVIOUS
<1>6. PICK full : full = k * d
  OBVIOUS
<1>7. PICK stay : stay = StayAmount(booking[b])
  OBVIOUS
<1>8. k \in Nat /\ full \in Int /\ k * n \in Nat
  <2>1. k \in Nat
    BY <1>2, <1>5, Products
  <2>2. \A x, y \in Int : x * y \in Int
    OBVIOUS
  <2> QED BY <1>4, <1>6, <2>1, <2>2, Products
<1>9. stay = k * n * (100 - off) /\ stay \in Nat /\ stay % 100 = 0
  <2>1. stay = k * n * (100 - off)
    BY <1>1, <1>3, <1>5, <1>7 DEF StayAmount, Hundredths
  <2>2. stay \in Nat
    BY <1>7, RowsOf, StayIsNat
  <2> QED BY <1>7, <2>1, <2>2 DEF Fits
<1>10. CASE full < 0
  <2>1. PICK m : m = -full
    OBVIOUS
  <2>2. m \in Nat /\ m * off \in Nat
    BY <1>2, <1>8, <1>10, <2>1, Products
  <2>3. m * off <= m * 100
    BY <1>2, <2>2, ProductOrder
  <2>4. (m * off) \div 100 \in Int /\ (m * off) \div 100 <= m
    BY <2>2, <2>3
  <2>5. RoomFigure(b) = full - (-((m * off) \div 100))
    <3>1. -(full * off) = m * off
      BY <1>2, <1>8, <2>1
    <3>2. booking[b].price * booking[b].quantity * DateDiff(booking[b].checkin, booking[b].checkout) = full
      BY <1>1, <1>3, <1>5, <1>6
    <3>3. RoomFigure(b) = full - (-((-full * off) \div 100))
      BY <1>1, <1>10, <3>2 DEF RoomFigure
    <3> QED BY <3>1, <3>3
  <2>6. RoomFigure(b) \in Int /\ RoomFigure(b) <= 0
    BY <1>8, <2>1, <2>2, <2>4, <2>5
  <2> QED BY <1>7, <1>9, <2>6
<1>11. CASE full >= 0
  <2>1. full \in Nat /\ full * off \in Nat /\ 100 - off \in Nat
    BY <1>2, <1>8, <1>11, Products
  <2>2. full <= k * n
    <3>1. CASE d >= 0
      BY <1>4, <1>6, <1>8, <3>1, ProductOrder
    <3>2. CASE d < 0
      <4>1. k * (-d) \in Nat
        BY <1>4, <1>8, <3>2, Products
      <4>2. k * d = -(k * (-d))
        BY <1>4, <1>8
      <4>3. full <= 0
        BY <1>6, <4>1, <4>2
      <4> QED BY <1>8, <4>3
    <3> QED BY <1>4, <3>1, <3>2
  <2>3. full * (100 - off) <= stay
    <3>1. (100 - off) * full <= (100 - off) * (k * n)
      BY <1>8, <2>1, <2>2, ProductOrder
    <3>2. \A x, y \in Nat : x * y = y * x
      OBVIOUS
    <3> QED BY <1>8, <1>9, <2>1, <3>1, <3>2
  <2>4. full * (100 - off) = 100 * full - full * off
    BY <1>2, <2>1
  <2>5. \A x, y, z \in Nat : /\ 100 * x - y <= z /\ z % 100 = 0
                             => x - (y \div 100) \in Int /\ 100 * (x - (y \div 100)) <= z
    OBVIOUS
  <2>6. RoomFigure(b) = full - ((full * off) \div 100)
    BY <1>1, <1>3, <1>5, <1>6, <1>8, <1>11 DEF RoomFigure
  <2> QED BY <1>7, <1>9, <2>1, <2>3, <2>4, <2>5, <2>6
<1> QED BY <1>8, <1>10, <1>11

LEMMA FiguresAreWithin ==
  ASSUME AccountsInv
  PROVE StatsWithinRevenue
<1> SUFFICES ASSUME NEW year \in Years
             PROVE LET first == year * MonthDays * YearMonths
                       last == first + MonthDays * YearMonths - 1
                   IN /\ \A s \in Services : \A figure \in ServiceFigures(s, first, last) :
                           figure <= Recorded({u \in DOMAIN used : /\ used[u].service = s
                                                                   /\ used[u].booking \in OutOf(year)})
                      /\ \A type \in TypeRooms : \A figure \in RoomFigures(type, first, last) :
                           100 * figure <= SumFunction([b \in {c \in OutOf(year) : booking[c].type = type}
                                                          |-> StayAmount(booking[b])])
  BY DEF StatsWithinRevenue, OutOf
<1>1. AccountingType /\ year \in Nat
  BY AccountingAssumption DEF AccountsInv
<1>2. PICK first, last : /\ first = year * MonthDays * YearMonths
                         /\ last = first + MonthDays * YearMonths - 1
  OBVIOUS
<1>3. DoneIn(first, last) \subseteq OutOf(year)
  BY <1>1, <1>2, DoneInYear
<1>4. ASSUME NEW s \in Services, NEW figure \in ServiceFigures(s, first, last)
      PROVE figure <= Recorded({u \in DOMAIN used : used[u].service = s /\ used[u].booking \in OutOf(year)})
  <2> DEFINE T == {u \in DOMAIN used : used[u].service = s /\ used[u].booking \in OutOf(year)}
  <2>1. T \subseteq DOMAIN used /\ UsedIn(s, first, last) \subseteq T
    BY <1>3 DEF UsedIn
  <2>2. \A u \in UsedIn(s, first, last) : Group(u, first, last) \subseteq UsedIn(s, first, last)
    BY DEF Group, UsedIn
  <2> HIDE DEF T
  <2>3. CASE UsedIn(s, first, last) = {}
    <3>1. figure = 0
      BY <2>3 DEF ServiceFigures
    <3>2. Recorded(T) \in Nat
      BY <1>1, <2>1, RecordedIsNat
    <3> QED BY <3>1, <3>2 DEF T
  <2>4. CASE UsedIn(s, first, last) # {}
    <3>1. PICK u \in UsedIn(s, first, last) : figure = Recorded(Group(u, first, last))
      BY <2>4 DEF ServiceFigures
    <3>2. Group(u, first, last) \subseteq T
      BY <2>1, <2>2, <3>1
    <3>3. Recorded(Group(u, first, last)) <= Recorded(T)
      BY <1>1, <2>1, <3>2, RecordedWithin
    <3> QED BY <3>1, <3>3 DEF T
  <2> QED BY <2>3, <2>4
<1>5. ASSUME NEW type \in TypeRooms, NEW figure \in RoomFigures(type, first, last)
      PROVE 100 * figure <= SumFunction([b \in {c \in OutOf(year) : booking[c].type = type}
                                           |-> StayAmount(booking[b])])
  <2>1. PICK T : T = {c \in OutOf(year) : booking[c].type = type}
    OBVIOUS
  <2>2. PICK f : f = [b \in T |-> StayAmount(booking[b])]
    OBVIOUS
  <2>3. T \subseteq Bookings /\ IsFiniteSet(T)
    <3>1. T \subseteq Bookings
      BY <2>1 DEF OutOf
    <3> QED BY <1>1, <3>1, FiniteTables, FS_Subset
  <2>4. \A b \in T : f[b] = StayAmount(booking[b]) /\ f[b] \in Nat
    BY <1>1, <2>2, <2>3, RowsOf, StayIsNat
  <2>5. SumFunctionOnSet(f, T) \in Nat
    BY <2>3, <2>4, SumNat
  <2>6. 100 * figure <= SumFunctionOnSet(f, T)
    <3> DEFINE booked == {b \in DoneIn(first, last) : booking[b].type = type /\ booking[b].rooms > 0}
    <3>1. CASE booked = {}
      <4>1. figure = 0
        BY <3>1 DEF RoomFigures
      <4> QED BY <2>5, <4>1
    <3>2. CASE booked # {}
      <4>1. PICK b \in booked : figure = RoomFigure(b)
        BY <3>2 DEF RoomFigures
      <4>2. b \in T /\ booking[b].rooms > 0
        BY <1>3, <2>1, <4>1
      <4>3. Fits(StayAmount(booking[b]))
        BY <2>3, <4>2 DEF AccountsInv, RoomsAreBilled
      <4>4. figure \in Int /\ 100 * figure <= f[b] /\ f[b] \in Nat
        BY <1>1, <2>3, <2>4, <4>1, <4>2, <4>3, FigureWithin
      <4>5. SumFunctionOnSet(f, T) = f[b] + SumFunctionOnSet(f, T \ {b})
        BY <2>3, <2>4, <4>2, SumWithout
      <4>6. SumFunctionOnSet(f, T \ {b}) \in Nat
        <5>1. IsFiniteSet(T \ {b}) /\ \A c \in T \ {b} : f[c] \in Nat
          BY <2>3, <2>4, FS_Subset
        <5> QED BY <5>1, SumNat
      <4> QED BY <4>4, <4>5, <4>6
    <3> QED BY <3>1, <3>2
  <2>7. SumFunction(f) = SumFunctionOnSet(f, T)
    BY <2>2, SumOverDomain
  <2> QED BY <2>1, <2>2, <2>6, <2>7
<1> QED BY <1>2, <1>4, <1>5

\* serviceStats and roomStats: no figure exceeds the revenue it is a part of.
THEOREM ReportsStayWithin == AccountingSpec => []StatsWithinRevenue
<1>1. AccountsInv => StatsWithinRevenue
  BY FiguresAreWithin
<1> QED BY <1>1, AccountsHold, PTL
=============================================================================
