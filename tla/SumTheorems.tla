----------------------------- MODULE SumTheorems -----------------------------
(***************************************************************************)
(* Sums of a function over a finite set (SumFunctionOnSet): the quantities *)
(* on hand, in reservation or in transit, the money allocated, credited or *)
(* posted are sums over rows, and the proofs about them need what one row  *)
(* added, changed or removed does to a sum.                                *)
(*                                                                         *)
(* The library's induction principles are about an arbitrary predicate;    *)
(* the one proved here is about an arbitrary set, which a first-order      *)
(* prover can instantiate.  It comes from the well-foundedness of < on the *)
(* natural numbers.                                                        *)
(***************************************************************************)
EXTENDS Functions, FiniteSets, FiniteSetTheorems, WellFoundedInduction, TLAPS

(* A set of natural numbers that is not empty has a least member.          *)
LEMMA LeastNumber ==
  ASSUME NEW T, T \subseteq Nat, T # {}
  PROVE  \E n \in T : \A m \in T : n <= m
<1> DEFINE R == {ss \in Nat \X Nat : ss[1] < ss[2]}
<1>1. IsWellFoundedOn(R, Nat)
  BY NatLessThanWellFounded DEF OpToRel
<1>2. \E n \in T : \A m \in T : <<m, n>> \notin R
  <2> HIDE DEF R
  <2> QED BY <1>1, WFMin
<1>3. PICK n \in T : \A m \in T : <<m, n>> \notin R
  BY <1>2
<1>4. ASSUME NEW m \in T PROVE n <= m
  <2>1. m \in Nat /\ n \in Nat
    OBVIOUS
  <2>2. <<m, n>> \in R <=> m < n
    BY <2>1
  <2> HIDE DEF R
  <2> QED BY <1>3, <2>1, <2>2
<1> QED BY <1>4

(* The element a fold over s takes first.                                  *)
Chosen(s) == CHOOSE x \in s : TRUE

(* A set that is not empty contains the element chosen from it.            *)
LEMMA ChosenIn == ASSUME NEW s, s # {} PROVE Chosen(s) \in s
BY DEF Chosen

(* g gives the sum of f over every subset of S, computed as the fold does. *)
ArePartialSums(g, f, S) ==
  g = [s \in SUBSET S |-> IF s = {} THEN 0 ELSE f[Chosen(s)] + g[s \ {Chosen(s)}]]

(* SumFunctionOnSet reads such a g, once there is one.                     *)
LEMMA SumIsPartialSum ==
  ASSUME NEW f, NEW S, NEW g0, ArePartialSums(g0, f, S)
  PROVE  \E g : ArePartialSums(g, f, S) /\ SumFunctionOnSet(f, S) = g[S]
<1> DEFINE iter[s \in SUBSET S] == IF s = {} THEN 0 ELSE LET x == Chosen(s) IN f[x] + iter[s \ {x}]
<1>1. SumFunctionOnSet(f, S) = iter[S]
  BY DEF SumFunctionOnSet, FoldFunctionOnSet, MapThenFoldSet, Chosen
<1>2. iter = CHOOSE g : ArePartialSums(g, f, S)
  BY DEF ArePartialSums
<1>3. ArePartialSums(iter, f, S)
  <2> HIDE DEF iter
  <2> QED BY <1>2
<1> HIDE DEF iter
<1> QED BY <1>1, <1>3

(* Induction over a finite set: when every subset belongs to G as soon as  *)
(* all its proper subsets do, the set itself belongs to G.                 *)
THEOREM SetInduction ==
  ASSUME NEW S, IsFiniteSet(S), NEW G,
         \A V \in SUBSET S : (\A W \in SUBSET V : W # V => W \in G) => V \in G
  PROVE  S \in G
<1> DEFINE Bad == {V \in SUBSET S : V \notin G}
           Sizes == {Cardinality(V) : V \in Bad}
<1> SUFFICES ASSUME S \notin G PROVE FALSE
  OBVIOUS
<1>1. \A V \in SUBSET S : IsFiniteSet(V) /\ Cardinality(V) \in Nat
  BY FS_Subset, FS_CardinalityType
<1>2. Sizes \subseteq Nat /\ Sizes # {}
  BY <1>1
<1>3. PICK n \in Sizes : \A m \in Sizes : n <= m
  <2> HIDE DEF Sizes
  <2> QED BY <1>2, LeastNumber
<1>4. PICK V \in Bad : Cardinality(V) = n
  OBVIOUS
<1>5. ASSUME NEW W \in SUBSET V, W # V PROVE W \in G
  <2>1. IsFiniteSet(V) /\ V \in SUBSET S
    BY <1>1
  <2>2. Cardinality(W) \in Nat /\ Cardinality(V) \in Nat
    BY <1>1
  <2>3. Cardinality(W) < Cardinality(V)
    <3>1. Cardinality(W) <= Cardinality(V) /\ (Cardinality(V) = Cardinality(W) => V = W)
      <4> HIDE DEF Bad, Sizes
      <4> QED BY <2>1, FS_Subset
    <3> QED BY <2>2, <3>1, <1>5
  <2>4. Cardinality(W) \notin Sizes
    <3> HIDE DEF Sizes
    <3> QED BY <2>2, <2>3, <1>3, <1>4
  <2> QED BY <2>4
<1> QED BY <1>5

(* Two tables of partial sums agree wherever both are defined.             *)
LEMMA SumsAgree ==
  ASSUME NEW f, NEW S, NEW T, NEW g, NEW h, ArePartialSums(g, f, S), ArePartialSums(h, f, T),
         NEW U, IsFiniteSet(U), U \subseteq S, U \subseteq T
  PROVE  g[U] = h[U]
<1> DEFINE G == {V \in SUBSET U : g[V] = h[V]}
<1>1. ASSUME NEW V \in SUBSET U, \A W \in SUBSET V : W # V => W \in G PROVE V \in G
  <2>1. V \in SUBSET S /\ V \in SUBSET T
    OBVIOUS
  <2>2. /\ g[V] = IF V = {} THEN 0 ELSE f[Chosen(V)] + g[V \ {Chosen(V)}]
        /\ h[V] = IF V = {} THEN 0 ELSE f[Chosen(V)] + h[V \ {Chosen(V)}]
    BY <2>1 DEF ArePartialSums
  <2>3. V # {} => V \ {Chosen(V)} \in SUBSET V /\ V \ {Chosen(V)} # V
    BY ChosenIn
  <2>4. V # {} => g[V \ {Chosen(V)}] = h[V \ {Chosen(V)}]
    BY <2>3, <1>1
  <2> QED BY <2>2, <2>4
<1>2. U \in G
  <2> HIDE DEF G
  <2> QED BY <1>1, SetInduction
<1> QED BY <1>2

(* Over a finite set there is a table of partial sums.                     *)
LEMMA SumsExist ==
  ASSUME NEW f, NEW S, IsFiniteSet(S)
  PROVE  \E g : ArePartialSums(g, f, S)
<1> DEFINE G == {V \in SUBSET S : \E g : ArePartialSums(g, f, V)}
<1>1. ASSUME NEW V \in SUBSET S, \A W \in SUBSET V : W # V => W \in G PROVE V \in G
  <2> DEFINE H(s) == CHOOSE h : ArePartialSums(h, f, s)
             Rest(s) == s \ {Chosen(s)}
             g == [s \in SUBSET V |-> IF s = {} THEN 0 ELSE f[Chosen(s)] + H(Rest(s))[Rest(s)]]
  <2>1. \A W \in SUBSET V : W # V => ArePartialSums(H(W), f, W)
    BY <1>1
  <2>2. \A s \in SUBSET V : s # {} => Rest(s) \in SUBSET V /\ Rest(s) # V /\ ArePartialSums(H(Rest(s)), f, Rest(s))
    <3> HIDE DEF H
    <3> QED BY <2>1, ChosenIn
  <2>3. ASSUME NEW s \in SUBSET V, s # {} PROVE H(Rest(s))[Rest(s)] = g[Rest(s)]
    <3> DEFINE t == Rest(s)
    <3>1. t \in SUBSET V /\ ArePartialSums(H(t), f, t)
      <4> HIDE DEF H
      <4> QED BY <2>2, <2>3
    <3>2. H(t)[t] = IF t = {} THEN 0 ELSE f[Chosen(t)] + H(t)[Rest(t)]
      <4> HIDE DEF H
      <4> QED BY <3>1 DEF ArePartialSums
    <3>3. g[t] = IF t = {} THEN 0 ELSE f[Chosen(t)] + H(Rest(t))[Rest(t)]
      <4> HIDE DEF H
      <4> QED BY <3>1
    <3>4. t # {} => H(t)[Rest(t)] = H(Rest(t))[Rest(t)]
      <4> SUFFICES ASSUME t # {} PROVE H(t)[Rest(t)] = H(Rest(t))[Rest(t)]
        OBVIOUS
      <4>1. ArePartialSums(H(Rest(t)), f, Rest(t)) /\ Rest(t) \subseteq t
        <5> HIDE DEF H
        <5> QED BY <2>2, <3>1
      <4>2. IsFiniteSet(Rest(t))
        <5>1. Rest(t) \in SUBSET S
          BY <3>1
        <5> HIDE DEF Rest
        <5> QED BY <5>1, FS_Subset
      <4> HIDE DEF H, Rest, t
      <4> QED BY <3>1, <4>1, <4>2, SumsAgree
    <3> HIDE DEF H, g
    <3> QED BY <3>2, <3>3, <3>4
  <2>4. ArePartialSums(g, f, V)
    <3> HIDE DEF H
    <3> QED BY <2>3 DEF ArePartialSums
  <2> QED BY <2>4
<1>2. S \in G
  <2> HIDE DEF G
  <2> QED BY <1>1, SetInduction
<1> QED BY <1>2

(* The equation of the sum: the element chosen first, and the sum of the   *)
(* rest.                                                                   *)
LEMMA SumUnfold ==
  ASSUME NEW f, NEW S, IsFiniteSet(S)
  PROVE  SumFunctionOnSet(f, S) = IF S = {} THEN 0 ELSE f[Chosen(S)] + SumFunctionOnSet(f, S \ {Chosen(S)})
<1>1. PICK g : ArePartialSums(g, f, S) /\ SumFunctionOnSet(f, S) = g[S]
  BY SumsExist, SumIsPartialSum
<1>2. g[S] = IF S = {} THEN 0 ELSE f[Chosen(S)] + g[S \ {Chosen(S)}]
  BY <1>1 DEF ArePartialSums
<1>3. ASSUME S # {} PROVE g[S \ {Chosen(S)}] = SumFunctionOnSet(f, S \ {Chosen(S)})
  <2> DEFINE T == S \ {Chosen(S)}
  <2>1. IsFiniteSet(T) /\ T \subseteq S
    BY FS_RemoveElement
  <2> HIDE DEF T
  <2>2. PICK h : ArePartialSums(h, f, T) /\ SumFunctionOnSet(f, T) = h[T]
    BY <2>1, SumsExist, SumIsPartialSum
  <2>3. g[T] = h[T]
    BY <1>1, <2>1, <2>2, SumsAgree
  <2> QED BY <2>2, <2>3 DEF T
<1> QED BY <1>1, <1>2, <1>3

-----------------------------------------------------------------------------
(* Nothing adds up to 0.                                                   *)
LEMMA SumEmpty == \A f : SumFunctionOnSet(f, {}) = 0
BY SumUnfold, FS_EmptySet

(* A sum of integers is an integer.                                        *)
LEMMA SumInt ==
  ASSUME NEW S, IsFiniteSet(S), NEW f, \A x \in S : f[x] \in Int
  PROVE  SumFunctionOnSet(f, S) \in Int
<1> DEFINE G == {V \in SUBSET S : SumFunctionOnSet(f, V) \in Int}
<1>1. ASSUME NEW V \in SUBSET S, \A W \in SUBSET V : W # V => W \in G PROVE V \in G
  <2>1. SumFunctionOnSet(f, V) = IF V = {} THEN 0 ELSE f[Chosen(V)] + SumFunctionOnSet(f, V \ {Chosen(V)})
    BY FS_Subset, SumUnfold
  <2>2. V # {} => f[Chosen(V)] \in Int /\ SumFunctionOnSet(f, V \ {Chosen(V)}) \in Int
    BY ChosenIn, <1>1
  <2> QED BY <2>1, <2>2
<1> HIDE DEF G
<1>2. S \in G
  BY <1>1, SetInduction
<1> QED BY <1>2 DEF G

(* The sum depends on the values of the function on the set only.          *)
LEMMA SumSame ==
  ASSUME NEW S, IsFiniteSet(S), NEW f, NEW g, \A x \in S : f[x] = g[x]
  PROVE  SumFunctionOnSet(f, S) = SumFunctionOnSet(g, S)
<1> DEFINE G == {V \in SUBSET S : SumFunctionOnSet(f, V) = SumFunctionOnSet(g, V)}
<1>1. ASSUME NEW V \in SUBSET S, \A W \in SUBSET V : W # V => W \in G PROVE V \in G
  <2>1. /\ SumFunctionOnSet(f, V) = IF V = {} THEN 0 ELSE f[Chosen(V)] + SumFunctionOnSet(f, V \ {Chosen(V)})
        /\ SumFunctionOnSet(g, V) = IF V = {} THEN 0 ELSE g[Chosen(V)] + SumFunctionOnSet(g, V \ {Chosen(V)})
    BY FS_Subset, SumUnfold
  <2>2. V # {} => f[Chosen(V)] = g[Chosen(V)] /\ SumFunctionOnSet(f, V \ {Chosen(V)}) = SumFunctionOnSet(g, V \ {Chosen(V)})
    BY ChosenIn, <1>1
  <2> QED BY <2>1, <2>2
<1> HIDE DEF G
<1>2. S \in G
  BY <1>1, SetInduction
<1> QED BY <1>2 DEF G

(* Any element can be taken out first.                                     *)
LEMMA SumRemove ==
  ASSUME NEW S, IsFiniteSet(S), NEW f, \A x \in S : f[x] \in Int, NEW x \in S
  PROVE  SumFunctionOnSet(f, S) = f[x] + SumFunctionOnSet(f, S \ {x})
<1> DEFINE G == {V \in SUBSET S : \A y \in V : SumFunctionOnSet(f, V) = f[y] + SumFunctionOnSet(f, V \ {y})}
<1>1. ASSUME NEW V \in SUBSET S, \A W \in SUBSET V : W # V => W \in G PROVE V \in G
  <2> SUFFICES ASSUME NEW y \in V PROVE SumFunctionOnSet(f, V) = f[y] + SumFunctionOnSet(f, V \ {y})
    OBVIOUS
  <2>1. IsFiniteSet(V) /\ IsFiniteSet(V \ {y})
    BY FS_Subset, FS_RemoveElement
  <2> DEFINE p == Chosen(V)
  <2>2. SumFunctionOnSet(f, V) = f[p] + SumFunctionOnSet(f, V \ {p})
    BY <2>1, SumUnfold
  <2>3. p \in V
    BY ChosenIn
  <2> HIDE DEF p
  <2>4. CASE y = p
    BY <2>2, <2>4
  <2>5. CASE y # p
    <3>1. SumFunctionOnSet(f, V \ {p}) = f[y] + SumFunctionOnSet(f, (V \ {p}) \ {y})
      BY <1>1, <2>3, <2>5
    <3>2. SumFunctionOnSet(f, V \ {y}) = f[p] + SumFunctionOnSet(f, (V \ {y}) \ {p})
      BY <1>1, <2>3, <2>5
    <3>3. SumFunctionOnSet(f, (V \ {y}) \ {p}) = SumFunctionOnSet(f, (V \ {p}) \ {y})
      <4>1. (V \ {y}) \ {p} = (V \ {p}) \ {y}
        OBVIOUS
      <4> QED BY <4>1
    <3>4. f[y] \in Int /\ f[p] \in Int
      BY <2>3
    <3>5. SumFunctionOnSet(f, (V \ {p}) \ {y}) \in Int
      <4>1. IsFiniteSet((V \ {p}) \ {y})
        BY <2>1, FS_RemoveElement
      <4> QED BY <4>1, SumInt
    <3> HIDE DEF G
    <3> QED BY <2>2, <3>1, <3>2, <3>3, <3>4, <3>5
  <2> QED BY <2>4, <2>5
<1> HIDE DEF G
<1>2. S \in G
  BY <1>1, SetInduction
<1> QED BY <1>2 DEF G

(* A new element adds its value.                                           *)
LEMMA SumAdd ==
  ASSUME NEW S, IsFiniteSet(S), NEW x, x \notin S, NEW f, \A y \in S \cup {x} : f[y] \in Int
  PROVE  SumFunctionOnSet(f, S \cup {x}) = f[x] + SumFunctionOnSet(f, S)
<1>1. IsFiniteSet(S \cup {x}) /\ (S \cup {x}) \ {x} = S
  BY FS_AddElement
<1> DEFINE T == S \cup {x}
<1>2. x \in T /\ IsFiniteSet(T) /\ T \ {x} = S /\ \A y \in T : f[y] \in Int
  BY <1>1
<1> HIDE DEF T
<1>3. SumFunctionOnSet(f, T) = f[x] + SumFunctionOnSet(f, T \ {x})
  BY <1>2, SumRemove
<1> QED BY <1>2, <1>3 DEF T

(* One value changed moves the sum by the difference.                      *)
LEMMA SumChange ==
  ASSUME NEW S, IsFiniteSet(S), NEW x \in S, NEW f, NEW g,
         \A y \in S : f[y] \in Int, g[x] \in Int,
         \A y \in S \ {x} : g[y] = f[y]
  PROVE  SumFunctionOnSet(g, S) = SumFunctionOnSet(f, S) - f[x] + g[x]
<1>0. \A y \in S : g[y] \in Int
  OBVIOUS
<1>1. SumFunctionOnSet(f, S) = f[x] + SumFunctionOnSet(f, S \ {x})
  BY SumRemove
<1>2. SumFunctionOnSet(g, S) = g[x] + SumFunctionOnSet(g, S \ {x})
  BY <1>0, SumRemove
<1>3. IsFiniteSet(S \ {x})
  BY FS_RemoveElement
<1>4. SumFunctionOnSet(f, S \ {x}) = SumFunctionOnSet(g, S \ {x})
  BY <1>3, SumSame
<1>5. SumFunctionOnSet(f, S \ {x}) \in Int
  BY <1>3, SumInt
<1> QED BY <1>1, <1>2, <1>4, <1>5

(* A sum of natural numbers is a natural number.                           *)
LEMMA SumNat ==
  ASSUME NEW S, IsFiniteSet(S), NEW f, \A x \in S : f[x] \in Nat
  PROVE  SumFunctionOnSet(f, S) \in Nat
<1> DEFINE G == {V \in SUBSET S : SumFunctionOnSet(f, V) \in Nat}
<1>1. ASSUME NEW V \in SUBSET S, \A W \in SUBSET V : W # V => W \in G PROVE V \in G
  <2>1. SumFunctionOnSet(f, V) =
          IF V = {} THEN 0 ELSE f[Chosen(V)] + SumFunctionOnSet(f, V \ {Chosen(V)})
    BY FS_Subset, SumUnfold
  <2>2. V # {} => f[Chosen(V)] \in Nat /\ SumFunctionOnSet(f, V \ {Chosen(V)}) \in Nat
    BY ChosenIn, <1>1
  <2> QED BY <2>1, <2>2
<1> HIDE DEF G
<1>2. S \in G
  BY <1>1, SetInduction
<1> QED BY <1>2 DEF G

(* Larger values have a larger sum.                                        *)
LEMMA SumAtMost ==
  ASSUME NEW S, IsFiniteSet(S), NEW f, NEW g,
         \A x \in S : f[x] \in Int /\ g[x] \in Int /\ f[x] <= g[x]
  PROVE  SumFunctionOnSet(f, S) <= SumFunctionOnSet(g, S)
<1> DEFINE G == {V \in SUBSET S : SumFunctionOnSet(f, V) <= SumFunctionOnSet(g, V)}
<1>1. ASSUME NEW V \in SUBSET S, \A W \in SUBSET V : W # V => W \in G PROVE V \in G
  <2>1. /\ SumFunctionOnSet(f, V) =
             IF V = {} THEN 0 ELSE f[Chosen(V)] + SumFunctionOnSet(f, V \ {Chosen(V)})
        /\ SumFunctionOnSet(g, V) =
             IF V = {} THEN 0 ELSE g[Chosen(V)] + SumFunctionOnSet(g, V \ {Chosen(V)})
    BY FS_Subset, SumUnfold
  <2>2. V # {} => Chosen(V) \in S /\ V \ {Chosen(V)} \in G
    BY ChosenIn, <1>1
  <2>3. IsFiniteSet(V \ {Chosen(V)}) /\ V \ {Chosen(V)} \subseteq S
    BY FS_Subset, FS_RemoveElement
  <2>4. /\ SumFunctionOnSet(f, V \ {Chosen(V)}) \in Int
        /\ SumFunctionOnSet(g, V \ {Chosen(V)}) \in Int
    BY <2>3, SumInt
  <2> QED BY <2>1, <2>2, <2>4
<1> HIDE DEF G
<1>2. S \in G
  BY <1>1, SetInduction
<1> QED BY <1>2 DEF G

(* The sum over two disjoint sets is the sum of the two sums.              *)
LEMMA SumDisjoint ==
  ASSUME NEW S, IsFiniteSet(S), NEW T, IsFiniteSet(T), S \cap T = {},
         NEW f, \A x \in S \cup T : f[x] \in Int
  PROVE  SumFunctionOnSet(f, S \cup T) = SumFunctionOnSet(f, S) + SumFunctionOnSet(f, T)
<1> DEFINE G == {V \in SUBSET T :
                   SumFunctionOnSet(f, S \cup V) = SumFunctionOnSet(f, S) + SumFunctionOnSet(f, V)}
<1>0. SumFunctionOnSet(f, S) \in Int
  BY SumInt
<1>1. ASSUME NEW V \in SUBSET T, \A W \in SUBSET V : W # V => W \in G PROVE V \in G
  <2>1. CASE V = {}
    <3>1. S \cup V = S
      BY <2>1
    <3> QED BY <1>0, <2>1, <3>1, SumEmpty
  <2>2. CASE V # {}
    <3> DEFINE x == Chosen(V)
               W == V \ {x}
    <3>1. x \in V /\ x \notin S
      BY <2>2, ChosenIn
    <3>2. /\ IsFiniteSet(W) /\ W \in SUBSET T /\ x \notin W /\ V = W \cup {x}
          /\ IsFiniteSet(S \cup W) /\ x \notin S \cup W /\ S \cup V = (S \cup W) \cup {x}
      <4>1. IsFiniteSet(W)
        BY FS_Subset
      <4> QED BY <3>1, <4>1, FS_Union
    <3>3. W \in G
      BY <3>1, <1>1
    <3>4. SumFunctionOnSet(f, W) \in Int
      BY <3>2, SumInt
    <3>5. f[x] \in Int /\ \A y \in (S \cup W) \cup {x} : f[y] \in Int
      BY <3>1
    <3> HIDE DEF x, W
    <3>6. SumFunctionOnSet(f, (S \cup W) \cup {x}) = f[x] + SumFunctionOnSet(f, S \cup W)
      BY <3>2, <3>5, SumAdd
    <3>7. SumFunctionOnSet(f, W \cup {x}) = f[x] + SumFunctionOnSet(f, W)
      BY <3>2, <3>5, SumAdd
    <3>8. SumFunctionOnSet(f, S \cup V) = SumFunctionOnSet(f, S) + SumFunctionOnSet(f, V)
      <4>1. SumFunctionOnSet(f, S \cup W) = SumFunctionOnSet(f, S) + SumFunctionOnSet(f, W)
        BY <3>3
      <4>2. /\ SumFunctionOnSet(f, V) = SumFunctionOnSet(f, W \cup {x})
            /\ SumFunctionOnSet(f, S \cup V) = SumFunctionOnSet(f, (S \cup W) \cup {x})
        BY <3>2
      <4>3. f[x] \in Int
        BY <3>5
      <4> HIDE DEF G
      <4> QED BY <1>0, <3>4, <3>6, <3>7, <4>1, <4>2, <4>3
    <3> QED BY <3>8
  <2> QED BY <2>1, <2>2
<1> HIDE DEF G
<1>2. T \in G
  BY <1>1, SetInduction
<1> QED BY <1>2 DEF G

(* Of values that are not negative, a part adds up to no more than the     *)
(* whole.                                                                  *)
LEMMA SumSubset ==
  ASSUME NEW S, IsFiniteSet(S), NEW T \in SUBSET S, NEW f, \A x \in S : f[x] \in Nat
  PROVE  SumFunctionOnSet(f, T) <= SumFunctionOnSet(f, S)
<1> DEFINE R == S \ T
<1>1. IsFiniteSet(T) /\ IsFiniteSet(R) /\ T \cap R = {} /\ S = T \cup R /\ R \in SUBSET S
  BY FS_Subset
<1> HIDE DEF R
<1>2. SumFunctionOnSet(f, T) \in Nat /\ SumFunctionOnSet(f, R) \in Nat
  BY <1>1, SumNat
<1>3. SumFunctionOnSet(f, S) = SumFunctionOnSet(f, T) + SumFunctionOnSet(f, R)
  BY <1>1, SumDisjoint
<1> QED BY <1>2, <1>3

(* One of several values that are not negative is at most their sum.       *)
LEMMA SumAtLeast ==
  ASSUME NEW S, IsFiniteSet(S), NEW f, \A y \in S : f[y] \in Nat, NEW x \in S
  PROVE  f[x] <= SumFunctionOnSet(f, S)
<1>1. SumFunctionOnSet(f, S) = f[x] + SumFunctionOnSet(f, S \ {x})
  BY SumRemove
<1>2. SumFunctionOnSet(f, S \ {x}) \in Nat
  BY FS_RemoveElement, SumNat
<1> QED BY <1>1, <1>2

(* Zeros add up to 0.                                                      *)
LEMMA SumZero ==
  ASSUME NEW S, IsFiniteSet(S), NEW f, \A x \in S : f[x] = 0
  PROVE  SumFunctionOnSet(f, S) = 0
<1> DEFINE G == {V \in SUBSET S : SumFunctionOnSet(f, V) = 0}
<1>1. ASSUME NEW V \in SUBSET S, \A W \in SUBSET V : W # V => W \in G PROVE V \in G
  <2>1. SumFunctionOnSet(f, V) =
          IF V = {} THEN 0 ELSE f[Chosen(V)] + SumFunctionOnSet(f, V \ {Chosen(V)})
    BY FS_Subset, SumUnfold
  <2>2. V # {} => f[Chosen(V)] = 0 /\ SumFunctionOnSet(f, V \ {Chosen(V)}) = 0
    BY ChosenIn, <1>1
  <2> QED BY <2>1, <2>2
<1> HIDE DEF G
<1>2. S \in G
  BY <1>1, SetInduction
<1> QED BY <1>2 DEF G

(* Elements whose value is 0 can be left out.                              *)
LEMMA SumSupport ==
  ASSUME NEW S, IsFiniteSet(S), NEW T \in SUBSET S, NEW f,
         \A x \in T : f[x] \in Int, \A x \in S \ T : f[x] = 0
  PROVE  SumFunctionOnSet(f, S) = SumFunctionOnSet(f, T)
<1> DEFINE R == S \ T
<1>1. IsFiniteSet(T) /\ IsFiniteSet(R) /\ T \cap R = {} /\ S = T \cup R
  BY FS_Subset
<1>2. SumFunctionOnSet(f, R) = 0
  BY <1>1, SumZero
<1>3. \A x \in T \cup R : f[x] \in Int
  OBVIOUS
<1> HIDE DEF R
<1>4. SumFunctionOnSet(f, T) \in Int
  BY <1>1, SumInt
<1>5. SumFunctionOnSet(f, S) = SumFunctionOnSet(f, T) + SumFunctionOnSet(f, R)
  BY <1>1, <1>3, SumDisjoint
<1> QED BY <1>2, <1>4, <1>5

(* The sum of a sum of two functions.                                      *)
LEMMA SumPlus ==
  ASSUME NEW S, IsFiniteSet(S), NEW f, NEW g, NEW h,
         \A x \in S : f[x] \in Int /\ g[x] \in Int /\ h[x] = f[x] + g[x]
  PROVE  SumFunctionOnSet(h, S) = SumFunctionOnSet(f, S) + SumFunctionOnSet(g, S)
<1> DEFINE G == {V \in SUBSET S :
                   SumFunctionOnSet(h, V) = SumFunctionOnSet(f, V) + SumFunctionOnSet(g, V)}
<1>1. ASSUME NEW V \in SUBSET S, \A W \in SUBSET V : W # V => W \in G PROVE V \in G
  <2> DEFINE x == Chosen(V)
             W == V \ {x}
  <2>1. /\ SumFunctionOnSet(f, V) = IF V = {} THEN 0 ELSE f[x] + SumFunctionOnSet(f, W)
        /\ SumFunctionOnSet(g, V) = IF V = {} THEN 0 ELSE g[x] + SumFunctionOnSet(g, W)
        /\ SumFunctionOnSet(h, V) = IF V = {} THEN 0 ELSE h[x] + SumFunctionOnSet(h, W)
    BY FS_Subset, SumUnfold
  <2>2. V # {} => x \in S /\ W \in G
    BY ChosenIn, <1>1
  <2>3. IsFiniteSet(W) /\ W \subseteq S
    BY FS_Subset
  <2> HIDE DEF x, W
  <2>4. SumFunctionOnSet(f, W) \in Int /\ SumFunctionOnSet(g, W) \in Int
    BY <2>3, SumInt
  <2>5. V # {} => /\ SumFunctionOnSet(h, W) = SumFunctionOnSet(f, W) + SumFunctionOnSet(g, W)
                  /\ f[x] \in Int /\ g[x] \in Int /\ h[x] = f[x] + g[x]
    BY <2>2
  <2>6. SumFunctionOnSet(h, V) = SumFunctionOnSet(f, V) + SumFunctionOnSet(g, V)
    <3> HIDE DEF G
    <3> QED BY <2>1, <2>4, <2>5
  <2> QED BY <2>6
<1> HIDE DEF G
<1>2. S \in G
  BY <1>1, SetInduction
<1> QED BY <1>2 DEF G

(* The sum of a difference of two functions.                               *)
LEMMA SumMinus ==
  ASSUME NEW S, IsFiniteSet(S), NEW f, NEW g, NEW h,
         \A x \in S : f[x] \in Int /\ g[x] \in Int /\ h[x] = f[x] - g[x]
  PROVE  SumFunctionOnSet(h, S) = SumFunctionOnSet(f, S) - SumFunctionOnSet(g, S)
<1>1. \A x \in S : h[x] \in Int /\ f[x] = h[x] + g[x]
  OBVIOUS
<1>2. SumFunctionOnSet(f, S) = SumFunctionOnSet(h, S) + SumFunctionOnSet(g, S)
  BY <1>1, SumPlus
<1>3. SumFunctionOnSet(h, S) \in Int /\ SumFunctionOnSet(g, S) \in Int
  BY <1>1, SumInt
<1> QED BY <1>2, <1>3

(* Ones add up to the number of elements.                                  *)
LEMMA SumOfOnes ==
  ASSUME NEW S, IsFiniteSet(S), NEW f, \A x \in S : f[x] = 1
  PROVE  SumFunctionOnSet(f, S) = Cardinality(S)
<1> DEFINE G == {V \in SUBSET S : SumFunctionOnSet(f, V) = Cardinality(V)}
<1>1. ASSUME NEW V \in SUBSET S, \A W \in SUBSET V : W # V => W \in G PROVE V \in G
  <2>0. IsFiniteSet(V)
    BY FS_Subset
  <2>1. SumFunctionOnSet(f, V) =
          IF V = {} THEN 0 ELSE f[Chosen(V)] + SumFunctionOnSet(f, V \ {Chosen(V)})
    BY <2>0, SumUnfold
  <2>2. V # {} => /\ f[Chosen(V)] = 1
                  /\ SumFunctionOnSet(f, V \ {Chosen(V)}) = Cardinality(V \ {Chosen(V)})
    BY ChosenIn, <1>1
  <2>3. V # {} => Cardinality(V \ {Chosen(V)}) = Cardinality(V) - 1 /\ Cardinality(V) \in Nat
    BY <2>0, ChosenIn, FS_RemoveElement, FS_CardinalityType
  <2>4. V = {} => Cardinality(V) = 0
    BY FS_EmptySet
  <2> QED BY <2>1, <2>2, <2>3, <2>4
<1> HIDE DEF G
<1>2. S \in G
  BY <1>1, SetInduction
<1> QED BY <1>2 DEF G

(* Summing the elements of each class and then the classes is summing the  *)
(* elements: C gives the elements of a class, and each is in one.          *)
LEMMA SumPartition ==
  ASSUME NEW K, IsFiniteSet(K), NEW S, IsFiniteSet(S),
         NEW f, \A x \in S : f[x] \in Int,
         NEW C, \A c \in K : C[c] \in SUBSET S,
         \A x \in S : \E c \in K : x \in C[c] /\ \A d \in K : x \in C[d] => d = c,
         NEW F, \A c \in K : F[c] = SumFunctionOnSet(f, C[c])
  PROVE  SumFunctionOnSet(F, K) = SumFunctionOnSet(f, S)
<1>a. PICK k : k = [x \in S |-> CHOOSE c \in K : x \in C[c]]
  OBVIOUS
<1>b. \A x \in S : k[x] \in K /\ \A c \in K : x \in C[c] <=> k[x] = c
  BY <1>a
<1>c. \A c \in K : F[c] = SumFunctionOnSet(f, {x \in S : k[x] = c})
  <2> SUFFICES ASSUME NEW c \in K PROVE F[c] = SumFunctionOnSet(f, {x \in S : k[x] = c})
    OBVIOUS
  <2>1. C[c] = {x \in S : k[x] = c}
    BY <1>b
  <2> QED BY <2>1
<1> DEFINE Part(V) == [c \in K |-> SumFunctionOnSet(f, {x \in V : k[x] = c})]
           G == {V \in SUBSET S : SumFunctionOnSet(Part(V), K) = SumFunctionOnSet(f, V)}
<1>0. \A V \in SUBSET S : IsFiniteSet(V) /\ \A c \in K : IsFiniteSet({x \in V : k[x] = c})
  <2> SUFFICES ASSUME NEW V \in SUBSET S, NEW c \in K
               PROVE  IsFiniteSet(V) /\ IsFiniteSet({x \in V : k[x] = c})
    BY FS_Subset
  <2>1. {x \in V : k[x] = c} \in SUBSET V
    OBVIOUS
  <2>2. IsFiniteSet(V)
    BY FS_Subset
  <2> HIDE DEF Part, G
  <2> QED BY <2>1, <2>2, FS_Subset
<1>1. ASSUME NEW V \in SUBSET S, \A W \in SUBSET V : W # V => W \in G PROVE V \in G
  <2>1. CASE V = {}
    <3>1. \A c \in K : {x \in V : k[x] = c} = {}
      BY <2>1
    <3>2. \A c \in K : Part(V)[c] = 0
      BY <3>1, SumEmpty
    <3>3. SumFunctionOnSet(Part(V), K) = 0
      <4> HIDE DEF Part
      <4> QED BY <3>2, SumZero
    <3> QED BY <2>1, <3>3, SumEmpty
  <2>2. CASE V # {}
    <3> DEFINE y == Chosen(V)
               W == V \ {y}
    <3>1. y \in V /\ W \in SUBSET S /\ IsFiniteSet(W) /\ W \in G /\ k[y] \in K /\ f[y] \in Int
      BY <2>2, <1>0, <1>1, <1>b, ChosenIn
    <3> HIDE DEF y
    <3>2. \A c \in K \ {k[y]} : Part(V)[c] = Part(W)[c]
      <4> SUFFICES ASSUME NEW c \in K \ {k[y]} PROVE Part(V)[c] = Part(W)[c]
        OBVIOUS
      <4>1. {x \in V : k[x] = c} = {x \in W : k[x] = c}
        OBVIOUS
      <4> QED BY <4>1
    <3>3. Part(V)[k[y]] = f[y] + Part(W)[k[y]]
      <4> DEFINE A == {x \in V : k[x] = k[y]}
                 B == {x \in W : k[x] = k[y]}
      <4>1. IsFiniteSet(A) /\ y \in A /\ A \ {y} = B /\ \A x \in A : f[x] \in Int
        BY <1>0, <3>1
      <4> HIDE DEF A, B
      <4>2. SumFunctionOnSet(f, A) = f[y] + SumFunctionOnSet(f, B)
        BY <4>1, SumRemove
      <4> QED BY <3>1, <4>2 DEF A, B
    <3>4. \A c \in K : Part(W)[c] \in Int
      <4> SUFFICES ASSUME NEW c \in K PROVE Part(W)[c] \in Int
        OBVIOUS
      <4> DEFINE B == {x \in W : k[x] = c}
      <4>1. IsFiniteSet(B) /\ \A x \in B : f[x] \in Int
        BY <1>0, <3>1
      <4> HIDE DEF B
      <4>2. SumFunctionOnSet(f, B) \in Int
        BY <4>1, SumInt
      <4> QED BY <4>2 DEF B
    <3>5. SumFunctionOnSet(Part(V), K) =
            SumFunctionOnSet(Part(W), K) - Part(W)[k[y]] + Part(V)[k[y]]
      <4> DEFINE fV == Part(V)
                 fW == Part(W)
      <4>1. fV[k[y]] \in Int /\ (\A c \in K : fW[c] \in Int) /\ \A c \in K \ {k[y]} : fV[c] = fW[c]
        <5>1. k[y] \in K /\ f[y] \in Int
          BY <3>1
        <5> HIDE DEF Part, G, W
        <5> QED BY <5>1, <3>2, <3>3, <3>4
      <4> HIDE DEF fV, fW
      <4>2. SumFunctionOnSet(fV, K) = SumFunctionOnSet(fW, K) - fW[k[y]] + fV[k[y]]
        BY <4>1, <3>1, SumChange
      <4> QED BY <4>2 DEF fV, fW
    <3>6. SumFunctionOnSet(Part(W), K) \in Int /\ Part(W)[k[y]] \in Int
      <4> HIDE DEF Part
      <4> QED BY <3>1, <3>4, SumInt
    <3>7. SumFunctionOnSet(f, V) = f[y] + SumFunctionOnSet(f, W)
      BY <1>0, <3>1, SumRemove
    <3>8. SumFunctionOnSet(Part(W), K) = SumFunctionOnSet(f, W)
      BY <3>1
    <3>9. SumFunctionOnSet(Part(V), K) = SumFunctionOnSet(f, V)
      <4> HIDE DEF Part, G, W
      <4> QED BY <3>1, <3>3, <3>5, <3>6, <3>7, <3>8
    <3> QED BY <3>9
  <2> QED BY <2>1, <2>2
<1>2. S \in G
  <2> HIDE DEF G
  <2> QED BY <1>1, SetInduction
<1>3. SumFunctionOnSet(F, K) = SumFunctionOnSet(Part(S), K)
  <2>1. \A c \in K : F[c] = Part(S)[c]
    BY <1>c
  <2> HIDE DEF Part
  <2> QED BY <2>1, SumSame
<1> QED BY <1>2, <1>3

(* The sum over the image of an injective function is the sum over its     *)
(* domain.                                                                 *)
LEMMA SumReindex ==
  ASSUME NEW S, IsFiniteSet(S), NEW h, \A x, y \in S : h[x] = h[y] => x = y,
         NEW f, NEW g, \A x \in S : f[h[x]] \in Int /\ g[x] = f[h[x]]
  PROVE  SumFunctionOnSet(f, {h[x] : x \in S}) = SumFunctionOnSet(g, S)
<1> DEFINE Im(V) == {h[x] : x \in V}
           G == {V \in SUBSET S : IsFiniteSet(Im(V)) /\ SumFunctionOnSet(f, Im(V)) = SumFunctionOnSet(g, V)}
<1>1. ASSUME NEW V \in SUBSET S, \A W \in SUBSET V : W # V => W \in G PROVE V \in G
  <2>1. CASE V = {}
    <3>1. Im(V) = {}
      BY <2>1
    <3> QED BY <2>1, <3>1, SumEmpty, FS_EmptySet
  <2>2. CASE V # {}
    <3> DEFINE y == Chosen(V)
               W == V \ {y}
    <3>0. IsFiniteSet(V)
      BY FS_Subset
    <3>1. y \in V /\ IsFiniteSet(W) /\ W \in G
      BY <2>2, <1>1, ChosenIn, FS_Subset
    <3> HIDE DEF y
    <3>2. h[y] \notin Im(W) /\ Im(V) = Im(W) \cup {h[y]}
      BY <3>1
    <3>3. IsFiniteSet(Im(W)) /\ \A z \in Im(W) \cup {h[y]} : f[z] \in Int
      BY <3>1
    <3>4. g[y] = f[h[y]] /\ \A x \in V : g[x] \in Int
      BY <3>1
    <3>5. SumFunctionOnSet(f, Im(W)) = SumFunctionOnSet(g, W)
      BY <3>1
    <3>6. SumFunctionOnSet(g, V) = g[y] + SumFunctionOnSet(g, W)
      BY <3>0, <3>1, <3>4, SumRemove
    <3> HIDE DEF Im
    <3>7. SumFunctionOnSet(f, Im(W) \cup {h[y]}) = f[h[y]] + SumFunctionOnSet(f, Im(W))
      BY <3>2, <3>3, SumAdd
    <3>8. IsFiniteSet(Im(V))
      <4>1. IsFiniteSet(Im(W) \cup {h[y]})
        <5> HIDE DEF W, G
        <5> QED BY <3>3, FS_AddElement
      <4> QED BY <3>2, <4>1
    <3> QED BY <3>2, <3>4, <3>5, <3>6, <3>7, <3>8
  <2> QED BY <2>1, <2>2
<1>2. S \in G
  <2> HIDE DEF G
  <2> QED BY <1>1, SetInduction
<1> QED BY <1>2

(* Some elements out, some new ones in, and the values of the others kept. *)
LEMMA SumMove ==
  ASSUME NEW P, IsFiniteSet(P), NEW R \in SUBSET P, NEW N, IsFiniteSet(N), N \cap P = {},
         NEW f, \A x \in P \cup N : f[x] \in Int
  PROVE  SumFunctionOnSet(f, (P \ R) \cup N) =
           SumFunctionOnSet(f, P) - SumFunctionOnSet(f, R) + SumFunctionOnSet(f, N)
<1> DEFINE Q == P \ R
<1>1. /\ IsFiniteSet(Q) /\ IsFiniteSet(R) /\ Q \cap R = {} /\ Q \cup R = P /\ Q \cap N = {}
      /\ \A x \in Q \cup R : f[x] \in Int
      /\ \A x \in Q \cup N : f[x] \in Int
  BY FS_Subset
<1> HIDE DEF Q
<1>2. SumFunctionOnSet(f, Q \cup R) = SumFunctionOnSet(f, Q) + SumFunctionOnSet(f, R)
  BY <1>1, SumDisjoint
<1>3. SumFunctionOnSet(f, Q \cup N) = SumFunctionOnSet(f, Q) + SumFunctionOnSet(f, N)
  BY <1>1, SumDisjoint
<1>4. SumFunctionOnSet(f, Q) \in Int /\ SumFunctionOnSet(f, R) \in Int /\ SumFunctionOnSet(f, N) \in Int
  BY <1>1, SumInt
<1>5. SumFunctionOnSet(f, Q \cup R) = SumFunctionOnSet(f, P)
  BY <1>1
<1> QED BY <1>2, <1>3, <1>4, <1>5 DEF Q

(* The sum over one element is its value.                                  *)
LEMMA SumOne ==
  ASSUME NEW f, NEW x, f[x] \in Int
  PROVE  SumFunctionOnSet(f, {x}) = f[x]
<1>1. SumFunctionOnSet(f, {} \cup {x}) = f[x] + SumFunctionOnSet(f, {})
  BY SumAdd, FS_EmptySet
<1>2. {} \cup {x} = {x}
  OBVIOUS
<1> QED BY <1>1, <1>2, SumEmpty

(* R orders the elements of S one after the other.                         *)
OrdersStrictly(R, S) ==
  /\ \A a \in S : <<a, a>> \notin R
  /\ \A a, b \in S : a # b => <<a, b>> \in R \/ <<b, a>> \in R
  /\ \A a, b, c \in S : <<a, b>> \in R /\ <<b, c>> \in R => <<a, c>> \in R

(* A finite set in strict order has a last element.                        *)
LEMMA LastElement ==
  ASSUME NEW S, IsFiniteSet(S), S # {}, NEW R, OrdersStrictly(R, S)
  PROVE  \E x \in S : \A y \in S \ {x} : <<y, x>> \in R
<1> DEFINE G == {V \in SUBSET S : V = {} \/ \E x \in V : \A y \in V \ {x} : <<y, x>> \in R}
<1>1. ASSUME NEW V \in SUBSET S, \A W \in SUBSET V : W # V => W \in G PROVE V \in G
  <2>1. CASE V = {}
    BY <2>1
  <2>2. CASE V # {}
    <3>1. PICK z \in V : TRUE
      BY <2>2
    <3>2. V \ {z} \in G
      BY <1>1, <3>1
    <3>3. CASE V \ {z} = {}
      <4>1. \A y \in V \ {z} : <<y, z>> \in R
        BY <3>3
      <4> QED BY <3>1, <4>1
    <3>4. CASE V \ {z} # {}
      <4>1. PICK x \in V \ {z} : \A y \in (V \ {z}) \ {x} : <<y, x>> \in R
        BY <3>2, <3>4
      <4>2. <<x, z>> \in R \/ <<z, x>> \in R
        BY <3>1, <4>1 DEF OrdersStrictly
      <4>3. CASE <<z, x>> \in R
        <5>1. \A y \in V \ {x} : <<y, x>> \in R
          BY <4>1, <4>3
        <5> QED BY <4>1, <5>1
      <4>4. CASE <<x, z>> \in R
        <5>1. \A y \in V \ {z} : <<y, z>> \in R
          <6> SUFFICES ASSUME NEW y \in V \ {z} PROVE <<y, z>> \in R
            OBVIOUS
          <6>1. y = x \/ <<y, x>> \in R
            BY <4>1
          <6> QED BY <3>1, <4>1, <4>4, <6>1 DEF OrdersStrictly
        <5> QED BY <3>1, <5>1
      <4> QED BY <4>2, <4>3, <4>4
    <3> QED BY <3>3, <3>4
  <2> QED BY <2>1, <2>2
<1>2. S \in G
  <2> HIDE DEF G
  <2> QED BY <1>1, SetInduction
<1> QED BY <1>2

(* An amount shared among the elements of a set in their order, each       *)
(* taking what it is owed until nothing is left, is given out in full      *)
(* unless it is more than all are owed together.                           *)
LEMMA SumInOrder ==
  ASSUME NEW D, IsFiniteSet(D), NEW R, OrdersStrictly(R, D),
         NEW owed, \A b \in D : owed[b] \in Nat, NEW amount \in Nat, NEW part,
         \A b \in D : LET left == amount - SumFunctionOnSet(owed, {c \in D : <<c, b>> \in R})
                      IN  part[b] = IF left < 0 THEN 0 ELSE IF left <= owed[b] THEN left ELSE owed[b]
  PROVE  SumFunctionOnSet(part, D) =
           IF amount <= SumFunctionOnSet(owed, D) THEN amount ELSE SumFunctionOnSet(owed, D)
<1> DEFINE Closed(V) == \A b \in V, c \in D : <<c, b>> \in R => c \in V
           Filled(V) == SumFunctionOnSet(part, V) =
                          IF amount <= SumFunctionOnSet(owed, V) THEN amount ELSE SumFunctionOnSet(owed, V)
           G == {V \in SUBSET D : Closed(V) => Filled(V)}
<1>1. ASSUME NEW V \in SUBSET D, \A W \in SUBSET V : W # V => W \in G PROVE V \in G
  <2> SUFFICES ASSUME Closed(V) PROVE Filled(V)
    OBVIOUS
  <2>0. IsFiniteSet(V)
    BY FS_Subset
  <2>1. CASE V = {}
    BY <2>1, SumEmpty
  <2>2. CASE V # {}
    <3>1. OrdersStrictly(R, V)
      BY DEF OrdersStrictly
    <3>2. PICK x \in V : \A y \in V \ {x} : <<y, x>> \in R
      BY <2>0, <2>2, <3>1, LastElement
    <3> DEFINE W == V \ {x}
    <3>3. Closed(W)
      <4> SUFFICES ASSUME NEW b \in W, NEW c \in D, <<c, b>> \in R PROVE c \in W
        OBVIOUS
      <4>1. c \in V
        OBVIOUS
      <4>2. c # x
        <5>1. <<b, x>> \in R
          BY <3>2
        <5>2. b \in D /\ x \in D
          OBVIOUS
        <5> QED BY <5>1, <5>2 DEF OrdersStrictly
      <4> QED BY <4>1, <4>2
    <3>4. Filled(W)
      <4>1. W \in G
        BY <1>1
      <4> QED BY <3>3, <4>1
    <3>5. {c \in D : <<c, x>> \in R} = W
      <4>1. ASSUME NEW c \in D, <<c, x>> \in R PROVE c \in W
        <5>1. c \in V
          BY <4>1
        <5>2. c # x
          BY <4>1 DEF OrdersStrictly
        <5> QED BY <5>1, <5>2
      <4> QED BY <3>2, <4>1
    <3>6. IsFiniteSet(W) /\ W \in SUBSET D /\ x \in D
      BY FS_Subset
    <3> DEFINE left == amount - SumFunctionOnSet(owed, W)
    <3>7. part[x] = IF left < 0 THEN 0 ELSE IF left <= owed[x] THEN left ELSE owed[x]
      BY <3>5
    <3>8. SumFunctionOnSet(owed, W) \in Nat /\ SumFunctionOnSet(owed, V) = owed[x] + SumFunctionOnSet(owed, W)
      <4>1. \A b \in V : owed[b] \in Int
        OBVIOUS
      <4>2. SumFunctionOnSet(owed, V) = owed[x] + SumFunctionOnSet(owed, V \ {x})
        BY <2>0, <4>1, SumRemove
      <4>3. \A b \in W : owed[b] \in Nat
        OBVIOUS
      <4> HIDE DEF W, left
      <4>4. SumFunctionOnSet(owed, W) \in Nat
        BY <3>6, <4>3, SumNat
      <4> QED BY <4>2, <4>4 DEF W
    <3>9. \A b \in V : part[b] \in Int
      <4> SUFFICES ASSUME NEW b \in V PROVE part[b] \in Int
        OBVIOUS
      <4> DEFINE B == {c \in D : <<c, b>> \in R}
      <4>1. B \in SUBSET D
        OBVIOUS
      <4>2. part[b] = IF amount - SumFunctionOnSet(owed, B) < 0 THEN 0
                      ELSE IF amount - SumFunctionOnSet(owed, B) <= owed[b]
                             THEN amount - SumFunctionOnSet(owed, B) ELSE owed[b]
        OBVIOUS
      <4> HIDE DEF B
      <4>3. IsFiniteSet(B) /\ \A c \in B : owed[c] \in Nat
        BY <4>1, FS_Subset
      <4>4. SumFunctionOnSet(owed, B) \in Nat
        BY <4>3, SumNat
      <4> QED BY <4>2, <4>4
    <3>10. SumFunctionOnSet(part, V) = part[x] + SumFunctionOnSet(part, W)
      BY <2>0, <3>9, SumRemove
    <3>11. owed[x] \in Nat
      OBVIOUS
    <3> HIDE DEF W
    <3> QED BY <3>4, <3>7, <3>8, <3>10, <3>11
  <2> QED BY <2>1, <2>2
<1>2. D \in G
  <2> HIDE DEF G
  <2> QED BY <1>1, SetInduction
<1> QED BY <1>2

(* What a function takes the elements of a finite set to is a finite set.  *)
LEMMA ImageIsFinite ==
  ASSUME NEW S, IsFiniteSet(S), NEW h
  PROVE  IsFiniteSet({h[x] : x \in S})
  <1> DEFINE T == {h[x] : x \in S}
             f == [x \in S |-> h[x]]
  <1>1. f \in Surjection(S, T)
    BY DEF Surjection
  <1> QED BY <1>1, FS_Surjection
=============================================================================
