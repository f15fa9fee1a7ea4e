------------------------------ MODULE SumLemmas ------------------------------
(***************************************************************************)
(* What the proofs need to know of sums over a function's domain, as the   *)
(* community modules fold them.                                            *)
(*                                                                         *)
(* A fold is a recursive function over the subsets of a set, so what it    *)
(* yields is shown by induction over finite sets.  The induction theorems  *)
(* of the library take a predicate as a parameter; the same argument is    *)
(* made here with sets: were there a subset for which the claim fails,     *)
(* there would be a least one (LeastSubset).                               *)
(***************************************************************************)
EXTENDS Functions, FiniteSetTheorems, TLAPS

(* The sum of f over the set S. *)
Total(f, S) == FoldFunctionOnSet(+, 0, f, S)

Pick(s) == CHOOSE x \in s : TRUE

(* g is the function over some subsets of S that sums f along Pick. *)
Along(g, f, Subsets) ==
  g = [s \in Subsets |-> IF s = {} THEN 0 ELSE f[Pick(s)] + g[s \ {Pick(s)}]]

(* The subsets of S with at most n elements. *)
UpTo(S, n) == {s \in SUBSET S : Cardinality(s) <= n}

(* A set of subsets of a finite set has a least one: less any of its       *)
(* elements, it is in the set no more.                                     *)
LEMMA LeastSubset ==
  ASSUME NEW S, IsFiniteSet(S), NEW Bad \in SUBSET (SUBSET S), Bad # {}
  PROVE  \E s \in Bad : \A x \in s : s \ {x} \notin Bad
<1>1. Bad \subseteq FiniteSubsetsOf(S)
  BY FS_FiniteSubsetsOfFinite
<1>2. IsWellFoundedOn(StrictSubsetOrdering(S), FiniteSubsetsOf(S))
  BY FS_StrictSubsetOrderingWellFounded
<1>3. PICK s \in Bad : \A t \in Bad : <<t, s>> \notin StrictSubsetOrdering(S)
  BY <1>1, <1>2, WFMin
<1>4. ASSUME NEW x \in s, s \ {x} \in Bad PROVE FALSE
  <2>1. <<s \ {x}, s>> \in StrictSubsetOrdering(S)
    BY <1>4 DEF StrictSubsetOrdering
  <2>2. QED BY <1>3, <1>4, <2>1
<1>5. QED BY <1>4

(* A set of numbers has a least one: it is 0, or its predecessor is not in *)
(* the set.                                                                *)
LEMMA LeastNumber ==
  ASSUME NEW Bad \in SUBSET Nat, Bad # {}
  PROVE  \E n \in Bad : n = 0 \/ (n - 1 \in Nat /\ n - 1 \notin Bad)
<1>1. PICK b \in Bad : b \in Nat
  OBVIOUS
<1> DEFINE Below == {1..n : n \in {m \in Bad : m <= b}}
<1>2. IsFiniteSet(1..b) /\ Below \in SUBSET (SUBSET (1..b)) /\ Below # {}
  <2>1. IsFiniteSet(1..b)
    BY <1>1, FS_Interval
  <2>2. \A m \in Bad : m <= b => 1..m \in SUBSET (1..b)
    BY <1>1
  <2>3. 1..b \in Below
    BY <1>1
  <2>4. QED BY <2>1, <2>2, <2>3
<1>3. PICK s \in Below : \A x \in s : s \ {x} \notin Below
  <2> HIDE DEF Below
  <2>1. QED BY <1>2, LeastSubset
<1>4. PICK n \in Bad : n <= b /\ s = 1..n
  OBVIOUS
<1>5. ASSUME n # 0, n - 1 \in Bad PROVE FALSE
  <2>1. n \in Nat /\ n \in s /\ s \ {n} = 1..(n - 1) /\ n - 1 <= b
    BY <1>1, <1>4, <1>5
  <2>2. s \ {n} \in Below
    BY <1>5, <2>1
  <2>3. QED BY <1>3, <2>1, <2>2
<1>6. QED BY <1>5

(* CHOOSE finds an element where there is one. *)
LEMMA PickIn == ASSUME NEW s, s # {} PROVE Pick(s) \in s
BY DEF Pick

(* The recursion has a solution on the subsets up to any size. *)
LEMMA AlongUpTo ==
  ASSUME NEW f, NEW S, IsFiniteSet(S)
  PROVE  \A n \in Nat : \E g : Along(g, f, UpTo(S, n))
<1> DEFINE Bad == {n \in Nat : ~ \E g : Along(g, f, UpTo(S, n))}
<1> SUFFICES ASSUME Bad # {} PROVE FALSE
  OBVIOUS
<1>1. PICK n \in Bad : n = 0 \/ (n - 1 \in Nat /\ n - 1 \notin Bad)
  <2> HIDE DEF Bad
  <2>1. Bad \in SUBSET Nat
    BY DEF Bad
  <2>2. QED BY <2>1, LeastNumber
<1>2. \A s \in SUBSET S : IsFiniteSet(s) /\ Cardinality(s) \in Nat
  BY FS_Subset, FS_CardinalityType
<1>3. CASE n = 0
  <2> DEFINE g == [s \in UpTo(S, 0) |-> 0]
  <2>1. \A s \in UpTo(S, 0) : s = {}
    BY <1>2, FS_EmptySet DEF UpTo
  <2>2. Along(g, f, UpTo(S, 0))
    BY <2>1 DEF Along
  <2>3. QED BY <1>1, <1>3, <2>2
<1>4. CASE n # 0
  <2>1. n \in Nat /\ n - 1 \in Nat
    BY <1>1, <1>4
  <2>2. PICK h : Along(h, f, UpTo(S, n - 1))
    BY <1>1, <1>4
  <2> DEFINE g == [s \in UpTo(S, n) |->
                     IF s = {} THEN 0 ELSE f[Pick(s)] + h[s \ {Pick(s)}]]
  <2>3. ASSUME NEW s \in UpTo(S, n), s # {} PROVE s \ {Pick(s)} \in UpTo(S, n - 1)
    <3>1. s \in SUBSET S /\ Cardinality(s) <= n /\ Pick(s) \in s
      BY <2>3, PickIn DEF UpTo
    <3>2. Cardinality(s \ {Pick(s)}) = Cardinality(s) - 1
      BY <1>2, <3>1, FS_RemoveElement
    <3>3. QED BY <1>2, <2>1, <3>1, <3>2 DEF UpTo
  <2>4. ASSUME NEW s \in UpTo(S, n - 1) PROVE s \in UpTo(S, n) /\ g[s] = h[s]
    <3>1. s \in UpTo(S, n)
      BY <1>2, <2>1 DEF UpTo
    <3>2. h[s] = IF s = {} THEN 0 ELSE f[Pick(s)] + h[s \ {Pick(s)}]
      BY <2>2 DEF Along
    <3>3. QED BY <3>1, <3>2
  <2>5. \A s \in UpTo(S, n) :
          g[s] = IF s = {} THEN 0 ELSE f[Pick(s)] + g[s \ {Pick(s)}]
    BY <2>3, <2>4
  <2>6. Along(g, f, UpTo(S, n))
    <3>1. g = [s \in UpTo(S, n) |-> g[s]]
      OBVIOUS
    <3> HIDE DEF g
    <3>2. QED BY <2>5, <3>1 DEF Along
  <2>7. QED BY <1>1, <2>6
<1>5. QED BY <1>3, <1>4

(* What the fold yields is what such a function over all subsets yields. *)
LEMMA TotalAlong ==
  ASSUME NEW f, NEW S, IsFiniteSet(S)
  PROVE  \E g : Along(g, f, SUBSET S) /\ Total(f, S) = g[S]
<1>1. Cardinality(S) \in Nat /\ UpTo(S, Cardinality(S)) = SUBSET S
  BY FS_CardinalityType, FS_Subset DEF UpTo
<1>2. \E g : Along(g, f, SUBSET S)
  <2>1. \E g : Along(g, f, UpTo(S, Cardinality(S)))
    BY <1>1, AlongUpTo
  <2>2. QED BY <1>1, <2>1
<1> DEFINE h == CHOOSE g : Along(g, f, SUBSET S)
<1>3. Along(h, f, SUBSET S)
  BY <1>2
<1>4. Total(f, S) = h[S]
  BY DEF Total, FoldFunctionOnSet, MapThenFoldSet, Along, Pick
<1>5. QED BY <1>3, <1>4

(* Two such functions agree on the sets where the summands agree. *)
LEMMA AlongAgree ==
  ASSUME NEW f, NEW e, NEW S, NEW R, NEW g, NEW h, NEW T, IsFiniteSet(T),
         Along(g, f, SUBSET S), Along(h, e, SUBSET R), T \subseteq S, T \subseteq R,
         \A x \in T : f[x] = e[x]
  PROVE  g[T] = h[T]
<1> DEFINE Bad == {t \in SUBSET T : g[t] # h[t]}
<1>1. ASSUME Bad # {} PROVE FALSE
  <2>1. PICK t \in Bad : \A x \in t : t \ {x} \notin Bad
    <3> HIDE DEF Bad
    <3>1. Bad \in SUBSET (SUBSET T)
      BY DEF Bad
    <3>2. QED BY <1>1, <3>1, LeastSubset
  <2>2. /\ g[t] = IF t = {} THEN 0 ELSE f[Pick(t)] + g[t \ {Pick(t)}]
        /\ h[t] = IF t = {} THEN 0 ELSE e[Pick(t)] + h[t \ {Pick(t)}]
    BY DEF Along
  <2>3. CASE t = {}
    BY <2>2, <2>3
  <2>4. CASE t # {}
    <3>1. Pick(t) \in t
      BY <2>4, PickIn
    <3>2. g[t \ {Pick(t)}] = h[t \ {Pick(t)}] /\ f[Pick(t)] = e[Pick(t)]
      BY <2>1, <3>1
    <3>3. QED BY <2>2, <2>4, <3>2
  <2>5. QED BY <2>3, <2>4
<1>2. QED BY <1>1

(* The sum over the empty set. *)
LEMMA TotalEmpty == ASSUME NEW f PROVE Total(f, {}) = 0
<1>1. PICK g : Along(g, f, SUBSET {}) /\ Total(f, {}) = g[{}]
  BY TotalAlong, FS_EmptySet
<1>2. QED BY <1>1 DEF Along

(* The sum depends only on the summands. *)
LEMMA TotalSame ==
  ASSUME NEW f, NEW e, NEW S, IsFiniteSet(S), \A x \in S : f[x] = e[x]
  PROVE  Total(f, S) = Total(e, S)
<1>1. PICK g : Along(g, f, SUBSET S) /\ Total(f, S) = g[S]
  BY TotalAlong
<1>2. PICK h : Along(h, e, SUBSET S) /\ Total(e, S) = h[S]
  BY TotalAlong
<1>3. g[S] = h[S]
  BY <1>1, <1>2, AlongAgree
<1>4. QED BY <1>1, <1>2, <1>3

(* The equation that defines the fold. *)
LEMMA TotalPick ==
  ASSUME NEW f, NEW S, IsFiniteSet(S), S # {}
  PROVE  Total(f, S) = f[Pick(S)] + Total(f, S \ {Pick(S)})
<1> DEFINE R == S \ {Pick(S)}
<1>1. IsFiniteSet(R) /\ R \subseteq S
  BY FS_RemoveElement
<1>2. PICK g : Along(g, f, SUBSET S) /\ Total(f, S) = g[S]
  BY TotalAlong
<1>3. PICK h : Along(h, f, SUBSET R) /\ Total(f, R) = h[R]
  BY <1>1, TotalAlong
<1>4. g[R] = h[R]
  <2> HIDE DEF R
  <2>1. \A x \in R : f[x] = f[x]
    OBVIOUS
  <2>2. QED BY <1>1, <1>2, <1>3, <2>1, AlongAgree
<1>5. g[S] = f[Pick(S)] + g[R]
  BY <1>2 DEF Along
<1>6. QED BY <1>2, <1>3, <1>4, <1>5

(* A sum of integers is an integer. *)
LEMMA TotalType ==
  ASSUME NEW f, NEW S, IsFiniteSet(S), \A x \in S : f[x] \in Int
  PROVE  Total(f, S) \in Int
<1> DEFINE Bad == {t \in SUBSET S : Total(f, t) \notin Int}
<1>1. ASSUME Bad # {} PROVE FALSE
  <2>1. PICK t \in Bad : \A x \in t : t \ {x} \notin Bad
    <3> HIDE DEF Bad
    <3>1. Bad \in SUBSET (SUBSET S)
      BY DEF Bad
    <3>2. QED BY <1>1, <3>1, LeastSubset
  <2>2. t # {}
    BY TotalEmpty
  <2>3. Pick(t) \in t /\ IsFiniteSet(t)
    BY <2>2, PickIn, FS_Subset
  <2>4. Total(f, t) = f[Pick(t)] + Total(f, t \ {Pick(t)})
    BY <2>2, <2>3, TotalPick
  <2>5. Total(f, t \ {Pick(t)}) \in Int /\ f[Pick(t)] \in Int
    BY <2>1, <2>3
  <2>6. QED BY <2>4, <2>5
<1>2. QED BY <1>1

(* A sum of natural numbers is one. *)
LEMMA TotalNat ==
  ASSUME NEW f, NEW S, IsFiniteSet(S), \A x \in S : f[x] \in Nat
  PROVE  Total(f, S) \in Nat
<1> DEFINE Bad == {t \in SUBSET S : Total(f, t) \notin Nat}
<1>1. ASSUME Bad # {} PROVE FALSE
  <2>1. PICK t \in Bad : \A x \in t : t \ {x} \notin Bad
    <3> HIDE DEF Bad
    <3>1. Bad \in SUBSET (SUBSET S)
      BY DEF Bad
    <3>2. QED BY <1>1, <3>1, LeastSubset
  <2>2. t # {}
    BY TotalEmpty
  <2>3. Pick(t) \in t /\ IsFiniteSet(t)
    BY <2>2, PickIn, FS_Subset
  <2>4. Total(f, t) = f[Pick(t)] + Total(f, t \ {Pick(t)})
    BY <2>2, <2>3, TotalPick
  <2>5. Total(f, t \ {Pick(t)}) \in Nat /\ f[Pick(t)] \in Nat
    BY <2>1, <2>3
  <2>6. QED BY <2>4, <2>5
<1>2. QED BY <1>1

(* Any element can be taken out of a sum. *)
LEMMA TotalRemove ==
  ASSUME NEW f, NEW S, IsFiniteSet(S), \A x \in S : f[x] \in Int, NEW x \in S
  PROVE  Total(f, S) = f[x] + Total(f, S \ {x})
<1> DEFINE Bad == {t \in SUBSET S : \E y \in t : Total(f, t) # f[y] + Total(f, t \ {y})}
<1>1. ASSUME Bad # {} PROVE FALSE
  <2>1. PICK t \in Bad : \A y \in t : t \ {y} \notin Bad
    <3> HIDE DEF Bad
    <3>1. Bad \in SUBSET (SUBSET S)
      BY DEF Bad
    <3>2. QED BY <1>1, <3>1, LeastSubset
  <2>2. PICK y \in t : Total(f, t) # f[y] + Total(f, t \ {y})
    OBVIOUS
  <2> DEFINE p == Pick(t)
  <2>3. p \in t /\ IsFiniteSet(t)
    BY <2>2, PickIn, FS_Subset
  <2>4. Total(f, t) = f[p] + Total(f, t \ {p})
    BY <2>2, <2>3, TotalPick
  <2>5. p # y
    BY <2>2, <2>4
  <2>6. /\ Total(f, t \ {p}) = f[y] + Total(f, (t \ {p}) \ {y})
        /\ Total(f, t \ {y}) = f[p] + Total(f, (t \ {y}) \ {p})
    BY <2>1, <2>2, <2>3, <2>5
  <2>7. Total(f, (t \ {p}) \ {y}) = Total(f, (t \ {y}) \ {p})
    <3>1. (t \ {p}) \ {y} = (t \ {y}) \ {p}
      OBVIOUS
    <3>2. QED BY <3>1
  <2>8. Total(f, (t \ {p}) \ {y}) \in Int /\ f[p] \in Int /\ f[y] \in Int
    <3>1. IsFiniteSet((t \ {p}) \ {y})
      BY <2>3, FS_RemoveElement
    <3>2. QED BY <2>3, <3>1, TotalType
  <2>9. Total(f, t) = f[y] + Total(f, t \ {y})
    <3> HIDE DEF p
    <3>1. QED BY <2>4, <2>6, <2>7, <2>8
  <2>10. QED BY <2>2, <2>9
<1>2. QED BY <1>1

(* Changing one summand changes the sum by as much. *)
LEMMA TotalChange ==
  ASSUME NEW f, NEW e, NEW S, IsFiniteSet(S), NEW x \in S,
         \A y \in S : f[y] \in Int, e[x] \in Int,
         \A y \in S : y # x => e[y] = f[y]
  PROVE  Total(e, S) = Total(f, S) + e[x] - f[x] /\ Total(f, S) \in Int
<1> DEFINE R == S \ {x}
<1>1. IsFiniteSet(R)
  BY FS_RemoveElement
<1>2. Total(f, S) = f[x] + Total(f, R) /\ Total(e, S) = e[x] + Total(e, R)
  <2>1. \A y \in S : e[y] \in Int
    OBVIOUS
  <2>2. QED BY <2>1, TotalRemove
<1>3. Total(e, R) = Total(f, R)
  BY <1>1, TotalSame
<1>4. Total(f, R) \in Int /\ Total(f, S) \in Int
  BY <1>1, TotalType
<1> HIDE DEF R
<1>5. QED BY <1>2, <1>3, <1>4

(* A sum of zeros is zero. *)
LEMMA TotalZero ==
  ASSUME NEW f, NEW S, IsFiniteSet(S), \A x \in S : f[x] = 0
  PROVE  Total(f, S) = 0
<1> DEFINE Bad == {t \in SUBSET S : Total(f, t) # 0}
<1>1. ASSUME Bad # {} PROVE FALSE
  <2>1. PICK t \in Bad : \A x \in t : t \ {x} \notin Bad
    <3> HIDE DEF Bad
    <3>1. Bad \in SUBSET (SUBSET S)
      BY DEF Bad
    <3>2. QED BY <1>1, <3>1, LeastSubset
  <2>2. t # {}
    BY TotalEmpty
  <2>3. Pick(t) \in t /\ IsFiniteSet(t)
    BY <2>2, PickIn, FS_Subset
  <2>4. Total(f, t) = f[Pick(t)] + Total(f, t \ {Pick(t)})
    BY <2>2, <2>3, TotalPick
  <2>5. Total(f, t \ {Pick(t)}) = 0 /\ f[Pick(t)] = 0
    BY <2>1, <2>3
  <2>6. QED BY <2>4, <2>5
<1>2. QED BY <1>1
=============================================================================
