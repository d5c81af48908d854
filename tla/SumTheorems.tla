---------------------------- MODULE SumTheorems ----------------------------
(***************************************************************************)
(* Facts about sums over finite sets that the theorems about stock and     *)
(* carts need.  A sum is defined by a recursive function; what holds for   *)
(* every set follows from the absence of a smallest counterexample.        *)
(***************************************************************************)
EXTENDS Integers, Functions, FiniteSetTheorems, TLAPS

(* g gives the sum of f over every subset of S, one element at a time.     *)
Any(s) == CHOOSE x \in s : TRUE
Equation(g, f, s) == IF s = {} THEN 0 ELSE f[Any(s)] + g[s \ {Any(s)}]
Sums(g, f, S) == g = [s \in SUBSET S |-> Equation(g, f, s)]

LEMMA SmallestNumber ==
  ASSUME NEW T, T \subseteq Nat, T # {}
  PROVE  \E n \in T : \A m \in T : n <= m
<1>1. PICK n \in T : \A m \in T : ~(<<m, n>> \in OpToRel(<, Nat))
  BY NatLessThanWellFounded, WFMin
<1>2. ASSUME NEW m \in T PROVE n <= m
  <2>1. n \in Nat /\ m \in Nat
    OBVIOUS
  <2>2. m < n => <<m, n>> \in OpToRel(<, Nat)
    BY <2>1 DEF OpToRel
  <2>3. ~(m < n)
    BY <1>1, <2>2
  <2> QED
    BY <2>1, <2>3
<1> QED
  BY <1>2

(* A smallest one of some finite sets.                                     *)
LEMMA SmallestSet ==
  ASSUME NEW T, T # {}, \A s \in T : IsFiniteSet(s)
  PROVE  \E s \in T : \A t \in T : Cardinality(s) <= Cardinality(t)
<1> DEFINE N == {Cardinality(s) : s \in T}
<1>1. N \subseteq Nat /\ N # {}
  BY FS_CardinalityType
<1>2. PICK n \in N : \A m \in N : n <= m
  BY <1>1, SmallestNumber
<1> QED
  BY <1>2

LEMMA Smaller ==
  ASSUME NEW s, IsFiniteSet(s), NEW x \in s
  PROVE  /\ IsFiniteSet(s \ {x})
         /\ Cardinality(s) \in Nat /\ Cardinality(s \ {x}) \in Nat
         /\ Cardinality(s \ {x}) < Cardinality(s)
<1>1. /\ IsFiniteSet(s \ {x})
      /\ Cardinality(s \ {x}) = Cardinality(s) - 1
  BY FS_RemoveElement
<1>2. Cardinality(s) \in Nat /\ Cardinality(s \ {x}) \in Nat
  BY <1>1, FS_CardinalityType
<1> QED
  BY <1>1, <1>2

(* There is such a g for a finite set: first for the empty subset, then    *)
(* for those with one element more, and so on.                             *)
UpTo(S, n) == {s \in SUBSET S : Cardinality(s) <= n}
SumsUpTo(g, f, S, n) == g = [s \in UpTo(S, n) |-> Equation(g, f, s)]

LEMMA OneMore ==
  ASSUME NEW f, NEW S, IsFiniteSet(S), NEW n \in Nat, NEW g, SumsUpTo(g, f, S, n)
  PROVE  \E h : SumsUpTo(h, f, S, n + 1)
<1> DEFINE h == [s \in UpTo(S, n + 1) |-> Equation(g, f, s)]
<1>1. ASSUME NEW s \in UpTo(S, n + 1) PROVE Equation(h, f, s) = Equation(g, f, s)
  <2>1. CASE s = {}
    BY <2>1 DEF Equation
  <2>2. CASE s # {}
    <3> DEFINE t == s \ {Any(s)}
    <3>1. Any(s) \in s /\ IsFiniteSet(s) /\ Cardinality(s) <= n + 1
      BY <2>2, FS_Subset DEF Any, UpTo
    <3>2. t \in UpTo(S, n) /\ t \in UpTo(S, n + 1)
      <4>1. Cardinality(t) \in Nat /\ Cardinality(s) \in Nat /\ Cardinality(t) < Cardinality(s)
        BY <3>1, Smaller
      <4> QED
        BY <3>1, <4>1 DEF UpTo
    <3>3. h[t] = Equation(g, f, t) /\ g[t] = Equation(g, f, t)
      BY <3>2 DEF SumsUpTo
    <3> QED
      BY <2>2, <3>3 DEF Equation
  <2> QED
    BY <2>1, <2>2
<1>2. h = [s \in UpTo(S, n + 1) |-> Equation(h, f, s)]
  <2> HIDE DEF h
  <2> SUFFICES h = [s \in UpTo(S, n + 1) |-> Equation(g, f, s)]
    BY <1>1
  <2> QED
    BY DEF h
<1> QED
  BY <1>2 DEF SumsUpTo

LEMMA SumsExist ==
  ASSUME NEW f, NEW S, IsFiniteSet(S)
  PROVE  \E g : Sums(g, f, S)
<1> DEFINE T == {n \in Nat : \A g : ~SumsUpTo(g, f, S, n)}
<1>1. T = {}
  <2> SUFFICES ASSUME T # {} PROVE FALSE
    OBVIOUS
  <2>1. PICK n \in T : \A m \in T : n <= m
    <3>1. T \subseteq Nat
      OBVIOUS
    <3> QED
      BY <3>1, SmallestNumber
  <2>2. n # 0
    <3>1. SUFFICES ASSUME n = 0 PROVE FALSE
      OBVIOUS
    <3> DEFINE g == [s \in UpTo(S, 0) |-> 0]
    <3>2. ASSUME NEW s \in UpTo(S, 0) PROVE s = {}
      <4>1. IsFiniteSet(s) /\ Cardinality(s) <= 0
        BY FS_Subset DEF UpTo
      <4>2. Cardinality(s) \in Nat
        BY <4>1, FS_CardinalityType
      <4> QED
        BY <4>1, <4>2, FS_EmptySet
    <3>3. \A s \in UpTo(S, 0) : Equation(g, f, s) = 0
      BY <3>2 DEF Equation
    <3>4. SumsUpTo(g, f, S, 0)
      BY <3>3 DEF SumsUpTo
    <3> QED
      BY <3>1, <3>4
  <2>3. n - 1 \in Nat /\ n - 1 \notin T /\ (n - 1) + 1 = n
    BY <2>1, <2>2
  <2>4. PICK g : SumsUpTo(g, f, S, n - 1)
    BY <2>3
  <2>5. \E h : SumsUpTo(h, f, S, (n - 1) + 1)
    BY <2>3, <2>4, OneMore
  <2> QED
    BY <2>1, <2>3, <2>5
<1>2. Cardinality(S) \in Nat
  BY FS_CardinalityType
<1>3. PICK g : SumsUpTo(g, f, S, Cardinality(S))
  BY <1>1, <1>2
<1>4. UpTo(S, Cardinality(S)) = SUBSET S
  BY FS_Subset DEF UpTo
<1> QED
  BY <1>3, <1>4 DEF SumsUpTo, Sums

-----------------------------------------------------------------------------

(* What g says of a set does not depend on the function, or the set, of    *)
(* which g was taken.                                                      *)
LEMMA SumsAgree ==
  ASSUME NEW f, NEW h, NEW S, NEW T, NEW g, NEW k, Sums(g, f, S), Sums(k, h, T),
         NEW s, IsFiniteSet(s), s \subseteq S, s \subseteq T, \A x \in s : f[x] = h[x]
  PROVE  g[s] = k[s]
<1> DEFINE Apart == {t \in SUBSET s : g[t] # k[t]}
<1>1. ASSUME Apart # {} PROVE FALSE
  <2>1. PICK t \in Apart : \A r \in Apart : Cardinality(t) <= Cardinality(r)
    <3>1. \A r \in Apart : IsFiniteSet(r)
      BY FS_Subset
    <3> QED
      BY <1>1, <3>1, SmallestSet
  <2>2. g[t] = Equation(g, f, t) /\ k[t] = Equation(k, h, t)
    BY DEF Sums
  <2>3. t # {}
    BY <2>2 DEF Equation
  <2> DEFINE r == t \ {Any(t)}
  <2>4. Any(t) \in t
    BY <2>3 DEF Any
  <2>5. r \notin Apart
    <3>1. IsFiniteSet(t)
      BY FS_Subset
    <3>2. Cardinality(r) < Cardinality(t) /\ Cardinality(r) \in Nat /\ Cardinality(t) \in Nat
      BY <2>4, <3>1, Smaller
    <3> QED
      BY <2>1, <3>2
  <2>6. g[r] = k[r] /\ f[Any(t)] = h[Any(t)]
    BY <2>4, <2>5
  <2> QED
    BY <2>2, <2>3, <2>6 DEF Equation
<1> QED
  BY <1>1

LEMMA SumIsSums ==
  ASSUME NEW f, NEW S, IsFiniteSet(S)
  PROVE  \E g : Sums(g, f, S) /\ SumFunctionOnSet(f, S) = g[S]
<1> DEFINE h == CHOOSE g : Sums(g, f, S)
<1>1. Sums(h, f, S)
  BY SumsExist
<1>2. SumFunctionOnSet(f, S) = h[S]
  BY DEF SumFunctionOnSet, FoldFunctionOnSet, MapThenFoldSet, Sums, Equation, Any
<1> HIDE DEF h
<1> QED
  BY <1>1, <1>2

(* Sums of functions that agree on a set are equal.                        *)
LEMMA SumOfEqual ==
  ASSUME NEW S, IsFiniteSet(S), NEW f, NEW h, \A x \in S : f[x] = h[x]
  PROVE  SumFunctionOnSet(f, S) = SumFunctionOnSet(h, S)
<1>1. PICK g : Sums(g, f, S) /\ SumFunctionOnSet(f, S) = g[S]
  BY SumIsSums
<1>2. PICK k : Sums(k, h, S) /\ SumFunctionOnSet(h, S) = k[S]
  BY SumIsSums
<1>3. g[S] = k[S]
  BY <1>1, <1>2, SumsAgree
<1> QED
  BY <1>1, <1>2, <1>3

LEMMA SumOfNothing == ASSUME NEW f PROVE SumFunctionOnSet(f, {}) = 0
<1>1. PICK g : Sums(g, f, {}) /\ SumFunctionOnSet(f, {}) = g[{}]
  BY SumIsSums, FS_EmptySet
<1> QED
  BY <1>1 DEF Sums, Equation

LEMMA SumOfSome ==
  ASSUME NEW f, NEW S, IsFiniteSet(S), S # {}
  PROVE  SumFunctionOnSet(f, S) = f[Any(S)] + SumFunctionOnSet(f, S \ {Any(S)})
<1> DEFINE T == S \ {Any(S)}
<1>1. IsFiniteSet(T)
  BY FS_RemoveElement
<1>2. PICK g : Sums(g, f, S) /\ SumFunctionOnSet(f, S) = g[S]
  BY SumIsSums
<1>3. PICK k : Sums(k, f, T) /\ SumFunctionOnSet(f, T) = k[T]
  BY <1>1, SumIsSums
<1>4. g[T] = k[T]
  BY <1>1, <1>2, <1>3, SumsAgree
<1>5. g[S] = f[Any(S)] + g[T]
  BY <1>2 DEF Sums, Equation
<1> QED
  BY <1>2, <1>3, <1>4, <1>5

(* A sum of integers is one, and a sum of numbers a number.                *)
LEMMA SumType ==
  ASSUME NEW N, N = Nat \/ N = Int, NEW f, NEW S, IsFiniteSet(S), \A x \in S : f[x] \in N
  PROVE  SumFunctionOnSet(f, S) \in N
<1> DEFINE Odd == {s \in SUBSET S : SumFunctionOnSet(f, s) \notin N}
<1>1. ASSUME Odd # {} PROVE FALSE
  <2>1. PICK s \in Odd : \A r \in Odd : Cardinality(s) <= Cardinality(r)
    <3>1. \A r \in Odd : IsFiniteSet(r)
      BY FS_Subset
    <3> QED
      BY <1>1, <3>1, SmallestSet
  <2>2. IsFiniteSet(s)
    BY FS_Subset
  <2>3. s # {}
    BY SumOfNothing
  <2> DEFINE r == s \ {Any(s)}
  <2>4. Any(s) \in s
    BY <2>3 DEF Any
  <2>5. r \notin Odd
    <3>1. Cardinality(r) < Cardinality(s) /\ Cardinality(r) \in Nat /\ Cardinality(s) \in Nat
      BY <2>2, <2>4, Smaller
    <3> QED
      BY <2>1, <3>1
  <2>6. f[Any(s)] \in N /\ SumFunctionOnSet(f, r) \in N
    BY <2>4, <2>5
  <2>7. f[Any(s)] + SumFunctionOnSet(f, r) \in N
    BY <2>6
  <2> QED
    BY <2>2, <2>3, <2>7, SumOfSome
<1> QED
  BY <1>1

(* Any element may be taken out of a sum.                                  *)
TakesOut(f, s) ==
    \A x \in s : SumFunctionOnSet(f, s) = f[x] + SumFunctionOnSet(f, s \ {x})

LEMMA SumTakesOut ==
  ASSUME NEW f, NEW S, IsFiniteSet(S), \A x \in S : f[x] \in Int
  PROVE  TakesOut(f, S)
<1> DEFINE Odd == {s \in SUBSET S : ~TakesOut(f, s)}
<1>1. ASSUME Odd # {} PROVE FALSE
  <2>1. PICK s \in Odd : \A r \in Odd : Cardinality(s) <= Cardinality(r)
    <3>1. \A r \in Odd : IsFiniteSet(r)
      BY FS_Subset
    <3> QED
      BY <1>1, <3>1, SmallestSet
  <2>2. PICK x \in s : SumFunctionOnSet(f, s) # f[x] + SumFunctionOnSet(f, s \ {x})
    BY DEF TakesOut
  <2>3. IsFiniteSet(s)
    BY FS_Subset
  <2> DEFINE a == Any(s)
             r == s \ {a}
             t == s \ {x}
             b == r \ {x}
  <2>4. a \in s
    BY DEF Any
  <2>5. SumFunctionOnSet(f, s) = f[a] + SumFunctionOnSet(f, r)
    BY <2>3, SumOfSome
  <2>6. x # a
    BY <2>2, <2>5
  <2>7. TakesOut(f, r) /\ TakesOut(f, t)
    <3>1. /\ Cardinality(r) < Cardinality(s) /\ Cardinality(r) \in Nat /\ Cardinality(s) \in Nat
          /\ Cardinality(t) < Cardinality(s) /\ Cardinality(t) \in Nat
      BY <2>3, <2>4, Smaller
    <3>2. r \notin Odd /\ t \notin Odd
      BY <2>1, <3>1
    <3> QED
      BY <3>2
  <2>8. /\ SumFunctionOnSet(f, r) = f[x] + SumFunctionOnSet(f, b)
        /\ SumFunctionOnSet(f, t) = f[a] + SumFunctionOnSet(f, b)
    <3>1. x \in r /\ a \in t /\ b = t \ {a}
      BY <2>4, <2>6
    <3> QED
      BY <2>7, <3>1 DEF TakesOut
  <2>9. f[x] \in Int /\ f[a] \in Int /\ SumFunctionOnSet(f, b) \in Int
    <3>1. IsFiniteSet(b) /\ b \subseteq S
      BY <2>3, FS_Subset
    <3>2. SumFunctionOnSet(f, b) \in Int
      BY <3>1, SumType
    <3> QED
      BY <2>4, <3>2
  <2> HIDE DEF a, r, t, b
  <2>10. SumFunctionOnSet(f, s) = f[x] + SumFunctionOnSet(f, t)
    BY <2>5, <2>8, <2>9
  <2> QED
    BY <2>2, <2>10 DEF t
<1> QED
  BY <1>1

(* A sum changes as the one term does that changes.                        *)
LEMMA SumOfChanged ==
  ASSUME NEW S, IsFiniteSet(S), NEW f, NEW h, NEW x \in S,
         \A y \in S : f[y] \in Int /\ h[y] \in Int,
         \A y \in S \ {x} : h[y] = f[y]
  PROVE  SumFunctionOnSet(h, S) = SumFunctionOnSet(f, S) + (h[x] - f[x])
<1> DEFINE T == S \ {x}
<1>1. IsFiniteSet(T)
  BY FS_RemoveElement
<1>2. SumFunctionOnSet(h, T) = SumFunctionOnSet(f, T)
  BY <1>1, SumOfEqual
<1>3. /\ SumFunctionOnSet(f, S) = f[x] + SumFunctionOnSet(f, T)
      /\ SumFunctionOnSet(h, S) = h[x] + SumFunctionOnSet(h, T)
  BY SumTakesOut DEF TakesOut
<1>4. SumFunctionOnSet(f, T) \in Int
  BY <1>1, SumType
<1> QED
  BY <1>2, <1>3, <1>4

(* A sum of zeros is zero.                                                 *)
LEMMA SumOfZeros ==
  ASSUME NEW S, IsFiniteSet(S), NEW f, \A x \in S : f[x] = 0
  PROVE  SumFunctionOnSet(f, S) = 0
<1> DEFINE Odd == {s \in SUBSET S : SumFunctionOnSet(f, s) # 0}
<1>1. ASSUME Odd # {} PROVE FALSE
  <2>1. PICK s \in Odd : \A r \in Odd : Cardinality(s) <= Cardinality(r)
    <3>1. \A r \in Odd : IsFiniteSet(r)
      BY FS_Subset
    <3> QED
      BY <1>1, <3>1, SmallestSet
  <2>2. IsFiniteSet(s)
    BY FS_Subset
  <2>3. s # {}
    BY SumOfNothing
  <2> DEFINE r == s \ {Any(s)}
  <2>4. Any(s) \in s
    BY <2>3 DEF Any
  <2>5. Cardinality(r) < Cardinality(s) /\ Cardinality(r) \in Nat /\ Cardinality(s) \in Nat
    BY <2>2, <2>4, Smaller
  <2>6. f[Any(s)] = 0 /\ SumFunctionOnSet(f, r) = 0
    BY <2>1, <2>4, <2>5
  <2> QED
    BY <2>2, <2>3, <2>6, SumOfSome
<1> QED
  BY <1>1

(* An element more.                                                        *)
LEMMA SumOfAdded ==
  ASSUME NEW S, IsFiniteSet(S), NEW f, NEW x, x \notin S, \A y \in S \cup {x} : f[y] \in Int
  PROVE  SumFunctionOnSet(f, S \cup {x}) = SumFunctionOnSet(f, S) + f[x]
<1>1. IsFiniteSet(S \cup {x})
  BY FS_AddElement
<1>2. TakesOut(f, S \cup {x})
  BY <1>1, SumTakesOut
<1>3. (S \cup {x}) \ {x} = S
  OBVIOUS
<1>4. SumFunctionOnSet(f, S \cup {x}) = f[x] + SumFunctionOnSet(f, S)
  BY <1>2, <1>3 DEF TakesOut
<1>5. SumFunctionOnSet(f, S) \in Int
  BY SumType
<1> QED
  BY <1>4, <1>5

(* A largest one of finitely many numbers.                                 *)
LEMMA LargestNumber ==
  ASSUME NEW T, T \subseteq Nat, T # {}, IsFiniteSet(T)
  PROVE  \E n \in T : \A m \in T : n >= m
<1> DEFINE Topped(s) == \E n \in s : \A m \in s : n >= m
           Odd == {s \in SUBSET T : s # {} /\ ~Topped(s)}
<1>1. ASSUME Odd # {} PROVE FALSE
  <2>1. PICK s \in Odd : \A r \in Odd : Cardinality(s) <= Cardinality(r)
    <3>1. \A r \in Odd : IsFiniteSet(r)
      BY FS_Subset
    <3> QED
      BY <1>1, <3>1, SmallestSet
  <2>2. IsFiniteSet(s) /\ s \subseteq Nat
    BY FS_Subset
  <2> DEFINE r == s \ {Any(s)}
  <2>3. Any(s) \in s
    BY DEF Any
  <2>4. r \notin Odd
    <3>1. Cardinality(r) < Cardinality(s) /\ Cardinality(r) \in Nat /\ Cardinality(s) \in Nat
      BY <2>2, <2>3, Smaller
    <3> QED
      BY <2>1, <3>1
  <2>5. ~Topped(s)
    OBVIOUS
  <2>6. CASE r = {}
    <3>1. \A m \in s : m = Any(s)
      BY <2>6
    <3>2. Any(s) >= Any(s)
      <4>1. Any(s) \in Nat
        BY <2>2, <2>3
      <4> QED
        BY <4>1
    <3> QED
      BY <2>3, <2>5, <3>1, <3>2
  <2>7. CASE r # {}
    <3>1. PICK n \in r : \A m \in r : n >= m
      BY <2>4, <2>7
    <3>2. \A m \in s : m = Any(s) \/ m \in r
      OBVIOUS
    <3>3. CASE n >= Any(s)
      BY <2>5, <3>1, <3>2, <3>3
    <3>4. CASE ~(n >= Any(s))
      <4>1. \A m \in s : m \in Nat /\ n \in Nat /\ Any(s) \in Nat
        BY <2>2, <2>3
      <4>2. \A m \in s : Any(s) >= m
        BY <3>1, <3>2, <3>4, <4>1
      <4> QED
        BY <2>3, <2>5, <4>2
    <3> QED
      BY <3>3, <3>4
  <2> QED
    BY <2>6, <2>7
<1> QED
  BY <1>1
=============================================================================
