------------------------------ MODULE FiniteSums ------------------------------
(***************************************************************************)
(* Lemmas about data that the proofs share: induction on the numbers, in a *)
(* form that takes a set and not a predicate, and what it gives for the    *)
(* community modules' sum of a function over a finite set, which is a      *)
(* recursive function that picks the elements one after the other.         *)
(***************************************************************************)
EXTENDS Integers, FiniteSets, Functions, FiniteSetTheorems, WellFoundedInduction, TLAPS

\* Induction on the numbers: what is true of them is said as a set of them.
LEMMA Inductive ==
  ASSUME NEW S, 0 \in S, \A n \in Nat : n \in S => n + 1 \in S
  PROVE  Nat \subseteq S
  <1> DEFINE R == OpToRel(<, Nat)
             T == Nat \ S
  <1> SUFFICES ASSUME T /= {} PROVE FALSE
    OBVIOUS
  <1>1. IsWellFoundedOn(R, Nat)
    BY NatLessThanWellFounded
  <1>2. T \subseteq Nat
    OBVIOUS
  <1>3. \E x \in T : \A y \in T : ~(<<y, x>> \in R)
    <2> HIDE DEF R, T
    <2> QED BY <1>1, <1>2, WFMin
  <1>4. PICK x \in T : \A y \in T : ~(<<y, x>> \in R)
    BY <1>3
  <1>5. x \in Nat /\ x /= 0 /\ x - 1 \in Nat /\ x - 1 < x /\ x - 1 + 1 = x
    OBVIOUS
  <1>6. x - 1 \in S
    <2>1. <<x - 1, x>> \in R
      BY <1>5 DEF OpToRel
    <2> QED BY <1>4, <1>5, <2>1
  <1> QED BY <1>5, <1>6

-----------------------------------------------------------------------------
\* The sum over every subset of S, as Folds.tla computes it.
Chosen(s) == CHOOSE x \in s : TRUE
Adds(g, f, S) ==
    g = [s \in SUBSET S |-> IF s = {} THEN 0 ELSE f[Chosen(s)] + g[s \ {Chosen(s)}]]

\* There is such a function on every finite set.
LEMMA AddsSome ==
  ASSUME NEW f, NEW S, IsFiniteSet(S)
  PROVE  \E g : Adds(g, f, S)
  <1> DEFINE D(n) == {s \in SUBSET S : Cardinality(s) <= n}
             Is(g, n) == g = [s \in D(n) |-> IF s = {} THEN 0 ELSE f[Chosen(s)] + g[s \ {Chosen(s)}]]
             N == {n \in Nat : \E g : Is(g, n)}
  <1>1. \A s \in SUBSET S : IsFiniteSet(s) /\ Cardinality(s) \in Nat
    BY FS_Subset, FS_CardinalityType
  <1>2. \A s \in SUBSET S : s /= {} => /\ Chosen(s) \in s /\ s \ {Chosen(s)} \in SUBSET S
                                       /\ Cardinality(s \ {Chosen(s)}) = Cardinality(s) - 1
    <2> TAKE s \in SUBSET S
    <2> SUFFICES ASSUME s /= {}
                 PROVE  /\ Chosen(s) \in s /\ s \ {Chosen(s)} \in SUBSET S
                        /\ Cardinality(s \ {Chosen(s)}) = Cardinality(s) - 1
      OBVIOUS
    <2>1. Chosen(s) \in s
      BY DEF Chosen
    <2>2. Cardinality(s \ {Chosen(s)}) = Cardinality(s) - 1
      BY <1>1, <2>1, FS_RemoveElement
    <2> QED BY <2>1, <2>2
  <1>3. 0 \in N
    <2> DEFINE g == [s \in D(0) |-> 0]
    <2>1. \A s \in D(0) : s = {}
      BY <1>1, FS_EmptySet
    <2>2. Is(g, 0)
      BY <2>1
    <2> QED BY <2>2
  <1>4. ASSUME NEW n \in Nat, n \in N
        PROVE  n + 1 \in N
    <2>1. PICK g : Is(g, n)
      BY <1>4
    <2> DEFINE h == [s \in D(n + 1) |-> IF s = {} THEN 0 ELSE f[Chosen(s)] + g[s \ {Chosen(s)}]]
               k == [s \in D(n + 1) |-> IF s = {} THEN 0 ELSE f[Chosen(s)] + h[s \ {Chosen(s)}]]
    <2>2. \A s \in D(n) : g[s] = h[s]
      <3> TAKE s \in D(n)
      <3>1. s \in D(n + 1)
        BY <1>1
      <3>2. g[s] = IF s = {} THEN 0 ELSE f[Chosen(s)] + g[s \ {Chosen(s)}]
        BY <2>1
      <3> QED BY <3>1, <3>2
    <2>3. \A s \in D(n + 1) : h[s] = k[s]
      <3> TAKE s \in D(n + 1)
      <3>1. CASE s = {}
        BY <3>1
      <3>2. CASE s /= {}
        <4>1. s \ {Chosen(s)} \in D(n)
          <5>1. Cardinality(s) <= n + 1 /\ Cardinality(s) \in Nat
            BY <1>1
          <5>2. s \ {Chosen(s)} \in SUBSET S /\ Cardinality(s \ {Chosen(s)}) = Cardinality(s) - 1
            BY <1>2, <3>2
          <5>3. Cardinality(s \ {Chosen(s)}) <= n
            BY <5>1, <5>2
          <5> QED BY <5>2, <5>3
        <4>2. g[s \ {Chosen(s)}] = h[s \ {Chosen(s)}]
          BY <2>2, <4>1
        <4>3. h[s] = f[Chosen(s)] + g[s \ {Chosen(s)}]
          BY <3>2
        <4>4. k[s] = f[Chosen(s)] + h[s \ {Chosen(s)}]
          BY <3>2
        <4> HIDE DEF h, k
        <4> QED BY <4>2, <4>3, <4>4
      <3> QED BY <3>1, <3>2
    <2>4. h = k
      BY <2>3
    <2>5. Is(h, n + 1)
      <3> HIDE DEF h
      <3> QED BY <2>4
    <2>6. \E j : Is(j, n + 1)
      BY <2>5
    <2> HIDE DEF Is
    <2> QED BY <2>6
  <1>5. \A n \in Nat : n \in N => n + 1 \in N
    BY <1>4
  <1> HIDE DEF N
  <1>6. Nat \subseteq N
    BY <1>3, <1>5, Inductive
  <1>7. Cardinality(S) \in Nat /\ Cardinality(S) \in N
    BY <1>6, FS_CardinalityType
  <1>8. PICK g : Is(g, Cardinality(S))
    BY <1>7 DEF N
  <1>9. D(Cardinality(S)) = SUBSET S
    <2>1. \A s \in SUBSET S : Cardinality(s) <= Cardinality(S)
      BY FS_Subset
    <2> QED BY <2>1
  <1> QED BY <1>8, <1>9 DEF Adds

\* The sum is what that function has for the whole set.
LEMMA SumAdds ==
  ASSUME NEW f, NEW S, IsFiniteSet(S)
  PROVE  \E g : Adds(g, f, S) /\ SumFunctionOnSet(f, S) = g[S]
  <1> DEFINE g == CHOOSE g : Adds(g, f, S)
  <1>1. Adds(g, f, S)
    <2>1. \E h : Adds(h, f, S)
      BY AddsSome
    <2> QED BY <2>1
  <1>2. SumFunctionOnSet(f, S) = g[S]
    BY DEF SumFunctionOnSet, FoldFunctionOnSet, MapThenFoldSet, Adds, Chosen
  <1> QED BY <1>1, <1>2
\* The function has integers as its values when what it adds are integers.
LEMMA AddsInteger ==
  ASSUME NEW S, IsFiniteSet(S), NEW f \in [S -> Int], NEW g, Adds(g, f, S)
  PROVE  \A s \in SUBSET S : g[s] \in Int
  <1> DEFINE N == {n \in Nat : \A s \in SUBSET S : Cardinality(s) = n => g[s] \in Int}
  <1>1. \A s \in SUBSET S : IsFiniteSet(s) /\ Cardinality(s) \in Nat /\ (Cardinality(s) = 0 <=> s = {})
    BY FS_Subset, FS_CardinalityType, FS_EmptySet
  <1>2. \A s \in SUBSET S : g[s] = IF s = {} THEN 0 ELSE f[Chosen(s)] + g[s \ {Chosen(s)}]
    BY DEF Adds
  <1>3. 0 \in N
    BY <1>1, <1>2
  <1>4. ASSUME NEW n \in Nat, n \in N
        PROVE  n + 1 \in N
    <2>1. ASSUME NEW s \in SUBSET S, Cardinality(s) = n + 1
          PROVE  g[s] \in Int
      <3> DEFINE c == Chosen(s)
      <3>1. s /= {}
        BY <1>1, <2>1
      <3>2. c \in s /\ c \in S
        BY <3>1 DEF Chosen
      <3> HIDE DEF c
      <3>3. g[s] = f[c] + g[s \ {c}]
        BY <1>2, <3>1 DEF c
      <3>4. s \ {c} \in SUBSET S /\ Cardinality(s \ {c}) = n
        BY <1>1, <2>1, <3>2, FS_RemoveElement
      <3>5. g[s \ {c}] \in Int
        BY <1>4, <3>4
      <3> QED BY <3>2, <3>3, <3>5
    <2> QED BY <2>1
  <1>5. \A n \in Nat : n \in N => n + 1 \in N
    BY <1>4
  <1> HIDE DEF N
  <1>6. Nat \subseteq N
    BY <1>3, <1>5, Inductive
  <1> QED BY <1>1, <1>6 DEF N

\* What the function is on a subset: its elements count once, whichever comes first.
LEMMA AddsElement ==
  ASSUME NEW S, IsFiniteSet(S), NEW f \in [S -> Int], NEW g, Adds(g, f, S)
  PROVE  /\ g[{}] = 0 /\ \A s \in SUBSET S : g[s] \in Int
         /\ \A s \in SUBSET S, x \in S : x \in s => g[s] = f[x] + g[s \ {x}]
  <1> DEFINE Right(s) == g[s] \in Int /\ \A x \in s : g[s] = f[x] + g[s \ {x}]
             N == {n \in Nat : \A s \in SUBSET S : Cardinality(s) = n => Right(s)}
  <1>1. \A s \in SUBSET S : IsFiniteSet(s) /\ Cardinality(s) \in Nat /\ (Cardinality(s) = 0 <=> s = {})
    BY FS_Subset, FS_CardinalityType, FS_EmptySet
  <1>2. \A s \in SUBSET S, x \in S : x \in s => Cardinality(s \ {x}) = Cardinality(s) - 1 /\ s \ {x} \in SUBSET S
    BY <1>1, FS_RemoveElement
  <1>3. \A s \in SUBSET S : g[s] = IF s = {} THEN 0 ELSE f[Chosen(s)] + g[s \ {Chosen(s)}]
    BY DEF Adds
  <1>4. g[{}] = 0
    BY <1>3
  <1>5. \A s \in SUBSET S : g[s] \in Int
    BY AddsInteger
  <1>6. 0 \in N
    <2>1. ASSUME NEW s \in SUBSET S, Cardinality(s) = 0
          PROVE  Right(s)
      BY <1>1, <1>4, <2>1
    <2> QED BY <2>1
  <1>7. ASSUME NEW n \in Nat, n \in N
        PROVE  n + 1 \in N
    <2>1. \A t \in SUBSET S : Cardinality(t) = n => Right(t)
      BY <1>7
    <2>2. ASSUME NEW s \in SUBSET S, Cardinality(s) = n + 1
          PROVE  Right(s)
      <3> DEFINE c == Chosen(s)
      <3>1. s /= {}
        BY <1>1, <2>2
      <3>2. c \in s /\ c \in S
        BY <3>1 DEF Chosen
      <3> HIDE DEF c
      <3>3. g[s] = f[c] + g[s \ {c}]
        BY <1>3, <3>1 DEF c
      <3>4. s \ {c} \in SUBSET S /\ Cardinality(s \ {c}) = n
        BY <1>2, <2>2, <3>2
      <3>5. Right(s \ {c})
        BY <2>1, <3>4
      <3>6. g[s \ {c}] \in Int
        BY <3>5
      <3>7. ASSUME NEW x \in s, x /= c
            PROVE  g[s] = f[x] + g[s \ {x}]
        <4>1. s \ {x} \in SUBSET S /\ Cardinality(s \ {x}) = n /\ x \in S
          BY <1>2, <2>2
        <4>2. Right(s \ {x})
          BY <2>1, <4>1
        <4>3. g[s \ {x}] = f[c] + g[(s \ {x}) \ {c}] /\ g[s \ {x}] \in Int
          <5>1. c \in s \ {x}
            BY <3>2, <3>7
          <5> QED BY <4>2, <5>1
        <4>4. g[s \ {c}] = f[x] + g[(s \ {c}) \ {x}]
          <5>1. x \in s \ {c}
            BY <3>7
          <5> QED BY <3>5, <5>1
        <4>5. (s \ {c}) \ {x} = (s \ {x}) \ {c}
          OBVIOUS
        <4>6. g[(s \ {x}) \ {c}] \in Int
          BY <1>5
        <4>7. f[c] \in Int /\ f[x] \in Int
          BY <3>2, <4>1
        <4> HIDE DEF Right
        <4>8. g[s \ {c}] = f[x] + g[(s \ {x}) \ {c}]
          BY <4>4, <4>5
        <4> QED BY <3>3, <4>3, <4>6, <4>7, <4>8
      <3>8. \A x \in s : g[s] = f[x] + g[s \ {x}]
        BY <3>3, <3>7
      <3> QED BY <1>5, <3>8
    <2> QED BY <2>2
  <1>8. \A n \in Nat : n \in N => n + 1 \in N
    BY <1>7
  <1> HIDE DEF N
  <1>9. Nat \subseteq N
    BY <1>6, <1>8, Inductive
  <1>10. \A s \in SUBSET S : Right(s)
    BY <1>1, <1>9 DEF N
  <1> QED BY <1>4, <1>10
\* Where two functions agree, so do their sums over a subset of both domains.
LEMMA AddsAgree ==
  ASSUME NEW S, NEW f, NEW g, Adds(g, f, S), NEW T, NEW h, NEW k, Adds(k, h, T),
         NEW u, IsFiniteSet(u), u \subseteq S, u \subseteq T, \A x \in u : f[x] = h[x]
  PROVE  g[u] = k[u]
  <1> DEFINE N == {n \in Nat : \A s \in SUBSET u : Cardinality(s) = n => g[s] = k[s]}
  <1>1. \A s \in SUBSET u : IsFiniteSet(s) /\ Cardinality(s) \in Nat /\ (Cardinality(s) = 0 <=> s = {})
    BY FS_Subset, FS_CardinalityType, FS_EmptySet
  <1>2. \A s \in SUBSET u : /\ g[s] = IF s = {} THEN 0 ELSE f[Chosen(s)] + g[s \ {Chosen(s)}]
                           /\ k[s] = IF s = {} THEN 0 ELSE h[Chosen(s)] + k[s \ {Chosen(s)}]
    BY DEF Adds
  <1>3. 0 \in N
    BY <1>1, <1>2
  <1>4. ASSUME NEW n \in Nat, n \in N
        PROVE  n + 1 \in N
    <2>1. ASSUME NEW s \in SUBSET u, Cardinality(s) = n + 1
          PROVE  g[s] = k[s]
      <3> DEFINE c == Chosen(s)
      <3>1. s /= {}
        BY <1>1, <2>1
      <3>2. c \in s /\ f[c] = h[c]
        BY <3>1 DEF Chosen
      <3> HIDE DEF c
      <3>3. g[s] = f[c] + g[s \ {c}] /\ k[s] = h[c] + k[s \ {c}]
        BY <1>2, <3>1 DEF c
      <3>4. s \ {c} \in SUBSET u /\ Cardinality(s \ {c}) = n
        <4>1. Cardinality(s \ {c}) = Cardinality(s) - 1
          BY <1>1, <3>2, FS_RemoveElement
        <4> QED BY <2>1, <4>1
      <3>5. g[s \ {c}] = k[s \ {c}]
        BY <1>4, <3>4
      <3> QED BY <3>2, <3>3, <3>5
    <2> QED BY <2>1
  <1>5. \A n \in Nat : n \in N => n + 1 \in N
    BY <1>4
  <1> HIDE DEF N
  <1>6. Nat \subseteq N
    BY <1>3, <1>5, Inductive
  <1> QED BY <1>1, <1>6 DEF N

\* A sum of integers is one, it is 0 over no element, and an element adds what it has.
LEMMA SumElement ==
  ASSUME NEW D, NEW f \in [D -> Int], NEW S \in SUBSET D, IsFiniteSet(S)
  PROVE  /\ SumFunctionOnSet(f, S) \in Int
         /\ \A x \in S : SumFunctionOnSet(f, S) = f[x] + SumFunctionOnSet(f, S \ {x})
         /\ S = {} => SumFunctionOnSet(f, S) = 0
  <1> DEFINE h == [x \in S |-> f[x]]
  <1>1. h \in [S -> Int] /\ \A x \in S : h[x] = f[x]
    OBVIOUS
  <1> HIDE DEF h
  <1>2. PICK g : Adds(g, h, S) /\ SumFunctionOnSet(h, S) = g[S]
    BY SumAdds
  <1>3. SumFunctionOnSet(f, S) = g[S]
    <2>1. PICK k : Adds(k, f, S) /\ SumFunctionOnSet(f, S) = k[S]
      BY SumAdds
    <2>2. g[S] = k[S]
      BY <1>1, <1>2, <2>1, AddsAgree
    <2> QED BY <2>1, <2>2
  <1>4. /\ g[{}] = 0 /\ \A s \in SUBSET S : g[s] \in Int
        /\ \A s \in SUBSET S, x \in S : x \in s => g[s] = h[x] + g[s \ {x}]
    BY <1>1, <1>2, AddsElement
  <1>5. ASSUME NEW x \in S
        PROVE  SumFunctionOnSet(f, S) = f[x] + SumFunctionOnSet(f, S \ {x})
    <2>1. IsFiniteSet(S \ {x}) /\ S \ {x} \in SUBSET S
      BY FS_Subset
    <2>2. PICK k : Adds(k, f, S \ {x}) /\ SumFunctionOnSet(f, S \ {x}) = k[S \ {x}]
      BY <2>1, SumAdds
    <2>3. g[S \ {x}] = k[S \ {x}]
      <3>1. \A y \in S \ {x} : h[y] = f[y]
        BY <1>1
      <3> QED BY <1>2, <2>1, <2>2, <3>1, AddsAgree
    <2>4. g[S] = h[x] + g[S \ {x}]
      BY <1>4
    <2> QED BY <1>1, <1>3, <2>2, <2>3, <2>4
  <1> QED BY <1>3, <1>4, <1>5

\* Functions that agree on a set have the same sum over it.
LEMMA SumAgree ==
  ASSUME NEW S, IsFiniteSet(S), NEW f, NEW h, \A x \in S : f[x] = h[x]
  PROVE  SumFunctionOnSet(f, S) = SumFunctionOnSet(h, S)
  <1>1. PICK g : Adds(g, f, S) /\ SumFunctionOnSet(f, S) = g[S]
    BY SumAdds
  <1>2. PICK k : Adds(k, h, S) /\ SumFunctionOnSet(h, S) = k[S]
    BY SumAdds
  <1>3. g[S] = k[S]
    BY <1>1, <1>2, AddsAgree
  <1> QED BY <1>1, <1>2, <1>3

\* The sum over a set is that over a part of it and that over the rest.
LEMMA SumParts ==
  ASSUME NEW D, NEW f \in [D -> Int], NEW S \in SUBSET D, IsFiniteSet(S), NEW T \in SUBSET S
  PROVE  SumFunctionOnSet(f, S) = SumFunctionOnSet(f, T) + SumFunctionOnSet(f, S \ T)
  <1> DEFINE Sum(s) == SumFunctionOnSet(f, s)
             N == {n \in Nat : \A s \in SUBSET S : Cardinality(s) = n => Sum(S) = Sum(s) + Sum(S \ s)}
  <1>1. \A s \in SUBSET S : /\ IsFiniteSet(s) /\ Cardinality(s) \in Nat
                            /\ Cardinality(s) = 0 <=> s = {}
                            /\ Sum(s) \in Int /\ (s = {} => Sum(s) = 0)
                            /\ \A x \in s : Sum(s) = f[x] + Sum(s \ {x})
    BY FS_Subset, FS_CardinalityType, FS_EmptySet, SumElement
  <1>2. 0 \in N
    <2>1. ASSUME NEW s \in SUBSET S, Cardinality(s) = 0
          PROVE  Sum(S) = Sum(s) + Sum(S \ s)
      <3>1. s = {} /\ S \ s = S /\ Sum(s) = 0 /\ Sum(S) \in Int
        BY <1>1, <2>1
      <3> HIDE DEF Sum
      <3> QED BY <3>1
    <2> QED BY <2>1
  <1>3. ASSUME NEW n \in Nat, n \in N
        PROVE  n + 1 \in N
    <2>1. ASSUME NEW s \in SUBSET S, Cardinality(s) = n + 1
          PROVE  Sum(S) = Sum(s) + Sum(S \ s)
      <3>1. PICK x \in s : TRUE
        BY <1>1, <2>1
      <3>2. /\ s \ {x} \in SUBSET S /\ Cardinality(s \ {x}) = n /\ x \in S
        BY <1>1, <2>1, FS_RemoveElement
      <3>3. Sum(S) = Sum(s \ {x}) + Sum(S \ (s \ {x}))
        BY <1>3, <3>2
      <3>4. Sum(s) = f[x] + Sum(s \ {x})
        BY <1>1
      <3>5. Sum(S \ (s \ {x})) = f[x] + Sum(S \ s)
        <4>1. S \ (s \ {x}) \in SUBSET S /\ x \in S \ (s \ {x}) /\ (S \ (s \ {x})) \ {x} = S \ s
          BY <3>2
        <4>2. Sum(S \ (s \ {x})) = f[x] + Sum((S \ (s \ {x})) \ {x})
          BY <1>1, <4>1
        <4> HIDE DEF Sum
        <4> QED BY <4>1, <4>2
      <3>6. f[x] \in Int /\ Sum(s \ {x}) \in Int /\ Sum(S \ s) \in Int
        BY <1>1, <3>2
      <3> HIDE DEF Sum
      <3> QED BY <3>3, <3>4, <3>5, <3>6
    <2> QED BY <2>1
  <1>4. \A n \in Nat : n \in N => n + 1 \in N
    BY <1>3
  <1> HIDE DEF N
  <1>5. Nat \subseteq N
    BY <1>2, <1>4, Inductive
  <1> QED BY <1>1, <1>5 DEF N
\* A sum of naturals is one.
LEMMA SumIsNatural ==
  ASSUME NEW D, NEW f \in [D -> Nat], NEW S \in SUBSET D, IsFiniteSet(S)
  PROVE  SumFunctionOnSet(f, S) \in Nat
  <1> DEFINE Sum(s) == SumFunctionOnSet(f, s)
             N == {n \in Nat : \A s \in SUBSET S : Cardinality(s) = n => Sum(s) \in Nat}
  <1>1. \A s \in SUBSET S : IsFiniteSet(s) /\ Cardinality(s) \in Nat
    BY FS_Subset, FS_CardinalityType
  <1>2. f \in [D -> Int] /\ SUBSET S \subseteq SUBSET D
    OBVIOUS
  <1>3. 0 \in N
    <2> SUFFICES ASSUME NEW s \in SUBSET S, Cardinality(s) = 0 PROVE Sum(s) \in Nat
      OBVIOUS
    <2>1. s = {} /\ IsFiniteSet(s) /\ s \in SUBSET D
      BY <1>1, FS_EmptySet
    <2>2. Sum(s) = 0
      BY <1>2, <2>1, SumElement
    <2> QED BY <2>2
  <1>4. ASSUME NEW n \in Nat, n \in N
        PROVE  n + 1 \in N
    <2> SUFFICES ASSUME NEW s \in SUBSET S, Cardinality(s) = n + 1 PROVE Sum(s) \in Nat
      OBVIOUS
    <2>1. IsFiniteSet(s) /\ s \in SUBSET D
      BY <1>1
    <2>2. s /= {}
      BY <2>1, FS_EmptySet
    <2>3. PICK x \in s : TRUE
      BY <2>2
    <2>4. Cardinality(s \ {x}) = n /\ s \ {x} \in SUBSET S
      <3>1. Cardinality(s \ {x}) = Cardinality(s) - 1
        BY <2>1, <2>3, FS_RemoveElement
      <3> HIDE DEF Sum
      <3> QED BY <3>1
    <2>5. Sum(s) = f[x] + Sum(s \ {x})
      BY <1>2, <2>1, <2>3, SumElement
    <2>6. Sum(s \ {x}) \in Nat
      BY <1>4, <2>4
    <2>7. f[x] \in Nat
      BY <2>1, <2>3
    <2> HIDE DEF Sum
    <2> QED BY <2>5, <2>6, <2>7
  <1>5. Cardinality(S) \in N
    <2>1. Cardinality(S) \in Nat
      BY <1>1
    <2> HIDE DEF N
    <2> QED BY <1>3, <1>4, <2>1, Inductive
  <1> QED BY <1>5
=============================================================================
