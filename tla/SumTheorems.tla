---------------------------- MODULE SumTheorems ----------------------------
(***************************************************************************)
(* Facts about the community modules' folds. Sums over finite sets         *)
(* (SumFunction, SumFunctionOnSet): a sum is what an element adds to the   *)
(* sum of the others, in whatever order the fold takes the elements. Folds *)
(* over lists (FoldLeft): a fold is a run, one value per position, so that *)
(* what each step preserves holds of the result. Then lists in ascending   *)
(* order, and lists that are flattened.                                    *)
(***************************************************************************)
EXTENDS Integers, Sequences, Functions, FiniteSetsExt, FiniteSetTheorems, SequenceTheorems,
        WellFoundedInduction, TLAPS

-----------------------------------------------------------------------------
(* Smallest elements, in place of induction.                               *)

\* A set of numbers has a smallest.
LEMMA SmallestNumber ==
  ASSUME NEW B \in SUBSET Nat, B # {}
  PROVE  \E n \in B : \A m \in B : n <= m
<1>1. PICK x \in B : \A y \in B : ~(<<y, x>> \in OpToRel(<, Nat))
  BY NatLessThanWellFounded, WFMin, Zenon
<1>2. ASSUME NEW y \in B PROVE x <= y
  <2>1. x \in Nat /\ y \in Nat /\ ~(y < x)
    BY <1>1 DEF OpToRel
  <2> QED BY <2>1
<1> QED BY <1>2

\* A set of finite sets has one whose proper subsets are not in it.
LEMMA SmallestSet ==
  ASSUME NEW S, IsFiniteSet(S), NEW B \in SUBSET SUBSET S, B # {}
  PROVE  \E A \in B : \A T \in SUBSET A : T # A => T \notin B
<1> DEFINE Cards == {Cardinality(A) : A \in B}
<1>1. \A A \in SUBSET S : IsFiniteSet(A) /\ Cardinality(A) \in Nat
  BY FS_Subset, FS_CardinalityType
<1>2. Cards # {} /\ Cards \in SUBSET Nat
  BY <1>1
<1>3. PICK n \in Cards : \A m \in Cards : n <= m
  <2> HIDE DEF Cards
  <2> QED BY <1>2, SmallestNumber
<1>4. PICK A \in B : Cardinality(A) = n
  OBVIOUS
<1>5. ASSUME NEW T \in SUBSET A, T # A PROVE T \notin B
  <2>1. IsFiniteSet(A) /\ Cardinality(A) \in Nat
    BY <1>1
  <2>2. Cardinality(T) \in Nat /\ Cardinality(T) <= Cardinality(A) /\ Cardinality(T) # Cardinality(A)
    BY <1>5, <2>1, FS_Subset, FS_CardinalityType
  <2>3. Cardinality(T) \notin Cards
    BY <1>3, <1>4, <2>1, <2>2
  <2> QED BY <2>3
<1> QED BY <1>5

-----------------------------------------------------------------------------
(* The fold behind a sum.                                                  *)

\* What it makes of a set, given what it makes of the smaller ones.
Folded(f, g, s) ==
  IF s = {} THEN 0 ELSE f[CHOOSE x \in s : TRUE] + g[s \ {CHOOSE x \in s : TRUE}]

Partial(f, S) == CHOOSE g : g = [s \in SUBSET S |-> Folded(f, g, s)]

\* The community modules' sum is the one of the recursive function above.
LEMMA SumIsPartial ==
  ASSUME NEW f, NEW S
  PROVE  SumFunctionOnSet(f, S) = Partial(f, S)[S]
BY DEF SumFunctionOnSet, FoldFunctionOnSet, MapThenFoldSet, Partial, Folded

\* The sums of the subsets exist.
LEMMA PartialExists ==
  ASSUME NEW S, IsFiniteSet(S), NEW f, \A x \in S : f[x] \in Int
  PROVE  /\ Partial(f, S) \in [SUBSET S -> Int]
         /\ \A s \in SUBSET S : Partial(f, S)[s] = Folded(f, Partial(f, S), s)
<1> DEFINE Small(n) == {s \in SUBSET S : Cardinality(s) <= n}
           Sums(n) == {g \in [Small(n) -> Int] : \A s \in Small(n) : g[s] = Folded(f, g, s)}
           Bad == {n \in Nat : Sums(n) = {}}
<1>1. \A s \in SUBSET S : IsFiniteSet(s) /\ Cardinality(s) \in Nat
  BY FS_Subset, FS_CardinalityType
<1>2. Bad = {}
  <2> SUFFICES ASSUME Bad # {} PROVE FALSE
    OBVIOUS
  <2>1. PICK n \in Bad : \A m \in Bad : n <= m
    <3>1. Bad \in SUBSET Nat
      OBVIOUS
    <3> HIDE DEF Bad
    <3> QED BY <3>1, SmallestNumber
  <2>2. CASE n = 0
    <3>1. \A s \in Small(0) : s = {}
      BY <1>1, FS_EmptySet
    <3>2. [s \in Small(0) |-> 0] \in Sums(0)
      BY <3>1 DEF Folded
    <3> QED BY <2>2, <3>2
  <2>3. CASE n # 0
    <3>1. n - 1 \in Nat /\ n - 1 \notin Bad
      BY <2>1, <2>3
    <3>2. PICK g \in Sums(n - 1) : TRUE
      BY <3>1
    <3> DEFINE h == [s \in Small(n) |-> Folded(f, g, s)]
    <3>3. ASSUME NEW s \in Small(n), s # {}
          PROVE  /\ (CHOOSE x \in s : TRUE) \in S
                 /\ s \ {CHOOSE x \in s : TRUE} \in Small(n - 1)
      <4> DEFINE y == CHOOSE x \in s : TRUE
      <4>1. y \in s
        BY <3>3
      <4> HIDE DEF y
      <4>2. Cardinality(s \ {y}) = Cardinality(s) - 1
        BY <1>1, <4>1, FS_RemoveElement
      <4>3. Cardinality(s) <= n /\ s \in SUBSET S /\ Cardinality(s) \in Nat
        BY <1>1
      <4> QED BY <3>1, <4>1, <4>2, <4>3 DEF y
    <3>4. ASSUME NEW s \in Small(n) PROVE h[s] = Folded(f, g, s) /\ h[s] \in Int
      <4>1. CASE s = {}
        BY <4>1 DEF Folded
      <4>2. CASE s # {}
        <5>1. f[CHOOSE x \in s : TRUE] \in Int /\ g[s \ {CHOOSE x \in s : TRUE}] \in Int
          BY <3>2, <3>3, <4>2
        <5> QED BY <4>2, <5>1 DEF Folded
      <4> QED BY <4>1, <4>2
    <3>5. \A s \in Small(n - 1) : s \in Small(n) /\ h[s] = g[s]
      <4>1. \A s \in Small(n - 1) : s \in Small(n)
        BY <1>1, <3>1
      <4> QED BY <3>2, <3>4, <4>1
    <3>6. ASSUME NEW s \in Small(n) PROVE h[s] = Folded(f, h, s)
      <4>1. CASE s = {}
        BY <3>4, <4>1 DEF Folded
      <4>2. CASE s # {}
        <5>1. h[s \ {CHOOSE x \in s : TRUE}] = g[s \ {CHOOSE x \in s : TRUE}]
          BY <3>3, <3>5, <4>2
        <5> HIDE DEF h
        <5> QED BY <3>4, <4>2, <5>1 DEF Folded
      <4> QED BY <4>1, <4>2
    <3>7. h \in Sums(n)
      <4>1. h \in [Small(n) -> Int]
        BY <3>4
      <4> HIDE DEF h
      <4> QED BY <3>6, <4>1
    <3> QED BY <3>7
  <2> QED BY <2>2, <2>3
<1>3. Cardinality(S) \in Nat /\ Small(Cardinality(S)) = SUBSET S
  BY <1>1, FS_Subset
<1>4. PICK g \in Sums(Cardinality(S)) : TRUE
  BY <1>2, <1>3
<1>5. g \in [SUBSET S -> Int] /\ \A s \in SUBSET S : g[s] = Folded(f, g, s)
  BY <1>3, <1>4
<1>6. g = [s \in SUBSET S |-> Folded(f, g, s)]
  BY <1>5
<1> DEFINE p == Partial(f, S)
<1>7. p = [s \in SUBSET S |-> Folded(f, p, s)]
  BY <1>6 DEF Partial
<1> HIDE DEF p
<1>8. p \in [SUBSET S -> Int]
  <2> DEFINE Wrong == {s \in SUBSET S : p[s] # g[s]}
  <2>1. Wrong = {}
    <3> SUFFICES ASSUME Wrong # {} PROVE FALSE
      OBVIOUS
    <3>1. PICK A \in Wrong : \A T \in SUBSET A : T # A => T \notin Wrong
      <4>1. Wrong \in SUBSET SUBSET S
        OBVIOUS
      <4> HIDE DEF Wrong
      <4> QED BY <4>1, SmallestSet
    <3>2. p[A] = Folded(f, p, A) /\ g[A] = Folded(f, g, A) /\ A \in SUBSET S
      BY <1>5, <1>7
    <3>3. CASE A = {}
      BY <3>2, <3>3 DEF Folded
    <3>4. CASE A # {}
      <4> DEFINE T == A \ {CHOOSE x \in A : TRUE}
      <4>1. T \in SUBSET A /\ T # A
        BY <3>4
      <4>2. p[T] = g[T]
        BY <3>1, <3>2, <4>1
      <4> QED BY <3>1, <3>2, <3>4, <4>2 DEF Folded
    <3> QED BY <3>3, <3>4
  <2>2. \A s \in SUBSET S : p[s] \in Int
    BY <1>5, <2>1
  <2> QED BY <1>7, <2>2
<1>9. \A s \in SUBSET S : p[s] = Folded(f, p, s)
  BY <1>7
<1> QED BY <1>8, <1>9 DEF p

-----------------------------------------------------------------------------
(* Sums.                                                                   *)

\* The empty sum is zero.
LEMMA SumOfEmpty == ASSUME NEW f PROVE SumFunctionOnSet(f, {}) = 0
<1>1. IsFiniteSet({}) /\ \A x \in {} : f[x] \in Int
  BY FS_EmptySet
<1>2. {} \in SUBSET {}
  OBVIOUS
<1>3. Partial(f, {})[{}] = Folded(f, Partial(f, {}), {})
  BY <1>1, <1>2, PartialExists
<1> QED BY <1>3, SumIsPartial DEF Folded

\* A sum of integers is an integer.
LEMMA SumType ==
  ASSUME NEW S, IsFiniteSet(S), NEW f, \A x \in S : f[x] \in Int
  PROVE  SumFunctionOnSet(f, S) \in Int
BY PartialExists, SumIsPartial

\* The sums of the subsets do not depend on the set whose subsets they are.
LEMMA PartialOfPart ==
  ASSUME NEW S, IsFiniteSet(S), NEW f, \A x \in S : f[x] \in Int, NEW T \in SUBSET S
  PROVE  SumFunctionOnSet(f, T) = Partial(f, S)[T]
<1> DEFINE p == Partial(f, S)
           q == Partial(f, T)
           Wrong == {s \in SUBSET T : q[s] # p[s]}
<1>1. IsFiniteSet(T) /\ \A x \in T : f[x] \in Int
  BY FS_Subset
<1>2. \A s \in SUBSET T : q[s] = Folded(f, q, s) /\ p[s] = Folded(f, p, s)
  BY <1>1, PartialExists
<1> HIDE DEF p, q
<1>3. Wrong = {}
  <2> SUFFICES ASSUME Wrong # {} PROVE FALSE
    OBVIOUS
  <2>1. PICK A \in Wrong : \A U \in SUBSET A : U # A => U \notin Wrong
    <3>1. Wrong \in SUBSET SUBSET T
      OBVIOUS
    <3> HIDE DEF Wrong
    <3> QED BY <1>1, <3>1, SmallestSet
  <2>2. CASE A = {}
    BY <1>2, <2>2 DEF Folded
  <2>3. CASE A # {}
    <3> DEFINE U == A \ {CHOOSE x \in A : TRUE}
    <3>1. U \in SUBSET A /\ U # A
      BY <2>3
    <3>2. q[U] = p[U]
      BY <2>1, <3>1
    <3>3. Folded(f, q, A) = Folded(f, p, A)
      BY <2>3, <3>2 DEF Folded
    <3> QED BY <1>2, <2>1, <3>3
  <2> QED BY <2>2, <2>3
<1>4. q[T] = p[T]
  BY <1>3
<1> QED BY <1>4, SumIsPartial DEF p, q

\* Any element can be taken out.
LEMMA SumWithout ==
  ASSUME NEW S, IsFiniteSet(S), NEW f, \A x \in S : f[x] \in Int, NEW w \in S
  PROVE  SumFunctionOnSet(f, S) = f[w] + SumFunctionOnSet(f, S \ {w})
<1> DEFINE p == Partial(f, S)
           Wrong == {s \in SUBSET S : \E y \in s : p[s] # f[y] + p[s \ {y}]}
<1>1. p \in [SUBSET S -> Int] /\ \A s \in SUBSET S : p[s] = Folded(f, p, s)
  BY PartialExists
<1> HIDE DEF p
<1>2. Wrong = {}
  <2> SUFFICES ASSUME Wrong # {} PROVE FALSE
    OBVIOUS
  <2>1. PICK A \in Wrong : \A U \in SUBSET A : U # A => U \notin Wrong
    <3>1. Wrong \in SUBSET SUBSET S
      OBVIOUS
    <3> HIDE DEF Wrong
    <3> QED BY <3>1, SmallestSet
  <2>2. PICK y \in A : p[A] # f[y] + p[A \ {y}]
    OBVIOUS
  <2> DEFINE x == CHOOSE z \in A : TRUE
  <2>3. x \in A /\ A \in SUBSET S /\ p[A] = f[x] + p[A \ {x}]
    BY <1>1, <2>2 DEF Folded
  <2> HIDE DEF x
  <2>4. x # y
    BY <2>2, <2>3
  <2>5. p[A \ {x}] = f[y] + p[(A \ {x}) \ {y}]
    <3>1. A \ {x} \in SUBSET A /\ A \ {x} # A /\ y \in A \ {x} /\ A \ {x} \in SUBSET S
      BY <2>2, <2>3, <2>4
    <3> QED BY <2>1, <3>1
  <2>6. p[A \ {y}] = f[x] + p[(A \ {y}) \ {x}]
    <3>1. A \ {y} \in SUBSET A /\ A \ {y} # A /\ x \in A \ {y} /\ A \ {y} \in SUBSET S
      BY <2>2, <2>3, <2>4
    <3> QED BY <2>1, <3>1
  <2>7. (A \ {x}) \ {y} = (A \ {y}) \ {x}
    OBVIOUS
  <2>8. f[x] \in Int /\ f[y] \in Int /\ p[(A \ {y}) \ {x}] \in Int
    <3>1. (A \ {y}) \ {x} \in SUBSET S /\ x \in S /\ y \in S
      BY <2>2, <2>3
    <3> QED BY <1>1, <3>1
  <2> DEFINE rest == p[(A \ {y}) \ {x}]
  <2>9. rest \in Int /\ p[A] = f[x] + (f[y] + rest) /\ p[A \ {y}] = f[x] + rest
    BY <2>3, <2>5, <2>6, <2>7, <2>8
  <2> HIDE DEF rest
  <2> QED BY <2>2, <2>8, <2>9
<1>3. p[S] = f[w] + p[S \ {w}]
  BY <1>2
<1>4. SumFunctionOnSet(f, S) = p[S] /\ SumFunctionOnSet(f, S \ {w}) = p[S \ {w}]
  BY PartialOfPart DEF p
<1> QED BY <1>3, <1>4

\* Only the values matter.
LEMMA SumOfEqual ==
  ASSUME NEW S, IsFiniteSet(S), NEW f, NEW g, \A x \in S : f[x] \in Int /\ g[x] = f[x]
  PROVE  SumFunctionOnSet(g, S) = SumFunctionOnSet(f, S)
<1> DEFINE Wrong == {s \in SUBSET S : SumFunctionOnSet(g, s) # SumFunctionOnSet(f, s)}
<1>1. Wrong = {}
  <2> SUFFICES ASSUME Wrong # {} PROVE FALSE
    OBVIOUS
  <2>1. PICK A \in Wrong : \A U \in SUBSET A : U # A => U \notin Wrong
    <3>1. Wrong \in SUBSET SUBSET S
      OBVIOUS
    <3> HIDE DEF Wrong
    <3> QED BY <3>1, SmallestSet
  <2>2. CASE A = {}
    BY <2>1, <2>2, SumOfEmpty
  <2>3. CASE A # {}
    <3>1. PICK x \in A : TRUE
      BY <2>3
    <3>2. SumFunctionOnSet(g, A \ {x}) = SumFunctionOnSet(f, A \ {x})
      BY <2>1, <3>1
    <3>3. IsFiniteSet(A) /\ \A y \in A : f[y] \in Int /\ g[y] = f[y] /\ g[y] \in Int
      BY FS_Subset
    <3>4. /\ SumFunctionOnSet(f, A) = f[x] + SumFunctionOnSet(f, A \ {x})
          /\ SumFunctionOnSet(g, A) = g[x] + SumFunctionOnSet(g, A \ {x})
      BY <3>1, <3>3, SumWithout
    <3> QED BY <2>1, <3>2, <3>3, <3>4
  <2> QED BY <2>2, <2>3
<1> QED BY <1>1

\* A change of one value changes the sum by as much.
LEMMA SumOfChanged ==
  ASSUME NEW S, IsFiniteSet(S), NEW f, NEW g, NEW w \in S,
         \A x \in S : f[x] \in Int /\ g[x] \in Int,
         \A x \in S \ {w} : g[x] = f[x]
  PROVE  SumFunctionOnSet(g, S) = SumFunctionOnSet(f, S) + (g[w] - f[w])
<1>1. IsFiniteSet(S \ {w})
  BY FS_RemoveElement
<1>2. /\ SumFunctionOnSet(f, S) = f[w] + SumFunctionOnSet(f, S \ {w})
      /\ SumFunctionOnSet(g, S) = g[w] + SumFunctionOnSet(g, S \ {w})
  BY SumWithout
<1>3. SumFunctionOnSet(g, S \ {w}) = SumFunctionOnSet(f, S \ {w})
  BY <1>1, SumOfEqual
<1>4. SumFunctionOnSet(f, S \ {w}) \in Int
  BY <1>1, SumType
<1> QED BY <1>2, <1>3, <1>4

\* Smaller values have a smaller sum.
LEMMA SumMonotonic ==
  ASSUME NEW S, IsFiniteSet(S), NEW f, NEW g,
         \A x \in S : f[x] \in Int /\ g[x] \in Int /\ f[x] <= g[x]
  PROVE  SumFunctionOnSet(f, S) <= SumFunctionOnSet(g, S)
<1> DEFINE Wrong == {s \in SUBSET S : ~(SumFunctionOnSet(f, s) <= SumFunctionOnSet(g, s))}
<1>1. Wrong = {}
  <2> SUFFICES ASSUME Wrong # {} PROVE FALSE
    OBVIOUS
  <2>1. PICK A \in Wrong : \A U \in SUBSET A : U # A => U \notin Wrong
    <3>1. Wrong \in SUBSET SUBSET S
      OBVIOUS
    <3> HIDE DEF Wrong
    <3> QED BY <3>1, SmallestSet
  <2>2. CASE A = {}
    BY <2>1, <2>2, SumOfEmpty
  <2>3. CASE A # {}
    <3>1. PICK x \in A : TRUE
      BY <2>3
    <3>2. SumFunctionOnSet(f, A \ {x}) <= SumFunctionOnSet(g, A \ {x})
      BY <2>1, <3>1
    <3>3. IsFiniteSet(A) /\ IsFiniteSet(A \ {x}) /\ A \in SUBSET S
      BY FS_Subset
    <3>4. /\ SumFunctionOnSet(f, A) = f[x] + SumFunctionOnSet(f, A \ {x})
          /\ SumFunctionOnSet(g, A) = g[x] + SumFunctionOnSet(g, A \ {x})
      BY <3>1, <3>3, SumWithout
    <3>5. SumFunctionOnSet(f, A \ {x}) \in Int /\ SumFunctionOnSet(g, A \ {x}) \in Int
      BY <3>3, SumType
    <3>6. f[x] \in Int /\ g[x] \in Int /\ f[x] <= g[x]
      BY <3>1, <3>3
    <3> QED BY <2>1, <3>2, <3>4, <3>5, <3>6
  <2> QED BY <2>2, <2>3
<1> QED BY <1>1

\* Nothing adds up to nothing.
LEMMA SumOfZeros ==
  ASSUME NEW S, IsFiniteSet(S), NEW f, \A x \in S : f[x] = 0
  PROVE  SumFunctionOnSet(f, S) = 0
<1> DEFINE Wrong == {s \in SUBSET S : SumFunctionOnSet(f, s) # 0}
<1>1. Wrong = {}
  <2> SUFFICES ASSUME Wrong # {} PROVE FALSE
    OBVIOUS
  <2>1. PICK A \in Wrong : \A U \in SUBSET A : U # A => U \notin Wrong
    <3>1. Wrong \in SUBSET SUBSET S
      OBVIOUS
    <3> HIDE DEF Wrong
    <3> QED BY <3>1, SmallestSet
  <2>2. CASE A = {}
    BY <2>1, <2>2, SumOfEmpty
  <2>3. CASE A # {}
    <3>1. PICK x \in A : TRUE
      BY <2>3
    <3>2. SumFunctionOnSet(f, A \ {x}) = 0
      BY <2>1, <3>1
    <3>3. SumFunctionOnSet(f, A) = f[x] + SumFunctionOnSet(f, A \ {x})
      <4>1. IsFiniteSet(A) /\ \A y \in A : f[y] \in Int
        BY FS_Subset
      <4> QED BY <3>1, <4>1, SumWithout
    <3> QED BY <2>1, <3>1, <3>2, <3>3
  <2> QED BY <2>2, <2>3
<1> QED BY <1>1

-----------------------------------------------------------------------------
(* Sums of lists.                                                          *)

\* The last entry adds itself.
LEMMA SumOfPrefix ==
  ASSUME NEW n \in Nat, NEW f, \A i \in 1 .. (n + 1) : f[i] \in Int
  PROVE  SumFunctionOnSet(f, 1 .. (n + 1)) = SumFunctionOnSet(f, 1 .. n) + f[n + 1]
<1>1. IsFiniteSet(1 .. (n + 1)) /\ IsFiniteSet(1 .. n)
  BY FS_Interval
<1>2. (1 .. (n + 1)) \ {n + 1} = 1 .. n /\ n + 1 \in 1 .. (n + 1)
  OBVIOUS
<1>3. SumFunctionOnSet(f, 1 .. (n + 1)) = f[n + 1] + SumFunctionOnSet(f, 1 .. n)
  BY <1>1, <1>2, SumWithout
<1>4. SumFunctionOnSet(f, 1 .. n) \in Int /\ f[n + 1] \in Int
  BY <1>1, <1>2, SumType
<1> QED BY <1>3, <1>4

\* A list with an entry more at its end.
LEMMA SumOfLonger ==
  ASSUME NEW n \in Nat, NEW f, NEW g, DOMAIN f = 1 .. n, DOMAIN g = 1 .. (n + 1),
         \A i \in 1 .. n : f[i] \in Int /\ g[i] = f[i], g[n + 1] \in Int
  PROVE  SumFunction(g) = SumFunction(f) + g[n + 1]
<1>1. \A i \in 1 .. (n + 1) : g[i] \in Int
  OBVIOUS
<1>2. IsFiniteSet(1 .. n)
  BY FS_Interval
<1>3. SumFunctionOnSet(g, 1 .. n) = SumFunctionOnSet(f, 1 .. n)
  BY <1>2, SumOfEqual
<1>4. SumFunctionOnSet(g, 1 .. (n + 1)) = SumFunctionOnSet(f, 1 .. n) + g[n + 1]
  BY <1>1, <1>3, SumOfPrefix
<1>5. SumFunction(f) = SumFunctionOnSet(f, 1 .. n)
  BY Zenon DEF SumFunction
<1>6. SumFunction(g) = SumFunctionOnSet(g, 1 .. (n + 1))
  BY Zenon DEF SumFunction
<1> QED BY <1>4, <1>5, <1>6

\* A list without its entry j.
LEMMA SumOfShorter ==
  ASSUME NEW n \in Nat, NEW j \in 1 .. n, NEW f, NEW g,
         DOMAIN f = 1 .. n, DOMAIN g = 1 .. (n - 1), \A i \in 1 .. n : f[i] \in Int,
         \A i \in 1 .. (n - 1) : g[i] = IF i < j THEN f[i] ELSE f[i + 1]
  PROVE  SumFunction(g) = SumFunction(f) - f[j]
<1> DEFINE F(k) == SumFunctionOnSet(f, 1 .. k)
           G(k) == SumFunctionOnSet(g, 1 .. k)
           Wrong == {k \in j .. n : G(k - 1) # F(k) - f[j]}
<1>1. /\ \A k \in 0 .. n : IsFiniteSet(1 .. k) /\ F(k) \in Int
      /\ \A k \in 0 .. (n - 1) : F(k + 1) = F(k) + f[k + 1]
  <2>1. ASSUME NEW k \in 0 .. n PROVE IsFiniteSet(1 .. k) /\ \A i \in 1 .. k : f[i] \in Int
    <3>1. 1 \in Int /\ k \in Int /\ 1 .. k \subseteq 1 .. n
      OBVIOUS
    <3> QED BY <3>1, FS_Interval
  <2>2. ASSUME NEW k \in 0 .. n PROVE F(k) \in Int
    BY <2>1, SumType
  <2>3. ASSUME NEW k \in 0 .. (n - 1) PROVE F(k + 1) = F(k) + f[k + 1]
    <3>1. k \in Nat /\ \A i \in 1 .. (k + 1) : f[i] \in Int
      OBVIOUS
    <3> QED BY <3>1, SumOfPrefix
  <2> QED BY <2>1, <2>2, <2>3
<1>2. \A i \in 1 .. (n - 1) : g[i] \in Int
  OBVIOUS
<1>3. \A k \in 0 .. (n - 2) : G(k + 1) = G(k) + g[k + 1]
  <2>1. ASSUME NEW k \in 0 .. (n - 2) PROVE G(k + 1) = G(k) + g[k + 1]
    <3>1. k \in Nat /\ \A i \in 1 .. (k + 1) : g[i] \in Int
      BY <1>2
    <3> QED BY <3>1, SumOfPrefix
  <2> QED BY <2>1
<1>4. G(j - 1) = F(j) - f[j]
  <2>1. IsFiniteSet(1 .. (j - 1)) /\ \A i \in 1 .. (j - 1) : f[i] \in Int /\ g[i] = f[i]
    <3>1. j - 1 \in 0 .. n
      OBVIOUS
    <3>2. IsFiniteSet(1 .. (j - 1))
      BY <1>1, <3>1
    <3>3. ASSUME NEW i \in 1 .. (j - 1) PROVE f[i] \in Int /\ g[i] = f[i]
      <4>1. i \in 1 .. n /\ i \in 1 .. (n - 1) /\ i < j
        OBVIOUS
      <4> QED BY <4>1
    <3> QED BY <3>2, <3>3
  <2>2. G(j - 1) = F(j - 1)
    BY <2>1, SumOfEqual
  <2>3. j - 1 \in 0 .. (n - 1) /\ (j - 1) + 1 = j /\ f[j] \in Int
    OBVIOUS
  <2>4. F(j) = F(j - 1) + f[j] /\ F(j - 1) \in Int
    <3>1. F((j - 1) + 1) = F(j - 1) + f[(j - 1) + 1]
      BY <1>1, <2>3
    <3> QED BY <1>1, <2>3, <3>1
  <2> HIDE DEF F, G
  <2> QED BY <2>2, <2>3, <2>4
<1> HIDE DEF F, G
<1>5. Wrong = {}
  <2> SUFFICES ASSUME Wrong # {} PROVE FALSE
    OBVIOUS
  <2>1. PICK k \in Wrong : \A m \in Wrong : k <= m
    <3>1. Wrong \in SUBSET Nat
      OBVIOUS
    <3> HIDE DEF Wrong
    <3> QED BY <3>1, SmallestNumber
  <2>2. k # j /\ k \in j .. n
    BY <1>4
  <2>3. k - 1 \in j .. n /\ k - 1 \notin Wrong
    BY <2>1, <2>2
  <2>4. G(k - 2) = F(k - 1) - f[j]
    <3>1. (k - 1) - 1 = k - 2
      BY <2>2
    <3> QED BY <2>3, <3>1
  <2>5. G(k - 1) = G(k - 2) + g[k - 1]
    <3>1. k - 2 \in 0 .. (n - 2) /\ (k - 2) + 1 = k - 1
      BY <2>2
    <3> QED BY <1>3, <3>1
  <2>6. F(k) = F(k - 1) + f[k] /\ F(k - 1) \in Int
    <3>1. k - 1 \in 0 .. (n - 1) /\ (k - 1) + 1 = k /\ k - 1 \in 0 .. n
      BY <2>2
    <3> QED BY <1>1, <3>1
  <2>7. g[k - 1] = f[k]
    <3>1. k - 1 \in 1 .. (n - 1) /\ ~(k - 1 < j) /\ (k - 1) + 1 = k
      BY <2>2, <2>3
    <3> QED BY <3>1
  <2>8. f[k] \in Int /\ f[j] \in Int
    BY <2>2
  <2>9. G(k - 1) = F(k) - f[j]
    BY <2>4, <2>5, <2>6, <2>7, <2>8
  <2> QED BY <2>9
<1>6. G(n - 1) = F(n) - f[j]
  <2>1. n \in j .. n
    OBVIOUS
  <2> QED BY <1>5, <2>1
<1>7. SumFunction(f) = F(n)
  BY Zenon DEF SumFunction, F
<1>8. SumFunction(g) = G(n - 1)
  BY Zenon DEF SumFunction, G
<1> QED BY <1>6, <1>7, <1>8

\* A list of numbers has a sum, and what is left of a list without an entry.
LEMMA SumOfList ==
  ASSUME NEW n \in Nat, NEW f, DOMAIN f = 1 .. n, \A i \in 1 .. n : f[i] \in Int
  PROVE  SumFunction(f) \in Int /\ ((\A i \in 1 .. n : f[i] = 0) => SumFunction(f) = 0)
<1>1. IsFiniteSet(1 .. n)
  BY FS_Interval
<1>2. SumFunctionOnSet(f, 1 .. n) \in Int
  BY <1>1, SumType
<1>3. (\A i \in 1 .. n : f[i] = 0) => SumFunctionOnSet(f, 1 .. n) = 0
  BY <1>1, SumOfZeros
<1>4. SumFunction(f) = SumFunctionOnSet(f, 1 .. n)
  BY Zenon DEF SumFunction
<1> QED BY <1>2, <1>3, <1>4

\* What is left of a sequence without its entry j.
LEMMA WithoutEntry ==
  ASSUME NEW S, NEW s \in Seq(S), NEW j \in DOMAIN s
  PROVE  LET t == SubSeq(s, 1, j - 1) \o SubSeq(s, j + 1, Len(s))
         IN  /\ t \in Seq(S) /\ Len(t) = Len(s) - 1
             /\ \A i \in 1 .. (Len(s) - 1) : t[i] = IF i < j THEN s[i] ELSE s[i + 1]
<1> DEFINE n == Len(s)
           a == SubSeq(s, 1, j - 1)
           b == SubSeq(s, j + 1, n)
<1>1. n \in Nat /\ j \in 1 .. n
  BY LenProperties
<1>2. a \in Seq(S) /\ Len(a) = j - 1 /\ \A i \in 1 .. (j - 1) : a[i] = s[i]
  BY <1>1, SubSeqProperties
<1>3. b \in Seq(S) /\ Len(b) = n - j /\ \A i \in 1 .. (n - j) : b[i] = s[j + i]
  <2>1. b \in Seq(S) /\ Len(b) = IF j + 1 <= n THEN n - (j + 1) + 1 ELSE 0
    BY <1>1, SubSeqProperties
  <2>2. \A i \in 1 .. (n - j) : b[i] = s[(j + 1) + i - 1]
    BY <1>1, SubSeqProperties
  <2> QED BY <1>1, <2>1, <2>2
<1> HIDE DEF a, b, n
<1>4. /\ a \o b \in Seq(S) /\ Len(a \o b) = n - 1
      /\ \A i \in 1 .. (n - 1) : (a \o b)[i] = IF i <= j - 1 THEN a[i] ELSE b[i - (j - 1)]
  <2>1. /\ a \o b \in Seq(S) /\ Len(a \o b) = Len(a) + Len(b)
        /\ \A i \in 1 .. (Len(a) + Len(b)) :
             (a \o b)[i] = IF i <= Len(a) THEN a[i] ELSE b[i - Len(a)]
    BY <1>2, <1>3, ConcatProperties
  <2>2. Len(a) + Len(b) = n - 1
    BY <1>1, <1>2, <1>3
  <2> QED BY <1>2, <2>1, <2>2
<1>5. ASSUME NEW i \in 1 .. (n - 1)
      PROVE  (a \o b)[i] = IF i < j THEN s[i] ELSE s[i + 1]
  <2>1. CASE i < j
    BY <1>1, <1>2, <1>4, <2>1
  <2>2. CASE ~(i < j)
    <3>1. i - (j - 1) \in 1 .. (n - j) /\ j + (i - (j - 1)) = i + 1 /\ ~(i <= j - 1)
      BY <1>1, <2>2
    <3> QED BY <1>3, <1>4, <2>2, <3>1
  <2> QED BY <2>1, <2>2
<1> QED BY <1>4, <1>5 DEF a, b, n

-----------------------------------------------------------------------------
(* Steps along a list, in place of induction.                              *)

\* What holds of 0, and of every number up to n if it does of the one before, holds of
\* all of them.
LEMMA StepByStep ==
  ASSUME NEW n \in Nat, NEW B, 0 \in B, \A i \in 1 .. n : i - 1 \in B => i \in B
  PROVE  \A i \in 0 .. n : i \in B
<1> DEFINE Bad == {i \in 0 .. n : i \notin B}
<1>1. SUFFICES ASSUME Bad # {} PROVE FALSE
  OBVIOUS
<1>2. PICK i \in Bad : \A j \in Bad : i <= j
  <2>1. Bad \in SUBSET Nat
    OBVIOUS
  <2> HIDE DEF Bad
  <2> QED BY <1>1, <2>1, SmallestNumber
<1>3. i \in 1 .. n /\ i - 1 \in 0 .. n /\ ~(i <= i - 1)
  OBVIOUS
<1>4. i - 1 \notin Bad
  BY <1>2, <1>3
<1> QED BY <1>3, <1>4

-----------------------------------------------------------------------------
(* Folds over lists.                                                       *)

\* The greatest of some numbers.
LEMMA GreatestIs ==
  ASSUME NEW s \in SUBSET Nat, NEW i \in s, \A j \in s : j <= i
  PROVE  Max(s) = i
<1>1. \A k \in s : (\A j \in s : j <= k) => k = i
  OBVIOUS
<1> QED BY <1>1 DEF Max

\* A set of positions that is not empty has a greatest.
LEMMA GreatestExists ==
  ASSUME NEW n \in Nat, NEW s \in SUBSET (1 .. n), s # {}
  PROVE  Max(s) \in s /\ \A j \in s : j <= Max(s)
<1> DEFINE B == {n - i : i \in s}
<1>1. B \in SUBSET Nat /\ B # {}
  <2>1. \A i \in s : n - i \in Nat
    OBVIOUS
  <2>2. B \in SUBSET Nat
    BY <2>1
  <2> QED BY <2>2
<1>2. PICK m \in B : \A k \in B : m <= k
  <2> HIDE DEF B
  <2> QED BY <1>1, SmallestNumber
<1>3. PICK i \in s : m = n - i
  BY <1>2
<1>4. ASSUME NEW j \in s PROVE j <= i
  <2>1. n - j \in B
    OBVIOUS
  <2>2. m <= n - j
    BY <1>2, <2>1
  <2> QED BY <1>3, <2>2
<1>5. Max(s) = i
  <2>1. s \in SUBSET Nat
    OBVIOUS
  <2> QED BY <1>4, <2>1, GreatestIs
<1> QED BY <1>4, <1>5

\* The function behind a fold over a list exists: step takes a position and what the
\* ones before it have made, both within V.
Behind(h, base, step, s) == IF s = {} THEN base ELSE step[<<Max(s), h[s \ {Max(s)}]>>]

Folding(h, n, V, base, step) ==
  /\ h \in [SUBSET (1 .. n) -> V]
  /\ \A s \in SUBSET (1 .. n) : h[s] = Behind(h, base, step, s)

\* A fold over positions 1 to n has the value its recursion asks for.
LEMMA FoldExists ==
  ASSUME NEW n \in Nat, NEW V, NEW base \in V, NEW step \in [(1 .. n) \X V -> V]
  PROVE  \E h : Folding(h, n, V, base, step)
<1> DEFINE B == {i \in 0 .. n : \E h : Folding(h, i, V, base, step)}
<1>1. 0 \in B
  <2> DEFINE h == [s \in SUBSET (1 .. 0) |-> base]
  <2>1. \A s \in SUBSET (1 .. 0) : s = {}
    OBVIOUS
  <2>2. h \in [SUBSET (1 .. 0) -> V] /\ \A s \in SUBSET (1 .. 0) : h[s] = base
    OBVIOUS
  <2> HIDE DEF h
  <2>3. \A s \in SUBSET (1 .. 0) : h[s] = Behind(h, base, step, s)
    <3> TAKE s \in SUBSET (1 .. 0)
    <3>1. s = {} /\ h[s] = base
      BY <2>1, <2>2
    <3> QED BY <3>1, Zenon DEF Behind
  <2>4. Folding(h, 0, V, base, step)
    BY <2>2, <2>3 DEF Folding
  <2> QED BY <2>4
<1>2. ASSUME NEW i \in 1 .. n, i - 1 \in B PROVE i \in B
  <2>1. PICK h : Folding(h, i - 1, V, base, step)
    BY <1>2
  <2>2. h \in [SUBSET (1 .. (i - 1)) -> V]
        /\ \A s \in SUBSET (1 .. (i - 1)) : h[s] = Behind(h, base, step, s)
    BY <2>1 DEF Folding
  <2> DEFINE g == [s \in SUBSET (1 .. i) |-> IF i \in s THEN step[<<i, h[s \ {i}]>>] ELSE h[s]]
  <2>3. ASSUME NEW s \in SUBSET (1 .. i), i \in s
        PROVE  g[s] \in V /\ g[s] = Behind(g, base, step, s)
    <3>1. s \ {i} \in SUBSET (1 .. (i - 1)) /\ s \ {i} \in SUBSET (1 .. i) /\ i \notin s \ {i}
      OBVIOUS
    <3>2. Max(s) = i
      BY <2>3, GreatestIs
    <3>3. g[s] = step[<<i, h[s \ {i}]>>] /\ g[s \ {i}] = h[s \ {i}] /\ h[s \ {i}] \in V
      BY <2>2, <2>3, <3>1
    <3>4. step[<<i, h[s \ {i}]>>] \in V
      BY <3>3
    <3> HIDE DEF g
    <3> QED BY <2>3, <3>2, <3>3, <3>4 DEF Behind
  <2>4. ASSUME NEW s \in SUBSET (1 .. i), i \notin s
        PROVE  g[s] \in V /\ g[s] = Behind(g, base, step, s)
    <3>1. s \in SUBSET (1 .. (i - 1)) /\ s \ {Max(s)} \in SUBSET (1 .. (i - 1))
          /\ s \ {Max(s)} \in SUBSET (1 .. i) /\ i \notin s \ {Max(s)}
      <4>1. \A j \in 1 .. i : j # i => j \in 1 .. (i - 1)
        OBVIOUS
      <4>2. \A j \in s : j \in 1 .. i /\ j # i
        BY <2>4
      <4>3. s \in SUBSET (1 .. (i - 1))
        BY <4>1, <4>2
      <4> QED BY <2>4, <4>3
    <3>2. g[s] = h[s] /\ g[s \ {Max(s)}] = h[s \ {Max(s)}] /\ h[s] \in V
      BY <2>2, <2>4, <3>1
    <3> HIDE DEF g
    <3> QED BY <2>2, <3>1, <3>2 DEF Behind
  <2>5. Folding(g, i, V, base, step)
    <3>1. g \in [SUBSET (1 .. i) -> V]
      BY <2>3, <2>4
    <3>2. \A s \in SUBSET (1 .. i) : g[s] = Behind(g, base, step, s)
      <4> HIDE DEF g
      <4> QED BY <2>3, <2>4
    <3> HIDE DEF g
    <3> QED BY <3>1, <3>2 DEF Folding
  <2> QED BY <2>5
<1>3. n \in B
  <2> HIDE DEF B
  <2>1. \A i \in 0 .. n : i \in B
    BY <1>1, <1>2, StepByStep
  <2> QED BY <2>1
<1> QED BY <1>3

\* It makes a run: one value per position, each from the one before.
Running(r, n, V, base, step) ==
  /\ r \in [0 .. n -> V] /\ r[0] = base
  /\ \A i \in 1 .. n : r[i] = step[<<i, r[i - 1]>>]

\* Read along its prefixes, a fold is a run: each value is one step from the last.
LEMMA FoldRuns ==
  ASSUME NEW n \in Nat, NEW V, NEW base \in V, NEW step \in [(1 .. n) \X V -> V],
         NEW g, g[{}] = base,
         \A s \in SUBSET (1 .. n) : s # {} /\ g[s \ {Max(s)}] \in V
                                      => g[s] = step[<<Max(s), g[s \ {Max(s)}]>>]
  PROVE  Running([i \in 0 .. n |-> g[1 .. i]], n, V, base, step)
<1> DEFINE B == {i \in 0 .. n : g[1 .. i] \in V}
<1>1. 0 \in B
  <2>1. 1 .. 0 = {}
    OBVIOUS
  <2> QED BY <2>1
<1>2. ASSUME NEW i \in 1 .. n, i - 1 \in B PROVE i \in B /\ g[1 .. i] = step[<<i, g[1 .. (i - 1)]>>]
  <2>1. 1 .. i \in SUBSET Nat /\ i \in 1 .. i /\ \A j \in 1 .. i : j <= i
    OBVIOUS
  <2>2. Max(1 .. i) = i
    BY <2>1, GreatestIs
  <2>3. 1 .. i \in SUBSET (1 .. n) /\ 1 .. i # {} /\ (1 .. i) \ {i} = 1 .. (i - 1)
    OBVIOUS
  <2>4. g[1 .. i] = step[<<i, g[1 .. (i - 1)]>>]
    BY <1>2, <2>2, <2>3
  <2>5. step[<<i, g[1 .. (i - 1)]>>] \in V
    BY <1>2
  <2> QED BY <2>4, <2>5
<1>3. \A i \in 0 .. n : i \in B
  <2> HIDE DEF B
  <2> QED BY <1>1, <1>2, StepByStep
<1>4. 1 .. 0 = {}
  OBVIOUS
<1>5. \A i \in 1 .. n : g[1 .. i] = step[<<i, g[1 .. (i - 1)]>>]
  <2> TAKE i \in 1 .. n
  <2>1. i - 1 \in B
    BY <1>3
  <2> QED BY <1>2, <2>1
<1>6. \A i \in 0 .. n : g[1 .. i] \in V
  BY <1>3
<1>7. \A i \in 1 .. n : i \in 0 .. n /\ i - 1 \in 0 .. n
  OBVIOUS
<1> QED BY <1>4, <1>5, <1>6, <1>7 DEF Running

-----------------------------------------------------------------------------
(* Sorted lists.                                                           *)

\* A list that has each element of a set once is as long as the set is large.
LEMMA ListedOnce ==
  ASSUME NEW m \in Nat, NEW T, NEW f \in [1 .. m -> T],
         \A i, j \in 1 .. m : f[i] = f[j] => i = j,
         \A t \in T : \E i \in 1 .. m : f[i] = t
  PROVE  IsFiniteSet(T) /\ Cardinality(T) = m
<1>1. f \in Bijection(1 .. m, T)
  BY DEF Bijection, Injection, Surjection, IsInjective
<1>2. ExistsBijection(1 .. m, T)
  BY <1>1 DEF ExistsBijection
<1> QED BY <1>2, FS_CountingElements, FS_NatBijection

Increasing(s) == \A i, j \in DOMAIN s : i < j => s[i] < s[j]

\* The i-th of an increasing list has i - 1 smaller ones.
LEMMA IncreasingCounts ==
  ASSUME NEW s \in Seq(Int), Increasing(s)
  PROVE  /\ IsFiniteSet(Range(s)) /\ Cardinality(Range(s)) = Len(s)
         /\ \A i \in 1 .. Len(s) : Cardinality({d \in Range(s) : d < s[i]}) = i - 1
<1> DEFINE n == Len(s)
<1>1. n \in Nat /\ DOMAIN s = 1 .. n /\ \A i \in 1 .. n : s[i] \in Int
  OBVIOUS
<1>2. \A i, j \in 1 .. n : /\ (s[i] = s[j]) => (i = j)
                          /\ (s[j] < s[i]) <=> (j < i)
  <2> TAKE i, j \in 1 .. n
  <2>1. (i < j \/ i = j \/ j < i) /\ i \in Int /\ j \in Int
    OBVIOUS
  <2>2. s[i] \in Int /\ s[j] \in Int /\ (i < j => s[i] < s[j]) /\ (j < i => s[j] < s[i])
    BY <1>1 DEF Increasing
  <2> HIDE DEF n
  <2> QED BY <2>1, <2>2
<1>3. IsFiniteSet(Range(s)) /\ Cardinality(Range(s)) = n
  <2>1. s \in [1 .. n -> Range(s)] /\ \A t \in Range(s) : \E i \in 1 .. n : s[i] = t
    BY <1>1 DEF Range
  <2>2. \A i, j \in 1 .. n : s[i] = s[j] => i = j
    BY <1>2
  <2> HIDE DEF n
  <2> QED BY <1>1, <2>1, <2>2, ListedOnce
<1>4. ASSUME NEW i \in 1 .. n PROVE Cardinality({d \in Range(s) : d < s[i]}) = i - 1
  <2> DEFINE T == {d \in Range(s) : d < s[i]}
             f == [j \in 1 .. (i - 1) |-> s[j]]
  <2>1. \A j \in 1 .. (i - 1) : j \in 1 .. n /\ j < i /\ s[j] \in T /\ f[j] = s[j]
    BY <1>1, <1>2 DEF Range
  <2>2. f \in [1 .. (i - 1) -> T]
    <3> HIDE DEF T
    <3> QED BY <2>1
  <2>3. \A j, k \in 1 .. (i - 1) : f[j] = f[k] => j = k
    <3> HIDE DEF f, T
    <3> QED BY <1>2, <2>1
  <2>4. ASSUME NEW t \in T PROVE \E j \in 1 .. (i - 1) : f[j] = t
    <3>1. PICK j \in 1 .. n : s[j] = t
      BY <1>1 DEF Range
    <3>2. j < i
      BY <1>2, <3>1
    <3>3. j \in 1 .. (i - 1)
      BY <3>2
    <3> HIDE DEF f, T
    <3> QED BY <2>1, <3>1, <3>3
  <2>5. i - 1 \in Nat
    BY <1>1
  <2> HIDE DEF f, T
  <2>6. Cardinality(T) = i - 1
    BY <2>2, <2>3, <2>4, <2>5, ListedOnce
  <2> QED BY <2>6 DEF T
<1> QED BY <1>3, <1>4

\* Two increasing lists of the same elements are the same.
LEMMA SameOrder ==
  ASSUME NEW s \in Seq(Int), NEW t \in Seq(Int), Increasing(s), Increasing(t),
         Range(s) = Range(t)
  PROVE  s = t
<1> DEFINE n == Len(s)
<1>1. /\ n \in Nat /\ Len(t) = n /\ DOMAIN s = 1 .. n /\ DOMAIN t = 1 .. n
  BY IncreasingCounts
<1>2. ASSUME NEW i \in 1 .. n PROVE s[i] = t[i]
  <2>1. PICK j \in 1 .. n : t[j] = s[i]
    BY <1>1 DEF Range
  <2>2. i - 1 = j - 1
    BY <1>1, <2>1, IncreasingCounts
  <2>3. i = j
    BY <1>1, <2>2
  <2> QED BY <2>1, <2>3
<1> QED BY <1>1, <1>2

\* A greater element goes to the end.
LEMMA GreaterAtEnd ==
  ASSUME NEW V \in SUBSET Int, NEW s \in Seq(V), NEW y \in V, Increasing(s),
         \A x \in Range(s) : x < y
  PROVE  /\ Append(s, y) \in Seq(V) /\ Increasing(Append(s, y))
         /\ Range(Append(s, y)) = Range(s) \cup {y}
<1> DEFINE n == Len(s)
           t == Append(s, y)
<1>1. /\ n \in Nat /\ DOMAIN s = 1 .. n /\ DOMAIN t = 1 .. (n + 1) /\ t[n + 1] = y
      /\ \A i \in 1 .. n : t[i] = s[i] /\ i \in 1 .. (n + 1) /\ s[i] < y /\ s[i] \in V
      /\ n + 1 \in 1 .. (n + 1) /\ \A i \in 1 .. (n + 1) : i = n + 1 \/ i \in 1 .. n
  BY DEF Range
<1>2. t \in Seq(V)
  OBVIOUS
<1> HIDE DEF t, n
<1>3. Increasing(t)
  <2> SUFFICES ASSUME NEW i \in 1 .. (n + 1), NEW j \in 1 .. (n + 1), i < j PROVE t[i] < t[j]
    BY <1>1 DEF Increasing
  <2>1. i \in 1 .. n
    BY <1>1
  <2> QED BY <1>1, <2>1 DEF Increasing
<1>4. Range(t) = Range(s) \cup {y}
  BY <1>1 DEF Range
<1> QED BY <1>2, <1>3, <1>4 DEF t

\* The numbers of a set, taken up in order.
Taking(r, n, S) ==
  /\ r \in [0 .. n -> Seq(Int)] /\ r[0] = <<>>
  /\ \A i \in 1 .. n : r[i] = IF i - 1 \in S THEN Append(r[i - 1], i - 1) ELSE r[i - 1]

Taken(r, n, S) == \A i \in 0 .. n : Increasing(r[i]) /\ Range(r[i]) = S \cap (0 .. (i - 1))

\* Taking the numbers below n one by one gives those of the set, in order.
LEMMA TakenInOrder ==
  ASSUME NEW n \in Nat, NEW S, NEW r, Taking(r, n, S)
  PROVE  Taken(r, n, S)
<1>0. /\ r \in [0 .. n -> Seq(Int)] /\ r[0] = <<>>
      /\ \A i \in 1 .. n : r[i] = IF i - 1 \in S THEN Append(r[i - 1], i - 1) ELSE r[i - 1]
  BY DEF Taking
<1> DEFINE B == {i \in 0 .. n : Increasing(r[i]) /\ Range(r[i]) = S \cap (0 .. (i - 1))}
<1>1. 0 \in B
  BY <1>0 DEF Increasing, Range
<1>2. ASSUME NEW i \in 1 .. n, i - 1 \in B PROVE i \in B
  <2>1. /\ r[i - 1] \in Seq(Int) /\ i \in Int /\ i \in 0 .. n
        /\ Increasing(r[i - 1]) /\ Range(r[i - 1]) = S \cap (0 .. (i - 2))
    BY <1>0, <1>2
  <2>2. 0 .. (i - 1) = (0 .. (i - 2)) \cup {i - 1}
    OBVIOUS
  <2>3. CASE i - 1 \in S
    <3>1. \A x \in Range(r[i - 1]) : x < i - 1
      BY <2>1
    <3>2. i - 1 \in Int
      OBVIOUS
    <3>2a. r[i] = Append(r[i - 1], i - 1)
      BY <1>0, <2>3, Zenon
    <3>3. Increasing(r[i]) /\ Range(r[i]) = Range(r[i - 1]) \cup {i - 1}
      BY <2>1, <3>1, <3>2, <3>2a, GreaterAtEnd
    <3>4. Range(r[i]) = S \cap (0 .. (i - 1))
      BY <2>1, <2>2, <2>3, <3>3
    <3> QED BY <2>1, <3>3, <3>4
  <2>4. CASE i - 1 \notin S
    <3>1. Range(r[i]) = S \cap (0 .. (i - 1)) /\ Increasing(r[i])
      BY <1>0, <2>1, <2>2, <2>4
    <3> QED BY <2>1, <3>1
  <2> QED BY <2>3, <2>4
<1> HIDE DEF B
<1>3. \A i \in 0 .. n : i \in B
  BY <1>1, <1>2, StepByStep
<1> QED BY <1>3 DEF B, Taken

\* A finite set of numbers is bounded.
LEMMA FiniteBounded ==
  ASSUME NEW S \in SUBSET Nat, IsFiniteSet(S)
  PROVE  \E n \in Nat : \A x \in S : x < n
<1> DEFINE Bad == {A \in SUBSET S : ~ \E n \in Nat : \A x \in A : x < n}
<1>1. SUFFICES ASSUME Bad # {} PROVE FALSE
  OBVIOUS
<1>2. PICK A \in Bad : \A T \in SUBSET A : T # A => T \notin Bad
  <2>1. Bad \in SUBSET SUBSET S
    OBVIOUS
  <2> HIDE DEF Bad
  <2> QED BY <1>1, <2>1, SmallestSet
<1>3. PICK a \in A : TRUE
  <2>1. A # {}
    OBVIOUS
  <2> QED BY <2>1
<1>4. PICK n \in Nat : \A x \in A \ {a} : x < n
  BY <1>2, <1>3
<1> DEFINE m == IF a < n THEN n ELSE a + 1
<1>5. m \in Nat /\ \A x \in A : x < m
  BY <1>3, <1>4
<1> QED BY <1>5

Sorted(S, i) == \E s \in Seq(Nat) : Increasing(s) /\ Range(s) = S \cap (0 .. (i - 1))

\* So it can be listed in order.
LEMMA OrderExists ==
  ASSUME NEW S \in SUBSET Nat, IsFiniteSet(S)
  PROVE  \E s \in Seq(Nat) : Increasing(s) /\ Range(s) = S
<1>1. PICK n \in Nat : \A x \in S : x < n
  BY FiniteBounded
<1> DEFINE B == {i \in 0 .. n : Sorted(S, i)}
<1>2. 0 \in B
  <2>1. PICK s \in Seq(Nat) : s = <<>>
    <3>1. <<>> \in Seq(Nat)
      OBVIOUS
    <3> QED BY <3>1, Zenon
  <2>2. DOMAIN s = {} /\ 0 .. (0 - 1) = {} /\ 0 \in 0 .. n
    BY <2>1
  <2>3. Increasing(s) /\ Range(s) = S \cap (0 .. (0 - 1))
    BY <2>2 DEF Increasing, Range
  <2> QED BY <2>2, <2>3 DEF Sorted
<1>3. ASSUME NEW i \in 1 .. n, i - 1 \in B PROVE i \in B
  <2>1. PICK s \in Seq(Nat) : Increasing(s) /\ Range(s) = S \cap (0 .. (i - 2))
    BY <1>3 DEF Sorted
  <2>2. 0 .. (i - 1) = (0 .. (i - 2)) \cup {i - 1} /\ i - 1 \in Nat /\ i \in 0 .. n
    OBVIOUS
  <2>3. CASE i - 1 \in S
    <3>1. \A x \in Range(s) : x < i - 1
      BY <2>1
    <3>2. Append(s, i - 1) \in Seq(Nat) /\ Increasing(Append(s, i - 1))
          /\ Range(Append(s, i - 1)) = Range(s) \cup {i - 1}
      BY <2>1, <2>2, <3>1, GreaterAtEnd
    <3>3. Range(Append(s, i - 1)) = S \cap (0 .. (i - 1))
      BY <2>1, <2>2, <2>3, <3>2
    <3> QED BY <2>2, <3>2, <3>3 DEF Sorted
  <2>4. CASE i - 1 \notin S
    <3>1. Range(s) = S \cap (0 .. (i - 1))
      BY <2>1, <2>2, <2>4
    <3> QED BY <2>1, <2>2, <3>1 DEF Sorted
  <2> QED BY <2>3, <2>4
<1>4. n \in B
  <2> HIDE DEF B
  <2>1. \A i \in 0 .. n : i \in B
    BY <1>2, <1>3, StepByStep
  <2> QED BY <2>1
<1>5. S \cap (0 .. (n - 1)) = S
  <2>1. \A x \in S : x \in Nat /\ x < n
    BY <1>1
  <2>2. \A x \in S : x \in 0 .. (n - 1)
    BY <2>1
  <2> QED BY <2>2
<1> QED BY <1>4, <1>5 DEF Sorted

\* Greater elements go behind.
LEMMA GreaterBehind ==
  ASSUME NEW V \in SUBSET Int, NEW a \in Seq(V), NEW b \in Seq(V), Increasing(a), Increasing(b),
         \A x \in Range(a), y \in Range(b) : x < y
  PROVE  /\ a \o b \in Seq(V) /\ Increasing(a \o b)
         /\ Range(a \o b) = Range(a) \cup Range(b)
<1> DEFINE k == Len(a)
           l == Len(b)
           c == a \o b
<1>1. /\ k \in Nat /\ l \in Nat /\ DOMAIN a = 1 .. k /\ DOMAIN b = 1 .. l /\ DOMAIN c = 1 .. (k + l)
      /\ c \in Seq(V) /\ \A i \in 1 .. (k + l) : c[i] = IF i <= k THEN a[i] ELSE b[i - k]
  <2>1. c \in Seq(V) /\ Len(c) = k + l
        /\ \A i \in 1 .. (k + l) : c[i] = IF i <= k THEN a[i] ELSE b[i - k]
    BY ConcatProperties
  <2> QED BY <2>1
<1> HIDE DEF c, k, l
<1>2. \A i \in 1 .. k : i \in 1 .. (k + l) /\ c[i] = a[i] /\ a[i] \in Range(a)
  <2> TAKE i \in 1 .. k
  <2>1. i \in 1 .. (k + l) /\ i <= k
    BY <1>1
  <2>2. a[i] \in Range(a)
    BY <1>1 DEF Range
  <2> QED BY <1>1, <2>1, <2>2
<1>3. \A i \in 1 .. l : k + i \in 1 .. (k + l) /\ c[k + i] = b[i] /\ b[i] \in Range(b)
  <2> TAKE i \in 1 .. l
  <2>1. k + i \in 1 .. (k + l) /\ ~(k + i <= k) /\ (k + i) - k = i
    BY <1>1
  <2> QED BY <1>1, <2>1 DEF Range
<1>4. \A i \in 1 .. (k + l) : i \in 1 .. k \/ \E j \in 1 .. l : i = k + j
  <2> TAKE i \in 1 .. (k + l)
  <2>1. CASE i <= k
    BY <1>1, <2>1
  <2>2. CASE ~(i <= k)
    <3>1. i - k \in 1 .. l /\ i = k + (i - k)
      BY <1>1, <2>2
    <3> QED BY <3>1
  <2> QED BY <2>1, <2>2
<1>5. Increasing(c)
  <2> SUFFICES ASSUME NEW i \in 1 .. (k + l), NEW j \in 1 .. (k + l), i < j PROVE c[i] < c[j]
    BY <1>1 DEF Increasing
  <2>1. CASE j \in 1 .. k
    <3>1. i \in 1 .. k
      BY <1>1, <2>1
    <3> QED BY <1>1, <1>2, <2>1, <3>1 DEF Increasing
  <2>2. ASSUME NEW y \in 1 .. l, j = k + y PROVE c[i] < c[j]
    <3>1. CASE i \in 1 .. k
      BY <1>2, <1>3, <2>2, <3>1
    <3>2. ASSUME NEW x \in 1 .. l, i = k + x PROVE c[i] < c[j]
      <4>1. x < y
        BY <1>1, <2>2, <3>2
      <4> QED BY <1>1, <1>3, <2>2, <3>2, <4>1 DEF Increasing
    <3> QED BY <1>4, <3>1, <3>2
  <2> QED BY <1>4, <2>1, <2>2
<1>6. Range(c) = Range(a) \cup Range(b)
  <2>1. ASSUME NEW x \in Range(c) PROVE x \in Range(a) \cup Range(b)
    <3>1. PICK i \in 1 .. (k + l) : x = c[i]
      BY <1>1 DEF Range
    <3> QED BY <1>2, <1>3, <1>4, <3>1
  <2>2. ASSUME NEW x \in Range(a) PROVE x \in Range(c)
    <3>1. PICK i \in 1 .. k : x = a[i]
      BY <1>1, <2>2 DEF Range
    <3> QED BY <1>1, <1>2, <3>1 DEF Range
  <2>3. ASSUME NEW x \in Range(b) PROVE x \in Range(c)
    <3>1. PICK i \in 1 .. l : x = b[i]
      BY <1>1, <2>3 DEF Range
    <3> QED BY <1>1, <1>3, <3>1 DEF Range
  <2> QED BY <2>1, <2>2, <2>3
<1> QED BY <1>1, <1>5, <1>6 DEF c

\* The lists that a flat one is made of, one behind the other.
Flattening(f, k, V, lists) ==
  /\ f \in [1 .. k -> Seq(V)]
  /\ \A i \in 1 .. k : f[i] = IF i = 1 THEN lists[i] ELSE f[i - 1] \o lists[i]
Flattens(k, V, lists) == \E f : Flattening(f, k, V, lists)

\* A list of lists can be flattened from its front.
LEMMA FlatteningExists ==
  ASSUME NEW V, NEW lists \in Seq(Seq(V))
  PROVE  Flattens(Len(lists), V, lists)
<1> DEFINE n == Len(lists)
           B == {i \in 0 .. n : Flattens(i, V, lists)}
<1>1. n \in Nat /\ DOMAIN lists = 1 .. n /\ \A i \in 1 .. n : lists[i] \in Seq(V)
  OBVIOUS
<1>2. 0 \in B
  <2> DEFINE f == [i \in 1 .. 0 |-> <<>>]
  <2>1. f \in [1 .. 0 -> Seq(V)] /\ 1 .. 0 = {}
    OBVIOUS
  <2> HIDE DEF f
  <2>2. Flattening(f, 0, V, lists)
    BY <2>1 DEF Flattening
  <2> QED BY <1>1, <2>2 DEF Flattens
<1>3. ASSUME NEW i \in 1 .. n, i - 1 \in B PROVE i \in B
  <2>1. PICK f : Flattening(f, i - 1, V, lists)
    BY <1>3 DEF Flattens
  <2> DEFINE next == IF i = 1 THEN lists[i] ELSE f[i - 1] \o lists[i]
             g == [j \in 1 .. i |-> IF j = i THEN next ELSE f[j]]
  <2>2. /\ i \in Nat /\ lists[i] \in Seq(V) /\ \A j \in 1 .. i : j = i \/ j \in 1 .. (i - 1)
        /\ \A j \in 1 .. (i - 1) : f[j] \in Seq(V)
    BY <1>1, <2>1 DEF Flattening
  <2>3. next \in Seq(V)
    <3>1. CASE i = 1
      BY <2>2, <3>1
    <3>2. CASE i # 1
      <4>1. i - 1 \in 1 .. (i - 1)
        BY <2>2, <3>2
      <4>2. f[i - 1] \o lists[i] \in Seq(V)
        BY <2>2, <4>1
      <4> QED BY <3>2, <4>2
    <3> QED BY <3>1, <3>2
  <2>4. g \in [1 .. i -> Seq(V)]
    <3> HIDE DEF next
    <3> QED BY <2>2, <2>3
  <2>5. ASSUME NEW j \in 1 .. i PROVE g[j] = IF j = 1 THEN lists[j] ELSE g[j - 1] \o lists[j]
    <3>1. j # 1 => j - 1 \in 1 .. i /\ j - 1 # i
      BY <2>2
    <3>2. j # 1 => g[j - 1] = f[j - 1]
      BY <3>1
    <3>3. CASE j = i
      <4>1. g[j] = next
        BY <3>3
      <4> HIDE DEF g
      <4> QED BY <3>2, <3>3, <4>1
    <3>4. CASE j # i
      <4>1. j \in 1 .. (i - 1) /\ g[j] = f[j]
        BY <2>2, <3>4
      <4> HIDE DEF g
      <4> QED BY <2>1, <3>2, <4>1 DEF Flattening
    <3> QED BY <3>3, <3>4
  <2>6. Flattening(g, i, V, lists)
    <3> HIDE DEF g
    <3> QED BY <2>4, <2>5 DEF Flattening
  <2>7. Flattens(i, V, lists)
    <3> HIDE DEF g
    <3> QED BY <2>6 DEF Flattens
  <2> QED BY <2>7
<1>4. \A i \in 0 .. n : i \in B
  <2> HIDE DEF B, n
  <2> QED BY <1>1, <1>2, <1>3, StepByStep
<1> QED BY <1>1, <1>4
=============================================================================
