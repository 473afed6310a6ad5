---------------------------- MODULE FoldProofs ----------------------------
(***************************************************************************)
(* Theorems about state that is a fold: the value of a counter (nothing    *)
(* that is put in is lost, and value() returns something that was in it),  *)
(* the shares of the weighted load balancer, and the log (rolling the      *)
(* files keeps the newest records).                                        *)
(*                                                                         *)
(* The sums and the common divisor of the module Functions and FlattenSeq  *)
(* of SequencesExt are defined by a recursion. The lemmas before each part *)
(* show what it computes: that the recursive function exists and is        *)
(* unique, and that an element may be taken out of it, or the first        *)
(* sequence. They are inductions; each takes a smallest set, or number,    *)
(* for which its claim fails and finds a smaller one.                      *)
(***************************************************************************)
EXTENDS ThreadLocalValue, LoadBalancer, Appender, FiniteSetTheorems,
        SequenceTheorems, WellFoundedInduction, TLAPS

---------------------------------------------------------------------------
(* Folds over finite sets.                                                 *)

\* Among some subsets of a finite set there is one with no other inside it.
LEMMA SmallestSet ==
  ASSUME NEW U, IsFiniteSet(U), NEW B \in SUBSET (SUBSET U), B # {}
  PROVE  \E S \in B : \A R \in SUBSET S : R # S => R \notin B
  <1>1. IsWellFoundedOn(StrictSubsetOrdering(U), SUBSET U)
    BY FS_StrictSubsetOrderingWellFounded, FS_FiniteSubsetsOfFinite
  <1>2. PICK S \in B : \A R \in B : ~(<<R, S>> \in StrictSubsetOrdering(U))
    BY <1>1, WFMin
  <1>3. ASSUME NEW R \in SUBSET S, R # S, R \in B
        PROVE  FALSE
    <2>1. <<R, S>> \in StrictSubsetOrdering(U)
      BY <1>3 DEF StrictSubsetOrdering
    <2>2. QED
      BY <1>2, <1>3, <2>1
  <1>4. QED
    BY <1>3

\* The element a fold takes next.
Some(s) == CHOOSE x \in s : TRUE

\* The operations of the folds: an operation cannot be a parameter of a lemma.
Combine(k, a, b) == IF k = "sum" THEN a + b ELSE Gcd(a, b)

\* g is the iteration that folds f over the subsets of S.
IsIter(g, k, b, f, S) ==
    g = [s \in SUBSET S |->
           IF s = {} THEN b ELSE Combine(k, f[Some(s)], g[s \ {Some(s)}])]
Iter(k, b, f, S) == CHOOSE g : IsIter(g, k, b, f, S)
Fold(k, b, f, S) == Iter(k, b, f, S)[S]

LEMMA SomeIn ==
  ASSUME NEW s, s # {}
  PROVE  Some(s) \in s
  BY DEF Some

\* A step of the iteration.
LEMMA IterStep ==
  ASSUME NEW g, NEW k, NEW b, NEW f, NEW S, IsIter(g, k, b, f, S),
         NEW s \in SUBSET S
  PROVE  g[s] = IF s = {} THEN b ELSE Combine(k, f[Some(s)], g[s \ {Some(s)}])
  BY DEF IsIter

\* There is at most one such iteration.
LEMMA IterUnique ==
  ASSUME NEW k, NEW b, NEW f, NEW S, NEW R, IsFiniteSet(S),
         NEW g, IsIter(g, k, b, f, S), NEW h, IsIter(h, k, b, f, R),
         NEW s \in SUBSET S, s \in SUBSET R
  PROVE  g[s] = h[s]
  <1> DEFINE B == {r \in SUBSET S : r \in SUBSET R /\ g[r] # h[r]}
  <1>1. SUFFICES ASSUME B # {} PROVE FALSE
    OBVIOUS
  <1>2. PICK r \in B : \A q \in SUBSET r : q # r => q \notin B
    <2>1. B \in SUBSET (SUBSET S)
      OBVIOUS
    <2> HIDE DEF B
    <2>2. QED
      BY <1>1, <2>1, SmallestSet
  <1>3. r # {}
    <2>1. r \in SUBSET S /\ r \in SUBSET R /\ g[r] # h[r]
      BY <1>2
    <2> HIDE DEF B
    <2>2. /\ g[r] = IF r = {} THEN b ELSE Combine(k, f[Some(r)], g[r \ {Some(r)}])
          /\ h[r] = IF r = {} THEN b ELSE Combine(k, f[Some(r)], h[r \ {Some(r)}])
      BY <2>1, IterStep
    <2>3. QED
      BY <2>1, <2>2
  <1>4. Some(r) \in r
    BY <1>3, SomeIn
  <1>5. g[r \ {Some(r)}] = h[r \ {Some(r)}]
    BY <1>2, <1>4
  <1>6. g[r] = Combine(k, f[Some(r)], g[r \ {Some(r)}])
    BY <1>2, <1>3, IterStep
  <1>7. h[r] = Combine(k, f[Some(r)], h[r \ {Some(r)}])
    <2>1. r \in SUBSET R
      BY <1>2
    <2> HIDE DEF B
    <2>2. QED
      BY <1>3, <2>1, IterStep
  <1>8. QED
    BY <1>2, <1>5, <1>6, <1>7

\* There is one over a finite set.
LEMMA IterExists ==
  ASSUME NEW k, NEW b, NEW f, NEW S, IsFiniteSet(S)
  PROVE  IsIter(Iter(k, b, f, S), k, b, f, S)
  <1> DEFINE B == {R \in SUBSET S : ~ \E g : IsIter(g, k, b, f, R)}
  <1>1. ASSUME B # {} PROVE FALSE
    <2>1. PICK R \in B : \A q \in SUBSET R : q # R => q \notin B
      <3>1. B \in SUBSET (SUBSET S)
        OBVIOUS
      <3> HIDE DEF B
      <3>2. QED
        BY <1>1, <3>1, SmallestSet
    <2> DEFINE g == [s \in SUBSET R |->
                       IF s = {} THEN b
                       ELSE Combine(k, f[Some(s)], Fold(k, b, f, s \ {Some(s)}))]
    <2>2. ASSUME NEW q \in SUBSET R, q # R
          PROVE  IsIter(Iter(k, b, f, q), k, b, f, q) /\ IsFiniteSet(q)
      <3>1. \E i : IsIter(i, k, b, f, q)
        BY <2>1, <2>2
      <3>2. IsFiniteSet(q)
        <4>1. q \in SUBSET S
          BY <2>1, <2>2
        <4>2. QED
          BY <4>1, FS_Subset
      <3>3. QED
        BY <3>1, <3>2 DEF Iter
    <2>3. ASSUME NEW s \in SUBSET R, s # {}
          PROVE  Fold(k, b, f, s \ {Some(s)}) = g[s \ {Some(s)}]
      <3> DEFINE q == s \ {Some(s)}
                 p == q \ {Some(q)}
      <3>1. Some(s) \in s
        BY <2>3, SomeIn
      <3>2. q \in SUBSET R /\ q # R
        BY <2>3, <3>1
      <3>3. CASE q = {}
        <4>1. Iter(k, b, f, q)[q] = b
          BY <3>2, <3>3, <2>2, IterStep
        <4>2. g[q] = b
          BY <3>2, <3>3
        <4>3. QED
          BY <4>1, <4>2 DEF Fold
      <3>4. CASE q # {}
        <4>1. Some(q) \in q
          BY <3>4, SomeIn
        <4>2. p \in SUBSET R /\ p # R /\ p \in SUBSET q
          BY <3>2, <4>1
        <4>3. Iter(k, b, f, q)[q] = Combine(k, f[Some(q)], Iter(k, b, f, q)[p])
          <5> HIDE DEF q
          <5>1. QED
            BY <3>2, <3>4, <2>2, IterStep
        <4>4. Iter(k, b, f, q)[p] = Iter(k, b, f, p)[p]
          <5>1. /\ IsIter(Iter(k, b, f, q), k, b, f, q) /\ IsFiniteSet(q)
                /\ IsIter(Iter(k, b, f, p), k, b, f, p)
            BY <2>2, <3>2, <4>2
          <5> HIDE DEF q, p
          <5>2. QED
            BY <4>2, <5>1, IterUnique
        <4>5. g[q] = Combine(k, f[Some(q)], Iter(k, b, f, p)[p])
          BY <3>2, <3>4 DEF Fold
        <4>6. QED
          BY <4>3, <4>4, <4>5 DEF Fold
      <3>5. QED
        BY <3>3, <3>4
    <2>4. IsIter(g, k, b, f, R)
      <3>1. g = [s \in SUBSET R |->
                   IF s = {} THEN b ELSE Combine(k, f[Some(s)], g[s \ {Some(s)}])]
        <4>1. \A s \in SUBSET R :
                (IF s = {} THEN b
                 ELSE Combine(k, f[Some(s)], Fold(k, b, f, s \ {Some(s)})))
                = (IF s = {} THEN b ELSE Combine(k, f[Some(s)], g[s \ {Some(s)}]))
          <5> HIDE DEF g
          <5>1. QED
            BY <2>3
        <4>2. QED
          BY <4>1, Zenon
      <3>2. QED
        BY <3>1 DEF IsIter
    <2>5. QED
      BY <2>1, <2>4
  <1>2. \E g : IsIter(g, k, b, f, S)
    BY <1>1
  <1>3. QED
    BY <1>2 DEF Iter

\* A fold over nothing, and a fold over a set by one element of it.
LEMMA FoldUnfolds ==
  ASSUME NEW k, NEW b, NEW f, NEW S, IsFiniteSet(S)
  PROVE  /\ S = {} => Fold(k, b, f, S) = b
         /\ S # {} => /\ Some(S) \in S
                      /\ Fold(k, b, f, S)
                           = Combine(k, f[Some(S)], Fold(k, b, f, S \ {Some(S)}))
  <1> DEFINE i == Iter(k, b, f, S)
  <1>1. IsIter(i, k, b, f, S)
    BY IterExists
  <1> HIDE DEF i
  <1>2. i[S] = IF S = {} THEN b ELSE Combine(k, f[Some(S)], i[S \ {Some(S)}])
    BY <1>1, IterStep
  <1>3. ASSUME S # {}
        PROVE  i[S \ {Some(S)}] = Fold(k, b, f, S \ {Some(S)})
    <2> DEFINE R == S \ {Some(S)}
    <2>1. R \in SUBSET S /\ IsFiniteSet(R)
      BY FS_Subset
    <2> HIDE DEF R
    <2>2. IsIter(Iter(k, b, f, R), k, b, f, R)
      BY <2>1, IterExists
    <2>3. i[R] = Iter(k, b, f, R)[R]
      BY <1>1, <2>1, <2>2, IterUnique
    <2>4. QED
      BY <2>3 DEF R, Fold
  <1>4. QED
    BY <1>2, <1>3, SomeIn DEF i, Fold

\* That is what the operator of the module Functions computes.
LEMMA SumIsFold ==
  ASSUME NEW f, NEW S, IsFiniteSet(S)
  PROVE  SumFunctionOnSet(f, S) = Fold("sum", 0, f, S)
  <1> DEFINE IsSum(g) == g = [s \in SUBSET S |->
                                IF s = {} THEN 0 ELSE f[Some(s)] + g[s \ {Some(s)}]]
             h == CHOOSE g : IsSum(g)
             i == Iter("sum", 0, f, S)
  <1>1. SumFunctionOnSet(f, S) = h[S]
    BY DEF SumFunctionOnSet, FoldFunctionOnSet, MapThenFoldSet, Some
  <1>2. ASSUME NEW g
        PROVE  IsIter(g, "sum", 0, f, S) <=> IsSum(g)
    BY DEF IsIter, Combine
  <1>3. IsIter(i, "sum", 0, f, S)
    BY IterExists
  <1>4. IsSum(h)
    <2>1. IsSum(i)
      BY <1>2, <1>3
    <2> HIDE DEF i, IsSum
    <2>2. QED
      BY <2>1 DEF h
  <1>5. IsIter(h, "sum", 0, f, S)
    BY <1>2, <1>4
  <1> HIDE DEF i, h
  <1>6. h[S] = i[S]
    BY <1>3, <1>5, IterUnique
  <1>7. QED
    BY <1>1, <1>6 DEF i, Fold

---------------------------------------------------------------------------

\* The sum over nothing, and the sum over a set by one element of it.
LEMMA SumUnfolds ==
  ASSUME NEW f, NEW S, IsFiniteSet(S)
  PROVE  /\ S = {} => SumFunctionOnSet(f, S) = 0
         /\ S # {} => /\ Some(S) \in S
                      /\ SumFunctionOnSet(f, S)
                           = f[Some(S)] + SumFunctionOnSet(f, S \ {Some(S)})
  <1>1. SumFunctionOnSet(f, S) = Fold("sum", 0, f, S)
    BY SumIsFold
  <1>2. SumFunctionOnSet(f, S \ {Some(S)}) = Fold("sum", 0, f, S \ {Some(S)})
    <2> DEFINE R == S \ {Some(S)}
    <2>1. IsFiniteSet(R)
      BY FS_Subset
    <2> HIDE DEF R
    <2>2. SumFunctionOnSet(f, R) = Fold("sum", 0, f, R)
      BY <2>1, SumIsFold
    <2>3. QED
      BY <2>2 DEF R
  <1>3. ASSUME NEW k, NEW b
        PROVE  /\ S = {} => Fold(k, b, f, S) = b
               /\ S # {} =>
                    /\ Some(S) \in S
                    /\ Fold(k, b, f, S)
                         = Combine(k, f[Some(S)], Fold(k, b, f, S \ {Some(S)}))
    BY FoldUnfolds
  <1>4. QED
    BY <1>1, <1>2, <1>3 DEF Combine

\* A sum of integers is one.
LEMMA SumType ==
  ASSUME NEW f, NEW S, IsFiniteSet(S), \A x \in S : f[x] \in Int
  PROVE  SumFunctionOnSet(f, S) \in Int
  <1> DEFINE B == {R \in SUBSET S : SumFunctionOnSet(f, R) \notin Int}
  <1>1. SUFFICES ASSUME B # {} PROVE FALSE
    OBVIOUS
  <1>2. PICK R \in B : \A q \in SUBSET R : q # R => q \notin B
    <2>1. B \in SUBSET (SUBSET S)
      OBVIOUS
    <2> HIDE DEF B
    <2>2. QED
      BY <1>1, <2>1, SmallestSet
  <1>3. R \in SUBSET S /\ IsFiniteSet(R) /\ SumFunctionOnSet(f, R) \notin Int
    BY <1>2, FS_Subset
  <1>4. R # {}
    <2>1. R = {} => SumFunctionOnSet(f, R) = 0
      BY <1>3, SumUnfolds
    <2>2. QED
      BY <1>3, <2>1
  <1>5. /\ Some(R) \in R
        /\ SumFunctionOnSet(f, R)
             = f[Some(R)] + SumFunctionOnSet(f, R \ {Some(R)})
    BY <1>3, <1>4, SumUnfolds
  <1>6. SumFunctionOnSet(f, R \ {Some(R)}) \in Int
    BY <1>2, <1>3, <1>5
  <1>7. QED
    BY <1>3, <1>5, <1>6

\* A sum depends on the values only.
LEMMA SumSame ==
  ASSUME NEW f, NEW g, NEW S, IsFiniteSet(S), \A x \in S : f[x] = g[x]
  PROVE  SumFunctionOnSet(f, S) = SumFunctionOnSet(g, S)
  <1> DEFINE B == {R \in SUBSET S :
                     SumFunctionOnSet(f, R) # SumFunctionOnSet(g, R)}
  <1>1. SUFFICES ASSUME B # {} PROVE FALSE
    OBVIOUS
  <1>2. PICK R \in B : \A q \in SUBSET R : q # R => q \notin B
    <2>1. B \in SUBSET (SUBSET S)
      OBVIOUS
    <2> HIDE DEF B
    <2>2. QED
      BY <1>1, <2>1, SmallestSet
  <1>3. /\ R \in SUBSET S /\ IsFiniteSet(R)
        /\ SumFunctionOnSet(f, R) # SumFunctionOnSet(g, R)
    BY <1>2, FS_Subset
  <1>4. R # {}
    BY <1>3, SumUnfolds
  <1>5. /\ Some(R) \in R
        /\ SumFunctionOnSet(f, R)
             = f[Some(R)] + SumFunctionOnSet(f, R \ {Some(R)})
        /\ SumFunctionOnSet(g, R)
             = g[Some(R)] + SumFunctionOnSet(g, R \ {Some(R)})
    BY <1>3, <1>4, SumUnfolds
  <1>6. SumFunctionOnSet(f, R \ {Some(R)}) = SumFunctionOnSet(g, R \ {Some(R)})
    BY <1>2, <1>3, <1>5
  <1>7. QED
    BY <1>3, <1>5, <1>6

\* Any element may be taken out of a sum.
LEMMA SumTakes ==
  ASSUME NEW f, NEW S, IsFiniteSet(S), \A y \in S : f[y] \in Int, NEW x \in S
  PROVE  SumFunctionOnSet(f, S) = f[x] + SumFunctionOnSet(f, S \ {x})
  <1> DEFINE Whole(R) == SumFunctionOnSet(f, R)
             B == {R \in SUBSET S :
                     \E y \in R : Whole(R) # f[y] + Whole(R \ {y})}
  <1>1. SUFFICES ASSUME B # {} PROVE FALSE
    OBVIOUS
  <1>2. PICK R \in B : \A q \in SUBSET R : q # R => q \notin B
    <2>1. B \in SUBSET (SUBSET S)
      OBVIOUS
    <2> HIDE DEF B
    <2>2. QED
      BY <1>1, <2>1, SmallestSet
  <1>3. R \in SUBSET S /\ IsFiniteSet(R)
    BY <1>2, FS_Subset
  <1>4. PICK y \in R : Whole(R) # f[y] + Whole(R \ {y})
    BY <1>2
  <1> DEFINE z == Some(R)
  <1>5. z \in R /\ Whole(R) = f[z] + Whole(R \ {z})
    BY <1>3, <1>4, SumUnfolds
  <1>6. y # z
    BY <1>4, <1>5
  <1>7. ASSUME NEW a \in R, NEW b \in R, a # b
        PROVE  Whole(R \ {a}) = f[b] + Whole(R \ {a, b})
    <2>1. R \ {a} \in SUBSET R /\ R \ {a} # R /\ b \in R \ {a}
      BY <1>7
    <2>2. R \ {a} \in SUBSET S /\ R \ {a} \notin B
      BY <1>2, <1>3, <2>1
    <2>3. (R \ {a}) \ {b} = R \ {a, b}
      OBVIOUS
    <2>4. QED
      BY <2>1, <2>2, <2>3
  <1> HIDE DEF z, B
  <1>8. /\ Whole(R \ {z}) = f[y] + Whole(R \ {z, y})
        /\ Whole(R \ {y}) = f[z] + Whole(R \ {y, z})
    BY <1>5, <1>6, <1>7
  <1>9. Whole(R \ {z, y}) = Whole(R \ {y, z})
    <2>1. {z, y} = {y, z}
      OBVIOUS
    <2>2. QED
      BY <2>1
  <1>10. f[y] \in Int /\ f[z] \in Int /\ Whole(R \ {y, z}) \in Int
    <2>1. R \ {y, z} \in SUBSET S /\ IsFiniteSet(R \ {y, z})
      BY <1>3, FS_Subset
    <2>2. \A w \in R \ {y, z} : f[w] \in Int
      BY <1>3
    <2>3. QED
      BY <1>3, <1>5, <2>1, <2>2, SumType
  <1> HIDE DEF Whole
  <1>11. QED
    BY <1>4, <1>5, <1>8, <1>9, <1>10

\* A sum in which one value changes.
LEMMA SumChanges ==
  ASSUME NEW f, NEW g, NEW S, IsFiniteSet(S), NEW x \in S,
         \A y \in S : f[y] \in Int /\ g[y] \in Int,
         \A y \in S \ {x} : g[y] = f[y]
  PROVE  SumFunctionOnSet(g, S) = SumFunctionOnSet(f, S) - f[x] + g[x]
  <1>1. IsFiniteSet(S \ {x})
    BY FS_Subset
  <1>2. SumFunctionOnSet(f, S) = f[x] + SumFunctionOnSet(f, S \ {x})
    BY SumTakes
  <1>3. SumFunctionOnSet(g, S) = g[x] + SumFunctionOnSet(g, S \ {x})
    BY SumTakes
  <1>4. SumFunctionOnSet(g, S \ {x}) = SumFunctionOnSet(f, S \ {x})
    BY <1>1, SumSame
  <1>5. SumFunctionOnSet(f, S \ {x}) \in Int
    BY <1>1, SumType
  <1>6. QED
    BY <1>2, <1>3, <1>4, <1>5

\* A sum to which an element comes, the other values being as they were.
LEMMA SumGrows ==
  ASSUME NEW f, NEW g, NEW S, IsFiniteSet(S), NEW x, x \notin S,
         \A y \in S : f[y] \in Int /\ g[y] = f[y], g[x] \in Int
  PROVE  SumFunctionOnSet(g, S \cup {x}) = SumFunctionOnSet(f, S) + g[x]
  <1>1. IsFiniteSet(S \cup {x})
    BY FS_AddElement
  <1>2. (S \cup {x}) \ {x} = S
    OBVIOUS
  <1>3. \A y \in S \cup {x} : g[y] \in Int
    OBVIOUS
  <1>4. SumFunctionOnSet(g, S \cup {x}) = g[x] + SumFunctionOnSet(g, S)
    <2>1. x \in S \cup {x}
      OBVIOUS
    <2>2. SumFunctionOnSet(g, S \cup {x})
            = g[x] + SumFunctionOnSet(g, (S \cup {x}) \ {x})
      BY <1>1, <1>3, <2>1, SumTakes
    <2>3. QED
      BY <1>2, <2>2
  <1>5. SumFunctionOnSet(g, S) = SumFunctionOnSet(f, S)
    BY SumSame
  <1>6. SumFunctionOnSet(f, S) \in Int
    BY SumType
  <1>7. QED
    BY <1>4, <1>5, <1>6

\* A smaller sum has a smaller element.
LEMMA SumAtMost ==
  ASSUME NEW f, NEW g, NEW S, IsFiniteSet(S),
         \A x \in S : f[x] \in Int /\ g[x] \in Int /\ f[x] <= g[x]
  PROVE  SumFunctionOnSet(f, S) <= SumFunctionOnSet(g, S)
  <1> DEFINE B == {R \in SUBSET S :
                     ~(SumFunctionOnSet(f, R) <= SumFunctionOnSet(g, R))}
  <1>1. SUFFICES ASSUME B # {} PROVE FALSE
    OBVIOUS
  <1>2. PICK R \in B : \A q \in SUBSET R : q # R => q \notin B
    <2>1. B \in SUBSET (SUBSET S)
      OBVIOUS
    <2> HIDE DEF B
    <2>2. QED
      BY <1>1, <2>1, SmallestSet
  <1>3. /\ R \in SUBSET S /\ IsFiniteSet(R)
        /\ ~(SumFunctionOnSet(f, R) <= SumFunctionOnSet(g, R))
    BY <1>2, FS_Subset
  <1>4. R # {}
    <2>1. R = {} => SumFunctionOnSet(f, R) = 0 /\ SumFunctionOnSet(g, R) = 0
      BY <1>3, SumUnfolds
    <2>2. QED
      BY <1>3, <2>1
  <1>5. /\ Some(R) \in R
        /\ SumFunctionOnSet(f, R)
             = f[Some(R)] + SumFunctionOnSet(f, R \ {Some(R)})
        /\ SumFunctionOnSet(g, R)
             = g[Some(R)] + SumFunctionOnSet(g, R \ {Some(R)})
    BY <1>3, <1>4, SumUnfolds
  <1>6. SumFunctionOnSet(f, R \ {Some(R)}) <= SumFunctionOnSet(g, R \ {Some(R)})
    BY <1>2, <1>3, <1>5
  <1>7. /\ SumFunctionOnSet(f, R \ {Some(R)}) \in Int
        /\ SumFunctionOnSet(g, R \ {Some(R)}) \in Int
    <2> DEFINE Q == R \ {Some(R)}
    <2>1. IsFiniteSet(Q) /\ \A x \in Q : f[x] \in Int /\ g[x] \in Int
      BY <1>3, FS_Subset
    <2> HIDE DEF Q, B
    <2>2. SumFunctionOnSet(f, Q) \in Int /\ SumFunctionOnSet(g, Q) \in Int
      BY <2>1, SumType
    <2>3. QED
      BY <2>2 DEF Q
  <1>8. f[Some(R)] \in Int /\ g[Some(R)] \in Int /\ f[Some(R)] <= g[Some(R)]
    BY <1>3, <1>5
  <1> HIDE DEF B
  <1>9. QED
    BY <1>3, <1>5, <1>6, <1>7, <1>8

\* The values of f are nowhere larger than those of g.
NowhereLarger(f, g, S) ==
    \A y \in S : f[y] \in Int /\ g[y] \in Int /\ f[y] <= g[y]

\* Two sums that are equal, one of values that are nowhere larger, are sums of
\* the same values.
LEMMA SumSqueezed ==
  ASSUME NEW f, NEW g, NEW S, IsFiniteSet(S), NowhereLarger(f, g, S),
         SumFunctionOnSet(f, S) = SumFunctionOnSet(g, S), NEW x \in S
  PROVE  f[x] = g[x]
  <1> USE DEF NowhereLarger
  <1> DEFINE R == S \ {x}
  <1>1. IsFiniteSet(R) /\ \A y \in R : f[y] \in Int /\ g[y] \in Int /\ f[y] <= g[y]
    BY FS_Subset
  <1>2. /\ SumFunctionOnSet(f, S) = f[x] + SumFunctionOnSet(f, R)
        /\ SumFunctionOnSet(g, S) = g[x] + SumFunctionOnSet(g, R)
    BY SumTakes
  <1> HIDE DEF R
  <1>3. /\ SumFunctionOnSet(f, R) \in Int /\ SumFunctionOnSet(g, R) \in Int
        /\ SumFunctionOnSet(f, R) <= SumFunctionOnSet(g, R)
    BY <1>1, SumType, SumAtMost
  <1>4. f[x] \in Int /\ g[x] \in Int /\ f[x] <= g[x]
    OBVIOUS
  <1>5. f[x] + SumFunctionOnSet(f, R) = g[x] + SumFunctionOnSet(g, R)
    BY <1>2
  <1>6. QED
    BY ONLY <1>3, <1>4, <1>5

\* The values of g are d times those of f.
AreTimes(g, f, S, d) == \A x \in S : f[x] \in Int /\ g[x] = f[x] * d

\* A sum of multiples.
LEMMA SumTimes ==
  ASSUME NEW f, NEW g, NEW S, IsFiniteSet(S), NEW d \in Int,
         AreTimes(g, f, S, d)
  PROVE  SumFunctionOnSet(g, S) = SumFunctionOnSet(f, S) * d
  <1> USE DEF AreTimes
  <1> DEFINE B == {R \in SUBSET S :
                     SumFunctionOnSet(g, R) # SumFunctionOnSet(f, R) * d}
  <1>1. SUFFICES ASSUME B # {} PROVE FALSE
    OBVIOUS
  <1>2. PICK R \in B : \A q \in SUBSET R : q # R => q \notin B
    <2>1. B \in SUBSET (SUBSET S)
      OBVIOUS
    <2> HIDE DEF B
    <2>2. QED
      BY <1>1, <2>1, SmallestSet
  <1>3. /\ R \in SUBSET S /\ IsFiniteSet(R)
        /\ SumFunctionOnSet(g, R) # SumFunctionOnSet(f, R) * d
    BY <1>2, FS_Subset
  <1>4. R # {}
    <2>1. R = {} => SumFunctionOnSet(g, R) = 0 /\ SumFunctionOnSet(f, R) = 0
      BY <1>3, SumUnfolds
    <2>2. 0 * d = 0
      OBVIOUS
    <2>3. QED
      BY <1>3, <2>1, <2>2
  <1>5. /\ Some(R) \in R
        /\ SumFunctionOnSet(f, R)
             = f[Some(R)] + SumFunctionOnSet(f, R \ {Some(R)})
        /\ SumFunctionOnSet(g, R)
             = g[Some(R)] + SumFunctionOnSet(g, R \ {Some(R)})
    BY <1>3, <1>4, SumUnfolds
  <1>6. SumFunctionOnSet(g, R \ {Some(R)}) = SumFunctionOnSet(f, R \ {Some(R)}) * d
    BY <1>2, <1>3, <1>5
  <1>7. SumFunctionOnSet(f, R \ {Some(R)}) \in Int
    <2> DEFINE Q == R \ {Some(R)}
    <2>1. IsFiniteSet(Q) /\ \A x \in Q : f[x] \in Int
      BY <1>3, FS_Subset
    <2> HIDE DEF Q, B
    <2>2. SumFunctionOnSet(f, Q) \in Int
      BY <2>1, SumType
    <2>3. QED
      BY <2>2 DEF Q
  <1>8. f[Some(R)] \in Int /\ g[Some(R)] = f[Some(R)] * d
    BY <1>3, <1>5
  <1>9. \A a, b \in Int : (a + b) * d = a * d + b * d
    OBVIOUS
  <1> HIDE DEF B
  <1>10. QED
    BY <1>3, <1>5, <1>6, <1>7, <1>8, <1>9

---------------------------------------------------------------------------
(***************************************************************************)
(* The duplicates of a counter.                                            *)
(*                                                                         *)
(* The invariant adds to the properties where a thread is and, for a       *)
(* thread that reads, what they say of a reader that has not finished: its *)
(* sum is at most what the duplicates it has passed hold, and with what    *)
(* the others hold at least what was stored when it began.                 *)
(***************************************************************************)
\* The labels of an operation that works on one duplicate.
OnFirst == {"find first", "new first", "first"}
OnOne == {"find add", "new add", "add"} \cup OnFirst
ValueLabel == {"idle", "rest", "read"} \cup OnOne

ValueType ==
    /\ duplicates \in [Slot -> Int \cup {Null}]
    /\ vpc \in [Thread -> ValueLabel]
    /\ arg \in [Thread -> Int] /\ at \in [Thread -> 0..Slots]
    /\ val \in [Thread -> Int] /\ added \in Int /\ returned \in Int
    /\ low \in [Thread -> Int \cup {Null}]

\* Where a thread is, and that it found the duplicate it works on.
Placed ==
    \A t \in Thread :
        /\ vpc[t] \in OnOne => at[t] \in Slot
        /\ vpc[t] \in OnFirst => at[t] = 0
        /\ vpc[t] \in {"add", "first"} => duplicates[at[t]] # Null
        /\ vpc[t] \notin {"rest", "read"} => val[t] = 0

\* What a duplicate counts for, and what some of them hold.
Amount(s) == IF duplicates[s] = Null THEN 0 ELSE duplicates[s]
Part(Q) == SumFunctionOnSet(duplicates, {s \in Q : duplicates[s] # Null})

InFlight == SumFunctionOnSet(val, Updating)

\* A reader has at most what the duplicates it has passed hold, and with the
\* others it had at least as much as there was.
Between ==
    \A t \in Thread :
        vpc[t] = "read" /\ low[t] # Null =>
            /\ low[t] <= val[t] + Part(at[t]..Slots - 1)
            /\ val[t] <= Part(0..at[t] - 1)

ValueInv == ValueType /\ Placed /\ Conserved /\ Between

---------------------------------------------------------------------------

\* Sums over duplicates are sums of integers over a finite set.
LEMMA PartFacts ==
  ASSUME ValueType, NEW Q \in SUBSET Slot
  PROVE  LET S == {s \in Q : duplicates[s] # Null}
         IN  /\ IsFiniteSet(S) /\ (\A y \in S : duplicates[y] \in Int)
             /\ Part(Q) \in Int
  <1> DEFINE S == {s \in Q : duplicates[s] # Null}
  <1>1. IsFiniteSet(S)
    <2>1. IsFiniteSet(Slot)
      BY ValueAssumption, FS_Interval DEF Slot
    <2>2. S \in SUBSET Slot
      OBVIOUS
    <2>3. QED
      BY <2>1, <2>2, FS_Subset
  <1>2. \A y \in S : duplicates[y] \in Int
    BY DEF ValueType
  <1>3. SumFunctionOnSet(duplicates, S) \in Int
    <2> HIDE DEF S
    <2>1. QED
      BY <1>1, <1>2, SumType
  <1>4. QED
    BY <1>1, <1>2, <1>3 DEF Part

\* What some duplicates hold when one of all duplicates changes.
LEMMA PartChanges ==
  ASSUME ValueType, NEW Q \in SUBSET Slot, NEW x \in Slot, NEW v \in Int,
         duplicates' = [duplicates EXCEPT ![x] = v]
  PROVE  Part(Q)' = IF x \in Q THEN Part(Q) + v - Amount(x) ELSE Part(Q)
  <1> DEFINE S == {s \in Q : duplicates[s] # Null}
             T == {s \in Q : duplicates'[s] # Null}
             d == duplicates
             e == duplicates'
  <1>0. v # Null
    BY ValueAssumption
  <1>1. IsFiniteSet(S) /\ (\A y \in S : d[y] \in Int) /\ Part(Q) \in Int
    BY PartFacts
  <1>2. /\ e[x] = v /\ (\A y \in Slot : y # x => e[y] = d[y])
        /\ (x \in Q => T = S \cup {x}) /\ (x \notin Q => T = S)
    BY <1>0 DEF ValueType
  <1>3. Part(Q) = SumFunctionOnSet(d, S) /\ Part(Q)' = SumFunctionOnSet(e, T)
    BY DEF Part
  <1>4. S \in SUBSET Slot /\ (x \in S <=> x \in Q /\ d[x] # Null)
    OBVIOUS
  <1> HIDE DEF S, T, d, e
  <1>5. CASE x \notin Q
    <2>1. \A y \in S : d[y] = e[y]
      BY <1>2, <1>4, <1>5
    <2>2. SumFunctionOnSet(d, S) = SumFunctionOnSet(e, S)
      BY <1>1, <2>1, SumSame
    <2>3. QED
      BY <1>2, <1>3, <1>5, <2>2
  <1>6. CASE x \in Q /\ d[x] = Null
    <2>1. x \notin S /\ T = S \cup {x}
      BY <1>2, <1>4, <1>6
    <2>2. \A y \in S : d[y] \in Int /\ e[y] = d[y]
      BY <1>1, <1>2, <1>4, <2>1
    <2>3. SumFunctionOnSet(e, S \cup {x}) = SumFunctionOnSet(d, S) + e[x]
      BY <1>1, <1>2, <2>1, <2>2, SumGrows
    <2>4. Amount(x) = 0
      BY <1>6 DEF Amount, d
    <2>5. QED
      BY <1>1, <1>2, <1>3, <1>6, <2>1, <2>3, <2>4
  <1>7. CASE x \in Q /\ d[x] # Null
    <2>1. x \in S /\ T = S
      BY <1>2, <1>4, <1>7
    <2>2. \A y \in S : d[y] \in Int /\ e[y] \in Int
      BY <1>1, <1>2, <1>4
    <2>3. \A y \in S \ {x} : e[y] = d[y]
      BY <1>2, <1>4
    <2>4. SumFunctionOnSet(e, S) = SumFunctionOnSet(d, S) - d[x] + e[x]
      BY <1>1, <2>1, <2>2, <2>3, SumChanges
    <2>5. Amount(x) = d[x] /\ d[x] \in Int
      BY <1>1, <1>7, <2>1 DEF Amount, d
    <2>6. QED
      BY <1>1, <1>2, <1>3, <1>7, <2>1, <2>4, <2>5
  <1>8. QED
    BY <1>5, <1>6, <1>7

\* ... and when one of them is left out.
LEMMA PartTakes ==
  ASSUME ValueType, NEW Q \in SUBSET Slot, NEW x \in Q
  PROVE  /\ Part(Q) = Amount(x) + Part(Q \ {x}) /\ Amount(x) \in Int
  <1> DEFINE S == {s \in Q : duplicates[s] # Null}
             T == {s \in Q \ {x} : duplicates[s] # Null}
  <1>1. IsFiniteSet(S) /\ (\A y \in S : duplicates[y] \in Int) /\ Part(Q) \in Int
    BY PartFacts
  <1>2. T = S \ {x}
    OBVIOUS
  <1>3. Part(Q) = SumFunctionOnSet(duplicates, S)
        /\ Part(Q \ {x}) = SumFunctionOnSet(duplicates, S \ {x})
    BY <1>2 DEF Part
  <1>4. x \in S <=> duplicates[x] # Null
    OBVIOUS
  <1> HIDE DEF S, T
  <1>5. CASE duplicates[x] # Null
    <2>1. SumFunctionOnSet(duplicates, S)
            = duplicates[x] + SumFunctionOnSet(duplicates, S \ {x})
      BY <1>1, <1>4, <1>5, SumTakes
    <2>2. Amount(x) = duplicates[x] /\ duplicates[x] \in Int
      BY <1>1, <1>4, <1>5 DEF Amount
    <2>3. QED
      BY <1>3, <2>1, <2>2, Zenon
  <1>6. CASE duplicates[x] = Null
    <2>1. S \ {x} = S
      BY <1>4, <1>6
    <2>2. Part(Q \ {x}) = Part(Q) /\ Amount(x) = 0
      BY <1>3, <1>6, <2>1 DEF Amount
    <2>3. QED
      BY <1>1, <2>2
  <1>7. QED
    BY <1>5, <1>6

\* All of them, and none.
LEMMA WholePart ==
  /\ Stored = Part(Slot) /\ Part({}) = 0
  <1>1. Part({}) = 0
    <2>1. {s \in {} : duplicates[s] # Null} = {}
      OBVIOUS
    <2>2. SumFunctionOnSet(duplicates, {}) = 0
      BY FS_EmptySet, SumUnfolds
    <2>3. QED
      BY <2>1, <2>2 DEF Part
  <1>2. QED
    BY <1>1 DEF Stored, Part

\* ... and so are those over updates.
LEMMA FlightFacts ==
  ASSUME ValueType
  PROVE  /\ IsFiniteSet(Updating) /\ InFlight \in Int
         /\ \A t \in Updating : val[t] \in Int
  <1>1. IsFiniteSet(Updating)
    BY ValueAssumption, FS_Subset DEF Updating
  <1>2. \A t \in Updating : val[t] \in Int
    BY DEF ValueType, Updating
  <1>3. QED
    BY <1>1, <1>2, SumType DEF InFlight

\* A thread goes to another label.
LEMMA GotoType ==
  ASSUME ValueType, NEW t \in Thread, NEW label \in ValueLabel,
         ValueGoto(t, label)
  PROVE  /\ vpc' \in [Thread -> ValueLabel] /\ vpc'[t] = label
         /\ \A u \in Thread \ {t} : vpc'[u] = vpc[u]
  BY DEF ValueGoto, ValueType

\* Only the thread that takes a step can get to a wrong place.
LEMMA PlacedStep ==
  ASSUME ValueType, Placed, NEW t \in Thread,
         \A s \in Slot : duplicates[s] # Null => duplicates'[s] # Null,
         \A u \in Thread \ {t} :
            vpc'[u] = vpc[u] /\ at'[u] = at[u] /\ val'[u] = val[u],
         vpc'[t] \in OnOne => at'[t] \in Slot,
         vpc'[t] \in OnFirst => at'[t] = 0,
         vpc'[t] \in {"add", "first"} => duplicates'[at'[t]] # Null,
         vpc'[t] \notin {"rest", "read"} => val'[t] = 0
  PROVE  Placed'
  <1> SUFFICES ASSUME NEW u \in Thread
               PROVE  (/\ vpc[u] \in OnOne => at[u] \in Slot
                       /\ vpc[u] \in OnFirst => at[u] = 0
                       /\ vpc[u] \in {"add", "first"} => duplicates[at[u]] # Null
                       /\ vpc[u] \notin {"rest", "read"} => val[u] = 0)'
    BY DEF Placed
  <1>1. CASE u = t
    BY <1>1
  <1>2. CASE u # t
    BY <1>2 DEF Placed, OnOne, OnFirst
  <1>3. QED
    BY <1>1, <1>2

LEMMA SlotRange == \A s \in Slot : s \in 0..Slots
  BY ValueAssumption DEF Slot

\* An operation begins.
LEMMA BeginStep ==
  ASSUME ValueType, Placed, NEW t \in Thread, NEW v \in Int, NEW s \in Slot,
         NEW label \in {"find add", "find first", "read"},
         label = "find first" => s = 0, BeginOp(t, label, v, s),
         low' \in [Thread -> Int \cup {Null}]
  PROVE  ValueType' /\ Placed'
  <1>0. label \in ValueLabel
    BY DEF ValueLabel, OnOne, OnFirst
  <1>1. s \in 0..Slots
    BY SlotRange
  <1>2. /\ vpc' \in [Thread -> ValueLabel] /\ vpc'[t] = label
        /\ \A u \in Thread \ {t} : vpc'[u] = vpc[u]
    BY <1>0, GotoType DEF BeginOp
  <1>3. ValueType'
    BY <1>1, <1>2 DEF BeginOp, ValueType
  <1>4. /\ at'[t] = s /\ val' = val /\ duplicates' = duplicates
        /\ \A u \in Thread \ {t} : at'[u] = at[u]
    BY <1>1 DEF BeginOp, ValueType
  <1>5. val[t] = 0
    BY DEF BeginOp, Placed
  <1>6. Placed'
    BY <1>2, <1>4, <1>5, PlacedStep DEF OnOne, OnFirst
  <1>7. QED
    BY <1>3, <1>6

\* The types and places survive every step.
LEMMA ValueTypeStep ==
  ASSUME ValueType, Placed, NEW t \in Thread,
         \/ Add(t) \/ Update(t) \/ Value(t) \/ Find(t) \/ Allocate(t)
         \/ FetchAdd(t) \/ ExchangeFirst(t) \/ ExchangeRest(t) \/ UpdateEnd(t)
         \/ AddUp(t) \/ ValueEnd(t)
  PROVE  ValueType' /\ Placed'
  <1>0. /\ Slots \in Nat /\ Slots > 0 /\ 0 \in Slot /\ 0 \in 0..Slots
        /\ 1 \in 0..Slots /\ Null \notin Int /\ Values \subseteq Int /\ t \in Nat
    BY ValueAssumption DEF Slot
  <1>1. CASE Add(t)
    <2>1. PICK v \in {1, -1} :
            BeginOp(t, "find add", v, RoundIndex(t)) /\ UNCHANGED low
      BY <1>1 DEF Add
    <2>2. RoundIndex(t) \in Slot
      BY <1>0 DEF RoundIndex, Slot
    <2>3. v \in Int
      OBVIOUS
    <2>4. low' \in [Thread -> Int \cup {Null}]
      BY <2>1 DEF ValueType
    <2>5. QED
      BY <2>1, <2>2, <2>3, <2>4, BeginStep
  <1>2. CASE Update(t)
    <2>1. PICK v \in Values : BeginOp(t, "find first", v, 0) /\ UNCHANGED low
      BY <1>2 DEF Update
    <2>2. v \in Int /\ low' \in [Thread -> Int \cup {Null}]
      BY <1>0, <2>1 DEF ValueType
    <2>3. QED
      BY <1>0, <2>1, <2>2, BeginStep
  <1>3. CASE Value(t)
    <2>1. Stored \in Int
      BY PartFacts, WholePart
    <2>2. BeginOp(t, "read", 0, 0) /\ low' \in [Thread -> Int \cup {Null}]
      BY <1>3, <2>1 DEF Value, ValueType
    <2>3. 0 \in Int
      OBVIOUS
    <2>4. QED
      BY <1>0, <2>2, <2>3, BeginStep
  <1>4. CASE Find(t)
    <2>1. PICK label \in {"add", "first", "new add", "new first"} :
            /\ ValueGoto(t, label)
            /\ label \in {"add", "first"} => duplicates[at[t]] # Null
            /\ vpc[t] = "find add" => label \in {"add", "new add"}
            /\ vpc[t] = "find first" => label \in {"first", "new first"}
      BY <1>4 DEF Find, ValueGoto
    <2>2. /\ vpc' \in [Thread -> ValueLabel] /\ vpc'[t] = label
          /\ \A u \in Thread \ {t} : vpc'[u] = vpc[u]
      <3>1. label \in ValueLabel
        BY DEF ValueLabel, OnOne, OnFirst
      <3>2. QED
        BY <2>1, <3>1, GotoType
    <2>3. ValueType'
      BY <1>0, <1>4, <2>1, <2>2 DEF Find, ValueType, Slot
    <2>4. Placed'
      BY <1>0, <1>4, <2>1, <2>2, PlacedStep
         DEF Find, ValueType, Placed, OnOne, OnFirst
    <2>5. QED
      BY <2>3, <2>4
  <1>5. CASE Allocate(t)
    <2>1. at[t] \in Slot /\ duplicates[at[t]] \in Int \cup {Null}
      BY <1>5 DEF Allocate, ValueType, Placed, OnOne, OnFirst
    <2> DEFINE w == IF duplicates[at[t]] = Null THEN 0 ELSE duplicates[at[t]]
    <2>2. duplicates' = [duplicates EXCEPT ![at[t]] = w] /\ w \in Int
      <3>1. w \in Int
        BY <2>1
      <3>2. QED
        BY <1>5, <3>1 DEF Allocate, ExchangePointer
    <2> HIDE DEF w
    <2>3. /\ duplicates' \in [Slot -> Int \cup {Null}] /\ duplicates'[at[t]] # Null
          /\ \A s \in Slot : duplicates[s] # Null => duplicates'[s] # Null
      BY <1>0, <2>1, <2>2 DEF ValueType
    <2>4. PICK label \in {"add", "first"} :
            ValueGoto(t, label) /\ (label = "first" => vpc[t] = "new first")
      BY <1>5 DEF Allocate, ValueGoto
    <2>5. /\ vpc' \in [Thread -> ValueLabel] /\ vpc'[t] = label
          /\ \A u \in Thread \ {t} : vpc'[u] = vpc[u]
      <3>1. label \in ValueLabel
        BY DEF ValueLabel, OnOne, OnFirst
      <3>2. QED
        BY <2>4, <3>1, GotoType
    <2>6. ValueType'
      BY <1>0, <1>5, <2>1, <2>2, <2>3, <2>4, <2>5 DEF Allocate, ValueType, Slot
    <2>7. Placed'
      BY <1>0, <1>5, <2>1, <2>2, <2>3, <2>4, <2>5, PlacedStep
         DEF Allocate, ValueType, Placed, OnOne, OnFirst
    <2>8. QED
      BY <2>6, <2>7
  <1>6. CASE FetchAdd(t)
    <2>1. at[t] \in Slot /\ duplicates[at[t]] \in Int
      BY <1>6 DEF FetchAdd, ValueType, Placed, OnOne
    <2>2. /\ duplicates' \in [Slot -> Int \cup {Null}]
          /\ \A s \in Slot : duplicates[s] # Null => duplicates'[s] # Null
      BY <1>0, <1>6, <2>1 DEF FetchAdd, ValueType
    <2>3. low' \in [Thread -> Int \cup {Null}]
      BY <1>6 DEF FetchAdd, Shrunk, ValueType
    <2>4. /\ vpc' \in [Thread -> ValueLabel] /\ vpc'[t] = "idle"
          /\ \A u \in Thread \ {t} : vpc'[u] = vpc[u]
      <3>1. "idle" \in ValueLabel
        BY DEF ValueLabel, OnOne, OnFirst
      <3>2. ValueGoto(t, "idle")
        BY <1>6 DEF FetchAdd
      <3>3. QED
        BY <3>1, <3>2, GotoType
    <2>5. ValueType'
      <3>1. /\ arg' \in [Thread -> Int] /\ at' \in [Thread -> 0..Slots]
            /\ val' \in [Thread -> Int] /\ returned' \in Int
        BY <1>6 DEF FetchAdd, ValueType
      <3>2. added' \in Int
        <4>1. arg[t] \in Int /\ added \in Int /\ added' = added + arg[t]
          BY <1>6 DEF FetchAdd, ValueType
        <4>2. QED
          BY ONLY <4>1
      <3>3. QED
        BY <2>2, <2>3, <2>4, <3>1, <3>2 DEF ValueType, Slot
    <2>6. Placed'
      BY <1>0, <1>6, <2>1, <2>2, <2>3, <2>4, PlacedStep
         DEF FetchAdd, ValueType, Placed, OnOne, OnFirst
    <2>7. QED
      BY <2>5, <2>6
  <1>7. CASE ExchangeFirst(t)
    <2>1. at[t] = 0 /\ duplicates[0] \in Int
      BY <1>0, <1>7 DEF ExchangeFirst, ValueType, Placed, OnOne, OnFirst
    <2>2. /\ duplicates' \in [Slot -> Int \cup {Null}]
          /\ \A s \in Slot : duplicates[s] # Null => duplicates'[s] # Null
      BY <1>0, <1>7, <2>1 DEF ExchangeFirst, ValueType
    <2>3. /\ \A u \in Thread \ {t} : at'[u] = at[u] /\ val'[u] = val[u]
          /\ val' \in [Thread -> Int]
      BY <1>7, <2>1 DEF ExchangeFirst, ValueType
    <2>4. /\ vpc' \in [Thread -> ValueLabel] /\ vpc'[t] = "rest"
          /\ \A u \in Thread \ {t} : vpc'[u] = vpc[u]
      <3>1. "rest" \in ValueLabel
        BY DEF ValueLabel, OnOne, OnFirst
      <3>2. ValueGoto(t, "rest")
        BY <1>7 DEF ExchangeFirst
      <3>3. QED
        BY <3>1, <3>2, GotoType
    <2>5. ValueType'
      BY <1>0, <1>7, <2>1, <2>2, <2>3, <2>4
         DEF ExchangeFirst, Shrunk, ValueType, Slot
    <2>6. Placed'
      BY <1>0, <1>7, <2>1, <2>2, <2>3, <2>4, PlacedStep
         DEF ExchangeFirst, ValueType, Placed, OnOne, OnFirst
    <2>7. QED
      BY <2>5, <2>6
  <1>8. CASE ExchangeRest(t)
    <2>1. at[t] \in Slot /\ at[t] + 1 \in 0..Slots
      BY <1>0, <1>8 DEF ExchangeRest, ValueType, Slot
    <2>2. /\ duplicates' \in [Slot -> Int \cup {Null}]
          /\ \A s \in Slot : duplicates[s] # Null => duplicates'[s] # Null
      BY <1>0, <1>8, <2>1 DEF ExchangeRest, ValueType
    <2>3. val' \in [Thread -> Int] /\ \A u \in Thread \ {t} : val'[u] = val[u]
      BY <1>0, <1>8, <2>1 DEF ExchangeRest, ValueType
    <2>4. ValueType'
      BY <1>0, <1>8, <2>1, <2>2, <2>3 DEF ExchangeRest, Shrunk, ValueType, Slot
    <2>5. Placed'
      BY <1>0, <1>8, <2>1, <2>2, <2>3, PlacedStep
         DEF ExchangeRest, ValueType, Placed, OnOne, OnFirst
    <2>6. QED
      BY <2>4, <2>5
  <1>9. CASE UpdateEnd(t)
    <2>1. /\ vpc' \in [Thread -> ValueLabel] /\ vpc'[t] = "idle"
          /\ \A u \in Thread \ {t} : vpc'[u] = vpc[u]
      <3>1. "idle" \in ValueLabel
        BY DEF ValueLabel, OnOne, OnFirst
      <3>2. ValueGoto(t, "idle")
        BY <1>9 DEF UpdateEnd
      <3>3. QED
        BY <3>1, <3>2, GotoType
    <2>2. ValueType'
      <3>1. val' \in [Thread -> Int] /\ returned' \in Int
        BY <1>9 DEF UpdateEnd, ValueType
      <3>2. low' \in [Thread -> Int \cup {Null}]
        BY <1>9 DEF UpdateEnd, ValueType
      <3>3. QED
        BY <1>9, <2>1, <3>1, <3>2 DEF UpdateEnd, ValueType
    <2>3. Placed'
      BY <1>0, <1>9, <2>1, PlacedStep
         DEF UpdateEnd, ValueType, Placed, OnOne, OnFirst
    <2>4. QED
      BY <2>2, <2>3
  <1>10. CASE AddUp(t)
    <2>1. at[t] \in Slot /\ at[t] + 1 \in 0..Slots
      BY <1>0, <1>10 DEF AddUp, ValueType, Slot
    <2>2. val' \in [Thread -> Int] /\ \A u \in Thread \ {t} : val'[u] = val[u]
      BY <1>0, <1>10, <2>1 DEF AddUp, Read, ValueType
    <2>3. ValueType'
      BY <1>0, <1>10, <2>1, <2>2 DEF AddUp, ValueType, Slot
    <2>4. Placed'
      BY <1>0, <1>10, <2>1, <2>2, PlacedStep
         DEF AddUp, ValueType, Placed, OnOne, OnFirst
    <2>5. QED
      BY <2>3, <2>4
  <1>11. CASE ValueEnd(t)
    <2>1. /\ vpc' \in [Thread -> ValueLabel] /\ vpc'[t] = "idle"
          /\ \A u \in Thread \ {t} : vpc'[u] = vpc[u]
      <3>1. "idle" \in ValueLabel
        BY DEF ValueLabel, OnOne, OnFirst
      <3>2. ValueGoto(t, "idle")
        BY <1>11 DEF ValueEnd
      <3>3. QED
        BY <3>1, <3>2, GotoType
    <2>2. ValueType'
      <3>1. val' \in [Thread -> Int] /\ returned' \in Int
        BY <1>11 DEF ValueEnd, ValueType
      <3>2. low' \in [Thread -> Int \cup {Null}]
        BY <1>11 DEF ValueEnd, ValueType
      <3>3. QED
        BY <1>11, <2>1, <3>1, <3>2 DEF ValueEnd, ValueType
    <2>3. Placed'
      BY <1>0, <1>11, <2>1, PlacedStep
         DEF ValueEnd, ValueType, Placed, OnOne, OnFirst
    <2>4. QED
      BY <2>2, <2>3
  <1>12. QED
    BY <1>1, <1>2, <1>3, <1>4, <1>5, <1>6, <1>7, <1>8, <1>9, <1>10, <1>11

---------------------------------------------------------------------------

ValueStep(t) ==
    \/ Add(t) \/ Update(t) \/ Value(t) \/ Find(t) \/ Allocate(t)
    \/ FetchAdd(t) \/ ExchangeFirst(t) \/ ExchangeRest(t) \/ UpdateEnd(t)
    \/ AddUp(t) \/ ValueEnd(t)

\* The steps that only move a thread.
LEMMA QuietStep ==
  ASSUME ValueType, Placed, NEW t \in Thread,
         Add(t) \/ Update(t) \/ Value(t) \/ Find(t) \/ AddUp(t) \/ ValueEnd(t)
  PROVE  /\ duplicates' = duplicates /\ added' = added /\ returned' = returned
         /\ InFlight' = InFlight
  <1>1. duplicates' = duplicates /\ added' = added /\ returned' = returned
    BY DEF Add, Update, Value, BeginOp, Find, AddUp, ValueEnd
  <1>2. t \notin Updating /\ t \notin Updating'
    <2>1. CASE Add(t) \/ Update(t) \/ Value(t)
      BY <2>1 DEF Add, Update, Value, BeginOp, ValueGoto, ValueType, Updating
    <2>2. CASE Find(t)
      BY <2>2 DEF Find, ValueGoto, ValueType, Updating
    <2>3. CASE AddUp(t) \/ ValueEnd(t)
      BY <2>3 DEF AddUp, ValueEnd, ValueGoto, ValueType, Updating
    <2>4. QED
      BY <2>1, <2>2, <2>3
  <1>3. \A u \in Thread \ {t} : vpc'[u] = vpc[u] /\ val'[u] = val[u]
    <2>1. CASE Add(t) \/ Update(t) \/ Value(t)
      BY <2>1 DEF Add, Update, Value, BeginOp, ValueGoto, ValueType
    <2>2. CASE Find(t)
      BY <2>2 DEF Find, ValueGoto, ValueType
    <2>3. CASE AddUp(t) \/ ValueEnd(t)
      BY <2>3 DEF AddUp, ValueEnd, ValueGoto, ValueType
    <2>4. QED
      BY <2>1, <2>2, <2>3
  <1>4. Updating' = Updating
    BY <1>2, <1>3 DEF Updating
  <1>5. \A u \in Updating : val[u] = val'[u]
    BY <1>2, <1>3 DEF Updating
  <1>6. SumFunctionOnSet(val, Updating) = SumFunctionOnSet(val', Updating)
    BY <1>5, FlightFacts, SumSame
  <1>7. QED
    BY <1>1, <1>4, <1>6 DEF InFlight

\* The other steps that leave the sums of update() alone.
LEMMA FlightSame ==
  ASSUME ValueType, Placed, NEW t \in Thread, Allocate(t) \/ FetchAdd(t)
  PROVE  InFlight' = InFlight
  <1>1. val' = val
    BY DEF Allocate, FetchAdd
  <1>2. Updating' = Updating
    BY DEF Allocate, FetchAdd, ValueGoto, ValueType, Updating
  <1>3. QED
    BY <1>1, <1>2 DEF InFlight

\* What an addition or an allocation does to a duplicate.
LEMMA AddStep ==
  ASSUME ValueType, Placed, NEW t \in Thread, Allocate(t) \/ FetchAdd(t)
  PROVE  /\ at[t] \in Slot /\ Amount(at[t]) \in Int
         /\ \A Q \in SUBSET Slot :
              Part(Q)' = IF at[t] \in Q /\ FetchAdd(t) THEN Part(Q) + arg[t]
                         ELSE Part(Q)
  <1>1. at[t] \in Slot
    BY DEF Allocate, FetchAdd, Placed, OnOne, OnFirst
  <1>2. Amount(at[t]) \in Int /\ arg[t] \in Int
    BY <1>1 DEF Amount, ValueType
  <1>3. CASE Allocate(t)
    <2>1. duplicates' = [duplicates EXCEPT ![at[t]] = Amount(at[t])]
      BY <1>3 DEF Allocate, ExchangePointer, Amount
    <2>2. ~FetchAdd(t)
      BY <1>3 DEF Allocate, FetchAdd
    <2>3. ASSUME NEW Q \in SUBSET Slot PROVE Part(Q)' = Part(Q)
      <3>1. Part(Q) \in Int
        BY PartFacts
      <3>2. Part(Q)' = IF at[t] \in Q THEN Part(Q) + Amount(at[t]) - Amount(at[t])
                       ELSE Part(Q)
        BY <1>1, <1>2, <2>1, PartChanges
      <3>3. QED
        BY <1>2, <3>1, <3>2
    <2>4. QED
      BY <1>1, <1>2, <2>2, <2>3
  <1>4. CASE FetchAdd(t)
    <2>1. duplicates[at[t]] # Null
      BY <1>4 DEF FetchAdd, Placed
    <2>2. /\ duplicates' = [duplicates EXCEPT ![at[t]] = Amount(at[t]) + arg[t]]
          /\ Amount(at[t]) + arg[t] \in Int
      BY <1>2, <1>4, <2>1 DEF FetchAdd, Amount
    <2>3. ASSUME NEW Q \in SUBSET Slot
          PROVE  Part(Q)' = IF at[t] \in Q THEN Part(Q) + arg[t] ELSE Part(Q)
      <3>1. Part(Q) \in Int
        BY PartFacts
      <3>2. Part(Q)' = IF at[t] \in Q
                       THEN Part(Q) + (Amount(at[t]) + arg[t]) - Amount(at[t])
                       ELSE Part(Q)
        BY <1>1, <2>2, PartChanges
      <3>3. QED
        BY <1>2, <3>1, <3>2
    <2>4. QED
      BY <1>1, <1>2, <1>4, <2>3
  <1>5. QED
    BY <1>3, <1>4

\* Nothing is lost or counted twice in a step.
LEMMA ConservedStep ==
  ASSUME ValueType, Placed, Conserved, NEW t \in Thread, ValueStep(t)
  PROVE  Conserved'
  <1>0. /\ Part(Slot) \in Int /\ InFlight \in Int /\ returned \in Int
        /\ added \in Int /\ added = Part(Slot) + returned + InFlight
    BY PartFacts, FlightFacts, WholePart DEF ValueType, Conserved, InFlight
  <1>1. SUFFICES added' = Part(Slot)' + returned' + InFlight'
    BY DEF Conserved, InFlight, Stored, Part
  <1>2. CASE Add(t) \/ Update(t) \/ Value(t) \/ Find(t) \/ AddUp(t) \/ ValueEnd(t)
    BY <1>0, <1>2, QuietStep DEF Part
  <1>3. CASE Allocate(t)
    <2>1. Part(Slot)' = Part(Slot)
      BY <1>3, AddStep DEF Allocate, FetchAdd
    <2>2. QED
      BY <1>0, <1>3, <2>1, FlightSame DEF Allocate
  <1>4. CASE FetchAdd(t)
    <2>1. Part(Slot)' = Part(Slot) + arg[t]
      BY <1>4, AddStep
    <2>2. arg[t] \in Int /\ added' = added + arg[t] /\ returned' = returned
      BY <1>4 DEF FetchAdd, ValueType
    <2>3. InFlight' = InFlight
      BY <1>4, FlightSame
    <2>4. QED
      BY <1>0, <2>1, <2>2, <2>3
  <1>5. CASE ExchangeFirst(t)
    <2>1. /\ at[t] = 0 /\ 0 \in Slot /\ duplicates[0] # Null /\ arg[t] \in Int
          /\ duplicates[0] \in Int /\ Amount(0) = duplicates[0]
      BY <1>5, ValueAssumption
         DEF ExchangeFirst, Placed, OnOne, OnFirst, ValueType, Slot, Amount
    <2>2. Part(Slot)' = Part(Slot) + arg[t] - duplicates[0]
      BY <1>5, <2>1, PartChanges DEF ExchangeFirst
    <2>3. t \notin Updating /\ Updating' = Updating \cup {t}
      BY <1>5 DEF ExchangeFirst, ValueGoto, ValueType, Updating
    <2>4. /\ val'[t] = duplicates[0]
          /\ \A u \in Updating : val[u] \in Int /\ val'[u] = val[u]
      BY <1>5, <2>3, FlightFacts DEF ExchangeFirst, ValueType, Updating
    <2>5. InFlight' = InFlight + duplicates[0]
      <3>1. SumFunctionOnSet(val', Updating \cup {t})
              = SumFunctionOnSet(val, Updating) + val'[t]
        BY <2>1, <2>3, <2>4, FlightFacts, SumGrows
      <3>2. QED
        BY <2>3, <2>4, <3>1 DEF InFlight
    <2>6. QED
      BY <1>0, <1>5, <2>1, <2>2, <2>5 DEF ExchangeFirst
  <1>6. CASE ExchangeRest(t)
    <2>1. at[t] \in Slot
      BY <1>6, ValueAssumption DEF ExchangeRest, ValueType, Slot
    <2>2. t \in Updating /\ Updating' = Updating
      BY <1>6 DEF ExchangeRest, Updating
    <2>3. CASE duplicates[at[t]] = Null
      <3>1. duplicates' = duplicates /\ val' = val
        BY <1>6, <2>3 DEF ExchangeRest
      <3>2. QED
        BY <1>0, <1>6, <2>2, <3>1 DEF ExchangeRest, Part, InFlight
    <2>4. CASE duplicates[at[t]] # Null
      <3>1. duplicates[at[t]] \in Int /\ Amount(at[t]) = duplicates[at[t]]
        BY <2>1, <2>4 DEF ValueType, Amount
      <3>2. Part(Slot)' = Part(Slot) + 0 - duplicates[at[t]]
        BY <1>6, <2>1, <2>4, <3>1, PartChanges DEF ExchangeRest
      <3>3. /\ val'[t] = val[t] + duplicates[at[t]] /\ val[t] \in Int
            /\ \A u \in Updating \ {t} : val'[u] = val[u]
        BY <1>6, <2>4 DEF ExchangeRest, ValueType, Updating
      <3>4. \A u \in Updating : val[u] \in Int /\ val'[u] \in Int
        BY <3>1, <3>3, FlightFacts
      <3>5. InFlight' = InFlight - val[t] + val'[t]
        <4>1. SumFunctionOnSet(val', Updating)
                = SumFunctionOnSet(val, Updating) - val[t] + val'[t]
          BY <2>2, <3>3, <3>4, FlightFacts, SumChanges
        <4>2. QED
          BY <2>2, <4>1 DEF InFlight
      <3>6. QED
        BY <1>0, <1>6, <3>1, <3>2, <3>3, <3>5 DEF ExchangeRest
    <2>5. QED
      BY <2>3, <2>4
  <1>7. CASE UpdateEnd(t)
    <2>1. t \in Updating /\ Updating' = Updating \ {t} /\ val[t] \in Int
      BY <1>7 DEF UpdateEnd, ValueGoto, ValueType, Updating
    <2>2. \A u \in Updating \ {t} : val[u] = val'[u]
      BY <1>7 DEF UpdateEnd, ValueType, Updating
    <2>3. IsFiniteSet(Updating \ {t})
      BY FlightFacts, FS_Subset
    <2>4. SumFunctionOnSet(val, Updating)
            = val[t] + SumFunctionOnSet(val, Updating \ {t})
      BY <2>1, FlightFacts, SumTakes
    <2>5. SumFunctionOnSet(val, Updating \ {t})
            = SumFunctionOnSet(val', Updating \ {t})
      BY <2>2, <2>3, SumSame
    <2>6. SumFunctionOnSet(val, Updating \ {t}) \in Int
      BY <2>3, FlightFacts, SumType
    <2>7. InFlight = val[t] + InFlight' /\ InFlight' \in Int
      BY <2>1, <2>4, <2>5, <2>6 DEF InFlight
    <2>8. /\ Part(Slot)' = Part(Slot) /\ added' = added
          /\ returned' = returned + val[t]
      BY <1>7 DEF UpdateEnd, Part
    <2>9. QED
      BY <1>0, <2>1, <2>7, <2>8
  <1>8. QED
    BY <1>2, <1>3, <1>4, <1>5, <1>6, <1>7 DEF ValueStep

---------------------------------------------------------------------------

\* A reader that has passed the duplicates below n goes on to the next one.
LEMMA NextPart ==
  ASSUME ValueType, NEW n \in Slot
  PROVE  /\ Part(n..Slots - 1) = Amount(n) + Part(n + 1..Slots - 1)
         /\ Part(0..n) = Amount(n) + Part(0..n - 1) /\ Amount(n) \in Int
         /\ Part(n + 1..Slots - 1) \in Int /\ Part(0..n - 1) \in Int
  <1>0. Slots \in Nat
    BY ValueAssumption
  <1>1. /\ n..Slots - 1 \in SUBSET Slot /\ n \in n..Slots - 1
        /\ (n..Slots - 1) \ {n} = n + 1..Slots - 1
        /\ n + 1..Slots - 1 \in SUBSET Slot
    BY <1>0 DEF Slot
  <1>2. /\ 0..n \in SUBSET Slot /\ n \in 0..n /\ (0..n) \ {n} = 0..n - 1
        /\ 0..n - 1 \in SUBSET Slot
    BY <1>0 DEF Slot
  <1>3. /\ Part(n..Slots - 1) = Amount(n) + Part((n..Slots - 1) \ {n})
        /\ Amount(n) \in Int
    BY <1>1, PartTakes
  <1>4. Part(0..n) = Amount(n) + Part((0..n) \ {n})
    BY <1>2, PartTakes
  <1>5. Part(n + 1..Slots - 1) \in Int /\ Part(0..n - 1) \in Int
    BY <1>1, <1>2, PartFacts
  <1>6. QED
    BY <1>1, <1>2, <1>3, <1>4, <1>5

\* As long as a reader has a lower bound nothing is taken out.
LEMMA PartsGrow ==
  ASSUME ValueType, Placed, NEW t \in Thread, ValueStep(t),
         NEW u \in Thread, low'[u] # Null, NEW Q \in SUBSET Slot
  PROVE  Part(Q) \in Int /\ Part(Q)' \in Int /\ Part(Q) <= Part(Q)'
  <1>0. Part(Q) \in Int
    BY PartFacts
  <1>1. ~Shrunk
    BY DEF Shrunk
  <1>2. CASE Add(t) \/ Update(t) \/ Value(t) \/ Find(t) \/ AddUp(t) \/ ValueEnd(t)
    BY <1>0, <1>2, QuietStep DEF Part
  <1>3. CASE Allocate(t)
    <2>1. ~FetchAdd(t)
      BY <1>3 DEF Allocate, FetchAdd
    <2>2. Part(Q)' = Part(Q)
      BY <1>3, <2>1, AddStep
    <2>3. QED
      BY <1>0, <2>2
  <1>4. CASE FetchAdd(t)
    <2>1. arg[t] \in Int /\ arg[t] >= 0
      BY <1>1, <1>4 DEF FetchAdd, ValueType
    <2>2. Part(Q)' = IF at[t] \in Q THEN Part(Q) + arg[t] ELSE Part(Q)
      BY <1>4, AddStep
    <2>3. QED
      BY <1>0, <2>1, <2>2
  <1>5. CASE ExchangeFirst(t) \/ ExchangeRest(t)
    BY <1>1, <1>5 DEF ExchangeFirst, ExchangeRest
  <1>6. CASE UpdateEnd(t)
    BY <1>0, <1>6 DEF UpdateEnd, Part
  <1>7. QED
    BY <1>2, <1>3, <1>4, <1>5, <1>6 DEF ValueStep

\* The bounds of another thread that reads.
LEMMA OtherReader ==
  ASSUME ValueInv, NEW t \in Thread, ValueStep(t), NEW u \in Thread, u # t,
         vpc'[u] = "read", low'[u] # Null
  PROVE  (/\ low[u] <= val[u] + Part(at[u]..Slots - 1)
          /\ val[u] <= Part(0..at[u] - 1))'
  <1>0. /\ ValueType /\ Placed /\ Slots \in Nat
        /\ at[u] \in 0..Slots /\ val[u] \in Int
    BY ValueAssumption DEF ValueInv, ValueType
  <1>1. /\ vpc'[u] = vpc[u] /\ at'[u] = at[u] /\ val'[u] = val[u]
        /\ low'[u] = low[u]
    <2>1. CASE Add(t) \/ Update(t) \/ Value(t)
      BY <1>0, <2>1 DEF Add, Update, Value, BeginOp, ValueGoto, ValueType
    <2>2. CASE Find(t) \/ Allocate(t)
      BY <1>0, <2>2 DEF Find, Allocate, ValueGoto, ValueType
    <2>3. CASE FetchAdd(t)
      BY <1>0, <2>3 DEF FetchAdd, Shrunk, ValueGoto, ValueType
    <2>4. CASE ExchangeFirst(t) \/ ExchangeRest(t)
      BY <2>4 DEF ExchangeFirst, ExchangeRest, Shrunk
    <2>5. CASE UpdateEnd(t) \/ AddUp(t) \/ ValueEnd(t)
      BY <1>0, <2>5 DEF UpdateEnd, AddUp, ValueEnd, ValueGoto, ValueType
    <2>6. QED
      BY <2>1, <2>2, <2>3, <2>4, <2>5 DEF ValueStep
  <1>2. PICK n \in 0..Slots : n = at[u]
    BY <1>0
  <1>3. n..Slots - 1 \in SUBSET Slot /\ 0..n - 1 \in SUBSET Slot
    BY <1>0 DEF Slot
  <1>4. low[u] \in Int
    BY <1>1 DEF ValueInv, ValueType
  <1>5. low[u] <= val[u] + Part(n..Slots - 1) /\ val[u] <= Part(0..n - 1)
    BY <1>1, <1>2 DEF ValueInv, Between
  <1>6. /\ Part(n..Slots - 1) \in Int /\ Part(n..Slots - 1)' \in Int
        /\ Part(n..Slots - 1) <= Part(n..Slots - 1)'
    BY <1>0, <1>3, PartsGrow
  <1>7. /\ Part(0..n - 1) \in Int /\ Part(0..n - 1)' \in Int
        /\ Part(0..n - 1) <= Part(0..n - 1)'
    BY <1>0, <1>3, PartsGrow
  <1>8. low'[u] <= val'[u] + Part(n..Slots - 1)' /\ val'[u] <= Part(0..n - 1)'
    BY <1>0, <1>1, <1>4, <1>5, <1>6, <1>7
  <1>9. at'[u] = n
    BY <1>1, <1>2
  <1>10. QED
    BY <1>8, <1>9

\* The bounds of the thread that takes the step.
LEMMA OwnReader ==
  ASSUME ValueInv, NEW t \in Thread, ValueStep(t),
         vpc'[t] = "read", low'[t] # Null
  PROVE  (/\ low[t] <= val[t] + Part(at[t]..Slots - 1)
          /\ val[t] <= Part(0..at[t] - 1))'
  <1>0. /\ ValueType /\ Placed /\ Slots \in Nat
        /\ at[t] \in 0..Slots /\ val[t] \in Int
    BY ValueAssumption DEF ValueInv, ValueType
  <1>1. Value(t) \/ AddUp(t)
    <2>1. ~Add(t) /\ ~Update(t)
      BY <1>0 DEF Add, Update, BeginOp, ValueGoto, ValueType
    <2>2. ~Find(t)
      BY <1>0 DEF Find, ValueGoto, ValueType
    <2>3. ~Allocate(t)
      BY <1>0 DEF Allocate, ValueGoto, ValueType
    <2>4. ~FetchAdd(t)
      BY <1>0 DEF FetchAdd, ValueGoto, ValueType
    <2>5. ~ExchangeFirst(t) /\ ~ExchangeRest(t)
      BY <1>0 DEF ExchangeFirst, ExchangeRest, ValueGoto, ValueType
    <2>6. ~UpdateEnd(t) /\ ~ValueEnd(t)
      BY <1>0 DEF UpdateEnd, ValueEnd, ValueGoto, ValueType
    <2>7. QED
      BY <2>1, <2>2, <2>3, <2>4, <2>5, <2>6 DEF ValueStep
  <1>2. CASE Value(t)
    <2>1. /\ at'[t] = 0 /\ val'[t] = 0 /\ low'[t] = Stored
          /\ duplicates' = duplicates
      BY <1>0, <1>2 DEF Value, BeginOp, ValueType, Placed
    <2>2. Part(0..Slots - 1)' = Stored /\ Stored \in Int
      <3>1. Part(Slot) \in Int
        BY <1>0, PartFacts
      <3>2. QED
        BY <2>1, <3>1, WholePart DEF Part, Slot
    <2>3. Part(0..0 - 1)' = 0
      <3>1. 0..0 - 1 = {}
        OBVIOUS
      <3>2. Part({})' = 0
        BY <2>1, WholePart DEF Part
      <3>3. QED
        BY <3>1, <3>2 DEF Part
    <2>4. /\ low'[t] <= val'[t] + Part(0..Slots - 1)'
          /\ val'[t] <= Part(0..0 - 1)'
      BY <2>1, <2>2, <2>3
    <2>5. QED
      BY <2>1, <2>4
  <1>3. CASE AddUp(t)
    <2>0. PICK n \in Slot : n = at[t]
      BY <1>0, <1>3 DEF AddUp, Slot
    <2>1. n \in Nat
      BY <1>0 DEF Slot
    <2>2. /\ at'[t] = n + 1 /\ low'[t] = low[t] /\ duplicates' = duplicates
          /\ vpc[t] = "read" /\ low[t] # Null
      BY <1>0, <1>3, <2>0 DEF AddUp, ValueType
    <2>3. low[t] \in Int
      BY <2>2 DEF ValueInv, ValueType
    <2>4. Amount(n) \in Int
      BY <1>0, <2>0 DEF Amount, ValueType
    <2>5. val'[t] = val[t] + Amount(n)
      BY <1>0, <1>3, <2>0 DEF AddUp, Read, Amount, ValueType
    <2>6. low[t] <= val[t] + Part(n..Slots - 1) /\ val[t] <= Part(0..n - 1)
      BY <2>0, <2>2 DEF ValueInv, Between
    <2>7. /\ Part(n + 1..Slots - 1)' = Part(n + 1..Slots - 1)
          /\ Part(0..n)' = Part(0..n)
      BY <2>2 DEF Part
    <2>8. /\ low'[t] <= val'[t] + Part(n + 1..Slots - 1)'
          /\ val'[t] <= Part(0..n)'
      BY <1>0, <2>2, <2>3, <2>4, <2>5, <2>6, <2>7, NextPart
    <2>9. (n + 1) - 1 = n
      BY <2>1
    <2>10. QED
      BY <2>2, <2>8, <2>9
  <1>4. QED
    BY <1>1, <1>2, <1>3

\* The invariant is inductive.
LEMMA ValueInvStep == ValueInv /\ [ValueNext]_valueVars => ValueInv'
  <1> SUFFICES ASSUME ValueInv, [ValueNext]_valueVars PROVE ValueInv'
    OBVIOUS
  <1>1. CASE UNCHANGED valueVars
    <2>1. ValueType' /\ Placed'
      BY <1>1 DEF valueVars, ValueInv, ValueType, Placed
    <2>2. Conserved' /\ Between'
      BY <1>1 DEF valueVars, ValueInv, Conserved, Between, Stored, Part, Updating
    <2>3. QED
      BY <2>1, <2>2 DEF ValueInv
  <1>2. ASSUME NEW t \in Thread, ValueStep(t)
        PROVE  ValueInv'
    <2>1. ValueType' /\ Placed'
      BY <1>2, ValueTypeStep DEF ValueInv, ValueStep
    <2>2. Conserved'
      BY <1>2, ConservedStep DEF ValueInv
    <2>3. ASSUME NEW u \in Thread, vpc'[u] = "read", low'[u] # Null
          PROVE  (/\ low[u] <= val[u] + Part(at[u]..Slots - 1)
                  /\ val[u] <= Part(0..at[u] - 1))'
      <3>1. CASE u = t
        BY <1>2, <2>3, <3>1, OwnReader
      <3>2. CASE u # t
        BY <1>2, <2>3, <3>2, OtherReader
      <3>3. QED
        BY <3>1, <3>2
    <2>4. Between'
      BY <2>3 DEF Between
    <2>5. QED
      BY <2>1, <2>2, <2>4 DEF ValueInv
  <1>3. QED
    BY <1>1, <1>2 DEF ValueNext, ValueStep

LEMMA ValueInvInit == ValueInit => ValueInv
  <1> SUFFICES ASSUME ValueInit PROVE ValueInv
    OBVIOUS
  <1>0. Slots \in Nat /\ Slots > 0
    BY ValueAssumption
  <1>1. ValueType
    <2>1. 0 \in 0..Slots
      BY <1>0
    <2>2. "idle" \in ValueLabel
      BY DEF ValueLabel
    <2>3. QED
      BY <2>1, <2>2 DEF ValueInit, ValueType
  <1>2. Placed /\ Between
    BY DEF ValueInit, Placed, Between, OnOne, OnFirst
  <1>3. Conserved
    <2>1. {s \in Slot : duplicates[s] # Null} = {} /\ Updating = {}
      BY DEF ValueInit, Updating
    <2>2. \A f : SumFunctionOnSet(f, {}) = 0
      BY FS_EmptySet, SumUnfolds
    <2>3. Stored = 0 /\ SumFunctionOnSet(val, Updating) = 0
      BY <2>1, <2>2 DEF Stored
    <2>4. QED
      BY <2>3 DEF ValueInit, Conserved
  <1>4. QED
    BY <1>1, <1>2, <1>3 DEF ValueInv

\* What inc(), dec() and update() put in is stored, has been returned by an
\* update() or is in the hands of one, for every number of threads, duplicates
\* and values: no allocation that loses its exchange and no interleaving of
\* updates loses or doubles anything.
THEOREM NothingLost == ValueSpec => []Conserved
  <1>1. ValueInv => Conserved
    BY DEF ValueInv
  <1>2. QED
    BY <1>1, ValueInvInit, ValueInvStep, PTL DEF ValueSpec

\* The result of value() lies between what was stored when it began and what is
\* stored when it returns, unless something was taken out in between.
THEOREM ReadsBetween == ValueSpec => []ReadBetween
  <1>1. ValueInv => ReadBetween
    <2> SUFFICES ASSUME ValueInv, NEW t \in Thread, vpc[t] = "read",
                        at[t] = Slots, low[t] # Null
                 PROVE  low[t] <= val[t] /\ val[t] <= Stored
      BY DEF ReadBetween
    <2>1. Slots \in Nat /\ val[t] \in Int /\ low[t] \in Int
      BY ValueAssumption DEF ValueInv, ValueType
    <2>2. /\ low[t] <= val[t] + Part(Slots..Slots - 1)
          /\ val[t] <= Part(0..Slots - 1)
      BY DEF ValueInv, Between
    <2>3. Slots..Slots - 1 = {} /\ 0..Slots - 1 = Slot
      BY <2>1 DEF Slot
    <2>4. QED
      BY <2>1, <2>2, <2>3, WholePart
  <1>2. QED
    BY <1>1, ValueInvInit, ValueInvStep, PTL DEF ValueSpec

---------------------------------------------------------------------------
(* Divisors.                                                               *)

Below == {p \in Nat \X Nat : p[1] < p[2]}

\* Among some natural numbers there is a smallest one.
LEMMA LeastNatural ==
  ASSUME NEW T \in SUBSET Nat, T # {}
  PROVE  \E m \in T : \A n \in T : m <= n
  <1>1. IsWellFoundedOn(Below, Nat)
    BY NatLessThanWellFounded DEF OpToRel, Below
  <1>2. PICK x \in T : \A y \in T : ~(<<y, x>> \in Below)
    <2> HIDE DEF Below
    <2> QED
      BY <1>1, WFMin
  <1>3. \A y \in T : ~(y < x)
    BY <1>2 DEF Below
  <1>4. QED
    BY <1>3

IsMultiple(n, d) == \E q \in Nat : d * q = n

LEMMA MultipleOfMultiple ==
  ASSUME NEW a \in Nat, NEW b \in Nat, NEW c \in Nat,
         IsMultiple(a, b), IsMultiple(b, c)
  PROVE  IsMultiple(a, c)
  <1>1. PICK q \in Nat : b * q = a
    BY DEF IsMultiple
  <1>2. PICK r \in Nat : c * r = b
    BY DEF IsMultiple
  <1>3. r * q \in Nat /\ (c * r) * q = c * (r * q)
    OBVIOUS
  <1>4. QED
    BY <1>1, <1>2, <1>3 DEF IsMultiple

\* Multiples of d are at least d apart.
LEMMA MultiplesApart ==
  ASSUME NEW a \in Nat, NEW b \in Nat, NEW d \in Nat, d # 0,
         IsMultiple(a, d), IsMultiple(b, d), a > b - d
  PROVE  a >= b
  <1>1. PICK q \in Nat : d * q = a
    BY DEF IsMultiple
  <1>2. PICK r \in Nat : d * r = b
    BY DEF IsMultiple
  <1>3. CASE q >= r
    <2>1. q - r \in Nat /\ d * (q - r) \in Nat /\ d * q = d * r + d * (q - r)
      BY <1>3
    <2>2. QED
      BY <1>1, <1>2, <2>1
  <1>4. CASE q < r
    <2> DEFINE z == (r - q) - 1
    <2>1. z \in Nat
      BY <1>4
    <2>2. d * z \in Nat /\ d * r = d * q + d + d * z
      <3>1. r = q + 1 + z
        OBVIOUS
      <3> HIDE DEF z
      <3>2. d * (q + 1 + z) = d * q + d + d * z /\ d * z \in Nat
        BY <2>1
      <3>3. QED
        BY <3>1, <3>2
    <2> HIDE DEF z
    <2>3. b = a + d + d * z
      BY <1>1, <1>2, <2>2
    <2>4. QED
      BY <2>2, <2>3
  <1>5. QED
    BY <1>3, <1>4

\* A multiple less the divisor.
LEMMA NextMultiple ==
  ASSUME NEW a \in Nat, NEW d \in Nat, a > d, IsMultiple(a, d)
  PROVE  a - d \in Nat /\ IsMultiple(a - d, d)
  <1>1. PICK q \in Nat : d * q = a
    BY DEF IsMultiple
  <1>2. q # 0
    <2>1. d * 0 = 0
      OBVIOUS
    <2>2. QED
      BY <1>1, <2>1
  <1>3. q - 1 \in Nat /\ d * (q - 1) = d * q - d
    BY <1>2
  <1>4. a - d \in Nat
    OBVIOUS
  <1>5. d * (q - 1) = a - d
    BY <1>1, <1>3
  <1>6. QED
    BY <1>3, <1>4, <1>5, Zenon DEF IsMultiple

\* Among some natural numbers that have a bound there is a largest one.
LEMMA LargestNatural ==
  ASSUME NEW T \in SUBSET Nat, T # {}, NEW u \in Nat, \A t \in T : t <= u
  PROVE  Max(T) \in T /\ \A t \in T : t <= Max(T)
  <1> DEFINE D == {u - t : t \in T}
  <1>1. D \in SUBSET Nat /\ D # {}
    <2>1. \A t \in T : u - t \in Nat
      OBVIOUS
    <2>2. QED
      BY <2>1, Zenon
  <1>2. PICK m \in D : \A n \in D : m <= n
    <2> HIDE DEF D
    <2>1. QED
      BY <1>1, LeastNatural
  <1>3. PICK x \in T : m = u - x
    BY <1>2
  <1>4. \A t \in T : x >= t
    BY <1>2, <1>3
  <1>5. Max(T) \in T /\ \A t \in T : Max(T) >= t
    BY <1>4 DEF Max
  <1>6. QED
    BY <1>5

LEMMA GcdDivides ==
  ASSUME NEW a \in Nat, NEW b \in Nat
  PROVE  /\ Gcd(a, b) \in Nat
         /\ IsMultiple(a, Gcd(a, b)) /\ IsMultiple(b, Gcd(a, b))
  <1>1. \A n \in Nat : IsMultiple(n, n) /\ IsMultiple(0, n)
    <2>1. \A n \in Nat : n * 1 = n /\ n * 0 = 0
      OBVIOUS
    <2>2. QED
      BY <2>1 DEF IsMultiple
  <1>2. CASE a = 0
    <2>1. Gcd(a, b) = b
      BY <1>2 DEF Gcd
    <2>2. QED
      BY <1>1, <1>2, <2>1
  <1>3. CASE b = 0
    <2>1. Gcd(a, b) = a
      BY <1>3 DEF Gcd
    <2>2. QED
      BY <1>1, <1>3, <2>1
  <1>4. CASE a # 0 /\ b # 0
    <2> DEFINE D == {d \in 1..a : Divides(d, a) /\ Divides(d, b)}
    <2>1. D \in SUBSET Nat /\ \A d \in D : d <= a
      OBVIOUS
    <2>2. 1 \in D
      <3>1. a \in 0..a /\ 1 * a = a /\ b \in 0..b /\ 1 * b = b
        OBVIOUS
      <3>2. QED
        BY <1>4, <3>1 DEF Divides
    <2>3. Gcd(a, b) = Max(D)
      BY <1>4 DEF Gcd
    <2>4. Max(D) \in D
      <3> HIDE DEF D
      <3>1. QED
        BY <2>1, <2>2, LargestNatural
    <2>5. Max(D) \in Nat /\ Divides(Max(D), a) /\ Divides(Max(D), b)
      BY <2>4
    <2>6. \A n \in Nat : 0..n \subseteq Nat
      OBVIOUS
    <2> HIDE DEF D
    <2>7. IsMultiple(a, Max(D)) /\ IsMultiple(b, Max(D))
      BY <2>5, <2>6, Zenon DEF Divides, IsMultiple
    <2>8. QED
      BY <2>3, <2>5, <2>7
  <1>5. QED
    BY <1>2, <1>3, <1>4

\* The greatest common divisor of some numbers divides them.
LEMMA GcdOfAll ==
  ASSUME NEW b \in Nat, NEW f, NEW S, IsFiniteSet(S), \A x \in S : f[x] \in Nat
  PROVE  /\ Fold("gcd", b, f, S) \in Nat
         /\ \A x \in S : IsMultiple(f[x], Fold("gcd", b, f, S))
  <1> DEFINE G(R) == Fold("gcd", b, f, R)
             Good(R) == G(R) \in Nat /\ \A x \in R : IsMultiple(f[x], G(R))
             B == {R \in SUBSET S : ~Good(R)}
  <1>1. SUFFICES ASSUME B # {} PROVE FALSE
    OBVIOUS
  <1>2. PICK R \in B : \A q \in SUBSET R : q # R => q \notin B
    <2>1. B \in SUBSET (SUBSET S)
      OBVIOUS
    <2> HIDE DEF B
    <2>2. QED
      BY <1>1, <2>1, SmallestSet
  <1>3. R \in SUBSET S /\ IsFiniteSet(R) /\ ~Good(R)
    BY <1>2, FS_Subset
  <1> DEFINE y == Some(R)
             Q == R \ {y}
  <1>4. /\ R = {} => G(R) = b
        /\ R # {} => y \in R /\ G(R) = Combine("gcd", f[y], G(Q))
    <2>1. ASSUME NEW k
          PROVE  /\ R = {} => Fold(k, b, f, R) = b
                 /\ R # {} =>
                      /\ Some(R) \in R
                      /\ Fold(k, b, f, R)
                           = Combine(k, f[Some(R)], Fold(k, b, f, R \ {Some(R)}))
      <3> HIDE DEF B
      <3>1. QED
        BY <1>3, FoldUnfolds
    <2>2. QED
      BY <2>1
  <1>5. R # {}
    BY <1>3, <1>4
  <1>6. y \in R /\ Q \in SUBSET R /\ Q # R
    BY <1>4, <1>5
  <1>7. Good(Q)
    BY <1>2, <1>3, <1>6
  <1>8. f[y] \in Nat /\ \A x \in Q : f[x] \in Nat
    BY <1>3, <1>6
  <1>9. G(R) = Gcd(f[y], G(Q))
    BY <1>4, <1>5 DEF Combine
  <1> HIDE DEF G, B, y
  <1>10. G(R) \in Nat /\ IsMultiple(f[y], G(R)) /\ IsMultiple(G(Q), G(R))
    BY <1>7, <1>8, <1>9, GcdDivides
  <1>11. ASSUME NEW x \in R
         PROVE  IsMultiple(f[x], G(R))
    <2>1. CASE x = y
      BY <1>10, <2>1
    <2>2. CASE x # y
      <3>1. x \in Q
        BY <2>2
      <3>2. f[x] \in Nat /\ IsMultiple(f[x], G(Q)) /\ G(Q) \in Nat
        BY <1>7, <1>8, <3>1
      <3>3. QED
        BY <1>10, <3>2, MultipleOfMultiple
    <2>3. QED
      BY <2>1, <2>2
  <1>12. QED
    BY <1>3, <1>10, <1>11

---------------------------------------------------------------------------
(***************************************************************************)
(* The shares of the weighted balancer.                                    *)
(*                                                                         *)
(* In units of a weight, a host has got its weight's part above the        *)
(* threshold, the hosts the walk has passed with the threshold included.   *)
(* After the last threshold all have got their weights; that remains so    *)
(* until the walk, at the highest threshold again, chooses the next host,  *)
(* which is when a new cycle is counted.                                   *)
(***************************************************************************)
ShareType ==
    /\ weights \in [Host -> Nat] /\ got \in [Host -> Nat]
    /\ wrr_current \in -1..HostCount - 1 /\ weight_current \in Nat

AtLeastZero(a) == IF a > 0 THEN a ELSE 0

\* What host h has got, and what it should have in the middle of a cycle.
Paid(h) == got[h] * MaxGcd
Walked(h) ==
    IF h <= wrr_current THEN AtLeastZero(weights[h] - weight_current + MaxGcd)
                        ELSE AtLeastZero(weights[h] - weight_current)

AtStart == wrr_current = -1 /\ weight_current = 0 /\ \A h \in Host : got[h] = 0

\* A cycle is over and the next one has not chosen a host yet.
BetweenCycles ==
    /\ weight_current = MaxOf
    /\ \A h \in Host : /\ Paid(h) = weights[h]
                       /\ h <= wrr_current => weights[h] < MaxOf

Shares ==
    \/ AtStart
    \/ /\ wrr_current >= 0
       /\ MaxGcd <= weight_current /\ weight_current <= MaxOf
       /\ IsMultiple(weight_current, MaxGcd)
       /\ (\A h \in Host : Paid(h) = Walked(h)) \/ BetweenCycles

ShareInv == ShareType /\ (MaxGcd > 0 => Shares)

\* The divisor is a fold.
GcdOf(w) == FoldFunction(Gcd, w[0], w)

LEMMA GcdIsFold ==
  ASSUME NEW w, IsFiniteSet(DOMAIN w)
  PROVE  GcdOf(w) = Fold("gcd", w[0], w, DOMAIN w)
  <1> DEFINE b == w[0]
             S == DOMAIN w
             IsGcd(g) ==
               g = [s \in SUBSET S |->
                      IF s = {} THEN b ELSE Gcd(w[Some(s)], g[s \ {Some(s)}])]
             h == CHOOSE g : IsGcd(g)
             i == Iter("gcd", b, w, S)
  <1>1. GcdOf(w) = h[S]
    BY DEF GcdOf, FoldFunction, FoldFunctionOnSet, MapThenFoldSet, Some
  <1>2. ASSUME NEW g
        PROVE  IsIter(g, "gcd", b, w, S) <=> IsGcd(g)
    BY DEF IsIter, Combine
  <1>3. IsIter(i, "gcd", b, w, S)
    BY IterExists
  <1>4. IsGcd(h)
    <2>1. IsGcd(i)
      BY <1>2, <1>3
    <2> HIDE DEF i, IsGcd
    <2>2. QED
      BY <2>1 DEF h
  <1>5. IsIter(h, "gcd", b, w, S)
    BY <1>2, <1>4
  <1> HIDE DEF i, h, b
  <1>6. h[S] = i[S]
    BY <1>3, <1>5, IterUnique
  <1>7. QED
    BY <1>1, <1>6 DEF i, Fold, b

LEMMA HostFacts == IsFiniteSet(Host) /\ 0 \in Host /\ Host \subseteq Nat
  <1>1. 0 \in Int /\ HostCount - 1 \in Int
    BY BalancerAssumption
  <1>2. IsFiniteSet(0..HostCount - 1)
    BY <1>1, FS_Interval
  <1>3. QED
    BY <1>2, BalancerAssumption DEF Host

\* The divisor divides the weights.
LEMMA GcdFacts ==
  ASSUME weights \in [Host -> Nat]
  PROVE  MaxGcd \in Nat /\ \A h \in Host : IsMultiple(weights[h], MaxGcd)
  <1>1. DOMAIN weights = Host /\ weights[0] \in Nat
    BY HostFacts
  <1>2. MaxGcd = GcdOf(weights)
    BY DEF MaxGcd, GcdOf
  <1>3. GcdOf(weights) = Fold("gcd", weights[0], weights, Host)
    BY <1>1, HostFacts, GcdIsFold
  <1>4. QED
    BY <1>1, <1>2, <1>3, HostFacts, GcdOfAll

\* The largest weight is one of them.
LEMMA MaxFacts ==
  ASSUME weights \in [Host -> Nat]
  PROVE  /\ MaxOf \in Nat
         /\ \A h \in Host : weights[h] <= MaxOf
         /\ \E h \in Host : weights[h] = MaxOf
  <1> DEFINE Bounded(R) == \E u \in Nat : \A h \in R : weights[h] <= u
             B == {R \in SUBSET Host : ~Bounded(R)}
  <1>1. Bounded(Host)
    <2>1. SUFFICES ASSUME B # {} PROVE FALSE
      OBVIOUS
    <2>2. PICK R \in B : \A q \in SUBSET R : q # R => q \notin B
      <3>1. B \in SUBSET (SUBSET Host)
        OBVIOUS
      <3> HIDE DEF B
      <3>2. QED
        BY <2>1, <3>1, SmallestSet, HostFacts
    <2>3. R \in SUBSET Host /\ ~Bounded(R)
      BY <2>2
    <2>4. PICK x \in R : TRUE
      BY <2>3
    <2>5. Bounded(R \ {x})
      BY <2>2, <2>3, <2>4
    <2>6. PICK u \in Nat : \A h \in R \ {x} : weights[h] <= u
      BY <2>5
    <2>7. weights[x] \in Nat /\ \A h \in R : weights[h] \in Nat
      BY <2>3, <2>4
    <2>8. PICK v \in Nat : u <= v /\ weights[x] <= v
      <3>1. u + weights[x] \in Nat /\ u <= u + weights[x]
            /\ weights[x] <= u + weights[x]
        BY <2>7
      <3>2. QED
        BY <3>1
    <2>9. \A h \in R : weights[h] <= v
      BY <2>6, <2>7, <2>8
    <2>10. QED
      BY <2>3, <2>9
  <1> DEFINE T == {weights[h] : h \in Host}
  <1>2. T \in SUBSET Nat /\ T # {}
    BY HostFacts
  <1>3. PICK u \in Nat : \A t \in T : t <= u
    BY <1>1
  <1>4. MaxOf = Max(T)
    <2>1. DOMAIN weights = Host
      OBVIOUS
    <2>2. QED
      BY <2>1 DEF MaxOf, Range
  <1>5. Max(T) \in T /\ \A t \in T : t <= Max(T)
    <2> HIDE DEF T
    <2>1. QED
      BY <1>2, <1>3, LargestNatural
  <1>6. QED
    BY <1>2, <1>4, <1>5

\* A cycle is over when every host has got its weight, as long as none got more.
LEMMA CycleFull ==
  ASSUME ShareType, \A h \in Host : Paid(h) <= weights[h]
  PROVE  CycleOver <=> \A h \in Host : Paid(h) = weights[h]
  <1> DEFINE P == [h \in Host |-> got[h] * MaxGcd]
  <1>1. MaxGcd \in Nat /\ DOMAIN got = Host /\ DOMAIN weights = Host
    BY GcdFacts DEF ShareType
  <1>2. \A h \in Host : /\ got[h] \in Int /\ weights[h] \in Int
                        /\ P[h] = got[h] * MaxGcd
                        /\ P[h] = Paid(h) /\ P[h] \in Int
                        /\ P[h] <= weights[h]
    BY <1>1 DEF ShareType, Paid
  <1> HIDE DEF P
  <1>3. SumFunctionOnSet(P, Host) = SumFunctionOnSet(got, Host) * MaxGcd
    <2>1. AreTimes(P, got, Host, MaxGcd) /\ MaxGcd \in Int
      BY <1>1, <1>2 DEF AreTimes
    <2>2. QED
      BY ONLY <2>1, HostFacts, SumTimes
  <1>4. CycleOver <=> SumFunctionOnSet(P, Host) = SumFunctionOnSet(weights, Host)
    BY <1>1, <1>3 DEF CycleOver, SumFunction
  <1>5. ASSUME SumFunctionOnSet(P, Host) = SumFunctionOnSet(weights, Host)
        PROVE  \A h \in Host : P[h] = weights[h]
    <2>1. NowhereLarger(P, weights, Host)
      BY <1>2 DEF NowhereLarger
    <2>2. QED
      BY ONLY <1>5, <2>1, HostFacts, SumSqueezed
  <1>6. ASSUME \A h \in Host : P[h] = weights[h]
        PROVE  SumFunctionOnSet(P, Host) = SumFunctionOnSet(weights, Host)
    BY <1>6, HostFacts, SumSame
  <1>7. QED
    BY <1>2, <1>4, <1>5, <1>6

\* No host gets more than its weight.
LEMMA PaidAtMost ==
  ASSUME ShareType, Shares, MaxGcd > 0
  PROVE  \A h \in Host : Paid(h) \in Nat /\ Paid(h) <= weights[h]
  <1> TAKE h \in Host
  <1>1. /\ MaxGcd \in Nat /\ got[h] \in Nat /\ weights[h] \in Nat
        /\ weight_current \in Nat
    BY GcdFacts DEF ShareType
  <1>2. Paid(h) \in Nat
    BY <1>1 DEF Paid
  <1>3. CASE AtStart
    <2>1. 0 * MaxGcd = 0
      BY <1>1
    <2>2. Paid(h) = 0
      BY <1>3, <2>1 DEF AtStart, Paid
    <2>3. QED
      BY <1>1, <1>2, <2>2
  <1>4. CASE MaxGcd <= weight_current /\ Paid(h) = Walked(h)
    BY <1>1, <1>2, <1>4 DEF Walked, AtLeastZero
  <1>5. CASE BetweenCycles
    BY <1>1, <1>2, <1>5 DEF BetweenCycles
  <1>6. QED
    BY <1>3, <1>4, <1>5 DEF Shares

\* The divisor of zeros.
LEMMA GcdOfZeros ==
  ASSUME weights \in [Host -> Nat], \A h \in Host : weights[h] = 0
  PROVE  MaxGcd = 0
  <1> DEFINE G(R) == Fold("gcd", weights[0], weights, R)
             B == {R \in SUBSET Host : G(R) # 0}
  <1>1. DOMAIN weights = Host /\ weights[0] = 0
    BY HostFacts
  <1>2. MaxGcd = G(Host)
    <2>1. MaxGcd = GcdOf(weights)
      BY DEF MaxGcd, GcdOf
    <2>2. QED
      BY <1>1, <2>1, HostFacts, GcdIsFold
  <1>3. SUFFICES ASSUME B # {} PROVE FALSE
    BY <1>2
  <1>4. PICK R \in B : \A q \in SUBSET R : q # R => q \notin B
    <2>1. B \in SUBSET (SUBSET Host)
      OBVIOUS
    <2> HIDE DEF B
    <2>2. QED
      BY <1>3, <2>1, SmallestSet, HostFacts
  <1>5. R \in SUBSET Host /\ IsFiniteSet(R) /\ G(R) # 0
    BY <1>4, HostFacts, FS_Subset
  <1> DEFINE y == Some(R)
             Q == R \ {y}
  <1>6. /\ R = {} => G(R) = weights[0]
        /\ R # {} => y \in R /\ G(R) = Combine("gcd", weights[y], G(Q))
    <2>1. ASSUME NEW k
          PROVE  /\ R = {} => Fold(k, weights[0], weights, R) = weights[0]
                 /\ R # {} =>
                      /\ Some(R) \in R
                      /\ Fold(k, weights[0], weights, R)
                           = Combine(k, weights[Some(R)],
                                     Fold(k, weights[0], weights, R \ {Some(R)}))
      <3> HIDE DEF B
      <3>1. QED
        BY <1>5, FoldUnfolds
    <2>2. QED
      BY <2>1
  <1>7. R # {}
    BY <1>1, <1>5, <1>6
  <1>8. y \in R /\ Q \in SUBSET R /\ Q # R
    BY <1>6, <1>7
  <1>9. G(Q) = 0 /\ weights[y] = 0
    BY <1>4, <1>5, <1>8
  <1>10. G(R) = Gcd(0, 0)
    BY <1>6, <1>7, <1>9 DEF Combine
  <1>11. Gcd(0, 0) = 0
    BY DEF Gcd
  <1>12. QED
    BY <1>5, <1>10, <1>11

\* Where the walk goes.
LEMMA NextHost ==
  ASSUME ShareType
  PROVE  LET n == (wrr_current + 1) % HostCount
         IN  /\ n \in Host
             /\ n = IF wrr_current = HostCount - 1 THEN 0 ELSE wrr_current + 1
  <1> DEFINE m == wrr_current + 1
  <1>1. /\ HostCount \in Nat \ {0} /\ m \in 0..HostCount
        /\ (m = HostCount <=> wrr_current = HostCount - 1)
    BY BalancerAssumption DEF ShareType
  <1> HIDE DEF m
  <1>2. m % HostCount = IF m = HostCount THEN 0 ELSE m
    BY <1>1
  <1>3. QED
    BY <1>1, <1>2 DEF Host, m

\* The common divisor is at most the largest weight.
LEMMA DivisorAtMost ==
  ASSUME weights \in [Host -> Nat], MaxGcd > 0
  PROVE  MaxGcd <= MaxOf /\ IsMultiple(MaxOf, MaxGcd)
  <1>1. /\ MaxGcd \in Nat /\ MaxOf \in Nat
        /\ \A h \in Host : IsMultiple(weights[h], MaxGcd)
    BY GcdFacts, MaxFacts
  <1>2. IsMultiple(MaxOf, MaxGcd)
    BY <1>1, MaxFacts
  <1>3. PICK q \in Nat : MaxGcd * q = MaxOf
    BY <1>2 DEF IsMultiple
  <1>4. q # 0
    <2>1. MaxGcd # 0
      BY <1>1
    <2>2. ASSUME q = 0 PROVE FALSE
      <3>1. MaxOf = 0
        BY <1>1, <1>3, <2>2
      <3>2. \A h \in Host : weights[h] = 0
        BY <3>1, MaxFacts
      <3>3. MaxGcd = 0
        BY <3>2, GcdOfZeros
      <3>4. QED
        BY <2>1, <3>3
    <2>3. QED
      BY <2>2
  <1>5. MaxGcd * q = MaxGcd + MaxGcd * (q - 1) /\ MaxGcd * (q - 1) \in Nat
    BY <1>1, <1>4
  <1>6. QED
    BY <1>1, <1>2, <1>3, <1>5

\* A turn of the walk, with what it has paid before and after.
LEMMA WalkFacts ==
  ASSUME ShareType, NEW c \in Caller, Walk(c)
  PROVE  LET n == (wrr_current + 1) % HostCount
             v == Threshold(n)
         IN  /\ ShareType' /\ wrr_current' = n /\ weight_current' = v
             /\ weights' = weights /\ MaxGcd' = MaxGcd /\ MaxOf' = MaxOf
             /\ weights[n] < v => \A h \in Host : Paid(h)' = Paid(h)
             /\ weights[n] >= v =>
                  \A h \in Host :
                    Paid(h)' = (IF CycleOver THEN 0 ELSE Paid(h))
                               + (IF h = n THEN MaxGcd ELSE 0)
  <1> DEFINE n == (wrr_current + 1) % HostCount
             v == Threshold(n)
  <1>1. /\ weights \in [Host -> Nat] /\ got \in [Host -> Nat]
        /\ weight_current \in Nat
    BY DEF ShareType
  <1>2. n \in Host
    BY NextHost
  <1>3. MaxGcd \in Nat /\ MaxOf \in Nat
    BY <1>1, GcdFacts, MaxFacts
  <1>4. /\ wrr_current' = n /\ weight_current' = v /\ weights' = weights
        /\ \/ weights[n] >= v /\ Chosen(c, n)
           \/ weights[n] < v /\ got' = got
    BY DEF Walk
  <1>5. MaxGcd' = MaxGcd /\ MaxOf' = MaxOf
    <2>1. MaxGcd = GcdOf(weights) /\ MaxGcd' = GcdOf(weights')
      BY DEF MaxGcd, GcdOf
    <2>2. QED
      BY <1>4, <2>1 DEF MaxOf
  <1>6. v \in Nat
    <2> HIDE DEF n
    <2>1. QED
      BY <1>1, <1>3 DEF Threshold, Fallen
  <1>7. weights[n] \in Nat /\ n \in -1..HostCount - 1
    BY <1>1, <1>2, BalancerAssumption DEF Host
  <1> HIDE DEF n, v
  <1>8. CASE weights[n] >= v /\ Chosen(c, n)
    <2>1. got' = [h \in Host |-> (IF CycleOver THEN 0 ELSE got[h])
                                 + (IF h = n THEN 1 ELSE 0)]
      BY <1>8 DEF Chosen
    <2>2. got' \in [Host -> Nat]
      BY <1>1, <2>1
    <2>3. ASSUME NEW h \in Host
          PROVE  got'[h] * MaxGcd = (IF CycleOver THEN 0 ELSE got[h] * MaxGcd)
                                    + (IF h = n THEN MaxGcd ELSE 0)
      <3>1. /\ \A a \in Nat : (a + 1) * MaxGcd = a * MaxGcd + MaxGcd
            /\ 0 * MaxGcd = 0 /\ (0 + 1) * MaxGcd = 0 + MaxGcd
        BY <1>3
      <3>2. got[h] \in Nat /\ got[h] * MaxGcd \in Nat
        BY <1>1, <1>3
      <3>3. got'[h] = (IF CycleOver THEN 0 ELSE got[h])
                      + (IF h = n THEN 1 ELSE 0)
        BY <2>1
      <3>4. CASE h = n
        BY <1>3, <3>1, <3>2, <3>3, <3>4
      <3>5. CASE h # n
        <4>1. got'[h] = IF CycleOver THEN 0 ELSE got[h]
          BY <3>2, <3>3, <3>5
        <4>2. QED
          BY <3>1, <3>2, <3>5, <4>1
      <3>6. QED
        BY <3>4, <3>5
    <2>4. \A h \in Host :
            Paid(h)' = (IF CycleOver THEN 0 ELSE Paid(h))
                       + (IF h = n THEN MaxGcd ELSE 0)
      BY <1>5, <2>3 DEF Paid
    <2>5. ~(weights[n] < v)
      BY <1>6, <1>7, <1>8
    <2>6. ShareType'
      BY <1>1, <1>4, <1>6, <1>7, <2>2 DEF ShareType
    <2>7. QED
      BY <1>4, <1>5, <2>4, <2>5, <2>6 DEF n, v
  <1>9. CASE weights[n] < v /\ got' = got
    <2>1. \A h \in Host : Paid(h)' = Paid(h)
      BY <1>5, <1>9 DEF Paid
    <2>2. ~(weights[n] >= v)
      BY <1>6, <1>7, <1>9
    <2>3. ShareType'
      BY <1>1, <1>4, <1>6, <1>7, <1>9 DEF ShareType
    <2>4. QED
      BY <1>4, <1>5, <2>1, <2>2, <2>3 DEF n, v
  <1>10. QED
    BY <1>4, <1>8, <1>9 DEF n, v

LEMMA WalkKeeps ==
  ASSUME ShareInv, NEW c \in Caller, Walk(c)
  PROVE  ShareInv'
  <1> DEFINE N == HostCount
             n == (wrr_current + 1) % N
             v == Threshold(n)
             w == weight_current
             cur == wrr_current
             G == MaxGcd
             M == MaxOf
             W(h) == weights[h]
             Now(h) == Paid(h)'
  <1>1. ShareType
    BY DEF ShareInv
  <1>2. ShareType' /\ MaxGcd' = MaxGcd
    BY <1>1, WalkFacts
  <1>3. SUFFICES ASSUME MaxGcd > 0
                 PROVE  Shares'
    BY <1>2 DEF ShareInv
  <1>4. /\ G \in Nat /\ G > 0 /\ G <= M /\ M \in Nat /\ w \in Nat
        /\ IsMultiple(M, G) /\ N \in Nat /\ N >= 1 /\ cur \in -1..N - 1
    BY <1>1, <1>3, GcdFacts, MaxFacts, DivisorAtMost, BalancerAssumption
       DEF ShareType
  <1>5. /\ n \in Host /\ n \in 0..N - 1
        /\ n = IF cur = N - 1 THEN 0 ELSE cur + 1
    BY <1>1, NextHost DEF Host
  <1>6. \A h \in Host : /\ h \in 0..N - 1 /\ W(h) \in Nat /\ W(h) <= M
                        /\ IsMultiple(W(h), G)
                        /\ Paid(h) \in Nat /\ Paid(h) <= W(h)
    <2>1. Shares
      BY <1>3 DEF ShareInv
    <2>2. QED
      BY <1>1, <1>3, <2>1, GcdFacts, MaxFacts, PaidAtMost DEF ShareType, Host
  <1>7. CycleOver <=> \A h \in Host : Paid(h) = W(h)
    BY <1>1, <1>6, CycleFull
  <1>8. PICK top \in Host : W(top) = M
    BY <1>1, MaxFacts DEF ShareType
  <1>9. v = IF n # 0 THEN w ELSE IF w - G <= 0 THEN M ELSE w - G
    BY DEF Threshold, Fallen
  <1>10. /\ W(n) < v => \A h \in Host : Now(h) = Paid(h)
         /\ W(n) >= v =>
              \A h \in Host : Now(h) = (IF CycleOver THEN 0 ELSE Paid(h))
                                       + (IF h = n THEN G ELSE 0)
    BY <1>1, WalkFacts
  <1>11. /\ wrr_current' = n /\ weight_current' = v /\ weights' = weights
         /\ MaxGcd' = G /\ MaxOf' = M
    BY <1>1, WalkFacts
  <1> DEFINE Due(h) == IF h <= n THEN AtLeastZero(W(h) - v + G)
                                 ELSE AtLeastZero(W(h) - v)
             Waits == v = M /\ \A h \in Host : /\ Now(h) = W(h)
                                               /\ h <= n => W(h) < M
  <1>12. SUFFICES /\ G <= v /\ v <= M /\ IsMultiple(v, G)
                  /\ (\A h \in Host : Now(h) = Due(h)) \/ Waits
    BY <1>4, <1>5, <1>11 DEF Shares, Walked, BetweenCycles
  <1>13. Shares
    BY <1>3 DEF ShareInv
  \* What is below a threshold is below it by the divisor.
  <1>14. ASSUME NEW h \in Host, NEW u \in Nat, IsMultiple(u, G), W(h) < u
         PROVE  W(h) - u + G <= 0
    <2>1. W(h) \in Nat /\ IsMultiple(W(h), G) /\ ~(W(h) >= u)
      BY <1>6, <1>14
    <2>2. ~(W(h) > u - G)
      BY ONLY <1>4, <1>14, <2>1, MultiplesApart
    <2>3. QED
      BY <1>4, <2>1, <2>2
  \* The first choice of a cycle.
  <1>15. ASSUME v = M, \A h \in Host : h < n => W(h) < M,
                W(n) >= v, \A h \in Host : Now(h) = IF h = n THEN G ELSE 0
         PROVE  \A h \in Host : Now(h) = Due(h)
    <2> SUFFICES ASSUME NEW h \in Host PROVE Now(h) = Due(h)
      OBVIOUS
    <2>0. W(h) \in Nat /\ W(h) <= M /\ h \in Int /\ n \in Int
      BY <1>5, <1>6
    <2>1. CASE h = n
      <3>1. W(h) = M
        BY <1>15, <2>0, <2>1, <1>4
      <3>2. QED
        BY <1>4, <1>15, <2>0, <2>1, <3>1 DEF AtLeastZero
    <2>2. CASE h < n
      <3>1. W(h) - M + G <= 0
        BY <1>4, <1>14, <1>15, <2>2
      <3>2. QED
        BY <1>4, <1>15, <2>0, <2>2, <3>1 DEF AtLeastZero
    <2>3. CASE h > n
      BY <1>4, <1>15, <2>0, <2>3 DEF AtLeastZero
    <2>4. QED
      BY <2>0, <2>1, <2>2, <2>3
  <1> HIDE DEF n, v, w, cur, G, M, W, Now, N
  <1>16. CASE AtStart
    <2>1. cur = -1 /\ w = 0 /\ \A h \in Host : Paid(h) = 0
      <3>1. 0 * G = 0
        BY <1>4
      <3>2. QED
        BY <1>16, <3>1 DEF AtStart, Paid, cur, w, G
    <2>2. n = 0 /\ v = M
      BY <1>4, <1>5, <1>9, <2>1
    <2>3. ~CycleOver
      <3>1. Paid(top) # W(top)
        BY <1>4, <1>8, <2>1
      <3>2. QED
        BY <1>7, <3>1
    <2>4. CASE W(n) >= v
      <3>1. \A h \in Host : Now(h) = IF h = n THEN G ELSE 0
        BY <1>4, <1>10, <2>1, <2>3, <2>4
      <3>2. \A h \in Host : h < n => W(h) < M
        BY <1>6, <2>2
      <3>3. QED
        BY <1>4, <1>15, <2>2, <2>4, <3>1, <3>2
    <2>5. CASE W(n) < v
      <3>1. W(n) - v + G <= 0
        BY <1>4, <1>5, <1>14, <2>2, <2>5
      <3>2. ASSUME NEW h \in Host
            PROVE  Now(h) = Due(h)
        <4>1. Now(h) = 0
          BY <1>10, <2>1, <2>5
        <4>2. W(h) \in Nat /\ W(h) <= M /\ h \in 0..N - 1
          BY <1>6
        <4>3. CASE h = n
          BY <1>4, <2>2, <3>1, <4>1, <4>2, <4>3 DEF AtLeastZero
        <4>4. CASE h # n
          <5>1. ~(h <= n) /\ ~(W(h) - v > 0)
            BY <1>4, <2>2, <4>2, <4>4
          <5>2. QED
            BY <4>1, <5>1 DEF AtLeastZero
        <4>5. QED
          BY <4>3, <4>4
      <3>3. QED
        BY <1>4, <2>2, <3>2
    <2>6. W(n) \in Nat /\ v \in Nat
      BY <1>4, <1>5, <1>6, <2>2
    <2>7. QED
      BY <2>4, <2>5, <2>6
  <1>17. ASSUME ~AtStart
         PROVE  /\ cur >= 0 /\ G <= w /\ w <= M /\ IsMultiple(w, G)
                /\ (\A h \in Host : Paid(h) = Walked(h)) \/ BetweenCycles
    BY <1>13, <1>17 DEF Shares, cur, G, w, M
  <1>18. CASE ~AtStart /\ BetweenCycles
    <2>1. w = M /\ \A h \in Host : Paid(h) = W(h) /\ (h <= cur => W(h) < M)
      BY <1>18 DEF BetweenCycles, w, M, W, cur
    <2>2. CycleOver
      BY <1>7, <2>1
    <2>3. cur # N - 1
      <3>1. top \in 0..N - 1
        BY <1>6
      <3>2. QED
        BY <1>4, <1>8, <2>1, <3>1
    <2>4. n = cur + 1 /\ n # 0 /\ v = M
      BY <1>4, <1>5, <1>9, <1>17, <1>18, <2>1, <2>3
    <2>5. \A h \in Host : h < n => W(h) < M
      <3>1. \A h \in Host : h < n => h <= cur
        BY <1>4, <1>6, <2>4
      <3>2. QED
        BY <2>1, <3>1
    <2>6. CASE W(n) >= v
      <3>1. \A h \in Host : Now(h) = IF h = n THEN G ELSE 0
        BY <1>4, <1>10, <2>2, <2>6
      <3>2. QED
        BY <1>4, <1>15, <2>4, <2>5, <2>6, <3>1
    <2>7. CASE W(n) < v
      <3>1. \A h \in Host : Now(h) = W(h)
        BY <1>10, <2>1, <2>7
      <3>2. \A h \in Host : h <= n => W(h) < M
        <4>1. \A h \in Host : h <= n => h < n \/ h = n
          BY <1>5, <1>6
        <4>2. QED
          BY <2>4, <2>5, <2>7, <4>1
      <3>3. QED
        BY <1>4, <2>4, <3>1, <3>2
    <2>8. W(n) \in Nat /\ v \in Nat
      BY <1>4, <1>5, <1>6, <2>4
    <2>9. QED
      BY <2>6, <2>7, <2>8
  <1>19. CASE ~AtStart /\ \A h \in Host : Paid(h) = Walked(h)
    <2>1. /\ cur >= 0 /\ G <= w /\ w <= M /\ IsMultiple(w, G)
          /\ \A h \in Host :
               Paid(h) = IF h <= cur THEN AtLeastZero(W(h) - w + G)
                                     ELSE AtLeastZero(W(h) - w)
      BY <1>17, <1>19 DEF Walked, W, w, cur, G
    <2>2. CASE n # 0
      <3>1. n = cur + 1 /\ v = w
        BY <1>4, <1>5, <1>9, <2>2
      <3>2. Paid(n) = AtLeastZero(W(n) - w)
        BY <1>4, <1>5, <2>1, <3>1
      <3>3. ASSUME NEW h \in Host, h # n
            PROVE  Paid(h) = Due(h)
        <4>1. h <= n <=> h <= cur
          BY <1>4, <1>6, <3>1, <3>3
        <4>2. QED
          BY <2>1, <3>1, <4>1
      <3>4. CASE W(n) >= v
        <4>1. Paid(n) = W(n) - w /\ W(n) \in Nat
          BY <1>4, <1>5, <1>6, <3>1, <3>2, <3>4 DEF AtLeastZero
        <4>2. ~CycleOver
          BY <1>4, <1>5, <1>7, <2>1, <4>1
        <4>3. Now(n) = W(n) - w + G
          BY <1>4, <1>5, <1>10, <3>4, <4>1, <4>2
        <4>4. Now(n) = Due(n)
          BY <1>4, <1>5, <3>1, <3>4, <4>1, <4>3 DEF AtLeastZero
        <4>5. \A h \in Host : h # n => Now(h) = Paid(h)
          BY <1>6, <1>10, <3>4, <4>2
        <4>6. QED
          BY <2>1, <3>1, <3>3, <4>4, <4>5
      <3>5. CASE W(n) < v
        <4>1. W(n) - w + G <= 0 /\ W(n) \in Nat
          BY <1>4, <1>5, <1>6, <1>14, <2>1, <3>1, <3>5
        <4>2. Now(n) = Due(n)
          BY <1>4, <1>5, <1>10, <3>1, <3>2, <3>5, <4>1 DEF AtLeastZero
        <4>3. QED
          BY <1>10, <2>1, <3>1, <3>3, <3>5, <4>2
      <3>6. W(n) \in Nat /\ v \in Nat
        BY <1>4, <1>5, <1>6, <3>1
      <3>7. QED
        BY <3>4, <3>5, <3>6
    <2>3. CASE n = 0
      <3>1. cur = N - 1
        BY <1>4, <1>5, <2>1, <2>3
      <3>2. \A h \in Host : Paid(h) = AtLeastZero(W(h) - w + G)
        BY <1>4, <1>6, <2>1, <3>1
      <3>3. CASE w - G > 0
        <4>1. v = w - G /\ v \in Nat /\ v > 0 /\ v <= M
          BY <1>4, <1>9, <2>1, <2>3, <3>3
        <4>2. IsMultiple(v, G)
          BY <1>4, <2>1, <3>3, <4>1, NextMultiple
        <4>3. G <= v
          <5>1. IsMultiple(G, G)
            <6>1. G * 1 = G
              BY <1>4
            <6>2. QED
              BY <6>1 DEF IsMultiple
          <5>2. v > G - G /\ G # 0
            BY <1>4, <4>1
          <5>3. v >= G
            BY ONLY <1>4, <4>1, <4>2, <5>1, <5>2, MultiplesApart
          <5>4. QED
            BY <1>4, <4>1, <5>3
        <4>4. \A h \in Host : Paid(h) = AtLeastZero(W(h) - v)
          <5>1. \A h \in Host : W(h) - w + G = W(h) - v
            BY <1>4, <1>6, <4>1
          <5>2. QED
            BY <3>2, <5>1
        <4>5. ~CycleOver
          <5>1. Paid(top) # W(top)
            BY <1>4, <1>8, <4>1, <4>4 DEF AtLeastZero
          <5>2. QED
            BY <1>7, <5>1
        <4>6. ASSUME NEW h \in Host, h # n
              PROVE  Now(h) = Due(h)
          <5>1. ~(h <= n)
            BY <1>6, <2>3, <4>6
          <5>2. Now(h) = Paid(h)
            <6>1. W(n) \in Nat
              BY <1>5, <1>6
            <6>2. QED
              BY <1>6, <1>10, <4>1, <4>5, <4>6, <6>1
          <5>3. QED
            BY <4>4, <5>1, <5>2
        <4>7. Now(n) = Due(n)
          <5>1. W(n) \in Nat /\ Paid(n) = AtLeastZero(W(n) - v)
            BY <1>5, <1>6, <4>4
          <5>2. CASE W(n) >= v
            <6>1. Now(n) = Paid(n) + G
              BY <1>5, <1>10, <4>5, <5>2
            <6>2. QED
              BY <1>4, <2>3, <4>1, <5>1, <5>2, <6>1 DEF AtLeastZero
          <5>3. CASE W(n) < v
            <6>1. W(n) - v + G <= 0
              BY <1>5, <1>14, <4>1, <4>2, <5>3
            <6>2. Now(n) = Paid(n)
              BY <1>5, <1>10, <5>3
            <6>3. QED
              BY <1>4, <2>3, <4>1, <5>1, <5>3, <6>1, <6>2 DEF AtLeastZero
          <5>4. QED
            BY <4>1, <5>1, <5>2, <5>3
        <4>8. QED
          BY <4>1, <4>2, <4>3, <4>6, <4>7
      <3>4. CASE w - G <= 0
        <4>1. w = G /\ v = M
          BY <1>4, <1>9, <2>1, <2>3, <3>4
        <4>2. \A h \in Host : Paid(h) = W(h)
          BY <1>4, <1>6, <3>2, <4>1 DEF AtLeastZero
        <4>3. CycleOver
          BY <1>7, <4>2
        <4>4. CASE W(n) >= v
          <5>1. \A h \in Host : Now(h) = IF h = n THEN G ELSE 0
            BY <1>4, <1>10, <4>3, <4>4
          <5>2. \A h \in Host : h < n => W(h) < M
            BY <1>6, <2>3
          <5>3. QED
            BY <1>4, <1>15, <4>1, <4>4, <5>1, <5>2
        <4>5. CASE W(n) < v
          <5>1. \A h \in Host : h <= n => h = n
            BY <1>6, <2>3
          <5>2. \A h \in Host : Now(h) = W(h) /\ (h <= n => W(h) < M)
            BY <1>10, <4>1, <4>2, <4>5, <5>1
          <5>3. QED
            BY <1>4, <4>1, <5>2
        <4>6. W(n) \in Nat /\ v \in Nat
          BY <1>4, <1>5, <1>6, <4>1
        <4>7. QED
          BY <4>4, <4>5, <4>6
      <3>5. QED
        BY <1>4, <3>3, <3>4
    <2>4. QED
      BY <2>2, <2>3
  <1>20. QED
    BY <1>16, <1>17, <1>18, <1>19

LEMMA SharesStart == BalancerInit => ShareInv
  <1> SUFFICES ASSUME BalancerInit PROVE ShareInv
    OBVIOUS
  <1>1. weights \in [Host -> Nat]
    BY BalancerAssumption DEF BalancerInit
  <1>2. ShareType
    BY <1>1, BalancerAssumption DEF BalancerInit, ShareType
  <1>3. AtStart
    BY DEF BalancerInit, AtStart
  <1>4. QED
    BY <1>2, <1>3 DEF ShareInv, Shares

LEMMA SharesStay ==
  ASSUME ShareInv, UNCHANGED <<weights, wrr>>
  PROVE  ShareInv'
  <1>1. MaxGcd' = MaxGcd /\ MaxOf' = MaxOf
    <2>1. MaxGcd = GcdOf(weights) /\ MaxGcd' = GcdOf(weights')
      BY DEF MaxGcd, GcdOf
    <2>2. QED
      BY <2>1 DEF MaxOf
  <1>2. \A h \in Host : Paid(h)' = Paid(h) /\ Walked(h)' = Walked(h)
    BY <1>1 DEF Paid, Walked, wrr
  <1>3. ShareType'
    BY DEF ShareInv, ShareType, wrr
  <1>4. MaxGcd > 0 => Shares'
    BY <1>1, <1>2 DEF ShareInv, Shares, AtStart, BetweenCycles, wrr
  <1>5. QED
    BY <1>1, <1>3, <1>4 DEF ShareInv

\* The weighted balancer gives every host its share of each cycle: for every
\* number of hosts and all weights, select_host_with_weight_round_robin() has
\* chosen each host as often as its weight says, in units of the common divisor
\* by which the threshold falls, when a cycle is over.
THEOREM SharesAreKept == BalancerSpec => []SharesKept
  <1>1. ShareInv /\ [BalancerNext]_balancerVars => ShareInv'
    <2> SUFFICES ASSUME ShareInv, [BalancerNext]_balancerVars PROVE ShareInv'
      OBVIOUS
    <2>1. CASE UNCHANGED balancerVars
      BY <2>1, SharesStay DEF balancerVars, wrr
    <2>2. ASSUME NEW c \in Caller,
                 SendRequest(c) \/ Draw(c) \/ CheckAlive(c) \/ Send(c)
          PROVE  ShareInv'
      BY <2>2, SharesStay DEF SendRequest, Draw, CheckAlive, Send
    <2>3. ASSUME NEW c \in Caller, Walk(c)
          PROVE  ShareInv'
      BY <2>3, WalkKeeps
    <2>4. QED
      BY <2>1, <2>2, <2>3 DEF BalancerNext
  <1>2. ShareInv => SharesKept
    <2> SUFFICES ASSUME ShareInv, MaxGcd > 0, CycleOver, NEW h \in Host
                 PROVE  got[h] * MaxGcd = weights[h]
      BY DEF SharesKept
    <2>1. ShareType /\ Shares
      BY DEF ShareInv
    <2>2. \A i \in Host : Paid(i) <= weights[i]
      BY <2>1, PaidAtMost
    <2>3. QED
      BY <2>1, <2>2, CycleFull DEF Paid
  <1>3. QED
    BY SharesStart, <1>1, <1>2, PTL DEF BalancerSpec

---------------------------------------------------------------------------
(* Joining sequences.                                                      *)

\* g is the recursion that joins the first n of the sequences s.
IsJoin(g, s, n) ==
    g = [i \in 1..n |-> IF i = 1 THEN s[i] ELSE g[i - 1] \o s[i]]
Joining(s, n) == CHOOSE g : IsJoin(g, s, n)
Joined(s, n) == Joining(s, n)[n]

\* That is what the operator of the module SequencesExt computes.
LEMMA FlattenIsJoin ==
  ASSUME NEW s, Len(s) # 0
  PROVE  FlattenSeq(s) = Joined(s, Len(s))
  BY DEF FlattenSeq, Joined, Joining, IsJoin

LEMMA JoinStep ==
  ASSUME NEW g, NEW s, NEW n \in Nat, IsJoin(g, s, n), NEW i \in 1..n
  PROVE  g[i] = IF i = 1 THEN s[i] ELSE g[i - 1] \o s[i]
  BY DEF IsJoin

\* The recursion depends only on what it has joined.
LEMMA JoinUnique ==
  ASSUME NEW s, NEW t, NEW n \in Nat, NEW k \in Nat, NEW g, IsJoin(g, s, n),
         NEW h, IsJoin(h, t, k), NEW i \in 1..n, i \in 1..k,
         \A j \in 1..i : s[j] = t[j]
  PROVE  g[i] = h[i]
  <1> DEFINE B == {j \in 1..i : g[j] # h[j]}
  <1>1. SUFFICES ASSUME B # {} PROVE FALSE
    OBVIOUS
  <1>2. PICK j \in B : \A m \in B : j <= m
    <2>1. B \in SUBSET Nat
      OBVIOUS
    <2> HIDE DEF B
    <2>2. QED
      BY <1>1, <2>1, LeastNatural
  <1>3. j \in 1..i /\ j \in 1..n /\ j \in 1..k /\ g[j] # h[j]
    BY <1>2
  <1>4. s[j] = t[j]
    BY <1>3
  <1>5. j # 1 => g[j - 1] = h[j - 1]
    <2>1. j # 1 => j - 1 \in 1..i /\ ~(j <= j - 1)
      BY <1>3
    <2>2. QED
      BY <2>1, <1>2
  <1>6. g[j] = h[j]
    BY <1>3, <1>4, <1>5, JoinStep
  <1>7. QED
    BY <1>3, <1>6

LEMMA JoinExists ==
  ASSUME NEW s, NEW n \in Nat
  PROVE  IsJoin(Joining(s, n), s, n)
  <1> DEFINE B == {m \in Nat : ~ \E g : IsJoin(g, s, m)}
  <1>1. ASSUME B # {} PROVE FALSE
    <2>1. PICK m \in B : \A k \in B : m <= k
      <3>1. B \in SUBSET Nat
        OBVIOUS
      <3> HIDE DEF B
      <3>2. QED
        BY <1>1, <3>1, LeastNatural
    <2>2. m \in Nat /\ ~ \E g : IsJoin(g, s, m)
      BY <2>1
    <2>3. CASE m = 0
      <3> DEFINE e == [i \in 1..0 |-> s[i]]
      <3>1. IsJoin(e, s, 0)
        BY DEF IsJoin
      <3>2. QED
        BY <2>2, <2>3, <3>1
    <2>4. CASE m # 0
      <3>1. m - 1 \in Nat /\ ~(m <= m - 1)
        BY <2>2, <2>4
      <3>2. PICK h : IsJoin(h, s, m - 1)
        BY <2>1, <3>1
      <3> DEFINE g == [i \in 1..m |->
                         IF i = 1 THEN s[i] ELSE h[i - 1] \o s[i]]
      <3>3. ASSUME NEW i \in 1..m
            PROVE  g[i] = IF i = 1 THEN s[i] ELSE g[i - 1] \o s[i]
        <4>1. CASE i = 1
          BY <4>1
        <4>2. CASE i # 1
          <5>1. i - 1 \in 1..m - 1 /\ i - 1 \in 1..m
            BY <4>2, <2>2
          <5>2. h[i - 1] = g[i - 1]
            <6>1. h[i - 1] =
                    IF i - 1 = 1 THEN s[i - 1] ELSE h[(i - 1) - 1] \o s[i - 1]
              <7> HIDE DEF g
              <7>1. QED
                BY <3>1, <3>2, <5>1, JoinStep
            <6>2. QED
              BY <5>1, <6>1
          <5>3. QED
            BY <4>2, <5>2
        <4>3. QED
          BY <4>1, <4>2
      <3>4. IsJoin(g, s, m)
        BY <3>3 DEF IsJoin
      <3>5. QED
        BY <2>2, <3>4
    <2>5. QED
      BY <2>3, <2>4
  <1>2. \E g : IsJoin(g, s, n)
    BY <1>1
  <1>3. QED
    BY <1>2 DEF Joining

\* Two equal beginnings are joined to the same.
LEMMA JoinedSame ==
  ASSUME NEW s, NEW t, NEW n \in Nat, n # 0, \A j \in 1..n : s[j] = t[j]
  PROVE  Joined(s, n) = Joined(t, n)
  <1>1. n \in 1..n
    OBVIOUS
  <1>2. QED
    BY <1>1, JoinExists, JoinUnique DEF Joined

\* The last sequence comes last.
LEMMA JoinedLast ==
  ASSUME NEW s, NEW n \in Nat, n # 0
  PROVE  Joined(s, n) = IF n = 1 THEN s[1] ELSE Joined(s, n - 1) \o s[n]
  <1>1. n \in 1..n
    OBVIOUS
  <1>2. Joined(s, n) = IF n = 1 THEN s[n] ELSE Joining(s, n)[n - 1] \o s[n]
    BY <1>1, JoinExists, JoinStep DEF Joined
  <1>3. ASSUME n # 1
        PROVE  Joining(s, n)[n - 1] = Joining(s, n - 1)[n - 1]
    <2>1. n - 1 \in Nat /\ n - 1 \in 1..n /\ n - 1 \in 1..n - 1
      BY <1>3
    <2>2. QED
      BY <2>1, JoinExists, JoinUnique
  <1>4. QED
    BY <1>2, <1>3 DEF Joined

LEMMA JoinedOne ==
  ASSUME NEW s
  PROVE  Joined(s, 1) = s[1]
  <1>1. ASSUME NEW n \in Nat, n # 0
        PROVE  Joined(s, n) = IF n = 1 THEN s[1] ELSE Joined(s, n - 1) \o s[n]
    BY <1>1, JoinedLast
  <1>2. 1 \in Nat /\ 1 # 0
    OBVIOUS
  <1>3. QED
    BY ONLY <1>1, <1>2, Zenon

LEMMA JoinedType ==
  ASSUME NEW R, NEW s, NEW n \in Nat, n # 0, \A j \in 1..n : s[j] \in Seq(R)
  PROVE  Joined(s, n) \in Seq(R)
  <1> DEFINE B == {m \in 1..n : Joined(s, m) \notin Seq(R)}
  <1>1. SUFFICES ASSUME B # {} PROVE FALSE
    OBVIOUS
  <1>2. PICK m \in B : \A k \in B : m <= k
    <2>1. B \in SUBSET Nat
      OBVIOUS
    <2> HIDE DEF B
    <2>2. QED
      BY <1>1, <2>1, LeastNatural
  <1>3. m \in 1..n /\ m \in Nat /\ m # 0 /\ Joined(s, m) \notin Seq(R)
    BY <1>2
  <1>4. m # 1 => Joined(s, m - 1) \in Seq(R)
    <2>1. m # 1 => m - 1 \in 1..n /\ ~(m <= m - 1)
      BY <1>3
    <2>2. QED
      BY <2>1, <1>2
  <1>5. s[m] \in Seq(R)
    BY <1>3
  <1>6. Joined(s, m) = IF m = 1 THEN s[1] ELSE Joined(s, m - 1) \o s[m]
    BY <1>3, JoinedLast
  <1>7. QED
    BY <1>3, <1>4, <1>5, <1>6, ConcatProperties

\* The order in which three sequences over R are joined does not matter.
JoinsInAnyOrder(R) == \A a, b, c \in Seq(R) : (a \o b) \o c = a \o (b \o c)

LEMMA Associative ==
  ASSUME NEW R
  PROVE  JoinsInAnyOrder(R)
  <1>1. ASSUME NEW a \in Seq(R), NEW b \in Seq(R), NEW c \in Seq(R)
        PROVE  (a \o b) \o c = a \o (b \o c)
    BY ConcatAssociative
  <1>2. QED
    BY <1>1, Zenon DEF JoinsInAnyOrder

\* The first n of s are sequences over R.
AreSeqs(s, n, R) == \A j \in 1..n : s[j] \in Seq(R)

\* The first n of t are those of s after the first.
IsTail(t, s, n) == \A j \in 1..n : t[j] = s[j + 1]

\* The first sequence comes first.
LEMMA JoinedFirst ==
  ASSUME NEW R, NEW s, NEW t, NEW n \in Nat, n # 0, NEW l \in Nat, l = n + 1,
         AreSeqs(s, l, R), IsTail(t, s, n)
  PROVE  Joined(s, l) = s[1] \o Joined(t, n)
  <1> USE DEF AreSeqs, IsTail
  <1> DEFINE B == {m \in 1..n : Joined(s, m + 1) # s[1] \o Joined(t, m)}
  <1>1. SUFFICES ASSUME B # {} PROVE FALSE
    <2>1. n \in 1..n /\ (n \notin B => Joined(s, n + 1) = s[1] \o Joined(t, n))
      OBVIOUS
    <2>2. QED
      BY <2>1
  <1>2. PICK m \in B : \A k \in B : m <= k
    <2>1. B \in SUBSET Nat
      OBVIOUS
    <2> HIDE DEF B
    <2>2. QED
      BY <1>1, <2>1, LeastNatural
  <1>3. /\ m \in 1..n /\ m \in Nat /\ m # 0 /\ n \in Nat
        /\ Joined(s, m + 1) # s[1] \o Joined(t, m)
    BY <1>2
  <1>4. Joined(s, m + 1) = Joined(s, m) \o s[m + 1]
    <2>1. m + 1 \in Nat /\ m + 1 # 0 /\ m + 1 # 1 /\ (m + 1) - 1 = m
      BY <1>3
    <2> HIDE DEF B
    <2>2. Joined(s, m + 1) = Joined(s, (m + 1) - 1) \o s[m + 1]
      BY <2>1, JoinedLast
    <2>3. QED
      BY <2>1, <2>2
  <1>5. t[m] = s[m + 1]
    BY <1>3
  <1>6. Joined(t, m) = IF m = 1 THEN t[1] ELSE Joined(t, m - 1) \o t[m]
    BY <1>3, JoinedLast
  <1>7. CASE m = 1
    <2>1. Joined(s, m) = s[1]
      <3> HIDE DEF B
      <3>1. QED
        BY <1>3, <1>7, JoinedLast
    <2>2. QED
      BY <1>3, <1>4, <1>5, <1>6, <1>7, <2>1
  <1>8. CASE m # 1
    <2>1. m - 1 \in 1..n /\ ~(m <= m - 1) /\ (m - 1) + 1 = m
      BY ONLY <1>3, <1>8
    <2>2. Joined(s, (m - 1) + 1) = s[1] \o Joined(t, m - 1)
      BY <1>2, <2>1
    <2>3. Joined(s, m) = s[1] \o Joined(t, m - 1)
      BY <2>1, <2>2
    <2>4. Joined(t, m - 1) \in Seq(R)
      <3>1. m - 1 \in Nat /\ m - 1 # 0
        BY <1>3, <1>8
      <3>2. ASSUME NEW j \in 1..m - 1
            PROVE  t[j] \in Seq(R)
        <4>1. j \in 1..n /\ j + 1 \in 1..n + 1
          BY <1>3
        <4>2. QED
          BY <4>1
      <3> HIDE DEF B
      <3>3. QED
        BY <3>1, <3>2, JoinedType
    <2>5. s[1] \in Seq(R) /\ s[m + 1] \in Seq(R)
      BY <1>3
    <2>6. (s[1] \o Joined(t, m - 1)) \o s[m + 1] =
            s[1] \o (Joined(t, m - 1) \o s[m + 1])
      <3> HIDE DEF B
      <3>1. JoinsInAnyOrder(R)
        BY Associative
      <3>2. QED
        BY <2>4, <2>5, <3>1, Zenon DEF JoinsInAnyOrder
    <2>7. QED
      BY <1>3, <1>4, <1>5, <1>6, <1>8, <2>3, <2>6
  <1>9. QED
    BY <1>7, <1>8

---------------------------------------------------------------------------
(* The log.                                                                *)

\* What some files hold, from the oldest to the newest.
LogOf(fs) == FlattenSeq(Reverse(fs))

LEMMA Reversed ==
  ASSUME NEW R, NEW s \in Seq(R)
  PROVE  /\ Reverse(s) \in Seq(R) /\ Len(Reverse(s)) = Len(s)
         /\ \A i \in 1..Len(s) : Reverse(s)[i] = s[(Len(s) - i) + 1]
  BY DEF Reverse

LEMMA LogIsJoined ==
  ASSUME NEW R, NEW fs \in Seq(Seq(R)), Len(fs) # 0
  PROVE  /\ LogOf(fs) = Joined(Reverse(fs), Len(fs))
         /\ LogOf(fs) \in Seq(R)
  <1> DEFINE rf == Reverse(fs)
  <1>1. rf \in Seq(Seq(R)) /\ Len(rf) = Len(fs) /\ Len(fs) \in Nat
    BY Reversed
  <1>2. \A j \in 1..Len(fs) : rf[j] \in Seq(R)
    BY <1>1
  <1> HIDE DEF rf
  <1>3. Joined(rf, Len(fs)) \in Seq(R)
    BY <1>1, <1>2, JoinedType
  <1>4. FlattenSeq(rf) = Joined(rf, Len(fs))
    BY <1>1, FlattenIsJoin
  <1>5. QED
    BY <1>3, <1>4 DEF rf, LogOf

\* A record that is written to the current file comes last.
LEMMA LogGrows ==
  ASSUME NEW R, NEW fs \in Seq(Seq(R)), Len(fs) # 0, NEW r \in R
  PROVE  LogOf([fs EXCEPT ![1] = Append(@, r)]) = LogOf(fs) \o <<r>>
  <1> DEFINE gs == [fs EXCEPT ![1] = Append(@, r)]
             n == Len(fs)
             rf == Reverse(fs)
             rg == Reverse(gs)
  <1>1. n \in Nat /\ n # 0 /\ fs[1] \in Seq(R) /\ <<r>> \in Seq(R)
    OBVIOUS
  <1>2. /\ gs \in Seq(Seq(R)) /\ Len(gs) = n
        /\ gs[1] = fs[1] \o <<r>>
        /\ \A i \in 1..n : i # 1 => gs[i] = fs[i]
    OBVIOUS
  <1>3. LogOf(fs) = Joined(rf, n) /\ LogOf(gs) = Joined(rg, n)
    <2> HIDE DEF gs, rf
    <2>1. LogOf(gs) = Joined(rg, Len(gs))
      BY <1>1, <1>2, LogIsJoined
    <2>2. QED
      BY <1>2, <2>1, LogIsJoined DEF rf
  <1>4. \A j \in 1..n : /\ rf[j] = fs[(n - j) + 1] /\ rg[j] = gs[(n - j) + 1]
                        /\ rf[j] \in Seq(R)
    <2> HIDE DEF gs
    <2>1. /\ \A j \in 1..Len(fs) : rf[j] = fs[(Len(fs) - j) + 1]
          /\ \A j \in 1..Len(gs) : rg[j] = gs[(Len(gs) - j) + 1]
          /\ rf \in Seq(Seq(R)) /\ Len(rf) = n
      BY <1>2, Reversed
    <2> HIDE DEF rf, rg
    <2>2. QED
      BY <1>2, <2>1
  <1>5. rf[n] = fs[1] /\ rg[n] = fs[1] \o <<r>>
    <2>1. n \in 1..n /\ (n - n) + 1 = 1
      BY <1>1
    <2> HIDE DEF rf, rg, gs, n
    <2>2. QED
      BY <1>2, <1>4, <2>1
  <1>6. \A j \in 1..n - 1 : rg[j] = rf[j]
    <2>1. \A j \in 1..n - 1 : /\ j \in 1..n /\ (n - j) + 1 \in 1..n
                              /\ (n - j) + 1 # 1
      BY <1>1
    <2> HIDE DEF rf, rg, gs, n
    <2>2. QED
      BY <1>2, <1>4, <2>1
  <1> HIDE DEF rf, rg, gs, n
  <1>7. /\ Joined(rf, n) = IF n = 1 THEN rf[1] ELSE Joined(rf, n - 1) \o rf[n]
        /\ Joined(rg, n) = IF n = 1 THEN rg[1] ELSE Joined(rg, n - 1) \o rg[n]
    BY <1>1, JoinedLast
  <1>8. CASE n = 1
    BY <1>3, <1>5, <1>7, <1>8 DEF gs
  <1>9. CASE n # 1
    <2>1. n - 1 \in Nat /\ n - 1 # 0 /\ \A j \in 1..n - 1 : j \in 1..n
      BY <1>1, <1>9
    <2>2. Joined(rg, n - 1) = Joined(rf, n - 1)
      BY <1>6, <2>1, JoinedSame
    <2>3. Joined(rf, n - 1) \in Seq(R)
      BY <1>4, <2>1, JoinedType
    <2>4. (Joined(rf, n - 1) \o fs[1]) \o <<r>> =
            Joined(rf, n - 1) \o (fs[1] \o <<r>>)
      <3>1. JoinsInAnyOrder(R)
        BY Associative
      <3>2. QED
        BY <1>1, <2>3, <3>1, Zenon DEF JoinsInAnyOrder
    <2>5. QED
      BY <1>3, <1>5, <1>7, <1>9, <2>2, <2>4 DEF gs
  <1>10. QED
    BY <1>8, <1>9

\* What rolling does to the files.
LEMMA RolledFiles ==
  ASSUME NEW R, NEW fs \in Seq(Seq(R)), Len(fs) # 0, Len(fs) <= MaxFiles
  PROVE  \E k \in Nat : /\ k = IF Len(fs) < MaxFiles THEN Len(fs)
                                                     ELSE MaxFiles - 1
                        /\ Rolled(fs) \in Seq(Seq(R)) /\ Len(Rolled(fs)) = k + 1
                        /\ Rolled(fs)[1] = <<>>
                        /\ \A i \in 1..k : Rolled(fs)[i + 1] = fs[i]
  <1> DEFINE n == Len(fs)
             k == IF n < MaxFiles THEN n ELSE MaxFiles - 1
             M == {MaxFiles - 1, n}
  <1>1. n \in Nat /\ n # 0 /\ n <= MaxFiles /\ MaxFiles \in Nat
    BY AppenderAssumption
  <1>2. k \in Nat /\ k <= n /\ k \in M /\ \A y \in M : k <= y
    BY <1>1
  <1>3. Min(M) = k
    <2>1. \E x \in M : \A y \in M : x <= y
      BY <1>2
    <2>2. Min(M) \in M /\ \A y \in M : Min(M) <= y
      BY <2>1 DEF Min
    <2>3. Min(M) <= k /\ k <= Min(M) /\ Min(M) \in Int
      <3>1. M \subseteq Int
        BY <1>1
      <3>2. QED
        BY <1>2, <2>2, <3>1
    <2>4. QED
      BY <1>2, <2>3
  <1> DEFINE t == SubSeq(fs, 1, k)
  <1>4. Rolled(fs) = <<<<>>>> \o t
    <2> HIDE DEF k
    <2>1. QED
      BY <1>3 DEF Rolled
  <1>5. t \in Seq(Seq(R)) /\ Len(t) = k /\ \A i \in 1..k : t[i] = fs[i]
    <2> HIDE DEF k
    <2>1. QED
      BY <1>1, <1>2
  <1>6. /\ <<<<>>>> \o t \in Seq(Seq(R)) /\ Len(<<<<>>>> \o t) = k + 1
        /\ (<<<<>>>> \o t)[1] = <<>>
        /\ \A i \in 1..k : (<<<<>>>> \o t)[i + 1] = t[i]
    <2>1. <<<<>>>> \in Seq(Seq(R)) /\ Len(<<<<>>>>) = 1
      OBVIOUS
    <2> HIDE DEF t, k
    <2>2. QED
      BY <1>2, <1>5, <2>1
  <1> HIDE DEF t
  <1>7. QED
    BY <1>2, <1>4, <1>5, <1>6

\* Rolling drops the oldest file when there are max_files of them, and
\* otherwise nothing.
LEMMA RollDropsOldest ==
  ASSUME NEW R, NEW fs \in Seq(Seq(R)), Len(fs) # 0, Len(fs) <= MaxFiles
  PROVE  /\ Rolled(fs) \in Seq(Seq(R)) /\ Len(Rolled(fs)) # 0
         /\ Len(Rolled(fs)) <= MaxFiles
         /\ Len(fs) = MaxFiles => Len(Rolled(fs)) = MaxFiles
         /\ \E q \in Seq(R) : /\ LogOf(fs) = q \o LogOf(Rolled(fs))
                              /\ q # <<>> => Len(fs) = MaxFiles
  <1> DEFINE n == Len(fs)
             gs == Rolled(fs)
             rf == Reverse(fs)
             rg == Reverse(gs)
  <1>1. n \in Nat /\ n # 0 /\ n <= MaxFiles /\ MaxFiles \in Nat
    BY AppenderAssumption
  <1>2. PICK k \in Nat : /\ k = IF n < MaxFiles THEN n ELSE MaxFiles - 1
                         /\ gs \in Seq(Seq(R)) /\ Len(gs) = k + 1
                         /\ gs[1] = <<>>
                         /\ \A i \in 1..k : gs[i + 1] = fs[i]
    BY RolledFiles
  <1>3. k = n \/ k = n - 1
    BY <1>1, <1>2
  <1> HIDE DEF gs
  <1>4. /\ LogOf(fs) = Joined(rf, n) /\ LogOf(gs) = Joined(rg, k + 1)
        /\ LogOf(fs) \in Seq(R)
    <2>1. /\ LogOf(fs) = Joined(Reverse(fs), Len(fs))
          /\ LogOf(fs) \in Seq(R)
      BY LogIsJoined
    <2>2. LogOf(gs) = Joined(Reverse(gs), Len(gs))
      <3>1. gs \in Seq(Seq(R)) /\ Len(gs) # 0
        BY <1>2
      <3>2. QED
        BY <3>1, LogIsJoined
    <2>3. QED
      BY <1>2, <2>1, <2>2
  <1>5. /\ \A j \in 1..n : rf[j] = fs[(n - j) + 1] /\ rf[j] \in Seq(R)
        /\ \A j \in 1..k + 1 : rg[j] = gs[((k + 1) - j) + 1]
    <2>1. /\ \A j \in 1..Len(fs) : rf[j] = fs[(Len(fs) - j) + 1]
          /\ \A j \in 1..Len(gs) : rg[j] = gs[(Len(gs) - j) + 1]
          /\ rf \in Seq(Seq(R)) /\ Len(rf) = n
      BY <1>2, Reversed
    <2> HIDE DEF rf, rg
    <2>2. QED
      BY <1>2, <2>1
  <1> HIDE DEF n, rf, rg
  <1>6. rg[k + 1] = <<>>
    <2>1. k + 1 \in 1..k + 1 /\ ((k + 1) - (k + 1)) + 1 = 1
      OBVIOUS
    <2>2. QED
      BY <1>2, <1>5, <2>1
  <1>7. \A j \in 1..k : rg[j] = fs[(k - j) + 1]
    <2>1. ASSUME NEW j \in 1..k
          PROVE  rg[j] = fs[(k - j) + 1]
      <3>1. /\ j \in 1..k + 1 /\ (k - j) + 1 \in 1..k
            /\ ((k + 1) - j) + 1 = ((k - j) + 1) + 1
        OBVIOUS
      <3>2. rg[j] = gs[((k - j) + 1) + 1]
        BY <1>5, <3>1
      <3>3. gs[((k - j) + 1) + 1] = fs[(k - j) + 1]
        BY <1>2, <3>1
      <3>4. QED
        BY ONLY <3>2, <3>3
    <2>2. QED
      BY <2>1
  <1>8. ASSUME k # 0
        PROVE  LogOf(gs) = Joined(rg, k) /\ Joined(rg, k) \in Seq(R)
    <2>1. k + 1 \in Nat /\ k + 1 # 0 /\ k + 1 # 1 /\ (k + 1) - 1 = k
      BY <1>8
    <2>2. Joined(rg, k + 1) = Joined(rg, (k + 1) - 1) \o rg[k + 1]
      BY <2>1, JoinedLast
    <2>3. \A j \in 1..k : rg[j] \in Seq(R)
      <3>1. \A j \in 1..k : (k - j) + 1 \in 1..n
        BY <1>1, <1>3
      <3>2. \A i \in 1..n : fs[i] \in Seq(R)
        BY DEF n
      <3>3. QED
        BY <1>7, <3>1, <3>2
    <2>4. Joined(rg, k) \in Seq(R)
      BY <1>8, <2>3, JoinedType
    <2>5. Joined(rg, k) \o <<>> = Joined(rg, k)
      BY <2>4, ConcatEmptySeq
    <2>6. QED
      BY <1>4, <1>6, <2>1, <2>2, <2>4, <2>5
  <1>9. \E q \in Seq(R) : /\ LogOf(fs) = q \o LogOf(gs)
                          /\ q # <<>> => n = MaxFiles
    <2>1. CASE k = n
      <3>1. \A j \in 1..n : rg[j] = rf[j]
        BY <1>5, <1>7, <2>1
      <3>2. Joined(rg, n) = Joined(rf, n)
        BY <1>1, <3>1, JoinedSame
      <3>3. LogOf(gs) = LogOf(fs)
        BY <1>1, <1>4, <1>8, <2>1, <3>2
      <3>4. LogOf(fs) = <<>> \o LogOf(fs) /\ <<>> \in Seq(R)
        BY <1>4, ConcatEmptySeq, EmptySeq
      <3>5. QED
        BY <3>3, <3>4
    <2>2. CASE k = n - 1 /\ n = 1
      <3>1. Joined(rg, k + 1) = rg[1]
        <4>1. k + 1 = 1
          BY <1>1, <2>2
        <4>2. QED
          BY <4>1, JoinedOne
      <3>2. LogOf(gs) = <<>>
        BY <1>4, <1>6, <2>2, <3>1
      <3>3. LogOf(fs) = LogOf(fs) \o <<>>
        BY <1>4, ConcatEmptySeq
      <3>4. n = MaxFiles
        BY <1>1, <1>2, <2>2
      <3>5. QED
        BY <1>4, <3>2, <3>3, <3>4
    <2>3. CASE k = n - 1 /\ n # 1
      <3>1. k # 0 /\ k + 1 = n /\ n = MaxFiles /\ 1 \in 1..n
        BY <1>1, <1>2, <2>3
      <3>2. \A j \in 1..k : rg[j] = rf[j + 1]
        <4>1. ASSUME NEW j \in 1..k
              PROVE  rg[j] = rf[j + 1]
          <5>1. j + 1 \in 1..n /\ (n - (j + 1)) + 1 = (k - j) + 1
            BY <1>1, <3>1
          <5>2. QED
            BY <1>5, <1>7, <5>1
        <4>2. QED
          BY <4>1
      <3>3. Joined(rf, n) = rf[1] \o Joined(rg, k)
        <4>1. AreSeqs(rf, n, R) /\ IsTail(rg, rf, k)
          BY <1>5, <3>2 DEF AreSeqs, IsTail
        <4>2. k \in Nat /\ k # 0 /\ n \in Nat /\ n = k + 1
          BY <1>1, <3>1
        <4>3. QED
          BY ONLY <4>1, <4>2, JoinedFirst, SMT
      <3>4. QED
        BY <1>4, <1>5, <1>8, <3>1, <3>3
    <2>4. QED
      BY <1>3, <2>1, <2>2, <2>3
  <1>10. /\ Len(gs) # 0 /\ Len(gs) <= MaxFiles
         /\ n = MaxFiles => Len(gs) = MaxFiles
    <2>1. Len(gs) = k + 1 /\ k = IF n < MaxFiles THEN n ELSE MaxFiles - 1
      BY <1>2
    <2>2. QED
      BY <1>1, <2>1
  <1>11. QED
    BY <1>2, <1>9, <1>10 DEF gs, n

\* The end of a sequence is a suffix of it.
LEMMA EndIsSuffix ==
  ASSUME NEW R, NEW p \in Seq(R), NEW s \in Seq(R)
  PROVE  /\ IsSuffix(s, p \o s)
         /\ Len(s) < Len(p \o s) => p # <<>>
  <1> DEFINE w == p \o s
             rs == Reverse(s)
             rw == Reverse(w)
             n == Len(s)
             m == Len(p)
  <1>1. /\ n \in Nat /\ m \in Nat /\ w \in Seq(R) /\ Len(w) = m + n
        /\ \A i \in 1..m + n : w[i] = IF i <= m THEN p[i] ELSE s[i - m]
    OBVIOUS
  <1>2. /\ rs \in Seq(R) /\ Len(rs) = n
        /\ \A i \in 1..n : rs[i] = s[(n - i) + 1]
    BY Reversed
  <1> HIDE DEF w
  <1>3. /\ rw \in Seq(R) /\ Len(rw) = m + n
        /\ \A i \in 1..m + n : rw[i] = w[((m + n) - i) + 1]
    <2>1. /\ rw \in Seq(R) /\ Len(rw) = Len(w)
          /\ \A i \in 1..Len(w) : rw[i] = w[(Len(w) - i) + 1]
      BY <1>1, Reversed
    <2> HIDE DEF rw
    <2>2. QED
      BY <1>1, <2>1
  <1> HIDE DEF rs, rw, n, m
  <1>4. ASSUME NEW i \in 1..n
        PROVE  rs[i] = rw[i]
    <2>1. /\ i \in 1..m + n /\ ((m + n) - i) + 1 \in 1..m + n
          /\ ~(((m + n) - i) + 1 <= m)
          /\ (((m + n) - i) + 1) - m = (n - i) + 1
      BY <1>1
    <2>2. QED
      BY <1>1, <1>2, <1>3, <2>1
  <1>5. SubSeq(rs, 1, n) = SubSeq(rw, 1, n)
    <2>1. /\ SubSeq(rs, 1, n) \in Seq(R) /\ Len(SubSeq(rs, 1, n)) = n
          /\ \A i \in 1..n : SubSeq(rs, 1, n)[i] = rs[i]
      BY <1>1, <1>2
    <2>2. /\ SubSeq(rw, 1, n) \in Seq(R) /\ Len(SubSeq(rw, 1, n)) = n
          /\ \A i \in 1..n : SubSeq(rw, 1, n)[i] = rw[i]
      BY <1>1, <1>3
    <2>3. QED
      BY <1>4, <2>1, <2>2, SeqEqual
  <1>6. n <= m + n
    BY <1>1
  <1>7. IsSuffix(s, w)
    BY <1>2, <1>3, <1>5, <1>6 DEF IsSuffix, IsPrefix, rs, rw
  <1>8. n < Len(w) => p # <<>>
    BY <1>1 DEF m
  <1>9. QED
    BY <1>7, <1>8 DEF w, n

---------------------------------------------------------------------------
(* The records that are kept.                                              *)

Record == Logger \X Nat

LogType ==
    /\ sent \in [Logger -> Nat] /\ queued \in [Logger -> Seq(Record)]
    /\ files \in Seq(Seq(Record)) /\ Len(files) # 0
    /\ written \in Seq(Record)

\* What was written is what was dropped, and then the log; something is dropped
\* only when all files are there.
Dropped(p) == written = p \o Log /\ (p # <<>> => Len(files) = MaxFiles)

LogInv ==
    /\ LogType
    /\ \E p \in Seq(Record) : Dropped(p)
    /\ MaxFiles > 0 => Len(files) <= MaxFiles

LEMMA LogStarts == AppenderInit => LogInv
  <1> SUFFICES ASSUME AppenderInit PROVE LogInv
    OBVIOUS
  <1>1. LogType /\ Len(files) = 1
    BY DEF AppenderInit, LogType, Record
  <1>2. Log = <<>>
    <2>1. Log = Joined(Reverse(files), Len(files)) /\ Log \in Seq(Record)
      BY <1>1, LogIsJoined DEF LogType, Log, LogOf
    <2>2. Joined(Reverse(files), Len(files)) = Reverse(files)[1]
      BY <1>1, JoinedOne
    <2>3. Reverse(files)[1] = <<>>
      BY DEF AppenderInit, Reverse
    <2>4. QED
      BY <2>1, <2>2, <2>3
  <1>3. Dropped(<<>>)
    BY <1>2 DEF AppenderInit, Dropped
  <1>4. MaxFiles > 0 => Len(files) <= MaxFiles
    BY <1>1, AppenderAssumption
  <1>5. <<>> \in Seq(Record)
    BY EmptySeq
  <1>6. QED
    BY <1>1, <1>3, <1>4, <1>5 DEF LogInv

\* The check of the size keeps the newest records.
LEMMA CheckKeeps ==
  ASSUME LogInv
  PROVE  /\ Checked \in Seq(Seq(Record)) /\ Len(Checked) # 0
         /\ MaxFiles > 0 => Len(Checked) <= MaxFiles
         /\ \E p \in Seq(Record) : /\ written = p \o LogOf(Checked)
                                   /\ p # <<>> => Len(Checked) = MaxFiles
  <1>1. JoinsInAnyOrder(Record)
    BY Associative
  <1>2. CASE ~(MaxFiles > 0 /\ Len(files[1]) > MaxSize)
    BY <1>2 DEF LogInv, LogType, Checked, Dropped, Log, LogOf
  <1>3. CASE MaxFiles > 0 /\ Len(files[1]) > MaxSize
    <2> DEFINE gs == Rolled(files)
    <2>1. Checked = gs
      BY <1>3 DEF Checked
    <2>2. files \in Seq(Seq(Record)) /\ Len(files) # 0 /\ Len(files) <= MaxFiles
      BY <1>3 DEF LogInv, LogType
    <2>3. /\ gs \in Seq(Seq(Record)) /\ Len(gs) # 0 /\ Len(gs) <= MaxFiles
          /\ Len(files) = MaxFiles => Len(gs) = MaxFiles
          /\ \E q \in Seq(Record) : /\ LogOf(files) = q \o LogOf(gs)
                                    /\ q # <<>> => Len(files) = MaxFiles
      BY <2>2, RollDropsOldest
    <2> HIDE DEF gs
    <2>4. PICK q \in Seq(Record) : /\ LogOf(files) = q \o LogOf(gs)
                                   /\ q # <<>> => Len(files) = MaxFiles
      BY <2>3
    <2>5. PICK p \in Seq(Record) : Dropped(p)
      BY DEF LogInv
    <2>6. LogOf(gs) \in Seq(Record)
      BY <2>3, LogIsJoined
    <2>7. p \o q \in Seq(Record)
      OBVIOUS
    <2>8. written = (p \o q) \o LogOf(gs)
      <3>1. p \o (q \o LogOf(gs)) = (p \o q) \o LogOf(gs)
        BY <1>1, <2>6, Zenon DEF JoinsInAnyOrder
      <3>2. QED
        BY <2>4, <2>5, <3>1 DEF Dropped, Log, LogOf
    <2>9. p \o q # <<>> => Len(gs) = MaxFiles
      <3>1. p = <<>> /\ q = <<>> => p \o q = <<>>
        OBVIOUS
      <3>2. QED
        BY <2>3, <2>4, <2>5, <3>1 DEF Dropped
    <2>10. QED
      BY <2>1, <2>3, <2>7, <2>8, <2>9
  <1>4. QED
    BY <1>2, <1>3

\* A record is written.
LEMMA WriteKeeps ==
  ASSUME LogInv, NEW r \in Record, Write(r)
  PROVE  /\ files' \in Seq(Seq(Record)) /\ Len(files') # 0
         /\ written' \in Seq(Record)
         /\ \E p \in Seq(Record) : Dropped(p)'
         /\ MaxFiles > 0 => Len(files') <= MaxFiles
  <1> DEFINE gs == Checked
             hs == [gs EXCEPT ![1] = Append(@, r)]
  <1>1. /\ gs \in Seq(Seq(Record)) /\ Len(gs) # 0
        /\ MaxFiles > 0 => Len(gs) <= MaxFiles
    BY CheckKeeps
  <1>2. PICK p \in Seq(Record) : /\ written = p \o LogOf(gs)
                                 /\ p # <<>> => Len(gs) = MaxFiles
    BY CheckKeeps
  <1>3. files' = hs /\ written' = Append(written, r)
    BY DEF Write
  <1> HIDE DEF gs
  <1>4. hs \in Seq(Seq(Record)) /\ Len(hs) = Len(gs)
    BY <1>1
  <1>5. LogOf(hs) = LogOf(gs) \o <<r>> /\ LogOf(gs) \in Seq(Record)
    BY <1>1, LogGrows, LogIsJoined
  <1>6. written \in Seq(Record) /\ written' = written \o <<r>>
    BY <1>3 DEF LogInv, LogType
  <1>7. (p \o LogOf(gs)) \o <<r>> = p \o (LogOf(gs) \o <<r>>)
    <2>1. JoinsInAnyOrder(Record)
      BY Associative
    <2>2. <<r>> \in Seq(Record)
      OBVIOUS
    <2>3. QED
      BY <1>5, <2>1, <2>2, Zenon DEF JoinsInAnyOrder
  <1> HIDE DEF hs
  <1>8. Dropped(p)'
    BY <1>2, <1>3, <1>4, <1>5, <1>6, <1>7 DEF Dropped, Log, LogOf
  <1>9. written' \in Seq(Record)
    BY <1>6
  <1>10. QED
    BY <1>1, <1>3, <1>4, <1>8, <1>9

LEMMA WriteOneKeeps ==
  ASSUME LogInv, WriteOne, UNCHANGED sent
  PROVE  LogInv'
  <1>1. PICK l \in Logger : /\ queued[l] # <<>>
                            /\ queued' = [queued EXCEPT ![l] = Tail(@)]
                            /\ Write(Head(queued[l]))
    BY DEF WriteOne
  <1>2. queued \in [Logger -> Seq(Record)] /\ sent \in [Logger -> Nat]
    BY DEF LogInv, LogType
  <1>3. /\ queued[l] \in Seq(Record) /\ Head(queued[l]) \in Record
        /\ Tail(queued[l]) \in Seq(Record)
    BY <1>1, <1>2
  <1>4. queued' \in [Logger -> Seq(Record)]
    BY <1>1, <1>2, <1>3
  <1>5. /\ files' \in Seq(Seq(Record)) /\ Len(files') # 0
        /\ written' \in Seq(Record)
        /\ \E p \in Seq(Record) : Dropped(p)'
        /\ MaxFiles > 0 => Len(files') <= MaxFiles
    BY <1>1, <1>3, WriteKeeps
  <1>6. QED
    BY <1>2, <1>4, <1>5 DEF LogInv, LogType

\* A step that leaves the files alone.
LEMMA FilesAlone ==
  ASSUME LogInv, UNCHANGED <<files, written>>,
         sent' \in [Logger -> Nat], queued' \in [Logger -> Seq(Record)]
  PROVE  LogInv'
  BY DEF LogInv, LogType, Dropped, Log

LEMMA LogKept == LogInv /\ [AppenderNext]_appenderVars => LogInv'
  <1> SUFFICES ASSUME LogInv, [AppenderNext]_appenderVars
               PROVE  LogInv'
    OBVIOUS
  <1>1. sent \in [Logger -> Nat] /\ queued \in [Logger -> Seq(Record)]
    BY DEF LogInv, LogType
  <1>2. ASSUME UNCHANGED <<queued, sent, files, written>>
        PROVE  LogInv'
    BY <1>1, <1>2, FilesAlone
  <1>3. ASSUME NEW l \in Logger, Enqueue(l)
        PROVE  LogInv'
    <2>1. sent' \in [Logger -> Nat]
      BY <1>1, <1>3 DEF Enqueue
    <2>2. <<l, sent[l] + 1>> \in Record
      BY <1>1 DEF Record
    <2>3. Append(queued[l], <<l, sent[l] + 1>>) \in Seq(Record)
      BY <1>1, <2>2
    <2>4. queued' \in [Logger -> Seq(Record)]
      BY <1>1, <1>3, <2>3 DEF Enqueue
    <2>5. QED
      BY <1>3, <2>1, <2>4, FilesAlone DEF Enqueue
  <1>4. CASE Take
    <2>1. CASE WriteOne
      BY <1>4, <2>1, WriteOneKeeps DEF Take
    <2>2. CASE files' = Checked /\ UNCHANGED <<queued, written>>
      <3>1. /\ Checked \in Seq(Seq(Record)) /\ Len(Checked) # 0
            /\ MaxFiles > 0 => Len(Checked) <= MaxFiles
        BY CheckKeeps
      <3>2. PICK p \in Seq(Record) : /\ written = p \o LogOf(Checked)
                                     /\ p # <<>> => Len(Checked) = MaxFiles
        BY CheckKeeps
      <3>3. Dropped(p)'
        BY <2>2, <3>2 DEF Dropped, Log, LogOf
      <3>4. UNCHANGED sent
        BY <1>4 DEF Take
      <3>5. QED
        BY <2>2, <3>1, <3>3, <3>4 DEF LogInv, LogType
    <2>3. QED
      BY <1>4, <2>1, <2>2 DEF Take
  <1>5. CASE Drain
    <2>1. CASE WriteOne
      BY <1>5, <2>1, WriteOneKeeps DEF Drain
    <2>2. CASE UNCHANGED <<queued, files, written>>
      BY <1>2, <1>5, <2>2 DEF Drain
    <2>3. QED
      BY <1>5, <2>1, <2>2 DEF Drain
  <1>6. ASSUME NEW l \in Logger, Notify(l)
        PROVE  LogInv'
    BY <1>2, <1>6 DEF Notify
  <1>7. CASE Top \/ Look \/ Lock \/ Predicate \/ Wait \/ Woken \/ Stopped
    BY <1>2, <1>7 DEF Top, Look, Lock, Predicate, Wait, Woken, Stopped
  <1>8. CASE StopCall \/ SetStop \/ Join
    BY <1>2, <1>8 DEF StopCall, SetStop, Join
  <1>9. CASE UNCHANGED appenderVars
    BY <1>2, <1>9 DEF appenderVars
  <1>10. QED
    BY <1>3, <1>4, <1>5, <1>6, <1>7, <1>8, <1>9 DEF AppenderNext, Writer, Stop

\* The files hold the newest records in the order in which they were written,
\* whatever the number of files, their size, the threads that log and the
\* moment at which they are rolled: rolling the files drops the oldest one when
\* max_files of them exist and nothing else.
THEOREM NewestRecordsKept == AppenderSpec => []NewestKept
  <1>1. LogInv => NewestKept
    <2> SUFFICES ASSUME LogInv PROVE NewestKept
      OBVIOUS
    <2>1. PICK p \in Seq(Record) : Dropped(p)
      BY DEF LogInv
    <2>2. Log \in Seq(Record)
      BY LogIsJoined DEF LogInv, LogType, Log, LogOf
    <2>3. /\ IsSuffix(Log, p \o Log)
          /\ Len(Log) < Len(p \o Log) => p # <<>>
      BY <2>2, EndIsSuffix
    <2>4. QED
      BY <2>1, <2>3 DEF LogInv, Dropped, NewestKept
  <1>2. QED
    BY LogStarts, LogKept, <1>1, PTL DEF AppenderSpec

=============================================================================
