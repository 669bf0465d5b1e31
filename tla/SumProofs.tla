----------------------------- MODULE SumProofs ------------------------------
(***************************************************************************)
(* What SumOf computes, for every finite set.  The fold behind it is a     *)
(* recursive function over subsets; each fact is shown for a smallest set  *)
(* for which it could fail.  Max and Min follow.                           *)
(***************************************************************************)
EXTENDS Sums, FiniteSetTheorems, WellFoundedInduction, TLAPS

\* A nonempty family of subsets of a finite set has a minimal member.
LEMMA MinimalSubset ==
    ASSUME NEW S, IsFiniteSet(S), NEW B \in SUBSET SUBSET S, B # {}
    PROVE  \E T \in B : \A U \in SUBSET T : U # T => U \notin B
<1>1. B \subseteq FiniteSubsetsOf(S)
  BY FS_Subset DEF FiniteSubsetsOf
<1>2. PICK T \in B : \A U \in B : ~(<<U, T>> \in StrictSubsetOrdering(S))
  BY <1>1, FS_StrictSubsetOrderingWellFounded, WFMin
<1>3. ASSUME NEW U \in SUBSET T, U # T, U \in B PROVE FALSE
  BY <1>2, <1>3 DEF StrictSubsetOrdering
<1>4. QED BY <1>3

\* The element the fold takes out of s first, and the equation its recursive
\* function g solves on the subsets of T.
Pick(s) == CHOOSE x \in s : TRUE
Step(f, g, T) ==
    [s \in SUBSET T |-> IF s = {} THEN 0 ELSE f[Pick(s)] + g[s \ {Pick(s)}]]

LEMMA SumUnfold ==
    ASSUME NEW f, NEW S
    PROVE  SumOf(f, S) = (CHOOSE g : g = Step(f, g, S))[S]
BY DEF SumOf, MapThenSumSet, MapThenFoldSet, Step, Pick

\* The fold's recursive function exists, is the only one, and gives for every
\* subset what the fold over that subset gives.
LEMMA SumSolves ==
    ASSUME NEW f, NEW S, IsFiniteSet(S)
    PROVE  LET G == [s \in SUBSET S |-> SumOf(f, s)]
           IN  G = Step(f, G, S)
<1> DEFINE G(T) == [s \in SUBSET T |-> SumOf(f, s)]
           Good(T) == G(T) = Step(f, G(T), T) /\ \A g : g = Step(f, g, T) => g = G(T)
           Bad == {T \in SUBSET S : ~Good(T)}
<1>1. SUFFICES ASSUME Bad # {} PROVE FALSE
  BY DEF Step
<1>2. PICK T \in Bad : \A U \in SUBSET T : U # T => U \notin Bad
  <2> HIDE DEF Good
  <2>1. Bad \in SUBSET SUBSET S
    OBVIOUS
  <2> HIDE DEF Bad
  <2>2. QED BY <1>1, <2>1, MinimalSubset
<1>3. \A U \in SUBSET T : U # T => Good(U)
  BY <1>2
<1> HIDE DEF Good, Bad
<1> DEFINE top == IF T = {} THEN 0 ELSE f[Pick(T)] + SumOf(f, T \ {Pick(T)})
           k == [s \in SUBSET T |-> IF s = T THEN top ELSE SumOf(f, s)]
<1>p. \A s : s # {} => Pick(s) \in s
  BY DEF Pick
<1>4. k = Step(f, k, T)
  <2>1. ASSUME NEW s \in SUBSET T
        PROVE  k[s] = IF s = {} THEN 0 ELSE f[Pick(s)] + k[s \ {Pick(s)}]
    <3>1. CASE s = T
      BY <3>1, <1>p
    <3>2. CASE s # T
      <4>1. G(s) = Step(f, G(s), s)
        BY <1>3, <3>2 DEF Good
      <4>2. G(s)[s] = IF s = {} THEN 0 ELSE f[Pick(s)] + G(s)[s \ {Pick(s)}]
        BY <4>1 DEF Step
      <4>3. G(s)[s] = SumOf(f, s) /\ G(s)[s \ {Pick(s)}] = SumOf(f, s \ {Pick(s)})
        OBVIOUS
      <4>4. s \ {Pick(s)} \in SUBSET T /\ s \ {Pick(s)} # T
        BY <3>2
      <4>5. QED BY <4>2, <4>3, <4>4, <3>2
    <3>3. QED BY <3>1, <3>2
  <2> HIDE DEF k
  <2>2. k = [s \in SUBSET T |-> k[s]]
    BY DEF k
  <2>3. QED BY <2>1, <2>2 DEF Step
<1>5. ASSUME NEW g, g = Step(f, g, T) PROVE g = k
  <2>1. ASSUME NEW s \in SUBSET T, s # T PROVE g[s] = SumOf(f, s)
    <3> DEFINE h == [u \in SUBSET s |-> g[u]]
    <3>1. h = Step(f, h, s)
      <4>1. ASSUME NEW u \in SUBSET s
            PROVE  g[u] = IF u = {} THEN 0 ELSE f[Pick(u)] + h[u \ {Pick(u)}]
        BY <1>5 DEF Step
      <4>2. QED BY <4>1 DEF Step
    <3>2. h = G(s)
      BY <3>1, <1>3, <2>1 DEF Good
    <3>3. h[s] = g[s] /\ G(s)[s] = SumOf(f, s)
      OBVIOUS
    <3>4. QED BY <3>2, <3>3
  <2>2. g[T] = top
    <3>1. g[T] = IF T = {} THEN 0 ELSE f[Pick(T)] + g[T \ {Pick(T)}]
      BY <1>5 DEF Step
    <3>2. T # {} => g[T \ {Pick(T)}] = SumOf(f, T \ {Pick(T)})
      BY <2>1, <1>p
    <3>3. QED BY <3>1, <3>2
  <2>3. g = [s \in SUBSET T |-> g[s]]
    BY <1>5 DEF Step
  <2>4. QED BY <2>1, <2>2, <2>3
<1>6. SumOf(f, T) = top
  <2>1. (CHOOSE g : g = Step(f, g, T)) = k
    BY <1>4, <1>5
  <2>2. QED BY <2>1, SumUnfold
<1>7. k = G(T)
  BY <1>6
<1>8. Good(T)
  BY <1>4, <1>5, <1>7 DEF Good
<1>9. QED BY <1>8, <1>2 DEF Bad

LEMMA SumEmpty ==
    ASSUME NEW f
    PROVE  SumOf(f, {}) = 0
<1> DEFINE G == [s \in SUBSET {} |-> SumOf(f, s)]
<1>1. G = Step(f, G, {})
  BY SumSolves, FS_EmptySet
<1>2. G[{}] = 0
  BY <1>1 DEF Step
<1>3. QED BY <1>2

LEMMA SumPick ==
    ASSUME NEW f, NEW S, IsFiniteSet(S), S # {}
    PROVE  Pick(S) \in S /\ SumOf(f, S) = f[Pick(S)] + SumOf(f, S \ {Pick(S)})
<1> DEFINE G == [s \in SUBSET S |-> SumOf(f, s)]
<1>0. Pick(S) \in S
  BY DEF Pick
<1>1. G = Step(f, G, S)
  BY SumSolves
<1>2. G[S] = f[Pick(S)] + G[S \ {Pick(S)}]
  BY <1>1 DEF Step
<1>3. QED BY <1>0, <1>2

\* A sum of integers is one, and any element can be taken out.
LEMMA SumElement ==
    ASSUME NEW f, NEW S, IsFiniteSet(S), \A x \in S : f[x] \in Int
    PROVE  SumOf(f, S) \in Int /\ \A x \in S : SumOf(f, S) = f[x] + SumOf(f, S \ {x})
<1> DEFINE Good(T) == SumOf(f, T) \in Int /\ \A x \in T : SumOf(f, T) = f[x] + SumOf(f, T \ {x})
           Bad == {T \in SUBSET S : ~Good(T)}
<1>1. SUFFICES ASSUME Bad # {} PROVE FALSE
  OBVIOUS
<1>2. PICK T \in Bad : \A U \in SUBSET T : U # T => U \notin Bad
  <2> HIDE DEF Good
  <2>1. Bad \in SUBSET SUBSET S
    OBVIOUS
  <2> HIDE DEF Bad
  <2>2. QED BY <1>1, <2>1, MinimalSubset
<1>3. \A U \in SUBSET T : U # T => Good(U)
  BY <1>2
<1>f. IsFiniteSet(T)
  BY FS_Subset
<1>4. CASE T = {}
  BY <1>4, SumEmpty, <1>2
<1>5. CASE T # {}
  <2> DEFINE y == Pick(T)
  <2>1. y \in T /\ SumOf(f, T) = f[y] + SumOf(f, T \ {y})
    BY <1>5, <1>f, SumPick
  <2> HIDE DEF y
  <2>2. Good(T \ {y})
    BY <1>3, <2>1
  <2>3. SumOf(f, T) \in Int
    BY <2>1, <2>2
  <2>4. ASSUME NEW x \in T PROVE SumOf(f, T) = f[x] + SumOf(f, T \ {x})
    <3>1. CASE x = y
      BY <3>1, <2>1
    <3>2. CASE x # y
      <4>1. SumOf(f, T \ {y}) = f[x] + SumOf(f, (T \ {y}) \ {x})
        BY <2>2, <3>2
      <4>2. Good(T \ {x})
        BY <1>3
      <4>3. SumOf(f, T \ {x}) = f[y] + SumOf(f, (T \ {x}) \ {y})
        BY <4>2, <3>2, <2>1
      <4>4. (T \ {x}) \ {y} = (T \ {y}) \ {x}
        OBVIOUS
      <4>5. Good((T \ {y}) \ {x})
        BY <1>3, <2>1
      <4>6. f[x] \in Int /\ f[y] \in Int /\ SumOf(f, (T \ {y}) \ {x}) \in Int
        BY <4>5, <2>1
      <4>7. \A a, b, c \in Int : a + (b + c) = b + (a + c)
        OBVIOUS
      <4>8. SumOf(f, T) = f[y] + (f[x] + SumOf(f, (T \ {y}) \ {x}))
        BY <2>1, <4>1
      <4>9. f[y] + (f[x] + SumOf(f, (T \ {y}) \ {x}))
              = f[x] + (f[y] + SumOf(f, (T \ {y}) \ {x}))
        <5> HIDE DEF Good, Bad
        <5>1. QED BY ONLY <4>6, <4>7
      <4>10. SumOf(f, T \ {x}) = f[y] + SumOf(f, (T \ {y}) \ {x})
        BY ONLY <4>3, <4>4
      <4>11. QED BY ONLY <4>8, <4>9, <4>10
    <3>3. QED BY <3>1, <3>2
  <2>5. Good(T)
    BY <2>3, <2>4
  <2>6. QED BY <2>5, <1>2
<1>6. QED BY <1>4, <1>5

LEMMA SumInsert ==
    ASSUME NEW f, NEW S, IsFiniteSet(S), \A x \in S : f[x] \in Int,
           NEW x, x \notin S, f[x] \in Int
    PROVE  SumOf(f, S \union {x}) = SumOf(f, S) + f[x]
<1>1. IsFiniteSet(S \union {x})
  BY FS_AddElement
<1>2. SumOf(f, S \union {x}) = f[x] + SumOf(f, (S \union {x}) \ {x})
  BY <1>1, SumElement
<1>3. (S \union {x}) \ {x} = S
  OBVIOUS
<1>4. SumOf(f, S) \in Int
  BY SumElement
<1>5. SumOf(f, S \union {x}) = f[x] + SumOf(f, S)
  BY ONLY <1>2, <1>3
<1>6. QED BY <1>4, <1>5

\* The sum depends only on the values on the set.
LEMMA SumCongruence ==
    ASSUME NEW f, NEW g, NEW S, IsFiniteSet(S), \A x \in S : f[x] = g[x]
    PROVE  SumOf(f, S) = SumOf(g, S)
<1> DEFINE Good(T) == SumOf(f, T) = SumOf(g, T)
           Bad == {T \in SUBSET S : ~Good(T)}
<1>1. SUFFICES ASSUME Bad # {} PROVE FALSE
  OBVIOUS
<1>2. PICK T \in Bad : \A U \in SUBSET T : U # T => U \notin Bad
  <2> HIDE DEF Good
  <2>1. Bad \in SUBSET SUBSET S
    OBVIOUS
  <2> HIDE DEF Bad
  <2>2. QED BY <1>1, <2>1, MinimalSubset
<1>3. \A U \in SUBSET T : U # T => Good(U)
  BY <1>2
<1>f. IsFiniteSet(T)
  BY FS_Subset
<1>4. CASE T = {}
  BY <1>4, SumEmpty, <1>2
<1>5. CASE T # {}
  <2>1. Pick(T) \in T /\ SumOf(f, T) = f[Pick(T)] + SumOf(f, T \ {Pick(T)})
    BY <1>5, <1>f, SumPick
  <2>2. SumOf(g, T) = g[Pick(T)] + SumOf(g, T \ {Pick(T)})
    BY <1>5, <1>f, SumPick
  <2>3. Good(T \ {Pick(T)})
    BY <1>3, <2>1
  <2>4. Good(T)
    BY <2>1, <2>2, <2>3
  <2>5. QED BY <2>4, <1>2
<1>6. QED BY <1>4, <1>5

LEMMA SumUnion ==
    ASSUME NEW f, NEW A, NEW B, IsFiniteSet(A), IsFiniteSet(B), A \intersect B = {},
           \A x \in A \union B : f[x] \in Int
    PROVE  SumOf(f, A \union B) = SumOf(f, A) + SumOf(f, B)
<1> DEFINE Good(T) == SumOf(f, A \union T) = SumOf(f, A) + SumOf(f, T)
           Bad == {T \in SUBSET B : ~Good(T)}
<1>0. SumOf(f, A) \in Int
  BY SumElement
<1>1. SUFFICES ASSUME Bad # {} PROVE FALSE
  OBVIOUS
<1>2. PICK T \in Bad : \A U \in SUBSET T : U # T => U \notin Bad
  <2> HIDE DEF Good
  <2>1. Bad \in SUBSET SUBSET B
    OBVIOUS
  <2> HIDE DEF Bad
  <2>2. QED BY <1>1, <2>1, MinimalSubset
<1>3. \A U \in SUBSET T : U # T => Good(U)
  BY <1>2
<1>f. IsFiniteSet(T)
  BY FS_Subset
<1>4. CASE T = {}
  <2>1. A \union T = A
    BY <1>4
  <2>2. Good(T)
    BY <1>0, <1>4, <2>1, SumEmpty
  <2>3. QED BY <2>2, <1>2
<1>5. CASE T # {}
  <2>1. PICK y \in T : TRUE
    BY <1>5
  <2> DEFINE R == T \ {y}
  <2>2. /\ R \in SUBSET T /\ R # T /\ y \notin R /\ y \notin A \union R
        /\ T = R \union {y} /\ A \union T = (A \union R) \union {y}
    BY <2>1
  <2>3. Good(R)
    BY <1>3, <2>2
  <2>4. IsFiniteSet(R) /\ IsFiniteSet(A \union R)
    BY <1>f, FS_Subset, FS_Union
  <2>5. f[y] \in Int /\ (\A x \in R : f[x] \in Int) /\ (\A x \in A \union R : f[x] \in Int)
    BY <2>1
  <2> HIDE DEF R, Good, Bad
  <2>6. SumOf(f, R \union {y}) = SumOf(f, R) + f[y]
    BY <2>2, <2>4, <2>5, SumInsert
  <2>7. SumOf(f, (A \union R) \union {y}) = SumOf(f, A \union R) + f[y]
    BY <2>2, <2>4, <2>5, SumInsert
  <2>8. SumOf(f, R) \in Int
    BY <2>4, <2>5, SumElement
  <2>9. SumOf(f, A \union R) = SumOf(f, A) + SumOf(f, R)
    BY <2>3 DEF Good
  <2>10. \A a, r, v \in Int : (a + r) + v = a + (r + v)
    OBVIOUS
  <2>11. (SumOf(f, A) + SumOf(f, R)) + f[y] = SumOf(f, A) + (SumOf(f, R) + f[y])
    BY ONLY <1>0, <2>5, <2>8, <2>10
  <2>12. SumOf(f, A \union T) = SumOf(f, A) + SumOf(f, T)
    BY ONLY <2>2, <2>6, <2>7, <2>9, <2>11
  <2>13. QED BY <2>12, <1>2 DEF Good, Bad
<1>6. QED BY <1>4, <1>5

LEMMA SumRemove ==
    ASSUME NEW f, NEW S, IsFiniteSet(S), NEW T \in SUBSET S, \A x \in S : f[x] \in Int
    PROVE  SumOf(f, S \ T) + SumOf(f, T) = SumOf(f, S)
<1>1. IsFiniteSet(T) /\ IsFiniteSet(S \ T)
  BY FS_Subset
<1>2. (S \ T) \union T = S /\ (S \ T) \intersect T = {}
  OBVIOUS
<1>3. \A x \in (S \ T) \union T : f[x] \in Int
  BY <1>2
<1>4. SumOf(f, (S \ T) \union T) = SumOf(f, S \ T) + SumOf(f, T)
  BY <1>1, <1>2, <1>3, SumUnion
<1>5. QED BY ONLY <1>2, <1>4

LEMMA SumNat ==
    ASSUME NEW f, NEW S, IsFiniteSet(S), \A x \in S : f[x] \in Nat
    PROVE  SumOf(f, S) \in Nat
<1> DEFINE Good(T) == SumOf(f, T) \in Nat
           Bad == {T \in SUBSET S : ~Good(T)}
<1>1. SUFFICES ASSUME Bad # {} PROVE FALSE
  OBVIOUS
<1>2. PICK T \in Bad : \A U \in SUBSET T : U # T => U \notin Bad
  <2> HIDE DEF Good
  <2>1. Bad \in SUBSET SUBSET S
    OBVIOUS
  <2> HIDE DEF Bad
  <2>2. QED BY <1>1, <2>1, MinimalSubset
<1>3. \A U \in SUBSET T : U # T => Good(U)
  BY <1>2
<1>f. IsFiniteSet(T)
  BY FS_Subset
<1>4. CASE T = {}
  BY <1>4, SumEmpty, <1>2
<1>5. CASE T # {}
  <2>1. Pick(T) \in T /\ SumOf(f, T) = f[Pick(T)] + SumOf(f, T \ {Pick(T)})
    BY <1>5, <1>f, SumPick
  <2>2. Good(T \ {Pick(T)}) /\ f[Pick(T)] \in Nat
    BY <1>3, <2>1
  <2>3. Good(T)
    BY <2>1, <2>2
  <2>4. QED BY <2>3, <1>2
<1>6. QED BY <1>4, <1>5

\* Summing over the places of an injective sequence is summing over its members.
LEMMA SumReindex ==
    ASSUME NEW v, NEW D, IsFiniteSet(D), NEW s, NEW g, NEW M, M = {s[i] : i \in D},
           \A i, j \in D : s[i] = s[j] => i = j,
           \A i \in D : v[s[i]] \in Int /\ g[i] = v[s[i]]
    PROVE  SumOf(g, D) = SumOf(v, M)
<1> DEFINE Img(T) == {s[i] : i \in T}
           Good(T) == SumOf(g, T) = SumOf(v, Img(T))
           Bad == {T \in SUBSET D : ~Good(T)}
<1>1. SUFFICES ASSUME Bad # {} PROVE FALSE
  OBVIOUS
<1>2. PICK T \in Bad : \A U \in SUBSET T : U # T => U \notin Bad
  <2> HIDE DEF Good
  <2>1. Bad \in SUBSET SUBSET D
    OBVIOUS
  <2> HIDE DEF Bad
  <2>2. QED BY <1>1, <2>1, MinimalSubset
<1>3. \A U \in SUBSET T : U # T => Good(U)
  BY <1>2
<1>f. IsFiniteSet(T)
  BY FS_Subset
<1>4. CASE T = {}
  <2>1. Img(T) = {}
    BY <1>4
  <2>2. Good(T)
    BY <1>4, <2>1, SumEmpty
  <2>3. QED BY <2>2, <1>2
<1>5. CASE T # {}
  <2>1. PICK y \in T : TRUE
    BY <1>5
  <2> DEFINE R == T \ {y}
  <2>2. R \in SUBSET T /\ R # T /\ y \notin R /\ T = R \union {y}
    BY <2>1
  <2>3. Good(R)
    BY <1>3, <2>2
  <2>4. Img(T) = Img(R) \union {s[y]} /\ s[y] \notin Img(R)
    BY <2>1
  <2>5. IsFiniteSet(R) /\ IsFiniteSet(Img(R))
    <3>1. IsFiniteSet(R)
      BY <1>f, FS_Subset
    <3> HIDE DEF R
    <3> DEFINE m == [i \in R |-> s[i]]
    <3>2. m \in Surjection(R, Img(R))
      BY DEF Surjection
    <3>3. IsFiniteSet(Img(R))
      <4> HIDE DEF m, Img
      <4>1. QED BY <3>1, <3>2, FS_Surjection
    <3>4. QED BY <3>1, <3>3
  <2>6. /\ v[s[y]] \in Int /\ g[y] = v[s[y]]
        /\ \A x \in Img(R) : v[x] \in Int
        /\ \A i \in R : g[i] \in Int
    BY <2>1
  <2> HIDE DEF R, Good, Bad, Img
  <2>7. SumOf(g, R \union {y}) = SumOf(g, R) + g[y]
    BY <2>2, <2>5, <2>6, SumInsert
  <2>8. SumOf(v, Img(R) \union {s[y]}) = SumOf(v, Img(R)) + v[s[y]]
    BY <2>4, <2>5, <2>6, SumInsert
  <2>9. SumOf(g, R) = SumOf(v, Img(R))
    BY <2>3 DEF Good
  <2>10. SumOf(g, T) = SumOf(v, Img(T))
    BY ONLY <2>2, <2>4, <2>6, <2>7, <2>8, <2>9
  <2>11. QED BY <2>10, <1>2 DEF Good, Bad
<1>6. QED BY <1>4, <1>5
-----------------------------------------------------------------------------
(***************************************************************************)
(* Largest and smallest members of sets of numbers.                        *)
(***************************************************************************)
LEMMA MaxOf ==
    ASSUME NEW S \in SUBSET Int, IsFiniteSet(S), S # {}
    PROVE  Max(S) \in S /\ \A y \in S : Max(S) >= y
<1> DEFINE Bad == {T \in SUBSET S : T # {} /\ ~\E x \in T : \A y \in T : x >= y}
<1>1. Bad = {}
  <2> SUFFICES ASSUME Bad # {} PROVE FALSE
    OBVIOUS
  <2>1. PICK T \in Bad : \A U \in SUBSET T : U # T => U \notin Bad
    <3> HIDE DEF Bad
    <3>1. Bad \in SUBSET SUBSET S
      BY DEF Bad
    <3>2. QED BY <3>1, MinimalSubset
  <2>2. PICK x \in T : TRUE
    OBVIOUS
  <2>3. T \ {x} \notin Bad
    BY <2>1, <2>2
  <2>4. CASE T \ {x} = {}
    <3>1. \A y \in T : y = x
      BY <2>4
    <3>2. \A y \in T : x >= y
      BY <3>1, <2>2
    <3>3. QED BY <2>2, <3>2
  <2>5. CASE T \ {x} # {}
    <3>1. PICK z \in T \ {x} : \A y \in T \ {x} : z >= y
      BY <2>3, <2>5
    <3>2. CASE x >= z
      <4>1. \A y \in T : x >= y
        BY <2>2, <3>1, <3>2
      <4>2. QED BY <2>2, <4>1
    <3>3. CASE ~(x >= z)
      <4>1. \A y \in T : z >= y
        BY <2>2, <3>1, <3>3
      <4>2. QED BY <3>1, <4>1
    <3>4. QED BY <3>2, <3>3
  <2>6. QED BY <2>4, <2>5
<1>2. \E x \in S : \A y \in S : x >= y
  BY <1>1
<1>3. QED BY <1>2 DEF Max

LEMMA MinOf ==
    ASSUME NEW S \in SUBSET Nat, S # {}
    PROVE  Min(S) \in S /\ \A y \in S : Min(S) <= y
<1>1. PICK x \in S : \A y \in S : ~(<<y, x>> \in OpToRel(<, Nat))
  BY NatLessThanWellFounded, WFMin
<1>2. \A y \in S : x <= y
  <2>1. ASSUME NEW y \in S PROVE x <= y
    <3>1. ~(y < x) /\ x \in Nat /\ y \in Nat
      BY <1>1 DEF OpToRel
    <3>2. QED BY <3>1
  <2>2. QED BY <2>1
<1>3. QED BY <1>2 DEF Min

LEMMA IntervalSubset ==
    ASSUME NEW a \in Int, NEW b \in Int, NEW S \in SUBSET (a..b)
    PROVE  S \in SUBSET Int /\ IsFiniteSet(S)
<1>1. IsFiniteSet(a..b) /\ a..b \subseteq Int
  BY FS_Interval
<1>2. IsFiniteSet(S)
  BY <1>1, FS_Subset
<1>3. QED BY <1>1, <1>2
=============================================================================
