----------------------------- MODULE FoldTheorems -----------------------------
(***************************************************************************)
(* Facts about the folds of the community modules.                         *)
(***************************************************************************)
EXTENDS Integers, Sequences, FiniteSets, Functions, FiniteSetTheorems, TLAPS

\* A property of sets, given as the set Good of those that have it, holds of a
\* finite set when a set has it as soon as its proper subsets do.
LEMMA FiniteInduction ==
  ASSUME NEW S, IsFiniteSet(S), NEW Good,
         \A T \in SUBSET S : (\A U \in SUBSET T : U # T => U \in Good) => T \in Good
  PROVE  S \in Good
<1>1. IsWellFoundedOn(StrictSubsetOrdering(S), FiniteSubsetsOf(S))
  BY FS_StrictSubsetOrderingWellFounded
<1>2. FiniteSubsetsOf(S) = SUBSET S
  BY FS_FiniteSubsetsOfFinite
<1> DEFINE Bad == {T \in SUBSET S : T \notin Good}
<1>3. SUFFICES ASSUME S \notin Good PROVE FALSE
  OBVIOUS
<1>4. Bad # {} /\ Bad \subseteq FiniteSubsetsOf(S)
  BY <1>2, <1>3
<1>5. PICK T \in Bad : \A U \in Bad : ~ (<<U, T>> \in StrictSubsetOrdering(S))
  <2> HIDE DEF Bad
  <2> QED BY <1>1, <1>4, WFMin
<1>6. \A U \in SUBSET T : U # T => U \in Good
  BY <1>5 DEF StrictSubsetOrdering
<1> QED BY <1>5, <1>6

\* g is the fold over the subsets of S: each set gives up the element ch picks,
\* whose contribution step adds to the fold of the rest.
IsFold(g, S, ch, step, base) ==
    g = [s \in SUBSET S |-> IF s = {} THEN base ELSE step[ch[s]][g[s \ {ch[s]}]]]

\* What a fold computes does not depend on the set it was defined over.
LEMMA FoldUnique ==
  ASSUME NEW S, IsFiniteSet(S), NEW ch, NEW step, NEW base,
         \A s \in SUBSET S : s # {} => ch[s] \in s,
         NEW T, NEW g, IsFold(g, T, ch, step, base), S \subseteq T,
         NEW V, NEW k, IsFold(k, V, ch, step, base), S \subseteq V
  PROVE  g[S] = k[S]
<1> DEFINE Good == {s \in SUBSET S : g[s] = k[s]}
<1>1. \A s \in SUBSET S : /\ g[s] = IF s = {} THEN base ELSE step[ch[s]][g[s \ {ch[s]}]]
                          /\ k[s] = IF s = {} THEN base ELSE step[ch[s]][k[s \ {ch[s]}]]
  <2> TAKE s \in SUBSET S
  <2>1. s \in SUBSET T /\ s \in SUBSET V
    OBVIOUS
  <2> QED BY <2>1 DEF IsFold
<1>2. ASSUME NEW s \in SUBSET S, \A U \in SUBSET s : U # s => U \in Good PROVE s \in Good
  <2>1. CASE s = {}
    BY <1>1, <2>1
  <2>2. CASE s # {}
    <3>1. s \ {ch[s]} \in SUBSET s /\ s \ {ch[s]} # s
      BY <2>2
    <3>2. s \ {ch[s]} \in Good
      BY <1>2, <3>1
    <3> QED BY <1>1, <2>2, <3>2
  <2> QED BY <2>1, <2>2
<1>3. S \in Good
  <2> HIDE DEF Good
  <2> QED BY <1>2, FiniteInduction
<1> QED BY <1>3

\* Every finite set has a fold, and its values are in B.
LEMMA FoldExists ==
  ASSUME NEW S, IsFiniteSet(S), NEW B, NEW ch, NEW base \in B, NEW step \in [S -> [B -> B]],
         \A s \in SUBSET S : s # {} => ch[s] \in s
  PROVE  \E g \in [SUBSET S -> B] : IsFold(g, S, ch, step, base)
<1> DEFINE Good == {T \in SUBSET S : \E g \in [SUBSET T -> B] : IsFold(g, T, ch, step, base)}
<1>1. ASSUME NEW T \in SUBSET S, \A U \in SUBSET T : U # T => U \in Good PROVE T \in Good
  <2> DEFINE G(U) == CHOOSE g : g \in [SUBSET U -> B] /\ IsFold(g, U, ch, step, base)
             rest(s) == s \ {ch[s]}
             g0 == [s \in SUBSET T |-> IF s = {} THEN base ELSE step[ch[s]][G(rest(s))[rest(s)]]]
  <2>1. \A U \in SUBSET T : U # T => G(U) \in [SUBSET U -> B] /\ IsFold(G(U), U, ch, step, base)
    BY <1>1
  <2>2. \A s \in SUBSET T : s # {} => /\ ch[s] \in S /\ rest(s) \in SUBSET T /\ rest(s) # T
                                      /\ rest(s) \in SUBSET s
    OBVIOUS
  <2>f. \A s \in SUBSET S : IsFiniteSet(s)
    BY FS_Subset
  <2> HIDE DEF G
  <2>3. ASSUME NEW s \in SUBSET T, s # {} PROVE g0[rest(s)] = G(rest(s))[rest(s)]
    <3> DEFINE V == rest(s)
    <3>1. V \in SUBSET T /\ V # T /\ IsFold(G(V), V, ch, step, base)
      BY <2>1, <2>2, <2>3
    <3> HIDE DEF V
    <3>2. G(V)[V] = IF V = {} THEN base ELSE step[ch[V]][G(V)[rest(V)]]
      BY <3>1 DEF IsFold
    <3>3. g0[V] = IF V = {} THEN base ELSE step[ch[V]][G(rest(V))[rest(V)]]
      BY <3>1
    <3>4. ASSUME V # {} PROVE G(rest(V))[rest(V)] = G(V)[rest(V)]
      <4> DEFINE W == rest(V)
      <4>1. W \in SUBSET T /\ W # T /\ W \in SUBSET V /\ IsFold(G(W), W, ch, step, base)
        BY <2>1, <2>2, <3>1, <3>4
      <4>2. IsFiniteSet(W) /\ \A q \in SUBSET W : q # {} => ch[q] \in q
        BY <4>1, <2>f
      <4> HIDE DEF W
      <4>3. G(W)[W] = G(V)[W]
        BY <3>1, <4>1, <4>2, FoldUnique
      <4> QED BY <4>3 DEF W
    <3>5. g0[V] = G(V)[V]
      BY <3>2, <3>3, <3>4
    <3> QED BY <3>5 DEF V
  <2>4. ASSUME NEW s \in SUBSET T, s # {} PROVE step[ch[s]][G(rest(s))[rest(s)]] \in B
    <3>1. G(rest(s)) \in [SUBSET rest(s) -> B] /\ rest(s) \in SUBSET rest(s)
      BY <2>1, <2>2, <2>4
    <3>2. G(rest(s))[rest(s)] \in B
      <4> HIDE DEF rest
      <4> QED BY <3>1
    <3>3. step[ch[s]] \in [B -> B]
      BY <2>2, <2>4
    <3> QED BY <3>2, <3>3
  <2>5. g0 \in [SUBSET T -> B]
    <3> HIDE DEF G, rest
    <3> QED BY <2>4
  <2>6. \A s \in SUBSET T : g0[s] = IF s = {} THEN base ELSE step[ch[s]][g0[rest(s)]]
    BY <2>3
  <2>7. IsFold(g0, T, ch, step, base)
    <3> HIDE DEF g0
    <3> QED BY <2>5, <2>6 DEF IsFold
  <2> HIDE DEF g0
  <2> QED BY <2>5, <2>7
<1>2. S \in Good
  <2> HIDE DEF Good
  <2> QED BY <1>1, FiniteInduction
<1> QED BY <1>2

\* k satisfies the equations of a fold, as far as its values are known to be
\* of type B.
FollowsFold(k, S, B, ch, step, base) ==
    /\ k[{}] = base
    /\ \A s \in SUBSET S : s # {} /\ k[s \ {ch[s]}] \in B => k[s] = step[ch[s]][k[s \ {ch[s]}]]

-----------------------------------------------------------------------------
(* Folds over segments of the natural numbers *)

\* Induction up to n, for a property given as the set Good of the numbers that
\* have it.
LEMMA SegmentInduction ==
  ASSUME NEW n \in Nat, NEW Good, 0 \in Good, \A i \in 1..n : i - 1 \in Good => i \in Good
  PROVE  n \in Good
<1> DEFINE S == 0..n
           Fine == {T \in SUBSET S : \A i \in S : T = 0..i => i \in Good}
<1>1. IsFiniteSet(S)
  <2>1. IsFiniteSet(0..n)
    BY FS_Interval
  <2> QED BY <2>1
<1>2. ASSUME NEW T \in SUBSET S, \A U \in SUBSET T : U # T => U \in Fine PROVE T \in Fine
  <2>1. ASSUME NEW i \in S, T = 0..i, i # 0 PROVE i \in Good
    <3>1. i \in 1..n /\ i - 1 \in S
      BY <2>1
    <3>2. 0..(i - 1) \in SUBSET T /\ 0..(i - 1) # T
      <4>1. i \in T /\ i \notin 0..(i - 1)
        BY <2>1
      <4>2. 0..(i - 1) \subseteq T
        BY <2>1
      <4> QED BY <4>1, <4>2
    <3>3. i - 1 \in Good
      BY <1>2, <3>1, <3>2
    <3> QED BY <3>1, <3>3
  <2> QED BY <2>1
<1>3. S \in Fine
  <2> HIDE DEF S, Fine
  <2> QED BY <1>1, <1>2, FiniteInduction
<1> QED BY <1>3

\* The largest element of each set of numbers, the one a left fold takes last.
Top(S) == [s \in SUBSET S |-> CHOOSE x \in s : \A y \in s : x >= y]

LEMMA TopIn ==
  ASSUME NEW n \in Nat
  PROVE  /\ \A s \in SUBSET (1..n) : s # {} => Top(1..n)[s] \in s
         /\ \A i \in 1..n : Top(1..n)[1..i] = i
<1> DEFINE S == 1..n
           HasTop(s) == \E x \in s : \A y \in s : x >= y
           Good == {s \in SUBSET S : s = {} \/ HasTop(s)}
<1>1. IsFiniteSet(S)
  <2>1. IsFiniteSet(1..n)
    BY FS_Interval
  <2> QED BY <2>1
<1>2. ASSUME NEW T \in SUBSET S, IsFiniteSet(T), \A U \in SUBSET T : U # T => U \in Good PROVE T \in Good
  <2>1. ASSUME NEW x \in T PROVE HasTop(T)
    <3>1. T \ {x} \in Good /\ x \in Int
      <4>1. T \ {x} \in SUBSET T /\ T \ {x} # T
        OBVIOUS
      <4> HIDE DEF Good
      <4> QED BY <1>2, <4>1
    <3>2. CASE T \ {x} = {}
      BY <3>1, <3>2
    <3>3. CASE HasTop(T \ {x})
      <4>1. PICK z \in T \ {x} : \A y \in T \ {x} : z >= y
        BY <3>3
      <4>2. \A y \in T : y \in Int
        OBVIOUS
      <4>3. CASE x >= z
        <5>1. \A y \in T : x >= y
          BY <4>1, <4>2, <4>3
        <5> QED BY <5>1
      <4>4. CASE z >= x
        <5>1. \A y \in T : z >= y
          BY <4>1, <4>4
        <5> QED BY <5>1
      <4> QED BY <4>2, <4>3, <4>4
    <3> QED BY <3>1, <3>2, <3>3
  <2> QED BY <2>1
<1>3. ASSUME NEW s \in SUBSET S, s # {} PROVE HasTop(s)
  <2>1. IsFiniteSet(s)
    BY <1>1, FS_Subset
  <2>2. ASSUME NEW T \in SUBSET s, \A U \in SUBSET T : U # T => U \in Good PROVE T \in Good
    <3>1. IsFiniteSet(T)
      BY <2>1, FS_Subset
    <3> QED BY <1>2, <2>2, <3>1
  <2>3. s \in Good
    <3> HIDE DEF Good
    <3> QED BY <2>1, <2>2, FiniteInduction
  <2> QED BY <1>3, <2>3
<1>4. \A s \in SUBSET S : s # {} => /\ (CHOOSE x \in s : \A y \in s : x >= y) \in s
                                    /\ \A y \in s : (CHOOSE x \in s : \A y1 \in s : x >= y1) >= y
  BY <1>3
<1>5. \A s \in SUBSET S : Top(S)[s] = CHOOSE x \in s : \A y \in s : x >= y
  BY DEF Top
<1>6. ASSUME NEW i \in 1..n PROVE Top(S)[1..i] = i
  <2>1. 1..i \in SUBSET S /\ i \in 1..i /\ \A x \in 1..i : x >= i => x = i
    OBVIOUS
  <2> HIDE DEF S
  <2> QED BY <1>4, <1>5, <2>1
<1> QED BY <1>4, <1>5, <1>6

\* g folds 1..n from the left, and v is what it gives for 1..0, 1..1, up to 1..n.
FoldsLeft(g, v, n, B, step, base) ==
    /\ g \in [SUBSET (1..n) -> B] /\ IsFold(g, 1..n, Top(1..n), step, base)
    /\ v \in [0..n -> B] /\ v[0] = base /\ \A i \in 1..n : v[i] = step[i][v[i - 1]]
    /\ g[1..n] = v[n]

\* There is a left fold over 1..n.
LEMMA LeftFold ==
  ASSUME NEW n \in Nat, NEW B, NEW base \in B, NEW step \in [1..n -> [B -> B]]
  PROVE  \E g, v : FoldsLeft(g, v, n, B, step, base)
<1> DEFINE S == 1..n
           ch == Top(1..n)
<1>1. IsFiniteSet(S) /\ \A s \in SUBSET S : s # {} => ch[s] \in s
  <2>1. IsFiniteSet(1..n)
    BY FS_Interval
  <2> QED BY <2>1, TopIn
<1>2. PICK g \in [SUBSET S -> B] : IsFold(g, S, ch, step, base)
  <2>1. step \in [S -> [B -> B]] /\ base \in B
    OBVIOUS
  <2> HIDE DEF S, ch
  <2>2. \E k \in [SUBSET S -> B] : IsFold(k, S, ch, step, base)
    BY <1>1, <2>1, FoldExists
  <2> QED BY <2>2
<1> DEFINE v == [i \in 0..n |-> g[1..i]]
<1>3. v \in [0..n -> B]
  OBVIOUS
<1>4. \A s \in SUBSET S : g[s] = IF s = {} THEN base ELSE step[ch[s]][g[s \ {ch[s]}]]
  BY <1>2 DEF IsFold
<1>5. v[0] = base
  <2>1. 1..0 = {} /\ {} \in SUBSET S
    OBVIOUS
  <2>2. v[0] = g[1..0]
    OBVIOUS
  <2> QED BY <1>4, <2>1, <2>2
<1>6. ASSUME NEW i \in 1..n PROVE v[i] = step[i][v[i - 1]]
  <2>1. 1..i \in SUBSET S /\ 1..i # {} /\ (1..i) \ {i} = 1..(i - 1) /\ i - 1 \in 0..n /\ i \in 0..n
    <3>1. i \in 1..i /\ i - 1 \in 0..n /\ i \in 0..n
      OBVIOUS
    <3>2. ASSUME NEW x PROVE x \in (1..i) \ {i} <=> x \in 1..(i - 1)
      OBVIOUS
    <3>3. \A x \in 1..i : x \in S
      OBVIOUS
    <3> QED BY <3>1, <3>2, <3>3
  <2>2. ch[1..i] = i
    BY TopIn
  <2>3. g[1..i] = step[i][g[1..(i - 1)]]
    BY <1>4, <2>1, <2>2
  <2> QED BY <2>1, <2>3
<1>7. g[1..n] = v[n]
  OBVIOUS
<1> HIDE DEF v
<1>8. FoldsLeft(g, v, n, B, step, base)
  BY <1>2, <1>3, <1>5, <1>6, <1>7 DEF FoldsLeft
<1> QED BY <1>8

\* Any solution of its equations ends where the left fold ends.
LEMMA LeftFoldFound ==
  ASSUME NEW n \in Nat, NEW B, NEW base \in B, NEW step \in [1..n -> [B -> B]],
         NEW g, NEW v, FoldsLeft(g, v, n, B, step, base),
         NEW k, FollowsFold(k, 1..n, B, Top(1..n), step, base)
  PROVE  k[1..n] = v[n]
<1> DEFINE S == 1..n
           ch == Top(1..n)
<1>1. IsFiniteSet(S) /\ \A s \in SUBSET S : s # {} => ch[s] \in s
  <2>1. IsFiniteSet(1..n)
    BY FS_Interval
  <2> QED BY <2>1, TopIn
<1> DEFINE Good == {s \in SUBSET S : k[s] = g[s]}
<1>2. g \in [SUBSET S -> B] /\ IsFold(g, S, ch, step, base) /\ g[S] = v[n]
  BY DEF FoldsLeft
<1>3. /\ k[{}] = base
      /\ \A s \in SUBSET S : s # {} /\ k[s \ {ch[s]}] \in B => k[s] = step[ch[s]][k[s \ {ch[s]}]]
  BY DEF FollowsFold
<1>4. \A s \in SUBSET S : g[s] \in B /\ g[s] = IF s = {} THEN base ELSE step[ch[s]][g[s \ {ch[s]}]]
  BY <1>2 DEF IsFold
<1>5. ASSUME NEW s \in SUBSET S, \A U \in SUBSET s : U # s => U \in Good PROVE s \in Good
  <2>1. CASE s = {}
    BY <1>3, <1>4, <2>1
  <2>2. CASE s # {}
    <3> DEFINE rest == s \ {ch[s]}
    <3>1. rest \in SUBSET S /\ rest \in SUBSET s /\ rest # s
      BY <1>1, <2>2
    <3>2. k[rest] = g[rest] /\ g[rest] \in B
      BY <1>4, <1>5, <3>1
    <3> QED BY <1>3, <1>4, <2>2, <3>2
  <2> QED BY <2>1, <2>2
<1>6. S \in Good
  <2> HIDE DEF Good, S
  <2> QED BY <1>1, <1>5, FiniteInduction
<1> QED BY <1>2, <1>6

-----------------------------------------------------------------------------
(* Sums *)

Pick(S)    == [s \in SUBSET S |-> CHOOSE x \in s : TRUE]
Adding(f, S) == [x \in S |-> [n \in Int |-> f[x] + n]]

\* The sum of the community modules is a fold.
LEMMA SumIsFold ==
  ASSUME NEW S, IsFiniteSet(S), NEW f, \A x \in S : f[x] \in Int
  PROVE  \E g \in [SUBSET S -> Int] : /\ IsFold(g, S, Pick(S), Adding(f, S), 0)
                                      /\ SumFunctionOnSet(f, S) = g[S]
<1> DEFINE Eqn(g) == g = [s \in SUBSET S |-> IF s = {} THEN 0
                             ELSE f[CHOOSE x \in s : TRUE] + g[s \ {CHOOSE x \in s : TRUE}]]
<1>0. \A s \in SUBSET S : s # {} => /\ (CHOOSE x \in s : TRUE) \in s
                                    /\ Pick(S)[s] = CHOOSE x \in s : TRUE
  BY DEF Pick
<1>1. \A x \in S, n \in Int : Adding(f, S)[x][n] = f[x] + n
  BY DEF Adding
<1>2. PICK g \in [SUBSET S -> Int] : IsFold(g, S, Pick(S), Adding(f, S), 0)
  <2>1. Adding(f, S) \in [S -> [Int -> Int]]
    BY DEF Adding
  <2>2. 0 \in Int /\ \A s \in SUBSET S : s # {} => Pick(S)[s] \in s
    BY <1>0
  <2> DEFINE ch == Pick(S)
             step == Adding(f, S)
  <2>3. step \in [S -> [Int -> Int]] /\ \A s \in SUBSET S : s # {} => ch[s] \in s
    BY <2>1, <2>2
  <2> HIDE DEF Eqn, ch, step
  <2>4. \E k \in [SUBSET S -> Int] : IsFold(k, S, ch, step, 0)
    BY <2>2, <2>3, FoldExists
  <2> QED BY <2>4 DEF ch, step
<1>3. Eqn(g)
  <2>1. g = [s \in SUBSET S |-> g[s]]
    OBVIOUS
  <2>2. ASSUME NEW s \in SUBSET S, s # {}
        PROVE  g[s] = f[CHOOSE x \in s : TRUE] + g[s \ {CHOOSE x \in s : TRUE}]
    <3>1. g[s] = Adding(f, S)[Pick(S)[s]][g[s \ {Pick(S)[s]}]]
      BY <1>2, <2>2 DEF IsFold
    <3> QED BY <1>0, <1>1, <2>2, <3>1
  <2>3. \A s \in SUBSET S : s = {} => g[s] = 0
    BY <1>2 DEF IsFold
  <2> QED BY <2>1, <2>2, <2>3
<1>4. SumFunctionOnSet(f, S) = (CHOOSE k : Eqn(k))[S]
  BY DEF SumFunctionOnSet, FoldFunctionOnSet, MapThenFoldSet
<1>5. PICK k : Eqn(k) /\ SumFunctionOnSet(f, S) = k[S]
  <2> HIDE DEF Eqn
  <2> QED BY <1>3, <1>4
<1>6. \A s \in SUBSET S : k[s] = IF s = {} THEN 0
                             ELSE f[CHOOSE x \in s : TRUE] + k[s \ {CHOOSE x \in s : TRUE}]
  BY <1>5
<1>7. ASSUME NEW T \in SUBSET S PROVE k[T] = g[T]
  <2> DEFINE Same == {s \in SUBSET T : k[s] = g[s]}
  <2>1. \A s \in SUBSET S : g[s] = IF s = {} THEN 0
                             ELSE f[CHOOSE x \in s : TRUE] + g[s \ {CHOOSE x \in s : TRUE}]
    BY <1>3
  <2>2. ASSUME NEW U \in SUBSET T, \A V \in SUBSET U : V # U => V \in Same PROVE U \in Same
    <3>1. CASE U = {}
      BY <1>6, <2>1, <3>1
    <3>2. CASE U # {}
      <4> DEFINE c == CHOOSE x \in U : TRUE
      <4>1. c \in U /\ U \ {c} \in SUBSET U /\ U \ {c} # U
        BY <1>0, <3>2
      <4>2. k[U \ {c}] = g[U \ {c}]
        BY <2>2, <4>1
      <4>3. k[U] = f[c] + k[U \ {c}] /\ g[U] = f[c] + g[U \ {c}]
        BY <1>6, <2>1, <3>2
      <4> HIDE DEF c
      <4> QED BY <4>2, <4>3
    <3> QED BY <3>1, <3>2
  <2>3. T \in Same
    <3> HIDE DEF Same
    <3> QED BY <2>2, FS_Subset, FiniteInduction
  <2> QED BY <2>3
<1> QED BY <1>2, <1>5, <1>7

\* The empty sum.
LEMMA SumEmpty == ASSUME NEW f PROVE SumFunctionOnSet(f, {}) = 0
<1>1. PICK g : IsFold(g, {}, Pick({}), Adding(f, {}), 0) /\ SumFunctionOnSet(f, {}) = g[{}]
  BY SumIsFold, FS_EmptySet
<1> QED BY <1>1 DEF IsFold

\* A sum of integers is an integer.
LEMMA SumInt ==
  ASSUME NEW S, IsFiniteSet(S), NEW f, \A x \in S : f[x] \in Int
  PROVE  SumFunctionOnSet(f, S) \in Int
<1>1. PICK g \in [SUBSET S -> Int] : SumFunctionOnSet(f, S) = g[S]
  BY SumIsFold
<1> QED BY <1>1

\* The element picked first can be taken out of a sum.
LEMMA SumPicked ==
  ASSUME NEW S, IsFiniteSet(S), S # {}, NEW f, \A x \in S : f[x] \in Int
  PROVE  \E x \in S : SumFunctionOnSet(f, S) = f[x] + SumFunctionOnSet(f, S \ {x})
<1> DEFINE x == CHOOSE y \in S : TRUE
           R == S \ {x}
<1>1. x \in S /\ R \in SUBSET S /\ Pick(S)[S] = x
  BY DEF Pick
<1> HIDE DEF x
<1>2. IsFiniteSet(R) /\ \A y \in R : f[y] \in Int
  BY <1>1, FS_Subset
<1> HIDE DEF R
<1>3. PICK g \in [SUBSET S -> Int] : IsFold(g, S, Pick(S), Adding(f, S), 0) /\ SumFunctionOnSet(f, S) = g[S]
  BY SumIsFold
<1>4. PICK k \in [SUBSET R -> Int] : IsFold(k, R, Pick(R), Adding(f, R), 0) /\ SumFunctionOnSet(f, R) = k[R]
  BY <1>2, SumIsFold
<1>5. IsFold(k, R, Pick(S), Adding(f, S), 0)
  <2>1. \A s \in SUBSET R : s # {} => Pick(S)[s] = Pick(R)[s] /\ Pick(R)[s] \in R
    BY <1>1 DEF Pick
  <2>2. \A y \in R : Adding(f, S)[y] = Adding(f, R)[y]
    BY <1>1 DEF Adding
  <2>3. k = [s \in SUBSET R |-> IF s = {} THEN 0 ELSE Adding(f, R)[Pick(R)[s]][k[s \ {Pick(R)[s]}]]]
    BY <1>4 DEF IsFold
  <2>4. \A s \in SUBSET R : s # {} =>
            Adding(f, R)[Pick(R)[s]][k[s \ {Pick(R)[s]}]] = Adding(f, S)[Pick(S)[s]][k[s \ {Pick(S)[s]}]]
    BY <2>1, <2>2
  <2> QED BY <2>3, <2>4 DEF IsFold
<1>6. \A s \in SUBSET R : s # {} => Pick(S)[s] \in s
  BY <1>1 DEF Pick
<1>7. g[R] = k[R]
  BY <1>1, <1>2, <1>3, <1>5, <1>6, FoldUnique
<1>8. g[S] = Adding(f, S)[x][g[R]]
  BY <1>1, <1>3 DEF IsFold, R
<1>9. g[S] = f[x] + g[R]
  BY <1>1, <1>3, <1>8 DEF Adding
<1> QED BY <1>1, <1>3, <1>4, <1>7, <1>9 DEF R

\* Any element can be taken out of a sum.
LEMMA SumRemove ==
  ASSUME NEW S, IsFiniteSet(S), NEW f, \A x \in S : f[x] \in Int, NEW x \in S
  PROVE  SumFunctionOnSet(f, S) = f[x] + SumFunctionOnSet(f, S \ {x})
<1> DEFINE Total(s) == SumFunctionOnSet(f, s)
           Good == {T \in SUBSET S : \A y \in T : Total(T) = f[y] + Total(T \ {y})}
<1>1. ASSUME NEW T \in SUBSET S, \A U \in SUBSET T : U # T => U \in Good, NEW y \in T
      PROVE  Total(T) = f[y] + Total(T \ {y})
  <2> HIDE DEF Total
  <2>1. IsFiniteSet(T) /\ T # {} /\ \A U \in SUBSET T : IsFiniteSet(U)
    BY FS_Subset
  <2>2. PICK c \in T : Total(T) = f[c] + Total(T \ {c})
    BY <2>1, SumPicked DEF Total
  <2>3. CASE y = c
    BY <2>2, <2>3
  <2>4. CASE y # c
    <3> DEFINE R == (T \ {c}) \ {y}
    <3>1. Total(T \ {c}) = f[y] + Total(R)
      BY <1>1, <2>4
    <3>2. Total(T \ {y}) = f[c] + Total(R)
      <4>1. T \ {y} \in Good /\ c \in T \ {y} /\ R = (T \ {y}) \ {c}
        BY <1>1, <2>4
      <4> QED BY <4>1
    <3>3. f[c] \in Int /\ f[y] \in Int /\ Total(R) \in Int
      BY <2>1, SumInt DEF Total
    <3> HIDE DEF R
    <3> QED BY <2>2, <3>1, <3>2, <3>3
  <2> QED BY <2>3, <2>4
<1>2. S \in Good
  <2>1. \A T \in SUBSET S : (\A U \in SUBSET T : U # T => U \in Good) => T \in Good
    BY <1>1
  <2> HIDE DEF Good
  <2> QED BY <2>1, FiniteInduction
<1> QED BY <1>2

\* An element can be added to a sum.
LEMMA SumAdd ==
  ASSUME NEW S, IsFiniteSet(S), NEW f, NEW x, x \notin S, \A y \in S \union {x} : f[y] \in Int
  PROVE  SumFunctionOnSet(f, S \union {x}) = SumFunctionOnSet(f, S) + f[x]
<1> DEFINE T == S \union {x}
<1>1. IsFiniteSet(T) /\ x \in T /\ T \ {x} = S /\ \A y \in T : f[y] \in Int
  BY FS_AddElement
<1>2. f[x] \in Int /\ SumFunctionOnSet(f, S) \in Int
  BY SumInt
<1> HIDE DEF T
<1>3. SumFunctionOnSet(f, T) = f[x] + SumFunctionOnSet(f, T \ {x})
  BY <1>1, SumRemove
<1>4. SumFunctionOnSet(f, T) = f[x] + SumFunctionOnSet(f, S)
  BY <1>1, <1>3
<1>5. SumFunctionOnSet(f, T) = SumFunctionOnSet(f, S) + f[x]
  BY <1>2, <1>4
<1> QED BY <1>5 DEF T

\* A sum depends on the summands only, and grows with them.
LEMMA SumMonotone ==
  ASSUME NEW S, IsFiniteSet(S), NEW f, NEW g,
         \A x \in S : f[x] \in Int /\ g[x] \in Int /\ f[x] <= g[x]
  PROVE  SumFunctionOnSet(f, S) <= SumFunctionOnSet(g, S)
<1> DEFINE Good == {T \in SUBSET S : SumFunctionOnSet(f, T) <= SumFunctionOnSet(g, T)}
<1>1. ASSUME NEW T \in SUBSET S, \A U \in SUBSET T : U # T => U \in Good PROVE T \in Good
  <2>1. CASE T = {}
    BY <2>1, SumEmpty
  <2>2. ASSUME NEW x \in T PROVE T \in Good
    <3>1. IsFiniteSet(T) /\ IsFiniteSet(T \ {x})
      BY FS_Subset
    <3>2. /\ SumFunctionOnSet(f, T) = f[x] + SumFunctionOnSet(f, T \ {x})
          /\ SumFunctionOnSet(g, T) = g[x] + SumFunctionOnSet(g, T \ {x})
      BY <3>1, SumRemove
    <3>3. /\ SumFunctionOnSet(f, T \ {x}) \in Int /\ SumFunctionOnSet(g, T \ {x}) \in Int
          /\ SumFunctionOnSet(f, T \ {x}) <= SumFunctionOnSet(g, T \ {x})
      BY <1>1, <3>1, SumInt
    <3>4. f[x] \in Int /\ g[x] \in Int /\ f[x] <= g[x]
      OBVIOUS
    <3> QED BY <3>2, <3>3, <3>4
  <2> QED BY <2>1, <2>2
<1>2. S \in Good
  <2> HIDE DEF Good
  <2> QED BY <1>1, FiniteInduction
<1> QED BY <1>2

LEMMA SumSame ==
  ASSUME NEW S, IsFiniteSet(S), NEW f, NEW g, \A x \in S : f[x] \in Int /\ f[x] = g[x]
  PROVE  SumFunctionOnSet(f, S) = SumFunctionOnSet(g, S)
<1>1. /\ SumFunctionOnSet(f, S) <= SumFunctionOnSet(g, S)
      /\ SumFunctionOnSet(g, S) <= SumFunctionOnSet(f, S)
  BY SumMonotone
<1>2. SumFunctionOnSet(f, S) \in Int /\ SumFunctionOnSet(g, S) \in Int
  BY SumInt
<1> QED BY <1>1, <1>2

\* Elements that contribute nothing can be left out.
LEMMA SumZeros ==
  ASSUME NEW S, IsFiniteSet(S), NEW f, NEW T \in SUBSET S,
         \A x \in S : f[x] \in Int, \A x \in S \ T : f[x] = 0
  PROVE  SumFunctionOnSet(f, S) = SumFunctionOnSet(f, T)
<1> DEFINE Good == {U \in SUBSET (S \ T) : SumFunctionOnSet(f, T \union U) = SumFunctionOnSet(f, T)}
<1>1. ASSUME NEW U \in SUBSET (S \ T), \A V \in SUBSET U : V # U => V \in Good PROVE U \in Good
  <2>1. CASE U = {}
    BY <2>1
  <2>2. ASSUME NEW x \in U PROVE U \in Good
    <3> DEFINE R == T \union U
    <3>1. IsFiniteSet(R) /\ IsFiniteSet(T) /\ x \in R /\ R \ {x} = T \union (U \ {x})
      BY FS_Subset
    <3>2. SumFunctionOnSet(f, R \ {x}) = SumFunctionOnSet(f, T)
      <4>1. U \ {x} \in SUBSET U /\ U \ {x} # U
        OBVIOUS
      <4>2. SumFunctionOnSet(f, T \union (U \ {x})) = SumFunctionOnSet(f, T)
        BY <1>1, <4>1
      <4> QED BY <3>1, <4>2
    <3>3. \A y \in R : f[y] \in Int
      OBVIOUS
    <3> HIDE DEF R
    <3>4. SumFunctionOnSet(f, R) = f[x] + SumFunctionOnSet(f, R \ {x})
      BY <3>1, <3>3, SumRemove
    <3>5. SumFunctionOnSet(f, T) \in Int /\ f[x] = 0
      BY <3>1, SumInt
    <3> QED BY <3>2, <3>4, <3>5 DEF R
  <2> QED BY <2>1, <2>2
<1>2. S \ T \in Good
  <2>1. IsFiniteSet(S \ T)
    BY FS_Subset
  <2> HIDE DEF Good
  <2> QED BY <1>1, <2>1, FiniteInduction
<1>3. T \union (S \ T) = S
  OBVIOUS
<1> QED BY <1>2, <1>3

\* A sum of natural numbers is one.
LEMMA SumNat ==
  ASSUME NEW S, IsFiniteSet(S), NEW f, \A x \in S : f[x] \in Nat
  PROVE  SumFunctionOnSet(f, S) \in Nat
<1> DEFINE z == [x \in S |-> 0]
<1>1. SumFunctionOnSet(z, S) = 0
  <2>1. SumFunctionOnSet(z, S) = SumFunctionOnSet(z, {})
    BY SumZeros
  <2> QED BY <2>1, SumEmpty
<1>2. \A x \in S : z[x] \in Int /\ f[x] \in Int /\ z[x] <= f[x]
  OBVIOUS
<1> HIDE DEF z
<1>3. SumFunctionOnSet(z, S) <= SumFunctionOnSet(f, S) /\ SumFunctionOnSet(f, S) \in Int
  BY <1>2, SumMonotone, SumInt
<1> QED BY <1>1, <1>3

\* Changing one value of a function changes its sum by as much.
LEMMA SumChange ==
  ASSUME NEW S, IsFiniteSet(S), NEW f \in [S -> Int], NEW g \in [S -> Int], NEW x \in S,
         \A y \in S : y # x => f[y] = g[y]
  PROVE  SumFunction(g) = SumFunction(f) + g[x] - f[x]
<1>1. IsFiniteSet(S \ {x})
  BY FS_Subset
<1>2. /\ SumFunctionOnSet(f, S) = f[x] + SumFunctionOnSet(f, S \ {x})
      /\ SumFunctionOnSet(g, S) = g[x] + SumFunctionOnSet(g, S \ {x})
  BY SumRemove
<1>3. SumFunctionOnSet(f, S \ {x}) = SumFunctionOnSet(g, S \ {x}) /\ SumFunctionOnSet(f, S \ {x}) \in Int
  BY <1>1, SumSame, SumInt
<1>4. f[x] \in Int /\ g[x] \in Int
  OBVIOUS
<1> QED BY <1>2, <1>3, <1>4 DEF SumFunction

\* No value of a function to the natural numbers exceeds its sum.
LEMMA SumElement ==
  ASSUME NEW S, IsFiniteSet(S), NEW f \in [S -> Nat]
  PROVE  SumFunction(f) \in Nat /\ \A x \in S : f[x] <= SumFunction(f)
<1>1. SumFunction(f) \in Nat
  BY SumNat DEF SumFunction
<1>2. ASSUME NEW x \in S PROVE f[x] <= SumFunction(f)
  <2>1. IsFiniteSet(S \ {x})
    BY FS_Subset
  <2>2. SumFunctionOnSet(f, S \ {x}) \in Nat
    BY <2>1, SumNat
  <2>3. SumFunctionOnSet(f, S) = f[x] + SumFunctionOnSet(f, S \ {x}) /\ f[x] \in Nat
    BY SumRemove
  <2> QED BY <2>2, <2>3 DEF SumFunction
<1> QED BY <1>1, <1>2

\* A sum over fewer and smaller values is smaller.
LEMMA SumBelow ==
  ASSUME NEW S, IsFiniteSet(S), NEW T \in SUBSET S, NEW f \in [T -> Nat], NEW g \in [S -> Nat],
         \A x \in T : f[x] <= g[x]
  PROVE  SumFunction(f) <= SumFunction(g)
<1> DEFINE k == [x \in S |-> IF x \in T THEN f[x] ELSE 0]
<1>1. \A x \in S : k[x] \in Int /\ g[x] \in Int /\ k[x] <= g[x]
  OBVIOUS
<1>2. (\A x \in S \ T : k[x] = 0) /\ \A x \in T : f[x] \in Int /\ k[x] = f[x]
  OBVIOUS
<1> HIDE DEF k
<1>3. SumFunctionOnSet(k, S) = SumFunctionOnSet(k, T)
  BY <1>1, <1>2, SumZeros
<1>4. SumFunctionOnSet(k, T) = SumFunctionOnSet(f, T)
  <2>1. IsFiniteSet(T)
    BY FS_Subset
  <2> QED BY <1>2, <2>1, SumSame
<1>5. SumFunctionOnSet(k, S) <= SumFunctionOnSet(g, S)
  BY <1>1, SumMonotone
<1> QED BY <1>3, <1>4, <1>5 DEF SumFunction

\* The sum of a sequence of integers that grows by one.
LEMMA SumExtended ==
  ASSUME NEW n \in Nat, NEW f \in [1..n -> Int], NEW g \in [1..(n + 1) -> Int],
         \A i \in 1..n : g[i] = f[i]
  PROVE  SumFunction(f) \in Int /\ SumFunction(g) = SumFunction(f) + g[n + 1]
<1> DEFINE S == 1..n
<1>1. IsFiniteSet(S) /\ n + 1 \notin S /\ S \union {n + 1} = 1..(n + 1)
  <2>1. IsFiniteSet(1..n)
    BY FS_Interval
  <2> QED BY <2>1
<1>2. \A i \in S : f[i] \in Int /\ g[i] = f[i]
  OBVIOUS
<1>3. DOMAIN f = S /\ DOMAIN g = S \union {n + 1} /\ \A i \in S \union {n + 1} : g[i] \in Int
  BY <1>1
<1> HIDE DEF S
<1>4. SumFunctionOnSet(g, S \union {n + 1}) = SumFunctionOnSet(g, S) + g[n + 1]
  BY <1>1, <1>3, SumAdd
<1>5. SumFunctionOnSet(f, S) = SumFunctionOnSet(g, S) /\ SumFunctionOnSet(f, S) \in Int
  BY <1>1, <1>2, SumSame, SumInt
<1> QED BY <1>3, <1>4, <1>5 DEF SumFunction

\* What val says of each element of the sequence s.
Values(val, s) == [i \in DOMAIN s |-> val[s[i]]]

\* What an appended element adds to the sum over a sequence.
LEMMA SumAppended ==
  ASSUME NEW T, NEW val \in [T -> Int], NEW s \in Seq(T), NEW e \in T
  PROVE  /\ SumFunction(Values(val, s)) \in Int
         /\ SumFunction(Values(val, Append(s, e))) = SumFunction(Values(val, s)) + val[e]
<1> DEFINE n == Len(s)
           a == Append(s, e)
           f == Values(val, s)
           g == Values(val, a)
<1>1. /\ n \in Nat /\ DOMAIN s = 1..n /\ DOMAIN a = 1..(n + 1)
      /\ a[n + 1] = e /\ \A i \in 1..n : a[i] = s[i] /\ s[i] \in T
  OBVIOUS
<1>2. f \in [1..n -> Int] /\ g \in [1..(n + 1) -> Int] /\ g[n + 1] = val[e]
      /\ \A i \in 1..n : g[i] = f[i]
  BY <1>1 DEF Values
<1> HIDE DEF f, g, n
<1>3. SumFunction(f) \in Int /\ SumFunction(g) = SumFunction(f) + g[n + 1]
  BY <1>1, <1>2, SumExtended
<1> QED BY <1>2, <1>3 DEF f, g
=============================================================================
