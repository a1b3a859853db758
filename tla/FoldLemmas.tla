----------------------------- MODULE FoldLemmas -----------------------------
(***************************************************************************)
(* What a fold over a finite set of numbers comes to, and what Only makes  *)
(* of a list of players. A property of a fold is shown of the smallest set *)
(* of indices that would not have it: induction as one argument.           *)
(***************************************************************************)
EXTENDS PlayerLists, FiniteSetTheorems, WellFoundedInduction, TLAPS

\* A set of numbers that is not empty has a least one.
LEMMA LeastOf ==
  ASSUME NEW T \in SUBSET Nat, T # {}
  PROVE  \E x \in T : \A y \in T : ~ (y < x)
<1> DEFINE R == OpToRel(<, Nat)
<1>1. IsWellFoundedOn(R, Nat)
  BY NatLessThanWellFounded
<1>2. \A x, y \in Nat : <<y, x>> \in R <=> y < x
  BY DEF OpToRel
<1> HIDE DEF R
<1>3. PICK x \in T : \A y \in T : ~ (<<y, x>> \in R)
  BY <1>1, WFMin
<1> QED
  BY <1>2, <1>3

LEMMA MinOf ==
  ASSUME NEW S \in SUBSET Nat, S # {}
  PROVE  Min(S) \in S /\ \A y \in S : Min(S) <= y
<1>1. PICK x \in S : \A y \in S : ~ (y < x)
  BY LeastOf
<1>2. \A y \in S : x <= y
  BY <1>1
<1> QED
  BY <1>1, <1>2 DEF Min

\* Of the subsets of a finite set that have something, one has it while what is
\* left of it without any one element has not.
LEMMA SmallestOf ==
  ASSUME NEW X, IsFiniteSet(X), NEW B \in SUBSET (SUBSET X), B # {}
  PROVE  \E s \in B : \A x \in s : s \ {x} \notin B
<1> DEFINE Sizes == {Cardinality(s) : s \in B}
<1>1. \A s \in SUBSET X : IsFiniteSet(s) /\ Cardinality(s) \in Nat
  BY FS_Subset, FS_CardinalityType
<1>2. Sizes \in SUBSET Nat /\ Sizes # {}
  BY <1>1
<1>3. PICK n \in Sizes : \A k \in Sizes : ~ (k < n)
  BY <1>2, LeastOf
<1>4. PICK s \in B : n = Cardinality(s)
  BY <1>3
<1>5. ASSUME NEW x \in s PROVE s \ {x} \notin B
  <2>1. IsFiniteSet(s)
    BY <1>1
  <2>2. Cardinality(s \ {x}) = Cardinality(s) - 1
    BY <2>1, FS_RemoveElement
  <2>3. Cardinality(s) \in Nat
    BY <1>1
  <2> QED
    BY <1>3, <1>4, <2>2, <2>3
<1> QED
  BY <1>5

LEMMA MaxOf ==
  ASSUME NEW S \in SUBSET Nat, IsFiniteSet(S), S # {}
  PROVE  Max(S) \in S /\ \A y \in S : Max(S) >= y
<1> DEFINE Topless == {s \in SUBSET S : s # {} /\ ~ \E m \in s : \A y \in s : m >= y}
<1>1. Topless = {}
  <2> SUFFICES ASSUME Topless # {} PROVE FALSE
    OBVIOUS
  <2>1. PICK s \in Topless : \A x \in s : s \ {x} \notin Topless
    BY SmallestOf
  <2>2. PICK x \in s : TRUE
    OBVIOUS
  <2>3. CASE s \ {x} = {}
    BY <2>2, <2>3
  <2>4. CASE s \ {x} # {}
    <3>1. PICK m \in s \ {x} : \A y \in s \ {x} : m >= y
      BY <2>1, <2>2, <2>4
    <3>2. CASE m >= x
      BY <3>1, <3>2
    <3>3. CASE x >= m
      BY <2>2, <3>1, <3>3
    <3>4. m \in Nat /\ x \in Nat
      BY <2>2, <3>1
    <3> QED
      BY <3>2, <3>3, <3>4
  <2> QED
    BY <2>3, <2>4
<1>2. \E m \in S : \A y \in S : m >= y
  BY <1>1
<1> QED
  BY <1>2 DEF Max

\* What is kept as the largest element is put in is had by the whole set.
LEMMA FoldGrows ==
  ASSUME NEW X \in SUBSET Nat, IsFiniteSet(X),
         NEW C \in SUBSET (SUBSET X), {} \in C,
         \A s \in SUBSET X : s # {} /\ s \ {Max(s)} \in C => s \in C
  PROVE  X \in C
<1> SUFFICES ASSUME X \notin C PROVE FALSE
  OBVIOUS
<1> DEFINE B == (SUBSET X) \ C
<1>1. PICK s \in B : \A x \in s : s \ {x} \notin B
  BY SmallestOf
<1>2. s # {} /\ IsFiniteSet(s)
  BY FS_Subset
<1>3. Max(s) \in s
  BY <1>2, MaxOf
<1>4. s \ {Max(s)} \in C
  BY <1>1, <1>3
<1> QED
  BY <1>2, <1>4

\* F takes a set's elements one by one, from the least to the largest.
Folds(F, X, base, step) ==
  /\ F[{}] = base
  /\ \A s \in SUBSET X : s # {} => F[s] = step[Max(s)][F[s \ {Max(s)}]]

\* There is such a function.
LEMMA FoldExists ==
  ASSUME NEW X \in SUBSET Nat, IsFiniteSet(X), NEW W, NEW base \in W,
         NEW step \in [X -> [W -> W]]
  PROVE  \E F \in [SUBSET X -> W] : Folds(F, X, base, step)
<1> USE DEF Folds
<1> DEFINE C == {s \in SUBSET X : \E F \in [SUBSET s -> W] : Folds(F, s, base, step)}
<1>1. {} \in C
  <2> DEFINE F == [t \in SUBSET {} |-> base]
  <2>1. F \in [SUBSET {} -> W] /\ Folds(F, {}, base, step)
    OBVIOUS
  <2> QED
    BY <2>1
<1>2. ASSUME NEW s \in SUBSET X, s # {}, s \ {Max(s)} \in C PROVE s \in C
  <2> DEFINE m == Max(s)
  <2>1. PICK G \in [SUBSET (s \ {m}) -> W] : Folds(G, s \ {m}, base, step)
    BY <1>2
  <2>2. ASSUME NEW t \in SUBSET s, t # {}
        PROVE  Max(t) \in t /\ \A y \in t : Max(t) >= y
    <3>1. IsFiniteSet(t) /\ t \in SUBSET Nat
      BY FS_Subset
    <3> QED
      BY <2>2, <3>1, MaxOf
  <2>3. m \in s /\ m \in X /\ step[m] \in [W -> W]
    BY <1>2, <2>2
  <2>9. \A y \in s : m >= y
    BY <1>2, <2>2
  <2> HIDE DEF m
  <2>4. ASSUME NEW t \in SUBSET s, m \in t PROVE Max(t) = m
    <3>1. PICK k \in s : k = Max(t) /\ k >= m
      BY <2>2, <2>4
    <3>2. m >= k /\ m \in Nat /\ k \in Nat
      BY <2>3, <2>9, <3>1
    <3>3. k = m
      BY <3>1, <3>2
    <3> QED
      BY <3>1, <3>3
  <2> DEFINE F == [t \in SUBSET s |-> IF m \in t THEN step[m][G[t \ {m}]] ELSE G[t]]
  <2>5. F \in [SUBSET s -> W]
    <3> SUFFICES ASSUME NEW t \in SUBSET s PROVE F[t] \in W
      OBVIOUS
    <3>1. t \ {m} \in SUBSET (s \ {m}) /\ (m \notin t => t \in SUBSET (s \ {m}))
      OBVIOUS
    <3> QED
      BY <2>3, <3>1
  <2>6. F[{}] = base
    BY <2>1
  <2>7. ASSUME NEW t \in SUBSET s, t # {} PROVE F[t] = step[Max(t)][F[t \ {Max(t)}]]
    <3>1. CASE m \in t
      <4>1. Max(t) = m /\ t \ {m} \in SUBSET s
        BY <2>4, <3>1
      <4>2. F[t \ {m}] = G[t \ {m}] /\ F[t] = step[m][G[t \ {m}]]
        BY <3>1, <4>1
      <4> QED
        BY <4>1, <4>2
    <3>2. CASE m \notin t
      <4>1. t \in SUBSET (s \ {m}) /\ t \ {Max(t)} \in SUBSET s /\ m \notin t \ {Max(t)}
        BY <3>2
      <4>2. F[t] = G[t] /\ F[t \ {Max(t)}] = G[t \ {Max(t)}]
        BY <3>2, <4>1
      <4> QED
        BY <2>1, <2>7, <4>1, <4>2
    <3> QED
      BY <3>1, <3>2
  <2>8. Folds(F, s, base, step)
    BY <2>6, <2>7
  <2> QED
    BY <2>5, <2>8
<1>3. X \in C
  <2> HIDE DEF C
  <2>1. C \in SUBSET (SUBSET X)
    BY DEF C
  <2> QED
    BY <1>1, <1>2, <2>1, FoldGrows
<1> QED
  BY <1>3

\* What holds of 0 and goes on from each number to the next holds up to n.
LEMMA UpTo ==
  ASSUME NEW n \in Nat, NEW C, 0 \in C, \A i \in 1 .. n : i - 1 \in C => i \in C
  PROVE  0 .. n \subseteq C
<1> DEFINE T == {i \in 0 .. n : i \notin C}
<1> SUFFICES ASSUME T # {} PROVE FALSE
  OBVIOUS
<1>1. PICK x \in T : \A y \in T : ~ (y < x)
  <2>1. T \in SUBSET Nat
    OBVIOUS
  <2> HIDE DEF T
  <2> QED
    BY <2>1, LeastOf
<1>2. x \in 1 .. n /\ x - 1 \in 0 .. n /\ x - 1 < x
  BY <1>1
<1> QED
  BY <1>1, <1>2

\* f goes on from base by the steps.
Goes(f, base, step, n) == f[0] = base /\ \A i \in 1 .. n : f[i] = step[i][f[i - 1]]

LEMMA GoesOn ==
  ASSUME NEW W, NEW n \in Nat, NEW base \in W, NEW step \in [1 .. n -> [W -> W]]
  PROVE  \E f \in [0 .. n -> W] : Goes(f, base, step, n)
<1> USE DEF Goes
<1> DEFINE C == {k \in 0 .. n : \E f \in [0 .. k -> W] : Goes(f, base, step, k)}
<1>1. 0 \in C
  <2> DEFINE f == [i \in 0 .. 0 |-> base]
  <2>1. f \in [0 .. 0 -> W] /\ f[0] = base /\ 1 .. 0 = {}
    OBVIOUS
  <2> HIDE DEF f
  <2>2. Goes(f, base, step, 0)
    BY <2>1
  <2> QED
    BY <2>1, <2>2
<1>2. ASSUME NEW k \in 1 .. n, k - 1 \in C PROVE k \in C
  <2>1. PICK f \in [0 .. k - 1 -> W] : Goes(f, base, step, k - 1)
    BY <1>2
  <2> DEFINE g == [i \in 0 .. k |-> IF i = k THEN step[k][f[k - 1]] ELSE f[i]]
  <2>2. g \in [0 .. k -> W]
    BY <2>1
  <2>3. ASSUME NEW i \in 1 .. k PROVE g[i] = step[i][g[i - 1]]
    <3>1. i - 1 \in 0 .. k - 1 /\ g[i - 1] = f[i - 1]
      OBVIOUS
    <3>2. CASE i = k
      BY <3>1, <3>2
    <3>3. CASE i # k
      BY <2>1, <3>1, <3>3
    <3> QED
      BY <3>2, <3>3
  <2>4. g[0] = base
    BY <2>1
  <2> HIDE DEF g
  <2> QED
    BY <2>2, <2>3, <2>4
<1> HIDE DEF C
<1>3. 0 .. n \subseteq C
  BY <1>1, <1>2, UpTo
<1>4. n \in C
  BY <1>3
<1> QED
  BY <1>4 DEF C

(***************************************************************************)
(* Only                                                                    *)
(***************************************************************************)

\* F takes a list's elements one by one, and keeps those in S in their order.
Keeps(F, list, S) ==
  /\ F[{}] = <<>>
  /\ \A s \in SUBSET DOMAIN list : s # {} =>
       F[s] = IF list[Max(s)] \in S THEN Append(F[s \ {Max(s)}], list[Max(s)])
                                    ELSE F[s \ {Max(s)}]

\* So does Only.
LEMMA OnlyFolds ==
  ASSUME NEW T, NEW list \in Seq(T), NEW S
  PROVE  \E F \in [SUBSET DOMAIN list -> Seq(T)] :
           Only(list, S) = F[DOMAIN list] /\ Keeps(F, list, S)
<1> DEFINE X == DOMAIN list
           step == [i \in X |-> [u \in Seq(T) |-> IF list[i] \in S THEN Append(u, list[i]) ELSE u]]
           Defines(f) == f = [s \in SUBSET X |->
                               IF s = {} THEN <<>>
                               ELSE IF list[Max(s)] \in S
                                      THEN Append(f[s \ {Max(s)}], list[Max(s)])
                                      ELSE f[s \ {Max(s)}]]
           F == CHOOSE f : Defines(f)
<1>1. X \in SUBSET Nat /\ IsFiniteSet(X)
  <2>1. X = 1 .. Len(list) /\ Len(list) \in Nat
    OBVIOUS
  <2> QED
    BY <2>1, FS_Interval
<1>2. \A s \in SUBSET X : s # {} => Max(s) \in s
  BY <1>1, FS_Subset, MaxOf
<1>3. step \in [X -> [Seq(T) -> Seq(T)]]
  OBVIOUS
<1>4. PICK G \in [SUBSET X -> Seq(T)] : Folds(G, X, <<>>, step)
  <2> DEFINE W == Seq(T)
  <2>1. <<>> \in W /\ step \in [X -> [W -> W]]
    BY <1>3
  <2> HIDE DEF X, step, W
  <2>2. \E G \in [SUBSET X -> W] : Folds(G, X, <<>>, step)
    BY <1>1, <2>1, FoldExists
  <2> QED
    BY <2>2 DEF W
<1> USE DEF Folds
<1>5. ASSUME NEW s \in SUBSET X, s # {}
      PROVE  G[s] = IF list[Max(s)] \in S THEN Append(G[s \ {Max(s)}], list[Max(s)])
                                          ELSE G[s \ {Max(s)}]
  <2>1. Max(s) \in X /\ G[s \ {Max(s)}] \in Seq(T)
    BY <1>2, <1>4, <1>5
  <2> HIDE DEF X
  <2>2. step[Max(s)][G[s \ {Max(s)}]] =
          IF list[Max(s)] \in S THEN Append(G[s \ {Max(s)}], list[Max(s)]) ELSE G[s \ {Max(s)}]
    BY <2>1
  <2> QED
    BY <1>4, <1>5, <2>2
<1>6. Defines(G)
  <2> HIDE DEF X
  <2>1. G = [s \in SUBSET X |-> G[s]]
    BY <1>4
  <2> QED
    BY <1>4, <1>5, <2>1
<1>7. Defines(F)
  <2> HIDE DEF Defines
  <2> QED
    BY <1>6
<1>8. Only(list, S) = F[X]
  BY DEF Only, FoldLeft, MapThenFoldSet
<1> HIDE DEF F
<1>9. F[X] = G[X]
  <2> DEFINE C == {s \in SUBSET X : F[s] = G[s]}
  <2>1. {} \in C
    BY <1>4, <1>7
  <2>2. ASSUME NEW s \in SUBSET X, s # {}, s \ {Max(s)} \in C PROVE s \in C
    BY <1>5, <1>7, <2>2
  <2> HIDE DEF X, C
  <2>3. C \in SUBSET (SUBSET X)
    BY DEF C
  <2>4. X \in C
    BY <1>1, <2>1, <2>2, <2>3, FoldGrows
  <2> QED
    BY <2>4 DEF C
<1>10. Keeps(G, list, S)
  BY <1>4, <1>5 DEF Keeps
<1> QED
  BY <1>4, <1>8, <1>9, <1>10

\* Only keeps who is in S, once if they were in the list once, and its head.
LEMMA OnlyKeeps ==
  ASSUME NEW T, NEW list \in Seq(T), NEW S
  PROVE  /\ Only(list, S) \in Seq(T)
         /\ ToSet(Only(list, S)) = ToSet(list) \cap S
         /\ IsInjective(list) => IsInjective(Only(list, S))
         /\ list # <<>> /\ Head(list) \in S => Head(Only(list, S)) = Head(list)
<1> DEFINE X == DOMAIN list
<1>1. X = 1 .. Len(list) /\ Len(list) \in Nat
  OBVIOUS
<1>2. X \in SUBSET Nat /\ IsFiniteSet(X)
  BY <1>1, FS_Interval
<1>3. PICK F \in [SUBSET X -> Seq(T)] : Only(list, S) = F[X] /\ Keeps(F, list, S)
  BY OnlyFolds
<1> USE DEF Keeps
<1>4. \A s \in SUBSET X : s # {} => Max(s) \in s /\ \A y \in s : Max(s) >= y
  BY <1>2, FS_Subset, MaxOf
<1> DEFINE Kept(s, u) ==
             /\ ToSet(u) = {list[i] : i \in s} \cap S
             /\ IsInjective(list) => IsInjective(u)
             /\ 1 \in s /\ list[1] \in S => u # <<>> /\ u[1] = list[1]
           C == {s \in SUBSET X : Kept(s, F[s])}
<1>5. Kept({}, F[{}])
  BY <1>3 DEF ToSet, IsInjective
<1>6. ASSUME NEW s \in SUBSET X, s # {}, Kept(s \ {Max(s)}, F[s \ {Max(s)}])
      PROVE  Kept(s, F[s])
  <2>1. PICK m \in s : m = Max(s) /\ \A y \in s : m >= y
    BY <1>4, <1>6
  <2>2. PICK u \in Seq(T) : u = F[s \ {m}]
    BY <1>3, <1>6
  <2>3. /\ m \in X /\ list[m] \in T
        /\ ToSet(u) = {list[i] : i \in s \ {m}} \cap S
        /\ IsInjective(list) => IsInjective(u)
        /\ 1 \in s \ {m} /\ list[1] \in S => u # <<>> /\ u[1] = list[1]
        /\ F[s] = IF list[m] \in S THEN Append(u, list[m]) ELSE u
    <3>1. m \in X /\ list[m] \in T
      BY <2>1
    <3>2. Kept(s \ {m}, u)
      <4> HIDE DEF Kept
      <4> QED
        BY <1>6, <2>1, <2>2
    <3>3. F[s] = IF list[m] \in S THEN Append(u, list[m]) ELSE u
      BY <1>3, <1>6, <2>1, <2>2
    <3> QED
      BY <3>1, <3>2, <3>3
  <2>4. CASE list[m] \notin S
    BY <2>1, <2>3, <2>4
  <2>5. CASE list[m] \in S
    <3> DEFINE v == Append(u, list[m])
    <3>1. /\ DOMAIN v = DOMAIN u \cup {Len(u) + 1} /\ Len(u) + 1 \notin DOMAIN u
          /\ v[Len(u) + 1] = list[m]
          /\ \A i \in DOMAIN u : v[i] = u[i]
      BY <2>2, <2>3
    <3> HIDE DEF v
    <3>2. ToSet(v) = {list[i] : i \in s} \cap S
      BY <2>1, <2>3, <2>5, <3>1 DEF ToSet
    <3>3. ASSUME IsInjective(list) PROVE IsInjective(v)
      <4>1. \A i \in DOMAIN u : u[i] # list[m]
        BY <2>1, <2>3, <3>3 DEF ToSet, IsInjective
      <4> QED
        BY <2>3, <3>1, <3>3, <4>1 DEF IsInjective
    <3>4. ASSUME 1 \in s, list[1] \in S PROVE v # <<>> /\ v[1] = list[1]
      <4>1. CASE m = 1
        <5>1. s \ {m} = {}
          BY <1>1, <2>1, <4>1
        <5>2. u = <<>>
          BY <1>3, <2>2, <5>1
        <5> QED
          BY <4>1, <5>2 DEF v
      <4>2. CASE m # 1
        <5>1. u # <<>> /\ u[1] = list[1]
          BY <2>3, <3>4, <4>2
        <5>2. 1 \in DOMAIN u
          BY <2>2, <5>1
        <5> QED
          BY <3>1, <5>1, <5>2
      <4> QED
        BY <4>1, <4>2
    <3>5. F[s] = v
      BY <2>3, <2>5 DEF v
    <3> QED
      BY <3>2, <3>3, <3>4, <3>5
  <2> QED
    BY <2>4, <2>5
<1>7. X \in C
  <2>1. {} \in C /\ \A s \in SUBSET X : s # {} /\ s \ {Max(s)} \in C => s \in C
    BY <1>5, <1>6
  <2>2. C \in SUBSET (SUBSET X)
    OBVIOUS
  <2> HIDE DEF X, C
  <2> QED
    BY <1>2, <2>1, <2>2, FoldGrows
<1>8. Kept(X, Only(list, S)) /\ Only(list, S) \in Seq(T)
  BY <1>3, <1>7
<1>9. ToSet(list) = {list[i] : i \in X}
  BY DEF ToSet
<1>10. list # <<>> => 1 \in X /\ Head(list) = list[1]
  BY <1>1
<1>11. Only(list, S) # <<>> => Head(Only(list, S)) = Only(list, S)[1]
  BY <1>8
<1> QED
  BY <1>8, <1>9, <1>10, <1>11
=============================================================================
