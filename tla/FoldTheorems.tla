---------------------------- MODULE FoldTheorems ----------------------------
(***************************************************************************)
(* What folds compute, one element at a time, for any operator that may    *)
(* look at a parameter p besides: FoldLeft on sequences, and FoldSet on    *)
(* finite sets when the order does not matter. The community modules       *)
(* define both by recursion over sets, so these are inductions: each is    *)
(* made with a set of numbers, and a module that needs one of the theorems *)
(* instantiates this one with its operator.                                *)
(***************************************************************************)
EXTENDS Integers, SequencesExt, FiniteSetTheorems, SequenceTheorems, TLAPS

CONSTANTS
  Op(_, _, _),   \* (parameter, accumulator, element)
  Base(_)        \* of the parameter

Fold(p, s)    == FoldLeft(LAMBDA a, e : Op(p, a, e), Base(p), s)
SetFold(p, D) == FoldSet(LAMBDA x, a : Op(p, a, x), Base(p), D)

\* A set that contains 0 and with each number the next.
LEMMA SetInduction ==
  ASSUME NEW T, 0 \in T, \A n \in Nat : n \in T => n + 1 \in T
  PROVE  \A n \in Nat : n \in T
<1>. SUFFICES ASSUME NEW m \in Nat, m \notin T PROVE FALSE
  OBVIOUS
<1> DEFINE U == Nat \ T
<1>1. U \subseteq Nat /\ m \in U
  OBVIOUS
<1>2. PICK x \in U : \A y \in U : ~ (<<y, x>> \in OpToRel(<, Nat))
  <2>. HIDE DEF U
  <2>. QED BY <1>1, NatLessThanWellFounded, WFMin
<1>3. x # 0 /\ x \in Nat
  OBVIOUS
<1>4. x - 1 \in Nat /\ x - 1 < x
  BY <1>3
<1>5. <<x - 1, x>> \in OpToRel(<, Nat)
  BY <1>4, <1>3 DEF OpToRel
<1>6. x - 1 \in T
  BY <1>2, <1>4, <1>5
<1>7. x - 1 + 1 = x
  BY <1>3
<1>8. x \in T
  BY <1>6, <1>4, <1>7
<1>. QED
  BY <1>8

-----------------------------------------------------------------------------
(* The recursion of both *)

\* The subsets up to a size.
Small(D, n) == {t \in SUBSET D : Cardinality(t) <= n}

LEMMA SmallSets ==
  ASSUME NEW D, IsFiniteSet(D)
  PROVE  /\ Cardinality(D) \in Nat /\ Small(D, Cardinality(D)) = SUBSET D
         /\ \A t \in SUBSET D : IsFiniteSet(t) /\ Cardinality(t) \in Nat
         /\ \A t \in Small(D, 0) : t = {}
         /\ \A n \in Nat : \A t \in Small(D, n + 1) : \A x \in t :
              t \ {x} \in Small(D, n) /\ t \ {x} \in Small(D, n + 1)
<1>1. Cardinality(D) \in Nat
  BY FS_CardinalityType
<1>2. \A t \in SUBSET D : IsFiniteSet(t) /\ Cardinality(t) \in Nat /\ Cardinality(t) <= Cardinality(D)
  BY FS_Subset, FS_CardinalityType
<1>3. Small(D, Cardinality(D)) = SUBSET D
  BY <1>2 DEF Small
<1>4. \A t \in Small(D, 0) : t = {}
  BY <1>2, FS_EmptySet DEF Small
<1>5. ASSUME NEW n \in Nat, NEW t \in Small(D, n + 1), NEW x \in t
      PROVE  t \ {x} \in Small(D, n) /\ t \ {x} \in Small(D, n + 1)
  <2>1. t \in SUBSET D /\ Cardinality(t) <= n + 1 /\ IsFiniteSet(t) /\ Cardinality(t) \in Nat
    BY <1>2 DEF Small
  <2>2. Cardinality(t \ {x}) = Cardinality(t) - 1
    BY <2>1, FS_RemoveElement
  <2>. QED
    BY <2>1, <2>2 DEF Small
<1>. QED
  BY <1>1, <1>2, <1>3, <1>4, <1>5

\* A function on the subsets of D that takes the element c[t] from each t.
Recurs(f, p, D, m, c) ==
  f = [t \in SUBSET D |-> IF t = {} THEN Base(p) ELSE Op(p, f[t \ {c[t]}], m[c[t]])]

LEMMA RecursionDefined ==
  ASSUME NEW p, NEW D, IsFiniteSet(D), NEW m, NEW c,
         \A t \in SUBSET D : t # {} => c[t] \in t
  PROVE  \E f : Recurs(f, p, D, m, c)
<1> DEFINE body(f, t) == IF t = {} THEN Base(p) ELSE Op(p, f[t \ {c[t]}], m[c[t]])
           T == {n \in Nat : \E f : f = [t \in Small(D, n) |-> body(f, t)]}
<1>1. 0 \in T
  <2> DEFINE f == [t \in Small(D, 0) |-> Base(p)]
  <2>1. \A t \in Small(D, 0) : t = {}
    BY SmallSets
  <2>2. f = [t \in Small(D, 0) |-> body(f, t)]
    BY <2>1
  <2>. QED BY <2>2
<1>2. ASSUME NEW n \in Nat, n \in T PROVE n + 1 \in T
  <2>1. PICK f : f = [t \in Small(D, n) |-> body(f, t)]
    BY <1>2
  <2> DEFINE g == [t \in Small(D, n + 1) |-> body(f, t)]
  <2>2. ASSUME NEW t \in Small(D, n + 1) PROVE body(f, t) = body(g, t)
    <3>1. CASE t = {}
      BY <3>1
    <3>2. CASE t # {}
      <4> DEFINE u == t \ {c[t]}
      <4>1. c[t] \in t
        BY <3>2 DEF Small
      <4>2. u \in Small(D, n) /\ u \in Small(D, n + 1)
        BY <4>1, SmallSets
      <4>. HIDE DEF u
      <4>3. f[u] = body(f, u) /\ g[u] = body(f, u)
        BY <2>1, <4>2
      <4>. HIDE DEF g
      <4>. QED BY <4>3, <3>2 DEF u
    <3>. QED BY <3>1, <3>2
  <2>3. g = [t \in Small(D, n + 1) |-> body(g, t)]
    BY <2>2
  <2>. HIDE DEF g, body
  <2>4. \E h : h = [t \in Small(D, n + 1) |-> body(h, t)]
    BY <2>3
  <2>. QED BY <2>4
<1>3. Cardinality(D) \in T
  <2>. HIDE DEF T
  <2>. QED BY <1>1, <1>2, SetInduction, SmallSets
<1>4. Small(D, Cardinality(D)) = SUBSET D
  BY SmallSets
<1>. QED
  BY <1>3, <1>4 DEF Recurs

-----------------------------------------------------------------------------
(* Sequences *)

LEMMA MaxInside ==
  ASSUME NEW n \in Nat, NEW t \in SUBSET (1 .. n), t # {}
  PROVE  Max(t) \in t /\ \A y \in t : Max(t) >= y
<1> DEFINE U == {k \in Nat : \E x \in t : n - x = k}
<1>1. U \subseteq Nat /\ U # {}
  <2>1. PICK x \in t : x \in 1 .. n
    OBVIOUS
  <2>2. n - x \in U
    BY <2>1
  <2>. QED BY <2>2
<1>2. PICK k \in U : \A y \in U : ~ (<<y, k>> \in OpToRel(<, Nat))
  <2>. HIDE DEF U
  <2>. QED BY <1>1, NatLessThanWellFounded, WFMin
<1>3. PICK x \in t : n - x = k
  OBVIOUS
<1>4. ASSUME NEW y \in t PROVE x >= y
  <2>1. n - y \in U /\ n - y \in Nat /\ k \in Nat /\ x \in Int /\ y \in Int
    OBVIOUS
  <2>2. CASE n - y < k
    <3>1. <<n - y, k>> \in OpToRel(<, Nat)
      BY <2>1, <2>2 DEF OpToRel
    <3>. QED BY <3>1, <2>1, <1>2
  <2>3. CASE ~ (n - y < k)
    BY <2>1, <2>3, <1>3
  <2>. QED BY <2>2, <2>3
<1>. QED
  BY <1>4 DEF Max

Folds(f, p, s) ==
  f = [t \in SUBSET DOMAIN s |-> IF t = {} THEN Base(p) ELSE Op(p, f[t \ {Max(t)}], s[Max(t)])]

Iter(p, s) == CHOOSE f : Folds(f, p, s)

LEMMA FoldIter ==
  ASSUME NEW p, NEW s
  PROVE  Fold(p, s) = Iter(p, s)[DOMAIN s]
BY DEF Fold, FoldLeft, MapThenFoldSet, Iter, Folds

LEMMA IterDefined ==
  ASSUME NEW p, NEW S, NEW s \in Seq(S)
  PROVE  Folds(Iter(p, s), p, s)
<1> DEFINE D == DOMAIN s
           c == [t \in SUBSET D |-> Max(t)]
<1>1. Len(s) \in Nat /\ D = 1 .. Len(s)
  OBVIOUS
<1>2. IsFiniteSet(D)
  BY <1>1, FS_Interval
<1>3. \A t \in SUBSET D : t # {} => c[t] \in t
  BY <1>1, MaxInside
<1>4. \A t \in SUBSET D : c[t] = Max(t)
  OBVIOUS
<1>. HIDE DEF c, D
<1>5. PICK g : Recurs(g, p, D, s, c)
  BY <1>2, <1>3, RecursionDefined
<1>6. Folds(g, p, s)
  BY <1>4, <1>5 DEF Recurs, Folds, D
<1>. QED
  BY <1>6 DEF Iter

LEMMA IterEmpty ==
  ASSUME NEW p, NEW S, NEW s \in Seq(S)
  PROVE  Iter(p, s)[{}] = Base(p)
<1> DEFINE f == Iter(p, s)
<1>1. Folds(f, p, s)
  BY IterDefined
<1>. HIDE DEF f
<1>2. f[{}] = Base(p)
  BY <1>1 DEF Folds
<1>. QED BY <1>2 DEF f

LEMMA IterStep ==
  ASSUME NEW p, NEW S, NEW s \in Seq(S), NEW n \in Nat, n + 1 <= Len(s)
  PROVE  Iter(p, s)[1 .. n + 1] = Op(p, Iter(p, s)[1 .. n], s[n + 1])
<1> DEFINE t == 1 .. n + 1
<1>1. t \in SUBSET DOMAIN s /\ t # {} /\ {} \in SUBSET DOMAIN s /\ n + 1 \in t
  OBVIOUS
<1>2. Max(t) = n + 1
  <2>. HIDE DEF t
  <2>1. t \in SUBSET (1 .. n + 1) /\ n + 1 \in Nat
    BY DEF t
  <2>2. Max(t) \in t /\ Max(t) >= n + 1
    BY <1>1, <2>1, MaxInside
  <2>3. Max(t) \in 1 .. n + 1
    BY <2>1, <2>2
  <2>. QED BY <2>2, <2>3
<1>3. t \ {n + 1} = 1 .. n
  OBVIOUS
<1> DEFINE f == Iter(p, s)
<1>4. Folds(f, p, s)
  BY IterDefined
<1>. HIDE DEF t, f
<1>5. f[t] = Op(p, f[t \ {Max(t)}], s[Max(t)])
  BY <1>4, <1>1 DEF Folds
<1>. QED
  BY <1>2, <1>3, <1>5 DEF t, f

\* The fold of nothing, and of one element more.
THEOREM FoldEmpty == \A p : Fold(p, <<>>) = Base(p)
<1>. TAKE p
<1>1. <<>> \in Seq({}) /\ DOMAIN <<>> = {}
  OBVIOUS
<1>. QED
  BY <1>1, IterEmpty, FoldIter

THEOREM FoldAppend ==
  ASSUME NEW p, NEW S, NEW s \in Seq(S), NEW e \in S
  PROVE  Fold(p, Append(s, e)) = Op(p, Fold(p, s), e)
<1> DEFINE z == Append(s, e)
           T == {n \in Nat : n <= Len(s) => Iter(p, z)[1 .. n] = Iter(p, s)[1 .. n]}
<1>1. z \in Seq(S) /\ Len(z) = Len(s) + 1 /\ Len(s) \in Nat /\ z[Len(s) + 1] = e
      /\ DOMAIN z = 1 .. Len(s) + 1 /\ DOMAIN s = 1 .. Len(s)
  OBVIOUS
<1>2. \A n \in 1 .. Len(s) : z[n] = s[n]
  OBVIOUS
<1>. HIDE DEF z
<1>3. 0 \in T
  <2>1. Iter(p, z)[{}] = Base(p) /\ Iter(p, s)[{}] = Base(p)
    BY <1>1, IterEmpty
  <2>2. 1 .. 0 = {}
    OBVIOUS
  <2>. QED BY <2>1, <2>2
<1>4. ASSUME NEW n \in Nat, n \in T PROVE n + 1 \in T
  <2>. SUFFICES ASSUME n + 1 <= Len(s) PROVE Iter(p, z)[1 .. n + 1] = Iter(p, s)[1 .. n + 1]
    OBVIOUS
  <2>1. Iter(p, z)[1 .. n + 1] = Op(p, Iter(p, z)[1 .. n], z[n + 1])
    BY IterStep, <1>1
  <2>2. Iter(p, s)[1 .. n + 1] = Op(p, Iter(p, s)[1 .. n], s[n + 1])
    BY IterStep, <1>1
  <2>3. Iter(p, z)[1 .. n] = Iter(p, s)[1 .. n] /\ z[n + 1] = s[n + 1]
    BY <1>4, <1>2, <1>1
  <2>. QED BY <2>1, <2>2, <2>3
<1>5. Len(s) \in T
  <2>. HIDE DEF T
  <2>. QED BY <1>1, <1>3, <1>4, SetInduction
<1>6. Iter(p, z)[1 .. Len(s) + 1] = Op(p, Iter(p, z)[1 .. Len(s)], z[Len(s) + 1])
  BY IterStep, <1>1
<1>7. Iter(p, z)[1 .. Len(s)] = Iter(p, s)[1 .. Len(s)]
  BY <1>5, <1>1
<1>. QED
  BY <1>6, <1>7, <1>1, FoldIter DEF z

\* What holds of the empty sequence and after each element, as a set, holds of all sequences.
THEOREM SequenceInduction ==
  ASSUME NEW X, NEW Q, <<>> \in Q,
         \A s \in Seq(X) : \A e \in X : s \in Q => Append(s, e) \in Q
  PROVE  \A s \in Seq(X) : s \in Q
<1> DEFINE T == {n \in Nat : \A s \in Seq(X) : Len(s) = n => s \in Q}
<1>1. 0 \in T
  OBVIOUS
<1>2. ASSUME NEW n \in Nat, n \in T PROVE n + 1 \in T
  <2>1. ASSUME NEW s \in Seq(X), Len(s) = n + 1 PROVE s \in Q
    <3> DEFINE g == SubSeq(s, 1, n)
               e == s[n + 1]
    <3>1. e \in X /\ \A i \in 1 .. n : s[i] \in X
      BY <2>1
    <3>2. g \in Seq(X) /\ Len(g) = n /\ \A i \in 1 .. n : g[i] = s[i]
      BY <2>1, <3>1, SubSeqProperties
    <3>. HIDE DEF g, e
    <3>3. /\ Append(g, e) \in Seq(X) /\ Len(Append(g, e)) = n + 1
          /\ \A i \in 1 .. n : Append(g, e)[i] = g[i]
          /\ Append(g, e)[n + 1] = e
      BY <3>1, <3>2, AppendProperties
    <3>4. \A i \in 1 .. n + 1 : Append(g, e)[i] = s[i]
      BY <3>2, <3>3 DEF e
    <3>5. Append(g, e) = s
      BY <2>1, <3>3, <3>4, SeqEqual
    <3>6. Append(g, e) \in Q
      BY <1>2, <3>1, <3>2
    <3>. QED BY <3>5, <3>6
  <2>. QED BY <2>1
<1>. HIDE DEF T
<1>3. \A n \in Nat : n \in T
  BY <1>1, <1>2, SetInduction
<1>4. ASSUME NEW s \in Seq(X) PROVE s \in Q
  <2>1. Len(s) \in T
    BY <1>3
  <2>. QED BY <2>1 DEF T
<1>. QED
  BY <1>4

-----------------------------------------------------------------------------
(* Sets *)

Taken(t) == CHOOSE x \in t : TRUE

TakesAll(f, p, D) ==
  f = [t \in SUBSET D |-> IF t = {} THEN Base(p) ELSE Op(p, f[t \ {Taken(t)}], Taken(t))]

SetIter(p, D) == CHOOSE f : TakesAll(f, p, D)

LEMMA SetFoldIter ==
  ASSUME NEW p, NEW D
  PROVE  SetFold(p, D) = SetIter(p, D)[D]
BY DEF SetFold, FoldSet, MapThenFoldSet, SetIter, TakesAll, Taken

LEMMA SetIterDefined ==
  ASSUME NEW p, NEW D, IsFiniteSet(D)
  PROVE  /\ SetIter(p, D)[{}] = Base(p)
         /\ \A t \in SUBSET D : t # {} =>
              SetIter(p, D)[t] = Op(p, SetIter(p, D)[t \ {Taken(t)}], Taken(t))
<1> DEFINE c == [t \in SUBSET D |-> Taken(t)]
           m == [x \in D |-> x]
           f == SetIter(p, D)
<1>1. \A t \in SUBSET D : t # {} => c[t] \in t
  BY DEF Taken
<1>2. \A t \in SUBSET D : t # {} => c[t] = Taken(t) /\ m[c[t]] = Taken(t)
  BY <1>1
<1>. HIDE DEF c, m
<1>3. PICK g : Recurs(g, p, D, m, c)
  BY <1>1, RecursionDefined
<1>4. TakesAll(g, p, D)
  BY <1>2, <1>3 DEF Recurs, TakesAll
<1>5. TakesAll(f, p, D)
  BY <1>4 DEF SetIter
<1>. HIDE DEF f
<1>6. f[{}] = Base(p) /\ \A t \in SUBSET D : t # {} => f[t] = Op(p, f[t \ {Taken(t)}], Taken(t))
  BY <1>5 DEF TakesAll
<1>. QED
  BY <1>6 DEF f

\* The recursion on a set does not depend on the set it is a part of.
LEMMA SetIterSame ==
  ASSUME NEW p, NEW D, IsFiniteSet(D), NEW t \in SUBSET D
  PROVE  SetIter(p, D)[t] = SetFold(p, t)
<1> DEFINE T == {n \in Nat : \A E : IsFiniteSet(E) =>
                   \A u \in SUBSET E : Cardinality(u) <= n => SetIter(p, E)[u] = SetIter(p, u)[u]}
<1>1. 0 \in T
  <2>1. ASSUME NEW E, IsFiniteSet(E), NEW u \in SUBSET E, Cardinality(u) <= 0
        PROVE  SetIter(p, E)[u] = SetIter(p, u)[u]
    <3>1. u = {} /\ IsFiniteSet({})
      BY <2>1, SmallSets, FS_EmptySet DEF Small
    <3>. QED
      BY <2>1, <3>1, SetIterDefined
  <2>. QED BY <2>1
<1>2. ASSUME NEW n \in Nat, n \in T PROVE n + 1 \in T
  <2>1. ASSUME NEW E, IsFiniteSet(E), NEW u \in SUBSET E, Cardinality(u) <= n + 1
        PROVE  SetIter(p, E)[u] = SetIter(p, u)[u]
    <3>1. CASE u = {}
      BY <2>1, <3>1, SetIterDefined, FS_EmptySet
    <3>2. CASE u # {}
      <4> DEFINE v == u \ {Taken(u)}
      <4>1. Taken(u) \in u /\ IsFiniteSet(u) /\ IsFiniteSet(v)
        BY <2>1, <3>2, FS_Subset DEF Taken
      <4>2. v \in SUBSET E /\ v \in SUBSET u /\ Cardinality(v) <= n
        BY <2>1, <4>1, SmallSets DEF Small
      <4>3. SetIter(p, E)[u] = Op(p, SetIter(p, E)[v], Taken(u)) /\ SetIter(p, u)[u] = Op(p, SetIter(p, u)[v], Taken(u))
        <5>1. SetIter(p, E)[u] = Op(p, SetIter(p, E)[v], Taken(u))
          BY <2>1, <3>2, SetIterDefined, Zenon
        <5>2. u \in SUBSET u /\ IsFiniteSet(u)
          BY <4>1
        <5>3. SetIter(p, u)[u] = Op(p, SetIter(p, u)[v], Taken(u))
          BY <3>2, <5>2, SetIterDefined, Zenon
        <5>. QED BY <5>1, <5>3
      <4>4. SetIter(p, E)[v] = SetIter(p, v)[v] /\ SetIter(p, u)[v] = SetIter(p, v)[v]
        <5>. HIDE DEF v
        <5>. QED BY <1>2, <2>1, <4>1, <4>2
      <4>. QED BY <4>3, <4>4
    <3>. QED BY <3>1, <3>2
  <2>. QED BY <2>1
<1>3. IsFiniteSet(t) /\ Cardinality(t) \in Nat
  BY SmallSets
<1>4. Cardinality(t) \in T
  <2>. HIDE DEF T
  <2>. QED BY <1>1, <1>2, <1>3, SetInduction
<1>5. SetIter(p, D)[t] = SetIter(p, t)[t]
  BY <1>3, <1>4
<1>. QED
  BY <1>5, SetFoldIter

THEOREM SetFoldEmpty == \A p : SetFold(p, {}) = Base(p)
<1>. TAKE p
<1>. QED
  BY SetFoldIter, SetIterDefined, FS_EmptySet

\* The element that is taken first.
LEMMA SetFoldTaken ==
  ASSUME NEW p, NEW D, IsFiniteSet(D), D # {}
  PROVE  Taken(D) \in D /\ SetFold(p, D) = Op(p, SetFold(p, D \ {Taken(D)}), Taken(D))
<1>1. Taken(D) \in D
  BY DEF Taken
<1>2. SetFold(p, D) = Op(p, SetIter(p, D)[D \ {Taken(D)}], Taken(D))
  BY SetFoldIter, SetIterDefined
<1>3. SetIter(p, D)[D \ {Taken(D)}] = SetFold(p, D \ {Taken(D)})
  BY SetIterSame
<1>. QED
  BY <1>1, <1>2, <1>3

\* What an operator keeps in A, its fold keeps in A.
THEOREM SetFoldType ==
  ASSUME NEW p, NEW A, NEW D, IsFiniteSet(D), Base(p) \in A,
         \A a \in A : \A x \in D : Op(p, a, x) \in A
  PROVE  SetFold(p, D) \in A
<1> DEFINE T == {n \in Nat : \A u \in SUBSET D : Cardinality(u) <= n => SetFold(p, u) \in A}
<1>1. 0 \in T
  <2>1. \A u \in SUBSET D : Cardinality(u) <= 0 => u = {}
    BY SmallSets DEF Small
  <2>. QED BY <2>1, SetFoldEmpty
<1>2. ASSUME NEW n \in Nat, n \in T PROVE n + 1 \in T
  <2>1. ASSUME NEW u \in SUBSET D, Cardinality(u) <= n + 1, u # {} PROVE SetFold(p, u) \in A
    <3> DEFINE v == u \ {Taken(u)}
    <3>1. IsFiniteSet(u)
      BY FS_Subset
    <3>2. Taken(u) \in u /\ SetFold(p, u) = Op(p, SetFold(p, v), Taken(u))
      BY <2>1, <3>1, SetFoldTaken
    <3>3. v \in SUBSET D /\ Cardinality(v) <= n
      BY <2>1, <3>2, SmallSets DEF Small
    <3>. HIDE DEF v
    <3>4. SetFold(p, v) \in A
      BY <1>2, <3>3
    <3>. QED BY <3>2, <3>4
  <2>. QED BY <2>1, SetFoldEmpty
<1>3. Cardinality(D) \in T
  <2>. HIDE DEF T
  <2>. QED BY <1>1, <1>2, SmallSets, SetInduction
<1>. QED
  BY <1>3, SmallSets

\* Two operators that agree on the elements have the same fold.
THEOREM SetFoldSame ==
  ASSUME NEW p, NEW q, NEW D, IsFiniteSet(D), Base(p) = Base(q),
         NEW A, Base(p) \in A, \A a \in A : \A x \in D : Op(p, a, x) \in A,
         \A a \in A : \A x \in D : Op(p, a, x) = Op(q, a, x)
  PROVE  SetFold(p, D) = SetFold(q, D)
<1> DEFINE T == {n \in Nat : \A u \in SUBSET D : Cardinality(u) <= n => SetFold(p, u) = SetFold(q, u)}
<1>1. 0 \in T
  <2>1. \A u \in SUBSET D : Cardinality(u) <= 0 => u = {}
    BY SmallSets DEF Small
  <2>. QED BY <2>1, SetFoldEmpty
<1>2. ASSUME NEW n \in Nat, n \in T PROVE n + 1 \in T
  <2>1. ASSUME NEW u \in SUBSET D, Cardinality(u) <= n + 1, u # {} PROVE SetFold(p, u) = SetFold(q, u)
    <3> DEFINE v == u \ {Taken(u)}
    <3>1. IsFiniteSet(u) /\ IsFiniteSet(v)
      BY FS_Subset
    <3>2. /\ Taken(u) \in u /\ SetFold(p, u) = Op(p, SetFold(p, v), Taken(u))
          /\ SetFold(q, u) = Op(q, SetFold(q, v), Taken(u))
      BY <2>1, <3>1, SetFoldTaken
    <3>3. v \in SUBSET D /\ Cardinality(v) <= n
      BY <2>1, <3>2, SmallSets DEF Small
    <3>. HIDE DEF v
    <3>4. SetFold(p, v) = SetFold(q, v)
      BY <1>2, <3>3
    <3>5. SetFold(p, v) \in A
      BY <3>1, <3>3, SetFoldType
    <3>. QED BY <3>2, <3>3, <3>4, <3>5
  <2>. QED BY <2>1, SetFoldEmpty
<1>3. Cardinality(D) \in T
  <2>. HIDE DEF T
  <2>. QED BY <1>1, <1>2, SmallSets, SetInduction
<1>. QED
  BY <1>3, SmallSets

\* When the order does not matter, any element may be taken last.
THEOREM SetFoldAdd ==
  ASSUME NEW p, NEW A, NEW D, IsFiniteSet(D), Base(p) \in A,
         \A a \in A : \A x \in D : Op(p, a, x) \in A,
         \A a \in A : \A x, y \in D : Op(p, Op(p, a, x), y) = Op(p, Op(p, a, y), x),
         NEW z \in D
  PROVE  SetFold(p, D) = Op(p, SetFold(p, D \ {z}), z)
<1> DEFINE T == {n \in Nat : \A u \in SUBSET D : Cardinality(u) <= n =>
                   \A x \in u : SetFold(p, u) = Op(p, SetFold(p, u \ {x}), x)}
<1>1. 0 \in T
  BY SmallSets DEF Small
<1>2. ASSUME NEW n \in Nat, n \in T PROVE n + 1 \in T
  <2>1. ASSUME NEW u \in SUBSET D, Cardinality(u) <= n + 1, NEW x \in u
        PROVE  SetFold(p, u) = Op(p, SetFold(p, u \ {x}), x)
    <3> DEFINE y == Taken(u)
               w == (u \ {y}) \ {x}
    <3>1. IsFiniteSet(u) /\ IsFiniteSet(w)
      BY FS_Subset
    <3>2. y \in u /\ SetFold(p, u) = Op(p, SetFold(p, u \ {y}), y)
      BY <3>1, SetFoldTaken
    <3>3. CASE x = y
      BY <3>2, <3>3
    <3>4. CASE x # y
      <4>1. u \ {y} \in SUBSET D /\ Cardinality(u \ {y}) <= n /\ x \in u \ {y}
        BY <2>1, <3>2, <3>4, SmallSets DEF Small
      <4>2. u \ {x} \in SUBSET D /\ Cardinality(u \ {x}) <= n /\ y \in u \ {x}
        BY <2>1, <3>2, <3>4, SmallSets DEF Small
      <4>3. SetFold(p, u \ {y}) = Op(p, SetFold(p, w), x)
        BY <1>2, <4>1
      <4>4. w = (u \ {x}) \ {y}
        OBVIOUS
      <4>5. SetFold(p, u \ {x}) = Op(p, SetFold(p, w), y)
        BY <1>2, <4>2, <4>4
      <4>6. SetFold(p, w) \in A
        <5>1. w \in SUBSET D
          OBVIOUS
        <5>. HIDE DEF w
        <5>. QED BY <5>1, <3>1, SetFoldType
      <4>. HIDE DEF y, w
      <4>7. Op(p, Op(p, SetFold(p, w), x), y) = Op(p, Op(p, SetFold(p, w), y), x)
        BY <3>2, <4>6
      <4>. QED BY <3>2, <4>3, <4>5, <4>7
    <3>. QED BY <3>3, <3>4
  <2>. QED BY <2>1
<1>3. Cardinality(D) \in T
  <2>. HIDE DEF T
  <2>. QED BY <1>1, <1>2, SmallSets, SetInduction
<1>. QED
  BY <1>3, SmallSets
=============================================================================
