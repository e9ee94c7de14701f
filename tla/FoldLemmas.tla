----------------------------- MODULE FoldLemmas -----------------------------
(***************************************************************************)
(* Folds of sequences and of sets, for one operator: what an induction     *)
(* over the data needs to know of them.  A module that folds with an       *)
(* operator instantiates this one with it.  "p" is what the operator takes *)
(* besides the value so far and the next element.                          *)
(***************************************************************************)
EXTENDS SequencesExt, FiniteSetTheorems, SequenceTheorems, TLAPS

CONSTANT Op(_, _, _)

\* Induction over the naturals, for the set of those that have the property.
LEMMA NatSetInduction ==
  ASSUME NEW S \in SUBSET Nat, 0 \in S, \A n \in S : n + 1 \in S
  PROVE  S = Nat
<1> SUFFICES ASSUME NEW n \in Nat, n \notin S
             PROVE  FALSE
  OBVIOUS
<1>1. PICK T : T = {m \in S : m <= n}
  OBVIOUS
<1>2. T \in SUBSET Nat /\ (\A m \in T : m <= n) /\ 0 \in T
  <2>1. 0 <= n
    OBVIOUS
  <2> QED
    BY <1>1, <2>1
<1>3. IsFiniteSet(T)
  BY <1>2, FS_BoundedSetOfNaturals
<1>4. IsFiniteSet(T \ {0}) /\ Cardinality(T \ {0}) = Cardinality(T) - 1
  BY <1>2, <1>3, FS_RemoveElement
<1>5. PICK f : f = [m \in T |-> m + 1]
  OBVIOUS
<1>6. f \in Injection(T, T \ {0})
  <2>1. ASSUME NEW m \in T
        PROVE  m + 1 \in T \ {0}
    <3>1. m \in Nat /\ m + 1 \in S /\ m <= n
      BY <1>1, <1>2
    <3>2. m # n
      BY <1>1
    <3> QED
      BY <1>1, <3>1, <3>2
  <2>2. \A l, m \in T : l + 1 = m + 1 => l = m
    BY <1>2
  <2> QED
    BY <1>5, <2>1, <2>2 DEF Injection, IsInjective
<1>7. Cardinality(T) <= Cardinality(T \ {0})
  BY <1>4, <1>6, FS_Injection
<1>8. Cardinality(T) \in Nat
  BY <1>3, FS_CardinalityType
<1> QED
  BY <1>4, <1>7, <1>8

\* Induction over sequences, for the set of those that have the property.
LEMMA SequenceSetInduction ==
  ASSUME NEW X, NEW S \in SUBSET Seq(X), <<>> \in S, \A s \in S : \A x \in X : Append(s, x) \in S
  PROVE  S = Seq(X)
<1>1. PICK L : L = {n \in Nat : \A s \in Seq(X) : Len(s) = n => s \in S}
  OBVIOUS
<1>2. 0 \in L
  <2>1. \A s \in Seq(X) : Len(s) = 0 => s = <<>>
    OBVIOUS
  <2> QED
    BY <1>1, <2>1
<1>3. ASSUME NEW n \in L
      PROVE  n + 1 \in L
  <2>1. n \in Nat
    BY <1>1
  <2>2. ASSUME NEW s \in Seq(X), Len(s) = n + 1
        PROVE  s \in S
    <3>1. PICK front : front = SubSeq(s, 1, n)
      OBVIOUS
    <3>2. front \in Seq(X) /\ Len(front) = n
      BY <2>1, <2>2, <3>1
    <3>3. PICK x \in X : x = s[n + 1]
      BY <2>1, <2>2
    <3>4. PICK t : t = Append(front, x)
      OBVIOUS
    <3>5. t \in Seq(X) /\ Len(t) = n + 1 /\ t[n + 1] = x /\ \A i \in 1 .. n : t[i] = front[i]
      BY <3>2, <3>4
    <3>6. ASSUME NEW i \in 1 .. n PROVE front[i] = s[i]
      <4>1. 1 \in Int /\ n \in Int /\ i \in 1 .. n - 1 + 1 /\ 1 + i - 1 = i
        BY <2>1
      <4>2. \A k \in 1 .. n : s[k] \in X
        BY <2>1, <2>2
      <4>3. SubSeq(s, 1, n)[i] = s[1 + i - 1]
        BY <4>1, <4>2, SubSeqProperties
      <4> QED
        BY <3>1, <4>1, <4>3
    <3>7. ASSUME NEW i \in 1 .. n + 1 PROVE t[i] = s[i]
      <4>1. i \in 1 .. n \/ i = n + 1
        BY <2>1
      <4> QED
        BY <3>3, <3>5, <3>6, <4>1
    <3>8. t = s
      BY <2>2, <3>5, <3>7, SeqEqual
    <3>9. front \in S
      BY <1>1, <3>2
    <3> QED
      BY <3>4, <3>8, <3>9
  <2> QED
    BY <1>1, <2>1, <2>2
<1>4. L = Nat
  BY <1>1, <1>2, <1>3, NatSetInduction
<1>5. ASSUME NEW s \in Seq(X) PROVE s \in S
  <2>1. Len(s) \in L
    BY <1>4
  <2> QED
    BY <1>1, <2>1
<1> QED
  BY <1>5

\* A set of positions that is not empty has a last one.
LEMMA LastPosition ==
  ASSUME NEW n \in Nat, NEW T \in SUBSET (1 .. n), T # {}
  PROVE  Max(T) \in T /\ \A i \in T : i <= Max(T)
<1>1. PICK S : S = {m \in Nat : \A U \in SUBSET (1 .. m) :
                                  U # {} => \E x \in U : \A y \in U : y <= x}
  OBVIOUS
<1>2. 0 \in S
  <2>1. \A U \in SUBSET (1 .. 0) : U = {}
    OBVIOUS
  <2> QED
    BY <1>1, <2>1
<1>3. ASSUME NEW m \in S
      PROVE  m + 1 \in S
  <2>1. m \in Nat
    BY <1>1
  <2>2. ASSUME NEW U \in SUBSET (1 .. m + 1), U # {}
        PROVE  \E x \in U : \A y \in U : y <= x
    <3>1. CASE m + 1 \in U
      BY <2>1, <3>1
    <3>2. CASE m + 1 \notin U
      <4>1. U \in SUBSET (1 .. m)
        BY <2>1, <3>2
      <4> QED
        BY <1>1, <2>2, <4>1
    <3> QED
      BY <3>1, <3>2
  <2> QED
    BY <1>1, <2>1, <2>2
<1>4. n \in S
  BY <1>1, <1>2, <1>3, NatSetInduction
<1>5. \E x \in T : \A y \in T : x >= y
  BY <1>1, <1>4
<1> QED
  BY <1>5 DEF Max

-----------------------------------------------------------------------------
(* The recursion of a fold *)

\* What is done with a set of positions: "last" is the one that comes last.
Body(p, base, seq, last, g, T) ==
  IF T = {} THEN base ELSE Op(p, g[T \ {last[T]}], seq[last[T]])

Solves(p, base, seq, last, g, S) ==
  g = [T \in SUBSET S |-> Body(p, base, seq, last, g, T)]

\* The recursion that defines a fold has a solution.
LEMMA FoldExists ==
  ASSUME NEW S, IsFiniteSet(S), NEW p, NEW base, NEW seq, NEW last,
         \A T \in SUBSET S : T # {} => last[T] \in T
  PROVE  \E g : Solves(p, base, seq, last, g, S)
<1>0. PICK n \in Nat : \A T \in SUBSET S : IsFiniteSet(T) /\ Cardinality(T) \in 0 .. n
  <2>1. Cardinality(S) \in Nat
    BY FS_CardinalityType
  <2>2. ASSUME NEW T \in SUBSET S
        PROVE  IsFiniteSet(T) /\ Cardinality(T) \in 0 .. Cardinality(S)
    <3>1. IsFiniteSet(T) /\ Cardinality(T) <= Cardinality(S)
      BY FS_Subset
    <3>2. Cardinality(T) \in Nat
      BY <3>1, FS_CardinalityType
    <3> QED
      BY <2>1, <3>1, <3>2
  <2> QED
    BY <2>1, <2>2
<1>1. PICK K : K = {k \in Nat : \E g : \A T \in SUBSET S :
                      Cardinality(T) <= k => g[T] = Body(p, base, seq, last, g, T)}
  OBVIOUS
<1>2. 0 \in K
  <2>1. PICK g : g = [T \in SUBSET S |-> base]
    OBVIOUS
  <2>2. ASSUME NEW T \in SUBSET S, Cardinality(T) <= 0
        PROVE  g[T] = Body(p, base, seq, last, g, T)
    <3>1. T = {}
      BY <1>0, <2>2, FS_EmptySet
    <3> QED
      BY <2>1, <3>1 DEF Body
  <2> QED
    BY <1>1, <2>2
<1>3. ASSUME NEW k \in K
      PROVE  k + 1 \in K
  <2>1. k \in Nat
    BY <1>1
  <2>2. PICK g : \A T \in SUBSET S :
                   Cardinality(T) <= k => g[T] = Body(p, base, seq, last, g, T)
    BY <1>1
  <2>3. PICK h : h = [T \in SUBSET S |->
                        IF Cardinality(T) = k + 1 THEN Body(p, base, seq, last, g, T) ELSE g[T]]
    OBVIOUS
  <2>4. ASSUME NEW T \in SUBSET S, Cardinality(T) <= k + 1
        PROVE  h[T] = Body(p, base, seq, last, h, T)
    <3>1. h[T] = Body(p, base, seq, last, g, T)
      BY <1>0, <2>1, <2>2, <2>3, <2>4
    <3>2. CASE T = {}
      BY <3>1, <3>2 DEF Body
    <3>3. CASE T # {}
      <4>1. last[T] \in T
        BY <3>3
      <4>2. PICK U : U = T \ {last[T]}
        OBVIOUS
      <4>3. U \in SUBSET S /\ Cardinality(U) = Cardinality(T) - 1
        BY <1>0, <4>1, <4>2, FS_RemoveElement
      <4>4. Cardinality(U) # k + 1
        BY <1>0, <2>1, <2>4, <4>3
      <4>5. h[U] = g[U]
        BY <2>3, <4>3, <4>4
      <4> QED
        BY <3>1, <3>3, <4>2, <4>5 DEF Body
    <3> QED
      BY <3>2, <3>3
  <2> QED
    BY <1>1, <2>1, <2>4
<1>4. K = Nat
  <2>1. K \in SUBSET Nat
    BY <1>1
  <2>2. \A k \in K : k + 1 \in K
    BY <1>3
  <2> QED
    BY <1>2, <2>1, <2>2, NatSetInduction
<1>5. PICK g : \A T \in SUBSET S :
                 Cardinality(T) <= n => g[T] = Body(p, base, seq, last, g, T)
  BY <1>1, <1>4
<1>6. \A T \in SUBSET S : g[T] = Body(p, base, seq, last, g, T)
  BY <1>0, <1>5
<1>7. PICK h : h = [T \in SUBSET S |-> g[T]]
  OBVIOUS
<1>8. ASSUME NEW T \in SUBSET S
      PROVE  h[T] = Body(p, base, seq, last, h, T)
  <2>1. T \ {last[T]} \in SUBSET S
    OBVIOUS
  <2>2. h[T \ {last[T]}] = g[T \ {last[T]}] /\ h[T] = g[T]
    BY <1>7, <2>1
  <2> QED
    BY <1>6, <2>2 DEF Body
<1>9. Solves(p, base, seq, last, h, S)
  BY <1>7, <1>8 DEF Solves
<1> QED
  BY <1>9

-----------------------------------------------------------------------------
(* The fold of a sequence *)

Fold(p, base, seq) == FoldLeft(LAMBDA t, x : Op(p, t, x), base, seq)

\* f counts the steps of a fold.
Steps(p, f, base, seq, n) ==
  f[0] = base /\ \A k \in 0 .. n - 1 : f[k + 1] = Op(p, f[k], seq[k + 1])

\* A fold takes the elements one after the other.
LEMMA FoldRuns ==
  ASSUME NEW n \in Nat, NEW p, NEW base, NEW seq, DOMAIN seq = 1 .. n
  PROVE  \E f : Steps(p, f, base, seq, n) /\ Fold(p, base, seq) = f[n]
<1>1. PICK last : last = [T \in SUBSET (1 .. n) |-> Max(T)]
  OBVIOUS
<1>2. PICK g : /\ \A T \in SUBSET (1 .. n) : g[T] = Body(p, base, seq, last, g, T)
               /\ Fold(p, base, seq) = g[1 .. n]
  <2>1. PICK h : Solves(p, base, seq, last, h, 1 .. n)
    <3>1. IsFiniteSet(1 .. n)
      BY FS_Interval
    <3>2. \A T \in SUBSET (1 .. n) : T # {} => last[T] \in T
      BY <1>1, LastPosition
    <3> QED
      BY <3>1, <3>2, FoldExists
  <2>2. h = [T \in SUBSET (1 .. n) |->
               IF T = {} THEN base ELSE Op(p, h[T \ {Max(T)}], seq[Max(T)])]
    BY <1>1, <2>1 DEF Solves, Body
  <2>3. PICK g : g = CHOOSE f : f = [T \in SUBSET (1 .. n) |->
                       IF T = {} THEN base ELSE Op(p, f[T \ {Max(T)}], seq[Max(T)])]
    OBVIOUS
  <2>4. g = [T \in SUBSET (1 .. n) |->
               IF T = {} THEN base ELSE Op(p, g[T \ {Max(T)}], seq[Max(T)])]
    BY <2>2, <2>3
  <2>5. \A T \in SUBSET (1 .. n) : g[T] = Body(p, base, seq, last, g, T)
    BY <1>1, <2>4 DEF Body
  <2>6. Fold(p, base, seq) = g[1 .. n]
    BY <2>3 DEF Fold, FoldLeft, MapThenFoldSet
  <2> QED
    BY <2>5, <2>6
<1>3. g[1 .. 0] = base
  <2>1. 1 .. 0 = {}
    OBVIOUS
  <2>2. {} \in SUBSET (1 .. n)
    OBVIOUS
  <2>3. g[{}] = Body(p, base, seq, last, g, {})
    BY <1>2, <2>2
  <2> QED
    BY <2>1, <2>3 DEF Body
<1>4. ASSUME NEW k \in 0 .. n - 1
      PROVE  g[1 .. k + 1] = Op(p, g[1 .. k], seq[k + 1])
  <2>1. 1 .. k + 1 \in SUBSET (1 .. n) /\ 1 .. k + 1 # {} /\ k + 1 \in 1 .. k + 1
    <3>1. k \in Nat /\ k + 1 <= n /\ k + 1 \in 1 .. k + 1
      OBVIOUS
    <3>2. \A i \in 1 .. k + 1 : i \in 1 .. n
      BY <3>1
    <3> QED
      BY <3>1, <3>2
  <2>2. last[1 .. k + 1] = k + 1
    <3>1. Max(1 .. k + 1) \in 1 .. k + 1 /\ \A i \in 1 .. k + 1 : i <= Max(1 .. k + 1)
      BY <2>1, LastPosition
    <3>2. Max(1 .. k + 1) = k + 1
      BY <2>1, <3>1
    <3> QED
      BY <1>1, <2>1, <3>2
  <2>3. (1 .. k + 1) \ {k + 1} = 1 .. k
    OBVIOUS
  <2>4. g[1 .. k + 1] = Body(p, base, seq, last, g, 1 .. k + 1)
    BY <1>2, <2>1
  <2> QED
    BY <2>1, <2>2, <2>3, <2>4 DEF Body
<1>5. PICK f : f = [k \in 0 .. n |-> g[1 .. k]]
  OBVIOUS
<1>6. Steps(p, f, base, seq, n)
  <2>1. f[0] = base
    BY <1>5, <1>3
  <2>2. ASSUME NEW k \in 0 .. n - 1
        PROVE  f[k + 1] = Op(p, f[k], seq[k + 1])
    <3>1. k \in 0 .. n /\ k + 1 \in 0 .. n
      OBVIOUS
    <3> QED
      BY <1>5, <1>4, <3>1
  <2> QED
    BY <2>1, <2>2 DEF Steps
<1>7. Fold(p, base, seq) = f[n]
  BY <1>2, <1>5
<1> QED
  BY <1>6, <1>7

\* Two runs of a fold that take the same elements are in the same place.
LEMMA RunsAgree ==
  ASSUME NEW n \in Nat, NEW p, NEW base, NEW s, NEW t, NEW f, NEW g,
         Steps(p, f, base, s, n), Steps(p, g, base, t, n), \A i \in 1 .. n : s[i] = t[i]
  PROVE  \A k \in 0 .. n : f[k] = g[k]
<1>1. PICK S : S = {k \in Nat : k <= n => f[k] = g[k]}
  OBVIOUS
<1>2. 0 \in S
  BY <1>1 DEF Steps
<1>3. ASSUME NEW k \in S
      PROVE  k + 1 \in S
  <2>1. k \in Nat
    BY <1>1
  <2>2. CASE k + 1 <= n
    <3>1. k \in 0 .. n - 1 /\ k + 1 \in 1 .. n
      BY <2>1, <2>2
    <3>2. f[k + 1] = Op(p, f[k], s[k + 1]) /\ g[k + 1] = Op(p, g[k], t[k + 1])
      BY <3>1 DEF Steps
    <3>3. f[k] = g[k] /\ s[k + 1] = t[k + 1]
      BY <1>1, <2>1, <3>1
    <3> QED
      BY <1>1, <2>1, <3>2, <3>3
  <2> QED
    BY <1>1, <2>1, <2>2
<1> QED
  BY <1>1, <1>2, <1>3, NatSetInduction

-----------------------------------------------------------------------------
(* What the proofs use *)

\* The fold of nothing is the base.
THEOREM FoldOfNone == \A p, base : Fold(p, base, <<>>) = base
<1> SUFFICES ASSUME NEW p, NEW base
             PROVE  Fold(p, base, <<>>) = base
  OBVIOUS
<1>1. DOMAIN <<>> = 1 .. 0
  OBVIOUS
<1>2. PICK f : Steps(p, f, base, <<>>, 0) /\ Fold(p, base, <<>>) = f[0]
  BY <1>1, FoldRuns
<1> QED
  BY <1>2 DEF Steps

\* A fold takes the last element last.
THEOREM FoldOfAppend ==
  ASSUME NEW X, NEW s \in Seq(X), NEW x, NEW p, NEW base
  PROVE  Fold(p, base, Append(s, x)) = Op(p, Fold(p, base, s), x)
<1>1. PICK n : n = Len(s)
  OBVIOUS
<1>2. PICK t : t = Append(s, x)
  OBVIOUS
<1>3. n \in Nat /\ DOMAIN s = 1 .. n /\ DOMAIN t = 1 .. n + 1 /\ t[n + 1] = x
      /\ \A i \in 1 .. n : t[i] = s[i]
  BY <1>1, <1>2
<1>4. PICK f : Steps(p, f, base, s, n) /\ Fold(p, base, s) = f[n]
  BY <1>3, FoldRuns
<1>5. PICK g : Steps(p, g, base, t, n + 1) /\ Fold(p, base, t) = g[n + 1]
  BY <1>3, FoldRuns
<1>6. Steps(p, g, base, t, n) /\ g[n + 1] = Op(p, g[n], t[n + 1])
  BY <1>3, <1>5 DEF Steps
<1>7. f[n] = g[n]
  BY <1>3, <1>4, <1>6, RunsAgree
<1> QED
  BY <1>2, <1>3, <1>4, <1>5, <1>6, <1>7

\* A fold may take the first element before the others.
THEOREM FoldOfTail ==
  ASSUME NEW X, NEW s \in Seq(X), s # <<>>, NEW p, NEW base
  PROVE  Fold(p, base, s) = Fold(p, Op(p, base, Head(s)), Tail(s))
<1>1. PICK n : n = Len(s) - 1
  OBVIOUS
<1>2. PICK t : t = Tail(s)
  OBVIOUS
<1>3. /\ n \in Nat /\ DOMAIN s = 1 .. n + 1 /\ DOMAIN t = 1 .. n /\ Head(s) = s[1]
      /\ \A i \in 1 .. n : t[i] = s[i + 1]
  BY <1>1, <1>2
<1>4. PICK f : Steps(p, f, base, s, n + 1) /\ Fold(p, base, s) = f[n + 1]
  BY <1>3, FoldRuns
<1>5. PICK g : Steps(p, g, Op(p, base, Head(s)), t, n)
               /\ Fold(p, Op(p, base, Head(s)), t) = g[n]
  BY <1>3, FoldRuns
<1>6. PICK S : S = {k \in Nat : k <= n => g[k] = f[k + 1]}
  OBVIOUS
<1>7. 0 \in S
  <2>1. 0 \in 0 .. (n + 1) - 1
    BY <1>3
  <2>2. f[0 + 1] = Op(p, f[0], s[0 + 1])
    BY <1>4, <2>1 DEF Steps
  <2>3. g[0] = Op(p, base, s[1]) /\ f[0] = base
    BY <1>3, <1>4, <1>5 DEF Steps
  <2> QED
    BY <1>6, <2>2, <2>3
<1>8. ASSUME NEW k \in S
      PROVE  k + 1 \in S
  <2>1. k \in Nat
    BY <1>6
  <2>2. CASE k + 1 <= n
    <3>1. k \in 0 .. n - 1 /\ k + 1 \in 0 .. (n + 1) - 1 /\ k + 1 \in 1 .. n
      BY <1>3, <2>1, <2>2
    <3>2. g[k + 1] = Op(p, g[k], t[k + 1]) /\ f[(k + 1) + 1] = Op(p, f[k + 1], s[(k + 1) + 1])
      BY <1>4, <1>5, <3>1 DEF Steps
    <3>3. g[k] = f[k + 1] /\ t[k + 1] = s[(k + 1) + 1]
      BY <1>3, <1>6, <2>1, <2>2, <3>1
    <3> QED
      BY <1>6, <2>1, <3>2, <3>3
  <2> QED
    BY <1>6, <2>1, <2>2
<1>9. g[n] = f[n + 1]
  <2>1. n \in S
    BY <1>3, <1>6, <1>7, <1>8, NatSetInduction
  <2> QED
    BY <1>3, <1>6, <2>1
<1> QED
  BY <1>2, <1>4, <1>5, <1>9

\* A fold stays among the values that the operator keeps.
THEOREM FoldIsTyped ==
  ASSUME NEW X, NEW s \in Seq(X), NEW p, NEW V, NEW base \in V,
         \A v \in V, x \in X : Op(p, v, x) \in V
  PROVE  Fold(p, base, s) \in V
<1>1. PICK n : n = Len(s)
  OBVIOUS
<1>2. n \in Nat /\ DOMAIN s = 1 .. n /\ \A i \in 1 .. n : s[i] \in X
  BY <1>1
<1>3. PICK f : Steps(p, f, base, s, n) /\ Fold(p, base, s) = f[n]
  BY <1>2, FoldRuns
<1>4. PICK S : S = {k \in Nat : k <= n => f[k] \in V}
  OBVIOUS
<1>5. 0 \in S
  BY <1>3, <1>4 DEF Steps
<1>6. ASSUME NEW k \in S
      PROVE  k + 1 \in S
  <2>1. k \in Nat
    BY <1>4
  <2>2. CASE k + 1 <= n
    <3>1. k \in 0 .. n - 1 /\ k + 1 \in 1 .. n
      BY <1>2, <2>1, <2>2
    <3>2. f[k + 1] = Op(p, f[k], s[k + 1]) /\ f[k] \in V /\ s[k + 1] \in X
      BY <1>2, <1>3, <1>4, <2>1, <2>2, <3>1 DEF Steps
    <3> QED
      BY <1>4, <2>1, <3>2
  <2> QED
    BY <1>4, <2>1, <2>2
<1>7. n \in S
  BY <1>2, <1>4, <1>5, <1>6, NatSetInduction
<1> QED
  BY <1>2, <1>3, <1>4, <1>7

-----------------------------------------------------------------------------
(* The fold of a set, in any order *)

SetFold(p, base, S) == FoldSet(LAMBDA x, t : Op(p, t, x), base, S)

\* The fold of a set stays among the values that the operator keeps.
THEOREM SetFoldIsTyped ==
  ASSUME NEW S, IsFiniteSet(S), NEW p, NEW V, NEW base \in V,
         \A v \in V, x \in S : Op(p, v, x) \in V
  PROVE  SetFold(p, base, S) \in V
<1>1. PICK last : last = [T \in SUBSET S |-> CHOOSE x \in T : TRUE]
  OBVIOUS
<1>2. \A T \in SUBSET S : T # {} => last[T] \in T
  BY <1>1
<1>3. PICK seq : seq = [x \in S |-> x]
  OBVIOUS
<1>4. PICK g : /\ \A T \in SUBSET S : g[T] = Body(p, base, seq, last, g, T)
               /\ SetFold(p, base, S) = g[S]
  <2>1. PICK h : Solves(p, base, seq, last, h, S)
    BY <1>2, FoldExists
  <2>2. h = [T \in SUBSET S |->
               IF T = {} THEN base
               ELSE Op(p, h[T \ {CHOOSE x \in T : TRUE}], CHOOSE x \in T : TRUE)]
    <3>1. ASSUME NEW T \in SUBSET S
          PROVE  Body(p, base, seq, last, h, T)
                 = IF T = {} THEN base
                   ELSE Op(p, h[T \ {CHOOSE x \in T : TRUE}], CHOOSE x \in T : TRUE)
      <4>1. last[T] = CHOOSE x \in T : TRUE
        BY <1>1
      <4>2. T # {} => seq[last[T]] = last[T]
        BY <1>2, <1>3
      <4> QED
        BY <4>1, <4>2 DEF Body
    <3> QED
      BY <2>1, <3>1 DEF Solves
  <2>3. PICK g : g = CHOOSE f : f = [T \in SUBSET S |->
                       IF T = {} THEN base
                       ELSE Op(p, f[T \ {CHOOSE x \in T : TRUE}], CHOOSE x \in T : TRUE)]
    OBVIOUS
  <2>4. g = [T \in SUBSET S |->
               IF T = {} THEN base
               ELSE Op(p, g[T \ {CHOOSE x \in T : TRUE}], CHOOSE x \in T : TRUE)]
    BY <2>2, <2>3
  <2>5. \A T \in SUBSET S : g[T] = Body(p, base, seq, last, g, T)
    <3>1. ASSUME NEW T \in SUBSET S
          PROVE  g[T] = Body(p, base, seq, last, g, T)
      <4>1. last[T] = CHOOSE x \in T : TRUE
        BY <1>1
      <4>2. T # {} => seq[last[T]] = last[T]
        BY <1>2, <1>3
      <4> QED
        BY <2>4, <4>1, <4>2 DEF Body
    <3> QED
      BY <3>1
  <2>6. SetFold(p, base, S) = g[S]
    BY <2>3 DEF SetFold, FoldSet, MapThenFoldSet
  <2> QED
    BY <2>5, <2>6
<1>5. PICK K : K = {k \in Nat : \A T \in SUBSET S : Cardinality(T) = k => g[T] \in V}
  OBVIOUS
<1>6. \A T \in SUBSET S : IsFiniteSet(T) /\ Cardinality(T) \in Nat
  BY FS_Subset, FS_CardinalityType
<1>7. 0 \in K
  <2>1. ASSUME NEW T \in SUBSET S, Cardinality(T) = 0
        PROVE  g[T] \in V
    <3>1. T = {}
      BY <1>6, <2>1, FS_EmptySet
    <3> QED
      BY <1>4, <3>1 DEF Body
  <2> QED
    BY <1>5, <2>1
<1>8. ASSUME NEW k \in K
      PROVE  k + 1 \in K
  <2>1. k \in Nat
    BY <1>5
  <2>2. ASSUME NEW T \in SUBSET S, Cardinality(T) = k + 1
        PROVE  g[T] \in V
    <3>1. T # {}
      <4>1. Cardinality({}) = 0
        BY FS_EmptySet
      <4> QED
        BY <2>1, <2>2, <4>1
    <3>2. last[T] \in T /\ seq[last[T]] = last[T] /\ last[T] \in S
      BY <1>2, <1>3, <3>1
    <3>3. Cardinality(T \ {last[T]}) = k /\ T \ {last[T]} \in SUBSET S
      <4>1. Cardinality(T \ {last[T]}) = Cardinality(T) - 1
        BY <1>6, <3>2, FS_RemoveElement
      <4> QED
        BY <2>1, <2>2, <4>1
    <3>4. g[T \ {last[T]}] \in V
      BY <1>5, <3>3
    <3>5. g[T] = Op(p, g[T \ {last[T]}], last[T])
      BY <1>4, <3>1, <3>2 DEF Body
    <3> QED
      BY <3>2, <3>4, <3>5
  <2> QED
    BY <1>5, <2>1, <2>2
<1>9. K = Nat
  BY <1>5, <1>7, <1>8, NatSetInduction
<1> QED
  BY <1>4, <1>5, <1>6, <1>9
=============================================================================
