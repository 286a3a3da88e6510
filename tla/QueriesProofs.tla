--------------------------- MODULE QueriesProofs ---------------------------
(***************************************************************************)
(* What the functions of Queries compute for every input.                  *)
(*                                                                         *)
(* Each is a loop, written as a fold of the community modules.  The proofs *)
(* take induction from the fact that the naturals are well founded, and    *)
(* from it that a fold has a value and that its value is what the loop     *)
(* leaves in its variable: the lemmas called ...Loop state, for one loop   *)
(* each, what is in it before the first round and how a round changes it.  *)
(***************************************************************************)
EXTENDS Queries, SequenceTheorems, FiniteSetTheorems, WellFoundedInduction, TLAPS

----------------------------------------------------------------------------
\* Induction, and the least and the greatest of some positions.

\* A set of naturals has a least one.
LEMMA Least ==
    ASSUME NEW S \in SUBSET Nat, S # {}
    PROVE  Min(S) \in S /\ \A y \in S : Min(S) <= y
<1>1. IsWellFoundedOn({p \in Nat \X Nat : p[1] < p[2]}, Nat)
  BY NatLessThanWellFounded DEF OpToRel
<1>2. \E x \in S : \A y \in S : <<y, x>> \notin {p \in Nat \X Nat : p[1] < p[2]}
  BY <1>1, WFMin
<1>3. PICK x \in S : \A y \in S : ~(y < x)
  BY <1>2
<1>4. \A y \in S : x <= y
  BY <1>3
<1> QED
  BY <1>4 DEF Min

\* What holds at 0 and is handed from each number to the next, holds at n.
LEMMA Counting ==
    ASSUME NEW n \in Nat, NEW S, 0 \in S, \A i \in 1 .. n : i - 1 \in S => i \in S
    PROVE  n \in S
<1> DEFINE Out == {i \in 0 .. n : i \notin S}
<1> SUFFICES ASSUME n \in Out PROVE FALSE
  OBVIOUS
<1>1. Min(Out) \in Out /\ \A y \in Out : Min(Out) <= y
  <2>1. Out \in SUBSET Nat
    OBVIOUS
  <2> HIDE DEF Out
  <2> QED
    BY <2>1, Least
<1>2. PICK x \in Out : \A y \in Out : x <= y
  BY <1>1
<1>3. x \in 1 .. n /\ x \notin S
  BY <1>2
<1>4. x - 1 \in 0 .. n /\ ~(x <= x - 1)
  BY <1>3
<1>5. x - 1 \in S
  BY <1>2, <1>4
<1> QED
  BY <1>3, <1>5

\* A set of places has a last one.
LEMMA Greatest ==
    ASSUME NEW n \in Nat, NEW S \in SUBSET (1 .. n), S # {}
    PROVE  Max(S) \in S /\ \A y \in S : y <= Max(S)
<1> DEFINE Back == {n - y : y \in S}
<1>1. Back \in SUBSET Nat /\ Back # {}
  OBVIOUS
<1>2. PICK b \in Back : \A y \in Back : b <= y
  <2> HIDE DEF Back
  <2> QED
    BY <1>1, Least
<1>3. PICK x \in S : b = n - x
  BY <1>2
<1>4. \A y \in S : n - x <= n - y
  BY <1>2, <1>3
<1>5. \A y \in S : x >= y
  <2> HIDE DEF Back
  <2> SUFFICES ASSUME NEW y \in S PROVE x >= y
    OBVIOUS
  <2>1. x \in Int /\ y \in Int /\ n \in Int
    OBVIOUS
  <2>2. n - x <= n - y
    BY <1>4
  <2> QED
    BY <2>1, <2>2
<1>6. \A y \in S : Max(S) >= y
  BY <1>5 DEF Max
<1> QED
  BY <1>5, <1>6 DEF Max

\* The last of the first i places, and the others.
LEMMA Spans ==
    ASSUME NEW n \in Nat
    PROVE  /\ 1 .. 0 = {} /\ 1 .. 0 \in SUBSET (1 .. n)
           /\ \A i \in 1 .. n :
                /\ 1 .. i \in SUBSET (1 .. n) /\ 1 .. i # {}
                /\ Max(1 .. i) = i /\ (1 .. i) \ {i} = 1 .. (i - 1)
<1> SUFFICES ASSUME NEW i \in 1 .. n PROVE Max(1 .. i) = i
  OBVIOUS
<1>1. Max(1 .. i) \in 1 .. i /\ \A y \in 1 .. i : y <= Max(1 .. i)
  <2>1. i \in Nat /\ 1 .. i \in SUBSET (1 .. i) /\ 1 .. i # {}
    OBVIOUS
  <2> QED
    BY <2>1, Greatest
<1> DEFINE m == Max(1 .. i)
<1>2. m \in 1 .. i /\ i <= m
  BY <1>1
<1> HIDE DEF m
<1>3. m = i
  BY <1>2
<1> QED
  BY <1>3 DEF m

\* h gives the result of folding each subset of S, where pick[T] is taken last.
Folding(h, S, base, G, pick) ==
    \A T \in SUBSET S : h[T] = IF T = {} THEN base ELSE G[<<h[T \ {pick[T]}], pick[T]>>]

\* Folding over the subsets of a finite set: whichever element is taken first,
\* there is a function that gives the result for each.
LEMMA FoldExists ==
    ASSUME NEW S, IsFiniteSet(S), NEW A, NEW base \in A, NEW G \in [A \X S -> A],
           NEW pick \in [(SUBSET S) \ {{}} -> S],
           \A T \in (SUBSET S) \ {{}} : pick[T] \in T
    PROVE  \E h \in [SUBSET S -> A] : Folding(h, S, base, G, pick)
<1> DEFINE Next(h, T) == IF T = {} THEN base ELSE G[<<h[T \ {pick[T]}], pick[T]>>]
           Upto(h, k) == \A T \in SUBSET S : Cardinality(T) <= k => h[T] = Next(h, T)
           Done == {k \in Nat : \E h \in [SUBSET S -> A] : Upto(h, k)}
<1>1. \A T \in SUBSET S : Cardinality(T) \in Nat /\ (Cardinality(T) = 0 <=> T = {})
  BY FS_Subset, FS_CardinalityType, FS_EmptySet
<1>2. \A h \in [SUBSET S -> A], T \in SUBSET S : Next(h, T) \in A
  OBVIOUS
<1>3. 0 \in Done
  <2> DEFINE h == [T \in SUBSET S |-> base]
  <2>1. h \in [SUBSET S -> A]
    OBVIOUS
  <2>2. Upto(h, 0)
    BY <1>1
  <2> QED
    BY <2>1, <2>2
<1>4. \A k \in 1 .. Cardinality(S) : k - 1 \in Done => k \in Done
  <2> SUFFICES ASSUME NEW k \in 1 .. Cardinality(S),
                      NEW h \in [SUBSET S -> A], Upto(h, k - 1)
               PROVE  k \in Done
    OBVIOUS
  <2> DEFINE g == [T \in SUBSET S |-> Next(h, T)]
  <2>1. g \in [SUBSET S -> A]
    BY <1>2
  <2>2. \A T \in SUBSET S : Cardinality(T) <= k - 1 => g[T] = h[T]
    OBVIOUS
  <2>3. ASSUME NEW T \in SUBSET S, T # {}, Cardinality(T) <= k
        PROVE  g[T \ {pick[T]}] = h[T \ {pick[T]}]
    <3>1. T \ {pick[T]} \in SUBSET S /\ pick[T] \in T
      BY <2>3
    <3>2. IsFiniteSet(T)
      BY FS_Subset
    <3>3. Cardinality(T \ {pick[T]}) = Cardinality(T) - 1
      <4>1. \A x \in T : Cardinality(T \ {x}) = Cardinality(T) - 1
        BY <3>2, FS_RemoveElement
      <4> QED
        BY <3>1, <4>1
    <3>4. Cardinality(T \ {pick[T]}) <= k - 1
      BY <1>1, <2>3, <3>3
    <3> QED
      BY <2>2, <3>1, <3>4
  <2>4. Upto(g, k)
    BY <2>3
  <2>5. k \in Nat
    BY <1>1
  <2> QED
    BY <2>1, <2>4, <2>5
<1>5. Cardinality(S) \in Done
  <2>1. Cardinality(S) \in Nat
    BY FS_CardinalityType
  <2> HIDE DEF Done
  <2> QED
    BY <1>3, <1>4, <2>1, Counting
<1>6. PICK h \in [SUBSET S -> A] : Upto(h, Cardinality(S))
  BY <1>5
<1>7. \A T \in SUBSET S : Cardinality(T) <= Cardinality(S)
  BY FS_Subset
<1> QED
  BY <1>6, <1>7 DEF Folding

\* What FoldLeft looks up: the result for a set of places is that for all but
\* the last, changed by one round.
Looping(h, n, base, G) ==
    \A T \in SUBSET (1 .. n) : h[T] = IF T = {} THEN base ELSE G[<<h[T \ {Max(T)}], Max(T)>>]

\* There is a function that gives it.
LEMMA LoopExists ==
    ASSUME NEW n \in Nat, NEW A, NEW base \in A, NEW G \in [A \X (1 .. n) -> A]
    PROVE  \E h \in [SUBSET (1 .. n) -> A] : Looping(h, n, base, G)
<1> DEFINE S == 1 .. n
           last == [T \in (SUBSET S) \ {{}} |-> Max(T)]
<1>1. IsFiniteSet(S)
  BY FS_Interval
<1>2. \A T \in (SUBSET S) \ {{}} : last[T] \in T
  BY Greatest
<1>3. last \in [(SUBSET S) \ {{}} -> S]
  BY <1>2
<1>4. G \in [A \X S -> A]
  OBVIOUS
<1>5. PICK h \in [SUBSET S -> A] : Folding(h, S, base, G, last)
  <2> HIDE DEF S, last
  <2> QED
    BY <1>1, <1>2, <1>3, <1>4, FoldExists
<1> QED
  BY <1>5 DEF Folding, Looping

----------------------------------------------------------------------------
\* Where and the index: picking items.

\* What the loop of Picked does to its result.
LEMMA PickedLoop ==
    ASSUME NEW S, NEW items \in Seq(S), NEW wanted
    PROVE  \E result :
            /\ result[0] = <<>>
            /\ \A i \in 1 .. Len(items) : result[i] =
                    IF items[i] \in wanted THEN Append(result[i - 1], items[i]) ELSE result[i - 1]
            /\ Picked(items, wanted) = result[Len(items)]
<1> DEFINE n == Len(items)
           Round(found, i) == IF items[i] \in wanted THEN Append(found, items[i]) ELSE found
           G == [p \in Seq(S) \X (1 .. n) |-> Round(p[1], p[2])]
           Value(h) == h = [T \in SUBSET (1 .. n) |->
                            IF T = {} THEN <<>> ELSE Round(h[T \ {Max(T)}], Max(T))]
<1>1. n \in Nat /\ DOMAIN items = 1 .. n /\ \A i \in 1 .. n : items[i] \in S
  OBVIOUS
<1>2. G \in [Seq(S) \X (1 .. n) -> Seq(S)]
  BY <1>1
<1>3. <<>> \in Seq(S)
  OBVIOUS
<1>4. PICK f \in [SUBSET (1 .. n) -> Seq(S)] : Looping(f, n, <<>>, G)
  <2> HIDE DEF n, G
  <2> QED
    BY <1>1, <1>2, <1>3, LoopExists
<1>5. Value(f)
  <2>1. \A T \in (SUBSET (1 .. n)) \ {{}} : Max(T) \in 1 .. n
    BY <1>1, Greatest
  <2> QED
    BY <1>4, <2>1 DEF Looping
<1>6. PICK h : Value(h) /\ Picked(items, wanted) = h[1 .. n]
  BY <1>1, <1>5, Zenon DEF Picked, FoldLeft, MapThenFoldSet
<1> DEFINE result == [i \in 0 .. n |-> h[1 .. i]]
<1>7. result[0] = <<>>
  BY <1>1, <1>6, Spans
<1>8. ASSUME NEW i \in 1 .. n PROVE result[i] = Round(result[i - 1], i)
  <2>1. /\ 1 .. i \in SUBSET (1 .. n) /\ 1 .. i # {} /\ Max(1 .. i) = i
        /\ (1 .. i) \ {i} = 1 .. (i - 1)
    BY <1>1, Spans
  <2>2. \A T \in SUBSET (1 .. n) : T # {} => h[T] = Round(h[T \ {Max(T)}], Max(T))
    BY <1>6
  <2>3. h[1 .. i] = Round(h[1 .. (i - 1)], i)
    BY <2>1, <2>2
  <2> QED
    BY <1>1, <2>3
<1>9. Picked(items, wanted) = result[n]
  BY <1>1, <1>6
<1> QED
  BY <1>7, <1>8, <1>9

\* Each element of got is that at a place of items, in the order of the places.
Selection(p, got, items) ==
    /\ p \in [1 .. Len(got) -> 1 .. Len(items)]
    /\ \A i, j \in 1 .. Len(got) : i < j => p[i] < p[j]
    /\ \A i \in 1 .. Len(got) : got[i] = items[p[i]]

\* What is picked are the items that are wanted, each once, in their order.
LEMMA PickedIs ==
    ASSUME NEW S, NEW items \in Seq(S), NEW wanted
    PROVE  /\ Picked(items, wanted) \in Seq(S)
           /\ \E p : /\ Selection(p, Picked(items, wanted), items)
                     /\ \A j \in 1 .. Len(items) : items[j] \in wanted <=>
                            \E i \in 1 .. Len(Picked(items, wanted)) : p[i] = j
<1> DEFINE n == Len(items)
<1>1. n \in Nat /\ DOMAIN items = 1 .. n /\ \A i \in 1 .. n : items[i] \in S
  OBVIOUS
<1>2. PICK result :
        /\ result[0] = <<>>
        /\ \A i \in 1 .. n : result[i] =
                IF items[i] \in wanted THEN Append(result[i - 1], items[i]) ELSE result[i - 1]
        /\ Picked(items, wanted) = result[n]
  BY PickedLoop
<1> DEFINE Upto(p, got, i) ==
            /\ Selection(p, got, items)
            /\ \A k \in 1 .. Len(got) : p[k] <= i
            /\ \A j \in 1 .. i : items[j] \in wanted <=> \E k \in 1 .. Len(got) : p[k] = j
           Done == {i \in 0 .. n : result[i] \in Seq(S) /\ \E p : Upto(p, result[i], i)}
<1>3. 0 \in Done
  <2>1. <<>> \in Seq(S) /\ Len(<<>>) = 0
    OBVIOUS
  <2>2. \E p : Upto(p, <<>>, 0)
    <3>1. Upto(<<>>, <<>>, 0)
      BY <2>1 DEF Selection
    <3> HIDE DEF Upto
    <3> QED
      BY <3>1
  <2>3. result[0] \in Seq(S) /\ \E p : Upto(p, result[0], 0)
    <3> HIDE DEF Upto
    <3> QED
      BY <1>2, <2>1, <2>2
  <2>4. 0 \in 0 .. n
    BY <1>1
  <2> HIDE DEF Upto, n
  <2> QED
    BY <2>3, <2>4
<1>4. ASSUME NEW i \in 1 .. n, i - 1 \in Done
      PROVE  i \in Done
  <2> DEFINE got == result[i - 1]
  <2>1. i \in 0 .. n /\ i - 1 \in Nat /\ got \in Seq(S) /\ Len(got) \in Nat
    BY <1>1, <1>4
  <2>2. PICK p : Upto(p, got, i - 1)
    BY <1>4
  <2>3. \A k \in 1 .. Len(got) : p[k] \in 1 .. n /\ p[k] < i
    <3>1. p \in [1 .. Len(got) -> 1 .. n] /\ \A k \in 1 .. Len(got) : p[k] <= i - 1
      BY <2>2 DEF Selection
    <3> HIDE DEF got, n
    <3> SUFFICES ASSUME NEW k \in 1 .. Len(got) PROVE p[k] \in 1 .. n /\ p[k] < i
      OBVIOUS
    <3>2. p[k] \in 1 .. n /\ p[k] <= i - 1
      BY <3>1
    <3> QED
      BY <1>1, <3>2
  <2>4. CASE items[i] \notin wanted
    <3>1. result[i] = got
      BY <1>2, <2>4
    <3>2. Upto(p, got, i)
      <4>1. Selection(p, got, items) /\ \A k \in 1 .. Len(got) : p[k] <= i
        BY <2>2, <2>3
      <4>2. ~ \E k \in 1 .. Len(got) : p[k] = i
        BY <2>3
      <4>3. \A j \in 1 .. i : j \in 1 .. (i - 1) \/ j = i
        BY <1>1
      <4> HIDE DEF got, n
      <4> QED
        BY <2>2, <2>4, <4>1, <4>2, <4>3
    <3> QED
      BY <2>1, <3>1, <3>2
  <2>5. CASE items[i] \in wanted
    <3> DEFINE m == Len(got) + 1
               q == [k \in 1 .. m |-> IF k = m THEN i ELSE p[k]]
               next == Append(got, items[i])
    <3>1. result[i] = next
      BY <1>2, <2>5
    <3>2. /\ next \in Seq(S) /\ Len(next) = m /\ next[m] = items[i]
          /\ \A k \in 1 .. Len(got) : next[k] = got[k]
      BY <1>1, <2>1
    <3>3. Selection(q, next, items)
      <4>1. q \in [1 .. m -> 1 .. n] /\ \A k \in 1 .. m : next[k] = items[q[k]]
        BY <1>1, <2>1, <2>2, <3>2 DEF Selection
      <4>2. \A k, l \in 1 .. m : k < l => q[k] < q[l]
        <5> SUFFICES ASSUME NEW k \in 1 .. m, NEW l \in 1 .. m, k < l
                     PROVE  q[k] < q[l]
          OBVIOUS
        <5>1. k \in 1 .. Len(got) /\ q[k] = p[k]
          BY <2>1
        <5>2. CASE l = m
          BY <2>3, <5>1, <5>2
        <5>3. CASE l # m
          <6>1. l \in 1 .. Len(got) /\ q[l] = p[l]
            BY <2>1, <5>3
          <6> QED
            BY <2>2, <5>1, <6>1 DEF Selection
        <5> QED
          BY <5>2, <5>3
      <4> QED
        BY <3>2, <4>1, <4>2 DEF Selection
    <3>4. \A k \in 1 .. m : q[k] <= i
      <4>1. \A k \in 1 .. m : k = m \/ k \in 1 .. Len(got)
        BY <2>1
      <4>2. \A k \in 1 .. Len(got) : k \in 1 .. m /\ k # m /\ p[k] <= i
        BY <2>1, <2>3
      <4> QED
        BY <4>1, <4>2
    <3>5. ASSUME NEW j \in 1 .. i
          PROVE  items[j] \in wanted <=> \E k \in 1 .. m : q[k] = j
      <4>1. CASE j = i
        BY <2>1, <2>5, <4>1
      <4>2. CASE j # i
        <5>1. j \in 1 .. (i - 1)
          BY <4>2
        <5>2. (\E k \in 1 .. m : q[k] = j) <=> \E k \in 1 .. Len(got) : p[k] = j
          <6>1. \A k \in 1 .. Len(got) : k \in 1 .. m /\ q[k] = p[k]
            BY <2>1
          <6>2. q[m] = i /\ \A k \in 1 .. m : k = m \/ k \in 1 .. Len(got)
            BY <2>1
          <6> QED
            BY <4>2, <6>1, <6>2
        <5> QED
          BY <2>2, <5>1, <5>2
      <4> QED
        BY <4>1, <4>2
    <3>6. Upto(q, next, i)
      BY <3>2, <3>3, <3>4, <3>5
    <3> HIDE DEF Upto, q, next
    <3> QED
      BY <2>1, <3>1, <3>2, <3>6
  <2> QED
    BY <2>4, <2>5
<1>5. n \in Done
  <2> HIDE DEF Done, n
  <2> QED
    BY <1>1, <1>3, <1>4, Counting
<1> QED
  BY <1>1, <1>2, <1>5

\* No item is there twice.
Distinct(s) == \A i, j \in DOMAIN s : s[i] = s[j] => i = j

\* Then there are as many items as places.
LEMMA DistinctCount ==
    ASSUME NEW S, NEW s \in Seq(S), Distinct(s)
    PROVE  IsFiniteSet(ToSet(s)) /\ Cardinality(ToSet(s)) = Len(s)
<1>1. DOMAIN s = 1 .. Len(s) /\ Len(s) \in Nat
  OBVIOUS
<1>2. s \in [1 .. Len(s) -> ToSet(s)]
  BY <1>1 DEF ToSet
<1>3. s \in Bijection(1 .. Len(s), ToSet(s))
  BY <1>1, <1>2 DEF Bijection, Injection, Surjection, IsInjective, Distinct, ToSet
<1>4. ExistsBijection(1 .. Len(s), ToSet(s))
  BY <1>3 DEF ExistsBijection
<1> QED
  BY <1>1, <1>4, FS_NatBijection, FS_CountingElements

\* Picking gives exactly the wanted items, and none twice that was not.
LEMMA PickedSet ==
    ASSUME NEW S, NEW items \in Seq(S), NEW wanted
    PROVE  /\ Picked(items, wanted) \in Seq(S)
           /\ ToSet(Picked(items, wanted)) = ToSet(items) \cap wanted
           /\ Distinct(items) => Distinct(Picked(items, wanted))
<1> DEFINE got == Picked(items, wanted)
<1>1. got \in Seq(S)
  BY PickedIs
<1>2. PICK p : /\ Selection(p, got, items)
               /\ \A j \in 1 .. Len(items) : items[j] \in wanted <=>
                      \E i \in 1 .. Len(got) : p[i] = j
  BY PickedIs
<1> HIDE DEF got
<1>3. /\ DOMAIN items = 1 .. Len(items) /\ DOMAIN got = 1 .. Len(got)
      /\ Len(got) \in Nat
  BY <1>1
<1>4. \A i \in 1 .. Len(got) : p[i] \in 1 .. Len(items) /\ got[i] = items[p[i]]
  BY <1>2 DEF Selection
<1>5. ToSet(got) = ToSet(items) \cap wanted
  <2>1. ASSUME NEW x \in ToSet(got) PROVE x \in ToSet(items) \cap wanted
    <3>1. PICK i \in 1 .. Len(got) : x = got[i]
      BY <1>3 DEF ToSet
    <3> QED
      BY <1>2, <1>3, <1>4, <3>1 DEF ToSet
  <2>2. ASSUME NEW x \in ToSet(items) \cap wanted PROVE x \in ToSet(got)
    <3>1. PICK j \in 1 .. Len(items) : x = items[j] /\ items[j] \in wanted
      BY <1>3 DEF ToSet
    <3>2. PICK i \in 1 .. Len(got) : p[i] = j
      BY <1>2, <3>1
    <3> QED
      BY <1>3, <1>4, <3>1, <3>2 DEF ToSet
  <2> QED
    BY <2>1, <2>2
<1>6. ASSUME Distinct(items), NEW i \in 1 .. Len(got), NEW j \in 1 .. Len(got), got[i] = got[j]
      PROVE  i = j
  <2>1. p[i] = p[j]
    BY <1>3, <1>4, <1>6 DEF Distinct
  <2>2. p[i] \in Nat /\ p[j] \in Nat /\ ~(p[i] < p[j]) /\ ~(p[j] < p[i])
    BY <1>4, <2>1
  <2>3. ~(i < j) /\ ~(j < i)
    BY <1>2, <2>2 DEF Selection
  <2> QED
    BY <1>3, <2>3
<1> QED
  BY <1>1, <1>3, <1>5, <1>6 DEF got, Distinct

\* Picking keeps the order.
LEMMA PickedOrder ==
    ASSUME NEW S, NEW items \in Seq(S), Distinct(items), NEW wanted,
           NEW i \in DOMAIN Picked(items, wanted), NEW j \in DOMAIN Picked(items, wanted), i < j,
           NEW k \in DOMAIN items, items[k] = Picked(items, wanted)[i],
           NEW l \in DOMAIN items, items[l] = Picked(items, wanted)[j]
    PROVE  k < l
<1> DEFINE got == Picked(items, wanted)
<1>1. got \in Seq(S)
  BY PickedIs
<1>2. PICK p : Selection(p, got, items)
  BY PickedIs
<1> HIDE DEF got
<1>3. i \in 1 .. Len(got) /\ j \in 1 .. Len(got) /\ DOMAIN items = 1 .. Len(items)
  BY <1>1 DEF got
<1>4. p[i] = k /\ p[j] = l
  BY <1>2, <1>3 DEF Selection, Distinct, got
<1> QED
  BY <1>2, <1>3, <1>4 DEF Selection

\* An index splits the items: under each key are all items of that key, in
\* their order, and a key without items is not there.
LEMMA IndexSplits ==
    ASSUME NEW items \in Seq(Items), Distinct(items), NEW k
    PROVE  LET got == Get(Group(items), k)
               under == {item \in ToSet(items) : item.rank = k}
           IN  /\ HasKey(Group(items), k) <=> under # {}
               /\ CountFor(Group(items), k) = Cardinality(under)
               /\ got \in Seq(Items) /\ ToSet(got) = under
               /\ \A i, j \in DOMAIN got : \A n, m \in DOMAIN items :
                    i < j /\ items[n] = got[i] /\ items[m] = got[j] => n < m
<1> DEFINE got == Get(Group(items), k)
           under == {item \in ToSet(items) : item.rank = k}
<1>1. k \in DOMAIN Group(items) <=> under # {}
  <2>1. k \in DOMAIN Group(items) <=> \E i \in DOMAIN items : items[i].rank = k
    BY DEF Group, Keys
  <2> QED
    BY <2>1 DEF ToSet
<1>2. CASE under = {}
  <2>1. got = <<>>
    BY <1>1, <1>2 DEF Get
  <2>2. DOMAIN got = {} /\ got \in Seq(Items) /\ Len(got) = 0
    BY <2>1
  <2>3. ToSet(got) = under
    BY <1>2, <2>2 DEF ToSet
  <2>4. Cardinality(under) = 0
    BY <1>2, FS_EmptySet
  <2> QED
    BY <1>1, <2>2, <2>3, <2>4 DEF HasKey, CountFor
<1>3. CASE under # {}
  <2>1. got = Picked(items, under)
    BY <1>1, <1>3 DEF Get, Group
  <2>2. /\ got \in Seq(Items) /\ Distinct(got)
        /\ ToSet(got) = ToSet(items) \cap under
    BY <2>1, PickedSet
  <2>3. ToSet(got) = under
    BY <2>2
  <2>4. Cardinality(under) = Len(got)
    BY <2>2, <2>3, DistinctCount
  <2>5. \A i, j \in DOMAIN got : \A n, m \in DOMAIN items :
            i < j /\ items[n] = got[i] /\ items[m] = got[j] => n < m
    BY <2>1, PickedOrder
  <2> QED
    BY <1>1, <2>2, <2>3, <2>4, <2>5 DEF HasKey, CountFor
<1> QED
  BY <1>2, <1>3

----------------------------------------------------------------------------
\* The pipeline.

\* Limit and Offset take a part.
LEMMA PartIs ==
    ASSUME NEW S, NEW items \in Seq(S), NEW n \in Nat
    PROVE  /\ Limit(n, items) \in Seq(S)
           /\ Len(Limit(n, items)) = IF n >= Len(items) THEN Len(items) ELSE n
           /\ \A i \in 1 .. Len(Limit(n, items)) : Limit(n, items)[i] = items[i]
           /\ Offset(n, items) \in Seq(S)
           /\ Len(Offset(n, items)) = IF n >= Len(items) THEN 0 ELSE Len(items) - n
           /\ \A i \in 1 .. Len(Offset(n, items)) : Offset(n, items)[i] = items[n + i]
<1>1. Len(items) \in Nat /\ \A i \in 1 .. Len(items) : items[i] \in S
  OBVIOUS
<1>2. CASE n >= Len(items)
  BY <1>1, <1>2 DEF Limit, Offset
<1>3. CASE ~(n >= Len(items))
  <2>1. /\ SubSeq(items, 1, n) \in Seq(S) /\ Len(SubSeq(items, 1, n)) = n
        /\ \A i \in 1 .. n : SubSeq(items, 1, n)[i] = items[i]
    BY <1>1, <1>3
  <2> DEFINE m == Len(items)
  <2>2. /\ SubSeq(items, n + 1, m) \in Seq(S)
        /\ Len(SubSeq(items, n + 1, m)) = m - n
        /\ \A i \in 1 .. (m - n) : SubSeq(items, n + 1, m)[i] = items[n + i]
    BY <1>1, <1>3
  <2> QED
    BY <1>1, <1>3, <2>1, <2>2 DEF Limit, Offset
<1> QED
  BY <1>1, <1>2, <1>3

\* SortBy loses no item and adds none.
LEMMA SortedIs ==
    ASSUME NEW items \in Seq(Items), NEW sorted \in SortBy(items)
    PROVE  /\ sorted \in Seq(Items) /\ Len(sorted) = Len(items)
           /\ ToSet(sorted) = ToSet(items)
           /\ Distinct(items) => Distinct(sorted)
           /\ \A i, j \in 1 .. Len(items) : i < j => sorted[i].rank >= sorted[j].rank
<1> DEFINE n == Len(items)
<1>1. n \in Nat /\ DOMAIN items = 1 .. n /\ \A i \in 1 .. n : items[i] \in Items
  OBVIOUS
<1>2. PICK p \in [1 .. n -> 1 .. n] : IsInjective(p) /\ sorted = [i \in 1 .. n |-> items[p[i]]]
  BY <1>1 DEF SortBy
<1>3. \A i \in 1 .. n : \E j \in 1 .. n : p[j] = i
  <2>1. IsFiniteSet(1 .. n)
    BY <1>1, FS_Interval
  <2>2. p \in Injection(1 .. n, 1 .. n)
    BY <1>2 DEF Injection
  <2>3. p \in Surjection(1 .. n, 1 .. n)
    BY <2>1, <2>2, FS_Injection
  <2> QED
    BY <2>3 DEF Surjection
<1>4. sorted \in Seq(Items) /\ Len(sorted) = n /\ DOMAIN sorted = 1 .. n
  <2>1. DOMAIN sorted = 1 .. n /\ \A i \in 1 .. n : sorted[i] \in Items
    BY <1>1, <1>2
  <2>2. sorted = [i \in 1 .. n |-> sorted[i]]
    BY <1>2
  <2> HIDE DEF n
  <2>3. sorted \in [1 .. n -> Items]
    BY <2>1, <2>2
  <2>4. sorted \in Seq(Items)
    BY <1>1, <2>3, SeqDef
  <2> QED
    BY <1>1, <2>1, <2>4, LenProperties
<1>5. ToSet(sorted) = ToSet(items)
  BY <1>1, <1>2, <1>3, <1>4 DEF ToSet
<1>6. ASSUME Distinct(items), NEW i \in 1 .. n, NEW j \in 1 .. n, sorted[i] = sorted[j]
      PROVE  i = j
  <2>1. p[i] \in 1 .. n /\ p[j] \in 1 .. n /\ items[p[i]] = items[p[j]]
    BY <1>2, <1>6
  <2>2. p[i] = p[j]
    BY <1>1, <1>6, <2>1 DEF Distinct
  <2> QED
    BY <1>2, <2>2 DEF IsInjective
<1> QED
  BY <1>1, <1>4, <1>5, <1>6 DEF SortBy, Distinct

\* An option gives items that it was given, none more often than before.
LEMMA OptionIs ==
    ASSUME NEW items \in Seq(Items), NEW stage \in Stages, NEW r \in Option(stage, items)
    PROVE  /\ r \in Seq(Items) /\ ToSet(r) \subseteq ToSet(items)
           /\ Distinct(items) => Distinct(r)
<1>1. stage.op \in {"where", "sort", "limit", "offset"} /\ stage.n \in Nat
  BY DEF Stages
<1>2. CASE stage.op = "where"
  <2>1. r = Picked(items, {i \in ToSet(items) : i.rank >= stage.n})
    BY <1>2 DEF Option, Where
  <2> QED
    BY <2>1, PickedSet
<1>3. CASE stage.op = "sort"
  <2>1. r \in SortBy(items)
    BY <1>3 DEF Option
  <2> QED
    BY <2>1, SortedIs
<1>4. CASE stage.op = "limit"
  <2>1. r = Limit(stage.n, items)
    BY <1>4 DEF Option
  <2>2. /\ r \in Seq(Items) /\ Len(r) <= Len(items)
        /\ \A i \in 1 .. Len(r) : r[i] = items[i]
    BY <1>1, <2>1, PartIs
  <2>3. /\ DOMAIN items = 1 .. Len(items) /\ DOMAIN r = 1 .. Len(r)
        /\ \A i \in 1 .. Len(r) : i \in 1 .. Len(items)
    BY <2>2
  <2> QED
    BY <2>2, <2>3 DEF ToSet, Distinct
<1>5. CASE stage.op = "offset"
  <2>1. r = Offset(stage.n, items)
    BY <1>5 DEF Option
  <2>2. /\ r \in Seq(Items)
        /\ Len(r) = IF stage.n >= Len(items) THEN 0 ELSE Len(items) - stage.n
        /\ \A i \in 1 .. Len(r) : r[i] = items[stage.n + i]
    <3> DEFINE n == stage.n
    <3>1. n \in Nat /\ r = Offset(n, items)
      BY <1>1, <2>1
    <3> HIDE DEF n
    <3>2. /\ r \in Seq(Items)
          /\ Len(r) = IF n >= Len(items) THEN 0 ELSE Len(items) - n
          /\ \A i \in 1 .. Len(r) : r[i] = items[n + i]
      BY <3>1, PartIs
    <3> QED
      BY <3>2 DEF n
  <2>3. /\ DOMAIN items = 1 .. Len(items) /\ DOMAIN r = 1 .. Len(r)
        /\ \A i \in 1 .. Len(r) : stage.n + i \in 1 .. Len(items)
    BY <1>1, <2>2
  <2>4. \A i, j \in 1 .. Len(r) : stage.n + i = stage.n + j => i = j
    BY <1>1
  <2> QED
    BY <2>2, <2>3, <2>4 DEF ToSet, Distinct
<1> QED
  BY <1>1, <1>2, <1>3, <1>4, <1>5

\* What the loop of applyFilters does to the possible results.
LEMMA PipelineLoop ==
    ASSUME NEW items \in Seq(Items), NEW stages \in Seq(Stages)
    PROVE  \E results :
            /\ results[0] = {items}
            /\ \A i \in 1 .. Len(stages) : results[i] =
                    UNION {Option(stages[i], r) : r \in results[i - 1]}
            /\ applyFilters(items, stages) = results[Len(stages)]
<1> DEFINE n == Len(stages)
           A == SUBSET Seq(Items)
           Round(found, i) == UNION {Option(stages[i], r) : r \in found}
           G == [p \in A \X (1 .. n) |-> Round(p[1], p[2])]
           Value(h) == h = [T \in SUBSET (1 .. n) |->
                            IF T = {} THEN {items} ELSE Round(h[T \ {Max(T)}], Max(T))]
<1>1. n \in Nat /\ DOMAIN stages = 1 .. n /\ \A i \in 1 .. n : stages[i] \in Stages
  OBVIOUS
<1>2. G \in [A \X (1 .. n) -> A]
  <2>1. \A found \in A, i \in 1 .. n : Round(found, i) \in A
    BY <1>1, OptionIs
  <2> HIDE DEF Round, A
  <2> QED
    BY <2>1
<1>3. {items} \in A
  OBVIOUS
<1>4. PICK f \in [SUBSET (1 .. n) -> A] : Looping(f, n, {items}, G)
  <2> HIDE DEF n, G, A
  <2> QED
    BY <1>1, <1>2, <1>3, LoopExists
<1>5. Value(f)
  <2>1. \A T \in (SUBSET (1 .. n)) \ {{}} : Max(T) \in 1 .. n
    BY <1>1, Greatest
  <2> HIDE DEF Round, A, n
  <2> QED
    BY <1>4, <2>1 DEF Looping
<1>6. PICK h : Value(h) /\ applyFilters(items, stages) = h[1 .. n]
  BY <1>1, <1>5, Zenon DEF applyFilters, FoldLeft, MapThenFoldSet
<1> DEFINE results == [i \in 0 .. n |-> h[1 .. i]]
<1>7. results[0] = {items}
  BY <1>1, <1>6, Spans
<1>8. ASSUME NEW i \in 1 .. n PROVE results[i] = Round(results[i - 1], i)
  <2>1. /\ 1 .. i \in SUBSET (1 .. n) /\ 1 .. i # {} /\ Max(1 .. i) = i
        /\ (1 .. i) \ {i} = 1 .. (i - 1)
    BY <1>1, Spans
  <2>2. \A T \in SUBSET (1 .. n) : T # {} => h[T] = Round(h[T \ {Max(T)}], Max(T))
    BY <1>6
  <2> HIDE DEF Round
  <2>3. h[1 .. i] = Round(h[1 .. (i - 1)], i)
    BY <2>1, <2>2
  <2> QED
    BY <1>1, <2>3
<1>9. applyFilters(items, stages) = results[n]
  BY <1>1, <1>6
<1> QED
  BY <1>7, <1>8, <1>9

\* Whatever the options, what comes out of the pipeline went in, and no more
\* often.
LEMMA PipelineIs ==
    ASSUME NEW items \in Seq(Items), NEW stages \in Seq(Stages),
           NEW r \in applyFilters(items, stages)
    PROVE  /\ r \in Seq(Items) /\ ToSet(r) \subseteq ToSet(items)
           /\ Distinct(items) => Distinct(r)
<1> DEFINE n == Len(stages)
           Part(s) == /\ s \in Seq(Items) /\ ToSet(s) \subseteq ToSet(items)
                      /\ Distinct(items) => Distinct(s)
<1>1. n \in Nat /\ \A i \in 1 .. n : stages[i] \in Stages
  OBVIOUS
<1>2. PICK results :
        /\ results[0] = {items}
        /\ \A i \in 1 .. n : results[i] = UNION {Option(stages[i], s) : s \in results[i - 1]}
        /\ applyFilters(items, stages) = results[n]
  BY PipelineLoop
<1> DEFINE Done == {i \in 0 .. n : \A s \in results[i] : Part(s)}
<1>3. 0 \in Done
  BY <1>1, <1>2
<1>4. ASSUME NEW i \in 1 .. n, i - 1 \in Done PROVE i \in Done
  <2> SUFFICES ASSUME NEW s \in results[i] PROVE Part(s)
    OBVIOUS
  <2>1. PICK t \in results[i - 1] : s \in Option(stages[i], t)
    BY <1>2
  <2>2. Part(t)
    BY <1>4, <2>1
  <2> QED
    BY <1>1, <2>1, <2>2, OptionIs
<1>5. n \in Done
  <2>1. n \in Nat /\ \A i \in 1 .. n : i - 1 \in Done => i \in Done
    BY <1>1, <1>4
  <2> HIDE DEF Done, n
  <2> QED
    BY <1>3, <2>1, Counting
<1> QED
  BY <1>2, <1>5

\* The lesser of two numbers.
LEMMA MinOfTwo ==
    ASSUME NEW m \in Nat, NEW n \in Nat
    PROVE  Min({m, n}) = IF m <= n THEN m ELSE n
<1>1. /\ Min({m, n}) \in {m, n} /\ Min({m, n}) <= m /\ Min({m, n}) <= n
  BY Least
<1> QED
  BY <1>1

\* The pipeline where, sort, limit gives the best matching items: as many as
\* the limit allows, in order, with no better one left out.
LEMMA BestIs ==
    ASSUME NEW items \in Seq(Items), Distinct(items), NEW stages \in Seq(Stages),
           Len(stages) = 3,
           stages[1].op = "where", stages[2].op = "sort", stages[3].op = "limit",
           NEW got \in applyFilters(items, stages)
    PROVE  LET matching == {i \in ToSet(items) : i.rank >= stages[1].n}
           IN  /\ ToSet(got) \subseteq matching
               /\ Cardinality(ToSet(got)) = Len(got)
               /\ Len(got) = Min({stages[3].n, Cardinality(matching)})
               /\ \A i \in DOMAIN got : \A other \in matching :
                    other.rank > got[i].rank => \E j \in 1 .. i : got[j] = other
<1> DEFINE matching == {i \in ToSet(items) : i.rank >= stages[1].n}
           filtered == Picked(items, matching)
           limit == stages[3].n
<1>1. /\ 1 \in 1 .. 3 /\ 2 \in 1 .. 3 /\ 3 \in 1 .. 3 /\ 1 - 1 = 0 /\ 2 - 1 = 1 /\ 3 - 1 = 2
      /\ limit \in Nat
  <2>1. \A i \in 1 .. Len(stages) : stages[i] \in Stages
    BY ElementOfSeq
  <2>2. stages[3] \in Stages
    BY <2>1
  <2> QED
    BY <2>2 DEF Stages
<1>2. PICK results :
        /\ results[0] = {items}
        /\ \A i \in 1 .. 3 : results[i] = UNION {Option(stages[i], r) : r \in results[i - 1]}
        /\ applyFilters(items, stages) = results[3]
  <2>1. \E results :
            /\ results[0] = {items}
            /\ \A i \in 1 .. Len(stages) : results[i] =
                    UNION {Option(stages[i], r) : r \in results[i - 1]}
            /\ applyFilters(items, stages) = results[Len(stages)]
    BY PipelineLoop
  <2> QED
    BY <2>1
<1>3. /\ results[1] = UNION {Option(stages[1], r) : r \in results[0]}
      /\ results[2] = UNION {Option(stages[2], r) : r \in results[1]}
      /\ results[3] = UNION {Option(stages[3], r) : r \in results[2]}
  BY <1>1, <1>2
<1>4. \A r : r \in results[1] => r = filtered
  BY <1>2, <1>3 DEF Option, Where
<1>5. \A r : r \in results[2] => r \in SortBy(filtered)
  <2> HIDE DEF filtered
  <2> QED
    BY <1>3, <1>4 DEF Option
<1>6. PICK sorted \in SortBy(filtered) : got = Limit(limit, sorted)
  <2> HIDE DEF filtered
  <2>1. PICK r \in results[2] : got \in Option(stages[3], r)
    BY <1>2, <1>3
  <2> QED
    BY <1>5, <2>1 DEF Option
<1>7. filtered \in Seq(Items) /\ ToSet(filtered) = matching /\ Distinct(filtered)
  <2>1. ToSet(filtered) = ToSet(items) \cap matching
    BY PickedSet
  <2> QED
    BY <2>1, PickedSet
<1> HIDE DEF filtered
<1>8. /\ sorted \in Seq(Items) /\ ToSet(sorted) = matching /\ Distinct(sorted)
      /\ \A i, j \in 1 .. Len(sorted) : i < j => sorted[i].rank >= sorted[j].rank
  BY <1>7, SortedIs
<1>9. Cardinality(matching) = Len(sorted) /\ Len(sorted) \in Nat
  <2>1. Cardinality(ToSet(sorted)) = Len(sorted)
    BY <1>8, DistinctCount
  <2> QED
    BY <1>8, <2>1
<1>10. /\ got \in Seq(Items) /\ Len(got) = IF limit >= Len(sorted) THEN Len(sorted) ELSE limit
       /\ \A i \in 1 .. Len(got) : got[i] = sorted[i]
  BY <1>1, <1>6, <1>8, PartIs
<1>11. /\ DOMAIN got = 1 .. Len(got) /\ DOMAIN sorted = 1 .. Len(sorted)
       /\ \A i \in 1 .. Len(got) : i \in 1 .. Len(sorted)
  BY <1>1, <1>8, <1>9, <1>10
<1>12. ToSet(got) \subseteq matching /\ Distinct(got)
  <2>1. ToSet(got) \subseteq ToSet(sorted)
    BY <1>10, <1>11 DEF ToSet
  <2>2. Distinct(got)
    BY <1>8, <1>10, <1>11 DEF Distinct
  <2> QED
    BY <1>8, <2>1, <2>2
<1>13. Cardinality(ToSet(got)) = Len(got)
  BY <1>10, <1>12, DistinctCount
<1>14. Len(got) = Min({limit, Cardinality(matching)})
  <2>1. Min({limit, Len(sorted)}) = IF limit <= Len(sorted) THEN limit ELSE Len(sorted)
    BY <1>1, <1>9, MinOfTwo
  <2> HIDE DEF matching, limit
  <2> QED
    BY <1>1, <1>9, <1>10, <2>1
<1>15. ASSUME NEW i \in DOMAIN got, NEW other \in matching, other.rank > got[i].rank
       PROVE  \E j \in 1 .. i : got[j] = other
  <2>1. PICK j \in 1 .. Len(sorted) : other = sorted[j]
    BY <1>8, <1>11 DEF ToSet
  <2>2. sorted[i] = got[i] /\ i \in 1 .. Len(sorted)
    BY <1>10, <1>11
  <2>3. sorted[i] \in Items /\ sorted[j] \in Items
    BY <1>8, <2>1, <2>2
  <2>4. sorted[i].rank \in Nat /\ sorted[j].rank \in Nat
    BY <2>3, QueriesAssumption
  <2>5. ~(i < j) /\ i # j
    BY <1>8, <1>15, <2>1, <2>2, <2>4
  <2>6. j \in 1 .. i /\ j \in 1 .. Len(got)
    BY <1>9, <1>10, <1>11, <1>15, <2>1, <2>5
  <2> QED
    BY <1>10, <2>1, <2>6
<1> QED
  BY <1>12, <1>13, <1>14, <1>15

----------------------------------------------------------------------------
\* The index by value: sequences joined, and the length of what is joined.

\* Some sequences, one after the other.
LEMMA JoinedLoop ==
    ASSUME NEW S, NEW seqs \in Seq(Seq(S))
    PROVE  \E joined \in [0 .. Len(seqs) -> Seq(S)] :
            /\ joined[0] = <<>>
            /\ \A i \in 1 .. Len(seqs) : joined[i] = joined[i - 1] \o seqs[i]
            /\ FlattenSeq(seqs) = joined[Len(seqs)]
<1> DEFINE n == Len(seqs)
           A == Seq(S)
           G == [p \in A \X (1 .. n) |-> p[1] \o seqs[p[2]]]
           Value(h) == h = [i \in 1 .. n |-> IF i = 1 THEN seqs[i] ELSE h[i - 1] \o seqs[i]]
<1>1. n \in Nat /\ \A i \in 1 .. n : seqs[i] \in A
  OBVIOUS
<1>2. G \in [A \X (1 .. n) -> A]
  <2>1. \A found \in A, i \in 1 .. n : found \o seqs[i] \in A
    BY <1>1, ConcatProperties
  <2> HIDE DEF A
  <2> QED
    BY <2>1
<1>3. <<>> \in A
  OBVIOUS
<1>4. PICK f \in [SUBSET (1 .. n) -> A] : Looping(f, n, <<>>, G)
  <2> HIDE DEF n, G, A
  <2> QED
    BY <1>1, <1>2, <1>3, LoopExists
<1> DEFINE joined == [i \in 0 .. n |-> f[1 .. i]]
<1>5. joined \in [0 .. n -> A] /\ joined[0] = <<>>
  <2>1. \A i \in 0 .. n : 1 .. i \in SUBSET (1 .. n)
    BY <1>1
  <2>2. f[1 .. 0] = <<>>
    BY <1>1, <1>4, Spans DEF Looping
  <2>3. \A i \in 0 .. n : f[1 .. i] \in A
    <3> HIDE DEF A
    <3> QED
      BY <2>1
  <2> HIDE DEF A
  <2> QED
    BY <1>1, <2>2, <2>3
<1>6. ASSUME NEW i \in 1 .. n PROVE joined[i] = joined[i - 1] \o seqs[i]
  <2>1. /\ 1 .. i \in SUBSET (1 .. n) /\ 1 .. i # {} /\ Max(1 .. i) = i
        /\ (1 .. i) \ {i} = 1 .. (i - 1) /\ 1 .. (i - 1) \in SUBSET (1 .. n)
    BY <1>1, Spans
  <2>2. f[1 .. i] = G[<<f[1 .. (i - 1)], i>>]
    BY <1>4, <2>1 DEF Looping
  <2>3. f[1 .. (i - 1)] \in A
    BY <2>1
  <2> HIDE DEF A
  <2>4. f[1 .. i] = f[1 .. (i - 1)] \o seqs[i]
    BY <2>2, <2>3
  <2>5. joined[i] = f[1 .. i] /\ joined[i - 1] = f[1 .. (i - 1)]
    BY <1>1
  <2> HIDE DEF joined
  <2> QED
    BY <2>4, <2>5
<1> HIDE DEF joined
<1>7. CASE n = 0
  <2>1. FlattenSeq(seqs) = seqs /\ seqs = <<>>
    BY <1>7 DEF FlattenSeq
  <2> QED
    BY <1>5, <1>6, <1>7, <2>1
<1>8. CASE n # 0
  <2> DEFINE g == [i \in 1 .. n |-> joined[i]]
  <2>1. Value(g)
    <3>1. ASSUME NEW i \in 1 .. n
          PROVE  joined[i] = IF i = 1 THEN seqs[i] ELSE g[i - 1] \o seqs[i]
      <4>1. CASE i = 1
        <5>1. joined[1] = <<>> \o seqs[1]
          <6>1. joined[i] = joined[i - 1] \o seqs[i]
            BY <1>6
          <6>2. i - 1 = 0
            BY <4>1
          <6> QED
            BY <1>5, <4>1, <6>1, <6>2
        <5> QED
          BY <1>1, <4>1, <5>1
      <4>2. CASE i # 1
        <5>1. i - 1 \in 1 .. n
          BY <1>1, <4>2
        <5> QED
          BY <1>6, <4>2, <5>1
      <4> QED
        BY <4>1, <4>2
    <3> QED
      BY <3>1
  <2>2. PICK h : Value(h) /\ FlattenSeq(seqs) = h[n]
    <3> HIDE DEF g
    <3> QED
      BY <1>8, <2>1, Zenon DEF FlattenSeq
  <2> DEFINE Same == {0} \cup {i \in 1 .. n : h[i] = joined[i]}
  <2>3. ASSUME NEW i \in 1 .. n, i - 1 \in Same PROVE i \in Same
    <3>1. CASE i = 1
      <4>1. h[1] = seqs[1] /\ g[1] = seqs[1]
        BY <1>1, <2>1, <2>2, <3>1
      <4> QED
        BY <3>1, <4>1
    <3>2. CASE i # 1
      <4>1. i - 1 \in 1 .. n /\ h[i - 1] = joined[i - 1]
        BY <1>1, <2>3, <3>2
      <4>2. h[i] = h[i - 1] \o seqs[i]
        BY <2>2, <3>2
      <4> QED
        BY <1>6, <4>1, <4>2
    <3> QED
      BY <3>1, <3>2
  <2>4. n \in Same
    <3>1. 0 \in Same
      OBVIOUS
    <3> HIDE DEF Same, n
    <3> QED
      BY <1>1, <2>3, <3>1, Counting
  <2>5. h[n] = joined[n]
    BY <1>8, <2>4
  <2> QED
    BY <1>5, <1>6, <2>2, <2>5
<1> QED
  BY <1>7, <1>8

\* They have together what each of them has.
LEMMA JoinedIs ==
    ASSUME NEW S, NEW seqs \in Seq(Seq(S))
    PROVE  /\ FlattenSeq(seqs) \in Seq(S)
           /\ ToSet(FlattenSeq(seqs)) = UNION {ToSet(seqs[i]) : i \in 1 .. Len(seqs)}
<1> DEFINE n == Len(seqs)
           Reached(x, i) == \E j \in 1 .. i : x \in ToSet(seqs[j])
<1>1. n \in Nat /\ \A i \in 1 .. n : seqs[i] \in Seq(S)
  OBVIOUS
<1>2. PICK joined \in [0 .. n -> Seq(S)] :
        /\ joined[0] = <<>>
        /\ \A i \in 1 .. n : joined[i] = joined[i - 1] \o seqs[i]
        /\ FlattenSeq(seqs) = joined[n]
  BY JoinedLoop
<1> DEFINE Done == {i \in 0 .. n : \A x : x \in ToSet(joined[i]) <=> Reached(x, i)}
<1>3. 0 \in Done
  BY <1>1, <1>2 DEF ToSet
<1>4. ASSUME NEW i \in 1 .. n, i - 1 \in Done PROVE i \in Done
  <2>1. i - 1 \in 0 .. n /\ i \in 0 .. n
    BY <1>1
  <2>2. ToSet(joined[i]) = ToSet(joined[i - 1]) \cup ToSet(seqs[i])
    <3>1. /\ joined[i - 1] \in Seq(S) /\ seqs[i] \in Seq(S)
          /\ joined[i] = joined[i - 1] \o seqs[i]
      <4> HIDE DEF n
      <4> QED
        BY <1>1, <1>2, <2>1
    <3>2. \A s : ToSet(s) = Range(s)
      BY DEF ToSet, Range
    <3> QED
      BY <3>1, <3>2, RangeConcatenation
  <2>3. ASSUME NEW x PROVE Reached(x, i) <=> Reached(x, i - 1) \/ x \in ToSet(seqs[i])
    <3>1. \A j : j \in 1 .. i <=> j \in 1 .. (i - 1) \/ j = i
      BY <1>1
    <3> QED
      BY <3>1
  <2> HIDE DEF Reached
  <2> QED
    BY <1>4, <2>1, <2>2, <2>3
<1>5. n \in Done
  <2> HIDE DEF Done, n
  <2> QED
    BY <1>1, <1>3, <1>4, Counting
<1> QED
  BY <1>1, <1>2, <1>5

\* h gives the sum of the weights for each subset of S, where pick[T] is added last.
Summing(h, S, weight, pick) ==
    /\ h[{}] = 0
    /\ \A T \in (SUBSET S) \ {{}} :
        pick[T] \in T /\ h[T] = h[T \ {pick[T]}] + weight[pick[T]]

AnyLast(h, S, weight) ==
    \A T \in SUBSET S : h[T] \in Nat /\ \A x \in T : h[T] = h[T \ {x}] + weight[x]

\* The sum is the same whichever element is added last.
LEMMA SumAnyOrder ==
    ASSUME NEW S, IsFiniteSet(S), NEW weight \in [S -> Nat], NEW h, NEW pick,
           Summing(h, S, weight, pick)
    PROVE  AnyLast(h, S, weight)
<1> DEFINE Alike(T) == h[T] \in Nat /\ \A x \in T : h[T] = h[T \ {x}] + weight[x]
           Done == {k \in Nat : \A T \in SUBSET S : Cardinality(T) <= k => Alike(T)}
<1>1. \A T \in SUBSET S : /\ Cardinality(T) \in Nat /\ Cardinality(T) <= Cardinality(S)
                          /\ (Cardinality(T) <= 0 <=> T = {})
                          /\ \A U \in SUBSET T : U # T => Cardinality(U) < Cardinality(T)
  BY FS_Subset, FS_CardinalityType, FS_EmptySet
<1>2. Alike({}) /\ 0 \in Done
  <2>1. Alike({})
    BY DEF Summing
  <2> HIDE DEF Alike
  <2> QED
    BY <1>1, <2>1
<1>3. ASSUME NEW k \in Nat \ {0}, k - 1 \in Done PROVE k \in Done
  <2> SUFFICES ASSUME NEW T \in SUBSET S, Cardinality(T) <= k, T # {} PROVE Alike(T)
    BY <1>2
  <2> DEFINE y == pick[T]
  <2>1. y \in T /\ h[T] = h[T \ {y}] + weight[y]
    BY DEF Summing
  <2>2. ASSUME NEW U \in SUBSET T, U # T PROVE Alike(U)
    <3>1. U \in SUBSET S /\ Cardinality(U) <= k - 1
      BY <1>1, <2>2
    <3> QED
      BY <1>3, <3>1
  <2> HIDE DEF y
  <2>3. h[T] \in Nat
    <3>1. h[T \ {y}] \in Nat /\ weight[y] \in Nat
      BY <2>1, <2>2
    <3> QED
      BY <2>1, <3>1
  <2>4. ASSUME NEW x \in T, x # y PROVE h[T] = h[T \ {x}] + weight[x]
    <3> DEFINE both == (T \ {x}) \ {y}
    <3>1. h[T \ {y}] = h[both] + weight[x]
      <4>1. Alike(T \ {y})
        BY <2>1, <2>2
      <4>2. x \in T \ {y} /\ (T \ {y}) \ {x} = both
        BY <2>4
      <4> QED
        BY <4>1, <4>2
    <3>2. h[T \ {x}] = h[both] + weight[y]
      <4>1. Alike(T \ {x})
        BY <2>2
      <4> QED
        BY <2>1, <2>4, <4>1
    <3>3. h[both] \in Nat /\ weight[x] \in Nat /\ weight[y] \in Nat
      BY <2>1, <2>2
    <3> HIDE DEF both
    <3> QED
      BY <2>1, <3>1, <3>2, <3>3
  <2> QED
    BY <2>1, <2>3, <2>4
<1>4. ASSUME NEW T \in SUBSET S PROVE Alike(T)
  <2>1. Cardinality(T) \in Nat
    BY <1>1
  <2>2. Cardinality(T) \in Done
    <3> HIDE DEF Done
    <3>1. \A k \in 1 .. Cardinality(T) : k - 1 \in Done => k \in Done
      BY <1>3, <2>1
    <3> QED
      BY <1>2, <2>1, <3>1, Counting
  <2> HIDE DEF Alike
  <2> QED
    BY <2>1, <2>2
<1> QED
  BY <1>4 DEF AnyLast

\* The translations of some items, joined, are as many as all of them have.
LEMMA TextsCount ==
    ASSUME NEW s \in Seq(Items), Distinct(s)
    PROVE  LET texts == [i \in DOMAIN s |-> s[i].translations]
           IN  /\ texts \in Seq(Seq(Texts))
               /\ Len(FlattenSeq(texts)) =
                    FoldSet(LAMBDA i, n : n + Len(i.translations), 0, ToSet(s))
<1> DEFINE n == Len(s)
           S == ToSet(s)
           texts == [i \in DOMAIN s |-> s[i].translations]
           weight == [x \in S |-> Len(x.translations)]
           pick == [T \in (SUBSET S) \ {{}} |-> CHOOSE x \in T : TRUE]
           Sum == FoldSet(LAMBDA i, m : m + Len(i.translations), 0, S)
           Round(m, x) == m + Len(x.translations)
           Value(h) == h = [T \in SUBSET S |->
                            IF T = {} THEN 0
                            ELSE Round(h[T \ {CHOOSE x \in T : TRUE}], CHOOSE x \in T : TRUE)]
           G == [p \in Nat \X S |-> p[1] + weight[p[2]]]
<1>1. n \in Nat /\ DOMAIN s = 1 .. n /\ (\A i \in 1 .. n : s[i] \in Items) /\ IsFiniteSet(S)
  BY DistinctCount
<1>2. \A x \in S : x.translations \in Seq(Texts)
  BY <1>1, QueriesAssumption DEF ToSet
<1>3. weight \in [S -> Nat]
  <2>1. \A x \in S : Len(x.translations) \in Nat
    BY <1>2
  <2> HIDE DEF S
  <2> QED
    BY <2>1
<1>4. texts \in Seq(Seq(Texts)) /\ Len(texts) = n /\ \A i \in 1 .. n : texts[i] = s[i].translations
  <2>1. \A i \in 1 .. n : s[i].translations \in Seq(Texts)
    BY <1>1, QueriesAssumption
  <2>2. texts \in [1 .. n -> Seq(Texts)]
    BY <1>1, <2>1
  <2> QED
    BY <1>1, <2>2
<1> HIDE DEF S, weight
<1>5. (\A T \in (SUBSET S) \ {{}} : pick[T] \in T) /\ pick \in [(SUBSET S) \ {{}} -> S]
  OBVIOUS
<1>6. PICK f \in [SUBSET S -> Nat] : Folding(f, S, 0, G, pick)
  <2>1. G \in [Nat \X S -> Nat] /\ 0 \in Nat
    BY <1>3
  <2> HIDE DEF G, pick
  <2> QED
    BY <1>1, <1>5, <2>1, FoldExists
<1>7. Value(f)
  <2>1. ASSUME NEW T \in SUBSET S, T # {}
        PROVE  f[T] = Round(f[T \ {CHOOSE x \in T : TRUE}], CHOOSE x \in T : TRUE)
    <3> DEFINE y == CHOOSE x \in T : TRUE
    <3>1. y \in T /\ pick[T] = y
      BY <2>1
    <3>2. f[T] = G[<<f[T \ {y}], y>>]
      BY <1>6, <2>1, <3>1 DEF Folding
    <3> HIDE DEF y
    <3>3. f[T] = f[T \ {y}] + weight[y] /\ weight[y] = Len(y.translations)
      BY <3>1, <3>2 DEF weight
    <3> QED
      BY <3>3 DEF y
  <2>2. f[{}] = 0
    BY <1>6 DEF Folding
  <2> HIDE DEF Round
  <2> QED
    BY <2>1, <2>2
<1>8. PICK h : Value(h) /\ Sum = h[S]
  BY <1>7, ZenonT(30) DEF FoldSet, MapThenFoldSet
<1>9. \A T \in SUBSET S : h[T] \in Nat /\ \A x \in T : h[T] = h[T \ {x}] + weight[x]
  <2>1. ASSUME NEW T \in (SUBSET S) \ {{}}
        PROVE  pick[T] \in T /\ h[T] = h[T \ {pick[T]}] + weight[pick[T]]
    <3>1. pick[T] = CHOOSE x \in T : TRUE
      OBVIOUS
    <3>2. h[T] = Round(h[T \ {pick[T]}], pick[T])
      <4> HIDE DEF Round, pick
      <4> QED
        BY <1>8, <3>1
    <3> HIDE DEF pick
    <3> QED
      BY <1>5, <3>2 DEF weight
  <2>2. h[{}] = 0
    BY <1>8
  <2>3. Summing(h, S, weight, pick)
    <3> HIDE DEF pick
    <3> QED
      BY <2>1, <2>2 DEF Summing
  <2> HIDE DEF pick, Value
  <2>4. AnyLast(h, S, weight)
    BY <1>1, <1>3, <2>3, SumAnyOrder
  <2> QED
    BY <2>4 DEF AnyLast
<1>10. h[{}] = 0
  BY <1>8
<1> HIDE DEF Value, pick, G, Round, Sum
<1>11. PICK joined \in [0 .. n -> Seq(Texts)] :
        /\ joined[0] = <<>>
        /\ \A i \in 1 .. n : joined[i] = joined[i - 1] \o texts[i]
        /\ FlattenSeq(texts) = joined[n]
  <2> HIDE DEF texts, n
  <2> QED
    BY <1>4, JoinedLoop
<1> DEFINE Before(i) == {s[j] : j \in 1 .. i}
           Done == {i \in 0 .. n : Len(joined[i]) = h[Before(i)]}
<1>12. 0 \in Done
  <2>1. Before(0) = {} /\ Len(<<>>) = 0 /\ 0 \in 0 .. n
    BY <1>1
  <2> HIDE DEF Before, n
  <2> QED
    BY <1>10, <1>11, <2>1
<1>13. ASSUME NEW i \in 1 .. n, i - 1 \in Done PROVE i \in Done
  <2>1. Before(i) \in SUBSET S /\ s[i] \in Before(i)
    <3>1. \A j \in 1 .. i : j \in DOMAIN s
      BY <1>1
    <3>2. i \in 1 .. i
      BY <1>1
    <3> QED
      BY <3>1, <3>2 DEF S, ToSet
  <2>2. Before(i) \ {s[i]} = Before(i - 1)
    <3>1. \A j \in 1 .. n : s[j] = s[i] => j = i
      BY <1>1 DEF Distinct
    <3>2. \A j \in 1 .. i : j \in 1 .. n /\ (j \in 1 .. (i - 1) <=> j # i)
      BY <1>1
    <3>3. \A j \in 1 .. (i - 1) : j \in 1 .. i /\ j # i
      BY <1>1
    <3> QED
      BY <3>1, <3>2, <3>3
  <2>3. h[Before(i)] = h[Before(i - 1)] + Len(texts[i])
    <3>1. h[Before(i)] = h[Before(i) \ {s[i]}] + weight[s[i]]
      BY <1>9, <2>1
    <3>2. weight[s[i]] = Len(texts[i])
      BY <1>4, <2>1 DEF weight
    <3> QED
      BY <2>2, <3>1, <3>2
  <2>4. i \in 0 .. n /\ i - 1 \in 0 .. n
    BY <1>1
  <2>5. Len(joined[i]) = Len(joined[i - 1]) + Len(texts[i])
    <3>1. joined[i - 1] \in Seq(Texts) /\ texts[i] \in Seq(Texts)
      <4>1. joined[i - 1] \in Seq(Texts)
        <5> HIDE DEF n
        <5> QED
          BY <2>4
      <4>2. texts[i] \in Seq(Texts)
        <5> HIDE DEF texts, n
        <5> QED
          BY <1>4, ElementOfSeq
      <4> QED
        BY <4>1, <4>2
    <3>2. joined[i] = joined[i - 1] \o texts[i]
      BY <1>11
    <3> HIDE DEF texts
    <3> QED
      BY <3>1, <3>2, ConcatProperties
  <2>6. Len(joined[i - 1]) = h[Before(i - 1)]
    BY <1>13
  <2> HIDE DEF Before, texts, n
  <2> QED
    BY <2>3, <2>4, <2>5, <2>6
<1>14. n \in Done
  <2> HIDE DEF Done, n
  <2> QED
    BY <1>1, <1>12, <1>13, Counting
<1>15. Before(n) = S
  BY <1>1 DEF S, ToSet
<1>16. Len(FlattenSeq(texts)) = Sum
  <2> HIDE DEF Sum, texts, Before
  <2> QED
    BY <1>8, <1>11, <1>14, <1>15
<1> QED
  BY <1>4, <1>16 DEF S, Sum

\* The values of an index by value: all those of the key's items, and so many.
LEMMA ValuesSplit ==
    ASSUME NEW items \in Seq(Items), Distinct(items)
    PROVE  LET index == GroupValues(items)
               under == [k \in DOMAIN index |-> {i \in ToSet(items) : i.rank = k}]
           IN  /\ DOMAIN index = {i.rank : i \in ToSet(items)}
               /\ \A k \in DOMAIN index :
                    /\ ToSet(index[k]) = UNION {ToSet(i.translations) : i \in under[k]}
                    /\ Len(index[k]) =
                        FoldSet(LAMBDA i, n : n + Len(i.translations), 0, under[k])
<1> DEFINE index == GroupValues(items)
           Under(k) == {i \in ToSet(items) : i.rank = k}
           Sum(S) == FoldSet(LAMBDA i, n : n + Len(i.translations), 0, S)
<1>1. DOMAIN index = {i.rank : i \in ToSet(items)}
  BY DEF GroupValues, Keys, ToSet
<1>2. ASSUME NEW k \in DOMAIN index
      PROVE  /\ ToSet(index[k]) = UNION {ToSet(i.translations) : i \in Under(k)}
             /\ Len(index[k]) = Sum(Under(k))
  <2> DEFINE got == Picked(items, Under(k))
             texts == [i \in DOMAIN got |-> got[i].translations]
  <2>1. index[k] = FlattenSeq(texts)
    <3>1. k \in Keys(items) /\ Group(items)[k] = got
      BY DEF GroupValues, Group
    <3> QED
      BY <3>1 DEF GroupValues
  <2>2. got \in Seq(Items) /\ Distinct(got) /\ ToSet(got) = Under(k)
    <3>1. ToSet(got) = ToSet(items) \cap Under(k)
      BY PickedSet
    <3> QED
      BY <3>1, PickedSet
  <2> HIDE DEF got
  <2>3. texts \in Seq(Seq(Texts)) /\ Len(FlattenSeq(texts)) = Sum(ToSet(got))
    BY <2>2, TextsCount
  <2>4. ToSet(FlattenSeq(texts)) = UNION {ToSet(texts[i]) : i \in 1 .. Len(texts)}
    <3> HIDE DEF texts
    <3> QED
      BY <2>3, JoinedIs
  <2>5. {ToSet(texts[i]) : i \in 1 .. Len(texts)} = {ToSet(i.translations) : i \in ToSet(got)}
    <3>1. DOMAIN texts = DOMAIN got /\ \A i \in DOMAIN got : texts[i] = got[i].translations
      OBVIOUS
    <3>2. DOMAIN texts = 1 .. Len(texts)
      <4> HIDE DEF texts
      <4> QED
        BY <2>3, LenProperties
    <3> HIDE DEF texts
    <3> QED
      BY <3>1, <3>2 DEF ToSet
  <2> HIDE DEF Under, index, Sum, texts
  <2> QED
    BY <2>1, <2>2, <2>3, <2>4, <2>5
<1> HIDE DEF index
<1> QED
  BY <1>1, <1>2 DEF index

----------------------------------------------------------------------------
\* The related entities, and the composite: what is kept is the first of its
\* kind.

\* No two of the same kind.
OneOfEach(s, key) == \A i, j \in DOMAIN s : key[s[i]] = key[s[j]] => i = j
\* One of that kind is there.
HasKind(s, key, k) == \E i \in DOMAIN s : key[s[i]] = k

\* A loop that appends what is new, after n rounds.
Gathering(result, n, more, key) ==
    \A i \in 1 .. n : result[i] =
        IF HasKind(result[i - 1], key, key[more[i]]) THEN result[i - 1]
        ELSE Append(result[i - 1], more[i])

\* All that it started with is there, all that it was given is there or one of
\* its kind is, and there is nothing else and, if there was not, nothing twice.
Gathered(all, found, more, key) ==
    /\ ToSet(found) \subseteq ToSet(all)
    /\ \A x \in ToSet(more) : HasKind(all, key, key[x])
    /\ \A x \in ToSet(all) :
            x \in ToSet(found) \/ (x \in ToSet(more) /\ ~HasKind(found, key, key[x]))
    /\ OneOfEach(found, key) => OneOfEach(all, key)

\* One round of it.
LEMMA GatherOne ==
    ASSUME NEW S, NEW all \in Seq(S), NEW x \in S, NEW key
    PROVE  LET next == IF HasKind(all, key, key[x]) THEN all ELSE Append(all, x)
           IN  /\ next \in Seq(S) /\ HasKind(next, key, key[x])
               /\ \A k : HasKind(all, key, k) => HasKind(next, key, k)
               /\ ToSet(all) \subseteq ToSet(next)
               /\ \A y \in ToSet(next) :
                    y \in ToSet(all) \/ (y = x /\ ~HasKind(all, key, key[x]))
               /\ OneOfEach(all, key) => OneOfEach(next, key)
<1>1. CASE HasKind(all, key, key[x])
  BY <1>1
<1>2. CASE ~HasKind(all, key, key[x])
  <2> DEFINE next == Append(all, x)
             n == Len(all)
  <2>1. /\ next \in Seq(S) /\ n \in Nat /\ DOMAIN all = 1 .. n /\ DOMAIN next = 1 .. (n + 1)
        /\ next[n + 1] = x /\ \A i \in 1 .. n : next[i] = all[i]
    OBVIOUS
  <2> HIDE DEF next, n
  <2>2. \A i : i \in 1 .. (n + 1) <=> i \in 1 .. n \/ i = n + 1
    BY <2>1
  <2>3. HasKind(next, key, key[x]) /\ \A k : HasKind(all, key, k) => HasKind(next, key, k)
    BY <2>1, <2>2 DEF HasKind
  <2>4. ToSet(all) \subseteq ToSet(next) /\ \A y \in ToSet(next) : y \in ToSet(all) \/ y = x
    BY <2>1, <2>2 DEF ToSet
  <2>5. OneOfEach(all, key) => OneOfEach(next, key)
    BY <1>2, <2>1, <2>2 DEF OneOfEach, HasKind
  <2> QED
    BY <1>2, <2>1, <2>3, <2>4, <2>5 DEF next
<1> QED
  BY <1>1, <1>2

\* All of it.
LEMMA GatherAll ==
    ASSUME NEW S, NEW more \in Seq(S), NEW key, NEW result, result[0] \in Seq(S),
           Gathering(result, Len(more), more, key)
    PROVE  /\ result[Len(more)] \in Seq(S)
           /\ Gathered(result[Len(more)], result[0], more, key)
<1> DEFINE n == Len(more)
           found == result[0]
           Inv(i) ==
            /\ result[i] \in Seq(S)
            /\ ToSet(found) \subseteq ToSet(result[i])
            /\ \A k : HasKind(found, key, k) => HasKind(result[i], key, k)
            /\ \A j \in 1 .. i : HasKind(result[i], key, key[more[j]])
            /\ \A x \in ToSet(result[i]) :
                 x \in ToSet(found) \/ (x \in ToSet(more) /\ ~HasKind(found, key, key[x]))
            /\ OneOfEach(found, key) => OneOfEach(result[i], key)
           Done == {i \in 0 .. n : Inv(i)}
<1>1. n \in Nat /\ DOMAIN more = 1 .. n /\ \A i \in 1 .. n : more[i] \in S
  OBVIOUS
<1>2. 0 \in Done
  BY <1>1
<1>3. ASSUME NEW i \in 1 .. n, i - 1 \in Done PROVE i \in Done
  <2> DEFINE all == result[i - 1]
             x == more[i]
             next == IF HasKind(all, key, key[x]) THEN all ELSE Append(all, x)
  <2>1. Inv(i - 1) /\ i \in 0 .. n /\ x \in S
    BY <1>1, <1>3
  <2>2. /\ next \in Seq(S) /\ HasKind(next, key, key[x])
        /\ \A k : HasKind(all, key, k) => HasKind(next, key, k)
        /\ ToSet(all) \subseteq ToSet(next)
        /\ \A y \in ToSet(next) : y \in ToSet(all) \/ (y = x /\ ~HasKind(all, key, key[x]))
        /\ OneOfEach(all, key) => OneOfEach(next, key)
    <3>1. all \in Seq(S)
      BY <2>1
    <3> HIDE DEF all, x
    <3> QED
      BY <2>1, <3>1, GatherOne
  <2>3. result[i] = next
    BY <1>3 DEF Gathering
  <2>4. x \in ToSet(more)
    BY <1>1 DEF ToSet
  <2>5. \A j \in 1 .. i : j = i \/ j \in 1 .. (i - 1)
    BY <1>1
  <2> HIDE DEF next
  <2>6. Inv(i)
    <3>1. \A j \in 1 .. i : HasKind(next, key, key[more[j]])
      BY <2>1, <2>2, <2>5
    <3>2. \A y \in ToSet(next) :
            y \in ToSet(found) \/ (y \in ToSet(more) /\ ~HasKind(found, key, key[y]))
      BY <2>1, <2>2, <2>4
    <3> HIDE DEF x, found
    <3> QED
      BY <2>1, <2>2, <2>3, <3>1, <3>2
  <2> HIDE DEF Inv
  <2> QED
    BY <2>1, <2>6
<1>4. n \in Done
  <2> HIDE DEF Done, n
  <2> QED
    BY <1>1, <1>2, <1>3, Counting
<1>5. Inv(n) /\ \A x \in ToSet(more) : HasKind(result[n], key, key[x])
  <2>1. Inv(n)
    BY <1>4
  <2> HIDE DEF found
  <2> QED
    BY <1>1, <2>1 DEF ToSet
<1> HIDE DEF n
<1> QED
  BY <1>5 DEF Gathered, n

\* The kind of a related entity.
Lang == [t \in Texts |-> t.lang]

\* What the loop of AppendNew does to its result.
LEMMA AppendNewLoop ==
    ASSUME NEW found \in Seq(Texts), NEW related \in Seq(Texts)
    PROVE  \E result :
            /\ result[0] = found
            /\ \A i \in 1 .. Len(related) : result[i] =
                    IF contains(result[i - 1], related[i])
                    THEN result[i - 1] ELSE Append(result[i - 1], related[i])
            /\ AppendNew(found, related) = result[Len(related)]
<1> DEFINE n == Len(related)
           Round(all, i) == IF contains(all, related[i]) THEN all ELSE Append(all, related[i])
           G == [p \in Seq(Texts) \X (1 .. n) |-> Round(p[1], p[2])]
           Value(h) == h = [T \in SUBSET (1 .. n) |->
                            IF T = {} THEN found ELSE Round(h[T \ {Max(T)}], Max(T))]
<1>1. n \in Nat /\ DOMAIN related = 1 .. n /\ \A i \in 1 .. n : related[i] \in Texts
  OBVIOUS
<1>2. G \in [Seq(Texts) \X (1 .. n) -> Seq(Texts)]
  <2>1. \A all \in Seq(Texts), i \in 1 .. n : Round(all, i) \in Seq(Texts)
    BY <1>1
  <2> HIDE DEF Round
  <2> QED
    BY <2>1
<1>3. found \in Seq(Texts)
  OBVIOUS
<1>4. PICK f \in [SUBSET (1 .. n) -> Seq(Texts)] : Looping(f, n, found, G)
  <2> HIDE DEF n, G
  <2> QED
    BY <1>1, <1>2, <1>3, LoopExists
<1>5. Value(f)
  <2>1. \A T \in (SUBSET (1 .. n)) \ {{}} : Max(T) \in 1 .. n
    BY <1>1, Greatest
  <2> HIDE DEF Round, n
  <2> QED
    BY <1>4, <2>1 DEF Looping
<1>6. PICK h : Value(h) /\ AppendNew(found, related) = h[1 .. n]
  BY <1>1, <1>5, Zenon DEF AppendNew, FoldLeft, MapThenFoldSet
<1> DEFINE result == [i \in 0 .. n |-> h[1 .. i]]
<1>7. result[0] = found
  BY <1>1, <1>6, Spans
<1>8. ASSUME NEW i \in 1 .. n PROVE result[i] = Round(result[i - 1], i)
  <2>1. /\ 1 .. i \in SUBSET (1 .. n) /\ 1 .. i # {} /\ Max(1 .. i) = i
        /\ (1 .. i) \ {i} = 1 .. (i - 1)
    BY <1>1, Spans
  <2>2. \A T \in SUBSET (1 .. n) : T # {} => h[T] = Round(h[T \ {Max(T)}], Max(T))
    BY <1>6
  <2> HIDE DEF Round
  <2>3. h[1 .. i] = Round(h[1 .. (i - 1)], i)
    BY <2>1, <2>2
  <2> QED
    BY <1>1, <2>3
<1>9. AppendNew(found, related) = result[n]
  BY <1>1, <1>6
<1> QED
  BY <1>7, <1>8, <1>9

\* It gathers by language.
LEMMA AppendNewIs ==
    ASSUME NEW found \in Seq(Texts), NEW related \in Seq(Texts)
    PROVE  /\ AppendNew(found, related) \in Seq(Texts)
           /\ Gathered(AppendNew(found, related), found, related, Lang)
<1> DEFINE n == Len(related)
<1>1. n \in Nat /\ \A i \in 1 .. n : related[i] \in Texts
  OBVIOUS
<1>2. PICK result :
        /\ result[0] = found
        /\ \A i \in 1 .. n : result[i] =
                IF contains(result[i - 1], related[i])
                THEN result[i - 1] ELSE Append(result[i - 1], related[i])
        /\ AppendNew(found, related) = result[n]
  BY AppendNewLoop
<1> DEFINE Done == {i \in 0 .. n : result[i] \in Seq(Texts)}
<1>3. 0 \in Done
  BY <1>1, <1>2
<1>4. ASSUME NEW i \in 1 .. n, i - 1 \in Done PROVE i \in Done
  <2>1. result[i - 1] \in Seq(Texts) /\ i \in 0 .. n
    BY <1>4
  <2>2. Append(result[i - 1], related[i]) \in Seq(Texts)
    BY <1>1, <2>1
  <2> HIDE DEF n
  <2> QED
    BY <1>2, <2>1, <2>2
<1>5. ASSUME NEW i \in 1 .. n
      PROVE  contains(result[i - 1], related[i]) <=> HasKind(result[i - 1], Lang, Lang[related[i]])
  <2>1. i - 1 \in Done
    <3>1. i - 1 \in Nat /\ \A j \in 1 .. (i - 1) : j - 1 \in Done => j \in Done
      BY <1>1, <1>4
    <3> HIDE DEF Done
    <3> QED
      BY <1>3, <3>1, Counting
  <2>2. result[i - 1] \in Seq(Texts) /\ related[i] \in Texts
    BY <1>1, <2>1
  <2>3. \A j \in DOMAIN result[i - 1] : result[i - 1][j] \in Texts
    BY <2>2
  <2> QED
    BY <2>2, <2>3 DEF HasKind, Lang, contains
<1>6. Gathering(result, n, related, Lang)
  BY <1>2, <1>5 DEF Gathering
<1> QED
  BY <1>2, <1>6, GatherAll

\* What the loop of Flatten does to its result.
LEMMA FlattenLoop ==
    ASSUME NEW items \in Seq(Items)
    PROVE  \E result :
            /\ result[0] = <<>>
            /\ \A i \in 1 .. Len(items) :
                    result[i] = AppendNew(result[i - 1], items[i].translations)
            /\ Flatten(items) = result[Len(items)]
<1> DEFINE n == Len(items)
           A == Seq(Texts)
           Round(found, i) == AppendNew(found, items[i].translations)
           G == [p \in A \X (1 .. n) |-> Round(p[1], p[2])]
           Value(h) == h = [T \in SUBSET (1 .. n) |->
                            IF T = {} THEN <<>> ELSE Round(h[T \ {Max(T)}], Max(T))]
<1>1. n \in Nat /\ DOMAIN items = 1 .. n /\ \A i \in 1 .. n : items[i] \in Items
  OBVIOUS
<1>2. G \in [A \X (1 .. n) -> A]
  <2>1. \A found \in A, i \in 1 .. n : Round(found, i) \in A
    BY <1>1, QueriesAssumption, AppendNewIs
  <2> HIDE DEF Round, A
  <2> QED
    BY <2>1
<1>3. <<>> \in A
  OBVIOUS
<1>4. PICK f \in [SUBSET (1 .. n) -> A] : Looping(f, n, <<>>, G)
  <2> HIDE DEF n, G, A
  <2> QED
    BY <1>1, <1>2, <1>3, LoopExists
<1>5. Value(f)
  <2>1. \A T \in (SUBSET (1 .. n)) \ {{}} : Max(T) \in 1 .. n
    BY <1>1, Greatest
  <2> HIDE DEF Round, A, n
  <2> QED
    BY <1>4, <2>1 DEF Looping
<1>6. PICK h : Value(h) /\ Flatten(items) = h[1 .. n]
  BY <1>1, <1>5, Zenon DEF Flatten, FoldLeft, MapThenFoldSet
<1> DEFINE result == [i \in 0 .. n |-> h[1 .. i]]
<1>7. result[0] = <<>>
  BY <1>1, <1>6, Spans
<1>8. ASSUME NEW i \in 1 .. n PROVE result[i] = Round(result[i - 1], i)
  <2>1. /\ 1 .. i \in SUBSET (1 .. n) /\ 1 .. i # {} /\ Max(1 .. i) = i
        /\ (1 .. i) \ {i} = 1 .. (i - 1)
    BY <1>1, Spans
  <2>2. \A T \in SUBSET (1 .. n) : T # {} => h[T] = Round(h[T \ {Max(T)}], Max(T))
    BY <1>6
  <2> HIDE DEF Round
  <2>3. h[1 .. i] = Round(h[1 .. (i - 1)], i)
    BY <2>1, <2>2
  <2> QED
    BY <1>1, <2>3
<1>9. Flatten(items) = result[n]
  BY <1>1, <1>6
<1> QED
  BY <1>7, <1>8, <1>9

\* The entity is one of the first item that has its language.
OfFirst(t, items) ==
    \E j \in DOMAIN items :
        /\ t \in ToSet(items[j].translations)
        /\ \A l \in 1 .. (j - 1) : ~contains(items[l].translations, t)

\* Of each language that any item has, there is one entity, of the first item.
LEMMA FlattenIs ==
    ASSUME NEW items \in Seq(Items)
    PROVE  /\ Flatten(items) \in Seq(Texts) /\ OneOfEach(Flatten(items), Lang)
           /\ \A j \in DOMAIN items : \A t \in ToSet(items[j].translations) :
                HasKind(Flatten(items), Lang, t.lang)
           /\ \A t \in ToSet(Flatten(items)) : OfFirst(t, items)
<1> DEFINE n == Len(items)
           texts(i) == items[i].translations
<1>1. n \in Nat /\ DOMAIN items = 1 .. n /\ \A i \in 1 .. n : texts(i) \in Seq(Texts)
  BY QueriesAssumption
<1>2. PICK result :
        /\ result[0] = <<>>
        /\ \A i \in 1 .. n : result[i] = AppendNew(result[i - 1], texts(i))
        /\ Flatten(items) = result[n]
  BY FlattenLoop
<1> DEFINE Inv(i) ==
            /\ result[i] \in Seq(Texts) /\ OneOfEach(result[i], Lang)
            /\ \A j \in 1 .. i : \A t \in ToSet(texts(j)) : HasKind(result[i], Lang, Lang[t])
            /\ \A t \in ToSet(result[i]) : OfFirst(t, items)
           Done == {i \in 0 .. n : Inv(i)}
<1>3. 0 \in Done
  <2>1. <<>> \in Seq(Texts) /\ ToSet(<<>>) = {} /\ OneOfEach(<<>>, Lang)
    BY DEF ToSet, OneOfEach
  <2>2. 0 \in 0 .. n /\ \A j : j \notin 1 .. 0
    BY <1>1
  <2>3. Inv(0)
    <3> HIDE DEF n, texts
    <3> QED
      BY <1>2, <2>1, <2>2
  <2> QED
    BY <2>2, <2>3
<1>4. ASSUME NEW i \in 1 .. n, i - 1 \in Done PROVE i \in Done
  <2> DEFINE all == result[i - 1]
             next == result[i]
  <2>1. Inv(i - 1) /\ i \in 0 .. n /\ texts(i) \in Seq(Texts)
    BY <1>1, <1>4
  <2>2. next \in Seq(Texts) /\ Gathered(next, all, texts(i), Lang)
    <3>1. next = AppendNew(all, texts(i)) /\ all \in Seq(Texts)
      BY <1>2, <2>1
    <3> HIDE DEF next, all, texts
    <3> QED
      BY <2>1, <3>1, AppendNewIs
  <2>3. \A j \in 1 .. i : j \in 1 .. n /\ (j = i \/ j \in 1 .. (i - 1))
    BY <1>1
  <2>4. ToSet(all) \subseteq ToSet(next)
    BY <2>2 DEF Gathered
  <2>5. ASSUME NEW k, HasKind(all, Lang, k) PROVE HasKind(next, Lang, k)
    <3>1. PICK x \in ToSet(all) : Lang[x] = k
      BY <2>5 DEF HasKind, ToSet
    <3> QED
      BY <2>4, <3>1 DEF HasKind, ToSet
  <2>6. ASSUME NEW j \in 1 .. i, NEW t \in ToSet(texts(j)) PROVE HasKind(next, Lang, Lang[t])
    <3>1. CASE j = i
      BY <2>2, <2>6, <3>1 DEF Gathered
    <3>2. CASE j # i
      <4>1. HasKind(all, Lang, Lang[t])
        BY <2>1, <2>3, <2>6, <3>2
      <4> HIDE DEF next, all
      <4> QED
        BY <2>5, <4>1
    <3> QED
      BY <3>1, <3>2
  <2>7. ASSUME NEW t \in ToSet(next) PROVE OfFirst(t, items)
    <3>1. CASE t \in ToSet(all)
      BY <2>1, <3>1
    <3>2. CASE t \in ToSet(texts(i)) /\ ~HasKind(all, Lang, Lang[t])
      <4>1. t \in Texts
        BY <2>1, <3>2 DEF ToSet
      <4>2. ASSUME NEW l \in 1 .. (i - 1), contains(texts(l), t) PROVE FALSE
        <5>1. texts(l) \in Seq(Texts) /\ l \in 1 .. n
          BY <1>1
        <5>2. PICK m \in DOMAIN texts(l) : texts(l)[m].lang = t.lang
          BY <4>2 DEF contains
        <5>3. texts(l)[m] \in Texts /\ texts(l)[m] \in ToSet(texts(l))
          BY <5>1, <5>2 DEF ToSet
        <5>4. HasKind(all, Lang, Lang[texts(l)[m]])
          BY <2>1, <5>3
        <5>5. Lang[texts(l)[m]] = Lang[t]
          BY <4>1, <5>2, <5>3 DEF Lang
        <5> QED
          BY <3>2, <5>4, <5>5
      <4> QED
        BY <1>1, <3>2, <4>2 DEF OfFirst
    <3> QED
      BY <2>2, <3>1, <3>2 DEF Gathered
  <2>8. OneOfEach(next, Lang)
    BY <2>1, <2>2 DEF Gathered
  <2>9. Inv(i)
    <3> HIDE DEF texts
    <3> QED
      BY <2>2, <2>6, <2>7, <2>8
  <2> HIDE DEF Inv
  <2> QED
    BY <2>1, <2>9
<1>5. n \in Done
  <2> HIDE DEF Done, n
  <2> QED
    BY <1>1, <1>3, <1>4, Counting
<1>6. Inv(n)
  BY <1>5
<1>7. ASSUME NEW j \in DOMAIN items, NEW t \in ToSet(texts(j)) PROVE Lang[t] = t.lang
  <2>1. t \in Texts
    BY <1>1 DEF ToSet
  <2> QED
    BY <2>1 DEF Lang
<1> QED
  BY <1>1, <1>2, <1>6, <1>7

\* The related entities: one of each language that occurs in any item, and it
\* is that of the first item that has the language.
LEMMA RelatedIs ==
    ASSUME NEW items \in Seq(Items)
    PROVE  LET found == Flatten(items)
               languages == {t.lang : t \in UNION {ToSet(i.translations) : i \in ToSet(items)}}
               FirstWith(t) ==
                    items[Min({i \in DOMAIN items : contains(items[i].translations, t)})]
           IN  /\ {found[i].lang : i \in DOMAIN found} = languages
               /\ Len(found) = Cardinality(languages)
               /\ \A i \in DOMAIN found :
                    found[i] \in ToSet(FirstWith(found[i]).translations)
<1> DEFINE found == Flatten(items)
           texts == UNION {ToSet(i.translations) : i \in ToSet(items)}
           languages == {t.lang : t \in texts}
           With(t) == {i \in DOMAIN items : contains(items[i].translations, t)}
<1>1. /\ found \in Seq(Texts) /\ OneOfEach(found, Lang)
      /\ \A j \in DOMAIN items : \A t \in ToSet(items[j].translations) :
            HasKind(found, Lang, t.lang)
      /\ \A t \in ToSet(found) : OfFirst(t, items)
  BY FlattenIs
<1> HIDE DEF found
<1>2. \A i \in DOMAIN found : /\ found[i] \in Texts /\ found[i] \in ToSet(found)
                              /\ Lang[found[i]] = found[i].lang
  BY <1>1 DEF ToSet, Lang
<1>3. ASSUME NEW t \in texts PROVE HasKind(found, Lang, t.lang)
  BY <1>1 DEF ToSet
<1>4. ASSUME NEW t \in ToSet(found) PROVE t \in texts
  <2>1. PICK j \in DOMAIN items : t \in ToSet(items[j].translations)
    BY <1>1 DEF OfFirst
  <2> QED
    BY <2>1 DEF ToSet
<1> HIDE DEF texts
<1>5. {found[i].lang : i \in DOMAIN found} = languages
  BY <1>2, <1>3, <1>4 DEF HasKind
<1>6. Len(found) = Cardinality(languages)
  <2> DEFINE langs == [i \in DOMAIN found |-> found[i].lang]
  <2>1. DOMAIN found = 1 .. Len(found) /\ Len(found) \in Nat
    BY <1>1
  <2>2. langs \in Seq(languages) /\ Len(langs) = Len(found)
    <3>1. langs \in [1 .. Len(found) -> languages]
      BY <1>5, <2>1
    <3> QED
      BY <2>1, <3>1
  <2>3. Distinct(langs)
    BY <1>1, <1>2 DEF Distinct, OneOfEach
  <2>4. ToSet(langs) = languages
    BY <1>5 DEF ToSet
  <2> HIDE DEF langs, languages
  <2> QED
    BY <2>2, <2>3, <2>4, DistinctCount
<1>7. ASSUME NEW i \in DOMAIN found
      PROVE  found[i] \in ToSet(items[Min(With(found[i]))].translations)
  <2> DEFINE t == found[i]
  <2>1. PICK j \in DOMAIN items :
          /\ t \in ToSet(items[j].translations)
          /\ \A l \in 1 .. (j - 1) : ~contains(items[l].translations, t)
    BY <1>1, <1>2 DEF OfFirst
  <2>2. j \in With(t) /\ With(t) \in SUBSET Nat
    BY <2>1 DEF ToSet, contains
  <2>3. Min(With(t)) \in With(t) /\ Min(With(t)) <= j
    <3> HIDE DEF With
    <3> QED
      BY <2>2, Least
  <2>4. \A l \in With(t) : l \in DOMAIN items /\ l \notin 1 .. (j - 1)
    BY <2>1
  <2>5. Min(With(t)) = j
    <3>1. DOMAIN items = 1 .. Len(items) /\ Len(items) \in Nat
      OBVIOUS
    <3> DEFINE m == Min(With(t))
    <3>2. m \in 1 .. Len(items) /\ m \notin 1 .. (j - 1) /\ m <= j /\ j \in 1 .. Len(items)
      BY <2>3, <2>4, <3>1
    <3> HIDE DEF m
    <3>3. m = j
      BY <3>1, <3>2
    <3> QED
      BY <3>3 DEF m
  <2> HIDE DEF With
  <2> QED
    BY <2>1, <2>5
<1> HIDE DEF found, languages
<1> QED
  BY <1>5, <1>6, <1>7 DEF found, languages, texts

----------------------------------------------------------------------------
\* Translations.

\* The translation of a language, if there is one.
LEMMA FindTranslationIs ==
    ASSUME NEW translations \in Seq(Texts), NEW lang
    PROVE  LET found == FindTranslation(translations, lang)
           IN  /\ found \in Seq(Texts)
               /\ found = <<>> <=> ~contains(translations, [lang |-> lang])
               /\ found # <<>> => found[1] \in ToSet(translations) /\ found[1].lang = lang
<1> DEFINE n == Len(translations)
           I == {i \in 1 .. n : translations[i].lang = lang}
           first == IF I # {} THEN Min(I) ELSE 0
           found == FindTranslation(translations, lang)
<1>1. n \in Nat /\ DOMAIN translations = 1 .. n /\ \A i \in 1 .. n : translations[i] \in Texts
  OBVIOUS
<1>2. found = IF first = 0 THEN <<>> ELSE <<translations[first]>>
  BY DEF FindTranslation, SelectInSeq
<1>3. contains(translations, [lang |-> lang]) <=> I # {}
  BY <1>1 DEF contains
<1>4. CASE I = {}
  BY <1>2, <1>3, <1>4
<1>5. CASE I # {}
  <2>1. first \in I
    <3>1. I \in SUBSET Nat
      BY <1>1
    <3>2. first = Min(I)
      BY <1>5
    <3> HIDE DEF I, first
    <3> QED
      BY <1>5, <3>1, <3>2, Least
  <2>2. first \in 1 .. n /\ first # 0 /\ translations[first].lang = lang
    BY <1>1, <2>1
  <2> HIDE DEF first, I
  <2>3. found = <<translations[first]>>
    BY <1>2, <2>2
  <2> HIDE DEF found
  <2>4. found \in Seq(Texts) /\ found # <<>> /\ found[1] = translations[first]
    BY <1>1, <2>2, <2>3
  <2>5. translations[first] \in ToSet(translations)
    BY <1>1, <2>2 DEF ToSet
  <2> QED
    BY <1>3, <1>5, <2>2, <2>4, <2>5 DEF found
<1> QED
  BY <1>4, <1>5

\* What the loop over the fallbacks does to its result.
LEMMA FallbackLoop ==
    ASSUME NEW translations \in Seq(Texts)
    PROVE  \E result :
            /\ result[0] = FindTranslation(translations, Target)
            /\ \A i \in 1 .. Len(Fallbacks) : result[i] =
                    IF result[i - 1] = <<>> THEN FindTranslation(translations, Fallbacks[i])
                    ELSE result[i - 1]
            /\ FindTranslationWithFallback(translations) = result[Len(Fallbacks)]
<1> DEFINE n == Len(Fallbacks)
           A == Seq(Texts)
           base == FindTranslation(translations, Target)
           Round(found, i) ==
                IF found = <<>> THEN FindTranslation(translations, Fallbacks[i]) ELSE found
           G == [p \in A \X (1 .. n) |-> Round(p[1], p[2])]
           Value(h) == h = [T \in SUBSET (1 .. n) |->
                            IF T = {} THEN base ELSE Round(h[T \ {Max(T)}], Max(T))]
<1>1. n \in Nat /\ DOMAIN Fallbacks = 1 .. n
  BY QueriesAssumption
<1>2. G \in [A \X (1 .. n) -> A]
  <2>1. \A found \in A, i \in 1 .. n : Round(found, i) \in A
    BY FindTranslationIs
  <2> HIDE DEF Round, A
  <2> QED
    BY <2>1
<1>3. base \in A
  BY FindTranslationIs
<1>4. PICK f \in [SUBSET (1 .. n) -> A] : Looping(f, n, base, G)
  <2> HIDE DEF n, G, A, base
  <2> QED
    BY <1>1, <1>2, <1>3, LoopExists
<1>5. Value(f)
  <2>1. \A T \in (SUBSET (1 .. n)) \ {{}} : Max(T) \in 1 .. n
    BY <1>1, Greatest
  <2> HIDE DEF Round, A, n, base
  <2> QED
    BY <1>4, <2>1 DEF Looping
<1>6. PICK h : Value(h) /\ FindTranslationWithFallback(translations) = h[1 .. n]
  BY <1>1, <1>5, Zenon DEF FindTranslationWithFallback, FoldLeft, MapThenFoldSet
<1> HIDE DEF base
<1> DEFINE result == [i \in 0 .. n |-> h[1 .. i]]
<1>7. result[0] = base
  BY <1>1, <1>6, Spans
<1>8. ASSUME NEW i \in 1 .. n PROVE result[i] = Round(result[i - 1], i)
  <2>1. /\ 1 .. i \in SUBSET (1 .. n) /\ 1 .. i # {} /\ Max(1 .. i) = i
        /\ (1 .. i) \ {i} = 1 .. (i - 1)
    BY <1>1, Spans
  <2>2. \A T \in SUBSET (1 .. n) : T # {} => h[T] = Round(h[T \ {Max(T)}], Max(T))
    BY <1>6
  <2> HIDE DEF Round
  <2>3. h[1 .. i] = Round(h[1 .. (i - 1)], i)
    BY <2>1, <2>2
  <2> QED
    BY <1>1, <2>3
<1>9. FindTranslationWithFallback(translations) = result[n]
  BY <1>1, <1>6
<1> QED
  BY <1>7, <1>8, <1>9 DEF base

\* The target's translation if there is one, else that of the first fallback
\* that has one.
LEMMA FallbackIs ==
    ASSUME NEW translations \in Seq(Texts)
    PROVE  LET wanted == <<Target>> \o Fallbacks
               has == {n \in DOMAIN wanted : contains(translations, [lang |-> wanted[n]])}
               text == FindTranslationWithFallback(translations)
           IN  /\ (text = <<>>) = (has = {})
               /\ has # {} => /\ text[1].lang = wanted[Min(has)]
                              /\ text[1] \in ToSet(translations)
<1> DEFINE m == Len(Fallbacks)
           wanted == <<Target>> \o Fallbacks
           Spoken(n) == contains(translations, [lang |-> wanted[n]])
           has == {n \in DOMAIN wanted : Spoken(n)}
           text == FindTranslationWithFallback(translations)
<1>1. /\ m \in Nat /\ wanted[1] = Target /\ DOMAIN wanted = 1 .. (m + 1)
      /\ \A i \in 1 .. m : wanted[i + 1] = Fallbacks[i]
  <2>1. Fallbacks \in Seq(ToSet(Fallbacks) \cup {Target}) /\ m \in Nat
    BY QueriesAssumption
  <2>2. <<Target>> \in Seq(ToSet(Fallbacks) \cup {Target}) /\ Len(<<Target>>) = 1
        /\ <<Target>>[1] = Target
    OBVIOUS
  <2> DEFINE one == <<Target>>
  <2>3. /\ Len(one \o Fallbacks) = 1 + m
        /\ one \o Fallbacks \in Seq(ToSet(Fallbacks) \cup {Target})
        /\ \A i \in 1 .. (1 + m) :
             (one \o Fallbacks)[i] = IF i <= 1 THEN one[i] ELSE Fallbacks[i - 1]
    <3> HIDE DEF one
    <3> QED
      BY <2>1, <2>2, ConcatProperties DEF one
  <2> QED
    BY <2>1, <2>2, <2>3
<1> HIDE DEF wanted
<1>2. PICK result :
        /\ result[0] = FindTranslation(translations, Target)
        /\ \A i \in 1 .. m : result[i] =
                IF result[i - 1] = <<>> THEN FindTranslation(translations, Fallbacks[i])
                ELSE result[i - 1]
        /\ text = result[m]
  BY FallbackLoop
<1> DEFINE First(found, n) ==
            /\ Spoken(n) /\ \A l \in 1 .. (n - 1) : ~Spoken(l)
            /\ found # <<>> /\ found[1].lang = wanted[n] /\ found[1] \in ToSet(translations)
           None(found, i) == found = <<>> /\ \A l \in 1 .. i : ~Spoken(l)
           Inv(i) == None(result[i], i + 1) \/ \E n \in 1 .. (i + 1) : First(result[i], n)
           Done == {i \in 0 .. m : Inv(i)}
<1>3. 0 \in Done
  <2>1. \/ result[0] = <<>> /\ ~Spoken(1)
        \/ /\ Spoken(1) /\ result[0] # <<>> /\ result[0][1].lang = wanted[1]
           /\ result[0][1] \in ToSet(translations)
    BY <1>1, <1>2, FindTranslationIs
  <2>2. 0 + 1 = 1 /\ 1 .. 1 = {1} /\ 1 .. (1 - 1) = {} /\ 0 \in 0 .. m
    BY <1>1
  <2> HIDE DEF Spoken, m
  <2> QED
    BY <2>1, <2>2
<1>4. ASSUME NEW i \in 1 .. m, i - 1 \in Done PROVE i \in Done
  <2>1. Inv(i - 1) /\ i \in 0 .. m /\ (i - 1) + 1 = i /\ i + 1 \in Nat
    <3>1. Inv(i - 1)
      <4> HIDE DEF Inv
      <4> QED
        BY <1>4
    <3>2. i \in 0 .. m /\ (i - 1) + 1 = i /\ i + 1 \in Nat
      BY <1>1
    <3> QED
      BY <3>1, <3>2
  <2> DEFINE now == FindTranslation(translations, Fallbacks[i])
  <2>2. CASE \E n \in 1 .. i : First(result[i - 1], n)
    <3>1. PICK n \in 1 .. i : First(result[i - 1], n)
      BY <2>2
    <3>2. result[i] = result[i - 1]
      BY <1>2, <3>1
    <3>3. n \in 1 .. (i + 1) /\ First(result[i], n)
      BY <1>1, <3>1, <3>2
    <3> HIDE DEF First, m
    <3> QED
      BY <2>1, <3>3
  <2>3. CASE None(result[i - 1], i)
    <3>1. result[i] = now
      BY <1>2, <2>3
    <3>2. \/ now = <<>> /\ ~Spoken(i + 1)
          \/ /\ Spoken(i + 1) /\ now # <<>> /\ now[1].lang = wanted[i + 1]
             /\ now[1] \in ToSet(translations)
      BY <1>1, FindTranslationIs
    <3>3. i + 1 \in 1 .. (i + 1) /\ (i + 1) - 1 = i
          /\ \A l \in 1 .. (i + 1) : l \in 1 .. i \/ l = i + 1
      BY <1>1
    <3> HIDE DEF Spoken, now, m
    <3>4. Inv(i)
      BY <2>3, <3>1, <3>2, <3>3
    <3> HIDE DEF Inv
    <3> QED
      BY <2>1, <3>4
  <2> HIDE DEF None, First
  <2> QED
    BY <2>1, <2>2, <2>3
<1>5. Inv(m)
  <2>1. m \in Done
    <3> HIDE DEF Done, m
    <3> QED
      BY <1>1, <1>3, <1>4, Counting
  <2> QED
    BY <2>1
<1> HIDE DEF Spoken, text, m
<1>6. CASE None(text, m + 1)
  <2>1. text = <<>> /\ has = {}
    BY <1>1, <1>6
  <2> HIDE DEF has
  <2> QED
    BY <2>1 DEF wanted, Spoken, text, has
<1>7. ASSUME NEW n \in 1 .. (m + 1), First(text, n)
      PROVE  n \in has /\ Min(has) = n
  <2>1. n \in has /\ has \in SUBSET Nat
    BY <1>1, <1>7
  <2>2. Min(has) \in has /\ Min(has) <= n
    <3> HIDE DEF has
    <3> QED
      BY <2>1, Least
  <2>3. Min(has) \in 1 .. (m + 1) /\ Min(has) \notin 1 .. (n - 1)
    BY <1>1, <1>7, <2>2
  <2> HIDE DEF has
  <2> DEFINE x == Min(has)
  <2>4. x \in 1 .. (m + 1) /\ x \notin 1 .. (n - 1) /\ x <= n
    BY <2>2, <2>3
  <2> HIDE DEF x
  <2>5. x = n
    BY <1>1, <2>4
  <2> QED
    BY <2>1, <2>5 DEF x
<1>8. CASE \E n \in 1 .. (m + 1) : First(text, n)
  <2>1. PICK n \in 1 .. (m + 1) : First(text, n)
    BY <1>8
  <2>2. n \in has /\ Min(has) = n
    BY <1>7, <2>1
  <2> HIDE DEF has
  <2>3. text # <<>> /\ has # {} /\ text[1].lang = wanted[Min(has)]
        /\ text[1] \in ToSet(translations)
    BY <2>1, <2>2
  <2> QED
    BY <2>3 DEF wanted, Spoken, text, has
<1> QED
  BY <1>2, <1>5, <1>6, <1>8

\* Every item is translated in its place.
LEMMA TranslatedIs ==
    ASSUME NEW items \in Seq(Items)
    PROVE  LET content == Translated(items)
           IN  /\ DOMAIN content = DOMAIN items
               /\ \A i \in DOMAIN items :
                    LET wanted == <<Target>> \o Fallbacks
                        has == {n \in DOMAIN wanted :
                                  contains(items[i].translations, [lang |-> wanted[n]])}
                        text == content[i].text
                    IN  /\ content[i].id = items[i].id
                        /\ (text = <<>>) = (has = {})
                        /\ has # {} => /\ text[1].lang = wanted[Min(has)]
                                       /\ text[1] \in ToSet(items[i].translations)
<1> DEFINE content == Translated(items)
<1>1. DOMAIN content = DOMAIN items
  BY DEF Translated
<1>2. ASSUME NEW i \in DOMAIN items
      PROVE  LET wanted == <<Target>> \o Fallbacks
                 has == {n \in DOMAIN wanted :
                           contains(items[i].translations, [lang |-> wanted[n]])}
                 text == content[i].text
             IN  /\ content[i].id = items[i].id
                 /\ (text = <<>>) = (has = {})
                 /\ has # {} => /\ text[1].lang = wanted[Min(has)]
                                /\ text[1] \in ToSet(items[i].translations)
  <2> DEFINE translations == items[i].translations
             wanted == <<Target>> \o Fallbacks
             has == {n \in DOMAIN wanted : contains(translations, [lang |-> wanted[n]])}
             text == FindTranslationWithFallback(translations)
  <2>1. content[i].id = items[i].id /\ content[i].text = text
    BY DEF Translated
  <2>2. translations \in Seq(Texts)
    BY QueriesAssumption
  <2>3. /\ (text = <<>>) = (has = {})
        /\ has # {} => text[1].lang = wanted[Min(has)] /\ text[1] \in ToSet(translations)
    <3> HIDE DEF translations
    <3> QED
      BY <2>2, FallbackIs
  <2> HIDE DEF text, content
  <2> QED
    BY <2>1, <2>3
<1> QED
  BY <1>1, <1>2


----------------------------------------------------------------------------
\* The composite.

\* The key of an item.
Id == [i \in Items |-> i.id]

\* What the loop of Unique does to its result.
LEMMA UniqueLoop ==
    ASSUME NEW items \in Seq(Items)
    PROVE  \E result :
            /\ result[0] = <<>>
            /\ \A i \in 1 .. Len(items) : result[i] =
                    IF listed(result[i - 1], items[i])
                    THEN result[i - 1] ELSE Append(result[i - 1], items[i])
            /\ Unique(items) = result[Len(items)]
<1> DEFINE n == Len(items)
           Round(all, i) == IF listed(all, items[i]) THEN all ELSE Append(all, items[i])
           G == [p \in Seq(Items) \X (1 .. n) |-> Round(p[1], p[2])]
           Value(h) == h = [T \in SUBSET (1 .. n) |->
                            IF T = {} THEN <<>> ELSE Round(h[T \ {Max(T)}], Max(T))]
<1>1. n \in Nat /\ DOMAIN items = 1 .. n /\ \A i \in 1 .. n : items[i] \in Items
  OBVIOUS
<1>2. G \in [Seq(Items) \X (1 .. n) -> Seq(Items)]
  <2>1. \A all \in Seq(Items), i \in 1 .. n : Round(all, i) \in Seq(Items)
    BY <1>1
  <2> HIDE DEF Round
  <2> QED
    BY <2>1
<1>3. <<>> \in Seq(Items)
  OBVIOUS
<1>4. PICK f \in [SUBSET (1 .. n) -> Seq(Items)] : Looping(f, n, <<>>, G)
  <2> HIDE DEF n, G
  <2> QED
    BY <1>1, <1>2, <1>3, LoopExists
<1>5. Value(f)
  <2>1. \A T \in (SUBSET (1 .. n)) \ {{}} : Max(T) \in 1 .. n
    BY <1>1, Greatest
  <2> HIDE DEF Round, n
  <2> QED
    BY <1>4, <2>1 DEF Looping
<1>6. PICK h : Value(h) /\ Unique(items) = h[1 .. n]
  BY <1>1, <1>5, Zenon DEF Unique, FoldLeft, MapThenFoldSet
<1> DEFINE result == [i \in 0 .. n |-> h[1 .. i]]
<1>7. result[0] = <<>>
  BY <1>1, <1>6, Spans
<1>8. ASSUME NEW i \in 1 .. n PROVE result[i] = Round(result[i - 1], i)
  <2>1. /\ 1 .. i \in SUBSET (1 .. n) /\ 1 .. i # {} /\ Max(1 .. i) = i
        /\ (1 .. i) \ {i} = 1 .. (i - 1)
    BY <1>1, Spans
  <2>2. \A T \in SUBSET (1 .. n) : T # {} => h[T] = Round(h[T \ {Max(T)}], Max(T))
    BY <1>6
  <2> HIDE DEF Round
  <2>3. h[1 .. i] = Round(h[1 .. (i - 1)], i)
    BY <2>1, <2>2
  <2> QED
    BY <1>1, <2>3
<1>9. Unique(items) = result[n]
  BY <1>1, <1>6
<1> QED
  BY <1>7, <1>8, <1>9

\* It gathers by key.
LEMMA UniqueIs ==
    ASSUME NEW items \in Seq(Items)
    PROVE  Unique(items) \in Seq(Items) /\ Gathered(Unique(items), <<>>, items, Id)
<1> DEFINE n == Len(items)
<1>1. n \in Nat /\ \A i \in 1 .. n : items[i] \in Items
  OBVIOUS
<1>2. PICK result :
        /\ result[0] = <<>>
        /\ \A i \in 1 .. n : result[i] =
                IF listed(result[i - 1], items[i])
                THEN result[i - 1] ELSE Append(result[i - 1], items[i])
        /\ Unique(items) = result[n]
  BY UniqueLoop
<1> DEFINE Done == {i \in 0 .. n : result[i] \in Seq(Items)}
<1>3. 0 \in Done
  <2>1. <<>> \in Seq(Items) /\ 0 \in 0 .. n
    BY <1>1
  <2> HIDE DEF n
  <2> QED
    BY <1>2, <2>1
<1>4. ASSUME NEW i \in 1 .. n, i - 1 \in Done PROVE i \in Done
  <2>1. result[i - 1] \in Seq(Items) /\ i \in 0 .. n
    BY <1>4
  <2>2. Append(result[i - 1], items[i]) \in Seq(Items)
    BY <1>1, <2>1
  <2> HIDE DEF n
  <2> QED
    BY <1>2, <2>1, <2>2
<1>5. ASSUME NEW i \in 1 .. n
      PROVE  listed(result[i - 1], items[i]) <=> HasKind(result[i - 1], Id, Id[items[i]])
  <2>1. i - 1 \in Done
    <3>1. i - 1 \in Nat /\ \A j \in 1 .. (i - 1) : j - 1 \in Done => j \in Done
      BY <1>1, <1>4
    <3> HIDE DEF Done
    <3> QED
      BY <1>3, <3>1, Counting
  <2>2. result[i - 1] \in Seq(Items) /\ items[i] \in Items
    BY <1>1, <2>1
  <2>3. \A j \in DOMAIN result[i - 1] : result[i - 1][j] \in Items
    BY <2>2
  <2> QED
    BY <2>2, <2>3 DEF HasKind, Id, listed
<1>6. Gathering(result, n, items, Id)
  BY <1>2, <1>5 DEF Gathering
<1>7. result[0] \in Seq(Items)
  BY <1>2
<1> QED
  BY <1>2, <1>6, <1>7, GatherAll

\* Slices of items in which keys are unique, merged: every item that any of them
\* has, once.
LEMMA CompositeIs ==
    ASSUME NEW items \in Seq(Items),
           \A i, j \in DOMAIN items : items[i].id = items[j].id => i = j,
           NEW slices \in Seq(Seq(Items)),
           \A i \in 1 .. Len(slices) : ToSet(slices[i]) \subseteq ToSet(items)
    PROVE  /\ ToSet(Merge(slices)) = UNION {ToSet(slices[i]) : i \in 1 .. Len(slices)}
           /\ Len(Merge(slices)) = Cardinality(ToSet(Merge(slices)))
<1> DEFINE more == FlattenSeq(slices)
           all == Merge(slices)
<1>1. /\ more \in Seq(Items)
      /\ ToSet(more) = UNION {ToSet(slices[i]) : i \in 1 .. Len(slices)}
  BY JoinedIs
<1>2. all \in Seq(Items) /\ Gathered(all, <<>>, more, Id)
  BY <1>1, UniqueIs DEF Merge
<1> HIDE DEF more, all
<1>3. ToSet(<<>>) = {} /\ OneOfEach(<<>>, Id)
  BY DEF ToSet, OneOfEach
<1>4. ToSet(all) \subseteq ToSet(more) /\ OneOfEach(all, Id)
  BY <1>2, <1>3 DEF Gathered
<1>5. ToSet(more) \subseteq ToSet(items)
  BY <1>1
<1>6. ASSUME NEW x \in ToSet(items), NEW y \in ToSet(items), Id[x] = Id[y]
      PROVE  x = y
  <2>1. PICK i \in DOMAIN items, j \in DOMAIN items : x = items[i] /\ y = items[j]
    BY DEF ToSet
  <2>2. x \in Items /\ y \in Items
    BY <2>1
  <2> QED
    BY <1>6, <2>1, <2>2 DEF Id
<1>7. ASSUME NEW x \in ToSet(more) PROVE x \in ToSet(all)
  <2>1. PICK i \in DOMAIN all : Id[all[i]] = Id[x]
    BY <1>2 DEF Gathered, HasKind
  <2>2. all[i] \in ToSet(all)
    BY DEF ToSet
  <2> QED
    BY <1>4, <1>5, <1>6, <2>1, <2>2
<1>8. Distinct(all)
  BY <1>4 DEF OneOfEach, Distinct
<1>9. Cardinality(ToSet(all)) = Len(all)
  BY <1>2, <1>8, DistinctCount
<1> QED
  BY <1>1, <1>4, <1>7, <1>9 DEF all
=============================================================================
