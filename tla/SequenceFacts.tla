----------------------------- MODULE SequenceFacts -----------------------------
(***************************************************************************)
(* What the operators on queues do that the models use: an element is put   *)
(* at the end, taken from the front or taken out of the middle.            *)
(***************************************************************************)
EXTENDS Naturals, SequencesExt, SequenceTheorems, FiniteSetTheorems, WellFoundedInduction, TLAPS

\* No element is there twice.
NoTwice(s) == \A m, n \in DOMAIN s : s[m] = s[n] => m = n

-----------------------------------------------------------------------------
(* A queue without repetitions                                             *)

LEMMA NoLength == ASSUME NEW S, NEW s \in Seq(S), Len(s) = 0 PROVE s = <<>>
  BY EmptySeq

\* A sequence with an element put at its end.
LEMMA Appended ==
  ASSUME NEW S, NEW s \in Seq(S), NEW e \in S
  PROVE  /\ Append(s, e) \in Seq(S)
         /\ ToSet(Append(s, e)) = ToSet(s) \union {e}
         /\ NoTwice(s) /\ e \notin ToSet(s) => NoTwice(Append(s, e))
<1>1. DOMAIN s = 1..Len(s) /\ DOMAIN Append(s, e) = 1..(Len(s) + 1) /\ Len(s) \in Nat
  OBVIOUS
<1>2. \A n \in 1..Len(s) : Append(s, e)[n] = s[n]
  OBVIOUS
<1>3. Append(s, e)[Len(s) + 1] = e
  OBVIOUS
<1>4. \A n \in 1..(Len(s) + 1) : n \in 1..Len(s) \/ n = Len(s) + 1
  BY <1>1
<1>5. Append(s, e) \in Seq(S)
  OBVIOUS
<1>6. Len(s) + 1 \in 1..(Len(s) + 1) /\ \A n \in 1..Len(s) : n \in 1..(Len(s) + 1)
  BY <1>1
<1>7. ASSUME NEW d
      PROVE  (\E n \in DOMAIN Append(s, e) : Append(s, e)[n] = d)
               <=> (\E n \in DOMAIN s : s[n] = d) \/ d = e
  BY <1>1, <1>2, <1>3, <1>4, <1>6, Zenon
<1>8. NoTwice(s) /\ ~(\E n \in DOMAIN s : s[n] = e) => NoTwice(Append(s, e))
  BY <1>1, <1>2, <1>3, <1>4, Zenon DEF NoTwice
<1>9. ToSet(Append(s, e)) = ToSet(s) \union {e}
  BY <1>7, Zenon DEF ToSet
<1>10. ~(\E n \in DOMAIN s : s[n] = e) <=> e \notin ToSet(s)
  BY Zenon DEF ToSet
<1> QED BY <1>5, <1>8, <1>9, <1>10

\* A sequence without its first element.
LEMMA TailTaken ==
  ASSUME NEW S, NEW s \in Seq(S), s # <<>>, NoTwice(s)
  PROVE  /\ Tail(s) \in Seq(S) /\ NoTwice(Tail(s))
         /\ ToSet(Tail(s)) = ToSet(s) \ {Head(s)}
         /\ Head(s) \in S /\ Head(s) \in ToSet(s)
<1>1. /\ Len(s) \in Nat /\ Len(s) >= 1 /\ DOMAIN s = 1..Len(s) /\ DOMAIN Tail(s) = 1..(Len(s) - 1)
      /\ Tail(s) \in Seq(S) /\ Head(s) = s[1] /\ \A n \in 1..(Len(s) - 1) : Tail(s)[n] = s[n + 1]
  OBVIOUS
<1>2. 1 \in DOMAIN s
  BY <1>1
<1>3. Head(s) \in S
  BY <1>1, <1>2
<1>4. NoTwice(Tail(s))
  BY <1>1 DEF NoTwice
<1>5. ASSUME NEW d
      PROVE  (\E n \in DOMAIN Tail(s) : Tail(s)[n] = d)
               <=> (\E n \in DOMAIN s : s[n] = d) /\ d # Head(s)
  <2>1. ASSUME NEW n \in DOMAIN Tail(s), Tail(s)[n] = d
        PROVE  (\E m \in DOMAIN s : s[m] = d) /\ d # Head(s)
    BY <1>1, <2>1 DEF NoTwice
  <2>2. ASSUME NEW n \in DOMAIN s, s[n] = d, d # Head(s)
        PROVE  \E m \in DOMAIN Tail(s) : Tail(s)[m] = d
    <3>1. n - 1 \in 1..(Len(s) - 1) /\ Tail(s)[n - 1] = d
      BY <1>1, <2>2
    <3> QED BY <1>1, <3>1
  <2> QED BY <2>1, <2>2
<1>6. ToSet(Tail(s)) = ToSet(s) \ {Head(s)}
  BY <1>5, Zenon DEF ToSet
<1>7. Head(s) \in ToSet(s)
  BY <1>1, <1>2 DEF ToSet
<1> QED BY <1>1, <1>3, <1>4, <1>6, <1>7

\* No element is there twice after a gap is closed, either.
LEMMA GapClosed ==
  ASSUME NEW L \in Nat, NEW k \in 1..L, NEW s, NEW r,
         \A m, n \in 1..L : s[m] = s[n] => m = n,
         \A n \in 1..(L - 1) : r[n] = IF n < k THEN s[n] ELSE s[n + 1]
  PROVE  \A m, n \in 1..(L - 1) : r[m] = r[n] => m = n
<1> TAKE m, n \in 1..(L - 1)
<1>1. CASE m < k /\ n < k
  BY <1>1
<1>2. CASE m >= k /\ n < k
  BY <1>2
<1>3. CASE m < k /\ n >= k
  BY <1>3
<1>4. CASE m >= k /\ n >= k
  BY <1>4
<1> QED BY <1>1, <1>2, <1>3, <1>4

\* What is left of a sequence without one of its elements, and where.
LEMMA Removed ==
  ASSUME NEW S, NEW s \in Seq(S), NEW k \in 1..Len(s)
  PROVE  /\ RemoveAt(s, k) \in Seq(S) /\ Len(RemoveAt(s, k)) = Len(s) - 1
         /\ \A n \in 1..(Len(s) - 1) : RemoveAt(s, k)[n] = IF n < k THEN s[n] ELSE s[n + 1]
<1> DEFINE r == RemoveAt(s, k)
           a == SubSeq(s, 1, k - 1)
           b == SubSeq(s, k + 1, Len(s))
<1>1. Len(s) \in Nat
  OBVIOUS
<1>2. a \in Seq(S) /\ Len(a) = k - 1 /\ \A n \in 1..(k - 1) : a[n] = s[n]
  BY <1>1, SubSeqProperties
<1>3. b \in Seq(S) /\ Len(b) = Len(s) - k /\ \A n \in 1..(Len(s) - k) : b[n] = s[n + k]
  BY <1>1, SubSeqProperties
<1>4. r = a \o b
  BY DEF RemoveAt
<1> HIDE DEF a, b, r
<1>5. r \in Seq(S) /\ Len(r) = Len(s) - 1
  <2>1. r \in Seq(S) /\ Len(r) = Len(a) + Len(b)
    BY <1>2, <1>3, <1>4, ConcatProperties
  <2>2. Len(r) = Len(s) - 1
    BY <1>1, <1>2, <1>3, <2>1
  <2> QED BY <2>1, <2>2
<1>6. \A n \in 1..(Len(s) - 1) : r[n] = IF n < k THEN s[n] ELSE s[n + 1]
  <2>1. \A n \in 1..(Len(a) + Len(b)) : r[n] = IF n <= Len(a) THEN a[n] ELSE b[n - Len(a)]
    BY <1>2, <1>3, <1>4, ConcatProperties
  <2>2. Len(a) + Len(b) = Len(s) - 1
    BY <1>1, <1>2, <1>3
  <2> TAKE n \in 1..(Len(s) - 1)
  <2>3. r[n] = IF n <= Len(a) THEN a[n] ELSE b[n - Len(a)]
    BY <2>1, <2>2
  <2>4. CASE n < k
    BY <1>1, <1>2, <2>3, <2>4
  <2>5. CASE n >= k
    <3>1. n - Len(a) \in 1..(Len(s) - k) /\ (n - Len(a)) + k = n + 1
      BY <1>1, <1>2, <2>5
    <3>2. b[n - Len(a)] = s[n + 1]
      BY <1>3, <3>1
    <3> QED BY <1>1, <1>2, <2>3, <2>5, <3>2
  <2> QED BY <1>1, <2>4, <2>5
<1> QED BY <1>5, <1>6 DEF r

\* A sequence with one of its elements taken out.
LEMMA TakenOut ==
  ASSUME NEW S, NEW s \in Seq(S), NEW k \in DOMAIN s, NoTwice(s)
  PROVE  /\ RemoveAt(s, k) \in Seq(S) /\ NoTwice(RemoveAt(s, k))
         /\ ToSet(RemoveAt(s, k)) = ToSet(s) \ {s[k]}
<1> DEFINE r == RemoveAt(s, k)
<1>1. Len(s) \in Nat /\ DOMAIN s = 1..Len(s) /\ k \in 1..Len(s)
  OBVIOUS
<1>2. r \in Seq(S) /\ Len(r) = Len(s) - 1 /\ DOMAIN r = 1..(Len(s) - 1)
  <2>1. RemoveAt(s, k) \in Seq(S) /\ Len(RemoveAt(s, k)) = Len(s) - 1
    BY <1>1, Removed, Zenon
  <2> QED BY <2>1
<1>3. \A n \in 1..(Len(s) - 1) : r[n] = IF n < k THEN s[n] ELSE s[n + 1]
  BY <1>1, Removed
<1>4. NoTwice(r)
  <2>1. \A i, j \in 1..Len(s) : s[i] = s[j] => i = j
    BY <1>1 DEF NoTwice
  <2>2. \A m, n \in 1..(Len(s) - 1) : r[m] = r[n] => m = n
    BY <1>1, <1>3, <2>1, GapClosed
  <2> QED BY <1>2, <2>2 DEF NoTwice
<1>5. ASSUME NEW d
      PROVE  (\E n \in DOMAIN r : r[n] = d) <=> (\E n \in DOMAIN s : s[n] = d) /\ d # s[k]
  <2>1. ASSUME NEW n \in DOMAIN r, r[n] = d
        PROVE  (\E m \in DOMAIN s : s[m] = d) /\ d # s[k]
    BY <1>1, <1>2, <1>3, <2>1 DEF NoTwice
  <2>2. ASSUME NEW n \in DOMAIN s, s[n] = d, d # s[k]
        PROVE  \E m \in DOMAIN r : r[m] = d
    <3>1. CASE n < k
      BY <1>1, <1>2, <1>3, <2>2, <3>1
    <3>2. CASE n > k
      <4>1. n - 1 \in 1..(Len(s) - 1) /\ r[n - 1] = s[n]
        BY <1>1, <1>2, <1>3, <2>2, <3>2
      <4> QED BY <1>2, <2>2, <4>1
    <3> QED BY <1>1, <2>2, <3>1, <3>2
  <2> QED BY <2>1, <2>2
<1>6. ToSet(r) = ToSet(s) \ {s[k]}
  BY <1>5, Zenon DEF ToSet
<1> QED BY <1>2, <1>4, <1>6 DEF r

-----------------------------------------------------------------------------
(* The first element of a kind                                             *)

\* A set of numbers has a least one.
LEMMA LeastNumber ==
  ASSUME NEW T, T \subseteq Nat, T # {}
  PROVE  Min(T) \in T /\ \A n \in T : Min(T) <= n
<1>1. IsWellFoundedOn(OpToRel(<, Nat), Nat)
  BY NatLessThanWellFounded
<1>2. \E x \in T : \A y \in T : ~(<<y, x>> \in OpToRel(<, Nat))
  BY <1>1, WFMin, Zenon
<1>3. PICK x \in T : \A y \in T : ~(<<y, x>> \in OpToRel(<, Nat))
  BY <1>2
<1>4. \A y \in T : ~(y < x)
  BY <1>3 DEF OpToRel
<1>5. \A y \in T : x <= y
  BY <1>4
<1> QED BY <1>5, Zenon DEF Min

-----------------------------------------------------------------------------
(* What is computed element by element                                     *)

\* Induction up to a length, for the set of the numbers that have a property.
LEMMA StepByStep ==
  ASSUME NEW L \in Nat, NEW T, 0 \in T, \A n \in 1..L : n - 1 \in T => n \in T
  PROVE  0..L \subseteq T
<1> DEFINE bad == {n \in 0..L : n \notin T}
<1>1. SUFFICES ASSUME bad # {} PROVE FALSE
  OBVIOUS
<1> DEFINE m == Min(bad)
<1>2. bad \subseteq Nat
  OBVIOUS
<1>3. m \in bad /\ \A n \in bad : m <= n
  BY <1>1, <1>2, LeastNumber, Zenon
<1> HIDE DEF m
<1>4. m \in 1..L
  BY <1>3
<1>5. m - 1 \in 0..L /\ m - 1 \notin bad
  BY <1>3, <1>4
<1> QED BY <1>3, <1>4, <1>5

\* Two functions that start alike, and step alike, are alike.
StepAlike(v, w, L) == v[0] = w[0] /\ \A n \in 1..L : v[n - 1] = w[n - 1] => v[n] = w[n]

LEMMA StepsAgree ==
  ASSUME NEW L \in Nat, NEW v, NEW w, StepAlike(v, w, L)
  PROVE  \A n \in 0..L : v[n] = w[n]
<1> DEFINE T == {n \in 0..L : v[n] = w[n]}
<1>1. 0 \in T
  <2>1. 0 \in 0..L
    OBVIOUS
  <2> QED BY <2>1, Zenon DEF StepAlike
<1>2. ASSUME NEW n \in 1..L, n - 1 \in T PROVE n \in T
  <2>1. n \in 0..L
    OBVIOUS
  <2> QED BY <1>2, <2>1, Zenon DEF StepAlike
<1>3. 0..L \subseteq T
  <2> HIDE DEF T
  <2> QED BY <1>1, <1>2, StepByStep, Zenon
<1> QED BY <1>3, Zenon

\* From a first element, and a step for every number, all elements follow.
Follows(w, L, x, step) == w[0] = x /\ \A n \in 1..L : w[n] = step[n][w[n - 1]]

LEMMA StepsExist ==
  ASSUME NEW L \in Nat, NEW X, NEW x \in X, NEW step \in [1..L -> [X -> X]]
  PROVE  \E w \in [0..L -> X] : Follows(w, L, x, step)
<1> DEFINE Is(w, m) == w \in [0..m -> X] /\ w[0] = x /\ \A n \in 1..m : w[n] = step[n][w[n - 1]]
           T == {m \in 0..L : \E w : Is(w, m)}
<1>1. 0 \in T
  <2> DEFINE w == [n \in 0..0 |-> x]
  <2>1. Is(w, 0)
    OBVIOUS
  <2> HIDE DEF w, Is
  <2> QED BY <2>1
<1>2. ASSUME NEW m \in 1..L, m - 1 \in T PROVE m \in T
  <2>1. PICK v : Is(v, m - 1)
    BY <1>2, Zenon
  <2> DEFINE w == [n \in 0..m |-> IF n < m THEN v[n] ELSE step[m][v[m - 1]]]
  <2>2. v[m - 1] \in X /\ step[m] \in [X -> X]
    BY <2>1
  <2>3. w \in [0..m -> X] /\ w[0] = x
    BY <2>1, <2>2
  <2>4. ASSUME NEW n \in 1..m PROVE w[n] = step[n][w[n - 1]]
    <3>1. CASE n < m
      BY <2>1, <3>1
    <3>2. CASE n = m
      BY <3>2
    <3> QED BY <3>1, <3>2
  <2>5. Is(w, m)
    BY <2>3, <2>4, Zenon
  <2>6. m \in 0..L
    OBVIOUS
  <2> HIDE DEF w, Is
  <2> QED BY <2>5, <2>6, Zenon
<1>3. L \in T
  <2> HIDE DEF T
  <2>1. 0..L \subseteq T
    BY <1>1, <1>2, StepByStep, Zenon
  <2>2. L \in 0..L
    OBVIOUS
  <2> QED BY <2>1, <2>2, Zenon
<1> QED BY <1>3, Zenon DEF Follows

\* The last element is replaced, what precedes it is not.
LastPut(s, e) == [s EXCEPT ![Len(s)] = e]

Precedes(front, s, e) == s = Append(front, s[Len(s)]) /\ LastPut(s, e) = Append(front, e)

\* What is not empty is what precedes its last element, and that.
LEMMA LastReplaced ==
  ASSUME NEW S, NEW s \in Seq(S), s # <<>>, NEW new \in S
  PROVE  \E front \in Seq(S) : Precedes(front, s, new)
<1> DEFINE L == Len(s)
           last == s[L]
           put == [s EXCEPT ![L] = new]
           front == SubSeq(s, 1, L - 1)
<1>1. L \in Nat /\ L >= 1 /\ DOMAIN s = 1..L /\ L \in 1..L
  <2>1. L \in Nat /\ DOMAIN s = 1..L
    OBVIOUS
  <2>2. L # 0
    BY NoLength
  <2> QED BY <2>1, <2>2
<1>2. last \in S
  BY <1>1
<1>3. s \in [1..L -> S]
  OBVIOUS
<1>4. front \in Seq(S) /\ Len(front) = L - 1 /\ \A n \in 1..(L - 1) : front[n] = s[n]
  BY <1>1, SubSeqProperties
<1> HIDE DEF L
<1>5. put \in Seq(S) /\ Len(put) = L /\ put[L] = new
  <2>1. put \in [1..L -> S] /\ put[L] = new
    BY <1>1, <1>3
  <2> HIDE DEF put
  <2> QED BY <1>1, <2>1
<1>6. \A n \in 1..(L - 1) : put[n] = s[n]
  BY <1>1, <1>3
<1>7. \A n \in 1..L : n = L \/ n \in 1..(L - 1)
  BY <1>1
<1>8. (L - 1) + 1 = L
  BY <1>1
<1>9. Len(s) = L
  BY DEF L
<1>10. last = s[L]
  OBVIOUS
<1> HIDE DEF last, front, put
<1>11. ASSUME NEW e \in S
       PROVE  /\ Append(front, e) \in Seq(S) /\ Len(Append(front, e)) = L
              /\ Append(front, e)[L] = e
              /\ \A n \in 1..(L - 1) : Append(front, e)[n] = s[n]
  <2>1. /\ Append(front, e) \in Seq(S) /\ Len(Append(front, e)) = Len(front) + 1
        /\ Append(front, e)[Len(front) + 1] = e
        /\ \A n \in 1..Len(front) : Append(front, e)[n] = front[n]
    BY <1>4, AppendProperties
  <2> QED BY <1>4, <1>8, <2>1, Zenon
<1>12. Append(front, last) = s
  <2>1. \A n \in 1..L : Append(front, last)[n] = s[n]
    BY <1>2, <1>7, <1>10, <1>11, Zenon
  <2> QED BY <1>2, <1>9, <1>11, <2>1, SeqEqual, Zenon
<1>13. Append(front, new) = put
  <2>1. \A n \in 1..L : Append(front, new)[n] = put[n]
    BY <1>5, <1>6, <1>7, <1>11, Zenon
  <2> QED BY <1>5, <1>11, <2>1, SeqEqual, Zenon
<1> QED BY <1>4, <1>12, <1>13, Zenon DEF L, last, put, LastPut, Precedes

\* A finite set in some order.
LEMMA InSomeOrder ==
  ASSUME NEW S, IsFiniteSet(S)
  PROVE  LET order == SetToSeq(S)
         IN  order \in Seq(S) /\ \A e \in S : \E n \in 1..Len(order) : order[n] = e
<1> DEFINE L == Cardinality(S)
           order == SetToSeq(S)
<1>1. L \in Nat /\ ExistsBijection(1..L, S)
  BY FS_CardinalityType
<1>2. \E f \in [1..L -> S] : IsInjective(f)
  BY <1>1, Zenon DEF ExistsBijection, Bijection, Injection
<1>3. order \in [1..L -> S] /\ IsInjective(order)
  BY <1>2, Zenon DEF SetToSeq
<1> HIDE DEF L, order
<1>4. IsFiniteSet(1..L) /\ Cardinality(1..L) = L
  BY <1>1, FS_Interval
<1>5. order \in Injection(1..L, S)
  BY <1>3, Zenon DEF Injection
<1>6. order \in Surjection(1..L, S)
  BY <1>4, <1>5, FS_Injection, Zenon DEF L
<1>7. \A e \in S : \E n \in 1..L : order[n] = e
  BY <1>6, Zenon DEF Surjection
<1>8. order \in Seq(S) /\ Len(order) = L
  BY <1>1, <1>3
<1> QED BY <1>7, <1>8, Zenon DEF order
=============================================================================
