----------------------- MODULE CorrelationStore_proofs -----------------------
(* What the correlation engine computes and what its store keeps, for any   *)
(* catalogue of observations, any windows and limits, any number of         *)
(* evaluations, and whatever analysts merge and split, statement by         *)
(* statement, while they run.                                               *)
EXTENDS CorrelationStore, FiniteSetTheorems, SequenceTheorems, WellFoundedInduction,
        NaturalsInduction, FunctionTheorems, TLAPS

-----------------------------------------------------------------------------
(* Lists.                                                                  *)

IsSeq(s) == s \in Seq(ToSet(s))

LEMMA SeqFacts ==
    ASSUME NEW s, IsSeq(s)
    PROVE  /\ Len(s) \in Nat /\ DOMAIN s = 1..Len(s)
           /\ \A n \in DOMAIN s : s[n] \in ToSet(s)
BY LenProperties DEF IsSeq, ToSet

LEMMA OfSeq ==
    ASSUME NEW S, NEW s \in Seq(S)
    PROVE  /\ IsSeq(s) /\ Len(s) \in Nat /\ DOMAIN s = 1..Len(s)
           /\ \A n \in DOMAIN s : s[n] \in S
<1>1. Len(s) \in Nat /\ DOMAIN s = 1..Len(s) /\ s \in [1..Len(s) -> S]
  BY LenProperties
<1>2. s = [n \in 1..Len(s) |-> s[n]]
  BY <1>1
<1>3. \A n \in 1..Len(s) : s[n] \in ToSet(s)
  BY <1>1 DEF ToSet
<1>4. [n \in 1..Len(s) |-> s[n]] \in Seq(ToSet(s))
  BY <1>1, <1>3, IsASeq
<1> QED
  BY <1>1, <1>2, <1>4 DEF IsSeq

LEMMA SeqIn ==
    ASSUME NEW S, NEW s, IsSeq(s), \A n \in DOMAIN s : s[n] \in S
    PROVE  s \in Seq(S)
BY SeqMonotonic DEF IsSeq, ToSet

(* A function on 1..N is a sequence.                                       *)
LEMMA Listed ==
    ASSUME NEW N \in Nat, NEW s, s = [n \in 1..N |-> s[n]]
    PROVE  IsSeq(s) /\ Len(s) = N
<1>1. DOMAIN s = 1..N
  OBVIOUS
<1>2. \A n \in 1..N : s[n] \in ToSet(s)
  BY <1>1 DEF ToSet
<1>3. [n \in 1..N |-> s[n]] \in Seq(ToSet(s))
  BY <1>2, IsASeq
<1> QED
  BY <1>3, <1>1, OfSeq DEF IsSeq

LEMMA Joined ==
    ASSUME NEW s, NEW t, IsSeq(s), IsSeq(t)
    PROVE  /\ IsSeq(s \o t) /\ Len(s \o t) = Len(s) + Len(t)
           /\ \A n \in 1..Len(s) : (s \o t)[n] = s[n]
           /\ \A n \in 1..Len(t) : (s \o t)[Len(s) + n] = t[n]
<1> DEFINE S == ToSet(s) \cup ToSet(t)
<1>1. s \in Seq(S) /\ t \in Seq(S) /\ Len(s) \in Nat /\ Len(t) \in Nat
  BY SeqMonotonic, SeqFacts DEF IsSeq
<1>2. /\ s \o t \in Seq(S) /\ Len(s \o t) = Len(s) + Len(t)
      /\ \A n \in 1..(Len(s) + Len(t)) : (s \o t)[n] = IF n <= Len(s) THEN s[n] ELSE t[n - Len(s)]
  BY <1>1, ConcatProperties
<1>3. IsSeq(s \o t)
  BY <1>2, OfSeq
<1> QED
  BY <1>1, <1>2, <1>3

(* f runs through the steps one by one, from b.                            *)
Steps(S, N) == [1..N -> [S -> S]]
Solves(f, S, N, b, step) ==
    /\ f \in [0..N -> S]
    /\ f[0] = b /\ \A n \in 1..N : f[n] = step[n][f[n - 1]]

(* A recursion along 1..N has a solution: otherwise take the least length  *)
(* for which there is none, and extend the solution one shorter.           *)
LEMMA Recursion ==
    ASSUME NEW S, NEW N \in Nat, NEW b \in S, NEW step \in Steps(S, N)
    PROVE  \E f : Solves(f, S, N, b, step)
<1> DEFINE Some(m) == \E f : Solves(f, S, m, b, step)
           T == {m \in 0..N : ~Some(m)}
<1>1. SUFFICES ASSUME T # {} PROVE FALSE
  <2> HIDE DEF Some
  <2>1. N \in 0..N
    OBVIOUS
  <2>2. Some(N)
    BY <2>1
  <2> QED
    BY <2>2 DEF Some
<1>2. T \subseteq 0..N /\ 0..N \subseteq Nat
  <2> HIDE DEF Some
  <2> QED
    OBVIOUS
<1>3. PICK m \in T : \A k \in T : ~ (<<k, m>> \in OpToRel(<, Nat))
  BY <1>1, <1>2, NatLessThanWellFounded, WFMin
<1>4. \A k \in T : ~ (k < m)
  BY <1>2, <1>3 DEF OpToRel
<1>5. m \in 0..N /\ ~Some(m)
  OBVIOUS
<1>6. CASE m = 0
  <2> DEFINE f == [n \in 0..0 |-> b]
  <2>1. Solves(f, S, m, b, step)
    BY <1>6 DEF Solves
  <2> QED
    BY <1>5, <2>1
<1>7. CASE m # 0
  <2>1. m - 1 \in 0..N /\ m - 1 < m
    BY <1>5, <1>7
  <2>2. m - 1 \notin T
    BY <1>4, <2>1
  <2>3. PICK f : Solves(f, S, m - 1, b, step)
    BY <2>1, <2>2
  <2> DEFINE g == [n \in 0..m |-> IF n = m THEN step[m][f[m - 1]] ELSE f[n]]
  <2>4. m \in 1..N /\ m - 1 \in 0..(m - 1)
    BY <1>5, <1>7
  <2>5. step[m][f[m - 1]] \in S
    BY <2>3, <2>4 DEF Solves, Steps
  <2>6. \A n \in 0..m : n # m => n \in 0..(m - 1)
    BY <2>4
  <2>7. g \in [0..m -> S]
    BY <2>3, <2>5, <2>6 DEF Solves
  <2>8. g[0] = b
    BY <1>7, <2>3, <2>4 DEF Solves
  <2>9. \A n \in 1..m : g[n] = step[n][g[n - 1]]
    <3> SUFFICES ASSUME NEW n \in 1..m PROVE g[n] = step[n][g[n - 1]]
      OBVIOUS
    <3>1. n - 1 \in 0..m /\ n \in 0..m /\ n - 1 # m
      BY <2>4
    <3>2. g[n - 1] = f[n - 1]
      BY <3>1
    <3>3. CASE n = m
      BY <3>1, <3>2, <3>3
    <3>4. CASE n # m
      <4>1. n \in 1..(m - 1)
        BY <2>4, <3>4
      <4>2. f[n] = step[n][f[n - 1]]
        BY <2>3, <4>1 DEF Solves
      <4> QED
        BY <3>1, <3>2, <3>4, <4>2
    <3> QED
      BY <3>3, <3>4
  <2>10. Solves(g, S, m, b, step)
    BY <2>7, <2>8, <2>9 DEF Solves
  <2> QED
    BY <1>5, <2>10
<1> QED
  BY <1>6, <1>7

LEMMA Upward ==
    ASSUME NEW S, NEW N \in Nat, NEW h, h[0] \in S, \A n \in 1..N : h[n - 1] \in S => h[n] \in S
    PROVE  \A n \in 0..N : h[n] \in S
<1> DEFINE T == {n \in 0..N : h[n] \notin S}
<1>1. SUFFICES ASSUME T # {} PROVE FALSE
  OBVIOUS
<1>2. T \subseteq Nat
  OBVIOUS
<1>3. PICK n \in T : \A k \in T : ~ (<<k, n>> \in OpToRel(<, Nat))
  BY <1>1, <1>2, NatLessThanWellFounded, WFMin
<1>4. \A k \in T : ~ (k < n)
  BY <1>2, <1>3 DEF OpToRel
<1>5. n \in 1..N /\ n - 1 \in 0..N /\ n - 1 < n
  OBVIOUS
<1>6. h[n - 1] \in S
  BY <1>4, <1>5
<1> QED
  BY <1>5, <1>6

LEMMA Climb ==
    ASSUME NEW N \in Nat, NEW T, 0 \in T, \A n \in 1..N : n - 1 \in T => n \in T
    PROVE  0..N \subseteq T
<1> DEFINE h == [n \in 0..N |-> n]
<1>1. h[0] \in T /\ \A n \in 1..N : h[n - 1] \in T => h[n] \in T
  OBVIOUS
<1>2. \A n \in 0..N : h[n] \in T
  <2> HIDE DEF h
  <2> QED
    BY <1>1, Upward
<1> QED
  BY <1>2

(* Picking goes one element after the other.                               *)
PickedBy(h, s, I) ==
    /\ h[0] = <<>>
    /\ \A n \in 1..Len(s) : h[n] = IF n \in I THEN Append(h[n - 1], s[n]) ELSE h[n - 1]
LEMMA PickedSteps ==
    ASSUME NEW S, NEW s \in Seq(S), NEW I
    PROVE  \E h : PickedBy(h, s, I) /\ Picked(s, I) = h[Len(s)] /\ \A n \in 0..Len(s) : h[n] \in Seq(S)
<1> DEFINE N == Len(s)
           step == [n \in 1..N |-> [u \in Seq(S) |-> IF n \in I THEN Append(u, s[n]) ELSE u]]
           Body(g) == [n \in 0..N |-> IF n = 0 THEN <<>>
                                      ELSE IF n \in I THEN Append(g[n - 1], s[n]) ELSE g[n - 1]]
<1>1. N \in Nat /\ \A n \in 1..N : s[n] \in S
  BY LenProperties, ElementOfSeq
<1>2. step \in Steps(Seq(S), N)
  BY <1>1 DEF Steps
<1>3. PICK f : Solves(f, Seq(S), N, <<>>, step)
  <2>1. \A M \in Nat : \A b \in Seq(S) : \A st \in Steps(Seq(S), M) : \E f : Solves(f, Seq(S), M, b, st)
    BY Recursion
  <2>2. <<>> \in Seq(S)
    OBVIOUS
  <2> HIDE DEF N, step
  <2> QED
    BY <1>1, <1>2, <2>1, <2>2
<1>4. f \in [0..N -> Seq(S)] /\ f[0] = <<>>
      /\ \A n \in 1..N : f[n] = IF n \in I THEN Append(f[n - 1], s[n]) ELSE f[n - 1]
  <2>1. f \in [0..N -> Seq(S)] /\ f[0] = <<>>
    BY <1>3 DEF Solves
  <2> SUFFICES ASSUME NEW n \in 1..N PROVE f[n] = IF n \in I THEN Append(f[n - 1], s[n]) ELSE f[n - 1]
    BY <2>1
  <2>2. f[n - 1] \in Seq(S)
    BY <1>1, <2>1
  <2> QED
    BY <1>3, <2>2 DEF Solves
<1>5. f = Body(f)
  <2> HIDE DEF N
  <2>1. \A n \in 0..N : n # 0 => n \in 1..N
    BY <1>1
  <2>2. \A n \in 0..N : f[n] = IF n = 0 THEN <<>> ELSE IF n \in I THEN Append(f[n - 1], s[n]) ELSE f[n - 1]
    BY <1>4, <2>1
  <2>3. f = [n \in 0..N |-> f[n]]
    BY <1>4
  <2> QED
    BY <2>2, <2>3
<1>6. PICK h : h = (CHOOSE g : g = Body(g))
  OBVIOUS
<1>7. h = Body(h)
  <2> HIDE DEF Body
  <2> QED
    BY <1>5, <1>6
<1>8. Picked(s, I) = h[N]
  BY <1>6 DEF Picked
<1>11. \A n \in 0..N : h[n] = IF n = 0 THEN <<>> ELSE IF n \in I THEN Append(h[n - 1], s[n]) ELSE h[n - 1]
  <2> DEFINE b == Body(h)
  <2>1. \A n \in 0..N : b[n] = IF n = 0 THEN <<>> ELSE IF n \in I THEN Append(h[n - 1], s[n]) ELSE h[n - 1]
    <3> HIDE DEF N
    <3> QED
      OBVIOUS
  <2>2. h = b
    BY <1>7
  <2> HIDE DEF b
  <2> QED
    BY <2>1, <2>2
<1>9. h[0] \in Seq(S) /\ \A n \in 1..N : h[n - 1] \in Seq(S) => h[n] \in Seq(S)
  <2>1. h[0] = <<>>
    BY <1>1, <1>11
  <2> SUFFICES ASSUME NEW n \in 1..N, h[n - 1] \in Seq(S) PROVE h[n] \in Seq(S)
    BY <2>1
  <2>2. h[n] = IF n \in I THEN Append(h[n - 1], s[n]) ELSE h[n - 1]
    <3>1. n \in 0..N /\ n # 0
      BY <1>1
    <3> QED
      BY <1>11, <3>1
  <2> QED
    BY <1>1, <2>2
<1>10. \A n \in 0..N : h[n] \in Seq(S)
  <2> HIDE DEF N
  <2> QED
    BY <1>1, <1>9, Upward
<1>12. h[0] = <<>>
  BY <1>1, <1>11
<1>13. ASSUME NEW n \in 1..N PROVE h[n] = IF n \in I THEN Append(h[n - 1], s[n]) ELSE h[n - 1]
  <2>1. n \in 0..N /\ n # 0
    BY <1>1
  <2> QED
    BY <1>11, <2>1
<1>14. PickedBy(h, s, I)
  BY <1>12, <1>13 DEF PickedBy
<1> QED
  BY <1>8, <1>10, <1>14

LEMMA Chosen ==
    ASSUME NEW S, NEW s \in Seq(S), NEW I
    PROVE  Picked(s, I) \in Seq(S)
<1>1. Len(s) \in Nat
  BY LenProperties
<1> QED
  BY <1>1, PickedSteps

(* What is picked, and where it stood: every position in I once, in order.  *)
Places(t, n, s, I, p) ==
    /\ p \in [DOMAIN t -> {m \in 1..n : m \in I}]
    /\ \A a, b \in DOMAIN t : a < b => p[a] < p[b]
    /\ \A m \in 1..n : m \in I => \E a \in DOMAIN t : p[a] = m
    /\ \A a \in DOMAIN t : t[a] = s[p[a]]
LEMMA PickedPlaces ==
    ASSUME NEW S, NEW s \in Seq(S), NEW I
    PROVE  \E p : Places(Picked(s, I), Len(s), s, I, p)
<1>1. PICK h : PickedBy(h, s, I) /\ Picked(s, I) = h[Len(s)] /\ \A n \in 0..Len(s) : h[n] \in Seq(S)
  BY PickedSteps
<1>2. PICK N \in Nat : N = Len(s)
  BY LenProperties
<1>3. \A n \in 1..N : s[n] \in S
  BY <1>2, ElementOfSeq
<1> DEFINE Placed(n) == \E p : Places(h[n], n, s, I, p)
           T == {n \in 0..N : Placed(n)}
<1>4. Placed(0)
  <2>1. h[0] = <<>> /\ DOMAIN h[0] = {}
    BY <1>1, EmptySeq DEF PickedBy
  <2>2. Places(h[0], 0, s, I, [a \in {} |-> 0])
    BY <2>1 DEF Places
  <2> QED
    BY <2>2
<1>5. ASSUME NEW n \in 1..N, Placed(n - 1) PROVE Placed(n)
  <2>1. n \in Nat \ {0} /\ n - 1 \in 0..N /\ n \in 0..N
    BY <1>5
  <2>2. PICK p : Places(h[n - 1], n - 1, s, I, p)
    BY <1>5
  <2>3. PICK t : t = h[n - 1]
    OBVIOUS
  <2>4. PICK L \in Nat : L = Len(t) /\ DOMAIN t = 1..L /\ t \in Seq(S)
    BY <1>1, <1>2, <2>1, <2>3, LenProperties
  <2>5. h[n] = IF n \in I THEN Append(t, s[n]) ELSE t
    BY <1>1, <1>2, <2>3 DEF PickedBy
  <2>6. CASE n \notin I
    <3>1. \A m \in 1..n : m \in I => m \in 1..(n - 1)
      BY <2>1, <2>6
    <3>2. Places(h[n], n, s, I, p)
      BY <2>1, <2>2, <2>3, <2>5, <2>6, <3>1 DEF Places
    <3> QED
      BY <3>2
  <2>7. CASE n \in I
    <3>1. /\ h[n] = Append(t, s[n]) /\ DOMAIN h[n] = 1..(L + 1)
          /\ \A a \in 1..L : h[n][a] = t[a]
          /\ h[n][L + 1] = s[n]
      BY <1>3, <2>4, <2>5, <2>7, AppendProperties
    <3> DEFINE q == [a \in 1..(L + 1) |-> IF a = L + 1 THEN n ELSE p[a]]
    <3>2. \A a \in 1..L : p[a] \in 1..(n - 1) /\ p[a] \in I /\ t[a] = s[p[a]]
      BY <2>2, <2>3, <2>4 DEF Places
    <3>3. \A a \in 1..(L + 1) : a = L + 1 \/ a \in 1..L
      BY <2>4
    <3>4. q \in [DOMAIN h[n] -> {m \in 1..n : m \in I}]
      BY <2>1, <2>7, <3>1, <3>2, <3>3
    <3>5. \A a, b \in 1..(L + 1) : a < b => q[a] < q[b]
      <4> SUFFICES ASSUME NEW a \in 1..(L + 1), NEW b \in 1..(L + 1), a < b PROVE q[a] < q[b]
        OBVIOUS
      <4>1. a \in 1..L /\ a # L + 1
        BY <2>4
      <4>2. CASE b = L + 1
        BY <2>1, <3>2, <4>1, <4>2
      <4>3. CASE b # L + 1
        <5>1. p[a] < p[b]
          BY <2>2, <2>3, <2>4, <3>3, <4>1, <4>3 DEF Places
        <5> QED
          BY <4>1, <4>3, <5>1
      <4> QED
        BY <4>2, <4>3
    <3>6. \A m \in 1..n : m \in I => \E a \in 1..(L + 1) : q[a] = m
      <4> SUFFICES ASSUME NEW m \in 1..n, m \in I PROVE \E a \in 1..(L + 1) : q[a] = m
        OBVIOUS
      <4>1. CASE m = n
        <5>1. L + 1 \in 1..(L + 1)
          BY <2>4
        <5> QED
          BY <4>1, <5>1
      <4>2. CASE m # n
        <5>1. m \in 1..(n - 1)
          BY <2>1, <4>2
        <5>2. PICK a \in 1..L : p[a] = m
          BY <2>2, <2>3, <2>4, <5>1 DEF Places
        <5>3. a \in 1..(L + 1) /\ a # L + 1
          BY <2>4
        <5> QED
          BY <5>2, <5>3
      <4> QED
        BY <4>1, <4>2
    <3>7. \A a \in 1..(L + 1) : h[n][a] = s[q[a]]
      BY <3>1, <3>2, <3>3
    <3> HIDE DEF q
    <3>8. Places(h[n], n, s, I, q)
      BY <3>1, <3>4, <3>5, <3>6, <3>7 DEF Places
    <3> QED
      BY <3>8
  <2> QED
    BY <2>6, <2>7
<1>6. N \in T
  <2>1. 0 \in T
    BY <1>4
  <2>2. \A n \in 1..N : n - 1 \in T => n \in T
    <3> HIDE DEF Placed
    <3> SUFFICES ASSUME NEW n \in 1..N, n - 1 \in T PROVE n \in T
      OBVIOUS
    <3>1. n \in 0..N /\ Placed(n - 1)
      OBVIOUS
    <3>3. Placed(n)
      BY <1>5, <3>1
    <3> QED
      BY <3>1, <3>3
  <2>3. N \in 0..N
    OBVIOUS
  <2> HIDE DEF T
  <2> QED
    BY <2>1, <2>2, <2>3, Climb
<1>7. Placed(N)
  <2> HIDE DEF Placed
  <2> QED
    BY <1>6
<1> QED
  BY <1>1, <1>2, <1>7

(* Joining lists goes one list after the other.                            *)
JoinedBy(h, ss) == \A n \in 1..Len(ss) : h[n] = IF n = 1 THEN ss[n] ELSE h[n - 1] \o ss[n]
LEMMA FlattenSteps ==
    ASSUME NEW S, NEW ss \in Seq(Seq(S))
    PROVE  \E h : JoinedBy(h, ss) /\ FlattenSeq(ss) = IF Len(ss) = 0 THEN ss ELSE h[Len(ss)]
<1> DEFINE N == Len(ss)
           step == [n \in 1..N |-> [u \in Seq(S) |-> IF n = 1 THEN ss[n] ELSE u \o ss[n]]]
           Body(g) == [i \in 1..N |-> IF i = 1 THEN ss[i] ELSE g[i - 1] \o ss[i]]
<1>1. N \in Nat /\ \A n \in 1..N : ss[n] \in Seq(S)
  BY LenProperties, ElementOfSeq
<1>2. step \in Steps(Seq(S), N)
  BY <1>1 DEF Steps
<1>3. PICK f : Solves(f, Seq(S), N, <<>>, step)
  <2>1. \A M \in Nat : \A b \in Seq(S) : \A st \in Steps(Seq(S), M) : \E f : Solves(f, Seq(S), M, b, st)
    BY Recursion
  <2>2. <<>> \in Seq(S)
    OBVIOUS
  <2> HIDE DEF N, step
  <2> QED
    BY <1>1, <1>2, <2>1, <2>2
<1>4. \A n \in 1..N : f[n] \in Seq(S) /\ f[n] = IF n = 1 THEN ss[n] ELSE f[n - 1] \o ss[n]
  <2>1. f \in [0..N -> Seq(S)]
    BY <1>3 DEF Solves
  <2>2. ASSUME NEW n \in 1..N PROVE f[n] = IF n = 1 THEN ss[n] ELSE f[n - 1] \o ss[n]
    <3>1. f[n - 1] \in Seq(S)
      BY <1>1, <2>1
    <3> QED
      BY <1>3, <3>1 DEF Solves
  <2>3. \A n \in 1..N : f[n] \in Seq(S)
    <3> HIDE DEF N
    <3> QED
      BY <1>1, <2>1
  <2> QED
    BY <2>2, <2>3
<1> DEFINE g0 == [n \in 1..N |-> f[n]]
<1>5. g0 = Body(g0)
  BY <1>1, <1>4
<1>6. PICK h : h = (CHOOSE g : g = Body(g))
  OBVIOUS
<1>7. h = Body(h)
  <2> HIDE DEF g0, N
  <2> QED
    BY <1>5, <1>6
<1>8. FlattenSeq(ss) = IF N = 0 THEN ss ELSE h[N]
  BY <1>6 DEF FlattenSeq
<1>11. \A n \in 1..N : h[n] = IF n = 1 THEN ss[n] ELSE h[n - 1] \o ss[n]
  <2> DEFINE b == Body(h)
  <2>1. \A n \in 1..N : b[n] = IF n = 1 THEN ss[n] ELSE h[n - 1] \o ss[n]
    <3> HIDE DEF N
    <3> QED
      OBVIOUS
  <2>2. h = b
    BY <1>7
  <2> HIDE DEF b
  <2> QED
    BY <2>1, <2>2
<1> QED
  BY <1>8, <1>11 DEF JoinedBy

LEMMA JoinedIn ==
    ASSUME NEW S, NEW ss \in Seq(Seq(S)), NEW h, JoinedBy(h, ss)
    PROVE  \A n \in 1..Len(ss) : h[n] \in Seq(S)
<1> DEFINE N == Len(ss)
<1>1. N \in Nat /\ \A n \in 1..N : ss[n] \in Seq(S)
  BY LenProperties, ElementOfSeq
<1>11. \A n \in 1..N : h[n] = IF n = 1 THEN ss[n] ELSE h[n - 1] \o ss[n]
  BY DEF JoinedBy
<1>12. \A n \in 1..N : h[n] \in Seq(S)
  <2> DEFINE k == [n \in 0..N |-> IF n = 0 THEN <<>> ELSE h[n]]
  <2>1. k[0] \in Seq(S) /\ \A n \in 1..N : k[n - 1] \in Seq(S) => k[n] \in Seq(S)
    <3>1. k[0] \in Seq(S)
      BY <1>1, EmptySeq
    <3>4. ASSUME NEW n \in 1..N, k[n - 1] \in Seq(S) PROVE k[n] \in Seq(S)
      <4>1. n \in 0..N /\ n # 0 /\ n - 1 \in 0..N
        BY <1>1
      <4>2. k[n] = h[n] /\ h[n] = IF n = 1 THEN ss[n] ELSE h[n - 1] \o ss[n]
        BY <1>11, <4>1
      <4>3. n # 1 => k[n - 1] = h[n - 1]
        BY <4>1
      <4> HIDE DEF k
      <4>4. CASE n = 1
        BY <1>1, <4>2, <4>4
      <4>5. CASE n # 1
        BY <1>1, <3>4, <4>2, <4>3, <4>5
      <4> QED
        BY <4>4, <4>5
    <3> HIDE DEF k
    <3> QED
      BY <3>1, <3>4
  <2>2. \A n \in 0..N : k[n] \in Seq(S)
    <3> HIDE DEF N, k
    <3> QED
      BY <1>1, <2>1, Upward
  <2>3. \A n \in 1..N : n \in 0..N /\ n # 0
    BY <1>1
  <2> QED
    BY <2>2, <2>3
<1> QED
  BY <1>12

(* What a list of lists holds, its lists hold.                             *)
LEMMA Flattened ==
    ASSUME NEW S, NEW ss \in Seq(Seq(S))
    PROVE  FlattenSeq(ss) \in Seq(S)
<1>1. PICK h : JoinedBy(h, ss) /\ FlattenSeq(ss) = IF Len(ss) = 0 THEN ss ELSE h[Len(ss)]
  BY FlattenSteps
<1>2. Len(ss) \in Nat
  BY LenProperties
<1>3. CASE Len(ss) = 0
  BY <1>1, <1>3, EmptySeq
<1>4. CASE Len(ss) # 0
  BY <1>1, <1>2, <1>4, JoinedIn
<1> QED
  BY <1>3, <1>4


-----------------------------------------------------------------------------
(* What the catalogue gives.                                               *)

Obs == ToSet(Catalog)
Ids == {Catalog[i].id : i \in DOMAIN Catalog}
Distinct(s) == s \in Seq(Obs) /\ \A i, j \in DOMAIN s : s[i].id = s[j].id => i = j
ObsPairs == {p \in Obs \X Obs : p[1].id # p[2].id}
\* The relations, provenances and strategies an edge can name.
Words == {"observed_on", "followed_by", "associated_with", "enriched_by", "observed", "inferred",
          "asset", "detection", "identity", "intelligence", "network", "temporal"}
Edges == {x \in [src : Ids, dst : Ids, rel : Words, prov : Words, conf : DOMAIN Rank,
                 strategy : Words] : x.src # x.dst}

LEMMA CatalogFacts ==
    /\ Distinct(Catalog) /\ IsFiniteSet(Ids) /\ Ids \subseteq Nat
    /\ \A o \in Obs : /\ o.id \in Ids /\ o.at \in Nat /\ o.severity \in (-1)..4
                      /\ o.conf \in DOMAIN Rank
    /\ \A o, p \in Obs : o.id = p.id => o = p
    /\ DOMAIN ById = Ids /\ \A n \in Ids : ById[n] \in Obs /\ ById[n].id = n
<1>1. /\ Catalog \in Seq(ToSet(Catalog))
      /\ \A i, j \in DOMAIN Catalog : Catalog[i].id = Catalog[j].id => i = j
      /\ \A i \in DOMAIN Catalog :
           /\ Catalog[i].id \in Nat /\ Catalog[i].at \in Nat /\ Catalog[i].severity \in (-1)..4
           /\ Catalog[i].conf \in DOMAIN Rank
  BY CatalogShape
<1>2. \A o \in Obs : \E i \in DOMAIN Catalog : o = Catalog[i]
  BY DEF Obs, ToSet
<1>3. PICK N \in Nat : DOMAIN Catalog = 1..N
  BY <1>1, LenProperties
<1>4. IsFiniteSet(Ids)
  <2> DEFINE f == [i \in 1..N |-> Catalog[i].id]
  <2>1. f \in Surjection(1..N, Ids)
    BY <1>3 DEF Surjection, Ids
  <2>2. IsFiniteSet(1..N)
    BY <1>3, FS_Interval
  <2> QED
    BY <2>1, <2>2, FS_Surjection
<1>5. \A n \in Ids : \E o \in Obs : o.id = n
  BY DEF Ids, Obs, ToSet
<1>6. Obs = {Catalog[i] : i \in DOMAIN Catalog}
  BY DEF Obs, ToSet
<1>7. DOMAIN ById = Ids /\ \A n \in Ids : ById[n] = CHOOSE o \in Obs : o.id = n
  BY <1>6 DEF ById, Ids
<1>8. Ids \subseteq Nat
  BY <1>1 DEF Ids
<1>9. \A n \in Ids : ById[n] \in Obs /\ ById[n].id = n
  BY <1>5, <1>7
<1>10. Distinct(Catalog)
  BY <1>1 DEF Distinct, Obs
<1>11. \A o \in Obs : o.id \in Ids
  BY <1>2 DEF Ids
<1>12. \A o, p \in Obs : o.id = p.id => o = p
  BY <1>1, <1>2
<1> QED
  BY <1>1, <1>2, <1>4, <1>7, <1>8, <1>9, <1>10, <1>11, <1>12

LEMMA DistinctPicked ==
    ASSUME NEW s, Distinct(s), NEW I
    PROVE  /\ Distinct(Picked(s, I))
           /\ \A a \in DOMAIN Picked(s, I) : \E i \in DOMAIN s : i \in I /\ Picked(s, I)[a] = s[i]
<1>1. s \in Seq(Obs)
  BY DEF Distinct
<1>2. PICK p : Places(Picked(s, I), Len(s), s, I, p)
  BY <1>1, PickedPlaces
<1>3. PICK t : t = Picked(s, I)
  OBVIOUS
<1>4. t \in Seq(Obs)
  BY <1>1, <1>3, Chosen
<1>5. PICK N \in Nat : N = Len(s) /\ DOMAIN s = 1..N
  BY <1>1, LenProperties
<1>6. PICK M \in Nat : DOMAIN t = 1..M
  BY <1>4, LenProperties
<1>7. \A a \in 1..M : p[a] \in 1..N /\ p[a] \in I /\ t[a] = s[p[a]]
  BY <1>2, <1>3, <1>5, <1>6 DEF Places
<1>8. ASSUME NEW a \in 1..M, NEW b \in 1..M, t[a].id = t[b].id PROVE a = b
  <2>1. p[a] = p[b]
    BY <1>5, <1>7, <1>8 DEF Distinct
  <2>2. ~(a < b) /\ ~(b < a)
    BY <1>2, <1>3, <1>6, <1>7, <2>1 DEF Places
  <2> QED
    BY <2>2
<1> QED
  BY <1>3, <1>4, <1>5, <1>6, <1>7, <1>8 DEF Distinct

(* Sorting by time only moves the elements about: the place of an element,  *)
(* the number of those not after it, is another for every element.          *)
LEMMA Sorted ==
    ASSUME NEW S, NEW s \in Seq(S), \A k \in DOMAIN s : s[k].at \in Int
    PROVE  \E p \in Injection(DOMAIN s, DOMAIN s) : ByTime(s) = [i \in DOMAIN s |-> s[p[i]]]
<1>1. PICK N \in Nat : DOMAIN s = 1..N
  BY LenProperties
<1> DEFINE Before(k) == {j \in 1..N : s[j].at < s[k].at \/ (s[j].at = s[k].at /\ j <= k)}
           Place(k) == Cardinality(Before(k))
           place == [k \in 1..N |-> Place(k)]
           p == [i \in 1..N |-> CHOOSE k \in 1..N : Place(k) = i]
<1>2. IsFiniteSet(1..N) /\ Cardinality(1..N) = N
  BY FS_Interval
<1>3. ASSUME NEW k \in 1..N
      PROVE  /\ IsFiniteSet(Before(k)) /\ Place(k) \in 1..N
             /\ \A T \in SUBSET Before(k) : Cardinality(T) = Place(k) => T = Before(k)
  <2>1. Before(k) \in SUBSET (1..N) /\ k \in Before(k)
    BY <1>1, <1>3
  <2> HIDE DEF Before
  <2>2. IsFiniteSet(Before(k)) /\ Cardinality(Before(k)) <= N
    BY <1>2, <2>1, FS_Subset
  <2>3. Cardinality(Before(k)) \in Nat /\ Cardinality(Before(k)) # 0
    BY <2>1, <2>2, FS_CardinalityType, FS_EmptySet
  <2>4. \A T \in SUBSET Before(k) : Cardinality(T) = Place(k) => T = Before(k)
    BY <2>2, FS_Subset
  <2> QED
    BY <2>2, <2>3, <2>4
<1>4. ASSUME NEW k \in 1..N, NEW l \in 1..N, s[k].at < s[l].at \/ (s[k].at = s[l].at /\ k < l)
      PROVE  Place(k) # Place(l)
  <2>1. \A j \in 1..N : s[j].at \in Int
    BY <1>1
  <2>2. Before(k) \subseteq Before(l)
    BY <1>4, <2>1
  <2>3. l \in Before(l) /\ l \notin Before(k)
    BY <1>4, <2>1
  <2> HIDE DEF Before
  <2> QED
    BY <1>3, <2>2, <2>3
<1>5. ASSUME NEW k \in 1..N, NEW l \in 1..N, Place(k) = Place(l) PROVE k = l
  <2> HIDE DEF Place
  <2>1. s[k].at \in Int /\ s[l].at \in Int
    BY <1>1
  <2>2. ~(s[k].at < s[l].at \/ (s[k].at = s[l].at /\ k < l))
    BY <1>4, <1>5
  <2>3. ~(s[l].at < s[k].at \/ (s[l].at = s[k].at /\ l < k))
    BY <1>4, <1>5
  <2> QED
    BY <2>1, <2>2, <2>3
<1>6. ByTime(s) = [i \in 1..N |-> s[CHOOSE k \in 1..N : Place(k) = i]]
  BY <1>1 DEF ByTime
<1> HIDE DEF Place
<1>7. place \in Injection(1..N, 1..N)
  BY <1>3, <1>5 DEF Injection, IsInjective
<1>8. place \in Surjection(1..N, 1..N)
  <2> HIDE DEF place
  <2> QED
    BY <1>2, <1>7, FS_Injection
<1>9. \A i \in 1..N : p[i] \in 1..N /\ Place(p[i]) = i
  BY <1>8 DEF Surjection
<1>10. \A i \in 1..N : p[i] = CHOOSE k \in 1..N : Place(k) = i
  OBVIOUS
<1>11. ByTime(s) = [i \in 1..N |-> s[p[i]]]
  BY <1>6, <1>10
<1>12. p \in [1..N -> 1..N]
  BY <1>9
<1> HIDE DEF p
<1>13. p \in Injection(1..N, 1..N)
  BY <1>9, <1>12 DEF Injection, IsInjective
<1> QED
  BY <1>1, <1>11, <1>13

LEMMA DistinctByTime ==
    ASSUME NEW s, Distinct(s)
    PROVE  Distinct(ByTime(s))
<1>1. s \in Seq(Obs)
  BY DEF Distinct
<1>2. PICK N \in Nat : N = Len(s) /\ DOMAIN s = 1..N /\ \A k \in 1..N : s[k] \in Obs
  BY <1>1, LenProperties, ElementOfSeq
<1>3. \A k \in DOMAIN s : s[k].at \in Int
  BY <1>2, CatalogFacts
<1>4. PICK p \in Injection(1..N, 1..N) : ByTime(s) = [i \in 1..N |-> s[p[i]]]
  BY <1>1, <1>2, <1>3, Sorted
<1>5. PICK t : t = ByTime(s)
  OBVIOUS
<1>6. /\ t = [i \in 1..N |-> t[i]] /\ DOMAIN t = 1..N
      /\ \A i \in 1..N : t[i] = s[p[i]] /\ p[i] \in 1..N
  BY <1>4, <1>5 DEF Injection
<1>7. t \in Seq(Obs)
  BY <1>2, <1>6, Listed, SeqIn
<1>8. \A i, j \in 1..N : t[i].id = t[j].id => i = j
  BY <1>2, <1>4, <1>6 DEF Distinct, Injection, IsInjective
<1> QED
  BY <1>5, <1>6, <1>7, <1>8 DEF Distinct

LEMMA DistinctPrefix ==
    ASSUME NEW s, Distinct(s), NEW k \in 0..Len(s)
    PROVE  Distinct(SubSeq(s, 1, k))
<1>1. s \in Seq(Obs)
  BY DEF Distinct
<1>2. PICK N \in Nat : N = Len(s) /\ DOMAIN s = 1..N /\ \A i \in 1..N : s[i] \in Obs
  BY <1>1, LenProperties, ElementOfSeq
<1>3. k \in Nat /\ k <= N /\ \A i \in 1..k : i \in 1..N
  BY <1>2
<1>4. /\ SubSeq(s, 1, k) \in Seq(Obs) /\ Len(SubSeq(s, 1, k)) = k
      /\ \A i \in 1..k : SubSeq(s, 1, k)[i] = s[i]
  BY <1>2, <1>3, SubSeqProperties
<1>5. DOMAIN SubSeq(s, 1, k) = 1..k
  BY <1>4, LenProperties
<1> QED
  BY <1>2, <1>3, <1>4, <1>5 DEF Distinct

LEMMA Paired ==
    ASSUME NEW s, Distinct(s)
    PROVE  Pairs(s) \in Seq(ObsPairs)
<1>1. s \in Seq(Obs)
  BY DEF Distinct
<1>2. PICK N \in Nat : N = Len(s) /\ DOMAIN s = 1..N /\ \A i \in 1..N : s[i] \in Obs
  BY <1>1, LenProperties, ElementOfSeq
<1> DEFINE row(i) == [k \in 1..(N - i) |-> <<s[i], s[i + k]>>]
           ss == [i \in 1..N |-> row(i)]
<1>3. ASSUME NEW i \in 1..N PROVE row(i) \in Seq(ObsPairs)
  <2>1. N - i \in Nat
    BY <1>2
  <2>2. \A k \in 1..(N - i) : i + k \in 1..N /\ i + k # i
    BY <1>2
  <2>3. \A k \in 1..(N - i) : <<s[i], s[i + k]>> \in ObsPairs
    BY <1>2, <2>2 DEF Distinct, ObsPairs
  <2>4. PICK r : r = row(i)
    OBVIOUS
  <2>5. r = [k \in 1..(N - i) |-> r[k]] /\ \A k \in DOMAIN r : r[k] \in ObsPairs
    BY <2>3, <2>4
  <2>6. r \in Seq(ObsPairs)
    BY <2>1, <2>5, Listed, SeqIn
  <2> QED
    BY <2>4, <2>6
<1>4. ss \in Seq(Seq(ObsPairs))
  <2>1. ss = [i \in 1..N |-> ss[i]] /\ \A i \in DOMAIN ss : ss[i] \in Seq(ObsPairs)
    BY <1>3
  <2> HIDE DEF ss
  <2> QED
    BY <2>1, Listed, SeqIn
<1>5. Pairs(s) = FlattenSeq(ss)
  BY <1>2 DEF Pairs
<1> HIDE DEF ss
<1> QED
  BY <1>4, <1>5, Flattened

LEMMA Linked ==
    ASSUME NEW pairs \in Seq(ObsPairs), NEW related, NEW rel \in Words, NEW prov \in Words,
           NEW conf \in DOMAIN Rank, NEW strategy \in Words
    PROVE  Links(pairs, related, rel, prov, conf, strategy) \in Seq(Edges)
<1> DEFINE I == {k \in DOMAIN pairs : pairs[k] \in related}
<1>1. PICK chosen : chosen = Picked(pairs, I)
  OBVIOUS
<1>2. chosen \in Seq(ObsPairs)
  BY <1>1, Chosen
<1>3. PICK N \in Nat : DOMAIN chosen = 1..N /\ \A i \in 1..N : chosen[i] \in ObsPairs
  BY <1>2, LenProperties, ElementOfSeq
<1>4. PICK t : t = Links(pairs, related, rel, prov, conf, strategy)
  OBVIOUS
<1>5. t = [i \in 1..N |-> [src |-> chosen[i][1].id, dst |-> chosen[i][2].id, rel |-> rel,
                           prov |-> prov, conf |-> conf, strategy |-> strategy]]
  BY <1>1, <1>3, <1>4 DEF Links
<1>6. \A i \in 1..N : /\ chosen[i][1].id \in Ids /\ chosen[i][2].id \in Ids
                      /\ chosen[i][1].id # chosen[i][2].id
  BY <1>3, CatalogFacts DEF ObsPairs
<1>7. \A i \in 1..N : t[i] \in Edges
  BY <1>5, <1>6 DEF Edges
<1>8. t = [i \in 1..N |-> t[i]] /\ DOMAIN t = 1..N
  BY <1>5
<1> QED
  BY <1>4, <1>7, <1>8, Listed, SeqIn

LEMMA Enriched ==
    ASSUME NEW obs, Distinct(obs)
    PROVE  IntelligenceEdges(obs) \in Seq(Edges)
<1> DEFINE R == {i \in DOMAIN obs : obs[i].type = "intelligence_record"}
           M(rec) == {i \in DOMAIN obs : /\ obs[i].type # "intelligence_record" /\ obs[i].ip # None
                                         /\ rec.indicator # None /\ rec.indicator = obs[i].ip}
           Of(rec) == [i \in DOMAIN Picked(obs, M(rec)) |->
                         [src |-> Picked(obs, M(rec))[i].id, dst |-> rec.id, rel |-> "enriched_by",
                          prov |-> "observed", conf |-> rec.conf, strategy |-> "intelligence"]]
<1>1. PICK records : records = Picked(obs, R)
  OBVIOUS
<1>2. /\ Distinct(records)
      /\ \A a \in DOMAIN records : records[a].type = "intelligence_record"
  BY <1>1, DistinctPicked
<1>3. PICK N \in Nat : DOMAIN records = 1..N /\ \A i \in 1..N : records[i] \in Obs
  BY <1>2, LenProperties, ElementOfSeq DEF Distinct
<1>4. ASSUME NEW rec \in Obs, rec.type = "intelligence_record" PROVE Of(rec) \in Seq(Edges)
  <2> HIDE DEF M
  <2>1. PICK t : t = Picked(obs, M(rec))
    OBVIOUS
  <2>2. Distinct(t) /\ \A a \in DOMAIN t : t[a].type # "intelligence_record"
    BY <2>1, DistinctPicked DEF M
  <2>3. PICK m \in Nat : DOMAIN t = 1..m /\ \A i \in 1..m : t[i] \in Obs
    BY <2>2, LenProperties, ElementOfSeq DEF Distinct
  <2>4. \A i \in 1..m : t[i].id # rec.id
    BY <1>4, <2>2, <2>3, CatalogFacts
  <2>5. PICK u : u = Of(rec)
    OBVIOUS
  <2>6. u = [i \in 1..m |-> [src |-> t[i].id, dst |-> rec.id, rel |-> "enriched_by",
                             prov |-> "observed", conf |-> rec.conf, strategy |-> "intelligence"]]
    BY <2>1, <2>3, <2>5
  <2>7. \A i \in 1..m : u[i] \in Edges
    BY <2>3, <2>4, <2>6, CatalogFacts DEF Edges, Words
  <2>8. u = [i \in 1..m |-> u[i]] /\ DOMAIN u = 1..m
    BY <2>6
  <2> QED
    BY <2>5, <2>7, <2>8, Listed, SeqIn
<1> DEFINE ss == [i \in 1..N |-> Of(records[i])]
<1>5. IntelligenceEdges(obs) = FlattenSeq(ss)
  BY <1>1, <1>3 DEF IntelligenceEdges
<1> HIDE DEF Of
<1>6. ss \in Seq(Seq(Edges))
  <2>1. ss = [i \in 1..N |-> ss[i]] /\ \A i \in DOMAIN ss : ss[i] \in Seq(Edges)
    BY <1>2, <1>3, <1>4
  <2> HIDE DEF ss
  <2> QED
    BY <2>1, Listed, SeqIn
<1> HIDE DEF ss
<1> QED
  BY <1>5, <1>6, Flattened

LEMMA StrategyEdges ==
    ASSUME NEW obs, Distinct(obs), NEW strategy
    PROVE  EdgesOf(strategy, obs) \in Seq(Edges)
<1>1. /\ "low" \in DOMAIN Rank /\ "medium" \in DOMAIN Rank /\ "high" \in DOMAIN Rank
  BY DEF Rank
<1>11. /\ "observed_on" \in Words /\ "followed_by" \in Words /\ "associated_with" \in Words
      /\ "observed" \in Words /\ "inferred" \in Words /\ "asset" \in Words /\ "detection" \in Words
      /\ "identity" \in Words /\ "network" \in Words /\ "temporal" \in Words
  BY DEF Words
<1>2. \A related : \A rel, prov, st \in Words : \A conf \in DOMAIN Rank : \A pairs \in Seq(ObsPairs) :
        Links(pairs, related, rel, prov, conf, st) \in Seq(Edges)
  BY Linked
<1>3. Pairs(obs) \in Seq(ObsPairs) /\ Pairs(ByTime(obs)) \in Seq(ObsPairs)
  BY Paired, DistinctByTime
<1>4. \A I : Pairs(Picked(obs, I)) \in Seq(ObsPairs) /\ Pairs(ByTime(Picked(obs, I))) \in Seq(ObsPairs)
  BY Paired, DistinctByTime, DistinctPicked
<1>5. AssetEdges(obs) \in Seq(Edges)
  BY <1>1, <1>2, <1>3, <1>11 DEF AssetEdges
<1>6. DetectionEdges(obs) \in Seq(Edges)
  BY <1>1, <1>2, <1>4, <1>11 DEF DetectionEdges
<1>7. IdentityEdges(obs) \in Seq(Edges)
  BY <1>1, <1>2, <1>4, <1>11 DEF IdentityEdges
<1>8. NetworkEdges(obs) \in Seq(Edges)
  BY <1>1, <1>2, <1>3, <1>11 DEF NetworkEdges
<1>9. TemporalEdges(obs) \in Seq(Edges)
  BY <1>1, <1>2, <1>3, <1>11 DEF TemporalEdges
<1>10. <<>> \in Seq(Edges) /\ IntelligenceEdges(obs) \in Seq(Edges)
  BY EmptySeq, Enriched
<1> QED
  BY <1>5, <1>6, <1>7, <1>8, <1>9, <1>10 DEF EdgesOf

LEMMA Correlated ==
    ASSUME NEW obs, Distinct(obs)
    PROVE  Correlate(obs) \in Seq(Edges)
<1> DEFINE k == IF Len(obs) < MaxCandidates THEN Len(obs) ELSE MaxCandidates
<1>1. Len(obs) \in Nat /\ MaxCandidates \in Nat
  BY CorrelationBounds, LenProperties DEF Distinct
<1>2. k \in 0..Len(obs)
  BY <1>1
<1>3. PICK input : input = SubSeq(obs, 1, k)
  OBVIOUS
<1>4. Distinct(input)
  BY <1>2, <1>3, DistinctPrefix
<1> DEFINE ss == [i \in DOMAIN Active |-> EdgesOf(Active[i], input)]
<1>5. DOMAIN Active = 1..6
  BY DEF Active
<1>6. ss \in Seq(Seq(Edges))
  <2>1. ss = [i \in 1..6 |-> ss[i]] /\ \A i \in DOMAIN ss : ss[i] \in Seq(Edges)
    BY <1>4, <1>5, StrategyEdges
  <2> HIDE DEF ss
  <2> QED
    BY <2>1, Listed, SeqIn
<1>7. Correlate(obs) = DedupEdges(FlattenSeq(ss))
  BY <1>3 DEF Correlate
<1> HIDE DEF ss
<1>8. FlattenSeq(ss) \in Seq(Edges)
  BY <1>6, Flattened
<1> QED
  BY <1>7, <1>8, Chosen DEF DedupEdges

-----------------------------------------------------------------------------
(* The graph, and its components.                                          *)

GraphSet == {g \in [nodes : SUBSET Ids, edges : Seq(Edges)] :
               \A i \in DOMAIN g.edges : {g.edges[i].src, g.edges[i].dst} \subseteq g.nodes}

LEMMA GraphFacts ==
    ASSUME NEW g \in GraphSet
    PROVE  /\ g.nodes \subseteq Ids /\ g.edges \in Seq(Edges)
           /\ Len(g.edges) \in Nat /\ DOMAIN g.edges = 1..Len(g.edges)
           /\ \A i \in 1..Len(g.edges) : /\ g.edges[i] \in Edges
                                         /\ g.edges[i].src \in g.nodes /\ g.edges[i].dst \in g.nodes
<1>1. g.edges \in Seq(Edges) /\ g.nodes \subseteq Ids
  BY DEF GraphSet
<1>2. Len(g.edges) \in Nat /\ DOMAIN g.edges = 1..Len(g.edges) /\ \A i \in 1..Len(g.edges) : g.edges[i] \in Edges
  BY <1>1, LenProperties, ElementOfSeq
<1> QED
  BY <1>1, <1>2 DEF GraphSet

LEMMA EdgeAdded ==
    ASSUME NEW g \in GraphSet, NEW x \in Edges
    PROVE  AddEdge(g, x) \in GraphSet
<1> DEFINE Grow(nodes, n) == IF Cardinality(nodes) < MaxNodes THEN nodes \cup {n} ELSE nodes
<1>1. PICK nodes : nodes = Grow(Grow(g.nodes, x.src), x.dst)
  OBVIOUS
<1>2. g.nodes \subseteq nodes /\ nodes \subseteq g.nodes \cup {x.src, x.dst}
  BY <1>1
<1>3. nodes \subseteq Ids
  BY <1>2, GraphFacts DEF Edges
<1>4. g = [nodes |-> g.nodes, edges |-> g.edges]
  BY DEF GraphSet
<1>5. PICK N \in Nat : N = Len(g.edges) /\ DOMAIN g.edges = 1..N
  BY GraphFacts
<1>6. [nodes |-> nodes, edges |-> g.edges] \in GraphSet
  BY <1>2, <1>3, <1>5, GraphFacts DEF GraphSet
<1>7. ASSUME {x.src, x.dst} \subseteq nodes PROVE [nodes |-> nodes, edges |-> Append(g.edges, x)] \in GraphSet
  <2>1. PICK t : t = Append(g.edges, x)
    OBVIOUS
  <2>2. t \in Seq(Edges) /\ DOMAIN t = 1..(N + 1) /\ t[N + 1] = x /\ \A i \in 1..N : t[i] = g.edges[i]
    BY <1>5, <2>1, GraphFacts, AppendProperties, LenProperties
  <2>3. \A i \in 1..(N + 1) : t[i].src \in nodes /\ t[i].dst \in nodes
    <3> SUFFICES ASSUME NEW i \in 1..(N + 1) PROVE t[i].src \in nodes /\ t[i].dst \in nodes
      OBVIOUS
    <3>1. i = N + 1 \/ i \in 1..N
      BY <1>5
    <3>2. CASE i = N + 1
      BY <1>7, <2>2, <3>2
    <3>3. CASE i \in 1..N
      <4>1. g.edges[i].src \in g.nodes /\ g.edges[i].dst \in g.nodes
        BY <1>5, <3>3, GraphFacts
      <4>2. t[i] = g.edges[i]
        BY <2>2, <3>3
      <4> QED
        BY <1>2, <4>1, <4>2
    <3> QED
      BY <3>1, <3>2, <3>3
  <2>4. PICK h : h = [nodes |-> nodes, edges |-> t]
    OBVIOUS
  <2>5. h \in [nodes : SUBSET Ids, edges : Seq(Edges)]
    BY <1>3, <2>2, <2>4
  <2>6. \A i \in DOMAIN h.edges : {h.edges[i].src, h.edges[i].dst} \subseteq h.nodes
    BY <2>2, <2>3, <2>4
  <2> QED
    BY <2>1, <2>4, <2>5, <2>6 DEF GraphSet
<1>8. AddEdge(g, x) = IF Len(g.edges) >= MaxEdges THEN g
                      ELSE IF {x.src, x.dst} \subseteq nodes
                      THEN [nodes |-> nodes, edges |-> Append(g.edges, x)]
                      ELSE [g EXCEPT !.nodes = nodes]
  BY <1>1 DEF AddEdge
<1>9. [g EXCEPT !.nodes = nodes] = [nodes |-> nodes, edges |-> g.edges]
  BY <1>4
<1> HIDE DEF Grow
<1> QED
  BY <1>6, <1>7, <1>8, <1>9

LEMMA GraphBuilt ==
    ASSUME NEW edges \in Seq(Edges)
    PROVE  BuildGraph(edges) \in GraphSet
<1> DEFINE N == Len(edges)
           step == [n \in 1..N |-> [g \in GraphSet |-> AddEdge(g, edges[n])]]
           Body(h) == [n \in 0..N |-> IF n = 0 THEN EmptyGraph ELSE AddEdge(h[n - 1], edges[n])]
<1>1. N \in Nat /\ \A n \in 1..N : edges[n] \in Edges
  BY LenProperties, ElementOfSeq
<1>2. EmptyGraph \in GraphSet
  <2>1. <<>> \in Seq(Edges) /\ DOMAIN <<>> = {}
    BY EmptySeq
  <2> QED
    BY <2>1 DEF EmptyGraph, GraphSet
<1>3. step \in Steps(GraphSet, N)
  BY <1>1, EdgeAdded DEF Steps
<1>4. PICK f : Solves(f, GraphSet, N, EmptyGraph, step)
  <2> HIDE DEF N, step
  <2> QED
    BY <1>1, <1>2, <1>3, Recursion
<1>5. f = Body(f)
  <2>1. f \in [0..N -> GraphSet] /\ f[0] = EmptyGraph
    BY <1>4 DEF Solves
  <2>2. ASSUME NEW n \in 1..N PROVE f[n] = AddEdge(f[n - 1], edges[n])
    <3>1. f[n - 1] \in GraphSet
      BY <1>1, <2>1
    <3> QED
      BY <1>4, <3>1 DEF Solves
  <2> HIDE DEF N
  <2>3. \A n \in 0..N : n # 0 => n \in 1..N
    BY <1>1
  <2>4. \A n \in 0..N : f[n] = IF n = 0 THEN EmptyGraph ELSE AddEdge(f[n - 1], edges[n])
    BY <2>1, <2>2, <2>3
  <2>5. f = [n \in 0..N |-> f[n]]
    BY <2>1
  <2> QED
    BY <2>4, <2>5
<1>6. PICK h : h = (CHOOSE g : g = Body(g))
  OBVIOUS
<1>7. h = Body(h)
  <2> HIDE DEF Body
  <2> QED
    BY <1>5, <1>6
<1>8. BuildGraph(edges) = h[N]
  BY <1>6 DEF BuildGraph
<1>9. \A n \in 0..N : h[n] = IF n = 0 THEN EmptyGraph ELSE AddEdge(h[n - 1], edges[n])
  <2> DEFINE b == Body(h)
  <2>1. \A n \in 0..N : b[n] = IF n = 0 THEN EmptyGraph ELSE AddEdge(h[n - 1], edges[n])
    <3> HIDE DEF N
    <3> QED
      OBVIOUS
  <2>2. h = b
    BY <1>7
  <2> HIDE DEF b
  <2> QED
    BY <2>1, <2>2
<1>10. h[0] \in GraphSet /\ \A n \in 1..N : h[n - 1] \in GraphSet => h[n] \in GraphSet
  <2>1. \A n \in 1..N : n \in 0..N /\ n # 0
    BY <1>1
  <2>2. 0 \in 0..N
    BY <1>1
  <2> HIDE DEF N
  <2> QED
    BY <1>1, <1>2, <1>9, <2>1, <2>2, EdgeAdded
<1>11. N \in 0..N
  BY <1>1
<1> HIDE DEF N
<1> QED
  BY <1>1, <1>8, <1>10, <1>11, Upward

(* The forest after the first n edges: linked nodes have the same root, and *)
(* nodes of the same root are in the same sets closed under those edges.    *)
ClosedUpTo(g, S, n) == \A i \in 1..n : g.edges[i].src \in S <=> g.edges[i].dst \in S
Joins(g, root, n) ==
    /\ root \in [g.nodes -> g.nodes]
    /\ \A i \in 1..n : root[g.edges[i].src] = root[g.edges[i].dst]
    /\ \A a, b \in g.nodes : root[a] = root[b] =>
         \A S \in SUBSET g.nodes : ClosedUpTo(g, S, n) => (a \in S <=> b \in S)

LEMMA UnionJoins ==
    ASSUME NEW g \in GraphSet, NEW n \in 1..Len(g.edges), NEW root, Joins(g, root, n - 1)
    PROVE  Joins(g, Union(root, g.edges[n]), n)
<1>1. PICK x : x = g.edges[n]
  OBVIOUS
<1>2. x.src \in g.nodes /\ x.dst \in g.nodes /\ n \in Nat \ {0} /\ Len(g.edges) \in Nat
  BY <1>1, GraphFacts
<1>3. root \in [g.nodes -> g.nodes]
  BY DEF Joins
<1>4. PICK after : after = Union(root, x)
  OBVIOUS
<1>5. /\ after \in [g.nodes -> g.nodes]
      /\ \A m \in g.nodes : after[m] = IF root[m] = root[x.src] THEN root[x.dst] ELSE root[m]
  BY <1>2, <1>3, <1>4 DEF Union
<1>6. ASSUME NEW i \in 1..n PROVE after[g.edges[i].src] = after[g.edges[i].dst]
  <2>1. g.edges[i].src \in g.nodes /\ g.edges[i].dst \in g.nodes
    BY <1>2, GraphFacts
  <2>2. CASE i = n
    BY <1>1, <1>2, <1>5, <2>2
  <2>3. CASE i # n
    <3>1. i \in 1..(n - 1)
      BY <1>2, <2>3
    <3>2. root[g.edges[i].src] = root[g.edges[i].dst]
      BY <3>1 DEF Joins
    <3> QED
      BY <1>5, <2>1, <3>2
  <2> QED
    BY <2>2, <2>3
<1>7. ASSUME NEW a \in g.nodes, NEW b \in g.nodes, after[a] = after[b],
             NEW S \in SUBSET g.nodes, ClosedUpTo(g, S, n)
      PROVE  a \in S <=> b \in S
  <2>1. ClosedUpTo(g, S, n - 1) /\ (x.src \in S <=> x.dst \in S)
    BY <1>1, <1>2, <1>7 DEF ClosedUpTo
  <2>2. \A p, q \in g.nodes : root[p] = root[q] => (p \in S <=> q \in S)
    BY <2>1 DEF Joins
  <2>3. CASE root[a] = root[x.src] /\ root[b] = root[x.src]
    BY <2>2, <2>3
  <2>4. CASE root[a] = root[x.src] /\ root[b] # root[x.src]
    <3>1. root[b] = root[x.dst]
      BY <1>5, <1>7, <2>4
    <3> QED
      BY <1>2, <2>1, <2>2, <2>4, <3>1
  <2>5. CASE root[a] # root[x.src] /\ root[b] = root[x.src]
    <3>1. root[a] = root[x.dst]
      BY <1>5, <1>7, <2>5
    <3> QED
      BY <1>2, <2>1, <2>2, <2>5, <3>1
  <2>6. CASE root[a] # root[x.src] /\ root[b] # root[x.src]
    BY <1>5, <1>7, <2>2, <2>6
  <2> QED
    BY <2>3, <2>4, <2>5, <2>6
<1>8. Joins(g, after, n)
  BY <1>5, <1>6, <1>7 DEF Joins
<1> QED
  BY <1>1, <1>4, <1>8

LEMMA RootsJoin ==
    ASSUME NEW g \in GraphSet
    PROVE  Joins(g, Roots(g), Len(g.edges))
<1> DEFINE N == Len(g.edges)
           S == [g.nodes -> g.nodes]
           base == [m \in g.nodes |-> m]
           step == [n \in 1..N |-> [r \in S |-> Union(r, g.edges[n])]]
           Body(h) == [n \in 0..N |-> IF n = 0 THEN base ELSE Union(h[n - 1], g.edges[n])]
<1>1. N \in Nat /\ \A n \in 1..N : g.edges[n].src \in g.nodes /\ g.edges[n].dst \in g.nodes
  BY GraphFacts
<1>2. base \in S
  OBVIOUS
<1>3. step \in Steps(S, N)
  <2>1. ASSUME NEW n \in 1..N, NEW r \in S PROVE Union(r, g.edges[n]) \in S
    BY <1>1 DEF Union
  <2> HIDE DEF S, N
  <2> QED
    BY <2>1 DEF Steps
<1>4. PICK f : Solves(f, S, N, base, step)
  <2> HIDE DEF N, step, S, base
  <2> QED
    BY <1>1, <1>2, <1>3, Recursion
<1>5. f = Body(f)
  <2>1. f \in [0..N -> S] /\ f[0] = base
    BY <1>4 DEF Solves
  <2> HIDE DEF S, base
  <2>2. ASSUME NEW n \in 1..N PROVE f[n] = Union(f[n - 1], g.edges[n])
    <3>1. f[n - 1] \in S
      BY <1>1, <2>1
    <3> QED
      BY <1>4, <3>1 DEF Solves
  <2> HIDE DEF N
  <2>3. \A n \in 0..N : n # 0 => n \in 1..N
    BY <1>1
  <2>4. \A n \in 0..N : f[n] = IF n = 0 THEN base ELSE Union(f[n - 1], g.edges[n])
    BY <2>1, <2>2, <2>3
  <2>5. f = [n \in 0..N |-> f[n]]
    BY <2>1
  <2> QED
    BY <2>4, <2>5
<1>6. PICK h : h = (CHOOSE k : k = Body(k))
  OBVIOUS
<1>7. h = Body(h)
  <2> HIDE DEF Body
  <2> QED
    BY <1>5, <1>6
<1>8. Roots(g) = h[N]
  BY <1>6 DEF Roots
<1>9. \A n \in 0..N : h[n] = IF n = 0 THEN base ELSE Union(h[n - 1], g.edges[n])
  <2> DEFINE b == Body(h)
  <2> HIDE DEF base
  <2>1. \A n \in 0..N : b[n] = IF n = 0 THEN base ELSE Union(h[n - 1], g.edges[n])
    <3> HIDE DEF N
    <3> QED
      OBVIOUS
  <2>2. h = b
    BY <1>7
  <2> HIDE DEF b
  <2> QED
    BY <2>1, <2>2
<1> DEFINE T == {n \in 0..N : Joins(g, h[n], n)}
<1>10. 0 \in T
  <2>1. h[0] = base
    BY <1>1, <1>9
  <2>2. Joins(g, base, 0)
    BY DEF Joins, ClosedUpTo
  <2> HIDE DEF base
  <2> QED
    BY <1>1, <2>1, <2>2
<1>11. ASSUME NEW n \in 1..N, n - 1 \in T PROVE n \in T
  <2>1. n \in 0..N /\ n # 0
    BY <1>1
  <2>2. h[n] = Union(h[n - 1], g.edges[n])
    BY <1>9, <2>1
  <2>3. Joins(g, h[n - 1], n - 1)
    BY <1>11
  <2>4. Joins(g, h[n], n)
    BY <2>2, <2>3, UnionJoins
  <2> QED
    BY <2>1, <2>4
<1>12. N \in T
  <2>1. N \in 0..N
    BY <1>1
  <2> HIDE DEF T, N
  <2> QED
    BY <1>1, <1>10, <1>11, <2>1, Climb
<1> QED
  BY <1>8, <1>12

(* A component: its nodes are linked with each other and with no other.     *)
Component_OK(c) ==
    /\ c = [nodes |-> c.nodes, edges |-> c.edges]
    /\ c.nodes # {} /\ c.nodes \subseteq Ids /\ c.edges \in Seq(Edges)
    /\ \A i \in DOMAIN c.edges : c.edges[i].src \in c.nodes /\ c.edges[i].dst \in c.nodes
LEMMA ComponentParts ==
    ASSUME NEW g \in GraphSet, NEW c \in ConnectedComponents(g)
    PROVE  /\ Component_OK(c)
           /\ \A n \in c.nodes : Reachable(c, n) = c.nodes
           /\ \A d \in ConnectedComponents(g) : c # d => c.nodes \cap d.nodes = {}
<1>1. PICK root : root = Roots(g)
  OBVIOUS
<1>2. Joins(g, root, Len(g.edges)) /\ root \in [g.nodes -> g.nodes]
  BY <1>1, RootsJoin DEF Joins
<1> DEFINE Members(r) == {n \in g.nodes : root[n] = r}
           Inside(r) == {i \in DOMAIN g.edges : g.edges[i].src \in Members(r)}
           Of(r) == [nodes |-> Members(r), edges |-> Picked(g.edges, Inside(r))]
<1>3. ConnectedComponents(g) = {Of(root[n]) : n \in g.nodes}
  BY <1>1 DEF ConnectedComponents
<1>4. PICK r : c = Of(r) /\ \E n \in g.nodes : r = root[n]
  <2> HIDE DEF Of
  <2> QED
    BY <1>3
<1>5. PICK E : E = Picked(g.edges, Inside(r))
  OBVIOUS
<1>6. c.nodes = Members(r) /\ c.edges = E /\ c = [nodes |-> c.nodes, edges |-> c.edges]
  BY <1>4, <1>5
<1>7. PICK N \in Nat : /\ N = Len(g.edges) /\ DOMAIN g.edges = 1..N /\ g.edges \in Seq(Edges) /\ g.nodes \subseteq Ids
                       /\ \A i \in 1..N : g.edges[i].src \in g.nodes /\ g.edges[i].dst \in g.nodes
  BY GraphFacts
<1>8. PICK p : Places(E, N, g.edges, Inside(r), p)
  BY <1>5, <1>7, PickedPlaces
<1>9. E \in Seq(Edges)
  BY <1>5, <1>7, Chosen
<1>10. \A i \in 1..N : root[g.edges[i].src] = root[g.edges[i].dst]
  BY <1>2, <1>7 DEF Joins
<1>11. \A a \in DOMAIN E : \E i \in 1..N : E[a] = g.edges[i] /\ g.edges[i].src \in Members(r)
  BY <1>8 DEF Places
<1>12. \A i \in 1..N : g.edges[i].src \in Members(r) => \E a \in DOMAIN E : E[a] = g.edges[i]
  <2> SUFFICES ASSUME NEW i \in 1..N, g.edges[i].src \in Members(r) PROVE \E a \in DOMAIN E : E[a] = g.edges[i]
    OBVIOUS
  <2>1. i \in Inside(r)
    BY <1>7
  <2>2. PICK a \in DOMAIN E : p[a] = i
    BY <1>8, <2>1 DEF Places
  <2> QED
    BY <1>8, <2>2 DEF Places
<1>13. \A a \in DOMAIN E : E[a].src \in Members(r) /\ E[a].dst \in Members(r)
  BY <1>7, <1>10, <1>11
<1>14. Component_OK(c)
  BY <1>4, <1>6, <1>7, <1>9, <1>13 DEF Component_OK
<1>15. ASSUME NEW n \in Members(r) PROVE Reachable(c, n) = Members(r)
  <2>1. SUFFICES ASSUME NEW m \in Members(r), NEW S \in SUBSET Members(r), n \in S, Closed(c, S) PROVE m \in S
    BY <1>6 DEF Reachable
  <2>2. ASSUME NEW i \in 1..N PROVE g.edges[i].src \in S <=> g.edges[i].dst \in S
    <3>1. CASE g.edges[i].src \in Members(r)
      BY <1>6, <1>12, <2>1, <3>1 DEF Closed
    <3>2. CASE g.edges[i].src \notin Members(r)
      BY <1>7, <1>10, <3>2
    <3> QED
      BY <3>1, <3>2
  <2>3. ClosedUpTo(g, S, N)
    BY <2>2 DEF ClosedUpTo
  <2>4. S \in SUBSET g.nodes /\ n \in g.nodes /\ m \in g.nodes /\ root[n] = root[m]
    OBVIOUS
  <2> QED
    BY <1>2, <1>7, <2>1, <2>3, <2>4 DEF Joins
<1>16. ASSUME NEW d \in ConnectedComponents(g), c # d PROVE c.nodes \cap d.nodes = {}
  <2>1. PICK q : d = Of(q)
    <3> HIDE DEF Of
    <3> QED
      BY <1>3
  <2>2. d.nodes = Members(q)
    BY <2>1
  <2>3. r # q
    <3> HIDE DEF Of
    <3> QED
      BY <1>4, <1>16, <2>1
  <2> QED
    BY <1>6, <2>2, <2>3
<1> QED
  BY <1>6, <1>14, <1>15, <1>16

LEMMA WindowParts ==
    ASSUME NEW w \in Windows, NEW c \in Components[w]
    PROVE  /\ Component_OK(c)
           /\ \A n \in c.nodes : Reachable(c, n) = c.nodes
           /\ \A d \in Components[w] : c # d => c.nodes \cap d.nodes = {}
<1>1. PICK obs : obs = BuildObservations(w)
  OBVIOUS
<1>2. Distinct(obs)
  BY <1>1, CatalogFacts, DistinctPicked DEF BuildObservations
<1>3. PICK g : g = BuildGraph(Correlate(obs))
  OBVIOUS
<1>4. g \in GraphSet
  BY <1>2, <1>3, Correlated, GraphBuilt
<1>5. Components[w] = ConnectedComponents(g)
  BY <1>1, <1>3 DEF Components
<1> QED
  BY <1>4, <1>5, ComponentParts

(* A component is known by its nodes.                                       *)
LEMMA KnownByNodes ==
    ASSUME NEW w \in Windows, NEW nodes \in {c.nodes : c \in Components[w]}
    PROVE  ComponentOf(w, nodes) \in Components[w] /\ ComponentOf(w, nodes).nodes = nodes
<1>1. \E c \in Components[w] : c.nodes = nodes
  OBVIOUS
<1> QED
  BY <1>1 DEF ComponentOf

-----------------------------------------------------------------------------
(* The row of a component.                                                 *)

LEMMA SumInNat ==
    ASSUME NEW s \in Seq(Nat)
    PROVE  SumOf(s) \in Nat
<1> DEFINE N == Len(s)
           step == [n \in 1..N |-> [x \in Nat |-> x + s[n]]]
           Body(h) == [n \in 0..N |-> IF n = 0 THEN 0 ELSE h[n - 1] + s[n]]
<1>1. N \in Nat /\ \A n \in 1..N : s[n] \in Nat
  BY LenProperties, ElementOfSeq
<1>2. step \in Steps(Nat, N)
  BY <1>1 DEF Steps
<1>3. PICK f : Solves(f, Nat, N, 0, step)
  <2> HIDE DEF N, step
  <2> QED
    BY <1>1, <1>2, Recursion
<1>4. f = Body(f)
  <2>1. f \in [0..N -> Nat] /\ f[0] = 0
    BY <1>3 DEF Solves
  <2>2. ASSUME NEW n \in 1..N PROVE f[n] = f[n - 1] + s[n]
    <3>1. f[n - 1] \in Nat
      <4>1. n - 1 \in 0..N
        BY <1>1
      <4> HIDE DEF N
      <4> QED
        BY <2>1, <4>1
    <3> QED
      BY <1>3, <3>1 DEF Solves
  <2> HIDE DEF N
  <2>3. \A n \in 0..N : n # 0 => n \in 1..N
    BY <1>1
  <2>4. \A n \in 0..N : f[n] = IF n = 0 THEN 0 ELSE f[n - 1] + s[n]
    BY <2>1, <2>2, <2>3
  <2>5. f = [n \in 0..N |-> f[n]]
    BY <2>1
  <2> QED
    BY <2>4, <2>5
<1>5. PICK h : h = (CHOOSE k : k = Body(k))
  OBVIOUS
<1>6. h = Body(h)
  <2> HIDE DEF Body
  <2> QED
    BY <1>4, <1>5
<1>7. SumOf(s) = h[N]
  BY <1>5 DEF SumOf
<1>8. \A n \in 0..N : h[n] = IF n = 0 THEN 0 ELSE h[n - 1] + s[n]
  <2> DEFINE b == Body(h)
  <2>1. \A n \in 0..N : b[n] = IF n = 0 THEN 0 ELSE h[n - 1] + s[n]
    <3> HIDE DEF N
    <3> QED
      OBVIOUS
  <2>2. h = b
    BY <1>6
  <2> HIDE DEF b
  <2> QED
    BY <2>1, <2>2
<1>9. h[0] \in Nat /\ \A n \in 1..N : h[n - 1] \in Nat => h[n] \in Nat
  <2>1. 0 \in 0..N /\ \A n \in 1..N : n \in 0..N /\ n # 0
    BY <1>1
  <2> HIDE DEF N
  <2>2. h[0] = 0
    BY <1>8, <2>1
  <2>3. ASSUME NEW n \in 1..N, h[n - 1] \in Nat PROVE h[n] \in Nat
    <3>1. h[n] = h[n - 1] + s[n]
      BY <1>8, <2>1
    <3> QED
      BY <1>1, <2>3, <3>1
  <2> QED
    BY <2>2, <2>3
<1>10. N \in 0..N
  BY <1>1
<1> HIDE DEF N
<1> QED
  BY <1>1, <1>7, <1>9, <1>10, Upward

LEMMA SeverityRange ==
    ASSUME NEW c, Component_OK(c)
    PROVE  MaxSeverity(c, ById) \in (-1)..4
<1> DEFINE ranks == {ById[n].severity : n \in c.nodes}
           T == {k \in 0..5 : 4 - k \in ranks}
<1>1. ranks \subseteq (-1)..4 /\ ranks # {}
  BY CatalogFacts DEF Component_OK
<1>2. PICK r0 \in ranks : r0 \in (-1)..4
  BY <1>1
<1>3. T # {} /\ T \subseteq Nat
  <2> HIDE DEF ranks
  <2>1. 4 - r0 \in 0..5 /\ 4 - (4 - r0) = r0
    BY <1>2
  <2>2. 4 - r0 \in T
    BY <1>2, <2>1
  <2> QED
    BY <2>2
<1>4. PICK k \in T : \A l \in T : ~ (<<l, k>> \in OpToRel(<, Nat))
  BY <1>3, NatLessThanWellFounded, WFMin
<1>5. 4 - k \in ranks /\ k \in 0..5 /\ \A other \in ranks : other <= 4 - k
  <2> HIDE DEF ranks
  <2>1. \A l \in T : ~(l < k)
    BY <1>3, <1>4 DEF OpToRel
  <2>2. ASSUME NEW other \in ranks PROVE other <= 4 - k
    <3>1. other \in (-1)..4 /\ 4 - other \in 0..5 /\ 4 - (4 - other) = other
      BY <1>1
    <3>2. 4 - other \in T
      BY <3>1
    <3>3. ~(4 - other < k) /\ k \in 0..5
      BY <2>1, <3>2
    <3> QED
      BY <3>1, <3>3
  <2> QED
    BY <2>2
<1>6. MaxSeverity(c, ById) = CHOOSE r \in ranks : \A other \in ranks : other <= r
  BY DEF MaxSeverity
<1> HIDE DEF ranks
<1>7. MaxSeverity(c, ById) \in ranks
  BY <1>5, <1>6
<1> QED
  BY <1>1, <1>7

LEMMA ScoreRange ==
    ASSUME NEW c, Component_OK(c)
    PROVE  Score(c, ById) \in 0..100
<1> DEFINE types == {ById[n].type : n \in c.nodes}
           points == [i \in DOMAIN c.edges |-> Points[c.edges[i].conf]]
           worst == MaxSeverity(c, ById)
           verdicts == {ById[n].verdict : n \in c.nodes}
<1>1. IsFiniteSet(c.nodes)
  BY CatalogFacts, FS_Subset DEF Component_OK
<1>2. Cardinality(c.nodes) \in Nat
  BY <1>1, FS_CardinalityType
<1>3. Cardinality(types) \in Nat
  <2> DEFINE f == [n \in c.nodes |-> ById[n].type]
  <2>1. f \in Surjection(c.nodes, types)
    BY DEF Surjection
  <2> HIDE DEF f, types
  <2>2. IsFiniteSet(types)
    BY <1>1, <2>1, FS_Surjection
  <2> QED
    BY <2>2, FS_CardinalityType
<1>4. SumOf(points) \in Nat
  <2>1. PICK N \in Nat : DOMAIN c.edges = 1..N /\ \A i \in 1..N : c.edges[i] \in Edges
    BY LenProperties, ElementOfSeq DEF Component_OK
  <2>2. \A i \in 1..N : c.edges[i].conf \in {"low", "medium", "high"}
    BY <2>1 DEF Edges, Rank
  <2>3. \A conf \in {"low", "medium", "high"} : Points[conf] \in Nat
    BY DEF Points
  <2>4. points = [i \in 1..N |-> points[i]] /\ \A i \in DOMAIN points : points[i] \in Nat
    BY <2>1, <2>2, <2>3
  <2>5. points \in Seq(Nat)
    <3> HIDE DEF points
    <3> QED
      BY <2>1, <2>4, Listed, SeqIn
  <2> HIDE DEF points
  <2> QED
    BY <2>5, SumInNat
<1>5. worst \in (-1)..4
  BY SeverityRange
<1> DEFINE total == (IF Cardinality(c.nodes) > 1 THEN 15 ELSE 0)
                    + Capped(SumOf(points), 40) + Capped(8 * Cardinality(types), 24)
                    + (IF worst = NoSeverity THEN 0 ELSE Capped(6 * worst, 24))
                    + (IF "malicious" \in verdicts THEN 12
                       ELSE IF "suspicious" \in verdicts THEN 6 ELSE 0)
<1>6. Score(c, ById) = Capped(total, 100)
  BY DEF Score
<1> HIDE DEF types, points, worst, verdicts
<1>7. total \in Nat
  <2>1. Capped(SumOf(points), 40) \in Nat
    BY <1>4 DEF Capped
  <2>2. Capped(8 * Cardinality(types), 24) \in Nat
    BY <1>3 DEF Capped
  <2>3. worst # NoSeverity => Capped(6 * worst, 24) \in Nat
    BY <1>5 DEF Capped, NoSeverity
  <2> QED
    BY <2>1, <2>2, <2>3
<1> HIDE DEF total
<1> QED
  BY <1>6, <1>7 DEF Capped

\* The fields of a row, and what every statement leaves valid about it.
RowShape(r) ==
    r = [fingerprint |-> r.fingerprint, status |-> r.status, score |-> r.score,
         confidence |-> r.confidence, severity |-> r.severity, last |-> r.last, inv |-> r.inv,
         mergedInto |-> r.mergedInto, mergedFrom |-> r.mergedFrom, splitFrom |-> r.splitFrom]
RowValues(r) ==
    /\ r.status \in Statuses /\ r.score \in 0..100
    /\ r.severity \in {Severities[i] : i \in DOMAIN Severities} /\ r.confidence \in DOMAIN Rank

LEMMA RowFacts ==
    ASSUME NEW w \in Windows, NEW nodes \in {c.nodes : c \in Components[w]}
    PROVE  LET row == Rows[ComponentOf(w, nodes)] IN
           /\ RowShape(row) /\ RowValues(row) /\ row.fingerprint[1] = nodes
           /\ row.mergedInto = 0 /\ row.splitFrom = 0 /\ row.inv = 0 /\ row.status = "open"
<1>1. PICK c : c = ComponentOf(w, nodes) /\ c \in Components[w] /\ c.nodes = nodes
  BY KnownByNodes
<1>2. Component_OK(c)
  BY <1>1, WindowParts
<1>3. Rows[c] = NewCorrelation(c)
  BY <1>1 DEF Rows, AllComponents
<1>4. PICK row : row = NewCorrelation(c)
  OBVIOUS
<1>5. /\ row.fingerprint = Fingerprint(c, ById) /\ row.status = "open" /\ row.score = Score(c, ById)
      /\ row.confidence = ConfidenceForScore(Score(c, ById))
      /\ row.severity = DeriveSeverity(c, ById, ConfidenceForScore(Score(c, ById)))
      /\ row.inv = 0 /\ row.mergedInto = 0 /\ row.splitFrom = 0
      /\ RowShape(row)
  BY <1>4 DEF NewCorrelation, RowShape
<1>6. row.fingerprint[1] = nodes
  BY <1>1, <1>5 DEF Fingerprint
<1>7. row.score \in 0..100
  BY <1>2, <1>5, ScoreRange
<1>8. row.confidence \in DOMAIN Rank
  BY <1>5 DEF ConfidenceForScore, Rank
<1>9. row.severity \in {Severities[i] : i \in DOMAIN Severities}
  <2>1. MaxSeverity(c, ById) \in (-1)..4
    BY <1>2, SeverityRange
  <2>2. DOMAIN Severities = 1..5 /\ Severities[1] = "informational"
    BY DEF Severities
  <2>3. \A conf : DeriveSeverity(c, ById, conf) \in {Severities[i] : i \in 1..5}
    BY <2>1, <2>2 DEF DeriveSeverity, NoSeverity
  <2> QED
    BY <1>5, <2>2, <2>3
<1>10. row.status \in Statuses
  BY <1>5 DEF Statuses
<1> QED
  BY <1>1, <1>3, <1>4, <1>5, <1>6, <1>7, <1>8, <1>9, <1>10 DEF RowValues

-----------------------------------------------------------------------------
(* The inductive invariant.                                                *)

CorrOK ==
    /\ IsSeq(corr)
    /\ \A c \in DOMAIN corr : /\ RowShape(corr[c]) /\ RowValues(corr[c])
                              /\ corr[c].mergedInto \in 0..Len(corr)
                              /\ corr[c].splitFrom \in 0..Len(corr)
NodeOK ==
    /\ node \in Seq([corr : Nat, ref : Ids, role : Roles])
    /\ \A i \in DOMAIN node : node[i].corr \in DOMAIN corr
    /\ \A i, j \in DOMAIN node : node[i].corr = node[j].corr /\ node[i].ref = node[j].ref => i = j
EdgeOK ==
    \A x \in edge :
      /\ x = [corr |-> x.corr, src |-> x.src, dst |-> x.dst, rel |-> x.rel, strategy |-> x.strategy]
      /\ x.corr \in DOMAIN corr /\ x.src \in DOMAIN node /\ x.dst \in DOMAIN node /\ x.src # x.dst

\* The nodes a correlation was made for, and what identifies an edge outside the table.
NodesFor(c) == corr[c].fingerprint[1]
Key(x) == <<node[x.src].ref, node[x.dst].ref, x.rel, x.strategy>>

\* Nobody merged or split it: it holds nothing but its component.
NodesUnmoved == \A i \in DOMAIN node : node[i].corr \notin moved => node[i].ref \in NodesFor(node[i].corr)
EdgesUnmoved ==
    \A x \in edge : x.corr \notin moved =>
      /\ node[x.src].corr = x.corr /\ node[x.dst].corr = x.corr
      /\ \E w \in Windows : \E c \in Components[w] :
           c.nodes = NodesFor(x.corr) /\ \E k \in DOMAIN c.edges : EdgeKey(c.edges[k]) = Key(x)
MergedMoved == \A c \in DOMAIN corr : corr[c].mergedInto # 0 => c \in moved

TablesOK ==
    /\ CorrOK /\ NodeOK /\ EdgeOK
    /\ NodesUnmoved /\ EdgesUnmoved /\ MergedMoved /\ GraphsHoldTogether

NodeSets(w) == {c.nodes : c \in Components[w]}
EdgesFor(w, nodes) == ComponentOf(w, nodes).edges

\* An evaluation inside a component: whose row it has, the nodes and edges it knows of.
Working == {"nodes", "edges", "chain", "stages"}
EvShape(r) ==
    r = [pc |-> r.pc, window |-> r.window, todo |-> r.todo, nodes |-> r.nodes, id |-> r.id,
         left |-> r.left, ids |-> r.ids, at |-> r.at, clean |-> r.clean]
RowOf(r, x) ==
    [corr |-> r.id, src |-> r.ids[x.src], dst |-> r.ids[x.dst], rel |-> x.rel, strategy |-> x.strategy]
AtOK(r) ==
    /\ r.pc = "nodes" => r.at = 1 /\ r.left # {}
    /\ r.pc # "nodes" => r.left = {}
    /\ r.pc = "edges" => r.at \in 1..Len(EdgesFor(r.window, r.nodes))
Written(r) ==
    IF r.pc = "nodes" THEN 0 ELSE IF r.pc = "edges" THEN r.at - 1 ELSE Len(EdgesFor(r.window, r.nodes))
WorkOK(r) ==
    /\ r.nodes \in NodeSets(r.window) /\ r.left \subseteq r.nodes /\ AtOK(r)
    /\ r.id \in DOMAIN corr /\ NodesFor(r.id) = r.nodes
    /\ r.ids \in [r.nodes -> 0..Len(node)]
    /\ \A n \in r.nodes : r.ids[n] # 0 =>
         node[r.ids[n]].ref = n /\ (r.id \notin moved => node[r.ids[n]].corr = r.id)
    /\ r.clean => \A n \in r.nodes \ r.left : r.ids[n] # 0
    /\ r.clean /\ r.id \notin moved =>
         \A k \in 1..Written(r) : RowOf(r, EdgesFor(r.window, r.nodes)[k]) \in edge
EvOK(e) ==
    /\ EvShape(ev[e]) /\ ev[e].pc \in EvPC
    /\ ev[e].pc \in Working \cup {"component"} =>
         ev[e].window \in Windows /\ ev[e].todo \subseteq NodeSets(ev[e].window)
    /\ ev[e].pc \in Working => WorkOK(ev[e])

StoredIn(s) ==
    /\ s.window \in Windows /\ s.nodes \in NodeSets(s.window)
    /\ s.id \in DOMAIN corr /\ NodesFor(s.id) = s.nodes
    /\ s.id \notin moved =>
         /\ \A n \in s.nodes : \E i \in DOMAIN node : node[i].corr = s.id /\ node[i].ref = n
         /\ \A k \in 1..Len(EdgesFor(s.window, s.nodes)) :
              \E x \in edge : x.corr = s.id /\ Key(x) = EdgeKey(EdgesFor(s.window, s.nodes)[k])

AttOK(a) ==
    /\ att[a] = [pc |-> att[a].pc, id |-> att[a].id, refs |-> att[a].refs, inv |-> att[a].inv]
    /\ att[a].pc \in AttPC /\ (att[a].pc \in {"read", "created"} => att[a].id \in DOMAIN corr)

\* A transaction: where its nodes go, that they can, and what it has seen of their edges
\* and of the correlations it empties.
TxShape(r) ==
    r = [pc |-> r.pc, to |-> r.to, row |-> r.row, from |-> r.from, nodes |-> r.nodes,
         moving |-> r.moving, edges |-> r.edges]
MergeTx(r) == r.pc # "none" /\ r.row = <<>> /\ r.to \in DOMAIN corr
SplitTx(r) ==
    /\ r.pc # "none" /\ r.to = 0 /\ r.from = <<>>
    /\ \E q : /\ r.row = <<q>> /\ RowShape(q) /\ RowValues(q)
             /\ q.mergedInto = 0 /\ q.splitFrom \in DOMAIN corr
SourcesOf(r) == ToSet(r.from) \ {r.to}
Settled(r) == IF r.pc = "edges" THEN r.moving \ r.nodes ELSE r.moving
Reassignable(table, ids, c) ==
    \A i, j \in DOMAIN table : i # j /\ table[i].ref = table[j].ref =>
      (IF i \in ids THEN c ELSE table[i].corr) # (IF j \in ids THEN c ELSE table[j].corr)
EdgesSeen(r) ==
    /\ \A x \in edge : x.src \in Settled(r) \/ x.dst \in Settled(r) => EdgeId(x) \in r.edges
    /\ \A k \in r.edges : k[1] \in r.moving \/ k[2] \in r.moving
SourcesListed(r) == \A c \in SourcesOf(r) : c \notin raced => NodesOf(c) \subseteq r.moving \cup r.nodes
TxOK(r) ==
    /\ TxShape(r) /\ r.pc \in TxPC /\ (MergeTx(r) \/ SplitTx(r) \/ r = NoTx)
    /\ r.from \in Seq(Nat) /\ ToSet(r.from) \subseteq DOMAIN corr
    /\ r.nodes \subseteq DOMAIN node /\ r.moving \subseteq DOMAIN node
    /\ (r.pc = "open" => r.nodes = {}) /\ (r.pc = "edges" => r.nodes \subseteq r.moving)
    /\ Reassignable(node, r.moving, r.to) /\ EdgesSeen(r) /\ SourcesListed(r)
\* Two transactions move different nodes, into one correlation for different references.
Apart(r, s) ==
    /\ \A i \in r.moving : i \notin s.moving
    /\ r.to = s.to /\ r.to # 0 => \A i \in r.moving, j \in s.moving : node[i].ref # node[j].ref
TxInv ==
    /\ tx = [a \in Analysts |-> tx[a]] /\ \A a \in Analysts : TxOK(tx[a])
    /\ \A a, b \in Analysts : a # b => Apart(tx[a], tx[b])

IInv ==
    /\ TablesOK /\ TxInv
    /\ ev = [e \in Evaluators |-> ev[e]] /\ \A e \in Evaluators : EvOK(e)
    /\ att = [a \in Attachers |-> att[a]] /\ \A a \in Attachers : AttOK(a)
    /\ \A s \in stored : StoredIn(s)

\* What no step takes away: rows and what they were made for, nodes and the references
\* they stand for, and whatever belongs to a correlation nobody restructured.
Kept ==
    /\ DOMAIN corr \subseteq DOMAIN corr'
    /\ \A c \in DOMAIN corr : corr'[c].fingerprint = corr[c].fingerprint
    /\ moved \subseteq moved'
    /\ 0..Len(node) \subseteq 0..Len(node') /\ DOMAIN node \subseteq DOMAIN node'
    /\ \A i \in DOMAIN node : /\ node'[i].ref = node[i].ref
                              /\ node'[i].corr = node[i].corr \/ node[i].corr \in moved'
    /\ \A x \in edge : x.corr \notin moved' => x \in edge'

LEMMA TableFacts ==
    ASSUME TablesOK
    PROVE  /\ Len(corr) \in Nat /\ DOMAIN corr = 1..Len(corr)
           /\ Len(node) \in Nat /\ DOMAIN node = 1..Len(node)
           /\ \A i \in DOMAIN node : /\ node[i] = [corr |-> node[i].corr, ref |-> node[i].ref, role |-> node[i].role]
                                     /\ node[i].corr \in DOMAIN corr /\ node[i].corr \in Nat
                                     /\ node[i].ref \in Ids /\ node[i].role \in Roles
<1>1. Len(corr) \in Nat /\ DOMAIN corr = 1..Len(corr)
  BY SeqFacts DEF TablesOK, CorrOK
<1>2. /\ Len(node) \in Nat /\ DOMAIN node = 1..Len(node)
      /\ \A i \in DOMAIN node : node[i] \in [corr : Nat, ref : Ids, role : Roles]
  BY OfSeq DEF TablesOK, NodeOK
<1> QED
  BY <1>1, <1>2 DEF TablesOK, NodeOK

LEMMA WorkKept ==
    ASSUME TablesOK, Kept, NEW r, WorkOK(r)
    PROVE  WorkOK(r)'
<1>1. \A n \in r.nodes : r.ids[n] # 0 => r.ids[n] \in DOMAIN node
  BY TableFacts DEF WorkOK
<1>2. r.id \in DOMAIN corr' /\ NodesFor(r.id)' = r.nodes
  BY DEF WorkOK, Kept, NodesFor
<1>3. r.ids \in [r.nodes -> 0..Len(node')]
  BY DEF WorkOK, Kept
<1>4. ASSUME NEW n \in r.nodes, r.ids[n] # 0
      PROVE  node'[r.ids[n]].ref = n /\ (r.id \notin moved' => node'[r.ids[n]].corr = r.id)
  BY <1>1, <1>4 DEF WorkOK, Kept
<1>5. ASSUME r.clean, r.id \notin moved', NEW k \in 1..Written(r)
      PROVE  RowOf(r, EdgesFor(r.window, r.nodes)[k]) \in edge'
  <2>1. RowOf(r, EdgesFor(r.window, r.nodes)[k]) \in edge
    BY <1>5 DEF WorkOK, Kept
  <2>2. RowOf(r, EdgesFor(r.window, r.nodes)[k]).corr = r.id
    BY DEF RowOf
  <2> QED
    BY <1>5, <2>1, <2>2 DEF Kept
<1> QED
  BY <1>2, <1>3, <1>4, <1>5 DEF WorkOK

LEMMA StoredKept ==
    ASSUME TablesOK, Kept, NEW s, StoredIn(s)
    PROVE  StoredIn(s)'
<1>1. s.id \in DOMAIN corr' /\ NodesFor(s.id)' = s.nodes
  BY DEF StoredIn, Kept, NodesFor
<1>2. ASSUME s.id \notin moved', NEW n \in s.nodes
      PROVE  \E i \in DOMAIN node' : node'[i].corr = s.id /\ node'[i].ref = n
  <2>1. PICK i \in DOMAIN node : node[i].corr = s.id /\ node[i].ref = n
    BY <1>2 DEF StoredIn, Kept
  <2> QED
    BY <1>2, <2>1 DEF Kept
<1>3. ASSUME s.id \notin moved', NEW k \in 1..Len(EdgesFor(s.window, s.nodes))
      PROVE  \E x \in edge' : x.corr = s.id /\ Key(x)' = EdgeKey(EdgesFor(s.window, s.nodes)[k])
  <2>1. PICK x \in edge : x.corr = s.id /\ Key(x) = EdgeKey(EdgesFor(s.window, s.nodes)[k])
    BY <1>3 DEF StoredIn, Kept
  <2>2. x \in edge'
    BY <1>3, <2>1 DEF Kept
  <2>3. x.src \in DOMAIN node /\ x.dst \in DOMAIN node
    BY DEF TablesOK, EdgeOK
  <2>4. Key(x)' = Key(x)
    BY <2>3 DEF Key, Kept
  <2> QED
    BY <2>1, <2>2, <2>4
<1> QED
  BY <1>1, <1>2, <1>3 DEF StoredIn

(* Rows are added or updated, and what they were made for stays.            *)
LEMMA RowsUpdated ==
    ASSUME TablesOK, CorrOK', DOMAIN corr \subseteq DOMAIN corr',
           \A c \in DOMAIN corr : /\ corr'[c].fingerprint = corr[c].fingerprint
                                  /\ corr'[c].mergedInto = corr[c].mergedInto,
           \A c \in DOMAIN corr' : c \notin DOMAIN corr => corr'[c].mergedInto = 0,
           UNCHANGED <<node, edge, moved, raced>>
    PROVE  TablesOK' /\ Kept
<1>1. NodeOK' /\ EdgeOK'
  BY DEF TablesOK, NodeOK, EdgeOK
<1>2. NodesUnmoved'
  BY DEF TablesOK, NodeOK, NodesUnmoved, NodesFor
<1>3. EdgesUnmoved'
  <2> SUFFICES ASSUME NEW x \in edge, x.corr \notin moved
               PROVE  /\ node[x.src].corr = x.corr /\ node[x.dst].corr = x.corr
                      /\ \E w \in Windows : \E c \in Components[w] :
                           c.nodes = NodesFor(x.corr)' /\ \E k \in DOMAIN c.edges : EdgeKey(c.edges[k]) = Key(x)'
    BY DEF EdgesUnmoved
  <2>1. x.corr \in DOMAIN corr
    BY DEF TablesOK, EdgeOK
  <2>2. NodesFor(x.corr)' = NodesFor(x.corr) /\ Key(x)' = Key(x)
    BY <2>1 DEF NodesFor, Key
  <2> QED
    BY <2>2 DEF TablesOK, EdgesUnmoved
<1>4. MergedMoved'
  BY DEF TablesOK, MergedMoved
<1>5. GraphsHoldTogether'
  <2>1. \A c : NodesOf(c)' = NodesOf(c)
    BY DEF NodesOf
  <2>2. \A c \in DOMAIN corr' : corr'[c].mergedInto # 0 => c \in DOMAIN corr /\ corr[c].mergedInto # 0
    OBVIOUS
  <2> QED
    BY <2>1, <2>2 DEF TablesOK, GraphsHoldTogether
<1>6. Kept
  BY DEF Kept
<1> QED
  BY <1>1, <1>2, <1>3, <1>4, <1>5, <1>6 DEF TablesOK

LEMMA RowsUntouched ==
    ASSUME TablesOK, UNCHANGED <<corr, node, edge, moved, raced>>
    PROVE  TablesOK' /\ Kept
<1>1. CorrOK'
  BY DEF TablesOK, CorrOK, RowShape, RowValues
<1> QED
  BY <1>1, RowsUpdated

(* CreateNode, into a correlation that was made for the node.               *)
LEMMA NodeCreated ==
    ASSUME TablesOK, NEW c \in DOMAIN corr, NEW n \in Ids, NEW role \in Roles, n \in NodesFor(c),
           node' = CreateNode(c, n, role),
           NEW R, moved \subseteq R, raced' = IF c \in R THEN raced \cup {c} ELSE raced,
           UNCHANGED <<corr, edge, moved>>
    PROVE  /\ TablesOK' /\ Kept
           /\ \A i \in DOMAIN node : i \in DOMAIN node' /\ node'[i] = node[i]
           /\ \A i \in DOMAIN node' : i \in DOMAIN node \/ (node'[i].corr = c /\ node'[i].ref = n)
           /\ LET i == SavedNode(node', c, n) IN
              i \in DOMAIN node' /\ node'[i].corr = c /\ node'[i].ref = n
<1>1. PICK N \in Nat : N = Len(node) /\ DOMAIN node = 1..N
  BY TableFacts
<1>2. c \in Nat
  BY TableFacts
<1>3. PICK row : row = [corr |-> c, ref |-> n, role |-> role]
  OBVIOUS
<1>4. \/ node' = node /\ \E i \in DOMAIN node : node[i].corr = c /\ node[i].ref = n
      \/ node' = Append(node, row) /\ \A i \in DOMAIN node : ~(node[i].corr = c /\ node[i].ref = n)
  BY <1>3 DEF CreateNode, NodesOf
<1>5. node \in Seq([corr : Nat, ref : Ids, role : Roles]) /\ row \in [corr : Nat, ref : Ids, role : Roles]
  BY <1>2, <1>3 DEF TablesOK, NodeOK
<1>6. PICK M \in {N, N + 1} :
        /\ node' \in Seq([corr : Nat, ref : Ids, role : Roles]) /\ Len(node') = M /\ DOMAIN node' = 1..M
        /\ \A i \in 1..N : node'[i] = node[i]
        /\ M = N + 1 => /\ node'[N + 1] = row
                        /\ \A i \in DOMAIN node : ~(node[i].corr = c /\ node[i].ref = n)
        /\ M = N => \E i \in 1..N : node[i].corr = c /\ node[i].ref = n
  <2>1. CASE node' = node /\ \E i \in DOMAIN node : node[i].corr = c /\ node[i].ref = n
    BY <1>1, <1>5, <2>1
  <2>2. CASE node' = Append(node, row) /\ \A i \in DOMAIN node : ~(node[i].corr = c /\ node[i].ref = n)
    <3>1. PICK t : t = Append(node, row)
      OBVIOUS
    <3>2. /\ t \in Seq([corr : Nat, ref : Ids, role : Roles]) /\ Len(t) = N + 1 /\ DOMAIN t = 1..(N + 1)
          /\ t[N + 1] = row /\ \A i \in 1..N : t[i] = node[i]
      BY <1>1, <1>5, <3>1, AppendProperties, LenProperties
    <3>3. N + 1 # N
      BY <1>1
    <3> QED
      BY <2>2, <3>1, <3>2, <3>3
  <2> QED
    BY <1>4, <2>1, <2>2
<1>7. \A i \in 1..M : i \in 1..N \/ (i = N + 1 /\ M = N + 1 /\ node'[i] = row)
  BY <1>1, <1>6
<1>8. \A i \in 1..N : i \in 1..M
  BY <1>1, <1>6
<1>9. \E i \in DOMAIN node' : node'[i].corr = c /\ node'[i].ref = n
  <2>1. CASE M = N
    BY <1>6, <1>7, <1>8, <2>1
  <2>2. CASE M = N + 1
    <3>1. N + 1 \in DOMAIN node' /\ node'[N + 1] = row
      BY <1>1, <1>6, <2>2
    <3> QED
      BY <1>3, <3>1
  <2> QED
    BY <1>6, <2>1, <2>2
<1>10. NodeOK'
  <2>1. \A i \in DOMAIN node' : node'[i].corr \in DOMAIN corr'
    <3> SUFFICES ASSUME NEW i \in DOMAIN node' PROVE node'[i].corr \in DOMAIN corr
      OBVIOUS
    <3>1. i \in 1..M /\ \A k \in 1..N : k \in DOMAIN node /\ node'[k] = node[k]
      BY <1>1, <1>6
    <3>2. \A k \in DOMAIN node : node[k].corr \in DOMAIN corr
      BY DEF TablesOK, NodeOK
    <3>3. row.corr = c
      BY <1>3
    <3> QED
      BY <1>7, <3>1, <3>2, <3>3
  <2>2. ASSUME NEW i \in 1..M, NEW j \in 1..M, node'[i].corr = node'[j].corr, node'[i].ref = node'[j].ref
        PROVE  i = j
    <3>1. \A k \in 1..N : k \in DOMAIN node /\ node'[k] = node[k]
      BY <1>1, <1>6
    <3>2. \A k, l \in DOMAIN node : node[k].corr = node[l].corr /\ node[k].ref = node[l].ref => k = l
      BY DEF TablesOK, NodeOK
    <3>3. M = N + 1 => \A k \in DOMAIN node : ~(node[k].corr = row.corr /\ node[k].ref = row.ref)
      BY <1>3, <1>6
    <3> QED
      BY <1>7, <2>2, <3>1, <3>2, <3>3
  <2> QED
    BY <1>6, <2>1, <2>2 DEF NodeOK
<1>11. \A x \in edge : /\ x.src \in 1..N /\ x.dst \in 1..N /\ x.corr \in DOMAIN corr
                       /\ node'[x.src] = node[x.src] /\ node'[x.dst] = node[x.dst]
  BY <1>1, <1>6 DEF TablesOK, EdgeOK
<1>12. EdgeOK'
  BY <1>6, <1>8, <1>11 DEF TablesOK, EdgeOK
<1>13. NodesUnmoved'
  <2> SUFFICES ASSUME NEW i \in 1..M, node'[i].corr \notin moved PROVE node'[i].ref \in NodesFor(node'[i].corr)
    BY <1>6 DEF NodesUnmoved, NodesFor
  <2>1. CASE i \in 1..N
    BY <1>1, <1>6, <2>1 DEF TablesOK, NodesUnmoved
  <2>2. CASE node'[i] = row
    BY <1>3, <2>2
  <2> QED
    BY <1>7, <2>1, <2>2
<1>14. EdgesUnmoved'
  <2>1. \A x \in edge : Key(x)' = Key(x) /\ NodesFor(x.corr)' = NodesFor(x.corr)
    BY <1>11 DEF Key, NodesFor
  <2> QED
    BY <1>11, <2>1 DEF TablesOK, EdgesUnmoved
<1>15. MergedMoved' /\ CorrOK'
  BY DEF TablesOK, MergedMoved, CorrOK, RowShape, RowValues
<1>16. GraphsHoldTogether'
  <2>1. ASSUME NEW x \in edge, x.corr \notin raced' PROVE x.corr \in {node'[x.src].corr, node'[x.dst].corr}
    BY <1>11, <2>1 DEF TablesOK, GraphsHoldTogether
  <2>2. ASSUME NEW d \in DOMAIN corr, corr[d].mergedInto # 0, d \notin raced'
        PROVE  NodesOf(d)' = {} /\ \A x \in edge : x.corr # d
    <3>1. d \notin raced /\ d \in moved
      BY <2>2 DEF TablesOK, MergedMoved
    <3>2. d # c
      BY <2>2, <3>1
    <3>3. NodesOf(d) = {} /\ \A x \in edge : x.corr # d
      BY <2>2, <3>1 DEF TablesOK, GraphsHoldTogether
    <3>4. \A i \in 1..M : node'[i].corr # d
      <4>1. ASSUME NEW i \in 1..N PROVE node'[i].corr # d
        <5>1. i \in DOMAIN node /\ node'[i] = node[i]
          BY <1>1, <1>6
        <5> QED
          BY <3>3, <5>1 DEF NodesOf
      <4>2. row.corr # d
        BY <1>3, <3>2
      <4> QED
        BY <1>7, <4>1, <4>2
    <3>5. DOMAIN node' = 1..M
      BY <1>6
    <3> QED
      BY <3>3, <3>4, <3>5 DEF NodesOf
  <2> QED
    BY <2>1, <2>2 DEF GraphsHoldTogether
<1>17. Kept
  BY <1>1, <1>6, <1>8 DEF Kept
<1>18. /\ \A i \in DOMAIN node : i \in DOMAIN node' /\ node'[i] = node[i]
       /\ \A i \in DOMAIN node' : i \in DOMAIN node \/ (node'[i].corr = c /\ node'[i].ref = n)
  BY <1>1, <1>3, <1>6, <1>7, <1>8
<1> QED
  BY <1>18, <1>9, <1>10, <1>12, <1>13, <1>14, <1>15, <1>16, <1>17 DEF TablesOK, SavedNode

(* CreateEdge, for a row whose nodes the evaluation saved.                  *)
LEMMA EdgeCreated ==
    ASSUME TablesOK, NEW row,
           row = [corr |-> row.corr, src |-> row.src, dst |-> row.dst, rel |-> row.rel, strategy |-> row.strategy],
           row.corr \in DOMAIN corr, row.src \in DOMAIN node, row.dst \in DOMAIN node, row.src # row.dst,
           row.corr \notin moved =>
             /\ node[row.src].corr = row.corr /\ node[row.dst].corr = row.corr
             /\ \E w \in Windows : \E c \in Components[w] :
                  c.nodes = NodesFor(row.corr) /\ \E k \in DOMAIN c.edges : EdgeKey(c.edges[k]) = Key(row),
           edge' = edge \cup {row},
           raced' = IF row.corr \in moved THEN raced \cup {row.corr} ELSE raced,
           UNCHANGED <<corr, node, moved>>
    PROVE  TablesOK' /\ Kept
<1>1. CorrOK' /\ NodeOK' /\ MergedMoved'
  BY DEF TablesOK, CorrOK, RowShape, RowValues, NodeOK, MergedMoved
<1>2. EdgeOK'
  BY DEF TablesOK, EdgeOK
<1>3. NodesUnmoved'
  BY DEF TablesOK, NodesUnmoved, NodesFor
<1>4. EdgesUnmoved'
  <2>1. \A x : Key(x)' = Key(x)
    BY DEF Key
  <2>2. \A c : NodesFor(c)' = NodesFor(c)
    BY DEF NodesFor
  <2> SUFFICES ASSUME NEW x \in edge', x.corr \notin moved
               PROVE  /\ node[x.src].corr = x.corr /\ node[x.dst].corr = x.corr
                      /\ \E w \in Windows : \E c \in Components[w] :
                           c.nodes = NodesFor(x.corr) /\ \E k \in DOMAIN c.edges : EdgeKey(c.edges[k]) = Key(x)
    BY <2>1, <2>2 DEF EdgesUnmoved
  <2>3. CASE x = row
    BY <2>3
  <2>4. CASE x \in edge
    BY <2>4 DEF TablesOK, EdgesUnmoved
  <2> QED
    BY <2>3, <2>4
<1>5. GraphsHoldTogether'
  <2>1. ASSUME NEW x \in edge', x.corr \notin raced' PROVE x.corr \in {node[x.src].corr, node[x.dst].corr}
    <3>1. CASE x = row
      BY <2>1, <3>1
    <3>2. CASE x \in edge
      BY <2>1, <3>2 DEF TablesOK, GraphsHoldTogether
    <3> QED
      BY <3>1, <3>2
  <2>2. ASSUME NEW d \in DOMAIN corr, corr[d].mergedInto # 0, d \notin raced'
        PROVE  NodesOf(d)' = {} /\ \A x \in edge' : x.corr # d
    <3>1. d \notin raced /\ d \in moved
      BY <2>2 DEF TablesOK, MergedMoved
    <3>2. d # row.corr
      BY <2>2, <3>1
    <3>3. NodesOf(d) = {} /\ \A x \in edge : x.corr # d
      BY <2>2, <3>1 DEF TablesOK, GraphsHoldTogether
    <3> QED
      BY <3>2, <3>3 DEF NodesOf
  <2> QED
    BY <2>1, <2>2 DEF GraphsHoldTogether
<1>6. Kept
  BY DEF Kept
<1> QED
  BY <1>1, <1>2, <1>3, <1>4, <1>5, <1>6 DEF TablesOK

(* Nodes that change their correlation change nothing else.                 *)
LEMMA Reassigned ==
    ASSUME TablesOK, NEW ids, NEW c \in Nat, CanReassign(ids, c), node' = ReassignNodes(ids, c)
    PROVE  /\ Len(node') = Len(node) /\ DOMAIN node' = DOMAIN node
           /\ node' \in Seq([corr : Nat, ref : Ids, role : Roles])
           /\ \A i \in DOMAIN node : /\ node'[i].ref = node[i].ref
                                     /\ node'[i].corr = IF i \in ids THEN c ELSE node[i].corr
           /\ \A i, j \in DOMAIN node : node'[i].corr = node'[j].corr /\ node'[i].ref = node'[j].ref => i = j
<1>1. PICK N \in Nat : N = Len(node) /\ DOMAIN node = 1..N
  BY TableFacts
<1>2. PICK t : t = ReassignNodes(ids, c)
  OBVIOUS
<1>3. t = [i \in 1..N |-> IF i \in ids THEN [node[i] EXCEPT !.corr = c] ELSE node[i]]
  BY <1>1, <1>2 DEF ReassignNodes
<1>4. \A i \in 1..N : /\ t[i].ref = node[i].ref /\ t[i].corr = IF i \in ids THEN c ELSE node[i].corr
                      /\ t[i] \in [corr : Nat, ref : Ids, role : Roles]
  <2> SUFFICES ASSUME NEW i \in 1..N
               PROVE  /\ t[i].ref = node[i].ref /\ t[i].corr = IF i \in ids THEN c ELSE node[i].corr
                      /\ t[i] \in [corr : Nat, ref : Ids, role : Roles]
    OBVIOUS
  <2>1. /\ node[i] = [corr |-> node[i].corr, ref |-> node[i].ref, role |-> node[i].role]
        /\ node[i].corr \in Nat /\ node[i].ref \in Ids /\ node[i].role \in Roles
    BY <1>1, TableFacts
  <2>2. [node[i] EXCEPT !.corr = c] = [corr |-> c, ref |-> node[i].ref, role |-> node[i].role]
    BY <2>1
  <2> QED
    BY <1>3, <2>1, <2>2
<1>5. t = [i \in 1..N |-> t[i]] /\ DOMAIN t = 1..N
  BY <1>3
<1>6. t \in Seq([corr : Nat, ref : Ids, role : Roles]) /\ Len(t) = N
  BY <1>4, <1>5, Listed, SeqIn
<1>7. \A i, j \in 1..N : i # j => <<t[i].corr, t[i].ref>> # <<t[j].corr, t[j].ref>>
  BY <1>1, <1>3 DEF CanReassign
<1> QED
  BY <1>1, <1>2, <1>4, <1>5, <1>6, <1>7

(* A restructuring: nodes and the edges touching them go to the target; the *)
(* correlations they leave and the target count as restructured.            *)
Restructured(ids, c) ==
    /\ ids \subseteq DOMAIN node /\ c \in DOMAIN corr' /\ c \in Nat
    /\ CanReassign(ids, c) /\ node' = ReassignNodes(ids, c)
    /\ edge' = ReassignEdges(EdgesTouching(ids), c)
    /\ CorrOK' /\ DOMAIN corr \subseteq DOMAIN corr'
    /\ \A d \in DOMAIN corr : corr'[d].fingerprint = corr[d].fingerprint
    /\ moved \subseteq moved' /\ c \in moved' /\ \A i \in ids : node[i].corr \in moved'
    /\ raced \subseteq raced'
LEMMA RestructuredTables ==
    ASSUME TablesOK, NEW ids, NEW c, Restructured(ids, c)
    PROVE  /\ NodeOK' /\ EdgeOK' /\ NodesUnmoved' /\ EdgesUnmoved' /\ Kept
           /\ \A x \in edge' : x.corr \notin raced' => x.corr \in {node'[x.src].corr, node'[x.dst].corr}
           /\ \A x \in edge' : x.corr = c \/ (x \in edge /\ x.src \notin ids /\ x.dst \notin ids)
<1>1. PICK N \in Nat : N = Len(node) /\ DOMAIN node = 1..N
  BY TableFacts
<1>2. /\ Len(node') = N /\ DOMAIN node' = 1..N
      /\ node' \in Seq([corr : Nat, ref : Ids, role : Roles])
      /\ \A i \in 1..N : /\ node'[i].ref = node[i].ref
                         /\ node'[i].corr = IF i \in ids THEN c ELSE node[i].corr
      /\ \A i, j \in 1..N : node'[i].corr = node'[j].corr /\ node'[i].ref = node'[j].ref => i = j
  <2>1. c \in Nat /\ CanReassign(ids, c) /\ node' = ReassignNodes(ids, c)
    BY DEF Restructured
  <2>2. /\ Len(node') = Len(node) /\ DOMAIN node' = DOMAIN node
        /\ node' \in Seq([corr : Nat, ref : Ids, role : Roles])
        /\ \A i \in DOMAIN node : /\ node'[i].ref = node[i].ref
                                  /\ node'[i].corr = IF i \in ids THEN c ELSE node[i].corr
        /\ \A i, j \in DOMAIN node : node'[i].corr = node'[j].corr /\ node'[i].ref = node'[j].ref => i = j
    BY <2>1, Reassigned
  <2> QED
    BY <1>1, <2>2
<1>3. NodeOK'
  BY <1>1, <1>2 DEF Restructured, NodeOK, TablesOK
<1>4. \A x \in edge : /\ x = [corr |-> x.corr, src |-> x.src, dst |-> x.dst, rel |-> x.rel, strategy |-> x.strategy]
                      /\ x.corr \in DOMAIN corr /\ x.src \in 1..N /\ x.dst \in 1..N /\ x.src # x.dst
  BY <1>1 DEF TablesOK, EdgeOK
<1>5. ASSUME NEW x \in edge'
      PROVE  \/ x \in edge /\ x.src \notin ids /\ x.dst \notin ids
             \/ \E y \in edge : /\ y.src \in ids \/ y.dst \in ids
                                /\ x = [corr |-> c, src |-> y.src, dst |-> y.dst, rel |-> y.rel, strategy |-> y.strategy]
  <2>1. x \in {[y EXCEPT !.corr = c] : y \in EdgesTouching(ids)} \/ x \in edge \ EdgesTouching(ids)
    BY DEF Restructured, ReassignEdges
  <2>2. CASE x \in edge \ EdgesTouching(ids)
    BY <2>2 DEF EdgesTouching
  <2>3. CASE x \in {[y EXCEPT !.corr = c] : y \in EdgesTouching(ids)}
    <3>1. PICK y \in EdgesTouching(ids) : x = [y EXCEPT !.corr = c]
      BY <2>3
    <3>2. y \in edge /\ (y.src \in ids \/ y.dst \in ids)
      BY DEF EdgesTouching
    <3>3. y = [corr |-> y.corr, src |-> y.src, dst |-> y.dst, rel |-> y.rel, strategy |-> y.strategy]
      BY <1>4, <3>2
    <3>4. x = [corr |-> c, src |-> y.src, dst |-> y.dst, rel |-> y.rel, strategy |-> y.strategy]
      BY <3>1, <3>3
    <3> QED
      BY <3>2, <3>4
  <2> QED
    BY <2>1, <2>2, <2>3
<1>14. c \in DOMAIN corr' /\ \A d \in DOMAIN corr : d \in DOMAIN corr' /\ corr'[d].fingerprint = corr[d].fingerprint
  BY DEF Restructured
<1>15. moved \subseteq moved' /\ c \in moved' /\ \A i \in ids : node[i].corr \in moved'
  BY DEF Restructured
<1>6. EdgeOK'
  <2> SUFFICES ASSUME NEW x \in edge'
               PROVE  /\ x = [corr |-> x.corr, src |-> x.src, dst |-> x.dst, rel |-> x.rel, strategy |-> x.strategy]
                      /\ x.corr \in DOMAIN corr' /\ x.src \in 1..N /\ x.dst \in 1..N /\ x.src # x.dst
    BY <1>2 DEF EdgeOK
  <2>1. CASE x \in edge
    BY <1>4, <2>1 DEF Restructured
  <2>2. CASE \E y \in edge : x = [corr |-> c, src |-> y.src, dst |-> y.dst, rel |-> y.rel, strategy |-> y.strategy]
    BY <1>4, <2>2 DEF Restructured
  <2> QED
    BY <1>5, <2>1, <2>2
<1>7. NodesUnmoved'
  <2> SUFFICES ASSUME NEW i \in 1..N, node'[i].corr \notin moved'
               PROVE  node'[i].ref \in corr'[node'[i].corr].fingerprint[1]
    BY <1>2 DEF NodesUnmoved, NodesFor
  <2>1. i \notin ids
    BY <1>2 DEF Restructured
  <2>2. node'[i].corr = node[i].corr /\ node[i].corr \notin moved /\ node'[i].ref = node[i].ref
    BY <1>2, <2>1 DEF Restructured
  <2>3. node[i].corr \in DOMAIN corr /\ node[i].ref \in NodesFor(node[i].corr)
    BY <1>1, <2>2 DEF TablesOK, NodesUnmoved, NodeOK
  <2>4. corr'[node'[i].corr].fingerprint[1] = NodesFor(node[i].corr)
    BY <1>14, <2>2, <2>3 DEF NodesFor
  <2> QED
    BY <2>2, <2>3, <2>4
<1>8. ASSUME NEW x \in edge', x.corr \notin moved'
      PROVE  /\ x \in edge /\ x.corr \notin moved /\ x.corr \in DOMAIN corr
             /\ x.src \in 1..N /\ x.dst \in 1..N /\ x.src \notin ids /\ x.dst \notin ids
  BY <1>4, <1>5, <1>8 DEF Restructured
<1>9. EdgesUnmoved'
  <2> SUFFICES ASSUME NEW x \in edge', x.corr \notin moved'
               PROVE  /\ node'[x.src].corr = x.corr /\ node'[x.dst].corr = x.corr
                      /\ \E w \in Windows : \E d \in Components[w] :
                           d.nodes = NodesFor(x.corr)' /\ \E k \in DOMAIN d.edges : EdgeKey(d.edges[k]) = Key(x)'
    BY DEF EdgesUnmoved
  <2>1. Key(x)' = Key(x) /\ NodesFor(x.corr)' = NodesFor(x.corr)
    BY <1>2, <1>8 DEF Key, NodesFor, Restructured
  <2>2. node'[x.src].corr = node[x.src].corr /\ node'[x.dst].corr = node[x.dst].corr
    BY <1>2, <1>8
  <2> QED
    BY <1>8, <2>1, <2>2 DEF TablesOK, EdgesUnmoved
<1>10. ASSUME NEW x \in edge, x.corr \notin moved' PROVE x \in edge'
  <2>1. x.corr \notin moved /\ x.src \in 1..N /\ x.dst \in 1..N
    BY <1>4, <1>10 DEF Restructured
  <2>2. node[x.src].corr = x.corr /\ node[x.dst].corr = x.corr
    BY <2>1 DEF TablesOK, EdgesUnmoved
  <2>3. x.src \notin ids /\ x.dst \notin ids
    BY <1>10, <2>2 DEF Restructured
  <2> QED
    BY <2>3 DEF Restructured, ReassignEdges, EdgesTouching
<1>11. Kept
  BY <1>1, <1>2, <1>10 DEF Kept, Restructured
<1>12. ASSUME NEW x \in edge', x.corr \notin raced' PROVE x.corr \in {node'[x.src].corr, node'[x.dst].corr}
  <2>1. CASE x \in edge /\ x.src \notin ids /\ x.dst \notin ids
    <3>1. x.corr \notin raced /\ x.src \in 1..N /\ x.dst \in 1..N
      BY <1>4, <1>12, <2>1 DEF Restructured
    <3>2. x.corr \in {node[x.src].corr, node[x.dst].corr}
      BY <2>1, <3>1 DEF TablesOK, GraphsHoldTogether
    <3> QED
      BY <1>2, <2>1, <3>1, <3>2
  <2>2. CASE \E y \in edge : /\ y.src \in ids \/ y.dst \in ids
                             /\ x = [corr |-> c, src |-> y.src, dst |-> y.dst, rel |-> y.rel, strategy |-> y.strategy]
    <3>1. x.corr = c /\ (x.src \in ids \/ x.dst \in ids) /\ x.src \in 1..N /\ x.dst \in 1..N
      BY <1>4, <2>2
    <3> QED
      BY <1>2, <3>1
  <2> QED
    BY <1>5, <2>1, <2>2
<1>13. \A x \in edge' : x.corr = c \/ (x \in edge /\ x.src \notin ids /\ x.dst \notin ids)
  <2> SUFFICES ASSUME NEW x \in edge' PROVE x.corr = c \/ (x \in edge /\ x.src \notin ids /\ x.dst \notin ids)
    OBVIOUS
  <2>1. CASE x \in edge /\ x.src \notin ids /\ x.dst \notin ids
    BY <2>1
  <2>2. CASE \E y \in edge : x = [corr |-> c, src |-> y.src, dst |-> y.dst, rel |-> y.rel, strategy |-> y.strategy]
    BY <2>2
  <2> QED
    BY <1>5, <2>1, <2>2
<1> QED
  BY <1>3, <1>6, <1>7, <1>9, <1>11, <1>12, <1>13

(* The correlations after an update that keeps their number.                *)
LEMMA RowsChanged ==
    ASSUME TablesOK, NEW t, t = [c \in DOMAIN corr |-> t[c]], corr' = t,
           \A c \in DOMAIN corr : /\ RowShape(t[c]) /\ RowValues(t[c])
                                  /\ t[c].mergedInto \in 0..Len(corr) /\ t[c].splitFrom \in 0..Len(corr)
    PROVE  CorrOK' /\ DOMAIN corr' = DOMAIN corr
<1>1. PICK N \in Nat : N = Len(corr) /\ DOMAIN corr = 1..N
  BY TableFacts
<1>2. IsSeq(t) /\ Len(t) = N
  BY <1>1, Listed
<1>3. IsSeq(corr)' /\ Len(corr') = N /\ DOMAIN corr' = 1..N
  BY <1>1, <1>2 DEF IsSeq
<1>4. \A c \in 1..N : /\ RowShape(corr[c])' /\ RowValues(corr[c])'
                      /\ corr'[c].mergedInto \in 0..N /\ corr'[c].splitFrom \in 0..N
  BY <1>1 DEF RowShape, RowValues
<1> QED
  BY <1>1, <1>3, <1>4 DEF CorrOK

LEMMA RowFields ==
    ASSUME TablesOK, NEW c \in DOMAIN corr
    PROVE  /\ RowShape(corr[c]) /\ RowValues(corr[c])
           /\ corr[c].mergedInto \in 0..Len(corr) /\ corr[c].splitFrom \in 0..Len(corr)
BY DEF TablesOK, CorrOK

-----------------------------------------------------------------------------
(* Transactions.                                                           *)

LEMMA Reassignability ==
    ASSUME TablesOK, NEW ids, NEW c
    PROVE  CanReassign(ids, c) <=> Reassignable(node, ids, c)
<1>1. PICK t : t = [i \in DOMAIN node |-> IF i \in ids THEN [node[i] EXCEPT !.corr = c] ELSE node[i]]
  OBVIOUS
<1>2. CanReassign(ids, c) <=>
        \A i, j \in DOMAIN node : i # j => <<t[i].corr, t[i].ref>> # <<t[j].corr, t[j].ref>>
  BY <1>1 DEF CanReassign
<1>3. \A i \in DOMAIN node : t[i].ref = node[i].ref /\ t[i].corr = IF i \in ids THEN c ELSE node[i].corr
  <2> SUFFICES ASSUME NEW i \in DOMAIN node
               PROVE  t[i].ref = node[i].ref /\ t[i].corr = IF i \in ids THEN c ELSE node[i].corr
    OBVIOUS
  <2>1. node[i] = [corr |-> node[i].corr, ref |-> node[i].ref, role |-> node[i].role]
    BY TableFacts
  <2>2. [node[i] EXCEPT !.corr = c] = [corr |-> c, ref |-> node[i].ref, role |-> node[i].role]
    BY <2>1
  <2> QED
    BY <1>1, <2>2
<1>4. (\A i, j \in DOMAIN node : i # j => <<t[i].corr, t[i].ref>> # <<t[j].corr, t[j].ref>>)
        <=> Reassignable(node, ids, c)
  BY <1>3 DEF Reassignable
<1> QED
  BY <1>2, <1>4

LEMMA NothingMoves ==
    ASSUME TablesOK, NEW c
    PROVE  Reassignable(node, {}, c)
BY DEF TablesOK, NodeOK, Reassignable

(* What a step of another process may do to the tables without an open      *)
(* transaction being wrong about them.                                      *)
Undisturbed(r) ==
    /\ DOMAIN corr \subseteq DOMAIN corr' /\ DOMAIN node \subseteq DOMAIN node'
    /\ Reassignable(node', r.moving, r.to)
    /\ \A x \in edge' : \/ \E y \in edge : y.src = x.src /\ y.dst = x.dst /\ EdgeId(y) = EdgeId(x)
                        \/ x.src \notin r.moving /\ x.dst \notin r.moving
    /\ raced \subseteq raced'
    /\ \A c \in SourcesOf(r) : c \notin raced' => NodesOf(c)' \subseteq NodesOf(c)

LEMMA TxKept ==
    ASSUME NEW r, TxOK(r), Undisturbed(r)
    PROVE  TxOK(r)'
<1>1. MergeTx(r)' \/ SplitTx(r)' \/ r = NoTx
  BY DEF TxOK, MergeTx, SplitTx, Undisturbed, RowShape, RowValues
<1>2. EdgesSeen(r)'
  <2>1. Settled(r) \subseteq r.moving
    BY DEF Settled
  <2>2. \A x \in edge' : x.src \in Settled(r) \/ x.dst \in Settled(r) => EdgeId(x) \in r.edges
    BY <2>1 DEF TxOK, EdgesSeen, Undisturbed
  <2>3. \A x : EdgeId(x)' = EdgeId(x)
    BY DEF EdgeId
  <2> QED
    BY <2>2, <2>3 DEF TxOK, EdgesSeen, Settled
<1>3. SourcesListed(r)'
  BY DEF TxOK, SourcesListed, Undisturbed, SourcesOf
<1>4. r.nodes \subseteq DOMAIN node' /\ r.moving \subseteq DOMAIN node' /\ Reassignable(node', r.moving, r.to)
  BY DEF TxOK, Undisturbed
<1>5. r.from \in Seq(Nat) /\ ToSet(r.from) \subseteq DOMAIN corr'
  BY DEF TxOK, Undisturbed
<1>6. TxShape(r)' /\ r.pc \in TxPC /\ (r.pc = "open" => r.nodes = {}) /\ (r.pc = "edges" => r.nodes \subseteq r.moving)
  BY DEF TxOK, TxShape
<1> QED
  BY <1>1, <1>2, <1>3, <1>4, <1>5, <1>6 DEF TxOK, TxPC, Reassignable

(* Nobody's transaction moves on, and the references of nodes stay.          *)
LEMMA OthersTx ==
    ASSUME TxInv, UNCHANGED tx, \A a \in Analysts : Undisturbed(tx[a]),
           \A i \in DOMAIN node : node'[i].ref = node[i].ref
    PROVE  TxInv'
<1>1. ASSUME NEW a \in Analysts PROVE TxOK(tx[a])'
  <2>1. ASSUME NEW r, r = tx[a] PROVE TxOK(r)'
    BY <2>1, TxKept DEF TxInv
  <2> QED
    BY <2>1
<1>2. ASSUME NEW a \in Analysts, NEW b \in Analysts, a # b PROVE Apart(tx[a], tx[b])'
  <2>1. tx[a].moving \subseteq DOMAIN node /\ tx[b].moving \subseteq DOMAIN node /\ Apart(tx[a], tx[b])
    BY <1>2 DEF TxInv, TxOK
  <2> QED
    BY <2>1 DEF Apart
<1>3. tx' = [a \in Analysts |-> tx'[a]]
  BY DEF TxInv
<1> QED
  BY <1>1, <1>2, <1>3 DEF TxInv

LEMMA TxUntouched ==
    ASSUME TablesOK, TxInv, Kept, UNCHANGED <<tx, node, edge, raced>>
    PROVE  TxInv'
<1>1. ASSUME NEW a \in Analysts PROVE Undisturbed(tx[a])
  <2>1. Reassignable(node', tx[a].moving, tx[a].to)
    BY DEF TxInv, TxOK, Reassignable
  <2>2. \A c : NodesOf(c)' = NodesOf(c)
    BY DEF NodesOf
  <2>3. \A x \in edge' : \E y \in edge : y.src = x.src /\ y.dst = x.dst /\ EdgeId(y) = EdgeId(x)
    OBVIOUS
  <2> QED
    BY <2>1, <2>2, <2>3 DEF Undisturbed, Kept
<1> QED
  BY <1>1, OthersTx

(* A node that an evaluation adds takes no key that a transaction holds.     *)
LEMMA TxNodeCreated ==
    ASSUME TablesOK, TxInv, NEW c \in DOMAIN corr, NEW n,
           ~KeyLocked(Analysts, c, n), UNCHANGED <<tx, corr, edge>>,
           raced' = IF c \in moved \cup Emptying THEN raced \cup {c} ELSE raced,
           NodeOK', \A i \in DOMAIN node : i \in DOMAIN node' /\ node'[i] = node[i],
           \A i \in DOMAIN node' : i \in DOMAIN node \/ (node'[i].corr = c /\ node'[i].ref = n)
    PROVE  TxInv'
<1>1. ASSUME NEW a \in Analysts PROVE Undisturbed(tx[a])
  <2>1. Reassignable(node', tx[a].moving, tx[a].to)
    <3> DEFINE To(i) == IF i \in tx[a].moving THEN tx[a].to ELSE node'[i].corr
    <3>1. tx[a].moving \subseteq DOMAIN node /\ Reassignable(node, tx[a].moving, tx[a].to) /\ c # 0
      BY TableFacts DEF TxInv, TxOK
    <3>2. ASSUME NEW i \in DOMAIN node', NEW j \in DOMAIN node', i # j, node'[i].ref = node'[j].ref,
                 i \in DOMAIN node, j \in DOMAIN node
          PROVE  To(i) # To(j)
      BY <3>1, <3>2 DEF Reassignable
    <3>3. ASSUME NEW i \in DOMAIN node', NEW j \in DOMAIN node', i # j, node'[i].ref = node'[j].ref,
                 j \notin DOMAIN node
          PROVE  To(i) # To(j)
      <4>1. To(j) = c /\ node'[j].ref = n /\ node'[j].corr = c
        BY <3>1, <3>3
      <4>2. CASE i \in tx[a].moving
        <5>1. node[i].ref = n
          BY <3>1, <3>3, <4>1, <4>2
        <5>2. tx[a].to # c
          BY <3>1, <4>2, <5>1 DEF KeyLocked
        <5> QED
          BY <4>1, <4>2, <5>2
      <4>3. CASE i \notin tx[a].moving
        BY <3>3, <4>1, <4>3 DEF NodeOK
      <4> QED
        BY <4>2, <4>3
    <3>4. ASSUME NEW i \in DOMAIN node', NEW j \in DOMAIN node', i # j, node'[i].ref = node'[j].ref
          PROVE  To(i) # To(j)
      <4>1. CASE i \in DOMAIN node /\ j \in DOMAIN node
        BY <3>2, <3>4, <4>1
      <4>2. CASE j \notin DOMAIN node
        BY <3>3, <3>4, <4>2
      <4>3. CASE i \notin DOMAIN node
        <5>1. To(j) # To(i)
          BY <3>3, <3>4, <4>3
        <5> QED
          BY <5>1
      <4> QED
        BY <4>1, <4>2, <4>3
    <3> QED
      BY <3>4 DEF Reassignable
  <2>2. ASSUME NEW d \in SourcesOf(tx[a]), d \notin raced' PROVE NodesOf(d)' \subseteq NodesOf(d)
    <3>1. d # c
      BY <2>2 DEF SourcesOf, Sources, Emptying
    <3> QED
      BY <3>1 DEF NodesOf
  <2>3. \A x \in edge' : \E y \in edge : y.src = x.src /\ y.dst = x.dst /\ EdgeId(y) = EdgeId(x)
    OBVIOUS
  <2>4. DOMAIN node \subseteq DOMAIN node' /\ DOMAIN corr \subseteq DOMAIN corr' /\ raced \subseteq raced'
    OBVIOUS
  <2> QED
    BY <2>1, <2>2, <2>3, <2>4 DEF Undisturbed
<1> QED
  BY <1>1, OthersTx

(* An edge that an evaluation adds has no end that a transaction moves.      *)
LEMMA TxEdgeCreated ==
    ASSUME TablesOK, TxInv, NEW row, ~EdgeLocked(row), edge' = edge \cup {row}, raced \subseteq raced',
           UNCHANGED <<tx, corr, node>>
    PROVE  TxInv'
<1>1. ASSUME NEW a \in Analysts PROVE Undisturbed(tx[a])
  <2>1. Reassignable(node', tx[a].moving, tx[a].to)
    BY DEF TxInv, TxOK, Reassignable
  <2>2. \A c : NodesOf(c)' = NodesOf(c)
    BY DEF NodesOf
  <2>3. ASSUME NEW x \in edge'
        PROVE  \/ \E y \in edge : y.src = x.src /\ y.dst = x.dst /\ EdgeId(y) = EdgeId(x)
               \/ x.src \notin tx[a].moving /\ x.dst \notin tx[a].moving
    BY <2>3 DEF EdgeLocked, Locked
  <2> QED
    BY <2>1, <2>2, <2>3 DEF Undisturbed
<1> QED
  BY <1>1, OthersTx

(* The edges a transaction is about to move are those touching its nodes.    *)
LEMMA EdgesNamed ==
    ASSUME TablesOK, NEW r, TxOK(r), r.pc = "open"
    PROVE  Named(r.edges) = EdgesTouching(r.moving)
BY DEF TxOK, EdgesSeen, Settled, Named, EdgesTouching, EdgeId

LEMMA TxReplaced ==
    ASSUME TxInv, NEW a \in Analysts, NEW q, tx' = [tx EXCEPT ![a] = q], TxOK(q)',
           \A b \in Analysts : b # a => Undisturbed(tx[b]) /\ Apart(q, tx[b]),
           q.moving \subseteq DOMAIN node, \A i \in DOMAIN node : node'[i].ref = node[i].ref
    PROVE  TxInv'
<1>1. /\ tx' = [b \in Analysts |-> tx'[b]] /\ tx'[a] = q
      /\ \A b \in Analysts : b # a => tx'[b] = tx[b]
  BY DEF TxInv
<1>2. ASSUME NEW b \in Analysts, b # a PROVE TxOK(tx[b])'
  <2>1. ASSUME NEW r, r = tx[b] PROVE TxOK(r)'
    BY <1>2, <2>1, TxKept DEF TxInv
  <2> QED
    BY <1>1, <1>2, <2>1
<1>3. \A b \in Analysts : tx[b].moving \subseteq DOMAIN node
  BY DEF TxInv, TxOK
<1>4. \A b \in Analysts : b # a => Apart(tx[b], q)' /\ Apart(q, tx[b])'
  BY <1>1, <1>3 DEF Apart
<1>5. \A b, d \in Analysts : b # d /\ b # a /\ d # a => Apart(tx[b], tx[d])'
  BY <1>1, <1>3 DEF TxInv, Apart
<1>6. \A b, d \in Analysts : b # d => Apart(tx[b], tx[d])'
  BY <1>1, <1>4, <1>5
<1>7. TxOK(tx[a])'
  BY <1>1
<1> QED
  BY <1>1, <1>2, <1>6, <1>7 DEF TxInv

LEMMA NoTxOK ==
    ASSUME NodeOK'
    PROVE  TxOK(NoTx)'
<1>1. PICK r : r = NoTx
  OBVIOUS
<1>2. /\ r.pc = "none" /\ r.to = 0 /\ r.row = <<>> /\ r.from = <<>> /\ r.nodes = {}
      /\ r.moving = {} /\ r.edges = {} /\ TxShape(r)
  BY <1>1 DEF NoTx, TxShape
<1>3. Settled(r) = {} /\ SourcesOf(r) = {} /\ ToSet(r.from) = {}
  BY <1>2, EmptySeq DEF Settled, SourcesOf, ToSet
<1>4. Reassignable(node, r.moving, r.to)'
  BY <1>2 DEF NodeOK, Reassignable
<1>5. EdgesSeen(r)' /\ SourcesListed(r)'
  BY <1>2, <1>3 DEF EdgesSeen, SourcesListed, Settled, SourcesOf
<1>6. r.from \in Seq(Nat)
  BY <1>2
<1>7. TxOK(r)'
  BY <1>1, <1>2, <1>3, <1>4, <1>5, <1>6 DEF TxOK, TxPC, TxShape
<1> QED
  BY <1>1, <1>7

(* What a commit does to the tables.                                        *)
LEMMA CommitTables ==
    ASSUME TablesOK, NEW r, TxOK(r), r.pc = "open", NEW id \in Nat, id \in DOMAIN corr',
           CanReassign(r.moving, id), node' = ReassignNodes(r.moving, id),
           edge' = ReassignEdges(Named(r.edges), id), CorrOK', DOMAIN corr \subseteq DOMAIN corr',
           \A d \in DOMAIN corr : corr'[d].fingerprint = corr[d].fingerprint,
           moved \subseteq moved', id \in moved', \A i \in r.moving : node[i].corr \in moved',
           raced \subseteq raced',
           \A d \in DOMAIN corr' : corr'[d].mergedInto # 0 =>
             /\ d \in moved'
             /\ d \notin raced' => d # id /\ (d \in SourcesOf(r) \/ (d \in DOMAIN corr /\ corr[d].mergedInto # 0))
    PROVE  TablesOK' /\ Kept
<1>1. Restructured(r.moving, id)
  BY EdgesNamed DEF Restructured, TxOK
<1>2. /\ NodeOK' /\ EdgeOK' /\ NodesUnmoved' /\ EdgesUnmoved' /\ Kept
      /\ \A x \in edge' : x.corr \notin raced' => x.corr \in {node'[x.src].corr, node'[x.dst].corr}
  BY <1>1, RestructuredTables
<1>3. /\ DOMAIN node' = DOMAIN node
      /\ \A i \in DOMAIN node : node'[i].corr = IF i \in r.moving THEN id ELSE node[i].corr
  BY Reassigned
<1>4. MergedMoved'
  BY DEF MergedMoved
<1>5. ASSUME NEW d \in DOMAIN corr', corr'[d].mergedInto # 0, d \notin raced'
      PROVE  NodesOf(d)' = {} /\ \A x \in edge' : x.corr # d
  <2>1. d # id /\ d \notin raced /\ (d \in SourcesOf(r) \/ (d \in DOMAIN corr /\ corr[d].mergedInto # 0))
    BY <1>5
  <2>2. ASSUME NEW i \in DOMAIN node, node'[i].corr = d PROVE FALSE
    <3>1. i \notin r.moving /\ i \in NodesOf(d)
      BY <1>3, <2>1, <2>2 DEF NodesOf
    <3>2. CASE d \in SourcesOf(r)
      BY <2>1, <3>1, <3>2 DEF TxOK, SourcesListed
    <3>3. CASE d \in DOMAIN corr /\ corr[d].mergedInto # 0
      BY <2>1, <3>1, <3>3 DEF TablesOK, GraphsHoldTogether
    <3> QED
      BY <2>1, <3>2, <3>3
  <2>3. NodesOf(d)' = {}
    BY <1>3, <2>2 DEF NodesOf
  <2>4. \A x \in edge' : x.src \in DOMAIN node /\ x.dst \in DOMAIN node
    BY <1>2, <1>3 DEF EdgeOK
  <2>5. \A x \in edge' : x.corr # d
    BY <1>2, <1>5, <2>2, <2>4
  <2> QED
    BY <2>3, <2>5
<1>6. GraphsHoldTogether'
  BY <1>2, <1>5 DEF GraphsHoldTogether
<1> QED
  BY <1>2, <1>4, <1>6 DEF TablesOK

(* What a commit does to the other transactions.                            *)
LEMMA CommitOthers ==
    ASSUME TablesOK, TablesOK', Kept, TxInv, NEW a \in Analysts, NEW r, r = tx[a], r.pc = "open", NEW id \in Nat,
           CanReassign(r.moving, id), node' = ReassignNodes(r.moving, id),
           edge' = ReassignEdges(Named(r.edges), id), raced \subseteq raced', tx' = [tx EXCEPT ![a] = NoTx],
           \A b \in Analysts : /\ tx[b].to = id => r.to = id /\ id # 0
                               /\ id \in SourcesOf(tx[b]) => id \in raced'
    PROVE  TxInv'
<1>1. /\ DOMAIN node' = DOMAIN node
      /\ \A i \in DOMAIN node : /\ node'[i].ref = node[i].ref
                                /\ node'[i].corr = IF i \in r.moving THEN id ELSE node[i].corr
  BY Reassigned
<1>2. Reassignable(node, r.moving, id)
  BY Reassignability
<1>3. ASSUME NEW b \in Analysts, b # a PROVE Undisturbed(tx[b])
  <2>1. TxOK(tx[b]) /\ TxOK(r) /\ Apart(r, tx[b])
    BY <1>3 DEF TxInv
  <2>2. Reassignable(node', tx[b].moving, tx[b].to)
    <3> DEFINE To(i) == IF i \in tx[b].moving THEN tx[b].to ELSE node'[i].corr
    <3>1. Reassignable(node, tx[b].moving, tx[b].to)
      BY <2>1 DEF TxOK
    <3>2. ASSUME NEW i \in DOMAIN node, NEW j \in DOMAIN node, i # j, node[i].ref = node[j].ref, j \notin r.moving
          PROVE  To(i) # To(j)
      <4>1. CASE i \in r.moving /\ j \in tx[b].moving
        <5>1. To(i) = id /\ To(j) = tx[b].to
          BY <1>1, <2>1, <4>1 DEF Apart
        <5>2. tx[b].to # id
          BY <2>1, <3>2, <4>1 DEF Apart
        <5> QED
          BY <5>1, <5>2
      <4>2. CASE i \in r.moving /\ j \notin tx[b].moving
        <5>1. To(i) = id /\ To(j) = node[j].corr
          BY <1>1, <2>1, <3>2, <4>2 DEF Apart
        <5> QED
          BY <1>2, <3>2, <4>2, <5>1 DEF Reassignable
      <4>3. CASE i \notin r.moving
        <5>1. node'[i].corr = node[i].corr /\ node'[j].corr = node[j].corr
          BY <1>1, <3>2, <4>3
        <5> QED
          BY <3>1, <3>2, <5>1 DEF Reassignable
      <4> QED
        BY <4>1, <4>2, <4>3
    <3>3. ASSUME NEW i \in DOMAIN node, NEW j \in DOMAIN node, i # j, node[i].ref = node[j].ref,
                 i \in r.moving, j \in r.moving
          PROVE  FALSE
      BY <1>2, <3>3 DEF Reassignable
    <3>4. ASSUME NEW i \in DOMAIN node, NEW j \in DOMAIN node, i # j, node[i].ref = node[j].ref PROVE To(i) # To(j)
      <4>1. CASE j \notin r.moving
        BY <3>2, <3>4, <4>1
      <4>2. CASE i \notin r.moving
        <5>1. To(j) # To(i)
          BY <3>2, <3>4, <4>2
        <5> QED
          BY <5>1
      <4> QED
        BY <3>3, <3>4, <4>1, <4>2
    <3> HIDE DEF To
    <3>5. \A i, j \in DOMAIN node' : i # j /\ node'[i].ref = node'[j].ref => To(i) # To(j)
      BY <1>1, <3>4
    <3> QED
      BY <3>5 DEF Reassignable, To
  <2>3. ASSUME NEW x \in edge' PROVE \E y \in edge : y.src = x.src /\ y.dst = x.dst /\ EdgeId(y) = EdgeId(x)
    <3>1. CASE x \in edge
      BY <3>1
    <3>2. CASE x \notin edge
      <4>1. PICK y \in edge : x = [y EXCEPT !.corr = id]
        BY <3>2 DEF ReassignEdges, Named
      <4>2. y = [corr |-> y.corr, src |-> y.src, dst |-> y.dst, rel |-> y.rel, strategy |-> y.strategy]
        BY DEF TablesOK, EdgeOK
      <4>3. x = [corr |-> id, src |-> y.src, dst |-> y.dst, rel |-> y.rel, strategy |-> y.strategy]
        BY <4>1, <4>2
      <4> QED
        BY <4>3 DEF EdgeId
    <3> QED
      BY <3>1, <3>2
  <2>4. ASSUME NEW c \in SourcesOf(tx[b]), c \notin raced' PROVE NodesOf(c)' \subseteq NodesOf(c)
    <3>1. c # id
      BY <2>4
    <3> QED
      BY <1>1, <3>1 DEF NodesOf
  <2> QED
    BY <1>1, <2>2, <2>3, <2>4 DEF Undisturbed, Kept
<1>4. TxOK(NoTx)'
  BY NoTxOK DEF TablesOK
<1>5. NoTx.moving = {}
  BY DEF NoTx
<1>6. \A b \in Analysts : Apart(NoTx, tx[b])
  BY <1>5 DEF Apart
<1> QED
  BY <1>1, <1>3, <1>4, <1>5, <1>6, TxReplaced

(* A merge's commit: marks on what it emptied and on what it filled.          *)
LEMMA MergeCommitted ==
    ASSUME IInv, NEW a \in Analysts, Commit(a), tx[a].from # <<>>
    PROVE  TablesOK' /\ Kept /\ TxInv'
<1>1. PICK r : r = tx[a]
  OBVIOUS
<1>2. /\ r.pc = "open" /\ TxOK(r) /\ TablesOK /\ TxInv
      /\ r.row = <<>> /\ r.to \in DOMAIN corr
  <2>1. TxOK(r) /\ r.pc = "open"
    BY <1>1 DEF IInv, TxInv, Commit
  <2>2. r # NoTx
    BY <2>1 DEF NoTx
  <2>3. MergeTx(r)
    BY <1>1, <2>1, <2>2 DEF TxOK, SplitTx
  <2> QED
    BY <2>1, <2>3 DEF IInv, MergeTx
<1>3. PICK N \in Nat : N = Len(corr) /\ DOMAIN corr = 1..N
  BY <1>2, TableFacts
<1>4. PICK id \in Nat : id = r.to /\ id \in DOMAIN corr
  BY <1>2, <1>3
<1>5. /\ corr' = Marked(a)
      /\ node' = ReassignNodes(r.moving, id) /\ edge' = ReassignEdges(Named(r.edges), id)
      /\ moved' = moved \cup Sources(a) \cup {node[i].corr : i \in r.moving}
                     \cup {x.corr : x \in Named(r.edges)} \cup {id}
      /\ raced' = (IF Overtaken(a) THEN raced \cup {id} ELSE raced)
      /\ tx' = [tx EXCEPT ![a] = NoTx]
  BY <1>1, <1>2, <1>4 DEF Commit
<1>6. PICK t : t = Marked(a)
  OBVIOUS
<1>7. t = [c \in DOMAIN corr |-> t[c]]
  BY <1>6 DEF Marked
<1>8. ASSUME NEW c \in DOMAIN corr
      PROVE  /\ RowShape(t[c]) /\ RowValues(t[c]) /\ t[c].splitFrom = corr[c].splitFrom
             /\ t[c].fingerprint = corr[c].fingerprint
             /\ t[c].mergedInto = IF c \in SourcesOf(r) THEN id ELSE corr[c].mergedInto
  <2>1. RowShape(corr[c]) /\ RowValues(corr[c])
    BY <1>2, RowFields
  <2>2. SourcesOf(r) = Sources(a)
    BY <1>1 DEF SourcesOf, Sources
  <2>3. CASE c \in SourcesOf(r)
    <3>1. t[c] = [corr[c] EXCEPT !.mergedInto = id]
      BY <1>1, <1>4, <1>6, <2>2, <2>3 DEF Marked
    <3> QED
      BY <2>1, <2>3, <3>1 DEF RowShape, RowValues
  <2>4. CASE c = id /\ c \notin SourcesOf(r)
    <3>1. PICK all : all = corr[c].mergedFrom \o tx[a].from
      OBVIOUS
    <3>2. t[c] = [corr[c] EXCEPT !.mergedFrom = all]
      BY <1>1, <1>4, <1>6, <2>2, <2>4, <3>1 DEF Marked
    <3> QED
      BY <2>1, <2>4, <3>2 DEF RowShape, RowValues
  <2>5. CASE c # id /\ c \notin SourcesOf(r)
    <3>1. t[c] = corr[c]
      BY <1>1, <1>4, <1>6, <2>2, <2>5 DEF Marked
    <3> QED
      BY <2>1, <2>5, <3>1
  <2> QED
    BY <2>3, <2>4, <2>5
<1>9. \A c \in DOMAIN corr : t[c].mergedInto \in 0..Len(corr) /\ t[c].splitFrom \in 0..Len(corr)
  BY <1>2, <1>3, <1>4, <1>8, RowFields
<1>10. CorrOK' /\ DOMAIN corr' = DOMAIN corr
  <2>1. corr' = t
    BY <1>5, <1>6
  <2>2. \A c \in DOMAIN corr : RowShape(t[c]) /\ RowValues(t[c])
    BY <1>8
  <2> QED
    BY <1>2, <1>7, <1>9, <2>1, <2>2, RowsChanged
<1>11. \A c \in DOMAIN corr : /\ corr'[c].fingerprint = corr[c].fingerprint
                              /\ corr'[c].mergedInto = IF c \in SourcesOf(r) THEN id ELSE corr[c].mergedInto
  BY <1>5, <1>6, <1>8
<1>12. CanReassign(r.moving, id)
  BY <1>2, <1>4, Reassignability DEF TxOK
<1>13. id \notin SourcesOf(r) /\ SourcesOf(r) \subseteq moved'
  BY <1>1, <1>4, <1>5 DEF SourcesOf, Sources
<1>14. corr[id].mergedInto # 0 => id \in raced'
  BY <1>1, <1>4, <1>5 DEF Overtaken
<1>15. \A b \in Analysts : id \in SourcesOf(tx[b]) => id \in raced'
  BY <1>1, <1>4, <1>5 DEF Overtaken, Emptying, Sources, SourcesOf
<1>16. raced \subseteq raced' /\ moved \subseteq moved' /\ id \in moved' /\ \A i \in r.moving : node[i].corr \in moved'
  BY <1>5
<1>17. \A d \in DOMAIN corr' : corr'[d].mergedInto # 0 =>
          /\ d \in moved'
          /\ d \notin raced' => d # id /\ (d \in SourcesOf(r) \/ (d \in DOMAIN corr /\ corr[d].mergedInto # 0))
  BY <1>2, <1>10, <1>11, <1>13, <1>14, <1>16 DEF TablesOK, MergedMoved
<1>18. TablesOK' /\ Kept
  <2>1. \A d \in DOMAIN corr : corr'[d].fingerprint = corr[d].fingerprint
    BY <1>11
  <2> QED
    BY <1>2, <1>4, <1>5, <1>10, <1>12, <1>16, <1>17, <2>1, CommitTables
<1>19. TxInv'
  <2>1. \A b \in Analysts : tx[b].to = id => r.to = id /\ id # 0
    BY <1>3, <1>4
  <2> QED
    BY <1>1, <1>2, <1>4, <1>5, <1>12, <1>15, <1>16, <1>18, <2>1, CommitOthers
<1> QED
  BY <1>18, <1>19

(* A split's commit: the new row holds what was named.                        *)
LEMMA SplitCommitted ==
    ASSUME IInv, NEW a \in Analysts, Commit(a), tx[a].from = <<>>
    PROVE  TablesOK' /\ Kept /\ TxInv'
<1>1. PICK r : r = tx[a]
  OBVIOUS
<1>2. r.pc = "open" /\ TxOK(r) /\ TablesOK /\ TxInv /\ r.row # <<>>
  BY <1>1 DEF IInv, TxInv, Commit
<1>3. r.to = 0 /\ \E q : /\ r.row = <<q>> /\ RowShape(q) /\ RowValues(q)
                         /\ q.mergedInto = 0 /\ q.splitFrom \in DOMAIN corr
  <2>1. r # NoTx
    BY <1>2 DEF NoTx
  <2>2. ~MergeTx(r)
    BY <1>2 DEF MergeTx
  <2>3. SplitTx(r)
    BY <1>2, <2>1, <2>2 DEF TxOK
  <2> QED
    BY <2>3 DEF SplitTx
<1>4. PICK q : /\ r.row = <<q>> /\ RowShape(q) /\ RowValues(q)
               /\ q.mergedInto = 0 /\ q.splitFrom \in DOMAIN corr
  BY <1>3
<1>5. PICK N \in Nat : N = Len(corr) /\ DOMAIN corr = 1..N
  BY <1>2, TableFacts
<1>6. PICK id : id = N + 1
  OBVIOUS
<1>7. id \in Nat /\ id \notin 1..N /\ id # 0
  BY <1>6
<1>8. PICK row : row = [q EXCEPT !.fingerprint = <<"split", q.fingerprint, id>>]
  OBVIOUS
<1>9. /\ corr' = Append(corr, row)
      /\ node' = ReassignNodes(r.moving, id) /\ edge' = ReassignEdges(Named(r.edges), id)
      /\ moved' = moved \cup Sources(a) \cup {node[i].corr : i \in r.moving}
                     \cup {x.corr : x \in Named(r.edges)} \cup {id}
      /\ raced \subseteq raced'
      /\ tx' = [tx EXCEPT ![a] = NoTx]
  <2>1. r.row[1] = q
    BY <1>4
  <2>2. SplitOff(q) = Append(corr, row)
    BY <1>5, <1>6, <1>8 DEF SplitOff
  <2>3. Len(corr) + 1 = id
    BY <1>5, <1>6
  <2>4. tx[a].from = <<>> /\ tx[a].row # <<>> /\ tx[a].row[1] = q
    BY <1>1, <1>2, <2>1
  <2>5. corr' = SplitOff(q)
    BY <2>4 DEF Commit
  <2> QED
    BY <1>1, <2>2, <2>3, <2>4, <2>5 DEF Commit
<1>10. RowShape(row) /\ RowValues(row) /\ row.mergedInto = 0 /\ row.splitFrom \in DOMAIN corr
  <2>1. PICK f : f = <<"split", q.fingerprint, id>>
    OBVIOUS
  <2>2. row = [fingerprint |-> f, status |-> q.status, score |-> q.score, confidence |-> q.confidence,
               severity |-> q.severity, last |-> q.last, inv |-> q.inv, mergedInto |-> q.mergedInto,
               mergedFrom |-> q.mergedFrom, splitFrom |-> q.splitFrom]
    BY <1>4, <1>8, <2>1 DEF RowShape
  <2> QED
    BY <1>4, <2>2 DEF RowShape, RowValues
<1>11. PICK t : t = Append(corr, row)
  OBVIOUS
<1>12. IsSeq(t) /\ Len(t) = N + 1 /\ DOMAIN t = 1..(N + 1) /\ t[N + 1] = row /\ \A c \in 1..N : t[c] = corr[c]
  <2> DEFINE S == ToSet(corr) \cup {row}
  <2>1. corr \in Seq(S) /\ row \in S
    BY <1>2, SeqMonotonic DEF TablesOK, CorrOK, IsSeq
  <2>2. t \in Seq(S) /\ Len(t) = N + 1 /\ t[N + 1] = row /\ \A c \in 1..N : t[c] = corr[c]
    BY <1>5, <1>11, <2>1, AppendProperties
  <2> QED
    BY <2>2, OfSeq
<1>13. \A c \in 1..(N + 1) : c \in 1..N \/ c = N + 1
  BY <1>5
<1>14. CorrOK'
  <2>1. ASSUME NEW c \in 1..(N + 1)
        PROVE  /\ RowShape(t[c]) /\ RowValues(t[c])
               /\ t[c].mergedInto \in 0..(N + 1) /\ t[c].splitFrom \in 0..(N + 1)
    <3>1. CASE c \in 1..N
      <4>1. /\ RowShape(corr[c]) /\ RowValues(corr[c])
            /\ corr[c].mergedInto \in 0..N /\ corr[c].splitFrom \in 0..N
        BY <1>2, <1>5, <3>1, RowFields
      <4> QED
        BY <1>12, <3>1, <4>1
    <3>2. CASE c = N + 1
      BY <1>5, <1>10, <1>12, <3>2
    <3> QED
      BY <1>13, <3>1, <3>2
  <2>2. corr' = t
    BY <1>9, <1>11
  <2>3. IsSeq(corr)'
    BY <1>12, <2>2 DEF IsSeq
  <2> QED
    BY <1>12, <2>1, <2>2, <2>3 DEF CorrOK, RowShape, RowValues
<1>15. /\ DOMAIN corr' = 1..(N + 1) /\ \A c \in 1..N : c \in 1..(N + 1) /\ corr'[c] = corr[c]
       /\ corr'[id] = row /\ id \in 1..(N + 1)
  BY <1>5, <1>6, <1>9, <1>11, <1>12
<1>16. CanReassign(r.moving, id)
  <2>1. Reassignable(node, r.moving, 0) /\ \A i \in DOMAIN node : node[i].corr # id
    BY <1>2, <1>3, <1>5, <1>7, TableFacts DEF TxOK
  <2>2. Reassignable(node, r.moving, id)
    BY <1>2, <2>1 DEF Reassignable, TablesOK, NodeOK
  <2> QED
    BY <1>2, <2>2, Reassignability
<1>17. \A d \in DOMAIN corr' : corr'[d].mergedInto # 0 => d \in DOMAIN corr /\ d # id /\ corr[d].mergedInto # 0
  BY <1>5, <1>6, <1>7, <1>10, <1>13, <1>15
<1>18. /\ \A d \in DOMAIN corr : corr'[d].fingerprint = corr[d].fingerprint
       /\ DOMAIN corr \subseteq DOMAIN corr' /\ id \in DOMAIN corr'
       /\ moved \subseteq moved' /\ id \in moved' /\ \A i \in r.moving : node[i].corr \in moved'
  BY <1>5, <1>9, <1>15
<1>19. \A d \in DOMAIN corr' : corr'[d].mergedInto # 0 =>
          /\ d \in moved'
          /\ d \notin raced' => d # id /\ (d \in SourcesOf(r) \/ (d \in DOMAIN corr /\ corr[d].mergedInto # 0))
  BY <1>2, <1>17, <1>18 DEF TablesOK, MergedMoved
<1>20. TablesOK' /\ Kept
  BY <1>2, <1>7, <1>9, <1>14, <1>16, <1>18, <1>19, CommitTables
<1>21. TxInv'
  <2>1. \A b \in Analysts : TxOK(tx[b])
    BY <1>2 DEF TxInv
  <2>2. \A b \in Analysts : tx[b].to # id
    <3>1. NoTx.to = 0
      BY DEF NoTx
    <3> QED
      BY <1>5, <1>7, <2>1, <3>1 DEF TxOK, MergeTx, SplitTx
  <2>3. \A b \in Analysts : id \notin SourcesOf(tx[b])
    BY <1>5, <1>7, <2>1 DEF TxOK, SourcesOf
  <2> QED
    BY <1>1, <1>2, <1>7, <1>9, <1>16, <1>20, <2>2, <2>3, CommitOthers
<1> QED
  BY <1>20, <1>21

(* ON CONFLICT: a new row, or the score and the time of the one there.      *)
LEMMA Upserted ==
    ASSUME TablesOK, NEW row, RowShape(row), RowValues(row), row.mergedInto = 0, row.splitFrom = 0,
           corr' = UpsertCorrelation(corr, row), UNCHANGED <<node, edge, moved, raced>>
    PROVE  /\ TablesOK' /\ Kept
           /\ LET c == IdOf(corr', row.fingerprint) IN
              c \in DOMAIN corr' /\ corr'[c].fingerprint = row.fingerprint
<1>1. PICK N \in Nat : N = Len(corr) /\ DOMAIN corr = 1..N
  BY TableFacts
<1>2. CASE Matching(corr, row.fingerprint) = {}
  <2>1. PICK t : t = Append(corr, row)
    OBVIOUS
  <2>2. corr' = t
    BY <1>2, <2>1 DEF UpsertCorrelation
  <2>3. IsSeq(t) /\ Len(t) = N + 1 /\ DOMAIN t = 1..(N + 1) /\ t[N + 1] = row /\ \A c \in 1..N : t[c] = corr[c]
    <3> DEFINE S == ToSet(corr) \cup {row}
    <3>1. corr \in Seq(S) /\ row \in S
      BY SeqMonotonic DEF TablesOK, CorrOK, IsSeq
    <3>2. t \in Seq(S) /\ Len(t) = N + 1 /\ t[N + 1] = row /\ \A c \in 1..N : t[c] = corr[c]
      BY <1>1, <2>1, <3>1, AppendProperties
    <3> QED
      BY <3>2, OfSeq
  <2>4. \A c \in 1..(N + 1) : c \in 1..N \/ c = N + 1
    BY <1>1
  <2>5. CorrOK'
    <3>1. ASSUME NEW c \in 1..(N + 1)
          PROVE  /\ RowShape(t[c]) /\ RowValues(t[c])
                 /\ t[c].mergedInto \in 0..(N + 1) /\ t[c].splitFrom \in 0..(N + 1)
      <4>1. CASE c \in 1..N
        <5>1. /\ RowShape(corr[c]) /\ RowValues(corr[c])
              /\ corr[c].mergedInto \in 0..N /\ corr[c].splitFrom \in 0..N
          BY <1>1, <4>1, RowFields
        <5> QED
          BY <2>3, <4>1, <5>1
      <4>2. CASE c = N + 1
        BY <1>1, <2>3, <4>2
      <4> QED
        BY <2>4, <4>1, <4>2
    <3>2. IsSeq(corr)'
      BY <2>2, <2>3 DEF IsSeq
    <3> QED
      BY <2>2, <2>3, <3>1, <3>2 DEF CorrOK, RowShape, RowValues
  <2>6. /\ DOMAIN corr' = 1..(N + 1) /\ \A c \in 1..N : c \in 1..(N + 1) /\ corr'[c] = corr[c]
        /\ corr'[N + 1] = row /\ N + 1 \in 1..(N + 1)
    BY <1>1, <2>2, <2>3
  <2>7. TablesOK' /\ Kept
    BY <1>1, <2>4, <2>5, <2>6, RowsUpdated
  <2> QED
    BY <2>6, <2>7 DEF IdOf
<1>3. CASE Matching(corr, row.fingerprint) # {}
  <2>1. PICK i : i = IdOf(corr, row.fingerprint)
    OBVIOUS
  <2>2. i \in DOMAIN corr /\ corr[i].fingerprint = row.fingerprint
    BY <1>3, <2>1 DEF Matching, IdOf
  <2>3. PICK t : t = [corr EXCEPT ![i].last = Latest(corr[i].last, row.last), ![i].score = row.score]
    OBVIOUS
  <2>4. corr' = t
    BY <1>3, <2>1, <2>3 DEF UpsertCorrelation
  <2>5. t = [c \in DOMAIN corr |-> t[c]]
    BY <2>3
  <2>6. ASSUME NEW c \in DOMAIN corr
        PROVE  /\ RowShape(t[c]) /\ RowValues(t[c])
               /\ t[c].splitFrom = corr[c].splitFrom /\ t[c].mergedInto = corr[c].mergedInto
               /\ t[c].fingerprint = corr[c].fingerprint
    <3>1. RowShape(corr[c]) /\ RowValues(corr[c])
      BY RowFields
    <3>2. CASE c = i
      <4>1. t[c] = [[corr[c] EXCEPT !.last = Latest(corr[i].last, row.last)] EXCEPT !.score = row.score]
        BY <2>2, <2>3, <3>2
      <4>2. t[c] = [fingerprint |-> corr[c].fingerprint, status |-> corr[c].status, score |-> row.score,
                    confidence |-> corr[c].confidence, severity |-> corr[c].severity,
                    last |-> Latest(corr[i].last, row.last), inv |-> corr[c].inv,
                    mergedInto |-> corr[c].mergedInto, mergedFrom |-> corr[c].mergedFrom,
                    splitFrom |-> corr[c].splitFrom]
        BY <3>1, <4>1 DEF RowShape
      <4> QED
        BY <3>1, <4>2 DEF RowShape, RowValues
    <3>3. CASE c # i
      BY <2>3, <3>1, <3>3
    <3> QED
      BY <3>2, <3>3
  <2>7. CorrOK' /\ DOMAIN corr' = DOMAIN corr
    BY <2>4, <2>5, <2>6, RowFields, RowsChanged
  <2>8. TablesOK' /\ Kept
    BY <2>4, <2>6, <2>7, RowsUpdated
  <2> QED
    BY <2>2, <2>4, <2>6, <2>7, <2>8 DEF IdOf
<1> QED
  BY <1>2, <1>3

-----------------------------------------------------------------------------
(* The steps.                                                              *)

LEMMA Smallest ==
    ASSUME NEW S \in SUBSET Nat, S # {}
    PROVE  \E n \in S : \A m \in S : n <= m
<1>1. PICK n \in S : \A m \in S : ~ (<<m, n>> \in OpToRel(<, Nat))
  BY NatLessThanWellFounded, WFMin
<1>2. \A m \in S : ~(m < n)
  BY <1>1 DEF OpToRel
<1> QED
  BY <1>2

LEMMA SetsOfNodes ==
    ASSUME NEW w \in Windows, NEW nodes \in NodeSets(w)
    PROVE  /\ nodes # {} /\ nodes \subseteq Ids /\ nodes \subseteq Nat
           /\ EdgesFor(w, nodes) \in Seq(Edges) /\ Len(EdgesFor(w, nodes)) \in Nat
           /\ DOMAIN EdgesFor(w, nodes) = 1..Len(EdgesFor(w, nodes))
           /\ EdgesFor(w, nodes) # <<>> => Len(EdgesFor(w, nodes)) # 0
           /\ \A k \in 1..Len(EdgesFor(w, nodes)) :
                /\ EdgesFor(w, nodes)[k].src \in nodes /\ EdgesFor(w, nodes)[k].dst \in nodes
                /\ EdgesFor(w, nodes)[k].src # EdgesFor(w, nodes)[k].dst
<1>1. PICK c : c = ComponentOf(w, nodes) /\ c \in Components[w] /\ c.nodes = nodes
  BY KnownByNodes DEF NodeSets
<1>2. Component_OK(c)
  BY <1>1, WindowParts
<1>3. c.edges \in Seq(Edges) /\ Len(c.edges) \in Nat /\ DOMAIN c.edges = 1..Len(c.edges)
      /\ \A k \in 1..Len(c.edges) : c.edges[k] \in Edges
  BY <1>2, LenProperties, ElementOfSeq DEF Component_OK
<1>4. c.edges # <<>> => Len(c.edges) # 0
  BY <1>3
<1> QED
  BY <1>1, <1>2, <1>3, <1>4, CatalogFacts DEF Component_OK, EdgesFor, Edges

LEMMA FirstIn ==
    ASSUME NEW w \in Windows, NEW sets \in SUBSET NodeSets(w), sets # {}
    PROVE  First(sets) \in sets
<1>1. \A c \in sets : c # {} /\ c \subseteq Nat
  BY SetsOfNodes
<1>2. UNION sets \in SUBSET Nat /\ UNION sets # {}
  BY <1>1
<1>3. PICK n \in UNION sets : \A m \in UNION sets : n <= m
  BY <1>2, Smallest
<1>4. PICK c \in sets : n \in c
  BY <1>3
<1>5. \A d \in sets : \E k \in c : \A m \in d : k <= m
  BY <1>3, <1>4
<1> QED
  BY <1>4, <1>5 DEF First

(* What makes a step of one evaluator, or of none, keep the invariant.      *)
LEMMA StepKeeps ==
    ASSUME IInv, TablesOK', Kept, TxInv',
           ev' = [d \in Evaluators |-> ev'[d]], \A d \in Evaluators : ev'[d] = ev[d] \/ EvOK(d)',
           att' = [a \in Attachers |-> att'[a]],
           \A a \in Attachers : att'[a] = att[a] \/ AttOK(a)',
           \A s \in stored' : s \in stored \/ StoredIn(s)'
    PROVE  IInv'
<1>1. ASSUME NEW d \in Evaluators, ev'[d] = ev[d] PROVE EvOK(d)'
  <2>1. EvOK(d)
    BY DEF IInv
  <2>2. ev[d].pc \in Working => WorkOK(ev[d])'
    <3>1. ASSUME NEW r, r = ev[d], r.pc \in Working PROVE WorkOK(r)'
      <4>1. WorkOK(r)
        BY <2>1, <3>1 DEF EvOK
      <4> QED
        BY <4>1, WorkKept DEF IInv
    <3> QED
      BY <1>1, <3>1
  <2> QED
    BY <1>1, <2>1, <2>2 DEF EvOK, EvShape
<1>2. ASSUME NEW a \in Attachers, att'[a] = att[a] PROVE AttOK(a)'
  BY <1>2 DEF IInv, AttOK, Kept
<1>3. ASSUME NEW s \in stored PROVE StoredIn(s)'
  BY StoredKept DEF IInv
<1> QED
  BY <1>1, <1>2, <1>3 DEF IInv

LEMMA IdleSteps ==
    ASSUME IInv, NEW e \in Evaluators, Evaluate(e) \/ FinishEvaluation(e)
    PROVE  IInv'
<1>1. TablesOK' /\ Kept
  BY RowsUntouched DEF Evaluate, FinishEvaluation, tables, history, IInv
<1>2. EvShape(ev[e]) /\ ev = [d \in Evaluators |-> ev[d]]
  BY DEF IInv, EvOK
<1>3. /\ UNCHANGED <<att, stored>> /\ ev' = [d \in Evaluators |-> ev'[d]]
      /\ \A d \in Evaluators : d # e => ev'[d] = ev[d]
  BY <1>2 DEF Evaluate, FinishEvaluation, history
<1>4. EvOK(e)'
  <2>1. CASE Evaluate(e)
    <3>1. PICK w \in Windows : ev' = [ev EXCEPT ![e].pc = "component", ![e].window = w,
                                                ![e].todo = {c.nodes : c \in Components[w]}]
      BY <2>1 DEF Evaluate
    <3>2. ev'[e] = [pc |-> "component", window |-> w, todo |-> NodeSets(w), nodes |-> ev[e].nodes, id |-> ev[e].id,
                    left |-> ev[e].left, ids |-> ev[e].ids, at |-> ev[e].at, clean |-> ev[e].clean]
      BY <1>2, <3>1 DEF EvShape, NodeSets
    <3> QED
      BY <3>2 DEF EvOK, EvShape, EvPC, Working
  <2>2. CASE FinishEvaluation(e)
    <3>1. ev'[e] = [EmptyEv EXCEPT !.pc = "done"]
      BY <1>2, <2>2 DEF FinishEvaluation
    <3> QED
      BY <3>1 DEF EmptyEv, EvOK, EvShape, EvPC, Working
  <2> QED
    BY <2>1, <2>2
<1>5. TxInv'
  BY <1>1, TxUntouched DEF Evaluate, FinishEvaluation, tables, history, IInv
<1> QED
  BY <1>1, <1>3, <1>4, <1>5, StepKeeps DEF IInv

LEMMA PersistComponentKeeps ==
    ASSUME IInv, NEW e \in Evaluators, PersistComponent(e)
    PROVE  IInv'
<1>1. PICK nodes : nodes = First(ev[e].todo)
  OBVIOUS
<1>2. PICK w \in Windows : w = ev[e].window /\ ev[e].todo \subseteq NodeSets(w) /\ nodes \in ev[e].todo
  BY <1>1, FirstIn DEF PersistComponent, IInv, EvOK
<1>3. PICK row : row = Rows[ComponentOf(w, nodes)]
  OBVIOUS
<1>4. nodes \in NodeSets(w) /\ EvShape(ev[e]) /\ ev = [d \in Evaluators |-> ev[d]]
  BY <1>2 DEF IInv, EvOK
<1>5. /\ RowShape(row) /\ RowValues(row) /\ row.fingerprint[1] = nodes
      /\ row.mergedInto = 0 /\ row.splitFrom = 0
  BY <1>3, <1>4, RowFacts DEF NodeSets
<1>6. nodes # {}
  BY <1>4, SetsOfNodes
<1>7. /\ UNCHANGED <<node, edge, att, tx, stored, moved, raced>> /\ ev' = [d \in Evaluators |-> ev'[d]]
      /\ \A d \in Evaluators : d # e => ev'[d] = ev[d]
  BY <1>4 DEF PersistComponent, history
<1>8. CASE corr' = corr /\ ev' = [ev EXCEPT ![e].todo = @ \ {nodes}]
  <2>1. TablesOK' /\ Kept
    BY <1>7, <1>8, RowsUntouched DEF IInv
  <2>2. ev'[e] = [pc |-> ev[e].pc, window |-> ev[e].window, todo |-> ev[e].todo \ {nodes}, nodes |-> ev[e].nodes,
                  id |-> ev[e].id, left |-> ev[e].left, ids |-> ev[e].ids, at |-> ev[e].at, clean |-> ev[e].clean]
    BY <1>4, <1>8 DEF EvShape
  <2>3. ev[e].pc = "component"
    BY DEF PersistComponent
  <2>4. EvOK(e)'
    BY <1>2, <2>2, <2>3 DEF EvOK, EvShape, EvPC, Working
  <2>5. TxInv'
    BY <1>7, <2>1, TxUntouched DEF IInv
  <2> QED
    BY <1>7, <2>1, <2>4, <2>5, StepKeeps DEF IInv
<1>9. CASE /\ corr' = UpsertCorrelation(corr, row)
           /\ ev' = [ev EXCEPT ![e] = Entered(e, nodes, IdOf(corr', row.fingerprint))]
  <2>1. PICK c : c = IdOf(corr', row.fingerprint)
    OBVIOUS
  <2>2. TablesOK' /\ Kept /\ c \in DOMAIN corr' /\ corr'[c].fingerprint = row.fingerprint
    BY <1>5, <1>7, <1>9, <2>1, Upserted DEF IInv
  <2>3. PICK r : r = [pc |-> "nodes", window |-> w, todo |-> ev[e].todo \ {nodes}, nodes |-> nodes,
                      id |-> c, left |-> nodes, ids |-> NoneSaved(nodes), at |-> 1, clean |-> TRUE]
    OBVIOUS
  <2>4. ev'[e] = r
    <3>1. PICK q : q = Entered(e, nodes, c)
      OBVIOUS
    <3>2. q = [pc |-> "nodes", window |-> ev[e].window, todo |-> ev[e].todo \ {nodes}, nodes |-> nodes,
               id |-> c, left |-> nodes, ids |-> NoneSaved(nodes), at |-> 1, clean |-> TRUE]
      BY <1>4, <3>1 DEF EvShape, Entered
    <3>3. ev'[e] = q
      BY <1>4, <1>9, <2>1, <3>1
    <3> QED
      BY <1>2, <2>3, <3>2, <3>3
  <2>5. WorkOK(r)'
    <3>1. NodesFor(r.id)' = nodes /\ r.id \in DOMAIN corr'
      BY <1>5, <2>2, <2>3 DEF NodesFor
    <3>2. 0 \in 0..Len(node')
      BY <1>7, TableFacts DEF IInv
    <3>3. r.ids \in [nodes -> 0..Len(node')] /\ \A n \in nodes : r.ids[n] = 0
      BY <2>3, <3>2 DEF NoneSaved
    <3>4. Written(r) = 0 /\ AtOK(r)
      BY <1>6, <2>3 DEF Written, AtOK
    <3>5. /\ r.nodes = nodes /\ r.left = nodes /\ r.window = w
          /\ 1..Written(r) = {}
      BY <2>3, <3>4
    <3> QED
      BY <1>4, <3>1, <3>3, <3>4, <3>5 DEF WorkOK
  <2>6. EvOK(e)'
    <3>1. WorkOK(ev[e])'
      BY <2>4, <2>5
    <3> QED
      BY <1>2, <2>3, <2>4, <3>1 DEF EvOK, EvShape, EvPC, Working
  <2>7. TxInv'
    BY <1>7, <2>2, TxUntouched DEF IInv
  <2> QED
    BY <1>7, <2>2, <2>6, <2>7, StepKeeps DEF IInv
<1>10. \/ corr' = corr /\ ev' = [ev EXCEPT ![e].todo = @ \ {nodes}]
       \/ /\ corr' = UpsertCorrelation(corr, row)
          /\ ev' = [ev EXCEPT ![e] = Entered(e, nodes, IdOf(corr', row.fingerprint))]
  BY <1>1, <1>2, <1>3 DEF PersistComponent
<1> QED
  BY <1>8, <1>9, <1>10

LEMMA IdSet ==
    ASSUME NEW r, EvShape(r), NEW n, NEW i
    PROVE  [r EXCEPT !.ids[n] = i] =
             [pc |-> r.pc, window |-> r.window, todo |-> r.todo, nodes |-> r.nodes, id |-> r.id,
              left |-> r.left, ids |-> [r.ids EXCEPT ![n] = i], at |-> r.at, clean |-> r.clean]
<1>1. PICK ids : ids = [r.ids EXCEPT ![n] = i]
  OBVIOUS
<1>2. [r EXCEPT !.ids = ids] =
        [pc |-> r.pc, window |-> r.window, todo |-> r.todo, nodes |-> r.nodes, id |-> r.id,
         left |-> r.left, ids |-> ids, at |-> r.at, clean |-> r.clean]
  BY DEF EvShape
<1>3. [r EXCEPT !.ids[n] = i] = [r EXCEPT !.ids = ids]
  BY <1>1
<1> QED
  BY <1>1, <1>2, <1>3

LEMMA PersistNodeKeeps ==
    ASSUME IInv, NEW e \in Evaluators, PersistNode(e)
    PROVE  IInv'
<1>1. PICK r : r = ev[e]
  OBVIOUS
<1>2. /\ r.pc = "nodes" /\ EvShape(r) /\ WorkOK(r) /\ r.window \in Windows /\ r.todo \subseteq NodeSets(r.window)
      /\ ev = [d \in Evaluators |-> ev[d]]
  BY <1>1 DEF PersistNode, IInv, EvOK, Working
<1>3. /\ r.nodes \in NodeSets(r.window) /\ r.left \subseteq r.nodes /\ r.left # {} /\ r.at = 1
      /\ r.id \in DOMAIN corr /\ NodesFor(r.id) = r.nodes
  BY <1>2 DEF WorkOK, AtOK
<1>4. r.nodes \subseteq Ids /\ r.nodes \subseteq Nat
  BY <1>2, <1>3, SetsOfNodes
<1>5. PICK n : n = CHOOSE k \in r.left : \A m \in r.left : k <= m
  OBVIOUS
<1>6. n \in r.left /\ n \in r.nodes /\ n \in Ids
  <2>1. r.left \in SUBSET Nat
    BY <1>3, <1>4
  <2> QED
    BY <1>3, <1>4, <1>5, <2>1, Smallest
<1>7. PICK role \in Roles : role = IF IsTrigger(Component(e), n) THEN "trigger" ELSE "supporting"
  BY DEF Roles
<1>8. PICK next : next = PastNode(e, n)
  OBVIOUS
<1>9. PICK pc : pc = IF r.left = {n} THEN AfterNodes(e) ELSE r.pc
  OBVIOUS
<1>10. next = [pc |-> pc, window |-> r.window, todo |-> r.todo, nodes |-> r.nodes, id |-> r.id,
               left |-> r.left \ {n}, ids |-> r.ids, at |-> r.at, clean |-> r.clean]
  <2>1. next = [ev[e] EXCEPT !.left = ev[e].left \ {n}, !.pc = IF ev[e].left = {n} THEN AfterNodes(e) ELSE ev[e].pc]
    BY <1>8 DEF PastNode
  <2>2. EvShape(ev[e])
    BY <1>1, <1>2
  <2>3. next = [ev[e] EXCEPT !.left = ev[e].left \ {n}, !.pc = pc]
    BY <1>1, <1>9, <2>1
  <2> QED
    BY <1>1, <2>2, <2>3 DEF EvShape
<1> DEFINE E == EdgesFor(r.window, r.nodes)
<1>11. /\ pc \in {"nodes", "edges", "chain"} /\ (pc = "nodes" <=> r.left # {n})
       /\ pc = "edges" => E # <<>>
       /\ pc = "chain" => E = <<>>
  <2>1. Component(e).edges = E
    BY <1>1 DEF Component, EdgesFor
  <2> QED
    BY <1>2, <1>9, <2>1 DEF AfterNodes
<1>12. Len(E) \in Nat /\ (E # <<>> => Len(E) # 0) /\ Len(<<>>) = 0
  BY <1>2, <1>3, SetsOfNodes, EmptySeq
<1>13. \* the next record, whatever it knows of n, keeps its place
       ASSUME NEW q, q.pc = pc, q.window = r.window, q.nodes = r.nodes, q.left = r.left \ {n}, q.at = r.at
       PROVE  AtOK(q) /\ 1..Written(q) = {} /\ q.left \subseteq q.nodes
  <2>1. AtOK(q)
    BY <1>3, <1>6, <1>11, <1>12, <1>13 DEF AtOK
  <2>2. Written(q) = 0
    BY <1>3, <1>11, <1>12, <1>13 DEF Written
  <2> QED
    BY <1>3, <1>13, <2>1, <2>2
<1>14. UNCHANGED <<corr, edge, att, tx, stored, moved>>
  BY DEF PersistNode
<1>15. CASE ~KeyLocked(Analysts, r.id, n) /\ node' = CreateNode(r.id, n, role) /\ Writes(e, moved \cup Emptying)
            /\ ev' = [ev EXCEPT ![e] = [next EXCEPT !.ids[n] = SavedNode(node', r.id, n)]]
  <2>1. PICK i : i = SavedNode(node', r.id, n)
    OBVIOUS
  <2>2. /\ TablesOK' /\ Kept /\ i \in DOMAIN node' /\ node'[i].corr = r.id /\ node'[i].ref = n
        /\ TxInv'
    <3>1. raced' = IF r.id \in moved \cup Emptying THEN raced \cup {r.id} ELSE raced
      BY <1>1, <1>15 DEF Writes
    <3>2. n \in NodesFor(r.id)
      BY <1>3, <1>6
    <3>3. TablesOK /\ UNCHANGED <<corr, edge, moved>> /\ node' = CreateNode(r.id, n, role)
      BY <1>14, <1>15 DEF IInv
    <3>4. r.id \in DOMAIN corr /\ n \in Ids /\ role \in Roles
      BY <1>3, <1>6
    <3>5. PICK R : R = moved \cup Emptying /\ moved \subseteq R
      OBVIOUS
    <3>6. raced' = IF r.id \in R THEN raced \cup {r.id} ELSE raced
      BY <3>1, <3>5
    <3>7. /\ TablesOK' /\ Kept
          /\ \A k \in DOMAIN node : k \in DOMAIN node' /\ node'[k] = node[k]
          /\ \A k \in DOMAIN node' : k \in DOMAIN node \/ (node'[k].corr = r.id /\ node'[k].ref = n)
          /\ i \in DOMAIN node' /\ node'[i].corr = r.id /\ node'[i].ref = n
      BY <2>1, <3>2, <3>3, <3>4, <3>5, <3>6, NodeCreated
    <3>8. TxInv'
      BY <1>14, <1>15, <3>1, <3>3, <3>4, <3>7, TxNodeCreated DEF IInv, TablesOK
    <3> QED
      BY <3>7, <3>8
  <2>3. PICK ids : ids = [r.ids EXCEPT ![n] = i]
    OBVIOUS
  <2>4. PICK q : q = [pc |-> pc, window |-> r.window, todo |-> r.todo, nodes |-> r.nodes, id |-> r.id,
                      left |-> r.left \ {n}, ids |-> ids, at |-> r.at, clean |-> r.clean]
    OBVIOUS
  <2>5. ev'[e] = q /\ \A d \in Evaluators : d # e => ev'[d] = ev[d]
    <3>1. PICK q1 : q1 = [next EXCEPT !.ids[n] = i]
      OBVIOUS
    <3>2. q1 = q
      <4>1. EvShape(next)
        BY <1>10 DEF EvShape
      <4>2. q1 = [pc |-> next.pc, window |-> next.window, todo |-> next.todo, nodes |-> next.nodes, id |-> next.id,
                  left |-> next.left, ids |-> [next.ids EXCEPT ![n] = i], at |-> next.at, clean |-> next.clean]
        BY <3>1, <4>1, IdSet
      <4>3. next.ids = r.ids
        BY <1>10
      <4>4. q1 = [pc |-> next.pc, window |-> next.window, todo |-> next.todo, nodes |-> next.nodes, id |-> next.id,
                  left |-> next.left, ids |-> ids, at |-> next.at, clean |-> next.clean]
        BY <2>3, <4>2, <4>3
      <4> QED
        BY <1>10, <2>4, <4>4
    <3>3. ev' = [ev EXCEPT ![e] = q1]
      BY <1>15, <2>1, <3>1
    <3> QED
      BY <1>2, <3>2, <3>3
  <2>6. WorkOK(r)'
    BY <1>2, <2>2, WorkKept DEF IInv
  <2>7. r.ids \in [r.nodes -> 0..Len(node')] /\ i \in 0..Len(node') /\ i # 0
    <3>1. r.ids \in [r.nodes -> 0..Len(node')]
      BY <2>6 DEF WorkOK
    <3>2. Len(node') \in Nat /\ DOMAIN node' = 1..Len(node')
      <4>1. node' \in Seq([corr : Nat, ref : Ids, role : Roles])
        BY <2>2 DEF TablesOK, NodeOK
      <4> QED
        BY <4>1, LenProperties
    <3> QED
      BY <2>2, <3>1, <3>2
  <2>8. ids \in [r.nodes -> 0..Len(node')] /\ ids[n] = i /\ \A m \in r.nodes : m # n => ids[m] = r.ids[m]
    BY <1>6, <2>3, <2>7
  <2>9. WorkOK(q)'
    <3>1. AtOK(q) /\ 1..Written(q) = {} /\ q.left \subseteq q.nodes
      BY <1>13, <2>4
    <3>2. NodesFor(q.id)' = q.nodes /\ q.id \in DOMAIN corr'
      BY <2>4, <2>6 DEF WorkOK, NodesFor
    <3>3. ASSUME NEW m \in q.nodes, q.ids[m] # 0
          PROVE  node'[q.ids[m]].ref = m /\ (q.id \notin moved' => node'[q.ids[m]].corr = q.id)
      <4>1. CASE m = n
        BY <2>2, <2>4, <2>8, <4>1
      <4>2. CASE m # n
        BY <2>4, <2>6, <2>8, <3>3, <4>2 DEF WorkOK
      <4> QED
        BY <4>1, <4>2
    <3>4. q.clean => \A m \in q.nodes \ q.left : q.ids[m] # 0
      <4>1. r.clean => \A m \in r.nodes \ r.left : r.ids[m] # 0
        BY <1>2 DEF WorkOK
      <4> QED
        BY <2>4, <2>7, <2>8, <4>1
    <3>5. q.nodes \in NodeSets(q.window) /\ q.ids \in [q.nodes -> 0..Len(node')]
      BY <1>3, <2>4, <2>8
    <3> QED
      BY <3>1, <3>2, <3>3, <3>4, <3>5 DEF WorkOK
  <2>10. EvOK(e)'
    <3>1. WorkOK(ev[e])'
      BY <2>5, <2>9
    <3>2. EvShape(q) /\ q.pc \in EvPC /\ q.window \in Windows /\ q.todo \subseteq NodeSets(q.window)
      BY <1>2, <1>11, <2>4 DEF EvShape, EvPC
    <3> QED
      BY <2>5, <3>1, <3>2 DEF EvOK, EvShape
  <2>11. ev' = [d \in Evaluators |-> ev'[d]]
    BY <1>2, <1>15
  <2> QED
    BY <1>14, <2>2, <2>5, <2>10, <2>11, StepKeeps DEF IInv
<1>16. CASE UNCHANGED <<node, raced>> /\ ev' = [ev EXCEPT ![e] = [next EXCEPT !.clean = FALSE]]
  <2>1. TablesOK' /\ Kept
    BY <1>14, <1>16, RowsUntouched DEF IInv
  <2>2. PICK q : q = [next EXCEPT !.clean = FALSE]
    OBVIOUS
  <2>3. q = [pc |-> pc, window |-> r.window, todo |-> r.todo, nodes |-> r.nodes, id |-> r.id,
             left |-> r.left \ {n}, ids |-> r.ids, at |-> r.at, clean |-> FALSE]
    BY <1>10, <2>2
  <2>4. ev'[e] = q /\ \A d \in Evaluators : d # e => ev'[d] = ev[d]
    BY <1>2, <1>16, <2>2
  <2>5. WorkOK(r)'
    BY <1>2, <2>1, WorkKept DEF IInv
  <2>6. WorkOK(q)'
    <3>1. AtOK(q) /\ 1..Written(q) = {} /\ q.left \subseteq q.nodes
      BY <1>13, <2>3
    <3>2. NodesFor(q.id)' = q.nodes /\ q.id \in DOMAIN corr'
      BY <2>3, <2>5 DEF WorkOK, NodesFor
    <3>3. q.nodes \in NodeSets(q.window) /\ q.ids \in [q.nodes -> 0..Len(node')] /\ ~q.clean
      BY <1>3, <2>3, <2>5 DEF WorkOK
    <3>4. ASSUME NEW m \in q.nodes, q.ids[m] # 0
          PROVE  node'[q.ids[m]].ref = m /\ (q.id \notin moved' => node'[q.ids[m]].corr = q.id)
      BY <2>3, <2>5, <3>4 DEF WorkOK
    <3> QED
      BY <3>1, <3>2, <3>3, <3>4 DEF WorkOK
  <2>7. EvOK(e)'
    <3>1. WorkOK(ev[e])'
      BY <2>4, <2>6
    <3>2. EvShape(q) /\ q.pc \in EvPC /\ q.window \in Windows /\ q.todo \subseteq NodeSets(q.window)
      BY <1>2, <1>11, <2>3 DEF EvShape, EvPC
    <3> QED
      BY <2>4, <3>1, <3>2 DEF EvOK, EvShape
  <2>8. ev' = [d \in Evaluators |-> ev'[d]]
    BY <1>2, <1>16
  <2>9. TxInv'
    BY <1>14, <1>16, <2>1, TxUntouched DEF IInv
  <2> QED
    BY <1>14, <2>1, <2>4, <2>7, <2>8, <2>9, StepKeeps DEF IInv
<1>17. \/ /\ ~KeyLocked(Analysts, r.id, n) /\ node' = CreateNode(r.id, n, role)
          /\ Writes(e, moved \cup Emptying)
          /\ ev' = [ev EXCEPT ![e] = [next EXCEPT !.ids[n] = SavedNode(node', r.id, n)]]
       \/ UNCHANGED <<node, raced>> /\ ev' = [ev EXCEPT ![e] = [next EXCEPT !.clean = FALSE]]
  BY <1>1, <1>5, <1>7, <1>8 DEF PersistNode
<1> QED
  BY <1>15, <1>16, <1>17

LEMMA Advanced ==
    ASSUME NEW e, EvShape(ev[e]), NEW size, NEW pc
    PROVE  Advance(e, size, pc) =
             [pc |-> IF ev[e].at = size THEN pc ELSE ev[e].pc, window |-> ev[e].window, todo |-> ev[e].todo,
              nodes |-> ev[e].nodes, id |-> ev[e].id, left |-> ev[e].left, ids |-> ev[e].ids,
              at |-> IF ev[e].at = size THEN 1 ELSE ev[e].at + 1, clean |-> ev[e].clean]
<1>1. CASE ev[e].at = size
  <2>1. PICK q : q = [ev[e] EXCEPT !.pc = pc, !.at = 1]
    OBVIOUS
  <2>2. q = [pc |-> pc, window |-> ev[e].window, todo |-> ev[e].todo, nodes |-> ev[e].nodes, id |-> ev[e].id,
             left |-> ev[e].left, ids |-> ev[e].ids, at |-> 1, clean |-> ev[e].clean]
    BY <2>1 DEF EvShape
  <2> QED
    BY <1>1, <2>1, <2>2 DEF Advance
<1>2. CASE ev[e].at # size
  <2>1. [ev[e] EXCEPT !.at = ev[e].at + 1] =
          [pc |-> ev[e].pc, window |-> ev[e].window, todo |-> ev[e].todo, nodes |-> ev[e].nodes, id |-> ev[e].id,
           left |-> ev[e].left, ids |-> ev[e].ids, at |-> ev[e].at + 1, clean |-> ev[e].clean]
    BY DEF EvShape
  <2> QED
    BY <1>2, <2>1 DEF Advance
<1> QED
  BY <1>1, <1>2

(* An evaluation that keeps its row and what it knows of the nodes.         *)
LEMMA SameWork ==
    ASSUME NEW r, NEW q, WorkOK(r)',
           q.window = r.window, q.nodes = r.nodes, q.id = r.id, q.left = r.left, q.ids = r.ids,
           AtOK(q), q.clean => r.clean,
           q.clean /\ q.id \notin moved' =>
             \A k \in 1..Written(q) : RowOf(r, EdgesFor(r.window, r.nodes)[k]) \in edge'
    PROVE  WorkOK(q)'
<1>1. \A x : RowOf(q, x) = RowOf(r, x)
  BY DEF RowOf
<1> QED
  BY <1>1 DEF WorkOK

LEMMA EvaluatorMoved ==
    ASSUME IInv, TablesOK', Kept, NEW e \in Evaluators, NEW q, ev' = [ev EXCEPT ![e] = q],
           EvShape(q), q.pc \in EvPC, q.window \in Windows, q.todo \subseteq NodeSets(q.window),
           q.pc \in Working => WorkOK(q)', UNCHANGED att, TxInv',
           \A s \in stored' : s \in stored \/ StoredIn(s)'
    PROVE  IInv'
<1>1. ev'[e] = q /\ (\A d \in Evaluators : d # e => ev'[d] = ev[d]) /\ ev' = [d \in Evaluators |-> ev'[d]]
  BY DEF IInv
<1>2. ev'[e].pc \in Working => WorkOK(ev[e])'
  BY <1>1
<1>3. EvOK(e)'
  BY <1>1, <1>2 DEF EvOK, EvShape
<1>4. att' = [a \in Attachers |-> att'[a]]
  BY DEF IInv
<1> QED
  BY <1>1, <1>3, <1>4, StepKeeps

(* An evaluation that comes to its end with nothing failed has stored its   *)
(* component.                                                               *)
LEMMA Completion ==
    ASSUME TablesOK', NEW r, WorkOK(r)', r.window \in Windows, r.pc \in {"chain", "stages"}, r.clean
    PROVE  StoredIn([id |-> r.id, window |-> r.window, nodes |-> r.nodes])'
<1> DEFINE E == EdgesFor(r.window, r.nodes)
<1>1. r.nodes \in NodeSets(r.window) /\ r.id \in DOMAIN corr' /\ NodesFor(r.id)' = r.nodes
  BY DEF WorkOK
<1>2. r.left = {} /\ Written(r) = Len(E)
  BY DEF WorkOK, AtOK, Written
<1>3. Len(node') \in Nat /\ DOMAIN node' = 1..Len(node')
  <2>1. node' \in Seq([corr : Nat, ref : Ids, role : Roles])
    BY DEF TablesOK, NodeOK
  <2> QED
    BY <2>1, LenProperties
<1>4. ASSUME r.id \notin moved', NEW n \in r.nodes
      PROVE  r.ids[n] \in DOMAIN node' /\ node'[r.ids[n]].corr = r.id /\ node'[r.ids[n]].ref = n
  BY <1>2, <1>3, <1>4 DEF WorkOK
<1>5. ASSUME r.id \notin moved', NEW k \in 1..Len(E)
      PROVE  \E x \in edge' : x.corr = r.id /\ Key(x)' = EdgeKey(E[k])
  <2>1. PICK x : x = RowOf(r, E[k])
    OBVIOUS
  <2>2. x \in edge'
    BY <1>2, <1>5, <2>1 DEF WorkOK
  <2>3. E[k].src \in r.nodes /\ E[k].dst \in r.nodes
    BY <1>1, <1>5, SetsOfNodes
  <2>4. /\ x.corr = r.id /\ x.src = r.ids[E[k].src] /\ x.dst = r.ids[E[k].dst]
        /\ x.rel = E[k].rel /\ x.strategy = E[k].strategy
    BY <2>1 DEF RowOf
  <2>5. Key(x)' = EdgeKey(E[k])
    BY <1>4, <1>5, <2>3, <2>4 DEF Key, EdgeKey
  <2> QED
    BY <2>2, <2>4, <2>5
<1>6. PICK s : s = [id |-> r.id, window |-> r.window, nodes |-> r.nodes]
  OBVIOUS
<1>7. s.id = r.id /\ s.window = r.window /\ s.nodes = r.nodes
  BY <1>6
<1>8. s.id \notin moved' =>
        /\ \A n \in s.nodes : \E i \in DOMAIN node' : node'[i].corr = s.id /\ node'[i].ref = n
        /\ \A k \in 1..Len(EdgesFor(s.window, s.nodes)) :
             \E x \in edge' : x.corr = s.id /\ Key(x)' = EdgeKey(EdgesFor(s.window, s.nodes)[k])
  BY <1>4, <1>5, <1>7
<1>9. StoredIn(s)'
  BY <1>1, <1>7, <1>8 DEF StoredIn
<1> QED
  BY <1>6, <1>9

LEMMA CompletedKept ==
    ASSUME TablesOK', NEW e, NEW r, r = ev[e], WorkOK(r)', r.window \in Windows, r.pc \in {"chain", "stages"},
           stored' \in {stored, Completed(e)}
    PROVE  \A s \in stored' : s \in stored \/ StoredIn(s)'
<1>1. PICK t : t = [id |-> r.id, window |-> r.window, nodes |-> r.nodes]
  OBVIOUS
<1>2. r.clean => StoredIn(t)'
  BY <1>1, Completion
<1>3. stored' = stored \/ (r.clean /\ stored' = stored \cup {t})
  BY <1>1 DEF Completed
<1> QED
  BY <1>2, <1>3

LEMMA PersistEdgeKeeps ==
    ASSUME IInv, NEW e \in Evaluators, PersistEdge(e)
    PROVE  IInv'
<1>1. PICK r : r = ev[e]
  OBVIOUS
<1>2. /\ r.pc = "edges" /\ EvShape(r) /\ WorkOK(r) /\ r.window \in Windows /\ r.todo \subseteq NodeSets(r.window)
      /\ EvShape(ev[e])
  BY <1>1 DEF PersistEdge, IInv, EvOK, Working
<1> DEFINE E == EdgesFor(r.window, r.nodes)
<1>3. /\ r.nodes \in NodeSets(r.window) /\ r.left = {} /\ r.at \in 1..Len(E)
      /\ r.id \in DOMAIN corr /\ NodesFor(r.id) = r.nodes /\ Written(r) = r.at - 1
  BY <1>2 DEF WorkOK, AtOK, Written
<1>4. Len(E) \in Nat /\ DOMAIN E = 1..Len(E)
  BY <1>2, <1>3, SetsOfNodes
<1>5. PICK x : x = E[r.at] /\ x.src \in r.nodes /\ x.dst \in r.nodes /\ x.src # x.dst
  BY <1>2, <1>3, SetsOfNodes
<1>6. Component(e).edges = E
  BY <1>1 DEF Component, EdgesFor
<1>7. PICK next : next = Advance(e, Len(E), "chain")
  OBVIOUS
<1>8. PICK pc : pc = IF r.at = Len(E) THEN "chain" ELSE "edges"
  OBVIOUS
<1>9. PICK at : at = IF r.at = Len(E) THEN 1 ELSE r.at + 1
  OBVIOUS
<1>10. next = [pc |-> pc, window |-> r.window, todo |-> r.todo, nodes |-> r.nodes, id |-> r.id,
               left |-> r.left, ids |-> r.ids, at |-> at, clean |-> r.clean]
  BY <1>1, <1>2, <1>7, <1>8, <1>9, Advanced
<1>11. UNCHANGED <<corr, node, att, tx, stored, moved>>
  BY DEF PersistEdge
<1>12. ASSUME NEW q, q.pc = pc, q.window = r.window, q.nodes = r.nodes, q.left = r.left, q.at = at
       PROVE  AtOK(q) /\ 1..Written(q) = 1..r.at
  <2>1. CASE r.at = Len(E)
    BY <1>3, <1>4, <1>8, <1>9, <1>12, <2>1 DEF AtOK, Written
  <2>2. CASE r.at # Len(E)
    <3>1. pc = "edges" /\ at = r.at + 1 /\ r.at + 1 \in 1..Len(E) /\ (r.at + 1) - 1 = r.at
      BY <1>3, <1>4, <1>8, <1>9, <2>2
    <3> QED
      BY <1>3, <1>12, <3>1 DEF AtOK, Written
  <2> QED
    BY <2>1, <2>2
<1>13. \* with the tables as they must be, the step of the evaluation is one of these
       ASSUME TablesOK', Kept, TxInv', NEW q,
              q = [pc |-> pc, window |-> r.window, todo |-> r.todo, nodes |-> r.nodes, id |-> r.id,
                   left |-> r.left, ids |-> r.ids, at |-> at, clean |-> q.clean],
              q.clean => r.clean, q.clean /\ r.id \notin moved' => RowOf(r, x) \in edge',
              ev' = [ev EXCEPT ![e] = q]
       PROVE  IInv'
  <2>1. /\ q.pc = pc /\ q.window = r.window /\ q.todo = r.todo /\ q.nodes = r.nodes /\ q.id = r.id
        /\ q.left = r.left /\ q.ids = r.ids /\ q.at = at
    BY <1>13
  <2>3. WorkOK(r)'
    BY <1>2, <1>13, WorkKept DEF IInv
  <2>4. AtOK(q) /\ 1..Written(q) = 1..r.at
    BY <1>12, <2>1
  <2>5. ASSUME q.clean, q.id \notin moved', NEW k \in 1..Written(q)
        PROVE  RowOf(r, E[k]) \in edge'
    <3>1. CASE k = r.at
      BY <1>5, <1>13, <2>1, <2>5, <3>1
    <3>2. CASE k # r.at
      <4>1. k \in 1..Written(r)
        <5>1. k \in 1..r.at
          BY <2>4, <2>5
        <5> QED
          BY <1>3, <1>4, <3>2, <5>1
      <4>2. r.clean /\ r.id \notin moved'
        BY <1>13, <2>1, <2>5
      <4> QED
        BY <2>3, <4>1, <4>2 DEF WorkOK
    <3> QED
      BY <3>1, <3>2
  <2>6. WorkOK(q)'
    <3>1. /\ q.window = r.window /\ q.nodes = r.nodes /\ q.id = r.id /\ q.left = r.left /\ q.ids = r.ids
          /\ q.clean => r.clean
      BY <1>13, <2>1
    <3> QED
      BY <2>3, <2>4, <2>5, <3>1, SameWork
  <2>7. EvShape(q) /\ q.pc \in EvPC /\ q.window \in Windows /\ q.todo \subseteq NodeSets(q.window)
    BY <1>2, <1>8, <1>13, <2>1 DEF EvShape, EvPC
  <2> QED
    BY <1>11, <1>13, <2>6, <2>7, EvaluatorMoved
<1>14. PICK src, dst : src = r.ids[x.src] /\ dst = r.ids[x.dst]
  OBVIOUS
<1>15. PICK row : row = RowOf(r, x)
  OBVIOUS
<1>16. row = [corr |-> r.id, src |-> src, dst |-> dst, rel |-> x.rel, strategy |-> x.strategy]
  BY <1>14, <1>15 DEF RowOf
<1>17. /\ next = [pc |-> pc, window |-> r.window, todo |-> r.todo, nodes |-> r.nodes, id |-> r.id,
                   left |-> r.left, ids |-> r.ids, at |-> at, clean |-> next.clean]
       /\ next.clean = r.clean
  BY <1>10
<1>18. CASE /\ 0 \notin {src, dst} /\ ~EdgeLocked(row) /\ edge' = edge \cup {row} /\ Writes(e, moved)
            /\ ev' = [ev EXCEPT ![e] = next]
  <2>1. /\ src \in DOMAIN node /\ node[src].ref = x.src /\ (r.id \notin moved => node[src].corr = r.id)
        /\ dst \in DOMAIN node /\ node[dst].ref = x.dst /\ (r.id \notin moved => node[dst].corr = r.id)
    <3>1. Len(node) \in Nat /\ DOMAIN node = 1..Len(node)
      BY TableFacts DEF IInv
    <3>2. ASSUME NEW n \in r.nodes, NEW i, i = r.ids[n], i # 0
          PROVE  /\ i \in DOMAIN node /\ node[i].ref = n
                 /\ r.id \notin moved => node[i].corr = r.id
      BY <1>2, <3>1, <3>2 DEF WorkOK
    <3>3. src # 0 /\ dst # 0
      BY <1>18
    <3> QED
      BY <1>5, <1>14, <3>1, <3>2, <3>3
  <2>2. src # dst
    BY <1>5, <2>1
  <2>3. \E w \in Windows : \E c \in Components[w] :
          c.nodes = NodesFor(r.id) /\ \E k \in DOMAIN c.edges : EdgeKey(c.edges[k]) = Key(row)
    <3>1. PICK c \in Components[r.window] : c.nodes = r.nodes /\ c.edges = E
      BY <1>2, <1>3, KnownByNodes DEF NodeSets, EdgesFor
    <3>2. EdgeKey(E[r.at]) = Key(row)
      BY <1>5, <1>16, <2>1 DEF EdgeKey, Key
    <3>3. r.at \in DOMAIN E
      BY <1>3, <1>4
    <3> QED
      BY <1>2, <1>3, <3>1, <3>2, <3>3
  <2>4. /\ row = [corr |-> row.corr, src |-> row.src, dst |-> row.dst, rel |-> row.rel, strategy |-> row.strategy]
        /\ row.corr = r.id /\ row.src = src /\ row.dst = dst
    BY <1>16
  <2>5. raced' = IF row.corr \in moved THEN raced \cup {row.corr} ELSE raced
    BY <1>1, <1>18, <2>4 DEF Writes
  <2>6. TablesOK' /\ Kept
    <3>1. TablesOK /\ edge' = edge \cup {row} /\ UNCHANGED <<corr, node, moved>>
      BY <1>11, <1>18 DEF IInv
    <3>2. /\ row.corr \in DOMAIN corr /\ row.src \in DOMAIN node /\ row.dst \in DOMAIN node /\ row.src # row.dst
          /\ row.corr \notin moved => node[row.src].corr = row.corr /\ node[row.dst].corr = row.corr
          /\ \E w \in Windows : \E c \in Components[w] :
               c.nodes = NodesFor(row.corr) /\ \E k \in DOMAIN c.edges : EdgeKey(c.edges[k]) = Key(row)
      BY <1>3, <2>1, <2>2, <2>3, <2>4
    <3> QED
      BY <2>4, <2>5, <3>1, <3>2, EdgeCreated
  <2>7. RowOf(r, x) \in edge'
    BY <1>15, <1>18
  <2>8. TxInv'
    BY <1>11, <1>18, <2>5, TxEdgeCreated DEF IInv
  <2> QED
    BY <1>13, <1>17, <1>18, <2>6, <2>7, <2>8
<1>19. CASE 0 \in {src, dst} /\ ev' = [ev EXCEPT ![e] = next] /\ UNCHANGED <<edge, raced>>
  <2>1. ~r.clean
    BY <1>2, <1>3, <1>5, <1>14, <1>19 DEF WorkOK
  <2>2. TablesOK' /\ Kept
    BY <1>11, <1>19, RowsUntouched DEF IInv
  <2>3. TxInv'
    BY <1>11, <1>19, <2>2, TxUntouched DEF IInv
  <2> QED
    BY <1>13, <1>17, <1>19, <2>1, <2>2, <2>3
<1>20. CASE ev' = [ev EXCEPT ![e] = [next EXCEPT !.clean = FALSE]] /\ UNCHANGED <<edge, raced>>
  <2>1. TablesOK' /\ Kept
    BY <1>11, <1>20, RowsUntouched DEF IInv
  <2>2. PICK q : q = [next EXCEPT !.clean = FALSE]
    OBVIOUS
  <2>3. q = [pc |-> pc, window |-> r.window, todo |-> r.todo, nodes |-> r.nodes, id |-> r.id,
             left |-> r.left, ids |-> r.ids, at |-> at, clean |-> q.clean] /\ ~q.clean
    BY <1>10, <2>2
  <2>4. TxInv'
    BY <1>11, <1>20, <2>1, TxUntouched DEF IInv
  <2> QED
    BY <1>13, <1>20, <2>1, <2>2, <2>3, <2>4
<1>21. \/ /\ 0 \notin {src, dst} /\ ~EdgeLocked(row) /\ edge' = edge \cup {row} /\ Writes(e, moved)
          /\ ev' = [ev EXCEPT ![e] = next]
       \/ 0 \in {src, dst} /\ ev' = [ev EXCEPT ![e] = next] /\ UNCHANGED <<edge, raced>>
       \/ ev' = [ev EXCEPT ![e] = [next EXCEPT !.clean = FALSE]] /\ UNCHANGED <<edge, raced>>
  BY <1>1, <1>5, <1>6, <1>7, <1>14, <1>16 DEF PersistEdge
<1> QED
  BY <1>18, <1>19, <1>20, <1>21

(* A step of an evaluation past its edges, which writes only chains.        *)
LEMMA ChainStepKeeps ==
    ASSUME IInv, NEW e \in Evaluators, NEW r, r = ev[e], r.pc \in {"chain", "stages"},
           UNCHANGED <<corr, node, edge, att, tx, moved, raced>>, stored' \in {stored, Completed(e)},
           NEW q, q = [pc |-> q.pc, window |-> r.window, todo |-> r.todo, nodes |-> r.nodes, id |-> r.id,
                       left |-> r.left, ids |-> r.ids, at |-> q.at, clean |-> q.clean],
           q.pc \in {"component", "stages"}, q.clean => r.clean, ev' = [ev EXCEPT ![e] = q]
    PROVE  IInv'
<1>1. WorkOK(r) /\ r.window \in Windows /\ r.todo \subseteq NodeSets(r.window)
  BY DEF IInv, EvOK, Working
<1>2. TablesOK' /\ Kept /\ TxInv'
  BY RowsUntouched, TxUntouched DEF IInv
<1>3. WorkOK(r)'
  BY <1>1, <1>2, WorkKept DEF IInv
<1>4. \A s \in stored' : s \in stored \/ StoredIn(s)'
  BY <1>1, <1>2, <1>3, CompletedKept
<1>5. q.window = r.window /\ q.todo = r.todo /\ q.nodes = r.nodes /\ q.id = r.id /\ q.left = r.left /\ q.ids = r.ids
  OBVIOUS
<1>6. ASSUME q.pc = "stages" PROVE WorkOK(q)'
  <2>1. AtOK(q) /\ Written(q) = Written(r)
    BY <1>1, <1>5, <1>6 DEF WorkOK, AtOK, Written
  <2>2. q.clean /\ q.id \notin moved' =>
          \A k \in 1..Written(q) : RowOf(r, EdgesFor(r.window, r.nodes)[k]) \in edge'
    BY <1>3, <1>5, <2>1 DEF WorkOK
  <2> QED
    BY <1>3, <1>5, <2>1, <2>2, SameWork
<1>7. EvShape(q) /\ q.pc \in EvPC /\ q.window \in Windows /\ q.todo \subseteq NodeSets(q.window)
  BY <1>1, <1>5 DEF EvShape, EvPC
<1>8. q.pc \in Working => WorkOK(q)'
  BY <1>6 DEF Working
<1> QED
  BY <1>2, <1>4, <1>7, <1>8, EvaluatorMoved

LEMMA PersistChainKeeps ==
    ASSUME IInv, NEW e \in Evaluators, PersistChain(e)
    PROVE  IInv'
<1>1. PICK r : r = ev[e]
  OBVIOUS
<1>2. r.pc = "chain" /\ EvShape(r) /\ UNCHANGED <<corr, node, edge, att, tx, moved, raced>>
  BY <1>1 DEF PersistChain, IInv, EvOK
<1>3. stored' \in {stored, Completed(e)}
  BY DEF PersistChain
<1>4. PICK pc \in {"component", "stages"} : ev' = [ev EXCEPT ![e].pc = pc]
  BY DEF PersistChain
<1>5. PICK q : q = [r EXCEPT !.pc = pc]
  OBVIOUS
<1>6. q = [pc |-> pc, window |-> r.window, todo |-> r.todo, nodes |-> r.nodes, id |-> r.id,
           left |-> r.left, ids |-> r.ids, at |-> r.at, clean |-> r.clean]
  BY <1>2, <1>5 DEF EvShape
<1>7. /\ q = [pc |-> q.pc, window |-> r.window, todo |-> r.todo, nodes |-> r.nodes, id |-> r.id,
              left |-> r.left, ids |-> r.ids, at |-> q.at, clean |-> q.clean]
      /\ q.pc = pc /\ q.clean = r.clean
  BY <1>6
<1>8. ev' = [ev EXCEPT ![e] = q]
  BY <1>1, <1>4, <1>5
<1> QED
  BY <1>1, <1>2, <1>3, <1>7, <1>8, ChainStepKeeps

LEMMA PersistStageKeeps ==
    ASSUME IInv, NEW e \in Evaluators, PersistStage(e)
    PROVE  IInv'
<1>1. PICK r : r = ev[e]
  OBVIOUS
<1>2. r.pc = "stages" /\ EvShape(r) /\ EvShape(ev[e]) /\ UNCHANGED <<corr, node, edge, att, tx, moved, raced>>
  BY <1>1 DEF PersistStage, IInv, EvOK
<1>3. stored' \in {stored, Completed(e)}
  BY DEF PersistStage
<1>4. PICK next : next = Advance(e, Len(Drafts(e)), "component")
  OBVIOUS
<1>5. PICK pc : pc = IF r.at = Len(Drafts(e)) THEN "component" ELSE r.pc
  OBVIOUS
<1>6. PICK at : at = IF r.at = Len(Drafts(e)) THEN 1 ELSE r.at + 1
  OBVIOUS
<1>7. next = [pc |-> pc, window |-> r.window, todo |-> r.todo, nodes |-> r.nodes, id |-> r.id,
              left |-> r.left, ids |-> r.ids, at |-> at, clean |-> r.clean]
  BY <1>1, <1>2, <1>4, <1>5, <1>6, Advanced
<1>8. pc \in {"component", "stages"}
  BY <1>2, <1>5
<1>9. PICK failed : failed = [next EXCEPT !.clean = FALSE]
  OBVIOUS
<1>10. failed = [pc |-> pc, window |-> r.window, todo |-> r.todo, nodes |-> r.nodes, id |-> r.id,
                 left |-> r.left, ids |-> r.ids, at |-> at, clean |-> FALSE]
  BY <1>7, <1>9
<1>11. ev' = [ev EXCEPT ![e] = next] \/ ev' = [ev EXCEPT ![e] = failed]
  BY <1>4, <1>9 DEF PersistStage
<1>12. PICK q : q \in {next, failed} /\ ev' = [ev EXCEPT ![e] = q]
  BY <1>11
<1>13. /\ q = [pc |-> q.pc, window |-> r.window, todo |-> r.todo, nodes |-> r.nodes, id |-> r.id,
               left |-> r.left, ids |-> r.ids, at |-> q.at, clean |-> q.clean]
       /\ q.pc = pc /\ (q.clean => r.clean)
  <2>1. CASE q = next
    BY <1>7, <2>1
  <2>2. CASE q = failed
    BY <1>10, <2>2
  <2> QED
    BY <1>12, <2>1, <2>2
<1> QED
  BY <1>1, <1>2, <1>3, <1>8, <1>12, <1>13, ChainStepKeeps

(* One row takes a new status or investigation.                             *)
LEMMA RowDecided ==
    ASSUME TablesOK, NEW c \in DOMAIN corr, NEW q, RowShape(q), RowValues(q),
           q.fingerprint = corr[c].fingerprint, q.mergedInto = corr[c].mergedInto,
           q.splitFrom = corr[c].splitFrom, corr' = [corr EXCEPT ![c] = q],
           UNCHANGED <<node, edge, moved, raced>>
    PROVE  TablesOK' /\ Kept
<1>1. PICK t : t = [corr EXCEPT ![c] = q]
  OBVIOUS
<1>2. t = [d \in DOMAIN corr |-> t[d]]
  BY <1>1
<1>3. ASSUME NEW d \in DOMAIN corr
      PROVE  /\ RowShape(t[d]) /\ RowValues(t[d])
             /\ t[d].splitFrom = corr[d].splitFrom /\ t[d].mergedInto = corr[d].mergedInto
             /\ t[d].fingerprint = corr[d].fingerprint
  <2>1. RowShape(corr[d]) /\ RowValues(corr[d])
    BY RowFields
  <2>2. CASE d = c
    <3>1. t[d] = q
      BY <1>1, <2>2
    <3> QED
      BY <2>2, <3>1
  <2>3. CASE d # c
    <3>1. t[d] = corr[d]
      BY <1>1, <2>3
    <3> QED
      BY <2>1, <3>1
  <2> QED
    BY <2>2, <2>3
<1>4. CorrOK' /\ DOMAIN corr' = DOMAIN corr
  BY <1>1, <1>2, <1>3, RowFields, RowsChanged
<1> QED
  BY <1>1, <1>3, <1>4, RowsUpdated

LEMMA DecisionTables ==
    ASSUME TablesOK, NEW c \in DOMAIN corr, NEW s \in Statuses, NEW inv,
           corr' = [corr EXCEPT ![c].status = s] \/ corr' = [corr EXCEPT ![c].inv = inv, ![c].status = s],
           UNCHANGED <<node, edge, moved, raced>>
    PROVE  TablesOK' /\ Kept
<1>1. RowShape(corr[c]) /\ RowValues(corr[c])
  BY RowFields
<1>2. CASE corr' = [corr EXCEPT ![c].status = s]
  <2>1. PICK q : q = [corr[c] EXCEPT !.status = s]
    OBVIOUS
  <2>2. q = [fingerprint |-> corr[c].fingerprint, status |-> s, score |-> corr[c].score,
             confidence |-> corr[c].confidence, severity |-> corr[c].severity, last |-> corr[c].last,
             inv |-> corr[c].inv, mergedInto |-> corr[c].mergedInto, mergedFrom |-> corr[c].mergedFrom,
             splitFrom |-> corr[c].splitFrom]
    BY <1>1, <2>1 DEF RowShape
  <2>3. corr' = [corr EXCEPT ![c] = q]
    BY <1>2, <2>1
  <2>4. /\ RowShape(q) /\ RowValues(q) /\ q.fingerprint = corr[c].fingerprint
        /\ q.mergedInto = corr[c].mergedInto /\ q.splitFrom = corr[c].splitFrom
    BY <1>1, <2>2 DEF RowShape, RowValues
  <2> QED
    BY <2>3, <2>4, RowDecided
<1>3. CASE corr' = [corr EXCEPT ![c].inv = inv, ![c].status = s]
  <2>1. PICK q : q = [corr[c] EXCEPT !.inv = inv, !.status = s]
    OBVIOUS
  <2>2. q = [fingerprint |-> corr[c].fingerprint, status |-> s, score |-> corr[c].score,
             confidence |-> corr[c].confidence, severity |-> corr[c].severity, last |-> corr[c].last,
             inv |-> inv, mergedInto |-> corr[c].mergedInto, mergedFrom |-> corr[c].mergedFrom,
             splitFrom |-> corr[c].splitFrom]
    BY <1>1, <2>1 DEF RowShape
  <2>3. corr' = [corr EXCEPT ![c] = q]
    BY <1>3, <2>1
  <2>4. /\ RowShape(q) /\ RowValues(q) /\ q.fingerprint = corr[c].fingerprint
        /\ q.mergedInto = corr[c].mergedInto /\ q.splitFrom = corr[c].splitFrom
    BY <1>1, <2>2 DEF RowShape, RowValues
  <2> QED
    BY <2>3, <2>4, RowDecided
<1> QED
  BY <1>2, <1>3

(* Analysts: what they do to the tables; the evaluations go on from there.  *)
LEMMA AnalystKeeps ==
    ASSUME IInv, TablesOK', Kept, TxInv', UNCHANGED <<ev, stored>>,
           att' = [a \in Attachers |-> att'[a]],
           \A a \in Attachers : att'[a] = att[a] \/ AttOK(a)'
    PROVE  IInv'
<1>1. ev' = [d \in Evaluators |-> ev'[d]]
  BY DEF IInv
<1> QED
  BY <1>1, StepKeeps

LEMMA DecisionsKeep ==
    ASSUME IInv, Confirm \/ Dismiss
    PROVE  IInv'
<1>1. PICK c \in DOMAIN corr, s \in {"confirmed", "dismissed"} : SetStatus(c, s)
  BY DEF Confirm, Dismiss
<1>2. s \in Statuses
  BY DEF Statuses
<1>3. TablesOK' /\ Kept
  BY <1>1, <1>2, DecisionTables DEF SetStatus, history, IInv
<1>5. TxInv'
  BY <1>1, <1>3, TxUntouched DEF SetStatus, history, IInv
<1>4. UNCHANGED <<ev, stored, att>> /\ att = [a \in Attachers |-> att[a]]
  BY <1>1 DEF SetStatus, history, IInv
<1> QED
  BY <1>3, <1>4, <1>5, AnalystKeeps

(* A step of a transaction before its end.                                  *)
LEMMA TxStepKeeps ==
    ASSUME IInv, NEW a \in Analysts, NEW q, tx' = [tx EXCEPT ![a] = q], TxOK(q),
           \A b \in Analysts : b # a => Apart(q, tx[b]),
           UNCHANGED <<corr, node, edge, moved, raced, stored, ev, att>>
    PROVE  IInv'
<1>1. TablesOK' /\ Kept
  BY RowsUntouched DEF IInv
<1>2. ASSUME NEW r, TxOK(r) PROVE Undisturbed(r)
  <2>1. Reassignable(node', r.moving, r.to)
    BY <1>2 DEF TxOK, Reassignable
  <2>2. \A c : NodesOf(c)' = NodesOf(c)
    BY DEF NodesOf
  <2>3. \A x \in edge' : \E y \in edge : y.src = x.src /\ y.dst = x.dst /\ EdgeId(y) = EdgeId(x)
    OBVIOUS
  <2> QED
    BY <2>1, <2>2, <2>3 DEF Undisturbed
<1>3. TxOK(q)'
  BY <1>2, TxKept
<1>4. TxInv'
  BY <1>2, <1>3, TxReplaced DEF IInv, TxInv, TxOK
<1>5. att = [b \in Attachers |-> att[b]]
  BY DEF IInv
<1> QED
  BY <1>1, <1>4, <1>5, AnalystKeeps

LEMMA BeginMergeKeeps ==
    ASSUME IInv, NEW a \in Analysts, BeginMerge(a)
    PROVE  IInv'
<1>1. PICK survivor \in DOMAIN corr : tx' = [tx EXCEPT ![a] = [NoTx EXCEPT !.pc = "open", !.to = survivor]]
  BY DEF BeginMerge
<1>2. PICK q : q = [NoTx EXCEPT !.pc = "open", !.to = survivor]
  OBVIOUS
<1>3. /\ q.pc = "open" /\ q.to = survivor /\ q.row = <<>> /\ q.from = <<>> /\ q.nodes = {}
      /\ q.moving = {} /\ q.edges = {} /\ TxShape(q)
  BY <1>2 DEF NoTx, TxShape
<1>4. Settled(q) = {} /\ SourcesOf(q) = {} /\ ToSet(q.from) = {} /\ q.from \in Seq(Nat)
  BY <1>3, EmptySeq DEF Settled, SourcesOf, ToSet
<1>5. Reassignable(node, q.moving, q.to)
  BY <1>3, NothingMoves DEF IInv
<1>6. EdgesSeen(q) /\ SourcesListed(q) /\ MergeTx(q)
  BY <1>3, <1>4 DEF EdgesSeen, SourcesListed, MergeTx
<1>7. TxOK(q)
  BY <1>3, <1>4, <1>5, <1>6 DEF TxOK, TxPC
<1>8. \A b \in Analysts : Apart(q, tx[b])
  BY <1>3 DEF Apart
<1>9. UNCHANGED <<corr, node, edge, moved, raced, stored, ev, att>>
  BY DEF BeginMerge, tables, history
<1> QED
  BY <1>1, <1>2, <1>7, <1>8, <1>9, TxStepKeeps

LEMMA BeginSplitKeeps ==
    ASSUME IInv, NEW a \in Analysts, BeginSplit(a)
    PROVE  IInv'
<1>1. PICK original \in DOMAIN corr, ids \in SUBSET DOMAIN node :
        tx' = [tx EXCEPT ![a] = [NoTx EXCEPT !.pc = "nodes", !.row = <<SplitRow(original)>>, !.nodes = ids]]
  BY DEF BeginSplit
<1>2. PICK row : row = SplitRow(original)
  OBVIOUS
<1>3. RowShape(row) /\ RowValues(row) /\ row.mergedInto = 0 /\ row.splitFrom \in DOMAIN corr
  <2>1. RowShape(corr[original]) /\ RowValues(corr[original])
    BY RowFields DEF IInv
  <2>2. row = [corr[original] EXCEPT !.status = "open", !.inv = 0, !.mergedInto = 0, !.mergedFrom = <<>>,
                                     !.splitFrom = original]
    BY <1>2 DEF SplitRow
  <2>3. row = [fingerprint |-> corr[original].fingerprint, status |-> "open",
               score |-> corr[original].score, confidence |-> corr[original].confidence,
               severity |-> corr[original].severity, last |-> corr[original].last, inv |-> 0,
               mergedInto |-> 0, mergedFrom |-> <<>>, splitFrom |-> original]
    BY <2>1, <2>2 DEF RowShape
  <2> QED
    BY <2>1, <2>3 DEF RowShape, RowValues, Statuses
<1>4. PICK q : q = [NoTx EXCEPT !.pc = "nodes", !.row = <<row>>, !.nodes = ids]
  OBVIOUS
<1>5. /\ q.pc = "nodes" /\ q.to = 0 /\ q.row = <<row>> /\ q.from = <<>> /\ q.nodes = ids
      /\ q.moving = {} /\ q.edges = {} /\ TxShape(q)
  BY <1>4 DEF NoTx, TxShape
<1>6. Settled(q) = {} /\ SourcesOf(q) = {} /\ ToSet(q.from) = {} /\ q.from \in Seq(Nat)
  BY <1>5, EmptySeq DEF Settled, SourcesOf, ToSet
<1>7. Reassignable(node, q.moving, q.to)
  BY <1>5, NothingMoves DEF IInv
<1>8. EdgesSeen(q) /\ SourcesListed(q) /\ SplitTx(q)
  BY <1>3, <1>5, <1>6 DEF EdgesSeen, SourcesListed, SplitTx
<1>9. TxOK(q)
  BY <1>5, <1>6, <1>7, <1>8 DEF TxOK, TxPC
<1>10. \A b \in Analysts : Apart(q, tx[b])
  BY <1>5 DEF Apart
<1>11. UNCHANGED <<corr, node, edge, moved, raced, stored, ev, att>>
  BY DEF BeginSplit, tables, history
<1> QED
  BY <1>1, <1>2, <1>4, <1>9, <1>10, <1>11, TxStepKeeps

LEMMA ListNodesKeeps ==
    ASSUME IInv, NEW a \in Analysts, ListNodes(a)
    PROVE  IInv'
<1>1. PICK r : r = tx[a]
  OBVIOUS
<1>2. r.pc = "open" /\ r.row = <<>> /\ TxOK(r) /\ TxShape(r) /\ r.nodes = {}
  BY <1>1 DEF IInv, TxInv, TxOK, ListNodes
<1>3. PICK source \in DOMAIN corr :
        LET listed == IF source = tx[a].to THEN {} ELSE NodesOf(source) \ tx[a].moving
        IN tx' = [tx EXCEPT ![a].from = Append(@, source), ![a].nodes = listed,
                            ![a].pc = IF listed = {} THEN "open" ELSE "nodes"]
  BY DEF ListNodes
<1>4. PICK listed : listed = IF source = r.to THEN {} ELSE NodesOf(source) \ r.moving
  OBVIOUS
<1>5. PICK pc : pc = IF listed = {} THEN "open" ELSE "nodes"
  OBVIOUS
<1>6. PICK from : from = Append(r.from, source)
  OBVIOUS
<1>7. PICK q : q = [r EXCEPT !.from = from, !.nodes = listed, !.pc = pc]
  OBVIOUS
<1>8. tx' = [tx EXCEPT ![a] = q]
  BY <1>1, <1>3, <1>4, <1>5, <1>6, <1>7
<1>9. /\ q.pc = pc /\ q.to = r.to /\ q.row = r.row /\ q.from = from /\ q.nodes = listed
      /\ q.moving = r.moving /\ q.edges = r.edges /\ TxShape(q)
  <2>1. q = [pc |-> pc, to |-> r.to, row |-> r.row, from |-> from, nodes |-> listed,
             moving |-> r.moving, edges |-> r.edges]
    BY <1>2, <1>7 DEF TxShape
  <2> QED
    BY <2>1 DEF TxShape
<1>10. from \in Seq(Nat) /\ ToSet(from) = ToSet(r.from) \cup {source}
  <2>1. r.from \in Seq(Nat) /\ source \in Nat
    BY <1>2, TableFacts DEF TxOK, IInv
  <2>2. /\ from \in Seq(Nat) /\ Len(from) = Len(r.from) + 1 /\ Len(r.from) \in Nat
        /\ \A k \in 1..Len(r.from) : from[k] = r.from[k]
        /\ from[Len(r.from) + 1] = source
    BY <1>6, <2>1, AppendProperties, LenProperties
  <2>3. DOMAIN from = 1..(Len(r.from) + 1) /\ DOMAIN r.from = 1..Len(r.from)
    BY <2>1, <2>2, LenProperties
  <2>4. \A k \in 1..(Len(r.from) + 1) : k \in 1..Len(r.from) \/ k = Len(r.from) + 1
    BY <2>2
  <2>5. \A k \in 1..Len(r.from) : k \in 1..(Len(r.from) + 1)
    BY <2>2
  <2>6. Len(r.from) + 1 \in 1..(Len(r.from) + 1)
    BY <2>2
  <2>7. ToSet(r.from) = {r.from[k] : k \in 1..Len(r.from)} /\ ToSet(from) = {from[k] : k \in 1..(Len(r.from) + 1)}
    BY <2>3 DEF ToSet
  <2> QED
    BY <2>2, <2>4, <2>5, <2>6, <2>7
<1>11. SourcesListed(q)
  <2> SUFFICES ASSUME NEW c \in SourcesOf(q), c \notin raced PROVE NodesOf(c) \subseteq r.moving \cup listed
    BY <1>9 DEF SourcesListed
  <2>1. c # r.to /\ (c \in ToSet(r.from) \/ c = source)
    BY <1>9, <1>10 DEF SourcesOf
  <2>2. CASE c = source
    BY <1>4, <2>1, <2>2
  <2>3. CASE c \in ToSet(r.from)
    BY <1>2, <2>1, <2>3 DEF TxOK, SourcesListed, SourcesOf
  <2> QED
    BY <2>1, <2>2, <2>3
<1>12. EdgesSeen(q)
  <2>1. Settled(q) = Settled(r)
    BY <1>2, <1>5, <1>9 DEF Settled
  <2> QED
    BY <1>2, <1>9, <2>1 DEF TxOK, EdgesSeen
<1>13. MergeTx(q)
  <2>1. r # NoTx /\ ~SplitTx(r)
    <3>1. NoTx.pc = "none"
      BY DEF NoTx
    <3> QED
      BY <1>2, <3>1 DEF SplitTx
  <2> QED
    BY <1>2, <1>5, <1>9, <2>1 DEF TxOK, MergeTx
<1>14. q.nodes \subseteq DOMAIN node /\ (q.pc = "open" => q.nodes = {})
  BY <1>4, <1>5, <1>9 DEF NodesOf
<1>15. TxOK(q)
  BY <1>2, <1>5, <1>9, <1>10, <1>11, <1>12, <1>13, <1>14 DEF TxOK, TxPC
<1>16. \A b \in Analysts : b # a => Apart(q, tx[b])
  BY <1>1, <1>9 DEF IInv, TxInv, Apart
<1>17. UNCHANGED <<corr, node, edge, moved, raced, stored, ev, att>>
  BY DEF ListNodes, tables, history
<1> QED
  BY <1>8, <1>15, <1>16, <1>17, TxStepKeeps

LEMMA MoveNodesKeeps ==
    ASSUME IInv, NEW a \in Analysts, MoveNodes(a)
    PROVE  IInv'
<1>1. PICK r : r = tx[a]
  OBVIOUS
<1>2. r.pc = "nodes" /\ TxOK(r) /\ TxShape(r)
  BY <1>1 DEF IInv, TxInv, TxOK, MoveNodes
<1>3. PICK moving : moving = r.moving \cup r.nodes
  OBVIOUS
<1>4. PICK q : q = [r EXCEPT !.moving = moving, !.pc = "edges"]
  OBVIOUS
<1>5. tx' = [tx EXCEPT ![a] = q]
  BY <1>1, <1>3, <1>4 DEF MoveNodes
<1>6. /\ q.pc = "edges" /\ q.to = r.to /\ q.row = r.row /\ q.from = r.from /\ q.nodes = r.nodes
      /\ q.moving = moving /\ q.edges = r.edges /\ TxShape(q)
  <2>1. q = [pc |-> "edges", to |-> r.to, row |-> r.row, from |-> r.from, nodes |-> r.nodes,
             moving |-> moving, edges |-> r.edges]
    BY <1>2, <1>4 DEF TxShape
  <2> QED
    BY <2>1 DEF TxShape
<1>7. Reassignable(node, moving, r.to)
  BY <1>1, <1>3, Reassignability DEF MoveNodes, IInv
<1>8. EdgesSeen(q)
  <2>1. Settled(q) \subseteq Settled(r)
    BY <1>2, <1>3, <1>6 DEF Settled
  <2> QED
    BY <1>2, <1>3, <1>6, <2>1 DEF TxOK, EdgesSeen
<1>9. SourcesListed(q)
  BY <1>2, <1>3, <1>6 DEF TxOK, SourcesListed, SourcesOf
<1>10. MergeTx(q) \/ SplitTx(q)
  <2>1. r # NoTx
    BY <1>2 DEF NoTx
  <2> QED
    BY <1>2, <1>6, <2>1 DEF TxOK, MergeTx, SplitTx
<1>11. TxOK(q)
  <2>1. q.from \in Seq(Nat) /\ ToSet(q.from) \subseteq DOMAIN corr
    BY <1>2, <1>6 DEF TxOK
  <2> QED
    BY <1>2, <1>3, <1>6, <1>7, <1>8, <1>9, <1>10, <2>1 DEF TxOK, TxPC
<1>12. ASSUME NEW b \in Analysts, b # a PROVE Apart(q, tx[b])
  <2>1. Apart(r, tx[b]) /\ TxOK(tx[b])
    BY <1>1, <1>12 DEF IInv, TxInv
  <2>2. \A i \in r.nodes : i \notin tx[b].moving
    BY <1>1, <1>12 DEF MoveNodes, Locked
  <2>3. r.to = tx[b].to /\ r.to # 0 => \A i \in r.nodes, j \in tx[b].moving : node[i].ref # node[j].ref
    BY <1>1, <1>12 DEF MoveNodes, KeyLocked
  <2> QED
    BY <1>3, <1>6, <2>1, <2>2, <2>3 DEF Apart
<1>13. UNCHANGED <<corr, node, edge, moved, raced, stored, ev, att>>
  BY DEF MoveNodes, tables, history
<1> QED
  BY <1>5, <1>11, <1>12, <1>13, TxStepKeeps

LEMMA MoveEdgesKeeps ==
    ASSUME IInv, NEW a \in Analysts, MoveEdges(a)
    PROVE  IInv'
<1>1. PICK r : r = tx[a]
  OBVIOUS
<1>2. r.pc = "edges" /\ TxOK(r) /\ TxShape(r) /\ r.nodes \subseteq r.moving
  BY <1>1 DEF IInv, TxInv, TxOK, MoveEdges
<1>3. PICK found : found = {EdgeId(x) : x \in EdgesTouching(r.nodes)}
  OBVIOUS
<1>4. PICK ids : ids = r.edges \cup found
  OBVIOUS
<1>5. PICK none : none = {}
  OBVIOUS
<1>6. PICK q : q = [r EXCEPT !.edges = ids, !.nodes = none, !.pc = "open"]
  OBVIOUS
<1>7. tx' = [tx EXCEPT ![a] = q]
  BY <1>1, <1>3, <1>4, <1>5, <1>6 DEF MoveEdges
<1>8. /\ q.pc = "open" /\ q.to = r.to /\ q.row = r.row /\ q.from = r.from /\ q.nodes = {}
      /\ q.moving = r.moving /\ q.edges = ids /\ TxShape(q)
  <2>1. q = [pc |-> "open", to |-> r.to, row |-> r.row, from |-> r.from, nodes |-> none,
             moving |-> r.moving, edges |-> ids]
    BY <1>2, <1>6 DEF TxShape
  <2> QED
    BY <1>5, <2>1 DEF TxShape
<1>9. EdgesSeen(q)
  <2>1. Settled(q) = r.moving /\ Settled(r) = r.moving \ r.nodes
    BY <1>2, <1>8 DEF Settled
  <2>2. ASSUME NEW x \in edge, x.src \in r.moving \/ x.dst \in r.moving PROVE EdgeId(x) \in ids
    <3>1. CASE x.src \in r.nodes \/ x.dst \in r.nodes
      BY <1>3, <1>4, <3>1 DEF EdgesTouching
    <3>2. CASE x.src \notin r.nodes /\ x.dst \notin r.nodes
      <4>1. EdgeId(x) \in r.edges
        BY <1>2, <2>1, <2>2, <3>2 DEF TxOK, EdgesSeen
      <4> QED
        BY <1>4, <4>1
    <3> QED
      BY <3>1, <3>2
  <2>3. ASSUME NEW k \in ids PROVE k[1] \in r.moving \/ k[2] \in r.moving
    <3>1. CASE k \in r.edges
      BY <1>2, <3>1 DEF TxOK, EdgesSeen
    <3>2. CASE k \in found
      BY <1>2, <1>3, <3>2 DEF EdgesTouching, EdgeId
    <3> QED
      BY <1>4, <3>1, <3>2
  <2> QED
    BY <1>8, <2>1, <2>2, <2>3 DEF EdgesSeen
<1>10. SourcesListed(q)
  BY <1>2, <1>8 DEF TxOK, SourcesListed, SourcesOf
<1>11. MergeTx(q) \/ SplitTx(q)
  <2>1. r # NoTx
    BY <1>2 DEF NoTx
  <2> QED
    BY <1>2, <1>8, <2>1 DEF TxOK, MergeTx, SplitTx
<1>12. TxOK(q)
  <2>1. q.from \in Seq(Nat) /\ ToSet(q.from) \subseteq DOMAIN corr
    BY <1>2, <1>8 DEF TxOK
  <2>2. Reassignable(node, q.moving, q.to) /\ q.moving \subseteq DOMAIN node /\ q.nodes \subseteq DOMAIN node
    BY <1>2, <1>8 DEF TxOK
  <2> QED
    BY <1>8, <1>9, <1>10, <1>11, <2>1, <2>2 DEF TxOK, TxPC
<1>13. \A b \in Analysts : b # a => Apart(q, tx[b])
  BY <1>1, <1>8 DEF IInv, TxInv, Apart
<1>14. UNCHANGED <<corr, node, edge, moved, raced, stored, ev, att>>
  BY DEF MoveEdges, tables, history
<1> QED
  BY <1>7, <1>12, <1>13, <1>14, TxStepKeeps

LEMMA RollbackKeeps ==
    ASSUME IInv, NEW a \in Analysts, Rollback(a)
    PROVE  IInv'
<1>1. tx' = [tx EXCEPT ![a] = NoTx] /\ UNCHANGED <<corr, node, edge, moved, raced, stored, ev, att>>
  BY DEF Rollback, tables, history
<1>2. NodeOK
  BY DEF IInv, TablesOK
<1>3. TxOK(NoTx)'
  BY <1>1, <1>2, NoTxOK DEF NodeOK
<1>4. TxOK(NoTx)
  BY <1>1, <1>3 DEF TxOK, MergeTx, SplitTx, EdgesSeen, SourcesListed, NodesOf, Reassignable, TxShape, Settled, SourcesOf
<1>5. \A b \in Analysts : Apart(NoTx, tx[b])
  <2>1. NoTx.moving = {}
    BY DEF NoTx
  <2> QED
    BY <2>1 DEF Apart
<1> QED
  BY <1>1, <1>4, <1>5, TxStepKeeps

LEMMA CommitKeeps ==
    ASSUME IInv, NEW a \in Analysts, Commit(a)
    PROVE  IInv'
<1>1. TablesOK' /\ Kept /\ TxInv'
  BY MergeCommitted, SplitCommitted
<1>2. UNCHANGED <<ev, stored, att>> /\ att = [b \in Attachers |-> att[b]]
  BY DEF Commit, IInv
<1> QED
  BY <1>1, <1>2, AnalystKeeps

LEMMA AttachmentKeeps ==
    ASSUME IInv, NEW a \in Attachers, ReadForAttachment(a) \/ CreateInvestigation(a) \/ SetInvestigation(a)
    PROVE  IInv'
<1>1. AttOK(a) /\ att = [b \in Attachers |-> att[b]] /\ TablesOK /\ TxInv
  BY DEF IInv
<1>2. UNCHANGED <<ev, tx, stored, node, edge, moved, raced>>
  BY DEF ReadForAttachment, CreateInvestigation, SetInvestigation, tables, history
<1>3. CASE ReadForAttachment(a)
  <2>1. PICK c \in DOMAIN corr :
          att' = [att EXCEPT ![a] = [pc |-> "read", id |-> c, inv |-> 0, refs |-> {node[i].ref : i \in NodesOf(c)}]]
    BY <1>3 DEF ReadForAttachment
  <2>2. corr' = corr
    BY <1>3 DEF ReadForAttachment, tables
  <2>3. TablesOK' /\ Kept
    BY <1>1, <1>2, <2>2, RowsUntouched
  <2>4. PICK refs : refs = {node[i].ref : i \in NodesOf(c)}
    OBVIOUS
  <2>5. att'[a] = [pc |-> "read", id |-> c, refs |-> refs, inv |-> 0]
    BY <1>1, <2>1, <2>4
  <2>6. AttOK(a)'
    BY <2>2, <2>5 DEF AttOK, AttPC
  <2> QED
    BY <1>1, <1>2, <2>1, <2>3, <2>6, TxUntouched, AnalystKeeps
<1>4. CASE CreateInvestigation(a)
  <2>1. corr' = corr /\ att[a].pc = "read"
    BY <1>4 DEF CreateInvestigation, tables
  <2>2. TablesOK' /\ Kept
    BY <1>1, <1>2, <2>1, RowsUntouched
  <2>3. PICK inv : att' = [att EXCEPT ![a].pc = "created", ![a].inv = inv]
    BY <1>4 DEF CreateInvestigation
  <2>4. att'[a] = [pc |-> "created", id |-> att[a].id, refs |-> att[a].refs, inv |-> inv]
    BY <1>1, <2>3 DEF AttOK
  <2>5. AttOK(a)'
    BY <1>1, <2>1, <2>4 DEF AttOK, AttPC
  <2> QED
    BY <1>1, <1>2, <2>2, <2>3, <2>5, TxUntouched, AnalystKeeps
<1>5. CASE SetInvestigation(a)
  <2>1. att[a].pc = "created" /\ att' = [att EXCEPT ![a].pc = "done"]
    BY <1>5 DEF SetInvestigation
  <2>2. PICK c \in DOMAIN corr : c = att[a].id
    BY <1>1, <2>1 DEF AttOK
  <2>3. PICK inv : inv = att[a].inv
    OBVIOUS
  <2>4. "investigating" \in Statuses
    BY DEF Statuses
  <2>5. corr' = corr \/ corr' = [corr EXCEPT ![c].inv = inv, ![c].status = "investigating"]
    BY <1>5, <2>2, <2>3 DEF SetInvestigation
  <2>6. TablesOK' /\ Kept
    <3>1. CASE corr' = corr
      BY <1>1, <1>2, <3>1, RowsUntouched
    <3>2. CASE corr' = [corr EXCEPT ![c].inv = inv, ![c].status = "investigating"]
      BY <1>1, <1>2, <2>4, <3>2, DecisionTables
    <3> QED
      BY <2>5, <3>1, <3>2
  <2>7. att'[a] = [pc |-> "done", id |-> att[a].id, refs |-> att[a].refs, inv |-> att[a].inv]
    BY <1>1, <2>1 DEF AttOK
  <2>8. AttOK(a)'
    BY <2>7 DEF AttOK, AttPC
  <2> QED
    BY <1>1, <1>2, <2>1, <2>6, <2>8, TxUntouched, AnalystKeeps
<1> QED
  BY <1>3, <1>4, <1>5

-----------------------------------------------------------------------------
(* The theorems.                                                           *)

LEMMA InitInv ==
    ASSUME Init
    PROVE  IInv
<1>1. corr = <<>> /\ node = <<>> /\ edge = {} /\ stored = {} /\ moved = {} /\ raced = {}
  BY DEF Init
<1>2. \A S : <<>> \in Seq(S)
  OBVIOUS
<1>3. Len(<<>>) = 0 /\ DOMAIN <<>> = {}
  BY EmptySeq
<1>4. CorrOK /\ NodeOK /\ EdgeOK
  BY <1>1, <1>2, <1>3 DEF CorrOK, NodeOK, EdgeOK, IsSeq
<1>5. NodesUnmoved /\ EdgesUnmoved /\ MergedMoved /\ GraphsHoldTogether
  BY <1>1, <1>3 DEF NodesUnmoved, EdgesUnmoved, MergedMoved, GraphsHoldTogether
<1>6. ev = [e \in Evaluators |-> ev[e]] /\ \A e \in Evaluators : EvOK(e)
  <2>1. ASSUME NEW e \in Evaluators PROVE EvOK(e)
    <3>1. ev[e] = EmptyEv
      BY DEF Init
    <3> QED
      BY <3>1 DEF EmptyEv, EvOK, EvShape, EvPC, Working
  <2> QED
    BY <2>1 DEF Init
<1>7. att = [a \in Attachers |-> att[a]] /\ \A a \in Attachers : AttOK(a)
  <2>1. ASSUME NEW a \in Attachers PROVE AttOK(a)
    <3>1. att[a] = [pc |-> "idle", id |-> 0, refs |-> {}, inv |-> 0]
      BY DEF Init
    <3> QED
      BY <3>1 DEF AttOK, AttPC
  <2> QED
    BY <2>1 DEF Init
<1>8. TxInv
  <2>1. PICK r : r = NoTx
    OBVIOUS
  <2>2. /\ r.pc = "none" /\ r.from = <<>> /\ r.nodes = {} /\ r.moving = {} /\ r.edges = {} /\ TxShape(r)
    BY <2>1 DEF NoTx, TxShape
  <2>3. Settled(r) = {} /\ SourcesOf(r) = {} /\ ToSet(r.from) = {} /\ r.from \in Seq(Nat)
    BY <2>2, EmptySeq DEF Settled, SourcesOf, ToSet
  <2>4. TxOK(r)
    BY <1>1, <1>3, <2>1, <2>2, <2>3 DEF TxOK, TxPC, Reassignable, EdgesSeen, SourcesListed
  <2>5. Apart(r, r)
    BY <2>2 DEF Apart
  <2>6. tx = [a \in Analysts |-> r]
    BY <2>1 DEF Init
  <2> QED
    BY <2>4, <2>5, <2>6 DEF TxInv
<1> QED
  BY <1>1, <1>4, <1>5, <1>6, <1>7, <1>8 DEF IInv, TablesOK

LEMMA StepInv ==
    ASSUME IInv, [Next]_vars
    PROVE  IInv'
<1>1. ASSUME NEW e \in Evaluators, Evaluate(e) \/ EvaluatorStep(e) PROVE IInv'
  BY <1>1, IdleSteps, PersistComponentKeeps, PersistNodeKeeps, PersistEdgeKeeps, PersistChainKeeps,
     PersistStageKeeps DEF EvaluatorStep
<1>2. ASSUME NEW a \in Attachers, ReadForAttachment(a) \/ CreateInvestigation(a) \/ SetInvestigation(a) PROVE IInv'
  BY <1>2, AttachmentKeeps
<1>3. CASE Confirm \/ Dismiss
  BY <1>3, DecisionsKeep
<1>4. ASSUME NEW a \in Analysts, Merge(a) \/ Split(a) \/ Restructure(a) PROVE IInv'
  BY <1>4, BeginMergeKeeps, BeginSplitKeeps, ListNodesKeeps, MoveNodesKeeps, MoveEdgesKeeps, CommitKeeps,
     RollbackKeeps DEF Merge, Split, Restructure
<1>5. CASE UNCHANGED vars
  <2>1. UNCHANGED <<corr, node, edge, ev, att, tx, stored, moved, raced>>
    BY <1>5 DEF vars
  <2>2. TablesOK' /\ Kept /\ TxInv'
    BY <2>1, RowsUntouched, TxUntouched DEF IInv
  <2>3. att' = [a \in Attachers |-> att'[a]]
    BY <2>1 DEF IInv
  <2> QED
    BY <2>1, <2>2, <2>3, AnalystKeeps
<1> QED
  BY <1>1, <1>2, <1>3, <1>4, <1>5 DEF Next

(* Whatever evaluations and analysts do, rows, nodes and edges refer to what *)
(* exists, each evaluation knows the rows it wrote, and each correlation     *)
(* that an evaluation completed and nobody restructured holds its component. *)
THEOREM StoreInvariant == Spec => []IInv
<1>1. Init => IInv
  BY InitInv
<1>2. IInv /\ [Next]_vars => IInv'
  BY StepInv
<1> QED
  BY <1>1, <1>2, PTL DEF Spec

(* Rows are what the schema says, and no correlation has two nodes for one   *)
(* reference, however CreateNode and ReassignNodes interleave.               *)
THEOREM RowsAndReferencesValid == Spec => []TypeOK
<1>1. ASSUME IInv PROVE TypeOK
  <2>1. TablesOK
    BY <1>1 DEF IInv
  <2>2. ASSUME NEW i \in DOMAIN corr PROVE ValidCorrelation(corr[i])
    BY <2>1, RowFields DEF RowValues, ValidCorrelation
  <2>3. ASSUME NEW i \in DOMAIN node PROVE ValidNode(node[i])
    <3>1. DOMAIN ById = Ids
      BY CatalogFacts
    <3> QED
      BY <2>1, <3>1, TableFacts DEF ValidNode
  <2>4. \A i, j \in DOMAIN node : i # j => <<node[i].corr, node[i].ref>> # <<node[j].corr, node[j].ref>>
    BY <2>1 DEF TablesOK, NodeOK
  <2>5. \A x \in edge : ValidEdge(x)
    BY <2>1 DEF TablesOK, EdgeOK, ValidEdge
  <2>6. /\ \A e \in Evaluators : ev[e].pc \in EvPC
        /\ \A a \in Attachers : att[a].pc \in AttPC
        /\ \A a \in Analysts : tx[a].pc \in TxPC
    BY <1>1 DEF IInv, EvOK, AttOK, TxInv, TxOK
  <2> QED
    BY <2>2, <2>3, <2>4, <2>5, <2>6 DEF TypeOK
<1> QED
  BY <1>1, StoreInvariant, PTL

(* Whatever a window's observations and whatever the limits cut, what the    *)
(* union-find of ConnectedComponents returns are the connected components:   *)
(* every node reaches every other of its component and no edge leaves it.    *)
THEOREM ComponentsAreExact == Spec => []ComponentsExact
<1>1. ASSUME NEW w \in Windows PROVE Exact[w]
  <2>1. ASSUME NEW c \in Components[w]
        PROVE  /\ \A n \in c.nodes : Reachable(c, n) = c.nodes
               /\ \A i \in DOMAIN c.edges : {c.edges[i].src, c.edges[i].dst} \subseteq c.nodes
               /\ \A d \in Components[w] : c # d => c.nodes \cap d.nodes = {}
    <3>1. \A i \in DOMAIN c.edges : c.edges[i].src \in c.nodes /\ c.edges[i].dst \in c.nodes
      BY WindowParts, LenProperties DEF Component_OK
    <3> QED
      BY <3>1, WindowParts
  <2> QED
    BY <2>1 DEF Exact
<1>2. IInv => ComponentsExact
  BY <1>1 DEF IInv, EvOK, ComponentsExact
<1> QED
  BY <1>2, StoreInvariant, PTL

(* Merges and splits in any order, their statements between those of         *)
(* evaluations and of one another, leave no edge in a correlation that has   *)
(* neither of its nodes and nothing in a correlation that was merged, unless *)
(* it was written into since, a merge was emptying it meanwhile, or a merge  *)
(* that was itself overtaken filled it.                                      *)
THEOREM GraphsStayTogether == Spec => []GraphsHoldTogether
<1>1. IInv => GraphsHoldTogether
  BY DEF IInv, TablesOK
<1> QED
  BY <1>1, StoreInvariant, PTL

(* What an evaluation stored without a failure and nobody restructured is    *)
(* exactly its component, however many evaluations wrote it at the same time *)
(* or after one another: each reference once, each edge once, nothing else.  *)
THEOREM StoredExactly ==
    ASSUME WindowsAgree
    PROVE  Spec => []EvaluatedStored
<1>1. ASSUME IInv PROVE EvaluatedStored
  <2> SUFFICES ASSUME NEW s \in stored, s.id \notin moved
               PROVE  /\ {node[i].ref : i \in NodesOf(s.id)} = s.nodes
                      /\ Cardinality(NodesOf(s.id)) = Cardinality(s.nodes)
                      /\ {<<node[x.src].ref, node[x.dst].ref, x.rel, x.strategy>> : x \in {y \in edge : y.corr = s.id}}
                           = KeysOf(ComponentOf(s.window, s.nodes))
    BY DEF EvaluatedStored
  <2>1. TablesOK /\ StoredIn(s)
    BY <1>1 DEF IInv
  <2>2. /\ s.window \in Windows /\ s.nodes \in NodeSets(s.window) /\ s.id \in DOMAIN corr /\ NodesFor(s.id) = s.nodes
        /\ \A n \in s.nodes : \E i \in DOMAIN node : node[i].corr = s.id /\ node[i].ref = n
        /\ \A k \in 1..Len(EdgesFor(s.window, s.nodes)) :
             \E x \in edge : x.corr = s.id /\ Key(x) = EdgeKey(EdgesFor(s.window, s.nodes)[k])
    BY <2>1 DEF StoredIn
  <2>3. \A i \in NodesOf(s.id) : node[i].ref \in s.nodes
    BY <2>1, <2>2 DEF TablesOK, NodesUnmoved, NodesOf
  <2>4. {node[i].ref : i \in NodesOf(s.id)} = s.nodes
    BY <2>2, <2>3 DEF NodesOf
  <2>5. Cardinality(NodesOf(s.id)) = Cardinality(s.nodes)
    <3>1. s.nodes \subseteq Ids /\ IsFiniteSet(s.nodes)
      BY <2>2, SetsOfNodes, CatalogFacts, FS_Subset
    <3>2. PICK f : f = [i \in NodesOf(s.id) |-> node[i].ref]
      OBVIOUS
    <3>3. f \in [NodesOf(s.id) -> s.nodes]
      BY <2>3, <3>2
    <3>4. \A i, j \in NodesOf(s.id) : f[i] = f[j] => i = j
      BY <2>1, <3>2 DEF TablesOK, NodeOK, NodesOf
    <3>5. \A n \in s.nodes : \E i \in NodesOf(s.id) : f[i] = n
      BY <2>2, <3>2 DEF NodesOf
    <3>6. f \in Bijection(NodesOf(s.id), s.nodes)
      BY <3>3, <3>4, <3>5 DEF Bijection, Injection, Surjection, IsInjective
    <3>7. ExistsBijection(NodesOf(s.id), s.nodes)
      BY <3>6 DEF ExistsBijection
    <3>8. ExistsBijection(s.nodes, NodesOf(s.id))
      BY <3>7, Fun_ExistsBijSymmetric
    <3> QED
      BY <3>1, <3>8, FS_Bijection
  <2>6. ASSUME NEW x \in edge, x.corr = s.id PROVE Key(x) \in KeysOf(ComponentOf(s.window, s.nodes))
    <3>1. PICK w \in Windows : \E c \in Components[w] :
            c.nodes = s.nodes /\ \E k \in DOMAIN c.edges : EdgeKey(c.edges[k]) = Key(x)
      BY <2>1, <2>2, <2>6 DEF TablesOK, EdgesUnmoved
    <3>2. PICK c \in Components[w] : c.nodes = s.nodes /\ \E k \in DOMAIN c.edges : EdgeKey(c.edges[k]) = Key(x)
      BY <3>1
    <3>3. KeysOf(c) = KeysOf(ComponentOf(s.window, s.nodes))
      BY <2>2, <3>2, KnownByNodes DEF WindowsAgree, NodeSets
    <3> QED
      BY <3>2, <3>3 DEF KeysOf
  <2>7. ASSUME NEW key \in KeysOf(ComponentOf(s.window, s.nodes)) PROVE \E x \in edge : x.corr = s.id /\ Key(x) = key
    <3>1. PICK k \in DOMAIN EdgesFor(s.window, s.nodes) : key = EdgeKey(EdgesFor(s.window, s.nodes)[k])
      BY DEF KeysOf, EdgesFor
    <3>2. DOMAIN EdgesFor(s.window, s.nodes) = 1..Len(EdgesFor(s.window, s.nodes))
      BY <2>2, SetsOfNodes
    <3> QED
      BY <2>2, <3>1, <3>2
  <2>8. {Key(x) : x \in {y \in edge : y.corr = s.id}} = KeysOf(ComponentOf(s.window, s.nodes))
    BY <2>6, <2>7
  <2> QED
    BY <2>4, <2>5, <2>8 DEF Key
<1> QED
  BY <1>1, StoreInvariant, PTL

(* An evaluation that finds a correlation again leaves what analysts decided *)
(* about it as it was: ON CONFLICT updates the last event and the score.     *)
THEOREM DecisionsSurvive == Spec => DecisionsKept
<1> DEFINE Decided(c) == /\ corr'[c].status = corr[c].status /\ corr'[c].inv = corr[c].inv
                         /\ corr'[c].mergedInto = corr[c].mergedInto
<1>1. ASSUME IInv, [Next]_vars, ev' # ev, NEW c \in DOMAIN corr PROVE Decided(c)
  <2>1. PICK e \in Evaluators : Evaluate(e) \/ EvaluatorStep(e)
    BY <1>1 DEF Next, vars, ReadForAttachment, CreateInvestigation, SetInvestigation, Confirm, Dismiss, SetStatus,
                Merge, Split, Restructure, BeginMerge, ListNodes, BeginSplit, MoveNodes, MoveEdges, Commit, Rollback
  <2>2. CASE corr' = corr
    BY <2>2
  <2>3. CASE corr' # corr
    <3>1. PICK row : corr' = UpsertCorrelation(corr, row)
      <4>1. PersistComponent(e)
        BY <2>1, <2>3 DEF EvaluatorStep, Evaluate, PersistNode, PersistEdge, PersistChain, PersistStage,
                          FinishEvaluation, tables
      <4> QED
        BY <2>3, <4>1 DEF PersistComponent
    <3>2. TablesOK /\ RowShape(corr[c])
      BY <1>1, RowFields DEF IInv
    <3>3. CASE corr' = Append(corr, row)
      <4>1. corr \in Seq(ToSet(corr) \cup {row}) /\ row \in ToSet(corr) \cup {row} /\ c \in 1..Len(corr)
        BY <3>2, SeqMonotonic, TableFacts DEF TablesOK, CorrOK, IsSeq
      <4>2. corr'[c] = corr[c]
        BY <3>3, <4>1, AppendProperties
      <4> QED
        BY <4>2
    <3>4. CASE \E i : corr' = [corr EXCEPT ![i].last = Latest(corr[i].last, row.last), ![i].score = row.score]
      <4>1. PICK i : corr' = [corr EXCEPT ![i].last = Latest(corr[i].last, row.last), ![i].score = row.score]
        BY <3>4
      <4>2. CASE c = i
        <5>1. PICK last : last = Latest(corr[i].last, row.last)
          OBVIOUS
        <5>2. corr'[c] = [[corr[c] EXCEPT !.last = last] EXCEPT !.score = row.score]
          BY <4>1, <4>2, <5>1
        <5>3. corr'[c] = [fingerprint |-> corr[c].fingerprint, status |-> corr[c].status, score |-> row.score,
                          confidence |-> corr[c].confidence, severity |-> corr[c].severity, last |-> last,
                          inv |-> corr[c].inv, mergedInto |-> corr[c].mergedInto,
                          mergedFrom |-> corr[c].mergedFrom, splitFrom |-> corr[c].splitFrom]
          BY <3>2, <5>2 DEF RowShape
        <5> QED
          BY <5>3
      <4>3. CASE c # i
        BY <4>1, <4>3
      <4> QED
        BY <4>2, <4>3
    <3> QED
      BY <3>1, <3>3, <3>4 DEF UpsertCorrelation
  <2> QED
    BY <2>2, <2>3
<1>2. IInv /\ [Next]_vars =>
        [ev' # ev => \A c \in DOMAIN corr :
           /\ corr'[c].status = corr[c].status /\ corr'[c].inv = corr[c].inv
           /\ corr'[c].mergedInto = corr[c].mergedInto]_vars
  BY <1>1
<1> QED
  BY <1>2, StoreInvariant, PTL DEF Spec, DecisionsKept
=============================================================================
