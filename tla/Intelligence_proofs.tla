------------------------ MODULE Intelligence_proofs ------------------------
(* What enrichment stores and announces, for any assets, providers,         *)
(* catalogue and number of commands, whatever fails or changes meanwhile.   *)
EXTENDS Intelligence, FiniteSetTheorems, SequenceTheorems, WellFoundedInduction,
        NaturalsInduction, FunctionTheorems, TLAPS

-----------------------------------------------------------------------------
(* Lists.                                                                  *)

IsSeq(s) == s \in Seq(ToSet(s))

LEMMA SeqFacts ==
    ASSUME NEW s, IsSeq(s)
    PROVE  /\ Len(s) \in Nat /\ DOMAIN s = 1..Len(s)
           /\ \A n \in DOMAIN s : s[n] \in ToSet(s)
BY LenProperties DEF IsSeq, ToSet

LEMMA OfSeq ==
    ASSUME NEW S, NEW s \in Seq(S)
    PROVE  /\ IsSeq(s) /\ Len(s) \in Nat /\ DOMAIN s = 1..Len(s)
           /\ \A n \in DOMAIN s : s[n] \in S
<1>1. Len(s) \in Nat /\ DOMAIN s = 1..Len(s) /\ s \in [1..Len(s) -> S]
  BY LenProperties
<1>2. s = [n \in 1..Len(s) |-> s[n]]
  BY <1>1
<1>3. \A n \in 1..Len(s) : s[n] \in ToSet(s)
  BY <1>1 DEF ToSet
<1>4. [n \in 1..Len(s) |-> s[n]] \in Seq(ToSet(s))
  BY <1>1, <1>3, IsASeq
<1> QED
  BY <1>1, <1>2, <1>4 DEF IsSeq

LEMMA SeqIn ==
    ASSUME NEW S, NEW s, IsSeq(s), \A n \in DOMAIN s : s[n] \in S
    PROVE  s \in Seq(S)
BY SeqMonotonic DEF IsSeq, ToSet

(* A function on 1..N is a sequence.                                       *)
LEMMA Listed ==
    ASSUME NEW N \in Nat, NEW s, s = [n \in 1..N |-> s[n]]
    PROVE  IsSeq(s) /\ Len(s) = N
<1>1. DOMAIN s = 1..N
  OBVIOUS
<1>2. \A n \in 1..N : s[n] \in ToSet(s)
  BY <1>1 DEF ToSet
<1>3. [n \in 1..N |-> s[n]] \in Seq(ToSet(s))
  BY <1>2, IsASeq
<1> QED
  BY <1>3, <1>1, OfSeq DEF IsSeq

LEMMA Joined ==
    ASSUME NEW s, NEW t, IsSeq(s), IsSeq(t)
    PROVE  /\ IsSeq(s \o t) /\ Len(s \o t) = Len(s) + Len(t)
           /\ \A n \in 1..Len(s) : (s \o t)[n] = s[n]
           /\ \A n \in 1..Len(t) : (s \o t)[Len(s) + n] = t[n]
<1> DEFINE S == ToSet(s) \cup ToSet(t)
<1>1. s \in Seq(S) /\ t \in Seq(S) /\ Len(s) \in Nat /\ Len(t) \in Nat
  BY SeqMonotonic, SeqFacts DEF IsSeq
<1>2. /\ s \o t \in Seq(S) /\ Len(s \o t) = Len(s) + Len(t)
      /\ \A n \in 1..(Len(s) + Len(t)) : (s \o t)[n] = IF n <= Len(s) THEN s[n] ELSE t[n - Len(s)]
  BY <1>1, ConcatProperties
<1>3. IsSeq(s \o t)
  BY <1>2, OfSeq
<1> QED
  BY <1>1, <1>2, <1>3

(* f runs through the steps one by one, from b.                            *)
Steps(S, N) == [1..N -> [S -> S]]
Solves(f, S, N, b, step) ==
    /\ f \in [0..N -> S]
    /\ f[0] = b /\ \A n \in 1..N : f[n] = step[n][f[n - 1]]

(* A recursion along 1..N has a solution: otherwise take the least length  *)
(* for which there is none, and extend the solution one shorter.           *)
LEMMA Recursion ==
    ASSUME NEW S, NEW N \in Nat, NEW b \in S, NEW step \in Steps(S, N)
    PROVE  \E f : Solves(f, S, N, b, step)
<1> DEFINE Some(m) == \E f : Solves(f, S, m, b, step)
           T == {m \in 0..N : ~Some(m)}
<1>1. SUFFICES ASSUME T # {} PROVE FALSE
  <2> HIDE DEF Some
  <2>1. N \in 0..N
    OBVIOUS
  <2>2. Some(N)
    BY <2>1
  <2> QED
    BY <2>2 DEF Some
<1>2. T \subseteq 0..N /\ 0..N \subseteq Nat
  <2> HIDE DEF Some
  <2> QED
    OBVIOUS
<1>3. PICK m \in T : \A k \in T : ~ (<<k, m>> \in OpToRel(<, Nat))
  BY <1>1, <1>2, NatLessThanWellFounded, WFMin
<1>4. \A k \in T : ~ (k < m)
  BY <1>2, <1>3 DEF OpToRel
<1>5. m \in 0..N /\ ~Some(m)
  OBVIOUS
<1>6. CASE m = 0
  <2> DEFINE f == [n \in 0..0 |-> b]
  <2>1. Solves(f, S, m, b, step)
    BY <1>6 DEF Solves
  <2> QED
    BY <1>5, <2>1
<1>7. CASE m # 0
  <2>1. m - 1 \in 0..N /\ m - 1 < m
    BY <1>5, <1>7
  <2>2. m - 1 \notin T
    BY <1>4, <2>1
  <2>3. PICK f : Solves(f, S, m - 1, b, step)
    BY <2>1, <2>2
  <2> DEFINE g == [n \in 0..m |-> IF n = m THEN step[m][f[m - 1]] ELSE f[n]]
  <2>4. m \in 1..N /\ m - 1 \in 0..(m - 1)
    BY <1>5, <1>7
  <2>5. step[m][f[m - 1]] \in S
    BY <2>3, <2>4 DEF Solves, Steps
  <2>6. \A n \in 0..m : n # m => n \in 0..(m - 1)
    BY <2>4
  <2>7. g \in [0..m -> S]
    BY <2>3, <2>5, <2>6 DEF Solves
  <2>8. g[0] = b
    BY <1>7, <2>3, <2>4 DEF Solves
  <2>9. \A n \in 1..m : g[n] = step[n][g[n - 1]]
    <3> SUFFICES ASSUME NEW n \in 1..m PROVE g[n] = step[n][g[n - 1]]
      OBVIOUS
    <3>1. n - 1 \in 0..m /\ n \in 0..m /\ n - 1 # m
      BY <2>4
    <3>2. g[n - 1] = f[n - 1]
      BY <3>1
    <3>3. CASE n = m
      BY <3>1, <3>2, <3>3
    <3>4. CASE n # m
      <4>1. n \in 1..(m - 1)
        BY <2>4, <3>4
      <4>2. f[n] = step[n][f[n - 1]]
        BY <2>3, <4>1 DEF Solves
      <4> QED
        BY <3>1, <3>2, <3>4, <4>2
    <3> QED
      BY <3>3, <3>4
  <2>10. Solves(g, S, m, b, step)
    BY <2>7, <2>8, <2>9 DEF Solves
  <2> QED
    BY <1>5, <2>10
<1> QED
  BY <1>6, <1>7

LEMMA Upward ==
    ASSUME NEW S, NEW N \in Nat, NEW h, h[0] \in S, \A n \in 1..N : h[n - 1] \in S => h[n] \in S
    PROVE  \A n \in 0..N : h[n] \in S
<1> DEFINE T == {n \in 0..N : h[n] \notin S}
<1>1. SUFFICES ASSUME T # {} PROVE FALSE
  OBVIOUS
<1>2. T \subseteq Nat
  OBVIOUS
<1>3. PICK n \in T : \A k \in T : ~ (<<k, n>> \in OpToRel(<, Nat))
  BY <1>1, <1>2, NatLessThanWellFounded, WFMin
<1>4. \A k \in T : ~ (k < n)
  BY <1>2, <1>3 DEF OpToRel
<1>5. n \in 1..N /\ n - 1 \in 0..N /\ n - 1 < n
  OBVIOUS
<1>6. h[n - 1] \in S
  BY <1>4, <1>5
<1> QED
  BY <1>5, <1>6

(* Picking goes one element after the other.                               *)
PickedBy(h, s, I) ==
    /\ h[0] = <<>>
    /\ \A n \in 1..Len(s) : h[n] = IF n \in I THEN Append(h[n - 1], s[n]) ELSE h[n - 1]
LEMMA PickedSteps ==
    ASSUME NEW S, NEW s \in Seq(S), NEW I
    PROVE  \E h : PickedBy(h, s, I) /\ Picked(s, I) = h[Len(s)] /\ \A n \in 0..Len(s) : h[n] \in Seq(S)
<1> DEFINE N == Len(s)
           step == [n \in 1..N |-> [u \in Seq(S) |-> IF n \in I THEN Append(u, s[n]) ELSE u]]
           Body(g) == [n \in 0..N |-> IF n = 0 THEN <<>>
                                      ELSE IF n \in I THEN Append(g[n - 1], s[n]) ELSE g[n - 1]]
<1>1. N \in Nat /\ \A n \in 1..N : s[n] \in S
  BY LenProperties, ElementOfSeq
<1>2. step \in Steps(Seq(S), N)
  BY <1>1 DEF Steps
<1>3. PICK f : Solves(f, Seq(S), N, <<>>, step)
  <2>1. \A M \in Nat : \A b \in Seq(S) : \A st \in Steps(Seq(S), M) : \E f : Solves(f, Seq(S), M, b, st)
    BY Recursion
  <2>2. <<>> \in Seq(S)
    OBVIOUS
  <2> HIDE DEF N, step
  <2> QED
    BY <1>1, <1>2, <2>1, <2>2
<1>4. f \in [0..N -> Seq(S)] /\ f[0] = <<>>
      /\ \A n \in 1..N : f[n] = IF n \in I THEN Append(f[n - 1], s[n]) ELSE f[n - 1]
  <2>1. f \in [0..N -> Seq(S)] /\ f[0] = <<>>
    BY <1>3 DEF Solves
  <2> SUFFICES ASSUME NEW n \in 1..N PROVE f[n] = IF n \in I THEN Append(f[n - 1], s[n]) ELSE f[n - 1]
    BY <2>1
  <2>2. f[n - 1] \in Seq(S)
    BY <1>1, <2>1
  <2> QED
    BY <1>3, <2>2 DEF Solves
<1>5. f = Body(f)
  <2> HIDE DEF N
  <2>1. \A n \in 0..N : n # 0 => n \in 1..N
    BY <1>1
  <2>2. \A n \in 0..N : f[n] = IF n = 0 THEN <<>> ELSE IF n \in I THEN Append(f[n - 1], s[n]) ELSE f[n - 1]
    BY <1>4, <2>1
  <2>3. f = [n \in 0..N |-> f[n]]
    BY <1>4
  <2> QED
    BY <2>2, <2>3
<1>6. PICK h : h = (CHOOSE g : g = Body(g))
  OBVIOUS
<1>7. h = Body(h)
  <2> HIDE DEF Body
  <2> QED
    BY <1>5, <1>6
<1>8. Picked(s, I) = h[N]
  BY <1>6 DEF Picked
<1>11. \A n \in 0..N : h[n] = IF n = 0 THEN <<>> ELSE IF n \in I THEN Append(h[n - 1], s[n]) ELSE h[n - 1]
  <2> DEFINE b == Body(h)
  <2>1. \A n \in 0..N : b[n] = IF n = 0 THEN <<>> ELSE IF n \in I THEN Append(h[n - 1], s[n]) ELSE h[n - 1]
    <3> HIDE DEF N
    <3> QED
      OBVIOUS
  <2>2. h = b
    BY <1>7
  <2> HIDE DEF b
  <2> QED
    BY <2>1, <2>2
<1>9. h[0] \in Seq(S) /\ \A n \in 1..N : h[n - 1] \in Seq(S) => h[n] \in Seq(S)
  <2>1. h[0] = <<>>
    BY <1>1, <1>11
  <2> SUFFICES ASSUME NEW n \in 1..N, h[n - 1] \in Seq(S) PROVE h[n] \in Seq(S)
    BY <2>1
  <2>2. h[n] = IF n \in I THEN Append(h[n - 1], s[n]) ELSE h[n - 1]
    <3>1. n \in 0..N /\ n # 0
      BY <1>1
    <3> QED
      BY <1>11, <3>1
  <2> QED
    BY <1>1, <2>2
<1>10. \A n \in 0..N : h[n] \in Seq(S)
  <2> HIDE DEF N
  <2> QED
    BY <1>1, <1>9, Upward
<1>12. h[0] = <<>>
  BY <1>1, <1>11
<1>13. ASSUME NEW n \in 1..N PROVE h[n] = IF n \in I THEN Append(h[n - 1], s[n]) ELSE h[n - 1]
  <2>1. n \in 0..N /\ n # 0
    BY <1>1
  <2> QED
    BY <1>11, <2>1
<1>14. PickedBy(h, s, I)
  BY <1>12, <1>13 DEF PickedBy
<1> QED
  BY <1>8, <1>10, <1>14

LEMMA Chosen ==
    ASSUME NEW S, NEW s \in Seq(S), NEW I
    PROVE  Picked(s, I) \in Seq(S)
<1>1. Len(s) \in Nat
  BY LenProperties
<1> QED
  BY <1>1, PickedSteps

(* Joining lists goes one list after the other.                            *)
JoinedBy(h, ss) == \A n \in 1..Len(ss) : h[n] = IF n = 1 THEN ss[n] ELSE h[n - 1] \o ss[n]
LEMMA FlattenSteps ==
    ASSUME NEW S, NEW ss \in Seq(Seq(S))
    PROVE  \E h : JoinedBy(h, ss) /\ FlattenSeq(ss) = IF Len(ss) = 0 THEN ss ELSE h[Len(ss)]
<1> DEFINE N == Len(ss)
           step == [n \in 1..N |-> [u \in Seq(S) |-> IF n = 1 THEN ss[n] ELSE u \o ss[n]]]
           Body(g) == [i \in 1..N |-> IF i = 1 THEN ss[i] ELSE g[i - 1] \o ss[i]]
<1>1. N \in Nat /\ \A n \in 1..N : ss[n] \in Seq(S)
  BY LenProperties, ElementOfSeq
<1>2. step \in Steps(Seq(S), N)
  BY <1>1 DEF Steps
<1>3. PICK f : Solves(f, Seq(S), N, <<>>, step)
  <2>1. \A M \in Nat : \A b \in Seq(S) : \A st \in Steps(Seq(S), M) : \E f : Solves(f, Seq(S), M, b, st)
    BY Recursion
  <2>2. <<>> \in Seq(S)
    OBVIOUS
  <2> HIDE DEF N, step
  <2> QED
    BY <1>1, <1>2, <2>1, <2>2
<1>4. \A n \in 1..N : f[n] \in Seq(S) /\ f[n] = IF n = 1 THEN ss[n] ELSE f[n - 1] \o ss[n]
  <2>1. f \in [0..N -> Seq(S)]
    BY <1>3 DEF Solves
  <2>2. ASSUME NEW n \in 1..N PROVE f[n] = IF n = 1 THEN ss[n] ELSE f[n - 1] \o ss[n]
    <3>1. f[n - 1] \in Seq(S)
      BY <1>1, <2>1
    <3> QED
      BY <1>3, <3>1 DEF Solves
  <2>3. \A n \in 1..N : f[n] \in Seq(S)
    <3> HIDE DEF N
    <3> QED
      BY <1>1, <2>1
  <2> QED
    BY <2>2, <2>3
<1> DEFINE g0 == [n \in 1..N |-> f[n]]
<1>5. g0 = Body(g0)
  BY <1>1, <1>4
<1>6. PICK h : h = (CHOOSE g : g = Body(g))
  OBVIOUS
<1>7. h = Body(h)
  <2> HIDE DEF g0, N
  <2> QED
    BY <1>5, <1>6
<1>8. FlattenSeq(ss) = IF N = 0 THEN ss ELSE h[N]
  BY <1>6 DEF FlattenSeq
<1>11. \A n \in 1..N : h[n] = IF n = 1 THEN ss[n] ELSE h[n - 1] \o ss[n]
  <2> DEFINE b == Body(h)
  <2>1. \A n \in 1..N : b[n] = IF n = 1 THEN ss[n] ELSE h[n - 1] \o ss[n]
    <3> HIDE DEF N
    <3> QED
      OBVIOUS
  <2>2. h = b
    BY <1>7
  <2> HIDE DEF b
  <2> QED
    BY <2>1, <2>2
<1> QED
  BY <1>8, <1>11 DEF JoinedBy

LEMMA JoinedIn ==
    ASSUME NEW S, NEW ss \in Seq(Seq(S)), NEW h, JoinedBy(h, ss)
    PROVE  \A n \in 1..Len(ss) : h[n] \in Seq(S)
<1> DEFINE N == Len(ss)
<1>1. N \in Nat /\ \A n \in 1..N : ss[n] \in Seq(S)
  BY LenProperties, ElementOfSeq
<1>11. \A n \in 1..N : h[n] = IF n = 1 THEN ss[n] ELSE h[n - 1] \o ss[n]
  BY DEF JoinedBy
<1>12. \A n \in 1..N : h[n] \in Seq(S)
  <2> DEFINE k == [n \in 0..N |-> IF n = 0 THEN <<>> ELSE h[n]]
  <2>1. k[0] \in Seq(S) /\ \A n \in 1..N : k[n - 1] \in Seq(S) => k[n] \in Seq(S)
    <3>1. k[0] \in Seq(S)
      BY <1>1, EmptySeq
    <3>4. ASSUME NEW n \in 1..N, k[n - 1] \in Seq(S) PROVE k[n] \in Seq(S)
      <4>1. n \in 0..N /\ n # 0 /\ n - 1 \in 0..N
        BY <1>1
      <4>2. k[n] = h[n] /\ h[n] = IF n = 1 THEN ss[n] ELSE h[n - 1] \o ss[n]
        BY <1>11, <4>1
      <4>3. n # 1 => k[n - 1] = h[n - 1]
        BY <4>1
      <4> HIDE DEF k
      <4>4. CASE n = 1
        BY <1>1, <4>2, <4>4
      <4>5. CASE n # 1
        BY <1>1, <3>4, <4>2, <4>3, <4>5
      <4> QED
        BY <4>4, <4>5
    <3> HIDE DEF k
    <3> QED
      BY <3>1, <3>4
  <2>2. \A n \in 0..N : k[n] \in Seq(S)
    <3> HIDE DEF N, k
    <3> QED
      BY <1>1, <2>1, Upward
  <2>3. \A n \in 1..N : n \in 0..N /\ n # 0
    BY <1>1
  <2> QED
    BY <2>2, <2>3
<1> QED
  BY <1>12

(* What a list of lists holds, its lists hold.                             *)
LEMMA Flattened ==
    ASSUME NEW S, NEW ss \in Seq(Seq(S))
    PROVE  FlattenSeq(ss) \in Seq(S)
<1>1. PICK h : JoinedBy(h, ss) /\ FlattenSeq(ss) = IF Len(ss) = 0 THEN ss ELSE h[Len(ss)]
  BY FlattenSteps
<1>2. Len(ss) \in Nat
  BY LenProperties
<1>3. CASE Len(ss) = 0
  BY <1>1, <1>3, EmptySeq
<1>4. CASE Len(ss) # 0
  BY <1>1, <1>2, <1>4, JoinedIn
<1> QED
  BY <1>3, <1>4

(* Everything in s is in S, place by place.                                *)
LEMMA PickedOf ==
    ASSUME NEW s, IsSeq(s), NEW I
    PROVE  /\ IsSeq(Picked(s, I))
           /\ \A n \in DOMAIN Picked(s, I) : \E k \in DOMAIN s : Picked(s, I)[n] = s[k]
<1>1. Picked(s, I) \in Seq(ToSet(s))
  BY Chosen DEF IsSeq
<1> QED
  BY <1>1, OfSeq DEF ToSet

LEMMA FlattenedOf ==
    ASSUME NEW ss, IsSeq(ss), \A n \in DOMAIN ss : IsSeq(ss[n])
    PROVE  /\ IsSeq(FlattenSeq(ss))
           /\ \A k \in DOMAIN FlattenSeq(ss) : \E n \in DOMAIN ss : \E m \in DOMAIN ss[n] : FlattenSeq(ss)[k] = ss[n][m]
<1> DEFINE S == UNION {ToSet(ss[n]) : n \in DOMAIN ss}
<1>1. \A n \in DOMAIN ss : ss[n] \in Seq(S)
  <2> SUFFICES ASSUME NEW n \in DOMAIN ss PROVE ss[n] \in Seq(S)
    OBVIOUS
  <2>1. ToSet(ss[n]) \subseteq S
    OBVIOUS
  <2> QED
    BY <2>1, SeqMonotonic DEF IsSeq
<1> HIDE DEF S
<1>2. ss \in Seq(Seq(S))
  BY <1>1, SeqIn
<1>3. FlattenSeq(ss) \in Seq(S)
  BY <1>2, Flattened
<1> QED
  BY <1>3, OfSeq DEF S, ToSet

LEMMA TailOf ==
    ASSUME NEW s, IsSeq(s), s # <<>>
    PROVE  /\ IsSeq(Tail(s)) /\ Len(s) \in Nat \ {0} /\ Len(Tail(s)) = Len(s) - 1 /\ 1 \in DOMAIN s
           /\ Head(s) = s[1]
           /\ \A n \in 1..(Len(s) - 1) : Tail(s)[n] = s[n + 1]
<1>1. s \in Seq(ToSet(s)) /\ Len(s) \in Nat /\ DOMAIN s = 1..Len(s)
  BY SeqFacts DEF IsSeq
<1>2. Len(s) # 0
  BY <1>1, EmptySeq
<1>3. Tail(s) \in Seq(ToSet(s)) /\ Len(Tail(s)) = Len(s) - 1 /\ \A n \in 1..(Len(s) - 1) : Tail(s)[n] = s[n + 1]
  BY <1>1, <1>2, HeadTailProperties
<1>4. Head(s) = s[1]
  BY <1>1, <1>2, HeadTailProperties
<1>5. IsSeq(Tail(s))
  BY <1>3, OfSeq
<1>6. Len(s) \in Nat \ {0} /\ 1 \in DOMAIN s
  BY <1>1, <1>2
<1> QED
  BY <1>3, <1>4, <1>5, <1>6

LEMMA OneOf ==
    ASSUME NEW x
    PROVE  IsSeq(<<x>>) /\ Len(<<x>>) = 1 /\ <<x>>[1] = x /\ DOMAIN <<x>> = {1}
<1>1. <<x>> \in Seq({x})
  OBVIOUS
<1>2. Len(<<x>>) = 1 /\ <<x>>[1] = x
  OBVIOUS
<1>3. IsSeq(<<x>>) /\ DOMAIN <<x>> = 1..Len(<<x>>)
  BY <1>1, OfSeq
<1> QED
  BY <1>2, <1>3

LEMMA EmptyList == IsSeq(<<>>) /\ Len(<<>>) = 0 /\ DOMAIN <<>> = {} /\ \A s : IsSeq(s) /\ Len(s) = 0 => s = <<>>
<1>1. <<>> \in Seq({})
  OBVIOUS
<1>2. \A s : IsSeq(s) /\ Len(s) = 0 => s = <<>>
  BY EmptySeq DEF IsSeq
<1> QED
  BY <1>1, <1>2, OfSeq, EmptySeq

(* The least of some naturals.                                             *)
LEMMA Least ==
    ASSUME NEW S \in SUBSET Nat, S # {}
    PROVE  Min(S) \in S /\ \A n \in S : Min(S) <= n
<1>1. PICK m \in S : \A k \in S : ~ (<<k, m>> \in OpToRel(<, Nat))
  BY NatLessThanWellFounded, WFMin
<1>2. \A k \in S : ~ (k < m)
  BY <1>1 DEF OpToRel
<1>3. m \in S /\ \A k \in S : m =< k
  BY <1>2
<1> QED
  BY <1>3 DEF Min

-----------------------------------------------------------------------------
(* Commands as lists of statements: what each statement carries, and which *)
(* may follow which.                                                       *)

Kinds == {"show", "known", "provider", "ask", "cache", "save", "dataset", "catalog", "match", "announce",
          "input", "previous", "create", "rise", "investigation", "invalidate"}
Sev == {"none", "informational", "low", "medium", "high", "critical"}
FactorNames == {"finding_severity", "finding_confidence", "internet_exposure", "open_services",
                "sensitive_endpoints", "exposed_api", "vulnerability_match", "threat_intelligence",
                "asset_criticality", "recent_change", "detection_match", "correlation"}
ScoreSet == [score : 0..100, severity : {"low", "medium", "high", "critical"},
             confidence : {"low", "medium", "high"}, factors : SUBSET FactorNames]

GoodRecord(r) ==
    /\ r.provider \in ToSet(ProviderOrder) /\ r.ind # None
    /\ r.verdict \in Verdicts /\ r.confidence \in 0..3
    /\ r.last \in Int /\ r.at \in Nat
GoodList(rs) == IsSeq(rs) /\ \A n \in DOMAIN rs : GoodRecord(rs[n])
GoodTechs(ts) == IsSeq(ts) /\ \A n \in DOMAIN ts : ts[n].sure \in 0..3
EntityOK(e) == e[1] \in {"asset", "finding"} /\ (e[1] = "finding" => e[2] \in DOMAIN FindingAsset)

StepOK(s) ==
    /\ s.do \in Kinds
    /\ s.do = "known" => s.ind \in DOMAIN Canonical
    /\ s.do \in {"provider", "ask"} =>
         s = [do |-> s.do, prov |-> s.prov, ind |-> s.ind] /\ s.prov \in ToSet(ProviderOrder) /\ s.ind # None
    /\ s.do = "cache" => GoodList(s.recs)
    /\ s.do = "save" => s = [do |-> "save", n |-> s.n, target |-> s.target, ind |-> s.ind] /\ s.n \in Nat \ {0}
    /\ s.do = "dataset" => s.asset \in Assets
    /\ s.do \in {"match", "announce"} =>
         s = [do |-> s.do, key |-> s.key, status |-> s.status] /\ s.status \in MatchStatuses
    /\ s.do = "announce" => s.status \in Announced
    /\ s.do = "input" => EntityOK(s.entity)
    /\ s.do \in {"previous", "create", "rise"} => s = [do |-> s.do, entity |-> s.entity] /\ EntityOK(s.entity)

\* A score is calculated, compared and stored by three statements one after the other; what is
\* announced was stored just before; an investigation is scored at the end.
Inner == {"previous", "create", "announce", "rise"}
Follows(s, t) ==
    /\ s.do # "investigation" /\ t.do \notin {"announce", "rise"}
    /\ t.do = "previous" => s.do = "input"
    /\ t.do = "create" => s.do = "previous" /\ s.entity = t.entity
TodoOK(t) ==
    /\ IsSeq(t) /\ \A n \in DOMAIN t : StepOK(t[n])
    /\ \A n \in 1..(Len(t) - 1) : Follows(t[n], t[n + 1])
Opens(t) == t # <<>> => t[1].do \notin Inner
Ends(t) == t # <<>> => t[Len(t)].do \notin {"input", "previous", "investigation"}
Plain(s) == StepOK(s) /\ s.do \notin Inner \cup {"input", "investigation"}
PlainList(t) == IsSeq(t) /\ \A n \in DOMAIN t : Plain(t[n])

LEMMA NonEmpty == ASSUME NEW t, IsSeq(t), t # <<>> PROVE Len(t) \in Nat \ {0} /\ DOMAIN t = 1..Len(t) /\ 1 \in DOMAIN t
<1>1. Len(t) \in Nat /\ DOMAIN t = 1..Len(t) /\ Len(t) # 0
  BY SeqFacts, EmptyList
<1> QED
  BY <1>1

LEMMA PlainTodo == ASSUME NEW t, PlainList(t) PROVE TodoOK(t) /\ Opens(t) /\ Ends(t)
<1>1. IsSeq(t) /\ Len(t) \in Nat /\ DOMAIN t = 1..Len(t)
  BY SeqFacts DEF PlainList
<1>2. \A n \in 1..(Len(t) - 1) : n \in 1..Len(t) /\ n + 1 \in 1..Len(t)
  BY <1>1
<1>3. \A n \in 1..(Len(t) - 1) : Follows(t[n], t[n + 1])
  BY <1>1, <1>2 DEF PlainList, Plain, Follows, Inner
<1>4. t # <<>> => 1 \in DOMAIN t /\ Len(t) \in DOMAIN t
  BY <1>1, NonEmpty
<1> QED
  BY <1>1, <1>3, <1>4 DEF PlainList, Plain, TodoOK, Opens, Ends, Inner

LEMMA JoinedTodo ==
    ASSUME NEW a, NEW b, TodoOK(a), TodoOK(b), Ends(a), Opens(b)
    PROVE  /\ TodoOK(a \o b)
           /\ Opens(a) => Opens(a \o b)
           /\ Ends(b) => Ends(a \o b)
           /\ a # <<>> => a \o b # <<>> /\ (a \o b)[1] = a[1]
<1>1. IsSeq(a) /\ IsSeq(b)
  BY DEF TodoOK
<1>2. PICK t : t = a \o b
  OBVIOUS
<1>3. PICK K \in Nat, L \in Nat : K = Len(a) /\ L = Len(b) /\ DOMAIN a = 1..K /\ DOMAIN b = 1..L
  BY <1>1, SeqFacts
<1>4. /\ IsSeq(t) /\ Len(t) = K + L /\ DOMAIN t = 1..(K + L)
      /\ \A n \in 1..K : t[n] = a[n]
      /\ \A n \in 1..L : t[K + n] = b[n]
  BY <1>1, <1>2, <1>3, Joined, SeqFacts
<1>5. (K = 0 <=> a = <<>>) /\ (L = 0 <=> b = <<>>)
  BY <1>1, <1>3, EmptyList
<1>6. \A n \in 1..(K + L) : n \in 1..K \/ (n - K \in 1..L /\ n = K + (n - K))
  BY <1>3
<1>7. ASSUME NEW n \in 1..(K + L) PROVE StepOK(t[n])
  <2>1. CASE n \in 1..K
    BY <1>3, <1>4, <2>1 DEF TodoOK
  <2>2. CASE n - K \in 1..L /\ n = K + (n - K)
    <3>1. t[n] = b[n - K]
      BY <1>4, <2>2
    <3> QED
      BY <1>3, <2>2, <3>1 DEF TodoOK
  <2> QED
    BY <1>6, <2>1, <2>2
<1>8. ASSUME NEW n \in 1..(K + L - 1) PROVE Follows(t[n], t[n + 1])
  <2>1. CASE n < K
    <3>1. n \in 1..K /\ n + 1 \in 1..K /\ n \in 1..(K - 1)
      BY <1>3, <2>1
    <3> QED
      BY <1>3, <1>4, <3>1 DEF TodoOK
  <2>2. CASE n = K
    <3>1. n \in 1..K /\ 1 \in 1..L /\ n + 1 = K + 1 /\ K # 0 /\ L # 0
      BY <1>3, <2>2
    <3>2. t[n] = a[K] /\ t[n + 1] = b[1]
      BY <1>4, <2>2, <3>1
    <3>3. a[K].do \notin {"input", "previous", "investigation"} /\ b[1].do \notin Inner
      BY <1>3, <1>5, <3>1 DEF Ends, Opens
    <3> QED
      BY <3>2, <3>3 DEF Follows, Inner
  <2>3. CASE n > K
    <3>1. n - K \in 1..(L - 1) /\ n - K \in 1..L /\ (n - K) + 1 \in 1..L /\ n = K + (n - K) /\ n + 1 = K + ((n - K) + 1)
      BY <1>3, <2>3
    <3>2. t[n] = b[n - K] /\ t[n + 1] = b[(n - K) + 1]
      BY <1>4, <3>1
    <3>3. Follows(b[n - K], b[(n - K) + 1])
      BY <1>3, <3>1 DEF TodoOK
    <3> QED
      BY <3>2, <3>3
  <2> QED
    BY <1>3, <2>1, <2>2, <2>3
<1>9. TodoOK(t)
  BY <1>4, <1>7, <1>8 DEF TodoOK
<1>10. a # <<>> => t # <<>> /\ t[1] = a[1]
  <2>1. a # <<>> => K # 0 /\ 1 \in 1..K
    BY <1>3, <1>5
  <2>2. t = <<>> => K + L = 0
    BY <1>4, EmptyList
  <2> QED
    BY <1>3, <1>4, <2>1, <2>2
<1>11. Opens(a) => Opens(t)
  <2>1. CASE a # <<>>
    BY <1>10, <2>1 DEF Opens
  <2>2. CASE a = <<>>
    <3>1. K = 0 /\ (t # <<>> => L # 0)
      BY <1>3, <1>4, <1>5, <2>2, EmptyList
    <3>2. L # 0 => 1 \in 1..L /\ t[1] = b[1] /\ b # <<>>
      <4>1. L # 0 => 1 \in 1..L /\ K + 1 = 1
        BY <1>3, <3>1
      <4> QED
        BY <1>4, <1>5, <4>1
    <3> QED
      BY <3>1, <3>2 DEF Opens
  <2> QED
    BY <2>1, <2>2
<1>12. Ends(b) => Ends(t)
  <2>1. CASE L # 0
    <3>1. L \in 1..L /\ b # <<>>
      BY <1>3, <1>5, <2>1
    <3>2. t[Len(t)] = b[L]
      BY <1>4, <3>1
    <3> QED
      BY <1>3, <3>1, <3>2 DEF Ends
  <2>2. CASE L = 0
    <3>1. t # <<>> => K # 0
      BY <1>3, <1>4, <2>2, EmptyList
    <3>2. K # 0 => K \in 1..K /\ t[Len(t)] = a[K] /\ a # <<>>
      <4>1. K # 0 => K \in 1..K /\ Len(t) = K
        BY <1>3, <1>4, <2>2
      <4> QED
        BY <1>4, <1>5, <4>1
    <3> QED
      BY <1>3, <3>1, <3>2 DEF Ends
  <2> QED
    BY <2>1, <2>2
<1> QED
  BY <1>2, <1>9, <1>10, <1>11, <1>12

LEMMA OneTodo ==
    ASSUME NEW x, StepOK(x)
    PROVE  /\ TodoOK(<<x>>) /\ <<x>> # <<>> /\ <<x>>[1] = x
           /\ x.do \notin {"input", "previous", "investigation"} => Ends(<<x>>)
           /\ x.do \notin Inner => Opens(<<x>>)
<1>1. IsSeq(<<x>>) /\ Len(<<x>>) = 1 /\ <<x>>[1] = x /\ DOMAIN <<x>> = {1}
  BY OneOf
<1>2. 1..(Len(<<x>>) - 1) = {}
  BY <1>1
<1>3. <<x>> # <<>>
  BY <1>1, EmptyList
<1> QED
  BY <1>1, <1>2, <1>3 DEF TodoOK, Ends, Opens

LEMMA RestTodo ==
    ASSUME NEW t, TodoOK(t), t # <<>>
    PROVE  /\ StepOK(t[1]) /\ Head(t) = t[1] /\ TodoOK(Tail(t))
           /\ t[1].do \notin {"input", "previous"} => Opens(Tail(t))
           /\ t[1].do = "investigation" => Tail(t) = <<>>
           /\ Tail(t) # <<>> => Follows(t[1], Tail(t)[1])
<1>1. PICK s : s = Tail(t)
  OBVIOUS
<1>2. /\ IsSeq(s) /\ Len(t) \in Nat \ {0} /\ Len(s) = Len(t) - 1 /\ 1 \in DOMAIN t /\ Head(t) = t[1]
      /\ \A n \in 1..(Len(t) - 1) : s[n] = t[n + 1]
  BY <1>1, TailOf DEF TodoOK
<1>3. DOMAIN t = 1..Len(t) /\ DOMAIN s = 1..(Len(t) - 1)
  BY <1>2, SeqFacts DEF TodoOK
<1>4. \A n \in 1..(Len(t) - 1) : n + 1 \in 1..Len(t)
  BY <1>2
<1>5. \A n \in DOMAIN s : StepOK(s[n])
  BY <1>2, <1>3, <1>4 DEF TodoOK
<1>6. \A n \in 1..(Len(s) - 1) : n \in 1..(Len(t) - 1) /\ n + 1 \in 1..(Len(t) - 1)
  BY <1>2
<1>7. \A n \in 1..(Len(s) - 1) : Follows(s[n], s[n + 1])
  BY <1>2, <1>6 DEF TodoOK
<1>8. s # <<>> => Follows(t[1], s[1])
  <2>1. s # <<>> => 1 \in 1..(Len(t) - 1)
    BY <1>2, <1>3, NonEmpty
  <2>2. 1 \in 1..(Len(t) - 1) => Follows(t[1], t[1 + 1]) /\ s[1] = t[1 + 1]
    BY <1>2 DEF TodoOK
  <2> QED
    BY <2>1, <2>2
<1>9. t[1].do \notin {"input", "previous"} => Opens(s)
  BY <1>8 DEF Follows, Opens, Inner
<1>10. t[1].do = "investigation" => s = <<>>
  BY <1>8 DEF Follows
<1>11. StepOK(t[1]) /\ TodoOK(s)
  BY <1>2, <1>5, <1>7 DEF TodoOK
<1> QED
  BY <1>1, <1>2, <1>8, <1>9, <1>10, <1>11

(* Skipping to a statement leaves a list that begins with it.              *)
LEMMA SkippedTodo ==
    ASSUME NEW t, TodoOK(t), NEW what
    PROVE  TodoOK(SkipTo(t, what)) /\ (SkipTo(t, what) # <<>> => SkipTo(t, what)[1].do \in what)
<1> DEFINE found == {n \in DOMAIN t : t[n].do \in what}
<1>1. IsSeq(t) /\ Len(t) \in Nat /\ DOMAIN t = 1..Len(t)
  BY SeqFacts DEF TodoOK
<1>2. CASE found = {}
  <2>1. SkipTo(t, what) = <<>>
    BY <1>2 DEF SkipTo
  <2>2. 1..(0 - 1) = {}
    OBVIOUS
  <2> QED
    BY <2>1, <2>2, EmptyList DEF TodoOK
<1>3. CASE found # {}
  <2>1. found \in SUBSET Nat
    BY <1>1
  <2>2. PICK m : m = Min(found)
    OBVIOUS
  <2>3. m \in found
    <3> HIDE DEF found
    <3> QED
      BY <1>3, <2>1, <2>2, Least
  <2>4. m \in 1..Len(t) /\ t[m].do \in what
    BY <1>1, <2>3
  <2>5. PICK s : s = SubSeq(t, m, Len(t))
    OBVIOUS
  <2>6. SkipTo(t, what) = s
    BY <1>3, <2>2, <2>5 DEF SkipTo
  <2>7. s = [n \in 1..(1 + Len(t) - m) |-> t[n + m - 1]]
    BY <1>1, <2>4, <2>5
  <2>8. IsSeq(s) /\ Len(s) = 1 + Len(t) - m /\ DOMAIN s = 1..(1 + Len(t) - m)
    <3>1. 1 + Len(t) - m \in Nat
      BY <1>1, <2>4
    <3> QED
      BY <2>7, <3>1, Listed
  <2>9. \A n \in DOMAIN s : n + m - 1 \in 1..Len(t) /\ s[n] = t[n + m - 1]
    BY <1>1, <2>4, <2>7
  <2>10. \A n \in DOMAIN s : StepOK(s[n])
    BY <1>1, <2>9 DEF TodoOK
  <2>11. ASSUME NEW n \in 1..(Len(s) - 1) PROVE Follows(s[n], s[n + 1])
    <3>1. n \in DOMAIN s /\ n + 1 \in DOMAIN s /\ n + m - 1 \in 1..(Len(t) - 1) /\ (n + 1) + m - 1 = (n + m - 1) + 1
      BY <1>1, <2>4, <2>8
    <3>2. s[n] = t[n + m - 1] /\ s[n + 1] = t[(n + m - 1) + 1]
      BY <2>9, <3>1
    <3> QED
      BY <3>1, <3>2 DEF TodoOK
  <2>12. s[1] = t[m]
    <3>1. 1 \in DOMAIN s /\ 1 + m - 1 = m
      BY <1>1, <2>4, <2>8
    <3> QED
      BY <2>9, <3>1
  <2> QED
    BY <2>4, <2>6, <2>8, <2>10, <2>11, <2>12 DEF TodoOK
<1> QED
  BY <1>2, <1>3

(* Lists of plain statements, and how they are made.                       *)
LEMMA JoinedPlain ==
    ASSUME NEW a, NEW b, PlainList(a), PlainList(b)
    PROVE  PlainList(a \o b)
<1>1. PICK t : t = a \o b
  OBVIOUS
<1>2. PICK K \in Nat, L \in Nat : K = Len(a) /\ L = Len(b) /\ DOMAIN a = 1..K /\ DOMAIN b = 1..L
  BY SeqFacts DEF PlainList
<1>3. /\ IsSeq(t) /\ Len(t) = K + L /\ DOMAIN t = 1..(K + L)
      /\ \A n \in 1..K : t[n] = a[n]
      /\ \A n \in 1..L : t[K + n] = b[n]
  BY <1>1, <1>2, Joined, SeqFacts DEF PlainList
<1>4. ASSUME NEW n \in 1..(K + L) PROVE Plain(t[n])
  <2>1. CASE n \in 1..K
    BY <1>2, <1>3, <2>1 DEF PlainList
  <2>2. CASE n - K \in 1..L /\ n = K + (n - K)
    <3>1. t[n] = b[n - K]
      BY <1>3, <2>2
    <3> QED
      BY <1>2, <2>2, <3>1 DEF PlainList
  <2> QED
    BY <1>2, <2>1, <2>2
<1> QED
  BY <1>1, <1>3, <1>4 DEF PlainList

LEMMA OnePlain == ASSUME NEW x, Plain(x) PROVE PlainList(<<x>>)
<1>1. IsSeq(<<x>>) /\ <<x>>[1] = x /\ DOMAIN <<x>> = {1}
  BY OneOf
<1> QED
  BY <1>1 DEF PlainList

(* One statement for each element of a list.                               *)
LEMMA EachPlain ==
    ASSUME NEW s, IsSeq(s), NEW t, t = [n \in DOMAIN s |-> t[n]], \A n \in DOMAIN s : Plain(t[n])
    PROVE  PlainList(t)
<1>1. PICK N \in Nat : DOMAIN s = 1..N
  BY SeqFacts
<1>2. t = [n \in 1..N |-> t[n]] /\ DOMAIN t = 1..N
  BY <1>1
<1>3. IsSeq(t)
  BY <1>2, Listed
<1> QED
  BY <1>1, <1>2, <1>3 DEF PlainList

LEMMA FlatPlain ==
    ASSUME NEW s, IsSeq(s), NEW ss, ss = [n \in DOMAIN s |-> ss[n]], \A n \in DOMAIN s : PlainList(ss[n])
    PROVE  PlainList(FlattenSeq(ss))
<1>1. PICK N \in Nat : DOMAIN s = 1..N
  BY SeqFacts
<1>2. ss = [n \in 1..N |-> ss[n]] /\ DOMAIN ss = 1..N
  BY <1>1
<1>3. IsSeq(ss)
  BY <1>2, Listed
<1>4. \A n \in DOMAIN ss : IsSeq(ss[n])
  BY <1>1, <1>2 DEF PlainList
<1>5. PICK t : t = FlattenSeq(ss)
  OBVIOUS
<1>6. IsSeq(t) /\ \A k \in DOMAIN t : \E n \in DOMAIN ss : \E m \in DOMAIN ss[n] : t[k] = ss[n][m]
  BY <1>3, <1>4, <1>5, FlattenedOf
<1>7. \A k \in DOMAIN t : Plain(t[k])
  BY <1>1, <1>2, <1>6 DEF PlainList
<1> QED
  BY <1>5, <1>6, <1>7 DEF PlainList

LEMMA Providers == IsSeq(ProviderOrder) /\ DOMAIN ProviderOrder = 1..5 /\ ProviderOrder[3] = "local"
                   /\ ToSet(ProviderOrder) = {"certificate", "dns", "local", "technology", "threat_feed"}
<1>1. ProviderOrder \in Seq({"certificate", "dns", "local", "technology", "threat_feed"})
  BY DEF ProviderOrder
<1>2. IsSeq(ProviderOrder)
  BY <1>1, OfSeq
<1>3. DOMAIN ProviderOrder = 1..5
  BY DEF ProviderOrder
<1>4. /\ ProviderOrder[1] = "certificate" /\ ProviderOrder[2] = "dns" /\ ProviderOrder[3] = "local"
      /\ ProviderOrder[4] = "technology" /\ ProviderOrder[5] = "threat_feed"
  BY DEF ProviderOrder
<1>5. \A n \in 1..5 : n = 1 \/ n = 2 \/ n = 3 \/ n = 4 \/ n = 5
  OBVIOUS
<1>6. ToSet(ProviderOrder) = {ProviderOrder[1], ProviderOrder[2], ProviderOrder[3], ProviderOrder[4], ProviderOrder[5]}
  <2>1. \A x : x \in ToSet(ProviderOrder) <=> \E n \in 1..5 : x = ProviderOrder[n]
    BY <1>3 DEF ToSet
  <2> QED
    BY <1>5, <2>1
<1> QED
  BY <1>2, <1>3, <1>4, <1>6

LEMMA SomeProviders ==
    ASSUME NEW I, NEW t, t = Picked(ProviderOrder, I)
    PROVE  IsSeq(t) /\ \A n \in DOMAIN t : t[n] \in ToSet(ProviderOrder)
<1>1. IsSeq(t) /\ \A n \in DOMAIN t : \E k \in DOMAIN ProviderOrder : t[n] = ProviderOrder[k]
  BY Providers, PickedOf
<1>2. \A k \in DOMAIN ProviderOrder : ProviderOrder[k] \in ToSet(ProviderOrder)
  BY DEF ToSet
<1> QED
  BY <1>1, <1>2

LEMMA Kind ==
    ASSUME NEW k \in Kinds, NEW s, s.do = k, k \in {"show", "catalog", "invalidate", "investigation"}
    PROVE  StepOK(s)
BY DEF StepOK

LEMMA LookupPlain ==
    ASSUME NEW target, NEW i \in DOMAIN Canonical
    PROVE  PlainList(LookupSteps(target, i)) /\ PlainList(<<Head(LookupSteps(target, i))>>)
<1> DEFINE key == Canonical[i]
           x == [do |-> "show", target |-> target, ind |-> key]
           asks == [n \in DOMAIN Plan |-> [do |-> "provider", prov |-> Plan[n], ind |-> key]]
           z == [do |-> "save", n |-> 1, target |-> target, ind |-> key]
<1>1. key # None
  BY IdentityAssumption
<1>2. Plain(x)
  BY DEF Plain, StepOK, Kinds, Inner
<1>3. Plain(z)
  BY DEF Plain, StepOK, Kinds, Inner
<1>4. IsSeq(Plan) /\ \A n \in DOMAIN Plan : Plan[n] \in ToSet(ProviderOrder)
  BY SomeProviders DEF Plan
<1>5. PlainList(asks)
  <2>1. \A n \in DOMAIN Plan : Plain(asks[n])
    BY <1>1, <1>4 DEF Plain, StepOK, Kinds, Inner
  <2> HIDE DEF key
  <2>2. asks = [n \in DOMAIN Plan |-> asks[n]]
    OBVIOUS
  <2> HIDE DEF asks
  <2> QED
    BY <1>4, <2>1, <2>2, EachPlain
<1>6. LookupSteps(target, i) = (<<x>> \o asks) \o <<z>>
  BY DEF LookupSteps
<1>7. PlainList(<<x>>) /\ PlainList(<<z>>)
  BY <1>2, <1>3, OnePlain
<1> HIDE DEF asks, x, z
<1>8. PlainList(<<x>> \o asks)
  BY <1>5, <1>7, JoinedPlain
<1>9. PlainList((<<x>> \o asks) \o <<z>>)
  BY <1>7, <1>8, JoinedPlain
<1>10. PICK t : t = LookupSteps(target, i)
  OBVIOUS
<1>11. PlainList(t) /\ t # <<>>
  <2>1. Len(<<x>> \o asks) = 1 + Len(asks) /\ IsSeq(<<x>> \o asks) /\ Len(asks) \in Nat /\ IsSeq(<<z>>) /\ Len(<<z>>) = 1
    BY <1>5, <1>7, <1>8, Joined, OneOf, SeqFacts DEF PlainList
  <2>2. Len(t) = (1 + Len(asks)) + 1
    BY <1>6, <1>10, <2>1, Joined
  <2>3. t # <<>>
    BY <2>1, <2>2, EmptyList
  <2> QED
    BY <1>6, <1>9, <1>10, <2>3
<1>12. Plain(Head(t))
  BY <1>11, TailOf DEF PlainList
<1> QED
  BY <1>10, <1>11, <1>12, OnePlain

LEMMA KnownPlain ==
    ASSUME NEW target, NEW i \in DOMAIN Canonical
    PROVE  PlainList(KnownSteps(target, i))
<1>1. Plain([do |-> "known", target |-> target, ind |-> i])
  BY DEF Plain, StepOK, Kinds, Inner
<1> QED
  BY <1>1, OnePlain DEF KnownSteps

LEMMA RefreshPlain ==
    ASSUME NEW target, NEW i \in DOMAIN Canonical
    PROVE  PlainList(RefreshSteps(target, i))
<1> DEFINE active == Picked(ProviderOrder, {n \in DOMAIN ProviderOrder : ProviderOrder[n] \notin ProvidersOff})
           key == Canonical[i]
           drops == [n \in DOMAIN active |-> [do |-> "invalidate", prov |-> active[n], ind |-> key]]
<1>1. key \in DOMAIN Canonical
  BY IdentityAssumption
<1>2. IsSeq(active)
  BY SomeProviders
<1>3. RefreshSteps(target, i) = drops \o KnownSteps(target, key)
  BY DEF RefreshSteps
<1> HIDE DEF active, key
<1>4. PlainList(drops)
  <2>1. \A n \in DOMAIN active : Plain(drops[n])
    BY DEF Plain, StepOK, Kinds, Inner
  <2>2. drops = [n \in DOMAIN active |-> drops[n]]
    OBVIOUS
  <2> HIDE DEF drops
  <2> QED
    BY <1>2, <2>1, <2>2, EachPlain
<1> HIDE DEF drops
<1> QED
  BY <1>1, <1>3, <1>4, KnownPlain, JoinedPlain

LEMMA EnrichPlain == ASSUME NEW a \in Assets PROVE PlainList(EnrichSteps(a))
<1>1. Plain([do |-> "dataset", asset |-> a])
  BY DEF Plain, StepOK, Kinds, Inner
<1> QED
  BY <1>1, OnePlain DEF EnrichSteps

LEMMA ScoreTodo ==
    ASSUME NEW a, NEW e, EntityOK(e)
    PROVE  TodoOK(ScoreSteps(a, e)) /\ Opens(ScoreSteps(a, e)) /\ Ends(ScoreSteps(a, e))
<1> DEFINE x == [do |-> "input", asset |-> a, entity |-> e]
           y == [do |-> "previous", entity |-> e]
           z == [do |-> "create", entity |-> e]
<1>1. PICK t : t = <<x, y, z>>
  OBVIOUS
<1>2. t = ScoreSteps(a, e)
  BY <1>1 DEF ScoreSteps
<1>3. Len(t) = 3 /\ t[1] = x /\ t[2] = y /\ t[3] = z
  BY <1>1
<1>4. t = [n \in 1..3 |-> t[n]]
  BY <1>1
<1>5. IsSeq(t) /\ DOMAIN t = 1..3
  <2>1. 3 \in Nat
    OBVIOUS
  <2> QED
    BY <1>4, <2>1, Listed
<1>6. StepOK(x)
  BY DEF StepOK, Kinds
<1>7. StepOK(y)
  BY DEF StepOK, Kinds
<1>8. StepOK(z)
  BY DEF StepOK, Kinds
<1>9. Follows(x, y) /\ Follows(y, z)
  BY DEF Follows
<1>10. x.do = "input" /\ z.do = "create"
  OBVIOUS
<1> HIDE DEF x, y, z
<1>11. \A n \in 1..3 : n = 1 \/ n = 2 \/ n = 3
  OBVIOUS
<1>12. \A n \in DOMAIN t : StepOK(t[n])
  BY <1>3, <1>5, <1>6, <1>7, <1>8, <1>11
<1>13. \A n \in 1..(Len(t) - 1) : Follows(t[n], t[n + 1])
  <2> SUFFICES ASSUME NEW n \in 1..(Len(t) - 1) PROVE Follows(t[n], t[n + 1])
    OBVIOUS
  <2>1. n = 1 \/ n = 2
    BY <1>3
  <2>2. CASE n = 1
    <3>1. n + 1 = 2
      BY <2>2
    <3> QED
      BY <1>3, <1>9, <2>2, <3>1
  <2>3. CASE n = 2
    <3>1. n + 1 = 3
      BY <2>3
    <3> QED
      BY <1>3, <1>9, <2>3, <3>1
  <2> QED
    BY <2>1, <2>2, <2>3
<1>14. t[1].do = "input" /\ t[Len(t)].do = "create"
  BY <1>3, <1>10
<1>15. TodoOK(t)
  BY <1>5, <1>12, <1>13 DEF TodoOK
<1> QED
  BY <1>2, <1>14, <1>15 DEF Opens, Ends, Inner

LEMMA FindingTodo ==
    ASSUME NEW f \in DOMAIN FindingAsset
    PROVE  TodoOK(FindingSteps(f)) /\ Opens(FindingSteps(f))
<1> DEFINE a == FindingAsset[f]
           e == <<"finding", f>>
<1>1. a \in Assets
  BY IdentityAssumption
<1>2. EntityOK(e)
  BY DEF EntityOK
<1>3. FindingSteps(f) = EnrichSteps(a) \o ScoreSteps(a, e)
  BY DEF FindingSteps
<1> HIDE DEF a, e
<1>4. TodoOK(EnrichSteps(a)) /\ Opens(EnrichSteps(a)) /\ Ends(EnrichSteps(a))
  BY <1>1, EnrichPlain, PlainTodo
<1>5. TodoOK(ScoreSteps(a, e)) /\ Opens(ScoreSteps(a, e))
  BY <1>2, ScoreTodo
<1> QED
  BY <1>3, <1>4, <1>5, JoinedTodo

LEMMA AssetsOfOK ==
    ASSUME NEW v \in DOMAIN EvidenceOf
    PROVE  AssetsOf(v) \subseteq Assets /\ IsFiniteSet(AssetsOf(v))
<1> DEFINE at(e) == IF e[1] = "asset" THEN e[2] ELSE FindingAsset[e[2]]
<1>1. IsFiniteSet(EvidenceOf[v]) /\ \A e \in EvidenceOf[v] : e[2] \in IF e[1] = "asset" THEN Assets ELSE DOMAIN FindingAsset
  BY IdentityAssumption
<1>2. \A e \in EvidenceOf[v] : at(e) \in Assets
  BY <1>1, IdentityAssumption
<1>3. IsFiniteSet({at(e) : e \in EvidenceOf[v]})
  <2> HIDE DEF at
  <2> DEFINE E == EvidenceOf[v]
             T == {at(e) : e \in E}
             f == [e \in E |-> at(e)]
  <2>1. f \in Surjection(E, T)
    BY DEF Surjection
  <2> QED
    BY <1>1, <2>1, FS_Surjection
<1> QED
  BY <1>2, <1>3 DEF AssetsOf

LEMMA InvestigationTodo ==
    ASSUME NEW v \in DOMAIN EvidenceOf, NEW t \in InvestigationSteps(v)
    PROVE  TodoOK(t) /\ Opens(t)
<1>1. PICK order \in SetToSeqs(AssetsOf(v)) :
         t = FlattenSeq([n \in DOMAIN order |-> EnrichSteps(order[n])]) \o <<[do |-> "investigation", inv |-> v]>>
  BY DEF InvestigationSteps
<1>2. AssetsOf(v) \subseteq Assets /\ IsFiniteSet(AssetsOf(v))
  BY AssetsOfOK
<1>3. PICK N \in Nat : N = Cardinality(AssetsOf(v))
  BY <1>2, FS_CardinalityType
<1>4. order \in [1..N -> AssetsOf(v)]
  BY <1>1, <1>3 DEF SetToSeqs
<1>5. IsSeq(order)
  BY <1>3, <1>4, Listed
<1>6. PICK ss : ss = [n \in DOMAIN order |-> EnrichSteps(order[n])]
  OBVIOUS
<1>7. ss = [n \in DOMAIN order |-> ss[n]]
  BY <1>6
<1>8. \A n \in DOMAIN order : PlainList(ss[n])
  BY <1>2, <1>4, <1>6, EnrichPlain
<1>9. PlainList(FlattenSeq(ss))
  BY <1>5, <1>7, <1>8, FlatPlain
<1>10. TodoOK(FlattenSeq(ss)) /\ Opens(FlattenSeq(ss)) /\ Ends(FlattenSeq(ss))
  BY <1>9, PlainTodo
<1>11. PICK x : x = [do |-> "investigation", inv |-> v]
  OBVIOUS
<1>12. StepOK(x) /\ x.do \notin Inner
  BY <1>11 DEF StepOK, Kinds, Inner
<1>13. TodoOK(<<x>>) /\ Opens(<<x>>)
  BY <1>12, OneTodo
<1> QED
  BY <1>1, <1>6, <1>10, <1>11, <1>13, JoinedTodo

-----------------------------------------------------------------------------
(* What is known of assets, what providers answer, and scores.             *)

GoodDs(ds) == ds.last \in Int /\ GoodTechs(ds.techs)
WorldOK ==
    /\ clock \in Nat
    /\ world = [feed |-> world.feed, last |-> world.last, techs |-> world.techs, cert |-> world.cert,
                open |-> world.open, severity |-> world.severity, matches |-> world.matches,
                correlations |-> world.correlations, criticality |-> world.criticality]
    /\ world.feed \in Verdicts \cup {None}
    /\ world.last \in [Assets -> Int]
    /\ world.techs = [a \in Assets |-> world.techs[a]] /\ \A a \in Assets : GoodTechs(world.techs[a])
    /\ world.severity \in [DOMAIN FindingAsset -> {"high", "critical"}]
    /\ world.matches \in Nat /\ world.correlations \in Nat
    /\ world.criticality \in [Assets -> Criticalities]

LEMMA AssetRow == ASSUME NEW a \in Assets PROVE AssetOf(a) \in ToSet(AssetTable) /\ AssetOf(a).id = a
<1>1. \E x \in ToSet(AssetTable) : x.id = a
  BY DEF Assets, ToSet
<1> QED
  BY <1>1 DEF AssetOf

LEMMA Indicators ==
    ASSUME NEW a \in Assets
    PROVE  IsSeq(IndicatorsOf(a)) /\ \A n \in DOMAIN IndicatorsOf(a) : IndicatorsOf(a)[n] \in DOMAIN Canonical
<1> DEFINE h == AssetOf(a).host
           u == AssetOf(a).url
           x == IF h = None THEN <<>> ELSE <<h>>
           y == IF u = None THEN <<>> ELSE <<u>>
<1>1. {h, u} \subseteq DOMAIN Canonical \cup {None}
  BY AssetRow, IdentityAssumption
<1> HIDE DEF h, u
<1>2. x \in Seq(DOMAIN Canonical) /\ y \in Seq(DOMAIN Canonical)
  <2> DEFINE D == DOMAIN Canonical
  <2>1. (h = None \/ h \in D) /\ (u = None \/ u \in D)
    BY <1>1
  <2> HIDE DEF D
  <2>2. x \in Seq(D)
    BY <2>1
  <2>3. y \in Seq(D)
    BY <2>1
  <2> QED
    BY <2>2, <2>3 DEF D
<1>3. x \o y \in Seq(DOMAIN Canonical)
  BY <1>2
<1>4. IndicatorsOf(a) = x \o y
  BY DEF IndicatorsOf, HostKey, h, u
<1> QED
  BY <1>3, <1>4, OfSeq

LEMMA NoTechs == GoodTechs(<<>>)
BY EmptyList DEF GoodTechs

LEMMA NothingKnown == GoodDs(EmptyDataset)
BY NoTechs DEF GoodDs, EmptyDataset, Never

LEMMA AssetKnown ==
    ASSUME WorldOK, NEW a \in Assets, NEW failing
    PROVE  GoodDs(LocalDataset(a, failing))
<1>1. CASE HostKey(a) = None
  BY <1>1, NothingKnown DEF LocalDataset
<1>2. CASE HostKey(a) # None
  <2>1. PICK d : d = LocalDataset(a, failing)
    OBVIOUS
  <2>2. d.last = world.last[a] /\ d.techs = IF failing THEN <<>> ELSE world.techs[a]
    BY <1>2, <2>1 DEF LocalDataset
  <2>3. world.last[a] \in Int /\ GoodTechs(world.techs[a])
    BY DEF WorldOK
  <2> QED
    BY <2>1, <2>2, <2>3, NoTechs DEF GoodDs
<1> QED
  BY <1>1, <1>2

LEMMA TargetKnown ==
    ASSUME WorldOK, NEW target, NEW i, NEW failing
    PROVE  GoodDs(DatasetFor(target, i, failing))
<1> DEFINE found == {n \in DOMAIN AssetTable : AssetTable[n].target = target /\ AssetTable[n].host = i}
<1>1. CASE found = {}
  BY <1>1, NothingKnown DEF DatasetFor
<1>2. CASE found # {}
  <2>1. IsSeq(AssetTable)
    BY IdentityAssumption DEF IsSeq
  <2>2. found \in SUBSET Nat
    BY <2>1, SeqFacts
  <2>3. Min(found) \in found
    <3> HIDE DEF found
    <3> QED
      BY <1>2, <2>2, Least
  <2>4. Min(found) \in DOMAIN AssetTable
    BY <2>3
  <2>5. AssetTable[Min(found)].id \in Assets
    BY <2>4 DEF Assets
  <2>6. DatasetFor(target, i, failing) = LocalDataset(AssetTable[Min(found)].id, failing)
    BY <1>2 DEF DatasetFor
  <2> HIDE DEF found
  <2> QED
    BY <2>5, <2>6, AssetKnown
<1> QED
  BY <1>1, <1>2

LEMMA RecordOK ==
    ASSUME clock \in Nat, NEW p \in ToSet(ProviderOrder), NEW i, i # None, NEW v \in Verdicts, NEW k \in 0..3, NEW d
    PROVE  GoodRecord(Record(p, i, v, k, d))
BY DEF GoodRecord, Record, Never

LEMMA OneRecord == ASSUME NEW r, GoodRecord(r) PROVE GoodList(<<r>>)
BY OneOf DEF GoodList

LEMMA NoRecords == GoodList(<<>>)
BY EmptyList DEF GoodList

LEMMA LocalGood ==
    ASSUME clock \in Nat, NEW p, NEW i, i # None, NEW ds, GoodDs(ds)
    PROVE  GoodList(LocalAnswer(p, i, ds))
<1>1. {"certificate", "dns", "local", "technology"} \subseteq ToSet(ProviderOrder) /\ "unknown" \in Verdicts
  BY Providers DEF Verdicts
<1>2. GoodList(CertificateAnswer(i, ds))
  <2>1. PICK r : r = Record("certificate", i, "unknown", 3, "cert")
    OBVIOUS
  <2>2. GoodRecord(r)
    BY <1>1, <2>1, RecordOK
  <2>3. r = [provider |-> r.provider, ind |-> r.ind, verdict |-> r.verdict, confidence |-> r.confidence, data |-> r.data,
             first |-> r.first, last |-> r.last, expires |-> r.expires, at |-> r.at]
    BY <2>1 DEF Record
  <2>4. GoodRecord([r EXCEPT !.expires = ds.cert])
    BY <2>2, <2>3 DEF GoodRecord
  <2>5. CertificateAnswer(i, ds) = <<>> \/ CertificateAnswer(i, ds) = <<[r EXCEPT !.expires = ds.cert]>>
    BY <2>1 DEF CertificateAnswer
  <2> QED
    BY <2>4, <2>5, OneRecord, NoRecords
<1>3. GoodList(DNSAnswer(i, ds))
  <2>1. GoodRecord(Record("dns", i, "unknown", 3, "dns"))
    BY <1>1, RecordOK
  <2>2. DNSAnswer(i, ds) = <<>> \/ DNSAnswer(i, ds) = <<Record("dns", i, "unknown", 3, "dns")>>
    BY DEF DNSAnswer
  <2> QED
    BY <2>1, <2>2, OneRecord, NoRecords
<1>4. GoodList(HistoryAnswer(i, ds))
  <2>1. PICK r : r = Record("local", i, "unknown", 3, "local")
    OBVIOUS
  <2>2. GoodRecord(r)
    BY <1>1, <2>1, RecordOK
  <2>3. r = [provider |-> r.provider, ind |-> r.ind, verdict |-> r.verdict, confidence |-> r.confidence, data |-> r.data,
             first |-> r.first, last |-> r.last, expires |-> r.expires, at |-> r.at]
    BY <2>1 DEF Record
  <2>4. GoodRecord([r EXCEPT !.first = 0, !.last = ds.last])
    BY <2>2, <2>3 DEF GoodRecord, GoodDs
  <2>5. HistoryAnswer(i, ds) = <<>> \/ HistoryAnswer(i, ds) = <<[r EXCEPT !.first = 0, !.last = ds.last]>>
    BY <2>1 DEF HistoryAnswer
  <2> QED
    BY <2>4, <2>5, OneRecord, NoRecords
<1>5. GoodList(TechnologyAnswer(i, ds))
  <2> DEFINE ts == ds.techs
             all == [n \in DOMAIN ts |-> Record("technology", i, "unknown", ts[n].sure, ts[n].product)]
  <2>1. IsSeq(ts) /\ \A n \in DOMAIN ts : ts[n].sure \in 0..3
    BY DEF GoodDs, GoodTechs
  <2>2. TechnologyAnswer(i, ds) = <<>> \/ TechnologyAnswer(i, ds) = all
    BY DEF TechnologyAnswer
  <2> HIDE DEF ts
  <2>3. \A n \in DOMAIN ts : GoodRecord(all[n])
    BY <1>1, <2>1, RecordOK
  <2>4. PICK N \in Nat : DOMAIN ts = 1..N
    BY <2>1, SeqFacts
  <2>5. all = [n \in 1..N |-> all[n]] /\ DOMAIN all = 1..N
    BY <2>4
  <2> HIDE DEF all
  <2>6. IsSeq(all)
    BY <2>5, Listed
  <2>7. GoodList(all)
    BY <2>3, <2>4, <2>5, <2>6 DEF GoodList
  <2> QED
    BY <2>2, <2>7, NoRecords
<1> QED
  BY <1>2, <1>3, <1>4, <1>5 DEF LocalAnswer

(* Fresh records, and records collected, are records.                      *)
LEMMA SomeGood ==
    ASSUME NEW rs, GoodList(rs), NEW I
    PROVE  GoodList(Picked(rs, I))
<1>1. PICK t : t = Picked(rs, I)
  OBVIOUS
<1>2. IsSeq(t) /\ \A n \in DOMAIN t : \E k \in DOMAIN rs : t[n] = rs[k]
  BY <1>1, PickedOf DEF GoodList
<1> QED
  BY <1>1, <1>2 DEF GoodList

LEMMA MoreGood ==
    ASSUME NEW rs, NEW qs, GoodList(rs), GoodList(qs)
    PROVE  GoodList(DedupRecords(rs \o qs))
<1>1. PICK t : t = rs \o qs
  OBVIOUS
<1>2. PICK K \in Nat, L \in Nat : K = Len(rs) /\ L = Len(qs) /\ DOMAIN rs = 1..K /\ DOMAIN qs = 1..L
  BY SeqFacts DEF GoodList
<1>3. /\ IsSeq(t) /\ Len(t) = K + L /\ DOMAIN t = 1..(K + L)
      /\ \A n \in 1..K : t[n] = rs[n]
      /\ \A n \in 1..L : t[K + n] = qs[n]
  BY <1>1, <1>2, Joined, SeqFacts DEF GoodList
<1>4. ASSUME NEW n \in 1..(K + L) PROVE GoodRecord(t[n])
  <2>1. CASE n \in 1..K
    BY <1>2, <1>3, <2>1 DEF GoodList
  <2>2. CASE n - K \in 1..L /\ n = K + (n - K)
    <3>1. t[n] = qs[n - K]
      BY <1>3, <2>2
    <3> QED
      BY <1>2, <2>2, <3>1 DEF GoodList
  <2> QED
    BY <1>2, <2>1, <2>2
<1>5. GoodList(t)
  BY <1>3, <1>4 DEF GoodList
<1> QED
  BY <1>1, <1>5, SomeGood DEF DedupRecords

LEMMA FreshGood == ASSUME NEW rs, GoodList(rs) PROVE GoodList(FreshRecords(rs))
BY SomeGood DEF FreshRecords

LEMMA AggregateOK == ASSUME NEW rs PROVE Aggregate(rs) \in Verdicts
<1> DEFINE Votes(v) == Cardinality({k \in DOMAIN rs : rs[k].verdict = v})
           order == <<"benign", "suspicious", "malicious">>
           best == {n \in 1..3 : Votes(order[n]) > 0 /\ \A m \in 1..3 : Votes(order[m]) <= Votes(order[n])}
<1>1. Aggregate(rs) = IF best = {} THEN "unknown" ELSE order[Min(best)]
  BY DEF Aggregate
<1>2. \A n \in 1..3 : order[n] \in Verdicts
  <2>1. order[1] = "benign" /\ order[2] = "suspicious" /\ order[3] = "malicious"
    OBVIOUS
  <2>2. \A n \in 1..3 : n = 1 \/ n = 2 \/ n = 3
    OBVIOUS
  <2> QED
    BY <2>1, <2>2 DEF Verdicts
<1>3. best \subseteq 1..3
  OBVIOUS
<1> HIDE DEF best, order
<1>4. best # {} => Min(best) \in best
  <2>1. best \in SUBSET Nat
    BY <1>3
  <2> QED
    BY <2>1, Least
<1> QED
  BY <1>1, <1>2, <1>3, <1>4 DEF Verdicts

LEMMA EvaluateOK == ASSUME NEW text, NEW cs PROVE EvaluateEntry(text, cs) \in MatchStatuses
BY DEF EvaluateEntry, MatchStatuses

LEMMA MaxOfTwo == ASSUME NEW a \in Int, NEW b \in Int PROVE Max({a, b}) \in {a, b} /\ Max({a, b}) >= a /\ Max({a, b}) >= b
<1>1. \E x \in {a, b} : \A y \in {a, b} : x >= y
  OBVIOUS
<1>2. Max({a, b}) \in {a, b} /\ \A y \in {a, b} : Max({a, b}) >= y
  BY <1>1 DEF Max
<1> QED
  BY <1>2

(* Points are integers, whatever the weights configured.                   *)
LEMMA DefaultPoints == DefaultWeights \in [DOMAIN DefaultWeights -> Int]
BY DEF DefaultWeights

LEMMA WeightPoints ==
    /\ ScorerWeights(Weights) \in [DOMAIN DefaultWeights -> Int]
    /\ DOMAIN DefaultWeights =
         {"critical", "high", "medium", "low", "informational", "sure", "facing", "service", "serviceMax",
          "sensitive", "api", "confirmed", "probable", "malicious", "suspicious", "critCritical", "critHigh",
          "critNormal", "critLow", "recent", "match", "matchEach", "matchMax", "corr", "corrEach", "corrMax"}
<1>1. Weights \in [DOMAIN DefaultWeights -> Int]
  BY ContentAssumption
<1>2. ScorerWeights(Weights) \in [DOMAIN DefaultWeights -> Int]
  BY <1>1, DefaultPoints DEF ScorerWeights
<1> QED
  BY <1>2 DEF DefaultWeights

LEMMA CappedInt == ASSUME NEW p \in Int, NEW m \in Int PROVE Capped(p, m) \in Int
BY DEF Capped

InputOK(input) ==
    /\ input.severity \in Sev /\ input.services \in Int
    /\ input.matches \in Int /\ input.correlations \in Int

LEMMA IntPoints ==
    ASSUME NEW input, InputOK(input), NEW w \in [DOMAIN DefaultWeights -> Int]
    PROVE  DOMAIN PointsOf(input, w) = FactorNames /\ Total(PointsOf(input, w)) \in Int
<1>1. PICK p : p = PointsOf(input, w)
  OBVIOUS
<1>2. DOMAIN p = FactorNames
  BY <1>1 DEF PointsOf, FactorNames
<1>3. /\ {"critical", "high", "medium", "low", "informational", "sure", "facing", "service", "serviceMax",
          "sensitive", "api", "confirmed", "probable", "malicious", "suspicious", "critCritical", "critHigh",
          "critNormal", "critLow", "recent", "match", "matchEach", "matchMax", "corr", "corrEach", "corrMax"}
         \subseteq DOMAIN DefaultWeights
  BY WeightPoints
<1>4. \A x \in DOMAIN DefaultWeights : w[x] \in Int
  OBVIOUS
<1>5. p.finding_severity \in Int
  <2>1. p.finding_severity = IF input.severity = "none" THEN 0 ELSE w[input.severity]
    BY <1>1 DEF PointsOf
  <2> QED
    BY <1>3, <1>4, <2>1 DEF InputOK, Sev
<1>6. p.finding_confidence \in Int /\ p.internet_exposure \in Int /\ p.sensitive_endpoints \in Int /\ p.exposed_api \in Int
      /\ p.recent_change \in Int
  <2>1. /\ p.finding_confidence = IF input.sure THEN w.sure ELSE 0
        /\ p.internet_exposure = IF input.facing THEN w.facing ELSE 0
        /\ p.sensitive_endpoints = IF input.sensitive > 0 THEN w.sensitive ELSE 0
        /\ p.exposed_api = IF input.api THEN w.api ELSE 0
        /\ p.recent_change = IF input.recent THEN w.recent ELSE 0
    BY <1>1 DEF PointsOf
  <2> QED
    BY <1>3, <1>4, <2>1
<1>7. p.vulnerability_match \in Int /\ p.threat_intelligence \in Int /\ p.asset_criticality \in Int
  <2>1. /\ p.vulnerability_match \in {w.confirmed, w.probable, 0}
        /\ p.threat_intelligence \in {w.malicious, w.suspicious, 0}
        /\ p.asset_criticality \in {w.critCritical, w.critHigh, w.critLow, w.critNormal}
    BY <1>1 DEF PointsOf
  <2> QED
    BY <1>3, <1>4, <2>1
<1>8. p.open_services \in Int
  <2>1. p.open_services = Capped(input.services * w.service, w.serviceMax)
    BY <1>1 DEF PointsOf
  <2>2. w.service \in Int /\ w.serviceMax \in Int /\ input.services \in Int
    BY <1>3, <1>4 DEF InputOK
  <2>3. input.services * w.service \in Int
    BY <2>2
  <2> QED
    BY <2>1, <2>2, <2>3, CappedInt
<1>9. ASSUME NEW n \in Int, NEW a \in Int, NEW b \in Int, NEW c \in Int PROVE RepeatedPoints(n, a, b, c) \in Int
  <2>1. (n - 1) * b \in Int
    OBVIOUS
  <2>2. Capped((n - 1) * b, c) \in Int
    BY <2>1, CappedInt
  <2> QED
    BY <2>2 DEF RepeatedPoints
<1>10. p.detection_match \in Int /\ p.correlation \in Int
  <2>1. /\ p.detection_match = IF input.matches = 0 THEN 0 ELSE RepeatedPoints(input.matches, w.match, w.matchEach, w.matchMax)
        /\ p.correlation = IF input.correlations = 0 THEN 0
                           ELSE RepeatedPoints(input.correlations, w.corr, w.corrEach, w.corrMax)
    BY <1>1 DEF PointsOf
  <2>2. /\ w.match \in Int /\ w.matchEach \in Int /\ w.matchMax \in Int /\ w.corr \in Int /\ w.corrEach \in Int
        /\ w.corrMax \in Int
    BY <1>3, <1>4
  <2>3. RepeatedPoints(input.matches, w.match, w.matchEach, w.matchMax) \in Int
    BY <1>9, <2>2 DEF InputOK
  <2>4. RepeatedPoints(input.correlations, w.corr, w.corrEach, w.corrMax) \in Int
    BY <1>9, <2>2 DEF InputOK
  <2> QED
    BY <2>1, <2>3, <2>4
<1>11. Total(p) \in Int
  BY <1>5, <1>6, <1>7, <1>8, <1>10 DEF Total
<1> QED
  BY <1>1, <1>2, <1>11

LEMMA CalculateOK == ASSUME NEW input, InputOK(input) PROVE Calculate(input, Weights) \in ScoreSet
<1>1. PICK p : p = PointsOf(input, ScorerWeights(Weights))
  OBVIOUS
<1>2. DOMAIN p = FactorNames /\ Total(p) \in Int
  BY <1>1, WeightPoints, IntPoints
<1>3. PICK s : s = Clamp(Total(p), 0, 100)
  OBVIOUS
<1>4. s \in 0..100
  <2>1. PICK v \in Int : v = Total(p)
    BY <1>2
  <2> QED
    BY <1>3, <2>1 DEF Clamp
<1>5. SeverityForScore(s) \in {"low", "medium", "high", "critical"}
  BY DEF SeverityForScore
<1>6. ConfidenceFor(input) \in {"low", "medium", "high"}
  BY DEF ConfidenceFor
<1>7. {f \in DOMAIN p : p[f] # 0} \in SUBSET FactorNames
  BY <1>2
<1>8. Calculate(input, Weights) =
        [score |-> s, severity |-> SeverityForScore(s), confidence |-> ConfidenceFor(input), factors |-> {f \in DOMAIN p : p[f] # 0}]
  BY <1>1, <1>3 DEF Calculate
<1> QED
  BY <1>4, <1>5, <1>6, <1>7, <1>8 DEF ScoreSet

LEMMA WorstSeverityOK == ASSUME NEW ss \in SUBSET {"high", "critical"} PROVE WorstSeverity(ss) \in Sev
<1>1. \E s \in ss \union {"none"} : \A x \in ss : SeverityRank[x] <= SeverityRank[s]
  <2>1. SeverityRank["high"] = 5 /\ SeverityRank["critical"] = 6 /\ SeverityRank["none"] = 1
    BY DEF SeverityRank
  <2>2. CASE "critical" \in ss
    BY <2>1, <2>2
  <2>3. CASE "critical" \notin ss
    BY <2>1, <2>3
  <2> QED
    BY <2>2, <2>3
<1>2. WorstSeverity(ss) \in ss \union {"none"}
  BY <1>1 DEF WorstSeverity
<1> QED
  BY <1>2 DEF Sev

LEMMA RiskInputOK ==
    ASSUME WorldOK, NEW a, NEW e, EntityOK(e), NEW statuses, NEW best, NEW failing
    PROVE  InputOK(RiskInput(a, e, statuses, best, failing))
<1>1. PICK x : x = RiskInput(a, e, statuses, best, failing)
  OBVIOUS
<1>2. /\ x.services = 0
      /\ x.matches = IF "matches" \in failing THEN 0 ELSE world.matches
      /\ x.correlations = IF "correlations" \in failing THEN 0 ELSE world.correlations
  BY <1>1 DEF RiskInput
<1>3. x.severity = IF e[1] = "finding" THEN world.severity[e[2]]
                   ELSE IF "findings" \in failing THEN "none"
                   ELSE WorstSeverity({world.severity[f] : f \in OpenOf(a)})
  BY <1>1 DEF RiskInput
<1>4. x.services \in Int /\ x.matches \in Int /\ x.correlations \in Int
  BY <1>2 DEF WorldOK
<1>5. e[1] = "finding" => world.severity[e[2]] \in Sev
  BY DEF WorldOK, EntityOK, Sev
<1>6. {world.severity[f] : f \in OpenOf(a)} \in SUBSET {"high", "critical"}
  BY DEF WorldOK, OpenOf
<1>7. WorstSeverity({world.severity[f] : f \in OpenOf(a)}) \in Sev
  BY <1>6, WorstSeverityOK
<1>8. "none" \in Sev
  BY DEF Sev
<1>9. x.severity \in Sev
  BY <1>3, <1>5, <1>7, <1>8
<1> QED
  BY <1>1, <1>4, <1>9 DEF InputOK

(* The statements for an asset.                                            *)
LEMMA AssetTodo ==
    ASSUME NEW a \in Assets, NEW ds, GoodDs(ds)
    PROVE  TodoOK(AssetSteps(a, ds)) /\ Opens(AssetSteps(a, ds)) /\ Ends(AssetSteps(a, ds))
<1> DEFINE is == IndicatorsOf(a)
           target == AssetOf(a).target
           ts == ds.techs
           e == <<"asset", a>>
           looks == [n \in DOMAIN is |-> LookupSteps(target, is[n])]
           cats == [n \in DOMAIN ts |-> [do |-> "catalog", asset |-> a, tech |-> ts[n]]]
<1>1. AssetSteps(a, ds) = (FlattenSeq(looks) \o cats) \o ScoreSteps(a, e)
  BY DEF AssetSteps
<1>2. IsSeq(is) /\ \A n \in DOMAIN is : is[n] \in DOMAIN Canonical
  BY Indicators
<1>3. IsSeq(ts)
  BY DEF GoodDs, GoodTechs
<1>4. EntityOK(e)
  BY DEF EntityOK
<1> HIDE DEF is, target, ts, e
<1>5. PlainList(FlattenSeq(looks))
  <2>1. \A n \in DOMAIN is : PlainList(looks[n])
    BY <1>2, LookupPlain
  <2>2. looks = [n \in DOMAIN is |-> looks[n]]
    OBVIOUS
  <2> HIDE DEF looks
  <2> QED
    BY <1>2, <2>1, <2>2, FlatPlain
<1>6. PlainList(cats)
  <2>1. \A n \in DOMAIN ts : Plain(cats[n])
    BY DEF Plain, StepOK, Kinds, Inner
  <2>2. cats = [n \in DOMAIN ts |-> cats[n]]
    OBVIOUS
  <2> HIDE DEF cats
  <2> QED
    BY <1>3, <2>1, <2>2, EachPlain
<1> HIDE DEF looks, cats
<1>7. PlainList(FlattenSeq(looks) \o cats)
  BY <1>5, <1>6, JoinedPlain
<1>8. TodoOK(FlattenSeq(looks) \o cats) /\ Opens(FlattenSeq(looks) \o cats) /\ Ends(FlattenSeq(looks) \o cats)
  BY <1>7, PlainTodo
<1>9. TodoOK(ScoreSteps(a, e)) /\ Opens(ScoreSteps(a, e)) /\ Ends(ScoreSteps(a, e))
  BY <1>4, ScoreTodo
<1> QED
  BY <1>1, <1>8, <1>9, JoinedTodo

(* Every entry for a product, in some order.                               *)
LEMMA Enumerated ==
    ASSUME NEW S, IsFiniteSet(S)
    PROVE  IsSeq(SetToSeq(S)) /\ \A n \in DOMAIN SetToSeq(S) : SetToSeq(S)[n] \in S
<1>1. PICK N \in Nat : N = Cardinality(S) /\ ExistsBijection(1..N, S)
  BY FS_CardinalityType
<1>2. PICK f : f \in Bijection(1..N, S)
  BY <1>1 DEF ExistsBijection
<1>3. f \in [1..N -> S] /\ \A i, j \in 1..N : f[i] = f[j] => i = j
  BY <1>2 DEF Bijection, Injection, IsInjective
<1>4. f \in [1..N -> S] /\ IsInjective(f)
  BY <1>3 DEF IsInjective
<1>5. PICK g : g = SetToSeq(S)
  OBVIOUS
<1>6. g \in [1..N -> S]
  <2>1. g = CHOOSE h \in [1..N -> S] : IsInjective(h)
    BY <1>1, <1>5 DEF SetToSeq
  <2> QED
    BY <1>4, <2>1
<1>7. IsSeq(g)
  BY <1>6, Listed
<1> QED
  BY <1>5, <1>6, <1>7

-----------------------------------------------------------------------------
(* The invariant.                                                          *)

StampIn(stamps, e) == 1 + (IF e \in DOMAIN stamps THEN stamps[e] ELSE 0)
OfJob(rows, job) == {q.score : q \in {q \in rows : q.entity[1] = "asset" /\ q.job = job}}

MemoryOK(m) ==
    /\ m = [todo |-> m.todo, job |-> m.job, ds |-> m.ds, before |-> m.before, got |-> m.got, best |-> m.best,
            statuses |-> m.statuses, score |-> m.score, prev |-> m.prev, at |-> m.at, taken |-> m.taken]
    /\ GoodDs(m.ds) /\ GoodList(m.got) /\ m.taken \subseteq ScoreSet

\* What a statement about to run relies on: the score is calculated, the earlier score it is compared
\* with is a stored one from before, the rise it announces is between two stored scores.
Ready(m, rows, stamps) ==
    m.todo # <<>> =>
       /\ m.todo[1].do \in {"previous", "create", "rise"} => m.score \in ScoreSet
       /\ m.todo[1].do = "create" =>
            /\ m.at \in Int /\ m.at < StampIn(stamps, m.todo[1].entity)
            /\ \/ m.prev = Never
               \/ \E q \in rows : q.entity = m.todo[1].entity /\ q.score = m.prev /\ q.at < m.at
       /\ m.todo[1].do = "rise" =>
            \E q, r \in rows : /\ q.entity = m.todo[1].entity /\ r.entity = m.todo[1].entity
                               /\ q.score = m.prev /\ r.score = m.score.score /\ q.at < r.at
                               /\ m.prev < m.score.score

\* A command has a number of its own, knows the scores it stored under it, and has stored none
\* for an investigation: that is its last statement.
Earned(m, rows, jobs) ==
    m.todo # <<>> =>
       /\ m.job \in Int /\ jobs < m.job
       /\ {x.score : x \in m.taken} = OfJob(rows, m.job)
       /\ \A r \in rows : r.entity[1] = "investigation" => r.job # m.job

CmdOK(m, rows, stamps, jobs) == MemoryOK(m) /\ TodoOK(m.todo) /\ Ready(m, rows, stamps) /\ Earned(m, rows, jobs)
RunsOK == run = [c \in Commands |-> run[c]] /\ \A c \in Commands : CmdOK(run[c], scores, left.stamps, left.jobs)
OwnJobs ==
    \A c, d \in Commands : c # d /\ run[c].todo # <<>> /\ run[d].todo # <<>> => run[c].job # run[d].job
LeftOK ==
    /\ left = [jobs |-> left.jobs, spare |-> left.spare, stamps |-> left.stamps]
    /\ left.jobs \in 0..MaxJobs /\ \A e \in DOMAIN left.stamps : left.stamps[e] \in Int
ScoresOK ==
    /\ \A r \in scores : /\ ValidScore(r) /\ r.at \in Int /\ r.at < StampIn(left.stamps, r.entity)
                         /\ r.job \in Int /\ r.job \notin 1..left.jobs
    /\ Supported(scores)
Scoring == LeftOK /\ RunsOK /\ OwnJobs /\ ScoresOK

RecordsOK ==
    /\ \A k \in DOMAIN records : ValidRecord(k) /\ records[k].last \in Int
    /\ \A x \in past.saved : x[1] \in DOMAIN records /\ x[2] \in Int /\ records[x[1]].last >= x[2]
CacheOK == \A k \in DOMAIN cache : GoodList(cache[k].records)
CatalogOK == IsFiniteSet(DOMAIN catalog) /\ \A v \in DOMAIN catalog : ValidVulnerability(v)
MatchesOK == (\A key \in DOMAIN matches : ValidMatch(matches[key])) /\ DOMAIN past.born = DOMAIN matches
PastOK == past = [born |-> past.born, lost |-> past.lost, saved |-> past.saved]
Data == WorldOK /\ RecordsOK /\ CacheOK /\ CatalogOK /\ MatchesOK /\ PastOK

\* Of a match first stored as one to announce, exactly one of three holds: it is announced, once; one
\* command is about to; the announcement failed. Of any other none does.
Told(key) == {e \in DOMAIN events.match : e.key = key}
Waiting(key) == {c \in Commands : Doing(c, "announce") /\ Next1(c).key = key}
ToldOnce(told, counts) == \E e : told = {e} /\ counts[e] = 1
TellOK(told, counts, waiting, lost, due) ==
    IF due THEN \/ ToldOnce(told, counts) /\ waiting = {} /\ ~lost
                \/ told = {} /\ (\E c : waiting = {c}) /\ ~lost
                \/ told = {} /\ waiting = {} /\ lost
    ELSE told = {} /\ waiting = {} /\ ~lost
Due(key) == key \in DOMAIN matches /\ past.born[key] \in Announced
TellsOK == \A key : TellOK(Told(key), events.match, Waiting(key), key \in past.lost, Due(key))
EventsOK ==
    /\ events = [verdict |-> events.verdict, match |-> events.match, rise |-> events.rise]
    /\ \A e \in DOMAIN events.verdict : ValidVerdictEvent(e)
    /\ RisesTraceable

IInv == Data /\ Scoring /\ EventsOK /\ TellsOK

-----------------------------------------------------------------------------
(* A command that goes on.                                                 *)

LEMMA IdleOK == ASSUME NEW rows, NEW stamps, NEW jobs PROVE CmdOK(Idle, rows, stamps, jobs) /\ Idle.todo = <<>>
<1>1. TodoOK(<<>>)
  <2>1. 1..(0 - 1) = {}
    OBVIOUS
  <2> QED
    BY <2>1, EmptyList DEF TodoOK
<1>2. MemoryOK(Idle)
  BY NothingKnown, NoRecords DEF MemoryOK, Idle
<1>3. Idle.todo = <<>>
  BY DEF Idle
<1> QED
  BY <1>1, <1>2, <1>3 DEF CmdOK, Ready, Earned

(* Rows of other commands are added, stamps only grow: nothing changes for this one. *)
LEMMA NotDisturbed ==
    ASSUME NEW m, NEW rows, NEW more, NEW stamps, NEW later, NEW jobs \in Int, NEW fewer \in Int,
           CmdOK(m, rows, stamps, jobs), fewer <= jobs,
           rows \subseteq more, m.todo # <<>> => \A r \in more \ rows : r.job # m.job,
           \A e : StampIn(stamps, e) \in Int /\ StampIn(later, e) \in Int /\ StampIn(stamps, e) <= StampIn(later, e)
    PROVE  CmdOK(m, more, later, fewer)
<1>1. MemoryOK(m) /\ TodoOK(m.todo) /\ Ready(m, rows, stamps) /\ Earned(m, rows, jobs)
  BY DEF CmdOK
<1>2. Ready(m, more, later)
  <2> SUFFICES ASSUME m.todo # <<>> PROVE Ready(m, more, later)
    BY DEF Ready
  <2>1. m.todo[1].do \in {"previous", "create", "rise"} => m.score \in ScoreSet
    BY <1>1 DEF Ready
  <2>2. ASSUME m.todo[1].do = "create"
        PROVE  /\ m.at \in Int /\ m.at < StampIn(later, m.todo[1].entity)
               /\ \/ m.prev = Never
                  \/ \E q \in more : q.entity = m.todo[1].entity /\ q.score = m.prev /\ q.at < m.at
    <3> DEFINE e == m.todo[1].entity
    <3>1. m.at \in Int /\ m.at < StampIn(stamps, e)
      BY <1>1, <2>2 DEF Ready
    <3>2. StampIn(stamps, e) \in Int /\ StampIn(later, e) \in Int /\ StampIn(stamps, e) <= StampIn(later, e)
      OBVIOUS
    <3>3. m.at < StampIn(later, e)
      BY <3>1, <3>2
    <3>4. m.prev = Never \/ \E q \in rows : q.entity = e /\ q.score = m.prev /\ q.at < m.at
      BY <1>1, <2>2 DEF Ready
    <3> HIDE DEF e
    <3>5. m.prev = Never \/ \E q \in more : q.entity = e /\ q.score = m.prev /\ q.at < m.at
      BY <3>4
    <3> QED
      BY <3>1, <3>3, <3>5 DEF e
  <2>3. ASSUME m.todo[1].do = "rise"
        PROVE  \E q, r \in more : /\ q.entity = m.todo[1].entity /\ r.entity = m.todo[1].entity
                                  /\ q.score = m.prev /\ r.score = m.score.score /\ q.at < r.at
                                  /\ m.prev < m.score.score
    <3>1. PICK q \in rows, r \in rows :
             /\ q.entity = m.todo[1].entity /\ r.entity = m.todo[1].entity
             /\ q.score = m.prev /\ r.score = m.score.score /\ q.at < r.at /\ m.prev < m.score.score
      BY <1>1, <2>3 DEF Ready
    <3>2. q \in more /\ r \in more
      OBVIOUS
    <3> QED
      BY <3>1, <3>2
  <2> QED
    BY <2>1, <2>2, <2>3 DEF Ready
<1>3. Earned(m, more, fewer)
  <2> SUFFICES ASSUME m.todo # <<>> PROVE Earned(m, more, fewer)
    BY DEF Earned
  <2>1. m.job \in Int /\ jobs < m.job /\ {x.score : x \in m.taken} = OfJob(rows, m.job)
        /\ \A r \in rows : r.entity[1] = "investigation" => r.job # m.job
    BY <1>1 DEF Earned
  <2>2. \A r \in more : r \notin rows => r.job # m.job
    OBVIOUS
  <2>3. fewer < m.job
    BY <2>1
  <2>4. OfJob(more, m.job) = OfJob(rows, m.job)
    BY <2>2 DEF OfJob
  <2>5. \A r \in more : r.entity[1] = "investigation" => r.job # m.job
    BY <2>1, <2>2
  <2> QED
    BY <2>1, <2>3, <2>4, <2>5 DEF Earned
<1> QED
  BY <1>1, <1>2, <1>3 DEF CmdOK

LEMMA Stamps ==
    ASSUME NEW stamps, \A e \in DOMAIN stamps : stamps[e] \in Int
    PROVE  \A e : StampIn(stamps, e) \in Int
BY DEF StampIn

(* The step of a running command, given what it makes of the command's memory. *)
LEMMA Moved ==
    ASSUME Scoring, NEW c \in Commands, run[c].todo # <<>>,
           NEW n, run' = [run EXCEPT ![c] = n],
           CmdOK(n, scores', left'.stamps, left'.jobs), n.todo # <<>> => n.job = run[c].job,
           scores \subseteq scores', \A r \in scores' \ scores : r.job = run[c].job,
           LeftOK', left'.jobs = left.jobs,
           \A e : StampIn(left.stamps, e) <= StampIn(left'.stamps, e)
    PROVE  RunsOK' /\ OwnJobs'
<1>1. run = [d \in Commands |-> run[d]] /\ \A d \in Commands : CmdOK(run[d], scores, left.stamps, left.jobs)
  BY DEF Scoring, RunsOK
<1>2. run' = [d \in Commands |-> run'[d]] /\ run'[c] = n /\ \A d \in Commands : d # c => run'[d] = run[d]
  BY <1>1
<1>3. \A e : StampIn(left.stamps, e) \in Int
  BY Stamps DEF Scoring, LeftOK
<1>4. \A e : StampIn(left'.stamps, e) \in Int
  <2>1. \A e \in DOMAIN left'.stamps : left'.stamps[e] \in Int
    BY DEF LeftOK
  <2>2. PICK st : st = left'.stamps
    OBVIOUS
  <2> QED
    BY <2>1, <2>2, Stamps
<1>5. left.jobs \in Int
  BY IdentityAssumption DEF Scoring, LeftOK
<1>6. ASSUME NEW d \in Commands PROVE CmdOK(run'[d], scores', left'.stamps, left'.jobs)
  <2>1. CASE d = c
    BY <1>2, <2>1
  <2>2. CASE d # c
    <3>1. run[d].todo # <<>> => run[d].job # run[c].job
      BY <2>2 DEF Scoring, OwnJobs
    <3>2. run[d].todo # <<>> => \A r \in scores' \ scores : r.job # run[d].job
      BY <3>1
    <3>3. PICK more, later, m : more = scores' /\ later = left'.stamps /\ m = run[d]
      OBVIOUS
    <3>4. left.jobs <= left.jobs
      BY <1>5
    <3>5. CmdOK(m, scores, left.stamps, left.jobs) /\ scores \subseteq more
      BY <1>1, <3>3
    <3>6. m.todo # <<>> => \A r \in more \ scores : r.job # m.job
      BY <3>2, <3>3
    <3>7. \A e : StampIn(left.stamps, e) \in Int /\ StampIn(later, e) \in Int /\ StampIn(left.stamps, e) <= StampIn(later, e)
      BY <1>3, <1>4, <3>3
    <3>8. CmdOK(m, more, later, left.jobs)
      BY <1>5, <3>4, <3>5, <3>6, <3>7, NotDisturbed
    <3> QED
      BY <1>2, <2>2, <3>3, <3>8
  <2> QED
    BY <2>1, <2>2
<1>7. RunsOK'
  BY <1>2, <1>6 DEF RunsOK
<1>8. OwnJobs'
  <2> SUFFICES ASSUME NEW a \in Commands, NEW b \in Commands, a # b, run'[a].todo # <<>>, run'[b].todo # <<>>
               PROVE  run'[a].job # run'[b].job
    BY DEF OwnJobs
  <2>1. \A d \in Commands : run'[d].todo # <<>> => run[d].todo # <<>> /\ run'[d].job = run[d].job
    BY <1>2
  <2> QED
    BY <2>1 DEF Scoring, OwnJobs
<1> QED
  BY <1>7, <1>8

LEMMA Spent ==
    ASSUME LeftOK, left' = left \/ left' = [left EXCEPT !.spare = @ - 1]
    PROVE  LeftOK' /\ left'.jobs = left.jobs /\ left'.stamps = left.stamps
<1>1. left = [jobs |-> left.jobs, spare |-> left.spare, stamps |-> left.stamps]
  BY DEF LeftOK
<1>2. CASE left' = left
  BY <1>2 DEF LeftOK
<1>3. CASE left' = [left EXCEPT !.spare = @ - 1]
  <2>1. left' = [jobs |-> left.jobs, spare |-> left.spare - 1, stamps |-> left.stamps]
    BY <1>1, <1>3
  <2>2. left'.jobs = left.jobs /\ left'.stamps = left.stamps /\ left'.spare = left.spare - 1
    BY <2>1
  <2> QED
    BY <2>1, <2>2 DEF LeftOK
<1> QED
  BY <1>2, <1>3

LEMMA SameScores == ASSUME ScoresOK, scores' = scores, left'.jobs = left.jobs, left'.stamps = left.stamps PROVE ScoresOK'
BY DEF ScoresOK, ValidScore, Supported

(* Going on with what waits, none of it relying on what was just done.     *)
Calm(t) == t # <<>> => t[1].do \notin {"previous", "create", "rise"}
LEMMA Quietly ==
    ASSUME NEW m, NEW t, MemoryOK(m), TodoOK(t), Calm(t), t # <<>>, NEW rows, NEW stamps, NEW jobs,
           NEW old, old.todo # <<>>, Earned(old, rows, jobs), m.job = old.job, m.taken = old.taken
    PROVE  LET n == [m EXCEPT !.todo = t] IN CmdOK(n, rows, stamps, jobs) /\ n.todo = t /\ n.job = m.job
<1>1. PICK n : n = [m EXCEPT !.todo = t]
  OBVIOUS
<1>2. m = [todo |-> m.todo, job |-> m.job, ds |-> m.ds, before |-> m.before, got |-> m.got, best |-> m.best,
           statuses |-> m.statuses, score |-> m.score, prev |-> m.prev, at |-> m.at, taken |-> m.taken]
  BY DEF MemoryOK
<1>3. n = [todo |-> t, job |-> m.job, ds |-> m.ds, before |-> m.before, got |-> m.got, best |-> m.best,
           statuses |-> m.statuses, score |-> m.score, prev |-> m.prev, at |-> m.at, taken |-> m.taken]
  BY <1>1, <1>2
<1>4. MemoryOK(n) /\ n.todo = t /\ n.job = old.job /\ n.taken = old.taken
  BY <1>3 DEF MemoryOK
<1>5. Ready(n, rows, stamps)
  BY <1>4 DEF Ready, Calm
<1>6. Earned(n, rows, jobs)
  BY <1>4 DEF Earned
<1> QED
  BY <1>1, <1>4, <1>5, <1>6 DEF CmdOK

Passes(c, m, t) ==
    /\ run[c].todo # <<>> /\ Go(c, m, t)
    /\ MemoryOK(m) /\ TodoOK(t) /\ Calm(t) /\ m.job = run[c].job /\ m.taken = run[c].taken
Goes(c, m, t) ==
    /\ run[c].todo # <<>> /\ Go(c, m, t)
    /\ MemoryOK(m) /\ TodoOK(t) /\ Opens(t) /\ m.job = run[c].job /\ m.taken = run[c].taken
LEMMA GoesPasses == ASSUME NEW c, NEW m, NEW t, Goes(c, m, t) PROVE Passes(c, m, t)
BY DEF Goes, Passes, Opens, Calm, Inner

LEMMA Went ==
    ASSUME Scoring, NEW c \in Commands, NEW m, NEW t, Passes(c, m, t),
           scores' = scores, left' = left \/ left' = [left EXCEPT !.spare = @ - 1]
    PROVE  Scoring'
<1>1. LeftOK' /\ left'.jobs = left.jobs /\ left'.stamps = left.stamps
  BY Spent DEF Scoring
<1>2. ScoresOK'
  BY <1>1, SameScores DEF Scoring
<1>3. PICK n : n = IF t = <<>> THEN Idle ELSE [m EXCEPT !.todo = t]
  OBVIOUS
<1>4. run' = [run EXCEPT ![c] = n]
  BY <1>3 DEF Passes, Go
<1>5. CmdOK(n, scores, left.stamps, left.jobs) /\ (n.todo # <<>> => n.job = run[c].job)
  <2>1. CASE t = <<>>
    BY <1>3, <2>1, IdleOK
  <2>2. CASE t # <<>>
    <3>1. Earned(run[c], scores, left.jobs)
      BY DEF Scoring, RunsOK, CmdOK
    <3>2. n = [m EXCEPT !.todo = t]
      BY <1>3, <2>2
    <3>3. CmdOK(n, scores, left.stamps, left.jobs) /\ n.job = m.job
      BY <2>2, <3>1, <3>2, Quietly DEF Passes
    <3> QED
      BY <3>3 DEF Passes
  <2> QED
    BY <2>1, <2>2
<1>6. \A e : StampIn(left.stamps, e) <= StampIn(left'.stamps, e)
  <2>1. \A e : StampIn(left.stamps, e) \in Int
    BY Stamps DEF Scoring, LeftOK
  <2> QED
    BY <1>1, <2>1
<1>7. RunsOK' /\ OwnJobs'
  <2>1. CmdOK(n, scores', left'.stamps, left'.jobs)
    BY <1>1, <1>5
  <2>2. scores \subseteq scores' /\ \A r \in scores' \ scores : r.job = run[c].job
    OBVIOUS
  <2>3. run[c].todo # <<>>
    BY DEF Passes
  <2> QED
    BY <1>1, <1>4, <1>5, <1>6, <2>1, <2>2, <2>3, Moved
<1> QED
  BY <1>1, <1>2, <1>7 DEF Scoring

(* It no longer announces what it did, nor yet anything else.              *)
LEMMA WaitsLess ==
    ASSUME RunsOK, NEW c \in Commands, NEW n, run' = [run EXCEPT ![c] = n],
           n.todo # <<>> => Head(n.todo).do # "announce"
    PROVE  \A key : Waiting(key)' = Waiting(key) \ {c}
<1>1. run = [d \in Commands |-> run[d]]
  BY DEF RunsOK
<1>2. run'[c] = n /\ \A d \in Commands : d # c => run'[d] = run[d]
  BY <1>1
<1>3. \A key : \A d \in Commands : d # c => (d \in Waiting(key)' <=> d \in Waiting(key))
  BY <1>2 DEF Waiting, Doing, Next1
<1>4. \A key : c \notin Waiting(key)'
  BY <1>2 DEF Waiting, Doing, Next1
<1>5. \A key : Waiting(key)' \subseteq Commands /\ Waiting(key) \subseteq Commands
  BY DEF Waiting
<1> SUFFICES ASSUME NEW key PROVE Waiting(key)' = Waiting(key) \ {c}
  OBVIOUS
<1> QED
  BY <1>3, <1>4, <1>5

LEMMA OpensHead == ASSUME NEW t, TodoOK(t), t # <<>> PROVE Head(t) = t[1]
BY RestTodo

LEMMA WentWaiting ==
    ASSUME RunsOK, NEW c \in Commands, NEW m, NEW t, Goes(c, m, t)
    PROVE  \A key : Waiting(key)' = Waiting(key) \ {c}
<1>1. PICK n : n = IF t = <<>> THEN Idle ELSE [m EXCEPT !.todo = t]
  OBVIOUS
<1>2. run' = [run EXCEPT ![c] = n]
  BY <1>1 DEF Goes, Go
<1>3. n.todo # <<>> => Head(n.todo).do # "announce"
  <2>1. CASE t = <<>>
    <3>1. n.todo = <<>>
      BY <1>1, <2>1, IdleOK
    <3> QED
      BY <3>1
  <2>2. CASE t # <<>>
    <3>1. m = [todo |-> m.todo, job |-> m.job, ds |-> m.ds, before |-> m.before, got |-> m.got, best |-> m.best,
               statuses |-> m.statuses, score |-> m.score, prev |-> m.prev, at |-> m.at, taken |-> m.taken]
      BY DEF Goes, MemoryOK
    <3>2. n.todo = t
      BY <1>1, <2>2, <3>1
    <3>3. Head(t) = t[1] /\ t[1].do \notin Inner
      BY <2>2, OpensHead DEF Goes, Opens
    <3> QED
      BY <3>2, <3>3 DEF Inner
  <2> QED
    BY <2>1, <2>2
<1> QED
  BY <1>2, <1>3, WaitsLess

LEMMA NotWaiting ==
    ASSUME NEW c \in Commands, ~Doing(c, "announce")
    PROVE  \A key : Waiting(key) \ {c} = Waiting(key)
BY DEF Waiting

LEMMA SameTelling ==
    ASSUME TellsOK, \A key : Waiting(key)' = Waiting(key), events'.match = events.match,
           past'.lost = past.lost, past'.born = past.born, matches' = matches
    PROVE  TellsOK'
<1> SUFFICES ASSUME NEW key PROVE TellOK(Told(key)', events'.match, Waiting(key)', key \in past'.lost, Due(key)')
  BY DEF TellsOK
<1>1. Told(key)' = Told(key) /\ Due(key)' = Due(key) /\ Waiting(key)' = Waiting(key)
  BY DEF Told, Due
<1>2. TellOK(Told(key), events.match, Waiting(key), key \in past.lost, Due(key))
  BY DEF TellsOK
<1> QED
  BY <1>1, <1>2

LEMMA SameEvents == ASSUME EventsOK, events' = events, scores \subseteq scores' PROVE EventsOK'
<1>1. RisesTraceable'
  <2> SUFFICES ASSUME NEW e \in DOMAIN events.rise
               PROVE  \E q, r \in RowsOf(e.entity)' :
                         q.score = e.previous /\ r.score = e.new /\ q.at < r.at /\ e.previous < e.new
    BY DEF RisesTraceable
  <2>1. RowsOf(e.entity) \subseteq RowsOf(e.entity)'
    BY DEF RowsOf
  <2>2. \E q, r \in RowsOf(e.entity) : q.score = e.previous /\ r.score = e.new /\ q.at < r.at /\ e.previous < e.new
    BY DEF EventsOK, RisesTraceable
  <2> QED
    BY <2>1, <2>2
<1> QED
  BY <1>1 DEF EventsOK, ValidVerdictEvent

LEMMA SameData == ASSUME Data, UNCHANGED <<clock, world, records, cache, catalog, matches, past>> PROVE Data'
BY DEF Data, WorldOK, RecordsOK, CacheOK, CatalogOK, MatchesOK, PastOK, ValidRecord, ValidMatch, ValidVulnerability

(* A step of a command that stores nothing.                                *)
LEMMA QuietStep ==
    ASSUME IInv, NEW c \in Commands, NEW m, NEW t, Goes(c, m, t), ~Doing(c, "announce"),
           left' = left \/ left' = [left EXCEPT !.spare = @ - 1], UNCHANGED inMemory
    PROVE  IInv'
<1>1. Scoring'
  BY GoesPasses, Went DEF IInv, inMemory, tables
<1>2. \A key : Waiting(key)' = Waiting(key)
  BY WentWaiting, NotWaiting DEF IInv, Scoring
<1>3. TellsOK'
  BY <1>2, SameTelling DEF IInv, inMemory, tables
<1>4. EventsOK'
  BY SameEvents DEF IInv, inMemory, tables
<1>5. Data'
  BY SameData DEF IInv, inMemory, tables
<1> QED
  BY <1>1, <1>3, <1>4, <1>5 DEF IInv

-----------------------------------------------------------------------------
(* Commands begin.                                                         *)

LEMMA Started ==
    ASSUME IInv, NEW c \in Commands, run[c].todo = <<>>, left.jobs > 0, NEW t, TodoOK(t), Opens(t), Start(c, t)
    PROVE  IInv'
<1>1. PICK n : n = [Idle EXCEPT !.todo = t, !.job = left.jobs]
  OBVIOUS
<1>2. n = [todo |-> t, job |-> left.jobs, ds |-> EmptyDataset, before |-> "", got |-> <<>>, best |-> "",
           statuses |-> {}, score |-> <<>>, prev |-> Never, at |-> 0, taken |-> {}]
  BY <1>1 DEF Idle
<1>3. MemoryOK(n) /\ n.todo = t /\ n.job = left.jobs /\ n.taken = {}
  BY <1>2, NothingKnown, NoRecords DEF MemoryOK
<1>4. run' = [run EXCEPT ![c] = n] /\ left' = [left EXCEPT !.jobs = @ - 1] /\ UNCHANGED inMemory
  BY <1>1 DEF Start
<1>5. PICK J \in 1..MaxJobs : J = left.jobs
  BY IdentityAssumption DEF IInv, Scoring, LeftOK
<1>6. left' = [jobs |-> J - 1, spare |-> left.spare, stamps |-> left.stamps]
  BY <1>4, <1>5 DEF IInv, Scoring, LeftOK
<1>7. left'.jobs = J - 1 /\ left'.stamps = left.stamps /\ left'.spare = left.spare
  BY <1>6
<1>8. LeftOK'
  <2>1. J - 1 \in 0..MaxJobs
    BY <1>5, IdentityAssumption
  <2> QED
    BY <1>6, <1>7, <2>1 DEF IInv, Scoring, LeftOK
<1>9. scores' = scores
  BY <1>4 DEF inMemory, tables
<1>10. ScoresOK'
  <2>1. 1..(J - 1) \subseteq 1..J
    BY <1>5
  <2>2. \A r \in scores : r.job \notin 1..(J - 1)
    BY <1>5, <2>1 DEF IInv, Scoring, ScoresOK
  <2> QED
    BY <1>7, <1>9, <2>2 DEF IInv, Scoring, ScoresOK, ValidScore, Supported
<1>11. Ready(n, scores, left.stamps)
  BY <1>3 DEF Ready, Opens, Inner
<1>12. Earned(n, scores, J - 1)
  <2>1. \A r \in scores : r.job # J
    BY <1>5 DEF IInv, Scoring, ScoresOK
  <2>2. OfJob(scores, J) = {}
    BY <2>1 DEF OfJob
  <2>3. J \in Int /\ J - 1 < J
    BY <1>5
  <2>4. {x.score : x \in n.taken} = {}
    BY <1>3
  <2>5. n.job = J
    BY <1>3, <1>5
  <2> QED
    BY <2>1, <2>2, <2>3, <2>4, <2>5 DEF Earned
<1>13. CmdOK(n, scores, left.stamps, J - 1)
  BY <1>3, <1>11, <1>12 DEF CmdOK
<1>14. run = [d \in Commands |-> run[d]] /\ \A d \in Commands : CmdOK(run[d], scores, left.stamps, J)
  BY <1>5 DEF IInv, Scoring, RunsOK
<1>15. run' = [d \in Commands |-> run'[d]] /\ run'[c] = n /\ \A d \in Commands : d # c => run'[d] = run[d]
  BY <1>4, <1>14
<1>16. \A e : StampIn(left.stamps, e) \in Int
  BY Stamps DEF IInv, Scoring, LeftOK
<1>17. ASSUME NEW d \in Commands PROVE CmdOK(run'[d], scores, left.stamps, J - 1)
  <2>1. CASE d = c
    BY <1>13, <1>15, <2>1
  <2>2. CASE d # c
    <3>1. PICK m : m = run[d]
      OBVIOUS
    <3>2. CmdOK(m, scores, left.stamps, J)
      BY <1>14, <3>1
    <3>3. J \in Int /\ J - 1 \in Int /\ J - 1 <= J
      BY <1>5
    <3>4. \A r \in scores \ scores : r.job # m.job
      OBVIOUS
    <3>5. \A e : StampIn(left.stamps, e) <= StampIn(left.stamps, e)
      BY <1>16
    <3>6. CmdOK(m, scores, left.stamps, J - 1)
      BY <1>16, <3>2, <3>3, <3>4, <3>5, NotDisturbed
    <3> QED
      BY <1>15, <2>2, <3>1, <3>6
  <2> QED
    BY <2>1, <2>2
<1>18. RunsOK'
  BY <1>7, <1>9, <1>15, <1>17 DEF RunsOK
<1>19. OwnJobs'
  <2>1. ASSUME NEW d \in Commands, d # c, run[d].todo # <<>> PROVE run[d].job # J
    <3>1. run[d].job \in Int /\ J < run[d].job
      BY <1>14, <2>1 DEF CmdOK, Earned
    <3> QED
      BY <1>5, <3>1
  <2>2. run'[c].job = J
    BY <1>3, <1>5, <1>15
  <2> SUFFICES ASSUME NEW a \in Commands, NEW b \in Commands, a # b, run'[a].todo # <<>>, run'[b].todo # <<>>
               PROVE  run'[a].job # run'[b].job
    BY DEF OwnJobs
  <2>3. CASE a = c
    BY <1>15, <2>1, <2>2, <2>3
  <2>4. CASE b = c
    BY <1>15, <2>1, <2>2, <2>4
  <2>5. CASE a # c /\ b # c
    BY <1>15, <2>5 DEF IInv, Scoring, OwnJobs
  <2> QED
    BY <2>3, <2>4, <2>5
<1>20. Scoring'
  BY <1>8, <1>10, <1>18, <1>19 DEF Scoring
<1>21. \A key : Waiting(key)' = Waiting(key)
  <2>1. n.todo # <<>> => Head(n.todo).do # "announce"
    BY <1>3, OpensHead DEF Opens, Inner
  <2>2. \A key : Waiting(key)' = Waiting(key) \ {c}
    BY <1>4, <2>1, WaitsLess DEF IInv, Scoring
  <2>3. ~Doing(c, "announce")
    BY DEF Doing
  <2> QED
    BY <2>2, <2>3, NotWaiting
<1>22. TellsOK'
  BY <1>4, <1>21, SameTelling DEF IInv, inMemory, tables
<1>23. EventsOK'
  BY <1>4, SameEvents DEF IInv, inMemory, tables
<1>24. Data'
  BY <1>4, SameData DEF IInv, inMemory, tables
<1> QED
  BY <1>20, <1>22, <1>23, <1>24 DEF IInv

LEMMA JobOK ==
    ASSUME IInv, left.jobs > 0, NEW job \in Given
    PROVE  /\ job[1] \in {"lookup", "enrich", "refresh"} => job[3] \in DOMAIN Canonical
           /\ job[1] = "asset" => job[2] \in Assets
           /\ job[1] = "finding" => job[2] \in DOMAIN FindingAsset
           /\ job[1] = "investigation" => job[2] \in DOMAIN EvidenceOf
<1>1. left.jobs \in 1..MaxJobs
  BY IdentityAssumption DEF IInv, Scoring, LeftOK
<1> QED
  BY <1>1, IdentityAssumption DEF Given

LEMMA LookupStep == ASSUME IInv, NEW c \in Commands, LookupCommand(c) PROVE IInv'
<1>1. run[c].todo = <<>> /\ left.jobs > 0
  BY DEF LookupCommand, Free
<1>2. PICK job \in Given : job[1] = "lookup" /\ Start(c, <<Head(LookupSteps(job[2], job[3]))>>)
  BY DEF LookupCommand
<1>3. job[3] \in DOMAIN Canonical
  BY <1>1, <1>2, JobOK
<1>4. PlainList(<<Head(LookupSteps(job[2], job[3]))>>)
  BY <1>3, LookupPlain
<1> QED
  BY <1>1, <1>2, <1>4, PlainTodo, Started

LEMMA EnrichStep == ASSUME IInv, NEW c \in Commands, EnrichCommand(c) PROVE IInv'
<1>1. run[c].todo = <<>> /\ left.jobs > 0
  BY DEF EnrichCommand, Free
<1>2. PICK job \in Given : job[1] = "enrich" /\ Start(c, KnownSteps(job[2], job[3]))
  BY DEF EnrichCommand
<1>3. job[3] \in DOMAIN Canonical
  BY <1>1, <1>2, JobOK
<1>4. PlainList(KnownSteps(job[2], job[3]))
  BY <1>3, KnownPlain
<1> QED
  BY <1>1, <1>2, <1>4, PlainTodo, Started

LEMMA RefreshStep == ASSUME IInv, NEW c \in Commands, RefreshCommand(c) PROVE IInv'
<1>1. run[c].todo = <<>> /\ left.jobs > 0
  BY DEF RefreshCommand, Free
<1>2. PICK job \in Given : job[1] = "refresh" /\ Start(c, RefreshSteps(job[2], job[3]))
  BY DEF RefreshCommand
<1>3. job[3] \in DOMAIN Canonical
  BY <1>1, <1>2, JobOK
<1>4. PlainList(RefreshSteps(job[2], job[3]))
  BY <1>3, RefreshPlain
<1> QED
  BY <1>1, <1>2, <1>4, PlainTodo, Started

LEMMA ProjectStep == ASSUME IInv, NEW c \in Commands, EnrichProjectCommand(c) PROVE IInv'
<1>1. run[c].todo = <<>> /\ left.jobs > 0
  BY DEF EnrichProjectCommand, Free
<1>2. PICK job \in Given :
         LET found == Picked(AssetTable, {n \in DOMAIN AssetTable : AssetTable[n].target = job[2]})
         IN Start(c, FlattenSeq([n \in DOMAIN found |-> EnrichSteps(found[n].id)]))
  BY DEF EnrichProjectCommand
<1> DEFINE found == Picked(AssetTable, {n \in DOMAIN AssetTable : AssetTable[n].target = job[2]})
           ss == [n \in DOMAIN found |-> EnrichSteps(found[n].id)]
<1>3. IsSeq(AssetTable)
  BY IdentityAssumption DEF IsSeq
<1>4. IsSeq(found) /\ \A n \in DOMAIN found : \E k \in DOMAIN AssetTable : found[n] = AssetTable[k]
  <2> DEFINE I == {n \in DOMAIN AssetTable : AssetTable[n].target = job[2]}
  <2>1. found = Picked(AssetTable, I)
    OBVIOUS
  <2> HIDE DEF I, found
  <2> QED
    BY <1>3, <2>1, PickedOf
<1>5. \A n \in DOMAIN found : found[n].id \in Assets
  <2> SUFFICES ASSUME NEW n \in DOMAIN found PROVE found[n].id \in Assets
    OBVIOUS
  <2>1. PICK k \in DOMAIN AssetTable : found[n] = AssetTable[k]
    BY <1>4
  <2> HIDE DEF found
  <2> QED
    BY <2>1 DEF Assets
<1>6. Start(c, FlattenSeq(ss))
  BY <1>2
<1> HIDE DEF found
<1>7. PlainList(FlattenSeq(ss))
  <2>1. \A n \in DOMAIN found : PlainList(ss[n])
    BY <1>5, EnrichPlain
  <2>2. ss = [n \in DOMAIN found |-> ss[n]]
    OBVIOUS
  <2> HIDE DEF ss
  <2> QED
    BY <1>4, <2>1, <2>2, FlatPlain
<1> HIDE DEF ss
<1>8. TodoOK(FlattenSeq(ss)) /\ Opens(FlattenSeq(ss))
  BY <1>7, PlainTodo
<1> QED
  BY <1>1, <1>6, <1>8, Started

LEMMA RiskAssetStep == ASSUME IInv, NEW c \in Commands, RiskAssetCommand(c) PROVE IInv'
<1>1. run[c].todo = <<>> /\ left.jobs > 0
  BY DEF RiskAssetCommand, Free
<1>2. PICK job \in Given : job[1] = "asset" /\ Start(c, EnrichSteps(job[2]))
  BY DEF RiskAssetCommand
<1>3. job[2] \in Assets
  BY <1>1, <1>2, JobOK
<1>4. PlainList(EnrichSteps(job[2]))
  BY <1>3, EnrichPlain
<1> QED
  BY <1>1, <1>2, <1>4, PlainTodo, Started

LEMMA RiskFindingStep == ASSUME IInv, NEW c \in Commands, RiskFindingCommand(c) PROVE IInv'
<1>1. run[c].todo = <<>> /\ left.jobs > 0
  BY DEF RiskFindingCommand, Free
<1>2. PICK job \in Given : job[1] = "finding" /\ Start(c, FindingSteps(job[2]))
  BY DEF RiskFindingCommand
<1>3. job[2] \in DOMAIN FindingAsset
  BY <1>1, <1>2, JobOK
<1>4. TodoOK(FindingSteps(job[2])) /\ Opens(FindingSteps(job[2]))
  BY <1>3, FindingTodo
<1> QED
  BY <1>1, <1>2, <1>4, Started

LEMMA RiskInvestigationStep == ASSUME IInv, NEW c \in Commands, RiskInvestigationCommand(c) PROVE IInv'
<1>1. run[c].todo = <<>> /\ left.jobs > 0
  BY DEF RiskInvestigationCommand, Free
<1>2. PICK job \in Given : job[1] = "investigation" /\ \E todo \in InvestigationSteps(job[2]) : Start(c, todo)
  BY DEF RiskInvestigationCommand
<1>3. PICK todo \in InvestigationSteps(job[2]) : Start(c, todo)
  BY <1>2
<1>4. job[2] \in DOMAIN EvidenceOf
  BY <1>1, <1>2, JobOK
<1>5. TodoOK(todo) /\ Opens(todo)
  BY <1>4, InvestigationTodo
<1> QED
  BY <1>1, <1>3, <1>5, Started

-----------------------------------------------------------------------------
(* Statements that store nothing, one by one.                              *)

LEMMA Running ==
    ASSUME IInv, NEW c \in Commands, NEW what, Doing(c, what)
    PROVE  /\ run[c].todo # <<>> /\ Next1(c) = run[c].todo[1] /\ StepOK(Next1(c)) /\ Next1(c).do = what
           /\ MemoryOK(run[c]) /\ TodoOK(run[c].todo) /\ TodoOK(Rest(c))
           /\ what \notin {"input", "previous"} => Opens(Rest(c))
           /\ what = "investigation" => Rest(c) = <<>>
           /\ Rest(c) # <<>> => Follows(Next1(c), Rest(c)[1])
<1>1. run[c].todo # <<>> /\ Next1(c).do = what /\ Next1(c) = Head(run[c].todo) /\ Rest(c) = Tail(run[c].todo)
  BY DEF Doing, Next1, Rest
<1>2. MemoryOK(run[c]) /\ TodoOK(run[c].todo)
  BY DEF IInv, Scoring, RunsOK, CmdOK
<1>3. PICK t : t = run[c].todo
  OBVIOUS
<1>4. /\ StepOK(t[1]) /\ Head(t) = t[1] /\ TodoOK(Tail(t))
      /\ t[1].do \notin {"input", "previous"} => Opens(Tail(t))
      /\ t[1].do = "investigation" => Tail(t) = <<>>
      /\ Tail(t) # <<>> => Follows(t[1], Tail(t)[1])
  BY <1>1, <1>2, <1>3, RestTodo
<1> QED
  BY <1>1, <1>2, <1>3, <1>4

(* Memory with a part changed.                                             *)
MemoryIs(m, ds, before, got, best, statuses, score, prev, at, taken) ==
    [todo |-> m.todo, job |-> m.job, ds |-> ds, before |-> before, got |-> got, best |-> best,
     statuses |-> statuses, score |-> score, prev |-> prev, at |-> at, taken |-> taken]

LEMMA Remembers ==
    ASSUME NEW m, MemoryOK(m), NEW ds, NEW before, NEW got, NEW best, NEW statuses, NEW score, NEW prev, NEW at,
           NEW taken, GoodDs(ds), GoodList(got), taken \subseteq ScoreSet,
           NEW n, n = MemoryIs(m, ds, before, got, best, statuses, score, prev, at, taken)
    PROVE  MemoryOK(n) /\ n.job = m.job /\ n.taken = taken
BY DEF MemoryIs, MemoryOK

LEMMA OneMore ==
    ASSUME NEW x, StepOK(x), x.do \notin Inner \cup {"input", "investigation"}, NEW t, TodoOK(t), Opens(t)
    PROVE  TodoOK(<<x>> \o t) /\ Opens(<<x>> \o t)
<1>1. TodoOK(<<x>>) /\ Ends(<<x>>) /\ Opens(<<x>>)
  BY OneTodo DEF Inner
<1> QED
  BY <1>1, JoinedTodo

LEMMA Waits == ASSUME NEW c, NEW what, Doing(c, what), what # "announce" PROVE ~Doing(c, "announce")
BY DEF Doing

LEMMA ReadAssetStep == ASSUME IInv, NEW c \in Commands, ReadAsset(c) PROVE IInv'
<1>1. Doing(c, "dataset") /\ UNCHANGED inMemory
  BY DEF ReadAsset
<1>2. PICK a : a = Next1(c).asset
  OBVIOUS
<1>3. /\ run[c].todo # <<>> /\ StepOK(Next1(c)) /\ Next1(c).do = "dataset"
      /\ MemoryOK(run[c]) /\ TodoOK(Rest(c)) /\ Opens(Rest(c))
  BY <1>1, Running
<1>4. a \in Assets
  BY <1>2, <1>3 DEF StepOK
<1>5. ~Doing(c, "announce")
  BY <1>1, Waits
<1>6. ASSUME NEW ds \in {LocalDataset(a, FALSE), LocalDataset(a, TRUE)},
             Go(c, [run[c] EXCEPT !.ds = ds, !.best = "", !.statuses = {}], AssetSteps(a, ds) \o Rest(c)),
             left' = left \/ left' = [left EXCEPT !.spare = @ - 1]
      PROVE  IInv'
  <2>1. GoodDs(ds)
    BY <1>4, AssetKnown DEF IInv, Data
  <2>2. PICK m : m = [run[c] EXCEPT !.ds = ds, !.best = "", !.statuses = {}]
    OBVIOUS
  <2>9. PICK best, statuses : best = "" /\ statuses = {}
    OBVIOUS
  <2>3. m = MemoryIs(run[c], ds, run[c].before, run[c].got, best, statuses, run[c].score, run[c].prev, run[c].at, run[c].taken)
    BY <1>3, <2>2, <2>9 DEF MemoryOK, MemoryIs
  <2>4. GoodList(run[c].got) /\ run[c].taken \subseteq ScoreSet
    BY <1>3 DEF MemoryOK
  <2>5. MemoryOK(m) /\ m.job = run[c].job /\ m.taken = run[c].taken
    BY <1>3, <2>1, <2>3, <2>4, Remembers
  <2>6. PICK t : t = AssetSteps(a, ds) \o Rest(c)
    OBVIOUS
  <2>7. TodoOK(t) /\ Opens(t)
    BY <1>3, <1>4, <2>1, <2>6, AssetTodo, JoinedTodo
  <2>8. Goes(c, m, t)
    BY <1>3, <1>6, <2>2, <2>5, <2>6, <2>7 DEF Goes
  <2> QED
    BY <1>1, <1>5, <1>6, <2>8, QuietStep
<1>7. ASSUME Spend, Go(c, run[c], NextAsset(Rest(c)))
      PROVE  IInv'
  <2>1. PICK t : t = NextAsset(Rest(c))
    OBVIOUS
  <2>2. TodoOK(t) /\ (t # <<>> => t[1].do \in {"dataset", "investigation"})
    BY <1>3, <2>1, SkippedTodo DEF NextAsset
  <2>3. Opens(t)
    BY <2>2 DEF Opens, Inner
  <2>4. Goes(c, run[c], t)
    BY <1>3, <1>7, <2>1, <2>2, <2>3 DEF Goes
  <2> QED
    BY <1>1, <1>5, <1>7, <2>4, QuietStep DEF Spend
<1> QED
  BY <1>2, <1>6, <1>7 DEF ReadAsset, Spend

LEMMA ReadKnownStep == ASSUME IInv, NEW c \in Commands, ReadKnown(c) PROVE IInv'
<1>1. Doing(c, "known") /\ UNCHANGED inMemory
  BY DEF ReadKnown
<1>2. PICK s : s = Next1(c)
  OBVIOUS
<1>3. /\ run[c].todo # <<>> /\ StepOK(s) /\ s.do = "known"
      /\ MemoryOK(run[c]) /\ TodoOK(Rest(c)) /\ Opens(Rest(c))
  BY <1>1, <1>2, Running
<1>4. s.ind \in DOMAIN Canonical
  BY <1>3 DEF StepOK
<1>5. ~Doing(c, "announce")
  BY <1>1, Waits
<1>6. PICK ds \in {DatasetFor(s.target, s.ind, FALSE), EmptyDataset} :
         /\ Go(c, [run[c] EXCEPT !.ds = ds], LookupSteps(s.target, s.ind) \o Rest(c))
         /\ left' = left \/ left' = [left EXCEPT !.spare = @ - 1]
  BY <1>2 DEF ReadKnown, Spend
<1>7. GoodDs(ds)
  BY TargetKnown, NothingKnown DEF IInv, Data
<1>8. PICK m : m = [run[c] EXCEPT !.ds = ds]
  OBVIOUS
<1>9. m = MemoryIs(run[c], ds, run[c].before, run[c].got, run[c].best, run[c].statuses, run[c].score, run[c].prev,
                   run[c].at, run[c].taken)
  BY <1>3, <1>8 DEF MemoryOK, MemoryIs
<1>10. GoodList(run[c].got) /\ run[c].taken \subseteq ScoreSet
  BY <1>3 DEF MemoryOK
<1>11. MemoryOK(m) /\ m.job = run[c].job /\ m.taken = run[c].taken
  BY <1>3, <1>7, <1>9, <1>10, Remembers
<1>12. PICK t : t = LookupSteps(s.target, s.ind) \o Rest(c)
  OBVIOUS
<1>13. TodoOK(LookupSteps(s.target, s.ind)) /\ Opens(LookupSteps(s.target, s.ind)) /\ Ends(LookupSteps(s.target, s.ind))
  BY <1>4, LookupPlain, PlainTodo
<1>14. TodoOK(t) /\ Opens(t)
  BY <1>3, <1>12, <1>13, JoinedTodo
<1>15. Goes(c, m, t)
  BY <1>3, <1>6, <1>8, <1>11, <1>12, <1>14 DEF Goes
<1> QED
  BY <1>1, <1>5, <1>6, <1>15, QuietStep

LEMMA ShowStoredStep == ASSUME IInv, NEW c \in Commands, ShowStored(c) PROVE IInv'
<1>1. Doing(c, "show") /\ UNCHANGED inMemory
  BY DEF ShowStored
<1>2. /\ run[c].todo # <<>> /\ MemoryOK(run[c]) /\ TodoOK(Rest(c)) /\ Opens(Rest(c))
  BY <1>1, Running
<1>3. ~Doing(c, "announce")
  BY <1>1, Waits
<1>4. PICK before :
         /\ Go(c, [run[c] EXCEPT !.got = <<>>, !.before = before], Rest(c))
         /\ left' = left \/ left' = [left EXCEPT !.spare = @ - 1]
  BY DEF ShowStored, Spend
<1>5. PICK m : m = [run[c] EXCEPT !.got = <<>>, !.before = before]
  OBVIOUS
<1>6. m = MemoryIs(run[c], run[c].ds, before, <<>>, run[c].best, run[c].statuses, run[c].score, run[c].prev,
                   run[c].at, run[c].taken)
  BY <1>2, <1>5 DEF MemoryOK, MemoryIs
<1>7. GoodDs(run[c].ds) /\ run[c].taken \subseteq ScoreSet
  BY <1>2 DEF MemoryOK
<1>8. MemoryOK(m) /\ m.job = run[c].job /\ m.taken = run[c].taken
  BY <1>2, <1>6, <1>7, Remembers, NoRecords
<1>9. Goes(c, m, Rest(c))
  BY <1>2, <1>4, <1>5, <1>8 DEF Goes
<1> QED
  BY <1>1, <1>3, <1>4, <1>9, QuietStep

LEMMA CollectOK ==
    ASSUME IInv, NEW c \in Commands, MemoryOK(run[c]), NEW rs, GoodList(rs)
    PROVE  LET m == Collect(c, rs) IN MemoryOK(m) /\ m.job = run[c].job /\ m.taken = run[c].taken
<1>1. PICK m : m = Collect(c, rs)
  OBVIOUS
<1>2. PICK qs : qs = run[c].got
  OBVIOUS
<1>3. PICK d : d = DedupRecords(qs \o rs)
  OBVIOUS
<1>4. m = [run[c] EXCEPT !.got = d]
  BY <1>1, <1>2, <1>3 DEF Collect
<1>5. m = MemoryIs(run[c], run[c].ds, run[c].before, d, run[c].best, run[c].statuses, run[c].score, run[c].prev,
                   run[c].at, run[c].taken)
  BY <1>4 DEF MemoryOK, MemoryIs
<1>6. GoodDs(run[c].ds) /\ run[c].taken \subseteq ScoreSet /\ GoodList(qs)
  BY <1>2 DEF MemoryOK
<1>7. GoodList(d)
  BY <1>3, <1>6, MoreGood
<1>8. MemoryOK(m) /\ m.job = run[c].job /\ m.taken = run[c].taken
  BY <1>5, <1>6, <1>7, Remembers
<1> QED
  BY <1>1, <1>8

LEMMA AskCacheStep == ASSUME IInv, NEW c \in Commands, AskCache(c) PROVE IInv'
<1>1. Doing(c, "provider") /\ UNCHANGED inMemory
  BY DEF AskCache
<1>2. PICK s : s = Next1(c)
  OBVIOUS
<1>3. /\ run[c].todo # <<>> /\ StepOK(s) /\ s.do = "provider"
      /\ MemoryOK(run[c]) /\ TodoOK(Rest(c)) /\ Opens(Rest(c))
  BY <1>1, <1>2, Running
<1>4. s = [do |-> s.do, prov |-> s.prov, ind |-> s.ind] /\ s.prov \in ToSet(ProviderOrder) /\ s.ind # None
  BY <1>3 DEF StepOK
<1>5. ~Doing(c, "announce")
  BY <1>1, Waits
<1>6. PICK miss, hit :
         /\ miss = IF s.prov = "threat_feed" THEN [s EXCEPT !.do = "ask"]
                   ELSE [do |-> "cache", prov |-> s.prov, ind |-> s.ind, recs |-> LocalAnswer(s.prov, s.ind, run[c].ds)]
         /\ hit = Cached(s.prov, s.ind)
  OBVIOUS
<1>7. \/ hit # <<>> /\ Go(c, Collect(c, hit), Rest(c)) /\ UNCHANGED left
      \/ Go(c, run[c], <<miss>> \o Rest(c)) /\ (left' = left \/ left' = [left EXCEPT !.spare = @ - 1])
  BY <1>2, <1>6 DEF AskCache, Spend
<1>8. GoodList(hit)
  <2>1. <<s.prov, s.ind>> \in DOMAIN cache => GoodList(cache[<<s.prov, s.ind>>].records)
    BY DEF IInv, Data, CacheOK
  <2>2. GoodList(Entry(s.prov, s.ind).records)
    BY <2>1, NoRecords DEF Entry
  <2> QED
    BY <1>6, <2>2, FreshGood, NoRecords DEF Cached
<1>9. CASE hit # <<>> /\ Go(c, Collect(c, hit), Rest(c)) /\ UNCHANGED left
  <2>1. PICK m : m = Collect(c, hit)
    OBVIOUS
  <2>2. MemoryOK(m) /\ m.job = run[c].job /\ m.taken = run[c].taken
    BY <1>3, <1>8, <2>1, CollectOK
  <2>3. Goes(c, m, Rest(c))
    BY <1>3, <1>9, <2>1, <2>2 DEF Goes
  <2> QED
    BY <1>1, <1>5, <1>9, <2>3, QuietStep
<1>10. CASE Go(c, run[c], <<miss>> \o Rest(c)) /\ (left' = left \/ left' = [left EXCEPT !.spare = @ - 1])
  <2>1. StepOK(miss) /\ miss.do \in {"ask", "cache"}
    <3>1. CASE s.prov = "threat_feed"
      <4>1. miss = [do |-> "ask", prov |-> s.prov, ind |-> s.ind]
        BY <1>4, <1>6, <3>1
      <4> QED
        BY <1>4, <4>1 DEF StepOK, Kinds
    <3>2. CASE s.prov # "threat_feed"
      <4>1. GoodList(LocalAnswer(s.prov, s.ind, run[c].ds))
        <5>1. clock \in Nat /\ GoodDs(run[c].ds)
          BY <1>3 DEF IInv, Data, WorldOK, MemoryOK
        <5> QED
          BY <1>4, <5>1, LocalGood
      <4>2. PICK rs : rs = LocalAnswer(s.prov, s.ind, run[c].ds)
        OBVIOUS
      <4>3. miss = [do |-> "cache", prov |-> s.prov, ind |-> s.ind, recs |-> rs]
        BY <1>6, <3>2, <4>2
      <4> QED
        BY <4>1, <4>2, <4>3 DEF StepOK, Kinds
    <3> QED
      BY <3>1, <3>2
  <2>2. TodoOK(<<miss>> \o Rest(c)) /\ Opens(<<miss>> \o Rest(c))
    BY <1>3, <2>1, OneMore DEF Inner
  <2>3. Goes(c, run[c], <<miss>> \o Rest(c))
    BY <1>3, <1>10, <2>2 DEF Goes
  <2> QED
    BY <1>1, <1>5, <1>10, <2>3, QuietStep
<1> QED
  BY <1>7, <1>9, <1>10

LEMMA ProviderAnswersStep == ASSUME IInv, NEW c \in Commands, ProviderAnswers(c) PROVE IInv'
<1>1. Doing(c, "ask") /\ world.feed # None /\ UNCHANGED inMemory /\ left' = left
  BY DEF ProviderAnswers
<1>2. PICK s : s = Next1(c)
  OBVIOUS
<1>3. /\ run[c].todo # <<>> /\ StepOK(s) /\ s.do = "ask"
      /\ MemoryOK(run[c]) /\ TodoOK(Rest(c)) /\ Opens(Rest(c))
  BY <1>1, <1>2, Running
<1>4. s.prov \in ToSet(ProviderOrder) /\ s.ind # None
  BY <1>3 DEF StepOK
<1>5. PICK x : x = [do |-> "cache", prov |-> s.prov, ind |-> s.ind,
                    recs |-> <<Record(s.prov, s.ind, world.feed, 3, "feed")>>]
  OBVIOUS
<1>6. Go(c, run[c], <<x>> \o Rest(c))
  BY <1>2, <1>5 DEF ProviderAnswers
<1>7. GoodList(<<Record(s.prov, s.ind, world.feed, 3, "feed")>>)
  <2>1. clock \in Nat /\ world.feed \in Verdicts
    BY <1>1 DEF IInv, Data, WorldOK
  <2> QED
    BY <1>4, <2>1, RecordOK, OneRecord
<1>8. StepOK(x) /\ x.do = "cache"
  <2>1. PICK rs : rs = <<Record(s.prov, s.ind, world.feed, 3, "feed")>>
    OBVIOUS
  <2>2. x = [do |-> "cache", prov |-> s.prov, ind |-> s.ind, recs |-> rs]
    BY <1>5, <2>1
  <2> QED
    BY <1>7, <2>1, <2>2 DEF StepOK, Kinds
<1>9. TodoOK(<<x>> \o Rest(c)) /\ Opens(<<x>> \o Rest(c))
  BY <1>3, <1>8, OneMore DEF Inner
<1>10. Goes(c, run[c], <<x>> \o Rest(c))
  BY <1>3, <1>6, <1>9 DEF Goes
<1>11. ~Doing(c, "announce")
  BY <1>1, Waits
<1> QED
  BY <1>1, <1>10, <1>11, QuietStep

LEMMA ProviderFailsStep == ASSUME IInv, NEW c \in Commands, ProviderFails(c) PROVE IInv'
<1>1. Doing(c, "ask") /\ UNCHANGED inMemory /\ left' = left /\ Go(c, run[c], Rest(c))
  BY DEF ProviderFails
<1>2. run[c].todo # <<>> /\ MemoryOK(run[c]) /\ TodoOK(Rest(c)) /\ Opens(Rest(c))
  BY <1>1, Running
<1>3. Goes(c, run[c], Rest(c))
  BY <1>1, <1>2 DEF Goes
<1>4. ~Doing(c, "announce")
  BY <1>1, Waits
<1> QED
  BY <1>1, <1>3, <1>4, QuietStep

LEMMA ListCatalogStep == ASSUME IInv, NEW c \in Commands, ListCatalog(c) PROVE IInv'
<1>1. Doing(c, "catalog") /\ UNCHANGED inMemory
  BY DEF ListCatalog
<1>2. PICK s : s = Next1(c)
  OBVIOUS
<1>3. run[c].todo # <<>> /\ MemoryOK(run[c]) /\ TodoOK(Rest(c)) /\ Opens(Rest(c))
  BY <1>1, Running
<1>4. ~Doing(c, "announce")
  BY <1>1, Waits
<1> DEFINE found == EntriesFor(s.tech.product)
           entries == SetToSeq(found)
           step(v) == [do |-> "match", key |-> <<s.asset, v, s.tech.version>>,
                       status |-> EvaluateEntry(s.tech.version, catalog[v].constraints)]
           steps == [n \in DOMAIN entries |-> step(entries[n])]
<1>5. \/ UNCHANGED left /\ Go(c, run[c], steps \o Rest(c))
      \/ Spend /\ Go(c, run[c], SkipTo(Rest(c), {"input"}))
  BY <1>2 DEF ListCatalog
<1>6. IsSeq(entries)
  <2>1. found \subseteq DOMAIN catalog /\ IsFiniteSet(DOMAIN catalog)
    BY DEF EntriesFor, IInv, Data, CatalogOK
  <2> HIDE DEF found
  <2>2. IsFiniteSet(found)
    BY <2>1, FS_Subset
  <2> QED
    BY <2>2, Enumerated
<1>7. \A v : Plain(step(v))
  BY EvaluateOK DEF Plain, StepOK, Kinds, Inner
<1> HIDE DEF entries, step, found
<1>8. PlainList(steps)
  <2>1. \A n \in DOMAIN entries : Plain(steps[n])
    BY <1>7
  <2>2. steps = [n \in DOMAIN entries |-> steps[n]]
    OBVIOUS
  <2> HIDE DEF steps
  <2> QED
    BY <1>6, <2>1, <2>2, EachPlain
<1> HIDE DEF steps
<1>9. CASE UNCHANGED left /\ Go(c, run[c], steps \o Rest(c))
  <2>1. TodoOK(steps \o Rest(c)) /\ Opens(steps \o Rest(c))
    BY <1>3, <1>8, PlainTodo, JoinedTodo
  <2>2. Goes(c, run[c], steps \o Rest(c))
    BY <1>3, <1>9, <2>1 DEF Goes
  <2> QED
    BY <1>1, <1>4, <1>9, <2>2, QuietStep
<1>10. CASE Spend /\ Go(c, run[c], SkipTo(Rest(c), {"input"}))
  <2>1. PICK t : t = SkipTo(Rest(c), {"input"})
    OBVIOUS
  <2>2. TodoOK(t) /\ Opens(t)
    BY <1>3, <2>1, SkippedTodo DEF Opens, Inner
  <2>3. Goes(c, run[c], t)
    BY <1>3, <1>10, <2>1, <2>2 DEF Goes
  <2> QED
    BY <1>1, <1>4, <1>10, <2>3, QuietStep DEF Spend
<1> QED
  BY <1>5, <1>9, <1>10

-----------------------------------------------------------------------------
(* Statements that write the cache, records, verdict events and matches.   *)

LEMMA GoingStep ==
    ASSUME IInv, NEW c \in Commands, NEW m, NEW t, Goes(c, m, t), ~Doing(c, "announce"),
           left' = left \/ left' = [left EXCEPT !.spare = @ - 1],
           scores' = scores, matches' = matches, events'.match = events.match,
           past'.lost = past.lost, past'.born = past.born, Data', EventsOK'
    PROVE  IInv'
<1>1. Scoring'
  BY GoesPasses, Went DEF IInv
<1>2. \A key : Waiting(key)' = Waiting(key)
  BY WentWaiting, NotWaiting DEF IInv, Scoring
<1>3. TellsOK'
  BY <1>2, SameTelling DEF IInv
<1> QED
  BY <1>1, <1>3 DEF IInv

LEMMA SameWorld == ASSUME WorldOK, clock' = clock, world' = world PROVE WorldOK'
BY DEF WorldOK
LEMMA SameRecords == ASSUME RecordsOK, records' = records, past'.saved = past.saved PROVE RecordsOK'
BY DEF RecordsOK, ValidRecord
LEMMA SameCache == ASSUME CacheOK, cache' = cache PROVE CacheOK'
BY DEF CacheOK
LEMMA SameCatalog == ASSUME CatalogOK, catalog' = catalog PROVE CatalogOK'
BY DEF CatalogOK, ValidVulnerability
LEMMA SameMatches == ASSUME MatchesOK, matches' = matches, past'.born = past.born PROVE MatchesOK'
BY DEF MatchesOK, ValidMatch

LEMMA WriteCacheStep == ASSUME IInv, NEW c \in Commands, WriteCache(c) PROVE IInv'
<1>1. Doing(c, "cache") /\ UNCHANGED <<clock, world, records, catalog, matches, scores, events, past>>
  BY DEF WriteCache
<1>2. PICK s : s = Next1(c)
  OBVIOUS
<1>3. /\ run[c].todo # <<>> /\ StepOK(s) /\ s.do = "cache"
      /\ MemoryOK(run[c]) /\ TodoOK(Rest(c)) /\ Opens(Rest(c))
  BY <1>1, <1>2, Running
<1>4. GoodList(s.recs)
  BY <1>3 DEF StepOK
<1>5. /\ Go(c, Collect(c, s.recs), Rest(c))
      /\ \/ cache' = Put(cache, <<s.prov, s.ind>>, [records |-> s.recs, expires |-> clock + ReputationTTL])
            /\ left' = left
         \/ left' = [left EXCEPT !.spare = @ - 1] /\ cache' = cache
  BY <1>2 DEF WriteCache, WithEntry, Spend
<1>6. PICK m : m = Collect(c, s.recs)
  OBVIOUS
<1>7. MemoryOK(m) /\ m.job = run[c].job /\ m.taken = run[c].taken
  BY <1>3, <1>4, <1>6, CollectOK
<1>8. Goes(c, m, Rest(c))
  BY <1>3, <1>5, <1>6, <1>7 DEF Goes
<1>9. CacheOK'
  <2>1. CASE cache' = cache
    BY <2>1, SameCache DEF IInv, Data
  <2>2. CASE cache' = Put(cache, <<s.prov, s.ind>>, [records |-> s.recs, expires |-> clock + ReputationTTL])
    <3>1. PICK key, row : key = <<s.prov, s.ind>> /\ row = [records |-> s.recs, expires |-> clock + ReputationTTL]
      OBVIOUS
    <3>2. row.records = s.recs
      BY <3>1
    <3>3. DOMAIN cache' = DOMAIN cache \cup {key} /\ cache'[key] = row
          /\ \A k \in DOMAIN cache : k # key => cache'[k] = cache[k]
      BY <2>2, <3>1 DEF Put
    <3> QED
      BY <1>4, <3>2, <3>3 DEF IInv, Data, CacheOK
  <2> QED
    BY <1>5, <2>1, <2>2
<1>10. Data'
  BY <1>1, <1>9, SameWorld, SameRecords, SameCatalog, SameMatches DEF IInv, Data, PastOK
<1>11. EventsOK'
  BY <1>1, SameEvents DEF IInv
<1>12. ~Doing(c, "announce")
  BY <1>1, Waits
<1> QED
  BY <1>1, <1>5, <1>8, <1>10, <1>11, <1>12, GoingStep

LEMMA InvalidateStep == ASSUME IInv, NEW c \in Commands, Invalidate(c) PROVE IInv'
<1>1. Doing(c, "invalidate") /\ UNCHANGED <<clock, world, records, catalog, matches, scores, events, past>>
      /\ Go(c, run[c], Rest(c))
  BY DEF Invalidate
<1>2. run[c].todo # <<>> /\ MemoryOK(run[c]) /\ TodoOK(Rest(c)) /\ Opens(Rest(c))
  BY <1>1, Running
<1>3. /\ left' = left \/ left' = [left EXCEPT !.spare = @ - 1]
      /\ cache' = cache \/ \E gone : cache' = [k \in DOMAIN cache \ {gone} |-> cache[k]]
  BY DEF Invalidate, WithoutEntry, Spend
<1>4. Goes(c, run[c], Rest(c))
  BY <1>1, <1>2 DEF Goes
<1>5. CacheOK'
  BY <1>3 DEF IInv, Data, CacheOK
<1>6. Data'
  BY <1>1, <1>5, SameWorld, SameRecords, SameCatalog, SameMatches DEF IInv, Data, PastOK
<1>7. EventsOK'
  BY <1>1, SameEvents DEF IInv
<1>8. ~Doing(c, "announce")
  BY <1>1, Waits
<1> QED
  BY <1>1, <1>3, <1>4, <1>6, <1>7, <1>8, GoingStep

(* The window of a record only widens.                                     *)
LEMMA SavedWider ==
    ASSUME RecordsOK, PastOK, NEW target, NEW r, GoodRecord(r), records' = Saved(target, r),
           past' = past \/ past' = [past EXCEPT !.saved = @ \union {<<RowKey(target, r), r.last>>}]
    PROVE  RecordsOK' /\ PastOK' /\ past'.lost = past.lost /\ past'.born = past.born
<1>1. PICK k : k = RowKey(target, r)
  OBVIOUS
<1>2. PICK old : old = IF k \in DOMAIN records THEN records[k] ELSE [first |-> Never, last |-> Never]
  OBVIOUS
<1>3. PICK row : row = [first |-> Earlier(old.first, r.first), last |-> Later(old.last, r.last),
                        expires |-> r.expires, at |-> r.at, data |-> r.data]
  OBVIOUS
<1>4. records' = Put(records, k, row)
  BY <1>1, <1>2, <1>3 DEF Saved
<1>5. DOMAIN records' = DOMAIN records \cup {k} /\ records'[k] = row
      /\ \A q \in DOMAIN records : q # k => records'[q] = records[q]
  BY <1>4 DEF Put
<1>6. old.last \in Int /\ (k \in DOMAIN records => old.last = records[k].last)
  <2>1. CASE k \in DOMAIN records
    BY <1>2, <2>1 DEF RecordsOK
  <2>2. CASE k \notin DOMAIN records
    BY <1>2, <2>2 DEF Never
  <2> QED
    BY <2>1, <2>2
<1>7. row.last = Later(old.last, r.last) /\ row.at = r.at
  BY <1>3
<1>8. r.last \in Int /\ r.at \in Nat
  BY DEF GoodRecord
<1>9. row.last \in Int /\ row.last >= old.last /\ row.last >= r.last
  BY <1>6, <1>7, <1>8, MaxOfTwo DEF Later
<1>10. row.at # Never
  BY <1>7, <1>8 DEF Never
<1>11. k[2] = r.provider /\ k[3] = r.ind /\ k[4] = r.verdict /\ k[5] = r.confidence
  BY <1>1 DEF RowKey
<1>12. ValidRecord(k)'
  BY <1>5, <1>10, <1>11 DEF ValidRecord, GoodRecord
<1>13. ASSUME NEW q \in DOMAIN records' PROVE ValidRecord(q)' /\ records'[q].last \in Int
  <2>1. CASE q = k
    BY <1>5, <1>9, <1>12, <2>1
  <2>2. CASE q # k
    <3>1. q \in DOMAIN records /\ records'[q] = records[q]
      BY <1>5, <1>13, <2>2
    <3> QED
      BY <3>1 DEF RecordsOK, ValidRecord
  <2> QED
    BY <2>1, <2>2
<1>14. PICK x : x = <<k, r.last>>
  OBVIOUS
<1>15. past = [born |-> past.born, lost |-> past.lost, saved |-> past.saved]
  BY DEF PastOK
<1>16. past' = past \/ past' = [born |-> past.born, lost |-> past.lost, saved |-> past.saved \union {x}]
  BY <1>1, <1>14, <1>15
<1>17. PastOK' /\ past'.lost = past.lost /\ past'.born = past.born /\ past'.saved \subseteq past.saved \cup {x}
  <2>1. CASE past' = past
    BY <1>15, <2>1 DEF PastOK
  <2>2. CASE past' = [born |-> past.born, lost |-> past.lost, saved |-> past.saved \union {x}]
    <3>1. past'.born = past.born /\ past'.lost = past.lost /\ past'.saved = past.saved \union {x}
      BY <2>2
    <3> QED
      BY <2>2, <3>1 DEF PastOK
  <2> QED
    BY <1>16, <2>1, <2>2
<1>18. x[1] = k /\ x[2] = r.last
  BY <1>14
<1>19. ASSUME NEW y \in past'.saved PROVE y[1] \in DOMAIN records' /\ y[2] \in Int /\ records'[y[1]].last >= y[2]
  <2>1. CASE y = x
    BY <1>5, <1>8, <1>9, <1>18, <2>1
  <2>2. CASE y # x
    <3>1. y \in past.saved
      BY <1>17, <1>19, <2>2
    <3>2. y[1] \in DOMAIN records /\ y[2] \in Int /\ records[y[1]].last >= y[2]
      BY <3>1 DEF RecordsOK
    <3>3. CASE y[1] = k
      <4>1. old.last >= y[2]
        BY <1>6, <3>2, <3>3
      <4>2. row.last >= y[2]
        BY <1>6, <1>9, <3>2, <4>1
      <4> QED
        BY <1>5, <3>2, <3>3, <4>2
    <3>4. CASE y[1] # k
      BY <1>5, <3>2, <3>4
    <3> QED
      BY <3>3, <3>4
  <2> QED
    BY <2>1, <2>2
<1>20. RecordsOK'
  BY <1>13, <1>19 DEF RecordsOK
<1> QED
  BY <1>17, <1>20

LEMMA SaveRecordStep == ASSUME IInv, NEW c \in Commands, SaveRecord(c) PROVE IInv'
<1>1. Doing(c, "save") /\ Next1(c).n <= Len(run[c].got) /\ UNCHANGED <<clock, world, cache, catalog, matches, scores, events>>
  BY DEF SaveRecord
<1>2. PICK s : s = Next1(c)
  OBVIOUS
<1>3. /\ run[c].todo # <<>> /\ StepOK(s) /\ s.do = "save"
      /\ MemoryOK(run[c]) /\ TodoOK(Rest(c)) /\ Opens(Rest(c))
  BY <1>1, <1>2, Running
<1>4. s = [do |-> "save", n |-> s.n, target |-> s.target, ind |-> s.ind] /\ s.n \in Nat \ {0}
  BY <1>3 DEF StepOK
<1>5. PICK r : r = run[c].got[s.n]
  OBVIOUS
<1>6. GoodRecord(r)
  <2>1. GoodList(run[c].got)
    BY <1>3 DEF MemoryOK
  <2>2. Len(run[c].got) \in Nat /\ DOMAIN run[c].got = 1..Len(run[c].got)
    BY <2>1, SeqFacts DEF GoodList
  <2>3. s.n \in DOMAIN run[c].got
    BY <1>1, <1>2, <1>4, <2>2
  <2> QED
    BY <1>5, <2>1, <2>3 DEF GoodList
<1>7. PICK x : x = [s EXCEPT !.n = @ + 1]
  OBVIOUS
<1>8. /\ Go(c, run[c], <<x>> \o Rest(c))
      /\ \/ /\ records' = Saved(s.target, r) /\ left' = left
            /\ past' = past \/ past' = [past EXCEPT !.saved = @ \union {<<RowKey(s.target, r), r.last>>}]
         \/ left' = [left EXCEPT !.spare = @ - 1] /\ records' = records /\ past' = past
  BY <1>2, <1>5, <1>7 DEF SaveRecord, Spend
<1>9. StepOK(x) /\ x.do = "save"
  <2>1. x = [do |-> "save", n |-> s.n + 1, target |-> s.target, ind |-> s.ind]
    BY <1>4, <1>7
  <2>2. s.n + 1 \in Nat \ {0}
    BY <1>4
  <2> QED
    BY <2>1, <2>2 DEF StepOK, Kinds
<1>10. TodoOK(<<x>> \o Rest(c)) /\ Opens(<<x>> \o Rest(c))
  BY <1>3, <1>9, OneMore DEF Inner
<1>11. Goes(c, run[c], <<x>> \o Rest(c))
  BY <1>3, <1>8, <1>10 DEF Goes
<1>12. RecordsOK' /\ PastOK' /\ past'.lost = past.lost /\ past'.born = past.born
  <2>1. RecordsOK /\ PastOK
    BY DEF IInv, Data
  <2>2. CASE records' = records /\ past' = past
    BY <2>1, <2>2, SameRecords DEF PastOK
  <2>3. CASE /\ records' = Saved(s.target, r)
             /\ past' = past \/ past' = [past EXCEPT !.saved = @ \union {<<RowKey(s.target, r), r.last>>}]
    BY <1>6, <2>1, <2>3, SavedWider
  <2> QED
    BY <1>8, <2>2, <2>3
<1>13. Data'
  BY <1>1, <1>12, SameWorld, SameCache, SameCatalog, SameMatches DEF IInv, Data
<1>14. EventsOK'
  BY <1>1, SameEvents DEF IInv
<1>15. ~Doing(c, "announce")
  BY <1>1, Waits
<1> QED
  BY <1>1, <1>8, <1>11, <1>12, <1>13, <1>14, <1>15, GoingStep

(* A bag with an event more.                                               *)
LEMMA Added ==
    ASSUME NEW B, NEW e, NEW D, D = B (+) SetToBag({e})
    PROVE  DOMAIN D = DOMAIN B \cup {e}
BY DEF (+), SetToBag

LEMMA EventAdded ==
    ASSUME EventsOK, NEW kind \in {"verdict", "match", "rise"}, NEW e, RecordEvent(kind, e)
    PROVE  /\ events' = [verdict |-> events'.verdict, match |-> events'.match, rise |-> events'.rise]
           /\ events'[kind] = events[kind] (+) SetToBag({e})
           /\ \A k \in {"verdict", "match", "rise"} : k # kind => events'[k] = events[k]
<1>1. PICK B : B = events[kind] (+) SetToBag({e})
  OBVIOUS
<1>2. events' = [events EXCEPT ![kind] = B]
  BY <1>1 DEF RecordEvent
<1>3. events = [verdict |-> events.verdict, match |-> events.match, rise |-> events.rise]
  BY DEF EventsOK
<1>4. CASE kind = "verdict"
  <2>1. events' = [verdict |-> B, match |-> events.match, rise |-> events.rise]
    BY <1>2, <1>3, <1>4
  <2> QED
    BY <1>1, <1>4, <2>1
<1>5. CASE kind = "match"
  <2>1. events' = [verdict |-> events.verdict, match |-> B, rise |-> events.rise]
    BY <1>2, <1>3, <1>5
  <2> QED
    BY <1>1, <1>5, <2>1
<1>6. CASE kind = "rise"
  <2>1. events' = [verdict |-> events.verdict, match |-> events.match, rise |-> B]
    BY <1>2, <1>3, <1>6
  <2> QED
    BY <1>1, <1>6, <2>1
<1> QED
  BY <1>4, <1>5, <1>6

LEMMA SameRises ==
    ASSUME RisesTraceable, events'.rise = events.rise, scores \subseteq scores'
    PROVE  RisesTraceable'
<1> SUFFICES ASSUME NEW e \in DOMAIN events.rise
             PROVE  \E q, r \in RowsOf(e.entity)' :
                       q.score = e.previous /\ r.score = e.new /\ q.at < r.at /\ e.previous < e.new
  BY DEF RisesTraceable
<1>1. RowsOf(e.entity) \subseteq RowsOf(e.entity)'
  BY DEF RowsOf
<1>2. \E q, r \in RowsOf(e.entity) : q.score = e.previous /\ r.score = e.new /\ q.at < r.at /\ e.previous < e.new
  BY DEF RisesTraceable
<1> QED
  BY <1>1, <1>2

LEMMA EmitVerdictStep == ASSUME IInv, NEW c \in Commands, EmitVerdictChange(c) PROVE IInv'
<1>1. Doing(c, "save") /\ UNCHANGED <<clock, world, records, cache, catalog, matches, scores, past>>
  BY DEF EmitVerdictChange
<1>2. /\ run[c].todo # <<>> /\ MemoryOK(run[c]) /\ TodoOK(Rest(c)) /\ Opens(Rest(c))
  BY <1>1, Running
<1>3. PICK after, best, e :
         /\ after \in Verdicts
         /\ e.type \in {"new_malicious_reputation", "verdict_changed"} /\ e.new = after
         /\ Go(c, [run[c] EXCEPT !.best = best, !.got = <<>>, !.before = ""], Rest(c))
         /\ \/ events' = events /\ left' = left
            \/ RecordEvent("verdict", e) /\ left' = left
            \/ left' = [left EXCEPT !.spare = @ - 1] /\ events' = events
  <2> DEFINE fresh == FreshRecords(run[c].got)
             after == Aggregate(fresh)
             before == run[c].before
             best == IF Rank(after) > Rank(run[c].best) THEN after ELSE run[c].best
             type == IF after = "malicious" THEN "new_malicious_reputation" ELSE "verdict_changed"
             e == [type |-> type, ind |-> Next1(c).ind, previous |-> before, new |-> after,
                   confidence |-> AggregateConfidence(fresh)]
  <2>1. after \in Verdicts
    BY AggregateOK
  <2>2. type \in {"new_malicious_reputation", "verdict_changed"}
    OBVIOUS
  <2>3. e.type = type /\ e.new = after
    OBVIOUS
  <2>4. [run[c] EXCEPT !.best = IF Rank(after) > Rank(@) THEN after ELSE @, !.got = <<>>, !.before = ""]
          = [run[c] EXCEPT !.best = best, !.got = <<>>, !.before = ""]
    OBVIOUS
  <2>5. /\ Go(c, [run[c] EXCEPT !.best = IF Rank(after) > Rank(@) THEN after ELSE @, !.got = <<>>, !.before = ""], Rest(c))
        /\ \/ events' = events /\ left' = left
           \/ RecordEvent("verdict", e) /\ left' = left
           \/ left' = [left EXCEPT !.spare = @ - 1] /\ events' = events
    BY DEF EmitVerdictChange, Spend
  <2> HIDE DEF after, best, type, e, before, fresh
  <2> QED
    BY <2>1, <2>2, <2>3, <2>4, <2>5
<1>4. PICK m, got, blank : m = [run[c] EXCEPT !.best = best, !.got = got, !.before = blank] /\ got = <<>> /\ blank = ""
  OBVIOUS
<1>5. m = MemoryIs(run[c], run[c].ds, blank, got, best, run[c].statuses, run[c].score, run[c].prev,
                   run[c].at, run[c].taken)
  BY <1>2, <1>4 DEF MemoryOK, MemoryIs
<1>6. GoodDs(run[c].ds) /\ run[c].taken \subseteq ScoreSet /\ GoodList(got)
  BY <1>2, <1>4, NoRecords DEF MemoryOK
<1>7. MemoryOK(m) /\ m.job = run[c].job /\ m.taken = run[c].taken
  BY <1>2, <1>5, <1>6, Remembers
<1>8. Goes(c, m, Rest(c))
  BY <1>2, <1>3, <1>4, <1>7 DEF Goes
<1>9. EventsOK' /\ events'.match = events.match
  <2>1. CASE events' = events
    BY <1>1, <2>1, SameEvents DEF IInv
  <2>2. CASE RecordEvent("verdict", e)
    <3>1. /\ events' = [verdict |-> events'.verdict, match |-> events'.match, rise |-> events'.rise]
          /\ events'.verdict = events.verdict (+) SetToBag({e})
          /\ events'.match = events.match /\ events'.rise = events.rise
      BY <2>2, EventAdded DEF IInv
    <3>2. DOMAIN events'.verdict = DOMAIN events.verdict \cup {e}
      BY <3>1, Added
    <3>3. ValidVerdictEvent(e)
      BY <1>3 DEF ValidVerdictEvent
    <3>4. \A x \in DOMAIN events'.verdict : ValidVerdictEvent(x)
      BY <3>2, <3>3 DEF IInv, EventsOK
    <3>5. RisesTraceable'
      BY <1>1, <3>1, SameRises DEF IInv, EventsOK
    <3> QED
      BY <3>1, <3>4, <3>5 DEF EventsOK, ValidVerdictEvent
  <2> QED
    BY <1>3, <2>1, <2>2
<1>10. Data'
  BY <1>1, SameData DEF IInv
<1>11. ~Doing(c, "announce")
  BY <1>1, Waits
<1> QED
  BY <1>1, <1>3, <1>8, <1>9, <1>10, <1>11, GoingStep

-----------------------------------------------------------------------------
(* Matches and their announcement.                                         *)

(* A match is written: what was due stays due, and a new one may be due.   *)
LEMMA Inserted ==
    ASSUME MatchesOK, PastOK, NEW key, NEW status \in MatchStatuses, matches' = Put(matches, key, status),
           past' = [past EXCEPT !.born = IF key \in DOMAIN matches THEN @ ELSE Put(@, key, status)]
    PROVE  /\ MatchesOK' /\ PastOK' /\ past'.lost = past.lost /\ past'.saved = past.saved
           /\ \A k : k # key => Due(k)' = Due(k)
           /\ key \in DOMAIN matches => Due(key)' = Due(key)
           /\ key \notin DOMAIN matches => ~Due(key) /\ Due(key)' = (status \in Announced)
<1>1. past = [born |-> past.born, lost |-> past.lost, saved |-> past.saved]
  BY DEF PastOK
<1>2. PICK born : born = IF key \in DOMAIN matches THEN past.born ELSE Put(past.born, key, status)
  OBVIOUS
<1>3. past' = [born |-> born, lost |-> past.lost, saved |-> past.saved]
  BY <1>1, <1>2
<1>4. past'.born = born /\ past'.lost = past.lost /\ past'.saved = past.saved
  BY <1>3
<1>5. PastOK'
  BY <1>3, <1>4 DEF PastOK
<1>6. /\ DOMAIN matches' = DOMAIN matches \cup {key} /\ matches'[key] = status
      /\ \A k \in DOMAIN matches : k # key => matches'[k] = matches[k]
  BY DEF Put
<1>7. DOMAIN past.born = DOMAIN matches
  BY DEF MatchesOK
<1>8. CASE key \in DOMAIN matches
  <2>1. born = past.born /\ DOMAIN matches' = DOMAIN matches
    BY <1>2, <1>6, <1>8
  <2>2. MatchesOK'
    BY <1>4, <1>6, <1>7, <2>1 DEF MatchesOK, ValidMatch
  <2>3. \A k : Due(k)' = Due(k)
    BY <1>4, <2>1 DEF Due
  <2> QED
    BY <1>4, <1>5, <1>8, <2>2, <2>3
<1>9. CASE key \notin DOMAIN matches
  <2>1. born = Put(past.born, key, status)
    BY <1>2, <1>9
  <2>2. DOMAIN born = DOMAIN matches \cup {key} /\ born[key] = status
        /\ \A k \in DOMAIN matches : k # key => born[k] = past.born[k]
    BY <1>7, <2>1 DEF Put
  <2>3. MatchesOK'
    BY <1>4, <1>6, <2>2 DEF MatchesOK, ValidMatch
  <2>4. \A k : k # key => Due(k)' = Due(k)
    BY <1>4, <1>6, <2>2 DEF Due
  <2>5. ~Due(key) /\ Due(key)' = (status \in Announced)
    BY <1>4, <1>6, <1>9, <2>2 DEF Due
  <2> QED
    BY <1>4, <1>5, <1>9, <2>3, <2>4, <2>5
<1> QED
  BY <1>8, <1>9

LEMMA UpsertMatchStep == ASSUME IInv, NEW c \in Commands, UpsertMatch(c) PROVE IInv'
<1>1. Doing(c, "match") /\ UNCHANGED <<clock, world, records, cache, catalog, scores, events>>
  BY DEF UpsertMatch
<1>2. PICK s : s = Next1(c)
  OBVIOUS
<1>3. /\ run[c].todo # <<>> /\ StepOK(s) /\ s.do = "match"
      /\ MemoryOK(run[c]) /\ TodoOK(Rest(c)) /\ Opens(Rest(c))
  BY <1>1, <1>2, Running
<1>4. s = [do |-> "match", key |-> s.key, status |-> s.status] /\ s.status \in MatchStatuses
  BY <1>3 DEF StepOK
<1>5. ~Doing(c, "announce")
  BY <1>1, Waits
<1>6. PICK m, done : m = [run[c] EXCEPT !.statuses = done] /\ done = run[c].statuses \union {s.status}
  OBVIOUS
<1>7. m = MemoryIs(run[c], run[c].ds, run[c].before, run[c].got, run[c].best, done, run[c].score, run[c].prev,
                   run[c].at, run[c].taken)
  BY <1>3, <1>6 DEF MemoryOK, MemoryIs
<1>8. MemoryOK(m) /\ m.job = run[c].job /\ m.taken = run[c].taken
  <2>1. GoodDs(run[c].ds) /\ GoodList(run[c].got) /\ run[c].taken \subseteq ScoreSet
    BY <1>3 DEF MemoryOK
  <2> QED
    BY <1>3, <1>7, <2>1, Remembers
<1>9. PICK x : x = [s EXCEPT !.do = "announce"]
  OBVIOUS
<1>10. x = [do |-> "announce", key |-> s.key, status |-> s.status]
  BY <1>4, <1>9
<1>11. EventsOK'
  BY <1>1, SameEvents DEF IInv
<1>12. \/ /\ matches' = Put(matches, s.key, s.status) /\ left' = left
          /\ past' = [past EXCEPT !.born = IF s.key \in DOMAIN matches THEN @ ELSE Put(@, s.key, s.status)]
          /\ Go(c, m, (IF ToAnnounce(s.key, s.status) THEN <<x>> ELSE <<>>) \o Rest(c))
       \/ left' = [left EXCEPT !.spare = @ - 1] /\ Go(c, run[c], Rest(c)) /\ UNCHANGED <<matches, past>>
  BY <1>2, <1>6, <1>9 DEF UpsertMatch, WithMatch, Spend
<1>13. CASE left' = [left EXCEPT !.spare = @ - 1] /\ Go(c, run[c], Rest(c)) /\ UNCHANGED <<matches, past>>
  <2>1. Goes(c, run[c], Rest(c))
    BY <1>3, <1>13 DEF Goes
  <2>2. Data'
    BY <1>1, <1>13, SameData DEF IInv
  <2> QED
    BY <1>1, <1>5, <1>11, <1>13, <2>1, <2>2, GoingStep
<1>14. CASE /\ matches' = Put(matches, s.key, s.status) /\ left' = left
            /\ past' = [past EXCEPT !.born = IF s.key \in DOMAIN matches THEN @ ELSE Put(@, s.key, s.status)]
            /\ Go(c, m, (IF ToAnnounce(s.key, s.status) THEN <<x>> ELSE <<>>) \o Rest(c))
  <2>1. /\ MatchesOK' /\ PastOK' /\ past'.lost = past.lost /\ past'.saved = past.saved
        /\ \A k : k # s.key => Due(k)' = Due(k)
        /\ s.key \in DOMAIN matches => Due(s.key)' = Due(s.key)
        /\ s.key \notin DOMAIN matches => ~Due(s.key) /\ Due(s.key)' = (s.status \in Announced)
    BY <1>4, <1>14, Inserted DEF IInv, Data
  <2>2. Data'
    BY <1>1, <2>1, SameWorld, SameRecords, SameCache, SameCatalog DEF IInv, Data
  <2>3. \A k : Told(k)' = Told(k)
    BY <1>1 DEF Told
  <2>4. \A k : TellOK(Told(k), events.match, Waiting(k), k \in past.lost, Due(k))
    BY DEF IInv, TellsOK
  <2>5. CASE ToAnnounce(s.key, s.status)
    <3>1. s.key \notin DOMAIN matches /\ s.status \in Announced
      BY <2>5 DEF ToAnnounce
    <3>2. PICK t : t = <<x>> \o Rest(c)
      OBVIOUS
    <3>3. Go(c, m, t)
      BY <1>14, <2>5, <3>2
    <3>4. StepOK(x) /\ x.do = "announce" /\ x.key = s.key
      BY <1>4, <1>10, <3>1 DEF StepOK, Kinds
    <3>5. TodoOK(<<x>>) /\ Ends(<<x>>) /\ <<x>> # <<>> /\ <<x>>[1] = x
      BY <3>4, OneTodo
    <3>6. TodoOK(t) /\ t # <<>> /\ t[1] = x
      BY <1>3, <3>2, <3>5, JoinedTodo
    <3>7. Passes(c, m, t)
      BY <1>3, <1>8, <3>3, <3>4, <3>6 DEF Passes, Calm
    <3>8. Scoring'
      BY <1>1, <1>14, <3>7, Went DEF IInv
    <3>9. PICK n : n = [m EXCEPT !.todo = t]
      OBVIOUS
    <3>10. run' = [run EXCEPT ![c] = n] /\ n.todo = t
      <4>1. run' = [run EXCEPT ![c] = n]
        BY <3>3, <3>6, <3>9 DEF Go
      <4>2. n.todo = t
        BY <1>7, <3>9 DEF MemoryIs
      <4> QED
        BY <4>1, <4>2
    <3>11. run = [d \in Commands |-> run[d]]
      BY DEF IInv, Scoring, RunsOK
    <3>12. run'[c] = n /\ \A d \in Commands : d # c => run'[d] = run[d]
      BY <3>10, <3>11
    <3>13. Head(t) = x
      BY <3>6, OpensHead
    <3>14. \A k : \A d \in Commands : d # c => (d \in Waiting(k)' <=> d \in Waiting(k))
      BY <3>12 DEF Waiting, Doing, Next1
    <3>15. \A k : c \in Waiting(k)' <=> k = s.key
      BY <3>4, <3>6, <3>10, <3>12, <3>13 DEF Waiting, Doing, Next1
    <3>16. \A k : Waiting(k)' \subseteq Commands /\ Waiting(k) \subseteq Commands /\ c \notin Waiting(k)
      BY <1>5 DEF Waiting
    <3>17. \A k : k # s.key => Waiting(k)' = Waiting(k)
      <4> SUFFICES ASSUME NEW k, k # s.key PROVE Waiting(k)' = Waiting(k)
        OBVIOUS
      <4>1. \A d \in Commands : d \in Waiting(k)' <=> d \in Waiting(k)
        BY <3>14, <3>15, <3>16
      <4> QED
        BY <3>16, <4>1
    <3>18. Told(s.key) = {} /\ Waiting(s.key) = {} /\ s.key \notin past.lost
      BY <2>1, <2>4, <3>1 DEF TellOK
    <3>19. Waiting(s.key)' = {c}
      <4>1. \A d \in Commands : d \in Waiting(s.key)' <=> d = c
        BY <3>14, <3>15, <3>18
      <4> QED
        BY <3>16, <4>1
    <3>20. ASSUME NEW k PROVE TellOK(Told(k)', events'.match, Waiting(k)', k \in past'.lost, Due(k)')
      <4>1. CASE k = s.key
        BY <2>1, <2>3, <3>1, <3>18, <3>19, <4>1 DEF TellOK
      <4>2. CASE k # s.key
        <5>1. Told(k)' = Told(k) /\ Waiting(k)' = Waiting(k) /\ Due(k)' = Due(k) /\ past'.lost = past.lost /\ events' = events
          BY <1>1, <2>1, <2>3, <3>17, <4>2
        <5> QED
          BY <2>4, <5>1
      <4> QED
        BY <4>1, <4>2
    <3> QED
      BY <1>11, <2>2, <3>8, <3>20 DEF IInv, TellsOK
  <2>6. CASE ~ToAnnounce(s.key, s.status)
    <3>1. PICK t : t = <<>> \o Rest(c)
      OBVIOUS
    <3>2. t = Rest(c)
      <4>1. Rest(c) \in Seq(ToSet(Rest(c)))
        BY <1>3 DEF TodoOK, IsSeq
      <4> QED
        BY <3>1, <4>1
    <3>3. Goes(c, m, Rest(c))
      BY <1>3, <1>8, <1>14, <2>6, <3>1, <3>2 DEF Goes
    <3>4. Scoring'
      BY <1>1, <1>14, <3>3, GoesPasses, Went DEF IInv
    <3>5. \A k : Waiting(k)' = Waiting(k)
      BY <1>5, <3>3, WentWaiting, NotWaiting DEF IInv, Scoring
    <3>6. s.key \in DOMAIN matches \/ s.status \notin Announced
      BY <2>6 DEF ToAnnounce
    <3>7. \A k : Due(k)' = Due(k)
      <4>1. CASE s.key \in DOMAIN matches
        BY <2>1, <4>1
      <4>2. CASE s.key \notin DOMAIN matches
        <5>1. Due(s.key)' = FALSE /\ Due(s.key) = FALSE
          BY <2>1, <3>6, <4>2 DEF Due
        <5> QED
          BY <2>1, <5>1
      <4> QED
        BY <4>1, <4>2
    <3>8. TellsOK'
      BY <1>1, <2>1, <2>3, <2>4, <3>5, <3>7 DEF TellsOK
    <3> QED
      BY <1>11, <2>2, <3>4, <3>8 DEF IInv
  <2> QED
    BY <2>5, <2>6
<1> QED
  BY <1>12, <1>13, <1>14

LEMMA RecordMatchStep == ASSUME IInv, NEW c \in Commands, RecordMatchEvent(c) PROVE IInv'
<1>1. Doing(c, "announce") /\ UNCHANGED <<clock, world, records, cache, catalog, matches, scores>> /\ Go(c, run[c], Rest(c))
  BY DEF RecordMatchEvent
<1>2. PICK s : s = Next1(c)
  OBVIOUS
<1>3. /\ run[c].todo # <<>> /\ MemoryOK(run[c]) /\ TodoOK(Rest(c)) /\ Opens(Rest(c))
  BY <1>1, Running
<1>4. Goes(c, run[c], Rest(c))
  BY <1>1, <1>3 DEF Goes
<1>5. PICK e : e = [key |-> s.key, new |-> s.status]
  OBVIOUS
<1>6. e.key = s.key
  BY <1>5
<1>7. \/ RecordEvent("match", e) /\ left' = left /\ past' = past
      \/ left' = [left EXCEPT !.spare = @ - 1] /\ events' = events
         /\ past' = [past EXCEPT !.lost = @ \union {s.key}]
  BY <1>2, <1>5 DEF RecordMatchEvent, Spend
<1>8. Scoring'
  BY <1>1, <1>4, <1>7, GoesPasses, Went DEF IInv
<1>9. \A k : Waiting(k)' = Waiting(k) \ {c}
  BY <1>4, WentWaiting DEF IInv, Scoring
<1>10. \A k : c \in Waiting(k) <=> k = s.key
  BY <1>1, <1>2 DEF Waiting
<1>11. \A k : TellOK(Told(k), events.match, Waiting(k), k \in past.lost, Due(k))
  BY DEF IInv, TellsOK
<1>12. Due(s.key) /\ Told(s.key) = {} /\ (\E d : Waiting(s.key) = {d}) /\ s.key \notin past.lost
  <2>1. Waiting(s.key) # {}
    BY <1>10
  <2> QED
    BY <1>11, <2>1 DEF TellOK
<1>13. Waiting(s.key) = {c}
  BY <1>10, <1>12
<1>14. Waiting(s.key)' = {} /\ \A k : k # s.key => Waiting(k)' = Waiting(k)
  <2>1. \A k : k # s.key => c \notin Waiting(k)
    BY <1>10
  <2>2. Waiting(s.key)' = {}
    BY <1>9, <1>13
  <2>3. \A k : c \notin Waiting(k) => Waiting(k) \ {c} = Waiting(k)
    OBVIOUS
  <2> QED
    BY <1>9, <2>1, <2>2, <2>3
<1>15. CASE RecordEvent("match", e) /\ left' = left /\ past' = past
  <2>1. /\ events' = [verdict |-> events'.verdict, match |-> events'.match, rise |-> events'.rise]
        /\ events'.match = events.match (+) SetToBag({e})
        /\ events'.verdict = events.verdict /\ events'.rise = events.rise
    BY <1>15, EventAdded DEF IInv
  <2>2. /\ DOMAIN events'.match = DOMAIN events.match \cup {e}
        /\ \A x \in DOMAIN events.match : x # e => events'.match[x] = events.match[x] + 0
        /\ e \notin DOMAIN events.match => events'.match[e] = 1
    <3>1. PICK B, D : B = events.match /\ D = events'.match
      OBVIOUS
    <3>2. D = B (+) SetToBag({e})
      BY <2>1, <3>1
    <3>3. /\ DOMAIN D = DOMAIN B \cup {e}
          /\ \A x \in DOMAIN B : x # e => D[x] = B[x] + 0
          /\ e \notin DOMAIN B => D[e] = 1
      <4>1. D = [x \in DOMAIN B \cup {e} |-> (IF x \in DOMAIN B THEN B[x] ELSE 0) + (IF x \in {e} THEN 1 ELSE 0)]
        BY <3>2 DEF (+), SetToBag
      <4> QED
        BY <4>1
    <3> QED
      BY <3>1, <3>3
  <2>3. e \notin DOMAIN events.match
    BY <1>6, <1>12 DEF Told
  <2>4. Told(s.key)' = {e} /\ events'.match[e] = 1
    BY <1>6, <1>12, <2>2, <2>3 DEF Told
  <2>5. ASSUME NEW k, k # s.key PROVE Told(k)' = Told(k) /\ \A x \in Told(k) : events'.match[x] = events.match[x] + 0
    BY <1>6, <2>2, <2>5 DEF Told
  <2>6. \A k : Due(k)' = Due(k)
    BY <1>1, <1>15 DEF Due
  <2>7. ASSUME NEW k PROVE TellOK(Told(k)', events'.match, Waiting(k)', k \in past'.lost, Due(k)')
    <3>1. CASE k = s.key
      BY <1>12, <1>14, <1>15, <2>4, <2>6, <3>1 DEF TellOK, ToldOnce
    <3>2. CASE k # s.key
      <4>1. ToldOnce(Told(k), events.match) => ToldOnce(Told(k)', events'.match)
        <5> SUFFICES ASSUME NEW y, Told(k) = {y}, events.match[y] = 1 PROVE ToldOnce(Told(k)', events'.match)
          BY DEF ToldOnce
        <5>1. Told(k)' = {y} /\ events'.match[y] = 1
          BY <2>5, <3>2
        <5> QED
          BY <5>1 DEF ToldOnce
      <4>2. Told(k)' = Told(k) /\ Waiting(k)' = Waiting(k) /\ Due(k)' = Due(k) /\ past' = past
        BY <1>14, <1>15, <2>5, <2>6, <3>2
      <4>3. TellOK(Told(k), events.match, Waiting(k), k \in past.lost, Due(k))
        BY <1>11
      <4> QED
        BY <4>1, <4>2, <4>3 DEF TellOK
    <3> QED
      BY <3>1, <3>2
  <2>8. TellsOK'
    BY <2>7 DEF TellsOK
  <2>9. EventsOK'
    <3>1. RisesTraceable'
      BY <1>1, <2>1, SameRises DEF IInv, EventsOK
    <3> QED
      BY <2>1, <3>1 DEF IInv, EventsOK, ValidVerdictEvent
  <2>10. Data'
    BY <1>1, <1>15, SameData DEF IInv
  <2> QED
    BY <1>8, <2>8, <2>9, <2>10 DEF IInv
<1>16. CASE /\ left' = [left EXCEPT !.spare = @ - 1] /\ events' = events
            /\ past' = [past EXCEPT !.lost = @ \union {s.key}]
  <2>1. past' = [born |-> past.born, lost |-> past.lost \union {s.key}, saved |-> past.saved]
    BY <1>16 DEF IInv, Data, PastOK
  <2>2. past'.born = past.born /\ past'.lost = past.lost \union {s.key} /\ past'.saved = past.saved
    BY <2>1
  <2>3. \A k : Due(k)' = Due(k) /\ Told(k)' = Told(k)
    BY <1>1, <1>16, <2>2 DEF Due, Told
  <2>4. ASSUME NEW k PROVE TellOK(Told(k)', events'.match, Waiting(k)', k \in past'.lost, Due(k)')
    <3>1. CASE k = s.key
      BY <1>12, <1>14, <2>2, <2>3, <3>1 DEF TellOK
    <3>2. CASE k # s.key
      <4>1. Told(k)' = Told(k) /\ Waiting(k)' = Waiting(k) /\ Due(k)' = Due(k) /\ (k \in past'.lost <=> k \in past.lost) /\ events' = events
        BY <1>14, <1>16, <2>2, <2>3, <3>2
      <4>2. TellOK(Told(k), events.match, Waiting(k), k \in past.lost, Due(k))
        BY <1>11
      <4> QED
        BY <4>1, <4>2 DEF TellOK
    <3> QED
      BY <3>1, <3>2
  <2>5. TellsOK'
    BY <2>4 DEF TellsOK
  <2>6. EventsOK'
    BY <1>1, <1>16, SameEvents DEF IInv
  <2>7. PastOK'
    BY <2>1, <2>2 DEF PastOK
  <2>8. Data'
    BY <1>1, <2>2, <2>7, SameWorld, SameRecords, SameCache, SameCatalog, SameMatches DEF IInv, Data
  <2> QED
    BY <1>8, <2>5, <2>6, <2>8 DEF IInv
<1> QED
  BY <1>7, <1>15, <1>16

-----------------------------------------------------------------------------
(* Scores.                                                                 *)

(* One stamp more for an entity.                                           *)
LEMMA Stamped ==
    ASSUME LeftOK, NEW e, NEW stamps, stamps = Put(left.stamps, e, StampOf(e)), NEW spare,
           left' = [jobs |-> left.jobs, spare |-> spare, stamps |-> stamps]
    PROVE  /\ LeftOK' /\ left'.jobs = left.jobs /\ left'.stamps = stamps
           /\ \A x : StampIn(left.stamps, x) \in Int /\ StampIn(left'.stamps, x) \in Int
           /\ \A x : StampIn(left.stamps, x) <= StampIn(left'.stamps, x)
           /\ StampOf(e) = StampIn(left.stamps, e) /\ StampOf(e) < StampIn(left'.stamps, e)
<1>1. left'.jobs = left.jobs /\ left'.stamps = stamps /\ left'.spare = spare
  OBVIOUS
<1>2. \A x : StampIn(left.stamps, x) \in Int
  BY Stamps DEF LeftOK
<1>3. StampOf(e) = StampIn(left.stamps, e)
  BY DEF StampOf, StampIn
<1>4. DOMAIN stamps = DOMAIN left.stamps \cup {e} /\ stamps[e] = StampOf(e)
      /\ \A x \in DOMAIN left.stamps : x # e => stamps[x] = left.stamps[x]
  BY DEF Put
<1>5. \A x \in DOMAIN stamps : stamps[x] \in Int
  BY <1>2, <1>3, <1>4 DEF LeftOK
<1>6. LeftOK'
  BY <1>1, <1>5 DEF LeftOK
<1>7. \A x : x # e => StampIn(stamps, x) = StampIn(left.stamps, x)
  BY <1>4 DEF StampIn
<1>8. StampIn(stamps, e) = 1 + StampOf(e)
  BY <1>4 DEF StampIn
<1>9. \A x : StampIn(stamps, x) \in Int /\ StampIn(left.stamps, x) <= StampIn(stamps, x)
  <2> SUFFICES ASSUME NEW x PROVE StampIn(stamps, x) \in Int /\ StampIn(left.stamps, x) <= StampIn(stamps, x)
    OBVIOUS
  <2>1. CASE x = e
    BY <1>2, <1>3, <1>8, <2>1
  <2>2. CASE x # e
    BY <1>2, <1>7, <2>2
  <2> QED
    BY <2>1, <2>2
<1> QED
  BY <1>1, <1>2, <1>3, <1>6, <1>8, <1>9

(* The latest score of an entity is a stored one, from before the next stamp. *)
LEMMA LatestStored ==
    ASSUME LeftOK, ScoresOK, NEW e, Latest(e) # Never
    PROVE  \E q \in scores : q.entity = e /\ q.score = Latest(e) /\ q.at < StampIn(left.stamps, e)
<1> DEFINE R == RowsOf(e)
           T == StampIn(left.stamps, e)
           D == {T - r.at : r \in R}
<1>1. R # {}
  BY DEF Latest
<1>2. T \in Int
  BY Stamps DEF LeftOK
<1>3. \A r \in R : r \in scores /\ r.entity = e /\ r.at \in Int /\ r.at < T
  BY DEF RowsOf, ScoresOK
<1> HIDE DEF T, R
<1>4. D \in SUBSET Nat /\ D # {}
  BY <1>1, <1>2, <1>3
<1>5. Min(D) \in D /\ \A n \in D : Min(D) <= n
  <2> HIDE DEF D
  <2> QED
    BY <1>4, Least
<1>6. PICK r \in R : Min(D) = T - r.at
  BY <1>5
<1>7. \A q \in R : q.at <= r.at
  <2> SUFFICES ASSUME NEW q \in R PROVE q.at <= r.at
    OBVIOUS
  <2>1. T - q.at \in D
    OBVIOUS
  <2>2. T - r.at <= T - q.at
    <3> HIDE DEF D
    <3> QED
      BY <1>5, <1>6, <2>1
  <2> QED
    BY <1>2, <1>3, <2>2
<1>8. PICK m : m = CHOOSE x \in R : \A q \in R : q.at <= x.at
  OBVIOUS
<1>9. m \in R
  BY <1>7, <1>8
<1>10. Latest(e) = m.score
  BY <1>1, <1>8 DEF Latest, R
<1> QED
  BY <1>3, <1>9, <1>10 DEF T

LEMMA ReadRiskStep == ASSUME IInv, NEW c \in Commands, ReadRiskInput(c) PROVE IInv'
<1>1. Doing(c, "input") /\ UNCHANGED inMemory
  BY DEF ReadRiskInput
<1>2. PICK s : s = Next1(c)
  OBVIOUS
<1>3. /\ run[c].todo # <<>> /\ StepOK(s) /\ s.do = "input"
      /\ MemoryOK(run[c]) /\ TodoOK(Rest(c))
      /\ Rest(c) # <<>> => Follows(s, Rest(c)[1])
  BY <1>1, <1>2, Running
<1>4. EntityOK(s.entity)
  BY <1>3 DEF StepOK
<1>5. ~Doing(c, "announce")
  BY <1>1, Waits
<1>6. PICK x \in ScoreSet :
         /\ Go(c, [run[c] EXCEPT !.score = x], Rest(c))
         /\ left' = left \/ left' = [left EXCEPT !.spare = @ - 1]
  <2>1. PICK failing :
           /\ Go(c, [run[c] EXCEPT !.score = Calculate(RiskInput(s.asset, s.entity, run[c].statuses, run[c].best, failing), Weights)],
                 Rest(c))
           /\ left' = left \/ left' = [left EXCEPT !.spare = @ - 1]
    BY <1>2 DEF ReadRiskInput, Spend
  <2>2. InputOK(RiskInput(s.asset, s.entity, run[c].statuses, run[c].best, failing))
    BY <1>4, RiskInputOK DEF IInv, Data
  <2> QED
    BY <2>1, <2>2, CalculateOK
<1>7. PICK m : m = [run[c] EXCEPT !.score = x]
  OBVIOUS
<1>8. m = MemoryIs(run[c], run[c].ds, run[c].before, run[c].got, run[c].best, run[c].statuses, x, run[c].prev,
                   run[c].at, run[c].taken)
  BY <1>3, <1>7 DEF MemoryOK, MemoryIs
<1>9. PICK n : n = IF Rest(c) = <<>> THEN Idle ELSE [m EXCEPT !.todo = Rest(c)]
  OBVIOUS
<1>10. run' = [run EXCEPT ![c] = n]
  BY <1>6, <1>7, <1>9 DEF Go
<1>11. LeftOK' /\ left'.jobs = left.jobs /\ left'.stamps = left.stamps
  BY <1>6, Spent DEF IInv, Scoring
<1>12. CmdOK(n, scores, left.stamps, left.jobs) /\ (n.todo # <<>> => n.job = run[c].job /\ Head(n.todo).do # "announce")
  <2>1. CASE Rest(c) = <<>>
    BY <1>9, <2>1, IdleOK
  <2>2. CASE Rest(c) # <<>>
    <3>1. PICK t : t = Rest(c)
      OBVIOUS
    <3>2. n = [m EXCEPT !.todo = t]
      BY <1>9, <2>2, <3>1
    <3>3. n = [todo |-> t, job |-> run[c].job, ds |-> run[c].ds, before |-> run[c].before, got |-> run[c].got,
               best |-> run[c].best, statuses |-> run[c].statuses, score |-> x, prev |-> run[c].prev, at |-> run[c].at,
               taken |-> run[c].taken]
      BY <1>8, <3>2 DEF MemoryIs
    <3>4. n.todo = t /\ n.job = run[c].job /\ n.taken = run[c].taken /\ n.score = x
      BY <3>3
    <3>5. MemoryOK(n)
      BY <1>3, <3>3 DEF MemoryOK
    <3>6. t[1].do \notin {"create", "announce", "rise"}
      BY <1>3, <2>2, <3>1 DEF Follows
    <3>7. Ready(n, scores, left.stamps)
      BY <3>4, <3>6 DEF Ready
    <3>8. Earned(run[c], scores, left.jobs)
      BY DEF IInv, Scoring, RunsOK, CmdOK
    <3>9. Earned(n, scores, left.jobs)
      BY <1>3, <3>4, <3>8 DEF Earned
    <3>10. Head(t) = t[1]
      BY <1>3, <2>2, <3>1, OpensHead
    <3> QED
      BY <1>3, <3>1, <3>4, <3>5, <3>6, <3>7, <3>9, <3>10 DEF CmdOK
  <2> QED
    BY <2>1, <2>2
<1>13. scores' = scores
  BY <1>1 DEF inMemory, tables
<1>14. \A e : StampIn(left.stamps, e) <= StampIn(left'.stamps, e)
  <2>1. \A e : StampIn(left.stamps, e) \in Int
    BY Stamps DEF IInv, Scoring, LeftOK
  <2> QED
    BY <1>11, <2>1
<1>15. RunsOK' /\ OwnJobs'
  <2>1. CmdOK(n, scores', left'.stamps, left'.jobs)
    BY <1>11, <1>12, <1>13
  <2>2. scores \subseteq scores' /\ \A r \in scores' \ scores : r.job = run[c].job
    BY <1>13
  <2>3. Scoring
    BY DEF IInv
  <2> QED
    BY <1>3, <1>10, <1>11, <1>12, <1>14, <2>1, <2>2, <2>3, Moved
<1>16. Scoring'
  BY <1>11, <1>13, <1>15, SameScores DEF IInv, Scoring
<1>17. \A key : Waiting(key)' = Waiting(key)
  <2>1. \A key : Waiting(key)' = Waiting(key) \ {c}
    BY <1>10, <1>12, WaitsLess DEF IInv, Scoring
  <2> QED
    BY <1>5, <2>1, NotWaiting
<1>18. TellsOK'
  BY <1>1, <1>17, SameTelling DEF IInv, inMemory, tables
<1>19. EventsOK'
  BY <1>1, SameEvents DEF IInv, inMemory, tables
<1>20. Data'
  BY <1>1, SameData DEF IInv, inMemory, tables
<1> QED
  BY <1>16, <1>18, <1>19, <1>20 DEF IInv

LEMMA ReadPreviousStep == ASSUME IInv, NEW c \in Commands, ReadPrevious(c) PROVE IInv'
<1>1. Doing(c, "previous") /\ UNCHANGED inMemory
  BY DEF ReadPrevious
<1>2. PICK s : s = Next1(c)
  OBVIOUS
<1>3. /\ run[c].todo # <<>> /\ StepOK(s) /\ s.do = "previous" /\ s = run[c].todo[1]
      /\ MemoryOK(run[c]) /\ TodoOK(Rest(c))
      /\ Rest(c) # <<>> => Follows(s, Rest(c)[1])
  BY <1>1, <1>2, Running
<1>4. PICK e : e = s.entity
  OBVIOUS
<1>5. ~Doing(c, "announce")
  BY <1>1, Waits
<1>6. PICK stamps : stamps = Put(left.stamps, e, StampOf(e))
  OBVIOUS
<1>7. left = [jobs |-> left.jobs, spare |-> left.spare, stamps |-> left.stamps]
  BY DEF IInv, Scoring, LeftOK
<1>8. PICK prev \in {Latest(e), Never} :
         /\ Go(c, [run[c] EXCEPT !.prev = prev, !.at = StampOf(e)], Rest(c))
         /\ \/ left' = [left EXCEPT !.stamps = stamps]
            \/ left' = [[left EXCEPT !.stamps = stamps] EXCEPT !.spare = @ - 1]
  BY <1>2, <1>4, <1>6 DEF ReadPrevious
<1>25. PICK spare : left' = [jobs |-> left.jobs, spare |-> spare, stamps |-> stamps]
  <2>1. PICK x : x = [left EXCEPT !.stamps = stamps]
    OBVIOUS
  <2>2. x = [jobs |-> left.jobs, spare |-> left.spare, stamps |-> stamps]
    BY <1>7, <2>1
  <2>3. [x EXCEPT !.spare = @ - 1] = [jobs |-> left.jobs, spare |-> left.spare - 1, stamps |-> stamps]
    BY <2>2
  <2>4. left' = x \/ left' = [x EXCEPT !.spare = @ - 1]
    BY <1>8, <2>1
  <2>5. CASE left' = x
    BY <2>2, <2>5
  <2>6. CASE left' = [x EXCEPT !.spare = @ - 1]
    BY <2>3, <2>6
  <2> QED
    BY <2>4, <2>5, <2>6
<1>9. /\ LeftOK' /\ left'.jobs = left.jobs /\ left'.stamps = stamps
      /\ \A x : StampIn(left.stamps, x) \in Int /\ StampIn(left'.stamps, x) \in Int
      /\ \A x : StampIn(left.stamps, x) <= StampIn(left'.stamps, x)
      /\ StampOf(e) = StampIn(left.stamps, e) /\ StampOf(e) < StampIn(left'.stamps, e)
  BY <1>6, <1>25, Stamped DEF IInv, Scoring
<1>10. PICK at : at = StampOf(e)
  OBVIOUS
<1>11. prev = Never \/ \E q \in scores : q.entity = e /\ q.score = prev /\ q.at < at
  BY <1>8, <1>9, <1>10, LatestStored DEF IInv, Scoring
<1>12. PICK m : m = [run[c] EXCEPT !.prev = prev, !.at = at]
  OBVIOUS
<1>13. m = MemoryIs(run[c], run[c].ds, run[c].before, run[c].got, run[c].best, run[c].statuses, run[c].score, prev,
                    at, run[c].taken)
  BY <1>3, <1>12 DEF MemoryOK, MemoryIs
<1>14. PICK n : n = IF Rest(c) = <<>> THEN Idle ELSE [m EXCEPT !.todo = Rest(c)]
  OBVIOUS
<1>15. run' = [run EXCEPT ![c] = n]
  BY <1>8, <1>10, <1>12, <1>14 DEF Go
<1>16. CmdOK(n, scores, stamps, left.jobs) /\ (n.todo # <<>> => n.job = run[c].job /\ Head(n.todo).do # "announce")
  <2>1. CASE Rest(c) = <<>>
    BY <1>14, <2>1, IdleOK
  <2>2. CASE Rest(c) # <<>>
    <3>1. PICK t : t = Rest(c)
      OBVIOUS
    <3>2. n = [m EXCEPT !.todo = t]
      BY <1>14, <2>2, <3>1
    <3>3. n = [todo |-> t, job |-> run[c].job, ds |-> run[c].ds, before |-> run[c].before, got |-> run[c].got,
               best |-> run[c].best, statuses |-> run[c].statuses, score |-> run[c].score, prev |-> prev, at |-> at,
               taken |-> run[c].taken]
      BY <1>13, <3>2 DEF MemoryIs
    <3>4. /\ n.todo = t /\ n.job = run[c].job /\ n.taken = run[c].taken /\ n.score = run[c].score
          /\ n.prev = prev /\ n.at = at
      BY <3>3
    <3>5. MemoryOK(n)
      BY <1>3, <3>3 DEF MemoryOK
    <3>6. t[1].do \notin {"previous", "announce", "rise"} /\ (t[1].do = "create" => t[1].entity = e)
      BY <1>3, <1>4, <2>2, <3>1 DEF Follows
    <3>7. run[c].score \in ScoreSet
      BY <1>3 DEF IInv, Scoring, RunsOK, CmdOK, Ready
    <3>8. at \in Int /\ at < StampIn(stamps, e)
      BY <1>9, <1>10
    <3>9. Ready(n, scores, stamps)
      BY <1>11, <3>4, <3>6, <3>7, <3>8 DEF Ready
    <3>10. Earned(run[c], scores, left.jobs)
      BY DEF IInv, Scoring, RunsOK, CmdOK
    <3>11. Earned(n, scores, left.jobs)
      BY <1>3, <3>4, <3>10 DEF Earned
    <3>12. Head(t) = t[1]
      BY <1>3, <2>2, <3>1, OpensHead
    <3> QED
      BY <1>3, <3>1, <3>4, <3>5, <3>6, <3>9, <3>11, <3>12 DEF CmdOK
  <2> QED
    BY <2>1, <2>2
<1>17. scores' = scores
  BY <1>1 DEF inMemory, tables
<1>18. RunsOK' /\ OwnJobs'
  <2>1. CmdOK(n, scores', left'.stamps, left'.jobs)
    BY <1>9, <1>16, <1>17
  <2>2. scores \subseteq scores' /\ \A r \in scores' \ scores : r.job = run[c].job
    BY <1>17
  <2>3. Scoring
    BY DEF IInv
  <2> QED
    BY <1>3, <1>9, <1>15, <1>16, <2>1, <2>2, <2>3, Moved
<1>19. ScoresOK'
  <2>1. \A r \in scores : r.at < StampIn(left'.stamps, r.entity)
    <3> SUFFICES ASSUME NEW r \in scores PROVE r.at < StampIn(left'.stamps, r.entity)
      OBVIOUS
    <3>1. r.at \in Int /\ r.at < StampIn(left.stamps, r.entity)
      BY DEF IInv, Scoring, ScoresOK
    <3> QED
      BY <1>9, <3>1
  <2> QED
    BY <1>9, <1>17, <2>1 DEF IInv, Scoring, ScoresOK, ValidScore, Supported
<1>20. Scoring'
  BY <1>9, <1>18, <1>19 DEF Scoring
<1>21. \A key : Waiting(key)' = Waiting(key)
  <2>1. \A key : Waiting(key)' = Waiting(key) \ {c}
    BY <1>15, <1>16, WaitsLess DEF IInv, Scoring
  <2> QED
    BY <1>5, <2>1, NotWaiting
<1>22. TellsOK'
  BY <1>1, <1>21, SameTelling DEF IInv, inMemory, tables
<1>23. EventsOK'
  BY <1>1, SameEvents DEF IInv, inMemory, tables
<1>24. Data'
  BY <1>1, SameData DEF IInv, inMemory, tables
<1> QED
  BY <1>20, <1>22, <1>23, <1>24 DEF IInv

(* A score stored by a command for an asset or a finding.                  *)
LEMMA RowStored ==
    ASSUME LeftOK, ScoresOK, left'.stamps = left.stamps, left'.jobs = left.jobs,
           NEW m, NEW rows, rows = scores, Earned(m, rows, left.jobs), m.todo # <<>>,
           NEW row, row.job = m.job, ValidScore(row), row.entity[1] # "investigation",
           row.at \in Int, row.at < StampIn(left.stamps, row.entity),
           scores' = scores \union {row}
    PROVE  /\ ScoresOK'
           /\ OfJob(scores', m.job) = OfJob(scores, m.job) \cup (IF row.entity[1] = "asset" THEN {row.score} ELSE {})
<1>1. m.job \in Int /\ left.jobs < m.job /\ \A r \in scores : r.entity[1] = "investigation" => r.job # m.job
  BY DEF Earned
<1>2. left.jobs \in Int
  BY IdentityAssumption DEF LeftOK
<1>3. m.job \notin 1..left.jobs
  BY <1>1, <1>2
<1>4. \A r \in scores' : /\ ValidScore(r) /\ r.at \in Int /\ r.at < StampIn(left.stamps, r.entity)
                         /\ r.job \in Int /\ r.job \notin 1..left.jobs
  <2> SUFFICES ASSUME NEW r \in scores'
               PROVE  /\ ValidScore(r) /\ r.at \in Int /\ r.at < StampIn(left.stamps, r.entity)
                      /\ r.job \in Int /\ r.job \notin 1..left.jobs
    OBVIOUS
  <2>1. CASE r = row
    BY <1>1, <1>3, <2>1
  <2>2. CASE r \in scores
    BY <2>2 DEF ScoresOK
  <2> QED
    BY <2>1, <2>2
<1>5. Supported(scores')
  <2> SUFFICES ASSUME NEW r \in scores', r.entity[1] = "investigation"
               PROVE  LET own == {q.score : q \in {q \in scores' : q.entity[1] = "asset" /\ q.job = r.job}}
                      IN r.score \in own /\ \A x \in own : x <= r.score
    BY DEF Supported
  <2>1. r \in scores /\ r.job # m.job
    BY <1>1
  <2>2. {q \in scores' : q.entity[1] = "asset" /\ q.job = r.job} = {q \in scores : q.entity[1] = "asset" /\ q.job = r.job}
    BY <2>1
  <2>3. LET own == {q.score : q \in {q \in scores : q.entity[1] = "asset" /\ q.job = r.job}}
        IN r.score \in own /\ \A x \in own : x <= r.score
    BY <2>1 DEF ScoresOK, Supported
  <2> QED
    BY <2>2, <2>3
<1>6. ScoresOK'
  BY <1>4, <1>5 DEF ScoresOK, ValidScore
<1>7. OfJob(scores', m.job) = OfJob(scores, m.job) \cup (IF row.entity[1] = "asset" THEN {row.score} ELSE {})
  <2>1. CASE row.entity[1] = "asset"
    <3>1. {q \in scores' : q.entity[1] = "asset" /\ q.job = m.job} = {q \in scores : q.entity[1] = "asset" /\ q.job = m.job} \cup {row}
      BY <2>1
    <3> QED
      BY <2>1, <3>1 DEF OfJob
  <2>2. CASE row.entity[1] # "asset"
    <3>1. {q \in scores' : q.entity[1] = "asset" /\ q.job = m.job} = {q \in scores : q.entity[1] = "asset" /\ q.job = m.job}
      BY <2>2
    <3> QED
      BY <2>2, <3>1 DEF OfJob
  <2> QED
    BY <2>1, <2>2
<1> QED
  BY <1>6, <1>7

LEMMA RowValid ==
    ASSUME NEW e, e[1] \in {"asset", "finding", "investigation"}, NEW at, NEW job, NEW x \in ScoreSet,
           NEW row, row = ScoreRow(e, at, job, x)
    PROVE  /\ row.entity = e /\ row.at = at /\ row.job = job /\ row.score = x.score /\ ValidScore(row)
BY DEF ScoreRow, ScoreSet, ValidScore

LEMMA CreateScoreStep == ASSUME IInv, NEW c \in Commands, CreateScore(c) PROVE IInv'
<1>1. Doing(c, "create") /\ UNCHANGED <<clock, world, records, cache, catalog, matches, events, past>>
  BY DEF CreateScore
<1>2. PICK s : s = Next1(c)
  OBVIOUS
<1>3. /\ run[c].todo # <<>> /\ StepOK(s) /\ s.do = "create" /\ s = run[c].todo[1]
      /\ MemoryOK(run[c]) /\ TodoOK(Rest(c)) /\ Opens(Rest(c))
  BY <1>1, <1>2, Running
<1>4. PICK e : e = s.entity
  OBVIOUS
<1>5. s = [do |-> "create", entity |-> e] /\ EntityOK(e)
  BY <1>3, <1>4 DEF StepOK
<1>6. ~Doing(c, "announce")
  BY <1>1, Waits
<1>7. /\ run[c].score \in ScoreSet /\ run[c].at \in Int /\ run[c].at < StampIn(left.stamps, e)
      /\ run[c].prev = Never \/ \E q \in scores : q.entity = e /\ q.score = run[c].prev /\ q.at < run[c].at
  BY <1>3, <1>4 DEF IInv, Scoring, RunsOK, CmdOK, Ready
<1>8. PICK row : row = ScoreRow(e, run[c].at, run[c].job, run[c].score)
  OBVIOUS
<1>9. /\ row.entity = e /\ row.at = run[c].at /\ row.job = run[c].job /\ row.score = run[c].score.score
      /\ ValidScore(row)
  <2>1. e[1] \in {"asset", "finding", "investigation"}
    BY <1>5 DEF EntityOK
  <2> QED
    BY <1>7, <1>8, <2>1, RowValid
<1>10. PICK x, got : x = [s EXCEPT !.do = "rise"] /\ got = IF e[1] = "asset" THEN run[c].taken \union {run[c].score} ELSE run[c].taken
  OBVIOUS
<1>11. PICK m : m = [run[c] EXCEPT !.taken = got]
  OBVIOUS
<1>12. PICK t : t = (IF Rose(run[c].prev, row.score) THEN <<x>> ELSE <<>>) \o Rest(c)
  OBVIOUS
<1>13. \/ scores' = scores \union {row} /\ Go(c, m, t) /\ left' = left
       \/ left' = [left EXCEPT !.spare = @ - 1] /\ Go(c, run[c], NextAsset(Rest(c))) /\ scores' = scores
  <2>1. m = [run[c] EXCEPT !.taken = IF e[1] = "asset" THEN @ \union {run[c].score} ELSE @]
    BY <1>10, <1>11
  <2> QED
    BY <1>2, <1>4, <1>8, <1>10, <1>12, <2>1 DEF CreateScore, Spend
<1>14. Data'
  BY <1>1, SameData DEF IInv
<1>15. EventsOK'
  BY <1>1, <1>13, SameEvents DEF IInv
<1>16. CASE left' = [left EXCEPT !.spare = @ - 1] /\ Go(c, run[c], NextAsset(Rest(c))) /\ scores' = scores
  <2>1. PICK u : u = NextAsset(Rest(c))
    OBVIOUS
  <2>2. TodoOK(u) /\ Opens(u)
    BY <1>3, <2>1, SkippedTodo DEF NextAsset, Opens, Inner
  <2>3. Goes(c, run[c], u)
    BY <1>3, <1>16, <2>1, <2>2 DEF Goes
  <2> QED
    BY <1>1, <1>6, <1>14, <1>15, <1>16, <2>3, GoingStep
<1>17. CASE scores' = scores \union {row} /\ Go(c, m, t) /\ left' = left
  <2>1. LeftOK' /\ left'.jobs = left.jobs /\ left'.stamps = left.stamps
    BY <1>17, Spent DEF IInv, Scoring
  <2>2. Earned(run[c], scores, left.jobs)
    BY DEF IInv, Scoring, RunsOK, CmdOK
  <2>3. e[1] # "investigation"
    BY <1>5 DEF EntityOK
  <2>4. /\ ScoresOK'
        /\ OfJob(scores', run[c].job) = OfJob(scores, run[c].job) \cup (IF e[1] = "asset" THEN {row.score} ELSE {})
    <3>1. PICK rows, mem : rows = scores /\ mem = run[c]
      OBVIOUS
    <3>2. Earned(mem, rows, left.jobs) /\ mem.todo # <<>> /\ row.job = mem.job
      BY <1>3, <1>9, <2>2, <3>1
    <3>3. row.at \in Int /\ row.at < StampIn(left.stamps, row.entity) /\ row.entity[1] # "investigation"
      BY <1>7, <1>9, <2>3
    <3>4. /\ ScoresOK'
          /\ OfJob(scores', mem.job) = OfJob(scores, mem.job) \cup (IF row.entity[1] = "asset" THEN {row.score} ELSE {})
      BY <1>9, <1>17, <2>1, <3>1, <3>2, <3>3, RowStored DEF IInv, Scoring
    <3> QED
      BY <1>9, <3>1, <3>4
  <2>5. {y.score : y \in got} = OfJob(scores', run[c].job)
    <3>1. {y.score : y \in run[c].taken} = OfJob(scores, run[c].job)
      BY <1>3, <2>2 DEF Earned
    <3>2. CASE e[1] = "asset"
      <4>1. {y.score : y \in got} = {y.score : y \in run[c].taken} \cup {run[c].score.score}
        BY <1>10, <3>2
      <4> QED
        BY <1>9, <2>4, <3>1, <3>2, <4>1
    <3>3. CASE e[1] # "asset"
      BY <1>10, <2>4, <3>1, <3>3
    <3> QED
      BY <3>2, <3>3
  <2>6. m = MemoryIs(run[c], run[c].ds, run[c].before, run[c].got, run[c].best, run[c].statuses, run[c].score,
                     run[c].prev, run[c].at, got)
    BY <1>3, <1>11 DEF MemoryOK, MemoryIs
  <2>7. PICK n : n = IF t = <<>> THEN Idle ELSE [m EXCEPT !.todo = t]
    OBVIOUS
  <2>8. run' = [run EXCEPT ![c] = n]
    BY <1>17, <2>7 DEF Go
  <2>9. x = [do |-> "rise", entity |-> e]
    BY <1>5, <1>10
  <2>10. /\ TodoOK(t)
         /\ t # <<>> => \/ t[1] = x /\ Rose(run[c].prev, row.score)
                        \/ t[1].do \notin Inner
    <3>1. CASE Rose(run[c].prev, row.score)
      <4>1. StepOK(x) /\ x.do = "rise"
        BY <1>5, <2>9 DEF StepOK, Kinds
      <4>2. TodoOK(<<x>>) /\ Ends(<<x>>) /\ <<x>> # <<>> /\ <<x>>[1] = x
        BY <4>1, OneTodo
      <4>3. t = <<x>> \o Rest(c)
        BY <1>12, <3>1
      <4>4. TodoOK(t) /\ t[1] = x
        BY <1>3, <4>2, <4>3, JoinedTodo
      <4> QED
        BY <3>1, <4>4
    <3>2. CASE ~Rose(run[c].prev, row.score)
      <4>1. t = <<>> \o Rest(c)
        BY <1>12, <3>2
      <4>2. Rest(c) \in Seq(ToSet(Rest(c)))
        BY <1>3 DEF TodoOK, IsSeq
      <4>3. t = Rest(c)
        BY <4>1, <4>2
      <4> QED
        BY <1>3, <4>3 DEF Opens
    <3> QED
      BY <3>1, <3>2
  <2>11. row \in scores' /\ scores \subseteq scores'
    BY <1>17
  <2>12. Rose(run[c].prev, row.score) =>
            \E q, r \in scores' : /\ q.entity = e /\ r.entity = e /\ q.score = run[c].prev /\ r.score = run[c].score.score
                                  /\ q.at < r.at /\ run[c].prev < run[c].score.score
    <3> SUFFICES ASSUME Rose(run[c].prev, row.score)
                 PROVE  \E q, r \in scores' : /\ q.entity = e /\ r.entity = e /\ q.score = run[c].prev
                                              /\ r.score = run[c].score.score
                                              /\ q.at < r.at /\ run[c].prev < run[c].score.score
      OBVIOUS
    <3>1. run[c].prev # Never /\ row.score > run[c].prev
      BY DEF Rose
    <3>2. PICK q \in scores : q.entity = e /\ q.score = run[c].prev /\ q.at < run[c].at
      BY <1>7, <3>1
    <3>3. q.score \in 0..100
      BY DEF IInv, Scoring, ScoresOK, ValidScore
    <3>4. row.score \in 0..100
      BY <1>9 DEF ValidScore
    <3>5. run[c].prev < run[c].score.score
      BY <1>9, <3>1, <3>2, <3>3, <3>4
    <3> QED
      BY <1>9, <2>11, <3>2, <3>5
  <2>13. CmdOK(n, scores', left'.stamps, left'.jobs) /\ (n.todo # <<>> => n.job = run[c].job /\ Head(n.todo).do # "announce")
    <3>1. CASE t = <<>>
      BY <2>7, <3>1, IdleOK
    <3>2. CASE t # <<>>
      <4>1. n = [todo |-> t, job |-> run[c].job, ds |-> run[c].ds, before |-> run[c].before, got |-> run[c].got,
                 best |-> run[c].best, statuses |-> run[c].statuses, score |-> run[c].score, prev |-> run[c].prev,
                 at |-> run[c].at, taken |-> got]
        BY <2>6, <2>7, <3>2 DEF MemoryIs
      <4>2. /\ n.todo = t /\ n.job = run[c].job /\ n.taken = got /\ n.score = run[c].score /\ n.prev = run[c].prev
            /\ n.at = run[c].at
        BY <4>1
      <4>3. got \subseteq ScoreSet
        BY <1>3, <1>7, <1>10 DEF MemoryOK
      <4>4. MemoryOK(n)
        BY <1>3, <4>1, <4>3 DEF MemoryOK
      <4>5. ASSUME t[1] = x, Rose(run[c].prev, row.score)
            PROVE  Ready(n, scores', left'.stamps) /\ t[1].do # "announce"
        <5>1. t[1].do = "rise" /\ t[1].entity = e
          BY <2>9, <4>5
        <5>2. Ready(n, scores', left'.stamps)
          BY <1>7, <2>12, <4>2, <4>5, <5>1 DEF Ready
        <5> QED
          BY <5>1, <5>2
      <4>6. ASSUME t[1].do \notin Inner
            PROVE  Ready(n, scores', left'.stamps) /\ t[1].do # "announce"
        BY <4>2, <4>6 DEF Ready, Inner
      <4>7. Ready(n, scores', left'.stamps) /\ t[1].do # "announce"
        BY <2>10, <3>2, <4>5, <4>6
      <4>8. Earned(n, scores', left'.jobs)
        <5>1. \A r \in scores' : r.entity[1] = "investigation" => r.job # run[c].job
          BY <1>3, <1>9, <1>17, <2>2, <2>3 DEF Earned
        <5>2. run[c].job \in Int /\ left'.jobs < run[c].job
          BY <1>3, <2>1, <2>2 DEF Earned
        <5> QED
          BY <2>5, <4>2, <5>1, <5>2 DEF Earned
      <4>9. Head(t) = t[1]
        BY <2>10, <3>2, OpensHead
      <4> QED
        BY <2>10, <4>2, <4>4, <4>7, <4>8, <4>9 DEF CmdOK
    <3> QED
      BY <3>1, <3>2
  <2>14. \A y : StampIn(left.stamps, y) <= StampIn(left'.stamps, y)
    <3>1. \A y : StampIn(left.stamps, y) \in Int
      BY Stamps DEF IInv, Scoring, LeftOK
    <3> QED
      BY <2>1, <3>1
  <2>15. RunsOK' /\ OwnJobs'
    <3>1. scores \subseteq scores' /\ \A r \in scores' \ scores : r.job = run[c].job
      BY <1>9, <1>17
    <3>2. Scoring
      BY DEF IInv
    <3> QED
      BY <1>3, <2>1, <2>8, <2>13, <2>14, <3>1, <3>2, Moved
  <2>16. Scoring'
    BY <2>1, <2>4, <2>15 DEF Scoring
  <2>17. \A key : Waiting(key)' = Waiting(key)
    <3>1. \A key : Waiting(key)' = Waiting(key) \ {c}
      BY <2>8, <2>13, WaitsLess DEF IInv, Scoring
    <3> QED
      BY <1>6, <3>1, NotWaiting
  <2>18. TellsOK'
    BY <1>1, <2>17, SameTelling DEF IInv
  <2> QED
    BY <1>14, <1>15, <2>16, <2>18 DEF IInv
<1> QED
  BY <1>13, <1>16, <1>17

LEMMA RecordRiseStep == ASSUME IInv, NEW c \in Commands, RecordRise(c) PROVE IInv'
<1>1. Doing(c, "rise") /\ Go(c, run[c], Rest(c)) /\ UNCHANGED <<clock, world, records, cache, catalog, matches, scores, past>>
  BY DEF RecordRise
<1>2. PICK s : s = Next1(c)
  OBVIOUS
<1>3. /\ run[c].todo # <<>> /\ s.do = "rise" /\ s = run[c].todo[1]
      /\ MemoryOK(run[c]) /\ TodoOK(Rest(c)) /\ Opens(Rest(c))
  BY <1>1, <1>2, Running
<1>4. PICK e : e = [entity |-> s.entity, previous |-> run[c].prev, new |-> run[c].score.score]
  OBVIOUS
<1>5. \/ RecordEvent("rise", e) /\ left' = left
      \/ left' = [left EXCEPT !.spare = @ - 1] /\ events' = events
  BY <1>2, <1>4 DEF RecordRise, Spend
<1>6. Goes(c, run[c], Rest(c))
  BY <1>1, <1>3 DEF Goes
<1>7. \E q, r \in scores : /\ q.entity = s.entity /\ r.entity = s.entity /\ q.score = run[c].prev
                           /\ r.score = run[c].score.score /\ q.at < r.at /\ run[c].prev < run[c].score.score
  BY <1>3 DEF IInv, Scoring, RunsOK, CmdOK, Ready
<1>8. EventsOK' /\ events'.match = events.match
  <2>1. CASE events' = events
    BY <1>1, <2>1, SameEvents DEF IInv
  <2>2. CASE RecordEvent("rise", e)
    <3>1. /\ events' = [verdict |-> events'.verdict, match |-> events'.match, rise |-> events'.rise]
          /\ events'.rise = events.rise (+) SetToBag({e})
          /\ events'.match = events.match /\ events'.verdict = events.verdict
      BY <2>2, EventAdded DEF IInv
    <3>2. DOMAIN events'.rise = DOMAIN events.rise \cup {e}
      BY <3>1, Added
    <3>3. ASSUME NEW x \in DOMAIN events'.rise
          PROVE  \E q, r \in RowsOf(x.entity)' : q.score = x.previous /\ r.score = x.new /\ q.at < r.at /\ x.previous < x.new
      <4>1. RowsOf(x.entity)' = RowsOf(x.entity)
        BY <1>1 DEF RowsOf
      <4>2. CASE x \in DOMAIN events.rise
        BY <4>1, <4>2 DEF IInv, EventsOK, RisesTraceable
      <4>3. CASE x = e
        <5>1. x.entity = s.entity /\ x.previous = run[c].prev /\ x.new = run[c].score.score
          BY <1>4, <4>3
        <5> QED
          BY <1>7, <4>1, <5>1 DEF RowsOf
      <4> QED
        BY <3>2, <4>2, <4>3
    <3>4. RisesTraceable'
      BY <3>3 DEF RisesTraceable
    <3> QED
      BY <3>1, <3>4 DEF IInv, EventsOK, ValidVerdictEvent
  <2> QED
    BY <1>5, <2>1, <2>2
<1>9. Data'
  BY <1>1, SameData DEF IInv
<1>10. ~Doing(c, "announce")
  BY <1>1, Waits
<1> QED
  BY <1>1, <1>5, <1>6, <1>8, <1>9, <1>10, GoingStep

(* The score stored for an investigation is the highest of its command's.  *)
LEMMA InvestigationStored ==
    ASSUME LeftOK, ScoresOK, left'.jobs = left.jobs,
           \A x : StampIn(left.stamps, x) \in Int /\ StampIn(left'.stamps, x) \in Int,
           \A x : StampIn(left.stamps, x) <= StampIn(left'.stamps, x),
           NEW m, NEW rows, rows = scores, Earned(m, rows, left.jobs), m.todo # <<>>,
           NEW best \in Highest(m.taken), NEW row, row.job = m.job, row.score = best.score, ValidScore(row),
           row.entity[1] = "investigation", row.at = StampIn(left.stamps, row.entity),
           row.at < StampIn(left'.stamps, row.entity), scores' = scores \union {row}
    PROVE  ScoresOK'
<1>1. m.job \in Int /\ left.jobs < m.job /\ {x.score : x \in m.taken} = OfJob(scores, m.job)
  BY DEF Earned
<1>2. left.jobs \in Int
  BY IdentityAssumption DEF LeftOK
<1>3. m.job \notin 1..left.jobs
  BY <1>1, <1>2
<1>4. best \in m.taken /\ \A y \in m.taken : y.score <= best.score
  BY DEF Highest
<1>5. \A r \in scores' : /\ ValidScore(r) /\ r.at \in Int /\ r.at < StampIn(left'.stamps, r.entity)
                         /\ r.job \in Int /\ r.job \notin 1..left.jobs
  <2> SUFFICES ASSUME NEW r \in scores'
               PROVE  /\ ValidScore(r) /\ r.at \in Int /\ r.at < StampIn(left'.stamps, r.entity)
                      /\ r.job \in Int /\ r.job \notin 1..left.jobs
    OBVIOUS
  <2>1. CASE r = row
    <3>1. r.at \in Int /\ r.at < StampIn(left'.stamps, r.entity)
      BY <2>1
    <3> QED
      BY <1>1, <1>3, <2>1, <3>1
  <2>2. CASE r \in scores
    <3>1. ValidScore(r) /\ r.at \in Int /\ r.at < StampIn(left.stamps, r.entity) /\ r.job \in Int /\ r.job \notin 1..left.jobs
      BY <2>2 DEF ScoresOK
    <3>2. r.at < StampIn(left'.stamps, r.entity)
      <4>1. PICK p, q : p = StampIn(left.stamps, r.entity) /\ q = StampIn(left'.stamps, r.entity)
        OBVIOUS
      <4>2. p \in Int /\ q \in Int /\ p <= q
        BY <4>1
      <4> QED
        BY <3>1, <4>1, <4>2
    <3> QED
      BY <3>1, <3>2
  <2> QED
    BY <2>1, <2>2
<1>6. \A job : OfJob(scores', job) = OfJob(scores, job)
  <2> SUFFICES ASSUME NEW job PROVE OfJob(scores', job) = OfJob(scores, job)
    OBVIOUS
  <2>1. {q \in scores' : q.entity[1] = "asset" /\ q.job = job} = {q \in scores : q.entity[1] = "asset" /\ q.job = job}
    OBVIOUS
  <2> QED
    BY <2>1 DEF OfJob
<1>7. \A r \in scores : r.entity[1] = "investigation" =>
         r.score \in OfJob(scores, r.job) /\ \A x \in OfJob(scores, r.job) : x <= r.score
  BY DEF ScoresOK, Supported, OfJob
<1>8. row.score \in OfJob(scores, row.job) /\ \A x \in OfJob(scores, row.job) : x <= row.score
  <2>1. OfJob(scores, row.job) = {x.score : x \in m.taken}
    BY <1>1
  <2> QED
    BY <1>4, <2>1
<1>9. \A r \in scores' : r.entity[1] = "investigation" =>
         r.score \in OfJob(scores', r.job) /\ \A x \in OfJob(scores', r.job) : x <= r.score
  BY <1>6, <1>7, <1>8
<1>10. Supported(scores')
  BY <1>9 DEF Supported, OfJob
<1> QED
  BY <1>5, <1>10 DEF ScoresOK, ValidScore

LEMMA ScoreInvestigationStep == ASSUME IInv, NEW c \in Commands, ScoreInvestigation(c) PROVE IInv'
<1>1. /\ Doing(c, "investigation") /\ Go(c, run[c], Rest(c))
      /\ UNCHANGED <<clock, world, records, cache, catalog, matches, events, past>>
  BY DEF ScoreInvestigation
<1>2. /\ run[c].todo # <<>> /\ MemoryOK(run[c]) /\ Rest(c) = <<>> /\ TodoOK(Rest(c)) /\ Opens(Rest(c))
  BY <1>1, Running
<1>3. PICK e : e = <<"investigation", Next1(c).inv>>
  OBVIOUS
<1>4. ~Doing(c, "announce")
  BY <1>1, Waits
<1>5. PICK stamps : stamps = Put(left.stamps, e, StampOf(e))
  OBVIOUS
<1>6. \/ /\ \E best \in Highest(run[c].taken) : scores' = scores \union {ScoreRow(e, StampOf(e), run[c].job, best)}
         /\ left' = [left EXCEPT !.stamps = stamps]
      \/ scores' = scores /\ (left' = left \/ left' = [left EXCEPT !.spare = @ - 1])
  BY <1>3, <1>5 DEF ScoreInvestigation, Spend
<1>7. Data'
  BY <1>1, SameData DEF IInv
<1>8. EventsOK'
  BY <1>1, <1>6, SameEvents DEF IInv
<1>9. CASE scores' = scores /\ (left' = left \/ left' = [left EXCEPT !.spare = @ - 1])
  <2>1. Goes(c, run[c], Rest(c))
    BY <1>1, <1>2 DEF Goes
  <2> QED
    BY <1>1, <1>4, <1>7, <1>8, <1>9, <2>1, GoingStep
<1>10. CASE /\ \E best \in Highest(run[c].taken) : scores' = scores \union {ScoreRow(e, StampOf(e), run[c].job, best)}
            /\ left' = [left EXCEPT !.stamps = stamps]
  <2>1. left' = [jobs |-> left.jobs, spare |-> left.spare, stamps |-> stamps]
    BY <1>10 DEF IInv, Scoring, LeftOK
  <2>2. /\ LeftOK' /\ left'.jobs = left.jobs /\ left'.stamps = stamps
        /\ \A x : StampIn(left.stamps, x) \in Int /\ StampIn(left'.stamps, x) \in Int
        /\ \A x : StampIn(left.stamps, x) <= StampIn(left'.stamps, x)
        /\ StampOf(e) = StampIn(left.stamps, e) /\ StampOf(e) < StampIn(left'.stamps, e)
    BY <1>5, <2>1, Stamped DEF IInv, Scoring
  <2>3. PICK best \in Highest(run[c].taken) : scores' = scores \union {ScoreRow(e, StampOf(e), run[c].job, best)}
    BY <1>10
  <2>4. PICK row : row = ScoreRow(e, StampOf(e), run[c].job, best)
    OBVIOUS
  <2>5. best \in ScoreSet
    BY <1>2, <2>3 DEF Highest, MemoryOK
  <2>6. e[1] = "investigation"
    BY <1>3
  <2>7. row.entity = e /\ row.at = StampOf(e) /\ row.job = run[c].job /\ row.score = best.score /\ ValidScore(row)
    <3>1. PICK at, job : at = StampOf(e) /\ job = run[c].job
      OBVIOUS
    <3> QED
      BY <2>4, <2>5, <2>6, <3>1, RowValid
  <2>8. ScoresOK'
    <3>1. PICK rows, mem : rows = scores /\ mem = run[c]
      OBVIOUS
    <3>2. Earned(mem, rows, left.jobs) /\ mem.todo # <<>>
      BY <1>2, <3>1 DEF IInv, Scoring, RunsOK, CmdOK
    <3>3. row.at = StampIn(left.stamps, row.entity) /\ row.at < StampIn(left'.stamps, row.entity)
      BY <2>2, <2>7
    <3>4. row.job = mem.job /\ best \in Highest(mem.taken) /\ row.entity[1] = "investigation" /\ scores' = scores \union {row}
      BY <2>3, <2>4, <2>6, <2>7, <3>1
    <3>5. LeftOK /\ ScoresOK
      BY DEF IInv, Scoring
    <3> QED
      BY <2>2, <2>7, <3>1, <3>2, <3>3, <3>4, <3>5, InvestigationStored
  <2>9. run' = [run EXCEPT ![c] = Idle]
    BY <1>1, <1>2 DEF Go
  <2>10. CmdOK(Idle, scores', left'.stamps, left'.jobs) /\ Idle.todo = <<>>
    BY IdleOK
  <2>11. RunsOK' /\ OwnJobs'
    <3>1. scores \subseteq scores' /\ \A r \in scores' \ scores : r.job = run[c].job
      BY <2>3, <2>4, <2>7
    <3>2. Scoring
      BY DEF IInv
    <3>3. PICK n : n = Idle
      OBVIOUS
    <3>4. /\ run' = [run EXCEPT ![c] = n] /\ CmdOK(n, scores', left'.stamps, left'.jobs)
          /\ n.todo # <<>> => n.job = run[c].job
      BY <2>9, <2>10, <3>3
    <3> QED
      BY <1>2, <2>2, <3>1, <3>2, <3>4, Moved
  <2>12. Scoring'
    BY <2>2, <2>8, <2>11 DEF Scoring
  <2>13. \A key : Waiting(key)' = Waiting(key)
    <3>1. PICK n : n = Idle
      OBVIOUS
    <3>2. \A key : Waiting(key)' = Waiting(key) \ {c}
      BY <2>9, <2>10, <3>1, WaitsLess DEF IInv, Scoring
    <3> QED
      BY <1>4, <3>2, NotWaiting
  <2>14. TellsOK'
    BY <1>1, <2>13, SameTelling DEF IInv
  <2> QED
    BY <1>7, <1>8, <2>12, <2>14 DEF IInv
<1> QED
  BY <1>6, <1>9, <1>10

-----------------------------------------------------------------------------
(* The rest of the system.                                                 *)

(* No command takes a step.                                                *)
LEMMA ElsewhereStep ==
    ASSUME IInv, run' = run, left' = left \/ left' = [left EXCEPT !.spare = @ - 1],
           UNCHANGED <<matches, scores, events, past>>, Data'
    PROVE  IInv'
<1>1. LeftOK' /\ left'.jobs = left.jobs /\ left'.stamps = left.stamps
  BY Spent DEF IInv, Scoring
<1>2. ScoresOK'
  BY <1>1, SameScores DEF IInv, Scoring
<1>3. RunsOK' /\ OwnJobs'
  BY <1>1 DEF IInv, Scoring, RunsOK, OwnJobs
<1>4. Scoring'
  BY <1>1, <1>2, <1>3 DEF Scoring
<1>5. \A key : Waiting(key)' = Waiting(key)
  BY DEF Waiting, Doing, Next1
<1>6. TellsOK'
  BY <1>5, SameTelling DEF IInv
<1>7. EventsOK'
  BY SameEvents DEF IInv
<1> QED
  BY <1>4, <1>6, <1>7 DEF IInv

LEMMA ChangeStep == ASSUME IInv, NEW w, Change(w), WorldOK' PROVE IInv'
<1>1. /\ left' = [left EXCEPT !.spare = @ - 1] /\ run' = run
      /\ UNCHANGED <<clock, records, cache, catalog, matches, scores, events, past>>
  BY DEF Change, tables
<1>2. Data'
  BY <1>1, SameRecords, SameCache, SameCatalog, SameMatches DEF IInv, Data, PastOK
<1> QED
  BY <1>1, <1>2, ElsewhereStep

(* The rest of the system as it may be after a change.                     *)
WorldIs(feed, last, techs, open, severity, found, linked, criticality) ==
    [feed |-> feed, last |-> last, techs |-> techs, cert |-> world.cert, open |-> open, severity |-> severity,
     matches |-> found, correlations |-> linked, criticality |-> criticality]
LEMMA Elsewhere ==
    ASSUME WorldOK, clock' = clock,
           NEW feed, NEW last, NEW techs, NEW open, NEW severity, NEW found, NEW linked, NEW criticality,
           world' = WorldIs(feed, last, techs, open, severity, found, linked, criticality),
           feed \in Verdicts \cup {None}, last \in [Assets -> Int],
           techs = [a \in Assets |-> techs[a]], \A a \in Assets : GoodTechs(techs[a]),
           severity \in [DOMAIN FindingAsset -> {"high", "critical"}], found \in Nat, linked \in Nat,
           criticality \in [Assets -> Criticalities]
    PROVE  WorldOK'
BY DEF WorldOK, WorldIs

LEMMA WorldNow ==
    ASSUME WorldOK
    PROVE  /\ world = WorldIs(world.feed, world.last, world.techs, world.open, world.severity, world.matches,
                              world.correlations, world.criticality)
           /\ clock \in Nat /\ world.feed \in Verdicts \cup {None} /\ world.last \in [Assets -> Int]
           /\ world.techs = [a \in Assets |-> world.techs[a]] /\ \A a \in Assets : GoodTechs(world.techs[a])
           /\ world.severity \in [DOMAIN FindingAsset -> {"high", "critical"}]
           /\ world.matches \in Nat /\ world.correlations \in Nat /\ world.criticality \in [Assets -> Criticalities]
BY DEF WorldOK, WorldIs

LEMMA FeedStep == ASSUME IInv, FeedChanges PROVE IInv'
<1>1. PICK v \in FeedAnswers : Change([world EXCEPT !.feed = v])
  BY DEF FeedChanges
<1>2. clock' = clock /\ world' = [world EXCEPT !.feed = v]
  BY <1>1 DEF Change
<1>3. world' = WorldIs(v, world.last, world.techs, world.open, world.severity, world.matches, world.correlations,
                       world.criticality)
  BY <1>2, WorldNow DEF IInv, Data, WorldIs
<1>4. v \in Verdicts \cup {None}
  BY ContentAssumption
<1>5. WorldOK'
  BY <1>2, <1>3, <1>4, WorldNow, Elsewhere DEF IInv, Data
<1> QED
  BY <1>1, <1>5, ChangeStep

LEMMA ObservedStep == ASSUME IInv, AssetObserved PROVE IInv'
<1>1. PICK a \in Assets : Change([world EXCEPT !.last[a] = clock])
  BY DEF AssetObserved
<1>2. PICK last : last = [world.last EXCEPT ![a] = clock]
  OBVIOUS
<1>3. clock' = clock /\ world' = [world EXCEPT !.last = last]
  BY <1>1, <1>2 DEF Change
<1>4. world' = WorldIs(world.feed, last, world.techs, world.open, world.severity, world.matches, world.correlations,
                       world.criticality)
  BY <1>3, WorldNow DEF IInv, Data, WorldIs
<1>5. last \in [Assets -> Int]
  BY <1>2, WorldNow DEF IInv, Data
<1>6. WorldOK'
  BY <1>3, <1>4, <1>5, WorldNow, Elsewhere DEF IInv, Data
<1> QED
  BY <1>1, <1>6, ChangeStep

LEMMA TechnologyStep == ASSUME IInv, TechnologyObserved PROVE IInv'
<1>1. PICK a \in Assets, ts \in Technologies : Change([world EXCEPT !.techs[a] = ts])
  BY DEF TechnologyObserved
<1>2. PICK techs : techs = [world.techs EXCEPT ![a] = ts]
  OBVIOUS
<1>3. clock' = clock /\ world' = [world EXCEPT !.techs = techs]
  BY <1>1, <1>2 DEF Change
<1>4. world' = WorldIs(world.feed, world.last, techs, world.open, world.severity, world.matches, world.correlations,
                       world.criticality)
  BY <1>3, WorldNow DEF IInv, Data, WorldIs
<1>5. GoodTechs(ts)
  <2>1. ts \in Seq(ToSet(ts)) /\ \A n \in DOMAIN ts : ts[n].sure \in 0..3
    BY ContentAssumption
  <2> QED
    BY <2>1 DEF GoodTechs, IsSeq
<1>6. techs = [b \in Assets |-> techs[b]] /\ \A b \in Assets : GoodTechs(techs[b])
  <2>1. PICK old : old = world.techs
    OBVIOUS
  <2>2. old = [b \in Assets |-> old[b]] /\ \A b \in Assets : GoodTechs(old[b])
    BY <2>1, WorldNow DEF IInv, Data
  <2>3. techs = [b \in Assets |-> IF b = a THEN ts ELSE old[b]]
    BY <1>2, <2>1, <2>2
  <2> QED
    BY <1>5, <2>2, <2>3
<1>7. WorldOK'
  BY <1>3, <1>4, <1>6, WorldNow, Elsewhere DEF IInv, Data
<1> QED
  BY <1>1, <1>7, ChangeStep

LEMMA FindingStep == ASSUME IInv, FindingChanges PROVE IInv'
<1>1. PICK f \in DOMAIN FindingAsset :
         \/ Change([world EXCEPT !.open = IF f \in @ THEN @ \ {f} ELSE @ \union {f}])
         \/ Change([world EXCEPT !.severity[f] = "critical"])
  BY DEF FindingChanges
<1>2. PICK open, severity : /\ open = IF f \in world.open THEN world.open \ {f} ELSE world.open \union {f}
                            /\ severity = [world.severity EXCEPT ![f] = "critical"]
  OBVIOUS
<1>3. severity \in [DOMAIN FindingAsset -> {"high", "critical"}]
  BY <1>2, WorldNow DEF IInv, Data
<1>4. CASE Change([world EXCEPT !.open = IF f \in @ THEN @ \ {f} ELSE @ \union {f}])
  <2>1. clock' = clock /\ world' = [world EXCEPT !.open = open]
    BY <1>2, <1>4 DEF Change
  <2>2. world' = WorldIs(world.feed, world.last, world.techs, open, world.severity, world.matches,
                         world.correlations, world.criticality)
    BY <2>1, WorldNow DEF IInv, Data, WorldIs
  <2>3. WorldOK'
    BY <2>1, <2>2, WorldNow, Elsewhere DEF IInv, Data
  <2> QED
    BY <1>4, <2>3, ChangeStep
<1>5. CASE Change([world EXCEPT !.severity[f] = "critical"])
  <2>1. clock' = clock /\ world' = [world EXCEPT !.severity = severity]
    BY <1>2, <1>5 DEF Change
  <2>2. world' = WorldIs(world.feed, world.last, world.techs, world.open, severity, world.matches,
                         world.correlations, world.criticality)
    BY <2>1, WorldNow DEF IInv, Data, WorldIs
  <2>3. WorldOK'
    BY <1>3, <2>1, <2>2, WorldNow, Elsewhere DEF IInv, Data
  <2> QED
    BY <1>5, <2>3, ChangeStep
<1> QED
  BY <1>1, <1>4, <1>5

LEMMA OpenedStep == ASSUME IInv, MatchOpened \/ CorrelationOpened PROVE IInv'
<1>1. CASE MatchOpened
  <2>1. Change([world EXCEPT !.matches = @ + 1])
    BY <1>1 DEF MatchOpened
  <2>2. clock' = clock /\ world' = [world EXCEPT !.matches = @ + 1]
    BY <2>1 DEF Change
  <2>3. PICK found : found = world.matches + 1
    OBVIOUS
  <2>4. world' = WorldIs(world.feed, world.last, world.techs, world.open, world.severity, found,
                         world.correlations, world.criticality)
    BY <2>2, <2>3, WorldNow DEF IInv, Data, WorldIs
  <2>5. found \in Nat
    BY <2>3, WorldNow DEF IInv, Data
  <2>6. WorldOK'
    BY <2>2, <2>4, <2>5, WorldNow, Elsewhere DEF IInv, Data
  <2> QED
    BY <2>1, <2>6, ChangeStep
<1>2. CASE CorrelationOpened
  <2>1. Change([world EXCEPT !.correlations = @ + 1])
    BY <1>2 DEF CorrelationOpened
  <2>2. clock' = clock /\ world' = [world EXCEPT !.correlations = @ + 1]
    BY <2>1 DEF Change
  <2>3. PICK linked : linked = world.correlations + 1
    OBVIOUS
  <2>4. world' = WorldIs(world.feed, world.last, world.techs, world.open, world.severity, world.matches,
                         linked, world.criticality)
    BY <2>2, <2>3, WorldNow DEF IInv, Data, WorldIs
  <2>5. linked \in Nat
    BY <2>3, WorldNow DEF IInv, Data
  <2>6. WorldOK'
    BY <2>2, <2>4, <2>5, WorldNow, Elsewhere DEF IInv, Data
  <2> QED
    BY <2>1, <2>6, ChangeStep
<1> QED
  BY <1>1, <1>2

LEMMA CriticalityStep == ASSUME IInv, SetCriticality PROVE IInv'
<1>1. PICK a \in Assets, level \in Levels : Change([world EXCEPT !.criticality[a] = level])
  BY DEF SetCriticality
<1>2. PICK levels : levels = [world.criticality EXCEPT ![a] = level]
  OBVIOUS
<1>3. clock' = clock /\ world' = [world EXCEPT !.criticality = levels]
  BY <1>1, <1>2 DEF Change
<1>4. world' = WorldIs(world.feed, world.last, world.techs, world.open, world.severity, world.matches,
                       world.correlations, levels)
  BY <1>3, WorldNow DEF IInv, Data, WorldIs
<1>5. levels \in [Assets -> Criticalities]
  BY <1>2, ContentAssumption, WorldNow DEF IInv, Data
<1>6. WorldOK'
  BY <1>3, <1>4, <1>5, WorldNow, Elsewhere DEF IInv, Data
<1> QED
  BY <1>1, <1>6, ChangeStep

LEMMA ImportStep == ASSUME IInv, ImportVulnerability PROVE IInv'
<1>1. /\ left' = [left EXCEPT !.spare = @ - 1]
      /\ UNCHANGED <<clock, world, records, cache, matches, scores, events, run, past>>
  BY DEF ImportVulnerability
<1>2. PICK v \in Constraints : catalog' = WithVulnerability(v)
  BY DEF ImportVulnerability
<1>3. PICK id, row : id = v.id /\ row = [product |-> v.product, constraints |-> v.constraints]
  OBVIOUS
<1>4. row.product = v.product /\ v.product # ""
  BY <1>3, ContentAssumption
<1>5. /\ DOMAIN catalog' = DOMAIN catalog \cup {id} /\ catalog'[id] = row
      /\ \A k \in DOMAIN catalog : k # id => catalog'[k] = catalog[k]
  BY <1>2, <1>3 DEF WithVulnerability, Put
<1>6. CatalogOK'
  <2>1. IsFiniteSet(DOMAIN catalog')
    BY <1>5, FS_AddElement DEF IInv, Data, CatalogOK
  <2>2. \A k \in DOMAIN catalog' : ValidVulnerability(k)'
    BY <1>4, <1>5 DEF IInv, Data, CatalogOK, ValidVulnerability
  <2> QED
    BY <2>1, <2>2 DEF CatalogOK
<1>7. Data'
  BY <1>1, <1>6, SameWorld, SameRecords, SameCache, SameMatches DEF IInv, Data, PastOK
<1> QED
  BY <1>1, <1>7, ElsewhereStep

LEMMA TickStep == ASSUME IInv, Tick PROVE IInv'
<1>1. /\ left' = [left EXCEPT !.spare = @ - 1] /\ clock' = clock + 1 /\ world' = world /\ run' = run /\ past' = past
      /\ UNCHANGED <<records, cache, catalog, matches, scores, events>>
  BY DEF Tick, Spend, tables
<1>2. WorldOK'
  BY <1>1 DEF IInv, Data, WorldOK
<1>3. Data'
  BY <1>1, <1>2, SameRecords, SameCache, SameCatalog, SameMatches DEF IInv, Data, PastOK
<1> QED
  BY <1>1, <1>3, ElsewhereStep

LEMMA StutterStep == ASSUME IInv, UNCHANGED vars PROVE IInv'
<1>1. UNCHANGED <<clock, world, records, cache, catalog, matches, scores, events, run, left, past>>
  BY DEF vars
<1>2. Data'
  BY <1>1, SameData DEF IInv
<1> QED
  BY <1>1, <1>2, ElsewhereStep

-----------------------------------------------------------------------------
(* The invariant holds.                                                    *)

LEMMA Initially == Init => IInv
<1> SUFFICES ASSUME Init PROVE IInv
  OBVIOUS
<1>1. WorldOK
  <2>1. PICK last, techs, cert, severity, levels :
           /\ last = [a \in Assets |-> 0] /\ techs = InitialTechs /\ cert = [a \in Assets |-> 1]
           /\ severity = [f \in DOMAIN FindingAsset |-> "high"] /\ levels = [a \in Assets |-> "normal"]
    OBVIOUS
  <2>2. clock = 1 /\ world = [feed |-> "malicious", last |-> last, techs |-> techs, cert |-> cert,
                              open |-> DOMAIN FindingAsset, severity |-> severity, matches |-> 0,
                              correlations |-> 0, criticality |-> levels]
    BY <2>1 DEF Init
  <2>3. /\ world = [feed |-> world.feed, last |-> world.last, techs |-> world.techs, cert |-> world.cert,
                    open |-> world.open, severity |-> world.severity, matches |-> world.matches,
                    correlations |-> world.correlations, criticality |-> world.criticality]
        /\ world.feed = "malicious" /\ world.last = last /\ world.techs = techs /\ world.severity = severity
        /\ world.matches = 0 /\ world.correlations = 0 /\ world.criticality = levels
    BY <2>2
  <2>4. last \in [Assets -> Int] /\ severity \in [DOMAIN FindingAsset -> {"high", "critical"}]
    BY <2>1
  <2>5. levels \in [Assets -> Criticalities]
    BY <2>1 DEF Criticalities
  <2>6. techs = [a \in Assets |-> techs[a]] /\ \A a \in Assets : GoodTechs(techs[a])
    <3>1. InitialTechs = [a \in Assets |-> InitialTechs[a]]
      BY ContentAssumption
    <3>2. ASSUME NEW a \in Assets PROVE GoodTechs(InitialTechs[a])
      <4>1. PICK ts : ts = InitialTechs[a]
        OBVIOUS
      <4>2. ts \in Seq(ToSet(ts)) /\ \A n \in DOMAIN ts : ts[n].sure \in 0..3
        BY <4>1, ContentAssumption
      <4> QED
        BY <4>1, <4>2 DEF GoodTechs, IsSeq
    <3> QED
      BY <2>1, <3>1, <3>2
  <2>7. world.feed \in Verdicts
    BY <2>3 DEF Verdicts
  <2> QED
    BY <2>2, <2>3, <2>4, <2>5, <2>6, <2>7 DEF WorldOK
<1>2. records = <<>> /\ cache = <<>> /\ matches = <<>> /\ DOMAIN <<>> = {}
  BY EmptyList DEF Init
<1>3. PICK none : none = <<>>
  OBVIOUS
<1>4. past = [born |-> none, lost |-> {}, saved |-> {}] /\ DOMAIN none = {}
  BY <1>2, <1>3 DEF Init
<1>5. PastOK /\ past.born = none /\ past.lost = {} /\ past.saved = {}
  BY <1>4 DEF PastOK
<1>6. RecordsOK /\ CacheOK /\ MatchesOK
  BY <1>2, <1>4, <1>5 DEF RecordsOK, CacheOK, MatchesOK
<1>7. CatalogOK
  BY ContentAssumption DEF Init, CatalogOK, ValidVulnerability
<1>8. Data
  BY <1>1, <1>5, <1>6, <1>7 DEF Data
<1>9. left = [jobs |-> MaxJobs, spare |-> MaxDisturbances, stamps |-> none]
  BY <1>3 DEF Init
<1>10. left.jobs = MaxJobs /\ left.stamps = none /\ MaxJobs \in Nat
  BY <1>9, IdentityAssumption
<1>11. LeftOK
  <2>1. MaxJobs \in 0..MaxJobs
    BY <1>10
  <2> QED
    BY <1>4, <1>9, <1>10, <2>1 DEF LeftOK
<1>12. \A c \in Commands : run[c] = Idle /\ run[c].todo = <<>>
  BY IdleOK DEF Init
<1>13. run = [c \in Commands |-> run[c]]
  BY DEF Init
<1>14. RunsOK /\ OwnJobs
  BY <1>12, <1>13, IdleOK DEF RunsOK, OwnJobs
<1>15. ScoresOK
  <2>1. scores = InitialScores
    BY DEF Init
  <2>2. \A e : StampIn(none, e) = 1
    BY <1>4 DEF StampIn
  <2>3. ASSUME NEW r \in scores
        PROVE  ValidScore(r) /\ r.at \in Int /\ r.at < StampIn(left.stamps, r.entity) /\ r.job \in Int /\ r.job \notin 1..left.jobs
    <3>1. ValidScore(r) /\ r.at \in Int /\ r.at <= 0 /\ r.job \in Int /\ r.job <= 0
      BY <2>1, ContentAssumption
    <3>2. StampIn(left.stamps, r.entity) = 1
      BY <1>10, <2>2
    <3>3. r.at < 1
      BY <3>1
    <3>4. r.job \notin 1..left.jobs
      BY <1>10, <3>1
    <3> QED
      BY <3>1, <3>2, <3>3, <3>4
  <2>4. Supported(scores)
    BY <2>1, ContentAssumption
  <2> QED
    BY <2>3, <2>4 DEF ScoresOK
<1>16. Scoring
  BY <1>11, <1>14, <1>15 DEF Scoring
<1>17. DOMAIN EmptyBag = {}
  BY DEF EmptyBag, SetToBag
<1>18. PICK B : B = EmptyBag
  OBVIOUS
<1>19. events = [kind \in {"verdict", "match", "rise"} |-> B] /\ DOMAIN B = {}
  BY <1>17, <1>18 DEF Init
<1>20. /\ events = [verdict |-> events.verdict, match |-> events.match, rise |-> events.rise]
       /\ events.verdict = B /\ events.match = B /\ events.rise = B
  BY <1>19
<1>21. EventsOK
  BY <1>19, <1>20 DEF EventsOK, RisesTraceable
<1>22. TellsOK
  <2> SUFFICES ASSUME NEW key PROVE TellOK(Told(key), events.match, Waiting(key), key \in past.lost, Due(key))
    BY DEF TellsOK
  <2>1. Told(key) = {}
    BY <1>19, <1>20 DEF Told
  <2>2. Waiting(key) = {}
    BY <1>12 DEF Waiting, Doing
  <2>3. ~Due(key) /\ key \notin past.lost
    BY <1>2, <1>5 DEF Due
  <2> QED
    BY <2>1, <2>2, <2>3 DEF TellOK
<1> QED
  BY <1>8, <1>16, <1>21, <1>22 DEF IInv

LEMMA CommandStep ==
    ASSUME IInv, NEW c \in Commands,
           \/ LookupCommand(c) \/ EnrichCommand(c) \/ RefreshCommand(c) \/ EnrichProjectCommand(c)
           \/ RiskAssetCommand(c) \/ RiskFindingCommand(c) \/ RiskInvestigationCommand(c) \/ ReadAsset(c) \/ ReadKnown(c)
           \/ ShowStored(c) \/ AskCache(c) \/ ProviderAnswers(c) \/ ProviderFails(c) \/ WriteCache(c) \/ Invalidate(c)
           \/ SaveRecord(c) \/ EmitVerdictChange(c) \/ ListCatalog(c) \/ UpsertMatch(c) \/ RecordMatchEvent(c)
           \/ ReadRiskInput(c) \/ ReadPrevious(c) \/ CreateScore(c) \/ RecordRise(c) \/ ScoreInvestigation(c)
    PROVE  IInv'
BY LookupStep, EnrichStep, RefreshStep, ProjectStep, RiskAssetStep, RiskFindingStep, RiskInvestigationStep, ReadAssetStep,
   ReadKnownStep, ShowStoredStep, AskCacheStep, ProviderAnswersStep, ProviderFailsStep, WriteCacheStep, InvalidateStep,
   SaveRecordStep, EmitVerdictStep, ListCatalogStep, UpsertMatchStep, RecordMatchStep, ReadRiskStep, ReadPreviousStep,
   CreateScoreStep, RecordRiseStep, ScoreInvestigationStep

(* The inductive invariant: tables, memory of the commands, numbers of      *)
(* their scores, and announcements in step with the matches first stored.   *)
THEOREM EnrichmentInvariant == Spec => []IInv
<1>1. IInv /\ [Next]_vars => IInv'
  <2> SUFFICES ASSUME IInv, [Next]_vars PROVE IInv'
    OBVIOUS
  <2>1. CASE UNCHANGED vars
    BY <2>1, StutterStep
  <2>2. ASSUME NEW c \in Commands,
           \/ LookupCommand(c) \/ EnrichCommand(c) \/ RefreshCommand(c) \/ EnrichProjectCommand(c)
           \/ RiskAssetCommand(c) \/ RiskFindingCommand(c) \/ RiskInvestigationCommand(c) \/ ReadAsset(c) \/ ReadKnown(c)
           \/ ShowStored(c) \/ AskCache(c) \/ ProviderAnswers(c) \/ ProviderFails(c) \/ WriteCache(c) \/ Invalidate(c)
           \/ SaveRecord(c) \/ EmitVerdictChange(c) \/ ListCatalog(c) \/ UpsertMatch(c) \/ RecordMatchEvent(c)
           \/ ReadRiskInput(c) \/ ReadPrevious(c) \/ CreateScore(c) \/ RecordRise(c) \/ ScoreInvestigation(c)
        PROVE IInv'
    BY <2>2, CommandStep
  <2>3. CASE \/ FeedChanges \/ AssetObserved \/ TechnologyObserved \/ FindingChanges \/ MatchOpened
             \/ CorrelationOpened \/ SetCriticality \/ ImportVulnerability \/ Tick
    BY <2>3, FeedStep, ObservedStep, TechnologyStep, FindingStep, OpenedStep, CriticalityStep, ImportStep, TickStep
  <2> QED
    BY <2>1, <2>2, <2>3 DEF Next
<1> QED
  BY <1>1, Initially, PTL DEF Spec

(* Every row enrichment stores - of records, catalogue, matches, scores,    *)
(* verdict events and criticalities - is one its domain type calls valid.   *)
THEOREM RowsStayValid == Spec => []RowsValid
<1>1. IInv => RowsValid
  <2> SUFFICES ASSUME IInv PROVE RowsValid
    OBVIOUS
  <2>1. (\A k \in DOMAIN records : ValidRecord(k)) /\ (\A v \in DOMAIN catalog : ValidVulnerability(v))
    BY DEF IInv, Data, RecordsOK, CatalogOK
  <2>2. (\A key \in DOMAIN matches : ValidMatch(matches[key])) /\ \A r \in scores : ValidScore(r)
    BY DEF IInv, Data, MatchesOK, Scoring, ScoresOK
  <2>3. \A e \in DOMAIN events.verdict : ValidVerdictEvent(e)
    BY DEF IInv, EventsOK
  <2>4. \A a \in Assets : world.criticality[a] \in Criticalities
    BY DEF IInv, Data, WorldOK
  <2> QED
    BY <2>1, <2>2, <2>3, <2>4 DEF RowsValid
<1> QED
  BY <1>1, EnrichmentInvariant, PTL

(* A match is announced by one event, and only where it was confirmed or    *)
(* probable when first stored, however many commands store it again.        *)
THEOREM AnnouncedOnce == Spec => []MatchAnnouncedOnce
<1>1. ASSUME IInv, NEW key \in DOMAIN matches
      PROVE  /\ \A e \in Told(key) : events.match[e] = 1
             /\ Cardinality(Told(key)) + Cardinality(Waiting(key))
                  = IF past.born[key] \in Announced /\ key \notin past.lost THEN 1 ELSE 0
  <2>1. TellOK(Told(key), events.match, Waiting(key), key \in past.lost, Due(key))
    BY <1>1 DEF IInv, TellsOK
  <2>2. Due(key) <=> past.born[key] \in Announced
    BY <1>1 DEF Due
  <2>3. Cardinality({}) = 0 /\ \A x : Cardinality({x}) = 1
    BY FS_EmptySet, FS_Singleton
  <2>4. PICK told, waiting, p, q : told = Told(key) /\ waiting = Waiting(key) /\ p = Cardinality(told) /\ q = Cardinality(waiting)
    OBVIOUS
  <2>5. \/ p = 1 /\ q = 0 /\ Due(key) /\ key \notin past.lost
        \/ p = 0 /\ q = 1 /\ Due(key) /\ key \notin past.lost
        \/ p = 0 /\ q = 0 /\ ~(Due(key) /\ key \notin past.lost)
    BY <2>1, <2>3, <2>4 DEF TellOK, ToldOnce
  <2>6. p + q = IF past.born[key] \in Announced /\ key \notin past.lost THEN 1 ELSE 0
    BY <2>2, <2>5
  <2>7. \A e \in Told(key) : events.match[e] = 1
    BY <2>1 DEF TellOK, ToldOnce
  <2> QED
    BY <2>4, <2>6, <2>7
<1>2. IInv => MatchAnnouncedOnce
  BY <1>1 DEF MatchAnnouncedOnce, Told, Waiting
<1> QED
  BY <1>2, EnrichmentInvariant, PTL

(* What is stored as last seen is the latest any command saved, in whatever *)
(* order the commands save what they read.                                  *)
THEOREM LatestSightingKept == Spec => []LastSeenKept
<1>1. IInv => LastSeenKept
  BY DEF IInv, Data, RecordsOK, LastSeenKept
<1> QED
  BY <1>1, EnrichmentInvariant, PTL

(* A rise is announced between two stored scores of the entity, also when   *)
(* other commands score it between the reading and the storing.             *)
THEOREM RisesAreTraceable == Spec => []RisesTraceable
<1>1. IInv => RisesTraceable
  BY DEF IInv, EventsOK
<1> QED
  BY <1>1, EnrichmentInvariant, PTL

(* An investigation scores what the worst of its assets scored for the same *)
(* command, whatever other commands store for these assets meanwhile.       *)
THEOREM InvestigationsSupported == Spec => []InvestigationSupported
<1>1. IInv => InvestigationSupported
  BY DEF IInv, Scoring, ScoresOK, InvestigationSupported
<1> QED
  BY <1>1, EnrichmentInvariant, PTL
=============================================================================
