------------------------- MODULE Reporting_proofs -------------------------
(* What an investigation promises whatever commands overlap, whatever       *)
(* statement is lost and wherever a command dies, for any tables and any    *)
(* number of processes: proofs of the invariants of Casework and Reporting. *)
EXTENDS Reporting, FiniteSetTheorems, SequenceTheorems, WellFoundedInduction,
        NaturalsInduction, TLAPS

-----------------------------------------------------------------------------
(* Sequences whose elements are of many shapes.                            *)

IsSeq(s) == s \in Seq(ToSet(s))

LEMMA SeqFacts ==
    ASSUME NEW s, IsSeq(s)
    PROVE  /\ Len(s) \in Nat /\ DOMAIN s = 1..Len(s)
           /\ \A n \in DOMAIN s : s[n] \in ToSet(s)
BY LenProperties DEF IsSeq, ToSet

LEMMA OfSeq ==
    ASSUME NEW S, NEW s \in Seq(S)
    PROVE  /\ IsSeq(s) /\ Len(s) \in Nat /\ DOMAIN s = 1..Len(s)
           /\ \A n \in DOMAIN s : s[n] \in S
<1>1. Len(s) \in Nat /\ DOMAIN s = 1..Len(s) /\ s \in [1..Len(s) -> S]
  BY LenProperties
<1>2. s = [n \in 1..Len(s) |-> s[n]]
  BY <1>1
<1>3. \A n \in 1..Len(s) : s[n] \in ToSet(s)
  BY <1>1 DEF ToSet
<1>4. [n \in 1..Len(s) |-> s[n]] \in Seq(ToSet(s))
  BY <1>1, <1>3, IsASeq
<1> QED
  BY <1>1, <1>2, <1>4 DEF IsSeq

LEMMA SeqIn ==
    ASSUME NEW S, NEW s, IsSeq(s), \A n \in DOMAIN s : s[n] \in S
    PROVE  s \in Seq(S)
BY SeqMonotonic DEF IsSeq, ToSet

(* A function on 1..N is a sequence.                                       *)
LEMMA Listed ==
    ASSUME NEW N \in Nat, NEW s, s = [n \in 1..N |-> s[n]]
    PROVE  IsSeq(s) /\ Len(s) = N
<1>1. DOMAIN s = 1..N
  OBVIOUS
<1>2. \A n \in 1..N : s[n] \in ToSet(s)
  BY <1>1 DEF ToSet
<1>3. [n \in 1..N |-> s[n]] \in Seq(ToSet(s))
  BY <1>2, IsASeq
<1> QED
  BY <1>3, <1>1, OfSeq DEF IsSeq

LEMMA Joined ==
    ASSUME NEW s, NEW t, IsSeq(s), IsSeq(t)
    PROVE  /\ IsSeq(s \o t) /\ Len(s \o t) = Len(s) + Len(t)
           /\ \A n \in 1..Len(s) : (s \o t)[n] = s[n]
           /\ \A n \in 1..Len(t) : (s \o t)[Len(s) + n] = t[n]
<1> DEFINE S == ToSet(s) \cup ToSet(t)
<1>1. s \in Seq(S) /\ t \in Seq(S) /\ Len(s) \in Nat /\ Len(t) \in Nat
  BY SeqMonotonic, SeqFacts DEF IsSeq
<1>2. /\ s \o t \in Seq(S) /\ Len(s \o t) = Len(s) + Len(t)
      /\ \A n \in 1..(Len(s) + Len(t)) : (s \o t)[n] = IF n <= Len(s) THEN s[n] ELSE t[n - Len(s)]
  BY <1>1, ConcatProperties
<1>3. IsSeq(s \o t)
  BY <1>2, OfSeq
<1> QED
  BY <1>1, <1>2, <1>3

LEMMA Rest ==
    ASSUME NEW s, IsSeq(s), s # <<>>
    PROVE  /\ Len(s) \in Nat \ {0} /\ Head(s) = s[1]
           /\ IsSeq(Tail(s)) /\ Len(Tail(s)) = Len(s) - 1
           /\ \A n \in 1..(Len(s) - 1) : Tail(s)[n] = s[n + 1]
<1>1. s \in Seq(ToSet(s))
  BY DEF IsSeq
<1>2. Tail(s) \in Seq(ToSet(s)) /\ Len(Tail(s)) = Len(s) - 1
      /\ \A n \in 1..Len(Tail(s)) : Tail(s)[n] = s[n + 1]
  BY <1>1, HeadTailProperties
<1>3. Len(s) \in Nat \ {0} /\ Head(s) = s[1]
  BY <1>1, EmptySeq
<1> QED
  BY <1>2, <1>3, OfSeq

LEMMA Single ==
    ASSUME NEW x
    PROVE  IsSeq(<<x>>) /\ <<x>> \in Seq({x}) /\ Len(<<x>>) = 1 /\ <<x>>[1] = x
<1>1. <<x>> \in Seq({x})
  OBVIOUS
<1> QED
  BY <1>1, OfSeq

LEMMA Empty ==
    IsSeq(<<>>) /\ Len(<<>>) = 0 /\ DOMAIN <<>> = {} /\ \A S : <<>> \in Seq(S)
<1>1. \A S : <<>> \in Seq(S)
  BY EmptySeq
<1>2. <<>> \in Seq({}) /\ Len(<<>>) = 0
  BY <1>1, EmptySeq
<1>3. IsSeq(<<>>) /\ DOMAIN <<>> = 1..0
  BY <1>2, OfSeq
<1> QED
  BY <1>1, <1>2, <1>3

-----------------------------------------------------------------------------
(* Recursive functions: there is one, and its values stay in a set that its *)
(* steps do not leave.                                                     *)

(* f runs through the steps one by one, from b.                            *)
Steps(S, N) == [1..N -> [S -> S]]
Solves(f, S, N, b, step) ==
    /\ f \in [0..N -> S]
    /\ f[0] = b /\ \A n \in 1..N : f[n] = step[n][f[n - 1]]

(* A recursion along 1..N has a solution: otherwise take the least length  *)
(* for which there is none, and extend the solution one shorter.           *)
LEMMA Recursion ==
    ASSUME NEW S, NEW N \in Nat, NEW b \in S, NEW step \in Steps(S, N)
    PROVE  \E f : Solves(f, S, N, b, step)
<1> DEFINE Some(m) == \E f : Solves(f, S, m, b, step)
           T == {m \in 0..N : ~Some(m)}
<1>1. SUFFICES ASSUME T # {} PROVE FALSE
  <2> HIDE DEF Some
  <2>1. N \in 0..N
    OBVIOUS
  <2>2. Some(N)
    BY <2>1
  <2> QED
    BY <2>2 DEF Some
<1>2. T \subseteq 0..N /\ 0..N \subseteq Nat
  <2> HIDE DEF Some
  <2> QED
    OBVIOUS
<1>3. PICK m \in T : \A k \in T : ~ (<<k, m>> \in OpToRel(<, Nat))
  BY <1>1, <1>2, NatLessThanWellFounded, WFMin
<1>4. \A k \in T : ~ (k < m)
  BY <1>2, <1>3 DEF OpToRel
<1>5. m \in 0..N /\ ~Some(m)
  OBVIOUS
<1>6. CASE m = 0
  <2> DEFINE f == [n \in 0..0 |-> b]
  <2>1. Solves(f, S, m, b, step)
    BY <1>6 DEF Solves
  <2> QED
    BY <1>5, <2>1
<1>7. CASE m # 0
  <2>1. m - 1 \in 0..N /\ m - 1 < m
    BY <1>5, <1>7
  <2>2. m - 1 \notin T
    BY <1>4, <2>1
  <2>3. PICK f : Solves(f, S, m - 1, b, step)
    BY <2>1, <2>2
  <2> DEFINE g == [n \in 0..m |-> IF n = m THEN step[m][f[m - 1]] ELSE f[n]]
  <2>4. m \in 1..N /\ m - 1 \in 0..(m - 1)
    BY <1>5, <1>7
  <2>5. step[m][f[m - 1]] \in S
    BY <2>3, <2>4 DEF Solves, Steps
  <2>6. \A n \in 0..m : n # m => n \in 0..(m - 1)
    BY <2>4
  <2>7. g \in [0..m -> S]
    BY <2>3, <2>5, <2>6 DEF Solves
  <2>8. g[0] = b
    BY <1>7, <2>3, <2>4 DEF Solves
  <2>9. \A n \in 1..m : g[n] = step[n][g[n - 1]]
    <3> SUFFICES ASSUME NEW n \in 1..m PROVE g[n] = step[n][g[n - 1]]
      OBVIOUS
    <3>1. n - 1 \in 0..m /\ n \in 0..m /\ n - 1 # m
      BY <2>4
    <3>2. g[n - 1] = f[n - 1]
      BY <3>1
    <3>3. CASE n = m
      BY <3>1, <3>2, <3>3
    <3>4. CASE n # m
      <4>1. n \in 1..(m - 1)
        BY <2>4, <3>4
      <4>2. f[n] = step[n][f[n - 1]]
        BY <2>3, <4>1 DEF Solves
      <4> QED
        BY <3>1, <3>2, <3>4, <4>2
    <3> QED
      BY <3>3, <3>4
  <2>10. Solves(g, S, m, b, step)
    BY <2>7, <2>8, <2>9 DEF Solves
  <2> QED
    BY <1>5, <2>10
<1> QED
  BY <1>6, <1>7

LEMMA Upward ==
    ASSUME NEW S, NEW N \in Nat, NEW h, h[0] \in S, \A n \in 1..N : h[n - 1] \in S => h[n] \in S
    PROVE  \A n \in 0..N : h[n] \in S
<1> DEFINE T == {n \in 0..N : h[n] \notin S}
<1>1. SUFFICES ASSUME T # {} PROVE FALSE
  OBVIOUS
<1>2. T \subseteq Nat
  OBVIOUS
<1>3. PICK n \in T : \A k \in T : ~ (<<k, n>> \in OpToRel(<, Nat))
  BY <1>1, <1>2, NatLessThanWellFounded, WFMin
<1>4. \A k \in T : ~ (k < n)
  BY <1>2, <1>3 DEF OpToRel
<1>5. n \in 1..N /\ n - 1 \in 0..N /\ n - 1 < n
  OBVIOUS
<1>6. h[n - 1] \in S
  BY <1>4, <1>5
<1> QED
  BY <1>5, <1>6

LEMMA Chosen ==
    ASSUME NEW S, NEW s \in Seq(S), NEW I
    PROVE  Picked(s, I) \in Seq(S)
<1> DEFINE N == Len(s)
           step == [n \in 1..N |-> [u \in Seq(S) |-> IF n \in I THEN Append(u, s[n]) ELSE u]]
           Body(g) == [n \in 0..N |-> IF n = 0 THEN <<>>
                                      ELSE IF n \in I THEN Append(g[n - 1], s[n]) ELSE g[n - 1]]
<1>1. N \in Nat /\ \A n \in 1..N : s[n] \in S
  BY LenProperties, ElementOfSeq
<1>2. step \in Steps(Seq(S), N)
  BY <1>1 DEF Steps
<1>3. PICK f : Solves(f, Seq(S), N, <<>>, step)
  <2>1. \A M \in Nat : \A b \in Seq(S) : \A st \in Steps(Seq(S), M) : \E f : Solves(f, Seq(S), M, b, st)
    BY Recursion
  <2>2. <<>> \in Seq(S)
    OBVIOUS
  <2> HIDE DEF N, step
  <2> QED
    BY <1>1, <1>2, <2>1, <2>2
<1>4. f \in [0..N -> Seq(S)] /\ f[0] = <<>>
      /\ \A n \in 1..N : f[n] = IF n \in I THEN Append(f[n - 1], s[n]) ELSE f[n - 1]
  <2>1. f \in [0..N -> Seq(S)] /\ f[0] = <<>>
    BY <1>3 DEF Solves
  <2> SUFFICES ASSUME NEW n \in 1..N PROVE f[n] = IF n \in I THEN Append(f[n - 1], s[n]) ELSE f[n - 1]
    BY <2>1
  <2>2. f[n - 1] \in Seq(S)
    BY <1>1, <2>1
  <2> QED
    BY <1>3, <2>2 DEF Solves
<1>5. f = Body(f)
  <2> HIDE DEF N
  <2>1. \A n \in 0..N : n # 0 => n \in 1..N
    BY <1>1
  <2>2. \A n \in 0..N : f[n] = IF n = 0 THEN <<>> ELSE IF n \in I THEN Append(f[n - 1], s[n]) ELSE f[n - 1]
    BY <1>4, <2>1
  <2>3. f = [n \in 0..N |-> f[n]]
    BY <1>4
  <2> QED
    BY <2>2, <2>3
<1>6. PICK h : h = (CHOOSE g : g = Body(g))
  OBVIOUS
<1>7. h = Body(h)
  <2> HIDE DEF Body
  <2> QED
    BY <1>5, <1>6
<1>8. Picked(s, I) = h[N]
  BY <1>6 DEF Picked
<1>11. \A n \in 0..N : h[n] = IF n = 0 THEN <<>> ELSE IF n \in I THEN Append(h[n - 1], s[n]) ELSE h[n - 1]
  <2> DEFINE b == Body(h)
  <2>1. \A n \in 0..N : b[n] = IF n = 0 THEN <<>> ELSE IF n \in I THEN Append(h[n - 1], s[n]) ELSE h[n - 1]
    <3> HIDE DEF N
    <3> QED
      OBVIOUS
  <2>2. h = b
    BY <1>7
  <2> HIDE DEF b
  <2> QED
    BY <2>1, <2>2
<1>9. h[0] \in Seq(S) /\ \A n \in 1..N : h[n - 1] \in Seq(S) => h[n] \in Seq(S)
  <2>1. h[0] = <<>>
    BY <1>1, <1>11
  <2> SUFFICES ASSUME NEW n \in 1..N, h[n - 1] \in Seq(S) PROVE h[n] \in Seq(S)
    BY <2>1
  <2>2. h[n] = IF n \in I THEN Append(h[n - 1], s[n]) ELSE h[n - 1]
    <3>1. n \in 0..N /\ n # 0
      BY <1>1
    <3> QED
      BY <1>11, <3>1
  <2> QED
    BY <1>1, <2>2
<1>10. \A n \in 0..N : h[n] \in Seq(S)
  <2> HIDE DEF N
  <2> QED
    BY <1>1, <1>9, Upward
<1> QED
  BY <1>1, <1>8, <1>10

(* Joining lists goes one list after the other.                            *)
JoinedBy(h, ss) == \A n \in 1..Len(ss) : h[n] = IF n = 1 THEN ss[n] ELSE h[n - 1] \o ss[n]
LEMMA FlattenSteps ==
    ASSUME NEW S, NEW ss \in Seq(Seq(S))
    PROVE  \E h : JoinedBy(h, ss) /\ FlattenSeq(ss) = IF Len(ss) = 0 THEN ss ELSE h[Len(ss)]
<1> DEFINE N == Len(ss)
           step == [n \in 1..N |-> [u \in Seq(S) |-> IF n = 1 THEN ss[n] ELSE u \o ss[n]]]
           Body(g) == [i \in 1..N |-> IF i = 1 THEN ss[i] ELSE g[i - 1] \o ss[i]]
<1>1. N \in Nat /\ \A n \in 1..N : ss[n] \in Seq(S)
  BY LenProperties, ElementOfSeq
<1>2. step \in Steps(Seq(S), N)
  BY <1>1 DEF Steps
<1>3. PICK f : Solves(f, Seq(S), N, <<>>, step)
  <2>1. \A M \in Nat : \A b \in Seq(S) : \A st \in Steps(Seq(S), M) : \E f : Solves(f, Seq(S), M, b, st)
    BY Recursion
  <2>2. <<>> \in Seq(S)
    OBVIOUS
  <2> HIDE DEF N, step
  <2> QED
    BY <1>1, <1>2, <2>1, <2>2
<1>4. \A n \in 1..N : f[n] \in Seq(S) /\ f[n] = IF n = 1 THEN ss[n] ELSE f[n - 1] \o ss[n]
  <2>1. f \in [0..N -> Seq(S)]
    BY <1>3 DEF Solves
  <2>2. ASSUME NEW n \in 1..N PROVE f[n] = IF n = 1 THEN ss[n] ELSE f[n - 1] \o ss[n]
    <3>1. f[n - 1] \in Seq(S)
      BY <1>1, <2>1
    <3> QED
      BY <1>3, <3>1 DEF Solves
  <2>3. \A n \in 1..N : f[n] \in Seq(S)
    <3> HIDE DEF N
    <3> QED
      BY <1>1, <2>1
  <2> QED
    BY <2>2, <2>3
<1> DEFINE g0 == [n \in 1..N |-> f[n]]
<1>5. g0 = Body(g0)
  BY <1>1, <1>4
<1>6. PICK h : h = (CHOOSE g : g = Body(g))
  OBVIOUS
<1>7. h = Body(h)
  <2> HIDE DEF g0, N
  <2> QED
    BY <1>5, <1>6
<1>8. FlattenSeq(ss) = IF N = 0 THEN ss ELSE h[N]
  BY <1>6 DEF FlattenSeq
<1>11. \A n \in 1..N : h[n] = IF n = 1 THEN ss[n] ELSE h[n - 1] \o ss[n]
  <2> DEFINE b == Body(h)
  <2>1. \A n \in 1..N : b[n] = IF n = 1 THEN ss[n] ELSE h[n - 1] \o ss[n]
    <3> HIDE DEF N
    <3> QED
      OBVIOUS
  <2>2. h = b
    BY <1>7
  <2> HIDE DEF b
  <2> QED
    BY <2>1, <2>2
<1> QED
  BY <1>8, <1>11 DEF JoinedBy

LEMMA JoinedIn ==
    ASSUME NEW S, NEW ss \in Seq(Seq(S)), NEW h, JoinedBy(h, ss)
    PROVE  \A n \in 1..Len(ss) : h[n] \in Seq(S)
<1> DEFINE N == Len(ss)
<1>1. N \in Nat /\ \A n \in 1..N : ss[n] \in Seq(S)
  BY LenProperties, ElementOfSeq
<1>11. \A n \in 1..N : h[n] = IF n = 1 THEN ss[n] ELSE h[n - 1] \o ss[n]
  BY DEF JoinedBy
<1>12. \A n \in 1..N : h[n] \in Seq(S)
  <2> DEFINE k == [n \in 0..N |-> IF n = 0 THEN <<>> ELSE h[n]]
  <2>1. k[0] \in Seq(S) /\ \A n \in 1..N : k[n - 1] \in Seq(S) => k[n] \in Seq(S)
    <3>1. k[0] \in Seq(S)
      BY <1>1, EmptySeq
    <3>4. ASSUME NEW n \in 1..N, k[n - 1] \in Seq(S) PROVE k[n] \in Seq(S)
      <4>1. n \in 0..N /\ n # 0 /\ n - 1 \in 0..N
        BY <1>1
      <4>2. k[n] = h[n] /\ h[n] = IF n = 1 THEN ss[n] ELSE h[n - 1] \o ss[n]
        BY <1>11, <4>1
      <4>3. n # 1 => k[n - 1] = h[n - 1]
        BY <4>1
      <4> HIDE DEF k
      <4>4. CASE n = 1
        BY <1>1, <4>2, <4>4
      <4>5. CASE n # 1
        BY <1>1, <3>4, <4>2, <4>3, <4>5
      <4> QED
        BY <4>4, <4>5
    <3> HIDE DEF k
    <3> QED
      BY <3>1, <3>4
  <2>2. \A n \in 0..N : k[n] \in Seq(S)
    <3> HIDE DEF N, k
    <3> QED
      BY <1>1, <2>1, Upward
  <2>3. \A n \in 1..N : n \in 0..N /\ n # 0
    BY <1>1
  <2> QED
    BY <2>2, <2>3
<1> QED
  BY <1>12

(* What a list of lists holds, its lists hold.                             *)
LEMMA Flattened ==
    ASSUME NEW S, NEW ss \in Seq(Seq(S))
    PROVE  FlattenSeq(ss) \in Seq(S)
<1>1. PICK h : JoinedBy(h, ss) /\ FlattenSeq(ss) = IF Len(ss) = 0 THEN ss ELSE h[Len(ss)]
  BY FlattenSteps
<1>2. Len(ss) \in Nat
  BY LenProperties
<1>3. CASE Len(ss) = 0
  BY <1>1, <1>3, EmptySeq
<1>4. CASE Len(ss) # 0
  BY <1>1, <1>2, <1>4, JoinedIn
<1> QED
  BY <1>3, <1>4

LEMMA FlattenHolds ==
    ASSUME NEW S, NEW ss \in Seq(Seq(S)), NEW k \in DOMAIN ss, NEW x \in ToSet(ss[k])
    PROVE  x \in ToSet(FlattenSeq(ss))
<1>1. PICK h : JoinedBy(h, ss) /\ FlattenSeq(ss) = IF Len(ss) = 0 THEN ss ELSE h[Len(ss)]
  BY FlattenSteps
<1>2. PICK N \in Nat : N = Len(ss)
  BY LenProperties
<1>3. DOMAIN ss = 1..N /\ \A n \in 1..N : ss[n] \in Seq(S) /\ h[n] \in Seq(S)
  BY <1>1, <1>2, JoinedIn, LenProperties, ElementOfSeq
<1> DEFINE T == {u \in Seq(S) : x \in ToSet(u)}
           g == [m \in 0..(N - k) |-> h[k + m]]
<1>4. ASSUME NEW u \in Seq(S), NEW v \in Seq(S), x \in ToSet(u) \/ x \in ToSet(v)
      PROVE  x \in ToSet(u \o v)
  <2>1. IsSeq(u) /\ IsSeq(v)
    BY OfSeq
  <2>2. /\ IsSeq(u \o v) /\ Len(u \o v) = Len(u) + Len(v)
        /\ \A n \in 1..Len(u) : (u \o v)[n] = u[n]
        /\ \A n \in 1..Len(v) : (u \o v)[Len(u) + n] = v[n]
    BY <2>1, Joined
  <2>3. /\ Len(u) \in Nat /\ Len(v) \in Nat /\ DOMAIN u = 1..Len(u) /\ DOMAIN v = 1..Len(v)
        /\ DOMAIN (u \o v) = 1..(Len(u) + Len(v))
    BY <2>1, <2>2, SeqFacts
  <2>4. CASE x \in ToSet(u)
    <3>1. PICK n \in 1..Len(u) : x = u[n]
      BY <2>3, <2>4 DEF ToSet
    <3>2. n \in DOMAIN (u \o v) /\ (u \o v)[n] = x
      BY <2>2, <2>3, <3>1
    <3> QED
      BY <3>2 DEF ToSet
  <2>5. CASE x \in ToSet(v)
    <3>1. PICK n \in 1..Len(v) : x = v[n]
      BY <2>3, <2>5 DEF ToSet
    <3>2. Len(u) + n \in DOMAIN (u \o v) /\ (u \o v)[Len(u) + n] = x
      BY <2>2, <2>3, <3>1
    <3> QED
      BY <3>2 DEF ToSet
  <2> QED
    BY <1>4, <2>4, <2>5
<1>5. k \in 1..N /\ N - k \in Nat
  BY <1>3
<1>6. g[0] \in T
  <2>1. h[k] = IF k = 1 THEN ss[k] ELSE h[k - 1] \o ss[k]
    BY <1>1, <1>2, <1>5 DEF JoinedBy
  <2>2. k # 1 => k - 1 \in 1..N
    BY <1>5
  <2>3. x \in ToSet(h[k]) /\ h[k] \in Seq(S)
    BY <1>3, <1>4, <1>5, <2>1, <2>2
  <2>4. g[0] = h[k]
    BY <1>5
  <2> QED
    BY <2>3, <2>4
<1>7. ASSUME NEW m \in 1..(N - k), g[m - 1] \in T PROVE g[m] \in T
  <2>1. k + m \in 1..N /\ k + m # 1 /\ k + m - 1 \in 1..N /\ m - 1 \in 0..(N - k) /\ m \in 0..(N - k)
        /\ k + (m - 1) = k + m - 1
    BY <1>5
  <2>2. h[k + m] = h[k + m - 1] \o ss[k + m]
    <3>1. PICK n : n = k + m
      OBVIOUS
    <3>2. n \in 1..Len(ss) /\ n # 1
      BY <1>2, <2>1, <3>1
    <3>3. h[n] = h[n - 1] \o ss[n]
      BY <1>1, <3>2 DEF JoinedBy
    <3>4. k \in Nat /\ m \in Nat /\ n \in Nat
      BY <1>5, <3>1
    <3>5. n - 1 = k + m - 1
      BY <3>1, <3>4
    <3> QED
      BY <3>1, <3>3, <3>5
  <2>3. g[m - 1] = h[k + m - 1] /\ g[m] = h[k + m]
    BY <2>1
  <2>4. x \in ToSet(h[k + m - 1])
    BY <1>7, <2>3
  <2>5. x \in ToSet(h[k + m]) /\ h[k + m] \in Seq(S)
    BY <1>3, <1>4, <2>1, <2>2, <2>4
  <2> QED
    BY <2>3, <2>5
<1>8. \A m \in 0..(N - k) : g[m] \in T
  <2> HIDE DEF g, T
  <2> QED
    BY <1>5, <1>6, <1>7, Upward
<1>9. g[N - k] = h[N]
  BY <1>5
<1>10. x \in ToSet(h[N])
  BY <1>5, <1>8, <1>9
<1> QED
  BY <1>1, <1>2, <1>5, <1>10

-----------------------------------------------------------------------------
(* The rows.                                                               *)

RowFields == {"status", "priority", "severity", "confidence", "by", "assigned", "version", "first", "last", "closed"}
RowOk(r) ==
    /\ r = [f \in RowFields |-> r[f]]
    /\ r.status \in Statuses /\ r.version \in Nat /\ r.first \in Nat /\ r.last \in Nat

RefOk(r) ==
    /\ r.type \in {"finding", "asset", "endpoint"} /\ r.observed \in Nat
    /\ r.type = "finding" => r.id \in IdsOf(FindingTable) /\ r.observed = ById(FindingTable, r.id).first
    /\ r.type = "asset" => r.id \in IdsOf(AssetTable)
    /\ r.type = "endpoint" => r.id \in IdsOf(EndpointTable)

StatusEvents == {<<"status_changed", <<s, t>>>> : s \in Statuses, t \in Statuses}
Entering(s) == {<<"status_changed", <<t, s>>>> : t \in Statuses}
Leaving(s) == {<<"status_changed", <<s, t>>>> : t \in Statuses}
Reopening(i) == {<<"investigation_reopened", i>>}
ClosedToOpen == {<<"status_changed", <<"closed", "open">>>>}

Copies(b) == UNION {{<<e, n>> : n \in 1..b[e]} : e \in DOMAIN b}
BagOk(b) ==
    /\ b = [e \in DOMAIN b |-> b[e]] /\ IsFiniteSet(Copies(b))
    /\ \A e \in DOMAIN b : b[e] \in Nat \ {0} /\ (e[1] = "status_changed" => e \in StatusEvents)

ReportFields == {"type", "subject", "refs", "by", "version", "status", "approvedBy"}
Of(rs, type, subject) == {r \in DOMAIN rs : rs[r].type = type /\ rs[r].subject = subject}
OfIdentity(type, subject) == Of(reports, type, subject)

(* What the evidence makes an investigation observe, and the facts that an *)
(* event of the timeline stands for.                                       *)
ObservedBy(e) == ({e.observed} \cup (IF e.type = "finding" THEN {ById(FindingTable, e.id).last} ELSE {})) \ {0}
At(i) == UNION {ObservedBy(evidence[i][n]) : n \in DOMAIN evidence[i]}

FactTypes == {"finding_attached", "finding_created", "evidence_attached", "relationship_created"}
Known(i, e) ==
    \/ /\ e[1] \in {"finding_attached", "finding_created"}
       /\ \E n \in DOMAIN evidence[i] : evidence[i][n].type = "finding" /\ evidence[i][n].id = e[2]
    \/ /\ e[1] = "evidence_attached"
       /\ \E n \in DOMAIN evidence[i] : evidence[i][n].type # "finding" /\ evidence[i][n].id = e[2]
    \/ e[1] = "relationship_created" /\ e[2] \in DOMAIN links[i]

-----------------------------------------------------------------------------
(* The statements a process still has to run fit the rows there are.       *)

CreateOk(j) ==
    /\ RowOk(j.row) /\ j.row.status = "new" /\ j.row.first = 0 /\ j.row.last = 0
    /\ j.finding \in IdsOf(FindingTable) \cup {NoOne} /\ j.asset \in IdsOf(AssetTable) \cup {NoOne}
    /\ j.cluster \in {0} \cup DOMAIN clusters
AttachOk(j) == j.inv \in DOMAIN inv /\ RefOk(j.ref)
WidenOk(j) == j.inv \in DOMAIN inv /\ j.observed \in At(j.inv)
EventOk(j) ==
    /\ j.inv \in DOMAIN inv
    /\ j.event[1] = "status_changed" => j.event \in StatusEvents
    /\ j.event[1] \in FactTypes => Known(j.inv, j.event)

(* An update: its version is not ahead of the row's, and a reopening has   *)
(* seen that version closed.                                               *)
Reopens(j) == j.event = "investigation_reopened"
ChangeOk(j) ==
    /\ j.inv \in DOMAIN inv /\ j.expected \in Nat /\ j.expected <= inv[j.inv].version
    /\ DOMAIN j.input \subseteq {"status", "severity"}
    /\ "status" \in DOMAIN j.input => j.input.status \in {"closed", "open"}
    /\ j.event \in {"incident_closed", "investigation_reopened", NoOne}
    /\ Reopens(j) <=> "status" \in DOMAIN j.input /\ j.input.status = "open"
SeenClosed(j) == Reopens(j) /\ inv[j.inv].version = j.expected => inv[j.inv].status = "closed"
CurrentOk(j) ==
    /\ ChangeOk(j)
    /\ j = [f \in {"do", "inv", "input", "expected", "event", "reopens"} |-> j[f]]
    /\ j.reopens \in BOOLEAN /\ (j.reopens => Reopens(j)) /\ (~j.reopens => SeenClosed(j))
UpdateOk(j) ==
    /\ ChangeOk(j) /\ SeenClosed(j) /\ RowOk(j.row) /\ RowOk(j.current)
    /\ j.expected <= j.current.version /\ j.current.version <= inv[j.inv].version
    /\ inv[j.inv].version = j.current.version => inv[j.inv].status = j.current.status
    /\ j.row.status = IF "status" \in DOMAIN j.input THEN j.input.status ELSE j.current.status

ItemsOk(j) ==
    /\ j.inv \in DOMAIN inv /\ j.cluster \in DOMAIN clusters /\ j.by # NoOne
    /\ j.otherwise = AfterItems(j.inv, j.cluster, <<>>, j.by)
ListOk(j) == j.otherwise = VersionJob("investigation", j.subject, j.by, InvestigationRefs(j.subject, <<>>))
ReportOk(j) ==
    /\ j.row = [f \in ReportFields |-> j.row[f]]
    /\ j.row.version \in 1..(Cardinality(OfIdentity(j.row.type, j.row.subject)) + 1)

JobOk(j) ==
    /\ j.do \notin {"items", "listEvidence"} => "otherwise" \notin DOMAIN j
    /\ j.do \in {"attach", "widen", "event", "relate", "clusterStatus"} => "inv" \in DOMAIN j
    /\ j.do = "create" => CreateOk(j)
    /\ j.do = "attach" => AttachOk(j)
    /\ j.do = "widen" => WidenOk(j)
    /\ j.do = "event" => EventOk(j)
    /\ j.do = "current" => CurrentOk(j)
    /\ j.do = "update" => UpdateOk(j)
    /\ j.do = "items" => ItemsOk(j)
    /\ j.do = "listEvidence" => ListOk(j)
    /\ j.do = "report" => ReportOk(j)
    /\ j.do \in {"note", "hypothesis", "relate"} => j.inv \in DOMAIN inv
    /\ j.do = "hypothesis" => "inv" \in DOMAIN j.row /\ j.row.inv = j.inv
    /\ j.do = "hypothesisStatus" => j.hypothesis \in DOMAIN hypotheses
    /\ j.do = "cluster" => j.items \in Seq(IdsOf(FindingTable))
    /\ j.do = "clusterItem" => j.item \in IdsOf(FindingTable)

-----------------------------------------------------------------------------
(* The inductive invariant.                                                *)

RowsInv ==
    /\ IsSeq(inv) /\ IsSeq(evidence) /\ IsSeq(timeline) /\ IsSeq(links)
    /\ Len(evidence) = Len(inv) /\ Len(timeline) = Len(inv) /\ Len(links) = Len(inv)
    /\ \A i \in DOMAIN inv : /\ RowOk(inv[i])
                             /\ IsSeq(evidence[i]) /\ \A n \in DOMAIN evidence[i] : RefOk(evidence[i][n])
                             /\ BagOk(timeline[i])
    /\ IsSeq(clusters) /\ \A c \in DOMAIN clusters : /\ clusters[c] = [f \in {"status", "items", "inv"} |-> clusters[c][f]]
                                                     /\ clusters[c].items \in Seq(IdsOf(FindingTable))
    /\ IsSeq(hypotheses) /\ \A h \in DOMAIN hypotheses : /\ "inv" \in DOMAIN hypotheses[h]
                                                         /\ hypotheses[h].inv \in DOMAIN inv
JobsInv ==
    /\ todo = [p \in Processes |-> todo[p]]
    /\ \A p \in Processes : IsSeq(todo[p]) /\ \A j \in ToSet(todo[p]) : JobOk(j)

(* An update is all its command still has to do.                           *)
AloneInv == \A p \in Processes : \A n \in DOMAIN todo[p] :
                todo[p][n].do \in {"current", "update"} => Len(todo[p]) = 1

(* A process owes an event that records a fact, a change of status or a    *)
(* reopening at most once.                                                 *)
Owed(j, i, E) == j.do = "event" /\ j.inv = i /\ j.event \in E
Counted(E) == E \subseteq StatusEvents \/ \E e : E = {e} /\ e[1] \in FactTypes \cup {"investigation_reopened"}
SingleInv ==
    \A p \in Processes : \A m, n \in DOMAIN todo[p] : \A i, E :
       Counted(E) /\ Owed(todo[p][m], i, E) /\ Owed(todo[p][n], i, E) => m = n

(* The times events of E are, or will be, on the timeline of i.            *)
Recorded(i, E) == {c \in Copies(timeline[i]) : c[1] \in E}
Owing(i, E) == {p \in Processes : \E n \in DOMAIN todo[p] : Owed(todo[p][n], i, E)}
Total(i, E) == Cardinality(Recorded(i, E)) + Cardinality(Owing(i, E))

Fact(e) == e = <<e[1], e[2]>> /\ e[1] \in FactTypes
FactInv ==
    \A i \in DOMAIN inv : \A e : Fact(e) =>
       /\ Total(i, {e}) <= 1
       /\ Total(i, {e}) = 1 => Known(i, e)
       /\ i \notin lost /\ e[1] \in {"finding_attached", "evidence_attached"} /\ Known(i, e) => Total(i, {e}) = 1

One(b) == IF b THEN 1 ELSE 0
TrailInv ==
    \A i \in DOMAIN inv : i \notin lost =>
       /\ \A s \in Statuses : Total(i, Entering(s)) + One(s = "new") = Total(i, Leaving(s)) + One(inv[i].status = s)
       /\ Total(i, Reopening(i)) = Total(i, ClosedToOpen)

Widening(i, t) == \E p \in Processes : \E n \in DOMAIN todo[p] :
                     todo[p][n].do = "widen" /\ todo[p][n].inv = i /\ todo[p][n].observed = t
WindowInv ==
    \A i \in DOMAIN inv :
       /\ inv[i].first \in At(i) \cup {0} /\ inv[i].last \in At(i) \cup {0}
       /\ i \notin lost => \A t \in At(i) :
             \/ inv[i].first # 0 /\ inv[i].first <= t /\ t <= inv[i].last
             \/ Widening(i, t)

Holds(i, x) == i \in DOMAIN evidence /\ \E m \in DOMAIN evidence[i] : evidence[i][m].id = x
Attaches(j, i, x) == j.do = "attach" /\ j.inv = i /\ j.ref.id = x
AcceptInv ==
    \A p \in Processes : \A n \in DOMAIN todo[p] : \A j \in {todo[p][n]} :
       j.do = "clusterStatus" /\ j.inv \notin lost =>
          \A x \in ToSet(j.items) : Holds(j.inv, x) \/ \E m \in 1..(n - 1) : Attaches(todo[p][m], j.inv, x)

(* The versions of one identity are 1, 2, 3... in the order of the rows.   *)
Before(rs, r) == {s \in 1..(r - 1) : rs[s].type = rs[r].type /\ rs[s].subject = rs[r].subject}
Numbered(rs) ==
    /\ IsSeq(rs) /\ \A r \in DOMAIN rs : rs[r] = [f \in ReportFields |-> rs[r][f]]
    /\ \A r \in DOMAIN rs : LET same == Of(rs, rs[r].type, rs[r].subject)
                            IN {rs[q].version : q \in same} = 1..Cardinality(same)
    /\ \A r \in DOMAIN rs : rs[r].version = 1 + Cardinality(Before(rs, r))
NumberInv == Numbered(reports)

-----------------------------------------------------------------------------
(* How a step moves the lists: p's statements become then, followed by     *)
(* what was behind the first.                                              *)

Moves(p, then) ==
    /\ todo' = [q \in Processes |-> todo'[q]]
    /\ \A q \in Processes \ {p} : todo'[q] = todo[q]
    /\ IsSeq(then) /\ IsSeq(todo'[p])
    /\ \A n \in 1..Len(then) : n \in DOMAIN todo'[p] /\ todo'[p][n] = then[n]
    /\ \A n \in DOMAIN todo[p] \ {1} : /\ Len(then) + n - 1 \in DOMAIN todo'[p]
                                       /\ todo'[p][Len(then) + n - 1] = todo[p][n]
    /\ \A n \in DOMAIN todo'[p] : n > Len(then) => n - Len(then) + 1 \in DOMAIN todo[p] \ {1}

LEMMA ContinueMoves ==
    ASSUME JobsInv, NEW p \in Processes, NEW then, IsSeq(then), todo[p] # <<>>,
           todo' = [todo EXCEPT ![p] = then \o Tail(@)]
    PROVE  Moves(p, then)
<1>1. IsSeq(todo[p]) /\ DOMAIN todo = Processes
  BY DEF JobsInv
<1>2. PICK rest : rest = Tail(todo[p])
  OBVIOUS
<1>3. /\ Len(todo[p]) \in Nat \ {0} /\ IsSeq(rest) /\ Len(rest) = Len(todo[p]) - 1
      /\ \A n \in 1..(Len(todo[p]) - 1) : rest[n] = todo[p][n + 1]
  BY <1>1, <1>2, Rest
<1>4. PICK new : new = then \o rest
  OBVIOUS
<1>5. /\ IsSeq(new) /\ Len(new) = Len(then) + Len(rest)
      /\ \A n \in 1..Len(then) : new[n] = then[n]
      /\ \A n \in 1..Len(rest) : new[Len(then) + n] = rest[n]
  BY <1>3, <1>4, Joined
<1>6. todo'[p] = new /\ \A q \in Processes \ {p} : todo'[q] = todo[q]
  BY <1>1, <1>2, <1>4
<1>7. Len(then) \in Nat /\ DOMAIN new = 1..Len(new) /\ DOMAIN todo[p] = 1..Len(todo[p])
  BY <1>1, <1>5, SeqFacts
<1>8. ASSUME NEW n \in DOMAIN todo[p] \ {1}
      PROVE  Len(then) + n - 1 \in DOMAIN new /\ new[Len(then) + n - 1] = todo[p][n]
  <2>1. n - 1 \in 1..Len(rest) /\ n - 1 + 1 = n /\ Len(then) + (n - 1) = Len(then) + n - 1
    BY <1>3, <1>7
  <2> QED
    BY <1>3, <1>5, <1>7, <2>1
<1>9. \A n \in DOMAIN new : n > Len(then) => n - Len(then) + 1 \in DOMAIN todo[p] \ {1}
  BY <1>3, <1>5, <1>7
<1>10. \A n \in 1..Len(then) : n \in DOMAIN new
  BY <1>3, <1>5, <1>7
<1>11. todo' = [q \in Processes |-> todo'[q]]
  BY <1>1
<1> QED
  BY <1>5, <1>6, <1>8, <1>9, <1>10, <1>11 DEF Moves

LEMMA BeginMoves ==
    ASSUME JobsInv, NEW p \in Processes, NEW then, IsSeq(then), todo[p] = <<>>,
           todo' = [todo EXCEPT ![p] = then]
    PROVE  Moves(p, then)
<1>1. DOMAIN todo = Processes
  BY DEF JobsInv
<1>2. todo'[p] = then /\ \A q \in Processes \ {p} : todo'[q] = todo[q]
  BY <1>1
<1>3. Len(then) \in Nat /\ DOMAIN then = 1..Len(then) /\ DOMAIN todo[p] = {}
  BY SeqFacts, Empty
<1>4. todo' = [q \in Processes |-> todo'[q]]
  BY <1>1
<1> QED
  BY <1>2, <1>3, <1>4 DEF Moves

(* Where a statement of the new lists comes from.                          *)
LEMMA Origin ==
    ASSUME JobsInv, NEW p \in Processes, NEW then, Moves(p, then),
           NEW q \in Processes, NEW n \in DOMAIN todo'[q]
    PROVE  \/ \E m \in DOMAIN todo[q] : todo'[q][n] = todo[q][m] /\ (q = p => m # 1)
           \/ q = p /\ n \in DOMAIN then /\ todo'[q][n] = then[n]
<1>1. CASE q # p
  BY <1>1 DEF Moves
<1>2. CASE q = p
  <2>1. IsSeq(then) /\ IsSeq(todo'[p]) /\ IsSeq(todo[p])
    BY DEF Moves, JobsInv
  <2>2. /\ Len(then) \in Nat /\ DOMAIN then = 1..Len(then) /\ n \in Nat \ {0}
        /\ DOMAIN todo[p] = 1..Len(todo[p]) /\ Len(todo[p]) \in Nat
    BY <1>2, <2>1, SeqFacts
  <2>3. CASE n <= Len(then)
    BY <1>2, <2>2, <2>3 DEF Moves
  <2>4. CASE n > Len(then)
    <3> DEFINE m == n - Len(then) + 1
    <3>1. m \in DOMAIN todo[p] \ {1} /\ Len(then) + m - 1 = n
      BY <1>2, <2>2, <2>4 DEF Moves
    <3>2. todo'[p][Len(then) + m - 1] = todo[p][m]
      BY <3>1 DEF Moves
    <3> QED
      BY <1>2, <3>1, <3>2
  <2> QED
    BY <2>2, <2>3, <2>4
<1> QED
  BY <1>1, <1>2

-----------------------------------------------------------------------------
(* What no step takes back.                                                *)

Grows ==
    /\ DOMAIN inv \subseteq DOMAIN inv' /\ DOMAIN clusters \subseteq DOMAIN clusters'
    /\ DOMAIN hypotheses \subseteq DOMAIN hypotheses' /\ lost \subseteq lost'
    /\ \A i \in DOMAIN inv : /\ inv[i].version <= inv'[i].version
                             /\ inv'[i].version = inv[i].version => inv'[i].status = inv[i].status
                             /\ At(i) \subseteq At(i)'
                             /\ \A e : Known(i, e) => Known(i, e)'
                             /\ \A x : Holds(i, x) => Holds(i, x)'
    /\ \A type, subject : /\ Cardinality(OfIdentity(type, subject)) \in Nat
                          /\ Cardinality(OfIdentity(type, subject)') \in Nat
                          /\ Cardinality(OfIdentity(type, subject)) <= Cardinality(OfIdentity(type, subject)')

LEMMA OfFinite ==
    ASSUME NEW rs, IsSeq(rs), NEW type, NEW subject
    PROVE  /\ IsFiniteSet(Of(rs, type, subject)) /\ Cardinality(Of(rs, type, subject)) \in Nat
           /\ Of(rs, type, subject) \subseteq 1..Len(rs)
<1>1. Len(rs) \in Nat /\ DOMAIN rs = 1..Len(rs)
  BY SeqFacts
<1>2. Of(rs, type, subject) \subseteq 1..Len(rs)
  BY <1>1 DEF Of
<1>3. IsFiniteSet(1..Len(rs))
  BY <1>1, FS_Interval
<1> QED
  BY <1>2, <1>3, FS_Subset, FS_CardinalityType

LEMMA SameGrows ==
    ASSUME RowsInv, NumberInv, UNCHANGED <<inv, evidence, links, reports>>, lost \subseteq lost',
           DOMAIN clusters \subseteq DOMAIN clusters', DOMAIN hypotheses \subseteq DOMAIN hypotheses'
    PROVE  Grows
<1>1. \A i : At(i)' = At(i) /\ (\A e : Known(i, e)' = Known(i, e)) /\ \A x : Holds(i, x)' = Holds(i, x)
  BY DEF At, Known, Holds
<1>2. \A type, subject : /\ OfIdentity(type, subject)' = OfIdentity(type, subject)
                         /\ Cardinality(OfIdentity(type, subject)) \in Nat
  <2>1. \A type, subject : Cardinality(OfIdentity(type, subject)) \in Nat
    BY OfFinite DEF NumberInv, Numbered, OfIdentity
  <2>2. \A type, subject : OfIdentity(type, subject)' = OfIdentity(type, subject)
    BY DEF OfIdentity, Of
  <2> QED
    BY <2>1, <2>2
<1>3. \A i \in DOMAIN inv : inv[i].version \in Nat
  BY DEF RowsInv, RowOk
<1>4. \A type, subject : Cardinality(OfIdentity(type, subject)) <= Cardinality(OfIdentity(type, subject)')
  BY <1>2
<1> QED
  BY <1>1, <1>2, <1>3, <1>4 DEF Grows

(* A statement that fits goes on fitting.                                  *)
LEMMA JobStays ==
    ASSUME RowsInv, RowsInv', Grows, NEW j, JobOk(j)
    PROVE  JobOk(j)'
<1>1. \A i \in DOMAIN inv : i \in DOMAIN inv' /\ inv[i].version \in Nat /\ inv'[i].version \in Nat
  BY DEF RowsInv, RowOk, Grows
<1>2. (j.do = "create" => CreateOk(j)') /\ (j.do = "attach" => AttachOk(j)') /\ (j.do = "items" => ItemsOk(j)')
  BY DEF JobOk, CreateOk, AttachOk, ItemsOk, Grows
<1>3. j.do = "widen" => WidenOk(j)'
  BY DEF JobOk, WidenOk, Grows
<1>4. j.do = "event" => EventOk(j)'
  BY DEF JobOk, EventOk, Grows
<1>5. ASSUME j.inv \in DOMAIN inv, ChangeOk(j)
      PROVE  ChangeOk(j)' /\ (SeenClosed(j) => SeenClosed(j)')
  <2>1. j.expected <= inv'[j.inv].version
    BY <1>1, <1>5 DEF ChangeOk, Grows
  <2>2. inv'[j.inv].version = j.expected => inv[j.inv].version = j.expected
    BY <1>1, <1>5 DEF ChangeOk, Grows
  <2>3. ChangeOk(j)'
    BY <1>1, <1>5, <2>1 DEF ChangeOk
  <2> QED
    BY <1>1, <1>5, <2>2, <2>3 DEF SeenClosed, Grows
<1>6. j.do = "current" => CurrentOk(j)'
  BY <1>5 DEF JobOk, CurrentOk, ChangeOk
<1>7. ASSUME j.do = "update" PROVE UpdateOk(j)'
  <2>1. UpdateOk(j) /\ ChangeOk(j)' /\ SeenClosed(j)' /\ j.inv \in DOMAIN inv /\ j.current.version \in Nat
    BY <1>5, <1>7 DEF JobOk, UpdateOk, ChangeOk, RowOk
  <2>2. inv[j.inv].version <= inv'[j.inv].version /\ inv[j.inv].version \in Nat /\ inv'[j.inv].version \in Nat
        /\ (inv'[j.inv].version = inv[j.inv].version => inv'[j.inv].status = inv[j.inv].status)
    BY <1>1, <2>1 DEF Grows
  <2>3. /\ j.current.version <= inv'[j.inv].version
        /\ inv'[j.inv].version = j.current.version => inv'[j.inv].status = j.current.status
    BY <2>1, <2>2 DEF UpdateOk
  <2> QED
    BY <2>1, <2>3 DEF UpdateOk
<1>8. ASSUME j.do = "report" PROVE ReportOk(j)'
  <2>1. PICK type, subject, version, row : /\ row = j.row /\ type = row.type /\ subject = row.subject
                                           /\ version = row.version
    OBVIOUS
  <2>2. version \in 1..(Cardinality(OfIdentity(type, subject)) + 1)
    BY <1>8, <2>1 DEF JobOk, ReportOk
  <2>3. version \in 1..(Cardinality(OfIdentity(type, subject)') + 1)
    BY <2>2 DEF Grows
  <2> QED
    BY <1>8, <2>1, <2>3 DEF JobOk, ReportOk
<1>9. /\ j.do \in {"note", "hypothesis", "relate"} => j.inv \in DOMAIN inv'
      /\ j.do = "hypothesisStatus" => j.hypothesis \in DOMAIN hypotheses'
      /\ j.do = "listEvidence" => ListOk(j)
  BY <1>1 DEF JobOk, Grows
<1> QED
  BY <1>2, <1>3, <1>4, <1>6, <1>7, <1>8, <1>9 DEF JobOk, ListOk

LEMMA JobsKept ==
    ASSUME RowsInv, RowsInv', JobsInv, Grows, NEW p \in Processes, NEW then, Moves(p, then),
           \A j \in ToSet(then) : JobOk(j)'
    PROVE  JobsInv'
<1>1. ASSUME NEW q \in Processes PROVE IsSeq(todo'[q])
  BY DEF Moves, JobsInv
<1>2. ASSUME NEW q \in Processes, NEW j \in ToSet(todo'[q]) PROVE JobOk(j)'
  <2>1. PICK n \in DOMAIN todo'[q] : j = todo'[q][n]
    BY DEF ToSet
  <2>2. CASE \E m \in DOMAIN todo[q] : j = todo[q][m]
    <3>1. JobOk(j)
      BY <2>2 DEF JobsInv, ToSet
    <3> QED
      BY <3>1, JobStays
  <2>3. CASE n \in DOMAIN then /\ j = then[n]
    BY <2>3 DEF ToSet
  <2> QED
    BY <2>1, <2>2, <2>3, Origin
<1>3. \A q \in Processes : ToSet(todo'[q]) = ToSet(todo[q])'
  BY DEF ToSet
<1> QED
  BY <1>1, <1>2, <1>3 DEF JobsInv, Moves

-----------------------------------------------------------------------------
(* Who owes what after a step.                                             *)

LEMMA OwingSame ==
    ASSUME JobsInv, NEW p \in Processes, NEW then, Moves(p, then), NEW i, NEW E,
           1 \in DOMAIN todo[p] => ~Owed(todo[p][1], i, E), \A j \in ToSet(then) : ~Owed(j, i, E)
    PROVE  Owing(i, E)' = Owing(i, E)
<1>1. ASSUME NEW q \in Owing(i, E) PROVE q \in Owing(i, E)'
  <2>1. PICK n \in DOMAIN todo[q] : q \in Processes /\ Owed(todo[q][n], i, E)
    BY DEF Owing
  <2>2. CASE q # p
    BY <2>1, <2>2 DEF Moves, Owing
  <2>3. CASE q = p
    <3>1. Len(then) + n - 1 \in DOMAIN todo'[p] /\ todo'[p][Len(then) + n - 1] = todo[p][n]
      BY <2>1, <2>3 DEF Moves
    <3> QED
      BY <2>1, <2>3, <3>1 DEF Owing
  <2> QED
    BY <2>2, <2>3
<1>2. ASSUME NEW q \in Owing(i, E)' PROVE q \in Owing(i, E)
  <2>1. PICK n \in DOMAIN todo'[q] : q \in Processes /\ Owed(todo'[q][n], i, E)
    BY DEF Owing
  <2>2. CASE \E m \in DOMAIN todo[q] : todo'[q][n] = todo[q][m]
    BY <2>1, <2>2 DEF Owing
  <2>3. CASE n \in DOMAIN then /\ todo'[q][n] = then[n]
    BY <2>1, <2>3 DEF ToSet
  <2> QED
    BY <2>1, <2>2, <2>3, Origin
<1> QED
  BY <1>1, <1>2

LEMMA OwingMore ==
    ASSUME JobsInv, NEW p \in Processes, NEW then, Moves(p, then), NEW i, NEW E,
           1 \in DOMAIN todo[p] => ~Owed(todo[p][1], i, E), \E j \in ToSet(then) : Owed(j, i, E)
    PROVE  Owing(i, E)' = Owing(i, E) \cup {p}
<1>1. ASSUME NEW q \in Owing(i, E) \ {p} PROVE q \in Owing(i, E)'
  BY DEF Moves, Owing
<1>2. p \in Owing(i, E)'
  <2>1. PICK n \in DOMAIN then : Owed(then[n], i, E)
    BY DEF ToSet
  <2>2. n \in DOMAIN todo'[p] /\ todo'[p][n] = then[n]
    BY SeqFacts DEF Moves
  <2> QED
    BY <2>1, <2>2 DEF Owing
<1>3. ASSUME NEW q \in Owing(i, E)', q # p PROVE q \in Owing(i, E)
  BY <1>3 DEF Moves, Owing
<1> QED
  BY <1>1, <1>2, <1>3

LEMMA OwingLess ==
    ASSUME JobsInv, SingleInv, NEW p \in Processes, NEW then, Moves(p, then), NEW i, NEW E, Counted(E),
           1 \in DOMAIN todo[p], Owed(todo[p][1], i, E), \A j \in ToSet(then) : ~Owed(j, i, E)
    PROVE  p \in Owing(i, E) /\ Owing(i, E)' = Owing(i, E) \ {p}
<1>1. p \in Owing(i, E)
  BY DEF Owing
<1>2. ASSUME NEW q \in Owing(i, E) \ {p} PROVE q \in Owing(i, E)'
  BY DEF Moves, Owing
<1>3. ASSUME NEW q \in Owing(i, E)', q # p PROVE q \in Owing(i, E)
  BY <1>3 DEF Moves, Owing
<1>4. p \notin Owing(i, E)'
  <2>1. SUFFICES ASSUME NEW n \in DOMAIN todo'[p], Owed(todo'[p][n], i, E) PROVE FALSE
    BY DEF Owing
  <2>2. CASE \E m \in DOMAIN todo[p] : todo'[p][n] = todo[p][m] /\ m # 1
    BY <2>1, <2>2 DEF SingleInv
  <2>3. CASE n \in DOMAIN then /\ todo'[p][n] = then[n]
    BY <2>1, <2>3 DEF ToSet
  <2> QED
    BY <2>2, <2>3, Origin
<1> QED
  BY <1>1, <1>2, <1>3, <1>4

LEMMA CountFinite ==
    ASSUME RowsInv, NEW i \in DOMAIN inv, NEW E
    PROVE  /\ IsFiniteSet(Recorded(i, E)) /\ Cardinality(Recorded(i, E)) \in Nat
           /\ IsFiniteSet(Owing(i, E)) /\ Cardinality(Owing(i, E)) \in Nat
           /\ Total(i, E) \in Nat
<1>1. IsFiniteSet(Copies(timeline[i])) /\ Recorded(i, E) \subseteq Copies(timeline[i])
  BY DEF RowsInv, BagOk, Recorded
<1>2. IsFiniteSet(Recorded(i, E))
  BY <1>1, FS_Subset
<1>3. IsFiniteSet(Processes) /\ Owing(i, E) \subseteq Processes
  BY CaseworkAssumption DEF CaseworkAssumption, Owing
<1>4. IsFiniteSet(Owing(i, E))
  BY <1>3, FS_Subset
<1>5. Cardinality(Recorded(i, E)) \in Nat /\ Cardinality(Owing(i, E)) \in Nat
  BY <1>2, <1>4, FS_CardinalityType
<1> QED
  BY <1>2, <1>4, <1>5 DEF Total

(* At most once holds on, where nothing new repeats what was left.         *)
LEMMA SingleKept ==
    ASSUME JobsInv, SingleInv, NEW p \in Processes, NEW then, Moves(p, then),
           ASSUME NEW i, NEW E, Counted(E)
           PROVE  /\ \A m, n \in DOMAIN then : Owed(then[m], i, E) /\ Owed(then[n], i, E) => m = n
                  /\ \A m \in DOMAIN then : \A n \in DOMAIN todo[p] \ {1} :
                        ~(Owed(then[m], i, E) /\ Owed(todo[p][n], i, E))
    PROVE  SingleInv'
<1> SUFFICES ASSUME NEW q \in Processes, NEW m \in DOMAIN todo'[q], NEW n \in DOMAIN todo'[q], NEW i, NEW E,
                    Counted(E), Owed(todo'[q][m], i, E), Owed(todo'[q][n], i, E)
             PROVE  m = n
  BY DEF SingleInv, Owed, Counted
<1>1. CASE q # p
  BY <1>1 DEF Moves, SingleInv
<1>2. CASE q = p
  <2>1. /\ Len(then) \in Nat /\ DOMAIN then = 1..Len(then) /\ m \in Nat \ {0} /\ n \in Nat \ {0}
        /\ DOMAIN todo[p] \subseteq Nat
    BY <1>2, SeqFacts DEF Moves, JobsInv
  <2>2. ASSUME NEW k \in DOMAIN todo'[p], k > Len(then), k \in Nat
        PROVE  k - Len(then) + 1 \in DOMAIN todo[p] \ {1} /\ todo'[p][k] = todo[p][k - Len(then) + 1]
    <3>1. k - Len(then) + 1 \in DOMAIN todo[p] \ {1}
      BY <2>2 DEF Moves
    <3>2. Len(then) + (k - Len(then) + 1) - 1 = k
      BY <2>1, <2>2
    <3>3. todo'[p][Len(then) + (k - Len(then) + 1) - 1] = todo[p][k - Len(then) + 1]
      BY <3>1 DEF Moves
    <3> QED
      BY <3>1, <3>2, <3>3
  <2>3. ASSUME NEW k \in DOMAIN todo'[p], k <= Len(then), k \in Nat \ {0}
        PROVE  k \in DOMAIN then /\ todo'[p][k] = then[k]
    BY <2>1, <2>3 DEF Moves
  <2>4. CASE m > Len(then) /\ n > Len(then)
    <3>1. m - Len(then) + 1 = n - Len(then) + 1
      BY <1>2, <2>1, <2>2, <2>4 DEF SingleInv
    <3> QED
      BY <2>1, <3>1
  <2>5. CASE m <= Len(then) /\ n <= Len(then)
    BY <1>2, <2>1, <2>3, <2>5
  <2>6. CASE m <= Len(then) /\ n > Len(then)
    BY <1>2, <2>1, <2>2, <2>3, <2>6
  <2>7. CASE m > Len(then) /\ n <= Len(then)
    BY <1>2, <2>1, <2>2, <2>3, <2>7
  <2> QED
    BY <2>1, <2>4, <2>5, <2>6, <2>7
<1> QED
  BY <1>1, <1>2

LEMMA CountedTypes ==
    ASSUME NEW E, Counted(E), NEW e \in E
    PROVE  /\ e[1] \in FactTypes \cup {"status_changed", "investigation_reopened"}
           /\ e[1] = "status_changed" => e \in StatusEvents
BY DEF Counted, StatusEvents, FactTypes

LEMMA CountedSets ==
    /\ \A s \in Statuses : Counted(Entering(s)) /\ Counted(Leaving(s))
    /\ Counted(ClosedToOpen) /\ \A i : Counted(Reopening(i))
    /\ \A e : e[1] \in FactTypes => Counted({e})
<1>1. \A s \in Statuses : Entering(s) \subseteq StatusEvents /\ Leaving(s) \subseteq StatusEvents
  BY DEF Entering, Leaving, StatusEvents
<1>2. ClosedToOpen \subseteq StatusEvents
  BY DEF ClosedToOpen, StatusEvents, Statuses
<1>3. \A i : Counted(Reopening(i))
  <2> TAKE i
  <2>1. PICK e : e = <<"investigation_reopened", i>>
    OBVIOUS
  <2>2. Reopening(i) = {e} /\ e[1] = "investigation_reopened"
    BY <2>1 DEF Reopening
  <2> QED
    BY <2>2 DEF Counted
<1> QED
  BY <1>1, <1>2, <1>3 DEF Counted

-----------------------------------------------------------------------------
(* A calm step: it changes no investigation, and neither runs nor adds a   *)
(* statement that the invariant counts.                                    *)

Light(j) ==
    /\ j.do = "clusterStatus" => j.items = <<>>
    /\ j.do = "event" => j.event[1] \notin FactTypes \cup {"status_changed", "investigation_reopened"}

Calm(p, then) ==
    /\ Moves(p, then) /\ Grows /\ RowsInv'
    /\ UNCHANGED <<inv, evidence, timeline, links, lost>>
    /\ 1 \in DOMAIN todo[p] => todo[p][1].do \notin {"attach", "widen", "event"}
    /\ \A j \in ToSet(then) : JobOk(j)' /\ Light(j)
    /\ (\E j \in ToSet(then) : j.do \in {"current", "update"}) => Len(todo'[p]) = 1

CaseInv == RowsInv /\ JobsInv /\ AloneInv /\ SingleInv /\ FactInv /\ TrailInv /\ WindowInv /\ AcceptInv

LEMMA AloneKept ==
    ASSUME JobsInv, AloneInv, NEW p \in Processes, NEW then, Moves(p, then),
           (\E j \in ToSet(then) : j.do \in {"current", "update"}) => Len(todo'[p]) = 1
    PROVE  AloneInv'
<1> SUFFICES ASSUME NEW q \in Processes, NEW n \in DOMAIN todo'[q], todo'[q][n].do \in {"current", "update"}
             PROVE  Len(todo'[q]) = 1
  BY DEF AloneInv
<1>1. CASE q # p
  BY <1>1 DEF Moves, AloneInv
<1>2. CASE q = p
  <2>1. CASE \E m \in DOMAIN todo[q] : todo'[q][n] = todo[q][m] /\ m # 1
    <3>1. Len(todo[q]) = 1 /\ DOMAIN todo[q] = 1..Len(todo[q])
      BY <2>1, SeqFacts DEF AloneInv, JobsInv
    <3> QED
      BY <2>1, <3>1
  <2>2. CASE n \in DOMAIN then /\ todo'[q][n] = then[n]
    BY <1>2, <2>2 DEF ToSet
  <2> QED
    BY <1>2, <2>1, <2>2, Origin
<1> QED
  BY <1>1, <1>2

LEMMA CalmAlone ==
    ASSUME JobsInv, AloneInv, NEW p \in Processes, NEW then, Calm(p, then)
    PROVE  AloneInv'
BY AloneKept DEF Calm

LEMMA CalmOwes ==
    ASSUME NEW p \in Processes, NEW then, Calm(p, then), NEW i, NEW E, Counted(E)
    PROVE  /\ \A j \in ToSet(then) : ~Owed(j, i, E)
           /\ 1 \in DOMAIN todo[p] => ~Owed(todo[p][1], i, E)
BY CountedTypes DEF Calm, Light, Owed

LEMMA CalmSingle ==
    ASSUME JobsInv, SingleInv, NEW p \in Processes, NEW then, Calm(p, then)
    PROVE  SingleInv'
<1>1. Moves(p, then)
  BY DEF Calm
<1>2. ASSUME NEW i, NEW E, Counted(E)
      PROVE  \A m \in DOMAIN then : ~Owed(then[m], i, E)
  BY <1>2, CalmOwes DEF ToSet
<1> QED
  BY <1>1, <1>2, SingleKept

LEMMA CalmTotal ==
    ASSUME JobsInv, NEW p \in Processes, NEW then, Calm(p, then), NEW i, NEW E, Counted(E)
    PROVE  Total(i, E)' = Total(i, E)
<1>1. Owing(i, E)' = Owing(i, E)
  BY CalmOwes, OwingSame DEF Calm
<1>2. Recorded(i, E)' = Recorded(i, E)
  BY DEF Calm, Recorded
<1> QED
  BY <1>1, <1>2 DEF Total

LEMMA CalmFacts ==
    ASSUME JobsInv, FactInv, NEW p \in Processes, NEW then, Calm(p, then)
    PROVE  FactInv'
<1>1. inv' = inv /\ lost' = lost
  BY DEF Calm
<1> SUFFICES ASSUME NEW i \in DOMAIN inv, NEW e, Fact(e)
             PROVE  /\ Total(i, {e})' <= 1
                    /\ Total(i, {e})' = 1 => Known(i, e)'
                    /\ i \notin lost /\ e[1] \in {"finding_attached", "evidence_attached"} /\ Known(i, e)'
                         => Total(i, {e})' = 1
  BY <1>1 DEF FactInv
<1>2. Total(i, {e})' = Total(i, {e})
  BY CalmTotal, CountedSets DEF Fact
<1>3. Known(i, e)' = Known(i, e)
  BY DEF Calm, Known
<1> QED
  BY <1>2, <1>3 DEF FactInv

LEMMA CalmTrail ==
    ASSUME JobsInv, TrailInv, NEW p \in Processes, NEW then, Calm(p, then)
    PROVE  TrailInv'
<1>1. inv' = inv /\ lost' = lost
  BY DEF Calm
<1> SUFFICES ASSUME NEW i \in DOMAIN inv, i \notin lost
             PROVE  /\ \A s \in Statuses : Total(i, Entering(s))' + One(s = "new")
                                           = Total(i, Leaving(s))' + One(inv[i].status = s)
                    /\ Total(i, Reopening(i))' = Total(i, ClosedToOpen)'
  BY <1>1 DEF TrailInv
<1>2. ASSUME NEW s \in Statuses
      PROVE  Total(i, Entering(s))' = Total(i, Entering(s)) /\ Total(i, Leaving(s))' = Total(i, Leaving(s))
  BY CalmTotal, CountedSets
<1>3. Total(i, Reopening(i))' = Total(i, Reopening(i)) /\ Total(i, ClosedToOpen)' = Total(i, ClosedToOpen)
  BY CalmTotal, CountedSets
<1> QED
  BY <1>2, <1>3 DEF TrailInv

(* A widening still to come comes, unless it is the statement that runs.   *)
LEMMA WideningStays ==
    ASSUME NEW p \in Processes, NEW then, Moves(p, then), NEW i, NEW t, Widening(i, t),
           1 \in DOMAIN todo[p] => ~(todo[p][1].do = "widen" /\ todo[p][1].inv = i /\ todo[p][1].observed = t)
    PROVE  Widening(i, t)'
<1>1. PICK q \in Processes : \E n \in DOMAIN todo[q] :
         todo[q][n].do = "widen" /\ todo[q][n].inv = i /\ todo[q][n].observed = t
  BY DEF Widening
<1>4. PICK n \in DOMAIN todo[q] : todo[q][n].do = "widen" /\ todo[q][n].inv = i /\ todo[q][n].observed = t
  BY <1>1
<1>2. CASE q # p
  BY <1>1, <1>2 DEF Moves, Widening
<1>3. CASE q = p
  <2>1. Len(then) + n - 1 \in DOMAIN todo'[p] /\ todo'[p][Len(then) + n - 1] = todo[p][n]
    BY <1>3, <1>4 DEF Moves
  <2> QED
    BY <1>3, <1>4, <2>1 DEF Widening
<1> QED
  BY <1>2, <1>3

LEMMA CalmWindow ==
    ASSUME WindowInv, NEW p \in Processes, NEW then, Calm(p, then)
    PROVE  WindowInv'
<1>1. inv' = inv /\ lost' = lost /\ \A i : At(i)' = At(i)
  BY DEF Calm, At
<1>2. ASSUME NEW i, NEW t, Widening(i, t) PROVE Widening(i, t)'
  BY <1>2, WideningStays DEF Calm
<1> QED
  BY <1>1, <1>2 DEF WindowInv

(* Attachments that are to come before a cluster's status come before it,  *)
(* unless it is the first of them that runs.                               *)
AcceptOk(then, j, n) ==
    j.do = "clusterStatus" /\ j.inv \notin lost =>
       \A x \in ToSet(j.items) : Holds(j.inv, x) \/ \E m \in 1..(n - 1) : Attaches(then[m], j.inv, x)

LEMMA AcceptKept ==
    ASSUME JobsInv, AcceptInv, NEW p \in Processes, NEW then, Moves(p, then), lost \subseteq lost',
           \A i, x : Holds(i, x) => Holds(i, x)',
           \A i, x : 1 \in DOMAIN todo[p] /\ Attaches(todo[p][1], i, x) /\ i \notin lost' => Holds(i, x)',
           \A n \in DOMAIN then : \A j \in {then[n]} : AcceptOk(then, j, n)'
    PROVE  AcceptInv'
<1>1. /\ Len(then) \in Nat /\ DOMAIN then = 1..Len(then)
      /\ \A q \in Processes : DOMAIN todo[q] = 1..Len(todo[q]) /\ DOMAIN todo'[q] = 1..Len(todo'[q])
                              /\ Len(todo[q]) \in Nat /\ Len(todo'[q]) \in Nat
  <2>1. \A q \in Processes : IsSeq(todo[q]) /\ IsSeq(todo'[q])
    BY DEF JobsInv, Moves
  <2> QED
    BY <2>1, SeqFacts DEF Moves
<1> SUFFICES ASSUME NEW q \in Processes, NEW n \in DOMAIN todo'[q], NEW j, j = todo'[q][n],
                    j.do = "clusterStatus", j.inv \notin lost', NEW x \in ToSet(j.items)
             PROVE  Holds(j.inv, x)' \/ \E m \in 1..(n - 1) : Attaches(todo'[q][m], j.inv, x)
  BY DEF AcceptInv
<1>2. CASE q # p
  BY <1>2 DEF Moves, AcceptInv
<1>3. CASE q = p /\ n <= Len(then)
  <2>1. n \in DOMAIN then /\ then[n] = j
    BY <1>1, <1>3 DEF Moves
  <2>2. AcceptOk(then, j, n)'
    BY <2>1
  <2>3. Holds(j.inv, x)' \/ \E m \in 1..(n - 1) : Attaches(then[m], j.inv, x)
    BY <2>2 DEF AcceptOk
  <2>4. \A m \in 1..(n - 1) : todo'[p][m] = then[m]
    BY <1>1, <1>3, <2>1 DEF Moves
  <2> QED
    BY <1>3, <2>3, <2>4
<1>4. CASE q = p /\ n > Len(then)
  <2> DEFINE k == n - Len(then) + 1
  <2>1. k \in DOMAIN todo[p] \ {1} /\ Len(then) + k - 1 = n
    BY <1>1, <1>4 DEF Moves
  <2>2. todo[p][k] = j
    BY <1>4, <2>1 DEF Moves
  <2>3. Holds(j.inv, x) \/ \E m \in 1..(k - 1) : Attaches(todo[p][m], j.inv, x)
    BY <2>1, <2>2 DEF AcceptInv
  <2>4. ASSUME NEW m \in 1..(k - 1), Attaches(todo[p][m], j.inv, x)
        PROVE  Holds(j.inv, x)' \/ \E l \in 1..(n - 1) : Attaches(todo'[p][l], j.inv, x)
    <3>1. m \in DOMAIN todo[p]
      BY <1>1, <2>1
    <3>2. CASE m = 1
      BY <2>4, <3>1, <3>2
    <3>3. CASE m # 1
      <4>1. todo'[p][Len(then) + m - 1] = todo[p][m]
        BY <3>1, <3>3 DEF Moves
      <4>2. m \in Nat /\ n \in Nat /\ m > 1 /\ m < k /\ Len(then) \in Nat
        BY <1>1, <2>1, <3>3
      <4>3. Len(then) + m - 1 \in 1..(n - 1)
        BY <4>2
      <4> QED
        BY <1>4, <2>4, <4>1, <4>3
    <3> QED
      BY <3>2, <3>3
  <2> QED
    BY <1>4, <2>3, <2>4
<1> QED
  BY <1>1, <1>2, <1>3, <1>4

LEMMA CalmAccept ==
    ASSUME JobsInv, AcceptInv, NEW p \in Processes, NEW then, Calm(p, then)
    PROVE  AcceptInv'
<1>1. Moves(p, then) /\ lost' = lost
  BY DEF Calm
<1>2. \A i, x : Holds(i, x)' = Holds(i, x)
  BY DEF Calm, Holds
<1>3. \A i, x : ~ (1 \in DOMAIN todo[p] /\ Attaches(todo[p][1], i, x))
  BY DEF Calm, Attaches
<1>4. ASSUME NEW n \in DOMAIN then, NEW j \in {then[n]} PROVE AcceptOk(then, j, n)'
  <2>1. j.do = "clusterStatus" => j.items = <<>>
    BY DEF Calm, Light, ToSet
  <2>2. ToSet(<<>>) = {}
    BY Empty DEF ToSet
  <2> QED
    BY <2>1, <2>2 DEF AcceptOk
<1> QED
  BY <1>1, <1>2, <1>3, <1>4, AcceptKept

LEMMA CalmKeeps ==
    ASSUME CaseInv, NEW p \in Processes, NEW then, Calm(p, then)
    PROVE  CaseInv'
<1>1. RowsInv' /\ JobsInv'
  BY JobsKept DEF CaseInv, Calm
<1>2. AloneInv' /\ SingleInv' /\ FactInv' /\ TrailInv'
  BY CalmAlone, CalmSingle, CalmFacts, CalmTrail DEF CaseInv
<1>3. WindowInv' /\ AcceptInv'
  BY CalmWindow, CalmAccept DEF CaseInv
<1> QED
  BY <1>1, <1>2, <1>3 DEF CaseInv

-----------------------------------------------------------------------------
(* The correlation engine yields a list whatever it is given.              *)

LEMMA PickedSeq ==
    ASSUME NEW s, IsSeq(s), NEW I
    PROVE  IsSeq(Picked(s, I)) /\ Picked(s, I) \in Seq(ToSet(s))
BY Chosen, OfSeq DEF IsSeq

LEMMA Mapped ==
    ASSUME NEW s, IsSeq(s), NEW f, f = [n \in DOMAIN s |-> f[n]]
    PROVE  IsSeq(f) /\ Len(f) = Len(s)
BY SeqFacts, Listed

LEMMA FlattenedSeq ==
    ASSUME NEW s, IsSeq(s), NEW ss, ss = [n \in DOMAIN s |-> ss[n]], \A n \in DOMAIN s : IsSeq(ss[n])
    PROVE  IsSeq(FlattenSeq(ss))
<1> DEFINE S == UNION {ToSet(ss[n]) : n \in DOMAIN s}
<1>1. \A n \in DOMAIN s : ss[n] \in Seq(S)
  <2> TAKE n \in DOMAIN s
  <2>1. ss[n] \in Seq(ToSet(ss[n])) /\ ToSet(ss[n]) \subseteq S
    BY DEF IsSeq
  <2> QED
    BY <2>1, SeqMonotonic
<1>2. IsSeq(ss) /\ DOMAIN ss = DOMAIN s
  BY Mapped
<1>3. ss \in Seq(Seq(S))
  BY <1>1, <1>2, SeqIn
<1> QED
  BY <1>3, Flattened, OfSeq

LEMMA PairsSeq ==
    ASSUME NEW fs, IsSeq(fs)
    PROVE  IsSeq(ForEachFindingPair(fs))
<1> DEFINE ss == [i \in DOMAIN fs |-> [k \in 1..(Len(fs) - i) |-> <<fs[i], fs[i + k]>>]]
<1>1. Len(fs) \in Nat /\ DOMAIN fs = 1..Len(fs)
  BY SeqFacts
<1>2. ASSUME NEW i \in DOMAIN fs PROVE IsSeq(ss[i])
  <2>1. PICK N : N = Len(fs) - i
    OBVIOUS
  <2>2. N \in Nat
    BY <1>1, <2>1
  <2>3. PICK s : s = ss[i]
    OBVIOUS
  <2>4. s = [k \in 1..N |-> s[k]]
    BY <2>1, <2>3
  <2> QED
    BY <2>2, <2>3, <2>4, Listed
<1>3. ss = [i \in DOMAIN fs |-> ss[i]]
  OBVIOUS
<1>4. ForEachFindingPair(fs) = FlattenSeq(ss)
  BY DEF ForEachFindingPair
<1> HIDE DEF ss
<1> QED
  BY <1>2, <1>3, <1>4, FlattenedSeq

LEMMA PairRuleSeqs ==
    ASSUME NEW in, IsSeq(in.findings)
    PROVE  /\ IsSeq(SameAssetRule(in)) /\ IsSeq(SameEndpointRule(in)) /\ IsSeq(TemporalProximityRule(in))
           /\ IsSeq(SameServiceRule(in)) /\ IsSeq(AuthenticationColocationRule(in))
<1>1. PICK pairs : pairs = ForEachFindingPair(in.findings)
  OBVIOUS
<1>2. IsSeq(pairs)
  BY <1>1, PairsSeq
<1>3. \A I, f : f = [n \in DOMAIN Picked(pairs, I) |-> f[n]] => IsSeq(f)
  BY <1>2, PickedSeq, Mapped
<1>4. \E I : LET f == SameAssetRule(in) IN f = [n \in DOMAIN Picked(pairs, I) |-> f[n]]
  BY <1>1 DEF SameAssetRule, PairRule
<1>5. \E I : LET f == SameEndpointRule(in) IN f = [n \in DOMAIN Picked(pairs, I) |-> f[n]]
  BY <1>1 DEF SameEndpointRule, PairRule
<1>6. \E I : LET f == TemporalProximityRule(in) IN f = [n \in DOMAIN Picked(pairs, I) |-> f[n]]
  <2> WITNESS {n \in DOMAIN pairs : WithinWindow(pairs[n][1].first, pairs[n][2].first)}
  <2> QED
    BY <1>1 DEF TemporalProximityRule, PairRule
<1>7. \E I : LET f == SameServiceRule(in) IN f = [n \in DOMAIN Picked(pairs, I) |-> f[n]]
  BY <1>1 DEF SameServiceRule, PairRule
<1>8. \E I : LET f == AuthenticationColocationRule(in) IN f = [n \in DOMAIN Picked(pairs, I) |-> f[n]]
  BY <1>1 DEF AuthenticationColocationRule, PairRule
<1> QED
  BY <1>3, <1>4, <1>5, <1>6, <1>7, <1>8

LEMMA OtherRuleSeqs ==
    ASSUME NEW in, IsSeq(in.findings), IsSeq(in.technologies)
    PROVE  IsSeq(TechnologyRule(in)) /\ IsSeq(ChangeBasedRule(in)) /\ IsSeq(NewAssetWithFindingRule(in))
<1>1. \A I, f : f = [n \in DOMAIN Picked(in.findings, I) |-> f[n]] => IsSeq(f)
  BY PickedSeq, Mapped
<1>2. \E I : LET f == ChangeBasedRule(in) IN f = [n \in DOMAIN Picked(in.findings, I) |-> f[n]]
  BY DEF ChangeBasedRule
<1>3. \E I : LET f == NewAssetWithFindingRule(in) IN f = [n \in DOMAIN Picked(in.findings, I) |-> f[n]]
  BY DEF NewAssetWithFindingRule
<1>4. IsSeq(TechnologyRule(in))
  <2> DEFINE ts(f) == Picked(in.technologies, {n \in DOMAIN in.technologies :
                         in.technologies[n].asset = f.asset /\ in.technologies[n].id # NoOne})
             ss == [i \in DOMAIN in.findings |->
                      [k \in DOMAIN ts(in.findings[i]) |->
                         NewEntityRelationship(in.findings[i], "technology", ts(in.findings[i])[k].id,
                                               "same_technology", 10, "technology_correlation")]]
  <2>1. TechnologyRule(in) = FlattenSeq(ss)
    BY DEF TechnologyRule
  <2>2. ASSUME NEW i \in DOMAIN in.findings PROVE IsSeq(ss[i])
    <3>1. PICK t : t = ts(in.findings[i])
      OBVIOUS
    <3>2. IsSeq(t)
      BY <3>1, PickedSeq
    <3>3. PICK s : s = ss[i]
      OBVIOUS
    <3>4. s = [k \in DOMAIN t |-> s[k]]
      BY <3>1, <3>3
    <3> QED
      BY <3>2, <3>3, <3>4, Mapped
  <2>3. ss = [i \in DOMAIN in.findings |-> ss[i]]
    OBVIOUS
  <2> HIDE DEF ss
  <2> QED
    BY <2>1, <2>2, <2>3, FlattenedSeq
<1> QED
  BY <1>1, <1>2, <1>3, <1>4

LEMMA RelateSeq ==
    ASSUME NEW in, IsSeq(in.findings), IsSeq(in.technologies)
    PROVE  IsSeq(Relate(in))
<1>1. RegisterAll = [n \in 1..8 |-> RegisterAll[n]]
  BY DEF RegisterAll
<1>2. IsSeq(RegisterAll)
  BY <1>1, Listed
<1>3. ToSet(RegisterAll) \subseteq
        {"authentication_colocation", "endpoint_change_with_finding", "new_asset_with_finding",
         "same_asset_findings", "same_endpoint_findings", "same_service",
         "technology_correlation", "temporal_proximity"}
  <2>1. DOMAIN RegisterAll = 1..8
    BY DEF RegisterAll
  <2> QED
    BY <2>1 DEF RegisterAll, ToSet
<1>4. IsSeq(Active) /\ Active \in Seq(ToSet(RegisterAll))
  BY <1>2, PickedSeq DEF Active
<1>5. \A n \in DOMAIN Active : Active[n] \in ToSet(RegisterAll)
  BY <1>4, OfSeq
<1>6. ASSUME NEW id \in ToSet(RegisterAll) PROVE IsSeq(EvaluateRule(id, in))
  BY <1>3, PairRuleSeqs, OtherRuleSeqs DEF EvaluateRule
<1> DEFINE ss == [i \in DOMAIN Active |-> EvaluateRule(Active[i], in)]
<1>7. ss = [i \in DOMAIN Active |-> ss[i]] /\ \A n \in DOMAIN Active : IsSeq(ss[n])
  BY <1>5, <1>6
<1>8. IsSeq(FlattenSeq(ss))
  <2> HIDE DEF ss
  <2> QED
    BY <1>4, <1>7, FlattenedSeq
<1> QED
  BY <1>8, PickedSeq DEF Relate, MergeRelationships

-----------------------------------------------------------------------------
(* The statements the commands come down to.                               *)

LEMMA FindingRow ==
    ASSUME NEW id \in IdsOf(FindingTable)
    PROVE  LET f == ById(FindingTable, id)
           IN f.id = id /\ f.first \in Nat /\ f.last \in Nat /\ f.history \in Seq(STRING)
<1>1. PICK n \in DOMAIN FindingTable : ById(FindingTable, id) = FindingTable[n] /\ FindingTable[n].id = id
  BY DEF ById, IdsOf
<1> QED
  BY <1>1, CaseworkAssumption DEF CaseworkAssumption, FindingObservation

LEMMA ObservedNat ==
    /\ \A id \in IdsOf(FindingTable) : ObservedAt("finding", id) = ById(FindingTable, id).first
    /\ \A id \in IdsOf(AssetTable) : ObservedAt("asset", id) \in Nat
    /\ \A id \in IdsOf(EndpointTable) : ObservedAt("endpoint", id) \in Nat
<1>1. ASSUME NEW id \in IdsOf(AssetTable) PROVE ObservedAt("asset", id) \in Nat
  <2>1. PICK n \in DOMAIN AssetTable : ById(AssetTable, id) = AssetTable[n]
    BY DEF ById, IdsOf
  <2> QED
    BY <2>1, CaseworkAssumption DEF CaseworkAssumption, AssetObservation, ObservedAt
<1>2. ASSUME NEW id \in IdsOf(EndpointTable) PROVE ObservedAt("endpoint", id) \in Nat
  <2>1. PICK n \in DOMAIN EndpointTable : ById(EndpointTable, id) = EndpointTable[n]
    BY DEF ById, IdsOf
  <2> QED
    BY <2>1, CaseworkAssumption DEF CaseworkAssumption, EndpointObservation, ObservedAt
<1> QED
  BY <1>1, <1>2 DEF ObservedAt

(* An attachment of what the tables hold.                                  *)
AttachJob(j, i, id) ==
    /\ j.do = "attach" /\ j.inv = i /\ RefOk(j.ref) /\ j.ref.id = id
    /\ "inv" \in DOMAIN j /\ "otherwise" \notin DOMAIN j
Attachment(s, i, id) == IsSeq(s) /\ Len(s) <= 1 /\ \A j \in ToSet(s) : AttachJob(j, i, id)

LEMMA NoAttachment ==
    ASSUME NEW i, NEW id
    PROVE  Attachment(<<>>, i, id)
BY Empty DEF Attachment, ToSet

LEMMA OneAttachment ==
    ASSUME NEW i, NEW id, NEW j, AttachJob(j, i, id)
    PROVE  Attachment(<<j>>, i, id)
<1>1. IsSeq(<<j>>) /\ Len(<<j>>) = 1 /\ DOMAIN <<j>> = 1..1 /\ <<j>>[1] = j
  BY Single, SeqFacts
<1> QED
  BY <1>1 DEF Attachment, ToSet

LEMMA AttachesFinding ==
    ASSUME NEW i, NEW id \in IdsOf(FindingTable), NEW relation, NEW by
    PROVE  /\ Attachment(AttachFinding(i, id, relation, by), i, id)
           /\ by # NoOne /\ relation \in RelationTypes => Len(AttachFinding(i, id, relation, by)) = 1
<1> DEFINE ref == [type |-> "finding", id |-> id, relation |-> relation,
                   observed |-> ById(FindingTable, id).first, by |-> by]
           job == [do |-> "attach", inv |-> i, ref |-> ref]
<1>1. RefOk(ref)
  BY FindingRow DEF RefOk
<1>2. AttachJob(job, i, id)
  BY <1>1 DEF AttachJob
<1>3. AttachFinding(i, id, relation, by) = IF ValidEvidence(ref) THEN <<job>> ELSE <<>>
  BY DEF AttachFinding
<1>4. by # NoOne /\ relation \in RelationTypes => ValidEvidence(ref)
  BY DEF ValidEvidence, EntityTypes
<1> HIDE DEF ref, job
<1> QED
  BY <1>2, <1>3, <1>4, NoAttachment, OneAttachment, Single

LEMMA AttachesEvidence ==
    ASSUME NEW i, NEW type \in {"asset", "endpoint"}, NEW id, NEW by,
           type = "asset" => id \in IdsOf(AssetTable), type = "endpoint" => id \in IdsOf(EndpointTable)
    PROVE  Attachment(AttachEvidence(i, type, id, by), i, id)
<1> DEFINE ref == [type |-> type, id |-> id, relation |-> "", observed |-> ObservedAt(type, id), by |-> by]
           job == [do |-> "attach", inv |-> i, ref |-> ref]
<1>1. RefOk(ref)
  BY ObservedNat DEF RefOk
<1>2. AttachJob(job, i, id)
  BY <1>1 DEF AttachJob
<1>3. AttachEvidence(i, type, id, by) = IF ValidEvidence(ref) THEN <<job>> ELSE <<>>
  BY DEF AttachEvidence
<1> HIDE DEF ref, job
<1> QED
  BY <1>2, <1>3, NoAttachment, OneAttachment

(* An event is recorded by one statement, or by none.                      *)
EventJob(j, i, e) == j = [do |-> "event", inv |-> i, event |-> e]
LEMMA Records ==
    ASSUME NEW i, NEW type, NEW subject
    PROVE  LET s == RecordEvent(i, type, subject)
           IN /\ IsSeq(s) /\ Len(s) <= 1 /\ \A j \in ToSet(s) : EventJob(j, i, <<type, subject>>)
              /\ type \in EventTypes => Len(s) = 1
<1> DEFINE j == [do |-> "event", inv |-> i, event |-> <<type, subject>>]
<1>1. IsSeq(<<j>>) /\ Len(<<j>>) = 1 /\ DOMAIN <<j>> = 1..1 /\ <<j>>[1] = j
  <2> HIDE DEF j
  <2> QED
    BY Single, SeqFacts
<1>2. IsSeq(<<>>) /\ Len(<<>>) = 0 /\ ToSet(<<>>) = {}
  BY Empty DEF ToSet
<1>3. ToSet(<<j>>) = {j} /\ EventJob(j, i, <<type, subject>>)
  <2>1. EventJob(j, i, <<type, subject>>)
    BY DEF EventJob
  <2> HIDE DEF j
  <2> QED
    BY <1>1, <2>1 DEF ToSet
<1>4. RecordEvent(i, type, subject) = IF type \in EventTypes THEN <<j>> ELSE <<>>
  BY DEF RecordEvent, ValidEvent
<1> HIDE DEF j
<1> QED
  BY <1>1, <1>2, <1>3, <1>4

(* A plain event is one the invariant does not count.                      *)
Plain(type) == type \notin FactTypes \cup {"status_changed", "investigation_reopened"}
LEMMA PlainEvent ==
    ASSUME NEW j, NEW i \in DOMAIN inv, NEW type, NEW subject, EventJob(j, i, <<type, subject>>), Plain(type)
    PROVE  JobOk(j) /\ Light(j)
BY DEF EventJob, Plain, JobOk, EventOk, Light

LEMMA AttachFits ==
    ASSUME NEW i \in DOMAIN inv, NEW id, NEW j, AttachJob(j, i, id)
    PROVE  JobOk(j) /\ Light(j)
BY DEF AttachJob, JobOk, AttachOk, Light

-----------------------------------------------------------------------------
(* Commands are calm.                                                      *)

LEMMA BeginCalm ==
    ASSUME RowsInv, JobsInv, NumberInv, NEW p \in Processes, NEW then, IsSeq(then), Idle(p), Begin(p, then),
           UNCHANGED reportVars, \A j \in ToSet(then) : JobOk(j) /\ Light(j),
           (\E j \in ToSet(then) : j.do \in {"current", "update"}) => Len(then) = 1
    PROVE  Calm(p, then)
<1>1. Moves(p, then)
  BY BeginMoves DEF Idle, Begin
<1>2. UNCHANGED <<inv, evidence, timeline, links, lost, hypotheses, clusters, reports>>
  BY DEF Begin, stored, reportVars
<1>3. RowsInv'
  BY <1>2 DEF RowsInv
<1>4. Grows
  BY <1>2, SameGrows
<1>5. \A j \in ToSet(then) : JobOk(j)'
  BY <1>3, <1>4, JobStays
<1>6. DOMAIN todo[p] = {}
  BY Empty DEF Idle
<1>7. todo'[p] = then
  BY DEF Begin, JobsInv
<1> QED
  BY <1>1, <1>2, <1>3, <1>4, <1>5, <1>6, <1>7 DEF Calm

LEMMA BeginOne ==
    ASSUME RowsInv, JobsInv, NumberInv, NEW p \in Processes, NEW j, Idle(p), Begin(p, <<j>>),
           UNCHANGED reportVars, JobOk(j), Light(j)
    PROVE  \E then : Calm(p, then)
<1>1. PICK then : then = <<j>>
  OBVIOUS
<1>2. IsSeq(then) /\ Len(then) = 1 /\ DOMAIN then = 1..1 /\ then[1] = j
  BY <1>1, Single, SeqFacts
<1>3. ToSet(then) = {j}
  BY <1>2 DEF ToSet
<1> QED
  BY <1>1, <1>2, <1>3, BeginCalm

NewRowOk(row, by) ==
    RowOk(row) /\ row.status = "new" /\ row.first = 0 /\ row.last = 0 /\ row.version = 1 /\ row.by = by
LEMMA NewRow ==
    ASSUME NEW by, NEW severity, NEW confidence
    PROVE  NewRowOk(NewInvestigation(by, severity, confidence), by)
<1>1. PICK row : row = NewInvestigation(by, severity, confidence)
  OBVIOUS
<1>2. /\ row.status = "new" /\ row.first = 0 /\ row.last = 0 /\ row.version = 1 /\ row.by = by
      /\ row = [f \in RowFields |-> row[f]]
  BY <1>1 DEF NewInvestigation, RowFields
<1> QED
  BY <1>1, <1>2 DEF NewRowOk, RowOk, Statuses

LEMMA CreateCalm ==
    ASSUME RowsInv, JobsInv, NumberInv, NEW p \in Processes, Idle(p), Create(p), UNCHANGED reportVars
    PROVE  \E then : Calm(p, then)
<1>1. PICK by \in Actors, given \in InitialEvidence :
         Begin(p, <<[do |-> "create", row |-> NewInvestigation(by, "medium", ""), finding |-> given[1],
                     asset |-> given[2], cluster |-> 0]>>)
  BY DEF Create
<1>2. PICK row : row = NewInvestigation(by, "medium", "")
  OBVIOUS
<1>3. PICK j : j = [do |-> "create", row |-> row, finding |-> given[1], asset |-> given[2], cluster |-> 0]
  OBVIOUS
<1>4. given[1] \in IdsOf(FindingTable) \cup {NoOne} /\ given[2] \in IdsOf(AssetTable) \cup {NoOne}
  BY CaseworkAssumption DEF CaseworkAssumption
<1>5. CreateOk(j)
  <2>0. NewRowOk(NewInvestigation(by, "medium", ""), by)
    BY NewRow
  <2>1. RowOk(row) /\ row.status = "new" /\ row.first = 0 /\ row.last = 0
    BY <1>2, <2>0 DEF NewRowOk
  <2> QED
    BY <1>3, <1>4, <2>1 DEF CreateOk
<1>6. JobOk(j) /\ Light(j)
  BY <1>3, <1>5 DEF JobOk, Light
<1> QED
  BY <1>1, <1>2, <1>3, <1>6, BeginOne

LEMMA AcceptCalm ==
    ASSUME RowsInv, JobsInv, NumberInv, NEW p \in Processes, Idle(p), Accept(p), UNCHANGED reportVars
    PROVE  \E then : Calm(p, then)
<1>1. PICK c \in DOMAIN clusters, by \in Actors :
         Begin(p, <<[do |-> "create", row |-> NewInvestigation(by, "", "low"), finding |-> NoOne,
                     asset |-> NoOne, cluster |-> c]>>)
  BY DEF Accept
<1>2. PICK row : row = NewInvestigation(by, "", "low")
  OBVIOUS
<1>3. PICK j : j = [do |-> "create", row |-> row, finding |-> NoOne, asset |-> NoOne, cluster |-> c]
  OBVIOUS
<1>4. CreateOk(j)
  <2>0. NewRowOk(NewInvestigation(by, "", "low"), by)
    BY NewRow
  <2>1. RowOk(row) /\ row.status = "new" /\ row.first = 0 /\ row.last = 0
    BY <1>2, <2>0 DEF NewRowOk
  <2> QED
    BY <1>3, <2>1 DEF CreateOk
<1>5. JobOk(j) /\ Light(j)
  BY <1>3, <1>4 DEF JobOk, Light
<1> QED
  BY <1>1, <1>2, <1>3, <1>5, BeginOne

LEMMA AttachCalm ==
    ASSUME RowsInv, JobsInv, NumberInv, NEW p \in Processes, Idle(p), Attach(p), UNCHANGED reportVars
    PROVE  \E then : Calm(p, then)
<1>1. PICK i \in DOMAIN inv : \E by :
         \/ \E f \in IdsOf(FindingTable) : Begin(p, AttachFinding(i, f, "related", by))
         \/ \E a \in IdsOf(AssetTable) : Begin(p, AttachEvidence(i, "asset", a, by))
         \/ \E e \in IdsOf(EndpointTable) : Begin(p, AttachEvidence(i, "endpoint", e, by))
  BY DEF Attach
<1>2. \E id, then : Begin(p, then) /\ Attachment(then, i, id)
  BY <1>1, AttachesFinding, AttachesEvidence
<1>3. PICK id, then : Begin(p, then) /\ Attachment(then, i, id)
  BY <1>2
<1>4. \A j \in ToSet(then) : JobOk(j) /\ Light(j) /\ j.do = "attach"
  BY <1>3, AttachFits DEF Attachment, AttachJob
<1> QED
  BY <1>3, <1>4, BeginCalm DEF Attachment

LEMMA ChangeCalm ==
    ASSUME RowsInv, JobsInv, NumberInv, NEW p \in Processes, Idle(p), UNCHANGED reportVars,
           Close(p) \/ Reopen(p) \/ Edit(p)
    PROVE  \E then : Calm(p, then)
<1>1. PICK i, input, event, reopens :
         /\ i \in DOMAIN inv /\ Change(p, i, input, event, reopens)
         /\ \/ input = [status |-> "closed"] /\ event = "incident_closed" /\ reopens = FALSE
            \/ input = [status |-> "open"] /\ event = "investigation_reopened" /\ reopens = TRUE
            \/ input = [severity |-> "high"] /\ event = NoOne /\ reopens = FALSE
  BY DEF Close, Reopen, Edit
<1>2. PICK j : j = [do |-> "current", inv |-> i, input |-> input, expected |-> inv[i].version,
                    event |-> event, reopens |-> reopens]
  OBVIOUS
<1>3. NoOne # "investigation_reopened"
  BY CaseworkAssumption DEF CaseworkAssumption
<1>4. inv[i].version \in Nat /\ inv[i].version <= inv[i].version
  BY <1>1 DEF RowsInv, RowOk
<1>5. ChangeOk(j)
  BY <1>1, <1>2, <1>3, <1>4 DEF ChangeOk, Reopens
<1>6. /\ j.reopens \in BOOLEAN /\ (j.reopens <=> Reopens(j)) /\ j.do = "current"
      /\ j = [f \in {"do", "inv", "input", "expected", "event", "reopens"} |-> j[f]]
  BY <1>1, <1>2, <1>3 DEF Reopens
<1>7. JobOk(j) /\ Light(j)
  <2>1. "otherwise" \notin DOMAIN j
    BY <1>2
  <2>2. CurrentOk(j)
    BY <1>5, <1>6 DEF CurrentOk, SeenClosed
  <2> QED
    BY <1>6, <2>1, <2>2 DEF JobOk, Light
<1> QED
  BY <1>1, <1>2, <1>7, BeginOne DEF Change

LEMMA NoteCalm ==
    ASSUME RowsInv, JobsInv, NumberInv, NEW p \in Processes, Idle(p), UNCHANGED reportVars,
           AddNote(p) \/ ApproveNote(p) \/ CreateHypothesis(p) \/ UpdateHypothesisStatus(p)
           \/ AddHypothesisEvidence(p) \/ Reject(p)
    PROVE  \E then : Calm(p, then)
<1>1. CASE AddNote(p)
  <2>1. PICK i, n : i \in DOMAIN inv /\ Begin(p, <<[do |-> "note", inv |-> i, row |-> n]>>)
    BY <1>1 DEF AddNote
  <2>2. PICK j : j = [do |-> "note", inv |-> i, row |-> n]
    OBVIOUS
  <2>3. JobOk(j) /\ Light(j)
    BY <2>1, <2>2 DEF JobOk, Light
  <2> QED
    BY <2>1, <2>2, <2>3, BeginOne
<1>2. CASE ApproveNote(p)
  <2>1. PICK n, by : Begin(p, <<[do |-> "approveNote", note |-> n, by |-> by]>>)
    BY <1>2 DEF ApproveNote
  <2>2. PICK j : j = [do |-> "approveNote", note |-> n, by |-> by]
    OBVIOUS
  <2>3. JobOk(j) /\ Light(j)
    BY <2>2 DEF JobOk, Light
  <2> QED
    BY <2>1, <2>2, <2>3, BeginOne
<1>3. CASE CreateHypothesis(p)
  <2>1. PICK i \in DOMAIN inv : \E by :
           Begin(p, <<[do |-> "hypothesis", inv |-> i,
                       row |-> [inv |-> i, status |-> "proposed", confidence |-> "", by |-> by, support |-> 0]]>>)
    BY <1>3 DEF CreateHypothesis
  <2>4. PICK by :
           Begin(p, <<[do |-> "hypothesis", inv |-> i,
                       row |-> [inv |-> i, status |-> "proposed", confidence |-> "", by |-> by, support |-> 0]]>>)
    BY <2>1
  <2>2. PICK j : j = [do |-> "hypothesis", inv |-> i,
                      row |-> [inv |-> i, status |-> "proposed", confidence |-> "", by |-> by, support |-> 0]]
    OBVIOUS
  <2>3. JobOk(j) /\ Light(j)
    BY <2>2 DEF JobOk, Light
  <2> QED
    BY <2>4, <2>2, <2>3, BeginOne
<1>4. CASE UpdateHypothesisStatus(p)
  <2>1. PICK h \in DOMAIN hypotheses :
           Begin(p, <<[do |-> "hypothesisStatus", hypothesis |-> h, status |-> "supported", confidence |-> "high"]>>)
    BY <1>4 DEF UpdateHypothesisStatus
  <2>2. PICK j : j = [do |-> "hypothesisStatus", hypothesis |-> h, status |-> "supported", confidence |-> "high"]
    OBVIOUS
  <2>3. JobOk(j) /\ Light(j)
    BY <2>2 DEF JobOk, Light
  <2> QED
    BY <2>1, <2>2, <2>3, BeginOne
<1>5. CASE AddHypothesisEvidence(p)
  <2>1. PICK h : Begin(p, <<[do |-> "support", hypothesis |-> h]>>)
    BY <1>5 DEF AddHypothesisEvidence
  <2>2. PICK j : j = [do |-> "support", hypothesis |-> h]
    OBVIOUS
  <2>3. JobOk(j) /\ Light(j)
    BY <2>2 DEF JobOk, Light
  <2> QED
    BY <2>1, <2>2, <2>3, BeginOne
<1>6. CASE Reject(p)
  <2>1. PICK c : Begin(p, <<[do |-> "clusterStatus", cluster |-> c, status |-> "rejected", inv |-> 0, items |-> <<>>]>>)
    BY <1>6 DEF Reject
  <2>2. PICK j : j = [do |-> "clusterStatus", cluster |-> c, status |-> "rejected", inv |-> 0, items |-> <<>>]
    OBVIOUS
  <2>3. JobOk(j) /\ Light(j)
    BY <2>2 DEF JobOk, Light
  <2> QED
    BY <2>1, <2>2, <2>3, BeginOne
<1> QED
  BY <1>1, <1>2, <1>3, <1>4, <1>5, <1>6

LEMMA FlattenedIn ==
    ASSUME NEW S, NEW s, IsSeq(s), NEW ss, ss = [n \in DOMAIN s |-> ss[n]], \A n \in DOMAIN s : ss[n] \in Seq(S)
    PROVE  FlattenSeq(ss) \in Seq(S)
<1>1. IsSeq(ss) /\ DOMAIN ss = DOMAIN s
  BY Mapped
<1>2. ss \in Seq(Seq(S))
  BY <1>1, SeqIn
<1> QED
  BY <1>2, Flattened

LEMMA TableSeqs ==
    IsSeq(FindingTable) /\ IsSeq(AssetTable) /\ IsSeq(TechnologyTable)
BY CaseworkAssumption DEF CaseworkAssumption, IsSeq

LEMMA CorrelateCalm ==
    ASSUME RowsInv, JobsInv, NumberInv, NEW p \in Processes, Idle(p), Correlate(p), UNCHANGED reportVars
    PROVE  \E then : Calm(p, then)
<1>1. PICK i \in DOMAIN inv : LET rs == Relate(CorrelateInput(i))
                             IN Begin(p, FlattenSeq([n \in DOMAIN rs |-> PersistRelationship(i, rs[n])]))
  BY DEF Correlate
<1>2. PICK in : in = CorrelateInput(i)
  OBVIOUS
<1>3. IsSeq(evidence[i])
  BY DEF RowsInv
<1>4. IsSeq(in.findings)
  <2>1. PICK refs : refs = Picked(evidence[i], {n \in DOMAIN evidence[i] : evidence[i][n].type = "finding"})
    OBVIOUS
  <2>2. IsSeq(refs)
    BY <1>3, <2>1, PickedSeq
  <2>3. PICK fs : fs = in.findings
    OBVIOUS
  <2>4. fs = [n \in DOMAIN refs |-> ById(FindingTable, refs[n].id)]
    BY <1>2, <2>1, <2>3 DEF CorrelateInput, ListFindings
  <2> QED
    BY <2>2, <2>3, <2>4, Mapped
<1>5. IsSeq(in.technologies)
  <2>1. \E I : in.technologies = Picked(TechnologyTable, I)
    BY <1>2 DEF CorrelateInput
  <2> QED
    BY <2>1, TableSeqs, PickedSeq
<1>6. PICK rs : rs = Relate(in)
  OBVIOUS
<1>7. IsSeq(rs)
  BY <1>4, <1>5, <1>6, RelateSeq
<1> DEFINE J(r) == [do |-> "relate", inv |-> i, key |-> RelationshipKey(r),
                    link |-> [status |-> IF r.score >= EffectiveThreshold THEN "confirmed" ELSE "candidate",
                              score |-> r.score]]
           S == {J(rs[n]) : n \in DOMAIN rs}
           ss == [n \in DOMAIN rs |-> PersistRelationship(i, rs[n])]
<1>8. \A n \in DOMAIN rs : ss[n] \in Seq(S)
  <2> TAKE n \in DOMAIN rs
  <2>1. ss[n] = <<>> \/ ss[n] = <<J(rs[n])>>
    BY DEF PersistRelationship
  <2>2. J(rs[n]) \in S
    OBVIOUS
  <2> HIDE DEF S, J, ss
  <2>3. <<J(rs[n])>> \in Seq({J(rs[n])})
    BY Single
  <2>4. <<J(rs[n])>> \in Seq(S)
    BY <2>2, <2>3, SeqMonotonic
  <2> QED
    BY <2>1, <2>4, Empty
<1>9. PICK then : then = FlattenSeq(ss)
  OBVIOUS
<1>10. then \in Seq(S)
  <2>1. ss = [n \in DOMAIN rs |-> ss[n]]
    OBVIOUS
  <2> HIDE DEF S, ss
  <2> QED
    BY <1>7, <1>8, <1>9, <2>1, FlattenedIn
<1>11. IsSeq(then) /\ ToSet(then) \subseteq S
  <2> HIDE DEF S
  <2> QED
    BY <1>10, OfSeq DEF ToSet
<1>12. ASSUME NEW j \in S PROVE JobOk(j) /\ Light(j) /\ j.do = "relate"
  <2>1. PICK n \in DOMAIN rs : j = J(rs[n])
    OBVIOUS
  <2>2. j.do = "relate" /\ j.inv = i /\ DOMAIN j = {"do", "inv", "key", "link"}
    BY <2>1
  <2> QED
    BY <2>2 DEF JobOk, Light
<1>13. Begin(p, then)
  BY <1>1, <1>2, <1>6, <1>9
<1> HIDE DEF S
<1> QED
  BY <1>11, <1>12, <1>13, BeginCalm

LEMMA SuggestCalm ==
    ASSUME RowsInv, JobsInv, NumberInv, NEW p \in Processes, Idle(p), Suggest(p), UNCHANGED reportVars
    PROVE  \E then : Calm(p, then)
<1> DEFINE OpenOn(a) == Picked(FindingTable, {n \in DOMAIN FindingTable :
                                               FindingTable[n].open /\ FindingTable[n].asset = a.id})
           Items(a) == [k \in DOMAIN OpenOn(a) |-> OpenOn(a)[k].id]
<1>1. PICK busy : busy = Picked(AssetTable, {n \in DOMAIN AssetTable : Len(OpenOn(AssetTable[n])) >= 2})
  OBVIOUS
<1>2. IsSeq(busy)
  BY <1>1, TableSeqs, PickedSeq
<1>3. PICK then : then = SuggestClusters
  OBVIOUS
<1>4. then = [n \in DOMAIN busy |-> [do |-> "cluster", items |-> Items(busy[n])]]
  BY <1>1, <1>3 DEF SuggestClusters
<1>5. \A a : Items(a) \in Seq(IdsOf(FindingTable))
  <2> TAKE a
  <2>1. PICK fs : fs = OpenOn(a)
    OBVIOUS
  <2>2. IsSeq(fs) /\ fs \in Seq(ToSet(FindingTable))
    BY <2>1, TableSeqs, PickedSeq
  <2>3. \A k \in DOMAIN fs : fs[k] \in ToSet(FindingTable)
    BY <2>2, OfSeq
  <2>4. \A k \in DOMAIN fs : fs[k].id \in IdsOf(FindingTable)
    BY <2>3 DEF ToSet, IdsOf
  <2>5. PICK s : s = [k \in DOMAIN fs |-> fs[k].id]
    OBVIOUS
  <2>6. s = [k \in DOMAIN fs |-> s[k]] /\ \A k \in DOMAIN s : s[k] \in IdsOf(FindingTable)
    BY <2>4, <2>5
  <2>7. s \in Seq(IdsOf(FindingTable))
    BY <2>2, <2>6, Mapped, SeqIn
  <2> QED
    BY <2>1, <2>5, <2>7
<1>6. IsSeq(then)
  <2> HIDE DEF Items
  <2> QED
    BY <1>2, <1>4, Mapped
<1>7. ASSUME NEW j \in ToSet(then) PROVE JobOk(j) /\ Light(j) /\ j.do = "cluster"
  <2> HIDE DEF Items
  <2>1. PICK n \in DOMAIN busy : j = [do |-> "cluster", items |-> Items(busy[n])]
    BY <1>4 DEF ToSet
  <2>2. PICK items : items = Items(busy[n])
    OBVIOUS
  <2>3. items \in Seq(IdsOf(FindingTable))
    BY <1>5, <2>2
  <2>4. j = [do |-> "cluster", items |-> items]
    BY <2>1, <2>2
  <2> QED
    BY <2>3, <2>4 DEF JobOk, Light
<1> QED
  BY <1>3, <1>6, <1>7, BeginCalm DEF Suggest

LEMMA ReportCalm ==
    ASSUME RowsInv, JobsInv, NumberInv, NEW p \in Processes, Idle(p), ReportCommand(p)
    PROVE  \E then : Calm(p, then)
<1>1. CASE \E type, subject, by, refs : ReportBegin(p, VersionJob(type, subject, by, refs))
  <2>1. PICK type, subject, by, refs : ReportBegin(p, VersionJob(type, subject, by, refs))
    BY <1>1
  <2>2. PICK j : j = [do |-> "version", type |-> type, subject |-> subject, by |-> by, refs |-> refs]
    OBVIOUS
  <2>3. JobOk(j) /\ Light(j)
    BY <2>2 DEF JobOk, Light
  <2>4. Begin(p, <<j>>) /\ UNCHANGED reportVars
    BY <2>1, <2>2 DEF ReportBegin, VersionJob
  <2> QED
    BY <2>3, <2>4, BeginOne
<1>2. CASE \E subject, by : ReportBegin(p, <<[do |-> "listEvidence", subject |-> subject, by |-> by,
              otherwise |-> VersionJob("investigation", subject, by, InvestigationRefs(subject, <<>>))]>>)
  <2>1. PICK subject, by : ReportBegin(p, <<[do |-> "listEvidence", subject |-> subject, by |-> by,
              otherwise |-> VersionJob("investigation", subject, by, InvestigationRefs(subject, <<>>))]>>)
    BY <1>2
  <2>2. PICK v : v = VersionJob("investigation", subject, by, InvestigationRefs(subject, <<>>))
    OBVIOUS
  <2>3. PICK j : j = [do |-> "listEvidence", subject |-> subject, by |-> by, otherwise |-> v]
    OBVIOUS
  <2>4. JobOk(j) /\ Light(j)
    <3>1. j.do = "listEvidence" /\ ListOk(j)
      BY <2>2, <2>3 DEF ListOk
    <3> QED
      BY <3>1 DEF JobOk, Light
  <2>5. Begin(p, <<j>>) /\ UNCHANGED reportVars
    BY <2>1, <2>2, <2>3 DEF ReportBegin
  <2> QED
    BY <2>4, <2>5, BeginOne
<1>3. CASE Generate(p)
  BY <1>1, <1>2, <1>3 DEF Generate
<1>4. CASE Approve(p)
  <2>1. PICK r, by : ReportBegin(p, <<[do |-> "approve", report |-> r, by |-> by]>>)
    BY <1>4 DEF Approve
  <2>2. PICK j : j = [do |-> "approve", report |-> r, by |-> by]
    OBVIOUS
  <2>3. JobOk(j) /\ Light(j)
    BY <2>2 DEF JobOk, Light
  <2> QED
    BY <2>1, <2>2, <2>3, BeginOne DEF ReportBegin
<1>5. CASE MarkReviewed(p)
  <2>1. PICK r : ReportBegin(p, <<[do |-> "setStatus", report |-> r, status |-> "reviewed"]>>)
    BY <1>5 DEF MarkReviewed
  <2>2. PICK j : j = [do |-> "setStatus", report |-> r, status |-> "reviewed"]
    OBVIOUS
  <2>3. JobOk(j) /\ Light(j)
    BY <2>2 DEF JobOk, Light
  <2> QED
    BY <2>1, <2>2, <2>3, BeginOne DEF ReportBegin
<1>6. CASE CreateEvidencePackage(p)
  <2>1. PICK r, refs : ReportBegin(p, <<[do |-> "package", report |-> r, refs |-> refs]>>)
    BY <1>6 DEF CreateEvidencePackage
  <2>2. PICK j : j = [do |-> "package", report |-> r, refs |-> refs]
    OBVIOUS
  <2>3. JobOk(j) /\ Light(j)
    BY <2>2 DEF JobOk, Light
  <2> QED
    BY <2>1, <2>2, <2>3, BeginOne DEF ReportBegin
<1>7. CASE RecordControlEvidence(p)
  <2>1. PICK c : ReportBegin(p, <<[do |-> "control", row |-> c]>>)
    BY <1>7 DEF RecordControlEvidence
  <2>2. PICK j : j = [do |-> "control", row |-> c]
    OBVIOUS
  <2>3. JobOk(j) /\ Light(j)
    BY <2>2 DEF JobOk, Light
  <2> QED
    BY <2>1, <2>2, <2>3, BeginOne DEF ReportBegin
<1> QED
  BY <1>3, <1>4, <1>5, <1>6, <1>7 DEF ReportCommand

-----------------------------------------------------------------------------
(* Most statements are calm.                                               *)

LEMMA HeadFacts ==
    ASSUME JobsInv, NEW p \in Processes, todo[p] # <<>>
    PROVE  /\ IsSeq(todo[p]) /\ 1 \in DOMAIN todo[p] /\ Head(todo[p]) = todo[p][1]
           /\ JobOk(Head(todo[p]))
<1>1. IsSeq(todo[p])
  BY DEF JobsInv
<1>2. Len(todo[p]) \in Nat \ {0} /\ Head(todo[p]) = todo[p][1]
  BY <1>1, Rest
<1>3. 1 \in DOMAIN todo[p]
  BY <1>1, <1>2, SeqFacts
<1>4. Head(todo[p]) \in ToSet(todo[p])
  BY <1>2, <1>3 DEF ToSet
<1> QED
  BY <1>1, <1>2, <1>3, <1>4 DEF JobsInv

LEMMA ContinueCalm ==
    ASSUME RowsInv, RowsInv', JobsInv, AloneInv, Grows, NEW p \in Processes, NEW then, IsSeq(then),
           todo[p] # <<>>, Continue(p, then), UNCHANGED <<inv, evidence, timeline, links>>,
           Head(todo[p]).do \notin {"attach", "widen", "event"},
           \A j \in ToSet(then) : JobOk(j) /\ Light(j),
           (\E j \in ToSet(then) : j.do \in {"current", "update"}) =>
              Len(then) = 1 /\ Head(todo[p]).do = "current"
    PROVE  Calm(p, then)
<1>1. Moves(p, then)
  BY ContinueMoves DEF Continue
<1>2. 1 \in DOMAIN todo[p] /\ Head(todo[p]) = todo[p][1] /\ IsSeq(todo[p])
  BY HeadFacts
<1>3. ASSUME \E j \in ToSet(then) : j.do \in {"current", "update"} PROVE Len(todo'[p]) = 1
  <2>1. Len(then) = 1 /\ Len(todo[p]) = 1
    BY <1>2, <1>3 DEF AloneInv
  <2>2. DOMAIN todo[p] \ {1} = {} /\ DOMAIN then = 1..1
    BY <1>2, <2>1, SeqFacts
  <2>3. DOMAIN todo'[p] = 1..Len(todo'[p]) /\ Len(todo'[p]) \in Nat
    BY <1>1, SeqFacts DEF Moves
  <2>4. 1 \in DOMAIN todo'[p] /\ \A n \in DOMAIN todo'[p] : ~(n > 1)
    <3>1. \A n \in 1..Len(then) : n \in DOMAIN todo'[p]
      BY <1>1 DEF Moves
    <3>2. \A n \in DOMAIN todo'[p] : n > Len(then) => n - Len(then) + 1 \in DOMAIN todo[p] \ {1}
      BY <1>1 DEF Moves
    <3> QED
      BY <2>1, <2>2, <3>1, <3>2
  <2>5. PICK N \in Nat : N = Len(todo'[p]) /\ DOMAIN todo'[p] = 1..N
    BY <2>3
  <2>6. N >= 1 /\ \A n \in 1..N : ~(n > 1)
    BY <2>4, <2>5
  <2>7. N = 1
    <3>1. ~(N > 1)
      BY <2>6
    <3> QED
      BY <2>6, <3>1
  <2> QED
    BY <2>5, <2>7
<1>4. \A j \in ToSet(then) : JobOk(j)'
  BY JobStays
<1> QED
  BY <1>1, <1>2, <1>3, <1>4 DEF Calm, Continue

LEMMA SameRows ==
    ASSUME RowsInv, UNCHANGED <<inv, evidence, timeline, links, clusters, hypotheses>>
    PROVE  RowsInv'
BY DEF RowsInv

LEMMA ReadCurrentCalm ==
    ASSUME RowsInv, JobsInv, AloneInv, NumberInv, NEW p \in Processes, ReadCurrent(p), UNCHANGED reportVars
    PROVE  \E then : Calm(p, then)
<1>1. PICK job : job = Head(todo[p])
  OBVIOUS
<1>2. job.do = "current" /\ todo[p] # <<>>
  BY <1>1 DEF ReadCurrent, Ready
<1>3. CurrentOk(job)
  BY <1>1, <1>2, HeadFacts DEF JobOk
<1>4. PICK row : row = inv[job.inv]
  OBVIOUS
<1>5. RowOk(row) /\ job.inv \in DOMAIN inv
  BY <1>3, <1>4 DEF RowsInv, CurrentOk, ChangeOk
<1>6. UNCHANGED <<inv, evidence, timeline, links, clusters, hypotheses, lost, reports>>
  BY <1>1, <1>4 DEF ReadCurrent, stored, Continue, reportVars
<1>7. RowsInv' /\ Grows
  BY <1>6, SameRows, SameGrows
<1>8. CASE Continue(p, <<>>)
  BY <1>1, <1>2, <1>6, <1>7, <1>8, Empty, ContinueCalm DEF ToSet
<1>9. ASSUME NEW j, Continue(p, <<j>>), JobOk(j), Light(j)
      PROVE  \E then : Calm(p, then)
  <2>1. PICK then : then = <<j>>
    OBVIOUS
  <2>2. IsSeq(then) /\ Len(then) = 1 /\ DOMAIN then = 1..1 /\ then[1] = j
    BY <2>1, Single, SeqFacts
  <2>3. ToSet(then) = {j}
    BY <2>2 DEF ToSet
  <2> QED
    BY <1>1, <1>2, <1>6, <1>7, <1>9, <2>1, <2>2, <2>3, ContinueCalm
<1>10. CASE ~RefusesReopen(job, row) /\ job.reopens
  <2>1. PICK j : j = [job EXCEPT !.reopens = FALSE]
    OBVIOUS
  <2>2. /\ j.do = "current" /\ j.inv = job.inv /\ j.input = job.input /\ j.expected = job.expected
        /\ j.event = job.event /\ j.reopens = FALSE /\ "otherwise" \notin DOMAIN j
        /\ j = [f \in {"do", "inv", "input", "expected", "event", "reopens"} |-> j[f]]
    BY <1>2, <1>3, <2>1 DEF CurrentOk
  <2>3. row.status = "closed"
    BY <1>10 DEF RefusesReopen, Terminal
  <2>4. SeenClosed(j)
    BY <1>4, <2>2, <2>3 DEF SeenClosed
  <2>5. ChangeOk(j)
    BY <1>3, <2>2 DEF CurrentOk, ChangeOk, Reopens
  <2>6. JobOk(j) /\ Light(j)
    BY <2>2, <2>4, <2>5 DEF JobOk, CurrentOk, Light
  <2>7. Continue(p, <<j>>)
    BY <1>1, <1>4, <1>10, <2>1 DEF ReadCurrent
  <2> QED
    BY <1>9, <2>6, <2>7
<1>11. CASE ~job.reopens /\ ValidInvestigation(Merged(job.input, row))
  <2>1. PICK next : next = Merged(job.input, row)
    OBVIOUS
  <2>2. PICK j : j = [do |-> "update", inv |-> job.inv, row |-> next, current |-> row,
                      input |-> job.input, expected |-> job.expected, event |-> job.event]
    OBVIOUS
  <2>3. DOMAIN row = RowFields /\ DOMAIN job.input \subseteq {"status", "severity"}
    BY <1>3, <1>5 DEF RowOk, CurrentOk, ChangeOk
  <2>4. /\ next = [f \in RowFields |-> next[f]]
        /\ \A f \in RowFields : next[f] = IF f \in DOMAIN job.input THEN job.input[f] ELSE row[f]
    BY <2>1, <2>3 DEF Merged
  <2>5. /\ next.version = row.version /\ next.first = row.first /\ next.last = row.last
        /\ next.status = IF "status" \in DOMAIN job.input THEN job.input.status ELSE row.status
    BY <2>3, <2>4 DEF RowFields
  <2>6. RowOk(next)
    BY <1>3, <1>5, <2>4, <2>5 DEF RowOk, CurrentOk, ChangeOk, Statuses
  <2>7. /\ j.do = "update" /\ j.inv = job.inv /\ j.input = job.input /\ j.expected = job.expected
        /\ j.event = job.event /\ j.row = next /\ j.current = row /\ "otherwise" \notin DOMAIN j
    BY <2>2
  <2>8. ChangeOk(j)
    BY <1>3, <2>7 DEF CurrentOk, ChangeOk, Reopens
  <2>9. SeenClosed(j)
    BY <1>3, <1>11, <2>7 DEF CurrentOk, SeenClosed, Reopens
  <2>10. UpdateOk(j)
    <3>1. job.expected <= row.version /\ row.version <= inv[job.inv].version
      BY <1>3, <1>4, <1>5 DEF CurrentOk, ChangeOk, RowOk
    <3> QED
      BY <1>4, <1>5, <2>5, <2>6, <2>7, <2>8, <2>9, <3>1 DEF UpdateOk
  <2>11. JobOk(j) /\ Light(j)
    BY <2>7, <2>10 DEF JobOk, Light
  <2>12. Continue(p, <<j>>)
    BY <1>1, <1>4, <1>8, <1>11, <2>1, <2>2 DEF ReadCurrent, RefusesReopen
  <2> QED
    BY <1>9, <2>11, <2>12
<1>12. CASE RefusesReopen(job, row) \/ (~job.reopens /\ ~ValidInvestigation(Merged(job.input, row)))
  BY <1>1, <1>4, <1>8, <1>12 DEF ReadCurrent, RefusesReopen
<1> QED
  BY <1>10, <1>11, <1>12

LEMMA ContinueNothing ==
    ASSUME RowsInv, RowsInv', JobsInv, AloneInv, Grows, NEW p \in Processes,
           todo[p] # <<>>, Continue(p, <<>>), UNCHANGED <<inv, evidence, timeline, links>>,
           Head(todo[p]).do \notin {"attach", "widen", "event"}
    PROVE  \E then : Calm(p, then)
<1>1. IsSeq(<<>>) /\ ToSet(<<>>) = {}
  BY Empty DEF ToSet
<1> QED
  BY <1>1, ContinueCalm

LEMMA ContinueOne ==
    ASSUME RowsInv, RowsInv', JobsInv, AloneInv, Grows, NEW p \in Processes, NEW j, JobOk(j), Light(j),
           j.do \notin {"current", "update"},
           todo[p] # <<>>, Continue(p, <<j>>), UNCHANGED <<inv, evidence, timeline, links>>,
           Head(todo[p]).do \notin {"attach", "widen", "event"}
    PROVE  \E then : Calm(p, then)
<1>1. PICK then : then = <<j>>
  OBVIOUS
<1>2. IsSeq(then) /\ DOMAIN then = 1..1 /\ then[1] = j
  BY <1>1, Single, SeqFacts
<1>3. ToSet(then) = {j}
  BY <1>2 DEF ToSet
<1> QED
  BY <1>1, <1>2, <1>3, ContinueCalm

LEMMA ContinueRecords ==
    ASSUME RowsInv, RowsInv', JobsInv, AloneInv, Grows, NEW p \in Processes,
           NEW i \in DOMAIN inv, NEW type, NEW subject, Plain(type), Continue(p, RecordEvent(i, type, subject)),
           todo[p] # <<>>, UNCHANGED <<inv, evidence, timeline, links>>,
           Head(todo[p]).do \notin {"attach", "widen", "event"}
    PROVE  \E then : Calm(p, then)
<1>1. PICK then : then = RecordEvent(i, type, subject)
  OBVIOUS
<1>2. IsSeq(then) /\ \A j \in ToSet(then) : EventJob(j, i, <<type, subject>>)
  BY <1>1, Records
<1>3. \A j \in ToSet(then) : JobOk(j) /\ Light(j) /\ j.do = "event"
  BY <1>2, PlainEvent DEF EventJob
<1> QED
  BY <1>1, <1>2, <1>3, ContinueCalm

LEMMA Appended ==
    ASSUME NEW s, IsSeq(s), NEW x
    PROVE  /\ IsSeq(Append(s, x)) /\ Len(Append(s, x)) = Len(s) + 1 /\ Append(s, x)[Len(s) + 1] = x
           /\ \A n \in 1..Len(s) : Append(s, x)[n] = s[n]
           /\ DOMAIN Append(s, x) = DOMAIN s \cup {Len(s) + 1} /\ Len(s) \in Nat /\ DOMAIN s = 1..Len(s)
<1> DEFINE S == ToSet(s) \cup {x}
<1>1. s \in Seq(S) /\ x \in S
  BY SeqMonotonic DEF IsSeq
<1>2. Append(s, x) \in Seq(S)
  BY <1>1
<1>3. IsSeq(Append(s, x))
  BY <1>2, OfSeq
<1>4. /\ Len(Append(s, x)) = Len(s) + 1 /\ Append(s, x)[Len(s) + 1] = x
      /\ \A n \in 1..Len(s) : Append(s, x)[n] = s[n]
  BY <1>1, AppendProperties
<1> QED
  BY <1>3, <1>4, SeqFacts

LEMMA NotesCalm ==
    ASSUME RowsInv, JobsInv, AloneInv, NumberInv, NEW p \in Processes, UNCHANGED reportVars,
           InsertNote(p) \/ SetNoteApproved(p)
    PROVE  \E then : Calm(p, then)
<1>1. UNCHANGED <<inv, evidence, timeline, links, clusters, hypotheses, lost, reports>> /\ todo[p] # <<>>
  BY DEF InsertNote, SetNoteApproved, Continue, reportVars, Ready
<1>2. RowsInv' /\ Grows
  BY <1>1, SameRows, SameGrows
<1>3. PICK job : job = Head(todo[p])
  OBVIOUS
<1>4. JobOk(job)
  BY <1>1, <1>3, HeadFacts
<1>5. CASE InsertNote(p)
  <2>1. job.do = "note" /\ job.inv \in DOMAIN inv
    BY <1>3, <1>4, <1>5 DEF InsertNote, Ready, JobOk
  <2>2. Continue(p, RecordEvent(job.inv, "analyst_note", Len(notes) + 1))
    BY <1>3, <1>5 DEF InsertNote
  <2>3. Plain("analyst_note")
    BY DEF Plain, FactTypes
  <2> QED
    BY <1>1, <1>2, <1>3, <2>1, <2>2, <2>3, ContinueRecords
<1>6. CASE SetNoteApproved(p)
  BY <1>1, <1>2, <1>6, ContinueNothing DEF SetNoteApproved, Ready
<1> QED
  BY <1>5, <1>6

LEMMA HypothesesCalm ==
    ASSUME RowsInv, JobsInv, AloneInv, NumberInv, NEW p \in Processes, UNCHANGED reportVars,
           InsertHypothesis(p) \/ SetHypothesisStatus(p) \/ InsertHypothesisEvidence(p)
    PROVE  \E then : Calm(p, then)
<1>1. UNCHANGED <<inv, evidence, timeline, links, clusters, lost, reports>> /\ todo[p] # <<>>
  BY DEF InsertHypothesis, SetHypothesisStatus, InsertHypothesisEvidence, Continue, reportVars, Ready
<1>2. PICK job : job = Head(todo[p])
  OBVIOUS
<1>3. JobOk(job)
  BY <1>1, <1>2, HeadFacts
<1>4. /\ IsSeq(hypotheses)
      /\ \A h \in DOMAIN hypotheses : "inv" \in DOMAIN hypotheses[h] /\ hypotheses[h].inv \in DOMAIN inv
  BY DEF RowsInv
<1>5. ASSUME IsSeq(hypotheses'), DOMAIN hypotheses \subseteq DOMAIN hypotheses',
             \A h \in DOMAIN hypotheses' : "inv" \in DOMAIN hypotheses'[h] /\ hypotheses'[h].inv \in DOMAIN inv
      PROVE  RowsInv' /\ Grows
  <2>1. RowsInv'
    BY <1>1, <1>5 DEF RowsInv
  <2> QED
    BY <1>1, <1>5, <2>1, SameGrows
<1>6. CASE InsertHypothesis(p)
  <2>1. job.do = "hypothesis" /\ job.inv \in DOMAIN inv /\ "inv" \in DOMAIN job.row /\ job.row.inv = job.inv
    BY <1>2, <1>3, <1>6 DEF InsertHypothesis, Ready, JobOk
  <2>2. hypotheses' = Append(hypotheses, job.row)
    BY <1>2, <1>6 DEF InsertHypothesis
  <2>3. /\ IsSeq(hypotheses') /\ DOMAIN hypotheses' = DOMAIN hypotheses \cup {Len(hypotheses) + 1}
        /\ hypotheses'[Len(hypotheses) + 1] = job.row
        /\ \A h \in DOMAIN hypotheses : hypotheses'[h] = hypotheses[h]
    BY <1>4, <2>2, Appended
  <2>4. RowsInv' /\ Grows
    BY <1>4, <1>5, <2>1, <2>3
  <2>5. Continue(p, RecordEvent(job.inv, "hypothesis_created", Len(hypotheses) + 1))
    BY <1>2, <1>6 DEF InsertHypothesis
  <2>6. Plain("hypothesis_created")
    BY DEF Plain, FactTypes
  <2> QED
    BY <1>1, <1>2, <2>1, <2>4, <2>5, <2>6, ContinueRecords
<1>7. ASSUME NEW h, NEW row, hypotheses' = [hypotheses EXCEPT ![h] = row],
             h \in DOMAIN hypotheses => "inv" \in DOMAIN row /\ row.inv \in DOMAIN inv
      PROVE  RowsInv' /\ Grows
  <2>1. hypotheses' = [k \in DOMAIN hypotheses |-> hypotheses'[k]]
    BY <1>7
  <2>2. \A k \in DOMAIN hypotheses : hypotheses'[k] = IF k = h THEN row ELSE hypotheses[k]
    BY <1>7
  <2>3. IsSeq(hypotheses')
    BY <1>4, <2>1, Mapped
  <2> QED
    BY <1>4, <1>5, <1>7, <2>1, <2>2, <2>3
<1>8. CASE SetHypothesisStatus(p)
  <2>1. job.do = "hypothesisStatus" /\ job.hypothesis \in DOMAIN hypotheses
    BY <1>2, <1>3, <1>8 DEF SetHypothesisStatus, Ready, JobOk
  <2>2. PICK row : row = [hypotheses[job.hypothesis] EXCEPT !.status = job.status, !.confidence = job.confidence]
    OBVIOUS
  <2>3. hypotheses' = [hypotheses EXCEPT ![job.hypothesis] = row]
    BY <1>2, <1>8, <2>2 DEF SetHypothesisStatus
  <2>4. "inv" \in DOMAIN row /\ row.inv = hypotheses[job.hypothesis].inv
    BY <1>4, <2>1, <2>2
  <2>5. RowsInv' /\ Grows
    BY <1>4, <1>7, <2>1, <2>3, <2>4
  <2>6. Continue(p, RecordEvent(hypotheses[job.hypothesis].inv, "hypothesis_updated", job.hypothesis))
    BY <1>2, <1>8 DEF SetHypothesisStatus
  <2>7. Plain("hypothesis_updated")
    BY DEF Plain, FactTypes
  <2> QED
    BY <1>1, <1>2, <1>4, <2>1, <2>5, <2>6, <2>7, ContinueRecords
<1>9. CASE InsertHypothesisEvidence(p)
  <2>1. PICK row : row = [hypotheses[job.hypothesis] EXCEPT !.support = @ + 1]
    OBVIOUS
  <2>2. hypotheses' = [hypotheses EXCEPT ![job.hypothesis] = row]
    BY <1>2, <1>9, <2>1 DEF InsertHypothesisEvidence
  <2>3. job.hypothesis \in DOMAIN hypotheses => "inv" \in DOMAIN row /\ row.inv = hypotheses[job.hypothesis].inv
    BY <1>4, <2>1
  <2>4. RowsInv' /\ Grows
    BY <1>4, <1>7, <2>2, <2>3
  <2> QED
    BY <1>1, <1>9, <2>4, ContinueNothing DEF InsertHypothesisEvidence, Ready
<1> QED
  BY <1>6, <1>8, <1>9

LEMMA ClustersCalm ==
    ASSUME RowsInv, JobsInv, AloneInv, NumberInv, NEW p \in Processes, UNCHANGED reportVars,
           InsertCluster(p) \/ AddClusterItem(p) \/ UpdateClusterStatus(p)
    PROVE  \E then : Calm(p, then)
<1> DEFINE ClusterOk(c) == c = [f \in {"status", "items", "inv"} |-> c[f]] /\ c.items \in Seq(IdsOf(FindingTable))
<1>1. UNCHANGED <<inv, evidence, timeline, links, hypotheses, lost, reports>> /\ todo[p] # <<>>
  BY DEF InsertCluster, AddClusterItem, UpdateClusterStatus, Continue, reportVars, Ready
<1>2. PICK job : job = Head(todo[p])
  OBVIOUS
<1>3. JobOk(job)
  BY <1>1, <1>2, HeadFacts
<1>4. IsSeq(clusters) /\ \A c \in DOMAIN clusters : ClusterOk(clusters[c])
  BY DEF RowsInv
<1>5. ASSUME IsSeq(clusters'), DOMAIN clusters \subseteq DOMAIN clusters',
             \A c \in DOMAIN clusters' : ClusterOk(clusters'[c])
      PROVE  RowsInv' /\ Grows
  <2>1. RowsInv'
    BY <1>1, <1>5 DEF RowsInv
  <2> QED
    BY <1>1, <1>5, <2>1, SameGrows
<1>6. CASE InsertCluster(p)
  <2>1. job.do = "cluster" /\ job.items \in Seq(IdsOf(FindingTable))
    BY <1>2, <1>3, <1>6 DEF InsertCluster, Ready, JobOk
  <2>2. PICK row : row = [status |-> "suggested", items |-> <<>>, inv |-> 0]
    OBVIOUS
  <2>3. ClusterOk(row)
    BY <2>2, Empty
  <2>4. clusters' = Append(clusters, row)
    BY <1>6, <2>2 DEF InsertCluster
  <2>5. RowsInv' /\ Grows
    <3>1. /\ IsSeq(clusters') /\ DOMAIN clusters' = DOMAIN clusters \cup {Len(clusters) + 1}
          /\ clusters'[Len(clusters) + 1] = row
          /\ \A c \in DOMAIN clusters : clusters'[c] = clusters[c]
      BY <1>4, <2>4, Appended
    <3> HIDE DEF ClusterOk
    <3> QED
      BY <1>4, <1>5, <2>3, <3>1
  <2>6. PICK items, k : items = job.items /\ k = Len(clusters) + 1
    OBVIOUS
  <2>7. PICK then : then = [n \in DOMAIN items |-> [do |-> "clusterItem", cluster |-> k, item |-> items[n]]]
    OBVIOUS
  <2>8. Continue(p, then)
    BY <1>2, <1>6, <2>6, <2>7 DEF InsertCluster
  <2>9. IsSeq(items) /\ \A n \in DOMAIN items : items[n] \in IdsOf(FindingTable)
    BY <2>1, <2>6, OfSeq
  <2>10. IsSeq(then)
    BY <2>7, <2>9, Mapped
  <2>11. ASSUME NEW j \in ToSet(then) PROVE JobOk(j) /\ Light(j) /\ j.do = "clusterItem"
    <3>1. PICK n \in DOMAIN items : j = [do |-> "clusterItem", cluster |-> k, item |-> items[n]]
      BY <2>7 DEF ToSet
    <3> QED
      BY <2>9, <3>1 DEF JobOk, Light
  <2> HIDE DEF ClusterOk
  <2> QED
    BY <1>1, <1>2, <2>1, <2>5, <2>8, <2>10, <2>11, ContinueCalm
<1>7. ASSUME NEW c, NEW row, clusters' = [clusters EXCEPT ![c] = row], c \in DOMAIN clusters => ClusterOk(row)
      PROVE  RowsInv' /\ Grows
  <2>1. clusters' = [k \in DOMAIN clusters |-> clusters'[k]]
    BY <1>7
  <2>2. \A k \in DOMAIN clusters : clusters'[k] = IF k = c THEN row ELSE clusters[k]
    BY <1>7
  <2>3. IsSeq(clusters')
    BY <1>4, <2>1, Mapped
  <2> HIDE DEF ClusterOk
  <2> QED
    BY <1>4, <1>5, <1>7, <2>1, <2>2, <2>3
<1>8. CASE AddClusterItem(p)
  <2>1. job.do = "clusterItem" /\ job.item \in IdsOf(FindingTable)
    BY <1>2, <1>3, <1>8 DEF AddClusterItem, Ready, JobOk
  <2>2. PICK c, old : c = job.cluster /\ old = clusters[c]
    OBVIOUS
  <2>3. PICK items : items = IF \E n \in DOMAIN old.items : old.items[n] = job.item
                             THEN old.items ELSE Append(old.items, job.item)
    OBVIOUS
  <2>4. PICK row : row = [old EXCEPT !.items = items]
    OBVIOUS
  <2>5. clusters' = [clusters EXCEPT ![c] = row]
    BY <1>2, <1>8, <2>2, <2>3, <2>4 DEF AddClusterItem
  <2>6. c \in DOMAIN clusters => ClusterOk(row)
    <3>1. SUFFICES ASSUME c \in DOMAIN clusters PROVE ClusterOk(row)
      OBVIOUS
    <3>2. ClusterOk(old)
      BY <1>4, <2>2, <3>1
    <3>3. items \in Seq(IdsOf(FindingTable))
      BY <2>1, <2>3, <3>2
    <3> QED
      BY <2>4, <3>2, <3>3
  <2>7. RowsInv' /\ Grows
    <3> HIDE DEF ClusterOk
    <3> QED
      BY <1>7, <2>5, <2>6
  <2> QED
    BY <1>1, <1>8, <2>7, ContinueNothing DEF AddClusterItem, Ready
<1>9. CASE UpdateClusterStatus(p)
  <2>1. PICK c, old : c = job.cluster /\ old = clusters[c]
    OBVIOUS
  <2>2. PICK row : row = [old EXCEPT !.status = job.status, !.inv = job.inv]
    OBVIOUS
  <2>3. clusters' = [clusters EXCEPT ![c] = row]
    BY <1>2, <1>9, <2>1, <2>2 DEF UpdateClusterStatus
  <2>4. c \in DOMAIN clusters => ClusterOk(row)
    BY <1>4, <2>1, <2>2
  <2>5. RowsInv' /\ Grows
    <3> HIDE DEF ClusterOk
    <3> QED
      BY <1>7, <2>3, <2>4
  <2> QED
    BY <1>1, <1>9, <2>5, ContinueNothing DEF UpdateClusterStatus, Ready
<1> QED
  BY <1>6, <1>8, <1>9

-----------------------------------------------------------------------------
(* The versions of reports.                                                *)

LEMMA LatestOk ==
    ASSUME NumberInv, NEW type, NEW subject
    PROVE  LatestVersion(type, subject) = Cardinality(OfIdentity(type, subject))
<1> DEFINE same == OfIdentity(type, subject)
           V == {0} \cup {reports[r].version : r \in same}
<1>1. PICK N : N = Cardinality(same)
  OBVIOUS
<1>2. N \in Nat /\ IsFiniteSet(same)
  BY <1>1, OfFinite DEF NumberInv, Numbered, OfIdentity
<1>3. V = 0..N
  <2>1. CASE same = {}
    <3>1. N = 0
      BY <1>1, <2>1, FS_EmptySet
    <3> QED
      BY <2>1, <3>1
  <2>2. CASE same # {}
    <3>1. PICK r \in same : TRUE
      BY <2>2
    <3>2. r \in DOMAIN reports /\ Of(reports, reports[r].type, reports[r].subject) = same
      BY DEF OfIdentity, Of
    <3>3. {reports[q].version : q \in same} = 1..N
      BY <1>1, <3>2 DEF NumberInv, Numbered
    <3> HIDE DEF same
    <3> QED
      BY <1>2, <3>3
  <2> QED
    BY <2>1, <2>2
<1>4. LatestVersion(type, subject) = Max(V)
  BY DEF LatestVersion, SameIdentity, OfIdentity, Of
<1>5. Max(0..N) = N
  <2>1. N \in 0..N /\ \A y \in 0..N : N >= y
    BY <1>2
  <2>2. PICK m : m = Max(0..N)
    OBVIOUS
  <2>3. m \in 0..N /\ \A y \in 0..N : m >= y
    BY <2>1, <2>2 DEF Max
  <2>4. m = N
    BY <2>1, <2>3
  <2> QED
    BY <2>2, <2>4
<1> QED
  BY <1>1, <1>3, <1>4, <1>5

(* Rows whose type, subject and version stay count as before.              *)
LEMMA NumbersStay ==
    ASSUME NEW rs, NEW ts, Numbered(rs), IsSeq(ts), DOMAIN ts = DOMAIN rs,
           \A r \in DOMAIN rs : /\ ts[r] = [f \in ReportFields |-> ts[r][f]]
                                     /\ ts[r].type = rs[r].type /\ ts[r].subject = rs[r].subject
                                     /\ ts[r].version = rs[r].version
    PROVE  Numbered(ts) /\ \A type, subject : Of(ts, type, subject) = Of(rs, type, subject)
<1>1. \A type, subject : Of(ts, type, subject) = Of(rs, type, subject)
  BY DEF Of
<1>2. ASSUME NEW r \in DOMAIN rs
      PROVE  LET same == Of(ts, ts[r].type, ts[r].subject)
             IN {ts[q].version : q \in same} = 1..Cardinality(same)
  <2>1. PICK same : same = Of(rs, rs[r].type, rs[r].subject)
    OBVIOUS
  <2>2. {rs[q].version : q \in same} = 1..Cardinality(same)
    BY <2>1 DEF Numbered
  <2>3. same \subseteq DOMAIN rs
    BY <2>1 DEF Of
  <2>4. {ts[q].version : q \in same} = {rs[q].version : q \in same}
    BY <2>3
  <2>5. Of(ts, ts[r].type, ts[r].subject) = same
    BY <2>1 DEF Of
  <2> QED
    BY <2>2, <2>4, <2>5
<1>3. ASSUME NEW r \in DOMAIN rs
      PROVE  ts[r].version = 1 + Cardinality(Before(ts, r))
  <2>1. rs[r].version = 1 + Cardinality(Before(rs, r))
    BY DEF Numbered, Before
  <2>2. 1..(r - 1) \subseteq DOMAIN rs
    <3>1. DOMAIN rs = 1..Len(rs) /\ Len(rs) \in Nat
      BY SeqFacts DEF Numbered
    <3> QED
      BY <3>1
  <2>3. Before(ts, r) = Before(rs, r)
    BY <2>2 DEF Before
  <2> QED
    BY <2>1, <2>3
<1> QED
  BY <1>1, <1>2, <1>3 DEF Numbered

(* The version that was read is taken, or it is the next one.              *)
IsNext(rs, row) ==
    /\ row = [f \in ReportFields |-> row[f]]
    /\ row.version \in 1..(Cardinality(Of(rs, row.type, row.subject)) + 1)
    /\ \A r \in DOMAIN rs : ~(/\ rs[r].type = row.type /\ rs[r].subject = row.subject
                              /\ rs[r].version = row.version)
LEMMA NumbersGrow ==
    ASSUME NEW rs, NEW ts, Numbered(rs), NEW row, IsNext(rs, row), ts = Append(rs, row)
    PROVE  Numbered(ts) /\ \A type, subject : Of(rs, type, subject) \subseteq Of(ts, type, subject)
<1> USE DEF IsNext
<1> DEFINE L == Len(rs)
           same == Of(rs, row.type, row.subject)
<1>1. /\ IsSeq(rs) /\ IsSeq(ts) /\ L \in Nat /\ DOMAIN rs = 1..L
      /\ DOMAIN ts = DOMAIN rs \cup {L + 1} /\ ts[L + 1] = row
      /\ \A r \in 1..L : ts[r] = rs[r]
  BY Appended DEF Numbered
<1>2. L + 1 \notin DOMAIN rs
  BY <1>1
<1>3. \A type, subject : Of(ts, type, subject) =
        Of(rs, type, subject) \cup (IF type = row.type /\ subject = row.subject THEN {L + 1} ELSE {})
  <2> TAKE type, subject
  <2>1. Of(ts, type, subject) = {r \in 1..L : ts[r].type = type /\ ts[r].subject = subject}
                                      \cup {r \in {L + 1} : ts[r].type = type /\ ts[r].subject = subject}
    BY <1>1 DEF Of
  <2>2. {r \in 1..L : ts[r].type = type /\ ts[r].subject = subject} = Of(rs, type, subject)
    BY <1>1 DEF Of
  <2>3. {r \in {L + 1} : ts[r].type = type /\ ts[r].subject = subject}
          = IF type = row.type /\ subject = row.subject THEN {L + 1} ELSE {}
    BY <1>1
  <2> QED
    BY <2>1, <2>2, <2>3
<1>4. PICK N : N = Cardinality(same)
  OBVIOUS
<1>5. IsFiniteSet(same) /\ N \in Nat /\ same \subseteq 1..L
  BY <1>4, OfFinite DEF Numbered
<1>6. {rs[q].version : q \in same} = 1..N
  <2>1. CASE same = {}
    <3>1. N = 0
      BY <1>4, <2>1, FS_EmptySet
    <3> HIDE DEF same
    <3> QED
      BY <2>1, <3>1
  <2>2. CASE same # {}
    <3>1. PICK r \in same : TRUE
      BY <2>2
    <3>2. r \in DOMAIN rs /\ Of(rs, rs[r].type, rs[r].subject) = same
      BY DEF Of
    <3> QED
      BY <1>4, <3>2 DEF Numbered
  <2> QED
    BY <2>1, <2>2
<1>7. row.version = N + 1
  <2>1. row.version \notin 1..N
    BY <1>6 DEF Of
  <2>2. row.version \in 1..(N + 1)
    BY <1>4
  <2> HIDE DEF same
  <2> QED
    BY <1>5, <2>1, <2>2
<1>8. L + 1 \notin same /\ Cardinality(same \cup {L + 1}) = N + 1
  <2>1. L + 1 \notin same
    BY <1>1, <1>5
  <2> QED
    BY <1>4, <1>5, <2>1, FS_AddElement
<1>9. Of(ts, row.type, row.subject) = same \cup {L + 1}
  BY <1>3
<1>10. {ts[q].version : q \in same \cup {L + 1}} = 1..(N + 1)
  <2>1. {ts[q].version : q \in same} = 1..N
    <3>1. \A q \in same : ts[q] = rs[q]
      BY <1>1, <1>5
    <3> QED
      BY <1>6, <3>1
  <2>2. {ts[q].version : q \in same \cup {L + 1}} = {ts[q].version : q \in same} \cup {N + 1}
    <3>1. ts[L + 1].version = N + 1
      BY <1>1, <1>7
    <3> HIDE DEF same, L
    <3> QED
      BY <3>1
  <2>3. 1..N \cup {N + 1} = 1..(N + 1)
    BY <1>5
  <2> QED
    BY <2>1, <2>2, <2>3
<1>11. ASSUME NEW r \in DOMAIN ts
       PROVE  LET now == Of(ts, ts[r].type, ts[r].subject)
              IN {ts[q].version : q \in now} = 1..Cardinality(now)
  <2>1. CASE ts[r].type = row.type /\ ts[r].subject = row.subject
    <3>1. Of(ts, ts[r].type, ts[r].subject) = same \cup {L + 1}
      BY <1>9, <2>1
    <3> QED
      BY <1>8, <1>10, <3>1
  <2>2. CASE ~(ts[r].type = row.type /\ ts[r].subject = row.subject)
    <3>1. r \in DOMAIN rs /\ ts[r] = rs[r]
      BY <1>1, <2>2
    <3>2. PICK type, subject : type = rs[r].type /\ subject = rs[r].subject
      OBVIOUS
    <3>3. PICK now : now = Of(rs, type, subject)
      OBVIOUS
    <3>4. {rs[q].version : q \in now} = 1..Cardinality(now)
      BY <3>1, <3>2, <3>3 DEF Numbered
    <3>5. Of(ts, type, subject) = now
      <4>1. ~(type = row.type /\ subject = row.subject)
        BY <2>2, <3>1, <3>2
      <4>2. Of(ts, type, subject) = Of(rs, type, subject) \cup {}
        BY <1>3, <4>1
      <4> QED
        BY <3>3, <4>2
    <3>6. \A q \in now : ts[q] = rs[q]
      BY <1>1, <3>3 DEF Of
    <3>7. {ts[q].version : q \in now} = 1..Cardinality(now)
      BY <3>4, <3>6
    <3>8. Of(ts, ts[r].type, ts[r].subject) = now
      <4>1. ts[r].type = type /\ ts[r].subject = subject
        BY <3>1, <3>2
      <4> QED
        BY <3>5, <4>1
    <3> QED
      BY <3>7, <3>8
  <2> QED
    BY <2>1, <2>2
<1>12. ASSUME NEW r \in DOMAIN ts
       PROVE  ts[r].version = 1 + Cardinality(Before(ts, r))
  <2>1. CASE r = L + 1
    <3>1. Before(ts, r) = same
      <4>1. r - 1 = L
        BY <1>1, <2>1
      <4>2. Before(ts, r) = {s \in 1..L : ts[s].type = row.type /\ ts[s].subject = row.subject}
        BY <1>1, <2>1, <4>1 DEF Before
      <4>3. same = {s \in 1..L : rs[s].type = row.type /\ rs[s].subject = row.subject}
        BY <1>1 DEF Of
      <4> QED
        BY <1>1, <4>2, <4>3
    <3> QED
      BY <1>1, <1>4, <1>5, <1>7, <2>1, <3>1
  <2>2. CASE r # L + 1
    <3>1. r \in 1..L /\ r \in DOMAIN rs
      BY <1>1, <2>2
    <3>2. 1..(r - 1) \subseteq 1..L
      BY <1>1, <3>1
    <3>3. Before(ts, r) = Before(rs, r)
      BY <1>1, <3>1, <3>2 DEF Before
    <3>4. rs[r].version = 1 + Cardinality(Before(rs, r))
      BY <3>1 DEF Numbered, Before
    <3> QED
      BY <1>1, <3>1, <3>3, <3>4
  <2> QED
    BY <2>1, <2>2
<1>14. \A r \in DOMAIN ts : ts[r] = [f \in ReportFields |-> ts[r][f]]
  BY <1>1 DEF Numbered
<1>15. \A type, subject : Of(rs, type, subject) \subseteq Of(ts, type, subject)
  BY <1>1 DEF Of
<1> QED
  BY <1>1, <1>11, <1>12, <1>14, <1>15 DEF Numbered

LEMMA ReportsGrow ==
    ASSUME RowsInv, NumberInv, NumberInv', UNCHANGED <<inv, evidence, links, clusters, hypotheses, lost>>,
           \A type, subject : Of(reports, type, subject) \subseteq Of(reports', type, subject)
    PROVE  Grows
<1>1. \A i : At(i)' = At(i) /\ (\A e : Known(i, e)' = Known(i, e)) /\ \A x : Holds(i, x)' = Holds(i, x)
  BY DEF At, Known, Holds
<1>2. \A i \in DOMAIN inv : inv[i].version \in Nat
  BY DEF RowsInv, RowOk
<1>3. ASSUME NEW type, NEW subject
      PROVE  /\ Cardinality(Of(reports, type, subject)) \in Nat
             /\ Cardinality(Of(reports', type, subject)) \in Nat
             /\ Cardinality(Of(reports, type, subject)) <= Cardinality(Of(reports', type, subject))
  <2>1. IsFiniteSet(Of(reports', type, subject))
    BY OfFinite DEF NumberInv, Numbered
  <2>2. Of(reports, type, subject) \in SUBSET Of(reports', type, subject)
    OBVIOUS
  <2>3. Cardinality(Of(reports, type, subject)) <= Cardinality(Of(reports', type, subject))
    BY <2>1, <2>2, FS_Subset
  <2> QED
    BY <2>3, OfFinite DEF NumberInv, Numbered
<1>4. \A type, subject : /\ OfIdentity(type, subject) = Of(reports, type, subject)
                         /\ OfIdentity(type, subject)' = Of(reports', type, subject)
  BY DEF OfIdentity
<1> QED
  BY <1>1, <1>2, <1>3, <1>4 DEF Grows

LEMMA ReadReportsCalm ==
    ASSUME RowsInv, JobsInv, AloneInv, NumberInv, NEW p \in Processes,
           ListReportEvidence(p) \/ ReadLatestVersion(p)
    PROVE  (\E then : Calm(p, then)) /\ NumberInv'
<1>1. UNCHANGED <<inv, evidence, timeline, links, clusters, hypotheses, lost, reports>> /\ todo[p] # <<>>
  BY DEF ListReportEvidence, ReadLatestVersion, Continue, stored, reportVars, Ready
<1>2. RowsInv' /\ Grows /\ NumberInv'
  BY <1>1, SameRows, SameGrows DEF NumberInv
<1>3. PICK job : job = Head(todo[p])
  OBVIOUS
<1>4. CASE ListReportEvidence(p)
  <2>1. PICK refs : refs = InvestigationRefs(job.subject, evidence[job.subject])
    OBVIOUS
  <2>2. PICK j : j = [do |-> "version", type |-> "investigation", subject |-> job.subject, by |-> job.by,
                      refs |-> refs]
    OBVIOUS
  <2>3. Continue(p, <<j>>) /\ job.do = "listEvidence"
    BY <1>3, <1>4, <2>1, <2>2 DEF ListReportEvidence, VersionJob, Ready
  <2>4. JobOk(j) /\ Light(j) /\ j.do = "version"
    BY <2>2 DEF JobOk, Light
  <2> QED
    BY <1>1, <1>2, <1>3, <2>3, <2>4, ContinueOne
<1>5. CASE ReadLatestVersion(p)
  <2>1. PICK row : row = [type |-> job.type, subject |-> job.subject, refs |-> job.refs, by |-> job.by,
                          version |-> LatestVersion(job.type, job.subject) + 1, status |-> "generated",
                          approvedBy |-> NoOne]
    OBVIOUS
  <2>2. PICK j : j = [do |-> "report", row |-> row]
    OBVIOUS
  <2>3. job.do = "version" /\ (Continue(p, <<j>>) \/ Continue(p, <<>>))
    BY <1>3, <1>5, <2>1, <2>2 DEF ReadLatestVersion, Ready
  <2>4. /\ row.type = job.type /\ row.subject = job.subject
        /\ row.version = LatestVersion(job.type, job.subject) + 1
        /\ row = [f \in ReportFields |-> row[f]]
    BY <2>1 DEF ReportFields
  <2>5. row.version \in 1..(Cardinality(OfIdentity(row.type, row.subject)) + 1)
    <3>1. PICK N : N = Cardinality(OfIdentity(row.type, row.subject))
      OBVIOUS
    <3>2. N \in Nat
      BY <3>1, OfFinite DEF OfIdentity, NumberInv, Numbered
    <3>3. row.version = N + 1
      BY <2>4, <3>1, LatestOk
    <3> QED
      BY <3>1, <3>2, <3>3
  <2>6. JobOk(j) /\ Light(j) /\ j.do = "report"
    <3>1. j.do = "report" /\ j.row = row /\ "otherwise" \notin DOMAIN j
      BY <2>2
    <3>2. ReportOk(j)
      BY <2>4, <2>5, <3>1 DEF ReportOk
    <3> QED
      BY <3>1, <3>2 DEF JobOk, Light
  <2> QED
    BY <1>1, <1>2, <1>3, <2>3, <2>6, ContinueOne, ContinueNothing
<1> QED
  BY <1>4, <1>5

LEMMA WriteReportsCalm ==
    ASSUME RowsInv, JobsInv, AloneInv, NumberInv, NEW p \in Processes,
           CreateReport(p) \/ SetApproved(p) \/ SetStatus(p)
    PROVE  (\E then : Calm(p, then)) /\ NumberInv'
<1>1. /\ UNCHANGED <<inv, evidence, timeline, links, clusters, hypotheses, lost>> /\ todo[p] # <<>>
      /\ Continue(p, <<>>)
  BY DEF CreateReport, SetApproved, SetStatus, Continue, stored, Ready
<1>2. RowsInv'
  BY <1>1, SameRows
<1>3. PICK job : job = Head(todo[p])
  OBVIOUS
<1>4. ASSUME NEW r, NEW row, reports' = [reports EXCEPT ![r] = row],
             r \in DOMAIN reports =>
                /\ row = [f \in ReportFields |-> row[f]] /\ row.version = reports[r].version
                /\ row.type = reports[r].type /\ row.subject = reports[r].subject
      PROVE  NumberInv' /\ \A type, subject : Of(reports, type, subject) \subseteq Of(reports', type, subject)
  <2>1. IsSeq(reports) /\ \A k \in DOMAIN reports : reports[k] = [f \in ReportFields |-> reports[k][f]]
    BY DEF NumberInv, Numbered
  <2>2. reports' = [k \in DOMAIN reports |-> reports'[k]]
    BY <1>4
  <2>3. \A k \in DOMAIN reports : reports'[k] = IF k = r THEN row ELSE reports[k]
    BY <1>4
  <2>4. IsSeq(reports')
    BY <2>1, <2>2, Mapped
  <2>5. \A k \in DOMAIN reports : /\ reports'[k] = [f \in ReportFields |-> reports'[k][f]]
                                  /\ reports'[k].type = reports[k].type /\ reports'[k].subject = reports[k].subject
                                  /\ reports'[k].version = reports[k].version
    BY <1>4, <2>1, <2>3
  <2>6. DOMAIN reports' = DOMAIN reports /\ Numbered(reports)
    BY <2>2 DEF NumberInv
  <2>7. Numbered(reports') /\ \A type, subject : Of(reports', type, subject) = Of(reports, type, subject)
    BY <2>4, <2>5, <2>6, NumbersStay
  <2> QED
    BY <2>7 DEF NumberInv
<1>5. CASE CreateReport(p)
  <2>1. job.do = "report" /\ ReportOk(job)
    BY <1>1, <1>3, <1>5, HeadFacts DEF CreateReport, Ready, JobOk
  <2>2. PICK row : row = job.row
    OBVIOUS
  <2>3. \/ reports' = reports
        \/ /\ reports' = Append(reports, row)
           /\ \A r \in DOMAIN reports : ~(/\ reports[r].type = row.type /\ reports[r].subject = row.subject
                                          /\ reports[r].version = row.version)
    BY <1>3, <1>5, <2>2 DEF CreateReport
  <2>4. NumberInv' /\ \A type, subject : Of(reports, type, subject) \subseteq Of(reports', type, subject)
    <3>1. CASE reports' = reports
      BY <3>1 DEF NumberInv
    <3>2. CASE /\ reports' = Append(reports, row)
               /\ \A r \in DOMAIN reports : ~(/\ reports[r].type = row.type /\ reports[r].subject = row.subject
                                              /\ reports[r].version = row.version)
      <4>1. PICK rs, ts : rs = reports /\ ts = reports'
        OBVIOUS
      <4>2. Numbered(rs) /\ IsNext(rs, row)
        BY <2>1, <2>2, <3>2, <4>1 DEF NumberInv, ReportOk, OfIdentity, IsNext
      <4>3. ts = Append(rs, row)
        BY <3>2, <4>1
      <4>4. Numbered(ts) /\ \A type, subject : Of(rs, type, subject) \subseteq Of(ts, type, subject)
        BY <4>2, <4>3, NumbersGrow
      <4> QED
        BY <4>1, <4>4 DEF NumberInv
    <3> QED
      BY <2>3, <3>1, <3>2
  <2>5. Grows
    BY <1>1, <2>4, ReportsGrow
  <2> QED
    BY <1>1, <1>2, <1>3, <2>1, <2>4, <2>5, ContinueNothing
<1>6. CASE SetApproved(p)
  <2>1. PICK r, old : r = job.report /\ old = reports[r]
    OBVIOUS
  <2>2. PICK row : row = [old EXCEPT !.status = "approved", !.approvedBy = job.by]
    OBVIOUS
  <2>3. reports' = [reports EXCEPT ![r] = row]
    BY <1>3, <1>6, <2>1, <2>2 DEF SetApproved
  <2>4. r \in DOMAIN reports =>
                /\ row = [f \in ReportFields |-> row[f]] /\ row.version = reports[r].version
                /\ row.type = reports[r].type /\ row.subject = reports[r].subject
    <3>1. SUFFICES ASSUME r \in DOMAIN reports
                   PROVE  /\ row = [f \in ReportFields |-> row[f]] /\ row.version = old.version
                          /\ row.type = old.type /\ row.subject = old.subject
      BY <2>1
    <3>2. old = [f \in ReportFields |-> old[f]]
      BY <2>1, <3>1 DEF NumberInv, Numbered
    <3> QED
      BY <2>2, <3>2 DEF ReportFields
  <2>5. NumberInv' /\ Grows
    BY <1>1, <1>4, <2>3, <2>4, ReportsGrow
  <2> QED
    BY <1>1, <1>2, <1>6, <2>5, ContinueNothing DEF SetApproved, Ready
<1>7. CASE SetStatus(p)
  <2>1. PICK r, old : r = job.report /\ old = reports[r]
    OBVIOUS
  <2>2. PICK row : row = [old EXCEPT !.status = job.status]
    OBVIOUS
  <2>3. reports' = [reports EXCEPT ![r] = row]
    BY <1>3, <1>7, <2>1, <2>2 DEF SetStatus
  <2>4. r \in DOMAIN reports =>
                /\ row = [f \in ReportFields |-> row[f]] /\ row.version = reports[r].version
                /\ row.type = reports[r].type /\ row.subject = reports[r].subject
    <3>1. SUFFICES ASSUME r \in DOMAIN reports
                   PROVE  /\ row = [f \in ReportFields |-> row[f]] /\ row.version = old.version
                          /\ row.type = old.type /\ row.subject = old.subject
      BY <2>1
    <3>2. old = [f \in ReportFields |-> old[f]]
      BY <2>1, <3>1 DEF NumberInv, Numbered
    <3> QED
      BY <2>2, <3>2 DEF ReportFields
  <2>5. NumberInv' /\ Grows
    BY <1>1, <1>4, <2>3, <2>4, ReportsGrow
  <2> QED
    BY <1>1, <1>2, <1>7, <2>5, ContinueNothing DEF SetStatus, Ready
<1> QED
  BY <1>5, <1>6, <1>7

LEMMA PackagesCalm ==
    ASSUME RowsInv, JobsInv, AloneInv, NumberInv, NEW p \in Processes,
           CreatePackage(p) \/ CreateItem(p) \/ InsertControlEvidence(p)
    PROVE  (\E then : Calm(p, then)) /\ NumberInv'
<1>1. UNCHANGED <<inv, evidence, timeline, links, clusters, hypotheses, lost, reports>> /\ todo[p] # <<>>
  BY DEF CreatePackage, CreateItem, InsertControlEvidence, Continue, stored, Ready
<1>2. RowsInv' /\ Grows /\ NumberInv'
  BY <1>1, SameRows, SameGrows DEF NumberInv
<1>3. PICK job : job = Head(todo[p])
  OBVIOUS
<1>4. CASE CreatePackage(p)
  <2>1. PICK items : items = CitedItems(job.report, job.refs)
    OBVIOUS
  <2>2. PICK j : j = [do |-> "packageItems", package |-> Len(packages) + 1, items |-> items]
    OBVIOUS
  <2>3. Continue(p, <<j>>) /\ job.do = "package"
    BY <1>3, <1>4, <2>1, <2>2 DEF CreatePackage, Ready
  <2>4. JobOk(j) /\ Light(j) /\ j.do = "packageItems"
    BY <2>2 DEF JobOk, Light
  <2> QED
    BY <1>1, <1>2, <1>3, <2>3, <2>4, ContinueOne
<1>5. CASE CreateItem(p)
  <2>1. PICK j : j = [job EXCEPT !.items = Tail(@)]
    OBVIOUS
  <2>2. (Continue(p, <<j>>) \/ Continue(p, <<>>)) /\ job.do = "packageItems"
    BY <1>3, <1>5, <2>1 DEF CreateItem, Ready
  <2>3. JobOk(job)
    BY <1>1, <1>3, HeadFacts
  <2>4. j.do = "packageItems" /\ "otherwise" \notin DOMAIN j
    <3>1. DOMAIN j = DOMAIN job /\ "otherwise" \notin DOMAIN job
      BY <2>1, <2>2, <2>3 DEF JobOk
    <3>2. j.do = job.do
      BY <2>1, <2>2
    <3> QED
      BY <2>2, <3>1, <3>2
  <2>5. JobOk(j) /\ Light(j)
    BY <2>4 DEF JobOk, Light
  <2> QED
    BY <1>1, <1>2, <1>3, <2>2, <2>4, <2>5, ContinueOne, ContinueNothing
<1>6. CASE InsertControlEvidence(p)
  BY <1>1, <1>2, <1>6, ContinueNothing DEF InsertControlEvidence, Ready
<1> QED
  BY <1>4, <1>5, <1>6

-----------------------------------------------------------------------------
(* What a step must leave alone for each part of the invariant to hold on. *)

Even(i) == \A E : Counted(E) => Total(i, E)' = Total(i, E)
Fewer(i) == \A E : Counted(E) => Total(i, E)' \in Nat /\ Total(i, E)' <= Total(i, E)

LEMMA FactsKept ==
    ASSUME RowsInv, FactInv, lost \subseteq lost', DOMAIN inv' = DOMAIN inv,
           \A i \in DOMAIN inv : Even(i) \/ (i \in lost' /\ Fewer(i)),
           \A i \in DOMAIN inv : \A e : Known(i, e)' = Known(i, e)
    PROVE  FactInv'
<1> SUFFICES ASSUME NEW i \in DOMAIN inv, NEW e, Fact(e)
             PROVE  /\ Total(i, {e})' <= 1
                    /\ Total(i, {e})' = 1 => Known(i, e)'
                    /\ i \notin lost' /\ e[1] \in {"finding_attached", "evidence_attached"} /\ Known(i, e)'
                         => Total(i, {e})' = 1
  BY DEF FactInv
<1>1. Counted({e})
  BY CountedSets DEF Fact
<1>2. /\ Total(i, {e}) <= 1 /\ (Total(i, {e}) = 1 => Known(i, e)) /\ Total(i, {e}) \in Nat
      /\ i \notin lost /\ e[1] \in {"finding_attached", "evidence_attached"} /\ Known(i, e) => Total(i, {e}) = 1
  BY CountFinite DEF FactInv
<1>3. CASE Even(i)
  <2>1. Total(i, {e})' = Total(i, {e})
    BY <1>1, <1>3 DEF Even
  <2> QED
    BY <1>2, <2>1
<1>4. CASE i \in lost' /\ Fewer(i)
  <2>1. Total(i, {e})' \in Nat /\ Total(i, {e})' <= Total(i, {e})
    BY <1>1, <1>4 DEF Fewer
  <2>2. PICK m, n : m = Total(i, {e})' /\ n = Total(i, {e})
    OBVIOUS
  <2>3. m \in Nat /\ n \in Nat /\ m <= n /\ n <= 1
    BY <1>2, <2>1, <2>2
  <2>4. m <= 1 /\ (m = 1 => n = 1)
    BY <2>3
  <2> QED
    BY <1>2, <1>4, <2>2, <2>4
<1> QED
  BY <1>3, <1>4

LEMMA TrailKept ==
    ASSUME TrailInv, lost \subseteq lost', DOMAIN inv' = DOMAIN inv,
           \A i \in DOMAIN inv : i \notin lost' => Even(i) /\ inv'[i].status = inv[i].status
    PROVE  TrailInv'
<1> SUFFICES ASSUME NEW i \in DOMAIN inv, i \notin lost'
             PROVE  /\ \A s \in Statuses : Total(i, Entering(s))' + One(s = "new")
                                           = Total(i, Leaving(s))' + One(inv'[i].status = s)
                    /\ Total(i, Reopening(i))' = Total(i, ClosedToOpen)'
  BY DEF TrailInv
<1>1. ASSUME NEW s \in Statuses
      PROVE  Total(i, Entering(s))' = Total(i, Entering(s)) /\ Total(i, Leaving(s))' = Total(i, Leaving(s))
  BY CountedSets DEF Even
<1>2. Total(i, Reopening(i))' = Total(i, Reopening(i)) /\ Total(i, ClosedToOpen)' = Total(i, ClosedToOpen)
  BY CountedSets DEF Even
<1>3. i \notin lost /\ inv'[i].status = inv[i].status
  OBVIOUS
<1> QED
  BY <1>1, <1>2, <1>3 DEF TrailInv

LEMMA WindowKept ==
    ASSUME WindowInv, lost \subseteq lost', DOMAIN inv' = DOMAIN inv,
           \A i \in DOMAIN inv : /\ inv'[i].first = inv[i].first /\ inv'[i].last = inv[i].last /\ At(i)' = At(i)
                                 /\ i \notin lost' => \A t : Widening(i, t) => Widening(i, t)'
    PROVE  WindowInv'
BY DEF WindowInv

(* One more event on the timeline is one more copy.                        *)
LEMMA BagMore ==
    ASSUME NEW b, BagOk(b), NEW e, e[1] = "status_changed" => e \in StatusEvents,
           NEW c, c = b (+) SetToBag({e})
    PROVE  BagOk(c) /\ \E n : <<e, n>> \notin Copies(b) /\ Copies(c) = Copies(b) \cup {<<e, n>>}
<1> DEFINE old == IF e \in DOMAIN b THEN b[e] ELSE 0
<1>1. /\ c = [x \in DOMAIN b \cup {e} |-> c[x]]
      /\ \A x \in DOMAIN b \cup {e} : c[x] = (IF x \in DOMAIN b THEN b[x] ELSE 0) + (IF x \in {e} THEN 1 ELSE 0)
  BY DEF (+), SetToBag
<1>2. old \in Nat /\ \A x \in DOMAIN b : b[x] \in Nat \ {0}
  BY DEF BagOk
<1>3. DOMAIN c = DOMAIN b \cup {e} /\ c[e] = old + 1 /\ \A x \in DOMAIN b \ {e} : c[x] = b[x]
  <2>1. DOMAIN c = DOMAIN b \cup {e}
    BY <1>1
  <2>2. c[e] = old + 1
    BY <1>1
  <2>3. ASSUME NEW x \in DOMAIN b \ {e} PROVE c[x] = b[x]
    <3>1. c[x] = b[x] + 0
      BY <1>1
    <3>2. b[x] \in Nat
      BY <1>2
    <3> QED
      BY <3>1, <3>2
  <2> QED
    BY <2>1, <2>2, <2>3
<1>4. PICK k \in Nat : k = old
  BY <1>2
<1>5. <<e, k + 1>> \notin Copies(b)
  <2>1. SUFFICES ASSUME <<e, k + 1>> \in Copies(b) PROVE FALSE
    OBVIOUS
  <2>2. PICK x \in DOMAIN b : \E n \in 1..b[x] : <<e, k + 1>> = <<x, n>>
    BY <2>1 DEF Copies
  <2>3. x = e /\ k + 1 \in 1..b[e]
    BY <2>2
  <2>4. b[e] = k
    BY <1>4, <2>2, <2>3
  <2> QED
    BY <2>3, <2>4
<1>6. Copies(c) = Copies(b) \cup {<<e, k + 1>>}
  <2>1. ASSUME NEW y \in Copies(c) PROVE y \in Copies(b) \cup {<<e, k + 1>>}
    <3>1. PICK x, n : x \in DOMAIN c /\ n \in 1..c[x] /\ y = <<x, n>>
      BY DEF Copies
    <3>2. CASE x # e
      BY <1>3, <3>1, <3>2 DEF Copies
    <3>3. CASE x = e
      <4>1. n \in 1..(k + 1)
        BY <1>3, <1>4, <3>1, <3>3
      <4>2. CASE n = k + 1
        BY <3>1, <3>3, <4>2
      <4>3. CASE n # k + 1
        <5>1. n \in 1..k
          BY <4>1, <4>3
        <5>2. e \in DOMAIN b /\ n \in 1..b[e]
          BY <1>4, <5>1
        <5> QED
          BY <3>1, <3>3, <5>2 DEF Copies
      <4> QED
        BY <4>2, <4>3
    <3> QED
      BY <3>2, <3>3
  <2>2. ASSUME NEW y \in Copies(b) PROVE y \in Copies(c)
    <3>1. PICK x, n : x \in DOMAIN b /\ n \in 1..b[x] /\ y = <<x, n>>
      BY DEF Copies
    <3>2. CASE x = e
      <4>1. b[e] = k /\ c[e] = k + 1 /\ n \in 1..k
        BY <1>3, <1>4, <3>1, <3>2
      <4>2. n \in 1..(k + 1)
        BY <4>1
      <4> QED
        BY <1>3, <3>1, <3>2, <4>1, <4>2 DEF Copies
    <3>3. CASE x # e
      BY <1>3, <3>1, <3>3 DEF Copies
    <3> QED
      BY <3>2, <3>3
  <2>3. <<e, k + 1>> \in Copies(c)
    <3>1. e \in DOMAIN c /\ k + 1 \in 1..c[e]
      BY <1>3, <1>4
    <3> QED
      BY <3>1 DEF Copies
  <2> QED
    BY <2>1, <2>2, <2>3
<1>7. IsFiniteSet(Copies(c))
  <2>1. IsFiniteSet(Copies(b))
    BY DEF BagOk
  <2> QED
    BY <1>6, <2>1, FS_AddElement
<1>8. ASSUME NEW x \in DOMAIN c PROVE c[x] \in Nat \ {0} /\ (x[1] = "status_changed" => x \in StatusEvents)
  <2>1. CASE x = e
    BY <1>3, <1>4, <2>1
  <2>2. CASE x # e
    BY <1>3, <2>2 DEF BagOk
  <2> QED
    BY <2>1, <2>2
<1>9. c = [x \in DOMAIN c |-> c[x]]
  BY <1>1
<1> QED
  BY <1>5, <1>6, <1>7, <1>8, <1>9 DEF BagOk

(* A statement that adds to no count of investigation i.                   *)
Quiet(j, i) == j.do = "event" /\ j.inv = i => Plain(j.event[1])

LEMMA QuietOwes ==
    ASSUME NEW j, NEW i, Quiet(j, i), NEW E, Counted(E)
    PROVE  ~Owed(j, i, E)
BY CountedTypes DEF Quiet, Owed, Plain

LEMMA EvenStep ==
    ASSUME JobsInv, NEW p \in Processes, NEW then, Moves(p, then), NEW i, timeline'[i] = timeline[i],
           1 \in DOMAIN todo[p] => Quiet(todo[p][1], i), \A j \in ToSet(then) : Quiet(j, i)
    PROVE  Even(i)
<1> SUFFICES ASSUME NEW E, Counted(E) PROVE Total(i, E)' = Total(i, E)
  BY DEF Even, Counted
<1>1. Owing(i, E)' = Owing(i, E)
  BY QuietOwes, OwingSame
<1>2. Recorded(i, E)' = Recorded(i, E)
  BY DEF Recorded
<1> QED
  BY <1>1, <1>2 DEF Total

LEMMA SingleQuiet ==
    ASSUME JobsInv, SingleInv, NEW p \in Processes, NEW then, Moves(p, then),
           \A j \in ToSet(then) : \A i : Quiet(j, i)
    PROVE  SingleInv'
<1>1. ASSUME NEW i, NEW E, Counted(E) PROVE \A m \in DOMAIN then : ~Owed(then[m], i, E)
  BY <1>1, QuietOwes DEF ToSet
<1> QED
  BY <1>1, SingleKept

LEMMA AtNat ==
    ASSUME RowsInv, NEW i \in DOMAIN inv
    PROVE  At(i) \subseteq Nat \ {0}
<1> SUFFICES ASSUME NEW n \in DOMAIN evidence[i], NEW t \in ObservedBy(evidence[i][n]) PROVE t \in Nat \ {0}
  BY DEF At
<1>1. PICK e : e = evidence[i][n] /\ RefOk(e)
  BY DEF RowsInv
<1> QED
  BY <1>1, FindingRow DEF ObservedBy, RefOk

LEMMA CountsStay ==
    ASSUME NumberInv, reports' = reports
    PROVE  \A type, subject : /\ Cardinality(OfIdentity(type, subject)) \in Nat
                              /\ Cardinality(OfIdentity(type, subject)') \in Nat
                              /\ Cardinality(OfIdentity(type, subject)) <= Cardinality(OfIdentity(type, subject)')
<1>1. \A type, subject : Cardinality(OfIdentity(type, subject)) \in Nat
  BY OfFinite DEF NumberInv, Numbered, OfIdentity
<1>2. \A type, subject : OfIdentity(type, subject)' = OfIdentity(type, subject)
  BY DEF OfIdentity, Of
<1> QED
  BY <1>1, <1>2

-----------------------------------------------------------------------------
(* Statements that move the counts or the window.                          *)

LEMMA WidenKeeps ==
    ASSUME CaseInv, NumberInv, NEW p \in Processes, UpdateFirstLastObserved(p), UNCHANGED reportVars
    PROVE  CaseInv'
<1>1. RowsInv /\ JobsInv /\ AloneInv /\ SingleInv /\ FactInv /\ TrailInv /\ WindowInv /\ AcceptInv
  BY DEF CaseInv
<1>2. PICK job : job = Head(todo[p])
  OBVIOUS
<1>3. /\ todo[p] # <<>> /\ job.do = "widen" /\ Continue(p, <<>>)
      /\ UNCHANGED <<evidence, timeline, links, clusters, hypotheses, lost, reports>>
  BY <1>2 DEF UpdateFirstLastObserved, Ready, Continue, reportVars
<1>4. job = todo[p][1] /\ 1 \in DOMAIN todo[p] /\ WidenOk(job)
  BY <1>1, <1>2, <1>3, HeadFacts DEF JobOk
<1>5. PICK k, o : k = job.inv /\ o = job.observed
  OBVIOUS
<1>6. PICK old : old = inv[k]
  OBVIOUS
<1>7. k \in DOMAIN inv /\ o \in At(k) /\ At(k) \subseteq Nat \ {0} /\ RowOk(old)
  BY <1>1, <1>4, <1>5, <1>6, AtNat DEF WidenOk, RowsInv
<1>8. PICK first, last : /\ first = (IF old.first = 0 \/ o < old.first THEN o ELSE old.first)
                         /\ last = (IF o > old.last THEN o ELSE old.last)
  OBVIOUS
<1>9. PICK row : row = Widened(old, o)
  OBVIOUS
<1>10. inv' = [inv EXCEPT ![k] = row]
  BY <1>2, <1>5, <1>6, <1>9 DEF UpdateFirstLastObserved
<1>11. /\ row = [f \in RowFields |-> row[f]] /\ row.status = old.status /\ row.version = old.version
       /\ row.first = first /\ row.last = last
  BY <1>7, <1>8, <1>9 DEF RowOk, RowFields, Widened
<1>12. first \in Nat /\ last \in Nat /\ old.first \in Nat /\ old.last \in Nat /\ o \in Nat \ {0}
  BY <1>7, <1>8 DEF RowOk
<1>13. RowOk(row)
  BY <1>7, <1>11, <1>12 DEF RowOk
<1>14. inv' = [i \in DOMAIN inv |-> inv'[i]] /\ inv'[k] = row /\ \A i \in DOMAIN inv \ {k} : inv'[i] = inv[i]
  BY <1>7, <1>10
<1>15. IsSeq(inv') /\ Len(inv') = Len(inv) /\ DOMAIN inv' = DOMAIN inv
  BY <1>1, <1>14, Mapped DEF RowsInv
<1>16. \A i \in DOMAIN inv : RowOk(inv'[i]) /\ inv'[i].status = inv[i].status /\ inv'[i].version = inv[i].version
  BY <1>1, <1>6, <1>11, <1>13, <1>14 DEF RowsInv
<1>17. RowsInv'
  BY <1>1, <1>3, <1>15, <1>16 DEF RowsInv
<1>18. \A i : At(i)' = At(i) /\ (\A e : Known(i, e)' = Known(i, e)) /\ \A x : Holds(i, x)' = Holds(i, x)
  BY <1>3 DEF At, Known, Holds
<1>19. Grows
  <2>2. \A i \in DOMAIN inv : inv[i].version \in Nat
    BY <1>1 DEF RowsInv, RowOk
  <2> QED
    BY <1>3, <1>15, <1>16, <1>18, <2>2, CountsStay DEF Grows
<1>20. PICK then : then = <<>> /\ IsSeq(then) /\ ToSet(then) = {} /\ DOMAIN then = {}
  BY Empty DEF ToSet
<1>21. Moves(p, then)
  BY <1>1, <1>3, <1>20, ContinueMoves DEF Continue
<1>22. JobsInv' /\ AloneInv' /\ SingleInv'
  BY <1>1, <1>17, <1>19, <1>20, <1>21, JobsKept, AloneKept, SingleQuiet
<1>23. \A i \in DOMAIN inv : Even(i)
  BY <1>1, <1>3, <1>4, <1>20, <1>21, EvenStep DEF Quiet
<1>24. FactInv' /\ TrailInv'
  BY <1>1, <1>3, <1>15, <1>16, <1>18, <1>23, FactsKept, TrailKept
<1>25. AcceptInv'
  BY <1>1, <1>3, <1>4, <1>18, <1>20, <1>21, AcceptKept DEF Attaches
<1>26. WindowInv'
  <2> SUFFICES ASSUME NEW i \in DOMAIN inv
               PROVE  /\ inv'[i].first \in At(i) \cup {0} /\ inv'[i].last \in At(i) \cup {0}
                      /\ i \notin lost => \A t \in At(i) :
                            \/ inv'[i].first # 0 /\ inv'[i].first <= t /\ t <= inv'[i].last
                            \/ Widening(i, t)'
    BY <1>3, <1>15, <1>18 DEF WindowInv
  <2>1. CASE i # k
    <3>1. ASSUME NEW t, Widening(i, t) PROVE Widening(i, t)'
      BY <1>4, <1>5, <1>21, <2>1, <3>1, WideningStays
    <3> QED
      BY <1>1, <1>14, <2>1, <3>1 DEF WindowInv
  <2>2. CASE i = k
    <3>1. old.first \in At(k) \cup {0} /\ old.last \in At(k) \cup {0}
      BY <1>1, <1>6, <1>7 DEF WindowInv
    <3>2. first \in At(k) /\ last \in At(k) \cup {0}
      BY <1>7, <1>8, <3>1
    <3>3. ASSUME i \notin lost, NEW t \in At(k)
          PROVE  (first # 0 /\ first <= t /\ t <= last) \/ Widening(k, t)'
      <4>1. t \in Nat /\ t # 0
        BY <1>7
      <4>2. CASE old.first # 0 /\ old.first <= t /\ t <= old.last
        <5>1. first # 0 /\ first <= old.first
          BY <1>8, <1>12, <4>2
        <5>2. old.last <= last
          BY <1>8, <1>12
        <5> QED
          BY <1>12, <4>1, <4>2, <5>1, <5>2
      <4>3. CASE Widening(k, t) /\ t # o
        BY <1>4, <1>5, <1>21, <4>3, WideningStays
      <4>4. CASE t = o
        <5>1. first # 0 /\ first <= o
          BY <1>8, <1>12
        <5>2. o <= last
          BY <1>8, <1>12
        <5> QED
          BY <4>4, <5>1, <5>2
      <4> QED
        BY <1>1, <1>6, <1>7, <2>2, <3>3, <4>2, <4>3, <4>4 DEF WindowInv
    <3> QED
      BY <1>11, <1>14, <2>2, <3>2, <3>3
  <2> QED
    BY <2>1, <2>2
<1> QED
  BY <1>17, <1>22, <1>24, <1>25, <1>26 DEF CaseInv

(* A step that leaves the rows alone but for the timelines.                *)
LEMMA TimelineRows ==
    ASSUME RowsInv, NumberInv, UNCHANGED <<inv, evidence, links, clusters, hypotheses, lost, reports>>,
           IsSeq(timeline'), Len(timeline') = Len(timeline), \A i \in DOMAIN inv : BagOk(timeline'[i])
    PROVE  RowsInv' /\ Grows
<1>1. RowsInv'
  BY DEF RowsInv
<1> QED
  BY <1>1, SameGrows

LEMMA AppendKeeps ==
    ASSUME CaseInv, NumberInv, NEW p \in Processes, AppendEvent(p), UNCHANGED reportVars
    PROVE  CaseInv'
<1>1. RowsInv /\ JobsInv /\ AloneInv /\ SingleInv /\ FactInv /\ TrailInv /\ WindowInv /\ AcceptInv
  BY DEF CaseInv
<1>2. PICK job : job = Head(todo[p])
  OBVIOUS
<1>3. /\ todo[p] # <<>> /\ job.do = "event" /\ Continue(p, <<>>)
      /\ UNCHANGED <<inv, evidence, links, clusters, hypotheses, lost, reports>>
  BY <1>2 DEF AppendEvent, Ready, Continue, reportVars
<1>4. job = todo[p][1] /\ 1 \in DOMAIN todo[p] /\ EventOk(job)
  BY <1>1, <1>2, <1>3, HeadFacts DEF JobOk
<1>5. PICK k, e : k = job.inv /\ e = job.event
  OBVIOUS
<1>6. k \in DOMAIN inv /\ (e[1] = "status_changed" => e \in StatusEvents)
  BY <1>4, <1>5 DEF EventOk
<1>7. PICK b, c : b = timeline[k] /\ c = b (+) SetToBag({e})
  OBVIOUS
<1>8. DOMAIN timeline = DOMAIN inv /\ BagOk(b)
  BY <1>1, <1>6, <1>7, SeqFacts DEF RowsInv
<1>9. PICK n : BagOk(c) /\ <<e, n>> \notin Copies(b) /\ Copies(c) = Copies(b) \cup {<<e, n>>}
  BY <1>6, <1>7, <1>8, BagMore
<1>10. timeline' = [timeline EXCEPT ![k] = c]
  BY <1>2, <1>5, <1>7 DEF AppendEvent
<1>11. /\ timeline' = [i \in DOMAIN timeline |-> timeline'[i]] /\ timeline'[k] = c
       /\ \A i \in DOMAIN inv \ {k} : timeline'[i] = timeline[i]
  BY <1>6, <1>8, <1>10
<1>12. RowsInv' /\ Grows
  <2>1. IsSeq(timeline') /\ Len(timeline') = Len(timeline)
    BY <1>1, <1>11, Mapped DEF RowsInv
  <2>2. \A i \in DOMAIN inv : BagOk(timeline'[i])
    BY <1>1, <1>9, <1>11 DEF RowsInv
  <2> QED
    BY <1>1, <1>3, <2>1, <2>2, TimelineRows
<1>13. PICK then : then = <<>> /\ IsSeq(then) /\ ToSet(then) = {} /\ DOMAIN then = {}
  BY Empty DEF ToSet
<1>14. Moves(p, then)
  BY <1>1, <1>3, <1>13, ContinueMoves DEF Continue
<1>15. JobsInv' /\ AloneInv' /\ SingleInv'
  BY <1>1, <1>12, <1>13, <1>14, JobsKept, AloneKept, SingleQuiet
<1>16. \A i \in DOMAIN inv \ {k} : Even(i)
  BY <1>1, <1>4, <1>5, <1>11, <1>13, <1>14, EvenStep DEF Quiet
<1>17. Even(k)
  <2> SUFFICES ASSUME NEW E, Counted(E) PROVE Total(k, E)' = Total(k, E)
    BY DEF Even, Counted
  <2>1. /\ IsFiniteSet(Recorded(k, E)) /\ Cardinality(Recorded(k, E)) \in Nat
        /\ IsFiniteSet(Owing(k, E)) /\ Cardinality(Owing(k, E)) \in Nat
    BY <1>1, <1>6, CountFinite
  <2>2. Recorded(k, E) = {x \in Copies(b) : x[1] \in E} /\ Recorded(k, E)' = {x \in Copies(c) : x[1] \in E}
    BY <1>7, <1>11 DEF Recorded
  <2>3. CASE e \in E
    <3>1. Owed(todo[p][1], k, E)
      BY <1>3, <1>4, <1>5, <2>3 DEF Owed
    <3>2. p \in Owing(k, E) /\ Owing(k, E)' = Owing(k, E) \ {p}
      BY <1>1, <1>4, <1>13, <1>14, <3>1, OwingLess
    <3>3. Cardinality(Owing(k, E)') = Cardinality(Owing(k, E)) - 1
      BY <2>1, <3>2, FS_RemoveElement
    <3>4. Recorded(k, E)' = Recorded(k, E) \cup {<<e, n>>} /\ <<e, n>> \notin Recorded(k, E)
      BY <1>9, <2>2, <2>3
    <3>5. Cardinality(Recorded(k, E)') = Cardinality(Recorded(k, E)) + 1
      BY <2>1, <3>4, FS_AddElement
    <3> QED
      BY <2>1, <3>3, <3>5 DEF Total
  <2>4. CASE e \notin E
    <3>1. ~Owed(todo[p][1], k, E)
      BY <1>4, <1>5, <2>4 DEF Owed
    <3>2. Owing(k, E)' = Owing(k, E)
      BY <1>1, <1>13, <1>14, <3>1, OwingSame
    <3>3. Recorded(k, E)' = Recorded(k, E)
      BY <1>9, <2>2, <2>4
    <3> QED
      BY <3>2, <3>3 DEF Total
  <2> QED
    BY <2>3, <2>4
<1>18. \A i \in DOMAIN inv : Even(i)
  BY <1>16, <1>17
<1>19. \A i : At(i)' = At(i) /\ (\A f : Known(i, f)' = Known(i, f)) /\ \A x : Holds(i, x)' = Holds(i, x)
  BY <1>3 DEF At, Known, Holds
<1>20. FactInv' /\ TrailInv'
  BY <1>1, <1>3, <1>18, <1>19, FactsKept, TrailKept
<1>21. AcceptInv'
  BY <1>1, <1>3, <1>4, <1>13, <1>14, <1>19, AcceptKept DEF Attaches
<1>22. WindowInv'
  <2>1. ASSUME NEW i, NEW t, Widening(i, t) PROVE Widening(i, t)'
    BY <1>3, <1>4, <1>14, <2>1, WideningStays
  <2> QED
    BY <1>1, <1>3, <1>19, <2>1, WindowKept
<1> QED
  BY <1>12, <1>15, <1>20, <1>21, <1>22 DEF CaseInv

-----------------------------------------------------------------------------
(* Events that stand for a fact are owed for the first time when the fact  *)
(* becomes known.                                                          *)

Ev(i, e) == [do |-> "event", inv |-> i, event |-> e]
Once(s, x) == \A m, n \in DOMAIN s : s[m] = x /\ s[n] = x => m = n

(* A statement that adds to no count of changes of status.                 *)
Sober(j, i) == j.do = "event" /\ j.inv = i => j.event[1] \notin {"status_changed", "investigation_reopened"}
Level(i) == \A E : Counted(E) /\ (\A e \in E : e[1] \notin FactTypes) => Total(i, E)' = Total(i, E)

LEMMA LevelStep ==
    ASSUME JobsInv, NEW p \in Processes, NEW then, Moves(p, then), NEW i, timeline'[i] = timeline[i],
           1 \in DOMAIN todo[p] => Sober(todo[p][1], i), \A j \in ToSet(then) : Sober(j, i)
    PROVE  Level(i)
<1> SUFFICES ASSUME NEW E, Counted(E), \A e \in E : e[1] \notin FactTypes PROVE Total(i, E)' = Total(i, E)
  BY DEF Level, Counted
<1>1. \A e \in E : e[1] \in {"status_changed", "investigation_reopened"}
  BY CountedTypes
<1>2. \A j : Sober(j, i) => ~Owed(j, i, E)
  BY <1>1 DEF Sober, Owed
<1>3. Owing(i, E)' = Owing(i, E)
  BY <1>2, OwingSame
<1>4. Recorded(i, E)' = Recorded(i, E)
  BY DEF Recorded
<1> QED
  BY <1>3, <1>4 DEF Total

LEMMA TrailLevel ==
    ASSUME TrailInv, lost \subseteq lost', DOMAIN inv' = DOMAIN inv,
           \A i \in DOMAIN inv : Level(i) /\ inv'[i].status = inv[i].status
    PROVE  TrailInv'
<1> SUFFICES ASSUME NEW i \in DOMAIN inv, i \notin lost'
             PROVE  /\ \A s \in Statuses : Total(i, Entering(s))' + One(s = "new")
                                           = Total(i, Leaving(s))' + One(inv'[i].status = s)
                    /\ Total(i, Reopening(i))' = Total(i, ClosedToOpen)'
  BY DEF TrailInv
<1>1. \A s \in Statuses : (\A e \in Entering(s) : e[1] \notin FactTypes) /\ (\A e \in Leaving(s) : e[1] \notin FactTypes)
  BY DEF Entering, Leaving, FactTypes
<1>2. (\A e \in Reopening(i) : e[1] \notin FactTypes) /\ (\A e \in ClosedToOpen : e[1] \notin FactTypes)
  BY DEF Reopening, ClosedToOpen, FactTypes
<1>3. ASSUME NEW s \in Statuses
      PROVE  Total(i, Entering(s))' = Total(i, Entering(s)) /\ Total(i, Leaving(s))' = Total(i, Leaving(s))
  BY <1>1, CountedSets DEF Level
<1>4. Total(i, Reopening(i))' = Total(i, Reopening(i)) /\ Total(i, ClosedToOpen)' = Total(i, ClosedToOpen)
  BY <1>2, CountedSets DEF Level
<1>5. i \notin lost /\ inv'[i].status = inv[i].status
  OBVIOUS
<1> QED
  BY <1>3, <1>4, <1>5 DEF TrailInv

LEMMA OwedFact ==
    ASSUME NEW j, NEW i, NEW E, Counted(E), Owed(j, i, E), Fact(j.event)
    PROVE  E = {j.event}
<1>1. j.event \in E /\ j.event[1] \in FactTypes /\ j.event[1] # "status_changed"
  BY DEF Owed, Fact, FactTypes
<1>2. ~(E \subseteq StatusEvents)
  BY <1>1 DEF StatusEvents
<1> QED
  BY <1>1, <1>2 DEF Counted

LEMMA SingleNew ==
    ASSUME JobsInv, SingleInv, NEW p \in Processes, NEW then, Moves(p, then),
           \A j \in ToSet(then) : j.do = "event" /\ ~Plain(j.event[1]) =>
              j = Ev(j.inv, j.event) /\ Fact(j.event) /\ ~Known(j.inv, j.event) /\ Once(then, j)
    PROVE  SingleInv'
<1> SUFFICES ASSUME NEW i, NEW E, Counted(E)
             PROVE  /\ \A m, n \in DOMAIN then : Owed(then[m], i, E) /\ Owed(then[n], i, E) => m = n
                    /\ \A m \in DOMAIN then : \A n \in DOMAIN todo[p] \ {1} :
                          ~(Owed(then[m], i, E) /\ Owed(todo[p][n], i, E))
  BY SingleKept
<1>1. ASSUME NEW m \in DOMAIN then, Owed(then[m], i, E)
      PROVE  \E e : then[m] = Ev(i, e) /\ E = {e} /\ Fact(e) /\ ~Known(i, e) /\ Once(then, Ev(i, e))
  <2>1. PICK j : j = then[m]
    OBVIOUS
  <2>2. j \in ToSet(then) /\ j.do = "event" /\ j.inv = i /\ j.event \in E
    BY <1>1, <2>1 DEF ToSet, Owed
  <2>3. ~Plain(j.event[1])
    BY <2>2, CountedTypes DEF Plain
  <2>4. j = Ev(j.inv, j.event) /\ Fact(j.event) /\ ~Known(j.inv, j.event) /\ Once(then, j)
    BY <2>2, <2>3
  <2>5. E = {j.event}
    BY <1>1, <2>1, <2>4, OwedFact
  <2> QED
    BY <2>1, <2>2, <2>4, <2>5
<1>2. ASSUME NEW m \in DOMAIN then, NEW n \in DOMAIN then, Owed(then[m], i, E), Owed(then[n], i, E)
      PROVE  m = n
  <2>1. PICK e : then[m] = Ev(i, e) /\ E = {e} /\ Once(then, Ev(i, e))
    BY <1>1, <1>2
  <2>2. PICK f : then[n] = Ev(i, f) /\ E = {f}
    BY <1>1, <1>2
  <2>3. e = f
    BY <2>1, <2>2
  <2>4. PICK x : x = Ev(i, e)
    OBVIOUS
  <2> QED
    BY <2>1, <2>2, <2>3, <2>4 DEF Once
<1>3. ASSUME NEW m \in DOMAIN then, NEW n \in DOMAIN todo[p], Owed(then[m], i, E), Owed(todo[p][n], i, E)
      PROVE  FALSE
  <2>1. PICK e : E = {e} /\ Fact(e) /\ ~Known(i, e)
    BY <1>1, <1>3
  <2>2. PICK j : j = todo[p][n]
    OBVIOUS
  <2>3. j.do = "event" /\ j.inv = i /\ j.event = e /\ JobOk(j)
    BY <1>3, <2>1, <2>2 DEF Owed, JobsInv, ToSet
  <2>4. Known(i, e)
    BY <2>1, <2>3 DEF JobOk, EventOk, Fact
  <2> QED
    BY <2>1, <2>4
<1> QED
  BY <1>2, <1>3

LEMMA FactNew ==
    ASSUME RowsInv, JobsInv, FactInv, NEW p \in Processes, NEW then, Moves(p, then), NEW i \in DOMAIN inv,
           NEW e, Fact(e), ~Known(i, e), timeline'[i] = timeline[i],
           1 \in DOMAIN todo[p] => ~Owed(todo[p][1], i, {e}), \E j \in ToSet(then) : Owed(j, i, {e})
    PROVE  Total(i, {e})' = 1
<1>1. Total(i, {e}) <= 1 /\ Total(i, {e}) # 1
  BY DEF FactInv
<1>2. /\ IsFiniteSet(Recorded(i, {e})) /\ Cardinality(Recorded(i, {e})) \in Nat
      /\ IsFiniteSet(Owing(i, {e})) /\ Cardinality(Owing(i, {e})) \in Nat
  BY CountFinite
<1>3. Cardinality(Recorded(i, {e})) = 0 /\ Cardinality(Owing(i, {e})) = 0
  BY <1>1, <1>2 DEF Total
<1>4. Owing(i, {e}) = {}
  BY <1>2, <1>3, FS_EmptySet
<1>5. Owing(i, {e})' = {p}
  <2>1. Owing(i, {e})' = Owing(i, {e}) \cup {p}
    BY OwingMore
  <2> QED
    BY <1>4, <2>1
<1>6. Recorded(i, {e})' = Recorded(i, {e})
  BY DEF Recorded
<1>7. Cardinality({p}) = 1
  BY FS_Singleton
<1> QED
  BY <1>3, <1>5, <1>6, <1>7 DEF Total

(* One event is one statement.                                             *)
LEMMA RecordsOne ==
    ASSUME NEW i, NEW type \in EventTypes, NEW subject
    PROVE  LET s == RecordEvent(i, type, subject)
           IN IsSeq(s) /\ ToSet(s) = {Ev(i, <<type, subject>>)} /\ DOMAIN s = 1..1
<1>1. PICK x : x = Ev(i, <<type, subject>>)
  OBVIOUS
<1>2. RecordEvent(i, type, subject) = <<x>>
  BY <1>1 DEF RecordEvent, ValidEvent, Ev
<1>3. IsSeq(<<x>>) /\ DOMAIN <<x>> = 1..1 /\ <<x>>[1] = x
  BY Single, SeqFacts
<1>4. ToSet(<<x>>) = {x}
  BY <1>3 DEF ToSet
<1> QED
  BY <1>1, <1>2, <1>3, <1>4

LEMMA UpsertKeeps ==
    ASSUME CaseInv, NumberInv, NEW p \in Processes, UpsertRelationship(p), UNCHANGED reportVars
    PROVE  CaseInv'
<1>1. RowsInv /\ JobsInv /\ AloneInv /\ SingleInv /\ FactInv /\ TrailInv /\ WindowInv /\ AcceptInv
  BY DEF CaseInv
<1>2. PICK job : job = Head(todo[p])
  OBVIOUS
<1>3. PICK k, key : k = job.inv /\ key = job.key
  OBVIOUS
<1>4. PICK then : then = IF key \notin DOMAIN links[k] /\ job.link.status = "confirmed"
                         THEN RecordEvent(k, "relationship_created", key) ELSE <<>>
  OBVIOUS
<1>5. /\ todo[p] # <<>> /\ job.do = "relate" /\ Continue(p, then)
      /\ UNCHANGED <<inv, evidence, timeline, clusters, hypotheses, lost, reports>>
  BY <1>2, <1>3, <1>4 DEF UpsertRelationship, Ready, Continue, reportVars
<1>6. job = todo[p][1] /\ 1 \in DOMAIN todo[p] /\ k \in DOMAIN inv
  BY <1>1, <1>2, <1>3, <1>5, HeadFacts DEF JobOk
<1>7. PICK old, new : /\ old = links[k]
                      /\ new = [x \in DOMAIN old \cup {key} |-> IF x = key THEN job.link ELSE old[x]]
  OBVIOUS
<1>8. links' = [links EXCEPT ![k] = new]
  BY <1>2, <1>3, <1>7 DEF UpsertRelationship
<1>9. DOMAIN links = DOMAIN inv /\ DOMAIN new = DOMAIN old \cup {key}
  BY <1>1, <1>7, SeqFacts DEF RowsInv
<1>10. /\ links' = [i \in DOMAIN links |-> links'[i]] /\ links'[k] = new
       /\ \A i \in DOMAIN inv \ {k} : links'[i] = links[i]
  BY <1>6, <1>8, <1>9
<1>11. RowsInv'
  <2>1. IsSeq(links') /\ Len(links') = Len(links)
    BY <1>1, <1>10, Mapped DEF RowsInv
  <2> QED
    BY <1>1, <1>5, <2>1 DEF RowsInv
<1>12. \A i : At(i)' = At(i) /\ \A x : Holds(i, x)' = Holds(i, x)
  BY <1>5 DEF At, Holds
<1>13. PICK e : e = <<"relationship_created", key>>
  OBVIOUS
<1>13a. e[1] = "relationship_created" /\ e[2] = key /\ Fact(e)
  BY <1>13 DEF Fact, FactTypes
<1>14. ASSUME NEW i \in DOMAIN inv, NEW f, i # k \/ f[1] # "relationship_created" PROVE Known(i, f)' <=> Known(i, f)
  <2>1. CASE i # k
    <3>1. links'[i] = links[i] /\ evidence'[i] = evidence[i]
      BY <1>5, <1>10, <2>1
    <3> QED
      BY <3>1 DEF Known
  <2>2. CASE f[1] # "relationship_created"
    BY <1>5, <2>2 DEF Known
  <2> QED
    BY <1>14, <2>1, <2>2
<1>15. \A f : f[1] = "relationship_created" => /\ Known(k, f) <=> f[2] \in DOMAIN old
                                              /\ Known(k, f)' <=> f[2] \in DOMAIN old \cup {key}
  BY <1>7, <1>9, <1>10 DEF Known
<1>16. ASSUME NEW i \in DOMAIN inv, NEW f, Known(i, f) PROVE Known(i, f)'
  <2>1. CASE i # k \/ f[1] # "relationship_created"
    BY <1>14, <1>16, <2>1
  <2>2. CASE i = k /\ f[1] = "relationship_created"
    <3>1. f[2] \in DOMAIN links[k]
      BY <1>16, <2>2 DEF Known
    <3>2. f[2] \in DOMAIN (links'[k])
      BY <1>7, <1>9, <1>10, <3>1
    <3> QED
      BY <2>2, <3>2 DEF Known
  <2> QED
    BY <2>1, <2>2
<1>17. Grows
  <2>1. \A i \in DOMAIN inv : inv[i].version \in Nat
    BY <1>1 DEF RowsInv, RowOk
  <2> QED
    BY <1>5, <1>12, <1>16, <2>1, CountsStay DEF Grows
<1>18. \/ then = <<>> /\ (key \in DOMAIN old \/ job.link.status # "confirmed")
       \/ then = RecordEvent(k, "relationship_created", key) /\ key \notin DOMAIN old
  BY <1>4, <1>7
<1>19. IsSeq(then) /\ DOMAIN then \subseteq 1..1 /\ ToSet(then) \subseteq {Ev(k, e)}
       /\ (ToSet(then) # {} => key \notin DOMAIN old)
  <2>1. "relationship_created" \in EventTypes
    BY DEF EventTypes
  <2>2. IsSeq(<<>>) /\ DOMAIN <<>> = {} /\ ToSet(<<>>) = {}
    BY Empty DEF ToSet
  <2>3. LET s == RecordEvent(k, "relationship_created", key)
        IN IsSeq(s) /\ ToSet(s) = {Ev(k, <<"relationship_created", key>>)} /\ DOMAIN s = 1..1
    BY <2>1, RecordsOne
  <2> QED
    BY <1>13, <1>13a, <1>18, <2>2, <2>3
<1>20. Moves(p, then)
  BY <1>1, <1>5, <1>19, ContinueMoves DEF Continue
<1>21. PICK x : x = Ev(k, e)
  OBVIOUS
<1>21a. /\ x.do = "event" /\ x.inv = k /\ x.event = e /\ "otherwise" \notin DOMAIN x
        /\ "inv" \in DOMAIN x
  BY <1>21 DEF Ev
<1>22. JobsInv' /\ AloneInv'
  <2>1. Known(k, e)'
    BY <1>13, <1>13a, <1>15
  <2>2. k \in DOMAIN inv'
    BY <1>5, <1>6
  <2>3. JobOk(x)'
    BY <1>13, <1>13a, <1>21, <1>21a, <2>1, <2>2 DEF JobOk, EventOk
  <2>4. \A j \in ToSet(then) : JobOk(j)' /\ j.do = "event"
    BY <1>19, <1>21, <1>21a, <2>3
  <2> QED
    BY <1>1, <1>11, <1>17, <1>20, <2>4, JobsKept, AloneKept
<1>23. ToSet(then) # {} => ~Known(k, e)
  BY <1>13, <1>13a, <1>15, <1>19
<1>24. SingleInv'
  <2>1. \A s : DOMAIN s \subseteq 1..1 => \A y : Once(s, y)
    BY DEF Once
  <2>2. \A j \in ToSet(then) : j = x /\ Fact(j.event) /\ ~Known(j.inv, j.event) /\ Once(then, j)
    BY <1>13, <1>13a, <1>19, <1>21, <1>21a, <1>23, <2>1
  <2> QED
    BY <1>1, <1>20, <1>21, <1>21a, <2>2, SingleNew
<1>25. FactInv'
  <2> SUFFICES ASSUME NEW i \in DOMAIN inv, NEW f, Fact(f)
               PROVE  /\ Total(i, {f})' <= 1
                      /\ Total(i, {f})' = 1 => Known(i, f)'
                      /\ i \notin lost /\ f[1] \in {"finding_attached", "evidence_attached"} /\ Known(i, f)'
                           => Total(i, {f})' = 1
    BY <1>5 DEF FactInv
  <2>1. CASE i = k /\ f = e /\ ToSet(then) # {}
    <3>1. x \in ToSet(then) /\ Owed(x, k, {e})
      BY <1>19, <1>21, <1>21a, <2>1 DEF Owed
    <3>2. Total(k, {e})' = 1
      BY <1>1, <1>5, <1>6, <1>13, <1>13a, <1>20, <1>23, <2>1, <3>1, FactNew DEF Owed
    <3> QED
      BY <1>13, <1>13a, <1>15, <2>1, <3>2
  <2>2. CASE ~(i = k /\ f = e /\ ToSet(then) # {})
    <3>1. \A j \in ToSet(then) : ~Owed(j, i, {f})
      BY <1>19, <1>21, <1>21a, <2>2 DEF Owed
    <3>2. Owing(i, {f})' = Owing(i, {f})
      BY <1>1, <1>5, <1>6, <1>20, <3>1, OwingSame DEF Owed
    <3>3. Total(i, {f})' = Total(i, {f})
      BY <1>5, <3>2 DEF Total, Recorded
    <3>4. f[1] \in {"finding_attached", "evidence_attached"} => Known(i, f)' <=> Known(i, f)
      BY <1>14
    <3> QED
      BY <1>1, <1>16, <3>3, <3>4 DEF FactInv
  <2> QED
    BY <2>1, <2>2
<1>26. TrailInv'
  <2>1. ASSUME NEW i \in DOMAIN inv PROVE Level(i)
    <3>1. \A j \in ToSet(then) : Sober(j, i)
      BY <1>13, <1>13a, <1>19, <1>21, <1>21a DEF Sober
    <3> QED
      BY <1>1, <1>5, <1>6, <1>20, <3>1, LevelStep DEF Sober
  <2> QED
    BY <1>1, <1>5, <2>1, TrailLevel
<1>27. WindowInv'
  <2>1. ASSUME NEW i, NEW t, Widening(i, t) PROVE Widening(i, t)'
    BY <1>5, <1>6, <1>20, <2>1, WideningStays
  <2> QED
    BY <1>1, <1>5, <1>12, <2>1, WindowKept
<1>28. AcceptInv'
  <2>1. ASSUME NEW n \in DOMAIN then, NEW j \in {then[n]} PROVE AcceptOk(then, j, n)'
    <3>1. j = x
      BY <1>19, <1>21, <1>21a DEF ToSet
    <3> QED
      BY <1>21, <1>21a, <3>1 DEF AcceptOk
  <2> QED
    BY <1>1, <1>5, <1>6, <1>12, <1>20, <2>1, AcceptKept DEF Attaches
<1> QED
  BY <1>11, <1>22, <1>24, <1>25, <1>26, <1>27, <1>28 DEF CaseInv

LEMMA JoinedSet ==
    ASSUME NEW s, NEW t, IsSeq(s), IsSeq(t)
    PROVE  IsSeq(s \o t) /\ ToSet(s \o t) = ToSet(s) \cup ToSet(t)
<1>1. /\ IsSeq(s \o t) /\ Len(s \o t) = Len(s) + Len(t)
      /\ \A n \in 1..Len(s) : (s \o t)[n] = s[n]
      /\ \A n \in 1..Len(t) : (s \o t)[Len(s) + n] = t[n]
  BY Joined
<1>2. /\ Len(s) \in Nat /\ Len(t) \in Nat /\ DOMAIN s = 1..Len(s) /\ DOMAIN t = 1..Len(t)
      /\ DOMAIN (s \o t) = 1..(Len(s) + Len(t))
  BY <1>1, SeqFacts
<1>3. ASSUME NEW n \in DOMAIN (s \o t) PROVE (s \o t)[n] \in ToSet(s) \cup ToSet(t)
  <2>1. CASE n <= Len(s)
    BY <1>1, <1>2, <2>1 DEF ToSet
  <2>2. CASE n > Len(s)
    <3>1. n - Len(s) \in DOMAIN t /\ Len(s) + (n - Len(s)) = n
      BY <1>2, <2>2
    <3>2. (s \o t)[n] = t[n - Len(s)]
      BY <1>1, <1>2, <3>1
    <3> QED
      BY <3>1, <3>2 DEF ToSet
  <2> QED
    BY <1>2, <2>1, <2>2
<1>4. ASSUME NEW n \in DOMAIN s PROVE s[n] \in ToSet(s \o t)
  <2>1. n \in DOMAIN (s \o t)
    BY <1>2
  <2> QED
    BY <1>1, <1>2, <2>1 DEF ToSet
<1>5. ASSUME NEW n \in DOMAIN t PROVE t[n] \in ToSet(s \o t)
  <2>1. Len(s) + n \in DOMAIN (s \o t)
    BY <1>2
  <2> QED
    BY <1>1, <1>2, <2>1 DEF ToSet
<1> QED
  BY <1>1, <1>3, <1>4, <1>5 DEF ToSet

LEMMA OnceJoined ==
    ASSUME NEW s, NEW t, IsSeq(s), IsSeq(t), NEW x,
           (Once(s, x) /\ x \notin ToSet(t)) \/ (Once(t, x) /\ x \notin ToSet(s))
    PROVE  Once(s \o t, x)
<1>1. /\ IsSeq(s \o t) /\ Len(s \o t) = Len(s) + Len(t)
      /\ \A n \in 1..Len(s) : (s \o t)[n] = s[n]
      /\ \A n \in 1..Len(t) : (s \o t)[Len(s) + n] = t[n]
  BY Joined
<1>2. /\ Len(s) \in Nat /\ Len(t) \in Nat /\ DOMAIN s = 1..Len(s) /\ DOMAIN t = 1..Len(t)
      /\ DOMAIN (s \o t) = 1..(Len(s) + Len(t))
  BY <1>1, SeqFacts
<1>3. ASSUME NEW n \in DOMAIN (s \o t), (s \o t)[n] = x
      PROVE  \/ n \in DOMAIN s /\ s[n] = x
             \/ n - Len(s) \in DOMAIN t /\ t[n - Len(s)] = x
  <2>1. CASE n <= Len(s)
    BY <1>1, <1>2, <1>3, <2>1
  <2>2. CASE n > Len(s)
    <3>1. n - Len(s) \in DOMAIN t /\ Len(s) + (n - Len(s)) = n
      BY <1>2, <2>2
    <3>2. (s \o t)[n] = t[n - Len(s)]
      BY <1>1, <1>2, <3>1
    <3> QED
      BY <1>3, <3>1, <3>2
  <2> QED
    BY <1>2, <2>1, <2>2
<1> SUFFICES ASSUME NEW m \in DOMAIN (s \o t), NEW n \in DOMAIN (s \o t), (s \o t)[m] = x, (s \o t)[n] = x
             PROVE  m = n
  BY DEF Once
<1>4. CASE Once(s, x) /\ x \notin ToSet(t)
  BY <1>3, <1>4 DEF Once, ToSet
<1>5. CASE Once(t, x) /\ x \notin ToSet(s)
  <2>1. m - Len(s) \in DOMAIN t /\ t[m - Len(s)] = x /\ n - Len(s) \in DOMAIN t /\ t[n - Len(s)] = x
    BY <1>3, <1>5 DEF ToSet
  <2>2. m - Len(s) = n - Len(s)
    BY <1>5, <2>1 DEF Once
  <2> QED
    BY <1>2, <2>2
<1> QED
  BY <1>4, <1>5

-----------------------------------------------------------------------------
(* What follows an attachment that is new: the window is widened to all it *)
(* observes, and its facts are recorded once each.                         *)

Wd(i, o) == [do |-> "widen", inv |-> i, observed |-> o]
FactsOf(ref) ==
    IF ref.type = "finding" THEN {<<"finding_attached", ref.id>>, <<"finding_created", ref.id>>}
    ELSE {<<"evidence_attached", ref.id>>}
History(i, id) == {Ev(i, <<"finding_resolved", id>>), Ev(i, <<"finding_reopened", id>>)}
Widenings(i, ref) == {Wd(i, o) : o \in ObservedBy(ref)}
Announced(i, ref) == {Ev(i, e) : e \in FactsOf(ref)}

LEMMA Widens ==
    ASSUME NEW i, NEW o
    PROVE  LET s == WidenObservedWindow(i, o)
           IN IsSeq(s) /\ ToSet(s) = {Wd(i, x) : x \in {o} \ {0}}
<1>1. PICK x : x = Wd(i, o)
  OBVIOUS
<1>2. IsSeq(<<x>>) /\ DOMAIN <<x>> = 1..1 /\ <<x>>[1] = x
  BY Single, SeqFacts
<1>3. ToSet(<<x>>) = {x}
  BY <1>2 DEF ToSet
<1>4. IsSeq(<<>>) /\ ToSet(<<>>) = {}
  BY Empty DEF ToSet
<1>5. WidenObservedWindow(i, o) = IF o = 0 THEN <<>> ELSE <<x>>
  BY <1>1 DEF WidenObservedWindow, Wd
<1> QED
  BY <1>1, <1>2, <1>3, <1>4, <1>5

LEMMA HistorySeq ==
    ASSUME NEW i, NEW id \in IdsOf(FindingTable), NEW f, f = ById(FindingTable, id)
    PROVE  \E s, t : /\ MaterializeFindingHistory(i, f) = s \o t
                     /\ s = RecordEvent(i, "finding_created", id) /\ IsSeq(t) /\ ToSet(t) \subseteq History(i, id)
<1>1. f.id = id /\ f.history \in Seq(STRING)
  BY FindingRow
<1> DEFINE ss == [n \in DOMAIN f.history |->
                    CASE f.history[n] = "resolved" -> RecordEvent(i, "finding_resolved", f.id)
                      [] f.history[n] = "reopened" -> RecordEvent(i, "finding_reopened", f.id)
                      [] OTHER -> <<>>]
<1>2. MaterializeFindingHistory(i, f) = RecordEvent(i, "finding_created", f.id) \o FlattenSeq(ss)
  BY DEF MaterializeFindingHistory
<1>3. IsSeq(f.history)
  BY <1>1, OfSeq
<1>4. "finding_resolved" \in EventTypes /\ "finding_reopened" \in EventTypes
  BY DEF EventTypes
<1>5. ASSUME NEW s, IsSeq(s), ToSet(s) \subseteq History(i, id)
      PROVE  s \in Seq(History(i, id))
  <2>1. \A n \in DOMAIN s : s[n] \in History(i, id)
    BY <1>5 DEF ToSet
  <2> QED
    BY <1>5, <2>1, SeqIn
<1>6. /\ RecordEvent(i, "finding_resolved", f.id) \in Seq(History(i, id))
      /\ RecordEvent(i, "finding_reopened", f.id) \in Seq(History(i, id))
  <2>1. PICK s, t : s = RecordEvent(i, "finding_resolved", f.id) /\ t = RecordEvent(i, "finding_reopened", f.id)
    OBVIOUS
  <2>2. IsSeq(s) /\ ToSet(s) = {Ev(i, <<"finding_resolved", f.id>>)}
    BY <1>4, <2>1, RecordsOne
  <2>3. IsSeq(t) /\ ToSet(t) = {Ev(i, <<"finding_reopened", f.id>>)}
    BY <1>4, <2>1, RecordsOne
  <2>4. ToSet(s) \subseteq History(i, id) /\ ToSet(t) \subseteq History(i, id)
    BY <1>1, <2>2, <2>3 DEF History
  <2> QED
    BY <1>5, <2>1, <2>2, <2>3, <2>4
<1>7. <<>> \in Seq(History(i, id))
  BY Empty
<1>8. \A n \in DOMAIN f.history : ss[n] \in Seq(History(i, id))
  BY <1>6, <1>7
<1>9. ss = [n \in DOMAIN f.history |-> ss[n]]
  OBVIOUS
<1>10. FlattenSeq(ss) \in Seq(History(i, id))
  <2> HIDE DEF ss
  <2> QED
    BY <1>3, <1>8, <1>9, FlattenedIn
<1>11. PICK t : t = FlattenSeq(ss)
  OBVIOUS
<1>12. IsSeq(t) /\ ToSet(t) \subseteq History(i, id)
  BY <1>10, <1>11, OfSeq DEF ToSet
<1> HIDE DEF ss
<1> QED
  BY <1>1, <1>2, <1>11, <1>12

Announces(s, i, ref) ==
    /\ IsSeq(s)
    /\ Widenings(i, ref) \subseteq ToSet(s) /\ Announced(i, ref) \subseteq ToSet(s)
    /\ ToSet(s) \subseteq Widenings(i, ref) \cup Announced(i, ref) \cup History(i, ref.id)
    /\ \A x \in Announced(i, ref) : Once(s, x)

LEMMA OnceSingle ==
    ASSUME NEW s, DOMAIN s = 1..1, NEW x
    PROVE  Once(s, x)
BY DEF Once

LEMMA AfterAttachOk ==
    ASSUME NEW i, NEW ref, RefOk(ref)
    PROVE  Announces(AfterAttach(i, ref), i, ref)
<1>1. "finding_attached" \in EventTypes /\ "finding_created" \in EventTypes /\ "evidence_attached" \in EventTypes
  BY DEF EventTypes
<1>2. CASE ref.type = "finding"
  <2>1. PICK f : f = ById(FindingTable, ref.id)
    OBVIOUS
  <2>2. ref.id \in IdsOf(FindingTable) /\ ref.observed = f.first /\ f.id = ref.id
    BY <1>2, <2>1, FindingRow DEF RefOk
  <2>3. PICK s, t : /\ MaterializeFindingHistory(i, f) = s \o t
                    /\ s = RecordEvent(i, "finding_created", ref.id)
                    /\ IsSeq(t) /\ ToSet(t) \subseteq History(i, ref.id)
    BY <2>1, <2>2, HistorySeq
  <2>4. PICK a, b, c : /\ a = WidenObservedWindow(i, f.first) /\ b = WidenObservedWindow(i, f.last)
                       /\ c = RecordEvent(i, "finding_attached", ref.id)
    OBVIOUS
  <2>5. AfterAttach(i, ref) = ((a \o b) \o c) \o (s \o t)
    BY <1>2, <2>1, <2>2, <2>3, <2>4 DEF AfterAttach
  <2>6. PICK x, y : x = Ev(i, <<"finding_attached", ref.id>>) /\ y = Ev(i, <<"finding_created", ref.id>>)
    OBVIOUS
  <2>7. IsSeq(a) /\ ToSet(a) = {Wd(i, o) : o \in {f.first} \ {0}}
    BY <2>4, Widens
  <2>8. IsSeq(b) /\ ToSet(b) = {Wd(i, o) : o \in {f.last} \ {0}}
    BY <2>4, Widens
  <2>9. IsSeq(c) /\ ToSet(c) = {x} /\ DOMAIN c = 1..1
    BY <1>1, <2>4, <2>6, RecordsOne
  <2>10. IsSeq(s) /\ ToSet(s) = {y} /\ DOMAIN s = 1..1
    BY <1>1, <2>3, <2>6, RecordsOne
  <2>11. PICK ab, abc, st : ab = a \o b /\ abc = ab \o c /\ st = s \o t
    OBVIOUS
  <2>12. IsSeq(ab) /\ ToSet(ab) = ToSet(a) \cup ToSet(b)
    BY <2>7, <2>8, <2>11, JoinedSet
  <2>13. IsSeq(abc) /\ ToSet(abc) = ToSet(ab) \cup {x}
    BY <2>9, <2>11, <2>12, JoinedSet
  <2>14. IsSeq(st) /\ ToSet(st) = {y} \cup ToSet(t)
    BY <2>3, <2>10, <2>11, JoinedSet
  <2>15. PICK all : all = abc \o st
    OBVIOUS
  <2>16. IsSeq(all) /\ ToSet(all) = ToSet(ab) \cup {x} \cup {y} \cup ToSet(t)
    BY <2>13, <2>14, <2>15, JoinedSet
  <2>17. ToSet(ab) = Widenings(i, ref)
    <3>1. ObservedBy(ref) = ({f.first} \ {0}) \cup ({f.last} \ {0})
      BY <1>2, <2>1, <2>2 DEF ObservedBy
    <3>2. PICK A, B : A = {f.first} \ {0} /\ B = {f.last} \ {0}
      OBVIOUS
    <3> QED
      BY <2>7, <2>8, <2>12, <3>1, <3>2 DEF Widenings
  <2>18. Announced(i, ref) = {x, y}
    BY <1>2, <2>6 DEF Announced, FactsOf
  <2>19. x.do = "event" /\ y.do = "event" /\ x # y /\ x \notin History(i, ref.id) /\ y \notin History(i, ref.id)
    <3>1. x.event[1] = "finding_attached" /\ y.event[1] = "finding_created" /\ x.do = "event" /\ y.do = "event"
      BY <2>6 DEF Ev
    <3>2. \A z \in History(i, ref.id) : z.event[1] \in {"finding_resolved", "finding_reopened"}
      BY DEF History, Ev
    <3> QED
      BY <3>1, <3>2
  <2>20. \A z \in Widenings(i, ref) : z.do = "widen"
    BY DEF Widenings, Wd
  <2>21. Once(all, x)
    <3>1. Once(c, x) /\ x \notin ToSet(ab)
      BY <2>9, <2>17, <2>19, <2>20, OnceSingle
    <3>2. Once(abc, x)
      BY <2>9, <2>11, <2>12, <3>1, OnceJoined
    <3>3. x \notin ToSet(st)
      BY <2>3, <2>14, <2>19
    <3> QED
      BY <2>13, <2>14, <2>15, <3>2, <3>3, OnceJoined
  <2>22. Once(all, y)
    <3>1. Once(s, y) /\ y \notin ToSet(t)
      BY <2>3, <2>10, <2>19, OnceSingle
    <3>2. Once(st, y)
      BY <2>3, <2>10, <2>11, <3>1, OnceJoined
    <3>3. y \notin ToSet(abc)
      BY <2>13, <2>17, <2>19, <2>20
    <3> QED
      BY <2>13, <2>14, <2>15, <3>2, <3>3, OnceJoined
  <2>23. AfterAttach(i, ref) = all
    BY <2>5, <2>11, <2>15
  <2> QED
    BY <2>3, <2>16, <2>17, <2>18, <2>21, <2>22, <2>23 DEF Announces
<1>3. CASE ref.type # "finding"
  <2>1. PICK a, c : a = WidenObservedWindow(i, ref.observed) /\ c = RecordEvent(i, "evidence_attached", ref.id)
    OBVIOUS
  <2>2. PICK x : x = Ev(i, <<"evidence_attached", ref.id>>)
    OBVIOUS
  <2>3. IsSeq(a) /\ ToSet(a) = {Wd(i, o) : o \in {ref.observed} \ {0}}
    BY <2>1, Widens
  <2>4. IsSeq(c) /\ ToSet(c) = {x} /\ DOMAIN c = 1..1
    BY <1>1, <2>1, <2>2, RecordsOne
  <2>5. PICK all : all = a \o c
    OBVIOUS
  <2>6. IsSeq(all) /\ ToSet(all) = ToSet(a) \cup {x}
    BY <2>3, <2>4, <2>5, JoinedSet
  <2>7. ToSet(a) = Widenings(i, ref)
    <3>1. ObservedBy(ref) = {ref.observed} \ {0}
      BY <1>3 DEF ObservedBy
    <3> QED
      BY <2>3, <3>1 DEF Widenings
  <2>8. Announced(i, ref) = {x}
    BY <1>3, <2>2 DEF Announced, FactsOf
  <2>9. x \notin ToSet(a)
    <3>1. x.do = "event"
      BY <2>2 DEF Ev
    <3>2. \A z \in Widenings(i, ref) : z.do = "widen"
      BY DEF Widenings, Wd
    <3> QED
      BY <2>7, <3>1, <3>2
  <2>10. Once(all, x)
    BY <2>3, <2>4, <2>5, <2>9, OnceSingle, OnceJoined
  <2>11. AfterAttach(i, ref) = all
    BY <1>3, <2>1, <2>5 DEF AfterAttach
  <2> QED
    BY <2>6, <2>7, <2>8, <2>10, <2>11 DEF Announces
<1> QED
  BY <1>2, <1>3

(* Nothing is attached twice: the statement changes nothing.               *)
LEMMA DuplicateKeeps ==
    ASSUME CaseInv, NumberInv, NEW p \in Processes, InsertEvidence(p), UNCHANGED reportVars,
           ~Inserted(Head(todo[p]).inv, Head(todo[p]).ref)
    PROVE  CaseInv'
<1>1. RowsInv /\ JobsInv /\ AloneInv /\ SingleInv /\ FactInv /\ TrailInv /\ WindowInv /\ AcceptInv
  BY DEF CaseInv
<1>2. PICK job : job = Head(todo[p])
  OBVIOUS
<1>3. /\ todo[p] # <<>> /\ job.do = "attach" /\ Continue(p, <<>>)
      /\ UNCHANGED <<inv, evidence, timeline, links, clusters, hypotheses, lost, reports>>
  BY <1>2 DEF InsertEvidence, Ready, Continue, reportVars
<1>4. job = todo[p][1] /\ 1 \in DOMAIN todo[p]
  BY <1>1, <1>2, <1>3, HeadFacts
<1>5. RowsInv' /\ Grows
  BY <1>1, <1>3, SameRows, SameGrows
<1>6. PICK then : then = <<>> /\ IsSeq(then) /\ ToSet(then) = {} /\ DOMAIN then = {}
  BY Empty DEF ToSet
<1>7. Moves(p, then)
  BY <1>1, <1>3, <1>6, ContinueMoves DEF Continue
<1>8. JobsInv' /\ AloneInv' /\ SingleInv'
  BY <1>1, <1>5, <1>6, <1>7, JobsKept, AloneKept, SingleQuiet
<1>9. \A i : At(i)' = At(i) /\ (\A e : Known(i, e)' = Known(i, e)) /\ \A x : Holds(i, x)' = Holds(i, x)
  BY <1>3 DEF At, Known, Holds
<1>10. \A i \in DOMAIN inv : Even(i)
  BY <1>1, <1>3, <1>4, <1>6, <1>7, EvenStep DEF Quiet
<1>11. FactInv' /\ TrailInv'
  BY <1>1, <1>3, <1>9, <1>10, FactsKept, TrailKept
<1>12. WindowInv'
  <2>1. ASSUME NEW i, NEW t, Widening(i, t) PROVE Widening(i, t)'
    BY <1>3, <1>4, <1>7, <2>1, WideningStays
  <2> QED
    BY <1>1, <1>3, <1>9, <2>1, WindowKept
<1>13. AcceptInv'
  <2>1. ASSUME NEW i, NEW x, Attaches(job, i, x) PROVE Holds(i, x)'
    <3>1. \E n \in DOMAIN evidence[i] : evidence[i][n].id = x
      BY <1>2, <2>1 DEF Inserted, Attaches
    <3>2. i \in DOMAIN evidence
      BY <1>1, <1>2, <1>3, <2>1, HeadFacts, SeqFacts DEF JobOk, AttachOk, Attaches, RowsInv
    <3> QED
      BY <1>3, <3>1, <3>2 DEF Holds
  <2> QED
    BY <1>1, <1>3, <1>4, <1>6, <1>7, <1>9, <2>1, AcceptKept
<1> QED
  BY <1>5, <1>8, <1>11, <1>12, <1>13 DEF CaseInv

LEMMA AttachKeeps ==
    ASSUME CaseInv, NumberInv, NEW p \in Processes, InsertEvidence(p), UNCHANGED reportVars,
           Inserted(Head(todo[p]).inv, Head(todo[p]).ref)
    PROVE  CaseInv'
<1>1. RowsInv /\ JobsInv /\ AloneInv /\ SingleInv /\ FactInv /\ TrailInv /\ WindowInv /\ AcceptInv
  BY DEF CaseInv
<1>2. PICK job : job = Head(todo[p])
  OBVIOUS
<1>3. PICK k, ref : k = job.inv /\ ref = job.ref
  OBVIOUS
<1>4. PICK then : then = AfterAttach(k, ref)
  OBVIOUS
<1>5. PICK old, new : old = evidence[k] /\ new = Append(old, ref)
  OBVIOUS
<1>6. /\ todo[p] # <<>> /\ job.do = "attach" /\ Continue(p, then)
      /\ UNCHANGED <<inv, timeline, links, clusters, hypotheses, lost, reports>>
      /\ evidence' = [evidence EXCEPT ![k] = new]
  BY <1>2, <1>3, <1>4, <1>5 DEF InsertEvidence, Ready, Continue, reportVars
<1>7. job = todo[p][1] /\ 1 \in DOMAIN todo[p] /\ k \in DOMAIN inv /\ RefOk(ref)
  BY <1>1, <1>2, <1>3, <1>6, HeadFacts DEF JobOk, AttachOk
<1>8. DOMAIN evidence = DOMAIN inv /\ IsSeq(old) /\ \A n \in DOMAIN old : RefOk(old[n])
  BY <1>1, <1>5, <1>7, SeqFacts DEF RowsInv
<1>9. PICK N \in Nat : /\ N = Len(old) /\ DOMAIN old = 1..N /\ IsSeq(new) /\ DOMAIN new = 1..N \cup {N + 1}
                       /\ new[N + 1] = ref /\ \A n \in 1..N : new[n] = old[n]
  BY <1>5, <1>8, Appended
<1>10. /\ evidence' = [i \in DOMAIN evidence |-> evidence'[i]] /\ evidence'[k] = new
       /\ \A i \in DOMAIN inv \ {k} : evidence'[i] = evidence[i]
  BY <1>6, <1>7, <1>8
<1>11. RowsInv'
  <2>1. IsSeq(evidence') /\ Len(evidence') = Len(evidence)
    BY <1>1, <1>10, Mapped DEF RowsInv
  <2>2. \A n \in DOMAIN new : RefOk(new[n])
    BY <1>7, <1>8, <1>9
  <2>3. \A i \in DOMAIN inv : IsSeq(evidence'[i]) /\ \A n \in DOMAIN evidence'[i] : RefOk(evidence'[i][n])
    BY <1>1, <1>9, <1>10, <2>2 DEF RowsInv
  <2> QED
    BY <1>1, <1>6, <2>1, <2>3 DEF RowsInv
<1>12. At(k)' = At(k) \cup ObservedBy(ref)
  <2>1. At(k) = UNION {ObservedBy(old[n]) : n \in DOMAIN old} /\ At(k)' = UNION {ObservedBy(new[n]) : n \in DOMAIN new}
    BY <1>5, <1>10 DEF At
  <2> QED
    BY <1>9, <2>1
<1>13. \A x : (Holds(k, x)' <=> Holds(k, x) \/ x = ref.id)
  <2> TAKE x
  <2>1. Holds(k, x) <=> \E n \in 1..N : old[n].id = x
    BY <1>5, <1>7, <1>8, <1>9 DEF Holds
  <2>2. Holds(k, x)' <=> \E n \in 1..N \cup {N + 1} : new[n].id = x
    BY <1>7, <1>8, <1>9, <1>10 DEF Holds
  <2> QED
    BY <1>9, <2>1, <2>2
<1>14. ASSUME NEW i \in DOMAIN inv, i # k
       PROVE  At(i)' = At(i) /\ (\A e : Known(i, e)' = Known(i, e)) /\ \A x : Holds(i, x)' = Holds(i, x)
  <2>1. evidence'[i] = evidence[i] /\ links' = links /\ (i \in DOMAIN evidence <=> i \in DOMAIN evidence')
    BY <1>6, <1>10, <1>14
  <2> QED
    BY <2>1 DEF At, Known, Holds
<1>15. ASSUME NEW e PROVE Known(k, e) => Known(k, e)'
  <2> DEFINE Known0 == \E n \in 1..N : old[n].type = "finding" /\ old[n].id = e[2]
             Known1 == \E n \in 1..N : old[n].type # "finding" /\ old[n].id = e[2]
  <2>1. Known(k, e) => \/ e[1] \in {"finding_attached", "finding_created"} /\ Known0
                       \/ e[1] = "evidence_attached" /\ Known1
                       \/ e[1] = "relationship_created" /\ e[2] \in DOMAIN links[k]
    BY <1>5, <1>9 DEF Known
  <2>2. \/ e[1] \in {"finding_attached", "finding_created"} /\ Known0
        \/ e[1] = "evidence_attached" /\ Known1
        \/ e[1] = "relationship_created" /\ e[2] \in DOMAIN links[k]
        => Known(k, e)'
    BY <1>6, <1>9, <1>10 DEF Known
  <2> QED
    BY <2>1, <2>2
<1>16. ASSUME NEW e, Fact(e) PROVE Known(k, e)' <=> Known(k, e) \/ e \in FactsOf(ref)
  <2>1. ASSUME e \in FactsOf(ref) PROVE Known(k, e)'
    <3>1. CASE ref.type = "finding"
      <4>1. e[1] \in {"finding_attached", "finding_created"} /\ e[2] = ref.id
        BY <2>1, <3>1 DEF FactsOf
      <4>2. N + 1 \in DOMAIN new /\ new[N + 1].type = "finding" /\ new[N + 1].id = e[2]
        BY <1>9, <3>1, <4>1
      <4> QED
        BY <1>10, <4>1, <4>2 DEF Known
    <3>2. CASE ref.type # "finding"
      <4>1. e[1] = "evidence_attached" /\ e[2] = ref.id
        BY <2>1, <3>2 DEF FactsOf
      <4>2. N + 1 \in DOMAIN new /\ new[N + 1].type # "finding" /\ new[N + 1].id = e[2]
        BY <1>9, <3>2, <4>1
      <4> QED
        BY <1>10, <4>1, <4>2 DEF Known
    <3> QED
      BY <3>1, <3>2
  <2>2. ASSUME Known(k, e)', ~Known(k, e) PROVE e \in FactsOf(ref)
    <3>1. CASE e[1] \in {"finding_attached", "finding_created"}
      <4>1. PICK n \in DOMAIN new : new[n].type = "finding" /\ new[n].id = e[2]
        BY <1>10, <2>2, <3>1 DEF Known
      <4>2. n = N + 1
        BY <1>5, <1>9, <2>2, <3>1, <4>1 DEF Known
      <4>3. ref.type = "finding" /\ ref.id = e[2] /\ e = <<e[1], e[2]>>
        BY <1>9, <1>16, <4>1, <4>2 DEF Fact
      <4> QED
        BY <3>1, <4>3 DEF FactsOf
    <3>2. CASE e[1] = "evidence_attached"
      <4>1. PICK n \in DOMAIN new : new[n].type # "finding" /\ new[n].id = e[2]
        BY <1>10, <2>2, <3>2 DEF Known
      <4>2. n = N + 1
        BY <1>5, <1>9, <2>2, <3>2, <4>1 DEF Known
      <4>3. ref.type # "finding" /\ ref.id = e[2] /\ e = <<e[1], e[2]>>
        BY <1>9, <1>16, <4>1, <4>2 DEF Fact
      <4> QED
        BY <3>2, <4>3 DEF FactsOf
    <3>3. CASE e[1] = "relationship_created"
      BY <1>6, <2>2, <3>3 DEF Known
    <3> QED
      BY <1>16, <3>1, <3>2, <3>3 DEF Fact, FactTypes
  <2> QED
    BY <1>15, <2>1, <2>2
<1>17. \A e \in FactsOf(ref) : Fact(e)
  BY DEF FactsOf, Fact, FactTypes
<1>18. ASSUME NEW e \in FactsOf(ref) PROVE ~Known(k, e)
  <2>1. \A n \in DOMAIN old : old[n].type # ref.type \/ old[n].id # ref.id
    BY <1>2, <1>3, <1>5 DEF Inserted
  <2>2. CASE ref.type = "finding"
    <3>1. e[1] \in {"finding_attached", "finding_created"} /\ e[2] = ref.id
      BY <2>2 DEF FactsOf
    <3> QED
      BY <1>5, <2>1, <2>2, <3>1 DEF Known
  <2>3. CASE ref.type # "finding"
    <3>1. e[1] = "evidence_attached" /\ e[2] = ref.id
      BY <2>3 DEF FactsOf
    <3>2. ASSUME NEW n \in DOMAIN old, old[n].type # "finding", old[n].id = ref.id PROVE FALSE
      <4>1. RefOk(old[n]) /\ RefOk(ref) /\ old[n].type # ref.type
        BY <1>7, <1>8, <2>1, <3>2
      <4>2. ref.id \in IdsOf(AssetTable) /\ ref.id \in IdsOf(EndpointTable)
        BY <2>3, <3>2, <4>1 DEF RefOk
      <4> QED
        BY <4>2, CaseworkAssumption DEF CaseworkAssumption
    <3> QED
      BY <1>5, <3>1, <3>2 DEF Known
  <2> QED
    BY <2>2, <2>3
<1>19. Grows
  <2>1. \A i \in DOMAIN inv : inv[i].version \in Nat
    BY <1>1 DEF RowsInv, RowOk
  <2>2. \A i \in DOMAIN inv : /\ At(i) \subseteq At(i)'
                              /\ \A e : Known(i, e) => Known(i, e)'
                              /\ \A x : Holds(i, x) => Holds(i, x)'
    <3> TAKE i \in DOMAIN inv
    <3>1. CASE i = k
      <4>1. /\ At(k) \subseteq At(k)'
            /\ \A e : Known(k, e) => Known(k, e)'
            /\ \A x : Holds(k, x) => Holds(k, x)'
        BY <1>12, <1>13, <1>15
      <4> QED
        BY <3>1, <4>1
    <3>2. CASE i # k
      BY <1>14, <3>2
    <3> QED
      BY <3>1, <3>2
  <2> QED
    BY <1>6, <2>1, <2>2, CountsStay DEF Grows
<1>20. Announces(then, k, ref)
  BY <1>4, <1>7, AfterAttachOk
<1>21. IsSeq(then) /\ Moves(p, then)
  BY <1>1, <1>6, <1>20, ContinueMoves DEF Continue, Announces
<1>22. ASSUME NEW j \in ToSet(then)
       PROVE  \/ \E o \in ObservedBy(ref) : j = Wd(k, o)
              \/ \E e \in FactsOf(ref) : j = Ev(k, e) /\ Once(then, j)
              \/ \E e : j = Ev(k, e) /\ Plain(e[1])
  <2>1. j \in Widenings(k, ref) \/ j \in Announced(k, ref) \/ j \in History(k, ref.id)
    BY <1>20 DEF Announces
  <2>2. ASSUME j \in History(k, ref.id) PROVE \E e : j = Ev(k, e) /\ Plain(e[1])
    <3>1. PICK e : j = Ev(k, e) /\ e \in {<<"finding_resolved", ref.id>>, <<"finding_reopened", ref.id>>}
      BY <2>2 DEF History
    <3>2. Plain(e[1])
      BY <3>1 DEF Plain, FactTypes
    <3> QED
      BY <3>1, <3>2
  <2>3. j \in Announced(k, ref) => Once(then, j)
    BY <1>20 DEF Announces
  <2> QED
    BY <2>1, <2>2, <2>3 DEF Widenings, Announced
<1>23. \A e : Ev(k, e).do = "event" /\ Ev(k, e).inv = k /\ Ev(k, e).event = e
              /\ "otherwise" \notin DOMAIN Ev(k, e) /\ "inv" \in DOMAIN Ev(k, e)
  BY DEF Ev
<1>24. \A o : Wd(k, o).do = "widen" /\ Wd(k, o).inv = k /\ Wd(k, o).observed = o
              /\ "otherwise" \notin DOMAIN Wd(k, o) /\ "inv" \in DOMAIN Wd(k, o)
  BY DEF Wd
<1>25. JobsInv' /\ AloneInv'
  <2>1. k \in DOMAIN inv'
    BY <1>6, <1>7
  <2>2. ASSUME NEW j \in ToSet(then) PROVE JobOk(j)' /\ j.do \in {"widen", "event"}
    <3>1. CASE \E o \in ObservedBy(ref) : j = Wd(k, o)
      <4>1. PICK o \in ObservedBy(ref) : j = Wd(k, o)
        BY <3>1
      <4>2. j.do = "widen" /\ j.inv = k /\ j.observed \in At(k)' /\ "otherwise" \notin DOMAIN j /\ "inv" \in DOMAIN j
        BY <1>12, <1>24, <4>1
      <4> QED
        BY <2>1, <4>2 DEF JobOk, WidenOk
    <3>2. CASE \E e \in FactsOf(ref) : j = Ev(k, e)
      <4>1. PICK e \in FactsOf(ref) : j = Ev(k, e)
        BY <3>2
      <4>2. j.do = "event" /\ j.inv = k /\ j.event = e /\ "otherwise" \notin DOMAIN j /\ "inv" \in DOMAIN j
        BY <1>23, <4>1
      <4>3. Known(k, e)' /\ e[1] # "status_changed"
        BY <1>16, <1>17 DEF Fact, FactTypes
      <4> QED
        BY <2>1, <4>2, <4>3 DEF JobOk, EventOk
    <3>3. CASE \E e : j = Ev(k, e) /\ Plain(e[1])
      <4>1. PICK e : j = Ev(k, e) /\ Plain(e[1])
        BY <3>3
      <4>2. j.do = "event" /\ j.inv = k /\ j.event = e /\ "otherwise" \notin DOMAIN j /\ "inv" \in DOMAIN j
        BY <1>23, <4>1
      <4> QED
        BY <2>1, <4>1, <4>2 DEF JobOk, EventOk, Plain
    <3> QED
      BY <1>22, <3>1, <3>2, <3>3
  <2>3. JobsInv'
    BY <1>1, <1>11, <1>19, <1>21, <2>2, JobsKept
  <2> QED
    BY <1>1, <1>21, <2>2, <2>3, AloneKept
<1>26. SingleInv'
  <2>1. ASSUME NEW j \in ToSet(then), j.do = "event", ~Plain(j.event[1])
        PROVE  j = Ev(j.inv, j.event) /\ Fact(j.event) /\ ~Known(j.inv, j.event) /\ Once(then, j)
    <3>1. PICK e \in FactsOf(ref) : j = Ev(k, e) /\ Once(then, j)
      BY <1>22, <1>23, <1>24, <2>1
    <3> QED
      BY <1>17, <1>18, <1>23, <3>1
  <2> QED
    BY <1>1, <1>21, <2>1, SingleNew
<1>27. FactInv'
  <2> SUFFICES ASSUME NEW i \in DOMAIN inv, NEW f, Fact(f)
               PROVE  /\ Total(i, {f})' <= 1
                      /\ Total(i, {f})' = 1 => Known(i, f)'
                      /\ i \notin lost /\ f[1] \in {"finding_attached", "evidence_attached"} /\ Known(i, f)'
                           => Total(i, {f})' = 1
    BY <1>6 DEF FactInv
  <2>1. CASE i = k /\ f \in FactsOf(ref)
    <3>1. PICK x : x = Ev(k, f)
      OBVIOUS
    <3>2. x \in ToSet(then) /\ Owed(x, k, {f})
      BY <1>20, <1>23, <2>1, <3>1 DEF Announces, Announced, Owed
    <3>3. Total(k, {f})' = 1
      BY <1>1, <1>6, <1>7, <1>18, <1>21, <2>1, <3>2, FactNew DEF Owed
    <3>4. Known(k, f)'
      BY <1>16, <2>1
    <3> QED
      BY <2>1, <3>3, <3>4
  <2>2. CASE ~(i = k /\ f \in FactsOf(ref))
    <3>1. ASSUME NEW j \in ToSet(then) PROVE ~Owed(j, i, {f})
      <4>1. ~Plain(f[1])
        BY DEF Fact, Plain
      <4> QED
        BY <1>22, <1>23, <1>24, <2>2, <4>1 DEF Owed
    <3>2. Owing(i, {f})' = Owing(i, {f})
      BY <1>1, <1>6, <1>7, <1>21, <3>1, OwingSame DEF Owed
    <3>3. Total(i, {f})' = Total(i, {f})
      BY <1>6, <3>2 DEF Total, Recorded
    <3>4. Known(i, f)' <=> Known(i, f)
      <4>1. CASE i = k
        <5>1. Known(k, f)' <=> Known(k, f)
          BY <1>16, <2>2, <4>1
        <5> QED
          BY <4>1, <5>1
      <4>2. CASE i # k
        BY <1>14, <4>2
      <4> QED
        BY <4>1, <4>2
    <3> QED
      BY <1>1, <3>3, <3>4 DEF FactInv
  <2> QED
    BY <2>1, <2>2
<1>28. TrailInv'
  <2>1. ASSUME NEW i \in DOMAIN inv PROVE Level(i)
    <3>1. ASSUME NEW j \in ToSet(then) PROVE Sober(j, i)
      <4>1. \A e \in FactsOf(ref) : e[1] \notin {"status_changed", "investigation_reopened"}
        BY DEF FactsOf
      <4> QED
        BY <1>22, <1>23, <1>24, <4>1 DEF Sober, Plain
    <3> QED
      BY <1>1, <1>6, <1>7, <1>21, <3>1, LevelStep DEF Sober
  <2> QED
    BY <1>1, <1>6, <2>1, TrailLevel
<1>29. WindowInv'
  <2>1. ASSUME NEW i, NEW t, Widening(i, t) PROVE Widening(i, t)'
    BY <1>6, <1>7, <1>21, <2>1, WideningStays
  <2>2. ASSUME NEW t \in ObservedBy(ref) PROVE Widening(k, t)'
    <3>1. Wd(k, t) \in ToSet(then)
      BY <1>20 DEF Announces, Widenings
    <3>2. PICK n \in DOMAIN then : then[n] = Wd(k, t)
      BY <3>1 DEF ToSet
    <3>3. DOMAIN then = 1..Len(then)
      BY <1>21, SeqFacts
    <3>4. n \in DOMAIN todo'[p] /\ todo'[p][n] = Wd(k, t)
      BY <1>21, <3>2, <3>3 DEF Moves
    <3>5. Wd(k, t).do = "widen" /\ Wd(k, t).inv = k /\ Wd(k, t).observed = t
      BY <1>24
    <3> QED
      BY <3>4, <3>5 DEF Widening
  <2> SUFFICES ASSUME NEW i \in DOMAIN inv
               PROVE  /\ inv[i].first \in At(i)' \cup {0} /\ inv[i].last \in At(i)' \cup {0}
                      /\ i \notin lost => \A t \in At(i)' :
                            \/ inv[i].first # 0 /\ inv[i].first <= t /\ t <= inv[i].last
                            \/ Widening(i, t)'
    BY <1>6 DEF WindowInv
  <2>3. At(i) \subseteq At(i)' /\ (At(i)' = At(i) \/ (i = k /\ At(i)' = At(i) \cup ObservedBy(ref)))
    BY <1>12, <1>14
  <2>4. inv[i].first \in At(i)' \cup {0} /\ inv[i].last \in At(i)' \cup {0}
    BY <1>1, <2>3 DEF WindowInv
  <2>5. ASSUME i \notin lost, NEW t \in At(i)'
        PROVE  (inv[i].first # 0 /\ inv[i].first <= t /\ t <= inv[i].last) \/ Widening(i, t)'
    <3>1. CASE t \in At(i)
      BY <1>1, <2>1, <2>5, <3>1 DEF WindowInv
    <3>2. CASE t \notin At(i)
      BY <2>2, <2>3, <2>5, <3>2
    <3> QED
      BY <3>1, <3>2
  <2> QED
    BY <2>4, <2>5
<1>30. AcceptInv'
  <2>1. \A i, x : Holds(i, x) => Holds(i, x)'
    <3>1. ASSUME NEW i, NEW x, Holds(i, x) PROVE i \in DOMAIN inv
      BY <1>8, <3>1 DEF Holds
    <3> QED
      BY <1>19, <3>1 DEF Grows
  <2>2. ASSUME NEW i, NEW x, Attaches(todo[p][1], i, x) PROVE Holds(i, x)'
    BY <1>3, <1>7, <1>13, <2>2 DEF Attaches
  <2>3. ASSUME NEW n \in DOMAIN then, NEW j \in {then[n]} PROVE AcceptOk(then, j, n)'
    <3>1. j \in ToSet(then) /\ j.do # "clusterStatus"
      BY <1>22, <1>23, <1>24 DEF ToSet
    <3> QED
      BY <3>1 DEF AcceptOk
  <2> QED
    BY <1>1, <1>6, <1>21, <2>1, <2>2, <2>3, AcceptKept
<1> QED
  BY <1>11, <1>25, <1>26, <1>27, <1>28, <1>29, <1>30 DEF CaseInv

-----------------------------------------------------------------------------
(* What follows an update that was written: events of the fields that      *)
(* changed, one for a change of status and one for a reopening.            *)

NotPlain(i, X) == \A x \in X : \E e : x = Ev(i, e) /\ ~Plain(e[1])
Speaks(s, i, X) ==
    /\ IsSeq(s) /\ X \subseteq ToSet(s) /\ \A x \in X : Once(s, x)
    /\ \A j \in ToSet(s) : j \in X \/ \E e : j = Ev(i, e) /\ Plain(e[1])

LEMMA EvFields ==
    ASSUME NEW i, NEW e
    PROVE  /\ Ev(i, e).do = "event" /\ Ev(i, e).inv = i /\ Ev(i, e).event = e
           /\ "otherwise" \notin DOMAIN Ev(i, e) /\ "inv" \in DOMAIN Ev(i, e)
BY DEF Ev

LEMMA SpeaksJoined ==
    ASSUME NEW i, NEW s, NEW t, NEW X, NEW Y, Speaks(s, i, X), Speaks(t, i, Y), X \cap Y = {},
           NotPlain(i, X), NotPlain(i, Y)
    PROVE  Speaks(s \o t, i, X \cup Y)
<1>1. IsSeq(s \o t) /\ ToSet(s \o t) = ToSet(s) \cup ToSet(t)
  BY JoinedSet DEF Speaks
<1>2. ASSUME NEW j, NEW e, NEW f, j = Ev(i, e), Plain(e[1]), j = Ev(i, f), ~Plain(f[1]) PROVE FALSE
  <2>1. Ev(i, e).event = e /\ Ev(i, f).event = f
    BY EvFields
  <2> QED
    BY <1>2, <2>1
<1>3. ASSUME NEW x \in X PROVE Once(s \o t, x)
  <2>1. x \notin ToSet(t)
    BY <1>2 DEF Speaks, NotPlain
  <2> QED
    BY <2>1, OnceJoined DEF Speaks
<1>4. ASSUME NEW x \in Y PROVE Once(s \o t, x)
  <2>1. x \notin ToSet(s)
    BY <1>2 DEF Speaks, NotPlain
  <2> QED
    BY <2>1, OnceJoined DEF Speaks
<1> QED
  BY <1>1, <1>3, <1>4 DEF Speaks

LEMMA SpeaksNothing ==
    ASSUME NEW i
    PROVE  Speaks(<<>>, i, {})
BY Empty DEF Speaks, ToSet

LEMMA SpeaksPlain ==
    ASSUME NEW i, NEW type, NEW subject, Plain(type)
    PROVE  Speaks(RecordEvent(i, type, subject), i, {})
<1>1. PICK s : s = RecordEvent(i, type, subject)
  OBVIOUS
<1>2. IsSeq(s) /\ \A j \in ToSet(s) : EventJob(j, i, <<type, subject>>)
  BY <1>1, Records
<1>3. \A j \in ToSet(s) : j = Ev(i, <<type, subject>>)
  BY <1>2 DEF EventJob, Ev
<1>4. PICK e : e = <<type, subject>>
  OBVIOUS
<1>5. e[1] = type
  BY <1>4
<1> QED
  BY <1>1, <1>2, <1>3, <1>4, <1>5 DEF Speaks

LEMMA SpeaksEvent ==
    ASSUME NEW i, NEW type \in EventTypes, NEW subject
    PROVE  Speaks(RecordEvent(i, type, subject), i, {Ev(i, <<type, subject>>)})
<1>1. PICK s, x : s = RecordEvent(i, type, subject) /\ x = Ev(i, <<type, subject>>)
  OBVIOUS
<1>2. IsSeq(s) /\ ToSet(s) = {x} /\ DOMAIN s = 1..1
  BY <1>1, RecordsOne
<1> QED
  BY <1>1, <1>2, OnceSingle DEF Speaks

Changed(i, s, t) == IF s = t THEN {} ELSE {Ev(i, <<"status_changed", <<s, t>>>>)}
Said(i, reopened) == IF reopened THEN {Ev(i, <<"investigation_reopened", i>>)} ELSE {}

LEMMA ChangesSpoken ==
    ASSUME NEW job, NEW i, NEW s, NEW t, DOMAIN job.input \subseteq {"status", "severity"},
           job.event \in {"incident_closed", "investigation_reopened", NoOne},
           s = job.current.status, t = IF "status" \in DOMAIN job.input THEN job.input.status ELSE s,
           NEW then, then = UpdateEvents(i, job.input, job.current)
                            \o (IF job.event = NoOne THEN <<>> ELSE RecordEvent(i, job.event, i))
    PROVE  /\ Speaks(then, i, Changed(i, s, t) \cup Said(i, Reopens(job)))
           /\ NotPlain(i, Changed(i, s, t) \cup Said(i, Reopens(job)))
<1> DEFINE C == Changed(i, s, t)
           R == Said(i, Reopens(job))
<1>1. PICK e1, e2 : e1 = <<"status_changed", <<s, t>>>> /\ e2 = <<"investigation_reopened", i>>
  OBVIOUS
<1>2. e1[1] = "status_changed" /\ e2[1] = "investigation_reopened" /\ ~Plain(e1[1]) /\ ~Plain(e2[1])
  BY <1>1 DEF Plain
<1>3. C = (IF s = t THEN {} ELSE {Ev(i, e1)}) /\ R = (IF Reopens(job) THEN {Ev(i, e2)} ELSE {})
  BY <1>1 DEF Changed, Said
<1>4. NotPlain(i, C) /\ NotPlain(i, R) /\ NotPlain(i, C \cup R) /\ NotPlain(i, {})
  <2> HIDE DEF C, R
  <2> QED
    BY <1>2, <1>3 DEF NotPlain
<1>5. C \cap R = {}
  <2>1. Ev(i, e1).event = e1 /\ Ev(i, e2).event = e2
    BY EvFields
  <2> HIDE DEF C, R
  <2> QED
    BY <1>2, <1>3, <2>1
<1>6. Plain("severity_changed") /\ Plain("priority_changed") /\ Plain("assignment_changed") /\ Plain("incident_closed")
  BY DEF Plain, FactTypes
<1>7. "status_changed" \in EventTypes /\ "investigation_reopened" \in EventTypes
  BY DEF EventTypes
<1>8. PICK a, b : /\ a = RecordEvent(i, "severity_changed", <<job.current["severity"], job.input["severity"]>>)
                  /\ b = RecordEvent(i, "status_changed", <<job.current["status"], job.input["status"]>>)
  OBVIOUS
<1>9. PICK sv, st : /\ sv = (IF "severity" \in DOMAIN job.input /\ job.input["severity"] # job.current["severity"]
                             THEN a ELSE <<>>)
                    /\ st = (IF "status" \in DOMAIN job.input /\ job.input["status"] # job.current["status"]
                             THEN b ELSE <<>>)
  OBVIOUS
<1>10. UpdateEvents(i, job.input, job.current) = ((sv \o <<>>) \o <<>>) \o st
  <2>1. "priority" \notin DOMAIN job.input /\ "assigned" \notin DOMAIN job.input
    OBVIOUS
  <2> QED
    BY <1>8, <1>9, <2>1 DEF UpdateEvents
<1>11. Speaks(sv, i, {})
  BY <1>6, <1>8, <1>9, SpeaksPlain, SpeaksNothing
<1>12. Speaks(st, i, C)
  <2>1. s = job.current["status"] /\ ("status" \in DOMAIN job.input => t = job.input["status"])
    OBVIOUS
  <2>2. CASE "status" \in DOMAIN job.input /\ job.input["status"] # job.current["status"]
    <3>1. st = RecordEvent(i, "status_changed", <<s, t>>) /\ s # t
      BY <1>8, <1>9, <2>1, <2>2
    <3>2. C = {Ev(i, <<"status_changed", <<s, t>>>>)}
      BY <3>1 DEF Changed
    <3> HIDE DEF C
    <3> QED
      BY <1>7, <3>1, <3>2, SpeaksEvent
  <2>3. CASE ~("status" \in DOMAIN job.input /\ job.input["status"] # job.current["status"])
    <3>1. st = <<>> /\ s = t
      BY <1>9, <2>1, <2>3
    <3>2. C = {}
      BY <3>1 DEF Changed
    <3> HIDE DEF C
    <3> QED
      BY <3>1, <3>2, SpeaksNothing
  <2> QED
    BY <2>2, <2>3
<1>13. PICK ev : ev = (IF job.event = NoOne THEN <<>> ELSE RecordEvent(i, job.event, i))
  OBVIOUS
<1>14. Speaks(ev, i, R)
  <2>0. NoOne \notin {"incident_closed", "investigation_reopened"}
    BY CaseworkAssumption DEF CaseworkAssumption
  <2>1. CASE Reopens(job)
    <3>1. ev = RecordEvent(i, "investigation_reopened", i)
      BY <1>13, <2>0, <2>1 DEF Reopens
    <3>2. R = {Ev(i, <<"investigation_reopened", i>>)}
      BY <2>1 DEF Said
    <3> HIDE DEF R
    <3> QED
      BY <1>7, <3>1, <3>2, SpeaksEvent
  <2>2. CASE ~Reopens(job)
    <3>1. R = {}
      BY <2>2 DEF Said
    <3>2. ev = <<>> \/ ev = RecordEvent(i, "incident_closed", i)
      BY <1>13, <2>2 DEF Reopens
    <3> HIDE DEF R
    <3> QED
      BY <1>6, <3>1, <3>2, SpeaksPlain, SpeaksNothing
  <2> QED
    BY <2>1, <2>2
<1>15. Speaks(then, i, C \cup R)
  <2> HIDE DEF C, R
  <2>1. PICK u, v, w : u = sv \o <<>> /\ v = u \o <<>> /\ w = v \o st
    OBVIOUS
  <2>2. Speaks(<<>>, i, {})
    BY SpeaksNothing
  <2>3. Speaks(u, i, {} \cup {})
    BY <1>4, <1>11, <2>1, <2>2, SpeaksJoined
  <2>4. Speaks(u, i, {})
    BY <2>3
  <2>5. Speaks(v, i, {} \cup {})
    BY <1>4, <2>1, <2>2, <2>4, SpeaksJoined
  <2>6. Speaks(v, i, {})
    BY <2>5
  <2>7. Speaks(w, i, {} \cup C)
    BY <1>4, <1>12, <2>1, <2>6, SpeaksJoined
  <2>8. Speaks(w, i, C)
    BY <2>7
  <2>9. Speaks(w \o ev, i, C \cup R)
    BY <1>4, <1>5, <1>14, <2>8, SpeaksJoined
  <2> QED
    BY <1>10, <1>13, <2>1, <2>9
<1> QED
  BY <1>4, <1>15

Adds(X, E) == \E x \in X : x.event \in E

(* What is spoken is owed from then on, by a process that owed nothing.    *)
LEMMA SpokenTotal ==
    ASSUME RowsInv, JobsInv, NEW p \in Processes, NEW then, Moves(p, then), NEW i \in DOMAIN inv, NEW X,
           Speaks(then, i, X), NotPlain(i, X), timeline'[i] = timeline[i],
           DOMAIN todo[p] = {1}, todo[p][1].do # "event", NEW E, Counted(E)
    PROVE  Total(i, E)' = Total(i, E) + One(Adds(X, E))
<1>1. /\ IsFiniteSet(Owing(i, E)) /\ Cardinality(Owing(i, E)) \in Nat
      /\ Cardinality(Recorded(i, E)) \in Nat
  BY CountFinite
<1>2. Recorded(i, E)' = Recorded(i, E)
  BY DEF Recorded
<1>3. ~Owed(todo[p][1], i, E)
  BY DEF Owed
<1>4. CASE Adds(X, E)
  <2>1. PICK x \in X : x.event \in E
    BY <1>4 DEF Adds
  <2>2. x \in ToSet(then) /\ x.do = "event" /\ x.inv = i
    BY EvFields DEF Speaks, NotPlain
  <2>3. Owed(x, i, E)
    BY <2>1, <2>2 DEF Owed
  <2>4. Owing(i, E)' = Owing(i, E) \cup {p}
    BY <1>3, <2>2, <2>3, OwingMore
  <2>5. p \notin Owing(i, E)
    BY <1>3 DEF Owing
  <2>6. Cardinality(Owing(i, E)') = Cardinality(Owing(i, E)) + 1
    BY <1>1, <2>4, <2>5, FS_AddElement
  <2>7. PICK b \in BOOLEAN : b = Adds(X, E)
    BY DEF Adds
  <2>8. One(b) = 1
    BY <1>4, <2>7 DEF One
  <2>9. Total(i, E)' = Total(i, E) + One(b)
    BY <1>1, <1>2, <2>6, <2>8 DEF Total
  <2> QED
    BY <2>7, <2>9
<1>5. CASE ~Adds(X, E)
  <2>1. ASSUME NEW j \in ToSet(then) PROVE ~Owed(j, i, E)
    <3>1. CASE j \in X
      BY <1>5, <3>1 DEF Owed, Adds
    <3>2. ASSUME NEW e, j = Ev(i, e), Plain(e[1]) PROVE ~Owed(j, i, E)
      <4>1. j.event = e
        BY <3>2, EvFields
      <4> QED
        BY <3>2, <4>1, CountedTypes DEF Owed, Plain
    <3> QED
      BY <3>1, <3>2 DEF Speaks
  <2>2. Owing(i, E)' = Owing(i, E)
    BY <1>3, <2>1, OwingSame
  <2>3. PICK b \in BOOLEAN : b = Adds(X, E)
    BY DEF Adds
  <2>4. One(b) = 0
    BY <1>5, <2>3 DEF One
  <2>5. Total(i, E)' = Total(i, E) + One(b)
    BY <1>1, <1>2, <2>2, <2>4 DEF Total
  <2> QED
    BY <2>3, <2>5
<1> QED
  BY <1>4, <1>5

(* Among what an update says, the events of one count are one.             *)
Sole(X) == \A E : Counted(E) => \A x, y \in X : x.event \in E /\ y.event \in E => x = y

LEMMA SaidOnce ==
    ASSUME NEW i, NEW s, NEW t, NEW b \in BOOLEAN
    PROVE  Sole(Changed(i, s, t) \cup Said(i, b))
<1>1. PICK e1, e2 : e1 = <<"status_changed", <<s, t>>>> /\ e2 = <<"investigation_reopened", i>>
  OBVIOUS
<1>1a. e1[1] = "status_changed" /\ e2[1] = "investigation_reopened"
  BY <1>1
<1>2. PICK x1, x2 : x1 = Ev(i, e1) /\ x2 = Ev(i, e2)
  OBVIOUS
<1>3. x1.event = e1 /\ x2.event = e2
  BY <1>2, EvFields
<1>4. Changed(i, s, t) \cup Said(i, b) \subseteq {x1, x2}
  BY <1>1, <1>2 DEF Changed, Said
<1>5. ASSUME NEW E, Counted(E), e1 \in E, e2 \in E PROVE FALSE
  <2>1. CASE E \subseteq StatusEvents
    BY <1>1a, <1>5, <2>1 DEF StatusEvents
  <2>2. CASE \E e : E = {e}
    BY <1>1a, <1>5, <2>2
  <2> QED
    BY <1>5, <2>1, <2>2 DEF Counted
<1> SUFFICES ASSUME NEW E, Counted(E), NEW x \in {x1, x2}, NEW y \in {x1, x2}, x.event \in E, y.event \in E
             PROVE  x = y
  BY <1>4 DEF Sole
<1> QED
  BY <1>3, <1>5

(* Which counts it adds to.                                                *)
AddsTo(X, i, s, t, b) ==
    /\ \A r \in Statuses : /\ Adds(X, Entering(r)) <=> s # t /\ r = t
                           /\ Adds(X, Leaving(r)) <=> s # t /\ r = s
    /\ Adds(X, Reopening(i)) <=> b
    /\ Adds(X, ClosedToOpen) <=> s = "closed" /\ t = "open"

LEMMA SaidCounts ==
    ASSUME NEW i, NEW s \in Statuses, NEW t \in Statuses, NEW b \in BOOLEAN,
           NEW X, X = Changed(i, s, t) \cup Said(i, b)
    PROVE  AddsTo(X, i, s, t, b)
<1>1. PICK e1, e2 : e1 = <<"status_changed", <<s, t>>>> /\ e2 = <<"investigation_reopened", i>>
  OBVIOUS
<1>1a. e1[1] = "status_changed" /\ e2[1] = "investigation_reopened"
  BY <1>1
<1>2. PICK x1, x2 : x1 = Ev(i, e1) /\ x2 = Ev(i, e2)
  OBVIOUS
<1>3. x1.event = e1 /\ x2.event = e2
  BY <1>2, EvFields
<1>4. X = (IF s = t THEN {} ELSE {x1}) \cup (IF b THEN {x2} ELSE {})
  BY <1>1, <1>2 DEF Changed, Said
<1>5. \A r \in Statuses : (e1 \in Entering(r) <=> r = t) /\ (e1 \in Leaving(r) <=> r = s)
                          /\ e2 \notin Entering(r) /\ e2 \notin Leaving(r)
  BY <1>1, <1>1a DEF Entering, Leaving
<1>6. e1 \notin Reopening(i) /\ e2 \in Reopening(i)
  BY <1>1, <1>1a DEF Reopening
<1>7. (e1 \in ClosedToOpen <=> s = "closed" /\ t = "open") /\ e2 \notin ClosedToOpen
  BY <1>1, <1>1a DEF ClosedToOpen
<1> QED
  BY <1>3, <1>4, <1>5, <1>6, <1>7 DEF Adds, AddsTo

LEMMA UpdateKeeps ==
    ASSUME CaseInv, NumberInv, NEW p \in Processes, UpdateInvestigation(p), UNCHANGED reportVars,
           VersionMatches(inv[Head(todo[p]).inv], Head(todo[p]).expected)
    PROVE  CaseInv'
<1>1. RowsInv /\ JobsInv /\ AloneInv /\ SingleInv /\ FactInv /\ TrailInv /\ WindowInv /\ AcceptInv
  BY DEF CaseInv
<1>2. PICK job : job = Head(todo[p])
  OBVIOUS
<1>3. PICK then : then = UpdateEvents(job.inv, job.input, job.current)
                         \o (IF job.event = NoOne THEN <<>> ELSE RecordEvent(job.inv, job.event, job.inv))
  OBVIOUS
<1>4. /\ todo[p] # <<>> /\ job.do = "update" /\ Continue(p, then)
      /\ UNCHANGED <<evidence, timeline, links, clusters, hypotheses, lost, reports>>
  BY <1>2, <1>3 DEF UpdateInvestigation, Ready, Continue, reportVars
<1>5. job = todo[p][1] /\ 1 \in DOMAIN todo[p] /\ UpdateOk(job) /\ IsSeq(todo[p])
  BY <1>1, <1>2, <1>4, HeadFacts DEF JobOk
<1>6. DOMAIN todo[p] = {1}
  <2>1. Len(todo[p]) = 1
    BY <1>1, <1>4, <1>5 DEF AloneInv
  <2>2. DOMAIN todo[p] = 1..1
    BY <1>5, <2>1, SeqFacts
  <2> QED
    BY <2>2
<1>7. PICK k, old, s, t, b : /\ k = job.inv /\ old = inv[k] /\ s = old.status /\ t = job.row.status
                             /\ b = Reopens(job)
  OBVIOUS
<1>8. /\ k \in DOMAIN inv /\ RowOk(old) /\ RowOk(job.row) /\ ChangeOk(job) /\ SeenClosed(job)
      /\ job.expected <= job.current.version /\ job.current.version <= old.version
      /\ RowOk(job.current) /\ job.expected \in Nat
  BY <1>1, <1>5, <1>7 DEF UpdateOk, ChangeOk, RowsInv
<1>9. old.version = job.expected /\ old.version = job.current.version
  <2>1. old.version = job.expected
    BY <1>2, <1>7 DEF VersionMatches
  <2>2. old.version \in Nat /\ job.current.version \in Nat
    BY <1>8 DEF RowOk
  <2> QED
    BY <1>8, <2>1, <2>2
<1>10. /\ s = job.current.status /\ t = (IF "status" \in DOMAIN job.input THEN job.input.status ELSE s)
       /\ s \in Statuses /\ t \in Statuses /\ b \in BOOLEAN /\ (b => s = "closed")
  <2>1. s = job.current.status
    BY <1>5, <1>7, <1>9 DEF UpdateOk
  <2>2. b => s = "closed"
    BY <1>7, <1>8, <1>9 DEF SeenClosed
  <2> QED
    BY <1>5, <1>7, <1>8, <2>1, <2>2 DEF UpdateOk, RowOk, Reopens
<1>11. b <=> s = "closed" /\ t = "open"
  <2>1. b <=> "status" \in DOMAIN job.input /\ job.input.status = "open"
    BY <1>7, <1>8 DEF ChangeOk
  <2> QED
    BY <1>10, <2>1
<1>12. PICK row : row = Updated(old, job.row)
  OBVIOUS
<1>13. inv' = [inv EXCEPT ![k] = row]
  BY <1>2, <1>7, <1>12 DEF UpdateInvestigation
<1>14. /\ row = [f \in RowFields |-> row[f]] /\ row.status = t /\ row.version = old.version + 1
       /\ row.first = old.first /\ row.last = old.last
  BY <1>7, <1>8, <1>12 DEF Updated, RowOk, RowFields
<1>15. RowOk(row) /\ old.version \in Nat
  BY <1>8, <1>10, <1>14 DEF RowOk
<1>16. inv' = [i \in DOMAIN inv |-> inv'[i]] /\ inv'[k] = row /\ \A i \in DOMAIN inv \ {k} : inv'[i] = inv[i]
  BY <1>8, <1>13
<1>17. IsSeq(inv') /\ Len(inv') = Len(inv) /\ DOMAIN inv' = DOMAIN inv
  BY <1>1, <1>16, Mapped DEF RowsInv
<1>18. RowsInv'
  <2>1. \A i \in DOMAIN inv : RowOk(inv'[i])
    BY <1>1, <1>15, <1>16 DEF RowsInv
  <2> QED
    BY <1>1, <1>4, <1>17, <2>1 DEF RowsInv
<1>19. \A i : At(i)' = At(i) /\ (\A e : Known(i, e)' = Known(i, e)) /\ \A x : Holds(i, x)' = Holds(i, x)
  BY <1>4 DEF At, Known, Holds
<1>20. Grows
  <2>1. ASSUME NEW i \in DOMAIN inv
        PROVE  /\ inv[i].version <= inv'[i].version
               /\ inv'[i].version = inv[i].version => inv'[i].status = inv[i].status
    <3>1. CASE i = k
      BY <1>7, <1>14, <1>15, <1>16, <3>1
    <3>2. CASE i # k
      <4>1. inv[i].version \in Nat
        BY <1>1 DEF RowsInv, RowOk
      <4> QED
        BY <1>16, <3>2, <4>1
    <3> QED
      BY <3>1, <3>2
  <2> QED
    BY <1>1, <1>4, <1>17, <1>19, <2>1, CountsStay DEF Grows
<1>21. PICK X : X = Changed(k, s, t) \cup Said(k, b)
  OBVIOUS
<1>22. Speaks(then, k, X) /\ NotPlain(k, X)
  <2>1. DOMAIN job.input \subseteq {"status", "severity"} /\ job.event \in {"incident_closed", "investigation_reopened", NoOne}
    BY <1>8 DEF ChangeOk
  <2>2. then = UpdateEvents(k, job.input, job.current)
               \o (IF job.event = NoOne THEN <<>> ELSE RecordEvent(k, job.event, k))
    BY <1>3, <1>7
  <2> QED
    BY <1>7, <1>10, <1>21, <2>1, <2>2, ChangesSpoken
<1>23. Moves(p, then)
  BY <1>1, <1>4, <1>22, ContinueMoves DEF Continue, Speaks
<1>24. ASSUME NEW j \in ToSet(then)
       PROVE  /\ j.do = "event" /\ j.inv = k /\ JobOk(j)
              /\ j.event[1] \notin FactTypes
  <2>1. PICK e : j = Ev(k, e) /\ e[1] \notin FactTypes /\ (e[1] = "status_changed" => e \in StatusEvents)
    <3>1. CASE j \in X
      <4>1. PICK e1, e2 : e1 = <<"status_changed", <<s, t>>>> /\ e2 = <<"investigation_reopened", k>>
        OBVIOUS
      <4>2. e1[1] = "status_changed" /\ e2[1] = "investigation_reopened" /\ e1 \in StatusEvents
        BY <1>10, <4>1 DEF StatusEvents
      <4>3. j = Ev(k, e1) \/ j = Ev(k, e2)
        BY <1>21, <3>1, <4>1 DEF Changed, Said
      <4> QED
        BY <4>2, <4>3 DEF FactTypes
    <3>2. CASE \E e : j = Ev(k, e) /\ Plain(e[1])
      BY <3>2 DEF Plain
    <3> QED
      BY <1>22, <3>1, <3>2 DEF Speaks
  <2>2. j.do = "event" /\ j.inv = k /\ j.event = e /\ "otherwise" \notin DOMAIN j /\ "inv" \in DOMAIN j
    BY <2>1, EvFields
  <2> QED
    BY <1>8, <2>1, <2>2 DEF JobOk, EventOk
<1>25. JobsInv'
  <2>1. \A j \in ToSet(then) : JobOk(j)'
    BY <1>1, <1>18, <1>20, <1>24, JobStays
  <2> QED
    BY <1>1, <1>18, <1>20, <1>23, <2>1, JobsKept
<1>26. AloneInv'
  BY <1>1, <1>23, <1>24, AloneKept
<1>27. SingleInv'
  <2>1. ASSUME NEW i, NEW E, Counted(E), NEW m \in DOMAIN then, NEW n \in DOMAIN then,
               Owed(then[m], i, E), Owed(then[n], i, E)
        PROVE  m = n
    <3>1. PICK x, y : x = then[m] /\ y = then[n]
      OBVIOUS
    <3>2. x \in ToSet(then) /\ y \in ToSet(then) /\ x.event \in E /\ y.event \in E
      BY <2>1, <3>1 DEF ToSet, Owed
    <3>3. ASSUME NEW z \in ToSet(then), z.event \in E PROVE z \in X
      <4>1. ASSUME NEW e, z = Ev(k, e), Plain(e[1]) PROVE FALSE
        <5>1. z.event = e
          BY <4>1, EvFields
        <5> QED
          BY <2>1, <3>3, <4>1, <5>1, CountedTypes DEF Plain
      <4> QED
        BY <1>22, <4>1 DEF Speaks
    <3>4. x \in X /\ y \in X
      BY <3>2, <3>3
    <3>5. x = y
      <4>1. Sole(X)
        BY <1>10, <1>21, SaidOnce
      <4> QED
        BY <2>1, <3>2, <3>4, <4>1 DEF Sole
    <3> QED
      BY <1>22, <3>1, <3>4, <3>5 DEF Speaks, Once
  <2>2. DOMAIN todo[p] \ {1} = {}
    BY <1>6
  <2> QED
    BY <1>1, <1>23, <2>1, <2>2, SingleKept
<1>28. \A i \in DOMAIN inv \ {k} : Even(i)
  BY <1>1, <1>4, <1>5, <1>23, <1>24, EvenStep DEF Quiet
<1>29. ASSUME NEW E, Counted(E) PROVE Total(k, E)' = Total(k, E) + One(Adds(X, E))
  BY <1>1, <1>4, <1>5, <1>6, <1>8, <1>22, <1>23, <1>29, SpokenTotal
<1>30. FactInv'
  <2>1. ASSUME NEW e, Fact(e) PROVE Total(k, {e})' = Total(k, {e})
    <3>1. Counted({e}) /\ e[1] \in FactTypes
      BY <2>1, CountedSets DEF Fact
    <3>2. \A x \in X : x.event # e
      BY <1>22, <1>24, <3>1 DEF Speaks
    <3>3. PICK c \in BOOLEAN : c = Adds(X, {e})
      BY DEF Adds
    <3>4. One(c) = 0
      BY <3>2, <3>3 DEF One, Adds
    <3>5. Total(k, {e})' = Total(k, {e}) + 0
      BY <1>29, <3>1, <3>3, <3>4
    <3>6. Total(k, {e}) \in Nat
      BY <1>1, <1>8, CountFinite
    <3> QED
      BY <3>5, <3>6
  <2>2. ASSUME NEW i \in DOMAIN inv, NEW e, Fact(e) PROVE Total(i, {e})' = Total(i, {e})
    <3>1. CASE i = k
      BY <2>1, <2>2, <3>1
    <3>2. CASE i # k
      BY <1>28, <2>2, <3>2, CountedSets DEF Even, Fact
    <3> QED
      BY <3>1, <3>2
  <2>3. DOMAIN inv' = DOMAIN inv /\ lost' = lost
    BY <1>4, <1>17
  <2> SUFFICES ASSUME NEW i \in DOMAIN inv, NEW e, Fact(e)
               PROVE  /\ Total(i, {e})' <= 1
                      /\ Total(i, {e})' = 1 => Known(i, e)'
                      /\ i \notin lost /\ e[1] \in {"finding_attached", "evidence_attached"} /\ Known(i, e)'
                           => Total(i, {e})' = 1
    BY <2>3 DEF FactInv
  <2>4. Total(i, {e})' = Total(i, {e}) /\ Known(i, e)' = Known(i, e)
    BY <1>19, <2>2
  <2> QED
    BY <1>1, <2>4 DEF FactInv
<1>31. TrailInv'
  <2>1. DOMAIN inv' = DOMAIN inv /\ lost' = lost
    BY <1>4, <1>17
  <2> SUFFICES ASSUME NEW i \in DOMAIN inv, i \notin lost
               PROVE  /\ \A r \in Statuses : Total(i, Entering(r))' + One(r = "new")
                                             = Total(i, Leaving(r))' + One(inv'[i].status = r)
                      /\ Total(i, Reopening(i))' = Total(i, ClosedToOpen)'
    BY <2>1 DEF TrailInv
  <2>2. CASE i # k
    <3>1. Even(i) /\ inv'[i].status = inv[i].status
      BY <1>16, <1>28, <2>2
    <3>2. ASSUME NEW r \in Statuses
          PROVE  Total(i, Entering(r))' = Total(i, Entering(r)) /\ Total(i, Leaving(r))' = Total(i, Leaving(r))
      BY <3>1, CountedSets DEF Even
    <3>3. Total(i, Reopening(i))' = Total(i, Reopening(i)) /\ Total(i, ClosedToOpen)' = Total(i, ClosedToOpen)
      BY <3>1, CountedSets DEF Even
    <3> QED
      BY <1>1, <3>1, <3>2, <3>3 DEF TrailInv
  <2>3. CASE i = k
    <3>1. /\ \A r \in Statuses : /\ Adds(X, Entering(r)) <=> s # t /\ r = t
                                 /\ Adds(X, Leaving(r)) <=> s # t /\ r = s
          /\ Adds(X, Reopening(k)) <=> b
          /\ Adds(X, ClosedToOpen) <=> s = "closed" /\ t = "open"
      <4>1. AddsTo(X, k, s, t, b)
        BY <1>10, <1>21, SaidCounts
      <4> QED
        BY <4>1 DEF AddsTo
    <3>2. ASSUME NEW r \in Statuses
          PROVE  Total(k, Entering(r))' + One(r = "new") = Total(k, Leaving(r))' + One(t = r)
      <4>1. Total(k, Entering(r)) + One(r = "new") = Total(k, Leaving(r)) + One(s = r)
        BY <1>1, <1>7, <2>3 DEF TrailInv
      <4>2. Total(k, Entering(r)) \in Nat /\ Total(k, Leaving(r)) \in Nat
        BY <1>1, <1>8, CountFinite
      <4>3. PICK c \in BOOLEAN, d \in BOOLEAN : c = Adds(X, Entering(r)) /\ d = Adds(X, Leaving(r))
        BY DEF Adds
      <4>4. (c <=> s # t /\ r = t) /\ (d <=> s # t /\ r = s)
        BY <3>1, <4>3
      <4>5. /\ Total(k, Entering(r))' = Total(k, Entering(r)) + One(c)
            /\ Total(k, Leaving(r))' = Total(k, Leaving(r)) + One(d)
        BY <1>29, <4>3, CountedSets
      <4>6. PICK a0, a1, l0, l1, w : /\ a0 = Total(k, Entering(r)) /\ a1 = Total(k, Entering(r))'
                                     /\ l0 = Total(k, Leaving(r)) /\ l1 = Total(k, Leaving(r))'
                                     /\ w = One(r = "new")
        OBVIOUS
      <4>7. w \in Nat
        BY <4>6 DEF One
      <4>8. CASE s = t
        <5>1. One(c) = 0 /\ One(d) = 0
          BY <4>4, <4>8 DEF One
        <5> QED
          BY <4>1, <4>2, <4>5, <4>8, <5>1
      <4>9. CASE s # t /\ r = s
        <5>1. One(c) = 0 /\ One(d) = 1 /\ One(s = r) = 1 /\ One(t = r) = 0
          BY <4>4, <4>9 DEF One
        <5> QED
          BY <4>1, <4>2, <4>5, <4>6, <4>7, <5>1
      <4>10. CASE s # t /\ r = t
        <5>1. One(c) = 1 /\ One(d) = 0 /\ One(s = r) = 0 /\ One(t = r) = 1
          BY <4>4, <4>10 DEF One
        <5> QED
          BY <4>1, <4>2, <4>5, <4>6, <4>7, <5>1
      <4>11. CASE s # t /\ r # s /\ r # t
        <5>1. One(c) = 0 /\ One(d) = 0 /\ One(s = r) = 0 /\ One(t = r) = 0
          BY <4>4, <4>11 DEF One
        <5> QED
          BY <4>1, <4>2, <4>5, <4>6, <4>7, <5>1
      <4> QED
        BY <4>8, <4>9, <4>10, <4>11
    <3>3. Total(k, Reopening(k))' = Total(k, ClosedToOpen)'
      <4>1. Total(k, Reopening(k)) = Total(k, ClosedToOpen)
        BY <1>1, <2>3 DEF TrailInv
      <4>2. PICK c \in BOOLEAN, d \in BOOLEAN : c = Adds(X, Reopening(k)) /\ d = Adds(X, ClosedToOpen)
        BY DEF Adds
      <4>3. c <=> d
        BY <1>11, <3>1, <4>2
      <4>4. /\ Total(k, Reopening(k))' = Total(k, Reopening(k)) + One(c)
            /\ Total(k, ClosedToOpen)' = Total(k, ClosedToOpen) + One(d)
        BY <1>29, <4>2, CountedSets
      <4>5. One(c) = One(d)
        BY <4>3 DEF One
      <4> QED
        BY <4>1, <4>4, <4>5
    <3> QED
      BY <1>14, <1>16, <2>3, <3>2, <3>3
  <2> QED
    BY <2>2, <2>3
<1>32. WindowInv'
  <2>1. ASSUME NEW i, NEW u, Widening(i, u) PROVE Widening(i, u)'
    BY <1>4, <1>5, <1>23, <2>1, WideningStays
  <2>2. \A i \in DOMAIN inv : inv'[i].first = inv[i].first /\ inv'[i].last = inv[i].last
    BY <1>7, <1>14, <1>16
  <2> QED
    BY <1>1, <1>4, <1>17, <1>19, <2>1, <2>2, WindowKept
<1>33. AcceptInv'
  <2>1. ASSUME NEW n \in DOMAIN then, NEW j \in {then[n]} PROVE AcceptOk(then, j, n)'
    <3>1. j \in ToSet(then)
      BY DEF ToSet
    <3> QED
      BY <1>24, <3>1 DEF AcceptOk
  <2> QED
    BY <1>1, <1>4, <1>5, <1>19, <1>23, <2>1, AcceptKept DEF Attaches
<1> QED
  BY <1>18, <1>25, <1>26, <1>27, <1>30, <1>31, <1>32, <1>33 DEF CaseInv

(* An update of a row that was written since changes nothing.              *)
LEMMA StaleUpdateCalm ==
    ASSUME RowsInv, JobsInv, AloneInv, NumberInv, NEW p \in Processes, UpdateInvestigation(p), UNCHANGED reportVars,
           ~VersionMatches(inv[Head(todo[p]).inv], Head(todo[p]).expected)
    PROVE  \E then : Calm(p, then)
<1>1. /\ UNCHANGED <<inv, evidence, timeline, links, clusters, hypotheses, lost, reports>>
      /\ todo[p] # <<>> /\ Head(todo[p]).do = "update" /\ Continue(p, <<>>)
  BY DEF UpdateInvestigation, Ready, Continue, reportVars
<1>2. RowsInv' /\ Grows
  BY <1>1, SameRows, SameGrows
<1> QED
  BY <1>1, <1>2, ContinueNothing

-----------------------------------------------------------------------------
(* Statements that leave the rows alone, but for what is lost with them.   *)

Prepared(then) ==
    \A n \in DOMAIN then : \A j \in {then[n]} : j.do = "clusterStatus" =>
       \A x \in ToSet(j.items) : \E m \in 1..(n - 1) : Attaches(then[m], j.inv, x)

LEMMA ItemsPrepared ==
    ASSUME NEW k \in DOMAIN inv, NEW c, NEW items \in Seq(IdsOf(FindingTable)), NEW by, by # NoOne,
           NEW then, then = AfterItems(k, c, items, by)
    PROVE  /\ IsSeq(then) /\ Prepared(then)
           /\ \A j \in ToSet(then) : j.do \in {"attach", "clusterStatus"} /\ JobOk(j)
<1> DEFINE S == UNION {ToSet(AttachFinding(k, id, "correlated", by)) : id \in IdsOf(FindingTable)}
           ss == [n \in DOMAIN items |-> AttachFinding(k, items[n], "correlated", by)]
<1>1. PICK mark : mark = [do |-> "clusterStatus", cluster |-> c, status |-> "accepted", inv |-> k,
                          items |-> items, by |-> by]
  OBVIOUS
<1>2. mark.do = "clusterStatus" /\ mark.inv = k /\ mark.items = items /\ "otherwise" \notin DOMAIN mark
      /\ "inv" \in DOMAIN mark
  BY <1>1
<1>3. JobOk(mark)
  BY <1>2 DEF JobOk
<1>4. PICK u : u = FlattenSeq(ss)
  OBVIOUS
<1>5. then = u \o <<mark>>
  BY <1>1, <1>4 DEF AfterItems
<1>6. "correlated" \in RelationTypes
  BY DEF RelationTypes
<1>7. ASSUME NEW id \in IdsOf(FindingTable)
      PROVE  LET s == AttachFinding(k, id, "correlated", by)
             IN s \in Seq(S) /\ Len(s) = 1 /\ \A j \in ToSet(s) : AttachJob(j, k, id)
  <2>1. PICK s : s = AttachFinding(k, id, "correlated", by)
    OBVIOUS
  <2>2. IsSeq(s) /\ Len(s) = 1 /\ \A j \in ToSet(s) : AttachJob(j, k, id)
    BY <1>6, <2>1, AttachesFinding DEF Attachment
  <2>3. \A n \in DOMAIN s : s[n] \in S
    BY <2>1 DEF ToSet
  <2>4. s \in Seq(S)
    <3> HIDE DEF S
    <3> QED
      BY <2>2, <2>3, SeqIn
  <2> QED
    BY <2>1, <2>2, <2>4
<1>8. \A j \in S : \E id : AttachJob(j, k, id)
  BY <1>7
<1>9. IsSeq(items) /\ \A n \in DOMAIN items : items[n] \in IdsOf(FindingTable)
  BY OfSeq
<1>10. ss \in Seq(Seq(S)) /\ DOMAIN ss = DOMAIN items
  <2>1. \A n \in DOMAIN items : ss[n] \in Seq(S)
    BY <1>7, <1>9
  <2>2. ss = [n \in DOMAIN items |-> ss[n]]
    OBVIOUS
  <2> HIDE DEF ss, S
  <2>3. IsSeq(ss) /\ DOMAIN ss = DOMAIN items
    BY <1>9, <2>2, Mapped
  <2> QED
    BY <2>1, <2>3, SeqIn
<1>11. u \in Seq(S)
  <2> HIDE DEF ss, S
  <2> QED
    BY <1>4, <1>10, Flattened
<1>12. IsSeq(u) /\ \A j \in ToSet(u) : j \in S
  BY <1>11, OfSeq DEF ToSet
<1>13. \A j \in ToSet(u) : j.do = "attach" /\ JobOk(j)
  <2> HIDE DEF S
  <2> QED
    BY <1>8, <1>12, AttachFits DEF AttachJob
<1>14. ASSUME NEW x \in ToSet(items) PROVE \E j \in ToSet(u) : Attaches(j, k, x)
  <2>1. PICK n \in DOMAIN items : x = items[n]
    BY DEF ToSet
  <2>2. PICK s : s = ss[n] /\ s = AttachFinding(k, x, "correlated", by)
    BY <2>1
  <2>3. s \in Seq(S) /\ Len(s) = 1 /\ \A j \in ToSet(s) : AttachJob(j, k, x)
    BY <1>7, <1>9, <2>1, <2>2
  <2>4. s[1] \in ToSet(s)
    <3>1. DOMAIN s = 1..1
      <4> HIDE DEF S
      <4> QED
        BY <2>3, OfSeq
    <3> QED
      BY <3>1 DEF ToSet
  <2>5. s[1] \in ToSet(FlattenSeq(ss))
    <3> HIDE DEF ss, S
    <3> QED
      BY <1>10, <2>1, <2>2, <2>4, FlattenHolds
  <2>6. Attaches(s[1], k, x)
    BY <2>3, <2>4 DEF AttachJob, Attaches
  <2> QED
    BY <1>4, <2>5, <2>6
<1> HIDE DEF S, ss
<1>15. /\ IsSeq(then) /\ Len(then) = Len(u) + 1 /\ Len(u) \in Nat /\ DOMAIN u = 1..Len(u)
       /\ \A n \in 1..Len(u) : then[n] = u[n]
       /\ then[Len(u) + 1] = mark
  <2>1. IsSeq(<<mark>>) /\ Len(<<mark>>) = 1 /\ <<mark>>[1] = mark
    BY Single
  <2>2. 1 \in 1..Len(<<mark>>)
    BY <2>1
  <2>3. PICK v : v = <<mark>>
    OBVIOUS
  <2> QED
    BY <1>5, <1>12, <2>1, <2>2, <2>3, Joined, SeqFacts
<1>16. DOMAIN then = 1..(Len(u) + 1)
  BY <1>15, SeqFacts
<1>17. ASSUME NEW n \in DOMAIN then PROVE (n \in DOMAIN u /\ then[n] \in ToSet(u)) \/ (n = Len(u) + 1 /\ then[n] = mark)
  <2>1. CASE n <= Len(u)
    <3>1. n \in DOMAIN u
      BY <1>15, <1>16, <2>1
    <3> QED
      BY <1>15, <3>1 DEF ToSet
  <2>2. CASE n > Len(u)
    BY <1>15, <1>16, <2>2
  <2> QED
    BY <1>15, <1>16, <2>1, <2>2
<1>18. \A j \in ToSet(then) : j.do \in {"attach", "clusterStatus"} /\ JobOk(j)
  BY <1>2, <1>3, <1>13, <1>17 DEF ToSet
<1>19. ASSUME NEW n \in DOMAIN then, then[n].do = "clusterStatus", NEW x \in ToSet(then[n].items)
       PROVE  \E m \in 1..(n - 1) : Attaches(then[m], then[n].inv, x)
  <2>1. n = Len(u) + 1 /\ then[n] = mark
    BY <1>13, <1>17, <1>19
  <2>2. PICK j \in ToSet(u) : Attaches(j, k, x)
    BY <1>2, <1>14, <1>19, <2>1
  <2>3. PICK m \in DOMAIN u : u[m] = j
    BY DEF ToSet
  <2>4. m \in 1..(n - 1) /\ then[m] = j
    BY <1>15, <2>1, <2>3
  <2> QED
    BY <1>2, <2>1, <2>2, <2>4
<1> QED
  BY <1>15, <1>18, <1>19 DEF Prepared

(* The statements that follow are none that counts, the row of an          *)
(* investigation whose statement was dropped is in lost.                   *)
Drops(p, then) ==
    /\ todo[p] # <<>> /\ todo' = [todo EXCEPT ![p] = then \o Tail(@)]
    /\ UNCHANGED <<inv, evidence, timeline, links, clusters, hypotheses, reports>> /\ lost \subseteq lost'
    /\ todo[p][1].do \in {"attach", "widen", "event"} => todo[p][1].inv \in lost'
    /\ IsSeq(then) /\ Prepared(then)
    /\ \A j \in ToSet(then) : j.do \in {"attach", "clusterStatus", "version"} /\ JobOk(j)

LEMMA DropKeeps ==
    ASSUME CaseInv, NumberInv, NEW p \in Processes, NEW then, Drops(p, then)
    PROVE  CaseInv'
<1>1. RowsInv /\ JobsInv /\ AloneInv /\ SingleInv /\ FactInv /\ TrailInv /\ WindowInv /\ AcceptInv
  BY DEF CaseInv
<1>2. PICK job : job = todo[p][1]
  OBVIOUS
<1>3. /\ 1 \in DOMAIN todo[p] /\ todo[p] # <<>> /\ lost \subseteq lost' /\ IsSeq(then) /\ Prepared(then)
      /\ UNCHANGED <<inv, evidence, timeline, links, clusters, hypotheses, reports>>
      /\ job.do \in {"attach", "widen", "event"} => job.inv \in lost'
      /\ \A j \in ToSet(then) : j.do \in {"attach", "clusterStatus", "version"} /\ JobOk(j)
  BY <1>1, <1>2, HeadFacts DEF Drops
<1>4. RowsInv' /\ Grows
  BY <1>1, <1>3, SameRows, SameGrows
<1>5. Moves(p, then)
  BY <1>1, <1>3, ContinueMoves DEF Drops
<1>6. \A j \in ToSet(then) : \A i : Quiet(j, i)
  BY <1>3 DEF Quiet
<1>7. JobsInv'
  <2>1. \A j \in ToSet(then) : JobOk(j)'
    BY <1>1, <1>3, <1>4, JobStays
  <2> QED
    BY <1>1, <1>4, <1>5, <2>1, JobsKept
<1>8. AloneInv' /\ SingleInv'
  BY <1>1, <1>3, <1>5, <1>6, AloneKept, SingleQuiet
<1>9. \A i : At(i)' = At(i) /\ (\A e : Known(i, e)' = Known(i, e)) /\ \A x : Holds(i, x)' = Holds(i, x)
  BY <1>3 DEF At, Known, Holds
<1>10. ASSUME NEW i \in DOMAIN inv PROVE Even(i) \/ (i \in lost' /\ Fewer(i))
  <2>1. CASE Quiet(job, i)
    BY <1>1, <1>2, <1>3, <1>5, <1>6, <2>1, EvenStep
  <2>2. CASE ~Quiet(job, i)
    <3>1. job.do = "event" /\ job.inv = i /\ i \in lost'
      BY <1>3, <2>2 DEF Quiet
    <3>2. ASSUME NEW E, Counted(E) PROVE Total(i, E)' \in Nat /\ Total(i, E)' <= Total(i, E)
      <4>1. /\ IsFiniteSet(Owing(i, E)) /\ Cardinality(Owing(i, E)) \in Nat
            /\ Cardinality(Recorded(i, E)) \in Nat
        BY <1>1, CountFinite
      <4>2. Recorded(i, E)' = Recorded(i, E)
        BY <1>3 DEF Recorded
      <4>3. \A j \in ToSet(then) : ~Owed(j, i, E)
        BY <1>6, <3>2, QuietOwes
      <4>4. CASE Owed(job, i, E)
        <5>1. p \in Owing(i, E) /\ Owing(i, E)' = Owing(i, E) \ {p}
          BY <1>1, <1>2, <1>3, <1>5, <3>2, <4>3, <4>4, OwingLess
        <5>2. Cardinality(Owing(i, E)') = Cardinality(Owing(i, E)) - 1 /\ Cardinality(Owing(i, E)') \in Nat
          BY <4>1, <5>1, FS_RemoveElement, FS_CardinalityType
        <5> QED
          BY <4>1, <4>2, <5>2 DEF Total
      <4>5. CASE ~Owed(job, i, E)
        <5>1. Owing(i, E)' = Owing(i, E)
          BY <1>1, <1>2, <1>3, <1>5, <4>3, <4>5, OwingSame
        <5> QED
          BY <4>1, <4>2, <5>1 DEF Total
      <4> QED
        BY <4>4, <4>5
    <3> QED
      BY <3>1, <3>2 DEF Fewer
  <2> QED
    BY <2>1, <2>2
<1>11. ASSUME NEW i \in DOMAIN inv, i \notin lost' PROVE Even(i)
  BY <1>10, <1>11
<1>12. FactInv'
  BY <1>1, <1>3, <1>9, <1>10, FactsKept
<1>13. TrailInv'
  BY <1>1, <1>3, <1>11, TrailKept
<1>14. WindowInv'
  <2>1. ASSUME NEW i, i \notin lost', NEW t, Widening(i, t) PROVE Widening(i, t)'
    BY <1>2, <1>3, <1>5, <2>1, WideningStays
  <2> QED
    BY <1>1, <1>3, <1>9, <2>1, WindowKept
<1>15. AcceptInv'
  <2>1. ASSUME NEW n \in DOMAIN then, NEW j \in {then[n]} PROVE AcceptOk(then, j, n)'
    BY <1>3 DEF Prepared, AcceptOk
  <2>2. \A i, x : Attaches(job, i, x) => i \in lost'
    BY <1>3 DEF Attaches
  <2> QED
    BY <1>1, <1>2, <1>3, <1>5, <1>9, <2>1, <2>2, AcceptKept
<1> QED
  BY <1>4, <1>7, <1>8, <1>12, <1>13, <1>14, <1>15 DEF CaseInv

LEMMA ListItemsKeeps ==
    ASSUME CaseInv, NumberInv, NEW p \in Processes, ListClusterItems(p), UNCHANGED reportVars
    PROVE  CaseInv'
<1>1. RowsInv /\ JobsInv
  BY DEF CaseInv
<1>2. PICK job : job = Head(todo[p])
  OBVIOUS
<1>3. PICK then : then = AfterItems(job.inv, job.cluster, clusters[job.cluster].items, job.by)
  OBVIOUS
<1>4. /\ todo[p] # <<>> /\ job.do = "items" /\ Continue(p, then)
      /\ UNCHANGED <<inv, evidence, timeline, links, clusters, hypotheses, reports, lost>>
  BY <1>2, <1>3 DEF ListClusterItems, Ready, Continue, reportVars, stored
<1>5. ItemsOk(job) /\ job = todo[p][1]
  BY <1>1, <1>2, <1>4, HeadFacts DEF JobOk
<1>6. clusters[job.cluster].items \in Seq(IdsOf(FindingTable))
  BY <1>1, <1>5 DEF ItemsOk, RowsInv
<1>7. /\ IsSeq(then) /\ Prepared(then)
      /\ \A j \in ToSet(then) : j.do \in {"attach", "clusterStatus"} /\ JobOk(j)
  BY <1>3, <1>5, <1>6, ItemsPrepared DEF ItemsOk
<1>8. Drops(p, then)
  BY <1>4, <1>5, <1>7 DEF Drops, Continue
<1> QED
  BY <1>8, DropKeeps

LEMMA FailKeeps ==
    ASSUME CaseInv, NumberInv, NEW p \in Processes, StatementFails(p), UNCHANGED reportVars
    PROVE  CaseInv'
<1>1. RowsInv /\ JobsInv
  BY DEF CaseInv
<1>2. PICK job : job = Head(todo[p])
  OBVIOUS
<1>3. PICK then : then = OnFailure(job)
  OBVIOUS
<1>4. /\ todo[p] # <<>> /\ lost' = lost \cup Touched(job)
      /\ todo' = [todo EXCEPT ![p] = then \o Tail(@)]
      /\ UNCHANGED <<inv, evidence, timeline, links, clusters, hypotheses, reports>>
  BY <1>2, <1>3 DEF StatementFails, reportVars, stored
<1>5. JobOk(job) /\ job = todo[p][1]
  BY <1>1, <1>2, <1>4, HeadFacts
<1>6. job.do \in {"attach", "widen", "event"} => job.inv \in lost'
  BY <1>4, <1>5 DEF JobOk, Touched
<1>7. /\ IsSeq(then) /\ Prepared(then)
      /\ \A j \in ToSet(then) : j.do \in {"attach", "clusterStatus", "version"} /\ JobOk(j)
  <2>1. CASE "otherwise" \notin DOMAIN job
    <3>1. then = <<>>
      BY <1>3, <2>1 DEF OnFailure
    <3> QED
      BY <3>1, Empty DEF Prepared, ToSet
  <2>2. CASE "otherwise" \in DOMAIN job /\ job.do = "items"
    <3>1. then = AfterItems(job.inv, job.cluster, <<>>, job.by) /\ job.inv \in DOMAIN inv /\ job.by # NoOne
      BY <1>3, <1>5, <2>2 DEF OnFailure, JobOk, ItemsOk
    <3>2. <<>> \in Seq(IdsOf(FindingTable))
      BY Empty
    <3>3. /\ IsSeq(then) /\ Prepared(then)
          /\ \A j \in ToSet(then) : j.do \in {"attach", "clusterStatus"} /\ JobOk(j)
      BY <3>1, <3>2, ItemsPrepared
    <3> QED
      BY <3>3
  <2>3. CASE "otherwise" \in DOMAIN job /\ job.do = "listEvidence"
    <3>1. then = VersionJob("investigation", job.subject, job.by, InvestigationRefs(job.subject, <<>>))
      BY <1>3, <1>5, <2>3 DEF OnFailure, JobOk, ListOk
    <3>2. PICK j : then = <<j>> /\ j.do = "version" /\ "otherwise" \notin DOMAIN j
      BY <3>1 DEF VersionJob
    <3>3. JobOk(j)
      BY <3>2 DEF JobOk
    <3>4. PICK s : s = <<j>>
      OBVIOUS
    <3>5. IsSeq(s) /\ DOMAIN s = 1..1 /\ s[1] = j
      BY <3>4, Single, SeqFacts
    <3>6. ToSet(s) = {j}
      BY <3>5 DEF ToSet
    <3>7. Prepared(s)
      BY <3>2, <3>5 DEF Prepared
    <3> QED
      BY <3>2, <3>3, <3>4, <3>5, <3>6, <3>7
  <2> QED
    BY <1>5, <2>1, <2>2, <2>3 DEF JobOk
<1>8. Drops(p, then)
  BY <1>4, <1>5, <1>6, <1>7 DEF Drops
<1> QED
  BY <1>8, DropKeeps

(* A command that is killed takes all its statements with it.              *)
LEMMA KilledKeeps ==
    ASSUME CaseInv, NumberInv, NEW p \in Processes, Killed(p), UNCHANGED reportVars
    PROVE  CaseInv'
<1>1. RowsInv /\ JobsInv /\ AloneInv /\ SingleInv /\ FactInv /\ TrailInv /\ WindowInv /\ AcceptInv
  BY DEF CaseInv
<1>2. /\ UNCHANGED <<inv, evidence, timeline, links, clusters, hypotheses, reports>>
      /\ lost' = lost \cup UNION {Touched(todo[p][n]) : n \in DOMAIN todo[p]}
      /\ todo' = [todo EXCEPT ![p] = <<>>] /\ DOMAIN todo = Processes
  BY <1>1 DEF Killed, reportVars, stored, JobsInv
<1>3. /\ todo' = [q \in Processes |-> todo'[q]] /\ todo'[p] = <<>> /\ DOMAIN todo'[p] = {}
      /\ \A q \in Processes \ {p} : todo'[q] = todo[q]
  BY <1>2, Empty
<1>4. RowsInv' /\ Grows
  BY <1>1, <1>2, SameRows, SameGrows
<1>5. ASSUME NEW n \in DOMAIN todo[p], todo[p][n].do \in {"attach", "widen", "event"}
      PROVE  todo[p][n].inv \in lost'
  <2>1. PICK j : j = todo[p][n]
    OBVIOUS
  <2>2. JobOk(j)
    BY <1>1, <2>1 DEF JobsInv, ToSet
  <2>3. j.inv \in Touched(j)
    BY <1>5, <2>1, <2>2 DEF JobOk, Touched
  <2> QED
    BY <1>2, <2>1, <2>3
<1>6. JobsInv'
  <2>1. ASSUME NEW q \in Processes PROVE IsSeq(todo'[q])
    BY <1>1, <1>3, Empty DEF JobsInv
  <2>2. ASSUME NEW q \in Processes, NEW j \in ToSet(todo[q])' PROVE JobOk(j)'
    <3>1. PICK n \in DOMAIN todo'[q] : j = todo'[q][n]
      BY DEF ToSet
    <3>2. q # p /\ JobOk(j)
      BY <1>1, <1>3, <3>1 DEF JobsInv, ToSet
    <3> QED
      BY <1>1, <1>4, <3>2, JobStays
  <2>3. \A q \in Processes : IsSeq(todo[q])'
    BY <2>1 DEF IsSeq, ToSet
  <2> QED
    BY <1>3, <2>2, <2>3 DEF JobsInv
<1>7. AloneInv' /\ SingleInv'
  <2>1. \A q \in Processes : q # p \/ DOMAIN todo'[q] = {}
    BY <1>3
  <2>2. AloneInv'
    BY <1>1, <1>3, <2>1 DEF AloneInv
  <2>3. SingleInv'
    <3> SUFFICES ASSUME NEW q \in Processes, NEW m \in DOMAIN todo'[q], NEW n \in DOMAIN todo'[q], NEW i, NEW E,
                        Counted(E), Owed(todo'[q][m], i, E), Owed(todo'[q][n], i, E)
                 PROVE  m = n
      BY DEF SingleInv, Owed, Counted
    <3> QED
      BY <1>1, <1>3, <2>1 DEF SingleInv
  <2> QED
    BY <2>2, <2>3
<1>8. \A i : At(i)' = At(i) /\ (\A e : Known(i, e)' = Known(i, e)) /\ \A x : Holds(i, x)' = Holds(i, x)
  BY <1>2 DEF At, Known, Holds
<1>9. ASSUME NEW i, NEW E PROVE Owing(i, E)' = Owing(i, E) \ {p}
  <2>1. \A q \in Processes \ {p} : q \in Owing(i, E)' <=> q \in Owing(i, E)
    BY <1>3 DEF Owing
  <2>2. p \notin Owing(i, E)'
    BY <1>3 DEF Owing
  <2>3. Owing(i, E)' \subseteq Processes /\ Owing(i, E) \subseteq Processes
    BY DEF Owing
  <2> QED
    BY <2>1, <2>2, <2>3
<1>10. ASSUME NEW i \in DOMAIN inv, NEW E
       PROVE  /\ Total(i, E)' \in Nat /\ Total(i, E)' <= Total(i, E)
              /\ p \notin Owing(i, E) => Total(i, E)' = Total(i, E)
  <2>1. /\ IsFiniteSet(Owing(i, E)) /\ Cardinality(Owing(i, E)) \in Nat
        /\ Cardinality(Recorded(i, E)) \in Nat
    BY <1>1, CountFinite
  <2>2. Recorded(i, E)' = Recorded(i, E)
    BY <1>2 DEF Recorded
  <2>3. CASE p \in Owing(i, E)
    <3>1. Cardinality(Owing(i, E)') = Cardinality(Owing(i, E)) - 1 /\ Cardinality(Owing(i, E)') \in Nat
      BY <1>9, <2>1, <2>3, FS_RemoveElement, FS_CardinalityType
    <3> QED
      BY <2>1, <2>2, <2>3, <3>1 DEF Total
  <2>4. CASE p \notin Owing(i, E)
    <3>1. Owing(i, E)' = Owing(i, E)
      BY <1>9, <2>4
    <3> QED
      BY <2>1, <2>2, <3>1 DEF Total
  <2> QED
    BY <2>3, <2>4
<1>11. ASSUME NEW i, NEW E, p \in Owing(i, E) PROVE i \in lost'
  <2>1. PICK n \in DOMAIN todo[p] : Owed(todo[p][n], i, E)
    BY <1>11 DEF Owing
  <2> QED
    BY <1>5, <2>1 DEF Owed
<1>12. ASSUME NEW i \in DOMAIN inv PROVE Even(i) \/ (i \in lost' /\ Fewer(i))
  <2>1. CASE i \in lost'
    BY <1>10, <2>1 DEF Fewer
  <2>2. CASE i \notin lost'
    BY <1>10, <1>11, <2>2 DEF Even
  <2> QED
    BY <2>1, <2>2
<1>13. FactInv' /\ TrailInv'
  <2>1. \A i \in DOMAIN inv : i \notin lost' => Even(i)
    BY <1>12
  <2> QED
    BY <1>1, <1>2, <1>8, <1>12, <2>1, FactsKept, TrailKept
<1>14. WindowInv'
  <2>1. ASSUME NEW i, i \notin lost', NEW t, Widening(i, t) PROVE Widening(i, t)'
    <3>1. PICK q \in Processes : \E n \in DOMAIN todo[q] :
             todo[q][n].do = "widen" /\ todo[q][n].inv = i /\ todo[q][n].observed = t
      BY <2>1 DEF Widening
    <3>2. q # p
      BY <1>5, <2>1, <3>1
    <3> QED
      BY <1>3, <3>1, <3>2 DEF Widening
  <2> QED
    BY <1>1, <1>2, <1>8, <2>1, WindowKept
<1>15. AcceptInv'
  <2> SUFFICES ASSUME NEW q \in Processes, NEW n \in DOMAIN todo'[q], NEW j, j = todo'[q][n],
                      j.do = "clusterStatus", j.inv \notin lost', NEW x \in ToSet(j.items)
               PROVE  Holds(j.inv, x)' \/ \E m \in 1..(n - 1) : Attaches(todo'[q][m], j.inv, x)
    BY DEF AcceptInv
  <2>1. q # p /\ todo'[q] = todo[q] /\ j.inv \notin lost
    BY <1>2, <1>3
  <2> QED
    BY <1>1, <1>8, <2>1 DEF AcceptInv
<1> QED
  BY <1>4, <1>6, <1>7, <1>13, <1>14, <1>15 DEF CaseInv

-----------------------------------------------------------------------------
(* A new investigation: nothing is attached to it, and nothing was owed.   *)

ItemsOf(i, c, by) == [do |-> "items", inv |-> i, cluster |-> c, by |-> by, otherwise |-> AfterItems(i, c, <<>>, by)]
Opens(j, i) ==
    \/ EventJob(j, i, <<"investigation_created", i>>)
    \/ \E c \in DOMAIN clusters : \E by : by # NoOne /\ j = ItemsOf(i, c, by)
    \/ \E id : AttachJob(j, i, id)

LEMMA OpensFits ==
    ASSUME NEW i \in DOMAIN inv', clusters' = clusters, NEW j, Opens(j, i)
    PROVE  JobOk(j)' /\ j.do \in {"event", "items", "attach"} /\ \A n : Quiet(j, n)
<1>1. CASE EventJob(j, i, <<"investigation_created", i>>)
  <2>1. PICK e : e = <<"investigation_created", i>>
    OBVIOUS
  <2>2. e[1] = "investigation_created"
    BY <2>1
  <2>3. j.do = "event" /\ j.inv = i /\ j.event = e /\ "otherwise" \notin DOMAIN j /\ "inv" \in DOMAIN j
    BY <1>1, <2>1 DEF EventJob
  <2>4. Plain(e[1])
    BY <2>2 DEF Plain, FactTypes
  <2>5. EventOk(j)'
    BY <2>2, <2>3, <2>4 DEF EventOk, Plain
  <2> QED
    BY <2>3, <2>4, <2>5 DEF JobOk, Quiet
<1>2. ASSUME NEW c \in DOMAIN clusters, NEW by, by # NoOne, j = ItemsOf(i, c, by)
      PROVE  JobOk(j)' /\ j.do \in {"event", "items", "attach"} /\ \A n : Quiet(j, n)
  <2>1. /\ j.do = "items" /\ j.inv = i /\ j.cluster = c /\ j.by = by /\ "inv" \in DOMAIN j
        /\ j.otherwise = AfterItems(i, c, <<>>, by)
    BY <1>2 DEF ItemsOf
  <2>2. ItemsOk(j)'
    BY <1>2, <2>1 DEF ItemsOk
  <2> QED
    BY <2>1, <2>2 DEF JobOk, Quiet
<1>3. ASSUME NEW id, AttachJob(j, i, id)
      PROVE  JobOk(j)' /\ j.do \in {"event", "items", "attach"} /\ \A n : Quiet(j, n)
  BY <1>3 DEF AttachJob, JobOk, AttachOk, Quiet
<1> QED
  BY <1>1, <1>2, <1>3 DEF Opens

LEMMA OpensAll ==
    ASSUME NEW job, CreateOk(job), job.row.by # NoOne, NEW i, NEW then,
           then = RecordEvent(i, "investigation_created", i)
                     \o (IF job.cluster # 0 THEN ItemsJob(i, job.cluster, job.row.by) ELSE <<>>)
                     \o (IF job.finding # NoOne THEN AttachFinding(i, job.finding, "related", job.row.by) ELSE <<>>)
                     \o (IF job.asset # NoOne THEN AttachEvidence(i, "asset", job.asset, job.row.by) ELSE <<>>)
    PROVE  IsSeq(then) /\ \A j \in ToSet(then) : Opens(j, i)
<1>1. PICK a, b, c, d : /\ a = RecordEvent(i, "investigation_created", i)
                        /\ b = (IF job.cluster # 0 THEN ItemsJob(i, job.cluster, job.row.by) ELSE <<>>)
                        /\ c = (IF job.finding # NoOne THEN AttachFinding(i, job.finding, "related", job.row.by) ELSE <<>>)
                        /\ d = (IF job.asset # NoOne THEN AttachEvidence(i, "asset", job.asset, job.row.by) ELSE <<>>)
  OBVIOUS
<1>2. then = ((a \o b) \o c) \o d
  BY <1>1
<1>3. IsSeq(<<>>) /\ ToSet(<<>>) = {}
  BY Empty DEF ToSet
<1>4. IsSeq(a) /\ \A j \in ToSet(a) : Opens(j, i)
  BY <1>1, Records DEF Opens
<1>5. IsSeq(b) /\ \A j \in ToSet(b) : Opens(j, i)
  <2>1. CASE job.cluster # 0
    <3>1. PICK x : x = ItemsOf(i, job.cluster, job.row.by)
      OBVIOUS
    <3>2. b = <<x>>
      BY <1>1, <2>1, <3>1 DEF ItemsJob, ItemsOf
    <3>3. IsSeq(<<x>>) /\ DOMAIN <<x>> = 1..1 /\ <<x>>[1] = x
      BY Single, SeqFacts
    <3>4. ToSet(<<x>>) = {x}
      BY <3>3 DEF ToSet
    <3>5. Opens(x, i)
      BY <2>1, <3>1 DEF Opens, CreateOk
    <3> QED
      BY <3>2, <3>3, <3>4, <3>5
  <2>2. CASE job.cluster = 0
    BY <1>1, <1>3, <2>2
  <2> QED
    BY <2>1, <2>2
<1>6. IsSeq(c) /\ \A j \in ToSet(c) : Opens(j, i)
  <2>1. CASE job.finding # NoOne
    <3>1. job.finding \in IdsOf(FindingTable)
      BY <2>1 DEF CreateOk
    <3>2. Attachment(c, i, job.finding)
      BY <1>1, <2>1, <3>1, AttachesFinding
    <3> QED
      BY <3>2 DEF Attachment, Opens
  <2>2. CASE job.finding = NoOne
    BY <1>1, <1>3, <2>2
  <2> QED
    BY <2>1, <2>2
<1>7. IsSeq(d) /\ \A j \in ToSet(d) : Opens(j, i)
  <2>1. CASE job.asset # NoOne
    <3>1. job.asset \in IdsOf(AssetTable)
      BY <2>1 DEF CreateOk
    <3>2. Attachment(d, i, job.asset)
      BY <1>1, <2>1, <3>1, AttachesEvidence
    <3> QED
      BY <3>2 DEF Attachment, Opens
  <2>2. CASE job.asset = NoOne
    BY <1>1, <1>3, <2>2
  <2> QED
    BY <2>1, <2>2
<1>8. IsSeq(a \o b) /\ ToSet(a \o b) = ToSet(a) \cup ToSet(b)
  BY <1>4, <1>5, JoinedSet
<1>9. PICK ab : ab = a \o b
  OBVIOUS
<1>10. IsSeq(ab \o c) /\ ToSet(ab \o c) = ToSet(a) \cup ToSet(b) \cup ToSet(c)
  BY <1>6, <1>8, <1>9, JoinedSet
<1>11. PICK abc : abc = ab \o c
  OBVIOUS
<1>12. IsSeq(abc \o d) /\ ToSet(abc \o d) = ToSet(a) \cup ToSet(b) \cup ToSet(c) \cup ToSet(d)
  BY <1>7, <1>10, <1>11, JoinedSet
<1> QED
  BY <1>2, <1>4, <1>5, <1>6, <1>7, <1>9, <1>11, <1>12

LEMMA NoEvents ==
    BagOk(EmptyBag) /\ Copies(EmptyBag) = {}
<1>1. EmptyBag = [e \in {} |-> EmptyBag[e]]
  BY DEF EmptyBag, SetToBag
<1>2. DOMAIN EmptyBag = {}
  BY <1>1
<1>3. Copies(EmptyBag) = {}
  BY <1>2 DEF Copies
<1> QED
  BY <1>1, <1>2, <1>3, FS_EmptySet DEF BagOk

LEMMA CreateKeeps ==
    ASSUME CaseInv, NumberInv, NEW p \in Processes, InsertInvestigation(p), UNCHANGED reportVars,
           Head(todo[p]).row.by # NoOne
    PROVE  CaseInv'
<1>1. RowsInv /\ JobsInv /\ AloneInv /\ SingleInv /\ FactInv /\ TrailInv /\ WindowInv /\ AcceptInv
  BY DEF CaseInv
<1>2. PICK job, i : job = Head(todo[p]) /\ i = Len(inv) + 1
  OBVIOUS
<1>3. PICK then :
         then = RecordEvent(i, "investigation_created", i)
                   \o (IF job.cluster # 0 THEN ItemsJob(i, job.cluster, job.row.by) ELSE <<>>)
                   \o (IF job.finding # NoOne THEN AttachFinding(i, job.finding, "related", job.row.by) ELSE <<>>)
                   \o (IF job.asset # NoOne THEN AttachEvidence(i, "asset", job.asset, job.row.by) ELSE <<>>)
  OBVIOUS
<1>4. /\ todo[p] # <<>> /\ job.do = "create" /\ Continue(p, then) /\ job.row.by # NoOne
      /\ inv' = Append(inv, job.row) /\ evidence' = Append(evidence, <<>>)
      /\ timeline' = Append(timeline, EmptyBag) /\ links' = Append(links, <<>>)
      /\ UNCHANGED <<clusters, hypotheses, lost, reports>>
  BY <1>2, <1>3 DEF InsertInvestigation, Ready, Continue, reportVars
<1>5. job = todo[p][1] /\ 1 \in DOMAIN todo[p] /\ CreateOk(job)
  BY <1>1, <1>2, <1>4, HeadFacts DEF JobOk
<1>6. PICK N \in Nat : N = Len(inv) /\ i = N + 1
  BY <1>1, <1>2, SeqFacts DEF RowsInv
<1>7. /\ DOMAIN inv = 1..N /\ DOMAIN evidence = 1..N /\ DOMAIN timeline = 1..N /\ DOMAIN links = 1..N
      /\ i \notin 1..N
  BY <1>1, <1>6, SeqFacts DEF RowsInv
<1>8. /\ IsSeq(inv') /\ Len(inv') = i /\ inv'[i] = job.row /\ (\A n \in 1..N : inv'[n] = inv[n])
      /\ DOMAIN inv' = 1..N \cup {i}
  BY <1>1, <1>4, <1>6, <1>7, Appended DEF RowsInv
<1>9. /\ IsSeq(evidence') /\ Len(evidence') = i /\ evidence'[i] = <<>> /\ (\A n \in 1..N : evidence'[n] = evidence[n])
      /\ DOMAIN evidence' = 1..N \cup {i}
  BY <1>1, <1>4, <1>6, <1>7, Appended DEF RowsInv
<1>10. /\ IsSeq(timeline') /\ Len(timeline') = i /\ timeline'[i] = EmptyBag /\ (\A n \in 1..N : timeline'[n] = timeline[n])
       /\ DOMAIN timeline' = 1..N \cup {i}
  BY <1>1, <1>4, <1>6, <1>7, Appended DEF RowsInv
<1>11. /\ IsSeq(links') /\ Len(links') = i /\ links'[i] = <<>> /\ (\A n \in 1..N : links'[n] = links[n])
       /\ DOMAIN links' = 1..N \cup {i}
  BY <1>1, <1>4, <1>6, <1>7, Appended DEF RowsInv
<1>12. RowsInv'
  <2>1. ASSUME NEW n \in DOMAIN inv'
        PROVE  RowOk(inv'[n]) /\ IsSeq(evidence'[n]) /\ (\A m \in DOMAIN evidence'[n] : RefOk(evidence'[n][m]))
               /\ BagOk(timeline'[n])
    <3>1. CASE n = i
      BY <1>5, <1>8, <1>9, <1>10, <3>1, Empty, NoEvents DEF CreateOk
    <3>2. CASE n \in 1..N
      BY <1>1, <1>7, <1>8, <1>9, <1>10, <3>2 DEF RowsInv
    <3> QED
      BY <1>8, <3>1, <3>2
  <2>2. \A h \in DOMAIN hypotheses : hypotheses[h].inv \in DOMAIN inv'
    BY <1>1, <1>7, <1>8 DEF RowsInv
  <2>3. /\ IsSeq(clusters') /\ IsSeq(hypotheses')
        /\ \A c \in DOMAIN clusters' : /\ clusters'[c] = [f \in {"status", "items", "inv"} |-> clusters'[c][f]]
                                       /\ clusters'[c].items \in Seq(IdsOf(FindingTable))
        /\ \A h \in DOMAIN hypotheses' : "inv" \in DOMAIN hypotheses'[h] /\ hypotheses'[h].inv \in DOMAIN inv'
    BY <1>1, <1>4, <2>2 DEF RowsInv
  <2>4. Len(evidence') = Len(inv') /\ Len(timeline') = Len(inv') /\ Len(links') = Len(inv')
    BY <1>8, <1>9, <1>10, <1>11
  <2> QED
    BY <1>8, <1>9, <1>10, <1>11, <2>1, <2>3, <2>4 DEF RowsInv
<1>13. ASSUME NEW n \in 1..N
       PROVE  At(n)' = At(n) /\ (\A e : Known(n, e)' = Known(n, e)) /\ (\A x : Holds(n, x)' = Holds(n, x))
  BY <1>7, <1>9, <1>11 DEF At, Known, Holds
<1>14. \A m, x : Holds(m, x) => Holds(m, x)'
  BY <1>7, <1>13 DEF Holds
<1>15. At(i)' = {} /\ \A e : ~Known(i, e)'
  <2>1. DOMAIN evidence'[i] = {} /\ DOMAIN links'[i] = {}
    BY <1>9, <1>11, Empty
  <2> QED
    BY <2>1 DEF At, Known
<1>16. Grows
  <2>1. \A n \in DOMAIN inv : inv[n].version \in Nat
    BY <1>1 DEF RowsInv, RowOk
  <2> QED
    BY <1>1, <1>4, <1>7, <1>8, <1>13, <1>14, <2>1, CountsStay DEF Grows
<1>17. IsSeq(then) /\ \A j \in ToSet(then) : Opens(j, i)
  BY <1>3, <1>4, <1>5, OpensAll
<1>18. \A j \in ToSet(then) : JobOk(j)' /\ j.do \in {"event", "items", "attach"} /\ \A n : Quiet(j, n)
  BY <1>4, <1>8, <1>17, OpensFits
<1>19. Moves(p, then)
  BY <1>1, <1>4, <1>17, ContinueMoves DEF Continue
<1>20. JobsInv' /\ AloneInv' /\ SingleInv'
  BY <1>1, <1>12, <1>16, <1>18, <1>19, JobsKept, AloneKept, SingleQuiet
<1>21. \A n \in 1..N : Even(n)
  BY <1>1, <1>4, <1>5, <1>10, <1>18, <1>19, EvenStep DEF Quiet
<1>22. ASSUME NEW E, Counted(E) PROVE Total(i, E)' = 0
  <2>1. Recorded(i, E)' = {}
    BY <1>10, NoEvents DEF Recorded
  <2>2. Owing(i, E) = {}
    <3> SUFFICES ASSUME NEW q \in Processes, NEW n \in DOMAIN todo[q], Owed(todo[q][n], i, E) PROVE FALSE
      BY DEF Owing
    <3>1. PICK j : j = todo[q][n] /\ JobOk(j)
      BY <1>1 DEF JobsInv, ToSet
    <3>2. j.inv = i /\ j.inv \in DOMAIN inv
      BY <3>1 DEF Owed, JobOk, EventOk
    <3> QED
      BY <1>7, <3>2
  <2>3. Owing(i, E)' = {}
    <3>1. 1 \in DOMAIN todo[p] => ~Owed(todo[p][1], i, E)
      BY <1>4, <1>5 DEF Owed
    <3>2. \A j \in ToSet(then) : ~Owed(j, i, E)
      BY <1>18, <1>22, QuietOwes
    <3> QED
      BY <1>1, <1>19, <2>2, <3>1, <3>2, OwingSame
  <2> QED
    BY <2>1, <2>3, FS_EmptySet DEF Total
<1>23. FactInv'
  <2> SUFFICES ASSUME NEW n \in DOMAIN inv', NEW e, Fact(e)
               PROVE  /\ Total(n, {e})' <= 1
                      /\ Total(n, {e})' = 1 => Known(n, e)'
                      /\ n \notin lost /\ e[1] \in {"finding_attached", "evidence_attached"} /\ Known(n, e)'
                           => Total(n, {e})' = 1
    BY <1>4 DEF FactInv
  <2>1. Counted({e})
    BY CountedSets DEF Fact
  <2>2. CASE n = i
    <3>1. Total(n, {e})' = 0 /\ ~Known(n, e)'
      BY <1>15, <1>22, <2>1, <2>2
    <3> QED
      BY <3>1
  <2>3. CASE n \in 1..N
    <3>1. Total(n, {e})' = Total(n, {e}) /\ Known(n, e)' = Known(n, e)
      BY <1>13, <1>21, <2>1, <2>3 DEF Even
    <3> QED
      BY <1>1, <1>7, <2>3, <3>1 DEF FactInv
  <2> QED
    BY <1>8, <2>2, <2>3
<1>24. TrailInv'
  <2> SUFFICES ASSUME NEW n \in DOMAIN inv', n \notin lost
               PROVE  /\ \A s \in Statuses : Total(n, Entering(s))' + One(s = "new")
                                             = Total(n, Leaving(s))' + One(inv'[n].status = s)
                      /\ Total(n, Reopening(n))' = Total(n, ClosedToOpen)'
    BY <1>4 DEF TrailInv
  <2>1. CASE n = i
    <3>1. \A s \in Statuses : Total(n, Entering(s))' = 0 /\ Total(n, Leaving(s))' = 0
      BY <1>22, <2>1, CountedSets
    <3>2. Total(n, Reopening(n))' = 0 /\ Total(n, ClosedToOpen)' = 0
      BY <1>22, <2>1, CountedSets
    <3>3. inv'[n].status = "new"
      BY <1>5, <1>8, <2>1 DEF CreateOk
    <3>4. \A s \in Statuses : One(s = "new") = One("new" = s)
      BY DEF One
    <3> QED
      BY <3>1, <3>2, <3>3, <3>4
  <2>2. CASE n \in 1..N
    <3>1. Even(n) /\ inv'[n].status = inv[n].status /\ n \in DOMAIN inv
      BY <1>7, <1>8, <1>21, <2>2
    <3>2. ASSUME NEW s \in Statuses
          PROVE  Total(n, Entering(s))' = Total(n, Entering(s)) /\ Total(n, Leaving(s))' = Total(n, Leaving(s))
      BY <3>1, CountedSets DEF Even
    <3>3. Total(n, Reopening(n))' = Total(n, Reopening(n)) /\ Total(n, ClosedToOpen)' = Total(n, ClosedToOpen)
      BY <3>1, CountedSets DEF Even
    <3> QED
      BY <1>1, <3>1, <3>2, <3>3 DEF TrailInv
  <2> QED
    BY <1>8, <2>1, <2>2
<1>25. WindowInv'
  <2> SUFFICES ASSUME NEW n \in DOMAIN inv'
               PROVE  /\ inv'[n].first \in At(n)' \cup {0} /\ inv'[n].last \in At(n)' \cup {0}
                      /\ n \notin lost => \A t \in At(n)' :
                            \/ inv'[n].first # 0 /\ inv'[n].first <= t /\ t <= inv'[n].last
                            \/ Widening(n, t)'
    BY <1>4 DEF WindowInv
  <2>1. CASE n = i
    BY <1>5, <1>8, <1>15, <2>1 DEF CreateOk
  <2>2. CASE n \in 1..N
    <3>1. ASSUME NEW t, Widening(n, t) PROVE Widening(n, t)'
      BY <1>4, <1>5, <1>19, <3>1, WideningStays
    <3>2. inv'[n] = inv[n] /\ At(n)' = At(n) /\ n \in DOMAIN inv
      BY <1>7, <1>8, <1>13, <2>2
    <3> QED
      BY <1>1, <3>1, <3>2 DEF WindowInv
  <2> QED
    BY <1>8, <2>1, <2>2
<1>26. AcceptInv'
  <2>1. ASSUME NEW n \in DOMAIN then, NEW j \in {then[n]} PROVE AcceptOk(then, j, n)'
    <3>1. j \in ToSet(then)
      BY DEF ToSet
    <3> QED
      BY <1>18, <3>1 DEF AcceptOk
  <2> QED
    BY <1>1, <1>4, <1>5, <1>14, <1>19, <2>1, AcceptKept DEF Attaches
<1> QED
  BY <1>12, <1>20, <1>23, <1>24, <1>25, <1>26 DEF CaseInv

(* The table refuses an investigation that nobody created.                 *)
LEMMA RefusedCalm ==
    ASSUME RowsInv, JobsInv, AloneInv, NumberInv, NEW p \in Processes, InsertInvestigation(p), UNCHANGED reportVars,
           Head(todo[p]).row.by = NoOne
    PROVE  \E then : Calm(p, then)
<1>1. /\ UNCHANGED <<inv, evidence, timeline, links, clusters, hypotheses, lost, reports>>
      /\ todo[p] # <<>> /\ Head(todo[p]).do = "create" /\ Continue(p, <<>>)
  BY DEF InsertInvestigation, Ready, Continue, reportVars, stored
<1>2. RowsInv' /\ Grows
  BY <1>1, SameRows, SameGrows
<1> QED
  BY <1>1, <1>2, ContinueNothing

-----------------------------------------------------------------------------
(* Every step keeps the invariant.                                         *)

LEMMA CommandKeeps ==
    ASSUME CaseInv, NumberInv, NEW p \in Processes, Idle(p), CaseCommand(p), UNCHANGED reportVars
    PROVE  CaseInv'
<1>1. RowsInv /\ JobsInv
  BY DEF CaseInv
<1>2. \E then : Calm(p, then)
  <2>1. CASE Create(p)
    BY <1>1, <2>1, CreateCalm
  <2>2. CASE Attach(p)
    BY <1>1, <2>2, AttachCalm
  <2>3. CASE Close(p) \/ Reopen(p) \/ Edit(p)
    BY <1>1, <2>3, ChangeCalm
  <2>4. CASE AddNote(p) \/ ApproveNote(p) \/ CreateHypothesis(p) \/ UpdateHypothesisStatus(p)
             \/ AddHypothesisEvidence(p) \/ Reject(p)
    BY <1>1, <2>4, NoteCalm
  <2>5. CASE Correlate(p)
    BY <1>1, <2>5, CorrelateCalm
  <2>6. CASE Suggest(p)
    BY <1>1, <2>6, SuggestCalm
  <2>7. CASE Accept(p)
    BY <1>1, <2>7, AcceptCalm
  <2> QED
    BY <2>1, <2>2, <2>3, <2>4, <2>5, <2>6, <2>7 DEF CaseCommand
<1> QED
  BY <1>2, CalmKeeps

LEMMA StatementKeeps ==
    ASSUME CaseInv, NumberInv, NEW p \in Processes, CaseStatement(p), UNCHANGED reportVars
    PROVE  CaseInv'
<1>1. RowsInv /\ JobsInv /\ AloneInv
  BY DEF CaseInv
<1>2. CASE InsertInvestigation(p)
  BY <1>1, <1>2, CreateKeeps, RefusedCalm, CalmKeeps
<1>3. CASE InsertEvidence(p)
  BY <1>3, DuplicateKeeps, AttachKeeps
<1>4. CASE UpdateFirstLastObserved(p)
  BY <1>4, WidenKeeps
<1>5. CASE AppendEvent(p)
  BY <1>5, AppendKeeps
<1>6. CASE ReadCurrent(p)
  BY <1>1, <1>6, ReadCurrentCalm, CalmKeeps
<1>7. CASE UpdateInvestigation(p)
  BY <1>1, <1>7, UpdateKeeps, StaleUpdateCalm, CalmKeeps
<1>8. CASE InsertNote(p) \/ SetNoteApproved(p)
  BY <1>1, <1>8, NotesCalm, CalmKeeps
<1>9. CASE InsertHypothesis(p) \/ SetHypothesisStatus(p) \/ InsertHypothesisEvidence(p)
  BY <1>1, <1>9, HypothesesCalm, CalmKeeps
<1>10. CASE UpsertRelationship(p)
  BY <1>10, UpsertKeeps
<1>11. CASE InsertCluster(p) \/ AddClusterItem(p) \/ UpdateClusterStatus(p)
  BY <1>1, <1>11, ClustersCalm, CalmKeeps
<1>12. CASE ListClusterItems(p)
  BY <1>12, ListItemsKeeps
<1>13. CASE StatementFails(p)
  BY <1>13, FailKeeps
<1>14. CASE Killed(p)
  BY <1>14, KilledKeeps
<1> QED
  BY <1>2, <1>3, <1>4, <1>5, <1>6, <1>7, <1>8, <1>9, <1>10, <1>11, <1>12, <1>13, <1>14 DEF CaseStatement

LEMMA NumbersKept ==
    ASSUME NumberInv, UNCHANGED reportVars
    PROVE  NumberInv'
BY DEF NumberInv, reportVars

LEMMA CaseStart ==
    ASSUME Init
    PROVE  CaseInv
<1>1. PICK by : inv = <<NewInvestigation(by, "medium", "")>>
  BY DEF Init, CaseInit
<1>2. PICK row, bag : row = NewInvestigation(by, "medium", "") /\ bag = SetToBag({<<"investigation_created", 1>>})
  OBVIOUS
<1>3. /\ inv = <<row>> /\ evidence = << <<>> >> /\ timeline = <<bag>> /\ links = << <<>> >>
      /\ hypotheses = <<>> /\ clusters = <<>> /\ todo = [p \in Processes |-> <<>>] /\ lost = {}
  BY <1>1, <1>2 DEF Init, CaseInit
<1>4. RowOk(row) /\ row.status = "new" /\ row.first = 0 /\ row.last = 0
  <2>1. NewRowOk(NewInvestigation(by, "medium", ""), by)
    BY NewRow
  <2>2. NewRowOk(row, by)
    BY <1>2, <2>1
  <2> QED
    BY <2>2 DEF NewRowOk
<1>5. PICK e : e = <<"investigation_created", 1>>
  OBVIOUS
<1>6. e[1] = "investigation_created"
  BY <1>5
<1>7. BagOk(bag) /\ Copies(bag) = {<<e, 1>>}
  <2>1. bag = [x \in {e} |-> 1]
    BY <1>2, <1>5 DEF SetToBag
  <2>2. DOMAIN bag = {e} /\ bag[e] = 1 /\ bag = [x \in {e} |-> bag[x]]
    BY <2>1
  <2>3. Copies(bag) = {<<e, 1>>}
    BY <2>2 DEF Copies
  <2>4. IsFiniteSet(Copies(bag))
    BY <2>3, FS_Singleton
  <2> QED
    BY <1>6, <2>2, <2>3, <2>4 DEF BagOk
<1>8. DOMAIN inv = 1..1 /\ inv[1] = row /\ IsSeq(inv) /\ Len(inv) = 1
  BY <1>3, Single, SeqFacts
<1>9. PICK none : none = <<>> /\ IsSeq(none) /\ DOMAIN none = {}
  BY Empty
<1>10. evidence = <<none>> /\ links = <<none>>
  BY <1>3, <1>9
<1>11. DOMAIN evidence = 1..1 /\ evidence[1] = none /\ IsSeq(evidence) /\ Len(evidence) = 1
  BY <1>10, Single, SeqFacts
<1>12. DOMAIN links = 1..1 /\ links[1] = none /\ IsSeq(links) /\ Len(links) = 1
  BY <1>10, Single, SeqFacts
<1>13. DOMAIN timeline = 1..1 /\ timeline[1] = bag /\ IsSeq(timeline) /\ Len(timeline) = 1
  BY <1>3, Single, SeqFacts
<1>14. RowsInv
  BY <1>3, <1>4, <1>7, <1>8, <1>9, <1>11, <1>12, <1>13, Empty DEF RowsInv
<1>15. \A p \in Processes : todo[p] = none /\ DOMAIN todo[p] = {} /\ IsSeq(todo[p]) /\ ToSet(todo[p]) = {}
  BY <1>3, <1>9 DEF ToSet
<1>16. JobsInv /\ AloneInv /\ SingleInv /\ AcceptInv
  <2>1. JobsInv
    BY <1>3, <1>15 DEF JobsInv
  <2>2. AloneInv /\ AcceptInv
    BY <1>15 DEF AloneInv, AcceptInv
  <2>3. SingleInv
    BY <1>15 DEF SingleInv
  <2> QED
    BY <2>1, <2>2, <2>3
<1>17. At(1) = {} /\ \A f : ~Known(1, f)
  BY <1>9, <1>11, <1>12 DEF At, Known
<1>18. ASSUME NEW E, Counted(E) PROVE Total(1, E) = 0
  <2>1. Owing(1, E) = {}
    BY <1>15 DEF Owing
  <2>2. e \notin E
    BY <1>6, <1>18, CountedTypes DEF FactTypes
  <2>3. Recorded(1, E) = {}
    BY <1>7, <1>13, <2>2 DEF Recorded
  <2> QED
    BY <2>1, <2>3, FS_EmptySet DEF Total
<1>19. FactInv
  <2> SUFFICES ASSUME NEW f, Fact(f)
               PROVE  /\ Total(1, {f}) <= 1 /\ (Total(1, {f}) = 1 => Known(1, f)) /\ ~Known(1, f)
    BY <1>8 DEF FactInv
  <2>1. Total(1, {f}) = 0
    BY <1>18, CountedSets DEF Fact
  <2> QED
    BY <1>17, <2>1
<1>20. TrailInv
  <2>1. \A s \in Statuses : Total(1, Entering(s)) = 0 /\ Total(1, Leaving(s)) = 0
    BY <1>18, CountedSets
  <2>2. Total(1, Reopening(1)) = 0 /\ Total(1, ClosedToOpen) = 0
    BY <1>18, CountedSets
  <2>3. \A s \in Statuses : One(s = "new") = One(inv[1].status = s)
    BY <1>4, <1>8 DEF One
  <2>4. \A i \in DOMAIN inv : i = 1
    BY <1>8
  <2> SUFFICES /\ \A s \in Statuses : Total(1, Entering(s)) + One(s = "new")
                                      = Total(1, Leaving(s)) + One(inv[1].status = s)
               /\ Total(1, Reopening(1)) = Total(1, ClosedToOpen)
    BY <2>4 DEF TrailInv
  <2> QED
    BY <2>1, <2>2, <2>3
<1>21. WindowInv
  BY <1>4, <1>8, <1>17 DEF WindowInv
<1> QED
  BY <1>14, <1>16, <1>19, <1>20, <1>21 DEF CaseInv

LEMMA NumberStart ==
    ASSUME Init
    PROVE  NumberInv
<1>1. reports = <<>> /\ DOMAIN reports = {} /\ IsSeq(reports)
  BY Empty DEF Init
<1> QED
  BY <1>1 DEF NumberInv, Numbered

(* The inductive invariant holds throughout: the rows and the statements   *)
(* under way fit each other, and every event, change of status, widening   *)
(* and cluster item is accounted for by what is stored or still to come    *)
(* (internal/service/investigation and reporting, any interleaving, loss   *)
(* or kill).                                                               *)
THEOREM CaseworkInvariant ==
    Spec => [](CaseInv /\ NumberInv)
<1>1. Init => CaseInv /\ NumberInv
  BY CaseStart, NumberStart
<1>2. CaseInv /\ NumberInv /\ [Next]_vars => CaseInv' /\ NumberInv'
  <2> SUFFICES ASSUME CaseInv, NumberInv, [Next]_vars PROVE CaseInv' /\ NumberInv'
    OBVIOUS
  <2>1. RowsInv /\ JobsInv /\ AloneInv
    BY DEF CaseInv
  <2>2. CASE UNCHANGED vars
    <3>1. UNCHANGED <<inv, evidence, timeline, links, clusters, hypotheses, todo, lost, reports>>
      BY <2>2 DEF vars, caseVars, reportVars
    <3>2. NumberInv'
      BY <3>1 DEF NumberInv
    <3>3. RowsInv' /\ Grows
      BY <2>1, <3>1, SameRows, SameGrows
    <3>4. JobsInv'
      <4>1. \A j : JobOk(j) => JobOk(j)'
        BY <2>1, <3>3, JobStays
      <4> QED
        BY <2>1, <3>1, <4>1 DEF JobsInv
    <3>5. \A i : At(i)' = At(i) /\ (\A e : Known(i, e)' = Known(i, e)) /\ \A x : Holds(i, x)' = Holds(i, x)
      BY <3>1 DEF At, Known, Holds
    <3>6. \A i, E : Total(i, E)' = Total(i, E)
      BY <3>1 DEF Total, Recorded, Owing
    <3>7. \A i, t : Widening(i, t)' = Widening(i, t)
      BY <3>1 DEF Widening
    <3>8. AloneInv' /\ SingleInv'
      BY <3>1 DEF CaseInv, AloneInv, SingleInv, Counted, Owed
    <3>9. FactInv'
      BY <3>1, <3>5, <3>6 DEF CaseInv, FactInv
    <3>10. TrailInv'
      BY <3>1, <3>6 DEF CaseInv, TrailInv
    <3>11. WindowInv'
      BY <3>1, <3>5, <3>7 DEF CaseInv, WindowInv
    <3>12. AcceptInv'
      BY <3>1, <3>5 DEF CaseInv, AcceptInv
    <3> QED
      BY <3>2, <3>3, <3>4, <3>8, <3>9, <3>10, <3>11, <3>12 DEF CaseInv
  <2>3. ASSUME NEW p \in Processes, Idle(p), ReportCommand(p) PROVE CaseInv' /\ NumberInv'
    <3>1. UNCHANGED reportVars
      BY <2>3 DEF ReportCommand, Generate, Approve, MarkReviewed, CreateEvidencePackage, RecordControlEvidence,
                  ReportBegin
    <3> QED
      BY <2>1, <2>3, <3>1, ReportCalm, CalmKeeps, NumbersKept
  <2>4. ASSUME NEW p \in Processes, Idle(p), CaseCommand(p), UNCHANGED reportVars PROVE CaseInv' /\ NumberInv'
    BY <2>4, CommandKeeps, NumbersKept
  <2>5. ASSUME NEW p \in Processes, ReportStatement(p) PROVE CaseInv' /\ NumberInv'
    BY <2>1, <2>5, ReadReportsCalm, WriteReportsCalm, PackagesCalm, CalmKeeps DEF ReportStatement
  <2>6. ASSUME NEW p \in Processes, CaseStatement(p), UNCHANGED reportVars PROVE CaseInv' /\ NumberInv'
    BY <2>6, StatementKeeps, NumbersKept
  <2> QED
    BY <2>2, <2>3, <2>4, <2>5, <2>6 DEF Next
<1> QED
  BY <1>1, <1>2, PTL DEF Spec

-----------------------------------------------------------------------------
(* What the rows say once nothing more is under way for an investigation.  *)

LEMMA SettledOwesNothing ==
    ASSUME CaseInv, NEW i \in DOMAIN inv, Settled(i)
    PROVE  /\ i \notin lost
           /\ \A E : Owing(i, E) = {} /\ Total(i, E) = Cardinality(Recorded(i, E))
           /\ \A t : ~Widening(i, t)
<1>1. ASSUME NEW p \in Processes, NEW n \in DOMAIN todo[p], todo[p][n].do \in {"widen", "event"}
      PROVE  todo[p][n].inv # i
  <2>1. JobOk(todo[p][n])
    BY SeqFacts DEF CaseInv, JobsInv
  <2>2. "inv" \in DOMAIN todo[p][n]
    BY <1>1, <2>1 DEF JobOk
  <2> QED
    BY <2>2 DEF Settled, Touched
<1>2. \A t : ~Widening(i, t)
  BY <1>1 DEF Widening
<1>3. \A E : Owing(i, E) = {}
  BY <1>1 DEF Owing, Owed
<1>4. ASSUME NEW E PROVE Total(i, E) = Cardinality(Recorded(i, E))
  <2>1. Cardinality(Recorded(i, E)) \in Nat
    BY CountFinite DEF CaseInv
  <2> QED
    BY <1>3, <2>1, FS_EmptySet DEF Total
<1> QED
  BY <1>2, <1>3, <1>4 DEF Settled

(* The copies of one event are as many as the bag says.                    *)
LEMMA TimesRecorded ==
    ASSUME RowsInv, NEW i \in DOMAIN inv, NEW e
    PROVE  Times(i, e) = Cardinality(Recorded(i, {e}))
<1>1. PICK b : b = timeline[i] /\ BagOk(b)
  BY DEF RowsInv
<1>2. CASE e \notin DOMAIN b
  <2>1. Recorded(i, {e}) = {}
    BY <1>1, <1>2 DEF Recorded, Copies
  <2> QED
    BY <1>1, <1>2, <2>1, FS_EmptySet DEF Times
<1>3. CASE e \in DOMAIN b
  <2>1. PICK k \in Nat : k = b[e]
    BY <1>1, <1>3 DEF BagOk
  <2>2. PICK R : R = Recorded(i, {e})
    OBVIOUS
  <2>3. R = {<<e, n>> : n \in 1..k}
    <3>1. ASSUME NEW c \in R PROVE c \in {<<e, n>> : n \in 1..k}
      <4>1. c \in Copies(b) /\ c[1] = e
        BY <1>1, <2>2 DEF Recorded
      <4>2. PICK x, n : x \in DOMAIN b /\ n \in 1..b[x] /\ c = <<x, n>>
        BY <4>1 DEF Copies
      <4> QED
        BY <2>1, <4>1, <4>2
    <3>2. ASSUME NEW n \in 1..k PROVE <<e, n>> \in R
      BY <1>1, <1>3, <2>1, <2>2 DEF Recorded, Copies
    <3> QED
      BY <3>1, <3>2
  <2> DEFINE g == [n \in 1..k |-> <<e, n>>]
  <2>4. g \in [1..k -> R] /\ \A n \in 1..k : g[n][2] = n
    BY <2>3
  <2>5. \A c \in R : \E n \in 1..k : g[n] = c
    BY <2>3
  <2> HIDE DEF g
  <2>6. g \in Bijection(1..k, R)
    <3>1. \A m, n \in 1..k : g[m] = g[n] => m = n
      BY <2>4
    <3> QED
      BY <2>4, <2>5, <3>1 DEF Bijection, Injection, Surjection, IsInjective
  <2>7. ExistsBijection(1..k, R)
    BY <2>6 DEF ExistsBijection
  <2>8. IsFiniteSet(1..k) /\ Cardinality(1..k) = k
    <3>1. 1 \in Int /\ k \in Int
      OBVIOUS
    <3>2. IsFiniteSet(1..k) /\ Cardinality(1..k) = IF 1 > k THEN 0 ELSE k - 1 + 1
      BY <3>1, FS_Interval
    <3> QED
      BY <3>2
  <2>9. Cardinality(R) = k
    BY <2>7, <2>8, FS_Bijection
  <2> QED
    BY <1>1, <1>3, <2>1, <2>2, <2>9 DEF Times
<1> QED
  BY <1>2, <1>3

LEMMA TrailFollows ==
    ASSUME CaseInv
    PROVE  StatusTrailBalanced
<1> SUFFICES ASSUME NEW i \in DOMAIN inv, Settled(i), NEW s \in Statuses
             PROVE  LET Changes    == {e \in DOMAIN timeline[i] : e[1] = "status_changed"}
                        Count(es)  == Cardinality(UNION {{<<e, n>> : n \in 1..timeline[i][e]} : e \in es})
                        Entered    == Count({e \in Changes : e[2][2] = s})
                        Left       == Count({e \in Changes : e[2][1] = s})
                        If(b)      == IF b THEN 1 ELSE 0
                    IN Entered - Left = If(inv[i].status = s) - If(s = "new")
  BY DEF StatusTrailBalanced
<1>1. PICK b : b = timeline[i] /\ BagOk(b)
  BY DEF CaseInv, RowsInv
<1> DEFINE Into == UNION {{<<e, n>> : n \in 1..b[e]} :
                           e \in {x \in {e \in DOMAIN b : e[1] = "status_changed"} : x[2][2] = s}}
           From == UNION {{<<e, n>> : n \in 1..b[e]} :
                           e \in {x \in {e \in DOMAIN b : e[1] = "status_changed"} : x[2][1] = s}}
<1>2. ASSUME NEW e \in DOMAIN b, e[1] = "status_changed"
      PROVE  (e \in Entering(s) <=> e[2][2] = s) /\ (e \in Leaving(s) <=> e[2][1] = s)
  <2>1. PICK u \in Statuses, t \in Statuses : e = <<"status_changed", <<u, t>>>>
    BY <1>1, <1>2 DEF BagOk, StatusEvents
  <2> QED
    BY <2>1 DEF Entering, Leaving
<1>3. \A e \in Entering(s) \cup Leaving(s) : e[1] = "status_changed"
  BY DEF Entering, Leaving
<1>4. Into = Recorded(i, Entering(s))
  <2>1. ASSUME NEW c \in Into PROVE c \in Recorded(i, Entering(s))
    BY <1>1, <1>2, <2>1 DEF Recorded, Copies
  <2>2. ASSUME NEW c \in Recorded(i, Entering(s)) PROVE c \in Into
    <3>1. PICK e, n : e \in DOMAIN b /\ n \in 1..b[e] /\ c = <<e, n>>
      BY <1>1, <2>2 DEF Recorded, Copies
    <3>2. e \in Entering(s)
      BY <2>2, <3>1 DEF Recorded
    <3>3. e[1] = "status_changed" /\ e[2][2] = s
      BY <1>2, <1>3, <3>1, <3>2
    <3> QED
      BY <3>1, <3>3
  <2> QED
    BY <2>1, <2>2
<1>5. From = Recorded(i, Leaving(s))
  <2>1. ASSUME NEW c \in From PROVE c \in Recorded(i, Leaving(s))
    BY <1>1, <1>2, <2>1 DEF Recorded, Copies
  <2>2. ASSUME NEW c \in Recorded(i, Leaving(s)) PROVE c \in From
    <3>1. PICK e, n : e \in DOMAIN b /\ n \in 1..b[e] /\ c = <<e, n>>
      BY <1>1, <2>2 DEF Recorded, Copies
    <3>2. e \in Leaving(s)
      BY <2>2, <3>1 DEF Recorded
    <3>3. e[1] = "status_changed" /\ e[2][1] = s
      BY <1>2, <1>3, <3>1, <3>2
    <3> QED
      BY <3>1, <3>3
  <2> QED
    BY <2>1, <2>2
<1>6. PICK x, y : x = Cardinality(Recorded(i, Entering(s))) /\ y = Cardinality(Recorded(i, Leaving(s)))
  OBVIOUS
<1>7. x \in Nat /\ y \in Nat
  BY <1>6, CountFinite DEF CaseInv
<1>8. x + One(s = "new") = y + One(inv[i].status = s)
  BY <1>6, SettledOwesNothing DEF CaseInv, TrailInv
<1>9. x - y = (IF inv[i].status = s THEN 1 ELSE 0) - (IF s = "new" THEN 1 ELSE 0)
  BY <1>7, <1>8 DEF One
<1>10. Cardinality(Into) = x /\ Cardinality(From) = y
  BY <1>4, <1>5, <1>6
<1> QED
  BY <1>1, <1>9, <1>10

LEMMA FactsFollow ==
    ASSUME CaseInv
    PROVE  OneEventPerFact
<1> SUFFICES ASSUME NEW i \in DOMAIN inv
             PROVE  /\ \A f \in IdsOf(FindingTable) :
                          Times(i, <<"finding_attached", f>>) <= 1 /\ Times(i, <<"finding_created", f>>) <= 1
                    /\ \A k \in DOMAIN links[i] : Times(i, <<"relationship_created", k>>) <= 1
                    /\ Settled(i) => \A n \in DOMAIN evidence[i] :
                          LET e == evidence[i][n]
                          IN Times(i, <<IF e.type = "finding" THEN "finding_attached" ELSE "evidence_attached", e.id>>) = 1
  BY DEF OneEventPerFact
<1>1. RowsInv /\ FactInv
  BY DEF CaseInv
<1>2. ASSUME NEW type \in FactTypes, NEW x
      PROVE  Times(i, <<type, x>>) \in Nat /\ Times(i, <<type, x>>) <= 1
  <2>1. PICK e : e = <<type, x>>
    OBVIOUS
  <2>2. Fact(e)
    BY <2>1 DEF Fact
  <2>3. Total(i, {e}) <= 1
    BY <1>1, <2>2 DEF FactInv
  <2>4. /\ Cardinality(Recorded(i, {e})) \in Nat /\ Cardinality(Owing(i, {e})) \in Nat
        /\ Times(i, e) = Cardinality(Recorded(i, {e}))
    BY <1>1, CountFinite, TimesRecorded
  <2>5. Times(i, e) \in Nat /\ Times(i, e) <= 1
    BY <2>3, <2>4 DEF Total
  <2> QED
    BY <2>1, <2>5
<1>3. ASSUME NEW n \in DOMAIN evidence[i], Settled(i),
             NEW type, type = IF evidence[i][n].type = "finding" THEN "finding_attached" ELSE "evidence_attached"
      PROVE  Times(i, <<type, evidence[i][n].id>>) = 1
  <2>1. PICK e : e = <<type, evidence[i][n].id>>
    OBVIOUS
  <2>2. Fact(e) /\ e[1] \in {"finding_attached", "evidence_attached"}
    BY <1>3, <2>1 DEF Fact, FactTypes
  <2>3. Known(i, e)
    BY <1>3, <2>1 DEF Known
  <2>4. i \notin lost /\ Total(i, {e}) = Cardinality(Recorded(i, {e}))
    BY <1>3, SettledOwesNothing
  <2>5. Total(i, {e}) = 1
    BY <1>1, <2>2, <2>3, <2>4 DEF FactInv
  <2>6. Times(i, e) = 1
    BY <1>1, <2>4, <2>5, TimesRecorded
  <2> QED
    BY <2>1, <2>6
<1> QED
  BY <1>2, <1>3 DEF FactTypes

LEMMA ReopensFollow ==
    ASSUME CaseInv
    PROVE  ReopensAreReal
<1> SUFFICES ASSUME NEW i \in DOMAIN inv, Settled(i)
             PROVE  Times(i, <<"investigation_reopened", i>>) = Times(i, <<"status_changed", <<"closed", "open">>>>)
  BY DEF ReopensAreReal
<1>1. Total(i, Reopening(i)) = Total(i, ClosedToOpen)
  BY SettledOwesNothing DEF CaseInv, TrailInv
<1>2. Cardinality(Recorded(i, Reopening(i))) = Cardinality(Recorded(i, ClosedToOpen))
  BY <1>1, SettledOwesNothing
<1>3. \A e : Times(i, e) = Cardinality(Recorded(i, {e}))
  BY TimesRecorded DEF CaseInv
<1> QED
  BY <1>2, <1>3 DEF Reopening, ClosedToOpen

LEMMA WindowFollows ==
    ASSUME CaseInv
    PROVE  WindowCoversEvidence
<1> SUFFICES ASSUME NEW i \in DOMAIN inv, Settled(i)
             PROVE  LET Seen(e) == {e.observed} \cup (IF e.type = "finding" THEN {ById(FindingTable, e.id).last} ELSE {})
                        at == (UNION {Seen(evidence[i][n]) : n \in DOMAIN evidence[i]}) \ {0}
                    IN IF at = {} THEN inv[i].first = 0 /\ inv[i].last = 0
                       ELSE /\ inv[i].first \in at /\ \A t \in at : inv[i].first <= t
                            /\ inv[i].last \in at /\ \A t \in at : t <= inv[i].last
  BY DEF WindowCoversEvidence
<1> DEFINE Seen(e) == {e.observed} \cup (IF e.type = "finding" THEN {ById(FindingTable, e.id).last} ELSE {})
           at == (UNION {Seen(evidence[i][n]) : n \in DOMAIN evidence[i]}) \ {0}
<1>1. at = At(i)
  <2>1. \A e : ObservedBy(e) = Seen(e) \ {0}
    BY DEF ObservedBy
  <2>2. At(i) = UNION {Seen(evidence[i][n]) \ {0} : n \in DOMAIN evidence[i]}
    BY <2>1 DEF At
  <2> HIDE DEF Seen
  <2> QED
    BY <2>2
<1>2. At(i) \subseteq Nat \ {0} /\ inv[i].first \in Nat /\ inv[i].last \in Nat
  BY AtNat DEF CaseInv, RowsInv, RowOk
<1>3. inv[i].first \in At(i) \cup {0} /\ inv[i].last \in At(i) \cup {0}
  BY DEF CaseInv, WindowInv
<1>4. \A t \in At(i) : inv[i].first # 0 /\ inv[i].first <= t /\ t <= inv[i].last
  BY SettledOwesNothing DEF CaseInv, WindowInv
<1>5. IF At(i) = {} THEN inv[i].first = 0 /\ inv[i].last = 0
      ELSE /\ inv[i].first \in At(i) /\ \A t \in At(i) : inv[i].first <= t
           /\ inv[i].last \in At(i) /\ \A t \in At(i) : t <= inv[i].last
  BY <1>2, <1>3, <1>4
<1> QED
  BY <1>1, <1>5

LEMMA ItemsFollow ==
    ASSUME CaseInv
    PROVE  AcceptedHoldsItems
<1> SUFFICES ASSUME NEW p \in Processes, Ready(p, "clusterStatus"), NEW j, j = Head(todo[p]), j.inv \notin lost,
                    NEW n \in DOMAIN j.items
             PROVE  \E m \in DOMAIN evidence[j.inv] : evidence[j.inv][m].id = j.items[n]
  BY DEF AcceptedHoldsItems
<1>1. IsSeq(todo[p]) /\ todo[p] # <<>>
  BY DEF CaseInv, JobsInv, Ready
<1>2. 1 \in DOMAIN todo[p] /\ j = todo[p][1] /\ j.do = "clusterStatus"
  BY <1>1, Rest, SeqFacts DEF Ready
<1>3. j.items[n] \in ToSet(j.items)
  BY DEF ToSet
<1>4. Holds(j.inv, j.items[n]) \/ \E m \in 1..0 : Attaches(todo[p][m], j.inv, j.items[n])
  <2>1. \A x \in ToSet(j.items) : Holds(j.inv, x) \/ \E m \in 1..(1 - 1) : Attaches(todo[p][m], j.inv, x)
    BY <1>2 DEF CaseInv, AcceptInv
  <2> QED
    BY <1>3, <2>1
<1> QED
  BY <1>4 DEF Holds

(* The status changes on the timeline lead from new to the investigation's *)
(* status, however updates of it overlapped: the version check lets one of *)
(* those that read the same row record its change.                         *)
THEOREM TrailsBalance == Spec => []StatusTrailBalanced
<1>1. CaseInv /\ NumberInv => StatusTrailBalanced
  BY TrailFollows
<1> QED
  BY <1>1, CaseworkInvariant, PTL

(* Once its statements have run, an investigation's observed window is     *)
(* exactly that of the evidence attached to it: LEAST and GREATEST commute *)
(* and an update leaves both columns alone.                                *)
THEOREM WindowsCoverEvidence == Spec => []WindowCoversEvidence
<1>1. CaseInv /\ NumberInv => WindowCoversEvidence
  BY WindowFollows
<1> QED
  BY <1>1, CaseworkInvariant, PTL

(* However often and by how many analysts a thing is attached, its event   *)
(* is on the timeline once: ON CONFLICT DO NOTHING decides who records it. *)
THEOREM FactsRecordedOnce == Spec => []OneEventPerFact
<1>1. CaseInv /\ NumberInv => OneEventPerFact
  BY FactsFollow
<1> QED
  BY <1>1, CaseworkInvariant, PTL

(* A reopening is on the timeline for every change from closed to open and *)
(* for nothing else, though Reopen checks a row it reads before the one    *)
(* that is updated.                                                        *)
THEOREM ReopeningsReal == Spec => []ReopensAreReal
<1>1. CaseInv /\ NumberInv => ReopensAreReal
  BY ReopensFollow
<1> QED
  BY <1>1, CaseworkInvariant, PTL

(* When AcceptCluster comes to mark the cluster accepted, every item its   *)
(* listing returned is among the investigation's evidence, unless one of   *)
(* the statements before it was lost.                                      *)
THEOREM AcceptedClustersHeld == Spec => []AcceptedHoldsItems
<1>1. CaseInv /\ NumberInv => AcceptedHoldsItems
  BY ItemsFollow
<1> QED
  BY <1>1, CaseworkInvariant, PTL

(* The versions of the reports of one type and subject are 1, 2, 3...,     *)
(* without a gap and each once, whoever generates them at the same time.   *)
THEOREM VersionsWithoutGaps == Spec => []ReportsNumbered
<1>1. CaseInv /\ NumberInv => ReportsNumbered
  BY DEF NumberInv, Numbered, Before, ReportsNumbered
<1> QED
  BY <1>1, CaseworkInvariant, PTL
=============================================================================
