------------------------ MODULE AlertPipeline_proofs ------------------------
(* Theorems about RuleCatalog and AlertPipeline for every set of rules,    *)
(* authors, matches, evaluators and promoters.                             *)
EXTENDS AlertPipeline, FiniteSetTheorems, WellFoundedInduction, TLAPS

-----------------------------------------------------------------------------
(* Maxima of sets of numbers.                                              *)

(* A finite set of naturals has a greatest element: otherwise take one of  *)
(* the smallest sets that have none, and remove an element.                *)
LEMMA GreatestExists ==
    ASSUME NEW S \in SUBSET Nat, IsFiniteSet(S), S # {}
    PROVE  \E m \in S : \A x \in S : x <= m
<1> DEFINE Greatest(U) == \E m \in U : \A x \in U : x <= m
           Bad(n) == \E U \in SUBSET Nat :
                        IsFiniteSet(U) /\ U # {} /\ Cardinality(U) = n /\ ~Greatest(U)
           T == {n \in Nat : Bad(n)}
<1>1. SUFFICES ASSUME T # {} PROVE FALSE
  BY FS_CardinalityType
<1>2. T \subseteq Nat
  OBVIOUS
<1>3. PICK n \in T : \A k \in T : ~ (<<k, n>> \in OpToRel(<, Nat))
  BY <1>1, <1>2, NatLessThanWellFounded, WFMin
<1>4. \A k \in T : ~ (k < n)
  BY <1>2, <1>3 DEF OpToRel
<1>5. PICK U \in SUBSET Nat : IsFiniteSet(U) /\ U # {} /\ Cardinality(U) = n /\ ~Greatest(U)
  OBVIOUS
<1>6. PICK x \in U : TRUE
  BY <1>5
<1> DEFINE V == U \ {x}
<1>7. IsFiniteSet(V) /\ Cardinality(V) = n - 1 /\ Cardinality(V) \in Nat /\ V \in SUBSET Nat
  BY <1>5, FS_RemoveElement, FS_CardinalityType
<1>8. CASE V = {}
  <2>1. \A y \in U : y <= x
    BY <1>8
  <2> QED
    BY <1>5, <1>6, <2>1
<1>9. CASE V # {}
  <2>1. ~Bad(n - 1)
    BY <1>4, <1>7
  <2>2. PICK m \in V : \A y \in V : y <= m
    BY <1>7, <1>9, <2>1
  <2>3. \A y \in U : y <= (IF x <= m THEN m ELSE x)
    BY <1>6, <2>2
  <2> QED
    BY <1>5, <1>6, <2>2, <2>3
<1> QED
  BY <1>8, <1>9

(* Max(S) is that element.                                                 *)
LEMMA MaxIsGreatest ==
    ASSUME NEW S \in SUBSET Nat, NEW m \in S, \A x \in S : x <= m
    PROVE  Max(S) = m
<1>1. m \in S /\ \A y \in S : m >= y
  OBVIOUS
<1>2. Max(S) \in S /\ \A y \in S : Max(S) >= y
  BY <1>1, Zenon DEF Max
<1>3. m \in Nat /\ Max(S) \in Nat /\ Max(S) >= m /\ m >= Max(S)
  BY <1>1, <1>2
<1> QED
  BY <1>3

LEMMA MaxProperty ==
    ASSUME NEW S \in SUBSET Nat, IsFiniteSet(S), S # {}
    PROVE  Max(S) \in S /\ \A x \in S : x <= Max(S)
<1>1. PICK m \in S : \A x \in S : x <= m
  BY GreatestExists
<1> QED
  BY <1>1, MaxIsGreatest

LEMMA LaterIsGreater ==
    ASSUME NEW x \in Nat, NEW y \in Nat
    PROVE  Later(x, y) = IF x >= y THEN x ELSE y
BY DEF Later, Max

-----------------------------------------------------------------------------
(* The catalogue.                                                          *)

NumberNamesVersion ==
    \A v, w \in versions : v.rule = w.rule /\ v.number = w.number => v = w

(* The number an author has taken is at most one above those there are.    *)
NumberTaken ==
    \A a \in Author : author[a].pc = "insert" =>
        author[a].number \in 1..Cardinality(VersionsOf(author[a].rule)) + 1

AuthorKnowsRule ==
    \A a \in Author : author[a].pc # "idle" =>
        author[a].rule \in Rule /\ author[a].severity \in Severity

VersionsFinite == \A r \in Rule : IsFiniteSet(VersionsOf(r))

CatalogInv ==
    /\ CatalogTypeOK
    /\ VersionsNumbered
    /\ NumberNamesVersion
    /\ NumberTaken
    /\ AuthorKnowsRule
    /\ VersionsFinite

LEMMA CatalogInitInv == CatalogInit => CatalogInv
<1> SUFFICES ASSUME CatalogInit PROVE CatalogInv
  OBVIOUS
<1>1. CatalogTypeOK
  <2>1. versions \subseteq Version
    <3>1. versions \subseteq [rule: Rule, number: {1}, severity: Severity, enabled: {TRUE}]
      BY DEF CatalogInit
    <3>2. 1 \in 1..MaxVersion
      BY CatalogAssumption
    <3> QED
      BY <3>1, <3>2 DEF Version
  <2>2. author \in [Author -> AuthorState]
    <3>1. IdleAuthor \in AuthorState
      BY CatalogAssumption DEF AuthorState, IdleAuthor
    <3> QED
      BY <3>1 DEF CatalogInit
  <2> QED
    BY <2>1, <2>2, CatalogAssumption DEF CatalogInit, CatalogTypeOK
<1>2. NumberNamesVersion
  BY DEF CatalogInit, NumberNamesVersion
<1>3. NumberTaken /\ AuthorKnowsRule
  BY DEF CatalogInit, IdleAuthor, NumberTaken, AuthorKnowsRule
<1>4. ASSUME NEW r \in Rule
      PROVE  IsFiniteSet(VersionsOf(r)) /\ Numbers(r) = 1..Cardinality(VersionsOf(r))
  <2>1. CASE VersionsOf(r) = {}
    <3>1. Numbers(r) = {}
      BY <2>1 DEF Numbers
    <3> QED
      BY <2>1, <3>1, FS_EmptySet
  <2>2. CASE VersionsOf(r) # {}
    <3>1. PICK v : v \in VersionsOf(r)
      BY <2>2
    <3>2. VersionsOf(r) = {v}
      BY <3>1 DEF VersionsOf, CatalogInit
    <3>3. v.number = 1
      BY <3>1 DEF VersionsOf, CatalogInit
    <3>4. Numbers(r) = {1}
      BY <3>2, <3>3 DEF Numbers
    <3> QED
      BY <3>2, <3>4, FS_Singleton, 1..1 = {1}
  <2> QED
    BY <2>1, <2>2
<1> QED
  BY <1>1, <1>2, <1>3, <1>4 DEF CatalogInv, VersionsNumbered, VersionsFinite

LEMMA NextNumberValue ==
    ASSUME CatalogInv, NEW r \in Rule
    PROVE  /\ Cardinality(VersionsOf(r)) \in Nat
           /\ NextNumber(r) = Cardinality(VersionsOf(r)) + 1
<1> DEFINE n == Cardinality(VersionsOf(r))
<1>1. n \in Nat /\ Numbers(r) = 1..n
  BY FS_CardinalityType DEF CatalogInv, VersionsFinite, VersionsNumbered
<1>2. CASE n = 0
  BY <1>1, <1>2 DEF NextNumber
<1>3. CASE n # 0
  <2>1. Max(1..n) = n
    BY <1>1, <1>3, MaxIsGreatest
  <2> QED
    BY <1>1, <1>3, <2>1 DEF NextNumber
<1> QED
  BY <1>1, <1>2, <1>3

(* A step that leaves the versions alone preserves what is said of them.   *)
LEMMA SameVersions ==
    ASSUME CatalogInv, versions' = versions, CatalogTypeOK',
           AuthorKnowsRule', NumberTaken'
    PROVE  CatalogInv'
<1>1. \A r : VersionsOf(r)' = VersionsOf(r) /\ Numbers(r)' = Numbers(r)
  BY DEF VersionsOf, Numbers
<1> QED
  BY <1>1 DEF CatalogInv, VersionsNumbered, NumberNamesVersion, VersionsFinite

(* An author's step that inserts no version.                               *)
LEMMA AuthorMoves ==
    ASSUME CatalogInv, NEW a \in Author, NEW s \in AuthorState,
           author' = [author EXCEPT ![a] = s],
           s.pc # "idle" => s.rule \in Rule /\ s.severity \in Severity,
           s.pc = "insert" => s.number \in 1..Cardinality(VersionsOf(s.rule)) + 1,
           rules' \in [Rule -> RuleRow], UNCHANGED <<versions, edits>>
    PROVE  CatalogInv'
<1>1. CatalogTypeOK'
  BY DEF CatalogInv, CatalogTypeOK
<1>2. AuthorKnowsRule'
  BY DEF CatalogInv, CatalogTypeOK, AuthorKnowsRule
<1>3. NumberTaken'
  BY DEF CatalogInv, CatalogTypeOK, NumberTaken, VersionsOf
<1> QED
  BY <1>1, <1>2, <1>3, SameVersions

LEMMA InsertVersionInv ==
    ASSUME CatalogInv, NEW a \in Author, InsertVersion(a)
    PROVE  CatalogInv'
<1> DEFINE C(q) == Cardinality(VersionsOf(q))
<1>0. /\ author[a] \in AuthorState /\ author[a].rule \in Rule /\ author[a].severity \in Severity
      /\ author[a].number \in 1..C(author[a].rule) + 1 /\ author[a].number \in 1..MaxVersion
  BY DEF CatalogInv, CatalogTypeOK, AuthorState, AuthorKnowsRule, NumberTaken, InsertVersion
<1>1. PICK r \in Rule, n \in 1..MaxVersion, severity \in Severity :
         /\ r = author[a].rule /\ n = author[a].number /\ severity = author[a].severity
         /\ n \in 1..C(r) + 1
  BY <1>0
<1> DEFINE v == [rule |-> r, number |-> n, severity |-> severity, enabled |-> TRUE]
<1>2. v \in Version /\ v.rule = r /\ v.number = n
  BY <1>1 DEF Version
<1>3. versions' = versions \cup {v}
  BY <1>1 DEF InsertVersion, WithVersion
<1>4. n \notin Numbers(r)
  BY <1>1 DEF InsertVersion, Clash, Numbers
<1>5. \A q \in Rule : C(q) \in Nat /\ Numbers(q) = 1..C(q) /\ IsFiniteSet(VersionsOf(q))
  BY FS_CardinalityType DEF CatalogInv, VersionsFinite, VersionsNumbered
<1>6. n = C(r) + 1
  BY <1>1, <1>4, <1>5
<1>7. v \notin VersionsOf(r)
  BY <1>2, <1>4 DEF Numbers
<1>8. VersionsOf(r)' = VersionsOf(r) \cup {v}
  BY <1>2, <1>3 DEF VersionsOf
<1>9. \A q \in Rule : q # r => VersionsOf(q)' = VersionsOf(q)
  BY <1>2, <1>3 DEF VersionsOf
<1> HIDE DEF v
<1>10. /\ IsFiniteSet(VersionsOf(r)') /\ Cardinality(VersionsOf(r)') = C(r) + 1
       /\ Numbers(r)' = 1..C(r) + 1
  <2>1. Numbers(r)' = Numbers(r) \cup {n}
    BY <1>2, <1>8 DEF Numbers
  <2> QED
    BY <1>1, <1>5, <1>6, <1>7, <1>8, <2>1, FS_AddElement
<1>11. \A q \in Rule : q # r => Numbers(q)' = Numbers(q)
  BY <1>9 DEF Numbers
<1>12. VersionsNumbered' /\ VersionsFinite'
  BY <1>5, <1>9, <1>10, <1>11 DEF VersionsNumbered, VersionsFinite
<1>13. NumberNamesVersion'
  BY <1>2, <1>3, <1>4 DEF NumberNamesVersion, CatalogInv, Numbers, VersionsOf
<1>14. author' = [author EXCEPT ![a] = [author[a] EXCEPT !.pc = "sync"]]
  BY DEF InsertVersion
<1>15. [author[a] EXCEPT !.pc = "sync"] \in AuthorState
  BY <1>0 DEF AuthorState
<1>16. CatalogTypeOK'
  BY <1>2, <1>3, <1>14, <1>15 DEF CatalogInv, CatalogTypeOK, InsertVersion
<1>17. AuthorKnowsRule'
  BY <1>0, <1>14 DEF CatalogInv, CatalogTypeOK, AuthorState, AuthorKnowsRule
<1>18. NumberTaken'
  <2> SUFFICES ASSUME NEW b \in Author, author'[b].pc = "insert"
               PROVE  author'[b].number \in 1..Cardinality(VersionsOf(author[b].rule))' + 1
    BY DEF NumberTaken
  <2>1. b # a /\ author'[b] = author[b] /\ author[b].rule \in Rule
    BY <1>0, <1>14 DEF CatalogInv, CatalogTypeOK, AuthorState, AuthorKnowsRule
  <2>2. author[b].number \in 1..C(author[b].rule) + 1
    BY <2>1 DEF CatalogInv, NumberTaken
  <2>3. PICK q \in Rule : q = author[b].rule
    BY <2>1
  <2>4. Cardinality(VersionsOf(author[b].rule))' = Cardinality(VersionsOf(q))'
    BY <2>1, <2>3
  <2>5. CASE q = r
    BY <1>5, <1>10, <2>1, <2>2, <2>3, <2>4, <2>5
  <2>6. CASE q # r
    BY <1>9, <2>1, <2>2, <2>3, <2>4, <2>6
  <2> QED
    BY <2>5, <2>6
<1> QED
  BY <1>12, <1>13, <1>16, <1>17, <1>18 DEF CatalogInv

(* Toggling a version replaces its row by one with the same number.        *)
LEMMA SetVersionEnabledInv ==
    ASSUME CatalogInv, NEW v \in versions, NEW enabled \in BOOLEAN, SetVersionEnabled(v, enabled)
    PROVE  CatalogInv'
<1> DEFINE C(q) == Cardinality(VersionsOf(q))
<1>1. PICK w : w = [v EXCEPT !.enabled = enabled]
  OBVIOUS
<1>2. v \in Version /\ w \in Version /\ w.rule = v.rule /\ w.number = v.number
  BY <1>1 DEF CatalogInv, CatalogTypeOK, Version
<1>3. versions' = (versions \ {v}) \cup {w}
  BY <1>1 DEF SetVersionEnabled
<1>4. PICK r \in Rule : r = v.rule
  BY <1>2 DEF Version
<1>5. \A q \in Rule : C(q) \in Nat /\ Numbers(q) = 1..C(q) /\ IsFiniteSet(VersionsOf(q))
  BY FS_CardinalityType DEF CatalogInv, VersionsFinite, VersionsNumbered
<1>6. VersionsOf(r)' = (VersionsOf(r) \ {v}) \cup {w} /\ v \in VersionsOf(r)
  BY <1>2, <1>3, <1>4 DEF VersionsOf
<1>7. w \notin VersionsOf(r) \ {v}
  BY <1>2, <1>4 DEF VersionsOf, CatalogInv, NumberNamesVersion
<1>8. IsFiniteSet(VersionsOf(r)') /\ Cardinality(VersionsOf(r)') = C(r)
  <2> DEFINE S == VersionsOf(r) \ {v}
  <2>1. IsFiniteSet(S) /\ Cardinality(S) = C(r) - 1
    BY <1>5, <1>6, FS_RemoveElement
  <2>2. IsFiniteSet(S \cup {w}) /\ Cardinality(S \cup {w}) = Cardinality(S) + 1
    BY <1>7, <2>1, FS_AddElement
  <2> QED
    BY <1>5, <1>6, <2>1, <2>2
<1>9. Numbers(r)' = Numbers(r)
  <2>1. \A x : x \in Numbers(r)' <=> \E y \in VersionsOf(r)' : y.number = x
    BY DEF Numbers
  <2>2. \A x : x \in Numbers(r) <=> \E y \in VersionsOf(r) : y.number = x
    BY DEF Numbers
  <2> QED
    BY <1>2, <1>6, <2>1, <2>2 DEF Numbers
<1>10. \A q \in Rule : q # r => VersionsOf(q)' = VersionsOf(q) /\ Numbers(q)' = Numbers(q)
  BY <1>2, <1>3, <1>4 DEF VersionsOf, Numbers
<1>11. \A q \in Rule : Cardinality(VersionsOf(q))' = C(q) /\ IsFiniteSet(VersionsOf(q)')
                       /\ Numbers(q)' = Numbers(q)
  BY <1>5, <1>8, <1>9, <1>10
<1>12. VersionsNumbered' /\ VersionsFinite'
  BY <1>5, <1>11 DEF VersionsNumbered, VersionsFinite
<1>13. NumberNamesVersion'
  BY <1>2, <1>3 DEF NumberNamesVersion, CatalogInv
<1>14. CatalogTypeOK'
  BY <1>2, <1>3, CatalogAssumption DEF CatalogInv, CatalogTypeOK, SetVersionEnabled
<1>15. AuthorKnowsRule'
  BY DEF CatalogInv, AuthorKnowsRule, SetVersionEnabled
<1>16. NumberTaken'
  <2> SUFFICES ASSUME NEW a \in Author, author'[a].pc = "insert"
               PROVE  author'[a].number \in 1..Cardinality(VersionsOf(author[a].rule))' + 1
    BY DEF NumberTaken
  <2>1. author'[a] = author[a] /\ author[a].rule \in Rule
    BY DEF CatalogInv, AuthorKnowsRule, SetVersionEnabled
  <2>2. author[a].number \in 1..C(author[a].rule) + 1
    BY <2>1 DEF CatalogInv, NumberTaken
  <2>3. PICK q \in Rule : q = author[a].rule
    BY <2>1
  <2> QED
    BY <1>11, <2>1, <2>2, <2>3
<1> QED
  BY <1>12, <1>13, <1>14, <1>15, <1>16 DEF CatalogInv

LEMMA CatalogStepInv ==
    ASSUME CatalogInv, CatalogNext PROVE CatalogInv'
<1>1. ASSUME NEW a \in Author, NEW r \in Rule, NEW severity \in Severity,
             CreateRule(a, r, severity) \/ NewVersion(a, r, severity)
      PROVE  CatalogInv'
  <2> DEFINE s == [pc |-> "number", rule |-> r, number |-> 0, severity |-> severity]
  <2>1. s \in AuthorState
    BY CatalogAssumption DEF AuthorState
  <2>2. [status |-> "draft", severity |-> severity] \in RuleRow
    BY DEF RuleRow, RuleStatus
  <2>3. rules' \in [Rule -> RuleRow]
    BY <1>1, <2>2 DEF CreateRule, NewVersion, CatalogInv, CatalogTypeOK
  <2>4. author' = [author EXCEPT ![a] = s] /\ UNCHANGED <<versions, edits>>
    BY <1>1 DEF CreateRule, NewVersion
  <2> QED
    BY <2>1, <2>3, <2>4, AuthorMoves
<1>2. ASSUME NEW a \in Author, TakeNumber(a) PROVE CatalogInv'
  <2> DEFINE s == [author[a] EXCEPT !.pc = "insert", !.number = NextNumber(author[a].rule)]
  <2>1. author[a].rule \in Rule /\ author[a].severity \in Severity /\ author[a] \in AuthorState
    BY <1>2 DEF TakeNumber, CatalogInv, CatalogTypeOK, AuthorKnowsRule
  <2>2. NextNumber(author[a].rule) \in 1..MaxVersion
    BY <1>2, <2>1, NextNumberValue, CatalogAssumption DEF TakeNumber
  <2>3. /\ s \in AuthorState /\ s.rule = author[a].rule /\ s.severity = author[a].severity
        /\ s.number = NextNumber(author[a].rule)
    <3>1. NextNumber(author[a].rule) \in 0..MaxVersion
      BY <2>2, CatalogAssumption
    <3> QED
      BY <2>1, <3>1 DEF AuthorState
  <2>4. s.number \in 1..Cardinality(VersionsOf(s.rule)) + 1
    BY <2>1, <2>2, <2>3, NextNumberValue
  <2>5. author' = [author EXCEPT ![a] = s] /\ UNCHANGED <<rules, versions, edits>>
    BY <1>2 DEF TakeNumber
  <2>6. rules' \in [Rule -> RuleRow]
    BY <2>5 DEF CatalogInv, CatalogTypeOK
  <2> QED
    BY <2>1, <2>3, <2>4, <2>5, <2>6, AuthorMoves
<1>3. ASSUME NEW a \in Author, InsertVersion(a) PROVE CatalogInv'
  BY <1>3, InsertVersionInv
<1>4. ASSUME NEW a \in Author, InsertFails(a) \/ SyncSeverity(a) \/ AuthorCrash(a)
      PROVE  CatalogInv'
  <2>1. IdleAuthor \in AuthorState /\ IdleAuthor.pc = "idle"
    BY CatalogAssumption DEF AuthorState, IdleAuthor
  <2>2. author' = [author EXCEPT ![a] = IdleAuthor] /\ UNCHANGED <<versions, edits>>
    BY <1>4 DEF InsertFails, SyncSeverity, AuthorCrash
  <2>3. rules' \in [Rule -> RuleRow]
    <3>1. CASE SyncSeverity(a)
      BY <3>1 DEF SyncSeverity, CatalogInv, CatalogTypeOK, AuthorKnowsRule, RuleRow
    <3> QED
      BY <1>4, <3>1 DEF InsertFails, AuthorCrash, CatalogInv, CatalogTypeOK
  <2> QED
    BY <2>1, <2>2, <2>3, AuthorMoves
<1>5. ASSUME NEW r \in Rule, NEW status \in RuleStatus, UpdateRuleStatus(r, status)
      PROVE  CatalogInv'
  <2>1. rules' \in [Rule -> RuleRow]
    BY <1>5 DEF UpdateRuleStatus, CatalogInv, CatalogTypeOK, RuleRow
  <2>2. CatalogTypeOK'
    BY <1>5, <2>1, CatalogAssumption DEF UpdateRuleStatus, CatalogInv, CatalogTypeOK
  <2>3. AuthorKnowsRule' /\ NumberTaken'
    BY <1>5 DEF UpdateRuleStatus, CatalogInv, AuthorKnowsRule, NumberTaken, VersionsOf
  <2> QED
    BY <1>5, <2>2, <2>3, SameVersions DEF UpdateRuleStatus
<1> QED
  BY <1>1, <1>2, <1>3, <1>4, <1>5, SetVersionEnabledInv DEF CatalogNext, AuthorStep

LEMMA CatalogStutterInv ==
    ASSUME CatalogInv, UNCHANGED catalogVars PROVE CatalogInv'
<1>1. CatalogTypeOK' /\ AuthorKnowsRule'
  BY DEF CatalogInv, CatalogTypeOK, AuthorKnowsRule, catalogVars
<1>2. NumberTaken'
  BY DEF CatalogInv, NumberTaken, VersionsOf, catalogVars
<1> QED
  BY <1>1, <1>2, SameVersions DEF catalogVars

(* The catalogue alone: a rule's version numbers are exactly 1..n, however *)
(* many authors take the next number at once and whatever fails between    *)
(* their statements.                                                       *)
THEOREM CatalogNumbered == CatalogSpec => []VersionsNumbered
<1>1. CatalogInv /\ [CatalogNext]_catalogVars => CatalogInv'
  BY CatalogStepInv, CatalogStutterInv
<1>2. CatalogInv => VersionsNumbered
  BY DEF CatalogInv
<1> QED
  BY CatalogInitInv, <1>1, <1>2, PTL DEF CatalogSpec

(* A published definition never changes: a version keeps its rule, number  *)
(* and severity whatever is inserted or toggled (CreateVersion's promise). *)
VersionsImmutable ==
    [][\A v \in versions : \E w \in versions' :
          w.rule = v.rule /\ w.number = v.number /\ w.severity = v.severity]_catalogVars

LEMMA CatalogStepKeeps ==
    ASSUME CatalogTypeOK, CatalogNext
    PROVE  \A v \in versions : \E w \in versions' :
               w.rule = v.rule /\ w.number = v.number /\ w.severity = v.severity
<1> SUFFICES ASSUME NEW v \in versions
             PROVE  \E w \in versions' :
                        w.rule = v.rule /\ w.number = v.number /\ w.severity = v.severity
  OBVIOUS
<1>1. v \in Version
  BY DEF CatalogTypeOK
<1>2. CASE v \in versions'
  BY <1>2
<1>3. ASSUME NEW enabled \in BOOLEAN, SetVersionEnabled(v, enabled)
      PROVE  [v EXCEPT !.enabled = enabled] \in versions'
  BY <1>3 DEF SetVersionEnabled
<1>4. ASSUME NEW u \in versions, NEW enabled \in BOOLEAN, SetVersionEnabled(u, enabled), u # v
      PROVE  v \in versions'
  BY <1>4 DEF SetVersionEnabled
<1>5. ASSUME NEW a \in Author, AuthorStep(a) PROVE v \in versions'
  BY <1>5 DEF AuthorStep, CreateRule, NewVersion, TakeNumber, InsertVersion, InsertFails,
              SyncSeverity, AuthorCrash, WithVersion
<1>6. ASSUME NEW r \in Rule, NEW status \in RuleStatus, UpdateRuleStatus(r, status)
      PROVE  v \in versions'
  BY <1>6 DEF UpdateRuleStatus
<1>7. \A enabled \in BOOLEAN : LET w == [v EXCEPT !.enabled = enabled]
         IN w.rule = v.rule /\ w.number = v.number /\ w.severity = v.severity
  BY <1>1 DEF Version
<1> QED
  BY <1>2, <1>3, <1>4, <1>5, <1>6, <1>7 DEF CatalogNext

(* No step of an author or of an operator changes a published definition.  *)
THEOREM DefinitionsImmutable == CatalogSpec => VersionsImmutable
<1>1. CatalogInv /\ [CatalogNext]_catalogVars => CatalogInv'
  BY CatalogStepInv, CatalogStutterInv
<1>2. CatalogInv => CatalogTypeOK
  BY DEF CatalogInv
<1>3. CatalogTypeOK /\ [CatalogNext]_catalogVars =>
        [\A v \in versions : \E w \in versions' :
            w.rule = v.rule /\ w.number = v.number /\ w.severity = v.severity]_catalogVars
  BY CatalogStepKeeps
<1> QED
  BY CatalogInitInv, <1>1, <1>2, <1>3, PTL DEF CatalogSpec, VersionsImmutable

-----------------------------------------------------------------------------
(* The invariant of the pipeline.                                          *)

(* The version a match names is in the catalogue.                          *)
Named(m) == \E v \in versions : v.rule = RuleOf[m] /\ v.number = VersionOf[m]

MatchAndAlert(m) ==
    /\ matches[m].status = Absent <=> born[m] = Absent
    /\ matches[m].status = "open" => born[m] = "open"
    /\ matches[m].status # Absent => Named(m)
    /\ alerts[m].status # Absent => born[m] = "open"
    /\ alerts[m].status = Absent => alerts[m].last = 0
    /\ alerts[m].last <= matches[m].last

Handling == {"evidence", "suppress", "alert"}
Working == {"ruleCheck", "match"} \cup Handling

(* What the engine found belongs to the rule and to a version of it.       *)
EngineFound(e) ==
    LET s == eval[e] IN
    /\ s.pc # "idle" /\ s.pc \in Working \cup {"version"} => s.rule \in Rule
    /\ s.pc \in Working =>
          /\ \A m \in Match : s.found[m] # {} => RuleOf[m] = s.rule /\ Named(m)
          /\ \A m \in s.queue : s.found[m] # {}
    /\ s.pc = "ruleCheck" => \A m \in Match : s.found[m] # {} => m \in s.queue

(* The match an evaluation is at, and what it remembers of the upsert.     *)
CurrentMatch(e) ==
    LET s == eval[e] IN
    /\ s.pc \in Handling =>
          /\ s.cur \in Match \ s.queue
          /\ s.found[s.cur] # {}
          /\ matches[s.cur].status # Absent
          /\ s.saved.last <= matches[s.cur].last
          /\ Max(s.found[s.cur]) <= s.saved.last
          /\ s.saved.status # Absent
          /\ s.saved.status = "suppressed" => matches[s.cur].status = "suppressed"
          /\ ~Settles(e) => born[s.cur] = "open"
    /\ s.pc \notin Handling => s.cur = NONE
    /\ s.pc \in {"suppress", "alert"} => ~Settles(e)

(* No suppression an evaluation could have seen at its checks is active.   *)
NothingMissed(e) ==
    LET s == eval[e] IN
    /\ s.ruleSuppressed \/ s.pc = "suppress" => suppressions # <<>>
    /\ s.pc \in {"match"} \cup Handling /\ ~s.blind /\ ~s.ruleSuppressed =>
          s.ruleSeen <= Len(suppressions) /\ \A i \in ActiveFor("rule", s.rule) : i > s.ruleSeen
    /\ s.pc = "alert" /\ ~s.blind =>
          s.matchSeen <= Len(suppressions) /\ \A i \in ActiveFor("match", s.cur) : i > s.matchSeen

(* The match shows it was found: it is suppressed, or its alert is as late *)
(* as its last event.                                                      *)
Shown(e, m) ==
    \/ matches[m].status = "suppressed"
    \/ alerts[m].status # Absent /\ Max(eval[e].found[m]) <= alerts[m].last

FoundShown(e) ==
    LET s == eval[e] IN
    s.pc \in {"match", "done"} \cup Handling /\ suppressions = <<>> =>
        \A m \in Match \ (s.queue \cup s.lost \cup {s.cur}) : s.found[m] # {} => Shown(e, m)

EvalInv(e) ==
    EngineFound(e) /\ CurrentMatch(e) /\ NothingMissed(e) /\ FoundShown(e)
    /\ (eval[e].pc = "done" => eval[e].queue = {})

(* Links and silencings are of alerts that exist.                          *)
AlertsNamed ==
    /\ \A p \in Promoter : promo[p].pc # "idle" =>
          promo[p].match \in Match /\ alerts[promo[p].match].status # Absent
    /\ \A m \in silencing : alerts[m].status # Absent

PipelineInv ==
    /\ TypeOK
    /\ CatalogInv
    /\ \A m \in Match : MatchAndAlert(m)
    /\ \A e \in Evaluator : EvalInv(e)
    /\ AlertsNamed

-----------------------------------------------------------------------------
(* Type correctness of the pipeline.                                       *)

LEMMA IdleEvalType == IdleEval \in Eval
BY PipelineAssumption DEF IdleEval, Eval, EvalPC, NoneSaved, Absent

LEMMA PipelineInitType == Init => TypeOK
<1> SUFFICES ASSUME Init PROVE TypeOK
  OBVIOUS
<1>1. CatalogTypeOK
  BY CatalogInitInv DEF Init, CatalogInv
<1>2. matches \in [Match -> MatchRow]
  BY DEF Init
<1>3. alerts \in [Match -> AlertRow]
  BY DEF Init, AlertRow, AlertStatus
<1>4. eval \in [Evaluator -> Eval]
  BY IdleEvalType DEF Init
<1>5. promo \in [Promoter -> Promo]
  BY PipelineAssumption DEF Init, Promo
<1>6. suppressions \in Seq(Suppression) /\ Len(suppressions) <= MaxSuppressions /\ investigations \in Seq(Match)
  BY PipelineAssumption DEF Init
<1>7. born \in [Match -> {Absent, "open", "suppressed"}]
  BY <1>2 DEF Init, MatchRow
<1> QED
  BY <1>1, <1>2, <1>3, <1>4, <1>5, <1>6, <1>7, PipelineAssumption DEF TypeOK, Init

LEMMA TimesAreNumbers ==
    ASSUME NEW t, t \in Time \/ t = 0 PROVE t \in Nat
<1>1. CASE t \in Time
  BY <1>1, PipelineAssumption
<1>2. CASE t = 0
  BY <1>2
<1> QED
  BY <1>1, <1>2

(* The time of the last of some events.                                    *)
LEMMA LastTime ==
    ASSUME NEW times \in SUBSET Time, times # {}
    PROVE  Max(times) \in Time /\ Max(times) \in Nat /\ Max(times) # 0
<1>1. IsFiniteSet(times) /\ times \in SUBSET Nat
  BY PipelineAssumption, FS_Subset
<1>2. Max(times) \in times
  BY <1>1, MaxProperty
<1> QED
  BY <1>2, PipelineAssumption

LEMMA UpsertedMatchType ==
    ASSUME NEW row \in MatchRow, NEW status \in {"open", "suppressed"},
           NEW times \in SUBSET Time, times # {}
    PROVE  LET up == UpsertedMatch(row, status, times) IN
           /\ up \in MatchRow
           /\ up.status = IF row.status = Absent THEN status ELSE row.status
           /\ Max(times) <= up.last
           /\ row.status # Absent => row.last <= up.last
<1>1. Max(times) \in Time /\ Max(times) \in Nat /\ row.last \in Nat /\ row.last \in Time \cup {0}
  <2>1. Max(times) \in Time /\ Max(times) \in Nat
    BY LastTime
  <2>2. row.last \in Time \/ row.last = 0
    BY DEF MatchRow
  <2> QED
    BY <2>1, <2>2, TimesAreNumbers
<1>2. LET l == Later(row.last, Max(times)) IN
      l \in Time \cup {0} /\ row.last <= l /\ Max(times) <= l
  BY <1>1, LaterIsGreater
<1>3. CASE row.status = Absent
  BY <1>1, <1>3 DEF UpsertedMatch, MatchRow
<1>4. CASE row.status # Absent
  <2>1. UpsertedMatch(row, status, times) = [row EXCEPT !.last = Later(row.last, Max(times))]
    BY <1>4 DEF UpsertedMatch, MatchRow
  <2> QED
    BY <1>2, <1>4, <2>1 DEF MatchRow
<1> QED
  BY <1>3, <1>4

LEMMA UpsertedAlertType ==
    ASSUME NEW row \in AlertRow, NEW last \in Time \cup {0}
    PROVE  LET up == UpsertedAlert(row, last) IN
           /\ up \in AlertRow
           /\ up.status # Absent
           /\ row.status # Absent => up.status = row.status
           /\ last <= up.last
           /\ row.status # Absent => row.last <= up.last
           /\ up.last = last \/ up.last = row.last
<1>1. last \in Nat /\ row.last \in Nat /\ row.last \in Time \cup {0}
  <2>1. row.last \in Time \/ row.last = 0
    BY DEF AlertRow
  <2> QED
    BY <2>1, TimesAreNumbers
<1>2. LET l == Later(row.last, last) IN
      l \in Time \cup {0} /\ row.last <= l /\ last <= l /\ (l = last \/ l = row.last)
  BY <1>1, LaterIsGreater
<1>3. CASE row.status = Absent
  <2>1. UpsertedAlert(row, last) = [status |-> "open", last |-> last, investigation |-> 0]
    BY <1>3 DEF UpsertedAlert, NoAlert
  <2> QED
    BY <1>1, <1>3, <2>1 DEF AlertRow, AlertStatus, Absent
<1>4. CASE row.status # Absent
  <2>1. UpsertedAlert(row, last) = [row EXCEPT !.last = Later(row.last, last)]
    BY <1>4 DEF UpsertedAlert, AlertRow
  <2> QED
    BY <1>1, <1>2, <1>4, <2>1 DEF AlertRow
<1> QED
  BY <1>3, <1>4

LEMMA EvaluatorType ==
    ASSUME TypeOK, NEW e \in Evaluator, NEW s \in Eval, eval' = [eval EXCEPT ![e] = s],
           matches' \in [Match -> MatchRow], alerts' \in [Match -> AlertRow],
           born' \in [Match -> {Absent, "open", "suppressed"}],
           UNCHANGED <<catalogVars, suppressions, investigations, promo, silencing, ops>>
    PROVE  TypeOK'
BY DEF TypeOK, CatalogTypeOK, catalogVars

LEMMA LocalType ==
    ASSUME TypeOK, NEW e \in Evaluator, NEW s \in Eval, Local(e, s)
    PROVE  TypeOK'
<1>1. matches' \in [Match -> MatchRow] /\ alerts' \in [Match -> AlertRow]
      /\ born' \in [Match -> {Absent, "open", "suppressed"}]
  BY DEF Local, TypeOK
<1> QED
  BY <1>1, EvaluatorType DEF Local

LEMMA NextMatchType ==
    ASSUME NEW s \in Eval
    PROVE  /\ NextMatch(s) \in Eval
           /\ NextMatch(s).pc = "match" /\ NextMatch(s).cur = NONE
           /\ NextMatch(s).rule = s.rule /\ NextMatch(s).found = s.found
           /\ NextMatch(s).queue = s.queue /\ NextMatch(s).lost = s.lost
           /\ NextMatch(s).ruleSuppressed = s.ruleSuppressed
           /\ NextMatch(s).ruleSeen = s.ruleSeen /\ NextMatch(s).blind = s.blind
BY DEF NextMatch, Eval, EvalPC, NoneSaved, Absent

-----------------------------------------------------------------------------
(* What no step takes back: the versions, that a match or an alert is      *)
(* there, the suppression of a match, the times, the suppressions made.    *)
Grows ==
    /\ \A m \in Match : Named(m) => Named(m)'
    /\ \A m \in Match : matches[m].status # Absent =>
          matches'[m].status # Absent /\ born'[m] = born[m]
    /\ \A m \in Match : matches[m].status = "suppressed" => matches'[m].status = "suppressed"
    /\ \A m \in Match : matches[m].status # Absent => matches[m].last <= matches'[m].last
    /\ \A m \in Match : alerts[m].status # Absent =>
          alerts'[m].status # Absent /\ alerts[m].last <= alerts'[m].last
    /\ suppressions # <<>> => suppressions' # <<>>
    /\ Len(suppressions) <= Len(suppressions')
    /\ \A scope, id : \A i \in ActiveFor(scope, id)' :
          i \in ActiveFor(scope, id) \/ i > Len(suppressions)

LEMMA RowTypes ==
    ASSUME TypeOK
    PROVE  /\ \A m \in Match : matches[m].last \in Nat /\ alerts[m].last \in Nat
           /\ \A e \in Evaluator : eval[e] \in Eval /\ eval[e].saved.last \in Nat
           /\ Len(suppressions) \in Nat
<1>1. ASSUME NEW m \in Match PROVE matches[m].last \in Nat /\ alerts[m].last \in Nat
  <2>1. matches[m].last \in Time \/ matches[m].last = 0
    BY DEF TypeOK, MatchRow
  <2>2. alerts[m].last \in Time \/ alerts[m].last = 0
    BY DEF TypeOK, AlertRow
  <2> QED
    BY <2>1, <2>2, TimesAreNumbers
<1>2. ASSUME NEW e \in Evaluator PROVE eval[e] \in Eval /\ eval[e].saved.last \in Nat
  <2>1. eval[e] \in Eval
    BY DEF TypeOK
  <2>2. eval[e].saved.last \in Time \/ eval[e].saved.last = 0
    BY <2>1 DEF Eval
  <2> QED
    BY <2>1, <2>2, TimesAreNumbers
<1> QED
  BY <1>1, <1>2 DEF TypeOK

LEMMA FoundLast ==
    ASSUME TypeOK, NEW e \in Evaluator, NEW m \in Match, eval[e].found[m] # {}
    PROVE  Max(eval[e].found[m]) \in Nat /\ Max(eval[e].found[m]) \in Time
<1>1. eval[e].found[m] \in SUBSET Time
  BY DEF TypeOK, Eval
<1> QED
  BY <1>1, LastTime

LEMMA ShownStays ==
    ASSUME TypeOK, TypeOK', Grows, NEW e \in Evaluator, NEW m \in Match,
           eval'[e].found = eval[e].found, eval[e].found[m] # {}, Shown(e, m)
    PROVE  Shown(e, m)'
<1>1. matches[m].status = "suppressed" => matches'[m].status = "suppressed"
  BY DEF Grows
<1>2. CASE alerts[m].status # Absent /\ Max(eval[e].found[m]) <= alerts[m].last
  <2>1. alerts'[m].status # Absent /\ alerts[m].last <= alerts'[m].last
    BY <1>2 DEF Grows
  <2>2. Max(eval[e].found[m]) \in Nat /\ alerts[m].last \in Nat
    BY FoundLast, RowTypes
  <2>3. alerts'[m].last \in Nat
    <3>1. alerts'[m].last \in Time \/ alerts'[m].last = 0
      BY DEF TypeOK, AlertRow
    <3> QED
      BY <3>1, TimesAreNumbers
  <2> QED
    BY <1>2, <2>1, <2>2, <2>3 DEF Shown
<1> QED
  BY <1>1, <1>2 DEF Shown

(* An evaluation is not disturbed by what the others and the analysts do.  *)
LEMMA OthersKeep ==
    ASSUME TypeOK, TypeOK', Grows, NEW e \in Evaluator, EvalInv(e), eval'[e] = eval[e]
    PROVE  EvalInv(e)'
<1>0. Len(suppressions) \in Nat /\ Len(suppressions') \in Nat
  BY RowTypes DEF TypeOK
<1>1. EngineFound(e)'
  BY DEF EvalInv, EngineFound, Grows, TypeOK, Eval
<1>2. CurrentMatch(e)'
  <2> USE DEF EvalInv, CurrentMatch
  <2>1. Settles(e)' <=> Settles(e)
    BY DEF Settles
  <2>2. CASE eval[e].pc \notin Handling
    BY <2>1, <2>2 DEF Handling
  <2>3. CASE eval[e].pc \in Handling
    <3> DEFINE m == eval[e].cur
    <3>1. m \in Match /\ matches[m].status # Absent
      BY <2>3
    <3>2. /\ matches'[m].status # Absent /\ born'[m] = born[m]
          /\ matches[m].status = "suppressed" => matches'[m].status = "suppressed"
          /\ matches[m].last <= matches'[m].last
      BY <3>1 DEF Grows
    <3>3. eval[e].saved.last <= matches'[m].last
      <4>1. /\ matches[m].last \in Nat /\ eval[e].saved.last \in Nat
            /\ eval[e].saved.last <= matches[m].last
        BY <2>3, <3>1, RowTypes
      <4>2. matches'[m].last \in Nat
        <5>1. matches'[m].last \in Time \/ matches'[m].last = 0
          BY <3>1 DEF TypeOK, MatchRow
        <5> QED
          BY <5>1, TimesAreNumbers
      <4> QED
        BY <3>2, <4>1, <4>2
    <3> QED
      BY <2>1, <2>3, <3>1, <3>2, <3>3
  <2> QED
    BY <2>2, <2>3
<1>3. NothingMissed(e)'
  <2> USE DEF EvalInv, NothingMissed
  <2>1. eval[e].ruleSuppressed \/ eval[e].pc = "suppress" => suppressions' # <<>>
    BY DEF Grows
  <2>2. \A scope, id, n : n \in Nat /\ n <= Len(suppressions) /\ (\A i \in ActiveFor(scope, id) : i > n) =>
           n <= Len(suppressions') /\ \A i \in ActiveFor(scope, id)' : i > n
    <3> SUFFICES ASSUME NEW scope, NEW id, NEW n \in Nat, n <= Len(suppressions),
                        \A i \in ActiveFor(scope, id) : i > n
                 PROVE  n <= Len(suppressions') /\ \A i \in ActiveFor(scope, id)' : i > n
      OBVIOUS
    <3>1. \A i \in ActiveFor(scope, id)' : i \in Nat
      BY DEF ActiveFor, TypeOK
    <3> QED
      BY <1>0, <3>1 DEF Grows
  <2>3. eval[e].ruleSeen \in Nat /\ eval[e].matchSeen \in Nat
    BY DEF TypeOK, Eval
  <2>4. PICK rule, cur : rule = eval[e].rule /\ cur = eval[e].cur
    OBVIOUS
  <2>5. ActiveFor("rule", eval[e].rule)' = ActiveFor("rule", rule)'
        /\ ActiveFor("match", eval[e].cur)' = ActiveFor("match", cur)'
    BY <2>4 DEF ActiveFor
  <2> QED
    BY <2>1, <2>2, <2>3, <2>4, <2>5
<1>4. FoundShown(e)'
  BY ShownStays DEF EvalInv, FoundShown, Handling, Grows
<1> QED
  BY <1>1, <1>2, <1>3, <1>4 DEF EvalInv

-----------------------------------------------------------------------------
(* The steps of an evaluation.                                             *)

Rows == \A m \in Match : MatchAndAlert(m)

LEMMA NamedStays ==
    ASSUME versions' = versions PROVE \A m \in Match : Named(m)' <=> Named(m)
BY DEF Named

LEMMA LocalKeeps ==
    ASSUME PipelineInv, NEW e \in Evaluator, NEW s \in Eval, Local(e, s)
    PROVE  TypeOK' /\ Grows /\ Rows' /\ eval'[e] = s
<1>0. versions' = versions
  BY DEF Local, catalogVars
<1>1. TypeOK' /\ eval'[e] = s
  BY LocalType DEF PipelineInv, Local, TypeOK
<1>2. \A m \in Match : Named(m)' <=> Named(m)
  BY <1>0, NamedStays
<1>3. Rows'
  BY <1>2 DEF Rows, MatchAndAlert, PipelineInv, Local
<1>4. \A m \in Match : matches[m].last \in Nat /\ alerts[m].last \in Nat
  BY RowTypes DEF PipelineInv
<1>5. \A scope, id : ActiveFor(scope, id)' = ActiveFor(scope, id)
  BY DEF ActiveFor, Local
<1>6. Grows
  BY <1>2, <1>4, <1>5, RowTypes DEF Grows, Local, PipelineInv
<1> QED
  BY <1>1, <1>3, <1>6

(* An evaluation that is over has nothing to account for.                  *)
LEMMA EndedInv ==
    ASSUME NEW e \in Evaluator, eval'[e].pc \in {"returned", "crashed"},
           eval'[e].cur = NONE, ~eval'[e].ruleSuppressed
    PROVE  EvalInv(e)'
BY DEF EvalInv, EngineFound, CurrentMatch, NothingMissed, FoundShown, Working, Handling

LEMMA ReturnedType ==
    /\ Returned \in Eval
    /\ Returned.pc = "returned" /\ Returned.cur = NONE /\ ~Returned.ruleSuppressed
<1>1. Returned \in Eval /\ Returned.pc = "returned"
  BY IdleEvalType DEF Returned, Eval, EvalPC
<1>2. Returned.cur = IdleEval.cur /\ Returned.ruleSuppressed = IdleEval.ruleSuppressed
  BY IdleEvalType DEF Returned, Eval
<1> QED
  BY <1>1, <1>2 DEF IdleEval

LEMMA LoadRuleKeeps ==
    ASSUME PipelineInv, NEW e \in Evaluator, NEW r \in Rule, LoadRule(e, r)
    PROVE  TypeOK' /\ Grows /\ Rows' /\ EvalInv(e)'
<1>1. CASE ~Active(rules[r].status)
  <2>1. Local(e, Returned)
    BY <1>1 DEF LoadRule
  <2> QED
    BY <2>1, ReturnedType, LocalKeeps, EndedInv
<1>2. CASE Active(rules[r].status)
  <2> DEFINE s == [IdleEval EXCEPT !.pc = "version", !.rule = r]
  <2>1. s \in Eval /\ s.pc = "version" /\ s.rule = r /\ s.cur = NONE /\ ~s.ruleSuppressed
    BY IdleEvalType DEF IdleEval, Eval, EvalPC
  <2>2. Local(e, s)
    BY <1>2 DEF LoadRule
  <2>3. TypeOK' /\ Grows /\ Rows' /\ eval'[e] = s
    BY <2>1, <2>2, LocalKeeps
  <2> HIDE DEF s
  <2> QED
    BY <2>1, <2>3 DEF EvalInv, EngineFound, CurrentMatch, NothingMissed, FoundShown, Working, Handling
<1> QED
  BY <1>1, <1>2

(* GetLatestEnabled returns a version there is.                            *)
LEMMA LatestEnabledExists ==
    ASSUME CatalogInv, NEW r \in Rule, EnabledOf(r) # {}
    PROVE  Latest(EnabledOf(r)) \in EnabledOf(r)
<1> DEFINE vs == EnabledOf(r)
           ns == {v.number : v \in vs}
<1>1. vs \subseteq VersionsOf(r) /\ \A v \in vs : v.number \in 1..MaxVersion
  BY DEF EnabledOf, VersionsOf, CatalogInv, CatalogTypeOK, Version
<1>2. ns \in SUBSET Nat /\ ns # {} /\ \A n \in ns : n <= MaxVersion
  <2>1. ns # {}
    OBVIOUS
  <2>2. ASSUME NEW n \in ns PROVE n \in Nat /\ n <= MaxVersion
    BY <1>1, CatalogAssumption
  <2> QED
    BY <2>1, <2>2
<1>3. IsFiniteSet(ns)
  BY <1>2, FS_BoundedSetOfNaturals, CatalogAssumption
<1>4. PICK n \in ns : \A k \in ns : k <= n
  BY <1>2, <1>3, GreatestExists
<1>5. PICK v \in vs : \A w \in vs : w.number <= v.number
  BY <1>4
<1> QED
  BY <1>5, Zenon DEF Latest

LEMMA RunEngineKeeps ==
    ASSUME PipelineInv, NEW e \in Evaluator, RunEngine(e)
    PROVE  TypeOK' /\ Grows /\ Rows' /\ EvalInv(e)'
<1>1. CASE Local(e, Returned)
  BY <1>1, ReturnedType, LocalKeeps, EndedInv
<1>2. CASE ~Local(e, Returned)
  <2>1. PICK r \in Rule : r = eval[e].rule
    BY DEF RunEngine, PipelineInv, EvalInv, EngineFound
  <2>2. EnabledOf(r) # {} /\ Latest(EnabledOf(r)) \in EnabledOf(r)
    BY <1>2, <2>1, LatestEnabledExists DEF RunEngine, PipelineInv
  <2>3. PICK found \in [Match -> SUBSET Time] :
           /\ \A m \in Match : found[m] # {} =>
                 RuleOf[m] = r /\ VersionOf[m] = Latest(EnabledOf(r)).number
           /\ Local(e, [eval[e] EXCEPT !.found = found, !.queue = {m \in Match : found[m] # {}},
                                       !.pc = "ruleCheck"])
    BY <1>2, <2>1, <2>2 DEF RunEngine
  <2> DEFINE s == [eval[e] EXCEPT !.found = found, !.queue = {m \in Match : found[m] # {}},
                                  !.pc = "ruleCheck"]
  <2>4. eval[e] \in Eval /\ eval[e].pc = "version"
    BY DEF PipelineInv, TypeOK, RunEngine
  <2>5. /\ s \in Eval /\ s.pc = "ruleCheck" /\ s.rule = r /\ s.cur = eval[e].cur /\ s.found = found
        /\ s.queue = {m \in Match : found[m] # {}} /\ s.ruleSuppressed = eval[e].ruleSuppressed
    BY <2>1, <2>4 DEF Eval, EvalPC
  <2>6. TypeOK' /\ Grows /\ Rows' /\ eval'[e] = s
    BY <2>3, <2>5, LocalKeeps
  <2> HIDE DEF s
  <2>7. \A m \in Match : found[m] # {} => RuleOf[m] = r /\ Named(m)
    BY <2>2, <2>3 DEF EnabledOf, VersionsOf, Named
  <2>8. EngineFound(e)'
    <3>1. \A m \in Match : found[m] # {} => RuleOf[m] = r /\ Named(m)'
      BY <2>6, <2>7 DEF Grows
    <3> QED
      BY <2>1, <2>5, <2>6, <3>1 DEF EngineFound
  <2>9. CurrentMatch(e)' /\ NothingMissed(e)'
    BY <2>4, <2>5, <2>6 DEF PipelineInv, EvalInv, CurrentMatch, NothingMissed, Working, Handling, Grows
  <2> QED
    BY <2>5, <2>6, <2>8, <2>9 DEF EvalInv, FoundShown, Handling
<1> QED
  BY <1>1, <1>2

LEMMA EngineFoundStays ==
    ASSUME Grows, NEW e \in Evaluator, EngineFound(e), eval[e].pc \in Working,
           eval'[e].pc \in {"match"} \cup Handling, eval'[e].rule = eval[e].rule,
           eval'[e].found = eval[e].found, eval'[e].queue \subseteq eval[e].queue,
           eval[e].queue \subseteq Match
    PROVE  EngineFound(e)'
BY DEF EngineFound, Working, Handling, Grows

LEMMA ActiveForSame ==
    ASSUME NEW e, NEW scope, suppressions' = suppressions
    PROVE  /\ eval'[e].rule = eval[e].rule =>
                 ActiveFor(scope, eval[e].rule)' = ActiveFor(scope, eval[e].rule)
           /\ eval'[e].cur = eval[e].cur =>
                 ActiveFor(scope, eval[e].cur)' = ActiveFor(scope, eval[e].cur)
BY DEF ActiveFor

(* A suppression that is active is there.                                  *)
LEMMA ActiveForSome ==
    ASSUME TypeOK, NEW scope, NEW id, ActiveFor(scope, id) # {} PROVE suppressions # <<>>
BY DEF ActiveFor, TypeOK

LEMMA CheckRuleKeeps ==
    ASSUME PipelineInv, NEW e \in Evaluator, CheckRule(e)
    PROVE  TypeOK' /\ Grows /\ Rows' /\ EvalInv(e)'
<1>1. PICK failed \in BOOLEAN :
         Local(e, [eval[e] EXCEPT !.pc = "match", !.ruleSeen = Len(suppressions), !.blind = failed,
                         !.ruleSuppressed = ~failed /\ ActiveFor("rule", eval[e].rule) # {}])
  BY DEF CheckRule
<1> DEFINE s == [eval[e] EXCEPT !.pc = "match", !.ruleSeen = Len(suppressions), !.blind = failed,
                         !.ruleSuppressed = ~failed /\ ActiveFor("rule", eval[e].rule) # {}]
<1>2. eval[e] \in Eval /\ eval[e].pc = "ruleCheck" /\ Len(suppressions) \in Nat
  BY RowTypes DEF PipelineInv, CheckRule
<1>3. /\ s \in Eval /\ s.pc = "match" /\ s.rule = eval[e].rule /\ s.cur = eval[e].cur
      /\ s.found = eval[e].found /\ s.queue = eval[e].queue /\ s.ruleSeen = Len(suppressions)
  BY <1>2 DEF Eval, EvalPC
<1>4. (s.blind <=> failed) /\ (s.ruleSuppressed <=> ~failed /\ ActiveFor("rule", eval[e].rule) # {})
  BY <1>2 DEF Eval
<1>5. TypeOK' /\ Grows /\ Rows' /\ eval'[e] = s /\ suppressions' = suppressions
  BY <1>1, <1>3, LocalKeeps DEF Local
<1> HIDE DEF s
<1>6. EngineFound(e) /\ CurrentMatch(e) /\ TypeOK
  BY DEF PipelineInv, EvalInv
<1>7. EngineFound(e)'
  BY <1>2, <1>3, <1>5, <1>6, EngineFoundStays DEF Working, Eval
<1>8. CurrentMatch(e)'
  BY <1>2, <1>3, <1>5, <1>6 DEF CurrentMatch, Handling
<1>9. NothingMissed(e)'
  <2>1. ActiveFor("rule", eval[e].rule)' = ActiveFor("rule", eval[e].rule)
    BY <1>3, <1>5, ActiveForSame
  <2>2. s.ruleSuppressed => suppressions # <<>>
    BY <1>4, <1>6, ActiveForSome
  <2> QED
    BY <1>2, <1>3, <1>4, <1>5, <2>1, <2>2 DEF NothingMissed, Handling
<1>10. FoundShown(e)'
  BY <1>2, <1>3, <1>5, <1>6 DEF FoundShown, EngineFound
<1> QED
  BY <1>3, <1>5, <1>7, <1>8, <1>9, <1>10 DEF EvalInv

LEMMA UpsertMatchFailsKeeps ==
    ASSUME PipelineInv, NEW e \in Evaluator, UpsertMatchFails(e)
    PROVE  TypeOK' /\ Grows /\ Rows' /\ EvalInv(e)'
<1>1. PICK m \in eval[e].queue : Local(e, [eval[e] EXCEPT !.queue = @ \ {m}, !.lost = @ \cup {m}])
  BY DEF UpsertMatchFails
<1> DEFINE s == [eval[e] EXCEPT !.queue = @ \ {m}, !.lost = @ \cup {m}]
<1>2. eval[e] \in Eval /\ eval[e].pc = "match" /\ m \in Match
  BY RowTypes DEF PipelineInv, UpsertMatchFails, Eval
<1>3. /\ s \in Eval /\ s.pc = "match" /\ s.rule = eval[e].rule /\ s.cur = eval[e].cur
      /\ s.found = eval[e].found /\ s.queue = eval[e].queue \ {m} /\ s.lost = eval[e].lost \cup {m}
      /\ s.ruleSeen = eval[e].ruleSeen /\ s.blind = eval[e].blind
      /\ s.ruleSuppressed = eval[e].ruleSuppressed
  BY <1>2 DEF Eval
<1>4. TypeOK' /\ Grows /\ Rows' /\ eval'[e] = s /\ suppressions' = suppressions
  BY <1>1, <1>3, LocalKeeps DEF Local
<1> HIDE DEF s
<1>5. EngineFound(e) /\ CurrentMatch(e) /\ NothingMissed(e) /\ FoundShown(e) /\ TypeOK
  BY DEF PipelineInv, EvalInv
<1>6. EngineFound(e)'
  BY <1>2, <1>3, <1>4, <1>5, EngineFoundStays DEF Working, Eval
<1>7. CurrentMatch(e)'
  BY <1>2, <1>3, <1>4, <1>5 DEF CurrentMatch, Handling
<1>8. NothingMissed(e)'
  <2>1. ActiveFor("rule", eval[e].rule)' = ActiveFor("rule", eval[e].rule)
    BY <1>3, <1>4, ActiveForSame
  <2> QED
    BY <1>2, <1>3, <1>4, <1>5, <2>1 DEF NothingMissed, Handling
<1>9. FoundShown(e)'
  BY <1>2, <1>3, <1>4, <1>5, ShownStays DEF FoundShown
<1> QED
  BY <1>3, <1>4, <1>6, <1>7, <1>8, <1>9 DEF EvalInv

LEMMA UpsertMatchKeeps ==
    ASSUME PipelineInv, NEW e \in Evaluator, UpsertMatch(e)
    PROVE  TypeOK' /\ Grows /\ Rows' /\ EvalInv(e)'
<1>1. PICK m \in eval[e].queue :
          LET status  == IF eval[e].ruleSuppressed THEN "suppressed" ELSE "open"
              created == matches[m].status = Absent
              saved   == UpsertedMatch(matches[m], status, eval[e].found[m])
          IN /\ matches' = [matches EXCEPT ![m] = saved]
             /\ born' = IF created THEN [born EXCEPT ![m] = status] ELSE born
             /\ eval' = [eval EXCEPT ![e] =
                  [eval[e] EXCEPT !.pc = "evidence", !.queue = eval[e].queue \ {m}, !.cur = m,
                            !.pending = eval[e].found[m], !.created = created,
                            !.saved = [status |-> saved.status, last |-> saved.last]]]
  BY DEF UpsertMatch
<1> DEFINE status == IF eval[e].ruleSuppressed THEN "suppressed" ELSE "open"
           row == UpsertedMatch(matches[m], status, eval[e].found[m])
           save == [status |-> row.status, last |-> row.last]
           s == [eval[e] EXCEPT !.pc = "evidence", !.queue = eval[e].queue \ {m}, !.cur = m,
                            !.pending = eval[e].found[m], !.created = (matches[m].status = Absent),
                            !.saved = save]
<1>2. /\ eval[e] \in Eval /\ eval[e].pc = "match" /\ m \in Match /\ TypeOK
      /\ EngineFound(e) /\ CurrentMatch(e) /\ NothingMissed(e) /\ FoundShown(e)
  BY RowTypes DEF PipelineInv, UpsertMatch, Eval, EvalInv
<1>3. eval[e].found[m] # {} /\ eval[e].found[m] \in SUBSET Time /\ Named(m)
  BY <1>2 DEF EngineFound, Working, Eval
<1>4. matches[m] \in MatchRow
  BY <1>2 DEF TypeOK
<1>5. /\ row \in MatchRow
      /\ row.status = IF matches[m].status = Absent THEN status ELSE matches[m].status
      /\ Max(eval[e].found[m]) <= row.last
      /\ matches[m].status # Absent => matches[m].last <= row.last
  BY <1>3, <1>4, UpsertedMatchType
<1>6. row.last \in Nat /\ Max(eval[e].found[m]) \in Nat
  <2>1. row.last \in Time \/ row.last = 0
    BY <1>5 DEF MatchRow
  <2> QED
    BY <1>2, <1>3, <2>1, TimesAreNumbers, FoundLast
<1> HIDE DEF row
<1>7. save \in [status: {Absent, "open", "suppressed"}, last: Time \cup {0}]
  BY <1>5 DEF MatchRow
<1>8. /\ s \in Eval /\ s.pc = "evidence" /\ s.rule = eval[e].rule /\ s.cur = m
      /\ s.found = eval[e].found /\ s.queue = eval[e].queue \ {m} /\ s.lost = eval[e].lost
      /\ s.ruleSeen = eval[e].ruleSeen /\ s.blind = eval[e].blind
      /\ s.ruleSuppressed = eval[e].ruleSuppressed /\ s.saved = save
  BY <1>2, <1>3, <1>7 DEF Eval, EvalPC
<1>9. s.created <=> matches[m].status = Absent
  BY <1>2 DEF Eval
<1> HIDE DEF s
<1>10. /\ matches' = [matches EXCEPT ![m] = row]
       /\ born' = IF matches[m].status = Absent THEN [born EXCEPT ![m] = status] ELSE born
       /\ eval' = [eval EXCEPT ![e] = s]
       /\ UNCHANGED <<catalogVars, alerts, suppressions, investigations, promo, silencing, ops>>
       /\ UNCHANGED versions
  BY <1>1 DEF UpsertMatch, row, s, catalogVars
<1>11. matches' \in [Match -> MatchRow] /\ born' \in [Match -> {Absent, "open", "suppressed"}]
  BY <1>2, <1>5, <1>10 DEF TypeOK
<1>12. alerts' \in [Match -> AlertRow]
  BY <1>2, <1>10 DEF TypeOK
<1>13. TypeOK' /\ eval'[e] = s
  <2>1. TypeOK'
    BY <1>2, <1>8, <1>10, <1>11, <1>12, EvaluatorType
  <2> QED
    BY <1>2, <1>10, <2>1 DEF TypeOK
<1>14. /\ matches'[m] = row /\ born'[m] = (IF matches[m].status = Absent THEN status ELSE born[m])
       /\ \A k \in Match : k # m => matches'[k] = matches[k] /\ born'[k] = born[k]
  BY <1>2, <1>10 DEF TypeOK
<1>15. \A k \in Match : Named(k)' <=> Named(k)
  BY <1>10, NamedStays
<1>16. \A k \in Match : MatchAndAlert(k)
  BY DEF PipelineInv
<1>17. \A k \in Match : matches[k].last \in Nat /\ alerts[k].last \in Nat
  BY <1>2, RowTypes
<1>18. Rows'
  <2>1. ASSUME NEW k \in Match, k # m PROVE MatchAndAlert(k)'
    BY <1>10, <1>14, <1>15, <1>16, <2>1 DEF MatchAndAlert
  <2>2. CASE matches[m].status = Absent
    <3>1. alerts[m].last = 0 /\ alerts[m].status = Absent
      BY <1>2, <1>16, <2>2 DEF MatchAndAlert, Absent
    <3>2. matches'[m].status = status /\ born'[m] = status /\ alerts'[m] = alerts[m] /\ Named(m)'
      BY <1>2, <1>3, <1>5, <1>10, <1>14, <1>15, <2>2
    <3>3. MatchAndAlert(m)'
      BY <1>6, <1>14, <3>1, <3>2 DEF MatchAndAlert, Absent
    <3> QED
      BY <2>1, <3>3 DEF Rows
  <2>3. CASE matches[m].status # Absent
    <3>1. alerts[m].last <= row.last
      BY <1>2, <1>5, <1>6, <1>16, <1>17, <2>3 DEF MatchAndAlert
    <3>2. matches'[m].status = matches[m].status /\ born'[m] = born[m] /\ alerts'[m] = alerts[m]
          /\ Named(m)' /\ matches'[m].last = row.last
      BY <1>2, <1>3, <1>5, <1>10, <1>14, <1>15, <2>3
    <3>3. MatchAndAlert(m)
      BY <1>2, <1>16
    <3>4. MatchAndAlert(m)'
      BY <3>1, <3>2, <3>3 DEF MatchAndAlert
    <3> QED
      BY <2>1, <3>4 DEF Rows
  <2> QED
    BY <2>2, <2>3
<1>19. Grows
  <2>1. \A scope, id : ActiveFor(scope, id)' = ActiveFor(scope, id)
    BY <1>10 DEF ActiveFor
  <2>2. \A k \in Match : matches[k].status # Absent => matches[k].last <= matches'[k].last
    BY <1>5, <1>14, <1>17
  <2>3. Len(suppressions) \in Nat
    BY <1>2, RowTypes
  <2> QED
    BY <1>5, <1>10, <1>14, <1>15, <1>17, <2>1, <2>2, <2>3 DEF Grows, Absent
<1>20. EngineFound(e)'
  BY <1>2, <1>8, <1>13, <1>19, EngineFoundStays DEF Working, Handling, Eval
<1>21. CurrentMatch(e)'
  <2>1. row.status # Absent
    BY <1>5 DEF Absent
  <2>2. ASSUME ~Settles(e)' PROVE born'[m] = "open"
    <3>1. ~eval[e].ruleSuppressed /\ (matches[m].status # Absent => row.status = "open")
      BY <1>8, <1>9, <1>13, <2>2 DEF Settles
    <3> QED
      BY <1>2, <1>5, <1>14, <1>16, <3>1 DEF MatchAndAlert
  <2> QED
    BY <1>2, <1>3, <1>5, <1>6, <1>8, <1>13, <1>14, <2>1, <2>2 DEF CurrentMatch, Handling
<1>22. NothingMissed(e)'
  <2>1. ActiveFor("rule", eval[e].rule)' = ActiveFor("rule", eval[e].rule)
    BY <1>8, <1>10, <1>13, ActiveForSame
  <2> QED
    BY <1>2, <1>8, <1>10, <1>13, <2>1 DEF NothingMissed, Handling
<1>23. FoundShown(e)'
  <2> SUFFICES ASSUME suppressions = <<>>, NEW k \in Match, k \notin s.queue, k \notin s.lost,
                      k # m, s.found[k] # {}
               PROVE  Shown(e, k)'
    BY <1>8, <1>10, <1>13 DEF FoundShown
  <2>1. eval[e].cur = NONE /\ k # NONE
    BY <1>2, PipelineAssumption DEF CurrentMatch, Handling
  <2>2. Shown(e, k)
    BY <1>2, <1>8, <2>1 DEF FoundShown
  <2> QED
    BY <1>2, <1>8, <1>13, <1>19, <2>2, ShownStays
<1> QED
  BY <1>8, <1>13, <1>18, <1>19, <1>20, <1>21, <1>22, <1>23 DEF EvalInv

(* What an evaluation that is handling a match knows.                      *)
LEMMA HandlingKnows ==
    ASSUME PipelineInv, NEW e \in Evaluator, eval[e].pc \in Handling
    PROVE  /\ TypeOK /\ eval[e] \in Eval /\ eval[e].cur \in Match
           /\ EngineFound(e) /\ CurrentMatch(e) /\ NothingMissed(e) /\ FoundShown(e)
           /\ \A k \in Match : MatchAndAlert(k)
           /\ \A k \in Match : matches[k].last \in Nat /\ alerts[k].last \in Nat
           /\ Len(suppressions) \in Nat
BY RowTypes DEF PipelineInv, EvalInv, CurrentMatch

LEMMA AttachEvidenceKeeps ==
    ASSUME PipelineInv, NEW e \in Evaluator, AttachEvidence(e)
    PROVE  TypeOK' /\ Grows /\ Rows' /\ EvalInv(e)'
<1>1. eval[e].pc = "evidence" /\ eval[e].pc \in Handling
  BY DEF AttachEvidence, Handling
<1>2. PICK t \in eval[e].pending :
          \/ /\ matches' = [matches EXCEPT ![eval[e].cur].evidence = @ \cup {t}]
             /\ eval' = [eval EXCEPT ![e] = [eval[e] EXCEPT !.pending = eval[e].pending \ {t}]]
          \/ /\ eval' = [eval EXCEPT ![e] = [eval[e] EXCEPT !.pending = eval[e].pending \ {t},
                                             !.lost = eval[e].lost \cup {eval[e].cur}]]
             /\ UNCHANGED matches
  BY HandlingKnows, <1>1 DEF AttachEvidence, TypeOK
<1>3. PICK s : /\ eval' = [eval EXCEPT ![e] = s]
               /\ \/ s = [eval[e] EXCEPT !.pending = eval[e].pending \ {t}]
                  \/ s = [eval[e] EXCEPT !.pending = eval[e].pending \ {t},
                                         !.lost = eval[e].lost \cup {eval[e].cur}]
  BY <1>2
<1>4. /\ s \in Eval /\ s.pc = "evidence" /\ s.rule = eval[e].rule /\ s.cur = eval[e].cur
      /\ s.found = eval[e].found /\ s.queue = eval[e].queue /\ eval[e].lost \subseteq s.lost
      /\ s.ruleSeen = eval[e].ruleSeen /\ s.blind = eval[e].blind
      /\ s.ruleSuppressed = eval[e].ruleSuppressed /\ s.saved = eval[e].saved
      /\ s.created = eval[e].created
  <2>1. eval[e] \in Eval /\ eval[e].cur \in Match
    BY <1>1, HandlingKnows
  <2>2. CASE s = [eval[e] EXCEPT !.pending = eval[e].pending \ {t}]
    BY <1>1, <2>1, <2>2 DEF Eval
  <2>3. CASE s = [eval[e] EXCEPT !.pending = eval[e].pending \ {t},
                                 !.lost = eval[e].lost \cup {eval[e].cur}]
    BY <1>1, <2>1, <2>3 DEF Eval
  <2> QED
    BY <1>3, <2>2, <2>3
<1>5. /\ UNCHANGED <<catalogVars, alerts, suppressions, investigations, promo, silencing, ops, born>>
      /\ versions' = versions /\ suppressions' = suppressions /\ alerts' = alerts /\ born' = born
  BY DEF AttachEvidence, catalogVars
<1>6. eval[e].pending \subseteq Time
  BY <1>1, HandlingKnows DEF Eval
<1>7. /\ matches' \in [Match -> MatchRow]
      /\ \A k \in Match : matches'[k].status = matches[k].status /\ matches'[k].last = matches[k].last
  <2>1. matches \in [Match -> MatchRow] /\ eval[e].cur \in Match
    BY <1>1, HandlingKnows DEF TypeOK
  <2>2. CASE UNCHANGED matches
    BY <2>1, <2>2
  <2>3. CASE matches' = [matches EXCEPT ![eval[e].cur].evidence = @ \cup {t}]
    <3>1. PICK row : row = [matches[eval[e].cur] EXCEPT !.evidence = @ \cup {t}]
      OBVIOUS
    <3>2. row \in MatchRow /\ row.status = matches[eval[e].cur].status /\ row.last = matches[eval[e].cur].last
      BY <1>6, <2>1, <3>1 DEF MatchRow
    <3>3. matches' = [matches EXCEPT ![eval[e].cur] = row]
      BY <2>1, <2>3, <3>1
    <3> QED
      BY <2>1, <3>2, <3>3
  <2> QED
    BY <1>2, <2>2, <2>3
<1>8. \A k \in Match : matches'[k].status = matches[k].status /\ matches'[k].last = matches[k].last
  BY <1>7
<1>9. TypeOK' /\ eval'[e] = s
  <2>1. alerts' \in [Match -> AlertRow] /\ born' \in [Match -> {Absent, "open", "suppressed"}]
    BY <1>1, <1>5, HandlingKnows DEF TypeOK
  <2> QED
    BY <1>1, <1>3, <1>4, <1>5, <1>7, <2>1, EvaluatorType, HandlingKnows DEF TypeOK
<1>10. \A k \in Match : Named(k)' <=> Named(k)
  BY <1>5, NamedStays
<1>11. Rows'
  BY <1>1, <1>5, <1>8, <1>10, HandlingKnows DEF Rows, MatchAndAlert
<1>12. Grows
  <2>1. \A scope, id : ActiveFor(scope, id)' = ActiveFor(scope, id)
    BY <1>5 DEF ActiveFor
  <2> QED
    BY <1>1, <1>5, <1>8, <1>10, <2>1, HandlingKnows DEF Grows
<1>13. EngineFound(e)'
  BY <1>1, <1>4, <1>9, <1>12, HandlingKnows, EngineFoundStays DEF Working, Handling, Eval
<1>14. CurrentMatch(e)'
  <2>1. Settles(e)' <=> Settles(e)
    BY <1>4, <1>9 DEF Settles
  <2> QED
    BY <1>1, <1>4, <1>5, <1>8, <1>9, <2>1, HandlingKnows DEF CurrentMatch
<1>15. NothingMissed(e)'
  <2>1. ActiveFor("rule", eval[e].rule)' = ActiveFor("rule", eval[e].rule)
    BY <1>4, <1>5, <1>9, ActiveForSame
  <2> QED
    BY <1>1, <1>4, <1>5, <1>9, <2>1, HandlingKnows DEF NothingMissed, Handling
<1>16. FoundShown(e)'
  BY <1>1, <1>4, <1>5, <1>9, <1>12, HandlingKnows, ShownStays DEF FoundShown
<1> QED
  BY <1>4, <1>9, <1>11, <1>12, <1>13, <1>14, <1>15, <1>16 DEF EvalInv

(* Nothing further is owed to a match that is settled: it is suppressed,   *)
(* or there is a suppression.                                              *)
LEMMA SkipAlertKeeps ==
    ASSUME PipelineInv, NEW e \in Evaluator, SkipAlert(e)
    PROVE  TypeOK' /\ Grows /\ Rows' /\ EvalInv(e)'
<1> DEFINE s == NextMatch(eval[e])
<1>1. eval[e].pc = "evidence" /\ eval[e].pc \in Handling /\ Settles(e) /\ Local(e, s)
  BY DEF SkipAlert, Handling
<1>2. /\ s \in Eval /\ s.pc = "match" /\ s.cur = NONE /\ s.rule = eval[e].rule
      /\ s.found = eval[e].found /\ s.queue = eval[e].queue /\ s.lost = eval[e].lost
      /\ s.ruleSuppressed = eval[e].ruleSuppressed /\ s.ruleSeen = eval[e].ruleSeen
      /\ s.blind = eval[e].blind
  BY <1>1, HandlingKnows, NextMatchType
<1> HIDE DEF s
<1>3. /\ TypeOK' /\ Grows /\ Rows' /\ eval'[e] = s
      /\ suppressions' = suppressions /\ matches' = matches /\ alerts' = alerts
  BY <1>1, <1>2, LocalKeeps DEF Local
<1>4. EngineFound(e)'
  BY <1>1, <1>2, <1>3, HandlingKnows, EngineFoundStays DEF Working, Handling, Eval
<1>5. CurrentMatch(e)'
  BY <1>2, <1>3 DEF CurrentMatch, Handling
<1>6. NothingMissed(e)'
  <2>1. ActiveFor("rule", eval[e].rule)' = ActiveFor("rule", eval[e].rule)
    BY <1>2, <1>3, ActiveForSame
  <2> QED
    BY <1>1, <1>2, <1>3, <2>1, HandlingKnows DEF NothingMissed, Handling
<1>7. FoundShown(e)'
  <2> SUFFICES ASSUME suppressions = <<>>, NEW k \in Match, k \notin s.queue, k \notin s.lost,
                      s.found[k] # {}
               PROVE  Shown(e, k)'
    BY <1>2, <1>3 DEF FoundShown
  <2>1. CASE k = eval[e].cur
    <3>1. ~eval[e].ruleSuppressed
      BY <1>1, HandlingKnows DEF NothingMissed
    <3>2. eval[e].saved.status = "suppressed"
      BY <1>1, <3>1, HandlingKnows DEF Settles, CurrentMatch, Eval
    <3> QED
      BY <1>1, <1>3, <2>1, <3>2, HandlingKnows DEF CurrentMatch, Shown
  <2>2. CASE k # eval[e].cur
    <3>1. Shown(e, k)
      BY <1>1, <1>2, <2>2, HandlingKnows DEF FoundShown
    <3> QED
      BY <1>1, <1>2, <1>3, <3>1, HandlingKnows, ShownStays
  <2> QED
    BY <2>1, <2>2
<1> QED
  BY <1>2, <1>3, <1>4, <1>5, <1>6, <1>7 DEF EvalInv

LEMMA CheckMatchKeeps ==
    ASSUME PipelineInv, NEW e \in Evaluator, CheckMatch(e)
    PROVE  TypeOK' /\ Grows /\ Rows' /\ EvalInv(e)'
<1>1. eval[e].pc = "evidence" /\ eval[e].pc \in Handling /\ ~Settles(e)
  BY DEF CheckMatch, Handling
<1>2. PICK failed \in BOOLEAN :
         Local(e, [eval[e] EXCEPT !.matchSeen = Len(suppressions), !.blind = eval[e].blind \/ failed,
                         !.pc = IF ~failed /\ ActiveFor("match", eval[e].cur) # {}
                                THEN "suppress" ELSE "alert"])
  BY DEF CheckMatch
<1> DEFINE s == [eval[e] EXCEPT !.matchSeen = Len(suppressions), !.blind = eval[e].blind \/ failed,
                         !.pc = IF ~failed /\ ActiveFor("match", eval[e].cur) # {}
                                THEN "suppress" ELSE "alert"]
<1>3. /\ s \in Eval /\ s.rule = eval[e].rule /\ s.cur = eval[e].cur
      /\ s.found = eval[e].found /\ s.queue = eval[e].queue /\ s.lost = eval[e].lost
      /\ s.ruleSuppressed = eval[e].ruleSuppressed /\ s.ruleSeen = eval[e].ruleSeen
      /\ s.saved = eval[e].saved /\ s.created = eval[e].created
      /\ s.matchSeen = Len(suppressions)
      /\ s.pc = IF ~failed /\ ActiveFor("match", eval[e].cur) # {} THEN "suppress" ELSE "alert"
      /\ s.blind <=> eval[e].blind \/ failed
  <2>1. PICK pc \in {"suppress", "alert"} :
           pc = IF ~failed /\ ActiveFor("match", eval[e].cur) # {} THEN "suppress" ELSE "alert"
    OBVIOUS
  <2>2. PICK blind \in BOOLEAN : blind = (eval[e].blind \/ failed)
    OBVIOUS
  <2>3. s = [eval[e] EXCEPT !.matchSeen = Len(suppressions), !.blind = blind, !.pc = pc]
    BY <2>1, <2>2
  <2> HIDE DEF s
  <2>4. eval[e] \in Eval /\ Len(suppressions) \in Nat
    BY <1>1, HandlingKnows
  <2>5. /\ s \in Eval /\ s.rule = eval[e].rule /\ s.cur = eval[e].cur
        /\ s.found = eval[e].found /\ s.queue = eval[e].queue /\ s.lost = eval[e].lost
        /\ s.ruleSuppressed = eval[e].ruleSuppressed /\ s.ruleSeen = eval[e].ruleSeen
        /\ s.saved = eval[e].saved /\ s.created = eval[e].created
        /\ s.matchSeen = Len(suppressions) /\ s.pc = pc /\ s.blind = blind
    BY <2>3, <2>4 DEF Eval, EvalPC
  <2> QED
    BY <2>1, <2>2, <2>5
<1>5. Local(e, s)
  BY <1>2
<1> HIDE DEF s
<1>6. /\ TypeOK' /\ Grows /\ Rows' /\ eval'[e] = s
      /\ suppressions' = suppressions /\ matches' = matches /\ alerts' = alerts /\ born' = born
  BY <1>3, <1>5, LocalKeeps DEF Local
<1>7. EngineFound(e)'
  BY <1>1, <1>3, <1>6, HandlingKnows, EngineFoundStays DEF Working, Handling, Eval
<1>8. CurrentMatch(e)'
  <2>1. Settles(e)' <=> Settles(e)
    BY <1>3, <1>6 DEF Settles
  <2> QED
    BY <1>1, <1>3, <1>6, <2>1, HandlingKnows DEF CurrentMatch, Handling
<1>9. NothingMissed(e)'
  <2>1. /\ ActiveFor("rule", eval[e].rule)' = ActiveFor("rule", eval[e].rule)
        /\ ActiveFor("match", eval[e].cur)' = ActiveFor("match", eval[e].cur)
    BY <1>3, <1>6, ActiveForSame
  <2>2. s.pc = "suppress" => suppressions # <<>>
    BY <1>1, <1>3, HandlingKnows, ActiveForSome
  <2> QED
    BY <1>1, <1>3, <1>6, <2>1, <2>2, HandlingKnows DEF NothingMissed, Handling
<1>10. FoundShown(e)'
  BY <1>1, <1>3, <1>6, HandlingKnows, ShownStays DEF FoundShown
<1> QED
  BY <1>3, <1>6, <1>7, <1>8, <1>9, <1>10 DEF EvalInv

(* UpdateMatchStatus: the only step that changes the status of a match.    *)
LEMMA SuppressMatchKeeps ==
    ASSUME PipelineInv, NEW e \in Evaluator, SuppressMatch(e)
    PROVE  TypeOK' /\ Grows /\ Rows' /\ EvalInv(e)'
<1> DEFINE m == eval[e].cur
           s == NextMatch(eval[e])
<1>1. eval[e].pc = "suppress" /\ eval[e].pc \in Handling
  BY DEF SuppressMatch, Handling
<1>2. /\ eval' = [eval EXCEPT ![e] = s]
      /\ matches' = [matches EXCEPT ![m].status = "suppressed"] \/ UNCHANGED matches
      /\ UNCHANGED <<catalogVars, alerts, suppressions, investigations, promo, silencing, ops, born>>
      /\ versions' = versions /\ suppressions' = suppressions /\ alerts' = alerts /\ born' = born
  BY <1>1, HandlingKnows DEF SuppressMatch, TypeOK, catalogVars
<1>3. /\ s \in Eval /\ s.pc = "match" /\ s.cur = NONE /\ s.rule = eval[e].rule
      /\ s.found = eval[e].found /\ s.queue = eval[e].queue /\ s.lost = eval[e].lost
      /\ s.ruleSuppressed = eval[e].ruleSuppressed /\ s.ruleSeen = eval[e].ruleSeen
      /\ s.blind = eval[e].blind
  BY <1>1, HandlingKnows, NextMatchType
<1> HIDE DEF s
<1>4. m \in Match /\ matches[m].status # Absent /\ suppressions # <<>>
  BY <1>1, HandlingKnows DEF CurrentMatch, NothingMissed
<1>5. /\ matches' \in [Match -> MatchRow]
      /\ \A k \in Match :
            /\ matches'[k].status = matches[k].status
               \/ (k = m /\ matches'[k].status = "suppressed")
            /\ matches'[k].last = matches[k].last
  <2>1. matches \in [Match -> MatchRow]
    BY <1>1, HandlingKnows DEF TypeOK
  <2>2. CASE UNCHANGED matches
    BY <2>1, <2>2
  <2>3. CASE matches' = [matches EXCEPT ![m].status = "suppressed"]
    <3>1. PICK row : row = [matches[m] EXCEPT !.status = "suppressed"]
      OBVIOUS
    <3>2. row \in MatchRow /\ row.status = "suppressed" /\ row.last = matches[m].last
      BY <1>4, <2>1, <3>1 DEF MatchRow
    <3>3. matches' = [matches EXCEPT ![m] = row]
      BY <2>1, <2>3, <3>1
    <3> QED
      BY <1>4, <2>1, <3>2, <3>3
  <2> QED
    BY <1>2, <2>2, <2>3
<1> HIDE DEF m
<1>6. TypeOK' /\ eval'[e] = s
  <2>1. alerts' \in [Match -> AlertRow] /\ born' \in [Match -> {Absent, "open", "suppressed"}]
    BY <1>1, <1>2, HandlingKnows DEF TypeOK
  <2> QED
    BY <1>1, <1>2, <1>3, <1>5, <2>1, EvaluatorType, HandlingKnows DEF TypeOK
<1>7. \A k \in Match : Named(k)' <=> Named(k)
  BY <1>2, NamedStays
<1>8. Rows'
  BY <1>1, <1>2, <1>4, <1>5, <1>7, HandlingKnows DEF Rows, MatchAndAlert, Absent
<1>9. Grows
  <2>1. \A scope, id : ActiveFor(scope, id)' = ActiveFor(scope, id)
    BY <1>2 DEF ActiveFor
  <2> QED
    BY <1>1, <1>2, <1>5, <1>7, <2>1, HandlingKnows DEF Grows, Absent
<1>10. EngineFound(e)'
  BY <1>1, <1>3, <1>6, <1>9, HandlingKnows, EngineFoundStays DEF Working, Handling, Eval
<1>11. CurrentMatch(e)'
  BY <1>3, <1>6 DEF CurrentMatch, Handling
<1>12. NothingMissed(e)'
  <2>1. ActiveFor("rule", eval[e].rule)' = ActiveFor("rule", eval[e].rule)
    BY <1>2, <1>3, <1>6, ActiveForSame
  <2> QED
    BY <1>1, <1>2, <1>3, <1>6, <2>1, HandlingKnows DEF NothingMissed, Handling
<1>13. FoundShown(e)'
  BY <1>2, <1>4 DEF FoundShown
<1> QED
  BY <1>3, <1>6, <1>8, <1>9, <1>10, <1>11, <1>12, <1>13 DEF EvalInv

(* The alert of a match that is not settled: of one that was born open.    *)
LEMMA UpsertAlertKeeps ==
    ASSUME PipelineInv, NEW e \in Evaluator, UpsertAlert(e)
    PROVE  TypeOK' /\ Grows /\ Rows' /\ EvalInv(e)'
<1> DEFINE m == eval[e].cur
           row == UpsertedAlert(alerts[m], eval[e].saved.last)
           failed == [eval[e] EXCEPT !.lost = eval[e].lost \cup {m}]
<1>1. eval[e].pc = "alert" /\ eval[e].pc \in Handling
  BY DEF UpsertAlert, Handling
<1>2. /\ \/ alerts' = [alerts EXCEPT ![m] = row] /\ eval' = [eval EXCEPT ![e] = NextMatch(eval[e])]
         \/ UNCHANGED alerts /\ eval' = [eval EXCEPT ![e] = NextMatch(failed)]
      /\ UNCHANGED <<catalogVars, matches, suppressions, investigations, promo, silencing, ops, born>>
      /\ versions' = versions /\ suppressions' = suppressions /\ matches' = matches /\ born' = born
  BY <1>1, HandlingKnows DEF UpsertAlert, TypeOK, catalogVars
<1>3. m \in Match /\ born[m] = "open" /\ matches[m].status # Absent
      /\ eval[e].saved.last <= matches[m].last /\ Max(eval[e].found[m]) <= eval[e].saved.last
      /\ eval[e].found[m] # {}
  BY <1>1, HandlingKnows DEF CurrentMatch
<1>4. /\ failed \in Eval /\ failed.rule = eval[e].rule /\ failed.found = eval[e].found
      /\ failed.queue = eval[e].queue /\ failed.lost = eval[e].lost \cup {m}
      /\ failed.ruleSuppressed = eval[e].ruleSuppressed /\ failed.ruleSeen = eval[e].ruleSeen
      /\ failed.blind = eval[e].blind
  BY <1>1, <1>3, HandlingKnows DEF Eval
<1> HIDE DEF failed
<1>5. PICK s : /\ eval' = [eval EXCEPT ![e] = s]
               /\ s = NextMatch(eval[e]) \/ s = NextMatch(failed)
               /\ alerts' = [alerts EXCEPT ![m] = row] \/ (alerts' = alerts /\ s = NextMatch(failed))
  BY <1>2
<1>6. /\ s \in Eval /\ s.pc = "match" /\ s.cur = NONE /\ s.rule = eval[e].rule
      /\ s.found = eval[e].found /\ s.queue = eval[e].queue /\ eval[e].lost \subseteq s.lost
      /\ s.ruleSuppressed = eval[e].ruleSuppressed /\ s.ruleSeen = eval[e].ruleSeen
      /\ s.blind = eval[e].blind
      /\ s = NextMatch(failed) => m \in s.lost
  <2>1. eval[e] \in Eval
    BY <1>1, HandlingKnows
  <2>2. CASE s = NextMatch(eval[e]) /\ s # NextMatch(failed)
    BY <2>1, <2>2, NextMatchType
  <2>3. CASE s = NextMatch(failed)
    BY <1>4, <2>3, NextMatchType
  <2> QED
    BY <1>5, <2>2, <2>3
<1>7. /\ row \in AlertRow /\ row.status # Absent
      /\ eval[e].saved.last <= row.last /\ row.last <= matches[m].last /\ row.last \in Nat
      /\ alerts[m].status # Absent => alerts[m].last <= row.last
  <2>1. alerts[m] \in AlertRow
    BY <1>1, <1>3, HandlingKnows DEF TypeOK
  <2>2. eval[e].saved.last \in Time \cup {0}
    BY <1>1, HandlingKnows DEF Eval
  <2>3. MatchAndAlert(m)
    BY <1>1, <1>3, HandlingKnows
  <2>4. /\ row \in AlertRow /\ row.status # Absent /\ eval[e].saved.last <= row.last
        /\ row.last = eval[e].saved.last \/ row.last = alerts[m].last
        /\ alerts[m].status # Absent => alerts[m].last <= row.last
    BY <2>1, <2>2, UpsertedAlertType
  <2>5. row.last \in Nat
    BY <1>1, <1>3, <2>4, RowTypes, HandlingKnows
  <2> QED
    BY <1>3, <2>3, <2>4, <2>5 DEF MatchAndAlert
<1> HIDE DEF row
<1>8. /\ alerts' \in [Match -> AlertRow]
      /\ \A k \in Match : (alerts'[k] = alerts[k]) \/ (k = m /\ alerts'[k] = row)
      /\ (alerts'[m] = row) \/ m \in s.lost
  BY <1>1, <1>3, <1>5, <1>6, <1>7, HandlingKnows DEF TypeOK
<1> HIDE DEF m
<1>9. TypeOK' /\ eval'[e] = s
  <2>1. matches' \in [Match -> MatchRow] /\ born' \in [Match -> {Absent, "open", "suppressed"}]
    BY <1>1, <1>2, HandlingKnows DEF TypeOK
  <2> QED
    BY <1>1, <1>2, <1>5, <1>6, <1>8, <2>1, EvaluatorType, HandlingKnows DEF TypeOK
<1>10. \A k \in Match : Named(k)' <=> Named(k)
  BY <1>2, NamedStays
<1>11. Rows'
  <2> SUFFICES ASSUME NEW k \in Match PROVE MatchAndAlert(k)'
    BY DEF Rows
  <2>1. MatchAndAlert(k)
    BY <1>1, HandlingKnows
  <2>2. CASE alerts'[k] = alerts[k]
    BY <1>2, <1>10, <2>1, <2>2 DEF MatchAndAlert
  <2>3. CASE k = m /\ alerts'[k] = row
    BY <1>2, <1>3, <1>7, <1>10, <2>1, <2>3 DEF MatchAndAlert
  <2> QED
    BY <1>8, <2>2, <2>3
<1>12. Grows
  <2>1. \A scope, id : ActiveFor(scope, id)' = ActiveFor(scope, id)
    BY <1>2 DEF ActiveFor
  <2> QED
    BY <1>1, <1>2, <1>7, <1>8, <1>10, <2>1, HandlingKnows DEF Grows
<1>13. EngineFound(e)'
  BY <1>1, <1>6, <1>9, <1>12, HandlingKnows, EngineFoundStays DEF Working, Handling, Eval
<1>14. CurrentMatch(e)'
  BY <1>6, <1>9 DEF CurrentMatch, Handling
<1>15. NothingMissed(e)'
  <2>1. ActiveFor("rule", eval[e].rule)' = ActiveFor("rule", eval[e].rule)
    BY <1>2, <1>6, <1>9, ActiveForSame
  <2> QED
    BY <1>1, <1>2, <1>6, <1>9, <2>1, HandlingKnows DEF NothingMissed, Handling
<1>16. FoundShown(e)'
  <2> SUFFICES ASSUME suppressions = <<>>, NEW k \in Match, k \notin s.queue, k \notin s.lost,
                      s.found[k] # {}
               PROVE  Shown(e, k)'
    BY <1>2, <1>6, <1>9 DEF FoundShown
  <2>1. CASE k = m
    <3>1. Max(eval[e].found[m]) \in Nat /\ eval[e].saved.last \in Nat
      BY <1>1, <1>3, HandlingKnows, FoundLast, RowTypes
    <3>2. Max(eval[e].found[m]) <= row.last
      BY <1>3, <1>7, <3>1
    <3> QED
      BY <1>6, <1>7, <1>8, <1>9, <2>1, <3>2 DEF Shown
  <2>2. CASE k # m
    <3>1. Shown(e, k)
      BY <1>1, <1>6, <2>2, HandlingKnows DEF FoundShown, m
    <3> QED
      BY <1>1, <1>6, <1>9, <1>12, <3>1, HandlingKnows, ShownStays
  <2> QED
    BY <2>1, <2>2
<1> QED
  BY <1>6, <1>9, <1>11, <1>12, <1>13, <1>14, <1>15, <1>16 DEF EvalInv

LEMMA FinishKeeps ==
    ASSUME PipelineInv, NEW e \in Evaluator, FinishEvaluation(e)
    PROVE  TypeOK' /\ Grows /\ Rows' /\ EvalInv(e)'
<1> DEFINE s == [IdleEval EXCEPT !.pc = "done", !.found = eval[e].found, !.lost = eval[e].lost]
<1>1. /\ eval[e].pc = "match" /\ eval[e].queue = {} /\ Local(e, s) /\ eval[e] \in Eval
      /\ CurrentMatch(e) /\ FoundShown(e) /\ TypeOK
  BY DEF FinishEvaluation, PipelineInv, EvalInv, TypeOK
<1>2. s \in Eval /\ s.pc = "done" /\ s.found = eval[e].found /\ s.lost = eval[e].lost
      /\ s.cur = IdleEval.cur /\ s.queue = IdleEval.queue /\ s.ruleSuppressed = IdleEval.ruleSuppressed
  BY <1>1, IdleEvalType DEF Eval, EvalPC
<1>3. s.cur = NONE /\ s.queue = {} /\ ~s.ruleSuppressed
  BY <1>2 DEF IdleEval
<1> HIDE DEF s
<1>4. TypeOK' /\ Grows /\ Rows' /\ eval'[e] = s /\ suppressions' = suppressions
  BY <1>1, <1>2, LocalKeeps DEF Local
<1>5. FoundShown(e)'
  BY <1>1, <1>2, <1>3, <1>4, ShownStays DEF FoundShown, CurrentMatch, Handling
<1>6. EngineFound(e)' /\ CurrentMatch(e)' /\ NothingMissed(e)'
  BY <1>2, <1>3, <1>4 DEF EngineFound, CurrentMatch, NothingMissed, Working, Handling
<1> QED
  BY <1>3, <1>4, <1>5, <1>6 DEF EvalInv

LEMMA CrashKeeps ==
    ASSUME PipelineInv, NEW e \in Evaluator, EvaluationCrash(e)
    PROVE  TypeOK' /\ Grows /\ Rows' /\ EvalInv(e)'
<1> DEFINE s == [IdleEval EXCEPT !.pc = "crashed", !.lost = eval[e].lost]
<1>1. Local(e, s) /\ eval[e] \in Eval
  BY DEF EvaluationCrash, PipelineInv, TypeOK
<1>2. s \in Eval /\ s.pc = "crashed"
      /\ s.cur = IdleEval.cur /\ s.ruleSuppressed = IdleEval.ruleSuppressed
  BY <1>1, IdleEvalType DEF Eval, EvalPC
<1>3. s.cur = NONE /\ ~s.ruleSuppressed
  BY <1>2 DEF IdleEval
<1> HIDE DEF s
<1> QED
  BY <1>1, <1>2, <1>3, LocalKeeps, EndedInv

LEMMA EvaluatorKeeps ==
    ASSUME PipelineInv, NEW e \in Evaluator, EvaluatorStep(e)
    PROVE  TypeOK' /\ Grows /\ Rows' /\ EvalInv(e)'
BY LoadRuleKeeps, RunEngineKeeps, CheckRuleKeeps, UpsertMatchKeeps, UpsertMatchFailsKeeps,
   AttachEvidenceKeeps, SkipAlertKeeps, CheckMatchKeeps, SuppressMatchKeeps, UpsertAlertKeeps,
   FinishKeeps, CrashKeeps
DEF EvaluatorStep

-----------------------------------------------------------------------------
(* The steps of authors, analysts and promotions: none is an evaluation's. *)

(* A step that leaves matches and suppressions alone.                      *)
LEMMA AlertsMoved ==
    ASSUME PipelineInv, alerts' \in [Match -> AlertRow],
           \A m \in Match : alerts'[m].last = alerts[m].last
                            /\ (alerts'[m].status # Absent <=> alerts[m].status # Absent),
           UNCHANGED <<catalogVars, matches, suppressions, eval, born>>
    PROVE  Grows /\ Rows'
<1>1. versions' = versions /\ suppressions' = suppressions /\ matches' = matches /\ born' = born
  BY DEF catalogVars
<1>2. \A m \in Match : Named(m)' <=> Named(m)
  BY <1>1, NamedStays
<1>3. \A m \in Match : MatchAndAlert(m) /\ matches[m].last \in Nat /\ alerts[m].last \in Nat
  BY RowTypes DEF PipelineInv
<1>4. \A scope, id : ActiveFor(scope, id)' = ActiveFor(scope, id)
  BY <1>1 DEF ActiveFor
<1>5. Len(suppressions) \in Nat
  BY RowTypes DEF PipelineInv
<1>6. Rows'
  BY <1>1, <1>2, <1>3 DEF Rows, MatchAndAlert
<1> QED
  BY <1>1, <1>2, <1>3, <1>4, <1>5, <1>6 DEF Grows

LEMMA CatalogKeeps ==
    ASSUME PipelineInv, CatalogNext, UNCHANGED pipelineVars
    PROVE  TypeOK' /\ Grows /\ Rows' /\ AlertsNamed'
<1>1. CatalogTypeOK /\ CatalogTypeOK'
  BY CatalogStepInv DEF PipelineInv, CatalogInv
<1>2. /\ matches' = matches /\ alerts' = alerts /\ suppressions' = suppressions
      /\ investigations' = investigations /\ eval' = eval /\ promo' = promo
      /\ silencing' = silencing /\ ops' = ops /\ born' = born
  BY DEF pipelineVars
<1>3. TypeOK'
  BY <1>1, <1>2 DEF PipelineInv, TypeOK
<1>4. \A m \in Match : Named(m) => Named(m)'
  BY <1>1, CatalogStepKeeps DEF Named
<1>5. \A m \in Match : MatchAndAlert(m) /\ matches[m].last \in Nat /\ alerts[m].last \in Nat
  BY RowTypes DEF PipelineInv
<1>6. \A scope, id : ActiveFor(scope, id)' = ActiveFor(scope, id)
  BY <1>2 DEF ActiveFor
<1>7. Len(suppressions) \in Nat
  BY RowTypes DEF PipelineInv
<1>8. Rows'
  BY <1>2, <1>4, <1>5 DEF Rows, MatchAndAlert
<1>9. AlertsNamed'
  BY <1>2 DEF PipelineInv, AlertsNamed
<1> QED
  BY <1>2, <1>3, <1>4, <1>5, <1>6, <1>7, <1>8, <1>9 DEF Grows

(* A new suppression comes after those there are; one that is lifted is    *)
(* active no more.                                                         *)
LEMMA SuppressionsMoved ==
    ASSUME PipelineInv, UNCHANGED <<catalogVars, matches, alerts, eval, born>>,
           \/ \E s \in Suppression : suppressions' = Append(suppressions, s)
           \/ \E i \in DOMAIN suppressions :
                 suppressions' = [suppressions EXCEPT ![i].active = FALSE]
    PROVE  Grows /\ Rows' /\ suppressions' \in Seq(Suppression)
<1>1. versions' = versions /\ alerts' = alerts /\ matches' = matches /\ born' = born
  BY DEF catalogVars
<1>2. \A m \in Match : Named(m)' <=> Named(m)
  BY <1>1, NamedStays
<1>3. \A m \in Match : MatchAndAlert(m) /\ matches[m].last \in Nat /\ alerts[m].last \in Nat
  BY RowTypes DEF PipelineInv
<1>4. suppressions \in Seq(Suppression) /\ Len(suppressions) \in Nat
  BY DEF PipelineInv, TypeOK
<1>5. Rows'
  BY <1>1, <1>2, <1>3 DEF Rows, MatchAndAlert
<1> DEFINE Widened ==
             /\ suppressions' \in Seq(Suppression) /\ Len(suppressions) <= Len(suppressions')
             /\ \A i \in DOMAIN suppressions' :
                   \/ i > Len(suppressions)
                   \/ /\ i \in DOMAIN suppressions
                      /\ suppressions'[i].scope = suppressions[i].scope
                      /\ suppressions'[i].on = suppressions[i].on
                      /\ suppressions'[i].active => suppressions[i].active
<1>6. Widened
  <2>1. CASE \E s \in Suppression : suppressions' = Append(suppressions, s)
    BY <1>4, <2>1
  <2>2. ASSUME NEW j \in DOMAIN suppressions,
               suppressions' = [suppressions EXCEPT ![j].active = FALSE]
        PROVE  Widened
    <3>1. PICK s : s = [suppressions[j] EXCEPT !.active = FALSE]
      OBVIOUS
    <3>2. suppressions[j] \in Suppression
      BY <1>4
    <3>3. /\ s \in Suppression /\ s.scope = suppressions[j].scope /\ s.on = suppressions[j].on
          /\ s.active = FALSE
      BY <3>1, <3>2 DEF Suppression
    <3>4. suppressions' = [suppressions EXCEPT ![j] = s]
      BY <2>2, <3>1
    <3> QED
      BY <1>4, <3>3, <3>4
  <2> QED
    BY <2>1, <2>2
<1>7. \A scope, id : \A i \in ActiveFor(scope, id)' : i \in ActiveFor(scope, id) \/ i > Len(suppressions)
  BY <1>6 DEF ActiveFor
<1>8. suppressions # <<>> => suppressions' # <<>>
  BY <1>4, <1>6
<1> QED
  BY <1>1, <1>2, <1>3, <1>5, <1>6, <1>7, <1>8 DEF Grows

LEMMA AnalystKeeps ==
    ASSUME PipelineInv, AnalystStep
    PROVE  TypeOK' /\ Grows /\ Rows' /\ AlertsNamed' /\ eval' = eval
<1>1. TypeOK /\ AlertsNamed /\ ops \in Nat /\ MaxOps \in Nat /\ MaxSuppressions \in Nat
  BY PipelineAssumption DEF PipelineInv, TypeOK
<1>2. ASSUME Analyst PROVE ops' \in 0..MaxOps
  BY <1>1, <1>2 DEF Analyst
<1>3. \A s : suppressions' = Append(suppressions, s) => Len(suppressions') = Len(suppressions) + 1
  BY <1>1 DEF TypeOK
<1>4. ASSUME NEW scope \in {"rule", "match", "alert"}, NEW id \in Rule \cup Match,
             suppressions' = Append(suppressions, [scope |-> scope, on |-> id, active |-> TRUE]),
             UNCHANGED <<catalogVars, matches, alerts, eval, born>>, Len(suppressions) < MaxSuppressions
      PROVE  Grows /\ Rows' /\ suppressions' \in Seq(Suppression) /\ Len(suppressions') <= MaxSuppressions
  <2>1. [scope |-> scope, on |-> id, active |-> TRUE] \in Suppression
    BY DEF Suppression
  <2>2. Grows /\ Rows' /\ suppressions' \in Seq(Suppression)
    BY <1>4, <2>1, SuppressionsMoved
  <2>3. Len(suppressions') = Len(suppressions) + 1 /\ Len(suppressions) \in Nat
    BY <1>1, <1>3, <1>4 DEF TypeOK
  <2> QED
    BY <1>1, <1>4, <2>2, <2>3
<1>5. ASSUME NEW scope \in {"rule", "match"}, NEW id \in Rule \cup Match, Suppress(scope, id)
      PROVE  TypeOK' /\ Grows /\ Rows' /\ AlertsNamed' /\ eval' = eval
  <2>1. Grows /\ Rows' /\ suppressions' \in Seq(Suppression) /\ Len(suppressions') <= MaxSuppressions
    BY <1>4, <1>5 DEF Suppress
  <2>2. TypeOK'
    BY <1>1, <1>2, <1>5, <2>1 DEF Suppress, TypeOK, CatalogTypeOK, catalogVars
  <2> QED
    BY <1>1, <1>5, <2>1, <2>2 DEF Suppress, AlertsNamed
<1>6. ASSUME NEW i \in DOMAIN suppressions, LiftSuppression(i)
      PROVE  TypeOK' /\ Grows /\ Rows' /\ AlertsNamed' /\ eval' = eval
  <2>1. Grows /\ Rows' /\ suppressions' \in Seq(Suppression)
    BY <1>6, SuppressionsMoved DEF LiftSuppression
  <2>2. Len(suppressions') = Len(suppressions)
    BY <1>1, <1>6 DEF LiftSuppression, TypeOK
  <2>3. TypeOK'
    BY <1>1, <1>6, <2>1, <2>2 DEF LiftSuppression, TypeOK, CatalogTypeOK, catalogVars
  <2> QED
    BY <1>1, <1>6, <2>1, <2>3 DEF LiftSuppression, AlertsNamed
<1>7. ASSUME NEW m \in Match, NEW status \in AlertStatus, alerts[m].status # Absent,
             alerts' = [alerts EXCEPT ![m].status = status]
      PROVE  /\ alerts' \in [Match -> AlertRow]
             /\ \A k \in Match : alerts'[k].last = alerts[k].last
                    /\ (alerts'[k].status # Absent <=> alerts[k].status # Absent)
  <2>1. PICK row : row = [alerts[m] EXCEPT !.status = status]
    OBVIOUS
  <2>2. row \in AlertRow /\ row.status = status /\ row.last = alerts[m].last
    BY <1>1, <2>1 DEF TypeOK, AlertRow
  <2>3. alerts' = [alerts EXCEPT ![m] = row] /\ alerts \in [Match -> AlertRow]
    BY <1>1, <1>7, <2>1 DEF TypeOK
  <2>4. status # Absent
    BY DEF AlertStatus, Absent
  <2> QED
    BY <1>7, <2>2, <2>3, <2>4
<1>8. ASSUME NEW m \in Match, NEW status \in {"acknowledged", "resolved"}, UpdateAlertStatus(m, status)
      PROVE  TypeOK' /\ Grows /\ Rows' /\ AlertsNamed' /\ eval' = eval
  <2>1. /\ alerts' \in [Match -> AlertRow]
        /\ \A k \in Match : alerts'[k].last = alerts[k].last
               /\ (alerts'[k].status # Absent <=> alerts[k].status # Absent)
    BY <1>7, <1>8 DEF UpdateAlertStatus, AlertStatus
  <2>2. Grows /\ Rows'
    BY <1>8, <2>1, AlertsMoved DEF UpdateAlertStatus
  <2>3. TypeOK'
    BY <1>1, <1>2, <1>8, <2>1 DEF UpdateAlertStatus, TypeOK, CatalogTypeOK, catalogVars
  <2>4. AlertsNamed'
    BY <1>1, <1>8, <2>1 DEF UpdateAlertStatus, AlertsNamed, TypeOK
  <2> QED
    BY <1>8, <2>2, <2>3, <2>4 DEF UpdateAlertStatus
<1>9. ASSUME NEW m \in Match, SuppressAlert(m)
      PROVE  TypeOK' /\ Grows /\ Rows' /\ AlertsNamed' /\ eval' = eval
  <2>1. Grows /\ Rows' /\ suppressions' \in Seq(Suppression) /\ Len(suppressions') <= MaxSuppressions
    BY <1>4, <1>9 DEF SuppressAlert
  <2>2. TypeOK'
    BY <1>1, <1>2, <1>9, <2>1 DEF SuppressAlert, TypeOK, CatalogTypeOK, catalogVars
  <2>3. AlertsNamed'
    BY <1>1, <1>9 DEF SuppressAlert, AlertsNamed
  <2> QED
    BY <1>9, <2>1, <2>2, <2>3 DEF SuppressAlert
<1>10. ASSUME NEW m \in silencing, SilenceAlert(m)
       PROVE  TypeOK' /\ Grows /\ Rows' /\ AlertsNamed' /\ eval' = eval
  <2>1. m \in Match /\ alerts[m].status # Absent
    BY <1>1 DEF TypeOK, AlertsNamed
  <2>2. /\ alerts' \in [Match -> AlertRow]
        /\ \A k \in Match : alerts'[k].last = alerts[k].last
               /\ (alerts'[k].status # Absent <=> alerts[k].status # Absent)
    <3>1. CASE UNCHANGED alerts
      BY <1>1, <3>1 DEF TypeOK
    <3>2. CASE alerts' = [alerts EXCEPT ![m].status = "suppressed"]
      BY <1>7, <2>1, <3>2 DEF AlertStatus
    <3> QED
      BY <1>10, <3>1, <3>2 DEF SilenceAlert
  <2>3. Grows /\ Rows'
    BY <1>10, <2>2, AlertsMoved DEF SilenceAlert
  <2>4. TypeOK'
    BY <1>1, <1>10, <2>2 DEF SilenceAlert, TypeOK, CatalogTypeOK, catalogVars
  <2>5. AlertsNamed'
    BY <1>1, <1>10, <2>2 DEF SilenceAlert, AlertsNamed, TypeOK
  <2> QED
    BY <1>10, <2>3, <2>4, <2>5 DEF SilenceAlert
<1> QED
  BY <1>5, <1>6, <1>8, <1>9, <1>10 DEF AnalystStep

LEMMA PromoterKeeps ==
    ASSUME PipelineInv, NEW p \in Promoter, PromoterStep(p)
    PROVE  TypeOK' /\ Grows /\ Rows' /\ AlertsNamed' /\ eval' = eval
<1>1. TypeOK /\ AlertsNamed /\ promo \in [Promoter -> Promo] /\ promo[p] \in Promo
  BY DEF PipelineInv, TypeOK
<1>2. ASSUME NEW m \in Match, ReadAlert(p, m)
      PROVE  TypeOK' /\ Grows /\ Rows' /\ AlertsNamed' /\ eval' = eval
  <2>1. PICK s : s = [promo[p] EXCEPT !.pc = "create", !.match = m]
    OBVIOUS
  <2>2. s \in Promo /\ s.match = m
    BY <1>1, <2>1 DEF Promo
  <2>3. promo' = [promo EXCEPT ![p] = s]
    BY <1>1, <1>2, <2>1 DEF ReadAlert
  <2>4. alerts' = alerts /\ alerts[m].status # Absent /\ alerts \in [Match -> AlertRow]
    BY <1>1, <1>2 DEF ReadAlert, Promotable, TypeOK
  <2>5. Grows /\ Rows'
    BY <1>2, <2>4, AlertsMoved DEF ReadAlert
  <2>6. TypeOK'
    BY <1>1, <1>2, <2>2, <2>3 DEF ReadAlert, TypeOK, CatalogTypeOK, catalogVars
  <2>7. AlertsNamed'
    BY <1>1, <1>2, <2>2, <2>3, <2>4 DEF ReadAlert, AlertsNamed
  <2> QED
    BY <1>2, <2>5, <2>6, <2>7 DEF ReadAlert
<1>3. ASSUME CreateInvestigation(p)
      PROVE  TypeOK' /\ Grows /\ Rows' /\ AlertsNamed' /\ eval' = eval
  <2>1. promo[p].match \in Match /\ alerts[promo[p].match].status # Absent
    BY <1>1, <1>3 DEF CreateInvestigation, AlertsNamed
  <2>2. investigations' \in Seq(Match) /\ Len(investigations') \in Nat
    BY <1>1, <1>3, <2>1 DEF CreateInvestigation, TypeOK
  <2>3. PICK s : s = [promo[p] EXCEPT !.pc = "link", !.investigation = Len(investigations')]
    OBVIOUS
  <2>4. s \in Promo /\ s.match = promo[p].match
    BY <1>1, <2>2, <2>3 DEF Promo
  <2>5. promo' = [promo EXCEPT ![p] = s]
    BY <1>1, <1>3, <2>3 DEF CreateInvestigation
  <2>6. alerts' = alerts /\ alerts \in [Match -> AlertRow]
    BY <1>1, <1>3 DEF CreateInvestigation, TypeOK
  <2>7. Grows /\ Rows'
    BY <1>3, <2>6, AlertsMoved DEF CreateInvestigation
  <2>8. TypeOK'
    BY <1>1, <1>3, <2>2, <2>4, <2>5 DEF CreateInvestigation, TypeOK, CatalogTypeOK, catalogVars
  <2>9. AlertsNamed'
    BY <1>1, <1>3, <2>1, <2>4, <2>5, <2>6 DEF CreateInvestigation, AlertsNamed
  <2> QED
    BY <1>3, <2>7, <2>8, <2>9 DEF CreateInvestigation
<1>4. ASSUME LinkAlert(p)
      PROVE  TypeOK' /\ Grows /\ Rows' /\ AlertsNamed' /\ eval' = eval
  <2> DEFINE m == promo[p].match
  <2>1. m \in Match /\ alerts[m].status # Absent
    BY <1>1, <1>4 DEF LinkAlert, AlertsNamed
  <2>2. PICK s : s = [promo[p] EXCEPT !.pc = "done"]
    OBVIOUS
  <2>3. s \in Promo /\ s.match = m
    BY <1>1, <2>2 DEF Promo
  <2>4. promo' = [promo EXCEPT ![p] = s]
    BY <1>1, <1>4, <2>2 DEF LinkAlert
  <2> HIDE DEF m
  <2>5. /\ alerts' \in [Match -> AlertRow]
        /\ \A k \in Match : alerts'[k].last = alerts[k].last
               /\ (alerts'[k].status # Absent <=> alerts[k].status # Absent)
    <3>1. CASE UNCHANGED alerts
      BY <1>1, <3>1 DEF TypeOK
    <3>2. CASE alerts' = [alerts EXCEPT ![m].investigation = promo[p].investigation,
                                        ![m].status = "investigating"]
      <4>1. PICK row : row = [alerts[m] EXCEPT !.investigation = promo[p].investigation,
                                               !.status = "investigating"]
        OBVIOUS
      <4>2. row \in AlertRow /\ row.status = "investigating" /\ row.last = alerts[m].last
        <5>1. alerts[m] \in AlertRow
          BY <1>1, <2>1 DEF TypeOK
        <5>2. promo[p].investigation \in Nat
          BY <1>1 DEF Promo
        <5> QED
          BY <4>1, <5>1, <5>2 DEF AlertRow, AlertStatus
      <4>3. alerts \in [Match -> AlertRow]
        BY <1>1 DEF TypeOK
      <4>4. PICK linked : linked = [alerts EXCEPT ![m].investigation = promo[p].investigation]
        OBVIOUS
      <4>5. alerts' = [linked EXCEPT ![m].status = "investigating"]
        BY <3>2, <4>4
      <4>6. \A k \in Match : alerts'[k] = IF k = m THEN row ELSE alerts[k]
        BY <2>1, <4>1, <4>3, <4>4, <4>5
      <4>7. alerts' = [k \in Match |-> alerts'[k]]
        BY <4>3, <4>4, <4>5
      <4> QED
        BY <2>1, <4>2, <4>3, <4>6, <4>7 DEF Absent
    <3> QED
      BY <1>4, <3>1, <3>2 DEF LinkAlert, m
  <2>6. Grows /\ Rows'
    BY <1>4, <2>5, AlertsMoved DEF LinkAlert
  <2>7. TypeOK'
    BY <1>1, <1>4, <2>3, <2>4, <2>5 DEF LinkAlert, TypeOK, CatalogTypeOK, catalogVars
  <2>8. AlertsNamed'
    BY <1>1, <1>4, <2>1, <2>3, <2>4, <2>5 DEF LinkAlert, AlertsNamed, TypeOK
  <2> QED
    BY <1>4, <2>6, <2>7, <2>8 DEF LinkAlert
<1> QED
  BY <1>2, <1>3, <1>4 DEF PromoterStep

-----------------------------------------------------------------------------
(* The invariant holds, and what follows from it.                          *)

LEMMA PipelineInitInv == Init => PipelineInv
<1> SUFFICES ASSUME Init PROVE PipelineInv
  OBVIOUS
<1>1. TypeOK /\ CatalogInv
  BY PipelineInitType, CatalogInitInv DEF Init
<1>2. ASSUME NEW m \in Match PROVE MatchAndAlert(m)
  <2>1. born[m] = matches[m].status
    BY DEF Init
  <2>2. matches[m].status # Absent => Named(m)
    <3>1. matches[m].status # Absent => matches[m] # NoRow
      BY DEF NoRow
    <3>2. RuleOf[m] \in Rule
      BY PipelineAssumption
    <3> QED
      BY <3>1, <3>2 DEF Init, VersionsOf, Named
  <2>3. \/ alerts[m] = NoAlert
        \/ alerts[m].status # Absent /\ matches[m].status = "open" /\ alerts[m].last = matches[m].last
    BY DEF Init
  <2>4. matches[m].last \in Nat
    BY <1>1, RowTypes
  <2>5. CASE alerts[m] = NoAlert
    BY <2>1, <2>2, <2>4, <2>5 DEF MatchAndAlert, NoAlert
  <2>6. CASE alerts[m] # NoAlert
    BY <2>1, <2>2, <2>3, <2>4, <2>6 DEF MatchAndAlert
  <2> QED
    BY <2>5, <2>6
<1>3. ASSUME NEW e \in Evaluator PROVE EvalInv(e)
  <2>1. eval[e].pc = "idle" /\ eval[e].cur = NONE /\ ~eval[e].ruleSuppressed
    BY DEF Init, IdleEval
  <2> QED
    BY <2>1 DEF EvalInv, EngineFound, CurrentMatch, NothingMissed, FoundShown, Working, Handling
<1>4. AlertsNamed
  BY DEF Init, AlertsNamed
<1> QED
  BY <1>1, <1>2, <1>3, <1>4 DEF PipelineInv

(* Every step keeps the types, takes nothing back and keeps the rows in    *)
(* order.                                                                  *)
LEMMA StepKeeps ==
    ASSUME PipelineInv, [Next]_vars
    PROVE  /\ TypeOK' /\ Grows /\ Rows' /\ AlertsNamed' /\ CatalogInv'
           /\ \A e \in Evaluator : eval'[e] # eval[e] => EvalInv(e)'
<1>1. CASE CatalogNext /\ UNCHANGED pipelineVars
  BY <1>1, CatalogKeeps, CatalogStepInv DEF PipelineInv, pipelineVars
<1>2. ASSUME CatalogInv /\ UNCHANGED catalogVars PROVE CatalogInv'
  BY <1>2, CatalogStutterInv
<1>3. ASSUME NEW e \in Evaluator, EvaluatorStep(e)
      PROVE  /\ TypeOK' /\ Grows /\ Rows' /\ AlertsNamed' /\ CatalogInv'
             /\ \A d \in Evaluator : eval'[d] # eval[d] => EvalInv(d)'
  <2>1. TypeOK' /\ Grows /\ Rows' /\ EvalInv(e)'
    BY <1>3, EvaluatorKeeps
  <2>2. /\ UNCHANGED <<catalogVars, promo, silencing>>
        /\ \A d \in Evaluator : d # e => eval'[d] = eval[d]
    <3>1. eval \in [Evaluator -> Eval]
      BY DEF PipelineInv, TypeOK
    <3> QED
      BY <1>3, <3>1 DEF EvaluatorStep, LoadRule, RunEngine, CheckRule, UpsertMatch, UpsertMatchFails,
         AttachEvidence, SkipAlert, CheckMatch, SuppressMatch, UpsertAlert, FinishEvaluation,
         EvaluationCrash, Local
  <2>3. AlertsNamed'
    BY <2>1, <2>2 DEF PipelineInv, AlertsNamed, Grows, TypeOK
  <2>4. CatalogInv'
    BY <1>2, <2>2 DEF PipelineInv
  <2> QED
    BY <2>1, <2>2, <2>3, <2>4
<1>4. CASE AnalystStep
  <2>1. UNCHANGED catalogVars
    BY <1>4 DEF AnalystStep, Suppress, LiftSuppression, UpdateAlertStatus, SuppressAlert, SilenceAlert
  <2> QED
    BY <1>2, <1>4, <2>1, AnalystKeeps DEF PipelineInv
<1>5. ASSUME NEW p \in Promoter, PromoterStep(p)
      PROVE  /\ TypeOK' /\ Grows /\ Rows' /\ AlertsNamed' /\ CatalogInv' /\ eval' = eval
  <2>1. UNCHANGED catalogVars
    BY <1>5 DEF PromoterStep, ReadAlert, CreateInvestigation, LinkAlert
  <2> QED
    BY <1>2, <1>5, <2>1, PromoterKeeps DEF PipelineInv
<1>6. CASE UNCHANGED vars
  <2>1. /\ UNCHANGED <<catalogVars, matches, suppressions, eval, born>>
        /\ alerts' = alerts /\ promo' = promo /\ silencing' = silencing /\ ops' = ops
        /\ investigations' = investigations
    BY <1>6 DEF vars, pipelineVars
  <2>2. TypeOK'
    BY <2>1 DEF PipelineInv, TypeOK, CatalogTypeOK, catalogVars
  <2>3. alerts \in [Match -> AlertRow]
    BY DEF PipelineInv, TypeOK
  <2>4. Grows /\ Rows'
    BY <2>1, <2>3, AlertsMoved
  <2>5. AlertsNamed'
    BY <2>1 DEF PipelineInv, AlertsNamed
  <2> QED
    BY <1>2, <2>1, <2>2, <2>4, <2>5 DEF PipelineInv
<1> QED
  BY <1>1, <1>3, <1>4, <1>5, <1>6 DEF Next

LEMMA PipelineStepInv ==
    ASSUME PipelineInv, [Next]_vars PROVE PipelineInv'
<1>1. TypeOK' /\ Grows /\ Rows' /\ AlertsNamed' /\ CatalogInv'
  BY StepKeeps
<1>2. ASSUME NEW e \in Evaluator PROVE EvalInv(e)'
  <2>1. CASE eval'[e] # eval[e]
    BY <2>1, StepKeeps
  <2>2. CASE eval'[e] = eval[e]
    BY <1>1, <2>2, OthersKeep DEF PipelineInv
  <2> QED
    BY <2>1, <2>2
<1> QED
  BY <1>1, <1>2 DEF PipelineInv, Rows

(* The inductive invariant holds of every behaviour of the pipeline.       *)
THEOREM PipelineInvariant == Spec => []PipelineInv
<1>1. PipelineInv /\ [Next]_vars => PipelineInv'
  BY PipelineStepInv
<1> QED
  BY PipelineInitInv, <1>1, PTL DEF Spec

(* Rules, versions, matches, alerts, suppressions and the local state of   *)
(* every process stay within their types.                                  *)
THEOREM PipelineTypeCorrect == Spec => []TypeOK
<1>1. PipelineInv => TypeOK
  BY DEF PipelineInv
<1> QED
  BY <1>1, PipelineInvariant, PTL

(* The catalogue keeps its promises inside the pipeline: nothing an        *)
(* evaluation, an analyst or a promotion does touches it.                  *)
THEOREM PipelineUsesCatalog == Spec => CatalogSpec
<1>1. Init => CatalogInit
  BY DEF Init
<1>2. [Next]_vars => [CatalogNext]_catalogVars
  BY DEF Next, vars, EvaluatorStep, LoadRule, RunEngine, CheckRule, UpsertMatch, UpsertMatchFails,
     AttachEvidence, SkipAlert, CheckMatch, SuppressMatch, UpsertAlert, FinishEvaluation,
     EvaluationCrash, Local, AnalystStep, Suppress, LiftSuppression, UpdateAlertStatus,
     SuppressAlert, SilenceAlert, PromoterStep, ReadAlert, CreateInvestigation, LinkAlert
<1> QED
  BY <1>1, <1>2, PTL DEF Spec, CatalogSpec

(* Version numbers have no gaps and no duplicates while evaluations run.   *)
THEOREM PipelineNumbered == Spec => []VersionsNumbered
BY PipelineUsesCatalog, CatalogNumbered, PTL

(* A match that was born suppressed never gets an alert, whichever other   *)
(* evaluation reports it (Service.Evaluate's two checks).                  *)
THEOREM SilentBirths == Spec => []SuppressedBirthsStaySilent
<1>1. PipelineInv => SuppressedBirthsStaySilent
  BY DEF PipelineInv, MatchAndAlert, SuppressedBirthsStaySilent
<1> QED
  BY <1>1, PipelineInvariant, PTL

(* The rule and version every stored match names are in the catalogue.     *)
THEOREM MatchesTraced == Spec => []MatchesTraceable
<1>1. PipelineInv => MatchesTraceable
  BY DEF PipelineInv, MatchAndAlert, MatchesTraceable, Named
<1> QED
  BY <1>1, PipelineInvariant, PTL

(* An alert never shows a later observation than its match.                *)
THEOREM AlertsFollowMatches == Spec => []AlertNotAhead
<1>1. PipelineInv => AlertNotAhead
  BY DEF PipelineInv, MatchAndAlert, AlertNotAhead
<1> QED
  BY <1>1, PipelineInvariant, PTL

(* An evaluation that ends without a suppression in sight leaves an up to  *)
(* date alert for every open match it found and lost no statement of.      *)
THEOREM EvaluationsCatchUp == Spec => []CaughtUp
<1>1. ASSUME PipelineInv PROVE CaughtUp
  <2> SUFFICES ASSUME NEW e \in Evaluator, eval[e].pc = "done", suppressions = <<>>,
                      NEW m \in Match \ eval[e].lost, eval[e].found[m] # {}, matches[m].status = "open"
               PROVE  alerts[m].status # Absent /\ alerts[m].last >= Max(eval[e].found[m])
    BY DEF CaughtUp
  <2>1. TypeOK /\ EvalInv(e)
    BY <1>1 DEF PipelineInv
  <2>2. eval[e].queue = {} /\ eval[e].cur = NONE /\ m # NONE
    BY <2>1, PipelineAssumption DEF EvalInv, CurrentMatch, Handling
  <2>3. Shown(e, m)
    BY <2>1, <2>2 DEF EvalInv, FoundShown
  <2>4. Max(eval[e].found[m]) \in Nat /\ alerts[m].last \in Nat
    BY <2>1, FoundLast, RowTypes
  <2> QED
    BY <2>3, <2>4 DEF Shown
<1> QED
  BY <1>1, PipelineInvariant, PTL

(* Only an evaluation's upsert brings an alert into being.                 *)
LEMMA AlertBorn ==
    ASSUME PipelineInv, [Next]_vars, NEW m \in Match, NEW e \in Evaluator,
           alerts[m].status = Absent, alerts'[m].status # Absent, eval'[e] # eval[e]
    PROVE  eval[e].pc = "alert" /\ eval[e].cur = m
<1>1. alerts' # alerts /\ eval' # eval /\ alerts \in [Match -> AlertRow] /\ eval \in [Evaluator -> Eval]
  BY DEF PipelineInv, TypeOK
<1>2. ~(CatalogNext /\ UNCHANGED pipelineVars) /\ ~UNCHANGED vars
  BY <1>1 DEF pipelineVars, vars
<1>3. ~AnalystStep /\ ~ \E p \in Promoter : PromoterStep(p)
  BY <1>1, AnalystKeeps, PromoterKeeps
<1>4. PICK d \in Evaluator : EvaluatorStep(d)
  BY <1>2, <1>3 DEF Next
<1>5. UpsertAlert(d)
  BY <1>1, <1>4 DEF EvaluatorStep, LoadRule, RunEngine, CheckRule, UpsertMatch, UpsertMatchFails,
     AttachEvidence, SkipAlert, CheckMatch, SuppressMatch, FinishEvaluation, EvaluationCrash, Local
<1>6. d = e
  BY <1>1, <1>5 DEF UpsertAlert
<1>7. PICK row : alerts' = [alerts EXCEPT ![eval[e].cur] = row]
  BY <1>1, <1>5, <1>6 DEF UpsertAlert
<1> QED
  BY <1>1, <1>5, <1>6, <1>7 DEF UpsertAlert

(* A new alert under an active suppression of its rule or match: only when *)
(* the suppression is younger than the check, or a check had failed.       *)
THEOREM LateSuppressionsOnly == Spec => OnlyLateSuppressionMissed
<1> DEFINE Late(m, e) ==
        alerts[m].status = Absent /\ alerts'[m].status # Absent /\ eval'[e] # eval[e] /\ ~eval[e].blind =>
             \A i \in DOMAIN suppressions :
                LET s == suppressions[i] IN
                /\ s.active /\ s.scope = "rule" /\ s.on = RuleOf[m] => i > eval[e].ruleSeen
                /\ s.active /\ s.scope = "match" /\ s.on = m => i > eval[e].matchSeen
<1>1. ASSUME PipelineInv, [Next]_vars, NEW m \in Match, NEW e \in Evaluator PROVE Late(m, e)
  <2> SUFFICES ASSUME alerts[m].status = Absent, alerts'[m].status # Absent, eval'[e] # eval[e],
                      ~eval[e].blind, NEW i \in DOMAIN suppressions
               PROVE  /\ suppressions[i].active /\ suppressions[i].scope = "rule"
                            /\ suppressions[i].on = RuleOf[m] => i > eval[e].ruleSeen
                      /\ suppressions[i].active /\ suppressions[i].scope = "match"
                            /\ suppressions[i].on = m => i > eval[e].matchSeen
    OBVIOUS
  <2>1. eval[e].pc = "alert" /\ eval[e].cur = m /\ eval[e].pc \in Handling
    BY <1>1, AlertBorn DEF Handling
  <2>2. EngineFound(e) /\ CurrentMatch(e) /\ NothingMissed(e)
    BY <1>1 DEF PipelineInv, EvalInv
  <2>3. ~eval[e].ruleSuppressed /\ RuleOf[m] = eval[e].rule
    BY <2>1, <2>2 DEF CurrentMatch, Settles, EngineFound, Working
  <2>4. /\ \A j \in ActiveFor("rule", RuleOf[m]) : j > eval[e].ruleSeen
        /\ \A j \in ActiveFor("match", m) : j > eval[e].matchSeen
    BY <2>1, <2>2, <2>3 DEF NothingMissed
  <2> QED
    BY <2>4 DEF ActiveFor
<1>2. PipelineInv /\ [Next]_vars => [\A m \in Match, e \in Evaluator : Late(m, e)]_vars
  BY <1>1
<1> QED
  BY <1>2, PipelineInvariant, PTL DEF Spec, OnlyLateSuppressionMissed

(* No evaluation undoes a decision: a suppressed match stays suppressed    *)
(* and the status of an alert moves only by an analyst or a promotion.     *)
THEOREM DecisionsStay == Spec => DecisionsKept
<1> DEFINE Kept(m) ==
          /\ matches[m].status = "suppressed" => matches'[m].status = "suppressed"
          /\ alerts[m].status # Absent /\ alerts'[m].status # alerts[m].status =>
                ops' # ops \/ silencing' # silencing \/ promo' # promo
<1>1. ASSUME PipelineInv, [Next]_vars, NEW m \in Match PROVE Kept(m)
  <2>1. matches[m].status = "suppressed" => matches'[m].status = "suppressed"
    BY <1>1, StepKeeps DEF Grows
  <2>2. ASSUME alerts[m].status # Absent, alerts'[m].status # alerts[m].status
        PROVE  ops' # ops \/ silencing' # silencing \/ promo' # promo
    <3>1. TypeOK /\ alerts' # alerts /\ ops \in Nat
      BY <1>1, <2>2 DEF PipelineInv, TypeOK
    <3>2. ~(CatalogNext /\ UNCHANGED pipelineVars) /\ ~UNCHANGED vars
      BY <3>1 DEF pipelineVars, vars
    <3>3. ASSUME NEW e \in Evaluator, EvaluatorStep(e) PROVE FALSE
      <4>1. UpsertAlert(e)
        BY <3>1, <3>3 DEF EvaluatorStep, LoadRule, RunEngine, CheckRule, UpsertMatch, UpsertMatchFails,
          AttachEvidence, SkipAlert, CheckMatch, SuppressMatch, FinishEvaluation, EvaluationCrash, Local
      <4>2. eval[e].saved.last \in Time \cup {0} /\ alerts[m] \in AlertRow
        BY <3>1 DEF TypeOK, Eval
      <4>3. UpsertedAlert(alerts[m], eval[e].saved.last).status = alerts[m].status
        BY <2>2, <4>2, UpsertedAlertType
      <4> QED
        BY <2>2, <3>1, <4>1, <4>3 DEF UpsertAlert, TypeOK
    <3>4. ASSUME AnalystStep PROVE ops' # ops \/ silencing' # silencing
      <4>1. ASSUME NEW k \in silencing, SilenceAlert(k) PROVE silencing' # silencing
        BY <4>1 DEF SilenceAlert
      <4>2. ASSUME Analyst PROVE ops' # ops
        BY <3>1, <4>2 DEF Analyst
      <4>3. ASSUME NEW i \in DOMAIN suppressions, LiftSuppression(i) PROVE FALSE
        BY <3>1, <4>3 DEF LiftSuppression
      <4> QED
        BY <3>4, <4>1, <4>2, <4>3 DEF AnalystStep, Suppress, UpdateAlertStatus, SuppressAlert
    <3>5. ASSUME NEW p \in Promoter, PromoterStep(p) PROVE promo' # promo
      BY <3>1, <3>5 DEF PromoterStep, ReadAlert, CreateInvestigation, LinkAlert, TypeOK, Promo
    <3> QED
      BY <1>1, <3>2, <3>3, <3>4, <3>5 DEF Next
  <2> QED
    BY <2>1, <2>2
<1>2. PipelineInv /\ [Next]_vars => [\A m \in Match : Kept(m)]_vars
  BY <1>1
<1> QED
  BY <1>2, PipelineInvariant, PTL DEF Spec, DecisionsKept

=============================================================================
