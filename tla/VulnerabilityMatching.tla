----------------------- MODULE VulnerabilityMatching -----------------------
(* A technology's observed version against the version constraints of a     *)
(* catalogue entry for the same product.                                    *)
(* internal/intelligence/vulnerability.go, domain/intelligence/             *)
(* vulnerability.go.                                                        *)
EXTENDS Integers, Sequences, SequencesExt

CONSTANT Parsed   \* version text -> its leading dotted numbers, << >> where there are none

MatchStatuses == {"confirmed", "probable", "insufficient_evidence", "no_match"}
\* One constraint: an operator and a version text; "?" stands for an unknown operator.
Constraint(op, text) == [op |-> op, version |-> text]

\* The shorter version is padded with zeros.
Compare(a, b) ==
    LET At(v, k) == IF k <= Len(v) THEN v[k] ELSE 0
        differ == {k \in 1..(IF Len(a) > Len(b) THEN Len(a) ELSE Len(b)) : At(a, k) # At(b, k)}
    IN IF differ = {} THEN 0 ELSE IF At(a, Min(differ)) < At(b, Min(differ)) THEN -1 ELSE 1

HoldsOf(op, cmp) ==
    CASE op = "<=" -> cmp <= 0 [] op = ">=" -> cmp >= 0 [] op = "==" -> cmp = 0
      [] op = "<" -> cmp < 0 [] op = ">" -> cmp > 0

Unreadable(c) == c.op \notin {"<=", ">=", "==", "<", ">"} \/ Parsed[c.version] = <<>>
Satisfies(v, cs) == \A c \in ToSet(cs) : HoldsOf(c.op, Compare(v, Parsed[c.version]))
\* Any difference in precision, in either direction.
Ambiguous(v, cs) == \E c \in ToSet(cs) : Len(v) # Len(Parsed[c.version])

EvaluateEntry(text, constraints) ==
    CASE text = "" -> "insufficient_evidence"
      [] text # "" /\ Parsed[text] = <<>> -> "probable"
      [] text # "" /\ Parsed[text] # <<>> ->
           IF constraints = <<>> \/ \E c \in ToSet(constraints) : Unreadable(c) THEN "probable"
           ELSE IF ~Satisfies(Parsed[text], constraints) THEN "no_match"
           ELSE IF Ambiguous(Parsed[text], constraints) THEN "probable" ELSE "confirmed"
=============================================================================
