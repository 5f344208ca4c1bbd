----------------------------- MODULE RuleCatalog -----------------------------
(***************************************************************************)
(* Detection rules and their immutable versions: CreateRule, CreateVersion, *)
(* Enable/Disable/Deprecate and SetVersionEnabled of internal/service/rule, *)
(* over the tables `rules` and `rule_versions`.                            *)
(*                                                                         *)
(* Authors are CLI processes.  Creating a version is one INSERT whose      *)
(* number is a subselect on the statement's snapshot, so it is two steps   *)
(* here: the number is taken, then the row goes in or meets the unique     *)
(* index on (rule_id, version).  The rule's severity follows in a second   *)
(* statement.  A definition is represented by the severity it declares.    *)
(***************************************************************************)
EXTENDS Naturals, FiniteSets, FiniteSetsExt

CONSTANTS
    Rule,        \* rule names of one target
    Author,      \* processes that create rules and versions
    Severity,
    MaxVersion,  \* bound: versions of a rule
    MaxEdits,    \* bound: status changes and version toggles
    Faults,      \* the failures this instance admits
    NONE

ASSUME CatalogAssumption ==
    /\ MaxVersion \in Nat \ {0}
    /\ MaxEdits \in Nat
    /\ NONE \notin Rule \cup Severity

Absent == "absent"
RuleStatus == {"draft", "enabled", "disabled", "deprecated"}

(* Status.Active: only such a rule is evaluated.                           *)
Active(status) == status = "enabled"

VARIABLES
    rules,     \* rules: status, and the severity copied from a version
    versions,  \* rule_versions
    author,    \* the local state of every author
    edits      \* status changes and toggles so far

catalogVars == <<rules, versions, author, edits>>

RuleRow == [status: RuleStatus \cup {Absent}, severity: Severity]
Version == [rule: Rule, number: 1..MaxVersion, severity: Severity, enabled: BOOLEAN]
AuthorState == [pc: {"idle", "number", "insert", "sync"}, rule: Rule \cup {NONE},
                number: 0..MaxVersion, severity: Severity \cup {NONE}]

IdleAuthor == [pc |-> "idle", rule |-> NONE, number |-> 0, severity |-> NONE]

VersionsOf(r) == {v \in versions : v.rule = r}
Numbers(r) == {v.number : v \in VersionsOf(r)}
EnabledOf(r) == {v \in VersionsOf(r) : v.enabled}

(* ORDER BY version DESC LIMIT 1.                                          *)
Latest(vs) == CHOOSE v \in vs : \A w \in vs : w.number <= v.number

CatalogInit ==
    /\ versions \in {vs \in SUBSET [rule: Rule, number: {1}, severity: Severity, enabled: {TRUE}] :
                        \A v, w \in vs : v.rule = w.rule => v = w}
    /\ rules \in [Rule -> RuleRow]
    /\ \A r \in Rule :
          /\ rules[r].status = Absent <=> VersionsOf(r) = {}
          /\ \A v \in VersionsOf(r) : rules[r].severity = v.severity
    /\ author = [a \in Author |-> IdleAuthor]
    /\ edits = 0

-----------------------------------------------------------------------------
(* CreateRule's first statement: the rule, as a draft.  A name that is     *)
(* already taken is refused by the unique index and changes nothing.       *)
CreateRule(a, r, severity) ==
    /\ author[a].pc = "idle"
    /\ rules[r].status = Absent
    /\ rules' = [rules EXCEPT ![r] = [status |-> "draft", severity |-> severity]]
    /\ author' = [author EXCEPT ![a] = [pc |-> "number", rule |-> r, number |-> 0,
                                        severity |-> severity]]
    /\ UNCHANGED <<versions, edits>>

(* CreateVersion finds the rule; the definition has compiled.              *)
NewVersion(a, r, severity) ==
    /\ author[a].pc = "idle"
    /\ rules[r].status # Absent
    /\ author' = [author EXCEPT ![a] = [pc |-> "number", rule |-> r, number |-> 0,
                                        severity |-> severity]]
    /\ UNCHANGED <<rules, versions, edits>>

(* COALESCE((SELECT MAX(version) ...), 0) + 1.                             *)
NextNumber(r) == IF Numbers(r) = {} THEN 1 ELSE Max(Numbers(r)) + 1

TakeNumber(a) ==
    /\ author[a].pc = "number"
    /\ NextNumber(author[a].rule) <= MaxVersion
    /\ author' = [author EXCEPT ![a].pc = "insert", ![a].number = NextNumber(author[a].rule)]
    /\ UNCHANGED <<rules, versions, edits>>

Clash_Ignored(r, n) == {}

(* The rows that make the unique index refuse version n of r.              *)
Clash(r, n) == {v \in VersionsOf(r) : v.number = n}

WithVersion_Replaces(v) == {w \in versions : w.rule # v.rule} \cup {v}

(* The row joins those there are: no version is ever replaced.             *)
WithVersion(v) == versions \cup {v}

InsertVersion(a) ==
    /\ author[a].pc = "insert"
    /\ Clash(author[a].rule, author[a].number) = {}
    /\ versions' = WithVersion([rule |-> author[a].rule, number |-> author[a].number,
                                severity |-> author[a].severity, enabled |-> TRUE])
    /\ author' = [author EXCEPT ![a].pc = "sync"]
    /\ UNCHANGED <<rules, edits>>

(* Unique violation, or a failed INSERT: the operation returns the error.  *)
InsertFails(a) ==
    /\ author[a].pc = "insert"
    /\ Clash(author[a].rule, author[a].number) # {} \/ "insert" \in Faults
    /\ author' = [author EXCEPT ![a] = IdleAuthor]
    /\ UNCHANGED <<rules, versions, edits>>

(* SyncSeverityFromVersion: unconditional, best effort.                    *)
SyncSeverity(a) ==
    /\ author[a].pc = "sync"
    /\ LET r == author[a].rule
       IN \/ rules' = [rules EXCEPT ![r].severity = author[a].severity]
          \/ "sync" \in Faults /\ UNCHANGED rules
    /\ author' = [author EXCEPT ![a] = IdleAuthor]
    /\ UNCHANGED <<versions, edits>>

AuthorCrash(a) ==
    /\ "crash" \in Faults
    /\ author[a].pc # "idle"
    /\ author' = [author EXCEPT ![a] = IdleAuthor]
    /\ UNCHANGED <<rules, versions, edits>>

(* Enable, Disable, Deprecate: from any status.                            *)
UpdateRuleStatus(r, status) ==
    /\ edits < MaxEdits
    /\ rules[r].status # Absent
    /\ rules' = [rules EXCEPT ![r].status = status]
    /\ edits' = edits + 1
    /\ UNCHANGED <<versions, author>>

SetVersionEnabled(v, enabled) ==
    /\ edits < MaxEdits
    /\ versions' = (versions \ {v}) \cup {[v EXCEPT !.enabled = enabled]}
    /\ edits' = edits + 1
    /\ UNCHANGED <<rules, author>>

-----------------------------------------------------------------------------
AuthorStep(a) ==
    \/ \E r \in Rule, severity \in Severity : CreateRule(a, r, severity) \/ NewVersion(a, r, severity)
    \/ TakeNumber(a) \/ InsertVersion(a) \/ InsertFails(a) \/ SyncSeverity(a) \/ AuthorCrash(a)

CatalogNext ==
    \/ \E a \in Author : AuthorStep(a)
    \/ \E r \in Rule, status \in RuleStatus \ {"draft"} : UpdateRuleStatus(r, status)
    \/ \E v \in versions, enabled \in BOOLEAN : SetVersionEnabled(v, enabled)

CatalogSpec == CatalogInit /\ [][CatalogNext]_catalogVars

-----------------------------------------------------------------------------
(* The catalogue's rows and the authors' memory stay within their types.   *)
CatalogTypeOK ==
    /\ rules \in [Rule -> RuleRow]
    /\ versions \subseteq Version
    /\ author \in [Author -> AuthorState]
    /\ edits \in 0..MaxEdits

(* A (rule, version) pair names exactly one definition and the numbers of  *)
(* a rule have no gaps, however many authors compute the next one at once. *)
VersionsNumbered ==
    \A r \in Rule : Numbers(r) = 1..Cardinality(VersionsOf(r))
=============================================================================
