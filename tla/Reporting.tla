----------------------------- MODULE Reporting -----------------------------
(* Reports: versioned documents built from what an investigation, an asset  *)
(* or a whole target holds, reviewed and approved, with evidence packages   *)
(* that repeat what a report cites, and the evidence analysts record for    *)
(* controls. Composed with Casework: the evidence a report cites is being   *)
(* attached while it is built.                                              *)
(* internal/service/reporting, internal/reporting, its repository and CLI.  *)
EXTENDS Casework

CONSTANTS ReportSubjects,   \* what is asked for: <<report type, subject>>, NoOne for no subject
          MaxReports        \* bound of the model

VARIABLES reports,    \* rows in the order they were inserted
          packages,   \* [report, items]
          controls    \* [control, type]
reportVars == <<reports, packages, controls>>
vars == <<caseVars, reportVars>>

ReportTypes == {"investigation", "asset", "attack_surface", "detection", "correlation", "executive",
                "audit", "compliance"}
RequiresSubject(type) == type \in {"investigation", "asset", "correlation"}
ReportStatuses == {"draft", "generated", "reviewed", "approved"}
EvidenceItemTypes == {"finding", "alert", "detection_match", "correlation", "investigation",
                      "intelligence_record", "asset", "event"}

ValidReport(r) ==
    /\ r.type \in ReportTypes /\ (RequiresSubject(r.type) => r.subject # NoOne)
    /\ r.version >= 1 /\ r.status \in ReportStatuses /\ r.by # NoOne
    /\ r.status = "approved" => r.approvedBy # NoOne
ValidItem(x) == x[1] \in EvidenceItemTypes /\ x[2] # NoOne
ValidControlEvidence(c) == c.control # NoOne /\ c.type \in EvidenceItemTypes

\* What a report of the investigation cites: itself and the attached evidence.
InvestigationRefs(i, refs) ==
    <<<<"investigation", i>>>> \o [n \in DOMAIN refs |-> <<refs[n].type, refs[n].id>>]

\* What a report of the asset cites: itself and its findings.
AssetRefs(a) ==
    LET fs == Picked(FindingTable, {n \in DOMAIN FindingTable : FindingTable[n].asset = a})
    IN <<<<"asset", a>>>> \o [n \in DOMAIN fs |-> <<"finding", fs[n].id>>]

-----------------------------------------------------------------------------
(* Commands.                                                               *)

ReportBegin(p, statements) == Begin(p, statements) /\ UNCHANGED reportVars

\* The versions of one target, type and subject. NULLS NOT DISTINCT: no subject is one too.
SameIdentity_Mistake(r, type, subject) == r.type = type
SameIdentity(r, type, subject) == r.type = type /\ r.subject = subject

VersionJob(type, subject, by, refs) ==
    <<[do |-> "version", type |-> type, subject |-> subject, by |-> by, refs |-> refs]>>

\* report create: type and subject are checked, then the type's builder reads; a type that
\* is valid but has no builder is refused. The investigation's builder goes on without the
\* evidence where its listing fails; the builders of target-wide reports cite nothing.
Generate(p) ==
    \E q \in ReportSubjects, by \in Actors \ {NoOne} :
       LET type == q[1]
           subject == q[2]
       IN /\ type \in ReportTypes \ {"compliance"} /\ (RequiresSubject(type) => subject # NoOne)
          /\ \/ /\ type = "investigation" /\ subject \in DOMAIN inv
                /\ ReportBegin(p, <<[do |-> "listEvidence", subject |-> subject, by |-> by,
                                     otherwise |-> VersionJob(type, subject, by, InvestigationRefs(subject, <<>>))]>>)
             \/ /\ type = "asset" /\ subject \in IdsOf(AssetTable)
                /\ ReportBegin(p, VersionJob(type, subject, by, AssetRefs(subject)))
             \/ /\ ~RequiresSubject(type)
                /\ ReportBegin(p, VersionJob(type, subject, by, <<>>))

\* report approve and report review read the status they insist on.
Approve(p) ==
    \E r \in DOMAIN reports, by \in Actors \ {NoOne} :
       /\ reports[r].status # "approved"
       /\ ReportBegin(p, <<[do |-> "approve", report |-> r, by |-> by]>>)
MarkReviewed(p) ==
    \E r \in DOMAIN reports :
       /\ reports[r].status # "approved"
       /\ ReportBegin(p, <<[do |-> "setStatus", report |-> r, status |-> "reviewed"]>>)

\* evidence create: what the stored report cites.
CreateEvidencePackage(p) ==
    \E r \in DOMAIN reports : ReportBegin(p, <<[do |-> "package", report |-> r, refs |-> reports[r].refs]>>)

\* control record.
RecordControlEvidence(p) ==
    \E e \in UNION {{<<evidence[i][n].type, evidence[i][n].id>> : n \in DOMAIN evidence[i]} : i \in DOMAIN inv} :
       LET c == [control |-> "AC-2", type |-> e[1], reference |-> e[2]]
       IN ValidControlEvidence(c) /\ ReportBegin(p, <<[do |-> "control", row |-> c]>>)

-----------------------------------------------------------------------------
(* Statements.                                                             *)

ListReportEvidence(p) ==
    /\ Ready(p, "listEvidence")
    /\ LET job == Head(todo[p])
       IN Continue(p, VersionJob("investigation", job.subject, job.by,
                                 InvestigationRefs(job.subject, evidence[job.subject])))
    /\ UNCHANGED <<stored, reportVars>>

LatestVersion(type, subject) ==
    Max({0} \cup {reports[r].version : r \in {r \in DOMAIN reports : SameIdentity(reports[r], type, subject)}})

ReadLatestVersion(p) ==
    /\ Ready(p, "version")
    /\ LET job == Head(todo[p])
           row == [type |-> job.type, subject |-> job.subject, refs |-> job.refs, by |-> job.by,
                   version |-> LatestVersion(job.type, job.subject) + 1, status |-> "generated", approvedBy |-> NoOne]
       IN Continue(p, IF ValidReport(row) THEN <<[do |-> "report", row |-> row]>> ELSE <<>>)
    /\ UNCHANGED <<stored, reportVars>>

\* reports_version_unique refuses a version that was taken in the meantime; nobody retries.
CreateReport(p) ==
    /\ Ready(p, "report") /\ Len(reports) < MaxReports
    /\ LET row == Head(todo[p]).row
       IN reports' = IF \E r \in DOMAIN reports : /\ reports[r].type = row.type /\ reports[r].subject = row.subject
                                                  /\ reports[r].version = row.version
                     THEN reports ELSE Append(reports, row)
    /\ Continue(p, <<>>) /\ UNCHANGED <<stored, packages, controls>>

SetApproved(p) ==
    /\ Ready(p, "approve")
    /\ LET job == Head(todo[p])
       IN reports' = [reports EXCEPT ![job.report] = [@ EXCEPT !.status = "approved", !.approvedBy = job.by]]
    /\ Continue(p, <<>>) /\ UNCHANGED <<stored, packages, controls>>

SetStatus(p) ==
    /\ Ready(p, "setStatus")
    /\ reports' = [reports EXCEPT ![Head(todo[p]).report].status = Head(todo[p]).status]
    /\ Continue(p, <<>>) /\ UNCHANGED <<stored, packages, controls>>

\* References of a type that packages do not know are skipped.
CitedItems(r, refs) == Picked(refs, {n \in DOMAIN refs : ValidItem(refs[n])})

CreatePackage(p) ==
    /\ Ready(p, "package")
    /\ LET job == Head(todo[p])
       IN /\ packages' = Append(packages, [report |-> job.report, items |-> {}])
          /\ Continue(p, <<[do |-> "packageItems", package |-> Len(packages) + 1,
                            items |-> CitedItems(job.report, job.refs)]>>)
    /\ UNCHANGED <<stored, reports, controls>>

\* One INSERT per item; the first that fails leaves the package as it is.
CreateItem(p) ==
    /\ Ready(p, "packageItems")
    /\ LET job == Head(todo[p])
       IN IF job.items = <<>> THEN Continue(p, <<>>) /\ UNCHANGED packages
          ELSE /\ packages' = [packages EXCEPT ![job.package].items = @ \cup {Head(job.items)}]
               /\ Continue(p, <<[job EXCEPT !.items = Tail(@)]>>)
    /\ UNCHANGED <<stored, reports, controls>>

InsertControlEvidence(p) ==
    /\ Ready(p, "control")
    /\ controls' = Append(controls, Head(todo[p]).row)
    /\ Continue(p, <<>>) /\ UNCHANGED <<stored, reports, packages>>

-----------------------------------------------------------------------------

Init == CaseInit /\ reports = <<>> /\ packages = <<>> /\ controls = <<>>
ReportCommand(p) ==
    Generate(p) \/ Approve(p) \/ MarkReviewed(p) \/ CreateEvidencePackage(p) \/ RecordControlEvidence(p)
ReportStatement(p) ==
    \/ ListReportEvidence(p) \/ ReadLatestVersion(p) \/ CreateReport(p) \/ SetApproved(p) \/ SetStatus(p)
    \/ CreatePackage(p) \/ CreateItem(p) \/ InsertControlEvidence(p)
Next ==
    \E p \in Processes :
       \/ Idle(p) /\ ReportCommand(p)
       \/ Idle(p) /\ CaseCommand(p) /\ UNCHANGED reportVars
       \/ todo[p] # <<>> /\ ReportStatement(p)
       \/ todo[p] # <<>> /\ CaseStatement(p) /\ UNCHANGED reportVars
Spec == Init /\ [][Next]_vars

-----------------------------------------------------------------------------

TypeOK ==
    /\ CaseTypeOK
    /\ \A r \in DOMAIN reports : ValidReport(reports[r])
    /\ \A k \in DOMAIN packages : packages[k].report \in DOMAIN reports /\ \A x \in packages[k].items : ValidItem(x)
    /\ \A c \in DOMAIN controls : ValidControlEvidence(controls[c])

\* The versions of a report are 1, 2, 3... without a gap and each once, though the version is
\* read before the report is inserted and others insert in between (Generate).
ReportsNumbered ==
    \A r \in DOMAIN reports :
       reports[r].version = 1 + Cardinality({s \in 1..(r - 1) : reports[s].type = reports[r].type
                                                                 /\ reports[s].subject = reports[r].subject})

\* A package holds nothing its report did not cite when it was generated, whatever has been
\* attached to the investigation since (CreateEvidencePackage).
PackagesHoldOnlyCited ==
    \A k \in DOMAIN packages : packages[k].items \subseteq ToSet(reports[packages[k].report].refs)
=============================================================================
