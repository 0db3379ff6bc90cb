---------------------------- MODULE AuditFindings ----------------------------
(***************************************************************************)
(* The SDK drift audit: agricola/audit.py and the audit registry of        *)
(* agricola/ledger.py, as .github/workflows/agricola-audit.yml runs them,  *)
(* together with the /ag fix comments on the finding issues they keep      *)
(* (agricola/service.py, _handle_audit_comment and record_propagations).   *)
(*                                                                         *)
(* An audit takes a snapshot of every SDK, assigns finding IDs in a state  *)
(* transaction, and then reconciles one issue per finding and an index, by *)
(* one call to GitHub after the other.  Audits share a concurrency group;  *)
(* comments are in the group of their issue, so they run beside an audit.  *)
(* A body is what the code reads back from it: the marker, the pinned      *)
(* context (fingerprint and affected SDKs) and the remediation table.      *)
(***************************************************************************)
EXTENDS Naturals, Sequences, FiniteSets

CONSTANTS
    AuditTargets,   \* SDKs of the manifest
    FixableTargets, \* those whose automation is "pr"
    Fingerprints,   \* fingerprints, numbered in their sorted order
    Semantic,       \* those that a semantic review reports
    FixComments,    \* comment -> [targets, all, instruction]
    FirstDrifts,    \* deviations there may be at first
    Past,           \* fingerprints of findings closed before
    Years,          \* bound: years that pass
    MaxAudits,      \* bound: audits
    MaxChanges,     \* bound: times an SDK drifts or is repaired
    MaxDeaths       \* bound: jobs that die

ASSUME AuditAssumption ==
    /\ FixableTargets \subseteq AuditTargets
    /\ Fingerprints \subseteq Nat /\ IsFiniteSet(Fingerprints)
    /\ Semantic \cup Past \subseteq Fingerprints
    /\ \A k \in DOMAIN FixComments :
        FixComments[k] \in [targets: SUBSET FixableTargets, all: BOOLEAN, instruction: BOOLEAN]
    /\ FirstDrifts \subseteq [Fingerprints -> SUBSET AuditTargets]
    /\ {Years, MaxAudits, MaxChanges, MaxDeaths} \subseteq Nat

VARIABLES
    drift,      \* fingerprint -> SDKs that deviate from the canonical one
    year,
    findingIds, \* ledger/audit.json: fingerprint -> ID
    tracked,    \* finding issues by number: [open, body]
    index,      \* the index issue: ID -> number of the issue it links
    audit,      \* the audit under way
    fix,        \* comment -> its run
    spent       \* budgets used: [audits, changes, deaths]

auditVars == <<drift, year, findingIds, tracked, index, audit, fix, spent>>

NoAudit == [stage |-> "idle", drift |-> <<>>, trouble |-> {}, findings |-> <<>>,
            found |-> <<>>, next |-> 1, closing |-> {}]
NoFix == [stage |-> "none", number |-> 0, plan |-> <<>>, request |-> <<>>]

(* The findings in the order of their fingerprints.                        *)
Ordered(fs) ==
    [i \in 1..Cardinality(fs) |-> CHOOSE f \in fs : Cardinality({g \in fs : g <= f}) = i]

(* Past findings were fixed by pull requests and closed earlier this year. *)
ClosedFinding(f, id) ==
    [open |-> FALSE,
     body |-> [marker |-> id, fingerprint |-> f, affected |-> FixableTargets,
               rows |-> [t \in FixableTargets |-> "Recorded"]]]

AuditStart(deviations) ==
    /\ drift = deviations
    /\ year = 1
    /\ findingIds = [f \in Past |-> <<1, Cardinality({g \in Past : g <= f})>>]
    /\ tracked = [i \in 1..Cardinality(Past) |-> ClosedFinding(Ordered(Past)[i], <<1, i>>)]
    /\ index = <<>>
    /\ audit = NoAudit
    /\ fix = [k \in DOMAIN FixComments |-> NoFix]
    /\ spent = [audits |-> 0, changes |-> 0, deaths |-> 0]

AuditInit == \E deviations \in FirstDrifts : AuditStart(deviations)

Spend(what, bound) ==
    spent[what] < bound /\ spent' = [spent EXCEPT ![what] = @ + 1]

(* An SDK starts to deviate, or is repaired.  Only the snapshots look at   *)
(* it, so it is enough that it happens between audits; so does a new year. *)
Drift ==
    /\ audit.stage \in {"idle", "failed"}
    /\ Spend("changes", MaxChanges)
    /\ \E f \in Fingerprints, t \in AuditTargets :
        drift' = [drift EXCEPT ![f] = IF t \in @ THEN @ \ {t} ELSE @ \cup {t}]
    /\ UNCHANGED <<year, findingIds, tracked, index, audit, fix>>

NewYear ==
    /\ audit.stage \in {"idle", "failed"}
    /\ year < Years /\ year' = year + 1
    /\ UNCHANGED <<drift, findingIds, tracked, index, audit, fix, spent>>

(***************************************************************************)
(* Snapshots and the report                                                *)
(***************************************************************************)

(* What can be wrong with the snapshots: one is missing, has errors or no  *)
(* valid semantic review, the canonical SDK fails a check, or there is no  *)
(* canonical snapshot.                                                     *)
Troubles ==
    ({"missing", "errors", "review"} \X AuditTargets)
    \cup ({"canonical"} \X (Fingerprints \ Semantic)) \cup {<<"reference", 0>>}

TakeSnapshots ==
    /\ audit.stage \in {"idle", "failed"}
    /\ Spend("audits", MaxAudits)
    /\ \E trouble \in {{}} \cup {{x} : x \in Troubles} :
        audit' = [NoAudit EXCEPT !.stage = "snapshots", !.drift = drift, !.trouble = trouble]
    /\ UNCHANGED <<drift, year, findingIds, tracked, index, fix>>

Absent(what, t) == <<what, t>> \notin audit.trouble

(* analyze_deltas: the SDKs in which a finding is detected.  A snapshot    *)
(* with errors still counts for its semantic review.                       *)
Affected(f) ==
    {t \in audit.drift[f] :
        /\ Absent("missing", t)
        /\ IF f \in Semantic THEN Absent("review", t)
           ELSE Absent("errors", t) /\ Absent("canonical", f)}

Drafts == {f \in Fingerprints : Affected(f) # {}}

(* Mutant: a missing semantic review is no error.                          *)
HealthyWithoutReviews == {x \in audit.trouble : x[1] # "review"} = {}

Healthy == audit.trouble = {}

NewFindings == Drafts \ DOMAIN findingIds
OrdinalOf(f) == Cardinality({g \in NewFindings : g <= f})

(* Mutant: the IDs registered before are not looked at.                    *)
AssignFromOne ==
    [f \in Drafts \cup DOMAIN findingIds |->
        IF f \in NewFindings THEN <<year, OrdinalOf(f)>> ELSE findingIds[f]]

(* AuditStore.assign: new fingerprints are numbered after the greatest ID  *)
(* of the year, in their order.                                            *)
LastOfYear ==
    LET used == {findingIds[f][2] : f \in {g \in DOMAIN findingIds : findingIds[g][1] = year}}
    IN  CHOOSE n \in used \cup {0} : \A i \in used : i <= n

Assign ==
    [f \in Drafts \cup DOMAIN findingIds |->
        IF f \in NewFindings THEN <<year, LastOfYear + OrdinalOf(f)>> ELSE findingIds[f]]

(* _finding_command_section: there is a table only if some affected SDK    *)
(* supports pull requests.                                                 *)
NewTable(affected) ==
    IF affected \cap FixableTargets = {} THEN <<>>
    ELSE [t \in affected |-> "Awaiting"]

FindingBody(f) ==
    [marker |-> Assign[f], fingerprint |-> f, affected |-> Affected(f),
     rows |-> NewTable(Affected(f))]

(* build_audit_report inside the state transaction: it fails without a     *)
(* canonical snapshot; otherwise the IDs are durable before any delivery.  *)
BuildReport ==
    /\ audit.stage = "snapshots"
    /\ IF ~Absent("reference", 0)
       THEN /\ audit' = [audit EXCEPT !.stage = "failed"]
            /\ UNCHANGED findingIds
       ELSE /\ findingIds' = Assign
            /\ audit' = [audit EXCEPT !.stage = "report",
                !.findings = [i \in DOMAIN Ordered(Drafts) |-> FindingBody(Ordered(Drafts)[i])]]
    /\ UNCHANGED <<drift, year, tracked, index, fix, spent>>

(***************************************************************************)
(* deliver_audit_report                                                    *)
(***************************************************************************)
Reported(number) ==
    \E i \in DOMAIN audit.findings :
        audit.findings[i].marker = audit.found[number].body.marker

(* The one search: issues of every state, with the bodies they have now.   *)
FindIssues ==
    /\ audit.stage = "report"
    /\ audit' = [audit EXCEPT !.stage = "findings", !.next = 1, !.found = tracked]
    /\ UNCHANGED <<drift, year, findingIds, tracked, index, fix, spent>>

(* preserve_propagation_state: rows that were decided replace their        *)
(* namesakes in the new table.                                             *)
Preserve(body, previous) ==
    [body EXCEPT !.rows = [t \in DOMAIN body.rows |->
        IF t \in DOMAIN previous.rows /\ previous.rows[t] # "Awaiting"
        THEN previous.rows[t] ELSE body.rows[t]]]

(* Mutant: a closed finding that is detected again stays closed.           *)
UpdatedWithoutReopening(number, body) ==
    [tracked EXCEPT ![number].body = Preserve(body, audit.found[number].body)]

Updated(number, body) ==
    [tracked EXCEPT ![number] =
        [open |-> TRUE, body |-> Preserve(body, audit.found[number].body)]]

(* The next finding: its issue is created, or rewritten and reopened.      *)
DeliverFinding ==
    /\ audit.stage = "findings" /\ audit.next <= Len(audit.findings)
    /\ LET body == audit.findings[audit.next]
           known == {n \in DOMAIN audit.found : audit.found[n].body.marker = body.marker}
       IN  tracked' = IF known = {} THEN Append(tracked, [open |-> TRUE, body |-> body])
                      ELSE Updated(CHOOSE n \in known : \A m \in known : m <= n, body)
    /\ audit' = [audit EXCEPT !.next = @ + 1]
    /\ UNCHANGED <<drift, year, findingIds, index, fix, spent>>

(* All findings are delivered: a healthy audit goes on to close the issues *)
(* it has no finding for.                                                  *)
FindingsDelivered ==
    /\ audit.stage = "findings" /\ audit.next > Len(audit.findings)
    /\ audit' = [audit EXCEPT !.stage = "close",
        !.closing = IF Healthy
                    THEN {n \in DOMAIN audit.found : audit.found[n].open /\ ~Reported(n)}
                    ELSE {}]
    /\ UNCHANGED <<drift, year, findingIds, tracked, index, fix, spent>>

CloseFinding ==
    /\ audit.stage = "close" /\ audit.closing # {}
    /\ LET n == CHOOSE m \in audit.closing : \A i \in audit.closing : m <= i
       IN  /\ tracked' = [tracked EXCEPT ![n].open = FALSE]
           /\ audit' = [audit EXCEPT !.closing = @ \ {n}]
    /\ UNCHANGED <<drift, year, findingIds, index, fix, spent>>

(* The index is created or updated, with a link for every finding.         *)
DeliverIndex ==
    /\ audit.stage = "close" /\ audit.closing = {}
    /\ index' = [id \in {audit.findings[i].marker : i \in DOMAIN audit.findings} |->
                    CHOOSE n \in DOMAIN tracked : tracked[n].body.marker = id]
    /\ audit' = [audit EXCEPT !.stage = "idle"]
    /\ UNCHANGED <<drift, year, findingIds, tracked, fix, spent>>

(* The report job dies between two calls.                                  *)
AuditDies ==
    /\ audit.stage \notin {"idle", "failed"}
    /\ Spend("deaths", MaxDeaths)
    /\ audit' = [audit EXCEPT !.stage = "failed"]
    /\ UNCHANGED <<drift, year, findingIds, tracked, index, fix>>

(* The report job is re-run on the snapshots of its run.                   *)
RerunReport ==
    /\ audit.stage = "failed"
    /\ audit' = [NoAudit EXCEPT !.stage = "snapshots",
                    !.drift = audit.drift, !.trouble = audit.trouble]
    /\ Absent("reference", 0)
    /\ UNCHANGED <<drift, year, findingIds, tracked, index, fix, spent>>

(***************************************************************************)
(* /ag fix on a finding issue                                              *)
(***************************************************************************)
Progressing == {"deliver", "matrix", "results"}

(* The event carries the body the issue has when the comment is posted.    *)
PostComment(k) ==
    /\ fix[k].stage = "none"
    /\ \E n \in DOMAIN tracked :
        fix' = [fix EXCEPT ![k].stage = "queued", ![k].number = n, ![k].plan = tracked[n].body]
    /\ UNCHANGED <<drift, year, findingIds, tracked, index, audit, spent>>

(* Targets named by the command, or every affected SDK that takes pull     *)
(* requests.                                                               *)
FixTargets(k) ==
    IF FixComments[k].all THEN fix[k].plan.affected \cap FixableTargets
    ELSE FixComments[k].targets

(* recorded_propagations, read from the payload.                           *)
RecordedIn(body) == {t \in DOMAIN body.rows : body.rows[t] = "Recorded"}

(* _handle_audit_comment: a named SDK that the finding does not affect     *)
(* refuses the command; a recorded one is revised if there is an           *)
(* instruction and its pull request is open; the others are queued.        *)
HandleAuditComment(k) ==
    /\ fix[k].stage = "queued"
    /\ \A j \in DOMAIN fix : fix[j].number = fix[k].number => fix[j].stage \notin Progressing
    /\ LET body == fix[k].plan
           recorded == RecordedIn(body)
           initial == FixTargets(k) \ recorded
           rows == [t \in DOMAIN body.rows |-> IF t \in initial THEN "Queued" ELSE body.rows[t]]
       IN  \E revised \in SUBSET (FixTargets(k) \cap recorded) :
            /\ FixComments[k].instruction \/ revised = {}
            /\ fix' = [fix EXCEPT
                ![k].request = [t \in initial \cup revised |-> "open"],
                ![k].plan.rows = rows,
                ![k].stage = IF FixTargets(k) \subseteq body.affected
                                /\ initial \cup revised # {}
                             THEN "deliver" ELSE "ended"]
    /\ UNCHANGED <<drift, year, findingIds, tracked, index, audit, spent>>

(* deliver-issue-update writes the body back whole; a revision alone has   *)
(* nothing to write.                                                       *)
DeliverPlan(k) ==
    /\ fix[k].stage = "deliver"
    /\ LET queued == \E t \in DOMAIN fix[k].request : fix[k].plan.rows[t] = "Queued"
       IN  tracked' = IF queued THEN [tracked EXCEPT ![fix[k].number].body = fix[k].plan]
                      ELSE tracked
    /\ fix' = [fix EXCEPT ![k].stage = "matrix"]
    /\ UNCHANGED <<drift, year, findingIds, index, audit, spent>>

(* A request of the matrix leaves a pull request, a skip or nothing.       *)
EndRequest(k) ==
    /\ fix[k].stage = "matrix"
    /\ \E t \in DOMAIN fix[k].request, outcome \in {"Recorded", "Skipped", "failed"} :
        /\ fix[k].request[t] = "open"
        /\ fix' = [fix EXCEPT ![k].request[t] = outcome]
    /\ UNCHANGED <<drift, year, findingIds, tracked, index, audit, spent>>

(* record_propagations: the results are written into the plan the requests *)
(* carry; without a result there is nothing to deliver.                    *)
RecordFix(k) ==
    /\ fix[k].stage = "matrix"
    /\ \A t \in DOMAIN fix[k].request : fix[k].request[t] # "open"
    /\ LET results == {t \in DOMAIN fix[k].request : fix[k].request[t] # "failed"}
       IN  fix' = [fix EXCEPT
            ![k].plan.rows = [t \in DOMAIN @ |->
                IF t \in results THEN fix[k].request[t] ELSE @[t]],
            ![k].stage = IF results = {} THEN "ended" ELSE "results"]
    /\ UNCHANGED <<drift, year, findingIds, tracked, index, audit, spent>>

DeliverResults(k) ==
    /\ fix[k].stage = "results"
    /\ tracked' = [tracked EXCEPT ![fix[k].number].body = fix[k].plan]
    /\ fix' = [fix EXCEPT ![k].stage = "ended"]
    /\ UNCHANGED <<drift, year, findingIds, index, audit, spent>>

(***************************************************************************)
(* The specification                                                       *)
(***************************************************************************)
AuditStep ==
    \/ TakeSnapshots \/ BuildReport \/ FindIssues \/ DeliverFinding
    \/ FindingsDelivered \/ CloseFinding \/ DeliverIndex \/ AuditDies \/ RerunReport

CommentStep(k) ==
    \/ PostComment(k) \/ HandleAuditComment(k) \/ DeliverPlan(k)
    \/ EndRequest(k) \/ RecordFix(k) \/ DeliverResults(k)

AuditNext == Drift \/ NewYear \/ AuditStep \/ \E k \in DOMAIN FixComments : CommentStep(k)

AuditSpec == AuditInit /\ [][AuditNext]_auditVars

(***************************************************************************)
(* Properties                                                              *)
(***************************************************************************)

(* Every finding issue has the ID that the durable registry holds for its  *)
(* fingerprint, no ID names two findings and no finding has two issues,    *)
(* over years, closing and reopening, and deliveries that died after some  *)
(* of their calls (AuditStore.assign before delivery, find_tracking_issues *)
(* over issues of every state).                                            *)
IdsAreDurable ==
    /\ \A f, g \in DOMAIN findingIds : findingIds[f] = findingIds[g] => f = g
    /\ \A n \in DOMAIN tracked :
        /\ tracked[n].body.fingerprint \in DOMAIN findingIds
        /\ findingIds[tracked[n].body.fingerprint] = tracked[n].body.marker
        /\ \A m \in DOMAIN tracked : tracked[m].body.marker = tracked[n].body.marker => m = n

(* A finding is closed only if no SDK deviated when the snapshots of the   *)
(* closing audit were taken: an incomplete audit closes nothing it did not *)
(* see repaired.                                                           *)
ClosedMeansRepaired ==
    [][\A n \in DOMAIN tracked :
        tracked[n].open /\ ~tracked'[n].open
            => audit.drift[tracked[n].body.fingerprint] = {}]_auditVars

(* When a healthy audit has delivered its report, the open finding issues  *)
(* are those of the deviations it saw, and the index links each of them.   *)
HealthyAuditReconciles ==
    audit.stage = "idle" /\ audit.drift # <<>> /\ Healthy =>
        /\ \A f \in Fingerprints : audit.drift[f] # {} <=>
            \E n \in DOMAIN tracked : tracked[n].open /\ tracked[n].body.fingerprint = f
        /\ \A f \in Fingerprints : audit.drift[f] # {} =>
            /\ findingIds[f] \in DOMAIN index
            /\ tracked[index[findingIds[f]]].body.fingerprint = f

(* docs/agricola-actions.md: the finding tables retain linked remediation  *)
(* pull requests across later audit runs.  Stated for the SDKs that still  *)
(* deviate: an audit that rewrites the issue keeps their pull requests.    *)
FixesStayLinked ==
    [][DeliverFinding => \A n \in DOMAIN tracked :
        LET body == tracked[n].body IN
        \A t \in RecordedIn(body) : t \in audit.drift[body.fingerprint]
            => t \in RecordedIn(tracked'[n].body)]_auditVars
=============================================================================
