------------------------- MODULE AuditFindingsProofs -------------------------
(***************************************************************************)
(* Theorems about AuditFindings, for any SDKs, fingerprints, drifts,       *)
(* comments and deaths.                                                    *)
(***************************************************************************)
EXTENDS AuditFindings, FiniteSetTheorems, FunctionTheorems, SequenceTheorems, WellFoundedInduction, TLAPS

(***************************************************************************)
(* Numbers and their order                                                 *)
(***************************************************************************)

(* A set of numbers has a least one.                                       *)
LEMMA LeastNumber ==
    ASSUME NEW S \in SUBSET Nat, S # {}
    PROVE  \E m \in S : \A k \in S : m <= k
<1> DEFINE R == {ss \in Nat \X Nat : ss[1] < ss[2]}
<1>1. IsWellFoundedOn(R, Nat)
  BY NatLessThanWellFounded DEF OpToRel
<1>2. PICK m \in S : \A y \in S : ~(<<y, m>> \in R)
  <2> HIDE DEF R
  <2> QED BY <1>1, WFMin
<1>3. ASSUME NEW k \in S PROVE m <= k
  <2>1. ~(<<k, m>> \in R)
    BY <1>2
  <2> QED BY <2>1
<1> QED BY <1>3

(* A finite set of numbers has a greatest one: a smallest set without one  *)
(* would have one without one of its elements.                             *)
LEMMA GreatestNumber ==
    ASSUME NEW S \in SUBSET Nat, IsFiniteSet(S), S # {}
    PROVE  \E m \in S : \A k \in S : k <= m
<1> DEFINE Greatest(T) == \E m \in T : \A k \in T : k <= m
           Sizes == {n \in Nat : \E T \in SUBSET S :
                        T # {} /\ Cardinality(T) = n /\ ~Greatest(T)}
<1>1. ASSUME NEW T \in SUBSET S
      PROVE  IsFiniteSet(T) /\ Cardinality(T) \in Nat
  BY FS_Subset, FS_CardinalityType
<1>2. SUFFICES ASSUME ~Greatest(S) PROVE FALSE
  OBVIOUS
<1>3. Cardinality(S) \in Sizes
  BY <1>1, <1>2
<1>4. PICK n \in Sizes : \A k \in Sizes : n <= k
  <2> HIDE DEF Sizes
  <2>1. Sizes \subseteq Nat
    BY DEF Sizes
  <2> QED BY <1>3, <2>1, LeastNumber
<1>5. PICK T \in SUBSET S : T # {} /\ Cardinality(T) = n /\ ~Greatest(T)
  OBVIOUS
<1>6. PICK x \in T : TRUE
  BY <1>5
<1>7. /\ T \ {x} \in SUBSET S /\ Cardinality(T \ {x}) = n - 1
      /\ Cardinality(T \ {x}) \in Nat
  BY <1>1, <1>5, FS_RemoveElement
<1>8. T \ {x} = {} \/ Greatest(T \ {x})
  <2>1. SUFFICES ASSUME T \ {x} # {}, ~Greatest(T \ {x}) PROVE FALSE
    OBVIOUS
  <2>2. n - 1 \in Sizes
    BY <1>7, <2>1
  <2> QED BY <1>4, <2>2
<1>9. CASE T \ {x} = {}
  <2>1. \A k \in T : k <= x
    BY <1>9
  <2> QED BY <1>5, <1>6, <2>1
<1>10. CASE Greatest(T \ {x})
  <2>1. PICK m \in T \ {x} : \A k \in T \ {x} : k <= m
    BY <1>10
  <2>2. CASE m <= x
    <3>1. \A k \in T : k <= x
      BY <1>6, <2>1, <2>2
    <3> QED BY <1>5, <1>6, <3>1
  <2>3. CASE x <= m
    <3>1. \A k \in T : k <= m
      BY <1>6, <2>1, <2>3
    <3> QED BY <1>5, <2>1, <3>1
  <2> QED BY <1>6, <2>1, <2>2, <2>3
<1> QED BY <1>8, <1>9, <1>10

Ordinal(fs, f) == Cardinality({g \in fs : g <= f})

LEMMA OrdinalIncreases ==
    ASSUME NEW fs \in SUBSET Nat, IsFiniteSet(fs), NEW f \in fs, NEW g \in fs
    PROVE  /\ Ordinal(fs, f) \in 1..Cardinality(fs)
           /\ f < g => Ordinal(fs, f) < Ordinal(fs, g)
<1> DEFINE Upto(x) == {y \in fs : y <= x}
<1>1. ASSUME NEW x \in fs
      PROVE  /\ IsFiniteSet(Upto(x)) /\ Cardinality(Upto(x)) \in Nat
             /\ Cardinality(Upto(x)) <= Cardinality(fs)
             /\ Upto(x) # {}
  <2>1. Upto(x) \in SUBSET fs /\ x \in Upto(x)
    OBVIOUS
  <2> QED BY <2>1, FS_Subset, FS_CardinalityType
<1>2. Cardinality(Upto(f)) # 0
  BY <1>1, FS_EmptySet
<1>3. ASSUME f < g PROVE Cardinality(Upto(f)) < Cardinality(Upto(g))
  <2>1. Upto(f) \in SUBSET Upto(g) /\ g \in Upto(g) /\ g \notin Upto(f)
    <3>1. f \in Nat /\ g \in Nat /\ \A y \in fs : y \in Nat
      OBVIOUS
    <3>2. \A y \in fs : y <= f => y <= g
      BY <1>3, <3>1
    <3>3. g <= g /\ ~(g <= f)
      BY <1>3, <3>1
    <3> QED BY <3>2, <3>3
  <2>2. /\ Cardinality(Upto(f)) <= Cardinality(Upto(g))
        /\ Cardinality(Upto(g)) = Cardinality(Upto(f)) => Upto(g) = Upto(f)
    <3> HIDE DEF Upto
    <3> QED BY <1>1, <2>1, FS_Subset
  <2> QED BY <1>1, <2>1, <2>2
<1>4. Cardinality(fs) \in Nat
  BY FS_CardinalityType
<1> QED BY <1>1, <1>2, <1>3, <1>4 DEF Ordinal

LEMMA OrdinalIsInjective ==
    ASSUME NEW fs \in SUBSET Nat, IsFiniteSet(fs), NEW f \in fs, NEW g \in fs,
           Ordinal(fs, f) = Ordinal(fs, g)
    PROVE  f = g
<1>1. f < g \/ g < f \/ f = g
  OBVIOUS
<1>2. Ordinal(fs, f) \in Nat
  BY OrdinalIncreases
<1> QED BY <1>1, <1>2, OrdinalIncreases

(* Ordered lists each fingerprint once, at its ordinal.                    *)
LEMMA OrderedLists ==
    ASSUME NEW fs \in SUBSET Nat, IsFiniteSet(fs)
    PROVE  /\ Cardinality(fs) \in Nat
           /\ DOMAIN Ordered(fs) = 1..Cardinality(fs)
           /\ \A i \in DOMAIN Ordered(fs) :
                Ordered(fs)[i] \in fs /\ Ordinal(fs, Ordered(fs)[i]) = i
           /\ \A f \in fs : \E i \in DOMAIN Ordered(fs) : Ordered(fs)[i] = f
<1> DEFINE N == Cardinality(fs)
           ord == [f \in fs |-> Ordinal(fs, f)]
<1>1. N \in Nat
  BY FS_CardinalityType
<1>2. ord \in Injection(fs, 1..N)
  <2>1. ord \in [fs -> 1..N]
    BY OrdinalIncreases
  <2> QED BY <2>1, OrdinalIsInjective, Fun_IsInj
<1>3. ord \in Surjection(fs, 1..N)
  <2>1. IsFiniteSet(1..N) /\ Cardinality(1..N) = N
    BY <1>1, FS_Interval
  <2> HIDE DEF ord
  <2> QED BY <1>2, <2>1, FS_Injection
<1>4. \A i \in 1..N : \E f \in fs : Ordinal(fs, f) = i
  BY <1>3 DEF Surjection
<1>5. DOMAIN Ordered(fs) = 1..N
  BY DEF Ordered
<1>6. ASSUME NEW i \in 1..N
      PROVE  Ordered(fs)[i] \in fs /\ Ordinal(fs, Ordered(fs)[i]) = i
  <2>1. Ordered(fs)[i] = CHOOSE f \in fs : Ordinal(fs, f) = i
    BY <1>6 DEF Ordered, Ordinal
  <2> QED BY <1>4, <2>1
<1>7. ASSUME NEW f \in fs PROVE \E i \in 1..N : Ordered(fs)[i] = f
  <2>1. Ordinal(fs, f) \in 1..N
    BY OrdinalIncreases
  <2>2. PICK g \in fs : /\ g = Ordered(fs)[Ordinal(fs, f)]
                        /\ Ordinal(fs, g) = Ordinal(fs, f)
    BY <1>6, <2>1
  <2>3. g = f
    BY <2>2, OrdinalIsInjective
  <2> QED BY <2>1, <2>2, <2>3
<1> QED BY <1>1, <1>5, <1>6, <1>7

(***************************************************************************)
(* Types                                                                   *)
(***************************************************************************)
Stages == {"idle", "failed", "snapshots", "report", "findings", "close"}
FixStages == {"none", "queued", "deliver", "matrix", "results", "ended"}
RowStates == {"Awaiting", "Queued", "Recorded", "Skipped"}
RequestStates == {"open", "Recorded", "Skipped", "failed"}

Rows == UNION {[S -> RowStates] : S \in SUBSET AuditTargets}
Requests == UNION {[S -> RequestStates] : S \in SUBSET AuditTargets}
Body == [marker: Nat \X Nat, fingerprint: Fingerprints, affected: SUBSET AuditTargets, rows: Rows]
Issue == [open: BOOLEAN, body: Body]
Drifts == [Fingerprints -> SUBSET AuditTargets]

Positions == Nat \ {0}
Registries == UNION {[S -> Nat \X Nat] : S \in SUBSET Fingerprints}
Audits == [stage: Stages, drift: Drifts \cup {<<>>}, trouble: SUBSET Troubles,
           findings: Seq(Body), found: Seq(Issue), next: Positions, closing: SUBSET Nat]
FixRuns == [stage: FixStages, number: Nat, plan: Body \cup {<<>>}, request: Requests \cup {<<>>}]

FixTypes ==
    /\ fix \in [DOMAIN FixComments -> FixRuns]
    /\ \A k \in DOMAIN fix : fix[k].stage # "none" => fix[k].plan \in Body
    /\ \A k \in DOMAIN fix : fix[k].stage \in Progressing => fix[k].request \in Requests

TypeOK ==
    /\ drift \in Drifts
    /\ year \in Nat
    /\ findingIds \in Registries
    /\ tracked \in Seq(Issue)
    /\ audit \in Audits /\ (audit.stage # "idle" => audit.drift \in Drifts)
    /\ FixTypes

(***************************************************************************)
(* The invariant                                                           *)
(***************************************************************************)
Named(body) ==
    body.fingerprint \in DOMAIN findingIds /\ findingIds[body.fingerprint] = body.marker

(* The registry names no two findings alike, and the issues bear its IDs,  *)
(* one issue for each.                                                     *)
RegistryInv ==
    /\ \A f, g \in DOMAIN findingIds : findingIds[f] = findingIds[g] => f = g
    /\ \A n \in DOMAIN tracked : Named(tracked[n].body)
    /\ \A n, m \in DOMAIN tracked :
        tracked[n].body.fingerprint = tracked[m].body.fingerprint => n = m

(* A comment is about an issue whose finding never changes.                *)
FixInv ==
    \A k \in DOMAIN fix : fix[k].stage # "none" =>
        /\ fix[k].number \in DOMAIN tracked
        /\ fix[k].plan.marker = tracked[fix[k].number].body.marker
        /\ fix[k].plan.fingerprint = tracked[fix[k].number].body.fingerprint

Delivering == audit.stage \in {"report", "findings", "close"}

(* The report has the detected findings, each once and with its durable ID. *)
ReportInv ==
    /\ \A i \in DOMAIN audit.findings :
        Named(audit.findings[i]) /\ audit.findings[i].fingerprint \in Drafts
    /\ \A i, j \in DOMAIN audit.findings :
        audit.findings[i].fingerprint = audit.findings[j].fingerprint => i = j
    /\ \A f \in Drafts : \E i \in DOMAIN audit.findings : audit.findings[i].fingerprint = f

OpenFor(f) == \E n \in DOMAIN tracked : tracked[n].open /\ tracked[n].body.fingerprint = f

(* What the search found is still what there is, but for the issues created *)
(* since, and the findings before the next one have an open issue.          *)
FindingsInv ==
    /\ audit.next \in 1..(Len(audit.findings) + 1)
    /\ Len(audit.found) <= Len(tracked)
    /\ \A n \in DOMAIN audit.found :
        /\ audit.found[n].body.marker = tracked[n].body.marker
        /\ audit.found[n].body.fingerprint = tracked[n].body.fingerprint
    /\ \A n \in DOMAIN tracked : n \notin DOMAIN audit.found =>
        \E i \in 1..(audit.next - 1) :
            audit.findings[i].fingerprint = tracked[n].body.fingerprint
    /\ \A i \in 1..(audit.next - 1) : OpenFor(audit.findings[i].fingerprint)
    /\ \A n \in DOMAIN tracked : tracked[n].open =>
        \/ tracked[n].body.fingerprint \in Drafts
        \/ n \in DOMAIN audit.found /\ audit.found[n].open

(* Only a healthy audit closes issues, and none it has a finding for.      *)
CloseInv ==
    /\ audit.closing \subseteq DOMAIN tracked
    /\ audit.closing # {} => Healthy
    /\ \A n \in audit.closing : tracked[n].body.fingerprint \notin Drafts
    /\ \A f \in Drafts : OpenFor(f)
    /\ Healthy => \A n \in DOMAIN tracked : tracked[n].open =>
        tracked[n].body.fingerprint \in Drafts \/ n \in audit.closing

DeliveredInv ==
    /\ \A f \in Drafts : OpenFor(f)
    /\ Healthy => \A n \in DOMAIN tracked : tracked[n].open =>
        tracked[n].body.fingerprint \in Drafts
    /\ \A f \in Drafts :
        /\ f \in DOMAIN findingIds /\ findingIds[f] \in DOMAIN index
        /\ index[findingIds[f]] \in DOMAIN tracked
        /\ tracked[index[findingIds[f]]].body.fingerprint = f

AuditInv ==
    /\ Delivering => ReportInv
    /\ audit.stage = "findings" => FindingsInv
    /\ audit.stage = "close" => CloseInv
    /\ audit.stage = "idle" /\ audit.drift # <<>> => DeliveredInv

IInv == TypeOK /\ RegistryInv /\ FixInv /\ AuditInv

(***************************************************************************)
(* Type correctness                                                        *)
(***************************************************************************)

(* A body with other states in its rows is a body of the same finding.     *)
LEMMA NewRows ==
    ASSUME NEW b \in Body, NEW r \in [DOMAIN b.rows -> RowStates]
    PROVE  /\ [b EXCEPT !.rows = r] \in Body
           /\ [b EXCEPT !.rows = r].marker = b.marker
           /\ [b EXCEPT !.rows = r].fingerprint = b.fingerprint
<1>1. PICK S \in SUBSET AuditTargets : b.rows \in [S -> RowStates]
  BY DEF Body, Rows
<1>2. r \in Rows
  BY <1>1 DEF Rows
<1> QED BY <1>2 DEF Body

LEMMA PreserveIsBody ==
    ASSUME NEW b \in Body, NEW p \in Body
    PROVE  /\ Preserve(b, p) \in Body
           /\ Preserve(b, p).marker = b.marker
           /\ Preserve(b, p).fingerprint = b.fingerprint
<1> DEFINE r == [t \in DOMAIN b.rows |->
                    IF t \in DOMAIN p.rows /\ p.rows[t] # "Awaiting"
                    THEN p.rows[t] ELSE b.rows[t]]
<1>1. PICK S \in SUBSET AuditTargets : b.rows \in [S -> RowStates]
  BY DEF Body, Rows
<1>2. PICK T \in SUBSET AuditTargets : p.rows \in [T -> RowStates]
  BY DEF Body, Rows
<1>3. r \in [DOMAIN b.rows -> RowStates]
  BY <1>1, <1>2
<1>4. Preserve(b, p) = [b EXCEPT !.rows = r]
  BY DEF Preserve
<1> HIDE DEF r
<1> QED BY <1>3, <1>4, NewRows

(* The fingerprints of a snapshot, and the IDs the registry gives them.    *)
LEMMA DraftsAreFinite ==
    ASSUME TypeOK
    PROVE  /\ Drafts \in SUBSET Fingerprints /\ Drafts \in SUBSET Nat /\ IsFiniteSet(Drafts)
           /\ DOMAIN findingIds \in SUBSET Fingerprints
           /\ NewFindings \in SUBSET Nat /\ IsFiniteSet(NewFindings)
<1>1. Drafts \in SUBSET Fingerprints /\ NewFindings \in SUBSET Fingerprints
  BY DEF Drafts, NewFindings
<1>2. IsFiniteSet(Drafts) /\ IsFiniteSet(NewFindings)
  BY <1>1, FS_Subset, AuditAssumption
<1>3. DOMAIN findingIds \in SUBSET Fingerprints
  BY DEF TypeOK, Registries
<1> QED BY <1>1, <1>2, <1>3, AuditAssumption

LEMMA LastOfYearIsLast ==
    ASSUME TypeOK
    PROVE  /\ LastOfYear \in Nat
           /\ \A f \in DOMAIN findingIds :
                findingIds[f][1] = year => findingIds[f][2] <= LastOfYear
<1> DEFINE Now == {g \in DOMAIN findingIds : findingIds[g][1] = year}
           used == {findingIds[f][2] : f \in Now}
<1>1. PICK D \in SUBSET Fingerprints : findingIds \in [D -> Nat \X Nat]
  BY DEF TypeOK, Registries
<1>2. IsFiniteSet(Now)
  BY <1>1, FS_Subset, AuditAssumption
<1>3. IsFiniteSet(used)
  <2> DEFINE second == [g \in Now |-> findingIds[g][2]]
  <2>1. second \in Surjection(Now, used)
    BY DEF Surjection
  <2> HIDE DEF second, Now, used
  <2> QED BY <1>2, <2>1, FS_Surjection
<1>4. used \cup {0} \in SUBSET Nat
  BY <1>1
<1>5. IsFiniteSet(used \cup {0})
  <2> HIDE DEF used
  <2> QED BY <1>3, FS_AddElement
<1>6. \E n \in used \cup {0} : \A i \in used \cup {0} : i <= n
  <2> HIDE DEF used
  <2> QED BY <1>4, <1>5, GreatestNumber
<1>7. LastOfYear = CHOOSE n \in used \cup {0} : \A i \in used : i <= n
  BY DEF LastOfYear
<1>8. LastOfYear \in used \cup {0} /\ \A i \in used : i <= LastOfYear
  <2> HIDE DEF used
  <2> QED BY <1>6, <1>7
<1> QED BY <1>4, <1>8

LEMMA AssignTypes ==
    ASSUME TypeOK
    PROVE  /\ DOMAIN Assign = Drafts \cup DOMAIN findingIds
           /\ Assign \in [Drafts \cup DOMAIN findingIds -> Nat \X Nat]
           /\ \A f \in DOMAIN findingIds : Assign[f] = findingIds[f]
<1>1. PICK D \in SUBSET Fingerprints : findingIds \in [D -> Nat \X Nat]
  BY DEF TypeOK, Registries
<1>2. ASSUME NEW f \in NewFindings PROVE OrdinalOf(f) \in Nat
  <2>1. NewFindings \in SUBSET Nat /\ IsFiniteSet(NewFindings)
    BY DraftsAreFinite
  <2>2. Ordinal(NewFindings, f) \in 1..Cardinality(NewFindings)
    BY <2>1, OrdinalIncreases
  <2> QED BY <2>1, <2>2, FS_CardinalityType DEF OrdinalOf, Ordinal
<1>3. LastOfYear \in Nat /\ year \in Nat
  BY LastOfYearIsLast DEF TypeOK
<1> QED BY <1>1, <1>2, <1>3 DEF Assign, NewFindings

LEMMA FindingBodyIsBody ==
    ASSUME TypeOK, NEW f \in Drafts, audit.drift \in Drifts
    PROVE  /\ FindingBody(f) \in Body
           /\ FindingBody(f).marker = Assign[f] /\ FindingBody(f).fingerprint = f
<1>1. Affected(f) \in SUBSET AuditTargets /\ f \in Fingerprints
  BY DraftsAreFinite DEF Affected, Drifts, Drafts
<1>2. NewTable(Affected(f)) \in Rows
  <2>1. NewTable(Affected(f)) \in [{} -> RowStates] \cup [Affected(f) -> RowStates]
    BY DEF NewTable, RowStates
  <2> QED BY <1>1, <2>1 DEF Rows
<1> QED BY <1>1, <1>2, AssignTypes DEF FindingBody, Body

LEMMA FindingIdsType ==
    ASSUME TypeOK
    PROVE  Assign \in Registries
<1>1. Drafts \cup DOMAIN findingIds \in SUBSET Fingerprints
  BY DraftsAreFinite
<1> QED BY <1>1, AssignTypes DEF Registries

LEMMA SeqUpdate ==
    ASSUME NEW S, NEW s \in Seq(S), NEW n, NEW e \in S
    PROVE  /\ [s EXCEPT ![n] = e] \in Seq(S) /\ Len([s EXCEPT ![n] = e]) = Len(s)
           /\ DOMAIN [s EXCEPT ![n] = e] = DOMAIN s
           /\ \A i \in DOMAIN s : [s EXCEPT ![n] = e][i] = IF i = n THEN e ELSE s[i]
<1>1. DOMAIN s = 1..Len(s) /\ s \in [1..Len(s) -> S]
  BY LenProperties
<1>2. CASE n \in 1..Len(s)
  BY <1>1, <1>2, ExceptSeq
<1>3. CASE n \notin 1..Len(s)
  <2>1. [s EXCEPT ![n] = e] = s
    BY <1>1, <1>3
  <2> QED BY <1>1, <1>3, <2>1
<1> QED BY <1>2, <1>3

Current == audit.findings[audit.next]
Known == {n \in DOMAIN audit.found : audit.found[n].body.marker = Current.marker}

(* The next finding gets a new issue, or the first one the search found.   *)
LEMMA DeliverFindingEffect ==
    ASSUME TypeOK, DeliverFinding
    PROVE  /\ audit.next \in DOMAIN audit.findings /\ Current \in Body
           /\ \/ /\ Known = {}
                 /\ tracked' = Append(tracked, [open |-> TRUE, body |-> Current])
              \/ \E n \in Known : tracked' = [tracked EXCEPT ![n] =
                    [open |-> TRUE, body |-> Preserve(Current, audit.found[n].body)]]
<1>1. /\ audit.next \in DOMAIN audit.findings
      /\ tracked' = IF Known = {} THEN Append(tracked, [open |-> TRUE, body |-> Current])
                    ELSE Updated(CHOOSE n \in Known : \A m \in Known : m <= n, Current)
  <2>1. audit.next \in Nat \ {0} /\ audit.findings \in Seq(Body)
    BY DEF TypeOK, Audits, Positions
  <2>2. audit.next \in DOMAIN audit.findings
    BY <2>1 DEF DeliverFinding
  <2> QED BY <2>2, Zenon DEF DeliverFinding, Known, Current
<1>2. Current \in Body
  BY <1>1 DEF TypeOK, Audits, Current
<1>3. ASSUME Known # {}
      PROVE  (CHOOSE n \in Known : \A m \in Known : m <= n) \in Known
  <2>1. Known \in SUBSET (1..Len(audit.found)) /\ Len(audit.found) \in Nat
    BY DEF TypeOK, Audits, Known
  <2>2. IsFiniteSet(1..Len(audit.found)) /\ Known \in SUBSET Nat
    BY <2>1, FS_Interval
  <2>3. IsFiniteSet(Known)
    BY <2>1, <2>2, FS_Subset
  <2>4. \E n \in Known : \A m \in Known : m <= n
    BY <1>3, <2>2, <2>3, GreatestNumber
  <2> QED BY <2>4
<1> QED BY <1>1, <1>2, <1>3 DEF Updated

(* Every step of an audit keeps the types.                                 *)
LEMMA AuditStepTypes ==
    ASSUME TypeOK, AuditStep
    PROVE  TypeOK'
<1> USE DEF TypeOK
<1>a. 1 \in Positions /\ \A n \in Positions : n + 1 \in Positions
  BY DEF Positions
<1>b. <<>> \in Seq(Body) /\ <<>> \in Seq(Issue)
  BY EmptySeq
<1>1. CASE TakeSnapshots
  <2>1. PICK t \in {{}} \cup {{x} : x \in Troubles} :
            audit' = [NoAudit EXCEPT !.stage = "snapshots", !.drift = drift, !.trouble = t]
    BY <1>1 DEF TakeSnapshots
  <2>2. t \in SUBSET Troubles
    OBVIOUS
  <2>3. audit' = [stage |-> "snapshots", drift |-> drift, trouble |-> t, findings |-> <<>>,
                  found |-> <<>>, next |-> 1, closing |-> {}]
    BY <2>1 DEF NoAudit
  <2>4. audit' \in Audits /\ audit'.drift \in Drifts
    BY <2>2, <2>3, <1>a, <1>b DEF Stages, Audits
  <2> QED BY <1>1, <2>4 DEF TakeSnapshots, FixTypes
<1>2. CASE BuildReport
  <2>1. CASE ~Absent("reference", 0)
    <3>1. audit' \in Audits /\ audit'.drift = audit.drift /\ audit.stage # "idle"
      BY <1>2, <2>1 DEF BuildReport, Stages, Audits
    <3> QED BY <1>2, <2>1, <3>1 DEF BuildReport, FixTypes
  <2>2. CASE Absent("reference", 0)
    <3>1. audit.drift \in Drifts
      BY <1>2 DEF BuildReport
    <3> DEFINE list == [i \in DOMAIN Ordered(Drafts) |-> FindingBody(Ordered(Drafts)[i])]
    <3>2. list \in Seq(Body)
      <4>1. /\ Cardinality(Drafts) \in Nat /\ DOMAIN Ordered(Drafts) = 1..Cardinality(Drafts)
            /\ \A i \in DOMAIN Ordered(Drafts) : Ordered(Drafts)[i] \in Drafts
        BY DraftsAreFinite, OrderedLists
      <4>2. \A i \in DOMAIN Ordered(Drafts) : FindingBody(Ordered(Drafts)[i]) \in Body
        BY <3>1, <4>1, FindingBodyIsBody
      <4> QED BY <4>1, <4>2
    <3>3. /\ findingIds' = Assign
          /\ audit' = [audit EXCEPT !.stage = "report", !.findings = list]
          /\ UNCHANGED <<drift, year, tracked, fix>>
      BY <1>2, <2>2 DEF BuildReport
    <3> HIDE DEF list
    <3>4. audit' \in Audits /\ audit'.drift = audit.drift
      BY <3>2, <3>3 DEF Stages, Audits
    <3> QED BY <3>1, <3>3, <3>4, FindingIdsType DEF FixTypes
  <2> QED BY <2>1, <2>2
<1>3. CASE FindIssues
  <2>1. audit' \in Audits /\ audit'.drift = audit.drift /\ audit.stage # "idle"
    BY <1>3, <1>a DEF FindIssues, Stages, Audits
  <2> QED BY <1>3, <2>1 DEF FindIssues, FixTypes
<1>4. CASE DeliverFinding
  <2>1. ASSUME Known = {},
               tracked' = Append(tracked, [open |-> TRUE, body |-> Current])
        PROVE  tracked' \in Seq(Issue)
    <3>1. [open |-> TRUE, body |-> Current] \in Issue
      BY <1>4, DeliverFindingEffect DEF Issue
    <3> HIDE DEF Current
    <3>2. tracked \in Seq(Issue)
      OBVIOUS
    <3> QED BY <2>1, <3>1, <3>2, AppendProperties
  <2>2. ASSUME NEW n \in Known,
               tracked' = [tracked EXCEPT ![n] =
                    [open |-> TRUE, body |-> Preserve(Current, audit.found[n].body)]]
        PROVE  tracked' \in Seq(Issue)
    <3>1. audit.found[n].body \in Body
      <4>1. n \in DOMAIN audit.found /\ audit.found \in Seq(Issue)
        BY DEF Audits, Known
      <4>2. audit.found[n] \in Issue
        BY <4>1, LenProperties, ElementOfSeq
      <4> QED BY <4>2 DEF Issue
    <3>2. Preserve(Current, audit.found[n].body) \in Body
      BY <1>4, <3>1, DeliverFindingEffect, PreserveIsBody
    <3>3. [open |-> TRUE, body |-> Preserve(Current, audit.found[n].body)] \in Issue
      BY <3>2 DEF Issue
    <3> QED BY <2>2, <3>3, SeqUpdate
  <2>3. tracked' \in Seq(Issue)
    BY <1>4, <2>1, <2>2, DeliverFindingEffect
  <2>4. /\ audit.stage = "findings" /\ audit' = [audit EXCEPT !.next = @ + 1]
        /\ UNCHANGED <<drift, year, findingIds, fix>>
    BY <1>4 DEF DeliverFinding
  <2>5. audit' \in Audits /\ audit'.drift = audit.drift
    BY <2>4, <1>a DEF Audits
  <2> QED BY <2>3, <2>4, <2>5 DEF FixTypes
<1>5. CASE FindingsDelivered
  <2>1. PICK c \in SUBSET Nat :
            /\ audit' = [audit EXCEPT !.stage = "close", !.closing = c]
            /\ audit.stage = "findings" /\ UNCHANGED <<drift, year, findingIds, tracked, fix>>
    <3> DEFINE unseen == {n \in DOMAIN audit.found : audit.found[n].open /\ ~Reported(n)}
    <3>1. audit.found \in Seq(Issue)
      BY DEF Audits
    <3>2. unseen \in SUBSET Nat
      BY <3>1
    <3>3. audit' = [audit EXCEPT !.stage = "close", !.closing = IF Healthy THEN unseen ELSE {}]
      BY <1>5 DEF FindingsDelivered
    <3> HIDE DEF unseen
    <3>4. (IF Healthy THEN unseen ELSE {}) \in SUBSET Nat
      BY <3>2
    <3> QED BY <1>5, <3>3, <3>4 DEF FindingsDelivered
  <2>2. audit' \in Audits /\ audit'.drift = audit.drift
    BY <2>1 DEF Audits, Stages
  <2> QED BY <2>1, <2>2 DEF FixTypes
<1>6. CASE CloseFinding
  <2>1. PICK n : /\ tracked' = [tracked EXCEPT ![n].open = FALSE]
                 /\ audit' = [audit EXCEPT !.closing = @ \ {n}]
                 /\ audit.stage = "close" /\ UNCHANGED <<drift, year, findingIds, fix>>
    BY <1>6 DEF CloseFinding
  <2>2. tracked' \in Seq(Issue)
    <3>1. ASSUME NEW x \in Issue PROVE [x EXCEPT !.open = FALSE] \in Issue
      BY DEF Issue
    <3>2. CASE n \in DOMAIN tracked
      <4>1. tracked' = [tracked EXCEPT ![n] = [tracked[n] EXCEPT !.open = FALSE]]
        BY <2>1
      <4>2. tracked[n] \in Issue
        BY <3>2, LenProperties, ElementOfSeq
      <4> QED BY <3>1, <4>1, <4>2, SeqUpdate
    <3>3. CASE n \notin DOMAIN tracked
      <4>1. tracked' = tracked
        BY <2>1, <3>3, LenProperties
      <4> QED BY <4>1
    <3> QED BY <3>2, <3>3
  <2>3. audit' \in Audits /\ audit'.drift = audit.drift
    BY <2>1 DEF Audits
  <2> QED BY <2>1, <2>2, <2>3 DEF FixTypes
<1>7. CASE DeliverIndex
  <2>1. audit' \in Audits /\ audit'.stage = "idle"
    BY <1>7 DEF DeliverIndex, Audits, Stages
  <2> QED BY <1>7, <2>1 DEF DeliverIndex, FixTypes
<1>8. CASE AuditDies
  <2>1. audit' \in Audits /\ audit'.drift = audit.drift
    BY <1>8 DEF AuditDies, Audits, Stages
  <2> QED BY <1>8, <2>1 DEF AuditDies, FixTypes
<1>9. CASE RerunReport
  <2>1. audit' = [stage |-> "snapshots", drift |-> audit.drift, trouble |-> audit.trouble,
                  findings |-> <<>>, found |-> <<>>, next |-> 1, closing |-> {}]
    BY <1>9 DEF RerunReport, NoAudit
  <2>2. audit' \in Audits /\ audit'.drift = audit.drift
    BY <2>1, <1>a, <1>b DEF Stages, Audits
  <2> QED BY <1>9, <2>2 DEF RerunReport, FixTypes
<1> QED BY <1>1, <1>2, <1>3, <1>4, <1>5, <1>6, <1>7, <1>8, <1>9 DEF AuditStep

(***************************************************************************)
(* What a comment changes                                                  *)
(***************************************************************************)

(* The run r goes on with the finding the comment was posted on.           *)
GoesOn(r, k) ==
    /\ r \in FixRuns /\ r.stage # "none" /\ r.plan \in Body
    /\ r.stage \in Progressing => r.request \in Requests
    /\ \/ /\ fix[k].stage = "none" /\ r.number \in DOMAIN tracked
          /\ r.plan = tracked[r.number].body
       \/ /\ fix[k].stage # "none" /\ r.number = fix[k].number
          /\ r.plan.marker = fix[k].plan.marker
          /\ r.plan.fingerprint = fix[k].plan.fingerprint

LEMMA PostCommentGoesOn ==
    ASSUME TypeOK, NEW k \in DOMAIN FixComments, PostComment(k)
    PROVE  \E r : GoesOn(r, k) /\ fix' = [fix EXCEPT ![k] = r]
<1>1. PICK n \in DOMAIN tracked :
        fix' = [fix EXCEPT ![k].stage = "queued", ![k].number = n, ![k].plan = tracked[n].body]
  BY DEF PostComment
<1>2. /\ fix \in [DOMAIN FixComments -> FixRuns] /\ fix[k] \in FixRuns /\ fix[k].stage = "none"
  BY DEF TypeOK, FixTypes, PostComment
<1> DEFINE r == [fix[k] EXCEPT !.stage = "queued", !.number = n, !.plan = tracked[n].body]
<1>3. tracked[n] \in Issue /\ n \in Nat
  BY LenProperties, ElementOfSeq DEF TypeOK
<1>4. tracked[n].body \in Body
  BY <1>3 DEF Issue
<1>5. fix' = [fix EXCEPT ![k] = r]
  BY <1>1
<1>6. /\ r \in FixRuns /\ r.stage = "queued" /\ r.number = n /\ r.plan = tracked[n].body
  BY <1>2, <1>3, <1>4 DEF FixRuns, FixStages
<1> HIDE DEF r
<1>7. GoesOn(r, k)
  BY <1>2, <1>4, <1>6 DEF GoesOn, Progressing
<1> QED BY <1>5, <1>7

LEMMA HandleCommentGoesOn ==
    ASSUME TypeOK, NEW k \in DOMAIN FixComments, HandleAuditComment(k)
    PROVE  \E r : GoesOn(r, k) /\ fix' = [fix EXCEPT ![k] = r]
<1>1. /\ fix \in [DOMAIN FixComments -> FixRuns] /\ fix[k] \in FixRuns
      /\ fix[k].stage = "queued" /\ fix[k].plan \in Body
  BY DEF TypeOK, FixTypes, HandleAuditComment
<1> DEFINE body == fix[k].plan
           initial == FixTargets(k) \ RecordedIn(body)
           rows == [t \in DOMAIN body.rows |-> IF t \in initial THEN "Queued" ELSE body.rows[t]]
<1>2. FixTargets(k) \in SUBSET AuditTargets
  BY <1>1, AuditAssumption DEF FixTargets
<1>3. rows \in [DOMAIN body.rows -> RowStates]
  <2>1. PICK S \in SUBSET AuditTargets : body.rows \in [S -> RowStates]
    BY <1>1 DEF Body, Rows
  <2> QED BY <2>1 DEF RowStates
<1>4. PICK revised \in SUBSET (FixTargets(k) \cap RecordedIn(body)) :
        fix' = [fix EXCEPT
            ![k].request = [t \in initial \cup revised |-> "open"],
            ![k].plan.rows = rows,
            ![k].stage = IF FixTargets(k) \subseteq body.affected
                            /\ initial \cup revised # {}
                         THEN "deliver" ELSE "ended"]
  BY DEF HandleAuditComment
<1> DEFINE request == [t \in initial \cup revised |-> "open"]
           stage == IF FixTargets(k) \subseteq body.affected /\ initial \cup revised # {}
                    THEN "deliver" ELSE "ended"
           plan == [body EXCEPT !.rows = rows]
           r == [fix[k] EXCEPT !.request = request, !.plan = plan, !.stage = stage]
<1>5. request \in Requests
  <2>1. initial \cup revised \in SUBSET AuditTargets
    BY <1>2
  <2>2. request \in [initial \cup revised -> RequestStates]
    BY DEF RequestStates
  <2> QED BY <2>1, <2>2 DEF Requests
<1>6. stage \in {"deliver", "ended"}
  OBVIOUS
<1>7. fix' = [fix EXCEPT ![k] = r]
  BY <1>4
<1> HIDE DEF rows, request, stage
<1>8. /\ plan \in Body /\ plan.marker = fix[k].plan.marker
      /\ plan.fingerprint = fix[k].plan.fingerprint
  BY <1>1, <1>3, NewRows
<1> HIDE DEF plan
<1>9. /\ r \in FixRuns /\ r.stage = stage /\ r.number = fix[k].number
      /\ r.plan = plan /\ r.request = request
  BY <1>1, <1>5, <1>6, <1>8 DEF FixRuns, FixStages
<1> HIDE DEF r
<1>10. GoesOn(r, k)
  BY <1>1, <1>5, <1>6, <1>8, <1>9 DEF GoesOn
<1> QED BY <1>7, <1>10

(* The later steps of a comment, whose plan is that of its issue.          *)
LEMMA FixStepGoesOn ==
    ASSUME TypeOK, NEW k \in DOMAIN FixComments,
           DeliverPlan(k) \/ EndRequest(k) \/ RecordFix(k) \/ DeliverResults(k)
    PROVE  \E r : GoesOn(r, k) /\ fix' = [fix EXCEPT ![k] = r]
<1>1. /\ fix \in [DOMAIN FixComments -> FixRuns] /\ fix[k] \in FixRuns
      /\ fix[k].stage \in Progressing /\ fix[k].stage # "none"
      /\ fix[k].plan \in Body /\ fix[k].request \in Requests
  <2>1. fix[k].stage \in Progressing
    BY DEF Progressing, DeliverPlan, EndRequest, RecordFix, DeliverResults
  <2> QED BY <2>1 DEF TypeOK, FixTypes, Progressing
<1>2. CASE DeliverPlan(k) \/ DeliverResults(k)
  <2>1. PICK s \in {"matrix", "ended"} : fix' = [fix EXCEPT ![k].stage = s]
    BY <1>2 DEF DeliverPlan, DeliverResults
  <2> DEFINE r == [fix[k] EXCEPT !.stage = s]
  <2>2. fix' = [fix EXCEPT ![k] = r]
    BY <2>1
  <2>3. /\ r \in FixRuns /\ r.stage = s /\ r.number = fix[k].number
        /\ r.plan = fix[k].plan /\ r.request = fix[k].request
    BY <1>1 DEF FixRuns, FixStages
  <2> HIDE DEF r
  <2>4. GoesOn(r, k)
    BY <1>1, <2>3 DEF GoesOn
  <2> QED BY <2>2, <2>4
<1>3. CASE EndRequest(k)
  <2>1. PICK t \in DOMAIN fix[k].request, outcome \in {"Recorded", "Skipped", "failed"} :
            fix' = [fix EXCEPT ![k].request[t] = outcome]
    BY <1>3 DEF EndRequest
  <2> DEFINE request == [fix[k].request EXCEPT ![t] = outcome]
             r == [fix[k] EXCEPT !.request = request]
  <2>2. request \in Requests
    BY <1>1 DEF Requests, RequestStates
  <2>3. fix' = [fix EXCEPT ![k] = r]
    BY <2>1
  <2> HIDE DEF request
  <2>4. /\ r \in FixRuns /\ r.stage = fix[k].stage /\ r.number = fix[k].number
        /\ r.plan = fix[k].plan /\ r.request = request
    BY <1>1, <2>2 DEF FixRuns
  <2> HIDE DEF r
  <2>5. GoesOn(r, k)
    BY <1>1, <2>2, <2>4 DEF GoesOn
  <2> QED BY <2>3, <2>5
<1>4. CASE RecordFix(k)
  <2> DEFINE results == {t \in DOMAIN fix[k].request : fix[k].request[t] # "failed"}
             rows == [t \in DOMAIN fix[k].plan.rows |->
                        IF t \in results THEN fix[k].request[t] ELSE fix[k].plan.rows[t]]
             stage == IF results = {} THEN "ended" ELSE "results"
             plan == [fix[k].plan EXCEPT !.rows = rows]
             r == [fix[k] EXCEPT !.plan = plan, !.stage = stage]
  <2>1. rows \in [DOMAIN fix[k].plan.rows -> RowStates]
    <3>1. PICK S \in SUBSET AuditTargets : fix[k].plan.rows \in [S -> RowStates]
      BY <1>1 DEF Body, Rows
    <3>2. PICK T \in SUBSET AuditTargets : fix[k].request \in [T -> RequestStates]
      BY <1>1 DEF Requests
    <3>3. \A t \in T : fix[k].request[t] # "open"
      BY <1>4, <3>2 DEF RecordFix
    <3>4. \A t \in results : fix[k].request[t] \in RowStates
      BY <3>2, <3>3 DEF RequestStates, RowStates
    <3> QED BY <3>1, <3>4
  <2>2. fix' = [fix EXCEPT ![k] = r]
    BY <1>1, <1>4 DEF RecordFix, FixRuns, Body
  <2>3. stage \in {"ended", "results"}
    OBVIOUS
  <2> HIDE DEF rows, stage
  <2>4. /\ plan \in Body /\ plan.marker = fix[k].plan.marker
        /\ plan.fingerprint = fix[k].plan.fingerprint
    BY <1>1, <2>1, NewRows
  <2> HIDE DEF plan
  <2>5. /\ r \in FixRuns /\ r.stage = stage /\ r.number = fix[k].number
        /\ r.plan = plan /\ r.request = fix[k].request
    BY <1>1, <2>3, <2>4 DEF FixRuns, FixStages
  <2> HIDE DEF r
  <2>6. GoesOn(r, k)
    BY <1>1, <2>3, <2>4, <2>5 DEF GoesOn
  <2> QED BY <2>2, <2>6
<1> QED BY <1>2, <1>3, <1>4

(* The issues there are stay about their findings.                         *)
KeepsFindings ==
    /\ DOMAIN tracked \subseteq DOMAIN tracked'
    /\ \A n \in DOMAIN tracked :
        /\ tracked'[n].body.marker = tracked[n].body.marker
        /\ tracked'[n].body.fingerprint = tracked[n].body.fingerprint

(* No issue is created, closed or reopened.                                *)
KeepsOpen ==
    /\ Len(tracked') = Len(tracked) /\ DOMAIN tracked' = DOMAIN tracked
    /\ \A n \in DOMAIN tracked : tracked'[n].open = tracked[n].open

LEMMA WriteBack ==
    ASSUME TypeOK, FixInv, NEW k \in DOMAIN FixComments, fix[k].stage # "none",
           tracked' = [tracked EXCEPT ![fix[k].number].body = fix[k].plan]
    PROVE  tracked' \in Seq(Issue) /\ KeepsFindings /\ KeepsOpen
<1> DEFINE n == fix[k].number
           e == [tracked[n] EXCEPT !.body = fix[k].plan]
<1>1. /\ tracked \in Seq(Issue) /\ fix[k].plan \in Body /\ n \in DOMAIN tracked
      /\ fix[k].plan.marker = tracked[n].body.marker
      /\ fix[k].plan.fingerprint = tracked[n].body.fingerprint
  BY DEF TypeOK, FixTypes, FixInv
<1>2. tracked[n] \in Issue
  BY <1>1, LenProperties, ElementOfSeq
<1>3. tracked' = [tracked EXCEPT ![n] = e]
  OBVIOUS
<1>4. e \in Issue /\ e.open = tracked[n].open /\ e.body = fix[k].plan
  BY <1>1, <1>2 DEF Issue
<1> HIDE DEF e, n
<1>5. /\ tracked' \in Seq(Issue) /\ Len(tracked') = Len(tracked)
      /\ DOMAIN tracked' = DOMAIN tracked
      /\ \A i \in DOMAIN tracked : tracked'[i] = IF i = n THEN e ELSE tracked[i]
  <2> DEFINE u == [tracked EXCEPT ![n] = e]
  <2>1. /\ u \in Seq(Issue) /\ Len(u) = Len(tracked) /\ DOMAIN u = DOMAIN tracked
        /\ \A i \in DOMAIN tracked : u[i] = IF i = n THEN e ELSE tracked[i]
    BY <1>1, <1>4, SeqUpdate
  <2> HIDE DEF u
  <2> QED BY <1>3, <2>1 DEF u
<1> QED BY <1>1, <1>4, <1>5 DEF KeepsFindings, KeepsOpen

LEMMA GoesOnTypes ==
    ASSUME TypeOK, NEW k \in DOMAIN FixComments, NEW r, GoesOn(r, k),
           fix' = [fix EXCEPT ![k] = r]
    PROVE  FixTypes'
<1>1. /\ fix \in [DOMAIN FixComments -> FixRuns] /\ r \in FixRuns
      /\ r.stage # "none" /\ r.plan \in Body /\ (r.stage \in Progressing => r.request \in Requests)
  BY DEF TypeOK, FixTypes, GoesOn
<1>2. fix' \in [DOMAIN FixComments -> FixRuns] /\ DOMAIN fix' = DOMAIN FixComments
  BY <1>1
<1>3. \A j \in DOMAIN fix' : fix'[j] = IF j = k THEN r ELSE fix[j]
  BY <1>1
<1>4. ASSUME NEW j \in DOMAIN fix'
      PROVE  /\ fix'[j].stage # "none" => fix'[j].plan \in Body
             /\ fix'[j].stage \in Progressing => fix'[j].request \in Requests
  <2>1. CASE j = k
    BY <1>1, <1>3, <2>1
  <2>2. CASE j # k
    BY <1>1, <1>2, <1>3, <2>2 DEF TypeOK, FixTypes
  <2> QED BY <2>1, <2>2
<1> QED BY <1>2, <1>4 DEF FixTypes, Progressing

(* A comment rewrites at most the body of its issue, and not what names    *)
(* the finding in it.                                                      *)
LEMMA CommentKeeps ==
    ASSUME TypeOK, FixInv, NEW k \in DOMAIN FixComments, CommentStep(k)
    PROVE  /\ TypeOK' /\ KeepsFindings /\ KeepsOpen
           /\ UNCHANGED <<findingIds, index, audit>>
           /\ \E r : GoesOn(r, k) /\ fix' = [fix EXCEPT ![k] = r]
<1>1. \E r : GoesOn(r, k) /\ fix' = [fix EXCEPT ![k] = r]
  BY PostCommentGoesOn, HandleCommentGoesOn, FixStepGoesOn DEF CommentStep
<1>2. /\ UNCHANGED <<drift, year, findingIds, index, audit>>
      /\ \/ tracked' = tracked
         \/ /\ fix[k].stage # "none"
            /\ tracked' = [tracked EXCEPT ![fix[k].number].body = fix[k].plan]
  BY DEF CommentStep, PostComment, HandleAuditComment, DeliverPlan, EndRequest, RecordFix,
         DeliverResults
<1>3. tracked' \in Seq(Issue) /\ KeepsFindings /\ KeepsOpen
  <2>1. CASE tracked' = tracked
    BY <2>1 DEF TypeOK, KeepsFindings, KeepsOpen
  <2> QED BY <1>2, <2>1, WriteBack
<1>4. FixTypes'
  BY <1>1, GoesOnTypes
<1>5. TypeOK'
  BY <1>2, <1>3, <1>4 DEF TypeOK
<1> QED BY <1>1, <1>2, <1>3, <1>5

(* A comment's finding stays the one it was posted on.                     *)
LEMMA FixKept ==
    ASSUME TypeOK, FixInv, KeepsFindings,
           \/ fix' = fix
           \/ \E k \in DOMAIN FixComments : \E r : GoesOn(r, k) /\ fix' = [fix EXCEPT ![k] = r]
    PROVE  FixInv'
<1> DEFINE Holds(r) == /\ r.number \in DOMAIN tracked
                       /\ r.plan.marker = tracked[r.number].body.marker
                       /\ r.plan.fingerprint = tracked[r.number].body.fingerprint
<1>1. \A j \in DOMAIN fix : fix[j].stage # "none" => Holds(fix[j])
  BY DEF FixInv
<1>2. ASSUME NEW j \in DOMAIN fix', fix'[j].stage # "none" PROVE Holds(fix'[j])
  <2>1. CASE fix' = fix
    BY <1>1, <1>2, <2>1
  <2>2. ASSUME NEW k \in DOMAIN FixComments, NEW r, GoesOn(r, k), fix' = [fix EXCEPT ![k] = r]
        PROVE  Holds(fix'[j])
    <3>1. DOMAIN fix = DOMAIN FixComments
      BY DEF TypeOK, FixTypes
    <3>2. CASE j = k
      <4>1. fix'[j] = r
        BY <2>2, <3>1, <3>2
      <4>2. Holds(r)
        BY <1>1, <2>2, <3>1 DEF GoesOn
      <4> QED BY <4>1, <4>2
    <3>3. CASE j # k
      <4>1. fix'[j] = fix[j] /\ j \in DOMAIN fix
        BY <2>2, <3>1, <3>3
      <4> QED BY <1>1, <1>2, <4>1
    <3> QED BY <3>2, <3>3
  <2> QED BY <2>1, <2>2
<1>3. ASSUME NEW r, Holds(r)
      PROVE  /\ r.number \in DOMAIN tracked'
             /\ r.plan.marker = tracked'[r.number].body.marker
             /\ r.plan.fingerprint = tracked'[r.number].body.fingerprint
  BY <1>3 DEF KeepsFindings
<1> QED BY <1>2, <1>3 DEF FixInv

LEMMA DraftsKept ==
    ASSUME audit'.drift = audit.drift, audit'.trouble = audit.trouble
    PROVE  Drafts' = Drafts /\ Healthy' = Healthy
BY DEF Drafts, Affected, Absent, Healthy

(* What an issue says is all that the invariants look at.                  *)
LEMMA FrameKept ==
    ASSUME RegistryInv, AuditInv, KeepsFindings, KeepsOpen,
           UNCHANGED <<findingIds, index, audit>>
    PROVE  RegistryInv' /\ AuditInv'
<1>1. Drafts' = Drafts /\ Healthy' = Healthy
  BY DraftsKept
<1>2. DOMAIN tracked' = DOMAIN tracked /\ Len(tracked') = Len(tracked)
  BY DEF KeepsOpen
<1>3. \A n \in DOMAIN tracked : /\ tracked'[n].body.marker = tracked[n].body.marker
                                /\ tracked'[n].body.fingerprint = tracked[n].body.fingerprint
                                /\ tracked'[n].open = tracked[n].open
  BY DEF KeepsFindings, KeepsOpen
<1>4. RegistryInv'
  BY <1>2, <1>3 DEF RegistryInv, Named
<1>5. \A f : OpenFor(f) => OpenFor(f)'
  BY <1>2, <1>3 DEF OpenFor
<1>6. ReportInv => ReportInv'
  BY <1>1 DEF ReportInv, Named
<1>7. FindingsInv => FindingsInv'
  <2> SUFFICES ASSUME FindingsInv PROVE FindingsInv'
    OBVIOUS
  <2>1. (\A i \in 1..(audit.next - 1) : OpenFor(audit.findings[i].fingerprint))'
    BY <1>5 DEF FindingsInv
  <2>2. \A n \in DOMAIN tracked' : n \notin DOMAIN audit'.found =>
        \E i \in 1..(audit'.next - 1) :
            audit'.findings[i].fingerprint = tracked'[n].body.fingerprint
    BY <1>2, <1>3 DEF FindingsInv
  <2>3. \A n \in DOMAIN audit'.found :
        /\ audit'.found[n].body.marker = tracked'[n].body.marker
        /\ audit'.found[n].body.fingerprint = tracked'[n].body.fingerprint
    BY <1>2, <1>3 DEF FindingsInv
  <2>4. \A n \in DOMAIN tracked' : tracked'[n].open =>
        \/ tracked'[n].body.fingerprint \in Drafts'
        \/ n \in DOMAIN audit'.found /\ audit'.found[n].open
    BY <1>1, <1>2, <1>3 DEF FindingsInv
  <2> QED BY <1>2, <2>1, <2>2, <2>3, <2>4 DEF FindingsInv
<1>8. CloseInv => CloseInv'
  BY <1>1, <1>2, <1>3, <1>5 DEF CloseInv
<1>9. DeliveredInv => DeliveredInv'
  BY <1>1, <1>2, <1>3, <1>5 DEF DeliveredInv
<1> QED BY <1>4, <1>6, <1>7, <1>8, <1>9 DEF AuditInv, Delivering

(***************************************************************************)
(* The registry and the report                                             *)
(***************************************************************************)

(* A new ID is above all of its year, so the registry stays injective.     *)
LEMMA AssignIsInjective ==
    ASSUME TypeOK, RegistryInv, NEW f \in DOMAIN Assign, NEW g \in DOMAIN Assign,
           Assign[f] = Assign[g]
    PROVE  f = g
<1> DEFINE New(x) == x \in NewFindings
           ord(x) == Ordinal(NewFindings, x)
<1>1. /\ NewFindings \in SUBSET Nat /\ IsFiniteSet(NewFindings)
      /\ Cardinality(NewFindings) \in Nat
  BY DraftsAreFinite, FS_CardinalityType
<1>2. \A x \in NewFindings : ord(x) \in Nat /\ 1 <= ord(x)
  BY <1>1, OrdinalIncreases
<1>3. LastOfYear \in Nat
  BY LastOfYearIsLast
<1>4. \A x \in DOMAIN Assign : IF New(x) THEN Assign[x] = <<year, LastOfYear + ord(x)>>
                               ELSE x \in DOMAIN findingIds /\ Assign[x] = findingIds[x]
  BY AssignTypes DEF Assign, OrdinalOf, Ordinal, NewFindings
<1>5. \A x \in DOMAIN findingIds :
        /\ findingIds[x] = <<findingIds[x][1], findingIds[x][2]>> /\ findingIds[x][2] \in Nat
        /\ findingIds[x][1] = year => findingIds[x][2] <= LastOfYear
  BY LastOfYearIsLast DEF TypeOK, Registries
<1>6. CASE New(f) /\ New(g)
  <2>1. LastOfYear + ord(f) = LastOfYear + ord(g)
    BY <1>4, <1>6
  <2>2. ord(f) = ord(g)
    BY <1>2, <1>3, <1>6, <2>1
  <2> QED BY <1>1, <1>6, <2>2, OrdinalIsInjective
<1>7. ASSUME NEW x \in DOMAIN Assign, NEW y \in DOMAIN Assign, New(x), ~New(y)
      PROVE  Assign[x] # Assign[y]
  <2>1. SUFFICES ASSUME Assign[x] = Assign[y] PROVE FALSE
    OBVIOUS
  <2>2. findingIds[y] = <<year, LastOfYear + ord(x)>> /\ y \in DOMAIN findingIds
    BY <1>4, <1>7, <2>1
  <2>3. findingIds[y][2] = LastOfYear + ord(x) /\ findingIds[y][2] <= LastOfYear
    BY <1>5, <2>2
  <2> QED BY <1>2, <1>3, <1>7, <2>3
<1>8. CASE ~New(f) /\ ~New(g)
  BY <1>4, <1>8 DEF RegistryInv
<1> QED BY <1>6, <1>7, <1>8

LEMMA ReportIsBuilt ==
    ASSUME TypeOK, audit.drift \in Drifts,
           audit'.findings = [i \in DOMAIN Ordered(Drafts) |-> FindingBody(Ordered(Drafts)[i])],
           findingIds' = Assign, UNCHANGED <<audit.drift, audit.trouble>>
    PROVE  ReportInv'
<1> DEFINE list == Ordered(Drafts)
<1>1. /\ \A i \in DOMAIN list : list[i] \in Drafts /\ Ordinal(Drafts, list[i]) = i
      /\ \A f \in Drafts : \E i \in DOMAIN list : list[i] = f
  BY DraftsAreFinite, OrderedLists
<1>2. DOMAIN audit'.findings = DOMAIN list
  OBVIOUS
<1>3. \A i \in DOMAIN list : /\ audit'.findings[i].fingerprint = list[i]
                             /\ audit'.findings[i].marker = Assign[list[i]]
  BY <1>1, FindingBodyIsBody
<1>4. Drafts' = Drafts
  BY DraftsKept
<1>5. Drafts \subseteq DOMAIN Assign
  BY AssignTypes
<1> HIDE DEF list
<1>6. \A i \in DOMAIN audit'.findings : /\ audit'.findings[i].fingerprint \in DOMAIN findingIds'
                                        /\ findingIds'[audit'.findings[i].fingerprint]
                                            = audit'.findings[i].marker
                                        /\ audit'.findings[i].fingerprint \in Drafts'
  BY <1>1, <1>2, <1>3, <1>4, <1>5
<1>7. \A i, j \in DOMAIN audit'.findings :
        audit'.findings[i].fingerprint = audit'.findings[j].fingerprint => i = j
  BY <1>1, <1>2, <1>3
<1>8. \A f \in Drafts' : \E i \in DOMAIN audit'.findings : audit'.findings[i].fingerprint = f
  BY <1>1, <1>2, <1>3, <1>4
<1> QED BY <1>6, <1>7, <1>8 DEF ReportInv, Named

LEMMA BuildReportKeeps ==
    ASSUME IInv, BuildReport
    PROVE  RegistryInv' /\ AuditInv' /\ KeepsFindings
<1>1. KeepsFindings /\ tracked' = tracked
  BY DEF BuildReport, KeepsFindings
<1>2. TypeOK /\ RegistryInv /\ audit \in Audits /\ audit.drift \in Drifts
  BY DEF IInv, TypeOK, BuildReport
<1>3. CASE ~Absent("reference", 0)
  <2>1. findingIds' = findingIds /\ audit' = [audit EXCEPT !.stage = "failed"]
    BY <1>3 DEF BuildReport
  <2>2. audit'.stage = "failed"
    BY <1>2, <2>1 DEF Audits
  <2> QED BY <1>1, <1>2, <2>1, <2>2 DEF RegistryInv, Named, AuditInv, Delivering
<1>4. CASE Absent("reference", 0)
  <2> DEFINE list == [i \in DOMAIN Ordered(Drafts) |-> FindingBody(Ordered(Drafts)[i])]
  <2>1. findingIds' = Assign /\ audit' = [audit EXCEPT !.stage = "report", !.findings = list]
    BY <1>4 DEF BuildReport
  <2> HIDE DEF list
  <2>2. /\ audit'.stage = "report" /\ audit'.findings = list
        /\ audit'.drift = audit.drift /\ audit'.trouble = audit.trouble
    BY <1>2, <2>1 DEF Audits
  <2>3. ReportInv'
    BY <1>2, <2>1, <2>2, ReportIsBuilt DEF list
  <2>4. RegistryInv'
    <3>1. \A f, g \in DOMAIN Assign : Assign[f] = Assign[g] => f = g
      BY <1>2, AssignIsInjective
    <3>2. \A f \in DOMAIN findingIds : f \in DOMAIN Assign /\ Assign[f] = findingIds[f]
      BY <1>2, AssignTypes
    <3> QED BY <1>1, <1>2, <2>1, <3>1, <3>2 DEF RegistryInv, Named
  <2> QED BY <1>1, <2>2, <2>3, <2>4 DEF AuditInv
<1> QED BY <1>3, <1>4

(***************************************************************************)
(* The delivery                                                            *)
(***************************************************************************)
LEMMA QuietStepsKeep ==
    ASSUME IInv, TakeSnapshots \/ AuditDies \/ RerunReport
    PROVE  RegistryInv' /\ AuditInv' /\ KeepsFindings
<1>1. UNCHANGED <<findingIds, tracked>>
  BY DEF TakeSnapshots, AuditDies, RerunReport
<1>2. audit'.stage \in {"snapshots", "failed"}
  <2>1. audit \in Audits
    BY DEF IInv, TypeOK
  <2>2. CASE TakeSnapshots
    BY <2>2 DEF TakeSnapshots, NoAudit
  <2>3. CASE AuditDies
    BY <2>1, <2>3 DEF AuditDies, Audits
  <2>4. CASE RerunReport
    BY <2>4 DEF RerunReport, NoAudit
  <2> QED BY <2>2, <2>3, <2>4
<1> QED BY <1>1, <1>2 DEF IInv, RegistryInv, Named, AuditInv, Delivering, KeepsFindings

(* What DeliverFinding, FindingsDelivered and DeliverIndex may rely on.    *)
LEMMA ReportIsKept ==
    ASSUME ReportInv, audit'.findings = audit.findings, audit'.drift = audit.drift,
           audit'.trouble = audit.trouble, findingIds' = findingIds
    PROVE  ReportInv' /\ Drafts' = Drafts /\ Healthy' = Healthy
<1>1. Drafts' = Drafts /\ Healthy' = Healthy
  BY DraftsKept
<1> QED BY <1>1 DEF ReportInv, Named

LEMMA FindIssuesKeeps ==
    ASSUME IInv, FindIssues
    PROVE  RegistryInv' /\ AuditInv' /\ KeepsFindings
<1>1. /\ audit \in Audits /\ tracked \in Seq(Issue) /\ ReportInv /\ RegistryInv
      /\ UNCHANGED <<findingIds, tracked>>
  BY DEF IInv, TypeOK, AuditInv, Delivering, FindIssues
<1>2. /\ audit'.stage = "findings" /\ audit'.next = 1 /\ audit'.found = tracked
      /\ audit'.findings = audit.findings /\ audit'.drift = audit.drift
      /\ audit'.trouble = audit.trouble
  BY <1>1 DEF FindIssues, Audits
<1>3. ReportInv'
  BY <1>1, <1>2, ReportIsKept
<1>4. FindingsInv'
  <2>1. audit'.findings \in Seq(Body)
    BY <1>1, <1>2 DEF Audits
  <2>2. Len(audit'.findings) \in Nat
    BY <2>1, LenProperties
  <2>3. 1..(audit'.next - 1) = {} /\ audit'.next \in 1..(Len(audit'.findings) + 1)
    BY <1>2, <2>2
  <2>4. Len(tracked) \in Nat
    BY <1>1, LenProperties
  <2>5. Len(audit'.found) <= Len(tracked')
    BY <1>1, <1>2, <2>4
  <2> QED BY <1>1, <1>2, <2>3, <2>5 DEF FindingsInv
<1> QED BY <1>1, <1>2, <1>3, <1>4 DEF RegistryInv, Named, AuditInv, KeepsFindings

(* A marker and a fingerprint name the same issue.                         *)
LEMMA SameMarker ==
    ASSUME RegistryInv, NEW b, NEW c, Named(b), Named(c)
    PROVE  b.marker = c.marker <=> b.fingerprint = c.fingerprint
BY DEF RegistryInv, Named

(* The facts about the next finding: an issue the search found has its ID  *)
(* exactly if it is about its fingerprint, and one it did not find is about *)
(* an earlier finding.                                                     *)
LEMMA NextFinding ==
    ASSUME IInv, audit.stage = "findings", audit.next \in DOMAIN audit.findings
    PROVE  /\ Named(Current) /\ Current.fingerprint \in Drafts
           /\ \A n \in Known : n \in DOMAIN tracked
                /\ tracked[n].body.fingerprint = Current.fingerprint
           /\ Known = {} => \A n \in DOMAIN tracked :
                tracked[n].body.fingerprint # Current.fingerprint
<1>1. ReportInv /\ FindingsInv /\ RegistryInv
  BY DEF IInv, AuditInv, Delivering
<1>2. Named(Current) /\ Current.fingerprint \in Drafts
  BY <1>1 DEF ReportInv, Current
<1>3. /\ DOMAIN audit.found \subseteq DOMAIN tracked
      /\ audit.findings \in Seq(Body) /\ audit.next \in Nat
      /\ DOMAIN audit.findings = 1..Len(audit.findings)
  <2>1. /\ audit.found \in Seq(Issue) /\ tracked \in Seq(Issue)
        /\ audit.findings \in Seq(Body) /\ audit.next \in Nat
    BY DEF IInv, TypeOK, Audits, Positions
  <2>2. /\ DOMAIN audit.found = 1..Len(audit.found) /\ Len(audit.found) \in Nat
        /\ DOMAIN tracked = 1..Len(tracked) /\ Len(tracked) \in Nat
        /\ DOMAIN audit.findings = 1..Len(audit.findings)
    BY <2>1, LenProperties
  <2>3. Len(audit.found) <= Len(tracked)
    BY <1>1 DEF FindingsInv
  <2> QED BY <2>1, <2>2, <2>3
<1>4. ASSUME NEW n \in Known
      PROVE  n \in DOMAIN tracked /\ tracked[n].body.fingerprint = Current.fingerprint
  <2>1. n \in DOMAIN audit.found /\ n \in DOMAIN tracked
    BY <1>3 DEF Known
  <2>2. tracked[n].body.marker = Current.marker
    BY <1>1, <2>1 DEF FindingsInv, Known
  <2>3. Named(tracked[n].body)
    BY <1>1, <2>1 DEF RegistryInv
  <2> QED BY <1>1, <1>2, <2>1, <2>2, <2>3, SameMarker
<1>5. ASSUME Known = {}, NEW n \in DOMAIN tracked,
             tracked[n].body.fingerprint = Current.fingerprint
      PROVE  FALSE
  <2>1. CASE n \in DOMAIN audit.found
    <3>1. Named(tracked[n].body)
      BY <1>1 DEF RegistryInv
    <3>2. tracked[n].body.marker = Current.marker
      BY <1>1, <1>2, <1>5, <3>1, SameMarker
    <3>3. audit.found[n].body.marker = Current.marker
      BY <1>1, <2>1, <3>2 DEF FindingsInv
    <3> QED BY <1>5, <2>1, <3>3 DEF Known
  <2>2. CASE n \notin DOMAIN audit.found
    <3>1. PICK i \in 1..(audit.next - 1) :
            audit.findings[i].fingerprint = tracked[n].body.fingerprint
      BY <1>1, <2>2 DEF FindingsInv
    <3>2. Len(audit.findings) \in Nat
      BY <1>3, LenProperties
    <3>3. i \in DOMAIN audit.findings /\ i # audit.next
      BY <1>3, <3>1, <3>2
    <3>4. audit.findings[i].fingerprint = audit.findings[audit.next].fingerprint
      BY <1>5, <3>1 DEF Current
    <3> QED BY <1>1, <3>3, <3>4 DEF ReportInv
  <2> QED BY <2>1, <2>2
<1> QED BY <1>2, <1>4, <1>5

(* DeliverFinding leaves every issue about its finding, and the next       *)
(* finding with an open issue of its own.                                  *)
LEMMA DeliverFindingTracks ==
    ASSUME IInv, DeliverFinding
    PROVE  /\ KeepsFindings /\ Len(tracked) <= Len(tracked')
           /\ \A n \in DOMAIN tracked' :
                \/ n \in DOMAIN tracked /\ tracked'[n].open = tracked[n].open
                \/ tracked'[n].open /\ tracked'[n].body.fingerprint = Current.fingerprint
                    /\ tracked'[n].body.marker = Current.marker
           /\ \A n \in DOMAIN tracked : tracked[n].open => tracked'[n].open
           /\ \A n \in DOMAIN tracked' \ DOMAIN tracked : Known = {} /\ n = Len(tracked')
           /\ \E n \in DOMAIN tracked' :
                tracked'[n].open /\ tracked'[n].body.fingerprint = Current.fingerprint
<1>1. /\ TypeOK /\ RegistryInv /\ audit.stage = "findings" /\ tracked \in Seq(Issue)
      /\ FindingsInv
  BY DEF IInv, TypeOK, DeliverFinding, AuditInv
<1>2. audit.next \in DOMAIN audit.findings /\ Current \in Body
  BY <1>1, DeliverFindingEffect
<1>3. DOMAIN tracked = 1..Len(tracked) /\ Len(tracked) \in Nat
  BY <1>1, LenProperties
<1> DEFINE new == [open |-> TRUE, body |-> Current]
<1>4. CASE Known = {} /\ tracked' = Append(tracked, new)
  <2>1. new \in Issue
    BY <1>2 DEF Issue
  <2> DEFINE t == Append(tracked, new)
  <2>2. /\ Len(t) = Len(tracked) + 1 /\ DOMAIN t = 1..(Len(tracked) + 1)
        /\ \A i \in 1..Len(tracked) : t[i] = tracked[i]
        /\ t[Len(tracked) + 1] = new
    BY <1>1, <2>1, AppendProperties, LenProperties
  <2>3. /\ Len(tracked') = Len(tracked) + 1 /\ DOMAIN tracked' = 1..(Len(tracked) + 1)
        /\ \A i \in 1..Len(tracked) : tracked'[i] = tracked[i]
        /\ tracked'[Len(tracked) + 1].open = TRUE
        /\ tracked'[Len(tracked) + 1].body = Current
    BY <1>4, <2>2
  <2>4. (Len(tracked) + 1) \in DOMAIN tracked'
    BY <1>3, <2>3
  <2> HIDE DEF new
  <2> QED BY <1>3, <1>4, <2>3, <2>4 DEF KeepsFindings
<1>5. ASSUME NEW n \in Known,
             tracked' = [tracked EXCEPT ![n] =
                [open |-> TRUE, body |-> Preserve(Current, audit.found[n].body)]]
      PROVE  /\ KeepsFindings /\ Len(tracked') = Len(tracked) /\ DOMAIN tracked' = DOMAIN tracked
             /\ n \in DOMAIN tracked /\ tracked'[n].open
             /\ tracked'[n].body.fingerprint = Current.fingerprint
             /\ tracked'[n].body.marker = Current.marker
             /\ \A m \in DOMAIN tracked : m # n => tracked'[m] = tracked[m]
  <2> DEFINE e == [open |-> TRUE, body |-> Preserve(Current, audit.found[n].body)]
  <2>1. /\ n \in DOMAIN tracked /\ tracked[n].body.fingerprint = Current.fingerprint
        /\ Named(Current)
    BY <1>1, <1>2, NextFinding
  <2>2. tracked[n].body.marker = Current.marker
    <3>1. Named(tracked[n].body)
      BY <1>1, <2>1 DEF RegistryInv
    <3> QED BY <1>1, <2>1, <3>1, SameMarker
  <2>3. audit.found[n].body \in Body
    <3>1. n \in DOMAIN audit.found /\ audit.found \in Seq(Issue)
      BY <1>1 DEF TypeOK, Audits, Known
    <3>2. audit.found[n] \in Issue
      BY <3>1, LenProperties, ElementOfSeq
    <3> QED BY <3>2 DEF Issue
  <2>4. /\ e \in Issue /\ e.open = TRUE /\ e.body.marker = Current.marker
        /\ e.body.fingerprint = Current.fingerprint
    BY <1>2, <2>3, PreserveIsBody DEF Issue
  <2> HIDE DEF e
  <2> DEFINE t == [tracked EXCEPT ![n] = e]
  <2>5. /\ Len(t) = Len(tracked) /\ DOMAIN t = DOMAIN tracked
        /\ \A i \in DOMAIN tracked : t[i] = IF i = n THEN e ELSE tracked[i]
    BY <1>1, <2>4, SeqUpdate
  <2>6. tracked' = t
    BY <1>5 DEF e
  <2> HIDE DEF t
  <2> QED BY <2>1, <2>2, <2>4, <2>5, <2>6 DEF KeepsFindings
<1>6. CASE \E n \in Known : tracked' = [tracked EXCEPT ![n] =
                [open |-> TRUE, body |-> Preserve(Current, audit.found[n].body)]]
  <2>1. PICK n \in Known : tracked' = [tracked EXCEPT ![n] =
                [open |-> TRUE, body |-> Preserve(Current, audit.found[n].body)]]
    BY <1>6
  <2>2. /\ KeepsFindings /\ Len(tracked') = Len(tracked) /\ DOMAIN tracked' = DOMAIN tracked
        /\ n \in DOMAIN tracked /\ tracked'[n].open
        /\ tracked'[n].body.fingerprint = Current.fingerprint
        /\ tracked'[n].body.marker = Current.marker
        /\ \A m \in DOMAIN tracked : m # n => tracked'[m] = tracked[m]
    BY <1>5, <2>1
  <2> QED BY <1>3, <2>2
<1> QED BY <1>1, <1>4, <1>6, DeliverFindingEffect

LEMMA DeliverFindingKeeps ==
    ASSUME IInv, DeliverFinding
    PROVE  RegistryInv' /\ AuditInv' /\ KeepsFindings
<1>1. /\ TypeOK /\ RegistryInv /\ ReportInv /\ FindingsInv /\ audit.stage = "findings"
      /\ audit \in Audits /\ UNCHANGED findingIds
  BY DEF IInv, TypeOK, DeliverFinding, AuditInv, Delivering
<1>2. /\ audit.next \in DOMAIN audit.findings /\ audit.next \in Nat /\ audit.next # 0
      /\ Len(audit.findings) \in Nat /\ DOMAIN audit.findings = 1..Len(audit.findings)
      /\ Len(audit.found) \in Nat /\ DOMAIN audit.found = 1..Len(audit.found)
      /\ Len(tracked) \in Nat /\ DOMAIN tracked = 1..Len(tracked)
  <2>1. /\ audit.findings \in Seq(Body) /\ audit.found \in Seq(Issue) /\ tracked \in Seq(Issue)
        /\ audit.next \in Nat \ {0}
    BY <1>1 DEF TypeOK, Audits, Positions
  <2> QED BY <1>1, <2>1, DeliverFindingEffect, LenProperties
<1>3. /\ Named(Current) /\ Current.fingerprint \in Drafts
      /\ Known = {} => \A n \in DOMAIN tracked :
            tracked[n].body.fingerprint # Current.fingerprint
  BY <1>1, <1>2, NextFinding
<1>4. /\ audit'.stage = "findings" /\ audit'.next = audit.next + 1
      /\ audit'.findings = audit.findings /\ audit'.found = audit.found
      /\ audit'.drift = audit.drift /\ audit'.trouble = audit.trouble
  BY <1>1 DEF DeliverFinding, Audits
<1>5. ReportInv' /\ Drafts' = Drafts
  BY <1>1, <1>4, ReportIsKept
<1>6. /\ KeepsFindings /\ Len(tracked) <= Len(tracked')
      /\ \A n \in DOMAIN tracked' :
            \/ n \in DOMAIN tracked /\ tracked'[n].open = tracked[n].open
            \/ tracked'[n].open /\ tracked'[n].body.fingerprint = Current.fingerprint
                /\ tracked'[n].body.marker = Current.marker
      /\ \A n \in DOMAIN tracked : tracked[n].open => tracked'[n].open
      /\ \A n \in DOMAIN tracked' \ DOMAIN tracked : Known = {} /\ n = Len(tracked')
      /\ \E n \in DOMAIN tracked' :
            tracked'[n].open /\ tracked'[n].body.fingerprint = Current.fingerprint
  BY DeliverFindingTracks
<1>7. \A n \in DOMAIN tracked :
        /\ n \in DOMAIN tracked'
        /\ tracked'[n].body.marker = tracked[n].body.marker
        /\ tracked'[n].body.fingerprint = tracked[n].body.fingerprint
  BY <1>6 DEF KeepsFindings
<1>8. \A n \in DOMAIN tracked' \ DOMAIN tracked :
        /\ tracked'[n].body.fingerprint = Current.fingerprint
        /\ tracked'[n].body.marker = Current.marker
        /\ \A m \in DOMAIN tracked : tracked'[m].body.fingerprint # Current.fingerprint
        /\ \A m \in DOMAIN tracked' \ DOMAIN tracked : m = n
  BY <1>3, <1>6, <1>7
<1>9. RegistryInv'
  <2>1. \A n \in DOMAIN tracked' :
            /\ tracked'[n].body.fingerprint \in DOMAIN findingIds
            /\ findingIds[tracked'[n].body.fingerprint] = tracked'[n].body.marker
    BY <1>1, <1>3, <1>7, <1>8 DEF RegistryInv, Named
  <2>2. ASSUME NEW n \in DOMAIN tracked', NEW m \in DOMAIN tracked',
               tracked'[n].body.fingerprint = tracked'[m].body.fingerprint
        PROVE  n = m
    BY <1>1, <1>7, <1>8, <2>2 DEF RegistryInv
  <2> QED BY <1>1, <2>1, <2>2 DEF RegistryInv, Named
<1>10. FindingsInv'
  <2>1. audit'.next \in 1..(Len(audit'.findings) + 1)
    BY <1>2, <1>4
  <2>2. Len(audit'.found) <= Len(tracked')
    <3>1. Len(audit.found) <= Len(tracked)
      BY <1>1 DEF FindingsInv
    <3>2. tracked' \in Seq(Issue)
      BY <1>1, AuditStepTypes DEF AuditStep, TypeOK
    <3>3. Len(tracked') \in Nat
      BY <3>2, LenProperties
    <3> QED BY <1>2, <1>4, <1>6, <3>1, <3>3
  <2>3. DOMAIN audit.found \subseteq DOMAIN tracked
    <3>1. Len(audit.found) <= Len(tracked)
      BY <1>1 DEF FindingsInv
    <3> QED BY <1>2, <3>1
  <2>4. \A n \in DOMAIN audit'.found :
            /\ audit'.found[n].body.marker = tracked'[n].body.marker
            /\ audit'.found[n].body.fingerprint = tracked'[n].body.fingerprint
    BY <1>1, <1>4, <1>7, <2>3 DEF FindingsInv
  <2>5. 1..(audit'.next - 1) = (1..(audit.next - 1)) \cup {audit.next}
    BY <1>2, <1>4
  <2>6. \A n \in DOMAIN tracked' : n \notin DOMAIN audit'.found =>
            \E i \in 1..(audit'.next - 1) :
                audit'.findings[i].fingerprint = tracked'[n].body.fingerprint
    <3>1. ASSUME NEW n \in DOMAIN tracked, n \notin DOMAIN audit.found
          PROVE  \E i \in 1..(audit.next - 1) :
                    audit.findings[i].fingerprint = tracked'[n].body.fingerprint
      BY <1>1, <1>7, <3>1 DEF FindingsInv
    <3>2. ASSUME NEW n \in DOMAIN tracked' \ DOMAIN tracked
          PROVE  audit.findings[audit.next].fingerprint = tracked'[n].body.fingerprint
      BY <1>8 DEF Current
    <3> QED BY <1>4, <2>5, <3>1, <3>2
  <2>7. ASSUME NEW i \in 1..(audit'.next - 1)
        PROVE  \E n \in DOMAIN tracked' : tracked'[n].open
                    /\ tracked'[n].body.fingerprint = audit'.findings[i].fingerprint
    <3>1. CASE i = audit.next
      BY <1>4, <1>6, <3>1 DEF Current
    <3>2. CASE i \in 1..(audit.next - 1)
      <4>1. PICK n \in DOMAIN tracked : tracked[n].open
                /\ tracked[n].body.fingerprint = audit.findings[i].fingerprint
        BY <1>1, <3>2 DEF FindingsInv, OpenFor
      <4> QED BY <1>4, <1>6, <1>7, <4>1
    <3> QED BY <2>5, <3>1, <3>2
  <2>8. \A n \in DOMAIN tracked' : tracked'[n].open =>
            \/ tracked'[n].body.fingerprint \in Drafts'
            \/ n \in DOMAIN audit'.found /\ audit'.found[n].open
    BY <1>1, <1>3, <1>4, <1>5, <1>6, <1>7 DEF FindingsInv
  <2> QED BY <2>1, <2>2, <2>4, <2>6, <2>7, <2>8 DEF FindingsInv, OpenFor
<1> QED BY <1>4, <1>5, <1>6, <1>9, <1>10 DEF AuditInv

LEMMA FindingsDeliveredKeeps ==
    ASSUME IInv, FindingsDelivered
    PROVE  RegistryInv' /\ AuditInv' /\ KeepsFindings
<1>1. /\ RegistryInv /\ ReportInv /\ FindingsInv /\ audit.stage = "findings"
      /\ audit \in Audits /\ tracked \in Seq(Issue) /\ UNCHANGED <<findingIds, tracked>>
  BY DEF IInv, TypeOK, FindingsDelivered, AuditInv, Delivering
<1> DEFINE unseen == {n \in DOMAIN audit.found : audit.found[n].open /\ ~Reported(n)}
<1>2. /\ audit'.stage = "close" /\ audit'.closing = (IF Healthy THEN unseen ELSE {})
      /\ audit'.findings = audit.findings /\ audit'.drift = audit.drift
      /\ audit'.trouble = audit.trouble
  BY <1>1 DEF FindingsDelivered, Audits
<1>3. ReportInv' /\ Drafts' = Drafts /\ Healthy' = Healthy
  BY <1>1, <1>2, ReportIsKept
<1>4. /\ Len(audit.findings) \in Nat /\ DOMAIN audit.findings = 1..Len(audit.findings)
      /\ audit.next = Len(audit.findings) + 1 /\ DOMAIN audit.found \subseteq DOMAIN tracked
  <2>1. /\ audit.findings \in Seq(Body) /\ audit.found \in Seq(Issue) /\ audit.next \in Nat
    BY <1>1 DEF Audits, Positions
  <2>2. /\ Len(audit.findings) \in Nat /\ DOMAIN audit.findings = 1..Len(audit.findings)
        /\ Len(audit.found) \in Nat /\ DOMAIN audit.found = 1..Len(audit.found)
        /\ Len(tracked) \in Nat /\ DOMAIN tracked = 1..Len(tracked)
    BY <1>1, <2>1, LenProperties
  <2>3. /\ audit.next > Len(audit.findings) /\ audit.next \in 1..(Len(audit.findings) + 1)
        /\ Len(audit.found) <= Len(tracked)
    BY <1>1 DEF FindingsDelivered, FindingsInv
  <2> QED BY <2>1, <2>2, <2>3
<1>5. \A f \in Drafts : OpenFor(f)
  <2>1. \A i \in DOMAIN audit.findings : OpenFor(audit.findings[i].fingerprint)
    BY <1>1, <1>4 DEF FindingsInv
  <2> QED BY <1>1, <2>1 DEF ReportInv
<1>6. ASSUME NEW n \in DOMAIN audit.found
      PROVE  Reported(n) <=> tracked[n].body.fingerprint \in Drafts
  <2>1. /\ Named(tracked[n].body) /\ n \in DOMAIN tracked
        /\ audit.found[n].body.marker = tracked[n].body.marker
    BY <1>1, <1>4 DEF RegistryInv, FindingsInv
  <2>2. ASSUME NEW i \in DOMAIN audit.findings
        PROVE  /\ audit.findings[i].fingerprint \in Drafts
               /\ audit.findings[i].marker = audit.found[n].body.marker
                    <=> audit.findings[i].fingerprint = tracked[n].body.fingerprint
    <3>1. Named(audit.findings[i]) /\ audit.findings[i].fingerprint \in Drafts
      BY <1>1 DEF ReportInv
    <3> QED BY <1>1, <2>1, <3>1, SameMarker
  <2>3. tracked[n].body.fingerprint \in Drafts => \E i \in DOMAIN audit.findings :
            audit.findings[i].fingerprint = tracked[n].body.fingerprint
    BY <1>1 DEF ReportInv
  <2> QED BY <2>2, <2>3 DEF Reported
<1>7. CloseInv'
  <2>1. audit'.closing \subseteq DOMAIN tracked'
    BY <1>1, <1>2, <1>4
  <2>2. audit'.closing # {} => Healthy'
    BY <1>2, <1>3
  <2>3. \A n \in audit'.closing : tracked'[n].body.fingerprint \notin Drafts'
    BY <1>1, <1>2, <1>3, <1>6
  <2>4. (\A f \in Drafts : OpenFor(f))'
    BY <1>1, <1>3, <1>5 DEF OpenFor
  <2>5. Healthy' => \A n \in DOMAIN tracked' : tracked'[n].open =>
            tracked'[n].body.fingerprint \in Drafts' \/ n \in audit'.closing
    BY <1>1, <1>2, <1>3, <1>6 DEF FindingsInv
  <2> QED BY <2>1, <2>2, <2>3, <2>4, <2>5 DEF CloseInv
<1> HIDE DEF unseen
<1> QED BY <1>1, <1>2, <1>3, <1>7 DEF RegistryInv, Named, AuditInv, KeepsFindings

(* CloseFinding closes one issue, which a healthy audit did not detect.    *)
LEMMA CloseFindingEffect ==
    ASSUME IInv, CloseFinding
    PROVE  \E n \in audit.closing :
            /\ n \in DOMAIN tracked /\ tracked[n].body.fingerprint \notin Drafts /\ Healthy
            /\ audit' = [audit EXCEPT !.closing = @ \ {n}]
            /\ Len(tracked') = Len(tracked) /\ DOMAIN tracked' = DOMAIN tracked
            /\ \A m \in DOMAIN tracked :
                /\ tracked'[m].body = tracked[m].body
                /\ tracked'[m].open = (m # n /\ tracked[m].open)
<1>1. /\ CloseInv /\ audit.closing # {} /\ tracked \in Seq(Issue) /\ audit \in Audits
  BY DEF IInv, TypeOK, AuditInv, CloseFinding
<1> DEFINE n == CHOOSE m \in audit.closing : \A i \in audit.closing : m <= i
<1>2. n \in audit.closing
  <2>1. audit.closing \in SUBSET Nat
    BY <1>1 DEF Audits
  <2> QED BY <1>1, <2>1, LeastNumber
<1>3. /\ tracked' = [tracked EXCEPT ![n].open = FALSE]
      /\ audit' = [audit EXCEPT !.closing = @ \ {n}]
  BY DEF CloseFinding
<1> HIDE DEF n
<1>4. n \in DOMAIN tracked /\ tracked[n].body.fingerprint \notin Drafts /\ Healthy
  BY <1>1, <1>2 DEF CloseInv
<1> DEFINE e == [tracked[n] EXCEPT !.open = FALSE]
           t == [tracked EXCEPT ![n] = e]
<1>5. \A m \in DOMAIN tracked : tracked[m] \in Issue
  BY <1>1, LenProperties, ElementOfSeq
<1>6. e \in Issue /\ e.open = FALSE /\ e.body = tracked[n].body
  BY <1>4, <1>5 DEF Issue
<1>7. tracked' = t
  BY <1>3
<1> HIDE DEF e
<1>8. /\ Len(t) = Len(tracked) /\ DOMAIN t = DOMAIN tracked
      /\ \A i \in DOMAIN tracked : t[i] = IF i = n THEN e ELSE tracked[i]
  BY <1>1, <1>6, SeqUpdate
<1> HIDE DEF t
<1>9. ASSUME NEW m \in DOMAIN tracked
      PROVE  tracked'[m].body = tracked[m].body /\ tracked'[m].open = (m # n /\ tracked[m].open)
  <2>1. tracked[m].open \in BOOLEAN
    BY <1>5 DEF Issue
  <2> QED BY <1>6, <1>7, <1>8, <2>1
<1> QED BY <1>2, <1>3, <1>4, <1>7, <1>8, <1>9

LEMMA CloseFindingKeeps ==
    ASSUME IInv, CloseFinding
    PROVE  RegistryInv' /\ AuditInv' /\ KeepsFindings
<1>1. /\ RegistryInv /\ ReportInv /\ CloseInv /\ audit.stage = "close"
      /\ audit \in Audits /\ UNCHANGED findingIds
  BY DEF IInv, TypeOK, CloseFinding, AuditInv, Delivering
<1>2. PICK n \in audit.closing :
            /\ n \in DOMAIN tracked /\ tracked[n].body.fingerprint \notin Drafts /\ Healthy
            /\ audit' = [audit EXCEPT !.closing = @ \ {n}]
            /\ Len(tracked') = Len(tracked) /\ DOMAIN tracked' = DOMAIN tracked
            /\ \A m \in DOMAIN tracked :
                /\ tracked'[m].body = tracked[m].body
                /\ tracked'[m].open = (m # n /\ tracked[m].open)
  BY CloseFindingEffect
<1>3. /\ audit'.stage = "close" /\ audit'.closing = audit.closing \ {n}
      /\ audit'.findings = audit.findings /\ audit'.drift = audit.drift
      /\ audit'.trouble = audit.trouble
  BY <1>1, <1>2 DEF Audits
<1>4. ReportInv' /\ Drafts' = Drafts /\ Healthy' = Healthy
  BY <1>1, <1>3, ReportIsKept
<1>5. ASSUME NEW f \in Drafts
      PROVE  \E m \in DOMAIN tracked' : tracked'[m].open /\ tracked'[m].body.fingerprint = f
  <2>1. PICK m \in DOMAIN tracked : tracked[m].open /\ tracked[m].body.fingerprint = f
    BY <1>1 DEF CloseInv, OpenFor
  <2> QED BY <1>2, <2>1
<1>6. CloseInv'
  BY <1>1, <1>2, <1>3, <1>4, <1>5 DEF CloseInv, OpenFor
<1>7. RegistryInv'
  BY <1>1, <1>2 DEF RegistryInv, Named
<1> QED BY <1>2, <1>3, <1>4, <1>6, <1>7 DEF AuditInv, KeepsFindings

LEMMA DeliverIndexKeeps ==
    ASSUME IInv, DeliverIndex
    PROVE  RegistryInv' /\ AuditInv' /\ KeepsFindings
<1>1. /\ RegistryInv /\ ReportInv /\ CloseInv /\ audit \in Audits
      /\ audit.closing = {} /\ UNCHANGED <<findingIds, tracked>>
  BY DEF IInv, TypeOK, DeliverIndex, AuditInv, Delivering
<1>2. /\ audit'.stage = "idle" /\ audit'.drift = audit.drift /\ audit'.trouble = audit.trouble
  BY <1>1 DEF DeliverIndex, Audits
<1>3. Drafts' = Drafts /\ Healthy' = Healthy
  BY <1>2, DraftsKept
<1>4. ASSUME NEW f \in Drafts
      PROVE  /\ f \in DOMAIN findingIds /\ findingIds[f] \in DOMAIN index'
             /\ index'[findingIds[f]] \in DOMAIN tracked
             /\ tracked[index'[findingIds[f]]].body.fingerprint = f
  <2>1. PICK i \in DOMAIN audit.findings : audit.findings[i].fingerprint = f
    BY <1>1 DEF ReportInv
  <2>2. f \in DOMAIN findingIds /\ findingIds[f] = audit.findings[i].marker
    BY <1>1, <2>1 DEF ReportInv, Named
  <2>3. /\ findingIds[f] \in DOMAIN index'
        /\ index'[findingIds[f]] =
                CHOOSE n \in DOMAIN tracked : tracked[n].body.marker = findingIds[f]
    BY <2>2 DEF DeliverIndex
  <2>4. PICK m \in DOMAIN tracked : tracked[m].body.fingerprint = f
    BY <1>1 DEF CloseInv, OpenFor
  <2>5. tracked[m].body.marker = findingIds[f]
    BY <1>1, <2>4 DEF RegistryInv, Named
  <2>6. /\ index'[findingIds[f]] \in DOMAIN tracked
        /\ tracked[index'[findingIds[f]]].body.marker = findingIds[f]
    BY <2>3, <2>5
  <2>7. tracked[index'[findingIds[f]]].body.fingerprint = f
    BY <1>1, <2>2, <2>6 DEF RegistryInv, Named
  <2> QED BY <2>2, <2>3, <2>6, <2>7
<1>5. DeliveredInv'
  <2>1. (\A f \in Drafts : OpenFor(f))'
    BY <1>1, <1>3 DEF CloseInv, OpenFor
  <2> QED BY <1>1, <1>3, <1>4, <2>1 DEF CloseInv, DeliveredInv
<1> QED BY <1>1, <1>2, <1>5 DEF RegistryInv, Named, AuditInv, Delivering, KeepsFindings

(***************************************************************************)
(* The invariant                                                           *)
(***************************************************************************)
LEMMA AuditInitially ==
    AuditInit => IInv
<1> SUFFICES ASSUME AuditInit PROVE IInv
  OBVIOUS
<1>1. PICK deviations \in FirstDrifts : AuditStart(deviations)
  BY DEF AuditInit
<1> DEFINE N == Cardinality(Past)
           list == Ordered(Past)
<1>2. Past \in SUBSET Nat /\ Past \in SUBSET Fingerprints /\ IsFiniteSet(Past)
  BY AuditAssumption, FS_Subset
<1>3. /\ N \in Nat /\ DOMAIN list = 1..N
      /\ \A i \in 1..N : list[i] \in Past /\ Ordinal(Past, list[i]) = i
  BY <1>2, OrderedLists
<1>4. /\ drift \in Drifts /\ year = 1 /\ audit = NoAudit
      /\ findingIds = [f \in Past |-> <<1, Ordinal(Past, f)>>]
      /\ tracked = [i \in 1..N |-> ClosedFinding(list[i], <<1, i>>)]
      /\ fix = [k \in DOMAIN FixComments |-> NoFix]
  BY <1>1, AuditAssumption DEF AuditStart, Ordinal, Drifts
<1> HIDE DEF N, list
<1>5. \A f \in Past : Ordinal(Past, f) \in Nat
  BY <1>2, OrdinalIncreases, FS_CardinalityType
<1>6. findingIds \in Registries
  <2>1. findingIds \in [Past -> Nat \X Nat]
    BY <1>4, <1>5
  <2> QED BY <1>2, <2>1 DEF Registries
<1>7. ASSUME NEW i \in 1..N
      PROVE  /\ ClosedFinding(list[i], <<1, i>>) \in Issue
             /\ ClosedFinding(list[i], <<1, i>>).body.marker = <<1, i>>
             /\ ClosedFinding(list[i], <<1, i>>).body.fingerprint = list[i]
  <2>1. FixableTargets \in SUBSET AuditTargets
    BY AuditAssumption
  <2> DEFINE rows == [t \in FixableTargets |-> "Recorded"]
  <2>2. rows \in Rows
    <3>1. rows \in [FixableTargets -> RowStates]
      BY DEF RowStates
    <3> QED BY <2>1, <3>1 DEF Rows
  <2>3. list[i] \in Fingerprints /\ <<1, i>> \in Nat \X Nat
    <3>1. i \in Nat
      BY <1>3
    <3>2. list[i] \in Past
      BY <1>3
    <3>3. list[i] \in Fingerprints
      BY <1>2, <3>2
    <3> QED BY <3>1, <3>3
  <2> HIDE DEF rows
  <2> DEFINE body == [marker |-> <<1, i>>, fingerprint |-> list[i],
                      affected |-> FixableTargets, rows |-> rows]
  <2>4. body \in Body
    BY <2>1, <2>2, <2>3 DEF Body
  <2>5. ClosedFinding(list[i], <<1, i>>) = [open |-> FALSE, body |-> body]
    BY DEF ClosedFinding, rows
  <2>6. body.marker = <<1, i>> /\ body.fingerprint = list[i]
    OBVIOUS
  <2> HIDE DEF body
  <2>7. [open |-> FALSE, body |-> body] \in Issue
    BY <2>4 DEF Issue
  <2> QED BY <2>5, <2>6, <2>7
<1>8. tracked \in Seq(Issue) /\ DOMAIN tracked = 1..N
  BY <1>3, <1>4, <1>7
<1>9. \A n \in DOMAIN tracked : /\ tracked[n].body.marker = <<1, n>>
                                /\ tracked[n].body.fingerprint = list[n]
  BY <1>4, <1>7, <1>8
<1>10. audit \in Audits /\ audit.stage = "idle" /\ audit.drift = <<>>
  BY <1>4, EmptySeq DEF NoAudit, Audits, Stages, Positions
<1>11. FixTypes /\ \A k \in DOMAIN fix : fix[k].stage = "none"
  BY <1>4 DEF FixTypes, NoFix, FixRuns, FixStages, Progressing
<1>12. TypeOK
  BY <1>4, <1>6, <1>8, <1>10, <1>11 DEF TypeOK
<1>13. RegistryInv
  <2>1. ASSUME NEW f \in Past, NEW g \in Past, findingIds[f] = findingIds[g] PROVE f = g
    <3>1. Ordinal(Past, f) = Ordinal(Past, g)
      BY <1>4, <2>1
    <3> QED BY <1>2, <3>1, OrdinalIsInjective
  <2>2. \A n \in DOMAIN tracked : Named(tracked[n].body)
    <3>1. ASSUME NEW n \in 1..N PROVE list[n] \in Past /\ findingIds[list[n]] = <<1, n>>
      BY <1>3, <1>4
    <3>2. DOMAIN findingIds = Past
      BY <1>4
    <3> QED BY <1>8, <1>9, <3>1, <3>2 DEF Named
  <2>3. \A n, m \in DOMAIN tracked :
            tracked[n].body.fingerprint = tracked[m].body.fingerprint => n = m
    BY <1>3, <1>8, <1>9
  <2> QED BY <1>4, <2>1, <2>2, <2>3 DEF RegistryInv
<1> QED BY <1>10, <1>11, <1>12, <1>13 DEF IInv, FixInv, AuditInv, Delivering

LEMMA AuditStepKeeps ==
    ASSUME IInv, AuditStep
    PROVE  IInv' /\ KeepsFindings
<1>1. TypeOK'
  BY AuditStepTypes DEF IInv
<1>2. RegistryInv' /\ AuditInv' /\ KeepsFindings
  BY QuietStepsKeep, BuildReportKeeps, FindIssuesKeeps, DeliverFindingKeeps,
     FindingsDeliveredKeeps, CloseFindingKeeps, DeliverIndexKeeps DEF AuditStep
<1>3. fix' = fix
  BY DEF AuditStep, TakeSnapshots, BuildReport, FindIssues, DeliverFinding, FindingsDelivered,
         CloseFinding, DeliverIndex, AuditDies, RerunReport
<1>4. FixInv'
  BY <1>2, <1>3, FixKept DEF IInv
<1> QED BY <1>1, <1>2, <1>4 DEF IInv

(* Outside of the audit only comments touch issues, and they keep what the *)
(* issues are about and whether they are open.                             *)
LEMMA OtherStepsKeep ==
    ASSUME IInv, Drift \/ NewYear \/ \E k \in DOMAIN FixComments : CommentStep(k)
    PROVE  IInv' /\ KeepsFindings /\ KeepsOpen /\ audit' = audit
<1>1. CASE Drift \/ NewYear
  <2>1. UNCHANGED <<findingIds, tracked, index, audit, fix>>
    BY <1>1 DEF Drift, NewYear
  <2>2. KeepsFindings /\ KeepsOpen
    BY <2>1 DEF KeepsFindings, KeepsOpen
  <2>3. drift' \in Drifts /\ year' \in Nat
    <3>1. drift \in Drifts /\ year \in Nat
      BY DEF IInv, TypeOK
    <3>2. CASE Drift
      <4>1. PICK f \in Fingerprints, t \in AuditTargets :
                drift' = [drift EXCEPT ![f] = IF t \in @ THEN @ \ {t} ELSE @ \cup {t}]
        BY <3>2 DEF Drift
      <4>2. (IF t \in drift[f] THEN drift[f] \ {t} ELSE drift[f] \cup {t}) \in SUBSET AuditTargets
        BY <3>1 DEF Drifts
      <4>3. drift' \in Drifts
        BY <3>1, <4>1, <4>2 DEF Drifts
      <4> QED BY <3>1, <3>2, <4>3 DEF Drift
    <3>3. CASE NewYear
      BY <3>1, <3>3 DEF NewYear
    <3> QED BY <1>1, <3>2, <3>3
  <2>4. TypeOK'
    BY <2>1, <2>3 DEF IInv, TypeOK, FixTypes
  <2>5. RegistryInv' /\ AuditInv'
    BY <2>1, <2>2, FrameKept DEF IInv
  <2>6. FixInv'
    BY <2>1, <2>2, FixKept DEF IInv
  <2> QED BY <2>1, <2>2, <2>4, <2>5, <2>6 DEF IInv
<1>2. ASSUME NEW k \in DOMAIN FixComments, CommentStep(k)
      PROVE  IInv' /\ KeepsFindings /\ KeepsOpen /\ audit' = audit
  <2>1. /\ TypeOK' /\ KeepsFindings /\ KeepsOpen /\ UNCHANGED <<findingIds, index, audit>>
        /\ \E r : GoesOn(r, k) /\ fix' = [fix EXCEPT ![k] = r]
    BY <1>2, CommentKeeps DEF IInv
  <2>2. RegistryInv' /\ AuditInv'
    BY <2>1, FrameKept DEF IInv
  <2>3. FixInv'
    BY <2>1, FixKept DEF IInv
  <2> QED BY <2>1, <2>2, <2>3 DEF IInv
<1> QED BY <1>1, <1>2

LEMMA StutterKeeps ==
    ASSUME IInv, UNCHANGED auditVars
    PROVE  IInv'
<1>1. UNCHANGED <<drift, year, findingIds, tracked, index, audit, fix>>
  BY DEF auditVars
<1>2. TypeOK'
  BY <1>1 DEF IInv, TypeOK, FixTypes
<1>3. KeepsFindings /\ KeepsOpen
  BY <1>1 DEF KeepsFindings, KeepsOpen
<1>4. RegistryInv' /\ AuditInv' /\ FixInv'
  BY <1>1, <1>3, FrameKept, FixKept DEF IInv
<1> QED BY <1>2, <1>4 DEF IInv

(* IInv is an invariant of the audit and of the comments on its findings.  *)
THEOREM AuditInvariant == AuditSpec => []IInv
<1>1. AuditInit => IInv
  BY AuditInitially
<1>2. IInv /\ [AuditNext]_auditVars => IInv'
  BY AuditStepKeeps, OtherStepsKeep, StutterKeeps DEF AuditNext
<1> QED BY <1>1, <1>2, PTL DEF AuditSpec

(* Every reachable state of the audit is well typed.                       *)
THEOREM AuditTypeCorrectness == AuditSpec => []TypeOK
<1>1. IInv => TypeOK
  BY DEF IInv
<1> QED BY <1>1, AuditInvariant, PTL

(* The IDs in the registry are durable: whatever died or was redelivered,  *)
(* every issue has the ID of its finding, and no finding has two issues.   *)
THEOREM IdsStayDurable == AuditSpec => []IdsAreDurable
<1>1. IInv => IdsAreDurable
  <2> SUFFICES ASSUME IInv PROVE IdsAreDurable
    OBVIOUS
  <2>1. RegistryInv
    BY DEF IInv
  <2> QED BY <2>1, SameMarker DEF RegistryInv, Named, IdsAreDurable
<1> QED BY <1>1, AuditInvariant, PTL

(* A healthy audit detects every deviation of its snapshots.               *)
LEMMA HealthyAuditSeesAll ==
    ASSUME Healthy, audit.drift \in Drifts
    PROVE  Drafts = {f \in Fingerprints : audit.drift[f] # {}}
<1>1. \A x, y : <<x, y>> \notin audit.trouble
  BY DEF Healthy
<1>2. ASSUME NEW f \in Fingerprints PROVE Affected(f) = audit.drift[f]
  BY <1>1 DEF Affected, Absent, Drifts
<1> QED BY <1>2 DEF Drafts

(* After a healthy audit the open issues are those of the deviations it    *)
(* saw, each linked by the index.                                          *)
THEOREM HealthyAuditsReconcile == AuditSpec => []HealthyAuditReconciles
<1>1. IInv => HealthyAuditReconciles
  <2> SUFFICES ASSUME IInv, audit.stage = "idle", audit.drift # <<>>, Healthy
               PROVE  HealthyAuditReconciles
    BY DEF HealthyAuditReconciles
  <2>1. DeliveredInv
    BY DEF IInv, AuditInv
  <2>2. audit.drift \in Drifts
    BY DEF IInv, TypeOK, Audits
  <2>3. Drafts = {f \in Fingerprints : audit.drift[f] # {}}
    BY <2>2, HealthyAuditSeesAll
  <2>4. \A n \in DOMAIN tracked : tracked[n].body.fingerprint \in Fingerprints
    <3>1. RegistryInv /\ DOMAIN findingIds \in SUBSET Fingerprints
      BY DraftsAreFinite DEF IInv
    <3> QED BY <3>1 DEF RegistryInv, Named
  <2>5. \A f \in Fingerprints : audit.drift[f] # {} <=> OpenFor(f)
    BY <2>1, <2>3 DEF DeliveredInv, OpenFor
  <2>6. \A f \in Fingerprints : audit.drift[f] # {} =>
            /\ findingIds[f] \in DOMAIN index
            /\ tracked[index[findingIds[f]]].body.fingerprint = f
    BY <2>1, <2>3 DEF DeliveredInv
  <2> QED BY <2>5, <2>6 DEF HealthyAuditReconciles, OpenFor
<1> QED BY <1>1, AuditInvariant, PTL

(* An issue is closed by CloseFinding alone, and only when no SDK deviated *)
(* in the snapshots of the audit that closes it.                           *)
THEOREM ClosingMeansRepaired == AuditSpec => ClosedMeansRepaired
<1> DEFINE Step == \A n \in DOMAIN tracked :
                    tracked[n].open /\ ~tracked'[n].open
                        => audit.drift[tracked[n].body.fingerprint] = {}
<1>1. IInv /\ [AuditNext]_auditVars => [Step]_auditVars
  <2> SUFFICES ASSUME IInv, AuditNext, NEW n \in DOMAIN tracked,
                      tracked[n].open, ~tracked'[n].open
               PROVE  audit.drift[tracked[n].body.fingerprint] = {}
    OBVIOUS
  <2>1. CloseFinding
    <3>1. \/ AuditStep
          \/ Drift \/ NewYear \/ \E k \in DOMAIN FixComments : CommentStep(k)
      BY DEF AuditNext
    <3>2. ~(Drift \/ NewYear \/ \E k \in DOMAIN FixComments : CommentStep(k))
      BY OtherStepsKeep DEF KeepsOpen
    <3>3. ~DeliverFinding
      BY DeliverFindingTracks
    <3>4. tracked' # tracked
      OBVIOUS
    <3> QED BY <3>1, <3>2, <3>3, <3>4 DEF AuditStep, TakeSnapshots, BuildReport, FindIssues,
            FindingsDelivered, DeliverIndex, AuditDies, RerunReport
  <2>2. tracked[n].body.fingerprint \notin Drafts /\ Healthy
    BY <2>1, CloseFindingEffect
  <2>3. audit.drift \in Drifts
    BY <2>1 DEF IInv, TypeOK, CloseFinding
  <2>4. tracked[n].body.fingerprint \in Fingerprints
    <3>1. RegistryInv /\ DOMAIN findingIds \in SUBSET Fingerprints
      BY DraftsAreFinite DEF IInv
    <3> QED BY <3>1 DEF RegistryInv, Named
  <2> QED BY <2>2, <2>3, <2>4, HealthyAuditSeesAll
<1> QED BY <1>1, AuditInvariant, PTL DEF AuditSpec, ClosedMeansRepaired
=============================================================================
