--------------------------- MODULE DecisionLedger ---------------------------
(***************************************************************************)
(* agricola/ledger.py: the entry of one canonical change, and the          *)
(* operations that extend it.  An entry has the label snapshot and, for    *)
(* each target, the decisions in the order in which they were appended;    *)
(* the order of decisions of different targets is never read.  An          *)
(* operation that raises LedgerError is a predicate (EnsureConflict,       *)
(* KeyReused) its caller tests; otherwise it is the new entry.             *)
(***************************************************************************)
EXTENDS Sequences, Naturals

CONSTANT Targets    \* the PR-enabled SDKs of the manifest

(* A change the ledger has no file for.                                    *)
NoEntry == [known |-> FALSE, labels |-> {}, decisions |-> [t \in Targets |-> <<>>]]

DecisionsFor(e, t) == {e.decisions[t][i] : i \in DOMAIN e.decisions[t]}
AllDecisions(e) == UNION {DecisionsFor(e, t) : t \in Targets}

Decided(e, t) == e.decisions[t] # <<>>
Propagated(e, t) == \E d \in DecisionsFor(e, t) : d.kind = "propagate"
Skipped(e, t) == \E d \in DecisionsFor(e, t) : d.kind = "skip"
UsedKeys(e) == {d.key : d \in AllDecisions(e)}

(* ensure(change, labels=...): a snapshot is written once; one that was    *)
(* empty and undecided is repaired; any other change of labels is refused. *)
EnsureConflict(e, labels) ==
    /\ e.known
    /\ e.labels # labels
    /\ ~(e.labels = {} /\ AllDecisions(e) = {})

Ensure(e, labels) == [e EXCEPT !.known = TRUE, !.labels = labels]

(* ensure(change) without labels: an existing entry is left alone, a new   *)
(* one takes the labels the pull request has now.                          *)
EnsureKnown(e, rawLabels) ==
    IF e.known THEN e ELSE Ensure(e, rawLabels)

(* _append: the same decision again changes nothing; another decision      *)
(* under the same key is refused.                                          *)
KeyReused(e, d) ==
    \E x \in AllDecisions(e) : x.key = d.key /\ x # d

AppendDecision(e, d) ==
    IF d \in AllDecisions(e) THEN e
    ELSE [e EXCEPT !.decisions[d.target] = Append(@, d)]

(* planner.py _propagation_table: a row of the tracking issue shows the    *)
(* last decision on its target; without one, whether it was selected.      *)
Row(e, t, selected) ==
    IF Decided(e, t)
    THEN IF e.decisions[t][Len(e.decisions[t])].kind = "propagate"
         THEN "Recorded" ELSE "Skipped"
    ELSE IF t \in selected THEN "Queued" ELSE "Awaiting"

TableOf(e, selected) == [t \in Targets |-> Row(e, t, selected)]
=============================================================================
