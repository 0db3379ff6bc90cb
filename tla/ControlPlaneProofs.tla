------------------------- MODULE ControlPlaneProofs -------------------------
(***************************************************************************)
(* Theorems about ControlPlane, for any targets, changes, comments, labels *)
(* and bounds.  The invariant has three parts: Types; what the entry of a  *)
(* change says of the keys of its decisions (EntryOK), which every         *)
(* operation on the ledger keeps while the entry only grows; and what the  *)
(* queued requests and the undelivered tables of the runs rely on (RunOK). *)
(***************************************************************************)
EXTENDS ControlPlane, TLAPS

Keys ==
    {DefaultKey(c, t) : c \in Changes, t \in Targets}
    \cup {FixKey(k, c, t) : k \in Comments, c \in Changes, t \in Targets}
    \cup {<<"revise", c, t, k>> : k \in Comments, c \in Changes, t \in Targets}
    \cup {<<"comment", k>> : k \in Comments}

Decision == [target : Targets, kind : {"propagate", "skip"}, key : Keys, by : Runs]
Snapshots == {{}} \cup {Raw[c] : c \in Changes} \cup {Resolution[c].labels : c \in Changes}
Entry == [known : BOOLEAN, labels : Snapshots, decisions : [Targets -> Seq(Decision)]]

Table == [Targets -> Statuses]
Asked == [change : Changes, target : Targets, key : Keys, revision : BOOLEAN]
Outcomes == {"open", "patch", "failed", "verified", "propagate", "skip"}
Stages == {"idle", "deliver", "generate", "verify", "publish", "record", "update",
           "lost", "incomplete", "ended"}
Run == [stage : Stages, requests : SUBSET Asked, plan : [Changes -> Table],
        outcome : UNION {[qs -> Outcomes] : qs \in SUBSET Asked}]

Types ==
    /\ merged \in 0..N /\ cursor \in 0..N /\ faults \in Nat
    /\ ledger \in [Changes -> Entry]
    /\ issue \in [Changes -> [count : Nat, table : Table]]
    /\ run \in [Runs -> Run]
    /\ \A r \in Runs : run[r].outcome \in [run[r].requests -> Outcomes]

-----------------------------------------------------------------------------
(* Entries.                                                                *)

(* e2 is e with decisions appended, and with other labels only if e had    *)
(* neither labels nor decisions.                                           *)
Grows(e, e2) ==
    /\ e.known => e2.known
    /\ e.known /\ e2.labels # e.labels => e.labels = {} /\ AllDecisions(e) = {}
    /\ \A t \in Targets :
        \A i \in DOMAIN e.decisions[t] :
           /\ i \in DOMAIN e2.decisions[t]
           /\ e2.decisions[t][i] = e.decisions[t][i]

(* The keys under which a request for target t of change c is recorded.    *)
RequestKey(c, t, key) ==
    key = DefaultKey(c, t) \/ \E k \in Overriders(c, t) : key = FixKey(k, c, t)

SkippedByRun(e, c, t) ==
    \E d \in DecisionsFor(e, t) : d.key = DefaultKey(c, t) /\ d.kind = "skip"

(* The decisions of a target have keys of that target, no key is used      *)
(* twice, and a key of a comment that propagates follows a recorded skip   *)
(* under the default key.                                                  *)
GoodDecision(c, t, e, d) ==
    /\ d.target = t
    /\ \/ RequestKey(c, t, d.key)
       \/ d.kind = "skip" /\ \E k \in Comments : d.key = <<"comment", k>>
    /\ RequestKey(c, t, d.key) /\ d.key # DefaultKey(c, t) => SkippedByRun(e, c, t)

UniqueKeys(e) ==
    \A t, u \in Targets : \A i \in DOMAIN e.decisions[t], j \in DOMAIN e.decisions[u] :
        e.decisions[t][i].key = e.decisions[u][j].key => t = u /\ i = j

EntryOK(c, e) ==
    /\ UniqueKeys(e)
    /\ \A t \in Targets : \A d \in DecisionsFor(e, t) : GoodDecision(c, t, e, d)

LEMMA KeysDiffer ==
  /\ \A c, d, t, u : DefaultKey(c, t) = DefaultKey(d, u) => c = d /\ t = u
  /\ \A j, k, c, d, t, u : FixKey(j, c, t) = FixKey(k, d, u) => c = d /\ t = u /\ j = k
  /\ \A k, c, d, t, u : DefaultKey(c, t) # FixKey(k, d, u)
  /\ \A k, c, t : <<"comment", k>> # DefaultKey(c, t)
  /\ \A j, k, c, t : <<"comment", k>> # FixKey(j, c, t)
  BY DEF DefaultKey, FixKey

LEMMA KeyTypes ==
  ASSUME NEW c \in Changes, NEW t \in Targets, NEW k \in Comments
  PROVE  /\ DefaultKey(c, t) \in Keys /\ FixKey(k, c, t) \in Keys
         /\ <<"revise", c, t, k>> \in Keys /\ <<"comment", k>> \in Keys
<1>1. DefaultKey(c, t) \in Keys
  BY DEF Keys
<1>2. FixKey(k, c, t) \in Keys
  BY DEF Keys
<1>3. <<"revise", c, t, k>> \in Keys
  BY DEF Keys
<1>4. <<"comment", k>> \in Keys
  BY DEF Keys
<1> QED BY <1>1, <1>2, <1>3, <1>4

LEMMA MemberOf ==
  ASSUME NEW e \in Entry
  PROVE  /\ \A t \in Targets : \A d : d \in DecisionsFor(e, t) <=>
                 \E i \in DOMAIN e.decisions[t] : d = e.decisions[t][i]
         /\ \A d : d \in AllDecisions(e) <=>
                 \E t \in Targets : \E i \in DOMAIN e.decisions[t] : d = e.decisions[t][i]
  BY DEF DecisionsFor, AllDecisions

LEMMA GrowsKeeps ==
  ASSUME NEW e \in Entry, NEW e2 \in Entry, Grows(e, e2), NEW t \in Targets
  PROVE  /\ DecisionsFor(e, t) \subseteq DecisionsFor(e2, t)
         /\ Propagated(e, t) => Propagated(e2, t)
         /\ Skipped(e, t) => Skipped(e2, t)
         /\ \A c : SkippedByRun(e, c, t) => SkippedByRun(e2, c, t)
<1>1. DecisionsFor(e, t) \subseteq DecisionsFor(e2, t)
  BY DEF DecisionsFor, Grows
<1> QED BY <1>1 DEF Propagated, Skipped, SkippedByRun

LEMMA SameDecisions ==
  ASSUME NEW c, NEW e, NEW e2, EntryOK(c, e), e2.decisions = e.decisions
  PROVE  EntryOK(c, e2)
  BY DEF EntryOK, UniqueKeys, GoodDecision, SkippedByRun, DecisionsFor

LEMMA AppendAt ==
  ASSUME NEW S, NEW s \in Seq(S), NEW x \in S
  PROVE  /\ \A i \in DOMAIN s : i \in DOMAIN Append(s, x) /\ Append(s, x)[i] = s[i]
         /\ \A i \in DOMAIN Append(s, x) : i \notin DOMAIN s => i = Len(s) + 1
         /\ Len(s) + 1 \in DOMAIN Append(s, x) /\ Append(s, x)[Len(s) + 1] = x
  OBVIOUS

LEMMA Appends ==
  ASSUME NEW c \in Changes, NEW e \in Entry, NEW e2 \in Entry, EntryOK(c, e),
         NEW S \in SUBSET Targets, NEW new \in [S -> Decision],
         e2.known = e.known, e2.labels = e.labels,
         \A t \in Targets : e2.decisions[t] = IF t \in S THEN Append(e.decisions[t], new[t])
                                              ELSE e.decisions[t],
         \A t \in S : GoodDecision(c, t, e, new[t]),
         \A t \in S : \A u \in Targets : \A i \in DOMAIN e.decisions[u] :
            e.decisions[u][i].key # new[t].key,
         \A t, u \in S : new[t].key = new[u].key => t = u
  PROVE  EntryOK(c, e2) /\ Grows(e, e2) /\ \A t \in S : new[t] \in DecisionsFor(e2, t)
<1>1. \A t \in Targets : e.decisions[t] \in Seq(Decision)
  BY DEF Entry
<1>2. \A t \in Targets : \A i \in DOMAIN e.decisions[t] :
        i \in DOMAIN e2.decisions[t] /\ e2.decisions[t][i] = e.decisions[t][i]
  <2> SUFFICES ASSUME NEW t \in Targets
               PROVE  \A i \in DOMAIN e.decisions[t] :
                        i \in DOMAIN e2.decisions[t] /\ e2.decisions[t][i] = e.decisions[t][i]
    OBVIOUS
  <2>1. CASE t \in S
    <3>1. new[t] \in Decision /\ e2.decisions[t] = Append(e.decisions[t], new[t])
      BY <2>1
    <3>2. e.decisions[t] \in Seq(Decision)
      BY <1>1
    <3>3. \A i \in DOMAIN e.decisions[t] :
            /\ i \in DOMAIN Append(e.decisions[t], new[t])
            /\ Append(e.decisions[t], new[t])[i] = e.decisions[t][i]
      BY <3>1, <3>2, AppendAt
    <3> QED BY <3>1, <3>3, Zenon
  <2>2. CASE t \notin S
    BY <2>2
  <2> QED BY <2>1, <2>2
<1>3. Grows(e, e2)
  BY <1>2 DEF Grows
<1>4. ASSUME NEW t \in Targets, NEW i \in DOMAIN e2.decisions[t]
      PROVE  \/ i \in DOMAIN e.decisions[t]
             \/ /\ t \in S /\ i = Len(e.decisions[t]) + 1
                /\ e2.decisions[t][i] = new[t]
  <2>1. CASE t \in S
    <3>1. new[t] \in Decision /\ e2.decisions[t] = Append(e.decisions[t], new[t])
      BY <2>1
    <3>2. e.decisions[t] \in Seq(Decision)
      BY <1>1
    <3>3. /\ \A j \in DOMAIN Append(e.decisions[t], new[t]) :
                j \notin DOMAIN e.decisions[t] => j = Len(e.decisions[t]) + 1
          /\ Append(e.decisions[t], new[t])[Len(e.decisions[t]) + 1] = new[t]
      BY <3>1, <3>2, AppendAt
    <3> QED BY <1>4, <2>1, <3>1, <3>3, Zenon
  <2>2. CASE t \notin S
    BY <1>4, <2>2
  <2> QED BY <2>1, <2>2
<1>5. UniqueKeys(e2)
  <2> SUFFICES ASSUME NEW t \in Targets, NEW u \in Targets,
                      NEW i \in DOMAIN e2.decisions[t], NEW j \in DOMAIN e2.decisions[u],
                      e2.decisions[t][i].key = e2.decisions[u][j].key
               PROVE  t = u /\ i = j
    BY DEF UniqueKeys
  <2>1. CASE i \in DOMAIN e.decisions[t] /\ j \in DOMAIN e.decisions[u]
    BY <1>2, <2>1 DEF EntryOK, UniqueKeys
  <2>2. CASE i \in DOMAIN e.decisions[t] /\ j \notin DOMAIN e.decisions[u]
    BY <1>2, <1>4, <2>2
  <2>3. CASE i \notin DOMAIN e.decisions[t] /\ j \in DOMAIN e.decisions[u]
    BY <1>2, <1>4, <2>3
  <2>4. CASE i \notin DOMAIN e.decisions[t] /\ j \notin DOMAIN e.decisions[u]
    BY <1>4, <2>4
  <2> QED BY <2>1, <2>2, <2>3, <2>4
<1>6. ASSUME NEW t \in Targets, NEW d \in DecisionsFor(e2, t)
      PROVE  GoodDecision(c, t, e2, d)
  <2>1. GoodDecision(c, t, e, d)
    <3>1. PICK i \in DOMAIN e2.decisions[t] : d = e2.decisions[t][i]
      BY <1>6 DEF DecisionsFor
    <3>2. CASE i \in DOMAIN e.decisions[t]
      BY <1>2, <3>1, <3>2 DEF EntryOK, DecisionsFor
    <3> QED BY <1>4, <3>1, <3>2
  <2>2. SkippedByRun(e, c, t) => SkippedByRun(e2, c, t)
    BY <1>3, GrowsKeeps
  <2> QED BY <2>1, <2>2 DEF GoodDecision
<1>7. \A t \in S : new[t] \in DecisionsFor(e2, t)
  <2> TAKE t \in S
  <2>1. e2.decisions[t] = Append(e.decisions[t], new[t])
    OBVIOUS
  <2>2. /\ Len(e.decisions[t]) + 1 \in DOMAIN e2.decisions[t]
        /\ e2.decisions[t][Len(e.decisions[t]) + 1] = new[t]
    BY <1>1, <2>1
  <2> QED BY <2>2 DEF DecisionsFor
<1> QED BY <1>3, <1>5, <1>6, <1>7 DEF EntryOK

LEMMA Ensures ==
  ASSUME NEW c \in Changes, NEW e \in Entry, EntryOK(c, e),
         NEW labels \in Snapshots
  PROVE  /\ Ensure(e, labels) \in Entry /\ EntryOK(c, Ensure(e, labels))
         /\ Ensure(e, labels).known /\ Ensure(e, labels).labels = labels
         /\ Ensure(e, labels).decisions = e.decisions
         /\ ~EnsureConflict(e, labels) => Grows(e, Ensure(e, labels))
         /\ EnsureKnown(e, labels) \in Entry /\ EntryOK(c, EnsureKnown(e, labels))
         /\ Grows(e, EnsureKnown(e, labels)) /\ EnsureKnown(e, labels).known
         /\ e.known => EnsureKnown(e, labels) = e
<1>1. /\ Ensure(e, labels) \in Entry
      /\ Ensure(e, labels).known /\ Ensure(e, labels).labels = labels
      /\ Ensure(e, labels).decisions = e.decisions
  BY DEF Ensure, Entry
<1>2. EntryOK(c, Ensure(e, labels))
  BY <1>1, SameDecisions
<1>3. ~EnsureConflict(e, labels) => Grows(e, Ensure(e, labels))
  BY <1>1 DEF EnsureConflict, Grows
<1>4. CASE e.known
  BY <1>1, <1>2, <1>3, <1>4 DEF EnsureKnown, Grows
<1>5. CASE ~e.known
  BY <1>1, <1>2, <1>3, <1>5 DEF EnsureKnown, EnsureConflict
<1> QED BY <1>1, <1>2, <1>3, <1>4, <1>5 DEF Entry

LEMMA AppendGrows ==
  ASSUME NEW c \in Changes, NEW e \in Entry, EntryOK(c, e), NEW d \in Decision,
         GoodDecision(c, d.target, e, d), ~KeyReused(e, d)
  PROVE  /\ AppendDecision(e, d) \in Entry /\ EntryOK(c, AppendDecision(e, d))
         /\ Grows(e, AppendDecision(e, d))
         /\ AppendDecision(e, d).known = e.known
<1>1. CASE d \in AllDecisions(e)
  BY <1>1 DEF AppendDecision, Grows
<1>2. CASE d \notin AllDecisions(e)
  <2> DEFINE t == d.target
             S == {t}
             new == [u \in S |-> d]
             ds == [e.decisions EXCEPT ![t] = Append(e.decisions[t], d)]
             e2 == [e EXCEPT !.decisions = ds]
  <2>1. AppendDecision(e, d) = e2
    BY <1>2, Zenon DEF AppendDecision
  <2>2. t \in Targets /\ e.decisions \in [Targets -> Seq(Decision)]
    BY DEF Decision, Entry
  <2>3. ds \in [Targets -> Seq(Decision)]
    BY <2>2
  <2>4. /\ e2 \in Entry /\ e2.known = e.known /\ e2.labels = e.labels
        /\ e2.decisions = ds
    <3> HIDE DEF ds
    <3> QED BY <2>3 DEF Entry
  <2>5. \A u \in Targets : \A i \in DOMAIN e.decisions[u] : e.decisions[u][i].key # d.key
    BY <1>2, MemberOf DEF KeyReused
  <2>6. S \in SUBSET Targets /\ new \in [S -> Decision]
    BY <2>2
  <2>7. \A u \in Targets : ds[u] = IF u \in S THEN Append(e.decisions[u], new[u])
                                   ELSE e.decisions[u]
    BY <2>2
  <2>8. \A u \in S : new[u] = d /\ u = t
    OBVIOUS
  <2> HIDE DEF ds, e2, new, S
  <2>9. EntryOK(c, e2) /\ Grows(e, e2)
    <3>1. \A u \in S : GoodDecision(c, u, e, new[u])
      BY <2>8
    <3>2. \A u \in S : \A v \in Targets : \A i \in DOMAIN e.decisions[v] :
            e.decisions[v][i].key # new[u].key
      BY <2>5, <2>8
    <3>3. \A u, v \in S : new[u].key = new[v].key => u = v
      BY <2>8
    <3> QED BY <2>4, <2>6, <2>7, <3>1, <3>2, <3>3, Appends
  <2> QED BY <2>1, <2>4, <2>9
<1> QED BY <1>1, <1>2

-----------------------------------------------------------------------------
(* Runs.                                                                   *)

Backed(e, t, status) ==
    /\ status = "Recorded" => Propagated(e, t)
    /\ status = "Skipped" => Skipped(e, t)

TableBacked(e, table) == \A t \in Targets : Backed(e, t, table[t])

(* A revision is of a target that has a pull request.  The key of a        *)
(* comment is used where the default key stands for a skip.                *)
RequestOK(e, q) ==
    IF q.revision THEN Propagated(e, q.target)
    ELSE /\ RequestKey(q.change, q.target, q.key)
         /\ q.key # DefaultKey(q.change, q.target) => SkippedByRun(e, q.change, q.target)

(* The outcome of q is in the ledger.                                      *)
Recorded(e, q, outcome) ==
    /\ outcome = "propagate" => Propagated(e, q.target)
    /\ outcome = "skip" => Skipped(e, q.target)

(* A run has one request per target, and before it delivers its outcomes   *)
(* they are recorded.                                                      *)
RunOK(r) ==
    /\ \A q \in run[r].requests : RequestOK(ledger[q.change], q)
    /\ \A p, q \in run[r].requests : p.change = q.change /\ p.target = q.target => p = q
    /\ \A q \in run[r].requests : q.revision => run[r].outcome[q] # "skip"
    /\ run[r].stage = "update" =>
          \A q \in run[r].requests : Recorded(ledger[q.change], q, run[r].outcome[q])
    /\ \A c \in Changes : TableBacked(ledger[c], run[r].plan[c])

LEMMA RecordedGrows ==
  ASSUME Types, NEW r \in Runs, RunOK(r), ~RecordConflict(r),
         NEW c \in Changes, EntryOK(c, ledger[c])
  PROVE  /\ RecordedEntry(r, c) \in Entry /\ EntryOK(c, RecordedEntry(r, c))
         /\ Grows(ledger[c], RecordedEntry(r, c))
         /\ RecordedEntry(r, c).known = ledger[c].known
         /\ \A q \in Recordable(r) : q.change = c =>
                DecisionOf(r, q) \in DecisionsFor(RecordedEntry(r, c), q.target)
<1> DEFINE e == ledger[c]
           S == {t \in Targets : NewDecisions(r, c, t) # {}}
           new == [t \in S |-> CHOOSE d \in NewDecisions(r, c, t) : TRUE]
           ds == [t \in Targets |-> IF NewDecisions(r, c, t) = {} THEN e.decisions[t]
                      ELSE Append(e.decisions[t], CHOOSE d \in NewDecisions(r, c, t) : TRUE)]
           e2 == [e EXCEPT !.decisions = ds]
<1>0. e \in Entry /\ EntryOK(c, e)
  BY DEF Types
<1>1. ASSUME NEW q \in Recordable(r), q.change = c
      PROVE  /\ q \in run[r].requests /\ q.target \in Targets
             /\ DecisionOf(r, q) \in Decision
             /\ DecisionOf(r, q).target = q.target /\ DecisionOf(r, q).key = q.key
             /\ RequestKey(c, q.target, q.key)
             /\ GoodDecision(c, q.target, e, DecisionOf(r, q))
             /\ ~KeyReused(e, DecisionOf(r, q))
  <2>1. /\ q \in run[r].requests /\ ~q.revision
        /\ run[r].outcome[q] \in {"propagate", "skip"}
    BY <1>1 DEF Recordable, Results, With
  <2>2. q \in Asked
    BY <2>1 DEF Types, Run
  <2>3. /\ DecisionOf(r, q) \in Decision
        /\ DecisionOf(r, q).target = q.target /\ DecisionOf(r, q).key = q.key
    BY <2>1, <2>2 DEF DecisionOf, Decision, Asked
  <2>4. RequestOK(e, q)
    BY <1>1, <2>1 DEF RunOK
  <2>5. GoodDecision(c, q.target, e, DecisionOf(r, q)) /\ RequestKey(c, q.target, q.key)
    BY <1>1, <2>1, <2>3, <2>4 DEF RequestOK, GoodDecision
  <2>6. ~KeyReused(e, DecisionOf(r, q))
    BY <1>1 DEF RecordConflict
  <2> QED BY <2>1, <2>2, <2>3, <2>5, <2>6 DEF Asked
<1>2. ASSUME NEW t \in Targets, NEW d \in NewDecisions(r, c, t)
      PROVE  /\ d \notin AllDecisions(e)
             /\ \E q \in Recordable(r) : q.change = c /\ q.target = t /\ d = DecisionOf(r, q)
  BY <1>2 DEF NewDecisions
<1>3. ASSUME NEW t \in S
      PROVE  /\ t \in Targets /\ new[t] \in NewDecisions(r, c, t)
             /\ new[t] \in Decision /\ GoodDecision(c, t, e, new[t])
             /\ RequestKey(c, t, new[t].key)
             /\ \A u \in Targets : \A i \in DOMAIN e.decisions[u] :
                    e.decisions[u][i].key # new[t].key
  <2>1. new[t] \in NewDecisions(r, c, t)
    OBVIOUS
  <2> HIDE DEF new
  <2>2. PICK q \in Recordable(r) : q.change = c /\ q.target = t /\ new[t] = DecisionOf(r, q)
    BY <1>2, <2>1
  <2>3. new[t] \notin AllDecisions(e) /\ ~KeyReused(e, new[t])
    BY <1>1, <1>2, <2>1, <2>2
  <2>4. \A u \in Targets : \A i \in DOMAIN e.decisions[u] : e.decisions[u][i].key # new[t].key
    BY <1>0, <2>3, MemberOf DEF KeyReused
  <2> QED BY <1>1, <2>1, <2>2, <2>4
<1>4. RecordedEntry(r, c) = e2
  BY DEF RecordedEntry
<1>5. \A t \in Targets : ds[t] = IF t \in S THEN Append(e.decisions[t], new[t])
                                 ELSE e.decisions[t]
  OBVIOUS
<1>6. S \in SUBSET Targets /\ new \in [S -> Decision]
  <2>1. \A t \in S : new[t] \in Decision
    BY <1>3
  <2> QED BY <2>1
<1>7. ds \in [Targets -> Seq(Decision)]
  <2>1. \A t \in Targets : e.decisions[t] \in Seq(Decision)
    BY <1>0 DEF Entry
  <2>2. \A t \in S : new[t] \in Decision
    BY <1>6
  <2>3. DOMAIN ds = Targets /\ ds = [t \in Targets |-> ds[t]]
    OBVIOUS
  <2> HIDE DEF ds, new, S
  <2>4. ASSUME NEW t \in Targets PROVE ds[t] \in Seq(Decision)
    <3>1. CASE t \in S
      <4>1. ds[t] = Append(e.decisions[t], new[t]) /\ new[t] \in Decision
        BY <1>5, <2>2, <3>1
      <4>2. e.decisions[t] \in Seq(Decision)
        BY <2>1
      <4> QED BY <4>1, <4>2
    <3>2. CASE t \notin S
      BY <1>5, <2>1, <3>2
    <3> QED BY <3>1, <3>2
  <2> QED BY <2>3, <2>4
<1>8. /\ e2 \in Entry /\ e2.known = e.known /\ e2.labels = e.labels /\ e2.decisions = ds
  <2> HIDE DEF ds
  <2> QED BY <1>0, <1>7 DEF Entry
<1> HIDE DEF ds, e2, new
<1>9. /\ EntryOK(c, e2) /\ Grows(e, e2) /\ \A t \in S : new[t] \in DecisionsFor(e2, t)
  <2>1. \A t, u \in S : new[t].key = new[u].key => t = u
    BY <1>3, KeysDiffer DEF RequestKey
  <2> HIDE DEF S
  <2> QED BY <1>0, <1>3, <1>5, <1>6, <1>8, <2>1, Appends
<1>10. ASSUME NEW q \in Recordable(r), q.change = c
       PROVE  DecisionOf(r, q) \in DecisionsFor(e2, q.target)
  <2>1. CASE DecisionOf(r, q) \in AllDecisions(e)
    <3>1. PICK u \in Targets : DecisionOf(r, q) \in DecisionsFor(e, u)
      BY <2>1 DEF AllDecisions
    <3>2. u = q.target
      BY <1>0, <1>1, <1>10, <3>1 DEF EntryOK, GoodDecision
    <3> QED BY <1>0, <1>8, <1>9, <3>1, <3>2, GrowsKeeps
  <2>2. CASE DecisionOf(r, q) \notin AllDecisions(e)
    <3>1. DecisionOf(r, q) \in NewDecisions(r, c, q.target) /\ q.target \in S
      BY <1>1, <1>10, <2>2 DEF NewDecisions
    <3>2. PICK p \in Recordable(r) : /\ p.change = c /\ p.target = q.target
                                     /\ new[q.target] = DecisionOf(r, p)
      BY <1>2, <1>3, <3>1
    <3>3. p = q
      BY <1>1, <1>10, <3>2 DEF RunOK
    <3> QED BY <1>9, <3>1, <3>2, <3>3
  <2> QED BY <2>1, <2>2
<1> QED BY <1>4, <1>8, <1>9, <1>10

-----------------------------------------------------------------------------
(* The invariant, and what a step that leaves a run alone does to it.      *)

IssueOK(c) == issue[c].count <= 1 /\ TableBacked(ledger[c], issue[c].table)

Inv ==
    /\ Types
    /\ \A c \in Changes : EntryOK(c, ledger[c])
    /\ \A c \in Changes : IssueOK(c)
    /\ \A c \in Changes : c <= cursor => ledger[c].known
    /\ \A r \in Runs : RunOK(r)

LedgerGrows == \A c \in Changes : Grows(ledger[c], ledger'[c])

LEMMA BackedGrows ==
  ASSUME NEW e \in Entry, NEW e2 \in Entry, Grows(e, e2), NEW table, TableBacked(e, table)
  PROVE  TableBacked(e2, table)
  BY GrowsKeeps DEF TableBacked, Backed

LEMMA RequestGrows ==
  ASSUME NEW e \in Entry, NEW e2 \in Entry, Grows(e, e2), NEW q \in Asked
  PROVE  /\ RequestOK(e, q) => RequestOK(e2, q)
         /\ \A o : Recorded(e, q, o) => Recorded(e2, q, o)
  BY GrowsKeeps DEF RequestOK, Recorded, Asked

LEMMA RunKept ==
  ASSUME Inv, Types', LedgerGrows, NEW r \in Runs, run'[r] = run[r]
  PROVE  RunOK(r)'
<1>1. RunOK(r)
  BY DEF Inv
<1>2. \A c \in Changes : ledger[c] \in Entry /\ ledger'[c] \in Entry /\ Grows(ledger[c], ledger'[c])
  BY DEF Inv, Types, LedgerGrows
<1>3. \A q \in run[r].requests : q \in Asked /\ q.change \in Changes
  BY DEF Inv, Types, Run, Asked
<1>4. \A q \in run[r].requests : RequestOK(ledger'[q.change], q)
  BY <1>1, <1>2, <1>3, RequestGrows DEF RunOK
<1>5. run[r].stage = "update" =>
        \A q \in run[r].requests : Recorded(ledger'[q.change], q, run[r].outcome[q])
  BY <1>1, <1>2, <1>3, RequestGrows DEF RunOK
<1>6. \A c \in Changes : TableBacked(ledger'[c], run[r].plan[c])
  BY <1>1, <1>2, BackedGrows DEF RunOK
<1> QED BY <1>1, <1>4, <1>5, <1>6 DEF RunOK

LEMMA IssueKept ==
  ASSUME Inv, Types', LedgerGrows, NEW c \in Changes, issue'[c] = issue[c]
  PROVE  IssueOK(c)'
<1>1. ledger[c] \in Entry /\ ledger'[c] \in Entry /\ Grows(ledger[c], ledger'[c]) /\ IssueOK(c)
  BY DEF Inv, Types, LedgerGrows
<1> QED BY <1>1, BackedGrows DEF IssueOK

LEMMA SameEntries ==
  ASSUME Inv, UNCHANGED ledger
  PROVE  LedgerGrows /\ \A c \in Changes : EntryOK(c, ledger[c])'
  BY DEF Inv, LedgerGrows, Grows

LEMMA BlankBacked ==
  /\ BlankTable \in Table
  /\ \A e : TableBacked(e, BlankTable)
  BY DEF BlankTable, Table, Statuses, TableBacked, Backed

LEMMA IdleType ==
  /\ IdleRun \in Run /\ IdleRun.requests = {} /\ IdleRun.stage = "idle"
  /\ IdleRun.outcome \in [{} -> Outcomes]
  /\ \A c \in Changes : IdleRun.plan[c] = BlankTable
  /\ IdleRun.plan \in [Changes -> Table]
<1> DEFINE o == [q \in {} |-> "open"]
<1>1. o \in [{} -> Outcomes]
  OBVIOUS
<1>2. o \in UNION {[qs -> Outcomes] : qs \in SUBSET Asked}
  BY <1>1
<1> HIDE DEF o
<1> QED BY <1>1, <1>2, BlankBacked DEF IdleRun, Run, Stages

\* A run in stage s with the requests, outcomes and tables of p.
LEMMA StageSet ==
  ASSUME NEW p \in Run, NEW s \in Stages
  PROVE  /\ [p EXCEPT !.stage = s] \in Run
         /\ [p EXCEPT !.stage = s].stage = s
         /\ [p EXCEPT !.stage = s].requests = p.requests
         /\ [p EXCEPT !.stage = s].outcome = p.outcome
         /\ [p EXCEPT !.stage = s].plan = p.plan
  BY DEF Run

\* A run without requests and with blank tables.
Blank(p) ==
    /\ p \in Run /\ p.requests = {} /\ p.outcome \in [{} -> Outcomes]
    /\ \A c \in Changes : p.plan[c] = BlankTable

LEMMA BlankRuns ==
  /\ Blank(IdleRun)
  /\ \A s \in Stages : Blank([IdleRun EXCEPT !.stage = s])
  /\ \A r : Blank(Over(r))
<1>1. Blank(IdleRun)
  BY IdleType DEF Blank
<1>2. \A s \in Stages : Blank([IdleRun EXCEPT !.stage = s])
  <2> TAKE s \in Stages
  <2>1. IdleRun \in Run
    BY IdleType
  <2> QED BY <2>1, StageSet, IdleType DEF Blank
<1>3. \A r : Blank(Over(r))
  BY <1>1, <1>2, Zenon DEF Over, Stages
<1> QED BY <1>1, <1>2, <1>3

LEMMA BlankRunOK ==
  ASSUME NEW r, Blank(run'[r])
  PROVE  RunOK(r)'
  BY BlankBacked DEF Blank, RunOK

\* A step that changes no more than run r.
LEMMA OneRun ==
  ASSUME Inv, NEW r \in Runs, NEW p \in Run, run' = [run EXCEPT ![r] = p],
         p.outcome \in [p.requests -> Outcomes], faults' \in Nat,
         UNCHANGED <<merged, cursor, ledger, issue>>, Types' => RunOK(r)'
  PROVE  Inv' /\ LedgerGrows
<1>1. \A j \in Runs : run'[j] = IF j = r THEN p ELSE run[j]
  BY DEF Inv, Types
<1>2. Types'
  BY <1>1 DEF Inv, Types
<1>3. LedgerGrows /\ \A c \in Changes : EntryOK(c, ledger[c])'
  BY SameEntries
<1>4. \A j \in Runs : RunOK(j)'
  BY <1>1, <1>2, <1>3, RunKept
<1>5. \A c \in Changes : IssueOK(c)'
  BY <1>2, <1>3, IssueKept
<1> QED BY <1>2, <1>3, <1>4, <1>5 DEF Inv

-----------------------------------------------------------------------------
(* The steps that leave the ledger and the issues alone.                   *)

LEMMA UnchangedStep ==
  ASSUME Inv, UNCHANGED <<cursor, ledger, issue, run, faults>>, merged' \in 0..N
  PROVE  Inv' /\ LedgerGrows
<1>1. Types'
  BY DEF Inv, Types
<1>2. LedgerGrows /\ \A c \in Changes : EntryOK(c, ledger[c])'
  BY SameEntries
<1>3. \A c \in Changes : IssueOK(c)'
  BY <1>1, <1>2, IssueKept
<1>4. \A r \in Runs : RunOK(r)'
  BY <1>1, <1>2, RunKept
<1> QED BY <1>1, <1>2, <1>3, <1>4 DEF Inv

LEMMA MergeStep ==
  ASSUME Inv, MergeChange
  PROVE  Inv' /\ LedgerGrows
<1>1. merged' \in 0..N
  BY ControlPlaneAssumption DEF MergeChange, Inv, Types
<1>2. UNCHANGED <<cursor, ledger, issue, run, faults>>
  BY DEF MergeChange
<1> QED BY <1>1, <1>2, UnchangedStep

\* A run that goes back to idle, or ends.
LEMMA BlankStep ==
  ASSUME Inv, NEW r \in Runs, NEW p, Blank(p), run' = [run EXCEPT ![r] = p],
         faults' \in Nat, UNCHANGED <<merged, cursor, ledger, issue>>
  PROVE  Inv' /\ LedgerGrows
<1>1. run'[r] = p /\ p \in Run /\ p.outcome \in [p.requests -> Outcomes]
  BY DEF Inv, Types, Blank
<1>2. RunOK(r)'
  BY <1>1, BlankRunOK
<1> QED BY <1>1, <1>2, OneRun

\* A run that goes to a stage in which it has nothing to deliver.
LEMMA StageStep ==
  ASSUME Inv, NEW r \in Runs, NEW s \in Stages \ {"update"},
         run' = [run EXCEPT ![r] = [run[r] EXCEPT !.stage = s]],
         faults' \in Nat, UNCHANGED <<merged, cursor, ledger, issue>>
  PROVE  Inv' /\ LedgerGrows
<1> DEFINE p == [run[r] EXCEPT !.stage = s]
<1>1. run[r] \in Run /\ run[r].outcome \in [run[r].requests -> Outcomes] /\ RunOK(r)
  BY DEF Inv, Types
<1>2. /\ p \in Run /\ p.stage = s /\ p.requests = run[r].requests
      /\ p.outcome = run[r].outcome /\ p.plan = run[r].plan
  BY <1>1, StageSet
<1> HIDE DEF p
<1>3. run'[r] = p
  BY DEF Inv, Types, p
<1>4. RunOK(r)'
  BY <1>1, <1>2, <1>3 DEF RunOK
<1>5. run' = [run EXCEPT ![r] = p]
  BY DEF p
<1> QED BY <1>1, <1>2, <1>4, <1>5, OneRun

LEMMA FaultTypes ==
  ASSUME Inv
  PROVE  (Fault => faults' \in Nat) /\ (NoFault => faults' \in Nat)
  BY DEF Inv, Types, Fault, NoFault

LEMMA AbandonStep ==
  ASSUME Inv, AbandonPoll
  PROVE  Inv' /\ LedgerGrows
<1>1. Poll \in Runs /\ faults' \in Nat
  BY DEF Runs, AbandonPoll, Inv, Types
<1> QED BY <1>1, BlankRuns, BlankStep DEF AbandonPoll

LEMMA FailsStep ==
  ASSUME Inv, NEW r \in Runs, DeliveryFails(r)
  PROVE  Inv' /\ LedgerGrows
<1>1. faults' \in Nat /\ UNCHANGED <<merged, cursor, ledger, issue>>
  BY FaultTypes DEF DeliveryFails
<1>2. \/ run' = [run EXCEPT ![r] = [IdleRun EXCEPT !.stage = "lost"]]
      \/ run' = [run EXCEPT ![r] = [run[r] EXCEPT !.stage = "incomplete"]]
  BY Zenon DEF DeliveryFails
<1>3. "lost" \in Stages /\ "incomplete" \in Stages \ {"update"}
  BY DEF Stages
<1>4. Blank([IdleRun EXCEPT !.stage = "lost"])
  BY <1>3, BlankRuns
<1> QED BY <1>1, <1>2, <1>3, <1>4, BlankStep, StageStep

\* A run whose requests have other outcomes, and none is delivered yet.
LEMMA OutcomeStep ==
  ASSUME Inv, NEW r \in Runs, NEW s \in Stages \ {"update"},
         NEW o \in [run[r].requests -> Outcomes],
         run' = [run EXCEPT ![r].stage = s, ![r].outcome = o],
         \A q \in run[r].requests : q.revision => o[q] # "skip",
         faults' \in Nat, UNCHANGED <<merged, cursor, ledger, issue>>
  PROVE  Inv' /\ LedgerGrows
<1> DEFINE p == [run[r] EXCEPT !.stage = s, !.outcome = o]
<1>1. run[r] \in Run /\ RunOK(r) /\ run[r].requests \in SUBSET Asked
  BY DEF Inv, Types, Run
<1>2. o \in UNION {[qs -> Outcomes] : qs \in SUBSET Asked}
  BY <1>1
<1>3. /\ p \in Run /\ p.stage = s /\ p.requests = run[r].requests
      /\ p.outcome = o /\ p.plan = run[r].plan
  BY <1>1, <1>2 DEF Run
<1> HIDE DEF p
<1>4. run' = [run EXCEPT ![r] = p] /\ run'[r] = p
  BY DEF Inv, Types, p
<1>5. RunOK(r)'
  BY <1>1, <1>3, <1>4 DEF RunOK
<1> QED BY <1>3, <1>4, <1>5, OneRun

LEMMA MatrixStages ==
  ASSUME NEW o
  PROVE  MatrixStage(o) \in {"generate", "verify", "publish", "record"}
  BY DEF MatrixStage

LEMMA MatrixStep ==
  ASSUME Inv, NEW r \in Runs, RunMatrix(r)
  PROVE  Inv' /\ LedgerGrows
<1>1. /\ RunOK(r) /\ run[r].outcome \in [run[r].requests -> Outcomes]
  BY DEF Inv, Types
<1>2. ASSUME NEW s \in Stages \ {"update"}, NEW o \in [run[r].requests -> Outcomes],
             \A q \in run[r].requests : q.revision => o[q] # "skip",
             EndOfJob(r, s, o)
      PROVE  Inv' /\ LedgerGrows
  <2>1. faults' \in Nat /\ UNCHANGED <<merged, cursor, ledger, issue>>
    BY <1>2 DEF EndOfJob, Inv, Types
  <2>2. run' = [run EXCEPT ![r].stage = s, ![r].outcome = o]
    BY <1>2, Zenon DEF EndOfJob
  <2> QED BY <1>2, <2>1, <2>2, OutcomeStep
<1>3. ASSUME NEW patches \in SUBSET With(r, "open"),
             NEW skips \in SUBSET (With(r, "open") \ patches), Generate(r, patches, skips)
      PROVE  Inv' /\ LedgerGrows
  <2> DEFINE o == [q \in run[r].requests |->
                     CASE q \in patches -> "patch"
                       [] q \in skips -> "skip"
                       [] q \in With(r, "open") \ (patches \cup skips) -> "failed"
                       [] OTHER -> run[r].outcome[q]]
             s == IF patches \cup skips = With(r, "open") THEN MatrixStage(o) ELSE "record"
  <2>1. \A q \in run[r].requests :
          \/ o[q] \in {"patch", "failed"}
          \/ q \in skips /\ o[q] = "skip"
          \/ o[q] = run[r].outcome[q]
    OBVIOUS
  <2>2. o \in [run[r].requests -> Outcomes]
    <3>1. \A q \in run[r].requests : o[q] \in Outcomes
      BY <1>1, <2>1 DEF Outcomes
    <3>2. o = [q \in run[r].requests |-> o[q]]
      OBVIOUS
    <3> HIDE DEF o
    <3> QED BY <3>1, <3>2
  <2>3. \A q \in run[r].requests : q.revision => o[q] # "skip"
    BY <1>1, <1>3, <2>1 DEF RunOK, Generate
  <2>4. EndOfJob(r, s, o)
    BY <1>3, Zenon DEF Generate
  <2> HIDE DEF o
  <2>5. s \in Stages \ {"update"}
    BY MatrixStages DEF Stages
  <2> HIDE DEF s
  <2> QED BY <1>2, <2>2, <2>3, <2>4, <2>5
<1>4. ASSUME NEW pass \in BOOLEAN, Verify(r, pass)
      PROVE  Inv' /\ LedgerGrows
  <2> DEFINE o == [q \in run[r].requests |->
                     IF pass /\ q \in With(r, "patch") THEN "verified" ELSE run[r].outcome[q]]
             s == IF pass THEN "publish" ELSE "record"
  <2>1. /\ o \in [run[r].requests -> Outcomes]
        /\ \A q \in run[r].requests : q.revision => o[q] # "skip"
    BY <1>1 DEF Outcomes, RunOK
  <2>2. EndOfJob(r, s, o)
    BY <1>4, Zenon DEF Verify
  <2>3. s \in Stages \ {"update"}
    BY DEF Stages
  <2> HIDE DEF o, s
  <2> QED BY <1>2, <2>1, <2>2, <2>3
<1>5. ASSUME NEW done \in SUBSET With(r, "verified"), Publish(r, done)
      PROVE  Inv' /\ LedgerGrows
  <2> DEFINE o == [q \in run[r].requests |->
                     IF q \in done THEN "propagate" ELSE run[r].outcome[q]]
  <2>1. /\ o \in [run[r].requests -> Outcomes]
        /\ \A q \in run[r].requests : q.revision => o[q] # "skip"
    BY <1>1 DEF Outcomes, RunOK
  <2>2. EndOfJob(r, "record", o)
    BY <1>5, Zenon DEF Publish
  <2>3. "record" \in Stages \ {"update"}
    BY DEF Stages
  <2> HIDE DEF o
  <2> QED BY <1>2, <2>1, <2>2, <2>3
<1> QED BY <1>3, <1>4, <1>5, Zenon DEF RunMatrix

LEMMA RerunStep ==
  ASSUME Inv, NEW r \in Runs, RerunJobs(r)
  PROVE  Inv' /\ LedgerGrows
<1>1. /\ run[r] \in Run /\ RunOK(r) /\ run[r].outcome \in [run[r].requests -> Outcomes]
      /\ faults' \in Nat /\ UNCHANGED <<merged, cursor, ledger, issue>>
  BY DEF Inv, Types, RerunJobs
<1>2. CASE run' = [run EXCEPT ![r] = IdleRun]
  BY <1>1, <1>2, BlankRuns, BlankStep
<1>3. CASE run' = [run EXCEPT ![r].stage = MatrixStage(Reopened(r)),
                              ![r].outcome = Reopened(r)]
  <2>1. Reopened(r) \in [run[r].requests -> Outcomes]
    BY <1>1 DEF Reopened, Outcomes
  <2>2. \A q \in run[r].requests : q.revision => Reopened(r)[q] # "skip"
    BY <1>1 DEF Reopened, RunOK
  <2>3. MatrixStage(Reopened(r)) \in Stages \ {"update"}
    BY MatrixStages DEF Stages
  <2> QED BY <1>1, <1>3, <2>1, <2>2, <2>3, OutcomeStep
<1> QED BY <1>2, <1>3 DEF RerunJobs

-----------------------------------------------------------------------------
(* Polls.                                                                  *)

LEMMA Rows ==
  ASSUME NEW e \in Entry, NEW t \in Targets, NEW selected
  PROVE  Row(e, t, selected) \in Statuses /\ Backed(e, t, Row(e, t, selected))
<1>1. CASE Decided(e, t)
  <2> DEFINE d == e.decisions[t][Len(e.decisions[t])]
  <2>1. e.decisions[t] \in Seq(Decision) /\ e.decisions[t] # <<>>
    BY <1>1 DEF Decided, Entry
  <2>2. Len(e.decisions[t]) \in DOMAIN e.decisions[t] /\ d \in Decision
    BY <2>1
  <2>3. d \in DecisionsFor(e, t) /\ d.kind \in {"propagate", "skip"}
    BY <2>2 DEF DecisionsFor, Decision
  <2>4. Row(e, t, selected) = IF d.kind = "propagate" THEN "Recorded" ELSE "Skipped"
    BY <1>1, Zenon DEF Row
  <2> QED BY <2>3, <2>4 DEF Backed, Statuses, Propagated, Skipped
<1>2. CASE ~Decided(e, t)
  BY <1>2 DEF Row, Statuses, Backed
<1> QED BY <1>1, <1>2

LEMMA TablesBacked ==
  ASSUME NEW e \in Entry, NEW e2 \in Entry, e2.decisions = e.decisions, NEW selected
  PROVE  /\ TableOf(e2, selected) \in Table
         /\ TableBacked(e2, TableOf(e2, selected)) /\ TableBacked(e, TableOf(e2, selected))
<1>1. \A t \in Targets : /\ Row(e2, t, selected) \in Statuses
                         /\ Backed(e2, t, Row(e2, t, selected))
  BY Rows
<1>2. \A t, status : Backed(e2, t, status) => Backed(e, t, status)
  BY DEF Backed, Propagated, Skipped, DecisionsFor
<1> QED BY <1>1, <1>2 DEF TableOf, Table, TableBacked

\* What a poll reads and writes of change c.
LEMMA PolledOK ==
  ASSUME Inv, NEW c \in Changes
  PROVE  /\ PolledEntry(c) \in Entry /\ EntryOK(c, PolledEntry(c)) /\ PolledEntry(c).known
         /\ PolledEntry(c).decisions = ledger[c].decisions
         /\ ~LabelConflict(c) => Grows(ledger[c], PolledEntry(c))
         /\ PolledTable(c) \in Table
         /\ TableBacked(PolledEntry(c), PolledTable(c)) /\ TableBacked(ledger[c], PolledTable(c))
<1>1. ledger[c] \in Entry /\ EntryOK(c, ledger[c])
  BY DEF Inv, Types
<1>2. /\ PolledEntry(c) \in Entry /\ EntryOK(c, PolledEntry(c)) /\ PolledEntry(c).known
      /\ PolledEntry(c).decisions = ledger[c].decisions
      /\ ~LabelConflict(c) => Grows(ledger[c], PolledEntry(c))
  <2> DEFINE labels == Resolution[c].labels
  <2>1. labels \in Snapshots
    BY DEF Snapshots
  <2>2. /\ Ensure(ledger[c], labels) \in Entry /\ EntryOK(c, Ensure(ledger[c], labels))
        /\ Ensure(ledger[c], labels).known
        /\ Ensure(ledger[c], labels).decisions = ledger[c].decisions
        /\ ~EnsureConflict(ledger[c], labels) => Grows(ledger[c], Ensure(ledger[c], labels))
    <3> HIDE DEF labels
    <3> QED BY <1>1, <2>1, Ensures
  <2> QED BY <2>2 DEF PolledEntry, LabelConflict
<1> QED BY <1>1, <1>2, TablesBacked DEF PolledTable

\* At most one issue of a change is opened, with a table that the ledger backs.
LEMMA OpenedOK ==
  ASSUME Inv, NEW cs, OpenIssues(cs), NEW c \in Changes
  PROVE  /\ issue'[c] \in [count : Nat, table : Table] /\ issue'[c].count <= 1
         /\ \/ issue'[c] = issue[c] \/ issue'[c].table = PolledTable(c)
<1>1. issue[c] \in [count : Nat, table : Table] /\ issue[c].count <= 1
  BY DEF Inv, Types, IssueOK
<1>2. PolledTable(c) \in Table
  BY PolledOK
<1>3. CASE c \in cs /\ NeedsIssue(c)
  <2>1. issue'[c] = [count |-> issue[c].count + 1, table |-> PolledTable(c)]
    BY <1>3 DEF OpenIssues
  <2>2. issue[c].count = 0
    BY <1>3 DEF NeedsIssue
  <2> QED BY <1>2, <2>1, <2>2
<1>4. CASE ~(c \in cs /\ NeedsIssue(c))
  BY <1>1, <1>4 DEF OpenIssues
<1> QED BY <1>3, <1>4

LEMMA IssueTypes ==
  ASSUME NEW cs, OpenIssues(cs), \A c \in Changes : issue'[c] \in [count : Nat, table : Table]
  PROVE  issue' \in [Changes -> [count : Nat, table : Table]]
  BY DEF OpenIssues

LEMMA PollFailsStep ==
  ASSUME Inv, PollFails
  PROVE  Inv' /\ LedgerGrows
<1>1. PICK cs : OpenIssues(cs)
  BY DEF PollFails
<1>2. faults' \in Nat /\ UNCHANGED <<merged, cursor, ledger, run>>
  BY FaultTypes DEF PollFails
<1>3. Types'
  BY <1>1, <1>2, OpenedOK, IssueTypes DEF Inv, Types
<1>4. LedgerGrows /\ \A c \in Changes : EntryOK(c, ledger[c])'
  BY <1>2, SameEntries
<1>5. \A r \in Runs : RunOK(r)'
  BY <1>2, <1>3, <1>4, RunKept
<1>6. \A c \in Changes : IssueOK(c)'
  <2> TAKE c \in Changes
  <2>1. CASE issue'[c] = issue[c]
    BY <1>3, <1>4, <2>1, IssueKept
  <2>2. CASE issue'[c].table = PolledTable(c)
    BY <1>1, <1>2, <2>2, OpenedOK, PolledOK DEF IssueOK
  <2> QED BY <1>1, <2>1, <2>2, OpenedOK
<1> QED BY <1>2, <1>3, <1>4, <1>5, <1>6 DEF Inv

\* The requests of a poll.
LEMMA PollRequestOK ==
  ASSUME Inv, NEW q \in PollRequests
  PROVE  /\ q \in Asked /\ ~q.revision /\ q.change \in Window
         /\ q = Request(q.change, q.target, DefaultKey(q.change, q.target), FALSE)
         /\ \A e : RequestOK(e, q)
<1>1. PICK c \in Window : \E t \in Undecided(c) : q = Request(c, t, DefaultKey(c, t), FALSE)
  BY DEF PollRequests
<1>2. PICK t \in Undecided(c) : q = Request(c, t, DefaultKey(c, t), FALSE)
  BY <1>1
<1>3. c \in Changes /\ t \in Targets
  <2>1. c \in Changes
    BY <1>1, ControlPlaneAssumption DEF Window, Changes, Inv, Types
  <2>2. t \in Resolution[c].targets
    BY <1>2 DEF Undecided
  <2> QED BY <2>1, <2>2, ControlPlaneAssumption
<1>4. DefaultKey(c, t) \in Keys
  BY <1>3 DEF Keys
<1>5. q = [change |-> c, target |-> t, key |-> DefaultKey(c, t), revision |-> FALSE]
  BY <1>2 DEF Request
<1>6. q \in Asked
  BY <1>3, <1>4, <1>5 DEF Asked
<1> HIDE DEF PollRequests
<1> QED BY <1>1, <1>5, <1>6 DEF Request, RequestOK, RequestKey

LEMMA QueueType ==
  ASSUME Inv, NEW r \in Runs, NEW stage \in Stages, NEW qs \in SUBSET Asked,
         NEW plan \in [Changes -> Table], Queue(r, stage, qs, plan)
  PROVE  /\ run' \in [Runs -> Run]
         /\ \A j \in Runs : run'[j].outcome \in [run'[j].requests -> Outcomes]
         /\ \A j \in Runs \ {r} : run'[j] = run[j]
         /\ run'[r].stage = stage /\ run'[r].requests = qs /\ run'[r].plan = plan
         /\ \A q \in qs : run'[r].outcome[q] = "open"
<1> DEFINE o == [q \in qs |-> "open"]
           p == [stage |-> stage, requests |-> qs, plan |-> plan, outcome |-> o]
<1>1. o \in [qs -> Outcomes] /\ \A q \in qs : o[q] = "open"
  BY DEF Outcomes
<1>2. o \in UNION {[xs -> Outcomes] : xs \in SUBSET Asked}
  BY <1>1
<1>3. run' = [run EXCEPT ![r] = p]
  BY Zenon DEF Queue
<1> HIDE DEF o
<1>4. p \in Run
  BY <1>2 DEF Run
<1>5. /\ p.stage = stage /\ p.requests = qs /\ p.plan = plan /\ p.outcome = o
  OBVIOUS
<1> HIDE DEF p
<1>6. run \in [Runs -> Run] /\ \A j \in Runs : run[j].outcome \in [run[j].requests -> Outcomes]
  BY DEF Inv, Types
<1> QED BY <1>1, <1>3, <1>4, <1>5, <1>6

LEMMA PollStep ==
  ASSUME Inv, PollSucceeds
  PROVE  Inv' /\ LedgerGrows
<1>1. /\ \A c \in Window : ~LabelConflict(c)
      /\ ledger' = [c \in Changes |-> IF c \in Window THEN PolledEntry(c) ELSE ledger[c]]
      /\ OpenIssues(Window)
      /\ cursor' = IF cursor > merged THEN cursor ELSE merged
      /\ UNCHANGED merged
  BY DEF PollSucceeds
<1> DEFINE tables == [c \in Changes |-> IF c \in Window THEN PolledTable(c) ELSE BlankTable]
<1>2. /\ UNCHANGED run \/ Queue(Poll, "generate", PollRequests, tables)
      /\ Fault \/ NoFault
  BY Zenon DEF PollSucceeds
<1>3. \A c \in Changes : /\ ledger'[c] \in Entry /\ EntryOK(c, ledger'[c])
                         /\ Grows(ledger[c], ledger'[c])
                         /\ c \in Window => ledger'[c] = PolledEntry(c) /\ ledger'[c].known
                         /\ c \notin Window => ledger'[c] = ledger[c]
  <2> TAKE c \in Changes
  <2>1. CASE c \in Window
    BY <1>1, <2>1, PolledOK
  <2>2. CASE c \notin Window
    BY <1>1, <2>2 DEF Inv, Types, Grows
  <2> QED BY <2>1, <2>2
<1>4. LedgerGrows /\ ledger' \in [Changes -> Entry]
  BY <1>1, <1>3 DEF LedgerGrows
<1>5. Poll \in Runs /\ "generate" \in Stages /\ PollRequests \in SUBSET Asked
  BY PollRequestOK DEF Runs, Stages
<1>6. tables \in [Changes -> Table]
  BY PolledOK, BlankBacked
<1> HIDE DEF tables
<1>7. Types'
  <2>1. run' \in [Runs -> Run] /\ \A r \in Runs : run'[r].outcome \in [run'[r].requests -> Outcomes]
    BY <1>2, <1>5, <1>6, QueueType DEF Inv, Types
  <2>2. issue' \in [Changes -> [count : Nat, table : Table]]
    BY <1>1, OpenedOK, IssueTypes
  <2>3. merged' \in 0..N /\ cursor' \in 0..N /\ faults' \in Nat
    BY <1>1, <1>2, FaultTypes DEF Inv, Types
  <2> QED BY <1>4, <2>1, <2>2, <2>3 DEF Types
<1>8. \A c \in Changes : IssueOK(c)'
  <2> TAKE c \in Changes
  <2>1. CASE issue'[c] = issue[c]
    BY <1>4, <1>7, <2>1, IssueKept
  <2>2. CASE issue'[c] # issue[c]
    <3>1. c \in Window
      BY <1>1, <2>2 DEF OpenIssues
    <3>2. issue'[c].count <= 1 /\ issue'[c].table = PolledTable(c)
      BY <1>1, <2>2, OpenedOK
    <3>3. TableBacked(ledger'[c], PolledTable(c))
      BY <1>3, <3>1, PolledOK
    <3> QED BY <3>2, <3>3 DEF IssueOK
  <2> QED BY <2>1, <2>2
<1>9. \A c \in Changes : c <= cursor' => ledger'[c].known
  <2> SUFFICES ASSUME NEW c \in Changes, c <= cursor', c \notin Window
               PROVE  ledger[c].known
    BY <1>3
  <2>1. c \in Nat /\ c > 0 /\ merged \in Nat /\ cursor \in Nat /\ Overlap \in Nat
    BY ControlPlaneAssumption DEF Inv, Types, Changes
  <2>2. c <= cursor
    BY <1>1, <2>1 DEF Window
  <2> QED BY <2>2 DEF Inv
<1>10. \A r \in Runs : RunOK(r)'
  <2>1. CASE UNCHANGED run
    BY <1>4, <1>7, <2>1, RunKept
  <2>2. CASE Queue(Poll, "generate", PollRequests, tables)
    <3>1. /\ \A r \in Runs \ {Poll} : run'[r] = run[r]
          /\ run'[Poll].stage = "generate" /\ run'[Poll].requests = PollRequests
          /\ run'[Poll].plan = tables
      BY <1>5, <2>2 DEF Queue, Inv, Types
    <3>2. \A c \in Changes : TableBacked(ledger'[c], tables[c])
      BY <1>3, PolledOK, BlankBacked DEF tables
    <3>3. \A p, q \in PollRequests : p.change = q.change /\ p.target = q.target => p = q
      BY PollRequestOK, Zenon
    <3>4. \A q \in PollRequests : ~q.revision /\ RequestOK(ledger'[q.change], q)
      BY PollRequestOK
    <3> HIDE DEF PollRequests
    <3>5. RunOK(Poll)'
      BY <3>1, <3>2, <3>3, <3>4 DEF RunOK
    <3> QED BY <1>4, <1>7, <3>1, <3>5, RunKept
  <2> QED BY <1>2, <2>1, <2>2
<1> QED BY <1>3, <1>4, <1>7, <1>8, <1>9, <1>10 DEF Inv

-----------------------------------------------------------------------------
(* Comments.                                                               *)

LEMMA CommandTypes ==
  ASSUME NEW k \in Comments
  PROVE  k \in Runs /\ Command[k].change \in Changes /\ Command[k].targets \subseteq Targets
  BY ControlPlaneAssumption DEF Runs

LEMMA CommentStep ==
  ASSUME Inv, NEW k \in Comments, NEW c \in Changes, c = Command[k].change,
         NEW e \in Entry, EntryOK(c, e), Grows(ledger[c], e),
         NEW qs \in SUBSET Asked, \A q \in qs : q.change = c /\ RequestOK(e, q),
         \A p, q \in qs : p.target = q.target => p = q,
         NEW queued, CommentCommits(k, e, qs, queued)
  PROVE  Inv' /\ LedgerGrows
<1> DEFINE table == [t \in Targets |-> IF t \in queued THEN "Queued"
                                      ELSE Row(e, t, Resolution[c].targets)]
           plan == [IdleRun.plan EXCEPT ![c] = table]
           lost == [IdleRun EXCEPT !.stage = "lost"]
<1>1. /\ ledger' = [ledger EXCEPT ![c] = e]
      /\ UNCHANGED <<merged, cursor, issue>>
      /\ \/ NoFault /\ Queue(k, "deliver", qs, plan)
         \/ Fault /\ run' = [run EXCEPT ![k] = lost]
  BY Zenon DEF CommentCommits
<1>2. table \in Table /\ TableBacked(e, table)
  <2>1. \A t \in Targets : /\ Row(e, t, Resolution[c].targets) \in Statuses
                           /\ Backed(e, t, Row(e, t, Resolution[c].targets))
    BY Rows
  <2> QED BY <2>1 DEF Table, Statuses, TableBacked, Backed
<1> HIDE DEF table
<1>3. plan \in [Changes -> Table] /\ plan[c] = table
      /\ \A b \in Changes : b # c => plan[b] = BlankTable
  BY <1>2, IdleType
<1> HIDE DEF plan
<1>4. k \in Runs /\ "deliver" \in Stages /\ "lost" \in Stages
  BY CommandTypes DEF Stages
<1>5. Blank(lost)
  BY <1>4, BlankRuns
<1> HIDE DEF lost
<1>6. \A b \in Changes : /\ ledger'[b] \in Entry /\ EntryOK(b, ledger'[b])
                         /\ Grows(ledger[b], ledger'[b])
                         /\ b = c => ledger'[b] = e
  <2> TAKE b \in Changes
  <2>1. ledger'[b] = IF b = c THEN e ELSE ledger[b]
    BY <1>1 DEF Inv, Types
  <2>2. ledger[b] \in Entry /\ EntryOK(b, ledger[b]) /\ Grows(ledger[b], ledger[b])
    BY DEF Inv, Types, Grows
  <2> QED BY <2>1, <2>2
<1>7. LedgerGrows /\ ledger' \in [Changes -> Entry]
  BY <1>1, <1>6 DEF LedgerGrows, Inv, Types
<1>8. Types'
  <2>1. faults' \in Nat
    BY <1>1, FaultTypes
  <2>2. run' \in [Runs -> Run] /\ \A r \in Runs : run'[r].outcome \in [run'[r].requests -> Outcomes]
    <3>1. CASE Queue(k, "deliver", qs, plan)
      BY <1>3, <1>4, <3>1, QueueType
    <3>2. CASE run' = [run EXCEPT ![k] = lost]
      BY <1>4, <1>5, <3>2 DEF Inv, Types, Blank
    <3> QED BY <1>1, <3>1, <3>2
  <2> QED BY <1>1, <1>7, <2>1, <2>2 DEF Inv, Types
<1>9. \A b \in Changes : IssueOK(b)'
  BY <1>1, <1>7, <1>8, IssueKept
<1>10. \A b \in Changes : b <= cursor' => ledger'[b].known
  BY <1>1, <1>6 DEF Inv, Grows
<1>11. \A r \in Runs : RunOK(r)'
  <2>1. CASE Queue(k, "deliver", qs, plan)
    <3>1. /\ \A r \in Runs \ {k} : run'[r] = run[r]
          /\ run'[k].stage = "deliver" /\ run'[k].requests = qs /\ run'[k].plan = plan
          /\ \A q \in qs : run'[k].outcome[q] = "open"
      BY <1>4, <2>1 DEF Queue, Inv, Types
    <3>2. \A b \in Changes : TableBacked(ledger'[b], plan[b])
      BY <1>2, <1>3, <1>6, BlankBacked
    <3>3. \A q \in qs : RequestOK(ledger'[q.change], q)
      BY <1>6
    <3>4. \A p, q \in qs : p.change = q.change /\ p.target = q.target => p = q
      OBVIOUS
    <3>5. RunOK(k)'
      BY <3>1, <3>2, <3>3, <3>4 DEF RunOK
    <3> QED BY <1>7, <1>8, <3>1, <3>5, RunKept
  <2>2. CASE run' = [run EXCEPT ![k] = lost]
    <3>1. run'[k] = lost /\ \A r \in Runs \ {k} : run'[r] = run[r]
      BY <1>4, <2>2 DEF Inv, Types
    <3> QED BY <1>5, <1>7, <1>8, <3>1, RunKept, BlankRunOK
  <2> QED BY <1>1, <2>1, <2>2
<1> QED BY <1>6, <1>7, <1>8, <1>9, <1>10, <1>11 DEF Inv

LEMMA PlanStep ==
  ASSUME Inv, NEW k \in Comments, HandlePlan(k)
  PROVE  Inv' /\ LedgerGrows
<1> DEFINE c == Command[k].change
<1>1. c \in Changes
  BY CommandTypes
<1>2. ledger[c] \in Entry /\ EntryOK(c, ledger[c]) /\ Grows(ledger[c], ledger[c])
  BY <1>1 DEF Inv, Types, Grows
<1>3. CommentCommits(k, ledger[c], {}, {})
  BY DEF HandlePlan
<1> QED BY <1>1, <1>2, <1>3, CommentStep

LEMMA SkipStep ==
  ASSUME Inv, NEW k \in Comments, HandleSkip(k)
  PROVE  Inv' /\ LedgerGrows
<1> DEFINE c == Command[k].change
           labels == Resolution[c].labels
           e == EnsureKnown(ledger[c], labels)
<1>1. PICK t \in Command[k].targets :
        /\ ~KeyReused(e, SkipDecision(k, t))
        /\ CommentCommits(k, AppendDecision(e, SkipDecision(k, t)), {}, {})
  BY DEF HandleSkip
<1>2. c \in Changes /\ t \in Targets /\ k \in Runs
  BY CommandTypes
<1>3. ledger[c] \in Entry /\ EntryOK(c, ledger[c]) /\ labels \in Snapshots
  BY <1>2 DEF Inv, Types, Snapshots
<1>4. /\ e \in Entry /\ EntryOK(c, e) /\ Grows(ledger[c], e) /\ e.known
      /\ ledger[c].known => e = ledger[c]
  <2> HIDE DEF c, labels
  <2> QED BY <1>2, <1>3, Ensures
<1> DEFINE d == SkipDecision(k, t)
           e2 == AppendDecision(e, d)
<1>5. d \in Decision /\ d.target = t /\ d.kind = "skip" /\ d.key = <<"comment", k>>
  <2>1. <<"comment", k>> \in Keys
    BY DEF Keys
  <2> QED BY <1>2, <2>1 DEF SkipDecision, Decision
<1>6. GoodDecision(c, t, e, d)
  <2>1. \A key : RequestKey(c, t, key) => key # <<"comment", k>>
    BY KeysDiffer DEF RequestKey
  <2> HIDE DEF d
  <2> QED BY <1>5, <2>1 DEF GoodDecision
<1> HIDE DEF c, d, e
<1>7. e2 \in Entry /\ EntryOK(c, e2) /\ Grows(e, e2)
  BY <1>1, <1>2, <1>4, <1>5, <1>6, AppendGrows DEF d
<1>8. Grows(ledger[c], e2)
  BY <1>4, <1>7 DEF Grows
<1>9. CommentCommits(k, e2, {}, {})
  BY <1>1 DEF d
<1> HIDE DEF e2
<1> QED BY <1>2, <1>7, <1>8, <1>9, CommentStep DEF c

\* The requests of a fix are of the targets it may queue.
LEMMA FixRequestOK ==
  ASSUME NEW k \in Comments, NEW c \in Changes, c = Command[k].change,
         Command[k].verb = "fix", NEW e \in Entry, EntryOK(c, e), NEW open,
         NEW t \in IF Command[k].all THEN Targets ELSE Command[k].targets,
         NEW q \in FixRequests(k, e, t, open)
  PROVE  /\ q \in Asked /\ q.change = c /\ q.target = t /\ RequestOK(e, q)
         /\ \A p \in FixRequests(k, e, t, open) : p = q
<1>1. t \in Targets
  BY CommandTypes
<1>2. CASE Propagated(e, t)
  <2>1. FixRequests(k, e, t, open) \subseteq {Request(c, t, <<"revise", c, t, k>>, TRUE)}
    BY <1>2 DEF FixRequests
  <2>2. <<"revise", c, t, k>> \in Keys
    BY <1>1 DEF Keys
  <2>3. q = [change |-> c, target |-> t, key |-> <<"revise", c, t, k>>, revision |-> TRUE]
    BY <2>1 DEF Request
  <2>4. q \in Asked /\ q.change = c /\ q.target = t /\ q.revision = TRUE
    BY <1>1, <2>2, <2>3 DEF Asked
  <2>5. RequestOK(e, q)
    BY <1>2, <2>4 DEF RequestOK
  <2> QED BY <2>1, <2>3, <2>4, <2>5
<1>3. CASE ~Propagated(e, t)
  <2>1. /\ ~(Command[k].all /\ Skipped(e, t))
        /\ FixRequests(k, e, t, open) \subseteq
             IF DefaultKey(c, t) \in UsedKeys(e) THEN {Request(c, t, FixKey(k, c, t), FALSE)}
             ELSE {Request(c, t, DefaultKey(c, t), FALSE)}
    BY <1>3 DEF FixRequests
  <2>2. CASE DefaultKey(c, t) \notin UsedKeys(e)
    <3>1. DefaultKey(c, t) \in Keys
      BY <1>1 DEF Keys
    <3>2. q = [change |-> c, target |-> t, key |-> DefaultKey(c, t), revision |-> FALSE]
      BY <2>1, <2>2 DEF Request
    <3>3. /\ q \in Asked /\ q.change = c /\ q.target = t /\ q.revision = FALSE
          /\ q.key = DefaultKey(c, t)
      BY <1>1, <3>1, <3>2 DEF Asked
    <3>4. RequestOK(e, q)
      BY <3>3 DEF RequestOK, RequestKey
    <3> QED BY <2>1, <2>2, <3>2, <3>3, <3>4
  <2>3. CASE DefaultKey(c, t) \in UsedKeys(e)
    <3>0. PICK u \in Targets : \E d \in DecisionsFor(e, u) : d.key = DefaultKey(c, t)
      BY <2>3 DEF UsedKeys, AllDecisions
    <3>1. PICK d \in DecisionsFor(e, u) : d.key = DefaultKey(c, t)
      BY <3>0
    <3>2. u = t
      <4>1. RequestKey(c, u, d.key) \/ \E j \in Comments : d.key = <<"comment", j>>
        BY <3>1 DEF EntryOK, GoodDecision
      <4> QED BY <3>1, <4>1, KeysDiffer DEF RequestKey
    <3>3. d \in Decision
      BY <3>1, MemberOf DEF Entry
    <3>4. d.kind = "skip"
      BY <1>3, <3>1, <3>2, <3>3 DEF Decision, Propagated
    <3>5. SkippedByRun(e, c, t) /\ Skipped(e, t)
      BY <3>1, <3>2, <3>4 DEF SkippedByRun, Skipped
    <3>6. k \in Overriders(c, t)
      BY <2>1, <3>5 DEF Overriders
    <3>7. FixKey(k, c, t) \in Keys
      BY <1>1 DEF Keys
    <3>8. q = [change |-> c, target |-> t, key |-> FixKey(k, c, t), revision |-> FALSE]
      BY <2>1, <2>3 DEF Request
    <3>9. RequestKey(c, t, FixKey(k, c, t))
      BY <3>6 DEF RequestKey
    <3>10. /\ q \in Asked /\ q.change = c /\ q.target = t /\ q.revision = FALSE
           /\ q.key = FixKey(k, c, t)
      BY <1>1, <3>7, <3>8 DEF Asked
    <3>11. RequestOK(e, q)
      BY <3>5, <3>9, <3>10 DEF RequestOK
    <3> QED BY <2>1, <2>3, <3>8, <3>10, <3>11
  <2> QED BY <2>2, <2>3
<1> QED BY <1>2, <1>3

LEMMA FixStep ==
  ASSUME Inv, NEW k \in Comments, HandleFix(k)
  PROVE  Inv' /\ LedgerGrows
<1> DEFINE c == Command[k].change
           labels == Raw[c]
           e == EnsureKnown(ledger[c], labels)
           targets == IF Command[k].all THEN Targets ELSE Command[k].targets
           qs(open) == UNION {FixRequests(k, e, t, t \in open) : t \in targets}
           queued(open) == {q.target : q \in {x \in qs(open) : ~x.revision}}
<1>1. Command[k].verb = "fix"
      /\ \E open \in SUBSET targets : CommentCommits(k, e, qs(open), queued(open))
  BY DEF HandleFix
<1>2. PICK open : CommentCommits(k, e, qs(open), queued(open))
  BY <1>1
<1>3. c \in Changes
  BY CommandTypes
<1>4. ledger[c] \in Entry /\ EntryOK(c, ledger[c]) /\ labels \in Snapshots
  BY <1>3 DEF Inv, Types, Snapshots
<1>5. e \in Entry /\ EntryOK(c, e) /\ Grows(ledger[c], e)
  <2> HIDE DEF c, labels
  <2> QED BY <1>3, <1>4, Ensures
<1>6. ASSUME NEW q \in qs(open)
      PROVE  /\ q \in Asked /\ q.change = c /\ RequestOK(e, q)
             /\ q.target \in targets
             /\ q \in FixRequests(k, e, q.target, q.target \in open)
             /\ \A p \in FixRequests(k, e, q.target, q.target \in open) : p = q
  <2>1. PICK t \in targets : q \in FixRequests(k, e, t, t \in open)
    OBVIOUS
  <2> HIDE DEF e, qs
  <2> QED BY <1>1, <1>3, <1>5, <2>1, FixRequestOK
<1> HIDE DEF c, e, qs, queued, targets
<1>7. \A p, q \in qs(open) : p.target = q.target => p = q
  BY <1>6
<1>8. qs(open) \in SUBSET Asked /\ \A q \in qs(open) : q.change = c /\ RequestOK(e, q)
  BY <1>6
<1> QED BY <1>2, <1>3, <1>5, <1>7, <1>8, CommentStep DEF c

-----------------------------------------------------------------------------
(* Deliveries and the record job.                                          *)

LEMMA DeliverStep ==
  ASSUME Inv, NEW r \in Runs, NEW p \in Run, run' = [run EXCEPT ![r] = p],
         p.outcome \in [p.requests -> Outcomes],
         UNCHANGED <<merged, cursor, ledger, faults>>,
         issue' \in [Changes -> [count : Nat, table : Table]],
         \A c \in Changes : /\ issue'[c].count = issue[c].count
                            /\ \/ issue'[c].table = issue[c].table
                               \/ TableBacked(ledger[c], issue'[c].table),
         Types' => RunOK(r)'
  PROVE  Inv' /\ LedgerGrows
<1>1. \A j \in Runs : run'[j] = IF j = r THEN p ELSE run[j]
  BY DEF Inv, Types
<1>2. Types'
  BY <1>1 DEF Inv, Types
<1>3. LedgerGrows /\ \A c \in Changes : EntryOK(c, ledger[c])'
  BY SameEntries
<1>4. \A j \in Runs : RunOK(j)'
  BY <1>1, <1>2, <1>3, RunKept
<1>5. \A c \in Changes : IssueOK(c)'
  BY DEF Inv, IssueOK
<1> QED BY <1>2, <1>3, <1>4, <1>5 DEF Inv

LEMMA UpdateStep ==
  ASSUME Inv, NEW k \in Comments, DeliverIssueUpdate(k)
  PROVE  Inv' /\ LedgerGrows
<1> DEFINE c == Command[k].change
           table == run[k].plan[c]
           p == IF run[k].requests = {} THEN Over(k) ELSE [run[k] EXCEPT !.stage = "generate"]
<1>1. k \in Runs /\ c \in Changes /\ "generate" \in Stages
  BY CommandTypes DEF Stages
<1>2. /\ run[k] \in Run /\ run[k].outcome \in [run[k].requests -> Outcomes] /\ RunOK(k)
      /\ issue[c] \in [count : Nat, table : Table]
  BY <1>1 DEF Inv, Types
<1>3. table \in Table /\ TableBacked(ledger[c], table)
  BY <1>1, <1>2 DEF Run, RunOK
<1> HIDE DEF c, table
<1>4. issue' = [issue EXCEPT ![c] = [issue[c] EXCEPT !.table = table]]
  BY Zenon DEF DeliverIssueUpdate, c, table
<1>5. /\ [issue[c] EXCEPT !.table = table] \in [count : Nat, table : Table]
      /\ [issue[c] EXCEPT !.table = table].count = issue[c].count
      /\ [issue[c] EXCEPT !.table = table].table = table
  BY <1>2, <1>3
<1>6. \A b \in Changes : issue'[b] = IF b = c THEN [issue[c] EXCEPT !.table = table] ELSE issue[b]
  BY <1>1, <1>4 DEF Inv, Types
<1>7. issue' \in [Changes -> [count : Nat, table : Table]]
  BY <1>1, <1>4, <1>5 DEF Inv, Types
<1>8. \A b \in Changes : /\ issue'[b].count = issue[b].count
                         /\ \/ issue'[b].table = issue[b].table
                            \/ TableBacked(ledger[b], issue'[b].table)
  BY <1>3, <1>5, <1>6
<1>9. run' = [run EXCEPT ![k] = p] /\ UNCHANGED <<merged, cursor, ledger, faults>>
  BY DEF DeliverIssueUpdate
<1>10. CASE run[k].requests = {}
  <2>1. p = Over(k) /\ Blank(p)
    BY <1>10, BlankRuns
  <2> HIDE DEF p
  <2>2. run'[k] = p
    BY <1>1, <1>9 DEF Inv, Types
  <2> QED BY <1>1, <1>7, <1>8, <1>9, <2>1, <2>2, BlankRunOK, DeliverStep DEF Blank
<1>11. CASE run[k].requests # {}
  <2> DEFINE started == [run[k] EXCEPT !.stage = "generate"]
  <2>1. /\ started \in Run /\ started.stage = "generate"
        /\ started.requests = run[k].requests
        /\ started.outcome = run[k].outcome /\ started.plan = run[k].plan
    BY <1>1, <1>2, StageSet
  <2>0. p = started
    BY <1>11
  <2> HIDE DEF p, started
  <2>2. /\ p \in Run /\ p.stage = "generate" /\ p.requests = run[k].requests
        /\ p.outcome = run[k].outcome /\ p.plan = run[k].plan
    BY <2>0, <2>1
  <2>3. run'[k] = p
    BY <1>1, <1>9 DEF Inv, Types
  <2>4. RunOK(k)'
    BY <1>2, <1>9, <2>2, <2>3 DEF RunOK
  <2> QED BY <1>1, <1>2, <1>7, <1>8, <1>9, <2>2, <2>4, DeliverStep
<1> QED BY <1>10, <1>11

LEMMA OutcomesBacked ==
  ASSUME Inv, NEW r \in Runs, run[r].stage = "update", NEW c \in Changes
  PROVE  OutcomeTable(r, c) \in Table /\ TableBacked(ledger[c], OutcomeTable(r, c))
<1>1. RunOK(r) /\ run[r] \in Run /\ run[r].plan[c] \in Table
  BY DEF Inv, Types, Run
<1>2. ASSUME NEW t \in Targets
      PROVE  /\ OutcomeTable(r, c)[t] \in Statuses
             /\ Backed(ledger[c], t, OutcomeTable(r, c)[t])
  <2> DEFINE mine == {q \in Results(r) : q.change = c /\ q.target = t}
  <2>1. CASE mine = {}
    <3>1. OutcomeTable(r, c)[t] = run[r].plan[c][t]
      BY <2>1 DEF OutcomeTable
    <3> QED BY <1>1, <3>1 DEF Table, RunOK, TableBacked
  <2>2. CASE mine # {}
    <3>1. PICK q : /\ q \in mine
                   /\ OutcomeTable(r, c)[t] =
                        IF run[r].outcome[q] = "propagate" THEN "Recorded" ELSE "Skipped"
      <4> DEFINE q == CHOOSE q \in Results(r) : q.change = c /\ q.target = t
      <4>1. q \in mine
        BY <2>2
      <4>2. OutcomeTable(r, c)[t] =
              IF run[r].outcome[q] = "propagate" THEN "Recorded" ELSE "Skipped"
        BY <2>2 DEF OutcomeTable
      <4> HIDE DEF q
      <4> QED BY <4>1, <4>2
    <3>2. /\ q \in run[r].requests /\ run[r].outcome[q] \in {"propagate", "skip"}
          /\ q.change = c /\ q.target = t
      BY <3>1 DEF Results, With
    <3>3. Recorded(ledger[c], q, run[r].outcome[q])
      BY <1>1, <3>2 DEF RunOK
    <3> QED BY <3>1, <3>2, <3>3 DEF Recorded, Backed, Statuses
  <2> QED BY <2>1, <2>2
<1>3. OutcomeTable(r, c) \in Table
  <2>1. OutcomeTable(r, c) = [t \in Targets |-> OutcomeTable(r, c)[t]]
    BY DEF OutcomeTable
  <2> QED BY <1>2, <2>1 DEF Table
<1> QED BY <1>2, <1>3 DEF TableBacked

LEMMA OutcomesStep ==
  ASSUME Inv, NEW r \in Runs, DeliverOutcomes(r)
  PROVE  Inv' /\ LedgerGrows
<1>1. /\ run[r].stage = "update" /\ run' = [run EXCEPT ![r] = Concluded(r)]
      /\ UNCHANGED <<merged, cursor, ledger, faults>>
  BY DEF DeliverOutcomes
<1>2. ASSUME NEW c \in Changes
      PROVE  /\ issue'[c] \in [count : Nat, table : Table]
             /\ issue'[c].count = issue[c].count
             /\ \/ issue'[c].table = issue[c].table
                \/ TableBacked(ledger[c], issue'[c].table)
  <2> DEFINE table == OutcomeTable(r, c)
  <2>1. issue[c] \in [count : Nat, table : Table]
    BY DEF Inv, Types
  <2>2. table \in Table /\ TableBacked(ledger[c], table)
    BY <1>1, OutcomesBacked
  <2>3. issue'[c] = [issue[c] EXCEPT !.table = table] \/ issue'[c] = issue[c]
    BY Zenon DEF DeliverOutcomes
  <2> HIDE DEF table
  <2> QED BY <2>1, <2>2, <2>3
<1>3. issue' \in [Changes -> [count : Nat, table : Table]]
  <2>1. issue' = [c \in Changes |-> issue'[c]]
    BY Zenon DEF DeliverOutcomes
  <2> QED BY <1>2, <2>1
<1>4. CASE run' = [run EXCEPT ![r] = Over(r)]
  <2>1. Blank(Over(r))
    BY BlankRuns
  <2>2. run'[r] = Over(r)
    BY <1>4 DEF Inv, Types
  <2>3. RunOK(r)'
    BY <2>1, <2>2, BlankRunOK
  <2> QED BY <1>1, <1>2, <1>3, <1>4, <2>1, <2>3, DeliverStep DEF Blank
<1>5. CASE run' = [run EXCEPT ![r] = [run[r] EXCEPT !.stage = "incomplete"]]
  <2> DEFINE p == [run[r] EXCEPT !.stage = "incomplete"]
  <2>1. run[r] \in Run /\ RunOK(r) /\ run[r].outcome \in [run[r].requests -> Outcomes]
    BY DEF Inv, Types
  <2>2. /\ p \in Run /\ p.stage = "incomplete" /\ p.requests = run[r].requests
        /\ p.outcome = run[r].outcome /\ p.plan = run[r].plan
    BY <2>1, StageSet DEF Stages
  <2>3. run' = [run EXCEPT ![r] = p]
    BY <1>5
  <2> HIDE DEF p
  <2>4. run'[r] = p
    BY <2>3 DEF Inv, Types
  <2>5. RunOK(r)'
    BY <1>1, <2>1, <2>2, <2>4 DEF RunOK
  <2> QED BY <1>1, <1>2, <1>3, <2>1, <2>2, <2>3, <2>5, DeliverStep
<1> QED BY <1>1, <1>4, <1>5 DEF Concluded

\* The run after its results are recorded: over, or with them to deliver.
LEMMA RecordedRun ==
  ASSUME Inv, NEW r \in Runs, run[r].stage = "record", ~RecordConflict(r), Types',
         ledger' = [c \in Changes |-> RecordedEntry(r, c)], LedgerGrows,
         run'[r].requests = run[r].requests, run'[r].outcome = run[r].outcome,
         run'[r].plan = run[r].plan
  PROVE  RunOK(r)'
<1>1. run[r] \in Run /\ RunOK(r) /\ run[r].outcome \in [run[r].requests -> Outcomes]
  BY DEF Inv, Types
<1>2. ASSUME NEW q \in run[r].requests
      PROVE  /\ q \in Asked /\ q.change \in Changes /\ q.target \in Targets
             /\ RequestOK(ledger[q.change], q)
             /\ ledger[q.change] \in Entry /\ ledger'[q.change] \in Entry
             /\ Grows(ledger[q.change], ledger'[q.change])
  BY <1>1, <1>2 DEF Inv, Types, Run, Asked, RunOK, LedgerGrows
<1>3. \A q \in run[r].requests : RequestOK(ledger'[q.change], q)
  BY <1>2, RequestGrows
<1>4. ASSUME NEW q \in run[r].requests
      PROVE  Recorded(ledger'[q.change], q, run[r].outcome[q])
  <2>1. CASE q.revision
    <3>1. Propagated(ledger'[q.change], q.target)
      BY <1>2, <1>3, <2>1 DEF RequestOK
    <3> QED BY <1>1, <2>1, <3>1 DEF Recorded, RunOK
  <2>2. CASE ~q.revision /\ run[r].outcome[q] \in {"propagate", "skip"}
    <3>1. q \in Recordable(r)
      BY <2>2 DEF Recordable, Results, With
    <3>2. EntryOK(q.change, ledger[q.change]) /\ q.change \in Changes
      BY <1>2 DEF Inv
    <3>3. DecisionOf(r, q) \in DecisionsFor(RecordedEntry(r, q.change), q.target)
      <4>1. Types
        BY DEF Inv
      <4> QED BY <1>1, <3>1, <3>2, <4>1, RecordedGrows
    <3>4. ledger'[q.change] = RecordedEntry(r, q.change)
      BY <3>2
    <3>5. DecisionOf(r, q).kind = run[r].outcome[q]
      BY DEF DecisionOf
    <3> QED BY <3>3, <3>4, <3>5 DEF Recorded, Propagated, Skipped
  <2>3. CASE run[r].outcome[q] \notin {"propagate", "skip"}
    BY <2>3 DEF Recorded
  <2> QED BY <2>1, <2>2, <2>3
<1>5. \A c \in Changes : TableBacked(ledger'[c], run[r].plan[c])
  <2> TAKE c \in Changes
  <2>1. /\ ledger[c] \in Entry /\ ledger'[c] \in Entry /\ Grows(ledger[c], ledger'[c])
        /\ TableBacked(ledger[c], run[r].plan[c])
    BY <1>1 DEF Inv, Types, LedgerGrows, RunOK
  <2> QED BY <2>1, BackedGrows
<1> QED BY <1>1, <1>3, <1>4, <1>5 DEF RunOK

LEMMA RecordStep ==
  ASSUME Inv, NEW r \in Runs, RecordPropagations(r)
  PROVE  Inv' /\ LedgerGrows
<1> DEFINE incomplete == [run[r] EXCEPT !.stage = "incomplete"]
           update == [run[r] EXCEPT !.stage = "update"]
<1>1. run[r].stage = "record" /\ UNCHANGED <<merged, cursor, issue>> /\ faults' \in Nat
  BY FaultTypes DEF RecordPropagations
<1>2. "incomplete" \in Stages \ {"update"} /\ "update" \in Stages /\ run[r] \in Run
  BY DEF Stages, Inv, Types
<1>3. \/ UNCHANGED ledger /\ run' = [run EXCEPT ![r] = incomplete]
      \/ /\ ~RecordConflict(r) /\ ledger' = [c \in Changes |-> RecordedEntry(r, c)]
         /\ \/ run' = [run EXCEPT ![r] = Over(r)]
            \/ run' = [run EXCEPT ![r] = update]
            \/ run' = [run EXCEPT ![r] = incomplete]
  BY Zenon DEF RecordPropagations, Concluded
<1>4. CASE UNCHANGED ledger /\ run' = [run EXCEPT ![r] = incomplete]
  BY <1>1, <1>2, <1>4, StageStep
<1>5. ASSUME ~RecordConflict(r), ledger' = [c \in Changes |-> RecordedEntry(r, c)],
             NEW p \in Run, p.outcome \in [p.requests -> Outcomes],
             run' = [run EXCEPT ![r] = p],
             \/ Blank(p)
             \/ /\ p.requests = run[r].requests /\ p.outcome = run[r].outcome
                /\ p.plan = run[r].plan
      PROVE  Inv' /\ LedgerGrows
  <2>1. \A j \in Runs : run'[j] = IF j = r THEN p ELSE run[j]
    BY <1>5 DEF Inv, Types
  <2>2. \A c \in Changes : /\ RecordedEntry(r, c) \in Entry /\ EntryOK(c, RecordedEntry(r, c))
                            /\ Grows(ledger[c], RecordedEntry(r, c))
                            /\ RecordedEntry(r, c).known = ledger[c].known
    <3> TAKE c \in Changes
    <3>1. Types /\ RunOK(r) /\ EntryOK(c, ledger[c])
      BY DEF Inv
    <3> QED BY <1>5, <3>1, RecordedGrows
  <2>3. \A c \in Changes : ledger'[c] = RecordedEntry(r, c)
    BY <1>5
  <2>4. LedgerGrows /\ ledger' \in [Changes -> Entry]
    BY <1>5, <2>2, <2>3 DEF LedgerGrows
  <2>5. Types'
    BY <1>1, <1>5, <2>1, <2>4 DEF Inv, Types
  <2>6. RunOK(r)'
    <3>1. CASE Blank(p)
      BY <2>1, <3>1, BlankRunOK
    <3>2. CASE ~Blank(p)
      <4>1. /\ run'[r].requests = run[r].requests /\ run'[r].outcome = run[r].outcome
            /\ run'[r].plan = run[r].plan
        BY <1>5, <2>1, <3>2
      <4> QED BY <1>1, <1>5, <2>4, <2>5, <4>1, RecordedRun
    <3> QED BY <3>1, <3>2
  <2>7. \A j \in Runs : RunOK(j)'
    BY <2>1, <2>4, <2>5, <2>6, RunKept
  <2>8. \A c \in Changes : IssueOK(c)'
    BY <1>1, <2>4, <2>5, IssueKept
  <2>9. \A c \in Changes : EntryOK(c, ledger'[c]) /\ (c <= cursor' => ledger'[c].known)
    BY <1>1, <2>2, <2>3 DEF Inv
  <2> QED BY <2>4, <2>5, <2>7, <2>8, <2>9 DEF Inv
<1>6. Blank(Over(r))
  BY BlankRuns
<1>7. /\ \A p \in {incomplete, update} :
            /\ p \in Run /\ p.requests = run[r].requests /\ p.outcome = run[r].outcome
            /\ p.plan = run[r].plan
      /\ run[r].outcome \in [run[r].requests -> Outcomes]
  <2>1. run[r].outcome \in [run[r].requests -> Outcomes]
    BY DEF Inv, Types
  <2> QED BY <1>2, <2>1, StageSet
<1> HIDE DEF incomplete, update
<1> QED BY <1>3, <1>4, <1>5, <1>6, <1>7 DEF Blank

-----------------------------------------------------------------------------
(* The invariant holds in every state, and the ledger only grows.          *)

LEMMA InitInv ==
  ASSUME Init
  PROVE  Inv
<1>1. NoEntry \in Entry /\ \A t \in Targets : NoEntry.decisions[t] = <<>>
  <2>1. {} \in Snapshots
    BY DEF Snapshots
  <2>2. [t \in Targets |-> <<>>] \in [Targets -> Seq(Decision)]
    OBVIOUS
  <2> QED BY <2>1, <2>2 DEF NoEntry, Entry
<1>2. \A c \in Changes : EntryOK(c, NoEntry)
  BY <1>1 DEF EntryOK, UniqueKeys, DecisionsFor
<1>3. Types
  <2>1. merged \in 0..N /\ cursor \in 0..N /\ faults \in Nat
    BY ControlPlaneAssumption DEF Init
  <2>2. run \in [Runs -> Run] /\ \A r \in Runs : run[r].outcome \in [run[r].requests -> Outcomes]
    BY IdleType DEF Init
  <2>3. issue \in [Changes -> [count : Nat, table : Table]]
    BY BlankBacked DEF Init
  <2>4. ledger \in [Changes -> Entry]
    BY <1>1 DEF Init
  <2> QED BY <2>1, <2>2, <2>3, <2>4 DEF Types
<1>4. \A r \in Runs : RunOK(r)
  BY IdleType, BlankBacked DEF Init, RunOK
<1>5. \A c \in Changes : IssueOK(c)
  BY BlankBacked DEF Init, IssueOK
<1>6. \A c \in Changes : EntryOK(c, ledger[c])
  BY <1>2 DEF Init
<1>7. \A c \in Changes : c <= cursor => ledger[c].known
  BY ControlPlaneAssumption DEF Init, Changes
<1> QED BY <1>3, <1>4, <1>5, <1>6, <1>7 DEF Inv

LEMMA NextInv ==
  ASSUME Inv, [Next]_vars
  PROVE  Inv' /\ LedgerGrows
<1>1. CASE MergeChange
  BY <1>1, MergeStep
<1>2. CASE PollSucceeds
  BY <1>2, PollStep
<1>3. CASE PollFails
  BY <1>3, PollFailsStep
<1>4. CASE AbandonPoll
  BY <1>4, AbandonStep
<1>5. ASSUME NEW k \in Comments, HandleFix(k)
      PROVE  Inv' /\ LedgerGrows
  BY <1>5, FixStep
<1>6. ASSUME NEW k \in Comments, HandleSkip(k)
      PROVE  Inv' /\ LedgerGrows
  BY <1>6, SkipStep
<1>7. ASSUME NEW k \in Comments, HandlePlan(k)
      PROVE  Inv' /\ LedgerGrows
  BY <1>7, PlanStep
<1>8. ASSUME NEW k \in Comments, DeliverIssueUpdate(k)
      PROVE  Inv' /\ LedgerGrows
  BY <1>8, UpdateStep
<1>9. ASSUME NEW r \in Runs, RunMatrix(r)
      PROVE  Inv' /\ LedgerGrows
  BY <1>9, MatrixStep
<1>10. ASSUME NEW r \in Runs, RecordPropagations(r)
       PROVE  Inv' /\ LedgerGrows
  BY <1>10, RecordStep
<1>11. ASSUME NEW r \in Runs, DeliverOutcomes(r)
       PROVE  Inv' /\ LedgerGrows
  BY <1>11, OutcomesStep
<1>12. ASSUME NEW r \in Runs, DeliveryFails(r)
       PROVE  Inv' /\ LedgerGrows
  BY <1>12, FailsStep
<1>13. ASSUME NEW r \in Runs, RerunJobs(r)
       PROVE  Inv' /\ LedgerGrows
  BY <1>13, RerunStep
<1>14. CASE UNCHANGED vars
  <2>1. UNCHANGED <<cursor, ledger, issue, run, faults>> /\ merged' \in 0..N
    BY <1>14 DEF vars, Inv, Types
  <2> QED BY <2>1, UnchangedStep
<1> QED BY <1>1, <1>2, <1>3, <1>4, <1>5, <1>6, <1>7, <1>8, <1>9, <1>10, <1>11,
           <1>12, <1>13, <1>14, Zenon DEF Next, Handle

\* The keys of EntryOK leave at most one propagation of a target, if at most
\* one comment overrides its skip.
LEMMA OnePropagation ==
  ASSUME Inv, NEW c \in Changes, NEW t \in Targets, \A j, k \in Overriders(c, t) : j = k,
         NEW x \in DOMAIN ledger[c].decisions[t], NEW y \in DOMAIN ledger[c].decisions[t],
         ledger[c].decisions[t][x].kind = "propagate",
         ledger[c].decisions[t][y].kind = "propagate"
  PROVE  x = y
<1> DEFINE e == ledger[c]
           d == e.decisions[t][x]
           b == e.decisions[t][y]
<1>1. e \in Entry /\ EntryOK(c, e)
  BY DEF Inv, Types
<1>2. d \in DecisionsFor(e, t) /\ b \in DecisionsFor(e, t)
  BY DEF DecisionsFor
<1>3. RequestKey(c, t, d.key) /\ RequestKey(c, t, b.key)
  BY <1>1, <1>2 DEF EntryOK, GoodDecision
<1>4. ASSUME SkippedByRun(e, c, t)
      PROVE  d.key # DefaultKey(c, t) /\ b.key # DefaultKey(c, t)
  <2>1. PICK s \in DecisionsFor(e, t) : s.key = DefaultKey(c, t) /\ s.kind = "skip"
    BY <1>4 DEF SkippedByRun
  <2>2. PICK i \in DOMAIN e.decisions[t] : s = e.decisions[t][i]
    BY DEF DecisionsFor
  <2>3. \A j \in DOMAIN e.decisions[t] : e.decisions[t][j].key = s.key => e.decisions[t][j] = s
    BY <1>1, <2>2 DEF EntryOK, UniqueKeys
  <2> QED BY <2>1, <2>3
<1>5. d.key # DefaultKey(c, t) \/ b.key # DefaultKey(c, t) => SkippedByRun(e, c, t)
  BY <1>1, <1>2, <1>3 DEF EntryOK, GoodDecision
<1>6. d.key = b.key
  BY <1>3, <1>4, <1>5 DEF RequestKey
<1> QED BY <1>1, <1>6 DEF EntryOK, UniqueKeys

LEMMA Invariants ==
  ASSUME Inv
  PROVE  /\ OneIssuePerChange /\ NoRowAheadOfLedger
         /\ OnePropagationPerTarget /\ CursorBehindLedger
<1>1. OneIssuePerChange /\ NoRowAheadOfLedger
  BY DEF Inv, IssueOK, TableBacked, Backed, OneIssuePerChange, NoRowAheadOfLedger
<1>2. OnePropagationPerTarget
  BY OnePropagation DEF OnePropagationPerTarget
<1>3. CursorBehindLedger
  BY DEF Inv, CursorBehindLedger
<1> QED BY <1>1, <1>2, <1>3

\* The invariant Inv.
LEMMA Invariance == Spec => []Inv
<1>1. Init => Inv
  BY InitInv
<1>2. Inv /\ [Next]_vars => Inv'
  BY NextInv
<1> QED BY <1>1, <1>2, PTL DEF Spec

(* However often polls fail and are repeated, a change has one issue:      *)
(* Poll looks its marker up before it opens one.                           *)
THEOREM IssuesAreSingle == Spec => []OneIssuePerChange
<1>1. Inv => OneIssuePerChange
  BY Invariants
<1> QED BY <1>1, Invariance, PTL

(* No row of an issue claims what the ledger does not have: a row comes    *)
(* from an entry that was current when it was built (a plan), or from an   *)
(* outcome that is recorded (stage "update"), and entries only grow.       *)
THEOREM RowsAreBacked == Spec => []NoRowAheadOfLedger
<1>1. Inv => NoRowAheadOfLedger
  BY Invariants
<1> QED BY <1>1, Invariance, PTL

(* A target is propagated once, by whatever poll, comment and re-run, if   *)
(* one comment at most overrides a skip of it.                             *)
THEOREM TargetsPropagateOnce == Spec => []OnePropagationPerTarget
<1>1. Inv => OnePropagationPerTarget
  BY Invariants
<1> QED BY <1>1, Invariance, PTL

(* The cursor only passes changes that have an entry.                      *)
THEOREM CursorIsBehind == Spec => []CursorBehindLedger
<1>1. Inv => CursorBehindLedger
  BY Invariants
<1> QED BY <1>1, Invariance, PTL

(* Decisions are only appended, and labels are only set where there were   *)
(* none and nothing was decided.                                           *)
THEOREM LedgerAppends == Spec => EntriesAreAppendOnly
<1>1. LedgerGrows =>
        \A c \in Changes :
          /\ ledger[c].known => ledger'[c].known
          /\ ledger[c].known /\ ledger'[c].labels # ledger[c].labels =>
                 ledger[c].labels = {} /\ AllDecisions(ledger[c]) = {}
          /\ \A t \in Targets :
              \A i \in DOMAIN ledger[c].decisions[t] :
                 /\ i \in DOMAIN ledger'[c].decisions[t]
                 /\ ledger'[c].decisions[t][i] = ledger[c].decisions[t][i]
  BY Zenon DEF LedgerGrows, Grows
<1>2. Inv /\ [Next]_vars => LedgerGrows
  BY NextInv
<1> QED BY <1>1, <1>2, Invariance, PTL DEF Spec, EntriesAreAppendOnly
=============================================================================
