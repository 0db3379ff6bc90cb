---------------------------- MODULE TempoRunner ----------------------------
(* tempo-conformance/scripts/run.py, _run() and node_stage(): every scenario is
   sent to every adapter; then the bytes that an adapter produced go to a fresh
   dev node of its own, in file order, where a transaction may build on earlier
   ones.

   A scenario has its operation, the adapters it is for, the versions it runs
   on, and a node part: what the node should say, the scenarios it requires and
   the problems it is known to have. Calls and node verdicts are free.         *)
EXTENDS Naturals, Sequences, FiniteSets

CONSTANTS TempoAdapters,  \* [name, capabilities, current]: current versions satisfy sdkVersions
          TempoSuites,    \* what vectors/*.json may hold
          TempoReplies,   \* of an adapter: "right", "wrong", "error" or "crash"
          NodeProblems,   \* what a verdict of the node may get wrong
          MaxProblems     \* how many replies and verdicts may be wrong

NotOnNode == [expect |-> "none", requires |-> {}, known |-> {}]

\* vector.schema.json: a file has a scenario. There is an adapter.
NodePart == [expect : STRING, requires : SUBSET STRING, known : SUBSET NodeProblems]
TempoScenario ==
  [name : STRING, operation : STRING, adapters : SUBSET STRING, constrained : SUBSET STRING,
   reasons : SUBSET STRING, signs : BOOLEAN, selected : BOOLEAN, node : NodePart]

ASSUME TempoAssumption ==
  /\ TempoAdapters \in
       Seq([name : STRING, capabilities : SUBSET STRING, current : BOOLEAN]) \ {<<>>}
  /\ TempoSuites \subseteq Seq(TempoScenario) \ {<<>>}
  /\ TempoReplies \subseteq {"right", "wrong", "error", "crash"}
  /\ MaxProblems \in Nat

VARIABLES
  tempoSuite,
  tempoPc,       \* "load", "vectors", "node", "summary" or "done"
  tempoAdapter,  \* index of the adapter under way
  scenarioAt,    \* index of the scenario under way
  rows,          \* rows[a][i]: status of scenario i on adapter a
  replies,       \* replies[a][i]: the reply, for scenarios that ran
  nodeRows,      \* nodeRows[a][i]: status on the node
  problems,      \* problems[a][i]: what the node found
  wrong,         \* wrong replies and verdicts so far
  tempoExit

tempoVars == <<tempoSuite, tempoPc, tempoAdapter, scenarioAt, rows, replies, nodeRows, problems,
               wrong, tempoExit>>

Size == Len(tempoSuite)
Numbers == 1..Len(TempoAdapters)
Blank(suite) == [a \in Numbers |-> [i \in 1..Len(suite) |-> ""]]

TempoStart(given) ==
  /\ tempoSuite = given
  /\ tempoPc = "load"
  /\ tempoAdapter = 1
  /\ scenarioAt = 1
  /\ rows = Blank(tempoSuite)
  /\ replies = Blank(tempoSuite)
  /\ nodeRows = Blank(tempoSuite)
  /\ problems = [a \in Numbers |-> [i \in 1..Len(tempoSuite) |-> {}]]
  /\ wrong = 0
  /\ tempoExit = 0

TempoInit == \E given \in TempoSuites : TempoStart(given)

Suite(i) == tempoSuite[i]
OnNode(s) == s.node # NotOnNode
TempoNames == {a.name : a \in {TempoAdapters[n] : n \in Numbers}}

-----------------------------------------------------------------------------
(* load_vectors() and check_skips(). *)

\* The adapters a scenario may skip have a reason each, and nobody else has.
SkipsExplained(s) ==
  /\ s.adapters \cup s.constrained \cup s.reasons \subseteq TempoNames
  /\ s.reasons = s.constrained \cup (TempoNames \ s.adapters)

\* A transaction requires transactions that the node gets before it.
RequiresEarlier(suite, i) ==
  \A name \in suite[i].node.requires :
    \E j \in 1..(i - 1) : suite[j].name = name /\ OnNode(suite[j])

ValidSuite(suite) ==
  /\ \A i, j \in 1..Len(suite) : i # j => suite[i].name # suite[j].name
  /\ \A i \in 1..Len(suite) : SkipsExplained(suite[i]) /\ RequiresEarlier(suite, i)

LoadSuite ==
  /\ tempoPc = "load"
  /\ IF ValidSuite(tempoSuite)
     THEN tempoPc' = "vectors" /\ UNCHANGED tempoExit
     ELSE tempoPc' = "done" /\ tempoExit' = 1
  /\ UNCHANGED <<tempoSuite, tempoAdapter, scenarioAt, rows, replies, nodeRows, problems, wrong>>

-----------------------------------------------------------------------------
(* _run(): scenarios of one adapter. *)

\* skip_reason().
SkipReason(a, s) ==
  IF s.operation \notin TempoAdapters[a].capabilities THEN "capability"
  ELSE IF TempoAdapters[a].name \notin s.adapters THEN "adapters"
  ELSE IF TempoAdapters[a].name \in s.constrained /\ ~TempoAdapters[a].current THEN "sdkVersions"
  ELSE ""

NextScenario ==
  IF scenarioAt = Size THEN scenarioAt' = 1 /\ tempoPc' = "node"
  ELSE scenarioAt' = scenarioAt + 1 /\ UNCHANGED tempoPc

SkipScenario ==
  /\ tempoPc = "vectors"
  /\ SkipReason(tempoAdapter, Suite(scenarioAt)) # "" \/ ~Suite(scenarioAt).selected
  /\ IF Suite(scenarioAt).selected
     THEN rows' = [rows EXCEPT ![tempoAdapter][scenarioAt] = "skipped"]
     ELSE UNCHANGED rows
  /\ NextScenario
  /\ UNCHANGED <<tempoSuite, tempoAdapter, replies, nodeRows, problems, wrong, tempoExit>>

\* compare(): the value or the error type that the scenario expects.
SameReply(s, reply) == reply = "right"

RunScenario ==
  /\ tempoPc = "vectors"
  /\ Suite(scenarioAt).selected
  /\ SkipReason(tempoAdapter, Suite(scenarioAt)) = ""
  /\ \E reply \in TempoReplies :
       /\ replies' = [replies EXCEPT ![tempoAdapter][scenarioAt] = reply]
       /\ rows' = [rows EXCEPT ![tempoAdapter][scenarioAt] =
                     IF SameReply(Suite(scenarioAt), reply) THEN "pass" ELSE "fail"]
       /\ IF reply = "right" THEN UNCHANGED wrong ELSE wrong < MaxProblems /\ wrong' = wrong + 1
  /\ NextScenario
  /\ UNCHANGED <<tempoSuite, tempoAdapter, nodeRows, problems, tempoExit>>

-----------------------------------------------------------------------------
(* node_stage(). *)

\* The reply holds a transaction: a right one unless an error is expected, and a
\* wrong one.
Signed(a, i) ==
  replies[a][i] = "wrong" \/ (replies[a][i] = "right" /\ Suite(i).signs)

Required(a, i) ==
  \A j \in 1..Size : Suite(j).name \in Suite(i).node.requires =>
                       nodeRows[a][j] \in {"pass", "known"}

NoTransaction(a, i) == Suite(i).operation = "tx.sign" /\ ~Signed(a, i)

\* Mutant: known problems may be among others.
KnownAmong(s, found) ==
  IF found = {} THEN IF s.node.known = {} THEN "pass" ELSE "fail"
  ELSE IF s.node.known # {} /\ s.node.known \subseteq found THEN "known" ELSE "fail"

\* apply_node_known(): a known issue is one with exactly its problems, and one
\* that is gone is a failure.
NodeStatus(s, found) ==
  IF found = {} THEN IF s.node.known = {} THEN "pass" ELSE "fail"
  ELSE IF s.node.known # {} /\ found = s.node.known THEN "known" ELSE "fail"

EndNode ==
  IF tempoAdapter = Len(TempoAdapters)
  THEN tempoPc' = "summary" /\ UNCHANGED <<tempoAdapter, scenarioAt>>
  ELSE tempoPc' = "vectors" /\ scenarioAt' = 1 /\ tempoAdapter' = tempoAdapter + 1

NextOnNode ==
  IF scenarioAt = Size THEN EndNode
  ELSE scenarioAt' = scenarioAt + 1 /\ UNCHANGED <<tempoPc, tempoAdapter>>

\* Nothing to submit: not a node scenario, or not one of this run.
PassOver ==
  /\ tempoPc = "node"
  /\ ~OnNode(Suite(scenarioAt)) \/ rows[tempoAdapter][scenarioAt] = ""
  /\ NextOnNode
  /\ UNCHANGED <<tempoSuite, rows, replies, nodeRows, problems, wrong, tempoExit>>

SkipOnNode ==
  /\ tempoPc = "node"
  /\ OnNode(Suite(scenarioAt))
  /\ rows[tempoAdapter][scenarioAt] # ""
  /\ ~Required(tempoAdapter, scenarioAt) \/ NoTransaction(tempoAdapter, scenarioAt)
  /\ nodeRows' = [nodeRows EXCEPT ![tempoAdapter][scenarioAt] = "skipped"]
  /\ NextOnNode
  /\ UNCHANGED <<tempoSuite, rows, replies, problems, wrong, tempoExit>>

\* run_node_case(): funding, the verdict, the hash, the receipt and the stored
\* bytes are compared; the node may say anything, and what a wrong adapter signed
\* it usually refuses.
SubmitTempo(found) ==
  /\ tempoPc = "node"
  /\ OnNode(Suite(scenarioAt))
  /\ rows[tempoAdapter][scenarioAt] # ""
  /\ Required(tempoAdapter, scenarioAt)
  /\ ~NoTransaction(tempoAdapter, scenarioAt)
  /\ IF found = Suite(scenarioAt).node.known THEN UNCHANGED wrong
     ELSE wrong < MaxProblems /\ wrong' = wrong + 1
  /\ problems' = [problems EXCEPT ![tempoAdapter][scenarioAt] = found]
  /\ nodeRows' = [nodeRows EXCEPT ![tempoAdapter][scenarioAt] =
                    NodeStatus(Suite(scenarioAt), found)]
  /\ NextOnNode
  /\ UNCHANGED <<tempoSuite, rows, replies, tempoExit>>

Failed(status) == \E a \in Numbers : \E i \in 1..Size : status[a][i] = "fail"
Executed == \E a \in Numbers : \E i \in 1..Size : rows[a][i] \in {"pass", "fail"}

SumUpRun ==
  /\ tempoPc = "summary"
  /\ tempoPc' = "done"
  /\ tempoExit' = IF Executed /\ ~Failed(rows) /\ ~Failed(nodeRows) THEN 0 ELSE 1
  /\ UNCHANGED <<tempoSuite, tempoAdapter, scenarioAt, rows, replies, nodeRows, problems, wrong>>

TempoNext ==
  \/ LoadSuite \/ SkipScenario \/ RunScenario \/ PassOver \/ SkipOnNode \/ SumUpRun
  \/ \E found \in SUBSET NodeProblems : SubmitTempo(found)

TempoSpec == TempoInit /\ [][TempoNext]_tempoVars

-----------------------------------------------------------------------------

\* A run that succeeds explains everything it did not verify. A selected
\* scenario passed or was skipped for an adapter that has a reason on record; and
\* what the node got shows exactly its known problems, or was skipped because
\* this adapter has no transaction to sign, on record or as the scenario expects,
\* or because an earlier transaction that it requires was skipped or is not part
\* of the run.
SuccessExplainsSkips ==
  tempoPc = "done" /\ tempoExit = 0 =>
    \A a \in Numbers : \A i \in 1..Size : Suite(i).selected =>
      LET name == TempoAdapters[a].name
          unsigned == Suite(i).operation = "tx.sign" /\ (rows[a][i] = "skipped" \/ ~Suite(i).signs)
          required == {j \in 1..(i - 1) : Suite(j).name \in Suite(i).node.requires}
      IN /\ \/ rows[a][i] = "pass"
            \/ /\ rows[a][i] = "skipped"
               /\ \/ name \in Suite(i).reasons
                  \/ Suite(i).operation \notin TempoAdapters[a].capabilities
         /\ OnNode(Suite(i)) =>
              \/ nodeRows[a][i] \in {"pass", "known"} /\ problems[a][i] = Suite(i).node.known
              \/ /\ nodeRows[a][i] = "skipped"
                 /\ \/ unsigned
                    \/ \E j \in required : ~Suite(j).selected \/ nodeRows[a][j] = "skipped"
=============================================================================
