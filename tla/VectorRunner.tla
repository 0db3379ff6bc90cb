---------------------------- MODULE VectorRunner ----------------------------
(* conformance/scripts/vector_runner.py: VectorRunner.run() over adapters and
   vector files. The scenarios of a file run in a thread pool; each thread
   records into a list of its own (threading.local), which the main thread puts
   into scenario order. Scenarios with a duration limit follow one at a time.

   A suite is what one call of run() meets: the adapters asked for and the
   vector files. A scenario names the adapters it is for, whether the tag
   filter and the SDK version select it, its tests with what they expect, and
   whether running it raises.                                                 *)
EXTENDS Naturals, Sequences, FiniteSets

CONSTANTS Suites,         \* [adapters: Seq, files: Seq] with records as below
          Workers,        \* threads of the pool: 1..jobs
          Replies         \* what an adapter may reply: [success, what, slow]

VectorReplyType == [success : BOOLEAN, what : STRING, slow : BOOLEAN]
VectorTestType == [name : STRING, expected : VectorReplyType, exact : BOOLEAN]
VectorScenarioType ==
  [adapters : SUBSET STRING, tagged : BOOLEAN, version : BOOLEAN, timed : BOOLEAN,
   tests : Seq(VectorTestType), raises : BOOLEAN]
VectorFileType ==
  [found : BOOLEAN, valid : BOOLEAN, operation : STRING, scenarios : Seq(VectorScenarioType)]
VectorAdapterType ==
  [name : STRING, known : BOOLEAN, builds : BOOLEAN, capabilities : SUBSET STRING]

\* Without arguments run() takes all adapters and files of the checkout, which
\* has both; an argument names at least one.
ASSUME VecAssumption ==
  /\ Suites \subseteq [adapters : Seq(VectorAdapterType) \ {<<>>}, files : Seq(VectorFileType) \ {<<>>}]
  /\ Replies \subseteq VectorReplyType

MainThread == 0
VectorThreads == Workers \cup {MainThread}
List(items) == [is |-> "list", items |-> items]
NoList == [is |-> "unset", items |-> <<>>]
Raised == [is |-> "raised", items |-> <<>>]

VARIABLES
  suite,         \* the suite under way
  vecPc,         \* "adapter", "file", "pool", "timed", "crash", "summary" or "done"
  adapterAt,     \* index of the adapter under way
  fileAt,        \* index of the vector file under way
  runnable,      \* indices of its scenarios that the filters leave
  queued,        \* those the pool has not started
  running,       \* running[t]: the scenario thread t runs, 0 if none
  step,          \* step[t]: how many of its tests are done
  local,         \* local[t]: self._local.results of thread t
  collected,     \* collected[i]: the list scenario i returned, or Raised
  results,       \* self.results
  versionSkips,
  capabilitySkips, \* pairs of adapter and file
  verdict        \* what run() returned

fileVars == <<runnable, queued, running, step, local, collected>>
vecVars == <<suite, vecPc, adapterAt, fileAt, fileVars, results, versionSkips, capabilitySkips,
             verdict>>

VecStart(given) ==
  /\ suite = given
  /\ vecPc = "adapter"
  /\ adapterAt = 1
  /\ fileAt = 1
  /\ runnable = {}
  /\ queued = {}
  /\ running = [t \in VectorThreads |-> 0]
  /\ step = [t \in VectorThreads |-> 0]
  /\ local = [t \in VectorThreads |-> NoList]
  /\ collected = <<>>
  /\ results = <<>>
  /\ versionSkips = 0
  /\ capabilitySkips = {}
  /\ verdict = "none"

VecInit == \E given \in Suites : VecStart(given)

Adapter == suite.adapters[adapterAt]
File == suite.files[fileAt]
Scenario(i) == File.scenarios[i]

Result(scenario, test, passed) ==
  [adapter |-> adapterAt, file |-> fileAt, scenario |-> scenario, test |-> test, passed |-> passed]

\* Mutant: one list for all threads.
RecordShared(t, result) == results' = Append(results, result) /\ UNCHANGED local

\* _record_result(): into the list of the thread, if it has one.
Record(t, result) ==
  IF local[t] = NoList
  THEN results' = Append(results, result) /\ UNCHANGED local
  ELSE local' = [local EXCEPT ![t].items = Append(@, result)] /\ UNCHANGED results

-----------------------------------------------------------------------------
(* Comparison of replies. *)

\* _compare_success_and_error_type() and compare_results().
SameResult(expected, actual) ==
  expected.success = actual.success /\ expected.what = actual.what

\* normalize_credential_result(): a request kept as text counts as decoded.
Normal(what) == IF what = "encoded value" THEN "value" ELSE what

\* compare_parse_results_semantic(), compare_format_results(): a value the test
\* does not ask for exactly counts in its normal form.
SameMeaning(expected, actual) ==
  expected.success = actual.success /\ Normal(expected.what) = Normal(actual.what)

\* A test with its duration limit; roundtrips have none.
Passes(scenario, test, reply) ==
  /\ IF test.exact THEN SameResult(test.expected, reply) ELSE SameMeaning(test.expected, reply)
  /\ ~(scenario.timed /\ test.name # "roundtrip" /\ reply.slow)

-----------------------------------------------------------------------------
(* run(): adapters and files. *)

NextAdapter ==
  /\ adapterAt' = adapterAt + 1
  /\ fileAt' = 1
  /\ vecPc' = IF adapterAt = Len(suite.adapters) THEN "summary" ELSE "adapter"

NextFile ==
  IF fileAt = Len(suite.files) THEN NextAdapter
  ELSE fileAt' = fileAt + 1 /\ vecPc' = "file" /\ UNCHANGED adapterAt

\* An unknown adapter or one that does not build is a failure, and the next one
\* is taken.
StartAdapter ==
  /\ vecPc = "adapter"
  /\ IF Adapter.known /\ Adapter.builds
     THEN /\ vecPc' = "file"
          /\ UNCHANGED <<adapterAt, fileAt, results, local>>
     ELSE /\ Record(MainThread, Result(0, "build", FALSE))
          /\ NextAdapter
  /\ UNCHANGED <<suite, runnable, queued, running, step, collected, versionSkips,
                 capabilitySkips, verdict>>

SkipMissingFile ==
  /\ vecPc = "file"
  /\ ~File.found
  /\ NextFile
  /\ UNCHANGED <<suite, fileVars, results, versionSkips, capabilitySkips, verdict>>

Selected(i) == Adapter.name \in Scenario(i).adapters /\ Scenario(i).tagged
Applies(i) == Selected(i) /\ Scenario(i).version

\* load_vector() or a version constraint raises before any scenario runs.
LoadFails ==
  /\ vecPc = "file"
  /\ File.found
  /\ ~File.valid
  /\ vecPc' = "crash"
  /\ UNCHANGED <<suite, adapterAt, fileAt, fileVars, results, versionSkips, capabilitySkips,
                 verdict>>

\* run_vector_file(): filters, then skips the file if the adapter lacks its
\* operation, and starts the pool otherwise.
StartFile ==
  /\ vecPc = "file"
  /\ File.found
  /\ File.valid
  /\ LET indices == 1..Len(File.scenarios)
         left == {i \in indices : Applies(i)}
         skipped == {i \in indices : Selected(i) /\ ~Scenario(i).version}
     IN /\ versionSkips' = versionSkips + Cardinality(skipped)
        /\ IF File.operation \notin Adapter.capabilities
           THEN /\ capabilitySkips' = IF left = {} THEN capabilitySkips
                                      ELSE capabilitySkips \cup {<<adapterAt, fileAt>>}
                /\ NextFile
                /\ UNCHANGED fileVars
           ELSE /\ runnable' = left
                /\ queued' = {i \in left : ~Scenario(i).timed}
                /\ collected' = [i \in 1..Len(File.scenarios) |-> NoList]
                /\ vecPc' = "pool"
                /\ UNCHANGED <<running, step, local, capabilitySkips, adapterAt, fileAt>>
  /\ UNCHANGED <<suite, results, verdict>>

-----------------------------------------------------------------------------
(* _run_scenarios(). *)

\* Threads that run untimed scenarios: the pool, or the main thread when there
\* is one job or one scenario.
PoolThreads ==
  IF Cardinality(Workers) > 1 /\ Cardinality({i \in runnable : ~Scenario(i).timed}) > 1
  THEN Workers ELSE {MainThread}

\* run_one(): the thread gets an empty list of its own.
StartScenario(t, i) ==
  /\ running[t] = 0
  /\ running' = [running EXCEPT ![t] = i]
  /\ step' = [step EXCEPT ![t] = 0]
  /\ local' = [local EXCEPT ![t] = List(<<>>)]

\* The scenarios that wait are started in their order.
StartNext(t) ==
  \E i \in {i \in queued : \A j \in queued : i <= j} :
    /\ StartScenario(t, i)
    /\ queued' = queued \ {i}

HasRaised == \E i \in 1..Len(collected) : collected[i] = Raised
Idle == \A t \in VectorThreads : running[t] = 0

TakeScenario(t) ==
  /\ vecPc = "pool"
  /\ t \in PoolThreads
  /\ t = MainThread => ~HasRaised
  /\ StartNext(t)
  /\ UNCHANGED <<suite, vecPc, adapterAt, fileAt, runnable, collected, results, versionSkips,
                 capabilitySkips, verdict>>

\* _run_scenario(): the next test of the scenario and its reply.
RunTest(t) ==
  /\ running[t] # 0
  /\ ~Scenario(running[t]).raises
  /\ step[t] < Len(Scenario(running[t]).tests)
  /\ \E reply \in Replies :
       LET scenario == Scenario(running[t])
           test == scenario.tests[step[t] + 1]
       IN Record(t, Result(running[t], step[t] + 1, Passes(scenario, test, reply)))
  /\ step' = [step EXCEPT ![t] = @ + 1]
  /\ UNCHANGED <<suite, vecPc, adapterAt, fileAt, runnable, queued, running, collected,
                 versionSkips, capabilitySkips, verdict>>

\* Mutant: the thread's list stays behind.
DropListNever(t) == UNCHANGED local

\* The finally of run_one(): del self._local.results.
DropList(t) == local' = [local EXCEPT ![t] = NoList]

EndScenario(t) ==
  /\ running[t] # 0
  /\ ~Scenario(running[t]).raises
  /\ step[t] = Len(Scenario(running[t]).tests)
  /\ collected' = [collected EXCEPT ![running[t]] = local[t]]
  /\ running' = [running EXCEPT ![t] = 0]
  /\ DropList(t)
  /\ UNCHANGED <<suite, vecPc, adapterAt, fileAt, runnable, queued, step, results, versionSkips,
                 capabilitySkips, verdict>>

\* The exception is kept for the main thread.
ScenarioRaises(t) ==
  /\ running[t] # 0
  /\ Scenario(running[t]).raises
  /\ collected' = [collected EXCEPT ![running[t]] = Raised]
  /\ running' = [running EXCEPT ![t] = 0]
  /\ DropList(t)
  /\ UNCHANGED <<suite, vecPc, adapterAt, fileAt, runnable, queued, step, results,
                 versionSkips, capabilitySkips, verdict>>

\* The main thread takes results in order; the first exception cancels what the
\* pool has not started. What runs is waited for.
CancelQueued ==
  /\ vecPc = "pool"
  /\ queued # {}
  /\ HasRaised
  /\ LET first == CHOOSE i \in 1..Len(collected) :
                    collected[i] = Raised /\ \A j \in 1..(i - 1) : collected[j] # Raised
     IN \A t \in VectorThreads : running[t] # 0 => running[t] > first
  /\ queued' = {}
  /\ UNCHANGED <<suite, vecPc, adapterAt, fileAt, runnable, running, step, local, collected,
                 results, versionSkips, capabilitySkips, verdict>>

\* The pool is done; the timed scenarios follow in the main thread.
EndPool ==
  /\ vecPc = "pool"
  /\ queued = {}
  /\ Idle
  /\ vecPc' = IF HasRaised THEN "crash" ELSE "timed"
  /\ queued' = {i \in runnable : Scenario(i).timed}
  /\ UNCHANGED <<suite, adapterAt, fileAt, runnable, running, step, local, collected, results,
                 versionSkips, capabilitySkips, verdict>>

TakeTimed ==
  /\ vecPc = "timed"
  /\ ~HasRaised
  /\ StartNext(MainThread)
  /\ UNCHANGED <<suite, vecPc, adapterAt, fileAt, runnable, collected, results, versionSkips,
                 capabilitySkips, verdict>>

\* results.extend() in scenario order.
InOrder[n \in 0..Len(collected)] ==
  IF n = 0 THEN <<>>
  ELSE InOrder[n - 1] \o collected[n].items

EndFile ==
  /\ vecPc = "timed"
  /\ Idle
  /\ \/ /\ HasRaised
        /\ vecPc' = "crash"
        /\ UNCHANGED <<adapterAt, fileAt, results>>
     \/ /\ ~HasRaised
        /\ queued = {}
        /\ results' = results \o InOrder[Len(collected)]
        /\ NextFile
  /\ UNCHANGED <<suite, fileVars, versionSkips, capabilitySkips, verdict>>

\* The except of run(): the file is a failure of the runner.
RecordCrash ==
  /\ vecPc = "crash"
  /\ Record(MainThread, Result(0, "runner", FALSE))
  /\ NextFile
  /\ UNCHANGED <<suite, runnable, queued, running, step, collected, versionSkips,
                 capabilitySkips, verdict>>

\* A run without a single check is a failure.
Summarize ==
  /\ vecPc = "summary"
  /\ vecPc' = "done"
  /\ IF results = <<>>
     THEN Record(MainThread, Result(0, "no_checks", FALSE))
     ELSE UNCHANGED <<results, local>>
  /\ verdict' = IF results # <<>> /\ \A i \in 1..Len(results) : results[i].passed
                THEN "pass" ELSE "fail"
  /\ UNCHANGED <<suite, adapterAt, fileAt, runnable, queued, running, step, collected,
                 versionSkips, capabilitySkips>>

VecNext ==
  \/ StartAdapter \/ SkipMissingFile \/ LoadFails \/ StartFile
  \/ CancelQueued \/ EndPool \/ TakeTimed \/ EndFile \/ RecordCrash \/ Summarize
  \/ \E t \in VectorThreads : \/ TakeScenario(t) \/ RunTest(t)
                              \/ EndScenario(t) \/ ScenarioRaises(t)

VecSpec == VecInit /\ [][VecNext]_vecVars

-----------------------------------------------------------------------------

Ran(a, f, i, n) ==
  \E r \in 1..Len(results) : /\ results[r].adapter = a
                             /\ results[r].file = f
                             /\ results[r].scenario = i
                             /\ results[r].test = n

Wanted(a, f, i) ==
  LET s == suite.files[f].scenarios[i]
  IN suite.adapters[a].name \in s.adapters /\ s.tagged /\ s.version

\* A green run has run everything: every adapter asked for was known and built,
\* every test of every scenario that the filters select for an adapter has a
\* result, unless its file is reported as skipped for a missing capability.
GreenRunsAreComplete ==
  verdict = "pass" =>
    \A a \in 1..Len(suite.adapters) :
      /\ suite.adapters[a].known /\ suite.adapters[a].builds
      /\ \A f \in 1..Len(suite.files) : suite.files[f].found =>
           /\ suite.files[f].valid
           /\ \A i \in 1..Len(suite.files[f].scenarios) : Wanted(a, f, i) =>
                \/ <<a, f>> \in capabilitySkips
                \/ \A n \in 1..Len(suite.files[f].scenarios[i].tests) : Ran(a, f, i, n)

Before(r, s) ==
  \/ r.adapter < s.adapter
  \/ r.adapter = s.adapter /\ r.file < s.file
  \/ r.adapter = s.adapter /\ r.file = s.file /\ r.scenario < s.scenario
  \/ r.adapter = s.adapter /\ r.file = s.file /\ r.scenario = s.scenario
     /\ r.scenario # 0 /\ r.test < s.test

\* Results stand in the order of adapters, files, scenarios and tests, each
\* once, whatever order the threads finish in.
ResultsInScenarioOrder ==
  \A i, j \in 1..Len(results) : i < j => Before(results[i], results[j])
=============================================================================
