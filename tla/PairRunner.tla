----------------------------- MODULE PairRunner -----------------------------
(* conformance/scripts/pair_runner.py: main() runs every scenario with every
   pair of a client and a server adapter, several pairs at a time. A scenario
   starts the server on a port of the pool, sends its steps in order, stops the
   server and is compared with the snapshot that the TypeScript pair recorded.

   A step's outcome is the set of fields in which it differs from its snapshot.
   An expected failure of a scenario names steps and, unless it excuses any
   difference (AllFields), the fields that may differ.                        *)
EXTENDS Naturals, Sequences, FiniteSets, SequencesExt

CONSTANTS PairAdapters,   \* [name, client, server, builds]
          PairReference,  \* the name of the TypeScript adapter
          Asked,          \* what --adapter may be: names or "all"
          Jobs,           \* threads
          ScenarioFiles,  \* what pairs/scenarios.json may hold
          Fields,         \* fields of a snapshot
          PoolSize,       \* ports of the pool
          AllowXpass,     \* --allow-xpass
          MaxOdd          \* how many starts and steps may go other than recorded

AllFields == Fields \cup {"any"}

\* pair-scenarios.schema.json.
PairStep == [name : STRING, kind : {"request", "pay"}, ref : STRING]
ExpectedFailure ==
  [client : STRING, server : STRING, steps : SUBSET STRING, fields : SUBSET AllFields]

ASSUME PairAssumption ==
  /\ IsFiniteSet(PairAdapters)
  /\ ScenarioFiles \subseteq Seq([name : STRING, steps : Seq(PairStep), snapshot : BOOLEAN,
                                  expectedFailures : SUBSET ExpectedFailure])
  /\ MaxOdd \in Nat /\ PoolSize \in Nat \ {0}

VARIABLES
  underTest,   \* --adapter
  scenarios,   \* the scenarios of this run
  pairPc,      \* "load", "pool" or "done"
  pairQueue,   \* pairs no thread has taken
  nextPort,    \* PortPool.next
  thread,      \* thread[j]: the pair and the scenario under way
  pairResults, \* of all pairs so far
  odd,         \* starts and steps that went other than recorded
  pairExit

pairVars == <<underTest, scenarios, pairPc, pairQueue, nextPort, thread, pairResults, odd,
              pairExit>>
callVars == <<underTest, scenarios>>

NoPair == [client |-> "", server |-> ""]
IdleThread == [pair |-> NoPair, scenario |-> 0, at |-> "idle", taken |-> 0, live |-> FALSE,
               ran |-> <<>>, error |-> "none"]

PairStart(asked, file) ==
  /\ underTest = asked
  /\ scenarios = file
  /\ pairPc = "load"
  /\ pairQueue = <<>>
  /\ nextPort = 0
  /\ thread = [j \in Jobs |-> IdleThread]
  /\ pairResults = {}
  /\ odd = 0
  /\ pairExit = 0

PairInit == \E asked \in Asked, file \in ScenarioFiles : PairStart(asked, file)

-----------------------------------------------------------------------------
(* Scenarios and pairs. *)

\* A replay or a credential takes the headers or the response of an earlier
\* request step.
RefersToRequest(steps, n) ==
  steps[n].ref # "" =>
    \E m \in 1..(n - 1) : steps[m].name = steps[n].ref /\ steps[m].kind = "request"

\* load_scenarios(), with the schema it validates against.
Loads(file) ==
  /\ file # <<>>
  /\ \A i, j \in 1..Len(file) : i # j => file[i].name # file[j].name
  /\ \A i \in 1..Len(file) :
       LET steps == file[i].steps
           names == {steps[n].name : n \in 1..Len(steps)}
       IN /\ Cardinality(names) = Len(steps)
          /\ \A n \in 1..Len(steps) : RefersToRequest(steps, n)
          /\ \A entry \in file[i].expectedFailures : entry.steps \subseteq names

\* select_pairs().
SelectPairs ==
  {p \in [client : {a.name : a \in {a \in PairAdapters : a.client}},
          server : {a.name : a \in {a \in PairAdapters : a.server}}] :
     underTest # "all" =>
       /\ underTest \in {p.client, p.server}
       /\ {p.client, p.server} \subseteq {underTest, PairReference}}

Builds(p) == \A a \in PairAdapters : a.name \in {p.client, p.server} => a.builds

-----------------------------------------------------------------------------
(* compare(). *)

ExpectedEntries(scenario, p) ==
  {e \in scenario.expectedFailures : e.client \in {"*", p.client} /\ e.server \in {"*", p.server}}

StepNames(scenario, n) == {scenario.steps[m].name : m \in 1..n}

\* Mutant: one entry with fields excuses the whole step.
UnexpectedStep(entries, step, fields, errored) ==
  LET covering == {e \in entries : step \in e.steps}
  IN IF covering = {} THEN fields # {} \/ errored ELSE FALSE

\* A difference that no entry covers: an entry without fields covers the whole
\* step, others their fields of a step that did not raise.
Unexpected(entries, step, fields, errored) ==
  LET covering == {e \in entries : step \in e.steps}
      excused == UNION {e.fields : e \in covering}
  IN IF \E e \in covering : e.fields = AllFields THEN FALSE
     ELSE errored \/ fields \ excused # {}

\* ran: what the steps that ran differ in; raised: whether the next one raised.
ComparePair(scenario, p, ran, raised) ==
  LET entries == ExpectedEntries(scenario, p)
      steps == Len(ran) + (IF raised THEN 1 ELSE 0)
      name(n) == scenario.steps[n].name
      fields(n) == IF n <= Len(ran) THEN ran[n] ELSE {}
      errored(n) == n > Len(ran)
      confirmed(e) == \E n \in 1..steps :
        name(n) \in e.steps /\ (errored(n) \/ fields(n) \cap e.fields # {})
      stale == {e \in entries : e.steps \subseteq StepNames(scenario, steps) /\ ~confirmed(e)}
  IN IF ~scenario.snapshot THEN "fail"
     ELSE IF \E n \in 1..steps : Unexpected(entries, name(n), fields(n), errored(n)) THEN "fail"
     ELSE IF stale # {} THEN "xpass"
     ELSE IF \E n \in 1..steps : errored(n) \/ fields(n) # {} THEN "xfail"
     ELSE "pass"

-----------------------------------------------------------------------------
(* main() and run_pair(). *)

StartPool ==
  /\ pairPc = "load"
  /\ Loads(scenarios)
  /\ SelectPairs # {} \/ underTest = "all"
  /\ pairPc' = "pool"
  /\ pairQueue' = SetToSeq(SelectPairs)
  /\ UNCHANGED <<callVars, nextPort, thread, pairResults, odd, pairExit>>

\* The file is not valid: an exception. An adapter without the capabilities of
\* either side has nothing to run.
EndEarly ==
  /\ pairPc = "load"
  /\ \/ ~Loads(scenarios) /\ pairExit' = 1
     \/ Loads(scenarios) /\ SelectPairs = {} /\ underTest # "all" /\ pairExit' = 0
  /\ pairPc' = "done"
  /\ UNCHANGED <<callVars, pairQueue, nextPort, thread, pairResults, odd>>

Outcome4(p, i, status, ran, error) ==
  [pair |-> p, scenario |-> i, status |-> status, ran |-> ran, error |-> error]

TakePair(j) ==
  /\ pairPc = "pool"
  /\ thread[j].at = "idle"
  /\ pairQueue # <<>>
  /\ pairQueue' = Tail(pairQueue)
  /\ LET p == Head(pairQueue) IN
     IF Builds(p)
     THEN /\ thread' = [thread EXCEPT ![j].pair = p, ![j].scenario = 1, ![j].at = "port"]
          /\ UNCHANGED pairResults
     ELSE /\ pairResults' = pairResults \cup {Outcome4(p, i, "fail", <<>>, "build") :
                                                i \in 1..Len(scenarios)}
          /\ UNCHANGED thread
  /\ UNCHANGED <<callVars, pairPc, nextPort, odd, pairExit>>

\* Mutant: two threads may read the same counter.
TakenWithoutLock == nextPort' \in {nextPort, nextPort + 1}

\* PortPool.take(), under its lock.
Taken == nextPort' = nextPort + 1

TakePort(j) ==
  /\ thread[j].at = "port"
  /\ Taken
  /\ thread' = [thread EXCEPT ![j].taken = nextPort, ![j].at = "start"]
  /\ UNCHANGED <<callVars, pairPc, pairQueue, pairResults, odd, pairExit>>

Port(j) == thread[j].taken % PoolSize
PortInUse(j) == \E k \in Jobs : k # j /\ thread[k].live /\ Port(k) = Port(j)

\* AdapterClient.start() returns a process if and only if the server is ready.
ServerStarts(j) ==
  /\ thread[j].at = "start"
  /\ ~PortInUse(j)
  /\ thread' = [thread EXCEPT ![j].live = TRUE, ![j].at = "steps"]
  /\ UNCHANGED <<callVars, pairPc, pairQueue, nextPort, pairResults, odd, pairExit>>

ServerFails(j) ==
  /\ thread[j].at = "start"
  /\ \/ PortInUse(j) /\ UNCHANGED odd
     \/ odd < MaxOdd /\ odd' = odd + 1
  /\ \E error \in {"unsupported_operation", "start"} :
       /\ PortInUse(j) => error = "start"
       /\ thread' = [thread EXCEPT ![j].error = error, ![j].at = "compare"]
  /\ UNCHANGED <<callVars, pairPc, pairQueue, nextPort, pairResults, pairExit>>

\* start() waits for the first byte of the adapter's answer with a timeout, and
\* for the rest of the line without one.
ServerStalls(j) ==
  /\ thread[j].at = "start"
  /\ odd < MaxOdd
  /\ odd' = odd + 1
  /\ thread' = [thread EXCEPT ![j].at = "stalled"]
  /\ UNCHANGED <<callVars, pairPc, pairQueue, nextPort, pairResults, pairExit>>

PairScenario(j) == scenarios[thread[j].scenario]
StepNo(j) == Len(thread[j].ran) + 1

\* The headers and responses that the steps before this one left.
Sent(j) == {PairScenario(j).steps[m].name :
              m \in {m \in 1..Len(thread[j].ran) : PairScenario(j).steps[m].kind = "request"}}
Dangling(j) == PairScenario(j).steps[StepNo(j)].ref \notin Sent(j) \cup {""}

RunStep(j) ==
  /\ thread[j].at = "steps"
  /\ StepNo(j) <= Len(PairScenario(j).steps)
  /\ ~Dangling(j)
  /\ \E differing \in SUBSET Fields :
       /\ thread' = [thread EXCEPT ![j].ran = Append(@, differing)]
       /\ IF differing = {} THEN UNCHANGED odd ELSE odd < MaxOdd /\ odd' = odd + 1
  /\ UNCHANGED <<callVars, pairPc, pairQueue, nextPort, pairResults, pairExit>>

\* A step that raises ends the scenario with the steps before it; stopping the
\* server is the finally of run_scenario().
StepRaises(j) ==
  /\ thread[j].at = "steps"
  /\ StepNo(j) <= Len(PairScenario(j).steps)
  /\ IF Dangling(j) THEN UNCHANGED odd ELSE odd < MaxOdd /\ odd' = odd + 1
  /\ thread' = [thread EXCEPT ![j].error = IF Dangling(j) THEN "KeyError" ELSE "step",
                              ![j].live = FALSE,
                              ![j].at = "compare"]
  /\ UNCHANGED <<callVars, pairPc, pairQueue, nextPort, pairResults, pairExit>>

StepsDone(j) ==
  /\ thread[j].at = "steps"
  /\ StepNo(j) > Len(PairScenario(j).steps)
  /\ thread' = [thread EXCEPT ![j].live = FALSE, ![j].at = "compare"]
  /\ UNCHANGED <<callVars, pairPc, pairQueue, nextPort, pairResults, odd, pairExit>>

\* The result of the scenario; the pair goes on with the next one.
EndScenarioRun(j) ==
  /\ thread[j].at = "compare"
  /\ LET t == thread[j]
         status == CASE t.error = "unsupported_operation" -> "skip"
                     [] t.error = "start" -> "fail"
                     [] OTHER -> ComparePair(PairScenario(j), t.pair, t.ran, t.error # "none")
         more == t.scenario < Len(scenarios)
     IN /\ pairResults' = pairResults \cup {Outcome4(t.pair, t.scenario, status, t.ran, t.error)}
        /\ thread' = [thread EXCEPT ![j] =
             IF more THEN [IdleThread EXCEPT !.pair = t.pair, !.scenario = t.scenario + 1,
                                             !.at = "port"]
             ELSE IdleThread]
  /\ UNCHANGED <<callVars, pairPc, pairQueue, nextPort, odd, pairExit>>

IsFailure(r) == r.status = "fail" \/ (r.status = "xpass" /\ ~AllowXpass)

ReportPairs ==
  /\ pairPc = "pool"
  /\ pairQueue = <<>>
  /\ \A j \in Jobs : thread[j].at = "idle"
  /\ pairPc' = "done"
  /\ pairExit' = IF (\A r \in pairResults : r.status = "skip")
                    \/ (\E r \in pairResults : IsFailure(r)) THEN 1 ELSE 0
  /\ UNCHANGED <<callVars, pairQueue, nextPort, thread, pairResults, odd>>

PairNext ==
  \/ StartPool \/ EndEarly \/ ReportPairs
  \/ \E j \in Jobs : \/ TakePair(j) \/ TakePort(j) \/ ServerStarts(j) \/ ServerFails(j)
                     \/ ServerStalls(j) \/ RunStep(j) \/ StepRaises(j) \/ StepsDone(j)
                     \/ EndScenarioRun(j)

PairSpec == PairInit /\ [][PairNext]_pairVars

-----------------------------------------------------------------------------

\* However the threads take turns, no turn of the pool is given out twice: two
\* running scenarios meet on one port only if it went round in between.
PortTurnsAreDistinct ==
  \A j, k \in Jobs :
    /\ j # k
    /\ thread[j].at \in {"start", "stalled", "steps"}
    /\ thread[k].at \in {"start", "stalled", "steps"}
    => thread[j].taken # thread[k].taken

\* Entry e excuses field f of a step, or that the step raised (f = "any").
Excuses(e, p, step, f) ==
  e.client \in {"*", p.client} /\ e.server \in {"*", p.server} /\ step \in e.steps /\ f \in e.fields

\* Exit code 0 means that every selected pair ran or skipped every scenario,
\* with at least one run unless nothing was selected, and that every difference
\* and every exception in it was announced, field by field.
GreenPairsDifferAsAnnounced ==
  pairPc = "done" /\ pairExit = 0 =>
    /\ \A p \in SelectPairs, i \in 1..Len(scenarios) :
         \E r \in pairResults : r.pair = p /\ r.scenario = i
    /\ \A r \in pairResults :
         LET scenario == scenarios[r.scenario]
             excused(n, f) == \E e \in scenario.expectedFailures :
                                Excuses(e, r.pair, scenario.steps[n].name, f)
         IN r.status # "skip" =>
              /\ \A n \in 1..Len(r.ran) : \A f \in r.ran[n] : excused(n, f)
              /\ r.error # "none" => excused(Len(r.ran) + 1, "any")
              /\ r.error = "none" => Len(r.ran) = Len(scenario.steps)
=============================================================================
