------------------------------ MODULE Workflows ------------------------------
(***************************************************************************)
(* The programs of the conformance workflows and the audit, side by side.  *)
(* Each of them is a job on a runner of its own with its own checkout,     *)
(* adapters and ports, and they share nothing: a behaviour is therefore    *)
(* one job, chosen at first, and the others stay as they start.            *)
(***************************************************************************)
EXTENDS DiffFuzz, VectorRunner, FlowRunner, PairRunner, TempoRunner, TempoSdk, AuditFindings

VARIABLE job       \* the job of this behaviour

WorkflowJobs ==
    {"fuzz", "vectors", "flows", "pairs", "tempo", "sdk", "audit"}

workVars == <<job, fuzzVars, vecVars, flowVars, pairVars, tempoVars, sdkVars, auditVars>>

First(set) == CHOOSE x \in set : TRUE

(* A job starts in any of its initial states, the others in one of theirs. *)
WorkInit ==
    /\ job \in WorkflowJobs
    /\ \E b \in Budgets : FuzzStart(b) /\ (job = "fuzz" \/ b = First(Budgets))
    /\ \E s \in Suites : VecStart(s) /\ (job = "vectors" \/ s = First(Suites))
    /\ \E o \in GoldenOrders, n \in BOOLEAN :
        FlowStart(o, n) /\ (job = "flows" \/ (o = First(GoldenOrders) /\ n))
    /\ \E a \in Asked, f \in ScenarioFiles :
        PairStart(a, f) /\ (job = "pairs" \/ (a = First(Asked) /\ f = First(ScenarioFiles)))
    /\ \E s \in TempoSuites : TempoStart(s) /\ (job = "tempo" \/ s = First(TempoSuites))
    /\ SdkInit
    /\ \E d \in FirstDrifts : AuditStart(d) /\ (job = "audit" \/ d = First(FirstDrifts))

Fuzzing   == job = "fuzz" /\ FuzzNext
              /\ UNCHANGED <<job, vecVars, flowVars, pairVars, tempoVars, sdkVars, auditVars>>
Vectors   == job = "vectors" /\ VecNext
              /\ UNCHANGED <<job, fuzzVars, flowVars, pairVars, tempoVars, sdkVars, auditVars>>
Flows     == job = "flows" /\ FlowNext
              /\ UNCHANGED <<job, fuzzVars, vecVars, pairVars, tempoVars, sdkVars, auditVars>>
Pairs     == job = "pairs" /\ PairNext
              /\ UNCHANGED <<job, fuzzVars, vecVars, flowVars, tempoVars, sdkVars, auditVars>>
Tempo     == job = "tempo" /\ TempoNext
              /\ UNCHANGED <<job, fuzzVars, vecVars, flowVars, pairVars, sdkVars, auditVars>>
Sdk       == job = "sdk" /\ SdkNext
              /\ UNCHANGED <<job, fuzzVars, vecVars, flowVars, pairVars, tempoVars, auditVars>>
Auditing  == job = "audit" /\ AuditNext
              /\ UNCHANGED <<job, fuzzVars, vecVars, flowVars, pairVars, tempoVars, sdkVars>>

(* The test programs, which run to their end by themselves.                *)
RunnerStep == Fuzzing \/ Vectors \/ Flows \/ Pairs \/ Tempo

WorkNext == RunnerStep \/ Sdk \/ Auditing

(* A runner goes on until its program ends.                                *)
WorkSpec ==
    /\ WorkInit /\ [][WorkNext]_workVars
    /\ WF_workVars(RunnerStep)

(* The two waits for an adapter that have no timeout: for the leader to    *)
(* end after the end of its output, and for the rest of the first line of  *)
(* a server.                                                               *)
WaitsUntimed ==
    \/ job = "fuzz" /\ \E s \in Sessions : WaitsForExit(s)
    \/ job = "pairs" /\ \E j \in Jobs : thread[j].at = "stalled"

=============================================================================
