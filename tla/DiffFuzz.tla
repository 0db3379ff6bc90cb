------------------------------ MODULE DiffFuzz ------------------------------
(* conformance/scripts/diff_fuzz.py: the fuzzer sends generated inputs to all
   adapters at once and compares their answers with those of the reference
   adapter. Each chunk records at most one divergence of a new kind.

   A value is the set of fields in which it deviates from a common shape, so
   that two values differ in the symmetric difference. An answer has a class,
   "ok", "error" (a declared one) or "invalid" (an undeclared error or a value
   that fails its schema), and a value.                                       *)
EXTENDS AdapterSession, FiniteSets, SequencesExt

CONSTANTS Reference,      \* the adapter the others are compared with
          ParseCapable,   \* the adapters that declare the parse operation
          Allowlist,      \* entries: sets of adapters, operations, kinds, fields
          Budgets,        \* bounds: faults, examples and chunks of a run
          AnyField        \* the fields of an entry without a fields list

ASSUME FuzzAssumption ==
  /\ Reference \in Sessions
  /\ \A a \in Answers : a.class \in {"ok", "error", "invalid"}
  /\ \A b \in Budgets : b.faults \in Nat

VARIABLES
  fuzzPc,      \* "chunk", "check", "reparse", "body", "closing" or "closed"
  operation,   \* "format" or "parse": what the check under way runs
  attempt,     \* attempt[s]: 0 or 1, as in _call
  outcomes,    \* outcomes[s]: what the check made of the answer of s
  failed,      \* failed[s]: the processes of s that failed in the check under way
  unparsed,    \* adapters whose header the reference has yet to parse
  divergences, \* of the input under way
  pinned,      \* the signature the chunk is shrinking, or NoSignature
  last,        \* the last divergence with it
  findings,    \* divergences reported so far
  examples,    \* examples Hypothesis may still try
  chunks       \* chunks left

checkVars == <<operation, attempt, outcomes, failed, unparsed>>
chunkVars == <<divergences, pinned, last, findings, examples, chunks>>
fuzzVars == <<fuzzPc, checkVars, chunkVars, sessionVars>>

NoOutcome == [class |-> "none", value |-> {}]
NoSignature == [adapter |-> Reference, kind |-> "none", fields |-> {}, operation |-> "none"]

FuzzStart(budget) ==
  /\ fuzzPc = "chunk"
  /\ operation = "format"
  /\ attempt = [s \in Sessions |-> 0]
  /\ outcomes = [s \in Sessions |-> NoOutcome]
  /\ failed = [s \in Sessions |-> {}]
  /\ unparsed = {}
  /\ divergences = {}
  /\ pinned = NoSignature
  /\ last = NoSignature
  /\ findings = <<>>
  /\ examples = budget.examples
  /\ chunks = budget.chunks
  /\ SessionInit(budget.faults)

FuzzInit == \E budget \in Budgets : FuzzStart(budget)

-----------------------------------------------------------------------------
(* Pure parts. *)

\* call() and outcome(): a declared error is one whatever its type; an invalid
\* answer and an error of the session are crashes, whose value is the cause.
Outcome(answer) ==
  IF answer.class \in {"ok", "error"} THEN answer
  ELSE [class |-> "crash", value |-> {answer.class}]

\* classify() and diff_fields(): the kind of a divergence and its fields.
Classify(reference, actual) ==
  LET kind == CASE {reference.class, actual.class} \in {{"crash"}, {"error"}} -> "none"
                [] reference.class # "crash" /\ actual.class = "crash" -> "crash"
                [] reference.class = "crash" /\ actual.class # "crash" -> "reference_crash"
                [] reference.class = "error" /\ actual.class = "ok" -> "accepts"
                [] reference.class = "ok" /\ actual.class = "error" -> "rejects"
                [] reference.class = "ok" /\ actual.class = "ok" ->
                     IF reference.value # actual.value THEN "value" ELSE "none"
  IN [kind |-> kind,
      fields |-> IF kind = "value"
                 THEN (reference.value \ actual.value) \cup (actual.value \ reference.value)
                 ELSE {}]

Matches(entry, d) ==
  /\ d.adapter \in entry.adapters
  /\ d.operation \in entry.operations
  /\ d.kind \in entry.kinds
  /\ entry.fields = AnyField \/ d.fields \subseteq entry.fields

\* find_allowlisted(): an entry accepts the divergence, or each of its fields
\* has one that accepts it alone.
Allowlisted(d) ==
  \/ \E entry \in Allowlist : Matches(entry, d)
  \/ /\ d.kind = "value"
     /\ Cardinality(d.fields) >= 2
     /\ \A f \in d.fields : \E entry \in Allowlist : Matches(entry, [d EXCEPT !.fields = {f}])

Known == {findings[i] : i \in 1..Len(findings)}

-----------------------------------------------------------------------------
(* check(): one call per adapter at a time, through the thread pool. *)

Names == IF operation = "parse" THEN ParseCapable ELSE Sessions

StartExample ==
  /\ fuzzPc = "chunk"
  /\ examples > 0
  /\ fuzzPc' = "check"
  /\ operation' = "format"
  /\ examples' = examples - 1
  /\ divergences' = {}
  /\ UNCHANGED <<attempt, outcomes, failed, unparsed, pinned, last, findings, chunks,
                 sessionVars>>

Submit(s) ==
  /\ BeginExchange(s)
  /\ UNCHANGED <<fuzzPc, checkVars, chunkVars>>

\* _call() in a thread of the pool.
SubmitWorker(s) ==
  /\ fuzzPc = "check"
  /\ s \in Names
  /\ outcomes[s] = NoOutcome
  /\ Submit(s)

SessionFailed(s) == response[s] \in {TimedOut, ProcessFailed}

\* Mutant: a failed call is believed at once.
GivesUpAtOnce(s) == TRUE

\* _call(): a timeout or a dead process gets one retry on a fresh process.
GivesUp(s) == attempt[s] = 1 \/ ~SessionFailed(s)

\* A call of s returned: it is tried again, or its outcome goes to name n and
\* the next _call() has two attempts of its own.
Returned(s, n, result) ==
  /\ EndExchange(s)
  /\ failed' = IF SessionFailed(s) THEN [failed EXCEPT ![s] = @ \cup {Len(processes[s])}]
               ELSE failed
  /\ attempt' = [attempt EXCEPT ![s] = IF GivesUp(s) THEN 0 ELSE 1]
  /\ outcomes' = IF GivesUp(s) THEN [outcomes EXCEPT ![n] = result] ELSE outcomes
  /\ UNCHANGED <<operation, chunkVars>>

WorkerReturns(s) ==
  /\ fuzzPc = "check"
  /\ Returned(s, s, Outcome(response[s].says))
  /\ UNCHANGED <<fuzzPc, unparsed>>

\* All futures are in. Headers are compared by what the reference parses them to.
AllReturned ==
  /\ fuzzPc = "check"
  /\ \A s \in Names : outcomes[s] # NoOutcome
  /\ fuzzPc' = "reparse"
  /\ unparsed' = IF operation = "parse" THEN {} ELSE {s \in Names : outcomes[s].class = "ok"}
  /\ UNCHANGED <<operation, attempt, outcomes, failed, chunkVars, sessionVars>>

\* _outcome(): the main thread uses the session of the reference.
SubmitReparse ==
  /\ fuzzPc = "reparse"
  /\ unparsed # {}
  /\ Submit(Reference)

ReparseReturns ==
  /\ fuzzPc = "reparse"
  /\ LET n == CHOOSE s \in unparsed : TRUE
         parsed == Outcome(response[Reference].says)
         value == IF parsed.class = "ok" THEN parsed.value ELSE {"unparseable"} \cup outcomes[n].value
     IN /\ Returned(Reference, n, [class |-> "ok", value |-> value])
        /\ unparsed' = IF GivesUp(Reference) THEN unparsed \ {n} ELSE unparsed
  /\ UNCHANGED fuzzPc

Found ==
  {[adapter |-> s, operation |-> operation] @@ Classify(outcomes[Reference], outcomes[s]) :
     s \in Names \ {Reference}}

\* The divergences of this check. A header of the reference is then parsed by
\* all adapters, in a check of its own.
Compare ==
  /\ fuzzPc = "reparse"
  /\ unparsed = {}
  /\ divergences' = divergences \cup {d \in Found : d.kind # "none"}
  /\ IF operation = "format" /\ outcomes[Reference].class = "ok"
     THEN operation' = "parse" /\ fuzzPc' = "check"
     ELSE fuzzPc' = "body" /\ UNCHANGED operation
  /\ attempt' = [s \in Sessions |-> 0]
  /\ failed' = [s \in Sessions |-> {}]
  /\ outcomes' = [s \in Sessions |-> NoOutcome]
  /\ UNCHANGED <<unparsed, pinned, last, findings, examples, chunks, sessionVars>>

-----------------------------------------------------------------------------
(* run_chunk(). *)

\* Mutant: shrinking takes any divergence.
FreshUnpinned == {d \in divergences : pinned = NoSignature => ~Allowlisted(d) /\ d \notin Known}

\* The divergences that make the example fail: new ones, and once the chunk
\* shrinks one, only those with its signature.
FreshDivergences ==
  {d \in divergences : /\ ~Allowlisted(d)
                       /\ d \notin Known
                       /\ pinned # NoSignature => d = pinned}

\* The body of the test.
Judge ==
  /\ fuzzPc = "body"
  /\ fuzzPc' = "chunk"
  /\ IF FreshDivergences = {}
     THEN UNCHANGED <<pinned, last>>
     ELSE \E d \in FreshDivergences : pinned' = d /\ last' = d
  /\ divergences' = {}
  /\ UNCHANGED <<checkVars, findings, examples, chunks, sessionVars>>

\* Hypothesis has seen enough examples, or the time to shrink is over.
EndChunk ==
  /\ fuzzPc = "chunk"
  /\ findings' = IF last = NoSignature THEN findings ELSE Append(findings, last)
  /\ pinned' = NoSignature
  /\ last' = NoSignature
  /\ chunks' = chunks - 1
  /\ fuzzPc' = IF chunks = 1 THEN "closing" ELSE "chunk"
  /\ UNCHANGED <<checkVars, divergences, examples, sessionVars>>

\* close(): the sessions, one after the other.
Close ==
  /\ fuzzPc = "closing"
  /\ IF \A s \in Sessions : process[s] = 0
     THEN fuzzPc' = "closed" /\ UNCHANGED sessionVars
     ELSE \E s \in Sessions : process[s] # 0 /\ CloseSession(s) /\ UNCHANGED fuzzPc
  /\ UNCHANGED <<checkVars, chunkVars>>

FuzzNext ==
  \/ StartExample \/ AllReturned \/ SubmitReparse \/ ReparseReturns \/ Compare
  \/ Judge \/ EndChunk \/ Close
  \/ \E s \in Sessions : SubmitWorker(s) \/ WorkerReturns(s)
  \/ /\ \E s \in Sessions : SessionStep(s) \/ AdapterStep(s)
     /\ UNCHANGED <<fuzzPc, checkVars, chunkVars>>

FuzzSpec == FuzzInit /\ [][FuzzNext]_fuzzVars

-----------------------------------------------------------------------------

\* An adapter counts as crashed by a timeout or a dead process only after two
\* different processes failed on the same input.
CrashesAreConfirmed ==
  \A s \in Sessions :
     outcomes[s].class = "crash" /\ outcomes[s].value # {"invalid"} =>
       Cardinality(failed[s]) >= 2

\* Every finding is new and not on the allowlist, also after shrinking went
\* through other divergences.
FindingsAreNew ==
  /\ \A i, j \in 1..Len(findings) : findings[i] = findings[j] => i = j
  /\ \A i \in 1..Len(findings) : ~Allowlisted(findings[i])

=============================================================================
