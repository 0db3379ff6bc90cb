---------------------------- MODULE RunnerProofs ----------------------------
(***************************************************************************)
(* Theorems about the runners of the conformance workflows, for any        *)
(* adapters, scenarios, threads and deviations.                            *)
(***************************************************************************)
EXTENDS Workflows, FiniteSetTheorems, FunctionTheorems, SequenceTheorems,
        WellFoundedInduction, TLAPS

(***************************************************************************)
(* pair_runner.py                                                          *)
(***************************************************************************)

(* A finite set can be listed, each element once.                          *)
LEMMA ListsAll ==
    ASSUME NEW S, IsFiniteSet(S)
    PROVE  /\ SetToSeq(S) \in Seq(S)
           /\ \A x \in S : \E n \in DOMAIN SetToSeq(S) : SetToSeq(S)[n] = x
<1> DEFINE n == Cardinality(S)
<1>1. n \in Nat
  BY FS_CardinalityType
<1>2. \E f \in [1..n -> S] : IsInjective(f)
  <2>1. PICK f \in Bijection(1..n, S) : TRUE
    BY FS_CardinalityType DEF ExistsBijection
  <2>2. f \in [1..n -> S] /\ \A a, b \in 1..n : f[a] = f[b] => a = b
    BY DEF Bijection, Injection, IsInjective
  <2> QED BY <2>2 DEF IsInjective
<1> DEFINE list == SetToSeq(S)
<1>3. list \in [1..n -> S] /\ IsInjective(list)
  BY <1>2 DEF SetToSeq
<1> HIDE DEF n, list
<1>4. list \in Injection(1..n, S)
  BY <1>3 DEF Injection
<1>5. list \in Surjection(1..n, S)
  <2>1. IsFiniteSet(1..n) /\ Cardinality(1..n) = n /\ Cardinality(S) = n
    BY <1>1, FS_Interval DEF n
  <2> QED BY <1>4, <2>1, FS_Injection
<1>6. list \in Seq(S)
  BY <1>1, <1>3
<1>7. \A x \in S : \E i \in 1..n : list[i] = x
  BY <1>5 DEF Surjection
<1> QED BY <1>3, <1>6, <1>7 DEF list

LEMMA PairsAreFinite == IsFiniteSet(SelectPairs)
<1> DEFINE Clients == {a \in PairAdapters : a.client}
           Servers == {a \in PairAdapters : a.server}
           pair == [x \in Clients \X Servers |-> [client |-> x[1].name, server |-> x[2].name]]
           ClientServer == {pair[x] : x \in Clients \X Servers}
<1>1. IsFiniteSet(Clients) /\ IsFiniteSet(Servers)
  BY PairAssumption, FS_Subset
<1>2. IsFiniteSet(Clients \X Servers)
  <2> HIDE DEF Clients, Servers
  <2> QED BY <1>1, FS_Product
<1>3. pair \in Surjection(Clients \X Servers, ClientServer)
  <2> HIDE DEF Clients, Servers
  <2> QED BY DEF Surjection
<1>4. IsFiniteSet(ClientServer)
  <2> HIDE DEF Clients, Servers, pair, ClientServer
  <2> QED BY <1>2, <1>3, FS_Surjection
<1>5. SelectPairs \subseteq ClientServer
  <2>1. ASSUME NEW p \in SelectPairs PROVE p \in ClientServer
    <3>1. PICK a \in Clients, b \in Servers : p.client = a.name /\ p.server = b.name
      BY DEF SelectPairs
    <3>2. p = [client |-> a.name, server |-> b.name]
      BY <3>1 DEF SelectPairs
    <3>3. <<a, b>> \in Clients \X Servers /\ pair[<<a, b>>] = p
      BY <3>2
    <3> QED BY <3>3
  <2> QED BY <2>1
<1> HIDE DEF ClientServer
<1> QED BY <1>4, <1>5, FS_Subset

ThreadStates ==
    [pair: SelectPairs \cup {NoPair}, scenario: Nat,
     at: {"idle", "port", "start", "stalled", "steps", "compare"}, taken: Nat, live: BOOLEAN,
     ran: Seq(SUBSET Fields),
     error: {"none", "unsupported_operation", "start", "KeyError", "step"}]

PairTypes ==
    /\ scenarios \in ScenarioFiles
    /\ pairPc \in {"load", "pool", "done"}
    /\ pairQueue \in Seq(SelectPairs)
    /\ nextPort \in Nat
    /\ thread \in [Jobs -> ThreadStates]

StepsOf(i) == scenarios[i].steps

(* A thread under way is in a scenario of its pair, and has compared       *)
(* nothing that it did not run.                                            *)
ThreadOK(t) ==
    /\ t.at # "idle" => t.pair \in SelectPairs /\ t.scenario \in 1..Len(scenarios)
    /\ t.at \in {"idle", "port", "start", "stalled", "steps"} => t.error = "none"
    /\ t.at \in {"idle", "port", "start", "stalled"} => t.ran = <<>>
    /\ t.at = "steps" => Len(t.ran) <= Len(StepsOf(t.scenario))
    /\ t.at = "compare" /\ t.error = "none" => Len(t.ran) = Len(StepsOf(t.scenario))

(* Port turns are given out in order, each to one thread.                  *)
HasTurn(j) == thread[j].at \in {"start", "stalled", "steps"}
TurnsInv ==
    /\ \A j \in Jobs : HasTurn(j) => thread[j].taken < nextPort
    /\ \A j, k \in Jobs : j # k /\ HasTurn(j) /\ HasTurn(k) => thread[j].taken # thread[k].taken

Announced(scenario, p, n, f) ==
    \E e \in scenario.expectedFailures : Excuses(e, p, scenario.steps[n].name, f)

(* A result that is no failure and no skip has only announced differences. *)
Honest(r) ==
    r.status \notin {"skip", "fail"} =>
        /\ \A n \in 1..Len(r.ran) : \A f \in r.ran[n] : Announced(scenarios[r.scenario], r.pair, n, f)
        /\ r.error # "none" => Announced(scenarios[r.scenario], r.pair, Len(r.ran) + 1, "any")
        /\ r.error = "none" => Len(r.ran) = Len(StepsOf(r.scenario))

HasResult(p, i) == \E r \in pairResults : r.pair = p /\ r.scenario = i
Ahead(t, p, i) == t.at # "idle" /\ t.pair = p /\ t.scenario <= i
InQueue(p) == \E n \in 1..Len(pairQueue) : pairQueue[n] = p

(* Every scenario of a selected pair has a result or is still to come.     *)
CoverageInv ==
    \A p \in SelectPairs, i \in 1..Len(scenarios) :
        HasResult(p, i) \/ InQueue(p) \/ \E j \in Jobs : Ahead(thread[j], p, i)

PairInv ==
    /\ PairTypes
    /\ \A j \in Jobs : ThreadOK(thread[j])
    /\ TurnsInv
    /\ \A r \in pairResults : Honest(r)
    /\ pairPc # "pool" => \A j \in Jobs : thread[j].at = "idle"
    /\ pairPc = "load" => pairResults = {}
    /\ pairPc = "pool" => scenarios # <<>> /\ CoverageInv
    /\ pairPc = "done" /\ pairExit = 0 =>
        /\ \A p \in SelectPairs, i \in 1..Len(scenarios) : HasResult(p, i)
        /\ \A r \in pairResults : r.status # "fail"

ScenarioType ==
    [name: STRING, steps: Seq(PairStep), snapshot: BOOLEAN, expectedFailures: SUBSET ExpectedFailure]

LEMMA ScenarioTypes ==
    ASSUME PairTypes
    PROVE  /\ scenarios \in Seq(ScenarioType) /\ Len(scenarios) \in Nat
           /\ \A i \in 1..Len(scenarios) :
                /\ scenarios[i] \in ScenarioType
                /\ StepsOf(i) \in Seq(PairStep) /\ Len(StepsOf(i)) \in Nat
<1>1. scenarios \in Seq(ScenarioType)
  BY PairAssumption DEF PairTypes, ScenarioType
<1>2. ASSUME NEW i \in 1..Len(scenarios)
      PROVE  /\ scenarios[i] \in ScenarioType
             /\ StepsOf(i) \in Seq(PairStep) /\ Len(StepsOf(i)) \in Nat
  <2>1. scenarios[i] \in ScenarioType
    BY <1>1, ElementOfSeq
  <2>2. StepsOf(i) \in Seq(PairStep)
    BY <2>1 DEF StepsOf, ScenarioType
  <2> QED BY <2>1, <2>2, LenProperties
<1> QED BY <1>1, <1>2, LenProperties

(* What compare() does not call a failure is announced.                    *)
LEMMA ComparedHonestly ==
    ASSUME PairTypes, NEW t \in ThreadStates, ThreadOK(t), t.at = "compare",
           t.error \notin {"unsupported_operation", "start"}
    PROVE  Honest(Outcome4(t.pair, t.scenario,
                ComparePair(scenarios[t.scenario], t.pair, t.ran, t.error # "none"),
                t.ran, t.error))
<1> DEFINE s == scenarios[t.scenario]
           raised == t.error # "none"
           status == ComparePair(s, t.pair, t.ran, raised)
           entries == ExpectedEntries(s, t.pair)
           r == Outcome4(t.pair, t.scenario, status, t.ran, t.error)
<1>1. /\ r.pair = t.pair /\ r.scenario = t.scenario /\ r.status = status
      /\ r.ran = t.ran /\ r.error = t.error
  BY DEF Outcome4
<1>2. /\ t.scenario \in 1..Len(scenarios) /\ s \in ScenarioType
      /\ t.ran \in Seq(SUBSET Fields) /\ Len(t.ran) \in Nat
      /\ s.expectedFailures \in SUBSET ExpectedFailure
  <2>1. t.scenario \in 1..Len(scenarios)
    BY DEF ThreadOK
  <2>2. s \in ScenarioType
    BY <2>1, ScenarioTypes
  <2>3. t.ran \in Seq(SUBSET Fields)
    BY DEF ThreadStates
  <2> QED BY <2>1, <2>2, <2>3, LenProperties DEF ScenarioType
<1> SUFFICES ASSUME status # "fail"
             PROVE  /\ \A n \in 1..Len(t.ran) : \A f \in t.ran[n] : Announced(s, t.pair, n, f)
                    /\ raised => Announced(s, t.pair, Len(t.ran) + 1, "any")
                    /\ ~raised => Len(t.ran) = Len(StepsOf(t.scenario))
  BY <1>1 DEF Honest
<1> DEFINE steps == Len(t.ran) + (IF raised THEN 1 ELSE 0)
           fields(n) == IF n <= Len(t.ran) THEN t.ran[n] ELSE {}
<1>3. \A n \in 1..steps : ~Unexpected(entries, s.steps[n].name, fields(n), n > Len(t.ran))
  BY DEF ComparePair
<1> HIDE DEF status, r, s
<1>4. ASSUME NEW n, NEW f \in AllFields,
             \/ \E e \in entries : s.steps[n].name \in e.steps /\ e.fields = AllFields
             \/ \E e \in entries : s.steps[n].name \in e.steps /\ f \in e.fields
      PROVE  Announced(s, t.pair, n, f)
  BY <1>4 DEF Announced, Excuses, ExpectedEntries
<1>5. ASSUME NEW n \in 1..Len(t.ran), NEW f \in t.ran[n]
      PROVE  Announced(s, t.pair, n, f)
  <2>1. n \in 1..steps /\ ~(n > Len(t.ran)) /\ n <= Len(t.ran)
    <3>1. Len(t.ran) \in Nat /\ n \in Int /\ 1 <= n /\ n <= Len(t.ran)
      BY <1>2, <1>5
    <3>2. steps = Len(t.ran) \/ steps = Len(t.ran) + 1
      <4>1. CASE raised
        BY <4>1
      <4>2. CASE ~raised
        <5>1. steps = Len(t.ran) + 0
          BY <4>2
        <5> HIDE DEF steps
        <5> QED BY <3>1, <5>1
      <4> QED BY <4>1, <4>2
    <3> HIDE DEF steps
    <3> QED BY <3>1, <3>2
  <2>2. t.ran[n] \in SUBSET Fields
    BY <1>2, ElementOfSeq
  <2>3. f \in AllFields
    BY <2>2 DEF AllFields
  <2>4. \/ \E e \in entries : s.steps[n].name \in e.steps /\ e.fields = AllFields
        \/ \E e \in entries : s.steps[n].name \in e.steps /\ f \in e.fields
    <3>1. ~Unexpected(entries, s.steps[n].name, t.ran[n], FALSE)
      <4>1. ~Unexpected(entries, s.steps[n].name, fields(n), n > Len(t.ran))
        BY <1>3, <2>1
      <4>2. fields(n) = t.ran[n] /\ (n > Len(t.ran)) = FALSE
        BY <2>1
      <4> HIDE DEF fields, entries
      <4> QED BY <4>1, <4>2 DEF Unexpected
    <3> HIDE DEF entries
    <3> QED BY <3>1 DEF Unexpected
  <2> HIDE DEF entries
  <2> QED BY <1>4, <2>3, <2>4
<1>6. raised => Announced(s, t.pair, Len(t.ran) + 1, "any")
  <2> SUFFICES ASSUME raised PROVE Announced(s, t.pair, Len(t.ran) + 1, "any")
    OBVIOUS
  <2> DEFINE n == Len(t.ran) + 1
  <2>1. n \in 1..steps /\ n > Len(t.ran) /\ fields(n) = {}
    BY <1>2
  <2>2. "any" \in AllFields
    BY DEF AllFields
  <2>3. \E e \in entries : s.steps[n].name \in e.steps /\ e.fields = AllFields
    <3>1. ~Unexpected(entries, s.steps[n].name, {}, TRUE)
      BY <1>3, <2>1
    <3> HIDE DEF entries, n
    <3> QED BY <3>1 DEF Unexpected
  <2> HIDE DEF entries, n
  <2>4. Announced(s, t.pair, n, "any")
    BY <1>4, <2>2, <2>3
  <2> QED BY <2>4 DEF n
<1>7. ~raised => Len(t.ran) = Len(StepsOf(t.scenario))
  BY DEF ThreadOK
<1> QED BY <1>5, <1>6, <1>7

LEMMA PairInitOK == PairInit => PairInv
<1> SUFFICES ASSUME NEW asked \in Asked, NEW file \in ScenarioFiles, PairStart(asked, file)
             PROVE  PairInv
  BY DEF PairInit
<1>1. IdleThread \in ThreadStates /\ ThreadOK(IdleThread) /\ IdleThread.at = "idle"
  BY DEF IdleThread, ThreadStates, ThreadOK
<1>2. \A j \in Jobs : thread[j] = IdleThread
  BY DEF PairStart
<1>3. PairTypes
  BY <1>1 DEF PairTypes, PairStart
<1>4. TurnsInv
  BY <1>1, <1>2 DEF TurnsInv, HasTurn
<1> QED BY <1>1, <1>2, <1>3, <1>4 DEF PairInv, PairStart

(* What a step of one thread leaves of the types and of the turns.          *)
LEMMA ThreadMoves ==
    ASSUME PairInv, NEW j \in Jobs,
           NEW t \in ThreadStates, ThreadOK(t),
           thread' = [thread EXCEPT ![j] = t],
           nextPort' \in Nat, nextPort <= nextPort',
           t.at \in {"start", "stalled", "steps"} =>
               /\ t.taken < nextPort'
               /\ \A k \in Jobs \ {j} : HasTurn(k) => thread[k].taken # t.taken,
           pairQueue' \in Seq(SelectPairs),
           UNCHANGED <<callVars, pairPc>>
    PROVE  /\ PairTypes' /\ TurnsInv' /\ SelectPairs' = SelectPairs
           /\ \A k \in Jobs : ThreadOK(thread[k])'
           /\ \A k \in Jobs : thread'[k] = IF k = j THEN t ELSE thread[k]
<1> USE DEF callVars
<1>1. PairTypes
  BY DEF PairInv
<1>2. \A k \in Jobs : thread'[k] = IF k = j THEN t ELSE thread[k]
  BY <1>1 DEF PairTypes
<1>3. SelectPairs' = SelectPairs
  BY DEF SelectPairs
<1>4. PairTypes'
  <2>1. ThreadStates' = ThreadStates
    BY <1>3 DEF ThreadStates
  <2>2. thread' \in [Jobs -> ThreadStates]
    BY <1>1 DEF PairTypes
  <2> QED BY <1>1, <1>3, <2>1, <2>2 DEF PairTypes
<1>5. \A k \in Jobs : ThreadOK(thread'[k])
  BY <1>2 DEF PairInv
<1>6. \A k \in Jobs : ThreadOK(thread[k])'
  <2> TAKE k \in Jobs
  <2>1. ThreadOK(thread'[k])
    BY <1>5
  <2> QED BY <2>1, <1>3 DEF ThreadOK, StepsOf
<1>7. TurnsInv'
  <2>1. \A k \in Jobs : HasTurn(k)' => thread'[k].taken < nextPort'
    <3> SUFFICES ASSUME NEW k \in Jobs, HasTurn(k)' PROVE thread'[k].taken < nextPort'
      OBVIOUS
    <3>1. CASE k = j
      BY <3>1, <1>2 DEF HasTurn
    <3>2. CASE k # j
      <4>1. thread'[k] = thread[k] /\ HasTurn(k)
        BY <3>2, <1>2 DEF HasTurn
      <4>2. thread[k].taken < nextPort
        BY <4>1 DEF PairInv, TurnsInv
      <4>3. thread[k].taken \in Nat /\ nextPort \in Nat
        BY <1>1 DEF PairTypes, ThreadStates
      <4> QED BY <4>1, <4>2, <4>3
    <3> QED BY <3>1, <3>2
  <2>2. ASSUME NEW a \in Jobs, NEW b \in Jobs, a # b, HasTurn(a)', HasTurn(b)'
        PROVE  thread'[a].taken # thread'[b].taken
    <3>1. CASE a = j
      BY <3>1, <2>2, <1>2 DEF HasTurn
    <3>2. CASE b = j
      BY <3>2, <2>2, <1>2 DEF HasTurn
    <3>3. CASE a # j /\ b # j
      BY <3>3, <2>2, <1>2 DEF HasTurn, PairInv, TurnsInv
    <3> QED BY <3>1, <3>2, <3>3
  <2> QED BY <2>1, <2>2 DEF TurnsInv
<1> QED BY <1>2, <1>3, <1>4, <1>6, <1>7

(* A step of a thread that stays with its scenario.                        *)
LEMMA ThreadStep ==
    ASSUME PairInv, NEW j \in Jobs, thread[j].at # "idle",
           NEW t \in ThreadStates, ThreadOK(t), t.at # "idle",
           t.pair = thread[j].pair, t.scenario = thread[j].scenario,
           thread' = [thread EXCEPT ![j] = t],
           nextPort' \in Nat, nextPort <= nextPort',
           t.at \in {"start", "stalled", "steps"} =>
               /\ t.taken < nextPort'
               /\ \A k \in Jobs \ {j} : HasTurn(k) => thread[k].taken # t.taken,
           UNCHANGED <<callVars, pairPc, pairQueue, pairResults, pairExit>>
    PROVE  PairInv'
<1> USE DEF callVars
<1>1. PairTypes /\ pairPc = "pool" /\ pairQueue' \in Seq(SelectPairs)
  BY DEF PairInv, PairTypes
<1>2. /\ PairTypes' /\ TurnsInv' /\ SelectPairs' = SelectPairs
      /\ \A k \in Jobs : ThreadOK(thread[k])'
      /\ \A k \in Jobs : thread'[k] = IF k = j THEN t ELSE thread[k]
  BY <1>1, ThreadMoves
<1>3. \A r \in pairResults' : Honest(r)'
  BY DEF Honest, Announced, StepsOf, PairInv
<1>4. CoverageInv'
  <2> SUFFICES ASSUME NEW p \in SelectPairs, NEW i \in 1..Len(scenarios),
                      ~HasResult(p, i)', ~InQueue(p)'
               PROVE  \E k \in Jobs : Ahead(thread[k], p, i)'
    BY <1>2 DEF CoverageInv
  <2>1. PICK k \in Jobs : Ahead(thread[k], p, i)
    BY <1>1 DEF PairInv, CoverageInv, HasResult, InQueue
  <2>2. Ahead(thread[k], p, i)'
    BY <2>1, <1>2 DEF Ahead
  <2> QED BY <2>2
<1> QED BY <1>1, <1>2, <1>3, <1>4 DEF PairInv

LEMMA LoadKeeps == ASSUME PairInv, StartPool \/ EndEarly PROVE PairInv'
<1> USE DEF callVars
<1>1. PairTypes /\ pairPc = "load" /\ pairResults = {} /\ \A j \in Jobs : thread[j].at = "idle"
  BY DEF PairInv, StartPool, EndEarly
<1>2. SelectPairs' = SelectPairs /\ ThreadStates' = ThreadStates /\ pairResults' = {}
      /\ thread' = thread /\ scenarios' = scenarios /\ nextPort' = nextPort
  BY <1>1 DEF SelectPairs, ThreadStates, StartPool, EndEarly
<1>3. \A j \in Jobs : ThreadOK(thread[j])' /\ ~HasTurn(j)'
  BY <1>1, <1>2 DEF PairInv, ThreadOK, StepsOf, HasTurn
<1>4. TurnsInv'
  BY <1>3 DEF TurnsInv
<1>5. CASE StartPool
  <2>1. pairQueue' \in Seq(SelectPairs) /\ pairPc' = "pool"
        /\ \A p \in SelectPairs : \E n \in DOMAIN pairQueue' : pairQueue'[n] = p
    BY <1>5, ListsAll, PairsAreFinite DEF StartPool
  <2>2. DOMAIN pairQueue' = 1..Len(pairQueue')
    BY <2>1, LenProperties
  <2>3. CoverageInv'
    BY <1>2, <2>1, <2>2 DEF CoverageInv, InQueue
  <2>4. scenarios # <<>>
    BY <1>5 DEF StartPool, Loads
  <2>5. PairTypes'
    BY <1>1, <1>2, <2>1 DEF PairTypes
  <2> QED BY <1>1, <1>2, <1>3, <1>4, <2>1, <2>3, <2>4, <2>5 DEF PairInv
<1>6. CASE EndEarly
  <2>1. pairPc' = "done" /\ pairQueue' = pairQueue
    BY <1>6 DEF EndEarly
  <2>2. PairTypes'
    BY <1>1, <1>2, <2>1 DEF PairTypes
  <2>3. pairExit' = 0 => SelectPairs = {}
    BY <1>6 DEF EndEarly
  <2> QED BY <1>1, <1>2, <1>3, <1>4, <2>1, <2>2, <2>3 DEF PairInv
<1> QED BY <1>5, <1>6

LEMMA TakePairKeeps == ASSUME PairInv, NEW j \in Jobs, TakePair(j) PROVE PairInv'
<1> USE DEF callVars
<1> DEFINE p == Head(pairQueue)
<1>1. /\ PairTypes /\ pairPc = "pool" /\ CoverageInv /\ scenarios # <<>> /\ pairPc' = "pool"
      /\ thread[j].at = "idle" /\ pairQueue # <<>> /\ pairQueue' = Tail(pairQueue)
      /\ scenarios' = scenarios /\ nextPort' = nextPort
  BY DEF PairInv, TakePair
<1>2. SelectPairs' = SelectPairs /\ ThreadStates' = ThreadStates
  BY DEF SelectPairs, ThreadStates, TakePair
<1>3. /\ p \in SelectPairs /\ pairQueue' \in Seq(SelectPairs)
      /\ \A q \in SelectPairs : InQueue(q) => q = p \/ InQueue(q)'
  <2>1. /\ pairQueue \in Seq(SelectPairs) /\ p = pairQueue[1] /\ p \in SelectPairs
        /\ Tail(pairQueue) \in Seq(SelectPairs) /\ Len(Tail(pairQueue)) = Len(pairQueue) - 1
        /\ \A n \in 1..(Len(pairQueue) - 1) : Tail(pairQueue)[n] = pairQueue[n + 1]
        /\ Len(pairQueue) \in Nat
    BY <1>1, HeadTailProperties, LenProperties DEF PairTypes
  <2>2. ASSUME NEW q \in SelectPairs, NEW n \in 1..Len(pairQueue), pairQueue[n] = q, q # p
        PROVE  InQueue(q)'
    <3>1. n - 1 \in 1..(Len(pairQueue) - 1)
      BY <2>1, <2>2
    <3>2. Tail(pairQueue)[n - 1] = q
      <4>1. Tail(pairQueue)[n - 1] = pairQueue[(n - 1) + 1]
        BY <2>1, <3>1
      <4> QED BY <4>1, <2>2
    <3> QED BY <1>1, <2>1, <3>1, <3>2 DEF InQueue
  <2> QED BY <1>1, <2>1, <2>2 DEF InQueue
<1> HIDE DEF p
<1>4. Len(scenarios) \in Nat /\ Len(scenarios) # 0
  BY <1>1, ScenarioTypes, EmptySeq
<1>5. CASE Builds(p)
  <2> DEFINE t == [thread[j] EXCEPT !.pair = p, !.scenario = 1, !.at = "port"]
  <2>1. thread' = [thread EXCEPT ![j] = t] /\ pairResults' = pairResults
        /\ pairExit' = pairExit
    BY <1>5 DEF TakePair, p
  <2>2. t \in ThreadStates /\ t.at = "port" /\ t.pair = p /\ t.scenario = 1
        /\ t.error = thread[j].error /\ t.ran = thread[j].ran
    BY <1>1, <1>3 DEF PairTypes, ThreadStates
  <2> HIDE DEF t
  <2>3. ThreadOK(t)
    <3>1. thread[j].error = "none" /\ thread[j].ran = <<>>
      BY <1>1 DEF PairInv, ThreadOK
    <3> QED BY <1>3, <1>4, <2>2, <3>1 DEF ThreadOK
  <2>4. nextPort' \in Nat /\ nextPort <= nextPort'
    BY <1>1 DEF PairTypes
  <2>5. UNCHANGED <<callVars, pairPc>>
    BY DEF TakePair
  <2>6. /\ PairTypes' /\ TurnsInv'
        /\ \A k \in Jobs : ThreadOK(thread[k])'
        /\ \A k \in Jobs : thread'[k] = IF k = j THEN t ELSE thread[k]
    BY <1>3, <2>1, <2>2, <2>3, <2>4, <2>5, ThreadMoves
  <2>7. \A r \in pairResults' : Honest(r)'
    BY <1>1, <2>1 DEF Honest, Announced, StepsOf, PairInv
  <2>8. CoverageInv'
    <3> SUFFICES ASSUME NEW q \in SelectPairs, NEW i \in 1..Len(scenarios),
                        ~HasResult(q, i)', ~InQueue(q)'
                 PROVE  \E k \in Jobs : Ahead(thread[k], q, i)'
      BY <1>1, <1>2 DEF CoverageInv
    <3>1. CASE q = p
      BY <2>2, <2>6, <3>1 DEF Ahead
    <3>2. CASE q # p
      <4>1. PICK k \in Jobs : Ahead(thread[k], q, i)
        BY <1>1, <1>3, <2>1, <3>2 DEF CoverageInv, HasResult
      <4>2. k # j
        BY <4>1, <1>1 DEF Ahead
      <4> QED BY <4>1, <4>2, <2>6 DEF Ahead
    <3> QED BY <3>1, <3>2
  <2> QED BY <1>1, <2>1, <2>6, <2>7, <2>8 DEF PairInv
<1>6. CASE ~Builds(p)
  <2>1. /\ thread' = thread /\ UNCHANGED <<callVars, pairPc, pairExit>>
        /\ pairResults' = pairResults \cup {Outcome4(p, i, "fail", <<>>, "build") :
                                                i \in 1..Len(scenarios)}
    BY <1>6 DEF TakePair, p
  <2>2. PairTypes' /\ TurnsInv' /\ \A k \in Jobs : ThreadOK(thread[k])'
    <3>1. PairTypes'
      BY <1>1, <1>2, <1>3, <2>1 DEF PairTypes
    <3>2. TurnsInv'
      BY <1>1, <2>1 DEF PairInv, TurnsInv, HasTurn
    <3>3. \A k \in Jobs : ThreadOK(thread[k])'
      BY <1>1, <1>2, <2>1 DEF PairInv, ThreadOK, StepsOf
    <3> QED BY <3>1, <3>2, <3>3
  <2>3. \A r \in pairResults' : Honest(r)'
    <3> TAKE r \in pairResults'
    <3>1. CASE r \in pairResults
      BY <1>1, <3>1 DEF Honest, Announced, StepsOf, PairInv
    <3>2. CASE r \notin pairResults
      <4>1. r.status = "fail"
        BY <2>1, <3>2 DEF Outcome4
      <4> QED BY <4>1 DEF Honest
    <3> QED BY <3>1, <3>2
  <2>4. CoverageInv'
    <3> SUFFICES ASSUME NEW q \in SelectPairs, NEW i \in 1..Len(scenarios),
                        ~HasResult(q, i)', ~InQueue(q)'
                 PROVE  \E k \in Jobs : Ahead(thread[k], q, i)'
      BY <1>1, <1>2 DEF CoverageInv
    <3>1. CASE q = p
      <4>1. Outcome4(p, i, "fail", <<>>, "build") \in pairResults'
        BY <2>1
      <4> QED BY <4>1, <3>1 DEF HasResult, Outcome4
    <3>2. CASE q # p
      <4>1. ~HasResult(q, i)
        BY <2>1 DEF HasResult
      <4> QED BY <4>1, <1>1, <1>3, <2>1, <3>2 DEF CoverageInv, Ahead
    <3> QED BY <3>1, <3>2
  <2> QED BY <1>1, <2>1, <2>2, <2>3, <2>4 DEF PairInv
<1> QED BY <1>5, <1>6

LEMMA TakePortKeeps == ASSUME PairInv, NEW j \in Jobs, TakePort(j) PROVE PairInv'
<1> DEFINE t == [thread[j] EXCEPT !.taken = nextPort, !.at = "start"]
<1>1. PairTypes /\ thread[j].at = "port" /\ ThreadOK(thread[j]) /\ thread[j] \in ThreadStates
      /\ nextPort \in Nat /\ nextPort' = nextPort + 1
  BY DEF PairInv, PairTypes, TakePort, Taken
<1>2. thread' = [thread EXCEPT ![j] = t]
  BY DEF TakePort
<1>3. t \in ThreadStates /\ t.at = "start" /\ t.pair = thread[j].pair /\ t.taken = nextPort
      /\ t.scenario = thread[j].scenario /\ t.error = thread[j].error /\ t.ran = thread[j].ran
  BY <1>1 DEF ThreadStates
<1> HIDE DEF t
<1>4. ThreadOK(t)
  BY <1>1, <1>3 DEF ThreadOK
<1>5. \A k \in Jobs \ {j} : HasTurn(k) => thread[k].taken # t.taken
  <2>1. \A k \in Jobs : thread[k].taken \in Nat
    BY <1>1 DEF PairTypes, ThreadStates
  <2>2. \A k \in Jobs : HasTurn(k) => thread[k].taken < nextPort
    BY DEF PairInv, TurnsInv
  <2> QED BY <1>1, <1>3, <2>1, <2>2
<1>6. nextPort' \in Nat /\ nextPort <= nextPort' /\ t.taken < nextPort'
  BY <1>1, <1>3
<1>7. UNCHANGED <<callVars, pairPc, pairQueue, pairResults, pairExit>>
  BY DEF TakePort
<1> QED BY <1>1, <1>2, <1>3, <1>4, <1>5, <1>6, <1>7, ThreadStep

(* A step that keeps its turn or gives it back.                            *)
LEMMA SameTurn ==
    ASSUME PairInv, NEW j \in Jobs, thread[j].at \in {"start", "steps"},
           NEW t \in ThreadStates, ThreadOK(t), t.at # "idle",
           t.pair = thread[j].pair, t.scenario = thread[j].scenario,
           t.taken = thread[j].taken,
           thread' = [thread EXCEPT ![j] = t],
           UNCHANGED <<callVars, pairPc, pairQueue, nextPort, pairResults, pairExit>>
    PROVE  PairInv'
<1>1. nextPort' = nextPort /\ nextPort \in Nat /\ thread[j].taken < nextPort
  BY DEF PairInv, PairTypes, TurnsInv, HasTurn
<1>2. \A k \in Jobs \ {j} : HasTurn(k) => thread[k].taken # t.taken
  BY DEF PairInv, TurnsInv, HasTurn
<1>3. nextPort' \in Nat /\ nextPort <= nextPort' /\ t.taken < nextPort'
  BY <1>1
<1> QED BY <1>2, <1>3, ThreadStep

LEMMA ServerKeeps ==
    ASSUME PairInv, NEW j \in Jobs, ServerStarts(j) \/ ServerFails(j) \/ ServerStalls(j)
    PROVE  PairInv'
<1>1. PairTypes /\ thread[j].at = "start" /\ ThreadOK(thread[j]) /\ thread[j] \in ThreadStates
      /\ UNCHANGED <<callVars, pairPc, pairQueue, nextPort, pairResults, pairExit>>
  BY DEF PairInv, PairTypes, ServerStarts, ServerFails, ServerStalls
<1>2. CASE ServerStarts(j)
  <2> DEFINE t == [thread[j] EXCEPT !.live = TRUE, !.at = "steps"]
  <2>1. thread' = [thread EXCEPT ![j] = t]
    BY <1>2 DEF ServerStarts
  <2>2. t \in ThreadStates /\ t.at = "steps" /\ t.pair = thread[j].pair
        /\ t.taken = thread[j].taken /\ t.scenario = thread[j].scenario
        /\ t.error = thread[j].error /\ t.ran = thread[j].ran
    BY <1>1 DEF ThreadStates
  <2> HIDE DEF t
  <2>3. ThreadOK(t)
    <3>1. Len(StepsOf(thread[j].scenario)) \in Nat
      BY <1>1, ScenarioTypes DEF ThreadOK
    <3>2. Len(t.ran) = 0
      BY <1>1, <2>2, EmptySeq DEF ThreadOK
    <3> QED BY <1>1, <2>2, <3>1, <3>2 DEF ThreadOK
  <2> QED BY <1>1, <2>1, <2>2, <2>3, SameTurn
<1>3. CASE ServerFails(j)
  <2>1. PICK error \in {"unsupported_operation", "start"} :
          thread' = [thread EXCEPT ![j].error = error, ![j].at = "compare"]
    BY <1>3 DEF ServerFails
  <2> DEFINE t == [thread[j] EXCEPT !.error = error, !.at = "compare"]
  <2>2. thread' = [thread EXCEPT ![j] = t]
    BY <2>1
  <2>3. t \in ThreadStates /\ t.at = "compare" /\ t.pair = thread[j].pair
        /\ t.taken = thread[j].taken /\ t.scenario = thread[j].scenario
        /\ t.error # "none"
    BY <1>1 DEF ThreadStates
  <2> HIDE DEF t
  <2>4. ThreadOK(t)
    BY <1>1, <2>3 DEF ThreadOK
  <2> QED BY <1>1, <2>2, <2>3, <2>4, SameTurn
<1>4. CASE ServerStalls(j)
  <2> DEFINE t == [thread[j] EXCEPT !.at = "stalled"]
  <2>1. thread' = [thread EXCEPT ![j] = t]
    BY <1>4 DEF ServerStalls
  <2>2. t \in ThreadStates /\ t.at = "stalled" /\ t.pair = thread[j].pair
        /\ t.taken = thread[j].taken /\ t.scenario = thread[j].scenario
        /\ t.error = thread[j].error /\ t.ran = thread[j].ran
    BY <1>1 DEF ThreadStates
  <2> HIDE DEF t
  <2>3. ThreadOK(t)
    BY <1>1, <2>2 DEF ThreadOK
  <2> QED BY <1>1, <2>1, <2>2, <2>3, SameTurn
<1> QED BY <1>2, <1>3, <1>4

LEMMA StepKeeps ==
    ASSUME PairInv, NEW j \in Jobs, RunStep(j) \/ StepRaises(j) \/ StepsDone(j) PROVE PairInv'
<1>1. PairTypes /\ thread[j].at = "steps" /\ ThreadOK(thread[j]) /\ thread[j] \in ThreadStates
      /\ UNCHANGED <<callVars, pairPc, pairQueue, nextPort, pairResults, pairExit>>
  BY DEF PairInv, PairTypes, RunStep, StepRaises, StepsDone
<1>2. /\ thread[j].ran \in Seq(SUBSET Fields) /\ Len(thread[j].ran) \in Nat
      /\ thread[j].scenario \in 1..Len(scenarios) /\ thread[j].error = "none"
      /\ PairScenario(j).steps = StepsOf(thread[j].scenario)
      /\ Len(StepsOf(thread[j].scenario)) \in Nat
      /\ Len(thread[j].ran) <= Len(StepsOf(thread[j].scenario))
  <2>1. thread[j].ran \in Seq(SUBSET Fields) /\ Len(thread[j].ran) \in Nat
    BY <1>1, LenProperties DEF ThreadStates
  <2> QED BY <1>1, <2>1, ScenarioTypes DEF ThreadOK, PairScenario, StepsOf
<1>3. CASE RunStep(j)
  <2>1. PICK differing \in SUBSET Fields :
          thread' = [thread EXCEPT ![j].ran = Append(@, differing)]
    BY <1>3 DEF RunStep
  <2> DEFINE ran == Append(thread[j].ran, differing)
             t == [thread[j] EXCEPT !.ran = ran]
  <2>2. ran \in Seq(SUBSET Fields) /\ Len(ran) = Len(thread[j].ran) + 1
    BY <1>2, AppendProperties
  <2>3. thread' = [thread EXCEPT ![j] = t]
    BY <2>1
  <2> HIDE DEF ran
  <2>4. t \in ThreadStates /\ t.at = "steps" /\ t.pair = thread[j].pair
        /\ t.taken = thread[j].taken /\ t.scenario = thread[j].scenario
        /\ t.error = "none" /\ t.ran = ran
    BY <1>1, <1>2, <2>2 DEF ThreadStates
  <2> HIDE DEF t
  <2>5. Len(t.ran) <= Len(StepsOf(t.scenario))
    <3>1. Len(thread[j].ran) + 1 <= Len(StepsOf(thread[j].scenario))
      BY <1>2, <1>3 DEF RunStep, StepNo
    <3> QED BY <2>2, <2>4, <3>1
  <2>6. ThreadOK(t)
    BY <1>1, <2>4, <2>5 DEF ThreadOK
  <2> QED BY <1>1, <2>3, <2>4, <2>6, SameTurn
<1>4. CASE StepRaises(j)
  <2> DEFINE error == IF Dangling(j) THEN "KeyError" ELSE "step"
             t == [thread[j] EXCEPT !.error = error, !.live = FALSE, !.at = "compare"]
  <2>1. error \in {"KeyError", "step"}
    OBVIOUS
  <2>2. thread' = [thread EXCEPT ![j] = t]
    BY <1>4 DEF StepRaises
  <2> HIDE DEF error
  <2>3. t \in ThreadStates /\ t.at = "compare" /\ t.pair = thread[j].pair
        /\ t.taken = thread[j].taken /\ t.scenario = thread[j].scenario
        /\ t.error # "none"
    BY <1>1, <2>1 DEF ThreadStates
  <2> HIDE DEF t
  <2>4. ThreadOK(t)
    BY <1>2, <1>1, <2>3 DEF ThreadOK
  <2> QED BY <1>1, <2>2, <2>3, <2>4, SameTurn
<1>5. CASE StepsDone(j)
  <2> DEFINE t == [thread[j] EXCEPT !.live = FALSE, !.at = "compare"]
  <2>1. thread' = [thread EXCEPT ![j] = t]
    BY <1>5 DEF StepsDone
  <2>2. t \in ThreadStates /\ t.at = "compare" /\ t.pair = thread[j].pair
        /\ t.taken = thread[j].taken /\ t.scenario = thread[j].scenario
        /\ t.error = "none" /\ t.ran = thread[j].ran
    BY <1>1, <1>2 DEF ThreadStates
  <2> HIDE DEF t
  <2>3. Len(t.ran) = Len(StepsOf(t.scenario))
    <3>1. Len(thread[j].ran) + 1 > Len(StepsOf(thread[j].scenario))
      BY <1>2, <1>5 DEF StepsDone, StepNo
    <3>2. Len(thread[j].ran) = Len(StepsOf(thread[j].scenario))
      BY <1>2, <3>1
    <3> QED BY <2>2, <3>2
  <2>4. ThreadOK(t)
    BY <1>1, <2>2, <2>3 DEF ThreadOK
  <2> QED BY <1>1, <2>1, <2>2, <2>4, SameTurn
<1> QED BY <1>3, <1>4, <1>5

LEMMA NextScenarioTyped ==
    ASSUME NEW q \in SelectPairs, NEW s \in Nat
    PROVE  [pair |-> q, scenario |-> s, at |-> "port", taken |-> 0, live |-> FALSE,
            ran |-> <<>>, error |-> "none"] \in ThreadStates
<1>1. <<>> \in Seq(SUBSET Fields)
  OBVIOUS
<1> QED BY <1>1 DEF ThreadStates

LEMMA EndScenarioRunKeeps ==
    ASSUME PairInv, NEW j \in Jobs, EndScenarioRun(j) PROVE PairInv'
<1> USE DEF callVars
<1> DEFINE t == thread[j]
           status == CASE t.error = "unsupported_operation" -> "skip"
                       [] t.error = "start" -> "fail"
                       [] OTHER -> ComparePair(PairScenario(j), t.pair, t.ran, t.error # "none")
           r == Outcome4(t.pair, t.scenario, status, t.ran, t.error)
           more == t.scenario < Len(scenarios)
           u == IF more THEN [IdleThread EXCEPT !.pair = t.pair, !.scenario = t.scenario + 1,
                                                !.at = "port"]
                ELSE IdleThread
<1>1. /\ PairTypes /\ t.at = "compare" /\ ThreadOK(t) /\ t \in ThreadStates
      /\ pairPc = "pool" /\ CoverageInv /\ scenarios # <<>>
      /\ UNCHANGED <<callVars, pairPc, pairQueue, nextPort, pairExit>>
  BY DEF PairInv, PairTypes, EndScenarioRun
<1>2. pairResults' = pairResults \cup {r} /\ thread' = [thread EXCEPT ![j] = u]
  BY DEF EndScenarioRun
<1>3. t.scenario \in 1..Len(scenarios) /\ t.pair \in SelectPairs /\ Len(scenarios) \in Nat
  BY <1>1, ScenarioTypes DEF ThreadOK
<1>4. r.pair = t.pair /\ r.scenario = t.scenario
  BY DEF Outcome4
<1>5. Honest(r)
  <2>1. CASE t.error = "unsupported_operation"
    <3>1. r.status = "skip"
      BY <2>1 DEF Outcome4
    <3> QED BY <3>1 DEF Honest
  <2>2. CASE t.error = "start"
    <3>1. r.status = "fail"
      BY <2>2 DEF Outcome4
    <3> QED BY <3>1 DEF Honest
  <2>3. CASE t.error \notin {"unsupported_operation", "start"}
    <3>1. status = ComparePair(scenarios[t.scenario], t.pair, t.ran, t.error # "none")
      BY <2>3 DEF PairScenario
    <3> QED BY <1>1, <2>3, <3>1, ComparedHonestly
  <2> QED BY <2>1, <2>2, <2>3
<1> HIDE DEF r
<1>6. /\ u \in ThreadStates /\ ThreadOK(u) /\ u.at \in {"idle", "port"}
      /\ more => u.at = "port" /\ u.pair = t.pair /\ u.scenario = t.scenario + 1
  <2>1. CASE more
    <3>1. t.scenario + 1 \in 1..Len(scenarios)
      BY <1>3, <2>1
    <3>2. u = [IdleThread EXCEPT !.pair = t.pair, !.scenario = t.scenario + 1, !.at = "port"]
      BY <2>1
    <3> DEFINE s == t.scenario + 1
               q == t.pair
    <3> HIDE DEF s, q, u
    <3>3. u = [IdleThread EXCEPT !.pair = q, !.scenario = s, !.at = "port"] /\ s \in Nat
      BY <3>1, <3>2 DEF s, q
    <3>4. /\ u.at = "port" /\ u.pair = q /\ u.scenario = s /\ u.error = "none"
          /\ u.ran = <<>>
      BY <3>3 DEF IdleThread
    <3>5. u \in ThreadStates
      <4>1. q \in SelectPairs
        BY <1>3 DEF q
      <4>2. u = [pair |-> q, scenario |-> s, at |-> "port", taken |-> 0, live |-> FALSE,
                 ran |-> <<>>, error |-> "none"]
        BY <3>3 DEF IdleThread
      <4>3. s \in Nat
        BY <3>3
      <4> HIDE DEF status, more, t
      <4> QED BY <4>1, <4>2, <4>3, NextScenarioTyped
    <3> QED BY <1>3, <3>1, <3>4, <3>5 DEF ThreadOK, s, q
  <2>2. CASE ~more
    <3>1. u = IdleThread
      BY <2>2
    <3> HIDE DEF u
    <3> QED BY <2>2, <3>1 DEF IdleThread, ThreadStates, ThreadOK
  <2> QED BY <2>1, <2>2
<1> HIDE DEF u
<1>7. nextPort' \in Nat /\ nextPort <= nextPort' /\ pairQueue' \in Seq(SelectPairs)
  BY <1>1 DEF PairTypes
<1>8. /\ PairTypes' /\ TurnsInv' /\ SelectPairs' = SelectPairs
      /\ \A k \in Jobs : ThreadOK(thread[k])'
      /\ \A k \in Jobs : thread'[k] = IF k = j THEN u ELSE thread[k]
  BY <1>1, <1>2, <1>6, <1>7, ThreadMoves
<1>9. \A x \in pairResults' : Honest(x)'
  <2> TAKE x \in pairResults'
  <2>1. Honest(x)
    BY <1>2, <1>5 DEF PairInv
  <2> QED BY <1>1, <2>1 DEF Honest, Announced, StepsOf
<1>10. CoverageInv'
  <2> SUFFICES ASSUME NEW p \in SelectPairs, NEW i \in 1..Len(scenarios),
                      ~HasResult(p, i)', ~InQueue(p)'
               PROVE  \E k \in Jobs : Ahead(thread[k], p, i)'
    BY <1>1, <1>8 DEF CoverageInv
  <2>1. PICK k \in Jobs : Ahead(thread[k], p, i)
    BY <1>1, <1>2 DEF CoverageInv, HasResult, InQueue
  <2>2. CASE k # j
    BY <2>1, <2>2, <1>8 DEF Ahead
  <2>3. CASE k = j
    <3>1. t.pair = p /\ t.scenario <= i /\ t.scenario # i
      BY <2>1, <2>3, <1>2, <1>4 DEF Ahead, HasResult
    <3>2. more /\ t.scenario + 1 <= i
      BY <1>3, <3>1
    <3> QED BY <1>6, <1>8, <3>1, <3>2 DEF Ahead
  <2> QED BY <2>2, <2>3
<1> QED BY <1>1, <1>8, <1>9, <1>10 DEF PairInv

LEMMA ReportPairsKeeps == ASSUME PairInv, ReportPairs PROVE PairInv'
<1> USE DEF callVars
<1>1. /\ PairTypes /\ pairPc = "pool" /\ CoverageInv /\ pairQueue = <<>> /\ pairPc' = "done"
      /\ \A j \in Jobs : thread[j].at = "idle"
      /\ UNCHANGED <<callVars, pairQueue, nextPort, thread, pairResults>>
  BY DEF PairInv, ReportPairs
<1>2. SelectPairs' = SelectPairs /\ ThreadStates' = ThreadStates
  BY <1>1 DEF SelectPairs, ThreadStates
<1>3. PairTypes' /\ TurnsInv'
  BY <1>1, <1>2 DEF PairInv, PairTypes, TurnsInv, HasTurn
<1>4. \A j \in Jobs : ThreadOK(thread[j])'
  BY <1>1, <1>2 DEF PairInv, ThreadOK, StepsOf
<1>5. \A r \in pairResults' : Honest(r)'
  BY <1>1 DEF PairInv, Honest, Announced, StepsOf
<1>6. \A p \in SelectPairs, i \in 1..Len(scenarios) : HasResult(p, i)
  <2>1. \A p \in SelectPairs : ~InQueue(p)
    BY <1>1, EmptySeq DEF InQueue
  <2> QED BY <1>1, <2>1 DEF CoverageInv, Ahead
<1>7. pairExit' = 0 => \A r \in pairResults : r.status # "fail"
  BY DEF ReportPairs, IsFailure
<1> QED BY <1>1, <1>2, <1>3, <1>4, <1>5, <1>6, <1>7 DEF PairInv, HasResult

(* PairInv is an invariant of the pair runner.                             *)
THEOREM PairRunnerInvariant == PairSpec => []PairInv
<1>1. PairInv /\ [PairNext]_pairVars => PairInv'
  <2> SUFFICES ASSUME PairInv, [PairNext]_pairVars PROVE PairInv'
    OBVIOUS
  <2>1. CASE UNCHANGED pairVars
    <3>1. SelectPairs' = SelectPairs /\ ThreadStates' = ThreadStates
      BY <2>1 DEF pairVars, SelectPairs, ThreadStates
    <3>2. UNCHANGED <<callVars, pairPc, pairQueue, nextPort, thread, pairResults, pairExit>>
      BY <2>1 DEF pairVars, callVars
    <3> QED BY <3>1, <3>2 DEF callVars, PairInv, PairTypes, ThreadOK, StepsOf, TurnsInv,
               HasTurn, Honest, Announced, CoverageInv, HasResult, InQueue, Ahead
  <2>2. CASE PairNext
    BY <2>2, LoadKeeps, ReportPairsKeeps, TakePairKeeps, TakePortKeeps, ServerKeeps, StepKeeps,
       EndScenarioRunKeeps DEF PairNext
  <2> QED BY <2>1, <2>2
<1> QED BY <1>1, PairInitOK, PTL DEF PairSpec

(* However many threads take turns of the port pool, no two running        *)
(* scenarios of pair_runner.py hold the same turn.                         *)
THEOREM PortsInTurn == PairSpec => []PortTurnsAreDistinct
<1>1. PairInv => PortTurnsAreDistinct
  BY DEF PairInv, TurnsInv, HasTurn, PortTurnsAreDistinct
<1> QED BY <1>1, PairRunnerInvariant, PTL

(* A pair run that ends with exit code 0 has a result for every scenario   *)
(* of every selected pair, and every difference or exception in a result   *)
(* that is not a skip is one that the scenario announces.                  *)
THEOREM GreenPairsAnnounced == PairSpec => []GreenPairsDifferAsAnnounced
<1>1. PairInv => GreenPairsDifferAsAnnounced
  BY DEF PairInv, HasResult, Honest, Announced, StepsOf, GreenPairsDifferAsAnnounced
<1> QED BY <1>1, PairRunnerInvariant, PTL

(***************************************************************************)
(* tempo-conformance/scripts/run.py                                        *)
(***************************************************************************)

Replied == {"", "right", "wrong", "error", "crash"}

TempoTypes ==
    /\ tempoSuite \in TempoSuites
    /\ tempoPc \in {"load", "vectors", "node", "summary", "done"}
    /\ tempoAdapter \in Numbers /\ scenarioAt \in 1..Size
    /\ rows \in [Numbers -> [1..Size -> {"", "pass", "fail", "skipped"}]]
    /\ replies \in [Numbers -> [1..Size -> Replied]]
    /\ nodeRows \in [Numbers -> [1..Size -> {"", "pass", "fail", "known", "skipped"}]]
    /\ problems \in [Numbers -> [1..Size -> SUBSET NodeProblems]]

Over == tempoPc = "summary" \/ (tempoPc = "done" /\ tempoExit = 0)

(* Adapter a is past scenario i, and past it on its node.                  *)
Checked(a, i) ==
    \/ a < tempoAdapter
    \/ a = tempoAdapter /\ (tempoPc = "node" \/ Over)
    \/ a = tempoAdapter /\ tempoPc = "vectors" /\ i < scenarioAt
Reached(a, i) ==
    \/ a < tempoAdapter
    \/ a = tempoAdapter /\ Over
    \/ a = tempoAdapter /\ tempoPc = "node" /\ i < scenarioAt

RowExplained(a, i) ==
    \/ rows[a][i] \in {"pass", "fail"}
    \/ rows[a][i] = "skipped" /\ SkipReason(a, Suite(i)) # ""

Unsigned(a, i) ==
    Suite(i).operation = "tx.sign" /\ (rows[a][i] \in {"skipped", "fail"} \/ ~Suite(i).signs)
LacksRequired(a, i) ==
    \E j \in 1..(i - 1) : /\ Suite(j).name \in Suite(i).node.requires
                          /\ ~Suite(j).selected \/ nodeRows[a][j] \in {"skipped", "fail"}

NodeExplained(a, i) ==
    \/ nodeRows[a][i] = "fail"
    \/ nodeRows[a][i] \in {"pass", "known"} /\ problems[a][i] = Suite(i).node.known
    \/ nodeRows[a][i] = "skipped" /\ (Unsigned(a, i) \/ LacksRequired(a, i))

ScenarioInv(a, i) ==
    /\ rows[a][i] = "pass" => replies[a][i] = "right"
    /\ Checked(a, i) /\ Suite(i).selected => RowExplained(a, i)
    /\ Reached(a, i) /\ OnNode(Suite(i)) /\ rows[a][i] # "" => NodeExplained(a, i)

TempoInv ==
    /\ TempoTypes
    /\ \A a \in Numbers, i \in 1..Size : ScenarioInv(a, i)
    /\ tempoPc = "load" => tempoAdapter = 1 /\ scenarioAt = 1
    /\ tempoPc \in {"vectors", "node", "summary"} => ValidSuite(tempoSuite)
    /\ tempoPc = "summary" => tempoAdapter = Len(TempoAdapters)
    /\ tempoPc = "done" /\ tempoExit = 0 =>
        /\ ValidSuite(tempoSuite) /\ tempoAdapter = Len(TempoAdapters)
        /\ ~Failed(rows) /\ ~Failed(nodeRows)

LEMMA TempoSizes ==
    /\ Len(TempoAdapters) \in Nat /\ 1 \in Numbers
    /\ TempoTypes => Size \in Nat /\ 1 \in 1..Size /\ \A i \in 1..Size : Suite(i) \in TempoScenario
<1>1. \A S, s : s \in Seq(S) \ {<<>>} => Len(s) \in Nat /\ 1 \in 1..Len(s)
  BY LenProperties, EmptySeq
<1>2. Len(TempoAdapters) \in Nat /\ 1 \in Numbers
  BY <1>1, TempoAssumption DEF Numbers
<1>3. ASSUME TempoTypes
      PROVE  Size \in Nat /\ 1 \in 1..Size /\ \A i \in 1..Size : Suite(i) \in TempoScenario
  <2>1. tempoSuite \in Seq(TempoScenario) \ {<<>>}
    BY <1>3, TempoAssumption DEF TempoTypes
  <2> QED BY <2>1, <1>1, ElementOfSeq DEF Size, Suite
<1> QED BY <1>2, <1>3

LEMMA TempoInitOK == TempoInit => TempoInv
<1> SUFFICES ASSUME NEW given \in TempoSuites, TempoStart(given) PROVE TempoInv
  BY DEF TempoInit
<1>1. Size = Len(given) /\ tempoPc = "load" /\ tempoAdapter = 1 /\ scenarioAt = 1
  BY DEF TempoStart, Size
<1>2. given \in Seq(TempoScenario) \ {<<>>}
  BY TempoAssumption
<1>3. Size \in Nat /\ 1 \in 1..Size
  BY <1>1, <1>2, LenProperties, EmptySeq
<1>4. 1 \in Numbers /\ Len(TempoAdapters) \in Nat
  BY TempoSizes
<1>5. TempoTypes
  <2>1. /\ rows = [a \in Numbers |-> [i \in 1..Size |-> ""]]
        /\ replies = [a \in Numbers |-> [i \in 1..Size |-> ""]]
        /\ nodeRows = [a \in Numbers |-> [i \in 1..Size |-> ""]]
        /\ problems = [a \in Numbers |-> [i \in 1..Size |-> {}]]
    BY DEF TempoStart, Blank, Size
  <2>2. tempoSuite \in TempoSuites
    BY DEF TempoStart
  <2>3. rows \in [Numbers -> [1..Size -> {"", "pass", "fail", "skipped"}]]
    BY <2>1
  <2>4. replies \in [Numbers -> [1..Size -> Replied]]
    BY <2>1 DEF Replied
  <2>5. nodeRows \in [Numbers -> [1..Size -> {"", "pass", "fail", "known", "skipped"}]]
    BY <2>1
  <2>6. problems \in [Numbers -> [1..Size -> SUBSET NodeProblems]]
    BY <2>1
  <2> QED BY <1>1, <1>3, <1>4, <2>2, <2>3, <2>4, <2>5, <2>6 DEF TempoTypes
<1>6. ASSUME NEW a \in Numbers, NEW i \in 1..Size PROVE ScenarioInv(a, i)
  <2>1. rows[a][i] = ""
    BY <1>6 DEF TempoStart, Blank, Size
  <2>2. ~Checked(a, i) /\ ~Reached(a, i)
    BY <1>1, <1>4 DEF Checked, Reached, Over, Numbers
  <2> QED BY <2>1, <2>2 DEF ScenarioInv
<1> QED BY <1>1, <1>5, <1>6 DEF TempoInv

LEMMA LoadSuiteKeeps == ASSUME TempoInv, LoadSuite PROVE TempoInv'
<1>1. /\ TempoTypes /\ tempoPc = "load" /\ tempoPc' \in {"vectors", "done"}
      /\ UNCHANGED <<tempoSuite, tempoAdapter, scenarioAt, rows, replies, nodeRows, problems>>
  BY DEF TempoInv, LoadSuite
<1>2. Size' = Size
  BY <1>1 DEF Size
<1>3. TempoTypes'
  BY <1>1, <1>2 DEF TempoTypes
<1>4. tempoAdapter' = 1 /\ scenarioAt' = 1
  BY <1>1 DEF TempoInv
<1>5. \/ tempoPc' = "vectors" /\ ValidSuite(tempoSuite)
      \/ tempoPc' = "done" /\ tempoExit' = 1
  BY DEF LoadSuite
<1>6. ValidSuite(tempoSuite)' <=> ValidSuite(tempoSuite)
  BY <1>1 DEF ValidSuite, SkipsExplained, RequiresEarlier, OnNode
<1>7. ASSUME NEW a \in Numbers, NEW i \in 1..Size PROVE ScenarioInv(a, i)'
  <2>1. ~Checked(a, i)' /\ ~Reached(a, i)'
    BY <1>4, <1>5, TempoSizes DEF Checked, Reached, Over, Numbers
  <2> QED BY <1>1, <2>1 DEF TempoInv, ScenarioInv
<1> QED BY <1>2, <1>3, <1>4, <1>5, <1>6, <1>7 DEF TempoInv

LEMMA Earlier ==
    ASSUME TempoTypes, NEW i \in 1..Size, NEW j \in 1..(i - 1)
    PROVE  j \in 1..Size /\ j # i /\ j < i
BY TempoSizes

LEMMA SameSuite ==
    ASSUME UNCHANGED tempoSuite
    PROVE  /\ Size' = Size /\ \A i \in 1..Size : Suite(i)' = Suite(i)
           /\ ValidSuite(tempoSuite)' <=> ValidSuite(tempoSuite)
BY DEF Size, Suite, ValidSuite, SkipsExplained, RequiresEarlier, OnNode

LEMMA VectorsGoOn ==
    ASSUME TempoTypes, tempoPc = "vectors", NextScenario, UNCHANGED <<tempoSuite, tempoAdapter>>
    PROVE  /\ tempoPc' \in {"vectors", "node"} /\ scenarioAt' \in 1..Size
           /\ \A a \in Numbers, i \in 1..Size :
                /\ Checked(a, i)' => Checked(a, i) \/ (a = tempoAdapter /\ i = scenarioAt)
                /\ Reached(a, i)' => Reached(a, i) /\ a # tempoAdapter
<1>1. Size \in Nat /\ 1 \in 1..Size /\ Len(TempoAdapters) \in Nat
  BY TempoSizes
<1>2. tempoAdapter' = tempoAdapter /\ tempoAdapter \in Numbers /\ scenarioAt \in 1..Size
  BY DEF TempoTypes
<1>3. CASE scenarioAt = Size
  BY <1>1, <1>2, <1>3 DEF NextScenario, Checked, Reached, Over, Numbers
<1>4. CASE scenarioAt # Size
  <2>1. scenarioAt' = scenarioAt + 1 /\ tempoPc' = "vectors"
    BY <1>4 DEF NextScenario
  <2>2. scenarioAt + 1 \in 1..Size
    BY <1>1, <1>2, <1>4
  <2> QED BY <1>1, <1>2, <2>1, <2>2 DEF Checked, Reached, Over, Numbers
<1> QED BY <1>3, <1>4

(* The scenario under way is answered or skipped.                          *)
LEMMA VectorStep ==
    ASSUME TempoInv, tempoPc = "vectors", NextScenario,
           UNCHANGED <<tempoSuite, tempoAdapter, nodeRows, problems, tempoExit>>,
           NEW row \in {"", "pass", "fail", "skipped"}, NEW reply \in Replied,
           rows' = [rows EXCEPT ![tempoAdapter][scenarioAt] = row],
           replies' = [replies EXCEPT ![tempoAdapter][scenarioAt] = reply],
           row = "pass" => reply = "right",
           Suite(scenarioAt).selected =>
               \/ row \in {"pass", "fail"}
               \/ row = "skipped" /\ SkipReason(tempoAdapter, Suite(scenarioAt)) # ""
    PROVE  TempoInv'
<1>1. /\ TempoTypes /\ ValidSuite(tempoSuite) /\ tempoAdapter \in Numbers
      /\ scenarioAt \in 1..Size /\ Size' = Size
      /\ \A i \in 1..Size : Suite(i)' = Suite(i)
      /\ ValidSuite(tempoSuite)'
  BY SameSuite DEF TempoInv, TempoTypes
<1>3. tempoPc' \in {"vectors", "node"} /\ scenarioAt' \in 1..Size
  BY <1>1, VectorsGoOn
<1>4. \A a \in Numbers, i \in 1..Size : a # tempoAdapter \/ i # scenarioAt =>
        rows'[a][i] = rows[a][i] /\ replies'[a][i] = replies[a][i]
  BY <1>1 DEF TempoTypes
<1>5. rows'[tempoAdapter][scenarioAt] = row /\ replies'[tempoAdapter][scenarioAt] = reply
  BY <1>1 DEF TempoTypes
<1>6. TempoTypes'
  <2>1. rows' \in [Numbers -> [1..Size -> {"", "pass", "fail", "skipped"}]]
    BY <1>1 DEF TempoTypes
  <2>2. replies' \in [Numbers -> [1..Size -> Replied]]
    BY <1>1 DEF TempoTypes
  <2> QED BY <1>1, <1>3, <2>1, <2>2 DEF TempoTypes
<1>7. \A a \in Numbers, i \in 1..Size :
        /\ Checked(a, i)' => Checked(a, i) \/ (a = tempoAdapter /\ i = scenarioAt)
        /\ Reached(a, i)' => Reached(a, i) /\ a # tempoAdapter
  BY <1>1, VectorsGoOn
<1>8. ASSUME NEW a \in Numbers, NEW i \in 1..Size PROVE ScenarioInv(a, i)'
  <2>1. ScenarioInv(a, i) /\ Suite(i)' = Suite(i)
    BY <1>1 DEF TempoInv
  <2>2. CASE a = tempoAdapter /\ i = scenarioAt
    <3>1. ~Reached(a, i)'
      BY <2>2, <1>7
    <3>2. rows'[a][i] = row /\ replies'[a][i] = reply
      BY <2>2, <1>5
    <3> QED BY <2>1, <2>2, <3>1, <3>2 DEF ScenarioInv, RowExplained
  <2>3. CASE a # tempoAdapter \/ i # scenarioAt
    <3>1. rows'[a][i] = rows[a][i] /\ replies'[a][i] = replies[a][i]
      BY <2>3, <1>4
    <3>2. Checked(a, i)' => Checked(a, i)
      BY <2>3, <1>7
    <3>3. Reached(a, i)' /\ NodeExplained(a, i) => NodeExplained(a, i)'
      <4>1. \A j \in 1..(i - 1) : j \in 1..Size
        BY <1>1, Earlier
      <4> QED BY <1>1, <2>1, <3>1, <4>1 DEF NodeExplained, Unsigned, LacksRequired
    <3> QED BY <1>7, <2>1, <3>1, <3>2, <3>3 DEF ScenarioInv, RowExplained
  <2> QED BY <2>2, <2>3
<1> QED BY <1>1, <1>3, <1>6, <1>8 DEF TempoInv

LEMMA ScenarioKeeps == ASSUME TempoInv, SkipScenario \/ RunScenario PROVE TempoInv'
<1>1. TempoTypes /\ tempoAdapter \in Numbers /\ scenarioAt \in 1..Size
  BY DEF TempoInv, TempoTypes
<1> DEFINE row == rows[tempoAdapter][scenarioAt]
           reply == replies[tempoAdapter][scenarioAt]
<1>2. row \in {"", "pass", "fail", "skipped"} /\ reply \in Replied
  BY <1>1 DEF TempoTypes
<1>3. rows = [rows EXCEPT ![tempoAdapter][scenarioAt] = row]
      /\ replies = [replies EXCEPT ![tempoAdapter][scenarioAt] = reply]
  BY <1>1 DEF TempoTypes
<1>4. row = "pass" => reply = "right"
  BY <1>1 DEF TempoInv, ScenarioInv
<1>5. ASSUME SkipScenario PROVE TempoInv'
  <2>1. CASE Suite(scenarioAt).selected
    BY <1>2, <1>3, <1>5, <2>1, VectorStep DEF SkipScenario
  <2>2. CASE ~Suite(scenarioAt).selected
    BY <1>2, <1>3, <1>4, <1>5, <2>2, VectorStep DEF SkipScenario
  <2> QED BY <2>1, <2>2
<1>6. ASSUME RunScenario PROVE TempoInv'
  <2>1. PICK r \in TempoReplies :
          /\ replies' = [replies EXCEPT ![tempoAdapter][scenarioAt] = r]
          /\ rows' = [rows EXCEPT ![tempoAdapter][scenarioAt] =
                        IF r = "right" THEN "pass" ELSE "fail"]
    BY <1>6 DEF RunScenario, SameReply
  <2> DEFINE status == IF r = "right" THEN "pass" ELSE "fail"
  <2>2. /\ status \in {"", "pass", "fail", "skipped"} /\ r \in Replied
        /\ status = "pass" => r = "right"
        /\ status \in {"pass", "fail"}
    BY TempoAssumption DEF Replied
  <2>3. rows' = [rows EXCEPT ![tempoAdapter][scenarioAt] = status]
    BY <2>1
  <2> HIDE DEF status
  <2> QED BY <1>6, <2>1, <2>2, <2>3, VectorStep DEF RunScenario
<1> QED BY <1>5, <1>6

LEMMA NodeGoesOn ==
    ASSUME TempoTypes, tempoPc = "node", NextOnNode, UNCHANGED <<tempoSuite>>
    PROVE  /\ tempoPc' \in {"node", "vectors", "summary"}
           /\ scenarioAt' \in 1..Size /\ tempoAdapter' \in Numbers
           /\ tempoPc' = "summary" => tempoAdapter' = Len(TempoAdapters)
           /\ \A a \in Numbers, i \in 1..Size :
                /\ Checked(a, i)' => Checked(a, i)
                /\ Reached(a, i)' => Reached(a, i) \/ (a = tempoAdapter /\ i = scenarioAt)
<1>1. Size \in Nat /\ 1 \in 1..Size /\ Len(TempoAdapters) \in Nat
  BY TempoSizes
<1>2. tempoAdapter \in Numbers /\ scenarioAt \in 1..Size
  BY DEF TempoTypes
<1>3. CASE scenarioAt = Size /\ tempoAdapter = Len(TempoAdapters)
  BY <1>1, <1>2, <1>3 DEF NextOnNode, EndNode, Checked, Reached, Over, Numbers
<1>4. CASE scenarioAt = Size /\ tempoAdapter # Len(TempoAdapters)
  <2>1. tempoPc' = "vectors" /\ scenarioAt' = 1 /\ tempoAdapter' = tempoAdapter + 1
    BY <1>4 DEF NextOnNode, EndNode
  <2>2. tempoAdapter + 1 \in Numbers
    BY <1>1, <1>2, <1>4 DEF Numbers
  <2>3. \A a \in Numbers : a < tempoAdapter + 1 => a < tempoAdapter \/ a = tempoAdapter
    BY <1>1, <1>2 DEF Numbers
  <2>4. \A i \in 1..Size : ~(i < 1)
    OBVIOUS
  <2> QED BY <1>1, <2>1, <2>2, <2>3, <2>4, <1>4, <1>2 DEF Checked, Reached, Over, Numbers
<1>5. CASE scenarioAt # Size
  <2>1. scenarioAt' = scenarioAt + 1 /\ tempoPc' = "node" /\ tempoAdapter' = tempoAdapter
    BY <1>5 DEF NextOnNode
  <2>2. scenarioAt + 1 \in 1..Size
    BY <1>1, <1>2, <1>5
  <2> QED BY <1>1, <1>2, <2>1, <2>2 DEF Checked, Reached, Over, Numbers
<1> QED BY <1>3, <1>4, <1>5

LEMMA PastOnNode ==
    ASSUME TempoTypes, tempoPc = "node", NEW i \in 1..Size, Reached(tempoAdapter, i),
           NEW j \in 1..(i - 1)
    PROVE  j # scenarioAt
<1>1. Size \in Nat /\ Len(TempoAdapters) \in Nat
  BY TempoSizes
<1>2. tempoAdapter \in Int /\ scenarioAt \in Int
  <2>1. tempoAdapter \in 1..Len(TempoAdapters) /\ scenarioAt \in 1..Size
    BY DEF TempoTypes, Numbers
  <2> HIDE DEF Reached
  <2> QED BY <1>1, <2>1
<1>3. i < scenarioAt
  BY <1>2 DEF Reached, Over
<1> QED BY <1>1, <1>2, <1>3

(* The node answers, or the scenario is passed over or skipped there.      *)
LEMMA NodeStep ==
    ASSUME TempoInv, tempoPc = "node", NextOnNode,
           UNCHANGED <<tempoSuite, rows, replies, tempoExit>>,
           NEW status \in {"", "pass", "fail", "known", "skipped"},
           NEW found \in SUBSET NodeProblems,
           nodeRows' = [nodeRows EXCEPT ![tempoAdapter][scenarioAt] = status],
           problems' = [problems EXCEPT ![tempoAdapter][scenarioAt] = found],
           OnNode(Suite(scenarioAt)) /\ rows[tempoAdapter][scenarioAt] # "" =>
               \/ status = "fail"
               \/ status \in {"pass", "known"} /\ found = Suite(scenarioAt).node.known
               \/ /\ status = "skipped"
                  /\ Unsigned(tempoAdapter, scenarioAt) \/ LacksRequired(tempoAdapter, scenarioAt)
    PROVE  TempoInv'
<1>1. /\ TempoTypes /\ tempoAdapter \in Numbers
      /\ scenarioAt \in 1..Size /\ Size' = Size
      /\ \A i \in 1..Size : Suite(i)' = Suite(i)
      /\ ValidSuite(tempoSuite)'
  BY SameSuite DEF TempoInv, TempoTypes
<1>2. /\ tempoPc' \in {"node", "vectors", "summary"}
      /\ scenarioAt' \in 1..Size /\ tempoAdapter' \in Numbers
      /\ tempoPc' = "summary" => tempoAdapter' = Len(TempoAdapters)
      /\ \A a \in Numbers, i \in 1..Size :
           /\ Checked(a, i)' => Checked(a, i)
           /\ Reached(a, i)' => Reached(a, i) \/ (a = tempoAdapter /\ i = scenarioAt)
  BY <1>1, NodeGoesOn
<1>3. \A a \in Numbers, i \in 1..Size : a # tempoAdapter \/ i # scenarioAt =>
        nodeRows'[a][i] = nodeRows[a][i] /\ problems'[a][i] = problems[a][i]
  BY <1>1 DEF TempoTypes
<1>4. nodeRows'[tempoAdapter][scenarioAt] = status /\ problems'[tempoAdapter][scenarioAt] = found
  BY <1>1 DEF TempoTypes
<1>5. TempoTypes'
  <2>1. nodeRows' \in [Numbers -> [1..Size -> {"", "pass", "fail", "known", "skipped"}]]
    BY <1>1 DEF TempoTypes
  <2>2. problems' \in [Numbers -> [1..Size -> SUBSET NodeProblems]]
    BY <1>1 DEF TempoTypes
  <2> QED BY <1>1, <1>2, <2>1, <2>2 DEF TempoTypes
<1>6. ASSUME NEW a \in Numbers, NEW i \in 1..Size,
             \A j \in 1..(i - 1) : a # tempoAdapter \/ j # scenarioAt
      PROVE  /\ Unsigned(a, i) => Unsigned(a, i)'
             /\ LacksRequired(a, i) => LacksRequired(a, i)'
  <2>1. \A j \in 1..(i - 1) : j \in 1..Size /\ nodeRows'[a][j] = nodeRows[a][j]
    BY <1>1, <1>3, <1>6, Earlier
  <2> QED BY <1>1, <2>1 DEF Unsigned, LacksRequired
<1>7. ASSUME NEW a \in Numbers, NEW i \in 1..Size PROVE ScenarioInv(a, i)'
  <2>1. ScenarioInv(a, i) /\ Suite(i)' = Suite(i)
    BY <1>1 DEF TempoInv
  <2>2. CASE a = tempoAdapter /\ i = scenarioAt
    <3>1. \A j \in 1..(i - 1) : j # scenarioAt
      BY <1>1, <2>2, Earlier
    <3>2. nodeRows'[a][i] = status /\ problems'[a][i] = found
      BY <2>2, <1>4
    <3>3. OnNode(Suite(i)) /\ rows[a][i] # "" => NodeExplained(a, i)'
      BY <2>1, <2>2, <3>1, <3>2, <1>6 DEF NodeExplained
    <3> QED BY <2>1, <1>2, <3>3 DEF ScenarioInv, RowExplained
  <2>3. CASE a # tempoAdapter \/ i # scenarioAt
    <3>1. nodeRows'[a][i] = nodeRows[a][i] /\ problems'[a][i] = problems[a][i]
      BY <2>3, <1>3
    <3>2. Reached(a, i)' => Reached(a, i)
      BY <2>3, <1>2
    <3>3. ASSUME Reached(a, i), NEW j \in 1..(i - 1) PROVE a # tempoAdapter \/ j # scenarioAt
      <4>1. CASE a = tempoAdapter
        BY <1>1, <3>3, <4>1, PastOnNode
      <4> QED BY <4>1
    <3>4. Reached(a, i) /\ NodeExplained(a, i) => NodeExplained(a, i)'
      BY <2>1, <3>1, <3>3, <1>6 DEF NodeExplained
    <3> QED BY <1>2, <2>1, <3>2, <3>4 DEF ScenarioInv, RowExplained
  <2> QED BY <2>2, <2>3
<1> QED BY <1>1, <1>2, <1>5, <1>7 DEF TempoInv

(* What the node stage skips has its reason.                               *)
LEMMA SkippedForReason ==
    ASSUME TempoInv, SkipOnNode
    PROVE  Unsigned(tempoAdapter, scenarioAt) \/ LacksRequired(tempoAdapter, scenarioAt)
<1> DEFINE a == tempoAdapter
           i == scenarioAt
<1>1. /\ TempoTypes /\ ValidSuite(tempoSuite) /\ tempoPc = "node"
      /\ a \in Numbers /\ i \in 1..Size /\ rows[a][i] # ""
  BY DEF TempoInv, TempoTypes, SkipOnNode
<1>2. CASE NoTransaction(a, i)
  <2>1. rows[a][i] \in {"pass", "fail", "skipped"}
    <3>1. rows[a] \in [1..Size -> {"", "pass", "fail", "skipped"}]
      BY <1>1 DEF TempoTypes
    <3>2. rows[a][i] \in {"", "pass", "fail", "skipped"}
      BY <1>1, <3>1
    <3> QED BY <1>1, <3>2
  <2>2. rows[a][i] = "pass" => replies[a][i] = "right"
    BY <1>1 DEF TempoInv, ScenarioInv
  <2> QED BY <1>2, <2>1, <2>2 DEF NoTransaction, Signed, Unsigned
<1>3. CASE ~Required(a, i)
  <2>1. PICK j \in 1..Size : /\ Suite(j).name \in Suite(i).node.requires
                             /\ nodeRows[a][j] \notin {"pass", "known"}
    BY <1>3 DEF Required
  <2>2. PICK k \in 1..(i - 1) : Suite(k).name = Suite(j).name /\ OnNode(Suite(k))
    BY <1>1, <2>1 DEF ValidSuite, RequiresEarlier, Suite, Size
  <2>3. k \in 1..Size /\ k < i
    BY <1>1, Earlier
  <2>4. k = j
    BY <1>1, <2>2, <2>3 DEF ValidSuite, Suite, Size
  <2>5. Checked(a, j) /\ Reached(a, j) /\ ScenarioInv(a, j)
    BY <1>1, <2>3, <2>4 DEF Checked, Reached, TempoInv
  <2>6. ~Suite(j).selected \/ nodeRows[a][j] \in {"skipped", "fail"}
    BY <2>1, <2>2, <2>4, <2>5 DEF ScenarioInv, RowExplained, NodeExplained
  <2> QED BY <2>1, <2>4, <2>6 DEF LacksRequired
<1> QED BY <1>2, <1>3 DEF SkipOnNode

LEMMA NodeKeeps ==
    ASSUME TempoInv, PassOver \/ SkipOnNode \/ \E f \in SUBSET NodeProblems : SubmitTempo(f)
    PROVE  TempoInv'
<1>1. TempoTypes /\ tempoAdapter \in Numbers /\ scenarioAt \in 1..Size
  BY DEF TempoInv, TempoTypes
<1> DEFINE status == nodeRows[tempoAdapter][scenarioAt]
           found == problems[tempoAdapter][scenarioAt]
<1>2. status \in {"", "pass", "fail", "known", "skipped"} /\ found \in SUBSET NodeProblems
  BY <1>1 DEF TempoTypes
<1>3. nodeRows = [nodeRows EXCEPT ![tempoAdapter][scenarioAt] = status]
      /\ problems = [problems EXCEPT ![tempoAdapter][scenarioAt] = found]
  BY <1>1 DEF TempoTypes
<1> HIDE DEF status, found
<1>4. CASE PassOver
  BY <1>2, <1>3, <1>4, NodeStep DEF PassOver
<1>5. CASE SkipOnNode
  BY <1>2, <1>3, <1>5, SkippedForReason, NodeStep DEF SkipOnNode
<1>6. ASSUME NEW f \in SUBSET NodeProblems, SubmitTempo(f) PROVE TempoInv'
  <2> DEFINE given == NodeStatus(Suite(scenarioAt), f)
  <2>1. given \in {"pass", "fail", "known"}
        /\ (given \in {"pass", "known"} => f = Suite(scenarioAt).node.known)
    BY DEF NodeStatus
  <2>2. nodeRows' = [nodeRows EXCEPT ![tempoAdapter][scenarioAt] = given]
    BY <1>6 DEF SubmitTempo
  <2> HIDE DEF given
  <2> QED BY <1>6, <2>1, <2>2, NodeStep DEF SubmitTempo
<1> QED BY <1>4, <1>5, <1>6

LEMMA SumUpRunKeeps == ASSUME TempoInv, SumUpRun PROVE TempoInv'
<1>1. /\ TempoTypes /\ tempoPc = "summary" /\ tempoPc' = "done" /\ tempoExit' \in {0, 1}
      /\ UNCHANGED <<tempoSuite, tempoAdapter, scenarioAt, rows, replies, nodeRows, problems>>
      /\ ValidSuite(tempoSuite) /\ tempoAdapter = Len(TempoAdapters)
      /\ tempoExit' = 0 => ~Failed(rows) /\ ~Failed(nodeRows)
  BY DEF TempoInv, SumUpRun
<1>2. /\ Size' = Size /\ \A i \in 1..Size : Suite(i)' = Suite(i)
      /\ ValidSuite(tempoSuite)'
  BY <1>1, SameSuite
<1>3. TempoTypes'
  BY <1>1, <1>2 DEF TempoTypes
<1>4. \A a \in Numbers, i \in 1..Size :
        (Checked(a, i)' => Checked(a, i)) /\ (Reached(a, i)' => Reached(a, i))
  BY <1>1 DEF Checked, Reached, Over
<1>5. ASSUME NEW a \in Numbers, NEW i \in 1..Size PROVE ScenarioInv(a, i)'
  <2>1. ScenarioInv(a, i) /\ Suite(i)' = Suite(i) /\ \A j \in 1..(i - 1) : Suite(j)' = Suite(j)
    BY <1>1, <1>2, Earlier DEF TempoInv
  <2> QED BY <1>1, <1>4, <2>1 DEF ScenarioInv, RowExplained, NodeExplained, Unsigned,
             LacksRequired
<1>6. tempoExit' = 0 => ~Failed(rows)' /\ ~Failed(nodeRows)'
  BY <1>1, <1>2 DEF Failed
<1> QED BY <1>1, <1>2, <1>3, <1>5, <1>6 DEF TempoInv

(* TempoInv is an invariant of tempo-conformance's run.py.                 *)
THEOREM TempoInvariant == TempoSpec => []TempoInv
<1>1. TempoInv /\ [TempoNext]_tempoVars => TempoInv'
  <2> SUFFICES ASSUME TempoInv, [TempoNext]_tempoVars PROVE TempoInv'
    OBVIOUS
  <2>1. CASE UNCHANGED tempoVars
    <3>1. UNCHANGED <<tempoSuite, tempoPc, tempoAdapter, scenarioAt, rows, replies, nodeRows,
                      problems, tempoExit>>
      BY <2>1 DEF tempoVars
    <3>2. Size' = Size /\ Failed(rows)' = Failed(rows) /\ Failed(nodeRows)' = Failed(nodeRows)
          /\ (ValidSuite(tempoSuite)' <=> ValidSuite(tempoSuite))
      BY <3>1, SameSuite DEF Failed, Size
    <3>3. TempoTypes'
      BY <3>1, <3>2 DEF TempoInv, TempoTypes
    <3>4. \A a \in Numbers, i \in 1..Size : ScenarioInv(a, i)'
      <4> TAKE a \in Numbers, i \in 1..Size
      <4>1. Suite(i)' = Suite(i) /\ \A j \in 1..(i - 1) : Suite(j)' = Suite(j)
        BY <3>1 DEF Suite
      <4>2. (Checked(a, i)' => Checked(a, i)) /\ (Reached(a, i)' => Reached(a, i))
        BY <3>1 DEF Checked, Reached, Over
      <4>3. ScenarioInv(a, i)
        BY DEF TempoInv
      <4> QED BY <3>1, <4>1, <4>2, <4>3 DEF ScenarioInv, RowExplained, NodeExplained,
                 Unsigned, LacksRequired
    <3> QED BY <3>1, <3>2, <3>3, <3>4 DEF TempoInv
  <2>2. CASE TempoNext
    BY <2>2, LoadSuiteKeeps, ScenarioKeeps, NodeKeeps, SumUpRunKeeps DEF TempoNext
  <2> QED BY <2>1, <2>2
<1> QED BY <1>1, TempoInitOK, PTL DEF TempoSpec

(* A conformance run that ends with exit code 0 has verified every         *)
(* scenario that it selected, on the adapter and on the node, or has a     *)
(* reason on record for what it skipped.                                   *)
THEOREM SkipsAreExplained == TempoSpec => []SuccessExplainsSkips
<1>1. ASSUME TempoInv PROVE SuccessExplainsSkips
  <2> SUFFICES ASSUME tempoPc = "done", tempoExit = 0,
                      NEW a \in Numbers, NEW i \in 1..Size, Suite(i).selected
               PROVE  /\ \/ rows[a][i] = "pass"
                         \/ /\ rows[a][i] = "skipped"
                            /\ \/ TempoAdapters[a].name \in Suite(i).reasons
                               \/ Suite(i).operation \notin TempoAdapters[a].capabilities
                      /\ OnNode(Suite(i)) =>
                           \/ /\ nodeRows[a][i] \in {"pass", "known"}
                              /\ problems[a][i] = Suite(i).node.known
                           \/ /\ nodeRows[a][i] = "skipped"
                              /\ \/ /\ Suite(i).operation = "tx.sign"
                                    /\ rows[a][i] = "skipped" \/ ~Suite(i).signs
                                 \/ \E j \in 1..(i - 1) :
                                      /\ Suite(j).name \in Suite(i).node.requires
                                      /\ ~Suite(j).selected \/ nodeRows[a][j] = "skipped"
    BY DEF SuccessExplainsSkips
  <2>1. /\ ValidSuite(tempoSuite) /\ tempoAdapter = Len(TempoAdapters)
        /\ \A j \in 1..Size : rows[a][j] # "fail" /\ nodeRows[a][j] # "fail"
        /\ TempoTypes /\ ScenarioInv(a, i)
    BY <1>1 DEF TempoInv, Failed
  <2>2. Checked(a, i) /\ Reached(a, i)
    BY <2>1, TempoSizes DEF Checked, Reached, Over, Numbers
  <2>3. RowExplained(a, i) /\ rows[a][i] # "fail"
    BY <2>1, <2>2 DEF ScenarioInv
  <2>4. SkipReason(a, Suite(i)) # "" =>
          \/ TempoAdapters[a].name \in Suite(i).reasons
          \/ Suite(i).operation \notin TempoAdapters[a].capabilities
    <3>1. SkipsExplained(Suite(i))
      BY <2>1 DEF ValidSuite, Suite, Size
    <3>2. TempoAdapters[a].name \in TempoNames
      BY DEF TempoNames
    <3> QED BY <3>1, <3>2 DEF SkipReason, SkipsExplained
  <2>5. OnNode(Suite(i)) => NodeExplained(a, i)
    BY <2>1, <2>2, <2>3 DEF ScenarioInv, RowExplained
  <2>6. \A j \in 1..(i - 1) : nodeRows[a][j] # "fail"
    BY <2>1, Earlier
  <2> QED BY <2>1, <2>3, <2>4, <2>5, <2>6
          DEF RowExplained, NodeExplained, Unsigned, LacksRequired
<1> QED BY <1>1, TempoInvariant, PTL

(***************************************************************************)
(* vector_runner.py                                                        *)
(***************************************************************************)

IsSeq(s) == \E S : s \in Seq(S)

LEMMA UpToNext ==
    ASSUME NEW n \in Nat PROVE \A k \in 1..(n + 1) : k \in 1..n \/ k = n + 1
OBVIOUS

(* A result is appended to a list.                                         *)
Extends(t, s, e) ==
    /\ IsSeq(t) /\ Len(s) \in Nat /\ Len(t) = Len(s) + 1
    /\ \A k \in 1..Len(s) : k \in 1..Len(t) /\ t[k] = s[k]
    /\ \A k \in 1..Len(t) : k \in 1..Len(s) \/ k = Len(t)
    /\ t[Len(t)] = e

LEMMA ResultAppended ==
    ASSUME NEW s, IsSeq(s), NEW e PROVE Extends(Append(s, e), s, e)
<1>1. PICK S : s \in Seq(S)
  BY DEF IsSeq
<1> DEFINE T == S \cup {e}
           t == Append(s, e)
<1>2. s \in Seq(T)
  BY <1>1
<1> HIDE DEF T
<1>3. e \in T
  BY DEF T
<1>4. /\ t \in Seq(T) /\ Len(t) = Len(s) + 1 /\ Len(s) \in Nat
      /\ \A k \in 1..Len(s) : t[k] = s[k]
      /\ t[Len(s) + 1] = e
  BY <1>2, <1>3, AppendProperties, LenProperties
<1>5. \A k \in 1..(Len(s) + 1) : k \in 1..Len(s) \/ k = Len(s) + 1
  BY <1>4, UpToNext
<1>6. \A k \in 1..Len(s) : k \in 1..(Len(s) + 1)
  BY <1>4
<1> HIDE DEF t
<1> QED BY <1>4, <1>5, <1>6 DEF IsSeq, Extends

(* A set of numbers has a least one.                                       *)
LEMMA LeastNumber ==
    ASSUME NEW S \in SUBSET Nat, S # {}
    PROVE  \E m \in S : \A k \in S : m <= k
<1> DEFINE R == {ss \in Nat \X Nat : ss[1] < ss[2]}
<1>1. IsWellFoundedOn(R, Nat)
  BY NatLessThanWellFounded DEF OpToRel
<1>2. PICK m \in S : \A y \in S : ~(<<y, m>> \in R)
  <2> HIDE DEF R
  <2> QED BY <1>1, WFMin
<1>3. ASSUME NEW k \in S PROVE m <= k
  <2>1. ~(<<k, m>> \in R)
    BY <1>2
  <2> QED BY <2>1
<1> QED BY <1>3

(* What \o makes of two sequences.                                         *)
Joins(u, s, t) ==
    /\ IsSeq(u) /\ Len(s) \in Nat /\ Len(t) \in Nat /\ Len(u) = Len(s) + Len(t)
    /\ \A k \in 1..Len(s) : k \in 1..Len(u) /\ u[k] = s[k]
    /\ \A k \in 1..Len(t) : Len(s) + k \in 1..Len(u) /\ u[Len(s) + k] = t[k]
    /\ \A k \in 1..Len(u) : \/ k \in 1..Len(s)
                            \/ k - Len(s) \in 1..Len(t) /\ k = Len(s) + (k - Len(s))

LEMMA SequencesJoined ==
    ASSUME NEW s, NEW t, IsSeq(s), IsSeq(t) PROVE Joins(s \o t, s, t)
<1>1. PICK S : s \in Seq(S)
  BY DEF IsSeq
<1>2. PICK T : t \in Seq(T)
  BY DEF IsSeq
<1> DEFINE B == S \cup T
           u == s \o t
<1>3. s \in Seq(B) /\ t \in Seq(B)
  BY <1>1, <1>2
<1> HIDE DEF B
<1>4. /\ u \in Seq(B) /\ Len(u) = Len(s) + Len(t)
      /\ Len(s) \in Nat /\ Len(t) \in Nat
      /\ \A i \in 1..Len(s) + Len(t) : u[i] = IF i <= Len(s) THEN s[i] ELSE t[i - Len(s)]
  BY <1>3, ConcatProperties, LenProperties
<1> HIDE DEF u
<1>5. \A k \in 1..Len(s) : k \in 1..Len(u) /\ u[k] = s[k]
  BY <1>4
<1>6. \A k \in 1..Len(t) : Len(s) + k \in 1..Len(u) /\ u[Len(s) + k] = t[k]
  <2> SUFFICES ASSUME NEW k \in 1..Len(t)
               PROVE  Len(s) + k \in 1..Len(u) /\ u[Len(s) + k] = t[k]
    OBVIOUS
  <2>1. Len(s) + k \in 1..Len(s) + Len(t) /\ ~(Len(s) + k <= Len(s)) /\ (Len(s) + k) - Len(s) = k
    BY <1>4
  <2> QED BY <1>4, <2>1
<1>7. \A k \in 1..Len(u) : \/ k \in 1..Len(s)
                           \/ k - Len(s) \in 1..Len(t) /\ k = Len(s) + (k - Len(s))
  BY <1>4
<1>8. IsSeq(u)
  BY <1>4 DEF IsSeq
<1>9. Joins(u, s, t)
  BY <1>4, <1>5, <1>6, <1>7, <1>8 DEF Joins
<1> QED BY <1>9 DEF u

Sorted(s) == \A i, j \in 1..Len(s) : i < j => Before(s[i], s[j])

LEMMA SortedJoined ==
    ASSUME NEW u, NEW s, NEW t, Joins(u, s, t), Sorted(s), Sorted(t),
           \A i \in 1..Len(s), j \in 1..Len(t) : Before(s[i], t[j])
    PROVE  Sorted(u)
<1> SUFFICES ASSUME NEW i \in 1..Len(u), NEW j \in 1..Len(u), i < j
             PROVE  Before(u[i], u[j])
  BY DEF Sorted
<1>1. Len(s) \in Nat /\ Len(t) \in Nat /\ Len(u) = Len(s) + Len(t)
  BY DEF Joins
<1>2. CASE j \in 1..Len(s)
  <2>1. i \in 1..Len(s)
    BY <1>1, <1>2
  <2>2. u[i] = s[i] /\ u[j] = s[j]
    BY <1>2, <2>1 DEF Joins
  <2> QED BY <1>2, <2>1, <2>2 DEF Sorted
<1>3. CASE i \in 1..Len(s) /\ j \notin 1..Len(s)
  <2>1. j - Len(s) \in 1..Len(t) /\ u[j] = t[j - Len(s)]
    BY <1>3 DEF Joins
  <2>2. u[i] = s[i]
    BY <1>3 DEF Joins
  <2> QED BY <1>3, <2>1, <2>2
<1>4. CASE i \notin 1..Len(s)
  <2>1. i - Len(s) \in 1..Len(t) /\ u[i] = t[i - Len(s)]
    BY <1>4 DEF Joins
  <2>2. j \notin 1..Len(s)
    BY <1>1, <1>4
  <2>3. j - Len(s) \in 1..Len(t) /\ u[j] = t[j - Len(s)]
    BY <2>2 DEF Joins
  <2>4. i - Len(s) < j - Len(s)
    BY <1>1
  <2> QED BY <2>1, <2>3, <2>4 DEF Sorted
<1> QED BY <1>2, <1>3, <1>4

LEMMA SortedAppended ==
    ASSUME NEW u, NEW s, NEW e, Extends(u, s, e), Sorted(s),
           \A i \in 1..Len(s) : Before(s[i], e)
    PROVE  Sorted(u)
<1> SUFFICES ASSUME NEW i \in 1..Len(u), NEW j \in 1..Len(u), i < j
             PROVE  Before(u[i], u[j])
  BY DEF Sorted
<1>1. i \in 1..Len(s)
  BY DEF Extends
<1>2. u[i] = s[i]
  BY <1>1 DEF Extends
<1>3. CASE j \in 1..Len(s)
  BY <1>1, <1>2, <1>3 DEF Extends, Sorted
<1>4. CASE j = Len(u)
  BY <1>1, <1>2, <1>4 DEF Extends
<1> QED BY <1>3, <1>4 DEF Extends

(* The function InOrder defines exists: the least m up to which there is   *)
(* none would not be the least.                                            *)
Adds(f, m) ==
    f = [n \in 0..m |-> IF n = 0 THEN <<>> ELSE f[n - 1] \o collected[n].items]

LEMMA AddsUpTo == \A m \in Nat : \E f : Adds(f, m)
<1> DEFINE S == {m \in Nat : ~\E f : Adds(f, m)}
<1>1. SUFFICES ASSUME S # {} PROVE FALSE
  OBVIOUS
<1>2. PICK m \in S : \A k \in S : m <= k
  <2>1. S \in SUBSET Nat
    OBVIOUS
  <2> HIDE DEF S
  <2> QED BY <1>1, <2>1, LeastNumber
<1>3. CASE m = 0
  <2> DEFINE f == [n \in 0..0 |-> <<>>]
  <2>1. f = [n \in 0..0 |-> IF n = 0 THEN <<>> ELSE f[n - 1] \o collected[n].items]
    OBVIOUS
  <2> QED BY <1>3, <2>1 DEF Adds
<1>4. CASE m # 0
  <2>1. m - 1 \in Nat /\ m - 1 \notin S
    BY <1>2, <1>4
  <2>2. PICK g : Adds(g, m - 1)
    BY <2>1
  <2> DEFINE f == [n \in 0..m |-> IF n = 0 THEN <<>> ELSE g[n - 1] \o collected[n].items]
  <2>3. \A n \in 0..(m - 1) : f[n] = g[n]
    <3> SUFFICES ASSUME NEW n \in 0..(m - 1) PROVE f[n] = g[n]
      OBVIOUS
    <3>1. n \in 0..m
      BY <2>1
    <3>2. g[n] = IF n = 0 THEN <<>> ELSE g[n - 1] \o collected[n].items
      BY <2>2 DEF Adds
    <3> QED BY <3>1, <3>2
  <2>4. \A n \in 0..m : n # 0 => n - 1 \in 0..(m - 1)
    BY <2>1
  <2>5. f = [n \in 0..m |-> IF n = 0 THEN <<>> ELSE f[n - 1] \o collected[n].items]
    <3>1. \A n \in 0..m : (IF n = 0 THEN <<>> ELSE g[n - 1] \o collected[n].items)
                          = (IF n = 0 THEN <<>> ELSE f[n - 1] \o collected[n].items)
      <4> HIDE DEF f
      <4> QED BY <2>3, <2>4
    <3> DEFINE F(n) == IF n = 0 THEN <<>> ELSE f[n - 1] \o collected[n].items
               G(n) == IF n = 0 THEN <<>> ELSE g[n - 1] \o collected[n].items
    <3>2. \A n \in 0..m : G(n) = F(n)
      BY <3>1
    <3>3. f = [n \in 0..m |-> G(n)]
      OBVIOUS
    <3> HIDE DEF F, G, f
    <3>4. f = [n \in 0..m |-> F(n)]
      BY <3>2, <3>3
    <3> QED BY <3>4 DEF F
  <2> HIDE DEF f
  <2> QED BY <2>5 DEF Adds
<1> QED BY <1>3, <1>4

LEMMA InOrderAdds ==
    ASSUME Len(collected) \in Nat PROVE Adds(InOrder, Len(collected))
<1>1. PICK f : Adds(f, Len(collected))
  BY AddsUpTo
<1> QED BY <1>1 DEF InOrder, Adds

LEMMA InOrderIs ==
    ASSUME Len(collected) \in Nat
    PROVE  /\ InOrder[0] = <<>>
           /\ \A n \in 1..Len(collected) : InOrder[n] = InOrder[n - 1] \o collected[n].items
<1> DEFINE f == InOrder
<1>1. Adds(f, Len(collected))
  BY InOrderAdds
<1> HIDE DEF f
<1>2. f[0] = <<>>
  BY <1>1 DEF Adds
<1>3. \A n \in 1..Len(collected) : f[n] = f[n - 1] \o collected[n].items
  <2> SUFFICES ASSUME NEW n \in 1..Len(collected)
               PROVE  f[n] = f[n - 1] \o collected[n].items
    OBVIOUS
  <2>1. n \in 0..Len(collected) /\ n # 0
    OBVIOUS
  <2> QED BY <1>1, <2>1 DEF Adds
<1> QED BY <1>2, <1>3 DEF f

(* l is the list of scenario i of a file, with a result for each of its    *)
(* first n tests.                                                          *)
ListOf(a, f, i, l, n) ==
    /\ IsSeq(l.items)
    /\ Len(l.items) = n
    /\ \A k \in 1..n : /\ l.items[k].adapter = a /\ l.items[k].file = f
                       /\ l.items[k].scenario = i /\ l.items[k].test = k

(* s holds the lists of the first m scenarios, in their order.             *)
Gathered(s, m) ==
    /\ IsSeq(s) /\ Sorted(s)
    /\ \A r \in 1..Len(s) : /\ s[r].adapter = adapterAt /\ s[r].file = fileAt
                            /\ s[r].scenario \in 1..m
    /\ \A i \in 1..m : \A k \in 1..Len(collected[i].items) :
         \E r \in 1..Len(s) : s[r].scenario = i /\ s[r].test = k

ListsGood ==
    /\ Len(collected) \in Nat /\ adapterAt \in Nat /\ fileAt \in Nat
    /\ \A i \in 1..Len(collected) :
         ListOf(adapterAt, fileAt, i, collected[i], Len(collected[i].items))

LEMMA NothingGathered == Gathered(<<>>, 0)
<1>1. IsSeq(<<>>) /\ Len(<<>>) = 0
  <2>1. <<>> \in Seq({}) /\ Len(<<>>) = 0
    BY EmptySeq
  <2> QED BY <2>1 DEF IsSeq
<1>2. 1..0 = {}
  OBVIOUS
<1> DEFINE z == <<>>
<1>3. IsSeq(z) /\ 1..Len(z) = {}
  BY <1>1, <1>2
<1> HIDE DEF z
<1>4. Gathered(z, 0)
  BY <1>2, <1>3 DEF Gathered, Sorted
<1> QED BY <1>4 DEF z

LEMMA OneMoreGathered ==
    ASSUME ListsGood, NEW m \in 1..Len(collected), NEW s, Gathered(s, m - 1),
           NEW u, Joins(u, s, collected[m].items)
    PROVE  Gathered(u, m)
<1> DEFINE t == collected[m].items
<1>1. /\ m \in Nat /\ Len(s) \in Nat /\ Len(t) \in Nat /\ Len(u) = Len(s) + Len(t)
      /\ IsSeq(u) /\ adapterAt \in Nat /\ fileAt \in Nat
  BY DEF Joins, ListsGood
<1>2. \A k \in 1..Len(t) : /\ t[k].adapter = adapterAt /\ t[k].file = fileAt
                           /\ t[k].scenario = m /\ t[k].test = k
  BY DEF ListsGood, ListOf
<1>3. Joins(u, s, t)
  OBVIOUS
<1> HIDE DEF t
<1>4. Sorted(t)
  <2> SUFFICES ASSUME NEW i \in 1..Len(t), NEW j \in 1..Len(t), i < j
               PROVE  Before(t[i], t[j])
    BY DEF Sorted
  <2> QED BY <1>1, <1>2 DEF Before
<1>5. \A i \in 1..Len(s), j \in 1..Len(t) : Before(s[i], t[j])
  <2> SUFFICES ASSUME NEW i \in 1..Len(s), NEW j \in 1..Len(t)
               PROVE  Before(s[i], t[j])
    OBVIOUS
  <2>1. s[i].adapter = adapterAt /\ s[i].file = fileAt /\ s[i].scenario \in 1..(m - 1)
    BY DEF Gathered
  <2>2. t[j].adapter = adapterAt /\ t[j].file = fileAt /\ t[j].scenario = m
    BY <1>2
  <2>3. s[i].scenario < t[j].scenario
    BY <1>1, <2>1, <2>2
  <2> QED BY <2>1, <2>2, <2>3 DEF Before
<1>6. Sorted(u)
  BY <1>3, <1>4, <1>5, SortedJoined DEF Gathered
<1>7. ASSUME NEW r \in 1..Len(u)
      PROVE  u[r].adapter = adapterAt /\ u[r].file = fileAt /\ u[r].scenario \in 1..m
  <2>1. CASE r \in 1..Len(s)
    <3>1. /\ u[r] = s[r] /\ s[r].adapter = adapterAt /\ s[r].file = fileAt
          /\ s[r].scenario \in 1..(m - 1)
      BY <1>3, <2>1 DEF Joins, Gathered
    <3> QED BY <1>1, <3>1
  <2>2. CASE r \notin 1..Len(s)
    <3>1. r - Len(s) \in 1..Len(t) /\ r = Len(s) + (r - Len(s))
      BY <1>3, <2>2 DEF Joins
    <3>2. u[r] = t[r - Len(s)]
      BY <1>3, <3>1 DEF Joins
    <3>3. m \in 1..m
      BY <1>1
    <3> QED BY <1>2, <3>1, <3>2, <3>3
  <2> QED BY <2>1, <2>2
<1>8. ASSUME NEW i \in 1..m, NEW k \in 1..Len(collected[i].items)
      PROVE  \E r \in 1..Len(u) : u[r].scenario = i /\ u[r].test = k
  <2>1. CASE i = m
    <3>1. k \in 1..Len(t)
      BY <2>1 DEF t
    <3>2. Len(s) + k \in 1..Len(u) /\ u[Len(s) + k] = t[k]
      BY <1>3, <3>1 DEF Joins
    <3> QED BY <1>2, <2>1, <3>1, <3>2
  <2>2. CASE i # m
    <3>1. i \in 1..(m - 1)
      BY <1>1, <2>2
    <3>2. PICK r \in 1..Len(s) : s[r].scenario = i /\ s[r].test = k
      BY <3>1 DEF Gathered
    <3>3. r \in 1..Len(u) /\ u[r] = s[r]
      BY <1>3 DEF Joins
    <3> QED BY <3>2, <3>3
  <2> QED BY <2>1, <2>2
<1> QED BY <1>1, <1>6, <1>7, <1>8 DEF Gathered

LEMMA InOrderGathers ==
    ASSUME ListsGood PROVE Gathered(InOrder[Len(collected)], Len(collected))
<1> DEFINE f == InOrder
           S == {m \in 0..Len(collected) : ~Gathered(f[m], m)}
<1>1. /\ Len(collected) \in Nat /\ f[0] = <<>>
      /\ \A n \in 1..Len(collected) : f[n] = f[n - 1] \o collected[n].items
  BY InOrderIs DEF ListsGood
<1> HIDE DEF f
<1>2. SUFFICES ASSUME S # {} PROVE FALSE
  BY <1>1 DEF f
<1>3. PICK m \in S : \A k \in S : m <= k
  <2>1. S \in SUBSET Nat
    BY <1>1
  <2> HIDE DEF S
  <2> QED BY <1>2, <2>1, LeastNumber
<1>4. CASE m = 0
  BY <1>1, <1>4, NothingGathered
<1>5. CASE m # 0
  <2>1. m \in 1..Len(collected) /\ m - 1 \in 0..Len(collected) /\ m - 1 \notin S
    BY <1>1, <1>3, <1>5
  <2>2. Gathered(f[m - 1], m - 1)
    BY <2>1
  <2>3. IsSeq(f[m - 1]) /\ IsSeq(collected[m].items)
    BY <2>1, <2>2 DEF Gathered, ListsGood, ListOf
  <2>4. f[m] = f[m - 1] \o collected[m].items
    BY <1>1, <2>1
  <2>5. Joins(f[m], f[m - 1], collected[m].items)
    BY <2>3, <2>4, SequencesJoined
  <2>6. Gathered(f[m], m)
    BY <2>1, <2>2, <2>5, OneMoreGathered
  <2> QED BY <1>3, <2>6
<1> QED BY <1>4, <1>5


InFile == vecPc \in {"file", "pool", "timed", "crash"}
AtWork == vecPc \in {"pool", "timed"}
Count == Len(File.scenarios)

VecTypes ==
    /\ suite \in Suites
    /\ vecPc \in {"adapter", "file", "pool", "timed", "crash", "summary", "done"}
    /\ adapterAt \in Nat /\ fileAt \in 1..Len(suite.files)
    /\ vecPc \notin {"summary", "done"} => adapterAt \in 1..Len(suite.adapters)
    /\ vecPc \in {"summary", "done"} => adapterAt = Len(suite.adapters) + 1
    /\ vecPc = "adapter" => fileAt = 1
    /\ DOMAIN running = VectorThreads /\ DOMAIN step = VectorThreads
    /\ DOMAIN local = VectorThreads

(* Results are recorded in order, and the last recorded one is of an       *)
(* earlier file than the one under way.                                    *)
OrderInv ==
    /\ IsSeq(results)
    /\ \A r \in 1..Len(results) : results[r].adapter \in Nat /\ results[r].file \in Nat
    /\ vecPc # "done" => \A r \in 1..Len(results) :
         \/ results[r].adapter < adapterAt
         \/ results[r].adapter = adapterAt /\ results[r].file < fileAt
    /\ Sorted(results)

(* A thread has a list exactly while it runs a scenario, with a result for *)
(* each test it is through with.                                           *)
ThreadInv ==
    \A t \in VectorThreads :
      /\ running[t] = 0 => local[t] = NoList
      /\ running[t] # 0 =>
           /\ AtWork /\ running[t] \in runnable
           /\ local[t] = List(local[t].items) /\ step[t] \in Nat
           /\ ListOf(adapterAt, fileAt, running[t], local[t], step[t])

(* What scenario i has left: nothing yet, the exception it raises or a     *)
(* result for each of its tests.                                           *)
ScenarioReturned(i) ==
    \/ collected[i] = NoList
    \/ collected[i] = Raised /\ Scenario(i).raises
    \/ /\ collected[i] = List(collected[i].items)
       /\ ListOf(adapterAt, fileAt, i, collected[i], Len(Scenario(i).tests))

(* No scenario is lost: it waits, runs or has returned, or one of the file *)
(* has raised.                                                             *)
Tracked(i) ==
    \/ i \in queued
    \/ Scenario(i).timed /\ vecPc = "pool"
    \/ \E t \in VectorThreads : running[t] = i
    \/ collected[i] # NoList
    \/ HasRaised

FileInv ==
    AtWork =>
      /\ File.found /\ File.valid
      /\ runnable = {i \in 1..Count : Applies(i)} /\ queued \subseteq runnable
      /\ IsSeq(collected) /\ Len(collected) = Count
      /\ \A i \in 1..Count : ScenarioReturned(i)
      /\ \A i \in runnable : Tracked(i)

FileDone(a, f) ==
    suite.files[f].found =>
      /\ suite.files[f].valid
      /\ \A i \in 1..Len(suite.files[f].scenarios) : Wanted(a, f, i) =>
           \/ <<a, f>> \in capabilitySkips
           \/ \A n \in 1..Len(suite.files[f].scenarios[i].tests) : Ran(a, f, i, n)

Works(a) == suite.adapters[a].known /\ suite.adapters[a].builds

SomeFailed == \E r \in 1..Len(results) : ~results[r].passed

(* What the run is through with is complete, or something has failed.      *)
CompleteInv ==
    \/ SomeFailed
    \/ /\ \A a \in 1..Len(suite.adapters) : a < adapterAt =>
            Works(a) /\ \A f \in 1..Len(suite.files) : FileDone(a, f)
       /\ InFile => /\ Works(adapterAt)
                    /\ \A f \in 1..Len(suite.files) : f < fileAt => FileDone(adapterAt, f)

PassInv == verdict = "pass" => vecPc = "done" /\ ~SomeFailed

VecInv ==
    VecTypes /\ OrderInv /\ ThreadInv /\ FileInv /\ CompleteInv /\ PassInv

LEMMA SuiteTyped ==
    ASSUME VecTypes
    PROVE  /\ Len(suite.adapters) \in Nat \ {0} /\ Len(suite.files) \in Nat \ {0}
           /\ \A f \in 1..Len(suite.files) :
                /\ Len(suite.files[f].scenarios) \in Nat
                /\ \A i \in 1..Len(suite.files[f].scenarios) :
                     Len(suite.files[f].scenarios[i].tests) \in Nat
<1>1. suite \in [adapters : Seq(VectorAdapterType) \ {<<>>}, files : Seq(VectorFileType) \ {<<>>}]
  BY VecAssumption DEF VecTypes
<1>2. /\ suite.adapters \in Seq(VectorAdapterType) /\ suite.adapters # <<>>
      /\ suite.files \in Seq(VectorFileType) /\ suite.files # <<>>
  BY <1>1
<1>3. Len(suite.adapters) \in Nat \ {0} /\ Len(suite.files) \in Nat \ {0}
  BY <1>2, EmptySeq
<1>4. ASSUME NEW f \in 1..Len(suite.files)
      PROVE  suite.files[f].scenarios \in Seq(VectorScenarioType)
  <2>1. suite.files[f] \in VectorFileType
    BY <1>2, ElementOfSeq
  <2> QED BY <2>1 DEF VectorFileType
<1>5. ASSUME NEW f \in 1..Len(suite.files), NEW i \in 1..Len(suite.files[f].scenarios)
      PROVE  Len(suite.files[f].scenarios[i].tests) \in Nat
  <2>1. suite.files[f].scenarios[i] \in VectorScenarioType
    BY <1>4, ElementOfSeq
  <2>2. suite.files[f].scenarios[i].tests \in Seq(VectorTestType)
    BY <2>1 DEF VectorScenarioType
  <2> QED BY <2>2, LenProperties
<1> QED BY <1>3, <1>4, <1>5, LenProperties

LEMMA SameFile ==
    ASSUME UNCHANGED <<suite, adapterAt, fileAt>>
    PROVE  /\ File' = File /\ Count' = Count
           /\ \A i : Scenario(i)' = Scenario(i) /\ (Applies(i)' <=> Applies(i))
BY DEF File, Adapter, Count, Scenario, Applies, Selected

(* Results are only ever added, and what is done stays done.               *)
Kept ==
    /\ suite' = suite /\ capabilitySkips \subseteq capabilitySkips'
    /\ \A r \in 1..Len(results) : r \in 1..Len(results') /\ results'[r] = results[r]

LEMMA DoneStays ==
    ASSUME Kept, NEW a, NEW f, FileDone(a, f) PROVE FileDone(a, f)'
<1>1. \A i, n : Ran(a, f, i, n) => Ran(a, f, i, n)'
  BY DEF Kept, Ran
<1>2. \A i : Wanted(a, f, i)' => Wanted(a, f, i)
  BY DEF Kept, Wanted
<1> QED BY <1>1, <1>2 DEF Kept, FileDone

LEMMA FailureStays == ASSUME Kept, SomeFailed PROVE SomeFailed'
BY DEF Kept, SomeFailed

(***************************************************************************)
(* Steps within a file                                                     *)
(***************************************************************************)

LEMMA FileGoesOn ==
    ASSUME VecInv, InFile, InFile', ThreadInv', FileInv',
           UNCHANGED <<suite, adapterAt, fileAt, results, capabilitySkips, verdict>>,
           DOMAIN running' = VectorThreads, DOMAIN step' = VectorThreads,
           DOMAIN local' = VectorThreads
    PROVE  VecInv'
<1>1. VecTypes'
  BY DEF VecInv, VecTypes, InFile
<1>2. OrderInv'
  BY DEF VecInv, OrderInv, Sorted, InFile
<1>3. Kept
  BY DEF Kept
<1>4. CompleteInv'
  <2>1. CASE SomeFailed
    BY <1>3, <2>1, FailureStays DEF CompleteInv
  <2>2. CASE ~SomeFailed
    <3>1. /\ \A a \in 1..Len(suite.adapters) : a < adapterAt =>
               Works(a)' /\ \A f \in 1..Len(suite.files) : FileDone(a, f)'
          /\ Works(adapterAt)'
          /\ \A f \in 1..Len(suite.files) : f < fileAt => FileDone(adapterAt, f)'
      BY <1>3, <2>2, DoneStays DEF VecInv, CompleteInv, Works
    <3> QED BY <3>1 DEF CompleteInv
  <2> QED BY <2>1, <2>2
<1>5. PassInv'
  BY DEF VecInv, PassInv, InFile
<1> QED BY <1>1, <1>2, <1>4, <1>5 DEF VecInv

LEMMA StartNextKeeps ==
    ASSUME VecInv, AtWork, NEW t \in VectorThreads, StartNext(t),
           UNCHANGED <<suite, vecPc, adapterAt, fileAt, runnable, collected, results,
                       capabilitySkips, verdict>>
    PROVE  VecInv'
<1>1. PICK i \in queued : StartScenario(t, i) /\ queued' = queued \ {i}
  BY DEF StartNext
<1>2. /\ File.found /\ File.valid
      /\ runnable = {j \in 1..Count : Applies(j)} /\ queued \subseteq runnable
      /\ IsSeq(collected) /\ Len(collected) = Count
      /\ \A j \in 1..Count : ScenarioReturned(j)
      /\ \A j \in runnable : Tracked(j)
  BY DEF VecInv, FileInv
<1>3. /\ DOMAIN running = VectorThreads /\ DOMAIN step = VectorThreads
      /\ DOMAIN local = VectorThreads
  BY DEF VecInv, VecTypes
<1>4. /\ running[t] = 0
      /\ running' = [running EXCEPT ![t] = i] /\ step' = [step EXCEPT ![t] = 0]
      /\ local' = [local EXCEPT ![t] = List(<<>>)]
  BY <1>1 DEF StartScenario
<1>5. AtWork'
  BY DEF AtWork
<1>6. ThreadInv'
  <2> SUFFICES ASSUME NEW u \in VectorThreads
               PROVE  /\ running'[u] = 0 => local'[u] = NoList
                      /\ running'[u] # 0 =>
                           /\ AtWork' /\ running'[u] \in runnable'
                           /\ local'[u] = List(local'[u].items) /\ step'[u] \in Nat
                           /\ ListOf(adapterAt', fileAt', running'[u], local'[u], step'[u])
    BY DEF ThreadInv
  <2>1. CASE u = t
    <3>1. running'[u] = i /\ local'[u] = List(<<>>) /\ step'[u] = 0
      BY <1>3, <1>4, <2>1
    <3>2. i # 0 /\ i \in runnable
      BY <1>2
    <3>3. local'[u].items = <<>> /\ local'[u] = List(local'[u].items)
      BY <3>1 DEF List
    <3>4. IsSeq(<<>>) /\ Len(<<>>) = 0 /\ 1..0 = {}
      <4>1. <<>> \in Seq({}) /\ Len(<<>>) = 0
        BY EmptySeq
      <4> QED BY <4>1 DEF IsSeq
    <3>5. ListOf(adapterAt', fileAt', running'[u], local'[u], step'[u])
      BY <3>1, <3>3, <3>4 DEF ListOf
    <3> QED BY <1>5, <3>1, <3>2, <3>3, <3>5
  <2>2. CASE u # t
    <3>1. running'[u] = running[u] /\ local'[u] = local[u] /\ step'[u] = step[u]
      BY <1>3, <1>4, <2>2
    <3> QED BY <1>5, <3>1 DEF VecInv, ThreadInv
  <2> QED BY <2>1, <2>2
<1>7. FileInv'
  <2>1. \A j \in 1..Count : ScenarioReturned(j)'
    BY <1>2, SameFile DEF ScenarioReturned
  <2>2. ASSUME NEW j \in runnable PROVE Tracked(j)'
    <3>1. CASE j = i
      BY <1>3, <1>4, <3>1 DEF Tracked
    <3>2. CASE j # i
      <4>1. \A u \in VectorThreads : running[u] = j => running'[u] = j
        <5>1. j # 0
          BY <1>2
        <5> QED BY <1>3, <1>4, <5>1
      <4>2. HasRaised' <=> HasRaised
        BY DEF HasRaised
      <4>3. Tracked(j)
        BY <1>2
      <4> QED BY <1>1, <3>2, <4>1, <4>2, <4>3, SameFile DEF Tracked
    <3> QED BY <3>1, <3>2
  <2> QED BY <1>1, <1>2, <2>1, <2>2, SameFile DEF FileInv
<1>8. InFile /\ InFile'
  BY DEF AtWork, InFile
<1> QED BY <1>3, <1>4, <1>6, <1>7, <1>8, FileGoesOn

LEMMA TakeScenarioKeeps ==
    ASSUME VecInv, NEW t \in VectorThreads, TakeScenario(t) PROVE VecInv'
<1>1. AtWork
  BY DEF TakeScenario, AtWork
<1> QED BY <1>1, StartNextKeeps DEF TakeScenario

LEMMA TakeTimedKeeps == ASSUME VecInv, TakeTimed PROVE VecInv'
<1>1. AtWork /\ MainThread \in VectorThreads
  BY DEF TakeTimed, AtWork, VectorThreads
<1> QED BY <1>1, StartNextKeeps DEF TakeTimed

(* What holds of a thread that runs a scenario.                            *)
LEMMA AtATest ==
    ASSUME VecInv, NEW t \in VectorThreads, running[t] # 0
    PROVE  /\ AtWork /\ InFile /\ running[t] \in runnable /\ running[t] \in 1..Count
           /\ local[t] = List(local[t].items) /\ local[t] # NoList
           /\ step[t] \in Nat
           /\ ListOf(adapterAt, fileAt, running[t], local[t], step[t])
           /\ File.found /\ File.valid
           /\ runnable = {i \in 1..Count : Applies(i)} /\ queued \subseteq runnable
           /\ IsSeq(collected) /\ Len(collected) = Count
           /\ \A i \in 1..Count : ScenarioReturned(i)
           /\ \A i \in runnable : Tracked(i)
           /\ DOMAIN running = VectorThreads /\ DOMAIN step = VectorThreads
           /\ DOMAIN local = VectorThreads
<1>1. /\ AtWork /\ running[t] \in runnable
      /\ local[t] = List(local[t].items) /\ step[t] \in Nat
      /\ ListOf(adapterAt, fileAt, running[t], local[t], step[t])
  BY DEF VecInv, ThreadInv
<1>2. local[t] # NoList
  <2>1. local[t].is = "list"
    BY <1>1 DEF List
  <2> QED BY <2>1 DEF NoList
<1>3. /\ File.found /\ File.valid
      /\ runnable = {i \in 1..Count : Applies(i)} /\ queued \subseteq runnable
      /\ IsSeq(collected) /\ Len(collected) = Count
      /\ \A i \in 1..Count : ScenarioReturned(i)
      /\ \A i \in runnable : Tracked(i)
  BY <1>1 DEF VecInv, FileInv
<1>4. InFile
  BY <1>1 DEF AtWork, InFile
<1> QED BY <1>1, <1>2, <1>3, <1>4 DEF VecInv, VecTypes

(* The other threads are where they were.                                  *)
LEMMA OtherThreads ==
    ASSUME ThreadInv, AtWork', UNCHANGED <<adapterAt, fileAt, runnable>>,
           NEW u \in VectorThreads,
           running'[u] = running[u], local'[u] = local[u], step'[u] = step[u]
    PROVE  /\ running'[u] = 0 => local'[u] = NoList
           /\ running'[u] # 0 =>
                /\ AtWork' /\ running'[u] \in runnable'
                /\ local'[u] = List(local'[u].items) /\ step'[u] \in Nat
                /\ ListOf(adapterAt', fileAt', running'[u], local'[u], step'[u])
BY DEF ThreadInv

LEMMA RunTestKeeps ==
    ASSUME VecInv, NEW t \in VectorThreads, RunTest(t) PROVE VecInv'
<1> DEFINE i == running[t]
<1>1. /\ AtWork /\ InFile /\ i \in runnable /\ i # 0
      /\ local[t] = List(local[t].items) /\ local[t] # NoList
      /\ step[t] \in Nat /\ ListOf(adapterAt, fileAt, i, local[t], step[t])
      /\ File.found /\ File.valid
      /\ runnable = {j \in 1..Count : Applies(j)} /\ queued \subseteq runnable
      /\ IsSeq(collected) /\ Len(collected) = Count
      /\ \A j \in 1..Count : ScenarioReturned(j)
      /\ \A j \in runnable : Tracked(j)
      /\ DOMAIN running = VectorThreads /\ DOMAIN step = VectorThreads
      /\ DOMAIN local = VectorThreads
  BY AtATest DEF RunTest
<1>2. PICK passed : Record(t, Result(i, step[t] + 1, passed))
  BY DEF RunTest
<1> DEFINE r == Result(i, step[t] + 1, passed)
<1>3. /\ r.adapter = adapterAt /\ r.file = fileAt /\ r.scenario = i /\ r.test = step[t] + 1
  BY DEF Result
<1>4. /\ local' = [local EXCEPT ![t].items = Append(@, r)] /\ results' = results
  BY <1>1, <1>2 DEF Record
<1>5. /\ UNCHANGED <<suite, vecPc, adapterAt, fileAt, runnable, queued, running, collected,
                     capabilitySkips, verdict>>
      /\ step' = [step EXCEPT ![t] = @ + 1]
  BY DEF RunTest
<1> DEFINE l == local[t].items
<1>6. /\ local'[t] = List(Append(l, r)) /\ local'[t].items = Append(l, r)
      /\ step'[t] = step[t] + 1 /\ running'[t] = i
  <2>1. local'[t] = [local[t] EXCEPT !.items = Append(l, r)]
    BY <1>1, <1>4
  <2>2. local[t] = List(l)
    BY <1>1
  <2> HIDE DEF l, r
  <2>3. local'[t] = [List(l) EXCEPT !.items = Append(l, r)]
    BY <2>1, <2>2
  <2>4. local'[t] = List(Append(l, r))
    BY <2>3 DEF List
  <2>5. local'[t].items = Append(l, r)
    BY <2>4 DEF List
  <2> QED BY <1>1, <1>5, <2>4, <2>5
<1>7. ListOf(adapterAt, fileAt, i, local'[t], step[t] + 1)
  <2> DEFINE new == Append(l, r)
  <2>1. IsSeq(l) /\ Len(l) = step[t]
    BY <1>1 DEF ListOf
  <2>2. Extends(new, l, r)
    BY <2>1, ResultAppended
  <2>3. \A k \in 1..step[t] : /\ l[k].adapter = adapterAt /\ l[k].file = fileAt
                              /\ l[k].scenario = i /\ l[k].test = k
    BY <1>1 DEF ListOf
  <2> HIDE DEF new, l, r
  <2>4. IsSeq(new) /\ Len(new) = step[t] + 1 /\ local'[t].items = new
    BY <1>6, <2>1, <2>2 DEF Extends, new
  <2>5. ASSUME NEW k \in 1..(step[t] + 1)
        PROVE  /\ new[k].adapter = adapterAt /\ new[k].file = fileAt
               /\ new[k].scenario = i /\ new[k].test = k
    <3>1. CASE k \in 1..step[t]
      <4>1. new[k] = l[k]
        BY <2>1, <2>2, <3>1 DEF Extends
      <4> QED BY <2>3, <3>1, <4>1
    <3>2. CASE k = step[t] + 1
      <4>1. new[k] = r
        BY <2>2, <2>4, <3>2 DEF Extends
      <4> QED BY <1>3, <3>2, <4>1
    <3> QED BY <1>1, <3>1, <3>2
  <2> QED BY <2>4, <2>5 DEF ListOf
<1> HIDE DEF l, r
<1>8. AtWork' /\ InFile'
  BY <1>1, <1>5 DEF AtWork, InFile
<1>9. ThreadInv'
  <2> SUFFICES ASSUME NEW u \in VectorThreads
               PROVE  /\ running'[u] = 0 => local'[u] = NoList
                      /\ running'[u] # 0 =>
                           /\ AtWork' /\ running'[u] \in runnable'
                           /\ local'[u] = List(local'[u].items) /\ step'[u] \in Nat
                           /\ ListOf(adapterAt', fileAt', running'[u], local'[u], step'[u])
    BY DEF ThreadInv
  <2>1. CASE u = t
    <3>1. running'[u] = i /\ step'[u] = step[t] + 1 /\ local'[u] = local'[t] /\ i \in runnable'
      BY <1>1, <1>5, <1>6, <2>1
    <3>2. local'[u] = List(local'[u].items)
      BY <1>6, <2>1
    <3>3. ListOf(adapterAt', fileAt', running'[u], local'[u], step'[u])
      BY <1>5, <1>7, <3>1
    <3>4. step'[u] \in Nat
      BY <1>1, <3>1
    <3> QED BY <1>1, <1>8, <3>1, <3>2, <3>3, <3>4
  <2>2. CASE u # t
    <3>1. running'[u] = running[u] /\ local'[u] = local[u] /\ step'[u] = step[u]
      BY <1>1, <1>4, <1>5, <2>2
    <3> QED BY <1>5, <1>8, <3>1, OtherThreads DEF VecInv
  <2> QED BY <2>1, <2>2
<1>10. FileInv'
  <2>1. \A j \in 1..Count : ScenarioReturned(j)'
    BY <1>1, <1>5, SameFile DEF ScenarioReturned
  <2>2. \A j \in runnable : Tracked(j)'
    BY <1>1, <1>5, SameFile DEF Tracked, HasRaised
  <2> QED BY <1>1, <1>5, <2>1, <2>2, SameFile DEF FileInv
<1>11. /\ DOMAIN running' = VectorThreads /\ DOMAIN step' = VectorThreads
       /\ DOMAIN local' = VectorThreads
  BY <1>1, <1>4, <1>5
<1> QED BY <1>1, <1>4, <1>5, <1>8, <1>9, <1>10, <1>11, FileGoesOn

(* A sequence with one element replaced.                                   *)
Replaced(u, s, i, e) ==
    /\ IsSeq(u) /\ Len(u) = Len(s) /\ u[i] = e
    /\ \A j \in 1..Len(s) : j # i => u[j] = s[j]

LEMMA ElementReplaced ==
    ASSUME NEW s, IsSeq(s), NEW i \in 1..Len(s), NEW e
    PROVE  Replaced([s EXCEPT ![i] = e], s, i, e)
<1>1. PICK S : s \in Seq(S)
  BY DEF IsSeq
<1> DEFINE T == S \cup {e}
           u == [s EXCEPT ![i] = e]
<1>2. s \in Seq(T) /\ e \in T
  BY <1>1
<1> HIDE DEF T
<1>3. /\ u \in Seq(T) /\ Len(u) = Len(s)
      /\ \A j \in 1..Len(s) : u[j] = IF j = i THEN e ELSE s[j]
  BY <1>2, ExceptSeq
<1> HIDE DEF u
<1>4. Replaced(u, s, i, e)
  BY <1>3 DEF IsSeq, Replaced
<1> QED BY <1>4 DEF u

(* A scenario returns: its thread has nothing left of it.                  *)
LEMMA ReturnKeeps ==
    ASSUME VecInv, NEW t \in VectorThreads, running[t] # 0, NEW left,
           collected' = [collected EXCEPT ![running[t]] = left],
           running' = [running EXCEPT ![t] = 0], DropList(t),
           UNCHANGED <<suite, vecPc, adapterAt, fileAt, runnable, queued, step, results,
                       capabilitySkips, verdict>>,
           \/ left = Raised /\ Scenario(running[t]).raises
           \/ /\ ~Scenario(running[t]).raises /\ left = List(left.items)
              /\ ListOf(adapterAt, fileAt, running[t], left,
                        Len(Scenario(running[t]).tests))
    PROVE  VecInv'
<1> DEFINE i == running[t]
<1>1. /\ AtWork /\ InFile /\ i \in runnable /\ i \in 1..Count
      /\ File.found /\ File.valid
      /\ runnable = {j \in 1..Count : Applies(j)} /\ queued \subseteq runnable
      /\ IsSeq(collected) /\ Len(collected) = Count
      /\ \A j \in 1..Count : ScenarioReturned(j)
      /\ \A j \in runnable : Tracked(j)
      /\ DOMAIN running = VectorThreads /\ DOMAIN step = VectorThreads
      /\ DOMAIN local = VectorThreads
  BY AtATest
<1>2. left # NoList
  <2>1. CASE left = Raised
    <3>1. Raised.is = "raised" /\ NoList.is = "unset"
      BY DEF Raised, NoList
    <3> QED BY <2>1, <3>1
  <2>2. CASE left = List(left.items)
    <3>1. left.is = "list"
      BY <2>2 DEF List
    <3> QED BY <3>1 DEF NoList
  <2> QED BY <2>1, <2>2
<1>3. /\ IsSeq(collected') /\ Len(collected') = Count /\ collected'[i] = left
      /\ \A j \in 1..Count : j # i => collected'[j] = collected[j]
  <2> DEFINE new == [collected EXCEPT ![i] = left]
  <2>1. i \in 1..Len(collected) /\ IsSeq(collected)
    BY <1>1
  <2> HIDE DEF i
  <2>2. Replaced(new, collected, i, left)
    BY <2>1, ElementReplaced
  <2>3. collected' = new
    BY DEF i
  <2> HIDE DEF new, i
  <2> QED BY <1>1, <2>2, <2>3 DEF Replaced
<1>4. AtWork' /\ InFile'
  BY <1>1 DEF AtWork, InFile
<1>5. local' = [local EXCEPT ![t] = NoList]
  BY DEF DropList
<1>6. ThreadInv'
  <2> SUFFICES ASSUME NEW u \in VectorThreads
               PROVE  /\ running'[u] = 0 => local'[u] = NoList
                      /\ running'[u] # 0 =>
                           /\ AtWork' /\ running'[u] \in runnable'
                           /\ local'[u] = List(local'[u].items) /\ step'[u] \in Nat
                           /\ ListOf(adapterAt', fileAt', running'[u], local'[u], step'[u])
    BY DEF ThreadInv
  <2>1. CASE u = t
    BY <1>1, <1>5, <2>1
  <2>2. CASE u # t
    <3>1. running'[u] = running[u] /\ local'[u] = local[u] /\ step'[u] = step[u]
      BY <1>1, <1>5, <2>2
    <3> QED BY <1>4, <3>1, OtherThreads DEF VecInv
  <2> QED BY <2>1, <2>2
<1>7. ASSUME NEW j \in 1..Count PROVE ScenarioReturned(j)'
  <2>1. Scenario(j)' = Scenario(j)
    BY SameFile
  <2>2. CASE j = i
    BY <1>3, <2>1, <2>2 DEF ScenarioReturned
  <2>3. CASE j # i
    BY <1>1, <1>3, <2>1, <2>3 DEF ScenarioReturned
  <2> QED BY <2>2, <2>3
<1>8. HasRaised => HasRaised'
  <2> SUFFICES ASSUME NEW j \in 1..Count, collected[j] = Raised
               PROVE  collected'[j] = Raised
    BY <1>1, <1>3 DEF HasRaised
  <2>1. CASE j # i
    BY <1>3, <2>1
  <2>2. CASE j = i /\ left = Raised
    BY <1>3, <2>2
  <2>3. CASE j = i /\ ~Scenario(i).raises
    <3>1. Raised.is = "raised" /\ NoList.is = "unset" /\ \A items : List(items).is = "list"
      BY DEF Raised, NoList, List
    <3>2. ScenarioReturned(j)
      BY <1>1
    <3>3. FALSE
      BY <2>3, <3>1, <3>2 DEF ScenarioReturned
    <3> QED BY <3>3
  <2> QED BY <2>1, <2>2, <2>3
<1>9. ASSUME NEW j \in runnable PROVE Tracked(j)'
  <2>1. Scenario(j)' = Scenario(j)
    BY SameFile
  <2>2. j \in 1..Count
    BY <1>1
  <2>3. CASE j = i
    BY <1>2, <1>3, <2>3 DEF Tracked
  <2>4. CASE j # i
    <3>1. \A u \in VectorThreads : running[u] = j => running'[u] = j
      BY <1>1, <2>4
    <3>2. Tracked(j)
      BY <1>1
    <3> QED BY <1>3, <1>8, <2>1, <2>2, <2>4, <3>1, <3>2 DEF Tracked
  <2> QED BY <2>3, <2>4
<1>10. FileInv'
  BY <1>1, <1>3, <1>7, <1>9, SameFile DEF FileInv
<1>11. /\ DOMAIN running' = VectorThreads /\ DOMAIN step' = VectorThreads
       /\ DOMAIN local' = VectorThreads
  BY <1>1, <1>5
<1> QED BY <1>1, <1>4, <1>6, <1>10, <1>11, FileGoesOn

LEMMA EndScenarioKeeps ==
    ASSUME VecInv, NEW t \in VectorThreads, EndScenario(t) PROVE VecInv'
<1>1. /\ running[t] # 0 /\ ~Scenario(running[t]).raises
      /\ step[t] = Len(Scenario(running[t]).tests)
      /\ collected' = [collected EXCEPT ![running[t]] = local[t]]
      /\ running' = [running EXCEPT ![t] = 0] /\ DropList(t)
      /\ UNCHANGED <<suite, vecPc, adapterAt, fileAt, runnable, queued, step, results,
                     capabilitySkips, verdict>>
  BY DEF EndScenario
<1>2. /\ local[t] = List(local[t].items)
      /\ ListOf(adapterAt, fileAt, running[t], local[t], step[t])
  BY <1>1, AtATest
<1> DEFINE left == local[t]
<1>3. /\ left = List(left.items)
      /\ ListOf(adapterAt, fileAt, running[t], left, Len(Scenario(running[t]).tests))
      /\ collected' = [collected EXCEPT ![running[t]] = left]
  BY <1>1, <1>2
<1> HIDE DEF left
<1> QED BY <1>1, <1>3, ReturnKeeps

LEMMA ScenarioRaisesKeeps ==
    ASSUME VecInv, NEW t \in VectorThreads, ScenarioRaises(t) PROVE VecInv'
<1>1. /\ running[t] # 0 /\ Scenario(running[t]).raises
      /\ collected' = [collected EXCEPT ![running[t]] = Raised]
      /\ running' = [running EXCEPT ![t] = 0] /\ DropList(t)
      /\ UNCHANGED <<suite, vecPc, adapterAt, fileAt, runnable, queued, step, results,
                     capabilitySkips, verdict>>
  BY DEF ScenarioRaises
<1> DEFINE left == Raised
<1>2. left = Raised
  OBVIOUS
<1> HIDE DEF left
<1> QED BY <1>1, <1>2, ReturnKeeps

LEMMA CancelQueuedKeeps == ASSUME VecInv, CancelQueued PROVE VecInv'
<1>1. /\ HasRaised /\ queued' = {}
      /\ UNCHANGED <<suite, vecPc, adapterAt, fileAt, runnable, running, step, local,
                     collected, results, capabilitySkips, verdict>>
      /\ AtWork /\ AtWork' /\ InFile /\ InFile'
  BY DEF CancelQueued, AtWork, InFile
<1>2. HasRaised'
  BY <1>1 DEF HasRaised
<1>3. FileInv'
  <2>1. \A i \in 1..Count : ScenarioReturned(i)'
    BY <1>1, SameFile DEF VecInv, FileInv, ScenarioReturned
  <2>2. \A i : Tracked(i)'
    BY <1>2 DEF Tracked
  <2>3. queued' \subseteq runnable
    BY <1>1
  <2> QED BY <1>1, <2>1, <2>2, <2>3, SameFile DEF VecInv, FileInv
<1>4. ThreadInv'
  BY <1>1 DEF VecInv, ThreadInv
<1>5. /\ DOMAIN running' = VectorThreads /\ DOMAIN step' = VectorThreads
      /\ DOMAIN local' = VectorThreads
  BY <1>1 DEF VecInv, VecTypes
<1> QED BY <1>1, <1>3, <1>4, <1>5, FileGoesOn

(* Between scenarios no thread has a list.                                 *)
LEMMA NothingRuns ==
    ASSUME VecInv, Idle, UNCHANGED <<running, local>>
    PROVE  ThreadInv'
BY DEF VecInv, ThreadInv, Idle

LEMMA EndPoolKeeps == ASSUME VecInv, EndPool PROVE VecInv'
<1>1. /\ vecPc = "pool" /\ queued = {} /\ Idle
      /\ vecPc' = IF HasRaised THEN "crash" ELSE "timed"
      /\ queued' = {i \in runnable : Scenario(i).timed}
      /\ UNCHANGED <<suite, adapterAt, fileAt, runnable, running, step, local, collected,
                     results, capabilitySkips, verdict>>
      /\ AtWork /\ InFile /\ InFile'
  BY DEF EndPool, AtWork, InFile
<1>2. ThreadInv'
  BY <1>1, NothingRuns
<1>3. FileInv'
  <2>1. CASE HasRaised
    BY <1>1, <2>1 DEF FileInv, AtWork
  <2>2. CASE ~HasRaised
    <3>1. \A i \in 1..Count : ScenarioReturned(i)'
      BY <1>1, SameFile DEF VecInv, FileInv, ScenarioReturned
    <3>2. ASSUME NEW i \in runnable PROVE Tracked(i)'
      <4>1. Tracked(i) /\ i \in 1..Count
        BY <1>1 DEF VecInv, FileInv
      <4>2. CASE Scenario(i).timed
        BY <1>1, <4>2 DEF Tracked
      <4>3. CASE ~Scenario(i).timed
        <5>1. \A t \in VectorThreads : running[t] # i
          BY <1>1, <4>1 DEF Idle
        <5>2. collected[i] # NoList
          BY <1>1, <2>2, <4>1, <4>3, <5>1 DEF Tracked
        <5> QED BY <1>1, <5>2 DEF Tracked
      <4> QED BY <4>2, <4>3
    <3>3. queued' \subseteq runnable
      BY <1>1
    <3> QED BY <1>1, <3>1, <3>2, <3>3, SameFile DEF VecInv, FileInv
  <2> QED BY <2>1, <2>2
<1>4. /\ DOMAIN running' = VectorThreads /\ DOMAIN step' = VectorThreads
      /\ DOMAIN local' = VectorThreads
  BY <1>1 DEF VecInv, VecTypes
<1> QED BY <1>1, <1>2, <1>3, <1>4, FileGoesOn

LEMMA IdleOutside == ASSUME VecInv, ~AtWork PROVE Idle
BY DEF VecInv, ThreadInv, Idle

LEMMA LoadFailsKeeps == ASSUME VecInv, LoadFails PROVE VecInv'
<1>1. /\ vecPc = "file" /\ vecPc' = "crash"
      /\ UNCHANGED <<suite, adapterAt, fileAt, runnable, queued, running, step, local,
                     collected, results, capabilitySkips, verdict>>
      /\ ~AtWork /\ ~AtWork' /\ InFile /\ InFile'
  BY DEF LoadFails, fileVars, AtWork, InFile
<1>2. ThreadInv'
  BY <1>1, IdleOutside, NothingRuns
<1>3. FileInv'
  BY <1>1 DEF FileInv
<1>4. /\ DOMAIN running' = VectorThreads /\ DOMAIN step' = VectorThreads
      /\ DOMAIN local' = VectorThreads
  BY <1>1 DEF VecInv, VecTypes
<1> QED BY <1>1, <1>2, <1>3, <1>4, FileGoesOn

(* A sequence of n times e.                                                *)
LEMMA Repeated ==
    ASSUME NEW n \in Nat, NEW e
    PROVE  IsSeq([i \in 1..n |-> e]) /\ Len([i \in 1..n |-> e]) = n
<1> DEFINE s == [i \in 1..n |-> e]
<1>1. s \in [1..n -> {e}]
  OBVIOUS
<1> HIDE DEF s
<1>2. s \in Seq({e})
  BY <1>1, SeqDef
<1>3. DOMAIN s = 1..n /\ DOMAIN s = 1..Len(s) /\ Len(s) \in Nat
  BY <1>1, <1>2, LenProperties
<1>4. Len(s) = n
  BY <1>3
<1> QED BY <1>2, <1>4 DEF IsSeq, s

LEMMA PoolStarts ==
    ASSUME VecInv, vecPc = "file", vecPc' = "pool", File.found, File.valid,
           runnable' = {i \in 1..Len(File.scenarios) : Applies(i)},
           queued' = {i \in runnable' : ~Scenario(i).timed},
           collected' = [i \in 1..Len(File.scenarios) |-> NoList],
           UNCHANGED <<suite, adapterAt, fileAt, running, step, local, results,
                       capabilitySkips, verdict>>
    PROVE  VecInv'
<1>1. InFile /\ InFile' /\ AtWork' /\ ~AtWork
  BY DEF InFile, AtWork
<1>2. ThreadInv'
  BY <1>1, IdleOutside, NothingRuns
<1>3. Count \in Nat
  <2>1. VecTypes /\ fileAt \in 1..Len(suite.files)
    BY DEF VecInv, VecTypes
  <2> QED BY <2>1, SuiteTyped DEF Count, File
<1>4. IsSeq(collected') /\ Len(collected') = Count
  BY <1>3, Repeated DEF Count
<1>5. \A i \in 1..Count : collected'[i] = NoList
  BY DEF Count
<1>6. \A i \in 1..Count : ScenarioReturned(i)'
  BY <1>5 DEF ScenarioReturned
<1>7. \A i \in runnable' : Tracked(i)'
  BY SameFile DEF Tracked
<1>8. runnable' = {i \in 1..Count : Applies(i)} /\ queued' \subseteq runnable'
  BY DEF Count
<1>9. FileInv'
  BY <1>4, <1>6, <1>7, <1>8, SameFile DEF FileInv
<1>10. /\ DOMAIN running' = VectorThreads /\ DOMAIN step' = VectorThreads
       /\ DOMAIN local' = VectorThreads
  BY DEF VecInv, VecTypes
<1> QED BY <1>1, <1>2, <1>9, <1>10, FileGoesOn

(***************************************************************************)
(* Steps from a file to the next one                                       *)
(***************************************************************************)

(* Results up to those of the file under way.                              *)
Placed(rs) ==
    /\ IsSeq(rs) /\ Sorted(rs)
    /\ \A r \in 1..Len(rs) :
         /\ rs[r].adapter \in Nat /\ rs[r].file \in Nat
         /\ \/ rs[r].adapter < adapterAt
            \/ rs[r].adapter = adapterAt /\ rs[r].file <= fileAt

LEMMA FileIsLeft ==
    ASSUME VecInv, vecPc \notin {"summary", "done"}, NextFile \/ NextAdapter, Kept, Idle,
           UNCHANGED <<running, step, local, verdict>>, Placed(results'), CompleteInv'
    PROVE  VecInv'
<1>1. /\ suite \in Suites /\ adapterAt \in 1..Len(suite.adapters)
      /\ fileAt \in 1..Len(suite.files)
      /\ DOMAIN running = VectorThreads /\ DOMAIN step = VectorThreads
      /\ DOMAIN local = VectorThreads
      /\ Len(suite.adapters) \in Nat \ {0} /\ Len(suite.files) \in Nat \ {0}
  BY SuiteTyped DEF VecInv, VecTypes
<1>2. suite' = suite
  BY DEF Kept
<1>3. CASE NextAdapter
  <2>1. /\ adapterAt' = adapterAt + 1 /\ fileAt' = 1
        /\ vecPc' = IF adapterAt = Len(suite.adapters) THEN "summary" ELSE "adapter"
    BY <1>3 DEF NextAdapter
  <2>2. VecTypes'
    BY <1>1, <1>2, <2>1 DEF VecTypes
  <2>3. ~AtWork' /\ vecPc' # "done"
    BY <2>1 DEF AtWork
  <2>4. OrderInv'
    <3>1. \A r \in 1..Len(results') :
            results'[r].adapter \in Nat /\ results'[r].file \in Nat
            /\ results'[r].adapter < adapterAt'
      BY <1>1, <2>1 DEF Placed
    <3> QED BY <3>1 DEF Placed, OrderInv, Sorted
  <2>5. PassInv'
    BY <2>3 DEF VecInv, PassInv
  <2> QED BY <2>2, <2>3, <2>4, <2>5, NothingRuns DEF VecInv, FileInv
<1>4. CASE NextFile /\ ~NextAdapter
  <2>1. /\ fileAt # Len(suite.files) /\ fileAt' = fileAt + 1 /\ vecPc' = "file"
        /\ adapterAt' = adapterAt
    BY <1>4 DEF NextFile
  <2>2. VecTypes'
    BY <1>1, <1>2, <2>1 DEF VecTypes
  <2>3. ~AtWork' /\ vecPc' # "done"
    BY <2>1 DEF AtWork
  <2>4. OrderInv'
    <3>1. ASSUME NEW r \in 1..Len(results')
          PROVE  /\ results'[r].adapter \in Nat /\ results'[r].file \in Nat
                 /\ \/ results'[r].adapter < adapterAt'
                    \/ results'[r].adapter = adapterAt' /\ results'[r].file < fileAt'
      <4>1. /\ results'[r].adapter \in Nat /\ results'[r].file \in Nat
            /\ \/ results'[r].adapter < adapterAt
               \/ results'[r].adapter = adapterAt /\ results'[r].file <= fileAt
        BY DEF Placed
      <4> QED BY <1>1, <2>1, <4>1
    <3> QED BY <3>1 DEF Placed, OrderInv, Sorted
  <2>5. PassInv'
    BY <2>3 DEF VecInv, PassInv
  <2> QED BY <2>2, <2>3, <2>4, <2>5, NothingRuns DEF VecInv, FileInv
<1> QED BY <1>3, <1>4

(* A file that is done completes what the run is through with.             *)
LEMMA FileCompletes ==
    ASSUME VecInv, InFile, NextFile, Kept,
           NEW a, NEW f, a = adapterAt, f = fileAt, FileDone(a, f)'
    PROVE  CompleteInv'
<1>1. /\ adapterAt \in 1..Len(suite.adapters) /\ fileAt \in 1..Len(suite.files)
      /\ Len(suite.adapters) \in Nat \ {0} /\ Len(suite.files) \in Nat \ {0}
  BY SuiteTyped DEF VecInv, VecTypes, InFile
<1>2. CASE SomeFailed
  BY <1>2, FailureStays DEF CompleteInv
<1>3. CASE ~SomeFailed
  <2>1. /\ suite' = suite
        /\ \A b \in 1..Len(suite.adapters) : b < adapterAt =>
             Works(b)' /\ \A g \in 1..Len(suite.files) : FileDone(b, g)'
        /\ Works(adapterAt)
        /\ \A g \in 1..Len(suite.files) : g < fileAt => FileDone(adapterAt, g)
    BY <1>3, DoneStays DEF VecInv, CompleteInv, Works, Kept
  <2>2. /\ Works(a)'
        /\ \A g \in 1..Len(suite.files) : g < f => FileDone(a, g)'
    <3>1. \A g \in 1..Len(suite.files) : g < f => FileDone(a, g)
      BY <2>1
    <3> QED BY <2>1, <3>1, DoneStays DEF Works
  <2>3. CASE NextAdapter
    <3>1. adapterAt' = adapterAt + 1 /\ ~InFile' /\ fileAt = Len(suite.files)
      BY <2>3 DEF NextFile, NextAdapter, InFile
    <3>2. \A g \in 1..Len(suite.files) : FileDone(a, g)'
      BY <1>1, <2>2, <3>1
    <3>3. \A b \in 1..Len(suite.adapters) : b < adapterAt' =>
            Works(b)' /\ \A g \in 1..Len(suite.files) : FileDone(b, g)'
      BY <1>1, <2>1, <2>2, <3>1, <3>2
    <3> QED BY <2>1, <3>1, <3>3 DEF CompleteInv
  <2>4. CASE ~NextAdapter
    <3>1. adapterAt' = adapterAt /\ fileAt' = fileAt + 1
      BY <2>4 DEF NextFile
    <3>2. \A g \in 1..Len(suite.files) : g < fileAt' => FileDone(a, g)'
      BY <1>1, <2>2, <3>1
    <3>3. Works(adapterAt)'
      BY <2>1, <3>1 DEF Works
    <3>4. \A g \in 1..Len(suite.files) : g < fileAt' => FileDone(adapterAt, g)'
      <4> SUFFICES ASSUME NEW g \in 1..Len(suite.files), g < fileAt'
                   PROVE  FileDone(adapterAt, g)'
        OBVIOUS
      <4>1. FileDone(a, g)'
        BY <3>2
      <4>2. a = adapterAt'
        BY <3>1
      <4> QED BY ONLY <4>1, <4>2 DEF FileDone, Wanted, Ran
    <3> QED BY <2>1, <3>1, <3>3, <3>4 DEF CompleteInv
  <2> QED BY <2>3, <2>4
<1> QED BY <1>2, <1>3

LEMMA ResultsPlaced ==
    ASSUME VecInv, vecPc \notin {"summary", "done"} PROVE Placed(results)
<1>1. fileAt \in Nat
  BY SuiteTyped DEF VecInv, VecTypes
<1>2. /\ IsSeq(results) /\ Sorted(results)
      /\ \A r \in 1..Len(results) :
           /\ results[r].adapter \in Nat /\ results[r].file \in Nat
           /\ \/ results[r].adapter < adapterAt
              \/ results[r].adapter = adapterAt /\ results[r].file < fileAt
  BY DEF VecInv, OrderInv
<1> QED BY <1>1, <1>2 DEF Placed

LEMMA SkipMissingFileKeeps == ASSUME VecInv, SkipMissingFile PROVE VecInv'
<1>1. /\ vecPc = "file" /\ ~File.found /\ NextFile
      /\ UNCHANGED <<suite, running, step, local, results, capabilitySkips, verdict>>
      /\ InFile /\ ~AtWork
  BY DEF SkipMissingFile, fileVars, InFile, AtWork
<1>2. Kept /\ Idle /\ Placed(results')
  BY <1>1, IdleOutside, ResultsPlaced DEF Kept
<1>3. CompleteInv'
  <2>1. PICK a, f : a = adapterAt /\ f = fileAt
    OBVIOUS
  <2>2. FileDone(a, f)'
    BY <1>1, <2>1 DEF FileDone, File
  <2> QED BY <1>1, <1>2, <2>1, <2>2, FileCompletes
<1> QED BY <1>1, <1>2, <1>3, FileIsLeft

LEMMA FileSkipped ==
    ASSUME VecInv, vecPc = "file", File.found, File.valid, NextFile,
           capabilitySkips' =
             IF {i \in 1..Len(File.scenarios) : Applies(i)} = {} THEN capabilitySkips
             ELSE capabilitySkips \cup {<<adapterAt, fileAt>>},
           UNCHANGED <<suite, running, step, local, results, verdict>>
    PROVE  VecInv'
<1>1. InFile /\ ~AtWork
  BY DEF InFile, AtWork
<1>2. Kept /\ Idle /\ Placed(results')
  BY <1>1, IdleOutside, ResultsPlaced DEF Kept
<1>3. CompleteInv'
  <2>1. PICK a, f : a = adapterAt /\ f = fileAt
    OBVIOUS
  <2>2. suite.files[f] = File /\ suite'.files[f] = File /\ suite.adapters[a] = Adapter
        /\ suite'.adapters[a] = Adapter
    BY <2>1 DEF File, Adapter
  <2>3. ASSUME NEW i \in 1..Len(File.scenarios), Wanted(a, f, i)'
        PROVE  <<a, f>> \in capabilitySkips'
    <3>1. Applies(i)
      BY <2>2, <2>3 DEF Wanted, Applies, Selected, Scenario
    <3>2. {j \in 1..Len(File.scenarios) : Applies(j)} # {}
      BY <3>1
    <3> QED BY <2>1, <3>2
  <2>4. FileDone(a, f)'
    BY <2>2, <2>3 DEF FileDone
  <2> QED BY <1>1, <1>2, <2>1, <2>4, FileCompletes
<1> QED BY <1>2, <1>3, FileIsLeft

LEMMA StartFileKeeps == ASSUME VecInv, StartFile PROVE VecInv'
<1>1. vecPc = "file" /\ File.found /\ File.valid /\ UNCHANGED <<suite, results, verdict>>
  BY DEF StartFile
<1>2. CASE File.operation \notin Adapter.capabilities
  <2>1. /\ NextFile /\ UNCHANGED <<running, step, local>>
        /\ capabilitySkips' =
             IF {i \in 1..Len(File.scenarios) : Applies(i)} = {} THEN capabilitySkips
             ELSE capabilitySkips \cup {<<adapterAt, fileAt>>}
    BY <1>2 DEF StartFile, fileVars
  <2> QED BY <1>1, <2>1, FileSkipped
<1>3. CASE File.operation \in Adapter.capabilities
  <2>1. /\ vecPc' = "pool"
        /\ runnable' = {i \in 1..Len(File.scenarios) : Applies(i)}
        /\ queued' = {i \in runnable' : ~Scenario(i).timed}
        /\ collected' = [i \in 1..Len(File.scenarios) |-> NoList]
        /\ UNCHANGED <<adapterAt, fileAt, running, step, local, capabilitySkips>>
    BY <1>3 DEF StartFile
  <2> QED BY <1>1, <2>1, PoolStarts
<1> QED BY <1>2, <1>3

(* The lists of a file that no scenario of has raised are its results.     *)
LEMMA FileCollected ==
    ASSUME VecInv, vecPc = "timed", Idle, queued = {}, ~HasRaised,
           results' = results \o InOrder[Len(collected)], NextFile,
           UNCHANGED <<suite, running, step, local, capabilitySkips, verdict>>
    PROVE  VecInv'
<1>1. AtWork /\ InFile
  BY DEF AtWork, InFile
<1>2. /\ File.found /\ File.valid
      /\ runnable = {i \in 1..Count : Applies(i)}
      /\ IsSeq(collected) /\ Len(collected) = Count
      /\ \A i \in 1..Count : ScenarioReturned(i)
      /\ \A i \in runnable : Tracked(i)
  BY <1>1 DEF VecInv, FileInv
<1>3. /\ adapterAt \in Nat /\ fileAt \in Nat /\ fileAt \in 1..Len(suite.files)
      /\ Count \in Nat
      /\ \A i \in 1..Count : Len(Scenario(i).tests) \in Nat
  <2>1. VecTypes /\ vecPc \notin {"summary", "done"}
    BY DEF VecInv
  <2>2. adapterAt \in Nat /\ fileAt \in 1..Len(suite.files) /\ Len(suite.files) \in Nat
    BY <2>1, SuiteTyped DEF VecTypes
  <2>3. Count \in Nat
    BY <2>1, <2>2, SuiteTyped DEF Count, File
  <2>4. \A i \in 1..Count : Len(Scenario(i).tests) \in Nat
    BY <2>1, <2>2, SuiteTyped DEF Count, File, Scenario
  <2> QED BY <2>2, <2>3, <2>4
<1>4. ASSUME NEW i \in 1..Count
      PROVE  /\ ListOf(adapterAt, fileAt, i, collected[i], Len(collected[i].items))
             /\ i \in runnable => Len(collected[i].items) = Len(Scenario(i).tests)
  <2>1. collected[i] # Raised
    BY <1>2 DEF HasRaised
  <2>2. CASE collected[i] = NoList
    <3>1. collected[i].items = <<>>
      BY <2>2 DEF NoList
    <3>2. IsSeq(<<>>) /\ 1..Len(<<>>) = {}
      <4>1. <<>> \in Seq({}) /\ Len(<<>>) = 0
        BY EmptySeq
      <4> QED BY <4>1 DEF IsSeq
    <3>3. ListOf(adapterAt, fileAt, i, collected[i], Len(collected[i].items))
      BY <3>1, <3>2 DEF ListOf
    <3>4. i \notin runnable
      <4>1. SUFFICES ASSUME i \in runnable PROVE FALSE
        OBVIOUS
      <4>2. \A t \in VectorThreads : running[t] # i
        BY DEF Idle
      <4>3. Tracked(i)
        BY <1>2, <4>1
      <4> QED BY <2>2, <4>2, <4>3 DEF Tracked
    <3> QED BY <3>3, <3>4
  <2>3. CASE collected[i] # NoList
    <3>1. ListOf(adapterAt, fileAt, i, collected[i], Len(Scenario(i).tests))
      BY <1>2, <2>1, <2>3 DEF ScenarioReturned
    <3>2. Len(collected[i].items) = Len(Scenario(i).tests)
      BY <3>1 DEF ListOf
    <3> QED BY <3>1, <3>2
  <2> QED BY <2>2, <2>3
<1>5. ListsGood
  BY <1>2, <1>3, <1>4 DEF ListsGood
<1> DEFINE g == InOrder[Len(collected)]
<1>6. Gathered(g, Count)
  BY <1>2, <1>5, InOrderGathers
<1>7. Joins(results', results, g)
  <2>1. IsSeq(results) /\ IsSeq(g)
    BY <1>6 DEF VecInv, OrderInv, Gathered
  <2> QED BY <2>1, SequencesJoined
<1> HIDE DEF g
<1>8. Kept
  BY <1>7 DEF Kept, Joins
<1>9. ASSUME NEW r \in 1..Len(results)
      PROVE  /\ results[r].adapter \in Nat /\ results[r].file \in Nat
             /\ \/ results[r].adapter < adapterAt
                \/ results[r].adapter = adapterAt /\ results[r].file < fileAt
  BY DEF VecInv, OrderInv
<1>10. ASSUME NEW r \in 1..Len(g)
       PROVE  g[r].adapter = adapterAt /\ g[r].file = fileAt
  BY <1>6 DEF Gathered
<1>11. Placed(results')
  <2>1. Sorted(results')
    <3>1. \A i \in 1..Len(results), j \in 1..Len(g) : Before(results[i], g[j])
      <4> SUFFICES ASSUME NEW i \in 1..Len(results), NEW j \in 1..Len(g)
                   PROVE  Before(results[i], g[j])
        OBVIOUS
      <4> QED BY <1>9, <1>10 DEF Before
    <3>2. Sorted(results) /\ Sorted(g)
      BY <1>6 DEF VecInv, OrderInv, Gathered
    <3> QED BY <1>7, <3>1, <3>2, SortedJoined
  <2>2. ASSUME NEW r \in 1..Len(results')
        PROVE  /\ results'[r].adapter \in Nat /\ results'[r].file \in Nat
               /\ \/ results'[r].adapter < adapterAt
                  \/ results'[r].adapter = adapterAt /\ results'[r].file <= fileAt
    <3>1. CASE r \in 1..Len(results)
      <4>1. results'[r] = results[r]
        BY <1>7, <3>1 DEF Joins
      <4> QED BY <1>3, <1>9, <3>1, <4>1
    <3>2. CASE r \notin 1..Len(results)
      <4>1. r - Len(results) \in 1..Len(g) /\ r = Len(results) + (r - Len(results))
        BY <1>7, <3>2 DEF Joins
      <4>2. results'[r] = g[r - Len(results)]
        BY <1>7, <4>1 DEF Joins
      <4> QED BY <1>3, <1>10, <4>1, <4>2
    <3> QED BY <3>1, <3>2
  <2>3. IsSeq(results')
    BY <1>7 DEF Joins
  <2> QED BY <2>1, <2>2, <2>3 DEF Placed
<1>12. CompleteInv'
  <2>1. PICK a, f : a = adapterAt /\ f = fileAt
    OBVIOUS
  <2>2. suite'.files[f] = File /\ suite'.adapters[a] = Adapter
    BY <2>1 DEF File, Adapter
  <2>3. ASSUME NEW i \in 1..Count, Wanted(a, f, i)', NEW n \in 1..Len(Scenario(i).tests)
        PROVE  Ran(a, f, i, n)'
    <3>1. i \in runnable
      <4>1. Applies(i)
        BY <2>2, <2>3 DEF Wanted, Applies, Selected, Scenario
      <4> QED BY <1>2, <4>1
    <3>2. n \in 1..Len(collected[i].items)
      BY <1>4, <3>1
    <3>3. PICK r \in 1..Len(g) : g[r].scenario = i /\ g[r].test = n
      BY <1>6, <3>2 DEF Gathered
    <3>4. Len(results) + r \in 1..Len(results') /\ results'[Len(results) + r] = g[r]
      BY <1>7 DEF Joins
    <3>5. /\ results'[Len(results) + r].adapter = a /\ results'[Len(results) + r].file = f
          /\ results'[Len(results) + r].scenario = i /\ results'[Len(results) + r].test = n
      BY <1>10, <2>1, <3>3, <3>4
    <3> QED BY <3>4, <3>5 DEF Ran
  <2>4. FileDone(a, f)'
    BY <1>2, <2>2, <2>3 DEF FileDone, Count, Scenario
  <2> QED BY <1>1, <1>8, <2>1, <2>4, FileCompletes
<1> QED BY <1>8, <1>11, <1>12, FileIsLeft

LEMMA EndFileKeeps == ASSUME VecInv, EndFile PROVE VecInv'
<1>1. /\ vecPc = "timed" /\ Idle
      /\ UNCHANGED <<suite, runnable, queued, running, step, local, collected,
                     capabilitySkips, verdict>>
  BY DEF EndFile, fileVars
<1>2. CASE HasRaised
  <2>1. vecPc' = "crash" /\ UNCHANGED <<adapterAt, fileAt, results>>
    BY <1>2 DEF EndFile
  <2>2. InFile /\ InFile' /\ ~AtWork'
    BY <1>1, <2>1 DEF InFile, AtWork
  <2>3. ThreadInv' /\ FileInv'
    BY <1>1, <2>2, NothingRuns DEF FileInv
  <2>4. /\ DOMAIN running' = VectorThreads /\ DOMAIN step' = VectorThreads
        /\ DOMAIN local' = VectorThreads
    BY <1>1 DEF VecInv, VecTypes
  <2> QED BY <1>1, <2>1, <2>2, <2>3, <2>4, FileGoesOn
<1>3. CASE ~HasRaised
  <2>1. queued = {} /\ results' = results \o InOrder[Len(collected)] /\ NextFile
    BY <1>3 DEF EndFile
  <2> QED BY <1>1, <1>3, <2>1, FileCollected
<1> QED BY <1>2, <1>3

(* A failure of its own that run() records while nothing runs.             *)
LEMMA FailureRecorded ==
    ASSUME VecInv, vecPc \notin {"summary", "done"}, ~AtWork, NEW kind,
           Record(MainThread, Result(0, kind, FALSE)), UNCHANGED <<suite, capabilitySkips>>
    PROVE  /\ Kept /\ Placed(results') /\ SomeFailed' /\ Idle /\ local' = local
<1> DEFINE e == Result(0, kind, FALSE)
<1>1. Idle /\ local[MainThread] = NoList
  BY IdleOutside DEF VecInv, ThreadInv, Idle, VectorThreads
<1>2. results' = Append(results, e) /\ local' = local
  BY <1>1 DEF Record
<1>3. e.adapter = adapterAt /\ e.file = fileAt /\ e.passed = FALSE
  BY DEF Result
<1>4. Extends(results', results, e)
  BY <1>2, ResultAppended DEF VecInv, OrderInv
<1> HIDE DEF e
<1>5. Kept
  BY <1>4 DEF Kept, Extends
<1>6. results'[Len(results')] = e /\ Len(results') \in 1..Len(results')
  BY <1>4 DEF Extends
<1>7. SomeFailed'
  BY <1>3, <1>6 DEF SomeFailed
<1>8. adapterAt \in Nat /\ fileAt \in Nat
  BY SuiteTyped DEF VecInv, VecTypes
<1>9. ASSUME NEW r \in 1..Len(results)
      PROVE  /\ results[r].adapter \in Nat /\ results[r].file \in Nat
             /\ \/ results[r].adapter < adapterAt
                \/ results[r].adapter = adapterAt /\ results[r].file < fileAt
  BY DEF VecInv, OrderInv
<1>10. Sorted(results')
  <2>1. \A r \in 1..Len(results) : Before(results[r], e)
    <3> SUFFICES ASSUME NEW r \in 1..Len(results) PROVE Before(results[r], e)
      OBVIOUS
    <3> QED BY <1>3, <1>9 DEF Before
  <2> QED BY <1>4, <2>1, SortedAppended DEF VecInv, OrderInv
<1>11. ASSUME NEW r \in 1..Len(results')
       PROVE  /\ results'[r].adapter \in Nat /\ results'[r].file \in Nat
              /\ \/ results'[r].adapter < adapterAt
                 \/ results'[r].adapter = adapterAt /\ results'[r].file <= fileAt
  <2>1. CASE r \in 1..Len(results)
    <3>1. results'[r] = results[r]
      BY <1>4, <2>1 DEF Extends
    <3> QED BY <1>8, <1>9, <2>1, <3>1
  <2>2. CASE r = Len(results')
    BY <1>3, <1>6, <1>8, <2>2
  <2> QED BY <1>4, <2>1, <2>2 DEF Extends
<1>12. Placed(results')
  BY <1>4, <1>10, <1>11 DEF Placed, Extends
<1> QED BY <1>1, <1>2, <1>5, <1>7, <1>12

LEMMA RecordCrashKeeps == ASSUME VecInv, RecordCrash PROVE VecInv'
<1>1. /\ vecPc = "crash" /\ ~AtWork /\ Record(MainThread, Result(0, "runner", FALSE))
      /\ NextFile /\ UNCHANGED <<suite, running, step, capabilitySkips, verdict>>
  BY DEF RecordCrash, AtWork
<1>2. Kept /\ Placed(results') /\ SomeFailed' /\ Idle /\ local' = local
  BY <1>1, FailureRecorded
<1>3. CompleteInv'
  BY <1>2 DEF CompleteInv
<1> QED BY <1>1, <1>2, <1>3, FileIsLeft

LEMMA StartAdapterKeeps == ASSUME VecInv, StartAdapter PROVE VecInv'
<1>1. /\ vecPc = "adapter" /\ ~AtWork
      /\ UNCHANGED <<suite, running, step, capabilitySkips, verdict>>
  BY DEF StartAdapter, AtWork
<1>2. CASE Works(adapterAt)
  <2>1. vecPc' = "file" /\ UNCHANGED <<adapterAt, fileAt, results, local>>
    BY <1>2 DEF StartAdapter, Works, Adapter
  <2>2. VecTypes' /\ fileAt = 1
    BY <1>1, <2>1 DEF VecInv, VecTypes
  <2>3. ~AtWork'
    BY <2>1 DEF AtWork
  <2>4. ThreadInv' /\ FileInv'
    BY <1>1, <2>1, <2>3, IdleOutside, NothingRuns DEF FileInv
  <2>5. OrderInv'
    BY <1>1, <2>1 DEF VecInv, OrderInv, Sorted
  <2>6. CompleteInv'
    <3>1. Kept
      BY <1>1, <2>1 DEF Kept
    <3>2. CASE SomeFailed
      BY <3>1, <3>2, FailureStays DEF CompleteInv
    <3>3. CASE ~SomeFailed
      <4>1. \A a \in 1..Len(suite.adapters) : a < adapterAt =>
              Works(a)' /\ \A f \in 1..Len(suite.files) : FileDone(a, f)'
        BY <1>1, <3>1, <3>3, DoneStays DEF VecInv, CompleteInv, Works
      <4>2. Works(adapterAt)'
        BY <1>1, <1>2, <2>1 DEF Works
      <4>3. \A f \in 1..Len(suite.files) : ~(f < fileAt)
        BY <2>2
      <4> QED BY <1>1, <2>1, <4>1, <4>2, <4>3 DEF CompleteInv
    <3> QED BY <3>2, <3>3
  <2>7. PassInv'
    BY <1>1, <2>1 DEF VecInv, PassInv
  <2> QED BY <2>2, <2>4, <2>5, <2>6, <2>7 DEF VecInv
<1>3. CASE ~Works(adapterAt)
  <2>1. Record(MainThread, Result(0, "build", FALSE)) /\ NextAdapter
    BY <1>3 DEF StartAdapter, Works, Adapter
  <2>2. Kept /\ Placed(results') /\ SomeFailed' /\ Idle /\ local' = local
    BY <1>1, <2>1, FailureRecorded
  <2>3. CompleteInv'
    BY <2>2 DEF CompleteInv
  <2> QED BY <1>1, <2>1, <2>2, <2>3, FileIsLeft
<1> QED BY <1>2, <1>3

LEMMA SummarizeKeeps == ASSUME VecInv, Summarize PROVE VecInv'
<1>1. /\ vecPc = "summary" /\ vecPc' = "done" /\ ~AtWork /\ ~AtWork' /\ ~InFile'
      /\ UNCHANGED <<suite, adapterAt, fileAt, running, step, capabilitySkips>>
      /\ verdict' = IF results # <<>> /\ \A i \in 1..Len(results) : results[i].passed
                    THEN "pass" ELSE "fail"
  BY DEF Summarize, AtWork, InFile
<1>2. Idle /\ local[MainThread] = NoList
  BY <1>1, IdleOutside DEF VecInv, ThreadInv, Idle, VectorThreads
<1> DEFINE e == Result(0, "no_checks", FALSE)
<1>3. /\ local' = local
      /\ results' = IF results = <<>> THEN Append(results, e) ELSE results
  BY <1>2 DEF Summarize, Record
<1>4. VecTypes'
  BY <1>1, <1>3 DEF VecInv, VecTypes
<1>5. ThreadInv' /\ FileInv'
  BY <1>1, <1>2, <1>3, NothingRuns DEF FileInv
<1>6. CASE results # <<>>
  <2>1. results' = results
    BY <1>3, <1>6
  <2>2. OrderInv'
    BY <1>1, <2>1 DEF VecInv, OrderInv, Sorted
  <2>3. Kept
    BY <1>1, <2>1 DEF Kept
  <2>4. CompleteInv'
    <3>1. CASE SomeFailed
      BY <2>3, <3>1, FailureStays DEF CompleteInv
    <3>2. CASE ~SomeFailed
      <4>1. \A a \in 1..Len(suite.adapters) : a < adapterAt =>
              Works(a)' /\ \A f \in 1..Len(suite.files) : FileDone(a, f)'
        BY <1>1, <2>3, <3>2, DoneStays DEF VecInv, CompleteInv, Works
      <4> QED BY <1>1, <4>1 DEF CompleteInv
    <3> QED BY <3>1, <3>2
  <2>5. PassInv'
    BY <1>1, <2>1 DEF PassInv, SomeFailed
  <2> QED BY <1>4, <1>5, <2>2, <2>4, <2>5 DEF VecInv
<1>7. CASE results = <<>>
  <2>1. e.adapter = adapterAt /\ e.file = fileAt /\ e.passed = FALSE
    BY DEF Result
  <2>2. Extends(results', results, e) /\ Len(results) = 0
    BY <1>3, <1>7, ResultAppended, EmptySeq DEF VecInv, OrderInv
  <2> HIDE DEF e
  <2>3. /\ IsSeq(results') /\ Len(results') = 1 /\ results'[1] = e
        /\ \A r \in 1..Len(results') : r = 1
    BY <2>2 DEF Extends
  <2>4. Sorted(results')
    BY <2>3 DEF Sorted
  <2>5. adapterAt \in Nat /\ fileAt \in Nat
    BY SuiteTyped DEF VecInv, VecTypes
  <2>6. OrderInv'
    BY <1>1, <2>1, <2>3, <2>4, <2>5 DEF OrderInv
  <2>7. SomeFailed'
    BY <2>1, <2>3 DEF SomeFailed
  <2>8. CompleteInv'
    BY <2>7 DEF CompleteInv
  <2>9. PassInv'
    BY <1>1, <1>7 DEF PassInv
  <2> QED BY <1>4, <1>5, <2>6, <2>8, <2>9 DEF VecInv
<1> QED BY <1>6, <1>7

LEMMA VecInitOK == VecInit => VecInv
<1> SUFFICES ASSUME NEW given \in Suites, VecStart(given) PROVE VecInv
  BY DEF VecInit
<1>1. /\ suite = given /\ vecPc = "adapter" /\ adapterAt = 1 /\ fileAt = 1
      /\ running = [t \in VectorThreads |-> 0] /\ step = [t \in VectorThreads |-> 0]
      /\ local = [t \in VectorThreads |-> NoList]
      /\ results = <<>> /\ verdict = "none"
  BY DEF VecStart
<1>2. VecTypes
  <2>1. given \in [adapters : Seq(VectorAdapterType) \ {<<>>}, files : Seq(VectorFileType) \ {<<>>}]
    BY VecAssumption
  <2>2. Len(given.adapters) \in Nat \ {0} /\ Len(given.files) \in Nat \ {0}
    BY <2>1, EmptySeq
  <2>3. 1 \in 1..Len(given.adapters) /\ 1 \in 1..Len(given.files)
    BY <2>2
  <2> QED BY <1>1, <2>3 DEF VecTypes
<1>3. IsSeq(results) /\ Len(results) = 0
  <2>1. <<>> \in Seq({}) /\ Len(<<>>) = 0
    BY EmptySeq
  <2> QED BY <1>1, <2>1 DEF IsSeq
<1>4. OrderInv
  BY <1>3 DEF OrderInv, Sorted
<1>5. ThreadInv
  BY <1>1 DEF ThreadInv
<1>6. ~AtWork /\ ~InFile
  BY <1>1 DEF AtWork, InFile
<1>7. CompleteInv
  BY <1>1, <1>6 DEF CompleteInv
<1>8. PassInv
  BY <1>1 DEF PassInv
<1> QED BY <1>2, <1>4, <1>5, <1>6, <1>7, <1>8 DEF VecInv, FileInv

(* The vector runner: threads hold the lists of the scenarios they run,    *)
(* no scenario of a file is lost, and what is recorded is complete up to   *)
(* the file under way unless something has failed.                         *)
THEOREM VecInvariant == VecSpec => []VecInv
<1>1. VecInit => VecInv
  BY VecInitOK
<1>2. VecInv /\ [VecNext]_vecVars => VecInv'
  <2> SUFFICES ASSUME VecInv, [VecNext]_vecVars PROVE VecInv'
    OBVIOUS
  <2>1. CASE StartAdapter
    BY <2>1, StartAdapterKeeps
  <2>2. CASE SkipMissingFile
    BY <2>2, SkipMissingFileKeeps
  <2>3. CASE LoadFails
    BY <2>3, LoadFailsKeeps
  <2>4. CASE StartFile
    BY <2>4, StartFileKeeps
  <2>5. CASE CancelQueued
    BY <2>5, CancelQueuedKeeps
  <2>6. CASE EndPool
    BY <2>6, EndPoolKeeps
  <2>7. CASE TakeTimed
    BY <2>7, TakeTimedKeeps
  <2>8. CASE EndFile
    BY <2>8, EndFileKeeps
  <2>9. CASE RecordCrash
    BY <2>9, RecordCrashKeeps
  <2>10. CASE Summarize
    BY <2>10, SummarizeKeeps
  <2>11. ASSUME NEW t \in VectorThreads,
                TakeScenario(t) \/ RunTest(t) \/ EndScenario(t) \/ ScenarioRaises(t)
         PROVE  VecInv'
    BY <2>11, TakeScenarioKeeps, RunTestKeeps, EndScenarioKeeps, ScenarioRaisesKeeps
  <2>12. CASE UNCHANGED vecVars
    <3>1. /\ UNCHANGED <<suite, vecPc, adapterAt, fileAt, runnable, queued, running, step,
                         local, collected, results, capabilitySkips, verdict>>
      BY <2>12 DEF vecVars, fileVars
    <3>2. VecTypes' /\ OrderInv' /\ ThreadInv' /\ PassInv'
      BY <3>1 DEF VecInv, VecTypes, OrderInv, Sorted, ThreadInv, AtWork, PassInv, SomeFailed
    <3>3. FileInv'
      BY <3>1 DEF VecInv, FileInv, AtWork, Count, File, Adapter, Applies, Selected, Scenario,
                  ScenarioReturned, Tracked, HasRaised
    <3>4. CompleteInv'
      <4>1. Kept
        BY <3>1 DEF Kept
      <4>2. CASE SomeFailed
        BY <4>1, <4>2, FailureStays DEF CompleteInv
      <4>3. CASE ~SomeFailed
        <5>1. /\ \A a \in 1..Len(suite.adapters) : a < adapterAt =>
                   Works(a)' /\ \A f \in 1..Len(suite.files) : FileDone(a, f)'
              /\ InFile =>
                   /\ Works(adapterAt)
                   /\ \A f \in 1..Len(suite.files) : f < fileAt => FileDone(adapterAt, f)
          BY <3>1, <4>1, <4>3, DoneStays DEF VecInv, CompleteInv, Works
        <5>2. InFile' => /\ Works(adapterAt)'
                         /\ \A f \in 1..Len(suite.files) : f < fileAt => FileDone(adapterAt, f)'
          <6>1. SUFFICES ASSUME InFile'
                         PROVE  /\ Works(adapterAt)'
                                /\ \A f \in 1..Len(suite.files) :
                                     f < fileAt => FileDone(adapterAt, f)'
            OBVIOUS
          <6>2. InFile
            BY <3>1, <6>1 DEF InFile
          <6>3. ASSUME NEW f \in 1..Len(suite.files), f < fileAt
                PROVE  FileDone(adapterAt, f)'
            <7>1. PICK a : a = adapterAt
              OBVIOUS
            <7>2. FileDone(a, f)'
              BY <4>1, <5>1, <6>2, <6>3, <7>1, DoneStays
            <7>3. a = adapterAt'
              BY <3>1, <7>1
            <7> QED BY ONLY <7>2, <7>3 DEF FileDone, Wanted, Ran
          <6> QED BY <3>1, <5>1, <6>2, <6>3 DEF Works
        <5> QED BY <3>1, <5>1, <5>2 DEF CompleteInv
      <4> QED BY <4>2, <4>3
    <3> QED BY <3>2, <3>3, <3>4 DEF VecInv
  <2> QED BY <2>1, <2>2, <2>3, <2>4, <2>5, <2>6, <2>7, <2>8, <2>9, <2>10, <2>11, <2>12
          DEF VecNext
<1> QED BY <1>1, <1>2, PTL DEF VecSpec

(* A green vector run has run every test that its filters select for every *)
(* adapter asked for, or reports its file as skipped.                      *)
THEOREM GreenRunsComplete == VecSpec => []GreenRunsAreComplete
<1>1. VecInv => GreenRunsAreComplete
  <2> SUFFICES ASSUME VecInv, verdict = "pass", NEW a \in 1..Len(suite.adapters)
               PROVE  Works(a) /\ \A f \in 1..Len(suite.files) : FileDone(a, f)
    BY DEF GreenRunsAreComplete, Works, FileDone
  <2>1. vecPc = "done" /\ ~SomeFailed
    BY DEF VecInv, PassInv
  <2>2. a < adapterAt
    BY <2>1, SuiteTyped DEF VecInv, VecTypes
  <2> QED BY <2>1, <2>2 DEF VecInv, CompleteInv
<1> QED BY <1>1, VecInvariant, PTL

(* Results stand in the order of adapters, files, scenarios and tests,     *)
(* whatever order the threads finish in.                                   *)
THEOREM ResultsStayInOrder == VecSpec => []ResultsInScenarioOrder
<1>1. VecInv => ResultsInScenarioOrder
  BY DEF VecInv, OrderInv, Sorted, ResultsInScenarioOrder
<1> QED BY <1>1, VecInvariant, PTL

(***************************************************************************)
(* Workflows: every program as a job of its own                            *)
(***************************************************************************)

(* What the specifications of the programs say of them holds of the jobs   *)
(* of the workflows as they are model-checked: nothing a job does lets     *)
(* another program take a step that is not its own.                        *)
THEOREM JobsRunTheirPrograms ==
    WorkSpec =>
        /\ FuzzSpec /\ VecSpec /\ FlowSpec /\ PairSpec /\ TempoSpec /\ SdkSpec /\ AuditSpec
<1>1. WorkInit =>
        FuzzInit /\ VecInit /\ FlowInit /\ PairInit /\ TempoInit /\ SdkInit /\ AuditInit
  BY DEF WorkInit, FuzzInit, VecInit, FlowInit, PairInit, TempoInit, AuditInit
<1>2. [WorkNext]_workVars => [FuzzNext]_fuzzVars
  BY DEF WorkNext, workVars, RunnerStep, Fuzzing, Vectors, Flows, Pairs, Tempo, Sdk, Auditing
<1>3. [WorkNext]_workVars => [FlowNext]_flowVars
  BY DEF WorkNext, workVars, RunnerStep, Fuzzing, Vectors, Flows, Pairs, Tempo, Sdk, Auditing
<1>4. [WorkNext]_workVars => [PairNext]_pairVars
  BY DEF WorkNext, workVars, RunnerStep, Fuzzing, Vectors, Flows, Pairs, Tempo, Sdk, Auditing
<1>5. [WorkNext]_workVars => [TempoNext]_tempoVars
  BY DEF WorkNext, workVars, RunnerStep, Fuzzing, Vectors, Flows, Pairs, Tempo, Sdk, Auditing
<1>6. [WorkNext]_workVars => [SdkNext]_sdkVars
  BY DEF WorkNext, workVars, RunnerStep, Fuzzing, Vectors, Flows, Pairs, Tempo, Sdk, Auditing
<1>7. [WorkNext]_workVars => [AuditNext]_auditVars
  BY DEF WorkNext, workVars, RunnerStep, Fuzzing, Vectors, Flows, Pairs, Tempo, Sdk, Auditing
<1>8. [WorkNext]_workVars => [VecNext]_vecVars
  BY DEF WorkNext, workVars, RunnerStep, Fuzzing, Vectors, Flows, Pairs, Tempo, Sdk, Auditing
<1> QED BY <1>1, <1>2, <1>3, <1>4, <1>5, <1>6, <1>7, <1>8, PTL
        DEF WorkSpec, FuzzSpec, VecSpec, FlowSpec, PairSpec, TempoSpec, SdkSpec, AuditSpec
=============================================================================
