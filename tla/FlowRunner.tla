----------------------------- MODULE FlowRunner -----------------------------
(* conformance/scripts/flow_runner.py: main() starts the compliance server,
   runs every flow case of every adapter against it, one request at a time, and
   compares what it saw with the golden results, which --update-golden recorded
   from the TypeScript adapter against a server of its own.

   A request that times out stays with the server: its handler may finish while
   the runner is at a later case. The calls an adapter gets between two requests
   touch nothing the server sees and are part of the step that follows them.   *)
EXTENDS ComplianceServer, FiniteSets

CONSTANTS CaseOrder,      \* the cases of flows.json, in order
          GoldenOrders,   \* the same when the golden results were recorded
          Adapters,       \* the adapters asked for: [name, known, http]
          GoldenAdapter,  \* the adapter that records the golden results
          MaxDeviations   \* how often anything may go wrong during a check

FlowAdapterType == [name : STRING, known : BOOLEAN, http : BOOLEAN]

\* That the names of flows.json differ is what its author sees to: the harness
\* compares the paths only. The adapters are asked for by name, one of them or
\* each that was discovered; the one that records the golden results has an
\* HTTP client.
ASSUME FlowAssumption ==
  /\ CaseOrder \in Seq(Cases) /\ GoldenOrders \subseteq Seq(Cases)
  /\ \A order \in GoldenOrders : \A i, j \in 1..Len(order) :
       i # j => order[i].name # order[j].name
  /\ Adapters \in Seq(FlowAdapterType) \ {<<>>} /\ GoldenAdapter \in FlowAdapterType
  /\ \A a, b \in 1..Len(Adapters) : a # b => Adapters[a].name # Adapters[b].name
  /\ GoldenAdapter.http
  /\ MaxDeviations \in Nat

VARIABLES
  flowMode,    \* "update" or "check"
  flowPc,      \* the step of main() or of run_flow_case()
  goldenOrder, \* the cases of the update run
  adapterNo,   \* index of the adapter under way
  caseNo,      \* index of the case under way
  challenge,   \* the challenge the credential answers, as the adapter parsed it
  first,       \* status of the first retry of a replay case
  reports,     \* reports[a]: the results of adapter a
  golden,      \* the golden results
  flowResults, \* what main() counts: [adapter, name, passed]
  flowExit,    \* exit code, 2 for an exception
  deviated     \* by whom something went wrong: adapters, 0 for the server

mainVars == <<flowMode, goldenOrder, adapterNo, golden, flowResults, flowExit>>
flowVars == <<serverVars, flowPc, caseNo, challenge, first, reports, deviated, mainVars>>

Client == IF flowMode = "update" THEN GoldenAdapter ELSE Adapters[adapterNo]
Order == IF flowMode = "update" THEN goldenOrder ELSE CaseOrder
Case == Order[caseNo]
InCase == caseNo <= Len(Order)

\* run_flow_case(): which of its functions runs a case.
Kind(c) ==
  IF "discovery" \in c.has THEN "discovery"
  ELSE IF "json_rpc" \in c.has THEN "json_rpc"
  ELSE IF "client_flow" \in c.has THEN "client_flow"
  ELSE IF "no_payment" \in c.has THEN "no_payment"
  ELSE "payment"

\* Only the runner's own requests follow challenge_path and name their client.
FirstPath(c) == IF Kind(c) \in {"no_payment", "payment"} THEN c.challengePath ELSE c.path

FlowStart(order, hasNonces) ==
  /\ ServerStart(hasNonces)
  /\ flowMode = "update"
  /\ flowPc = "launch"
  /\ goldenOrder = order
  /\ adapterNo = 1
  /\ caseNo = 1
  /\ challenge = NoChallenge
  /\ first = 0
  /\ reports = [a \in 1..Len(Adapters) |-> <<>>]
  /\ golden = <<>>
  /\ flowResults = {}
  /\ flowExit = 0
  /\ deviated = <<>>

FlowInit == \E order \in GoldenOrders, hasNonces \in BOOLEAN : FlowStart(order, hasNonces)

\* Something goes wrong that the runner has to contain.
Deviates(who) ==
  /\ flowMode = "check"
  /\ Len(deviated) < MaxDeviations
  /\ deviated' = Append(deviated, who)

-----------------------------------------------------------------------------
(* run_flow_case(): results. *)

CaseOutcome(ok, status, error) == [ok |-> ok, status |-> status, error |-> error, skipped |-> FALSE]
FlowError(status, error) == CaseOutcome(FALSE, status, error)

\* challenge_result(): the id of a challenge with a nonce is not compared, a
\* deliberately replaced one is.
Shown(c) ==
  [path |-> c.path, query |-> c.query,
   id |-> IF c = NoChallenge THEN "none"
          ELSE IF "invalid_challenge_id" \in Case.has THEN "invalid-challenge-id"
          ELSE IF c.id # 0 THEN "nonce-bound"
          ELSE "derived"]

Entry(outcome, seen, response) ==
  [name |-> Case.name, outcome |-> outcome, challenge |-> Shown(seen), first |-> first,
   response |-> [response EXCEPT !.challenge = NoChallenge]]

\* The case is over with this result; run_flow_case_safely() goes on.
Finish(entry) ==
  /\ reports' = [reports EXCEPT ![adapterNo] = Append(@, entry)]
  /\ caseNo' = caseNo + 1
  /\ flowPc' = "case"
  /\ challenge' = NoChallenge
  /\ first' = 0
  /\ UNCHANGED mainVars

Answer == requests[Len(requests)].response
Arrived == requests[Len(requests)].at = "done"
Waiting == flowPc \in {"initial", "retry", "again"}

\* perform_request() with the headers of the case that has this path.
Send(path, auth, retry, next) ==
  /\ Receive([client |-> IF Kind(Case) \in {"no_payment", "payment"} THEN Client.name
                         ELSE "unknown",
              path |-> path,
              auth |-> auth,
              query |-> IF retry /\ "retry_query" \in Case.has THEN "retry" ELSE "initial",
              body |-> IF retry /\ "retry_body" \in Case.has THEN "retry" ELSE "initial",
              accept |-> IF "accept_payment" \in CaseAt(path).has THEN "tempo" ELSE "none"])
  /\ flowPc' = next
  /\ UNCHANGED <<caseNo, reports, mainVars>>

\* The header of the retry: the challenge as parsed and then tampered with.
Authorization(c) ==
  IF "skip_authorization" \in Case.has THEN NoAuthorization
  ELSE [c EXCEPT !.sound = @ /\ "tamper" \notin Case.has]

-----------------------------------------------------------------------------
(* run_flow_case(): steps. *)

StartCase ==
  /\ flowPc = "case"
  /\ InCase
  /\ "server_only" \notin Case.has
  /\ Case.challengePath \in Paths
  /\ Kind(Case) = "client_flow" => Client.http
  /\ Send(FirstPath(Case), NoAuthorization, FALSE, "initial")
  /\ UNCHANGED <<challenge, first, deviated>>

SkipServerOnly ==
  /\ flowPc = "case"
  /\ InCase
  /\ "server_only" \in Case.has
  /\ caseNo' = caseNo + 1
  /\ UNCHANGED <<serverVars, flowPc, challenge, first, reports, deviated, mainVars>>

\* A case that cannot run: its challenge case is gone, or the adapter has no
\* HTTP client.
RefuseCase ==
  /\ flowPc = "case"
  /\ InCase
  /\ "server_only" \notin Case.has
  /\ \/ /\ Case.challengePath \notin Paths
        /\ Finish(Entry(FlowError(0, "missing_challenge_case"), NoChallenge, NoResponse))
     \/ /\ Case.challengePath \in Paths
        /\ Kind(Case) = "client_flow"
        /\ ~Client.http
        /\ Finish(Entry([CaseOutcome(TRUE, 0, "") EXCEPT !.skipped = TRUE], NoChallenge, NoResponse))
  /\ UNCHANGED <<serverVars, deviated>>

\* run_discovery_flow_case(): one request.
EndDiscovery ==
  /\ flowPc = "initial"
  /\ Arrived
  /\ Kind(Case) = "discovery"
  /\ Finish(Entry(CaseOutcome(Answer.status < 300, Answer.status, ""), NoChallenge, Answer))
  /\ UNCHANGED <<serverVars, deviated>>

\* run_json_rpc_flow_case(): the runner itself answers the challenge and looks
\* for a receipt; the adapter has no part in it.
RetryJsonRpc ==
  /\ flowPc = "initial"
  /\ Arrived
  /\ Kind(Case) = "json_rpc"
  /\ challenge' = Answer.challenge
  /\ Send(Case.path, challenge', TRUE, "retry")
  /\ UNCHANGED <<first, deviated>>

EndJsonRpc ==
  /\ flowPc = "retry"
  /\ Arrived
  /\ Kind(Case) = "json_rpc"
  /\ Finish(Entry(CaseOutcome(Answer.status < 300, Answer.status, ""), NoChallenge, Answer))
  /\ UNCHANGED <<serverVars, deviated>>

\* run_client_http_flow_case(): the adapter made all the requests of the case by
\* itself and answers with the last response, or with an error. It must not
\* follow a redirect to another origin with a payment.
EndClientCase ==
  /\ flowPc \in {"initial", "retry"}
  /\ Arrived
  /\ Kind(Case) = "client_flow"
  /\ flowPc = "initial" => Answer.status # 402
  /\ LET ok == Answer.status < 300 /\ Answer.receipt # ""
     IN \/ /\ Finish(Entry(IF "redirect_to" \in Case.has THEN CaseOutcome(TRUE, 0, "")
                           ELSE CaseOutcome(ok, Answer.status, ""), NoChallenge, Answer))
           /\ UNCHANGED deviated
        \/ /\ Deviates(adapterNo)
           /\ Finish(Entry(FlowError(0, "adapter"), NoChallenge, NoResponse))
  /\ UNCHANGED serverVars

\* The first response ends the case: nothing is to be paid or can be.
EndWithoutPayment ==
  /\ flowPc = "initial"
  /\ Arrived
  /\ \/ Kind(Case) = "no_payment"
     \/ Kind(Case) = "payment" /\ Answer.status # 402
  /\ Finish(Entry(IF Kind(Case) = "no_payment"
                  THEN CaseOutcome(Answer.status < 400, Answer.status, "")
                  ELSE FlowError(Answer.status, "unexpected_status"), NoChallenge, Answer))
  /\ UNCHANGED <<serverVars, deviated>>

\* challenge.parse rejects the header, rightly or not.
ParseFails ==
  /\ flowPc = "initial"
  /\ Arrived
  /\ Answer.status = 402
  /\ Kind(Case) = "payment"
  /\ IF Answer.challenge = NoChallenge THEN UNCHANGED deviated ELSE Deviates(adapterNo)
  /\ Finish(Entry(CaseOutcome(FALSE, 402, "challenge_parse_error"), NoChallenge, Answer))
  /\ UNCHANGED serverVars

\* challenge.parse and credential.format succeed, or the HTTP client of the
\* adapter pays. A wrong answer is a credential that pays for nothing.
SendRetry ==
  /\ flowPc = "initial"
  /\ Arrived
  /\ Answer.status = 402
  /\ Kind(Case) \in {"payment", "client_flow"}
  /\ Answer.challenge # NoChallenge
  /\ \/ challenge' = Answer.challenge /\ UNCHANGED deviated
     \/ challenge' = [Answer.challenge EXCEPT !.path = "wrong"] /\ Deviates(adapterNo)
  /\ Send(Case.path, Authorization(challenge'), TRUE, "retry")
  /\ UNCHANGED first

\* The replay case pays twice with one credential, one request after the other.
SendAgain ==
  /\ flowPc = "retry"
  /\ Arrived
  /\ Kind(Case) = "payment"
  /\ "concurrent_replay" \in Case.has
  /\ first' = Answer.status
  /\ Send(Case.path, Authorization(challenge), TRUE, "again")
  /\ UNCHANGED <<challenge, deviated>>

EndReplay ==
  /\ flowPc = "again"
  /\ Arrived
  /\ Finish(Entry(CaseOutcome(TRUE, 200, ""), challenge, Status(Answer.status)))
  /\ UNCHANGED <<serverVars, deviated>>

\* The retry was answered; receipt.parse may get the receipt wrong.
EndCase ==
  /\ flowPc = "retry"
  /\ Arrived
  /\ Kind(Case) = "payment"
  /\ "concurrent_replay" \notin Case.has
  /\ IF Answer.status = 402
     THEN Finish(Entry(CaseOutcome(FALSE, 402, "payment_required"), challenge, Answer))
          /\ UNCHANGED deviated
     ELSE LET ok == Answer.status < 400
          IN \/ /\ Finish(Entry(CaseOutcome(ok, Answer.status, ""), challenge, Answer))
                /\ UNCHANGED deviated
             \/ /\ Answer.receipt # ""
                /\ Deviates(adapterNo)
                /\ Finish(Entry(CaseOutcome(ok, Answer.status, ""), challenge,
                                [Answer EXCEPT !.receipt = "wrong"]))
  /\ UNCHANGED serverVars

\* An answer of the adapter that violates its schema, or no answer of the server
\* within ten seconds: an exception, which becomes the result of the case.
CaseRaises ==
  /\ Waiting
  /\ Deviates(adapterNo)
  /\ Finish(Entry(FlowError(0, "case_error"), NoChallenge, NoResponse))
  /\ UNCHANGED serverVars

ServerDies ==
  /\ Waiting
  /\ server = "up"
  /\ Deviates(0)
  /\ server' = "dead"
  /\ UNCHANGED <<requests, maps, nonces, flowPc, caseNo, challenge, first, reports, mainVars>>


RequestFails ==
  /\ Waiting
  /\ ~Arrived
  /\ server = "dead"
  /\ Finish(Entry(FlowError(0, "case_error"), NoChallenge, NoResponse))
  /\ UNCHANGED <<serverVars, deviated>>

-----------------------------------------------------------------------------
(* compare_results(). *)

\* normalize_result() drops the problem details of a response.
Normalized(resp) == [resp EXCEPT !.problem = FALSE]

\* Two results agree up to the id of a challenge with a nonce.
SameEntry(expected, actual) ==
  /\ expected.outcome = actual.outcome
  /\ Normalized(expected.response) = Normalized(actual.response)
  /\ expected.first = actual.first
  /\ \/ expected.challenge = actual.challenge
     \/ /\ actual.challenge.id = "nonce-bound"
        /\ expected.challenge.path = actual.challenge.path
        /\ expected.challenge.query = actual.challenge.query

\* Only http.payment_request is ever a reason to skip, and it does not count.
Agrees(expected, actual) ==
  \/ actual.outcome.skipped /\ ~expected.outcome.skipped
  \/ SameEntry(expected, actual)

Entries(report) == {report[i] : i \in 1..Len(report)}

Verdict(name, passed) == [adapter |-> adapterNo, name |-> name, passed |-> passed]

\* Mutant: golden cases that the adapter never ran are not missed.
CompareActualOnly(report) ==
  {Verdict(e.name, \A g \in Entries(golden) : g.name = e.name => Agrees(g, e)) :
     e \in Entries(report)}

CompareResults(report) ==
  {Verdict(e.name, \E g \in Entries(golden) : g.name = e.name /\ Agrees(g, e)) :
     e \in Entries(report)}
  \cup {Verdict(g.name, FALSE) :
     g \in {g \in Entries(golden) : \A e \in Entries(report) : e.name # g.name}}

-----------------------------------------------------------------------------
(* main(). *)

\* start_server(). An SDK upgrade may bring nonces, the golden results stay.
Launch ==
  /\ flowPc = "launch"
  /\ StartServer
  /\ flowPc' = "wait"
  /\ UNCHANGED <<caseNo, challenge, first, reports, deviated, mainVars>>

\* wait_for_server().
ServerReady ==
  /\ flowPc = "wait"
  /\ server' = "up"
  /\ flowPc' = "adapter"
  /\ UNCHANGED <<requests, maps, nonces, caseNo, challenge, first, reports, deviated, mainVars>>

EndWith(code) ==
  /\ flowPc' = "stop"
  /\ flowExit' = code
  /\ UNCHANGED <<serverVars, challenge, first, flowMode, goldenOrder, adapterNo>>

ServerNeverStarts ==
  /\ flowPc = "wait"
  /\ Deviates(0)
  /\ EndWith(2)
  /\ UNCHANGED <<caseNo, reports, golden, flowResults>>

BeginAdapter ==
  /\ flowPc = "adapter"
  /\ flowMode = "check" => adapterNo <= Len(Adapters)
  /\ Client.known
  /\ flowPc' = "case"
  /\ caseNo' = 1
  /\ UNCHANGED <<serverVars, challenge, first, reports, deviated, mainVars>>

\* record_adapter_failure(): the adapter is unknown, or its build fails.
RefuseAdapter ==
  /\ flowPc = "adapter"
  /\ flowMode = "check"
  /\ adapterNo <= Len(Adapters)
  /\ IF Client.known THEN Deviates(adapterNo) ELSE UNCHANGED deviated
  /\ flowResults' = flowResults \cup {Verdict("adapter-run", FALSE)}
  /\ adapterNo' = adapterNo + 1
  /\ UNCHANGED <<serverVars, flowPc, caseNo, challenge, first, reports, flowMode, goldenOrder,
                 golden, flowExit>>

EndAdapter ==
  /\ flowPc = "case"
  /\ ~InCase
  /\ flowMode = "check"
  /\ flowResults' = flowResults \cup CompareResults(reports[adapterNo])
  /\ adapterNo' = adapterNo + 1
  /\ flowPc' = "adapter"
  /\ UNCHANGED <<serverVars, caseNo, challenge, first, reports, deviated, flowMode, goldenOrder,
                 golden, flowExit>>

\* update_golden_results().
WriteGolden ==
  /\ flowPc = "case"
  /\ ~InCase
  /\ flowMode = "update"
  /\ golden' = reports[1]
  /\ reports' = [reports EXCEPT ![1] = <<>>]
  /\ EndWith(0)
  /\ UNCHANGED <<caseNo, flowResults, deviated>>

\* Without a result the run fails: guard_no_results().
SumUp ==
  /\ flowPc = "adapter"
  /\ flowMode = "check"
  /\ adapterNo > Len(Adapters)
  /\ EndWith(IF flowResults # {} /\ \A r \in flowResults : r.passed THEN 0 ELSE 1)
  /\ UNCHANGED <<caseNo, reports, golden, flowResults, deviated>>

\* The finally: terminate, and kill after five seconds. A check follows, which
\* may meet a server whose SDK has nonces by now.
StopServer ==
  /\ flowPc = "stop"
  /\ server' = "off"
  /\ flowPc' = IF flowMode = "update" THEN "launch" ELSE "done"
  /\ flowMode' = "check"
  /\ nonces' \in {nonces, TRUE}
  /\ UNCHANGED <<requests, maps, caseNo, challenge, first, reports, deviated, goldenOrder,
                 adapterNo, golden, flowResults, flowExit>>

ServerHandles ==
  /\ ServerStep
  /\ UNCHANGED <<flowPc, caseNo, challenge, first, reports, deviated, mainVars>>

FlowNext ==
  \/ Launch \/ ServerReady \/ ServerNeverStarts
  \/ BeginAdapter \/ RefuseAdapter \/ EndAdapter \/ WriteGolden \/ SumUp \/ StopServer
  \/ StartCase \/ SkipServerOnly \/ RefuseCase \/ EndDiscovery \/ RetryJsonRpc \/ EndJsonRpc
  \/ EndClientCase \/ EndWithoutPayment \/ ParseFails \/ SendRetry
  \/ SendAgain \/ EndReplay \/ EndCase \/ CaseRaises \/ ServerDies \/ RequestFails
  \/ ServerHandles

FlowSpec == FlowInit /\ [][FlowNext]_flowVars

-----------------------------------------------------------------------------

\* Cases and adapters do not disturb each other although they share the maps of
\* one server: an adapter that did nothing wrong, on a server that did not die,
\* gets the golden result in every case, whatever another adapter or one of its
\* timed-out requests did before.
FaithfulAdaptersPass ==
  \A r \in flowResults :
    /\ goldenOrder = CaseOrder
    /\ \A i \in 1..Len(deviated) : deviated[i] \notin {0, r.adapter}
    /\ Adapters[r.adapter].known
    => r.passed

\* A check that succeeds has, for every adapter and every golden case, a result
\* that says the same, or one that says the adapter has no HTTP client.
PassMeansGolden ==
  flowPc = "done" /\ flowExit = 0 =>
    \A a \in 1..Len(Adapters) :
      /\ Adapters[a].known
      /\ \A i \in 1..Len(golden) : \E j \in 1..Len(reports[a]) :
           /\ reports[a][j].name = golden[i].name
           /\ \/ SameEntry(golden[i], reports[a][j])
              \/ reports[a][j].outcome.skipped /\ ~Adapters[a].http
=============================================================================
