----------------------------- MODULE MCWorkflows -----------------------------
(***************************************************************************)
(* Instances of the programs of Workflows for TLC.                         *)
(***************************************************************************)
EXTENDS Workflows, TLC

(* diff_fuzz.py: two adapters, one of them parses; an answer may differ in *)
(* the field f, which the allowlist excuses for go when it formats.        *)
MCAnswers ==
    {[class |-> "ok", value |-> {}], [class |-> "ok", value |-> {"f"}],
     [class |-> "error", value |-> {}], [class |-> "invalid", value |-> {}]}
MCAllowlist ==
    {[adapters |-> {"go"}, operations |-> {"format"}, kinds |-> {"value"}, fields |-> {"f"}]}
MCBudgets ==
    {[faults |-> 2, examples |-> 1, chunks |-> 1], [faults |-> 0, examples |-> 2, chunks |-> 2]}

(* vector_runner.py: scenarios with one or two tests, timed ones, one that *)
(* raises and one for another SDK version; files that are missing, invalid *)
(* or need a capability; an adapter that is unknown.                       *)
Reply(success, what, slow) == [success |-> success, what |-> what, slow |-> slow]
MCReplies ==
    {Reply(TRUE, "value", FALSE), Reply(TRUE, "encoded value", TRUE),
     Reply(FALSE, "parse_error", FALSE)}
Check(name, expected, exact) == [name |-> name, expected |-> expected, exact |-> exact]
Parses == Check("parse", Reply(TRUE, "value", FALSE), FALSE)
Formats == Check("format", Reply(TRUE, "value", FALSE), TRUE)
Rejects == Check("parse", Reply(FALSE, "parse_error", FALSE), TRUE)
Vector(adapters, version, timed, tests, raises) ==
    [adapters |-> adapters, tagged |-> TRUE, version |-> version, timed |-> timed,
     tests |-> tests, raises |-> raises]
Both == {"go", "py"}
TwoTests == Vector(Both, TRUE, FALSE, <<Parses, Formats>>, FALSE)
OneTest == Vector(Both, TRUE, FALSE, <<Rejects>>, FALSE)
TimedGo == Vector({"go"}, TRUE, TRUE, <<Parses>>, FALSE)
NewerSdk == Vector(Both, FALSE, FALSE, <<Parses>>, FALSE)
Raises == Vector(Both, TRUE, FALSE, <<Parses>>, TRUE)
TimedRaises == Vector(Both, TRUE, TRUE, <<Parses>>, TRUE)
Listed(found, valid, capability, list) ==
    [found |-> found, valid |-> valid, operation |-> capability, scenarios |-> list]
VectorAdapter(name, known, builds, capabilities) ==
    [name |-> name, known |-> known, builds |-> builds, capabilities |-> capabilities]
Go == VectorAdapter("go", TRUE, TRUE, {"any"})
Py == VectorAdapter("py", TRUE, TRUE, {"any", "server"})
NotBuilt == VectorAdapter("go", TRUE, FALSE, {"any"})
Unknown == VectorAdapter("bad", FALSE, FALSE, {})
MCSuites == {
    [adapters |-> <<Go>>,
     files |-> <<Listed(TRUE, TRUE, "any", <<TwoTests, TimedGo, OneTest>>),
                 Listed(TRUE, TRUE, "server", <<OneTest, NewerSdk>>)>>],
    [adapters |-> <<Go>>,
     files |-> <<Listed(TRUE, TRUE, "any", <<OneTest, Raises, OneTest, OneTest>>),
                 Listed(TRUE, TRUE, "any", <<OneTest>>)>>],
    [adapters |-> <<Py, Unknown>>,
     files |-> <<Listed(TRUE, FALSE, "any", <<TwoTests>>),
                 Listed(TRUE, TRUE, "any", <<OneTest, TimedRaises>>),
                 Listed(TRUE, TRUE, "server", <<OneTest, NewerSdk>>)>>],
    [adapters |-> <<NotBuilt, Go>>,
     files |-> <<Listed(TRUE, TRUE, "any", <<OneTest>>), Listed(FALSE, TRUE, "any", <<>>)>>],
    [adapters |-> <<Go>>,
     files |-> <<Listed(FALSE, TRUE, "any", <<>>), Listed(TRUE, TRUE, "server", <<OneTest>>)>>],
    [adapters |-> <<Go, Py>>,
     files |-> <<Listed(TRUE, TRUE, "any", <<OneTest>>), Listed(TRUE, FALSE, "any", <<OneTest>>)>>]}

(* flow_runner.py and compliance-server.ts: one case per kind of the       *)
(* repository's flows.json, and one that the golden file still names.      *)
Flow(name, has, challengePath) ==
    [name |-> name, path |-> "/" \o name, has |-> has, challengePath |-> challengePath]
MCCaseOrder == <<
    Flow("replay", {"concurrent_replay"}, "/replay"),
    Flow("basic", {"accept_payment"}, "/basic"),
    Flow("cross", {"fails_not"}, "/basic"),
    Flow("client", {"POST", "client_flow"}, "/client"),
    Flow("only", {"server_only", "reject_authorization"}, "/only"),
    Flow("idem", {"POST", "idempotency_key", "verify_body_preserved"}, "/idem"),
    Flow("rpc", {"json_rpc"}, "/rpc"),
    Flow("query", {"bind_request_resource", "retry_query"}, "/query"),
    Flow("bad", {"invalid_www_authenticate"}, "/bad"),
    Flow("red", {"client_flow", "redirect_to"}, "/red"),
    Flow("free", {"no_payment"}, "/free"),
    Flow("openapi", {"discovery"}, "/openapi")>>
Removed == Flow("gone", {}, "/nowhere")
MCCases == {MCCaseOrder[i] : i \in 1..Len(MCCaseOrder)} \cup {Removed}
MCGoldenOrders ==
    {MCCaseOrder, SubSeq(MCCaseOrder, 2, 3) \o <<Removed>>}
FlowAdapter(name, http) == [name |-> name, known |-> TRUE, http |-> http]
MCAdapters == <<FlowAdapter("go", FALSE), FlowAdapter("python", TRUE)>>
MCGoldenAdapter == FlowAdapter("typescript", TRUE)

(* pair_runner.py: the adapters of the repository in their roles (one that *)
(* does not build), and scenario files that load, refer to a step that is  *)
(* no request, repeat a name or have no snapshot.                          *)
Step(name, kind, ref) == [name |-> name, kind |-> kind, ref |-> ref]
Expected(client, srv, steps, excused) ==
    [client |-> client, server |-> srv, steps |-> steps, fields |-> excused]
PairCase(name, steps, expected, snapshot) ==
    [name |-> name, steps |-> steps, expectedFailures |-> expected, snapshot |-> snapshot]
Charge == PairCase("charge", <<Step("ask", "request", ""), Step("pay", "request", "ask")>>,
                   {Expected("ts", "*", {"pay"}, {"receipt"})}, TRUE)
PaysAtOnce == PairCase("client", <<Step("pay", "pay", "")>>,
                       {Expected("go", "go", {"pay"}, Fields \cup {"any"})}, TRUE)
RefersToPay == PairCase("bad", <<Step("pay", "pay", ""), Step("again", "request", "pay")>>, {}, TRUE)
NoSnapshot == PairCase("new", <<Step("pay", "pay", "")>>, {}, FALSE)
MCScenarioFiles ==
    {<<Charge>>, <<PaysAtOnce, PaysAtOnce>>, <<RefersToPay>>, <<PaysAtOnce>>,
     <<NoSnapshot, PaysAtOnce>>}
PairAdapter(name, client, srv, builds) ==
    [name |-> name, client |-> client, server |-> srv, builds |-> builds]
MCPairAdapters ==
    {PairAdapter("ts", TRUE, TRUE, TRUE), PairAdapter("go", TRUE, TRUE, TRUE),
     PairAdapter("rust", FALSE, TRUE, FALSE), PairAdapter("py", TRUE, FALSE, TRUE)}

(* tempo-conformance: signing, decoding and recovery; node checks that     *)
(* require each other, skips with and without a reason.                    *)
NodeCheck(expect, requires, known) == [expect |-> expect, requires |-> requires, known |-> known]
Tx(name, op, adapters, constrained, reasons, signs, node) ==
    [name |-> name, operation |-> op, adapters |-> adapters, constrained |-> constrained,
     reasons |-> reasons, signs |-> signs, selected |-> TRUE, node |-> node]
Sdks == {"go", "typescript"}
Key == Tx("key", "tx.sign", Sdks, {"go"}, {"go"}, TRUE, NodeCheck("success", {}, {}))
UseKey == Tx("use", "tx.sign", Sdks, {}, {}, TRUE, NodeCheck("success", {"key"}, {"hash"}))
Decode == Tx("decode", "tx.decode", {"typescript"}, {}, {"go"}, FALSE, NodeCheck("reject", {}, {}))
Recover == Tx("recover", "signature.recover", Sdks, {}, {}, FALSE, NotOnNode)
Sign == Tx("reject", "tx.sign", Sdks, {}, {}, FALSE, NotOnNode)
MCTempoSuites ==
    {<<Key, UseKey, Decode, Recover>>, <<[Key EXCEPT !.selected = FALSE], UseKey, Sign>>,
     <<UseKey, Key>>, <<[Key EXCEPT !.reasons = {}], Sign>>}
MCTempoAdapters == <<
    [name |-> "go", capabilities |-> {"tx.sign", "tx.decode"}, current |-> FALSE],
    [name |-> "typescript", capabilities |-> {"tx.sign", "tx.decode", "signature.recover"},
     current |-> TRUE]>>

(* run.py --build: a go adapter and an npm one.                            *)
Call(build, sdk, keep) == [build |-> build, sdk |-> sdk, keep |-> keep]
MCCalls == {Call("build", "latest", FALSE), Call("build", "pinned", FALSE),
            Call("only", "latest", TRUE), Call("no", "latest", FALSE)}
MCSdkAdapters == <<"go", "typescript">>

(* The audit: a vector finding and a semantic one.                         *)
MCFixComments == "go" :> [targets |-> {"go"}, all |-> FALSE, instruction |-> FALSE]
MCFirstDrifts == {<<{"go"}, {}>>}
=============================================================================
