-------------------------- MODULE ComplianceServer --------------------------
(* conformance/flows/compliance-server.ts: the reference server of the flows.
   A Node event loop runs its handlers; a handler gives way where it awaits the
   request body and where it awaits the payment method. The maps of the server
   live as long as the process, across cases and clients.

   A flow case has a path and a set of features named after its fields; "fails"
   stands for the fields that make verify() throw. A challenge carries what the
   server later compares: its path, query and body, and whether it is still as
   issued. A credential is the challenge it answers.                         *)
EXTENDS Naturals, Sequences

CONSTANTS Cases           \* flow cases: [name, path, has, challengePath]

\* The harness refuses two cases of one path. No schema says so, but in flows.json
\* a replay case is one to be paid for, by the runner and with its own challenge.
ASSUME CasesAssumption ==
  /\ Cases \subseteq [name : STRING, path : STRING, has : SUBSET STRING, challengePath : STRING]
  /\ \A c, d \in Cases : c.path = d.path => c = d
  /\ \A c \in Cases : "concurrent_replay" \in c.has =>
       /\ c.has \cap {"discovery", "no_payment", "json_rpc", "client_flow"} = {}
       /\ c.challengePath = c.path

NoChallenge == [id |-> 0, path |-> "", query |-> "", body |-> "", sound |-> FALSE]
NoAuthorization == NoChallenge

\* A response; what a reader of it does not look at keeps its default.
Status(code) ==
  [status |-> code, challenge |-> NoChallenge, receipt |-> "", accept |-> "", effects |-> 0,
   body |-> "", authorized |-> FALSE, problem |-> FALSE]

NoResponse == Status(0)

VARIABLES
  server,              \* "off", "starting", "up" or "dead"
  requests,            \* the requests it received: [sent, at, response]
  acceptPaymentByPath, \* the last Accept-Payment header without a credential
  sideEffectsByKey,    \* by path: the case has one key
  seenAuthorization,
  nonces,              \* whether its SDK puts a nonce into a challenge
  issued               \* challenges issued so far

serverVars == <<server, requests, acceptPaymentByPath, sideEffectsByKey, seenAuthorization,
                nonces, issued>>

Paths == {c.path : c \in Cases}

Unset == [p \in Paths |-> "unset"]
NoEffects == [p \in Paths |-> 0]

ServerStart(hasNonces) ==
  /\ server = "off"
  /\ requests = <<>>
  /\ acceptPaymentByPath = Unset
  /\ sideEffectsByKey = NoEffects
  /\ seenAuthorization = {}
  /\ nonces = hasNonces
  /\ issued = 0

CaseAt(path) == CHOOSE c \in Cases : c.path = path

\* A new process, with empty maps.
StartServer ==
  /\ server \in {"off", "dead"}
  /\ server' = "starting"
  /\ requests' = <<>>
  /\ acceptPaymentByPath' = Unset
  /\ sideEffectsByKey' = NoEffects
  /\ seenAuthorization' = {}
  /\ issued' = 0
  /\ UNCHANGED nonces

Receive(q) ==
  /\ requests' = Append(requests, [sent |-> q, at |-> "sent", response |-> NoResponse])
  /\ UNCHANGED <<server, acceptPaymentByPath, sideEffectsByKey, seenAuthorization, nonces, issued>>

Answered(i, response) == [requests EXCEPT ![i].at = "done", ![i].response = response]
Awaits(i, what) == [requests EXCEPT ![i].at = what]
maps == <<acceptPaymentByPath, sideEffectsByKey, seenAuthorization, issued>>

-----------------------------------------------------------------------------

\* The cases that are answered without a payment.
AtOnce(c) ==
  IF "discovery" \in c.has THEN [Status(200) EXCEPT !.body = "discovery"]
  ELSE IF "force_status" \in c.has THEN Status(500)
  ELSE IF "redirect_to" \in c.has THEN Status(302)
  ELSE Status(200)

Pending(i, stage) == server = "up" /\ requests[i].at = stage

Route(i) ==
  LET c == CaseAt(requests[i].sent.path) IN
  /\ Pending(i, "sent")
  /\ "json_rpc" \notin c.has
  /\ c.has \cap {"discovery", "force_status", "redirect_to", "no_payment"} # {}
  /\ requests' = Answered(i, AtOnce(c))
  /\ UNCHANGED <<server, maps, nonces>>

AwaitBody(i) ==
  LET c == CaseAt(requests[i].sent.path) IN
  /\ Pending(i, "sent")
  /\ c.has \cap {"discovery", "force_status", "redirect_to", "no_payment"} = {}
  /\ c.has \cap {"POST", "json_rpc"} # {}
  /\ requests' = Awaits(i, "body")
  /\ UNCHANGED <<server, maps, nonces>>

\* A tool call without a credential gets a challenge, one with any a receipt.
AnswerJsonRpc(i) ==
  LET q == requests[i].sent IN
  /\ Pending(i, "body")
  /\ "json_rpc" \in CaseAt(q.path).has
  /\ requests' = Answered(i, IF q.auth = NoAuthorization
                             THEN [Status(200) EXCEPT !.challenge.path = q.path]
                             ELSE [Status(200) EXCEPT !.receipt = "receipt"])
  /\ UNCHANGED <<server, maps, nonces>>

\* Mutant: a credential is the same one for every client.
ReplayKeyShared(q) == <<"any", q.auth>>

ReplayKey(q) == <<q.client, q.auth>>

\* Mutant: a credential is forgotten.
SeenWithNever(q) == seenAuthorization

SeenWith(q) == seenAuthorization \cup {ReplayKey(q)}

\* What the handler does between the body and the payment method, in one go.
Admit(i) ==
  LET q == requests[i].sent
      c == CaseAt(q.path)
      bearer == q.auth # NoAuthorization
      replayed == bearer /\ "concurrent_replay" \in c.has /\ ReplayKey(q) \in seenAuthorization
      rejected == bearer /\ "reject_authorization" \in c.has
  IN /\ \/ Pending(i, "sent") /\ c.has \cap {"POST", "json_rpc", "discovery", "force_status",
                                             "redirect_to", "no_payment"} = {}
        \/ Pending(i, "body") /\ "json_rpc" \notin c.has
     /\ requests' = IF rejected THEN Answered(i, [Status(400) EXCEPT !.authorized = TRUE])
                  ELSE IF replayed THEN Answered(i, [Status(402) EXCEPT !.problem = TRUE])
                  ELSE Awaits(i, "charge")
     /\ acceptPaymentByPath' = IF bearer THEN acceptPaymentByPath
                               ELSE [acceptPaymentByPath EXCEPT ![q.path] = q.accept]
     /\ seenAuthorization' = IF bearer /\ ~rejected /\ "concurrent_replay" \in c.has
                             THEN SeenWith(q) ELSE seenAuthorization
     /\ UNCHANGED <<server, sideEffectsByKey, nonces, issued>>

\* mppx: the credential answers a challenge for this route, unchanged, and
\* verify() does not throw.
Verified(q) ==
  /\ q.auth.sound
  /\ q.auth.path = q.path
  /\ "fails" \notin CaseAt(q.path).has

\* The checks of the handler after the payment method accepted.
Bound(q) ==
  LET c == CaseAt(q.path) IN
  /\ "digest_binding" \in c.has => q.auth.body = q.body
  /\ "bind_request_resource" \in c.has => q.auth.query = q.query

Issue(i) ==
  LET q == requests[i].sent
      c == CaseAt(q.path)
      id == IF nonces THEN issued + 1 ELSE 0
  IN /\ Pending(i, "charge")
     /\ ~Verified(q)
     /\ issued' = issued + 1
     /\ requests' = Answered(i, [Status(402) EXCEPT
          !.challenge = IF "invalid_www_authenticate" \in c.has THEN NoChallenge
                        ELSE [id |-> id, path |-> q.path, query |-> q.query, body |-> q.body,
                              sound |-> "invalid_challenge_id" \notin c.has],
          !.problem = "expect_problem_details" \in c.has])
     /\ UNCHANGED <<server, acceptPaymentByPath, sideEffectsByKey, seenAuthorization, nonces>>

\* A credential for another body or resource gets a plain challenge.
RejectUnbound(i) ==
  LET q == requests[i].sent IN
  /\ Pending(i, "charge")
  /\ Verified(q)
  /\ ~Bound(q)
  /\ requests' = Answered(i, [Status(402) EXCEPT !.challenge.path = q.path])
  /\ UNCHANGED <<server, maps, nonces>>

\* The side effect of a key happens once, whoever pays for it again.
Serve(i) ==
  LET q == requests[i].sent
      c == CaseAt(q.path)
      keyed == "idempotency_key" \in c.has
  IN /\ Pending(i, "charge")
     /\ Verified(q)
     /\ Bound(q)
     /\ sideEffectsByKey' = IF keyed THEN [sideEffectsByKey EXCEPT ![q.path] = 1]
                            ELSE sideEffectsByKey
     /\ requests' = Answered(i, [Status(200) EXCEPT
          !.receipt = IF "omit_receipt" \in c.has THEN "" ELSE "receipt",
          !.accept = acceptPaymentByPath[q.path],
          !.effects = sideEffectsByKey'[q.path],
          !.body = IF "verify_body_preserved" \in c.has THEN q.body ELSE ""])
     /\ UNCHANGED <<server, acceptPaymentByPath, seenAuthorization, nonces, issued>>

ServerStep ==
  \E i \in 1..Len(requests) :
     \/ Route(i) \/ AwaitBody(i) \/ AnswerJsonRpc(i) \/ Admit(i)
     \/ Issue(i) \/ RejectUnbound(i) \/ Serve(i)

-----------------------------------------------------------------------------

\* A credential of a replay case buys one answer per client, also when a request
\* that its client gave up on is still under way.
CredentialPaysOnce ==
  LET paid == {i \in 1..Len(requests) :
                 /\ requests[i].response.status = 200
                 /\ "concurrent_replay" \in CaseAt(requests[i].sent.path).has}
  IN \A i, j \in paid :
       /\ requests[i].sent.client = requests[j].sent.client
       /\ requests[i].sent.auth = requests[j].sent.auth
       => i = j
=============================================================================
