-------------------------- MODULE FlowRunnerProofs --------------------------
(***************************************************************************)
(* Theorems about the flow runner and its compliance server, for any       *)
(* cases, adapters, answers and deviations.                                *)
(***************************************************************************)
EXTENDS FlowRunner, FiniteSetTheorems, FunctionTheorems, SequenceTheorems, TLAPS

(* STRING: no prover knows that a string is in it.                         *)
Text == STRING \cup {"", "unset", "unknown", "tempo", "none", "initial", "retry", "wrong",
                     "receipt", "discovery"}

ChallengeType == [id : Nat, path : Text, query : Text, body : Text, sound : BOOLEAN]
SentType == [client : Text, path : Paths, auth : ChallengeType, query : Text,
             body : Text, accept : Text]
ResponseType == [status : Nat, challenge : ChallengeType, receipt : Text, accept : Text,
                 effects : Nat, body : Text, authorized : BOOLEAN, problem : BOOLEAN]
RequestType == [sent : SentType, at : {"sent", "body", "charge", "done"}, response : ResponseType]

ServerTypes ==
    /\ requests \in Seq(RequestType)
    /\ acceptPaymentByPath \in [Paths -> Text]
    /\ sideEffectsByKey \in [Paths -> Nat]
    /\ nonces \in BOOLEAN
    /\ issued \in Nat

(* A request of a replay case that the server let through to the payment   *)
(* method with its credential, or answered for it.                         *)
Replay(q) == "concurrent_replay" \in CaseAt(q.path).has
LetThrough(r) ==
    /\ Replay(r.sent) /\ r.sent.auth # NoAuthorization
    /\ r.at = "charge" \/ r.response.status = 200

PaysForIt(r) ==
    /\ r.at # "done" => r.response.status = 0
    /\ Replay(r.sent) /\ r.response.status = 200 => r.sent.auth # NoAuthorization
    /\ LetThrough(r) => ReplayKey(r.sent) \in seenAuthorization

ReplayInv ==
    /\ \A i \in 1..Len(requests) : PaysForIt(requests[i])
    /\ \A i, j \in 1..Len(requests) :
         i # j /\ LetThrough(requests[i]) /\ LetThrough(requests[j])
            => ReplayKey(requests[i].sent) # ReplayKey(requests[j].sent)

LEMMA CaseAtPath ==
    ASSUME NEW p \in Paths
    PROVE  CaseAt(p) \in Cases /\ CaseAt(p).has \in SUBSET STRING
<1>1. \E c \in Cases : c.path = p
  BY DEF Paths
<1>2. CaseAt(p) \in Cases
  BY <1>1 DEF CaseAt
<1> QED BY <1>2, CasesAssumption

LEMMA ResponsesTyped ==
    /\ NoChallenge \in ChallengeType
    /\ \A code \in Nat : Status(code) \in ResponseType /\ Status(code).status = code
    /\ NoResponse \in ResponseType /\ NoResponse.status = 0
<1>1. NoChallenge \in ChallengeType
  BY DEF NoChallenge, ChallengeType, Text
<1>2. ASSUME NEW code \in Nat
      PROVE  Status(code) \in ResponseType /\ Status(code).status = code
  BY <1>1 DEF Status, ResponseType, Text
<1> QED BY <1>1, <1>2 DEF NoResponse

(* A request moves on or is answered.                                      *)
LEMMA RequestStep ==
    ASSUME ServerTypes, ReplayInv, NEW i \in 1..Len(requests), NEW r \in RequestType,
           r.sent = requests[i].sent, requests' = [requests EXCEPT ![i] = r],
           seenAuthorization \subseteq seenAuthorization',
           r.at # "done" => r.response.status = 0,
           Replay(r.sent) /\ r.response.status = 200 => r.sent.auth # NoAuthorization,
           LetThrough(r) =>
               \/ LetThrough(requests[i])
               \/ /\ ReplayKey(r.sent) \notin seenAuthorization
                  /\ ReplayKey(r.sent) \in seenAuthorization'
    PROVE  requests' \in Seq(RequestType) /\ ReplayInv'
<1>1. requests' \in Seq(RequestType) /\ Len(requests') = Len(requests)
      /\ \A k \in 1..Len(requests) : requests'[k] = IF k = i THEN r ELSE requests[k]
  BY DEF ServerTypes
<1>2. ASSUME NEW k \in 1..Len(requests) PROVE PaysForIt(requests[k])'
  <2>1. PaysForIt(requests[k])
    BY DEF ReplayInv
  <2>2. CASE k = i
    BY <1>1, <2>1, <2>2 DEF PaysForIt, LetThrough
  <2>3. CASE k # i
    BY <1>1, <2>1, <2>3 DEF PaysForIt, LetThrough
  <2> QED BY <2>2, <2>3
<1>3. ASSUME NEW j \in 1..Len(requests), j # i, LetThrough(r), LetThrough(requests[j])
      PROVE  ReplayKey(r.sent) # ReplayKey(requests[j].sent)
  <2>1. ReplayKey(requests[j].sent) \in seenAuthorization
    BY <1>3 DEF ReplayInv, PaysForIt
  <2> QED BY <1>3, <2>1 DEF ReplayInv
<1>4. ASSUME NEW j \in 1..Len(requests), NEW k \in 1..Len(requests), j # k,
             LetThrough(requests'[j]), LetThrough(requests'[k])
      PROVE  ReplayKey(requests'[j].sent) # ReplayKey(requests'[k].sent)
  <2>1. CASE j = i
    BY <1>1, <1>3, <1>4, <2>1
  <2>2. CASE k = i
    BY <1>1, <1>3, <1>4, <2>2
  <2>3. CASE j # i /\ k # i
    BY <1>1, <1>4, <2>3 DEF ReplayInv
  <2> QED BY <2>1, <2>2, <2>3
<1> QED BY <1>1, <1>2, <1>4 DEF ReplayInv

LEMMA UpToNext ==
    ASSUME NEW n \in Nat PROVE \A k \in 1..(n + 1) : k \in 1..n \/ k = n + 1
OBVIOUS

(* A request that comes in has been let through to nothing.                *)
LEMMA ReceiveKeeps ==
    ASSUME ServerTypes, ReplayInv, NEW q \in SentType, Receive(q)
    PROVE  ServerTypes' /\ ReplayInv' /\ requests' # <<>>
<1> DEFINE r == [sent |-> q, at |-> "sent", response |-> NoResponse]
<1>1. r \in RequestType /\ r.sent = q /\ r.at = "sent" /\ r.response.status = 0
  BY ResponsesTyped DEF RequestType
<1>2. requests' = Append(requests, r) /\ seenAuthorization' = seenAuthorization
  BY DEF Receive
<1> HIDE DEF r
<1>3. /\ requests' \in Seq(RequestType) /\ Len(requests') = Len(requests) + 1
      /\ Len(requests) \in Nat
      /\ \A k \in 1..Len(requests) : requests'[k] = requests[k]
      /\ requests'[Len(requests) + 1] = r
  BY <1>1, <1>2, AppendProperties, LenProperties DEF ServerTypes
<1>4. ~LetThrough(r) /\ PaysForIt(r)'
  BY <1>1 DEF LetThrough, PaysForIt
<1>5. \A k \in 1..Len(requests') : k \in 1..Len(requests) \/ requests'[k] = r
  <2>1. \A k \in 1..(Len(requests) + 1) : k \in 1..Len(requests) \/ k = Len(requests) + 1
    BY <1>3, UpToNext
  <2> TAKE k \in 1..Len(requests')
  <2>2. k \in 1..(Len(requests) + 1)
    BY <1>3
  <2> QED BY <1>3, <2>1, <2>2
<1>6. \A k \in 1..Len(requests') : PaysForIt(requests[k])'
  <2> TAKE k \in 1..Len(requests')
  <2>1. CASE k \in 1..Len(requests)
    BY <1>2, <1>3, <2>1 DEF ReplayInv, PaysForIt, LetThrough
  <2>2. CASE requests'[k] = r
    BY <1>1, <2>2 DEF PaysForIt, LetThrough
  <2> QED BY <1>5, <2>1, <2>2
<1>7. ASSUME NEW j \in 1..Len(requests'), NEW k \in 1..Len(requests'), j # k,
             LetThrough(requests'[j]), LetThrough(requests'[k])
      PROVE  ReplayKey(requests'[j].sent) # ReplayKey(requests'[k].sent)
  <2>1. j \in 1..Len(requests) /\ k \in 1..Len(requests)
    BY <1>4, <1>5, <1>7
  <2> QED BY <1>3, <1>7, <2>1 DEF ReplayInv
<1>8. ReplayInv'
  BY <1>6, <1>7 DEF ReplayInv
<1>9. requests' # <<>>
  BY <1>3, EmptySeq
<1> QED BY <1>3, <1>8, <1>9 DEF ServerTypes, Receive

LEMMA StartServerKeeps ==
    ASSUME ServerTypes, StartServer PROVE ServerTypes' /\ ReplayInv'
<1>1. requests' = <<>> /\ Len(requests') = 0
  BY EmptySeq DEF StartServer
<1>2. ReplayInv'
  BY <1>1 DEF ReplayInv
<1>3. Unset \in [Paths -> Text] /\ NoEffects \in [Paths -> Nat]
  BY DEF Unset, NoEffects, Text
<1> QED BY <1>1, <1>2, <1>3, EmptySeq DEF ServerTypes, StartServer

LEMMA AnswerKeeps ==
    ASSUME ServerTypes, ReplayInv, NEW i \in 1..Len(requests), NEW x \in ResponseType,
           requests' = Answered(i, x), seenAuthorization \subseteq seenAuthorization',
           x.status = 200 /\ Replay(requests[i].sent) =>
               requests[i].sent.auth # NoAuthorization /\ requests[i].at = "charge"
    PROVE  requests' \in Seq(RequestType) /\ ReplayInv'
<1> DEFINE r == [requests[i] EXCEPT !.at = "done", !.response = x]
<1>1. requests[i] \in RequestType
  BY ElementOfSeq DEF ServerTypes
<1>2. requests' = [requests EXCEPT ![i] = r]
  BY DEF Answered
<1>3. r \in RequestType /\ r.sent = requests[i].sent /\ r.at = "done" /\ r.response = x
  BY <1>1 DEF RequestType
<1> HIDE DEF r
<1>4. LetThrough(r) => LetThrough(requests[i])
  BY <1>3 DEF LetThrough
<1>5. Replay(r.sent) /\ r.response.status = 200 => r.sent.auth # NoAuthorization
  BY <1>3
<1> QED BY <1>2, <1>3, <1>4, <1>5, RequestStep

LEMMA AwaitKeeps ==
    ASSUME ServerTypes, ReplayInv, NEW i \in 1..Len(requests), NEW what \in {"body", "charge"},
           requests' = Awaits(i, what), requests[i].at # "done",
           seenAuthorization \subseteq seenAuthorization',
           what = "charge" /\ Replay(requests[i].sent)
              /\ requests[i].sent.auth # NoAuthorization =>
               /\ ReplayKey(requests[i].sent) \notin seenAuthorization
               /\ ReplayKey(requests[i].sent) \in seenAuthorization'
    PROVE  requests' \in Seq(RequestType) /\ ReplayInv'
<1> DEFINE r == [requests[i] EXCEPT !.at = what]
<1>1. requests[i] \in RequestType
  BY ElementOfSeq DEF ServerTypes
<1>2. requests' = [requests EXCEPT ![i] = r]
  BY DEF Awaits
<1>3. /\ r \in RequestType /\ r.sent = requests[i].sent /\ r.at = what
      /\ r.response = requests[i].response
  BY <1>1 DEF RequestType
<1> HIDE DEF r
<1>4. r.response.status = 0
  BY <1>3 DEF ReplayInv, PaysForIt
<1>5. LetThrough(r) => \/ LetThrough(requests[i])
                       \/ /\ ReplayKey(r.sent) \notin seenAuthorization
                          /\ ReplayKey(r.sent) \in seenAuthorization'
  BY <1>3, <1>4 DEF LetThrough
<1>6. Replay(r.sent) /\ r.response.status = 200 => r.sent.auth # NoAuthorization
  BY <1>4
<1> QED BY <1>2, <1>3, <1>4, <1>5, <1>6, RequestStep

LEMMA AtOnceTyped ==
    ASSUME NEW c, NEW x, x = AtOnce(c)
    PROVE  /\ x \in ResponseType
           /\ x.status = 200 =>
                "discovery" \in c.has
                \/ {"discovery", "force_status", "redirect_to"} \cap c.has = {}
<1>1. \A code \in Nat : Status(code) \in ResponseType /\ Status(code).status = code
  BY ResponsesTyped
<1>2. CASE "discovery" \in c.has
  <2>1. x = [Status(200) EXCEPT !.body = "discovery"]
    BY <1>2 DEF AtOnce
  <2>2. "discovery" \in Text
    BY DEF Text
  <2> QED BY <1>1, <1>2, <2>1, <2>2 DEF ResponseType
<1>3. CASE "discovery" \notin c.has /\ "force_status" \in c.has
  BY <1>1, <1>3 DEF AtOnce
<1>4. CASE c.has \cap {"discovery", "force_status"} = {} /\ "redirect_to" \in c.has
  BY <1>1, <1>4 DEF AtOnce
<1>5. CASE c.has \cap {"discovery", "force_status", "redirect_to"} = {}
  <2>1. x = Status(200)
    BY <1>5 DEF AtOnce
  <2> QED BY <1>1, <1>5, <2>1
<1> QED BY <1>2, <1>3, <1>4, <1>5

LEMMA PathShown ==
    ASSUME NEW x \in ResponseType, NEW p \in Text
    PROVE  /\ [x EXCEPT !.challenge.path = p] \in ResponseType
           /\ [x EXCEPT !.challenge.path = p].status = x.status
<1>1. x.challenge \in ChallengeType
  BY DEF ResponseType
<1>2. [x.challenge EXCEPT !.path = p] \in ChallengeType
  BY <1>1 DEF ChallengeType
<1>3. [x EXCEPT !.challenge.path = p] = [x EXCEPT !.challenge = [x.challenge EXCEPT !.path = p]]
  OBVIOUS
<1> QED BY <1>2, <1>3 DEF ResponseType

(* What a handler sees of its request.                                     *)
LEMMA RequestSeen ==
    ASSUME ServerTypes, NEW i \in 1..Len(requests)
    PROVE  /\ requests[i] \in RequestType /\ requests[i].sent \in SentType
           /\ requests[i].sent.path \in Paths /\ requests[i].sent.path \in Text
           /\ requests[i].sent.auth \in ChallengeType
           /\ CaseAt(requests[i].sent.path) \in Cases
<1>1. requests[i] \in RequestType
  BY ElementOfSeq DEF ServerTypes
<1>2. requests[i].sent \in SentType /\ requests[i].sent.path \in Paths
      /\ requests[i].sent.auth \in ChallengeType
  BY <1>1 DEF RequestType, SentType
<1>3. requests[i].sent.path \in Text
  <2>1. PICK c \in Cases : requests[i].sent.path = c.path
    BY <1>2 DEF Paths
  <2>2. c \in [name : STRING, path : STRING, has : SUBSET STRING, challengePath : STRING]
    BY CasesAssumption
  <2>3. c.path \in STRING
    BY ONLY <2>2
  <2> QED BY <2>1, <2>3 DEF Text
<1> QED BY <1>1, <1>2, <1>3, CaseAtPath

LEMMA RouteKeeps ==
    ASSUME ServerTypes, ReplayInv, NEW i \in 1..Len(requests), Route(i) \/ AwaitBody(i)
    PROVE  ServerTypes' /\ ReplayInv'
<1> DEFINE q == requests[i].sent
           c == CaseAt(q.path)
           x == AtOnce(c)
<1>1. c \in Cases /\ requests[i].at = "sent"
      /\ UNCHANGED <<acceptPaymentByPath, sideEffectsByKey, seenAuthorization, issued, nonces>>
  BY RequestSeen DEF Route, AwaitBody, Pending, maps
<1>2. CASE Route(i)
  <2>1. requests' = Answered(i, x) /\ "json_rpc" \notin c.has
        /\ c.has \cap {"discovery", "force_status", "redirect_to", "no_payment"} # {}
    BY <1>2 DEF Route
  <2>2. x \in ResponseType
    BY AtOnceTyped
  <2>3. ~(x.status = 200 /\ Replay(q))
    <3> SUFFICES ASSUME x.status = 200, Replay(q) PROVE FALSE
      OBVIOUS
    <3>1. "concurrent_replay" \in c.has
      BY DEF Replay
    <3>2. c.has \cap {"discovery", "no_payment", "json_rpc"} = {}
      BY <1>1, <3>1, CasesAssumption
    <3>3. "discovery" \in c.has \/ {"discovery", "force_status", "redirect_to"} \cap c.has = {}
      BY AtOnceTyped
    <3> HIDE DEF c
    <3> QED BY <2>1, <3>2, <3>3
  <2> HIDE DEF x
  <2>4. requests' \in Seq(RequestType) /\ ReplayInv'
    BY <1>1, <2>1, <2>2, <2>3, AnswerKeeps
  <2> QED BY <1>1, <2>4 DEF ServerTypes
<1>3. CASE AwaitBody(i)
  <2>1. requests' \in Seq(RequestType) /\ ReplayInv'
    BY <1>1, <1>3, AwaitKeeps DEF AwaitBody
  <2> QED BY <1>1, <2>1 DEF ServerTypes
<1> QED BY <1>2, <1>3

LEMMA AnswerJsonRpcKeeps ==
    ASSUME ServerTypes, ReplayInv, NEW i \in 1..Len(requests), AnswerJsonRpc(i)
    PROVE  ServerTypes' /\ ReplayInv'
<1> DEFINE q == requests[i].sent
           x == IF q.auth = NoAuthorization THEN [Status(200) EXCEPT !.challenge.path = q.path]
                ELSE [Status(200) EXCEPT !.receipt = "receipt"]
<1>1. /\ q.path \in Text /\ CaseAt(q.path) \in Cases /\ "json_rpc" \in CaseAt(q.path).has
      /\ UNCHANGED <<acceptPaymentByPath, sideEffectsByKey, seenAuthorization, issued, nonces>>
      /\ requests' = Answered(i, x)
  BY RequestSeen DEF AnswerJsonRpc, maps
<1>2. x \in ResponseType
  <2>1. Status(200) \in ResponseType /\ "receipt" \in Text
    BY ResponsesTyped DEF Text
  <2>2. [Status(200) EXCEPT !.receipt = "receipt"] \in ResponseType
    BY <2>1 DEF ResponseType
  <2>3. [Status(200) EXCEPT !.challenge.path = q.path] \in ResponseType
    <3>1. q.path \in Text
      BY <1>1
    <3> HIDE DEF q
    <3> QED BY <2>1, <3>1, PathShown
  <2> HIDE DEF q
  <2> QED BY <2>2, <2>3
<1>3. ~Replay(q)
  BY <1>1, CasesAssumption DEF Replay
<1> HIDE DEF x
<1>4. requests' \in Seq(RequestType) /\ ReplayInv'
  BY <1>1, <1>2, <1>3, AnswerKeeps
<1> QED BY <1>1, <1>4 DEF ServerTypes

LEMMA ResponseChanged ==
    ASSUME NEW x \in ResponseType, NEW b \in BOOLEAN
    PROVE  /\ [x EXCEPT !.authorized = b] \in ResponseType
           /\ [x EXCEPT !.authorized = b].status = x.status
           /\ [x EXCEPT !.problem = b] \in ResponseType
           /\ [x EXCEPT !.problem = b].status = x.status
BY DEF ResponseType

LEMMA ResponseServed ==
    ASSUME NEW x \in ResponseType, NEW receipt \in Text, NEW accept \in Text,
           NEW effects \in Nat, NEW body \in Text
    PROVE  [x EXCEPT !.receipt = receipt, !.accept = accept, !.effects = effects,
                     !.body = body] \in ResponseType
BY DEF ResponseType

LEMMA AdmitKeeps ==
    ASSUME ServerTypes, ReplayInv, NEW i \in 1..Len(requests), Admit(i)
    PROVE  ServerTypes' /\ ReplayInv'
<1> DEFINE q == requests[i].sent
           c == CaseAt(q.path)
           bearer == q.auth # NoAuthorization
           replayed == bearer /\ "concurrent_replay" \in c.has /\ ReplayKey(q) \in seenAuthorization
           rejected == bearer /\ "reject_authorization" \in c.has
           x == [Status(400) EXCEPT !.authorized = TRUE]
           y == [Status(402) EXCEPT !.problem = TRUE]
<1>1. /\ q.path \in Paths /\ q.accept \in Text /\ requests[i].at # "done"
      /\ requests' = IF rejected THEN Answered(i, x)
                     ELSE IF replayed THEN Answered(i, y) ELSE Awaits(i, "charge")
      /\ acceptPaymentByPath' = IF bearer THEN acceptPaymentByPath
                                ELSE [acceptPaymentByPath EXCEPT ![q.path] = q.accept]
      /\ seenAuthorization' = IF bearer /\ ~rejected /\ "concurrent_replay" \in c.has
                              THEN SeenWith(q) ELSE seenAuthorization
      /\ UNCHANGED <<sideEffectsByKey, issued, nonces>>
  BY RequestSeen DEF Admit, Pending, SentType
<1>2. /\ x \in ResponseType /\ x.status = 400
      /\ y \in ResponseType /\ y.status = 402
  <2>1. Status(400) \in ResponseType /\ Status(400).status = 400
    BY ResponsesTyped
  <2>2. Status(402) \in ResponseType /\ Status(402).status = 402
    BY ResponsesTyped
  <2>3. x \in ResponseType /\ x.status = Status(400).status
    BY <2>1, ResponseChanged
  <2>4. y \in ResponseType /\ y.status = Status(402).status
    BY <2>2, ResponseChanged
  <2> QED BY <2>1, <2>2, <2>3, <2>4
<1>3. Replay(q) <=> "concurrent_replay" \in c.has
  BY DEF Replay
<1>4. seenAuthorization \subseteq seenAuthorization'
  BY <1>1 DEF SeenWith
<1>5. acceptPaymentByPath' \in [Paths -> Text]
  BY <1>1 DEF ServerTypes
<1> HIDE DEF x, y, c
<1>6. requests' \in Seq(RequestType) /\ ReplayInv'
  <2>1. CASE rejected
    <3>1. requests' = Answered(i, x)
      BY <1>1, <2>1
    <3> QED BY <1>2, <1>4, <3>1, AnswerKeeps
  <2>2. CASE ~rejected /\ replayed
    <3>1. requests' = Answered(i, y)
      BY <1>1, <2>2
    <3> QED BY <1>2, <1>4, <3>1, AnswerKeeps
  <2>3. CASE ~rejected /\ ~replayed
    <3>1. requests' = Awaits(i, "charge")
      BY <1>1, <2>3
    <3>2. Replay(q) /\ q.auth # NoAuthorization =>
            ReplayKey(q) \notin seenAuthorization /\ ReplayKey(q) \in seenAuthorization'
      BY <1>1, <1>3, <2>3 DEF SeenWith
    <3> QED BY <1>1, <1>4, <3>1, <3>2, AwaitKeeps
  <2> QED BY <2>1, <2>2, <2>3
<1> QED BY <1>1, <1>5, <1>6 DEF ServerTypes

LEMMA IssueKeeps ==
    ASSUME ServerTypes, ReplayInv, NEW i \in 1..Len(requests), Issue(i) \/ RejectUnbound(i)
    PROVE  ServerTypes' /\ ReplayInv'
<1> DEFINE q == requests[i].sent
<1>1. /\ q \in SentType /\ q.path \in Text
      /\ UNCHANGED <<acceptPaymentByPath, sideEffectsByKey, seenAuthorization, nonces>>
  BY RequestSeen DEF Issue, RejectUnbound, maps
<1>2. CASE Issue(i)
  <2> DEFINE c == CaseAt(q.path)
             id == IF nonces THEN issued + 1 ELSE 0
             made == IF "invalid_www_authenticate" \in c.has THEN NoChallenge
                     ELSE [id |-> id, path |-> q.path, query |-> q.query, body |-> q.body,
                           sound |-> "invalid_challenge_id" \notin c.has]
             told == "expect_problem_details" \in c.has
             x == [Status(402) EXCEPT !.challenge = made, !.problem = told]
  <2>1. requests' = Answered(i, x) /\ issued' = issued + 1
    BY <1>2 DEF Issue
  <2>2. id \in Nat
    BY DEF ServerTypes
  <2>3. q.query \in Text /\ q.body \in Text
    BY <1>1 DEF SentType
  <2> HIDE DEF id, q, c
  <2>4. [id |-> id, path |-> q.path, query |-> q.query, body |-> q.body,
         sound |-> "invalid_challenge_id" \notin c.has] \in ChallengeType
    BY <1>1, <2>2, <2>3 DEF ChallengeType
  <2>5. made \in ChallengeType /\ told \in BOOLEAN
    BY <2>4, ResponsesTyped
  <2> HIDE DEF made, told
  <2>6. x \in ResponseType /\ x.status = 402
    <3> DEFINE z == Status(402)
    <3>1. z \in ResponseType /\ z.status = 402
      BY ResponsesTyped
    <3>2. x = [z EXCEPT !.challenge = made, !.problem = told]
      OBVIOUS
    <3> HIDE DEF x, z
    <3> QED BY <2>5, <3>1, <3>2 DEF ResponseType
  <2> HIDE DEF x
  <2>7. requests' \in Seq(RequestType) /\ ReplayInv'
    BY <1>1, <2>1, <2>6, AnswerKeeps
  <2>8. issued' \in Nat
    BY <2>1 DEF ServerTypes
  <2> QED BY <1>1, <2>7, <2>8 DEF ServerTypes
<1>3. CASE RejectUnbound(i)
  <2> DEFINE x == [Status(402) EXCEPT !.challenge.path = q.path]
  <2>1. requests' = Answered(i, x) /\ issued' = issued
    BY <1>3 DEF RejectUnbound, maps
  <2>2. x \in ResponseType /\ x.status = 402
    <3> HIDE DEF q
    <3>1. Status(402) \in ResponseType /\ Status(402).status = 402
      BY ResponsesTyped
    <3> QED BY <1>1, <3>1, PathShown
  <2> HIDE DEF x
  <2>3. requests' \in Seq(RequestType) /\ ReplayInv'
    BY <1>1, <2>1, <2>2, AnswerKeeps
  <2> QED BY <1>1, <2>1, <2>3 DEF ServerTypes
<1> QED BY <1>2, <1>3

(* Only what was let through with a credential is served.                  *)
LEMMA ServeKeeps ==
    ASSUME ServerTypes, ReplayInv, NEW i \in 1..Len(requests), Serve(i)
    PROVE  ServerTypes' /\ ReplayInv'
<1> DEFINE q == requests[i].sent
           c == CaseAt(q.path)
           receipt == IF "omit_receipt" \in c.has THEN "" ELSE "receipt"
           accept == acceptPaymentByPath[q.path]
           effects == sideEffectsByKey'[q.path]
           body == IF "verify_body_preserved" \in c.has THEN q.body ELSE ""
           x == [Status(200) EXCEPT !.receipt = receipt, !.accept = accept, !.effects = effects,
                                    !.body = body]
<1>1. /\ q \in SentType /\ q.path \in Paths /\ q.body \in Text /\ requests[i].at = "charge"
      /\ q.auth.sound
      /\ requests' = Answered(i, x)
      /\ sideEffectsByKey' = IF "idempotency_key" \in c.has
                             THEN [sideEffectsByKey EXCEPT ![q.path] = 1] ELSE sideEffectsByKey
      /\ UNCHANGED <<acceptPaymentByPath, seenAuthorization, issued, nonces>>
  BY RequestSeen DEF Serve, Pending, SentType, Verified
<1>2. q.auth # NoAuthorization
  <2>1. NoAuthorization.sound = FALSE
    BY DEF NoAuthorization, NoChallenge
  <2> HIDE DEF q
  <2> QED BY <1>1, <2>1
<1>3. sideEffectsByKey' \in [Paths -> Nat]
  BY <1>1 DEF ServerTypes
<1>4. effects \in Nat /\ accept \in Text
  BY <1>1, <1>3 DEF ServerTypes
<1>5. receipt \in Text /\ body \in Text
  BY <1>1 DEF Text
<1> HIDE DEF receipt, accept, effects, body
<1>6. x \in ResponseType
  <2>1. Status(200) \in ResponseType
    BY ResponsesTyped
  <2> QED BY <1>4, <1>5, <2>1, ResponseServed
<1> HIDE DEF x
<1>7. requests' \in Seq(RequestType) /\ ReplayInv'
  BY <1>1, <1>2, <1>6, AnswerKeeps
<1> QED BY <1>1, <1>3, <1>7 DEF ServerTypes

LEMMA ServerStepKeeps ==
    ASSUME ServerTypes, ReplayInv, ServerStep PROVE ServerTypes' /\ ReplayInv'
BY RouteKeeps, AnswerJsonRpcKeeps, AdmitKeeps, IssueKeeps, ServeKeeps DEF ServerStep

(* The server only ever changes a request that it has.                     *)
LEMMA RequestsStay ==
    ASSUME ServerTypes, ServerTypes', ServerStep PROVE requests' # <<>>
<1>1. DOMAIN requests = 1..Len(requests) /\ DOMAIN requests' = 1..Len(requests')
  BY LenProperties DEF ServerTypes
<1>2. \E i \in 1..Len(requests) : DOMAIN requests' = DOMAIN requests
  BY DEF ServerStep, Route, AwaitBody, AnswerJsonRpc, Admit, Issue, RejectUnbound, Serve,
         Answered, Awaits
<1> QED BY <1>1, <1>2, EmptySeq

IsSeq(s) == \E S : s \in Seq(S)

Distinct(s) == \A i, j \in 1..Len(s) : i # j => s[i].name # s[j].name

InACase == flowPc \in {"case", "initial", "retry", "again"}

FlowTypes ==
    /\ flowMode \in {"update", "check"}
    /\ goldenOrder \in GoldenOrders
    /\ adapterNo \in Nat \ {0}
    /\ caseNo \in Nat \ {0}
    /\ challenge \in ChallengeType
    /\ DOMAIN reports = 1..Len(Adapters)
    /\ \A a \in 1..Len(Adapters) : IsSeq(reports[a])
    /\ IsSeq(golden)

PlaceInv ==
    /\ InACase => adapterNo <= Len(Adapters)
    /\ Waiting => InCase /\ requests # <<>>

(* The update run reports the cases of its order, each at most once.       *)
UpdateInv ==
    /\ adapterNo = 1 /\ flowPc # "done"
    /\ \A a \in 1..Len(Adapters) : a # 1 => reports[a] = <<>>
    /\ ~InACase => reports[1] = <<>>
    /\ \A i \in 1..Len(reports[1]) : \E k \in 1..Len(goldenOrder) :
         k < caseNo /\ reports[1][i].name = goldenOrder[k].name
    /\ Distinct(reports[1])

Matched(expected, actual, a) ==
    \A i \in 1..Len(expected) : \E j \in 1..Len(actual) :
      /\ actual[j].name = expected[i].name
      /\ \/ SameEntry(expected[i], actual[j])
         \/ actual[j].outcome.skipped /\ ~Adapters[a].http

(* An adapter that the check is through with has agreed with the golden    *)
(* results, or has a failure among the results.                            *)
CheckInv ==
    /\ \A a \in 1..Len(Adapters) : \A j \in 1..Len(reports[a]) :
         reports[a][j].outcome.skipped => ~Adapters[a].http
    /\ \A a \in 1..Len(Adapters) : a < adapterNo =>
         \/ \E r \in flowResults : ~r.passed
         \/ Adapters[a].known /\ Matched(golden, reports[a], a)
    /\ flowPc \in {"stop", "done"} /\ flowExit = 0 =>
         adapterNo > Len(Adapters) /\ \A r \in flowResults : r.passed
    /\ InACase => Adapters[adapterNo].known

FlowInv ==
    /\ ServerTypes
    /\ ReplayInv
    /\ FlowTypes
    /\ PlaceInv
    /\ Distinct(golden)
    /\ flowMode = "update" => UpdateInv
    /\ flowMode = "check" => CheckInv

LEMMA ServerStays ==
    ASSUME ServerTypes, ReplayInv, UNCHANGED serverVars
    PROVE  ServerTypes' /\ ReplayInv' /\ requests' = requests
<1>1. /\ requests' = requests /\ acceptPaymentByPath' = acceptPaymentByPath
      /\ sideEffectsByKey' = sideEffectsByKey /\ seenAuthorization' = seenAuthorization
      /\ nonces' = nonces /\ issued' = issued
  BY DEF serverVars
<1>2. ReplayInv'
  BY <1>1 DEF ReplayInv, PaysForIt, LetThrough
<1> QED BY <1>1, <1>2 DEF ServerTypes

LEMMA AdaptersAsked ==
    /\ Len(Adapters) \in Nat /\ 1 \in 1..Len(Adapters)
    /\ \A a \in 1..Len(Adapters) : Adapters[a] \in FlowAdapterType
<1>1. Adapters \in Seq(FlowAdapterType) /\ Adapters # <<>>
  BY FlowAssumption
<1>2. Len(Adapters) \in Nat /\ Len(Adapters) # 0
  BY <1>1, LenProperties, EmptySeq
<1> QED BY <1>1, <1>2, ElementOfSeq

LEMMA OrdersTyped ==
    ASSUME FlowTypes
    PROVE  Order \in Seq(Cases) /\ Len(Order) \in Nat /\ Len(goldenOrder) \in Nat
<1>1. goldenOrder \in Seq(Cases) /\ CaseOrder \in Seq(Cases)
  BY FlowAssumption DEF FlowTypes
<1> QED BY <1>1, LenProperties DEF Order

(* What the runner reads while it is in a case.                            *)
LEMMA CaseSeen ==
    ASSUME FlowInv, InACase, InCase
    PROVE  /\ Case \in Cases /\ Case.path \in Paths /\ Case.path \in Text
           /\ caseNo \in 1..Len(Order) /\ adapterNo \in 1..Len(Adapters)
           /\ Client.name \in STRING
           /\ flowMode = "check" => Client = Adapters[adapterNo]
<1>1. FlowTypes /\ adapterNo <= Len(Adapters) /\ Len(Order) \in Nat /\ Order \in Seq(Cases)
  BY OrdersTyped DEF FlowInv, PlaceInv
<1>2. caseNo \in 1..Len(Order) /\ adapterNo \in 1..Len(Adapters)
  BY <1>1, AdaptersAsked DEF FlowTypes, InCase
<1>3. Case \in Cases
  BY <1>1, <1>2, ElementOfSeq DEF Case
<1>4. Case.path \in Paths /\ Case.path \in STRING
  BY <1>3, CasesAssumption DEF Paths
<1>5. Client \in FlowAdapterType
  BY <1>2, AdaptersAsked, FlowAssumption DEF Client
<1>6. Client.name \in STRING
  BY <1>5 DEF FlowAdapterType
<1>7. flowMode = "check" => Client = Adapters[adapterNo]
  BY DEF Client
<1> QED BY <1>2, <1>3, <1>4, <1>6, <1>7 DEF Text

(* The runner's last request, of which it reads the answer.                *)
LEMMA AnswerTyped ==
    ASSUME ServerTypes, requests # <<>>
    PROVE  Answer \in ResponseType /\ Answer.challenge \in ChallengeType
<1>1. Len(requests) \in Nat /\ Len(requests) # 0
  BY LenProperties, EmptySeq DEF ServerTypes
<1>2. Len(requests) \in 1..Len(requests)
  BY <1>1
<1>3. requests[Len(requests)] \in RequestType
  BY <1>2, RequestSeen
<1>4. Answer \in ResponseType
  BY <1>3 DEF Answer, RequestType
<1> QED BY <1>4 DEF ResponseType

(* A case that ends: its result is appended to those of its adapter.       *)
Extends(t, s, e) ==
    /\ IsSeq(t) /\ Len(s) \in Nat /\ Len(t) = Len(s) + 1
    /\ \A k \in 1..Len(s) : k \in 1..Len(t) /\ t[k] = s[k]
    /\ \A k \in 1..Len(t) : k \in 1..Len(s) \/ k = Len(t)
    /\ t[Len(t)] = e

LEMMA ResultAppended ==
    ASSUME NEW s, IsSeq(s), NEW e PROVE Extends(Append(s, e), s, e)
<1>1. PICK S : s \in Seq(S)
  BY DEF IsSeq
<1> DEFINE T == S \cup {e}
           t == Append(s, e)
<1>2. s \in Seq(T)
  BY <1>1
<1> HIDE DEF T
<1>3. e \in T
  BY DEF T
<1>4. /\ t \in Seq(T) /\ Len(t) = Len(s) + 1 /\ Len(s) \in Nat
      /\ \A k \in 1..Len(s) : t[k] = s[k]
      /\ t[Len(s) + 1] = e
  BY <1>2, <1>3, AppendProperties, LenProperties
<1>5. \A k \in 1..(Len(s) + 1) : k \in 1..Len(s) \/ k = Len(s) + 1
  BY <1>4, UpToNext
<1>6. \A k \in 1..Len(s) : k \in 1..(Len(s) + 1)
  BY <1>4
<1> HIDE DEF t
<1> QED BY <1>4, <1>5, <1>6 DEF IsSeq, Extends

LEMMA FinishKeeps ==
    ASSUME FlowInv, InACase, InCase, NEW entry, Finish(entry), UNCHANGED serverVars,
           entry.name = Case.name, entry.outcome.skipped => ~Client.http
    PROVE  FlowInv'
<1>1. /\ flowPc' = "case" /\ caseNo' = caseNo + 1 /\ challenge' = NoChallenge
      /\ reports' = [reports EXCEPT ![adapterNo] = Append(@, entry)]
      /\ flowMode' = flowMode /\ goldenOrder' = goldenOrder /\ adapterNo' = adapterNo
      /\ golden' = golden /\ flowResults' = flowResults /\ flowExit' = flowExit
  BY DEF Finish, mainVars
<1>2. /\ FlowTypes /\ PlaceInv /\ Distinct(golden)
      /\ ServerTypes' /\ ReplayInv'
  BY ServerStays DEF FlowInv
<1>3. adapterNo \in 1..Len(Adapters) /\ caseNo \in 1..Len(Order)
      /\ (flowMode = "check" => Client = Adapters[adapterNo])
  BY CaseSeen
<1> DEFINE a0 == adapterNo
           old == reports[a0]
           new == reports'[a0]
<1>4. new = Append(old, entry) /\ IsSeq(old)
      /\ \A a \in 1..Len(Adapters) : a # a0 => reports'[a] = reports[a]
  BY <1>1, <1>2, <1>3 DEF FlowTypes
<1> HIDE DEF old, new
<1>5. /\ IsSeq(new) /\ Len(new) = Len(old) + 1 /\ Len(old) \in Nat
      /\ \A k \in 1..Len(old) : k \in 1..Len(new) /\ new[k] = old[k]
      /\ \A k \in 1..Len(new) : k \in 1..Len(old) \/ k = Len(new)
      /\ new[Len(new)] = entry
  <2>1. Extends(Append(old, entry), old, entry)
    BY <1>4, ResultAppended
  <2>2. Extends(new, old, entry)
    BY <1>4, <2>1
  <2> QED BY <2>2 DEF Extends
<1>6. FlowTypes'
  <2>1. \A a \in 1..Len(Adapters) : IsSeq(reports'[a])
    BY <1>2, <1>4, <1>5 DEF FlowTypes, new
  <2>2. caseNo' \in Nat \ {0} /\ challenge' \in ChallengeType
    BY <1>1, <1>2, ResponsesTyped DEF FlowTypes
  <2> QED BY <1>1, <1>2, <2>1, <2>2 DEF FlowTypes
<1>7. PlaceInv'
  BY <1>1, <1>2 DEF PlaceInv, InACase, Waiting
<1>8. ASSUME flowMode = "update" PROVE UpdateInv'
  <2>1. /\ adapterNo = 1 /\ UpdateInv /\ Order = goldenOrder /\ caseNo \in 1..Len(goldenOrder)
        /\ Case = goldenOrder[caseNo]
    BY <1>3, <1>8 DEF FlowInv, UpdateInv, Order, Case
  <2>2. \A i \in 1..Len(old) : \E k \in 1..Len(goldenOrder) :
          k < caseNo /\ old[i].name = goldenOrder[k].name
    BY <2>1 DEF UpdateInv, old
  <2>3. \A k \in 1..Len(goldenOrder) : k < caseNo => k < caseNo' /\ k # caseNo
    BY <1>1, <1>2, <2>1, OrdersTyped DEF FlowTypes
  <2>4. caseNo < caseNo'
    BY <1>1, <1>2 DEF FlowTypes
  <2>5. \A i \in 1..Len(new) : \E k \in 1..Len(goldenOrder) :
          k < caseNo' /\ new[i].name = goldenOrder[k].name
    BY <1>5, <2>1, <2>2, <2>3, <2>4
  <2>6. \A i \in 1..Len(old) : old[i].name # entry.name
    BY <1>2, <2>1, <2>2, <2>3, FlowAssumption DEF FlowTypes
  <2>7. Distinct(old)
    BY <2>1 DEF UpdateInv, old
  <2>8. Distinct(new)
    BY <1>5, <2>6, <2>7 DEF Distinct
  <2>9. \A a \in 1..Len(Adapters) : a # 1 => reports'[a] = <<>>
    BY <1>4, <2>1 DEF UpdateInv
  <2>10. new = reports'[1]
    BY <2>1 DEF new
  <2> HIDE DEF Distinct
  <2>11. InACase'
    BY <1>1 DEF InACase
  <2>12. Distinct(reports[1])'
    BY <2>8, <2>10 DEF Distinct
  <2>13. adapterNo' = 1 /\ flowPc' # "done"
    BY <1>1, <2>1
  <2>14. \A i \in 1..Len(reports'[1]) : \E k \in 1..Len(goldenOrder') :
           k < caseNo' /\ reports'[1][i].name = goldenOrder'[k].name
    BY <1>1, <2>5, <2>10
  <2> QED BY <2>9, <2>11, <2>12, <2>13, <2>14 DEF UpdateInv
<1>9. ASSUME flowMode = "check" PROVE CheckInv'
  <2>1. CheckInv
    BY <1>9 DEF FlowInv
  <2>2. \A a \in 1..Len(Adapters) : \A j \in 1..Len(reports'[a]) :
          reports'[a][j].outcome.skipped => ~Adapters[a].http
    <3> TAKE a \in 1..Len(Adapters)
    <3>1. CASE a = a0
      <4>1. \A j \in 1..Len(old) : old[j].outcome.skipped => ~Adapters[a].http
        BY <2>1, <3>1 DEF CheckInv, old
      <4>2. entry.outcome.skipped => ~Adapters[a].http
        BY <1>3, <1>9, <3>1
      <4>3. reports'[a] = new
        BY <3>1 DEF new
      <4> QED BY <1>5, <4>1, <4>2, <4>3
    <3>2. CASE a # a0
      BY <1>4, <2>1, <3>2 DEF CheckInv
    <3> QED BY <3>1, <3>2
  <2>3. \A a \in 1..Len(Adapters) : a < adapterNo =>
          \/ \E r \in flowResults : ~r.passed
          \/ Adapters[a].known /\ Matched(golden, reports'[a], a)
    <3> TAKE a \in 1..Len(Adapters)
    <3>1. a < adapterNo => reports'[a] = reports[a]
      BY <1>2, <1>4, AdaptersAsked DEF FlowTypes
    <3> QED BY <2>1, <3>1 DEF CheckInv
  <2>4. InACase' => Adapters[adapterNo].known
    BY <2>1 DEF CheckInv
  <2> QED BY <1>1, <2>2, <2>3, <2>4 DEF CheckInv
<1>10. Distinct(golden)'
  BY <1>1, <1>2 DEF Distinct
<1> QED BY <1>1, <1>2, <1>6, <1>7, <1>8, <1>9, <1>10 DEF FlowInv

(* A request that the runner sends leaves the results alone.               *)
LEMMA OthersStay ==
    ASSUME FlowInv, flowMode' = flowMode, goldenOrder' = goldenOrder, adapterNo' = adapterNo,
           golden' = golden, flowResults' = flowResults, flowExit' = flowExit,
           reports' = reports, caseNo' = caseNo, InACase' <=> InACase,
           flowPc' \in {"stop", "done"} => flowPc' = flowPc,
           challenge' \in ChallengeType, ServerTypes', ReplayInv',
           Waiting' => InCase /\ requests' # <<>>
    PROVE  FlowInv'
<1>1. FlowTypes' /\ PlaceInv' /\ Distinct(golden)'
  BY DEF FlowInv, FlowTypes, PlaceInv, Distinct, InCase, Order
<1>2. UpdateInv => UpdateInv'
  BY DEF UpdateInv, Distinct
<1>3. CheckInv => CheckInv'
  BY DEF CheckInv
<1> QED BY <1>1, <1>2, <1>3 DEF FlowInv

LEMMA SendKeeps ==
    ASSUME FlowInv, InACase, InCase, NEW path \in Paths, NEW auth \in ChallengeType,
           NEW retry \in BOOLEAN, NEW next \in {"initial", "retry", "again"},
           Send(path, auth, retry, next), challenge' \in ChallengeType
    PROVE  FlowInv'
<1> DEFINE client == IF Kind(Case) \in {"no_payment", "payment"} THEN Client.name
                     ELSE "unknown"
           query == IF retry /\ "retry_query" \in Case.has THEN "retry" ELSE "initial"
           body == IF retry /\ "retry_body" \in Case.has THEN "retry" ELSE "initial"
           accept == IF "accept_payment" \in CaseAt(path).has THEN "tempo" ELSE "none"
           q == [client |-> client, path |-> path, auth |-> auth, query |-> query,
                 body |-> body, accept |-> accept]
<1>1. /\ Receive(q) /\ flowPc' = next /\ caseNo' = caseNo /\ reports' = reports
      /\ flowMode' = flowMode /\ goldenOrder' = goldenOrder /\ adapterNo' = adapterNo
      /\ golden' = golden /\ flowResults' = flowResults /\ flowExit' = flowExit
  BY DEF Send, mainVars
<1>2. client \in Text /\ query \in Text /\ body \in Text /\ accept \in Text
  BY CaseSeen DEF Text
<1> HIDE DEF client, query, body, accept
<1>3. q \in SentType
  BY <1>2 DEF SentType
<1> HIDE DEF q
<1>4. ServerTypes' /\ ReplayInv' /\ requests' # <<>>
  BY <1>1, <1>3, ReceiveKeeps DEF FlowInv
<1>5. InACase'
  BY <1>1 DEF InACase
<1> QED BY <1>1, <1>4, <1>5, OthersStay

LEMMA EndKeeps ==
    ASSUME FlowInv, InACase, InCase, NEW outcome, NEW seen, NEW answer,
           Finish(Entry(outcome, seen, answer)), UNCHANGED serverVars,
           outcome.skipped => ~Client.http
    PROVE  FlowInv'
<1> DEFINE entry == Entry(outcome, seen, answer)
<1>1. entry.name = Case.name /\ entry.outcome = outcome
  BY DEF Entry
<1>2. Finish(entry) /\ (entry.outcome.skipped => ~Client.http)
  BY <1>1
<1> HIDE DEF entry
<1> QED BY <1>1, <1>2, FinishKeeps

LEMMA NotSkipped ==
    /\ \A ok, status, error : ~CaseOutcome(ok, status, error).skipped
    /\ \A status, error : ~FlowError(status, error).skipped
BY DEF CaseOutcome, FlowError

LEMMA InTheCase ==
    ASSUME FlowInv, Waiting PROVE InACase /\ InCase /\ requests # <<>>
BY DEF FlowInv, PlaceInv, Waiting, InACase

LEMMA EndDiscoveryKeeps == ASSUME FlowInv, EndDiscovery PROVE FlowInv'
<1>1. Waiting
  BY DEF EndDiscovery, Waiting
<1> QED BY <1>1, InTheCase, NotSkipped, EndKeeps DEF EndDiscovery

LEMMA EndJsonRpcKeeps == ASSUME FlowInv, EndJsonRpc PROVE FlowInv'
<1>1. Waiting
  BY DEF EndJsonRpc, Waiting
<1> QED BY <1>1, InTheCase, NotSkipped, EndKeeps DEF EndJsonRpc

LEMMA EndClientCaseKeeps == ASSUME FlowInv, EndClientCase PROVE FlowInv'
<1>1. Waiting
  BY DEF EndClientCase, Waiting
<1> QED BY <1>1, InTheCase, NotSkipped, EndKeeps DEF EndClientCase

LEMMA EndWithoutPaymentKeeps == ASSUME FlowInv, EndWithoutPayment PROVE FlowInv'
<1>1. Waiting
  BY DEF EndWithoutPayment, Waiting
<1> QED BY <1>1, InTheCase, NotSkipped, EndKeeps DEF EndWithoutPayment

LEMMA ParseFailsKeeps == ASSUME FlowInv, ParseFails PROVE FlowInv'
<1>1. Waiting
  BY DEF ParseFails, Waiting
<1>2. Finish(Entry(CaseOutcome(FALSE, 402, "challenge_parse_error"), NoChallenge, Answer))
      /\ UNCHANGED serverVars
  BY DEF ParseFails
<1> QED BY <1>1, <1>2, InTheCase, NotSkipped, EndKeeps

LEMMA EndReplayKeeps == ASSUME FlowInv, EndReplay PROVE FlowInv'
<1>1. Waiting
  BY DEF EndReplay, Waiting
<1> QED BY <1>1, InTheCase, NotSkipped, EndKeeps DEF EndReplay

LEMMA EndCaseKeeps == ASSUME FlowInv, EndCase PROVE FlowInv'
<1>1. Waiting
  BY DEF EndCase, Waiting
<1> DEFINE outcome == CaseOutcome(Answer.status < 400, Answer.status, "")
<1>2. UNCHANGED serverVars /\ ~outcome.skipped
  BY NotSkipped DEF EndCase
<1>3. \/ Finish(Entry(CaseOutcome(FALSE, 402, "payment_required"), challenge, Answer))
      \/ Finish(Entry(outcome, challenge, Answer))
      \/ Finish(Entry(outcome, challenge, [Answer EXCEPT !.receipt = "wrong"]))
  BY DEF EndCase
<1> HIDE DEF outcome
<1>4. CASE Finish(Entry(CaseOutcome(FALSE, 402, "payment_required"), challenge, Answer))
  BY <1>1, <1>2, <1>4, InTheCase, NotSkipped, EndKeeps
<1>5. CASE Finish(Entry(outcome, challenge, Answer))
  BY <1>1, <1>2, <1>5, InTheCase, EndKeeps
<1>6. CASE Finish(Entry(outcome, challenge, [Answer EXCEPT !.receipt = "wrong"]))
  BY <1>1, <1>2, <1>6, InTheCase, EndKeeps
<1> QED BY <1>3, <1>4, <1>5, <1>6

LEMMA CaseFailsKeeps == ASSUME FlowInv, CaseRaises \/ RequestFails PROVE FlowInv'
<1>1. Waiting
  BY DEF CaseRaises, RequestFails
<1> QED BY <1>1, InTheCase, NotSkipped, EndKeeps DEF CaseRaises, RequestFails

LEMMA RefuseCaseKeeps == ASSUME FlowInv, RefuseCase PROVE FlowInv'
<1>1. InACase /\ InCase
  BY DEF RefuseCase, InACase
<1> QED BY <1>1, NotSkipped, EndKeeps DEF RefuseCase

(* The credential that a runner sends is a challenge as it was received,   *)
(* tampered with, or none.                                                 *)
LEMMA AuthorizationTyped ==
    ASSUME NEW c \in ChallengeType
    PROVE  Authorization(c) \in ChallengeType /\ [c EXCEPT !.path = "wrong"] \in ChallengeType
<1>1. [c EXCEPT !.sound = FALSE] \in ChallengeType /\ [c EXCEPT !.path = "wrong"] \in ChallengeType
  BY DEF ChallengeType, Text
<1>2. \/ [c EXCEPT !.sound = @ /\ "tamper" \notin Case.has] = c
      \/ [c EXCEPT !.sound = @ /\ "tamper" \notin Case.has] = [c EXCEPT !.sound = FALSE]
  BY DEF ChallengeType
<1>3. \/ Authorization(c) = NoAuthorization \/ Authorization(c) = c
      \/ Authorization(c) = [c EXCEPT !.sound = FALSE]
  BY <1>2 DEF Authorization
<1>4. NoAuthorization \in ChallengeType
  BY ResponsesTyped DEF NoAuthorization
<1> QED BY <1>1, <1>3, <1>4

LEMMA StartCaseKeeps == ASSUME FlowInv, StartCase PROVE FlowInv'
<1>1. /\ InACase /\ InCase /\ Case.challengePath \in Paths /\ challenge' \in ChallengeType
      /\ Send(FirstPath(Case), NoAuthorization, FALSE, "initial")
  BY DEF StartCase, InACase, FlowInv, FlowTypes
<1>2. NoAuthorization \in ChallengeType
  BY ResponsesTyped DEF NoAuthorization
<1>3. FirstPath(Case) \in Paths
  BY <1>1, CaseSeen DEF FirstPath
<1> QED BY <1>1, <1>2, <1>3, SendKeeps

LEMMA RetryJsonRpcKeeps == ASSUME FlowInv, RetryJsonRpc PROVE FlowInv'
<1>1. Waiting /\ challenge' = Answer.challenge
  BY DEF RetryJsonRpc, Waiting
<1>2. challenge' \in ChallengeType
  BY <1>1, InTheCase, AnswerTyped DEF FlowInv
<1>3. PICK auth \in ChallengeType : Send(Case.path, auth, TRUE, "retry")
  BY <1>2 DEF RetryJsonRpc
<1> QED BY <1>1, <1>2, <1>3, InTheCase, CaseSeen, SendKeeps

LEMMA SendRetryKeeps == ASSUME FlowInv, SendRetry PROVE FlowInv'
<1>1. Waiting /\ (challenge' = Answer.challenge
                  \/ challenge' = [Answer.challenge EXCEPT !.path = "wrong"])
  BY DEF SendRetry, Waiting
<1>2. challenge' \in ChallengeType
  BY <1>1, InTheCase, AnswerTyped, AuthorizationTyped DEF FlowInv
<1>3. PICK auth \in ChallengeType : Send(Case.path, auth, TRUE, "retry")
  <2>1. PICK c : c = challenge'
    OBVIOUS
  <2>2. Authorization(c) \in ChallengeType /\ Send(Case.path, Authorization(c), TRUE, "retry")
    BY <1>2, <2>1, AuthorizationTyped DEF SendRetry
  <2> QED BY <2>2
<1> QED BY <1>1, <1>2, <1>3, InTheCase, CaseSeen, SendKeeps

LEMMA SendAgainKeeps == ASSUME FlowInv, SendAgain PROVE FlowInv'
<1>1. Waiting /\ challenge' = challenge /\ challenge \in ChallengeType
  BY DEF SendAgain, Waiting, FlowInv, FlowTypes
<1>2. Authorization(challenge) \in ChallengeType
  BY <1>1, AuthorizationTyped
<1>3. PICK auth \in ChallengeType : Send(Case.path, auth, TRUE, "again")
  BY <1>2 DEF SendAgain
<1> QED BY <1>1, <1>3, InTheCase, CaseSeen, SendKeeps

LEMMA ServerChangesKeep ==
    ASSUME FlowInv, Launch \/ ServerReady \/ ServerDies \/ ServerHandles PROVE FlowInv'
<1>1. /\ flowMode' = flowMode /\ goldenOrder' = goldenOrder /\ adapterNo' = adapterNo
      /\ golden' = golden /\ flowResults' = flowResults /\ flowExit' = flowExit
      /\ reports' = reports /\ caseNo' = caseNo /\ challenge' = challenge
      /\ InACase' <=> InACase
      /\ flowPc' \in {"stop", "done"} => flowPc' = flowPc
      /\ Waiting' => Waiting
  BY DEF Launch, ServerReady, ServerDies, ServerHandles, mainVars, InACase, Waiting
<1>2. ServerTypes /\ ReplayInv /\ challenge \in ChallengeType
      /\ (Waiting => InCase /\ requests # <<>>)
  BY DEF FlowInv, FlowTypes, PlaceInv
<1>3. ServerTypes' /\ ReplayInv' /\ (Waiting' => requests' # <<>>)
  <2>1. CASE Launch
    BY <1>2, <2>1, StartServerKeeps DEF Launch, Waiting
  <2>2. CASE ServerReady \/ ServerDies
    <3>1. /\ requests' = requests /\ acceptPaymentByPath' = acceptPaymentByPath
          /\ sideEffectsByKey' = sideEffectsByKey /\ seenAuthorization' = seenAuthorization
          /\ nonces' = nonces /\ issued' = issued
      BY <2>2 DEF ServerReady, ServerDies, maps
    <3>2. ReplayInv'
      BY <1>2, <3>1 DEF ReplayInv, PaysForIt, LetThrough
    <3> QED BY <1>1, <1>2, <3>1, <3>2 DEF ServerTypes
  <2>3. CASE ServerHandles
    BY <1>2, <2>3, ServerStepKeeps, RequestsStay DEF ServerHandles
  <2> QED BY <2>1, <2>2, <2>3
<1> QED BY <1>1, <1>2, <1>3, OthersStay

LEMMA SkipServerOnlyKeeps == ASSUME FlowInv, SkipServerOnly PROVE FlowInv'
<1>1. /\ flowMode' = flowMode /\ goldenOrder' = goldenOrder /\ adapterNo' = adapterNo
      /\ golden' = golden /\ flowResults' = flowResults /\ flowExit' = flowExit
      /\ reports' = reports /\ caseNo' = caseNo + 1 /\ challenge' = challenge
      /\ flowPc = "case" /\ flowPc' = "case" /\ UNCHANGED serverVars
  BY DEF SkipServerOnly, mainVars
<1>2. ServerTypes' /\ ReplayInv'
  BY <1>1, ServerStays DEF FlowInv
<1>3. FlowTypes /\ FlowTypes'
  BY <1>1 DEF FlowInv, FlowTypes
<1>4. PlaceInv' /\ Distinct(golden)'
  BY <1>1 DEF FlowInv, PlaceInv, InACase, Waiting, Distinct
<1>5. UpdateInv => UpdateInv'
  <2>1. \A k \in 1..Len(goldenOrder) : k < caseNo => k < caseNo'
    BY <1>1, <1>3, OrdersTyped DEF FlowTypes
  <2> QED BY <1>1, <2>1 DEF UpdateInv, InACase, Distinct
<1>6. CheckInv => CheckInv'
  BY <1>1 DEF CheckInv, InACase
<1> QED BY <1>1, <1>2, <1>3, <1>4, <1>5, <1>6 DEF FlowInv

(* main() between two adapters.                                            *)
LEMMA BeginAdapterKeeps == ASSUME FlowInv, BeginAdapter PROVE FlowInv'
<1>1. /\ flowMode' = flowMode /\ goldenOrder' = goldenOrder /\ adapterNo' = adapterNo
      /\ golden' = golden /\ flowResults' = flowResults /\ flowExit' = flowExit
      /\ reports' = reports /\ caseNo' = 1 /\ challenge' = challenge
      /\ flowPc = "adapter" /\ flowPc' = "case" /\ UNCHANGED serverVars
      /\ Client.known /\ (flowMode = "check" => adapterNo <= Len(Adapters))
  BY DEF BeginAdapter, mainVars
<1>2. ServerTypes' /\ ReplayInv'
  BY <1>1, ServerStays DEF FlowInv
<1>3. FlowTypes'
  BY <1>1 DEF FlowInv, FlowTypes
<1>4. adapterNo <= Len(Adapters)
  BY <1>1, AdaptersAsked DEF FlowInv, FlowTypes, UpdateInv
<1>5. PlaceInv' /\ Distinct(golden)'
  BY <1>1, <1>4 DEF FlowInv, PlaceInv, Waiting, Distinct
<1>6. UpdateInv => UpdateInv'
  <2>1. UpdateInv => reports[1] = <<>>
    BY <1>1 DEF UpdateInv, InACase
  <2>2. UpdateInv => Len(reports[1]) = 0
    BY <2>1, EmptySeq
  <2> QED BY <1>1, <2>2 DEF UpdateInv, InACase, Distinct
<1>7. CheckInv /\ flowMode = "check" => CheckInv'
  BY <1>1 DEF CheckInv, Client
<1> QED BY <1>1, <1>2, <1>3, <1>5, <1>6, <1>7 DEF FlowInv

LEMMA RefuseAdapterKeeps == ASSUME FlowInv, RefuseAdapter PROVE FlowInv'
<1>1. /\ flowMode = "check" /\ flowMode' = flowMode /\ goldenOrder' = goldenOrder
      /\ adapterNo' = adapterNo + 1 /\ golden' = golden
      /\ \E r \in flowResults' : ~r.passed
      /\ reports' = reports /\ caseNo' = caseNo /\ challenge' = challenge
      /\ flowPc = "adapter" /\ flowPc' = flowPc /\ UNCHANGED serverVars
  <2>1. Verdict("adapter-run", FALSE).passed = FALSE
    BY DEF Verdict
  <2>2. RefuseAdapter => Verdict("adapter-run", FALSE) \in flowResults'
    BY DEF RefuseAdapter
  <2> QED BY <2>1, <2>2 DEF RefuseAdapter
<1>2. ServerTypes' /\ ReplayInv' /\ requests' = requests
  BY <1>1, ServerStays DEF FlowInv
<1>3. FlowTypes'
  BY <1>1 DEF FlowInv, FlowTypes
<1>4. PlaceInv' /\ Distinct(golden)'
  BY <1>1 DEF FlowInv, PlaceInv, InACase, Waiting, Distinct
<1>5. CheckInv'
  BY <1>1 DEF FlowInv, CheckInv, InACase
<1> QED BY <1>1, <1>2, <1>3, <1>4, <1>5 DEF FlowInv

(* compare_results(): no failure means that all golden results are there.  *)
LEMMA ComparedMatches ==
    ASSUME NEW report, NEW a \in 1..Len(Adapters), Distinct(golden), IsSeq(golden),
           \A j \in 1..Len(report) : report[j].outcome.skipped => ~Adapters[a].http,
           \A r \in CompareResults(report) : r.passed
    PROVE  Matched(golden, report, a)
<1> SUFFICES ASSUME NEW i \in 1..Len(golden)
             PROVE  \E j \in 1..Len(report) :
                      /\ report[j].name = golden[i].name
                      /\ \/ SameEntry(golden[i], report[j])
                         \/ report[j].outcome.skipped /\ ~Adapters[a].http
  BY DEF Matched
<1>1. golden[i] \in Entries(golden)
  BY DEF Entries
<1>2. PICK e \in Entries(report) : e.name = golden[i].name
  <2>1. ASSUME \A e \in Entries(report) : e.name # golden[i].name PROVE FALSE
    <3>1. Verdict(golden[i].name, FALSE) \in CompareResults(report)
      BY <1>1, <2>1 DEF CompareResults
    <3> QED BY <3>1 DEF Verdict
  <2> QED BY <2>1
<1>3. PICK j \in 1..Len(report) : e = report[j]
  BY DEF Entries
<1>4. PICK g \in Entries(golden) : g.name = e.name /\ Agrees(g, e)
  <2> DEFINE same == \E g \in Entries(golden) : g.name = e.name /\ Agrees(g, e)
  <2>1. Verdict(e.name, same) \in CompareResults(report)
    BY DEF CompareResults
  <2>2. Verdict(e.name, same).passed
    BY <2>1
  <2> QED BY <2>2 DEF Verdict
<1>5. g = golden[i]
  BY <1>2, <1>4 DEF Entries, Distinct
<1> QED BY <1>2, <1>3, <1>4, <1>5 DEF Agrees

LEMMA EndAdapterKeeps == ASSUME FlowInv, EndAdapter PROVE FlowInv'
<1>1. /\ flowMode = "check" /\ flowMode' = flowMode /\ goldenOrder' = goldenOrder
      /\ adapterNo' = adapterNo + 1 /\ golden' = golden
      /\ flowResults' = flowResults \cup CompareResults(reports[adapterNo])
      /\ reports' = reports /\ caseNo' = caseNo /\ challenge' = challenge
      /\ flowPc = "case" /\ flowPc' = "adapter" /\ UNCHANGED serverVars
  BY DEF EndAdapter
<1>2. /\ ServerTypes' /\ ReplayInv' /\ requests' = requests
      /\ FlowTypes /\ CheckInv /\ Distinct(golden) /\ adapterNo <= Len(Adapters)
      /\ Adapters[adapterNo].known
  BY <1>1, ServerStays DEF FlowInv, PlaceInv, CheckInv, InACase
<1>3. FlowTypes'
  BY <1>1, <1>2 DEF FlowTypes
<1>4. PlaceInv' /\ Distinct(golden)'
  BY <1>1, <1>2 DEF PlaceInv, InACase, Waiting, Distinct
<1>5. adapterNo \in 1..Len(Adapters)
      /\ \A a \in 1..Len(Adapters) : a < adapterNo + 1 => a < adapterNo \/ a = adapterNo
  BY <1>2, AdaptersAsked DEF FlowTypes
<1>6. \/ \E r \in flowResults' : ~r.passed
      \/ Adapters[adapterNo].known /\ Matched(golden, reports[adapterNo], adapterNo)
  <2> SUFFICES ASSUME \A r \in CompareResults(reports[adapterNo]) : r.passed
               PROVE  Matched(golden, reports[adapterNo], adapterNo)
    BY <1>1, <1>2
  <2>1. PICK report : report = reports[adapterNo]
    OBVIOUS
  <2>2. /\ IsSeq(golden)
        /\ \A j \in 1..Len(report) : report[j].outcome.skipped => ~Adapters[adapterNo].http
    BY <1>2, <1>5, <2>1 DEF FlowTypes, CheckInv
  <2> QED BY <1>2, <1>5, <2>1, <2>2, ComparedMatches
<1>7. CheckInv'
  <2>1. \A r \in flowResults : r \in flowResults'
    BY <1>1
  <2>2. \A a \in 1..Len(Adapters) : a < adapterNo' =>
          \/ \E r \in flowResults' : ~r.passed
          \/ Adapters[a].known /\ Matched(golden', reports'[a], a)
    BY <1>1, <1>2, <1>5, <1>6, <2>1 DEF CheckInv
  <2> QED BY <1>1, <1>2, <2>2 DEF CheckInv, InACase
<1> QED BY <1>1, <1>2, <1>3, <1>4, <1>7 DEF FlowInv

(* The update run ends: its results become the golden ones.                *)
LEMMA WriteGoldenKeeps == ASSUME FlowInv, WriteGolden PROVE FlowInv'
<1>1. /\ flowMode = "update" /\ flowMode' = flowMode /\ goldenOrder' = goldenOrder
      /\ adapterNo' = adapterNo /\ golden' = reports[1]
      /\ reports' = [reports EXCEPT ![1] = <<>>] /\ caseNo' = caseNo /\ challenge' = challenge
      /\ flowPc' = "stop" /\ UNCHANGED serverVars
  BY DEF WriteGolden, EndWith
<1>2. /\ ServerTypes' /\ ReplayInv' /\ requests' = requests /\ FlowTypes /\ UpdateInv
  BY <1>1, ServerStays DEF FlowInv
<1>3. reports'[1] = <<>> /\ \A a \in 1..Len(Adapters) : a # 1 => reports'[a] = reports[a]
  BY <1>1, <1>2, AdaptersAsked DEF FlowTypes
<1>4. FlowTypes'
  <2>1. IsSeq(<<>>)
    <3>1. <<>> \in Seq({})
      OBVIOUS
    <3> QED BY <3>1 DEF IsSeq
  <2>2. \A a \in 1..Len(Adapters) : IsSeq(reports'[a])
    BY <1>2, <1>3, <2>1 DEF FlowTypes
  <2>3. IsSeq(golden')
    BY <1>1, <1>2, AdaptersAsked DEF FlowTypes
  <2> QED BY <1>1, <1>2, <2>2, <2>3 DEF FlowTypes
<1>5. PlaceInv' /\ Distinct(golden)'
  BY <1>1, <1>2 DEF UpdateInv, PlaceInv, InACase, Waiting, Distinct
<1>6. UpdateInv'
  <2>1. Len(reports'[1]) = 0
    BY <1>3, EmptySeq
  <2> QED BY <1>1, <1>2, <1>3, <2>1 DEF UpdateInv, Distinct
<1> QED BY <1>1, <1>2, <1>4, <1>5, <1>6 DEF FlowInv

LEMMA RunEndsKeep == ASSUME FlowInv, SumUp \/ ServerNeverStarts PROVE FlowInv'
<1>1. /\ flowMode = "check" /\ flowMode' = flowMode /\ goldenOrder' = goldenOrder
      /\ adapterNo' = adapterNo /\ golden' = golden /\ flowResults' = flowResults
      /\ reports' = reports /\ caseNo' = caseNo /\ challenge' = challenge
      /\ flowPc' = "stop" /\ UNCHANGED serverVars
      /\ flowExit' = 0 => adapterNo > Len(Adapters) /\ \A r \in flowResults : r.passed
  BY DEF SumUp, ServerNeverStarts, EndWith, Deviates
<1>2. ServerTypes' /\ ReplayInv' /\ FlowTypes' /\ CheckInv
  BY <1>1, ServerStays DEF FlowInv, FlowTypes
<1>3. PlaceInv' /\ Distinct(golden)'
  BY <1>1 DEF FlowInv, PlaceInv, InACase, Waiting, Distinct
<1>4. CheckInv'
  BY <1>1, <1>2 DEF CheckInv, InACase
<1> QED BY <1>1, <1>2, <1>3, <1>4 DEF FlowInv

(* The golden results are written, or the check is over.                   *)
LEMMA StopServerKeeps == ASSUME FlowInv, StopServer PROVE FlowInv'
<1>1. /\ flowPc = "stop" /\ flowMode' = "check" /\ goldenOrder' = goldenOrder
      /\ adapterNo' = adapterNo /\ golden' = golden /\ flowResults' = flowResults
      /\ reports' = reports /\ caseNo' = caseNo /\ challenge' = challenge
      /\ flowExit' = flowExit /\ requests' = requests /\ nonces' \in {nonces, TRUE}
      /\ UNCHANGED <<acceptPaymentByPath, sideEffectsByKey, seenAuthorization, issued>>
      /\ flowPc' = IF flowMode = "update" THEN "launch" ELSE "done"
  BY DEF StopServer, maps
<1>2. /\ FlowTypes /\ ServerTypes /\ ReplayInv
  BY DEF FlowInv
<1>3. ServerTypes' /\ FlowTypes'
  BY <1>1, <1>2 DEF ServerTypes, FlowTypes
<1>4. ReplayInv'
  BY <1>1, <1>2 DEF ReplayInv, PaysForIt, LetThrough
<1>5. PlaceInv' /\ Distinct(golden)'
  BY <1>1 DEF FlowInv, PlaceInv, InACase, Waiting, Distinct
<1>6. CASE flowMode = "update"
  <2>1. UpdateInv /\ flowPc' = "launch" /\ ~InACase
    BY <1>1, <1>6 DEF FlowInv, InACase
  <2>2. \A a \in 1..Len(Adapters) : Len(reports'[a]) = 0
    BY <1>1, <2>1, EmptySeq DEF UpdateInv
  <2>3. CheckInv'
    BY <1>1, <2>1, <2>2 DEF CheckInv, UpdateInv, InACase
  <2> QED BY <1>1, <1>3, <1>4, <1>5, <2>3 DEF FlowInv
<1>7. CASE flowMode = "check"
  <2>1. CheckInv
    BY <1>7 DEF FlowInv
  <2>2. CheckInv'
    BY <1>1, <1>7, <2>1 DEF CheckInv, InACase
  <2> QED BY <1>1, <1>3, <1>4, <1>5, <2>2 DEF FlowInv
<1> QED BY <1>2, <1>6, <1>7 DEF FlowTypes

LEMMA FlowInitOK == FlowInit => FlowInv
<1> SUFFICES ASSUME NEW order \in GoldenOrders, NEW hasNonces \in BOOLEAN,
                    FlowStart(order, hasNonces)
             PROVE  FlowInv
  BY DEF FlowInit
<1>1. /\ requests = <<>> /\ seenAuthorization = {} /\ issued = 0 /\ nonces \in BOOLEAN
      /\ acceptPaymentByPath = Unset /\ sideEffectsByKey = NoEffects
      /\ flowMode = "update" /\ flowPc = "launch" /\ goldenOrder \in GoldenOrders
      /\ adapterNo = 1 /\ caseNo = 1 /\ challenge = NoChallenge
      /\ reports = [a \in 1..Len(Adapters) |-> <<>>] /\ golden = <<>>
  BY DEF FlowStart, ServerStart
<1>2. Len(<<>>) = 0 /\ <<>> \in Seq(RequestType) /\ IsSeq(<<>>)
  <2>1. <<>> \in Seq({})
    OBVIOUS
  <2> QED BY <2>1, EmptySeq DEF IsSeq
<1>3. ReplayInv
  BY <1>1, <1>2 DEF ReplayInv
<1>4. ServerTypes
  BY <1>1, <1>2 DEF ServerTypes, Unset, NoEffects, Text
<1>5. FlowTypes
  BY <1>1, <1>2, ResponsesTyped DEF FlowTypes
<1>6. PlaceInv /\ Distinct(golden)
  BY <1>1, <1>2 DEF PlaceInv, InACase, Waiting, Distinct
<1>7. UpdateInv
  BY <1>1, <1>2, AdaptersAsked DEF UpdateInv, Distinct
<1> QED BY <1>1, <1>3, <1>4, <1>5, <1>6, <1>7 DEF FlowInv

(* FlowInv is an invariant of the flow runner and its server.              *)
THEOREM FlowInvariant == FlowSpec => []FlowInv
<1>1. FlowInv /\ [FlowNext]_flowVars => FlowInv'
  <2> SUFFICES ASSUME FlowInv, [FlowNext]_flowVars PROVE FlowInv'
    OBVIOUS
  <2>1. CASE UNCHANGED flowVars
    <3>1. /\ UNCHANGED serverVars /\ UNCHANGED <<flowPc, caseNo, challenge, reports, flowMode,
                                      goldenOrder, adapterNo, golden, flowResults, flowExit>>
      BY <2>1 DEF flowVars, mainVars
    <3>2. ServerTypes' /\ ReplayInv' /\ requests' = requests
      BY <3>1, ServerStays DEF FlowInv
    <3>3. (InACase' <=> InACase) /\ (Waiting' => InCase /\ requests' # <<>>)
          /\ challenge' \in ChallengeType
      BY <3>1, <3>2 DEF FlowInv, PlaceInv, FlowTypes, InACase, Waiting
    <3> QED BY <3>1, <3>2, <3>3, OthersStay
  <2>2. CASE FlowNext
    BY <2>2, ServerChangesKeep, SkipServerOnlyKeeps, BeginAdapterKeeps, RefuseAdapterKeeps,
       EndAdapterKeeps, WriteGoldenKeeps, RunEndsKeep, StopServerKeeps, StartCaseKeeps,
       RetryJsonRpcKeeps, SendRetryKeeps, SendAgainKeeps, RefuseCaseKeeps, EndDiscoveryKeeps,
       EndJsonRpcKeeps, EndClientCaseKeeps, EndWithoutPaymentKeeps, ParseFailsKeeps,
       EndReplayKeeps, EndCaseKeeps, CaseFailsKeeps DEF FlowNext
  <2> QED BY <2>1, <2>2
<1> QED BY <1>1, FlowInitOK, PTL DEF FlowSpec

(* A credential of a replay case buys one answer per client, whatever      *)
(* requests the runner gave up on are still under way.                     *)
THEOREM CredentialsPayOnce == FlowSpec => []CredentialPaysOnce
<1>1. ASSUME FlowInv PROVE CredentialPaysOnce
  <2> SUFFICES ASSUME NEW i \in 1..Len(requests), NEW j \in 1..Len(requests),
                      requests[i].response.status = 200, Replay(requests[i].sent),
                      requests[j].response.status = 200, Replay(requests[j].sent),
                      requests[i].sent.client = requests[j].sent.client,
                      requests[i].sent.auth = requests[j].sent.auth
               PROVE  i = j
    BY DEF CredentialPaysOnce, Replay
  <2>1. LetThrough(requests[i]) /\ LetThrough(requests[j])
    BY <1>1 DEF FlowInv, ReplayInv, PaysForIt, LetThrough
  <2>2. ReplayKey(requests[i].sent) = ReplayKey(requests[j].sent)
    BY DEF ReplayKey
  <2> QED BY <1>1, <2>1, <2>2 DEF FlowInv, ReplayInv
<1> QED BY <1>1, FlowInvariant, PTL

(* A check that succeeds has the golden result, from every adapter, of     *)
(* every golden case, or the adapter has no HTTP client to get it with.    *)
THEOREM PassesMeanGolden == FlowSpec => []PassMeansGolden
<1>1. ASSUME FlowInv PROVE PassMeansGolden
  <2> SUFFICES ASSUME flowPc = "done", flowExit = 0, NEW a \in 1..Len(Adapters)
               PROVE  Adapters[a].known /\ Matched(golden, reports[a], a)
    BY DEF PassMeansGolden, Matched
  <2>1. flowMode = "check" /\ CheckInv
    BY <1>1 DEF FlowInv, FlowTypes, UpdateInv
  <2>2. adapterNo > Len(Adapters) /\ \A r \in flowResults : r.passed
    BY <2>1 DEF CheckInv
  <2>3. a < adapterNo
    BY <1>1, <2>2, AdaptersAsked DEF FlowInv, FlowTypes
  <2> QED BY <2>1, <2>2, <2>3 DEF CheckInv
<1> QED BY <1>1, FlowInvariant, PTL

(***************************************************************************)
(* Faithful adapters                                                       *)
(***************************************************************************)

(* A challenge up to the id that a nonce gives it: c is the challenge c0,  *)
(* which has the id 0.                                                     *)
Numbered(c, c0) ==
    /\ [c EXCEPT !.id = 0] = c0
    /\ c.id # 0 <=> nonces /\ c0.query # ""

(* A request with a credential, one of a replay case, one that is refused. *)
Bears(q) == q.auth # NoAuthorization
ReplaySent(q) == Replay(q) /\ Bears(q)
Rejected(q) == Bears(q) /\ "reject_authorization" \in CaseAt(q.path).has

AcceptOf(path) == IF "accept_payment" \in CaseAt(path).has THEN "tempo" ELSE "none"

PaidFor(c) == c.has \cap {"discovery", "force_status", "redirect_to", "no_payment"} = {}

IssuedFor(q) ==
    [Status(402) EXCEPT
       !.challenge = IF "invalid_www_authenticate" \in CaseAt(q.path).has THEN NoChallenge
                     ELSE [id |-> 0, path |-> q.path, query |-> q.query, body |-> q.body,
                           sound |-> "invalid_challenge_id" \notin CaseAt(q.path).has],
       !.problem = "expect_problem_details" \in CaseAt(q.path).has]

ServedFor(q) ==
    [Status(200) EXCEPT
       !.receipt = IF "omit_receipt" \in CaseAt(q.path).has THEN "" ELSE "receipt",
       !.accept = AcceptOf(q.path),
       !.effects = IF "idempotency_key" \in CaseAt(q.path).has THEN 1 ELSE 0,
       !.body = IF "verify_body_preserved" \in CaseAt(q.path).has THEN q.body ELSE ""]

(* What the server answers, once and for all, to a request for a path, a   *)
(* query and a body with a challenge as its credential, which it has seen  *)
(* before in a replay case or not.                                         *)
Charged(q) ==
    IF ~Verified(q) THEN IssuedFor(q)
    ELSE IF ~Bound(q) THEN [Status(402) EXCEPT !.challenge.path = q.path]
    ELSE ServedFor(q)

AnswerTo(q, seen) ==
    IF "json_rpc" \in CaseAt(q.path).has
    THEN IF Bears(q) THEN [Status(200) EXCEPT !.receipt = "receipt"]
         ELSE [Status(200) EXCEPT !.challenge.path = q.path]
    ELSE IF ~PaidFor(CaseAt(q.path)) THEN AtOnce(CaseAt(q.path))
    ELSE IF Rejected(q) THEN [Status(400) EXCEPT !.authorized = TRUE]
    ELSE IF seen THEN [Status(402) EXCEPT !.problem = TRUE]
    ELSE Charged(q)

(* The requests of a case and their answers.                               *)
FirstAsk(c) ==
    [path |-> FirstPath(c), auth |-> NoAuthorization, query |-> "initial", body |-> "initial"]
FirstAnswer(c) == AnswerTo(FirstAsk(c), FALSE)
Owed(c) == FirstAnswer(c).challenge
Tampered(c, sent) ==
    IF "skip_authorization" \in c.has THEN NoAuthorization
    ELSE [sent EXCEPT !.sound = @ /\ "tamper" \notin c.has]
RetryAsk(c) ==
    [path |-> c.path,
     auth |-> IF Kind(c) = "json_rpc" THEN Owed(c) ELSE Tampered(c, Owed(c)),
     query |-> IF "retry_query" \in c.has THEN "retry" ELSE "initial",
     body |-> IF "retry_body" \in c.has THEN "retry" ELSE "initial"]
RetryAnswer(c) == AnswerTo(RetryAsk(c), FALSE)
AgainAnswer(c) == AnswerTo(RetryAsk(c), Bears(RetryAsk(c)))

Pays(c) == FirstAnswer(c).status = 402 /\ Owed(c) # NoChallenge

(* The result of a case of an adapter that does nothing wrong.             *)
Unshown == [path |-> "", query |-> "", id |-> "none"]
ShownOf(c, numbered) ==
    [path |-> Owed(c).path, query |-> Owed(c).query,
     id |-> IF Owed(c) = NoChallenge THEN "none"
            ELSE IF "invalid_challenge_id" \in c.has THEN "invalid-challenge-id"
            ELSE IF numbered /\ Owed(c).query # "" THEN "nonce-bound"
            ELSE "derived"]
EntryFor(c, outcome, shown, before, answer) ==
    [name |-> c.name, outcome |-> outcome, challenge |-> shown, first |-> before,
     response |-> [answer EXCEPT !.challenge = NoChallenge]]
Plain(c, outcome, answer) == EntryFor(c, outcome, Unshown, 0, answer)
Below(limit, answer) == CaseOutcome(answer.status < limit, answer.status, "")

ClientEntry(c, answer) ==
    Plain(c, IF "redirect_to" \in c.has THEN CaseOutcome(TRUE, 0, "")
             ELSE CaseOutcome(answer.status < 300 /\ answer.receipt # "", answer.status, ""),
          answer)
UnpaidEntry(c, answer) ==
    Plain(c, IF Kind(c) = "no_payment" THEN Below(400, answer)
             ELSE FlowError(answer.status, "unexpected_status"), answer)
PaidEntry(c, numbered, answer) ==
    EntryFor(c, IF answer.status = 402 THEN CaseOutcome(FALSE, 402, "payment_required")
                ELSE Below(400, answer), ShownOf(c, numbered), 0, answer)

EntryOf(c, numbered) ==
    IF c.challengePath \notin Paths THEN Plain(c, FlowError(0, "missing_challenge_case"), NoResponse)
    ELSE IF Kind(c) = "discovery" THEN Plain(c, Below(300, FirstAnswer(c)), FirstAnswer(c))
    ELSE IF Kind(c) = "json_rpc" THEN Plain(c, Below(300, RetryAnswer(c)), RetryAnswer(c))
    ELSE IF Kind(c) = "client_flow"
    THEN ClientEntry(c, IF FirstAnswer(c).status # 402 THEN FirstAnswer(c) ELSE RetryAnswer(c))
    ELSE IF Kind(c) = "no_payment" \/ FirstAnswer(c).status # 402
    THEN UnpaidEntry(c, FirstAnswer(c))
    ELSE IF Owed(c) = NoChallenge
    THEN Plain(c, CaseOutcome(FALSE, 402, "challenge_parse_error"), FirstAnswer(c))
    ELSE IF "concurrent_replay" \in c.has
    THEN EntryFor(c, CaseOutcome(TRUE, 200, ""), ShownOf(c, numbered), RetryAnswer(c).status,
                  Status(AgainAnswer(c).status))
    ELSE PaidEntry(c, numbered, RetryAnswer(c))

(* The results of the cases before case n, by an adapter with an HTTP      *)
(* client or without.                                                      *)
Records(e, c, numbered, http) ==
    /\ e.name = c.name /\ "server_only" \notin c.has
    /\ \/ e = EntryOf(c, numbered)
       \/ ~http /\ e.outcome.skipped

OnRecord(report, order, n, numbered, http) ==
    /\ \A i \in 1..Len(report) : \E k \in 1..Len(order) :
         k < n /\ Records(report[i], order[k], numbered, http)
    /\ \A k \in 1..Len(order) : k < n /\ "server_only" \notin order[k].has =>
         \E i \in 1..Len(report) : report[i].name = order[k].name

(* Nothing has gone wrong with the server or with the adapter under way.   *)
Undisturbed ==
    /\ flowMode = "check" => goldenOrder = CaseOrder
    /\ \A i \in 1..Len(deviated) : deviated[i] \notin {0, adapterNo}

(* What the server keeps by path is what it always will, and what it has   *)
(* seen it has seen in a request.                                          *)
Admitted(r) == r.at \in {"charge", "done"}

Settled(r) ==
    /\ r.sent.accept = AcceptOf(r.sent.path)
    /\ r.sent.query \in {"initial", "retry"}
    /\ r.at = "body" => PaidFor(CaseAt(r.sent.path))
    /\ r.at = "charge" =>
         PaidFor(CaseAt(r.sent.path)) /\ "json_rpc" \notin CaseAt(r.sent.path).has
         /\ ~Rejected(r.sent)
    /\ r.response.challenge.sound => r.response.challenge.path = r.sent.path
    /\ ~Bears(r.sent) /\ (r.at = "charge" \/ r.response.challenge.sound) =>
         acceptPaymentByPath[r.sent.path] # "unset"

SeenIn(key, r) == ReplaySent(r.sent) /\ Admitted(r) /\ key = ReplayKey(r.sent)

MapsInv ==
    /\ \A p \in Paths : acceptPaymentByPath[p] \in {"unset", AcceptOf(p)}
    /\ \A p \in Paths :
         sideEffectsByKey[p] \in {0, IF "idempotency_key" \in CaseAt(p).has THEN 1 ELSE 0}
    /\ \A i \in 1..Len(requests) : Settled(requests[i])
    /\ \A key \in seenAuthorization : \E i \in 1..Len(requests) : SeenIn(key, requests[i])

(* Who sent what the server remembers as a credential of a replay case.    *)
SendersInv ==
    /\ flowPc = "wait" => requests = <<>>
    /\ flowPc = "adapter" => \A i \in 1..Len(requests) : ReplaySent(requests[i].sent) =>
         /\ flowMode = "check"
         /\ \E a \in 1..Len(Adapters) : a < adapterNo /\ requests[i].sent.client = Adapters[a].name
    /\ InACase /\ flowMode = "check" => \A i \in 1..Len(requests) : ReplaySent(requests[i].sent) =>
         \E a \in 1..Len(Adapters) : a <= adapterNo /\ requests[i].sent.client = Adapters[a].name
    /\ InACase /\ Undisturbed => \A i \in 1..Len(requests) :
         ReplaySent(requests[i].sent) /\ requests[i].sent.client = Client.name =>
           /\ requests[i].sent.auth.path = requests[i].sent.path
           /\ \E k \in 1..Len(Order) :
                /\ k <= caseNo /\ Order[k].path = requests[i].sent.path
                /\ k = caseNo => \/ flowPc = "again"
                                 \/ (flowPc = "retry" /\ i = Len(requests))

(* The request under way and its answer are those of the case.             *)
Newest == requests[Len(requests)]
AskDue(c) == IF flowPc = "initial" THEN FirstAsk(c) ELSE RetryAsk(c)
AnswerDue(c) ==
    IF flowPc = "initial" THEN FirstAnswer(c)
    ELSE IF flowPc = "retry" THEN RetryAnswer(c) ELSE AgainAnswer(c)
AskedAs(q, ask) ==
    /\ q.path = ask.path /\ q.query = ask.query /\ q.body = ask.body
    /\ Numbered(q.auth, ask.auth)
AnsweredAs(r, a) ==
    /\ Numbered(r.challenge, a.challenge)
    /\ [r EXCEPT !.challenge = NoChallenge] = [a EXCEPT !.challenge = NoChallenge]

RequestInv ==
    /\ "server_only" \notin Case.has /\ Case.challengePath \in Paths
    /\ Kind(Case) = "client_flow" => Client.http
    /\ Kind(Case) \in {"no_payment", "payment"} => Newest.sent.client = Client.name
    /\ AskedAs(Newest.sent, AskDue(Case))
    /\ Arrived => AnsweredAs(Answer, AnswerDue(Case))
    /\ flowPc # "initial" =>
         /\ Numbered(challenge, Owed(Case))
         /\ challenge.sound => challenge.path \in Paths
                               /\ acceptPaymentByPath[challenge.path] # "unset"
         /\ Kind(Case) # "json_rpc" => Kind(Case) \in {"payment", "client_flow"} /\ Pays(Case)
                                       /\ Newest.sent.auth = Authorization(challenge)
    /\ flowPc = "again" => /\ Kind(Case) = "payment" /\ "concurrent_replay" \in Case.has
                           /\ first = RetryAnswer(Case).status
    /\ flowPc = "again" /\ Newest.at = "charge" => ~Bears(Newest.sent)
    /\ ReplaySent(Newest.sent) /\ ~Rejected(Newest.sent) /\ (flowPc = "again" \/ Admitted(Newest)) =>
         ReplayKey(Newest.sent) \in seenAuthorization

(* What has gone wrong, and what is on record.                             *)
RecordInv ==
    /\ deviated \in Seq(Nat)
    /\ flowMode = "update" => deviated = <<>>
    /\ server = "dead" => \E i \in 1..Len(deviated) : deviated[i] = 0
    /\ flowPc # "again" => first = 0
    /\ flowMode = "check" => \A a \in 1..Len(Adapters) :
         a > adapterNo \/ (~InACase /\ a = adapterNo) => reports[a] = <<>>
    /\ flowMode = "check" \/ flowPc = "stop" => \E numbered \in BOOLEAN :
         /\ numbered => nonces
         /\ OnRecord(golden, goldenOrder, Len(goldenOrder) + 1, numbered, TRUE)
    /\ InACase /\ Undisturbed =>
         OnRecord(reports[adapterNo], Order, caseNo, nonces, Client.http)

FaithInv ==
    /\ MapsInv
    /\ SendersInv
    /\ Waiting /\ Undisturbed => RequestInv
    /\ RecordInv
    /\ FaithfulAdaptersPass

LEMMA NumberedSame ==
    ASSUME NEW c \in ChallengeType, NEW c0, Numbered(c, c0)
    PROVE  /\ c0 \in ChallengeType /\ c0.id = 0
           /\ c.path = c0.path /\ c.query = c0.query /\ c.body = c0.body /\ c.sound = c0.sound
           /\ c = NoChallenge <=> c0 = NoChallenge
<1>1. c0 = [c EXCEPT !.id = 0] /\ (c.id # 0 <=> (nonces /\ c0.query # ""))
  BY DEF Numbered
<1>2. /\ c0 \in ChallengeType /\ c0.id = 0
      /\ c.path = c0.path /\ c.query = c0.query /\ c.body = c0.body /\ c.sound = c0.sound
  BY <1>1 DEF ChallengeType
<1>3. ASSUME c = NoChallenge PROVE c0 = NoChallenge
  <2>1. c.id = 0
    BY <1>3 DEF NoChallenge
  <2>2. c = [c EXCEPT !.id = 0]
    BY <2>1 DEF ChallengeType
  <2> QED BY <1>1, <1>3, <2>2
<1>4. ASSUME c0 = NoChallenge PROVE c = NoChallenge
  <2>1. c0.query = ""
    BY <1>4 DEF NoChallenge
  <2>2. c.id = 0
    BY <1>1, <2>1
  <2>3. c = [c EXCEPT !.id = 0]
    BY <2>2 DEF ChallengeType
  <2> QED BY <1>1, <1>4, <2>3
<1> QED BY <1>2, <1>3, <1>4

(* A request is understood in the same way with any id in its credential.  *)
SameFor(q, ask) ==
    /\ q.path = ask.path /\ q.query = ask.query /\ q.body = ask.body
    /\ Bears(q) <=> Bears(ask)
    /\ Verified(q) <=> Verified(ask)
    /\ Bound(q) <=> Bound(ask)

LEMMA SameAsked ==
    ASSUME NEW q \in SentType, NEW ask, AskedAs(q, ask)
    PROVE  SameFor(q, ask)
<1>1. q.auth \in ChallengeType
  BY DEF SentType
<1>2. q.path = ask.path /\ q.query = ask.query /\ q.body = ask.body /\ Numbered(q.auth, ask.auth)
  BY DEF AskedAs
<1>3. /\ q.auth.path = ask.auth.path /\ q.auth.query = ask.auth.query
      /\ q.auth.body = ask.auth.body /\ q.auth.sound = ask.auth.sound
      /\ q.auth = NoChallenge <=> ask.auth = NoChallenge
  BY <1>1, <1>2, NumberedSame
<1>4. Bears(q) <=> Bears(ask)
  BY <1>3 DEF Bears, NoAuthorization
<1>5. Verified(q) <=> Verified(ask)
  BY <1>2, <1>3 DEF Verified
<1>6. Bound(q) <=> Bound(ask)
  BY <1>2, <1>3 DEF Bound
<1> QED BY <1>2, <1>4, <1>5, <1>6 DEF SameFor

(* An answer without a challenge that has a nonce.                         *)
LEMMA AnsweredPlain ==
    ASSUME NEW a \in ResponseType, a.challenge.id = 0, a.challenge.query = ""
    PROVE  AnsweredAs(a, a)
<1>1. a.challenge \in ChallengeType
  BY DEF ResponseType
<1>2. [a.challenge EXCEPT !.id = 0] = a.challenge
  BY <1>1 DEF ChallengeType
<1> QED BY <1>2 DEF AnsweredAs, Numbered

LEMMA StatusPlain ==
    /\ \A code \in Nat : /\ Status(code).challenge = NoChallenge
                         /\ ~Status(code).challenge.sound
    /\ NoChallenge.id = 0 /\ NoChallenge.query = "" /\ NoChallenge.path = ""
    /\ NoChallenge.body = "" /\ NoChallenge.sound = FALSE
    /\ NoResponse.challenge = NoChallenge
BY DEF Status, NoChallenge, NoResponse

(* Answers that say no more than a status, a path or a receipt.            *)
IsSimple(y, code) ==
    \/ y = Status(code)
    \/ y = [Status(code) EXCEPT !.body = "discovery"]
    \/ y = [Status(code) EXCEPT !.authorized = TRUE]
    \/ y = [Status(code) EXCEPT !.problem = TRUE]
    \/ y = [Status(code) EXCEPT !.receipt = "receipt"]
    \/ \E path \in Text : y = [Status(code) EXCEPT !.challenge.path = path]

LEMMA SimpleAnswers ==
    ASSUME NEW code \in Nat, NEW y, IsSimple(y, code)
    PROVE  AnsweredAs(y, y) /\ ~y.challenge.sound /\ y.status = code
<1> DEFINE x == Status(code)
<1>1. x \in ResponseType /\ x.status = code /\ x.challenge = NoChallenge
  BY ResponsesTyped, StatusPlain
<1>2. \/ y = x
      \/ y = [x EXCEPT !.body = "discovery"]
      \/ y = [x EXCEPT !.authorized = TRUE]
      \/ y = [x EXCEPT !.problem = TRUE]
      \/ y = [x EXCEPT !.receipt = "receipt"]
      \/ \E path \in Text : y = [x EXCEPT !.challenge.path = path]
  BY DEF IsSimple
<1> HIDE DEF x
<1>3. "discovery" \in Text /\ "receipt" \in Text
  BY DEF Text
<1>4. CASE ~\E path \in Text : y = [x EXCEPT !.challenge.path = path]
  <2>1. y \in ResponseType /\ y.challenge = NoChallenge /\ y.status = code
    BY <1>1, <1>2, <1>3, <1>4 DEF ResponseType
  <2> QED BY <2>1, StatusPlain, AnsweredPlain
<1>5. ASSUME NEW path \in Text, y = [x EXCEPT !.challenge.path = path]
      PROVE  AnsweredAs(y, y) /\ ~y.challenge.sound /\ y.status = code
  <2>1. y \in ResponseType /\ y.status = code
    BY <1>1, <1>5, PathShown
  <2>2. y.challenge = [x.challenge EXCEPT !.path = path]
    BY <1>1, <1>5 DEF ResponseType
  <2>3. y.challenge.id = 0 /\ y.challenge.query = "" /\ y.challenge.sound = FALSE
    <3> DEFINE z == x.challenge
    <3>1. z \in ChallengeType /\ z.id = 0 /\ z.query = "" /\ z.sound = FALSE
      BY <1>1, StatusPlain DEF ResponseType
    <3>2. y.challenge = [z EXCEPT !.path = path]
      BY <2>2
    <3> HIDE DEF z
    <3> QED BY <3>1, <3>2 DEF ChallengeType
  <2> QED BY <2>1, <2>3, AnsweredPlain
<1> QED BY <1>4, <1>5

LEMMA AtOnceSimple ==
    ASSUME NEW c
    PROVE  /\ AnsweredAs(AtOnce(c), AtOnce(c)) /\ ~AtOnce(c).challenge.sound
           /\ AtOnce(c).status \in {200, 302, 500}
<1>1. PICK y : y = AtOnce(c)
  OBVIOUS
<1>2. PICK code \in {200, 302, 500} : IsSimple(y, code)
  BY <1>1 DEF AtOnce, IsSimple
<1>4. AnsweredAs(y, y) /\ ~y.challenge.sound /\ y.status = code
  BY <1>2, SimpleAnswers
<1> QED BY <1>1, <1>4

(* A request that moves on, and no other.                                  *)
Becomes(i, at, resp) ==
    /\ Len(requests') = Len(requests)
    /\ \A k \in 1..Len(requests) : k # i => requests'[k] = requests[k]
    /\ requests'[i].sent = requests[i].sent
    /\ requests'[i].at = at
    /\ requests'[i].response = resp

LEMMA AnsweredBecomes ==
    ASSUME ServerTypes, NEW i \in 1..Len(requests), NEW x, requests' = Answered(i, x)
    PROVE  Becomes(i, "done", x)
<1>1. requests[i] \in RequestType
  BY RequestSeen
<1> DEFINE r == [requests[i] EXCEPT !.at = "done", !.response = x]
<1>2. requests' = [requests EXCEPT ![i] = r]
  BY DEF Answered
<1>3. r.sent = requests[i].sent /\ r.at = "done" /\ r.response = x
  BY <1>1 DEF RequestType
<1> HIDE DEF r
<1>4. requests \in Seq(RequestType)
  BY DEF ServerTypes
<1>5. Len(requests') = Len(requests)
      /\ \A k \in 1..Len(requests) : requests'[k] = IF k = i THEN r ELSE requests[k]
  BY <1>2, <1>4
<1> QED BY <1>3, <1>5 DEF Becomes

LEMMA AwaitsBecomes ==
    ASSUME ServerTypes, NEW i \in 1..Len(requests), NEW what, requests' = Awaits(i, what)
    PROVE  Becomes(i, what, requests[i].response)
<1>1. requests[i] \in RequestType
  BY RequestSeen
<1> DEFINE r == [requests[i] EXCEPT !.at = what]
<1>2. requests' = [requests EXCEPT ![i] = r]
  BY DEF Awaits
<1>3. r.sent = requests[i].sent /\ r.at = what /\ r.response = requests[i].response
  BY <1>1 DEF RequestType
<1> HIDE DEF r
<1>4. requests \in Seq(RequestType)
  BY DEF ServerTypes
<1>5. Len(requests') = Len(requests)
      /\ \A k \in 1..Len(requests) : requests'[k] = IF k = i THEN r ELSE requests[k]
  BY <1>2, <1>4
<1> QED BY <1>3, <1>5 DEF Becomes

(* What a step of the server does to the request that it works on.         *)
Replayed(q) == ReplaySent(q) /\ ReplayKey(q) \in seenAuthorization

Foreseen(i, ask, seen) ==
    /\ AskedAs(requests[i].sent, ask)
    /\ requests[i].sent.auth.sound /\ requests[i].sent.auth.path = requests[i].sent.path =>
         acceptPaymentByPath[requests[i].sent.path] # "unset"
    /\ \/ seen <=> (requests[i].at # "charge" /\ Replayed(requests[i].sent))
       \/ Rejected(requests[i].sent)

Told(i, x) ==
    \A ask : \A seen \in BOOLEAN : Foreseen(i, ask, seen) => AnsweredAs(x, AnswerTo(ask, seen))

MovesOn(i) ==
    /\ Becomes(i, "body", requests[i].response)
    /\ requests[i].at = "sent"
    /\ PaidFor(CaseAt(requests[i].sent.path))
    /\ UNCHANGED <<acceptPaymentByPath, sideEffectsByKey, seenAuthorization>>

Admits(i) ==
    LET q == requests[i].sent
        c == CaseAt(q.path)
    IN /\ Becomes(i, "charge", requests[i].response)
       /\ requests[i].at \in {"sent", "body"}
       /\ PaidFor(c) /\ "json_rpc" \notin c.has /\ ~Rejected(q) /\ ~Replayed(q)
       /\ acceptPaymentByPath' = IF Bears(q) THEN acceptPaymentByPath
                                 ELSE [acceptPaymentByPath EXCEPT ![q.path] = q.accept]
       /\ seenAuthorization' = IF ReplaySent(q) THEN seenAuthorization \cup {ReplayKey(q)}
                               ELSE seenAuthorization
       /\ sideEffectsByKey' = sideEffectsByKey

AnswersWith(i, x) ==
    LET q == requests[i].sent
        c == CaseAt(q.path)
    IN /\ Becomes(i, "done", x)
       /\ requests[i].at \in {"sent", "body", "charge"}
       /\ Told(i, x)
       /\ x.challenge.sound => x.challenge.path = q.path /\ requests[i].at = "charge"
       /\ requests[i].at # "charge" /\ PaidFor(c) /\ "json_rpc" \notin c.has =>
            Rejected(q) \/ Replayed(q)
       /\ UNCHANGED <<acceptPaymentByPath, seenAuthorization>>
       /\ \/ sideEffectsByKey' = sideEffectsByKey
          \/ /\ "idempotency_key" \in c.has
             /\ sideEffectsByKey' = [sideEffectsByKey EXCEPT ![q.path] = 1]

Effect(i) == MovesOn(i) \/ Admits(i) \/ \E x : AnswersWith(i, x)

LEMMA RouteEffect ==
    ASSUME ServerTypes, NEW i \in 1..Len(requests), Route(i) PROVE Effect(i)
<1> DEFINE q == requests[i].sent
           c == CaseAt(q.path)
<1>1. PICK x : x = AtOnce(c)
  OBVIOUS
<1>2. /\ requests' = Answered(i, x) /\ requests[i].at = "sent" /\ "json_rpc" \notin c.has
      /\ ~PaidFor(c)
      /\ UNCHANGED <<acceptPaymentByPath, sideEffectsByKey, seenAuthorization>>
  BY <1>1 DEF Route, Pending, PaidFor, maps
<1>3. Becomes(i, "done", x)
  BY <1>2, AnsweredBecomes
<1>4. AnsweredAs(x, x) /\ ~x.challenge.sound
  BY <1>1, AtOnceSimple
<1>5. Told(i, x)
  <2> SUFFICES ASSUME NEW ask, NEW seen \in BOOLEAN, Foreseen(i, ask, seen)
               PROVE  AnsweredAs(x, AnswerTo(ask, seen))
    BY DEF Told
  <2>1. q.path = ask.path
    BY RequestSeen, SameAsked DEF Foreseen, SameFor
  <2>2. AnswerTo(ask, seen) = x
    BY <1>1, <1>2, <2>1 DEF AnswerTo
  <2> QED BY <1>4, <2>2
<1>6. AnswersWith(i, x)
  BY <1>2, <1>3, <1>4, <1>5 DEF AnswersWith
<1> QED BY <1>6 DEF Effect

LEMMA AwaitBodyEffect ==
    ASSUME ServerTypes, NEW i \in 1..Len(requests), AwaitBody(i) PROVE Effect(i)
<1>1. /\ requests' = Awaits(i, "body") /\ requests[i].at = "sent"
      /\ PaidFor(CaseAt(requests[i].sent.path))
      /\ UNCHANGED <<acceptPaymentByPath, sideEffectsByKey, seenAuthorization>>
  BY DEF AwaitBody, Pending, PaidFor, maps
<1> QED BY <1>1, AwaitsBecomes DEF Effect, MovesOn

LEMMA AnswerJsonRpcEffect ==
    ASSUME ServerTypes, NEW i \in 1..Len(requests), AnswerJsonRpc(i) PROVE Effect(i)
<1> DEFINE q == requests[i].sent
           c == CaseAt(q.path)
<1>1. PICK x : x = IF Bears(q) THEN [Status(200) EXCEPT !.receipt = "receipt"]
                   ELSE [Status(200) EXCEPT !.challenge.path = q.path]
  OBVIOUS
<1>2. /\ requests' = Answered(i, x) /\ requests[i].at = "body" /\ "json_rpc" \in c.has
      /\ UNCHANGED <<acceptPaymentByPath, sideEffectsByKey, seenAuthorization>>
  <2>1. requests' = Answered(i, IF q.auth = NoAuthorization
                                THEN [Status(200) EXCEPT !.challenge.path = q.path]
                                ELSE [Status(200) EXCEPT !.receipt = "receipt"])
    BY DEF AnswerJsonRpc
  <2>2. x = IF q.auth = NoAuthorization THEN [Status(200) EXCEPT !.challenge.path = q.path]
            ELSE [Status(200) EXCEPT !.receipt = "receipt"]
    BY <1>1 DEF Bears
  <2> QED BY <2>1, <2>2 DEF AnswerJsonRpc, Pending, maps
<1>3. Becomes(i, "done", x)
  BY <1>2, AnsweredBecomes
<1>4. AnsweredAs(x, x) /\ ~x.challenge.sound
  <2>1. q.path \in Text
    BY RequestSeen
  <2>2. IsSimple(x, 200)
    BY <1>1, <2>1 DEF IsSimple
  <2> QED BY <2>2, SimpleAnswers
<1>5. Told(i, x)
  <2> SUFFICES ASSUME NEW ask, NEW seen \in BOOLEAN, Foreseen(i, ask, seen)
               PROVE  AnsweredAs(x, AnswerTo(ask, seen))
    BY DEF Told
  <2>1. q.path = ask.path /\ (Bears(q) <=> Bears(ask))
    BY RequestSeen, SameAsked DEF Foreseen, SameFor
  <2>2. AnswerTo(ask, seen) = x
    BY <1>1, <1>2, <2>1 DEF AnswerTo
  <2> QED BY <1>4, <2>2
<1>6. AnswersWith(i, x)
  BY <1>2, <1>3, <1>4, <1>5 DEF AnswersWith
<1> QED BY <1>6 DEF Effect

LEMMA AdmitEffect ==
    ASSUME ServerTypes, NEW i \in 1..Len(requests), Settled(requests[i]), Admit(i)
    PROVE  Effect(i)
<1> DEFINE q == requests[i].sent
           c == CaseAt(q.path)
<1>1. PICK x : x = [Status(400) EXCEPT !.authorized = TRUE]
  OBVIOUS
<1>2. PICK y : y = [Status(402) EXCEPT !.problem = TRUE]
  OBVIOUS
<1>3. /\ requests[i].at \in {"sent", "body"} /\ PaidFor(c) /\ "json_rpc" \notin c.has
      /\ sideEffectsByKey' = sideEffectsByKey
  BY DEF Admit, Pending, PaidFor, Settled
<1>4. /\ Bears(q) <=> q.auth # NoAuthorization
      /\ Rejected(q) <=> Bears(q) /\ "reject_authorization" \in c.has
      /\ ReplaySent(q) <=> Bears(q) /\ "concurrent_replay" \in c.has
      /\ Replayed(q) <=> ReplaySent(q) /\ ReplayKey(q) \in seenAuthorization
  BY DEF Bears, Rejected, ReplaySent, Replayed, Replay
<1>5. /\ requests' = IF Rejected(q) THEN Answered(i, x)
                     ELSE IF Replayed(q) THEN Answered(i, y) ELSE Awaits(i, "charge")
      /\ acceptPaymentByPath' = IF Bears(q) THEN acceptPaymentByPath
                                ELSE [acceptPaymentByPath EXCEPT ![q.path] = q.accept]
      /\ seenAuthorization' = IF ReplaySent(q) /\ ~Rejected(q)
                              THEN seenAuthorization \cup {ReplayKey(q)} ELSE seenAuthorization
  BY <1>1, <1>2, <1>4 DEF Admit, SeenWith
<1>6. /\ AnsweredAs(x, x) /\ ~x.challenge.sound /\ AnsweredAs(y, y) /\ ~y.challenge.sound
  <2>1. IsSimple(x, 400) /\ IsSimple(y, 402)
    BY <1>1, <1>2 DEF IsSimple
  <2> QED BY <2>1, SimpleAnswers
<1> HIDE DEF c
<1>7. CASE Rejected(q)
  <2>1. Becomes(i, "done", x)
    BY <1>5, <1>7, AnsweredBecomes
  <2>2. Told(i, x)
    <3> SUFFICES ASSUME NEW ask, NEW seen \in BOOLEAN, Foreseen(i, ask, seen)
                 PROVE  AnsweredAs(x, AnswerTo(ask, seen))
      BY DEF Told
    <3>1. q.path = ask.path /\ (Bears(q) <=> Bears(ask))
      BY RequestSeen, SameAsked DEF Foreseen, SameFor
    <3>2. Rejected(ask)
      BY <1>7, <3>1 DEF Rejected
    <3>3. AnswerTo(ask, seen) = x
      BY <1>1, <1>3, <3>1, <3>2 DEF AnswerTo, c
    <3> QED BY <1>6, <3>3
  <2>3. seenAuthorization' = seenAuthorization /\ acceptPaymentByPath' = acceptPaymentByPath
    BY <1>4, <1>5, <1>7
  <2>4. AnswersWith(i, x)
    BY <1>3, <1>6, <1>7, <2>1, <2>2, <2>3 DEF AnswersWith
  <2> QED BY <2>4 DEF Effect
<1>8. CASE ~Rejected(q) /\ Replayed(q)
  <2>1. Becomes(i, "done", y)
    BY <1>5, <1>8, AnsweredBecomes
  <2>2. Told(i, y)
    <3> SUFFICES ASSUME NEW ask, NEW seen \in BOOLEAN, Foreseen(i, ask, seen)
                 PROVE  AnsweredAs(y, AnswerTo(ask, seen))
      BY DEF Told
    <3>1. q.path = ask.path /\ (Bears(q) <=> Bears(ask))
      BY RequestSeen, SameAsked DEF Foreseen, SameFor
    <3>2. ~Rejected(ask)
      BY <1>8, <3>1 DEF Rejected
    <3>3. seen
      BY <1>3, <1>8 DEF Foreseen
    <3>4. AnswerTo(ask, seen) = y
      BY <1>2, <1>3, <3>1, <3>2, <3>3 DEF AnswerTo, c
    <3> QED BY <1>6, <3>4
  <2>3. seenAuthorization' = seenAuthorization /\ acceptPaymentByPath' = acceptPaymentByPath
    BY <1>4, <1>5, <1>8
  <2>4. AnswersWith(i, y)
    BY <1>3, <1>6, <1>8, <2>1, <2>2, <2>3 DEF AnswersWith
  <2> QED BY <2>4 DEF Effect
<1>9. CASE ~Rejected(q) /\ ~Replayed(q)
  <2>1. Becomes(i, "charge", requests[i].response)
    BY <1>5, <1>9, AwaitsBecomes
  <2>2. seenAuthorization' = IF ReplaySent(q) THEN seenAuthorization \cup {ReplayKey(q)}
                             ELSE seenAuthorization
    BY <1>5, <1>9
  <2>3. Admits(i)
    BY <1>3, <1>5, <1>9, <2>1, <2>2 DEF Admits, c
  <2> QED BY <2>3 DEF Effect
<1> QED BY <1>7, <1>8, <1>9

(* What a response says besides the fields that are set.                   *)
LEMMA ResponseKept ==
    ASSUME NEW z \in ResponseType, NEW receipt, NEW accept, NEW effects, NEW body
    PROVE  [z EXCEPT !.receipt = receipt, !.accept = accept, !.effects = effects,
                     !.body = body].challenge = z.challenge
BY DEF ResponseType

LEMMA IssueEffect ==
    ASSUME ServerTypes, NEW i \in 1..Len(requests), Settled(requests[i]), Issue(i)
    PROVE  Effect(i)
<1> DEFINE q == requests[i].sent
           c == CaseAt(q.path)
           broken == "invalid_www_authenticate" \in c.has
           ch(id) == [id |-> id, path |-> q.path, query |-> q.query, body |-> q.body,
                      sound |-> "invalid_challenge_id" \notin c.has]
           told == "expect_problem_details" \in c.has
           id == IF nonces THEN issued + 1 ELSE 0
<1>1. PICK made : made = IF broken THEN NoChallenge ELSE ch(id)
  OBVIOUS
<1>2. PICK x : x = [Status(402) EXCEPT !.challenge = made, !.problem = told]
  OBVIOUS
<1>15. PICK z : z = Status(402)
  OBVIOUS
<1>16. PICK b : b = told
  OBVIOUS
<1>3. /\ requests' = Answered(i, x) /\ requests[i].at = "charge" /\ ~Verified(q)
      /\ UNCHANGED <<acceptPaymentByPath, sideEffectsByKey, seenAuthorization>>
  BY <1>1, <1>2 DEF Issue, Pending
<1>4. /\ PaidFor(c) /\ "json_rpc" \notin c.has /\ ~Rejected(q) /\ q.query # ""
  BY <1>3 DEF Settled
<1>5. Becomes(i, "done", x)
  BY <1>3, AnsweredBecomes
<1>6. id \in Nat /\ (id # 0 <=> nonces)
  BY DEF ServerTypes
<1>7. Status(402) \in ResponseType /\ Status(402).status = 402
  BY ResponsesTyped
<1>8. x.challenge = made
      /\ [x EXCEPT !.challenge = NoChallenge] = [z EXCEPT !.challenge = NoChallenge, !.problem = b]
  <2> HIDE DEF told
  <2>1. x = [z EXCEPT !.challenge = made, !.problem = b]
    BY ONLY <1>2, <1>15, <1>16
  <2>2. z \in ResponseType
    BY ONLY <1>7, <1>15
  <2> QED BY ONLY <2>1, <2>2 DEF ResponseType
<1>9. made.sound => made.path = q.path
  BY <1>1, StatusPlain
<1>10. PICK made0 : made0 = IF broken THEN NoChallenge ELSE ch(0)
  OBVIOUS
<1>11. Numbered(made, made0)
  <2>1. CASE broken
    <3>1. [NoChallenge EXCEPT !.id = 0] = NoChallenge
      BY ResponsesTyped, StatusPlain DEF ChallengeType
    <3> QED BY <1>1, <1>10, <2>1, <3>1, StatusPlain DEF Numbered
  <2>2. CASE ~broken
    <3>1. made.id = id /\ made0.query = q.query /\ [made EXCEPT !.id = 0] = made0
      BY <1>1, <1>10, <2>2
    <3> QED BY <1>4, <1>6, <3>1 DEF Numbered
  <2> QED BY <2>1, <2>2
<1> HIDE DEF ch, id
<1>12. Told(i, x)
  <2> SUFFICES ASSUME NEW ask, NEW seen \in BOOLEAN, Foreseen(i, ask, seen)
               PROVE  AnsweredAs(x, AnswerTo(ask, seen))
    BY DEF Told
  <2>1. SameFor(q, ask) /\ ~seen
    BY <1>3, <1>4, RequestSeen, SameAsked DEF Foreseen
  <2>2. /\ q.path = ask.path /\ q.query = ask.query /\ q.body = ask.body
        /\ ~Verified(ask) /\ ~Rejected(ask)
    BY <1>3, <1>4, <2>1 DEF SameFor, Rejected
  <2>3. AnswerTo(ask, seen) = IssuedFor(ask)
    BY <1>4, <2>1, <2>2 DEF AnswerTo, Charged
  <2>4. IssuedFor(ask) = [Status(402) EXCEPT !.challenge = made0, !.problem = told]
    BY <1>10, <2>2 DEF IssuedFor, ch
  <2>5. PICK a : a = IssuedFor(ask)
    OBVIOUS
  <2>6. a.challenge = made0
        /\ [a EXCEPT !.challenge = NoChallenge] =
             [z EXCEPT !.challenge = NoChallenge, !.problem = b]
    <3> HIDE DEF told
    <3>1. a = [z EXCEPT !.challenge = made0, !.problem = b]
      BY ONLY <2>4, <2>5, <1>15, <1>16
    <3>2. z \in ResponseType
      BY ONLY <1>7, <1>15
    <3> QED BY ONLY <3>1, <3>2 DEF ResponseType
  <2>7. AnsweredAs(x, a)
    BY <1>8, <1>11, <2>6 DEF AnsweredAs
  <2> QED BY <2>3, <2>5, <2>7
<1>13. AnswersWith(i, x)
  BY <1>3, <1>5, <1>8, <1>9, <1>12 DEF AnswersWith
<1> QED BY <1>13 DEF Effect

LEMMA RejectUnboundEffect ==
    ASSUME ServerTypes, NEW i \in 1..Len(requests), Settled(requests[i]), RejectUnbound(i)
    PROVE  Effect(i)
<1> DEFINE q == requests[i].sent
           c == CaseAt(q.path)
<1>1. PICK x : x = [Status(402) EXCEPT !.challenge.path = q.path]
  OBVIOUS
<1>2. /\ requests' = Answered(i, x) /\ requests[i].at = "charge" /\ Verified(q) /\ ~Bound(q)
      /\ UNCHANGED <<acceptPaymentByPath, sideEffectsByKey, seenAuthorization>>
  BY <1>1 DEF RejectUnbound, Pending, maps
<1>3. /\ PaidFor(c) /\ "json_rpc" \notin c.has /\ ~Rejected(q)
  BY <1>2 DEF Settled
<1>4. Becomes(i, "done", x)
  BY <1>2, AnsweredBecomes
<1>5. AnsweredAs(x, x) /\ ~x.challenge.sound
  <2>1. q.path \in Text
    BY RequestSeen
  <2>2. IsSimple(x, 402)
    BY <1>1, <2>1 DEF IsSimple
  <2> QED BY <2>2, SimpleAnswers
<1>6. Told(i, x)
  <2> SUFFICES ASSUME NEW ask, NEW seen \in BOOLEAN, Foreseen(i, ask, seen)
               PROVE  AnsweredAs(x, AnswerTo(ask, seen))
    BY DEF Told
  <2>1. SameFor(q, ask) /\ ~seen
    BY <1>2, <1>3, RequestSeen, SameAsked DEF Foreseen
  <2>2. q.path = ask.path /\ Verified(ask) /\ ~Bound(ask) /\ ~Rejected(ask)
    BY <1>2, <1>3, <2>1 DEF SameFor, Rejected
  <2>3. AnswerTo(ask, seen) = x
    BY <1>1, <1>3, <2>1, <2>2 DEF AnswerTo, Charged
  <2> QED BY <1>5, <2>3
<1>7. AnswersWith(i, x)
  BY <1>2, <1>4, <1>5, <1>6 DEF AnswersWith
<1> QED BY <1>7 DEF Effect

LEMMA ServeEffect ==
    ASSUME ServerTypes, MapsInv, NEW i \in 1..Len(requests), Serve(i)
    PROVE  Effect(i)
<1> DEFINE q == requests[i].sent
           c == CaseAt(q.path)
           receipt == IF "omit_receipt" \in c.has THEN "" ELSE "receipt"
           accept == acceptPaymentByPath[q.path]
           effects == sideEffectsByKey'[q.path]
           once == IF "idempotency_key" \in c.has THEN 1 ELSE 0
           body == IF "verify_body_preserved" \in c.has THEN q.body ELSE ""
           answer(a, e) == [Status(200) EXCEPT !.receipt = receipt, !.accept = a, !.effects = e,
                                               !.body = body]
<1>1. PICK x : x = answer(accept, effects)
  OBVIOUS
<1>2. /\ requests' = Answered(i, x) /\ requests[i].at = "charge" /\ Verified(q) /\ Bound(q)
      /\ sideEffectsByKey' = IF "idempotency_key" \in c.has
                             THEN [sideEffectsByKey EXCEPT ![q.path] = 1] ELSE sideEffectsByKey
      /\ UNCHANGED <<acceptPaymentByPath, seenAuthorization>>
  BY <1>1 DEF Serve, Pending
<1>3. Settled(requests[i])
  BY DEF MapsInv
<1>4. /\ PaidFor(c) /\ "json_rpc" \notin c.has /\ ~Rejected(q)
  BY <1>2, <1>3 DEF Settled
<1>5. Becomes(i, "done", x)
  BY <1>2, AnsweredBecomes
<1>6. q.path \in Paths /\ q \in SentType
  BY RequestSeen
<1>7. effects = once
  <2>1. DOMAIN sideEffectsByKey = Paths
    BY DEF ServerTypes
  <2>2. sideEffectsByKey[q.path] \in {0, once}
    BY <1>6 DEF MapsInv
  <2>3. CASE "idempotency_key" \in c.has
    BY <1>2, <1>6, <2>1, <2>3
  <2>4. CASE "idempotency_key" \notin c.has
    BY <1>2, <2>2, <2>4
  <2> QED BY <2>3, <2>4
<1>8. Status(200) \in ResponseType /\ Status(200).challenge = NoChallenge
  BY ResponsesTyped, StatusPlain
<1>9. AnsweredAs(x, x) /\ ~x.challenge.sound
  <2>1. receipt \in Text /\ body \in Text /\ accept \in Text /\ effects \in Nat
    <3>1. q.body \in Text
      BY <1>6 DEF SentType
    <3>2. accept \in Text
      BY <1>6 DEF ServerTypes
    <3>3. receipt \in Text
      BY DEF Text
    <3>4. body \in Text
      BY <3>1 DEF Text
    <3>5. once \in Nat
      OBVIOUS
    <3>6. effects \in Nat
      BY ONLY <1>7, <3>5
    <3> QED BY ONLY <3>2, <3>3, <3>4, <3>6
  <2> HIDE DEF receipt, body, accept, effects
  <2>2. PICK z : z = Status(200)
    OBVIOUS
  <2>3. x = [z EXCEPT !.receipt = receipt, !.accept = accept, !.effects = effects, !.body = body]
    BY ONLY <1>1, <2>2
  <2>4. z \in ResponseType /\ z.challenge = NoChallenge
    BY ONLY <1>8, <2>2
  <2>5. x \in ResponseType
    BY ONLY <2>1, <2>3, <2>4, ResponseServed
  <2>6. x.challenge = NoChallenge
    BY ONLY <2>3, <2>4, ResponseKept
  <2> QED BY <2>5, <2>6, AnsweredPlain, StatusPlain
<1> HIDE DEF effects
<1>10. Told(i, x)
  <2> SUFFICES ASSUME NEW ask, NEW seen \in BOOLEAN, Foreseen(i, ask, seen)
               PROVE  AnsweredAs(x, AnswerTo(ask, seen))
    BY DEF Told
  <2>1. SameFor(q, ask) /\ ~seen
    BY <1>2, <1>4, RequestSeen, SameAsked DEF Foreseen
  <2>2. q.path = ask.path /\ q.body = ask.body /\ Verified(ask) /\ Bound(ask) /\ ~Rejected(ask)
    BY <1>2, <1>4, <2>1 DEF SameFor, Rejected
  <2>3. accept = AcceptOf(q.path)
    <3>1. q.auth.sound /\ q.auth.path = q.path
      BY <1>2 DEF Verified
    <3>2. accept # "unset"
      BY <3>1 DEF Foreseen
    <3> QED BY <1>6, <3>2 DEF MapsInv
  <2>4. AnswerTo(ask, seen) = ServedFor(ask)
    BY <1>4, <2>1, <2>2 DEF AnswerTo, Charged
  <2>5. ServedFor(ask) = answer(AcceptOf(q.path), once)
    BY <2>2 DEF ServedFor
  <2>6. x = answer(AcceptOf(q.path), once)
    BY <1>1, <1>7, <2>3
  <2>7. AnswerTo(ask, seen) = x
    BY ONLY <2>4, <2>5, <2>6
  <2> QED BY <1>9, <2>7
<1>11. AnswersWith(i, x)
  BY <1>2, <1>5, <1>9, <1>10 DEF AnswersWith
<1> QED BY <1>11 DEF Effect

(* A step of the server is one of these for some request.                  *)
LEMMA ServerEffect ==
    ASSUME ServerTypes, MapsInv, ServerStep
    PROVE  /\ \E i \in 1..Len(requests) : Effect(i)
           /\ server' = server /\ nonces' = nonces
<1>1. PICK i \in 1..Len(requests) :
         \/ Route(i) \/ AwaitBody(i) \/ AnswerJsonRpc(i) \/ Admit(i)
         \/ Issue(i) \/ RejectUnbound(i) \/ Serve(i)
  BY DEF ServerStep
<1>2. Settled(requests[i])
  BY DEF MapsInv
<1>3. Effect(i)
  BY <1>1, <1>2, RouteEffect, AwaitBodyEffect, AnswerJsonRpcEffect, AdmitEffect, IssueEffect,
     RejectUnboundEffect, ServeEffect
<1>4. server' = server /\ nonces' = nonces
  BY <1>1 DEF Route, AwaitBody, AnswerJsonRpc, Admit, Issue, RejectUnbound, Serve
<1> QED BY <1>3, <1>4

(* A step of the server forgets nothing.                                   *)
LEMMA EffectKeeps ==
    ASSUME NEW i \in 1..Len(requests), Effect(i)
    PROVE  /\ Len(requests') = Len(requests)
           /\ \A k \in 1..Len(requests) : k # i => requests'[k] = requests[k]
           /\ \A k \in 1..Len(requests) : requests'[k].sent = requests[k].sent
           /\ \A k \in 1..Len(requests) : Admitted(requests[k]) => Admitted(requests'[k])
           /\ seenAuthorization \subseteq seenAuthorization'
<1>1. PICK at, y : Becomes(i, at, y) /\ (Admitted(requests[i]) => at \in {"charge", "done"})
  <2>1. CASE MovesOn(i)
    BY <2>1 DEF MovesOn, Admitted
  <2>2. CASE Admits(i)
    BY <2>2 DEF Admits
  <2>3. CASE \E x : AnswersWith(i, x)
    BY <2>3 DEF AnswersWith
  <2> QED BY <2>1, <2>2, <2>3 DEF Effect
<1>2. seenAuthorization \subseteq seenAuthorization'
  <2>1. CASE MovesOn(i)
    BY <2>1 DEF MovesOn
  <2>2. CASE Admits(i)
    BY <2>2 DEF Admits
  <2>3. CASE \E x : AnswersWith(i, x)
    BY <2>3 DEF AnswersWith
  <2> QED BY <2>1, <2>2, <2>3 DEF Effect
<1>3. /\ Len(requests') = Len(requests)
      /\ \A k \in 1..Len(requests) : k # i => requests'[k] = requests[k]
      /\ requests'[i].sent = requests[i].sent /\ requests'[i].at = at
  BY <1>1 DEF Becomes
<1>4. Admitted(requests[i]) => Admitted(requests'[i])
  BY <1>1, <1>3 DEF Admitted
<1>5. \A k \in 1..Len(requests) : requests'[k].sent = requests[k].sent
  BY <1>3
<1>6. \A k \in 1..Len(requests) : Admitted(requests[k]) => Admitted(requests'[k])
  BY <1>3, <1>4
<1> QED BY <1>2, <1>3, <1>5, <1>6

LEMMA AcceptKnown == \A p \in Paths : AcceptOf(p) \in {"tempo", "none"} /\ AcceptOf(p) # "unset"
BY DEF AcceptOf

(* The maps by path, and what they are known to hold.                      *)
LEMMA EffectPathMaps ==
    ASSUME ServerTypes, MapsInv, NEW i \in 1..Len(requests), Effect(i)
    PROVE  /\ \A p \in Paths : acceptPaymentByPath'[p] \in {"unset", AcceptOf(p)}
           /\ \A p \in Paths : acceptPaymentByPath[p] # "unset" => acceptPaymentByPath'[p] # "unset"
           /\ \A p \in Paths :
                sideEffectsByKey'[p] \in {0, IF "idempotency_key" \in CaseAt(p).has THEN 1 ELSE 0}
<1> DEFINE q == requests[i].sent
<1>1. Settled(requests[i]) /\ q.path \in Paths
  BY RequestSeen DEF MapsInv
<1>2. DOMAIN acceptPaymentByPath = Paths /\ DOMAIN sideEffectsByKey = Paths
  BY DEF ServerTypes
<1>3. \A p \in Paths : acceptPaymentByPath[p] \in {"unset", AcceptOf(p)}
  BY DEF MapsInv
<1>4. \A p \in Paths :
        sideEffectsByKey[p] \in {0, IF "idempotency_key" \in CaseAt(p).has THEN 1 ELSE 0}
  BY DEF MapsInv
<1>5. q.accept = AcceptOf(q.path)
  BY <1>1 DEF Settled
<1>6. \/ acceptPaymentByPath' = acceptPaymentByPath
      \/ acceptPaymentByPath' = [acceptPaymentByPath EXCEPT ![q.path] = q.accept]
  <2>1. CASE MovesOn(i)
    BY <2>1 DEF MovesOn
  <2>2. CASE Admits(i)
    BY <2>2 DEF Admits
  <2>3. CASE \E x : AnswersWith(i, x)
    BY <2>3 DEF AnswersWith
  <2> QED BY <2>1, <2>2, <2>3 DEF Effect
<1>7. \/ sideEffectsByKey' = sideEffectsByKey
      \/ /\ "idempotency_key" \in CaseAt(q.path).has
         /\ sideEffectsByKey' = [sideEffectsByKey EXCEPT ![q.path] = 1]
  <2>1. CASE MovesOn(i)
    BY <2>1 DEF MovesOn
  <2>2. CASE Admits(i)
    BY <2>2 DEF Admits
  <2>3. CASE \E x : AnswersWith(i, x)
    BY <2>3 DEF AnswersWith
  <2> QED BY <2>1, <2>2, <2>3 DEF Effect
<1> HIDE DEF q
<1>8. /\ \A p \in Paths : acceptPaymentByPath'[p] \in {"unset", AcceptOf(p)}
      /\ \A p \in Paths : acceptPaymentByPath[p] # "unset" => acceptPaymentByPath'[p] # "unset"
  BY <1>2, <1>3, <1>5, <1>6, AcceptKnown
<1>9. \A p \in Paths :
        sideEffectsByKey'[p] \in {0, IF "idempotency_key" \in CaseAt(p).has THEN 1 ELSE 0}
  BY <1>2, <1>4, <1>7
<1> QED BY <1>8, <1>9

LEMMA EffectSettles ==
    ASSUME ServerTypes, MapsInv, NEW i \in 1..Len(requests), Effect(i),
           NEW k \in 1..Len(requests)
    PROVE  Settled(requests[k])'
<1> DEFINE q == requests[k].sent
<1>1. Settled(requests[k]) /\ q.path \in Paths
  BY RequestSeen DEF MapsInv
<1>2. requests'[k].sent = q
  BY EffectKeeps
<1>3. acceptPaymentByPath[q.path] # "unset" => acceptPaymentByPath'[q.path] # "unset"
  BY <1>1, EffectPathMaps
<1>4. CASE k # i
  <2>1. requests'[k] = requests[k]
    BY <1>4, EffectKeeps
  <2> QED BY <1>1, <1>3, <2>1 DEF Settled
<1>5. CASE k = i /\ MovesOn(i)
  <2>1. requests'[k].at = "body" /\ requests'[k].response = requests[k].response
        /\ PaidFor(CaseAt(q.path))
    BY <1>5 DEF MovesOn, Becomes
  <2> QED BY <1>1, <1>2, <1>3, <2>1 DEF Settled
<1>6. CASE k = i /\ Admits(i)
  <2>1. /\ requests'[k].at = "charge" /\ requests'[k].response = requests[k].response
        /\ PaidFor(CaseAt(q.path)) /\ "json_rpc" \notin CaseAt(q.path).has /\ ~Rejected(q)
    BY <1>6 DEF Admits, Becomes
  <2>2. ~Bears(q) => acceptPaymentByPath'[q.path] # "unset"
    <3>1. ~Bears(q) => acceptPaymentByPath' = [acceptPaymentByPath EXCEPT ![q.path] = q.accept]
      BY <1>6 DEF Admits
    <3>2. DOMAIN acceptPaymentByPath = Paths /\ q.accept = AcceptOf(q.path)
      BY <1>1 DEF ServerTypes, Settled
    <3> HIDE DEF q
    <3> QED BY <1>1, <3>1, <3>2, AcceptKnown
  <2> QED BY <1>1, <1>2, <2>1, <2>2 DEF Settled
<1>7. ASSUME k = i, NEW x, AnswersWith(i, x) PROVE Settled(requests[k])'
  <2>1. /\ requests'[k].at = "done" /\ requests'[k].response = x
        /\ x.challenge.sound => x.challenge.path = q.path /\ requests[k].at = "charge"
    BY <1>7 DEF AnswersWith, Becomes
  <2> QED BY <1>1, <1>2, <1>3, <2>1 DEF Settled
<1> QED BY <1>4, <1>5, <1>6, <1>7 DEF Effect

LEMMA EffectSeen ==
    ASSUME ServerTypes, MapsInv, NEW i \in 1..Len(requests), Effect(i),
           NEW key \in seenAuthorization'
    PROVE  \E k \in 1..Len(requests) : SeenIn(key, requests'[k])
<1>1. CASE key \in seenAuthorization
  <2>1. PICK k \in 1..Len(requests) : SeenIn(key, requests[k])
    BY <1>1 DEF MapsInv
  <2>2. SeenIn(key, requests'[k])
    BY <2>1, EffectKeeps DEF SeenIn
  <2> QED BY <2>2
<1>2. CASE key \notin seenAuthorization
  <2>1. Admits(i) /\ ReplaySent(requests[i].sent) /\ key = ReplayKey(requests[i].sent)
    <3>1. ~MovesOn(i)
      BY <1>2 DEF MovesOn
    <3>2. ~\E x : AnswersWith(i, x)
      BY <1>2 DEF AnswersWith
    <3>3. Admits(i)
      BY <3>1, <3>2 DEF Effect
    <3> QED BY <1>2, <3>3 DEF Admits
  <2>2. requests'[i].at = "charge" /\ requests'[i].sent = requests[i].sent
    BY <2>1 DEF Admits, Becomes
  <2>3. SeenIn(key, requests'[i])
    BY <2>1, <2>2 DEF SeenIn, Admitted
  <2> QED BY <2>3
<1> QED BY <1>1, <1>2

LEMMA EffectMaps ==
    ASSUME ServerTypes, MapsInv, NEW i \in 1..Len(requests), Effect(i)
    PROVE  MapsInv'
<1>1. Len(requests') = Len(requests)
  BY EffectKeeps
<1>2. \A k \in 1..Len(requests) : Settled(requests[k])'
  BY EffectSettles
<1>3. \A key \in seenAuthorization' : \E k \in 1..Len(requests) : SeenIn(key, requests'[k])
  BY EffectSeen
<1> QED BY <1>1, <1>2, <1>3, EffectPathMaps DEF MapsInv

(* A request that comes in.                                                *)
LEMMA ReceiveMaps ==
    ASSUME ServerTypes, MapsInv, NEW q \in SentType, Receive(q), q.accept = AcceptOf(q.path),
           q.query \in {"initial", "retry"}
    PROVE  /\ MapsInv'
           /\ Len(requests') = Len(requests) + 1 /\ Len(requests) \in Nat
           /\ \A k \in 1..Len(requests) : requests'[k] = requests[k]
           /\ requests'[Len(requests')].sent = q
           /\ requests'[Len(requests')].at = "sent"
<1> DEFINE n == Len(requests) + 1
           r == [sent |-> q, at |-> "sent", response |-> NoResponse]
<1>1. requests \in Seq(RequestType) /\ Len(requests) \in Nat
  BY DEF ServerTypes
<1>2. r \in RequestType
  BY ResponsesTyped DEF RequestType
<1>3. requests' = Append(requests, r)
  BY DEF Receive
<1>4. r.sent = q /\ r.at = "sent" /\ r.response = NoResponse
  OBVIOUS
<1> HIDE DEF r
<1>5. /\ Len(requests') = n /\ requests'[n] = r
      /\ \A k \in 1..Len(requests) : requests'[k] = requests[k]
  BY <1>1, <1>2, <1>3, AppendProperties
<1>6. UNCHANGED <<acceptPaymentByPath, sideEffectsByKey, seenAuthorization>>
  BY DEF Receive
<1>7. Settled(r)'
  <2>1. ~NoResponse.challenge.sound
    BY StatusPlain
  <2> QED BY <1>4, <2>1 DEF Settled
<1>8. \A k \in 1..n : Settled(requests[k])'
  <2> SUFFICES ASSUME NEW k \in 1..n PROVE Settled(requests[k])'
    OBVIOUS
  <2>1. CASE k = n
    BY <1>5, <1>7, <2>1 DEF Settled
  <2>2. CASE k \in 1..Len(requests)
    BY <1>5, <1>6, <2>2 DEF Settled, MapsInv
  <2> QED BY <1>1, <2>1, <2>2
<1>9. \A key \in seenAuthorization' : \E k \in 1..n : SeenIn(key, requests'[k])
  <2> SUFFICES ASSUME NEW key \in seenAuthorization' PROVE \E k \in 1..n : SeenIn(key, requests'[k])
    OBVIOUS
  <2>1. PICK k \in 1..Len(requests) : SeenIn(key, requests[k])
    BY <1>6 DEF MapsInv
  <2>2. k \in 1..n /\ SeenIn(key, requests'[k])
    BY <1>1, <1>5, <2>1
  <2> QED BY <2>2
<1>10. MapsInv'
  BY <1>5, <1>6, <1>8, <1>9 DEF MapsInv
<1> QED BY <1>1, <1>4, <1>5, <1>10

LEMMA StartServerMaps ==
    ASSUME StartServer PROVE MapsInv' /\ requests' = <<>>
<1>1. /\ requests' = <<>> /\ acceptPaymentByPath' = Unset /\ sideEffectsByKey' = NoEffects
      /\ seenAuthorization' = {}
  BY DEF StartServer
<1>2. Len(requests') = 0
  BY <1>1
<1> QED BY <1>1, <1>2 DEF MapsInv, Unset, NoEffects

LEMMA MapsStay ==
    ASSUME MapsInv, UNCHANGED <<requests, acceptPaymentByPath, sideEffectsByKey, seenAuthorization>>
    PROVE  MapsInv'
BY DEF MapsInv, Settled

LEMMA PathOfCase ==
    ASSUME NEW c \in Cases PROVE CaseAt(c.path) = c /\ c.path \in Paths
BY CasesAssumption DEF CaseAt, Paths

LEMMA KindKnown ==
    ASSUME NEW c
    PROVE  /\ Kind(c) \in {"discovery", "json_rpc", "client_flow", "no_payment", "payment"}
           /\ Kind(c) \in {"discovery", "json_rpc", "client_flow"} => FirstPath(c) = c.path
           /\ Kind(c) \in {"no_payment", "payment"} => FirstPath(c) = c.challengePath
           /\ Kind(c) = "json_rpc" <=> "discovery" \notin c.has /\ "json_rpc" \in c.has
BY DEF Kind, FirstPath

(* A replay case is paid for by the runner.                                *)
LEMMA ReplayCase ==
    ASSUME NEW c \in Cases, "concurrent_replay" \in c.has
    PROVE  Kind(c) = "payment" /\ FirstPath(c) = c.path /\ (Pays(c) => PaidFor(c))
<1>1. /\ c.has \cap {"discovery", "no_payment", "json_rpc", "client_flow"} = {}
      /\ c.challengePath = c.path
  BY CasesAssumption
<1>2. Kind(c) = "payment"
  BY <1>1 DEF Kind
<1>3. FirstPath(c) = c.path
  BY <1>1, <1>2, KindKnown
<1>4. ASSUME ~PaidFor(c) PROVE ~Pays(c)
  <2>1. CaseAt(FirstAsk(c).path) = c
    BY <1>3, PathOfCase DEF FirstAsk
  <2>2. FirstAnswer(c) = AtOnce(c)
    BY <1>1, <1>4, <2>1 DEF FirstAnswer, AnswerTo
  <2>3. FirstAnswer(c).status \in {200, 302, 500}
    BY <2>2, AtOnceSimple
  <2> QED BY <2>3 DEF Pays
<1> QED BY <1>2, <1>3, <1>4

LEMMA LastRequest ==
    ASSUME FlowInv, Waiting
    PROVE  /\ InACase /\ InCase
           /\ Len(requests) \in 1..Len(requests) /\ Newest = requests[Len(requests)]
           /\ Newest \in RequestType /\ Newest.sent \in SentType /\ Newest.sent.auth \in ChallengeType
           /\ Case \in Cases /\ CaseAt(Case.path) = Case /\ Case.path \in Paths
           /\ caseNo \in 1..Len(Order)
<1>1. InACase /\ InCase /\ requests # <<>>
  BY InTheCase
<1>2. Case \in Cases /\ caseNo \in 1..Len(Order)
  BY <1>1, CaseSeen
<1>3. requests \in Seq(RequestType)
  BY DEF FlowInv, ServerTypes
<1>4. Len(requests) \in 1..Len(requests)
  BY <1>1, <1>3
<1>5. Newest \in RequestType /\ Newest.sent \in SentType /\ Newest.sent.auth \in ChallengeType
  BY <1>4, RequestSeen DEF Newest, FlowInv
<1> QED BY <1>1, <1>2, <1>4, <1>5, PathOfCase DEF Newest

(* The first request of a case has no credential.                          *)
LEMMA FirstUnpaid ==
    ASSUME FlowInv, RequestInv, Waiting, flowPc = "initial"
    PROVE  ~Bears(Newest.sent) /\ ~Newest.sent.auth.sound
<1>1. Newest.sent.auth \in ChallengeType
  BY LastRequest
<1>2. Numbered(Newest.sent.auth, NoAuthorization)
  BY DEF RequestInv, AskDue, AskedAs, FirstAsk
<1>3. Newest.sent.auth = NoChallenge
  BY <1>1, <1>2, NumberedSame DEF NoAuthorization
<1> QED BY <1>3, StatusPlain DEF Bears, NoAuthorization

LEMMA RetryPath ==
    ASSUME FlowInv, RequestInv, Waiting, flowPc # "initial"
    PROVE  Newest.sent.path = Case.path /\ CaseAt(Newest.sent.path) = Case
<1>1. Newest.sent.path = Case.path
  BY DEF RequestInv, AskDue, AskedAs, RetryAsk
<1> QED BY <1>1, LastRequest

(* A request of a replay case with a credential.                           *)
LEMMA ReplayAsked ==
    ASSUME FlowInv, RequestInv, Waiting, ReplaySent(Newest.sent)
    PROVE  /\ flowPc # "initial" /\ "concurrent_replay" \in Case.has
           /\ Kind(Case) = "payment" /\ PaidFor(Case) /\ "json_rpc" \notin Case.has
           /\ Newest.sent.client = Client.name
<1>1. flowPc # "initial"
  BY FirstUnpaid DEF ReplaySent
<1>2. "concurrent_replay" \in Case.has /\ Case \in Cases
  BY <1>1, RetryPath, LastRequest DEF ReplaySent, Replay
<1>3. Kind(Case) = "payment" /\ (Pays(Case) => PaidFor(Case))
  BY <1>2, ReplayCase
<1>4. Pays(Case) /\ Newest.sent.client = Client.name
  BY <1>1, <1>3 DEF RequestInv
<1>5. "json_rpc" \notin Case.has
  BY <1>2, CasesAssumption
<1> QED BY <1>1, <1>2, <1>3, <1>4, <1>5

(* The cases of an order have names and paths of their own.                *)
LEMMA OrderDistinct ==
    ASSUME FlowInv, Undisturbed, NEW j \in 1..Len(Order), NEW k \in 1..Len(Order)
    PROVE  /\ Order[j].name = Order[k].name => j = k
           /\ Order[j].path = Order[k].path => j = k
<1>1. Order \in Seq(Cases)
  BY OrdersTyped DEF FlowInv
<1>2. Order = goldenOrder
  BY DEF Order, Undisturbed, FlowInv, FlowTypes
<1>3. Order \in GoldenOrders
  BY <1>2 DEF FlowInv, FlowTypes
<1>4. Order[j].name = Order[k].name => j = k
  BY <1>3, FlowAssumption
<1>5. Order[j] \in Cases /\ Order[k] \in Cases
  BY <1>1
<1>6. Order[j].path = Order[k].path => Order[j] = Order[k]
  BY <1>5, CasesAssumption
<1> QED BY <1>4, <1>6

LEMMA RetryUnseen ==
    ASSUME FlowInv, MapsInv, SendersInv, RequestInv, Undisturbed, flowPc = "retry",
           ReplaySent(Newest.sent), ~Admitted(Newest)
    PROVE  ReplayKey(Newest.sent) \notin seenAuthorization
<1> SUFFICES ASSUME ReplayKey(Newest.sent) \in seenAuthorization PROVE FALSE
  OBVIOUS
<1> DEFINE n == Len(requests)
<1>1. Waiting /\ InACase
  BY DEF Waiting, InACase
<1>2. n \in 1..Len(requests) /\ Newest = requests[n]
  BY <1>1, LastRequest
<1>3. PICK j \in 1..Len(requests) : SeenIn(ReplayKey(Newest.sent), requests[j])
  BY DEF MapsInv
<1>4. j # n /\ ReplaySent(requests[j].sent)
  BY <1>2, <1>3 DEF SeenIn
<1>5. requests[j].sent.client = Newest.sent.client /\ requests[j].sent.auth = Newest.sent.auth
  BY <1>3 DEF SeenIn, ReplayKey
<1>6. Newest.sent.client = Client.name
  BY <1>1, ReplayAsked
<1>7. \A i \in 1..Len(requests) : ReplaySent(requests[i].sent)
         /\ requests[i].sent.client = Client.name =>
           /\ requests[i].sent.auth.path = requests[i].sent.path
           /\ \E k \in 1..Len(Order) :
                /\ k <= caseNo /\ Order[k].path = requests[i].sent.path
                /\ k = caseNo => \/ flowPc = "again"
                                 \/ (flowPc = "retry" /\ i = Len(requests))
  BY <1>1 DEF SendersInv
<1>8. requests[j].sent.path = Newest.sent.path
  <2>1. Newest.sent.auth.path = Newest.sent.path
    BY <1>2, <1>6, <1>7
  <2>2. requests[j].sent.auth.path = requests[j].sent.path
    BY <1>4, <1>5, <1>6, <1>7
  <2> QED BY <1>5, <2>1, <2>2
<1>9. PICK k \in 1..Len(Order) : Order[k].path = requests[j].sent.path /\ k # caseNo
  BY <1>4, <1>5, <1>6, <1>7
<1>10. Newest.sent.path = Order[caseNo].path
  BY <1>1, RetryPath DEF Case
<1>11. caseNo \in 1..Len(Order)
  BY <1>1, LastRequest
<1> QED BY <1>8, <1>9, <1>10, <1>11, OrderDistinct

(* A credential is not sounder than the challenge of the case.             *)
LEMMA CredentialKnown ==
    ASSUME FlowInv, RequestInv, Waiting, Newest.sent.auth.sound,
           Newest.sent.auth.path = Newest.sent.path
    PROVE  acceptPaymentByPath[Newest.sent.path] # "unset"
<1> DEFINE q == Newest.sent
           ask == RetryAsk(Case)
           owed == Owed(Case)
<1>1. flowPc # "initial"
  BY FirstUnpaid
<1>2. Numbered(q.auth, ask.auth) /\ Numbered(challenge, owed)
  BY <1>1 DEF RequestInv, AskDue, AskedAs
<1>3. q.auth \in ChallengeType /\ challenge \in ChallengeType
  BY LastRequest DEF FlowInv, FlowTypes
<1>4. ask.auth.sound /\ ask.auth.path = q.path
  BY <1>2, <1>3, NumberedSame
<1>5. owed.path = challenge.path /\ owed.sound = challenge.sound /\ owed \in ChallengeType
  BY <1>2, <1>3, NumberedSame
<1>6. ask.auth.path = owed.path /\ owed.sound
  <2>1. ask.auth = owed \/ ask.auth = Tampered(Case, owed)
    BY DEF RetryAsk
  <2>2. ASSUME ask.auth = Tampered(Case, owed) PROVE ask.auth.path = owed.path /\ owed.sound
    <3>1. "skip_authorization" \notin Case.has
      BY <1>4, <2>2, StatusPlain DEF Tampered, NoAuthorization
    <3>2. ask.auth = [owed EXCEPT !.sound = @ /\ "tamper" \notin Case.has]
      BY <2>2, <3>1 DEF Tampered
    <3> HIDE DEF ask, owed
    <3> QED BY <1>4, <1>5, <3>2 DEF ChallengeType
  <2> QED BY <1>4, <2>1, <2>2
<1>7. challenge.sound => acceptPaymentByPath[challenge.path] # "unset"
  BY <1>1 DEF RequestInv
<1> HIDE DEF ask, owed
<1> QED BY <1>4, <1>5, <1>6, <1>7

LEMMA LastForeseen ==
    ASSUME FlowInv, MapsInv, SendersInv, RequestInv, Undisturbed, Waiting,
           Newest.at \in {"sent", "body", "charge"}
    PROVE  \E seen \in BOOLEAN : /\ Foreseen(Len(requests), AskDue(Case), seen)
                                 /\ AnswerTo(AskDue(Case), seen) = AnswerDue(Case)
<1> DEFINE n == Len(requests)
           q == Newest.sent
<1>1. Newest = requests[n]
  BY LastRequest
<1>2. AskedAs(q, AskDue(Case))
  BY DEF RequestInv
<1>3. q.auth.sound /\ q.auth.path = q.path => acceptPaymentByPath[q.path] # "unset"
  BY CredentialKnown
<1>4. ASSUME NEW seen \in BOOLEAN,
             (seen <=> (Newest.at # "charge" /\ Replayed(q))) \/ Rejected(q)
      PROVE  Foreseen(n, AskDue(Case), seen)
  BY <1>1, <1>2, <1>3, <1>4 DEF Foreseen
<1>5. CASE flowPc = "initial"
  <2>1. ~Replayed(q)
    BY <1>5, FirstUnpaid DEF Replayed, ReplaySent
  <2>2. Foreseen(n, AskDue(Case), FALSE)
    BY <1>4, <2>1
  <2>3. AnswerTo(AskDue(Case), FALSE) = AnswerDue(Case)
    BY <1>5 DEF AskDue, AnswerDue, FirstAnswer
  <2> QED BY <2>2, <2>3
<1>6. CASE flowPc = "retry"
  <2>1. ~(Newest.at # "charge" /\ Replayed(q))
    <3> SUFFICES ASSUME Newest.at # "charge", Replayed(q) PROVE FALSE
      OBVIOUS
    <3>1. ~Admitted(Newest)
      BY DEF Admitted
    <3> QED BY <1>6, <3>1, RetryUnseen DEF Replayed
  <2>2. Foreseen(n, AskDue(Case), FALSE)
    BY <1>4, <2>1
  <2>3. AnswerTo(AskDue(Case), FALSE) = AnswerDue(Case)
    BY <1>6 DEF AskDue, AnswerDue, RetryAnswer
  <2> QED BY <2>2, <2>3
<1>7. CASE flowPc = "again"
  <2> DEFINE ask == RetryAsk(Case)
  <2>1. Bears(q) <=> Bears(ask)
    <3>1. AskedAs(q, ask)
      BY <1>2, <1>7 DEF AskDue
    <3> QED BY <3>1, SameAsked, LastRequest DEF SameFor
  <2>2. (Bears(q) <=> (Newest.at # "charge" /\ Replayed(q))) \/ Rejected(q)
    <3>1. CASE ~Bears(q)
      BY <3>1 DEF Replayed, ReplaySent
    <3>2. CASE Bears(q) /\ ~Rejected(q)
      <4>1. Replay(q)
        BY <1>7, RetryPath DEF RequestInv, Replay
      <4>2. Newest.at # "charge"
        BY <1>7, <3>2 DEF RequestInv
      <4>3. ReplaySent(q)
        BY <3>2, <4>1 DEF ReplaySent
      <4>4. ReplayKey(q) \in seenAuthorization
        BY <1>7, <3>2, <4>3 DEF RequestInv
      <4> QED BY <3>2, <4>2, <4>3, <4>4 DEF Replayed
    <3> QED BY <3>1, <3>2
  <2>3. PICK seen \in BOOLEAN : seen <=> Bears(ask)
    <3>1. Bears(ask) \in BOOLEAN
      BY DEF Bears
    <3> QED BY <3>1
  <2>4. Foreseen(n, AskDue(Case), seen)
    BY <1>4, <2>1, <2>2, <2>3
  <2>5. AnswerTo(AskDue(Case), seen) = AnswerDue(Case)
    <3>1. seen = Bears(ask)
      BY <2>3 DEF Bears
    <3>2. AskDue(Case) = ask /\ AnswerDue(Case) = AnswerTo(ask, Bears(ask))
      BY <1>7 DEF AskDue, AnswerDue, AgainAnswer
    <3> QED BY ONLY <3>1, <3>2
  <2> QED BY <2>4, <2>5
<1> QED BY <1>5, <1>6, <1>7 DEF Waiting

(* The runner waits: nothing of its own changes.                           *)
RunnerStays == UNCHANGED <<flowPc, caseNo, challenge, first, reports, deviated, mainVars>>

LEMMA WhatStays ==
    ASSUME RunnerStays
    PROVE  /\ Case' = Case /\ Client' = Client /\ Order' = Order
           /\ (Waiting' <=> Waiting) /\ (InACase' <=> InACase) /\ (Undisturbed' <=> Undisturbed)
           /\ flowPc' = flowPc /\ challenge' = challenge /\ first' = first
           /\ caseNo' = caseNo /\ adapterNo' = adapterNo /\ flowMode' = flowMode
<1>1. /\ flowPc' = flowPc /\ challenge' = challenge /\ first' = first /\ caseNo' = caseNo
      /\ adapterNo' = adapterNo /\ flowMode' = flowMode /\ goldenOrder' = goldenOrder
      /\ deviated' = deviated
  BY DEF RunnerStays, mainVars
<1>2. Order' = Order /\ Client' = Client
  BY <1>1 DEF Order, Client
<1>3. Case' = Case
  BY <1>1, <1>2 DEF Case
<1>4. (Waiting' <=> Waiting) /\ (InACase' <=> InACase) /\ (Undisturbed' <=> Undisturbed)
  BY <1>1 DEF Waiting, InACase, Undisturbed
<1> QED BY <1>1, <1>2, <1>3, <1>4

LEMMA EffectSenders ==
    ASSUME SendersInv, ServerTypes, RunnerStays, NEW i \in 1..Len(requests), Effect(i)
    PROVE  SendersInv'
<1> DEFINE n == Len(requests)
<1>1. Len(requests') = n /\ \A k \in 1..n : requests'[k].sent = requests[k].sent
  BY EffectKeeps
<1>2. flowPc' # "wait"
  <2> SUFFICES ASSUME flowPc' = "wait" PROVE FALSE
    OBVIOUS
  <2>1. requests = <<>>
    BY WhatStays DEF SendersInv
  <2> QED BY <2>1
<1>3. (flowPc = "adapter" => \A k \in 1..n : ReplaySent(requests[k].sent) =>
         /\ flowMode = "check"
         /\ \E a \in 1..Len(Adapters) : a < adapterNo
                                        /\ requests[k].sent.client = Adapters[a].name)'
  BY <1>1, WhatStays DEF SendersInv
<1>4. (InACase /\ flowMode = "check" => \A k \in 1..n : ReplaySent(requests[k].sent) =>
         \E a \in 1..Len(Adapters) : a <= adapterNo
                                     /\ requests[k].sent.client = Adapters[a].name)'
  BY <1>1, WhatStays DEF SendersInv
<1>5. (InACase /\ Undisturbed => \A k \in 1..n :
         ReplaySent(requests[k].sent) /\ requests[k].sent.client = Client.name =>
           /\ requests[k].sent.auth.path = requests[k].sent.path
           /\ \E j \in 1..Len(Order) :
                /\ j <= caseNo /\ Order[j].path = requests[k].sent.path
                /\ j = caseNo => \/ flowPc = "again"
                                 \/ (flowPc = "retry" /\ k = Len(requests)))'
  BY <1>1, WhatStays DEF SendersInv
<1> QED BY <1>1, <1>2, <1>3, <1>4, <1>5 DEF SendersInv

LEMMA RecordStays ==
    ASSUME RecordInv, RunnerStays, nonces' = nonces, server' = server \/ server' # "dead"
    PROVE  RecordInv'
<1>1. golden' = golden /\ goldenOrder' = goldenOrder /\ reports' = reports /\ deviated' = deviated
      /\ flowMode' = flowMode
  BY DEF RunnerStays, mainVars
<1>2. \A r, order, n, numbered, http :
        OnRecord(r, order, n, numbered, http)' <=> OnRecord(r, order, n, numbered, http)
  OBVIOUS
<1> QED BY <1>1, <1>2, WhatStays DEF RecordInv

LEMMA PassStays == ASSUME FaithfulAdaptersPass, RunnerStays PROVE FaithfulAdaptersPass'
BY DEF FaithfulAdaptersPass, RunnerStays, mainVars

(* The request under way after a step of the server.                       *)
LEMMA EffectLast ==
    ASSUME FlowInv, Waiting, RunnerStays, NEW i \in 1..Len(requests), Effect(i)
    PROVE  /\ Newest' = requests'[Len(requests)] /\ Newest'.sent = Newest.sent
           /\ Answer' = Newest'.response /\ (Arrived' <=> Newest'.at = "done")
           /\ i # Len(requests) => Newest' = Newest
           /\ Answer = Newest.response /\ (Arrived <=> Newest.at = "done")
BY EffectKeeps, LastRequest DEF Newest, Answer, Arrived

LEMMA EffectAnswer ==
    ASSUME FlowInv, MapsInv, SendersInv, RequestInv, Undisturbed, Waiting, RunnerStays,
           nonces' = nonces, NEW i \in 1..Len(requests), Effect(i)
    PROVE  Arrived' => AnsweredAs(Answer', AnswerDue(Case))
<1> SUFFICES ASSUME Arrived' PROVE AnsweredAs(Answer', AnswerDue(Case))
  OBVIOUS
<1>1. CASE i # Len(requests)
  <2>1. Newest' = Newest
    BY <1>1, EffectLast
  <2>2. Arrived /\ Answer' = Answer
    BY <2>1, EffectLast
  <2> QED BY <2>2 DEF RequestInv
<1>2. CASE i = Len(requests)
  <2>1. ~MovesOn(i) /\ ~Admits(i)
    BY <1>2, EffectLast DEF MovesOn, Admits, Becomes
  <2>2. PICK x : AnswersWith(i, x)
    BY <2>1 DEF Effect
  <2>3. Answer' = x
    BY <1>2, <2>2, EffectLast DEF AnswersWith, Becomes
  <2>4. Newest.at \in {"sent", "body", "charge"}
    BY <1>2, <2>2, LastRequest DEF AnswersWith
  <2>5. PICK seen \in BOOLEAN : /\ Foreseen(i, AskDue(Case), seen)
                                /\ AnswerTo(AskDue(Case), seen) = AnswerDue(Case)
    BY <1>2, <2>4, LastForeseen
  <2>6. AnsweredAs(x, AnswerTo(AskDue(Case), seen))
    BY <2>2, <2>5 DEF AnswersWith, Told
  <2> QED BY ONLY <2>3, <2>5, <2>6
<1> QED BY <1>1, <1>2

(* What the server knows of the credential of the request under way.       *)
LEMMA EffectCredential ==
    ASSUME FlowInv, MapsInv, SendersInv, RequestInv, Undisturbed, Waiting, RunnerStays,
           NEW i \in 1..Len(requests), Effect(i)
    PROVE  /\ flowPc = "again" /\ Newest'.at = "charge" => ~Bears(Newest.sent)
           /\ ReplaySent(Newest.sent) /\ ~Rejected(Newest.sent)
                /\ (flowPc = "again" \/ Admitted(Newest')) =>
                ReplayKey(Newest.sent) \in seenAuthorization'
<1>1. CASE i # Len(requests)
  BY <1>1, EffectLast, EffectKeeps DEF RequestInv
<1>2. CASE i = Len(requests)
  <2>1. Newest = requests[i] /\ Newest' = requests'[i]
    BY <1>2, LastRequest, EffectLast
  <2>2. ASSUME flowPc = "again", Newest'.at = "charge", Bears(Newest.sent) PROVE FALSE
    <3>1. Admits(i)
      BY <2>1, <2>2 DEF Effect, MovesOn, AnswersWith, Becomes
    <3>2. ~Rejected(Newest.sent) /\ ~Replayed(Newest.sent)
      BY <2>1, <3>1 DEF Admits
    <3>3. ReplaySent(Newest.sent)
      BY <2>2, RetryPath DEF RequestInv, ReplaySent, Replay
    <3> QED BY <2>2, <3>2, <3>3 DEF RequestInv, Replayed
  <2>3. ASSUME ReplaySent(Newest.sent), ~Rejected(Newest.sent), flowPc = "again" \/ Admitted(Newest')
        PROVE  ReplayKey(Newest.sent) \in seenAuthorization'
    <3>1. CASE flowPc = "again" \/ Admitted(Newest)
      BY <2>3, <3>1, EffectKeeps DEF RequestInv
    <3>2. CASE ~Admitted(Newest) /\ Admitted(Newest')
      <4>1. ~MovesOn(i)
        BY <2>1, <3>2 DEF MovesOn, Becomes, Admitted
      <4>2. CASE Admits(i)
        BY <2>1, <2>3, <4>2 DEF Admits
      <4>3. ASSUME NEW x, AnswersWith(i, x)
            PROVE  ReplayKey(Newest.sent) \in seenAuthorization'
        <5>1. /\ PaidFor(CaseAt(Newest.sent.path)) /\ "json_rpc" \notin CaseAt(Newest.sent.path).has
          BY <2>3, ReplayAsked, RetryPath
        <5>2. Newest.at # "charge"
          BY <3>2 DEF Admitted
        <5>3. Replayed(Newest.sent)
          BY <2>1, <2>3, <4>3, <5>1, <5>2 DEF AnswersWith
        <5> QED BY <5>3, EffectKeeps DEF Replayed
      <4> QED BY <4>1, <4>2, <4>3 DEF Effect
    <3> QED BY <2>3, <3>1, <3>2
  <2> QED BY <2>2, <2>3
<1> QED BY <1>1, <1>2

LEMMA EffectRequest ==
    ASSUME FlowInv, MapsInv, SendersInv, RequestInv, Undisturbed, Waiting, RunnerStays,
           nonces' = nonces, NEW i \in 1..Len(requests), Effect(i)
    PROVE  RequestInv'
<1>1. /\ Case' = Case /\ Client' = Client /\ flowPc' = flowPc /\ challenge' = challenge
      /\ first' = first /\ Newest'.sent = Newest.sent
  BY WhatStays, EffectLast
<1>2. ("server_only" \notin Case.has /\ Case.challengePath \in Paths
       /\ (Kind(Case) = "client_flow" => Client.http)
       /\ (Kind(Case) \in {"no_payment", "payment"} => Newest.sent.client = Client.name))'
  BY <1>1 DEF RequestInv
<1>3. AskedAs(Newest.sent, AskDue(Case))'
  BY <1>1 DEF RequestInv, AskedAs, AskDue, Numbered
<1>4. (Arrived => AnsweredAs(Answer, AnswerDue(Case)))'
  <2> SUFFICES ASSUME Arrived' PROVE AnsweredAs(Answer, AnswerDue(Case))'
    OBVIOUS
  <2>1. AnsweredAs(Answer', AnswerDue(Case))
    BY EffectAnswer
  <2> QED BY <1>1, <2>1 DEF AnsweredAs, AnswerDue, Numbered
<1>5. (flowPc # "initial" =>
         /\ Numbered(challenge, Owed(Case))
         /\ challenge.sound => challenge.path \in Paths
                               /\ acceptPaymentByPath[challenge.path] # "unset"
         /\ Kind(Case) # "json_rpc" => Kind(Case) \in {"payment", "client_flow"} /\ Pays(Case)
                                       /\ Newest.sent.auth = Authorization(challenge))'
  <2> SUFFICES ASSUME flowPc # "initial"
               PROVE  (/\ Numbered(challenge, Owed(Case))
                       /\ challenge.sound => challenge.path \in Paths
                                             /\ acceptPaymentByPath[challenge.path] # "unset"
                       /\ Kind(Case) # "json_rpc" =>
                            Kind(Case) \in {"payment", "client_flow"} /\ Pays(Case)
                            /\ Newest.sent.auth = Authorization(challenge))'
    BY <1>1
  <2>1. Numbered(challenge, Owed(Case))'
    BY <1>1 DEF RequestInv, Numbered
  <2>2. (challenge.sound => challenge.path \in Paths
                            /\ acceptPaymentByPath[challenge.path] # "unset")'
    <3>1. challenge.sound => challenge.path \in Paths
                             /\ acceptPaymentByPath[challenge.path] # "unset"
      BY DEF RequestInv
    <3>2. \A p \in Paths : acceptPaymentByPath[p] # "unset" => acceptPaymentByPath'[p] # "unset"
      BY EffectPathMaps DEF FlowInv
    <3> QED BY <1>1, <3>1, <3>2
  <2>3. (Kind(Case) # "json_rpc" => Kind(Case) \in {"payment", "client_flow"} /\ Pays(Case)
                                    /\ Newest.sent.auth = Authorization(challenge))'
    BY <1>1 DEF RequestInv, Authorization
  <2> QED BY <2>1, <2>2, <2>3
<1>6. (flowPc = "again" => /\ Kind(Case) = "payment" /\ "concurrent_replay" \in Case.has
                           /\ first = RetryAnswer(Case).status)'
  BY <1>1 DEF RequestInv
<1>7. (/\ flowPc = "again" /\ Newest.at = "charge" => ~Bears(Newest.sent)
       /\ ReplaySent(Newest.sent) /\ ~Rejected(Newest.sent) /\ (flowPc = "again" \/ Admitted(Newest)) =>
            ReplayKey(Newest.sent) \in seenAuthorization)'
  BY <1>1, EffectCredential
<1> QED BY <1>2, <1>3, <1>4, <1>5, <1>6, <1>7 DEF RequestInv

LEMMA ServerHandlesFaith == ASSUME FlowInv, FaithInv, ServerHandles PROVE FaithInv'
<1>1. RunnerStays /\ ServerStep
  BY DEF ServerHandles, RunnerStays
<1>2. ServerTypes /\ MapsInv /\ SendersInv /\ RecordInv /\ FaithfulAdaptersPass
  BY DEF FlowInv, FaithInv
<1>3. PICK i \in 1..Len(requests) : Effect(i)
  BY <1>1, <1>2, ServerEffect
<1>4. server' = server /\ nonces' = nonces
  BY <1>1, <1>2, ServerEffect
<1>5. MapsInv' /\ SendersInv' /\ RecordInv' /\ FaithfulAdaptersPass'
  BY <1>1, <1>2, <1>3, <1>4, EffectMaps, EffectSenders, RecordStays, PassStays
<1>6. Waiting' /\ Undisturbed' => RequestInv'
  <2>1. Waiting' /\ Undisturbed' => Waiting /\ Undisturbed
    BY <1>1, WhatStays
  <2>2. Waiting /\ Undisturbed => RequestInv'
    BY <1>1, <1>2, <1>3, <1>4, EffectRequest DEF FaithInv
  <2> QED BY <2>1, <2>2
<1> QED BY <1>5, <1>6 DEF FaithInv

(* What goes wrong is never forgotten.                                     *)
Grows == deviated' = deviated \/ \E who \in Nat : Deviates(who)

LEMMA DeviationsGrow ==
    ASSUME deviated \in Seq(Nat), Grows
    PROVE  /\ deviated' \in Seq(Nat)
           /\ \A i \in 1..Len(deviated) :
                i \in 1..Len(deviated') /\ deviated'[i] = deviated[i]
           /\ flowMode = "update" => deviated' = deviated
<1>1. CASE deviated' = deviated
  BY <1>1
<1>2. ASSUME NEW who \in Nat, Deviates(who)
      PROVE  /\ deviated' \in Seq(Nat) /\ flowMode # "update"
             /\ \A i \in 1..Len(deviated) :
                  i \in 1..Len(deviated') /\ deviated'[i] = deviated[i]
  <2>1. deviated' = Append(deviated, who) /\ flowMode = "check"
    BY <1>2 DEF Deviates
  <2>2. Len(deviated) \in Nat /\ Len(deviated') = Len(deviated) + 1
    BY <2>1, AppendProperties
  <2> QED BY <2>1, <2>2, AppendProperties
<1> QED BY <1>1, <1>2 DEF Grows

LEMMA DeviationNoted ==
    ASSUME deviated \in Seq(Nat), NEW who \in Nat, Deviates(who)
    PROVE  Grows /\ \E i \in 1..Len(deviated') : deviated'[i] = who
<1>1. deviated' = Append(deviated, who)
  BY DEF Deviates
<1>2. Len(deviated) \in Nat /\ Len(deviated') = Len(deviated) + 1
      /\ deviated'[Len(deviated) + 1] = who
  BY <1>1, AppendProperties
<1>3. Len(deviated) + 1 \in 1..Len(deviated')
  BY <1>2
<1> QED BY <1>2, <1>3 DEF Grows

LEMMA StillUndisturbed ==
    ASSUME deviated \in Seq(Nat), Grows, Undisturbed',
           flowMode' = flowMode, goldenOrder' = goldenOrder, adapterNo' = adapterNo
    PROVE  Undisturbed
BY DeviationsGrow DEF Undisturbed

LEMMA AdapterDeviates ==
    ASSUME FlowInv, deviated \in Seq(Nat), Deviates(adapterNo), adapterNo' = adapterNo
    PROVE  Grows /\ ~Undisturbed'
<1>1. adapterNo \in Nat
  BY DEF FlowInv, FlowTypes
<1>2. Grows /\ \E i \in 1..Len(deviated') : deviated'[i] = adapterNo
  BY <1>1, DeviationNoted
<1> QED BY <1>2 DEF Undisturbed

LEMMA PassKept ==
    ASSUME FaithfulAdaptersPass, deviated \in Seq(Nat), Grows,
           goldenOrder' = goldenOrder, flowResults' = flowResults
    PROVE  FaithfulAdaptersPass'
BY DeviationsGrow DEF FaithfulAdaptersPass

(* A step within a case records nothing.                                   *)
LEMMA RecordKept ==
    ASSUME RecordInv, Grows, InACase, InACase',
           UNCHANGED <<flowMode, goldenOrder, adapterNo, golden, reports, caseNo, nonces, server>>,
           flowPc' # "again" => first' = 0
    PROVE  RecordInv'
<1>1. /\ deviated' \in Seq(Nat)
      /\ \A i \in 1..Len(deviated) : i \in 1..Len(deviated') /\ deviated'[i] = deviated[i]
      /\ flowMode = "update" => deviated' = deviated
  BY DeviationsGrow DEF RecordInv
<1>2. Order' = Order /\ Client' = Client /\ flowPc' # "stop" /\ flowPc # "stop"
  BY DEF Order, Client, InACase
<1>3. Undisturbed' => Undisturbed
  BY StillUndisturbed DEF RecordInv
<1>4. (flowMode = "update" => deviated = <<>>)'
  BY <1>1 DEF RecordInv
<1>5. (server = "dead" => \E i \in 1..Len(deviated) : deviated[i] = 0)'
  BY <1>1 DEF RecordInv
<1>6. (flowMode = "check" => \A a \in 1..Len(Adapters) :
         a > adapterNo \/ (~InACase /\ a = adapterNo) => reports[a] = <<>>)'
  BY DEF RecordInv
<1>7. (flowMode = "check" \/ flowPc = "stop" => \E numbered \in BOOLEAN :
         /\ numbered => nonces
         /\ OnRecord(golden, goldenOrder, Len(goldenOrder) + 1, numbered, TRUE))'
  BY <1>2 DEF RecordInv
<1>8. (InACase /\ Undisturbed =>
         OnRecord(reports[adapterNo], Order, caseNo, nonces, Client.http))'
  BY <1>2, <1>3 DEF RecordInv
<1> QED BY <1>1, <1>4, <1>5, <1>6, <1>7, <1>8 DEF RecordInv

(* What Send() does.                                                       *)
IsSent(path, auth, retry, next) ==
    /\ MapsInv'
    /\ Len(requests) \in Nat /\ Len(requests') = Len(requests) + 1
    /\ \A k \in 1..Len(requests) : requests'[k] = requests[k]
    /\ Newest' = requests'[Len(requests')] /\ Newest'.at = "sent"
    /\ Newest'.sent.path = path /\ Newest'.sent.auth = auth
    /\ Newest'.sent.query = IF retry /\ "retry_query" \in Case.has THEN "retry" ELSE "initial"
    /\ Newest'.sent.body = IF retry /\ "retry_body" \in Case.has THEN "retry" ELSE "initial"
    /\ Kind(Case) \in {"no_payment", "payment"} => Newest'.sent.client = Client.name
    /\ Case' = Case /\ Client' = Client /\ Order' = Order /\ flowPc' = next
    /\ UNCHANGED <<seenAuthorization, acceptPaymentByPath, nonces, server>>
    /\ UNCHANGED <<caseNo, reports, flowMode, goldenOrder, adapterNo, golden, flowResults>>

LEMMA SendSent ==
    ASSUME FlowInv, MapsInv, InACase, InCase, NEW path \in Paths, NEW auth \in ChallengeType,
           NEW retry \in BOOLEAN, NEW next, Send(path, auth, retry, next)
    PROVE  IsSent(path, auth, retry, next)
<1>1. PICK q : q = [client |-> IF Kind(Case) \in {"no_payment", "payment"} THEN Client.name
                               ELSE "unknown",
                    path |-> path,
                    auth |-> auth,
                    query |-> IF retry /\ "retry_query" \in Case.has THEN "retry" ELSE "initial",
                    body |-> IF retry /\ "retry_body" \in Case.has THEN "retry" ELSE "initial",
                    accept |-> IF "accept_payment" \in CaseAt(path).has THEN "tempo" ELSE "none"]
  OBVIOUS
<1>2. /\ q.path = path /\ q.auth = auth
      /\ q.query = IF retry /\ "retry_query" \in Case.has THEN "retry" ELSE "initial"
      /\ q.body = IF retry /\ "retry_body" \in Case.has THEN "retry" ELSE "initial"
      /\ Kind(Case) \in {"no_payment", "payment"} => q.client = Client.name
      /\ q.accept = AcceptOf(q.path)
  BY <1>1 DEF AcceptOf
<1>3. q \in SentType
  <2>1. Client.name \in Text
    BY CaseSeen DEF Text
  <2> QED BY <1>1, <2>1 DEF SentType, Text
<1>4. /\ Receive(q) /\ flowPc' = next
      /\ UNCHANGED <<caseNo, reports, flowMode, goldenOrder, adapterNo, golden, flowResults>>
  BY <1>1 DEF Send, mainVars
<1>5. q.query \in {"initial", "retry"}
  BY <1>2
<1>6. ServerTypes
  BY DEF FlowInv
<1>7. /\ MapsInv'
      /\ Len(requests') = Len(requests) + 1 /\ Len(requests) \in Nat
      /\ \A k \in 1..Len(requests) : requests'[k] = requests[k]
      /\ requests'[Len(requests')].sent = q
      /\ requests'[Len(requests')].at = "sent"
  BY <1>2, <1>3, <1>4, <1>5, <1>6, ReceiveMaps
<1>8. UNCHANGED <<seenAuthorization, acceptPaymentByPath, nonces, server>>
  BY <1>4 DEF Receive
<1>9. Order' = Order /\ Client' = Client
  BY <1>4 DEF Order, Client
<1>10. Case' = Case
  BY <1>4, <1>9 DEF Case
<1>11. Newest' = requests'[Len(requests')]
  BY DEF Newest
<1> QED BY <1>2, <1>4, <1>7, <1>8, <1>9, <1>10, <1>11 DEF IsSent

LEMMA SendSenders ==
    ASSUME FlowInv, SendersInv, RecordInv, Grows, InACase, InCase,
           NEW path \in Paths, NEW auth \in ChallengeType,
           NEW retry, NEW next \in {"initial", "retry", "again"}, IsSent(path, auth, retry, next),
           flowPc # "again", flowPc = "retry" => next = "again",
           ReplaySent(Newest'.sent) =>
             /\ Kind(Case) = "payment" /\ next # "initial" /\ path = Case.path
             /\ Undisturbed' => auth.path = path
    PROVE  SendersInv'
<1> DEFINE n == Len(requests) + 1
<1>1. /\ Len(requests) \in Nat /\ Len(requests') = n /\ Newest' = requests'[n]
      /\ \A k \in 1..Len(requests) : requests'[k] = requests[k]
      /\ Newest'.sent.path = path /\ Newest'.sent.auth = auth
      /\ Kind(Case) = "payment" => Newest'.sent.client = Client.name
      /\ Case' = Case /\ Client' = Client /\ Order' = Order /\ flowPc' = next
      /\ UNCHANGED <<caseNo, flowMode, goldenOrder, adapterNo>>
  BY DEF IsSent
<1>2. \A k \in 1..n : k \in 1..Len(requests) \/ k = n
  BY <1>1
<1>3. flowPc' # "wait" /\ flowPc' # "adapter"
  BY <1>1
<1>4. Undisturbed' => Undisturbed
  BY <1>1, StillUndisturbed DEF RecordInv
<1>5. caseNo \in 1..Len(Order) /\ adapterNo \in 1..Len(Adapters)
      /\ (flowMode = "check" => Client = Adapters[adapterNo])
      /\ caseNo \in Nat /\ adapterNo \in Nat
  BY CaseSeen DEF FlowInv, FlowTypes
<1>6. ASSUME flowMode = "check", NEW k \in 1..n, ReplaySent(requests'[k].sent)
      PROVE  \E a \in 1..Len(Adapters) : a <= adapterNo
                                         /\ requests'[k].sent.client = Adapters[a].name
  <2>1. CASE k \in 1..Len(requests)
    BY <1>1, <1>6, <2>1 DEF SendersInv
  <2>2. CASE k = n
    <3>1. requests'[k].sent.client = Adapters[adapterNo].name
      BY <1>1, <1>5, <1>6, <2>2
    <3> QED BY <1>5, <3>1
  <2> QED BY <1>2, <2>1, <2>2
<1>7. ASSUME Undisturbed', NEW k \in 1..n, ReplaySent(requests'[k].sent),
             requests'[k].sent.client = Client.name
      PROVE  /\ requests'[k].sent.auth.path = requests'[k].sent.path
             /\ \E j \in 1..Len(Order) :
                  /\ j <= caseNo /\ Order[j].path = requests'[k].sent.path
                  /\ j = caseNo => next = "again" \/ (next = "retry" /\ k = n)
  <2>1. CASE k \in 1..Len(requests)
    <3>1. requests'[k] = requests[k] /\ k # n
      BY <1>1, <2>1
    <3>2. /\ requests[k].sent.auth.path = requests[k].sent.path
          /\ \E j \in 1..Len(Order) :
               /\ j <= caseNo /\ Order[j].path = requests[k].sent.path
               /\ j = caseNo => flowPc = "again" \/ (flowPc = "retry" /\ k = Len(requests))
      BY <1>4, <1>7, <2>1, <3>1 DEF SendersInv
    <3>3. PICK j \in 1..Len(Order) :
               /\ j <= caseNo /\ Order[j].path = requests[k].sent.path
               /\ j = caseNo => flowPc = "again" \/ (flowPc = "retry" /\ k = Len(requests))
      BY <3>2
    <3>4. j = caseNo => next = "again"
      BY <3>3
    <3> QED BY <3>1, <3>2, <3>3, <3>4
  <2>2. CASE k = n
    <3>1. path = Case.path /\ auth.path = path /\ next # "initial"
      BY <1>1, <1>7, <2>2
    <3>2. Order[caseNo].path = requests'[k].sent.path
      BY <1>1, <2>2, <3>1 DEF Case
    <3>3. next = "again" \/ (next = "retry" /\ k = n)
      BY <2>2, <3>1
    <3>4. caseNo <= caseNo
      BY <1>5
    <3> QED BY <1>1, <1>5, <2>2, <3>1, <3>2, <3>3, <3>4
  <2> QED BY <1>2, <2>1, <2>2
<1>8. (InACase /\ flowMode = "check" => \A k \in 1..Len(requests) : ReplaySent(requests[k].sent) =>
         \E a \in 1..Len(Adapters) : a <= adapterNo
                                     /\ requests[k].sent.client = Adapters[a].name)'
  BY <1>1, <1>6
<1>9. (InACase /\ Undisturbed => \A k \in 1..Len(requests) :
         ReplaySent(requests[k].sent) /\ requests[k].sent.client = Client.name =>
           /\ requests[k].sent.auth.path = requests[k].sent.path
           /\ \E j \in 1..Len(Order) :
                /\ j <= caseNo /\ Order[j].path = requests[k].sent.path
                /\ j = caseNo => \/ flowPc = "again"
                                 \/ (flowPc = "retry" /\ k = Len(requests)))'
  BY <1>1, <1>7
<1> QED BY <1>3, <1>8, <1>9 DEF SendersInv

(* What a reader of an answer that was foreseen learns.                    *)
LEMMA AnswerSame ==
    ASSUME NEW r \in ResponseType, NEW a, AnsweredAs(r, a)
    PROVE  /\ r.status = a.status /\ r.receipt = a.receipt
           /\ r.challenge = NoChallenge <=> a.challenge = NoChallenge
<1>1. PICK s : s = [r EXCEPT !.challenge = NoChallenge]
  OBVIOUS
<1>2. s = [a EXCEPT !.challenge = NoChallenge]
  BY <1>1 DEF AnsweredAs
<1>3. /\ DOMAIN s = DOMAIN r /\ s.status = r.status /\ s.receipt = r.receipt
      /\ "status" \in DOMAIN r /\ "receipt" \in DOMAIN r
  BY <1>1 DEF ResponseType
<1>4. DOMAIN s = DOMAIN a
  BY <1>2
<1>5. s.status = a.status /\ s.receipt = a.receipt
  BY <1>2, <1>3, <1>4
<1>6. r.challenge \in ChallengeType /\ Numbered(r.challenge, a.challenge)
  BY DEF ResponseType, AnsweredAs
<1> QED BY <1>3, <1>5, <1>6, NumberedSame

(* Tampering with a credential leaves its id alone.                        *)
LEMMA TamperedNumbered ==
    ASSUME NEW ch \in ChallengeType, NEW owed, Numbered(ch, owed)
    PROVE  Numbered(Authorization(ch), Tampered(Case, owed))
<1>1. owed = [ch EXCEPT !.id = 0] /\ (ch.id # 0 <=> (nonces /\ owed.query # ""))
  BY DEF Numbered
<1>2. CASE "skip_authorization" \in Case.has
  <2>1. Authorization(ch) = NoChallenge /\ Tampered(Case, owed) = NoChallenge
    BY <1>2 DEF Authorization, Tampered, NoAuthorization
  <2>2. [NoChallenge EXCEPT !.id = 0] = NoChallenge
    BY ResponsesTyped, StatusPlain DEF ChallengeType
  <2> QED BY <2>1, <2>2, StatusPlain DEF Numbered
<1>3. CASE "skip_authorization" \notin Case.has
  <2>1. PICK b \in BOOLEAN : b = (ch.sound /\ "tamper" \notin Case.has)
    OBVIOUS
  <2>2. owed.sound = ch.sound /\ owed \in ChallengeType /\ owed.query = ch.query
    BY <1>1 DEF ChallengeType
  <2>3. Authorization(ch) = [ch EXCEPT !.sound = b]
    BY <1>3, <2>1 DEF Authorization
  <2>4. Tampered(Case, owed) = [owed EXCEPT !.sound = b]
    BY <1>3, <2>1, <2>2 DEF Tampered
  <2>5. PICK x : x = [ch EXCEPT !.sound = b]
    OBVIOUS
  <2>6. PICK y : y = [owed EXCEPT !.sound = b]
    OBVIOUS
  <2>7. [x EXCEPT !.id = 0] = y
    BY <1>1, <2>5, <2>6 DEF ChallengeType
  <2>8. x.id = ch.id /\ y.query = owed.query
    BY <2>2, <2>5, <2>6 DEF ChallengeType
  <2>9. Numbered(x, y)
    BY <1>1, <2>7, <2>8 DEF Numbered
  <2> QED BY <2>3, <2>4, <2>5, <2>6, <2>9
<1> QED BY <1>2, <1>3

(* The challenge of a replay case is for its own path.                     *)
LEMMA OwedPath ==
    ASSUME NEW c \in Cases, "concurrent_replay" \in c.has, Pays(c)
    PROVE  Owed(c).path = c.path
<1> DEFINE q == FirstAsk(c)
           made == [id |-> 0, path |-> q.path, query |-> q.query, body |-> q.body,
                    sound |-> "invalid_challenge_id" \notin CaseAt(q.path).has]
<1>1. PaidFor(c) /\ q.path = c.path /\ CaseAt(q.path) = c /\ "json_rpc" \notin c.has
  BY ReplayCase, PathOfCase, CasesAssumption DEF FirstAsk
<1>2. ~Bears(q) /\ ~Rejected(q) /\ ~Verified(q)
  BY StatusPlain DEF FirstAsk, Bears, Rejected, Verified, NoAuthorization
<1>3. FirstAnswer(c) = IssuedFor(q)
  BY <1>1, <1>2 DEF FirstAnswer, AnswerTo, Charged
<1>4. PICK ch : ch = IF "invalid_www_authenticate" \in CaseAt(q.path).has THEN NoChallenge
                     ELSE made
  OBVIOUS
<1>5. IssuedFor(q) = [Status(402) EXCEPT !.challenge = ch,
                        !.problem = "expect_problem_details" \in CaseAt(q.path).has]
  BY <1>4 DEF IssuedFor
<1>6. PICK z : z = Status(402)
  OBVIOUS
<1>7. PICK b : b = ("expect_problem_details" \in CaseAt(q.path).has)
  OBVIOUS
<1>8. z \in ResponseType
  BY <1>6, ResponsesTyped
<1>9. IssuedFor(q) = [z EXCEPT !.challenge = ch, !.problem = b]
  BY ONLY <1>5, <1>6, <1>7
<1>10. IssuedFor(q).challenge = ch
  BY ONLY <1>8, <1>9 DEF ResponseType
<1>11. Owed(c) = ch
  BY <1>3, <1>10 DEF Owed
<1>12. ch # NoChallenge
  BY <1>11 DEF Pays
<1> QED BY <1>1, <1>4, <1>11, <1>12

(* The first answer, if nothing has gone wrong.                            *)
LEMMA FirstAnswered ==
    ASSUME FlowInv, MapsInv, RequestInv, flowPc = "initial", Arrived
    PROVE  /\ Answer \in ResponseType /\ Answer.challenge \in ChallengeType
           /\ Numbered(Answer.challenge, Owed(Case))
           /\ Answer.status = FirstAnswer(Case).status
           /\ Answer.challenge = NoChallenge <=> Owed(Case) = NoChallenge
           /\ Answer.challenge.sound => /\ Answer.challenge.path \in Paths
                                        /\ acceptPaymentByPath[Answer.challenge.path] # "unset"
<1>1. Waiting
  BY DEF Waiting
<1>2. Len(requests) \in 1..Len(requests) /\ Newest = requests[Len(requests)] /\ Newest \in RequestType
  BY <1>1, LastRequest
<1>3. Answer = Newest.response /\ Answer \in ResponseType /\ Answer.challenge \in ChallengeType
  BY <1>2 DEF Answer, Newest, RequestType, ResponseType
<1>4. AnsweredAs(Answer, FirstAnswer(Case))
  BY DEF RequestInv, AnswerDue
<1>5. Settled(Newest) /\ Newest.sent.path \in Paths
  BY <1>2 DEF MapsInv, RequestType, SentType
<1>6. ~Bears(Newest.sent)
  BY <1>1, FirstUnpaid
<1> QED BY <1>3, <1>4, <1>5, <1>6, AnswerSame DEF Settled, AnsweredAs, Owed

LEMMA AnswerKnown ==
    ASSUME FlowInv, RequestInv, Waiting, Arrived
    PROVE  /\ Answer \in ResponseType
           /\ Answer.status = AnswerDue(Case).status /\ Answer.receipt = AnswerDue(Case).receipt
           /\ [Answer EXCEPT !.challenge = NoChallenge] =
                [AnswerDue(Case) EXCEPT !.challenge = NoChallenge]
<1>1. Newest = requests[Len(requests)] /\ Newest \in RequestType
  BY LastRequest
<1>2. Answer \in ResponseType
  BY <1>1 DEF Answer, Newest, RequestType
<1>3. AnsweredAs(Answer, AnswerDue(Case))
  BY DEF RequestInv
<1> QED BY <1>2, <1>3, AnswerSame DEF AnsweredAs

LEMMA SentFaith ==
    ASSUME FlowInv, FaithInv, Grows, InACase, InCase,
           NEW path \in Paths, NEW auth \in ChallengeType,
           NEW retry, NEW next \in {"initial", "retry", "again"}, IsSent(path, auth, retry, next),
           flowPc # "again", flowPc = "retry" => next = "again",
           ReplaySent(Newest'.sent) =>
             /\ Kind(Case) = "payment" /\ next # "initial" /\ path = Case.path
             /\ Undisturbed' => auth.path = path,
           next # "again" => first' = first,
           Undisturbed' => RequestInv'
    PROVE  FaithInv'
<1>1. SendersInv'
  BY SendSenders DEF FaithInv
<1>2. InACase'
  BY DEF InACase, IsSent
<1>3. flowPc' # "again" => first' = 0
  BY DEF FaithInv, RecordInv, IsSent
<1>4. RecordInv'
  BY <1>2, <1>3, RecordKept DEF FaithInv, IsSent
<1>5. FaithfulAdaptersPass'
  BY PassKept DEF FaithInv, RecordInv, IsSent
<1>6. MapsInv'
  BY DEF IsSent
<1> QED BY <1>1, <1>4, <1>5, <1>6 DEF FaithInv

LEMMA StartCaseFaith == ASSUME FlowInv, FaithInv, StartCase PROVE FaithInv'
<1> DEFINE path == FirstPath(Case)
<1>1. /\ InACase /\ InCase /\ "server_only" \notin Case.has /\ Case.challengePath \in Paths
      /\ Kind(Case) = "client_flow" => Client.http
      /\ UNCHANGED <<challenge, first, deviated>> /\ flowPc = "case"
      /\ Send(path, NoAuthorization, FALSE, "initial")
  BY DEF StartCase, InACase
<1>2. path \in Paths /\ NoAuthorization \in ChallengeType
  BY <1>1, CaseSeen, ResponsesTyped DEF FirstPath, NoAuthorization
<1>3. IsSent(path, NoAuthorization, FALSE, "initial")
  BY <1>1, <1>2, SendSent DEF FaithInv
<1> HIDE DEF path
<1>4. ~Bears(Newest'.sent)
  BY <1>3 DEF IsSent, Bears
<1>5. RequestInv'
  <2>1. Case' = Case /\ Client' = Client /\ flowPc' = "initial" /\ Newest'.at = "sent"
    BY <1>3 DEF IsSent
  <2>2. AskedAs(Newest.sent, AskDue(Case))'
    <3>1. Newest'.sent.path = FirstPath(Case) /\ Newest'.sent.auth = NoAuthorization
          /\ Newest'.sent.query = "initial" /\ Newest'.sent.body = "initial"
      BY <1>3 DEF IsSent, path
    <3>2. Numbered(NoAuthorization, NoAuthorization)'
      <4>1. [NoChallenge EXCEPT !.id = 0] = NoChallenge
        BY ResponsesTyped, StatusPlain DEF ChallengeType
      <4> QED BY <4>1, StatusPlain DEF Numbered, NoAuthorization
    <3> QED BY <2>1, <3>1, <3>2 DEF AskedAs, AskDue, FirstAsk
  <2>3. (Kind(Case) \in {"no_payment", "payment"} => Newest.sent.client = Client.name)'
    BY <1>3, <2>1 DEF IsSent
  <2>4. ~Arrived'
    BY <2>1 DEF Arrived, Newest
  <2>5. ~ReplaySent(Newest'.sent)
    BY <1>4 DEF ReplaySent
  <2> QED BY <1>1, <2>1, <2>2, <2>3, <2>4, <2>5 DEF RequestInv
<1>6. Grows
  BY <1>1 DEF Grows
<1> QED BY <1>1, <1>2, <1>3, <1>4, <1>5, <1>6, SentFaith DEF ReplaySent

(* The request that answers the challenge of the case, if its sender did   *)
(* nothing wrong.                                                          *)
LEMMA RetrySent ==
    ASSUME FlowInv, MapsInv, RequestInv, Waiting, NEW auth,
           NEW next \in {"retry", "again"}, IsSent(Case.path, auth, TRUE, next),
           challenge' \in ChallengeType, Numbered(challenge', Owed(Case)),
           challenge'.sound => challenge'.path \in Paths
                               /\ acceptPaymentByPath[challenge'.path] # "unset",
           auth = IF Kind(Case) = "json_rpc" THEN challenge' ELSE Authorization(challenge'),
           Kind(Case) # "json_rpc" => Kind(Case) \in {"payment", "client_flow"} /\ Pays(Case),
           next = "again" => /\ Kind(Case) = "payment" /\ "concurrent_replay" \in Case.has
                             /\ first' = RetryAnswer(Case).status
                             /\ ReplaySent(Newest'.sent) /\ ~Rejected(Newest'.sent) =>
                                  ReplayKey(Newest'.sent) \in seenAuthorization
    PROVE  RequestInv'
<1>1. /\ Case' = Case /\ Client' = Client /\ flowPc' = next /\ Newest'.at = "sent"
      /\ nonces' = nonces /\ acceptPaymentByPath' = acceptPaymentByPath
      /\ seenAuthorization' = seenAuthorization
      /\ Newest'.sent.path = Case.path /\ Newest'.sent.auth = auth
      /\ Newest'.sent.query = IF "retry_query" \in Case.has THEN "retry" ELSE "initial"
      /\ Newest'.sent.body = IF "retry_body" \in Case.has THEN "retry" ELSE "initial"
      /\ Kind(Case) \in {"no_payment", "payment"} => Newest'.sent.client = Client.name
  BY DEF IsSent
<1>2. ("server_only" \notin Case.has /\ Case.challengePath \in Paths
       /\ (Kind(Case) = "client_flow" => Client.http)
       /\ (Kind(Case) \in {"no_payment", "payment"} => Newest.sent.client = Client.name))'
  BY <1>1 DEF RequestInv
<1>3. AskedAs(Newest.sent, AskDue(Case))'
  <2>1. Numbered(auth, RetryAsk(Case).auth)
    <3>1. CASE Kind(Case) = "json_rpc"
      BY <3>1 DEF RetryAsk
    <3>2. CASE Kind(Case) # "json_rpc"
      BY <3>2, TamperedNumbered DEF RetryAsk
    <3> QED BY <3>1, <3>2
  <2>2. AskedAs(Newest.sent, RetryAsk(Case))'
    BY <1>1, <2>1 DEF AskedAs, RetryAsk, Numbered
  <2> QED BY <1>1, <2>2 DEF AskedAs, AskDue, Numbered
<1>4. ~Arrived'
  BY <1>1 DEF Arrived, Newest
<1>5. Numbered(challenge, Owed(Case))'
  BY <1>1 DEF Numbered
<1>6. (challenge.sound => challenge.path \in Paths
                          /\ acceptPaymentByPath[challenge.path] # "unset")'
  BY <1>1
<1>7. (Kind(Case) # "json_rpc" => Kind(Case) \in {"payment", "client_flow"} /\ Pays(Case)
                                  /\ Newest.sent.auth = Authorization(challenge))'
  BY <1>1 DEF Authorization
<1>8. (flowPc = "again" => /\ Kind(Case) = "payment" /\ "concurrent_replay" \in Case.has
                           /\ first = RetryAnswer(Case).status)'
  BY <1>1
<1>9. (/\ flowPc = "again" /\ Newest.at = "charge" => ~Bears(Newest.sent)
       /\ ReplaySent(Newest.sent) /\ ~Rejected(Newest.sent) /\ (flowPc = "again" \/ Admitted(Newest)) =>
            ReplayKey(Newest.sent) \in seenAuthorization)'
  BY <1>1 DEF Admitted
<1> QED BY <1>2, <1>3, <1>4, <1>5, <1>6, <1>7, <1>8, <1>9 DEF RequestInv

(* Who sends a credential of a replay case.                                *)
LEMMA ReplayIsPaid ==
    ASSUME FlowInv, Waiting, NEW auth \in ChallengeType, NEW retry, NEW next,
           IsSent(Case.path, auth, retry, next), ReplaySent(Newest'.sent)
    PROVE  "concurrent_replay" \in Case.has /\ Kind(Case) = "payment" /\ auth # NoAuthorization
<1>1. Case \in Cases /\ CaseAt(Case.path) = Case
  BY LastRequest
<1>2. Newest'.sent.path = Case.path /\ Newest'.sent.auth = auth
  BY DEF IsSent
<1> QED BY <1>1, <1>2, ReplayCase DEF ReplaySent, Replay, Bears

LEMMA CredentialPath ==
    ASSUME FlowInv, Waiting, NEW ch \in ChallengeType, Numbered(ch, Owed(Case)), Pays(Case),
           "concurrent_replay" \in Case.has, Authorization(ch) # NoAuthorization
    PROVE  Authorization(ch).path = Case.path
<1>1. Owed(Case).path = Case.path
  BY LastRequest, OwedPath
<1>2. ch.path = Case.path
  BY <1>1, NumberedSame
<1> QED BY <1>2 DEF Authorization, ChallengeType

LEMMA RetryJsonRpcFaith == ASSUME FlowInv, FaithInv, RetryJsonRpc PROVE FaithInv'
<1>1. /\ flowPc = "initial" /\ Arrived /\ Kind(Case) = "json_rpc" /\ challenge' = Answer.challenge
      /\ Send(Case.path, challenge', TRUE, "retry") /\ UNCHANGED <<first, deviated>>
  BY DEF RetryJsonRpc
<1>2. Waiting
  BY <1>1 DEF Waiting
<1>3. InACase /\ InCase /\ Case.path \in Paths /\ requests # <<>>
  BY <1>2, LastRequest, InTheCase
<1>4. challenge' \in ChallengeType
  BY <1>1, <1>3, AnswerTyped DEF FlowInv
<1>5. IsSent(Case.path, challenge', TRUE, "retry")
  BY <1>1, <1>3, <1>4, SendSent DEF FaithInv
<1>6. ~ReplaySent(Newest'.sent)
  BY <1>1, <1>2, <1>4, <1>5, ReplayIsPaid
<1>7. Grows
  BY <1>1 DEF Grows
<1>8. ASSUME Undisturbed' PROVE RequestInv'
  <2>1. Undisturbed
    BY <1>5, <1>7, <1>8, StillUndisturbed DEF FaithInv, RecordInv, IsSent
  <2>2. MapsInv /\ RequestInv
    BY <1>2, <2>1 DEF FaithInv
  <2>3. /\ Numbered(challenge', Owed(Case))
        /\ challenge'.sound => challenge'.path \in Paths
                               /\ acceptPaymentByPath[challenge'.path] # "unset"
    BY <1>1, <2>2, FirstAnswered
  <2> QED BY <1>1, <1>2, <1>4, <1>5, <2>2, <2>3, RetrySent
<1> QED BY <1>1, <1>3, <1>4, <1>5, <1>6, <1>7, <1>8, SentFaith

LEMMA SendRetryFaith == ASSUME FlowInv, FaithInv, SendRetry PROVE FaithInv'
<1> DEFINE auth == Authorization(challenge')
<1>1. /\ flowPc = "initial" /\ Arrived /\ Answer.status = 402
      /\ Kind(Case) \in {"payment", "client_flow"} /\ Answer.challenge # NoChallenge
      /\ \/ challenge' = Answer.challenge /\ UNCHANGED deviated
         \/ challenge' = [Answer.challenge EXCEPT !.path = "wrong"] /\ Deviates(adapterNo)
      /\ Send(Case.path, auth, TRUE, "retry") /\ first' = first
  BY DEF SendRetry
<1>2. Waiting
  BY <1>1 DEF Waiting
<1>3. InACase /\ InCase /\ Case.path \in Paths /\ requests # <<>>
  BY <1>2, LastRequest, InTheCase
<1>4. challenge' \in ChallengeType /\ auth \in ChallengeType
  <2>1. Answer.challenge \in ChallengeType
    BY <1>3, AnswerTyped DEF FlowInv
  <2>2. [Answer.challenge EXCEPT !.path = "wrong"] \in ChallengeType
    BY <2>1, AuthorizationTyped
  <2>3. challenge' \in ChallengeType
    BY <1>1, <2>1, <2>2
  <2> QED BY <2>3, AuthorizationTyped
<1> HIDE DEF auth
<1>5. IsSent(Case.path, auth, TRUE, "retry")
  <2>1. Send(Case.path, auth, TRUE, "retry") /\ MapsInv
    BY <1>1 DEF FaithInv
  <2> QED BY <1>3, <1>4, <2>1, SendSent
<1>6. adapterNo \in Nat /\ adapterNo' = adapterNo /\ deviated \in Seq(Nat)
  BY <1>5 DEF FlowInv, FlowTypes, FaithInv, RecordInv, IsSent
<1>7. Grows
  BY <1>1, <1>6 DEF Grows
<1>8. ASSUME Undisturbed'
      PROVE  /\ MapsInv /\ RequestInv /\ challenge' = Answer.challenge
             /\ Numbered(challenge', Owed(Case)) /\ Pays(Case)
             /\ challenge'.sound => challenge'.path \in Paths
                                    /\ acceptPaymentByPath[challenge'.path] # "unset"
  <2>1. Undisturbed
    BY <1>5, <1>7, <1>8, StillUndisturbed DEF FaithInv, RecordInv, IsSent
  <2>2. MapsInv /\ RequestInv
    BY <1>2, <2>1 DEF FaithInv
  <2>3. ~Deviates(adapterNo)
    BY <1>6, <1>8, AdapterDeviates
  <2>4. challenge' = Answer.challenge
    BY <1>1, <2>3
  <2>5. Pays(Case)
    BY <1>1, <2>2, FirstAnswered DEF Pays
  <2> QED BY <1>1, <2>2, <2>4, <2>5, FirstAnswered
<1>9. ASSUME Undisturbed' PROVE RequestInv'
  <2>1. auth = Authorization(challenge')
    BY DEF auth
  <2> QED BY <1>1, <1>2, <1>4, <1>5, <1>8, <1>9, <2>1, RetrySent
<1>10. ASSUME ReplaySent(Newest'.sent)
       PROVE  Kind(Case) = "payment" /\ (Undisturbed' => auth.path = Case.path)
  <2>1. "concurrent_replay" \in Case.has /\ Kind(Case) = "payment" /\ auth # NoAuthorization
    BY <1>2, <1>4, <1>5, <1>10, ReplayIsPaid
  <2> QED BY <1>2, <1>4, <1>8, <2>1, CredentialPath DEF auth
<1>11. first' = first /\ flowPc = "initial"
  BY <1>1
<1> QED BY <1>3, <1>4, <1>5, <1>7, <1>9, <1>10, <1>11, SentFaith

LEMMA SendAgainFaith == ASSUME FlowInv, FaithInv, SendAgain PROVE FaithInv'
<1> DEFINE auth == Authorization(challenge)
<1>1. /\ flowPc = "retry" /\ Arrived /\ Kind(Case) = "payment" /\ "concurrent_replay" \in Case.has
      /\ first' = Answer.status /\ challenge' = challenge /\ deviated' = deviated
      /\ Send(Case.path, auth, TRUE, "again")
  BY DEF SendAgain
<1>2. Waiting
  BY <1>1 DEF Waiting
<1>3. InACase /\ InCase /\ Case.path \in Paths /\ requests # <<>>
  BY <1>2, LastRequest, InTheCase
<1>4. challenge \in ChallengeType /\ auth \in ChallengeType
  BY AuthorizationTyped DEF FlowInv, FlowTypes
<1>5. IsSent(Case.path, auth, TRUE, "again")
  BY <1>1, <1>3, <1>4, SendSent DEF FaithInv
<1>6. Grows
  BY <1>1 DEF Grows
<1>7. ASSUME Undisturbed'
      PROVE  /\ MapsInv /\ RequestInv /\ Numbered(challenge, Owed(Case)) /\ Pays(Case)
             /\ Newest.sent.auth = Authorization(challenge)
  <2>1. Undisturbed
    BY <1>5, <1>6, <1>7, StillUndisturbed DEF FaithInv, RecordInv, IsSent
  <2>2. MapsInv /\ RequestInv
    BY <1>2, <2>1 DEF FaithInv
  <2> QED BY <1>1, <2>2 DEF RequestInv
<1> HIDE DEF auth
<1>8. ASSUME Undisturbed' PROVE RequestInv'
  <2>1. challenge.sound => challenge.path \in Paths
                           /\ acceptPaymentByPath[challenge.path] # "unset"
    BY <1>1, <1>7, <1>8 DEF RequestInv
  <2>2. first' = RetryAnswer(Case).status
    BY <1>1, <1>2, <1>7, <1>8, AnswerKnown DEF AnswerDue
  <2>3. ASSUME ReplaySent(Newest'.sent), ~Rejected(Newest'.sent)
        PROVE  ReplayKey(Newest'.sent) \in seenAuthorization
    <3>1. /\ Newest'.sent.path = Newest.sent.path /\ Newest'.sent.auth = Newest.sent.auth
          /\ Newest'.sent.client = Newest.sent.client
      BY <1>1, <1>2, <1>5, <1>7, <1>8, RetryPath DEF IsSent, RequestInv, auth
    <3>2. ReplaySent(Newest.sent) /\ ~Rejected(Newest.sent)
      BY <2>3, <3>1 DEF ReplaySent, Replay, Bears, Rejected
    <3>3. Admitted(Newest)
      BY <1>1 DEF Arrived, Newest, Admitted
    <3>4. ReplayKey(Newest.sent) \in seenAuthorization
      BY <1>7, <1>8, <3>2, <3>3 DEF RequestInv
    <3> QED BY <3>1, <3>4 DEF ReplayKey
  <2>4. auth = Authorization(challenge')
    BY <1>1 DEF auth
  <2> QED BY <1>1, <1>2, <1>4, <1>5, <1>7, <1>8, <2>1, <2>2, <2>3, <2>4, RetrySent
<1>9. ASSUME ReplaySent(Newest'.sent) PROVE Undisturbed' => auth.path = Case.path
  <2>1. "concurrent_replay" \in Case.has /\ Kind(Case) = "payment" /\ auth # NoAuthorization
    BY <1>2, <1>4, <1>5, <1>9, ReplayIsPaid
  <2> QED BY <1>2, <1>4, <1>7, <2>1, CredentialPath DEF auth
<1> QED BY <1>1, <1>3, <1>4, <1>5, <1>6, <1>8, <1>9, SentFaith

(* One more case is on record, with a result or without.                   *)
LEMMA RecordMore ==
    ASSUME NEW s, NEW t, NEW e, Extends(t, s, e), NEW order, NEW n \in 1..Len(order),
           Len(order) \in Nat, NEW numbered, NEW http, OnRecord(s, order, n, numbered, http),
           Records(e, order[n], numbered, http)
    PROVE  OnRecord(t, order, n + 1, numbered, http)
<1>1. ASSUME NEW i \in 1..Len(t)
      PROVE  \E k \in 1..Len(order) : k < n + 1 /\ Records(t[i], order[k], numbered, http)
  <2>1. CASE i \in 1..Len(s)
    <3>1. PICK k \in 1..Len(order) : k < n /\ Records(s[i], order[k], numbered, http)
      BY <2>1 DEF OnRecord
    <3>2. t[i] = s[i] /\ k < n + 1
      BY <2>1, <3>1 DEF Extends
    <3> QED BY <3>1, <3>2
  <2>2. CASE i = Len(t)
    <3>1. t[i] = e /\ n < n + 1
      BY <2>2 DEF Extends
    <3> QED BY <3>1
  <2> QED BY <2>1, <2>2 DEF Extends
<1>2. ASSUME NEW k \in 1..Len(order), k < n + 1, "server_only" \notin order[k].has
      PROVE  \E i \in 1..Len(t) : t[i].name = order[k].name
  <2>1. CASE k < n
    <3>1. PICK i \in 1..Len(s) : s[i].name = order[k].name
      BY <1>2, <2>1 DEF OnRecord
    <3>2. i \in 1..Len(t) /\ t[i] = s[i]
      BY <3>1 DEF Extends
    <3> QED BY <3>1, <3>2
  <2>2. CASE k = n
    <3>1. Len(t) \in 1..Len(t) /\ t[Len(t)] = e
      BY DEF Extends
    <3>2. e.name = order[k].name
      BY <2>2 DEF Records
    <3> QED BY <3>1, <3>2
  <2> QED BY <1>2, <2>1, <2>2
<1> QED BY <1>1, <1>2 DEF OnRecord

LEMMA RecordSkip ==
    ASSUME NEW s, NEW order, NEW n \in 1..Len(order), Len(order) \in Nat, NEW numbered, NEW http,
           OnRecord(s, order, n, numbered, http), "server_only" \in order[n].has
    PROVE  OnRecord(s, order, n + 1, numbered, http)
<1>1. ASSUME NEW i \in 1..Len(s)
      PROVE  \E k \in 1..Len(order) : k < n + 1 /\ Records(s[i], order[k], numbered, http)
  <2>1. PICK k \in 1..Len(order) : k < n /\ Records(s[i], order[k], numbered, http)
    BY DEF OnRecord
  <2>2. k < n + 1
    BY <2>1
  <2> QED BY <2>1, <2>2
<1>2. ASSUME NEW k \in 1..Len(order), k < n + 1, "server_only" \notin order[k].has
      PROVE  \E i \in 1..Len(s) : s[i].name = order[k].name
  <2>1. k < n
    BY <1>2
  <2> QED BY <1>2, <2>1 DEF OnRecord
<1> QED BY <1>1, <1>2 DEF OnRecord

(* The runner goes on to the next case.                                    *)
LEMMA NextCaseSenders ==
    ASSUME FlowInv, SendersInv, InACase, InACase', flowPc' = "case", caseNo' = caseNo + 1,
           Undisturbed' => Undisturbed,
           UNCHANGED <<requests, flowMode, goldenOrder, adapterNo>>
    PROVE  SendersInv'
<1>1. Order' = Order /\ Client' = Client /\ caseNo \in Nat
  BY DEF Order, Client, FlowInv, FlowTypes
<1>2. (InACase /\ flowMode = "check" => \A i \in 1..Len(requests) : ReplaySent(requests[i].sent) =>
         \E a \in 1..Len(Adapters) : a <= adapterNo /\ requests[i].sent.client = Adapters[a].name)'
  BY DEF SendersInv
<1>3. ASSUME Undisturbed', NEW i \in 1..Len(requests), ReplaySent(requests[i].sent),
             requests[i].sent.client = Client.name
      PROVE  /\ requests[i].sent.auth.path = requests[i].sent.path
             /\ \E k \in 1..Len(Order) :
                  /\ k <= caseNo + 1 /\ Order[k].path = requests[i].sent.path
                  /\ k # caseNo + 1
  <2>1. /\ requests[i].sent.auth.path = requests[i].sent.path
        /\ \E k \in 1..Len(Order) : k <= caseNo /\ Order[k].path = requests[i].sent.path
    BY <1>3 DEF SendersInv
  <2>2. PICK k \in 1..Len(Order) : k <= caseNo /\ Order[k].path = requests[i].sent.path
    BY <2>1
  <2>3. k <= caseNo + 1 /\ k # caseNo + 1
    BY <1>1, <2>2
  <2> QED BY <2>1, <2>2, <2>3
<1>4. (InACase /\ Undisturbed => \A i \in 1..Len(requests) :
         ReplaySent(requests[i].sent) /\ requests[i].sent.client = Client.name =>
           /\ requests[i].sent.auth.path = requests[i].sent.path
           /\ \E k \in 1..Len(Order) :
                /\ k <= caseNo /\ Order[k].path = requests[i].sent.path
                /\ k = caseNo => \/ flowPc = "again"
                                 \/ (flowPc = "retry" /\ i = Len(requests)))'
  BY <1>1, <1>3
<1> QED BY <1>2, <1>4 DEF SendersInv

LEMMA FinishFaith ==
    ASSUME FlowInv, FaithInv, InACase, InCase, NEW entry, Finish(entry), UNCHANGED serverVars,
           Grows, Undisturbed' => Records(entry, Case, nonces, Client.http)
    PROVE  FaithInv'
<1>1. /\ reports' = [reports EXCEPT ![adapterNo] = Append(@, entry)]
      /\ caseNo' = caseNo + 1 /\ flowPc' = "case" /\ first' = 0
      /\ UNCHANGED <<flowMode, goldenOrder, adapterNo, golden, flowResults>>
  BY DEF Finish, mainVars
<1>2. UNCHANGED <<requests, acceptPaymentByPath, sideEffectsByKey, seenAuthorization, nonces,
                  server>>
  BY DEF serverVars
<1>3. InACase' /\ ~Waiting'
  BY <1>1 DEF InACase, Waiting
<1>4. deviated \in Seq(Nat)
  BY DEF FaithInv, RecordInv
<1>5. Undisturbed' => Undisturbed
  BY <1>1, <1>4, StillUndisturbed
<1>6. MapsInv'
  BY <1>2, MapsStay DEF FaithInv
<1>7. SendersInv'
  BY <1>1, <1>2, <1>3, <1>5, NextCaseSenders DEF FaithInv
<1>8. FaithfulAdaptersPass'
  BY <1>1, <1>4, PassKept DEF FaithInv
<1>9. RecordInv'
  <2>1. /\ deviated' \in Seq(Nat)
        /\ \A i \in 1..Len(deviated) : i \in 1..Len(deviated') /\ deviated'[i] = deviated[i]
        /\ flowMode = "update" => deviated' = deviated
    BY <1>4, DeviationsGrow
  <2>2. Order' = Order /\ Client' = Client /\ flowPc # "stop"
    BY <1>1 DEF Order, Client, InACase
  <2>3. /\ caseNo \in 1..Len(Order) /\ adapterNo \in 1..Len(Adapters)
        /\ Len(Order) \in Nat /\ DOMAIN reports = 1..Len(Adapters) /\ IsSeq(reports[adapterNo])
    BY CaseSeen, OrdersTyped DEF FlowInv, FlowTypes
  <2>4. reports'[adapterNo] = Append(reports[adapterNo], entry)
        /\ \A a \in 1..Len(Adapters) : a # adapterNo => reports'[a] = reports[a]
    BY <1>1, <2>3
  <2>5. (flowMode = "update" => deviated = <<>>)'
    BY <1>1, <2>1 DEF FaithInv, RecordInv
  <2>6. (server = "dead" => \E i \in 1..Len(deviated) : deviated[i] = 0)'
    BY <1>2, <2>1 DEF FaithInv, RecordInv
  <2>7. (flowMode = "check" => \A a \in 1..Len(Adapters) :
           a > adapterNo \/ (~InACase /\ a = adapterNo) => reports[a] = <<>>)'
    <3> SUFFICES ASSUME flowMode = "check", NEW a \in 1..Len(Adapters), a > adapterNo
                 PROVE  reports'[a] = <<>>
      BY <1>1, <1>3
    <3>1. a # adapterNo
      BY <2>3
    <3>2. reports[a] = <<>>
      BY DEF FaithInv, RecordInv
    <3> QED BY <2>4, <3>1, <3>2
  <2>8. (flowMode = "check" \/ flowPc = "stop" => \E numbered \in BOOLEAN :
           /\ numbered => nonces
           /\ OnRecord(golden, goldenOrder, Len(goldenOrder) + 1, numbered, TRUE))'
    BY <1>1, <1>2, <2>2 DEF FaithInv, RecordInv
  <2>9. ASSUME Undisturbed'
        PROVE  OnRecord(reports'[adapterNo], Order, caseNo + 1, nonces, Client.http)
    <3>1. OnRecord(reports[adapterNo], Order, caseNo, nonces, Client.http)
      BY <1>5, <2>9 DEF FaithInv, RecordInv
    <3>2. Records(entry, Order[caseNo], nonces, Client.http)
      BY <2>9 DEF Case
    <3>3. Extends(reports'[adapterNo], reports[adapterNo], entry)
      BY <2>3, <2>4, ResultAppended
    <3> QED BY <2>3, <3>1, <3>2, <3>3, RecordMore
  <2>10. (InACase /\ Undisturbed =>
            OnRecord(reports[adapterNo], Order, caseNo, nonces, Client.http))'
    BY <1>1, <1>2, <2>2, <2>9
  <2> QED BY <1>1, <2>1, <2>5, <2>6, <2>7, <2>8, <2>10 DEF RecordInv
<1> QED BY <1>3, <1>6, <1>7, <1>8, <1>9 DEF FaithInv

(* The result of a case that ends as it should.                            *)
LEMMA EndFaith ==
    ASSUME FlowInv, FaithInv, Waiting, NEW entry, Finish(entry), UNCHANGED serverVars, Grows,
           Undisturbed' /\ MapsInv /\ RequestInv => entry = EntryOf(Case, nonces),
           entry.name = Case.name
    PROVE  FaithInv'
<1>1. InACase /\ InCase
  BY InTheCase
<1>2. ASSUME Undisturbed' PROVE Records(entry, Case, nonces, Client.http)
  <2>1. flowMode' = flowMode /\ goldenOrder' = goldenOrder /\ adapterNo' = adapterNo
    BY DEF Finish, mainVars
  <2>2. Undisturbed
    BY <1>2, <2>1, StillUndisturbed DEF FaithInv, RecordInv
  <2>3. MapsInv /\ RequestInv
    BY <2>2 DEF FaithInv
  <2>4. "server_only" \notin Case.has
    BY <2>3 DEF RequestInv
  <2> QED BY <1>2, <2>3, <2>4 DEF Records
<1> QED BY <1>1, <1>2, FinishFaith

LEMMA NotShown == Shown(NoChallenge) = Unshown
BY StatusPlain DEF Shown, Unshown

LEMMA ShownSame ==
    ASSUME FlowTypes, nonces \in BOOLEAN, Numbered(challenge, Owed(Case))
    PROVE  Shown(challenge) = ShownOf(Case, nonces)
<1>1. challenge \in ChallengeType
  BY DEF FlowTypes
<1>2. /\ challenge.path = Owed(Case).path /\ challenge.query = Owed(Case).query
      /\ challenge = NoChallenge <=> Owed(Case) = NoChallenge
  BY <1>1, NumberedSame
<1>3. challenge.id # 0 <=> nonces /\ Owed(Case).query # ""
  BY DEF Numbered
<1> QED BY <1>2, <1>3 DEF Shown, ShownOf

(* The results of the cases, one by one.                                   *)
LEMMA RefuseCaseFaith == ASSUME FlowInv, FaithInv, RefuseCase PROVE FaithInv'
<1>1. InACase /\ InCase /\ UNCHANGED serverVars /\ deviated' = deviated /\ flowPc = "case"
  BY DEF RefuseCase, InACase
<1>5. "server_only" \notin Case.has
  BY DEF RefuseCase
<1>2. Grows
  BY <1>1 DEF Grows
<1>3. CASE Case.challengePath \notin Paths
           /\ Finish(Entry(FlowError(0, "missing_challenge_case"), NoChallenge, NoResponse))
  <2> DEFINE entry == Entry(FlowError(0, "missing_challenge_case"), NoChallenge, NoResponse)
  <2>1. first = 0
    BY <1>1 DEF FaithInv, RecordInv
  <2>2. entry = EntryFor(Case, FlowError(0, "missing_challenge_case"), Unshown, first, NoResponse)
    BY NotShown DEF Entry, EntryFor
  <2>3. entry = EntryOf(Case, nonces)
    BY <1>3, <2>1, <2>2 DEF EntryOf, Plain
  <2>4. Records(entry, Case, nonces, Client.http)
    BY <1>5, <2>3 DEF Records, Entry
  <2> HIDE DEF entry
  <2>5. Finish(entry)
    BY <1>3 DEF entry
  <2> QED BY <1>1, <1>2, <2>4, <2>5, FinishFaith
<1>4. CASE ~Client.http
           /\ Finish(Entry([CaseOutcome(TRUE, 0, "") EXCEPT !.skipped = TRUE], NoChallenge,
                           NoResponse))
  <2> DEFINE entry == Entry([CaseOutcome(TRUE, 0, "") EXCEPT !.skipped = TRUE], NoChallenge,
                            NoResponse)
  <2>1. entry.name = Case.name /\ entry.outcome.skipped
    BY DEF Entry, CaseOutcome
  <2>2. Records(entry, Case, nonces, Client.http)
    BY <1>4, <1>5, <2>1 DEF Records
  <2> HIDE DEF entry
  <2>3. Finish(entry)
    BY <1>4 DEF entry
  <2> QED BY <1>1, <1>2, <2>2, <2>3, FinishFaith
<1> QED BY <1>3, <1>4 DEF RefuseCase

LEMMA EndDiscoveryFaith == ASSUME FlowInv, FaithInv, EndDiscovery PROVE FaithInv'
<1> DEFINE outcome == CaseOutcome(Answer.status < 300, Answer.status, "")
           entry == Entry(outcome, NoChallenge, Answer)
<1>1. /\ flowPc = "initial" /\ Arrived /\ Kind(Case) = "discovery" /\ Finish(entry)
      /\ UNCHANGED serverVars /\ deviated' = deviated
  BY DEF EndDiscovery
<1>2. Waiting /\ Grows /\ first = 0
  BY <1>1 DEF Waiting, Grows, FaithInv, RecordInv
<1>3. ASSUME RequestInv PROVE entry = EntryOf(Case, nonces)
  <2>1. AnswerDue(Case) = FirstAnswer(Case)
    BY <1>1 DEF AnswerDue
  <2>2. /\ Answer.status = FirstAnswer(Case).status
        /\ [Answer EXCEPT !.challenge = NoChallenge] =
             [FirstAnswer(Case) EXCEPT !.challenge = NoChallenge]
    BY <1>1, <1>2, <1>3, <2>1, AnswerKnown
  <2>3. outcome = Below(300, FirstAnswer(Case))
    BY <2>2 DEF Below
  <2>4. entry = EntryFor(Case, outcome, Unshown, first, FirstAnswer(Case))
    <3> HIDE DEF outcome
    <3> QED BY <2>2, NotShown DEF Entry, EntryFor
  <2>5. EntryOf(Case, nonces) = Plain(Case, Below(300, FirstAnswer(Case)), FirstAnswer(Case))
    BY <1>1, <1>3 DEF EntryOf, RequestInv
  <2> QED BY <1>2, <2>3, <2>4, <2>5 DEF Plain
<1>4. entry.name = Case.name
  BY DEF Entry
<1> HIDE DEF entry
<1> QED BY <1>1, <1>2, <1>3, <1>4, EndFaith

LEMMA EndJsonRpcFaith == ASSUME FlowInv, FaithInv, EndJsonRpc PROVE FaithInv'
<1> DEFINE outcome == CaseOutcome(Answer.status < 300, Answer.status, "")
           entry == Entry(outcome, NoChallenge, Answer)
<1>1. /\ flowPc = "retry" /\ Arrived /\ Kind(Case) = "json_rpc" /\ Finish(entry)
      /\ UNCHANGED serverVars /\ deviated' = deviated
  BY DEF EndJsonRpc
<1>2. Waiting /\ Grows /\ first = 0
  BY <1>1 DEF Waiting, Grows, FaithInv, RecordInv
<1>3. ASSUME RequestInv PROVE entry = EntryOf(Case, nonces)
  <2>1. AnswerDue(Case) = RetryAnswer(Case)
    BY <1>1 DEF AnswerDue
  <2>2. /\ Answer.status = RetryAnswer(Case).status
        /\ [Answer EXCEPT !.challenge = NoChallenge] =
             [RetryAnswer(Case) EXCEPT !.challenge = NoChallenge]
    BY <1>1, <1>2, <1>3, <2>1, AnswerKnown
  <2>3. outcome = Below(300, RetryAnswer(Case))
    BY <2>2 DEF Below
  <2>4. entry = EntryFor(Case, outcome, Unshown, first, RetryAnswer(Case))
    <3> HIDE DEF outcome
    <3> QED BY <2>2, NotShown DEF Entry, EntryFor
  <2>5. EntryOf(Case, nonces) = Plain(Case, Below(300, RetryAnswer(Case)), RetryAnswer(Case))
    BY <1>1, <1>3 DEF EntryOf, RequestInv
  <2> QED BY <1>2, <2>3, <2>4, <2>5 DEF Plain
<1>4. entry.name = Case.name
  BY DEF Entry
<1> HIDE DEF entry
<1> QED BY <1>1, <1>2, <1>3, <1>4, EndFaith

LEMMA EndWithoutPaymentFaith == ASSUME FlowInv, FaithInv, EndWithoutPayment PROVE FaithInv'
<1> DEFINE outcome == IF Kind(Case) = "no_payment"
                      THEN CaseOutcome(Answer.status < 400, Answer.status, "")
                      ELSE FlowError(Answer.status, "unexpected_status")
           entry == Entry(outcome, NoChallenge, Answer)
<1>1. /\ flowPc = "initial" /\ Arrived /\ Finish(entry)
      /\ Kind(Case) = "no_payment" \/ (Kind(Case) = "payment" /\ Answer.status # 402)
      /\ UNCHANGED serverVars /\ deviated' = deviated
  BY DEF EndWithoutPayment
<1>2. Waiting /\ Grows /\ first = 0
  BY <1>1 DEF Waiting, Grows, FaithInv, RecordInv
<1>3. ASSUME RequestInv PROVE entry = EntryOf(Case, nonces)
  <2> DEFINE answer == FirstAnswer(Case)
  <2>1. AnswerDue(Case) = answer
    BY <1>1 DEF AnswerDue
  <2>2. /\ Answer.status = answer.status
        /\ [Answer EXCEPT !.challenge = NoChallenge] = [answer EXCEPT !.challenge = NoChallenge]
    BY <1>1, <1>2, <1>3, <2>1, AnswerKnown
  <2>3. outcome = IF Kind(Case) = "no_payment" THEN Below(400, answer)
                  ELSE FlowError(answer.status, "unexpected_status")
    BY <2>2 DEF Below
  <2>4. entry = EntryFor(Case, outcome, Unshown, first, answer)
    <3> HIDE DEF outcome
    <3> QED BY <2>2, NotShown DEF Entry, EntryFor
  <2>5. EntryOf(Case, nonces) = UnpaidEntry(Case, answer)
    BY <1>1, <1>3, <2>2 DEF EntryOf, RequestInv
  <2> QED BY <1>2, <2>3, <2>4, <2>5 DEF UnpaidEntry, Plain
<1>4. entry.name = Case.name
  BY DEF Entry
<1> HIDE DEF entry
<1> QED BY <1>1, <1>2, <1>3, <1>4, EndFaith

LEMMA ParseFailsFaith == ASSUME FlowInv, FaithInv, ParseFails PROVE FaithInv'
<1> DEFINE outcome == CaseOutcome(FALSE, 402, "challenge_parse_error")
           entry == Entry(outcome, NoChallenge, Answer)
<1>1. /\ flowPc = "initial" /\ Arrived /\ Answer.status = 402 /\ Kind(Case) = "payment"
      /\ IF Answer.challenge = NoChallenge THEN UNCHANGED deviated ELSE Deviates(adapterNo)
      /\ Finish(entry) /\ UNCHANGED serverVars
  BY DEF ParseFails
<1>2. /\ Waiting /\ first = 0 /\ deviated \in Seq(Nat) /\ adapterNo \in Nat
      /\ adapterNo' = adapterNo
  BY <1>1 DEF Waiting, FaithInv, RecordInv, FlowInv, FlowTypes, Finish, mainVars
<1>3. Grows
  BY <1>1, <1>2 DEF Grows
<1>4. ASSUME Undisturbed', MapsInv, RequestInv PROVE entry = EntryOf(Case, nonces)
  <2> DEFINE answer == FirstAnswer(Case)
  <2>1. AnswerDue(Case) = answer
    BY <1>1 DEF AnswerDue
  <2>2. [Answer EXCEPT !.challenge = NoChallenge] = [answer EXCEPT !.challenge = NoChallenge]
    BY <1>1, <1>2, <1>4, <2>1, AnswerKnown
  <2>3. Answer.challenge = NoChallenge
    BY <1>1, <1>2, <1>4, AdapterDeviates
  <2>4. answer.status = 402 /\ Owed(Case) = NoChallenge
    BY <1>1, <1>4, <2>3, FirstAnswered
  <2>5. entry = EntryFor(Case, outcome, Unshown, first, answer)
    <3> HIDE DEF outcome
    <3> QED BY <2>2, NotShown DEF Entry, EntryFor
  <2>6. EntryOf(Case, nonces) = Plain(Case, outcome, answer)
    BY <1>1, <1>4, <2>4 DEF EntryOf, RequestInv
  <2> QED BY <1>2, <2>5, <2>6 DEF Plain
<1>5. entry.name = Case.name
  BY DEF Entry
<1> HIDE DEF entry
<1> QED BY <1>1, <1>2, <1>3, <1>4, <1>5, EndFaith

LEMMA EndClientCaseFaith == ASSUME FlowInv, FaithInv, EndClientCase PROVE FaithInv'
<1> DEFINE ok == Answer.status < 300 /\ Answer.receipt # ""
           outcome == IF "redirect_to" \in Case.has THEN CaseOutcome(TRUE, 0, "")
                      ELSE CaseOutcome(ok, Answer.status, "")
           entry == Entry(outcome, NoChallenge, Answer)
           error == Entry(FlowError(0, "adapter"), NoChallenge, NoResponse)
<1>1. /\ flowPc \in {"initial", "retry"} /\ Arrived /\ Kind(Case) = "client_flow"
      /\ flowPc = "initial" => Answer.status # 402
      /\ \/ Finish(entry) /\ UNCHANGED deviated
         \/ Deviates(adapterNo) /\ Finish(error)
      /\ UNCHANGED serverVars
  BY DEF EndClientCase
<1>2. Waiting /\ first = 0 /\ deviated \in Seq(Nat) /\ adapterNo \in Nat
  BY <1>1 DEF Waiting, FaithInv, RecordInv, FlowInv, FlowTypes
<1>3. ASSUME RequestInv PROVE entry = EntryOf(Case, nonces)
  <2> DEFINE answer == AnswerDue(Case)
  <2>1. /\ Answer.status = answer.status /\ Answer.receipt = answer.receipt
        /\ [Answer EXCEPT !.challenge = NoChallenge] = [answer EXCEPT !.challenge = NoChallenge]
    BY <1>1, <1>2, <1>3, AnswerKnown
  <2>2. answer = IF FirstAnswer(Case).status # 402 THEN FirstAnswer(Case) ELSE RetryAnswer(Case)
    <3>1. CASE flowPc = "initial"
      <4>1. answer = FirstAnswer(Case)
        BY <3>1 DEF AnswerDue
      <4>2. Answer.status # 402
        BY <1>1, <3>1
      <4>3. FirstAnswer(Case).status # 402
        BY <2>1, <4>1, <4>2
      <4> QED BY <4>1, <4>3
    <3>2. CASE flowPc = "retry"
      BY <1>1, <1>3, <3>2 DEF AnswerDue, RequestInv, Pays
    <3> QED BY <1>1, <3>1, <3>2
  <2>3. EntryOf(Case, nonces) = ClientEntry(Case, answer)
    BY <1>1, <1>3, <2>2 DEF EntryOf, RequestInv
  <2>4. outcome = IF "redirect_to" \in Case.has THEN CaseOutcome(TRUE, 0, "")
                  ELSE CaseOutcome(answer.status < 300 /\ answer.receipt # "", answer.status, "")
    BY <2>1
  <2> HIDE DEF outcome, answer
  <2>5. entry = EntryFor(Case, outcome, Unshown, first, answer)
    BY <2>1, NotShown DEF Entry, EntryFor
  <2> QED BY <1>2, <2>3, <2>4, <2>5 DEF ClientEntry, Plain
<1>4. entry.name = Case.name /\ error.name = Case.name
  BY DEF Entry
<1> HIDE DEF entry, error
<1>5. CASE Finish(entry) /\ UNCHANGED deviated
  <2>1. Grows
    BY <1>5 DEF Grows
  <2> QED BY <1>1, <1>2, <1>3, <1>4, <1>5, <2>1, EndFaith
<1>6. CASE Deviates(adapterNo) /\ Finish(error)
  <2>1. adapterNo' = adapterNo
    BY <1>6 DEF Finish, mainVars
  <2>2. Grows /\ ~Undisturbed'
    BY <1>2, <1>6, <2>1, AdapterDeviates
  <2> QED BY <1>1, <1>2, <1>4, <1>6, <2>2, EndFaith
<1> QED BY <1>1, <1>5, <1>6

LEMMA EndReplayFaith == ASSUME FlowInv, FaithInv, EndReplay PROVE FaithInv'
<1> DEFINE entry == Entry(CaseOutcome(TRUE, 200, ""), challenge, Status(Answer.status))
<1>1. /\ flowPc = "again" /\ Arrived /\ Finish(entry) /\ UNCHANGED serverVars
      /\ deviated' = deviated
  BY DEF EndReplay
<1>2. Waiting /\ Grows
  BY <1>1 DEF Waiting, Grows
<1>3. ASSUME RequestInv PROVE entry = EntryOf(Case, nonces)
  <2>1. Answer.status = AgainAnswer(Case).status
    BY <1>1, <1>2, <1>3, AnswerKnown DEF AnswerDue
  <2>2. /\ Kind(Case) = "payment" /\ Pays(Case) /\ "concurrent_replay" \in Case.has
        /\ first = RetryAnswer(Case).status /\ Numbered(challenge, Owed(Case))
        /\ Case.challengePath \in Paths
    BY <1>1, <1>3 DEF RequestInv
  <2>3. Shown(challenge) = ShownOf(Case, nonces)
    BY <2>2, ShownSame DEF FlowInv, ServerTypes
  <2>4. entry = EntryFor(Case, CaseOutcome(TRUE, 200, ""), ShownOf(Case, nonces),
                         RetryAnswer(Case).status, Status(AgainAnswer(Case).status))
    BY <2>1, <2>2, <2>3 DEF Entry, EntryFor
  <2>5. EntryOf(Case, nonces) =
          EntryFor(Case, CaseOutcome(TRUE, 200, ""), ShownOf(Case, nonces),
                   RetryAnswer(Case).status, Status(AgainAnswer(Case).status))
    BY <2>2 DEF EntryOf, Pays
  <2> QED BY <2>4, <2>5
<1>4. entry.name = Case.name
  BY DEF Entry
<1> HIDE DEF entry
<1> QED BY <1>1, <1>2, <1>3, <1>4, EndFaith

LEMMA EndCaseFaith == ASSUME FlowInv, FaithInv, EndCase PROVE FaithInv'
<1> DEFINE outcome == IF Answer.status = 402 THEN CaseOutcome(FALSE, 402, "payment_required")
                      ELSE CaseOutcome(Answer.status < 400, Answer.status, "")
           entry == Entry(outcome, challenge, Answer)
           bad == Entry(CaseOutcome(Answer.status < 400, Answer.status, ""), challenge,
                          [Answer EXCEPT !.receipt = "wrong"])
<1>1. /\ flowPc = "retry" /\ Arrived /\ Kind(Case) = "payment"
      /\ "concurrent_replay" \notin Case.has /\ UNCHANGED serverVars
      /\ \/ Finish(entry) /\ UNCHANGED deviated
         \/ Deviates(adapterNo) /\ Finish(bad)
  BY DEF EndCase
<1>2. Waiting /\ first = 0 /\ deviated \in Seq(Nat) /\ adapterNo \in Nat
  BY <1>1 DEF Waiting, FaithInv, RecordInv, FlowInv, FlowTypes
<1>3. ASSUME RequestInv PROVE entry = EntryOf(Case, nonces)
  <2> DEFINE answer == RetryAnswer(Case)
  <2>1. AnswerDue(Case) = answer
    BY <1>1 DEF AnswerDue
  <2>2. /\ Answer.status = answer.status
        /\ [Answer EXCEPT !.challenge = NoChallenge] = [answer EXCEPT !.challenge = NoChallenge]
    BY <1>1, <1>2, <1>3, <2>1, AnswerKnown
  <2>3. /\ Pays(Case) /\ Numbered(challenge, Owed(Case)) /\ Case.challengePath \in Paths
    BY <1>1, <1>3 DEF RequestInv
  <2>4. Shown(challenge) = ShownOf(Case, nonces)
    BY <2>3, ShownSame DEF FlowInv, ServerTypes
  <2>5. outcome = IF answer.status = 402 THEN CaseOutcome(FALSE, 402, "payment_required")
                  ELSE Below(400, answer)
    BY <2>2 DEF Below
  <2>6. EntryOf(Case, nonces) = PaidEntry(Case, nonces, answer)
    BY <1>1, <2>3 DEF EntryOf, Pays
  <2> HIDE DEF outcome, answer
  <2>7. entry = EntryFor(Case, outcome, ShownOf(Case, nonces), first, answer)
    BY <2>2, <2>4 DEF Entry, EntryFor
  <2> QED BY <1>2, <2>5, <2>6, <2>7 DEF PaidEntry
<1>4. entry.name = Case.name /\ bad.name = Case.name
  BY DEF Entry
<1> HIDE DEF entry, bad
<1>5. CASE Finish(entry) /\ UNCHANGED deviated
  <2>1. Grows
    BY <1>5 DEF Grows
  <2> QED BY <1>1, <1>2, <1>3, <1>4, <1>5, <2>1, EndFaith
<1>6. CASE Deviates(adapterNo) /\ Finish(bad)
  <2>1. adapterNo' = adapterNo
    BY <1>6 DEF Finish, mainVars
  <2>2. Grows /\ ~Undisturbed'
    BY <1>2, <1>6, <2>1, AdapterDeviates
  <2> QED BY <1>1, <1>2, <1>4, <1>6, <2>2, EndFaith
<1> QED BY <1>1, <1>5, <1>6

LEMMA CaseFailsFaith == ASSUME FlowInv, FaithInv, CaseRaises \/ RequestFails PROVE FaithInv'
<1> DEFINE entry == Entry(FlowError(0, "case_error"), NoChallenge, NoResponse)
<1>1. Waiting /\ Finish(entry) /\ UNCHANGED serverVars
  BY DEF CaseRaises, RequestFails
<1>2. deviated \in Seq(Nat) /\ adapterNo \in Nat /\ adapterNo' = adapterNo
  BY <1>1 DEF FaithInv, RecordInv, FlowInv, FlowTypes, Finish, mainVars
<1>3. entry.name = Case.name
  BY DEF Entry
<1> HIDE DEF entry
<1>4. Grows /\ ~Undisturbed'
  <2>1. CASE CaseRaises
    BY <1>2, <2>1, AdapterDeviates DEF CaseRaises
  <2>2. CASE RequestFails
    <3>1. server = "dead" /\ deviated' = deviated
      BY <2>2 DEF RequestFails
    <3>2. \E i \in 1..Len(deviated) : deviated[i] = 0
      BY <3>1 DEF FaithInv, RecordInv
    <3> QED BY <3>1, <3>2 DEF Grows, Undisturbed
  <2> QED BY <2>1, <2>2
<1> QED BY <1>1, <1>3, <1>4, EndFaith

LEMMA ServerDiesFaith == ASSUME FlowInv, FaithInv, ServerDies PROVE FaithInv'
<1>1. /\ Waiting /\ Deviates(0) /\ server' = "dead"
      /\ UNCHANGED <<requests, maps, nonces, flowPc, caseNo, challenge, first, reports>>
      /\ UNCHANGED <<flowMode, goldenOrder, adapterNo, golden, flowResults>>
  BY DEF ServerDies, mainVars
<1>2. deviated \in Seq(Nat) /\ MapsInv /\ SendersInv /\ RecordInv /\ FaithfulAdaptersPass
  BY DEF FaithInv, RecordInv
<1>3. Grows /\ \E i \in 1..Len(deviated') : deviated'[i] = 0
  BY <1>1, <1>2, DeviationNoted
<1>4. ~Undisturbed'
  BY <1>3 DEF Undisturbed
<1>5. MapsInv'
  BY <1>1, <1>2, MapsStay DEF maps
<1>6. SendersInv'
  <2>1. (flowPc = "wait" => requests = <<>>)'
    BY <1>1, <1>2 DEF SendersInv
  <2>2. (flowPc = "adapter" => \A i \in 1..Len(requests) : ReplaySent(requests[i].sent) =>
           /\ flowMode = "check"
           /\ \E a \in 1..Len(Adapters) : a < adapterNo
                                          /\ requests[i].sent.client = Adapters[a].name)'
    BY <1>1 DEF Waiting
  <2>3. InACase' <=> InACase
    BY <1>1 DEF InACase
  <2>4. (InACase /\ flowMode = "check" => \A i \in 1..Len(requests) : ReplaySent(requests[i].sent) =>
           \E a \in 1..Len(Adapters) : a <= adapterNo
                                       /\ requests[i].sent.client = Adapters[a].name)'
    BY <1>1, <1>2, <2>3 DEF SendersInv
  <2> QED BY <1>4, <2>1, <2>2, <2>4 DEF SendersInv
<1>7. RecordInv'
  <2>1. /\ deviated' \in Seq(Nat) /\ (flowMode = "update" => deviated' = deviated)
    BY <1>2, <1>3, DeviationsGrow
  <2>2. InACase' <=> InACase
    BY <1>1 DEF InACase
  <2>3. (flowMode = "check" => \A a \in 1..Len(Adapters) :
           a > adapterNo \/ (~InACase /\ a = adapterNo) => reports[a] = <<>>)'
    BY <1>1, <1>2, <2>2 DEF RecordInv
  <2>4. (flowMode = "check" \/ flowPc = "stop" => \E numbered \in BOOLEAN :
           /\ numbered => nonces
           /\ OnRecord(golden, goldenOrder, Len(goldenOrder) + 1, numbered, TRUE))'
    BY <1>1, <1>2 DEF RecordInv
  <2>5. (flowPc # "again" => first = 0)' /\ (flowMode = "update" => deviated = <<>>)'
    BY <1>1, <1>2, <2>1 DEF RecordInv
  <2> QED BY <1>3, <1>4, <2>1, <2>3, <2>4, <2>5 DEF RecordInv
<1>8. FaithfulAdaptersPass'
  BY <1>1, <1>2, <1>3, PassKept
<1> QED BY <1>4, <1>5, <1>6, <1>7, <1>8 DEF FaithInv

LEMMA SkipServerOnlyFaith == ASSUME FlowInv, FaithInv, SkipServerOnly PROVE FaithInv'
<1>1. /\ flowPc = "case" /\ flowPc' = "case" /\ InACase /\ InCase /\ "server_only" \in Case.has
      /\ caseNo' = caseNo + 1 /\ UNCHANGED <<serverVars, challenge, first, reports, deviated>>
      /\ UNCHANGED <<flowMode, goldenOrder, adapterNo, golden, flowResults>>
  BY DEF SkipServerOnly, InACase, mainVars
<1>2. UNCHANGED <<requests, acceptPaymentByPath, sideEffectsByKey, seenAuthorization, nonces,
                  server>>
  BY <1>1 DEF serverVars
<1>3. InACase' /\ ~Waiting' /\ Order' = Order /\ Client' = Client
      /\ (Undisturbed' <=> Undisturbed)
  BY <1>1 DEF InACase, Waiting, Order, Client, Undisturbed
<1>4. MapsInv'
  BY <1>2, MapsStay DEF FaithInv
<1>5. SendersInv'
  BY <1>1, <1>2, <1>3, NextCaseSenders DEF FaithInv
<1>6. FaithfulAdaptersPass'
  BY <1>1 DEF FaithInv, FaithfulAdaptersPass
<1>7. RecordInv'
  <2>1. ASSUME Undisturbed
        PROVE  OnRecord(reports[adapterNo], Order, caseNo + 1, nonces, Client.http)
    <3>1. caseNo \in 1..Len(Order) /\ Len(Order) \in Nat
      BY <1>1, CaseSeen, OrdersTyped DEF FlowInv
    <3>2. OnRecord(reports[adapterNo], Order, caseNo, nonces, Client.http)
      BY <1>1, <2>1 DEF FaithInv, RecordInv
    <3> QED BY <1>1, <3>1, <3>2, RecordSkip DEF Case
  <2>2. (InACase /\ Undisturbed =>
           OnRecord(reports[adapterNo], Order, caseNo, nonces, Client.http))'
    BY <1>1, <1>2, <1>3, <2>1
  <2>3. (flowMode = "check" \/ flowPc = "stop" => \E numbered \in BOOLEAN :
           /\ numbered => nonces
           /\ OnRecord(golden, goldenOrder, Len(goldenOrder) + 1, numbered, TRUE))'
    BY <1>1, <1>2 DEF FaithInv, RecordInv
  <2> QED BY <1>1, <1>2, <1>3, <2>2, <2>3 DEF FaithInv, RecordInv
<1> QED BY <1>3, <1>4, <1>5, <1>6, <1>7 DEF FaithInv

(* An empty report, and one of all the cases.                              *)
LEMMA NothingOnRecord ==
    ASSUME NEW order, Len(order) \in Nat, NEW numbered, NEW http
    PROVE  OnRecord(<<>>, order, 1, numbered, http)
BY DEF OnRecord

LEMMA AllOnRecord ==
    ASSUME NEW s, NEW order, Len(order) \in Nat, NEW n \in Nat, n > Len(order),
           NEW numbered, NEW http, OnRecord(s, order, n, numbered, http)
    PROVE  OnRecord(s, order, Len(order) + 1, numbered, http)
<1>1. \A k \in 1..Len(order) : k < n /\ k < Len(order) + 1
  OBVIOUS
<1>2. \A i \in 1..Len(s) : \E k \in 1..Len(order) :
        k < Len(order) + 1 /\ Records(s[i], order[k], numbered, http)
  BY <1>1 DEF OnRecord
<1>3. \A k \in 1..Len(order) :
        k < Len(order) + 1 /\ "server_only" \notin order[k].has =>
          \E i \in 1..Len(s) : s[i].name = order[k].name
  BY <1>1 DEF OnRecord
<1> QED BY <1>2, <1>3 DEF OnRecord

(* The result of a case shows the challenge that is paid for, or none.     *)
ShowsChallenge(c) ==
    /\ c.challengePath \in Paths /\ Kind(c) = "payment"
    /\ FirstAnswer(c).status = 402 /\ Owed(c) # NoChallenge

LEMMA EntryUnshown ==
    ASSUME NEW c, NEW n, NEW m, ~ShowsChallenge(c)
    PROVE  EntryOf(c, n) = EntryOf(c, m)
<1>1. CASE c.challengePath \notin Paths
  BY <1>1 DEF EntryOf
<1>2. CASE c.challengePath \in Paths /\ Kind(c) # "payment"
  BY <1>2, KindKnown DEF EntryOf
<1>3. CASE /\ c.challengePath \in Paths /\ Kind(c) = "payment"
           /\ FirstAnswer(c).status # 402 \/ Owed(c) = NoChallenge
  BY <1>3 DEF EntryOf
<1> QED BY <1>1, <1>2, <1>3 DEF ShowsChallenge

(* What it says besides.                                                   *)
LEMMA EntryShown ==
    ASSUME NEW c, ShowsChallenge(c)
    PROVE  \E outcome, before, answer : /\ ~outcome.skipped
             /\ \A n : EntryOf(c, n) = EntryFor(c, outcome, ShownOf(c, n), before, answer)
<1>1. CASE "concurrent_replay" \in c.has
  <2>1. \A n : EntryOf(c, n) = EntryFor(c, CaseOutcome(TRUE, 200, ""), ShownOf(c, n),
                                       RetryAnswer(c).status, Status(AgainAnswer(c).status))
    BY <1>1 DEF EntryOf, ShowsChallenge
  <2> QED BY <2>1, NotSkipped
<1>2. CASE "concurrent_replay" \notin c.has
  <2> DEFINE outcome == IF RetryAnswer(c).status = 402
                        THEN CaseOutcome(FALSE, 402, "payment_required")
                        ELSE Below(400, RetryAnswer(c))
  <2>1. \A n : EntryOf(c, n) = PaidEntry(c, n, RetryAnswer(c))
    BY <1>2 DEF EntryOf, ShowsChallenge
  <2>2. \A n : EntryOf(c, n) = EntryFor(c, outcome, ShownOf(c, n), 0, RetryAnswer(c))
    BY <2>1 DEF PaidEntry
  <2>3. ~outcome.skipped
    BY DEF Below, CaseOutcome
  <2> HIDE DEF outcome
  <2> QED BY <2>2, <2>3
<1> QED BY <1>1, <1>2

LEMMA EntryPlain ==
    ASSUME NEW c, NEW outcome, NEW answer, ~outcome.skipped
    PROVE  Plain(c, outcome, answer).name = c.name /\ ~Plain(c, outcome, answer).outcome.skipped
BY DEF Plain, EntryFor

(* A case has the same result with and without nonces.                     *)
LEMMA NonceOrNot ==
    ASSUME NEW c, NEW n \in BOOLEAN, NEW m \in BOOLEAN, n => m
    PROVE  SameEntry(EntryOf(c, n), EntryOf(c, m))
<1>1. PICK e : e = EntryOf(c, n)
  OBVIOUS
<1>2. PICK f : f = EntryOf(c, m)
  OBVIOUS
<1>3. CASE e = f
  BY <1>1, <1>2, <1>3 DEF SameEntry
<1>4. CASE e # f
  <2>1. ShowsChallenge(c)
    BY <1>1, <1>2, <1>4, EntryUnshown
  <2>2. n = FALSE /\ m = TRUE
    <3>1. n # m
      BY <1>1, <1>2, <1>4
    <3> QED BY <3>1
  <2>3. PICK s : s = ShownOf(c, n)
    OBVIOUS
  <2>4. PICK t : t = ShownOf(c, m)
    OBVIOUS
  <2>5. s = t \/ (t.id = "nonce-bound" /\ s.path = t.path /\ s.query = t.query)
    BY <2>2, <2>3, <2>4 DEF ShownOf
  <2>6. PICK outcome, before, answer :
          \A b : EntryOf(c, b) = EntryFor(c, outcome, ShownOf(c, b), before, answer)
    BY <2>1, EntryShown
  <2>7. e = EntryFor(c, outcome, s, before, answer) /\ f = EntryFor(c, outcome, t, before, answer)
    BY <1>1, <1>2, <2>3, <2>4, <2>6
  <2>8. SameEntry(e, f)
    BY <2>5, <2>7 DEF SameEntry, EntryFor
  <2> QED BY <1>1, <1>2, <2>8
<1> QED BY <1>3, <1>4

LEMMA NeverSkipped ==
    ASSUME NEW c, NEW n
    PROVE  EntryOf(c, n).name = c.name /\ ~EntryOf(c, n).outcome.skipped
<1>1. CASE ShowsChallenge(c)
  <2>1. PICK outcome, before, answer :
          /\ ~outcome.skipped
          /\ \A b : EntryOf(c, b) = EntryFor(c, outcome, ShownOf(c, b), before, answer)
    BY <1>1, EntryShown
  <2>2. PICK shown : EntryOf(c, n) = EntryFor(c, outcome, shown, before, answer)
    BY <2>1
  <2> QED BY <2>1, <2>2 DEF EntryFor
<1>2. CASE ~ShowsChallenge(c)
  <2>1. \E outcome, answer : ~outcome.skipped /\ EntryOf(c, n) = Plain(c, outcome, answer)
    <3>1. CASE c.challengePath \notin Paths
      BY <3>1, NotSkipped DEF EntryOf
    <3>2. CASE c.challengePath \in Paths /\ Kind(c) \in {"discovery", "json_rpc"}
      BY <3>2, NotSkipped DEF EntryOf, Below
    <3>3. CASE c.challengePath \in Paths /\ Kind(c) = "client_flow"
      <4>1. PICK answer : EntryOf(c, n) = ClientEntry(c, answer)
        BY <3>3 DEF EntryOf
      <4>2. PICK outcome : ~outcome.skipped /\ ClientEntry(c, answer) = Plain(c, outcome, answer)
        BY NotSkipped DEF ClientEntry
      <4> QED BY <4>1, <4>2
    <3>4. CASE /\ c.challengePath \in Paths
               /\ Kind(c) = "no_payment" \/ (Kind(c) = "payment" /\ FirstAnswer(c).status # 402)
      <4>1. EntryOf(c, n) = UnpaidEntry(c, FirstAnswer(c))
        BY <3>4 DEF EntryOf
      <4>2. PICK outcome : /\ ~outcome.skipped
                           /\ UnpaidEntry(c, FirstAnswer(c)) = Plain(c, outcome, FirstAnswer(c))
        BY NotSkipped DEF UnpaidEntry, Below
      <4> QED BY <4>1, <4>2
    <3>5. CASE /\ c.challengePath \in Paths /\ Kind(c) = "payment"
               /\ FirstAnswer(c).status = 402 /\ Owed(c) = NoChallenge
      <4>1. EntryOf(c, n) = Plain(c, CaseOutcome(FALSE, 402, "challenge_parse_error"),
                                  FirstAnswer(c))
        BY <3>5 DEF EntryOf
      <4>2. PICK outcome : outcome = CaseOutcome(FALSE, 402, "challenge_parse_error")
        OBVIOUS
      <4>3. ~outcome.skipped
        BY <4>2 DEF CaseOutcome
      <4> QED BY <4>1, <4>2, <4>3
    <3> QED BY <1>2, <3>1, <3>2, <3>3, <3>4, <3>5, KindKnown DEF ShowsChallenge
  <2> QED BY <2>1, EntryPlain
<1> QED BY <1>1, <1>2

(* compare_results(): an adapter that did nothing wrong passes.            *)
LEMMA FaithfulCompared ==
    ASSUME NEW report, NEW order, Len(order) \in Nat, NEW n \in Nat, n > Len(order),
           \A j, k \in 1..Len(order) : order[j].name = order[k].name => j = k,
           NEW before \in BOOLEAN, NEW now \in BOOLEAN, before => now, NEW http,
           OnRecord(golden, order, Len(order) + 1, before, TRUE),
           OnRecord(report, order, n, now, http)
    PROVE  \A r \in CompareResults(report) : r.passed
<1>1. ASSUME NEW e \in Entries(report)
      PROVE  \E g \in Entries(golden) : g.name = e.name /\ Agrees(g, e)
  <2>1. PICK i \in 1..Len(report) : e = report[i]
    BY DEF Entries
  <2>2. PICK k \in 1..Len(order) : Records(e, order[k], now, http)
    BY <2>1 DEF OnRecord
  <2>3. k < Len(order) + 1 /\ "server_only" \notin order[k].has
    BY <2>2 DEF Records
  <2>4. PICK j \in 1..Len(golden) : golden[j].name = order[k].name
    BY <2>3 DEF OnRecord
  <2>5. PICK l \in 1..Len(order) : Records(golden[j], order[l], before, TRUE)
    BY DEF OnRecord
  <2>6. l = k
    BY <2>4, <2>5 DEF Records
  <2>7. golden[j] = EntryOf(order[k], before)
    BY <2>5, <2>6 DEF Records
  <2>8. golden[j] \in Entries(golden) /\ golden[j].name = e.name
    BY <2>2, <2>4 DEF Entries, Records
  <2>9. Agrees(golden[j], e)
    <3>1. CASE e = EntryOf(order[k], now)
      BY <2>7, <3>1, NonceOrNot DEF Agrees
    <3>2. CASE e.outcome.skipped
      BY <2>7, <3>2, NeverSkipped DEF Agrees
    <3> QED BY <2>2, <3>1, <3>2 DEF Records
  <2> QED BY <2>8, <2>9
<1>2. ASSUME NEW g \in Entries(golden) PROVE \E e \in Entries(report) : e.name = g.name
  <2>1. PICK j \in 1..Len(golden) : g = golden[j]
    BY DEF Entries
  <2>2. PICK k \in 1..Len(order) : Records(g, order[k], before, TRUE)
    BY <2>1 DEF OnRecord
  <2>3. k < n /\ "server_only" \notin order[k].has /\ g.name = order[k].name
    BY <2>2 DEF Records
  <2>4. PICK i \in 1..Len(report) : report[i].name = order[k].name
    BY <2>3 DEF OnRecord
  <2> QED BY <2>3, <2>4 DEF Entries
<1>3. ASSUME NEW r \in CompareResults(report) PROVE r.passed
  <2>1. \/ \E e \in Entries(report) :
             r = Verdict(e.name, \E g \in Entries(golden) : g.name = e.name /\ Agrees(g, e))
        \/ \E g \in Entries(golden) : \A e \in Entries(report) : e.name # g.name
    BY DEF CompareResults
  <2>2. PICK e \in Entries(report) :
          r = Verdict(e.name, \E g \in Entries(golden) : g.name = e.name /\ Agrees(g, e))
    BY <1>2, <2>1
  <2>3. \E g \in Entries(golden) : g.name = e.name /\ Agrees(g, e)
    BY <1>1
  <2> QED BY <2>2, <2>3 DEF Verdict
<1> QED BY <1>3

LEMMA VerdictsNumbered ==
    ASSUME NEW report, NEW r \in CompareResults(report) PROVE r.adapter = adapterNo
BY DEF CompareResults, Verdict

(* A step of main() out of a case: what is left to show.                   *)
LEMMA OutsideFaith ==
    ASSUME MapsInv', SendersInv', ~InACase', FaithfulAdaptersPass',
           deviated' \in Seq(Nat), flowMode' = "update" => deviated' = <<>>,
           server' = "dead" => \E i \in 1..Len(deviated') : deviated'[i] = 0,
           first' = 0,
           flowMode' = "check" => \A a \in 1..Len(Adapters) : a >= adapterNo' => reports'[a] = <<>>,
           adapterNo' \in Nat,
           flowMode' = "check" \/ flowPc' = "stop" => \E numbered \in BOOLEAN :
             /\ numbered => nonces'
             /\ OnRecord(golden', goldenOrder', Len(goldenOrder') + 1, numbered, TRUE)
    PROVE  FaithInv'
<1>1. ~Waiting'
  BY DEF InACase, Waiting
<1>2. (flowMode = "check" => \A a \in 1..Len(Adapters) :
         a > adapterNo \/ (~InACase /\ a = adapterNo) => reports[a] = <<>>)'
  OBVIOUS
<1>3. (InACase /\ Undisturbed =>
         OnRecord(reports[adapterNo], Order, caseNo, nonces, Client.http))'
  OBVIOUS
<1>4. RecordInv'
  BY <1>2, <1>3 DEF RecordInv
<1> QED BY <1>1, <1>4 DEF FaithInv

LEMMA OutsideSenders ==
    ASSUME ~InACase', flowPc' # "wait", flowPc' # "adapter" PROVE SendersInv'
BY DEF SendersInv

(* What is known out of a case.                                            *)
LEMMA Outside ==
    ASSUME FlowInv, FaithInv, ~InACase
    PROVE  /\ MapsInv /\ FaithfulAdaptersPass /\ deviated \in Seq(Nat) /\ first = 0
           /\ adapterNo \in Nat /\ flowMode \in {"update", "check"}
           /\ flowMode = "update" => deviated = <<>>
           /\ server = "dead" => \E i \in 1..Len(deviated) : deviated[i] = 0
           /\ flowMode = "check" =>
                \A a \in 1..Len(Adapters) : a >= adapterNo => reports[a] = <<>>
           /\ flowMode = "check" \/ flowPc = "stop" => \E numbered \in BOOLEAN :
                /\ numbered => nonces
                /\ OnRecord(golden, goldenOrder, Len(goldenOrder) + 1, numbered, TRUE)
<1>1. MapsInv /\ FaithfulAdaptersPass /\ RecordInv
  BY DEF FaithInv
<1>2. adapterNo \in Nat /\ flowMode \in {"update", "check"}
  BY DEF FlowInv, FlowTypes
<1>3. flowPc # "again"
  BY DEF InACase
<1>4. ASSUME flowMode = "check", NEW a \in 1..Len(Adapters), a >= adapterNo
      PROVE  reports[a] = <<>>
  <2>1. a > adapterNo \/ a = adapterNo
    BY <1>2, <1>4
  <2> QED BY <1>1, <1>4, <2>1 DEF RecordInv
<1> QED BY <1>1, <1>2, <1>3, <1>4 DEF RecordInv

LEMMA LaunchFaith == ASSUME FlowInv, FaithInv, Launch PROVE FaithInv'
<1>1. /\ flowPc = "launch" /\ flowPc' = "wait" /\ StartServer
      /\ UNCHANGED <<caseNo, first, reports, deviated>>
      /\ UNCHANGED <<flowMode, goldenOrder, adapterNo, golden, flowResults>>
  BY DEF Launch, mainVars
<1>2. ~InACase /\ ~InACase'
  BY <1>1 DEF InACase
<1>3. server' = "starting" /\ nonces' = nonces /\ MapsInv' /\ requests' = <<>>
  BY <1>1, StartServerMaps DEF StartServer
<1>4. SendersInv'
  BY <1>1, <1>2, <1>3 DEF SendersInv
<1>5. FaithfulAdaptersPass'
  BY <1>1 DEF FaithInv, FaithfulAdaptersPass
<1> QED BY <1>1, <1>2, <1>3, <1>4, <1>5, Outside, OutsideFaith

LEMMA ServerReadyFaith == ASSUME FlowInv, FaithInv, ServerReady PROVE FaithInv'
<1>1. /\ flowPc = "wait" /\ flowPc' = "adapter" /\ server' = "up"
      /\ UNCHANGED <<requests, maps, nonces, caseNo, first, reports, deviated>>
      /\ UNCHANGED <<flowMode, goldenOrder, adapterNo, golden, flowResults>>
  BY DEF ServerReady, mainVars
<1>2. ~InACase /\ ~InACase'
  BY <1>1 DEF InACase
<1>3. MapsInv'
  BY <1>1, MapsStay DEF FaithInv, maps
<1>4. SendersInv'
  <2>1. requests' = <<>>
    BY <1>1 DEF FaithInv, SendersInv
  <2>2. Len(requests') = 0
    BY <2>1
  <2> QED BY <1>1, <1>2, <2>2 DEF SendersInv
<1>5. FaithfulAdaptersPass'
  BY <1>1 DEF FaithInv, FaithfulAdaptersPass
<1> QED BY <1>1, <1>2, <1>3, <1>4, <1>5, Outside, OutsideFaith

LEMMA ServerNeverStartsFaith == ASSUME FlowInv, FaithInv, ServerNeverStarts PROVE FaithInv'
<1>1. /\ flowPc = "wait" /\ flowPc' = "stop" /\ Deviates(0)
      /\ UNCHANGED <<serverVars, caseNo, first, reports>>
      /\ UNCHANGED <<flowMode, goldenOrder, adapterNo, golden, flowResults>>
  BY DEF ServerNeverStarts, EndWith
<1>2. UNCHANGED <<requests, acceptPaymentByPath, sideEffectsByKey, seenAuthorization, nonces,
                  server>>
  BY <1>1 DEF serverVars
<1>3. ~InACase /\ ~InACase'
  BY <1>1 DEF InACase
<1>4. MapsInv' /\ SendersInv'
  BY <1>1, <1>2, <1>3, MapsStay, OutsideSenders DEF FaithInv
<1>5. Grows /\ flowMode = "check"
  BY <1>1 DEF Grows, Deviates
<1>6. /\ deviated' \in Seq(Nat)
      /\ \A i \in 1..Len(deviated) : i \in 1..Len(deviated') /\ deviated'[i] = deviated[i]
  BY <1>3, <1>5, Outside, DeviationsGrow
<1>7. FaithfulAdaptersPass'
  BY <1>1, <1>3, <1>5, Outside, PassKept
<1>8. server' = "dead" => \E i \in 1..Len(deviated') : deviated'[i] = 0
  BY <1>2, <1>3, <1>6, Outside
<1> QED BY <1>1, <1>2, <1>3, <1>4, <1>5, <1>6, <1>7, <1>8, Outside, OutsideFaith

LEMMA SumUpFaith == ASSUME FlowInv, FaithInv, SumUp PROVE FaithInv'
<1>1. /\ flowPc = "adapter" /\ flowPc' = "stop" /\ flowMode = "check"
      /\ UNCHANGED <<serverVars, caseNo, first, reports, deviated>>
      /\ UNCHANGED <<flowMode, goldenOrder, adapterNo, golden, flowResults>>
  BY DEF SumUp, EndWith
<1>2. UNCHANGED <<requests, acceptPaymentByPath, sideEffectsByKey, seenAuthorization, nonces,
                  server>>
  BY <1>1 DEF serverVars
<1>3. ~InACase /\ ~InACase'
  BY <1>1 DEF InACase
<1>4. MapsInv' /\ SendersInv'
  BY <1>1, <1>2, <1>3, MapsStay, OutsideSenders DEF FaithInv
<1>5. FaithfulAdaptersPass'
  BY <1>1 DEF FaithInv, FaithfulAdaptersPass
<1> QED BY <1>1, <1>2, <1>3, <1>4, <1>5, Outside, OutsideFaith

LEMMA StopServerFaith == ASSUME FlowInv, FaithInv, StopServer PROVE FaithInv'
<1>1. /\ flowPc = "stop" /\ flowMode' = "check" /\ server' = "off"
      /\ flowPc' \in {"launch", "done"} /\ nonces' \in {nonces, TRUE}
      /\ UNCHANGED <<requests, acceptPaymentByPath, sideEffectsByKey, seenAuthorization>>
      /\ UNCHANGED <<first, reports, deviated, goldenOrder, adapterNo, golden, flowResults>>
  BY DEF StopServer, maps
<1>2. ~InACase /\ ~InACase'
  BY <1>1 DEF InACase
<1>3. MapsInv' /\ SendersInv'
  BY <1>1, <1>2, MapsStay, OutsideSenders DEF FaithInv
<1>4. FaithfulAdaptersPass'
  BY <1>1 DEF FaithInv, FaithfulAdaptersPass
<1>5. ASSUME NEW a \in 1..Len(Adapters), a >= adapterNo PROVE reports[a] = <<>>
  <2>1. CASE flowMode = "check"
    BY <1>2, <1>5, <2>1, Outside
  <2>2. CASE flowMode = "update"
    BY <1>2, <2>2 DEF FlowInv, UpdateInv
  <2> QED BY <1>2, <2>1, <2>2, Outside
<1>6. PICK numbered \in BOOLEAN :
        /\ numbered => nonces
        /\ OnRecord(golden, goldenOrder, Len(goldenOrder) + 1, numbered, TRUE)
  BY <1>1, <1>2, Outside
<1>7. numbered => nonces'
  BY <1>1, <1>6
<1> QED BY <1>1, <1>2, <1>3, <1>4, <1>5, <1>6, <1>7, Outside, OutsideFaith

(* The first case of an adapter: nobody has used its name before.          *)
LEMMA BeginAdapterFaith == ASSUME FlowInv, FaithInv, BeginAdapter PROVE FaithInv'
<1>1. /\ flowPc = "adapter" /\ flowPc' = "case" /\ caseNo' = 1
      /\ flowMode = "check" => adapterNo <= Len(Adapters)
      /\ UNCHANGED <<serverVars, first, reports, deviated>>
      /\ UNCHANGED <<flowMode, goldenOrder, adapterNo, golden, flowResults>>
  BY DEF BeginAdapter, mainVars
<1>2. UNCHANGED <<requests, acceptPaymentByPath, sideEffectsByKey, seenAuthorization, nonces,
                  server>>
  BY <1>1 DEF serverVars
<1>3. ~InACase /\ InACase' /\ ~Waiting'
  BY <1>1 DEF InACase, Waiting
<1>4. Order' = Order /\ Client' = Client /\ (Undisturbed' <=> Undisturbed)
  BY <1>1 DEF Order, Client, Undisturbed
<1>5. MapsInv' /\ FaithfulAdaptersPass'
  BY <1>1, <1>2, MapsStay DEF FaithInv, FaithfulAdaptersPass
<1>6. \A i \in 1..Len(requests) : ReplaySent(requests[i].sent) =>
         /\ flowMode = "check"
         /\ \E a \in 1..Len(Adapters) : a < adapterNo /\ requests[i].sent.client = Adapters[a].name
  BY <1>1 DEF FaithInv, SendersInv
<1>7. ASSUME NEW i \in 1..Len(requests), ReplaySent(requests[i].sent)
      PROVE  /\ \E a \in 1..Len(Adapters) : a <= adapterNo
                                            /\ requests[i].sent.client = Adapters[a].name
             /\ requests[i].sent.client # Client.name
  <2>1. flowMode = "check" /\ adapterNo \in 1..Len(Adapters) /\ Client = Adapters[adapterNo]
    BY <1>1, <1>6, <1>7, AdaptersAsked DEF FlowInv, FlowTypes, Client
  <2>2. PICK a \in 1..Len(Adapters) : a < adapterNo /\ requests[i].sent.client = Adapters[a].name
    BY <1>6, <1>7
  <2>3. a <= adapterNo /\ a # adapterNo
    BY <2>1, <2>2
  <2>4. Adapters[a].name # Adapters[adapterNo].name
    BY <2>1, <2>3, FlowAssumption
  <2> QED BY <2>1, <2>2, <2>3, <2>4
<1>8. SendersInv'
  <2>1. (InACase /\ flowMode = "check" => \A i \in 1..Len(requests) :
           ReplaySent(requests[i].sent) =>
             \E a \in 1..Len(Adapters) : a <= adapterNo
                                         /\ requests[i].sent.client = Adapters[a].name)'
    BY <1>1, <1>2, <1>7
  <2>2. (InACase /\ Undisturbed => \A i \in 1..Len(requests) :
           ReplaySent(requests[i].sent) /\ requests[i].sent.client = Client.name =>
             /\ requests[i].sent.auth.path = requests[i].sent.path
             /\ \E k \in 1..Len(Order) :
                  /\ k <= caseNo /\ Order[k].path = requests[i].sent.path
                  /\ k = caseNo => \/ flowPc = "again"
                                   \/ (flowPc = "retry" /\ i = Len(requests)))'
    BY <1>2, <1>4, <1>7
  <2> QED BY <1>1, <2>1, <2>2 DEF SendersInv
<1>9. RecordInv'
  <2>1. reports[adapterNo] = <<>>
    <3>1. CASE flowMode = "check"
      <4>1. adapterNo \in 1..Len(Adapters) /\ adapterNo >= adapterNo
        BY <1>1, <3>1, AdaptersAsked DEF FlowInv, FlowTypes
      <4> QED BY <1>3, <3>1, <4>1, Outside
    <3>2. CASE flowMode = "update"
      BY <1>3, <3>2 DEF FlowInv, UpdateInv
    <3> QED BY <1>3, <3>1, <3>2, Outside
  <2>2. OnRecord(<<>>, Order, 1, nonces, Client.http)
    BY OrdersTyped, NothingOnRecord DEF FlowInv
  <2>3. OnRecord(reports[adapterNo], Order, 1, nonces, Client.http)
    BY <2>1, <2>2
  <2>4. (InACase /\ Undisturbed =>
           OnRecord(reports[adapterNo], Order, caseNo, nonces, Client.http))'
    BY <1>1, <1>2, <1>4, <2>3
  <2>5. (flowMode = "check" => \A a \in 1..Len(Adapters) :
           a > adapterNo \/ (~InACase /\ a = adapterNo) => reports[a] = <<>>)'
    BY <1>1, <1>3 DEF FaithInv, RecordInv
  <2>6. (flowMode = "check" \/ flowPc = "stop" => \E numbered \in BOOLEAN :
           /\ numbered => nonces
           /\ OnRecord(golden, goldenOrder, Len(goldenOrder) + 1, numbered, TRUE))'
    BY <1>1, <1>2 DEF FaithInv, RecordInv
  <2>7. (deviated \in Seq(Nat) /\ (flowMode = "update" => deviated = <<>>) /\ first = 0)'
    BY <1>1, <1>3, Outside
  <2>8. (server = "dead" => \E i \in 1..Len(deviated) : deviated[i] = 0)'
    BY <1>1, <1>2, <1>3, Outside
  <2> QED BY <2>4, <2>5, <2>6, <2>7, <2>8 DEF RecordInv
<1> QED BY <1>3, <1>5, <1>8, <1>9 DEF FaithInv

(* Verdicts come in for the adapter under way; it is over.                 *)
LEMMA NextAdapterFaith ==
    ASSUME FlowInv, FaithInv, flowMode = "check", flowPc \in {"adapter", "case"},
           flowPc' = "adapter", adapterNo' = adapterNo + 1, Grows,
           UNCHANGED <<serverVars, first, reports, flowMode, goldenOrder, golden>>,
           \A r \in flowResults' :
             r \in flowResults \/ (r.adapter = adapterNo
               /\ (/\ goldenOrder = CaseOrder
                   /\ \A i \in 1..Len(deviated') : deviated'[i] \notin {0, adapterNo}
                   /\ Adapters[adapterNo].known
                   => r.passed))
    PROVE  FaithInv'
<1>1. UNCHANGED <<requests, acceptPaymentByPath, sideEffectsByKey, seenAuthorization, nonces,
                  server>>
  BY DEF serverVars
<1>2. /\ MapsInv /\ FaithfulAdaptersPass /\ SendersInv /\ RecordInv /\ deviated \in Seq(Nat)
      /\ adapterNo \in Nat /\ flowPc # "again" /\ first = 0
  BY DEF FaithInv, RecordInv, FlowInv, FlowTypes
<1>3. /\ deviated' \in Seq(Nat) /\ ~InACase' /\ MapsInv'
      /\ \A i \in 1..Len(deviated) : i \in 1..Len(deviated') /\ deviated'[i] = deviated[i]
  BY <1>1, <1>2, DeviationsGrow, MapsStay DEF InACase
<1>4. ASSUME NEW i \in 1..Len(requests), ReplaySent(requests[i].sent)
      PROVE  \E a \in 1..Len(Adapters) : a < adapterNo + 1
                                         /\ requests[i].sent.client = Adapters[a].name
  <2>1. PICK a \in 1..Len(Adapters) : a <= adapterNo /\ requests[i].sent.client = Adapters[a].name
    <3>1. CASE flowPc = "adapter"
      BY <1>2, <1>4, <3>1 DEF SendersInv
    <3>2. CASE flowPc = "case"
      BY <1>2, <1>4, <3>2 DEF SendersInv, InACase
    <3> QED BY <3>1, <3>2
  <2>2. a < adapterNo + 1
    BY <1>2, <2>1
  <2> QED BY <2>1, <2>2
<1>5. SendersInv'
  <2>1. (flowPc = "adapter" => \A i \in 1..Len(requests) : ReplaySent(requests[i].sent) =>
           /\ flowMode = "check"
           /\ \E a \in 1..Len(Adapters) : a < adapterNo
                                          /\ requests[i].sent.client = Adapters[a].name)'
    BY <1>1, <1>4
  <2> QED BY <1>3, <2>1 DEF SendersInv
<1>6. FaithfulAdaptersPass'
  <2> SUFFICES ASSUME NEW r \in flowResults', goldenOrder = CaseOrder,
                      \A i \in 1..Len(deviated') : deviated'[i] \notin {0, r.adapter},
                      Adapters[r.adapter].known
               PROVE  r.passed
    BY DEF FaithfulAdaptersPass
  <2>1. CASE r \in flowResults
    <3>1. \A i \in 1..Len(deviated) : deviated[i] \notin {0, r.adapter}
      BY <1>3
    <3> QED BY <1>2, <2>1, <3>1 DEF FaithfulAdaptersPass
  <2>2. CASE r \notin flowResults
    BY <2>2
  <2> QED BY <2>1, <2>2
<1>7. \A a \in 1..Len(Adapters) : a >= adapterNo + 1 => reports[a] = <<>>
  BY <1>2 DEF RecordInv
<1>8. server' = "dead" => \E i \in 1..Len(deviated') : deviated'[i] = 0
  BY <1>1, <1>2, <1>3 DEF RecordInv
<1>9. \E numbered \in BOOLEAN :
        /\ numbered => nonces
        /\ OnRecord(golden, goldenOrder, Len(goldenOrder) + 1, numbered, TRUE)
  BY <1>2 DEF RecordInv
<1>10. /\ first' = 0 /\ adapterNo' \in Nat /\ flowMode' # "update"
       /\ \A a \in 1..Len(Adapters) : a >= adapterNo' => reports'[a] = <<>>
  BY <1>2, <1>7
<1>11. \E numbered \in BOOLEAN :
         /\ numbered => nonces'
         /\ OnRecord(golden', goldenOrder', Len(goldenOrder') + 1, numbered, TRUE)
  <2>1. golden' = golden /\ goldenOrder' = goldenOrder /\ nonces' = nonces
    BY <1>1
  <2> QED BY <1>9, <2>1
<1> QED BY <1>3, <1>5, <1>6, <1>8, <1>10, <1>11, OutsideFaith

LEMMA RefuseAdapterFaith == ASSUME FlowInv, FaithInv, RefuseAdapter PROVE FaithInv'
<1>1. /\ flowPc = "adapter" /\ flowPc' = "adapter" /\ flowMode = "check"
      /\ IF Client.known THEN Deviates(adapterNo) ELSE UNCHANGED deviated
      /\ flowResults' = flowResults \cup {Verdict("adapter-run", FALSE)}
      /\ adapterNo' = adapterNo + 1
      /\ UNCHANGED <<serverVars, first, reports, flowMode, goldenOrder, golden>>
  BY DEF RefuseAdapter
<1>2. deviated \in Seq(Nat) /\ adapterNo \in Nat
  BY DEF FaithInv, RecordInv, FlowInv, FlowTypes
<1>3. Grows
  BY <1>1, <1>2 DEF Grows
<1>4. ~(/\ \A i \in 1..Len(deviated') : deviated'[i] \notin {0, adapterNo}
        /\ Adapters[adapterNo].known)
  <2>1. CASE Client.known
    BY <1>1, <1>2, <2>1, DeviationNoted
  <2>2. CASE ~Client.known
    BY <1>1, <2>2 DEF Client
  <2> QED BY <2>1, <2>2
<1>5. Verdict("adapter-run", FALSE).adapter = adapterNo
  BY DEF Verdict
<1> QED BY <1>1, <1>3, <1>4, <1>5, NextAdapterFaith

LEMMA EndAdapterFaith == ASSUME FlowInv, FaithInv, EndAdapter PROVE FaithInv'
<1>1. /\ flowPc = "case" /\ flowPc' = "adapter" /\ flowMode = "check" /\ ~InCase
      /\ flowResults' = flowResults \cup CompareResults(reports[adapterNo])
      /\ adapterNo' = adapterNo + 1 /\ deviated' = deviated
      /\ UNCHANGED <<serverVars, first, reports, flowMode, goldenOrder, golden>>
  BY DEF EndAdapter
<1>2. Grows /\ InACase
  BY <1>1 DEF Grows, InACase
<1>3. ASSUME goldenOrder = CaseOrder,
             \A i \in 1..Len(deviated) : deviated[i] \notin {0, adapterNo}
      PROVE  \A r \in CompareResults(reports[adapterNo]) : r.passed
  <2>1. Undisturbed /\ Order = CaseOrder
    BY <1>1, <1>3 DEF Undisturbed, Order
  <2>2. OnRecord(reports[adapterNo], Order, caseNo, nonces, Client.http)
    BY <1>2, <2>1 DEF FaithInv, RecordInv
  <2>3. PICK numbered \in BOOLEAN :
          /\ numbered => nonces
          /\ OnRecord(golden, goldenOrder, Len(goldenOrder) + 1, numbered, TRUE)
    BY <1>1 DEF FaithInv, RecordInv
  <2>4. Len(Order) \in Nat /\ caseNo \in Nat /\ caseNo > Len(Order) /\ nonces \in BOOLEAN
    BY <1>1, OrdersTyped DEF FlowInv, FlowTypes, ServerTypes, InCase
  <2>5. \A j, k \in 1..Len(Order) : Order[j].name = Order[k].name => j = k
    BY <2>1, OrderDistinct
  <2>6. OnRecord(golden, Order, Len(Order) + 1, numbered, TRUE)
    BY <1>3, <2>1, <2>3
  <2> QED BY <2>2, <2>3, <2>4, <2>5, <2>6, FaithfulCompared
<1>4. \A r \in CompareResults(reports[adapterNo]) : r.adapter = adapterNo
  BY VerdictsNumbered
<1> QED BY <1>1, <1>2, <1>3, <1>4, NextAdapterFaith

(* The golden results are those of an adapter that did nothing wrong.      *)
LEMMA WriteGoldenFaith == ASSUME FlowInv, FaithInv, WriteGolden PROVE FaithInv'
<1>1. /\ flowPc = "case" /\ flowPc' = "stop" /\ flowMode = "update" /\ ~InCase
      /\ golden' = reports[1]
      /\ UNCHANGED <<serverVars, first, deviated, flowMode, goldenOrder, adapterNo, flowResults>>
  BY DEF WriteGolden, EndWith
<1>2. UNCHANGED <<requests, acceptPaymentByPath, sideEffectsByKey, seenAuthorization, nonces,
                  server>>
  BY <1>1 DEF serverVars
<1>3. InACase /\ ~InACase'
  BY <1>1 DEF InACase
<1>4. MapsInv' /\ SendersInv'
  BY <1>1, <1>2, <1>3, MapsStay, OutsideSenders DEF FaithInv
<1>5. FaithfulAdaptersPass'
  BY <1>1 DEF FaithInv, FaithfulAdaptersPass
<1>6. /\ deviated = <<>> /\ deviated \in Seq(Nat) /\ first = 0 /\ adapterNo = 1
      /\ server = "dead" => \E i \in 1..Len(deviated) : deviated[i] = 0
  BY <1>1 DEF FaithInv, RecordInv, FlowInv, UpdateInv
<1>7. Undisturbed
  <2>1. Len(deviated) = 0
    BY <1>6
  <2> QED BY <1>1, <2>1 DEF Undisturbed
<1>8. Order = goldenOrder /\ Client.http = TRUE
  BY <1>1, FlowAssumption DEF Order, Client, FlowAdapterType
<1>9. OnRecord(reports[1], goldenOrder, caseNo, nonces, TRUE)
  <2>1. OnRecord(reports[adapterNo], Order, caseNo, nonces, Client.http)
    BY <1>3, <1>7 DEF FaithInv, RecordInv
  <2> QED BY <1>6, <1>8, <2>1
<1>10. Len(goldenOrder) \in Nat /\ caseNo \in Nat /\ caseNo > Len(goldenOrder)
       /\ nonces \in BOOLEAN
  BY <1>1, <1>8, OrdersTyped DEF FlowInv, FlowTypes, ServerTypes, InCase
<1>11. OnRecord(reports[1], goldenOrder, Len(goldenOrder) + 1, nonces, TRUE)
  BY <1>9, <1>10, AllOnRecord
<1>12. \E numbered \in BOOLEAN :
         /\ numbered => nonces
         /\ OnRecord(golden', goldenOrder, Len(goldenOrder) + 1, numbered, TRUE)
  BY <1>1, <1>10, <1>11
<1> QED BY <1>1, <1>2, <1>3, <1>4, <1>5, <1>6, <1>12, OutsideFaith

LEMMA FaithInitOK == FlowInit => FaithInv
<1> SUFFICES ASSUME NEW order \in GoldenOrders, NEW hasNonces \in BOOLEAN,
                    FlowStart(order, hasNonces)
             PROVE  FaithInv
  BY DEF FlowInit
<1>1. /\ requests = <<>> /\ seenAuthorization = {} /\ server = "off"
      /\ acceptPaymentByPath = Unset /\ sideEffectsByKey = NoEffects
      /\ flowMode = "update" /\ flowPc = "launch" /\ first = 0 /\ flowResults = {}
      /\ deviated = <<>>
  BY DEF FlowStart, ServerStart
<1>2. Len(<<>>) = 0 /\ <<>> \in Seq(Nat)
  BY EmptySeq
<1>3. ~InACase /\ ~Waiting
  BY <1>1 DEF InACase, Waiting
<1>4. MapsInv
  BY <1>1, <1>2 DEF MapsInv, Unset, NoEffects
<1>5. SendersInv /\ RecordInv /\ FaithfulAdaptersPass
  BY <1>1, <1>2, <1>3 DEF SendersInv, RecordInv, FaithfulAdaptersPass
<1> QED BY <1>3, <1>4, <1>5 DEF FaithInv

LEMMA FaithStutters == ASSUME FaithInv, UNCHANGED flowVars PROVE FaithInv'
<1>1. RunnerStays /\ UNCHANGED <<requests, acceptPaymentByPath, sideEffectsByKey,
                                 seenAuthorization, nonces, server>>
  BY DEF flowVars, serverVars, mainVars, RunnerStays
<1>2. MapsInv' /\ RecordInv' /\ FaithfulAdaptersPass'
  BY <1>1, MapsStay, RecordStays, PassStays DEF FaithInv
<1>3. SendersInv'
  BY <1>1, WhatStays DEF FaithInv, SendersInv
<1>4. (Waiting /\ Undisturbed => RequestInv)'
  <2>1. Newest' = Newest /\ (Arrived' <=> Arrived) /\ Answer' = Answer
    BY <1>1 DEF Newest, Arrived, Answer
  <2> QED BY <1>1, <2>1, WhatStays DEF FaithInv, RequestInv, AskedAs, AnsweredAs, AskDue,
             AnswerDue, Numbered, Authorization
<1> QED BY <1>2, <1>3, <1>4 DEF FaithInv

(* FaithInv is an invariant of the flow runner and its server: what an     *)
(* adapter that does nothing wrong is answered, and has on record, depends *)
(* on the case alone.                                                      *)
THEOREM AnswersDependOnTheCase == FlowSpec => []FaithInv
<1>1. FlowInv /\ FaithInv /\ [FlowNext]_flowVars => FaithInv'
  <2> SUFFICES ASSUME FlowInv, FaithInv, [FlowNext]_flowVars PROVE FaithInv'
    OBVIOUS
  <2>1. CASE UNCHANGED flowVars
    BY <2>1, FaithStutters
  <2>2. CASE FlowNext
    BY <2>2, LaunchFaith, ServerReadyFaith, ServerNeverStartsFaith, BeginAdapterFaith,
       RefuseAdapterFaith, EndAdapterFaith, WriteGoldenFaith, SumUpFaith, StopServerFaith,
       StartCaseFaith, SkipServerOnlyFaith, RefuseCaseFaith, EndDiscoveryFaith,
       RetryJsonRpcFaith, EndJsonRpcFaith, EndClientCaseFaith, EndWithoutPaymentFaith,
       ParseFailsFaith, SendRetryFaith, SendAgainFaith, EndReplayFaith, EndCaseFaith,
       CaseFailsFaith, ServerDiesFaith, ServerHandlesFaith DEF FlowNext
  <2> QED BY <2>1, <2>2
<1> QED BY <1>1, FaithInitOK, FlowInvariant, PTL DEF FlowSpec

(* Cases and adapters do not disturb each other: an adapter that does      *)
(* nothing wrong passes, whatever others or its late requests do.          *)
THEOREM AdaptersDoNotDisturb == FlowSpec => []FaithfulAdaptersPass
<1>1. FaithInv => FaithfulAdaptersPass
  BY DEF FaithInv
<1> QED BY <1>1, AnswersDependOnTheCase, PTL

=============================================================================
