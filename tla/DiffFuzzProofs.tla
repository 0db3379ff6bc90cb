--------------------------- MODULE DiffFuzzProofs ---------------------------
(* Theorems about adapter sessions and the fuzzer that uses them, for any
   adapters, calls, faults, answers, allowlist and budget. *)
EXTENDS DiffFuzz, FiniteSetTheorems, TLAPS

(***************************************************************************)
(* Sessions: what one promises its caller, for any number of sessions,     *)
(* calls and faults and whatever adapters answer.                          *)
(***************************************************************************)

Line == [to : Nat, says : Answers] \cup {EndOfOutput}
Response == Line \cup {TimedOut, ProcessFailed}
Process ==
  [leader : {"runs", "killed", "exited"}, child : BOOLEAN, stdin : Seq(Nat), lines : Seq(Line)]

\* Every variable has its type, and a current process is one that was started.
TypeOK ==
  /\ processes \in [Sessions -> Seq(Process)]
  /\ process \in [Sessions -> Nat]
  /\ \A s \in Sessions : process[s] \in 0..Len(processes[s])
  /\ exchange \in [Sessions -> {"idle", "write", "wait", "exit", "returned"}]
  /\ request \in [Sessions -> Nat]
  /\ response \in [Sessions -> Response]
  /\ faults \in Nat

\* A queue without an answer.
NoAnswer(p) == \A i \in 1..Len(p.lines) : p.lines[i] = EndOfOutput

\* Between two calls a process that is still used owes nothing.
Tidy(p) == p.stdin = <<>> /\ NoAnswer(p)

\* During the call with request r it owes one answer, or has given it.
Owes(p, r) ==
  \/ p.stdin \in {<<>>, <<r>>} /\ NoAnswer(p)
  \/ /\ p.stdin = <<>>
     /\ p.lines # <<>>
     /\ Head(p.lines).to = r
     /\ \A i \in 2..Len(p.lines) : p.lines[i] = EndOfOutput

\* What a call returned: the answer to its request, or an error of the session,
\* which has no process then.
Reply(s) ==
  \/ response[s] \in {TimedOut, ProcessFailed} /\ process[s] = 0
  \/ response[s].says \in Answers /\ response[s].to = request[s]

\* The inductive invariant, for one session: what a timed-out or failed call
\* leaves behind is in a queue that no later call reads.
SessionInv(s) ==
  /\ exchange[s] \in {"write", "wait", "exit"} => process[s] # 0
  /\ process[s] \in {0, Len(processes[s])}
  /\ process[s] # 0 =>
       /\ Current(s).leader # "killed"
       /\ IF exchange[s] \in {"wait", "exit"} THEN Owes(Current(s), request[s]) ELSE Tidy(Current(s))
  /\ exchange[s] = "returned" => Reply(s)
  /\ \A p \in 1..Len(processes[s]) :
       p # process[s] => Gone(processes[s][p]) \/ Forgotten(s, p)

IInv == TypeOK /\ \A s \in Sessions : SessionInv(s)

-----------------------------------------------------------------------------

LEMMA OfSessionTyped ==
  /\ EndOfOutput \in Line /\ TimedOut \in Response /\ ProcessFailed \in Response
  /\ EndOfOutput.to = 0 /\ TimedOut.to = 0 /\ ProcessFailed.to = 0
BY DEF EndOfOutput, TimedOut, ProcessFailed, OfSession, Line, Response

LEMMA FreshTyped == Fresh \in Process /\ Tidy(Fresh) /\ Fresh.leader = "runs"
BY DEF Fresh, Process, Tidy, NoAnswer

LEMMA InitInv == (\E n \in Nat : SessionInit(n)) => IInv
BY OfSessionTyped DEF SessionInit, IInv, TypeOK, SessionInv, TimedOut, OfSession

\* A session whose variables a step leaves alone keeps its invariant.
LEMMA Untouched ==
  ASSUME TypeOK, NEW t \in Sessions, SessionInv(t),
         processes'[t] = processes[t], process'[t] = process[t],
         exchange'[t] = exchange[t], request'[t] = request[t], response'[t] = response[t]
  PROVE  SessionInv(t)'
BY DEF SessionInv, Current, Reply, Forgotten

-----------------------------------------------------------------------------
(* The caller's steps. *)

LEMMA BeginKeeps ==
  ASSUME IInv, NEW s \in Sessions, BeginExchange(s)
  PROVE  IInv'
<1> DEFINE L == Len(processes[s])
<1>1. TypeOK /\ SessionInv(s) /\ exchange[s] = "idle"
  BY DEF IInv, BeginExchange
<1>2. /\ exchange' = [exchange EXCEPT ![s] = "write"]
      /\ request' = [request EXCEPT ![s] = @ + 1]
      /\ UNCHANGED <<response, faults>>
  BY DEF BeginExchange
<1>3. CASE process[s] # 0 /\ Running(Current(s))
  <2>1. UNCHANGED <<processes, process>>
    BY <1>3 DEF BeginExchange
  <2>2. TypeOK'
    BY <1>1, <1>2, <2>1 DEF TypeOK
  <2>3. SessionInv(s)'
    BY <1>1, <1>2, <1>3, <2>1 DEF TypeOK, SessionInv, Current, Forgotten
  <2>4. ASSUME NEW t \in Sessions, t # s PROVE SessionInv(t)'
    BY <1>1, <1>2, <2>1, <2>4, Untouched DEF IInv, TypeOK
  <2> QED BY <2>2, <2>3, <2>4 DEF IInv
<1>4. CASE ~(process[s] # 0 /\ Running(Current(s)))
  <2>1. /\ processes' = [processes EXCEPT ![s] = Append(@, Fresh)]
        /\ process' = [process EXCEPT ![s] = L + 1]
    BY <1>4 DEF BeginExchange
  <2>2. /\ processes'[s] = Append(processes[s], Fresh)
        /\ processes'[s] \in Seq(Process)
        /\ Len(processes'[s]) = L + 1
        /\ processes'[s][L + 1] = Fresh
        /\ \A p \in 1..L : processes'[s][p] = processes[s][p]
    BY <1>1, <2>1, FreshTyped DEF TypeOK
  <2>3. TypeOK'
    BY <1>1, <1>2, <2>1, <2>2 DEF TypeOK
  <2>4. ASSUME NEW p \in 1..L
        PROVE  Gone(processes[s][p]) \/ processes[s][p].leader = "exited"
    <3>1. processes[s][p] \in Process
      BY <1>1 DEF TypeOK
    <3> QED BY <1>1, <1>4, <3>1 DEF SessionInv, Current, Running, Process, TypeOK, Forgotten
  <2>5. SessionInv(s)'
    <3>1. process'[s] = L + 1 /\ exchange'[s] = "write" /\ L \in Nat
      BY <1>1, <1>2, <2>1 DEF TypeOK
    <3>2. Current(s)' = Fresh
      BY <2>2, <3>1 DEF Current
    <3>3. \A p \in 1..Len(processes'[s]) :
            p # process'[s] => Gone(processes'[s][p]) \/ Forgotten(s, p)'
      BY <2>2, <2>4, <3>1 DEF Forgotten
    <3> QED BY <2>2, <3>1, <3>2, <3>3, FreshTyped DEF SessionInv
  <2>6. ASSUME NEW t \in Sessions, t # s PROVE SessionInv(t)'
    BY <1>1, <1>2, <2>1, <2>6, Untouched DEF IInv, TypeOK
  <2> QED BY <2>3, <2>5, <2>6 DEF IInv
<1> QED BY <1>3, <1>4

LEMMA EndKeeps ==
  ASSUME IInv, NEW s \in Sessions, EndExchange(s)
  PROVE  IInv'
<1>1. TypeOK'
  BY OfSessionTyped DEF IInv, TypeOK, EndExchange
<1>2. SessionInv(s)'
  BY DEF IInv, TypeOK, EndExchange, SessionInv, Current, Forgotten
<1>3. ASSUME NEW t \in Sessions, t # s PROVE SessionInv(t)'
  BY <1>3, Untouched DEF IInv, TypeOK, EndExchange
<1> QED BY <1>1, <1>2, <1>3 DEF IInv

LEMMA KilledTyped ==
  ASSUME NEW p \in Process
  PROVE  Killed(p) \in Process /\ Gone(Killed(p))
<1>1. EndOfOutput \in Line
  BY OfSessionTyped
<1>2. p.lines \in Seq(Line) /\ Append(p.lines, EndOfOutput) \in Seq(Line)
  BY <1>1 DEF Process
<1>3. <<>> \in Seq(Nat)
  OBVIOUS
<1> QED BY <1>2, <1>3 DEF Killed, Gone, Process

\* _stop() leaves no current process and, of the one there was, nothing alive.
LEMMA StopFacts ==
  ASSUME TypeOK, NEW s \in Sessions, SessionInv(s), Stop(s)
  PROVE  /\ processes' \in [Sessions -> Seq(Process)]
         /\ process' \in [Sessions -> Nat]
         /\ process'[s] = 0
         /\ \A t \in Sessions : Len(processes'[t]) = Len(processes[t])
         /\ \A t \in Sessions : t # s =>
              processes'[t] = processes[t] /\ process'[t] = process[t]
         /\ \A p \in 1..Len(processes'[s]) :
              Gone(processes'[s][p]) \/ Forgotten(s, p)'
<1>1. process' = [process EXCEPT ![s] = 0]
  BY DEF Stop
<1>2. CASE process[s] = 0
  BY <1>1, <1>2 DEF TypeOK, SessionInv, Stop, Forgotten
<1>3. CASE process[s] # 0
  <2> DEFINE n == process[s]
             q == Killed(processes[s][n])
  <2>1. n \in 1..Len(processes[s]) /\ processes[s][n] \in Process
    BY <1>3 DEF TypeOK
  <2>2. processes' = [processes EXCEPT ![s][n] = q]
    BY <1>3, <2>1 DEF Stop, TypeOK
  <2>3. q \in Process /\ Gone(q)
    BY <2>1, KilledTyped
  <2> HIDE DEF n, q
  <2>4. /\ processes' \in [Sessions -> Seq(Process)]
        /\ \A t \in Sessions : Len(processes'[t]) = Len(processes[t])
        /\ processes'[s][n] = q
        /\ \A t \in Sessions : \A p \in 1..Len(processes[t]) :
             t # s \/ p # n => processes'[t][p] = processes[t][p]
    BY <2>1, <2>2, <2>3 DEF TypeOK
  <2>5. \A t \in Sessions : t # s => processes'[t] = processes[t]
    BY <2>2 DEF TypeOK
  <2>6. \A p \in 1..Len(processes'[s]) :
          Gone(processes'[s][p]) \/ Forgotten(s, p)'
    BY <2>3, <2>4 DEF SessionInv, n, Forgotten
  <2> QED BY <1>1, <2>4, <2>5, <2>6 DEF TypeOK
<1> QED BY <1>2, <1>3

\* A call that ends with _stop() and an error of the session keeps the invariant.
LEMMA StopKeeps ==
  ASSUME IInv, NEW s \in Sessions, Stop(s), exchange[s] # "returned",
         exchange' = [exchange EXCEPT ![s] = "returned"],
         request' = request,
         NEW answer \in {TimedOut, ProcessFailed},
         response' = [response EXCEPT ![s] = answer],
         faults' \in Nat
  PROVE  IInv'
<1>1. TypeOK /\ SessionInv(s)
  BY DEF IInv
<1>2. answer \in Response
  BY OfSessionTyped
<1>3. /\ processes' \in [Sessions -> Seq(Process)]
      /\ process' \in [Sessions -> Nat]
      /\ process'[s] = 0
      /\ \A t \in Sessions : Len(processes'[t]) = Len(processes[t])
      /\ \A t \in Sessions : t # s =>
           processes'[t] = processes[t] /\ process'[t] = process[t]
      /\ \A p \in 1..Len(processes'[s]) :
           Gone(processes'[s][p]) \/ Forgotten(s, p)'
  BY <1>1, StopFacts
<1>4. TypeOK'
  <2>1. \A t \in Sessions : process'[t] \in 0..Len(processes'[t])
    <3> TAKE t \in Sessions
    <3>1. process[t] \in 0..Len(processes[t]) /\ Len(processes[t]) \in Nat
      BY <1>1 DEF TypeOK
    <3>2. process'[t] = 0 \/ process'[t] = process[t]
      BY <1>3
    <3>3. Len(processes'[t]) = Len(processes[t])
      BY <1>3
    <3> QED BY <3>1, <3>2, <3>3
  <2> QED BY <1>1, <1>2, <1>3, <2>1 DEF TypeOK
<1>5. SessionInv(s)'
  BY <1>1, <1>2, <1>3 DEF TypeOK, SessionInv, Current, Reply
<1>6. ASSUME NEW t \in Sessions, t # s PROVE SessionInv(t)'
  <2>1. /\ exchange'[t] = exchange[t] /\ response'[t] = response[t]
        /\ request'[t] = request[t]
    BY <1>1, <1>6 DEF TypeOK
  <2> QED BY <1>1, <1>3, <1>6, <2>1, Untouched DEF IInv
<1> QED BY <1>4, <1>5, <1>6 DEF IInv

LEMMA TimeoutKeeps ==
  ASSUME IInv, NEW s \in Sessions, CallTimesOut(s)
  PROVE  IInv'
<1>1. faults' \in Nat
  BY DEF IInv, TypeOK, CallTimesOut
<1> QED BY <1>1, StopKeeps DEF CallTimesOut

LEMMA WriteFailsKeeps ==
  ASSUME IInv, NEW s \in Sessions, WriteFails(s)
  PROVE  IInv'
<1>1. faults' \in Nat
  BY DEF IInv, TypeOK, WriteFails, Respond
<1> QED BY <1>1, StopKeeps DEF WriteFails, Respond

LEMMA CloseKeeps ==
  ASSUME IInv, NEW s \in Sessions, CloseSession(s)
  PROVE  IInv'
<1>1. TypeOK /\ SessionInv(s) /\ Stop(s)
  BY DEF IInv, CloseSession
<1>2. /\ processes' \in [Sessions -> Seq(Process)]
      /\ process' \in [Sessions -> Nat]
      /\ process'[s] = 0
      /\ \A t \in Sessions : Len(processes'[t]) = Len(processes[t])
      /\ \A t \in Sessions : t # s =>
           processes'[t] = processes[t] /\ process'[t] = process[t]
      /\ \A p \in 1..Len(processes'[s]) :
           Gone(processes'[s][p]) \/ Forgotten(s, p)'
  BY <1>1, StopFacts
<1>3. TypeOK'
  <2>1. \A t \in Sessions : process'[t] \in 0..Len(processes'[t])
    <3> TAKE t \in Sessions
    <3>1. process[t] \in 0..Len(processes[t]) /\ Len(processes[t]) \in Nat
      BY <1>1 DEF TypeOK
    <3>2. process'[t] = 0 \/ process'[t] = process[t]
      BY <1>2
    <3>3. Len(processes'[t]) = Len(processes[t])
      BY <1>2
    <3> QED BY <3>1, <3>2, <3>3
  <2> QED BY <1>1, <1>2, <2>1 DEF TypeOK, CloseSession
<1>4. SessionInv(s)'
  BY <1>1, <1>2 DEF TypeOK, SessionInv, Current, CloseSession
<1>5. ASSUME NEW t \in Sessions, t # s PROVE SessionInv(t)'
  BY <1>1, <1>2, <1>5, Untouched DEF IInv, CloseSession
<1> QED BY <1>3, <1>4, <1>5 DEF IInv

-----------------------------------------------------------------------------
(* Steps that change one process. *)

ReplacedBy(s, n, q) ==
  /\ processes' \in [Sessions -> Seq(Process)]
  /\ \A t \in Sessions : Len(processes'[t]) = Len(processes[t])
  /\ processes'[s][n] = q
  /\ \A p \in 1..Len(processes[s]) : p # n => processes'[s][p] = processes[s][p]
  /\ \A t \in Sessions : t # s => processes'[t] = processes[t]

\* Whatever happens to a process, it keeps the invariant if the process, when it
\* is the current one, owes what the call says, and stays dead when it is not.
LEMMA ReplaceKeeps ==
  ASSUME IInv, NEW s \in Sessions, NEW n \in 1..Len(processes[s]), NEW q \in Process,
         ReplacedBy(s, n, q),
         process' = process, faults' \in Nat,
         exchange' \in [Sessions -> {"idle", "write", "wait", "exit", "returned"}],
         response' \in [Sessions -> Response],
         request' = request,
         \A t \in Sessions : t # s =>
           exchange'[t] = exchange[t] /\ response'[t] = response[t],
         exchange'[s] \in {"write", "wait", "exit"} => process[s] # 0,
         exchange'[s] = "returned" => Reply(s)',
         exchange'[s] = exchange[s] \/ n = process[s],
         n = process[s] =>
           /\ q.leader # "killed"
           /\ IF exchange'[s] \in {"wait", "exit"} THEN Owes(q, request[s]) ELSE Tidy(q),
         n # process[s] =>
           Gone(q) \/ (q.leader = "exited" /\ n < Len(processes[s]))
  PROVE  IInv'
<1>1. TypeOK /\ SessionInv(s)
  BY DEF IInv
<1>2. TypeOK'
  BY <1>1 DEF TypeOK, ReplacedBy
<1>3. /\ exchange'[s] \in {"write", "wait", "exit"} => process'[s] # 0
      /\ exchange'[s] = "returned" => Reply(s)'
  OBVIOUS
<1>4. ASSUME process'[s] # 0
      PROVE  /\ Current(s)'.leader # "killed"
             /\ IF exchange'[s] \in {"wait", "exit"} THEN Owes(Current(s)', request'[s])
                ELSE Tidy(Current(s)')
  <2>1. CASE n = process[s]
    <3>1. Current(s)' = q
      BY <2>1 DEF Current, ReplacedBy
    <3> QED BY <2>1, <3>1
  <2>2. CASE n # process[s]
    <3>1. process[s] \in 1..Len(processes[s])
      BY <1>1, <1>4 DEF TypeOK
    <3>2. Current(s)' = Current(s)
      BY <2>2, <3>1 DEF Current, ReplacedBy
    <3>3. exchange'[s] = exchange[s]
      BY <2>2
    <3> QED BY <1>1, <1>4, <3>2, <3>3 DEF SessionInv
  <2> QED BY <2>1, <2>2
<1>5. ASSUME NEW p \in 1..Len(processes'[s]), p # process'[s]
      PROVE  Gone(processes'[s][p]) \/ Forgotten(s, p)'
  <2>1. p \in 1..Len(processes[s])
    BY DEF ReplacedBy
  <2>2. CASE p = n
    BY <1>5, <2>2 DEF ReplacedBy, Forgotten
  <2>3. CASE p # n
    BY <1>1, <1>5, <2>1, <2>3 DEF ReplacedBy, SessionInv, Forgotten
  <2> QED BY <2>2, <2>3
<1>6. SessionInv(s)'
  <2>1. process'[s] \in {0, Len(processes'[s])}
    BY <1>1 DEF SessionInv, ReplacedBy
  <2> QED BY <1>3, <1>4, <1>5, <2>1 DEF SessionInv
<1>7. ASSUME NEW t \in Sessions, t # s PROVE SessionInv(t)'
  BY <1>1, <1>7, Untouched DEF IInv, ReplacedBy
<1> QED BY <1>2, <1>6, <1>7 DEF IInv

\* Updates of one process, field by field.
LEMMA SetPipes ==
  ASSUME NEW p \in Process, NEW x, NEW y
  PROVE  /\ [p EXCEPT !.stdin = x]
             = [leader |-> p.leader, child |-> p.child, stdin |-> x, lines |-> p.lines]
         /\ [p EXCEPT !.lines = y]
             = [leader |-> p.leader, child |-> p.child, stdin |-> p.stdin, lines |-> y]
<1>1. p = [leader |-> p.leader, child |-> p.child, stdin |-> p.stdin, lines |-> p.lines]
  BY DEF Process
<1>2. [p EXCEPT !.stdin = x]
        = [leader |-> p.leader, child |-> p.child, stdin |-> x, lines |-> p.lines]
  BY <1>1
<1>3. [p EXCEPT !.lines = y]
        = [leader |-> p.leader, child |-> p.child, stdin |-> p.stdin, lines |-> y]
  BY <1>1
<1> QED BY <1>2, <1>3

LEMMA SetLife ==
  ASSUME NEW p \in Process, NEW l, NEW b
  PROVE  /\ [p EXCEPT !.leader = l]
             = [leader |-> l, child |-> p.child, stdin |-> p.stdin, lines |-> p.lines]
         /\ [p EXCEPT !.leader = l, !.child = b]
             = [leader |-> l, child |-> b, stdin |-> p.stdin, lines |-> p.lines]
<1>1. p = [leader |-> p.leader, child |-> p.child, stdin |-> p.stdin, lines |-> p.lines]
  BY DEF Process
<1>2. [p EXCEPT !.leader = l]
        = [leader |-> l, child |-> p.child, stdin |-> p.stdin, lines |-> p.lines]
  BY <1>1
<1>3. [p EXCEPT !.leader = l, !.child = b]
        = [leader |-> l, child |-> b, stdin |-> p.stdin, lines |-> p.lines]
  <2>1. [p EXCEPT !.leader = l, !.child = b] = [[p EXCEPT !.leader = l] EXCEPT !.child = b]
    OBVIOUS
  <2>2. [[leader |-> l, child |-> p.child, stdin |-> p.stdin, lines |-> p.lines]
            EXCEPT !.child = b]
          = [leader |-> l, child |-> b, stdin |-> p.stdin, lines |-> p.lines]
    OBVIOUS
  <2> QED BY ONLY <1>2, <2>1, <2>2, Zenon
<1> QED BY <1>2, <1>3

LEMMA WriteKeeps ==
  ASSUME IInv, NEW s \in Sessions, WriteRequest(s)
  PROVE  IInv'
<1> DEFINE n == process[s]
           c == processes[s][n]
           x == Append(c.stdin, request[s])
           q == [leader |-> c.leader, child |-> c.child, stdin |-> x, lines |-> c.lines]
<1>1. TypeOK /\ SessionInv(s) /\ exchange[s] = "write"
  BY DEF IInv, WriteRequest
<1>2. n \in 1..Len(processes[s]) /\ c \in Process /\ request[s] \in Nat
  BY <1>1 DEF TypeOK, SessionInv
<1>3. c.leader # "killed" /\ Tidy(c)
  BY <1>1, <1>2 DEF SessionInv, Current
<1>4. processes' = [processes EXCEPT ![s][n] = [c EXCEPT !.stdin = x]]
  BY <1>1, <1>2 DEF WriteRequest, TypeOK
<1>5. n = process[s] /\ process[s] # 0
  BY <1>2
<1>6. x = <<request[s]>> /\ x \in Seq(Nat)
  <2> HIDE DEF c
  <2> QED BY <1>2, <1>3 DEF Tidy
<1> HIDE DEF n, c, x
<1>7. q = [c EXCEPT !.stdin = x] /\ q \in Process
  BY <1>2, <1>6, SetPipes DEF Process
<1>8. q.leader # "killed" /\ Owes(q, request[s])
  BY <1>3, <1>6 DEF Owes, Tidy, NoAnswer
<1> HIDE DEF q
<1>9. ReplacedBy(s, n, q)
  BY <1>1, <1>2, <1>4, <1>7 DEF ReplacedBy, TypeOK
<1>10. /\ exchange' = [exchange EXCEPT ![s] = "wait"]
       /\ UNCHANGED <<process, request, response, faults>>
  BY DEF WriteRequest
<1> QED BY <1>1, <1>2, <1>5, <1>7, <1>8, <1>9, <1>10, ReplaceKeeps DEF TypeOK

LEMMA TakeLineKeeps ==
  ASSUME IInv, NEW s \in Sessions, TakeLine(s)
  PROVE  IInv'
<1> DEFINE n == process[s]
           c == processes[s][n]
           y == Tail(c.lines)
           q == [leader |-> c.leader, child |-> c.child, stdin |-> c.stdin, lines |-> y]
<1>1. TypeOK /\ SessionInv(s) /\ exchange[s] = "wait"
  BY DEF IInv, TakeLine
<1>2. n \in 1..Len(processes[s]) /\ c \in Process /\ n # 0
  BY <1>1 DEF TypeOK, SessionInv
<1>3. c.leader # "killed" /\ Owes(c, request[s]) /\ c.lines # <<>>
  BY <1>1, <1>2 DEF SessionInv, Current, TakeLine
<1>4. Head(c.lines) # EndOfOutput
  BY DEF TakeLine, Current
<1>5. /\ processes' = [processes EXCEPT ![s][n] = [c EXCEPT !.lines = y]]
      /\ process' = process
      /\ Respond(s, Head(c.lines))
  BY <1>1, <1>2, <1>4 DEF TakeLine, TypeOK, Current
<1>6. n = process[s]
  OBVIOUS
<1>7. y \in Seq(Line) /\ Head(c.lines) \in Response /\ Head(c.lines).says \in Answers
  <2> HIDE DEF c
  <2>1. y \in Seq(Line) /\ Head(c.lines) \in Line
    BY <1>2, <1>3 DEF Process
  <2> QED BY <1>4, <2>1 DEF Line, Response
<1>8. /\ c.stdin = <<>> /\ Head(c.lines).to = request[s]
      /\ \A i \in 1..Len(y) : y[i] = EndOfOutput
  <2> HIDE DEF c
  <2> QED BY <1>2, <1>3, <1>4 DEF Process, Owes, NoAnswer
<1> HIDE DEF n, c, y
<1>9. q = [c EXCEPT !.lines = y] /\ q \in Process
  BY <1>2, <1>7, SetPipes DEF Process
<1>10. q.leader # "killed" /\ Tidy(q)
  BY <1>3, <1>8 DEF Tidy, NoAnswer
<1> HIDE DEF q
<1>11. ReplacedBy(s, n, q)
  BY <1>1, <1>2, <1>5, <1>9 DEF ReplacedBy, TypeOK
<1>12. /\ exchange' = [exchange EXCEPT ![s] = "returned"]
      /\ response' = [response EXCEPT ![s] = Head(c.lines)]
      /\ UNCHANGED <<request, faults>>
  BY <1>5 DEF Respond
<1>13. Reply(s)'
  BY <1>1, <1>7, <1>8, <1>12 DEF Reply, TypeOK
<1> QED BY <1>1, <1>2, <1>13, <1>5, <1>6, <1>7, <1>8, <1>9, <1>10, <1>11, <1>12, ReplaceKeeps DEF TypeOK

\* At the end of the output the call stops looking for an answer; it ends when
\* the leader did, with a session that has no process.
LEMMA OutputEndsKeeps ==
  ASSUME IInv, NEW s \in Sessions, OutputEnds(s)
  PROVE  IInv'
<1>1. /\ exchange[s] = "wait" /\ exchange' = [exchange EXCEPT ![s] = "exit"]
      /\ UNCHANGED <<processes, process, request, response, faults>>
  BY DEF OutputEnds
<1>2. TypeOK'
  BY <1>1 DEF IInv, TypeOK
<1>3. SessionInv(s)'
  BY <1>1 DEF IInv, TypeOK, SessionInv, Current, Forgotten
<1>4. ASSUME NEW t \in Sessions, t # s PROVE SessionInv(t)'
  BY <1>1, <1>4, Untouched DEF IInv, TypeOK
<1> QED BY <1>2, <1>3, <1>4 DEF IInv

LEMMA ProcessExitedKeeps ==
  ASSUME IInv, NEW s \in Sessions, ProcessExited(s)
  PROVE  IInv'
<1>1. faults' \in Nat
  BY DEF IInv, TypeOK, ProcessExited, Respond
<1> QED BY <1>1, StopKeeps DEF ProcessExited, Respond

-----------------------------------------------------------------------------
(* The steps of the adapters and the reader threads. They change one process
   and leave the call alone: QuietKeeps is ReplaceKeeps for them.              *)

LEMMA QuietKeeps ==
  ASSUME IInv, NEW s \in Sessions, NEW n \in 1..Len(processes[s]), NEW q \in Process,
         processes' = [processes EXCEPT ![s][n] = q],
         UNCHANGED <<process, exchange, request, response>>, faults' \in Nat,
         n = process[s] =>
           /\ q.leader # "killed"
           /\ IF exchange[s] \in {"wait", "exit"} THEN Owes(q, request[s]) ELSE Tidy(q),
         n # process[s] =>
           Gone(q) \/ (q.leader = "exited" /\ n < Len(processes[s]))
  PROVE  IInv'
<1>1. TypeOK /\ SessionInv(s)
  BY DEF IInv
<1>2. ReplacedBy(s, n, q)
  BY <1>1 DEF ReplacedBy, TypeOK
<1>3. /\ exchange' = exchange /\ response' = response /\ request' = request
      /\ process' = process
  OBVIOUS
<1>4. /\ exchange[s] \in {"write", "wait", "exit"} => process[s] # 0
      /\ exchange'[s] = "returned" => Reply(s)'
  BY <1>1, <1>3 DEF SessionInv, Reply
<1> QED BY <1>1, <1>2, <1>3, <1>4, ReplaceKeeps DEF TypeOK

LEMMA AnswersKeeps ==
  ASSUME IInv, NEW s \in Sessions, NEW n \in 1..Len(processes[s]), NEW answer \in Answers,
         AdapterAnswers(s, n, answer)
  PROVE  IInv'
<1> DEFINE c == processes[s][n]
           x == Tail(c.stdin)
           line == [to |-> Head(c.stdin), says |-> answer]
           y == IF HasEnded(c) THEN c.lines ELSE Append(c.lines, line)
           q == [leader |-> c.leader, child |-> c.child, stdin |-> x, lines |-> y]
<1>1. TypeOK /\ SessionInv(s) /\ c \in Process /\ c.child /\ c.stdin # <<>>
  BY DEF IInv, TypeOK, AdapterAnswers
<1>2. processes' = [processes EXCEPT ![s][n] = [c EXCEPT !.stdin = x, !.lines = y]]
  BY <1>1 DEF AdapterAnswers, TypeOK
<1>3. x \in Seq(Nat) /\ y \in Seq(Line)
  <2> HIDE DEF c
  <2> QED BY <1>1 DEF Process, Line
<1>4. n # process[s] => c.leader = "exited" /\ n < Len(processes[s])
  BY <1>1 DEF SessionInv, Gone, Forgotten
<1>5. n = process[s] => /\ c.leader # "killed" /\ exchange[s] \in {"wait", "exit"}
                        /\ Owes(c, request[s])
  BY <1>1 DEF SessionInv, Current, Tidy, TypeOK
<1>6. n = process[s] =>
        /\ x = <<>>
        /\ \/ \A i \in 1..Len(y) : y[i] = EndOfOutput
           \/ y # <<>> /\ Len(y) = 1 /\ Head(y).to = request[s]
  <2> HIDE DEF c
  <2> SUFFICES ASSUME n = process[s]
               PROVE  /\ x = <<>>
                      /\ \/ \A i \in 1..Len(y) : y[i] = EndOfOutput
                         \/ y # <<>> /\ Len(y) = 1 /\ Head(y).to = request[s]
    OBVIOUS
  <2>1. c.stdin = <<request[s]>> /\ \A i \in 1..Len(c.lines) : c.lines[i] = EndOfOutput
    BY <1>1, <1>5 DEF Owes, NoAnswer
  <2>2. x = <<>> /\ Head(c.stdin) = request[s]
    BY <2>1
  <2>3. CASE HasEnded(c)
    BY <2>1, <2>2, <2>3
  <2>4. CASE ~HasEnded(c)
    <3>1. c.lines \in Seq(Line) /\ Len(c.lines) = 0
      BY <1>1, <2>1, <2>4 DEF HasEnded, Process
    <3>2. c.lines = <<>>
      BY <3>1
    <3>3. y = <<line>> /\ line.to = request[s]
      BY <2>2, <2>4, <3>2
    <3> HIDE DEF y, line
    <3> QED BY <2>2, <3>3
  <2> QED BY <2>3, <2>4
<1> HIDE DEF c, x, y
<1>7. q = [c EXCEPT !.stdin = x, !.lines = y] /\ q \in Process
  <2>1. q = [c EXCEPT !.stdin = x, !.lines = y]
    <3>1. [c EXCEPT !.stdin = x, !.lines = y] = [[c EXCEPT !.stdin = x] EXCEPT !.lines = y]
      OBVIOUS
    <3> DEFINE r == [leader |-> c.leader, child |-> c.child, stdin |-> x, lines |-> c.lines]
    <3>2. [c EXCEPT !.stdin = x] = r
      BY <1>1, SetPipes
    <3>3. [r EXCEPT !.lines = y] = q
      OBVIOUS
    <3> QED BY ONLY <3>1, <3>2, <3>3, Zenon
  <2>2. q \in Process
    BY <1>1, <1>3 DEF Process
  <2> QED BY <2>1, <2>2
<1>8. n = process[s] => q.leader # "killed" /\ Owes(q, request[s])
  <2> SUFFICES ASSUME n = process[s] PROVE q.leader # "killed" /\ Owes(q, request[s])
    OBVIOUS
  <2>1. q.leader # "killed" /\ q.stdin = <<>> /\ q.lines = y
    BY <1>5, <1>6
  <2> HIDE DEF q
  <2>2. CASE \A i \in 1..Len(y) : y[i] = EndOfOutput
    BY <2>1, <2>2 DEF Owes, NoAnswer
  <2>3. CASE y # <<>> /\ Len(y) = 1 /\ Head(y).to = request[s]
    <3>1. \A i \in 2..Len(q.lines) : q.lines[i] = EndOfOutput
      BY <2>1, <2>3
    <3> QED BY <2>1, <2>3, <3>1 DEF Owes
  <2> QED BY <1>6, <2>2, <2>3
<1>9. n # process[s] => q.leader = "exited" /\ n < Len(processes[s])
  BY <1>4
<1> HIDE DEF q
<1>10. faults' \in Nat /\ UNCHANGED <<process, exchange, request, response>>
  BY <1>1 DEF AdapterAnswers, TypeOK
<1> QED BY <1>2, <1>5, <1>7, <1>8, <1>9, <1>10, QuietKeeps

LEMMA ExitsKeeps ==
  ASSUME IInv, NEW s \in Sessions, NEW n \in 1..Len(processes[s]), AdapterExits(s, n)
  PROVE  IInv'
<1> DEFINE c == processes[s][n]
           q == [leader |-> "exited", child |-> FALSE, stdin |-> c.stdin, lines |-> c.lines]
<1>1. TypeOK /\ SessionInv(s) /\ c \in Process
  BY DEF IInv, TypeOK
<1>2. processes' = [processes EXCEPT ![s][n] = [c EXCEPT !.leader = "exited", !.child = FALSE]]
  BY <1>1 DEF AdapterExits, TypeOK
<1>3. n = process[s] => IF exchange[s] \in {"wait", "exit"} THEN Owes(c, request[s]) ELSE Tidy(c)
  BY <1>1 DEF SessionInv, Current
<1> HIDE DEF c
<1>4. q = [c EXCEPT !.leader = "exited", !.child = FALSE] /\ q \in Process
  BY <1>1, SetLife DEF Process
<1>5. n = process[s] => IF exchange[s] \in {"wait", "exit"} THEN Owes(q, request[s]) ELSE Tidy(q)
  BY <1>3 DEF Owes, Tidy, NoAnswer
<1>6. q.leader = "exited"
  OBVIOUS
<1> HIDE DEF q
<1>7. faults' \in Nat /\ UNCHANGED <<process, exchange, request, response>>
  BY <1>1 DEF AdapterExits, TypeOK
<1>8. n # process[s] => n < Len(processes[s])
  BY <1>1 DEF SessionInv, Gone, Running, Forgotten, AdapterExits
<1> QED BY <1>2, <1>4, <1>5, <1>6, <1>7, <1>8, QuietKeeps

LEMMA LeaderDiesKeeps ==
  ASSUME IInv, NEW s \in Sessions, NEW n \in 1..Len(processes[s]), LeaderDies(s, n)
  PROVE  IInv'
<1> DEFINE c == processes[s][n]
           q == [leader |-> "exited", child |-> c.child, stdin |-> c.stdin, lines |-> c.lines]
<1>1. TypeOK /\ SessionInv(s) /\ c \in Process
  BY DEF IInv, TypeOK
<1>2. processes' = [processes EXCEPT ![s][n] = [c EXCEPT !.leader = "exited"]]
  BY <1>1 DEF LeaderDies, TypeOK
<1>3. n = process[s] => IF exchange[s] \in {"wait", "exit"} THEN Owes(c, request[s]) ELSE Tidy(c)
  BY <1>1 DEF SessionInv, Current
<1> HIDE DEF c
<1>4. q = [c EXCEPT !.leader = "exited"] /\ q \in Process
  BY <1>1, SetLife DEF Process
<1>5. n = process[s] => IF exchange[s] \in {"wait", "exit"} THEN Owes(q, request[s]) ELSE Tidy(q)
  BY <1>3 DEF Owes, Tidy, NoAnswer
<1>6. q.leader = "exited"
  OBVIOUS
<1> HIDE DEF q
<1>7. faults' \in Nat /\ UNCHANGED <<process, exchange, request, response>>
  BY <1>1 DEF LeaderDies, TypeOK
<1>8. n # process[s] => n < Len(processes[s])
  BY <1>1 DEF SessionInv, Gone, Running, Forgotten, LeaderDies
<1> QED BY <1>2, <1>4, <1>5, <1>6, <1>7, <1>8, QuietKeeps

LEMMA ReaderEndsKeeps ==
  ASSUME IInv, NEW s \in Sessions, NEW n \in 1..Len(processes[s]), ReaderEnds(s, n)
  PROVE  IInv'
<1> DEFINE c == processes[s][n]
           y == Append(c.lines, EndOfOutput)
           q == [leader |-> c.leader, child |-> c.child, stdin |-> c.stdin, lines |-> y]
<1>1. TypeOK /\ SessionInv(s) /\ c \in Process /\ y \in Seq(Line)
  <2>1. c \in Process /\ TypeOK /\ SessionInv(s)
    BY DEF IInv, TypeOK
  <2> HIDE DEF c
  <2> QED BY <2>1, OfSessionTyped DEF Process
<1>2. processes' = [processes EXCEPT ![s][n] = [c EXCEPT !.lines = y]]
  BY <1>1 DEF ReaderEnds, TypeOK
<1>3. n = process[s] =>
        /\ c.leader # "killed"
        /\ IF exchange[s] \in {"wait", "exit"} THEN Owes(c, request[s]) ELSE Tidy(c)
  BY <1>1 DEF SessionInv, Current
<1> HIDE DEF c
<1>4. /\ \A i \in 1..Len(y) :
           y[i] = EndOfOutput \/ (i \in 1..Len(c.lines) /\ y[i] = c.lines[i])
      /\ y # <<>>
      /\ c.lines # <<>> => Head(y) = Head(c.lines)
  <2> DEFINE o == c.lines
  <2>1. o \in Seq(Line)
    BY <1>1 DEF Process
  <2> HIDE DEF o
  <2>2. /\ \A i \in 1..Len(Append(o, EndOfOutput)) :
             \/ Append(o, EndOfOutput)[i] = EndOfOutput
             \/ i \in 1..Len(o) /\ Append(o, EndOfOutput)[i] = o[i]
        /\ Append(o, EndOfOutput) # <<>>
        /\ o # <<>> => Head(Append(o, EndOfOutput)) = Head(o)
    BY <2>1, OfSessionTyped
  <2> QED BY <2>2 DEF o
<1>5. n # process[s] => Gone(c) \/ (c.leader = "exited" /\ n < Len(processes[s]))
  BY <1>1 DEF SessionInv, Forgotten, c
<1> HIDE DEF y
<1>6. q = [c EXCEPT !.lines = y] /\ q \in Process /\ (Gone(c) => Gone(q))
  BY <1>1, SetPipes DEF Process, Gone
<1>7. n = process[s] =>
        /\ q.leader # "killed"
        /\ IF exchange[s] \in {"wait", "exit"} THEN Owes(q, request[s]) ELSE Tidy(q)
  BY <1>1, <1>3, <1>4 DEF Owes, Tidy, NoAnswer
<1>8. n # process[s] => Gone(q) \/ (q.leader = "exited" /\ n < Len(processes[s]))
  BY <1>5, <1>6
<1> HIDE DEF q
<1>9. faults' \in Nat /\ UNCHANGED <<process, exchange, request, response>>
  BY <1>1 DEF ReaderEnds, TypeOK
<1> QED BY <1>2, <1>6, <1>7, <1>8, <1>9, QuietKeeps

-----------------------------------------------------------------------------

LEMMA StepKeeps == IInv /\ [SessionNext]_sessionVars => IInv'
<1> SUFFICES ASSUME IInv, [SessionNext]_sessionVars PROVE IInv'
  OBVIOUS
<1>1. CASE UNCHANGED sessionVars
  <2>1. TypeOK'
    BY <1>1 DEF IInv, TypeOK, sessionVars
  <2>2. ASSUME NEW t \in Sessions PROVE SessionInv(t)'
    BY <1>1, Untouched DEF IInv, sessionVars
  <2> QED BY <2>1, <2>2 DEF IInv
<1>2. ASSUME NEW s \in Sessions, BeginExchange(s) PROVE IInv'
  BY <1>2, BeginKeeps
<1>3. ASSUME NEW s \in Sessions, EndExchange(s) PROVE IInv'
  BY <1>3, EndKeeps
<1>4. ASSUME NEW s \in Sessions, CloseSession(s) PROVE IInv'
  BY <1>4, CloseKeeps
<1>5. ASSUME NEW s \in Sessions, SessionStep(s) PROVE IInv'
  BY <1>5, WriteKeeps, WriteFailsKeeps, TakeLineKeeps, OutputEndsKeeps, ProcessExitedKeeps,
     TimeoutKeeps DEF SessionStep
<1>6. ASSUME NEW s \in Sessions, AdapterStep(s) PROVE IInv'
  BY <1>6, AnswersKeeps, ExitsKeeps, LeaderDiesKeeps, ReaderEndsKeeps DEF AdapterStep
<1> QED BY <1>1, <1>2, <1>3, <1>4, <1>5, <1>6 DEF SessionNext

\* The inductive invariant of a session, for any number of sessions and calls.
THEOREM SessionInvariant == SessionSpec => []IInv
BY InitInv, StepKeeps, PTL DEF SessionSpec

\* A call is answered by the answer to its own request, or by an error of the
\* session, however late other answers are and whichever processes die.
THEOREM SafeAnswers == SessionSpec => []AnswersMatchRequests
<1>1. IInv => AnswersMatchRequests
  BY OfSessionTyped DEF IInv, SessionInv, Reply, AnswersMatchRequests
<1> QED BY <1>1, SessionInvariant, PTL

\* A process that is not a session's any more is dead with its child, or its
\* leader ended by itself and a call forgot it: such a leader's child may live on.
THEOREM SafeProcesses == SessionSpec => []NoStrayAdapters
<1>1. IInv => NoStrayAdapters
  BY DEF IInv, SessionInv, NoStrayAdapters
<1> QED BY <1>1, SessionInvariant, PTL

(***************************************************************************)
(* The fuzzer uses its sessions as AdapterSession allows, so that what is  *)
(* proved of sessions holds in it, it believes no single crash, and        *)
(* reports nothing twice.                                                  *)
(***************************************************************************)

LEMMA FuzzInitSessions == FuzzInit => \E n \in Nat : SessionInit(n)
BY FuzzAssumption DEF FuzzInit, FuzzStart

LEMMA FuzzStepSessions == [FuzzNext]_fuzzVars => [SessionNext]_sessionVars
<1> SUFFICES ASSUME [FuzzNext]_fuzzVars PROVE [SessionNext]_sessionVars
  OBVIOUS
<1>1. CASE StartExample
  BY <1>1 DEF StartExample
<1>2. CASE AllReturned
  BY <1>2 DEF AllReturned
<1>3. CASE SubmitReparse
  BY <1>3, FuzzAssumption DEF SubmitReparse, Submit, SessionNext
<1>4. CASE ReparseReturns
  BY <1>4, FuzzAssumption DEF ReparseReturns, Returned, SessionNext
<1>5. CASE Compare
  BY <1>5 DEF Compare
<1>6. CASE Judge
  BY <1>6 DEF Judge
<1>7. CASE EndChunk
  BY <1>7 DEF EndChunk
<1>8. CASE Close
  BY <1>8 DEF Close, SessionNext
<1>9. ASSUME NEW s \in Sessions, SubmitWorker(s) PROVE [SessionNext]_sessionVars
  BY <1>9 DEF SubmitWorker, Submit, SessionNext
<1>10. ASSUME NEW s \in Sessions, WorkerReturns(s) PROVE [SessionNext]_sessionVars
  BY <1>10 DEF WorkerReturns, Returned, SessionNext
<1>11. ASSUME NEW s \in Sessions, SessionStep(s) \/ AdapterStep(s)
       PROVE  [SessionNext]_sessionVars
  BY <1>11 DEF SessionNext
<1>12. CASE UNCHANGED fuzzVars
  BY <1>12 DEF fuzzVars
<1> QED
  BY <1>1, <1>2, <1>3, <1>4, <1>5, <1>6, <1>7, <1>8, <1>9, <1>10, <1>11, <1>12 DEF FuzzNext

\* The fuzzer calls, reads and closes its sessions as a caller of AdapterSession.
THEOREM FuzzerUsesSessions == FuzzSpec => SessionSpec
BY FuzzInitSessions, FuzzStepSessions, PTL DEF FuzzSpec, SessionSpec

\* In the fuzzer too, a call never returns the late answer to another request.
THEOREM FuzzerAnswersMatch == FuzzSpec => []AnswersMatchRequests
BY FuzzerUsesSessions, SafeAnswers

\* In the fuzzer too, only a process that a call forgot because its leader had
\* ended may leave a child behind.
THEOREM FuzzerLeavesNoStrays == FuzzSpec => []NoStrayAdapters
BY FuzzerUsesSessions, SafeProcesses

-----------------------------------------------------------------------------
(* FindingsAreNew: what a chunk ends with was new and not excused when it was
   picked, and nothing is reported before the chunk ends.                      *)

NewInv ==
  /\ \E S : findings \in Seq(S)
  /\ last # NoSignature => last \notin Known /\ ~Allowlisted(last)
  /\ FindingsAreNew

LEMMA AppendKnown ==
  ASSUME NEW S, NEW f \in Seq(S), NEW d,
         \A i, j \in 1..Len(f) : f[i] = f[j] => i = j,
         \A i \in 1..Len(f) : f[i] # d
  PROVE  \A i, j \in 1..Len(Append(f, d)) : Append(f, d)[i] = Append(f, d)[j] => i = j
<1>1. Append(f, d) \in Seq(S \cup {d}) /\ Len(Append(f, d)) = Len(f) + 1
  OBVIOUS
<1>2. \A i \in 1..Len(f) : Append(f, d)[i] = f[i]
  OBVIOUS
<1>3. Append(f, d)[Len(f) + 1] = d
  OBVIOUS
<1> QED BY <1>1, <1>2, <1>3

LEMMA NewStep == NewInv /\ [FuzzNext]_fuzzVars => NewInv'
<1> SUFFICES ASSUME NewInv, [FuzzNext]_fuzzVars PROVE NewInv'
  OBVIOUS
<1>1. CASE Judge
  <2>1. findings' = findings
    BY <1>1 DEF Judge
  <2>2. last' = last \/ last' \in FreshDivergences
    BY <1>1 DEF Judge
  <2>3. Known' = Known
    BY <2>1 DEF Known
  <2> QED BY <2>1, <2>2, <2>3 DEF NewInv, FreshDivergences, FindingsAreNew, Allowlisted, Matches
<1>2. CASE EndChunk
  <2>1. CASE last = NoSignature
    BY <1>2, <2>1 DEF EndChunk, NewInv, FindingsAreNew, Known
  <2>2. CASE last # NoSignature
    <3>1. findings' = Append(findings, last) /\ last' = NoSignature
      BY <1>2, <2>2 DEF EndChunk
    <3>2. PICK S : findings \in Seq(S)
      BY DEF NewInv
    <3>3. findings' \in Seq(S \cup {last})
      BY <3>1, <3>2
    <3>4. \A i \in 1..Len(findings) : findings[i] # last
      BY <2>2 DEF NewInv, Known
    <3>5. \A i, j \in 1..Len(findings') : findings'[i] = findings'[j] => i = j
      BY <3>1, <3>2, <3>4, AppendKnown DEF NewInv, FindingsAreNew
    <3>6. \A i \in 1..Len(findings') : findings'[i] = last \/ \E j \in 1..Len(findings) : findings'[i] = findings[j]
      BY <3>1, <3>2
    <3>7. \A i \in 1..Len(findings') : ~Allowlisted(findings'[i])
      BY <2>2, <3>6 DEF NewInv, FindingsAreNew
    <3> QED BY <3>1, <3>3, <3>5, <3>7 DEF NewInv, FindingsAreNew
  <2> QED BY <2>1, <2>2
<1>3. CASE ~Judge /\ ~EndChunk
  <2>1. findings' = findings /\ last' = last
    BY <1>3 DEF FuzzNext, fuzzVars, chunkVars, StartExample, AllReturned, SubmitReparse, Submit,
                ReparseReturns, Returned, Compare, Close, SubmitWorker, WorkerReturns
  <2> QED BY <2>1 DEF NewInv, Known, FindingsAreNew
<1> QED BY <1>1, <1>2, <1>3

\* No finding is reported twice or against the allowlist, however chunks shrink.
THEOREM SafeFindings == FuzzSpec => []FindingsAreNew
<1>1. FuzzInit => NewInv
  BY DEF FuzzInit, FuzzStart, NewInv, FindingsAreNew
<1>2. NewInv => FindingsAreNew
  BY DEF NewInv
<1> QED BY <1>1, <1>2, NewStep, PTL DEF FuzzSpec

-----------------------------------------------------------------------------
(* CrashesAreConfirmed: the process that a retry runs on is not the one that
   failed, because a session that failed has no process any more.              *)

FuzzTypeOK ==
  /\ attempt \in [Sessions -> {0, 1}]
  /\ failed \in [Sessions -> SUBSET Nat]
  /\ \E V : outcomes \in [Sessions -> V]

\* What is known of s in any step of the fuzzer: only processes it started have
\* failed, and the one it uses, or the call in progress started with, has not.
Confirm(s) ==
  /\ failed[s] \subseteq 1..Len(processes[s])
  /\ process[s] \in {0, Len(processes[s])}
  /\ exchange[s] # "idle" => Len(processes[s]) # 0
  /\ process[s] # 0 \/ exchange[s] # "idle" => Len(processes[s]) \notin failed[s]
  /\ fuzzPc = "check" /\ attempt[s] = 1 => failed[s] # {}
  /\ fuzzPc \in {"chunk", "body"} => attempt[s] = 0
  /\ outcomes[s].class = "crash" /\ outcomes[s].value # {"invalid"} =>
       Cardinality(failed[s]) >= 2

FuzzInv == IInv /\ FuzzTypeOK /\ \A s \in Sessions : Confirm(s)

LEMMA OneMore ==
  ASSUME NEW n \in Nat, NEW S \in SUBSET (1..n), NEW x \in 1..n
  PROVE  /\ Cardinality(S \cup {x}) >= Cardinality(S)
         /\ S # {} /\ x \notin S => Cardinality(S \cup {x}) >= 2
<1>1. IsFiniteSet(1..n)
  BY FS_Interval
<1>2. IsFiniteSet(S)
  BY <1>1, FS_Subset
<1>3. Cardinality(S) \in Nat /\ (Cardinality(S) = 0 <=> S = {})
  BY <1>2, FS_CardinalityType, FS_EmptySet
<1>4. Cardinality(S \cup {x}) = IF x \in S THEN Cardinality(S) ELSE Cardinality(S) + 1
  BY <1>2, FS_AddElement
<1> DEFINE c == Cardinality(S)
           d == Cardinality(S \cup {x})
<1>5. c \in Nat /\ (c = 0 <=> S = {}) /\ d = IF x \in S THEN c ELSE c + 1
  BY <1>3, <1>4
<1> HIDE DEF c, d
<1>6. CASE x \in S
  BY <1>5, <1>6 DEF c, d
<1>7. CASE x \notin S
  <2>1. d = c + 1 /\ (S # {} => c # 0)
    BY <1>5, <1>7
  <2>2. d >= c /\ (S # {} => d >= 2)
    BY <1>5, <2>1
  <2> QED BY <2>2 DEF c, d
<1> QED BY <1>6, <1>7

\* Steps that keep the checks of the fuzzer keep what Confirm says if sessions
\* do: no process is started, none becomes current, no call begins or ends.
LEMMA QuietConfirm ==
  ASSUME FuzzInv, IInv',
         UNCHANGED <<fuzzPc, attempt, failed, outcomes>>,
         \A t \in Sessions :
           /\ Len(processes'[t]) = Len(processes[t])
           /\ process'[t] \in {0, process[t]}
           /\ exchange'[t] = "idle" <=> exchange[t] = "idle"
  PROVE  FuzzInv'
<1>1. FuzzTypeOK'
  BY DEF FuzzInv, FuzzTypeOK
<1>2. ASSUME NEW s \in Sessions PROVE Confirm(s)'
  BY DEF FuzzInv, Confirm
<1> QED BY <1>1, <1>2 DEF FuzzInv

LEMMA StopQuiet ==
  ASSUME FuzzInv, NEW s \in Sessions, Stop(s)
  PROVE  \A t \in Sessions : /\ Len(processes'[t]) = Len(processes[t])
                             /\ process'[t] \in {0, process[t]}
<1>1. TypeOK /\ SessionInv(s)
  BY DEF FuzzInv, IInv
<1> QED BY <1>1, StopFacts

\* The steps of calls and adapters in progress.
LEMMA SessionConfirm ==
  ASSUME FuzzInv, IInv', NEW s \in Sessions, SessionStep(s) \/ AdapterStep(s),
         UNCHANGED <<fuzzPc, checkVars, chunkVars>>
  PROVE  FuzzInv'
<1>1. TypeOK
  BY DEF FuzzInv, IInv
<1>2. CASE WriteFails(s) \/ CallTimesOut(s) \/ ProcessExited(s)
  BY <1>1, <1>2, StopQuiet, QuietConfirm DEF WriteFails, CallTimesOut, ProcessExited, Respond,
     checkVars, TypeOK
<1>3. CASE WriteRequest(s)
  BY <1>1, <1>3, QuietConfirm DEF WriteRequest, checkVars, TypeOK
<1>6. CASE OutputEnds(s)
  <2>1. UNCHANGED <<processes, process, fuzzPc, attempt, failed, outcomes>>
    BY <1>6 DEF OutputEnds, checkVars
  <2>2. \A t \in Sessions : exchange'[t] = "idle" <=> exchange[t] = "idle"
    BY <1>1, <1>6 DEF OutputEnds, TypeOK
  <2> QED BY <2>1, <2>2, QuietConfirm
<1>4. CASE TakeLine(s)
  BY <1>1, <1>4, QuietConfirm DEF TakeLine, Respond, checkVars, TypeOK
<1>5. CASE AdapterStep(s)
  <2>1. PICK p \in 1..Len(processes[s]) :
          \/ \E answer \in Answers : AdapterAnswers(s, p, answer)
          \/ AdapterExits(s, p) \/ LeaderDies(s, p) \/ ReaderEnds(s, p)
    BY <1>5 DEF AdapterStep
  <2>2. \E q : processes' = [processes EXCEPT ![s][p] = q]
    <3> DEFINE c == processes[s][p]
    <3>1. ASSUME NEW answer \in Answers, AdapterAnswers(s, p, answer)
          PROVE  \E q : processes' = [processes EXCEPT ![s][p] = q]
      <4>1. processes' = [processes EXCEPT ![s][p] =
              [c EXCEPT !.stdin = Tail(c.stdin),
                        !.lines = IF HasEnded(c) THEN c.lines
                                  ELSE Append(c.lines, [to |-> Head(c.stdin), says |-> answer])]]
        BY <1>1, <3>1 DEF AdapterAnswers, TypeOK
      <4> QED BY <4>1
    <3>2. CASE AdapterExits(s, p)
      <4>1. processes' =
              [processes EXCEPT ![s][p] = [c EXCEPT !.leader = "exited", !.child = FALSE]]
        BY <1>1, <3>2 DEF AdapterExits, TypeOK
      <4> QED BY <4>1
    <3>3. CASE LeaderDies(s, p)
      <4>1. processes' = [processes EXCEPT ![s][p] = [c EXCEPT !.leader = "exited"]]
        BY <1>1, <3>3 DEF LeaderDies, TypeOK
      <4> QED BY <4>1
    <3>4. CASE ReaderEnds(s, p)
      <4>1. processes' =
              [processes EXCEPT ![s][p] = [c EXCEPT !.lines = Append(c.lines, EndOfOutput)]]
        BY <1>1, <3>4 DEF ReaderEnds, TypeOK
      <4> QED BY <4>1
    <3> QED BY <2>1, <3>1, <3>2, <3>3, <3>4
  <2>3. \A t \in Sessions : Len(processes'[t]) = Len(processes[t])
    <3>1. PICK q : processes' = [processes EXCEPT ![s][p] = q]
      BY <2>2
    <3> QED BY <1>1, <3>1 DEF TypeOK
  <2>4. process' = process /\ exchange' = exchange
    BY <2>1 DEF AdapterAnswers, AdapterExits, LeaderDies, ReaderEnds
  <2> QED BY <2>3, <2>4, QuietConfirm DEF checkVars
<1> QED BY <1>2, <1>3, <1>4, <1>5, <1>6 DEF SessionStep

\* A call begins: on the process that did not fail, or on a new one.
LEMMA SubmitConfirm ==
  ASSUME FuzzInv, IInv', NEW s \in Sessions, Submit(s)
  PROVE  FuzzInv'
<1>1. TypeOK /\ UNCHANGED <<fuzzPc, attempt, failed, outcomes>>
  BY DEF FuzzInv, IInv, Submit, checkVars
<1>2. FuzzTypeOK'
  BY <1>1 DEF FuzzInv, FuzzTypeOK
<1>3. ASSUME NEW t \in Sessions, t # s PROVE Confirm(t)'
  BY <1>1, <1>3 DEF FuzzInv, Confirm, Submit, BeginExchange, TypeOK
<1>4. Confirm(s)'
  <2>1. CASE UNCHANGED <<processes, process>> /\ process[s] # 0
    BY <1>1, <2>1 DEF FuzzInv, Confirm, Submit, BeginExchange, TypeOK
  <2>2. CASE /\ processes' = [processes EXCEPT ![s] = Append(@, Fresh)]
             /\ process' = [process EXCEPT ![s] = Len(processes[s]) + 1]
    <3>1. Len(processes'[s]) = Len(processes[s]) + 1 /\ process'[s] = Len(processes[s]) + 1
      BY <1>1, <2>2, FreshTyped DEF TypeOK
    <3>2. Len(processes[s]) \in Nat
      BY <1>1 DEF TypeOK
    <3> QED BY <1>1, <3>1, <3>2 DEF FuzzInv, Confirm
  <2> QED BY <2>1, <2>2 DEF Submit, BeginExchange
<1> QED BY <1>2, <1>3, <1>4 DEF FuzzInv

\* A call returned: with a failure its process is gone and counts as failed.
LEMMA ReturnConfirm ==
  ASSUME FuzzInv, IInv', NEW s \in Sessions, NEW n, NEW result,
         exchange[s] = "returned", fuzzPc' = fuzzPc, fuzzPc \in {"check", "reparse"},
         Returned(s, n, result),
         \/ n = s /\ fuzzPc = "check" /\ result = Outcome(response[s].says)
         \/ result.class = "ok"
  PROVE  FuzzInv'
<1> DEFINE L == Len(processes[s])
<1>1. TypeOK /\ SessionInv(s) /\ Confirm(s) /\ Reply(s) /\ FuzzTypeOK
  BY DEF FuzzInv, IInv, SessionInv
<1>2. /\ UNCHANGED <<processes, process>>
      /\ exchange' = [exchange EXCEPT ![s] = "idle"]
  BY DEF Returned, EndExchange
<1>3. L \in Nat /\ L \in 1..L /\ L \notin failed[s]
  BY <1>1 DEF Confirm, TypeOK
<1>4. SessionFailed(s) => process[s] = 0
  <2>1. TimedOut.says.class = "Timeout" /\ ProcessFailed.says.class = "Adapter process failed"
    BY DEF TimedOut, ProcessFailed, OfSession
  <2>2. TimedOut.says \notin Answers /\ ProcessFailed.says \notin Answers
    BY <2>1, FuzzAssumption
  <2> QED BY <1>1, <2>2 DEF SessionFailed, Reply
<1>5. ~SessionFailed(s) => response[s].says \in Answers
  BY <1>1 DEF SessionFailed, Reply
<1>6. failed' = IF SessionFailed(s) THEN [failed EXCEPT ![s] = @ \cup {L}] ELSE failed
  BY DEF Returned
<1>7. FuzzTypeOK'
  <2>1. attempt' \in [Sessions -> {0, 1}] /\ failed' \in [Sessions -> SUBSET Nat]
    BY <1>1, <1>3, <1>6 DEF Returned, FuzzTypeOK
  <2>2. PICK V : outcomes \in [Sessions -> V]
    BY <1>1 DEF FuzzTypeOK
  <2>3. outcomes' \in [Sessions -> V \cup {result}]
    BY <2>2 DEF Returned
  <2> QED BY <2>1, <2>3 DEF FuzzTypeOK
<1>8. ASSUME NEW t \in Sessions, t # s PROVE Confirm(t)'
  <2>1. failed'[t] = failed[t] /\ attempt'[t] = attempt[t] /\ exchange'[t] = exchange[t]
    BY <1>1, <1>2, <1>6, <1>8 DEF Returned, FuzzTypeOK, TypeOK
  <2>2. outcomes'[t] = outcomes[t] \/ outcomes'[t].class = "ok"
    BY <1>1, <1>8 DEF Returned, FuzzTypeOK
  <2> QED BY <1>2, <2>1, <2>2 DEF FuzzInv, Confirm
<1>9. Confirm(s)'
  <2>1. exchange'[s] = "idle" /\ process'[s] = process[s] /\ Len(processes'[s]) = L
    BY <1>1, <1>2 DEF TypeOK
  <2>2. failed'[s] = IF SessionFailed(s) THEN failed[s] \cup {L} ELSE failed[s]
    BY <1>1, <1>6 DEF FuzzTypeOK
  <2>3. attempt'[s] = IF GivesUp(s) THEN 0 ELSE 1
    BY <1>1 DEF Returned, FuzzTypeOK
  <2>4. failed[s] \in SUBSET (1..L) /\ failed'[s] \subseteq 1..L
    BY <1>1, <1>3, <2>2 DEF Confirm
  <2>5. process'[s] # 0 => L \notin failed'[s]
    BY <1>3, <1>4, <2>1, <2>2
  <2>6. fuzzPc' = "check" /\ attempt'[s] = 1 => failed'[s] # {}
    BY <1>1, <2>2, <2>3 DEF Confirm, GivesUp
  <2>7. Cardinality(failed'[s]) >= Cardinality(failed[s]) \/ ~SessionFailed(s)
    BY <1>3, <2>2, <2>4, OneMore
  <2>8. ASSUME outcomes'[s].class = "crash", outcomes'[s].value # {"invalid"}
        PROVE  Cardinality(failed'[s]) >= 2
    <3>1. CASE outcomes'[s] = outcomes[s]
      <4>1. Cardinality(failed[s]) >= 2
        BY <1>1, <2>8, <3>1 DEF Confirm
      <4>2. Cardinality(failed[s]) \in Nat /\ Cardinality(failed'[s]) \in Nat
        <5>1. IsFiniteSet(1..L)
          BY <1>3, FS_Interval
        <5>2. IsFiniteSet(failed[s]) /\ IsFiniteSet(failed'[s])
          BY <2>4, <5>1, FS_Subset
        <5> QED BY <5>2, FS_CardinalityType
      <4> QED BY <2>2, <2>7, <4>1, <4>2
    <3>2. CASE outcomes'[s] # outcomes[s]
      <4>1. n = s /\ GivesUp(s) /\ outcomes'[s] = result
        BY <1>1, <3>2 DEF Returned, FuzzTypeOK
      <4>2. fuzzPc = "check" /\ result = Outcome(response[s].says)
        BY <2>8, <4>1
      <4>3. SessionFailed(s)
        BY <1>5, <2>8, <4>1, <4>2, FuzzAssumption DEF Outcome
      <4>4. failed[s] # {}
        BY <1>1, <4>1, <4>2, <4>3 DEF GivesUp, Confirm
      <4> QED BY <1>3, <2>2, <2>4, <4>3, <4>4, OneMore
    <3> QED BY <3>1, <3>2
  <2> QED BY <1>1, <2>1, <2>4, <2>5, <2>6, <2>8 DEF Confirm
<1> QED BY <1>7, <1>8, <1>9 DEF FuzzInv

LEMMA ConfirmStep == FuzzInv /\ IInv' /\ [FuzzNext]_fuzzVars => FuzzInv'
<1> SUFFICES ASSUME FuzzInv, IInv', [FuzzNext]_fuzzVars PROVE FuzzInv'
  OBVIOUS
<1>0. TypeOK /\ FuzzTypeOK /\ \A s \in Sessions : Confirm(s)
  BY DEF FuzzInv, IInv
<1>1. CASE StartExample \/ EndChunk \/ Judge \/ UNCHANGED fuzzVars
  <2>1. UNCHANGED <<attempt, failed, outcomes, processes, process, exchange>>
    BY <1>1 DEF StartExample, EndChunk, Judge, fuzzVars, checkVars, sessionVars
  <2>2. \/ fuzzPc' = fuzzPc
        \/ fuzzPc \in {"chunk", "body"} /\ fuzzPc' \in {"chunk", "check", "closing"}
    BY <1>1 DEF StartExample, EndChunk, Judge, fuzzVars
  <2>3. FuzzTypeOK'
    BY <1>0, <2>1 DEF FuzzTypeOK
  <2>4. ASSUME NEW s \in Sessions PROVE Confirm(s)'
    BY <1>0, <2>1, <2>2 DEF Confirm
  <2> QED BY <2>3, <2>4 DEF FuzzInv
<1>2. CASE AllReturned
  <2>1. /\ UNCHANGED <<failed, outcomes, processes, process, exchange>>
        /\ fuzzPc' = "reparse" /\ attempt' = attempt
    BY <1>2 DEF AllReturned, sessionVars
  <2> QED BY <1>0, <2>1 DEF FuzzInv, FuzzTypeOK, Confirm
<1>3. CASE SubmitReparse
  BY <1>3, SubmitConfirm, FuzzAssumption DEF SubmitReparse
<1>4. CASE ReparseReturns
  <2>1. PICK n, v : Returned(Reference, n, [class |-> "ok", value |-> v])
    BY <1>4 DEF ReparseReturns
  <2>2. exchange[Reference] = "returned" /\ fuzzPc = "reparse" /\ fuzzPc' = fuzzPc
    BY <1>4, <2>1 DEF ReparseReturns, Returned, EndExchange
  <2> DEFINE result == [class |-> "ok", value |-> v]
  <2>3. result.class = "ok" /\ Returned(Reference, n, result)
    BY <2>1
  <2> HIDE DEF result
  <2> QED BY <2>2, <2>3, ReturnConfirm, FuzzAssumption
<1>5. CASE Compare
  <2>1. /\ UNCHANGED <<processes, process, exchange>>
        /\ fuzzPc' \in {"check", "body"}
        /\ attempt' = [s \in Sessions |-> 0]
        /\ failed' = [s \in Sessions |-> {}]
        /\ outcomes' = [s \in Sessions |-> NoOutcome]
    BY <1>5 DEF Compare, sessionVars
  <2>2. FuzzTypeOK'
    <3>1. outcomes' \in [Sessions -> {NoOutcome}]
      BY <2>1
    <3> QED BY <2>1, <3>1 DEF FuzzTypeOK
  <2>3. ASSUME NEW s \in Sessions PROVE Confirm(s)'
    BY <1>0, <2>1 DEF Confirm, NoOutcome
  <2> QED BY <2>2, <2>3 DEF FuzzInv
<1>6. CASE Close
  <2>1. CASE UNCHANGED sessionVars
    <3>1. /\ UNCHANGED <<attempt, failed, outcomes, processes, process, exchange>>
          /\ fuzzPc' \in {fuzzPc, "closed"}
      BY <1>6, <2>1 DEF Close, checkVars, sessionVars
    <3> QED BY <1>0, <3>1 DEF FuzzInv, FuzzTypeOK, Confirm
  <2>2. CASE \E s \in Sessions : CloseSession(s) /\ UNCHANGED fuzzPc
    <3>1. PICK s \in Sessions : CloseSession(s) /\ UNCHANGED fuzzPc
      BY <2>2
    <3>2. \A t \in Sessions : /\ Len(processes'[t]) = Len(processes[t])
                              /\ process'[t] \in {0, process[t]}
      BY <3>1, StopQuiet DEF CloseSession
    <3> QED BY <1>6, <3>1, <3>2, QuietConfirm DEF Close, CloseSession, checkVars
  <2> QED BY <1>6, <2>1, <2>2 DEF Close
<1>7. ASSUME NEW s \in Sessions, SubmitWorker(s) PROVE FuzzInv'
  BY <1>7, SubmitConfirm DEF SubmitWorker
<1>8. ASSUME NEW s \in Sessions, WorkerReturns(s) PROVE FuzzInv'
  BY <1>8, ReturnConfirm DEF WorkerReturns, Returned, EndExchange
<1>9. ASSUME NEW s \in Sessions, SessionStep(s) \/ AdapterStep(s),
             UNCHANGED <<fuzzPc, checkVars, chunkVars>>
      PROVE  FuzzInv'
  BY <1>9, SessionConfirm
<1> QED
  BY <1>1, <1>2, <1>3, <1>4, <1>5, <1>6, <1>7, <1>8, <1>9 DEF FuzzNext

\* A timeout or a dead process counts as a crash only after two processes failed.
THEOREM SafeCrashes == FuzzSpec => []CrashesAreConfirmed
<1>1. FuzzInit => FuzzTypeOK /\ \A s \in Sessions : Confirm(s)
  <2> SUFFICES ASSUME FuzzInit PROVE FuzzTypeOK /\ \A s \in Sessions : Confirm(s)
    OBVIOUS
  <2>1. outcomes \in [Sessions -> {NoOutcome}]
    BY DEF FuzzInit, FuzzStart
  <2>2. /\ attempt = [s \in Sessions |-> 0]
        /\ failed = [s \in Sessions |-> {}]
        /\ fuzzPc = "chunk"
        /\ outcomes = [s \in Sessions |-> NoOutcome]
    BY DEF FuzzInit, FuzzStart
  <2>3. /\ processes = [s \in Sessions |-> <<>>]
        /\ process = [s \in Sessions |-> 0]
        /\ exchange = [s \in Sessions |-> "idle"]
    BY DEF FuzzInit, FuzzStart, SessionInit
  <2>4. FuzzTypeOK
    BY <2>1, <2>2 DEF FuzzTypeOK
  <2>5. ASSUME NEW s \in Sessions PROVE Confirm(s)
    BY <2>2, <2>3 DEF Confirm, NoOutcome
  <2> QED BY <2>4, <2>5
<1>2. FuzzInit /\ IInv => FuzzInv
  BY <1>1 DEF FuzzInv
<1>3. FuzzInv => CrashesAreConfirmed
  BY DEF FuzzInv, Confirm, CrashesAreConfirmed
<1>4. FuzzSpec => []IInv
  BY FuzzerUsesSessions, SessionInvariant
<1> QED BY <1>2, <1>3, <1>4, ConfirmStep, PTL DEF FuzzSpec

=============================================================================
