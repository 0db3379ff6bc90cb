--------------------------- MODULE AdapterSession ---------------------------
(* conformance/scripts/harness.py: the sessions the fuzzer talks to its
   adapters with. A session keeps one serve process (a leader such as uv run
   and the child that does the work), writes one request per line and takes
   one line per answer from a queue that a reader thread fills. A process that
   hung or ended is replaced on the next call.

   A request is a number and an answer carries the number it answers, so that
   a late line can be told from the right one. Time is not modelled: a timeout
   may happen whenever the queue is empty.                                    *)
EXTENDS Naturals, Sequences

CONSTANTS Sessions,       \* the adapters under test, one session each
          Answers         \* what an adapter may answer to a request

\* The sentinel the reader puts at the end of stdout, and the error responses
\* the session makes up itself: they answer no request.
OfSession(what) == [to |-> 0, says |-> [class |-> what, value |-> {}]]
EndOfOutput == OfSession("end")
TimedOut == OfSession("Timeout")
ProcessFailed == OfSession("Adapter process failed")

VARIABLES
  processes,  \* processes[s]: the serve processes of s in the order of their start
  process,    \* process[s]: the current one, 0 if there is none
  exchange,   \* exchange[s]: the step of the call in progress, or "idle"
  request,    \* request[s]: the number of its request, or of the last one
  response,   \* response[s]: what it returned
  faults      \* how often adapters may still hang, exit, lose their leader or
              \* their reader

sessionVars == <<processes, process, exchange, request, response, faults>>

Fresh == [leader |-> "runs", child |-> TRUE, stdin |-> <<>>, lines |-> <<>>]

SessionInit(maxFaults) ==
  /\ processes = [s \in Sessions |-> <<>>]
  /\ process = [s \in Sessions |-> 0]
  /\ exchange = [s \in Sessions |-> "idle"]
  /\ request = [s \in Sessions |-> 0]
  /\ response = [s \in Sessions |-> TimedOut]
  /\ faults = maxFaults

Current(s) == processes[s][process[s]]
Running(p) == p.leader = "runs"
Gone(p) == p.leader # "runs" /\ ~p.child
HasEnded(p) == \E i \in 1..Len(p.lines) : p.lines[i] = EndOfOutput

-----------------------------------------------------------------------------
(* The caller's thread. *)

\* call() writes to the current process if poll() says that it runs, otherwise
\* to a new one. The old one, if any, is only forgotten.
BeginExchange(s) ==
  /\ exchange[s] = "idle"
  /\ IF process[s] # 0 /\ Running(Current(s))
     THEN UNCHANGED <<processes, process>>
     ELSE /\ processes' = [processes EXCEPT ![s] = Append(@, Fresh)]
          /\ process' = [process EXCEPT ![s] = Len(processes[s]) + 1]
  /\ exchange' = [exchange EXCEPT ![s] = "write"]
  /\ request' = [request EXCEPT ![s] = @ + 1]
  /\ UNCHANGED <<response, faults>>

\* Mutant: kills the leader, not its process group.
KilledLeaderOnly(p) == [p EXCEPT !.leader = IF @ = "runs" THEN "killed" ELSE @]

\* _kill_process_group: SIGTERM and SIGKILL reach the leader and its child. What
\* they did not read is lost with the pipe, and the reader comes to its end.
Killed(p) == [p EXCEPT !.leader = IF @ = "runs" THEN "killed" ELSE @, !.child = FALSE,
                       !.stdin = <<>>,
                       !.lines = IF HasEnded(p) THEN @ ELSE Append(@, EndOfOutput)]

\* _stop(): there is no current process, and nothing of its group is left. The
\* queue keeps what it has: a new process gets a new one.
Stop(s) ==
  /\ process' = [process EXCEPT ![s] = 0]
  /\ processes' = IF process[s] = 0 THEN processes
                  ELSE [processes EXCEPT ![s][process[s]] = Killed(@)]

Respond(s, answer) ==
  /\ response' = [response EXCEPT ![s] = answer]
  /\ exchange' = [exchange EXCEPT ![s] = "returned"]
  /\ UNCHANGED <<request, faults>>

WriteRequest(s) ==
  /\ exchange[s] = "write"
  /\ ~Gone(Current(s))
  /\ processes' = [processes EXCEPT ![s][process[s]].stdin = Append(@, request[s])]
  /\ exchange' = [exchange EXCEPT ![s] = "wait"]
  /\ UNCHANGED <<process, request, response, faults>>

\* BrokenPipeError: the process ended between poll() and the write.
WriteFails(s) ==
  /\ exchange[s] = "write"
  /\ Gone(Current(s))
  /\ Stop(s)
  /\ Respond(s, ProcessFailed)

TakeLine(s) ==
  /\ exchange[s] = "wait"
  /\ Current(s).lines # <<>>
  /\ Head(Current(s).lines) # EndOfOutput
  /\ processes' = [processes EXCEPT ![s][process[s]].lines = Tail(@)]
  /\ UNCHANGED process
  /\ Respond(s, Head(Current(s).lines))

\* No more lines will come: the call waits, without a timeout, for the leader to
\* end.
OutputEnds(s) ==
  /\ exchange[s] = "wait"
  /\ Current(s).lines # <<>>
  /\ Head(Current(s).lines) = EndOfOutput
  /\ exchange' = [exchange EXCEPT ![s] = "exit"]
  /\ UNCHANGED <<processes, process, request, response, faults>>

WaitsForExit(s) == exchange[s] = "exit" /\ Running(Current(s))

ProcessExited(s) ==
  /\ exchange[s] = "exit"
  /\ ~WaitsForExit(s)
  /\ Stop(s)
  /\ Respond(s, ProcessFailed)

\* The call is over; what it returned is the caller's.
EndExchange(s) ==
  /\ exchange[s] = "returned"
  /\ exchange' = [exchange EXCEPT ![s] = "idle"]
  /\ response' = [response EXCEPT ![s] = TimedOut]
  /\ UNCHANGED <<processes, process, request, faults>>

\* Mutant: the timeout keeps the process.
CallTimesOutKeeps(s) ==
  /\ exchange[s] = "wait"
  /\ Current(s).lines = <<>>
  /\ faults > 0
  /\ UNCHANGED <<process, processes, request>>
  /\ faults' = faults - 1
  /\ response' = [response EXCEPT ![s] = TimedOut]
  /\ exchange' = [exchange EXCEPT ![s] = "returned"]

CallTimesOut(s) ==
  /\ exchange[s] = "wait"
  /\ Current(s).lines = <<>>
  /\ faults > 0
  /\ Stop(s)
  /\ faults' = faults - 1
  /\ response' = [response EXCEPT ![s] = TimedOut]
  /\ exchange' = [exchange EXCEPT ![s] = "returned"]
  /\ UNCHANGED request

-----------------------------------------------------------------------------
(* The adapter's processes and the reader threads. *)

\* The child reads a request and writes its answer, also for a session that
\* gave up waiting but has not killed it yet. Nobody reads what it writes once
\* the reader has ended.
AdapterAnswers(s, p, answer) ==
  LET line == [to |-> Head(processes[s][p].stdin), says |-> answer] IN
  /\ processes[s][p].child
  /\ processes[s][p].stdin # <<>>
  /\ processes' = [processes EXCEPT
       ![s][p].stdin = Tail(@),
       ![s][p].lines = IF HasEnded(processes[s][p]) THEN @ ELSE Append(@, line)]
  /\ UNCHANGED <<process, exchange, request, response, faults>>

\* The child ends, and the leader with it.
AdapterExits(s, p) ==
  /\ faults > 0
  /\ Running(processes[s][p])
  /\ processes' = [processes EXCEPT ![s][p].leader = "exited", ![s][p].child = FALSE]
  /\ faults' = faults - 1
  /\ UNCHANGED <<process, exchange, request, response>>

\* The leader ends alone: the child goes on and keeps the pipes open.
LeaderDies(s, p) ==
  /\ faults > 0
  /\ Running(processes[s][p])
  /\ processes' = [processes EXCEPT ![s][p].leader = "exited"]
  /\ faults' = faults - 1
  /\ UNCHANGED <<process, exchange, request, response>>

\* read(): end of file once nobody holds stdout. Before that it ends at a line
\* that is not UTF-8, or when an adapter that runs on closes its stdout.
ReaderEnds(s, p) ==
  /\ ~HasEnded(processes[s][p])
  /\ IF Gone(processes[s][p]) THEN UNCHANGED faults ELSE faults > 0 /\ faults' = faults - 1
  /\ processes' = [processes EXCEPT ![s][p].lines = Append(@, EndOfOutput)]
  /\ UNCHANGED <<process, exchange, request, response>>

\* close() at the end of a session, when no call is under way.
CloseSession(s) ==
  /\ exchange[s] = "idle"
  /\ Stop(s)
  /\ UNCHANGED <<exchange, request, response, faults>>

SessionStep(s) ==
  \/ WriteRequest(s) \/ WriteFails(s) \/ TakeLine(s) \/ OutputEnds(s) \/ ProcessExited(s)
  \/ CallTimesOut(s)

AdapterStep(s) ==
  \E p \in 1..Len(processes[s]) :
     \/ \E answer \in Answers : AdapterAnswers(s, p, answer)
     \/ AdapterExits(s, p)
     \/ LeaderDies(s, p)
     \/ ReaderEnds(s, p)

\* Sessions by themselves, for callers that may call, read and close as they like.
SessionNext ==
  \E s \in Sessions :
     \/ BeginExchange(s) \/ EndExchange(s) \/ CloseSession(s)
     \/ SessionStep(s) \/ AdapterStep(s)

SessionSpec == (\E n \in Nat : SessionInit(n)) /\ [][SessionNext]_sessionVars

-----------------------------------------------------------------------------

\* A call returns the answer to its own request or an error of the session's
\* own making, never the late answer to a request that timed out.
AnswersMatchRequests ==
  \A s \in Sessions : exchange[s] = "returned" => response[s].to \in {0, request[s]}

\* A call that found the leader ended forgot the process for a new one, and
\* nobody stops a child that outlives such a leader.
Forgotten(s, p) == processes[s][p].leader = "exited" /\ p < Len(processes[s])

\* A process that is not the session's any more is dead with its child, unless
\* it was forgotten: after a failed call and after close() nothing is left of the
\* last one, also if its leader had ended and its child had not.
NoStrayAdapters ==
  \A s \in Sessions : \A p \in 1..Len(processes[s]) :
     p # process[s] => Gone(processes[s][p]) \/ Forgotten(s, p)

=============================================================================
