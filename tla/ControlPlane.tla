---------------------------- MODULE ControlPlane ----------------------------
(***************************************************************************)
(* The control plane of Agricola: agricola/service.py (poll,               *)
(* handle_comment, record_propagations) as the jobs of the workflow        *)
(* .github/workflows/agricola.yml run it.  Polls share one concurrency     *)
(* group, so they are one cyclic run, Poll; each maintainer comment is a   *)
(* run of its own, in the group of its tracking issue.  A run is a state   *)
(* transaction that queues requests, the generate/verify/publish matrix    *)
(* that gives each request an outcome, a second transaction that records   *)
(* the outcomes, and the delivery of the tracking-issue table after each   *)
(* of them.                                                                *)
(*                                                                         *)
(* A transaction is one step on the newest ledger, which StateTransaction  *)
(* shows it to be.  What an operation does outside the ledger (poll opens  *)
(* tracking issues) happens even when its transaction then fails.          *)
(***************************************************************************)
EXTENDS DecisionLedger, FiniteSets

CONSTANTS
    N,              \* canonical changes, numbered in the order they merge
    Comments,       \* maintainer comments with one command each
    Command,        \* comment -> [change, verb, targets, all, instruction]
    Raw,            \* change -> labels the pull request has now
    Resolution,     \* change -> what resolve_labels makes of its label events
    Overlap,        \* changes before the cursor that a poll reads again
    MaxFaults,      \* bound: jobs that die between two of their steps
    Poll            \* the run of the control-plane group

Changes == 1..N
Runs == Comments \cup {Poll}

ASSUME ControlPlaneAssumption ==
    /\ N \in Nat /\ Overlap \in Nat /\ MaxFaults \in Nat
    /\ Poll \notin Comments
    /\ \A k \in Comments : Command[k].change \in Changes /\ Command[k].targets \subseteq Targets
    /\ \A k \in Comments : Command[k].verb = "skip" => Cardinality(Command[k].targets) = 1
    /\ \A c \in Changes : Resolution[c].targets \subseteq Targets

VARIABLES
    merged,     \* changes merged so far
    cursor,     \* ledger/cursor.json
    ledger,     \* change -> entry of the durable ledger
    issue,      \* change -> tracking issues with its marker, and their table
    run,        \* run -> stage, requests, outcomes, tables to deliver
    faults

vars == <<merged, cursor, ledger, issue, run, faults>>

Statuses == {"Awaiting", "Queued", "Recorded", "Skipped"}
BlankTable == [t \in Targets |-> "Awaiting"]

(* A run that has nothing under way.                                       *)
IdleRun == [stage |-> "idle", requests |-> {}, outcome |-> [q \in {} |-> "open"],
            plan |-> [c \in Changes |-> BlankTable]]

(* A run that is over: the poll can start again.                           *)
Over(r) == IF r = Poll THEN IdleRun ELSE [IdleRun EXCEPT !.stage = "ended"]

Init ==
    /\ merged = 0 /\ cursor = 0 /\ faults = 0
    /\ ledger = [c \in Changes |-> NoEntry]
    /\ issue = [c \in Changes |-> [count |-> 0, table |-> BlankTable]]
    /\ run = [r \in Runs |-> IdleRun]

Fault == faults < MaxFaults /\ faults' = faults + 1
NoFault == UNCHANGED faults

(***************************************************************************)
(* Requests                                                                *)
(***************************************************************************)
DefaultKey(c, t) == <<"propagate", c, t>>
FixKey(k, c, t) == <<"fix", c, t, k>>

Request(c, t, key, revision) ==
    [change |-> c, target |-> t, key |-> key, revision |-> revision]

(* The run queued requests qs with the given tables; it then waits in      *)
(* stage for its next job.                                                 *)
Queue(r, stage, qs, plan) ==
    run' = [run EXCEPT ![r] =
        [stage |-> stage, requests |-> qs, plan |-> plan,
         outcome |-> [q \in qs |-> "open"]]]

(***************************************************************************)
(* poll                                                                    *)
(***************************************************************************)

(* A canonical pull request is merged.                                     *)
MergeChange ==
    /\ merged < N
    /\ merged' = merged + 1
    /\ UNCHANGED <<cursor, ledger, issue, run, faults>>

(* merged_changes: everything merged since the cursor, less the overlap.   *)
Window == {c \in 1..merged : c + Overlap >= cursor}

LabelConflict(c) == EnsureConflict(ledger[c], Resolution[c].labels)

(* A change without effective labels, errors or notes gets no issue.       *)
Suppressed(c) ==
    Resolution[c].disabled /\ ~Resolution[c].errors /\ ~Resolution[c].notes

PolledEntry(c) == Ensure(ledger[c], Resolution[c].labels)
PolledTable(c) == TableOf(PolledEntry(c), Resolution[c].targets)

(* Mutant: the entry of an earlier poll, not the marker, tells whether an  *)
(* issue was opened.                                                       *)
NeedsIssueByEntry(c) == ~Suppressed(c) /\ ~ledger[c].known

(* Changes of the window for which poll opens an issue: the marker of the  *)
(* change is looked up in all issues first.                                *)
NeedsIssue(c) == ~Suppressed(c) /\ issue[c].count = 0

OpenIssues(cs) ==
    issue' = [c \in Changes |->
        IF c \in cs /\ NeedsIssue(c)
        THEN [count |-> issue[c].count + 1, table |-> PolledTable(c)]
        ELSE issue[c]]

(* Mutant: only new issues get requests.                                   *)
PollRequestsOnce ==
    UNION {{Request(c, t, DefaultKey(c, t), FALSE) : t \in Resolution[c].targets} :
           c \in {b \in Window : NeedsIssue(b) /\ ~Resolution[b].errors}}

(* The targets that are selected for c and have no decision.               *)
Undecided(c) == {t \in Resolution[c].targets : ~Decided(PolledEntry(c), t)}

PollRequests ==
    UNION {{Request(c, t, DefaultKey(c, t), FALSE) : t \in Undecided(c)} :
           c \in {b \in Window : ~Resolution[b].disabled /\ ~Resolution[b].errors}}

(* The poll and its transaction go through: entries, issues, requests and  *)
(* the cursor, which ends at the last change.  The job may still die       *)
(* before the matrix starts.                                               *)
PollSucceeds ==
    /\ run[Poll].stage = "idle"
    /\ Window # {}
    /\ \A c \in Window : ~LabelConflict(c)
    /\ ledger' = [c \in Changes |-> IF c \in Window THEN PolledEntry(c) ELSE ledger[c]]
    /\ OpenIssues(Window)
    /\ cursor' = IF cursor > merged THEN cursor ELSE merged
    /\ \/ /\ NoFault
          /\ IF PollRequests = {} THEN UNCHANGED run
             ELSE Queue(Poll, "generate", PollRequests,
                    [c \in Changes |-> IF c \in Window THEN PolledTable(c) ELSE BlankTable])
       \/ Fault /\ UNCHANGED run
    /\ UNCHANGED merged

(* Mutant: the cursor is saved although the entries are not.               *)
PollFailsWithCursor ==
    /\ run[Poll].stage = "idle"
    /\ Window # {}
    /\ Fault
    /\ OpenIssues({})
    /\ cursor' = merged
    /\ UNCHANGED <<merged, ledger, run>>

(* The poll, or its transaction, fails: the issues it opened so far stay,  *)
(* nothing is recorded.                                                    *)
PollFails ==
    /\ run[Poll].stage = "idle"
    /\ \E c \in Window :
        /\ \A b \in Window : b < c => ~LabelConflict(b)
        /\ \/ LabelConflict(c) /\ OpenIssues({b \in Window : b < c}) /\ NoFault
           \/ ~LabelConflict(c) /\ OpenIssues({b \in Window : b <= c}) /\ Fault
    /\ UNCHANGED <<merged, cursor, ledger, run>>

(***************************************************************************)
(* handle_comment                                                          *)
(***************************************************************************)
Active(r) ==
    run[r].stage \in {"deliver", "generate", "verify", "publish", "record", "update"}

(* The comment is on the tracking issue; the concurrency group of the      *)
(* issue runs one comment at a time.                                       *)
CanStart(k) ==
    /\ run[k].stage = "idle"
    /\ issue[Command[k].change].count > 0
    /\ \A j \in Comments : Command[j].change = Command[k].change => ~Active(j)

(* The transaction of comment k writes entry e and the job goes on to      *)
(* deliver the table; it may die before it does.                           *)
CommentCommits(k, e, qs, queued) ==
    LET c == Command[k].change
        table == [t \in Targets |-> IF t \in queued THEN "Queued"
                                    ELSE Row(e, t, Resolution[c].targets)]
    IN  /\ ledger' = [ledger EXCEPT ![c] = e]
        /\ \/ NoFault /\ Queue(k, "deliver", qs, [IdleRun.plan EXCEPT ![c] = table])
           \/ Fault /\ run' = [run EXCEPT ![k] = [IdleRun EXCEPT !.stage = "lost"]]
        /\ UNCHANGED <<merged, cursor, issue>>

(* Mutant: a target that is recorded already is queued under a fresh key.  *)
FixRequestsAgain(k, e, t, open) ==
    LET c == Command[k].change
    IN  IF DefaultKey(c, t) \in UsedKeys(e)
        THEN {Request(c, t, FixKey(k, c, t), FALSE)}
        ELSE {Request(c, t, DefaultKey(c, t), FALSE)}

(* /ag fix: the request for target t, if there is one to queue.  A         *)
(* recorded target is revised if there is an instruction and its pull      *)
(* request is open; a skipped one is only queued by name.                  *)
FixRequests(k, e, t, open) ==
    LET c == Command[k].change
    IN  CASE Propagated(e, t) ->
               IF Command[k].instruction /\ open
               THEN {Request(c, t, <<"revise", c, t, k>>, TRUE)} ELSE {}
          [] ~Propagated(e, t) /\ Command[k].all /\ Skipped(e, t) -> {}
          [] OTHER ->
               IF FixKey(k, c, t) \in UsedKeys(e) THEN {}
               ELSE IF DefaultKey(c, t) \in UsedKeys(e)
                    THEN {Request(c, t, FixKey(k, c, t), FALSE)}
                    ELSE {Request(c, t, DefaultKey(c, t), FALSE)}

HandleFix(k) ==
    /\ Command[k].verb = "fix"
    /\ CanStart(k)
    /\ LET c == Command[k].change
           e == EnsureKnown(ledger[c], Raw[c])
           targets == IF Command[k].all THEN Targets ELSE Command[k].targets
       IN  \E open \in SUBSET targets :
            LET qs == UNION {FixRequests(k, e, t, t \in open) : t \in targets}
            IN  CommentCommits(k, e, qs, {q.target : q \in {x \in qs : ~x.revision}})

(* /ag skip: an entry that is missing is created with the merge-time       *)
(* labels; the decision is keyed by the comment.                           *)
SkipDecision(k, t) ==
    [target |-> t, kind |-> "skip", key |-> <<"comment", k>>, by |-> k]

HandleSkip(k) ==
    /\ Command[k].verb = "skip"
    /\ CanStart(k)
    /\ \E t \in Command[k].targets :
        LET c == Command[k].change
            e == EnsureKnown(ledger[c], Resolution[c].labels)
        IN  /\ ~KeyReused(e, SkipDecision(k, t))
            /\ CommentCommits(k, AppendDecision(e, SkipDecision(k, t)), {}, {})

(* /ag plan: the table is rebuilt from the ledger.                         *)
HandlePlan(k) ==
    /\ Command[k].verb = "plan"
    /\ CanStart(k)
    /\ CommentCommits(k, ledger[Command[k].change], {}, {})

(* The run job delivers the table, then the matrix may start.              *)
DeliverIssueUpdate(k) ==
    /\ k \in Comments /\ run[k].stage = "deliver"
    /\ LET c == Command[k].change
       IN  issue' = [issue EXCEPT ![c].table = run[k].plan[c]]
    /\ run' = [run EXCEPT ![k] = IF run[k].requests = {} THEN Over(k)
                                 ELSE [@ EXCEPT !.stage = "generate"]]
    /\ UNCHANGED <<merged, cursor, ledger, faults>>

(***************************************************************************)
(* The matrix, record_propagations and its delivery                        *)
(***************************************************************************)

With(r, o) == {q \in run[r].requests : run[r].outcome[q] = o}
Results(r) == With(r, "propagate") \cup With(r, "skip")

(* The first job of the matrix that has work to do for outcomes o.         *)
MatrixStage(o) ==
    LET some(x) == \E q \in DOMAIN o : o[q] = x
    IN  IF some("open") THEN "generate"
        ELSE IF some("patch") THEN "verify"
        ELSE IF some("verified") THEN "publish" ELSE "record"

EndOfJob(r, stage, o) ==
    /\ run' = [run EXCEPT ![r].stage = stage, ![r].outcome = o]
    /\ UNCHANGED <<merged, cursor, ledger, issue, faults>>

(* The generate jobs of a run: each makes a patch, gives an explicit       *)
(* reason to skip, or fails; a revision is never skipped.  One failed job  *)
(* keeps verify and publish from starting for the whole run.               *)
Generate(r, patches, skips) ==
    /\ run[r].stage = "generate"
    /\ \A q \in skips : ~q.revision
    /\ LET o == [q \in run[r].requests |->
                    CASE q \in patches -> "patch"
                      [] q \in skips -> "skip"
                      [] q \in With(r, "open") \ (patches \cup skips) -> "failed"
                      [] OTHER -> run[r].outcome[q]]
       IN  EndOfJob(r, IF patches \cup skips = With(r, "open") THEN MatrixStage(o)
                       ELSE "record", o)

(* The verify jobs: unless all of them pass, nothing is published.         *)
Verify(r, pass) ==
    /\ run[r].stage = "verify"
    /\ EndOfJob(r, IF pass THEN "publish" ELSE "record",
           [q \in run[r].requests |->
               IF pass /\ q \in With(r, "patch") THEN "verified" ELSE run[r].outcome[q]])

(* The publish jobs: those of the requests in done leave a pull request.   *)
Publish(r, done) ==
    /\ run[r].stage = "publish"
    /\ EndOfJob(r, "record",
           [q \in run[r].requests |-> IF q \in done THEN "propagate" ELSE run[r].outcome[q]])

RunMatrix(r) ==
    \/ \E patches \in SUBSET With(r, "open") :
        \E skips \in SUBSET (With(r, "open") \ patches) : Generate(r, patches, skips)
    \/ \E pass \in BOOLEAN : Verify(r, pass)
    \/ \E done \in SUBSET With(r, "verified") : Publish(r, done)

(* The decision a result stands for; its author and time are those of the  *)
(* run.                                                                    *)
DecisionOf(r, q) ==
    [target |-> q.target, kind |-> run[r].outcome[q], key |-> q.key, by |-> r]

Recordable(r) == {q \in Results(r) : ~q.revision}

RecordConflict(r) ==
    \E q \in Recordable(r) :
        ~ledger[q.change].known \/ KeyReused(ledger[q.change], DecisionOf(r, q))

(* The decisions of r on target t of change c that the ledger has not yet. *)
NewDecisions(r, c, t) ==
    {DecisionOf(r, q) : q \in {x \in Recordable(r) : x.change = c /\ x.target = t}}
    \ AllDecisions(ledger[c])

(* Mutant: the newest decision on a target replaces the earlier ones.      *)
RecordedEntryReplacing(r, c) ==
    [ledger[c] EXCEPT !.decisions =
        [t \in Targets |-> IF NewDecisions(r, c, t) = {} THEN @[t]
                           ELSE <<CHOOSE d \in NewDecisions(r, c, t) : TRUE>>]]

(* The entry of c with the results of r appended: at most one per target.  *)
RecordedEntry(r, c) ==
    [ledger[c] EXCEPT !.decisions =
        [t \in Targets |-> IF NewDecisions(r, c, t) = {} THEN @[t]
                           ELSE Append(@[t], CHOOSE d \in NewDecisions(r, c, t) : TRUE)]]

(* The record job is done.  If a job of the matrix failed, the run failed, *)
(* and its failed jobs can be run again.                                   *)
Concluded(r) ==
    IF Results(r) = run[r].requests THEN Over(r)
    ELSE [run[r] EXCEPT !.stage = "incomplete"]

(* Mutant: tables and replies are delivered before the ledger is written.  *)
RecordPropagationsLate(r) ==
    /\ run[r].stage = "record"
    /\ run' = [run EXCEPT ![r].stage = "update"]
    /\ UNCHANGED <<merged, cursor, ledger, issue, faults>>

(* record-propagations in its transaction: one conflict fails the batch,   *)
(* and the record job may die before the transaction or after it.          *)
RecordPropagations(r) ==
    /\ run[r].stage = "record"
    /\ \/ /\ ~RecordConflict(r)
          /\ ledger' = [c \in Changes |-> RecordedEntry(r, c)]
          /\ \/ NoFault /\ run' = [run EXCEPT ![r] =
                    IF Results(r) = {} THEN Concluded(r) ELSE [@ EXCEPT !.stage = "update"]]
             \/ Fault /\ run' = [run EXCEPT ![r].stage = "incomplete"]
       \/ /\ IF RecordConflict(r) THEN NoFault ELSE Fault
          /\ run' = [run EXCEPT ![r].stage = "incomplete"]
          /\ UNCHANGED ledger
    /\ UNCHANGED <<merged, cursor, issue>>

(* record_propagation_outcomes: the rows of the results replace those of   *)
(* the plan the requests carry.                                            *)
OutcomeTable(r, c) ==
    [t \in Targets |->
        IF \E q \in Results(r) : q.change = c /\ q.target = t
        THEN LET q == CHOOSE q \in Results(r) : q.change = c /\ q.target = t
             IN  IF run[r].outcome[q] = "propagate" THEN "Recorded" ELSE "Skipped"
        ELSE run[r].plan[c][t]]

DeliverOutcomes(r) ==
    /\ run[r].stage = "update"
    /\ issue' = [c \in Changes |->
                    IF \E q \in Results(r) : q.change = c
                    THEN [issue[c] EXCEPT !.table = OutcomeTable(r, c)]
                    ELSE issue[c]]
    /\ run' = [run EXCEPT ![r] = Concluded(r)]
    /\ UNCHANGED <<merged, cursor, ledger, faults>>

(* A job dies before it delivered its table.                               *)
DeliveryFails(r) ==
    /\ Fault
    /\ \/ /\ run[r].stage = "deliver"
          /\ run' = [run EXCEPT ![r] = [IdleRun EXCEPT !.stage = "lost"]]
       \/ /\ run[r].stage = "update"
          /\ run' = [run EXCEPT ![r].stage = "incomplete"]
    /\ UNCHANGED <<merged, cursor, ledger, issue>>

(* An operator re-runs the failed jobs of a run and those that depend on   *)
(* them: the run job, or jobs of the matrix and then the record job.       *)
Reopened(r) ==
    [q \in run[r].requests |->
        IF q \in With(r, "failed") THEN "open" ELSE run[r].outcome[q]]

RerunJobs(r) ==
    /\ \/ run[r].stage = "lost" /\ run' = [run EXCEPT ![r] = IdleRun]
       \/ /\ run[r].stage = "incomplete"
          /\ run' = [run EXCEPT ![r].stage = MatrixStage(Reopened(r)),
                                ![r].outcome = Reopened(r)]
    /\ \A j \in Comments \ {r} : r # Poll /\ Command[j].change = Command[r].change => ~Active(j)
    /\ UNCHANGED <<merged, cursor, ledger, issue, faults>>

(* The next scheduled poll takes over from one that failed.                *)
AbandonPoll ==
    /\ run[Poll].stage = "incomplete"
    /\ run' = [run EXCEPT ![Poll] = IdleRun]
    /\ UNCHANGED <<merged, cursor, ledger, issue, faults>>

Handle(k) == HandleFix(k) \/ HandleSkip(k) \/ HandlePlan(k)

Next ==
    \/ MergeChange \/ PollSucceeds \/ PollFails \/ AbandonPoll
    \/ \E k \in Comments : Handle(k) \/ DeliverIssueUpdate(k)
    \/ \E r \in Runs :
        \/ RunMatrix(r) \/ RecordPropagations(r) \/ DeliverOutcomes(r) \/ DeliveryFails(r) \/ RerunJobs(r)

Spec == Init /\ [][Next]_vars

(* The schedule starts polls for ever and an operator does not re-run one  *)
(* failed poll for ever; a job that is not killed goes on to its end.      *)
Fairness ==
    /\ WF_vars(PollSucceeds) /\ WF_vars(MergeChange) /\ SF_vars(AbandonPoll)
    /\ \A k \in Comments : WF_vars(DeliverIssueUpdate(k))
    /\ \A r \in Runs :
        WF_vars(RunMatrix(r)) /\ WF_vars(RecordPropagations(r)) /\ WF_vars(DeliverOutcomes(r))

(* Each job of the matrix of a poll that is started again and again ends   *)
(* once without a failure for all the requests of its poll.                *)
MatrixSucceeds ==
    /\ SF_vars(\E skips \in SUBSET With(Poll, "open") :
                   Generate(Poll, With(Poll, "open") \ skips, skips))
    /\ SF_vars(Verify(Poll, TRUE))
    /\ SF_vars(Publish(Poll, With(Poll, "verified")))

FairSpec == Spec /\ Fairness /\ MatrixSucceeds

-----------------------------------------------------------------------------
(***************************************************************************)
(* Properties                                                              *)
(***************************************************************************)
(* However often polls fail after they opened an issue, and are replayed   *)
(* over the overlap, a change has at most one tracking issue               *)
(* (service.py:113-124).                                                   *)
OneIssuePerChange == \A c \in Changes : issue[c].count <= 1

(* A row never claims a pull request or a skip that the durable ledger     *)
(* does not have, whatever jobs die in between: tables are delivered after *)
(* the state push (service.py:483, agricola.yml:573).                      *)
NoRowAheadOfLedger ==
    \A c \in Changes, t \in Targets :
        /\ issue[c].table[t] = "Recorded" => Propagated(ledger[c], t)
        /\ issue[c].table[t] = "Skipped" => Skipped(ledger[c], t)

(* The comments that name a target in a fix, which overrides its skip.     *)
Overriders(c, t) ==
    {k \in Comments : /\ Command[k].verb = "fix" /\ ~Command[k].all
                      /\ Command[k].change = c /\ t \in Command[k].targets}

(* A poll and the comments of an issue may work on the same target at the  *)
(* same time, and be re-run; the ledger still gets one propagation of it   *)
(* (ledger.py:82, service.py:301-333).  Two comments that override the     *)
(* same skip have keys of their own, so this is promised up to one.        *)
OnePropagationPerTarget ==
    \A c \in Changes, t \in Targets :
        (\A j, k \in Overriders(c, t) : j = k) =>
            \A x, y \in DOMAIN ledger[c].decisions[t] :
                /\ ledger[c].decisions[t][x].kind = "propagate"
                /\ ledger[c].decisions[t][y].kind = "propagate"
                => x = y

(* The cursor never passes a merged change without an entry: a failed poll *)
(* leaves it where the ledger is (service.py:140).                         *)
CursorBehindLedger == \A c \in Changes : c <= cursor => ledger[c].known

(* An entry only grows: decisions keep their order, and the label snapshot *)
(* changes only while it is empty and nothing is decided (ledger.py:103).  *)
EntriesAreAppendOnly ==
    [][\A c \in Changes :
        /\ ledger[c].known => ledger'[c].known
        /\ ledger[c].known /\ ledger'[c].labels # ledger[c].labels =>
               ledger[c].labels = {} /\ AllDecisions(ledger[c]) = {}
        /\ \A t \in Targets :
            \A i \in DOMAIN ledger[c].decisions[t] :
               /\ i \in DOMAIN ledger'[c].decisions[t]
               /\ ledger'[c].decisions[t][i] = ledger[c].decisions[t][i]]_vars

(* A label conflict at a change of the window stops the polls for good:    *)
(* each of them fails there, and the cursor stays where it is.             *)
PollsStopped == \E b \in Window : LabelConflict(b)

(* Every merged change gets its entry and, unless it is suppressed, its    *)
(* tracking issue, however often polls die; only a label conflict (see     *)
(* LabelsAreMergeTime) keeps a change from it (service.py:101-140).        *)
EveryChangeTracked ==
    \A c \in Changes :
        c <= merged ~> \/ ledger[c].known /\ (Suppressed(c) \/ issue[c].count > 0)
                       \/ PollsStopped

(* Every target a maintainer selected by label is decided in the end,      *)
(* although jobs die, one failed job of the matrix drops the outcomes of   *)
(* the whole batch, and other runs interfere, unless a label conflict      *)
(* stops the polls or the change has left the overlap that polls read      *)
(* again: from then on only a comment can propagate it (github.py:135).    *)
EverySelectedTargetDecided ==
    \A c \in Changes : \A t \in Resolution[c].targets :
        c <= merged /\ ~Resolution[c].errors ~>
            Decided(ledger[c], t) \/ PollsStopped \/ c + Overlap < cursor

-----------------------------------------------------------------------------
(* What the documentation says.                                            *)

(* "Entries contain immutable source metadata, the authorized merge-time   *)
(* label snapshot": the labels of an entry are those resolve_labels found. *)
LabelsAreMergeTime ==
    \A c \in Changes : ledger[c].known => ledger[c].labels = Resolution[c].labels

(* "record replays every successful pull-request reference or explicit     *)
(* skip against the newest ledger": once record has ended, each target     *)
(* with a result is decided.                                               *)
ResultsAreRecorded ==
    \A r \in Runs : run[r].stage = "incomplete" =>
        \A q \in Recordable(r) : Decided(ledger[q.change], q.target)

(* "Canonical-change tables reflect the durable decision ledger": when no  *)
(* run is under way, the rows of decided targets show their decision.      *)
TablesReflectLedger ==
    (\A r \in Runs : run[r].stage \in {"idle", "ended"}) =>
        \A c \in Changes, t \in Targets :
            issue[c].count > 0 /\ Decided(ledger[c], t) =>
                issue[c].table[t] = Row(ledger[c], t, {})
=============================================================================
