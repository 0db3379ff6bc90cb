----------------------------- MODULE Publisher -----------------------------
(***************************************************************************)
(* agricola/publisher.py: the publish jobs of one source-target pair.  All *)
(* of them share one stable branch of the downstream repository and the    *)
(* pull requests opened from it.  publish() is a sequence of round trips   *)
(* to GitHub; between two of them another publish job, or a maintainer of  *)
(* the downstream repository, can act, and the job can die and be re-run.  *)
(*                                                                         *)
(* The branch is its sequence of commits after the pinned target base      *)
(* (<<>>: there is no branch), and a sha is that sequence.  A job prepares *)
(* a new commit on every run; the commit of a revision carries the         *)
(* idempotency key of its request, which is the name of the job.           *)
(***************************************************************************)
EXTENDS Naturals, FiniteSets, SequencesExt

CONSTANTS
    Initial,        \* jobs that publish a first patch
    Revisions,      \* jobs that revise the recorded pull request
    Group,          \* job -> workflow concurrency group
    Maintainer,     \* what maintainers do downstream
    MaxHuman,       \* bound: commits of maintainers on the branch
    MaxReruns,      \* bound: re-runs of one job
    MaxFaults       \* bound: jobs that die

Jobs == Initial \cup Revisions

ASSUME PublisherAssumption ==
    /\ Initial \cap Revisions = {} /\ "human" \notin Jobs
    /\ Maintainer \subseteq {"push", "ready", "close", "reopen", "merge"}
    /\ MaxHuman \in Nat /\ MaxReruns \in Nat /\ MaxFaults \in Nat

VARIABLES
    branch,     \* commits of the stable branch
    pulls,      \* pull requests from the branch, in the order of creation
    pc,         \* job -> next step of publish()
    head,       \* job -> request.revision.head_sha
    pr,         \* job -> request.revision.pr
    existing,   \* job -> the pull request it found, 0 if none
    remote,     \* job -> what it read of the branch
    reruns,     \* job -> how often it was re-run
    human,      \* commits maintainers made so far
    faults

jobVars == <<pc, head, pr, existing, remote, reruns>>
vars == <<branch, pulls, jobVars, human, faults>>

Active == {"find", "draft", "read", "push", "create", "summary", "post", "upload"}

Init ==
    /\ branch = <<>> /\ pulls = <<>>
    /\ pc = [j \in Jobs |-> "idle"]
    /\ head = [j \in Jobs |-> <<>>]
    /\ pr = [j \in Jobs |-> 0]
    /\ existing = [j \in Jobs |-> 0]
    /\ remote = [j \in Jobs |-> <<>>]
    /\ reruns = [j \in Jobs |-> 0]
    /\ human = 0 /\ faults = 0

Goto(j, label) == pc' = [pc EXCEPT ![j] = label]

GroupFree(j) ==
    \A i \in Jobs \ {j} : Group[i] = Group[j] => pc[i] \notin Active

(* The commit the job prepared: a new one on every run.                    *)
CommitOf(j) == [by |-> j, run |-> reruns[j]]

(***************************************************************************)
(* Requests                                                                *)
(***************************************************************************)

(* A first patch is requested while no pull request is recorded.           *)
StartInitial(j) ==
    /\ j \in Initial
    /\ pc[j] = "idle" /\ GroupFree(j)
    /\ \A i \in Initial : pc[i] # "done"
    /\ Goto(j, "find")
    /\ UNCHANGED <<branch, pulls, head, pr, existing, remote, reruns, human, faults>>

(* GitHub.pull_revision: a revision pins the head of the recorded pull     *)
(* request, which must be open.                                            *)
StartRevision(j) ==
    /\ j \in Revisions
    /\ pc[j] = "idle" /\ GroupFree(j)
    /\ \E i \in Initial :
        /\ pc[i] = "done"
        /\ pulls[existing[i]].state = "OPEN"
        /\ pr' = [pr EXCEPT ![j] = existing[i]]
    /\ head' = [head EXCEPT ![j] = branch]
    /\ Goto(j, "find")
    /\ UNCHANGED <<branch, pulls, existing, remote, reruns, human, faults>>

(***************************************************************************)
(* publish                                                                 *)
(***************************************************************************)

(* Mutant: only open pull requests are listed.                             *)
FindExistingOpen(j) ==
    LET n == Len(pulls)
        open == n # 0 /\ pulls[n].state = "OPEN"
    IN  /\ pc[j] = "find"
        /\ existing' = [existing EXCEPT ![j] = IF open THEN n ELSE 0]
        /\ Goto(j, IF j \in Revisions /\ ~open THEN "failed"
                   ELSE IF open /\ ~pulls[n].draft THEN "draft" ELSE "read")
        /\ UNCHANGED <<branch, pulls, head, pr, remote, reruns, human, faults>>

(* _find_existing_pull and the checks on its state: the newest pull        *)
(* request of the branch is the one found.                                 *)
FindExisting(j) ==
    LET n == Len(pulls)
        state == IF n = 0 THEN "" ELSE pulls[n].state
    IN  /\ pc[j] = "find"
        /\ existing' = [existing EXCEPT ![j] = n]
        /\ Goto(j,
            IF j \in Revisions /\ (pr[j] # n \/ state # "OPEN") THEN "failed"
            ELSE IF state = "MERGED" THEN "upload"
            ELSE IF state = "CLOSED" THEN "failed"
            ELSE IF n # 0 /\ ~pulls[n].draft THEN "draft" ELSE "read")
        /\ UNCHANGED <<branch, pulls, head, pr, remote, reruns, human, faults>>

(* _convert_to_draft: GitHub converts an open pull request only.           *)
ConvertToDraft(j) ==
    LET n == existing[j]
    IN  /\ pc[j] = "draft"
        /\ IF pulls[n].state = "OPEN"
           THEN pulls' = [pulls EXCEPT ![n].draft = TRUE] /\ Goto(j, "read")
           ELSE Goto(j, "failed") /\ UNCHANGED pulls
        /\ UNCHANGED <<branch, head, pr, existing, remote, reruns, human, faults>>

(* ls-remote: a first patch replaces what is there, under a lease on it.   *)
ReadRemoteInitial(j) ==
    /\ j \in Initial
    /\ pc[j] = "read"
    /\ remote' = [remote EXCEPT ![j] = branch]
    /\ Goto(j, "push")
    /\ UNCHANGED <<branch, pulls, head, pr, existing, reruns, human, faults>>

(* _published_revision: the request-keyed commit after the pinned head.    *)
PublishedRevision(j) ==
    \E i \in (Len(head[j]) + 1)..Len(branch) : branch[i].by = j

(* Mutant: any commits on top of the pinned head are built upon.           *)
ReadRemoteRebases(j) ==
    /\ j \in Revisions
    /\ pc[j] = "read"
    /\ remote' = [remote EXCEPT ![j] = branch]
    /\ head' = [head EXCEPT ![j] = branch]
    /\ Goto(j, "push")
    /\ UNCHANGED <<branch, pulls, pr, existing, reruns, human, faults>>

(* Mutant: a branch that moved is refused, also by the job's own commit.   *)
ReadRemoteExact(j) ==
    /\ j \in Revisions
    /\ pc[j] = "read"
    /\ remote' = [remote EXCEPT ![j] = branch]
    /\ Goto(j, IF branch = head[j] THEN "push" ELSE "failed")
    /\ UNCHANGED <<branch, pulls, head, pr, existing, reruns, human, faults>>

(* fetch: a revision is pushed on the pinned head only; a head that        *)
(* already has the commit of this request skips the push.                  *)
ReadRemoteRevision(j) ==
    /\ j \in Revisions
    /\ pc[j] = "read"
    /\ remote' = [remote EXCEPT ![j] = branch]
    /\ Goto(j, IF branch = <<>> THEN "failed"
               ELSE IF branch = head[j] THEN "push"
               ELSE IF IsPrefix(head[j], branch) /\ PublishedRevision(j) THEN "summary"
               ELSE "failed")
    /\ UNCHANGED <<branch, pulls, head, pr, existing, reruns, human, faults>>

(* What the job pushes, and whether origin takes it: without a lease only  *)
(* a fast-forward, with --force-with-lease only over the commit it read.   *)
Pushed(j) == Append(head[j], CommitOf(j))

(* Mutant: every push of a job is forced.                                  *)
PushForced(j) == j \in Jobs

PushAccepted(j) ==
    IF j \in Initial /\ remote[j] # <<>>
    THEN branch = remote[j]
    ELSE IsPrefix(branch, Pushed(j))

AfterPush(j) ==
    IF existing[j] = 0 THEN "create"
    ELSE IF j \in Revisions THEN "summary" ELSE "upload"

Push(j) ==
    /\ pc[j] = "push"
    /\ IF PushAccepted(j)
       THEN branch' = Pushed(j) /\ Goto(j, AfterPush(j))
       ELSE Goto(j, "failed") /\ UNCHANGED branch
    /\ UNCHANGED <<pulls, head, pr, existing, remote, reruns, human, faults>>

NoSummaries == [j \in Revisions |-> 0]

(* _create_draft_pull: GitHub refuses a second open pull request of the    *)
(* branch.                                                                 *)
CreateDraftPull(j) ==
    /\ pc[j] = "create"
    /\ IF \E n \in DOMAIN pulls : pulls[n].state = "OPEN"
       THEN Goto(j, "failed") /\ UNCHANGED <<pulls, existing>>
       ELSE /\ pulls' = Append(pulls, [state |-> "OPEN", draft |-> TRUE, summaries |-> NoSummaries])
            /\ existing' = [existing EXCEPT ![j] = Len(pulls')]
            /\ Goto(j, "upload")
    /\ UNCHANGED <<branch, head, pr, remote, reruns, human, faults>>

(* Mutant: the marker of an earlier summary is not looked for.             *)
FindSummaryNever(j) ==
    /\ pc[j] = "summary"
    /\ Goto(j, "post")
    /\ UNCHANGED <<branch, pulls, head, pr, existing, remote, reruns, human, faults>>

(* _post_revision_summary: a comment with the marker of the request ends   *)
(* it; otherwise the summary is posted.                                    *)
FindSummary(j) ==
    /\ pc[j] = "summary"
    /\ Goto(j, IF pulls[existing[j]].summaries[j] > 0 THEN "upload" ELSE "post")
    /\ UNCHANGED <<branch, pulls, head, pr, existing, remote, reruns, human, faults>>

PostSummary(j) ==
    /\ pc[j] = "post"
    /\ pulls' = [pulls EXCEPT ![existing[j]].summaries[j] = @ + 1]
    /\ Goto(j, "upload")
    /\ UNCHANGED <<branch, head, pr, existing, remote, reruns, human, faults>>

(* The result is written and uploaded for the record job.                  *)
UploadResult(j) ==
    /\ pc[j] = "upload"
    /\ Goto(j, "done")
    /\ UNCHANGED <<branch, pulls, head, pr, existing, remote, reruns, human, faults>>

(***************************************************************************)
(* Jobs die and are re-run; maintainers work on the pull request           *)
(***************************************************************************)
Crash(j) ==
    /\ pc[j] \in Active
    /\ faults < MaxFaults
    /\ faults' = faults + 1
    /\ Goto(j, "failed")
    /\ UNCHANGED <<branch, pulls, head, pr, existing, remote, reruns, human>>

Rerun(j) ==
    /\ pc[j] = "failed" /\ GroupFree(j)
    /\ reruns[j] < MaxReruns
    /\ reruns' = [reruns EXCEPT ![j] = @ + 1]
    /\ Goto(j, "find")
    /\ UNCHANGED <<branch, pulls, head, pr, existing, remote, human, faults>>

HumanPush ==
    /\ "push" \in Maintainer
    /\ human < MaxHuman
    /\ \E n \in DOMAIN pulls : pulls[n].state = "OPEN"
    /\ human' = human + 1
    /\ branch' = Append(branch, [by |-> "human", run |-> human])
    /\ UNCHANGED <<pulls, jobVars, faults>>

SetPull(n, from, to) ==
    /\ pulls[n].state = from
    /\ pulls' = [pulls EXCEPT ![n].state = to]

(* A pull request is marked ready, merged once it is ready, closed, or     *)
(* reopened while no other is open.                                        *)
ManagePull(n) ==
    /\ \/ /\ "ready" \in Maintainer /\ pulls[n].state = "OPEN" /\ pulls[n].draft
          /\ pulls' = [pulls EXCEPT ![n].draft = FALSE]
       \/ "merge" \in Maintainer /\ ~pulls[n].draft /\ SetPull(n, "OPEN", "MERGED")
       \/ "close" \in Maintainer /\ SetPull(n, "OPEN", "CLOSED")
       \/ /\ "reopen" \in Maintainer
          /\ \A m \in DOMAIN pulls : pulls[m].state # "OPEN"
          /\ SetPull(n, "CLOSED", "OPEN")
    /\ UNCHANGED <<branch, jobVars, human, faults>>

Publish(j) ==
    \/ FindExisting(j) \/ ConvertToDraft(j)
    \/ ReadRemoteInitial(j) \/ ReadRemoteRevision(j) \/ Push(j)
    \/ CreateDraftPull(j) \/ FindSummary(j) \/ PostSummary(j) \/ UploadResult(j)

Next ==
    \/ \E j \in Jobs : StartInitial(j) \/ StartRevision(j) \/ Publish(j) \/ Crash(j) \/ Rerun(j)
    \/ HumanPush
    \/ \E n \in DOMAIN pulls : ManagePull(n)

Spec == Init /\ [][Next]_vars

(* A runner goes on to the end of its job; an operator re-runs what failed.*)
Fairness == \A j \in Jobs : WF_vars(Publish(j)) /\ WF_vars(Rerun(j))

FairSpec == Spec /\ Fairness

-----------------------------------------------------------------------------
(***************************************************************************)
(* Properties                                                              *)
(***************************************************************************)
CommitsBy(j) == {i \in DOMAIN branch : branch[i].by = j}

Commit == [by : Jobs \cup {"human"}, run : Nat]
Pull == [state : {"OPEN", "CLOSED", "MERGED"}, draft : BOOLEAN, summaries : [Revisions -> Nat]]

(* Every variable has its type, and a job past its search for a pull       *)
(* request refers to one that exists.                                      *)
TypeOK ==
    /\ branch \in Seq(Commit) /\ pulls \in Seq(Pull)
    /\ pc \in [Jobs -> Active \cup {"idle", "done", "failed"}]
    /\ head \in [Jobs -> Seq(Commit)] /\ remote \in [Jobs -> Seq(Commit)]
    /\ pr \in [Jobs -> Nat] /\ existing \in [Jobs -> Nat]
    /\ \A j \in Jobs :
        /\ pr[j] <= Len(pulls) /\ existing[j] <= Len(pulls)
        /\ pc[j] \in {"draft", "summary", "post", "upload", "done"} => existing[j] # 0
        /\ j \in Revisions /\ pc[j] \in {"read", "push"} => existing[j] # 0
    /\ reruns \in [Jobs -> 0..MaxReruns]
    /\ human \in 0..MaxHuman /\ faults \in 0..MaxFaults

(* However often a revision dies and is re-run, the branch never has two   *)
(* commits of it: a run after the push recognises its request-keyed commit *)
(* (publisher.py:152-166).                                                 *)
RevisionAppliedOnce == \A j \in Revisions : Cardinality(CommitsBy(j)) <= 1

(* The summary of a revision is posted at most once, and a revision that   *)
(* returned a result has one: a run that died between the push and the     *)
(* comment is made up for (publisher.py:160-166, 176-178).                 *)
OneSummaryPerRevision ==
    \A j \in Revisions :
        /\ \A n \in DOMAIN pulls : pulls[n].summaries[j] <= 1
        /\ pc[j] \in {"upload", "done"} => pulls[existing[j]].summaries[j] = 1

(* What a first patch replaces is what its job read: a commit that arrives *)
(* between the read and the push survives (publisher.py:168-173).          *)
LeaseProtectsLateCommits ==
    [][~IsPrefix(branch, branch') =>
        \E j \in Initial : pc[j] = "push" /\ pc'[j] # "push" /\ remote[j] = branch]_vars

(* "The source identity and target define a stable idempotency key, so     *)
(* overlapping polls and repeated commands do not create duplicate pull    *)
(* requests" (README.md:116): also after maintainers close or merge one, a *)
(* source-target pair has at most one (publisher.py:120-142, 175).         *)
OnePull == Len(pulls) <= 1

(* A job whose commit is on the branch ends with a result: whatever step   *)
(* after the push it died at, and although a later revision may have been  *)
(* published on top of it since, a re-run resumes, unless a maintainer     *)
(* closes or merges the pull request (publisher.py:152-166).               *)
PublishedJobsResume ==
    \A j \in Jobs : CommitsBy(j) # {} ~>
        pc[j] = "done" \/ \E n \in DOMAIN pulls : pulls[n].state # "OPEN"

=============================================================================
