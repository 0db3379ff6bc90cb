-------------------------- MODULE PublisherProofs --------------------------
(***************************************************************************)
(* Theorems about Publisher, for any jobs, groups, maintainers and bounds. *)
(***************************************************************************)
EXTENDS Publisher, FiniteSetTheorems, TLAPS

JobStep(j) == StartInitial(j) \/ StartRevision(j) \/ Publish(j) \/ Crash(j) \/ Rerun(j)

LEMMA NextCases ==
  ASSUME [Next]_vars
  PROVE  \/ \E j \in Jobs : JobStep(j)
         \/ HumanPush
         \/ \E n \in DOMAIN pulls : ManagePull(n)
         \/ UNCHANGED vars
  BY DEF Next, JobStep

-----------------------------------------------------------------------------
(* Types.                                                                  *)

LEMMA InitType == Init => TypeOK
  BY PublisherAssumption DEF Init, TypeOK, Active

LEMMA ElementUpdate ==
  ASSUME NEW S, NEW s \in Seq(S), NEW n \in DOMAIN s, NEW e \in S
  PROVE  [s EXCEPT ![n] = e] \in Seq(S) /\ Len([s EXCEPT ![n] = e]) = Len(s)
  OBVIOUS

\* One more summary, or another state, leaves a pull request well formed.
LEMMA PullUpdates ==
  ASSUME NEW p \in Pull, NEW j
  PROVE  [p EXCEPT !.summaries[j] = @ + 1] \in Pull
<1> DEFINE old == p.summaries
           counts == [old EXCEPT ![j] = old[j] + 1]
<1>1. old \in [Revisions -> Nat]
  BY DEF Pull
<1>2. \A c \in [Revisions -> Nat] : [p EXCEPT !.summaries = c] \in Pull
  BY DEF Pull
<1>3. counts \in [Revisions -> Nat]
  <2>1. SUFFICES ASSUME NEW f \in [Revisions -> Nat]
                 PROVE  [f EXCEPT ![j] = f[j] + 1] \in [Revisions -> Nat]
    BY <1>1, Zenon
  <2>2. CASE j \in Revisions
    BY <2>2
  <2>3. CASE j \notin Revisions
    BY <2>3
  <2> QED BY <2>2, <2>3
<1> QED BY <1>2, <1>3, Zenon

LEMMA JobType ==
  ASSUME TypeOK, NEW j \in Jobs, JobStep(j)
  PROVE  TypeOK'
<1> USE PublisherAssumption DEF TypeOK, Active
<1>1. CASE StartInitial(j)
  BY <1>1 DEF StartInitial, Goto
<1>2. CASE StartRevision(j)
  <2>1. PICK i \in Initial : pc[i] = "done" /\ pr' = [pr EXCEPT ![j] = existing[i]]
    BY <1>2 DEF StartRevision
  <2>2. i \in Jobs
    BY DEF Jobs
  <2> QED BY <1>2, <2>1, <2>2 DEF StartRevision, Goto
<1>3. CASE FindExisting(j)
  BY <1>3 DEF FindExisting, Goto
<1>4. CASE ConvertToDraft(j)
  <2>1. existing[j] \in DOMAIN pulls /\ pulls[existing[j]] \in Pull
    BY <1>4 DEF ConvertToDraft
  <2>2. [pulls[existing[j]] EXCEPT !.draft = TRUE] \in Pull
    BY <2>1 DEF Pull
  <2>3. PICK p \in Pull : pulls' = [pulls EXCEPT ![existing[j]] = p]
                         \/ pulls' = pulls
    BY <1>4, <2>2, Zenon DEF ConvertToDraft
  <2>4. pulls' \in Seq(Pull) /\ Len(pulls') = Len(pulls)
    <3>1. pulls \in Seq(Pull)
      OBVIOUS
    <3>2. CASE pulls' = pulls
      BY <3>1, <3>2
    <3>3. CASE pulls' = [pulls EXCEPT ![existing[j]] = p]
      <4> HIDE DEF TypeOK, Pull
      <4> QED BY <2>1, <3>1, <3>3, ElementUpdate
    <3> QED BY <2>3, <3>2, <3>3
  <2>5. \/ pulls[existing[j]].state = "OPEN" /\ Goto(j, "read")
        \/ Goto(j, "failed")
    BY <1>4, Zenon DEF ConvertToDraft
  <2>6. UNCHANGED <<branch, head, pr, existing, remote, reruns, human, faults>>
    BY <1>4, Zenon DEF ConvertToDraft
  <2>7. existing[j] # 0
    BY <1>4 DEF ConvertToDraft
  <2> HIDE DEF Pull
  <2> QED BY <2>4, <2>5, <2>6, <2>7 DEF Goto
<1>5. CASE ReadRemoteInitial(j)
  BY <1>5 DEF ReadRemoteInitial, Goto, Jobs
<1>6. CASE ReadRemoteRevision(j)
  BY <1>6 DEF ReadRemoteRevision, Goto, Jobs
<1>7. CASE Push(j)
  <2>1. reruns[j] \in Nat
    OBVIOUS
  <2>2. CommitOf(j) \in Commit
    BY <2>1 DEF CommitOf, Commit
  <2>3. Pushed(j) \in Seq(Commit)
    BY <2>2 DEF Pushed
  <2> QED BY <1>7, <2>3 DEF Push, Goto, AfterPush
<1>8. CASE CreateDraftPull(j)
  <2>1. [state |-> "OPEN", draft |-> TRUE, summaries |-> NoSummaries] \in Pull
    <3>1. NoSummaries \in [Revisions -> Nat]
      BY DEF NoSummaries
    <3> HIDE DEF TypeOK
    <3> QED BY <3>1 DEF Pull
  <2>2. CASE \E n \in DOMAIN pulls : pulls[n].state = "OPEN"
    <3>1. UNCHANGED <<branch, pulls, head, pr, existing, remote, reruns, human, faults>>
          /\ Goto(j, "failed")
      BY <1>8, <2>2, Zenon DEF CreateDraftPull
    <3> HIDE DEF Pull, Commit
    <3> QED BY <3>1 DEF Goto
  <2>3. CASE ~\E n \in DOMAIN pulls : pulls[n].state = "OPEN"
    <3>1. PICK p \in Pull : pulls' = Append(pulls, p)
      BY <1>8, <2>1, <2>3, Zenon DEF CreateDraftPull
    <3>2. existing' = [existing EXCEPT ![j] = Len(pulls')] /\ Goto(j, "upload")
      BY <1>8, <2>3, Zenon DEF CreateDraftPull
    <3>3. UNCHANGED <<branch, head, pr, remote, reruns, human, faults>>
      BY <1>8, Zenon DEF CreateDraftPull
    <3>4. pulls' \in Seq(Pull) /\ Len(pulls') = Len(pulls) + 1 /\ Len(pulls) \in Nat
      BY <3>1
    <3>5. existing' = [existing EXCEPT ![j] = Len(pulls) + 1]
      BY <3>2, <3>4
    <3>6. \A i \in Jobs : existing'[i] \in Nat /\ existing'[i] <= Len(pulls')
      BY <3>4, <3>5
    <3> QED BY <3>2, <3>3, <3>4, <3>5, <3>6 DEF Goto
  <2> QED BY <2>2, <2>3
<1>9. CASE FindSummary(j)
  BY <1>9 DEF FindSummary, Goto
<1>10. CASE PostSummary(j)
  <2>1. existing[j] \in DOMAIN pulls /\ pulls[existing[j]] \in Pull
    BY <1>10 DEF PostSummary
  <2>4. PICK q \in Pull : pulls' = [pulls EXCEPT ![existing[j]] = q]
    BY <1>10, <2>1, PullUpdates, Zenon DEF PostSummary
  <2>5. pulls' \in Seq(Pull) /\ Len(pulls') = Len(pulls)
    <3>1. pulls \in Seq(Pull)
      OBVIOUS
    <3> HIDE DEF TypeOK, Pull
    <3> QED BY <2>1, <2>4, <3>1, ElementUpdate
  <2>6. Goto(j, "upload") /\ UNCHANGED <<branch, head, pr, existing, remote, reruns, human, faults>>
    BY <1>10, Zenon DEF PostSummary
  <2>7. existing[j] # 0
    BY <2>1
  <2> QED BY <2>5, <2>6, <2>7 DEF Goto
<1>11. CASE UploadResult(j)
  BY <1>11 DEF UploadResult, Goto
<1>12. CASE Crash(j)
  BY <1>12 DEF Crash, Goto
<1>13. CASE Rerun(j)
  BY <1>13 DEF Rerun, Goto
<1> QED BY <1>1, <1>2, <1>3, <1>4, <1>5, <1>6, <1>7, <1>8, <1>9, <1>10, <1>11, <1>12, <1>13
        DEF JobStep, Publish

LEMMA PullType ==
  ASSUME TypeOK, NEW n \in DOMAIN pulls, ManagePull(n)
  PROVE  TypeOK' /\ Len(pulls') = Len(pulls)
<1>1. n \in 1..Len(pulls) /\ pulls[n] \in Pull
  BY DEF TypeOK
<1>2. PICK p \in Pull : pulls' = [pulls EXCEPT ![n] = p]
  <2> DEFINE Set(state) == [pulls[n] EXCEPT !.state = state]
  <2>1. [pulls[n] EXCEPT !.draft = FALSE] \in Pull
    BY <1>1 DEF Pull
  <2>2. \A state \in {"OPEN", "CLOSED", "MERGED"} : Set(state) \in Pull
    BY <1>1 DEF Pull
  <2> QED BY <2>1, <2>2, Zenon DEF ManagePull, SetPull
<1>3. pulls' \in Seq(Pull) /\ Len(pulls') = Len(pulls)
  BY <1>1, <1>2 DEF TypeOK
<1>4. UNCHANGED <<branch, jobVars, human, faults>>
  BY DEF ManagePull
<1> QED BY <1>3, <1>4 DEF TypeOK, jobVars

LEMMA HumanType ==
  ASSUME TypeOK, HumanPush
  PROVE  TypeOK'
<1>1. human' \in 0..MaxHuman /\ human \in Nat
  BY PublisherAssumption DEF HumanPush, TypeOK
<1>2. [by |-> "human", run |-> human] \in Commit
  BY <1>1 DEF Commit
<1>3. branch' \in Seq(Commit)
  BY <1>2 DEF HumanPush, TypeOK
<1>4. UNCHANGED <<pulls, jobVars, faults>>
  BY DEF HumanPush
<1> QED BY <1>1, <1>3, <1>4 DEF TypeOK, jobVars

LEMMA TypeStep == TypeOK /\ [Next]_vars => TypeOK'
<1> SUFFICES ASSUME TypeOK, [Next]_vars PROVE TypeOK'
  OBVIOUS
<1>1. CASE UNCHANGED vars
  BY <1>1 DEF TypeOK, vars, jobVars
<1> QED BY <1>1, JobType, HumanType, PullType, NextCases

\* Every reachable state is well typed: what a job refers to exists.
THEOREM TypeCorrect == Spec => []TypeOK
  BY InitType, TypeStep, PTL DEF Spec

-----------------------------------------------------------------------------
(* What happens to the branch.                                             *)

LEMMA PrefixAppend ==
  ASSUME NEW S, NEW s \in Seq(S), NEW e \in S
  PROVE  IsPrefix(s, s) /\ IsPrefix(s, Append(s, e))
  BY DEF IsPrefix

LEMMA CommitType ==
  ASSUME TypeOK, NEW j \in Jobs
  PROVE  CommitOf(j) \in Commit /\ CommitOf(j).by = j
<1>1. reruns[j] \in Nat
  BY PublisherAssumption DEF TypeOK
<1> QED BY <1>1 DEF CommitOf, Commit

\* The push of a job is the only step of a job that changes the branch.
LEMMA BranchStep ==
  ASSUME TypeOK, [Next]_vars
  PROVE  \/ branch' = branch
         \/ HumanPush /\ branch' = Append(branch, [by |-> "human", run |-> human])
         \/ \E j \in Jobs : /\ Push(j) /\ PushAccepted(j) /\ branch' = Pushed(j)
                            /\ pc[j] = "push" /\ pc'[j] # "push"
                            /\ \A i \in Jobs \ {j} : pc'[i] = pc[i]
<1>1. ASSUME NEW j \in Jobs, JobStep(j), branch' # branch
      PROVE  /\ Push(j) /\ PushAccepted(j) /\ branch' = Pushed(j)
             /\ pc[j] = "push" /\ Goto(j, AfterPush(j))
  <2>1. Push(j)
    BY <1>1, Zenon DEF JobStep, Publish, StartInitial, StartRevision, FindExisting, ConvertToDraft,
          ReadRemoteInitial, ReadRemoteRevision, CreateDraftPull, FindSummary, PostSummary,
          UploadResult, Crash, Rerun
  <2> QED BY <1>1, <2>1 DEF Push
<1>2. ASSUME NEW j \in Jobs, Goto(j, AfterPush(j))
      PROVE  pc'[j] # "push" /\ \A i \in Jobs \ {j} : pc'[i] = pc[i]
  BY <1>2 DEF Goto, AfterPush, TypeOK
<1>3. CASE \E j \in Jobs : JobStep(j)
  BY <1>1, <1>2, <1>3
<1>4. CASE HumanPush
  BY <1>4 DEF HumanPush
<1>5. CASE \E n \in DOMAIN pulls : ManagePull(n)
  BY <1>5 DEF ManagePull
<1>6. CASE UNCHANGED vars
  BY <1>6 DEF vars
<1> QED BY <1>3, <1>4, <1>5, <1>6, NextCases

LEMMA KeptOrPushed ==
  ASSUME TypeOK, [Next]_vars
  PROVE  \/ IsPrefix(branch, branch')
         \/ \E j \in Initial : pc[j] = "push" /\ pc'[j] # "push" /\ remote[j] = branch
<1>1. branch \in Seq(Commit) /\ human \in Nat
  BY PublisherAssumption DEF TypeOK
<1>2. [by |-> "human", run |-> human] \in Commit
  BY <1>1 DEF Commit
<1>3. CASE branch' = branch \/ branch' = Append(branch, [by |-> "human", run |-> human])
  <2>1. \A c \in Commit : IsPrefix(branch, branch) /\ IsPrefix(branch, Append(branch, c))
    BY <1>1, PrefixAppend, Zenon
  <2> QED BY <1>2, <1>3, <2>1, Zenon
<1>4. CASE \E j \in Jobs : /\ Push(j) /\ PushAccepted(j) /\ branch' = Pushed(j)
                            /\ pc[j] = "push" /\ pc'[j] # "push"
                            /\ \A i \in Jobs \ {j} : pc'[i] = pc[i]
  BY <1>4 DEF PushAccepted
<1> QED BY <1>3, <1>4, BranchStep

\* A first patch takes off the branch only what its job read there.
THEOREM LeasesProtect == Spec => LeaseProtectsLateCommits
<1>1. TypeOK /\ [Next]_vars =>
        [~IsPrefix(branch, branch') =>
           \E j \in Initial : pc[j] = "push" /\ pc'[j] # "push" /\ remote[j] = branch]_vars
  BY KeptOrPushed
<1> QED BY <1>1, TypeCorrect, PTL DEF Spec, LeaseProtectsLateCommits

-----------------------------------------------------------------------------
(* A revision is applied once.                                             *)

Free(j, s) == \A a \in DOMAIN s : s[a].by # j
AtMostOnce(j, s) == \A a, b \in DOMAIN s : s[a].by = j /\ s[b].by = j => a = b

(* No sequence of commits in play has two commits of a revision, the head  *)
(* a revision pinned has none of its own, and before it starts there is    *)
(* none anywhere.                                                          *)
CommitInv ==
    /\ \A j \in Initial : head[j] = <<>>
    /\ \A j \in Revisions :
        /\ Free(j, head[j])
        /\ AtMostOnce(j, branch)
        /\ \A i \in Jobs : AtMostOnce(j, head[i])
        /\ pc[j] = "idle" => Free(j, branch) /\ \A i \in Jobs : Free(j, head[i])

LEMMA AppendCommit ==
  ASSUME NEW s \in Seq(Commit), NEW c \in Commit, NEW j
  PROVE  /\ Free(j, s) => AtMostOnce(j, Append(s, c))
         /\ c.by # j /\ Free(j, s) => Free(j, Append(s, c))
         /\ c.by # j /\ AtMostOnce(j, s) => AtMostOnce(j, Append(s, c))
  BY DEF Free, AtMostOnce

LEMMA InitCommits == Init => CommitInv
  BY DEF Init, CommitInv, Free, AtMostOnce, Jobs

\* Apart from the request of a revision, which pins the branch, and from
\* pushes, a step changes neither a head nor the branch.
LEMMA HeadStep ==
  ASSUME TypeOK, [Next]_vars
  PROVE  \/ UNCHANGED head
         \/ \E j \in Revisions : /\ StartRevision(j) /\ UNCHANGED branch
                                 /\ head' = [head EXCEPT ![j] = branch]
<1>1. ASSUME NEW j \in Jobs, JobStep(j)
      PROVE  UNCHANGED head \/ StartRevision(j)
  BY <1>1, Zenon DEF JobStep, Publish, StartInitial, FindExisting, ConvertToDraft, Push,
        ReadRemoteInitial, ReadRemoteRevision, CreateDraftPull, FindSummary, PostSummary,
        UploadResult, Crash, Rerun
<1>2. HumanPush => UNCHANGED head
  BY DEF HumanPush, jobVars
<1>3. \A n \in DOMAIN pulls : ManagePull(n) => UNCHANGED head
  BY DEF ManagePull, jobVars
<1>4. \A j \in Jobs : StartRevision(j) => /\ j \in Revisions /\ UNCHANGED branch
                                         /\ head' = [head EXCEPT ![j] = branch]
  BY DEF StartRevision
<1>5. UNCHANGED vars => UNCHANGED head
  BY DEF vars, jobVars
<1> QED BY <1>1, <1>2, <1>3, <1>4, <1>5, NextCases

\* No job goes back to where it was before its request.
LEMMA IdleStep ==
  ASSUME TypeOK, [Next]_vars, NEW j \in Jobs, pc'[j] = "idle"
  PROVE  pc[j] = "idle"
<1>1. ASSUME NEW i \in Jobs, JobStep(i)
      PROVE  \E label \in Active \cup {"done", "failed"} : Goto(i, label)
  BY <1>1 DEF JobStep, Publish, StartInitial, StartRevision, FindExisting, ConvertToDraft, Push,
        AfterPush, ReadRemoteInitial, ReadRemoteRevision, CreateDraftPull, FindSummary, PostSummary,
        UploadResult, Crash, Rerun, Active
<1>2. CASE \E i \in Jobs : JobStep(i)
  BY <1>1, <1>2 DEF Goto, TypeOK, Active
<1> QED BY <1>2, NextCases DEF HumanPush, ManagePull, vars, jobVars

LEMMA CommitStep == TypeOK /\ CommitInv /\ [Next]_vars => CommitInv'
<1> SUFFICES ASSUME TypeOK, CommitInv, [Next]_vars PROVE CommitInv'
  OBVIOUS
<1>1. branch \in Seq(Commit) /\ human \in Nat /\ \A i \in Jobs : head[i] \in Seq(Commit)
  BY PublisherAssumption DEF TypeOK
<1>2. /\ Initial \subseteq Jobs /\ Revisions \subseteq Jobs
      /\ \A j \in Revisions : j \notin Initial /\ j # "human"
  BY PublisherAssumption DEF Jobs
<1>3. \A j \in Revisions : AtMostOnce(j, branch')
  <2> TAKE j \in Revisions
  <2>1. AtMostOnce(j, branch) /\ Free(j, head[j]) /\ \A i \in Jobs : AtMostOnce(j, head[i])
    BY <1>2 DEF CommitInv
  <2>2. CASE branch' = Append(branch, [by |-> "human", run |-> human])
    <3>1. [by |-> "human", run |-> human] \in Commit
      BY <1>1 DEF Commit
    <3> QED BY <1>1, <1>2, <2>1, <2>2, <3>1, AppendCommit
  <2>3. CASE \E i \in Jobs : branch' = Pushed(i)
    BY <1>1, <1>2, <2>1, <2>3, AppendCommit, CommitType DEF Pushed
  <2> QED BY <2>1, <2>2, <2>3, BranchStep
<1>4. \A j \in Revisions : pc'[j] = "idle" => Free(j, branch')
  <2> TAKE j \in Revisions
  <2> HAVE pc'[j] = "idle"
  <2>1. pc[j] = "idle" /\ Free(j, branch) /\ \A i \in Jobs : Free(j, head[i])
    BY <1>2, IdleStep DEF CommitInv
  <2>2. CASE branch' = Append(branch, [by |-> "human", run |-> human])
    <3>1. [by |-> "human", run |-> human] \in Commit
      BY <1>1 DEF Commit
    <3> QED BY <1>1, <1>2, <2>1, <2>2, <3>1, AppendCommit
  <2>3. ASSUME NEW i \in Jobs, pc[i] = "push", branch' = Pushed(i)
        PROVE  Free(j, branch')
    <3>1. i # j
      BY <2>1, <2>3
    <3> QED BY <1>1, <2>1, <2>3, <3>1, AppendCommit, CommitType DEF Pushed
  <2> QED BY <2>1, <2>2, <2>3, BranchStep
<1>5. CASE UNCHANGED head
  BY <1>2, <1>3, <1>4, <1>5, IdleStep DEF CommitInv
<1>6. ASSUME NEW i \in Revisions, StartRevision(i), UNCHANGED branch,
             head' = [head EXCEPT ![i] = branch]
      PROVE  CommitInv'
  <2>1. \A k \in Jobs : head'[k] = IF k = i THEN branch ELSE head[k]
    BY <1>6 DEF TypeOK
  <2>2. pc[i] = "idle"
    BY <1>6 DEF StartRevision
  <2> QED BY <1>2, <1>3, <1>4, <1>6, <2>1, <2>2, IdleStep DEF CommitInv
<1> QED BY <1>5, <1>6, HeadStep

\* However often a revision dies and is re-run, it is on the branch once.
THEOREM RevisionsApplyOnce == Spec => []RevisionAppliedOnce
<1>1. ASSUME TypeOK, CommitInv PROVE RevisionAppliedOnce
  <2> SUFFICES ASSUME NEW j \in Revisions PROVE Cardinality(CommitsBy(j)) <= 1
    BY DEF RevisionAppliedOnce
  <2>1. \A a, b \in CommitsBy(j) : a = b
    BY <1>1 DEF CommitInv, AtMostOnce, CommitsBy
  <2>2. CASE CommitsBy(j) = {}
    BY <2>2, FS_EmptySet
  <2>3. CASE CommitsBy(j) # {}
    <3>1. PICK a : CommitsBy(j) = {a}
      BY <2>1, <2>3
    <3> QED BY <3>1, FS_Singleton
  <2> QED BY <2>2, <2>3
<1> QED BY <1>1, TypeCorrect, InitCommits, CommitStep, PTL DEF Spec

-----------------------------------------------------------------------------
(* A revision has one summary.                                             *)

Summaries(n, j) == pulls[n].summaries[j]

(* Past its search a revision works on the pull request it revises, the    *)
(* only one that can have its summary.                                     *)
SummaryInv ==
    \A j \in Revisions :
        /\ pc[j] # "create"
        /\ pc[j] \in {"draft", "read", "push", "summary", "post", "upload", "done"} =>
              existing[j] = pr[j]
        /\ \A n \in DOMAIN pulls : n # pr[j] => Summaries(n, j) = 0
        /\ \A n \in DOMAIN pulls : Summaries(n, j) <= 1
        /\ pc[j] \in {"idle", "post"} => \A n \in DOMAIN pulls : Summaries(n, j) = 0
        /\ pc[j] \in {"upload", "done"} => Summaries(pr[j], j) = 1

LEMMA InitSummaries == Init => SummaryInv
  BY DEF Init, SummaryInv, Jobs

SameSummaries ==
    /\ DOMAIN pulls' = DOMAIN pulls
    /\ \A n \in DOMAIN pulls : pulls'[n].summaries = pulls[n].summaries

LEMMA StateKeepsSummaries ==
  ASSUME NEW p \in Pull
  PROVE  /\ \A b \in BOOLEAN : [p EXCEPT !.draft = b].summaries = p.summaries
         /\ \A state : [p EXCEPT !.state = state].summaries = p.summaries
  BY DEF Pull

LEMMA ElementKeepsSummaries ==
  ASSUME TypeOK, NEW n \in DOMAIN pulls, NEW p, p.summaries = pulls[n].summaries,
         pulls' = [pulls EXCEPT ![n] = p]
  PROVE  SameSummaries
  BY DEF TypeOK, SameSummaries

LEMMA ManageKeepsSummaries ==
  ASSUME TypeOK, NEW n \in DOMAIN pulls, ManagePull(n)
  PROVE  SameSummaries
<1>1. pulls[n] \in Pull
  BY DEF TypeOK
<1>2. PICK p : p.summaries = pulls[n].summaries /\ pulls' = [pulls EXCEPT ![n] = p]
  BY <1>1, StateKeepsSummaries, Zenon DEF ManagePull, SetPull
<1> QED BY <1>2, ElementKeepsSummaries

LEMMA ConvertKeepsSummaries ==
  ASSUME TypeOK, NEW j \in Jobs, ConvertToDraft(j)
  PROVE  SameSummaries
<1>1. existing[j] \in DOMAIN pulls /\ pulls[existing[j]] \in Pull
  BY DEF TypeOK, ConvertToDraft
<1>2. CASE UNCHANGED pulls
  BY <1>2 DEF SameSummaries
<1>3. CASE ~UNCHANGED pulls
  <2>1. PICK p : /\ p.summaries = pulls[existing[j]].summaries
                 /\ pulls' = [pulls EXCEPT ![existing[j]] = p]
    BY <1>1, <1>3, StateKeepsSummaries, Zenon DEF ConvertToDraft
  <2> QED BY <1>1, <2>1, ElementKeepsSummaries
<1> QED BY <1>2, <1>3

LEMMA JobSummaries ==
  ASSUME TypeOK, SummaryInv, NEW j \in Jobs, JobStep(j)
  PROVE  SummaryInv'
<1>0. Revisions \subseteq Jobs /\ \A i \in Revisions : i \notin Initial
  BY PublisherAssumption DEF Jobs
<1>a. \A n \in DOMAIN pulls : pulls[n].summaries \in [Revisions -> Nat]
  <2>1. \A n \in DOMAIN pulls : pulls[n] \in Pull
    BY DEF TypeOK
  <2>2. \A p \in Pull : p.summaries \in [Revisions -> Nat]
    BY DEF Pull
  <2> QED BY <2>1, <2>2
<1>b. /\ pc \in [Jobs -> Active \cup {"idle", "done", "failed"}]
      /\ pr \in [Jobs -> Nat] /\ existing \in [Jobs -> Nat]
      /\ DOMAIN pulls = 1..Len(pulls) /\ Len(pulls) \in Nat
      /\ \A i \in Jobs :
            /\ existing[i] <= Len(pulls)
            /\ pc[i] \in {"draft", "summary", "post", "upload", "done"} => existing[i] # 0
            /\ i \in Revisions /\ pc[i] \in {"read", "push"} => existing[i] # 0
  BY DEF TypeOK
<1> USE <1>0, <1>b DEF SummaryInv, Summaries
<1>1. CASE StartInitial(j)
  BY <1>1 DEF StartInitial, Goto
<1>2. CASE StartRevision(j)
  BY <1>2 DEF StartRevision, Goto
<1>3. CASE FindExisting(j)
  BY <1>3 DEF FindExisting, Goto
<1>4. CASE ConvertToDraft(j)
  <2>1. SameSummaries
    BY <1>4, ConvertKeepsSummaries
  <2>2. /\ pc[j] = "draft" /\ UNCHANGED <<pr, existing>>
        /\ Goto(j, "read") \/ Goto(j, "failed")
    BY <1>4, Zenon DEF ConvertToDraft
  <2>3. \A k \in Revisions : \A n \in DOMAIN pulls : Summaries(n, k)' = Summaries(n, k)
    BY <2>1 DEF SameSummaries
  <2>4. \A k \in Revisions : pc[k] \in {"upload", "done"} => pr[k] \in DOMAIN pulls
    OBVIOUS
  <2>5. \A k \in Revisions : k # j => pc'[k] = pc[k]
    BY <2>2 DEF Goto
  <2>6. pc'[j] \in {"read", "failed"}
    BY <2>2 DEF Goto
  <2>7. DOMAIN pulls' = DOMAIN pulls
    BY <2>1 DEF SameSummaries
  <2> HIDE DEF Summaries
  <2> QED BY <2>2, <2>3, <2>4, <2>5, <2>6, <2>7
<1>5. CASE ReadRemoteInitial(j)
  BY <1>5 DEF ReadRemoteInitial, Goto
<1>6. CASE ReadRemoteRevision(j)
  BY <1>6 DEF ReadRemoteRevision, Goto
<1>7. CASE Push(j)
  BY <1>7 DEF Push, Goto, AfterPush
<1>8. CASE CreateDraftPull(j)
  <2>1. j \notin Revisions
    BY <1>8 DEF CreateDraftPull
  <2>2. CASE \E n \in DOMAIN pulls : pulls[n].state = "OPEN"
    <3>1. Goto(j, "failed") /\ UNCHANGED <<pulls, pr, existing>>
      BY <1>8, <2>2, Zenon DEF CreateDraftPull
    <3> QED BY <3>1 DEF Goto
  <2>3. CASE ~\E n \in DOMAIN pulls : pulls[n].state = "OPEN"
    <3>1. PICK p : p.summaries = NoSummaries /\ pulls' = Append(pulls, p)
      BY <1>8, <2>3 DEF CreateDraftPull
    <3>2. /\ \A i \in Jobs \ {j} : existing'[i] = existing[i] /\ pc'[i] = pc[i]
          /\ UNCHANGED pr
      BY <1>8, <2>3 DEF CreateDraftPull, Goto
    <3>3. /\ DOMAIN pulls' = 1..(Len(pulls) + 1)
          /\ pulls'[Len(pulls) + 1] = p
          /\ \A n \in DOMAIN pulls : pulls'[n] = pulls[n]
      BY <3>1 DEF TypeOK
    <3>4. \A i \in Revisions : \A n \in DOMAIN pulls' :
            n \notin DOMAIN pulls => Summaries(n, i)' = 0
      BY <3>1, <3>3 DEF NoSummaries
    <3>5. \A i \in Revisions : pc'[i] = pc[i] /\ existing'[i] = existing[i] /\ pr'[i] = pr[i]
      BY <2>1, <3>2
    <3>6. \A i \in Revisions : \A n \in DOMAIN pulls : Summaries(n, i)' = Summaries(n, i)
      BY <3>3
    <3>7. \A i \in Revisions : pc[i] \in {"upload", "done"} => pr[i] \in DOMAIN pulls
      OBVIOUS
    <3>8. ASSUME NEW k \in Revisions
          PROVE  /\ \A n \in DOMAIN pulls' : n # pr'[k] => Summaries(n, k)' = 0
                 /\ \A n \in DOMAIN pulls' : Summaries(n, k)' <= 1
                 /\ pc'[k] \in {"idle", "post"} => \A n \in DOMAIN pulls' : Summaries(n, k)' = 0
      <4> HIDE DEF Summaries
      <4> QED BY <3>3, <3>4, <3>5, <3>6
    <3>9. \A k \in Revisions : pc'[k] \in {"upload", "done"} => Summaries(pr[k], k)' = 1
      BY <3>3, <3>5, <3>7
    <3> QED BY <3>5, <3>8, <3>9
  <2> QED BY <2>2, <2>3
<1>9. CASE FindSummary(j)
  BY <1>9, <1>a DEF FindSummary, Goto
<1>10. CASE PostSummary(j)
  <2>1. existing[j] \in DOMAIN pulls
    BY <1>10 DEF PostSummary
  <2>2. pc[j] = "post" /\ Goto(j, "upload") /\ UNCHANGED <<pr, existing>>
    BY <1>10, Zenon DEF PostSummary
  <2> QED BY <1>10, <1>a, <2>1, <2>2 DEF PostSummary, Goto
<1>11. CASE UploadResult(j)
  BY <1>11 DEF UploadResult, Goto
<1>12. CASE Crash(j)
  BY <1>12 DEF Crash, Goto
<1>13. CASE Rerun(j)
  BY <1>13 DEF Rerun, Goto
<1> QED BY <1>1, <1>2, <1>3, <1>4, <1>5, <1>6, <1>7, <1>8, <1>9, <1>10, <1>11, <1>12, <1>13
        DEF JobStep, Publish

LEMMA SummaryStep == TypeOK /\ SummaryInv /\ [Next]_vars => SummaryInv'
<1> SUFFICES ASSUME TypeOK, SummaryInv, [Next]_vars PROVE SummaryInv'
  OBVIOUS
<1>1. CASE UNCHANGED <<pulls, pc, pr, existing>>
  BY <1>1 DEF SummaryInv, Summaries
<1>2. ASSUME NEW n \in DOMAIN pulls, ManagePull(n)
      PROVE  SummaryInv'
  <2>1. DOMAIN pulls' = DOMAIN pulls
        /\ \A k \in Revisions : \A m \in DOMAIN pulls : Summaries(m, k)' = Summaries(m, k)
    BY <1>2, ManageKeepsSummaries DEF SameSummaries, Summaries
  <2>2. UNCHANGED <<pc, pr, existing>>
    BY <1>2 DEF ManagePull, jobVars
  <2>3. \A k \in Revisions : pc[k] \in {"upload", "done"} => pr[k] \in DOMAIN pulls
    BY DEF TypeOK, SummaryInv, Jobs
  <2> QED BY <2>1, <2>2, <2>3 DEF SummaryInv
<1>3. HumanPush => UNCHANGED <<pulls, pc, pr, existing>>
  BY DEF HumanPush, jobVars
<1>4. UNCHANGED vars => UNCHANGED <<pulls, pc, pr, existing>>
  BY DEF vars, jobVars
<1> QED BY <1>1, <1>2, <1>3, <1>4, JobSummaries, NextCases

\* A revision that returned a result has exactly one summary on its pull
\* request, and no pull request ever has two of one revision.
THEOREM SummariesAreSingle == Spec => []OneSummaryPerRevision
<1>1. ASSUME TypeOK, SummaryInv PROVE OneSummaryPerRevision
  BY <1>1 DEF OneSummaryPerRevision, SummaryInv, Summaries
<1> QED BY <1>1, TypeCorrect, InitSummaries, SummaryStep, PTL DEF Spec

-----------------------------------------------------------------------------
(* First patches that wait for each other open one pull request.           *)

InitialsShareGroup == \A i, j \in Initial : Group[i] = Group[j]

(* At most one first patch is under way, and the one that found no pull    *)
(* request still has none to find.                                         *)
PullInv ==
    /\ Len(pulls) <= 1
    /\ \A i, j \in Initial : i # j => pc[i] \notin Active \/ pc[j] \notin Active
    /\ \A j \in Initial :
        /\ pc[j] = "create" => existing[j] = 0
        /\ pc[j] \in {"read", "push", "create"} /\ existing[j] = 0 => Len(pulls) = 0

LEMMA InitPulls == Init => PullInv
<1>1. Len(<<>>) = 0
  OBVIOUS
<1> QED BY <1>1 DEF Init, PullInv, Jobs, Active

\* A step leaves a pull request as it is, or opens the first of a job.
LEMMA PullsStep ==
  ASSUME TypeOK, NEW j \in Jobs, JobStep(j)
  PROVE  \/ Len(pulls') = Len(pulls)
         \/ CreateDraftPull(j) /\ Len(pulls') = Len(pulls) + 1 /\ Goto(j, "upload")
<1>0. pulls \in Seq(Pull)
  BY DEF TypeOK
<1>1. CASE ConvertToDraft(j) \/ PostSummary(j)
  <2>1. \/ pulls' = pulls \/ \E p : pulls' = [pulls EXCEPT ![existing[j]] = p]
    BY <1>1, Zenon DEF ConvertToDraft, PostSummary
  <2> QED BY <1>0, <2>1
<1>2. CASE CreateDraftPull(j)
  <2>1. \/ pulls' = pulls \/ (Goto(j, "upload") /\ \E p : pulls' = Append(pulls, p))
    BY <1>2, Zenon DEF CreateDraftPull
  <2> QED BY <1>0, <1>2, <2>1
<1>3. CASE UNCHANGED pulls
  BY <1>3
<1> QED BY <1>1, <1>2, <1>3, Zenon DEF JobStep, Publish, StartInitial, StartRevision, FindExisting,
     ReadRemoteInitial, ReadRemoteRevision, Push, FindSummary, UploadResult, Crash, Rerun

\* A job gets under way only while no other of its group is.
LEMMA OneUnderWay ==
  ASSUME TypeOK, PullInv, InitialsShareGroup, NEW j \in Jobs, JobStep(j)
  PROVE  /\ \A k \in Jobs \ {j} : pc'[k] = pc[k]
         /\ \A i, k \in Initial : i # k => pc'[i] \notin Active \/ pc'[k] \notin Active
<1>1. \E label : Goto(j, label)
  BY DEF JobStep, Publish, StartInitial, StartRevision, FindExisting, ConvertToDraft, Push,
         AfterPush, ReadRemoteInitial, ReadRemoteRevision, CreateDraftPull, FindSummary, PostSummary,
         UploadResult, Crash, Rerun
<1>2. \A k \in Jobs \ {j} : pc'[k] = pc[k]
  BY <1>1 DEF Goto, TypeOK
<1>3. pc[j] \in Active \/ GroupFree(j)
  BY DEF JobStep, Publish, StartInitial, StartRevision, FindExisting, ConvertToDraft, Push,
         ReadRemoteInitial, ReadRemoteRevision, CreateDraftPull, FindSummary, PostSummary,
         UploadResult, Crash, Rerun, Active
<1>4. j \in Initial => \A k \in Initial \ {j} : pc[k] \notin Active
  BY <1>3 DEF PullInv, GroupFree, InitialsShareGroup, Jobs
<1> QED BY <1>2, <1>4 DEF PullInv, Jobs

LEMMA JobPulls ==
  ASSUME TypeOK, SummaryInv, PullInv, InitialsShareGroup, NEW j \in Jobs, JobStep(j)
  PROVE  PullInv'
<1>1. Initial \subseteq Jobs /\ Revisions \cap Initial = {} /\ Jobs = Initial \cup Revisions
  BY PublisherAssumption DEF Jobs
<1>2. /\ \A k \in Jobs \ {j} : pc'[k] = pc[k] /\ existing'[k] = existing[k]
      /\ \A i, k \in Initial : i # k => pc'[i] \notin Active \/ pc'[k] \notin Active
  <2>1. existing' = existing \/ \E n : existing' = [existing EXCEPT ![j] = n]
    BY Zenon DEF JobStep, Publish, StartInitial, StartRevision, FindExisting, ConvertToDraft, Push,
         ReadRemoteInitial, ReadRemoteRevision, CreateDraftPull, FindSummary, PostSummary,
         UploadResult, Crash, Rerun
  <2>2. \A k \in Jobs \ {j} : existing'[k] = existing[k]
    BY <2>1 DEF TypeOK
  <2> QED BY <2>2, OneUnderWay
<1>3. CASE CreateDraftPull(j) /\ Len(pulls') = Len(pulls) + 1 /\ Goto(j, "upload")
  <2>1. j \in Initial /\ pc[j] = "create" /\ pc[j] \in Active
    BY <1>1, <1>3 DEF CreateDraftPull, SummaryInv, Active
  <2>2. Len(pulls) = 0
    BY <2>1 DEF PullInv
  <2>3. pc'[j] = "upload"
    BY <1>3 DEF Goto, TypeOK
  <2>4. \A k \in Initial \ {j} : pc'[k] \notin {"read", "push", "create"}
    BY <1>1, <1>2, <2>1 DEF PullInv, Active
  <2> QED BY <1>2, <1>3, <2>2, <2>3, <2>4 DEF PullInv
<1>4. CASE Len(pulls') = Len(pulls)
  <2>1. j \in Initial =>
          /\ pc'[j] = "create" => existing'[j] = 0
          /\ pc'[j] \in {"read", "push", "create"} /\ existing'[j] = 0 => Len(pulls) = 0
    <3> SUFFICES ASSUME j \in Initial
                 PROVE  /\ pc'[j] = "create" => existing'[j] = 0
                        /\ pc'[j] \in {"read", "push", "create"} /\ existing'[j] = 0 =>
                             Len(pulls) = 0
      OBVIOUS
    <3>1. CASE FindExisting(j)
      BY <3>1 DEF FindExisting, Goto, TypeOK
    <3>2. CASE ReadRemoteInitial(j)
      BY <3>2 DEF ReadRemoteInitial, Goto, TypeOK, PullInv
    <3>3. CASE Push(j)
      BY <3>3 DEF Push, AfterPush, Goto, TypeOK, PullInv
    <3>4. CASE ConvertToDraft(j)
      <4>1. pc[j] = "draft" /\ existing' = existing /\ (Goto(j, "read") \/ Goto(j, "failed"))
        BY <3>4, Zenon DEF ConvertToDraft
      <4>2. existing[j] # 0
        BY <4>1 DEF TypeOK
      <4>3. pc'[j] \in {"read", "failed"}
        BY <4>1 DEF Goto, TypeOK
      <4> QED BY <4>1, <4>2, <4>3
    <3>5. CASE ~(FindExisting(j) \/ ReadRemoteInitial(j) \/ Push(j) \/ ConvertToDraft(j))
      <4>1. \E label \in {"find", "failed", "post", "upload", "done"} : Goto(j, label)
        BY <1>1, <3>5, Zenon DEF JobStep, Publish, StartInitial, StartRevision, ReadRemoteRevision,
           CreateDraftPull, FindSummary, PostSummary, UploadResult, Crash, Rerun
      <4>2. pc'[j] \in {"find", "failed", "post", "upload", "done"}
        BY <4>1 DEF Goto, TypeOK
      <4> QED BY <4>2
    <3> QED BY <3>1, <3>2, <3>3, <3>4, <3>5
  <2>2. \A k \in Initial \ {j} :
          /\ pc'[k] = "create" => existing'[k] = 0
          /\ pc'[k] \in {"read", "push", "create"} /\ existing'[k] = 0 => Len(pulls) = 0
    BY <1>1, <1>2 DEF PullInv
  <2> QED BY <1>2, <1>4, <2>1, <2>2 DEF PullInv
<1> QED BY <1>3, <1>4, PullsStep

LEMMA PullStep ==
  ASSUME TypeOK, SummaryInv, PullInv, InitialsShareGroup, [Next]_vars
  PROVE  PullInv'
<1>1. CASE UNCHANGED <<pc, existing>> /\ Len(pulls') = Len(pulls)
  BY <1>1 DEF PullInv
<1>2. ASSUME NEW n \in DOMAIN pulls, ManagePull(n) PROVE PullInv'
  <2>1. UNCHANGED <<pc, existing>>
    BY <1>2 DEF ManagePull, jobVars
  <2> QED BY <1>1, <1>2, <2>1, PullType
<1>3. HumanPush \/ UNCHANGED vars => UNCHANGED <<pulls, pc, existing>>
  BY DEF HumanPush, vars, jobVars
<1> QED BY <1>1, <1>2, <1>3, JobPulls, NextCases

\* Where the concurrency groups of the workflows serialise the jobs that
\* publish first patches, no source-target pair ever has two pull requests,
\* whatever maintainers close or merge and however often a job dies.
THEOREM OnePullWhenSerialised ==
  ASSUME InitialsShareGroup PROVE Spec => []OnePull
<1>1. PullInv => OnePull
  BY DEF PullInv, OnePull
<1>2. TypeOK /\ SummaryInv /\ PullInv /\ [Next]_vars => PullInv'
  BY PullStep
<1> QED BY <1>1, <1>2, InitPulls, TypeCorrect, InitSummaries, SummaryStep, PTL DEF Spec
=============================================================================
