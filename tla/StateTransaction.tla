-------------------------- MODULE StateTransaction --------------------------
(***************************************************************************)
(* agricola/state_transaction.py: jobs of the control plane, each on its   *)
(* own runner with its own clone, update the ledger kept on the branch     *)
(* agricola/state.  transact() takes a snapshot, runs the operation on it, *)
(* commits, and pushes under a lease on the commit it read; a lost race    *)
(* replays the operation on the newer ledger.                              *)
(*                                                                         *)
(* One step is one round trip to origin, or the operation itself: between  *)
(* two of them any other job, or the maintainer who merges the checkpoint  *)
(* pull request, can act.  Commits of the state branch are numbered in the *)
(* order in which origin accepted them (sha 0: the branch does not exist). *)
(***************************************************************************)
EXTENDS Naturals, FiniteSets

CONSTANTS
    Writers,        \* the jobs that run a transaction
    Decisions,      \* the decisions a ledger can hold
    KeyOf,          \* decision -> its idempotency key
    Delta,          \* writer -> the decisions its operation appends
    Attempts,       \* attempts of one transaction
    MaxReruns,      \* bound: how often an operator re-runs a failed job
    MaxFaults,      \* bound: crashes, failed operations, lost or refused pushes
    DeleteOnMerge   \* does origin delete the head branch of a merged pull request?

ASSUME AttemptsAssumption == Attempts \in Nat \ {0}
ASSUME BoundsAssumption == MaxReruns \in Nat /\ MaxFaults \in Nat
ASSUME DeltaAssumption == Delta \in [Writers -> SUBSET Decisions]
ASSUME DeleteAssumption == DeleteOnMerge \in BOOLEAN

VARIABLES
    branchSha,      \* tip of agricola/state on origin, 0 when absent
    branchLedger,   \* the ledger directory of that commit
    mainLedger,     \* the ledger directory on the default branch
    pushes,         \* commits origin accepted on agricola/state so far
    deletions,      \* how often origin deleted agricola/state
    pc,             \* writer -> the next step of its transaction
    attempt,        \* writer -> transact()'s loop counter
    expected,       \* writer -> sha of its snapshot (GitStateSnapshot.expected)
    base,           \* writer -> ledger of the base commit of its worktree
    tree,           \* writer -> ledger in its worktree
    reruns,         \* writer -> how often the job was re-run
    faults          \* faults injected so far

originVars == <<branchSha, branchLedger, mainLedger, pushes, deletions>>
writerVars == <<pc, attempt, expected, base, tree, reruns>>
vars == <<originVars, writerVars, faults>>

Running == {"list", "fetch_state", "fetch_base", "run", "commit", "push", "check"}
Ended == {"done", "failed"}

(* DecisionLedger.validate_all: a ledger has one decision per key.         *)
ValidLedger(l) ==
    \A d, e \in l : KeyOf[d] = KeyOf[e] => d = e

(* The ledger the next snapshot restores.                                  *)
Durable == IF branchSha = 0 THEN mainLedger ELSE branchLedger

Init ==
    /\ mainLedger \in SUBSET Decisions /\ ValidLedger(mainLedger)
    /\ branchSha = 0 /\ branchLedger = {} /\ pushes = 0 /\ deletions = 0
    /\ pc = [w \in Writers |-> "list"]
    /\ attempt = [w \in Writers |-> 0]
    /\ expected = [w \in Writers |-> 0]
    /\ base = [w \in Writers |-> {}]
    /\ tree = [w \in Writers |-> {}]
    /\ reruns = [w \in Writers |-> 0]
    /\ faults = 0

Goto(w, label) == pc' = [pc EXCEPT ![w] = label]

(***************************************************************************)
(* GitStateStore.snapshot                                                  *)
(***************************************************************************)

(* ls-remote: is there a state branch?                                     *)
ListRemote(w) ==
    /\ pc[w] = "list"
    /\ Goto(w, IF branchSha = 0 THEN "fetch_base" ELSE "fetch_state")
    /\ expected' = [expected EXCEPT ![w] = 0]
    /\ tree' = [tree EXCEPT ![w] = {}]
    /\ UNCHANGED <<originVars, attempt, base, reruns, faults>>

(* fetch and rev-parse: the commit fetched, not the one listed, is what    *)
(* the snapshot expects; a branch deleted in between fails the fetch.      *)
FetchState(w) ==
    /\ pc[w] = "fetch_state"
    /\ IF branchSha = 0
       THEN Goto(w, "failed") /\ UNCHANGED <<expected, tree>>
       ELSE /\ Goto(w, "fetch_base")
            /\ expected' = [expected EXCEPT ![w] = branchSha]
            /\ tree' = [tree EXCEPT ![w] = branchLedger]
    /\ UNCHANGED <<originVars, attempt, base, reruns, faults>>

(* Mutant: the restore of the ledger of the state branch is forgotten.     *)
FetchBaseWithoutRestore(w) ==
    /\ pc[w] = "fetch_base"
    /\ base' = [base EXCEPT ![w] = mainLedger]
    /\ tree' = [tree EXCEPT ![w] = mainLedger]
    /\ Goto(w, "run")
    /\ UNCHANGED <<originVars, attempt, expected, reruns, faults>>

(* Mutant: the lease is taken on the ref as it is when the worktree is     *)
(* made, later than the ledger that was fetched.                           *)
FetchBaseLateLease(w) ==
    /\ pc[w] = "fetch_base"
    /\ base' = [base EXCEPT ![w] = mainLedger]
    /\ tree' = [tree EXCEPT ![w] = IF expected[w] = 0 THEN mainLedger ELSE @]
    /\ expected' = [expected EXCEPT ![w] = branchSha]
    /\ Goto(w, "run")
    /\ UNCHANGED <<originVars, attempt, reruns, faults>>

(* fetch of the default branch, worktree add, and restore of the ledger of *)
(* the expected commit; then transact() validates the restored ledger.     *)
FetchBase(w) ==
    /\ pc[w] = "fetch_base"
    /\ base' = [base EXCEPT ![w] = mainLedger]
    /\ tree' = [tree EXCEPT ![w] = IF expected[w] = 0 THEN mainLedger ELSE @]
    /\ Goto(w, IF ValidLedger(tree'[w]) THEN "run" ELSE "failed")
    /\ UNCHANGED <<originVars, attempt, expected, reruns, faults>>

(***************************************************************************)
(* transact: the operation, commit and publish                             *)
(***************************************************************************)

(* The operation appends its decisions (ledger.py _append); a key that is  *)
(* in use with other data ends it, and with it the transaction.            *)
RunOperation(w) ==
    /\ pc[w] = "run"
    /\ IF ValidLedger(tree[w] \cup Delta[w])
       THEN /\ tree' = [tree EXCEPT ![w] = @ \cup Delta[w]]
            /\ Goto(w, "commit")
       ELSE Goto(w, "failed") /\ UNCHANGED tree
    /\ UNCHANGED <<originVars, attempt, expected, base, reruns, faults>>

(* GitStateSnapshot.commit: a worktree that does not differ from its base  *)
(* commit has nothing to publish, and the transaction succeeds.            *)
Commit(w) ==
    /\ pc[w] = "commit"
    /\ Goto(w, IF tree[w] = base[w] THEN "done" ELSE "push")
    /\ UNCHANGED <<originVars, attempt, expected, base, tree, reruns, faults>>

(* Mutant: a plain --force push.                                           *)
ForcePush(w) == pc[w] = "push"

(* --force-with-lease=<ref>:<expected>: the remote ref must be at the      *)
(* commit of the snapshot, or absent if it was absent.                     *)
LeaseHolds(w) == branchSha = expected[w]

(* Origin accepts the push: the ref moves to the commit of w.              *)
AcceptPush(w) ==
    /\ branchSha' = pushes + 1
    /\ branchLedger' = tree[w]
    /\ pushes' = pushes + 1
    /\ UNCHANGED <<mainLedger, deletions>>

(* Mutant: a stale lease is resolved by merging instead of replaying.      *)
PublishMerging(w) ==
    /\ pc[w] = "push"
    /\ branchSha' = pushes + 1
    /\ branchLedger' = branchLedger \cup tree[w]
    /\ pushes' = pushes + 1
    /\ UNCHANGED <<mainLedger, deletions>>
    /\ Goto(w, "done")
    /\ UNCHANGED <<attempt, expected, base, tree, reruns, faults>>

Publish(w) ==
    /\ pc[w] = "push"
    /\ LeaseHolds(w)
    /\ AcceptPush(w)
    /\ Goto(w, "done")
    /\ UNCHANGED <<attempt, expected, base, tree, reruns, faults>>

(* The lease is stale: git push exits 1.                                   *)
PublishRejected(w) ==
    /\ pc[w] = "push"
    /\ ~LeaseHolds(w)
    /\ Goto(w, "check")
    /\ UNCHANGED <<originVars, attempt, expected, base, tree, reruns, faults>>

(* Mutant: a lost race is counted in the check and again by the loop, and  *)
(* the bound is compared before either.                                    *)
CheckRemoteCountsTwice(w) ==
    /\ pc[w] = "check"
    /\ IF branchSha # expected[w] /\ attempt[w] < Attempts
       THEN Goto(w, "list") /\ attempt' = [attempt EXCEPT ![w] = @ + 2]
       ELSE Goto(w, "failed") /\ UNCHANGED attempt
    /\ UNCHANGED <<originVars, expected, base, tree, reruns, faults>>

(* Mutant: every failed push is replayed, a refused one too.               *)
CheckRemoteAlwaysReplays(w) ==
    /\ pc[w] = "check"
    /\ IF attempt[w] + 1 < Attempts
       THEN Goto(w, "list") /\ attempt' = [attempt EXCEPT ![w] = @ + 1]
       ELSE Goto(w, "failed") /\ UNCHANGED attempt
    /\ UNCHANGED <<originVars, expected, base, tree, reruns, faults>>

(* Mutant: the push is tried again without a new snapshot or a count.      *)
CheckRemotePushesAgain(w) ==
    /\ pc[w] = "check"
    /\ Goto(w, IF branchSha # expected[w] THEN "push" ELSE "failed")
    /\ UNCHANGED <<originVars, attempt, expected, base, tree, reruns, faults>>

(* Mutant: the replay keeps the commit of the first snapshot.              *)
CheckRemoteKeepsSnapshot(w) ==
    /\ pc[w] = "check"
    /\ IF branchSha # expected[w] /\ attempt[w] + 1 < Attempts
       THEN Goto(w, "fetch_base") /\ attempt' = [attempt EXCEPT ![w] = @ + 1]
       ELSE Goto(w, "failed") /\ UNCHANGED attempt
    /\ UNCHANGED <<originVars, expected, base, tree, reruns, faults>>

(* After a push that exited 1: another commit at the ref means the race    *)
(* was lost, close the snapshot and replay; the same commit means the push *)
(* itself is refused, an error.                                            *)
CheckRemote(w) ==
    /\ pc[w] = "check"
    /\ IF branchSha # expected[w] /\ attempt[w] + 1 < Attempts
       THEN /\ Goto(w, "list")
            /\ attempt' = [attempt EXCEPT ![w] = @ + 1]
       ELSE Goto(w, "failed") /\ UNCHANGED attempt
    /\ UNCHANGED <<originVars, expected, base, tree, reruns, faults>>

(***************************************************************************)
(* Faults: what GitHub, the network and the runner may do to a job         *)
(***************************************************************************)
Fault == faults < MaxFaults /\ faults' = faults + 1

(* Origin moved the ref, but the answer is lost: git push exits 1.         *)
PublishAckLost(w) ==
    /\ Fault
    /\ pc[w] = "push"
    /\ LeaseHolds(w)
    /\ AcceptPush(w)
    /\ Goto(w, "check")
    /\ UNCHANGED <<attempt, expected, base, tree, reruns>>

(* Origin refuses a push whose lease holds.                                *)
PublishRefused(w) ==
    /\ Fault
    /\ pc[w] = "push"
    /\ LeaseHolds(w)
    /\ Goto(w, "check")
    /\ UNCHANGED <<originVars, attempt, expected, base, tree, reruns>>

(* The job ends in the middle of its transaction: the operation exits      *)
(* nonzero, a git command exits 128, or the runner dies.                   *)
Crash(w) ==
    /\ Fault
    /\ pc[w] \in Running
    /\ Goto(w, "failed")
    /\ UNCHANGED <<originVars, attempt, expected, base, tree, reruns>>

(***************************************************************************)
(* The environment                                                         *)
(***************************************************************************)

(* An operator re-runs a failed job: the same operation from the start.    *)
Rerun(w) ==
    /\ pc[w] = "failed"
    /\ reruns[w] < MaxReruns
    /\ reruns' = [reruns EXCEPT ![w] = @ + 1]
    /\ attempt' = [attempt EXCEPT ![w] = 0]
    /\ Goto(w, "list")
    /\ UNCHANGED <<originVars, expected, base, tree, faults>>

(* A maintainer merges the state pull request; origin may be configured    *)
(* to delete the merged head branch.                                       *)
MergeCheckpoint ==
    /\ branchSha # 0
    /\ ValidLedger(mainLedger \cup branchLedger)
    /\ mainLedger' = mainLedger \cup branchLedger
    /\ IF DeleteOnMerge
       THEN branchSha' = 0 /\ branchLedger' = {} /\ deletions' = deletions + 1
       ELSE UNCHANGED <<branchSha, branchLedger, deletions>>
    /\ mainLedger' # mainLedger \/ DeleteOnMerge
    /\ UNCHANGED <<pushes, writerVars, faults>>

Step(w) ==
    \/ ListRemote(w) \/ FetchState(w) \/ FetchBase(w)
    \/ RunOperation(w) \/ Commit(w)
    \/ Publish(w) \/ PublishRejected(w) \/ CheckRemote(w)

Next ==
    \/ \E w \in Writers :
        Step(w) \/ PublishAckLost(w) \/ PublishRefused(w) \/ Crash(w) \/ Rerun(w)
    \/ MergeCheckpoint

(* A runner that is not killed executes its transaction to the end.        *)
Fairness == \A w \in Writers : WF_vars(Step(w))

Spec == Init /\ [][Next]_vars

FairSpec == Spec /\ Fairness

-----------------------------------------------------------------------------
(***************************************************************************)
(* Properties                                                              *)
(***************************************************************************)

(* Every variable has its type; a commit number was issued before it is    *)
(* used.                                                                   *)
TypeOK ==
    /\ branchSha \in Nat /\ branchSha <= pushes
    /\ branchLedger \in SUBSET Decisions /\ mainLedger \in SUBSET Decisions
    /\ pushes \in Nat /\ deletions \in Nat /\ faults \in Nat
    /\ pc \in [Writers -> Running \cup Ended]
    /\ attempt \in [Writers -> 0..(Attempts - 1)]
    /\ expected \in [Writers -> Nat] /\ \A w \in Writers : expected[w] <= pushes
    /\ base \in [Writers -> SUBSET Decisions]
    /\ tree \in [Writers -> SUBSET Decisions]
    /\ reruns \in [Writers -> Nat]

(* A transaction that returned its result has every decision of its        *)
(* operation in the durable ledger, for good: also the one that returned   *)
(* without a push because its worktree equals its base, and whatever other *)
(* writers pushed since (transact, state_transaction.py:251).              *)
NoLostUpdate ==
    \A w \in Writers : pc[w] = "done" => Delta[w] \subseteq Durable

(* No step of any job removes a decision from the durable ledger           *)
(* (--force-with-lease replaces the whole tree, state_transaction.py:75).  *)
DurableOnlyGrows == [][Durable \subseteq Durable']_vars

(* Two racing jobs that decide differently under one idempotency key never *)
(* both end up in the ledger: the loser replays and is refused by _append  *)
(* (ledger.py:82).                                                         *)
KeysStayUnique == ValidLedger(branchLedger) /\ ValidLedger(mainLedger)

(* A replay is paid for: each one follows another change of the state      *)
(* branch, so no transaction spins, and one gives up only after Attempts   *)
(* such changes (state_transaction.py:84, 257).                            *)
ReplaysArePaidFor ==
    \A w \in Writers : attempt[w] <= pushes + deletions

(* As long as the lease of a snapshot holds, the worktree is the newest    *)
(* ledger, with the decisions of the operation once it has run: the ref    *)
(* listed, the commit fetched and the base fetched after it, three reads   *)
(* at three moments, still fit together (state_transaction.py:148-188).    *)
LeasedSnapshotIsCurrent ==
    \A w \in Writers : branchSha = expected[w] =>
        /\ pc[w] = "fetch_base" /\ branchSha # 0 => tree[w] = branchLedger
        /\ pc[w] = "run" => tree[w] = Durable
        /\ pc[w] \in {"commit", "push"} => tree[w] = Durable \cup Delta[w]

(* The checkpoint on the default branch is never ahead of the durable      *)
(* ledger: what commit() compares with is part of it                       *)
(* (state_transaction.py:46).                                              *)
CheckpointBehind ==
    /\ mainLedger \subseteq Durable
    /\ \A w \in Writers : pc[w] \in {"run", "commit"} => base[w] \subseteq Durable

(* Every transaction returns or raises, whatever faults hit it.            *)
EveryTransactionEnds ==
    \A w \in Writers : pc[w] \in Running ~> pc[w] \in Ended

(* With at least as many attempts as there are jobs, and without faults,   *)
(* losing every race still leaves an attempt that wins: a transaction that *)
(* does not succeed met another decision under one of its keys.            *)
EveryTransactionSucceeds ==
    Attempts >= Cardinality(Writers) =>
        \A w \in Writers :
            <>(pc[w] = "done" \/ faults > 0 \/ ~ValidLedger(Durable \cup Delta[w]))

(* The transaction implements the atomic, growing register of StateLedger. *)
Abstract == INSTANCE StateLedger
    WITH ledger <- Durable, acked <- {w \in Writers : pc[w] = "done"}

(* Each change of the durable ledger is one whole operation applied to the *)
(* newest ledger, and success is reported only for what is durable.        *)
ImplementsStateLedger == Abstract!Spec
=============================================================================
