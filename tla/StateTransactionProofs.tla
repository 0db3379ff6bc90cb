----------------------- MODULE StateTransactionProofs -----------------------
(***************************************************************************)
(* Theorems about StateTransaction, for any set of jobs, any operations    *)
(* and any number of attempts, crashes and lost acknowledgements.          *)
(***************************************************************************)
EXTENDS StateTransaction, TLAPS

(* Every state of the transaction protocol is well typed; in particular a  *)
(* lease never names a commit origin has not accepted, and transact()      *)
(* never exceeds its attempts.                                             *)
THEOREM TypeCorrect == Spec => []TypeOK
<1>1. Init => TypeOK
  BY AttemptsAssumption DEF Init, TypeOK, Running, Ended
<1>2. TypeOK /\ [Next]_vars => TypeOK'
  <2> SUFFICES ASSUME TypeOK, [Next]_vars
               PROVE  TypeOK'
    OBVIOUS
  <2> USE AttemptsAssumption DEF TypeOK, Running, Ended, Goto, originVars
  <2>1. ASSUME NEW w \in Writers, ListRemote(w) PROVE TypeOK'
    BY <2>1 DEF ListRemote
  <2>2. ASSUME NEW w \in Writers, FetchState(w) PROVE TypeOK'
    BY <2>2 DEF FetchState
  <2>3. ASSUME NEW w \in Writers, FetchBase(w) PROVE TypeOK'
    BY <2>3 DEF FetchBase
  <2>4. ASSUME NEW w \in Writers, RunOperation(w) PROVE TypeOK'
    BY <2>4, DeltaAssumption DEF RunOperation
  <2>5. ASSUME NEW w \in Writers, Commit(w) PROVE TypeOK'
    BY <2>5 DEF Commit
  <2>6. ASSUME NEW w \in Writers, Publish(w) PROVE TypeOK'
    BY <2>6 DEF Publish, AcceptPush
  <2>7. ASSUME NEW w \in Writers, PublishRejected(w) PROVE TypeOK'
    BY <2>7 DEF PublishRejected
  <2>8. ASSUME NEW w \in Writers, CheckRemote(w) PROVE TypeOK'
    BY <2>8 DEF CheckRemote
  <2>9. ASSUME NEW w \in Writers, PublishAckLost(w) PROVE TypeOK'
    BY <2>9 DEF PublishAckLost, AcceptPush, Fault
  <2>10. ASSUME NEW w \in Writers, PublishRefused(w) PROVE TypeOK'
    BY <2>10 DEF PublishRefused, Fault
  <2>11. ASSUME NEW w \in Writers, Crash(w) PROVE TypeOK'
    BY <2>11 DEF Crash, Fault
  <2>12. ASSUME NEW w \in Writers, Rerun(w) PROVE TypeOK'
    BY <2>12 DEF Rerun
  <2>13. CASE MergeCheckpoint
    BY <2>13 DEF MergeCheckpoint, writerVars
  <2>14. CASE UNCHANGED vars
    BY <2>14 DEF vars, writerVars
  <2> QED
    BY <2>1, <2>2, <2>3, <2>4, <2>5, <2>6, <2>7, <2>8, <2>9, <2>10, <2>11,
       <2>12, <2>13, <2>14 DEF Next, Step
<1> QED
  BY <1>1, <1>2, PTL DEF Spec

(***************************************************************************)
(* The safety of the transaction, when the state branch is not deleted.    *)
(* A lease only compares commits; that the ledger behind an unchanged      *)
(* commit is the one the operation ran on is LeasedSnapshotIsCurrent, that *)
(* the comparison with the base commit loses nothing is CheckpointBehind.  *)
(***************************************************************************)

(* What the invariant says of one job: the worktree is the newest ledger   *)
(* while its lease holds; the base is part of the durable ledger; what the *)
(* operation wrote is still there to be published; success is durable; and *)
(* its replays happened before the commit of its snapshot.                 *)
JobInv(w) ==
    /\ branchSha = expected[w] =>
        /\ pc[w] = "fetch_base" /\ branchSha # 0 => tree[w] = branchLedger
        /\ pc[w] = "run" => tree[w] = Durable
        /\ pc[w] \in {"commit", "push"} => tree[w] = Durable \cup Delta[w]
    /\ pc[w] \in {"run", "commit"} => base[w] \subseteq Durable
    /\ pc[w] \in {"commit", "push"} =>
        Delta[w] \subseteq tree[w] /\ ValidLedger(tree[w])
    /\ pc[w] = "done" => Delta[w] \subseteq Durable
    /\ attempt[w] <= branchSha
    /\ pc[w] \in {"fetch_base", "run", "commit", "push", "check"} =>
        attempt[w] <= expected[w]

(* The inductive invariant.                                                *)
IInv ==
    /\ TypeOK
    /\ KeysStayUnique
    /\ mainLedger \subseteq Durable
    /\ pushes = branchSha
    /\ \A w \in Writers : JobInv(w)

(* Origin accepting a push that carries the newest ledger and the          *)
(* operation of w keeps every job consistent with it.                      *)
LEMMA AcceptedPush ==
    ASSUME IInv, TypeOK', NEW w \in Writers, pc[w] = "push", LeaseHolds(w), AcceptPush(w),
           NEW label \in {"done", "check"}, Goto(w, label),
           UNCHANGED <<attempt, expected, base, tree>>
    PROVE  /\ IInv'
           /\ Durable' = Durable \cup Delta[w]
           /\ ValidLedger(Durable \cup Delta[w])
<1>1. TypeOK /\ KeysStayUnique /\ mainLedger \subseteq Durable /\ pushes = branchSha
  BY DEF IInv
<1>2. branchSha' = branchSha + 1 /\ branchSha' # 0
  BY <1>1 DEF AcceptPush, TypeOK
<1>3. Durable' = tree[w] /\ tree[w] = Durable \cup Delta[w] /\ ValidLedger(tree[w])
  BY <1>1, <1>2 DEF AcceptPush, Durable, JobInv, LeaseHolds, IInv
<1>4. KeysStayUnique'
  BY <1>1, <1>3 DEF AcceptPush, KeysStayUnique, ValidLedger
<1>5. ASSUME NEW v \in Writers PROVE JobInv(v)'
  <2>1. JobInv(v) /\ expected[v] <= branchSha /\ expected[v] \in Nat
    BY <1>1 DEF TypeOK, IInv
  <2>2. branchSha' # expected'[v]
    BY <2>1, <1>1, <1>2 DEF TypeOK
  <2>3. pc'[v] = IF v = w THEN label ELSE pc[v]
    BY <1>1 DEF Goto, TypeOK
  <2>4. ValidLedger(tree[v])' <=> ValidLedger(tree[v])
    BY DEF ValidLedger
  <2>5. attempt[v] \in Nat /\ branchSha \in Nat
    BY <1>1, AttemptsAssumption DEF TypeOK
  <2> QED
    BY <2>1, <2>2, <2>3, <2>4, <2>5, <1>2, <1>3 DEF JobInv
<1>6. (mainLedger \subseteq Durable)' /\ (pushes = branchSha)'
  BY <1>1, <1>3 DEF AcceptPush
<1> QED
  BY <1>3, <1>4, <1>5, <1>6 DEF IInv

(* A step of w that leaves origin alone keeps the invariant of every other *)
(* job, so the invariant follows from that of w.                           *)
LEMMA LocalStep ==
    ASSUME IInv, TypeOK', NEW w \in Writers, UNCHANGED originVars, JobInv(w)',
           \A v \in Writers \ {w} :
               /\ pc'[v] = pc[v] /\ attempt'[v] = attempt[v]
               /\ expected'[v] = expected[v] /\ base'[v] = base[v]
               /\ tree'[v] = tree[v]
    PROVE  IInv' /\ Durable' = Durable
<1>1. Durable' = Durable
  BY DEF originVars, Durable
<1>2. KeysStayUnique'
  BY DEF IInv, originVars, KeysStayUnique, ValidLedger
<1>3. ASSUME NEW v \in Writers \ {w} PROVE JobInv(v)'
  <2>1. JobInv(v)
    BY DEF IInv
  <2>2. ValidLedger(tree[v])' <=> ValidLedger(tree[v])
    BY DEF ValidLedger
  <2> QED
    BY <1>1, <2>1, <2>2 DEF JobInv, originVars
<1> QED
  BY <1>1, <1>2, <1>3 DEF IInv, originVars

(* Every step of a job keeps the invariant, and maps to a step of          *)
(* StateLedger or to none.                                                 *)
LEMMA StepInv ==
    ASSUME IInv, TypeOK', NEW w \in Writers, 
           \/ Step(w) \/ PublishAckLost(w) \/ PublishRefused(w) \/ Crash(w) \/ Rerun(w)
    PROVE  IInv'
<1> USE DEF Goto
<1>0. TypeOK /\ JobInv(w) /\ attempt[w] \in Nat /\ attempt'[w] \in Nat /\ branchSha \in Nat
      /\ expected[w] \in Nat /\ expected[w] <= branchSha
  BY AttemptsAssumption DEF IInv, TypeOK
<1>a. ValidLedger(tree[w])' <=> ValidLedger(tree'[w])
  BY DEF ValidLedger
<1>1. CASE ListRemote(w)
  <2>1. JobInv(w)'
    BY <1>0, <1>1 DEF ListRemote, JobInv, originVars, Durable, TypeOK
  <2> QED
    BY <2>1, <1>0, <1>1, LocalStep DEF ListRemote, TypeOK
<1>2. CASE FetchState(w)
  <2>1. JobInv(w)'
    BY <1>0, <1>2 DEF FetchState, JobInv, originVars, Durable, TypeOK
  <2> QED
    BY <2>1, <1>0, <1>2, LocalStep DEF FetchState, TypeOK
<1>3. CASE FetchBase(w)
  <2>1. JobInv(w)'
    BY <1>0, <1>3 DEF FetchBase, JobInv, originVars, Durable, TypeOK, IInv
  <2> QED
    BY <2>1, <1>0, <1>3, LocalStep DEF FetchBase, TypeOK
<1>4. CASE RunOperation(w)
  <2>1. JobInv(w)'
    <3>1. /\ pc[w] = "run" /\ Durable' = Durable /\ branchSha' = branchSha
          /\ expected'[w] = expected[w] /\ attempt'[w] = attempt[w]
          /\ base'[w] = base[w]
      BY <1>4 DEF RunOperation, originVars, Durable
    <3>2. \/ /\ pc'[w] = "commit" /\ tree'[w] = tree[w] \cup Delta[w]
             /\ ValidLedger(tree'[w])
          \/ pc'[w] = "failed"
      BY <1>0, <1>4 DEF RunOperation, TypeOK
    <3> QED
      BY <1>0, <1>a, <3>1, <3>2 DEF JobInv
  <2> QED
    BY <2>1, <1>0, <1>4, LocalStep DEF RunOperation, TypeOK
<1>5. CASE Commit(w)
  <2>1. JobInv(w)'
    BY <1>0, <1>5, <1>a DEF Commit, JobInv, originVars, Durable, TypeOK
  <2> QED
    BY <2>1, <1>0, <1>5, LocalStep DEF Commit, TypeOK
<1>6. CASE Publish(w)
  BY <1>6, AcceptedPush DEF Publish
<1>7. CASE PublishRejected(w) \/ PublishRefused(w)
  <2>1. JobInv(w)'
    BY <1>0, <1>7, <1>a DEF PublishRejected, PublishRefused, JobInv, originVars, Durable, TypeOK
  <2> QED
    BY <2>1, <1>0, <1>7, LocalStep DEF PublishRejected, PublishRefused, TypeOK
<1>8. CASE CheckRemote(w)
  <2>1. JobInv(w)'
    BY <1>0, <1>8, <1>a DEF CheckRemote, JobInv, originVars, Durable, TypeOK
  <2> QED
    BY <2>1, <1>0, <1>8, LocalStep DEF CheckRemote, TypeOK
<1>9. CASE PublishAckLost(w)
  BY <1>9, AcceptedPush DEF PublishAckLost
<1>10. CASE Crash(w)
  <2>1. JobInv(w)'
    BY <1>0, <1>10, <1>a DEF Crash, JobInv, originVars, Durable, TypeOK
  <2> QED
    BY <2>1, <1>0, <1>10, LocalStep DEF Crash, TypeOK
<1>11. CASE Rerun(w)
  <2>1. JobInv(w)'
    BY <1>0, <1>11, <1>a DEF Rerun, JobInv, originVars, Durable, TypeOK
  <2> QED
    BY <2>1, <1>0, <1>11, LocalStep DEF Rerun, TypeOK
<1> QED
  BY <1>1, <1>2, <1>3, <1>4, <1>5, <1>6, <1>7, <1>8, <1>9, <1>10, <1>11 DEF Step

(* Before any job ran, the durable ledger is the one on the default        *)
(* branch.                                                                 *)
LEMMA InitInv == Init => IInv
<1> SUFFICES ASSUME Init PROVE IInv
  OBVIOUS
<1>1. TypeOK
  BY AttemptsAssumption DEF Init, TypeOK, Running, Ended
<1>2. KeysStayUnique /\ mainLedger \subseteq Durable /\ pushes = branchSha
  BY DEF Init, KeysStayUnique, ValidLedger, Durable
<1>3. \A w \in Writers : JobInv(w)
  BY DEF Init, JobInv
<1> QED
  BY <1>1, <1>2, <1>3 DEF IInv

(* Merging the state pull request only moves the checkpoint up to the      *)
(* state branch.                                                           *)
LEMMA MergeInv ==
    ASSUME IInv, TypeOK', MergeCheckpoint, DeleteOnMerge = FALSE
    PROVE  IInv' /\ Durable' = Durable
<1>1. /\ branchSha # 0 /\ branchSha' = branchSha /\ branchLedger' = branchLedger
      /\ mainLedger' = mainLedger \cup branchLedger /\ pushes' = pushes
      /\ pc' = pc /\ attempt' = attempt /\ expected' = expected
      /\ base' = base /\ tree' = tree
  BY DEF MergeCheckpoint, writerVars
<1>2. Durable' = Durable /\ mainLedger' = branchLedger
  BY <1>1 DEF Durable, IInv
<1>3. KeysStayUnique'
  BY <1>1, <1>2 DEF KeysStayUnique, ValidLedger, IInv
<1>4. ASSUME NEW w \in Writers PROVE JobInv(w)'
  <2>1. JobInv(w)
    BY DEF IInv
  <2>2. ValidLedger(tree[w])' <=> ValidLedger(tree[w])
    BY <1>1 DEF ValidLedger
  <2> QED
    BY <1>1, <1>2, <2>1, <2>2 DEF JobInv
<1> QED
  BY <1>1, <1>2, <1>3, <1>4 DEF IInv, Durable

(* A step that changes no variable keeps the invariant.                    *)
LEMMA StutterInv ==
    ASSUME IInv, UNCHANGED vars
    PROVE  IInv' /\ Durable' = Durable
<1>1. Durable' = Durable
  BY DEF vars, originVars, Durable
<1>2. TypeOK'
  BY DEF IInv, TypeOK, vars, originVars, writerVars
<1>3. KeysStayUnique'
  BY DEF IInv, KeysStayUnique, ValidLedger, vars, originVars
<1>4. ASSUME NEW w \in Writers PROVE JobInv(w)'
  <2>1. JobInv(w)
    BY DEF IInv
  <2>2. ValidLedger(tree[w])' <=> ValidLedger(tree[w])
    BY DEF ValidLedger, vars, writerVars
  <2> QED
    BY <1>1, <2>1, <2>2 DEF JobInv, vars, originVars, writerVars
<1> QED
  BY <1>1, <1>2, <1>3, <1>4 DEF IInv, vars, originVars

(* IInv is inductive as long as origin keeps the state branch.             *)
THEOREM Inductive ==
    ASSUME DeleteOnMerge = FALSE
    PROVE  Spec => []IInv
<1>1. Init => IInv
  BY InitInv
<1>2. IInv /\ TypeOK' /\ [Next]_vars => IInv'
  BY StepInv, MergeInv, StutterInv DEF Next
<1> QED
  BY <1>1, <1>2, TypeCorrect, PTL DEF Spec

(* transact() loses no update: a job that was told of success has all its  *)
(* decisions in the durable ledger from then on, whatever races, lost      *)
(* acknowledgements, crashes and re-runs happen around it.                 *)
THEOREM SafeNoLostUpdate ==
    ASSUME DeleteOnMerge = FALSE
    PROVE  Spec => []NoLostUpdate
<1>1. IInv => NoLostUpdate
  BY DEF IInv, JobInv, NoLostUpdate
<1> QED
  BY <1>1, Inductive, PTL

(* While a lease holds, the three reads of snapshot() fit together.        *)
THEOREM SafeLeasedSnapshot ==
    ASSUME DeleteOnMerge = FALSE
    PROVE  Spec => []LeasedSnapshotIsCurrent
<1>1. IInv => LeasedSnapshotIsCurrent
  BY DEF IInv, JobInv, LeasedSnapshotIsCurrent
<1> QED
  BY <1>1, Inductive, PTL

(* A key never carries two decisions, although each job checks it only     *)
(* against its own snapshot.                                               *)
THEOREM SafeKeys ==
    ASSUME DeleteOnMerge = FALSE
    PROVE  Spec => []KeysStayUnique
<1>1. IInv => KeysStayUnique
  BY DEF IInv
<1> QED
  BY <1>1, Inductive, PTL

(* A transaction replays only after the branch changed, and so gives up    *)
(* only after Attempts publications.                                       *)
THEOREM SafeReplays ==
    ASSUME DeleteOnMerge = FALSE
    PROVE  Spec => []ReplaysArePaidFor
<1>1. IInv => ReplaysArePaidFor
  BY AttemptsAssumption DEF IInv, JobInv, ReplaysArePaidFor, TypeOK
<1> QED
  BY <1>1, Inductive, PTL

(***************************************************************************)
(* The transaction implements StateLedger.                                 *)
(***************************************************************************)

(* A run starts from a ledger the abstract register may start from.        *)
LEMMA AbstractInit == Init => Abstract!Init
BY DEF Init, Abstract!Init, Abstract!OneDecisionPerKey, Durable, ValidLedger

(* A step that changes neither the durable ledger nor who ended is none.   *)
LEMMA AbstractStutter ==
    ASSUME Durable' = Durable,
           \A w \in Writers : pc'[w] = "done" <=> pc[w] = "done"
    PROVE  UNCHANGED Abstract!absVars
BY DEF Abstract!absVars

(* Every step of the transaction is a step of the register, or none: only  *)
(* an accepted push applies an operation.                                  *)
LEMMA AbstractStep ==
    ASSUME IInv, IInv', Next, DeleteOnMerge = FALSE
    PROVE  Abstract!Next \/ UNCHANGED Abstract!absVars
<1> USE DEF Goto
<1>0. TypeOK /\ TypeOK'
  BY DEF IInv
<1>1. ASSUME NEW w \in Writers, Publish(w) \/ PublishAckLost(w) PROVE Abstract!Apply(w)
  <2>1. Durable' = Durable \cup Delta[w] /\ ValidLedger(Durable \cup Delta[w])
    BY <1>0, <1>1, AcceptedPush DEF Publish, PublishAckLost
  <2>2. \A v \in Writers : pc'[v] = "done" => v = w \/ pc[v] = "done"
    BY <1>0, <1>1 DEF Publish, PublishAckLost, TypeOK
  <2>3. \A v \in Writers : pc[v] = "done" => pc'[v] = "done"
    BY <1>0, <1>1 DEF Publish, PublishAckLost, TypeOK
  <2>4. \/ {v \in Writers : pc'[v] = "done"} = {v \in Writers : pc[v] = "done"}
        \/ {v \in Writers : pc'[v] = "done"} = {v \in Writers : pc[v] = "done"} \cup {w}
    BY <2>2, <2>3
  <2> QED
    BY <2>1, <2>4 DEF Abstract!Apply, Abstract!OneDecisionPerKey, ValidLedger
<1>2. ASSUME NEW w \in Writers, Commit(w), pc'[w] = "done" PROVE Abstract!Acknowledge(w)
  <2>1. Durable' = Durable
    BY <1>2 DEF Commit, originVars, Durable
  <2>2. Delta[w] \subseteq Durable
    BY <1>2, <2>1 DEF IInv, JobInv
  <2>3. {v \in Writers : pc'[v] = "done"} = {v \in Writers : pc[v] = "done"} \cup {w}
    BY <1>0, <1>2 DEF Commit, TypeOK
  <2> QED
    BY <2>1, <2>2, <2>3 DEF Abstract!Acknowledge
<1>3. ASSUME NEW w \in Writers,
             \/ ListRemote(w) \/ FetchState(w) \/ FetchBase(w) \/ RunOperation(w)
             \/ (Commit(w) /\ pc'[w] # "done") \/ PublishRejected(w) \/ CheckRemote(w)
             \/ PublishRefused(w) \/ Crash(w) \/ Rerun(w)
      PROVE  UNCHANGED Abstract!absVars
  <2>1. UNCHANGED originVars
    BY <1>3 DEF ListRemote, FetchState, FetchBase, RunOperation, Commit,
                PublishRejected, CheckRemote, PublishRefused, Crash, Rerun
  <2>2. Durable' = Durable
    BY <2>1 DEF originVars, Durable
  <2>3. PICK label \in (Running \cup Ended) \ {"done"} : pc' = [pc EXCEPT ![w] = label]
    BY <1>0, <1>3 DEF ListRemote, FetchState, FetchBase, RunOperation, Commit,
                PublishRejected, CheckRemote, PublishRefused, Crash, Rerun, Running, Ended
  <2>4. pc[w] # "done"
    BY <1>3 DEF ListRemote, FetchState, FetchBase, RunOperation, Commit,
                PublishRejected, CheckRemote, PublishRefused, Crash, Rerun, Running
  <2> QED
    BY <1>0, <2>2, <2>3, <2>4, AbstractStutter DEF TypeOK
<1>4. CASE MergeCheckpoint
  <2>1. Durable' = Durable /\ pc' = pc
    BY <1>0, <1>4, MergeInv DEF MergeCheckpoint, writerVars
  <2> QED
    BY <2>1, AbstractStutter
<1> QED
  BY <1>1, <1>2, <1>3, <1>4 DEF Next, Step, Abstract!Next

(* Refinement: each change of the durable ledger is one whole operation on *)
(* the newest ledger, and success is only reported for durable decisions.  *)
THEOREM Refinement ==
    ASSUME DeleteOnMerge = FALSE
    PROVE  Spec => ImplementsStateLedger
<1>1. UNCHANGED vars => UNCHANGED Abstract!absVars
  BY DEF vars, originVars, writerVars, Durable, Abstract!absVars
<1>2. IInv /\ IInv' /\ [Next]_vars => [Abstract!Next]_(Abstract!absVars)
  BY <1>1, AbstractStep
<1> QED
  BY <1>2, AbstractInit, Inductive, PTL DEF Spec, ImplementsStateLedger, Abstract!Spec

(* The checkpoint on the default branch is never ahead of the durable      *)
(* ledger, so that commit() takes for "no changes" only what is durable    *)
(* already (state_transaction.py:46).                                      *)
THEOREM SafeCheckpoint ==
    ASSUME DeleteOnMerge = FALSE
    PROVE  Spec => []CheckpointBehind
<1>1. IInv => CheckpointBehind
  BY DEF IInv, JobInv, CheckpointBehind
<1> QED
  BY <1>1, Inductive, PTL

(* No step removes a decision from the durable ledger.                     *)
THEOREM SafeGrowth ==
    ASSUME DeleteOnMerge = FALSE
    PROVE  Spec => DurableOnlyGrows
<1>1. IInv /\ IInv' /\ [Next]_vars => [Durable \subseteq Durable']_vars
  BY AbstractStep DEF Abstract!Next, Abstract!Apply, Abstract!Acknowledge, Abstract!absVars
<1> QED
  BY <1>1, Inductive, PTL DEF Spec, DurableOnlyGrows
=============================================================================
