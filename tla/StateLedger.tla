---------------------------- MODULE StateLedger ----------------------------
(***************************************************************************)
(* What the state transaction of Agricola promises its callers (the jobs   *)
(* of the control-plane workflow): the durable ledger behaves as one       *)
(* register that only grows, every operation is applied to the newest      *)
(* ledger as a whole or not at all, and a job is told of success only      *)
(* when its decisions are durable.  Stated without branches, worktrees,    *)
(* leases or retries; StateTransaction implements it.                      *)
(***************************************************************************)
CONSTANTS
    Writers,    \* the jobs that run a transaction
    Decisions,  \* the decisions a ledger can hold
    KeyOf,      \* decision -> its idempotency key
    Delta       \* writer -> the decisions its operation appends

VARIABLES
    ledger,     \* the durable ledger
    acked       \* the writers that were told of success

absVars == <<ledger, acked>>

(* The ledgers DecisionLedger.validate_all accepts: one decision per key.  *)
OneDecisionPerKey(l) ==
    \A d, e \in l : KeyOf[d] = KeyOf[e] => d = e

Init ==
    /\ ledger \in SUBSET Decisions
    /\ OneDecisionPerKey(ledger)
    /\ acked = {}

(* The whole operation of w takes effect on the newest ledger; w may not   *)
(* learn of it (its acknowledgement is lost, or it dies first).            *)
Apply(w) ==
    /\ OneDecisionPerKey(ledger \cup Delta[w])
    /\ ledger' = ledger \cup Delta[w]
    /\ acked' \in {acked, acked \cup {w}}

(* w is told of success: its decisions are durable already.                *)
Acknowledge(w) ==
    /\ Delta[w] \subseteq ledger
    /\ acked' = acked \cup {w}
    /\ UNCHANGED ledger

Next == \E w \in Writers : Apply(w) \/ Acknowledge(w)

Spec == Init /\ [][Next]_absVars
=============================================================================
