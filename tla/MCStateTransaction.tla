------------------------- MODULE MCStateTransaction -------------------------
(***************************************************************************)
(* Instances of StateTransaction for TLC.  A decision is a key and what    *)
(* was decided.  The three jobs are a record job, a second delivery of the *)
(* same operation that also decides another key, and a job that decides    *)
(* the first key differently.                                              *)
(***************************************************************************)
EXTENDS StateTransaction, TLC

MCDecisions == {"a1", "a2", "b1"}
MCKeyOf == [d \in MCDecisions |-> IF d = "b1" THEN "b" ELSE "a"]

MCWriters == {"record", "again", "rival"}
MCDelta == ("record" :> {"a1"}) @@ ("again" :> {"a1", "b1"}) @@ ("rival" :> {"a2"})

(* Decisions and operations that never conflict.                           *)
MCCompatibleDecisions == {"a1", "b1"}
MCCompatible == ("record" :> {"a1"}) @@ ("again" :> {"a1", "b1"}) @@ ("rival" :> {"b1"})

=============================================================================
