---------------------------- MODULE MCPublisher ----------------------------
(***************************************************************************)
(* Instances of Publisher for TLC: the first patch of a poll races the one *)
(* a maintainer asked for with /ag fix, and up to two revisions follow.    *)
(***************************************************************************)
EXTENDS Publisher, TLC

MCInitial == {"poll", "fix"}
MCRevisions == {"revise"}
MCGroup ==
    ("poll" :> "control-plane") @@ ("fix" :> "issue")
    @@ ("revise" :> "issue") @@ ("again" :> "issue")

(* The runs of the comments of one issue, without a poll.                  *)
MCFixOnly == {"fix"}
MCTwoRevisions == {"revise", "again"}
=============================================================================
