--------------------------- MODULE MCControlPlane ---------------------------
(***************************************************************************)
(* Instances of ControlPlane for TLC: the manifest has two PR-enabled SDKs *)
(* and up to four canonical changes are merged.                            *)
(***************************************************************************)
EXTENDS ControlPlane, TLC

MCTargets == {"go", "ruby"}

Cmd(change, verb, targets, all, instruction) ==
    [change |-> change, verb |-> verb, targets |-> targets, all |-> all,
     instruction |-> instruction]

(* resolve_labels: a change labelled for the targets, one that a clean     *)
(* agricola:none disables, and one with an unknown label as well.          *)
Labelled(targets) ==
    [labels |-> {"agricola"}, targets |-> targets, disabled |-> FALSE,
     errors |-> FALSE, notes |-> FALSE]
Disabled ==
    [labels |-> {"none"}, targets |-> {}, disabled |-> TRUE, errors |-> FALSE, notes |-> FALSE]
Unknown ==
    [labels |-> {"agricola", "unknown"}, targets |-> {"go"}, disabled |-> FALSE,
     errors |-> TRUE, notes |-> FALSE]

(* One change, labelled for go: a fix of go by name, a skip of ruby, and a *)
(* bare fix with an instruction.                                           *)
MCComments == {"fixGo", "skipRuby", "fixAll"}
MCCommand ==
    ("fixGo" :> Cmd(1, "fix", {"go"}, FALSE, FALSE))
    @@ ("skipRuby" :> Cmd(1, "skip", {"ruby"}, FALSE, FALSE))
    @@ ("fixAll" :> Cmd(1, "fix", {}, TRUE, TRUE))
MCResolution == <<Labelled({"go"})>>
MCRaw == <<{"agricola", "bug"}>>
MCRawResolved == <<{"agricola"}>>

(* Two changes, the first with both targets.                               *)
MCFewComments == {"fixGo", "plan"}
MCFewCommand ==
    ("fixGo" :> Cmd(1, "fix", {"go"}, FALSE, FALSE))
    @@ ("plan" :> Cmd(2, "plan", {}, FALSE, FALSE))
MCTwoResolution == <<Labelled({"go", "ruby"}), Labelled({"ruby"})>>
MCTwoRaw == <<{"agricola"}, {"agricola"}>>

(* Four changes: one the poll propagates and later polls no longer read,   *)
(* one suppressed, one with an unknown label, and one that the poll and a  *)
(* comment may both propagate, which by then has a label that              *)
(* resolve_labels does not find; another comment asks for its plan.        *)
MCMixedComments == {"fixRuby", "plan"}
MCMixedCommand ==
    ("fixRuby" :> Cmd(4, "fix", {"ruby"}, FALSE, FALSE))
    @@ ("plan" :> Cmd(4, "plan", {}, FALSE, FALSE))
MCMixedResolution == <<Labelled({"go"}), Disabled, Unknown, Labelled({"ruby"})>>
MCMixedRaw == <<{"agricola"}, {"none"}, {"agricola"}, {"agricola", "bug"}>>
=============================================================================
