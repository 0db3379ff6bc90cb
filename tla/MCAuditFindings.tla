--------------------------- MODULE MCAuditFindings ---------------------------
(***************************************************************************)
(* An instance of AuditFindings for TLC: a finding that two SDKs have, of  *)
(* which one takes pull requests.                                          *)
(***************************************************************************)
EXTENDS AuditFindings, TLC

MCFix ==
    ("go" :> [targets |-> {"go"}, all |-> FALSE, instruction |-> FALSE])
    @@ ("all" :> [targets |-> {}, all |-> TRUE, instruction |-> TRUE])
MCDrifts == {<<{"go", "ruby"}, {"go"}>>}
=============================================================================
