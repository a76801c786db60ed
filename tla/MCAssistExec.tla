---------------------------- MODULE MCAssistExec ----------------------------
(***************************************************************************)
(* The runs over AssistExec.                                               *)
(***************************************************************************)
EXTENDS AssistExec
=============================================================================
