---------------------------- MODULE MCAssistWatch ----------------------------
(***************************************************************************)
(* The runs over AssistWatch.                                              *)
(***************************************************************************)
EXTENDS AssistWatch
=============================================================================
