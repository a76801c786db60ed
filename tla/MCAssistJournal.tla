--------------------------- MODULE MCAssistJournal ---------------------------
(***************************************************************************)
(* The run over AssistJournal.                                             *)
(***************************************************************************)
EXTENDS AssistJournal

\* The owner changes his mind.
FailThenPass == <<"fail", "pass">>
=============================================================================
