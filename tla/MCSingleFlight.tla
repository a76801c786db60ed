---------------------------- MODULE MCSingleFlight ----------------------------
(***************************************************************************)
(* Two processes of two threads contend for one job's lock.                *)
(***************************************************************************)
EXTENDS SingleFlight, TLC

=============================================================================
