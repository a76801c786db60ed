---------------------------- MODULE MCShadowTrack ----------------------------
(***************************************************************************)
(* The run over ShadowTrack.                                               *)
(***************************************************************************)
EXTENDS ShadowTrack

\* The universe of four crypto symbols, one of which is modelled, can be reset to the
\* two that do not include it.
MCPresets == {{}, Preset}
=============================================================================
