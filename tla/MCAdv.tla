------------------------------- MODULE MCAdv -------------------------------
(***************************************************************************)
(* The advertising window for TLC: enough presses for one to fall into     *)
(* every step of a closing window, and two sessions.                       *)
(***************************************************************************)
EXTENDS BleAdv
=============================================================================
