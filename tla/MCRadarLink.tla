---------------------------- MODULE MCRadarLink ----------------------------
(***************************************************************************)
(* The radar link for TLC: a profile of three lines, a ring that an answer *)
(* fits and a stream fills, a buffer that an answer overfills.             *)
(***************************************************************************)
EXTENDS RadarLink

ThreeLines == <<"stop", "set", "start">>
=============================================================================
