----------------------------- MODULE MCRadarRx -----------------------------
(***************************************************************************)
(* The receive loop for TLC: a magic word of three symbols, a header of    *)
(* two more, frames of up to eight; lengths on both sides of each limit.   *)
(* With offsets modulo 20 a lying length can wrap back into the frame.     *)
(***************************************************************************)
EXTENDS RadarRx

Magic213 == <<2, 1, 3>>
=============================================================================
