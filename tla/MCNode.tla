------------------------------- MODULE MCNode -------------------------------
(***************************************************************************)
(* The node for TLC: a second of one tick, a record every two seconds, a   *)
(* dwell that saturates at three seconds.  Words are 16 bits wide and the  *)
(* samples sit at the ends of their ranges.                                *)
(***************************************************************************)
EXTENDS Node

Sample(pm, t) == [pm25 |-> pm, pm10 |-> pm, rh |-> t, temp |-> t, voc |-> t]

\* Clean air below zero; a PM without a value at the highest temperature; the
\* highest PM without a temperature.
MCSamples == {Sample(0, 65534), Sample(65535, 32766), Sample(65534, 65535)}

\* Two zones: the second occupied, and a byte too few to tell.
MCPresences == {<<2, 4>>, <<2>>}

MCStamps == {[seq |-> 255, ts |-> 0], [seq |-> 2130771969, ts |-> 258]}

\* Every kind of frame beside a dead air sensor; every sample and status
\* beside a dead radar; both sensors at work in a cold room.
MCScenes ==
    {[frames |-> FrameKinds, samples |-> {}, bits |-> {}],
     [frames |-> {}, samples |-> MCSamples, bits |-> StatusBits],
     [frames |-> {f \in FrameKinds : f.tracker}, samples |-> {Sample(0, 65534)},
      bits |-> {"FAN"}]}
=============================================================================
