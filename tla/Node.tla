-------------------------------- MODULE Node --------------------------------
(***************************************************************************)
(* The main loop of src/main.c with the two sensors it reads: it polls the *)
(* air sensor once a second and every STORE_PERIOD_S seconds turns both    *)
(* windows into one record (window_flush).  The radar thread adds frames,  *)
(* the devices change and time passes between any two of its steps.        *)
(*                                                                         *)
(* The store is module Store; here an append takes time and may fail, and  *)
(* a record has no seq and ts before it.                                   *)
(***************************************************************************)
EXTENDS RadarWindow, Sen5x, Frame

CONSTANTS
    Stamps,     \* [seq, ts] that records are encoded with
    Scenes      \* bound: the inputs that may come up together

ASSUME NodeAssumption ==
    /\ Stamps \subseteq [seq : Nat, ts : Nat]
    /\ Scenes \subseteq [frames : SUBSET FrameKinds, samples : SUBSET Samples,
                         bits : SUBSET StatusBits]

VARIABLES
    npc,            \* the main thread
    sec,            \* polls since the last record
    next_tick,
    scene,          \* the member of Scenes this behaviour draws from
    flushes,        \* history: records handed to the store
    began           \* history: clock when the loop began

loop     == <<npc, sec, next_tick, scene, flushes, began>>
nodeVars == <<winVars, senVars, loop>>

NodeInit ==
    /\ WinInit /\ SenInit
    /\ scene \in Scenes
    /\ npc = "start"
    /\ sec = 0 /\ next_tick = 0 /\ flushes = 0 /\ began = 0
-----------------------------------------------------------------------------
(* The main thread *)

At(here, there) == npc = here /\ npc' = there

Start ==
    /\ At("start", "poll")
    /\ sen5x_start
    /\ next_tick' = clock + MS_PER_S
    /\ began' = clock
    /\ UNCHANGED <<winVars, sec, scene, flushes>>

Poll ==
    /\ npc = "poll"
    /\ sen5x_poll(scene.samples)
    /\ IF sec + 1 >= STORE_PERIOD_S
       THEN sec' = 0 /\ npc' = "radar"
       ELSE sec' = sec + 1 /\ npc' = "sleep"
    /\ UNCHANGED <<winVars, next_tick, scene, flushes, began>>

TakeRadar ==
    /\ At("radar", "air")
    /\ radar_window_take
    /\ UNCHANGED <<senVars, sec, next_tick, scene, flushes, began>>

TakeAir ==
    /\ At("air", "append")
    /\ sen5x_window_take
    /\ UNCHANGED <<winVars, sec, next_tick, scene, flushes, began>>

SNTL_FLAG_SENSOR_FAULT == 1
SNTL_FLAG_RTC_UNSET    == 4
SNTL_FLAG_NO_TRACKER   == 32
SNTL_FLAG_AQ_FAULT     == 64

Flag(set, bit) == IF set THEN bit ELSE 0

\* Defect: only a node without either sensor is tagged.
Bug_FlagsTogether ==
    Flag(~w[1].alive /\ ~aq[1].alive, SNTL_FLAG_SENSOR_FAULT + SNTL_FLAG_AQ_FAULT)
        + Flag(~w[1].tracker, SNTL_FLAG_NO_TRACKER) + SNTL_FLAG_RTC_UNSET

Flags ==
    Flag(~w[1].alive, SNTL_FLAG_SENSOR_FAULT)
        + Flag(~aq[1].alive, SNTL_FLAG_AQ_FAULT)
        + Flag(~w[1].tracker, SNTL_FLAG_NO_TRACKER) + SNTL_FLAG_RTC_UNSET

\* The record that window_flush hands to store_append, which fills in seq
\* and ts.
rec ==
    [seq |-> 0, ts |-> 0,
     headcount |-> w[1].headcount, occ_s |-> w[1].occ_s, dwell_s |-> w[1].dwell_s,
     pm25 |-> aq[1].pm25, pm10 |-> aq[1].pm10, temp |-> aq[1].temp,
     rh |-> aq[1].rh, voc |-> aq[1].voc, flags |-> Flags, batt |-> 100]

\* store_append returns; an error is printed and nothing else.
AppendReturns ==
    /\ At("append", "sleep")
    /\ WindowDone
    /\ AirDone
    /\ flushes' = flushes + 1
    /\ UNCHANGED <<sec, next_tick, scene, began>>

\* Defect: the next second is counted from now instead of from the last one.
Bug_RelativeCadence ==
    /\ At("sleep", "poll")
    /\ clock >= next_tick
    /\ next_tick' = clock + MS_PER_S
    /\ UNCHANGED <<winVars, senVars, sec, scene, flushes, began>>

\* Asleep until next_tick; not at all if that has passed.
Wake ==
    /\ At("sleep", "poll")
    /\ clock >= next_tick
    /\ next_tick' = next_tick + MS_PER_S
    /\ UNCHANGED <<winVars, senVars, sec, scene, flushes, began>>

MainLoop == Start \/ Poll \/ TakeRadar \/ TakeAir \/ AppendReturns \/ Wake
-----------------------------------------------------------------------------
\* Poll and TakeAir neither read nor change what frames and time do, and a
\* start that comes later only moves the clock: a frame or a tick before one
\* of these might as well come after it.
Apart == npc \notin {"start", "poll", "air"}

RadarThread ==
    /\ Apart
    /\ frames < MaxFrames
    /\ \E f \in scene.frames : on_frame(f)
    /\ UNCHANGED <<senVars, loop>>

Time == Apart /\ Tick /\ UNCHANGED <<senVars, loop>>

\* Nothing but TakeAir reads the register, so it need not change before.
Device ==
    /\ npc = "air"
    /\ StatusChanges(scene.bits)
    /\ UNCHANGED <<winVars, loop>>

NodeNext == MainLoop \/ RadarThread \/ Time \/ Device

NodeSpec == NodeInit /\ [][NodeNext]_nodeVars
-----------------------------------------------------------------------------
(* Properties *)

Has(bit) == (rec.flags \div bit) % 2 = 1

\* A record tells how far to trust it.  SENSOR_FAULT is set just when no frame
\* came in its window, and the occupancy it then reports is none.  A window
\* without any target list is tagged NO_TRACKER; a headcount above the floor
\* of 1 is the count of a target list, and is not.  (Where frames with a list
\* and frames without one meet in a window, an untagged 1 may be the floor
\* all the same.)  AQ_FAULT is set when no poll of the window read the sensor,
\* and else only for a fatal fault of the device.  "One node now carries two
\* sensors that fail independently": neither flag follows the other sensor.
RecordTells ==
    npc = "append" =>
        /\ Has(SNTL_FLAG_SENSOR_FAULT) <=> FramesOf(LastTake) = {}
        /\ Has(SNTL_FLAG_SENSOR_FAULT) =>
              rec.headcount = 0 /\ rec.occ_s = 0 /\ rec.dwell_s = 0
        /\ (\A i \in FramesOf(LastTake) : ~rlog[i].f.tracker) =>
              Has(SNTL_FLAG_NO_TRACKER)
        /\ rec.headcount > 1 =>
              /\ ~Has(SNTL_FLAG_NO_TRACKER)
              /\ \E i \in FramesOf(LastTake) :
                    rlog[i].f.tracker /\ rlog[i].f.n = rec.headcount
        /\ staken = <<>> => Has(SNTL_FLAG_AQ_FAULT)
        /\ Has(SNTL_FLAG_AQ_FAULT) =>
              staken = <<>> \/ status \intersect {"FAN", "LASER"} # {}

\* However long appends and polls take, and however often the loop falls
\* behind, it loses no second: whenever it has caught up, there are as many
\* records as whole periods have passed since it began, to the poll.
NoDrift ==
    npc = "sleep" /\ clock < next_tick =>
        STORE_PERIOD_S * flushes + sec = 1 + (clock - began) \div MS_PER_S

Wide(b, i)    == b[i] + Byte * b[i + 1]
Signed2(b, i) == IF b[i + 1] >= 128 THEN Wide(b, i) - Byte * Byte ELSE Wide(b, i)

\* What a central makes of the 24 bytes of a record.
Decoded(b) ==
    [seq |-> FromLe(SubSeq(b, 1, 4)), ts |-> FromLe(SubSeq(b, 5, 8)),
     headcount |-> b[9], occ_s |-> b[10], dwell_s |-> Wide(b, 11),
     flags |-> b[13], batt |-> b[14], pm25 |-> Wide(b, 15), pm10 |-> Wide(b, 17),
     temp |-> Signed2(b, 19), rh |-> Signed2(b, 21), voc |-> Signed2(b, 23)]

\* Little endian, and signed fields in two's complement: whatever a window
\* ends with, temperatures below zero and "unknown" included, a central that
\* decodes the bytes gets back the record that was encoded.
WireRoundTrip ==
    npc = "append" =>
        \A at \in Stamps :
            LET whole == [rec EXCEPT !.seq = at.seq, !.ts = at.ts]
                b     == sntl_encode_record(whole)
            IN  Len(b) = SNTL_RECORD_SIZE /\ Decoded(b) = whole
=============================================================================
