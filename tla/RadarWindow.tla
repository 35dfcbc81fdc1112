---------------------------- MODULE RadarWindow ----------------------------
(***************************************************************************)
(* The occupancy accumulators of src/radar.c.  The radar thread folds each *)
(* frame in (on_frame), the main loop takes the window for its next record *)
(* (radar_window_take); acc_lock makes each of them one step.  Time goes   *)
(* on between them, and frames may stop coming.  Module Node composes it   *)
(* with the main loop.                                                     *)
(***************************************************************************)
EXTENDS Naturals, Sequences, FiniteSetsExt

CONSTANTS
    STORE_PERIOD_S,     \* seconds in a window, one byte
    MS_PER_S,           \* clock ticks in a second
    U16_MAX,            \* the largest uint16_t: frames, occ_frames, dwell_s
    RADAR_MAX_TARGETS,  \* room for targets, below 256
    TARGET_3D_SIZE, TARGET_2D_SIZE,
    ListLens,           \* payload lengths of TARGET_LIST that may arrive
    Presences,          \* payloads of ENHANCED_PRESENCE that may arrive
    MaxFrames,          \* bound: frames in a window
    MaxClock            \* bound: clock

\* A frame every 250 ms makes 120 of them in a window of 30 s: the main loop
\* would have to be four and a half hours late for 65536.
ASSUME WindowAssumption ==
    /\ STORE_PERIOD_S \in 1 .. 255
    /\ MS_PER_S \in Nat \ {0}
    /\ U16_MAX \in Nat
    /\ RADAR_MAX_TARGETS \in 1 .. 255
    /\ TARGET_3D_SIZE \in Nat \ {0} /\ TARGET_2D_SIZE \in Nat \ {0}
    /\ ListLens \subseteq Nat
    /\ \A p \in Presences : p \in Seq(0 .. 255)
    /\ MaxFrames \in 0 .. U16_MAX /\ MaxClock \in Nat

VARIABLES
    max_count, frames, occ_frames, any_tracker,
    occ_since,      \* clock at which the current occupancy began, 0 = empty
    clock,          \* k_uptime_get(); past 0 before the first frame
    w,              \* window_flush's copy of the window, <<>> outside of it
    rlog            \* history: frames and takes, in order

occ     == <<max_count, frames, occ_frames, any_tracker, occ_since>>
winVars == <<occ, clock, w, rlog>>

WinInit ==
    /\ max_count = 0 /\ frames = 0 /\ occ_frames = 0
    /\ any_tracker = FALSE /\ occ_since = 0
    /\ clock = 1
    /\ w = <<>>
    /\ rlog = <<>>
-----------------------------------------------------------------------------
(* What a frame says *)

Least(a, b) == IF a < b THEN a ELSE b

\* Defect: more targets are counted than there is room for.
Bug_TargetsUncapped(len) ==
    LET size == IF len % TARGET_3D_SIZE = 0 THEN TARGET_3D_SIZE ELSE TARGET_2D_SIZE
    IN  IF len % size = 0 THEN len \div size ELSE 0

\* Targets in a TARGET_LIST of len bytes: of the struct whose size divides
\* the length, 3D first; none if neither does.
tlv_targets(len) ==
    LET size == IF len % TARGET_3D_SIZE = 0 THEN TARGET_3D_SIZE ELSE TARGET_2D_SIZE
    IN  IF len % size = 0 THEN Least(len \div size, RADAR_MAX_TARGETS) ELSE 0

MAX_ZONES == 8      \* sizeof(zones) in on_frame

\* Two bits of state for each zone, from the low end of the second byte up;
\* a zone the payload has no byte for is empty.
tlv_presence(p) ==
    LET n == IF Len(p) < 2 THEN 0 ELSE Least(p[1], MAX_ZONES)
    IN  [z \in 0 .. n - 1 |->
            IF 1 + z \div 4 < Len(p)
            THEN (p[2 + z \div 4] \div 4 ^ (z % 4)) % 4 ELSE 0]

\* A floor, not a count: 1 if there is something in some zone.
FromZones(p) ==
    IF \E z \in DOMAIN tlv_presence(p) : tlv_presence(p)[z] # 0 THEN 1 ELSE 0

\* A target list, or else presence zones; the last is a frame with neither.
FrameKinds ==
    {[tracker |-> TRUE, n |-> tlv_targets(len)] : len \in ListLens}
        \union {[tracker |-> FALSE, n |-> FromZones(p)] : p \in Presences}
        \union {[tracker |-> FALSE, n |-> 0]}
-----------------------------------------------------------------------------
(* The accumulators *)

\* ++ on a uint16_t.
Incremented(n) == (n + 1) % (U16_MAX + 1)

on_frame(f) ==
    /\ frames' = Incremented(frames)
    /\ any_tracker' = (any_tracker \/ f.tracker)
    /\ IF f.n > 0
       THEN /\ occ_frames' = Incremented(occ_frames)
            /\ max_count' = IF f.n > max_count THEN f.n ELSE max_count
            /\ occ_since' = IF occ_since = 0 THEN clock ELSE occ_since
       ELSE occ_since' = 0 /\ UNCHANGED <<occ_frames, max_count>>
    /\ rlog' = Append(rlog, [take |-> FALSE, at |-> clock, f |-> f])
    /\ UNCHANGED <<clock, w>>

Dwell(since) ==
    LET held == IF since = 0 THEN 0 ELSE (clock - since) \div MS_PER_S
    IN  IF held > U16_MAX THEN U16_MAX ELSE held

\* The window is copied out and the accumulators start again, but for
\* occ_since, which is now since, and max_count.
Took(since) ==
    /\ w' = <<[alive |-> frames > 0, tracker |-> any_tracker,
               headcount |-> max_count,
               occ_s |-> IF frames = 0 THEN 0
                         ELSE (occ_frames * STORE_PERIOD_S) \div frames,
               dwell_s |-> Dwell(since)]>>
    /\ occ_since' = since
    /\ frames' = 0 /\ occ_frames' = 0 /\ any_tracker' = FALSE
    /\ rlog' = Append(rlog, [take |-> TRUE, at |-> clock])
    /\ UNCHANGED clock

\* Defect: a dead stream leaves the occupancy clock running.
Bug_TakeKeepsClock == Took(occ_since) /\ max_count' = 0

\* Defect: the headcount of one window leaks into the next.
Bug_TakeKeepsCount ==
    Took(IF frames = 0 THEN 0 ELSE occ_since) /\ UNCHANGED max_count

\* A window without frames stops the occupancy clock; otherwise it runs on
\* across the boundary.
radar_window_take ==
    /\ Took(IF frames = 0 THEN 0 ELSE occ_since)
    /\ max_count' = 0

Tick ==
    /\ clock < MaxClock
    /\ clock' = clock + 1
    /\ UNCHANGED <<occ, w, rlog>>
-----------------------------------------------------------------------------
(* What a window should say, read off the history alone.                   *)

LastTake == Max({i \in 1 .. Len(rlog) : rlog[i].take} \union {0})

\* The frames of the window that the take at event k closes.
FramesOf(k) ==
    {i \in 1 .. k - 1 : \A j \in i .. k - 1 : ~rlog[j].take}

Occupied(i) == ~rlog[i].take /\ rlog[i].f.n > 0
Empty(i)    == ~rlog[i].take /\ rlog[i].f.n = 0
Dead(i)     == rlog[i].take /\ FramesOf(i) = {}

\* The occupied frames that an unbroken occupancy at event k consists of.
RunUpTo(k) ==
    {i \in 1 .. k : Occupied(i) /\ \A j \in i .. k : ~Empty(j) /\ ~Dead(j)}

\* What later windows can refer to: the events since the last take, and the
\* first frame of an occupancy that began before it.
Relevant ==
    LET first == Min(RunUpTo(Len(rlog)) \union {LastTake})
    IN  (IF first < LastTake THEN <<rlog[first]>> ELSE <<>>)
            \o <<[rlog[LastTake] EXCEPT !.at = 0]>>
            \o SubSeq(rlog, LastTake + 1, Len(rlog))

\* window_flush is done with its copy.
WindowDone ==
    /\ w' = <<>>
    /\ rlog' = Relevant
    /\ UNCHANGED <<occ, clock>>
-----------------------------------------------------------------------------
(* Properties *)

\* The accumulators fit their C types, the two counters of frames have not
\* wrapped against each other, and the seconds of a window that were occupied
\* fit the window.
WinTypeOK ==
    /\ max_count \in 0 .. RADAR_MAX_TARGETS
    /\ frames \in 0 .. U16_MAX /\ occ_frames \in 0 .. frames
    /\ any_tracker \in BOOLEAN
    /\ occ_since \in 0 .. clock /\ clock \in Nat
    /\ w # <<>> => w[1] \in [alive : BOOLEAN, tracker : BOOLEAN,
                             headcount : 0 .. RADAR_MAX_TARGETS,
                             occ_s : 0 .. STORE_PERIOD_S,
                             dwell_s : 0 .. U16_MAX]

\* headcount is the most that one frame of exactly this window showed, and 0
\* when the radar was silent; nothing leaks in from the window before.
HeadcountOfWindow ==
    w # <<>> =>
        LET of == FramesOf(LastTake)
        IN  /\ w[1].alive <=> of # {}
            /\ w[1].headcount = Max({rlog[i].f.n : i \in of} \union {0})

\* dwell_s is the age of an occupancy that no empty frame and no window
\* without frames has broken, counted from its first frame, however many
\* windows ago that was.
DwellUnbroken ==
    w # <<>> =>
        LET run == RunUpTo(LastTake)
            age == IF run = {} THEN 0
                   ELSE (rlog[LastTake].at - rlog[Min(run)].at) \div MS_PER_S
        IN  w[1].dwell_s = Min({age, U16_MAX})
=============================================================================
