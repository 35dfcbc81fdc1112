------------------------------- MODULE Sen5x -------------------------------
(***************************************************************************)
(* The SEN5x air quality sensor, src/sen5x.c: polled once a second and     *)
(* taken once per record, both from the main loop.  The device on the bus  *)
(* is the environment: it may fail a transfer at any time, have no value   *)
(* for a channel, and lose its fan or laser, which latches in its status   *)
(* register.  Module Node composes it with the main loop.                  *)
(***************************************************************************)
EXTENDS Integers, Sequences, FiniteSetsExt

CONSTANTS
    Word,           \* 2^16: a word on the bus
    Samples,        \* measurements: a word for each channel
    StatusBits,     \* status register bits that may be set
    BusFaults       \* transfers that may fail: "start", "measured", "status"

Channels == {"pm25", "pm10", "rh", "temp", "voc"}

ASSUME SenAssumption ==
    /\ Word \in Nat /\ Word > 3 /\ Word % 2 = 0
    /\ \A s \in Samples : \A c \in Channels : s[c] \in 0 .. Word - 1
    /\ StatusBits \subseteq {"FAN", "LASER", "SPEED"}
    /\ BusFaults \subseteq {"start", "measured", "status"}

NO_VALUE        == Word - 1             \* 0xFFFF from the sensor
SEN5X_UNKNOWN_U == Word - 1             \* UINT16_MAX
SEN5X_UNKNOWN_S == Word \div 2 - 1      \* INT16_MAX

VARIABLES
    running,        \* Measurement-Mode was entered
    acc,            \* the window so far
    status,         \* the device: bits set in its status register
    aq,             \* window_flush's copy of the window, <<>> outside of it
    slog,           \* history: the good samples of the current window
    staken          \* history: those of the window in aq

senVars == <<running, acc, status, aq, slog, staken>>

AccReset == [pm25 |-> SEN5X_UNKNOWN_U, pm10 |-> SEN5X_UNKNOWN_U,
             temp |-> SEN5X_UNKNOWN_S, rh |-> SEN5X_UNKNOWN_S,
             voc |-> SEN5X_UNKNOWN_S, alive |-> FALSE]

SenInit ==
    /\ running = FALSE
    /\ acc = AccReset
    /\ status = {}
    /\ aq = <<>> /\ slog = <<>> /\ staken = <<>>
-----------------------------------------------------------------------------
\* The outcomes of a transfer: it is not acknowledged, or some word of the
\* answer does not match its CRC-8, or all of it is good.
read_words(cmd) == {TRUE} \union {cmd \notin BusFaults}

\* Probe the bus and start measuring.  A failure is final: nothing calls
\* sen5x_start again.
sen5x_start ==
    /\ acc' = AccReset
    /\ \E ok \in read_words("start") : running' = ok
    /\ UNCHANGED <<status, aq, slog, staken>>

\* Defect: a signed channel is stored as it came off the bus.
Bug_Unsigned(w) == w

\* (int16_t)w, and C's division, which rounds towards zero.
Signed(w) == IF w < Word \div 2 THEN w ELSE w - Word
Half(x)   == IF x >= 0 THEN x \div 2 ELSE -((-x) \div 2)

\* Defect: "no value" is taken for a very high reading.
Bug_PeakUnknown(now, w) ==
    IF now = SEN5X_UNKNOWN_U \/ w > now THEN w ELSE now

Peak(now, w) ==
    IF w # NO_VALUE /\ (now = SEN5X_UNKNOWN_U \/ w > now) THEN w ELSE now

Last(now, w, x) == IF w # NO_VALUE THEN x ELSE now

\* Defect: temperature is folded in without looking for "no value".
Bug_FoldedBlindly(s) ==
    [pm25  |-> Peak(acc.pm25, s.pm25),
     pm10  |-> Peak(acc.pm10, s.pm10),
     rh    |-> Last(acc.rh, s.rh, Signed(s.rh)),
     temp  |-> Half(Signed(s.temp)),
     voc   |-> Last(acc.voc, s.voc, Signed(s.voc)),
     alive |-> TRUE]

Folded(s) ==
    [pm25  |-> Peak(acc.pm25, s.pm25),
     pm10  |-> Peak(acc.pm10, s.pm10),
     rh    |-> Last(acc.rh, s.rh, Signed(s.rh)),
     temp  |-> Last(acc.temp, s.temp, Half(Signed(s.temp))),
     voc   |-> Last(acc.voc, s.voc, Signed(s.voc)),
     alive |-> TRUE]

\* A poll reads one of readings.  One that fails, or finds
\* nothing running, changes nothing.
sen5x_poll(readings) ==
    \/ /\ running
       /\ \E s \in readings : acc' = Folded(s) /\ slog' = Append(slog, s)
       /\ UNCHANGED <<running, status, aq, staken>>
    \/ /\ running => FALSE \in read_words("measured")
       /\ UNCHANGED senVars

TookAir(alive) ==
    /\ aq' = <<[acc EXCEPT !.alive = alive]>>
    /\ acc' = AccReset
    /\ slog' = <<>> /\ staken' = slog
    /\ UNCHANGED <<running, status>>

\* With one of these no air is sampled.
STATUS_FATAL == {"FAN", "LASER"}

fatal == status \intersect STATUS_FATAL # {}

\* Defect: the status register is never asked.
Bug_TakeTrusting == TookAir(acc.alive)

\* The status register is asked, only if there is something to vouch for.
sen5x_window_take ==
    \E ok \in read_words("status") : TookAir(acc.alive /\ ~(ok /\ fatal))

\* window_flush is done with its copy.
AirDone ==
    /\ aq' = <<>> /\ staken' = <<>>
    /\ UNCHANGED <<running, acc, status, slog>>

\* FAN and LASER latch, SPEED clears itself once the fan is at speed.
StatusChanges(bits) ==
    /\ \/ \E b \in bits \ status : status' = status \union {b}
       \/ "SPEED" \in status /\ status' = status \ {"SPEED"}
    /\ UNCHANGED <<running, acc, aq, slog, staken>>
-----------------------------------------------------------------------------
(* Properties *)

SField == -(Word \div 2) .. Word \div 2 - 1

AirWindow == [pm25 : 0 .. Word - 1, pm10 : 0 .. Word - 1,
              temp : SField, rh : SField, voc : SField, alive : BOOLEAN]

\* The accumulators hold values of their C types.
SenTypeOK ==
    /\ running \in BOOLEAN
    /\ status \subseteq StatusBits
    /\ acc \in AirWindow
    /\ aq # <<>> => aq[1] \in AirWindow

Good(c) == {i \in 1 .. Len(staken) : staken[i][c] # NO_VALUE}

\* PM is the peak of exactly this window's samples: a dust event is neither
\* lost nor carried into the next record, and a window without a reading says
\* "unknown" instead of clean air.
PeakOfWindow ==
    aq # <<>> =>
        \A c \in {"pm25", "pm10"} :
            aq[1][c] = IF Good(c) = {} THEN SEN5X_UNKNOWN_U
                       ELSE Max({staken[i][c] : i \in Good(c)})

\* A temperature reads "unknown" just when the window had no good sample, and
\* is otherwise within half a unit of the last one, below zero too.
TempOfWindow ==
    aq # <<>> =>
        IF Good("temp") = {} THEN aq[1].temp = SEN5X_UNKNOWN_S
        ELSE LET s == Signed(staken[Max(Good("temp"))].temp)
             IN  /\ aq[1].temp # SEN5X_UNKNOWN_S
                 /\ s - 2 * aq[1].temp \in {-1, 0, 1}
                 /\ s < 0 => aq[1].temp <= 0

\* "no air is being sampled - which reads as clean air, the one failure this
\* must never report silently": no window is vouched for over a dead fan.
FaultNeverSilent ==
    [][aq = <<>> /\ aq' # <<>> /\ aq'[1].alive =>
          status \intersect {"FAN", "LASER"} = {}]_senVars
=============================================================================
