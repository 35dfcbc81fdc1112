---------------------------- MODULE NodeProofs ----------------------------
(***************************************************************************)
(* The main loop and its two sensors, for every period, clock rate, frame, *)
(* sample and status, any number of samples and as many frames in a window *)
(* as its counters hold.                                                   *)
(***************************************************************************)
EXTENDS Node, SequenceTheorems, TLAPS

\* Division, as the provers need it.
LEMMA Quotient ==
    ASSUME NEW a \in Int, NEW c \in Nat \ {0}
    PROVE  /\ a = c * (a \div c) + (a % c)
           /\ a \div c \in Int
           /\ a % c \in 0 .. c - 1
           /\ a >= 0 => a \div c \in Nat
    OBVIOUS

LEMMA QuotientIs ==
    ASSUME NEW a \in Int, NEW c \in Nat \ {0}, NEW k \in Int,
           c * k <= a, a < c * k + c
    PROVE  a \div c = k
    OBVIOUS

LEMMA Small ==
    ASSUME NEW m \in Nat, NEW a \in 0 .. m
    PROVE  a % (m + 1) = a
    OBVIOUS

LEMMA MaxIs ==
    ASSUME NEW S \in SUBSET Int, NEW m \in S, \A x \in S : x <= m
    PROVE  Max(S) = m
<1>1. m >= m /\ \A y \in S : m >= y
    OBVIOUS
<1>2. Max(S) \in S /\ \A y \in S : Max(S) >= y
    BY <1>1, Zenon DEF Max
<1>3. Max(S) \in Int /\ m \in Int
    BY <1>2
<1>4. Max(S) >= m /\ Max(S) <= m
    BY <1>2
<1> QED
    BY <1>3, <1>4

LEMMA MinIs ==
    ASSUME NEW S \in SUBSET Int, NEW m \in S, \A x \in S : m <= x
    PROVE  Min(S) = m
<1>1. Min(S) \in S /\ \A y \in S : Min(S) <= y
    BY Zenon DEF Min
<1>2. Min(S) \in Int /\ m \in Int
    BY <1>1
<1>3. Min(S) <= m /\ m <= Min(S)
    BY <1>1
<1> QED
    BY <1>2, <1>3
-----------------------------------------------------------------------------
(* The cadence *)

\* Polls that are done: of those since the last record, sec; of the record
\* that is being made, all.
Polls ==
    IF npc \in {"radar", "air", "append"} THEN STORE_PERIOD_S * (flushes + 1)
    ELSE STORE_PERIOD_S * flushes + sec

\* next_tick is always a whole number of seconds after the loop began, one
\* for each poll, and the clock is at most a second short of it.
CadenceInv ==
    /\ npc \in {"start", "poll", "radar", "air", "append", "sleep"}
    /\ clock \in Nat /\ next_tick \in Nat /\ began \in Nat /\ sec \in Nat /\ flushes \in Nat
    /\ npc \in {"radar", "air", "append"} => sec = 0
    /\ npc = "start" => sec = 0 /\ flushes = 0
    /\ npc = "poll" => next_tick = began + MS_PER_S * (Polls + 1)
    /\ npc \in {"radar", "air", "append", "sleep"} => next_tick = began + MS_PER_S * Polls
    /\ npc # "start" => clock >= next_tick - MS_PER_S
    /\ sec < STORE_PERIOD_S

LEMMA CadenceInit == NodeInit => CadenceInv
    BY WindowAssumption DEF NodeInit, WinInit, SenInit, CadenceInv

LEMMA CadenceStep == CadenceInv /\ [NodeNext]_nodeVars => CadenceInv'
<1> SUFFICES ASSUME CadenceInv, [NodeNext]_nodeVars PROVE CadenceInv'
    OBVIOUS
<1>0. STORE_PERIOD_S \in Nat /\ STORE_PERIOD_S >= 1 /\ MS_PER_S \in Nat /\ MS_PER_S >= 1
    BY WindowAssumption
<1>1. Polls \in Nat
    BY <1>0 DEF Polls, CadenceInv
<1>2. CASE UNCHANGED <<npc, sec, next_tick, flushes, began>> /\ clock' \in {clock, clock + 1}
    <2>1. Polls' = Polls
        BY <1>2 DEF Polls
    <2> QED
        BY <1>0, <1>2, <2>1 DEF CadenceInv
<1>3. CASE Start
    <2>1. /\ npc = "start" /\ npc' = "poll" /\ next_tick' = clock + MS_PER_S /\ began' = clock
          /\ clock' = clock /\ sec' = sec /\ flushes' = flushes
        BY <1>3 DEF Start, At, winVars
    <2>2. Polls' = 0
        BY <1>0, <2>1 DEF Polls, CadenceInv
    <2> QED
        BY <1>0, <2>1, <2>2 DEF CadenceInv
<1>4. CASE Poll
    <2>1. /\ npc = "poll" /\ clock' = clock /\ next_tick' = next_tick /\ began' = began
          /\ flushes' = flushes
          /\ IF sec + 1 >= STORE_PERIOD_S THEN sec' = 0 /\ npc' = "radar"
             ELSE sec' = sec + 1 /\ npc' = "sleep"
        BY <1>4 DEF Poll, winVars
    <2>2. Polls' = Polls + 1
        <3>1. CASE sec + 1 >= STORE_PERIOD_S
            <4>1. sec + 1 = STORE_PERIOD_S
                BY <1>0, <3>1 DEF CadenceInv
            <4>2. Polls' = STORE_PERIOD_S * (flushes + 1)
                BY <2>1, <3>1 DEF Polls
            <4>3. Polls = STORE_PERIOD_S * flushes + sec
                BY <2>1 DEF Polls
            <4> QED
                BY <1>0, <4>1, <4>2, <4>3 DEF CadenceInv
        <3>2. CASE ~(sec + 1 >= STORE_PERIOD_S)
            BY <1>0, <2>1, <3>2 DEF Polls, CadenceInv
        <3> QED
            BY <3>1, <3>2
    <2> QED
        BY <1>0, <1>1, <2>1, <2>2 DEF CadenceInv
<1>5. CASE TakeRadar \/ TakeAir
    <2>1. /\ \/ npc = "radar" /\ npc' = "air"
             \/ npc = "air" /\ npc' = "append"
          /\ clock' = clock /\ UNCHANGED <<sec, next_tick, flushes, began>>
        BY <1>5 DEF TakeRadar, TakeAir, At, radar_window_take, Took, winVars
    <2>2. Polls' = Polls
        BY <2>1 DEF Polls
    <2> QED
        BY <1>0, <2>1, <2>2 DEF CadenceInv
<1>6. CASE AppendReturns
    <2>1. /\ npc = "append" /\ npc' = "sleep" /\ flushes' = flushes + 1
          /\ clock' = clock /\ UNCHANGED <<sec, next_tick, began>>
        BY <1>6 DEF AppendReturns, At, WindowDone
    <2>2. Polls' = Polls
        BY <1>0, <2>1 DEF Polls, CadenceInv
    <2> QED
        BY <1>0, <2>1, <2>2 DEF CadenceInv
<1>7. CASE Wake
    <2>1. /\ npc = "sleep" /\ npc' = "poll" /\ clock >= next_tick
          /\ next_tick' = next_tick + MS_PER_S
          /\ clock' = clock /\ UNCHANGED <<sec, flushes, began>>
        BY <1>7 DEF Wake, At, winVars
    <2>2. Polls' = Polls
        BY <2>1 DEF Polls
    <2> QED
        BY <1>0, <1>1, <2>1, <2>2 DEF CadenceInv
<1>8. CASE RadarThread \/ Time \/ Device \/ UNCHANGED nodeVars
    <2>1. UNCHANGED <<npc, sec, next_tick, flushes, began>> /\ clock' \in {clock, clock + 1}
        BY <1>8 DEF RadarThread, Time, Device, on_frame, Tick, nodeVars, winVars, loop
    <2> QED
        BY <1>2, <2>1
<1> QED
    BY <1>3, <1>4, <1>5, <1>6, <1>7, <1>8 DEF NodeNext, MainLoop

\* The main loop counts no second twice and loses none, however long a poll
\* or an append takes and however often next_tick has passed before it
\* sleeps: for every period and clock rate, whenever it has caught up there
\* are as many records as whole periods have passed, to the poll.
THEOREM NoDriftAlways == NodeSpec => []NoDrift
<1>1. CadenceInv => NoDrift
    <2> SUFFICES ASSUME CadenceInv, npc = "sleep", clock < next_tick
                 PROVE  STORE_PERIOD_S * flushes + sec = 1 + (clock - began) \div MS_PER_S
        BY DEF NoDrift
    <2>0. STORE_PERIOD_S \in Nat /\ MS_PER_S \in Nat \ {0}
        BY WindowAssumption
    <2>1. Polls = STORE_PERIOD_S * flushes + sec /\ Polls \in Nat
        BY <2>0 DEF Polls, CadenceInv
    <2>2. clock \in Nat /\ began \in Nat /\ next_tick = began + MS_PER_S * Polls
          /\ clock >= next_tick - MS_PER_S
        BY DEF CadenceInv
    <2>3. MS_PER_S * (Polls - 1) <= clock - began
          /\ clock - began < MS_PER_S * (Polls - 1) + MS_PER_S
          /\ Polls - 1 \in Int /\ clock - began \in Int
        BY <2>0, <2>1, <2>2
    <2>4. (clock - began) \div MS_PER_S = Polls - 1
        BY <2>0, <2>3, QuotientIs
    <2> QED
        BY <2>1, <2>4
<1> QED
    BY <1>1, CadenceInit, CadenceStep, PTL DEF NodeSpec
-----------------------------------------------------------------------------
(* The air quality window *)

\* x is the peak of channel c over the samples of log.
PeakIs(x, log, c) ==
    /\ \A i \in 1 .. Len(log) : log[i][c] # NO_VALUE => log[i][c] <= x
    /\ \/ x = SEN5X_UNKNOWN_U /\ \A i \in 1 .. Len(log) : log[i][c] = NO_VALUE
       \/ \E i \in 1 .. Len(log) : log[i][c] # NO_VALUE /\ log[i][c] = x

\* x is the temperature of the last sample of log that has one.
TempIs(x, log) ==
    \/ x = SEN5X_UNKNOWN_S /\ \A i \in 1 .. Len(log) : log[i].temp = NO_VALUE
    \/ \E i \in 1 .. Len(log) :
          /\ log[i].temp # NO_VALUE /\ x = Half(Signed(log[i].temp))
          /\ \A j \in i + 1 .. Len(log) : log[j].temp = NO_VALUE

\* What a window says of the samples it was made from.
AirOf(a, log) ==
    /\ PeakIs(a.pm25, log, "pm25") /\ PeakIs(a.pm10, log, "pm10") /\ TempIs(a.temp, log)

AirInv ==
    /\ SenTypeOK /\ scene \in Scenes
    /\ slog \in Seq(Samples) /\ staken \in Seq(Samples)
    /\ AirOf(acc, slog)
    /\ acc.alive <=> slog # <<>>
    /\ aq # <<>> =>
          /\ AirOf(aq[1], staken)
          /\ aq[1].alive => staken # <<>>
          /\ npc = "append"
          /\ ~aq[1].alive => staken = <<>> \/ fatal
    /\ npc = "append" => aq # <<>>
    /\ npc = "start" => slog = <<>>

LEMMA WordHalves ==
    /\ Word \in Nat /\ Word \div 2 \in Nat /\ Word = 2 * (Word \div 2) /\ Word \div 2 >= 2
    /\ NO_VALUE = Word - 1 /\ SEN5X_UNKNOWN_U = Word - 1 /\ SEN5X_UNKNOWN_S = Word \div 2 - 1
<1>1. Word \in Nat /\ Word > 3 /\ Word % 2 = 0
    BY SenAssumption
<1> QED
    BY <1>1 DEF NO_VALUE, SEN5X_UNKNOWN_U, SEN5X_UNKNOWN_S

LEMMA SampleTypes ==
    ASSUME NEW t \in Samples
    PROVE  /\ \A c \in Channels : t[c] \in 0 .. Word - 1
           /\ t.pm25 \in 0 .. Word - 1 /\ t.pm10 \in 0 .. Word - 1
           /\ t.temp \in 0 .. Word - 1 /\ t.rh \in 0 .. Word - 1 /\ t.voc \in 0 .. Word - 1
    BY SenAssumption DEF Channels

\* Halving a signed word: never "unknown", off by less than one, and never
\* across zero.
LEMMA Halved ==
    ASSUME NEW u \in 0 .. Word - 1
    PROVE  /\ Signed(u) \in SField /\ Half(Signed(u)) \in SField
           /\ Half(Signed(u)) # SEN5X_UNKNOWN_S
           /\ Signed(u) - 2 * Half(Signed(u)) \in {-1, 0, 1}
           /\ Signed(u) < 0 => Half(Signed(u)) <= 0
<1> DEFINE H == Word \div 2
           x == Signed(u)
           h == Half(x)
<1>1. H \in Nat /\ Word = 2 * H /\ H >= 2 /\ SEN5X_UNKNOWN_S = H - 1 /\ SField = -H .. H - 1
    BY WordHalves DEF SField
<1> HIDE DEF H
<1>2. x \in -H .. H - 1 /\ x \in Int
    BY <1>1 DEF Signed, H
<1> HIDE DEF x
<1>3. CASE x >= 0
    <2>1. h = x \div 2
        BY <1>3 DEF Half
    <2>2. x = 2 * h \/ x = 2 * h + 1
        BY <1>2, <2>1
    <2>3. h \in Int
        BY <1>2, <2>1
    <2> HIDE DEF h
    <2>4. h >= 0 /\ h < H - 1 /\ x - 2 * h \in {-1, 0, 1}
        BY <1>1, <1>2, <1>3, <2>2, <2>3
    <2> QED
        BY <1>1, <1>2, <1>3, <2>3, <2>4 DEF x, h
<1>4. CASE x < 0
    <2> DEFINE g == (-x) \div 2
    <2>1. h = -g
        BY <1>2, <1>4 DEF Half
    <2>2. g \in Int /\ (-x = 2 * g \/ -x = 2 * g + 1)
        BY <1>2
    <2> HIDE DEF g, h
    <2>3. g >= 0 /\ g <= H /\ x + 2 * g \in {-1, 0, 1}
        BY <1>1, <1>2, <1>4, <2>2
    <2>4. h \in Int /\ h <= 0 /\ h >= -H /\ x - 2 * h \in {-1, 0, 1}
        BY <1>1, <1>2, <2>1, <2>2, <2>3
    <2> QED
        BY <1>1, <1>2, <1>4, <2>4 DEF x, h
<1> QED
    BY <1>2, <1>3, <1>4

\* One sample more in the log.
LEMMA LogGrows ==
    ASSUME NEW log \in Seq(Samples), NEW t \in Samples
    PROVE  /\ Append(log, t) \in Seq(Samples) /\ Len(Append(log, t)) = Len(log) + 1
           /\ Len(log) \in Nat /\ Append(log, t)[Len(log) + 1] = t
           /\ \A i \in 1 .. Len(log) : Append(log, t)[i] = log[i] /\ log[i] \in Samples
           /\ Append(log, t) # <<>>
<1>1. /\ Append(log, t) \in Seq(Samples) /\ Len(Append(log, t)) = Len(log) + 1
      /\ Len(log) \in Nat /\ Append(log, t)[Len(log) + 1] = t
      /\ \A i \in 1 .. Len(log) : Append(log, t)[i] = log[i]
    BY AppendProperties, LenProperties
<1>2. \A i \in 1 .. Len(log) : log[i] \in Samples
    BY ElementOfSeq
<1>3. Append(log, t) # <<>>
    BY <1>1, EmptySeq
<1> QED
    BY <1>1, <1>2, <1>3

LEMMA PeakFold ==
    ASSUME NEW log \in Seq(Samples), NEW t \in Samples, NEW c \in Channels,
           NEW x \in 0 .. Word - 1, PeakIs(x, log, c)
    PROVE  /\ Peak(x, t[c]) \in 0 .. Word - 1
           /\ PeakIs(Peak(x, t[c]), Append(log, t), c)
<1> DEFINE u == t[c]
           y == Peak(x, u)
           more == Append(log, t)
           N == Len(log)
<1>1. /\ Word \in Nat /\ NO_VALUE = Word - 1 /\ SEN5X_UNKNOWN_U = Word - 1
      /\ u \in 0 .. Word - 1
    BY WordHalves, SampleTypes
<1>2. /\ Len(more) = N + 1 /\ N \in Nat /\ more[N + 1] = t
      /\ \A i \in 1 .. N : more[i] = log[i] /\ log[i] \in Samples
    BY LogGrows
<1> HIDE DEF more, N
<1>3. \A i \in 1 .. N : log[i][c] \in 0 .. Word - 1
    BY <1>2, SampleTypes
<1>4. /\ \A i \in 1 .. N : log[i][c] # NO_VALUE => log[i][c] <= x
      /\ \/ x = SEN5X_UNKNOWN_U /\ \A i \in 1 .. N : log[i][c] = NO_VALUE
         \/ \E i \in 1 .. N : log[i][c] # NO_VALUE /\ log[i][c] = x
    BY DEF PeakIs, N
<1>5. \A i \in 1 .. N + 1 : i \in 1 .. N \/ i = N + 1
    BY <1>2
<1>6. N + 1 \in 1 .. N + 1 /\ \A i \in 1 .. N : i \in 1 .. N + 1
    BY <1>2
<1>7. CASE u # NO_VALUE /\ (x = SEN5X_UNKNOWN_U \/ u > x)
    <2>1. y = u
        BY <1>7 DEF Peak
    <2>2. \A i \in 1 .. N : log[i][c] # NO_VALUE => log[i][c] <= u
        BY <1>1, <1>3, <1>4, <1>7
    <2>3. \A i \in 1 .. N + 1 : more[i][c] # NO_VALUE => more[i][c] <= u
        BY <1>1, <1>2, <1>5, <2>2
    <2>4. \E i \in 1 .. N + 1 : more[i][c] # NO_VALUE /\ more[i][c] = u
        BY <1>2, <1>6, <1>7
    <2> QED
        BY <1>1, <1>2, <2>1, <2>3, <2>4 DEF PeakIs, more
<1>8. CASE ~(u # NO_VALUE /\ (x = SEN5X_UNKNOWN_U \/ u > x))
    <2>1. y = x
        BY <1>8 DEF Peak
    <2>2. u # NO_VALUE => u <= x
        BY <1>1, <1>8
    <2>3. \A i \in 1 .. N + 1 : more[i][c] # NO_VALUE => more[i][c] <= x
        BY <1>2, <1>4, <1>5, <2>2
    <2>4. CASE x = SEN5X_UNKNOWN_U /\ \A i \in 1 .. N : log[i][c] = NO_VALUE
        <3>1. \A i \in 1 .. N + 1 : more[i][c] = NO_VALUE
            BY <1>2, <1>5, <1>8, <2>4
        <3> QED
            BY <1>2, <2>1, <2>3, <2>4, <3>1 DEF PeakIs, more
    <2>5. CASE \E i \in 1 .. N : log[i][c] # NO_VALUE /\ log[i][c] = x
        <3>1. \E i \in 1 .. N + 1 : more[i][c] # NO_VALUE /\ more[i][c] = x
            BY <1>2, <1>6, <2>5
        <3> QED
            BY <1>2, <2>1, <2>3, <3>1 DEF PeakIs, more
    <2> QED
        BY <1>4, <2>4, <2>5
<1> QED
    BY <1>7, <1>8

LEMMA TempFold ==
    ASSUME NEW log \in Seq(Samples), NEW t \in Samples, NEW x \in SField, TempIs(x, log)
    PROVE  /\ Last(x, t.temp, Half(Signed(t.temp))) \in SField
           /\ TempIs(Last(x, t.temp, Half(Signed(t.temp))), Append(log, t))
<1> DEFINE y == Last(x, t.temp, Half(Signed(t.temp)))
           more == Append(log, t)
           N == Len(log)
<1>1. /\ Len(more) = N + 1 /\ N \in Nat /\ more[N + 1] = t
      /\ \A i \in 1 .. N : more[i] = log[i] /\ log[i] \in Samples
    BY LogGrows
<1>2. Half(Signed(t.temp)) \in SField
    BY SampleTypes, Halved
<1> HIDE DEF more, N
<1>3. \A i \in 1 .. N + 1 : i \in 1 .. N \/ i = N + 1
    BY <1>1
<1>4. N + 1 \in 1 .. N + 1 /\ \A i \in 1 .. N : i \in 1 .. N + 1
    BY <1>1
<1>5. CASE t.temp # NO_VALUE
    <2>1. y = Half(Signed(t.temp))
        BY <1>5 DEF Last
    <2>2. \A j \in (N + 1) + 1 .. N + 1 : more[j].temp = NO_VALUE
        BY <1>1
    <2> QED
        BY <1>1, <1>2, <1>4, <1>5, <2>1, <2>2 DEF TempIs, more
<1>6. CASE t.temp = NO_VALUE
    <2>1. y = x
        BY <1>6 DEF Last
    <2>2. CASE x = SEN5X_UNKNOWN_S /\ \A i \in 1 .. N : log[i].temp = NO_VALUE
        <3>1. \A i \in 1 .. N + 1 : more[i].temp = NO_VALUE
            BY <1>1, <1>3, <1>6, <2>2
        <3> QED
            BY <1>1, <2>1, <2>2, <3>1 DEF TempIs, more
    <2>3. CASE \E i \in 1 .. N :
                  /\ log[i].temp # NO_VALUE /\ x = Half(Signed(log[i].temp))
                  /\ \A j \in i + 1 .. N : log[j].temp = NO_VALUE
        <3>1. PICK i \in 1 .. N :
                 /\ log[i].temp # NO_VALUE /\ x = Half(Signed(log[i].temp))
                 /\ \A j \in i + 1 .. N : log[j].temp = NO_VALUE
            BY <2>3
        <3>2. \A j \in i + 1 .. N + 1 : j = N + 1 \/ (j \in i + 1 .. N /\ j \in 1 .. N)
            BY <1>1
        <3>3. \A j \in i + 1 .. N + 1 : more[j].temp = NO_VALUE
            BY <1>1, <1>6, <3>1, <3>2
        <3>4. more[i].temp # NO_VALUE /\ x = Half(Signed(more[i].temp))
            BY <1>1, <3>1
        <3> QED
            BY <1>1, <1>4, <2>1, <3>3, <3>4 DEF TempIs, more
    <2> QED
        BY <2>2, <2>3 DEF TempIs, N
<1> QED
    BY <1>5, <1>6

\* An empty window knows nothing.
LEMMA ResetIs == AccReset \in AirWindow /\ AirOf(AccReset, <<>>) /\ ~AccReset.alive
<1>1. /\ Word \in Nat /\ Word \div 2 \in Nat /\ Word \div 2 >= 2 /\ Word = 2 * (Word \div 2)
      /\ SEN5X_UNKNOWN_U = Word - 1 /\ SEN5X_UNKNOWN_S = Word \div 2 - 1
    BY WordHalves
<1>2. SEN5X_UNKNOWN_U \in 0 .. Word - 1 /\ SEN5X_UNKNOWN_S \in SField
    BY <1>1 DEF SField
<1>3. AccReset \in AirWindow
    BY <1>2 DEF AccReset, AirWindow
<1>4. /\ AccReset.pm25 = SEN5X_UNKNOWN_U /\ AccReset.pm10 = SEN5X_UNKNOWN_U
      /\ AccReset.temp = SEN5X_UNKNOWN_S /\ ~AccReset.alive
    BY DEF AccReset
<1>5. Len(<<>>) = 0 /\ 1 .. 0 = {}
    OBVIOUS
<1>6. PeakIs(SEN5X_UNKNOWN_U, <<>>, "pm25") /\ PeakIs(SEN5X_UNKNOWN_U, <<>>, "pm10")
      /\ TempIs(SEN5X_UNKNOWN_S, <<>>)
    BY <1>5 DEF PeakIs, TempIs
<1> QED
    BY <1>3, <1>4, <1>6 DEF AirOf

\* A good poll folds its sample in.
LEMMA FoldKeeps ==
    ASSUME acc \in AirWindow, slog \in Seq(Samples), AirOf(acc, slog), NEW t \in Samples
    PROVE  /\ Folded(t) \in AirWindow /\ AirOf(Folded(t), Append(slog, t))
           /\ Folded(t).alive
<1>1. /\ acc.pm25 \in 0 .. Word - 1 /\ acc.pm10 \in 0 .. Word - 1
      /\ acc.temp \in SField /\ acc.rh \in SField /\ acc.voc \in SField
    BY DEF AirWindow
<1>2. /\ Peak(acc.pm25, t["pm25"]) \in 0 .. Word - 1
      /\ PeakIs(Peak(acc.pm25, t["pm25"]), Append(slog, t), "pm25")
    BY <1>1, PeakFold DEF AirOf, Channels
<1>3. /\ Peak(acc.pm10, t["pm10"]) \in 0 .. Word - 1
      /\ PeakIs(Peak(acc.pm10, t["pm10"]), Append(slog, t), "pm10")
    BY <1>1, PeakFold DEF AirOf, Channels
<1>4. /\ Last(acc.temp, t.temp, Half(Signed(t.temp))) \in SField
      /\ TempIs(Last(acc.temp, t.temp, Half(Signed(t.temp))), Append(slog, t))
    BY <1>1, TempFold DEF AirOf
<1>5. Last(acc.rh, t.rh, Signed(t.rh)) \in SField /\ Last(acc.voc, t.voc, Signed(t.voc)) \in SField
    BY <1>1, SampleTypes, Halved DEF Last
<1>6. /\ Folded(t).pm25 = Peak(acc.pm25, t["pm25"]) /\ Folded(t).pm10 = Peak(acc.pm10, t["pm10"])
      /\ Folded(t).temp = Last(acc.temp, t.temp, Half(Signed(t.temp))) /\ Folded(t).alive
    BY DEF Folded
<1>7. Folded(t) \in AirWindow
    BY <1>2, <1>3, <1>4, <1>5 DEF Folded, AirWindow
<1> QED
    BY <1>2, <1>3, <1>4, <1>6, <1>7 DEF AirOf

LEMMA AirInit == NodeInit => AirInv
<1> SUFFICES ASSUME NodeInit PROVE AirInv
    OBVIOUS
<1>1. <<>> \in Seq(Samples) /\ {} \subseteq StatusBits
    OBVIOUS
<1> QED
    BY <1>1, ResetIs DEF NodeInit, SenInit, AirInv, SenTypeOK

\* One window of air goes to window_flush, the next begins empty.
LEMMA AirTaken ==
    ASSUME AirInv, TakeAir
    PROVE  AirInv'
<1>1. PICK ok \in read_words("status") : TookAir(acc.alive /\ ~(ok /\ fatal))
    BY DEF TakeAir, sen5x_window_take
<1> DEFINE alive == acc.alive /\ ~(ok /\ fatal)
           a == [acc EXCEPT !.alive = alive]
<1>2. ok \in BOOLEAN
    BY DEF read_words
<1>3. /\ npc = "air" /\ npc' = "append" /\ scene' = scene
      /\ aq' = <<a>> /\ acc' = AccReset /\ slog' = <<>> /\ staken' = slog
      /\ running' = running /\ status' = status
    BY <1>1 DEF TakeAir, At, TookAir
<1>4. alive \in BOOLEAN /\ (alive => acc.alive) /\ (~alive => ~acc.alive \/ fatal)
    BY <1>2 DEF AirInv, SenTypeOK, AirWindow, fatal
<1> HIDE DEF alive
<1>5. /\ a \in AirWindow /\ a.pm25 = acc.pm25 /\ a.pm10 = acc.pm10 /\ a.temp = acc.temp
      /\ a.alive = alive
    BY <1>4 DEF AirInv, SenTypeOK, AirWindow
<1> HIDE DEF a
<1>6. aq' # <<>> /\ aq'[1] = a
    BY <1>3
<1>7. AirOf(a, slog)
    BY <1>5 DEF AirInv, AirOf
<1>8. SenTypeOK'
    BY <1>3, <1>5, <1>6, ResetIs DEF AirInv, SenTypeOK
<1>9. fatal' = fatal
    BY <1>3 DEF fatal
<1>10. slog' \in Seq(Samples) /\ staken' \in Seq(Samples) /\ scene' \in Scenes
    BY <1>3 DEF AirInv
<1>11. AirOf(acc', slog') /\ ~acc'.alive /\ slog' = <<>>
    BY <1>3, ResetIs
<1>12. /\ AirOf(aq'[1], staken') /\ (aq'[1].alive => staken' # <<>>)
       /\ (~aq'[1].alive => staken' = <<>> \/ fatal')
    BY <1>3, <1>4, <1>5, <1>6, <1>7, <1>9 DEF AirInv
<1> QED
    BY <1>3, <1>6, <1>8, <1>10, <1>11, <1>12 DEF AirInv

LEMMA AirStep == AirInv /\ [NodeNext]_nodeVars => AirInv'
<1> SUFFICES ASSUME AirInv, [NodeNext]_nodeVars PROVE AirInv'
    OBVIOUS
<1> USE DEF senVars
<1>1. CASE /\ UNCHANGED <<senVars, scene>>
           /\ (npc # "append" /\ npc' \notin {"append", "start"}) \/ npc' = npc
    BY <1>1 DEF AirInv, SenTypeOK, fatal
<1>2. CASE Start
    <2>1. /\ npc' = "poll" /\ npc = "start" /\ acc' = AccReset /\ running' \in BOOLEAN
          /\ UNCHANGED <<status, aq, slog, staken, scene>>
        BY <1>2 DEF Start, At, sen5x_start, read_words
    <2>2. slog = <<>> /\ aq = <<>>
        BY <2>1 DEF AirInv
    <2>3. SenTypeOK'
        BY <2>1, <2>2, ResetIs DEF AirInv, SenTypeOK
    <2> QED
        BY <2>1, <2>2, <2>3, ResetIs DEF AirInv
<1>3. CASE Poll
    <2>1. npc = "poll" /\ npc' \in {"radar", "sleep"} /\ scene' = scene
          /\ sen5x_poll(scene.samples)
        BY <1>3 DEF Poll
    <2>2. CASE UNCHANGED senVars
        BY <1>1, <2>1, <2>2
    <2>3. CASE /\ \E t \in scene.samples : acc' = Folded(t) /\ slog' = Append(slog, t)
               /\ UNCHANGED <<running, status, aq, staken>>
        <3>1. scene.samples \subseteq Samples
            BY NodeAssumption DEF AirInv
        <3>2. PICK t \in Samples : acc' = Folded(t) /\ slog' = Append(slog, t)
            BY <2>3, <3>1
        <3>3. acc' \in AirWindow /\ AirOf(acc', slog') /\ acc'.alive
            BY <3>2, FoldKeeps DEF AirInv, SenTypeOK
        <3>4. slog' \in Seq(Samples) /\ slog' # <<>>
            BY <3>2, LogGrows DEF AirInv
        <3>5. aq = <<>>
            BY <2>1 DEF AirInv
        <3>6. SenTypeOK'
            BY <2>3, <3>3, <3>5 DEF AirInv, SenTypeOK
        <3> QED
            BY <2>1, <2>3, <3>3, <3>4, <3>5, <3>6 DEF AirInv
    <2> QED
        BY <2>1, <2>2, <2>3 DEF sen5x_poll
<1>4. CASE TakeRadar
    BY <1>1, <1>4 DEF TakeRadar, At
<1>5. CASE TakeAir
    BY <1>5, AirTaken
<1>6. CASE AppendReturns
    <2>1. /\ npc' = "sleep" /\ aq' = <<>> /\ staken' = <<>>
          /\ UNCHANGED <<running, acc, status, slog, scene>>
        BY <1>6 DEF AppendReturns, At, AirDone
    <2> QED
        BY <2>1 DEF AirInv, SenTypeOK
<1>7. CASE Wake
    BY <1>1, <1>7 DEF Wake, At
<1>8. CASE RadarThread \/ Time \/ UNCHANGED nodeVars
    BY <1>1, <1>8 DEF RadarThread, Time, nodeVars, loop
<1>9. CASE Device
    <2>1. /\ npc = "air" /\ npc' = npc /\ scene' = scene /\ UNCHANGED <<running, acc, aq, slog, staken>>
          /\ StatusChanges(scene.bits)
        BY <1>9 DEF Device, StatusChanges, loop
    <2>2. scene.bits \subseteq StatusBits
        BY NodeAssumption DEF AirInv
    <2>3. status' \subseteq StatusBits
        BY <2>1, <2>2 DEF StatusChanges, AirInv, SenTypeOK
    <2>4. aq = <<>>
        BY <2>1 DEF AirInv
    <2> QED
        BY <2>1, <2>3, <2>4 DEF AirInv, SenTypeOK
<1> QED
    BY <1>2, <1>3, <1>4, <1>5, <1>6, <1>7, <1>8, <1>9 DEF NodeNext, MainLoop

LEMMA AirAlways == NodeSpec => []AirInv
    BY AirInit, AirStep, PTL DEF NodeSpec

\* The accumulators of sen5x.c hold values of their C types, whatever words
\* come off the bus.
THEOREM SenTypeCorrect == NodeSpec => []SenTypeOK
<1>1. AirInv => SenTypeOK
    BY DEF AirInv
<1> QED
    BY <1>1, AirAlways, PTL

\* PM in a record is the peak of exactly the good samples that sen5x_poll
\* folded in since the record before, for any number of polls and any words
\* off the bus, and "unknown" when there was none.
THEOREM PeakOfWindowAlways == NodeSpec => []PeakOfWindow
<1>1. AirInv => PeakOfWindow
    <2> SUFFICES ASSUME AirInv, aq # <<>>, NEW c \in {"pm25", "pm10"}
                 PROVE  aq[1][c] = IF Good(c) = {} THEN SEN5X_UNKNOWN_U
                                   ELSE Max({staken[i][c] : i \in Good(c)})
        BY DEF PeakOfWindow
    <2> DEFINE x == aq[1][c]
               S == {staken[i][c] : i \in Good(c)}
    <2>1. PeakIs(x, staken, c) /\ c \in Channels
        BY DEF AirInv, AirOf, Channels
    <2>2. \A i \in Good(c) : i \in 1 .. Len(staken) /\ staken[i] \in Samples /\ staken[i][c] # NO_VALUE
        BY ElementOfSeq DEF Good, AirInv
    <2>3. S \subseteq Int
        BY <2>1, <2>2, SampleTypes
    <2>4. \A y \in S : y <= x
        BY <2>1, <2>2 DEF PeakIs
    <2>5. CASE Good(c) = {}
        BY <2>1, <2>5 DEF PeakIs, Good
    <2>6. CASE Good(c) # {}
        <3>1. x \in S
            BY <2>1, <2>6 DEF PeakIs, Good
        <3>2. Max(S) = x
            BY <2>3, <2>4, <3>1, MaxIs
        <3> QED
            BY <2>6, <3>2
    <2> QED
        BY <2>5, <2>6
<1> QED
    BY <1>1, AirAlways, PTL

\* A temperature in a record is the last good one of its window, halved the
\* way C divides: within half a unit, never across zero, and never the value
\* that stands for "unknown".
THEOREM TempOfWindowAlways == NodeSpec => []TempOfWindow
<1>1. AirInv => TempOfWindow
    <2> SUFFICES ASSUME AirInv, aq # <<>>
                 PROVE  IF Good("temp") = {} THEN aq[1].temp = SEN5X_UNKNOWN_S
                        ELSE LET z == Signed(staken[Max(Good("temp"))].temp)
                             IN  /\ aq[1].temp # SEN5X_UNKNOWN_S
                                 /\ z - 2 * aq[1].temp \in {-1, 0, 1}
                                 /\ z < 0 => aq[1].temp <= 0
        BY DEF TempOfWindow
    <2> DEFINE x == aq[1].temp
               N == Len(staken)
    <2>1. TempIs(x, staken) /\ N \in Nat
        BY LenProperties DEF AirInv, AirOf
    <2>2. CASE x = SEN5X_UNKNOWN_S /\ \A i \in 1 .. N : staken[i].temp = NO_VALUE
        <3>1. Good("temp") = {}
            BY <2>2 DEF Good
        <3> QED
            BY <2>2, <3>1
    <2>3. CASE \E i \in 1 .. N :
                  /\ staken[i].temp # NO_VALUE /\ x = Half(Signed(staken[i].temp))
                  /\ \A j \in i + 1 .. N : staken[j].temp = NO_VALUE
        <3>1. PICK i \in 1 .. N :
                 /\ staken[i].temp # NO_VALUE /\ x = Half(Signed(staken[i].temp))
                 /\ \A j \in i + 1 .. N : staken[j].temp = NO_VALUE
            BY <2>3
        <3>2. i \in Good("temp") /\ Good("temp") \subseteq Int
            BY <3>1 DEF Good
        <3>3. \A j \in Good("temp") : j <= i
            <4> SUFFICES ASSUME NEW j \in Good("temp"), ~(j <= i) PROVE FALSE
                OBVIOUS
            <4>1. j \in i + 1 .. N /\ staken[j].temp # NO_VALUE
                BY <2>1 DEF Good
            <4> QED
                BY <3>1, <4>1
        <3>4. Max(Good("temp")) = i
            BY <3>2, <3>3, MaxIs
        <3>5. staken[i].temp \in 0 .. Word - 1
            BY SampleTypes, ElementOfSeq DEF AirInv
        <3>6. /\ x # SEN5X_UNKNOWN_S /\ Signed(staken[i].temp) - 2 * x \in {-1, 0, 1}
              /\ Signed(staken[i].temp) < 0 => x <= 0
            BY <3>1, <3>5, Halved
        <3> QED
            BY <3>2, <3>4, <3>6
    <2> QED
        BY <2>1, <2>2, <2>3 DEF TempIs
<1> QED
    BY <1>1, AirAlways, PTL

\* While the status register can be read, sen5x_window_take vouches for no
\* window over a dead fan or laser, however it is timed against the fault.
\* (A failed read of the register does let one through, which a run shows.)
THEOREM FaultNeverSilentAlways ==
    NodeSpec /\ "status" \notin BusFaults => FaultNeverSilent
<1> DEFINE Asked == "status" \notin BusFaults
           Step == aq = <<>> /\ aq' # <<>> /\ aq'[1].alive => status \intersect {"FAN", "LASER"} = {}
<1>1. Asked /\ AirInv /\ [NodeNext]_nodeVars => [Step]_senVars
    <2> SUFFICES ASSUME Asked, AirInv, [NodeNext]_nodeVars, aq = <<>>, aq' # <<>>, aq'[1].alive
                 PROVE  status \intersect {"FAN", "LASER"} = {}
        OBVIOUS
    <2>1. TakeAir
        BY DEF NodeNext, MainLoop, Start, sen5x_start, Poll, sen5x_poll, TakeRadar, AppendReturns,
               AirDone, Wake, RadarThread, Time, Device, StatusChanges, senVars, nodeVars
    <2>2. PICK ok \in read_words("status") : TookAir(acc.alive /\ ~(ok /\ fatal))
        BY <2>1 DEF TakeAir, sen5x_window_take
    <2>3. ok
        BY DEF read_words
    <2>4. acc \in AirWindow /\ aq' = <<[acc EXCEPT !.alive = acc.alive /\ ~(ok /\ fatal)]>>
        BY <2>2 DEF TookAir, AirInv, SenTypeOK
    <2>5. aq'[1].alive = (acc.alive /\ ~(ok /\ fatal))
        BY <2>4 DEF AirWindow
    <2> QED
        BY <2>3, <2>5 DEF fatal, STATUS_FATAL
<1>2. Asked /\ [NodeNext]_nodeVars => Asked'
    OBVIOUS
<1> QED
    BY <1>1, <1>2, AirAlways, PTL DEF NodeSpec, FaultNeverSilent
-----------------------------------------------------------------------------
(* The occupancy window *)

\* A frame or a take in the log.
Event == [take : {FALSE}, at : Nat, f : FrameKinds] \union [take : {TRUE}, at : Nat]

\* L is the last take of log, 0 if there was none.
LastIs(log, L) ==
    /\ L = 0 \/ log[L].take
    /\ \A i \in L + 1 .. Len(log) : ~log[i].take

\* The frames at the positions in S, and whether there is one, one with a
\* target list, and the largest count.
Counts(some, tracker, most, log, S) ==
    /\ some <=> S # {}
    /\ tracker <=> \E i \in S : log[i].f.tracker
    /\ \A i \in S : log[i].f.n <= most
    /\ most = 0 \/ \E i \in S : log[i].f.n = most

\* FramesOf and RunUpTo, of any log.
Since(log, k) == {i \in 1 .. k - 1 : \A j \in i .. k - 1 : ~log[j].take}

Breaks(log, j) ==
    \/ ~log[j].take /\ log[j].f.n = 0
    \/ log[j].take /\ Since(log, j) = {}

Run(log, k) ==
    {i \in 1 .. k : (~log[i].take /\ log[i].f.n > 0) /\ \A j \in i .. k : ~Breaks(log, j)}

\* since is the start of the occupancy that is unbroken at event k.
RunIs(since, log, k) ==
    \/ since = 0 /\ Run(log, k) = {}
    \/ \E m \in Run(log, k) :
          (\A i \in Run(log, k) : m <= i) /\ since = log[m].at /\ since > 0

Capped(age) == IF age > U16_MAX THEN U16_MAX ELSE age

Held(since, now) == IF since = 0 THEN 0 ELSE (now - since) \div MS_PER_S

\* c is the window that the take at event L closed.
TakenIs(c, log, L) ==
    /\ L >= 1
    /\ Counts(c.alive, c.tracker, c.headcount, log, Since(log, L))
    /\ \E since \in Nat : RunIs(since, log, L) /\ c.dwell_s = Capped(Held(since, log[L].at))

\* The accumulators say what the history says of the frames since the last
\* take, occ_since what it says of the occupancy that is going on, and
\* window_flush's copy what it says of the window before.
WinInv ==
    /\ WinTypeOK /\ rlog \in Seq(Event) /\ clock >= 1 /\ scene \in Scenes
    /\ RunIs(occ_since, rlog, Len(rlog))
    /\ w # <<>> <=> npc \in {"air", "append"}
    /\ w # <<>> /\ ~w[1].alive => w[1].occ_s = 0 /\ w[1].dwell_s = 0
    /\ \E L \in 0 .. Len(rlog) :
          /\ LastIs(rlog, L)
          /\ Counts(frames > 0, any_tracker, max_count, rlog, L + 1 .. Len(rlog))
          /\ w # <<>> => TakenIs(w[1], rlog, L)

\* What a frame can say.
LEMMA KindTypes ==
    ASSUME NEW f \in FrameKinds
    PROVE  /\ f.tracker \in BOOLEAN /\ f.n \in 0 .. RADAR_MAX_TARGETS
           /\ ~f.tracker => f.n <= 1
<1>0. /\ RADAR_MAX_TARGETS \in Nat /\ RADAR_MAX_TARGETS >= 1
      /\ TARGET_3D_SIZE \in Nat \ {0} /\ TARGET_2D_SIZE \in Nat \ {0}
    BY WindowAssumption
<1>1. ASSUME NEW len \in ListLens
      PROVE  tlv_targets(len) \in 0 .. RADAR_MAX_TARGETS
    <2> DEFINE size == IF len % TARGET_3D_SIZE = 0 THEN TARGET_3D_SIZE ELSE TARGET_2D_SIZE
    <2>1. size \in Nat \ {0} /\ len \in Int /\ len >= 0
        BY <1>0, WindowAssumption
    <2> HIDE DEF size
    <2>2. len \div size \in Nat
        BY <2>1, Quotient
    <2>3. tlv_targets(len) = IF len % size = 0 THEN Least(len \div size, RADAR_MAX_TARGETS) ELSE 0
        BY DEF tlv_targets, size
    <2> QED
        BY <1>0, <2>2, <2>3 DEF Least
<1>2. \A p : FromZones(p) \in {0, 1}
    BY DEF FromZones
<1>3. CASE f \in {[tracker |-> TRUE, n |-> tlv_targets(len)] : len \in ListLens}
    <2>1. PICK len \in ListLens : f = [tracker |-> TRUE, n |-> tlv_targets(len)]
        BY <1>3
    <2>2. f.tracker = TRUE /\ f.n = tlv_targets(len)
        BY <2>1
    <2> QED
        BY <1>1, <2>2
<1>4. CASE f \in {[tracker |-> FALSE, n |-> FromZones(p)] : p \in Presences}
    <2>1. PICK p \in Presences : f = [tracker |-> FALSE, n |-> FromZones(p)]
        BY <1>4
    <2>2. f.tracker = FALSE /\ f.n = FromZones(p)
        BY <2>1
    <2>3. f.n = 0 \/ f.n = 1
        BY <1>2, <2>2
    <2>4. f.n \in 0 .. RADAR_MAX_TARGETS /\ f.n <= 1
        BY <1>0, <2>3
    <2> QED
        BY <2>2, <2>4
<1>5. CASE f \in {[tracker |-> FALSE, n |-> 0]}
    <2>1. f.tracker = FALSE /\ f.n = 0
        BY <1>5
    <2>2. f.n \in 0 .. RADAR_MAX_TARGETS /\ f.n <= 1
        BY <1>0, <2>1
    <2> QED
        BY <2>1, <2>2
<1> QED
    BY <1>3, <1>4, <1>5 DEF FrameKinds

LEMMA EventTypes ==
    ASSUME NEW e \in Event
    PROVE  /\ e.take \in BOOLEAN /\ e.at \in Nat
           /\ ~e.take => /\ e.f.tracker \in BOOLEAN /\ e.f.n \in 0 .. RADAR_MAX_TARGETS
                         /\ ~e.f.tracker => e.f.n <= 1
           /\ e.take => [e EXCEPT !.at = 0] \in Event /\ [e EXCEPT !.at = 0].take
    BY KindTypes DEF Event

\* What the history says up to event k depends on nothing after it.
LEMMA Prefix ==
    ASSUME NEW log, NEW more, NEW k \in Nat, \A i \in 1 .. k : more[i] = log[i]
    PROVE  /\ Since(more, k + 1) = Since(log, k + 1)
           /\ Run(more, k) = Run(log, k)
           /\ \A j \in 1 .. k : Since(more, j) = Since(log, j)
<1>1. ASSUME NEW j \in 1 .. k + 1
      PROVE  Since(more, j) = Since(log, j)
    <2>1. \A i \in 1 .. j - 1 : \A h \in i .. j - 1 : h \in 1 .. k
        OBVIOUS
    <2> QED
        BY <2>1 DEF Since
<1>2. ASSUME NEW j \in 1 .. k
      PROVE  Breaks(more, j) <=> Breaks(log, j)
    <2>1. j \in 1 .. k + 1
        OBVIOUS
    <2>2. Since(more, j) = Since(log, j) /\ more[j] = log[j]
        BY <1>1, <2>1
    <2> QED
        BY <2>2 DEF Breaks
<1>3. Run(more, k) = Run(log, k)
    <2>1. \A i \in 1 .. k : \A j \in i .. k : j \in 1 .. k
        OBVIOUS
    <2> QED
        BY <1>2, <2>1 DEF Run
<1>4. k + 1 \in 1 .. k + 1 /\ \A j \in 1 .. k : j \in 1 .. k + 1
    OBVIOUS
<1> QED
    BY <1>1, <1>3, <1>4

LEMMA SinceLast ==
    ASSUME NEW log, NEW N \in Nat, Len(log) = N, NEW L \in 0 .. N, LastIs(log, L)
    PROVE  Since(log, N + 1) = L + 1 .. N
<1>1. ASSUME NEW i \in Since(log, N + 1)
      PROVE  i \in L + 1 .. N
    <2>1. i \in 1 .. N /\ \A j \in i .. N : ~log[j].take
        BY DEF Since
    <2>2. ~(i <= L)
        <3> SUFFICES ASSUME i <= L PROVE FALSE
            OBVIOUS
        <3>1. L \in i .. N /\ L # 0
            BY <2>1
        <3> QED
            BY <2>1, <3>1 DEF LastIs
    <2> QED
        BY <2>1, <2>2
<1>2. ASSUME NEW i \in L + 1 .. N
      PROVE  i \in Since(log, N + 1)
    <2>1. i \in 1 .. (N + 1) - 1 /\ \A j \in i .. (N + 1) - 1 : j \in L + 1 .. N
        OBVIOUS
    <2> QED
        BY <2>1 DEF Since, LastIs
<1> QED
    BY <1>1, <1>2

LEMMA LastTakeIs ==
    ASSUME rlog \in Seq(Event), NEW L \in 0 .. Len(rlog), LastIs(rlog, L)
    PROVE  LastTake = L
<1> DEFINE S == {i \in 1 .. Len(rlog) : rlog[i].take} \union {0}
<1>0. Len(rlog) \in Nat
    BY LenProperties
<1>1. S \subseteq Int /\ L \in S
    BY <1>0 DEF LastIs
<1>2. ASSUME NEW i \in S PROVE i <= L
    <2> SUFFICES ASSUME ~(i <= L) PROVE FALSE
        OBVIOUS
    <2>1. i \in L + 1 .. Len(rlog) /\ rlog[i].take
        BY <1>0
    <2> QED
        BY <2>1 DEF LastIs
<1> HIDE DEF S
<1>3. Max(S) = L
    BY <1>1, <1>2, MaxIs
<1> QED
    BY <1>3 DEF S, LastTake

LEMMA EventAdded ==
    ASSUME NEW log \in Seq(Event), NEW e \in Event
    PROVE  /\ Append(log, e) \in Seq(Event) /\ Len(Append(log, e)) = Len(log) + 1
           /\ Len(log) \in Nat /\ Append(log, e)[Len(log) + 1] = e
           /\ \A i \in 1 .. Len(log) : Append(log, e)[i] = log[i] /\ log[i] \in Event
<1>1. /\ Append(log, e) \in Seq(Event) /\ Len(Append(log, e)) = Len(log) + 1
      /\ Len(log) \in Nat /\ Append(log, e)[Len(log) + 1] = e
      /\ \A i \in 1 .. Len(log) : Append(log, e)[i] = log[i]
    BY AppendProperties, LenProperties
<1>2. \A i \in 1 .. Len(log) : log[i] \in Event
    BY ElementOfSeq
<1> QED
    BY <1>1, <1>2

\* A frame with somebody in it continues a run or begins one; a frame without
\* ends it.
LEMMA RunFrame ==
    ASSUME NEW log \in Seq(Event), NEW at \in Nat, at >= 1, NEW f \in FrameKinds,
           NEW since \in Nat, RunIs(since, log, Len(log))
    PROVE  LET more == Append(log, [take |-> FALSE, at |-> at, f |-> f])
               next == IF f.n > 0 THEN (IF since = 0 THEN at ELSE since) ELSE 0
           IN  RunIs(next, more, Len(log) + 1)
<1> DEFINE e == [take |-> FALSE, at |-> at, f |-> f]
           more == Append(log, e)
           N == Len(log)
           next == IF f.n > 0 THEN (IF since = 0 THEN at ELSE since) ELSE 0
<1>0. e \in Event /\ ~e.take /\ e.at = at /\ e.f = f /\ f.n \in Nat
    <2>1. e \in Event /\ e.take = FALSE /\ e.at = at /\ e.f = f
        BY DEF Event
    <2>2. f.n \in Nat
        BY KindTypes, WindowAssumption
    <2> QED
        BY <2>1, <2>2
<1> HIDE DEF e
<1>1. /\ N \in Nat /\ more[N + 1] = e
      /\ \A i \in 1 .. N : more[i] = log[i]
    BY <1>0, EventAdded
<1> HIDE DEF more, N
<1>2. Run(more, N) = Run(log, N)
    BY <1>1, Prefix
<1>3. Breaks(more, N + 1) <=> f.n = 0
    BY <1>0, <1>1 DEF Breaks
<1>4. CASE f.n = 0
    <2>1. \A i \in 1 .. N + 1 : N + 1 \in i .. N + 1
        BY <1>1
    <2>2. Run(more, N + 1) = {}
        BY <1>3, <1>4, <2>1 DEF Run
    <2>3. next = 0
        BY <1>0, <1>4
    <2> QED
        BY <2>2, <2>3 DEF RunIs, more, N, e
<1>5. CASE f.n > 0
    <2>0. ~Breaks(more, N + 1)
        BY <1>0, <1>3, <1>5
    <2>1. N + 1 \in Run(more, N + 1)
        <3>1. N + 1 \in 1 .. N + 1 /\ \A j \in N + 1 .. N + 1 : j = N + 1
            BY <1>1
        <3> QED
            BY <1>0, <1>1, <1>5, <2>0, <3>1 DEF Run
    <2>2. ASSUME NEW i \in 1 .. N
          PROVE  i \in Run(more, N + 1) <=> i \in Run(more, N)
        <3>1. i \in 1 .. N + 1 /\ (\A j \in i .. N : j \in i .. N + 1)
              /\ \A j \in i .. N + 1 : j \in i .. N \/ j = N + 1
            BY <1>1
        <3> QED
            BY <2>0, <3>1 DEF Run
    <2>3. \A i \in Run(more, N + 1) : i \in 1 .. N \/ i = N + 1
        BY <1>1 DEF Run
    <2>4. CASE since = 0 /\ Run(log, N) = {}
        <3>1. \A i \in Run(more, N + 1) : i = N + 1
            BY <1>2, <2>2, <2>3, <2>4
        <3>2. next = more[N + 1].at /\ next > 0
            BY <1>0, <1>1, <1>5, <2>4
        <3>3. \A i \in Run(more, N + 1) : N + 1 <= i
            BY <1>1, <3>1
        <3> QED
            BY <2>1, <3>2, <3>3 DEF RunIs, more, N, e
    <2>5. CASE \E m \in Run(log, N) :
                  (\A i \in Run(log, N) : m <= i) /\ since = log[m].at /\ since > 0
        <3>1. PICK m \in Run(log, N) :
                 (\A i \in Run(log, N) : m <= i) /\ since = log[m].at /\ since > 0
            BY <2>5
        <3>2. m \in 1 .. N
            BY DEF Run
        <3>3. m \in Run(more, N + 1) /\ next = more[m].at /\ next > 0
            BY <1>1, <1>2, <1>5, <2>2, <3>1, <3>2
        <3>4. \A i \in Run(more, N + 1) : m <= i
            BY <1>1, <1>2, <2>2, <2>3, <3>1, <3>2
        <3> QED
            BY <3>3, <3>4 DEF RunIs, more, N, e
    <2> QED
        BY <2>4, <2>5 DEF RunIs, N
<1> QED
    BY <1>0, <1>4, <1>5

\* A take ends a run just when no frame came since the take before.
LEMMA RunTake ==
    ASSUME NEW log \in Seq(Event), NEW at \in Nat, NEW since \in Nat,
           RunIs(since, log, Len(log)),
           NEW L \in 0 .. Len(log), LastIs(log, L)
    PROVE  LET more == Append(log, [take |-> TRUE, at |-> at])
               next == IF L + 1 .. Len(log) = {} THEN 0 ELSE since
           IN  RunIs(next, more, Len(log) + 1)
<1> DEFINE e == [take |-> TRUE, at |-> at]
           more == Append(log, e)
           N == Len(log)
           next == IF L + 1 .. N = {} THEN 0 ELSE since
<1>0. e \in Event /\ e.take = TRUE
    BY DEF Event
<1> HIDE DEF e
<1>1. /\ N \in Nat /\ more[N + 1] = e
      /\ \A i \in 1 .. N : more[i] = log[i]
    BY <1>0, EventAdded
<1>2. Since(log, N + 1) = L + 1 .. N
    BY <1>1, SinceLast
<1> HIDE DEF more, N
<1>3. Run(more, N) = Run(log, N) /\ Since(more, N + 1) = Since(log, N + 1)
    BY <1>1, Prefix
<1>4. Breaks(more, N + 1) <=> L + 1 .. N = {}
    BY <1>0, <1>1, <1>2, <1>3 DEF Breaks
<1>5. CASE L + 1 .. N = {}
    <2>1. \A i \in 1 .. N + 1 : N + 1 \in i .. N + 1
        BY <1>1
    <2>2. Run(more, N + 1) = {}
        BY <1>4, <1>5, <2>1 DEF Run
    <2>3. next = 0
        BY <1>5
    <2> QED
        BY <2>2, <2>3 DEF RunIs, more, N, e
<1>6. CASE L + 1 .. N # {}
    <2>1. next = since
        BY <1>6
    <2>2. ASSUME NEW i \in 1 .. N
          PROVE  i \in Run(more, N + 1) <=> i \in Run(more, N)
        <3>1. i \in 1 .. N + 1 /\ (\A j \in i .. N : j \in i .. N + 1)
              /\ \A j \in i .. N + 1 : j \in i .. N \/ j = N + 1
            BY <1>1
        <3> QED
            BY <1>4, <1>6, <3>1 DEF Run
    <2>3. ASSUME NEW i \in Run(more, N + 1) PROVE i \in 1 .. N
        <3>1. i \in 1 .. N + 1 /\ ~more[i].take
            BY DEF Run
        <3>2. i # N + 1
            BY <1>0, <1>1, <3>1
        <3> QED
            BY <1>1, <3>1, <3>2
    <2>4. ASSUME NEW i \in Run(more, N) PROVE i \in 1 .. N
        BY DEF Run
    <2>5. Run(more, N + 1) = Run(log, N)
        BY <1>3, <2>2, <2>3, <2>4
    <2>6. \A i \in Run(log, N) : more[i] = log[i]
        BY <1>1, <1>3, <2>4
    <2>7. RunIs(since, log, N)
        BY DEF N
    <2>8. RunIs(since, more, N + 1)
        BY <2>5, <2>6, <2>7 DEF RunIs
    <2> QED
        BY <2>1, <2>8 DEF more, N, e
<1> QED
    BY <1>5, <1>6

LEMMA CountsFrame ==
    ASSUME NEW log \in Seq(Event), NEW at \in Nat, NEW f \in FrameKinds,
           NEW L \in 0 .. Len(log), LastIs(log, L),
           NEW some, NEW tracker \in BOOLEAN, NEW most \in Nat,
           Counts(some, tracker, most, log, L + 1 .. Len(log))
    PROVE  Counts(TRUE, tracker \/ f.tracker, IF f.n > most THEN f.n ELSE most,
                  Append(log, [take |-> FALSE, at |-> at, f |-> f]), L + 1 .. Len(log) + 1)
<1> DEFINE e == [take |-> FALSE, at |-> at, f |-> f]
           more == Append(log, e)
           N == Len(log)
           most1 == IF f.n > most THEN f.n ELSE most
<1>0. e \in Event /\ e.f = f /\ f.n \in Nat /\ f.tracker \in BOOLEAN
    <2>1. e \in Event /\ e.f = f
        BY DEF Event
    <2> QED
        BY <2>1, KindTypes, WindowAssumption
<1> HIDE DEF e
<1>1. /\ N \in Nat /\ more[N + 1] = e
      /\ \A i \in 1 .. N : more[i] = log[i]
    BY <1>0, EventAdded
<1> HIDE DEF more
<1>2. /\ tracker <=> \E i \in L + 1 .. N : log[i].f.tracker
      /\ \A i \in L + 1 .. N : log[i].f.n <= most
      /\ most = 0 \/ \E i \in L + 1 .. N : log[i].f.n = most
    BY DEF Counts
<1> HIDE DEF N
<1>3. /\ N + 1 \in L + 1 .. N + 1
      /\ \A i \in L + 1 .. N : i \in L + 1 .. N + 1 /\ more[i] = log[i]
      /\ \A i \in L + 1 .. N + 1 : i \in L + 1 .. N \/ i = N + 1
    BY <1>1 DEF N
<1>4. (tracker \/ f.tracker) <=> \E i \in L + 1 .. N + 1 : more[i].f.tracker
    BY <1>0, <1>1, <1>2, <1>3
<1>5. \A i \in L + 1 .. N + 1 : more[i].f.n <= most1
    <2>1. \A i \in L + 1 .. N : log[i].f.n <= most1
        <3> SUFFICES ASSUME NEW i \in L + 1 .. N PROVE log[i].f.n <= most1
            OBVIOUS
        <3>1. log[i].f.n <= most
            BY <1>2
        <3>2. log[i].f.n \in Nat
            <4>1. i \in 1 .. Len(log) /\ ~log[i].take
                BY <1>1 DEF LastIs, N
            <4>2. log[i] \in Event
                BY <4>1, ElementOfSeq
            <4>3. log[i].f.n \in 0 .. RADAR_MAX_TARGETS
                BY <4>1, <4>2, EventTypes
            <4> QED
                BY <4>3
        <3> QED
            BY <1>0, <3>1, <3>2
    <2>2. f.n <= most1
        BY <1>0
    <2> HIDE DEF most1
    <2> QED
        BY <1>0, <1>1, <1>3, <2>1, <2>2
<1>6. most1 = 0 \/ \E i \in L + 1 .. N + 1 : more[i].f.n = most1
    BY <1>0, <1>1, <1>2, <1>3
<1>7. L + 1 .. N + 1 # {}
    BY <1>3
<1> QED
    BY <1>4, <1>5, <1>6, <1>7 DEF Counts, more, N, e

LEMMA RunUpToIs ==
    \A k : RunUpTo(k) = Run(rlog, k) /\ FramesOf(k) = Since(rlog, k)
    BY DEF RunUpTo, Run, Occupied, Empty, Dead, Breaks, FramesOf, Since

\* Where a log ends with the last take and the same frames behind it as
\* another, its runs from there on are the same.
LEMMA RunTail ==
    ASSUME NEW N \in Nat, NEW M \in Nat, NEW L \in 1 .. N, NEW K \in 1 .. M, M - K = N - L,
           NEW log \in Seq(Event), NEW kept \in Seq(Event), Len(log) = N, Len(kept) = M,
           LastIs(log, L), LastIs(kept, K),
           \A d \in 1 .. N - L : kept[K + d] = log[L + d],
           NEW d \in 1 .. N - L
    PROVE  L + d \in Run(log, N) <=> K + d \in Run(kept, M)
<1>1. ASSUME NEW h \in 1 .. N - L
      PROVE  /\ kept[K + h] = log[L + h] /\ ~log[L + h].take
             /\ Breaks(kept, K + h) <=> Breaks(log, L + h)
    <2>1. kept[K + h] = log[L + h]
        OBVIOUS
    <2>2. ~log[L + h].take
        <3>1. L + h \in L + 1 .. Len(log)
            OBVIOUS
        <3> QED
            BY <3>1 DEF LastIs
    <2> QED
        BY <2>1, <2>2 DEF Breaks
<1>2. L + d \in 1 .. N /\ K + d \in 1 .. M
    OBVIOUS
<1>3. (\A j \in L + d .. N : ~Breaks(log, j)) <=> (\A j \in K + d .. M : ~Breaks(kept, j))
    <2>1. ASSUME \A j \in L + d .. N : ~Breaks(log, j), NEW j \in K + d .. M
          PROVE  ~Breaks(kept, j)
        <3>1. j - K \in 1 .. N - L /\ K + (j - K) = j /\ L + (j - K) \in L + d .. N
            OBVIOUS
        <3> QED
            BY <1>1, <2>1, <3>1
    <2>2. ASSUME \A j \in K + d .. M : ~Breaks(kept, j), NEW j \in L + d .. N
          PROVE  ~Breaks(log, j)
        <3>1. j - L \in 1 .. N - L /\ L + (j - L) = j /\ K + (j - L) \in K + d .. M
            OBVIOUS
        <3> QED
            BY <1>1, <2>2, <3>1
    <2> QED
        BY <2>1, <2>2
<1>4. kept[K + d] = log[L + d] /\ ~log[L + d].take
    BY <1>1
<1> QED
    BY <1>2, <1>3, <1>4 DEF Run

\* kept is head, and behind it what log has after event L.
Keeps(kept, head, log, L) ==
    /\ kept \in Seq(Event) /\ Len(kept) = Len(head) + (Len(log) - L)
    /\ \A i \in 1 .. Len(head) : kept[i] = head[i]
    /\ \A d \in 1 .. Len(log) - L : kept[Len(head) + d] = log[L + d]
    /\ LastIs(kept, Len(head))

\* The head and the tail of what Relevant keeps.
LEMMA Kept ==
    ASSUME NEW log \in Seq(Event), NEW L \in 1 .. Len(log), LastIs(log, L),
           NEW head \in Seq(Event), Len(head) >= 1, head[Len(head)].take = TRUE,
           NEW kept, kept = head \o SubSeq(log, L + 1, Len(log))
    PROVE  Keeps(kept, head, log, L)
<1> DEFINE N == Len(log)
           K == Len(head)
           tail == SubSeq(log, L + 1, N)
<1>0. N \in Nat /\ K \in Nat /\ K >= 1 /\ L \in 1 .. N
    BY LenProperties
<1>1. L + 1 \in 1 .. N + 1 /\ N \in (L + 1) - 1 .. N
    BY <1>0
<1>2. /\ tail \in Seq(Event) /\ Len(tail) = N - (L + 1) + 1
      /\ \A i \in 1 .. N - (L + 1) + 1 : tail[i] = log[(L + 1) + i - 1]
    BY <1>1, SubSeqProperties
<1> HIDE DEF tail, N, K
<1>3. Len(tail) = N - L /\ \A d \in 1 .. N - L : tail[d] = log[L + d]
    <2>1. N - (L + 1) + 1 = N - L /\ \A d \in 1 .. N - L : (L + 1) + d - 1 = L + d
        BY <1>0
    <2> QED
        BY <1>2, <2>1
<1>4. /\ kept \in Seq(Event) /\ Len(kept) = Len(head) + Len(tail)
      /\ \A i \in 1 .. Len(head) + Len(tail) :
            kept[i] = IF i <= Len(head) THEN head[i] ELSE tail[i - Len(head)]
    <2>1. head \in Seq(Event) /\ tail \in Seq(Event)
        BY <1>2
    <2> QED
        BY <2>1, ConcatProperties DEF tail, N
<1>5. Len(kept) = K + (N - L)
    BY <1>0, <1>3, <1>4 DEF K
<1>6. ASSUME NEW i \in 1 .. K PROVE kept[i] = head[i]
    <2>1. i \in 1 .. Len(head) + Len(tail) /\ i <= Len(head)
        BY <1>0, <1>3 DEF K
    <2> QED
        BY <1>4, <2>1
<1>7. ASSUME NEW d \in 1 .. N - L PROVE kept[K + d] = log[L + d]
    <2>1. K + d \in 1 .. Len(head) + Len(tail) /\ ~(K + d <= Len(head)) /\ (K + d) - Len(head) = d
        BY <1>0, <1>3 DEF K
    <2> QED
        BY <1>3, <1>4, <2>1
<1>8. LastIs(kept, K)
    <2>1. kept[K].take
        <3>1. K \in 1 .. K
            BY <1>0
        <3> QED
            BY <1>6, <3>1 DEF K
    <2>2. ASSUME NEW i \in K + 1 .. Len(kept) PROVE ~kept[i].take
        <3>1. i - K \in 1 .. N - L /\ K + (i - K) = i /\ L + (i - K) \in L + 1 .. Len(log)
            BY <1>0, <1>5 DEF N
        <3> QED
            BY <1>7, <3>1 DEF LastIs
    <2> QED
        BY <2>1, <2>2 DEF LastIs
<1> QED
    BY <1>4, <1>5, <1>6, <1>7, <1>8 DEF N, K, Keeps

\* What window_flush leaves of the history says the same of the window that
\* is open and of the occupancy that is going on.
LEMMA RelevantKeeps ==
    ASSUME rlog \in Seq(Event), NEW N \in Nat, Len(rlog) = N, NEW L \in 1 .. N, LastIs(rlog, L),
           NEW since \in Nat, RunIs(since, rlog, N)
    PROVE  \E K \in 1 .. 2 :
              /\ Relevant \in Seq(Event) /\ Len(Relevant) = K + (N - L)
              /\ LastIs(Relevant, K)
              /\ \A d \in 1 .. N - L : Relevant[K + d] = rlog[L + d]
              /\ RunIs(since, Relevant, Len(Relevant))
<1> DEFINE t == [rlog[L] EXCEPT !.at = 0]
           R == Run(rlog, N)
           first == Min(R \union {L})
<1>1. LastTake = L
    <2>1. L \in 0 .. Len(rlog)
        OBVIOUS
    <2> QED
        BY <2>1, LastTakeIs
<1>2. RunUpTo(Len(rlog)) = R
    BY RunUpToIs
<1>3. rlog[L] \in Event /\ rlog[L].take /\ t \in Event /\ t.take /\ t.take = TRUE
    <2>1. rlog[L] \in Event
        BY ElementOfSeq
    <2>2. rlog[L].take
        BY DEF LastIs
    <2> QED
        BY <2>1, <2>2, EventTypes
<1> HIDE DEF t
<1>4. Relevant = ((IF first < L THEN <<rlog[first]>> ELSE <<>>) \o <<t>>) \o SubSeq(rlog, L + 1, N)
    BY <1>1, <1>2 DEF Relevant, t
<1>5. \A i \in R : i \in 1 .. N /\ rlog[i] \in Event /\ ~rlog[i].take /\ rlog[i].f.n > 0 /\ i # L
    <2> SUFFICES ASSUME NEW i \in R
                 PROVE  i \in 1 .. N /\ rlog[i] \in Event /\ ~rlog[i].take /\ rlog[i].f.n > 0 /\ i # L
        OBVIOUS
    <2>1. i \in 1 .. N /\ ~rlog[i].take /\ rlog[i].f.n > 0
        BY DEF Run
    <2> QED
        BY <1>3, <2>1, ElementOfSeq
<1>6. CASE \E m \in R : (\A i \in R : m <= i) /\ since = rlog[m].at /\ since > 0 /\ m < L
    <2>1. PICK m \in R : (\A i \in R : m <= i) /\ since = rlog[m].at /\ since > 0 /\ m < L
        BY <1>6
    <2>2. m \in 1 .. N /\ rlog[m] \in Event /\ ~rlog[m].take /\ rlog[m].f.n > 0
          /\ \A j \in m .. N : ~Breaks(rlog, j)
        BY <1>5 DEF Run
    <2>3. first = m
        <3>1. R \union {L} \subseteq Int /\ m \in R \union {L}
            BY <1>5
        <3>2. \A i \in R \union {L} : m <= i
            BY <2>1, <2>2
        <3> HIDE DEF R
        <3> QED
            BY <3>1, <3>2, MinIs
    <2> DEFINE head == <<rlog[m]>> \o <<t>>
               kept == head \o SubSeq(rlog, L + 1, N)
    <2>4. Relevant = kept
        BY <1>4, <2>1, <2>3
    <2>5. head \in Seq(Event) /\ Len(head) = 2 /\ head[1] = rlog[m] /\ head[2] = t
        <3>1. /\ <<rlog[m]>> \in Seq(Event) /\ Len(<<rlog[m]>>) = 1 /\ <<rlog[m]>>[1] = rlog[m]
              /\ <<t>> \in Seq(Event) /\ Len(<<t>>) = 1 /\ <<t>>[1] = t
            BY <1>3, <2>2
        <3> QED
            BY <3>1, ConcatProperties
    <2> HIDE DEF head
    <2>6. /\ kept \in Seq(Event) /\ Len(kept) = 2 + (N - L)
          /\ \A i \in 1 .. 2 : kept[i] = head[i]
          /\ \A d \in 1 .. N - L : kept[2 + d] = rlog[L + d]
          /\ LastIs(kept, 2)
        <3>0. rlog \in Seq(Event) /\ LastIs(rlog, L)
            OBVIOUS
        <3>1. head \in Seq(Event) /\ Len(head) >= 1 /\ Len(head) = 2 /\ head[Len(head)].take = TRUE
            BY <1>3, <2>5
        <3> HIDE DEF kept
        <3>2. kept = head \o SubSeq(rlog, L + 1, Len(rlog)) /\ L \in 1 .. Len(rlog)
            BY DEF kept
        <3>3. Keeps(kept, head, rlog, L)
            BY <3>0, <3>1, <3>2, Kept, Zenon
        <3> QED
            BY <3>1, <3>3 DEF Keeps
    <2> HIDE DEF kept
    <2>7. kept[1] = rlog[m] /\ kept[2] = t
        BY <2>5, <2>6
    <2> DEFINE M == 2 + (N - L)
    <2>8. ASSUME NEW j \in 1 .. M PROVE ~Breaks(kept, j)
        <3>1. CASE j = 1
            BY <2>2, <2>7, <3>1 DEF Breaks
        <3>2. CASE j = 2
            <4>1. 1 \in Since(kept, 2)
                <5>1. 1 \in 1 .. 2 - 1 /\ \A i \in 1 .. 2 - 1 : i = 1
                    OBVIOUS
                <5> QED
                    BY <2>2, <2>7, <5>1 DEF Since
            <4> QED
                BY <1>3, <2>7, <3>2, <4>1 DEF Breaks
        <3>3. CASE j > 2
            <4>1. j - 2 \in 1 .. N - L /\ 2 + (j - 2) = j /\ L + (j - 2) \in m .. N
                  /\ L + (j - 2) \in L + 1 .. Len(rlog)
                BY <2>1, <2>2, <3>3
            <4>2. kept[j] = rlog[L + (j - 2)] /\ ~rlog[L + (j - 2)].take /\ ~Breaks(rlog, L + (j - 2))
                BY <2>2, <2>6, <4>1 DEF LastIs
            <4> QED
                BY <4>2 DEF Breaks
        <3>4. j = 1 \/ j = 2 \/ j > 2
            OBVIOUS
        <3> QED
            BY <3>1, <3>2, <3>3, <3>4
    <2>9. 1 \in Run(kept, M)
        <3>1. 1 \in 1 .. M
            OBVIOUS
        <3> QED
            BY <2>2, <2>7, <2>8, <3>1 DEF Run
    <2>10. \A i \in Run(kept, M) : 1 <= i
        BY DEF Run
    <2>11. RunIs(since, kept, M)
        BY <2>1, <2>7, <2>9, <2>10 DEF RunIs
    <2> QED
        BY <2>4, <2>6, <2>11
<1>7. CASE \/ since = 0 /\ R = {}
           \/ \E m \in R : (\A i \in R : m <= i) /\ since = rlog[m].at /\ since > 0 /\ ~(m < L)
    <2>1. \A i \in R : i \in 1 .. N /\ i > L
        BY <1>5, <1>7
    <2>2. first = L
        <3>1. R \union {L} \subseteq Int /\ L \in R \union {L}
            BY <1>5
        <3>2. \A i \in R \union {L} : L <= i
            BY <2>1
        <3> HIDE DEF R
        <3> QED
            BY <3>1, <3>2, MinIs
    <2> DEFINE head == <<>> \o <<t>>
               kept == head \o SubSeq(rlog, L + 1, N)
    <2>3. Relevant = kept
        <3>1. ~(first < L)
            BY <2>2
        <3> QED
            BY <1>4, <3>1
    <2>4. head \in Seq(Event) /\ Len(head) = 1 /\ head[1] = t
        <3>1. <<t>> \in Seq(Event) /\ Len(<<t>>) = 1 /\ <<t>>[1] = t
            BY <1>3
        <3>2. head = <<t>>
            BY <3>1, ConcatEmptySeq
        <3> QED
            BY <3>1, <3>2
    <2> HIDE DEF head
    <2>5. /\ kept \in Seq(Event) /\ Len(kept) = 1 + (N - L)
          /\ \A i \in 1 .. 1 : kept[i] = head[i]
          /\ \A d \in 1 .. N - L : kept[1 + d] = rlog[L + d]
          /\ LastIs(kept, 1)
        <3>0. rlog \in Seq(Event) /\ LastIs(rlog, L)
            OBVIOUS
        <3>1. head \in Seq(Event) /\ Len(head) >= 1 /\ Len(head) = 1 /\ head[Len(head)].take = TRUE
            BY <1>3, <2>4
        <3> HIDE DEF kept
        <3>2. kept = head \o SubSeq(rlog, L + 1, Len(rlog)) /\ L \in 1 .. Len(rlog)
            BY DEF kept
        <3>3. Keeps(kept, head, rlog, L)
            BY <3>0, <3>1, <3>2, Kept, Zenon
        <3> QED
            BY <3>1, <3>3 DEF Keeps
    <2> HIDE DEF kept
    <2> DEFINE M == 1 + (N - L)
    <2>6. M \in Nat /\ 1 \in 1 .. M /\ M - 1 = N - L
        OBVIOUS
    <2>7. ASSUME NEW d \in 1 .. N - L
          PROVE  L + d \in R <=> 1 + d \in Run(kept, M)
        <3>1. /\ M \in Nat /\ 1 \in 1 .. M /\ M - 1 = N - L /\ kept \in Seq(Event) /\ Len(kept) = M
              /\ \A h \in 1 .. N - L : kept[1 + h] = rlog[L + h]
              /\ LastIs(kept, 1)
            BY <2>5, <2>6
        <3> HIDE DEF M
        <3> QED
            BY <3>1, RunTail, Zenon
    <2>8. ASSUME NEW i \in Run(kept, M) PROVE i - 1 \in 1 .. N - L
        <3>1. i \in 1 .. M /\ ~kept[i].take
            BY DEF Run
        <3>2. kept[1].take
            BY <1>3, <2>4, <2>5
        <3>3. i # 1
            BY <3>1, <3>2
        <3> QED
            BY <3>1, <3>3
    <2>9. \A i \in Run(kept, M) : L + (i - 1) \in R /\ i \in 1 .. M
        <3> SUFFICES ASSUME NEW i \in Run(kept, M) PROVE L + (i - 1) \in R /\ i \in 1 .. M
            OBVIOUS
        <3>1. i \in 1 .. M
            BY DEF Run
        <3>2. 1 + (i - 1) = i
            BY <3>1
        <3> HIDE DEF R, M
        <3> QED
            BY <2>7, <2>8, <3>1, <3>2
    <2>10. RunIs(since, kept, M)
        <3>1. CASE since = 0 /\ R = {}
            <4>1. Run(kept, M) = {}
                BY <2>9, <3>1
            <4> QED
                BY <3>1, <4>1 DEF RunIs
        <3>2. CASE \E m \in R : (\A i \in R : m <= i) /\ since = rlog[m].at /\ since > 0
            <4>1. PICK m \in R : (\A i \in R : m <= i) /\ since = rlog[m].at /\ since > 0
                BY <3>2
            <4>2. m - L \in 1 .. N - L /\ L + (m - L) = m /\ m \in Int
                BY <2>1
            <4>3. 1 + (m - L) \in Run(kept, M)
                BY <2>7, <4>1, <4>2
            <4>4. since = kept[1 + (m - L)].at
                BY <2>5, <4>1, <4>2
            <4>5. \A i \in Run(kept, M) : 1 + (m - L) <= i
                <5> SUFFICES ASSUME NEW i \in Run(kept, M) PROVE 1 + (m - L) <= i
                    OBVIOUS
                <5>1. m <= L + (i - 1) /\ i \in 1 .. M
                    BY <2>9, <4>1
                <5> QED
                    BY <4>2, <5>1
            <4> QED
                BY <4>1, <4>3, <4>4, <4>5 DEF RunIs
        <3> QED
            BY <1>7, <3>1, <3>2
    <2>11. 1 \in 1 .. 2 /\ Len(kept) = M
        BY <2>5
    <2> QED
        BY <2>3, <2>5, <2>10, <2>11
<1> QED
    BY <1>6, <1>7 DEF RunIs

LEMMA CountsShift ==
    ASSUME NEW N \in Nat, NEW M \in Nat, NEW L \in 0 .. N, NEW K \in 0 .. M, M - K = N - L,
           NEW log, NEW kept, \A d \in 1 .. N - L : kept[K + d] = log[L + d],
           NEW some, NEW tracker, NEW most,
           Counts(some, tracker, most, log, L + 1 .. N)
    PROVE  Counts(some, tracker, most, kept, K + 1 .. M)
<1>1. \A i \in K + 1 .. M : L + (i - K) \in L + 1 .. N /\ kept[i] = log[L + (i - K)]
    <2> SUFFICES ASSUME NEW i \in K + 1 .. M
                 PROVE  L + (i - K) \in L + 1 .. N /\ kept[i] = log[L + (i - K)]
        OBVIOUS
    <2>1. i - K \in 1 .. N - L /\ K + (i - K) = i /\ L + (i - K) \in L + 1 .. N
        OBVIOUS
    <2>2. kept[K + (i - K)] = log[L + (i - K)]
        BY <2>1
    <2> QED
        BY <2>1, <2>2
<1>2. \A i \in L + 1 .. N : K + (i - L) \in K + 1 .. M /\ kept[K + (i - L)] = log[i]
    <2> SUFFICES ASSUME NEW i \in L + 1 .. N
                 PROVE  K + (i - L) \in K + 1 .. M /\ kept[K + (i - L)] = log[i]
        OBVIOUS
    <2>1. i - L \in 1 .. N - L /\ L + (i - L) = i /\ K + (i - L) \in K + 1 .. M
        OBVIOUS
    <2>2. kept[K + (i - L)] = log[L + (i - L)]
        BY <2>1
    <2> QED
        BY <2>1, <2>2
<1>3. /\ some <=> L + 1 .. N # {}
      /\ tracker <=> \E i \in L + 1 .. N : log[i].f.tracker
      /\ \A i \in L + 1 .. N : log[i].f.n <= most
      /\ most = 0 \/ \E i \in L + 1 .. N : log[i].f.n = most
    BY DEF Counts
<1>4. some <=> K + 1 .. M # {}
    BY <1>1, <1>2, <1>3
<1>5. tracker <=> \E i \in K + 1 .. M : kept[i].f.tracker
    BY <1>1, <1>2, <1>3
<1>6. \A i \in K + 1 .. M : kept[i].f.n <= most
    BY <1>1, <1>3
<1>7. most = 0 \/ \E i \in K + 1 .. M : kept[i].f.n = most
    BY <1>2, <1>3
<1> QED
    BY <1>4, <1>5, <1>6, <1>7 DEF Counts

LEMMA TakenPrefix ==
    ASSUME NEW log, NEW more, NEW L \in Nat, L >= 1, \A i \in 1 .. L : more[i] = log[i],
           NEW c, TakenIs(c, log, L)
    PROVE  TakenIs(c, more, L)
<1>1. L \in 1 .. L
    OBVIOUS
<1>2. Run(more, L) = Run(log, L) /\ Since(more, L) = Since(log, L) /\ more[L] = log[L]
    BY <1>1, Prefix
<1>3. \A i \in Run(log, L) : more[i] = log[i]
    BY DEF Run
<1>4. \A i \in Since(log, L) : more[i] = log[i]
    BY DEF Since
<1>5. Counts(c.alive, c.tracker, c.headcount, more, Since(more, L))
    BY <1>2, <1>4 DEF TakenIs, Counts
<1>6. \A since : RunIs(since, log, L) => RunIs(since, more, L)
    BY <1>2, <1>3 DEF RunIs
<1> QED
    BY <1>2, <1>5, <1>6 DEF TakenIs

LEMMA WinBegins == NodeInit => WinInv
<1> SUFFICES ASSUME NodeInit PROVE WinInv
    OBVIOUS
<1>1. /\ max_count = 0 /\ frames = 0 /\ occ_frames = 0 /\ any_tracker = FALSE /\ occ_since = 0
      /\ clock = 1 /\ w = <<>> /\ rlog = <<>> /\ scene \in Scenes /\ npc = "start"
    BY DEF NodeInit, WinInit
<1>2. WinTypeOK
    <2>1. /\ max_count \in 0 .. RADAR_MAX_TARGETS /\ frames \in 0 .. U16_MAX /\ occ_frames \in 0 .. frames
          /\ occ_since \in 0 .. clock /\ clock \in Nat
        BY <1>1, WindowAssumption
    <2> QED
        BY <1>1, <2>1, Zenon DEF WinTypeOK
<1>3. rlog \in Seq(Event) /\ Len(rlog) = 0
    BY <1>1
<1>4. Run(rlog, 0) = {}
    BY DEF Run
<1>5. RunIs(occ_since, rlog, Len(rlog))
    BY <1>1, <1>3, <1>4 DEF RunIs
<1>6. 0 \in 0 .. Len(rlog) /\ LastIs(rlog, 0)
    BY <1>3 DEF LastIs
<1>7. Counts(frames > 0, any_tracker, max_count, rlog, 0 + 1 .. Len(rlog))
    <2>1. 0 + 1 .. Len(rlog) = {} /\ ~(frames > 0)
        BY <1>1, <1>3
    <2> QED
        BY <1>1, <2>1 DEF Counts
<1> QED
    BY <1>1, <1>2, <1>3, <1>5, <1>6, <1>7 DEF WinInv

\* on_frame: one frame more in the window that is open.
LEMMA WinFrame ==
    ASSUME WinInv, RadarThread
    PROVE  WinInv'
<1> USE DEF loop, senVars
<1>1. PICK f \in scene.frames : on_frame(f)
    BY DEF RadarThread
<1> DEFINE e == [take |-> FALSE, at |-> clock, f |-> f]
           N == Len(rlog)
<1>2. f \in FrameKinds /\ f.n \in Nat /\ f.n <= RADAR_MAX_TARGETS /\ f.tracker \in BOOLEAN
    <2>1. scene.frames \subseteq FrameKinds
        BY NodeAssumption DEF WinInv
    <2>2. f \in FrameKinds
        BY <2>1
    <2> QED
        BY <2>2, KindTypes, WindowAssumption
<1>3. /\ npc' = npc /\ scene' = scene /\ clock' = clock /\ w' = w
      /\ frames' = frames + 1 /\ any_tracker' = (any_tracker \/ f.tracker)
      /\ rlog' = Append(rlog, e)
      /\ max_count' = (IF f.n > max_count THEN f.n ELSE max_count)
      /\ occ_since' = (IF f.n > 0 THEN (IF occ_since = 0 THEN clock ELSE occ_since) ELSE 0)
      /\ occ_frames' \in {occ_frames, occ_frames + 1}
      /\ frames < U16_MAX
    <2>1. max_count \in Nat
        BY WindowAssumption DEF WinInv, WinTypeOK
    <2>4. /\ frames < U16_MAX /\ U16_MAX \in Nat /\ frames \in Nat
          /\ occ_frames \in Nat /\ occ_frames <= frames
        BY WindowAssumption DEF RadarThread, WinInv, WinTypeOK
    <2>5. Incremented(frames) = frames + 1 /\ Incremented(occ_frames) = occ_frames + 1
        <3>1. frames + 1 \in 0 .. U16_MAX /\ occ_frames + 1 \in 0 .. U16_MAX
            BY <2>4
        <3> QED
            BY <2>4, <3>1, Small DEF Incremented
    <2>2. CASE f.n > 0
        BY <1>1, <2>2, <2>4, <2>5 DEF on_frame, RadarThread
    <2>3. CASE ~(f.n > 0)
        <3>1. ~(f.n > max_count)
            BY <1>2, <2>1, <2>3
        <3> QED
            BY <1>1, <2>3, <2>4, <2>5, <3>1 DEF on_frame, RadarThread
    <2> QED
        BY <2>2, <2>3
<1>4. e \in Event /\ rlog \in Seq(Event) /\ e.take = FALSE
    BY <1>2 DEF Event, WinInv, WinTypeOK
<1>5. WinTypeOK'
    <2>1. /\ max_count' \in 0 .. RADAR_MAX_TARGETS /\ frames' \in 0 .. U16_MAX /\ occ_frames' \in 0 .. frames'
          /\ occ_since' \in 0 .. clock' /\ clock' \in Nat
        BY <1>2, <1>3, WindowAssumption DEF WinInv, WinTypeOK
    <2>2. any_tracker' \in BOOLEAN
        BY <1>3
    <2> QED
        BY <1>3, <2>1, <2>2, Zenon DEF WinInv, WinTypeOK
<1> HIDE DEF e
<1>6. /\ rlog' \in Seq(Event) /\ Len(rlog') = N + 1 /\ N \in Nat /\ rlog'[N + 1] = e
      /\ \A i \in 1 .. N : rlog'[i] = rlog[i]
    BY <1>3, <1>4, EventAdded
<1>7. RunIs(occ_since', rlog', Len(rlog'))
    <2>1. clock \in Nat /\ clock >= 1 /\ occ_since \in Nat /\ RunIs(occ_since, rlog, Len(rlog))
        BY DEF WinInv, WinTypeOK
    <2>2. RunIs(IF f.n > 0 THEN (IF occ_since = 0 THEN clock ELSE occ_since) ELSE 0,
                Append(rlog, [take |-> FALSE, at |-> clock, f |-> f]), Len(rlog) + 1)
        BY <1>2, <1>4, <2>1, RunFrame
    <2> QED
        BY <1>3, <1>6, <2>2 DEF e
<1>8. PICK L \in 0 .. Len(rlog) :
         /\ LastIs(rlog, L)
         /\ Counts(frames > 0, any_tracker, max_count, rlog, L + 1 .. Len(rlog))
         /\ w # <<>> => TakenIs(w[1], rlog, L)
    BY DEF WinInv
<1>9. LastIs(rlog', L)
    <2>1. \A i \in L + 1 .. N : ~rlog[i].take
        BY <1>8 DEF LastIs
    <2>2. \A i \in L + 1 .. N + 1 : i = N + 1 \/ (i \in L + 1 .. N /\ i \in 1 .. N)
        BY <1>6, <1>8
    <2>3. L = 0 \/ L \in 1 .. N
        BY <1>6, <1>8
    <2> QED
        BY <1>4, <1>6, <1>8, <2>1, <2>2, <2>3 DEF LastIs
<1>10. Counts((frames > 0)', any_tracker', max_count', rlog', L + 1 .. Len(rlog'))
    <2>1. any_tracker \in BOOLEAN /\ max_count \in Nat /\ clock \in Nat /\ frames \in Nat
        BY WindowAssumption DEF WinInv, WinTypeOK
    <2>2. Counts(TRUE, any_tracker \/ f.tracker, IF f.n > max_count THEN f.n ELSE max_count,
                 Append(rlog, [take |-> FALSE, at |-> clock, f |-> f]), L + 1 .. Len(rlog) + 1)
        BY <1>2, <1>4, <1>8, <2>1, CountsFrame
    <2>3. (frames > 0)' = TRUE
        BY <1>3, <2>1
    <2> QED
        BY <1>3, <1>6, <2>2, <2>3 DEF e
<1>11. w' # <<>> => TakenIs(w'[1], rlog', L)
    <2> SUFFICES ASSUME w # <<>> PROVE TakenIs(w[1], rlog', L)
        BY <1>3
    <2>1. TakenIs(w[1], rlog, L) /\ L \in Nat /\ L >= 1
        BY <1>6, <1>8 DEF TakenIs
    <2>2. \A i \in 1 .. L : rlog'[i] = rlog[i]
        BY <1>6, <1>8
    <2> QED
        BY <2>1, <2>2, TakenPrefix
<1>12. L \in 0 .. Len(rlog')
    BY <1>6, <1>8
<1> QED
    BY <1>3, <1>5, <1>6, <1>7, <1>9, <1>10, <1>11, <1>12 DEF WinInv

\* window_flush is done: the history is cut down to what still matters.
LEMMA WinAppended ==
    ASSUME WinInv, AppendReturns
    PROVE  WinInv'
<1>1. /\ npc = "append" /\ npc' = "sleep" /\ w' = <<>> /\ rlog' = Relevant /\ scene' = scene
      /\ UNCHANGED <<max_count, frames, occ_frames, any_tracker, occ_since, clock>>
    BY DEF AppendReturns, At, WindowDone, occ
<1> DEFINE N == Len(rlog)
<1>2. PICK L \in 0 .. N :
         /\ LastIs(rlog, L)
         /\ Counts(frames > 0, any_tracker, max_count, rlog, L + 1 .. N)
         /\ L >= 1
    BY <1>1 DEF WinInv, TakenIs
<1>3. rlog \in Seq(Event) /\ N \in Nat /\ L \in 1 .. N /\ occ_since \in Nat /\ RunIs(occ_since, rlog, N)
    BY <1>2, LenProperties DEF WinInv, WinTypeOK
<1>4. PICK K \in 1 .. 2 :
         /\ Relevant \in Seq(Event) /\ Len(Relevant) = K + (N - L)
         /\ LastIs(Relevant, K)
         /\ \A d \in 1 .. N - L : Relevant[K + d] = rlog[L + d]
         /\ RunIs(occ_since, Relevant, Len(Relevant))
    BY <1>2, <1>3, RelevantKeeps
<1> DEFINE M == Len(Relevant)
<1>5. M \in Nat /\ K \in 0 .. M /\ M - K = N - L /\ L \in 0 .. N
    BY <1>3, <1>4
<1> HIDE DEF M, N
<1>6. Counts(frames > 0, any_tracker, max_count, Relevant, K + 1 .. M)
    BY <1>2, <1>3, <1>4, <1>5, CountsShift
<1>7. WinTypeOK'
    <2>1. WinTypeOK
        BY DEF WinInv
    <2> QED
        BY <1>1, <2>1, Zenon DEF WinTypeOK
<1>8. (frames > 0)' = (frames > 0)
    BY <1>1
<1> QED
    BY <1>1, <1>4, <1>5, <1>6, <1>7, <1>8 DEF WinInv, M

\* The share of a window's frames that were occupied, of its seconds.
LEMMA Share ==
    ASSUME NEW n \in Nat, n > 0, NEW o \in 0 .. n, NEW P \in Nat
    PROVE  (o * P) \div n \in 0 .. P
<1>1. o * P \in Nat /\ o * P <= n * P /\ n \in Nat \ {0}
    OBVIOUS
<1> DEFINE q == (o * P) \div n
           r == (o * P) % n
<1>2. o * P = n * q + r /\ q \in Nat /\ r \in 0 .. n - 1
    BY <1>1, Quotient
<1> HIDE DEF q, r
<1>3. q <= P
    <2> SUFFICES ASSUME q >= P + 1 PROVE FALSE
        BY <1>2
    <2>1. n * q >= n * (P + 1)
        BY <1>2
    <2>2. n * (P + 1) = n * P + n
        OBVIOUS
    <2> QED
        BY <1>1, <1>2, <2>1, <2>2
<1> QED
    BY <1>2, <1>3 DEF q

\* radar_window_take: the window that was open is the copy, and the next one
\* begins without a frame.
LEMMA WinTaken ==
    ASSUME WinInv, TakeRadar
    PROVE  WinInv'
<1> DEFINE N == Len(rlog)
           e == [take |-> TRUE, at |-> clock]
           since == IF frames = 0 THEN 0 ELSE occ_since
           share == IF frames = 0 THEN 0 ELSE (occ_frames * STORE_PERIOD_S) \div frames
           c == [alive |-> frames > 0, tracker |-> any_tracker, headcount |-> max_count,
                 occ_s |-> share, dwell_s |-> Dwell(since)]
<1>1. /\ npc = "radar" /\ npc' = "air" /\ w' = <<c>> /\ occ_since' = since
      /\ frames' = 0 /\ occ_frames' = 0 /\ any_tracker' = FALSE /\ max_count' = 0
      /\ rlog' = Append(rlog, e) /\ clock' = clock /\ scene' = scene
    BY DEF TakeRadar, At, radar_window_take, Took
<1>2. /\ max_count \in 0 .. RADAR_MAX_TARGETS /\ frames \in Nat /\ occ_frames \in 0 .. frames
      /\ any_tracker \in BOOLEAN /\ occ_since \in 0 .. clock /\ clock \in Nat /\ clock >= 1
    BY DEF WinInv, WinTypeOK
<1>3. share \in 0 .. STORE_PERIOD_S /\ since \in 0 .. clock /\ since \in Nat
    <2>1. STORE_PERIOD_S \in Nat
        BY WindowAssumption
    <2>2. CASE frames = 0
        BY <1>2, <2>1, <2>2
    <2>3. CASE frames # 0
        BY <1>2, <2>1, <2>3, Share
    <2> QED
        BY <2>2, <2>3
<1>4. Dwell(since) = Capped(Held(since, clock))
    BY DEF Dwell, Capped, Held
<1>5. Dwell(since) \in 0 .. U16_MAX /\ (since = 0 => Dwell(since) = 0)
    <2>1. Held(since, clock) \in Nat /\ (since = 0 => Held(since, clock) = 0)
        <3>1. clock - since \in Int /\ clock - since >= 0 /\ MS_PER_S \in Nat \ {0}
            BY <1>2, <1>3, WindowAssumption
        <3>2. (clock - since) \div MS_PER_S \in Nat
            BY <3>1, Quotient
        <3> QED
            BY <3>2 DEF Held
    <2>2. U16_MAX \in Nat
        BY WindowAssumption
    <2> QED
        BY <1>4, <2>1, <2>2 DEF Capped
<1> HIDE DEF since, share
<1>6. /\ c.alive = (frames > 0) /\ c.tracker = any_tracker /\ c.headcount = max_count
      /\ c.occ_s = share /\ c.dwell_s = Dwell(since)
      /\ c \in [alive : BOOLEAN, tracker : BOOLEAN, headcount : 0 .. RADAR_MAX_TARGETS,
                occ_s : 0 .. STORE_PERIOD_S, dwell_s : 0 .. U16_MAX]
    BY <1>2, <1>3, <1>5
<1> HIDE DEF c
<1>7. w' # <<>> /\ w'[1] = c
    BY <1>1
<1>8. WinTypeOK'
    <2>1. /\ max_count' \in 0 .. RADAR_MAX_TARGETS /\ frames' \in 0 .. U16_MAX /\ occ_frames' \in 0 .. frames'
          /\ occ_since' \in 0 .. clock' /\ clock' \in Nat
        BY <1>1, <1>2, <1>3, WindowAssumption
    <2> QED
        BY <1>1, <1>6, <1>7, <2>1, Zenon DEF WinTypeOK
<1>9. e \in Event /\ rlog \in Seq(Event) /\ e.take = TRUE /\ e.at = clock
    BY <1>2 DEF Event, WinInv
<1> HIDE DEF e
<1>10. /\ rlog' \in Seq(Event) /\ Len(rlog') = N + 1 /\ N \in Nat /\ rlog'[N + 1] = e
       /\ \A i \in 1 .. N : rlog'[i] = rlog[i]
    BY <1>1, <1>9, EventAdded
<1>11. PICK L \in 0 .. N :
          /\ LastIs(rlog, L)
          /\ Counts(frames > 0, any_tracker, max_count, rlog, L + 1 .. N)
    BY DEF WinInv
<1>12. frames = 0 <=> L + 1 .. N = {}
    BY <1>2, <1>11 DEF Counts
<1>13. RunIs(since, rlog', N + 1)
    <2>1. occ_since \in Nat /\ RunIs(occ_since, rlog, Len(rlog))
        BY <1>2 DEF WinInv
    <2>2. RunIs(IF L + 1 .. Len(rlog) = {} THEN 0 ELSE occ_since,
                Append(rlog, [take |-> TRUE, at |-> clock]), Len(rlog) + 1)
        BY <1>2, <1>9, <1>11, <2>1, RunTake
    <2> QED
        BY <1>1, <1>12, <2>2 DEF since, e
<1>14. N + 1 \in 0 .. Len(rlog') /\ LastIs(rlog', N + 1)
    <2>1. N + 1 \in 0 .. Len(rlog') /\ (N + 1) + 1 .. Len(rlog') = {}
        BY <1>10
    <2> QED
        BY <1>9, <1>10, <2>1 DEF LastIs
<1>15. Counts((frames > 0)', any_tracker', max_count', rlog', (N + 1) + 1 .. Len(rlog'))
    <2>1. (N + 1) + 1 .. Len(rlog') = {} /\ ~(frames > 0)'
        BY <1>1, <1>10
    <2> QED
        BY <1>1, <2>1 DEF Counts
<1>16. TakenIs(c, rlog', N + 1)
    <2>1. Since(rlog', N + 1) = L + 1 .. N
        <3>1. Since(rlog, N + 1) = L + 1 .. N
            BY <1>10, <1>11, SinceLast
        <3>2. Since(rlog', N + 1) = Since(rlog, N + 1)
            <4> HIDE DEF N
            <4> QED
                BY <1>10, Prefix
        <3> QED
            BY <3>1, <3>2
    <2>2. \A i \in L + 1 .. N : rlog'[i] = rlog[i]
        BY <1>10, <1>11
    <2>3. Counts(c.alive, c.tracker, c.headcount, rlog', Since(rlog', N + 1))
        BY <1>6, <1>11, <2>1, <2>2 DEF Counts
    <2>4. c.dwell_s = Capped(Held(since, rlog'[N + 1].at))
        BY <1>4, <1>6, <1>9, <1>10
    <2>5. N + 1 >= 1
        BY <1>10
    <2> QED
        BY <1>3, <1>13, <2>3, <2>4, <2>5 DEF TakenIs
<1>17. ~c.alive => c.occ_s = 0 /\ c.dwell_s = 0
    <2>1. ~(frames > 0) => frames = 0
        BY <1>2
    <2> QED
        BY <1>5, <1>6, <2>1 DEF share, since
<1>18. RunIs(occ_since', rlog', Len(rlog'))
    BY <1>1, <1>10, <1>13
<1> QED
    BY <1>1, <1>2, <1>7, <1>8, <1>10, <1>14, <1>15, <1>16, <1>17, <1>18 DEF WinInv

LEMMA WinStep == WinInv /\ [NodeNext]_nodeVars => WinInv'
<1> SUFFICES ASSUME WinInv, [NodeNext]_nodeVars PROVE WinInv'
    OBVIOUS
<1> USE DEF winVars, occ
<1>1. CASE /\ UNCHANGED <<max_count, frames, occ_frames, any_tracker, occ_since, w, rlog, scene>>
           /\ clock' = clock \/ clock' = clock + 1
           /\ npc' \in {"air", "append"} <=> npc \in {"air", "append"}
    <2>1. WinTypeOK /\ clock \in Nat /\ clock >= 1 /\ occ_since \in 0 .. clock
        BY DEF WinInv, WinTypeOK
    <2>2. clock' \in Nat /\ clock' >= 1 /\ occ_since' \in 0 .. clock'
        BY <1>1, <2>1
    <2>3. WinTypeOK'
        BY <1>1, <2>1, <2>2, Zenon DEF WinTypeOK
    <2>4. (frames > 0)' = (frames > 0)
        BY <1>1
    <2> QED
        BY <1>1, <2>2, <2>3, <2>4 DEF WinInv
<1>2. CASE Start \/ Poll \/ TakeAir \/ Wake
    BY <1>1, <1>2 DEF Start, Poll, TakeAir, Wake, At
<1>3. CASE TakeRadar
    BY <1>3, WinTaken
<1>4. CASE AppendReturns
    BY <1>4, WinAppended
<1>5. CASE RadarThread
    BY <1>5, WinFrame
<1>6. CASE Time \/ Device \/ UNCHANGED nodeVars
    BY <1>1, <1>6 DEF Time, Tick, Device, loop, nodeVars
<1> QED
    BY <1>2, <1>3, <1>4, <1>5, <1>6 DEF NodeNext, MainLoop

LEMMA WinAlways == NodeSpec => []WinInv
    BY WinBegins, WinStep, PTL DEF NodeSpec

\* The accumulators of radar.c fit their C types in every window of at most
\* 65535 frames (MaxFrames is assumed not to be more): frames and occ_frames
\* do not wrap, so the share of occupied frames, occ_s, fits its window and
\* the record's byte; dwell_s saturates at 16 bits.
THEOREM WinTypeCorrect == NodeSpec => []WinTypeOK
<1>1. WinInv => WinTypeOK
    BY DEF WinInv
<1> QED
    BY <1>1, WinAlways, PTL

\* headcount in a record is the most that one frame showed of exactly those
\* on_frame folded in between the last two takes, as many as the counters
\* hold and wherever the takes fell between them.
THEOREM HeadcountOfWindowAlways == NodeSpec => []HeadcountOfWindow
<1>1. WinInv => HeadcountOfWindow
    <2> SUFFICES ASSUME WinInv, w # <<>>
                 PROVE  /\ w[1].alive <=> FramesOf(LastTake) # {}
                        /\ w[1].headcount = Max({rlog[i].f.n : i \in FramesOf(LastTake)} \union {0})
        BY DEF HeadcountOfWindow
    <2>1. PICK L \in 0 .. Len(rlog) : LastIs(rlog, L) /\ TakenIs(w[1], rlog, L)
        BY DEF WinInv
    <2>2. LastTake = L
        BY <2>1, LastTakeIs DEF WinInv
    <2> DEFINE of == Since(rlog, L)
               S == {rlog[i].f.n : i \in of} \union {0}
               most == w[1].headcount
    <2>3. FramesOf(LastTake) = of
        BY <2>2, RunUpToIs
    <2>4. Counts(w[1].alive, w[1].tracker, most, rlog, of)
        BY <2>1 DEF TakenIs
    <2>5. most \in Nat
        BY WindowAssumption DEF WinInv, WinTypeOK
    <2>6. ASSUME NEW i \in of PROVE rlog[i].f.n \in Int
        <3>1. i \in 1 .. L - 1 /\ i \in i .. L - 1 /\ i \in 1 .. Len(rlog)
            BY <2>1, LenProperties DEF Since, WinInv
        <3>2. ~rlog[i].take /\ rlog[i] \in Event
            BY <3>1, ElementOfSeq DEF Since, WinInv
        <3>3. rlog[i].f.n \in 0 .. RADAR_MAX_TARGETS
            BY <3>2, EventTypes
        <3> QED
            BY <3>3
    <2>7. S \subseteq Int
        BY <2>6
    <2>8. most \in S
        BY <2>4 DEF Counts
    <2>9. \A x \in S : x <= most
        BY <2>4, <2>5 DEF Counts
    <2>10. Max(S) = most
        <3> HIDE DEF S, most
        <3> QED
            BY <2>7, <2>8, <2>9, MaxIs
    <2>11. w[1].alive <=> of # {}
        BY <2>4 DEF Counts
    <2> QED
        BY <2>3, <2>10, <2>11
<1> QED
    BY <1>1, WinAlways, PTL

\* dwell_s is the age of the occupancy, counted from its first frame over any
\* number of windows, until an empty frame or a window without frames breaks
\* it, and at most U16_MAX.
THEOREM DwellUnbrokenAlways == NodeSpec => []DwellUnbroken
<1>1. WinInv => DwellUnbroken
    <2> DEFINE run == RunUpTo(LastTake)
               age == IF run = {} THEN 0
                      ELSE (rlog[LastTake].at - rlog[Min(run)].at) \div MS_PER_S
    <2> SUFFICES ASSUME WinInv, w # <<>>
                 PROVE  w[1].dwell_s = Min({age, U16_MAX})
        BY DEF DwellUnbroken
    <2>1. PICK L \in 0 .. Len(rlog) : LastIs(rlog, L) /\ TakenIs(w[1], rlog, L)
        BY DEF WinInv
    <2>2. LastTake = L
        BY <2>1, LastTakeIs DEF WinInv
    <2>3. run = Run(rlog, L)
        BY <2>2, RunUpToIs
    <2>4. PICK since \in Nat : RunIs(since, rlog, L) /\ w[1].dwell_s = Capped(Held(since, rlog[L].at))
        BY <2>1 DEF TakenIs
    <2>5. Held(since, rlog[L].at) = age
        <3>1. CASE since = 0 /\ Run(rlog, L) = {}
            BY <2>3, <3>1 DEF Held
        <3>2. CASE \E m \in Run(rlog, L) :
                      (\A i \in Run(rlog, L) : m <= i) /\ since = rlog[m].at /\ since > 0
            <4>1. PICK m \in Run(rlog, L) :
                     (\A i \in Run(rlog, L) : m <= i) /\ since = rlog[m].at /\ since > 0
                BY <3>2
            <4>2. Run(rlog, L) \subseteq Int
                BY DEF Run
            <4>3. Min(run) = m
                BY <2>3, <4>1, <4>2, MinIs
            <4>4. since # 0 /\ run # {}
                BY <2>3, <4>1
            <4> QED
                BY <2>2, <4>1, <4>3, <4>4 DEF Held
        <3> QED
            BY <2>4, <3>1, <3>2 DEF RunIs
    <2>6. age \in Int
        <3>1. rlog[L].at \in Nat /\ MS_PER_S \in Nat \ {0}
            <4>1. L \in 1 .. Len(rlog)
                BY <2>1 DEF TakenIs
            <4> QED
                BY <4>1, ElementOfSeq, EventTypes, WindowAssumption DEF WinInv
        <3>2. rlog[L].at - since \in Int
            BY <3>1
        <3>3. (rlog[L].at - since) \div MS_PER_S \in Int
            BY <3>1, <3>2, Quotient
        <3>4. Held(since, rlog[L].at) \in Int
            BY <3>3 DEF Held
        <3> QED
            BY <2>5, <3>4
    <2> HIDE DEF age
    <2>7. Min({age, U16_MAX}) = Capped(age)
        <3>1. U16_MAX \in Int
            BY WindowAssumption
        <3>2. /\ {age, U16_MAX} \subseteq Int /\ Capped(age) \in {age, U16_MAX}
              /\ \A x \in {age, U16_MAX} : Capped(age) <= x
            BY <2>6, <3>1 DEF Capped
        <3> DEFINE both == {age, U16_MAX}
                   k == Capped(age)
        <3>3. both \subseteq Int /\ k \in both /\ \A x \in both : k <= x
            BY <3>2
        <3> HIDE DEF both, k
        <3>4. Min(both) = k
            BY <3>3, MinIs
        <3> QED
            BY <3>4 DEF both, k
    <2> QED
        BY <2>4, <2>5, <2>7
<1> QED
    BY <1>1, WinAlways, PTL
-----------------------------------------------------------------------------
(* The record *)

\* Each flag of a record can be read off by itself.
LEMMA FlagBits ==
    ASSUME NEW x \in {0, 1}, NEW y \in {0, 64}, NEW z \in {0, 32}, NEW F, F = x + y + z + 4
    PROVE  /\ (F \div 1) % 2 = 1 <=> x = 1
           /\ (F \div 64) % 2 = 1 <=> y = 64
           /\ (F \div 32) % 2 = 1 <=> z = 32
    OBVIOUS

\* Whatever the sensors did meanwhile: SENSOR_FAULT means no frame and no
\* occupancy; a window without target lists is tagged NO_TRACKER, and a
\* headcount above 1 is a target list's and untagged; AQ_FAULT is set when no
\* air was sampled, and else only over a fatal fault.  Not claimed: that an
\* untagged headcount of 1 is a target list's, nor that every fatal fault is
\* tagged; both fail.
THEOREM RecordTellsAlways == NodeSpec => []RecordTells
<1>1. WinInv /\ AirInv => RecordTells
    <2> SUFFICES ASSUME WinInv, AirInv, npc = "append"
                 PROVE  /\ Has(SNTL_FLAG_SENSOR_FAULT) <=> FramesOf(LastTake) = {}
                        /\ Has(SNTL_FLAG_SENSOR_FAULT) =>
                              rec.headcount = 0 /\ rec.occ_s = 0 /\ rec.dwell_s = 0
                        /\ (\A i \in FramesOf(LastTake) : ~rlog[i].f.tracker) =>
                              Has(SNTL_FLAG_NO_TRACKER)
                        /\ rec.headcount > 1 =>
                              /\ ~Has(SNTL_FLAG_NO_TRACKER)
                              /\ \E i \in FramesOf(LastTake) :
                                    rlog[i].f.tracker /\ rlog[i].f.n = rec.headcount
                        /\ staken = <<>> => Has(SNTL_FLAG_AQ_FAULT)
                        /\ Has(SNTL_FLAG_AQ_FAULT) =>
                              staken = <<>> \/ status \intersect {"FAN", "LASER"} # {}
        BY DEF RecordTells
    <2>1. w # <<>> /\ aq # <<>>
        BY DEF WinInv, AirInv
    <2>2. /\ w[1].alive \in BOOLEAN /\ w[1].tracker \in BOOLEAN /\ w[1].headcount \in Nat
          /\ aq[1].alive \in BOOLEAN
        <3>1. w[1].alive \in BOOLEAN /\ w[1].tracker \in BOOLEAN
              /\ w[1].headcount \in 0 .. RADAR_MAX_TARGETS
            BY <2>1 DEF WinInv, WinTypeOK
        <3>2. aq[1] \in AirWindow
            BY <2>1 DEF AirInv, SenTypeOK
        <3>3. aq[1].alive \in BOOLEAN
            BY <3>2 DEF AirWindow
        <3>4. w[1].headcount \in Nat
            BY <3>1
        <3> QED
            BY <3>1, <3>3, <3>4
    <2>3. /\ Has(SNTL_FLAG_SENSOR_FAULT) <=> ~w[1].alive
          /\ Has(SNTL_FLAG_AQ_FAULT) <=> ~aq[1].alive
          /\ Has(SNTL_FLAG_NO_TRACKER) <=> ~w[1].tracker
        <3>1. rec.flags = Flag(~w[1].alive, 1) + Flag(~aq[1].alive, 64) + Flag(~w[1].tracker, 32) + 4
            BY DEF rec, Flags, SNTL_FLAG_SENSOR_FAULT, SNTL_FLAG_AQ_FAULT, SNTL_FLAG_NO_TRACKER,
                   SNTL_FLAG_RTC_UNSET
        <3> DEFINE F == rec.flags
                   x == Flag(~w[1].alive, 1)
                   y == Flag(~aq[1].alive, 64)
                   z == Flag(~w[1].tracker, 32)
        <3>2. /\ x \in {0, 1} /\ (x = 1 <=> ~w[1].alive)
              /\ y \in {0, 64} /\ (y = 64 <=> ~aq[1].alive)
              /\ z \in {0, 32} /\ (z = 32 <=> ~w[1].tracker)
              /\ F = x + y + z + 4
            BY <3>1 DEF Flag
        <3> HIDE DEF F, x, y, z
        <3>3. /\ (F \div 1) % 2 = 1 <=> x = 1
              /\ (F \div 64) % 2 = 1 <=> y = 64
              /\ (F \div 32) % 2 = 1 <=> z = 32
            BY <3>2, FlagBits
        <3> QED
            BY <3>2, <3>3 DEF F, Has, SNTL_FLAG_SENSOR_FAULT, SNTL_FLAG_AQ_FAULT, SNTL_FLAG_NO_TRACKER
    <2>4. rec.headcount = w[1].headcount /\ rec.occ_s = w[1].occ_s /\ rec.dwell_s = w[1].dwell_s
        BY DEF rec
    <2>5. PICK L \in 0 .. Len(rlog) : LastIs(rlog, L) /\ TakenIs(w[1], rlog, L)
        BY <2>1 DEF WinInv
    <2> DEFINE of == Since(rlog, L)
    <2>6. FramesOf(LastTake) = of
        <3>1. LastTake = L
            BY <2>5, LastTakeIs DEF WinInv
        <3> QED
            BY <3>1, RunUpToIs
    <2>7. /\ w[1].alive <=> of # {}
          /\ w[1].tracker <=> \E i \in of : rlog[i].f.tracker
          /\ w[1].headcount = 0 \/ \E i \in of : rlog[i].f.n = w[1].headcount
        BY <2>5 DEF TakenIs, Counts
    <2>8. ASSUME NEW i \in of, ~rlog[i].f.tracker PROVE rlog[i].f.n <= 1
        <3>1. i \in 1 .. L - 1 /\ i \in i .. L - 1 /\ i \in 1 .. Len(rlog)
            BY <2>5, LenProperties DEF Since, WinInv
        <3>2. ~rlog[i].take /\ rlog[i] \in Event
            BY <3>1, ElementOfSeq DEF Since, WinInv
        <3> QED
            BY <2>8, <3>2, EventTypes
    <2>9. ~w[1].alive => w[1].headcount = 0 /\ w[1].occ_s = 0 /\ w[1].dwell_s = 0
        BY <2>1, <2>7 DEF WinInv
    <2>10. w[1].headcount > 1 =>
              \E i \in of : rlog[i].f.tracker /\ rlog[i].f.n = w[1].headcount
        BY <2>2, <2>7, <2>8
    <2>11. /\ aq[1].alive => staken # <<>>
           /\ ~aq[1].alive => staken = <<>> \/ status \intersect {"FAN", "LASER"} # {}
        BY <2>1 DEF AirInv, fatal, STATUS_FATAL
    <2> HIDE DEF of
    <2> QED
        BY <2>3, <2>4, <2>6, <2>7, <2>9, <2>10, <2>11
<1> QED
    BY <1>1, WinAlways, AirAlways, PTL
-----------------------------------------------------------------------------
(* The record on the wire *)

\* Unsigned and signed, of 8, 16 and 32 bits.
Bytes == {x \in Nat : x < 256}
U16   == {x \in Nat : x < 65536}
S16   == {x \in Int : -32768 <= x /\ x < 32768}
U32   == {x \in Nat : x < 65536 * 65536}

\* Words of 16 bits on the bus and in a record, stamps of 32: the widths of
\* the C types.
WireFits ==
    /\ Word = 65536 /\ U16_MAX <= 65535
    /\ Stamps \subseteq [seq : U32, ts : U32]

\* The two bytes of a word.
Low(x)  == x % 256
High(x) == (x \div 256) % 256

\* They are bytes, and this is what they are worth together: of a signed
\* word, the high byte tells the sign.
LEMMA Le2Is ==
    ASSUME NEW x \in Int
    PROVE  /\ Low(x) \in Bytes /\ High(x) \in Bytes
           /\ x >= 0 => Low(x) + 256 * High(x) = x % 65536
           /\ 0 <= x /\ x < 65536 => Low(x) + 256 * High(x) = x
           /\ 0 <= x /\ x < 32768 => High(x) < 128
           /\ -32768 <= x /\ x < 0 =>
                 /\ Low(x) + 256 * High(x) = x + 65536
                 /\ High(x) >= 128
    BY DEF Bytes, Low, High

LEMMA ConcatIs ==
    ASSUME NEW s \in Seq(Bytes), NEW t \in Seq(Bytes)
    PROVE  /\ s \o t \in Seq(Bytes)
           /\ Len(s \o t) = Len(s) + Len(t)
           /\ \A i \in 1 .. Len(s) : (s \o t)[i] = s[i]
           /\ \A i \in 1 .. Len(t) : (s \o t)[Len(s) + i] = t[i]
<1> DEFINE c == s \o t
           m == Len(s)
           n == Len(t)
<1>1. /\ c \in Seq(Bytes) /\ Len(c) = m + n
      /\ \A i \in 1 .. m + n : c[i] = IF i <= m THEN s[i] ELSE t[i - m]
    BY ConcatProperties
<1>2. m \in Nat /\ n \in Nat
    BY LenProperties
<1> HIDE DEF c, m, n
<1>3. \A i \in 1 .. m : c[i] = s[i]
    BY <1>1, <1>2
<1>4. ASSUME NEW i \in 1 .. n PROVE c[m + i] = t[i]
    <2>1. m + i \in 1 .. m + n /\ ~(m + i <= m) /\ (m + i) - m = i
        BY <1>2
    <2> QED
        BY <1>1, <2>1
<1> QED
    BY <1>1, <1>3, <1>4 DEF c, m, n

\* Two bytes more.
Grown(c, s, x, y) ==
    /\ c \in Seq(Bytes) /\ Len(c) = Len(s) + 2
    /\ \A i \in 1 .. Len(s) : c[i] = s[i]
    /\ c[Len(s) + 1] = x /\ c[Len(s) + 2] = y

LEMMA TwoMore ==
    ASSUME NEW s \in Seq(Bytes), NEW x \in Bytes, NEW y \in Bytes
    PROVE  Grown(s \o <<x, y>>, s, x, y)
<1> DEFINE t == <<x, y>>
<1>1. t \in Seq(Bytes) /\ Len(t) = 2 /\ t[1] = x /\ t[2] = y
    OBVIOUS
<1> HIDE DEF t
<1> DEFINE c == s \o t
<1>2. /\ c \in Seq(Bytes)
      /\ Len(c) = Len(s) + Len(t)
      /\ \A i \in 1 .. Len(s) : c[i] = s[i]
      /\ \A i \in 1 .. Len(t) : c[Len(s) + i] = t[i]
    BY <1>1, ConcatIs, Zenon
<1> HIDE DEF c
<1>3. Len(c) = Len(s) + 2 /\ c[Len(s) + 1] = x /\ c[Len(s) + 2] = y
    BY <1>1, <1>2
<1>4. Grown(c, s, x, y)
    BY <1>2, <1>3 DEF Grown
<1> QED
    BY <1>4, Zenon DEF c, t

LEMMA WordMore ==
    ASSUME NEW s \in Seq(Bytes), NEW x \in Int
    PROVE  Grown(s \o Le2(x), s, Low(x), High(x))
<1>1. Low(x) \in Bytes /\ High(x) \in Bytes
    BY Le2Is
<1>2. Le2(x) = <<Low(x), High(x)>>
    BY DEF Le2, Byte, Low, High
<1> QED
    BY <1>1, <1>2, TwoMore, Zenon

\* The four bytes of a stamp, and what they are worth together.
LEMMA Le4Is ==
    ASSUME NEW x \in U32
    PROVE  /\ Le4(x) \in Seq(Bytes) /\ Len(Le4(x)) = 4
           /\ FromLe(Le4(x)) = x
<1> DEFINE y == x \div 65536
<1>1. x \in Int /\ x >= 0 /\ y \in Int /\ 0 <= y /\ y < 65536 /\ x = (x % 65536) + 65536 * y
    BY DEF U32
<1> HIDE DEF y
<1>2. Le2(x) \in Seq(Bytes) /\ Len(Le2(x)) = 2
      /\ Le2(x)[1] = Low(x) /\ Le2(x)[2] = High(x)
    <2>1. Low(x) \in Bytes /\ High(x) \in Bytes
        BY <1>1, Le2Is
    <2>2. Le2(x) = <<Low(x), High(x)>>
        BY DEF Le2, Byte, Low, High
    <2> QED
        BY <2>1, <2>2
<1> DEFINE low == Le2(x)
           b == low \o Le2(y)
<1> HIDE DEF low
<1>3. /\ b \in Seq(Bytes) /\ Len(b) = 4 /\ b[1] = low[1] /\ b[2] = low[2]
      /\ b[3] = Low(y) /\ b[4] = High(y)
    <2>1. low \in Seq(Bytes) /\ Len(low) = 2
        BY <1>2 DEF low
    <2>y. y \in Int
        BY <1>1
    <2>2. Grown(b, low, Low(y), High(y))
        BY <2>y, <2>1, WordMore, Zenon
    <2> HIDE DEF b
    <2> QED
        BY <2>1, <2>2 DEF Grown
<1>4. Le4(x) = b
    BY DEF Le4, Byte, low, y
<1> HIDE DEF b
<1>5. b[1] = Low(x) /\ b[2] = High(x)
    BY <1>2, <1>3 DEF low
<1>6. FromLe(b) = x
    <2> DEFINE p == Low(x)
               q == High(x)
               r == Low(y)
               t == High(y)
    <2>1. /\ p \in Bytes /\ q \in Bytes /\ r \in Bytes /\ t \in Bytes
          /\ p + 256 * q = x % 65536 /\ r + 256 * t = y
        BY <1>1, Le2Is
    <2>2. FromLe(b) = p + 256 * (q + 256 * (r + 256 * t))
        BY <1>3, <1>5 DEF FromLe, Byte
    <2> DEFINE m == x % 65536
    <2>3. m \in Int /\ x = m + 65536 * y /\ p + 256 * q = m
        BY <1>1, <2>1
    <2> HIDE DEF p, q, r, t, m
    <2> QED
        BY <1>1, <2>1, <2>2, <2>3 DEF Bytes
<1> QED
    BY <1>3, <1>4, <1>6

\* FromLe looks only at its four bytes.
LEMMA FromLeSame ==
    ASSUME NEW a, NEW b, a[1] = b[1], a[2] = b[2], a[3] = b[3], a[4] = b[4]
    PROVE  FromLe(a) = FromLe(b)
    BY DEF FromLe

\* A record of window_flush, stamped.
Whole == [seq : U32, ts : U32,
          headcount : Bytes, occ_s : Bytes, dwell_s : U16,
          pm25 : U16, pm10 : U16,
          temp : S16, rh : S16, voc : S16,
          flags : Bytes, batt : Bytes]

\* The first n items of a and b are the same.
Same(a, b, n) == \A i \in 1 .. n : a[i] = b[i]

LEMMA SameThrough ==
    ASSUME NEW a, NEW b, NEW c, NEW m \in Nat, NEW n \in Nat, n <= m,
           Same(a, b, m), Same(b, c, n)
    PROVE  Same(a, c, n)
    BY DEF Same

\* Where in the 24 bytes each field is.
LEMMA EncodedIs ==
    ASSUME NEW r \in Whole
    PROVE  LET b == sntl_encode_record(r)
           IN  /\ b \in Seq(Bytes) /\ Len(b) = 24
               /\ FromLe(SubSeq(b, 1, 4)) = r.seq /\ FromLe(SubSeq(b, 5, 8)) = r.ts
               /\ b[9] = r.headcount /\ b[10] = r.occ_s
               /\ b[11] = Low(r.dwell_s) /\ b[12] = High(r.dwell_s)
               /\ b[13] = r.flags /\ b[14] = r.batt
               /\ b[15] = Low(r.pm25) /\ b[16] = High(r.pm25)
               /\ b[17] = Low(r.pm10) /\ b[18] = High(r.pm10)
               /\ b[19] = Low(r.temp) /\ b[20] = High(r.temp)
               /\ b[21] = Low(r.rh) /\ b[22] = High(r.rh)
               /\ b[23] = Low(r.voc) /\ b[24] = High(r.voc)
<1>0. /\ r.seq \in U32 /\ r.ts \in U32
      /\ r.headcount \in Bytes /\ r.occ_s \in Bytes /\ r.flags \in Bytes /\ r.batt \in Bytes
    BY DEF Whole
<1>i. r.dwell_s \in Int /\ r.pm25 \in Int /\ r.pm10 \in Int
      /\ r.temp \in Int /\ r.rh \in Int /\ r.voc \in Int
    BY DEF Whole, U16, S16
<1> DEFINE s1 == Le4(r.seq)
           s2 == Le4(r.ts)
           c2 == s1 \o s2
           c3 == c2 \o <<r.headcount, r.occ_s>>
           c4 == c3 \o Le2(r.dwell_s)
           c5 == c4 \o <<r.flags, r.batt>>
           c6 == c5 \o Le2(r.pm25)
           c7 == c6 \o Le2(r.pm10)
           c8 == c7 \o Le2(r.temp)
           c9 == c8 \o Le2(r.rh)
           b  == c9 \o Le2(r.voc)
<1>b. sntl_encode_record(r) = b
    BY DEF sntl_encode_record
<1>1. /\ s1 \in Seq(Bytes) /\ Len(s1) = 4 /\ FromLe(s1) = r.seq
      /\ s2 \in Seq(Bytes) /\ Len(s2) = 4 /\ FromLe(s2) = r.ts
    BY <1>0, Le4Is
<1> HIDE DEF s1, s2
<1>2. /\ c2 \in Seq(Bytes) /\ Len(c2) = 8
      /\ \A i \in 1 .. 4 : c2[i] = s1[i]
      /\ \A i \in 1 .. 4 : c2[4 + i] = s2[i]
    <2>1. /\ c2 \in Seq(Bytes) /\ Len(c2) = Len(s1) + Len(s2)
          /\ \A i \in 1 .. Len(s1) : c2[i] = s1[i]
          /\ \A i \in 1 .. Len(s2) : c2[Len(s1) + i] = s2[i]
        BY <1>1, ConcatIs, Zenon
    <2> HIDE DEF c2
    <2> QED
        BY <1>1, <2>1
<1> HIDE DEF c2
<1>3. /\ c3 \in Seq(Bytes) /\ Len(c3) = 10
      /\ Same(c3, c2, 8)
      /\ c3[9] = r.headcount /\ c3[10] = r.occ_s
    <2>1. Grown(c3, c2, r.headcount, r.occ_s)
        BY <1>0, <1>2, TwoMore, Zenon
    <2> HIDE DEF c3
    <2> QED
        BY <1>2, <2>1 DEF Grown, Same
<1> HIDE DEF c3
<1>4. /\ c4 \in Seq(Bytes) /\ Len(c4) = 12
      /\ Same(c4, c3, 10)
      /\ c4[11] = Low(r.dwell_s) /\ c4[12] = High(r.dwell_s)
    <2>1. Grown(c4, c3, Low(r.dwell_s), High(r.dwell_s))
        BY <1>i, <1>3, WordMore, Zenon
    <2> HIDE DEF c4
    <2> QED
        BY <1>3, <2>1 DEF Grown, Same
<1> HIDE DEF c4
<1>5. /\ c5 \in Seq(Bytes) /\ Len(c5) = 14
      /\ Same(c5, c4, 12)
      /\ c5[13] = r.flags /\ c5[14] = r.batt
    <2>1. Grown(c5, c4, r.flags, r.batt)
        BY <1>0, <1>4, TwoMore, Zenon
    <2> HIDE DEF c5
    <2> QED
        BY <1>4, <2>1 DEF Grown, Same
<1> HIDE DEF c5
<1>6. /\ c6 \in Seq(Bytes) /\ Len(c6) = 16
      /\ Same(c6, c5, 14)
      /\ c6[15] = Low(r.pm25) /\ c6[16] = High(r.pm25)
    <2>1. Grown(c6, c5, Low(r.pm25), High(r.pm25))
        BY <1>i, <1>5, WordMore, Zenon
    <2> HIDE DEF c6
    <2> QED
        BY <1>5, <2>1 DEF Grown, Same
<1> HIDE DEF c6
<1>7. /\ c7 \in Seq(Bytes) /\ Len(c7) = 18
      /\ Same(c7, c6, 16)
      /\ c7[17] = Low(r.pm10) /\ c7[18] = High(r.pm10)
    <2>1. Grown(c7, c6, Low(r.pm10), High(r.pm10))
        BY <1>i, <1>6, WordMore, Zenon
    <2> HIDE DEF c7
    <2> QED
        BY <1>6, <2>1 DEF Grown, Same
<1> HIDE DEF c7
<1>8. /\ c8 \in Seq(Bytes) /\ Len(c8) = 20
      /\ Same(c8, c7, 18)
      /\ c8[19] = Low(r.temp) /\ c8[20] = High(r.temp)
    <2>1. Grown(c8, c7, Low(r.temp), High(r.temp))
        BY <1>i, <1>7, WordMore, Zenon
    <2> HIDE DEF c8
    <2> QED
        BY <1>7, <2>1 DEF Grown, Same
<1> HIDE DEF c8
<1>9. /\ c9 \in Seq(Bytes) /\ Len(c9) = 22
      /\ Same(c9, c8, 20)
      /\ c9[21] = Low(r.rh) /\ c9[22] = High(r.rh)
    <2>1. Grown(c9, c8, Low(r.rh), High(r.rh))
        BY <1>i, <1>8, WordMore, Zenon
    <2> HIDE DEF c9
    <2> QED
        BY <1>8, <2>1 DEF Grown, Same
<1> HIDE DEF c9
<1>10. /\ b \in Seq(Bytes) /\ Len(b) = 24
       /\ Same(b, c9, 22)
       /\ b[23] = Low(r.voc) /\ b[24] = High(r.voc)
    <2>1. Grown(b, c9, Low(r.voc), High(r.voc))
        BY <1>i, <1>9, WordMore, Zenon
    <2> HIDE DEF b
    <2> QED
        BY <1>9, <2>1 DEF Grown, Same
<1> HIDE DEF b
<1>11. /\ \A i \in 1 .. 8 : b[i] = c2[i]
       /\ b[9] = c3[9] /\ b[10] = c3[10] /\ b[11] = c4[11] /\ b[12] = c4[12]
       /\ b[13] = c5[13] /\ b[14] = c5[14] /\ b[15] = c6[15] /\ b[16] = c6[16]
       /\ b[17] = c7[17] /\ b[18] = c7[18] /\ b[19] = c8[19] /\ b[20] = c8[20]
       /\ b[21] = c9[21] /\ b[22] = c9[22]
    <2>1. Same(b, c8, 20)
        BY <1>9, <1>10, SameThrough
    <2>2. Same(b, c7, 18)
        BY <1>8, <2>1, SameThrough
    <2>3. Same(b, c6, 16)
        BY <1>7, <2>2, SameThrough
    <2>4. Same(b, c5, 14)
        BY <1>6, <2>3, SameThrough
    <2>5. Same(b, c4, 12)
        BY <1>5, <2>4, SameThrough
    <2>6. Same(b, c3, 10)
        BY <1>4, <2>5, SameThrough
    <2>7. Same(b, c2, 8)
        BY <1>3, <2>6, SameThrough
    <2> QED
        BY <1>10, <2>1, <2>2, <2>3, <2>4, <2>5, <2>6, <2>7 DEF Same
<1>12. FromLe(SubSeq(b, 1, 4)) = r.seq /\ FromLe(SubSeq(b, 5, 8)) = r.ts
    <2> DEFINE x == SubSeq(b, 1, 4)
               y == SubSeq(b, 5, 8)
    <2>0. \A i \in 1 .. 24 : b[i] \in Bytes
        BY <1>10, ElementOfSeq
    <2>1. \A i \in 1 .. 4 - 1 + 1 : x[i] = b[1 + i - 1]
        <3>1. \A i \in 1 .. 4 : b[i] \in Bytes
            BY <2>0
        <3> QED
            BY <3>1, SubSeqProperties
    <2>2. \A i \in 1 .. 8 - 5 + 1 : y[i] = b[5 + i - 1]
        <3>1. \A i \in 5 .. 8 : b[i] \in Bytes
            BY <2>0
        <3> QED
            BY <3>1, SubSeqProperties
    <2> HIDE DEF x, y
    <2>3. \A i \in 1 .. 4 : x[i] = b[i]
        BY <2>1
    <2>4. \A i \in 1 .. 4 : y[i] = b[4 + i]
        BY <2>2
    <2>5. \A i \in 1 .. 4 : b[i] = s1[i] /\ b[4 + i] = s2[i]
        <3>1. \A i \in 1 .. 8 : b[i] = c2[i]
            BY <1>11
        <3>2. \A i \in 1 .. 4 : i \in 1 .. 8 /\ 4 + i \in 1 .. 8
            OBVIOUS
        <3> QED
            BY <1>2, <3>1, <3>2
    <2>7. x[1] = s1[1] /\ x[2] = s1[2] /\ x[3] = s1[3] /\ x[4] = s1[4]
        BY <2>3, <2>5
    <2>8. y[1] = s2[1] /\ y[2] = s2[2] /\ y[3] = s2[3] /\ y[4] = s2[4]
        BY <2>4, <2>5
    <2>9. FromLe(x) = FromLe(s1) /\ FromLe(y) = FromLe(s2)
        BY <2>7, <2>8, FromLeSame
    <2> QED
        BY <1>1, <2>9 DEF x, y
<1>13. /\ b[9] = r.headcount /\ b[10] = r.occ_s
       /\ b[11] = Low(r.dwell_s) /\ b[12] = High(r.dwell_s)
       /\ b[13] = r.flags /\ b[14] = r.batt
       /\ b[15] = Low(r.pm25) /\ b[16] = High(r.pm25)
       /\ b[17] = Low(r.pm10) /\ b[18] = High(r.pm10)
       /\ b[19] = Low(r.temp) /\ b[20] = High(r.temp)
       /\ b[21] = Low(r.rh) /\ b[22] = High(r.rh)
       /\ b[23] = Low(r.voc) /\ b[24] = High(r.voc)
    BY <1>3, <1>4, <1>5, <1>6, <1>7, <1>8, <1>9, <1>10, <1>11
<1> QED
    BY <1>b, <1>10, <1>12, <1>13, Zenon

\* What a central makes of them.
LEMMA DecodedIs ==
    ASSUME NEW r \in Whole
    PROVE  LET b == sntl_encode_record(r)
           IN  b \in Seq(Bytes) /\ Len(b) = SNTL_RECORD_SIZE /\ Decoded(b) = r
<1> DEFINE b == sntl_encode_record(r)
<1>1. /\ b \in Seq(Bytes) /\ Len(b) = 24
      /\ FromLe(SubSeq(b, 1, 4)) = r.seq /\ FromLe(SubSeq(b, 5, 8)) = r.ts
      /\ b[9] = r.headcount /\ b[10] = r.occ_s /\ b[13] = r.flags /\ b[14] = r.batt
    BY EncodedIs
<1>2. /\ b[11] = Low(r.dwell_s) /\ b[12] = High(r.dwell_s)
      /\ b[15] = Low(r.pm25) /\ b[16] = High(r.pm25)
      /\ b[17] = Low(r.pm10) /\ b[18] = High(r.pm10)
    BY EncodedIs
<1>3. /\ b[19] = Low(r.temp) /\ b[20] = High(r.temp)
      /\ b[21] = Low(r.rh) /\ b[22] = High(r.rh)
      /\ b[23] = Low(r.voc) /\ b[24] = High(r.voc)
    BY EncodedIs
<1> HIDE DEF b
<1>4. ASSUME NEW i \in {11, 15, 17}, NEW x \in U16,
             b[i] = Low(x), b[i + 1] = High(x)
      PROVE  Wide(b, i) = x
    <2>1. Low(x) + 256 * High(x) = x
        BY Le2Is DEF U16
    <2> QED
        BY <1>4, <2>1 DEF Wide, Byte
<1>5. ASSUME NEW i \in {19, 21, 23}, NEW x \in S16,
             b[i] = Low(x), b[i + 1] = High(x)
      PROVE  Signed2(b, i) = x
    <2> DEFINE p == Low(x)
               q == High(x)
    <2>1. /\ p \in Int /\ q \in Int
          /\ x >= 0 => p + 256 * q = x /\ q < 128
          /\ x < 0 => p + 256 * q = x + 65536 /\ q >= 128
        BY Le2Is DEF Bytes, S16
    <2>2. Signed2(b, i) = IF q >= 128 THEN (p + 256 * q) - 65536 ELSE p + 256 * q
        BY <1>5 DEF Signed2, Wide, Byte
    <2> HIDE DEF p, q
    <2> QED
        BY <2>1, <2>2 DEF S16
<1>6. r.dwell_s = Wide(b, 11) /\ r.pm25 = Wide(b, 15) /\ r.pm10 = Wide(b, 17)
    <2>1. r.dwell_s \in U16 /\ r.pm25 \in U16 /\ r.pm10 \in U16
        BY DEF Whole
    <2>2. 11 + 1 = 12 /\ 15 + 1 = 16 /\ 17 + 1 = 18
        OBVIOUS
    <2> QED
        BY <1>2, <1>4, <2>1, <2>2
<1>7. r.temp = Signed2(b, 19) /\ r.rh = Signed2(b, 21) /\ r.voc = Signed2(b, 23)
    <2>1. r.temp \in S16 /\ r.rh \in S16 /\ r.voc \in S16
        BY DEF Whole
    <2>2. 19 + 1 = 20 /\ 21 + 1 = 22 /\ 23 + 1 = 24
        OBVIOUS
    <2> QED
        BY <1>3, <1>5, <2>1, <2>2
<1>8. r = [seq |-> r.seq, ts |-> r.ts, headcount |-> r.headcount, occ_s |-> r.occ_s,
           dwell_s |-> r.dwell_s, flags |-> r.flags, batt |-> r.batt,
           pm25 |-> r.pm25, pm10 |-> r.pm10, temp |-> r.temp, rh |-> r.rh, voc |-> r.voc]
    BY DEF Whole
<1>9. Decoded(b) = [seq |-> r.seq, ts |-> r.ts, headcount |-> r.headcount, occ_s |-> r.occ_s,
           dwell_s |-> r.dwell_s, flags |-> r.flags, batt |-> r.batt,
           pm25 |-> r.pm25, pm10 |-> r.pm10, temp |-> r.temp, rh |-> r.rh, voc |-> r.voc]
    BY <1>1, <1>6, <1>7, Zenon DEF Decoded
<1> QED
    BY <1>1, <1>8, <1>9 DEF b, SNTL_RECORD_SIZE

\* The record of a window is one, once it is stamped.
LEMMA RecordIsWhole ==
    ASSUME WinInv, AirInv, WireFits, npc = "append", NEW at \in Stamps
    PROVE  [rec EXCEPT !.seq = at.seq, !.ts = at.ts] \in Whole
<1>1. w # <<>> /\ aq # <<>>
    BY DEF WinInv, AirInv
<1>2. /\ w[1].headcount \in Bytes /\ w[1].occ_s \in Bytes /\ w[1].dwell_s \in U16
    <2>1. /\ w[1].headcount \in 0 .. RADAR_MAX_TARGETS /\ w[1].occ_s \in 0 .. STORE_PERIOD_S
          /\ w[1].dwell_s \in 0 .. U16_MAX
        BY <1>1 DEF WinInv, WinTypeOK
    <2>2. RADAR_MAX_TARGETS \in 1 .. 255 /\ STORE_PERIOD_S \in 1 .. 255
          /\ U16_MAX \in Nat /\ U16_MAX <= 65535
        BY WindowAssumption DEF WireFits
    <2> QED
        BY <2>1, <2>2 DEF Bytes, U16
<1>3. /\ aq[1].pm25 \in U16 /\ aq[1].pm10 \in U16
      /\ aq[1].temp \in S16 /\ aq[1].rh \in S16
      /\ aq[1].voc \in S16
    <2>1. aq[1] \in AirWindow
        BY <1>1 DEF AirInv, SenTypeOK
    <2>2. /\ Word - 1 = 65535 /\ Word \div 2 - 1 = 32767 /\ -(Word \div 2) = -32768
        BY DEF WireFits
    <2> QED
        BY <2>1, <2>2 DEF AirWindow, SField, U16, S16
<1>4. Flags \in Bytes
    <2>1. Flags = Flag(~w[1].alive, 1) + Flag(~aq[1].alive, 64) + Flag(~w[1].tracker, 32) + 4
        BY DEF Flags, SNTL_FLAG_SENSOR_FAULT, SNTL_FLAG_AQ_FAULT, SNTL_FLAG_NO_TRACKER,
               SNTL_FLAG_RTC_UNSET
    <2>2. /\ Flag(~w[1].alive, 1) \in {0, 1} /\ Flag(~aq[1].alive, 64) \in {0, 64}
          /\ Flag(~w[1].tracker, 32) \in {0, 32}
        BY DEF Flag
    <2> QED
        BY <2>1, <2>2 DEF Bytes
<1>5. at.seq \in U32 /\ at.ts \in U32
    BY DEF WireFits
<1>6. 100 \in Bytes /\ 0 \in U32
    BY DEF Bytes, U32
<1>7. rec \in Whole
    BY <1>2, <1>3, <1>4, <1>6, Zenon DEF rec, Whole
<1> QED
    BY <1>5, <1>7 DEF Whole

\* What goes on air for a record is 24 bytes.
OnWire ==
    npc = "append" =>
        \A at \in Stamps :
            sntl_encode_record([rec EXCEPT !.seq = at.seq, !.ts = at.ts]) \in Seq(Bytes)

\* Whatever a window ends with, and under every 32-bit seq and ts, the record
\* is encoded in bytes, and a central that decodes them gets the record back:
\* no field of window_flush is too wide for its place in the frame, and
\* temperatures below zero keep their sign.
THEOREM WireRoundTripAlways == NodeSpec /\ WireFits => [](WireRoundTrip /\ OnWire)
<1>1. WinInv /\ AirInv /\ WireFits => WireRoundTrip /\ OnWire
    <2> SUFFICES ASSUME WinInv, AirInv, WireFits, npc = "append", NEW at \in Stamps
                 PROVE  LET whole == [rec EXCEPT !.seq = at.seq, !.ts = at.ts]
                            b     == sntl_encode_record(whole)
                        IN  /\ Len(b) = SNTL_RECORD_SIZE /\ Decoded(b) = whole
                            /\ b \in Seq(Bytes)
        BY Zenon DEF WireRoundTrip, OnWire
    <2> DEFINE whole == [rec EXCEPT !.seq = at.seq, !.ts = at.ts]
    <2>1. whole \in Whole
        BY RecordIsWhole, Zenon
    <2> HIDE DEF whole
    <2>2. LET b == sntl_encode_record(whole)
          IN  b \in Seq(Bytes) /\ Len(b) = SNTL_RECORD_SIZE /\ Decoded(b) = whole
        BY <2>1, DecodedIs, Zenon
    <2> QED
        BY <2>2, Zenon DEF whole
<1>2. WireFits /\ [NodeNext]_nodeVars => WireFits'
    BY DEF WireFits
<1> QED
    BY <1>1, <1>2, WinAlways, AirAlways, PTL DEF NodeSpec
=============================================================================
