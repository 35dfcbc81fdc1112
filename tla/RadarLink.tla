----------------------------- MODULE RadarLink -----------------------------
(***************************************************************************)
(* The host side of the radar link, src/radar.c: one UART that carries the *)
(* CLI until sensorStart returns and binary frames ever after.             *)
(*                                                                         *)
(* Three actors: the radar thread (reset, configure, read frames, notice a *)
(* stall, start over), the UART interrupt that fills the ring, and the     *)
(* demo on the radar chip, which is external and modelled from what the    *)
(* comments of src/radar.c say of it.  It may reject a line, die, or take  *)
(* longer to answer or to boot than the thread waits.  The wire to its     *)
(* NRST pin is optional: without it the pulse on the pin goes nowhere.     *)
(***************************************************************************)
EXTENDS Naturals, Sequences

CONSTANTS
    cfg_lines,      \* the profile: lines of kind "stop", "set" and, last, "start"
    RX_RING_SIZE,   \* bytes in the ring
    BUF_LEN,        \* sizeof(buf) in cli_wait
    TAIL_LEN,       \* what its slide keeps
    EchoLens,       \* how much text may come in front of an answer
    MaxSlips,       \* bound: answers and boots that come too late
    MaxHangs,       \* bound: how often a stream breaks: the demo dies, or the
                    \* thread loses the framing of what it sends
    DROP_CAP        \* bound: rx_dropped is counted up to here

\* What a byte is to the readers.  Binary frames are one symbol; they have
\* NUL bytes in them, which end a C string.
DONE         == <<"D", "n">>
RADAR_PROMPT == <<"m", ">">>
Text         == "x"
Frame        == "F"
Bytes        == {"D", "n", "m", ">", Text, Frame}

ASSUME LinkAssumption ==
    /\ cfg_lines \in Seq({"stop", "set", "start"}) /\ cfg_lines # <<>>
    /\ \A i \in 1 .. Len(cfg_lines) :
          cfg_lines[i] \in (IF i = Len(cfg_lines) THEN {"start"} ELSE {"stop", "set"})
    /\ RX_RING_SIZE \in Nat \ {0}
    /\ TAIL_LEN \in Nat /\ BUF_LEN \in Nat /\ TAIL_LEN + 1 < BUF_LEN
    /\ TAIL_LEN > Len(DONE) /\ TAIL_LEN > Len(RADAR_PROMPT)
    /\ EchoLens \subseteq Nat
    /\ MaxSlips \in Nat /\ MaxHangs \in Nat /\ DROP_CAP \in Nat \ {0}

VARIABLES
    ring, rx_dropped,   \* rx_rb, written by the ISR and read by the thread
    lpc,                \* where the radar thread is
    step,               \* which line of the script it is at
    buf, done,          \* the locals of cli_wait
    demo,               \* the radar: "boot", "cli", "streaming" or "deaf"
    started,            \* it has accepted a sensorStart since its last reset
    out,                \* what it has yet to send
    slips, hangs,       \* how often so far
    wired,              \* the NRST wire is connected; never changes
    verdict,            \* history: what the demo made of the last line
    slipped,            \* history: no reset has reached the demo, or something
                        \* came too late since the last one that did
    ret                 \* history: the last line's outcome, as the thread saw
                        \* it and as the demo meant it

thread   == <<lpc, step, buf, done>>
radar    == <<demo, started, out>>
uart     == <<ring, rx_dropped>>
env      == <<slips, hangs, wired>>
hist     == <<verdict, slipped, ret>>
linkVars == <<uart, thread, radar, env, hist>>

\* radar_reset up to the pulse on NRST, the empty line that ends it, and the
\* profile.
Script   == <<"stop", "warm", "nrst", "empty">> \o cfg_lines
FirstCfg == 5

NoRet == [step |-> 0, ok |-> FALSE, verdict |-> "none"]

Echo(n) == [i \in 1 .. n |-> Text]
Banner  == <<Text>> \o RADAR_PROMPT

LinkInit ==
    /\ ring = <<>> /\ rx_dropped = 0
    /\ lpc = "drain" /\ step = 1 /\ buf = <<>> /\ done = FALSE
    /\ demo \in {"cli", "streaming", "deaf"}    \* the node alone was reset
    /\ started = (demo # "cli")
    /\ out = <<>>
    /\ slips = 0 /\ hangs = 0 /\ wired \in BOOLEAN
    /\ verdict = "none" /\ slipped = FALSE /\ ret = NoRet
-----------------------------------------------------------------------------
(* The interrupt *)

\* ring_buf_put takes what fits; a byte that does not is counted.
uart_isr(b) ==
    IF Len(ring) < RX_RING_SIZE
    THEN ring' = Append(ring, b) /\ UNCHANGED rx_dropped
    ELSE /\ rx_dropped' = IF rx_dropped < DROP_CAP THEN rx_dropped + 1 ELSE DROP_CAP
         /\ UNCHANGED ring
-----------------------------------------------------------------------------
(* The demo *)

DemoSends ==
    /\ out # <<>>
    /\ uart_isr(Head(out))
    /\ out' = Tail(out)
    /\ UNCHANGED <<thread, demo, started, env, hist>>

DemoBoots ==
    /\ demo = "boot"
    /\ out = <<>>
    /\ demo' = "cli"
    /\ UNCHANGED <<uart, thread, started, out, env, hist>>

DemoStreams ==
    /\ demo = "streaming"
    /\ out = <<>>
    /\ uart_isr(Frame)
    /\ UNCHANGED <<thread, radar, env, hist>>

\* "The demo can stop dead": only NRST brings it back.
DemoHangs ==
    /\ demo = "streaming"
    /\ out = <<>>
    /\ hangs < MaxHangs
    /\ hangs' = hangs + 1
    /\ demo' = "deaf"
    /\ UNCHANGED <<uart, thread, started, out, slips, wired, hist>>

Answers(v) ==
    /\ verdict' = v
    /\ \E n \in EchoLens :
          out' = out \o Echo(n) \o (IF v = "done" THEN DONE ELSE <<>>) \o RADAR_PROMPT

Deaf ==
    /\ verdict' = "none"
    /\ UNCHANGED radar

\* A demo that was started before takes every line with "Done" and then never
\* streams; a start that fails leaves it deaf.
HearsStart ==
    \/ /\ Answers("done")
       /\ demo' = IF started THEN demo ELSE "streaming"
       /\ started' = TRUE
    \/ Answers("error") /\ demo' = "deaf" /\ UNCHANGED started

Hears(line) ==
    \/ line = "stop"  /\ Answers("done") /\ demo' = "cli" /\ UNCHANGED started
    \/ line = "warm"  /\ demo' = "boot" /\ started' = FALSE /\ out' = Banner
                      /\ verdict' = "none"
    \/ line = "empty" /\ Answers("prompt") /\ UNCHANGED <<demo, started>>
    \/ line = "set"   /\ (Answers("done") \/ Answers("error"))
                      /\ UNCHANGED <<demo, started>>
    \/ line = "start" /\ HearsStart
-----------------------------------------------------------------------------
(* The CLI *)

Goto(k) ==
    /\ step' = k
    /\ lpc' = IF Script[k] = "nrst" THEN "nrst" ELSE "drain"

cli_drain == ring' = <<>>

\* cli_line begins: throw away what came before ...
LineBegins ==
    /\ lpc = "drain"
    /\ cli_drain
    /\ lpc' = "write"
    /\ UNCHANGED <<rx_dropped, step, buf, done, radar, env, hist>>

Listening == demo \in {"cli", "streaming"}

\* ... and send the line, one character a millisecond.
cli_write ==
    /\ lpc = "write"
    /\ IF Listening THEN Hears(Script[step]) ELSE Deaf
    /\ lpc' = "wait"
    /\ buf' = <<>> /\ done' = FALSE
    /\ UNCHANGED <<uart, step, env, slipped, ret>>

\* cli_line returns ok.  Only the outcome of sensorStart decides anything.
Returns(ok) ==
    /\ ret' = [step |-> step, ok |-> ok, verdict |-> verdict]
    /\ buf' = <<>> /\ done' = FALSE
    /\ \/ step < Len(Script) /\ Goto(step + 1)
       \/ step = Len(Script) /\ ok /\ lpc' = "stream" /\ UNCHANGED step
       \/ step = Len(Script) /\ ~ok /\ lpc' = "sleep" /\ UNCHANGED step

\* What strstr sees of s: it stops at the first NUL.
CString(s) ==
    LET nuls == {i \in 1 .. Len(s) : s[i] = Frame}
    IN  IF nuls = {} THEN s
        ELSE SubSeq(s, 1, (CHOOSE i \in nuls : \A j \in nuls : i <= j) - 1)

strstr(s, token) ==
    \E i \in 0 .. Len(CString(s)) - Len(token) :
        SubSeq(CString(s), i + 1, i + Len(token)) = token

\* Defect: nothing makes room in a full buffer.
Bug_NoSlide(s) == s

\* Defect: a full buffer is thrown away whole.
Bug_SlideAll(s) == IF Len(s) >= BUF_LEN - 1 THEN <<>> ELSE s

\* A full buffer keeps its tail, longer than either token.
Slide(s) ==
    IF Len(s) >= BUF_LEN - 1 THEN SubSeq(s, Len(s) - TAIL_LEN + 1, Len(s)) ELSE s

\* A turn of the loop in cli_wait that finds a byte.
cli_wait ==
    LET s == Append(buf, Head(ring))
        d == done \/ strstr(s, DONE)
    IN  /\ lpc = "wait"
        /\ ring # <<>>
        /\ ring' = Tail(ring)
        /\ \/ strstr(s, RADAR_PROMPT) /\ Returns(d)
           \/ /\ ~strstr(s, RADAR_PROMPT)
              /\ buf' = Slide(s) /\ done' = d
              /\ UNCHANGED <<lpc, step, ret>>
        /\ UNCHANGED <<rx_dropped, radar, env, verdict, slipped>>

\* Nothing is on its way that the thread could still hear in time.
Silent ==
    /\ out = <<>>
    /\ \A i \in 1 .. Len(ring) : ring[i] = Frame

\* The deadline: a silent demo, or an answer that is too late.
Timeout ==
    /\ lpc = "wait"
    /\ \/ (verdict = "none" \/ Silent) /\ UNCHANGED <<slips, slipped>>
       \/ /\ verdict # "none" /\ ~Silent
          /\ slips < MaxSlips
          /\ slips' = slips + 1 /\ slipped' = TRUE
    /\ Returns(done)
    /\ UNCHANGED <<uart, radar, hangs, wired, verdict>>
-----------------------------------------------------------------------------
(* radar_reset, radar_configure, radar_thread *)

NoReset == UNCHANGED radar /\ slipped' = (demo = "deaf")

\* Defect: the pin is not pulsed; the warm reset has to do.
Bug_NoPulse ==
    /\ lpc = "nrst"
    /\ lpc' = "boot"
    /\ NoReset
    /\ ret' = NoRet
    /\ UNCHANGED <<uart, step, buf, done, env, verdict>>

\* NRST low for 20 ms.  "Pulsing an unconnected NRST pin is harmless": a demo
\* that heard the warm reset boots all the same, a deaf one stays deaf.
Pulse ==
    /\ lpc = "nrst"
    /\ lpc' = "boot"
    /\ \/ /\ wired
          /\ demo' = "boot" /\ started' = FALSE /\ out' = Banner
          /\ slipped' = FALSE
       \/ ~wired /\ NoReset
    /\ ret' = NoRet
    /\ UNCHANGED <<uart, step, buf, done, env, verdict>>

\* Two seconds for the demo to boot and print its banner, which is thrown
\* away with the rest.
BootWaited ==
    /\ lpc = "boot"
    /\ \/ demo # "boot" /\ UNCHANGED <<slips, slipped>>
       \/ /\ demo = "boot"
          /\ slips < MaxSlips
          /\ slips' = slips + 1 /\ slipped' = TRUE
    /\ cli_drain
    /\ Goto(step + 1)
    /\ UNCHANGED <<rx_dropped, buf, done, radar, hangs, wired, verdict, ret>>

\* sensorStart was not accepted: five seconds, and from the top.
Retry ==
    /\ lpc = "sleep"
    /\ Goto(1)
    /\ UNCHANGED <<uart, buf, done, radar, env, hist>>

\* The receive loop takes a byte; module RadarRx has what becomes of it.
Receive ==
    /\ lpc = "stream"
    /\ ring # <<>>
    /\ ring' = Tail(ring)
    /\ UNCHANGED <<rx_dropped, thread, radar, env, hist>>

\* Ten seconds without a whole frame: the demo has stopped, or it is talking
\* and the framing is lost.
NoFrames ==
    \/ /\ demo # "streaming" /\ Silent
       /\ ring = <<>>
       /\ UNCHANGED hangs
    \/ /\ demo = "streaming"
       /\ hangs < MaxHangs
       /\ hangs' = hangs + 1

\* Defect: after a stall the profile is sent again without a reset.
Bug_StallSkipsReset ==
    /\ lpc = "stream"
    /\ NoFrames
    /\ Goto(FirstCfg)
    /\ UNCHANGED <<uart, buf, done, radar, slips, wired, hist>>

Stall ==
    /\ lpc = "stream"
    /\ NoFrames
    /\ Goto(1)
    /\ UNCHANGED <<uart, buf, done, radar, slips, wired, hist>>

RadarThread ==
    \/ LineBegins \/ cli_write \/ cli_wait \/ Timeout
    \/ Pulse \/ BootWaited \/ Retry \/ Receive \/ Stall

LinkNext ==
    \/ RadarThread
    \/ DemoSends \/ DemoBoots \/ DemoStreams \/ DemoHangs

Accepted == cli_write /\ demo = "cli" /\ demo' = "streaming"

\* The thread has a priority of its own and its deadlines come, however much
\* there is to read;
\* the demo sends what it has to say and boots, and does not reject for ever
\* the sensorStart of a profile it is known to take.
LinkFairness ==
    /\ WF_linkVars(RadarThread) /\ WF_linkVars(Timeout)
    /\ WF_linkVars(DemoSends) /\ WF_linkVars(DemoBoots)
    /\ SF_linkVars(Accepted)

LinkSpec == LinkInit /\ [][LinkNext]_linkVars /\ LinkFairness
-----------------------------------------------------------------------------
(* Properties *)

\* The ring and the buffer of cli_wait stay inside their arrays, the NUL
\* behind the text included.
LinkTypeOK ==
    /\ ring \in Seq(Bytes) /\ Len(ring) <= RX_RING_SIZE
    /\ rx_dropped \in 0 .. DROP_CAP
    /\ lpc \in {"drain", "write", "wait", "nrst", "boot", "sleep", "stream"}
    /\ step \in 1 .. Len(Script)
    /\ buf \in Seq(Bytes) /\ Len(buf) < BUF_LEN /\ done \in BOOLEAN
    /\ demo \in {"boot", "cli", "streaming", "deaf"} /\ started \in BOOLEAN
    /\ slips \in 0 .. MaxSlips /\ hangs \in 0 .. MaxHangs /\ wired \in BOOLEAN

\* "Only an explicit Done counts": for every line sent after a reset that
\* reached the demo, cli_line returns 1 just when the demo answered that very
\* line with Done, wherever in the buffer of cli_wait the answer falls and
\* whatever was in the ring before.  It takes answers that arrive in time:
\* cli_wait stops at the first prompt it sees, so one late answer shifts all
\* that follow by a line.
DoneCredited ==
    ~slipped /\ ret.step >= FirstCfg => (ret.ok <=> ret.verdict = "done")

\* "Reset before every cfg": no line of the profile is taken by a demo that
\* was started before, which would take them all and never stream.  This
\* holds with and without the NRST wire, and even when answers were credited
\* to the wrong lines.
NeverInPlace ==
    lpc = "write" /\ step >= FirstCfg /\ Listening => ~started

Streams == lpc = "stream" /\ demo = "streaming"

\* Nothing but NRST wakes a demo up that is deaf, and there is no wire to it.
OutOfReach == ~wired /\ demo = "deaf"

\* Once the radar stops dying and its answers come in time, the node is back
\* at reading frames for good, from wherever it was: a failed configuration,
\* a "Done" that belonged to another line, a lost framing, a demo that only
\* the pulse on NRST wakes up.  Without the wire this takes a demo that never
\* goes deaf.
Settles == <>[](Streams \/ OutOfReach)
=============================================================================
