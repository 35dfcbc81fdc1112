---------------------------- MODULE LinkProofs ----------------------------
(***************************************************************************)
(* The radar link, for every profile, ring and buffer size, every amount   *)
(* of text in front of an answer, any number of late answers and hangs,    *)
(* with the NRST wire and without it.                                      *)
(***************************************************************************)
EXTENDS RadarLink, SequenceTheorems, TLAPS

Lines == {"stop", "warm", "nrst", "empty", "set", "start"}

\* The script is radar_reset followed by the profile: the pin is pulsed at
\* its third step and nowhere else, and sensorStart is its last line.
LEMMA ScriptShape ==
    /\ Script \in Seq(Lines) /\ Len(Script) \in Nat /\ Len(Script) >= FirstCfg
    /\ \A k \in 1 .. Len(Script) :
          /\ Script[k] = "nrst" <=> k = 3
          /\ Script[k] = "start" <=> k = Len(Script)
          /\ Script[k] = "warm" <=> k = 2
          /\ Script[k] = "empty" <=> k = 4
          /\ Script[k] \in Lines
<1> DEFINE head == <<"stop", "warm", "nrst", "empty">>
<1>1. /\ head \in Seq(Lines) /\ Len(head) = 4
      /\ head[1] = "stop" /\ head[2] = "warm" /\ head[3] = "nrst" /\ head[4] = "empty"
    BY DEF Lines
<1>2. /\ cfg_lines \in Seq(Lines) /\ Len(cfg_lines) \in Nat \ {0}
      /\ \A i \in 1 .. Len(cfg_lines) :
            cfg_lines[i] \in (IF i = Len(cfg_lines) THEN {"start"} ELSE {"stop", "set"})
    <2>1. cfg_lines \in Seq({"stop", "set", "start"}) /\ cfg_lines # <<>>
        BY LinkAssumption
    <2>2. {"stop", "set", "start"} \subseteq Lines
        BY DEF Lines
    <2>3. cfg_lines \in Seq(Lines)
        BY <2>1, <2>2, SeqMonotonic
    <2>4. Len(cfg_lines) \in Nat \ {0}
        BY <2>1, EmptySeq
    <2> QED
        BY <2>3, <2>4, LinkAssumption
<1> HIDE DEF head
<1>3. /\ head \o cfg_lines \in Seq(Lines)
      /\ Len(head \o cfg_lines) = 4 + Len(cfg_lines)
      /\ \A i \in 1 .. 4 + Len(cfg_lines) :
            (head \o cfg_lines)[i] = IF i <= 4 THEN head[i] ELSE cfg_lines[i - 4]
    <2> DEFINE both == head \o cfg_lines
    <2>1. /\ both \in Seq(Lines)
          /\ Len(both) = Len(head) + Len(cfg_lines)
          /\ \A i \in 1 .. Len(head) + Len(cfg_lines) :
                both[i] = IF i <= Len(head) THEN head[i] ELSE cfg_lines[i - Len(head)]
        <3>1. head \in Seq(Lines) /\ cfg_lines \in Seq(Lines)
            BY <1>1, <1>2
        <3> QED
            BY <3>1, ConcatProperties
    <2> HIDE DEF both
    <2>2. both \in Seq(Lines) /\ Len(both) = 4 + Len(cfg_lines)
        BY <1>1, <2>1
    <2>3. \A i \in 1 .. 4 + Len(cfg_lines) :
             both[i] = IF i <= 4 THEN head[i] ELSE cfg_lines[i - 4]
        BY <1>1, <2>1
    <2> QED
        BY <2>2, <2>3 DEF both
<1>4. Script = head \o cfg_lines
    BY DEF Script, head
<1>5. ASSUME NEW k \in 1 .. Len(Script)
      PROVE  /\ Script[k] = "nrst" <=> k = 3
             /\ Script[k] = "start" <=> k = Len(Script)
             /\ Script[k] = "warm" <=> k = 2
             /\ Script[k] = "empty" <=> k = 4
             /\ Script[k] \in Lines
    <2>1. CASE k <= 4
        <3>1. k \in {1, 2, 3, 4} /\ Script[k] = head[k] /\ k # Len(Script)
            BY <1>2, <1>3, <1>4, <2>1
        <3> QED
            BY <1>1, <3>1 DEF Lines
    <2>2. CASE k > 4
        <3>1. k - 4 \in 1 .. Len(cfg_lines) /\ Script[k] = cfg_lines[k - 4]
              /\ (k - 4 = Len(cfg_lines) <=> k = Len(Script))
            BY <1>2, <1>3, <1>4, <2>2
        <3>2. Script[k] \in (IF k = Len(Script) THEN {"start"} ELSE {"stop", "set"})
            BY <1>2, <3>1
        <3> QED
            BY <2>2, <3>2 DEF Lines
    <2> QED
        BY <2>1, <2>2
<1> QED
    BY <1>2, <1>3, <1>4, <1>5 DEF FirstCfg
-----------------------------------------------------------------------------
(* Types, and that no line of the profile meets a started demo *)

\* From the warm reset to the end of the wait for the boot.
Resetting == step = 3 \/ (step = 2 /\ lpc = "wait")

\* Where the thread can be at each step, and that the two resets, of which
\* the first reaches every demo that listens, leave nothing started but a
\* deaf one until sensorStart, the last line, is written.
ResetInv ==
    /\ lpc \in {"nrst", "boot"} => step = 3
    /\ lpc \in {"drain", "write", "wait"} => step # 3
    /\ lpc \in {"stream", "sleep"} => step = Len(Script)
    /\ demo = "boot" => ~started
    /\ /\ step >= 4 \/ Resetting
       /\ ~(step = Len(Script) /\ lpc \in {"wait", "stream", "sleep"})
       => ~started \/ demo = "deaf"
    /\ Resetting => demo # "streaming" /\ (demo = "cli" => out = <<>>)

Sound == LinkTypeOK /\ out \in Seq(Bytes) /\ ResetInv

\* Every answer is a sequence of bytes.
LEMMA AnswerTypes ==
    ASSUME out \in Seq(Bytes), NEW n \in EchoLens,
           NEW d \in {DONE, <<>>}
    PROVE  out \o Echo(n) \o d \o RADAR_PROMPT \in Seq(Bytes)
<1>1. n \in Nat
    BY LinkAssumption
<1>2. Echo(n) \in Seq(Bytes)
    BY <1>1 DEF Echo, Bytes, Text
<1>3. d \in Seq(Bytes)
    <2>1. DONE \in Seq(Bytes)
        BY DEF DONE, Bytes
    <2>2. <<>> \in Seq(Bytes)
        OBVIOUS
    <2> QED
        BY <2>1, <2>2
<1>4. RADAR_PROMPT \in Seq(Bytes)
    BY DEF RADAR_PROMPT, Bytes
<1>5. out \o Echo(n) \in Seq(Bytes)
    BY <1>2, ConcatProperties
<1>6. out \o Echo(n) \o d \in Seq(Bytes)
    BY <1>3, <1>5, ConcatProperties
<1> QED
    BY <1>4, <1>6, ConcatProperties

LEMMA AnswersTypes ==
    ASSUME out \in Seq(Bytes), NEW v, Answers(v)
    PROVE  out' \in Seq(Bytes)
<1>1. PICK n \in EchoLens :
         out' = out \o Echo(n) \o (IF v = "done" THEN DONE ELSE <<>>) \o RADAR_PROMPT
    BY DEF Answers
<1>2. (IF v = "done" THEN DONE ELSE <<>>) \in {DONE, <<>>}
    OBVIOUS
<1> QED
    BY <1>1, <1>2, AnswerTypes

LEMMA BannerTypes == Banner \in Seq(Bytes)
<1>1. <<Text>> \in Seq(Bytes) /\ RADAR_PROMPT \in Seq(Bytes)
    BY DEF Text, RADAR_PROMPT, Bytes
<1> QED
    BY <1>1, ConcatProperties DEF Banner

\* The interrupt never writes past the end of the ring.
LEMMA IsrKeeps ==
    ASSUME ring \in Seq(Bytes), Len(ring) <= RX_RING_SIZE,
           rx_dropped \in 0 .. DROP_CAP,
           NEW b \in Bytes, uart_isr(b)
    PROVE  /\ ring' \in Seq(Bytes) /\ Len(ring') <= RX_RING_SIZE
           /\ rx_dropped' \in 0 .. DROP_CAP
<1>1. RX_RING_SIZE \in Nat /\ DROP_CAP \in Nat
    BY LinkAssumption
<1>2. CASE Len(ring) < RX_RING_SIZE
    <2>1. ring' = Append(ring, b) /\ rx_dropped' = rx_dropped
        BY <1>2 DEF uart_isr
    <2>2. ring' \in Seq(Bytes) /\ Len(ring') = Len(ring) + 1
        BY <2>1, AppendProperties
    <2> QED
        BY <1>1, <1>2, <2>1, <2>2, LenProperties
<1>3. CASE ~(Len(ring) < RX_RING_SIZE)
    <2>1. /\ rx_dropped' = (IF rx_dropped < DROP_CAP THEN rx_dropped + 1 ELSE DROP_CAP)
          /\ ring' = ring
        BY <1>3 DEF uart_isr
    <2> QED
        BY <1>1, <2>1
<1> QED
    BY <1>2, <1>3

\* The byte that cli_wait adds and the NUL behind it are inside buf, and so
\* is what the slide leaves.
LEMMA SlideKeeps ==
    ASSUME buf \in Seq(Bytes), Len(buf) < BUF_LEN, NEW b \in Bytes
    PROVE  /\ Slide(Append(buf, b)) \in Seq(Bytes)
           /\ Len(Slide(Append(buf, b))) < BUF_LEN
<1> DEFINE s == Append(buf, b)
<1>1. s \in Seq(Bytes) /\ Len(s) = Len(buf) + 1 /\ Len(buf) \in Nat
    BY AppendProperties, LenProperties
<1>2. TAIL_LEN \in Nat /\ BUF_LEN \in Nat /\ TAIL_LEN + 1 < BUF_LEN
    BY LinkAssumption
<1> HIDE DEF s
<1>3. CASE Len(s) >= BUF_LEN - 1
    <2>1. Slide(s) = SubSeq(s, Len(s) - TAIL_LEN + 1, Len(s))
        BY <1>3 DEF Slide
    <2>2. Len(s) - TAIL_LEN + 1 \in 1 .. Len(s) + 1
        BY <1>1, <1>2, <1>3
    <2>3. /\ SubSeq(s, Len(s) - TAIL_LEN + 1, Len(s)) \in Seq(Bytes)
          /\ Len(SubSeq(s, Len(s) - TAIL_LEN + 1, Len(s))) = TAIL_LEN
        BY <1>1, <1>2, <2>2, SubSeqProperties
    <2>4. Slide(s) \in Seq(Bytes) /\ Len(Slide(s)) < BUF_LEN
        BY <1>2, <2>1, <2>3
    <2> QED
        BY <2>4 DEF s
<1>4. CASE ~(Len(s) >= BUF_LEN - 1)
    BY <1>1, <1>2, <1>4 DEF Slide, s
<1> QED
    BY <1>3, <1>4

LEMMA NothingFits ==
    <<>> \in Seq(Bytes) /\ Len(<<>>) < BUF_LEN /\ Len(<<>>) <= RX_RING_SIZE
    BY LinkAssumption

\* Where a line that returns leaves the thread.
LEMMA ReturnsKeeps ==
    ASSUME Sound, lpc = "wait", NEW ok \in BOOLEAN, Returns(ok),
           started' = started, demo' = demo, out' = out
    PROVE  /\ ResetInv'
           /\ step' \in 1 .. Len(Script)
           /\ lpc' \in {"drain", "nrst", "stream", "sleep"}
           /\ buf' = <<>> /\ done' = FALSE
<1>1. Len(Script) \in Nat /\ Len(Script) >= 5
    BY ScriptShape DEF FirstCfg
<1>2. step \in 1 .. Len(Script) /\ step # 3
    BY DEF Sound, LinkTypeOK, ResetInv
<1>3. Script' = Script
    BY DEF Script
<1>4. CASE step < Len(Script)
    <2>1. step' = step + 1 /\ lpc' = (IF Script[step + 1] = "nrst" THEN "nrst" ELSE "drain")
        BY <1>1, <1>2, <1>4 DEF Returns, Goto
    <2>2. step + 1 \in 1 .. Len(Script)
        BY <1>1, <1>2, <1>4
    <2>3. lpc' = IF step' = 3 THEN "nrst" ELSE "drain"
        BY <2>1, <2>2, ScriptShape
    <2>4. /\ step >= 2 => ~started \/ demo = "deaf"
          /\ step = 2 => demo # "streaming" /\ (demo = "cli" => out = <<>>)
          /\ demo = "boot" => ~started
        BY <1>4, <1>2 DEF Sound, ResetInv, Resetting
    <2> QED
        BY <1>1, <1>2, <1>3, <1>4, <2>1, <2>2, <2>3, <2>4
           DEF ResetInv, Resetting, Returns
<1>5. CASE step = Len(Script)
    <2>1. step' = step /\ lpc' \in {"stream", "sleep"} /\ buf' = <<>> /\ done' = FALSE
        BY <1>1, <1>2, <1>5 DEF Returns
    <2> QED
        BY <1>1, <1>2, <1>3, <1>5, <2>1 DEF Sound, ResetInv, Resetting
<1>6. step < Len(Script) \/ step = Len(Script)
    BY <1>1, <1>2
<1> QED
    BY <1>4, <1>5, <1>6

\* What a step leaves alone, it leaves sound.
LEMMA Untouched ==
    ASSUME Sound, UNCHANGED linkVars
    PROVE  Sound'
    BY DEF Sound, LinkTypeOK, ResetInv, Resetting, linkVars, uart, thread, radar, env, hist, Script

LEMMA DemoStep ==
    ASSUME Sound, DemoSends \/ DemoBoots \/ DemoStreams \/ DemoHangs
    PROVE  Sound'
<1> USE DEF Sound, ResetInv, Resetting, thread, env, hist, radar, uart
<1>0. Script' = Script
    BY DEF Script
<1>1. CASE DemoSends
    <2>1. Head(out) \in Bytes /\ Tail(out) \in Seq(Bytes)
        BY <1>1, HeadTailProperties DEF DemoSends
    <2>2. /\ ring' \in Seq(Bytes) /\ Len(ring') <= RX_RING_SIZE
          /\ rx_dropped' \in 0 .. DROP_CAP
        BY <1>1, <2>1, IsrKeeps DEF DemoSends, LinkTypeOK
    <2> QED
        BY <1>0, <1>1, <2>1, <2>2 DEF DemoSends, LinkTypeOK
<1>2. CASE DemoBoots
    BY <1>0, <1>2 DEF DemoBoots, LinkTypeOK
<1>3. CASE DemoStreams
    <2>1. Frame \in Bytes
        BY DEF Bytes
    <2>2. /\ ring' \in Seq(Bytes) /\ Len(ring') <= RX_RING_SIZE
          /\ rx_dropped' \in 0 .. DROP_CAP
        BY <1>3, <2>1, IsrKeeps DEF DemoStreams, LinkTypeOK
    <2> QED
        BY <1>0, <1>3, <2>2 DEF DemoStreams, LinkTypeOK
<1>4. CASE DemoHangs
    <2>1. hangs' \in 0 .. MaxHangs
        BY <1>4, LinkAssumption DEF DemoHangs, LinkTypeOK
    <2> QED
        BY <1>0, <1>4, <2>1 DEF DemoHangs, LinkTypeOK
<1> QED
    BY <1>1, <1>2, <1>3, <1>4

\* Only sensorStart, the last line, leaves a demo started that was not.
LEMMA WriteStep ==
    ASSUME Sound, cli_write
    PROVE  /\ Sound'
           /\ lpc' = "wait" /\ step' = step
           /\ step < Len(Script) => (started' => started)
<1>0. /\ lpc = "write" /\ lpc' = "wait" /\ buf' = <<>> /\ done' = FALSE
      /\ UNCHANGED <<ring, rx_dropped, step, slips, hangs, wired, slipped, ret>>
    BY DEF cli_write, uart, env
<1>1. Len(Script) \in Nat /\ Len(Script) >= 5 /\ step \in 1 .. Len(Script) /\ step # 3
      /\ Script' = Script
    BY <1>0, ScriptShape DEF FirstCfg, Sound, LinkTypeOK, ResetInv, Script
<1>e. buf' \in Seq(Bytes) /\ Len(buf') < BUF_LEN /\ done' \in BOOLEAN
    BY <1>0, NothingFits
<1>2. CASE ~Listening
    <2>1. UNCHANGED <<demo, started, out>>
        BY <1>2 DEF cli_write, Deaf, radar
    <2>2. LinkTypeOK'
        BY <1>0, <1>1, <1>e, <2>1 DEF Sound, LinkTypeOK
    <2>3. ResetInv'
        <3>1. demo \in {"boot", "deaf"}
            BY <1>2 DEF Sound, LinkTypeOK, Listening
        <3> QED
            BY <1>0, <1>1, <2>1, <3>1 DEF Sound, ResetInv, Resetting
    <2> QED
        BY <1>0, <2>1, <2>2, <2>3 DEF Sound, LinkTypeOK
<1>3. CASE Listening
    <2>1. Hears(Script[step])
        BY <1>3 DEF cli_write
    <2>2. out' \in Seq(Bytes)
        BY <2>1, AnswersTypes, BannerTypes DEF Hears, HearsStart, Sound
    <2>3. demo' \in {"boot", "cli", "streaming", "deaf"}
        BY <1>3, <2>1 DEF Hears, HearsStart, Sound, Listening
    <2>4. /\ started' \in BOOLEAN
          /\ step < Len(Script) => (started' => started)
        <3>1. Script[step] = "start" => step = Len(Script)
            BY <1>1, ScriptShape
        <3>2. started \in BOOLEAN
            BY DEF Sound, LinkTypeOK
        <3>3. Script[step] # "start" => (started' => started)
            BY <2>1 DEF Hears
        <3>4. started' \in BOOLEAN
            BY <2>1, <3>2 DEF Hears, HearsStart
        <3>5. step < Len(Script) => Script[step] # "start"
            BY <1>1, <3>1
        <3> QED
            BY <3>3, <3>4, <3>5
    <2>5. LinkTypeOK'
        BY <1>0, <1>1, <1>e, <2>3, <2>4 DEF Sound, LinkTypeOK
    <2>6. ResetInv'
        <3>1. step >= 4 /\ step < Len(Script) => ~started'
            BY <1>0, <1>3, <2>4 DEF Sound, ResetInv, Listening
        <3>2. step = 2 => demo' = "boot" /\ ~started'
            BY <1>1, <2>1, ScriptShape DEF Hears
        <3>3. demo' = "boot" => ~started'
            BY <1>3, <2>1 DEF Hears, HearsStart, Listening
        <3> QED
            BY <1>0, <1>1, <3>1, <3>2, <3>3 DEF Sound, ResetInv, Resetting
    <2> QED
        BY <1>0, <2>2, <2>4, <2>5, <2>6 DEF Sound
<1> QED
    BY <1>2, <1>3

LEMMA WaitStep ==
    ASSUME Sound, cli_wait
    PROVE  Sound'
<1> DEFINE s == Append(buf, Head(ring))
           d == done \/ strstr(s, DONE)
<1>0. /\ lpc = "wait" /\ ring # <<>> /\ ring' = Tail(ring)
      /\ \/ Returns(d)
         \/ buf' = Slide(s) /\ done' = d /\ UNCHANGED <<lpc, step, ret>>
      /\ UNCHANGED <<rx_dropped, demo, started, out, slips, hangs, wired, verdict, slipped>>
    BY DEF cli_wait, radar, env
<1>1. ring \in Seq(Bytes) /\ Head(ring) \in Bytes /\ ring' \in Seq(Bytes)
      /\ Len(ring') = Len(ring) - 1 /\ Len(ring) \in Nat
    BY <1>0, HeadTailProperties, LenProperties DEF Sound, LinkTypeOK
<1>2. Len(ring') <= RX_RING_SIZE
    BY <1>1, LinkAssumption DEF Sound, LinkTypeOK
<1>3. Slide(s) \in Seq(Bytes) /\ Len(Slide(s)) < BUF_LEN
    BY <1>1, SlideKeeps DEF Sound, LinkTypeOK
<1>4. d \in BOOLEAN
    BY DEF Sound, LinkTypeOK, strstr
<1> HIDE DEF s, d
<1>5. Script' = Script
    BY DEF Script
<1>6. CASE Returns(d)
    <2>1. /\ ResetInv' /\ step' \in 1 .. Len(Script)
          /\ lpc' \in {"drain", "nrst", "stream", "sleep"}
          /\ buf' = <<>> /\ done' = FALSE
        BY <1>0, <1>4, <1>6, ReturnsKeeps
    <2> QED
        BY <1>0, <1>1, <1>2, <1>5, <2>1, NothingFits DEF Sound, LinkTypeOK
<1>7. CASE buf' = Slide(s) /\ done' = d /\ UNCHANGED <<lpc, step, ret>>
    <2>1. ResetInv'
        BY <1>0, <1>5, <1>7 DEF Sound, ResetInv, Resetting
    <2> QED
        BY <1>0, <1>1, <1>2, <1>3, <1>4, <1>5, <1>7, <2>1 DEF Sound, LinkTypeOK
<1> QED
    BY <1>0, <1>6, <1>7

LEMMA TimeoutStep ==
    ASSUME Sound, Timeout
    PROVE  Sound'
<1>0. /\ lpc = "wait" /\ Returns(done) /\ slips' \in {slips, slips + 1}
      /\ slips' = slips \/ slips < MaxSlips
      /\ UNCHANGED <<ring, rx_dropped, demo, started, out, hangs, wired>>
    BY DEF Timeout, uart, radar
<1>1. slips' \in 0 .. MaxSlips /\ Script' = Script
    BY <1>0, LinkAssumption DEF Sound, LinkTypeOK, Script
<1>2. done \in BOOLEAN
    BY DEF Sound, LinkTypeOK
<1>3. /\ ResetInv' /\ step' \in 1 .. Len(Script)
      /\ lpc' \in {"drain", "nrst", "stream", "sleep"}
      /\ buf' = <<>> /\ done' = FALSE
    BY <1>0, <1>2, ReturnsKeeps
<1> QED
    BY <1>0, <1>1, <1>3, NothingFits DEF Sound, LinkTypeOK

LEMMA ThreadStep ==
    ASSUME Sound, LineBegins \/ Pulse \/ BootWaited \/ Retry \/ Receive \/ Stall
    PROVE  Sound'
<1>0. /\ Len(Script) \in Nat /\ Len(Script) >= 5 /\ Script' = Script
      /\ Script[1] # "nrst" /\ Script[4] # "nrst"
    BY ScriptShape DEF FirstCfg, Script
<1> USE DEF Sound, thread, env, hist, radar, uart
<1>1. CASE LineBegins
    BY <1>0, <1>1, NothingFits DEF LineBegins, cli_drain, LinkTypeOK, ResetInv, Resetting
<1>2. CASE Pulse
    <2>1. lpc' = "boot" /\ step = 3 /\ UNCHANGED <<uart, step, buf, done, env>>
        BY <1>2 DEF Pulse, ResetInv
    <2>2. \/ demo' = "boot" /\ ~started' /\ started' \in BOOLEAN /\ out' = Banner
          \/ UNCHANGED <<demo, started, out>>
        BY <1>2 DEF Pulse, NoReset
    <2>3. out' \in Seq(Bytes)
        BY <2>2, BannerTypes
    <2>4. LinkTypeOK'
        BY <1>0, <2>1, <2>2 DEF LinkTypeOK
    <2>5. ResetInv'
        <3>1. lpc' = "boot" /\ step = 3 /\ step' = 3 /\ step # Len(Script)
            BY <1>0, <2>1
        <3>2. CASE demo' = "boot" /\ ~started'
            BY <1>0, <3>1, <3>2 DEF ResetInv, Resetting
        <3>3. CASE UNCHANGED <<demo, started, out>>
            BY <1>0, <3>1, <3>3 DEF ResetInv, Resetting
        <3> QED
            BY <2>2, <3>2, <3>3
    <2> QED
        BY <2>3, <2>4, <2>5
<1>3. CASE BootWaited
    <2>1. step = 3 /\ step' = 4 /\ lpc' = "drain" /\ ring' = <<>>
          /\ UNCHANGED <<rx_dropped, buf, done, demo, started, out, hangs, wired>>
        BY <1>0, <1>3 DEF BootWaited, Goto, ResetInv, cli_drain
    <2>2. slips' \in 0 .. MaxSlips
        BY <1>3, LinkAssumption DEF BootWaited, LinkTypeOK
    <2> QED
        BY <1>0, <1>3, <2>1, <2>2, NothingFits DEF LinkTypeOK, ResetInv, Resetting
<1>4. CASE Retry
    BY <1>0, <1>4 DEF Retry, Goto, LinkTypeOK, ResetInv, Resetting
<1>5. CASE Receive
    <2>1. ring' \in Seq(Bytes) /\ Len(ring') = Len(ring) - 1 /\ Len(ring) \in Nat
        BY <1>5, HeadTailProperties, LenProperties DEF Receive, LinkTypeOK
    <2>2. Len(ring') <= RX_RING_SIZE
        BY <2>1, LinkAssumption DEF LinkTypeOK
    <2> QED
        BY <1>0, <1>5, <2>1, <2>2 DEF Receive, LinkTypeOK, ResetInv, Resetting
<1>6. CASE Stall
    <2>1. hangs' \in 0 .. MaxHangs
        BY <1>6, LinkAssumption DEF Stall, NoFrames, LinkTypeOK
    <2>2. /\ step' = 1 /\ lpc' = "drain"
          /\ UNCHANGED <<uart, buf, done, radar, slips, wired>>
        BY <1>0, <1>6 DEF Stall, Goto
    <2> QED
        BY <1>0, <2>1, <2>2 DEF LinkTypeOK, ResetInv, Resetting
<1> QED
    BY <1>1, <1>2, <1>3, <1>4, <1>5, <1>6

LEMMA SoundInit == LinkInit => Sound
<1> SUFFICES ASSUME LinkInit PROVE Sound
    OBVIOUS
<1>1. Len(Script) \in Nat /\ Len(Script) >= 5
    BY ScriptShape DEF FirstCfg
<1>2. /\ 0 \in 0 .. MaxSlips /\ 0 \in 0 .. MaxHangs /\ 0 \in 0 .. DROP_CAP
    BY LinkAssumption
<1>3. started \in BOOLEAN /\ demo \in {"boot", "cli", "streaming", "deaf"}
    BY DEF LinkInit
<1>4. LinkTypeOK /\ out \in Seq(Bytes)
    <2>1. /\ ring \in Seq(Bytes) /\ Len(ring) <= RX_RING_SIZE
          /\ buf \in Seq(Bytes) /\ Len(buf) < BUF_LEN /\ out \in Seq(Bytes)
        BY NothingFits DEF LinkInit
    <2>2. step \in 1 .. Len(Script)
        BY <1>1 DEF LinkInit
    <2> QED
        BY <1>2, <1>3, <2>1, <2>2 DEF LinkInit, LinkTypeOK
<1>5. ResetInv
    BY <1>1 DEF LinkInit, ResetInv, Resetting
<1> QED
    BY <1>4, <1>5 DEF Sound

LEMMA SoundStep == Sound /\ [LinkNext]_linkVars => Sound'
<1> SUFFICES ASSUME Sound, [LinkNext]_linkVars PROVE Sound'
    OBVIOUS
<1> QED
    BY Untouched, DemoStep, WriteStep, WaitStep, TimeoutStep, ThreadStep
       DEF LinkNext, RadarThread

LEMMA SoundAlways == LinkSpec => []Sound
    BY SoundInit, SoundStep, PTL DEF LinkSpec

\* The ring of rx_rb and the buffer of cli_wait, the NUL behind the text
\* included, never take more than their arrays hold, whatever the demo sends.
THEOREM LinkTypeCorrect == LinkSpec => []LinkTypeOK
<1>1. Sound => LinkTypeOK
    BY DEF Sound
<1> QED
    BY <1>1, SoundAlways, PTL

\* No line of the profile that radar_configure sends is taken by a demo that
\* was started before: radar_reset comes first, on the first pass, after a
\* failed sensorStart and after a stall, and late answers that cli_wait
\* credits to the wrong line do not lead around it.  This does not rest on
\* the NRST wire: without it the warm reset reaches whatever listens.
THEOREM NeverInPlaceAlways == LinkSpec => []NeverInPlace
<1>1. Sound => NeverInPlace
    BY ScriptShape DEF Sound, LinkTypeOK, ResetInv, NeverInPlace, Listening, FirstCfg
<1> QED
    BY <1>1, SoundAlways, PTL
-----------------------------------------------------------------------------
(* That cli_wait credits each line with its own answer *)

\* The ring holds the longest answer.  A ring that does not loses the prompt,
\* and with it what an answer says.
Roomy == \A n \in EchoLens : n + 4 <= RX_RING_SIZE

\* The answer v behind n bytes of text, letter by letter.
Size(v, n) == IF v = "done" THEN n + 4 ELSE n + 2

Letter(v, n, i) ==
    IF i <= n THEN Text
    ELSE IF i = Size(v, n) - 1 THEN "m"
    ELSE IF i = Size(v, n) THEN ">"
    ELSE IF i = n + 1 THEN "D" ELSE "n"

\* The ith byte that cli_wait will read of a ring r and a UART o behind it.
Coming(r, o, i) == IF i <= Len(r) THEN r[i] ELSE o[i - Len(r)]

\* cli_wait has read p letters of the answer to this line: buf ends with them,
\* the rest is on its way, frames at most come after it, and done tells
\* whether Done has gone by.
Reading(n, p) ==
    /\ p < Size(verdict, n)
    /\ Len(buf) <= p /\ (Len(buf) = p \/ Len(buf) >= TAIL_LEN)
    /\ \A j \in 1 .. Len(buf) : buf[j] = Letter(verdict, n, p - Len(buf) + j)
    /\ Len(ring) + Len(out) >= Size(verdict, n) - p
    /\ out # <<>> => Len(ring) + Len(out) = Size(verdict, n) - p
    /\ \A i \in 1 .. Len(ring) + Len(out) :
          Coming(ring, out, i) =
              IF p + i <= Size(verdict, n) THEN Letter(verdict, n, p + i) ELSE Frame
    /\ done <=> (verdict = "done" /\ p >= n + 2)

\* With nothing late since a reset that reached the demo, it is at its prompt and
\* the UART is quiet whenever a line begins, and what comes in while a line
\* waits is its own answer.
AnswerInv ==
    ~slipped =>
        /\ lpc = "boot" => demo = "boot" \/ (demo = "cli" /\ out = <<>>)
        /\ step >= 4 /\ lpc \in {"drain", "write"} => demo = "cli" /\ out = <<>>
        /\ step >= 4 /\ lpc = "write" => ring = <<>>
        /\ step >= 4 /\ lpc = "wait" =>
              /\ step < Len(Script) => demo = "cli"
              /\ verdict \in {"done", "error", "prompt"}
              /\ \E n \in EchoLens : \E p \in Nat : Reading(n, p)

CreditInv == Roomy /\ Sound /\ AnswerInv /\ DoneCredited

LEMMA Tokens ==
    /\ Len(DONE) = 2 /\ DONE[1] = "D" /\ DONE[2] = "n"
    /\ Len(RADAR_PROMPT) = 2 /\ RADAR_PROMPT[1] = "m" /\ RADAR_PROMPT[2] = ">"
    /\ DONE \in Seq(Bytes) /\ RADAR_PROMPT \in Seq(Bytes) /\ TAIL_LEN > 2 /\ TAIL_LEN \in Nat
<1>1. /\ Len(DONE) = 2 /\ DONE[1] = "D" /\ DONE[2] = "n"
      /\ Len(RADAR_PROMPT) = 2 /\ RADAR_PROMPT[1] = "m" /\ RADAR_PROMPT[2] = ">"
    BY DEF DONE, RADAR_PROMPT
<1>2. DONE \in Seq(Bytes) /\ RADAR_PROMPT \in Seq(Bytes)
    BY DEF DONE, RADAR_PROMPT, Bytes
<1> QED
    BY <1>1, <1>2, LinkAssumption

\* The answer that Answers(v) puts on an idle UART.
LEMMA AnswerShape ==
    ASSUME NEW v, NEW n \in EchoLens
    PROVE  LET a == <<>> \o Echo(n) \o (IF v = "done" THEN DONE ELSE <<>>) \o RADAR_PROMPT
           IN  /\ a \in Seq(Bytes) /\ Len(a) = Size(v, n)
               /\ \A i \in 1 .. Size(v, n) : a[i] = Letter(v, n, i)
<1> DEFINE d == IF v = "done" THEN DONE ELSE <<>>
           e == <<>> \o Echo(n)
           f == e \o d
           a == f \o RADAR_PROMPT
<1>0. n \in Nat
    BY LinkAssumption
<1>1. e \in Seq(Bytes) /\ Len(e) = n /\ \A i \in 1 .. n : e[i] = Text
    <2>1. Echo(n) \in Seq(Bytes) /\ Len(Echo(n)) = n /\ \A i \in 1 .. n : Echo(n)[i] = Text
        BY <1>0 DEF Echo, Bytes, Text
    <2>2. e = Echo(n)
        BY <2>1, ConcatEmptySeq
    <2> QED
        BY <2>1, <2>2
<1>2. d \in Seq(Bytes) /\ Len(d) = (IF v = "done" THEN 2 ELSE 0)
      /\ (v = "done" => d[1] = "D" /\ d[2] = "n")
    <2>1. CASE v = "done"
        BY <2>1, Tokens
    <2>2. CASE v # "done"
        <3>1. <<>> \in Seq(Bytes) /\ Len(<<>>) = 0
            OBVIOUS
        <3> QED
            BY <2>2, <3>1
    <2> QED
        BY <2>1, <2>2
<1> HIDE DEF d, e
<1>3. /\ f \in Seq(Bytes) /\ Len(f) = Len(e) + Len(d)
      /\ \A i \in 1 .. Len(e) + Len(d) : f[i] = IF i <= Len(e) THEN e[i] ELSE d[i - Len(e)]
    BY <1>1, <1>2, ConcatProperties
<1> HIDE DEF f
<1>4. /\ a \in Seq(Bytes) /\ Len(a) = Len(f) + Len(RADAR_PROMPT)
      /\ \A i \in 1 .. Len(f) + Len(RADAR_PROMPT) :
            a[i] = IF i <= Len(f) THEN f[i] ELSE RADAR_PROMPT[i - Len(f)]
    <2>1. f \in Seq(Bytes) /\ RADAR_PROMPT \in Seq(Bytes)
        BY <1>3, Tokens
    <2> QED
        BY <2>1, ConcatProperties
<1> HIDE DEF a
<1>5. Len(a) = Size(v, n)
    BY <1>0, <1>1, <1>2, <1>3, <1>4, Tokens DEF Size
<1>6. ASSUME NEW i \in 1 .. Size(v, n)
      PROVE  a[i] = Letter(v, n, i)
    <2>1. CASE v = "done"
        BY <1>0, <1>1, <1>2, <1>3, <1>4, <2>1, Tokens DEF Size, Letter
    <2>2. CASE v # "done"
        BY <1>0, <1>1, <1>2, <1>3, <1>4, <2>2, Tokens DEF Size, Letter
    <2> QED
        BY <2>1, <2>2
<1>7. /\ a \in Seq(Bytes) /\ Len(a) = Size(v, n)
      /\ \A i \in 1 .. Size(v, n) : a[i] = Letter(v, n, i)
    BY <1>4, <1>5, <1>6
<1> QED
    BY <1>7 DEF a, f, e, d

\* strstr finds a token of two letters just where they stand side by side, in
\* a string without a NUL.
LEMMA StrstrTwo ==
    ASSUME NEW s \in Seq(Bytes), \A j \in 1 .. Len(s) : s[j] # Frame,
           NEW t \in Seq(Bytes), Len(t) = 2
    PROVE  strstr(s, t) <=> \E k \in 1 .. Len(s) - 1 : s[k] = t[1] /\ s[k + 1] = t[2]
<1>0. Len(s) \in Nat
    BY LenProperties
<1>1. CString(s) = s
    BY DEF CString
<1>2. ASSUME NEW i \in 0 .. Len(s) - 2
      PROVE  SubSeq(s, i + 1, i + 2) = t <=> s[i + 1] = t[1] /\ s[i + 2] = t[2]
    <2> DEFINE u == SubSeq(s, i + 1, i + 2)
    <2>1. i \in Nat /\ i + 1 \in 1 .. Len(s) + 1 /\ i + 2 \in (i + 1) - 1 .. Len(s)
        BY <1>0
    <2>2. u \in Seq(Bytes) /\ Len(u) = 2 /\ u[1] = s[i + 1] /\ u[2] = s[i + 2]
        <3>1. /\ u \in Seq(Bytes) /\ Len(u) = (i + 2) - (i + 1) + 1
              /\ \A j \in 1 .. (i + 2) - (i + 1) + 1 : u[j] = s[(i + 1) + j - 1]
            BY <2>1, SubSeqProperties
        <3> HIDE DEF u
        <3>2. 1 \in 1 .. (i + 2) - (i + 1) + 1 /\ 2 \in 1 .. (i + 2) - (i + 1) + 1
              /\ (i + 2) - (i + 1) + 1 = 2 /\ (i + 1) + 1 - 1 = i + 1 /\ (i + 1) + 2 - 1 = i + 2
            BY <2>1
        <3> QED
            BY <3>1, <3>2
    <2> HIDE DEF u
    <2>3. u = t <=> u[1] = t[1] /\ u[2] = t[2]
        BY <2>2, SeqEqual
    <2> QED
        BY <2>2, <2>3 DEF u
<1>3. strstr(s, t) <=> \E i \in 0 .. Len(s) - 2 : SubSeq(s, i + 1, i + 2) = t
    BY <1>1 DEF strstr
<1>4. ASSUME strstr(s, t)
      PROVE  \E k \in 1 .. Len(s) - 1 : s[k] = t[1] /\ s[k + 1] = t[2]
    <2>1. PICK i \in 0 .. Len(s) - 2 : SubSeq(s, i + 1, i + 2) = t
        BY <1>3, <1>4
    <2>2. i + 1 \in 1 .. Len(s) - 1 /\ (i + 1) + 1 = i + 2
        BY <1>0
    <2>3. s[i + 1] = t[1] /\ s[i + 2] = t[2]
        BY <1>2, <2>1
    <2> QED
        BY <2>2, <2>3
<1>5. ASSUME NEW k \in 1 .. Len(s) - 1, s[k] = t[1], s[k + 1] = t[2]
      PROVE  strstr(s, t)
    <2>1. k - 1 \in 0 .. Len(s) - 2 /\ (k - 1) + 1 = k /\ (k - 1) + 2 = k + 1
        BY <1>0
    <2> QED
        BY <1>2, <1>3, <1>5, <2>1
<1> QED
    BY <1>4, <1>5

\* What cli_wait sees when its buffer ends with letter q of an answer: the
\* prompt just at the last letter, and Done not before its second letter and
\* at the latest then.
LEMMA Finds ==
    ASSUME NEW n \in Nat, NEW v, NEW q \in 1 .. Size(v, n),
           NEW s \in Seq(Bytes), Len(s) \in 1 .. q, q >= 2 => Len(s) >= 2,
           \A j \in 1 .. Len(s) : s[j] = Letter(v, n, q - Len(s) + j)
    PROVE  /\ strstr(s, RADAR_PROMPT) <=> q = Size(v, n)
           /\ strstr(s, DONE) => v = "done" /\ q >= n + 2
           /\ v = "done" /\ q = n + 2 => strstr(s, DONE)
<1>0. q \in Nat /\ Len(s) \in Nat /\ Size(v, n) \in Nat /\ Size(v, n) >= n + 2
      /\ (v = "done" <=> Size(v, n) = n + 4) /\ (v # "done" <=> Size(v, n) = n + 2)
    BY DEF Size
<1>1. \A j \in 1 .. Len(s) : s[j] # Frame
    BY DEF Letter, Text, Frame
<1>2. strstr(s, RADAR_PROMPT) <=> \E k \in 1 .. Len(s) - 1 : s[k] = "m" /\ s[k + 1] = ">"
    BY <1>1, StrstrTwo, Tokens
<1>3. strstr(s, DONE) <=> \E k \in 1 .. Len(s) - 1 : s[k] = "D" /\ s[k + 1] = "n"
    BY <1>1, StrstrTwo, Tokens
<1>4. \A i \in 1 .. Size(v, n) :
         /\ Letter(v, n, i) = "m" <=> i = Size(v, n) - 1
         /\ Letter(v, n, i) = ">" <=> i = Size(v, n)
         /\ Letter(v, n, i) = "D" <=> v = "done" /\ i = n + 1
         /\ Letter(v, n, i) = "n" <=> v = "done" /\ i = n + 2
    BY <1>0 DEF Letter, Text
<1>5. ASSUME strstr(s, RADAR_PROMPT)
      PROVE  q = Size(v, n)
    <2>1. PICK k \in 1 .. Len(s) - 1 : s[k] = "m" /\ s[k + 1] = ">"
        BY <1>2, <1>5
    <2>2. k + 1 \in 1 .. Len(s) /\ q - Len(s) + (k + 1) \in 1 .. Size(v, n)
          /\ q - Len(s) + (k + 1) <= q
        BY <1>0
    <2>3. Letter(v, n, q - Len(s) + (k + 1)) = ">"
        BY <2>1, <2>2
    <2>4. q - Len(s) + (k + 1) = Size(v, n)
        BY <1>4, <2>2, <2>3
    <2> QED
        BY <1>0, <2>2, <2>4
<1>6. ASSUME q = Size(v, n)
      PROVE  strstr(s, RADAR_PROMPT)
    <2> DEFINE k == Len(s) - 1
    <2>1. k \in 1 .. Len(s) - 1 /\ k + 1 = Len(s) /\ q - Len(s) + k = Size(v, n) - 1
          /\ q - Len(s) + Len(s) = Size(v, n) /\ Len(s) \in 1 .. Len(s) /\ k \in 1 .. Len(s)
          /\ Size(v, n) - 1 \in 1 .. Size(v, n) /\ Size(v, n) \in 1 .. Size(v, n)
        BY <1>0, <1>6
    <2> HIDE DEF k
    <2>2. s[k] = Letter(v, n, Size(v, n) - 1) /\ s[k + 1] = Letter(v, n, Size(v, n))
        BY <2>1
    <2> QED
        BY <1>2, <1>4, <2>1, <2>2
<1>7. ASSUME strstr(s, DONE)
      PROVE  v = "done" /\ q >= n + 2
    <2>1. PICK k \in 1 .. Len(s) - 1 : s[k] = "D" /\ s[k + 1] = "n"
        BY <1>3, <1>7
    <2>2. k + 1 \in 1 .. Len(s) /\ q - Len(s) + (k + 1) \in 1 .. Size(v, n)
          /\ q - Len(s) + (k + 1) <= q
        BY <1>0
    <2>3. Letter(v, n, q - Len(s) + (k + 1)) = "n"
        BY <2>1, <2>2
    <2>4. v = "done" /\ q - Len(s) + (k + 1) = n + 2
        BY <1>4, <2>2, <2>3
    <2> QED
        BY <1>0, <2>2, <2>4
<1>8. ASSUME v = "done", q = n + 2
      PROVE  strstr(s, DONE)
    <2> DEFINE k == Len(s) - 1
    <2>1. k \in 1 .. Len(s) - 1 /\ k + 1 = Len(s) /\ q - Len(s) + k = n + 1
          /\ q - Len(s) + Len(s) = n + 2 /\ Len(s) \in 1 .. Len(s) /\ k \in 1 .. Len(s)
          /\ n + 1 \in 1 .. Size(v, n) /\ n + 2 \in 1 .. Size(v, n)
        BY <1>0, <1>8
    <2> HIDE DEF k
    <2>2. s[k] = Letter(v, n, n + 1) /\ s[k + 1] = Letter(v, n, n + 2)
        BY <2>1
    <2> QED
        BY <1>3, <1>4, <1>8, <2>1, <2>2
<1> QED
    BY <1>5, <1>6, <1>7, <1>8

\* The slide keeps the end of the buffer.
LEMMA SlideShape ==
    ASSUME NEW s \in Seq(Bytes)
    PROVE  LET b == Slide(s)
           IN  /\ b \in Seq(Bytes) /\ Len(b) <= Len(s)
               /\ Len(b) = Len(s) \/ Len(b) >= TAIL_LEN
               /\ \A j \in 1 .. Len(b) : b[j] = s[Len(s) - Len(b) + j]
<1>0. Len(s) \in Nat /\ TAIL_LEN \in Nat /\ BUF_LEN \in Nat /\ TAIL_LEN + 1 < BUF_LEN
    BY LinkAssumption, LenProperties
<1>1. CASE Len(s) >= BUF_LEN - 1
    <2> DEFINE b == SubSeq(s, Len(s) - TAIL_LEN + 1, Len(s))
    <2>1. Slide(s) = b
        BY <1>1 DEF Slide
    <2>2. Len(s) - TAIL_LEN + 1 \in 1 .. Len(s) + 1
          /\ Len(s) \in (Len(s) - TAIL_LEN + 1) - 1 .. Len(s)
        BY <1>0, <1>1
    <2>3. /\ b \in Seq(Bytes) /\ Len(b) = Len(s) - (Len(s) - TAIL_LEN + 1) + 1
          /\ \A j \in 1 .. Len(s) - (Len(s) - TAIL_LEN + 1) + 1 :
                b[j] = s[(Len(s) - TAIL_LEN + 1) + j - 1]
        BY <2>2, SubSeqProperties
    <2> HIDE DEF b
    <2>4. Len(b) = TAIL_LEN /\ Len(b) <= Len(s)
        BY <1>0, <1>1, <2>3
    <2>5. ASSUME NEW j \in 1 .. Len(b)
          PROVE  b[j] = s[Len(s) - Len(b) + j]
        <3>1. j \in 1 .. Len(s) - (Len(s) - TAIL_LEN + 1) + 1
              /\ (Len(s) - TAIL_LEN + 1) + j - 1 = Len(s) - Len(b) + j
            BY <1>0, <2>4
        <3> QED
            BY <2>3, <3>1
    <2> QED
        BY <1>0, <2>1, <2>3, <2>4, <2>5
<1>2. CASE ~(Len(s) >= BUF_LEN - 1)
    <2>1. Slide(s) = s
        BY <1>2 DEF Slide
    <2>2. \A j \in 1 .. Len(s) : Len(s) - Len(s) + j = j
        BY <1>0
    <2> QED
        BY <1>0, <2>1, <2>2
<1> QED
    BY <1>1, <1>2

\* A line that is heard on an idle UART puts its whole answer ahead of
\* cli_wait.
LEMMA BeginReading ==
    ASSUME NEW v, Answers(v), out = <<>>, ring = <<>>, ring' = ring,
           buf' = <<>>, done' = FALSE
    PROVE  \E n \in EchoLens : \E p \in Nat : Reading(n, p)'
<1>1. verdict' = v
    BY DEF Answers
<1>2. PICK n \in EchoLens :
         out' = <<>> \o Echo(n) \o (IF v = "done" THEN DONE ELSE <<>>) \o RADAR_PROMPT
    BY DEF Answers
<1>3. /\ out' \in Seq(Bytes) /\ Len(out') = Size(v, n)
      /\ \A i \in 1 .. Size(v, n) : out'[i] = Letter(v, n, i)
    BY <1>2, AnswerShape
<1>4. n \in Nat /\ Size(v, n) \in Nat /\ Size(v, n) >= 2
    BY LinkAssumption DEF Size
<1>5. Len(<<>>) = 0 /\ buf' = <<>> /\ ring' = <<>>
    OBVIOUS
<1>6. /\ 0 < Size(verdict', n)
      /\ Len(buf') <= 0 /\ Len(buf') = 0
      /\ \A j \in 1 .. Len(buf') : buf'[j] = Letter(verdict', n, 0 - Len(buf') + j)
      /\ Len(ring') + Len(out') = Size(verdict', n) - 0
      /\ done' <=> (verdict' = "done" /\ 0 >= n + 2)
    BY <1>1, <1>3, <1>4, <1>5
<1>7. ASSUME NEW i \in 1 .. Len(ring') + Len(out')
      PROVE  Coming(ring', out', i) =
                IF 0 + i <= Size(verdict', n) THEN Letter(verdict', n, 0 + i) ELSE Frame
    <2>1. i \in 1 .. Size(v, n) /\ 0 + i = i /\ ~(i <= Len(ring')) /\ i - Len(ring') = i
        BY <1>3, <1>4, <1>5
    <2> QED
        BY <1>1, <1>3, <2>1 DEF Coming
<1>8. Reading(n, 0)'
    BY <1>4, <1>6, <1>7 DEF Reading
<1> QED
    BY <1>8

\* One byte more: it is the next letter of the answer.
LEMMA NextLetter ==
    ASSUME Sound, ring # <<>>,
           NEW n \in Nat, NEW p \in Nat, Reading(n, p)
    PROVE  LET s == Append(buf, Head(ring))
           IN  /\ s \in Seq(Bytes) /\ Len(s) = Len(buf) + 1 /\ Len(buf) \in Nat
               /\ p + 1 \in 1 .. Size(verdict, n) /\ Size(verdict, n) \in Nat
               /\ Len(s) \in 1 .. p + 1 /\ (p + 1 >= 2 => Len(s) >= 2)
               /\ \A j \in 1 .. Len(s) : s[j] = Letter(verdict, n, (p + 1) - Len(s) + j)
<1> DEFINE s == Append(buf, Head(ring))
<1>0. ring \in Seq(Bytes) /\ buf \in Seq(Bytes) /\ out \in Seq(Bytes)
    BY DEF Sound, LinkTypeOK
<1>1. Head(ring) \in Bytes /\ Head(ring) = ring[1] /\ Len(ring) \in Nat /\ Len(ring) >= 1
      /\ Len(out) \in Nat
    BY <1>0, HeadTailProperties, LenProperties, EmptySeq
<1>2. /\ s \in Seq(Bytes) /\ Len(s) = Len(buf) + 1 /\ Len(buf) \in Nat
      /\ s[Len(buf) + 1] = Head(ring)
      /\ \A j \in 1 .. Len(buf) : s[j] = buf[j]
    BY <1>0, <1>1, AppendProperties, LenProperties
<1>3. p < Size(verdict, n) /\ Size(verdict, n) \in Nat
    BY DEF Reading, Size
<1>4. Head(ring) = Letter(verdict, n, p + 1)
    <2>1. 1 \in 1 .. Len(ring) + Len(out) /\ 1 <= Len(ring) /\ p + 1 <= Size(verdict, n)
        BY <1>1, <1>3
    <2>2. Coming(ring, out, 1) = Letter(verdict, n, p + 1)
        BY <2>1 DEF Reading
    <2> QED
        BY <1>1, <2>1, <2>2 DEF Coming
<1> HIDE DEF s
<1>5. Len(s) \in 1 .. p + 1 /\ (p + 1 >= 2 => Len(s) >= 2)
    BY <1>2, Tokens DEF Reading
<1>6. ASSUME NEW j \in 1 .. Len(s)
      PROVE  s[j] = Letter(verdict, n, (p + 1) - Len(s) + j)
    <2>1. CASE j = Len(buf) + 1
        <3>1. (p + 1) - Len(s) + j = p + 1
            BY <1>2, <2>1
        <3> QED
            BY <1>2, <1>4, <2>1, <3>1
    <2>2. CASE j # Len(buf) + 1
        <3>1. j \in 1 .. Len(buf) /\ (p + 1) - Len(s) + j = p - Len(buf) + j
            BY <1>2, <2>2
        <3>2. buf[j] = Letter(verdict, n, p - Len(buf) + j)
            BY <3>1 DEF Reading
        <3> QED
            BY <1>2, <3>1, <3>2
    <2> QED
        BY <2>1, <2>2
<1>7. p + 1 \in 1 .. Size(verdict, n)
    BY <1>3
<1> QED
    BY <1>2, <1>3, <1>5, <1>6, <1>7 DEF s

\* Without a prompt cli_wait goes on reading.
LEMMA ReadOn ==
    ASSUME Sound, cli_wait, NEW n \in Nat, NEW p \in Nat, Reading(n, p),
           p + 1 # Size(verdict, n)
    PROVE  Reading(n, p + 1)' /\ UNCHANGED <<lpc, step, ret, demo, out, verdict, slipped>>
<1> DEFINE s == Append(buf, Head(ring))
           d == done \/ strstr(s, DONE)
<1>0. /\ s \in Seq(Bytes) /\ Len(s) = Len(buf) + 1 /\ Len(buf) \in Nat
      /\ p + 1 \in 1 .. Size(verdict, n) /\ Size(verdict, n) \in Nat
      /\ Len(s) \in 1 .. p + 1 /\ (p + 1 >= 2 => Len(s) >= 2)
      /\ \A j \in 1 .. Len(s) : s[j] = Letter(verdict, n, (p + 1) - Len(s) + j)
    BY NextLetter DEF cli_wait
<1>1. /\ ~strstr(s, RADAR_PROMPT)
      /\ strstr(s, DONE) => verdict = "done" /\ p + 1 >= n + 2
      /\ verdict = "done" /\ p + 1 = n + 2 => strstr(s, DONE)
    BY <1>0, Finds
<1>2. /\ ring # <<>> /\ ring' = Tail(ring)
      /\ buf' = Slide(s) /\ done' = d
      /\ UNCHANGED <<lpc, step, ret, demo, out, verdict, slipped>>
    BY <1>1 DEF cli_wait, radar
<1>3. done' <=> (verdict = "done" /\ p + 1 >= n + 2)
    <2>1. done <=> (verdict = "done" /\ p >= n + 2)
        BY DEF Reading
    <2>2. p + 1 >= n + 2 <=> p >= n + 2 \/ p + 1 = n + 2
        OBVIOUS
    <2> QED
        BY <1>1, <1>2, <2>1, <2>2
<1> HIDE DEF s, d
<1>4. /\ buf' \in Seq(Bytes) /\ Len(buf') <= Len(s)
      /\ Len(buf') = Len(s) \/ Len(buf') >= TAIL_LEN
      /\ \A j \in 1 .. Len(buf') : buf'[j] = s[Len(s) - Len(buf') + j]
    BY <1>0, <1>2, SlideShape
<1>n. /\ Len(s) \in Nat /\ Len(s) = Len(buf) + 1 /\ Len(buf) \in Nat /\ Len(s) <= p + 1
      /\ Size(verdict, n) \in Nat /\ p + 1 <= Size(verdict, n)
    BY <1>0
<1>5. Len(buf') \in Nat /\ Len(buf') <= Len(s) /\ Len(buf') <= p + 1 /\ (Len(buf') = p + 1 \/ Len(buf') >= TAIL_LEN)
    <2>1. Len(buf) = p \/ Len(buf) >= TAIL_LEN
        BY DEF Reading
    <2>2. Len(buf') \in Nat /\ TAIL_LEN \in Nat
        BY <1>4, LenProperties, Tokens
    <2>3. Len(buf') <= Len(s) /\ (Len(buf') = Len(s) \/ Len(buf') >= TAIL_LEN)
        BY <1>4
    <2> QED
        BY <1>n, <2>1, <2>2, <2>3
<1>6. ASSUME NEW j \in 1 .. Len(buf')
      PROVE  buf'[j] = Letter(verdict, n, (p + 1) - Len(buf') + j)
    <2>1. Len(s) - Len(buf') + j \in 1 .. Len(s)
          /\ (p + 1) - Len(s) + (Len(s) - Len(buf') + j) = (p + 1) - Len(buf') + j
        BY <1>n, <1>5
    <2>2. buf'[j] = s[Len(s) - Len(buf') + j]
        BY <1>4
    <2>3. s[Len(s) - Len(buf') + j] = Letter(verdict, n, (p + 1) - Len(s) + (Len(s) - Len(buf') + j))
        BY <1>0, <2>1
    <2> QED
        BY <2>1, <2>2, <2>3
<1>7. /\ ring \in Seq(Bytes) /\ Len(ring) \in Nat /\ Len(out) \in Nat
      /\ Len(ring) >= 1 /\ Len(ring') = Len(ring) - 1
      /\ \A i \in 1 .. Len(ring) - 1 : ring'[i] = ring[i + 1]
    BY <1>2, HeadTailProperties, LenProperties, EmptySeq DEF Sound, LinkTypeOK
<1>8. /\ p + 1 < Size(verdict, n)
      /\ Len(ring') + Len(out) >= Size(verdict, n) - (p + 1)
      /\ out # <<>> => Len(ring') + Len(out) = Size(verdict, n) - (p + 1)
    <2>1. /\ Len(ring) + Len(out) >= Size(verdict, n) - p
          /\ out # <<>> => Len(ring) + Len(out) = Size(verdict, n) - p
        BY DEF Reading
    <2>2. Len(ring) \in Nat /\ Len(out) \in Nat /\ Len(ring') = Len(ring) - 1
        BY <1>7
    <2> QED
        BY <1>n, <2>1, <2>2
<1>9. ASSUME NEW i \in 1 .. Len(ring') + Len(out)
      PROVE  Coming(ring', out, i) =
                IF (p + 1) + i <= Size(verdict, n) THEN Letter(verdict, n, (p + 1) + i) ELSE Frame
    <2>1. i + 1 \in 1 .. Len(ring) + Len(out) /\ p + (i + 1) = (p + 1) + i
        BY <1>7
    <2>2. Coming(ring, out, i + 1) =
             IF (p + 1) + i <= Size(verdict, n) THEN Letter(verdict, n, (p + 1) + i) ELSE Frame
        BY <2>1 DEF Reading
    <2>3. Coming(ring', out, i) = Coming(ring, out, i + 1)
        <3>1. CASE i <= Len(ring')
            BY <1>7, <3>1 DEF Coming
        <3>2. CASE ~(i <= Len(ring'))
            <4>1. ~(i + 1 <= Len(ring)) /\ i - Len(ring') = (i + 1) - Len(ring)
                BY <1>7, <3>2
            <4> QED
                BY <3>2, <4>1 DEF Coming
        <3> QED
            BY <3>1, <3>2
    <2> QED
        BY <2>2, <2>3
<1> QED
    BY <1>2, <1>3, <1>5, <1>6, <1>8, <1>9 DEF Reading

\* With the prompt the line returns, credited with Done just when that was
\* the answer, and nothing of the answer is left.
LEMMA ReadAll ==
    ASSUME Sound, cli_wait, NEW n \in Nat, NEW p \in Nat, Reading(n, p),
           p + 1 = Size(verdict, n)
    PROVE  /\ Returns(verdict = "done") /\ out = <<>>
           /\ UNCHANGED <<demo, started, out, verdict, slipped>>
<1> DEFINE s == Append(buf, Head(ring))
           d == done \/ strstr(s, DONE)
<1>0. /\ s \in Seq(Bytes) /\ Len(s) = Len(buf) + 1 /\ Len(buf) \in Nat
      /\ p + 1 \in 1 .. Size(verdict, n) /\ Size(verdict, n) \in Nat
      /\ Len(s) \in 1 .. p + 1 /\ (p + 1 >= 2 => Len(s) >= 2)
      /\ \A j \in 1 .. Len(s) : s[j] = Letter(verdict, n, (p + 1) - Len(s) + j)
    BY NextLetter DEF cli_wait
<1>1. /\ strstr(s, RADAR_PROMPT)
      /\ strstr(s, DONE) => verdict = "done" /\ p + 1 >= n + 2
    BY <1>0, Finds
<1>2. ring # <<>> /\ Returns(d) /\ UNCHANGED <<demo, started, out, verdict, slipped>>
    BY <1>1 DEF cli_wait, radar
<1>3. d = (verdict = "done")
    <2>1. done \in BOOLEAN /\ (done <=> (verdict = "done" /\ p >= n + 2))
        BY DEF Reading, Sound, LinkTypeOK
    <2>2. verdict = "done" => p >= n + 2
        BY <1>0 DEF Size
    <2> QED
        BY <1>1, <2>1, <2>2
<1>4. out = <<>>
    <2>1. Len(ring) \in Nat /\ Len(ring) >= 1 /\ Len(out) \in Nat
        BY <1>2, LenProperties, EmptySeq DEF Sound, LinkTypeOK
    <2>2. out # <<>> => Len(ring) + Len(out) = 1
        BY <1>0 DEF Reading
    <2>3. out # <<>> => Len(out) >= 1
        BY LenProperties, EmptySeq DEF Sound
    <2> QED
        BY <2>1, <2>2, <2>3
<1> HIDE DEF d
<1> QED
    BY <1>2, <1>3, <1>4

\* The ring takes every letter of an answer: it is not full while there is
\* still something to send.
LEMMA SendOn ==
    ASSUME Roomy, Sound, DemoSends, NEW n \in EchoLens, NEW p \in Nat, Reading(n, p)
    PROVE  Reading(n, p)'
<1>0. /\ ring \in Seq(Bytes) /\ out \in Seq(Bytes) /\ out # <<>> /\ uart_isr(Head(out))
      /\ out' = Tail(out) /\ UNCHANGED <<buf, done, verdict>>
    BY DEF Sound, LinkTypeOK, DemoSends, thread, hist
<1>1. /\ Len(ring) \in Nat /\ Len(out) \in Nat /\ Len(out) >= 1
      /\ Head(out) \in Bytes /\ Head(out) = out[1]
      /\ out' \in Seq(Bytes) /\ Len(out') = Len(out) - 1
      /\ \A i \in 1 .. Len(out) - 1 : out'[i] = out[i + 1]
    BY <1>0, HeadTailProperties, LenProperties, EmptySeq
<1>2. n \in Nat /\ n + 4 <= RX_RING_SIZE /\ RX_RING_SIZE \in Nat
    BY LinkAssumption DEF Roomy
<1>3. Size(verdict, n) \in Nat /\ Size(verdict, n) <= n + 4
    BY <1>2 DEF Size
<1>4. Len(ring) + Len(out) = Size(verdict, n) - p
    BY <1>0 DEF Reading
<1>5. ring' = Append(ring, Head(out))
    <2>1. Len(ring) < RX_RING_SIZE
        BY <1>1, <1>2, <1>3, <1>4
    <2> QED
        BY <1>0, <2>1 DEF uart_isr
<1>6. /\ Len(ring') = Len(ring) + 1 /\ ring'[Len(ring) + 1] = Head(out)
      /\ \A i \in 1 .. Len(ring) : ring'[i] = ring[i]
    BY <1>0, <1>1, <1>5, AppendProperties
<1>7. Len(ring') + Len(out') = Len(ring) + Len(out)
    BY <1>1, <1>6
<1>8. ASSUME NEW i \in 1 .. Len(ring) + Len(out)
      PROVE  Coming(ring', out', i) = Coming(ring, out, i)
    <2>1. CASE i <= Len(ring)
        <3>1. i \in 1 .. Len(ring) /\ i <= Len(ring')
            BY <1>1, <1>6, <2>1
        <3> QED
            BY <1>6, <2>1, <3>1 DEF Coming
    <2>2. CASE i = Len(ring) + 1
        <3>1. i <= Len(ring') /\ ~(i <= Len(ring)) /\ i - Len(ring) = 1
            BY <1>1, <1>6, <2>2
        <3> QED
            BY <1>1, <1>6, <2>2, <3>1 DEF Coming
    <2>3. CASE i > Len(ring) + 1
        <3>1. /\ ~(i <= Len(ring')) /\ ~(i <= Len(ring))
              /\ i - Len(ring') \in 1 .. Len(out) - 1
              /\ (i - Len(ring')) + 1 = i - Len(ring)
            BY <1>1, <1>6, <2>3
        <3>2. out'[i - Len(ring')] = out[i - Len(ring)]
            BY <1>1, <3>1
        <3> QED
            BY <3>1, <3>2 DEF Coming
    <2>4. i <= Len(ring) \/ i = Len(ring) + 1 \/ i > Len(ring) + 1
        BY <1>1
    <2> QED
        BY <2>1, <2>2, <2>3, <2>4
<1> QED
    BY <1>0, <1>7, <1>8 DEF Reading

\* A frame that comes while cli_wait still reads stands behind the answer.
LEMMA StreamOn ==
    ASSUME Sound, DemoStreams, NEW n \in EchoLens, NEW p \in Nat, Reading(n, p)
    PROVE  Reading(n, p)'
<1>0. /\ ring \in Seq(Bytes) /\ out = <<>> /\ uart_isr(Frame)
      /\ UNCHANGED <<buf, done, verdict, out>>
    BY DEF Sound, LinkTypeOK, DemoStreams, thread, hist, radar
<1>1. Len(ring) \in Nat /\ Len(out) = 0 /\ Frame \in Bytes
    BY <1>0, LenProperties DEF Bytes
<1>2. CASE ring' = ring
    BY <1>0, <1>2 DEF Reading
<1>3. CASE ring' = Append(ring, Frame)
    <2>1. /\ Len(ring') = Len(ring) + 1 /\ ring'[Len(ring) + 1] = Frame
          /\ \A i \in 1 .. Len(ring) : ring'[i] = ring[i]
        BY <1>0, <1>1, <1>3, AppendProperties
    <2>2. Size(verdict, n) \in Nat /\ Len(ring) >= Size(verdict, n) - p
        BY <1>1, LinkAssumption DEF Reading, Size
    <2>3. Len(ring') + Len(out) >= Size(verdict, n) - p
        BY <1>1, <2>1, <2>2
    <2>4. ASSUME NEW i \in 1 .. Len(ring') + Len(out)
          PROVE  Coming(ring', out, i) =
                    IF p + i <= Size(verdict, n) THEN Letter(verdict, n, p + i) ELSE Frame
        <3>1. CASE i <= Len(ring)
            <4>1. i \in 1 .. Len(ring) + Len(out) /\ i <= Len(ring') /\ i \in 1 .. Len(ring)
                BY <1>1, <2>1, <3>1
            <4>2. Coming(ring', out, i) = Coming(ring, out, i)
                BY <2>1, <3>1, <4>1 DEF Coming
            <4> QED
                BY <4>1, <4>2 DEF Reading
        <3>2. CASE i = Len(ring) + 1
            <4>1. i <= Len(ring') /\ ~(p + i <= Size(verdict, n))
                BY <1>1, <2>1, <2>2, <3>2
            <4> QED
                BY <2>1, <3>2, <4>1 DEF Coming
        <3> QED
            BY <1>1, <2>1, <3>1, <3>2
    <2> QED
        BY <1>0, <2>3, <2>4 DEF Reading
<1> QED
    BY <1>0, <1>2, <1>3 DEF uart_isr

\* While an answer is still to be read the link is not silent.
LEMMA NotSilent ==
    ASSUME Sound, NEW n \in EchoLens, NEW p \in Nat, Reading(n, p)
    PROVE  ~Silent
<1> SUFFICES ASSUME out = <<>>, \A i \in 1 .. Len(ring) : ring[i] = Frame
             PROVE  FALSE
    BY DEF Silent
<1>1. Len(ring) \in Nat /\ Len(out) = 0
    BY LenProperties DEF Sound, LinkTypeOK
<1>2. Size(verdict, n) \in Nat /\ p < Size(verdict, n) /\ Len(ring) >= Size(verdict, n) - p
    BY <1>1, LinkAssumption DEF Reading, Size
<1>3. 1 \in 1 .. Len(ring) + Len(out) /\ 1 \in 1 .. Len(ring) /\ p + 1 <= Size(verdict, n)
    BY <1>1, <1>2
<1>4. Coming(ring, out, 1) = Letter(verdict, n, p + 1)
    BY <1>3 DEF Reading
<1>5. Coming(ring, out, 1) = Frame
    BY <1>3 DEF Coming
<1> QED
    BY <1>4, <1>5 DEF Letter, Text, Frame

\* Where a line that returns in time leaves the link.
LEMMA AfterReturn ==
    ASSUME Sound, lpc = "wait", ~slipped, slipped' = slipped, NEW ok \in BOOLEAN, Returns(ok),
           demo' = demo, out' = out, started' = started,
           step >= 4 => /\ out = <<>> /\ (ok <=> verdict = "done")
                        /\ step < Len(Script) => demo = "cli"
    PROVE  AnswerInv' /\ DoneCredited'
<1>0. Len(Script) \in Nat /\ Len(Script) >= 5 /\ step \in 1 .. Len(Script) /\ step # 3
      /\ Script' = Script
    BY ScriptShape DEF FirstCfg, Sound, LinkTypeOK, ResetInv, Script
<1>1. ret' = [step |-> step, ok |-> ok, verdict |-> verdict]
    BY DEF Returns
<1>2. DoneCredited'
    BY <1>0, <1>1 DEF DoneCredited, FirstCfg
<1>3. lpc' \in {"drain", "nrst", "stream", "sleep"}
    BY ReturnsKeeps
<1>4. lpc' = "drain" /\ step' >= 4 => step >= 4 /\ step < Len(Script)
    BY <1>0 DEF Returns, Goto
<1>5. AnswerInv'
    BY <1>3, <1>4 DEF AnswerInv
<1> QED
    BY <1>2, <1>5

\* A line that is written with nothing late so far.
LEMMA CreditWrite ==
    ASSUME CreditInv, cli_write
    PROVE  AnswerInv' /\ DoneCredited'
<1>0. /\ lpc = "write" /\ lpc' = "wait" /\ buf' = <<>> /\ done' = FALSE
      /\ UNCHANGED <<ring, step, slipped, ret>>
    BY DEF cli_write, uart
<1>1. DoneCredited'
    BY <1>0 DEF CreditInv, DoneCredited
<1> SUFFICES ASSUME ~slipped, step >= 4
             PROVE  AnswerInv'
    BY <1>0, <1>1 DEF AnswerInv
<1>2. /\ demo = "cli" /\ out = <<>> /\ ring = <<>>
      /\ Len(Script) \in Nat /\ step \in 1 .. Len(Script) /\ Script' = Script
    BY <1>0, ScriptShape DEF CreditInv, AnswerInv, Sound, LinkTypeOK, Script
<1>3. /\ Hears(Script[step]) /\ Script[step] # "warm"
      /\ step < Len(Script) => Script[step] # "start"
    BY <1>2, ScriptShape DEF cli_write, Listening
<1>4. \E v \in {"done", "error", "prompt"} : Answers(v)
    BY <1>3 DEF Hears, HearsStart
<1>5. step < Len(Script) => demo' = "cli"
    BY <1>2, <1>3 DEF Hears
<1>6. PICK v \in {"done", "error", "prompt"} : Answers(v)
    BY <1>4
<1>7. \E n \in EchoLens : \E p \in Nat : Reading(n, p)'
    BY <1>0, <1>2, <1>6, BeginReading
<1>8. verdict' \in {"done", "error", "prompt"}
    BY <1>6 DEF Answers
<1> QED
    BY <1>0, <1>2, <1>5, <1>7, <1>8 DEF AnswerInv

LEMMA CreditWait ==
    ASSUME CreditInv, cli_wait
    PROVE  AnswerInv' /\ DoneCredited'
<1>0. lpc = "wait" /\ Sound /\ AnswerInv /\ DoneCredited /\ slipped' = slipped
    BY DEF cli_wait, CreditInv
<1>1. CASE slipped
    BY <1>0, <1>1 DEF AnswerInv, DoneCredited
<1>2. CASE ~slipped /\ step >= 4
    <2>1. /\ step < Len(Script) => demo = "cli"
          /\ verdict \in {"done", "error", "prompt"}
          /\ \E n \in EchoLens : \E p \in Nat : Reading(n, p)
        BY <1>0, <1>2 DEF AnswerInv
    <2>2. PICK n \in EchoLens : \E p \in Nat : Reading(n, p)
        BY <2>1
    <2>3. PICK p \in Nat : Reading(n, p)
        BY <2>2
    <2>4. n \in Nat
        BY LinkAssumption
    <2>5. CASE p + 1 = Size(verdict, n)
        <3>1. /\ Returns(verdict = "done") /\ out = <<>>
              /\ UNCHANGED <<demo, started, out, verdict, slipped>>
            BY <1>0, <2>3, <2>4, <2>5, ReadAll
        <3>2. (verdict = "done") \in BOOLEAN
            OBVIOUS
        <3> QED
            BY <1>0, <1>2, <2>1, <3>1, <3>2, AfterReturn
    <2>6. CASE p + 1 # Size(verdict, n)
        <3>1. Reading(n, p + 1)' /\ UNCHANGED <<lpc, step, ret, demo, out, verdict, slipped>>
            BY <1>0, <2>3, <2>4, <2>6, ReadOn
        <3>2. p + 1 \in Nat /\ Script' = Script
            BY DEF Script
        <3>3. \E m \in EchoLens : \E q \in Nat : Reading(m, q)'
            BY <3>1, <3>2
        <3> QED
            BY <1>0, <2>1, <3>1, <3>2, <3>3 DEF AnswerInv, DoneCredited
    <2> QED
        BY <2>5, <2>6
<1>3. CASE ~slipped /\ ~(step >= 4)
    <2> DEFINE d == done \/ strstr(Append(buf, Head(ring)), DONE)
    <2>1. d \in BOOLEAN
        BY <1>0 DEF Sound, LinkTypeOK, strstr
    <2>2. UNCHANGED <<demo, out, started>>
        BY DEF cli_wait, radar
    <2> HIDE DEF d
    <2>3. CASE Returns(d)
        BY <1>0, <1>3, <2>1, <2>2, <2>3, AfterReturn
    <2>4. CASE UNCHANGED <<lpc, step, ret>>
        BY <1>0, <1>3, <2>4 DEF AnswerInv, DoneCredited
    <2> QED
        BY <2>3, <2>4 DEF cli_wait, d
<1> QED
    BY <1>1, <1>2, <1>3

\* An answer that is given up before it is read is late by definition: no
\* other deadline runs out on it.
LEMMA CreditTimeout ==
    ASSUME CreditInv, Timeout
    PROVE  AnswerInv' /\ DoneCredited'
<1>0. /\ lpc = "wait" /\ Sound /\ AnswerInv /\ Returns(done)
      /\ UNCHANGED <<demo, started, out, verdict>>
    BY DEF Timeout, CreditInv, radar
<1> SUFFICES ASSUME ~slipped' PROVE AnswerInv' /\ DoneCredited'
    BY DEF AnswerInv, DoneCredited
<1>1. slipped' = slipped /\ (verdict = "none" \/ Silent)
    BY DEF Timeout
<1>2. ~(step >= 4)
    <2> SUFFICES ASSUME step >= 4 PROVE FALSE
        OBVIOUS
    <2>1. /\ verdict \in {"done", "error", "prompt"}
          /\ \E n \in EchoLens : \E p \in Nat : Reading(n, p)
        BY <1>0, <1>1 DEF AnswerInv
    <2> QED
        BY <1>0, <1>1, <2>1, NotSilent
<1>3. done \in BOOLEAN
    BY <1>0 DEF Sound, LinkTypeOK
<1> QED
    BY <1>0, <1>1, <1>2, <1>3, AfterReturn

\* What the demo and the interrupt do while a line is on its way.
LEMMA CreditDemo ==
    ASSUME CreditInv, DemoSends \/ DemoBoots \/ DemoStreams \/ DemoHangs
    PROVE  AnswerInv' /\ DoneCredited'
<1>0. /\ Sound /\ AnswerInv /\ DoneCredited /\ Roomy /\ Script' = Script
      /\ UNCHANGED <<lpc, step, buf, done, slipped, ret, verdict>>
    BY DEF CreditInv, DemoSends, DemoBoots, DemoStreams, DemoHangs, thread, hist, Script
<1>1. DoneCredited'
    BY <1>0 DEF DoneCredited
<1> SUFFICES ASSUME ~slipped PROVE AnswerInv'
    BY <1>0, <1>1 DEF AnswerInv
<1>2. CASE DemoSends
    <2>1. out # <<>> /\ demo' = demo
        BY <1>2 DEF DemoSends
    <2>2. (\E n \in EchoLens : \E p \in Nat : Reading(n, p))
             => (\E n \in EchoLens : \E p \in Nat : Reading(n, p)')
        BY <1>0, <1>2, SendOn
    <2> QED
        BY <1>0, <2>1, <2>2 DEF AnswerInv
<1>3. CASE DemoStreams
    <2>1. demo = "streaming" /\ demo' = demo /\ out' = out
        BY <1>3 DEF DemoStreams, radar
    <2>2. (\E n \in EchoLens : \E p \in Nat : Reading(n, p))
             => (\E n \in EchoLens : \E p \in Nat : Reading(n, p)')
        BY <1>0, <1>3, StreamOn
    <2> QED
        BY <1>0, <2>1, <2>2 DEF AnswerInv
<1>4. CASE DemoBoots \/ DemoHangs
    <2>1. /\ ring' = ring /\ out' = out /\ out = <<>>
          /\ \/ demo = "boot" /\ demo' = "cli"
             \/ demo = "streaming" /\ demo' = "deaf"
        BY <1>4 DEF DemoBoots, DemoHangs, uart
    <2>2. (\E n \in EchoLens : \E p \in Nat : Reading(n, p))
             => (\E n \in EchoLens : \E p \in Nat : Reading(n, p)')
        BY <1>0, <2>1 DEF Reading
    <2> QED
        BY <1>0, <2>1, <2>2 DEF AnswerInv
<1> QED
    BY <1>2, <1>3, <1>4

LEMMA CreditThread ==
    ASSUME CreditInv, LineBegins \/ Pulse \/ BootWaited \/ Retry \/ Receive \/ Stall
    PROVE  AnswerInv' /\ DoneCredited'
<1>0. /\ Sound /\ AnswerInv /\ DoneCredited
      /\ Script[1] # "nrst" /\ Script[4] # "nrst" /\ Len(Script) \in Nat /\ Len(Script) >= 5
    BY ScriptShape DEF CreditInv, FirstCfg
<1> USE DEF thread, env, hist, radar, uart
<1>1. CASE LineBegins
    BY <1>0, <1>1 DEF LineBegins, cli_drain, AnswerInv, DoneCredited
<1>2. CASE Pulse
    <2>1. step' = 3
        BY <1>0, <1>2 DEF Pulse, Sound, ResetInv
    <2>2. ~slipped' => demo' = "boot" \/ (demo' = "cli" /\ out' = <<>>)
        <3>1. CASE wired
            BY <1>2, <3>1 DEF Pulse
        <3>2. CASE ~wired
            <4>1. demo' = demo /\ out' = out /\ (~slipped' => demo # "deaf") /\ step = 3
                BY <1>0, <1>2, <3>2 DEF Pulse, NoReset, Sound, ResetInv
            <4> QED
                BY <1>0, <4>1 DEF Sound, LinkTypeOK, ResetInv, Resetting
        <3> QED
            BY <3>1, <3>2
    <2> QED
        BY <1>2, <2>1, <2>2 DEF Pulse, AnswerInv, DoneCredited, NoRet, FirstCfg
<1>3. CASE BootWaited
    <2>1. /\ step' = 4 /\ lpc' = "drain" /\ lpc = "boot"
          /\ UNCHANGED <<demo, out, ret>>
          /\ (demo # "boot" /\ slipped' = slipped) \/ slipped' = TRUE
        BY <1>0, <1>3 DEF BootWaited, Goto, Sound, ResetInv
    <2> QED
        BY <1>0, <2>1 DEF AnswerInv, DoneCredited
<1>4. CASE Retry \/ Stall
    <2>1. step' = 1 /\ lpc' = "drain" /\ UNCHANGED <<slipped, ret>>
        BY <1>0, <1>4 DEF Retry, Stall, Goto
    <2> QED
        BY <1>0, <2>1 DEF AnswerInv, DoneCredited
<1>5. CASE Receive
    BY <1>0, <1>5 DEF Receive, AnswerInv, DoneCredited
<1> QED
    BY <1>1, <1>2, <1>3, <1>4, <1>5

LEMMA CreditInit == LinkInit /\ Roomy => CreditInv
<1> SUFFICES ASSUME LinkInit, Roomy PROVE CreditInv
    OBVIOUS
<1>1. AnswerInv
    BY DEF LinkInit, AnswerInv
<1>2. DoneCredited
    BY DEF LinkInit, DoneCredited, NoRet, FirstCfg
<1> QED
    BY <1>1, <1>2, SoundInit DEF CreditInv

LEMMA CreditStep == CreditInv /\ [LinkNext]_linkVars => CreditInv'
<1> SUFFICES ASSUME CreditInv, [LinkNext]_linkVars PROVE CreditInv'
    OBVIOUS
<1>1. Sound' /\ Roomy'
    BY SoundStep DEF CreditInv, Roomy
<1>2. CASE UNCHANGED linkVars
    <2>1. AnswerInv' /\ DoneCredited'
        BY <1>2 DEF CreditInv, AnswerInv, DoneCredited, Reading, linkVars,
                    uart, thread, radar, env, hist, Script
    <2> QED
        BY <1>1, <2>1 DEF CreditInv
<1>3. CASE LinkNext
    <2>1. AnswerInv' /\ DoneCredited'
        BY <1>3, CreditWrite, CreditWait, CreditTimeout, CreditDemo, CreditThread
           DEF LinkNext, RadarThread
    <2> QED
        BY <1>1, <2>1 DEF CreditInv
<1> QED
    BY <1>2, <1>3

\* "Only an explicit Done counts", for a ring that holds the longest answer:
\* wherever the slide of cli_wait cuts, however much text comes first and
\* whatever frames follow, cli_line returns 1 for a line sent since a reset
\* reached the demo just when the demo answered that line with Done, unless
\* something came too late in between.
THEOREM DoneCreditedAlways == LinkSpec /\ Roomy => []DoneCredited
<1>1. CreditInv => DoneCredited
    BY DEF CreditInv
<1> QED
    BY <1>1, CreditInit, CreditStep, PTL DEF LinkSpec
=============================================================================
