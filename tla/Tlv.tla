-------------------------------- MODULE Tlv --------------------------------
(***************************************************************************)
(* The streaming frame reassembler of src/tlv.c, fed by radar_thread       *)
(* (src/radar.c) with whatever the UART delivers: whole frames, CLI text,  *)
(* or a stream with bytes missing after a ring overrun.                    *)
(*                                                                         *)
(* totalPacketLen is one symbol here instead of four bytes.                *)
(***************************************************************************)
EXTENDS Naturals, Sequences

CONSTANTS
    tlv_magic,      \* the magic word, a sequence of distinct symbols
    TLV_HDR_LEN,    \* header length, magic included
    LEN_AT,         \* position of totalPacketLen in the header
    TLV_MAX_FRAME,  \* size of buf
    Bytes           \* what may arrive

TLV_MAGIC_LEN == Len(tlv_magic)

ASSUME TlvAssumption ==
    /\ Bytes \subseteq Nat
    /\ tlv_magic \in Seq(Bytes)
    /\ TLV_HDR_LEN \in Nat /\ LEN_AT \in Nat /\ TLV_MAX_FRAME \in Nat
    /\ 0 < Len(tlv_magic)
    /\ Len(tlv_magic) < LEN_AT /\ LEN_AT <= TLV_HDR_LEN
    /\ TLV_HDR_LEN <= TLV_MAX_FRAME

\* What the hunt relies on: a magic word that never repeats a symbol has no
\* partial match worth keeping but its first byte.
ASSUME MagicDistinct ==
    \A i, j \in 1 .. Len(tlv_magic) : tlv_magic[i] = tlv_magic[j] => i = j

VARIABLES
    buf,            \* the bytes assembled so far
    want,           \* full length once the header is in, else 0
    match,          \* magic bytes matched so far while hunting
    seen,           \* history: bytes pushed since the last reset; of those
                    \* before a frame, no more than the magic word is long
    frame           \* what the last push handed to on_frame, or <<>>

reasm   == <<buf, want, match>>
tlvVars == <<reasm, seen, frame>>

len == Len(buf)

tlv_reset ==
    /\ buf' = <<>> /\ want' = 0 /\ match' = 0
    /\ seen' = <<>>

TlvInit ==
    /\ buf = <<>> /\ want = 0 /\ match = 0
    /\ seen = <<>> /\ frame = <<>>
-----------------------------------------------------------------------------
(* tlv_push, by its ways out; radar_thread resets after each frame.        *)

Suffix(s, k) == SubSeq(s, Len(s) - k + 1, Len(s))

Pushed(b) ==
    /\ seen' = IF len = 0 /\ Len(seen) = TLV_MAGIC_LEN
               THEN Append(Tail(seen), b) ELSE Append(seen, b)
    /\ frame' = <<>>

\* Return 1 with frame f, or start over with nothing (f = <<>>).
Delivered(f) == tlv_reset /\ frame' = f

\* Defect: a byte that breaks a match is thrown away whatever it is.
Bug_HuntFromZero(b) ==
    /\ len = 0
    /\ match + 1 < TLV_MAGIC_LEN \/ b # tlv_magic[match + 1]
    /\ match' = IF b = tlv_magic[match + 1] THEN match + 1 ELSE 0
    /\ Pushed(b)
    /\ UNCHANGED <<buf, want>>

\* Hunting: one more byte of the magic word, or start again, at 1 if the
\* byte that broke the match is the first byte of a new one.
Hunt(b) ==
    /\ len = 0
    /\ match + 1 < TLV_MAGIC_LEN \/ b # tlv_magic[match + 1]
    /\ match' = IF b = tlv_magic[match + 1] THEN match + 1
                ELSE IF b = tlv_magic[1] THEN 1 ELSE 0
    /\ Pushed(b)
    /\ UNCHANGED <<buf, want>>

\* Defect: the bytes the hunt has already consumed are not put into buf.
Bug_MagicNotStored(b) ==
    /\ len = 0
    /\ match + 1 = TLV_MAGIC_LEN /\ b = tlv_magic[match + 1]
    /\ buf' = <<b>>
    /\ want' = 0 /\ match' = 0
    /\ Pushed(b)

Magic(b) ==
    /\ len = 0
    /\ match + 1 = TLV_MAGIC_LEN /\ b = tlv_magic[match + 1]
    /\ buf' = tlv_magic
    /\ want' = 0 /\ match' = 0
    /\ Pushed(b)

Stored(b) == buf' = Append(buf, b)

\* The header is still coming in.
HeaderByte(b) ==
    /\ len > 0 /\ want = 0
    /\ len + 1 < TLV_HDR_LEN
    /\ Stored(b) /\ Pushed(b)
    /\ UNCHANGED <<want, match>>

\* Defect: no upper limit on the length a header may claim.
Bug_PlausibleUnbounded(n) == n >= TLV_HDR_LEN

Plausible(n) == n >= TLV_HDR_LEN /\ n <= TLV_MAX_FRAME

\* The byte that completes the header; a frame may be all header.
LastHeaderByte(b) ==
    LET h == Append(buf, b)
        n == h[LEN_AT]
    IN  /\ len > 0 /\ want = 0
        /\ len + 1 >= TLV_HDR_LEN
        /\ \/ ~Plausible(n) /\ Delivered(<<>>)
           \/ Plausible(n) /\ len + 1 >= n /\ Delivered(SubSeq(h, 1, n))
           \/ /\ Plausible(n) /\ len + 1 < n
              /\ want' = n
              /\ Stored(b) /\ Pushed(b)
              /\ UNCHANGED match

\* Defect: the frame is handed over one byte early.
Bug_BodyShort(b) ==
    /\ len > 0 /\ want > 0
    /\ \/ len + 1 < want /\ Stored(b) /\ Pushed(b) /\ UNCHANGED <<want, match>>
       \/ len + 1 >= want /\ Delivered(buf)

\* A byte after the header, up to the one that completes the frame.
Body(b) ==
    /\ len > 0 /\ want > 0
    /\ \/ len + 1 < want /\ Stored(b) /\ Pushed(b) /\ UNCHANGED <<want, match>>
       \/ len + 1 >= want /\ Delivered(SubSeq(Append(buf, b), 1, want))

tlv_push(b) == Hunt(b) \/ Magic(b) \/ HeaderByte(b) \/ LastHeaderByte(b) \/ Body(b)

\* radar_thread starts over after a stall, whatever is half assembled.
Restart == Delivered(<<>>)

TlvNext == (\E b \in Bytes : tlv_push(b)) \/ Restart

TlvSpec == TlvInit /\ [][TlvNext]_tlvVars
-----------------------------------------------------------------------------
(* Properties *)

\* The reassembler's fields have their types; want is 0 or a length that
\* passed the plausibility check.
TlvTypeOK ==
    /\ buf \in Seq(Bytes) /\ seen \in Seq(Bytes) /\ frame \in Seq(Bytes)
    /\ want \in {0} \union (TLV_HDR_LEN .. TLV_MAX_FRAME)
    /\ match \in 0 .. TLV_MAGIC_LEN - 1

\* The next byte always has room: tlv_push writes buf[len] before it looks at
\* any length, with nothing but the bookkeeping of earlier calls to keep it
\* inside the array.
PushInBounds == len < TLV_MAX_FRAME

\* While hunting, match is the longest tail of the input that begins the
\* magic word: no start of a frame is missed, whatever noise is in front.
HuntMissesNothing ==
    len = 0 =>
        \A k \in 1 .. Len(seen) : k < TLV_MAGIC_LEN =>
            (Suffix(seen, k) = SubSeq(tlv_magic, 1, k) => match >= k)

\* What is being assembled, and so every frame, is a run of consecutive bytes
\* from the wire that begins with the magic word.
Contiguous ==
    len > 0 => /\ TLV_MAGIC_LEN <= len /\ len <= Len(seen)
               /\ buf = Suffix(seen, len)
               /\ SubSeq(buf, 1, TLV_MAGIC_LEN) = tlv_magic

\* on_frame gets exactly as many bytes as the frame's own header claims, so
\* the length that tlv_find trusts is the length of what is in buf.
FrameLength ==
    frame # <<>> => Len(frame) = frame[LEN_AT]
=============================================================================
