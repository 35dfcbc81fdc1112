------------------------------ MODULE RadarRx ------------------------------
(***************************************************************************)
(* The receive loop of radar_thread (src/radar.c): bytes go through the    *)
(* reassembler of module Tlv, and in each frame it delivers on_frame looks *)
(* for a target list and, without one, for presence zones, and then goes   *)
(* over all TLVs once more for its list of the types seen.                 *)
(*                                                                         *)
(* tlv_find (src/tlv.c) takes type and length of each TLV from the frame.  *)
(* They may be anything a u32 holds, so they are arbitrary here; offsets   *)
(* are u32 too, so they wrap.                                              *)
(***************************************************************************)
EXTENDS Tlv

CONSTANTS
    U32,            \* 2^32: the width of offsets and lengths
    TLV_HEAD,       \* bytes of type and length in front of a payload: 8
    OtherType,      \* a TLV type on_frame does not ask for
    NumTlvs         \* values of numTLVs that headers may claim

TLV_TARGET_LIST       == 308
TLV_ENHANCED_PRESENCE == 315
Types == {TLV_TARGET_LIST, TLV_ENHANCED_PRESENCE, OtherType}

\* Two frames and a TLV head do not wrap: true of 2048, 8 and 2^32.
ASSUME RxAssumption ==
    /\ U32 \in Nat
    /\ TLV_HEAD \in Nat \ {0}
    /\ OtherType \in Nat \ {TLV_TARGET_LIST, TLV_ENHANCED_PRESENCE}
    /\ NumTlvs \subseteq Nat
    /\ TLV_HEAD + 2 * TLV_MAX_FRAME < U32

VARIABLES
    type,           \* the type tlv_find was asked for
    off,            \* where its walk is
    result,         \* "none": not called; "walking"; "null"; or "found"; then
                    \* "list", the walk for the list of types, and "done"
    left            \* TLVs that numTLVs says are left for that walk

findVars == <<type, off, result, left>>
rxVars   == <<tlvVars, findVars>>

Result(is, at, ln) == [is |-> is, at |-> at, len |-> ln]

\* totalPacketLen of the frame at hand.
total == frame[LEN_AT]

RxInit ==
    /\ TlvInit
    /\ type = OtherType /\ off = 0 /\ result = Result("none", 0, 0)
    /\ left = 0
-----------------------------------------------------------------------------
(* tlv_find *)

Asked(t) ==
    /\ type' = t
    /\ off' = TLV_HDR_LEN
    /\ result' = Result("walking", 0, 0)
    /\ UNCHANGED <<tlvVars, left>>

Add(a, b) == (a + b) % U32

\* Defect: the sum alone is trusted, and a huge length makes it wrap.
Bug_FitsBySumOnly(ln) == Add(Add(off, TLV_HEAD), ln) <= total

Fits(ln) == ln <= total /\ Add(Add(off, TLV_HEAD), ln) <= total

\* One turn of the loop over a TLV that claims type t and length ln.
Walk(t, ln) ==
    /\ result.is = "walking"
    /\ Add(off, TLV_HEAD) <= total
    /\ \/ /\ ~Fits(ln)
          /\ result' = Result("null", 0, 0)
          /\ UNCHANGED off
       \/ /\ Fits(ln) /\ t = type
          /\ result' = Result("found", Add(off, TLV_HEAD), ln)
          /\ UNCHANGED off
       \/ /\ Fits(ln) /\ t # type
          /\ off' = Add(off, Add(TLV_HEAD, ln))
          /\ UNCHANGED result
    /\ UNCHANGED <<tlvVars, left, type>>

EndOfFrame ==
    /\ result.is = "walking"
    /\ Add(off, TLV_HEAD) > total
    /\ result' = Result("null", 0, 0)
    /\ UNCHANGED <<tlvVars, left, type, off>>
-----------------------------------------------------------------------------
(* on_frame and the loop around it *)

FindTargets ==
    /\ frame # <<>>
    /\ result.is = "none"
    /\ Asked(TLV_TARGET_LIST)

FindPresence ==
    /\ result.is = "null"
    /\ type = TLV_TARGET_LIST
    /\ Asked(TLV_ENHANCED_PRESENCE)

\* The list of types: up to numTLVs TLVs.  Their lengths are added up without
\* the test of Fits, so off may be anywhere, the frame's outside included.
ListTypes(n) ==
    /\ \/ result.is = "found"
       \/ result.is = "null" /\ type = TLV_ENHANCED_PRESENCE
    /\ result' = Result("list", 0, 0)
    /\ off' = TLV_HDR_LEN
    /\ left' = n
    /\ UNCHANGED <<tlvVars, type>>

\* The loop goes on and reads a type and a length at off.
ListReads == result.is = "list" /\ left > 0 /\ Add(off, TLV_HEAD) <= total

ListTurn(ln) ==
    /\ ListReads
    /\ left' = left - 1
    /\ off' = Add(off, Add(TLV_HEAD, ln))
    /\ UNCHANGED <<tlvVars, type, result>>

ListEnds ==
    /\ result.is = "list" /\ ~ListReads
    /\ result' = Result("done", 0, 0)
    /\ UNCHANGED <<tlvVars, left, type, off>>

\* on_frame has returned, or there was no frame.
Looked == frame = <<>> \/ result.is = "done"

\* The next byte from the ring, or a stall.
Receive ==
    /\ Looked
    /\ TlvNext
    /\ type' = OtherType /\ off' = 0 /\ result' = Result("none", 0, 0)
    /\ left' = 0

Find ==
    \/ FindTargets \/ FindPresence \/ EndOfFrame
    \/ \E t \in Types, ln \in 0 .. U32 - 1 : Walk(t, ln)
    \/ \E n \in NumTlvs : ListTypes(n)
    \/ \E ln \in 0 .. U32 - 1 : ListTurn(ln)
    \/ ListEnds

RxNext == Receive \/ Find

\* The radar thread runs; nothing is assumed about what arrives.
RxSpec == RxInit /\ [][RxNext]_rxVars /\ WF_rxVars(Find)
-----------------------------------------------------------------------------
(* Properties *)

\* Whatever arrived on the UART and whatever lengths the TLVs claim, the walk
\* never leaves the bytes the reassembler handed over: the type and length
\* it reads next are behind the header and inside the frame, and so is every
\* payload it returns.
WalkInside ==
    /\ result.is = "walking" =>
          /\ total = Len(frame)
          /\ off \in TLV_HDR_LEN .. Len(frame)
    /\ result.is = "found" =>
          /\ result.at >= TLV_HDR_LEN + TLV_HEAD
          /\ result.at + result.len <= Len(frame)

\* No length on the wire sends the walk round in circles, in tlv_find or in
\* the list of types: the radar thread always comes back for the next byte.
WalkEnds == frame # <<>> ~> Looked
=============================================================================
