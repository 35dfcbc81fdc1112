--------------------------- MODULE RadarRxProofs ---------------------------
(***************************************************************************)
(* tlv_find stays inside the frame it walks, for every frame size, every   *)
(* width of the offsets that two frames and a TLV head do not wrap, and    *)
(* every length on the wire.                                               *)
(***************************************************************************)
EXTENDS RadarRx, TlvProofs

\* The receive loop leaves the reassembler alone but for pushing bytes.
LEMMA RxStepsAreTlvSteps == [RxNext]_rxVars => [TlvNext]_tlvVars
BY DEF RxNext, rxVars, Receive, Find, FindTargets, FindPresence, EndOfFrame,
       Asked, Walk, ListTypes, ListTurn, ListEnds

\* Whatever on_frame does with the frames, the reassembler under it behaves
\* as module Tlv says, so its theorems hold in the receive loop.
THEOREM RxImplementsTlv == RxSpec => TlvSpec
<1>1. RxInit => TlvInit
    BY DEF RxInit
<1> QED
    BY <1>1, RxStepsAreTlvSteps, PTL DEF RxSpec, TlvSpec
-----------------------------------------------------------------------------
\* Where the walks are.  Outside a frame nobody walks; tlv_find checks every
\* length it goes by.  Of the list of types, which checks none, nothing is
\* claimed but that there is a frame.
RxInv ==
    /\ WireInv
    /\ result.is # "none" => frame # <<>>
    /\ result.is = "walking" => off \in TLV_HDR_LEN .. Len(frame)
    /\ result.is = "found" =>
          /\ result.at >= TLV_HDR_LEN + TLV_HEAD
          /\ result.at + result.len <= Len(frame)

\* A sum that does not wrap.
LEMMA NoWrap ==
    ASSUME NEW a \in Nat, NEW b \in Nat, a + b < U32
    PROVE  Add(a, b) = a + b
BY RxAssumption DEF Add

\* The check in tlv_find is sound although its sums may wrap: a length that
\* passes it ends inside the frame.
LEMMA FitsInside ==
    ASSUME WireInv, frame # <<>>, off \in TLV_HDR_LEN .. Len(frame),
           NEW ln \in 0 .. U32 - 1,
           Add(off, TLV_HEAD) <= total
    PROVE  /\ total = Len(frame)
           /\ Add(off, TLV_HEAD) = off + TLV_HEAD
           /\ Fits(ln) => /\ off + TLV_HEAD + ln <= Len(frame)
                          /\ Add(off, Add(TLV_HEAD, ln)) = off + TLV_HEAD + ln
<1>1. /\ total = Len(frame) /\ Len(frame) \in TLV_HDR_LEN .. TLV_MAX_FRAME
      /\ TLV_HDR_LEN \in Nat /\ TLV_MAX_FRAME \in Nat
    BY TlvAssumption DEF WireInv, FrameInv, FrameLength, total
<1>2. U32 \in Nat /\ TLV_HEAD \in Nat /\ TLV_HEAD + 2 * TLV_MAX_FRAME < U32
    BY RxAssumption
<1>3. ln \in Nat /\ off \in Nat /\ off <= TLV_MAX_FRAME
    BY <1>1, <1>2
<1>4. Add(off, TLV_HEAD) = off + TLV_HEAD
    <2>1. off + TLV_HEAD < U32
        BY <1>1, <1>2, <1>3
    <2> QED
        BY <1>2, <1>3, <2>1, NoWrap
<1>5. ASSUME Fits(ln)
      PROVE  /\ off + TLV_HEAD + ln <= Len(frame)
             /\ Add(off, Add(TLV_HEAD, ln)) = off + TLV_HEAD + ln
    <2>1. ln <= TLV_MAX_FRAME
        BY <1>1, <1>3, <1>5 DEF Fits
    <2>2. (off + TLV_HEAD) + ln < U32 /\ off + TLV_HEAD \in Nat
        BY <1>1, <1>2, <1>3, <2>1
    <2>3. Add(off + TLV_HEAD, ln) = (off + TLV_HEAD) + ln
        BY <1>3, <2>2, NoWrap
    <2>4. Add(TLV_HEAD, ln) = TLV_HEAD + ln
        <3>1. TLV_HEAD + ln < U32
            BY <1>1, <1>2, <1>3, <2>1
        <3> QED
            BY <1>2, <1>3, <3>1, NoWrap
    <2>5. Add(off, TLV_HEAD + ln) = off + (TLV_HEAD + ln)
        <3>1. TLV_HEAD + ln \in Nat /\ off + (TLV_HEAD + ln) < U32
            BY <1>2, <1>3, <2>2
        <3> QED
            BY <1>3, <3>1, NoWrap
    <2>6. off + (TLV_HEAD + ln) = off + TLV_HEAD + ln
        BY <1>2, <1>3
    <2> QED
        BY <1>1, <1>4, <1>5, <2>3, <2>4, <2>5, <2>6 DEF Fits
<1> QED
    BY <1>1, <1>4, <1>5

\* The inductive step, one case per action.
LEMMA RxStep == RxInv /\ [RxNext]_rxVars => RxInv'
<1> SUFFICES ASSUME RxInv, [RxNext]_rxVars PROVE RxInv'
    OBVIOUS
<1>w. WireInv /\ WireInv'
    BY RxStepsAreTlvSteps, WireStep DEF RxInv
<1>f. frame # <<>> => TLV_HDR_LEN \in TLV_HDR_LEN .. Len(frame)
    BY <1>w, TlvAssumption DEF WireInv, FrameInv
<1>l. Len(frame) \in Nat /\ TLV_HDR_LEN \in Nat /\ TLV_HEAD \in Nat
    BY <1>w, TlvAssumption, RxAssumption DEF WireInv, PushInv, TlvTypeOK
<1>1. CASE Receive
    BY <1>w, <1>1 DEF Receive, RxInv, Result
<1>2. CASE FindTargets
    BY <1>w, <1>f, <1>2 DEF FindTargets, Asked, tlvVars, RxInv, Result
<1>3. CASE FindPresence
    BY <1>w, <1>f, <1>3 DEF FindPresence, Asked, tlvVars, RxInv, Result
<1>4. CASE EndOfFrame
    BY <1>w, <1>4 DEF EndOfFrame, tlvVars, RxInv, Result
<1>5. ASSUME NEW t \in Types, NEW ln \in 0 .. U32 - 1, Walk(t, ln)
      PROVE  RxInv'
    <2>1. /\ result.is = "walking" /\ Add(off, TLV_HEAD) <= total
          /\ frame # <<>> /\ off \in TLV_HDR_LEN .. Len(frame)
          /\ frame' = frame
        BY <1>5 DEF Walk, RxInv, tlvVars
    <2>2. ln \in Nat
        BY RxAssumption
    <2>3. /\ Add(off, TLV_HEAD) = off + TLV_HEAD
          /\ Fits(ln) => /\ off + TLV_HEAD + ln <= Len(frame)
                         /\ Add(off, Add(TLV_HEAD, ln)) = off + TLV_HEAD + ln
        BY <1>w, <2>1, FitsInside
    <2>4. CASE ~Fits(ln) /\ result' = Result("null", 0, 0)
        BY <1>w, <2>1, <2>4 DEF RxInv, Result
    <2>5. CASE Fits(ln) /\ result' = Result("found", Add(off, TLV_HEAD), ln)
        <3>1. /\ result'.is = "found" /\ result'.at = off + TLV_HEAD
              /\ result'.len = ln
            BY <2>3, <2>5 DEF Result
        <3>2. /\ off + TLV_HEAD >= TLV_HDR_LEN + TLV_HEAD
              /\ (off + TLV_HEAD) + ln <= Len(frame)
            BY <1>l, <2>1, <2>2, <2>3, <2>5
        <3> QED
            BY <1>w, <2>1, <3>1, <3>2 DEF RxInv
    <2>6. CASE Fits(ln) /\ off' = Add(off, Add(TLV_HEAD, ln)) /\ result' = result
        <3>1. off' \in TLV_HDR_LEN .. Len(frame)
            BY <1>l, <2>1, <2>2, <2>3, <2>6
        <3> QED
            BY <1>w, <2>1, <2>6, <3>1 DEF RxInv
    <2> QED
        BY <1>5, <2>4, <2>5, <2>6 DEF Walk
<1>6. ASSUME NEW n \in NumTlvs, ListTypes(n)
      PROVE  RxInv'
    <2>1. frame # <<>> /\ frame' = frame
        BY <1>6 DEF ListTypes, RxInv, tlvVars
    <2> QED
        BY <1>w, <1>f, <1>6, <2>1 DEF ListTypes, RxInv, Result
<1>7. ASSUME NEW ln \in 0 .. U32 - 1, ListTurn(ln)
      PROVE  RxInv'
    <2>1. /\ result.is = "list" /\ frame # <<>>
          /\ frame' = frame /\ result' = result
        BY <1>7 DEF ListTurn, ListReads, RxInv, tlvVars
    <2> QED
        BY <1>w, <2>1 DEF RxInv
<1>8. CASE ListEnds
    BY <1>w, <1>8 DEF ListEnds, tlvVars, RxInv, Result
<1>9. CASE UNCHANGED rxVars
    BY <1>w, <1>9 DEF rxVars, tlvVars, findVars, RxInv
<1> QED
    BY <1>1, <1>2, <1>3, <1>4, <1>5, <1>6, <1>7, <1>8, <1>9 DEF RxNext, Find

LEMMA RxAlways == RxSpec => []RxInv
<1>1. RxInit => RxInv
    BY WireInit DEF RxInit, RxInv, Result
<1> QED
    BY <1>1, RxStep, PTL DEF RxSpec

\* tlv_find reads no type, length or payload outside the frame it was given,
\* whatever the lengths in it: its test of the length before the test of the
\* sum makes the sum harmless although it is taken modulo 2^32.
THEOREM WalkAlwaysInside == RxSpec => []WalkInside
<1>1. RxInv => WalkInside
    <2> SUFFICES ASSUME RxInv PROVE WalkInside
        OBVIOUS
    <2>1. frame # <<>> => total = Len(frame)
        BY DEF RxInv, WireInv, FrameInv, FrameLength, total
    <2> QED
        BY <2>1 DEF RxInv, WalkInside
<1> QED
    BY <1>1, RxAlways, PTL
=============================================================================
