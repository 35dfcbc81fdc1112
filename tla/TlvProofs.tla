----------------------------- MODULE TlvProofs -----------------------------
(***************************************************************************)
(* The reassembler, for every magic word, header and buffer size and every *)
(* input: it never writes outside its buffer, misses no frame that it      *)
(* could have begun, and hands on nothing but whole, unbroken ones.        *)
(***************************************************************************)
EXTENDS Tlv, SequenceTheorems, TLAPS

\* What earlier pushes have left behind: before the header is in, buf is
\* shorter than a header; after that, shorter than the frame it will be.
PushInv ==
    /\ TlvTypeOK
    /\ want = 0 => len < TLV_HDR_LEN
    /\ want > 0 => len < want
    /\ len > 0 => len >= TLV_MAGIC_LEN

\* Sizes of the sequences a push builds.
LEMMA Appended ==
    ASSUME NEW s \in Seq(Bytes), NEW b \in Bytes
    PROVE  Append(s, b) \in Seq(Bytes) /\ Len(Append(s, b)) = Len(s) + 1
OBVIOUS

\* A frame cut out of what was received consists of received bytes.
LEMMA Cut ==
    ASSUME NEW s \in Seq(Bytes), NEW n \in 0 .. Len(s)
    PROVE  SubSeq(s, 1, n) \in Seq(Bytes)
BY SubSeqProperties

\* The history of a push is made of bytes.
LEMMA PushedType ==
    ASSUME TlvTypeOK, NEW b \in Bytes, Pushed(b)
    PROVE  seen' \in Seq(Bytes) /\ frame' \in Seq(Bytes)
<1>1. seen \in Seq(Bytes)
    BY DEF TlvTypeOK
<1>2. CASE len = 0 /\ Len(seen) = TLV_MAGIC_LEN
    <2>1. seen # <<>>
        BY <1>2, TlvAssumption DEF TLV_MAGIC_LEN
    <2>2. Tail(seen) \in Seq(Bytes)
        BY <1>1, <2>1
    <2> QED
        BY <1>2, <2>2, Appended DEF Pushed
<1>3. CASE ~(len = 0 /\ Len(seen) = TLV_MAGIC_LEN)
    BY <1>1, <1>3, Appended DEF Pushed
<1> QED
    BY <1>2, <1>3

\* Nothing is a sequence of bytes too.
LEMMA Nothing == <<>> \in Seq(Bytes)
OBVIOUS

\* tlv_reset and the frame it hands over.
LEMMA DeliveredInv ==
    ASSUME NEW f \in Seq(Bytes), Delivered(f)
    PROVE  PushInv'
<1>1. buf' = <<>> /\ want' = 0 /\ match' = 0 /\ seen' = <<>> /\ frame' = f
    BY DEF Delivered, tlv_reset
<1>2. len' = 0
    BY <1>1 DEF len
<1> QED
    BY <1>1, <1>2, TlvAssumption DEF PushInv, TlvTypeOK, TLV_MAGIC_LEN

\* The inductive step, one case per way out of tlv_push.
LEMMA PushStep == PushInv /\ [TlvNext]_tlvVars => PushInv'
<1> SUFFICES ASSUME PushInv, [TlvNext]_tlvVars PROVE PushInv'
    OBVIOUS
<1>a. /\ buf \in Seq(Bytes) /\ len \in Nat /\ len = Len(buf)
      /\ TLV_MAGIC_LEN \in Nat \ {0} /\ TLV_MAGIC_LEN < TLV_HDR_LEN
      /\ TLV_HDR_LEN \in Nat /\ TLV_MAX_FRAME \in Nat
      /\ TLV_HDR_LEN <= TLV_MAX_FRAME
    BY TlvAssumption DEF PushInv, TlvTypeOK, len, TLV_MAGIC_LEN
<1>1. ASSUME NEW b \in Bytes, Hunt(b) PROVE PushInv'
    <2>1. seen' \in Seq(Bytes) /\ frame' \in Seq(Bytes)
        BY <1>1, PushedType DEF Hunt, PushInv
    <2>2. match' \in 0 .. TLV_MAGIC_LEN - 1
        <3>1. match \in 0 .. TLV_MAGIC_LEN - 1
            BY DEF PushInv, TlvTypeOK
        <3>2. match' = match + 1 => match + 1 < TLV_MAGIC_LEN
                                    \/ match' = 1 \/ match' = 0
            BY <1>1, <3>1, <1>a DEF Hunt
        <3>3. b = tlv_magic[match + 1] => match + 1 < TLV_MAGIC_LEN
            BY <1>1 DEF Hunt
        <3>4. CASE b = tlv_magic[match + 1]
            BY <1>1, <1>a, <3>1, <3>3, <3>4 DEF Hunt
        <3>5. CASE b # tlv_magic[match + 1]
            <4>1. match' = 0 \/ (match' = 1 /\ b = tlv_magic[1])
                BY <1>1, <3>5 DEF Hunt
            <4>2. b = tlv_magic[1] => match # 0
                BY <3>5
            <4> QED
                BY <1>a, <3>1, <4>1, <4>2
        <3> QED
            BY <3>4, <3>5
    <2>3. buf' = buf /\ want' = want /\ len' = len
        BY <1>1 DEF Hunt, len
    <2> QED
        BY <2>1, <2>2, <2>3 DEF PushInv, TlvTypeOK
<1>2. ASSUME NEW b \in Bytes, Magic(b) PROVE PushInv'
    <2>1. seen' \in Seq(Bytes) /\ frame' \in Seq(Bytes)
        BY <1>2, PushedType DEF Magic, PushInv
    <2>2. buf' = tlv_magic /\ want' = 0 /\ match' = 0
        BY <1>2 DEF Magic
    <2>3. len' = TLV_MAGIC_LEN /\ buf' \in Seq(Bytes)
        BY <2>2, TlvAssumption DEF len, TLV_MAGIC_LEN
    <2> QED
        BY <1>a, <2>1, <2>2, <2>3 DEF PushInv, TlvTypeOK
<1>3. ASSUME NEW b \in Bytes, HeaderByte(b) PROVE PushInv'
    <2>1. seen' \in Seq(Bytes) /\ frame' \in Seq(Bytes)
        BY <1>3, PushedType DEF HeaderByte, PushInv
    <2>2. buf' \in Seq(Bytes) /\ len' = len + 1
        BY <1>3, <1>a, Appended DEF HeaderByte, Stored, len
    <2> QED
        BY <1>a, <1>3, <2>1, <2>2 DEF HeaderByte, PushInv, TlvTypeOK
<1>4. ASSUME NEW b \in Bytes, LastHeaderByte(b) PROVE PushInv'
    <2> DEFINE h == Append(buf, b)
               n == h[LEN_AT]
    <2>1. h \in Seq(Bytes) /\ Len(h) = len + 1
        BY <1>a, Appended
    <2>2. len + 1 = TLV_HDR_LEN
        BY <1>4, <1>a DEF LastHeaderByte, PushInv
    <2>3. n \in Nat
        <3>1. LEN_AT \in 1 .. Len(h)
            BY <2>1, <2>2, <1>a, TlvAssumption DEF TLV_MAGIC_LEN
        <3> HIDE DEF h
        <3>2. n \in Bytes
            BY <2>1, <3>1, ElementOfSeq
        <3> QED
            BY <3>2, TlvAssumption
    <2>a. \/ ~Plausible(n) /\ Delivered(<<>>)
          \/ Plausible(n) /\ len + 1 >= n /\ Delivered(SubSeq(h, 1, n))
          \/ /\ Plausible(n) /\ len + 1 < n
             /\ want' = n /\ buf' = h /\ match' = match /\ Pushed(b)
        BY <1>4, Zenon DEF LastHeaderByte, Stored
    <2> HIDE DEF n, h
    <2>4. CASE ~Plausible(n)
        <3>1. Delivered(<<>>)
            BY <2>a, <2>4
        <3> QED
            BY <3>1, DeliveredInv, Nothing
    <2>5. CASE Plausible(n) /\ len + 1 >= n
        <3>1. Delivered(SubSeq(h, 1, n))
            BY <2>a, <2>5, <2>3, <1>a
        <3>2. n \in 0 .. Len(h)
            BY <2>1, <2>3, <2>5, <1>a
        <3>3. SubSeq(h, 1, n) \in Seq(Bytes)
            BY <2>1, <3>2, Cut
        <3> QED
            BY <3>1, <3>3, DeliveredInv
    <2>6. CASE Plausible(n) /\ ~(len + 1 >= n)
        <3>1. want' = n /\ buf' = h /\ match' = match /\ Pushed(b)
            BY <2>a, <2>6
        <3>2. seen' \in Seq(Bytes) /\ frame' \in Seq(Bytes)
            BY <3>1, PushedType DEF PushInv
        <3>3. len' = len + 1
            BY <3>1, <2>1 DEF len
        <3> QED
            BY <1>a, <2>1, <2>2, <2>3, <2>6, <3>1, <3>2, <3>3
            DEF PushInv, TlvTypeOK, Plausible
    <2> QED
        BY <2>4, <2>5, <2>6
<1>5. ASSUME NEW b \in Bytes, Body(b) PROVE PushInv'
    <2>1. Append(buf, b) \in Seq(Bytes) /\ Len(Append(buf, b)) = len + 1
        BY <1>a, Appended
    <2>2. want \in Nat /\ len < want
        BY <1>5, <1>a DEF Body, PushInv, TlvTypeOK
    <2>3. CASE len + 1 < want
        <3>1. buf' = Append(buf, b) /\ want' = want /\ match' = match /\ Pushed(b)
            BY <1>5, <2>2, <2>3, <1>a DEF Body, Stored
        <3>2. seen' \in Seq(Bytes) /\ frame' \in Seq(Bytes)
            BY <3>1, PushedType DEF PushInv
        <3>3. len' = len + 1
            BY <3>1, <2>1 DEF len
        <3>4. len >= TLV_MAGIC_LEN
            BY <1>5 DEF Body, PushInv
        <3>5. want' > 0 /\ len' < want' /\ len' >= TLV_MAGIC_LEN
            BY <1>a, <2>2, <2>3, <3>1, <3>3, <3>4
        <3>6. TlvTypeOK'
            BY <2>1, <3>1, <3>2 DEF PushInv, TlvTypeOK
        <3> QED
            BY <1>a, <2>2, <3>1, <3>5, <3>6 DEF PushInv
    <2>4. CASE ~(len + 1 < want)
        <3>1. Delivered(SubSeq(Append(buf, b), 1, want))
            BY <1>5, <2>4, Zenon DEF Body
        <3>2. want \in 0 .. Len(Append(buf, b))
            BY <1>a, <2>1, <2>2, <2>4
        <3>3. SubSeq(Append(buf, b), 1, want) \in Seq(Bytes)
            BY <2>1, <3>2, Cut
        <3> QED
            BY <3>1, <3>3, DeliveredInv
    <2> QED
        BY <2>3, <2>4
<1>6. CASE Restart
    BY <1>6, DeliveredInv, Nothing DEF Restart
<1>7. CASE UNCHANGED tlvVars
    BY <1>7 DEF tlvVars, reasm, PushInv, TlvTypeOK, len
<1> QED
    BY <1>1, <1>2, <1>3, <1>4, <1>5, <1>6, <1>7 DEF TlvNext, tlv_push

\* The reassembler's fields keep their types, want among them: a length it
\* waits for has always passed the plausibility check.
THEOREM TlvTypeCorrect == TlvSpec => []TlvTypeOK
<1>1. TlvInit => PushInv
    BY TlvAssumption DEF TlvInit, PushInv, TlvTypeOK, len, TLV_MAGIC_LEN
<1>2. PushInv => TlvTypeOK
    BY DEF PushInv
<1> QED
    BY <1>1, <1>2, PushStep, PTL DEF TlvSpec

\* tlv_push is called with room for its byte, always.
THEOREM PushAlwaysInBounds == TlvSpec => []PushInBounds
<1>1. TlvInit => PushInv
    BY TlvAssumption DEF TlvInit, PushInv, TlvTypeOK, len, TLV_MAGIC_LEN
<1>2. PushInv => PushInBounds
    BY TlvAssumption DEF PushInv, PushInBounds, TlvTypeOK, len
<1> QED
    BY <1>1, <1>2, PushStep, PTL DEF TlvSpec
-----------------------------------------------------------------------------
(* What is in the buffer is what came over the wire.                       *)

\* Hunting, with the suffix written out byte by byte: the last match bytes
\* begin the magic word, and no longer tail of the input does.
HuntInv ==
    len = 0 =>
        /\ match <= Len(seen)
        /\ \A i \in 1 .. match : seen[Len(seen) - match + i] = tlv_magic[i]
        /\ \A k \in 1 .. Len(seen) :
              /\ k < TLV_MAGIC_LEN
              /\ \A i \in 1 .. k : seen[Len(seen) - k + i] = tlv_magic[i]
              => match >= k

\* Assembling: buf is the tail of the input and begins with the magic word;
\* the length it waits for is the one in its own header.
AssembleInv ==
    len > 0 =>
        /\ len <= Len(seen)
        /\ \A i \in 1 .. len : buf[i] = seen[Len(seen) - len + i]
        /\ \A i \in 1 .. TLV_MAGIC_LEN : buf[i] = tlv_magic[i]
        /\ want > 0 => len >= TLV_HDR_LEN /\ buf[LEN_AT] = want

\* A frame that was handed over has a header and fits the array.
FrameInv ==
    /\ FrameLength
    /\ frame # <<>> => Len(frame) \in TLV_HDR_LEN .. TLV_MAX_FRAME

WireInv == PushInv /\ HuntInv /\ AssembleInv /\ FrameInv

\* How a push shifts the history: counted from its end, every byte that is
\* kept moves by one place and b is the last.
LEMMA PushedShift ==
    ASSUME TlvTypeOK, NEW b \in Bytes, Pushed(b)
    PROVE  /\ Len(seen) \in Nat /\ Len(seen') \in Nat \ {0}
           /\ \/ Len(seen') = Len(seen) + 1
              \/ Len(seen') = Len(seen) /\ Len(seen) = TLV_MAGIC_LEN /\ len = 0
           /\ seen'[Len(seen')] = b
           /\ \A k \in 0 .. Len(seen') - 2 :
                 seen'[Len(seen') - 1 - k] = seen[Len(seen) - k]
<1>1. seen \in Seq(Bytes) /\ Len(seen) \in Nat
    BY DEF TlvTypeOK
<1>2. CASE len = 0 /\ Len(seen) = TLV_MAGIC_LEN
    <2>1. seen # <<>> /\ Len(seen) \in Nat \ {0}
        BY <1>1, <1>2, TlvAssumption DEF TLV_MAGIC_LEN
    <2>2. /\ Tail(seen) \in Seq(Bytes) /\ Len(Tail(seen)) = Len(seen) - 1
          /\ \A i \in 1 .. Len(Tail(seen)) : Tail(seen)[i] = seen[i + 1]
        BY <1>1, <2>1, HeadTailProperties
    <2>3. seen' = Append(Tail(seen), b)
        BY <1>2 DEF Pushed
    <2>4. /\ Len(seen') = Len(seen) /\ seen'[Len(seen')] = b
          /\ \A i \in 1 .. Len(Tail(seen)) : seen'[i] = Tail(seen)[i]
        BY <2>1, <2>2, <2>3, AppendProperties
    <2>5. ASSUME NEW k \in 0 .. Len(seen') - 2
          PROVE  seen'[Len(seen') - 1 - k] = seen[Len(seen) - k]
        <3>1. Len(seen') - 1 - k \in 1 .. Len(Tail(seen))
            BY <2>1, <2>2, <2>4
        <3>2. (Len(seen') - 1 - k) + 1 = Len(seen) - k
            BY <2>1, <2>4
        <3> QED
            BY <2>2, <2>4, <3>1, <3>2
    <2> QED
        BY <1>2, <2>1, <2>4, <2>5
<1>3. CASE ~(len = 0 /\ Len(seen) = TLV_MAGIC_LEN)
    <2>1. seen' = Append(seen, b)
        BY <1>3 DEF Pushed
    <2>2. /\ Len(seen') = Len(seen) + 1 /\ seen'[Len(seen')] = b
          /\ \A i \in 1 .. Len(seen) : seen'[i] = seen[i]
        BY <1>1, <2>1, AppendProperties
    <2>3. ASSUME NEW k \in 0 .. Len(seen') - 2
          PROVE  seen'[Len(seen') - 1 - k] = seen[Len(seen) - k]
        <3>1. Len(seen') - 1 - k = Len(seen) - k /\ Len(seen) - k \in 1 .. Len(seen)
            BY <1>1, <2>2
        <3> QED
            BY <2>2, <3>1
    <2> QED
        BY <1>1, <2>2, <2>3
<1> QED
    BY <1>2, <1>3

\* One byte of hunting keeps match the longest tail that begins the magic
\* word.  This is where it matters that the word never repeats a symbol.
LEMMA HuntStep ==
    ASSUME WireInv, NEW b \in Bytes, Hunt(b)
    PROVE  HuntInv'
<1> DEFINE n == Len(seen)
           m == Len(seen')
<1>1. /\ n \in Nat /\ m \in Nat \ {0}
      /\ m = n + 1 \/ (m = n /\ n = TLV_MAGIC_LEN)
      /\ seen'[m] = b
      /\ \A k \in 0 .. m - 2 : seen'[m - 1 - k] = seen[n - k]
    BY PushedShift DEF Hunt, WireInv, PushInv
<1>2. /\ len = 0 /\ Pushed(b) /\ buf' = buf
      /\ match \in Nat /\ match < TLV_MAGIC_LEN
      /\ TLV_MAGIC_LEN \in Nat
    BY TlvAssumption DEF Hunt, WireInv, PushInv, TlvTypeOK, TLV_MAGIC_LEN
<1>3. /\ match <= n
      /\ \A i \in 1 .. match : seen[n - match + i] = tlv_magic[i]
      /\ \A k \in 1 .. n :
            /\ k < TLV_MAGIC_LEN
            /\ \A i \in 1 .. k : seen[n - k + i] = tlv_magic[i]
            => match >= k
    BY <1>2 DEF WireInv, HuntInv
<1>4. /\ b = tlv_magic[match + 1] => match + 1 < TLV_MAGIC_LEN /\ match' = match + 1
      /\ b # tlv_magic[match + 1] => match' = IF b = tlv_magic[1] THEN 1 ELSE 0
    BY DEF Hunt
<1> HIDE DEF n, m
<1>5. match' <= m
    BY <1>1, <1>2, <1>3, <1>4
<1>6. ASSUME NEW i \in 1 .. match'
      PROVE  seen'[m - match' + i] = tlv_magic[i]
    <2>1. CASE b = tlv_magic[match + 1]
        <3>1. CASE i = match + 1
            BY <1>1, <1>2, <1>4, <2>1, <3>1
        <3>2. CASE i # match + 1
            <4>1. i \in 1 .. match /\ match - i \in 0 .. m - 2
                BY <1>1, <1>2, <1>4, <1>5, <2>1, <3>2
            <4>2. seen'[m - 1 - (match - i)] = seen[n - (match - i)]
                BY <1>1, <4>1
            <4>3. /\ m - 1 - (match - i) = m - match' + i
                  /\ n - (match - i) = n - match + i
                BY <1>1, <1>2, <1>4, <2>1, <4>1
            <4> QED
                BY <1>3, <4>1, <4>2, <4>3
        <3> QED
            BY <3>1, <3>2
    <2>2. CASE b # tlv_magic[match + 1]
        BY <1>1, <1>4, <2>2
    <2> QED
        BY <2>1, <2>2
<1>7. ASSUME NEW k \in 1 .. m, k < TLV_MAGIC_LEN,
             \A i \in 1 .. k : seen'[m - k + i] = tlv_magic[i]
      PROVE  match' >= k
    <2>1. b = tlv_magic[k]
        <3>1. seen'[m - k + k] = tlv_magic[k] /\ m - k + k = m
            BY <1>1, <1>7
        <3> QED
            BY <1>1, <3>1
    <2>2. ASSUME NEW i \in 1 .. k - 1
          PROVE  seen[n - (k - 1) + i] = tlv_magic[i]
        <3>1. k - 1 - i \in 0 .. m - 2
            BY <1>1
        <3>2. seen'[m - 1 - (k - 1 - i)] = seen[n - (k - 1 - i)]
            BY <1>1, <3>1
        <3>3. /\ m - 1 - (k - 1 - i) = m - k + i
              /\ n - (k - 1 - i) = n - (k - 1) + i
            BY <1>1
        <3>4. i \in 1 .. k
            OBVIOUS
        <3>5. seen'[m - k + i] = tlv_magic[i]
            BY <1>7, <3>4
        <3> QED
            BY <3>2, <3>3, <3>5
    <2>3. match >= k - 1
        <3>1. CASE k = 1
            BY <1>2, <3>1
        <3>2. CASE k > 1
            <4>1. k - 1 \in 1 .. n /\ k - 1 < TLV_MAGIC_LEN
                BY <1>1, <1>2, <1>7, <3>2
            <4> QED
                BY <1>3, <2>2, <4>1
        <3> QED
            BY <3>1, <3>2
    <2>4. CASE match = k - 1
        BY <1>1, <1>2, <1>4, <2>1, <2>4
    <2>5. CASE match >= k /\ k = 1
        BY <1>1, <1>2, <1>4, <2>1, <2>5
    <2>6. CASE match >= k /\ k > 1
        <3>1. seen[n] = tlv_magic[match]
            <4>1. match \in 1 .. match /\ n - match + match = n
                BY <1>1, <1>2, <2>6
            <4> QED
                BY <1>3, <4>1
        <3>2. seen[n] = tlv_magic[k - 1]
            <4>1. k - 1 \in 1 .. k - 1 /\ n - (k - 1) + (k - 1) = n
                BY <1>1, <2>6
            <4> QED
                BY <2>2, <4>1
        <3>3. match \in 1 .. Len(tlv_magic) /\ k - 1 \in 1 .. Len(tlv_magic)
            BY <1>2, <1>7, <2>6 DEF TLV_MAGIC_LEN
        <3>4. match = k - 1
            BY <3>1, <3>2, <3>3, MagicDistinct
        <3> QED
            BY <1>2, <2>6, <3>4
    <2> QED
        BY <1>1, <1>2, <2>3, <2>4, <2>5, <2>6
<1> QED
    BY <1>5, <1>6, <1>7 DEF HuntInv, m

\* The byte that completes the magic word.
LEMMA MagicStep ==
    ASSUME WireInv, NEW b \in Bytes, Magic(b)
    PROVE  AssembleInv'
<1> DEFINE n == Len(seen)
           m == Len(seen')
           L == TLV_MAGIC_LEN
<1>1. /\ n \in Nat /\ m \in Nat \ {0}
      /\ m = n + 1 \/ (m = n /\ n = L)
      /\ seen'[m] = b
      /\ \A k \in 0 .. m - 2 : seen'[m - 1 - k] = seen[n - k]
    BY PushedShift DEF Magic, WireInv, PushInv
<1>2. /\ len = 0 /\ buf' = tlv_magic /\ want' = 0
      /\ match + 1 = L /\ b = tlv_magic[match + 1]
      /\ match \in Nat /\ L \in Nat
    BY TlvAssumption DEF Magic, WireInv, PushInv, TlvTypeOK, TLV_MAGIC_LEN
<1>3. /\ match <= n
      /\ \A i \in 1 .. match : seen[n - match + i] = tlv_magic[i]
    BY <1>2 DEF WireInv, HuntInv
<1>4. len' = L
    BY <1>2 DEF len, TLV_MAGIC_LEN
<1> HIDE DEF n, m, L
<1>5. L <= m
    BY <1>1, <1>2, <1>3
<1>6. ASSUME NEW i \in 1 .. L
      PROVE  tlv_magic[i] = seen'[m - L + i]
    <2>1. CASE i = L
        BY <1>1, <1>2, <2>1
    <2>2. CASE i # L
        <3>1. i \in 1 .. match /\ match - i \in 0 .. m - 2
            BY <1>1, <1>2, <1>5, <2>2
        <3>2. seen'[m - 1 - (match - i)] = seen[n - (match - i)]
            BY <1>1, <3>1
        <3>3. /\ m - 1 - (match - i) = m - L + i
              /\ n - (match - i) = n - match + i
            BY <1>1, <1>2, <3>1
        <3> QED
            BY <1>3, <3>1, <3>2, <3>3
    <2> QED
        BY <2>1, <2>2
<1> QED
    BY <1>2, <1>4, <1>5, <1>6 DEF AssembleInv, m, L

\* A byte that is stored behind the magic word.  The header's length field
\* is settled once the header is in.
LEMMA StoredStep ==
    ASSUME WireInv, NEW b \in Bytes, len > 0, Stored(b), Pushed(b),
           want' > 0 => len' >= TLV_HDR_LEN /\ buf'[LEN_AT] = want'
    PROVE  AssembleInv'
<1> DEFINE n == Len(seen)
           m == Len(seen')
<1>1. /\ n \in Nat /\ m = n + 1
      /\ seen'[m] = b
      /\ \A k \in 0 .. m - 2 : seen'[m - 1 - k] = seen[n - k]
    <2>1. len # 0
        BY DEF WireInv, PushInv, TlvTypeOK, len
    <2> QED
        BY <2>1, PushedShift DEF WireInv, PushInv
<1>2. buf \in Seq(Bytes) /\ len \in Nat /\ len = Len(buf)
    BY DEF WireInv, PushInv, TlvTypeOK, len
<1>3. /\ len' = len + 1
      /\ \A i \in 1 .. len : buf'[i] = buf[i]
      /\ buf'[len + 1] = b
    BY <1>2, AppendProperties DEF Stored, len
<1>4. /\ len <= n
      /\ \A i \in 1 .. len : buf[i] = seen[n - len + i]
      /\ \A i \in 1 .. TLV_MAGIC_LEN : buf[i] = tlv_magic[i]
      /\ TLV_MAGIC_LEN \in Nat /\ TLV_MAGIC_LEN <= len
    BY TlvAssumption DEF WireInv, PushInv, AssembleInv, TLV_MAGIC_LEN
<1> HIDE DEF n, m
<1>5. ASSUME NEW i \in 1 .. len + 1
      PROVE  buf'[i] = seen'[m - (len + 1) + i]
    <2>1. CASE i = len + 1
        BY <1>1, <1>2, <1>3, <2>1
    <2>2. CASE i # len + 1
        <3>1. i \in 1 .. len /\ len - i \in 0 .. m - 2
            BY <1>1, <1>2, <1>4, <2>2
        <3>2. seen'[m - 1 - (len - i)] = seen[n - (len - i)]
            BY <1>1, <3>1
        <3>3. /\ m - 1 - (len - i) = m - (len + 1) + i
              /\ n - (len - i) = n - len + i
            BY <1>1, <1>2, <3>1
        <3> QED
            BY <1>3, <1>4, <3>1, <3>2, <3>3
    <2> QED
        BY <2>1, <2>2
<1>6. \A i \in 1 .. TLV_MAGIC_LEN : buf'[i] = tlv_magic[i]
    BY <1>2, <1>3, <1>4
<1>7. len' <= m
    BY <1>1, <1>2, <1>3, <1>4
<1> QED
    BY <1>3, <1>5, <1>6, <1>7 DEF AssembleInv, m

\* A frame of n bytes cut off s, whose header claims n bytes.
LEMMA CutLength ==
    ASSUME NEW s \in Seq(Bytes), NEW n \in 1 .. Len(s),
           LEN_AT <= n, s[LEN_AT] = n
    PROVE  /\ Len(SubSeq(s, 1, n)) = SubSeq(s, 1, n)[LEN_AT]
           /\ Len(SubSeq(s, 1, n)) = n
<1>1. \A i \in 1 .. n : s[i] \in Bytes
    BY ElementOfSeq
<1>2. /\ Len(SubSeq(s, 1, n)) = n
      /\ \A i \in 1 .. n : SubSeq(s, 1, n)[i] = s[i]
    BY <1>1, SubSeqProperties
<1>3. LEN_AT \in 1 .. n
    BY TlvAssumption
<1> QED
    BY <1>2, <1>3

\* Starting over leaves nothing behind but the frame.
LEMMA DeliveredWire ==
    ASSUME NEW f \in Seq(Bytes), Delivered(f),
           f # <<>> => Len(f) = f[LEN_AT] /\ Len(f) \in TLV_HDR_LEN .. TLV_MAX_FRAME
    PROVE  WireInv'
<1>1. PushInv'
    BY DeliveredInv
<1>2. buf' = <<>> /\ match' = 0 /\ seen' = <<>> /\ frame' = f
    BY DEF Delivered, tlv_reset
<1>3. len' = 0 /\ Len(seen') = 0
    BY <1>2 DEF len
<1> QED
    BY <1>1, <1>2, <1>3 DEF WireInv, HuntInv, AssembleInv, FrameInv, FrameLength

\* The inductive step, one case per way out of tlv_push.
LEMMA WireStep == WireInv /\ [TlvNext]_tlvVars => WireInv'
<1> SUFFICES ASSUME WireInv, [TlvNext]_tlvVars PROVE WireInv'
    OBVIOUS
<1>p. PushInv'
    BY PushStep DEF WireInv
<1>a. /\ buf \in Seq(Bytes) /\ len \in Nat /\ len = Len(buf)
      /\ want \in Nat
      /\ want = 0 => len < TLV_HDR_LEN
      /\ want > 0 => len < want
      /\ TLV_HDR_LEN \in Nat /\ LEN_AT \in Nat \ {0} /\ LEN_AT <= TLV_HDR_LEN
      /\ TLV_MAX_FRAME \in Nat
    BY TlvAssumption DEF WireInv, PushInv, TlvTypeOK, len
<1>f. ASSUME NEW b \in Bytes, Pushed(b) PROVE FrameInv'
    BY <1>f DEF Pushed, FrameInv, FrameLength
<1>1. ASSUME NEW b \in Bytes, Hunt(b) PROVE WireInv'
    <2>1. HuntInv'
        BY <1>1, HuntStep
    <2>2. AssembleInv'
        BY <1>1, <1>a DEF Hunt, AssembleInv, len
    <2> QED
        BY <1>1, <1>p, <1>f, <2>1, <2>2 DEF WireInv, Hunt
<1>2. ASSUME NEW b \in Bytes, Magic(b) PROVE WireInv'
    <2>1. AssembleInv'
        BY <1>2, MagicStep
    <2>2. HuntInv'
        BY <1>2, TlvAssumption DEF Magic, HuntInv, len
    <2> QED
        BY <1>2, <1>p, <1>f, <2>1, <2>2 DEF WireInv, Magic
<1>s. ASSUME NEW b \in Bytes, len > 0, Stored(b) PROVE HuntInv'
    <2>1. len' = len + 1
        BY <1>a, <1>s, Appended DEF Stored, len
    <2> QED
        BY <1>a, <2>1 DEF HuntInv
<1>3. ASSUME NEW b \in Bytes, HeaderByte(b) PROVE WireInv'
    <2>1. AssembleInv'
        BY <1>3, <1>a, StoredStep DEF HeaderByte
    <2> QED
        BY <1>3, <1>p, <1>f, <1>s, <2>1 DEF WireInv, HeaderByte
<1>4. ASSUME NEW b \in Bytes, LastHeaderByte(b) PROVE WireInv'
    <2> DEFINE h == Append(buf, b)
               n == h[LEN_AT]
    <2>1. h \in Seq(Bytes) /\ Len(h) = len + 1
        BY <1>a, Appended
    <2>2. len > 0 /\ len + 1 = TLV_HDR_LEN
        BY <1>4, <1>a DEF LastHeaderByte
    <2>a. \/ ~Plausible(n) /\ Delivered(<<>>)
          \/ Plausible(n) /\ len + 1 >= n /\ Delivered(SubSeq(h, 1, n))
          \/ /\ Plausible(n) /\ len + 1 < n
             /\ want' = n /\ Stored(b) /\ buf' = h /\ Pushed(b)
        BY <1>4, Zenon DEF LastHeaderByte, Stored
    <2>3. n \in Nat
        <3>1. LEN_AT \in 1 .. Len(h)
            BY <1>a, <2>1, <2>2
        <3> HIDE DEF h
        <3>2. n \in Bytes
            BY <2>1, <3>1, ElementOfSeq
        <3> QED
            BY <3>2, TlvAssumption
    <2>n. n = h[LEN_AT]
        OBVIOUS
    <2> HIDE DEF n, h
    <2>4. CASE ~Plausible(n)
        BY <2>a, <2>4, DeliveredWire, Nothing
    <2>5. CASE Plausible(n) /\ len + 1 >= n
        <3>1. Delivered(SubSeq(h, 1, n))
            BY <1>a, <2>a, <2>3, <2>5
        <3>2. n \in 1 .. Len(h) /\ n \in 0 .. Len(h) /\ LEN_AT <= n
            BY <1>a, <2>1, <2>2, <2>3, <2>5 DEF Plausible
        <3>3. /\ Len(SubSeq(h, 1, n)) = SubSeq(h, 1, n)[LEN_AT]
              /\ Len(SubSeq(h, 1, n)) \in TLV_HDR_LEN .. TLV_MAX_FRAME
            BY <1>a, <2>1, <2>3, <2>5, <2>n, <3>2, CutLength DEF Plausible
        <3>4. SubSeq(h, 1, n) \in Seq(Bytes)
            BY <2>1, <3>2, Cut
        <3> QED
            BY <3>1, <3>3, <3>4, DeliveredWire
    <2>6. CASE Plausible(n) /\ ~(len + 1 >= n)
        <3>1. want' = n /\ Stored(b) /\ buf' = h /\ Pushed(b)
            BY <2>a, <2>6
        <3>2. len' = len + 1
            BY <2>1, <3>1 DEF len
        <3>3. len' >= TLV_HDR_LEN /\ buf'[LEN_AT] = want'
            BY <1>a, <2>2, <2>n, <3>1, <3>2
        <3>4. AssembleInv'
            BY <2>2, <3>1, <3>3, StoredStep
        <3> QED
            BY <1>p, <1>f, <1>s, <2>2, <3>1, <3>4 DEF WireInv
    <2> QED
        BY <2>4, <2>5, <2>6
<1>5. ASSUME NEW b \in Bytes, Body(b) PROVE WireInv'
    <2>1. Append(buf, b) \in Seq(Bytes) /\ Len(Append(buf, b)) = len + 1
        BY <1>a, Appended
    <2>2. len > 0 /\ want > 0 /\ len >= TLV_HDR_LEN /\ buf[LEN_AT] = want
        BY <1>5 DEF Body, WireInv, AssembleInv
    <2>3. Append(buf, b)[LEN_AT] = want
        BY <1>a, <2>2, AppendProperties
    <2>4. CASE len + 1 < want
        <3>1. Stored(b) /\ Pushed(b) /\ want' = want /\ buf' = Append(buf, b)
            BY <1>5, <1>a, <2>4 DEF Body, Stored
        <3>2. len' = len + 1
            BY <2>1, <3>1 DEF len
        <3>3. len' >= TLV_HDR_LEN /\ buf'[LEN_AT] = want'
            BY <1>a, <2>2, <2>3, <3>1, <3>2
        <3>4. AssembleInv'
            BY <2>2, <3>1, <3>3, StoredStep
        <3> QED
            BY <1>p, <1>f, <1>s, <2>2, <3>1, <3>4 DEF WireInv
    <2>5. CASE ~(len + 1 < want)
        <3>1. Delivered(SubSeq(Append(buf, b), 1, want))
            BY <1>5, <2>5, Zenon DEF Body
        <3>2. want \in 1 .. Len(Append(buf, b)) /\ want \in 0 .. Len(Append(buf, b))
              /\ LEN_AT <= want
            BY <1>a, <2>1, <2>2, <2>5
        <3>3. /\ Len(SubSeq(Append(buf, b), 1, want)) = SubSeq(Append(buf, b), 1, want)[LEN_AT]
              /\ Len(SubSeq(Append(buf, b), 1, want)) = want
            BY <2>1, <2>3, <3>2, CutLength
        <3>5. want \in TLV_HDR_LEN .. TLV_MAX_FRAME
            BY <1>a, <2>2 DEF WireInv, PushInv, TlvTypeOK
        <3>4. SubSeq(Append(buf, b), 1, want) \in Seq(Bytes)
            BY <2>1, <3>2, Cut
        <3> QED
            BY <3>1, <3>3, <3>4, <3>5, DeliveredWire
    <2> QED
        BY <2>4, <2>5
<1>6. CASE Restart
    BY <1>6, DeliveredWire, Nothing DEF Restart
<1>7. CASE UNCHANGED tlvVars
    BY <1>7, <1>p DEF tlvVars, reasm, WireInv, HuntInv, AssembleInv, FrameInv, FrameLength, len
<1> QED
    BY <1>1, <1>2, <1>3, <1>4, <1>5, <1>6, <1>7 DEF TlvNext, tlv_push

LEMMA WireInit == TlvInit => WireInv
<1> SUFFICES ASSUME TlvInit PROVE WireInv
    OBVIOUS
<1>1. PushInv
    BY TlvAssumption DEF TlvInit, PushInv, TlvTypeOK, len, TLV_MAGIC_LEN
<1>2. len = 0 /\ match = 0 /\ Len(seen) = 0 /\ frame = <<>>
    BY DEF TlvInit, len
<1> QED
    BY <1>1, <1>2 DEF WireInv, HuntInv, AssembleInv, FrameInv, FrameLength

LEMMA WireAlways == TlvSpec => []WireInv
<1> QED
    BY WireInit, WireStep, PTL DEF TlvSpec

\* on_frame is only ever given a frame that is as long as its header says.
THEOREM FrameLengthAlways == TlvSpec => []FrameLength
<1>1. WireInv => FrameLength
    BY DEF WireInv, FrameInv
<1> QED
    BY <1>1, WireAlways, PTL

\* Two runs of bytes are equal when they agree byte by byte.
LEMMA SuffixByByte ==
    ASSUME NEW s \in Seq(Bytes), NEW t \in Seq(Bytes),
           NEW k \in 1 .. Len(s), k <= Len(t)
    PROVE  Suffix(s, k) = SubSeq(t, 1, k)
              <=> \A i \in 1 .. k : s[Len(s) - k + i] = t[i]
<1>1. \A i \in Len(s) - k + 1 .. Len(s) : s[i] \in Bytes
    BY ElementOfSeq
<1>2. /\ Suffix(s, k) \in Seq(Bytes) /\ Len(Suffix(s, k)) = k
      /\ \A i \in 1 .. k : Suffix(s, k)[i] = s[Len(s) - k + i]
    <2>1. Len(s) - k + 1 \in Int /\ Len(s) \in Int
        OBVIOUS
    <2>2. /\ Suffix(s, k) \in Seq(Bytes)
          /\ Len(Suffix(s, k)) = IF Len(s) - k + 1 <= Len(s)
                                 THEN Len(s) - (Len(s) - k + 1) + 1 ELSE 0
          /\ \A i \in 1 .. Len(s) - (Len(s) - k + 1) + 1 :
                Suffix(s, k)[i] = s[Len(s) - k + 1 + i - 1]
        BY <1>1, <2>1, SubSeqProperties DEF Suffix
    <2> QED
        BY <2>2
<1>3. \A i \in 1 .. k : t[i] \in Bytes
    BY ElementOfSeq
<1>4. /\ SubSeq(t, 1, k) \in Seq(Bytes) /\ Len(SubSeq(t, 1, k)) = k
      /\ \A i \in 1 .. k : SubSeq(t, 1, k)[i] = t[i]
    BY <1>3, SubSeqProperties
<1>5. (\A i \in 1 .. k : s[Len(s) - k + i] = t[i]) => Suffix(s, k) = SubSeq(t, 1, k)
    BY <1>2, <1>4, SeqEqual
<1>6. Suffix(s, k) = SubSeq(t, 1, k) => \A i \in 1 .. k : s[Len(s) - k + i] = t[i]
    BY <1>2, <1>4
<1> QED
    BY <1>5, <1>6

\* No start of a magic word is missed, whatever noise comes before it, for
\* every magic word that never repeats a symbol.
THEOREM HuntMissesNothingAlways == TlvSpec => []HuntMissesNothing
<1>1. WireInv => HuntMissesNothing
    <2> SUFFICES ASSUME WireInv, len = 0, NEW k \in 1 .. Len(seen),
                        k < TLV_MAGIC_LEN,
                        Suffix(seen, k) = SubSeq(tlv_magic, 1, k)
                 PROVE  match >= k
        BY DEF HuntMissesNothing
    <2>1. seen \in Seq(Bytes) /\ tlv_magic \in Seq(Bytes) /\ k <= Len(tlv_magic)
        BY TlvAssumption DEF WireInv, PushInv, TlvTypeOK, TLV_MAGIC_LEN
    <2>2. \A i \in 1 .. k : seen[Len(seen) - k + i] = tlv_magic[i]
        BY <2>1, SuffixByByte
    <2> QED
        BY <2>2 DEF WireInv, HuntInv
<1> QED
    BY <1>1, WireAlways, PTL

\* What is being assembled is an unbroken run of bytes from the wire and
\* begins with the magic word.
THEOREM ContiguousAlways == TlvSpec => []Contiguous
<1>1. WireInv => Contiguous
    <2> SUFFICES ASSUME WireInv, len > 0
                 PROVE  /\ TLV_MAGIC_LEN <= len /\ len <= Len(seen)
                        /\ buf = Suffix(seen, len)
                        /\ SubSeq(buf, 1, TLV_MAGIC_LEN) = tlv_magic
        BY DEF Contiguous
    <2>1. /\ seen \in Seq(Bytes) /\ buf \in Seq(Bytes) /\ len = Len(buf)
          /\ tlv_magic \in Seq(Bytes) /\ TLV_MAGIC_LEN = Len(tlv_magic)
          /\ TLV_MAGIC_LEN \in Nat \ {0}
          /\ TLV_MAGIC_LEN <= len /\ len <= Len(seen)
        BY TlvAssumption DEF WireInv, PushInv, TlvTypeOK, AssembleInv, len, TLV_MAGIC_LEN
    <2>2. buf = Suffix(seen, len)
        <3>1. \A i \in 1 .. len : seen[Len(seen) - len + i] = buf[i]
            BY DEF WireInv, AssembleInv
        <3>2. len \in 1 .. Len(seen) /\ len <= Len(buf)
            BY <2>1
        <3>3. Suffix(seen, len) = SubSeq(buf, 1, len)
            BY <2>1, <3>1, <3>2, SuffixByByte
        <3> QED
            BY <2>1, <3>3, SubSeqFull
    <2>3. SubSeq(buf, 1, TLV_MAGIC_LEN) = tlv_magic
        <3>1. \A i \in 1 .. TLV_MAGIC_LEN : tlv_magic[i] = buf[i]
            BY DEF WireInv, AssembleInv
        <3>2. Suffix(tlv_magic, TLV_MAGIC_LEN) = SubSeq(buf, 1, TLV_MAGIC_LEN)
            <4>1. \A i \in 1 .. TLV_MAGIC_LEN :
                     tlv_magic[Len(tlv_magic) - TLV_MAGIC_LEN + i] = buf[i]
                BY <2>1, <3>1
            <4> QED
                BY <2>1, <4>1, SuffixByByte
        <3>3. Suffix(tlv_magic, TLV_MAGIC_LEN) = SubSeq(tlv_magic, 1, Len(tlv_magic))
            <4>1. Len(tlv_magic) - TLV_MAGIC_LEN + 1 = 1
                BY <2>1
            <4> QED
                BY <4>1 DEF Suffix
        <3> QED
            BY <2>1, <3>2, <3>3, SubSeqFull
    <2> QED
        BY <2>1, <2>2, <2>3
<1> QED
    BY <1>1, WireAlways, PTL
=============================================================================
