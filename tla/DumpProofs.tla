----------------------------- MODULE DumpProofs -----------------------------
(***************************************************************************)
(* Dumps over BLE against the record store, for every ring capacity, MTU,  *)
(* number of records, commands and sessions, and every fault of the store, *)
(* except where a theorem says otherwise.                                  *)
(***************************************************************************)
EXTENDS BleDump, StoreLogProofs, SequenceTheorems

\* The bound on records holds of the counter in RAM and of the one in flash.
SeqBound ==
    /\ next_seq <= MaxSeq
    /\ nvs_meta # None => nvs_meta.next_seq <= MaxSeq
    /\ pc \in {"append_rec", "append_bump"} => next_seq < MaxSeq

\* What is on air or in the buffer.
Plain == [t : {"header"}, n : Nat]
             \union [t : {"rec"}, seq : Nat, out : Record \union {None}]
Item  == Plain \union [t : {"crc"}, of : Seq(Plain)]

Locals == [conn : BOOLEAN, first : Nat, asked : Nat, oldest : Nat \union {None},
           next : (0 .. MaxSeq) \union {None}, start : Nat, count : 0 .. COUNT_MAX,
           chunk : 0 .. BUF_SIZE, seq : Nat, fill : 0 .. BUF_SIZE,
           buf : Seq(Item), crc : Seq(Plain), then : {None, "encode", "crc", "end"}]

Framing == {"loop", "get", "encode", "crc", "notify", "sleep"}
Sending == {"notify", "sleep"}

SessionOK ==
    /\ link \in [up : BOOLEAN, mtu : MTUs \union {0}, session : Nat]
    /\ current_conn \in BOOLEAN /\ notify_enabled \in BOOLEAN
    /\ dump_req \in 0 .. 1
    /\ dump_first_seq \in Nat

\* The dump thread within dump_run: where in the range of records it is, and
\* that the buffer is only overfull with a single record that no chunk of
\* this size could hold.
RunOK ==
    /\ d \in Locals
    /\ dpc \in {"wait", "taken", "subscribed", "args", "first", "range"} \union Framing
    /\ dpc = "first" => d.oldest = None /\ d.next = None
    /\ dpc \notin Framing => d.buf = <<>>
    /\ dpc \in Framing =>
          /\ d.chunk >= 20
          /\ d.start <= d.seq /\ d.seq <= d.start + d.count
          /\ d.count > 0 => d.start + d.count <= MaxSeq
          /\ \/ d.fill <= d.chunk
             \/ d.fill = SNTL_RECORD_SIZE /\ d.chunk < SNTL_RECORD_SIZE
    /\ dpc \in Sending => d.then \in {"encode", "crc", "end"}
    /\ dpc \in {"get", "encode"} \/ (dpc \in Sending /\ d.then = "encode") =>
          d.seq < d.start + d.count
    /\ dpc = "crc" \/ (dpc \in Sending /\ d.then \in {"crc", "end"}) =>
          d.seq = d.start + d.count
    /\ dpc \in {"encode", "crc"} => d.fill = 0 /\ d.buf = <<>>

DumpInv == StoreTypeOK /\ SeqBound /\ SessionOK /\ RunOK
-----------------------------------------------------------------------------
(* Helpers of src/frame.c *)

LEMMA BytesAreNat ==
    ASSUME NEW x \in Nat
    PROVE  /\ Le4(x) \in Seq(Nat) /\ Len(Le4(x)) = 4
<1>1. /\ x % Byte \in Nat /\ (x \div Byte) % Byte \in Nat /\ x \div (Byte * Byte) \in Nat
    BY DEF Byte
<1> DEFINE y == x \div (Byte * Byte)
<1>2. y % Byte \in Nat /\ (y \div Byte) % Byte \in Nat
    <2> HIDE DEF y
    <2>1. y \in Nat
        BY <1>1 DEF y
    <2> QED
        BY <2>1 DEF Byte
<1> HIDE DEF y
<1>3. /\ Le2(x) \in Seq(Nat) /\ Len(Le2(x)) = 2 /\ Le2(y) \in Seq(Nat) /\ Len(Le2(y)) = 2
    BY <1>1, <1>2 DEF Le2
<1> DEFINE low == Le2(x)
           high == Le2(y)
<1>4. Le4(x) = low \o high
    BY DEF Le4, y
<1>5. low \in Seq(Nat) /\ Len(low) = 2 /\ high \in Seq(Nat) /\ Len(high) = 2
    BY <1>3
<1> HIDE DEF low, high
<1>6. low \o high \in Seq(Nat) /\ Len(low \o high) = Len(low) + Len(high)
    BY <1>5, ConcatProperties
<1> QED
    BY <1>4, <1>5, <1>6

\* A command means a natural number, or nothing.
LEMMA ParseIs ==
    ASSUME NEW c \in Commands, sntl_parse_cmd(c.buf) # <<>>
    PROVE  sntl_parse_cmd(c.buf)[1] \in Nat
<1>1. c.buf \in Seq(Nat)
    <2>1. CASE c \in {[first |-> q, buf |-> <<SNTL_CMD_DUMP>> \o Le4(q)] : q \in 0 .. MaxSeq}
        <3>1. PICK q \in 0 .. MaxSeq : c = [first |-> q, buf |-> <<SNTL_CMD_DUMP>> \o Le4(q)]
            BY <2>1
        <3>2. <<SNTL_CMD_DUMP>> \in Seq(Nat) /\ Le4(q) \in Seq(Nat)
            BY BytesAreNat DEF SNTL_CMD_DUMP
        <3>3. <<SNTL_CMD_DUMP>> \o Le4(q) \in Seq(Nat)
            BY <3>2, ConcatProperties
        <3> QED
            BY <3>1, <3>3
    <2>2. CASE c.buf \in {<<SNTL_CMD_DUMP, 0, 0, 0, 0, 0>>, <<SNTL_CMD_DUMP + 1, 0, 0, 0, 0>>}
        <3>1. <<1, 0, 0, 0, 0, 0>> \in Seq(Nat)
            OBVIOUS
        <3>2. <<1 + 1, 0, 0, 0, 0>> \in Seq(Nat)
            OBVIOUS
        <3> QED
            BY <2>2, <3>1, <3>2, Zenon DEF SNTL_CMD_DUMP
    <2> QED
        BY <2>1, <2>2 DEF Commands
<1>2. Len(c.buf) = 5 /\ sntl_parse_cmd(c.buf) = <<FromLe(Tail(c.buf))>>
    BY DEF sntl_parse_cmd, SNTL_CMD_LEN
<1> DEFINE b == Tail(c.buf)
<1>3. b \in Seq(Nat) /\ Len(b) = 4
    <2>1. c.buf # <<>>
        BY <1>1, <1>2
    <2> QED
        BY <1>1, <1>2, <2>1, HeadTailProperties
<1> HIDE DEF b
<1>4. b[1] \in Nat /\ b[2] \in Nat /\ b[3] \in Nat /\ b[4] \in Nat
    <2>1. 1 \in 1 .. Len(b) /\ 2 \in 1 .. Len(b) /\ 3 \in 1 .. Len(b) /\ 4 \in 1 .. Len(b)
        BY <1>3
    <2> QED
        BY <1>3, <2>1, ElementOfSeq
<1>5. FromLe(b) \in Nat
    <2>1. \A x, y \in Nat : x + Byte * y \in Nat
        BY DEF Byte
    <2> HIDE DEF Byte
    <2> QED
        BY <1>4, <2>1 DEF FromLe
<1> QED
    BY <1>2, <1>5 DEF b

\* A dump never announces a record at or beyond next_seq, nor more of them
\* than the header can say.
LEMMA RangeIs ==
    ASSUME NEW first \in Nat, NEW oldest \in Nat, NEW next \in Nat
    PROVE  LET r == sntl_dump_range(first, oldest, next)
           IN  /\ r.start \in Nat /\ r.count \in 0 .. COUNT_MAX
               /\ r.count > 0 => r.start + r.count <= next
    BY FrameAssumption DEF sntl_dump_range

LEMMA ChunkIs ==
    ASSUME NEW m \in MTUs \union {0}
    PROVE  ChunkFor(m) \in 20 .. BUF_SIZE
<1>1. m \in Nat /\ (m >= 23 \/ m = 0)
    BY DumpAssumption
<1> QED
    BY <1>1 DEF ChunkFor, BUF_SIZE
-----------------------------------------------------------------------------
(* The store below *)

LEMMA SeqBoundStep ==
    ASSUME StoreTypeOK, SeqBound, [StoreNext]_storeVars
    PROVE  SeqBound'
<1> USE StoreAssumption DEF StoreTypeOK, SeqBound, flash, ram, history
<1>1. CASE UNCHANGED <<next_seq, nvs_meta>> /\ (pc' \in {"append_rec", "append_bump"} => pc = "append_rec")
    BY <1>1
<1>2. CASE \E lost \in SUBSET (InitReads \intersect Faults) : Mount(lost)
    BY <1>2 DEF Mount, InitReturns, Meta
<1>3. CASE Clear
    BY <1>3 DEF Clear, InitFails
<1>4. CASE ClearFails \/ ClearCut
    BY <1>4 DEF ClearFails, ClearCut, PartlyErased, InitFails, RamLost
<1>5. CASE WriteMeta
    BY <1>5 DEF WriteMeta, InitReturns
<1>6. CASE AppendBump
    BY <1>6 DEF AppendBump
<1>7. CASE AppendWriteMeta
    BY <1>7 DEF AppendWriteMeta
<1>8. CASE PowerLoss
    BY <1>8 DEF PowerLoss, RamLost
<1>9. CASE \E v \in Readings : AppendBegin(v)
    BY <1>9 DEF AppendBegin
<1>10. CASE Tick \/ (\E q \in 0 .. MaxSeq : GetCheck(q)) \/ GetRead \/ GetReadFails
           \/ UNCHANGED storeVars
    BY <1>10 DEF Tick, GetCheck, GetRead, GetReadFails, storeVars
<1>11. CASE \/ \E f \in Formats : PowerOn(f)
            \/ MountFails \/ WriteFormat \/ WriteFloor \/ MigrationWriteFails
            \/ AppendWriteRec \/ AppendRecFails \/ AppendMetaFails
    BY <1>1, <1>11 DEF PowerOn, MountFails, InitFails, WriteFormat, WriteFloor,
        MigrationWriteFails, AppendWriteRec, AppendRecFails, AppendMetaFails
<1> QED
    BY <1>2, <1>3, <1>4, <1>5, <1>6, <1>7, <1>8, <1>9, <1>10, <1>11 DEF StoreNext, MainNext

\* Whatever the dump does, the store sees only its own operations: records
\* are asked for within the bound, one at a time.
LEMMA StoreSees ==
    ASSUME DumpInv, [DumpNext]_dumpVars
    PROVE  [StoreNext]_storeVars
<1>1. CASE Cut
    BY <1>1 DEF Cut, StoreNext
<1>2. CASE Boot
    BY <1>2 DEF Boot, StoreNext
<1>3. CASE Main
    BY <1>3 DEF Main, StoreNext
<1>4. CASE Callbacks
    BY <1>4 DEF Callbacks, connected, disconnected, ccc_changed, ctrl_write
<1>5. CASE CallGet
    <2>1. d.seq < d.start + d.count /\ GetCheck(d.seq) /\ dpc = "loop"
        BY <1>5 DEF CallGet
    <2>2. d.seq \in 0 .. MaxSeq
        <3>1. /\ d.seq \in Nat /\ d.start \in Nat /\ d.count \in Nat
              /\ d.count > 0 => d.start + d.count <= MaxSeq
              /\ d.start <= d.seq
            BY <2>1, FrameAssumption DEF DumpInv, RunOK, Locals, Framing
        <3> QED
            BY <2>1, <3>1, StoreAssumption
    <2> QED
        BY <2>1, <2>2 DEF StoreNext
<1>6. CASE ReturnGet
    BY <1>6 DEF ReturnGet, StoreNext
<1>7. CASE \/ Take \/ TakeUp \/ ReadOldest \/ ReadNext \/ Begin \/ PutRecord \/ PutCrc
           \/ NotifySent \/ NotifyNoMem \/ NotifyError \/ Retry
    BY <1>7 DEF Take, TakeUp, Check, CheckSubscribed, ReadConn, ReadFirst,
        ReadOldest, ReadNext, Begin, PutRecord, PutCrc,
        NotifySent, NotifyNoMem, NotifyError, Retry
<1>8. CASE UNCHANGED dumpVars
    BY <1>8 DEF dumpVars
<1> QED
    BY <1>1, <1>2, <1>3, <1>4, <1>5, <1>6, <1>7, <1>8 DEF DumpNext, DumpThread
-----------------------------------------------------------------------------
(* The dump thread *)

LEMMA NoDumpIs == NoDump \in Locals /\ NoDump.buf = <<>>
<1>1. <<>> \in Seq(Item) /\ <<>> \in Seq(Plain)
    OBVIOUS
<1>2. 0 \in 0 .. COUNT_MAX /\ 0 \in 0 .. BUF_SIZE
    BY FrameAssumption DEF BUF_SIZE
<1> QED
    BY <1>1, <1>2 DEF NoDump, Locals

LEMMA LocalTypes ==
    ASSUME NEW s \in Locals
    PROVE  /\ s.start \in Nat /\ s.seq \in Nat /\ s.count \in Nat /\ s.fill \in Nat /\ s.chunk \in Nat
           /\ s.count <= COUNT_MAX /\ s.chunk <= BUF_SIZE /\ s.fill <= BUF_SIZE
<1>1. /\ s.start \in Nat /\ s.seq \in Nat /\ s.count \in 0 .. COUNT_MAX
      /\ s.fill \in 0 .. BUF_SIZE /\ s.chunk \in 0 .. BUF_SIZE
    BY DEF Locals
<1> QED
    BY <1>1, FrameAssumption DEF BUF_SIZE

LEMMA IdleOK ==
    ASSUME dpc' = "wait", d' = NoDump
    PROVE  RunOK'
    BY NoDumpIs DEF RunOK, Framing, Sending

\* Nothing but a step of the dump thread changes what RunOK speaks of.
LEMMA RunKept ==
    ASSUME RunOK, UNCHANGED <<dpc, d>>
    PROVE  RunOK'
    BY DEF RunOK

LEMMA ItemTypes ==
    /\ \A n \in Nat : Header(n) \in Plain /\ Size(Header(n)) = SNTL_HEADER_SIZE
    /\ \A q \in Nat, o \in Record \union {None} :
          Rec(q, o) \in Plain /\ Size(Rec(q, o)) = SNTL_RECORD_SIZE
    /\ \A c \in Seq(Plain) : Crc(c) \in Item
    /\ Plain \subseteq Item
    BY DEF Header, Rec, Crc, Size, Plain, Item

\* One item more in the buffer.
LEMMA FilledIs ==
    ASSUME NEW s \in Locals, NEW item \in Plain, NEW size \in Nat, Size(item) = size,
           s.fill + size <= BUF_SIZE
    PROVE  /\ Filled(s, item) \in Locals
           /\ Filled(s, item) = [s EXCEPT !.buf = Append(s.buf, item), !.fill = s.fill + size,
                                          !.crc = Append(s.crc, item)]
<1>1. s.buf \in Seq(Item) /\ s.crc \in Seq(Plain) /\ item \in Item
    BY DEF Locals, Item
<1>2. Append(s.buf, item) \in Seq(Item) /\ Append(s.crc, item) \in Seq(Plain)
    BY <1>1, AppendProperties
<1>3. s.fill + size \in 0 .. BUF_SIZE
    BY DEF Locals
<1>4. Filled(s, item) = [s EXCEPT !.buf = Append(s.buf, item), !.fill = s.fill + size,
                                  !.crc = Append(s.crc, item)]
    BY DEF Filled, Locals
<1> DEFINE b == Append(s.buf, item)
           c == Append(s.crc, item)
           f == s.fill + size
<1> HIDE DEF b, c, f
<1>5. [s EXCEPT !.buf = b, !.fill = f, !.crc = c] \in Locals
    BY <1>2, <1>3 DEF Locals, b, c, f
<1> QED
    BY <1>4, <1>5 DEF b, c, f

LEMMA RunBegins ==
    ASSUME DumpInv, Begin
    PROVE  RunOK'
<1> DEFINE range == sntl_dump_range(d.first, d.oldest, d.next)
           chunk == ChunkFor(bt_gatt_get_mtu(d.conn))
           s == [NoDump EXCEPT !.first = d.first, !.asked = d.asked,
                               !.start = range.start, !.count = range.count,
                               !.seq = range.start, !.chunk = chunk]
<1>1. /\ dpc = "range" /\ dpc' = "loop" /\ d.oldest # None /\ d.next # None
      /\ d' = Filled(s, Header(range.count))
    BY DEF Begin
<1>2. d.first \in Nat /\ d.asked \in Nat /\ d.oldest \in Nat /\ d.next \in Nat /\ d.next <= MaxSeq
    BY <1>1, StoreAssumption DEF DumpInv, RunOK, Locals
<1>3. /\ range.start \in Nat /\ range.count \in 0 .. COUNT_MAX
      /\ range.count > 0 => range.start + range.count <= d.next
    BY <1>2, RangeIs
<1>4. chunk \in 20 .. BUF_SIZE
    BY ChunkIs DEF DumpInv, SessionOK, bt_gatt_get_mtu
<1> HIDE DEF range, chunk
<1>5. /\ s \in Locals /\ s.fill = 0 /\ s.chunk = chunk /\ s.start = range.start /\ s.seq = range.start
      /\ s.count = range.count
    <2>1. chunk \in 0 .. BUF_SIZE
        BY <1>4
    <2> QED
        BY <1>2, <1>3, <2>1, NoDumpIs DEF Locals, NoDump
<1> HIDE DEF s
<1> DEFINE h == Header(range.count)
<1>6. h \in Plain /\ Size(h) = SNTL_HEADER_SIZE
    BY <1>3, FrameAssumption, ItemTypes
<1> HIDE DEF h
<1>7. /\ Filled(s, h) \in Locals
      /\ Filled(s, h) = [s EXCEPT !.buf = Append(s.buf, h), !.fill = s.fill + 16,
                                  !.crc = Append(s.crc, h)]
    <2>1. s.fill + 16 <= BUF_SIZE /\ Size(h) = 16 /\ 16 \in Nat
        BY <1>5, <1>6 DEF BUF_SIZE, SNTL_HEADER_SIZE
    <2> QED
        BY <1>5, <1>6, <2>1, FilledIs
<1>8. /\ d' \in Locals /\ d'.fill = 16 /\ d'.chunk = chunk /\ d'.start = range.start
      /\ d'.seq = range.start /\ d'.count = range.count
    BY <1>1, <1>5, <1>7 DEF Locals, h
<1> QED
    BY <1>1, <1>2, <1>3, <1>4, <1>8, StoreAssumption, FrameAssumption
       DEF RunOK, Framing, Sending, SNTL_RECORD_SIZE

\* The body of the loop after store_get.
LEMMA RunPuts ==
    ASSUME DumpInv, PutRecord
    PROVE  RunOK'
<1>1. d \in Locals /\ dpc \in {"get", "encode"} /\ dpc \in Framing
    BY DEF DumpInv, RunOK, PutRecord, Framing
<1>2. /\ d.start \in Nat /\ d.seq \in Nat /\ d.count \in Nat /\ d.fill \in Nat /\ d.chunk \in Nat
      /\ d.chunk <= BUF_SIZE
    BY <1>1, LocalTypes
<1>3. /\ d.chunk >= 20 /\ d.start <= d.seq /\ d.seq < d.start + d.count
      /\ d.count > 0 => d.start + d.count <= MaxSeq
      /\ \/ d.fill <= d.chunk
         \/ d.fill = SNTL_RECORD_SIZE /\ d.chunk < SNTL_RECORD_SIZE
      /\ dpc = "encode" => d.fill = 0
    BY <1>1 DEF DumpInv, RunOK
<1>4. CASE dpc = "get" /\ d.fill + SNTL_RECORD_SIZE > d.chunk
    <2>1. dpc' = "notify" /\ d' = [d EXCEPT !.then = "encode"]
        BY <1>4 DEF PutRecord, Flush
    <2>2. /\ d' \in Locals /\ d'.then = "encode" /\ d'.fill = d.fill /\ d'.chunk = d.chunk
          /\ d'.start = d.start /\ d'.seq = d.seq /\ d'.count = d.count
        BY <1>1, <2>1 DEF Locals
    <2> QED
        BY <1>2, <1>3, <2>1, <2>2 DEF RunOK, Framing, Sending
<1>5. CASE ~(dpc = "get" /\ d.fill + SNTL_RECORD_SIZE > d.chunk)
    <2> DEFINE item == Rec(d.seq, get.out)
               next == d.seq + 1
    <2>1. dpc' = "loop" /\ d' = [Filled(d, item) EXCEPT !.seq = d.seq + 1]
        <3>1. dpc' = "loop" /\ d' = [Filled(d, item) EXCEPT !.seq = @ + 1]
            BY <1>5 DEF PutRecord
        <3>2. Filled(d, item).seq = d.seq
            BY <1>1 DEF Filled, Locals
        <3> QED
            BY <3>1, <3>2
    <2>2. item \in Plain /\ Size(item) = 24
        BY <1>2, ItemTypes DEF DumpInv, StoreTypeOK, SNTL_RECORD_SIZE
    <2> HIDE DEF item
    <2>3. d.fill + 24 <= BUF_SIZE /\ (d.fill + 24 <= d.chunk \/ d.fill = 0)
        BY <1>1, <1>2, <1>3, <1>5 DEF BUF_SIZE, SNTL_RECORD_SIZE
    <2>4. /\ Filled(d, item) \in Locals
          /\ Filled(d, item) = [d EXCEPT !.buf = Append(d.buf, item), !.fill = d.fill + 24,
                                         !.crc = Append(d.crc, item)]
        <3>1. 24 \in Nat
            OBVIOUS
        <3> QED
            BY <1>1, <2>2, <2>3, <3>1, FilledIs
    <2>5. /\ d' \in Locals /\ d'.fill = d.fill + 24 /\ d'.chunk = d.chunk
          /\ d'.start = d.start /\ d'.seq = d.seq + 1 /\ d'.count = d.count
        <3>1. d.seq + 1 \in Nat
            BY <1>2
        <3> HIDE DEF next
        <3> QED
            BY <1>1, <2>1, <2>4, <3>1 DEF Locals
    <2>6. \/ d'.fill <= d'.chunk
          \/ d'.fill = SNTL_RECORD_SIZE /\ d'.chunk < SNTL_RECORD_SIZE
        BY <1>2, <2>3, <2>5 DEF SNTL_RECORD_SIZE
    <2> QED
        BY <1>2, <1>3, <2>1, <2>5, <2>6 DEF RunOK, Framing, Sending
<1> QED
    BY <1>4, <1>5

\* After the loop.
LEMMA RunCloses ==
    ASSUME DumpInv, PutCrc
    PROVE  RunOK'
<1>1. d \in Locals /\ dpc \in {"loop", "crc"} /\ dpc \in Framing
    BY DEF DumpInv, RunOK, PutCrc, Framing
<1>2. /\ d.start \in Nat /\ d.seq \in Nat /\ d.count \in Nat /\ d.fill \in Nat /\ d.chunk \in Nat
      /\ d.chunk <= BUF_SIZE
    BY <1>1, LocalTypes
<1>3. /\ d.chunk >= 20 /\ d.seq = d.start + d.count
      /\ d.count > 0 => d.start + d.count <= MaxSeq
      /\ \/ d.fill <= d.chunk
         \/ d.fill = SNTL_RECORD_SIZE /\ d.chunk < SNTL_RECORD_SIZE
      /\ dpc = "crc" => d.fill = 0
    BY <1>1 DEF DumpInv, RunOK, PutCrc
<1>4. CASE dpc = "loop" /\ d.fill + SNTL_CRC_SIZE > d.chunk
    <2>1. dpc' = "notify" /\ d' = [d EXCEPT !.then = "crc"]
        BY <1>4 DEF PutCrc, Flush
    <2>2. /\ d' \in Locals /\ d'.then = "crc" /\ d'.fill = d.fill /\ d'.chunk = d.chunk
          /\ d'.start = d.start /\ d'.seq = d.seq /\ d'.count = d.count
        BY <1>1, <2>1 DEF Locals
    <2> QED
        BY <1>2, <1>3, <2>1, <2>2 DEF RunOK, Framing, Sending
<1>5. CASE ~(dpc = "loop" /\ d.fill + SNTL_CRC_SIZE > d.chunk)
    <2> DEFINE b == Append(d.buf, Crc(d.crc))
               f == d.fill + SNTL_CRC_SIZE
    <2>1. dpc' = "notify" /\ d' = [d EXCEPT !.buf = b, !.fill = f, !.then = "end"]
        BY <1>1, <1>5 DEF PutCrc, Locals
    <2>2. b \in Seq(Item)
        <3>1. d.buf \in Seq(Item) /\ Crc(d.crc) \in Item
            BY <1>1, ItemTypes DEF Locals
        <3> QED
            BY <3>1, AppendProperties
    <2>3. f \in Nat /\ f <= d.chunk /\ f \in 0 .. BUF_SIZE
        <3>1. f \in Nat /\ f <= d.chunk
            BY <1>1, <1>2, <1>3, <1>5 DEF SNTL_CRC_SIZE
        <3> QED
            BY <1>2, <3>1 DEF BUF_SIZE
    <2> HIDE DEF b, f
    <2>4. /\ d' \in Locals /\ d'.then = "end" /\ d'.fill = f /\ d'.chunk = d.chunk
          /\ d'.start = d.start /\ d'.seq = d.seq /\ d'.count = d.count
        BY <1>1, <2>1, <2>2, <2>3 DEF Locals
    <2> QED
        BY <1>2, <1>3, <2>1, <2>3, <2>4 DEF RunOK, Framing, Sending
<1> QED
    BY <1>4, <1>5

LEMMA RunSends ==
    ASSUME DumpInv, NotifySent
    PROVE  RunOK'
<1>1. CASE d.then = "end"
    BY <1>1, IdleOK DEF NotifySent, Idle
<1>2. CASE d.then # "end"
    <2>1. d \in Locals /\ dpc = "notify" /\ dpc \in Framing /\ dpc \in Sending
        BY DEF DumpInv, RunOK, NotifySent, Framing, Sending
    <2>2. d.then \in {"encode", "crc"} /\ dpc' = d.then
          /\ d' = [d EXCEPT !.buf = <<>>, !.fill = 0, !.then = None]
        BY <1>2, <2>1 DEF NotifySent, DumpInv, RunOK
    <2>3. /\ d' \in Locals /\ d'.fill = 0 /\ d'.chunk = d.chunk /\ d'.buf = <<>>
          /\ d'.start = d.start /\ d'.seq = d.seq /\ d'.count = d.count
        <3>1. <<>> \in Seq(Item) /\ 0 \in 0 .. BUF_SIZE
            BY DEF BUF_SIZE
        <3> QED
            BY <2>1, <2>2, <3>1 DEF Locals
    <2>4. /\ d.start \in Nat /\ d.seq \in Nat /\ d.count \in Nat /\ d.chunk \in Nat
        BY <2>1, LocalTypes
    <2>5. /\ d.chunk >= 20 /\ d.start <= d.seq /\ d.seq <= d.start + d.count
          /\ d.count > 0 => d.start + d.count <= MaxSeq
          /\ d.then = "encode" => d.seq < d.start + d.count
          /\ d.then = "crc" => d.seq = d.start + d.count
        BY <2>1 DEF DumpInv, RunOK
    <2> QED
        BY <2>2, <2>3, <2>4, <2>5 DEF RunOK, Framing, Sending
<1> QED
    BY <1>1, <1>2

LEMMA RunStep ==
    ASSUME DumpInv, [DumpNext]_dumpVars
    PROVE  RunOK'
<1>0. RunOK
    BY DEF DumpInv
<1>1. CASE Boot \/ Main \/ Callbacks \/ ReturnGet \/ UNCHANGED dumpVars
    BY <1>0, <1>1, RunKept DEF Boot, Main, Callbacks, connected, disconnected, ccc_changed,
        ctrl_write, ReturnGet, bleVars, dumpVars, dump
<1>2. CASE Cut \/ NotifyError
    BY <1>2, IdleOK DEF Cut, NotifyError, Idle
<1>3. CASE Take
    BY <1>0, <1>3 DEF Take, RunOK, Framing, Sending
<1>4. CASE TakeUp
    <2>1. CASE Check \/ CheckSubscribed
        BY <1>0, <2>1 DEF Check, CheckSubscribed, RunOK, Framing, Sending
    <2>2. CASE ReadConn
        <3>1. PICK c \in {TRUE, current_conn} : d' = [NoDump EXCEPT !.conn = c]
            BY <2>2 DEF ReadConn
        <3>2. c \in BOOLEAN
            BY DEF DumpInv, SessionOK
        <3>3. d' \in Locals /\ d'.buf = <<>> /\ d'.oldest = None /\ d'.next = None
            BY <3>1, <3>2, NoDumpIs DEF Locals, NoDump
        <3> QED
            BY <2>2, <3>3 DEF ReadConn, RunOK, Framing, Sending
    <2>3. CASE ReadFirst
        <3>1. dump_first_seq \in Nat /\ next_seq \in Nat
            BY DEF DumpInv, SessionOK, StoreTypeOK
        <3>2. d' \in Locals /\ d'.buf = d.buf
            BY <1>0, <2>3, <3>1 DEF ReadFirst, RunOK, Locals
        <3> QED
            BY <1>0, <2>3, <3>2 DEF ReadFirst, RunOK, Framing, Sending
    <2> QED
        BY <1>4, <2>1, <2>2, <2>3 DEF TakeUp
<1>5. CASE ReadOldest
    <2>1. store_oldest_seq \in Nat
        BY StoreAssumption DEF store_oldest_seq, DumpInv, StoreTypeOK
    <2>2. dpc = "range" /\ dpc' = dpc /\ d' = [d EXCEPT !.oldest = store_oldest_seq]
        BY <1>5 DEF ReadOldest
    <2> HIDE DEF store_oldest_seq
    <2>3. d' \in Locals /\ d'.buf = d.buf
        BY <1>0, <2>1, <2>2 DEF RunOK, Locals
    <2> QED
        BY <1>0, <2>2, <2>3 DEF RunOK, Framing, Sending
<1>6. CASE ReadNext
    <2>1. next_seq \in 0 .. MaxSeq
        BY StoreAssumption DEF DumpInv, StoreTypeOK, SeqBound
    <2>2. dpc = "range" /\ dpc' = dpc /\ d' = [d EXCEPT !.next = next_seq]
        BY <1>6 DEF ReadNext, store_next_seq
    <2>3. d' \in Locals /\ d'.buf = d.buf
        BY <1>0, <2>1, <2>2 DEF RunOK, Locals
    <2> QED
        BY <1>0, <2>2, <2>3 DEF RunOK, Framing, Sending
<1>7. CASE Begin
    BY <1>7, RunBegins
<1>8. CASE CallGet
    BY <1>0, <1>8 DEF CallGet, RunOK, Framing, Sending
<1>9. CASE PutRecord
    BY <1>9, RunPuts
<1>10. CASE PutCrc
    BY <1>10, RunCloses
<1>11. CASE NotifySent
    BY <1>11, RunSends
<1>12. CASE NotifyNoMem
    BY <1>0, <1>12 DEF NotifyNoMem, RunOK, Framing, Sending
<1>13. CASE Retry
    <2>1. CASE current_conn
        BY <1>0, <1>13, <2>1 DEF Retry, RunOK, Framing, Sending
    <2>2. CASE ~current_conn
        BY <1>13, <2>2, IdleOK DEF Retry, Idle
    <2> QED
        BY <2>1, <2>2
<1> QED
    BY <1>1, <1>2, <1>3, <1>4, <1>5, <1>6, <1>7, <1>8, <1>9, <1>10, <1>11, <1>12, <1>13
       DEF DumpNext, DumpThread

LEMMA SessionStep ==
    ASSUME DumpInv, [DumpNext]_dumpVars
    PROVE  SessionOK'
<1> USE DEF SessionOK
<1>0. SessionOK
    BY DEF DumpInv
<1>1. CASE UNCHANGED <<link, current_conn, notify_enabled, dump_req, dump_first_seq>>
    BY <1>0, <1>1
<1>2. CASE Cut
    <2>1. link' = [link EXCEPT !.up = FALSE, !.mtu = 0]
          /\ current_conn' = FALSE /\ notify_enabled' = FALSE
          /\ dump_req' = 0 /\ dump_first_seq' = 0
        BY <1>2 DEF Cut
    <2>2. link' \in [up : BOOLEAN, mtu : MTUs \union {0}, session : Nat]
        BY <1>0, <2>1
    <2>3. dump_req' \in 0 .. 1 /\ dump_first_seq' \in Nat
        BY <2>1
    <2> QED
        BY <2>1, <2>2, <2>3, Zenon
<1>3. CASE \E m \in MTUs : connected(m)
    BY <1>0, <1>3 DEF connected
<1>4. CASE disconnected
    BY <1>0, <1>4 DEF disconnected, request
<1>5. CASE \E on \in BOOLEAN : ccc_changed(on)
    BY <1>0, <1>5 DEF ccc_changed, request
<1>6. CASE \E c \in Commands : ctrl_write(c)
    <2>1. PICK c \in Commands : ctrl_write(c)
        BY <1>6
    <2> DEFINE first == sntl_parse_cmd(c.buf)
    <2>2. /\ UNCHANGED <<link, current_conn, notify_enabled>>
          /\ \/ UNCHANGED <<dump_first_seq, dump_req>>
             \/ first # <<>> /\ dump_first_seq' = first[1] /\ dump_req' = 1
        BY <2>1 DEF ctrl_write, session
    <2>3. first # <<>> => first[1] \in Nat
        BY ParseIs
    <2> HIDE DEF first
    <2> QED
        BY <1>0, <2>2, <2>3
<1>7. CASE Take
    BY <1>0, <1>7 DEF Take, session
<1>8. CASE \/ Boot \/ Main \/ UNCHANGED dumpVars
           \/ TakeUp \/ ReadOldest \/ ReadNext \/ Begin \/ CallGet \/ ReturnGet
           \/ PutRecord \/ PutCrc \/ NotifySent \/ NotifyNoMem \/ NotifyError \/ Retry
    BY <1>1, <1>8 DEF Boot, Main, TakeUp, Check, CheckSubscribed, ReadConn, ReadFirst,
        ReadOldest, ReadNext, Begin, CallGet, ReturnGet,
        PutRecord, PutCrc, NotifySent, NotifyNoMem, NotifyError, Retry, bleVars, dumpVars,
        session, request
<1> QED
    BY <1>2, <1>3, <1>4, <1>5, <1>6, <1>7, <1>8 DEF DumpNext, DumpThread, Callbacks

LEMMA DumpBegins == DumpInit => DumpInv
<1> SUFFICES ASSUME DumpInit PROVE DumpInv
    OBVIOUS
<1>1. StoreTypeOK
    BY StoreTypeInit DEF DumpInit
<1>2. SeqBound
    BY StoreAssumption DEF DumpInit, StoreInit, SeqBound
<1>3. SessionOK
    <2>1. link \in [up : BOOLEAN, mtu : MTUs \union {0}, session : Nat]
        BY DEF DumpInit
    <2>2. dump_req \in 0 .. 1 /\ dump_first_seq \in Nat
        BY DEF DumpInit
    <2> QED
        BY <2>1, <2>2, Zenon DEF DumpInit, SessionOK
<1>4. RunOK
    BY NoDumpIs DEF DumpInit, RunOK, Framing, Sending
<1> QED
    BY <1>1, <1>2, <1>3, <1>4 DEF DumpInv

LEMMA DumpStep == DumpInv /\ [DumpNext]_dumpVars => DumpInv'
<1> SUFFICES ASSUME DumpInv, [DumpNext]_dumpVars PROVE DumpInv'
    OBVIOUS
<1>1. StoreTypeOK' /\ SeqBound'
    BY StoreSees, TypeStep, SeqBoundStep DEF DumpInv
<1> QED
    BY <1>1, RunStep, SessionStep DEF DumpInv

LEMMA DumpAlways == DumpSpec => []DumpInv
    BY DumpBegins, DumpStep, PTL DEF DumpSpec

\* The store under a dump is the store by itself: what the BLE thread does
\* with store_get while the main loop appends and power goes are steps of
\* src/store.c, in an order it allows, and every theorem about it carries
\* over to dumps.
THEOREM DumpImplementsStore == DumpSpec => StoreSpec
<1>1. DumpInit => StoreInit
    BY DEF DumpInit
<1>2. DumpInv /\ [DumpNext]_dumpVars => [StoreNext]_storeVars
    BY StoreSees
<1> QED
    BY <1>1, <1>2, DumpAlways, PTL DEF DumpSpec, StoreSpec

\* The locals of dump_run and the shared variables of ble.c hold values of
\* their C types: the 244-byte buffer is never overrun, whatever the MTU and
\* even when a record does not fit a chunk, and the count fits its header.
THEOREM DumpTypeCorrect == DumpSpec => []DumpTypeOK
<1>1. DumpInv => DumpTypeOK
    <2> SUFFICES ASSUME DumpInv PROVE DumpTypeOK
        OBVIOUS
    <2>1. d.chunk \in 0 .. BUF_SIZE /\ d.fill \in 0 .. BUF_SIZE /\ d.count \in 0 .. COUNT_MAX
        BY DEF DumpInv, RunOK, Locals
    <2>2. link.up \in BOOLEAN /\ link.mtu \in MTUs \union {0}
        BY DEF DumpInv, SessionOK
    <2> QED
        BY <2>1, <2>2, Zenon DEF DumpInv, SessionOK, DumpTypeOK
<1> QED
    BY <1>1, DumpAlways, PTL

\* Whenever a chunk can hold a record at all, no notification is longer than
\* the MTU of the connection it was cut for: neither the records nor the CRC
\* that comes after them overfill it.  (A chunk of fewer than 24 bytes is
\* overfilled by every record, which a run shows.)
THEOREM NotifyFitsAlways == DumpSpec => [](d.chunk >= SNTL_RECORD_SIZE => NotifyFits)
<1>1. DumpInv => (d.chunk >= SNTL_RECORD_SIZE => NotifyFits)
    <2> SUFFICES ASSUME DumpInv, d.chunk >= SNTL_RECORD_SIZE, dpc = "notify"
                 PROVE  d.fill <= d.chunk
        BY DEF NotifyFits
    <2>1. d.chunk \in Nat
        BY LocalTypes DEF DumpInv, RunOK
    <2>2. d.fill <= d.chunk \/ d.chunk < SNTL_RECORD_SIZE
        BY DEF DumpInv, RunOK, Framing
    <2> QED
        BY <2>1, <2>2 DEF SNTL_RECORD_SIZE
<1> QED
    BY <1>1, DumpAlways, PTL
-----------------------------------------------------------------------------
(* What a central receives *)

\* Item i of s is where a frame allows it to be.
InFrame(s, i) ==
    /\ s[i].t = "rec" =>
          /\ i > 1
          /\ \/ s[i-1].t = "header"
             \/ s[i-1].t = "rec" /\ s[i].seq = s[i-1].seq + 1
    /\ s[i].t = "crc" =>
          LET n == Len(s[i].of)
          IN  /\ i > n
              /\ \A j \in 1 .. n : s[(i - n - 1) + j] = s[i].of[j]
              /\ s[i - n] = Header(n - 1)

Framed(s) == \A i \in 1 .. Len(s) : InFrame(s, i)

\* The items since the header of the frame that is being built.
BodyIs(c) ==
    /\ Len(c) = 1 + (d.seq - d.start)
    /\ c[1] = Header(d.count)
    /\ \A j \in 2 .. Len(c) : c[j].t = "rec" /\ c[j].seq = d.start + (j - 2)

Body == dpc \in Framing => BodyIs(d.crc)

EndsWith(s, c) ==
    /\ Len(s) >= Len(c)
    /\ \A j \in 1 .. Len(c) : s[(Len(s) - Len(c)) + j] = c[j]

\* What the central will have received once the buffer is sent.
Out == rx \o d.buf

\* The stream with the buffer behind it is framed, and ends with the frame
\* that is being built, which is as long as seq says.
Stream ==
    /\ rx \in Seq(Item)
    /\ Framed(Out)
    /\ dpc \in Framing =>
          /\ BodyIs(d.crc)
          /\ (dpc \in Sending /\ d.then = "end") \/ EndsWith(Out, d.crc)

\* A central connects only once the thread is done with the frame it was
\* building for an earlier one; the first always does.  The code does not see
\* to it: bt_gatt_notify sends to whoever is connected.
ConnectsBetweenFrames == link'.session # link.session => dpc \notin Framing

StreamInv == DumpInv /\ Stream

LEMMA PlainTypes ==
    ASSUME NEW x \in Item
    PROVE  /\ x.t = "crc" => x.of \in Seq(Plain)
           /\ x.t \in {"header", "rec", "crc"}
    BY DEF Item, Plain

\* Where an item may be depends on nothing after it.
LEMMA InFramePrefix ==
    ASSUME NEW s \in Seq(Item), NEW more, NEW k \in Nat, k <= Len(s),
           \A i \in 1 .. k : more[i] = s[i],
           NEW i \in 1 .. k
    PROVE  InFrame(more, i) <=> InFrame(s, i)
<1>0. Len(s) \in Nat /\ s[i] \in Item
    BY LenProperties, ElementOfSeq
<1>1. more[i] = s[i] /\ (i > 1 => more[i-1] = s[i-1])
    BY <1>0
<1>2. CASE s[i].t # "crc"
    BY <1>1, <1>2 DEF InFrame
<1>3. CASE s[i].t = "crc"
    <2> DEFINE n == Len(s[i].of)
    <2>1. n \in Nat
        BY <1>0, <1>3, PlainTypes, LenProperties
    <2> HIDE DEF n
    <2>2. CASE i > n
        <3>1. \A j \in 1 .. n : (i - n - 1) + j \in 1 .. k
            BY <2>1, <2>2
        <3>2. i - n \in 1 .. k
            BY <2>1, <2>2
        <3>3. more[i - n] = s[i - n] /\ \A j \in 1 .. n : more[(i - n - 1) + j] = s[(i - n - 1) + j]
            BY <3>1, <3>2
        <3> QED
            BY <1>1, <1>3, <3>3 DEF InFrame, n
    <2>3. CASE ~(i > n)
        BY <1>1, <1>3, <2>3 DEF InFrame, n
    <2> QED
        BY <2>2, <2>3
<1> QED
    BY <1>2, <1>3

LEMMA FramedAppend ==
    ASSUME NEW s \in Seq(Item), NEW x \in Item, Framed(s),
           InFrame(Append(s, x), Len(s) + 1)
    PROVE  Framed(Append(s, x))
<1> DEFINE more == Append(s, x)
<1>1. Len(s) \in Nat /\ Len(more) = Len(s) + 1 /\ \A i \in 1 .. Len(s) : more[i] = s[i]
    BY AppendProperties, LenProperties
<1>2. InFrame(more, Len(s) + 1)
    OBVIOUS
<1> HIDE DEF more
<1>3. ASSUME NEW i \in 1 .. Len(more) PROVE InFrame(more, i)
    <2>1. CASE i \in 1 .. Len(s)
        <3>1. InFrame(s, i)
            BY <2>1 DEF Framed
        <3>2. InFrame(more, i) <=> InFrame(s, i)
            <4>1. Len(s) \in Nat /\ Len(s) <= Len(s)
                BY <1>1
            <4> QED
                BY <1>1, <2>1, <4>1, InFramePrefix
        <3> QED
            BY <3>1, <3>2
    <2>2. CASE i = Len(s) + 1
        BY <1>2, <2>2
    <2> QED
        BY <1>1, <2>1, <2>2
<1> QED
    BY <1>3 DEF Framed, more

\* What has been sent is framed if it is so together with the buffer.
LEMMA FramedSent ==
    ASSUME NEW s \in Seq(Item), NEW b \in Seq(Item), Framed(s \o b)
    PROVE  Framed(s)
<1> DEFINE all == s \o b
<1>1. /\ all \in Seq(Item) /\ Len(all) = Len(s) + Len(b) /\ Len(s) \in Nat /\ Len(b) \in Nat
      /\ \A i \in 1 .. Len(s) + Len(b) : all[i] = IF i <= Len(s) THEN s[i] ELSE b[i - Len(s)]
    BY ConcatProperties, LenProperties
<1> HIDE DEF all
<1>2. \A i \in 1 .. Len(s) : all[i] = s[i] /\ i \in 1 .. Len(all)
    BY <1>1
<1>3. ASSUME NEW i \in 1 .. Len(s) PROVE InFrame(s, i)
    <2>1. InFrame(all, i)
        BY <1>2 DEF Framed, all
    <2>2. Len(s) \in Nat /\ Len(s) <= Len(s)
        BY <1>1
    <2>3. InFrame(all, i) <=> InFrame(s, i)
        BY <1>2, <2>2, InFramePrefix
    <2> QED
        BY <2>1, <2>3
<1> QED
    BY <1>3 DEF Framed

LEMMA OutGrows ==
    ASSUME NEW s \in Seq(Item), NEW b \in Seq(Item), NEW x \in Item
    PROVE  s \o Append(b, x) = Append(s \o b, x)
<1>1. <<x>> \in Seq(Item)
    OBVIOUS
<1>2. Append(b, x) = b \o <<x>> /\ s \o b \in Seq(Item)
    BY AppendIsConcat, ConcatProperties
<1>3. Append(s \o b, x) = (s \o b) \o <<x>>
    BY <1>2, AppendIsConcat
<1>4. (s \o b) \o <<x>> = s \o (b \o <<x>>)
    BY <1>1, ConcatAssociative
<1> QED
    BY <1>2, <1>3, <1>4

LEMMA EndsWithAppend ==
    ASSUME NEW s \in Seq(Item), NEW c \in Seq(Plain), NEW x \in Plain, EndsWith(s, c)
    PROVE  EndsWith(Append(s, x), Append(c, x))
<1> DEFINE more == Append(s, x)
           body == Append(c, x)
<1>0. x \in Item
    BY DEF Item
<1>1. /\ Len(s) \in Nat /\ Len(more) = Len(s) + 1 /\ more[Len(s) + 1] = x
      /\ \A i \in 1 .. Len(s) : more[i] = s[i]
    BY <1>0, AppendProperties, LenProperties
<1>2. /\ Len(c) \in Nat /\ Len(body) = Len(c) + 1 /\ body[Len(c) + 1] = x
      /\ \A i \in 1 .. Len(c) : body[i] = c[i]
    BY AppendProperties, LenProperties
<1>3. Len(s) >= Len(c) /\ \A j \in 1 .. Len(c) : s[(Len(s) - Len(c)) + j] = c[j]
    BY DEF EndsWith
<1> HIDE DEF more, body
<1>4. ASSUME NEW j \in 1 .. Len(body)
      PROVE  more[(Len(more) - Len(body)) + j] = body[j]
    <2>1. Len(more) - Len(body) = Len(s) - Len(c)
        BY <1>1, <1>2
    <2>2. CASE j \in 1 .. Len(c)
        <3>1. (Len(s) - Len(c)) + j \in 1 .. Len(s)
            BY <1>1, <1>2, <1>3, <2>2
        <3> QED
            BY <1>1, <1>2, <1>3, <2>1, <2>2, <3>1
    <2>3. CASE j = Len(c) + 1
        <3>1. (Len(s) - Len(c)) + j = Len(s) + 1
            BY <1>1, <1>2, <2>3
        <3> QED
            BY <1>1, <1>2, <2>1, <2>3, <3>1
    <2> QED
        BY <1>2, <2>2, <2>3
<1>5. Len(more) >= Len(body)
    BY <1>1, <1>2, <1>3
<1> QED
    BY <1>4, <1>5 DEF EndsWith, more, body

LEMMA OutTypes ==
    ASSUME DumpInv, Stream
    PROVE  /\ d.buf \in Seq(Item) /\ d.crc \in Seq(Plain) /\ rx \in Seq(Item) /\ Out \in Seq(Item)
           /\ d.buf = <<>> => Out = rx
<1>1. d.buf \in Seq(Item) /\ d.crc \in Seq(Plain) /\ rx \in Seq(Item)
    BY DEF DumpInv, RunOK, Locals, Stream
<1> QED
    BY <1>1, ConcatProperties, ConcatEmptySeq DEF Out

\* Between dumps.
LEMMA StreamQuiet ==
    ASSUME DumpInv, Stream, dpc' \notin Framing, d'.buf = <<>>, rx' \in {rx, Out, <<>>}
    PROVE  Stream'
<1>1. rx \in Seq(Item) /\ Out \in Seq(Item) /\ Framed(Out) /\ <<>> \in Seq(Item)
    BY OutTypes DEF Stream
<1>2. Framed(rx)
    BY <1>1, OutTypes, FramedSent DEF Out
<1>3. Framed(<<>>)
    <2>1. Len(<<>>) = 0
        OBVIOUS
    <2> QED
        BY <2>1 DEF Framed
<1>4. rx' \in Seq(Item) /\ Framed(rx')
    BY <1>1, <1>2, <1>3
<1>5. Out' = rx'
    BY <1>4, ConcatEmptySeq DEF Out
<1> QED
    BY <1>4, <1>5 DEF Stream

\* Within a dump, nothing added.
LEMMA StreamSame ==
    ASSUME DumpInv, Stream, dpc \in Framing, dpc' \in Framing,
           rx' \in Seq(Item), Out' = Out, d'.crc = d.crc,
           d'.seq = d.seq, d'.start = d.start, d'.count = d.count,
           dpc \in Sending /\ d.then = "end" => dpc' \in Sending /\ d'.then = "end"
    PROVE  Stream'
<1>1. BodyIs(d.crc)' 
    BY DEF Stream, BodyIs
<1>2. Framed(Out)'
    BY DEF Stream
<1>3. EndsWith(Out, d.crc) => EndsWith(Out, d.crc)'
    OBVIOUS
<1> QED
    BY <1>1, <1>2, <1>3 DEF Stream

LEMMA BodyBegins ==
    ASSUME DumpInv, Begin
    PROVE  BodyIs(d.crc)'
<1> DEFINE range == sntl_dump_range(d.first, d.oldest, d.next)
           h == Header(range.count)
<1>1. d' = Filled([NoDump EXCEPT !.first = d.first, !.asked = d.asked,
                                 !.start = range.start, !.count = range.count,
                                 !.seq = range.start,
                                 !.chunk = ChunkFor(bt_gatt_get_mtu(d.conn))], h)
    BY DEF Begin
<1>2. d.first \in Nat /\ d.oldest \in Nat /\ d.next \in Nat
    BY StoreAssumption DEF DumpInv, RunOK, Locals, Begin
<1>3. range.start \in Nat /\ range.count \in Nat
    <2>1. range.start \in Nat /\ range.count \in 0 .. COUNT_MAX
        BY <1>2, RangeIs, Zenon
    <2> HIDE DEF range
    <2> QED
        BY <2>1, FrameAssumption
<1> HIDE DEF range
<1>4. /\ d'.crc = Append(<<>>, h) /\ d'.seq = range.start
      /\ d'.start = range.start /\ d'.count = range.count
    BY <1>1 DEF Filled, NoDump
<1> DEFINE hs == Append(<<>>, h)
<1>5. Len(hs) = 1 /\ hs[1] = h
    OBVIOUS
<1> HIDE DEF hs
<1>6. Len(hs) = 1 + (d'.seq - d'.start) /\ \A j \in 2 .. Len(hs) : FALSE
    BY <1>3, <1>4, <1>5
<1>7. d'.crc = hs /\ hs[1] = Header(d'.count)
    BY <1>4, <1>5 DEF hs
<1> QED
    BY <1>6, <1>7 DEF BodyIs

LEMMA BodyPuts ==
    ASSUME DumpInv, Body, PutRecord
    PROVE  BodyIs(d.crc)'
<1>0. d \in Locals /\ BodyIs(d.crc)
    BY DEF DumpInv, RunOK, PutRecord, Framing, Body
<1>1. CASE dpc = "get" /\ d.fill + SNTL_RECORD_SIZE > d.chunk
    <2>1. d' = [d EXCEPT !.then = "encode"]
        BY <1>1 DEF PutRecord, Flush
    <2>2. d'.crc = d.crc /\ d'.seq = d.seq /\ d'.start = d.start /\ d'.count = d.count
        BY <1>0, <2>1 DEF Locals
    <2> QED
        BY <1>0, <2>2 DEF BodyIs
<1>2. CASE ~(dpc = "get" /\ d.fill + SNTL_RECORD_SIZE > d.chunk)
    <2> DEFINE x == Rec(d.seq, get.out)
               body == Append(d.crc, x)
               n == Len(d.crc)
    <2>1. d' = [Filled(d, x) EXCEPT !.seq = @ + 1]
        BY <1>2 DEF PutRecord
    <2>2. /\ d'.crc = body /\ d'.seq = d.seq + 1 /\ d'.start = d.start /\ d'.count = d.count
        BY <1>0, <2>1 DEF Filled, Locals
    <2>3. d.seq \in Nat /\ d.start \in Nat /\ d.count \in Nat /\ d.start <= d.seq
        BY <1>0, LocalTypes DEF DumpInv, RunOK, PutRecord, Framing
    <2>4. x \in Plain /\ x.t = "rec" /\ x.seq = d.seq
        <3>1. x \in Plain
            BY <2>3, ItemTypes DEF DumpInv, StoreTypeOK
        <3> QED
            BY <3>1 DEF Rec
    <2> HIDE DEF x
    <2>5. d.crc \in Seq(Plain)
        BY <1>0 DEF Locals
    <2>6. n \in Nat /\ Len(body) = n + 1 /\ body[n + 1] = x /\ \A i \in 1 .. n : body[i] = d.crc[i]
        BY <2>4, <2>5, AppendProperties, LenProperties
    <2>7. n = 1 + (d.seq - d.start)
        BY <1>0 DEF BodyIs
    <2> HIDE DEF body, n
    <2>8. n >= 1 /\ 1 \in 1 .. n /\ Len(body) = 1 + (d'.seq - d'.start)
        <3> DEFINE a == d.seq
                   b == d.start
        <3>1. a \in Nat /\ b \in Nat /\ b <= a /\ n = 1 + (a - b) /\ n \in Nat /\ Len(body) = n + 1
            BY <2>3, <2>6, <2>7
        <3> HIDE DEF a, b
        <3>2. n >= 1 /\ Len(body) = 1 + ((a + 1) - b)
            BY <3>1
        <3> QED
            BY <2>2, <3>1, <3>2 DEF a, b
    <2>9. body[1] = Header(d'.count)
        BY <1>0, <2>2, <2>6, <2>8 DEF BodyIs
    <2>10. ASSUME NEW j \in 2 .. Len(body)
           PROVE  body[j].t = "rec" /\ body[j].seq = d'.start + (j - 2)
        <3>1. CASE j \in 2 .. n
            <4>1. j \in 1 .. n
                BY <3>1
            <4> QED
                BY <1>0, <2>2, <2>6, <3>1, <4>1 DEF BodyIs, n
        <3>2. CASE j = n + 1
            <4>1. d.seq = d'.start + (j - 2)
                BY <2>2, <2>3, <2>7, <3>2
            <4> QED
                BY <2>4, <2>6, <3>2, <4>1
        <3> QED
            BY <2>6, <3>1, <3>2
    <2> QED
        BY <2>2, <2>8, <2>9, <2>10 DEF BodyIs
<1> QED
    BY <1>1, <1>2

LEMMA StreamBegins ==
    ASSUME DumpInv, Stream, Begin
    PROVE  Stream'
<1> DEFINE range == sntl_dump_range(d.first, d.oldest, d.next)
           h == Header(range.count)
<1>1. /\ dpc = "range" /\ dpc' = "loop" /\ rx' = rx
      /\ d' = Filled([NoDump EXCEPT !.first = d.first, !.asked = d.asked,
                                    !.start = range.start, !.count = range.count,
                                    !.seq = range.start,
                                    !.chunk = ChunkFor(bt_gatt_get_mtu(d.conn))], h)
    BY DEF Begin, central
<1>2. d.first \in Nat /\ d.oldest \in Nat /\ d.next \in Nat
    BY StoreAssumption DEF DumpInv, RunOK, Locals, Begin
<1>3. range.start \in Nat /\ range.count \in Nat
    <2>1. range.start \in Nat /\ range.count \in 0 .. COUNT_MAX
        BY <1>2, RangeIs, Zenon
    <2> HIDE DEF range
    <2> QED
        BY <2>1, FrameAssumption
<1>4. h \in Plain /\ h \in Item /\ h.t = "header"
    <2>1. h \in Plain /\ Plain \subseteq Item
        BY <1>3, ItemTypes
    <2> QED
        BY <2>1 DEF Header
<1> HIDE DEF range
<1>5. /\ d'.buf = Append(<<>>, h) /\ d'.crc = Append(<<>>, h) /\ d'.seq = range.start
      /\ d'.start = range.start /\ d'.count = range.count
    BY <1>1 DEF Filled, NoDump
<1>6. d.buf = <<>> /\ rx \in Seq(Item) /\ Framed(rx)
    <2>1. d.buf = <<>>
        BY <1>1 DEF DumpInv, RunOK, Framing
    <2> QED
        BY <2>1, OutTypes DEF Stream
<1> DEFINE hs == Append(<<>>, h)
<1>7. hs \in Seq(Plain) /\ Len(hs) = 1 /\ hs[1] = h
    BY <1>4
<1>8. Out' = Append(rx, h)
    <2>1. <<>> \in Seq(Item) /\ rx \o <<>> = rx
        BY <1>6, ConcatEmptySeq
    <2>2. rx \o Append(<<>>, h) = Append(rx \o <<>>, h)
        BY <1>4, <1>6, <2>1, OutGrows
    <2> QED
        BY <1>1, <1>5, <2>1, <2>2 DEF Out
<1> DEFINE more == Append(rx, h)
<1>9. more \in Seq(Item) /\ Len(rx) \in Nat /\ Len(more) = Len(rx) + 1 /\ more[Len(rx) + 1] = h
    BY <1>4, <1>6, AppendProperties, LenProperties
<1>10. Framed(more)
    <2>1. InFrame(more, Len(rx) + 1)
        BY <1>4, <1>9 DEF InFrame
    <2> QED
        BY <1>4, <1>6, <2>1, FramedAppend
<1> HIDE DEF more, hs, h
<1>11. EndsWith(more, hs)
    <2>1. Len(more) >= Len(hs) /\ \A j \in 1 .. Len(hs) : j = 1 /\ (Len(more) - Len(hs)) + j = Len(rx) + 1
        BY <1>7, <1>9
    <2> QED
        BY <1>7, <1>9, <2>1 DEF EndsWith
<1>12. BodyIs(d.crc)'
    BY BodyBegins
<1> QED
    BY <1>1, <1>5, <1>6, <1>8, <1>10, <1>11, <1>12 DEF Stream, more, hs

LEMMA StreamPuts ==
    ASSUME DumpInv, Stream, PutRecord
    PROVE  Stream'
<1>0. d \in Locals /\ dpc \in {"get", "encode"} /\ dpc \in Framing /\ dpc \notin Sending /\ rx' = rx
    BY DEF DumpInv, RunOK, PutRecord, Framing, Sending, central
<1>1. CASE dpc = "get" /\ d.fill + SNTL_RECORD_SIZE > d.chunk
    <2>1. dpc' = "notify" /\ d' = [d EXCEPT !.then = "encode"]
        BY <1>1 DEF PutRecord, Flush
    <2>2. /\ d'.buf = d.buf /\ d'.crc = d.crc /\ d'.seq = d.seq /\ d'.start = d.start
          /\ d'.count = d.count
        BY <1>0, <2>1 DEF Locals
    <2>3. Out' = Out /\ rx' \in Seq(Item) /\ dpc' \in Framing
        BY <1>0, <2>1, <2>2 DEF Out, Stream, Framing
    <2> QED
        BY <1>0, <2>2, <2>3, StreamSame
<1>2. CASE ~(dpc = "get" /\ d.fill + SNTL_RECORD_SIZE > d.chunk)
    <2> DEFINE x == Rec(d.seq, get.out)
               more == Append(Out, x)
               body == Append(d.crc, x)
    <2>1. dpc' = "loop" /\ d' = [Filled(d, x) EXCEPT !.seq = @ + 1]
        BY <1>2 DEF PutRecord
    <2>2. /\ d'.buf = Append(d.buf, x) /\ d'.crc = body /\ d'.seq = d.seq + 1
          /\ d'.start = d.start /\ d'.count = d.count
        BY <1>0, <2>1 DEF Filled, Locals
    <2>3. d.seq \in Nat /\ d.start \in Nat /\ d.count \in Nat /\ d.start <= d.seq
        BY <1>0, LocalTypes DEF DumpInv, RunOK
    <2>4. x \in Plain /\ x \in Item /\ x.t = "rec" /\ x.seq = d.seq
        <3>1. x \in Plain /\ Plain \subseteq Item
            BY <2>3, ItemTypes DEF DumpInv, StoreTypeOK
        <3> QED
            BY <3>1 DEF Rec
    <2> HIDE DEF x
    <2>5. d.buf \in Seq(Item) /\ d.crc \in Seq(Plain) /\ rx \in Seq(Item) /\ Out \in Seq(Item)
        BY OutTypes
    <2>6. Out' = more
        BY <1>0, <2>2, <2>4, <2>5, OutGrows DEF Out
    <2>7. Framed(Out) /\ BodyIs(d.crc) /\ EndsWith(Out, d.crc)
        BY <1>0 DEF Stream
    <2> DEFINE N == Len(Out)
               n == Len(d.crc)
    <2>8. N \in Nat /\ Len(more) = N + 1 /\ more[N + 1] = x /\ \A i \in 1 .. N : more[i] = Out[i]
        BY <2>4, <2>5, AppendProperties, LenProperties
    <2>9. n \in Nat /\ Len(body) = n + 1 /\ body[n + 1] = x /\ \A i \in 1 .. n : body[i] = d.crc[i]
        BY <2>4, <2>5, AppendProperties, LenProperties
    <2>10. n = 1 + (d.seq - d.start) /\ n >= 1 /\ N >= n /\ Out[N] = d.crc[n]
        <3>1. n = 1 + (d.seq - d.start) /\ N >= n
            BY <2>7 DEF BodyIs, EndsWith
        <3>2. n \in 1 .. n /\ (N - n) + n = N
            <4> DEFINE a == d.seq
                       b == d.start
            <4>1. a \in Nat /\ b \in Nat /\ b <= a /\ n = 1 + (a - b) /\ N >= n
                BY <2>3, <3>1
            <4>2. N \in Nat /\ n \in Nat
                BY <2>8, <2>9
            <4> HIDE DEF a, b, N, n
            <4>3. n >= 1 /\ (N - n) + n = N
                BY <4>1, <4>2
            <4> QED
                BY <4>2, <4>3
        <3>3. Out[(N - n) + n] = d.crc[n]
            BY <2>7, <3>2 DEF EndsWith
        <3> QED
            BY <2>3, <3>1, <3>2, <3>3
    <2>11. InFrame(more, N + 1)
        <3>1. (N + 1) - 1 = N /\ N \in 1 .. N /\ N + 1 > 1
            BY <2>8, <2>10
        <3>2. more[(N + 1) - 1] = d.crc[n]
            BY <2>8, <2>10, <3>1
        <3>3. CASE n = 1
            <4>1. d.crc[n].t = "header"
                BY <2>7, <3>3 DEF BodyIs, Header
            <4> QED
                BY <2>4, <2>8, <3>1, <3>2, <4>1 DEF InFrame
        <3>4. CASE n # 1
            <4>1. n \in 2 .. n
                BY <2>9, <2>10, <3>4
            <4>2. d.crc[n].t = "rec" /\ d.crc[n].seq = d.start + (n - 2)
                BY <2>7, <4>1 DEF BodyIs
            <4>3. x.seq = d.crc[n].seq + 1
                BY <2>3, <2>4, <2>10, <4>2
            <4> QED
                BY <2>4, <2>8, <3>1, <3>2, <4>2, <4>3 DEF InFrame
        <3> QED
            BY <3>3, <3>4
    <2>12. Framed(more)
        BY <2>4, <2>5, <2>7, <2>11, FramedAppend
    <2>13. EndsWith(more, body)
        BY <2>4, <2>5, <2>7, EndsWithAppend
    <2> HIDE DEF more, body
    <2>14. BodyIs(d.crc)'
        BY BodyPuts DEF Body, Stream
    <2> QED
        BY <1>0, <2>1, <2>2, <2>5, <2>6, <2>12, <2>13, <2>14 DEF Stream
<1> QED
    BY <1>1, <1>2

LEMMA StreamCloses ==
    ASSUME DumpInv, Stream, PutCrc
    PROVE  Stream'
<1>0. d \in Locals /\ dpc \in {"loop", "crc"} /\ dpc \in Framing /\ dpc \notin Sending /\ rx' = rx
    BY DEF DumpInv, RunOK, PutCrc, Framing, Sending, central
<1>1. CASE dpc = "loop" /\ d.fill + SNTL_CRC_SIZE > d.chunk
    <2>1. dpc' = "notify" /\ d' = [d EXCEPT !.then = "crc"]
        BY <1>1 DEF PutCrc, Flush
    <2>2. /\ d'.buf = d.buf /\ d'.crc = d.crc /\ d'.seq = d.seq /\ d'.start = d.start
          /\ d'.count = d.count
        BY <1>0, <2>1 DEF Locals
    <2>3. Out' = Out /\ rx' \in Seq(Item) /\ dpc' \in Framing
        BY <1>0, <2>1, <2>2 DEF Out, Stream, Framing
    <2> QED
        BY <1>0, <2>2, <2>3, StreamSame
<1>2. CASE ~(dpc = "loop" /\ d.fill + SNTL_CRC_SIZE > d.chunk)
    <2> DEFINE x == Crc(d.crc)
               more == Append(Out, x)
    <2>1. /\ dpc' = "notify"
          /\ d' = [d EXCEPT !.buf = Append(@, x), !.fill = @ + SNTL_CRC_SIZE, !.then = "end"]
        BY <1>2 DEF PutCrc
    <2>2. /\ d'.buf = Append(d.buf, x) /\ d'.crc = d.crc /\ d'.seq = d.seq
          /\ d'.start = d.start /\ d'.count = d.count /\ d'.then = "end"
        BY <1>0, <2>1 DEF Locals
    <2>3. d.seq \in Nat /\ d.start \in Nat /\ d.count \in Nat /\ d.seq = d.start + d.count
        BY <1>0, LocalTypes DEF DumpInv, RunOK, PutCrc
    <2>4. d.buf \in Seq(Item) /\ d.crc \in Seq(Plain) /\ rx \in Seq(Item) /\ Out \in Seq(Item)
        BY OutTypes
    <2>5. x \in Item /\ x.t = "crc" /\ x.of = d.crc
        BY <2>4, ItemTypes DEF Crc
    <2> HIDE DEF x
    <2>6. Out' = more
        BY <1>0, <2>2, <2>4, <2>5, OutGrows DEF Out
    <2>7. Framed(Out) /\ BodyIs(d.crc) /\ EndsWith(Out, d.crc)
        BY <1>0 DEF Stream
    <2> DEFINE N == Len(Out)
               n == Len(d.crc)
               i == N + 1
    <2>8. N \in Nat /\ Len(more) = N + 1 /\ more[N + 1] = x /\ \A k \in 1 .. N : more[k] = Out[k]
        BY <2>4, <2>5, AppendProperties, LenProperties
    <2>9. n \in Nat /\ n = 1 + d.count /\ N >= n /\ d.crc[1] = Header(d.count)
          /\ \A j \in 1 .. n : Out[(N - n) + j] = d.crc[j]
        BY <2>3, <2>4, <2>7, LenProperties DEF BodyIs, EndsWith
    <2> HIDE DEF more, N, n
    <2>10. \A j \in 1 .. n : (i - n - 1) + j = (N - n) + j /\ (N - n) + j \in 1 .. N
        BY <2>8, <2>9
    <2>11. \A j \in 1 .. n : more[(i - n - 1) + j] = d.crc[j]
        BY <2>8, <2>9, <2>10
    <2>12. more[i - n] = Header(n - 1)
        <3>1. 1 \in 1 .. n /\ i - n = (i - n - 1) + 1 /\ n - 1 = d.count
            <4> DEFINE c == d.count
            <4>1. c \in Nat /\ n = 1 + c /\ n \in Nat /\ N \in Nat
                BY <2>3, <2>8, <2>9
            <4> HIDE DEF c
            <4>2. n >= 1 /\ i - n = (i - n - 1) + 1 /\ n - 1 = c
                BY <4>1
            <4> QED
                BY <4>1, <4>2 DEF c
        <3>2. more[(i - n - 1) + 1] = d.crc[1]
            BY <2>11, <3>1
        <3> QED
            BY <2>9, <3>1, <3>2
    <2>13. InFrame(more, i)
        <3>1. i > n /\ more[i] = x
            BY <2>8, <2>9
        <3> HIDE DEF i
        <3> QED
            BY <2>5, <2>11, <2>12, <3>1 DEF InFrame, n
    <2>14. Framed(more)
        BY <2>4, <2>5, <2>7, <2>13, FramedAppend DEF more, N
    <2>15. BodyIs(d.crc)'
        BY <2>2, <2>7 DEF BodyIs
    <2> QED
        BY <1>0, <2>1, <2>2, <2>4, <2>6, <2>14, <2>15 DEF Stream, Sending
<1> QED
    BY <1>1, <1>2

\* A chunk is sent: it moves from the buffer to the central.
LEMMA StreamSends ==
    ASSUME DumpInv, Stream, NotifySent
    PROVE  Stream'
<1>1. d \in Locals /\ dpc = "notify" /\ dpc \in Framing /\ rx' = Out
    BY DEF DumpInv, RunOK, NotifySent, Framing, Out
<1>2. rx \in Seq(Item) /\ Out \in Seq(Item)
    BY OutTypes
<1>3. CASE d.then = "end"
    BY <1>1, <1>3, NoDumpIs, StreamQuiet DEF NotifySent, Idle, Framing
<1>4. CASE d.then # "end"
    <2>1. dpc' = d.then /\ d' = [d EXCEPT !.buf = <<>>, !.fill = 0, !.then = None]
        BY <1>4 DEF NotifySent
    <2>2. /\ d'.buf = <<>> /\ d'.crc = d.crc /\ d'.seq = d.seq /\ d'.start = d.start
          /\ d'.count = d.count
        BY <1>1, <2>1 DEF Locals
    <2>3. dpc' \in Framing
        BY <1>1, <1>4, <2>1 DEF DumpInv, RunOK, Sending, Framing
    <2>4. Out' = Out /\ rx' \in Seq(Item)
        BY <1>1, <1>2, <2>2, ConcatEmptySeq DEF Out
    <2> QED
        BY <1>1, <1>4, <2>2, <2>3, <2>4, StreamSame
<1> QED
    BY <1>3, <1>4

LEMMA StreamStep ==
    ASSUME DumpInv, Stream, [DumpNext]_dumpVars, [ConnectsBetweenFrames]_dumpVars
    PROVE  Stream'
<1>0. /\ d \in Locals /\ rx \in Seq(Item)
      /\ dpc \notin Framing => d.buf = <<>>
    BY DEF DumpInv, RunOK, Stream
<1>1. CASE UNCHANGED <<dpc, d, rx>>
    BY <1>1 DEF Stream, Out, BodyIs
<1>2. CASE \E m \in MTUs : connected(m)
    <2>1. link.session \in Nat /\ link'.session = link.session + 1 /\ rx' = <<>> /\ dpc' = dpc /\ d' = d
        BY <1>2 DEF connected, dump, DumpInv, SessionOK
    <2>2. link'.session # link.session
        BY <2>1
    <2>3. dpc \notin Framing
        BY <2>2 DEF ConnectsBetweenFrames, dumpVars, bleVars, session
    <2> QED
        BY <1>0, <2>1, <2>3, StreamQuiet
<1>3. CASE Cut \/ NotifyError
    BY <1>3, NoDumpIs, StreamQuiet DEF Cut, NotifyError, Idle, Framing, central
<1>4. CASE Take \/ TakeUp \/ ReadOldest \/ ReadNext
    <2>1. dpc' \notin Framing /\ rx' = rx
        BY <1>4 DEF Take, TakeUp, Check, CheckSubscribed, ReadConn, ReadFirst,
            ReadOldest, ReadNext, Framing, central
    <2>2. dpc \notin Framing
        BY <1>4 DEF Take, TakeUp, Check, CheckSubscribed, ReadConn, ReadFirst,
            ReadOldest, ReadNext, Framing
    <2>3. d'.buf = <<>>
        <3>1. \A c \in BOOLEAN : [NoDump EXCEPT !.conn = c].buf = <<>>
            BY DEF NoDump
        <3>2. CASE Take
            BY <1>0, <2>2, <3>2 DEF Take
        <3>3. CASE TakeUp
            <4>1. current_conn \in BOOLEAN
                BY DEF DumpInv, SessionOK
            <4> QED
                BY <1>0, <2>2, <3>1, <3>3, <4>1
                   DEF TakeUp, Check, CheckSubscribed, ReadConn, ReadFirst, Locals
        <3>4. CASE ReadOldest
            BY <1>0, <2>2, <3>4 DEF ReadOldest, Locals
        <3>5. CASE ReadNext
            BY <1>0, <2>2, <3>5 DEF ReadNext, Locals
        <3> QED
            BY <1>4, <3>2, <3>3, <3>4, <3>5
    <2> QED
        BY <2>1, <2>3, StreamQuiet
<1>5. CASE CallGet \/ NotifyNoMem \/ (Retry /\ current_conn)
    <2>1. /\ dpc \in Framing /\ dpc' \in Framing /\ d' = d /\ rx' = rx
          /\ dpc \in Sending => dpc' \in Sending
        BY <1>5 DEF CallGet, NotifyNoMem, Retry, Framing, Sending, central
    <2>2. Out' = Out
        BY <2>1 DEF Out
    <2> QED
        BY <1>0, <2>1, <2>2, StreamSame
<1>6. CASE Retry /\ ~current_conn
    BY <1>6, NoDumpIs, StreamQuiet DEF Retry, Idle, Framing, central
<1>7. CASE Boot \/ Main \/ ReturnGet \/ disconnected
              \/ (\E on \in BOOLEAN : ccc_changed(on)) \/ (\E c \in Commands : ctrl_write(c))
              \/ UNCHANGED dumpVars
    BY <1>1, <1>7 DEF Boot, Main, ReturnGet, disconnected, ccc_changed, ctrl_write,
        bleVars, dumpVars, dump, central
<1> QED
    BY <1>2, <1>3, <1>4, <1>5, <1>6, <1>7, StreamBegins, StreamPuts, StreamCloses, StreamSends
       DEF DumpNext, Callbacks, DumpThread

LEMMA StreamStarts == DumpInit => Stream
<1> SUFFICES ASSUME DumpInit PROVE Stream
    OBVIOUS
<1>1. rx = <<>> /\ d.buf = <<>> /\ dpc \notin Framing /\ <<>> \in Seq(Item)
    BY NoDumpIs DEF DumpInit, Framing
<1>2. Out = <<>> /\ Len(<<>>) = 0
    BY <1>1, ConcatEmptySeq DEF Out
<1>3. \A i \in 1 .. Len(<<>>) : FALSE
    BY <1>2
<1> QED
    BY <1>1, <1>2, <1>3 DEF Stream, Framed

\* The framing of the buffered stream says of the part that was sent what
\* StreamFramed says.
LEMMA StreamShows == DumpInv /\ Stream => StreamFramed
<1> SUFFICES ASSUME DumpInv, Stream PROVE StreamFramed
    OBVIOUS
<1>1. rx \in Seq(Item) /\ d.buf \in Seq(Item) /\ Framed(rx)
    BY OutTypes, FramedSent DEF Stream, Out
<1>2. ASSUME NEW i \in 1 .. Len(rx), rx[i].t = "crc"
      PROVE  LET n == Len(rx[i].of)
             IN  i > n /\ SubSeq(rx, i - n, i - 1) = rx[i].of /\ rx[i - n] = Header(n - 1)
    <2> DEFINE c == rx[i].of
               n == Len(c)
               sub == SubSeq(rx, i - n, i - 1)
    <2>1. Len(rx) \in Nat /\ rx[i] \in Item
        BY <1>1, LenProperties, ElementOfSeq
    <2>2. c \in Seq(Plain)
        BY <1>2, <2>1, PlainTypes
    <2>3. c \in Seq(Item)
        BY <2>2 DEF Item
    <2>4. i > n /\ rx[i - n] = Header(n - 1) /\ \A j \in 1 .. n : rx[(i - n - 1) + j] = c[j]
        BY <1>1, <1>2 DEF Framed, InFrame
    <2>5. n \in Nat
        BY <2>2, LenProperties
    <2> HIDE DEF c, n
    <2>a. i > n
        BY <2>4
    <2>6. /\ i - n \in Int /\ i - 1 \in Int /\ (i - 1) - (i - n) + 1 = n
          /\ (IF i - n <= i - 1 THEN (i - 1) - (i - n) + 1 ELSE 0) = n
          /\ \A j \in i - n .. i - 1 : j \in 1 .. Len(rx)
          /\ \A j \in 1 .. n : (i - n) + j - 1 = (i - n - 1) + j
        BY <2>1, <2>5, <2>a
    <2>7. sub \in Seq(Item) /\ Len(sub) = n /\ \A j \in 1 .. n : sub[j] = rx[(i - n) + j - 1]
        <3> DEFINE a == i - n
                   b == i - 1
        <3>1. a \in Int /\ b \in Int /\ \A j \in a .. b : rx[j] \in Item
            BY <1>1, <2>6, ElementOfSeq
        <3>2. b - a + 1 = n /\ (IF a <= b THEN b - a + 1 ELSE 0) = n /\ sub = SubSeq(rx, a, b)
            BY <2>6
        <3> HIDE DEF a, b, sub
        <3>3. /\ SubSeq(rx, a, b) \in Seq(Item)
              /\ Len(SubSeq(rx, a, b)) = IF a <= b THEN b - a + 1 ELSE 0
              /\ \A j \in 1 .. b - a + 1 : SubSeq(rx, a, b)[j] = rx[a + j - 1]
            BY <3>1, SubSeqProperties
        <3> QED
            BY <3>2, <3>3 DEF a
    <2>8. \A j \in 1 .. n : sub[j] = c[j]
        BY <2>4, <2>6, <2>7
    <2> HIDE DEF sub
    <2>9. sub = c
        BY <2>3, <2>7, <2>8, SeqEqual DEF n
    <2> QED
        BY <2>4, <2>9 DEF n, c, sub
<1>3. ASSUME NEW i \in 1 .. Len(rx), rx[i].t = "rec"
      PROVE  /\ i > 1
             /\ \/ rx[i-1].t = "header"
                \/ rx[i-1].t = "rec" /\ rx[i].seq = rx[i-1].seq + 1
    BY <1>1, <1>3 DEF Framed, InFrame
<1> QED
    BY <1>2, <1>3 DEF StreamFramed

\* What a central receives parses as frames that are there in full, however
\* appends, retries, full buffers, new commands, unsubscribing and power cuts
\* fall in between, as long as no central connects in the middle of a frame.
\* (One that does gets the rest of its predecessor's: ble.c looks only at
\* whether anyone is connected.)
THEOREM StreamFramedAlways ==
    DumpSpec /\ [][ConnectsBetweenFrames]_dumpVars => []StreamFramed
<1>1. DumpInit => StreamInv
    BY DumpBegins, StreamStarts DEF StreamInv
<1>2. StreamInv /\ [DumpNext]_dumpVars /\ [ConnectsBetweenFrames]_dumpVars => StreamInv'
    BY DumpStep, StreamStep DEF StreamInv
<1>3. StreamInv => StreamFramed
    BY StreamShows DEF StreamInv
<1> QED
    BY <1>1, <1>2, <1>3, PTL DEF DumpSpec
-----------------------------------------------------------------------------
(* What the records of a dump say *)

\* What store_get may return for q: record q, or nothing once a newer record
\* has taken its slot.
Honest(q, out) == IF out = None THEN Recycled(q) ELSE out.seq = q

HonestIn(s) == \A i \in 1 .. Len(s) : s[i].t = "rec" => Honest(s[i].seq, s[i].out)

\* Nothing of a dump, a command or a connection without power.
Powered == link.up \/ dump_req = 1 \/ dpc # "wait" => pc \in Running

\* The two ends of the ring, as they were read one after the other, against
\* the ring as it is and as it was when the command was taken up.
EndsRead ==
    dpc = "range" =>
        /\ d.asked <= next_seq
        /\ d.oldest # None =>
              /\ floor_seq <= d.oldest /\ d.oldest <= store_oldest_seq
              /\ d.asked <= d.oldest + STORE_CAPACITY
        /\ d.next # None => d.asked <= d.next /\ d.next <= next_seq

\* A ring no longer than a count can say, which the code's is by far.
Announceable == STORE_CAPACITY <= COUNT_MAX

\* The announced range lies in the ring, or behind it, and leaves out nothing
\* that was asked for and is still there.
RangeKept ==
    dpc \in Framing =>
        /\ d.asked <= next_seq /\ d.start + d.count <= next_seq
        /\ d.count > 0 => floor_seq <= d.start
        /\ Announceable =>
              \A q \in Nat : d.first <= q /\ store_oldest_seq < q /\ q < d.asked =>
                  d.start <= q /\ q < d.start + d.count

Asking == dpc \in {"get", "encode"} \/ (dpc \in Sending /\ d.then = "encode")

GetHonest ==
    /\ get.pc = "read" => dpc = "get"
    /\ Asking => get.seq = d.seq
    /\ Asking /\ get.pc = "done" => Honest(d.seq, get.out)

FrameHonest == dpc \in Framing => HonestIn(d.buf) /\ HonestIn(d.crc)

HonestInv ==
    /\ "rec_read" \notin Faults
    /\ Powered /\ EndsRead /\ RangeKept /\ Body /\ GetHonest /\ FrameHonest

\* The ring moves on under a dump.
Onward ==
    /\ pc \in Running /\ pc' \in Running
    /\ floor_seq' = floor_seq /\ next_seq \in Nat /\ next_seq' \in Nat
    /\ next_seq <= next_seq' /\ store_oldest_seq \in Nat /\ store_oldest_seq' \in Nat
    /\ store_oldest_seq <= store_oldest_seq'
    /\ \A q \in Nat : Recycled(q) => Recycled(q)'

\* The main thread leaves the main loop only when power goes.
LEMMA MainStays ==
    ASSUME MainNext, pc \in Running
    PROVE  pc' \in Running
    BY DEF MainNext, Running, Locked, Migrating, Mount, MountFails, Clear, ClearFails, InitFails,
        InitReturns, WriteFormat, WriteFloor, WriteMeta, MigrationWriteFails, AppendBegin,
        AppendWriteRec, AppendRecFails, AppendBump, AppendWriteMeta, AppendMetaFails

\* What the actors other than the dump thread leave alone.
LEMMA OthersKeep ==
    ASSUME Boot \/ Main \/ Callbacks \/ UNCHANGED dumpVars
    PROVE  /\ UNCHANGED <<dpc, d, get>>
           /\ pc \in Running => pc' \in Running
<1>1. CASE Boot
    BY <1>1 DEF Boot, PowerOn, Running, Locked, bleVars, dump
<1>2. CASE Main
    <2>1. get' = get
        BY <1>2 DEF Main, MainNext, Mount, MountFails, Clear, ClearFails, WriteFormat, WriteFloor,
            WriteMeta, MigrationWriteFails, AppendBegin, AppendWriteRec, AppendRecFails, AppendBump,
            AppendWriteMeta, AppendMetaFails
    <2> QED
        BY <1>2, <2>1, MainStays DEF Main, bleVars, dump
<1>3. CASE Callbacks
    BY <1>3 DEF Callbacks, connected, disconnected, ccc_changed, ctrl_write, storeVars, dump
<1>4. CASE UNCHANGED dumpVars
    BY <1>4 DEF dumpVars, storeVars, bleVars, dump
<1> QED
    BY <1>1, <1>2, <1>3, <1>4

\* The dump thread leaves the store alone, but for its store_get.
LEMMA ThreadKeeps ==
    ASSUME DumpThread
    PROVE  /\ UNCHANGED <<flash, fw, ram, pc>>
           /\ CallGet \/ ReturnGet \/ get' = get
           /\ UNCHANGED <<link, current_conn, notify_enabled>>
<1>1. CASE CallGet \/ ReturnGet
    BY <1>1 DEF CallGet, ReturnGet, GetCheck, GetRead, GetReadFails, bleVars, session
<1>2. CASE \/ Take \/ TakeUp \/ ReadOldest \/ ReadNext \/ Begin \/ PutRecord \/ PutCrc
           \/ NotifySent \/ NotifyNoMem \/ NotifyError \/ Retry
    BY <1>2 DEF Take, TakeUp, Check, CheckSubscribed, ReadConn, ReadFirst,
        ReadOldest, ReadNext, Begin, PutRecord, PutCrc,
        NotifySent, NotifyNoMem, NotifyError, Retry, storeVars, session
<1> QED
    BY <1>1, <1>2 DEF DumpThread

LEMMA PoweredStep ==
    ASSUME Powered, DumpInv, [DumpNext]_dumpVars
    PROVE  Powered'
<1>1. CASE Cut
    BY <1>1 DEF Cut, Idle, Powered, DumpInv, SessionOK
<1>2. CASE Boot \/ Main \/ UNCHANGED dumpVars
    <2>1. pc \in Running => pc' \in Running
        BY <1>2, OthersKeep
    <2>2. UNCHANGED <<link, dump_req, dpc>>
        BY <1>2 DEF Boot, Main, dumpVars, bleVars, session, request, dump
    <2> QED
        BY <2>1, <2>2 DEF Powered
<1>3. CASE Callbacks
    <2>1. pc' = pc /\ dpc' = dpc
        BY <1>3 DEF Callbacks, connected, disconnected, ccc_changed, ctrl_write, storeVars, dump
    <2>2. CASE \E m \in MTUs : connected(m)
        BY <2>1, <2>2 DEF connected, Powered
    <2>3. CASE disconnected \/ \E on \in BOOLEAN : ccc_changed(on)
        BY <2>1, <2>3 DEF disconnected, ccc_changed, Powered, request
    <2>4. CASE \E c \in Commands : ctrl_write(c)
        BY <2>1, <2>4 DEF ctrl_write, Powered, session
    <2> QED
        BY <1>3, <2>2, <2>3, <2>4 DEF Callbacks
<1>4. CASE DumpThread
    <2>1. pc' = pc /\ link' = link
        BY <1>4, ThreadKeeps
    <2>2. CASE Take
        BY <2>1, <2>2 DEF Take, Powered
    <2>3. CASE ~Take
        <3>1. dpc # "wait"
            BY <1>4, <2>3 DEF DumpThread, TakeUp, Check, CheckSubscribed, ReadConn, ReadFirst,
                ReadOldest, ReadNext, Begin, CallGet, ReturnGet,
                PutRecord, PutCrc, NotifySent, NotifyNoMem, NotifyError, Retry
        <3> QED
            BY <2>1, <3>1 DEF Powered
    <2> QED
        BY <2>2, <2>3
<1> QED
    BY <1>1, <1>2, <1>3, <1>4 DEF DumpNext

\* A dump that goes on sees the ring move on.
LEMMA OnwardIs ==
    ASSUME DumpInv, LogInv, Powered, [DumpNext]_dumpVars, ~Cut, dpc # "wait"
    PROVE  Onward
<1>1. pc \in Running
    BY DEF Powered
<1>2. pc' \in Running
    BY <1>1, OthersKeep, ThreadKeeps DEF DumpNext
<1>3. [StoreNext]_storeVars
    BY StoreSees
<1> QED
    BY <1>1, <1>2, <1>3, RingMoves DEF Onward

LEMMA EndsStep ==
    ASSUME DumpInv, DumpInv', LogInv, Powered, EndsRead, [DumpNext]_dumpVars
    PROVE  EndsRead'
<1> SUFFICES ASSUME dpc' = "range" PROVE EndsRead'
    BY DEF EndsRead
<1>t. d \in Locals /\ STORE_CAPACITY \in Nat \ {0} /\ None \notin Nat
    BY StoreAssumption DEF DumpInv, RunOK
<1>o. /\ next_seq \in Nat /\ floor_seq \in Nat /\ store_oldest_seq \in Nat
      /\ floor_seq <= store_oldest_seq /\ next_seq <= store_oldest_seq + STORE_CAPACITY
    <2>1. next_seq \in Nat /\ floor_seq \in Nat
        BY DEF DumpInv, StoreTypeOK
    <2> QED
        BY <1>t, <2>1 DEF store_oldest_seq
<1>n. ~Cut
    BY DEF Cut, Idle
<1>1. CASE TakeUp
    <2>1. /\ dpc = "first" /\ d' = [d EXCEPT !.first = dump_first_seq, !.asked = next_seq]
          /\ next_seq' = next_seq
        BY <1>1 DEF TakeUp, Check, CheckSubscribed, ReadConn, ReadFirst, storeVars, ram
    <2>2. d'.asked = next_seq /\ d'.oldest = None /\ d'.next = None
        BY <1>t, <2>1 DEF DumpInv, RunOK, Locals
    <2> QED
        BY <1>o, <2>1, <2>2 DEF EndsRead
<1>2. CASE ReadOldest
    <2>1. /\ dpc = "range" /\ d' = [d EXCEPT !.oldest = store_oldest_seq]
          /\ UNCHANGED <<next_seq, floor_seq, store_oldest_seq>>
        BY <1>2 DEF ReadOldest, storeVars, ram, store_oldest_seq
    <2>2. d'.oldest = store_oldest_seq /\ d'.asked = d.asked /\ d'.next = d.next /\ d.asked \in Nat
        BY <1>t, <2>1 DEF Locals
    <2>3. d.asked <= next_seq
        BY <2>1 DEF EndsRead
    <2>4. d.asked <= store_oldest_seq + STORE_CAPACITY
        BY <1>t, <1>o, <2>2, <2>3
    <2> HIDE DEF store_oldest_seq
    <2> QED
        BY <1>o, <2>1, <2>2, <2>3, <2>4 DEF EndsRead
<1>3. CASE ReadNext
    <2>1. /\ dpc = "range" /\ d' = [d EXCEPT !.next = next_seq]
          /\ UNCHANGED <<next_seq, floor_seq, store_oldest_seq>>
        BY <1>3 DEF ReadNext, storeVars, ram, store_oldest_seq, store_next_seq
    <2>2. d'.oldest = d.oldest /\ d'.asked = d.asked /\ d'.next = next_seq
        BY <1>t, <2>1 DEF Locals
    <2> QED
        BY <1>o, <2>1, <2>2 DEF EndsRead
<1>4. CASE Boot \/ Main \/ Callbacks \/ UNCHANGED dumpVars
    <2>1. dpc = "range" /\ d' = d
        BY <1>4, OthersKeep
    <2>2. Onward
        BY <1>n, <2>1, OnwardIs
    <2>3. /\ d.asked \in Nat
          /\ d.oldest # None => d.oldest \in Nat
          /\ d.next # None => d.next \in Nat
        BY <1>t, StoreAssumption DEF Locals
    <2> DEFINE o == store_oldest_seq
    <2>4. /\ o \in Nat /\ o' \in Nat /\ o <= o' /\ floor_seq' = floor_seq
          /\ next_seq \in Nat /\ next_seq' \in Nat /\ next_seq <= next_seq'
        BY <2>2 DEF Onward
    <2>5. /\ d.asked <= next_seq
          /\ d.oldest # None => /\ floor_seq <= d.oldest /\ d.oldest <= o
                                /\ d.asked <= d.oldest + STORE_CAPACITY
          /\ d.next # None => d.asked <= d.next /\ d.next <= next_seq
        BY <2>1 DEF EndsRead
    <2> HIDE DEF o
    <2>6. /\ d.asked <= next_seq'
          /\ d.oldest # None => /\ floor_seq' <= d.oldest /\ d.oldest <= o'
                                /\ d.asked <= d.oldest + STORE_CAPACITY
          /\ d.next # None => d.asked <= d.next /\ d.next <= next_seq'
        BY <2>3, <2>4, <2>5
    <2> QED
        BY <2>1, <2>6 DEF EndsRead, o
<1>5. CASE Take \/ Begin \/ CallGet \/ ReturnGet \/ PutRecord \/ PutCrc
           \/ NotifySent \/ NotifyNoMem \/ NotifyError \/ Retry
    <2>1. dpc' # "range"
        <3>1. CASE Take \/ Begin \/ CallGet \/ PutRecord \/ PutCrc \/ NotifyNoMem \/ NotifyError \/ Retry
            BY <3>1 DEF Take, Begin, CallGet, PutRecord, PutCrc, NotifyNoMem, NotifyError,
                Retry, Idle, Flush
        <3>2. CASE ReturnGet
            BY <3>2 DEF ReturnGet, bleVars, dump
        <3>3. CASE NotifySent
            BY <3>3 DEF NotifySent, Idle, DumpInv, RunOK, Sending
        <3> QED
            BY <1>5, <3>1, <3>2, <3>3
    <2> QED
        BY <2>1
<1> QED
    BY <1>n, <1>1, <1>2, <1>3, <1>4, <1>5 DEF DumpNext, DumpThread

\* A frame once begun keeps what it announced.
LEMMA FrameGoesOn ==
    ASSUME DumpInv, [DumpNext]_dumpVars, dpc' \in Framing, ~Begin
    PROVE  /\ dpc \in Framing /\ ~Cut
           /\ d'.first = d.first /\ d'.asked = d.asked /\ d'.start = d.start /\ d'.count = d.count
           /\ PutRecord \/ (d'.crc = d.crc /\ d'.seq = d.seq)
           /\ PutRecord \/ PutCrc \/ d'.buf \in {d.buf, <<>>}
<1>t. d \in Locals
    BY DEF DumpInv, RunOK
<1>n. ~Cut /\ ~NotifyError /\ ~Take /\ ~TakeUp
    BY DEF Cut, NotifyError, Take, TakeUp, Check, CheckSubscribed, ReadConn, ReadFirst, Idle, Framing
<1>r. ~ReadOldest /\ ~ReadNext
    BY DEF ReadOldest, ReadNext, Framing
<1>1. CASE Boot \/ Main \/ Callbacks \/ UNCHANGED dumpVars
    BY <1>n, <1>1, OthersKeep
<1>2. CASE CallGet \/ ReturnGet \/ NotifyNoMem \/ Retry
    BY <1>n, <1>2 DEF CallGet, ReturnGet, NotifyNoMem, Retry, Idle, Framing, bleVars, dump
<1>3. CASE PutRecord
    <2>1. dpc \in Framing
        BY <1>3 DEF PutRecord, Framing
    <2>2. \/ d' = [d EXCEPT !.then = "encode"]
          \/ d' = [Filled(d, Rec(d.seq, get.out)) EXCEPT !.seq = @ + 1]
        BY <1>3 DEF PutRecord, Flush
    <2>3. d'.first = d.first /\ d'.asked = d.asked /\ d'.start = d.start /\ d'.count = d.count
        BY <1>t, <2>2 DEF Filled, Locals
    <2> QED
        BY <1>n, <1>3, <2>1, <2>3
<1>4. CASE PutCrc
    <2>1. dpc \in Framing
        BY <1>4 DEF PutCrc, Framing
    <2>2. \/ d' = [d EXCEPT !.then = "crc"]
          \/ d' = [d EXCEPT !.buf = Append(@, Crc(d.crc)), !.fill = @ + SNTL_CRC_SIZE, !.then = "end"]
        BY <1>4 DEF PutCrc, Flush
    <2>3. /\ d'.first = d.first /\ d'.asked = d.asked /\ d'.start = d.start /\ d'.count = d.count
          /\ d'.crc = d.crc /\ d'.seq = d.seq
        BY <1>t, <2>2 DEF Locals
    <2> QED
        BY <1>n, <1>4, <2>1, <2>3
<1>5. CASE NotifySent
    <2>1. dpc \in Framing
        BY <1>5 DEF NotifySent, Framing
    <2>2. d' = [d EXCEPT !.buf = <<>>, !.fill = 0, !.then = None]
        BY <1>5 DEF NotifySent, Idle, Framing
    <2>3. /\ d'.first = d.first /\ d'.asked = d.asked /\ d'.start = d.start /\ d'.count = d.count
          /\ d'.crc = d.crc /\ d'.seq = d.seq /\ d'.buf = <<>>
        BY <1>t, <2>2 DEF Locals
    <2> QED
        BY <1>n, <2>1, <2>3
<1> QED
    BY <1>n, <1>r, <1>1, <1>2, <1>3, <1>4, <1>5 DEF DumpNext, DumpThread

\* The range that sntl_dump_range makes of what was read of the ring.
LEMMA RangeKeeps ==
    ASSUME NEW first \in Nat, NEW oldest \in Nat, NEW next \in Nat, NEW asked \in Nat,
           NEW C \in Nat, asked <= next, asked <= oldest + C
    PROVE  LET r == sntl_dump_range(first, oldest, next)
           IN  /\ r.start \in Nat /\ r.count \in Nat
               /\ r.start + r.count <= next
               /\ r.count > 0 => oldest <= r.start
               /\ C <= COUNT_MAX =>
                     \A q \in Nat : first <= q /\ oldest <= q /\ q < asked =>
                         r.start <= q /\ q < r.start + r.count
<1> DEFINE start == IF first > oldest THEN first ELSE oldest
           count == next - start
<1>0. COUNT_MAX \in Nat /\ start \in Nat /\ start >= first /\ start >= oldest
      /\ (start = first \/ start = oldest)
    BY FrameAssumption
<1> DEFINE r == sntl_dump_range(first, oldest, next)
<1>1. CASE start >= next
    <2>1. r.start = next /\ r.count = 0
        BY <1>1 DEF sntl_dump_range
    <2> HIDE DEF r, start
    <2>2. \A q \in Nat : ~(first <= q /\ oldest <= q /\ q < asked)
        BY <1>0, <1>1
    <2> QED
        BY <2>1, <2>2 DEF r
<1>2. CASE ~(start >= next)
    <2>1. r.start = start /\ r.count = IF count > COUNT_MAX THEN COUNT_MAX ELSE count
        BY <1>2 DEF sntl_dump_range
    <2> HIDE DEF r, start
    <2>2. count \in Nat /\ r.count \in Nat /\ r.count <= count /\ (r.count = count \/ r.count = COUNT_MAX)
        BY <1>0, <1>2, <2>1
    <2>3. r.start + r.count <= next
        BY <1>0, <2>1, <2>2
    <2>4. ASSUME C <= COUNT_MAX, NEW q \in Nat, first <= q, oldest <= q, q < asked
          PROVE  r.start <= q /\ q < r.start + r.count
        <3>1. start <= q
            BY <1>0, <2>4
        <3>2. CASE r.count = count
            BY <1>0, <2>1, <2>4, <3>1, <3>2
        <3>3. CASE r.count = COUNT_MAX
            BY <1>0, <2>1, <2>4, <3>1, <3>3
        <3> QED
            BY <2>2, <3>2, <3>3
    <2> QED
        BY <1>0, <2>1, <2>2, <2>3, <2>4 DEF r
<1> QED
    BY <1>1, <1>2

LEMMA RangeStep ==
    ASSUME DumpInv, DumpInv', LogInv, Powered, EndsRead, RangeKept,
           [DumpNext]_dumpVars
    PROVE  RangeKept'
<1> SUFFICES ASSUME dpc' \in Framing PROVE RangeKept'
    BY DEF RangeKept
<1>1. CASE Begin
    <2> DEFINE range == sntl_dump_range(d.first, d.oldest, d.next)
               o == store_oldest_seq
    <2>1. /\ dpc = "range" /\ d.oldest # None /\ d.next # None
          /\ d' = Filled([NoDump EXCEPT !.first = d.first, !.asked = d.asked,
                                 !.start = range.start, !.count = range.count,
                                 !.seq = range.start, !.chunk = ChunkFor(bt_gatt_get_mtu(d.conn))],
                         Header(range.count))
          /\ UNCHANGED <<next_seq, floor_seq, store_oldest_seq>>
        BY <1>1 DEF Begin, storeVars, ram, store_oldest_seq
    <2>2. d.first \in Nat /\ d.oldest \in Nat /\ d.next \in Nat /\ d.asked \in Nat
        BY <2>1, StoreAssumption DEF DumpInv, RunOK, Locals
    <2>3. STORE_CAPACITY \in Nat
        BY StoreAssumption
    <2>4. /\ d.asked <= next_seq /\ floor_seq <= d.oldest /\ d.oldest <= o
          /\ d.asked <= d.oldest + STORE_CAPACITY /\ d.asked <= d.next /\ d.next <= next_seq
        BY <2>1 DEF EndsRead
    <2>5. /\ range.start \in Nat /\ range.count \in Nat
          /\ range.start + range.count <= d.next
          /\ range.count > 0 => d.oldest <= range.start
          /\ Announceable =>
                \A q \in Nat : d.first <= q /\ d.oldest <= q /\ q < d.asked =>
                    range.start <= q /\ q < range.start + range.count
        BY <2>2, <2>3, <2>4, RangeKeeps DEF Announceable
    <2> HIDE DEF range
    <2>6. /\ d'.first = d.first /\ d'.asked = d.asked
          /\ d'.start = range.start /\ d'.count = range.count
        BY <2>1 DEF Filled, NoDump
    <2>7. next_seq \in Nat /\ floor_seq \in Nat
        BY DEF DumpInv, StoreTypeOK
    <2>8. o \in Nat
        BY <2>3, <2>7 DEF store_oldest_seq
    <2> HIDE DEF o
    <2>9. /\ range.start + range.count <= next_seq
          /\ range.count > 0 => floor_seq <= range.start
        BY <2>2, <2>4, <2>5, <2>7
    <2>10. ASSUME Announceable, NEW q \in Nat, d.first <= q, o < q, q < d.asked
           PROVE  range.start <= q /\ q < range.start + range.count
        <3>1. d.oldest <= q
            BY <2>2, <2>4, <2>8, <2>10
        <3> QED
            BY <2>5, <2>10, <3>1
    <2> QED
        BY <2>1, <2>4, <2>6, <2>9, <2>10 DEF RangeKept, o
<1>2. CASE ~Begin
    <2>1. /\ dpc \in Framing /\ ~Cut
          /\ d'.first = d.first /\ d'.asked = d.asked /\ d'.start = d.start /\ d'.count = d.count
        BY <1>2, FrameGoesOn
    <2>2. Onward
        BY <2>1, OnwardIs DEF Framing
    <2> DEFINE o == store_oldest_seq
    <2>3. /\ o \in Nat /\ o' \in Nat /\ o <= o' /\ floor_seq' = floor_seq
          /\ next_seq \in Nat /\ next_seq' \in Nat /\ next_seq <= next_seq'
        BY <2>2 DEF Onward
    <2>4. /\ d.asked \in Nat /\ d.start + d.count \in Nat
        <3>1. d.asked \in Nat /\ d.start \in Nat /\ d.count \in Nat
            BY LocalTypes DEF DumpInv, RunOK, Locals
        <3> QED
            BY <3>1
    <2>5. /\ d.asked <= next_seq /\ d.start + d.count <= next_seq
          /\ d.count > 0 => floor_seq <= d.start
          /\ Announceable =>
                \A q \in Nat : d.first <= q /\ o < q /\ q < d.asked =>
                    d.start <= q /\ q < d.start + d.count
        BY <2>1 DEF RangeKept
    <2> HIDE DEF o
    <2>6. d.asked <= next_seq' /\ d.start + d.count <= next_seq'
        BY <2>3, <2>4, <2>5
    <2>7. \A q \in Nat : o' < q => o < q
        BY <2>3
    <2> QED
        BY <2>1, <2>3, <2>5, <2>6, <2>7 DEF RangeKept, Announceable, o
<1> QED
    BY <1>1, <1>2

LEMMA BodyStep ==
    ASSUME DumpInv, Body, [DumpNext]_dumpVars
    PROVE  Body'
<1> SUFFICES ASSUME dpc' \in Framing PROVE BodyIs(d.crc)'
    BY DEF Body
<1>1. CASE Begin
    BY <1>1, BodyBegins
<1>2. CASE PutRecord
    BY <1>2, BodyPuts
<1>3. CASE ~Begin /\ ~PutRecord
    <2>1. /\ dpc \in Framing /\ d'.start = d.start /\ d'.count = d.count
          /\ d'.crc = d.crc /\ d'.seq = d.seq
        BY <1>3, FrameGoesOn
    <2> QED
        BY <2>1 DEF Body, BodyIs
<1> QED
    BY <1>1, <1>2, <1>3

\* What store_get has said of the record the thread is at stays true until
\* it is in the buffer, a flush and its retries in between included.
LEMMA AskingGoesOn ==
    ASSUME DumpInv, GetHonest, [DumpNext]_dumpVars, Asking', ~CallGet, ~ReturnGet
    PROVE  Asking /\ ~Cut /\ d'.seq = d.seq /\ get' = get
<1>t. d \in Locals /\ (dpc \in Sending => d.then \in {"encode", "crc", "end"})
    BY DEF DumpInv, RunOK
<1>n. ~Cut /\ ~NotifyError
    BY DEF Cut, NotifyError, Idle, Asking, Sending
<1>m. ~Take /\ ~TakeUp /\ ~Begin
    BY DEF Take, TakeUp, Check, CheckSubscribed, ReadConn, ReadFirst, Begin, Asking, Sending
<1>r. ~ReadOldest /\ ~ReadNext
    BY DEF ReadOldest, ReadNext, Asking, Sending
<1>1. CASE Boot \/ Main \/ Callbacks \/ UNCHANGED dumpVars
    BY <1>n, <1>1, OthersKeep DEF Asking
<1>2. CASE DumpThread
    <2>1. get' = get
        BY <1>2, ThreadKeeps
    <2>2. CASE NotifyNoMem \/ Retry
        BY <1>n, <2>1, <2>2 DEF NotifyNoMem, Retry, Idle, Asking, Sending
    <2>3. CASE PutRecord
        <3>1. dpc \in {"get", "encode"} /\ d' = [d EXCEPT !.then = "encode"]
            BY <2>3 DEF PutRecord, Flush, Asking, Sending
        <3> QED
            BY <1>n, <1>t, <2>1, <3>1 DEF Asking, Locals
    <2>4. CASE PutCrc
        <3>1. /\ dpc' = "notify"
              /\ \/ d' = [d EXCEPT !.then = "crc"]
                 \/ d' = [d EXCEPT !.buf = Append(@, Crc(d.crc)), !.fill = @ + SNTL_CRC_SIZE,
                                   !.then = "end"]
            BY <2>4 DEF PutCrc, Flush
        <3>2. d'.then # "encode"
            BY <1>t, <3>1 DEF Locals
        <3> QED
            BY <3>1, <3>2 DEF Asking
    <2>5. CASE NotifySent
        <3>1. /\ dpc = "notify" /\ dpc' = d.then
              /\ d' = [d EXCEPT !.buf = <<>>, !.fill = 0, !.then = None]
            BY <2>5 DEF NotifySent, Idle, Asking, Sending
        <3>2. d.then = "encode"
            BY <1>t, <3>1 DEF Asking, Sending
        <3> QED
            BY <1>n, <1>t, <2>1, <3>1, <3>2 DEF Asking, Sending, Locals
    <2> QED
        BY <1>n, <1>m, <1>r, <1>2, <2>2, <2>3, <2>4, <2>5 DEF DumpThread
<1> QED
    BY <1>n, <1>1, <1>2 DEF DumpNext

\* The thread leaves store_get only with its answer.
LEMMA ReadingKeeps ==
    ASSUME DumpInv, GetHonest, [DumpNext]_dumpVars, get'.pc = "read"
    PROVE  dpc' = "get"
<1>1. CASE CallGet
    BY <1>1 DEF CallGet
<1>2. CASE ReturnGet
    BY <1>2 DEF ReturnGet, GetRead, GetReadFails
<1>3. CASE Cut
    BY <1>3 DEF Cut, PowerLoss, ClearCut, RamLost, NoGet
<1>4. CASE Boot \/ Main \/ Callbacks \/ UNCHANGED dumpVars
    BY <1>4, OthersKeep DEF GetHonest
<1>5. CASE \/ Take \/ TakeUp \/ ReadOldest \/ ReadNext \/ Begin \/ PutRecord \/ PutCrc
           \/ NotifySent \/ NotifyNoMem \/ NotifyError \/ Retry
    <2>1. get' = get
        BY <1>5, ThreadKeeps DEF DumpThread, CallGet, ReturnGet, Take, TakeUp, Check, CheckSubscribed, ReadConn, ReadFirst,
            ReadOldest, ReadNext,
            Begin, PutRecord, PutCrc, NotifySent, NotifyNoMem, NotifyError, Retry, storeVars
    <2>2. dpc = "get" /\ get.pc = "read"
        BY <2>1 DEF GetHonest
    <2> QED
        BY <1>5, <2>2 DEF Take, TakeUp, Check, CheckSubscribed, ReadConn, ReadFirst,
            ReadOldest, ReadNext, Begin, PutRecord, PutCrc,
            NotifySent, NotifyNoMem, NotifyError, Retry
<1> QED
    BY <1>1, <1>2, <1>3, <1>4, <1>5 DEF DumpNext, DumpThread

\* The thread asks only for what was announced.
LEMMA AsksWithin ==
    ASSUME DumpInv, RangeKept, LogInv, dpc \in Framing, d.seq < d.start + d.count
    PROVE  d.seq \in Nat /\ floor_seq <= d.seq /\ d.seq < next_seq
<1>1. /\ d.seq \in Nat /\ d.start \in Nat /\ d.count \in Nat
      /\ d.start <= d.seq
    BY LocalTypes DEF DumpInv, RunOK
<1>2. next_seq \in Nat /\ floor_seq \in Nat
    BY DEF DumpInv, StoreTypeOK
<1>3. d.start + d.count <= next_seq /\ (d.count > 0 => floor_seq <= d.start)
    BY DEF RangeKept
<1> DEFINE a == d.seq
           b == d.start
           c == d.count
<1> HIDE DEF a, b, c
<1>4. /\ a \in Nat /\ b \in Nat /\ c \in Nat /\ b <= a /\ a < b + c
      /\ b + c <= next_seq /\ (c > 0 => floor_seq <= b)
    BY <1>1, <1>3 DEF a, b, c
<1>5. floor_seq <= a /\ a < next_seq
    BY <1>2, <1>4
<1> QED
    BY <1>1, <1>5 DEF a

LEMMA GetStep ==
    ASSUME "rec_read" \notin Faults, DumpInv, LogInv, Passed, Powered, RangeKept,
           GetHonest, [DumpNext]_dumpVars
    PROVE  GetHonest'
<1>1. (get.pc = "read" => dpc = "get")'
    BY ReadingKeeps
<1> SUFFICES ASSUME Asking' PROVE (get.seq = d.seq)' /\ (get.pc = "done" => Honest(d.seq, get.out))'
    BY <1>1 DEF GetHonest
<1>2. CASE CallGet
    <2>1. /\ dpc = "loop" /\ dpc \in Framing /\ d.seq < d.start + d.count /\ d' = d
          /\ pc \in Running /\ nvs_rec' = nvs_rec
          /\ get' = [pc  |-> IF d.seq >= next_seq \/ d.seq < store_oldest_seq THEN "done" ELSE "read",
                     seq |-> d.seq, out |-> None]
        BY <1>2 DEF CallGet, GetCheck, flash, Framing
    <2>2. d.seq \in Nat /\ floor_seq <= d.seq /\ d.seq < next_seq
        BY <2>1, AsksWithin
    <2>3. get'.seq = d.seq /\ get'.out = None
        BY <2>1
    <2>4. ASSUME get'.pc = "done" PROVE Recycled(d.seq)
        <3>1. d.seq >= next_seq \/ d.seq < store_oldest_seq
            BY <2>1, <2>4
        <3>2. next_seq \in Nat
            BY DEF DumpInv, StoreTypeOK
        <3>3. d.seq < store_oldest_seq
            BY <2>2, <3>1, <3>2
        <3> QED
            BY <2>1, <2>2, <3>3, RefusedIsRecycled
    <2> QED
        BY <2>1, <2>3, <2>4 DEF Honest, Recycled
<1>3. CASE ReturnGet
    <2>1. /\ dpc = "get" /\ dpc \in Framing /\ d' = d /\ pc \notin Locked /\ nvs_rec' = nvs_rec
          /\ get' = [pc |-> "done", seq |-> get.seq, out |-> ReadBack(get.seq)]
        BY <1>3 DEF ReturnGet, GetRead, GetReadFails, bleVars, dump, flash, Framing
    <2>2. get.seq = d.seq /\ d.seq < d.start + d.count /\ pc \in Running
        BY <2>1 DEF GetHonest, Asking, Powered, DumpInv, RunOK
    <2>3. d.seq \in Nat /\ floor_seq <= d.seq /\ d.seq < next_seq
        BY <2>1, <2>2, AsksWithin
    <2>4. get'.seq = d.seq /\ get'.out = ReadBack(d.seq)
        BY <2>1, <2>2
    <2>5. CASE ReadBack(d.seq) = None
        <3>1. Recycled(d.seq)
            BY <2>1, <2>2, <2>3, <2>5, UnreadIsRecycled
        <3> QED
            BY <2>1, <2>4, <2>5, <3>1 DEF Honest, Recycled
    <2>6. CASE ReadBack(d.seq) # None
        <3>1. ReadBack(d.seq).seq = d.seq
            BY <2>6 DEF ReadBack
        <3> QED
            BY <2>1, <2>4, <2>6, <3>1 DEF Honest
    <2> QED
        BY <2>5, <2>6
<1>4. CASE ~CallGet /\ ~ReturnGet
    <2>1. Asking /\ ~Cut /\ d'.seq = d.seq /\ get' = get
        BY <1>4, AskingGoesOn
    <2>2. Onward
        BY <2>1, OnwardIs DEF Asking, Sending
    <2>3. d.seq \in Nat
        BY LocalTypes DEF DumpInv, RunOK
    <2>4. Recycled(d.seq) => nvs_rec'[Slot(d.seq)] # None /\ nvs_rec'[Slot(d.seq)].seq > d.seq
        <3> DEFINE q == d.seq
        <3>1. ASSUME NEW x \in Nat, Recycled(x)
              PROVE nvs_rec'[Slot(x)] # None /\ nvs_rec'[Slot(x)].seq > x
            BY <2>2, <3>1 DEF Onward, Recycled
        <3> QED
            BY <2>3, <3>1
    <2>5. get.seq = d.seq /\ (get.pc = "done" => Honest(d.seq, get.out))
        BY <2>1 DEF GetHonest
    <2> QED
        BY <2>1, <2>4, <2>5 DEF Honest, Recycled
<1> QED
    BY <1>2, <1>3, <1>4

\* One item more, and it is honest too.
LEMMA HonestAppend ==
    ASSUME NEW S, NEW s \in Seq(S), NEW x \in S, HonestIn(s),
           x.t = "rec" => Honest(x.seq, x.out)
    PROVE  HonestIn(Append(s, x))
<1> DEFINE y == Append(s, x)
           n == Len(s)
<1>1. n \in Nat /\ Len(y) = n + 1 /\ y[n + 1] = x /\ \A i \in 1 .. n : y[i] = s[i]
    BY AppendProperties, LenProperties
<1> HIDE DEF y, n
<1>2. ASSUME NEW i \in 1 .. Len(y), y[i].t = "rec" PROVE Honest(y[i].seq, y[i].out)
    <2>1. CASE i \in 1 .. n
        BY <1>1, <1>2, <2>1 DEF HonestIn, n
    <2>2. CASE i = n + 1
        BY <1>1, <1>2, <2>2
    <2> QED
        BY <1>1, <2>1, <2>2
<1> QED
    BY <1>2 DEF HonestIn, y

\* What was honest stays so while the ring moves on.
LEMMA HonestOnward ==
    ASSUME Onward, NEW s \in Seq(Item), HonestIn(s), NEW i \in 1 .. Len(s), s[i].t = "rec"
    PROVE  IF s[i].out = None
           THEN nvs_rec'[Slot(s[i].seq)] # None /\ nvs_rec'[Slot(s[i].seq)].seq > s[i].seq
           ELSE s[i].out.seq = s[i].seq
<1>1. s[i].seq \in Nat
    <2>1. s[i] \in Item
        BY ElementOfSeq
    <2> QED
        BY <2>1 DEF Item, Plain
<1>2. ASSUME NEW q \in Nat, Recycled(q)
      PROVE  nvs_rec'[Slot(q)] # None /\ nvs_rec'[Slot(q)].seq > q
    BY <1>2 DEF Onward, Recycled
<1>3. Honest(s[i].seq, s[i].out)
    BY DEF HonestIn
<1> QED
    BY <1>1, <1>2, <1>3 DEF Honest

LEMMA FrameStep ==
    ASSUME DumpInv, DumpInv', LogInv, Powered, GetHonest, FrameHonest, [DumpNext]_dumpVars
    PROVE  FrameHonest'
<1> SUFFICES ASSUME dpc' \in Framing PROVE HonestIn(d.buf)' /\ HonestIn(d.crc)'
    BY DEF FrameHonest
<1>t. /\ d.buf \in Seq(Item) /\ d.crc \in Seq(Plain) /\ d.crc \in Seq(Item) /\ d.seq \in Nat
      /\ Plain \subseteq Item
    <2>1. d.buf \in Seq(Item) /\ d.crc \in Seq(Plain) /\ d.seq \in Nat
        BY DEF DumpInv, RunOK, Locals
    <2>2. Plain \subseteq Item
        BY ItemTypes
    <2> QED
        BY <2>1, <2>2
<1>1. CASE Begin
    <2> DEFINE range == sntl_dump_range(d.first, d.oldest, d.next)
               h == Header(range.count)
    <2>1. d' = Filled([NoDump EXCEPT !.first = d.first, !.asked = d.asked,
                                     !.start = range.start, !.count = range.count,
                                     !.seq = range.start,
                                     !.chunk = ChunkFor(bt_gatt_get_mtu(d.conn))], h)
        BY <1>1 DEF Begin
    <2> HIDE DEF h, range
    <2>2. d'.buf = Append(<<>>, h) /\ d'.crc = Append(<<>>, h)
        BY <2>1 DEF Filled, NoDump
    <2>3. Append(<<>>, h) = <<h>> /\ h.t = "header"
        BY DEF h, Header
    <2>4. \A i \in 1 .. Len(<<h>>) : <<h>>[i].t = "header"
        BY <2>3
    <2> QED
        BY <2>2, <2>3, <2>4 DEF HonestIn
<1>2. CASE PutRecord /\ dpc' = "loop"
    <2> DEFINE x == Rec(d.seq, get.out)
    <2>1. /\ dpc \in {"get", "encode"} /\ get.pc = "done" /\ nvs_rec' = nvs_rec
          /\ d' = [Filled(d, x) EXCEPT !.seq = @ + 1]
        <3>1. /\ dpc \in {"get", "encode"} /\ (dpc = "get" => get.pc = "done") /\ nvs_rec' = nvs_rec
              /\ d' = [Filled(d, x) EXCEPT !.seq = @ + 1]
            BY <1>2 DEF PutRecord, Flush, storeVars, flash
        <3>2. get.pc = "done"
            BY <3>1 DEF GetHonest, DumpInv, StoreTypeOK
        <3> QED
            BY <3>1, <3>2
    <2>2. d'.buf = Append(d.buf, x) /\ d'.crc = Append(d.crc, x)
        BY <2>1 DEF Filled, DumpInv, RunOK, Locals
    <2>3. x \in Plain /\ x.t = "rec" /\ x.seq = d.seq /\ x.out = get.out
        <3>1. x \in Plain
            BY <1>t, ItemTypes DEF DumpInv, StoreTypeOK
        <3> QED
            BY <3>1 DEF Rec
    <2>4. Honest(x.seq, x.out)
        BY <2>1, <2>3 DEF GetHonest, Asking
    <2> HIDE DEF x
    <2>5. HonestIn(d.buf) /\ HonestIn(d.crc)
        BY <2>1 DEF FrameHonest, Framing
    <2>6. HonestIn(Append(d.buf, x)) /\ HonestIn(Append(d.crc, x))
        BY <1>t, <2>3, <2>4, <2>5, HonestAppend
    <2> QED
        BY <2>1, <2>2, <2>6 DEF HonestIn, Honest, Recycled
<1>3. CASE PutCrc
    <2>1. /\ dpc \in Framing /\ nvs_rec' = nvs_rec
          /\ \/ d' = [d EXCEPT !.then = "crc"]
             \/ d' = [d EXCEPT !.buf = Append(@, Crc(d.crc)), !.fill = @ + SNTL_CRC_SIZE,
                               !.then = "end"]
        BY <1>3 DEF PutCrc, Flush, Framing, storeVars, flash
    <2>2. d'.crc = d.crc /\ d'.buf \in {d.buf, Append(d.buf, Crc(d.crc))}
        BY <2>1 DEF DumpInv, RunOK, Locals
    <2>3. HonestIn(d.buf) /\ HonestIn(d.crc)
        BY <2>1 DEF FrameHonest
    <2>4. HonestIn(Append(d.buf, Crc(d.crc)))
        <3> DEFINE x == Crc(d.crc)
        <3>1. x \in Item /\ x.t = "crc"
            BY <1>t, ItemTypes DEF Crc
        <3> HIDE DEF x
        <3>2. HonestIn(Append(d.buf, x))
            BY <1>t, <2>3, <3>1, HonestAppend
        <3> QED
            BY <3>2 DEF x
    <2> QED
        BY <2>1, <2>2, <2>3, <2>4 DEF HonestIn, Honest, Recycled
<1>4. CASE ~Begin /\ ~PutCrc /\ ~(PutRecord /\ dpc' = "loop")
    <2>1. /\ dpc \in Framing /\ ~Cut /\ d'.crc = d.crc /\ d'.buf \in {d.buf, <<>>}
        <3>1. CASE PutRecord
            <4>1. d' = [d EXCEPT !.then = "encode"]
                BY <1>4, <3>1 DEF PutRecord, Flush
            <4>2. d'.crc = d.crc /\ d'.buf = d.buf
                BY <4>1 DEF DumpInv, RunOK, Locals
            <4> QED
                BY <1>4, <4>2, FrameGoesOn
        <3>2. CASE ~PutRecord
            BY <1>4, <3>2, FrameGoesOn
        <3> QED
            BY <3>1, <3>2
    <2>2. Onward
        BY <2>1, OnwardIs DEF Framing
    <2>3. HonestIn(d.buf) /\ HonestIn(d.crc)
        BY <2>1 DEF FrameHonest
    <2> DEFINE Still(s) ==
                   \A i \in 1 .. Len(s) : s[i].t = "rec" =>
                       IF s[i].out = None
                       THEN nvs_rec'[Slot(s[i].seq)] # None /\ nvs_rec'[Slot(s[i].seq)].seq > s[i].seq
                       ELSE s[i].out.seq = s[i].seq
    <2>4. Still(d.buf) /\ Still(d.crc)
        BY <1>t, <2>2, <2>3, HonestOnward
    <2>5. Still(<<>>)
        OBVIOUS
    <2>6. Still(d'.buf) /\ Still(d'.crc)
        BY <2>1, <2>4, <2>5
    <2> QED
        BY <2>6 DEF HonestIn, Honest, Recycled
<1> QED
    BY <1>1, <1>2, <1>3, <1>4
-----------------------------------------------------------------------------
LEMMA HonestBegins == DumpInit /\ "rec_read" \notin Faults => HonestInv
<1> SUFFICES ASSUME DumpInit, "rec_read" \notin Faults PROVE HonestInv
    OBVIOUS
<1>1. dpc = "wait" /\ get.pc = "done" /\ ~link.up /\ dump_req = 0
    BY DEF DumpInit, StoreInit, NoGet
<1> QED
    BY <1>1 DEF HonestInv, Powered, EndsRead, RangeKept, Body, GetHonest, FrameHonest, Asking,
        Framing, Sending

LEMMA HonestStep ==
    ASSUME DumpInv, DumpInv', LogInv, Passed, HonestInv, [DumpNext]_dumpVars
    PROVE  HonestInv'
    BY PoweredStep, EndsStep, RangeStep, BodyStep, GetStep, FrameStep DEF HonestInv

LEMMA HonestAlways ==
    DumpSpec /\ Benign /\ "rec_read" \notin Faults => [](DumpInv /\ LogInv /\ HonestInv)
<1>1. DumpInv /\ DumpInv' /\ LogInv /\ Passed /\ HonestInv /\ [DumpNext]_dumpVars => HonestInv'
    BY HonestStep
<1> QED
    BY <1>1, HonestBegins, DumpAlways, DumpImplementsStore, PassedAlways, PTL DEF DumpSpec

\* A record goes out under its own number, and a fault record only in place
\* of one that a newer record has really overwritten, however appends fall
\* between the unlocked range check of store_get, its read under the mutex,
\* the flush that makes room and the retries of that.  The store may fail to
\* mount, to read FORMAT and to write records and lose power anywhere but
\* inside a format change: after its other failures it claims records it does
\* not hold, and an nvs_read that fails on a record that is there also comes
\* out as a fault record.
THEOREM RecordsHonestAlways ==
    DumpSpec /\ Benign /\ "rec_read" \notin Faults => []RecordsHonest
<1>1. DumpInv /\ HonestInv => RecordsHonest
    <2> SUFFICES ASSUME DumpInv, HonestInv PROVE RecordsHonest
        OBVIOUS
    <2>1. CASE dpc \in Framing
        BY <2>1 DEF HonestInv, FrameHonest, HonestIn, Honest, Recycled, RecordsHonest
    <2>2. CASE dpc \notin Framing
        BY <2>2 DEF DumpInv, RunOK, RecordsHonest
    <2> QED
        BY <2>1, <2>2
<1> QED
    BY <1>1, HonestAlways, PTL

LEMMA CompleteShows ==
    ASSUME DumpInv, LogInv, HonestInv, Announceable
    PROVE  FrameComplete
<1> SUFFICES ASSUME dpc = "notify", d.then = "end", NEW q \in 0 .. MaxSeq,
                    d.first <= q, store_oldest_seq < q, q < d.asked
             PROVE  \E i \in 1 .. Len(d.crc) :
                        d.crc[i].t = "rec" /\ d.crc[i].seq = q /\ d.crc[i].out # None
    BY DEF FrameComplete
<1>1. dpc \in Framing /\ dpc \in Sending /\ pc \in Running /\ q \in Nat
    BY StoreAssumption DEF Framing, Sending, HonestInv, Powered
<1>2. /\ d.seq = d.start + d.count /\ d.start \in Nat /\ d.count \in Nat /\ d.seq \in Nat
      /\ d.crc \in Seq(Plain) /\ d.asked \in Nat
    <2>1. d \in Locals /\ d.seq = d.start + d.count
        BY <1>1 DEF DumpInv, RunOK
    <2> QED
        BY <2>1, LocalTypes DEF Locals
<1>3. d.start <= q /\ q < d.start + d.count
    BY <1>1 DEF HonestInv, RangeKept
<1>4. /\ Len(d.crc) = 1 + (d.seq - d.start)
      /\ \A j \in 2 .. Len(d.crc) : d.crc[j].t = "rec" /\ d.crc[j].seq = d.start + (j - 2)
    BY <1>1 DEF HonestInv, Body, BodyIs
<1> DEFINE j == q - d.start + 2
<1>5. j \in 2 .. Len(d.crc) /\ j \in 1 .. Len(d.crc) /\ d.start + (j - 2) = q
    <2> DEFINE a == d.start
               c == d.count
    <2>1. /\ a \in Nat /\ c \in Nat /\ Len(d.crc) = 1 + ((a + c) - a) /\ a <= q /\ q < a + c
          /\ j = q - a + 2
        BY <1>2, <1>3, <1>4
    <2> HIDE DEF a, c, j
    <2>2. j \in 2 .. Len(d.crc) /\ j \in 1 .. Len(d.crc) /\ a + (j - 2) = q
        BY <1>1, <2>1
    <2> QED
        BY <2>2 DEF a
<1> HIDE DEF j
<1>6. d.crc[j].t = "rec" /\ d.crc[j].seq = q
    BY <1>4, <1>5
<1>7. Honest(q, d.crc[j].out)
    BY <1>1, <1>5, <1>6 DEF HonestInv, FrameHonest, HonestIn
<1>8. q < next_seq
    <2>1. d.asked <= next_seq /\ next_seq \in Nat
        BY <1>1 DEF HonestInv, RangeKept, DumpInv, StoreTypeOK
    <2> QED
        BY <1>1, <1>2, <2>1
<1>9. ~Recycled(q)
    BY <1>1, <1>8, HeldIsNotRecycled
<1> QED
    BY <1>5, <1>6, <1>7, <1>9 DEF Honest

\* A dump that is sent to its end holds nothing back of what was asked for,
\* was stored when its command was taken up and is still in the ring, but for
\* the oldest record: although dump_run reads the two ends of the ring one
\* after the other in either order, announces its range before it reads the
\* records, and appends go on throughout.  The store fails as little as above.
THEOREM FrameCompleteAlways ==
    DumpSpec /\ Benign /\ "rec_read" \notin Faults /\ Announceable => []FrameComplete
<1>1. DumpInv /\ LogInv /\ HonestInv /\ Announceable => FrameComplete
    BY CompleteShows
<1>2. Announceable /\ [DumpNext]_dumpVars => Announceable'
    BY DEF Announceable
<1> QED
    BY <1>1, <1>2, HonestAlways, PTL DEF DumpSpec
=============================================================================
