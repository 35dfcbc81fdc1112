------------------------------- MODULE Frame -------------------------------
(***************************************************************************)
(* The dump frame of src/frame.c: sizes of its parts, the bytes of a       *)
(* record and of a command, and the range of records a dump answers with.  *)
(***************************************************************************)
EXTENDS Integers, Sequences

CONSTANT COUNT_MAX   \* UINT16_MAX: recordCount is a u16 on the wire

ASSUME FrameAssumption == COUNT_MAX \in Nat

SNTL_HEADER_SIZE == 16
SNTL_RECORD_SIZE == 24
SNTL_CRC_SIZE    == 2

sntl_frame_size(record_count) ==
    SNTL_HEADER_SIZE + record_count * SNTL_RECORD_SIZE + SNTL_CRC_SIZE

Byte == 256

\* The two and the four low bytes of x, low end first; of a negative x, in
\* two's complement.
Le2(x) == <<x % Byte, (x \div Byte) % Byte>>
Le4(x) == Le2(x) \o Le2(x \div (Byte * Byte))

\* The number that four bytes stand for.
FromLe(b) == b[1] + Byte * (b[2] + Byte * (b[3] + Byte * b[4]))

\* Defect: temperature goes out without the high byte that holds its sign.
Bug_EncodeTempLow(rec) ==
    Le4(rec.seq) \o Le4(rec.ts) \o <<rec.headcount, rec.occ_s>>
        \o Le2(rec.dwell_s) \o <<rec.flags, rec.batt>>
        \o Le2(rec.pm25) \o Le2(rec.pm10)
        \o <<rec.temp % Byte, 0>> \o Le2(rec.rh) \o Le2(rec.voc)

sntl_encode_record(rec) ==
    Le4(rec.seq) \o Le4(rec.ts) \o <<rec.headcount, rec.occ_s>>
        \o Le2(rec.dwell_s) \o <<rec.flags, rec.batt>>
        \o Le2(rec.pm25) \o Le2(rec.pm10)
        \o Le2(rec.temp) \o Le2(rec.rh) \o Le2(rec.voc)

SNTL_CMD_DUMP == 1
SNTL_CMD_LEN  == 5

\* The first_seq of a dump command, or <<>> if the write is not one.
sntl_parse_cmd(buf) ==
    IF Len(buf) # SNTL_CMD_LEN \/ buf[1] # SNTL_CMD_DUMP THEN <<>>
    ELSE <<FromLe(Tail(buf))>>

\* Defect: first_seq is taken for the last record the central has.
Bug_RangeAfterFirst(first_seq, oldest_seq, next_seq) ==
    LET start == IF first_seq > oldest_seq THEN first_seq + 1 ELSE oldest_seq
        count == next_seq - start
    IN  IF start >= next_seq THEN [start |-> next_seq, count |-> 0]
        ELSE [start |-> start,
              count |-> IF count > COUNT_MAX THEN COUNT_MAX ELSE count]

sntl_dump_range(first_seq, oldest_seq, next_seq) ==
    LET start == IF first_seq > oldest_seq THEN first_seq ELSE oldest_seq
        count == next_seq - start
    IN  IF start >= next_seq THEN [start |-> next_seq, count |-> 0]
        ELSE [start |-> start,
              count |-> IF count > COUNT_MAX THEN COUNT_MAX ELSE count]
=============================================================================
