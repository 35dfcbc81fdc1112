------------------------------ MODULE BleDump ------------------------------
(***************************************************************************)
(* A dump over BLE, src/ble.c, running against the ring of src/store.c.    *)
(*                                                                         *)
(* Three actors: the Bluetooth callbacks (connected, disconnected,         *)
(* ccc_changed, ctrl_write), the dump thread, and the main loop that goes  *)
(* on appending.  The callbacks run at a cooperative priority, so the dump *)
(* thread sees each of them as one step; the dump thread itself can lose   *)
(* the CPU between any two of its reads of shared state.                   *)
(***************************************************************************)
EXTENDS Store, Frame, Sequences

CONSTANTS
    MTUs,        \* ATT MTUs a central may have negotiated
    MaxSession,  \* bound: connections
    MaxRequest   \* bound: dump commands per connection

BUF_SIZE == 244     \* sizeof(buf) in dump_run

ASSUME DumpAssumption ==
    /\ MTUs \subseteq 23 .. 517
    /\ MaxSession \in Nat
    /\ MaxRequest \in Nat

VARIABLES
    link,           \* [up, mtu, session]: the connection as the stack has it
    current_conn, notify_enabled,
    dump_req,       \* the semaphore, 0 or 1
    dump_first_seq,
    dpc,            \* the dump thread
    d,              \* the locals of dump_run; asked is history: next_seq
                    \* when the command was taken up
    requests,       \* history: commands written in this session
    wanted,         \* history: first_seq of the last valid command
    rx,             \* history: what this session's central has received
    answered        \* history: first_seq of the last dump sent to its end

session  == <<link, current_conn, notify_enabled>>
request  == <<dump_req, dump_first_seq, requests, wanted>>
dump     == <<dpc, d>>
central  == <<rx, answered>>
bleVars  == <<session, request, dump, central>>
dumpVars == <<storeVars, bleVars>>

\* What goes on air: a header, records (out = None is the fault record that
\* stands for a lost one) and a CRC over everything since the header.
Header(n)   == [t |-> "header", n |-> n]
Rec(q, out) == [t |-> "rec", seq |-> q, out |-> out]
Crc(of)     == [t |-> "crc", of |-> of]

Size(item) == CASE item.t = "header" -> SNTL_HEADER_SIZE
                [] item.t = "rec"    -> SNTL_RECORD_SIZE
                [] item.t = "crc"    -> SNTL_CRC_SIZE

NoDump == [conn |-> FALSE, first |-> 0, asked |-> 0, oldest |-> None, next |-> None, start |-> 0, count |-> 0,
           chunk |-> 0, seq |-> 0, fill |-> 0, buf |-> <<>>, crc |-> <<>>,
           then |-> None]

DumpInit ==
    /\ StoreInit
    /\ link = [up |-> FALSE, mtu |-> 0, session |-> 0]
    /\ current_conn = FALSE /\ notify_enabled = FALSE
    /\ dump_req = 0 /\ dump_first_seq = 0 /\ requests = 0 /\ wanted = 0
    /\ dpc = "wait" /\ d = NoDump
    /\ rx = <<>> /\ answered = None
-----------------------------------------------------------------------------
(* Bluetooth callbacks *)

\* A connection attempt that failed is only printed; nothing changes.
connected(m) ==
    /\ pc \in Running
    /\ ~link.up
    /\ link.session < MaxSession
    /\ link' = [up |-> TRUE, mtu |-> m, session |-> link.session + 1]
    /\ current_conn' = TRUE
    /\ requests' = 0
    /\ rx' = <<>> /\ answered' = None
    /\ UNCHANGED <<storeVars, notify_enabled, dump_req, dump_first_seq, wanted, dump>>

disconnected ==
    /\ link.up
    /\ link' = [link EXCEPT !.up = FALSE, !.mtu = 0]
    /\ notify_enabled' = FALSE
    /\ current_conn' = FALSE
    /\ UNCHANGED <<storeVars, request, dump, central>>

ccc_changed(on) ==
    /\ link.up
    /\ notify_enabled' = on
    /\ UNCHANGED <<storeVars, link, current_conn, request, dump, central>>

\* What a central may write: a dump command for each first_seq, with what it
\* means, and writes that are too long or have another opcode; one at an
\* offset is refused like these.
Commands ==
    {[first |-> q, buf |-> <<SNTL_CMD_DUMP>> \o Le4(q)] : q \in 0 .. MaxSeq}
        \union {[first |-> None, buf |-> <<SNTL_CMD_DUMP, 0, 0, 0, 0, 0>>],
                [first |-> None, buf |-> <<SNTL_CMD_DUMP + 1, 0, 0, 0, 0>>]}

\* Defect: the semaphore counts requests without its limit of one.
Bug_RequestsPileUp(c) ==
    LET first == sntl_parse_cmd(c.buf)
    IN  /\ link.up
        /\ requests < MaxRequest
        /\ requests' = requests + 1
        /\ first # <<>>
        /\ dump_first_seq' = first[1]
        /\ dump_req' = dump_req + 1
        /\ wanted' = c.first
        /\ UNCHANGED <<storeVars, session, dump, central>>

ctrl_write(c) ==
    LET first == sntl_parse_cmd(c.buf)
    IN  /\ link.up
        /\ requests < MaxRequest
        /\ requests' = requests + 1
        /\ IF first = <<>>
           THEN UNCHANGED <<dump_first_seq, dump_req>>
           ELSE dump_first_seq' = first[1] /\ dump_req' = 1
        /\ wanted' = IF c.first = None THEN wanted ELSE c.first
        /\ UNCHANGED <<storeVars, session, dump, central>>
-----------------------------------------------------------------------------
(* dump_thread and dump_run *)

Take ==
    /\ dpc = "wait"
    /\ dump_req = 1
    /\ dump_req' = 0
    /\ dpc' = "taken"
    /\ UNCHANGED <<storeVars, session, dump_first_seq, requests, wanted, d, central>>

\* The test of current_conn && notify_enabled, one read after the other.
Check ==
    /\ dpc = "taken"
    /\ dpc' = IF current_conn THEN "subscribed" ELSE "wait"
    /\ UNCHANGED <<storeVars, session, request, d, central>>

CheckSubscribed ==
    /\ dpc = "subscribed"
    /\ dpc' = IF notify_enabled THEN "args" ELSE "wait"
    /\ UNCHANGED <<storeVars, session, request, d, central>>

\* The arguments of dump_run.  current_conn is not volatile: the build may
\* use the value it has just tested, or read it again and find NULL.  The
\* other order of the two arguments leads to no other state.
ReadConn ==
    /\ dpc = "args"
    /\ dpc' = "first"
    /\ \E c \in {TRUE, current_conn} : d' = [NoDump EXCEPT !.conn = c]
    /\ UNCHANGED <<storeVars, session, request, central>>

ReadFirst ==
    /\ dpc = "first"
    /\ dpc' = "range"
    /\ d' = [d EXCEPT !.first = dump_first_seq, !.asked = next_seq]
    /\ UNCHANGED <<storeVars, session, request, central>>

\* The two ends of the ring are read one after the other and C leaves the
\* order open; the main loop can append in between.
ReadOldest ==
    /\ dpc = "range"
    /\ d.oldest = None
    /\ d' = [d EXCEPT !.oldest = store_oldest_seq]
    /\ UNCHANGED <<storeVars, session, request, dpc, central>>

ReadNext ==
    /\ dpc = "range"
    /\ d.next = None
    /\ d' = [d EXCEPT !.next = store_next_seq]
    /\ UNCHANGED <<storeVars, session, request, dpc, central>>

\* Defect: no room is left for the ATT header.
Bug_ChunkIsMtu(mtu) == IF mtu > BUF_SIZE THEN BUF_SIZE ELSE mtu

ChunkFor(mtu) ==
    LET chunk == IF mtu > 3 THEN mtu - 3 ELSE 20
    IN  IF chunk > BUF_SIZE THEN BUF_SIZE ELSE chunk

\* Put one item into the buffer.
Filled(s, item) ==
    [s EXCEPT !.buf = Append(@, item), !.fill = @ + Size(item),
              !.crc = Append(@, item)]

\* The stack's: the MTU of a connection that is up, and 0 for one that is
\* gone; called with NULL it finds no connection either.
bt_gatt_get_mtu(conn) == IF conn THEN link.mtu ELSE 0

Begin ==
    LET range == sntl_dump_range(d.first, d.oldest, d.next)
    IN  /\ dpc = "range"
        /\ d.oldest # None /\ d.next # None
        /\ d' = Filled([NoDump EXCEPT !.first = d.first, !.asked = d.asked,
                                      !.start = range.start, !.count = range.count,
                                      !.seq = range.start,
                                      !.chunk = ChunkFor(bt_gatt_get_mtu(d.conn))],
                       Header(range.count))
        /\ dpc' = "loop"
        /\ UNCHANGED <<storeVars, session, request, central>>

\* The head of the loop calls store_get, or falls through to the CRC.
CallGet ==
    /\ dpc = "loop"
    /\ d.seq < d.start + d.count
    /\ GetCheck(d.seq)
    /\ dpc' = "get"
    /\ UNCHANGED <<session, request, d, central>>

ReturnGet ==
    /\ dpc = "get"
    /\ GetRead \/ GetReadFails
    /\ UNCHANGED bleVars

\* dump_run returns; the thread goes back to the semaphore.
Idle ==
    /\ dpc' = "wait"
    /\ d' = NoDump

\* Start sending the buffer, to go on at label next.
Flush(next) ==
    /\ dpc' = "notify"
    /\ d' = [d EXCEPT !.then = next]

\* Defect: a recycled record is left out instead of replaced.
Bug_LostRecordSkipped ==
    /\ dpc \in {"get", "encode"}
    /\ dpc = "get" => get.pc = "done"
    /\ IF dpc = "get" /\ d.fill + SNTL_RECORD_SIZE > d.chunk
       THEN Flush("encode")
       ELSE /\ d' = [(IF get.out = None THEN d ELSE Filled(d, Rec(d.seq, get.out)))
                        EXCEPT !.seq = @ + 1]
            /\ dpc' = "loop"
    /\ UNCHANGED <<storeVars, session, request, central>>

\* The rest of the loop body: make room, then encode the record or, when
\* store_get found nothing, a fault record in its place.
PutRecord ==
    /\ dpc \in {"get", "encode"}
    /\ dpc = "get" => get.pc = "done"
    /\ IF dpc = "get" /\ d.fill + SNTL_RECORD_SIZE > d.chunk
       THEN Flush("encode")
       ELSE /\ d' = [Filled(d, Rec(d.seq, get.out)) EXCEPT !.seq = @ + 1]
            /\ dpc' = "loop"
    /\ UNCHANGED <<storeVars, session, request, central>>

\* Defect: the CRC is put into the buffer whether it fits or not.
Bug_CrcOverfills ==
    /\ \/ dpc = "loop" /\ d.seq = d.start + d.count
       \/ dpc = "crc"
    /\ d' = [d EXCEPT !.buf = Append(@, Crc(d.crc)), !.fill = @ + SNTL_CRC_SIZE,
                      !.then = "end"]
    /\ dpc' = "notify"
    /\ UNCHANGED <<storeVars, session, request, central>>

\* After the loop: make room, add the CRC, send what is left.
PutCrc ==
    /\ \/ dpc = "loop" /\ d.seq = d.start + d.count
       \/ dpc = "crc"
    /\ IF dpc = "loop" /\ d.fill + SNTL_CRC_SIZE > d.chunk
       THEN Flush("crc")
       ELSE /\ d' = [d EXCEPT !.buf = Append(@, Crc(d.crc)),
                              !.fill = @ + SNTL_CRC_SIZE, !.then = "end"]
            /\ dpc' = "notify"
    /\ UNCHANGED <<storeVars, session, request, central>>
-----------------------------------------------------------------------------
(* notify_chunk.  bt_gatt_notify is the stack's: it refuses a link that is *)
(* gone or not subscribed, and answers -ENOMEM both when it is out of      *)
(* buffers and when the value does not fit the MTU.  A NULL connection     *)
(* stands for every peer that is subscribed, which comes to the same.      *)

Sendable == link.up /\ notify_enabled

\* Defect: the end of a dump clears the semaphore, commands that came during
\* it included.
Bug_SentClearsRequest ==
    /\ dpc = "notify"
    /\ Sendable
    /\ d.fill + 3 <= link.mtu
    /\ rx' = rx \o d.buf
    /\ IF d.then = "end"
       THEN Idle /\ answered' = d.first /\ dump_req' = 0
       ELSE /\ dpc' = d.then
            /\ d' = [d EXCEPT !.buf = <<>>, !.fill = 0, !.then = None]
            /\ UNCHANGED <<answered, dump_req>>
    /\ UNCHANGED <<storeVars, session, dump_first_seq, requests, wanted>>

NotifySent ==
    /\ dpc = "notify"
    /\ Sendable
    /\ d.fill + 3 <= link.mtu
    /\ rx' = rx \o d.buf
    /\ IF d.then = "end"
       THEN Idle /\ answered' = d.first
       ELSE /\ dpc' = d.then
            /\ d' = [d EXCEPT !.buf = <<>>, !.fill = 0, !.then = None]
            /\ UNCHANGED answered
    /\ UNCHANGED <<storeVars, session, request>>

NotifyNoMem ==
    /\ dpc = "notify"
    /\ Sendable
    /\ dpc' = "sleep"
    /\ UNCHANGED <<storeVars, session, request, d, central>>

NotifyError ==
    /\ dpc = "notify"
    /\ ~Sendable
    /\ Idle
    /\ UNCHANGED <<storeVars, session, request, central>>

\* k_msleep(2), then look whether anyone is connected, and try again.
Retry ==
    /\ dpc = "sleep"
    /\ IF current_conn THEN dpc' = "notify" /\ UNCHANGED d ELSE Idle
    /\ UNCHANGED <<storeVars, session, request, central>>
-----------------------------------------------------------------------------
\* Power goes: nothing of a session or a dump survives.
Cut ==
    /\ PowerLoss \/ ClearCut
    /\ link' = [link EXCEPT !.up = FALSE, !.mtu = 0]
    /\ current_conn' = FALSE /\ notify_enabled' = FALSE
    /\ dump_req' = 0 /\ dump_first_seq' = 0 /\ requests' = 0 /\ wanted' = 0
    /\ Idle
    /\ rx' = <<>> /\ answered' = None

Boot == (\E f \in Formats : PowerOn(f)) /\ UNCHANGED bleVars

Main == MainNext /\ UNCHANGED bleVars

Callbacks ==
    \/ \E m \in MTUs : connected(m)
    \/ disconnected
    \/ \E on \in BOOLEAN : ccc_changed(on)
    \/ \E c \in Commands : ctrl_write(c)

\* From the semaphore to the call of dump_run.
TakeUp == Check \/ CheckSubscribed \/ ReadConn \/ ReadFirst

DumpThread ==
    \/ Take \/ TakeUp \/ ReadOldest \/ ReadNext \/ Begin
    \/ CallGet \/ ReturnGet \/ PutRecord \/ PutCrc
    \/ NotifySent \/ NotifyNoMem \/ NotifyError \/ Retry

DumpNext == Cut \/ Boot \/ Main \/ Callbacks \/ DumpThread

DumpSpec == DumpInit /\ [][DumpNext]_dumpVars

\* The scheduler runs the dump thread and finishes what the main thread has
\* begun, and the controller keeps freeing buffers: a value that fits the
\* MTU is not refused for ever.
DumpFairness ==
    /\ WF_dumpVars(DumpThread)
    /\ WF_dumpVars(Main /\ pc # "run")
    /\ SF_dumpVars(NotifySent)

FairDumpSpec == DumpSpec /\ DumpFairness
-----------------------------------------------------------------------------
(* Properties *)

\* The locals of dump_run and the shared variables of src/ble.c have their C
\* types, the binary semaphore and the 244-byte buffer included.
DumpTypeOK ==
    /\ StoreTypeOK
    /\ link.up \in BOOLEAN /\ link.mtu \in MTUs \union {0}
    /\ current_conn \in BOOLEAN /\ notify_enabled \in BOOLEAN
    /\ dump_req \in 0 .. 1
    /\ dump_first_seq \in Nat
    /\ d.chunk \in 0 .. BUF_SIZE /\ d.fill \in 0 .. BUF_SIZE
    /\ d.count \in 0 .. COUNT_MAX

\* What a central receives parses as frames: a record follows its header or
\* the record one before it, and a CRC closes a frame that is there in full,
\* as many records as its header announced, however appends, retries, new
\* commands and unsubscribing fell in between.
StreamFramed ==
    \A i \in 1 .. Len(rx) :
        /\ rx[i].t = "rec" =>
              /\ i > 1
              /\ \/ rx[i-1].t = "header"
                 \/ rx[i-1].t = "rec" /\ rx[i].seq = rx[i-1].seq + 1
        /\ rx[i].t = "crc" =>
              LET n == Len(rx[i].of)
              IN  /\ i > n
                  /\ SubSeq(rx, i - n, i - 1) = rx[i].of
                  /\ rx[i - n] = Header(n - 1)

\* A record goes out under its own number, and a fault record goes out only
\* for one that a newer record has really overwritten; an nvs_read that
\* fails on a record that is still there would be the other cause.
RecordsHonest ==
    \A i \in 1 .. Len(d.buf) : d.buf[i].t = "rec" =>
        LET q == d.buf[i].seq
            r == nvs_rec[Slot(q)]
        IN  IF d.buf[i].out = None THEN r # None /\ r.seq > q
                                   ELSE d.buf[i].out.seq = q

\* No notification is longer than the MTU of the connection it was cut for.
NotifyFits == dpc = "notify" => d.fill <= d.chunk

\* A dump that is sent to its end holds nothing back: every record that the
\* central asked for, that was stored when its command was taken up and that
\* is still in the ring at the end, is in the frame.  The oldest record may
\* be the exception, its slot being the one an append is writing to.
FrameComplete ==
    dpc = "notify" /\ d.then = "end" =>
        \A q \in 0 .. MaxSeq :
            d.first <= q /\ store_oldest_seq < q /\ q < d.asked =>
                \E i \in 1 .. Len(d.crc) :
                    d.crc[i].t = "rec" /\ d.crc[i].seq = q /\ d.crc[i].out # None

\* A dump always comes to an end: the thread is back at the semaphore.
DumpEnds == dpc # "wait" ~> dpc = "wait"

\* The latest command is answered by a complete frame, unless the central
\* stops listening or asks for something else: a command that arrives while
\* a dump runs is not lost.
RequestAnswered ==
    \A q \in 0 .. MaxSeq :
        dump_req = 1 /\ notify_enabled /\ wanted = q
            ~> ~notify_enabled \/ wanted # q \/ answered = q
=============================================================================
