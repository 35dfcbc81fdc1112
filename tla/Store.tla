------------------------------- MODULE Store -------------------------------
(***************************************************************************)
(* The flash-backed ring of records, src/store.c.                          *)
(*                                                                         *)
(* The main loop appends (store_append), the BLE thread reads (store_get)  *)
(* and power can go at any step.  What is in flash survives; what is in    *)
(* RAM starts again from zero.  Every NVS call that changes flash is a     *)
(* step of its own, because a power cut between two of them is what the    *)
(* recovery code in store_init has to cope with.                           *)
(***************************************************************************)
EXTENDS Naturals

CONSTANTS
    STORE_CAPACITY, \* records in the ring
    Formats,        \* values NVS_FORMAT takes in the firmware builds flashed
    Readings,       \* sensor contents of a record
    None,           \* an NVS id that was never written; no record
    Faults,         \* which failures the environment may produce
    MaxSeq,         \* bound: records appended; below 2^32, so seq never wraps
    MaxTime         \* bound: device seconds

\* The reads of store_init that may fail, and everything that may.
InitReads == {"meta_read", "format_read", "floor_read"}
AllFaults == {"mount", "clear", "mig_write", "mig_cut", "rec_write", "meta_write",
              "rec_read"} \union InitReads

Record == [seq : Nat, ts : Nat, size : Formats, val : Readings]
Meta   == [next_seq : Nat, base_sec : Nat]

ASSUME StoreAssumption ==
    /\ STORE_CAPACITY \in Nat \ {0}
    /\ Formats # {}
    /\ Faults \subseteq AllFaults
    /\ MaxSeq \in Nat
    /\ MaxTime \in Nat
    /\ None \notin Nat
    /\ None \notin Formats
    /\ None \notin Record
    /\ None \notin Meta

VARIABLES
    nvs_meta, nvs_format, nvs_floor, \* flash: the three bookkeeping ids
    nvs_rec,                         \* flash: one id per ring slot
    fw,             \* NVS_FORMAT of the running firmware
    ready,          \* fs is mounted
    init_ok,        \* store_init returned 0
    next_seq, base_sec,              \* RAM: struct meta
    boot_offset, floor_seq, uptime,  \* RAM
    pc,             \* the main thread
    rec,            \* the record store_append is working on
    get,            \* the reader's store_get call
    boot_seq,       \* history: next_seq as this boot read it from flash
    meta_missed,    \* history: the META entry this boot failed to read, if any
    served          \* history: every record a store_get handed out

flash    == <<nvs_meta, nvs_format, nvs_floor, nvs_rec>>
ram      == <<ready, init_ok, next_seq, base_sec, boot_offset, floor_seq>>
history  == <<boot_seq, meta_missed, served>>
storeVars == <<flash, fw, ram, uptime, pc, rec, get, history>>

Slots == 0 .. STORE_CAPACITY - 1
Slot(seq) == seq % STORE_CAPACITY

\* Where the main thread is: powered down, inside store_init, in the main
\* loop, or inside store_append holding the mutex.
Migrating == {"format", "floor", "meta"}
Locked    == {"append_rec", "append_bump", "append_meta"}
Running   == {"run"} \union Locked
Pcs       == {"off", "mount", "clear"} \union Migrating \union Running

NoGet == [pc |-> "done", seq |-> 0, out |-> None]
-----------------------------------------------------------------------------
store_now == boot_offset + uptime

store_next_seq == next_seq

\* Defect: the floor left by a format change is forgotten.
Bug_OldestWithoutFloor ==
    IF next_seq > STORE_CAPACITY THEN next_seq - STORE_CAPACITY ELSE 0

store_oldest_seq ==
    LET ring == IF next_seq > STORE_CAPACITY
                THEN next_seq - STORE_CAPACITY ELSE 0
    IN  IF floor_seq > ring THEN floor_seq ELSE ring
-----------------------------------------------------------------------------
(* Power *)

StoreInit ==
    /\ nvs_meta = None /\ nvs_format = None /\ nvs_floor = None
    /\ nvs_rec = [s \in Slots |-> None]
    /\ fw \in Formats
    /\ ready = FALSE /\ init_ok = FALSE
    /\ next_seq = 0 /\ base_sec = 0 /\ boot_offset = 0 /\ floor_seq = 0
    /\ uptime = 0 /\ rec = None /\ get = NoGet
    /\ pc = "off"
    /\ boot_seq = 0 /\ meta_missed = None /\ served = {}

\* Boot, possibly into a firmware build whose record has another size.
PowerOn(f) ==
    /\ pc = "off"
    /\ pc' = "mount"
    /\ fw' = f
    /\ UNCHANGED <<flash, ram, uptime, rec, get, history>>

\* RAM goes back to the static initialisers.
RamLost ==
    /\ pc' = "off"
    /\ ready' = FALSE /\ init_ok' = FALSE
    /\ next_seq' = 0 /\ base_sec' = 0 /\ boot_offset' = 0 /\ floor_seq' = 0
    /\ uptime' = 0 /\ rec' = None /\ get' = NoGet
    /\ boot_seq' = 0 /\ meta_missed' = None
    /\ UNCHANGED <<fw, served>>

PowerLoss ==
    /\ pc # "off"
    /\ pc \in Migrating => "mig_cut" \in Faults
    /\ RamLost
    /\ UNCHANGED flash

Tick ==
    /\ pc # "off"
    /\ store_now < MaxTime
    /\ uptime' = uptime + 1
    /\ UNCHANGED <<flash, fw, ram, pc, rec, get, history>>
-----------------------------------------------------------------------------
(* store_init.  It runs on the main thread before anything else starts.    *)

\* An early return with an error.  main() prints it and carries on.
InitFails ==
    /\ pc' = "run"
    /\ UNCHANGED <<init_ok, boot_offset>>

\* Defect: the clock restarts at zero on every boot.
Bug_InitForgetsClock(base) ==
    /\ pc' = "run"
    /\ init_ok' = TRUE
    /\ UNCHANGED boot_offset

\* The end of store_init: resume the clock, return 0.
InitReturns(base) ==
    /\ pc' = "run"
    /\ init_ok' = TRUE
    /\ boot_offset' = base

\* Mount, read the bookkeeping ids, compare the format.  No read is checked
\* for an error: one that fails (lost) looks like an id never written, so
\* META starts from zero, FORMAT differs, and floor_seq stays as it was.
Mount(lost) ==
    LET m == IF nvs_meta = None \/ "meta_read" \in lost
             THEN [next_seq |-> 0, base_sec |-> 0] ELSE nvs_meta
        same == nvs_format = fw /\ "format_read" \notin lost
    IN  /\ pc = "mount"
        /\ ready' = TRUE
        /\ next_seq' = m.next_seq
        /\ base_sec' = m.base_sec
        /\ boot_seq' = m.next_seq
        /\ meta_missed' = IF "meta_read" \in lost THEN nvs_meta ELSE None
        /\ \/ /\ same
              /\ floor_seq' = IF nvs_floor = None \/ "floor_read" \in lost
                              THEN floor_seq ELSE nvs_floor
              /\ InitReturns(m.base_sec)
           \/ /\ ~same
              /\ pc' = "clear"
              /\ UNCHANGED <<floor_seq, boot_offset, init_ok>>
        /\ UNCHANGED <<flash, fw, uptime, rec, get, served>>

MountFails ==
    /\ pc = "mount"
    /\ "mount" \in Faults
    /\ InitFails
    /\ UNCHANGED <<flash, fw, ready, next_seq, base_sec, floor_seq, uptime,
                   rec, get, history>>

\* nvs_clear, mount again, and set the floor below which nothing is held.
\* The second mount can fail too; the flash is then already empty.
Clear ==
    /\ pc = "clear"
    /\ nvs_meta' = None /\ nvs_format' = None /\ nvs_floor' = None
    /\ nvs_rec' = [s \in Slots |-> None]
    /\ \/ /\ ready' = TRUE
          /\ floor_seq' = next_seq
          /\ pc' = "format"
          /\ UNCHANGED <<init_ok, boot_offset>>
       \/ /\ "mig_write" \in Faults
          /\ ready' = FALSE
          /\ InitFails
          /\ UNCHANGED floor_seq
    /\ UNCHANGED <<fw, next_seq, base_sec, uptime, rec, get, history>>

\* nvs_clear erases sector by sector; when it stops half way, any of the
\* entries may be gone.
PartlyErased ==
    /\ nvs_meta' \in {nvs_meta, None}
    /\ nvs_format' \in {nvs_format, None}
    /\ nvs_floor' \in {nvs_floor, None}
    /\ \E lost \in SUBSET Slots :
          nvs_rec' = [s \in Slots |-> IF s \in lost THEN None ELSE nvs_rec[s]]

\* It stops with an error, and store_init returns that ...
ClearFails ==
    /\ pc = "clear"
    /\ "clear" \in Faults
    /\ PartlyErased
    /\ InitFails
    /\ UNCHANGED <<fw, ready, next_seq, base_sec, floor_seq, uptime,
                   rec, get, history>>

\* ... or the power goes.
ClearCut ==
    /\ pc = "clear"
    /\ "mig_cut" \in Faults
    /\ PartlyErased
    /\ RamLost

\* The three writes that put the bookkeeping back, in the code's order.
WriteFormat ==
    /\ pc = "format"
    /\ nvs_format' = fw
    /\ pc' = "floor"
    /\ UNCHANGED <<nvs_meta, nvs_floor, nvs_rec, fw, ram, uptime, rec, get, history>>

WriteFloor ==
    /\ pc = "floor"
    /\ nvs_floor' = floor_seq
    /\ pc' = "meta"
    /\ UNCHANGED <<nvs_meta, nvs_format, nvs_rec, fw, ram, uptime, rec, get, history>>

\* Defect: the migration forgets to put the counters back.
Bug_MigrationDropsMeta ==
    /\ pc = "meta"
    /\ InitReturns(base_sec)
    /\ UNCHANGED <<flash, fw, ready, next_seq, base_sec, floor_seq,
                   uptime, rec, get, history>>

WriteMeta ==
    /\ pc = "meta"
    /\ nvs_meta' = [next_seq |-> next_seq, base_sec |-> base_sec]
    /\ InitReturns(base_sec)
    /\ UNCHANGED <<nvs_format, nvs_floor, nvs_rec, fw, ready, next_seq, base_sec,
                   floor_seq, uptime, rec, get, history>>

\* Any of the three fails: the || chain stops there and returns -EIO.
MigrationWriteFails ==
    /\ pc \in Migrating
    /\ "mig_write" \in Faults
    /\ InitFails
    /\ UNCHANGED <<flash, fw, ready, next_seq, base_sec, floor_seq, uptime,
                   rec, get, history>>
-----------------------------------------------------------------------------
(* store_append, called from window_flush on the main thread.              *)

\* Take the mutex, number and stamp the record.
AppendBegin(v) ==
    /\ pc = "run"
    /\ next_seq < MaxSeq
    /\ rec' = [seq |-> next_seq, ts |-> store_now, size |-> fw, val |-> v]
    /\ pc' = "append_rec"
    /\ UNCHANGED <<flash, fw, ram, uptime, get, history>>

AppendWriteRec ==
    /\ pc = "append_rec"
    /\ ready
    /\ nvs_rec' = [nvs_rec EXCEPT ![Slot(rec.seq)] = rec]
    /\ pc' = "append_bump"
    /\ UNCHANGED <<nvs_meta, nvs_format, nvs_floor, fw, ram, uptime, rec, get, history>>

\* Defect: the number is used up although nothing was stored.
Bug_FailedWriteNumbered ==
    /\ pc = "append_rec"
    /\ ready => "rec_write" \in Faults
    /\ pc' = "run"
    /\ rec' = None
    /\ next_seq' = next_seq + 1
    /\ UNCHANGED <<flash, fw, ready, init_ok, base_sec, boot_offset, floor_seq,
                   uptime, get, history>>

\* The write fails (always so on an unmounted fs): unlock, return the error.
AppendRecFails ==
    /\ pc = "append_rec"
    /\ ready => "rec_write" \in Faults
    /\ pc' = "run"
    /\ rec' = None
    /\ UNCHANGED <<flash, fw, ram, uptime, get, history>>

\* meta in RAM moves on; unlocked readers see it before flash does.
AppendBump ==
    /\ pc = "append_bump"
    /\ next_seq' = next_seq + 1
    /\ base_sec' = rec.ts
    /\ pc' = "append_meta"
    /\ UNCHANGED <<flash, fw, ready, init_ok, boot_offset, floor_seq, uptime,
                   rec, get, history>>

\* Defect: flash gets the counters from before the append.
Bug_MetaLagsBehind ==
    /\ pc = "append_meta"
    /\ nvs_meta' = [next_seq |-> rec.seq, base_sec |-> base_sec]
    /\ pc' = "run"
    /\ rec' = None
    /\ UNCHANGED <<nvs_format, nvs_floor, nvs_rec, fw, ram, uptime, get, history>>

\* Defect: META is counted on twice, in RAM and again in flash.
Bug_MetaCountsTwice ==
    /\ pc = "append_meta"
    /\ nvs_meta' = [next_seq |-> next_seq + 1, base_sec |-> base_sec]
    /\ pc' = "run"
    /\ rec' = None
    /\ UNCHANGED <<nvs_format, nvs_floor, nvs_rec, fw, ram, uptime, get, history>>

AppendWriteMeta ==
    /\ pc = "append_meta"
    /\ nvs_meta' = [next_seq |-> next_seq, base_sec |-> base_sec]
    /\ pc' = "run"
    /\ rec' = None
    /\ UNCHANGED <<nvs_format, nvs_floor, nvs_rec, fw, ram, uptime, get, history>>

\* The error is returned, but next_seq and the record stay as they are.
AppendMetaFails ==
    /\ pc = "append_meta"
    /\ "meta_write" \in Faults
    /\ pc' = "run"
    /\ rec' = None
    /\ UNCHANGED <<flash, fw, ram, uptime, get, history>>
-----------------------------------------------------------------------------
(* store_get, called from the BLE dump thread.                             *)

\* Defect: the range check looks at the old end of the ring only.
Bug_GetCheckOldestOnly(q) ==
    /\ pc \in Running
    /\ get.pc = "done"
    /\ get' = [pc  |-> IF q < store_oldest_seq THEN "done" ELSE "read",
               seq |-> q, out |-> None]
    /\ UNCHANGED <<flash, fw, ram, uptime, pc, rec, history>>

\* The range check is made before the mutex is taken.
GetCheck(q) ==
    /\ pc \in Running
    /\ get.pc = "done"
    /\ get' = [pc  |-> IF q >= next_seq \/ q < store_oldest_seq
                       THEN "done" ELSE "read",
               seq |-> q, out |-> None]
    /\ UNCHANGED <<flash, fw, ram, uptime, pc, rec, history>>

\* Defect: the caller is handed whatever the slot holds by now.
Bug_ReadBackUnchecked(q) ==
    IF ready THEN nvs_rec[Slot(q)] ELSE None

\* What nvs_read and the two checks after it return for the slot of q.
ReadBack(q) ==
    LET r == nvs_rec[Slot(q)]
    IN  IF ~ready \/ r = None THEN None
        ELSE IF r.size = fw /\ r.seq = q THEN r ELSE None

GetRead ==
    /\ get.pc = "read"
    /\ pc \notin Locked
    /\ get' = [pc |-> "done", seq |-> get.seq, out |-> ReadBack(get.seq)]
    /\ served' = served \union ({ReadBack(get.seq)} \ {None})
    /\ UNCHANGED <<flash, fw, ram, uptime, pc, rec, boot_seq, meta_missed>>

\* nvs_read fails on a record that is there: the caller gets -ENOENT.
GetReadFails ==
    /\ get.pc = "read"
    /\ pc \notin Locked
    /\ "rec_read" \in Faults
    /\ get' = [pc |-> "done", seq |-> get.seq, out |-> None]
    /\ UNCHANGED <<flash, fw, ram, uptime, pc, rec, history>>
-----------------------------------------------------------------------------
MainNext ==
    \/ \E lost \in SUBSET (InitReads \intersect Faults) : Mount(lost)
    \/ MountFails \/ Clear \/ ClearFails
    \/ WriteFormat \/ WriteFloor \/ WriteMeta \/ MigrationWriteFails
    \/ \E v \in Readings : AppendBegin(v)
    \/ AppendWriteRec \/ AppendRecFails \/ AppendBump
    \/ AppendWriteMeta \/ AppendMetaFails

StoreNext ==
    \/ \E f \in Formats : PowerOn(f)
    \/ PowerLoss \/ ClearCut
    \/ Tick
    \/ MainNext
    \/ \E q \in 0 .. MaxSeq : GetCheck(q)
    \/ GetRead \/ GetReadFails

StoreSpec == StoreInit /\ [][StoreNext]_storeVars
-----------------------------------------------------------------------------
(* What flash alone says: the counter the next boot will resume from, and  *)
(* the records it will be able to read.  Between nvs_clear and the last    *)
(* write of a format change the counter exists only in RAM.                *)

FlashNext == IF nvs_meta = None THEN 0 ELSE nvs_meta.next_seq

DurableNext == IF pc \in Migrating THEN next_seq ELSE FlashNext

DurableHeld ==
    {r \in {nvs_rec[s] : s \in Slots} \ {None} :
        r.seq < DurableNext /\ r.size = nvs_format}

Log == INSTANCE RecordLog WITH
           Capacity  <- STORE_CAPACITY,
           LogRecord <- Record,
           next      <- DurableNext,
           held      <- DurableHeld
-----------------------------------------------------------------------------
(* Properties *)

\* Every variable of src/store.c holds a value of its C type, and while a
\* reader is between the range check and the nvs_read of store_get the
\* store runs and seq stays below next_seq, which only grows by then.
StoreTypeOK ==
    /\ nvs_meta \in Meta \union {None}
    /\ nvs_format \in Formats \union {None}
    /\ nvs_floor \in Nat \union {None}
    /\ nvs_rec \in [Slots -> Record \union {None}]
    /\ fw \in Formats
    /\ ready \in BOOLEAN /\ init_ok \in BOOLEAN
    /\ next_seq \in Nat /\ base_sec \in Nat /\ boot_offset \in Nat
    /\ floor_seq \in Nat /\ uptime \in Nat
    /\ pc \in Pcs
    /\ rec \in Record \union {None}
    /\ pc \in Locked => rec # None
    /\ get \in [pc : {"done", "read"}, seq : Nat, out : Record \union {None}]
    /\ get.pc = "read" => pc \in Running /\ get.seq < next_seq
    /\ boot_seq \in Nat
    /\ meta_missed \in Meta \union {None}
    /\ served \subseteq Record

\* The slot of q holds record q; or q is the oldest and a store_append that
\* never got to its second nvs_write has already put record next_seq there.
HeldOrTorn(q) ==
    LET r == nvs_rec[Slot(q)]
    IN  /\ r # None
        /\ r.size = fw
        /\ \/ r.seq = q
           \/ r.seq = next_seq /\ q + STORE_CAPACITY = next_seq

\* The window [store_oldest_seq, store_next_seq) that a dump is clamped to
\* is never inverted and claims nothing that was erased, overwritten or is
\* of another size, whatever format changes and power cuts came before; the
\* one exception is the oldest record after a torn append.  It takes format
\* changes that run to their end, META writes that succeed, and META and FLOOR
\* entries that can be read.
RingHeld ==
    init_ok =>
        /\ store_oldest_seq <= next_seq
        /\ \A q \in 0 .. MaxSeq :
              store_oldest_seq <= q /\ q < next_seq => HeldOrTorn(q)

\* What this boot has appended it can also serve, until the ring comes round
\* to the slot: under every failure, one in store_init (its reads included)
\* or between the two writes of an append.
BootHeld ==
    ready /\ pc \in Running =>
        \A q \in 0 .. MaxSeq :
            store_oldest_seq <= q /\ boot_seq <= q /\ q < next_seq => HeldOrTorn(q)

\* META is still the entry that this boot could not read.
MetaMissed == meta_missed # None /\ nvs_meta = meta_missed

\* A reboot never resumes beyond the numbers this boot has used, whatever
\* failed: a gap in seq would read as lost records.  The one exception is a
\* boot whose META read failed, until its first write of META.
FlashNotAhead ==
    ready /\ pc \in Running => DurableNext <= next_seq \/ MetaMissed

\* BootHeld and FlashNotAhead, made inductive: what store_init leaves to the
\* main loop, and what each step inside store_append has established.
BootInv ==
    /\ StoreTypeOK
    /\ pc \in {"off", "mount"} => ~ready
    /\ pc \in {"clear"} \union Migrating =>
          next_seq = boot_seq /\ (FlashNext <= next_seq \/ MetaMissed)
    /\ ready /\ pc \in Running => FlashNext <= next_seq \/ MetaMissed
    /\ pc \in {"append_rec", "append_bump"} => rec.seq = next_seq /\ rec.size = fw
    /\ pc = "append_bump" => nvs_rec[Slot(rec.seq)] = rec
    /\ ready /\ pc \in Running =>
          \A q \in boot_seq .. next_seq :
              q < next_seq /\ next_seq <= q + STORE_CAPACITY => HeldOrTorn(q)

\* No two different records are ever handed out under one seq: the app and
\* the server drop the second one as a duplicate (store.h).
NoSeqReuse ==
    \A r1, r2 \in served : r1.seq = r2.seq => r1 = r2

\* Device time never runs backwards along seq, across reboots included: the
\* app recovers wall-clock time from differences of ts.
TsFollowsSeq ==
    \A r1, r2 \in served : r1.seq < r2.seq => r1.ts <= r2.ts

\* The counter the device would resume from never goes back.
SeqSurvives == [][DurableNext' >= DurableNext]_storeVars

\* src/store.c implements the abstract log of module RecordLog.
RefinesLog == Log!LogSpec
=============================================================================
