-------------------------- MODULE StoreLogProofs --------------------------
(***************************************************************************)
(* src/store.c implements the abstract log of module RecordLog, and what   *)
(* readers rely on follows: for every capacity, every set of formats and   *)
(* contents and every bound, as long as nothing fails but the mount, the   *)
(* read of FORMAT and the read and write of a record.  Each of the other   *)
(* six faults breaks some of it.                                           *)
(***************************************************************************)
EXTENDS StoreProofs

\* The failures the log survives: an nvs_mount that fails, a FORMAT that
\* cannot be read, a record that cannot be written or read, and a power cut
\* anywhere but inside a format change.
Benign == Faults \subseteq {"mount", "format_read", "rec_write", "rec_read"}

FlashBase  == IF nvs_meta = None THEN 0 ELSE nvs_meta.base_sec
FlashFloor == IF nvs_floor = None THEN 0 ELSE nvs_floor

\* The clock the next boot will resume from, as DurableNext for the counter.
DurableBase == IF pc \in Migrating THEN base_sec ELSE FlashBase

\* store_init up to the main loop: RAM starts from zero, a format change
\* carries the counters over the erased flash.
MigrateInv ==
    /\ pc \in {"off", "mount"} => ~ready /\ ~init_ok /\ floor_seq = 0 /\ next_seq = 0
    /\ pc \in {"clear"} \union Migrating => ready /\ ~init_ok
    /\ pc = "clear" => next_seq = FlashNext /\ base_sec = FlashBase
    /\ pc \in Migrating => /\ nvs_meta = None
                           /\ \A s \in Slots : nvs_rec[s] = None
                           /\ floor_seq = next_seq
    /\ pc \in {"floor", "meta"} => nvs_format = fw
    /\ pc = "meta" => nvs_floor = floor_seq

\* The main loop: RAM and flash agree but inside store_append, and a store
\* that could not be mounted has nothing to say.
RunInv ==
    /\ pc \in Running /\ ~init_ok =>
          ~ready /\ pc \in {"run", "append_rec"} /\ next_seq = 0
    /\ pc \in Running /\ init_ok =>
          /\ ready /\ nvs_format = fw
          /\ floor_seq = FlashFloor
          /\ next_seq = IF pc = "append_meta" THEN FlashNext + 1 ELSE FlashNext
          /\ FlashBase <= store_now
    /\ pc \in Locked /\ init_ok =>
          /\ rec.seq = FlashNext /\ rec.size = fw
          /\ FlashBase <= rec.ts /\ rec.ts <= store_now
    /\ pc \in {"append_bump", "append_meta"} => nvs_rec[Slot(rec.seq)] = rec
    /\ pc = "append_meta" => base_sec = rec.ts
    /\ get.pc = "read" => pc \in Running /\ get.seq < next_seq

\* A slot holds a record of its own residue, not older than one ring and not
\* newer than the append that may have been torn.
EntryInv ==
    \A s \in Slots : nvs_rec[s] # None =>
        /\ Slot(nvs_rec[s].seq) = s
        /\ nvs_rec[s].seq <= FlashNext
        /\ FlashNext <= nvs_rec[s].seq + STORE_CAPACITY

\* Flash holds the window it claims, but for the oldest record when the
\* append that takes its slot was torn.
WindowInv ==
    \A q \in Nat :
        FlashFloor <= q /\ q < FlashNext /\ FlashNext <= q + STORE_CAPACITY =>
            /\ nvs_rec[Slot(q)] # None
            /\ nvs_rec[Slot(q)].size = nvs_format
            /\ \/ nvs_rec[Slot(q)].seq = q
               \/ /\ nvs_rec[Slot(q)].seq = FlashNext
                  /\ q + STORE_CAPACITY = FlashNext

FlashInv ==
    pc \notin Migrating => FlashFloor <= FlashNext /\ EntryInv /\ WindowInv

\* Everything that was ever handed out, or could be handed out next.
Known ==
    served \union {r \in {nvs_rec[s] : s \in Slots} \ {None} : r.seq < DurableNext}

KnownInv ==
    /\ \A r \in Known : r.seq < DurableNext /\ r.ts <= DurableBase
    /\ \A r1, r2 \in Known : /\ r1.seq = r2.seq => r1 = r2
                             /\ r1.seq < r2.seq => r1.ts <= r2.ts

LogInv ==
    /\ Benign
    /\ StoreTypeOK
    /\ MigrateInv /\ RunInv /\ FlashInv /\ KnownInv
-----------------------------------------------------------------------------
(* Facts the cases share *)

\* The types of what flash says.
LEMMA FlashTypes ==
    ASSUME StoreTypeOK
    PROVE  /\ FlashNext \in Nat /\ FlashBase \in Nat /\ FlashFloor \in Nat
           /\ DurableNext \in Nat /\ DurableBase \in Nat
           /\ STORE_CAPACITY \in Nat \ {0}
           /\ \A s \in Slots : nvs_rec[s] # None => nvs_rec[s] \in Record
BY StoreAssumption
DEF StoreTypeOK, Meta, FlashNext, FlashBase, FlashFloor, DurableNext, DurableBase

\* What is known is a record.
LEMMA KnownTypes ==
    ASSUME StoreTypeOK, NEW r \in Known
    PROVE  r \in Record /\ r.seq \in Nat /\ r.ts \in Nat
<1>1. r \in Record
    BY FlashTypes DEF StoreTypeOK, Known
<1> QED
    BY <1>1 DEF Record

\* A number and the one a ring later share their slot.
LEMMA SlotWraps ==
    ASSUME NEW q \in Nat
    PROVE  Slot(q + STORE_CAPACITY) = Slot(q)
<1>1. STORE_CAPACITY \in Nat \ {0}
    BY StoreAssumption
<1>2. /\ q = STORE_CAPACITY * (q \div STORE_CAPACITY) + Slot(q)
      /\ q \div STORE_CAPACITY \in Int /\ Slot(q) \in 0 .. STORE_CAPACITY - 1
    BY <1>1 DEF Slot
<1>3. PICK x \in Int : q = STORE_CAPACITY * x + Slot(q)
    BY <1>2
<1>4. PICK y \in Int : /\ q + STORE_CAPACITY = STORE_CAPACITY * y + Slot(q + STORE_CAPACITY)
                       /\ Slot(q + STORE_CAPACITY) \in 0 .. STORE_CAPACITY - 1
    <2>1. q + STORE_CAPACITY \in Nat
        BY <1>1
    <2>2. ASSUME NEW a \in Nat
          PROVE  \E y \in Int : a = STORE_CAPACITY * y + Slot(a)
        BY <1>1, DivMod DEF Slot
    <2> QED
        BY <2>1, <2>2, SlotInRange DEF Slots
<1>5. CASE y >= x + 2
    <2>1. STORE_CAPACITY * (y - x) >= STORE_CAPACITY * 2
        BY <1>1, <1>5
    <2> QED
        BY <1>1, <1>2, <1>3, <1>4, <2>1
<1>6. CASE y <= x
    <2>1. STORE_CAPACITY * (x - y) >= 0
        BY <1>1, <1>6
    <2> QED
        BY <1>1, <1>2, <1>3, <1>4, <2>1
<1>7. CASE y = x + 1
    <2>1. STORE_CAPACITY * y = STORE_CAPACITY * x + STORE_CAPACITY
        BY <1>1, <1>7
    <2> QED
        BY <1>1, <1>2, <1>3, <1>4, <2>1
<1> QED
    BY <1>5, <1>6, <1>7

\* Knowing less, or counting further, keeps what is known in order.
LEMMA KnownKeeps ==
    ASSUME StoreTypeOK, StoreTypeOK', KnownInv, Known' \subseteq Known,
           DurableNext <= DurableNext', DurableBase <= DurableBase'
    PROVE  KnownInv'
<1>1. /\ DurableNext \in Nat /\ DurableNext' \in Nat
      /\ DurableBase \in Nat /\ DurableBase' \in Nat
    BY FlashTypes DEF StoreTypeOK, DurableNext, DurableBase, FlashNext, FlashBase, Meta
<1>2. ASSUME NEW r \in Known'
      PROVE  r.seq < DurableNext' /\ r.ts <= DurableBase'
    <2>1. r \in Known /\ r.seq \in Nat /\ r.ts \in Nat
        BY <1>2, KnownTypes
    <2> QED
        BY <1>1, <2>1 DEF KnownInv
<1> QED
    BY <1>2 DEF KnownInv

\* A step that leaves flash and what was served alone, outside a format
\* change or with the counters it carries untouched, changes nothing that
\* the log is about.
LEMMA Quiet ==
    ASSUME FlashInv, KnownInv, UNCHANGED <<flash, served>>,
           \/ pc \notin Migrating /\ pc' \notin Migrating
           \/ UNCHANGED <<pc, next_seq, base_sec>>
    PROVE  /\ FlashInv' /\ KnownInv'
           /\ UNCHANGED <<FlashNext, FlashBase, FlashFloor>>
           /\ UNCHANGED <<DurableNext, DurableBase, DurableHeld>>
<1>1. UNCHANGED <<FlashNext, FlashBase, FlashFloor>>
    BY DEF flash, FlashNext, FlashBase, FlashFloor
<1>2. UNCHANGED <<DurableNext, DurableBase>>
    BY <1>1 DEF DurableNext, DurableBase
<1>3. UNCHANGED <<DurableHeld, Known>>
    BY <1>2 DEF DurableHeld, Known, flash
<1>4. FlashInv'
    BY <1>1 DEF FlashInv, EntryInv, WindowInv, flash
<1>5. KnownInv'
    BY <1>2, <1>3 DEF KnownInv
<1> QED
    BY <1>1, <1>2, <1>3, <1>4, <1>5
-----------------------------------------------------------------------------
(* The steps that change what flash says *)

\* What a step does to the log: one of its actions, or nothing.
LogStutter == UNCHANGED <<DurableNext, DurableHeld>>

\* nvs_clear, with the counters safe in RAM.
LEMMA ClearStep ==
    ASSUME LogInv, StoreTypeOK', Clear
    PROVE  LogInv' /\ Log!DropAll
<1>1. /\ pc = "clear" /\ pc' = "format" /\ floor_seq' = next_seq
      /\ ready' /\ init_ok' = init_ok /\ served' = served /\ get' = get
      /\ next_seq' = next_seq /\ base_sec' = base_sec
      /\ nvs_meta' = None /\ nvs_rec' = [s \in Slots |-> None]
    BY DEF Clear, LogInv, Benign, history
<1>2. /\ pc \notin Migrating /\ pc' \in Migrating
      /\ pc' \notin Running /\ pc' \notin Locked
      /\ pc' \notin {"append_bump", "append_meta"}
    BY <1>1 DEF Migrating, Running, Locked
<1>3. DurableNext' = DurableNext /\ DurableBase' = DurableBase
    BY <1>1, <1>2 DEF LogInv, MigrateInv, DurableNext, DurableBase
<1>4. Known' \subseteq Known
    BY <1>1 DEF Known
<1>5. KnownInv'
    <2>1. DurableNext <= DurableNext' /\ DurableBase <= DurableBase'
        BY <1>3, FlashTypes DEF LogInv
    <2> QED
        BY <1>4, <2>1, KnownKeeps DEF LogInv
<1>6. MigrateInv'
    BY <1>1, <1>2 DEF LogInv, MigrateInv
<1>7. RunInv'
    <2>1. get.pc # "read"
        BY <1>1 DEF LogInv, RunInv, Running, Locked
    <2> QED
        BY <1>1, <1>2, <2>1 DEF RunInv
<1>8. DurableHeld' = {}
    BY <1>1 DEF DurableHeld
<1> QED
    BY <1>2, <1>3, <1>5, <1>6, <1>7, <1>8 DEF LogInv, FlashInv, Benign, Log!DropAll

\* The three writes of a format change: the log has nothing to lose any
\* more, and its counter moves from RAM to flash with the last of them.
LEMMA RewriteStep ==
    ASSUME LogInv, StoreTypeOK', WriteFormat \/ WriteFloor
    PROVE  LogInv' /\ LogStutter
<1>1. /\ pc \in Migrating /\ pc' \in Migrating /\ pc' \in {"floor", "meta"}
      /\ pc' = "floor" \/ (pc' = "meta" /\ nvs_floor' = floor_seq)
      /\ nvs_meta' = nvs_meta /\ nvs_rec' = nvs_rec /\ nvs_format' = fw /\ fw' = fw
      /\ UNCHANGED <<ram, served, get>>
    BY DEF WriteFormat, WriteFloor, Migrating, LogInv, MigrateInv, history
<1>2. /\ pc' \notin Running /\ pc' \notin Locked
      /\ pc' \notin {"append_bump", "append_meta", "off", "mount", "clear"}
    BY <1>1 DEF Running, Locked
<1>3. DurableNext' = DurableNext /\ DurableBase' = DurableBase
    BY <1>1 DEF DurableNext, DurableBase, ram
<1>4. Known' \subseteq Known
    BY <1>1, <1>3 DEF Known
<1>5. KnownInv'
    <2>1. DurableNext <= DurableNext' /\ DurableBase <= DurableBase'
        BY <1>3, FlashTypes DEF LogInv
    <2> QED
        BY <1>4, <2>1, KnownKeeps DEF LogInv
<1>6. MigrateInv'
    BY <1>1, <1>2 DEF LogInv, MigrateInv, ram
<1>7. RunInv'
    <2>1. get.pc # "read"
        BY <1>1 DEF LogInv, RunInv, Running, Locked, Migrating
    <2> QED
        BY <1>1, <1>2, <2>1 DEF RunInv
<1>8. DurableHeld = {} /\ DurableHeld' = {}
    BY <1>1 DEF DurableHeld, LogInv, MigrateInv
<1> QED
    BY <1>1, <1>3, <1>5, <1>6, <1>7, <1>8
    DEF LogInv, FlashInv, Benign, LogStutter

LEMMA WriteMetaStep ==
    ASSUME LogInv, StoreTypeOK', WriteMeta
    PROVE  LogInv' /\ LogStutter
<1>1. /\ pc = "meta" /\ pc' = "run" /\ init_ok' /\ boot_offset' = base_sec
      /\ nvs_meta' = [next_seq |-> next_seq, base_sec |-> base_sec]
      /\ UNCHANGED <<nvs_format, nvs_floor, nvs_rec, fw, ready, next_seq, base_sec,
                     floor_seq, uptime, get, served>>
    BY DEF WriteMeta, InitReturns, history
<1>2. /\ pc \in Migrating /\ pc' \notin Migrating /\ pc' \in Running
      /\ pc' \notin Locked
      /\ pc' \notin {"append_bump", "append_meta", "off", "mount", "clear", "floor", "meta"}
    BY <1>1 DEF Running, Locked, Migrating
<1>3. /\ next_seq \in Nat /\ base_sec \in Nat /\ floor_seq \in Nat /\ uptime \in Nat
      /\ floor_seq = next_seq /\ nvs_floor = floor_seq /\ nvs_format = fw /\ ready
      /\ \A s \in Slots : nvs_rec[s] = None
    BY <1>1, <1>2 DEF LogInv, MigrateInv, StoreTypeOK
<1>4. FlashNext' = next_seq /\ FlashBase' = base_sec /\ FlashFloor' = next_seq
    <2>1. nvs_meta' # None
        <3>1. nvs_meta' \in Meta
            BY <1>1, <1>3 DEF Meta
        <3> QED
            BY <3>1, StoreAssumption
    <2>2. nvs_floor' # None
        BY <1>1, <1>3, StoreAssumption
    <2> QED
        BY <1>1, <1>3, <2>1, <2>2 DEF FlashNext, FlashBase, FlashFloor
<1>5. DurableNext' = DurableNext /\ DurableBase' = DurableBase
    BY <1>2, <1>4 DEF DurableNext, DurableBase
<1>6. KnownInv'
    <2>1. Known' \subseteq Known
        BY <1>1, <1>5 DEF Known
    <2>2. DurableNext <= DurableNext' /\ DurableBase <= DurableBase'
        BY <1>5, FlashTypes DEF LogInv
    <2> QED
        BY <2>1, <2>2, KnownKeeps DEF LogInv
<1>7. FlashInv'
    <2>1. EntryInv'
        BY <1>1, <1>3 DEF EntryInv
    <2>2. WindowInv'
        BY <1>3, <1>4 DEF WindowInv
    <2> QED
        BY <1>3, <1>4, <2>1, <2>2 DEF FlashInv
<1>8. MigrateInv'
    BY <1>2 DEF MigrateInv
<1>9. RunInv'
    <2>1. get.pc # "read"
        BY <1>1 DEF LogInv, RunInv, Running, Locked
    <2>2. FlashBase' <= store_now'
        BY <1>1, <1>3, <1>4 DEF store_now
    <2> QED
        BY <1>1, <1>2, <1>3, <1>4, <2>1, <2>2 DEF RunInv
<1>10. DurableHeld = {} /\ DurableHeld' = {}
    BY <1>1, <1>3 DEF DurableHeld
<1> QED
    BY <1>5, <1>6, <1>7, <1>8, <1>9, <1>10 DEF LogInv, Benign, LogStutter

\* The record reaches flash.  It is not in the log yet, but the record whose
\* slot it takes, exactly one ring older, is gone.
LEMMA WriteRecStep ==
    ASSUME LogInv, StoreTypeOK', AppendWriteRec
    PROVE  LogInv' /\ (Log!AgeOut \/ LogStutter)
<1> DEFINE F == FlashNext
           old == nvs_rec[Slot(F)]
<1>1. /\ pc = "append_rec" /\ pc' = "append_bump" /\ ready
      /\ UNCHANGED <<nvs_meta, nvs_format, nvs_floor, fw, ram, uptime, rec, get, served>>
    BY DEF AppendWriteRec, history
<1>2. /\ pc \in Locked /\ pc' \in Locked /\ pc \in Running /\ pc' \in Running
      /\ pc \notin Migrating /\ pc' \notin Migrating
      /\ pc' \notin {"append_meta", "off", "mount", "clear", "floor", "meta"}
    BY <1>1 DEF Running, Locked, Migrating
<1>3. /\ init_ok /\ rec.seq = F /\ rec.size = fw /\ nvs_format = fw
      /\ next_seq = F /\ floor_seq = FlashFloor
    BY <1>1, <1>2 DEF LogInv, RunInv
<1>4. /\ rec \in Record /\ rec # None
      /\ F \in Nat /\ Slot(F) \in Slots /\ STORE_CAPACITY \in Nat \ {0}
      /\ nvs_rec \in [Slots -> Record \union {None}]
    BY <1>2, FlashTypes, SlotInRange DEF LogInv, StoreTypeOK
<1>5. /\ nvs_rec'[Slot(F)] = rec
      /\ \A s \in Slots : s # Slot(F) => nvs_rec'[s] = nvs_rec[s]
    BY <1>3, <1>4 DEF AppendWriteRec
<1>6. UNCHANGED <<FlashNext, FlashBase, FlashFloor, DurableNext, DurableBase, store_now>>
    BY <1>1, <1>2 DEF FlashNext, FlashBase, FlashFloor, DurableNext, DurableBase,
                      store_now, ram
<1>7. DurableNext = F
    BY <1>2 DEF DurableNext
<1>e. EntryInv /\ WindowInv
    BY <1>2 DEF LogInv, FlashInv
<1>f. \A s \in Slots : nvs_rec[s] # None => nvs_rec[s].seq \in Nat
    BY FlashTypes DEF LogInv, Record
<1>8. FlashInv'
    <2>1. EntryInv'
        <3> SUFFICES ASSUME NEW s \in Slots, nvs_rec'[s] # None
                     PROVE  /\ Slot(nvs_rec'[s].seq) = s
                            /\ nvs_rec'[s].seq <= F
                            /\ F <= nvs_rec'[s].seq + STORE_CAPACITY
            BY <1>6 DEF EntryInv
        <3>1. CASE s = Slot(F)
            BY <1>3, <1>4, <1>5, <3>1
        <3>2. CASE s # Slot(F)
            BY <1>5, <1>e, <3>2 DEF EntryInv
        <3> QED
            BY <3>1, <3>2
    <2>2. WindowInv'
        <3> SUFFICES ASSUME NEW q \in Nat, FlashFloor <= q, q < F,
                            F <= q + STORE_CAPACITY
                     PROVE  /\ nvs_rec'[Slot(q)] # None
                            /\ nvs_rec'[Slot(q)].size = nvs_format
                            /\ \/ nvs_rec'[Slot(q)].seq = q
                               \/ /\ nvs_rec'[Slot(q)].seq = F
                                  /\ q + STORE_CAPACITY = F
            BY <1>1, <1>6 DEF WindowInv
        <3>1. CASE Slot(q) = Slot(F)
            <4>1. q + STORE_CAPACITY = F
                BY <1>4, <3>1, SlotShared
            <4> QED
                BY <1>3, <1>4, <1>5, <3>1, <4>1
        <3>2. CASE Slot(q) # Slot(F)
            <4>1. Slot(q) \in Slots
                BY SlotInRange
            <4> QED
                BY <1>5, <1>e, <3>2, <4>1 DEF WindowInv
        <3> QED
            BY <3>1, <3>2
    <2> QED
        BY <1>2, <1>6, <2>1, <2>2 DEF FlashInv, LogInv
<1>9. KnownInv'
    <2>1. Known' \subseteq Known
        <3> SUFFICES ASSUME NEW s \in Slots, nvs_rec'[s] # None, nvs_rec'[s].seq < F
                     PROVE  nvs_rec'[s] \in Known
            BY <1>1, <1>6, <1>7 DEF Known
        <3>1. s # Slot(F)
            BY <1>3, <1>4, <1>5
        <3> QED
            BY <1>5, <1>7, <3>1 DEF Known
    <2>2. DurableNext <= DurableNext' /\ DurableBase <= DurableBase'
        BY <1>6, FlashTypes DEF LogInv
    <2> QED
        BY <2>1, <2>2, KnownKeeps DEF LogInv
<1>10. MigrateInv'
    BY <1>2 DEF MigrateInv
<1>11. RunInv'
    BY <1>1, <1>2, <1>3, <1>5, <1>6 DEF LogInv, RunInv, ram
<1>12. ASSUME old \in DurableHeld
       PROVE  Log!AgeOut
    <2>1. old # None /\ old.seq < F /\ old.seq \in Nat /\ Slot(old.seq) = Slot(F)
          /\ F <= old.seq + STORE_CAPACITY
        BY <1>4, <1>7, <1>12, <1>e, <1>f DEF DurableHeld, EntryInv
    <2>2. old.seq + STORE_CAPACITY = F
        BY <1>4, <2>1, SlotShared
    <2>3. \A s \in Slots : s # Slot(F) => nvs_rec[s] # old
        BY <2>1, <1>e DEF EntryInv
    <2>4. DurableHeld' = DurableHeld \ {old}
        <3>1. ASSUME NEW r \in DurableHeld' PROVE r \in DurableHeld \ {old}
            <4>1. PICK s \in Slots : r = nvs_rec'[s] /\ r # None /\ r.seq < F
                                     /\ r.size = nvs_format
                BY <1>1, <1>6, <1>7, <3>1 DEF DurableHeld
            <4>2. s # Slot(F)
                BY <1>3, <1>4, <1>5, <4>1
            <4>3. r = nvs_rec[s]
                BY <1>5, <4>1, <4>2
            <4> QED
                BY <1>7, <2>3, <4>1, <4>2, <4>3 DEF DurableHeld
        <3>2. ASSUME NEW r \in DurableHeld, r # old PROVE r \in DurableHeld'
            <4>1. PICK s \in Slots : r = nvs_rec[s] /\ r # None /\ r.seq < DurableNext
                                     /\ r.size = nvs_format
                BY <3>2 DEF DurableHeld
            <4>2. s # Slot(F)
                BY <3>2, <4>1
            <4>3. r = nvs_rec'[s]
                BY <1>5, <4>1, <4>2
            <4> QED
                BY <1>1, <1>6, <4>1, <4>3 DEF DurableHeld
        <3> QED
            BY <3>1, <3>2
    <2> QED
        BY <1>6, <1>7, <1>12, <2>2, <2>4 DEF Log!AgeOut
<1>13. ASSUME old \notin DurableHeld
       PROVE  DurableHeld' = DurableHeld
    <2>1. ASSUME NEW r \in DurableHeld' PROVE r \in DurableHeld
        <3>1. PICK s \in Slots : r = nvs_rec'[s] /\ r # None /\ r.seq < F
                                 /\ r.size = nvs_format
            BY <1>1, <1>6, <1>7, <2>1 DEF DurableHeld
        <3>2. s # Slot(F)
            BY <1>3, <1>4, <1>5, <3>1
        <3> QED
            BY <1>5, <1>7, <3>1, <3>2 DEF DurableHeld
    <2>2. ASSUME NEW r \in DurableHeld PROVE r \in DurableHeld'
        <3>1. PICK s \in Slots : r = nvs_rec[s] /\ r # None /\ r.seq < DurableNext
                                 /\ r.size = nvs_format
            BY <2>2 DEF DurableHeld
        <3>2. s # Slot(F)
            BY <1>13, <2>2, <3>1
        <3>3. r = nvs_rec'[s]
            BY <1>5, <3>1, <3>2
        <3> QED
            BY <1>1, <1>6, <3>1, <3>3 DEF DurableHeld
    <2> QED
        BY <2>1, <2>2
<1> QED
    BY <1>6, <1>8, <1>9, <1>10, <1>11, <1>12, <1>13 DEF LogInv, Benign, LogStutter

\* META reaches flash: the record joins the log under the next number.
LEMMA AppendMetaStep ==
    ASSUME LogInv, StoreTypeOK', AppendWriteMeta
    PROVE  LogInv' /\ Log!Publish
<1> DEFINE F == FlashNext
<1>1. /\ pc = "append_meta" /\ pc' = "run"
      /\ nvs_meta' = [next_seq |-> next_seq, base_sec |-> base_sec]
      /\ UNCHANGED <<nvs_format, nvs_floor, nvs_rec, fw, ram, uptime, get, served>>
    BY DEF AppendWriteMeta, history
<1>2. /\ pc \in Locked /\ pc \in Running /\ pc' \in Running /\ pc' \notin Locked
      /\ pc \notin Migrating /\ pc' \notin Migrating
      /\ pc' \notin {"append_bump", "append_meta", "off", "mount", "clear", "floor", "meta"}
    BY <1>1 DEF Running, Locked, Migrating
<1>3. /\ init_ok /\ ready /\ rec.seq = F /\ rec.size = fw /\ nvs_format = fw
      /\ next_seq = F + 1 /\ floor_seq = FlashFloor
      /\ nvs_rec[Slot(F)] = rec
      /\ base_sec = rec.ts /\ FlashBase <= rec.ts /\ rec.ts <= store_now
    BY <1>1, <1>2 DEF LogInv, RunInv
<1>4. /\ rec \in Record /\ rec # None /\ rec.ts \in Nat
      /\ F \in Nat /\ Slot(F) \in Slots /\ STORE_CAPACITY \in Nat \ {0}
      /\ FlashFloor \in Nat /\ FlashBase \in Nat
      /\ next_seq \in Nat /\ base_sec \in Nat
    BY <1>2, FlashTypes, SlotInRange DEF LogInv, StoreTypeOK, Record
<1>5. nvs_meta' # None
    <2>1. nvs_meta' \in Meta
        BY <1>1, <1>4 DEF Meta
    <2> QED
        BY <2>1, StoreAssumption
<1>6. /\ FlashNext' = F + 1 /\ FlashBase' = rec.ts /\ FlashFloor' = FlashFloor
      /\ DurableNext' = F + 1 /\ DurableBase' = rec.ts
      /\ DurableNext = F /\ DurableBase = FlashBase
      /\ store_now' = store_now
    BY <1>1, <1>2, <1>3, <1>5
    DEF FlashNext, FlashBase, FlashFloor, DurableNext, DurableBase, store_now, ram
<1>e. EntryInv /\ WindowInv /\ FlashFloor <= F
    BY <1>2 DEF LogInv, FlashInv
<1>f. \A s \in Slots : nvs_rec[s] # None => nvs_rec[s].seq \in Nat
    BY FlashTypes DEF LogInv, Record
\* The only record numbered F in flash is the one just written.
<1>7. ASSUME NEW s \in Slots, nvs_rec[s] # None, ~(nvs_rec[s].seq < F)
      PROVE  nvs_rec[s] = rec
    <2>1. nvs_rec[s].seq = F
        BY <1>4, <1>7, <1>e, <1>f DEF EntryInv
    <2>2. s = Slot(F)
        BY <1>7, <2>1, <1>e DEF EntryInv
    <2> QED
        BY <1>3, <2>2
<1>8. FlashInv'
    <2>1. EntryInv'
        <3> SUFFICES ASSUME NEW s \in Slots, nvs_rec[s] # None
                     PROVE  /\ Slot(nvs_rec[s].seq) = s
                            /\ nvs_rec[s].seq <= F + 1
                            /\ F + 1 <= nvs_rec[s].seq + STORE_CAPACITY
            BY <1>1, <1>6 DEF EntryInv
        <3>1. /\ Slot(nvs_rec[s].seq) = s /\ nvs_rec[s].seq <= F
              /\ F <= nvs_rec[s].seq + STORE_CAPACITY /\ nvs_rec[s].seq \in Nat
            BY <1>e, <1>f DEF EntryInv
        <3>2. nvs_rec[s].seq + STORE_CAPACITY # F
            <4> SUFFICES ASSUME nvs_rec[s].seq + STORE_CAPACITY = F
                         PROVE  FALSE
                OBVIOUS
            <4>1. s = Slot(F)
                BY <3>1, SlotWraps
            <4>2. nvs_rec[s].seq = F
                BY <1>3, <4>1
            <4> QED
                BY <1>4, <3>1, <4>2
        <3> QED
            BY <1>4, <3>1, <3>2
    <2>2. WindowInv'
        <3> SUFFICES ASSUME NEW q \in Nat, FlashFloor <= q, q < F + 1,
                            F + 1 <= q + STORE_CAPACITY
                     PROVE  /\ nvs_rec[Slot(q)] # None
                            /\ nvs_rec[Slot(q)].size = nvs_format
                            /\ nvs_rec[Slot(q)].seq = q
            BY <1>1, <1>6 DEF WindowInv
        <3>1. CASE q = F
            BY <1>3, <1>4, <3>1
        <3>2. CASE q # F
            <4>1. q < F /\ F <= q + STORE_CAPACITY /\ q + STORE_CAPACITY # F
                BY <1>4, <3>2
            <4> QED
                BY <1>e, <4>1 DEF WindowInv
        <3> QED
            BY <3>1, <3>2
    <2>3. FlashFloor' <= FlashNext'
        BY <1>4, <1>6, <1>e
    <2> QED
        BY <2>1, <2>2, <2>3 DEF FlashInv
<1>9. KnownInv'
    <2>1. ASSUME NEW r \in Known' PROVE r \in Known \/ r = rec
        <3>1. CASE r \in served
            BY <3>1 DEF Known
        <3>2. CASE r \notin served
            <4>1. PICK s \in Slots : r = nvs_rec[s] /\ r # None
                BY <1>1, <2>1, <3>2 DEF Known
            <4> QED
                BY <1>6, <1>7, <4>1 DEF Known
        <3> QED
            BY <3>1, <3>2
    <2>2. \A r \in Known : r.seq \in Nat /\ r.ts \in Nat /\ r.seq < F /\ r.ts <= rec.ts
        <3> SUFFICES ASSUME NEW r \in Known
                     PROVE  r.seq \in Nat /\ r.ts \in Nat /\ r.seq < F /\ r.ts <= rec.ts
            OBVIOUS
        <3>1. r.seq \in Nat /\ r.ts \in Nat
            BY KnownTypes DEF LogInv
        <3>2. r.seq < F /\ r.ts <= FlashBase
            BY <1>6 DEF LogInv, KnownInv
        <3> QED
            BY <1>3, <1>4, <3>1, <3>2
    <2>3. \A r \in Known' : r.seq < F + 1 /\ r.ts <= rec.ts
        BY <1>3, <1>4, <2>1, <2>2
    <2>4. ASSUME NEW r1 \in Known', NEW r2 \in Known'
          PROVE  /\ r1.seq = r2.seq => r1 = r2
                 /\ r1.seq < r2.seq => r1.ts <= r2.ts
        <3>1. CASE r1 \in Known /\ r2 \in Known
            BY <3>1 DEF LogInv, KnownInv
        <3>2. CASE r1 = rec
            BY <1>3, <1>4, <2>1, <2>2, <3>2
        <3>3. CASE r2 = rec
            BY <1>3, <1>4, <2>1, <2>2, <3>3
        <3> QED
            BY <2>1, <3>1, <3>2, <3>3
    <2> QED
        BY <1>6, <2>3, <2>4 DEF KnownInv
<1>10. MigrateInv'
    BY <1>2 DEF MigrateInv
<1>11. RunInv'
    BY <1>1, <1>2, <1>3, <1>6 DEF LogInv, RunInv, ram
<1>12. DurableHeld' = DurableHeld \union {rec} /\ rec \in DurableHeld'
    <2>1. rec \in DurableHeld'
        BY <1>1, <1>3, <1>4, <1>6 DEF DurableHeld
    <2>2. ASSUME NEW r \in DurableHeld' PROVE r \in DurableHeld \/ r = rec
        <3>1. PICK s \in Slots : r = nvs_rec[s] /\ r # None /\ r.size = nvs_format
            BY <1>1, <2>2 DEF DurableHeld
        <3> QED
            BY <1>6, <1>7, <3>1 DEF DurableHeld
    <2>3. ASSUME NEW r \in DurableHeld PROVE r \in DurableHeld'
        <3>1. PICK s \in Slots : /\ r = nvs_rec[s] /\ r # None /\ r.size = nvs_format
                                 /\ r.seq < F
            BY <1>6, <2>3 DEF DurableHeld
        <3>2. r.seq < F + 1
            BY <1>4, <1>f, <3>1
        <3> QED
            BY <1>1, <1>6, <3>1, <3>2 DEF DurableHeld
    <2> QED
        BY <2>1, <2>2, <2>3
<1> QED
    BY <1>3, <1>4, <1>6, <1>8, <1>9, <1>10, <1>11, <1>12 DEF LogInv, Benign, Log!Publish

\* store_get hands out what it found, which could be handed out before.
LEMMA GetReadStep ==
    ASSUME LogInv, StoreTypeOK', GetRead
    PROVE  LogInv' /\ LogStutter
<1>1. /\ get.pc = "read" /\ pc \notin Locked /\ get'.pc = "done"
      /\ served' = served \union ({ReadBack(get.seq)} \ {None})
      /\ UNCHANGED <<flash, fw, ram, uptime, pc, rec>>
    BY DEF GetRead
<1>2. get.seq \in Nat /\ get.seq < next_seq /\ pc = "run"
    BY <1>1 DEF LogInv, RunInv, StoreTypeOK, Running
<1>3. pc \in Running /\ pc \notin Migrating /\ next_seq = DurableNext
    <2>1. pc \in Running /\ pc \notin Migrating
        BY <1>2 DEF Running, Migrating
    <2>2. init_ok
        BY <1>2, <2>1 DEF LogInv, RunInv
    <2> QED
        BY <1>2, <2>1, <2>2 DEF LogInv, RunInv, DurableNext
<1>4. UNCHANGED <<FlashNext, FlashBase, FlashFloor, DurableNext, DurableBase,
                  DurableHeld, store_now>>
    BY <1>1, <1>3 DEF FlashNext, FlashBase, FlashFloor, DurableNext, DurableBase,
                      DurableHeld, store_now, flash, ram
<1>5. ReadBack(get.seq) # None => ReadBack(get.seq) \in Known
    <2>1. Slot(get.seq) \in Slots
        BY <1>2, SlotInRange
    <2> QED
        BY <1>2, <1>3, <2>1 DEF ReadBack, Known
<1>6. Known' \subseteq Known
    BY <1>1, <1>4, <1>5 DEF Known, flash
<1>7. KnownInv'
    <2>1. DurableNext <= DurableNext' /\ DurableBase <= DurableBase'
        BY <1>4, FlashTypes DEF LogInv
    <2> QED
        BY <1>6, <2>1, KnownKeeps DEF LogInv
<1>8. FlashInv'
    BY <1>1, <1>4 DEF LogInv, FlashInv, EntryInv, WindowInv, flash
<1>9. MigrateInv' /\ RunInv'
    BY <1>1, <1>4 DEF LogInv, MigrateInv, RunInv, flash, ram
<1> QED
    BY <1>4, <1>7, <1>8, <1>9 DEF LogInv, Benign, LogStutter

\* The steps that leave flash alone.
LEMMA QuietStep ==
    ASSUME LogInv, StoreTypeOK', UNCHANGED <<flash, served>>,
           \/ pc \notin Migrating /\ pc' \notin Migrating
           \/ UNCHANGED <<pc, next_seq, base_sec>>,
           MigrateInv', RunInv'
    PROVE  LogInv' /\ LogStutter
BY Quiet DEF LogInv, Benign, LogStutter

\* Each step of src/store.c keeps the invariant and is a step of the log or
\* none at all.
LEMMA LogStep ==
    ASSUME LogInv, [StoreNext]_storeVars
    PROVE  LogInv' /\ (Log!LogNext \/ LogStutter)
<1>t. StoreTypeOK /\ StoreTypeOK'
    BY TypeStep DEF LogInv
<1>m. MigrateInv /\ RunInv /\ Benign
    BY DEF LogInv
<1>f. FlashNext \in Nat /\ FlashBase \in Nat /\ FlashFloor \in Nat
    BY <1>t, FlashTypes
<1> USE DEF flash, ram, history, Migrating, Locked, Running
<1>u. ASSUME UNCHANGED <<flash, served>>
      PROVE  UNCHANGED <<FlashNext, FlashBase, FlashFloor>>
    BY <1>u DEF FlashNext, FlashBase, FlashFloor
<1>1. ASSUME NEW f \in Formats, PowerOn(f) PROVE LogInv' /\ LogStutter
    <2>1. MigrateInv' /\ RunInv'
        BY <1>1, <1>m DEF PowerOn, MigrateInv, RunInv
    <2> QED
        BY <1>1, <1>t, <2>1, QuietStep DEF PowerOn
<1>2. CASE PowerLoss
    <2>1. MigrateInv' /\ RunInv'
        BY <1>2 DEF PowerLoss, RamLost, MigrateInv, RunInv, NoGet
    <2> QED
        BY <1>2, <1>t, <1>m, <2>1, QuietStep DEF PowerLoss, RamLost, Benign
<1>3. CASE Tick
    <2>1. UNCHANGED <<flash, served, ready, init_ok, next_seq, base_sec, floor_seq,
                      fw, pc, rec, get>>
        BY <1>3 DEF Tick
    <2>2. UNCHANGED <<FlashNext, FlashBase, FlashFloor>>
        BY <2>1, <1>u
    <2>3. store_now' = store_now + 1 /\ store_now \in Nat
        BY <1>3, <1>t DEF Tick, store_now, StoreTypeOK
    <2>4. MigrateInv'
        BY <1>m, <2>1, <2>2 DEF MigrateInv
    <2>5. RunInv'
        <3>1. pc \in Locked => rec.ts \in Nat
            BY <1>t DEF StoreTypeOK, Record
        <3>2. FlashBase <= store_now => FlashBase <= store_now'
            BY <1>f, <2>3
        <3>3. pc \in Locked /\ rec.ts <= store_now => rec.ts <= store_now'
            BY <2>3, <3>1
        <3> QED
            BY <1>m, <2>1, <2>2, <3>2, <3>3 DEF RunInv
    <2> QED
        BY <1>t, <2>1, <2>4, <2>5, QuietStep
<1>4. ASSUME NEW lost \in SUBSET (InitReads \intersect Faults), Mount(lost)
      PROVE  LogInv' /\ LogStutter
    <2>0. "meta_read" \notin lost /\ "floor_read" \notin lost
        BY <1>m DEF Benign
    <2>1. /\ pc = "mount" /\ ready' = TRUE /\ pc' \in {"run", "clear"}
          /\ next_seq' = FlashNext /\ base_sec' = FlashBase
          /\ UNCHANGED <<flash, fw, uptime, rec, get, served>>
        BY <1>4, <2>0 DEF Mount, InitReturns, FlashNext, FlashBase
    <2>2. UNCHANGED <<FlashNext, FlashBase, FlashFloor>>
        BY <2>1, <1>u
    <2>3. get.pc # "read"
        BY <1>m, <2>1 DEF RunInv
    <2>4. CASE nvs_format = fw /\ "format_read" \notin lost
        <3>1. pc' = "run" /\ init_ok' = TRUE /\ boot_offset' = FlashBase
              /\ floor_seq' = FlashFloor
            BY <1>4, <1>m, <2>0, <2>4 DEF Mount, InitReturns, FlashBase, FlashFloor, MigrateInv
        <3>2. FlashBase' <= store_now'
            BY <1>t, <1>f, <2>1, <2>2, <3>1 DEF store_now, StoreTypeOK
        <3>3. MigrateInv' /\ RunInv'
            BY <2>1, <2>2, <2>3, <2>4, <3>1, <3>2 DEF MigrateInv, RunInv
        <3> QED
            BY <1>t, <2>1, <3>3, QuietStep
    <2>5. CASE ~(nvs_format = fw /\ "format_read" \notin lost)
        <3>1. pc' = "clear" /\ init_ok' = init_ok
            BY <1>4, <2>5 DEF Mount
        <3>2. MigrateInv' /\ RunInv'
            BY <1>m, <2>1, <2>2, <2>3, <3>1 DEF MigrateInv, RunInv
        <3> QED
            BY <1>t, <2>1, <3>2, QuietStep
    <2> QED
        BY <2>4, <2>5
<1>5. CASE MountFails
    <2>1. ~ready
        BY <1>5, <1>m DEF MountFails, MigrateInv
    <2>2. MigrateInv' /\ RunInv'
        BY <1>5, <1>m, <2>1 DEF MountFails, InitFails, MigrateInv, RunInv
    <2> QED
        BY <1>5, <1>t, <2>2, QuietStep DEF MountFails, InitFails
<1>6. CASE Clear
    BY <1>6, <1>t, ClearStep DEF Log!LogNext
<1>7. CASE WriteFormat \/ WriteFloor
    BY <1>7, <1>t, RewriteStep
<1>8. CASE WriteMeta
    BY <1>8, <1>t, WriteMetaStep
<1>9. ~ClearFails /\ ~ClearCut /\ ~MigrationWriteFails /\ ~AppendMetaFails
    BY <1>m DEF ClearFails, ClearCut, MigrationWriteFails, AppendMetaFails, Benign
<1>10. ASSUME NEW v \in Readings, AppendBegin(v) PROVE LogInv' /\ LogStutter
    <2>1. /\ pc = "run" /\ pc' = "append_rec"
          /\ rec'.seq = next_seq /\ rec'.ts = store_now /\ rec'.size = fw
          /\ UNCHANGED <<flash, fw, ram, uptime, get, served>>
        BY <1>10 DEF AppendBegin
    <2>2. UNCHANGED <<FlashNext, FlashBase, FlashFloor, store_now>>
        BY <2>1, <1>u DEF store_now
    <2>3. store_now \in Nat
        BY <1>t DEF store_now, StoreTypeOK
    <2>4. MigrateInv' /\ RunInv'
        BY <1>m, <2>1, <2>2, <2>3 DEF MigrateInv, RunInv
    <2> QED
        BY <1>t, <2>1, <2>4, QuietStep
<1>11. CASE AppendWriteRec
    BY <1>11, <1>t, WriteRecStep DEF Log!LogNext
<1>12. CASE AppendRecFails
    <2>1. /\ pc = "append_rec" /\ pc' = "run"
          /\ UNCHANGED <<flash, fw, ram, uptime, get, served>>
        BY <1>12 DEF AppendRecFails
    <2>2. UNCHANGED <<FlashNext, FlashBase, FlashFloor, store_now>>
        BY <2>1, <1>u DEF store_now
    <2>3. MigrateInv' /\ RunInv'
        BY <1>m, <2>1, <2>2 DEF MigrateInv, RunInv
    <2> QED
        BY <1>t, <2>1, <2>3, QuietStep
<1>13. CASE AppendBump
    <2>1. /\ pc = "append_bump" /\ pc' = "append_meta"
          /\ next_seq' = next_seq + 1 /\ base_sec' = rec.ts
          /\ UNCHANGED <<flash, fw, ready, init_ok, boot_offset, floor_seq, uptime,
                         rec, get, served>>
        BY <1>13 DEF AppendBump
    <2>2. UNCHANGED <<FlashNext, FlashBase, FlashFloor, store_now>>
        BY <2>1, <1>u DEF store_now
    <2>3. init_ok /\ next_seq = FlashNext
        BY <1>m, <2>1 DEF RunInv
    <2>4. get.pc = "read" => get.seq < next_seq'
        BY <1>m, <1>t, <2>1 DEF RunInv, StoreTypeOK
    <2>5. MigrateInv' /\ RunInv'
        BY <1>m, <2>1, <2>2, <2>3, <2>4 DEF MigrateInv, RunInv
    <2> QED
        BY <1>t, <2>1, <2>5, QuietStep
<1>14. CASE AppendWriteMeta
    BY <1>14, <1>t, AppendMetaStep DEF Log!LogNext
<1>15. ASSUME NEW q \in 0 .. MaxSeq, GetCheck(q) PROVE LogInv' /\ LogStutter
    <2>1. /\ pc \in Running /\ get'.pc = "read" => get'.seq < next_seq
          /\ UNCHANGED <<flash, fw, ram, uptime, pc, rec, served>>
        <3>1. q \in Nat /\ next_seq \in Nat
            BY <1>t, StoreAssumption DEF StoreTypeOK
        <3> QED
            BY <1>15, <3>1 DEF GetCheck
    <2>2. UNCHANGED <<FlashNext, FlashBase, FlashFloor, store_now>>
        BY <2>1, <1>u DEF store_now
    <2>3. pc \in Running
        BY <1>15 DEF GetCheck
    <2>4. MigrateInv' /\ RunInv'
        BY <1>m, <2>1, <2>2, <2>3 DEF MigrateInv, RunInv
    <2> QED
        BY <1>t, <2>1, <2>4, QuietStep
<1>16. CASE GetRead
    BY <1>16, <1>t, GetReadStep
<1>18. CASE GetReadFails
    <2>1. get'.pc = "done" /\ UNCHANGED <<flash, fw, ram, uptime, pc, rec, served>>
        BY <1>18 DEF GetReadFails
    <2>2. UNCHANGED <<FlashNext, FlashBase, FlashFloor, store_now>>
        BY <2>1, <1>u DEF store_now
    <2>3. MigrateInv' /\ RunInv'
        BY <1>m, <2>1, <2>2 DEF MigrateInv, RunInv
    <2> QED
        BY <1>t, <2>1, <2>3, QuietStep
<1>17. CASE UNCHANGED storeVars
    <2>1. UNCHANGED <<flash, fw, ram, uptime, pc, rec, get, served>>
        BY <1>17 DEF storeVars
    <2>2. UNCHANGED <<FlashNext, FlashBase, FlashFloor, store_now>>
        BY <2>1, <1>u DEF store_now
    <2>3. MigrateInv' /\ RunInv'
        BY <1>m, <2>1, <2>2 DEF MigrateInv, RunInv
    <2> QED
        BY <1>t, <2>1, <2>3, QuietStep
<1> QED
    BY <1>1, <1>2, <1>3, <1>4, <1>5, <1>6, <1>7, <1>8, <1>9, <1>10, <1>11,
       <1>12, <1>13, <1>14, <1>15, <1>16, <1>17, <1>18
    DEF StoreNext, MainNext

\* A chip that was never written is an empty log.
LEMMA LogInitial == StoreInit /\ Benign => LogInv /\ Log!LogInit
<1> SUFFICES ASSUME StoreInit, Benign PROVE LogInv /\ Log!LogInit
    OBVIOUS
<1>1. StoreTypeOK
    BY StoreTypeInit
<1>2. /\ pc = "off" /\ nvs_meta = None /\ nvs_floor = None
      /\ \A s \in Slots : nvs_rec[s] = None
      /\ served = {} /\ get.pc = "done"
      /\ ~ready /\ ~init_ok /\ floor_seq = 0 /\ next_seq = 0
    BY DEF StoreInit, NoGet
<1>3. FlashNext = 0 /\ FlashFloor = 0 /\ DurableNext = 0
    BY <1>2 DEF FlashNext, FlashFloor, DurableNext, Migrating
<1>4. MigrateInv /\ RunInv
    BY <1>2 DEF MigrateInv, RunInv, Migrating, Running, Locked
<1>5. FlashInv
    BY <1>2, <1>3 DEF FlashInv, EntryInv, WindowInv
<1>6. KnownInv
    BY <1>2 DEF KnownInv, Known
<1>7. Log!LogInit
    BY <1>2, <1>3 DEF Log!LogInit, DurableHeld
<1> QED
    BY <1>1, <1>4, <1>5, <1>6, <1>7 DEF LogInv

LEMMA LogInvAlways == StoreSpec /\ Benign => []LogInv
<1>1. LogInv /\ [StoreNext]_storeVars => LogInv'
    BY LogStep
<1> QED
    BY <1>1, LogInitial, PTL DEF StoreSpec

\* src/store.c implements the log of module RecordLog: whatever power cuts,
\* failed mounts, failed reads of FORMAT, failed reads and writes of records
\* and format changes (but no cut inside one) happen, what flash
\* says changes only by publishing the next number, by the oldest record
\* making room, or by dropping all records with the numbering kept.
THEOREM StoreRefinesLog == StoreSpec /\ Benign => RefinesLog
<1>1. LogInv /\ [StoreNext]_storeVars => LogInv' /\ [Log!LogNext]_(Log!logVars)
    BY LogStep DEF LogStutter, Log!logVars
<1> QED
    BY <1>1, LogInitial, PTL DEF StoreSpec, RefinesLog, Log!LogSpec

\* The counter a boot would resume from never goes back.
THEOREM SeqSurvivesAlways == StoreSpec /\ Benign => SeqSurvives
<1>1. LogInv /\ [StoreNext]_storeVars => [DurableNext' >= DurableNext]_storeVars
    <2> SUFFICES ASSUME LogInv, [StoreNext]_storeVars
                 PROVE  DurableNext' >= DurableNext
        OBVIOUS
    <2>1. Log!LogNext \/ LogStutter
        BY LogStep
    <2>2. DurableNext \in Nat
        BY FlashTypes DEF LogInv
    <2>3. DurableNext' = DurableNext + 1 \/ DurableNext' = DurableNext
        BY <2>1 DEF LogStutter, Log!LogNext, Log!Publish, Log!AgeOut, Log!DropAll
    <2> QED
        BY <2>2, <2>3
<1> QED
    BY <1>1, LogInvAlways, PTL DEF StoreSpec, SeqSurvives

\* No two different records are ever handed out under one number, across
\* reboots and format changes.
THEOREM NoSeqReuseAlways == StoreSpec /\ Benign => []NoSeqReuse
<1>1. LogInv => NoSeqReuse
    BY DEF LogInv, KnownInv, Known, NoSeqReuse
<1> QED
    BY <1>1, LogInvAlways, PTL

\* The stamps of the records that are handed out never run backwards along
\* their numbers.
THEOREM TsFollowsSeqAlways == StoreSpec /\ Benign => []TsFollowsSeq
<1>1. LogInv => TsFollowsSeq
    BY DEF LogInv, KnownInv, Known, TsFollowsSeq
<1> QED
    BY <1>1, LogInvAlways, PTL

\* The window a dump is clamped to is never inverted and holds what it
\* claims, the oldest record after a torn append excepted.
THEOREM RingHeldAlways == StoreSpec /\ Benign => []RingHeld
<1>1. LogInv => RingHeld
    <2> SUFFICES ASSUME LogInv, init_ok
                 PROVE  /\ store_oldest_seq <= next_seq
                        /\ \A q \in 0 .. MaxSeq :
                              store_oldest_seq <= q /\ q < next_seq => HeldOrTorn(q)
        BY DEF RingHeld
    <2>1. pc \in Running /\ pc \notin Migrating
        BY DEF LogInv, MigrateInv, StoreTypeOK, Pcs, Running, Migrating, Locked
    <2>2. /\ FlashFloor <= FlashNext /\ WindowInv
          /\ floor_seq = FlashFloor /\ nvs_format = fw
          /\ next_seq = IF pc = "append_meta" THEN FlashNext + 1 ELSE FlashNext
        BY <2>1 DEF LogInv, FlashInv, RunInv
    <2>3. /\ FlashNext \in Nat /\ FlashFloor \in Nat /\ next_seq \in Nat
          /\ STORE_CAPACITY \in Nat \ {0} /\ MaxSeq \in Nat
        BY FlashTypes, StoreAssumption DEF LogInv, StoreTypeOK
    <2>4. store_oldest_seq <= next_seq
        BY <2>2, <2>3 DEF store_oldest_seq
    <2>5. ASSUME NEW q \in 0 .. MaxSeq, store_oldest_seq <= q, q < next_seq
          PROVE  HeldOrTorn(q)
        <3>1. q \in Nat /\ FlashFloor <= q /\ next_seq <= q + STORE_CAPACITY
            BY <2>2, <2>3, <2>5 DEF store_oldest_seq
        <3>2. CASE pc # "append_meta"
            BY <2>2, <2>5, <3>1, <3>2 DEF WindowInv, HeldOrTorn
        <3>3. CASE pc = "append_meta" /\ q = FlashNext
            <4>1. /\ rec.seq = FlashNext /\ rec.size = fw /\ rec # None
                  /\ nvs_rec[Slot(rec.seq)] = rec
                BY <3>3 DEF LogInv, RunInv, StoreTypeOK, Locked
            <4> QED
                BY <3>3, <4>1 DEF HeldOrTorn
        <3>4. CASE pc = "append_meta" /\ q # FlashNext
            <4>1. q < FlashNext /\ FlashNext <= q + STORE_CAPACITY
                  /\ q + STORE_CAPACITY # FlashNext
                BY <2>2, <2>3, <2>5, <3>1, <3>4
            <4> QED
                BY <2>2, <3>1, <4>1 DEF WindowInv, HeldOrTorn
        <3> QED
            BY <3>2, <3>3, <3>4
    <2> QED
        BY <2>4, <2>5
<1> QED
    BY <1>1, LogInvAlways, PTL
-----------------------------------------------------------------------------
(* A reader that falls behind while the ring moves on *)

\* Every number that was ever issued since the last format change has its
\* record, or a newer one, in its slot.
Passed ==
    pc \notin Migrating =>
        \A q \in Nat : FlashFloor <= q /\ q < FlashNext =>
            /\ nvs_rec[Slot(q)] # None
            /\ nvs_rec[Slot(q)].size = nvs_format
            /\ nvs_rec[Slot(q)].seq >= q

\* A newer record has taken the slot of q.
Recycled(q) == nvs_rec[Slot(q)] # None /\ nvs_rec[Slot(q)].seq > q

LEMMA PassedStep ==
    ASSUME LogInv, Passed, [StoreNext]_storeVars
    PROVE  Passed'
<1>t. /\ FlashNext \in Nat /\ FlashFloor \in Nat /\ STORE_CAPACITY \in Nat \ {0}
      /\ nvs_rec \in [Slots -> Record \union {None}]
    BY FlashTypes DEF LogInv, StoreTypeOK
<1>m. MigrateInv /\ RunInv /\ Benign
    BY DEF LogInv
<1> USE DEF flash, ram, history, Migrating, Locked, Running
<1>1. ASSUME UNCHANGED flash, pc \notin Migrating
      PROVE  Passed'
    BY <1>1 DEF Passed, FlashFloor, FlashNext
<1>2. CASE pc' \in Migrating
    BY <1>2 DEF Passed
<1>3. CASE WriteMeta
    <2>1. /\ nvs_meta' = [next_seq |-> next_seq, base_sec |-> base_sec]
          /\ nvs_floor' = nvs_floor /\ nvs_floor = floor_seq /\ floor_seq = next_seq
        BY <1>3, <1>m DEF WriteMeta, MigrateInv
    <2>2. nvs_meta' # None /\ next_seq \in Nat /\ next_seq # None
        BY <2>1, StoreAssumption DEF LogInv, StoreTypeOK, Meta
    <2>3. FlashNext' = next_seq /\ FlashFloor' = next_seq
        BY <2>1, <2>2 DEF FlashNext, FlashFloor
    <2> QED
        BY <2>2, <2>3 DEF Passed
<1>4. CASE AppendWriteRec
    <2>1. /\ pc = "append_rec" /\ ready /\ pc \notin Migrating
          /\ UNCHANGED <<nvs_meta, nvs_format, nvs_floor>>
          /\ nvs_rec' = [nvs_rec EXCEPT ![Slot(rec.seq)] = rec]
        BY <1>4 DEF AppendWriteRec
    <2>2. init_ok /\ rec.seq = FlashNext /\ rec.size = fw /\ nvs_format = fw /\ rec # None
        BY <1>m, <2>1 DEF RunInv, LogInv, StoreTypeOK
    <2>3. FlashNext' = FlashNext /\ FlashFloor' = FlashFloor
        BY <2>1 DEF FlashNext, FlashFloor
    <2>4. ASSUME NEW q \in Nat, FlashFloor <= q, q < FlashNext
          PROVE  /\ nvs_rec'[Slot(q)] # None
                 /\ nvs_rec'[Slot(q)].size = nvs_format
                 /\ nvs_rec'[Slot(q)].seq >= q
        <3>1. Slot(q) \in Slots
            BY SlotInRange
        <3>2. CASE Slot(q) = Slot(rec.seq)
            <4>1. nvs_rec'[Slot(q)] = rec
                BY <1>t, <2>1, <3>1, <3>2
            <4> QED
                BY <1>t, <2>2, <2>4, <4>1
        <3>3. CASE Slot(q) # Slot(rec.seq)
            <4>1. nvs_rec'[Slot(q)] = nvs_rec[Slot(q)]
                BY <1>t, <2>1, <3>1, <3>3
            <4> QED
                BY <2>1, <2>4, <4>1 DEF Passed
        <3> QED
            BY <3>2, <3>3
    <2> QED
        BY <2>1, <2>3, <2>4 DEF Passed
<1>5. CASE AppendWriteMeta
    <2>1. /\ pc = "append_meta" /\ pc \notin Migrating
          /\ nvs_meta' = [next_seq |-> next_seq, base_sec |-> base_sec]
          /\ UNCHANGED <<nvs_format, nvs_floor, nvs_rec>>
        BY <1>5 DEF AppendWriteMeta
    <2>2. /\ init_ok /\ rec.seq = FlashNext /\ rec.size = fw /\ nvs_format = fw /\ rec # None
          /\ next_seq = FlashNext + 1 /\ nvs_rec[Slot(rec.seq)] = rec
        BY <1>m, <2>1 DEF RunInv, LogInv, StoreTypeOK
    <2>3. nvs_meta' # None
        BY <2>1, StoreAssumption DEF LogInv, StoreTypeOK, Meta
    <2>4. FlashNext' = FlashNext + 1 /\ FlashFloor' = FlashFloor
        BY <2>1, <2>2, <2>3 DEF FlashNext, FlashFloor
    <2>5. ASSUME NEW q \in Nat, FlashFloor <= q, q < FlashNext + 1
          PROVE  /\ nvs_rec[Slot(q)] # None
                 /\ nvs_rec[Slot(q)].size = nvs_format
                 /\ nvs_rec[Slot(q)].seq >= q
        <3>1. CASE q = FlashNext
            BY <1>t, <2>2, <3>1
        <3>2. CASE q < FlashNext
            BY <2>1, <2>5, <3>2 DEF Passed
        <3> QED
            BY <1>t, <2>5, <3>1, <3>2
    <2> QED
        BY <2>1, <2>4, <2>5 DEF Passed
<1>6. CASE \/ \E f \in Formats : PowerOn(f)
           \/ (\E lost \in SUBSET (InitReads \intersect Faults) : Mount(lost))
           \/ MountFails \/ AppendRecFails \/ AppendBump
           \/ (\E v \in Readings : AppendBegin(v)) \/ UNCHANGED storeVars
    BY <1>1, <1>2, <1>6 DEF PowerOn, Mount, MountFails, AppendRecFails, AppendBump, AppendBegin,
        storeVars
<1>7. CASE Tick \/ (\E q \in 0 .. MaxSeq : GetCheck(q)) \/ GetRead \/ GetReadFails
    BY <1>1, <1>2, <1>7 DEF Tick, GetCheck, GetRead, GetReadFails
<1>8. CASE PowerLoss
    BY <1>1, <1>8, <1>m DEF PowerLoss, Benign
<1>9. CASE Clear \/ WriteFormat \/ WriteFloor
    BY <1>2, <1>9, <1>m DEF Clear, WriteFormat, WriteFloor, Benign
<1>10. CASE ClearFails \/ ClearCut \/ MigrationWriteFails \/ AppendMetaFails
    BY <1>10, <1>m DEF ClearFails, ClearCut, MigrationWriteFails, AppendMetaFails, Benign
<1> QED
    BY <1>3, <1>4, <1>5, <1>6, <1>7, <1>8, <1>9, <1>10 DEF StoreNext, MainNext

LEMMA PassedAlways == StoreSpec /\ Benign => [](LogInv /\ Passed)
<1>1. StoreInit /\ Benign => Passed
    <2> SUFFICES ASSUME StoreInit PROVE Passed
        OBVIOUS
    <2>1. FlashNext = 0
        BY DEF StoreInit, FlashNext
    <2> QED
        BY <2>1 DEF Passed
<1>2. LogInv /\ Passed /\ [StoreNext]_storeVars => Passed'
    BY PassedStep
<1> QED
    BY <1>1, <1>2, LogInvAlways, PTL DEF StoreSpec

\* While the main loop runs, the ends of the ring only move up, and a slot
\* once recycled stays so.
LEMMA RingMoves ==
    ASSUME LogInv, [StoreNext]_storeVars, pc \in Running, pc' \in Running
    PROVE  /\ floor_seq' = floor_seq /\ next_seq \in Nat /\ next_seq' \in Nat
           /\ next_seq <= next_seq' /\ store_oldest_seq \in Nat /\ store_oldest_seq' \in Nat
           /\ store_oldest_seq <= store_oldest_seq'
           /\ \A q \in Nat : Recycled(q) => Recycled(q)'
<1>t. /\ FlashNext \in Nat /\ STORE_CAPACITY \in Nat \ {0} /\ next_seq \in Nat /\ floor_seq \in Nat
      /\ nvs_rec \in [Slots -> Record \union {None}]
    BY FlashTypes DEF LogInv, StoreTypeOK
<1> USE DEF flash, ram, history, Migrating, Locked, Running
<1>1. floor_seq' = floor_seq /\ next_seq' \in {next_seq, next_seq + 1} /\ (nvs_rec' = nvs_rec \/ AppendWriteRec)
    <2>1. CASE AppendWriteRec
        BY <2>1 DEF AppendWriteRec
    <2>2. CASE AppendBump
        BY <2>2 DEF AppendBump
    <2>3. CASE AppendRecFails \/ AppendWriteMeta \/ AppendMetaFails
               \/ (\E v \in Readings : AppendBegin(v)) \/ UNCHANGED storeVars
        BY <2>3 DEF AppendRecFails, AppendWriteMeta, AppendMetaFails, AppendBegin, storeVars
    <2>4. CASE Tick \/ (\E q \in 0 .. MaxSeq : GetCheck(q)) \/ GetRead
               \/ GetReadFails
        BY <2>4 DEF Tick, GetCheck, GetRead, GetReadFails
    <2>5. CASE \/ \E f \in Formats : PowerOn(f)
               \/ (\E lost \in SUBSET (InitReads \intersect Faults) : Mount(lost))
               \/ MountFails \/ Clear \/ ClearFails \/ ClearCut \/ PowerLoss
               \/ WriteFormat \/ WriteFloor \/ WriteMeta \/ MigrationWriteFails
        BY <2>5 DEF PowerOn, Mount, MountFails, Clear, ClearFails, ClearCut, PowerLoss, RamLost,
            WriteFormat, WriteFloor, WriteMeta, MigrationWriteFails
    <2> QED
        BY <2>1, <2>2, <2>3, <2>4, <2>5 DEF StoreNext, MainNext
<1>2. ASSUME NEW q \in Nat, Recycled(q) PROVE Recycled(q)'
    <2>1. CASE nvs_rec' = nvs_rec
        BY <1>2, <2>1 DEF Recycled
    <2>2. CASE AppendWriteRec
        <3>1. /\ pc = "append_rec" /\ ready /\ nvs_rec' = [nvs_rec EXCEPT ![Slot(rec.seq)] = rec]
            BY <2>2 DEF AppendWriteRec
        <3>2. rec.seq = FlashNext /\ rec # None /\ EntryInv
            BY <3>1 DEF LogInv, RunInv, FlashInv, StoreTypeOK
        <3>3. Slot(q) \in Slots
            BY SlotInRange
        <3>4. nvs_rec[Slot(q)] # None /\ nvs_rec[Slot(q)].seq > q /\ nvs_rec[Slot(q)].seq <= FlashNext
            BY <1>2, <3>2, <3>3 DEF Recycled, EntryInv
        <3>5. nvs_rec[Slot(q)].seq \in Nat
            BY <1>t, <3>3, <3>4 DEF Record
        <3>6. CASE Slot(q) = Slot(rec.seq)
            <4>1. nvs_rec'[Slot(q)] = rec
                BY <1>t, <3>1, <3>3, <3>6
            <4> QED
                BY <1>t, <3>2, <3>4, <3>5, <4>1 DEF Recycled
        <3>7. CASE Slot(q) # Slot(rec.seq)
            <4>1. nvs_rec'[Slot(q)] = nvs_rec[Slot(q)]
                BY <1>t, <3>1, <3>3, <3>7
            <4> QED
                BY <3>4, <4>1 DEF Recycled
        <3> QED
            BY <3>6, <3>7
    <2> QED
        BY <1>1, <2>1, <2>2
<1>3. next_seq' \in Nat /\ next_seq <= next_seq' /\ floor_seq' = floor_seq
    BY <1>t, <1>1
<1>4. store_oldest_seq \in Nat /\ store_oldest_seq' \in Nat /\ store_oldest_seq <= store_oldest_seq'
    <2> DEFINE Ring(n) == IF n > STORE_CAPACITY THEN n - STORE_CAPACITY ELSE 0
               Oldest(n) == IF floor_seq > Ring(n) THEN floor_seq ELSE Ring(n)
    <2>0. STORE_CAPACITY \in Nat
        BY <1>t
    <2>1. Ring(next_seq) \in Nat /\ Ring(next_seq') \in Nat /\ Ring(next_seq) <= Ring(next_seq')
        <3>1. ASSUME NEW a \in Nat PROVE Ring(a) \in Nat
            BY <2>0
        <3>2. ASSUME NEW a \in Nat, NEW b \in Nat, a <= b PROVE Ring(a) <= Ring(b)
            BY <2>0, <3>2
        <3> HIDE DEF Ring
        <3> QED
            BY <1>t, <1>3, <3>1, <3>2
    <2>2. store_oldest_seq = Oldest(next_seq) /\ store_oldest_seq' = Oldest(next_seq')
        BY <1>3 DEF store_oldest_seq
    <2> HIDE DEF Ring
    <2> QED
        BY <1>t, <2>1, <2>2
<1> QED
    BY <1>t, <1>2, <1>3, <1>4

\* What the unlocked range check of store_get refuses, of the numbers a dump
\* asks for, has been overwritten.
LEMMA RefusedIsRecycled ==
    ASSUME LogInv, Passed, pc \in Running,
           NEW q \in Nat, floor_seq <= q, q < next_seq, q < store_oldest_seq
    PROVE  Recycled(q)
<1>t. /\ FlashNext \in Nat /\ STORE_CAPACITY \in Nat \ {0} /\ next_seq \in Nat /\ floor_seq \in Nat
      /\ nvs_rec \in [Slots -> Record \union {None}]
    BY FlashTypes DEF LogInv, StoreTypeOK
<1>1. pc \notin Migrating /\ init_ok
    BY <1>t DEF LogInv, RunInv, Migrating, Running, Locked
<1>2. /\ next_seq = IF pc = "append_meta" THEN FlashNext + 1 ELSE FlashNext
      /\ floor_seq = FlashFloor /\ EntryInv
    BY <1>1 DEF LogInv, RunInv, FlashInv
<1>3. q + STORE_CAPACITY < next_seq
    BY <1>t DEF store_oldest_seq
<1>4. q < FlashNext /\ q + STORE_CAPACITY <= FlashNext
    BY <1>t, <1>2, <1>3
<1>5. nvs_rec[Slot(q)] # None /\ nvs_rec[Slot(q)].seq >= q
    BY <1>1, <1>2, <1>4 DEF Passed
<1>6. Slot(q) \in Slots
    BY SlotInRange
<1>7. nvs_rec[Slot(q)].seq \in Nat /\ FlashNext <= nvs_rec[Slot(q)].seq + STORE_CAPACITY
    BY <1>t, <1>2, <1>5, <1>6 DEF EntryInv, Record
<1>8. CASE nvs_rec[Slot(q)].seq # q
    BY <1>5, <1>7, <1>8 DEF Recycled
<1>9. CASE nvs_rec[Slot(q)].seq = q
    <2>1. FlashNext = q + STORE_CAPACITY /\ pc = "append_meta"
        BY <1>t, <1>2, <1>3, <1>4, <1>7, <1>9
    <2>2. rec.seq = FlashNext /\ nvs_rec[Slot(rec.seq)] = rec
        BY <1>1, <2>1 DEF LogInv, RunInv, Locked
    <2>3. Slot(rec.seq) = Slot(q)
        BY <2>1, <2>2, SlotWraps
    <2> QED
        BY <1>t, <1>9, <2>1, <2>2, <2>3
<1> QED
    BY <1>8, <1>9

\* So has what nvs_read and the checks after it turn down.
LEMMA UnreadIsRecycled ==
    ASSUME LogInv, Passed, pc \in Running, pc \notin Locked,
           NEW q \in Nat, floor_seq <= q, q < next_seq, ReadBack(q) = None
    PROVE  Recycled(q)
<1>t. /\ FlashNext \in Nat /\ next_seq \in Nat /\ floor_seq \in Nat
      /\ nvs_rec \in [Slots -> Record \union {None}]
    BY FlashTypes DEF LogInv, StoreTypeOK
<1>1. pc \notin Migrating /\ init_ok /\ pc # "append_meta"
    BY <1>t DEF LogInv, RunInv, Migrating, Running, Locked
<1>2. next_seq = FlashNext /\ floor_seq = FlashFloor /\ nvs_format = fw /\ ready
    BY <1>1 DEF LogInv, RunInv
<1>3. nvs_rec[Slot(q)] # None /\ nvs_rec[Slot(q)].size = fw /\ nvs_rec[Slot(q)].seq >= q
    BY <1>1, <1>2 DEF Passed
<1>4. nvs_rec[Slot(q)].seq # q
    BY <1>2, <1>3 DEF ReadBack
<1>5. nvs_rec[Slot(q)].seq \in Nat
    BY <1>t, <1>3, SlotInRange DEF Record
<1> QED
    BY <1>3, <1>4, <1>5 DEF Recycled

\* What is in the ring has not, but for the oldest.
LEMMA HeldIsNotRecycled ==
    ASSUME LogInv, pc \in Running, NEW q \in Nat, store_oldest_seq < q, q < next_seq
    PROVE  ~Recycled(q)
<1> SUFFICES ASSUME Recycled(q) PROVE FALSE
    OBVIOUS
<1> DEFINE r == nvs_rec[Slot(q)].seq
<1>t. /\ FlashNext \in Nat /\ STORE_CAPACITY \in Nat \ {0} /\ next_seq \in Nat /\ floor_seq \in Nat
      /\ nvs_rec \in [Slots -> Record \union {None}]
    BY FlashTypes DEF LogInv, StoreTypeOK
<1>1. pc \notin Migrating /\ pc \in Running
    BY DEF Migrating, Running, Locked
<1>2. Slot(q) \in Slots /\ nvs_rec[Slot(q)] # None /\ r > q
    BY SlotInRange DEF Recycled
<1>3. r \in Nat /\ Slot(r) = Slot(q) /\ r <= FlashNext
    BY <1>t, <1>1, <1>2 DEF LogInv, FlashInv, EntryInv, Record
<1> HIDE DEF r
<1>4. r >= q + STORE_CAPACITY
    <2>1. r <= q + STORE_CAPACITY => q + STORE_CAPACITY = r
        BY <1>2, <1>3, SlotShared
    <2> QED
        BY <1>t, <1>3, <2>1
<1>5. init_ok
    BY <1>t DEF LogInv, RunInv
<1>6. next_seq >= FlashNext
    BY <1>t, <1>1, <1>5 DEF LogInv, RunInv
<1>7. next_seq >= q + STORE_CAPACITY
    BY <1>t, <1>3, <1>4, <1>6
<1> QED
    BY <1>t, <1>7 DEF store_oldest_seq
=============================================================================
