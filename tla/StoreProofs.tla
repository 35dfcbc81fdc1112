---------------------------- MODULE StoreProofs ----------------------------
(***************************************************************************)
(* Theorems about src/store.c for every ring capacity, every set of record *)
(* formats and contents, every bound and every combination of faults that  *)
(* a theorem does not exclude by name.                                     *)
(***************************************************************************)
EXTENDS Store, Integers, TLAPS
-----------------------------------------------------------------------------
(* Slots of the ring *)

\* The id a record is stored under is one of the ring's ids.
LEMMA SlotInRange ==
    ASSUME NEW q \in Nat
    PROVE  Slot(q) \in Slots
BY StoreAssumption DEF Slot, Slots

\* Division by the capacity, as the provers need it.
LEMMA DivMod ==
    ASSUME NEW C \in Nat \ {0}, NEW a \in Nat
    PROVE  /\ a = C * (a \div C) + (a % C)
           /\ a \div C \in Int
           /\ a % C \in Int
OBVIOUS

\* Two multiples of C that differ by at most C differ by exactly C.
LEMMA OneApart ==
    ASSUME NEW C \in Nat \ {0}, NEW x \in Int, NEW y \in Int,
           0 < C * y - C * x, C * y - C * x <= C
    PROVE  C * y = C * x + C
<1>1. CASE y >= x + 2
    <2>1. C * (y - x) >= C * 2
        BY <1>1
    <2> QED
        BY <2>1
<1>2. CASE y <= x
    <2>1. C * (x - y) >= 0
        BY <1>2
    <2> QED
        BY <2>1
<1>3. CASE y = x + 1
    BY <1>3
<1> QED
    BY <1>1, <1>2, <1>3

\* Two numbers that share a slot and lie within one ring of each other are
\* exactly one ring apart.
LEMMA SlotShared ==
    ASSUME NEW q \in Nat, NEW n \in Nat, q < n, n <= q + STORE_CAPACITY,
           Slot(q) = Slot(n)
    PROVE  q + STORE_CAPACITY = n
<1>1. STORE_CAPACITY \in Nat \ {0}
    BY StoreAssumption
<1>a. PICK x \in Int : q = STORE_CAPACITY * x + Slot(q)
    BY <1>1, DivMod DEF Slot
<1>b. PICK y \in Int : n = STORE_CAPACITY * y + Slot(n)
    BY <1>1, DivMod DEF Slot
<1>c. Slot(q) \in Int
    BY <1>1, DivMod DEF Slot
<1>2. 0 < STORE_CAPACITY * y - STORE_CAPACITY * x
      /\ STORE_CAPACITY * y - STORE_CAPACITY * x <= STORE_CAPACITY
    BY <1>1, <1>a, <1>b, <1>c
<1>3. STORE_CAPACITY * y = STORE_CAPACITY * x + STORE_CAPACITY
    BY <1>1, <1>2, OneApart
<1> QED
    BY <1>1, <1>a, <1>b, <1>c, <1>3
-----------------------------------------------------------------------------
(* Types *)

\* What an interrupted nvs_clear leaves is still what was written, or nothing.
LEMMA PartlyErasedType ==
    ASSUME StoreTypeOK, PartlyErased
    PROVE  /\ nvs_meta' \in Meta \union {None}
           /\ nvs_format' \in Formats \union {None}
           /\ nvs_floor' \in Nat \union {None}
           /\ nvs_rec' \in [Slots -> Record \union {None}]
BY DEF StoreTypeOK, PartlyErased

\* Every action of the store leaves each variable in its C type.
LEMMA TypeStep ==
    StoreTypeOK /\ [StoreNext]_storeVars => StoreTypeOK'
<1> SUFFICES ASSUME StoreTypeOK, [StoreNext]_storeVars
             PROVE  StoreTypeOK'
    OBVIOUS
<1> USE DEF StoreTypeOK, flash, ram, history, Running, Locked
<1>1. ASSUME NEW f \in Formats, PowerOn(f) PROVE StoreTypeOK'
    BY <1>1 DEF PowerOn, Pcs, Locked
<1>2. CASE PowerLoss
    BY <1>2 DEF PowerLoss, RamLost, Pcs, Locked, NoGet
<1>3. CASE Tick
    BY <1>3 DEF Tick
<1>4. ASSUME NEW lost \in SUBSET (InitReads \intersect Faults), Mount(lost)
      PROVE  StoreTypeOK'
    <2> DEFINE m == IF nvs_meta = None \/ "meta_read" \in lost
                    THEN [next_seq |-> 0, base_sec |-> 0] ELSE nvs_meta
    <2>1. m \in Meta /\ m.next_seq \in Nat /\ m.base_sec \in Nat
        BY DEF Meta
    <2> HIDE DEF m
    <2>2. /\ next_seq' = m.next_seq /\ base_sec' = m.base_sec
          /\ boot_seq' = m.next_seq
          /\ meta_missed' \in {nvs_meta, None}
          /\ ready' = TRUE /\ pc = "mount"
          /\ UNCHANGED <<flash, fw, uptime, rec, get, served>>
          /\ \/ /\ pc' = "run" /\ init_ok' = TRUE /\ boot_offset' = m.base_sec
                /\ floor_seq' \in Nat
             \/ /\ pc' = "clear" /\ UNCHANGED <<floor_seq, boot_offset, init_ok>>
        BY <1>4 DEF Mount, InitReturns, m
    <2> QED
        BY <2>1, <2>2 DEF Pcs, Running, Locked
<1>5. CASE MountFails
    BY <1>5 DEF MountFails, InitFails, Pcs, Running, Locked
<1>6. CASE Clear
    BY <1>6 DEF Clear, InitFails, Pcs, Running, Migrating, Locked
<1>7. CASE ClearFails
    <2>1. /\ nvs_meta' \in Meta \union {None}
          /\ nvs_format' \in Formats \union {None}
          /\ nvs_floor' \in Nat \union {None}
          /\ nvs_rec' \in [Slots -> Record \union {None}]
        BY <1>7, PartlyErasedType DEF ClearFails
    <2> QED
        BY <1>7, <2>1 DEF ClearFails, InitFails, Pcs, Running, Locked
<1>8. CASE WriteFormat
    BY <1>8 DEF WriteFormat, Pcs, Migrating, Locked
<1>9. CASE WriteFloor
    BY <1>9 DEF WriteFloor, Pcs, Migrating, Locked
<1>10. CASE WriteMeta
    BY <1>10 DEF WriteMeta, InitReturns, Pcs, Running, Locked, Meta
<1>11. CASE MigrationWriteFails
    BY <1>11 DEF MigrationWriteFails, InitFails, Pcs, Running, Locked
<1>12. ASSUME NEW v \in Readings, AppendBegin(v) PROVE StoreTypeOK'
    <2>1. rec' \in Record
        BY <1>12 DEF AppendBegin, Record, store_now
    <2> QED
        BY <1>12, <2>1, StoreAssumption DEF AppendBegin, Pcs, Running, Locked
<1>13. CASE AppendWriteRec
    BY <1>13 DEF AppendWriteRec, Pcs, Running, Locked
<1>14. CASE AppendRecFails
    BY <1>14 DEF AppendRecFails, Pcs, Running, Locked
<1>15. CASE AppendBump
    BY <1>15 DEF AppendBump, Pcs, Running, Locked, Record
<1>16. CASE AppendWriteMeta
    BY <1>16 DEF AppendWriteMeta, Pcs, Running, Locked, Meta
<1>17. CASE AppendMetaFails
    BY <1>17 DEF AppendMetaFails, Pcs, Running, Locked
<1>18. ASSUME NEW q \in 0 .. MaxSeq, GetCheck(q) PROVE StoreTypeOK'
    BY <1>18, StoreAssumption DEF GetCheck
<1>19. CASE GetRead
    <2>1. ReadBack(get.seq) \in Record \union {None}
        BY SlotInRange DEF ReadBack
    <2> QED
        BY <1>19, <2>1 DEF GetRead
<1>22. CASE GetReadFails
    BY <1>22 DEF GetReadFails
<1>20. CASE ClearCut
    <2>1. /\ nvs_meta' \in Meta \union {None}
          /\ nvs_format' \in Formats \union {None}
          /\ nvs_floor' \in Nat \union {None}
          /\ nvs_rec' \in [Slots -> Record \union {None}]
        BY <1>20, PartlyErasedType DEF ClearCut
    <2> QED
        BY <1>20, <2>1 DEF ClearCut, RamLost, Pcs, Locked, NoGet
<1>21. CASE UNCHANGED storeVars
    BY <1>21 DEF storeVars
<1> QED
    BY <1>1, <1>2, <1>3, <1>4, <1>5, <1>6, <1>7, <1>8, <1>9, <1>10, <1>11,
       <1>12, <1>13, <1>14, <1>15, <1>16, <1>17, <1>18, <1>19, <1>20, <1>21,
       <1>22
    DEF StoreNext, MainNext

\* The static initialisers have the right types.
LEMMA StoreTypeInit == StoreInit => StoreTypeOK
<1> SUFFICES ASSUME StoreInit PROVE StoreTypeOK
    OBVIOUS
<1>1. get \in [pc : {"done", "read"}, seq : Nat, out : Record \union {None}]
    BY DEF StoreInit, NoGet
<1>2. nvs_rec \in [Slots -> Record \union {None}]
    BY DEF StoreInit
<1>3. pc \in Pcs /\ pc \notin Locked
    BY DEF StoreInit, Pcs, Locked
<1> QED
    BY <1>1, <1>2, <1>3 DEF StoreInit, StoreTypeOK, NoGet

\* Type correctness of src/store.c.
THEOREM StoreTypeCorrect == StoreSpec => []StoreTypeOK
BY StoreTypeInit, TypeStep, PTL DEF StoreSpec
-----------------------------------------------------------------------------
(* What a boot appended stays readable, whatever fails *)

\* The inductive step, one case per action.
LEMMA BootStep ==
    BootInv /\ [StoreNext]_storeVars => BootInv'
<1> SUFFICES ASSUME BootInv, [StoreNext]_storeVars
             PROVE  BootInv'
    OBVIOUS
<1>t. StoreTypeOK /\ StoreTypeOK'
    BY TypeStep DEF BootInv
<1> USE DEF flash, ram, history, Migrating, Locked, Running, MetaMissed
<1>1. ASSUME NEW f \in Formats, PowerOn(f) PROVE BootInv'
    BY <1>1, <1>t DEF PowerOn, BootInv
<1>2. CASE PowerLoss
    BY <1>2, <1>t DEF PowerLoss, RamLost, BootInv
<1>3. CASE Tick
    BY <1>3, <1>t DEF Tick, BootInv, FlashNext, HeldOrTorn
<1>4. ASSUME NEW lost \in SUBSET (InitReads \intersect Faults), Mount(lost)
      PROVE  BootInv'
    BY <1>4, <1>t DEF Mount, InitReturns, BootInv, FlashNext, StoreTypeOK, Meta
<1>5. CASE MountFails
    BY <1>5, <1>t DEF MountFails, InitFails, BootInv
<1>6. CASE Clear
    BY <1>6, <1>t DEF Clear, InitFails, BootInv, FlashNext, StoreTypeOK
<1>7. CASE ClearFails
    <2>1. (FlashNext <= next_seq \/ MetaMissed) /\ next_seq = boot_seq
          /\ next_seq \in Nat
        BY <1>7, <1>t DEF ClearFails, BootInv, StoreTypeOK
    <2>2. nvs_meta' \in {nvs_meta, None} /\ pc' = "run"
          /\ UNCHANGED <<ready, next_seq, boot_seq, meta_missed>>
        BY <1>7 DEF ClearFails, PartlyErased, InitFails
    <2>3. FlashNext' <= next_seq' \/ MetaMissed'
        BY <2>1, <2>2 DEF FlashNext
    <2> QED
        BY <1>t, <2>1, <2>2, <2>3 DEF BootInv
<1>8. CASE WriteFormat
    BY <1>8, <1>t DEF WriteFormat, BootInv, FlashNext
<1>9. CASE WriteFloor
    BY <1>9, <1>t DEF WriteFloor, BootInv, FlashNext
<1>10. CASE WriteMeta
    BY <1>10, <1>t DEF WriteMeta, InitReturns, BootInv, FlashNext, StoreTypeOK
<1>11. CASE MigrationWriteFails
    BY <1>11, <1>t DEF MigrationWriteFails, InitFails, BootInv, FlashNext, StoreTypeOK
<1>12. ASSUME NEW v \in Readings, AppendBegin(v) PROVE BootInv'
    BY <1>12, <1>t DEF AppendBegin, BootInv, FlashNext, HeldOrTorn
<1>13. CASE AppendWriteRec
    <2>1. rec \in Record /\ rec.seq = next_seq /\ rec.size = fw /\ rec # None
        BY <1>13, <1>t DEF AppendWriteRec, BootInv, StoreTypeOK
    <2>2. nvs_rec' = [nvs_rec EXCEPT ![Slot(next_seq)] = rec]
          /\ Slot(next_seq) \in Slots /\ next_seq \in Nat /\ boot_seq \in Nat
          /\ nvs_rec \in [Slots -> Record \union {None}]
        BY <1>13, <1>t, <2>1, SlotInRange DEF AppendWriteRec, StoreTypeOK
    <2>3. ASSUME NEW q \in boot_seq .. next_seq, q < next_seq,
                 next_seq <= q + STORE_CAPACITY
          PROVE  HeldOrTorn(q)'
        <3>1. q \in Nat /\ Slot(q) \in Slots
            BY <2>2, SlotInRange
        <3>2. HeldOrTorn(q)
            BY <1>13, <2>3 DEF AppendWriteRec, BootInv
        <3>3. CASE Slot(q) = Slot(next_seq)
            <4>1. q + STORE_CAPACITY = next_seq
                BY <3>1, <3>3, <2>2, <2>3, SlotShared
            <4> QED
                BY <1>13, <2>1, <2>2, <3>3, <4>1 DEF AppendWriteRec, HeldOrTorn
        <3>4. CASE Slot(q) # Slot(next_seq)
            BY <1>13, <2>2, <3>1, <3>2, <3>4 DEF AppendWriteRec, HeldOrTorn
        <3> QED
            BY <3>3, <3>4
    <2> QED
        BY <1>13, <1>t, <2>1, <2>2, <2>3 DEF AppendWriteRec, BootInv, FlashNext
<1>14. CASE AppendRecFails
    BY <1>14, <1>t DEF AppendRecFails, BootInv, FlashNext, HeldOrTorn
<1>15. CASE AppendBump
    <2>1. /\ rec \in Record /\ rec.seq = next_seq /\ rec.size = fw /\ rec # None
          /\ nvs_rec[Slot(next_seq)] = rec
          /\ next_seq \in Nat /\ boot_seq \in Nat /\ STORE_CAPACITY \in Nat
          /\ next_seq' = next_seq + 1
        BY <1>15, <1>t, StoreAssumption DEF AppendBump, BootInv, StoreTypeOK
    <2>2. ASSUME ready, NEW q \in boot_seq .. next_seq + 1, q < next_seq + 1,
                 next_seq + 1 <= q + STORE_CAPACITY
          PROVE  HeldOrTorn(q)'
        <3>1. CASE q = next_seq
            BY <1>15, <2>1, <3>1 DEF AppendBump, HeldOrTorn
        <3>2. CASE q # next_seq
            <4>1. q \in boot_seq .. next_seq /\ q < next_seq
                  /\ next_seq <= q + STORE_CAPACITY
                  /\ q + STORE_CAPACITY # next_seq
                BY <2>1, <2>2, <3>2
            <4>2. HeldOrTorn(q)
                BY <1>15, <2>2, <4>1 DEF AppendBump, BootInv
            <4> QED
                BY <1>15, <4>1, <4>2 DEF AppendBump, HeldOrTorn
        <3> QED
            BY <3>1, <3>2
    <2>3. ready => FlashNext' <= next_seq' \/ MetaMissed'
        BY <1>15, <1>t, <2>1 DEF AppendBump, BootInv, FlashNext, StoreTypeOK, Meta
    <2> QED
        BY <1>15, <1>t, <2>1, <2>2, <2>3 DEF AppendBump, BootInv
<1>16. CASE AppendWriteMeta
    BY <1>16, <1>t DEF AppendWriteMeta, BootInv, FlashNext, HeldOrTorn, StoreTypeOK, Meta
<1>17. CASE AppendMetaFails
    BY <1>17, <1>t DEF AppendMetaFails, BootInv, FlashNext, HeldOrTorn
<1>18. ASSUME NEW q \in 0 .. MaxSeq, GetCheck(q) PROVE BootInv'
    BY <1>18, <1>t DEF GetCheck, BootInv, FlashNext, HeldOrTorn
<1>19. CASE GetRead
    BY <1>19, <1>t DEF GetRead, BootInv, FlashNext, HeldOrTorn
<1>22. CASE GetReadFails
    BY <1>22, <1>t DEF GetReadFails, BootInv, FlashNext, HeldOrTorn
<1>20. CASE ClearCut
    BY <1>20, <1>t DEF ClearCut, RamLost, BootInv
<1>21. CASE UNCHANGED storeVars
    BY <1>21, <1>t DEF storeVars, BootInv, FlashNext, HeldOrTorn
<1> QED
    BY <1>1, <1>2, <1>3, <1>4, <1>5, <1>6, <1>7, <1>8, <1>9, <1>10, <1>11,
       <1>12, <1>13, <1>14, <1>15, <1>16, <1>17, <1>18, <1>19, <1>20, <1>21,
       <1>22
    DEF StoreNext, MainNext

\* The strengthened invariant holds of every run of the store.
LEMMA BootInvariant == StoreSpec => []BootInv
<1>1. StoreInit => BootInv
    BY StoreTypeInit
    DEF StoreInit, BootInv, Migrating, Locked, Running
<1> QED
    BY <1>1, BootStep, PTL DEF StoreSpec

\* Whatever fails, in store_init or in store_append, reads included: a record this boot has
\* appended stays readable until the ring comes round to its slot.
THEOREM BootHeldAlways == StoreSpec => []BootHeld
<1>1. BootInv => BootHeld
    <2> SUFFICES ASSUME BootInv, ready, pc \in Running, NEW q \in 0 .. MaxSeq,
                        store_oldest_seq <= q, boot_seq <= q, q < next_seq
                 PROVE  HeldOrTorn(q)
        BY DEF BootHeld
    <2>1. next_seq \in Nat /\ boot_seq \in Nat /\ floor_seq \in Nat
          /\ STORE_CAPACITY \in Nat /\ MaxSeq \in Nat
        BY StoreAssumption DEF BootInv, StoreTypeOK
    <2>2. q \in boot_seq .. next_seq /\ next_seq <= q + STORE_CAPACITY
        BY <2>1 DEF store_oldest_seq
    <2> QED
        BY <2>2 DEF BootInv
<1> QED
    BY <1>1, BootInvariant, PTL

\* Whatever fails: flash holds a counter beyond the one in use only while
\* META is still the entry that this boot could not read; otherwise a reboot
\* leaves no gap in the numbering.
THEOREM FlashNotAheadAlways == StoreSpec => []FlashNotAhead
<1>1. BootInv => FlashNotAhead
    BY DEF BootInv, FlashNotAhead, DurableNext, Running, Locked, Migrating
<1> QED
    BY <1>1, BootInvariant, PTL
=============================================================================
