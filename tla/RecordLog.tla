----------------------------- MODULE RecordLog -----------------------------
(***************************************************************************)
(* What the flash store promises its readers, with no mention of flash:    *)
(* a log that numbers records consecutively, keeps the latest Capacity of  *)
(* them, never reissues a number, and loses a record only by ageing or by  *)
(* an announced change of the record format.                               *)
(***************************************************************************)
EXTENDS Naturals

CONSTANTS Capacity,   \* how many records the log keeps
          LogRecord   \* the records: [seq: Nat, ...]

VARIABLES next,       \* number of the next record
          held        \* the set of records that can be read back

logVars == <<next, held>>

LogInit == next = 0 /\ held = {}

\* A record becomes readable under the next number.
Publish ==
    /\ \E r \in held' : /\ r \in LogRecord
                        /\ r.seq = next
                        /\ held' = held \union {r}
    /\ next' = next + 1

\* The one record that is Capacity numbers old makes room.
AgeOut ==
    /\ \E r \in held : /\ r.seq + Capacity = next
                       /\ held' = held \ {r}
    /\ UNCHANGED next

\* The record format changed: the records go, the numbering stays.
DropAll ==
    /\ held' = {}
    /\ UNCHANGED next

LogNext == Publish \/ AgeOut \/ DropAll

LogSpec == LogInit /\ [][LogNext]_logVars
=============================================================================
