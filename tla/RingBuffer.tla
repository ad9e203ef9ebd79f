----------------------------- MODULE RingBuffer -----------------------------
(***************************************************************************)
(* builder/ringbuf.go: the bounded log of one build.  Entries carry an     *)
(* absolute index, the number of entries appended before them; a reader's  *)
(* cursor is such an index, so it stays meaningful after an overwrite.     *)
(* Slots are numbered from 0 as in the code; sequences start at 1.         *)
(***************************************************************************)
EXTENDS Naturals, Sequences

CONSTANTS
  LogCapacity   \* ManagerOptions.LogCapacity

ASSUME LogCapacityAssumption == LogCapacity \in Nat \ {0}

(* Slots are reused from head on once all are taken. *)
Logs ==
  {log \in [entries : Seq(Nat), head : 0..(LogCapacity - 1), written : Nat] :
     Len(log.entries) <= LogCapacity}

EmptyLog == [entries |-> << >>, head |-> 0, written |-> 0]

IsFull(log) == Len(log.entries) = LogCapacity

(* The oldest entry makes room once the log is full. *)
Appended(log, entry) ==
  [entries |-> IF IsFull(log) THEN [log.entries EXCEPT ![log.head + 1] = entry]
                              ELSE Append(log.entries, entry),
   head    |-> IF IsFull(log) THEN (log.head + 1) % LogCapacity ELSE log.head,
   written |-> log.written + 1]

(* The index of the oldest entry still held. *)
Earliest(log) == log.written - Len(log.entries)

(* Mutant: the slot of an entry ignores where the ring starts. *)
SlotUnrotated(log, index) == index - Earliest(log)

(* The slot that holds the entry with an absolute index. *)
Slot(log, index) ==
  IF IsFull(log) THEN (log.head + (index - Earliest(log))) % LogCapacity
                 ELSE index

(* What Read starts from: a stale cursor snaps to the oldest entry, one     *)
(* beyond the end to the end.                                               *)
ReadFrom(log, offset) ==
  IF offset < Earliest(log)    THEN Earliest(log)
  ELSE IF offset > log.written THEN log.written
  ELSE offset

(* How many entries Read returns; limit 0 is no limit. *)
ReadCount(log, offset, limit) ==
  LET available == log.written - ReadFrom(log, offset)
  IN  IF limit = 0 \/ limit > available THEN available ELSE limit

(* The entries Read returns. *)
ReadEntries(log, offset, limit) ==
  [i \in 1..ReadCount(log, offset, limit) |->
     log.entries[Slot(log, ReadFrom(log, offset) + i - 1) + 1]]

(* The cursor Read returns. *)
ReadNext(log, offset, limit) ==
  ReadFrom(log, offset) + ReadCount(log, offset, limit)
=============================================================================
