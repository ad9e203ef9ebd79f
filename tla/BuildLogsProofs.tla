--------------------------- MODULE BuildLogsProofs ---------------------------
(***************************************************************************)
(* A client that follows the log of a build by its cursor misses nothing   *)
(* that it was not told of.  First the ring buffer by itself: it answers   *)
(* with the entries that were asked for, for every capacity and every      *)
(* number of entries (as in BuildManager, the entry appended is its own    *)
(* absolute index, so to find i where entry i should be is to find the     *)
(* right entry).  Then the builds that append and the polls that read in   *)
(* between.                                                                *)
(***************************************************************************)
EXTENDS TemplateBuildsProofs

(* The log holds its last entries, each in the slot Read looks for it.      *)
Tracks(log) ==
  /\ log \in Logs
  /\ Len(log.entries) <= log.written
  /\ ~IsFull(log) => log.head = 0 /\ log.written = Len(log.entries)
  /\ \A i \in Nat : Earliest(log) <= i /\ i < log.written =>
       log.entries[Slot(log, i) + 1] = i

-----------------------------------------------------------------------------
(* Arithmetic of indices that go round once.                                *)
LEMMA ModOnce ==
  ASSUME NEW c \in Nat \ {0}, NEW a \in Nat, a < 2 * c
  PROVE  a % c = IF a < c THEN a ELSE a - c
BY SMT

(* The slots of a full ring of c entries whose oldest is in slot h: the one *)
(* after the oldest comes first in the ring that has overwritten it.        *)
LEMMA RingTurns ==
  ASSUME NEW c \in Nat \ {0}, NEW h \in Nat, h < c, NEW d \in Nat, d < c
  PROVE  /\ (h + 1) % c \in 0..(c - 1)
         /\ d = c - 1 => (((h + 1) % c) + d) % c = h
         /\ d < c - 1 => /\ (((h + 1) % c) + d) % c = (h + (d + 1)) % c
                         /\ (h + (d + 1)) % c \in 0..(c - 1)
                         /\ (h + (d + 1)) % c # h
<1>1. (h + 1) % c = IF h + 1 < c THEN h + 1 ELSE 0
  <2> DEFINE a == h + 1
  <2>1. /\ a \in Nat /\ a < 2 * c
        /\ ~(a < c) => a - c = 0
    OBVIOUS
  <2> HIDE DEF a
  <2>2. a % c = IF a < c THEN a ELSE a - c
    BY <2>1, ModOnce
  <2> QED
    BY <2>1, <2>2 DEF a
<1> DEFINE g == IF h + 1 < c THEN h + 1 ELSE 0
<1>2. g \in Nat /\ g < c /\ g + d \in Nat /\ g + d < 2 * c
  OBVIOUS
<1>3. (g + d) % c = IF g + d < c THEN g + d ELSE (g + d) - c
  <2> HIDE DEF g
  <2> QED
    BY <1>2, ModOnce
<1>4. h + (d + 1) \in Nat /\ (d < c - 1 => h + (d + 1) < 2 * c)
  OBVIOUS
<1>5. d < c - 1 => (h + (d + 1)) % c =
        IF h + (d + 1) < c THEN h + (d + 1) ELSE (h + (d + 1)) - c
  BY <1>4, ModOnce
<1> QED
  BY <1>1, <1>3, <1>5

LEMMA EmptyTracks == Tracks(EmptyLog)
BY LogCapacityAssumption DEF Tracks, EmptyLog, Logs, IsFull, Earliest, Slot

(* Appending to a log that has room.                                        *)
LEMMA AppendTracks ==
  ASSUME NEW log, Tracks(log), ~IsFull(log)
  PROVE  Tracks(Appended(log, log.written))
<1> DEFINE new == Appended(log, log.written)
<1>1. /\ log.head = 0 /\ log.written = Len(log.entries)
      /\ log.entries \in Seq(Nat) /\ Len(log.entries) \in Nat
      /\ Len(log.entries) < LogCapacity
      /\ log.written \in Nat
  BY LogCapacityAssumption DEF Tracks, Logs, IsFull
<1>2. new = [entries |-> Append(log.entries, log.written),
             head |-> 0, written |-> log.written + 1]
  BY <1>1 DEF Appended
<1> HIDE DEF new
<1>3. /\ Append(log.entries, log.written) \in Seq(Nat)
      /\ Len(Append(log.entries, log.written)) = log.written + 1
      /\ \A i \in 1..log.written :
           Append(log.entries, log.written)[i] = log.entries[i]
      /\ Append(log.entries, log.written)[log.written + 1] = log.written
  BY <1>1
<1>4. new \in Logs
  <2>1. /\ new.entries \in Seq(Nat) /\ new.head \in 0..(LogCapacity - 1)
        /\ new.written \in Nat /\ Len(new.entries) <= LogCapacity
    BY <1>1, <1>2, <1>3, LogCapacityAssumption
  <2>2. new \in [entries : Seq(Nat), head : 0..(LogCapacity - 1), written : Nat]
    BY <1>2, <2>1
  <2> QED
    BY <2>1, <2>2 DEF Logs
<1>5. Earliest(new) = 0 /\ Earliest(log) = 0
  <2>1. Len(new.entries) = log.written + 1 /\ new.written = log.written + 1
    BY <1>2, <1>3
  <2> QED
    BY <1>1, <2>1 DEF Earliest
<1>6. ASSUME NEW i \in Nat, i < log.written
      PROVE  log.entries[i + 1] = i
  <2>1. Slot(log, i) = i
    BY DEF Slot
  <2> QED
    BY <1>5, <1>6, <2>1 DEF Tracks
<1>7. ASSUME NEW i \in Nat, i < log.written + 1
      PROVE  new.entries[Slot(new, i) + 1] = i
  <2>1. Slot(new, i) = i
    <3>1. CASE IsFull(new)
      <4>1. log.written + 1 = LogCapacity
        BY <1>2, <1>3, <3>1 DEF IsFull
      <4>2. Slot(new, i) = (0 + (i - 0)) % LogCapacity
        BY <1>2, <1>5, <3>1 DEF Slot
      <4>3. 0 + (i - 0) = i /\ i < LogCapacity /\ i < 2 * LogCapacity
        BY <1>7, <4>1, LogCapacityAssumption
      <4> QED
        BY <4>2, <4>3, ModOnce, LogCapacityAssumption
    <3>2. CASE ~IsFull(new)
      BY <3>2 DEF Slot
    <3> QED
      BY <3>1, <3>2
  <2>2. CASE i < log.written
    <3>1. i + 1 \in 1..log.written
      BY <1>1, <2>2
    <3>2. new.entries[i + 1] = log.entries[i + 1]
      BY <1>2, <1>3, <3>1
    <3> QED
      BY <1>6, <2>1, <2>2, <3>2
  <2>3. CASE i = log.written
    BY <1>2, <1>3, <2>1, <2>3
  <2> QED
    BY <1>1, <1>7, <2>2, <2>3
<1>8. Tracks(new)
  <2>1. /\ Len(new.entries) <= new.written /\ new.head = 0
        /\ new.written = Len(new.entries)
    BY <1>1, <1>2, <1>3
  <2>2. ASSUME NEW i \in Nat, Earliest(new) <= i, i < new.written
        PROVE  new.entries[Slot(new, i) + 1] = i
    BY <1>2, <1>7, <2>2
  <2> QED
    BY <1>4, <2>1, <2>2 DEF Tracks
<1> QED
  BY <1>8 DEF new

(* Appending to a full one takes the slot of the oldest entry.              *)
LEMMA OverwriteTracks ==
  ASSUME NEW log, Tracks(log), IsFull(log)
  PROVE  Tracks(Appended(log, log.written))
<1> DEFINE new == Appended(log, log.written)
<1>1. /\ log.head \in Nat /\ log.head < LogCapacity /\ LogCapacity \in Nat \ {0}
      /\ log.entries \in Seq(Nat) /\ Len(log.entries) = LogCapacity
      /\ log.written \in Nat /\ LogCapacity <= log.written
  BY LogCapacityAssumption DEF Tracks, Logs, IsFull
<1>2. new = [entries |-> [log.entries EXCEPT ![log.head + 1] = log.written],
             head |-> (log.head + 1) % LogCapacity, written |-> log.written + 1]
  BY DEF Appended
<1> HIDE DEF new
<1>3. /\ new.entries \in Seq(Nat) /\ Len(new.entries) = LogCapacity
      /\ new.entries[log.head + 1] = log.written
      /\ \A i \in 1..LogCapacity : i # log.head + 1 => new.entries[i] = log.entries[i]
  BY <1>1, <1>2
<1>4. (log.head + 1) % LogCapacity \in 0..(LogCapacity - 1)
  BY <1>1, RingTurns
<1>5. /\ new.head \in 0..(LogCapacity - 1)
      /\ new.head = (log.head + 1) % LogCapacity
  BY <1>1, <1>2, <1>4
<1>6. new \in Logs /\ IsFull(new) /\ new.written = log.written + 1
  <2>1. new.written \in Nat
    BY <1>1, <1>2
  <2> QED
    BY <1>1, <1>2, <1>3, <1>5, <2>1 DEF Logs, IsFull
<1>7. Earliest(new) = (log.written - LogCapacity) + 1 /\ Earliest(log) = log.written - LogCapacity
  BY <1>1, <1>3, <1>6 DEF Earliest
<1>8. ASSUME NEW i \in Nat, Earliest(new) <= i, i < new.written
      PROVE  new.entries[Slot(new, i) + 1] = i
  <2>1. PICK d \in Nat : d < LogCapacity /\ i - Earliest(new) = d
    BY <1>1, <1>6, <1>7, <1>8
  <2>2. Slot(new, i) = (((log.head + 1) % LogCapacity) + d) % LogCapacity
    BY <1>5, <1>6, <2>1 DEF Slot
  <2>3. CASE d = LogCapacity - 1
    <3>1. i = log.written
      BY <1>1, <1>7, <2>1, <2>3
    <3>2. Slot(new, i) = log.head
      BY <1>1, <2>1, <2>2, <2>3, RingTurns
    <3> QED
      BY <1>3, <3>1, <3>2
  <2>4. CASE d < LogCapacity - 1
    <3>1. /\ i - Earliest(log) = d + 1
          /\ Earliest(log) <= i /\ i < log.written
      BY <1>1, <1>7, <2>1, <2>4
    <3>2. Slot(log, i) = (log.head + (d + 1)) % LogCapacity
      BY <3>1 DEF Slot
    <3>3. /\ Slot(new, i) = (log.head + (d + 1)) % LogCapacity
           /\ (log.head + (d + 1)) % LogCapacity \in 0..(LogCapacity - 1)
           /\ (log.head + (d + 1)) % LogCapacity # log.head
      BY <1>1, <2>1, <2>2, <2>4, RingTurns
    <3>4. /\ Slot(new, i) = Slot(log, i)
          /\ Slot(log, i) \in 0..(LogCapacity - 1)
          /\ Slot(log, i) # log.head
      BY <3>2, <3>3
    <3>5. log.entries[Slot(log, i) + 1] = i
      BY <3>1 DEF Tracks
    <3>6. /\ Slot(log, i) + 1 \in 1..LogCapacity
          /\ Slot(log, i) + 1 # log.head + 1
      BY <1>1, <3>4
    <3> QED
      BY <1>3, <3>4, <3>5, <3>6
  <2> QED
    BY <1>1, <2>1, <2>3, <2>4
<1>9. Len(new.entries) <= new.written
  BY <1>1, <1>3, <1>6
<1>10. Tracks(new)
  BY <1>1, <1>5, <1>6, <1>8, <1>9 DEF Tracks
<1> QED
  BY <1>10 DEF new

(* Every Append keeps the ring in order (RingBuffer.Append, ringbuf.go:40). *)
THEOREM AppendKeepsEntries ==
  ASSUME NEW log, Tracks(log)
  PROVE  Tracks(Appended(log, log.written))
BY AppendTracks, OverwriteTracks

(* The entries from from up to, and without, next.                          *)
Consecutive(got, from, next) ==
  /\ got \in Seq(Nat) /\ Len(got) = next - from
  /\ \A k \in 1..(next - from) : got[k] = from + k - 1

(* Read answers with consecutive entries, from the one asked for or, when   *)
(* that one has been dropped, from the oldest still held; and with a cursor *)
(* that goes on right behind them (RingBuffer.Read, ringbuf.go:65).         *)
THEOREM ReadIsConsecutive ==
  ASSUME NEW log, Tracks(log),
         NEW offset \in Nat, offset <= log.written, NEW limit \in Nat,
         NEW from, from = ReadFrom(log, offset),
         NEW next, next = ReadNext(log, offset, limit),
         NEW got, got = ReadEntries(log, offset, limit)
  PROVE  /\ from = IF offset < Earliest(log) THEN Earliest(log) ELSE offset
         /\ from \in Nat /\ next \in Nat
         /\ from <= next /\ next <= log.written
         /\ limit = 0 => next = log.written
         /\ Consecutive(got, from, next)
<1> DEFINE n == ReadCount(log, offset, limit)
<1>1. /\ log.written \in Nat /\ Len(log.entries) \in Nat
      /\ Len(log.entries) <= log.written
  BY DEF Tracks, Logs
<1>2. Earliest(log) \in Nat /\ Earliest(log) <= log.written
  BY <1>1 DEF Earliest
<1>3. /\ from = IF offset < Earliest(log) THEN Earliest(log) ELSE offset
      /\ from \in Nat /\ from <= log.written /\ Earliest(log) <= from
  BY <1>1, <1>2 DEF ReadFrom
<1>4. /\ n \in Nat /\ from + n <= log.written
      /\ limit = 0 => from + n = log.written
  BY <1>1, <1>3 DEF ReadCount
<1> HIDE DEF n
<1>5. ASSUME NEW k \in 1..n
      PROVE  log.entries[Slot(log, from + k - 1) + 1] = from + k - 1
  <2>1. /\ from + k - 1 \in Nat /\ Earliest(log) <= from + k - 1
        /\ from + k - 1 < log.written
    BY <1>1, <1>2, <1>3, <1>4
  <2> QED
    BY <2>1 DEF Tracks
<1>6. got = [k \in 1..n |-> from + k - 1]
  <2>1. got = [k \in 1..n |-> log.entries[Slot(log, from + k - 1) + 1]]
    BY DEF ReadEntries, n
  <2> QED
    BY <1>5, <2>1
<1>7. next = from + n
  BY DEF ReadNext, n
<1>8. got \in Seq(Nat) /\ Len(got) = n
  <2>1. \A k \in 1..n : from + k - 1 \in Nat
    BY <1>3, <1>4
  <2> QED
    BY <1>4, <1>6, <2>1
<1>9. (from + n) - from = n
  BY <1>3, <1>4
<1>10. Consecutive(got, from, next)
  BY <1>3, <1>6, <1>7, <1>8, <1>9 DEF Consecutive
<1>11. /\ next \in Nat /\ from <= next /\ next <= log.written
       /\ limit = 0 => next = log.written
  BY <1>1, <1>3, <1>4, <1>7
<1> QED
  BY <1>3, <1>10, <1>11

-----------------------------------------------------------------------------
(* What a reader has got and skipped is what its cursor says.               *)
Delivered(p) ==
  /\ \A i, j \in DOMAIN p.got : i < j => p.got[i] < p.got[j]
  /\ Range(p.got) \cap p.skipped = {}
  /\ Range(p.got) \cup p.skipped = 0..(p.cursor - 1)

(* p may be the poll of a reader.  A reader that has been told a build is   *)
(* over was told the truth, so its log has no line to come.                 *)
SoundPoll(p) ==
  /\ Delivered(p)
  /\ p.build = NoBuild => p.at = "idle" /\ p.cursor = 0 /\ ~p.over
  /\ p.build # NoBuild =>
       /\ p.build \in DOMAIN builds
       /\ p.cursor <= builds[p.build].log.written
       /\ p.over => IsTerminal(builds[p.build].status)
       /\ p.at = "idle" /\ p.over =>
            p.cursor = builds[p.build].log.written

LogsInv ==
  /\ \A b \in DOMAIN builds : Tracks(builds[b].log)
  /\ reader \in [Readers -> Polls]
  /\ \A r \in Readers : SoundPoll(reader[r])

(* Logs get lines, those of finished builds do not, and new ones are empty. *)
LogsGrow ==
  /\ DOMAIN builds \subseteq DOMAIN builds'
  /\ \A b \in DOMAIN builds :
       /\ builds'[b].log \in {builds[b].log, WithLine(builds[b].log)}
       /\ IsTerminal(builds[b].status) => builds'[b] = builds[b]
  /\ \A b \in DOMAIN builds' \ DOMAIN builds : builds'[b].log = EmptyLog

-----------------------------------------------------------------------------
LEMMA ConcatFacts ==
  ASSUME NEW a \in Seq(Nat), NEW b \in Seq(Nat)
  PROVE  /\ a \o b \in Seq(Nat)
         /\ DOMAIN a = 1..Len(a) /\ DOMAIN b = 1..Len(b)
         /\ Len(a) \in Nat /\ Len(b) \in Nat
         /\ DOMAIN (a \o b) = 1..(Len(a) + Len(b))
         /\ \A i \in 1..Len(a) : (a \o b)[i] = a[i] /\ a[i] \in Nat
         /\ \A i \in (Len(a) + 1)..(Len(a) + Len(b)) : (a \o b)[i] = b[i - Len(a)]
<1>1. /\ a \o b \in Seq(Nat) /\ Len(a \o b) = Len(a) + Len(b)
      /\ Len(a) \in Nat /\ Len(b) \in Nat
      /\ DOMAIN a = 1..Len(a) /\ DOMAIN b = 1..Len(b)
  OBVIOUS
<1>2. DOMAIN (a \o b) = 1..(Len(a) + Len(b))
  BY <1>1
<1>3. \A i \in 1..Len(a) : (a \o b)[i] = a[i] /\ a[i] \in Nat
  OBVIOUS
<1>4. \A i \in (Len(a) + 1)..(Len(a) + Len(b)) : (a \o b)[i] = b[i - Len(a)]
  OBVIOUS
<1> QED
  BY <1>1, <1>2, <1>3, <1>4

(* The n entries of got, all below cursor, and behind them the m from from  *)
(* on make all.                                                             *)
Extends(all, got, n, m, cursor, from) ==
  /\ n \in Nat /\ m \in Nat /\ cursor \in Nat /\ from \in Nat /\ cursor <= from
  /\ DOMAIN got = 1..n /\ DOMAIN all = 1..(n + m)
  /\ \A i \in 1..n : all[i] = got[i] /\ got[i] \in Nat /\ got[i] < cursor
  /\ \A i, j \in 1..n : i < j => got[i] < got[j]
  /\ \A i \in (n + 1)..(n + m) : all[i] = from + (i - n) - 1

LEMMA Ascends ==
  ASSUME NEW all, NEW got, NEW n, NEW m, NEW cursor, NEW from,
         Extends(all, got, n, m, cursor, from)
  PROVE  \A i, j \in DOMAIN all : i < j => all[i] < all[j]
<1> USE DEF Extends
<1> SUFFICES ASSUME NEW i \in 1..(n + m), NEW j \in 1..(n + m), i < j
             PROVE  all[i] < all[j]
  OBVIOUS
<1>1. CASE j <= n
  BY <1>1
<1>2. CASE i <= n /\ j > n
  BY <1>2
<1>3. CASE i > n
  BY <1>3
<1> QED
  BY <1>1, <1>2, <1>3

LEMMA Together ==
  ASSUME NEW all, NEW got, NEW n, NEW m, NEW cursor, NEW from,
         Extends(all, got, n, m, cursor, from)
  PROVE  Range(all) = Range(got) \cup from..(from + m - 1)
<1> USE DEF Extends
<1>1. ASSUME NEW i \in 1..(n + m)
      PROVE  all[i] \in Range(got) \cup from..(from + m - 1)
  <2>1. CASE i <= n
    <3>1. i \in DOMAIN got /\ all[i] = got[i]
      BY <2>1
    <3> QED
      BY <3>1 DEF Range
  <2>2. CASE i > n
    BY <2>2
  <2> QED
    BY <2>1, <2>2
<1>2. ASSUME NEW i \in 1..n
      PROVE  got[i] \in Range(all)
  <2>1. i \in 1..(n + m)
    OBVIOUS
  <2> QED
    BY <2>1 DEF Range
<1>3. ASSUME NEW x \in from..(from + m - 1)
      PROVE  x \in Range(all)
  <2>1. PICK i : i = n + (x - from) + 1
    OBVIOUS
  <2>2. i \in (n + 1)..(n + m) /\ i \in 1..(n + m) /\ from + (i - n) - 1 = x
    BY <2>1
  <2>3. all[i] = x
    BY <2>2
  <2> QED
    BY <2>2, <2>3 DEF Range
<1> QED
  BY <1>1, <1>2, <1>3 DEF Range

(* q goes on where p was: it skips the entries before from, and more are    *)
(* the consecutive ones from there to its cursor.                           *)
Continues(p, q, from, more) ==
  /\ p.got \in Seq(Nat) /\ p.skipped \in SUBSET Nat /\ p.cursor \in Nat
  /\ from \in Nat /\ q.cursor \in Nat
  /\ p.cursor <= from /\ from <= q.cursor
  /\ Consecutive(more, from, q.cursor)
  /\ q.got = p.got \o more
  /\ q.skipped = p.skipped \cup p.cursor..(from - 1)

LEMMA DeliveredOn ==
  ASSUME NEW p, NEW q, NEW from, NEW more,
         Delivered(p), Continues(p, q, from, more)
  PROVE  q.got \in Seq(Nat) /\ q.skipped \in SUBSET Nat /\ Delivered(q)
<1>1. PICK got, skipped, cursor, next :
        got = p.got /\ skipped = p.skipped /\ cursor = p.cursor /\ next = q.cursor
  OBVIOUS
<1>2. /\ got \in Seq(Nat) /\ skipped \in SUBSET Nat /\ cursor \in Nat
      /\ from \in Nat /\ next \in Nat /\ cursor <= from /\ from <= next
      /\ more \in Seq(Nat) /\ Len(more) = next - from
      /\ \A k \in 1..(next - from) : more[k] = from + k - 1
      /\ q.got = got \o more
      /\ q.skipped = skipped \cup cursor..(from - 1)
  BY <1>1 DEF Continues, Consecutive
<1>3. /\ \A i, j \in DOMAIN got : i < j => got[i] < got[j]
      /\ Range(got) \cap skipped = {}
      /\ Range(got) \cup skipped = 0..(cursor - 1)
  BY <1>1 DEF Delivered
<1>4. PICK n, m, all : n = Len(got) /\ m = next - from /\ all = got \o more
  OBVIOUS
<1>5. n \in Nat /\ m \in Nat /\ next = from + m /\ m = Len(more)
  BY <1>2, <1>4
<1>6. /\ all \in Seq(Nat) /\ DOMAIN got = 1..n /\ DOMAIN all = 1..(n + m)
      /\ \A i \in 1..n : all[i] = got[i] /\ got[i] \in Nat
      /\ \A i \in (n + 1)..(n + m) : all[i] = more[i - n]
  <2>1. /\ got \o more \in Seq(Nat) /\ DOMAIN got = 1..Len(got)
        /\ DOMAIN (got \o more) = 1..(Len(got) + Len(more))
        /\ \A i \in 1..Len(got) : (got \o more)[i] = got[i] /\ got[i] \in Nat
        /\ \A i \in (Len(got) + 1)..(Len(got) + Len(more)) :
             (got \o more)[i] = more[i - Len(got)]
    BY <1>2, ConcatFacts
  <2> QED
    BY <1>4, <1>5, <2>1
<1>7. \A i \in (n + 1)..(n + m) : all[i] = from + (i - n) - 1
  <2> SUFFICES ASSUME NEW i \in (n + 1)..(n + m)
               PROVE  all[i] = from + (i - n) - 1
    OBVIOUS
  <2>1. PICK k : k = i - n
    OBVIOUS
  <2>2. k \in 1..(next - from)
    BY <1>5, <1>2, <2>1
  <2> QED
    BY <1>2, <1>6, <2>1, <2>2
<1>8. \A i \in 1..n : got[i] < cursor
  <2> SUFFICES ASSUME NEW i \in 1..n
               PROVE  got[i] < cursor
    OBVIOUS
  <2>1. got[i] \in 0..(cursor - 1)
    BY <1>6, <1>3 DEF Range
  <2> QED
    BY <1>2, <2>1
<1>9. Extends(all, got, n, m, cursor, from)
  BY <1>2, <1>3, <1>5, <1>6, <1>7, <1>8 DEF Extends
<1>10. /\ \A i, j \in DOMAIN all : i < j => all[i] < all[j]
      /\ Range(all) = Range(got) \cup from..(next - 1)
  BY <1>2, <1>5, <1>9, Ascends, Together
<1>11. Range(all) \cap q.skipped = {}
  <2>1. Range(got) \subseteq 0..(cursor - 1) /\ skipped \subseteq 0..(cursor - 1)
    BY <1>3
  <2>2. /\ (0..(cursor - 1)) \cap (from..(next - 1)) = {}
        /\ (0..(cursor - 1)) \cap (cursor..(from - 1)) = {}
        /\ (cursor..(from - 1)) \cap (from..(next - 1)) = {}
    BY <1>2
  <2> QED
    BY <1>2, <1>3, <1>10, <2>1, <2>2
<1>12. Range(all) \cup q.skipped = 0..(next - 1)
  <2>1. 0..(next - 1) =
          0..(cursor - 1) \cup cursor..(from - 1) \cup from..(next - 1)
    BY <1>2
  <2> QED
    BY <1>2, <1>3, <1>10, <2>1
<1>13. q.skipped \in SUBSET Nat
  BY <1>2
<1> QED
  BY <1>1, <1>2, <1>4, <1>6, <1>10, <1>11, <1>12, <1>13 DEF Delivered

LEMMA EmptyDelivered ==
  ASSUME NEW p, p.got = << >>, p.skipped = {}, p.cursor = 0
  PROVE  Delivered(p)
BY DEF Delivered, Range

LEMMA NewReaderSound ==
  /\ NewReader \in Polls
  /\ NewReader.build = NoBuild /\ NewReader.at = "idle"
  /\ ~NewReader.over /\ NewReader.cursor = 0
  /\ Delivered(NewReader)
<1>1. /\ NewReader \in Polls
      /\ NewReader.build = NoBuild /\ NewReader.at = "idle"
      /\ ~NewReader.over /\ NewReader.cursor = 0
      /\ NewReader.got = << >> /\ NewReader.skipped = {}
  BY DEF NewReader, Polls
<1> QED
  BY <1>1, EmptyDelivered

-----------------------------------------------------------------------------
LEMMA LogsGrowInv ==
  ASSUME LogsInv, LogsGrow, reader' = reader
  PROVE  LogsInv'
<1>1. \A b \in DOMAIN builds' : Tracks(builds'[b].log)
  <2> SUFFICES ASSUME NEW b \in DOMAIN builds'
               PROVE  Tracks(builds'[b].log)
    OBVIOUS
  <2>1. CASE b \in DOMAIN builds
    <3>1. PICK log : log = builds[b].log
      OBVIOUS
    <3>2. Tracks(log) /\ Tracks(Appended(log, log.written))
      BY <2>1, <3>1, AppendKeepsEntries DEF LogsInv
    <3>3. builds'[b].log = log \/ builds'[b].log = Appended(log, log.written)
      BY <2>1, <3>1 DEF LogsGrow, WithLine
    <3> QED
      BY <3>2, <3>3
  <2>2. CASE b \notin DOMAIN builds
    BY <2>2, EmptyTracks DEF LogsGrow
  <2> QED
    BY <2>1, <2>2
<1>2. ASSUME NEW r \in Readers
      PROVE  SoundPoll(reader[r])'
  <2>1. PICK p : p = reader[r]
    OBVIOUS
  <2>2. SoundPoll(p) /\ p \in Polls
    BY <2>1 DEF LogsInv
  <2>3. ASSUME p.build # NoBuild
        PROVE  /\ p.build \in DOMAIN builds'
               /\ p.cursor <= builds'[p.build].log.written
               /\ p.over => IsTerminal(builds'[p.build].status)
               /\ p.at = "idle" /\ p.over =>
                    p.cursor = builds'[p.build].log.written
    <3>1. PICK b : b = p.build
      OBVIOUS
    <3>2. /\ b \in DOMAIN builds /\ b \in DOMAIN builds'
          /\ p.cursor <= builds[b].log.written
          /\ p.over => builds'[b] = builds[b]
      BY <2>2, <2>3, <3>1 DEF SoundPoll, LogsGrow
    <3>3. builds[b].log.written \in Nat /\ p.cursor \in Nat
      BY <2>2, <3>2 DEF LogsInv, Tracks, Logs, Polls
    <3>4. \/ builds'[b].log = builds[b].log
          \/ builds'[b].log.written = builds[b].log.written + 1
      BY <3>2 DEF LogsGrow, WithLine, Appended
    <3>5. p.cursor <= builds'[b].log.written
      BY <3>2, <3>3, <3>4
    <3> QED
      BY <2>2, <2>3, <3>1, <3>2, <3>5 DEF SoundPoll
  <2>4. SoundPoll(p)'
    BY <2>2, <2>3 DEF SoundPoll
  <2> QED
    BY <2>1, <2>4 DEF SoundPoll
<1> QED
  BY <1>1, <1>2 DEF LogsInv

(* A step that leaves the logs alone, too.                                  *)
LEMMA LogsKeptInv ==
  ASSUME LogsInv, builds' = builds, reader' = reader
  PROVE  LogsInv'
BY DEF LogsInv, SoundPoll

LEMMA EnqueueGrows ==
  ASSUME TemplatesInv, NEW c \in Callers, Enqueue(c)
  PROVE  builds' = builds \/ LogsGrow
<1>1. CASE builds' = builds
  BY <1>1
<1>2. CASE Enqueued(request[c].build, request[c].template, request[c].parent)
  <2>1. PICK b : b = request[c].build
    OBVIOUS
  <2>2. /\ b \notin DOMAIN builds /\ DOMAIN builds' = DOMAIN builds \cup {b}
        /\ builds'[b].log = EmptyLog
        /\ \A x \in DOMAIN builds : builds'[x] = builds[x]
    BY <1>2, <2>1 DEF Enqueued, With
  <2> QED
    BY <2>2 DEF LogsGrow
<1> QED
  BY <1>1, <1>2 DEF Enqueue, buildVars

LEMMA RunsGrows ==
  ASSUME TemplatesInv, NEW b \in BuildIds, Runs(b)
  PROVE  LogsGrow
<1>1. BuildTypeOK
  BY DEF TemplatesInv, CoreTypeOK
<1>2. \E step, status, log : /\ BuildGoes(b, step, status, log)
                            /\ log \in {builds[b].log, WithLine(builds[b].log)}
  <2>1. CASE RunStep(b)
    <3>1. b \in DOMAIN builds
      BY <1>1, <2>1, RunStepOp
    <3>2. PICK step \in RunSteps \ {"done"},
               status \in {builds[b].status, "building"},
               log \in {builds[b].log, WithLine(builds[b].log)} :
            Steps(b, step, status, log)
      BY <1>1, <2>1, RunStepOp
    <3>3. status \in BuildStatus /\ step \in RunSteps
      BY <1>1, <3>1, <3>2 DEF BuildTypeOK, BuildRecords, BuildStatus
    <3>4. BuildGoes(b, step, status, log)
      BY <1>1, <3>1, <3>2, <3>3, StepsType
    <3> QED
      BY <3>2, <3>4
  <2>2. CASE Finish(b)
    <3>1. PICK at, status : status \in BuildStatus /\ Completed(b, at, status)
      BY <2>2 DEF Finish, BuildStatus
    <3>2. BuildGoes(b, "done", status, WithLine(builds[b].log))
      BY <1>1, <3>1, CompletedOp
    <3> QED
      BY <3>2
  <2> QED
    BY <2>1, <2>2 DEF Runs
<1>3. ~IsTerminal(builds[b].status)
  <2>1. b \in DOMAIN builds /\ builds[b].step # "done"
    BY DEF Runs, RunStep, BuildStarts, BuildAnnounced, BuildPrepared, DockerLine,
           DockerSucceeds, DockerFails, Returns, AdvanceWithLine, Finish, Completed
  <2> QED
    BY <2>1 DEF TemplatesInv, StepsFitStatus
<1> QED
  BY <1>2, <1>3 DEF BuildGoes, LogsGrow

-----------------------------------------------------------------------------
LEMMA PollStatusInv ==
  ASSUME TemplatesInv, LogsInv, NEW r \in Readers, PollStatus(r)
  PROVE  LogsInv'
<1>1. PICK b \in DOMAIN builds :
        /\ reader[r].build \in {NoBuild, b}
        /\ reader' = [reader EXCEPT ![r].at = "logs", ![r].build = b,
                                    ![r].over = IsTerminal(builds[b].status)]
  BY DEF PollStatus
<1>2. builds' = builds /\ reader[r].at = "idle"
  BY DEF PollStatus, buildVars
<1>3. PICK p : p = reader[r]
  OBVIOUS
<1>4. p \in Polls /\ SoundPoll(p) /\ p.build \in {NoBuild, b}
  BY <1>1, <1>3 DEF LogsInv
<1>5. b \in BuildIds /\ b # NoBuild /\ IsTerminal(builds[b].status) \in BOOLEAN
  BY BuildIdsAssumption DEF TemplatesInv, CoreTypeOK, BuildTypeOK, BuildRecords, IsTerminal
<1>6. PICK q : q = [p EXCEPT !.at = "logs", !.build = b,
                             !.over = IsTerminal(builds[b].status)]
  OBVIOUS
<1>7. /\ q \in Polls /\ q.at = "logs" /\ q.build = b
      /\ q.over = IsTerminal(builds[b].status)
      /\ q.cursor = p.cursor /\ q.got = p.got /\ q.skipped = p.skipped
  BY <1>4, <1>5, <1>6 DEF Polls
<1>8. /\ reader' \in [Readers -> Polls]
      /\ \A x \in Readers : reader'[x] = IF x = r THEN q ELSE reader[x]
  BY <1>1, <1>3, <1>6, <1>7 DEF LogsInv
<1>9. SoundPoll(q)
  <2>1. Delivered(q)
    BY <1>4, <1>7 DEF SoundPoll, Delivered
  <2>2. q.cursor <= builds[b].log.written
    <3>1. builds[b].log.written \in Nat
      BY DEF LogsInv, Tracks, Logs
    <3> QED
      BY <1>4, <1>5, <1>7, <3>1 DEF SoundPoll
  <2> QED
    BY <1>5, <1>7, <2>1, <2>2 DEF SoundPoll
<1>10. \A x \in Readers : SoundPoll(reader'[x])
  BY <1>8, <1>9 DEF LogsInv
<1> QED
  BY <1>2, <1>8, <1>10 DEF LogsInv, SoundPoll

(* What Read answers, and what the cursor skips, for a sound poll.          *)
LEMMA ReadOn ==
  ASSUME NEW p \in Polls, Delivered(p), NEW log, Tracks(log),
         p.cursor <= log.written, NEW limit \in Nat,
         NEW q, q.got = p.got \o ReadEntries(log, p.cursor, limit),
         q.cursor = ReadNext(log, p.cursor, limit),
         q.skipped = p.skipped \cup {i \in p.cursor..log.written : i < Earliest(log)}
  PROVE  /\ q.got \in Seq(Nat) /\ q.cursor \in Nat /\ q.skipped \in SUBSET Nat
         /\ q.cursor <= log.written
         /\ limit = 0 => q.cursor = log.written
         /\ Delivered(q)
<1>1. /\ p.cursor \in Nat /\ p.got \in Seq(Nat) /\ p.skipped \in SUBSET Nat
  BY DEF Polls
<1>2. PICK early, cursor, next, more :
        /\ early = Earliest(log) /\ cursor = p.cursor
        /\ next = ReadNext(log, cursor, limit)
        /\ more = ReadEntries(log, cursor, limit)
  OBVIOUS
<1>3. log.written \in Nat /\ early \in Nat /\ early <= log.written
  BY <1>2 DEF Tracks, Logs, Earliest
<1>4. PICK from : from = ReadFrom(log, cursor)
  OBVIOUS
<1>5. /\ from = IF cursor < early THEN early ELSE cursor
      /\ from \in Nat /\ next \in Nat
      /\ from <= next /\ next <= log.written
      /\ limit = 0 => next = log.written
      /\ Consecutive(more, from, next)
  <2>1. cursor \in Nat /\ cursor <= log.written
    BY <1>1, <1>2
  <2>2. /\ next = ReadNext(log, cursor, limit)
        /\ more = ReadEntries(log, cursor, limit)
    BY <1>2
  <2>3. Tracks(log) /\ log.written \in Nat
    BY <1>3
  <2>4. /\ from \in Nat /\ next \in Nat
        /\ from <= next /\ next <= log.written
        /\ limit = 0 => next = log.written
    BY <1>4, <2>1, <2>2, <2>3, ReadIsConsecutive
  <2>5. Consecutive(more, from, next)
    BY <1>4, <2>1, <2>2, <2>3, ReadIsConsecutive
  <2>6. from = IF cursor < early THEN early ELSE cursor
    BY <1>2, <1>3, <1>4, <2>1 DEF ReadFrom
  <2> QED
    BY <2>4, <2>5, <2>6
<1>6. cursor <= from /\ q.skipped = p.skipped \cup cursor..(from - 1)
  BY <1>1, <1>2, <1>3, <1>5
<1>7. q.got = p.got \o more /\ q.cursor = next
  BY <1>2
<1>8. Continues(p, q, from, more)
  BY <1>1, <1>2, <1>5, <1>6, <1>7 DEF Continues
<1>9. q.got \in Seq(Nat) /\ q.skipped \in SUBSET Nat /\ Delivered(q)
  BY <1>8, DeliveredOn
<1> QED
  BY <1>5, <1>7, <1>9

LEMMA PollLogsInv ==
  ASSUME TemplatesInv, LogsInv, NEW r \in Readers, PollLogs(r)
  PROVE  LogsInv'
<1>1. PICK p, log : p = reader[r] /\ log = builds[p.build].log
  OBVIOUS
<1>2. /\ reader[r].at = "logs" /\ builds' = builds
      /\ \E limit \in Limits :
           reader' = [reader EXCEPT
             ![r].at = "idle",
             ![r].cursor = ReadNext(log, p.cursor, limit),
             ![r].over = @ /\ limit = 0,
             ![r].got = @ \o ReadEntries(log, p.cursor, limit),
             ![r].skipped = @ \cup {i \in p.cursor..log.written : i < Earliest(log)}]
  BY <1>1 DEF PollLogs, buildVars
<1>3. /\ p \in Polls /\ SoundPoll(p) /\ p.at = "logs"
      /\ p.build # NoBuild /\ p.build \in DOMAIN builds /\ Tracks(log)
      /\ p.cursor <= log.written
  BY <1>1, <1>2 DEF LogsInv, SoundPoll
<1>4. PICK limit \in Limits :
        reader' = [reader EXCEPT
             ![r].at = "idle",
             ![r].cursor = ReadNext(log, p.cursor, limit),
             ![r].over = @ /\ limit = 0,
             ![r].got = @ \o ReadEntries(log, p.cursor, limit),
             ![r].skipped = @ \cup {i \in p.cursor..log.written : i < Earliest(log)}]
  BY <1>2
<1>5. PICK q : q = reader'[r]
  OBVIOUS
<1>6. /\ \A x \in Readers : x # r => reader'[x] = reader[x]
      /\ DOMAIN reader' = Readers
      /\ q.build = p.build /\ q.at = "idle"
      /\ q.got = p.got \o ReadEntries(log, p.cursor, limit)
      /\ q.cursor = ReadNext(log, p.cursor, limit)
      /\ q.skipped = p.skipped \cup {i \in p.cursor..log.written : i < Earliest(log)}
      /\ q.over = (p.over /\ limit = 0)
  BY <1>1, <1>3, <1>4, <1>5 DEF LogsInv, Polls
<1>7. /\ q.got \in Seq(Nat) /\ q.cursor \in Nat /\ q.skipped \in SUBSET Nat
      /\ q.cursor <= log.written
      /\ limit = 0 => q.cursor = log.written
      /\ Delivered(q)
  BY <1>3, <1>6, ReadOn, LimitsAssumption DEF SoundPoll
<1>8. q \in Polls
  <2>1. q = [p EXCEPT !.at = "idle", !.cursor = q.cursor, !.over = q.over,
                      !.got = q.got, !.skipped = q.skipped]
    BY <1>1, <1>3, <1>4, <1>5, <1>6 DEF LogsInv, Polls
  <2>2. q.over \in BOOLEAN
    BY <1>3, <1>6 DEF Polls
  <2> QED
    BY <1>3, <1>7, <2>1, <2>2 DEF Polls
<1>9. SoundPoll(q)
  <2>1. q.over => q.cursor = log.written
    BY <1>6, <1>7
  <2>2. q.over => IsTerminal(builds[q.build].status)
    BY <1>3, <1>6 DEF SoundPoll
  <2> QED
    BY <1>1, <1>3, <1>6, <1>7, <2>1, <2>2 DEF SoundPoll
<1>10. \A x \in Readers : reader'[x] \in Polls /\ SoundPoll(reader'[x])
  BY <1>5, <1>6, <1>8, <1>9 DEF LogsInv
<1>11. reader' \in [Readers -> Polls]
  BY <1>1, <1>4, <1>10 DEF LogsInv
<1> QED
  BY <1>2, <1>10, <1>11 DEF LogsInv, SoundPoll

-----------------------------------------------------------------------------
LEMMA FreshReaders ==
  ASSUME builds = Empty, reader = [r \in Readers |-> NewReader]
  PROVE  LogsInv
<1>1. \A r \in Readers : reader[r] \in Polls /\ SoundPoll(reader[r])
  BY NewReaderSound DEF SoundPoll
<1> QED
  BY <1>1, EmptyDomain, NewReaderSound DEF LogsInv

LEMMA CrashLogsInv ==
  ASSUME Crash
  PROVE  LogsInv'
<1>1. builds' = Empty /\ reader' = [r \in Readers |-> NewReader]
  BY DEF Crash
<1>2. PICK p : p = NewReader
  OBVIOUS
<1>3. /\ p \in Polls /\ p.build = NoBuild /\ p.at = "idle"
      /\ ~p.over /\ p.cursor = 0 /\ Delivered(p)
  BY <1>2, NewReaderSound
<1>4. SoundPoll(p)'
  BY <1>3 DEF SoundPoll
<1>5. \A r \in Readers : reader'[r] = p
  BY <1>1, <1>2
<1>6. reader' \in [Readers -> Polls]
  BY <1>1, <1>2, <1>3
<1> QED
  BY <1>1, <1>4, <1>5, <1>6, EmptyDomain DEF LogsInv, SoundPoll

LEMMA LogsNext ==
  ASSUME TemplatesInv, LogsInv, [Next]_vars
  PROVE  LogsInv'
<1>1. ASSUME NEW c \in Callers, Enqueue(c)
      PROVE  LogsInv'
  <2>1. reader' = reader
    BY <1>1 DEF Enqueue
  <2> QED
    BY <1>1, <2>1, EnqueueGrows, LogsGrowInv, LogsKeptInv
<1>2. ASSUME NEW b \in BuildIds, Runs(b)
      PROVE  LogsInv'
  <2>1. reader' = reader
    BY <1>2 DEF Runs, Finish
  <2> QED
    BY <1>2, <2>1, RunsGrows, LogsGrowInv
<1>3. ASSUME NEW r \in Readers, PollStatus(r) \/ PollLogs(r)
      PROVE  LogsInv'
  BY <1>3, PollStatusInv, PollLogsInv
<1>4. CASE Crash
  BY <1>4, CrashLogsInv
<1>5. CASE UNCHANGED <<builds, reader>>
  BY <1>5, LogsKeptInv
<1> QED
  BY <1>1, <1>2, <1>3, <1>4, <1>5
  DEF Next, vars, buildVars, CreateTemplate, ResolveExisting, RecordBuild,
      StartBuild, SetImageTag, DeleteTemplate, PatchTemplate, Restart

LEMMA LogsInvariant == Spec => [](TemplatesInv /\ LogsInv)
<1>1. Init => TemplatesInv /\ LogsInv
  BY InitInv, FreshReaders DEF Init, BuildInit
<1>2. (TemplatesInv /\ LogsInv) /\ [Next]_vars => (TemplatesInv /\ LogsInv)'
  BY NextInv, LogsNext
<1> QED
  BY <1>1, <1>2, PTL DEF Spec

(* Everything the templates, the builds and their readers hold has its      *)
(* type.                                                                    *)
THEOREM TemplatesTypeCorrect == Spec => []TypeOK
<1>1. TemplatesInv /\ LogsInv => TypeOK
  BY DEF TemplatesInv, CoreTypeOK, LogsInv, TypeOK
<1> QED
  BY <1>1, LogsInvariant, PTL

(* Whatever lines come between a reader's polls, however small the ring is  *)
(* and whatever limits it asks for, it gets every entry once and in order,  *)
(* except those that were dropped before it asked (ringbuf.go:65).          *)
THEOREM ReadersMissNothing == Spec => []LogDelivered
<1>1. TemplatesInv /\ LogsInv => LogDelivered
  BY DEF LogsInv, SoundPoll, Delivered, LogDelivered
<1> QED
  BY <1>1, LogsInvariant, PTL

(* An answer without a limit that says the build is over carries its log to *)
(* the last line: the status is read before the log, and a finished build   *)
(* logs no more (builds.go:189 and 203).                                    *)
THEOREM LastPollIsComplete == Spec => []TerminalPollIsWhole
<1>1. TemplatesInv /\ LogsInv => TerminalPollIsWhole
  BY DEF LogsInv, SoundPoll, TerminalPollIsWhole
<1> QED
  BY <1>1, LogsInvariant, PTL
=============================================================================
