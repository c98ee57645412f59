--------------------------- MODULE AudioRing_proofs ---------------------------
(***************************************************************************)
(* The ring for every capacity and any number of readers: where samples are *)
(* stored, what a cursor reads, who has the lock and who is woken.          *)
(***************************************************************************)
EXTENDS AudioRing, SequenceTheorems, TLAPS

------------------------------------------------------------------------------
(* Slots: arithmetic modulo the capacity.                                   *)

LEMMA Division ==
    ASSUME NEW c \in Nat \ {0}, NEW a \in Int
    PROVE  /\ a % c \in 0 .. c - 1
           /\ a \div c \in Int
           /\ a = c * (a \div c) + (a % c)
  BY Z3

\* A product of integers that is smaller than its first factor.
LEMMA SmallMultiple ==
    ASSUME NEW c \in Nat \ {0}, NEW k \in Int, -c < c * k, c * k < c
    PROVE  k = 0
<1>1. k < 1
  BY Z3
<1>2. k > -1
  BY Z3
<1> QED BY <1>1, <1>2

\* Two samples within a window of one capacity that share a slot are the same.
LEMMA SlotUnique ==
    ASSUME NEW c \in Nat \ {0}, NEW a \in Int, NEW b \in Int,
           b - a < c, a - b < c, a % c = b % c
    PROVE  a = b
<1> DEFINE p == a \div c
           q == b \div c
<1>1. p \in Int /\ q \in Int /\ a = c * p + (a % c) /\ b = c * q + (b % c)
  BY Division
<1>2. a % c \in Int
  BY Division
<1> HIDE DEF p, q
<1>3. b - a = c * (q - p)
  BY <1>1, <1>2, Z3
<1>4. q - p = 0
  BY <1>1, <1>3, SmallMultiple
<1> QED BY <1>1, <1>4

\* The slot of a sample d after a.
LEMMA SlotAfter ==
    ASSUME NEW c \in Nat \ {0}, NEW a \in Int, NEW d \in 0 .. c
    PROVE  (a + d) % c = IF (a % c) + d < c THEN (a % c) + d ELSE (a % c) + d - c
<1> DEFINE u == a % c
           p == a \div c
           t == (a + d) % c
           q == (a + d) \div c
           s == IF u + d < c THEN u + d ELSE u + d - c
           m == IF u + d < c THEN p ELSE p + 1
<1>1. p \in Int /\ a = c * p + u /\ u \in 0 .. c - 1
  BY Division
<1>2. q \in Int /\ a + d = c * q + t /\ t \in 0 .. c - 1
  <2>1. a + d \in Int
    OBVIOUS
  <2> QED BY <2>1, Division
<1> HIDE DEF u, p, t, q
<1>3. s \in 0 .. c - 1 /\ m \in Int
  BY <1>1
<1>4. a + d = c * m + s
  <2>1. CASE u + d < c
    BY <1>1, <2>1
  <2>2. CASE ~(u + d < c)
    <3>1. c * (p + 1) = c * p + c
      BY <1>1, Z3
    <3> QED BY <1>1, <2>2, <3>1
  <2> QED BY <2>1, <2>2
<1> HIDE DEF s, m
<1>5. c * (m - q) = t - s
  BY <1>2, <1>3, <1>4, Z3
<1>6. m - q = 0
  BY <1>2, <1>3, <1>5, SmallMultiple
<1>7. c * (m - q) = 0
  BY <1>6
<1>8. t = s
  BY <1>2, <1>3, <1>5, <1>7
<1> QED BY <1>8 DEF s, t, u
------------------------------------------------------------------------------
(* The buffer.                                                              *)

\* The window: the sample i is in its slot.
Holding(buf, w) == \A i \in 0 .. w - 1 : w - i <= Capacity => buf[i % Capacity] = i

\* Writing fewer samples than the capacity keeps every sample of the window in
\* its slot, however the write wraps.
LEMMA StoreKeepsWindow ==
    ASSUME NEW buf, NEW w \in Nat, NEW n \in Nat \ {0}, n < Capacity, Holding(buf, w)
    PROVE  Holding(Store(buf, w, n), w + n)
<1> DEFINE start == w % Capacity
           new == Store(buf, w, n)
<1>1. Capacity \in Nat \ {0} /\ start \in 0 .. Capacity - 1
  BY RingAssumption, Division
<1>2. ASSUME NEW j \in Slots
      PROVE  new[j] = IF start <= j /\ j < start + n THEN w + (j - start)
                      ELSE IF j < start + n - Capacity THEN w + (Capacity - start) + j
                      ELSE buf[j]
  BY <1>1 DEF Store, Slots
<1> HIDE DEF new
<1> SUFFICES ASSUME NEW i \in 0 .. (w + n) - 1, (w + n) - i <= Capacity
             PROVE  new[i % Capacity] = i
  BY DEF Holding, new
<1>3. i % Capacity \in Slots
  BY <1>1, Division DEF Slots
<1>4. CASE i >= w
  <2>1. i - w \in 0 .. Capacity
    BY <1>1, <1>4
  <2>2. (w + (i - w)) % Capacity
            = IF start + (i - w) < Capacity THEN start + (i - w)
                                            ELSE start + (i - w) - Capacity
    <3>1. Capacity \in Nat \ {0} /\ w \in Int
      BY <1>1
    <3> QED BY <2>1, <3>1, SlotAfter, Zenon
  <2>3. w + (i - w) = i
    BY <1>4
  <2>4. i % Capacity = IF start + (i - w) < Capacity THEN start + (i - w)
                                                     ELSE start + (i - w) - Capacity
    BY <2>2, <2>3
  <2> HIDE DEF start
  <2> QED BY <1>1, <1>2, <1>3, <1>4, <2>4
<1>5. CASE i < w
  <2>1. buf[i % Capacity] = i
    BY <1>1, <1>5 DEF Holding
  <2>2. ~(start <= i % Capacity /\ i % Capacity < start + n)
    <3>1. SUFFICES ASSUME start <= i % Capacity, i % Capacity < start + n PROVE FALSE
      OBVIOUS
    <3> DEFINE d == (i % Capacity) - start
    <3>2. d \in 0 .. Capacity /\ d < n /\ start + d < Capacity
      BY <1>1, <1>3, <3>1 DEF Slots
    <3> HIDE DEF d
    <3>3. (w + d) % Capacity = IF start + d < Capacity THEN start + d
                                                       ELSE start + d - Capacity
      <4>1. Capacity \in Nat \ {0} /\ w \in Int /\ d \in 0 .. Capacity
        BY <1>1, <3>2
      <4> QED BY <4>1, SlotAfter, Zenon
    <3>4. (w + d) % Capacity = i % Capacity
      BY <1>1, <1>3, <3>2, <3>3 DEF d, Slots
    <3>5. (w + d) - i < Capacity /\ i - (w + d) < Capacity /\ w + d \in Int
      BY <1>1, <1>5, <3>2
    <3>6. w + d = i
      BY <1>1, <3>4, <3>5, SlotUnique
    <3> QED BY <1>5, <3>2, <3>6
  <2>3. ~(i % Capacity < start + n - Capacity)
    <3>1. SUFFICES ASSUME i % Capacity < start + n - Capacity PROVE FALSE
      OBVIOUS
    <3> DEFINE d == (i % Capacity) + Capacity - start
    <3>2. d \in 0 .. Capacity /\ d < n /\ ~(start + d < Capacity)
      BY <1>1, <1>3, <3>1 DEF Slots
    <3> HIDE DEF d
    <3>3. (w + d) % Capacity = IF start + d < Capacity THEN start + d
                                                       ELSE start + d - Capacity
      <4>1. Capacity \in Nat \ {0} /\ w \in Int /\ d \in 0 .. Capacity
        BY <1>1, <3>2
      <4> QED BY <4>1, SlotAfter, Zenon
    <3>4. (w + d) % Capacity = i % Capacity
      BY <1>1, <1>3, <3>2, <3>3 DEF d, Slots
    <3>5. (w + d) - i < Capacity /\ i - (w + d) < Capacity /\ w + d \in Int
      BY <1>1, <1>5, <3>2
    <3>6. w + d = i
      BY <1>1, <3>4, <3>5, SlotUnique
    <3> QED BY <1>5, <3>2, <3>6
  <2> QED BY <1>2, <1>3, <2>1, <2>2, <2>3
<1> QED BY <1>4, <1>5

\* Reading n samples of the window returns them in the order of the stream.
LEMMA FetchReadsWindow ==
    ASSUME NEW buf, NEW w \in Nat, Holding(buf, w),
           NEW i \in Nat, NEW n \in Nat, i + n <= w, w - i <= Capacity
    PROVE  Fetch(buf, i, n) = [x \in 1 .. n |-> i + x - 1]
<1>1. Capacity \in Nat \ {0} /\ i % Capacity \in 0 .. Capacity - 1
  BY RingAssumption, Division
<1> SUFFICES ASSUME NEW x \in 1 .. n
             PROVE  Fetch(buf, i, n)[x] = i + x - 1
  BY DEF Fetch
<1>2. x - 1 \in 0 .. Capacity
  BY <1>1
<1>3. (i + (x - 1)) % Capacity
        = IF (i % Capacity) + (x - 1) < Capacity THEN (i % Capacity) + (x - 1)
                                                 ELSE (i % Capacity) + (x - 1) - Capacity
  <2>1. Capacity \in Nat \ {0} /\ i \in Int
    BY <1>1
  <2> QED BY <1>2, <2>1, SlotAfter, Zenon
<1>4. buf[(i + (x - 1)) % Capacity] = i + (x - 1)
  <2>1. i + (x - 1) \in 0 .. w - 1 /\ w - (i + (x - 1)) <= Capacity
    BY <1>1
  <2> QED BY <2>1 DEF Holding
<1>5. Fetch(buf, i, n)[x] = IF (i % Capacity) + x - 1 < Capacity
                            THEN buf[(i % Capacity) + x - 1]
                            ELSE buf[(i % Capacity) + x - 1 - Capacity]
  BY DEF Fetch
<1>6. (i % Capacity) + x - 1 = (i % Capacity) + (x - 1)
  BY <1>1
<1> QED BY <1>3, <1>4, <1>5, <1>6

\* Where a cursor reads from, and what _read_copy hands out.
From(q) == IF q.cursor < written - Capacity THEN written - Capacity ELSE q.cursor

LEMMA ReadCopyReadsStream ==
    ASSUME written \in Nat, Holding(buffer, written),
           NEW q \in ReaderState, q.cursor <= written
    PROVE  LET p == ReadCopy(q, q.need)
           IN  /\ p \in ReaderState
               /\ p.cursor <= written
               /\ p.got = q.got \o [x \in 1 .. p.cursor - From(q) |-> From(q) + x - 1]
<1> DEFINE from == Oldest(written, q.cursor)
           take == IF written - from < q.need THEN written - from ELSE q.need
           p == ReadCopy(q, q.need)
           run == [x \in 1 .. take |-> from + x - 1]
<1>1. q.cursor \in Nat /\ q.need \in Nat /\ q.got \in Seq(Nat \cup {Silence})
  BY DEF ReaderState
<1>2. from = From(q)
  BY <1>1, RingAssumption DEF Oldest, From
<1>3. from \in Nat /\ written - from <= Capacity /\ from <= written
  BY <1>1, RingAssumption DEF Oldest
<1> HIDE DEF from
<1>4. take \in Nat /\ from + take <= written /\ take <= q.need
  BY <1>1, <1>3
<1> HIDE DEF take
<1>5. Fetch(buffer, from, take) = run
  BY <1>3, <1>4, FetchReadsWindow
<1>6. p = [q EXCEPT !.cursor = from + take, !.need = q.need - take, !.got = q.got \o run]
  BY <1>5 DEF ReadCopy, from, take
<1>7. run \in Seq(Nat \cup {Silence})
  BY <1>3, <1>4
<1>8. q.got \o run \in Seq(Nat \cup {Silence})
  BY <1>1, <1>7
<1> HIDE DEF run, p
<1>9. p.cursor = from + take /\ p.got = q.got \o run /\ p \in ReaderState
  <2>1. from + take \in Nat /\ q.need - take \in Nat
    BY <1>1, <1>3, <1>4
  <2> DEFINE cursor == from + take
             need == q.need - take
             got == q.got \o run
  <2>2. cursor \in Nat /\ need \in Nat /\ got \in Seq(Nat \cup {Silence})
    BY <1>8, <2>1
  <2>3. p = [q EXCEPT !.cursor = cursor, !.need = need, !.got = got]
    BY <1>6
  <2> HIDE DEF cursor, need, got
  <2>4. p.cursor = cursor /\ p.got = got /\ p \in ReaderState
    BY <2>2, <2>3 DEF ReaderState
  <2> QED BY <2>4 DEF cursor, got
<1>10. p.cursor - From(q) = take
  BY <1>2, <1>3, <1>4, <1>9
<1> QED BY <1>2, <1>3, <1>4, <1>9, <1>10 DEF p, run

------------------------------------------------------------------------------
(* The ring.                                                                *)

\* The cursors are in the stream, and the window is in the buffer.
RingInv ==
    /\ written \in Nat
    /\ Holding(buffer, written)
    /\ reader \in [Readers -> ReaderState]
    /\ \A r \in Readers : reader[r].cursor <= written

LEMMA InitRing == Init => RingInv
<1> SUFFICES ASSUME Init PROVE RingInv
  OBVIOUS
<1>1. << >> \in Seq(Nat \cup {Silence})
  OBVIOUS
<1>2. reader \in [Readers -> ReaderState]
  BY <1>1 DEF Init, ReaderState, Places, Reasons
<1> QED BY <1>2 DEF Init, RingInv, Holding

\* Notifying moves readers, and nothing of what they have read.
LEMMA NotifyKeepsCursors ==
    ASSUME NEW rs \in [Readers -> ReaderState]
    PROVE  /\ NotifyAll(rs) \in [Readers -> ReaderState]
           /\ \A r \in Readers : /\ NotifyAll(rs)[r].cursor = rs[r].cursor
                                 /\ NotifyAll(rs)[r].got = rs[r].got
  BY DEF NotifyAll, ReaderState, Places

\* What a step does to the stream: it is left alone by everyone but the writer,
\* and a reader takes what comes next.
ReaderReads(r) ==
    LET old == IF reader[r].at \in {"absent", "out"} THEN << >> ELSE reader[r].got
    IN  reader'[r].got = old \o [x \in 1 .. reader'[r].cursor - From(reader[r]) |->
                                    From(reader[r]) + x - 1]

KeepsReading(r) ==
    reader'[r].got \in {reader[r].got, << >>} \/ ReaderReads(r)

StepKeeps == RingInv' /\ \A r \in Readers : KeepsReading(r)

LEMMA WriteStep ==
    ASSUME RingInv, NEW n \in Chunks, n < Capacity, Write(n)
    PROVE  StepKeeps
<1>1. n \in Nat \ {0} /\ Stored(n) = n
  BY RingAssumption DEF Stored
<1>2. written' = written + n /\ buffer' = Store(buffer, written, n)
  BY <1>1 DEF Write
<1>3. Holding(Store(buffer, written, n), written + n)
  BY <1>1, StoreKeepsWindow DEF RingInv
<1>4. Holding(buffer, written)'
  BY <1>2, <1>3 DEF Holding
<1>5. reader' \in [Readers -> ReaderState]
      /\ \A r \in Readers : reader'[r].cursor = reader[r].cursor
                            /\ reader'[r].got = reader[r].got
  BY NotifyKeepsCursors DEF Write, RingInv
<1>6. written' \in Nat /\ written' >= written /\ written \in Nat
  BY <1>1, <1>2 DEF RingInv
<1>7. \A r \in Readers : reader'[r].cursor \in Nat /\ reader[r].cursor <= written
  BY <1>5 DEF RingInv, ReaderState
<1>8. \A r \in Readers : reader'[r].cursor <= written'
  BY <1>5, <1>6, <1>7
<1>9. RingInv'
  BY <1>4, <1>5, <1>6, <1>8 DEF RingInv
<1> QED BY <1>5, <1>9 DEF StepKeeps, KeepsReading

LEMMA NotifyStep ==
    ASSUME RingInv, WriterNotifies \/ Close \/ CloserNotifies
    PROVE  StepKeeps
<1>1. written' = written /\ buffer' = buffer
  BY DEF WriterNotifies, Close, CloserNotifies
<1>2. reader' \in [Readers -> ReaderState]
      /\ \A r \in Readers : reader'[r].cursor = reader[r].cursor
                            /\ reader'[r].got = reader[r].got
  BY NotifyKeepsCursors DEF WriterNotifies, Close, CloserNotifies, RingInv
<1>3. RingInv'
  BY <1>1, <1>2 DEF RingInv, Holding
<1> QED BY <1>2, <1>3 DEF StepKeeps, KeepsReading

\* A step that changes one reader, not what it has read.
LEMMA MoveStep ==
    ASSUME RingInv, NEW r \in Readers, NEW p \in ReaderState,
           reader' = [reader EXCEPT ![r] = p], UNCHANGED <<buffer, written>>,
           p.cursor <= written, p.got = reader[r].got
    PROVE  StepKeeps
<1>1. \A t \in Readers : reader'[t] = IF t = r THEN p ELSE reader[t]
  BY DEF RingInv
<1>2. reader' \in [Readers -> ReaderState]
  BY DEF RingInv
<1>3. RingInv'
  BY <1>1, <1>2 DEF RingInv, Holding
<1>4. \A t \in Readers : reader'[t].got = reader[t].got
  BY <1>1
<1> QED BY <1>3, <1>4 DEF StepKeeps, KeepsReading

\* A step that reads, for the record q that starts or goes on reading.
LEMMA ReadStep ==
    ASSUME RingInv, NEW r \in Readers, NEW q \in ReaderState, NEW place \in Places,
           reader' = [reader EXCEPT ![r] = [ReadCopy(q, q.need) EXCEPT !.at = place]],
           UNCHANGED <<buffer, written>>,
           q.cursor = reader[r].cursor,
           q.got = IF reader[r].at \in {"absent", "out"} THEN << >> ELSE reader[r].got
    PROVE  StepKeeps
<1> DEFINE p == ReadCopy(q, q.need)
           m == [p EXCEPT !.at = place]
<1>1. q.cursor <= written /\ From(q) = From(reader[r])
  BY DEF RingInv, From
<1>2. /\ p \in ReaderState /\ p.cursor <= written
      /\ p.got = q.got \o [x \in 1 .. p.cursor - From(q) |-> From(q) + x - 1]
  BY <1>1, ReadCopyReadsStream DEF RingInv
<1> HIDE DEF p
<1>3. m \in ReaderState /\ m.cursor = p.cursor /\ m.got = p.got
  BY <1>2 DEF ReaderState
<1>4. reader' = [reader EXCEPT ![r] = m]
  BY DEF p
<1> HIDE DEF m
<1>5. \A t \in Readers : reader'[t] = IF t = r THEN m ELSE reader[t]
  BY <1>4 DEF RingInv
<1>6. reader' \in [Readers -> ReaderState]
  BY <1>3, <1>4 DEF RingInv
<1>7. ReaderReads(r)
  BY <1>1, <1>2, <1>3, <1>5 DEF ReaderReads
<1>8. RingInv'
  BY <1>2, <1>3, <1>5, <1>6 DEF RingInv, Holding
<1>9. \A t \in Readers : t = r \/ reader'[t].got = reader[t].got
  BY <1>5
<1> QED BY <1>7, <1>8, <1>9 DEF StepKeeps, KeepsReading

\* A reader that goes round the loop of read_exactly.
LEMMA LoopStep ==
    ASSUME RingInv, NEW r \in Readers, NEW q \in ReaderState, NEW rest,
           Loop(r, q, rest),
           q.cursor = reader[r].cursor,
           q.got = IF reader[r].at \in {"absent", "out"} THEN << >> ELSE reader[r].got
    PROVE  StepKeeps
<1>1. PICK place \in Places :
        reader' = [reader EXCEPT ![r] = [ReadCopy(q, q.need) EXCEPT !.at = place]]
  BY DEF Loop, Places
<1>2. UNCHANGED <<buffer, written>>
  BY DEF Loop
<1> QED BY <1>1, <1>2, ReadStep

\* The record of a reader that is asked for n samples.
Asked(r, n) == [reader[r] EXCEPT !.need = n, !.got = << >>, !.quits = "none"]

LEMMA AskedIsReader ==
    ASSUME RingInv, NEW r \in Readers, NEW n \in Counts
    PROVE  /\ Asked(r, n) \in ReaderState
           /\ Asked(r, n).cursor = reader[r].cursor
           /\ Asked(r, n).got = << >>
           /\ Asked(r, n).need = n
           /\ Asked(r, n).at = reader[r].at
<1>1. << >> \in Seq(Nat \cup {Silence}) /\ n \in Nat
  BY RingAssumption
<1> QED BY <1>1 DEF RingInv, ReaderState, Asked, Reasons

LEMMA TryReadStep ==
    ASSUME RingInv, NEW r \in Readers, NEW n \in Counts, TryRead(r, n)
    PROVE  StepKeeps
<1> DEFINE q == Asked(r, n)
           p == ReadCopy(q, q.need)
<1>1. q \in ReaderState /\ q.cursor = reader[r].cursor /\ q.got = << >> /\ q.at = "out"
      /\ q.need = n
  BY AskedIsReader DEF TryRead
<1>2. reader' = [reader EXCEPT ![r] = p]
  BY <1>1 DEF TryRead, Asked
<1>3. p \in ReaderState /\ p.at = q.at
  <2>1. q.cursor <= written
    BY <1>1 DEF RingInv
  <2>2. p \in ReaderState
    BY <1>1, <2>1, ReadCopyReadsStream DEF RingInv
  <2>3. p.at = q.at
    BY <1>1 DEF ReadCopy, ReaderState
  <2> QED BY <2>2, <2>3
<1> HIDE DEF q
<1>4. p = [p EXCEPT !.at = "out"]
  BY <1>1, <1>3 DEF ReaderState
<1>5. UNCHANGED <<buffer, written>> /\ reader[r].at = "out" /\ "out" \in Places
  BY DEF TryRead, Places
<1> QED BY <1>1, <1>2, <1>4, <1>5, ReadStep

LEMMA ReadExactlyStep ==
    ASSUME RingInv, NEW r \in Readers, NEW n \in Counts, ReadExactly(r, n)
    PROVE  StepKeeps
<1>1. Loop(r, Asked(r, n), lock) /\ reader[r].at = "out"
  BY DEF ReadExactly, Asked
<1> QED BY <1>1, AskedIsReader, LoopStep

\* A step that moves a reader in or out of Condition.wait, or opens its cursor.
LEMMA PlaceStep ==
    ASSUME RingInv, NEW r \in Readers,
           \/ NewReader(r) \/ Locked(r) \/ Wait(r) \/ Relock(r) \/ Relocked(r)
           \/ CancelLocking(r) \/ Abandon(r)
           \/ \E reason \in Reasons \ {"none"} : Quit(r, reason)
    PROVE  StepKeeps
<1>1. reader[r] \in ReaderState /\ reader[r].cursor <= written
  BY DEF RingInv
<1>2. CASE NewReader(r)
  <2>1. PICK c \in {written, IF written > Capacity THEN written - Capacity ELSE 0} :
                reader' = [reader EXCEPT ![r].at = "out", ![r].cursor = c]
    BY <1>2 DEF NewReader
  <2>5. c \in Nat /\ c <= written
    BY <2>1, RingAssumption DEF RingInv
  <2> DEFINE p == [reader[r] EXCEPT !.at = "out", !.cursor = c]
  <2>2. p \in ReaderState /\ p.cursor <= written /\ p.got = reader[r].got
    BY <1>1, <2>5 DEF ReaderState, Places
  <2>3. reader' = [reader EXCEPT ![r] = p]
    BY <2>1 DEF RingInv
  <2>4. UNCHANGED <<buffer, written>>
    BY <1>2 DEF NewReader
  <2> QED BY <2>2, <2>3, <2>4, MoveStep
<1>3. CASE Locked(r) \/ Relock(r) \/ Relocked(r)
  <2>1. PICK place \in Places : reader' = [reader EXCEPT ![r].at = place]
    BY <1>3 DEF Locked, Relock, Relocked, Move, Places
  <2> DEFINE p == [reader[r] EXCEPT !.at = place]
  <2>2. p \in ReaderState /\ p.cursor <= written /\ p.got = reader[r].got
    BY <1>1, <2>1 DEF ReaderState, Places
  <2>3. reader' = [reader EXCEPT ![r] = p]
    BY <2>1 DEF RingInv
  <2>4. UNCHANGED <<buffer, written>>
    BY <1>3 DEF Locked, Relock, Relocked, Move
  <2> QED BY <2>2, <2>3, <2>4, MoveStep
<1>4. CASE \/ Wait(r) \/ CancelLocking(r) \/ Abandon(r)
           \/ \E reason \in Reasons \ {"none"} : Quit(r, reason)
  <2>1. PICK place \in Places, reason \in Reasons :
            reader' = [reader EXCEPT ![r].quits = reason, ![r].at = place]
    <3>1. CASE CancelLocking(r) \/ Abandon(r)
      <4>1. reader' = [reader EXCEPT ![r].quits = "cancelled", ![r].at = "out"]
        BY <1>1, <3>1 DEF CancelLocking, Abandon, RingInv, ReaderState
      <4> QED BY <4>1 DEF Places, Reasons
    <3>3. CASE Wait(r)
      <4>1. CASE Move(r, "waiting")
        <5>1. reader' = [reader EXCEPT ![r].quits = reader[r].quits, ![r].at = "waiting"]
          BY <1>1, <4>1 DEF Move, RingInv, ReaderState
        <5>2. reader[r].quits \in Reasons
          BY <1>1 DEF ReaderState
        <5> QED BY <5>1, <5>2 DEF Places
      <4>2. CASE ~Move(r, "waiting")
        <5>1. reader' = [reader EXCEPT ![r].quits = "error", ![r].at = "held"]
          BY <1>1, <3>3, <4>2 DEF Wait, RingInv, ReaderState
        <5> QED BY <5>1 DEF Places, Reasons
      <4> QED BY <4>1, <4>2
    <3>2. CASE \E reason \in Reasons \ {"none"} : Quit(r, reason)
      <4>1. PICK reason \in Reasons \ {"none"} : Quit(r, reason)
        BY <3>2
      <4> DEFINE place == IF reader[r].at = "entering" THEN "held" ELSE "woken"
      <4>2. place \in Places
        BY <1>1 DEF Places, ReaderState
      <4>3. reader' = [reader EXCEPT ![r].quits = reason, ![r].at = place]
        BY <1>1, <4>1 DEF Quit, RingInv, ReaderState
      <4> QED BY <4>2, <4>3
    <3> QED BY <1>4, <3>1, <3>2, <3>3
  <2> DEFINE p == [reader[r] EXCEPT !.quits = reason, !.at = place]
  <2>2. p \in ReaderState /\ p.cursor <= written /\ p.got = reader[r].got
    BY <1>1, <2>1 DEF ReaderState
  <2>3. reader' = [reader EXCEPT ![r] = p]
    BY <2>1 DEF RingInv
  <2>4. UNCHANGED <<buffer, written>>
    BY <1>4 DEF CancelLocking, Abandon, Quit, Wait, Move
  <2> QED BY <2>2, <2>3, <2>4, MoveStep
<1> QED BY <1>2, <1>3, <1>4

LEMMA ResumeStep ==
    ASSUME RingInv, NEW r \in Readers, Resume(r)
    PROVE  StepKeeps
<1>1. reader[r] \in ReaderState /\ reader[r].at = "held" /\ reader[r].cursor <= written
  BY DEF RingInv, Resume
<1>2. CASE reader[r].quits = "none" /\ Taken
  <2>1. Loop(r, reader[r], Tail(lock))
    BY <1>2 DEF Resume
  <2> QED BY <1>1, <2>1, LoopStep
<1>3. CASE ~(reader[r].quits = "none" /\ Taken)
  <2> DEFINE p == [reader[r] EXCEPT !.at = "out"]
  <2>1. p \in ReaderState /\ p.cursor <= written /\ p.got = reader[r].got
    BY <1>1 DEF ReaderState, Places
  <2>2. reader' = [reader EXCEPT ![r] = p] /\ UNCHANGED <<buffer, written>>
    BY <1>3 DEF Resume, Move, RingInv
  <2> QED BY <2>1, <2>2, MoveStep
<1> QED BY <1>2, <1>3

LEMMA RingStep ==
    ASSUME \A n \in Chunks : n < Capacity, RingInv, [Next]_vars
    PROVE  StepKeeps
<1>1. CASE \E n \in Chunks : Write(n)
  BY <1>1, WriteStep
<1>2. CASE WriterNotifies \/ Close \/ CloserNotifies
  BY <1>2, NotifyStep
<1>3. CASE \E r \in Readers : \E n \in Counts : TryRead(r, n) \/ ReadExactly(r, n)
  BY <1>3, TryReadStep, ReadExactlyStep
<1>4. CASE \E r \in Readers : Resume(r)
  BY <1>4, ResumeStep
<1>5. CASE \E r \in Readers :
              \/ NewReader(r) \/ Locked(r) \/ Wait(r) \/ Relock(r) \/ Relocked(r)
              \/ CancelLocking(r) \/ Abandon(r)
              \/ \E reason \in Reasons \ {"none"} : Quit(r, reason)
  BY <1>5, PlaceStep
<1>6. CASE UNCHANGED vars
  BY <1>6 DEF vars, RingInv, StepKeeps, KeepsReading, Holding
<1>7. CASE OrphanRelocks
  BY <1>7 DEF OrphanRelocks, RingInv, StepKeeps, KeepsReading, Holding
<1> QED BY <1>1, <1>2, <1>3, <1>4, <1>5, <1>6, <1>7 DEF Next, ReaderStep, Reasons

LEMMA HoldingIsLatest == RingInv => RingHoldsLatest
  BY DEF RingInv, Holding, RingHoldsLatest

LEMMA StepReads ==
    ASSUME StepKeeps
    PROVE  \A r \in Readers :
              reader'[r].got \notin {reader[r].got, << >>} =>
                  LET old  == IF reader[r].at \in {"absent", "out"} THEN << >>
                              ELSE reader[r].got
                      from == IF reader[r].cursor < written - Capacity
                              THEN written - Capacity ELSE reader[r].cursor
                  IN  reader'[r].got = old \o [x \in 1 .. reader'[r].cursor - from |->
                                                  from + x - 1]
  BY DEF StepKeeps, KeepsReading, ReaderReads, From

\* RingInv holds whenever every array that is written is shorter than the ring.
THEOREM RingInvariant ==
    ASSUME \A n \in Chunks : n < Capacity
    PROVE  Spec => []RingInv
<1>1. RingInv /\ [Next]_vars => RingInv'
  BY RingStep DEF StepKeeps
<1> QED BY <1>1, InitRing, PTL DEF Spec

\* AudioRing.write and _read_copy, for a ring of any capacity and any number of
\* readers: as long as no array is as long as the ring, the most recent samples
\* are where the readers look for them, wherever the writes wrapped.
THEOREM RingIsTheWindow ==
    ASSUME \A n \in Chunks : n < Capacity
    PROVE  Spec => []RingHoldsLatest
  BY RingInvariant, HoldingIsLatest, PTL

\* Cursor.read_exactly and try_read hand out the samples of the stream in order,
\* once each, and skip only those that are overwritten, however the reader is
\* notified, expires and is cancelled, and whoever else reads.
THEOREM CursorsReadTheStream ==
    ASSUME \A n \in Chunks : n < Capacity
    PROVE  Spec => ReadsTheStream
<1>1. RingInv /\ [Next]_vars =>
        [\A r \in Readers :
            reader'[r].got \notin {reader[r].got, << >>} =>
                LET old  == IF reader[r].at \in {"absent", "out"} THEN << >>
                            ELSE reader[r].got
                    from == IF reader[r].cursor < written - Capacity
                            THEN written - Capacity ELSE reader[r].cursor
                IN  reader'[r].got = old \o [x \in 1 .. reader'[r].cursor - from |->
                                                from + x - 1]]_vars
  BY RingStep, StepReads
<1> QED BY <1>1, RingInvariant, PTL DEF Spec, ReadsTheStream

------------------------------------------------------------------------------
(* The queue of the lock: what joining, leaving at the front and giving up a *)
(* place do to the others.                                                   *)

Tasks == Readers \cup {"writer", "closer"}

On(lk, t) == \E i \in DOMAIN lk : lk[i] = t

Before(lk, u, v) == \E i, j \in DOMAIN lk : i < j /\ lk[i] = u /\ lk[j] = v

LEMMA JoinQueue ==
    ASSUME NEW S, NEW lk \in Seq(S), NEW t \in S, IsInjective(lk), ~On(lk, t)
    PROVE  LET m == Append(lk, t)
           IN  /\ m \in Seq(S) /\ m # << >> /\ IsInjective(m)
               /\ Head(m) = IF lk = << >> THEN t ELSE Head(lk)
               /\ \A u : On(m, u) <=> On(lk, u) \/ u = t
               /\ \A u, v : Before(lk, u, v) => Before(m, u, v)
               /\ \A u : On(lk, u) => Before(m, u, t)
<1> DEFINE m == Append(lk, t)
           n == Len(lk)
<1>1. /\ m \in Seq(S) /\ n \in Nat /\ DOMAIN lk = 1 .. n /\ DOMAIN m = 1 .. n + 1
      /\ m[n + 1] = t /\ \A i \in 1 .. n : m[i] = lk[i]
  OBVIOUS
<1>2. m # << >> /\ Head(m) = IF lk = << >> THEN t ELSE Head(lk)
  <2>1. m # << >> /\ Head(m) = m[1]
    OBVIOUS
  <2>2. lk = << >> <=> n = 0
    OBVIOUS
  <2>3. lk # << >> => Head(lk) = lk[1]
    OBVIOUS
  <2> QED BY <1>1, <2>1, <2>2, <2>3
<1> HIDE DEF m, n
<1>3. IsInjective(m)
  BY <1>1 DEF IsInjective, On
<1>4. \A u : On(m, u) <=> On(lk, u) \/ u = t
  BY <1>1 DEF On
<1>5. \A u, v : Before(lk, u, v) => Before(m, u, v)
  BY <1>1 DEF Before
<1>6. \A u : On(lk, u) => Before(m, u, t)
  BY <1>1 DEF Before, On
<1> QED BY <1>1, <1>2, <1>3, <1>4, <1>5, <1>6 DEF m

LEMMA LeaveFront ==
    ASSUME NEW S, NEW lk \in Seq(S), lk # << >>, IsInjective(lk)
    PROVE  LET m == Tail(lk)
           IN  /\ m \in Seq(S) /\ IsInjective(m)
               /\ \A u : On(m, u) <=> On(lk, u) /\ u # Head(lk)
               /\ \A u, v : Before(lk, u, v) /\ u # Head(lk) => Before(m, u, v)
<1> DEFINE m == Tail(lk)
           n == Len(lk)
<1>1. /\ m \in Seq(S) /\ n \in Nat \ {0} /\ DOMAIN lk = 1 .. n /\ DOMAIN m = 1 .. n - 1
      /\ Head(lk) = lk[1] /\ \A i \in 1 .. n - 1 : m[i] = lk[i + 1]
  OBVIOUS
<1> HIDE DEF m, n
<1>2. IsInjective(m)
  <2>1. SUFFICES ASSUME NEW a \in 1 .. n - 1, NEW b \in 1 .. n - 1, m[a] = m[b]
                 PROVE  a = b
    BY <1>1 DEF IsInjective
  <2>2. lk[a + 1] = lk[b + 1] /\ a + 1 \in 1 .. n /\ b + 1 \in 1 .. n
    BY <1>1, <2>1
  <2>3. a + 1 = b + 1
    BY <1>1, <2>2 DEF IsInjective
  <2> QED BY <2>3
<1>3. ASSUME NEW i \in 1 .. n, lk[i] # Head(lk)
      PROVE  i - 1 \in 1 .. n - 1 /\ m[i - 1] = lk[i]
  BY <1>1, <1>3
<1>4. \A u : On(m, u) <=> On(lk, u) /\ u # Head(lk)
  <2>1. ASSUME NEW u, On(m, u) PROVE On(lk, u) /\ u # Head(lk)
    <3>1. PICK i \in 1 .. n - 1 : m[i] = u
      BY <1>1, <2>1 DEF On
    <3>2. lk[i + 1] = u /\ i + 1 \in 1 .. n /\ i + 1 # 1
      BY <1>1, <3>1
    <3>3. lk[i + 1] # lk[1]
      BY <1>1, <3>2 DEF IsInjective
    <3> QED BY <1>1, <3>2, <3>3 DEF On
  <2>2. ASSUME NEW u, On(lk, u), u # Head(lk) PROVE On(m, u)
    BY <1>1, <1>3, <2>2 DEF On
  <2> QED BY <2>1, <2>2
<1>5. ASSUME NEW u, NEW v, Before(lk, u, v), u # Head(lk) PROVE Before(m, u, v)
  <2>1. PICK i, j \in 1 .. n : i < j /\ lk[i] = u /\ lk[j] = v
    BY <1>1, <1>5 DEF Before
  <2>2. i - 1 \in 1 .. n - 1 /\ m[i - 1] = u
    BY <1>3, <1>5, <2>1
  <2>3. j - 1 \in 1 .. n - 1 /\ m[j - 1] = v /\ i - 1 < j - 1
    <3>1. j - 1 \in 1 .. n - 1 /\ i - 1 < j - 1
      BY <1>1, <2>1, <2>2
    <3>2. m[j - 1] = lk[(j - 1) + 1] /\ (j - 1) + 1 = j
      BY <1>1, <3>1
    <3> QED BY <2>1, <3>1, <3>2
  <2> QED BY <1>1, <2>2, <2>3 DEF Before
<1> QED BY <1>1, <1>2, <1>4, <1>5 DEF m

LEMMA GiveUpPlace ==
    ASSUME NEW S, NEW lk \in Seq(S), NEW t, IsInjective(lk), On(lk, t)
    PROVE  LET m == RemoveAt(lk, CHOOSE i \in DOMAIN lk : lk[i] = t)
           IN  /\ m \in Seq(S) /\ IsInjective(m)
               /\ Head(lk) # t => m # << >> /\ Head(m) = Head(lk)
               /\ \A u : On(m, u) <=> On(lk, u) /\ u # t
               /\ \A u, v : Before(lk, u, v) /\ u # t /\ v # t => Before(m, u, v)
<1> DEFINE k == CHOOSE i \in DOMAIN lk : lk[i] = t
           m == RemoveAt(lk, k)
           n == Len(lk)
<1>1. n \in Nat /\ k \in 1 .. n /\ lk[k] = t /\ DOMAIN lk = 1 .. n
  BY DEF On
<1> HIDE DEF k
<1>2. /\ m \in Seq(S) /\ DOMAIN m = 1 .. n - 1 /\ Len(m) = n - 1
      /\ \A i \in 1 .. n - 1 : m[i] = IF i < k THEN lk[i] ELSE lk[i + 1]
  <2> DEFINE a == SubSeq(lk, 1, k - 1)
             b == SubSeq(lk, k + 1, n)
  <2>1. a \in Seq(S) /\ Len(a) = k - 1 /\ \A i \in 1 .. k - 1 : a[i] = lk[i]
    BY <1>1
  <2>2. b \in Seq(S) /\ Len(b) = n - k /\ \A i \in 1 .. n - k : b[i] = lk[k + i]
    <3>1. \A i \in k + 1 .. n : lk[i] \in S
      BY <1>1
    <3>2. k + 1 \in Int /\ n \in Int /\ n - (k + 1) + 1 = n - k
      BY <1>1
    <3> HIDE DEF n
    <3>3. /\ b \in Seq(S) /\ Len(b) = IF k + 1 <= n THEN n - (k + 1) + 1 ELSE 0
          /\ \A i \in 1 .. n - (k + 1) + 1 : b[i] = lk[(k + 1) + i - 1]
      BY <3>1, <3>2, SubSeqProperties
    <3> HIDE DEF b
    <3>4. Len(b) = n - k
      BY <1>1, <3>3
    <3>5. ASSUME NEW i \in 1 .. n - k PROVE b[i] = lk[k + i]
      <4>1. (k + 1) + i - 1 = k + i /\ i \in 1 .. n - (k + 1) + 1
        BY <1>1, <3>2
      <4>2. b[i] = lk[(k + 1) + i - 1]
        BY <3>3, <4>1, Zenon
      <4> QED BY <4>1, <4>2, Zenon
    <3> QED BY <3>3, <3>4, <3>5
  <2>3. m = a \o b
    BY DEF RemoveAt
  <2> HIDE DEF a, b, m, n
  <2>4. m \in Seq(S) /\ Len(m) = n - 1 /\ DOMAIN m = 1 .. n - 1
    BY <1>1, <2>1, <2>2, <2>3
  <2>5. ASSUME NEW i \in 1 .. n - 1
        PROVE  m[i] = IF i < k THEN lk[i] ELSE lk[i + 1]
    <3>1. m[i] = IF i <= k - 1 THEN a[i] ELSE b[i - (k - 1)]
      BY <1>1, <2>1, <2>2, <2>3
    <3>2. CASE i < k
      BY <1>1, <2>1, <3>1, <3>2
    <3>3. CASE ~(i < k)
      <4>1. i - (k - 1) \in 1 .. n - k /\ k + (i - (k - 1)) = i + 1
        BY <1>1, <3>3
      <4> QED BY <1>1, <2>2, <3>1, <3>3, <4>1
    <3> QED BY <3>2, <3>3
  <2> QED BY <2>4, <2>5
<1>3. lk # << >> /\ Head(lk) = lk[1] /\ (m # << >> => Head(m) = m[1])
  BY <1>1, <1>2
<1> HIDE DEF m, n
<1> DEFINE at(i) == IF i < k THEN i ELSE i - 1
<1>4. ASSUME NEW i \in 1 .. n, lk[i] # t
      PROVE  at(i) \in 1 .. n - 1 /\ m[at(i)] = lk[i] /\ i # k
  <2>1. i # k
    BY <1>1, <1>4
  <2>2. CASE i < k
    BY <1>1, <1>2, <2>2
  <2>3. CASE ~(i < k)
    <3>1. i - 1 \in 1 .. n - 1 /\ ~(i - 1 < k) /\ (i - 1) + 1 = i
      BY <1>1, <2>1, <2>3
    <3> QED BY <1>2, <2>1, <2>3, <3>1
  <2> QED BY <2>1, <2>2, <2>3
<1>5. ASSUME NEW i \in 1 .. n - 1
      PROVE  \E j \in 1 .. n : j # k /\ m[i] = lk[j] /\ j = IF i < k THEN i ELSE i + 1
  BY <1>1, <1>2
<1>6. IsInjective(m)
  <2>1. SUFFICES ASSUME NEW a \in 1 .. n - 1, NEW b \in 1 .. n - 1, m[a] = m[b]
                 PROVE  a = b
    BY <1>2 DEF IsInjective
  <2>2. PICK i \in 1 .. n : m[a] = lk[i] /\ i = IF a < k THEN a ELSE a + 1
    BY <1>5
  <2>3. PICK j \in 1 .. n : m[b] = lk[j] /\ j = IF b < k THEN b ELSE b + 1
    BY <1>5
  <2>4. i = j
    BY <1>1, <2>1, <2>2, <2>3 DEF IsInjective
  <2> QED BY <1>1, <2>2, <2>3, <2>4
<1>7. ASSUME Head(lk) # t PROVE m # << >> /\ Head(m) = Head(lk)
  <2>1. at(1) \in 1 .. n - 1 /\ m[at(1)] = lk[1] /\ 1 # k
    BY <1>1, <1>3, <1>4, <1>7
  <2>2. at(1) = 1
    BY <1>1, <2>1
  <2>3. m # << >>
    BY <1>2, <2>1
  <2> QED BY <1>3, <2>1, <2>2, <2>3
<1>8. \A u : On(m, u) <=> On(lk, u) /\ u # t
  <2>1. ASSUME NEW u, On(m, u) PROVE On(lk, u) /\ u # t
    <3>1. PICK i \in 1 .. n - 1 : m[i] = u
      BY <1>2, <2>1 DEF On
    <3>2. PICK j \in 1 .. n : j # k /\ m[i] = lk[j]
      BY <1>5
    <3>3. lk[j] # lk[k]
      BY <1>1, <3>2 DEF IsInjective
    <3> QED BY <1>1, <3>1, <3>2, <3>3 DEF On
  <2>2. ASSUME NEW u, On(lk, u), u # t PROVE On(m, u)
    BY <1>1, <1>2, <1>4, <2>2 DEF On
  <2> QED BY <2>1, <2>2
<1>9. ASSUME NEW u, NEW v, Before(lk, u, v), u # t, v # t PROVE Before(m, u, v)
  <2>1. PICK i, j \in 1 .. n : i < j /\ lk[i] = u /\ lk[j] = v
    BY <1>1, <1>9 DEF Before
  <2>2. at(i) \in 1 .. n - 1 /\ m[at(i)] = u /\ i # k
    BY <1>4, <1>9, <2>1
  <2>3. at(j) \in 1 .. n - 1 /\ m[at(j)] = v /\ j # k
    BY <1>4, <1>9, <2>1
  <2>4. at(i) < at(j)
    BY <1>1, <2>1, <2>2, <2>3
  <2> HIDE DEF at
  <2> QED BY <1>2, <2>2, <2>3, <2>4 DEF Before
<1> QED BY <1>2, <1>6, <1>7, <1>8, <1>9 DEF m, k

------------------------------------------------------------------------------
(* Types, for arrays of any length.                                         *)

Samples == Nat \cup {Silence}

StreamTypes ==
    /\ buffer \in [Slots -> Samples]
    /\ written \in Nat
    /\ reader \in [Readers -> ReaderState]
    /\ \A r \in Readers : reader[r].cursor <= written

LEMMA StoreType ==
    ASSUME NEW buf \in [Slots -> Samples], NEW w \in Nat, NEW n \in Nat \ {0}
    PROVE  Store(buf, w, n) \in [Slots -> Samples]
<1> DEFINE start == w % Capacity
<1>1. Capacity \in Nat \ {0} /\ start \in 0 .. Capacity - 1
  BY RingAssumption, Division
<1> HIDE DEF start
<1>2. ASSUME NEW j \in Slots
      PROVE  /\ w + j \in Samples
             /\ start <= j => w + (j - start) \in Samples
             /\ w + (Capacity - start) + j \in Samples
             /\ buf[j] \in Samples
  BY <1>1 DEF Slots, Samples
<1>3. CASE n >= Capacity
  BY <1>2, <1>3 DEF Store
<1>4. CASE ~(n >= Capacity)
  BY <1>2, <1>4 DEF Store, start
<1> QED BY <1>3, <1>4

LEMMA FetchType ==
    ASSUME NEW buf \in [Slots -> Samples], NEW i \in Nat, NEW n \in 0 .. Capacity
    PROVE  Fetch(buf, i, n) \in Seq(Samples)
<1> DEFINE start == i % Capacity
<1>1. Capacity \in Nat \ {0} /\ start \in 0 .. Capacity - 1
  BY RingAssumption, Division
<1> HIDE DEF start
<1>2. ASSUME NEW x \in 1 .. n
      PROVE  IF start + x - 1 < Capacity THEN start + x - 1 \in Slots
                                         ELSE start + x - 1 - Capacity \in Slots
  BY <1>1 DEF Slots
<1>3. Fetch(buf, i, n) = [x \in 1 .. n |->
            IF start + x - 1 < Capacity THEN buf[start + x - 1]
                                        ELSE buf[start + x - 1 - Capacity]]
  BY DEF Fetch, start
<1>4. Fetch(buf, i, n) \in [1 .. n -> Samples]
  BY <1>2, <1>3
<1>5. n \in Nat
  BY <1>1
<1> QED BY <1>4, <1>5

\* What _read_copy leaves of a reader: its place, a cursor in the stream, and, if
\* there was less than it needs, a cursor at the end of the stream.
LEMMA ReadCopyType ==
    ASSUME StreamTypes, NEW q \in ReaderState, q.cursor <= written
    PROVE  LET p == ReadCopy(q, q.need)
           IN  /\ p \in ReaderState /\ p.at = q.at /\ p.quits = q.quits
               /\ p.cursor <= written
               /\ p.need # 0 => p.cursor = written
<1> DEFINE from == Oldest(written, q.cursor)
           take == IF written - from < q.need THEN written - from ELSE q.need
           cursor == from + take
           need == q.need - take
           got == q.got \o Fetch(buffer, from, take)
           p == ReadCopy(q, q.need)
<1>1. q.cursor \in Nat /\ q.need \in Nat /\ q.got \in Seq(Samples) /\ written \in Nat
  BY DEF ReaderState, Samples, StreamTypes
<1>2. from \in Nat /\ written - from <= Capacity /\ from <= written
  BY <1>1, RingAssumption DEF Oldest
<1>3. p = [q EXCEPT !.cursor = cursor, !.need = need, !.got = got]
  BY DEF ReadCopy
<1> HIDE DEF from
<1>4. take \in 0 .. Capacity /\ cursor \in Nat /\ need \in Nat /\ cursor <= written
  BY <1>1, <1>2, RingAssumption
<1>5. need # 0 => cursor = written
  BY <1>1, <1>2
<1> HIDE DEF take
<1>6. got \in Seq(Samples)
  BY <1>1, <1>2, <1>4, FetchType DEF StreamTypes
<1> HIDE DEF cursor, need, got, p
<1>7. /\ p \in ReaderState /\ p.at = q.at /\ p.quits = q.quits
      /\ p.cursor = cursor /\ p.need = need
  BY <1>3, <1>4, <1>6 DEF ReaderState, Samples
<1> QED BY <1>4, <1>5, <1>7 DEF p

------------------------------------------------------------------------------
(* Who is on the lock, and what a reader that sleeps or is about to can rely *)
(* on.                                                                       *)

\* The places in which a task is on the lock.
Queueing == {"locking", "entering", "relocking", "held"}

\* A reader between its last look at the stream and its wait has behind it, on the
\* lock, whoever changed the stream meanwhile.
ReaderFits(r) ==
    /\ On(lock, r) <=> reader[r].at \in Queueing
    /\ reader[r].at \in {"entering", "held"} => Holds(r)
    /\ reader[r].at \in {"locking", "entering"} =>
        /\ written > reader[r].cursor => Before(lock, r, "writer")
        /\ closed => Before(lock, r, "closer")
    /\ reader[r].at = "waiting" =>
        /\ written > reader[r].cursor => writer = "notifying"
        /\ closed => closer = "notifying"

QueueTypes ==
    /\ closed \in BOOLEAN
    /\ writer \in {"idle", "notifying"}
    /\ closer \in {"idle", "notifying"}
    /\ lock \in Seq(Tasks)
    /\ IsInjective(lock)

LockInv ==
    /\ StreamTypes
    /\ QueueTypes
    /\ On(lock, "writer") <=> writer = "notifying"
    /\ On(lock, "closer") <=> closer = "notifying"
    /\ closer = "notifying" => closed
    /\ \A r \in Readers : ReaderFits(r)

LEMMA ReadersAreReaders ==
    /\ \A r \in Readers : r \in Tasks /\ r # "writer" /\ r # "closer"
    /\ "writer" \in Tasks /\ "closer" \in Tasks /\ "writer" # "closer"
    /\ "orphan" \notin Tasks /\ "ended" \notin Tasks
    /\ Tasks \subseteq Readers \cup Others
  BY RingAssumption DEF Tasks, Others

LEMMA InitLock == Init => LockInv
<1> SUFFICES ASSUME Init PROVE LockInv
  OBVIOUS
<1>1. lock = << >> /\ lock \in Seq(Tasks) /\ IsInjective(lock) /\ \A t : ~On(lock, t)
  BY DEF Init, IsInjective, On
<1>2. << >> \in Seq(Nat \cup {Silence})
  OBVIOUS
<1>3. reader \in [Readers -> ReaderState]
  BY <1>2 DEF Init, ReaderState, Places, Reasons
<1>4. \A r \in Readers : reader[r].cursor = 0 /\ reader[r].at = "absent"
  BY DEF Init
<1>5. StreamTypes
  BY <1>3, <1>4 DEF Init, StreamTypes, Samples
<1>6. \A r \in Readers : ReaderFits(r)
  BY <1>1, <1>4 DEF ReaderFits, Queueing
<1> QED BY <1>1, <1>5, <1>6 DEF Init, LockInv, QueueTypes

\* m is what the queue becomes by a move of r: the others keep their places.
OthersKeep(r, m) ==
    /\ m \in Seq(Tasks) /\ IsInjective(m)
    /\ \A t : t # r => (On(m, t) <=> On(lock, t))
    /\ \A t, v : t # r /\ v # r /\ Before(lock, t, v) => Before(m, t, v)
    /\ \A t \in Readers \ {r} :
          reader[t].at \in {"entering", "held"} => m # << >> /\ Head(m) = t

LEMMA KeepsLock ==
    ASSUME LockInv, NEW r \in Readers
    PROVE  OthersKeep(r, lock)
  BY DEF LockInv, QueueTypes, ReaderFits, OthersKeep, Holds

LEMMA KeepsTail ==
    ASSUME LockInv, NEW r \in Readers, Holds(r)
    PROVE  OthersKeep(r, Tail(lock)) /\ ~On(Tail(lock), r)
<1>1. lock \in Seq(Tasks) /\ lock # << >> /\ IsInjective(lock) /\ Head(lock) = r
  BY DEF LockInv, QueueTypes, Holds
<1> DEFINE m == Tail(lock)
<1>2. /\ m \in Seq(Tasks) /\ IsInjective(m)
      /\ \A u : On(m, u) <=> On(lock, u) /\ u # r
      /\ \A u, v : Before(lock, u, v) /\ u # r => Before(m, u, v)
  BY <1>1, LeaveFront
<1>3. \A t \in Readers \ {r} : reader[t].at \notin {"entering", "held"}
  BY <1>1 DEF LockInv, ReaderFits, Holds
<1> HIDE DEF m
<1>4. OthersKeep(r, m) /\ ~On(m, r)
  BY <1>2, <1>3 DEF OthersKeep
<1> QED BY <1>4 DEF m

LEMMA KeepsWithout ==
    ASSUME LockInv, NEW r \in Readers, On(lock, r)
    PROVE  OthersKeep(r, Without(r)) /\ ~On(Without(r), r)
<1>1. lock \in Seq(Tasks) /\ IsInjective(lock)
  BY DEF LockInv, QueueTypes
<1> DEFINE m == Without(r)
<1>2. /\ m \in Seq(Tasks) /\ IsInjective(m)
      /\ Head(lock) # r => m # << >> /\ Head(m) = Head(lock)
      /\ \A u : On(m, u) <=> On(lock, u) /\ u # r
      /\ \A u, v : Before(lock, u, v) /\ u # r /\ v # r => Before(m, u, v)
  BY <1>1, GiveUpPlace DEF Without, Place
<1>3. \A t \in Readers \ {r} : reader[t].at \in {"entering", "held"} => Head(lock) = t
  BY DEF LockInv, ReaderFits, Holds
<1> HIDE DEF m
<1>4. OthersKeep(r, m) /\ ~On(m, r)
  BY <1>2, <1>3 DEF OthersKeep
<1> QED BY <1>4 DEF m

LEMMA KeepsAppend ==
    ASSUME NEW r \in Readers, NEW m, OthersKeep(r, m), ~On(m, r)
    PROVE  /\ OthersKeep(r, Append(m, r)) /\ On(Append(m, r), r)
           /\ m = << >> => Append(m, r) # << >> /\ Head(Append(m, r)) = r
<1> DEFINE n == Append(m, r)
<1>1. r \in Tasks /\ m \in Seq(Tasks) /\ IsInjective(m)
  BY ReadersAreReaders DEF OthersKeep
<1>2. /\ n \in Seq(Tasks) /\ n # << >> /\ IsInjective(n)
      /\ Head(n) = IF m = << >> THEN r ELSE Head(m)
      /\ \A u : On(n, u) <=> On(m, u) \/ u = r
      /\ \A u, v : Before(m, u, v) => Before(n, u, v)
  BY <1>1, JoinQueue
<1> HIDE DEF n
<1>3. OthersKeep(r, n) /\ On(n, r) /\ (m = << >> => n # << >> /\ Head(n) = r)
  BY <1>2 DEF OthersKeep
<1> QED BY <1>3 DEF n

\* A step of one reader preserves the invariant if it does for that reader.
LEMMA ReaderMoves ==
    ASSUME LockInv, NEW r \in Readers, NEW p \in ReaderState,
           reader' = [reader EXCEPT ![r] = p], p.cursor <= written,
           UNCHANGED <<buffer, written, closed, writer, closer>>,
           OthersKeep(r, lock'), ReaderFits(r)'
    PROVE  LockInv'
<1>1. \A t \in Readers : reader'[t] = IF t = r THEN p ELSE reader[t]
  BY DEF LockInv, StreamTypes
<1>2. StreamTypes'
  <2>1. reader' \in [Readers -> ReaderState]
    BY DEF LockInv, StreamTypes
  <2>2. \A t \in Readers : reader'[t].cursor <= written'
    BY <1>1 DEF LockInv, StreamTypes
  <2> QED BY <2>1, <2>2 DEF LockInv, StreamTypes
<1>3. QueueTypes'
  BY DEF LockInv, QueueTypes, OthersKeep
<1>4. /\ (On(lock, "writer") <=> writer = "notifying")'
      /\ (On(lock, "closer") <=> closer = "notifying")'
      /\ (closer = "notifying" => closed)'
  BY ReadersAreReaders DEF LockInv, OthersKeep
<1>5. ASSUME NEW t \in Readers, t # r PROVE ReaderFits(t)'
  <2>1. reader'[t] = reader[t] /\ ReaderFits(t)
    BY <1>1, <1>5 DEF LockInv
  <2>2. /\ On(lock', t) <=> On(lock, t)
        /\ reader[t].at \in {"entering", "held"} => Holds(t)'
        /\ Before(lock, t, "writer") => Before(lock', t, "writer")
        /\ Before(lock, t, "closer") => Before(lock', t, "closer")
    BY <1>5, ReadersAreReaders DEF OthersKeep, Holds
  <2> QED BY <2>1, <2>2 DEF ReaderFits
<1> QED BY <1>2, <1>3, <1>4, <1>5 DEF LockInv

------------------------------------------------------------------------------
(* The steps.                                                               *)

LEMMA NotifyMoves ==
    ASSUME StreamTypes
    PROVE  /\ NotifyAll(reader) \in [Readers -> ReaderState]
           /\ \A r \in Readers :
                /\ NotifyAll(reader)[r].cursor = reader[r].cursor
                /\ NotifyAll(reader)[r].at
                        = IF reader[r].at = "waiting" THEN "woken" ELSE reader[r].at
  BY DEF NotifyAll, StreamTypes, ReaderState, Places

\* Nobody is on a free lock, and those who wait are notified.
LEMMA NotifyWhenFree ==
    ASSUME LockInv, lock = << >>, UNCHANGED <<lock, writer, closer>>,
           reader' = NotifyAll(reader), StreamTypes', closed' \in BOOLEAN
    PROVE  LockInv'
<1>1. \A t : ~On(lock, t)
  BY DEF On
<1>2. writer = "idle" /\ closer = "idle"
  BY <1>1 DEF LockInv, QueueTypes
<1>3. QueueTypes'
  BY DEF LockInv, QueueTypes
<1>4. ASSUME NEW r \in Readers PROVE ReaderFits(r)'
  <2>1. reader[r].at \notin Queueing
    BY <1>1 DEF LockInv, ReaderFits
  <2>2. reader'[r].at \notin Queueing \cup {"waiting"}
    BY <2>1, NotifyMoves DEF LockInv, Queueing
  <2>3. ~On(lock', r)
    BY <1>1
  <2> QED BY <2>2, <2>3 DEF ReaderFits, Queueing
<1> QED BY <1>1, <1>2, <1>3, <1>4 DEF LockInv

LEMMA WriteLock ==
    ASSUME LockInv, NEW n \in Chunks, Write(n)
    PROVE  LockInv'
<1>1. n \in Nat \ {0} /\ Stored(n) \in Nat /\ Capacity \in Nat
  BY RingAssumption DEF Stored
<1>2. written \in Nat /\ written' = written + Stored(n)
  BY DEF Write, LockInv, StreamTypes
<1>3. buffer' \in [Slots -> Samples]
  BY <1>1, StoreType DEF Write, LockInv, StreamTypes
<1>4. CASE lock = << >>
  <2>1. UNCHANGED <<lock, writer, closer, closed>> /\ reader' = NotifyAll(reader)
    BY <1>4 DEF Write
  <2>2. StreamTypes'
    <3>1. \A r \in Readers : reader[r].cursor \in Nat /\ reader[r].cursor <= written
      BY DEF LockInv, StreamTypes, ReaderState
    <3>2. \A r \in Readers : reader'[r].cursor <= written'
      BY <1>1, <1>2, <2>1, <3>1, NotifyMoves DEF LockInv
    <3> QED BY <1>1, <1>2, <1>3, <2>1, <3>2, NotifyMoves DEF LockInv, StreamTypes
  <2> QED BY <1>4, <2>1, <2>2, NotifyWhenFree DEF LockInv, QueueTypes
<1>5. CASE lock # << >>
  <2>1. /\ lock' = Append(lock, "writer") /\ writer' = "notifying"
        /\ UNCHANGED <<reader, closer, closed>> /\ writer = "idle"
    BY <1>5 DEF Write
  <2>2. StreamTypes'
    <3>1. \A r \in Readers : reader[r].cursor \in Nat /\ reader[r].cursor <= written
      BY DEF LockInv, StreamTypes, ReaderState
    <3>2. \A r \in Readers : reader[r].cursor <= written'
      BY <1>1, <1>2, <3>1
    <3> QED BY <1>1, <1>2, <1>3, <2>1, <3>2 DEF LockInv, StreamTypes
  <2>3. /\ lock' \in Seq(Tasks) /\ lock' # << >> /\ IsInjective(lock')
        /\ Head(lock') = Head(lock)
        /\ \A u : On(lock', u) <=> On(lock, u) \/ u = "writer"
        /\ \A u, v : Before(lock, u, v) => Before(lock', u, v)
        /\ \A u : On(lock, u) => Before(lock', u, "writer")
    <3>1. lock \in Seq(Tasks) /\ "writer" \in Tasks /\ IsInjective(lock)
          /\ ~On(lock, "writer")
      BY <2>1, ReadersAreReaders DEF LockInv, QueueTypes
    <3> QED BY <1>5, <2>1, <3>1, JoinQueue
  <2>4. QueueTypes'
    BY <2>1, <2>3 DEF LockInv, QueueTypes
  <2>5. ASSUME NEW r \in Readers PROVE ReaderFits(r)'
    BY <2>1, <2>3, ReadersAreReaders DEF LockInv, ReaderFits, Queueing, Holds
  <2>6. On(lock', "writer") /\ (On(lock', "closer") <=> On(lock, "closer"))
    BY <2>3, ReadersAreReaders
  <2> QED BY <2>1, <2>2, <2>4, <2>5, <2>6 DEF LockInv
<1> QED BY <1>4, <1>5

LEMMA CloseLock ==
    ASSUME LockInv, Close
    PROVE  LockInv'
<1>1. closed' = TRUE /\ ~closed /\ UNCHANGED <<buffer, written, writer>>
  BY DEF Close
<1>2. StreamTypes'
  BY <1>1, NotifyMoves DEF Close, LockInv, StreamTypes
<1>3. CASE lock = << >>
  BY <1>1, <1>2, <1>3, NotifyWhenFree DEF Close
<1>4. CASE lock # << >>
  <2>1. /\ lock' = Append(lock, "closer") /\ closer' = "notifying"
        /\ UNCHANGED reader /\ closer = "idle"
    BY <1>1, <1>4 DEF Close, LockInv, QueueTypes
  <2>2. /\ lock' \in Seq(Tasks) /\ lock' # << >> /\ IsInjective(lock')
        /\ Head(lock') = Head(lock)
        /\ \A u : On(lock', u) <=> On(lock, u) \/ u = "closer"
        /\ \A u, v : Before(lock, u, v) => Before(lock', u, v)
        /\ \A u : On(lock, u) => Before(lock', u, "closer")
    <3>1. lock \in Seq(Tasks) /\ "closer" \in Tasks /\ IsInjective(lock)
          /\ ~On(lock, "closer")
      BY <2>1, ReadersAreReaders DEF LockInv, QueueTypes
    <3> QED BY <1>4, <2>1, <3>1, JoinQueue
  <2>3. QueueTypes'
    BY <1>1, <2>1, <2>2 DEF LockInv, QueueTypes
  <2>4. ASSUME NEW r \in Readers PROVE ReaderFits(r)'
    BY <1>1, <2>1, <2>2, ReadersAreReaders DEF LockInv, ReaderFits, Queueing, Holds
  <2>5. On(lock', "closer") /\ (On(lock', "writer") <=> On(lock, "writer"))
    BY <2>2, ReadersAreReaders
  <2> QED BY <1>1, <1>2, <2>1, <2>3, <2>4, <2>5 DEF LockInv
<1> QED BY <1>3, <1>4

\* Whoever is behind the holder is not before it.
LEMMA NobodyBeforeHead ==
    ASSUME LockInv, lock # << >>, NEW u
    PROVE  ~Before(lock, u, Head(lock))
<1>1. lock \in Seq(Tasks) /\ IsInjective(lock)
  BY DEF LockInv, QueueTypes
<1>2. ASSUME NEW i \in DOMAIN lock, NEW j \in DOMAIN lock, i < j, lock[j] = Head(lock)
      PROVE  FALSE
  <2>1. 1 \in DOMAIN lock /\ lock[1] = Head(lock)
    BY <1>1
  <2>2. j = 1
    BY <1>1, <1>2, <2>1 DEF IsInjective
  <2> QED BY <1>1, <1>2, <2>2
<1> QED BY <1>2 DEF Before

LEMMA NotifierLock ==
    ASSUME LockInv, WriterNotifies \/ CloserNotifies
    PROVE  LockInv'
<1> DEFINE me == IF writer = "notifying" /\ Holds("writer") THEN "writer" ELSE "closer"
<1>1. /\ lock # << >> /\ Head(lock) = me /\ lock' = Tail(lock)
      /\ reader' = NotifyAll(reader) /\ UNCHANGED <<buffer, written, closed>>
      /\ me \in {"writer", "closer"}
  BY ReadersAreReaders DEF WriterNotifies, CloserNotifies, Holds
<1>2. /\ me = "writer" => writer' = "idle" /\ closer' = closer
      /\ me = "closer" => closer' = "idle" /\ writer' = writer
  BY ReadersAreReaders DEF WriterNotifies, CloserNotifies, Holds
<1> HIDE DEF me
<1>3. /\ lock' \in Seq(Tasks) /\ IsInjective(lock')
      /\ \A u : On(lock', u) <=> On(lock, u) /\ u # me
      /\ \A u, v : Before(lock, u, v) /\ u # me => Before(lock', u, v)
  <2>1. lock \in Seq(Tasks) /\ IsInjective(lock)
    BY DEF LockInv, QueueTypes
  <2> QED BY <1>1, <2>1, LeaveFront
<1>4. StreamTypes'
  BY <1>1, NotifyMoves DEF LockInv, StreamTypes
<1>5. QueueTypes'
  BY <1>1, <1>2, <1>3 DEF LockInv, QueueTypes
<1>6. /\ On(lock', "writer") <=> writer' = "notifying"
      /\ On(lock', "closer") <=> closer' = "notifying"
      /\ closer' = "notifying" => closed'
  BY <1>1, <1>2, <1>3, ReadersAreReaders DEF LockInv
<1>7. ASSUME NEW r \in Readers PROVE ReaderFits(r)'
  <2>1. r # me /\ ~Before(lock, r, me)
    BY <1>1, NobodyBeforeHead, ReadersAreReaders
  <2>2. reader[r].at \notin {"entering", "held"}
    BY <1>1, <2>1 DEF LockInv, ReaderFits, Holds
  <2>3. /\ reader'[r].cursor = reader[r].cursor
        /\ reader'[r].at = IF reader[r].at = "waiting" THEN "woken" ELSE reader[r].at
    BY <1>1, NotifyMoves DEF LockInv
  <2>4. /\ reader'[r].at \notin {"entering", "held", "waiting"}
        /\ reader'[r].at \in Queueing <=> reader[r].at \in Queueing
        /\ reader'[r].at = "locking" => reader[r].at = "locking"
    BY <2>2, <2>3 DEF Queueing
  <2>5. ReaderFits(r)
    BY DEF LockInv
  <2>6. On(lock', r) <=> reader'[r].at \in Queueing
    BY <1>3, <2>1, <2>4, <2>5 DEF ReaderFits
  <2>7. reader'[r].at = "locking" =>
            /\ written > reader[r].cursor => Before(lock', r, "writer")
            /\ closed => Before(lock', r, "closer")
    BY <1>3, <2>1, <2>4, <2>5 DEF ReaderFits
  <2> QED BY <1>1, <2>3, <2>4, <2>6, <2>7 DEF ReaderFits
<1> QED BY <1>4, <1>5, <1>6, <1>7 DEF LockInv

\* What is left of a reader that only moves to another place.
Moved(r, place, reason) == [reader[r] EXCEPT !.at = place, !.quits = reason]

LEMMA MovedIsReader ==
    ASSUME LockInv, NEW r \in Readers, NEW place \in Places, NEW reason \in Reasons
    PROVE  /\ Moved(r, place, reason) \in ReaderState
           /\ Moved(r, place, reason).at = place
           /\ Moved(r, place, reason).cursor = reader[r].cursor
           /\ reader[r] \in ReaderState
           /\ reader[r].cursor <= written
  BY DEF Moved, LockInv, StreamTypes, ReaderState

\* The loop of read_exactly, entered or resumed, with the lock in the hands of r or
\* free of it: `rest` are the tasks on it without r.
LEMMA LoopLock ==
    ASSUME LockInv, NEW r \in Readers, NEW q \in ReaderState, q.cursor <= written,
           NEW rest, OthersKeep(r, rest), ~On(rest, r), Loop(r, q, rest)
    PROVE  LockInv'
<1> DEFINE p == ReadCopy(q, q.need)
<1>1. /\ p \in ReaderState /\ p.cursor <= written
      /\ p.need # 0 => p.cursor = written
  BY ReadCopyType DEF LockInv
<1> HIDE DEF p
<1>2. UNCHANGED <<buffer, written, closed, writer, closer>>
  BY DEF Loop
<1>3. CASE p.need = 0 \/ closed
  <2> DEFINE m == [p EXCEPT !.at = "out"]
  <2>1. reader' = [reader EXCEPT ![r] = m] /\ lock' = rest
    BY <1>3 DEF Loop, p
  <2>2. m \in ReaderState /\ m.at = "out" /\ m.cursor <= written
    BY <1>1 DEF ReaderState, Places
  <2> HIDE DEF m
  <2>3. reader'[r] = m
    BY <2>1 DEF LockInv, StreamTypes
  <2>4. ReaderFits(r)'
    BY <2>1, <2>2, <2>3 DEF ReaderFits, Queueing
  <2> QED BY <1>2, <2>1, <2>2, <2>4, ReaderMoves
<1>4. CASE p.need # 0 /\ ~closed
  <2> DEFINE place == IF rest = << >> THEN "entering" ELSE "locking"
             m == [p EXCEPT !.at = place]
  <2>1. reader' = [reader EXCEPT ![r] = m] /\ lock' = Append(rest, r)
    BY <1>4 DEF Loop, p
  <2>2. /\ m \in ReaderState /\ m.at = place /\ m.cursor = written /\ place \in Queueing
        /\ place = "entering" => rest = << >>
        /\ place # "held" /\ place # "waiting"
    BY <1>1, <1>4 DEF ReaderState, Places, Queueing
  <2> HIDE DEF m, place
  <2>3. reader'[r] = m
    BY <2>1 DEF LockInv, StreamTypes
  <2>4. /\ OthersKeep(r, lock') /\ On(lock', r)
        /\ rest = << >> => lock' # << >> /\ Head(lock') = r
    BY <2>1, KeepsAppend
  <2>5. ~(written > written) /\ written <= written
    BY DEF LockInv, StreamTypes
  <2>6. ReaderFits(r)'
    BY <1>2, <1>4, <2>2, <2>3, <2>4, <2>5 DEF ReaderFits, Holds
  <2> QED BY <1>2, <2>1, <2>2, <2>4, <2>5, <2>6, ReaderMoves
<1> QED BY <1>3, <1>4

LEMMA ReadExactlyLock ==
    ASSUME LockInv, NEW r \in Readers, NEW n \in Counts, ReadExactly(r, n)
    PROVE  LockInv'
<1> DEFINE q == [reader[r] EXCEPT !.need = n, !.got = << >>, !.quits = "none"]
<1>1. n \in Nat /\ << >> \in Seq(Nat \cup {Silence}) /\ reader[r] \in ReaderState
      /\ reader[r].cursor <= written /\ reader[r].at = "out"
  BY RingAssumption DEF LockInv, StreamTypes, ReadExactly
<1>2. q \in ReaderState /\ q.cursor <= written
  BY <1>1 DEF ReaderState, Reasons
<1>3. Loop(r, q, lock)
  BY DEF ReadExactly
<1> HIDE DEF q
<1>4. ~On(lock, r)
  BY <1>1 DEF LockInv, ReaderFits, Queueing
<1> QED BY <1>2, <1>3, <1>4, KeepsLock, LoopLock

\* Whoever is inside the `async with` finds the lock taken when it releases it.
LEMMA InsideIsTaken ==
    ASSUME LockInv, NEW r \in Readers, reader[r].at \in {"entering", "held"}
    PROVE  Taken
  BY DEF LockInv, ReaderFits, Taken

LEMMA ResumeLock ==
    ASSUME LockInv, NEW r \in Readers, Resume(r)
    PROVE  LockInv'
<1>1. reader[r].at = "held" /\ Holds(r) /\ reader[r] \in ReaderState
      /\ reader[r].cursor <= written
  BY DEF Resume, LockInv, ReaderFits, StreamTypes
<1>2. OthersKeep(r, Tail(lock)) /\ ~On(Tail(lock), r)
  BY <1>1, KeepsTail
<1>5. Taken
  BY <1>1, InsideIsTaken
<1>3. CASE reader[r].quits = "none"
  <2>1. Loop(r, reader[r], Tail(lock))
    BY <1>3, <1>5 DEF Resume
  <2> QED BY <1>1, <1>2, <2>1, LoopLock
<1>4. CASE reader[r].quits # "none"
  <2> DEFINE m == Moved(r, "out", reader[r].quits)
  <2>1. m \in ReaderState /\ m.at = "out" /\ m.cursor <= written
    BY <1>1, MovedIsReader DEF ReaderState, Places
  <2>2. /\ reader' = [reader EXCEPT ![r] = m] /\ lock' = Tail(lock)
        /\ UNCHANGED <<buffer, written, closed, writer, closer>>
    BY <1>1, <1>4, <1>5 DEF Resume, Move, Moved, Released, LockInv, StreamTypes, ReaderState
  <2> HIDE DEF m
  <2>3. reader'[r] = m
    BY <2>2 DEF LockInv, StreamTypes
  <2>4. ReaderFits(r)'
    BY <1>2, <2>1, <2>2, <2>3 DEF ReaderFits, Queueing
  <2> QED BY <1>2, <2>1, <2>2, <2>4, ReaderMoves
<1> QED BY <1>3, <1>4

\* Out of read_exactly nobody is on the lock.
LEMMA OutsideLock ==
    ASSUME LockInv, NEW r \in Readers, NewReader(r) \/ \E n \in Counts : TryRead(r, n)
    PROVE  LockInv'
<1>1. /\ reader[r].at \in {"absent", "out"} /\ reader[r] \in ReaderState
      /\ reader[r].cursor <= written /\ written \in Nat
      /\ UNCHANGED <<buffer, written, closed, lock, writer, closer>>
  BY DEF NewReader, TryRead, LockInv, StreamTypes
<1>2. ~On(lock, r)
  BY <1>1 DEF LockInv, ReaderFits, Queueing
<1>3. PICK p \in ReaderState :
        reader' = [reader EXCEPT ![r] = p] /\ p.at = "out" /\ p.cursor <= written
  <2>1. CASE NewReader(r)
    <3>1. PICK c \in {written, IF written > Capacity THEN written - Capacity ELSE 0} :
                reader' = [reader EXCEPT ![r].at = "out", ![r].cursor = c]
      BY <2>1 DEF NewReader
    <3>2. c \in Nat /\ c <= written
      BY <1>1, <3>1, RingAssumption
    <3> DEFINE p == [reader[r] EXCEPT !.at = "out", !.cursor = c]
    <3>3. p \in ReaderState /\ p.at = "out" /\ p.cursor <= written
      BY <1>1, <3>2 DEF ReaderState, Places
    <3>4. reader' = [reader EXCEPT ![r] = p]
      BY <3>1 DEF LockInv, StreamTypes
    <3> QED BY <3>3, <3>4
  <2>2. CASE \E n \in Counts : TryRead(r, n)
    <3>1. PICK n \in Counts : TryRead(r, n)
      BY <2>2
    <3> DEFINE q == [reader[r] EXCEPT !.need = n, !.got = << >>, !.quits = "none"]
    <3>2. n \in Nat /\ << >> \in Seq(Nat \cup {Silence}) /\ reader[r].at = "out"
      <4>1. reader[r].at = "out"
        BY <3>1 DEF TryRead
      <4> QED BY <4>1, RingAssumption
    <3>3. q \in ReaderState /\ q.at = "out" /\ q.cursor <= written /\ q.need = n
      BY <1>1, <3>2 DEF ReaderState, Reasons
    <3>4. reader' = [reader EXCEPT ![r] = ReadCopy(q, n)]
      BY <3>1 DEF TryRead
    <3> HIDE DEF q
    <3>5. LET p == ReadCopy(q, q.need)
          IN  p \in ReaderState /\ p.at = q.at /\ p.cursor <= written
      BY <3>3, ReadCopyType DEF LockInv
    <3> QED BY <3>3, <3>4, <3>5
  <2> QED BY <2>1, <2>2
<1>4. reader'[r] = p
  BY <1>3 DEF LockInv, StreamTypes
<1>5. ReaderFits(r)'
  BY <1>1, <1>2, <1>3, <1>4 DEF ReaderFits, Queueing
<1> QED BY <1>1, <1>3, <1>5, KeepsLock, ReaderMoves

\* A reader that only moves to another place, and does not read.
LEMMA MoveLock ==
    ASSUME LockInv, NEW r \in Readers, NEW place \in Places, NEW reason \in Reasons,
           reader' = [reader EXCEPT ![r] = Moved(r, place, reason)],
           UNCHANGED <<buffer, written, closed, writer, closer>>,
           OthersKeep(r, lock'),
           On(lock', r) <=> place \in Queueing,
           place \in {"entering", "held"} => lock' # << >> /\ Head(lock') = r,
           place = "entering" => reader[r].at = "locking" /\ lock' = lock,
           place = "waiting" => reader[r].at = "entering",
           place # "locking"
    PROVE  LockInv'
<1>1. /\ Moved(r, place, reason) \in ReaderState /\ reader[r].cursor <= written
      /\ reader'[r].at = place /\ reader'[r].cursor = reader[r].cursor
      /\ Moved(r, place, reason).cursor <= written
  <2>1. reader'[r] = Moved(r, place, reason)
    BY DEF LockInv, StreamTypes
  <2> QED BY <2>1, MovedIsReader
<1>2. ReaderFits(r)
  BY DEF LockInv
<1>3. CASE place \notin {"entering", "waiting"}
  <2>1. ReaderFits(r)'
    BY <1>1, <1>3 DEF ReaderFits, Holds
  <2> QED BY <1>1, <2>1, ReaderMoves
<1>4. CASE place = "entering"
  <2>1. ReaderFits(r)'
    BY <1>1, <1>2, <1>4 DEF ReaderFits, Holds
  <2> QED BY <1>1, <2>1, ReaderMoves
<1>5. CASE place = "waiting"
  <2>1. \A u, v : Before(lock, u, v) => On(lock, v)
    BY DEF Before, On
  <2>2. /\ written > reader[r].cursor => writer = "notifying"
        /\ closed => closer = "notifying"
    BY <1>2, <1>5, <2>1 DEF ReaderFits, LockInv
  <2>3. ReaderFits(r)'
    BY <1>1, <1>5, <2>2 DEF ReaderFits
  <2> QED BY <1>1, <2>3, ReaderMoves
<1> QED BY <1>3, <1>4, <1>5

LEMMA WaitingLock ==
    ASSUME LockInv, NEW r \in Readers, Locked(r) \/ Wait(r) \/ Relock(r) \/ Relocked(r)
    PROVE  LockInv'
<1>1. /\ UNCHANGED <<buffer, written, closed, writer, closer>>
      /\ ReaderFits(r) /\ reader[r] \in ReaderState
  BY DEF Locked, Wait, Relock, Relocked, Move, LockInv, StreamTypes
<1>2. ASSUME NEW place \in Places, Move(r, place)
      PROVE  reader' = [reader EXCEPT ![r] = Moved(r, place, reader[r].quits)]
             /\ reader[r].quits \in Reasons
  BY <1>1, <1>2 DEF Move, Moved, ReaderState, LockInv, StreamTypes
<1>3. CASE Locked(r)
  <2>1. Holds(r) /\ reader[r].at = "locking" /\ On(lock, r)
    BY <1>1, <1>3 DEF Locked, ReaderFits, Queueing
  <2>2. CASE Move(r, "entering") /\ UNCHANGED lock
    BY <1>1, <1>2, <2>1, <2>2, KeepsLock, MoveLock DEF Queueing, Places, Holds
  <2>3. CASE Move(r, "out") /\ lock' = Tail(lock)
    BY <1>1, <1>2, <2>1, <2>3, KeepsTail, MoveLock DEF Queueing, Places
  <2> QED BY <1>3, <2>2, <2>3 DEF Locked
<1>4. CASE Wait(r)
  <2>1. Holds(r) /\ reader[r].at = "entering" /\ Move(r, "waiting") /\ lock' = Tail(lock)
    BY <1>1, <1>4, InsideIsTaken DEF Wait, Released, ReaderFits
  <2> QED BY <1>1, <1>2, <2>1, KeepsTail, MoveLock DEF Queueing, Places
<1>5. CASE Relock(r)
  <2> DEFINE place == IF lock = << >> THEN "held" ELSE "relocking"
  <2>1. /\ reader[r].at = "woken" /\ Move(r, place) /\ lock' = Append(lock, r)
        /\ ~On(lock, r)
    BY <1>1, <1>5 DEF Relock, ReaderFits, Queueing
  <2>2. /\ OthersKeep(r, lock') /\ On(lock', r)
        /\ lock = << >> => lock' # << >> /\ Head(lock') = r
    BY <2>1, KeepsLock, KeepsAppend
  <2>3. /\ place \in Places /\ place \in Queueing
        /\ place \notin {"entering", "waiting", "locking"}
        /\ place = "held" => lock = << >>
    BY DEF Places, Queueing
  <2> HIDE DEF place
  <2> QED BY <1>1, <1>2, <2>1, <2>2, <2>3, MoveLock
<1>6. CASE Relocked(r)
  <2>1. /\ Holds(r) /\ reader[r].at = "relocking" /\ Move(r, "held") /\ UNCHANGED lock
        /\ On(lock, r)
    BY <1>1, <1>6 DEF Relocked, ReaderFits, Queueing
  <2> QED BY <1>1, <1>2, <2>1, KeepsLock, MoveLock DEF Queueing, Places, Holds
<1> QED BY <1>3, <1>4, <1>5, <1>6

LEMMA CancelLock ==
    ASSUME LockInv, NEW r \in Readers, CancelLocking(r)
    PROVE  LockInv'
<1>1. /\ UNCHANGED <<buffer, written, closed, writer, closer>>
      /\ reader' = [reader EXCEPT ![r] = Moved(r, "out", "cancelled")]
      /\ lock' = Without(r) /\ reader[r].at = "locking"
  BY DEF CancelLocking, Moved, LockInv, StreamTypes, ReaderState
<1>2. On(lock, r)
  BY <1>1 DEF LockInv, ReaderFits, Queueing
<1> QED BY <1>1, <1>2, KeepsWithout, MoveLock DEF Queueing, Places, Reasons

LEMMA QuitLock ==
    ASSUME LockInv, NEW r \in Readers, NEW reason \in Reasons \ {"none"}, Quit(r, reason)
    PROVE  LockInv'
<1> DEFINE place == IF reader[r].at = "entering" THEN "held" ELSE "woken"
<1>1. /\ reader[r].at \in {"entering", "waiting", "woken", "relocking"}
      /\ reader[r] \in ReaderState /\ ReaderFits(r)
      /\ UNCHANGED <<buffer, written, closed, writer, closer>>
  BY DEF Quit, LockInv, StreamTypes
<1>2. reader' = [reader EXCEPT ![r] = Moved(r, place, reason)]
  BY <1>1 DEF Quit, Moved, LockInv, StreamTypes, ReaderState
<1>3. lock' = IF reader[r].at = "relocking" THEN Without(r) ELSE lock
  BY DEF Quit
<1>4. CASE reader[r].at = "relocking"
  <2>1. place = "woken" /\ On(lock, r)
    BY <1>1, <1>4 DEF ReaderFits, Queueing
  <2>2. OthersKeep(r, lock') /\ ~On(lock', r)
    BY <1>3, <1>4, <2>1, KeepsWithout
  <2> QED BY <1>1, <1>2, <2>1, <2>2, MoveLock DEF Queueing, Places
<1>5. CASE reader[r].at = "entering"
  <2>1. place = "held" /\ On(lock, r) /\ Holds(r)
    BY <1>1, <1>5 DEF ReaderFits, Queueing
  <2> QED BY <1>1, <1>2, <1>3, <1>5, <2>1, KeepsLock, MoveLock DEF Queueing, Places, Holds
<1>6. CASE reader[r].at \in {"waiting", "woken"}
  <2>1. place = "woken" /\ ~On(lock, r)
    BY <1>1, <1>6 DEF ReaderFits, Queueing
  <2> QED BY <1>1, <1>2, <1>3, <1>6, <2>1, KeepsLock, MoveLock DEF Queueing, Places
<1> QED BY <1>1, <1>4, <1>5, <1>6

\* Abandon is the one step that the invariant does not survive.
LEMMA LockStep ==
    ASSUME LockInv, [Next]_vars, ~abandoned'
    PROVE  LockInv'
<1>1. CASE \E n \in Chunks : Write(n)
  BY <1>1, WriteLock
<1>2. CASE WriterNotifies \/ CloserNotifies
  BY <1>2, NotifierLock
<1>3. CASE Close
  BY <1>3, CloseLock
<1>4. CASE \E r \in Readers : NewReader(r) \/ \E n \in Counts : TryRead(r, n)
  BY <1>4, OutsideLock
<1>5. CASE \E r \in Readers : \E n \in Counts : ReadExactly(r, n)
  BY <1>5, ReadExactlyLock
<1>6. CASE \E r \in Readers : Locked(r) \/ Wait(r) \/ Relock(r) \/ Relocked(r)
  BY <1>6, WaitingLock
<1>7. CASE \E r \in Readers : Resume(r)
  BY <1>7, ResumeLock
<1>8. CASE \E r \in Readers : CancelLocking(r)
  BY <1>8, CancelLock
<1>9. CASE \E r \in Readers : \E reason \in Reasons \ {"none"} : Quit(r, reason)
  BY <1>9, QuitLock
<1>10. CASE UNCHANGED vars
  BY <1>10 DEF vars, LockInv, StreamTypes, QueueTypes, ReaderFits, Holds, On, Before
<1>11. ~OrphanRelocks
  <2>1. lock # << >> => Head(lock) \in Tasks
    BY DEF LockInv, QueueTypes
  <2> QED BY <2>1, ReadersAreReaders DEF OrphanRelocks, Holds
<1>12. \A r \in Readers : ~Abandon(r)
  BY DEF Abandon
<1> QED BY <1>1, <1>2, <1>3, <1>4, <1>5, <1>6, <1>7, <1>8, <1>9, <1>10, <1>11, <1>12
        DEF Next, ReaderStep, Reasons

LEMMA LockInvImplies ==
    ASSUME ~abandoned => LockInv
    PROVE  LockIsHeld /\ NoLostWakeup
<1> SUFFICES ASSUME LockInv PROVE LockIsHeld /\ NoLostWakeup
  BY DEF LockIsHeld, NoLostWakeup
<1>1. LockIsHeld
  <2>1. \A r \in Readers : reader[r].at \in {"entering", "held"} => Holds(r)
    BY DEF LockInv, ReaderFits
  <2>2. ASSUME NEW i \in DOMAIN lock
        PROVE  /\ lock[i] \notin {"orphan", "ended"}
               /\ lock[i] \in Readers => reader[lock[i]].at \notin {"absent", "out"}
    <3>1. lock[i] \in Tasks
      BY DEF LockInv, QueueTypes
    <3>2. lock[i] \in Readers => reader[lock[i]].at \in Queueing
      BY DEF LockInv, ReaderFits, On
    <3> QED BY <3>1, <3>2, ReadersAreReaders DEF Queueing
  <2> QED BY <2>1, <2>2 DEF LockIsHeld
<1>2. NoLostWakeup
  BY DEF LockInv, ReaderFits, NoLostWakeup
<1> QED BY <1>1, <1>2

------------------------------------------------------------------------------
(* The types, whoever leaves what behind.                                   *)

Everyone == Readers \cup Others

\* A queue in which those of S that queue have a place.
Queue(S, lk) ==
    /\ lk \in Seq(Everyone)
    /\ \A t \in S : reader[t].at \in {"locking", "relocking"} => On(lk, t)

TypeInv ==
    /\ TypeOK
    /\ \A r \in Readers : reader[r].cursor <= written
    /\ Queue(Readers, lock)

LEMMA TypeInvIsStream == TypeInv => StreamTypes
  BY DEF TypeInv, TypeOK, StreamTypes, Samples

LEMMA InitTyped == Init => TypeInv
<1> SUFFICES ASSUME Init PROVE TypeInv
  OBVIOUS
<1>1. LockInv
  BY InitLock
<1>2. lock = << >> /\ lock \in Seq(Everyone)
  BY DEF Init
<1>4. abandoned \in BOOLEAN
  BY DEF Init
<1>3. \A r \in Readers : reader[r].at = "absent"
  BY DEF Init
<1> QED BY <1>1, <1>2, <1>3, <1>4
        DEF LockInv, StreamTypes, QueueTypes, TypeInv, TypeOK, Queue, Samples, Everyone

\* Going behind the others.
LEMMA QueueGrows ==
    ASSUME NEW S, NEW lk, Queue(S, lk), NEW t \in Everyone
    PROVE  Queue(S, Append(lk, t)) /\ On(Append(lk, t), t)
<1>1. lk \in Seq(Everyone) /\ Append(lk, t) \in Seq(Everyone)
  BY DEF Queue
<1>2. \A u : On(lk, u) => On(Append(lk, t), u)
  BY <1>1 DEF On
<1>3. On(Append(lk, t), t)
  <2>1. Len(lk) + 1 \in DOMAIN Append(lk, t) /\ Append(lk, t)[Len(lk) + 1] = t
    BY <1>1
  <2> QED BY <2>1 DEF On
<1> QED BY <1>1, <1>2, <1>3 DEF Queue

\* Leaving the front, and putting somebody else there.
LEMMA QueueAdvances ==
    ASSUME NEW S, NEW lk, Queue(S, lk), lk # << >>,
           \A t \in S : reader[t].at \in {"locking", "relocking"} => Head(lk) # t
    PROVE  /\ Queue(S, Tail(lk))
           /\ \A u \in Everyone : Queue(S, <<u>> \o Tail(lk))
<1>1. lk \in Seq(Everyone) /\ Tail(lk) \in Seq(Everyone)
  BY DEF Queue
<1>2. ASSUME NEW t, On(lk, t), Head(lk) # t
      PROVE  /\ On(Tail(lk), t)
             /\ \A u \in Everyone : On(<<u>> \o Tail(lk), t)
  <2>1. PICK i \in 1 .. Len(lk) : lk[i] = t
    BY <1>1, <1>2 DEF On
  <2>2. i # 1
    BY <1>1, <1>2, <2>1
  <2>3. i - 1 \in DOMAIN Tail(lk) /\ Tail(lk)[i - 1] = t
    BY <1>1, <2>1, <2>2
  <2>4. ASSUME NEW u \in Everyone
        PROVE  i \in DOMAIN (<<u>> \o Tail(lk)) /\ (<<u>> \o Tail(lk))[i] = t
    <3>1. Len(<<u>>) = 1 /\ Len(Tail(lk)) = Len(lk) - 1
      BY <1>1
    <3> QED BY <1>1, <2>1, <2>2, <2>3, <3>1
  <2> QED BY <2>3, <2>4 DEF On
<1>3. \A u \in Everyone : <<u>> \o Tail(lk) \in Seq(Everyone)
  BY <1>1
<1> QED BY <1>1, <1>2, <1>3 DEF Queue

\* Giving up a place, and leaving somebody else there.
LEMMA QueueWithout ==
    ASSUME TypeInv, NEW r \in Readers, reader[r].at \in {"locking", "relocking"},
           NEW u \in Everyone
    PROVE  /\ Place(r) \in DOMAIN lock /\ lock[Place(r)] = r
           /\ Queue(Readers \ {r}, Without(r))
           /\ Queue(Readers \ {r}, [lock EXCEPT ![Place(r)] = u])
<1> DEFINE k == Place(r)
           n == Len(lock)
<1>1. lock \in Seq(Everyone) /\ n \in Nat /\ DOMAIN lock = 1 .. n
  BY DEF TypeInv, Queue
<1>2. k \in 1 .. n /\ lock[k] = r
  BY <1>1 DEF Place, On, TypeInv, Queue
<1> HIDE DEF k
<1>3. ASSUME NEW t, On(lock, t), t # r PROVE On([lock EXCEPT ![k] = u], t)
  BY <1>1, <1>2, <1>3 DEF On
<1>4. [lock EXCEPT ![k] = u] \in Seq(Everyone)
  <2>1. lock \in [1 .. n -> Everyone]
    BY <1>1
  <2> HIDE DEF n
  <2>2. [lock EXCEPT ![k] = u] \in [1 .. n -> Everyone]
    BY <2>1
  <2> QED BY <1>1, <2>2
<1>5. RemoveAt(lock, k) = SubSeq(lock, 1, k - 1) \o SubSeq(lock, k + 1, n)
  BY DEF RemoveAt
<1> DEFINE a == SubSeq(lock, 1, k - 1)
           b == SubSeq(lock, k + 1, n)
<1>6. a \in Seq(Everyone) /\ Len(a) = k - 1 /\ \A i \in 1 .. k - 1 : a[i] = lock[i]
  BY <1>1, <1>2
<1>7. b \in Seq(Everyone) /\ Len(b) = n - k /\ \A i \in 1 .. n - k : b[i] = lock[k + i]
  <2>1. \A i \in k + 1 .. n : lock[i] \in Everyone
    BY <1>1, <1>2
  <2>2. k + 1 \in Int /\ n \in Int /\ n - (k + 1) + 1 = n - k
    BY <1>1, <1>2
  <2> HIDE DEF n
  <2>3. /\ b \in Seq(Everyone) /\ Len(b) = IF k + 1 <= n THEN n - (k + 1) + 1 ELSE 0
        /\ \A i \in 1 .. n - (k + 1) + 1 : b[i] = lock[(k + 1) + i - 1]
    BY <2>1, <2>2, SubSeqProperties
  <2> HIDE DEF b
  <2>4. Len(b) = n - k
    BY <1>1, <1>2, <2>3
  <2>5. ASSUME NEW i \in 1 .. n - k PROVE b[i] = lock[k + i]
    <3>1. (k + 1) + i - 1 = k + i /\ i \in 1 .. n - (k + 1) + 1
      BY <1>1, <1>2, <2>2
    <3>2. b[i] = lock[(k + 1) + i - 1]
      BY <2>3, <3>1, Zenon
    <3> QED BY <3>1, <3>2, Zenon
  <2> QED BY <2>3, <2>4, <2>5
<1> HIDE DEF a, b, n
<1>8. a \o b \in Seq(Everyone)
  BY <1>6, <1>7
<1>9. ASSUME NEW t, On(lock, t), t # r PROVE On(a \o b, t)
  <2>1. PICK i \in 1 .. n : lock[i] = t /\ i # k
    BY <1>1, <1>2, <1>9 DEF On
  <2>2. CASE i < k
    <3>1. i \in DOMAIN (a \o b) /\ (a \o b)[i] = t
      BY <1>1, <1>2, <1>6, <1>7, <2>1, <2>2
    <3> QED BY <3>1 DEF On
  <2>3. CASE i > k
    <3>1. i - k \in 1 .. n - k /\ k + (i - k) = i
      BY <1>1, <1>2, <2>1, <2>3
    <3>2. b[i - k] = t
      BY <1>7, <2>1, <3>1
    <3>4. (k - 1) + (i - k) = i - 1 /\ i - 1 \in 1 .. Len(a) + Len(b) /\ ~(i - 1 <= Len(a))
          /\ (i - 1) - Len(a) = i - k
      BY <1>1, <1>2, <1>6, <1>7, <2>1, <2>3
    <3>3. i - 1 \in DOMAIN (a \o b) /\ (a \o b)[i - 1] = t
      BY <1>6, <1>7, <3>2, <3>4
    <3> QED BY <3>3 DEF On
  <2> QED BY <1>1, <1>2, <2>1, <2>2, <2>3
<1>10. Without(r) = a \o b
  BY <1>5 DEF Without, a, b, k, n
<1> QED BY <1>1, <1>2, <1>3, <1>4, <1>8, <1>9, <1>10 DEF k, Queue, TypeInv

\* The holder of a lock that is taken does not queue.
LEMMA ReleasedQueue ==
    ASSUME NEW S \in SUBSET Readers, NEW lk, Queue(S, lk),
           Taken => lk # << >> /\ Head(lk) = Head(lock)
    PROVE  Queue(S, Released(lk))
<1>1. CASE Taken
  <2>1. \A t \in S : reader[t].at \in {"locking", "relocking"} => Head(lk) # t
    BY <1>1, RingAssumption DEF Taken, Holds, Others
  <2> QED BY <1>1, <2>1, QueueAdvances DEF Released
<1>2. CASE ~Taken
  BY <1>2 DEF Released
<1> QED BY <1>1, <1>2

LEMMA TakenIsQueued == Taken => lock # << >>
  BY DEF Taken, Holds

\* A step that leaves a reader with the record p.
LEMMA ReaderStaysTyped ==
    ASSUME TypeInv, NEW r \in Readers, NEW p \in ReaderState, p.cursor <= written,
           reader' = [reader EXCEPT ![r] = p], Queue(Readers \ {r}, lock'),
           p.at \in {"locking", "relocking"} => On(lock', r),
           abandoned' \in BOOLEAN, UNCHANGED <<buffer, written, closed, writer, closer>>
    PROVE  TypeInv'
<1>1. \A t \in Readers : reader'[t] = IF t = r THEN p ELSE reader[t]
  BY DEF TypeInv, TypeOK
<1>2. reader' \in [Readers -> ReaderState]
  BY DEF TypeInv, TypeOK
<1>3. Queue(Readers, lock)'
  BY <1>1 DEF Queue
<1>4. \A t \in Readers : reader'[t].cursor <= written'
  BY <1>1 DEF TypeInv
<1>5. TypeOK'
  BY <1>2, <1>3 DEF TypeInv, TypeOK, Everyone, Queue
<1> QED BY <1>3, <1>4, <1>5 DEF TypeInv

\* One that is moved, and gives up for a reason or for none.
LEMMA MoveStaysTyped ==
    ASSUME TypeInv, NEW r \in Readers, NEW place \in Places, NEW reason \in Reasons,
           reader' = [reader EXCEPT ![r] = [reader[r] EXCEPT !.at = place, !.quits = reason]],
           Queue(Readers \ {r}, lock'),
           place \in {"locking", "relocking"} => On(lock', r),
           abandoned' \in BOOLEAN, UNCHANGED <<buffer, written, closed, writer, closer>>
    PROVE  TypeInv'
<1> DEFINE p == [reader[r] EXCEPT !.at = place, !.quits = reason]
<1>1. p \in ReaderState /\ p.cursor <= written /\ p.at = place
  BY DEF TypeInv, TypeOK, ReaderState
<1> HIDE DEF p
<1> QED BY <1>1, ReaderStaysTyped DEF p

LEMMA LoopStaysTyped ==
    ASSUME TypeInv, NEW r \in Readers, NEW q \in ReaderState, q.cursor <= written,
           NEW rest, Queue(Readers \ {r}, rest), Loop(r, q, rest)
    PROVE  TypeInv'
<1> DEFINE p == ReadCopy(q, q.need)
<1>1. p \in ReaderState /\ p.cursor <= written
  BY TypeInvIsStream, ReadCopyType
<1>2. PICK place \in Places :
        /\ reader' = [reader EXCEPT ![r] = [p EXCEPT !.at = place]]
        /\ (lock' = rest /\ place = "out") \/ lock' = Append(rest, r)
  BY DEF Loop, Places
<1>6. abandoned' \in BOOLEAN /\ UNCHANGED <<buffer, written, closed, writer, closer>>
  BY DEF Loop, TypeInv, TypeOK
<1> HIDE DEF p
<1> DEFINE m == [p EXCEPT !.at = place]
<1>3. m \in ReaderState /\ m.cursor <= written /\ m.at = place
  BY <1>1 DEF ReaderState
<1>4. Queue(Readers \ {r}, lock') /\ (place = "out" \/ On(lock', r))
  BY <1>2, QueueGrows DEF Everyone
<1>5. reader' = [reader EXCEPT ![r] = m]
  BY <1>2
<1> HIDE DEF m
<1> QED BY <1>3, <1>4, <1>5, <1>6, ReaderStaysTyped

LEMMA WritingStaysTyped ==
    ASSUME TypeInv,
           \/ \E n \in Chunks : Write(n)
           \/ WriterNotifies \/ Close \/ CloserNotifies \/ OrphanRelocks
    PROVE  TypeInv'
<1>1. {"writer", "closer", "orphan", "ended"} \subseteq Everyone
  BY DEF Everyone, Others
<1>2. Queue(Readers, lock)
  BY DEF TypeInv
<1>3. Queue(Readers, lock')
  <2>1. \A t \in Readers : t \notin {"writer", "closer", "orphan"}
    BY RingAssumption DEF Others
  <2>2. CASE WriterNotifies \/ CloserNotifies \/ OrphanRelocks
    <3>1. lock # << >> /\ Head(lock) \in {"writer", "closer", "orphan"}
      BY <2>2 DEF WriterNotifies, CloserNotifies, OrphanRelocks, Holds
    <3> QED BY <1>1, <1>2, <2>1, <2>2, <3>1, QueueAdvances
            DEF WriterNotifies, CloserNotifies, OrphanRelocks
  <2>3. CASE Close \/ \E n \in Chunks : Write(n)
    BY <1>1, <1>2, <2>3, QueueGrows DEF Close, Write
  <2> QED BY <2>2, <2>3
<1>4. /\ reader' \in [Readers -> ReaderState]
      /\ \A r \in Readers :
            /\ reader'[r].cursor = reader[r].cursor
            /\ reader'[r].at \in {"locking", "relocking"} => reader'[r].at = reader[r].at
  BY TypeInvIsStream, NotifyMoves
     DEF Write, WriterNotifies, Close, CloserNotifies, OrphanRelocks, TypeInv, TypeOK
<1>5. /\ buffer' \in [Slots -> Nat \cup {Silence}]
      /\ written' \in Nat /\ written <= written'
  <2>1. CASE \E n \in Chunks : Write(n)
    <3>1. PICK n \in Chunks : Write(n)
      BY <2>1
    <3>2. n \in Nat \ {0} /\ Stored(n) \in Nat
      BY RingAssumption DEF Stored
    <3>3. buffer' = Store(buffer, written, n) /\ written' = written + Stored(n)
      BY <3>1 DEF Write
    <3> QED BY <3>2, <3>3, StoreType DEF TypeInv, TypeOK, Samples
  <2>2. CASE WriterNotifies \/ Close \/ CloserNotifies \/ OrphanRelocks
    BY <2>2 DEF WriterNotifies, Close, CloserNotifies, OrphanRelocks, TypeInv, TypeOK
  <2> QED BY <2>1, <2>2
<1>6. \A r \in Readers : reader'[r].cursor <= written'
  <2>1. \A r \in Readers : reader[r].cursor \in Nat /\ reader[r].cursor <= written
    BY DEF TypeInv, TypeOK, ReaderState
  <2> QED BY <1>4, <1>5, <2>1 DEF TypeInv, TypeOK
<1>7. /\ closed' \in BOOLEAN /\ abandoned' \in BOOLEAN
      /\ writer' \in {"idle", "notifying"} /\ closer' \in {"idle", "notifying"}
  BY DEF Write, WriterNotifies, Close, CloserNotifies, OrphanRelocks, TypeInv, TypeOK
<1>8. Queue(Readers, lock)'
  BY <1>3, <1>4 DEF Queue
<1> QED BY <1>4, <1>5, <1>6, <1>7, <1>8 DEF TypeInv, TypeOK, Everyone, Queue

LEMMA ReadingStaysTyped ==
    ASSUME TypeInv, NEW r \in Readers,
           \/ NewReader(r) \/ Resume(r)
           \/ \E n \in Counts : TryRead(r, n) \/ ReadExactly(r, n)
    PROVE  TypeInv'
<1>1. /\ reader[r] \in ReaderState /\ reader[r].cursor <= written /\ written \in Nat
      /\ Queue(Readers \ {r}, lock) /\ abandoned \in BOOLEAN
  BY DEF TypeInv, TypeOK, Queue
<1>2. CASE NewReader(r)
  <2>1. PICK c \in {written, IF written > Capacity THEN written - Capacity ELSE 0} :
                reader' = [reader EXCEPT ![r].at = "out", ![r].cursor = c]
    BY <1>2 DEF NewReader
  <2>2. c \in Nat /\ c <= written
    BY <1>1, <2>1, RingAssumption
  <2> DEFINE p == [reader[r] EXCEPT !.at = "out", !.cursor = c]
  <2>3. p \in ReaderState /\ p.cursor <= written /\ p.at = "out"
    BY <1>1, <2>2 DEF ReaderState, Places
  <2>4. reader' = [reader EXCEPT ![r] = p]
    BY <2>1 DEF TypeInv, TypeOK
  <2> HIDE DEF p
  <2> QED BY <1>1, <1>2, <2>3, <2>4, ReaderStaysTyped DEF NewReader
<1>3. ASSUME NEW n \in Counts PROVE Asked(r, n) \in ReaderState /\ Asked(r, n).cursor <= written
  <2>1. n \in Nat /\ << >> \in Seq(Nat \cup {Silence})
    BY RingAssumption
  <2> QED BY <1>1, <2>1 DEF Asked, ReaderState, Reasons
<1>4. CASE \E n \in Counts : ReadExactly(r, n)
  BY <1>1, <1>3, <1>4, LoopStaysTyped DEF ReadExactly, Asked
<1>5. CASE \E n \in Counts : TryRead(r, n)
  <2>1. PICK n \in Counts : TryRead(r, n)
    BY <1>5
  <2>2. /\ reader' = [reader EXCEPT ![r] = ReadCopy(Asked(r, n), n)]
        /\ Asked(r, n).need = n
        /\ UNCHANGED <<buffer, written, closed, lock, writer, closer, abandoned>>
    BY <1>1, <2>1 DEF TryRead, Asked, ReaderState
  <2>3. /\ ReadCopy(Asked(r, n), n) \in ReaderState
        /\ ReadCopy(Asked(r, n), n).cursor <= written
        /\ ReadCopy(Asked(r, n), n).at = "out"
    <3>1. Asked(r, n).at = "out"
      BY <1>1, <2>1 DEF TryRead, Asked, ReaderState
    <3> QED BY <1>3, <2>2, <3>1, TypeInvIsStream, ReadCopyType
  <2> QED BY <1>1, <2>2, <2>3, ReaderStaysTyped
<1>6. CASE Resume(r)
  <2>1. CASE reader[r].quits = "none" /\ Taken
    <3>1. Loop(r, reader[r], Tail(lock))
      BY <1>6, <2>1 DEF Resume
    <3>2. Queue(Readers \ {r}, Tail(lock))
      BY <1>1, <2>1, TakenIsQueued, ReleasedQueue DEF Released
    <3> QED BY <1>1, <3>1, <3>2, LoopStaysTyped
  <2>2. CASE ~(reader[r].quits = "none" /\ Taken)
    <3>1. Queue(Readers \ {r}, Released(lock))
      BY <1>1, TakenIsQueued, ReleasedQueue
    <3>2. /\ reader' = [reader EXCEPT ![r] =
                            [reader[r] EXCEPT !.at = "out", !.quits = reader[r].quits]]
          /\ lock' = Released(lock)
          /\ UNCHANGED <<buffer, written, closed, writer, closer, abandoned>>
      BY <1>1, <1>6, <2>2 DEF Resume, Move, TypeInv, TypeOK, ReaderState
    <3>3. "out" \in Places /\ reader[r].quits \in Reasons
      BY <1>1 DEF Places, ReaderState
    <3> QED BY <1>1, <3>1, <3>2, <3>3, MoveStaysTyped
  <2> QED BY <2>1, <2>2
<1> QED BY <1>2, <1>4, <1>5, <1>6

\* A reader that waits for the lock, or is in Condition.wait, and what becomes of it.
LEMMA WaitingStaysTyped ==
    ASSUME TypeInv, NEW r \in Readers,
           \/ Locked(r) \/ Wait(r) \/ Relock(r) \/ Relocked(r)
           \/ CancelLocking(r) \/ Abandon(r)
           \/ \E reason \in Reasons : Quit(r, reason)
    PROVE  TypeInv'
<1>1. /\ reader[r] \in ReaderState /\ reader[r].quits \in Reasons /\ r \in Everyone
      /\ Queue(Readers \ {r}, lock) /\ abandoned \in BOOLEAN
  BY DEF TypeInv, TypeOK, ReaderState, Everyone, Queue
<1>2. UNCHANGED <<buffer, written, closed, writer, closer>> /\ abandoned' \in BOOLEAN
  BY <1>1 DEF Locked, Wait, Relock, Relocked, CancelLocking, Abandon, Quit, Move
<1> DEFINE MovesTo(place, reason) ==
                reader' = [reader EXCEPT ![r] =
                            [reader[r] EXCEPT !.at = place, !.quits = reason]]
<1>3. ASSUME NEW place, Move(r, place)
      PROVE  MovesTo(place, reader[r].quits)
  BY <1>1, <1>3 DEF Move, TypeInv, TypeOK, ReaderState
<1>4. Queue(Readers \ {r}, Released(lock))
  BY <1>1, TakenIsQueued, ReleasedQueue
<1>5. Places = {"absent", "out", "locking", "entering", "waiting", "woken",
                "relocking", "held"}
      /\ {"error", "cancelled"} \subseteq Reasons
  BY DEF Places, Reasons
<1>6. CASE Locked(r)
  <2>1. Holds(r)
    BY <1>6 DEF Locked
  <2>2. Queue(Readers \ {r}, Tail(lock))
    <3>1. lock # << >> /\ Head(lock) = r
      BY <2>1 DEF Holds
    <3>2. \A t \in Readers \ {r} : Head(lock) # t
      BY <3>1
    <3> QED BY <1>1, <3>1, <3>2, QueueAdvances
  <2>3. CASE Move(r, "entering") /\ UNCHANGED lock
    <3>1. MovesTo("entering", reader[r].quits)
      BY <1>3, <2>3
    <3>2. "entering" \in Places /\ Queue(Readers \ {r}, lock')
      BY <1>1, <1>5, <2>3
    <3> QED BY <1>1, <1>2, <3>1, <3>2, MoveStaysTyped
  <2>4. CASE Move(r, "out") /\ lock' = Tail(lock)
    <3>1. MovesTo("out", reader[r].quits)
      BY <1>3, <2>4
    <3>2. "out" \in Places /\ Queue(Readers \ {r}, lock')
      BY <1>5, <2>2, <2>4
    <3> QED BY <1>1, <1>2, <3>1, <3>2, MoveStaysTyped
  <2> QED BY <1>6, <2>3, <2>4 DEF Locked
<1>7. CASE Wait(r)
  <2>1. CASE Move(r, "waiting")
    BY <1>1, <1>2, <1>3, <1>4, <1>5, <1>7, <2>1, MoveStaysTyped DEF Wait
  <2>2. CASE ~Move(r, "waiting")
    <3>1. MovesTo("held", "error") /\ lock' = Released(lock)
      BY <1>1, <1>7, <2>2 DEF Wait, TypeInv, TypeOK, ReaderState
    <3>2. {"held"} \subseteq Places /\ "error" \in Reasons /\ Queue(Readers \ {r}, lock')
      BY <1>4, <1>5, <3>1
    <3> QED BY <1>1, <1>2, <3>1, <3>2, MoveStaysTyped
  <2> QED BY <2>1, <2>2, Zenon
<1>8. CASE Relock(r)
  <2> DEFINE place == IF lock = << >> THEN "held" ELSE "relocking"
  <2>1. Move(r, place) /\ lock' = Append(lock, r)
    BY <1>8 DEF Relock
  <2>2. Queue(Readers \ {r}, lock') /\ On(lock', r)
    BY <1>1, <2>1, QueueGrows
  <2>3. place \in Places
    BY DEF Places
  <2> HIDE DEF place
  <2>4. MovesTo(place, reader[r].quits)
    BY <1>3, <2>1
  <2> QED BY <1>1, <1>2, <2>2, <2>3, <2>4, MoveStaysTyped
<1>9. CASE Relocked(r)
  BY <1>1, <1>2, <1>3, <1>5, <1>9, MoveStaysTyped DEF Relocked
<1>10. CASE CancelLocking(r)
  <2>1. MovesTo("out", "cancelled") /\ lock' = Without(r) /\ reader[r].at = "locking"
    BY <1>1, <1>10 DEF CancelLocking, TypeInv, TypeOK, ReaderState
  <2>2. Queue(Readers \ {r}, lock')
    BY <1>1, <2>1, QueueWithout
  <2> QED BY <1>1, <1>2, <1>5, <2>1, <2>2, MoveStaysTyped
<1>11. CASE Abandon(r)
  <2> DEFINE lk == [lock EXCEPT ![Place(r)] = "orphan"]
  <2>1. /\ MovesTo("out", "cancelled") /\ lock' = Released(lk)
        /\ reader[r].at = "relocking"
    BY <1>1, <1>11 DEF Abandon, TypeInv, TypeOK, ReaderState
  <2>2. /\ Queue(Readers \ {r}, lk)
        /\ Place(r) \in DOMAIN lock /\ lock[Place(r)] = r
    BY <2>1, QueueWithout DEF Everyone, Others
  <2>3. ASSUME Taken PROVE lk # << >> /\ Head(lk) = Head(lock)
    <3>1. lock \in Seq(Everyone) /\ lock # << >>
      BY <2>3, TakenIsQueued DEF TypeInv, Queue
    <3>2. Head(lock) # r
      BY <2>1, <2>3, RingAssumption DEF Taken, Holds, Others
    <3>3. Place(r) # 1
      BY <2>2, <3>1, <3>2
    <3> QED BY <2>2, <3>1, <3>3
  <2> HIDE DEF lk
  <2>4. Queue(Readers \ {r}, lock')
    BY <2>1, <2>2, <2>3, ReleasedQueue
  <2> QED BY <1>1, <1>2, <1>5, <2>1, <2>4, MoveStaysTyped
<1>12. CASE \E reason \in Reasons : Quit(r, reason)
  <2>1. PICK reason \in Reasons : Quit(r, reason)
    BY <1>12
  <2> DEFINE place == IF reader[r].at = "entering" THEN "held" ELSE "woken"
  <2>2. MovesTo(place, reason)
    <3>1. reader' = [reader EXCEPT ![r].quits = reason, ![r].at = place]
      BY <1>1, <2>1 DEF Quit, TypeInv, TypeOK, ReaderState
    <3> HIDE DEF place
    <3> QED BY <1>1, <3>1 DEF TypeInv, TypeOK, ReaderState
  <2>3. Queue(Readers \ {r}, lock')
    BY <1>1, <2>1, QueueWithout DEF Quit
  <2>4. place \in Places /\ place \notin {"locking", "relocking"}
    BY <1>5
  <2> HIDE DEF place
  <2> QED BY <1>1, <1>2, <2>2, <2>3, <2>4, MoveStaysTyped
<1> QED BY <1>6, <1>7, <1>8, <1>9, <1>10, <1>11, <1>12

LEMMA TypeStep ==
    ASSUME TypeInv, [Next]_vars
    PROVE  TypeInv'
<1>1. CASE \/ \E n \in Chunks : Write(n)
           \/ WriterNotifies \/ Close \/ CloserNotifies \/ OrphanRelocks
  BY <1>1, WritingStaysTyped
<1>2. CASE \E r \in Readers : \/ NewReader(r) \/ Resume(r)
                              \/ \E n \in Counts : TryRead(r, n) \/ ReadExactly(r, n)
  BY <1>2, ReadingStaysTyped
<1>3. CASE \E r \in Readers : \/ Locked(r) \/ Wait(r) \/ Relock(r) \/ Relocked(r)
                              \/ CancelLocking(r) \/ Abandon(r)
                              \/ \E reason \in Reasons : Quit(r, reason)
  BY <1>3, WaitingStaysTyped
<1>4. CASE UNCHANGED vars
  BY <1>4 DEF vars, TypeInv, TypeOK, Queue, On
<1> QED BY <1>1, <1>2, <1>3, <1>4 DEF Next, ReaderStep, Reasons

\* AudioRing, for every capacity, every number of readers and arrays of any length,
\* also after a reader has left its inner task behind: the types.
THEOREM TypeCorrect == Spec => []TypeOK
<1>1. TypeInv /\ [Next]_vars => TypeInv'
  BY TypeStep
<1>2. TypeInv => TypeOK
  BY DEF TypeInv
<1> QED BY <1>1, <1>2, InitTyped, PTL DEF Spec

------------------------------------------------------------------------------
(* The lock, until a reader leaves an inner task behind.                    *)

\* The invariant of the lock, for arrays of any length, for as long as no reader that
\* is cancelled while an expired wait unwinds has left its inner task behind (Abandon;
\* the lock is lost after that, see WriteNeverBlocks): who is on it, and that a reader
\* which sleeps, or is about to, has the notification still before it.
THEOREM LockInvariant == Spec => [](~abandoned => LockInv)
<1>1. (~abandoned => LockInv) /\ [Next]_vars => (~abandoned => LockInv)'
  <2>1. [Next]_vars /\ abandoned => abandoned'
    <3>1. ASSUME NEW r \in Readers, ReaderStep(r) PROVE UNCHANGED abandoned
      <4>1. CASE Resume(r)
        BY <4>1 DEF Resume, Loop, Move
      <4>2. CASE Wait(r)
        BY <4>2 DEF Wait, Move
      <4> QED BY <3>1, <4>1, <4>2 DEF ReaderStep, Locked, Relock, Relocked, Move
    <3>2. ASSUME NEW r \in Readers, NEW n, ReadExactly(r, n) \/ TryRead(r, n)
          PROVE  UNCHANGED abandoned
      BY <3>2 DEF ReadExactly, TryRead, Loop
    <3>3. ASSUME NEW r \in Readers, NEW reason,
                 Quit(r, reason) \/ NewReader(r) \/ CancelLocking(r)
          PROVE  UNCHANGED abandoned
      BY <3>3 DEF Quit, NewReader, CancelLocking
    <3>4. ASSUME NEW r \in Readers, Abandon(r) PROVE abandoned'
      BY <3>4 DEF Abandon
    <3>5. ASSUME NEW n, Write(n) PROVE UNCHANGED abandoned
      BY <3>5 DEF Write
    <3>6. CASE WriterNotifies \/ Close \/ CloserNotifies \/ OrphanRelocks
      BY <3>6 DEF WriterNotifies, Close, CloserNotifies, OrphanRelocks
    <3> QED BY <3>1, <3>2, <3>3, <3>4, <3>5, <3>6 DEF Next, vars
  <2> QED BY <2>1, LockStep
<1> QED BY <1>1, InitLock, PTL DEF Spec

\* Cursor.read_exactly, until a reader leaves its inner task behind: whoever is inside
\* its `async with` holds the lock, also when wait_for expires or is cancelled while
\* Condition.wait takes the lock again, and whoever has left it is not on the lock.
THEOREM InsideMeansHolding == Spec => []LockIsHeld
  BY LockInvariant, LockInvImplies, PTL

\* AudioRing.write and close, until a reader leaves its inner task behind: a reader
\* that found too little before they changed the ring is notified after it has gone to
\* sleep, or never goes to sleep.
THEOREM WakeupsAreNotLost == Spec => []NoLostWakeup
  BY LockInvariant, LockInvImplies, PTL
==============================================================================
