------------------------------ MODULE AudioRing ------------------------------
(***************************************************************************)
(* media/audio_ring.py: the PCM ring between one writer task and many       *)
(* reader tasks, each with its own cursor, synchronised by an               *)
(* asyncio.Condition of Python 3.10, the version the Dockerfile installs.   *)
(*                                                                          *)
(* A sample is named by its global index, the value of _write_index when it *)
(* was written.  An action is what a task does between two awaits that      *)
(* really suspend.  read_exactly is always called with a timeout, so its    *)
(* Condition.wait runs in a task of its own, made by asyncio.wait_for: the  *)
(* lock stays held from the acquisition to the first step of that task, and *)
(* from its last step until the reader is resumed.                          *)
(***************************************************************************)
EXTENDS Integers, SequencesExt

CONSTANTS
    Readers,      \* the cursors
    Capacity,     \* _capacity, in samples
    Chunks,       \* the sizes of the arrays that are written
    Counts,       \* the sizes that are asked for
    MaxWritten    \* bound on _write_index

\* Who may be on the lock beside the readers: writer, closer, and an "orphan", the
\* task of a Condition.wait that its reader has left; "ended" is one that got the
\* lock before it ended, and will not release it.
Others == {"writer", "closer", "orphan", "ended"}

ASSUME RingAssumption ==
    /\ Capacity \in Nat \ {0}
    /\ Chunks \subseteq Nat \ {0}
    /\ Counts \subseteq Nat \ {0}
    /\ MaxWritten \in Nat
    /\ Readers \cap Others = {}

VARIABLES
    buffer,    \* _buffer: the sample in each slot
    written,   \* _write_index
    closed,    \* _closed
    lock,      \* the tasks on the Condition's lock, its holder first
    writer,    \* "idle", or "notifying": suspended on the lock
    closer,    \* likewise, for close()
    reader,    \* the cursors and the tasks that read from them
    abandoned  \* history: has a reader left such a task behind?

vars == <<buffer, written, closed, lock, writer, closer, reader, abandoned>>

Slots   == 0 .. Capacity - 1
Silence == -1

\* Where a reader's task is: out of read_exactly; queueing for the lock; on its
\* way into Condition.wait; waiting; notified or cancelled and about to queue for
\* the lock again; queueing again; out of Condition.wait.
Places == {"absent", "out", "locking", "entering", "waiting", "woken", "relocking", "held"}

\* Why a reader is about to give up its wait; "error": Condition.wait has raised.
Reasons == {"none", "expired", "cancelled", "error"}

ReaderState ==
    [at     : Places,
     cursor : Nat,                 \* read_index
     need   : Nat,                 \* remaining
     got    : Seq(Nat \cup {Silence}),
     quits  : Reasons]

Init ==
    /\ buffer = [j \in Slots |-> Silence]
    /\ written = 0
    /\ closed = FALSE
    /\ lock = << >>
    /\ writer = "idle"
    /\ closer = "idle"
    /\ reader = [r \in Readers |->
                    [at |-> "absent", cursor |-> 0, need |-> 0, got |-> << >>,
                     quits |-> "none"]]
    /\ abandoned = FALSE

------------------------------------------------------------------------------
(* The buffer.                                                              *)

\* Mutant: the part that wraps starts one slot late.
StoreOffByOne(buf, w, n) ==
    LET start == w % Capacity
    IN  [j \in Slots |->
            IF start <= j /\ j < start + n THEN w + (j - start)
            ELSE IF j < start + n - Capacity - 1 THEN w + (Capacity - start) + j
            ELSE buf[j]]

\* The n samples from index w on, copied into their slots: up to the end of the
\* array, and the rest at its front.  An array as long as the ring is copied to
\* the slots from 0 on, wherever w is.
Store(buf, w, n) ==
    IF n >= Capacity
    THEN [j \in Slots |-> w + j]
    ELSE LET start == w % Capacity
         IN  [j \in Slots |->
                IF start <= j /\ j < start + n THEN w + (j - start)
                ELSE IF j < start + n - Capacity THEN w + (Capacity - start) + j
                ELSE buf[j]]

Stored(n) == IF n >= Capacity THEN Capacity ELSE n

\* n samples from index i on, read from their slots in two slices.
Fetch(buf, i, n) ==
    LET start == i % Capacity
    IN  [x \in 1 .. n |->
            IF start + x - 1 < Capacity THEN buf[start + x - 1]
                                        ELSE buf[start + x - 1 - Capacity]]

\* Mutants: a reader that fell behind is not moved on; every reader is moved.
OldestForStale(w, c) == c
OldestForAll(w, c) == w - Capacity

\* Where a cursor reads next: one that fell behind skips what is overwritten.
Oldest(w, c) == IF w - c > Capacity THEN w - Capacity ELSE c

\* _read_copy: up to n samples for a reader.
ReadCopy(q, n) ==
    LET from == Oldest(written, q.cursor)
        take == IF written - from < n THEN written - from ELSE n
    IN  [q EXCEPT !.cursor = from + take,
                  !.need = @ - take,
                  !.got = @ \o Fetch(buffer, from, take)]

------------------------------------------------------------------------------
(* The lock: asyncio.Lock serves its waiters in order.                      *)

Holds(t) == lock # << >> /\ Head(lock) = t

\* _locked: the first on the lock has it, and is not still to be resumed with it.
Taken ==
    \/ lock # << >> /\ Head(lock) = "ended"
    \/ \E r \in Readers : Holds(r) /\ reader[r].at \in {"entering", "held"}

\* release() takes no notice of who calls it; on a lock that is not taken it raises.
Released(queue) == IF Taken THEN Tail(queue) ELSE queue

Place(t) == CHOOSE i \in DOMAIN lock : lock[i] = t

\* A task gives up its place: deque.remove.
Without(t) == RemoveAt(lock, Place(t))

\* Mutant: only the first waiter is notified.
NotifyOne(rs) ==
    IF \E r \in Readers : rs[r].at = "waiting"
    THEN LET first == CHOOSE r \in Readers : rs[r].at = "waiting"
         IN  [rs EXCEPT ![first].at = "woken"]
    ELSE rs

NotifyAll(rs) ==
    [r \in Readers |->
        IF rs[r].at = "waiting" THEN [rs[r] EXCEPT !.at = "woken"] ELSE rs[r]]

------------------------------------------------------------------------------
(* The writer, and close().                                                 *)

Write(n) ==
    /\ ~closed
    /\ writer = "idle"
    /\ written + Stored(n) <= MaxWritten
    /\ buffer' = Store(buffer, written, n)
    /\ written' = written + Stored(n)
    /\ IF lock = << >>
       THEN reader' = NotifyAll(reader) /\ UNCHANGED <<lock, writer>>
       ELSE lock' = Append(lock, "writer") /\ writer' = "notifying" /\ UNCHANGED reader
    /\ UNCHANGED <<closed, closer, abandoned>>

WriterNotifies ==
    /\ writer = "notifying"
    /\ Holds("writer")
    /\ lock' = Tail(lock)
    /\ writer' = "idle"
    /\ reader' = NotifyAll(reader)
    /\ UNCHANGED <<buffer, written, closed, closer, abandoned>>

Close ==
    /\ ~closed
    /\ closed' = TRUE
    /\ IF lock = << >>
       THEN reader' = NotifyAll(reader) /\ UNCHANGED <<lock, closer>>
       ELSE lock' = Append(lock, "closer") /\ closer' = "notifying" /\ UNCHANGED reader
    /\ UNCHANGED <<buffer, written, writer, abandoned>>

\* Mutant: close() sets its flag and tells nobody.
CloserNotifiesNobody ==
    /\ closer = "notifying"
    /\ Holds("closer")
    /\ lock' = Tail(lock)
    /\ closer' = "idle"
    /\ UNCHANGED <<buffer, written, closed, writer, reader, abandoned>>

CloserNotifies ==
    /\ closer = "notifying"
    /\ Holds("closer")
    /\ lock' = Tail(lock)
    /\ closer' = "idle"
    /\ reader' = NotifyAll(reader)
    /\ UNCHANGED <<buffer, written, closed, writer, abandoned>>

------------------------------------------------------------------------------
(* A reader.                                                                *)

\* What it does with the lock: `rest` are the tasks on it, the reader excluded.
Loop(r, q, rest) ==
    LET p == ReadCopy(q, q.need)
    IN  /\ IF p.need = 0 \/ closed
           THEN /\ reader' = [reader EXCEPT ![r] = [p EXCEPT !.at = "out"]]
                /\ lock' = rest
           ELSE /\ reader' = [reader EXCEPT ![r] =
                                [p EXCEPT !.at = IF rest = << >> THEN "entering"
                                                                 ELSE "locking"]]
                /\ lock' = Append(rest, r)
        /\ UNCHANGED <<buffer, written, closed, writer, closer, abandoned>>

Move(r, place) ==
    /\ reader' = [reader EXCEPT ![r].at = place]
    /\ UNCHANGED <<buffer, written, closed, writer, closer, abandoned>>

NewReader(r) ==
    /\ reader[r].at = "absent"
    /\ \E c \in {written, IF written > Capacity THEN written - Capacity ELSE 0} :
            reader' = [reader EXCEPT ![r].at = "out", ![r].cursor = c]
    /\ UNCHANGED <<buffer, written, closed, lock, writer, closer, abandoned>>

TryRead(r, n) ==
    /\ reader[r].at = "out"
    /\ written > reader[r].cursor
    /\ reader' = [reader EXCEPT ![r] =
                    ReadCopy([@ EXCEPT !.need = n, !.got = << >>, !.quits = "none"], n)]
    /\ UNCHANGED <<buffer, written, closed, lock, writer, closer, abandoned>>

ReadExactly(r, n) ==
    /\ reader[r].at = "out"
    /\ Loop(r, [reader[r] EXCEPT !.need = n, !.got = << >>, !.quits = "none"], lock)

\* Mutants: the reader that is late keeps the lock; it waits before it has the lock.
LockedForGood(r) ==
    /\ reader[r].at = "locking"
    /\ Holds(r)
    /\ Move(r, "entering") \/ Move(r, "out")
    /\ UNCHANGED lock

LockedByNobody(r) ==
    /\ reader[r].at = "locking"
    /\ \/ Move(r, "entering") /\ UNCHANGED lock
       \/ Holds(r) /\ Move(r, "out") /\ lock' = Tail(lock)

\* It has the lock; the deadline may have passed in the meantime.
Locked(r) ==
    /\ reader[r].at = "locking"
    /\ Holds(r)
    /\ \/ Move(r, "entering") /\ UNCHANGED lock
       \/ Move(r, "out") /\ lock' = Tail(lock)

\* Condition.wait releases the lock, and raises if somebody else did so before.
Wait(r) ==
    /\ reader[r].at = "entering"
    /\ \/ Taken /\ Move(r, "waiting")
       \/ /\ ~Taken
          /\ reader' = [reader EXCEPT ![r].at = "held", ![r].quits = "error"]
          /\ UNCHANGED <<buffer, written, closed, writer, closer, abandoned>>
    /\ lock' = Released(lock)

Relock(r) ==
    /\ reader[r].at = "woken"
    /\ Move(r, IF lock = << >> THEN "held" ELSE "relocking")
    /\ lock' = Append(lock, r)

Relocked(r) ==
    /\ reader[r].at = "relocking"
    /\ Holds(r)
    /\ Move(r, "held")
    /\ UNCHANGED lock

\* The reader is resumed with the lock held, and leaves the `async with`.
Resume(r) ==
    /\ reader[r].at = "held"
    /\ IF reader[r].quits = "none" /\ Taken
       THEN Loop(r, reader[r], Tail(lock))
       ELSE Move(r, "out") /\ lock' = Released(lock)

\* wait_for gives up, at its deadline or because the reader is cancelled: the
\* inner task is cancelled, and takes the lock again before it ends.  A place in
\* the queue is lost by it.  An inner task that has ended wins over both.  What the
\* reader does when it is cancelled while it waits for that end is in Abandon.
Quit(r, reason) ==
    /\ reader[r].quits = "none"
    /\ reader[r].at \in {"entering", "waiting", "woken", "relocking"}
    /\ reader' = [reader EXCEPT
                    ![r].quits = reason,
                    ![r].at = IF @ = "entering" THEN "held" ELSE "woken"]
    /\ lock' = IF reader[r].at = "relocking" THEN Without(r) ELSE lock
    /\ UNCHANGED <<buffer, written, closed, writer, closer, abandoned>>

\* Cancelled while it queues for the lock, the reader just leaves the queue.
CancelLocking(r) ==
    /\ reader[r].at = "locking"
    /\ reader' = [reader EXCEPT ![r].at = "out", ![r].quits = "cancelled"]
    /\ lock' = Without(r)
    /\ UNCHANGED <<buffer, written, closed, writer, closer, abandoned>>

\* Cancelled again while the inner task queues for the lock, the reader leaves
\* wait_for and the `async with` at once: it releases a lock that is not its own,
\* and the inner task queues on.
Abandon(r) ==
    /\ reader[r].at = "relocking"
    /\ reader[r].quits # "none"
    /\ reader' = [reader EXCEPT ![r].at = "out", ![r].quits = "cancelled"]
    /\ lock' = Released([lock EXCEPT ![Place(r)] = "orphan"])
    /\ abandoned' = TRUE
    /\ UNCHANGED <<buffer, written, closed, writer, closer>>

\* The inner task gets the lock, and ends.
OrphanRelocks ==
    /\ Holds("orphan")
    /\ lock' = <<"ended">> \o Tail(lock)
    /\ UNCHANGED <<buffer, written, closed, writer, closer, reader, abandoned>>

------------------------------------------------------------------------------
ReaderStep(r) ==
    \/ Locked(r) \/ Wait(r) \/ Relock(r) \/ Relocked(r) \/ Resume(r)

Next ==
    \/ \E n \in Chunks : Write(n)
    \/ WriterNotifies \/ Close \/ CloserNotifies \/ OrphanRelocks
    \/ \E r \in Readers :
        \/ NewReader(r) \/ ReaderStep(r) \/ CancelLocking(r) \/ Abandon(r)
        \/ \E n \in Counts : TryRead(r, n) \/ ReadExactly(r, n)
        \/ \E reason \in {"expired", "cancelled"} : Quit(r, reason)

Spec == Init /\ [][Next]_vars

\* The event loop resumes every task that can go on.  Nobody has to write, to
\* read, or to close; no deadline has to pass.
Fairness ==
    /\ WF_vars(WriterNotifies)
    /\ WF_vars(CloserNotifies)
    /\ WF_vars(OrphanRelocks)
    /\ \A r \in Readers : WF_vars(ReaderStep(r))

FairSpec == Spec /\ Fairness

------------------------------------------------------------------------------
TypeOK ==
    /\ buffer \in [Slots -> Nat \cup {Silence}]
    /\ written \in Nat
    /\ closed \in BOOLEAN
    /\ lock \in Seq(Readers \cup Others)
    /\ writer \in {"idle", "notifying"}
    /\ closer \in {"idle", "notifying"}
    /\ reader \in [Readers -> ReaderState]
    /\ abandoned \in BOOLEAN

\* The ring keeps the most recent samples, each in the slot where _read_copy
\* looks for it, across every wrap.
RingHoldsLatest ==
    \A i \in 0 .. written - 1 :
        written - i <= Capacity => buffer[i % Capacity] = i

\* A cursor reads the samples that come next in the stream, once each and in
\* order, and skips only what the writer has overwritten.
ReadsTheStream ==
    [][\A r \in Readers :
        reader'[r].got \notin {reader[r].got, << >>} =>
            LET old  == IF reader[r].at \in {"absent", "out"} THEN << >> ELSE reader[r].got
                from == IF reader[r].cursor < written - Capacity
                        THEN written - Capacity ELSE reader[r].cursor
            IN  reader'[r].got = old \o [x \in 1 .. reader'[r].cursor - from |-> from + x - 1]
      ]_vars

\* What the lock is worth until a reader leaves its inner task behind, in Abandon.

\* No wake-up is lost: a reader that waits although there is something to read,
\* or the ring is closed, has a notification on its way.
NoLostWakeup ==
    ~abandoned => \A r \in Readers :
        /\ reader[r].at = "waiting" /\ written > reader[r].cursor => writer = "notifying"
        /\ reader[r].at = "waiting" /\ closed => closer = "notifying" \/ writer = "notifying"

\* The lock has one holder, whoever is inside the `async with` is it, and nobody
\* who has left read_exactly, returning, expired or cancelled, is still on the lock.
LockIsHeld ==
    ~abandoned =>
        /\ \A r \in Readers : reader[r].at \in {"entering", "held"} => Holds(r)
        /\ \A i \in DOMAIN lock :
            /\ lock[i] \notin {"orphan", "ended"}
            /\ lock[i] \in Readers => reader[lock[i]].at \notin {"absent", "out"}

\* The writer is not blocked for good by readers that come, go, expire and are
\* cancelled while it queues for their lock, unless one leaves an inner task behind.
WriteReturns == writer = "notifying" ~> writer = "idle" \/ abandoned

\* Closing the ring ends every read_exactly, without any help from a deadline, with
\* the same exception.
CloseEndsReads ==
    \A r \in Readers :
        closed /\ reader[r].at # "absent" ~> reader[r].at = "out" \/ abandoned

------------------------------------------------------------------------------
(* What the documentation says and the code does not do.                    *)

\* audio_ring.py:74: write() never blocks.  It waits for the Condition's lock, which
\* an inner task that its reader has left takes and does not release.
WriteNeverBlocks == writer = "notifying" ~> writer = "idle"
==============================================================================
