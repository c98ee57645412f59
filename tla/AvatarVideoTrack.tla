--------------------------- MODULE AvatarVideoTrack ---------------------------
(***************************************************************************)
(* encode/video_track.py: the queue between the render loop, which pushes   *)
(* frames, and the sender of the peer connection, which calls recv() in a   *)
(* loop of its own.                                                         *)
(*                                                                          *)
(* push() never suspends: it has just made room.  recv() waits for at most  *)
(* two frame periods, in asyncio.wait_for; frames may arrive between the    *)
(* expiry and the moment it is noticed.  A frame is named by its place in   *)
(* the order of the pushes.                                                 *)
(***************************************************************************)
EXTENDS Integers, Sequences

CONSTANTS
    QueueSize,     \* maxsize of _queue
    PtsStep,       \* int(VIDEO_CLOCK_RATE / fps)
    MaxPushed,     \* bound on the frames that are pushed
    MaxSent        \* bound on the frames that are delivered

ASSUME TrackAssumption ==
    /\ QueueSize \in Nat \ {0}
    /\ PtsStep \in Nat \ {0}
    /\ MaxPushed \in Nat
    /\ MaxSent \in Nat

VARIABLES
    queue,         \* _queue
    pushed,        \* the number of frames pushed
    last,          \* _last_frame, or Black
    receiving,     \* recv() is in wait_for
    nextPts,       \* _next_pts
    sent           \* what recv() returned, in order

vars == <<queue, pushed, last, receiving, nextPts, sent>>

Black == 0

Init ==
    /\ queue = << >>
    /\ pushed = 0
    /\ last = Black
    /\ receiving = FALSE
    /\ nextPts = 0
    /\ sent = << >>

\* Mutants: a full queue drops its newest frame; it drops none.
RoomAtEnd(q) == SubSeq(q, 1, Len(q) - 1)
RoomForNone(q) == q

\* What push() keeps of a full queue.
Room(q) == Tail(q)

push ==
    /\ pushed < MaxPushed
    /\ pushed' = pushed + 1
    /\ queue' = Append(IF Len(queue) = QueueSize THEN Room(queue) ELSE queue, pushed + 1)
    /\ UNCHANGED <<last, receiving, nextPts, sent>>

\* _next_timestamp, and the start of wait_for.
recv ==
    /\ ~receiving
    /\ Len(sent) < MaxSent
    /\ receiving' = TRUE
    /\ nextPts' = IF nextPts = 0 THEN 0 ELSE nextPts + PtsStep
    /\ UNCHANGED <<queue, pushed, last, sent>>

Return(frame) ==
    /\ receiving' = FALSE
    /\ sent' = Append(sent, [frame |-> frame, pts |-> nextPts])

\* Mutant: the frame is sent and not kept.
GetAndForget ==
    /\ receiving
    /\ queue # << >>
    /\ queue' = Tail(queue)
    /\ Return(Head(queue))
    /\ UNCHANGED <<pushed, last, nextPts>>

Get ==
    /\ receiving
    /\ queue # << >>
    /\ queue' = Tail(queue)
    /\ last' = Head(queue)
    /\ Return(Head(queue))
    /\ UNCHANGED <<pushed, nextPts>>

\* TimeoutError: the last frame again, or a black one.
Repeat ==
    /\ receiving
    /\ Return(last)
    /\ UNCHANGED <<queue, pushed, last, nextPts>>

Next == push \/ recv \/ Get \/ Repeat

Spec == Init /\ [][Next]_vars

------------------------------------------------------------------------------
TypeOK ==
    /\ queue \in Seq(1 .. pushed)
    /\ Len(queue) <= QueueSize
    /\ pushed \in 0 .. MaxPushed
    /\ last \in 0 .. pushed
    /\ receiving \in BOOLEAN
    /\ nextPts \in Nat
    /\ sent \in Seq([frame : 0 .. pushed, pts : Nat])

\* The backlog is the most recent frames, without a gap and in order, and all of them
\* are newer than what recv() sends meanwhile: a frame that is dropped makes room for a
\* newer one and is never sent late.
QueueIsLatest ==
    /\ queue = [i \in 1 .. Len(queue) |-> pushed - Len(queue) + i]
    /\ last + Len(queue) <= pushed

\* The picture never goes back: recv() repeats a frame or goes on to a newer one, and
\* no black frame follows a rendered one.
PictureGoesOn ==
    [][sent' # sent /\ sent # << >> =>
        sent'[Len(sent')].frame >= sent[Len(sent)].frame]_vars
==============================================================================
