--------------------------- MODULE MediaPath_proofs ---------------------------
(***************************************************************************)
(* The video track and the media path, for a queue, blocks and rings of any *)
(* length, any frame rate and any video_audio_source.                       *)
(*                                                                          *)
(* First the track alone (Spec).  A step of the media path is a step of the *)
(* track or leaves it alone, so that all that is shown of the track carries *)
(* over to MediaSpec.                                                       *)
(***************************************************************************)
EXTENDS MediaPath, SequenceTheorems, TLAPS

\* What recv() sends next is not older than what it has sent.
TrackInv ==
    /\ queue \in Seq(Nat)
    /\ Len(queue) <= QueueSize
    /\ pushed \in Nat
    /\ last \in Nat
    /\ QueueIsLatest
    /\ sent \in Seq([frame : Nat, pts : Nat])
    /\ nextPts \in Nat
    /\ sent # << >> => sent[Len(sent)].frame <= last

\* A sequence of consecutive numbers that end at n.
Backlog(n, k) == [i \in 1 .. k |-> n - k + i]

LEMMA BacklogHead ==
    ASSUME NEW n \in Nat, NEW k \in Nat, 0 < k, k <= n
    PROVE  /\ Backlog(n, k) \in Seq(Nat)
           /\ Len(Backlog(n, k)) = k
           /\ Head(Backlog(n, k)) = n - k + 1
           /\ Tail(Backlog(n, k)) = Backlog(n, k - 1)
<1> DEFINE q == Backlog(n, k)
<1>1. q \in Seq(Nat) /\ Len(q) = k /\ \A i \in 1 .. k : q[i] = n - k + i
  BY DEF Backlog
<1> HIDE DEF q
<1>2. Tail(q) \in Seq(Nat) /\ Len(Tail(q)) = k - 1 /\ \A i \in 1 .. k - 1 : Tail(q)[i] = q[i + 1]
  BY <1>1
<1>3. Backlog(n, k - 1) \in Seq(Nat) /\ Len(Backlog(n, k - 1)) = k - 1
      /\ \A i \in 1 .. k - 1 : Backlog(n, k - 1)[i] = n - (k - 1) + i
  BY DEF Backlog
<1>4. \A i \in 1 .. k - 1 : Tail(q)[i] = Backlog(n, k - 1)[i]
  BY <1>1, <1>2, <1>3
<1>5. Tail(q) = Backlog(n, k - 1)
  <2> DEFINE t == Tail(q)
             b == Backlog(n, k - 1)
  <2>1. t \in Seq(Nat) /\ b \in Seq(Nat) /\ Len(t) = Len(b) /\ Len(t) = k - 1
    BY <1>2, <1>3
  <2>2. \A i \in 1 .. Len(t) : t[i] = b[i]
    BY <1>4, <2>1
  <2> HIDE DEF t, b
  <2>3. t = b
    BY <2>1, <2>2, SeqEqual
  <2> QED BY <2>3 DEF t, b
<1>6. Head(q) = n - k + 1
  BY <1>1
<1> QED BY <1>1, <1>5, <1>6 DEF q

LEMMA BacklogGrows ==
    ASSUME NEW n \in Nat, NEW k \in Nat, k <= n
    PROVE  Append(Backlog(n, k), n + 1) = Backlog(n + 1, k + 1)
<1> DEFINE q == Backlog(n, k)
           r == Backlog(n + 1, k + 1)
           a == Append(q, n + 1)
<1>1. q \in Seq(Nat) /\ Len(q) = k /\ \A i \in 1 .. k : q[i] = n - k + i
  BY DEF Backlog
<1>2. r \in Seq(Nat) /\ Len(r) = k + 1 /\ \A i \in 1 .. k + 1 : r[i] = (n + 1) - (k + 1) + i
  BY DEF Backlog
<1> HIDE DEF q, r
<1>3. a \in Seq(Nat) /\ Len(a) = k + 1 /\ \A i \in 1 .. k + 1 : a[i] = IF i = k + 1 THEN n + 1 ELSE q[i]
  BY <1>1
<1>4. \A i \in 1 .. k + 1 : a[i] = r[i]
  BY <1>1, <1>2, <1>3
<1> HIDE DEF a
<1>5. a = r
  <2>1. Len(a) = Len(r) /\ \A i \in 1 .. Len(a) : a[i] = r[i]
    BY <1>2, <1>3, <1>4
  <2> QED BY <1>2, <1>3, <2>1, SeqEqual
<1> QED BY <1>5 DEF q, r, a

LEMMA TrackInit == Init => TrackInv
<1>1. Init => queue = << >> /\ pushed = 0 /\ last = 0 /\ nextPts = 0 /\ sent = << >>
  BY DEF Init, Black
<1> QED BY <1>1, TrackAssumption DEF TrackInv, QueueIsLatest

LEMMA PushStep == TrackInv /\ push => TrackInv'
<1> SUFFICES ASSUME TrackInv, push PROVE TrackInv'
  OBVIOUS
<1> DEFINE k == Len(queue)
           q == IF k = QueueSize THEN Room(queue) ELSE queue
           m == IF k = QueueSize THEN k - 1 ELSE k
<1>1. k \in Nat /\ k <= pushed /\ pushed \in Nat /\ last \in Nat /\ last + k <= pushed
      /\ queue = Backlog(pushed, k) /\ k <= QueueSize /\ QueueSize \in Nat \ {0}
  BY TrackAssumption DEF TrackInv, QueueIsLatest, Backlog
<1>2. q = Backlog(pushed, m)
  <2>1. CASE k = QueueSize
    <3>1. Tail(Backlog(pushed, k)) = Backlog(pushed, k - 1)
      <4>1. k \in Nat /\ 0 < k /\ k <= pushed /\ pushed \in Nat
        BY <1>1, <2>1
      <4> HIDE DEF k
      <4> QED BY <4>1, BacklogHead
    <3>2. q = Tail(queue) /\ m = k - 1 /\ queue = Backlog(pushed, k)
      BY <1>1, <2>1 DEF Room
    <3> HIDE DEF k, q, m
    <3> QED BY <3>1, <3>2
  <2>2. CASE k # QueueSize
    BY <1>1, <2>2
  <2> QED BY <2>1, <2>2
<1>3. m \in Nat /\ m <= pushed /\ m < QueueSize /\ last + m <= pushed
  BY <1>1
<1>4. pushed' = pushed + 1 /\ queue' = Append(q, pushed + 1)
      /\ UNCHANGED <<last, receiving, nextPts, sent>>
  BY DEF push
<1> HIDE DEF k, q, m
<1>5. queue' = Backlog(pushed + 1, m + 1)
  BY <1>1, <1>2, <1>3, <1>4, BacklogGrows
<1>6. Len(queue') = m + 1 /\ queue' \in Seq(Nat)
  BY <1>1, <1>3, <1>5 DEF Backlog
<1>7. QueueIsLatest'
  <2>1. (pushed + 1) - (m + 1) = pushed' - Len(queue') /\ last' + Len(queue') <= pushed'
    BY <1>1, <1>3, <1>4, <1>6
  <2>2. queue' = [i \in 1 .. Len(queue') |-> pushed' - Len(queue') + i]
    BY <1>4, <1>5, <1>6 DEF Backlog
  <2> QED BY <2>1, <2>2 DEF QueueIsLatest
<1> QED BY <1>1, <1>3, <1>4, <1>6, <1>7 DEF TrackInv

\* A frame that is returned: the last one of `sent`, and not older than the one before.
LEMMA ReturnStep ==
    ASSUME TrackInv, NEW frame \in Nat, Return(frame), last <= frame
    PROVE  /\ sent' \in Seq([frame : Nat, pts : Nat])
           /\ sent' # << >>
           /\ sent'[Len(sent')].frame = frame
           /\ sent # << >> => sent'[Len(sent')].frame >= sent[Len(sent)].frame
<1> DEFINE item == [frame |-> frame, pts |-> nextPts]
<1>1. item \in [frame : Nat, pts : Nat] /\ item.frame = frame
  BY DEF TrackInv
<1>2. sent' = Append(sent, item) /\ sent \in Seq([frame : Nat, pts : Nat])
  BY DEF Return, TrackInv
<1> HIDE DEF item
<1>3. sent' \in Seq([frame : Nat, pts : Nat]) /\ sent' # << >> /\ sent'[Len(sent')] = item
  BY <1>1, <1>2
<1>4. sent # << >> => sent[Len(sent)].frame \in Nat /\ sent[Len(sent)].frame <= last
  <2>1. SUFFICES ASSUME sent # << >>
                 PROVE  sent[Len(sent)] \in [frame : Nat, pts : Nat]
    BY DEF TrackInv
  <2>2. Len(sent) \in 1 .. Len(sent)
    BY <1>2, <2>1, EmptySeq
  <2> QED BY <1>2, <2>2, ElementOfSeq
<1>5. last \in Nat
  BY DEF TrackInv
<1>6. sent # << >> => frame >= sent[Len(sent)].frame
  BY <1>4, <1>5
<1> QED BY <1>1, <1>3, <1>6

GoesOn == sent' # sent /\ sent # << >> =>
            sent'[Len(sent')].frame >= sent[Len(sent)].frame

LEMMA GetStep == TrackInv /\ Get => TrackInv' /\ GoesOn
<1> SUFFICES ASSUME TrackInv, Get PROVE TrackInv' /\ GoesOn
  OBVIOUS
<1> DEFINE k == Len(queue)
           f == Head(queue)
<1>1. k \in Nat /\ 0 < k /\ k <= pushed /\ pushed \in Nat /\ last \in Nat /\ last + k <= pushed
      /\ queue = Backlog(pushed, k) /\ k <= QueueSize /\ QueueSize \in Nat
  BY TrackAssumption DEF TrackInv, QueueIsLatest, Backlog, Get
<1>2. f = pushed - k + 1 /\ Tail(queue) = Backlog(pushed, k - 1)
  BY <1>1, BacklogHead, ZenonT(60)
<1>3. queue' = Tail(queue) /\ last' = f /\ Return(f) /\ UNCHANGED <<pushed, nextPts>>
  BY DEF Get
<1> HIDE DEF k, f
<1>4. f \in Nat /\ last <= f /\ f + (k - 1) = pushed
  BY <1>1, <1>2
<1>5. queue' = Backlog(pushed, k - 1) /\ Len(queue') = k - 1 /\ queue' \in Seq(Nat)
  BY <1>1, <1>2, <1>3 DEF Backlog
<1>6. QueueIsLatest'
  <2>1. pushed - (k - 1) = pushed' - Len(queue') /\ last' + Len(queue') <= pushed'
        /\ k - 1 = Len(queue') /\ pushed' = pushed
    BY <1>1, <1>3, <1>4, <1>5
  <2>2. queue' = [i \in 1 .. k - 1 |-> pushed - (k - 1) + i]
    BY <1>5 DEF Backlog
  <2>3. queue' = [i \in 1 .. Len(queue') |-> pushed' - Len(queue') + i]
    BY <2>1, <2>2
  <2> QED BY <2>1, <2>3 DEF QueueIsLatest
<1>7. /\ sent' \in Seq([frame : Nat, pts : Nat]) /\ sent'[Len(sent')].frame = f
      /\ sent # << >> => sent'[Len(sent')].frame >= sent[Len(sent)].frame
  BY <1>3, <1>4, ReturnStep
<1>8. TrackInv'
  BY <1>1, <1>3, <1>4, <1>5, <1>6, <1>7 DEF TrackInv
<1> QED BY <1>7, <1>8 DEF GoesOn

LEMMA RepeatStep == TrackInv /\ Repeat => TrackInv' /\ GoesOn
<1> SUFFICES ASSUME TrackInv, Repeat PROVE TrackInv' /\ GoesOn
  OBVIOUS
<1>1. Return(last) /\ UNCHANGED <<queue, pushed, last, nextPts>> /\ last \in Nat
  BY DEF Repeat, TrackInv
<1>2. /\ sent' \in Seq([frame : Nat, pts : Nat]) /\ sent'[Len(sent')].frame = last
      /\ sent # << >> => sent'[Len(sent')].frame >= sent[Len(sent)].frame
  BY <1>1, ReturnStep
<1>3. TrackInv'
  BY <1>1, <1>2 DEF TrackInv, QueueIsLatest
<1> QED BY <1>2, <1>3 DEF GoesOn

LEMMA RecvStep == TrackInv /\ recv => TrackInv' /\ GoesOn
<1> SUFFICES ASSUME TrackInv, recv PROVE TrackInv' /\ GoesOn
  OBVIOUS
<1>1. UNCHANGED <<queue, pushed, last, sent>> /\ nextPts' \in Nat
  BY TrackAssumption DEF recv, TrackInv
<1> QED BY <1>1 DEF TrackInv, QueueIsLatest, GoesOn

LEMMA TrackStep == TrackInv /\ [Next]_vars => TrackInv' /\ GoesOn
<1>1. push => sent' = sent
  BY DEF push
<1>2. TrackInv /\ UNCHANGED vars => TrackInv' /\ GoesOn
  BY DEF vars, TrackInv, QueueIsLatest, GoesOn
<1> QED BY <1>1, <1>2, PushStep, GetStep, RepeatStep, RecvStep DEF Next, GoesOn

THEOREM TrackInvariant == Spec => []TrackInv
  BY TrackInit, TrackStep, PTL DEF Spec

\* AvatarVideoTrack.push and recv, for a queue of any length: the frames that wait are
\* always the most recent ones, and all newer than the one that recv() would repeat.
THEOREM BacklogIsFresh == Spec => []QueueIsLatest
<1>1. TrackInv => QueueIsLatest
  BY DEF TrackInv
<1> QED BY <1>1, TrackInvariant, PTL

\* The picture never goes back, whatever the render loop and the sender's pace are.
THEOREM PictureNeverGoesBack == Spec => PictureGoesOn
<1>1. TrackInv /\ [Next]_vars =>
        [sent' # sent /\ sent # << >> =>
            sent'[Len(sent')].frame >= sent[Len(sent)].frame]_vars
  BY TrackStep DEF GoesOn
<1> QED BY <1>1, TrackInvariant, PTL DEF Spec, PictureGoesOn

\* The frame that is returned bears the timestamp 0.
StampedZero == sent' # sent => sent'[Len(sent')].pts = 0

\* _next_timestamp: 0 is the first timestamp and the mark of a track that has none, so
\* that every frame has it, at any frame rate; video_track.py:48 says that timestamps
\* are derived from the fps.
THEOREM TimestampsStayZero == Spec => [][StampedZero]_vars
<1>1. Init => TrackInv /\ nextPts = 0
  BY TrackInit DEF Init
<1>2. TrackInv /\ nextPts = 0 /\ [Next]_vars => (TrackInv /\ nextPts = 0)' /\ [StampedZero]_vars
  <2> SUFFICES ASSUME TrackInv, nextPts = 0, [Next]_vars
               PROVE  nextPts' = 0 /\ [StampedZero]_vars
    BY TrackStep
  <2>1. ASSUME NEW frame, Return(frame) PROVE StampedZero
    <3>1. sent' = Append(sent, [frame |-> frame, pts |-> 0]) /\ sent \in Seq([frame : Nat, pts : Nat])
      BY <2>1 DEF Return, TrackInv
    <3>2. sent'[Len(sent')] = [frame |-> frame, pts |-> 0]
      BY <3>1
    <3> QED BY <3>2 DEF StampedZero
  <2>2. CASE Get \/ Repeat
    BY <2>1, <2>2 DEF Get, Repeat
  <2>3. CASE push \/ recv \/ UNCHANGED vars
    BY <2>3 DEF push, recv, vars, StampedZero
  <2> QED BY <2>2, <2>3 DEF Next
<1> QED BY <1>1, <1>2, PTL DEF Spec

------------------------------------------------------------------------------
(* What was sent is a frame that was pushed, or black.                      *)

Sent(n) == [frame : 0 .. n, pts : Nat]

SentInv == TrackInv /\ pushed <= MaxPushed /\ sent \in Seq(Sent(pushed)) /\ receiving \in BOOLEAN

LEMMA TrackIsTyped == SentInv => TypeOK
<1> SUFFICES ASSUME SentInv PROVE TypeOK
  OBVIOUS
<1>1. queue = Backlog(pushed, Len(queue)) /\ last + Len(queue) <= pushed
      /\ Len(queue) \in Nat /\ pushed \in Nat /\ last \in Nat
  BY DEF SentInv, TrackInv, QueueIsLatest, Backlog
<1>2. \A i \in 1 .. Len(queue) : queue[i] \in 1 .. pushed
  BY <1>1 DEF Backlog
<1>3. queue \in Seq(1 .. pushed)
  <2>1. queue \in Seq(Nat) /\ DOMAIN queue = 1 .. Len(queue)
    BY DEF SentInv, TrackInv
  <2> QED BY <1>1, <1>2, <2>1
<1>4. last \in 0 .. pushed /\ pushed \in 0 .. MaxPushed
  BY <1>1, TrackAssumption DEF SentInv
<1> QED BY <1>3, <1>4 DEF SentInv, TrackInv, TypeOK, Sent

LEMMA SentInit == Init => SentInv
<1> SUFFICES ASSUME Init PROVE SentInv
  OBVIOUS
<1>1. pushed = 0 /\ sent = << >> /\ receiving \in BOOLEAN
  BY DEF Init
<1>2. sent \in Seq(Sent(pushed)) /\ pushed <= MaxPushed
  BY <1>1, TrackAssumption
<1> QED BY <1>1, <1>2, TrackInit DEF SentInv

\* A frame that was pushed, or black, is returned.
LEMMA ReturnIsTyped ==
    ASSUME SentInv, NEW frame \in 0 .. pushed, Return(frame)
    PROVE  sent' \in Seq(Sent(pushed)) /\ receiving' \in BOOLEAN
<1> DEFINE item == [frame |-> frame, pts |-> nextPts]
<1>1. item \in Sent(pushed)
  BY DEF SentInv, TrackInv, Sent
<1>2. sent' = Append(sent, item) /\ sent \in Seq(Sent(pushed)) /\ receiving' = FALSE
  BY DEF Return, SentInv
<1> DEFINE S == Sent(pushed)
<1> HIDE DEF item, S
<1>3. item \in S /\ sent \in Seq(S)
  BY <1>1, <1>2 DEF S
<1>4. sent' \in Seq(S)
  BY <1>2, <1>3
<1> QED BY <1>2, <1>4 DEF S

LEMMA SentStep == SentInv /\ [Next]_vars => SentInv'
<1> SUFFICES ASSUME SentInv, [Next]_vars PROVE SentInv'
  OBVIOUS
<1>1. TrackInv'
  BY TrackStep DEF SentInv
<1>2. pushed \in Nat /\ last \in Nat /\ queue = Backlog(pushed, Len(queue))
      /\ Len(queue) \in Nat /\ last + Len(queue) <= pushed
  BY DEF SentInv, TrackInv, QueueIsLatest, Backlog
<1>3. CASE push
  <2>1. pushed' = pushed + 1 /\ pushed < MaxPushed /\ sent' = sent /\ receiving' = receiving
    BY <1>3 DEF push
  <2>2. Sent(pushed) \subseteq Sent(pushed')
    BY <1>2, <2>1 DEF Sent
  <2>3. sent' \in Seq(Sent(pushed'))
    BY <2>1, <2>2 DEF SentInv
  <2> QED BY <1>1, <1>2, <2>1, <2>3, TrackAssumption DEF SentInv
<1>4. CASE recv
  BY <1>1, <1>4 DEF recv, SentInv
<1>5. CASE Get
  <2>1. Head(queue) \in 0 .. pushed
    <3>1. Len(queue) > 0
      BY <1>5 DEF Get, SentInv, TrackInv
    <3> DEFINE k == Len(queue)
    <3>2. k \in Nat /\ 0 < k /\ k <= pushed /\ pushed \in Nat /\ queue = Backlog(pushed, k)
      BY <1>2, <3>1
    <3> HIDE DEF k
    <3>3. Head(Backlog(pushed, k)) = pushed - k + 1
      BY <3>2, BacklogHead
    <3> QED BY <3>2, <3>3
  <2>2. Return(Head(queue)) /\ pushed' = pushed
    BY <1>5 DEF Get
  <2>3. sent' \in Seq(Sent(pushed)) /\ receiving' \in BOOLEAN
    BY <2>1, <2>2, ReturnIsTyped
  <2> QED BY <1>1, <2>2, <2>3 DEF SentInv
<1>6. CASE Repeat
  <2>1. last \in 0 .. pushed
    BY <1>2
  <2>2. Return(last) /\ pushed' = pushed
    BY <1>6 DEF Repeat
  <2>3. sent' \in Seq(Sent(pushed)) /\ receiving' \in BOOLEAN
    BY <2>1, <2>2, ReturnIsTyped
  <2> QED BY <1>1, <2>2, <2>3 DEF SentInv
<1>7. CASE UNCHANGED vars
  BY <1>1, <1>7 DEF vars, SentInv
<1> QED BY <1>3, <1>4, <1>5, <1>6, <1>7 DEF Next

\* Every variable of AvatarVideoTrack keeps its type; that of `sent` says that recv()
\* returns frames of the render loop or the black one, nothing else.
THEOREM TypeCorrect == Spec => []TypeOK
  BY SentInit, SentStep, TrackIsTyped, PTL DEF Spec

------------------------------------------------------------------------------
(* The media path does to the track what the track allows.                  *)

LEMMA MediaStepIsTrackStep == [MediaNext]_mediaVars => [Next]_vars
<1>1. ASSUME NEW r \in Rings, NEW got, Read(r, got) PROVE UNCHANGED vars
  BY <1>1 DEF Read, trackVars
<1>2. NextBlock \/ ReadOn => UNCHANGED vars
  <2>1. UNCHANGED trackVars => UNCHANGED vars
    BY DEF trackVars
  <2> QED BY <2>1 DEF NextBlock, ReadOn, Read
<1>3. Underrun \/ SpeakerChanges \/ AssistantHeard \/ CandidateHeard => UNCHANGED vars
  BY DEF Underrun, SpeakerChanges, AssistantHeard, CandidateHeard, ChunkWritten, trackVars
<1>4. PushFrame => push
  BY DEF PushFrame
<1>5. SendStep => Get \/ recv \/ Repeat
  BY DEF SendStep, Air
<1>6. UNCHANGED mediaVars => UNCHANGED vars
  BY DEF mediaVars, trackVars
<1> QED BY <1>2, <1>3, <1>4, <1>5, <1>6 DEF MediaNext, RenderStep, Next

\* The render loop and the speaker loop use the track only by push(), the sender only by
\* recv(): all that holds of AvatarVideoTrack holds of it in the media path.
THEOREM MediaImplementsTrack == MediaSpec => Spec
<1>1. MediaInit => Init
  BY DEF MediaInit
<1> QED BY <1>1, MediaStepIsTrackStep, PTL DEF MediaSpec, Spec

------------------------------------------------------------------------------
(* The frames of the speaker before.                                        *)

Speakers == {"assistant", "candidate"}

\* Every block after the Kth is of the speaker who has the floor, and the frames up to
\* the Kth block that are not sent yet are few enough.
Turned(K) ==
    /\ \A b \in DOMAIN blocks : b > K => blocks[b] = Source(speaker)
    /\ loop.at = "reading" /\ Len(blocks) + 1 > K => loop.ring = Source(speaker)
    /\ old + K * NumFrames - (pushed - Len(queue)) <= NumFrames + QueueSize

\* All frames of a block are pushed before the next block is begun.
Pushed(n) ==
    \/ loop.at = "rendering" /\ pushed + NumFrames = n * NumFrames + loop.frames
    \/ loop.at = "reading" /\ pushed = n * NumFrames

LoopOK ==
    /\ loop = [at |-> loop.at, ring |-> loop.ring, got |-> loop.got, frames |-> loop.frames]
    /\ loop.ring \in Rings
    /\ loop.frames \in 0 .. NumFrames

MediaInv ==
    /\ TrackInv
    /\ speaker \in Speakers
    /\ blocks \in Seq(Rings)
    /\ LoopOK
    /\ Pushed(Len(blocks))
    /\ old \in Nat
    /\ OldSpeakerLeavesAir
    /\ \E K \in Nat : Turned(K)

LEMMA SourceIsRing == \A who \in Speakers : Source(who) \in Rings
  BY MediaAssumption DEF Source, Rings, Speakers

LEMMA Products == \A n \in Nat : n * NumFrames \in Nat /\ (n + 1) * NumFrames = n * NumFrames + NumFrames
<1>1. NumFrames \in Nat
  BY MediaAssumption
<1> QED BY <1>1, Z3

\* Frame f is in block (f - 1) \div NumFrames + 1, which is after the Kth block exactly if
\* f is not among the first K * NumFrames frames.
LEMMA BlockOfFrame ==
    ASSUME NEW f \in Nat \ {0}, NEW n \in Nat
    PROVE  /\ (f - 1) \div NumFrames + 1 \in Nat \ {0}
           /\ f <= n * NumFrames => (f - 1) \div NumFrames + 1 <= n
           /\ f > n * NumFrames => (f - 1) \div NumFrames + 1 > n
<1> DEFINE d == (f - 1) \div NumFrames
           m == (f - 1) % NumFrames
<1>1. NumFrames \in Nat \ {0}
  BY MediaAssumption
<1>2. d \in Int /\ m \in 0 .. NumFrames - 1 /\ f - 1 = NumFrames * d + m
  BY <1>1, Z3
<1> HIDE DEF d, m
<1>3. f <= n * NumFrames => d + 1 <= n
  BY <1>1, <1>2, Z3
<1>4. f > n * NumFrames => d + 1 > n
  BY <1>1, <1>2, Z3
<1>5. d >= 0
  BY <1>1, <1>2, Z3
<1> QED BY <1>2, <1>3, <1>4, <1>5 DEF d

LEMMA MediaInitInv == MediaInit => MediaInv
<1> SUFFICES ASSUME MediaInit PROVE MediaInv
  OBVIOUS
<1>1. /\ speaker = "assistant" /\ blocks = << >> /\ old = 0 /\ pushed = 0 /\ queue = << >>
      /\ loop = [at |-> "rendering", ring |-> "tts", got |-> 0, frames |-> NumFrames]
  BY DEF MediaInit, Init
<1>2. NumFrames \in Nat /\ QueueSize \in Nat
  BY MediaAssumption, TrackAssumption
<1>3. Pushed(Len(blocks)) /\ LoopOK
  BY <1>1, <1>2 DEF Pushed, LoopOK, Rings
<1>4. Turned(0)
  BY <1>1, <1>2 DEF Turned
<1>5. speaker \in Speakers /\ blocks \in Seq(Rings) /\ old \in Nat /\ OldSpeakerLeavesAir
  BY <1>1, <1>2 DEF Speakers, OldSpeakerLeavesAir
<1>6. TrackInv
  BY TrackInit DEF MediaInit
<1> QED BY <1>3, <1>4, <1>5, <1>6 DEF MediaInv

\* Numbers that are in every step.
LEMMA MediaFacts ==
    ASSUME MediaInv
    PROVE  /\ NumFrames \in Nat \ {0} /\ QueueSize \in Nat \ {0}
           /\ pushed \in Nat /\ Len(queue) \in Nat
           /\ Len(queue) <= pushed /\ Len(queue) <= QueueSize
           /\ Len(blocks) \in Nat /\ DOMAIN blocks = 1 .. Len(blocks)
           /\ queue = Backlog(pushed, Len(queue))
<1>1. NumFrames \in Nat \ {0} /\ QueueSize \in Nat \ {0}
  BY MediaAssumption, TrackAssumption
<1>2. pushed \in Nat /\ Len(queue) \in Nat /\ last \in Nat /\ Len(queue) <= QueueSize
      /\ queue = Backlog(pushed, Len(queue)) /\ last + Len(queue) <= pushed
  BY DEF MediaInv, TrackInv, QueueIsLatest, Backlog
<1>3. Len(blocks) \in Nat /\ DOMAIN blocks = 1 .. Len(blocks)
  BY DEF MediaInv
<1> QED BY <1>1, <1>2, <1>3

\* No frame is pushed of a block that was not submitted.
LEMMA FramesAreOfBlocks == MediaInv => pushed <= Len(blocks) * NumFrames
<1> SUFFICES ASSUME MediaInv PROVE pushed <= Len(blocks) * NumFrames
  OBVIOUS
<1> DEFINE p == Len(blocks) * NumFrames
<1>1. pushed + NumFrames = p + loop.frames \/ pushed = p
  BY DEF MediaInv, Pushed
<1>2. p \in Nat /\ loop.frames \in 0 .. NumFrames
  BY MediaFacts, Products DEF MediaInv, LoopOK
<1> HIDE DEF p
<1>3. pushed <= p
  BY <1>1, <1>2, MediaFacts
<1> QED BY <1>3 DEF p

\* The speaker changes: the frames of the blocks until now, and of the one whose audio
\* is being read, are of the speaker before.
LEMMA SpeakerChangesInv == MediaInv /\ SpeakerChanges => MediaInv'
<1> SUFFICES ASSUME MediaInv, SpeakerChanges PROVE MediaInv'
  OBVIOUS
<1> DEFINE n == Len(blocks)
           K == IF loop.at = "reading" THEN n + 1 ELSE n
<1>1. speaker' \in Speakers
  BY DEF SpeakerChanges, Desired, Speakers, MediaInv
<1>2. old' = 0 /\ UNCHANGED <<queue, pushed, last, receiving, nextPts, sent, unread, loop, blocks>>
  BY DEF SpeakerChanges, trackVars, vars
<1>3. n \in Nat /\ K \in Nat /\ n * NumFrames \in Nat /\ (n + 1) * NumFrames = n * NumFrames + NumFrames
  <2>1. n \in Nat
    BY MediaFacts
  <2> HIDE DEF n
  <2> QED BY <2>1, Products
<1>4. K * NumFrames - (pushed - Len(queue)) <= NumFrames + QueueSize
  <2>1. CASE loop.at = "reading"
    <3>1. pushed = n * NumFrames /\ K = n + 1
      BY <2>1 DEF MediaInv, Pushed
    <3> HIDE DEF n, K
    <3>2. K * NumFrames = pushed + NumFrames
      BY <3>1, <1>3
    <3> DEFINE p == K * NumFrames
    <3>3. p = pushed + NumFrames
      BY <3>2
    <3> HIDE DEF p
    <3>4. p - (pushed - Len(queue)) <= NumFrames + QueueSize
      BY <3>3, MediaFacts
    <3> QED BY <3>4 DEF p
  <2>2. CASE loop.at # "reading"
    <3>1. pushed + NumFrames = n * NumFrames + loop.frames /\ K = n /\ loop.frames \in Nat
      BY <2>2, MediaFacts DEF MediaInv, LoopOK, Pushed
    <3> HIDE DEF n, K
    <3> DEFINE p == K * NumFrames
    <3>2. p \in Nat /\ p <= pushed + NumFrames
      BY <3>1, <1>3
    <3> HIDE DEF p
    <3>3. p - (pushed - Len(queue)) <= NumFrames + QueueSize
      BY <3>2, MediaFacts
    <3> QED BY <3>3 DEF p
  <2> QED BY <2>1, <2>2
<1>5. Turned(K)'
  <2>1. \A b \in DOMAIN blocks : ~(b > K)
    BY <1>3, MediaFacts
  <2>2. loop.at = "reading" => ~(n + 1 > K)
    BY <1>3
  <2>3. K' = K /\ n' = n
    BY <1>2
  <2>4. 0 + K * NumFrames - (pushed - Len(queue)) <= NumFrames + QueueSize
    <3>1. K * NumFrames \in Nat
      BY <1>3, Products
    <3> HIDE DEF K
    <3> QED BY <1>4, <3>1, MediaFacts
  <2> HIDE DEF K
  <2> QED BY <1>2, <2>1, <2>2, <2>3, <2>4 DEF Turned
<1>6. OldSpeakerLeavesAir' /\ old' \in Nat
  BY <1>2, MediaFacts DEF OldSpeakerLeavesAir
<1>7. TrackInv' /\ Pushed(Len(blocks))' /\ LoopOK'
  BY <1>2 DEF MediaInv, TrackInv, QueueIsLatest, Pushed, LoopOK
<1>8. K' \in Nat
  BY <1>2, <1>3
<1> HIDE DEF K
<1> QED BY <1>1, <1>2, <1>5, <1>6, <1>7, <1>8 DEF MediaInv

\* A step of the render loop, which submits a block of a ring that the cursor was on, or
\* is on now, or goes on waiting.
LEMMA SubmitInv ==
    ASSUME MediaInv, NEW r \in Rings, Submit(r),
           UNCHANGED <<trackVars, speaker, old>>,
           Pushed(Len(blocks)), pushed = Len(blocks) * NumFrames,
           (loop.at = "reading" /\ r = loop.ring) \/ r = Source(speaker)
    PROVE  MediaInv'
<1> DEFINE n == Len(blocks)
<1>1. blocks' = Append(blocks, r) /\ loop' = [at |-> "rendering", ring |-> r, got |-> 0, frames |-> 0]
  BY DEF Submit
<1>2. UNCHANGED <<queue, pushed, last, receiving, nextPts, sent, speaker, old>>
  BY DEF trackVars, vars
<1>3. blocks \in Seq(Rings) /\ n \in Nat
  BY DEF MediaInv
<1>4. blocks' \in Seq(Rings) /\ Len(blocks') = n + 1 /\ DOMAIN blocks' = 1 .. n + 1
      /\ \A b \in DOMAIN blocks' : blocks'[b] = IF b = n + 1 THEN r ELSE blocks[b]
  BY <1>1, <1>3
<1>5. Pushed(Len(blocks))'
  <2>1. (n + 1) * NumFrames = pushed + NumFrames
    <3> HIDE DEF n
    <3> QED BY <1>3, Products DEF n
  <2>2. pushed' + NumFrames = Len(blocks') * NumFrames + loop'.frames /\ loop'.at = "rendering"
    BY <1>1, <1>2, <1>4, <2>1, MediaFacts
  <2> QED BY <2>2 DEF Pushed
<1>6. PICK K \in Nat : Turned(K)
  BY DEF MediaInv
<1>7. Turned(K)'
  <2>1. n + 1 > K => r = Source(speaker)
    BY <1>6 DEF Turned
  <2>2. \A b \in DOMAIN blocks' : b > K => blocks'[b] = Source(speaker)
    <3> SUFFICES ASSUME NEW b \in DOMAIN blocks', b > K PROVE blocks'[b] = Source(speaker)
      OBVIOUS
    <3>1. CASE b = n + 1
      BY <3>1, <1>4, <2>1
    <3>2. CASE b # n + 1
      <4>1. b \in DOMAIN blocks
        BY <3>2, <1>3, <1>4
      <4> QED BY <3>2, <4>1, <1>4, <1>6 DEF Turned
    <3> QED BY <3>1, <3>2
  <2>3. loop'.at # "reading" /\ Source(speaker)' = Source(speaker)
    BY <1>1, <1>2 DEF Source
  <2> QED BY <2>2, <2>3, <1>2, <1>6 DEF Turned
<1>8. TrackInv' /\ speaker' \in Speakers /\ old' \in Nat /\ OldSpeakerLeavesAir'
  BY <1>2 DEF MediaInv, TrackInv, QueueIsLatest, OldSpeakerLeavesAir
<1>9. LoopOK'
  BY <1>1, MediaFacts DEF LoopOK
<1> QED BY <1>4, <1>5, <1>7, <1>8, <1>9 DEF MediaInv

LEMMA ReadInv ==
    ASSUME MediaInv, NEW r \in Rings, NEW got, Read(r, got),
           pushed = Len(blocks) * NumFrames,
           (loop.at = "reading" /\ r = loop.ring) \/ r = Source(speaker)
    PROVE  MediaInv'
<1>1. UNCHANGED <<trackVars, speaker, old>>
  BY DEF Read
<1>2. CASE Submit(r)
  BY <1>1, <1>2, SubmitInv DEF MediaInv
<1>3. CASE ~Submit(r)
  <2>1. UNCHANGED <<queue, pushed, last, receiving, nextPts, sent, speaker, old>>
    BY <1>1 DEF trackVars, vars
  <2>2. /\ blocks' = blocks /\ loop'.at = "reading" /\ loop'.ring = r /\ loop'.frames = 0
        /\ loop' = [at |-> loop'.at, ring |-> loop'.ring, got |-> loop'.got, frames |-> loop'.frames]
    BY <1>3 DEF Read
  <2>3. PICK K \in Nat : Turned(K)
    BY DEF MediaInv
  <2>4. Turned(K)'
    <3>1. Len(blocks) + 1 > K => r = Source(speaker)
      BY <2>3 DEF Turned
    <3>2. Source(speaker)' = Source(speaker)
      BY <2>1 DEF Source
    <3> QED BY <2>1, <2>2, <2>3, <3>1, <3>2 DEF Turned
  <2>5. Pushed(Len(blocks))'
    BY <2>1, <2>2 DEF Pushed
  <2>6. TrackInv' /\ speaker' \in Speakers /\ old' \in Nat /\ OldSpeakerLeavesAir'
    BY <2>1 DEF MediaInv, TrackInv, QueueIsLatest, OldSpeakerLeavesAir
  <2>7. LoopOK' /\ blocks' \in Seq(Rings)
    BY <2>2, MediaFacts DEF MediaInv, LoopOK
  <2> QED BY <2>4, <2>5, <2>6, <2>7 DEF MediaInv
<1> QED BY <1>2, <1>3

LEMMA NextBlockInv == MediaInv /\ NextBlock => MediaInv'
<1> SUFFICES ASSUME MediaInv, NextBlock PROVE MediaInv'
  OBVIOUS
<1>1. loop.at = "rendering" /\ loop.frames = NumFrames /\ Read(Source(speaker), 0)
  BY DEF NextBlock, Pick
<1>2. Source(speaker) \in Rings
  BY SourceIsRing DEF MediaInv
<1>3. pushed = Len(blocks) * NumFrames
  <2>1. pushed + NumFrames = Len(blocks) * NumFrames + NumFrames
    BY <1>1 DEF MediaInv, Pushed
  <2>2. Len(blocks) * NumFrames \in Nat
    BY MediaFacts, Products
  <2> QED BY <2>1, <2>2, MediaFacts
<1> QED BY <1>1, <1>2, <1>3, ReadInv

LEMMA ReadOnInv == MediaInv /\ ReadOn => MediaInv'
<1> SUFFICES ASSUME MediaInv, ReadOn PROVE MediaInv'
  OBVIOUS
<1>1. loop.at = "reading" /\ Read(loop.ring, loop.got)
  BY DEF ReadOn
<1>2. pushed = Len(blocks) * NumFrames /\ loop.ring \in Rings
  BY <1>1 DEF MediaInv, Pushed, LoopOK
<1> QED BY <1>1, <1>2, ReadInv

LEMMA UnderrunInv == MediaInv /\ Underrun => MediaInv'
<1> SUFFICES ASSUME MediaInv, Underrun PROVE MediaInv'
  OBVIOUS
<1>1. loop.at = "reading" /\ Submit(loop.ring) /\ UNCHANGED <<trackVars, speaker, old>>
  BY DEF Underrun, WithoutAudio, audioVars
<1>2. pushed = Len(blocks) * NumFrames /\ loop.ring \in Rings /\ Pushed(Len(blocks))
  BY <1>1 DEF MediaInv, Pushed, LoopOK
<1> QED BY <1>1, <1>2, SubmitInv

\* A frame more that was pushed: it waits, or another one was dropped for it.
LEMMA PushFrameInv == MediaInv /\ PushFrame => MediaInv'
<1> SUFFICES ASSUME MediaInv, PushFrame PROVE MediaInv'
  OBVIOUS
<1>1. /\ loop.at = "rendering" /\ loop.frames < NumFrames /\ push
      /\ loop' = [loop EXCEPT !.frames = @ + 1]
      /\ UNCHANGED <<speaker, unread, blocks, old>>
  BY DEF PushFrame, audioVars
<1>2. TrackInv'
  BY <1>1, PushStep DEF MediaInv
<1>3. pushed' = pushed + 1 /\ Len(queue') <= Len(queue) + 1 /\ Len(queue') \in Nat
  <2>1. queue \in Seq(Nat) /\ queue' \in Seq(Nat)
    BY <1>2 DEF MediaInv, TrackInv
  <2>2. Len(queue) = QueueSize => Tail(queue) \in Seq(Nat) /\ Len(Tail(queue)) = Len(queue) - 1
    BY <2>1, MediaFacts
  <2>3. pushed' = pushed + 1
        /\ queue' = Append(IF Len(queue) = QueueSize THEN Tail(queue) ELSE queue, pushed + 1)
    BY <1>1 DEF push, Room
  <2> QED BY <2>1, <2>2, <2>3, MediaFacts
<1>4. loop' = [at |-> "rendering", ring |-> loop.ring, got |-> loop.got, frames |-> loop.frames + 1]
  BY <1>1 DEF MediaInv, LoopOK
<1>5. LoopOK'
  <2>1. loop.frames + 1 \in 0 .. NumFrames /\ loop.ring \in Rings
    BY <1>1, MediaFacts DEF MediaInv, LoopOK
  <2> QED BY <1>4, <2>1 DEF LoopOK
<1>6. Pushed(Len(blocks))'
  <2>1. pushed + NumFrames = Len(blocks) * NumFrames + loop.frames /\ loop.frames \in Nat
    BY <1>1, MediaFacts DEF MediaInv, Pushed, LoopOK
  <2>2. Len(blocks) * NumFrames \in Nat
    BY MediaFacts, Products
  <2>3. pushed' + NumFrames = Len(blocks) * NumFrames + loop'.frames
    <3> DEFINE p == Len(blocks) * NumFrames
    <3>1. p \in Nat /\ pushed + NumFrames = p + loop.frames /\ loop.frames \in Nat
      BY <2>1, <2>2
    <3> HIDE DEF p
    <3>2. pushed' + NumFrames = p + loop'.frames
      BY <1>3, <1>4, <3>1, MediaFacts, SMTT(30)
    <3> QED BY <3>2 DEF p
  <2> QED BY <1>1, <1>4, <2>3 DEF Pushed
<1>7. PICK K \in Nat : Turned(K)
  BY DEF MediaInv
<1>8. Turned(K)'
  <2>1. K * NumFrames \in Nat /\ old \in Nat
    BY Products DEF MediaInv
  <2>2. old + K * NumFrames - (pushed - Len(queue)) <= NumFrames + QueueSize
    BY <1>7 DEF Turned
  <2>3. old' + K * NumFrames - (pushed' - Len(queue')) <= NumFrames + QueueSize
    <3> DEFINE p == K * NumFrames
    <3>1. p \in Nat /\ old \in Nat /\ old + p - (pushed - Len(queue)) <= NumFrames + QueueSize
      BY <2>1, <2>2
    <3> HIDE DEF p
    <3>2. old' + p - (pushed' - Len(queue')) <= NumFrames + QueueSize
      BY <1>1, <1>3, <3>1, MediaFacts, SMTT(30)
    <3> QED BY <3>2 DEF p
  <2>4. Source(speaker)' = Source(speaker)
    BY <1>1 DEF Source
  <2> QED BY <1>1, <1>4, <1>7, <2>3, <2>4 DEF Turned
<1>9. speaker' \in Speakers /\ old' \in Nat /\ OldSpeakerLeavesAir' /\ blocks' \in Seq(Rings)
  BY <1>1 DEF MediaInv, OldSpeakerLeavesAir
<1> QED BY <1>2, <1>5, <1>6, <1>8, <1>9 DEF MediaInv

\* The oldest frame that waits is sent: it is of the speaker before, and one of those
\* that were left, or of a block of the speaker who has the floor.
LEMMA AirInv == MediaInv /\ Air => MediaInv'
<1> SUFFICES ASSUME MediaInv, Air PROVE MediaInv'
  OBVIOUS
<1> DEFINE k == Len(queue)
           f == Head(queue)
           b == (f - 1) \div NumFrames + 1
<1>1. /\ Get
      /\ old' = IF blocks[b] # Source(speaker) THEN old + 1 ELSE old
      /\ UNCHANGED <<speaker, unread, loop, blocks>>
  BY DEF Air, RingOf, audioVars
<1>2. TrackInv'
  BY <1>1, GetStep DEF MediaInv
<1>3. k \in Nat /\ 0 < k /\ k <= pushed /\ pushed \in Nat /\ queue = Backlog(pushed, k)
  BY <1>1, MediaFacts DEF Get
<1>4. f = pushed - k + 1 /\ f \in Nat \ {0} /\ f <= pushed
  <2>1. Head(Backlog(pushed, k)) = pushed - k + 1
    <3> HIDE DEF k
    <3> QED BY <1>3, BacklogHead
  <2> QED BY <1>3, <2>1
<1>5. pushed' = pushed /\ Len(queue') = k - 1
  BY <1>1, <1>3 DEF Get, MediaInv, TrackInv
<1>6. PICK K \in Nat : Turned(K)
  BY DEF MediaInv
<1>7. K * NumFrames \in Nat /\ old \in Nat /\ Len(blocks) * NumFrames \in Nat
  BY Products, MediaFacts DEF MediaInv
<1>8. f <= Len(blocks) * NumFrames
  BY <1>3, <1>4, <1>7, FramesAreOfBlocks
<1>9. b \in DOMAIN blocks /\ (f > K * NumFrames => b > K)
  <2> HIDE DEF f
  <2>1. b \in Nat \ {0} /\ b <= Len(blocks) /\ (f > K * NumFrames => b > K)
    BY <1>4, <1>8, MediaFacts, BlockOfFrame
  <2> QED BY <2>1, MediaFacts
<1>10. old' = old \/ (old' = old + 1 /\ f <= K * NumFrames)
  <2>1. f > K * NumFrames => blocks[b] = Source(speaker)
    BY <1>6, <1>9 DEF Turned
  <2> HIDE DEF b, f
  <2> QED BY <1>1, <1>4, <1>7, <2>1
<1>11. /\ old' \in Nat /\ OldSpeakerLeavesAir'
       /\ old' + K * NumFrames - (pushed' - Len(queue')) <= NumFrames + QueueSize
  <2>1. old + K * NumFrames - (pushed - k) <= NumFrames + QueueSize
    BY <1>6 DEF Turned
  <2>2. old <= NumFrames + QueueSize
    BY DEF MediaInv, OldSpeakerLeavesAir
  <2> DEFINE p == K * NumFrames
  <2>3. p \in Nat /\ old + p - (pushed - k) <= NumFrames + QueueSize
        /\ (old' = old \/ (old' = old + 1 /\ f <= p)) /\ old \in Nat
    BY <1>7, <1>10, <2>1
  <2> HIDE DEF f, k, p
  <2>4. /\ old' \in Nat /\ old' <= NumFrames + QueueSize
        /\ old' + p - (pushed' - Len(queue')) <= NumFrames + QueueSize
    BY <1>3, <1>4, <1>5, <2>2, <2>3, MediaFacts
  <2> QED BY <2>4 DEF OldSpeakerLeavesAir, p
<1>12. Turned(K)'
  <2>1. Source(speaker)' = Source(speaker)
    BY <1>1 DEF Source
  <2> QED BY <1>1, <1>6, <1>11, <2>1 DEF Turned
<1>13. Pushed(Len(blocks))' /\ LoopOK' /\ speaker' \in Speakers /\ blocks' \in Seq(Rings)
  BY <1>1, <1>5 DEF MediaInv, Pushed, LoopOK
<1> QED BY <1>2, <1>11, <1>12, <1>13 DEF MediaInv

\* Steps that leave the frames alone.
LEMMA OtherMediaInv ==
    ASSUME MediaInv, TrackInv', UNCHANGED <<queue, pushed, speaker, loop, blocks, old>>
    PROVE  MediaInv'
<1>1. PICK K \in Nat : Turned(K)
  BY DEF MediaInv
<1>2. Source(speaker)' = Source(speaker)
  BY DEF Source
<1>3. Turned(K)'
  BY <1>1, <1>2 DEF Turned
<1> QED BY <1>3 DEF MediaInv, Pushed, LoopOK, OldSpeakerLeavesAir

LEMMA MediaStepInv == MediaInv /\ [MediaNext]_mediaVars => MediaInv'
<1> SUFFICES ASSUME MediaInv, [MediaNext]_mediaVars PROVE MediaInv'
  OBVIOUS
<1>1. TrackInv'
  BY MediaStepIsTrackStep, TrackStep DEF MediaInv
<1>2. CASE AssistantHeard \/ CandidateHeard
  <2>1. UNCHANGED <<queue, pushed, speaker, loop, blocks, old>>
    BY <1>2 DEF AssistantHeard, CandidateHeard, ChunkWritten, trackVars, vars
  <2> QED BY <1>1, <2>1, OtherMediaInv
<1>3. CASE recv /\ UNCHANGED <<audioVars, loop, blocks, old>>
  <2>1. UNCHANGED <<queue, pushed, speaker, loop, blocks, old>>
    BY <1>3 DEF recv, audioVars
  <2> QED BY <1>1, <2>1, OtherMediaInv
<1>4. CASE Repeat /\ UNCHANGED <<audioVars, loop, blocks, old>>
  <2>1. UNCHANGED <<queue, pushed, speaker, loop, blocks, old>>
    BY <1>4 DEF Repeat, audioVars
  <2> QED BY <1>1, <2>1, OtherMediaInv
<1>5. CASE UNCHANGED mediaVars
  <2>1. UNCHANGED <<queue, pushed, speaker, loop, blocks, old>>
    BY <1>5 DEF mediaVars, audioVars, trackVars, vars
  <2> QED BY <1>1, <2>1, OtherMediaInv
<1> QED BY <1>2, <1>3, <1>4, <1>5, SpeakerChangesInv, NextBlockInv, ReadOnInv,
           UnderrunInv, PushFrameInv, AirInv DEF MediaNext, RenderStep, SendStep

THEOREM MediaInvariant == MediaSpec => []MediaInv
  BY MediaInitInv, MediaStepInv, PTL DEF MediaSpec

\* _speaker_loop and FramePipeline._run, for blocks, a track and rings of any length: once
\* the speaker has changed, at most a block and a full queue of the other one are seen.
THEOREM FloorIsHandedOver == MediaSpec => []OldSpeakerLeavesAir
<1>1. MediaInv => OldSpeakerLeavesAir
  BY DEF MediaInv
<1> QED BY <1>1, MediaInvariant, PTL
==============================================================================
