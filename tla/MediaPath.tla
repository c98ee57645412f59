------------------------------- MODULE MediaPath -------------------------------
(***************************************************************************)
(* From the audio rings to the frames that are sent: the speaker loop of the *)
(* session says whose audio drives the face, the render loop                *)
(* (FramePipeline._run) picks a cursor for every block and pushes the frames, *)
(* and the peer connection takes them from the track, AvatarVideoTrack.      *)
(*                                                                          *)
(* Audio is counted in chunks.  What a chunk sounds like is left open: the   *)
(* verdicts of the speaker loop on its probes are arbitrary.  How a cursor   *)
(* waits and is skipped forward is in AudioRing, how a block is rendered and *)
(* stopped in FramePipeline.                                                *)
(***************************************************************************)
EXTENDS AvatarVideoTrack

CONSTANTS
    NumFrames,       \* frames of a block
    BlockChunks,     \* block_samples
    Capacity,        \* of a ring
    AudioSource      \* video_audio_source of the request

ASSUME MediaAssumption ==
    /\ {NumFrames, BlockChunks, Capacity} \subseteq Nat \ {0}
    /\ AudioSource \in {"tts", "mic", "auto"}

VARIABLES
    speaker,         \* _active_speaker: "assistant" or "candidate"
    unread,          \* per ring: chunks that the cursor of the render loop can get
    loop,            \* the render loop: .at, its cursor, what it got, frames it pushed
    blocks,          \* history: the ring of every block that was submitted
    old              \* history: frames of the other ring that were sent since the
                     \* speaker changed

trackVars == vars
audioVars == <<speaker, unread>>

Rings == {"tts", "mic"}

MediaInit ==
    /\ Init
    /\ speaker = "assistant"
    /\ unread = [r \in Rings |-> 0]
    /\ loop = [at |-> "rendering", ring |-> "tts", got |-> 0, frames |-> NumFrames]
    /\ blocks = << >>
    /\ old = 0

------------------------------------------------------------------------------
(* The speaker loop.                                                        *)

\* _current_video_audio_source
Source(who) ==
    IF AudioSource # "auto" THEN AudioSource ELSE IF who = "candidate" THEN "mic" ELSE "tts"

\* The assistant has the floor while it is heard, and nobody takes it in silence.
Desired(candidateActive, assistantActive) ==
    IF assistantActive THEN "assistant"
    ELSE IF candidateActive THEN "candidate" ELSE speaker

\* A tick that comes after the hold time and changes the speaker.
SpeakerChanges ==
    \E candidateActive, assistantActive \in BOOLEAN :
        /\ Desired(candidateActive, assistantActive) # speaker
        /\ speaker' = Desired(candidateActive, assistantActive)
        /\ old' = 0
        /\ UNCHANGED <<trackVars, unread, loop, blocks>>

\* A chunk is written; a cursor that is a whole ring behind loses its oldest one.
ChunkWritten(r) ==
    /\ unread[r] < Capacity
    /\ unread' = [unread EXCEPT ![r] = @ + 1]
    /\ UNCHANGED <<trackVars, speaker, loop, blocks, old>>

\* Speech of the assistant, from OpenAI, and of the candidate, from the call: only a
\* StreamSfuPeer writes the latter.
AssistantHeard == ChunkWritten("tts")
CandidateHeard == ChunkWritten("mic")

------------------------------------------------------------------------------
(* The render loop.                                                         *)

\* Mutant: the cursor is picked before the loop.
PickOnce == IF blocks = << >> THEN Source(speaker) ELSE loop.ring

Pick == Source(speaker)

\* The audio of a block, or silence in its place, goes to infer_block.
Submit(r) ==
    /\ loop' = [at |-> "rendering", ring |-> r, got |-> 0, frames |-> 0]
    /\ blocks' = Append(blocks, r)

\* read_exactly takes what there is, and waits if that is not enough.
Read(r, got) ==
    LET missing == BlockChunks - got
        take    == IF unread[r] < missing THEN unread[r] ELSE missing
    IN  /\ unread' = [unread EXCEPT ![r] = @ - take]
        /\ IF take = missing
           THEN Submit(r)
           ELSE /\ loop' = [at |-> "reading", ring |-> r, got |-> got + take, frames |-> 0]
                /\ UNCHANGED blocks
        /\ UNCHANGED <<trackVars, speaker, old>>

NextBlock ==
    /\ loop.at = "rendering"
    /\ loop.frames = NumFrames
    /\ Read(Pick, 0)

ReadOn ==
    /\ loop.at = "reading"
    /\ unread[loop.ring] > 0
    /\ Read(loop.ring, loop.got)

\* Mutant: a block without audio is skipped.
SkipsBlock(r) ==
    /\ loop' = [loop EXCEPT !.at = "rendering", !.got = 0, !.frames = NumFrames]
    /\ UNCHANGED blocks

\* What the loop does without audio: a block of silence.
WithoutAudio(r) == Submit(r)

\* The wait expires, and what the cursor had got is dropped.
Underrun ==
    /\ loop.at = "reading"
    /\ WithoutAudio(loop.ring)
    /\ UNCHANGED <<trackVars, audioVars, old>>

PushFrame ==
    /\ loop.at = "rendering"
    /\ loop.frames < NumFrames
    /\ push
    /\ loop' = [loop EXCEPT !.frames = @ + 1]
    /\ UNCHANGED <<audioVars, blocks, old>>

RenderStep == NextBlock \/ ReadOn \/ Underrun \/ PushFrame

------------------------------------------------------------------------------
(* The sender.                                                              *)

RingOf(frame) == blocks[(frame - 1) \div NumFrames + 1]

\* A frame is sent for the first time.
Air ==
    /\ Get
    /\ old' = IF RingOf(Head(queue)) # Source(speaker) THEN old + 1 ELSE old
    /\ UNCHANGED <<audioVars, loop, blocks>>

SendStep ==
    \/ Air
    \/ (recv \/ Repeat) /\ UNCHANGED <<audioVars, loop, blocks, old>>

MediaNext ==
    SpeakerChanges \/ AssistantHeard \/ CandidateHeard \/ RenderStep \/ SendStep

mediaVars == <<trackVars, audioVars, loop, blocks, old>>

\* The render loop is a task whose wait has a deadline, and the GPU gives every frame
\* of a block.
MediaSpec == MediaInit /\ [][MediaNext]_mediaVars /\ WF_mediaVars(RenderStep)

------------------------------------------------------------------------------
\* When the speaker changes, the frames of the other one go off the air: what is left
\* in the track, and at most one block, which the loop was reading or rendering.
OldSpeakerLeavesAir == old <= NumFrames + QueueSize

\* frame_pipeline.py:156: the avatar does not freeze, whichever ring runs dry and
\* however the speaker changes meanwhile.
AvatarKeepsMoving == <>(pushed = MaxPushed)
==============================================================================
