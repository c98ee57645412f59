---------------------------- MODULE AvatarSession ----------------------------
(***************************************************************************)
(* One interview session: sessions/avatar_session.py and the lifecycles of *)
(* the three objects it owns, the OpenAI peer, the SFU peer and the frame  *)
(* pipeline.                                                               *)
(*                                                                         *)
(* A session is a record.  Every operator below is what one task of the    *)
(* event loop does to that record between two awaits that really suspend:  *)
(* nothing else runs in between, so the operator is one atomic step.  The  *)
(* guards are boolean operators on the record, the effects are operators   *)
(* from records to records.  SessionManager gives each of them to a task.  *)
(***************************************************************************)
EXTENDS Sequences

CONSTANT Clients       \* the DELETE requests the server may be working on

ASSUME ClientsAreRequests == Clients \cap {"starter", "lifespan"} = {}

\* Whoever may call stop(): a DELETE request, the start task when start()
\* fails, the shutdown hook of the application.
Stoppers == Clients \cup {"starter", "lifespan"}

Phases == {"initializing", "openai_connecting", "model_loading", "sfu_connecting",
           "warming_up", "ready", "failed", "stopping", "stopped"}

\* What the start task is suspended on.  "cleanup": on the stop() it calls.
StartPoints == {"unborn", "scheduled", "oai_connect", "oai_open", "load_image",
                "sfu_join", "sfu_publish", "first_frame", "cleanup", "done"}

\* The points of start() at which an exception can be raised.
StartAwaits == {"oai_connect", "oai_open", "load_image", "sfu_join",
                "sfu_publish", "first_frame"}

\* What a call of stop() is suspended on; "idle" when there is no call.
StopPoints == {"idle", "speaker", "pipeline", "sfu", "openai", "rings"}

\* The OpenAI peer connection.  "closing": close() has begun on a connection
\* whose data channel was not open; "draining": it was, and may still be.
OaiStates == {"none", "connecting", "opening", "open", "dead",
              "closing", "draining", "closed"}

\* The SFU connection.  "unjoined": the peer exists but its join failed.
SfuStates == {"none", "joining", "unjoined", "joined", "lost", "leaving", "left"}

PipeStates == {"none", "built", "running", "crashed", "ended",
               "cancelling", "cancelled"}

SpeakerStates == {"none", "running", "cancelling", "cancelled"}

\* The webhook events that start() and stop() emit.  Those that come from the OpenAI
\* peer are in OpenAIEvents: what its pump forwards, and the `error` of a connection
\* that is gone, which is another one than the `error` of start().
Events == {"avatar_ready", "error", "stopped"}

SessionState ==
    [phase         : Phases,
     lastError     : BOOLEAN,
     start         : StartPoints,
     stops         : [Stoppers -> StopPoints],
     oai           : OaiStates,
     legacySfu     : BOOLEAN,      \* the SFU peer is a StreamSfuPeer
     sfu           : SfuStates,
     sfuClosed     : BOOLEAN,
     joinedLate    : BOOLEAN,      \* history: the join ended after close()
     pipe          : PipeStates,
     pipeCancelled : BOOLEAN,
     firstFrame    : BOOLEAN,
     speaker       : SpeakerStates,
     sent          : Seq(Events)]

NewSession(legacy) ==
    [phase         |-> "initializing",
     lastError     |-> FALSE,
     start         |-> "unborn",
     stops         |-> [k \in Stoppers |-> "idle"],
     oai           |-> "none",
     legacySfu     |-> legacy,
     sfu           |-> "none",
     sfuClosed     |-> FALSE,
     joinedLate    |-> FALSE,
     pipe          |-> "none",
     pipeCancelled |-> FALSE,
     firstFrame    |-> FALSE,
     speaker       |-> "none",
     sent          |-> << >>]

Emit(r, e) == [r EXCEPT !.sent = Append(@, e)]

------------------------------------------------------------------------------
(* stop(): the stages run in reverse dependency order.  A stage either      *)
(* suspends, with the stopper k parked on it, or falls through to the next. *)

StopEnd(r, k) ==
    Emit([r EXCEPT !.phase = "stopped", !.stops[k] = "idle",
                   !.start = IF k = "starter" THEN "done" ELSE @], "stopped")

\* An exception leaves stop(): the stages after it never run.
StopRaises(r, k) ==
    [r EXCEPT !.stops[k] = "idle", !.start = IF k = "starter" THEN "done" ELSE @]

Park(r, k, point) == [r EXCEPT !.stops[k] = point]

\* Somebody else may be on the lock of a ring: whoever reads or writes it, or what a
\* cancelled pipeline has left there (Abandon in AudioRing).
RingsInUse(r) ==
    \/ r.pipe \in {"running", "cancelling", "cancelled"}
    \/ r.sfu \in {"joined", "lost", "leaving"}
    \/ r.oai \notin {"none", "closed"}

\* AudioRing.close() of the two rings.
StopRings(r, k) == IF RingsInUse(r) THEN Park(r, k, "rings") ELSE StopEnd(r, k)

\* Mutant: a peer whose transport is gone is taken for closed.
StopOpenAISkipsDead(r, k) ==
    IF r.oai \in {"none", "dead", "closing", "draining", "closed"}
    THEN StopRings(r, k)
    ELSE Park([r EXCEPT !.oai = IF @ = "open" THEN "draining" ELSE "closing"],
              k, "openai")

\* OpenAIRealtimePeer.close() returns at once when it was called before.
StopOpenAI(r, k) ==
    IF r.oai \in {"none", "closing", "draining", "closed"}
    THEN StopRings(r, k)
    ELSE Park([r EXCEPT !.oai = IF @ = "open" THEN "draining" ELSE "closing"],
              k, "openai")

\* What close() of the SFU peer can leave.  VisionAgentsPeer needs the connection
\* that the join hands over at its end; StreamSfuPeer has its own from the start.
Leavable(r) == {"joined", "lost"} \cup (IF r.legacySfu THEN {"joining", "unjoined"} ELSE {})

\* Mutant: the SFU peer is marked as closed and the connection is not left.
StopSfuWithoutLeaving(r, k) ==
    IF r.sfu = "none" \/ r.sfuClosed
    THEN StopOpenAI(r, k)
    ELSE Park([r EXCEPT !.sfuClosed = TRUE], k, "sfu")

\* close() of the SFU peer: idempotent by its _closed flag.
StopSfu(r, k) ==
    IF r.sfu = "none" \/ r.sfuClosed
    THEN StopOpenAI(r, k)
    ELSE Park([r EXCEPT !.sfuClosed = TRUE,
                        !.sfu = IF @ \in Leavable(r) THEN "leaving" ELSE @],
              k, "sfu")

\* Mutant: stop() does nothing to a pipeline that was not started yet.
StopPipelineIfStarted(r, k) ==
    CASE r.pipe \in {"running", "cancelling"} ->
            Park([r EXCEPT !.pipeCancelled = TRUE, !.pipe = "cancelling"], k, "pipeline")
      [] r.pipe = "crashed" -> StopRaises([r EXCEPT !.pipeCancelled = TRUE], k)
      [] OTHER -> StopSfu(r, k)

\* FramePipeline.stop(): cancel the task and await it.  A task that crashed
\* earlier raises its exception here, and only CancelledError is caught.
StopPipeline(r, k) ==
    LET flagged == [r EXCEPT !.pipeCancelled = (@ \/ r.pipe # "none")]
    IN  CASE r.pipe \in {"running", "cancelling"} ->
                Park([flagged EXCEPT !.pipe = "cancelling"], k, "pipeline")
          [] r.pipe = "crashed" -> StopRaises(flagged, k)
          [] OTHER -> StopSfu(flagged, k)

\* Awaiting the cancelled speaker task raises CancelledError, which
\* `except Exception` does not catch: at once if the task is over already.
StopSpeaker(r, k) ==
    CASE r.speaker = "none" -> StopPipeline(r, k)
      [] r.speaker = "cancelled" -> StopRaises(r, k)
      [] OTHER -> Park([r EXCEPT !.speaker = "cancelling"], k, "speaker")

\* Mutant: stop() runs again on a session that is stopping.
StopReturnsIfStopped(r) == r.phase = "stopped"

StopReturnsAtOnce(r) == r.phase \in {"stopping", "stopped"}

Stop(r, k) == StopSpeaker([r EXCEPT !.phase = "stopping"], k)

\* The pipeline's task is over: cancelled, or by an exception of the block that it
\* went on with after its cancellation was swallowed.
AfterPipeline(r, k) ==
    IF r.pipe = "crashed"
    THEN StopRaises(r, k)
    ELSE StopSfu([r EXCEPT !.pipe = "cancelled"], k)

\* Mutant: an error of the SFU's close leaves stop().
StopResumesOrRaises(r, k) ==
    CASE r.stops[k] \in {"speaker", "sfu"} -> StopRaises(r, k)
      [] r.stops[k] = "pipeline" -> AfterPipeline(r, k)
      [] r.stops[k] = "openai"   -> StopRings([r EXCEPT !.oai = "closed"], k)
      [] OTHER                   -> StopEnd(r, k)

\* The stopper k, parked on a stage, is resumed.
StopResumes(r, k) ==
    CASE r.stops[k] = "speaker"  -> StopRaises([r EXCEPT !.speaker = "cancelled"], k)
      [] r.stops[k] = "pipeline" -> AfterPipeline(r, k)
      [] r.stops[k] = "sfu"      -> StopOpenAI([r EXCEPT !.sfu =
                                        IF @ = "leaving" THEN "left" ELSE @], k)
      [] r.stops[k] = "openai"   -> StopRings([r EXCEPT !.oai = "closed"], k)
      [] OTHER                   -> StopEnd(r, k)

------------------------------------------------------------------------------
(* start()                                                                  *)

\* The data channel accepts an event: while close() is under way it may.
MaySend(r) == r.oai \in {"open", "draining"}

ConnectOpenAI(r) ==
    [r EXCEPT !.phase = "openai_connecting", !.oai = "connecting",
              !.start = "oai_connect"]

\* connect() returned; wait_until_open() suspends.
AwaitChannel(r) == [r EXCEPT !.oai = "opening", !.start = "oai_open"]

\* Identity missing from the bank: the reference image is fetched, if there is one.
LoadImage(r) == [r EXCEPT !.phase = "model_loading", !.start = "load_image"]

\* Track, pipeline and SFU peer are built, and the join is awaited.
BuildAndJoin(r) ==
    [r EXCEPT !.phase = "sfu_connecting", !.pipe = "built", !.sfu = "joining",
              !.start = "sfu_join"]

PublishTracks(r) ==
    [r EXCEPT !.sfu = "joined", !.start = "sfu_publish", !.joinedLate = r.sfuClosed]

\* The pipeline task checks _cancelled before its first block.
WarmUp(r, speakerLoop) ==
    [r EXCEPT !.phase = "warming_up",
              !.pipe = IF r.pipeCancelled THEN "ended" ELSE "running",
              !.speaker = IF speakerLoop THEN "running" ELSE @,
              !.start = "first_frame"]

\* Mutant: a phase that SessionPhase does not list.
BecomeReadyAsLive(r) ==
    Emit([r EXCEPT !.phase = "live", !.start = "done"], "avatar_ready")

BecomeReady(r) ==
    Emit([r EXCEPT !.phase = "ready", !.start = "done"], "avatar_ready")

\* Mutant: wait_until_open() has no deadline.
MayFailUnlessOpening(r) ==
    /\ r.start \in StartAwaits \ {"oai_open"}
    /\ r.start = "first_frame" => ~r.firstFrame

\* The frame deadline is only looked at while there is no frame.
MayFail(r) ==
    /\ r.start \in StartAwaits
    /\ r.start = "first_frame" => ~r.firstFrame

\* The handler of start(): failed, last_error, the error event and the call of
\* stop() follow one another without an await.
StartFails(r) ==
    LET failed == Emit([r EXCEPT !.phase = "failed", !.lastError = TRUE,
                                 !.start = "cleanup",
                                 !.sfu = IF @ = "joining" THEN "unjoined" ELSE @],
                       "error")
    IN  Stop(failed, "starter")

\* Identity at hand: the pipeline and the SFU peer are built, and the join begins.
\* The pipeline's constructor may raise, and so may that of the default SFU peer.
Builds(r) ==
    {BuildAndJoin(r), StartFails(r)}
        \cup (IF r.legacySfu THEN {} ELSE {StartFails([r EXCEPT !.pipe = "built"])})

------------------------------------------------------------------------------
(* What the session holds outside the process, and which tasks work for it. *)

HoldsOpenAI(r) == r.oai \notin {"none", "closed"}
HoldsSfu(r)    == r.sfu \in {"joined", "lost", "leaving"}
Rendering(r)   == r.pipe \in {"running", "cancelling"}
Starting(r)    == r.start \notin {"unborn", "done"}
Stopping(r)    == \E k \in Stoppers : r.stops[k] # "idle"

Live(r) == HoldsOpenAI(r) \/ HoldsSfu(r) \/ Rendering(r) \/ Starting(r) \/ Stopping(r)

\* Nothing of start() or stop() is left to run.
AtRest(r) == r.start = "done" /\ ~Stopping(r)
==============================================================================
