---------------------------- MODULE SessionManager ----------------------------
(***************************************************************************)
(* The pod: sessions/session_manager.py and the lifespan of main.py, driving *)
(* the sessions of AvatarSession.  `active` is SessionManager._active, the   *)
(* only reference the HTTP layer has to a session; ses[s] is the session     *)
(* object s, which stays in memory as long as a task still runs it.          *)
(***************************************************************************)
EXTENDS AvatarSession, FiniteSets, Naturals

CONSTANTS
    Sessions,          \* the sessions the gateway POSTs, one object each
    NoSession,         \* the initial value of _active
    SpeakerLoop,       \* sessions asked for duplex_mode "duplex" or source "auto"
    BringsPortrait,    \* sessions whose request has a reference image
    LegacySfu,         \* sessions with a StreamSfuPeer (sfu_backend = "legacy")
    StopsDuring,       \* where start() may be when DELETE or shutdown comes
    InferenceMayFail,  \* may infer_block raise?
    SfuMayDie          \* sessions whose SFU connection may be dropped after the join

ASSUME SessionsAssumption ==
    /\ NoSession \notin Sessions
    /\ SpeakerLoop \subseteq Sessions
    /\ BringsPortrait \subseteq Sessions
    /\ LegacySfu \subseteq Sessions
    /\ StopsDuring \subseteq StartPoints
    /\ InferenceMayFail \in BOOLEAN
    /\ SfuMayDie \subseteq Sessions

VARIABLES
    active,   \* SessionManager._active
    ses,      \* the session objects
    app       \* "loading", "serving", "closing", "closed"

vars == <<active, ses, app>>

TypeOK ==
    /\ active \in Sessions \cup {NoSession}
    /\ ses \in [Sessions -> SessionState]
    /\ app \in {"loading", "serving", "closing", "closed"}

Init ==
    /\ active = NoSession
    /\ ses = [s \in Sessions |-> NewSession(s \in LegacySfu)]
    /\ app = "loading"

------------------------------------------------------------------------------
(* The tasks of the process run as long as the process does.                *)

Running == app # "closed"

Step(s, r) ==
    /\ Running
    /\ ses' = [ses EXCEPT ![s] = r]
    /\ UNCHANGED <<active, app>>

\* No DELETE is being served: uvicorn drains its requests before the hook runs.
Drained == \A s \in Sessions, k \in Clients : ses[s].stops[k] = "idle"

\* Mutant: a session counts as gone from the moment it is told to stop.
BusyUnlessStopping ==
    active # NoSession /\ ses[active].phase \notin {"stopping", "stopped", "failed"}

Busy == active # NoSession /\ ses[active].phase \notin {"stopped", "failed"}

\* The runtime has loaded its model.  It may fail to, and then the pod loads for good.
Load == app = "loading" /\ app' = "serving" /\ UNCHANGED <<active, ses>>

\* POST /sessions: 409 while the active session is neither stopped nor failed,
\* 503 until the model is loaded.  The new session takes over _active.
Create(s) ==
    /\ app = "serving"
    /\ ~Busy
    /\ ses[s].start = "unborn"
    /\ active' = s
    /\ ses' = [ses EXCEPT ![s].start = "scheduled"]
    /\ UNCHANGED app

MayStop(s) == Starting(ses[s]) => ses[s].start \in StopsDuring

\* DELETE /sessions/{sid}: 404 unless s is the active one.
Delete(s, k) ==
    /\ app = "serving"
    /\ active = s
    /\ MayStop(s)
    /\ \A t \in Sessions : ses[t].stops[k] = "idle"
    /\ ~StopReturnsAtOnce(ses[s])
    /\ Step(s, Stop(ses[s], k))

StopStep(s, k) ==
    /\ ses[s].stops[k] # "idle"
    /\ Step(s, StopResumes(ses[s], k))

\* The shutdown hook: the active session is stopped, if there is one to stop.
Shutdown ==
    /\ app \in {"loading", "serving"}
    /\ Drained
    /\ \A s \in Sessions : MayStop(s)
    /\ app' = "closing"
    /\ ses' = IF Busy /\ ~StopReturnsAtOnce(ses[active])
              THEN [ses EXCEPT ![active] = Stop(@, "lifespan")]
              ELSE ses
    /\ UNCHANGED active

\* The hook returns, or an exception of stop() cuts it short, and the loop ends.
Exit ==
    /\ app = "closing"
    /\ \A s \in Sessions : ses[s].stops["lifespan"] = "idle"
    /\ app' = "closed"
    /\ UNCHANGED <<active, ses>>

Exited == app = "closed" /\ UNCHANGED vars

------------------------------------------------------------------------------
(* The start task of a session.                                             *)

StartBegins(s) ==
    /\ ses[s].start = "scheduled"
    /\ Step(s, ConnectOpenAI(ses[s]))

OpenAIConnected(s) ==
    /\ ses[s].start = "oai_connect"
    /\ ses[s].oai = "connecting"
    /\ Step(s, AwaitChannel(ses[s]))

\* The session.update goes out, and the identity is at hand or has to be fetched;
\* PortraitBank says which.
ChannelReady(s) ==
    /\ ses[s].start = "oai_open"
    /\ MaySend(ses[s])
    /\ \/ s \in BringsPortrait /\ Step(s, LoadImage(ses[s]))
       \/ \E r \in Builds(ses[s]) : Step(s, r)

PortraitLoaded(s) ==
    /\ ses[s].start = "load_image"
    /\ \E r \in Builds(ses[s]) : Step(s, r)

\* A StreamSfuPeer that was closed meanwhile raises instead.
SfuJoined(s) ==
    /\ ses[s].start = "sfu_join"
    /\ ses[s].sfu = "joining"
    /\ Step(s, PublishTracks(ses[s]))

TracksPublished(s) ==
    /\ ses[s].start = "sfu_publish"
    /\ MaySend(ses[s])
    /\ Step(s, WarmUp(ses[s], s \in SpeakerLoop))

FrameSeen(s) ==
    /\ ses[s].start = "first_frame"
    /\ ses[s].firstFrame
    /\ Step(s, BecomeReady(ses[s]))

StartRaises(s) == MayFail(ses[s]) /\ Step(s, StartFails(ses[s]))

\* The steps that look into the identity bank, and the others.
IdentityStep(s) == ChannelReady(s) \/ PortraitLoaded(s)
OtherStartStep(s) ==
    \/ StartBegins(s) \/ OpenAIConnected(s) \/ SfuJoined(s)
    \/ TracksPublished(s) \/ FrameSeen(s) \/ StartRaises(s)

StartStep(s) == IdentityStep(s) \/ OtherStartStep(s)

------------------------------------------------------------------------------
(* What the peers and the GPU do on their own.                              *)

ChannelOpens(s) ==
    /\ ses[s].oai = "opening"
    /\ Step(s, [ses[s] EXCEPT !.oai = "open"])

\* connectionstatechange reports "failed" or "closed".
OpenAIDies(s) ==
    /\ ses[s].oai \in {"opening", "open"}
    /\ Step(s, [ses[s] EXCEPT !.oai = "dead"])

\* The SFU callbacks only log.
SfuDies(s) ==
    /\ s \in SfuMayDie
    /\ ses[s].sfu = "joined"
    /\ Step(s, [ses[s] EXCEPT !.sfu = "lost"])

FirstFrame(s) ==
    /\ Rendering(ses[s])
    /\ ~ses[s].firstFrame
    /\ Step(s, [ses[s] EXCEPT !.firstFrame = TRUE])

PipelineCrashes(s) ==
    /\ InferenceMayFail
    /\ Rendering(ses[s])
    /\ Step(s, [ses[s] EXCEPT !.pipe = "crashed"])

------------------------------------------------------------------------------
OtherStep ==
    \/ Load \/ Shutdown \/ Exit \/ Exited
    \/ \E s \in Sessions :
        \/ Create(s) \/ OtherStartStep(s)
        \/ \E k \in Clients : Delete(s, k)
        \/ \E k \in Stoppers : StopStep(s, k)
        \/ ChannelOpens(s) \/ OpenAIDies(s) \/ SfuDies(s)
        \/ FirstFrame(s) \/ PipelineCrashes(s)

Next == OtherStep \/ \E s \in Sessions : IdentityStep(s)

Spec == Init /\ [][Next]_vars

\* The await of rtc.join, __aenter__ or add_tracks: none of the three has a deadline.
AwaitsSfu(s) == ses[s].start \in {"sfu_join", "sfu_publish"} /\ ~ses[s].legacySfu

\* The event loop runs every task that is ready, the other awaits of start() have a
\* deadline, and closing a peer or a ring returns.  Nothing is assumed of the gateway,
\* of the remote peers or of the GPU.
Fairness ==
    /\ WF_vars(Exit)
    /\ \A s \in Sessions :
        /\ WF_vars(StartStep(s) /\ ~AwaitsSfu(s))
        /\ \A k \in Stoppers : WF_vars(StopStep(s, k))

FairSpec == Spec /\ Fairness

------------------------------------------------------------------------------
(* Properties for a patient gateway, StopsDuring = {}.                      *)

\* Two sessions never work or stay connected at the same time: what the header
\* of session_manager.py promises, and the GPU memory requires.
OneSessionPerPod ==
    \A s, t \in Sessions : Live(ses[s]) /\ Live(ses[t]) => s = t

\* However many DELETEs overlap, and whether or not start() failed, the gateway
\* is told at most once that a session has stopped.
StoppedSentOnce ==
    \A s \in Sessions :
        Cardinality({i \in DOMAIN ses[s].sent : ses[s].sent[i] = "stopped"}) < 2


\* Wherever start() is, it ends up ready, or cleaned up after a failure, even when
\* OpenAI never answers, its channel never opens or no frame ever comes.  Only at the
\* SFU it may be left waiting: what it awaits there has no deadline.
StartSettles ==
    \A s \in Sessions :
        Starting(ses[s]) /\ ~AwaitsSfu(s) ~>
            AwaitsSfu(s) \/ (AtRest(ses[s]) /\ ses[s].phase \in {"ready", "stopped"})

\* The session manager implements the abstract pod.
Pod == INSTANCE PodLifecycle WITH
    Nobody  <- NoSession,
    host    <- IF Busy THEN active ELSE NoSession,
    served  <- {s \in Sessions : ses[s].start # "unborn"},
    holding <- {s \in Sessions : Live(ses[s])}

\* Accepting, failing, stopping and shutting down look to the gateway like
\* claiming and releasing the pod, with nothing left behind by a release.
ImplementsPod == Pod!Spec

------------------------------------------------------------------------------
(* Properties for every gateway, those that DELETE while start() runs too.  *)

\* Teardown keeps its order whatever the interleaving of stop() with start():
\* no frame is rendered for an SFU peer that has been closed.
NoRenderingWithoutSfu ==
    \A s \in Sessions : ses[s].pipe = "running" => ~ses[s].sfuClosed

\* A session that came to rest as stopped has given up its OpenAI connection,
\* also when start() went on after the stop() had begun.
OpenAIReleased ==
    \A s \in Sessions :
        AtRest(ses[s]) /\ ses[s].phase = "stopped" => ~HoldsOpenAI(ses[s])

\* A stopped session is still in the call only when its join ended after close() had
\* found nothing to leave, which a StreamSfuPeer does not let happen, or when no stop()
\* came as far as the SFU: it had gone by before there was a pipeline, or an exception
\* cut it short.
SfuLeaksOnlyByRace ==
    \A s \in Sessions :
        AtRest(ses[s]) /\ ses[s].phase = "stopped" /\ HoldsSfu(ses[s]) =>
            IF ses[s].sfuClosed
            THEN ses[s].joinedLate /\ ~ses[s].legacySfu
            ELSE ses[s].pipeCancelled => ses[s].pipe = "crashed"

\* Only an exception inside stop() leaves a session for good between its phases:
\* one raised by the crashed pipeline or by the cancelled speaker task.
StuckOnlyByException ==
    \A s \in Sessions :
        AtRest(ses[s]) /\ ses[s].phase \notin {"ready", "stopped"} =>
            /\ ses[s].phase = "stopping"
            /\ ses[s].pipe = "crashed" \/ ses[s].speaker = "cancelled"

\* A session loses the pod to another one only after the gateway was told that
\* it has stopped.
TakeoverAfterStopped ==
    \A s \in Sessions \ {active} :
        ses[s].start = "unborn"
            \/ \E i \in DOMAIN ses[s].sent : ses[s].sent[i] = "stopped"

------------------------------------------------------------------------------
(* What the documents say and the code does not do.                         *)

\* session_manager.py:1, README.md:39: one active session per pod.  No two sessions
\* render or take part in a call at the same time, whenever the DELETEs come.
OneActiveSession ==
    \A s, t \in Sessions :
        (Rendering(ses[s]) \/ HoldsSfu(ses[s])) /\ (Rendering(ses[t]) \/ HoldsSfu(ses[t]))
            => s = t

\* README.md:116: DELETE frees the pod, so while the pod goes on serving every
\* session that is being stopped gets stopped.
DeleteFreesPod ==
    \A s \in Sessions :
        ses[s].phase = "stopping" /\ app = "serving" ~>
            ses[s].phase = "stopped" \/ app # "serving"

\* docs/ARCHITECTURE.md:127: an inference failure makes the session transition to
\* failed.  For one that was ready, being stopped counts as well.
InferenceFailureFails ==
    \A s \in Sessions :
        ses[s].phase = "ready" /\ ses[s].pipe = "crashed" /\ app = "serving" ~>
            ses[s].phase \in {"failed", "stopping", "stopped"} \/ app # "serving"
==============================================================================
