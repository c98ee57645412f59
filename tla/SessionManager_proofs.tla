------------------------ MODULE SessionManager_proofs ------------------------
(***************************************************************************)
(* What holds of the pod for every set of sessions and of DELETE requests, *)
(* whenever the requests come.                                              *)
(*                                                                          *)
(* First one session, on the record of AvatarSession: what start(), stop()  *)
(* and the peers preserve of it.  Then the pod: every step of the manager   *)
(* is a step of one session, and the claims of one are those of all.        *)
(***************************************************************************)
EXTENDS SessionManager, TLAPS

------------------------------------------------------------------------------
(* The invariant of one session, whoever calls stop() and whenever.         *)

NotStarted == {"unborn", "scheduled", "oai_connect", "oai_open", "load_image"}
NotWarm    == NotStarted \cup {"sfu_join", "sfu_publish"}

\* start() connects to OpenAI before it creates pipeline and SFU peer, and starts the
\* pipeline and the speaker loop once.
BuiltTogether(r) ==
    /\ r.oai = "none" <=> r.start \in {"unborn", "scheduled"}
    /\ r.start \in NotStarted => r.pipe = "none" /\ r.sfu = "none" /\ ~r.sfuClosed
    /\ r.start \in {"sfu_join", "sfu_publish"} => r.pipe = "built"
    /\ r.start \in NotWarm => r.speaker = "none"
    /\ r.sfu # "none" => r.pipe # "none"

\* The SFU peer is closed after the pipeline was told to stop, and a stopper
\* awaits only a task that exists.
PipelineBeforeSfu(r) ==
    /\ r.sfuClosed => r.pipeCancelled
    /\ \A k \in Stoppers : r.stops[k] = "pipeline" =>
            r.pipeCancelled /\ r.pipe \in {"cancelling", "cancelled", "crashed"}
    /\ \A k \in Stoppers : r.stops[k] = "speaker" => r.speaker # "none"
    /\ r.pipe = "running" => ~r.sfuClosed

\* An OpenAI peer being closed has a stopper waiting for it, and is what a stopper waits
\* for; the rings come after it.
ClosedByAStopper(r) ==
    /\ r.phase = "stopped" => r.oai \in {"none", "closing", "draining", "closed"}
    /\ \A k \in Stoppers :
            r.stops[k] \in {"openai", "rings"} => r.oai \in {"closing", "draining", "closed"}
    /\ r.oai \in {"closing", "draining"} => \E k \in Stoppers : r.stops[k] = "openai"

\* Which phases go with which tasks.
PhaseOfTasks(r) ==
    /\ r.phase # "failed"
    /\ r.start # "cleanup" => r.stops["starter"] = "idle"
    /\ r.start = "cleanup" => r.phase \in {"stopping", "stopped"}
    /\ r.start = "done" => r.phase \in {"ready", "stopping", "stopped"}
    /\ r.phase = "stopping" =>
            Stopping(r) \/ r.pipe = "crashed" \/ r.speaker = "cancelled"

SessionInv(r) ==
    /\ r \in SessionState
    /\ BuiltTogether(r)
    /\ PipelineBeforeSfu(r)
    /\ ClosedByAStopper(r)
    /\ PhaseOfTasks(r)

\* What a call of stop() by k may rely on between two of its stages: the
\* invariant without the part that only holds once k is parked or gone.
StopInv(r, k) ==
    /\ r \in SessionState
    /\ BuiltTogether(r)
    /\ PipelineBeforeSfu(r)
    /\ r.phase = "stopped" => r.oai \in {"none", "closing", "draining", "closed"}
    /\ \A l \in Stoppers :
            r.stops[l] \in {"openai", "rings"} => r.oai \in {"closing", "draining", "closed"}
    /\ r.oai \in {"closing", "draining"} =>
            \E l \in Stoppers \ {k} : r.stops[l] = "openai"
    /\ r.phase # "failed"
    /\ r.start # "cleanup" => k # "starter" /\ r.stops["starter"] = "idle"
    /\ r.start = "cleanup" => r.phase \in {"stopping", "stopped"}
    /\ r.start = "done" => r.phase \in {"ready", "stopping", "stopped"}

------------------------------------------------------------------------------
(* The operators keep the type of a session.                                *)

LEMMA EmitType ==
    ASSUME NEW r \in SessionState, NEW e \in Events
    PROVE  Emit(r, e) \in SessionState
<1>1. r.sent \in Seq(Events)
  BY DEF SessionState
<1>2. Append(r.sent, e) \in Seq(Events)
  BY <1>1
<1> QED BY <1>2 DEF Emit, SessionState

\* Everything but `sent` is left alone by an event.
LEMMA EmitFields ==
    ASSUME NEW r \in SessionState, NEW e
    PROVE  LET q == Emit(r, e) IN
           /\ q.phase = r.phase /\ q.start = r.start /\ q.stops = r.stops
           /\ q.oai = r.oai /\ q.sfu = r.sfu /\ q.sfuClosed = r.sfuClosed
           /\ q.pipe = r.pipe /\ q.pipeCancelled = r.pipeCancelled
           /\ q.firstFrame = r.firstFrame /\ q.speaker = r.speaker
           /\ q.lastError = r.lastError
  BY DEF Emit, SessionState

LEMMA EmitInv ==
    ASSUME NEW r, SessionInv(r), NEW e \in Events
    PROVE  SessionInv(Emit(r, e))
  BY EmitType, EmitFields
  DEF SessionInv, BuiltTogether, PipelineBeforeSfu, ClosedByAStopper, PhaseOfTasks,
      Stopping

------------------------------------------------------------------------------
(* stop(), from its last stage to its first.                                *)

LEMMA StopEndInv ==
    ASSUME NEW r, NEW k \in Stoppers, StopInv(r, k),
           r.oai \in {"none", "closing", "draining", "closed"}
    PROVE  SessionInv(StopEnd(r, k))
<1> DEFINE q == [r EXCEPT !.phase = "stopped", !.stops[k] = "idle",
                   !.start = IF k = "starter" THEN "done" ELSE @]
<1>1. q \in SessionState
  BY DEF StopInv, SessionState, Phases, StopPoints, StartPoints
<1>2. /\ q.phase = "stopped" /\ q.stops = [r.stops EXCEPT ![k] = "idle"]
      /\ q.start = (IF k = "starter" THEN "done" ELSE r.start)
      /\ q.oai = r.oai /\ q.sfu = r.sfu /\ q.sfuClosed = r.sfuClosed
      /\ q.pipe = r.pipe /\ q.pipeCancelled = r.pipeCancelled /\ q.speaker = r.speaker
  BY DEF StopInv, SessionState
<1>3. r.stops \in [Stoppers -> StopPoints] /\ "starter" \in Stoppers
  BY DEF StopInv, SessionState, Stoppers
<1>4. SessionInv(q)
  <2>1. BuiltTogether(q)
    BY <1>2 DEF StopInv, BuiltTogether, NotStarted, NotWarm
  <2>2. PipelineBeforeSfu(q)
    BY <1>2, <1>3 DEF StopInv, PipelineBeforeSfu
  <2>3. ClosedByAStopper(q)
    BY <1>2, <1>3 DEF StopInv, ClosedByAStopper
  <2>4. PhaseOfTasks(q)
    BY <1>2, <1>3 DEF StopInv, PhaseOfTasks
  <2> QED BY <1>1, <2>1, <2>2, <2>3, <2>4 DEF SessionInv
<1> QED BY <1>4, EmitInv DEF StopEnd, Events

LEMMA StopRaisesInv ==
    ASSUME NEW r, NEW k \in Stoppers, StopInv(r, k),
           r.pipe = "crashed" \/ r.speaker = "cancelled"
    PROVE  SessionInv(StopRaises(r, k))
<1> DEFINE q == StopRaises(r, k)
<1>1. q \in SessionState
  BY DEF StopRaises, StopInv, SessionState, StopPoints, StartPoints
<1>2. /\ q.phase = r.phase /\ q.stops = [r.stops EXCEPT ![k] = "idle"]
      /\ q.start = (IF k = "starter" THEN "done" ELSE r.start)
      /\ q.oai = r.oai /\ q.sfu = r.sfu /\ q.sfuClosed = r.sfuClosed
      /\ q.pipe = r.pipe /\ q.pipeCancelled = r.pipeCancelled /\ q.speaker = r.speaker
  BY DEF StopRaises, StopInv, SessionState
<1>3. r.stops \in [Stoppers -> StopPoints] /\ "starter" \in Stoppers
  BY DEF StopInv, SessionState, Stoppers
<1>4. BuiltTogether(q)
  BY <1>2 DEF StopInv, BuiltTogether, NotStarted, NotWarm
<1>5. PipelineBeforeSfu(q)
  BY <1>2, <1>3 DEF StopInv, PipelineBeforeSfu
<1>6. ClosedByAStopper(q)
  BY <1>2, <1>3 DEF StopInv, ClosedByAStopper
<1>7. PhaseOfTasks(q)
  BY <1>2, <1>3 DEF StopInv, PhaseOfTasks
<1> QED BY <1>1, <1>4, <1>5, <1>6, <1>7 DEF SessionInv

\* Parking on a stage re-establishes the invariant: the stopper that waits is
\* the one the peer being closed needs.
LEMMA ParkInv ==
    ASSUME NEW r \in SessionState, NEW k \in Stoppers, NEW p \in StopPoints \ {"idle"},
           BuiltTogether(r), PipelineBeforeSfu(r),
           p = "pipeline" => r.pipeCancelled /\ r.pipe = "cancelling",
           p = "speaker" => r.speaker # "none",
           p \in {"openai", "rings"} => r.oai \in {"closing", "draining", "closed"},
           \A l \in Stoppers :
                r.stops[l] \in {"openai", "rings"} => r.oai \in {"closing", "draining", "closed"},
           r.phase = "stopped" => r.oai \in {"none", "closing", "draining", "closed"},
           r.oai \in {"closing", "draining"} =>
                p = "openai" \/ \E l \in Stoppers \ {k} : r.stops[l] = "openai",
           r.phase # "failed",
           r.start # "cleanup" => k # "starter" /\ r.stops["starter"] = "idle",
           r.start = "cleanup" => r.phase \in {"stopping", "stopped"},
           r.start = "done" => r.phase \in {"ready", "stopping", "stopped"}
    PROVE  SessionInv(Park(r, k, p))
<1> DEFINE q == Park(r, k, p)
<1>1. q \in SessionState
  BY DEF Park, SessionState
<1>2. /\ q.phase = r.phase /\ q.stops = [r.stops EXCEPT ![k] = p]
      /\ q.start = r.start
      /\ q.oai = r.oai /\ q.sfu = r.sfu /\ q.sfuClosed = r.sfuClosed
      /\ q.pipe = r.pipe /\ q.pipeCancelled = r.pipeCancelled /\ q.speaker = r.speaker
  BY DEF Park, SessionState
<1>3. r.stops \in [Stoppers -> StopPoints] /\ "starter" \in Stoppers
  BY DEF SessionState, Stoppers
<1>4. BuiltTogether(q)
  BY <1>2 DEF BuiltTogether
<1>5. PipelineBeforeSfu(q)
  BY <1>2, <1>3 DEF PipelineBeforeSfu
<1>6. ClosedByAStopper(q)
  BY <1>2, <1>3 DEF ClosedByAStopper
<1>7. PhaseOfTasks(q)
  BY <1>2, <1>3 DEF PhaseOfTasks, Stopping
<1> QED BY <1>1, <1>4, <1>5, <1>6, <1>7 DEF SessionInv

\* A session whose rings are in use has begun to connect to OpenAI, and is closing it.
LEMMA StopRingsInv ==
    ASSUME NEW r, NEW k \in Stoppers, StopInv(r, k),
           r.oai \in {"none", "closing", "draining", "closed"}
    PROVE  SessionInv(StopRings(r, k))
<1>1. CASE RingsInUse(r)
  <2>1. r.oai \in {"closing", "draining", "closed"}
    BY <1>1 DEF RingsInUse, StopInv, BuiltTogether, NotStarted
  <2>2. r \in SessionState /\ "rings" \in StopPoints \ {"idle"}
    BY DEF StopInv, StopPoints
  <2>3. SessionInv(Park(r, k, "rings"))
    BY <2>1, <2>2, ParkInv, ZenonT(60) DEF StopInv
  <2> QED BY <1>1, <2>3 DEF StopRings
<1>2. CASE ~RingsInUse(r)
  BY <1>2, StopEndInv DEF StopRings
<1> QED BY <1>1, <1>2

LEMMA StopOpenAIInv ==
    ASSUME NEW r, NEW k \in Stoppers, StopInv(r, k)
    PROVE  SessionInv(StopOpenAI(r, k))
<1>1. CASE r.oai \in {"none", "closing", "draining", "closed"}
  BY <1>1, StopRingsInv DEF StopOpenAI
<1>2. CASE r.oai \notin {"none", "closing", "draining", "closed"}
  <2> DEFINE q == [r EXCEPT !.oai = IF @ = "open" THEN "draining" ELSE "closing"]
  <2>1. q \in SessionState /\ "openai" \in StopPoints \ {"idle"}
    BY DEF StopInv, SessionState, OaiStates, StopPoints
  <2>2. /\ q.phase = r.phase /\ q.stops = r.stops /\ q.start = r.start
        /\ q.oai \in {"closing", "draining"} /\ q.sfu = r.sfu
        /\ q.sfuClosed = r.sfuClosed /\ q.pipe = r.pipe
        /\ q.pipeCancelled = r.pipeCancelled /\ q.speaker = r.speaker
    BY DEF StopInv, SessionState
  <2>3. BuiltTogether(q) /\ PipelineBeforeSfu(q)
    BY <1>2, <2>2 DEF StopInv, BuiltTogether, PipelineBeforeSfu
  <2>4. q.phase # "stopped" /\ \A l \in Stoppers : q.stops[l] \notin {"openai", "rings"}
    BY <1>2, <2>2 DEF StopInv
  <2> HIDE DEF q
  <2>5. SessionInv(Park(q, k, "openai"))
    BY <2>1, <2>2, <2>3, <2>4, ParkInv, ZenonT(60) DEF StopInv
  <2> QED BY <1>2, <2>5 DEF StopOpenAI, q
<1> QED BY <1>1, <1>2

LEMMA StopSfuInv ==
    ASSUME NEW r, NEW k \in Stoppers, StopInv(r, k),
           r.pipe # "none" => r.pipeCancelled, r.pipe # "running"
    PROVE  SessionInv(StopSfu(r, k))
<1>1. CASE r.sfu = "none" \/ r.sfuClosed
  BY <1>1, StopOpenAIInv DEF StopSfu
<1>2. CASE ~(r.sfu = "none" \/ r.sfuClosed)
  <2> DEFINE q == [r EXCEPT !.sfuClosed = TRUE,
                        !.sfu = IF @ \in Leavable(r) THEN "leaving" ELSE @]
  <2>1. q \in SessionState /\ "sfu" \in StopPoints \ {"idle"}
    BY DEF StopInv, SessionState, SfuStates, StopPoints
  <2>2. /\ q.phase = r.phase /\ q.stops = r.stops /\ q.start = r.start
        /\ q.oai = r.oai /\ q.sfu # "none"
        /\ q.sfuClosed = TRUE /\ q.pipe = r.pipe
        /\ q.pipeCancelled = r.pipeCancelled /\ q.speaker = r.speaker
    BY <1>2 DEF StopInv, SessionState
  <2>3. BuiltTogether(q) /\ PipelineBeforeSfu(q)
    BY <1>2, <2>2 DEF StopInv, BuiltTogether, PipelineBeforeSfu
  <2> HIDE DEF q
  <2>4. SessionInv(Park(q, k, "sfu"))
    BY <2>1, <2>2, <2>3, ParkInv DEF StopInv
  <2> QED BY <1>2, <2>4 DEF StopSfu, q
<1> QED BY <1>1, <1>2

LEMMA StopPipelineInv ==
    ASSUME NEW r, NEW k \in Stoppers, StopInv(r, k)
    PROVE  SessionInv(StopPipeline(r, k))
<1> DEFINE f == [r EXCEPT !.pipeCancelled = (@ \/ r.pipe # "none")]
<1>1. f \in SessionState
  BY DEF StopInv, SessionState
<1>2. /\ f.phase = r.phase /\ f.stops = r.stops /\ f.start = r.start
      /\ f.oai = r.oai /\ f.sfu = r.sfu /\ f.sfuClosed = r.sfuClosed /\ f.pipe = r.pipe
      /\ f.pipeCancelled = (r.pipeCancelled \/ r.pipe # "none") /\ f.speaker = r.speaker
  BY DEF StopInv, SessionState
<1>3. StopInv(f, k)
  BY <1>1, <1>2, ZenonT(60) DEF StopInv, BuiltTogether, PipelineBeforeSfu
<1> HIDE DEF f
<1>4. CASE r.pipe \in {"running", "cancelling"}
  <2> DEFINE q == [f EXCEPT !.pipe = "cancelling"]
  <2>1. q \in SessionState /\ "pipeline" \in StopPoints \ {"idle"}
    BY <1>1 DEF SessionState, PipeStates, StopPoints
  <2>2. /\ q.phase = r.phase /\ q.stops = r.stops /\ q.start = r.start
        /\ q.oai = r.oai /\ q.sfu = r.sfu /\ q.sfuClosed = r.sfuClosed
        /\ q.pipe = "cancelling" /\ q.pipeCancelled = TRUE /\ q.speaker = r.speaker
    BY <1>1, <1>2, <1>4 DEF SessionState
  <2>3. BuiltTogether(q)
    BY <1>4, <2>2 DEF StopInv, BuiltTogether, NotStarted, NotWarm
  <2>4. PipelineBeforeSfu(q)
    BY <2>2 DEF StopInv, PipelineBeforeSfu
  <2>5. SessionInv(Park(q, k, "pipeline"))
    BY <2>1, <2>2, <2>3, <2>4, ParkInv DEF StopInv
  <2> QED BY <1>4, <2>5 DEF StopPipeline, f
<1>5. CASE r.pipe = "crashed"
  <2>1. SessionInv(StopRaises(f, k))
    BY <1>2, <1>3, <1>5, StopRaisesInv
  <2> QED BY <1>5, <2>1 DEF StopPipeline, f
<1>6. CASE r.pipe \notin {"running", "cancelling", "crashed"}
  <2>1. SessionInv(StopSfu(f, k))
    BY <1>2, <1>3, <1>6, StopSfuInv
  <2> QED BY <1>6, <2>1 DEF StopPipeline, f
<1> QED BY <1>4, <1>5, <1>6

LEMMA StopSpeakerInv ==
    ASSUME NEW r, NEW k \in Stoppers, StopInv(r, k)
    PROVE  SessionInv(StopSpeaker(r, k))
<1>1. CASE r.speaker = "none"
  BY <1>1, StopPipelineInv DEF StopSpeaker
<1>2. CASE r.speaker = "cancelled"
  BY <1>2, StopRaisesInv DEF StopSpeaker
<1>3. CASE r.speaker \notin {"none", "cancelled"}
  <2> DEFINE q == [r EXCEPT !.speaker = "cancelling"]
  <2>1. q \in SessionState /\ "speaker" \in StopPoints \ {"idle"}
    BY DEF StopInv, SessionState, SpeakerStates, StopPoints
  <2>2. /\ q.phase = r.phase /\ q.stops = r.stops /\ q.start = r.start
        /\ q.oai = r.oai /\ q.sfu = r.sfu /\ q.sfuClosed = r.sfuClosed
        /\ q.pipe = r.pipe /\ q.pipeCancelled = r.pipeCancelled /\ q.speaker = "cancelling"
    BY DEF StopInv, SessionState
  <2>3. BuiltTogether(q)
    BY <1>3, <2>2 DEF StopInv, BuiltTogether, NotStarted, NotWarm
  <2>4. PipelineBeforeSfu(q)
    BY <2>2 DEF StopInv, PipelineBeforeSfu
  <2> HIDE DEF q
  <2>5. SessionInv(Park(q, k, "speaker"))
    BY <2>1, <2>2, <2>3, <2>4, ParkInv DEF StopInv
  <2> QED BY <1>3, <2>5 DEF StopSpeaker, q
<1> QED BY <1>1, <1>2, <1>3

LEMMA StopKeepsInv ==
    ASSUME NEW r, NEW k \in Stoppers, SessionInv(r), r.stops[k] = "idle",
           k = "starter" => r.start = "cleanup"
    PROVE  SessionInv(Stop(r, k))
<1> DEFINE q == [r EXCEPT !.phase = "stopping"]
<1>1. q \in SessionState
  BY DEF SessionInv, SessionState, Phases
<1>2. /\ q.phase = "stopping" /\ q.stops = r.stops /\ q.start = r.start
      /\ q.oai = r.oai /\ q.sfu = r.sfu /\ q.sfuClosed = r.sfuClosed /\ q.pipe = r.pipe
      /\ q.pipeCancelled = r.pipeCancelled /\ q.speaker = r.speaker
  BY DEF SessionInv, SessionState
<1>3. StopInv(q, k)
  BY <1>1, <1>2
  DEF SessionInv, StopInv, BuiltTogether, PipelineBeforeSfu, ClosedByAStopper, PhaseOfTasks
<1> QED BY <1>3, StopSpeakerInv DEF Stop

LEMMA StopResumesInv ==
    ASSUME NEW r, NEW k \in Stoppers, SessionInv(r), r.stops[k] # "idle"
    PROVE  SessionInv(StopResumes(r, k))
<1>1. r \in SessionState /\ r.stops[k] \in StopPoints
  BY DEF SessionInv, SessionState
<1>2. CASE r.stops[k] = "speaker"
  <2> DEFINE q == [r EXCEPT !.speaker = "cancelled"]
  <2>1. q \in SessionState
    BY <1>1 DEF SessionState, SpeakerStates
  <2>2. /\ q.phase = r.phase /\ q.stops = r.stops /\ q.start = r.start
        /\ q.oai = r.oai /\ q.sfu = r.sfu /\ q.sfuClosed = r.sfuClosed
        /\ q.pipe = r.pipe /\ q.pipeCancelled = r.pipeCancelled
        /\ q.speaker = "cancelled"
    BY <1>1 DEF SessionState
  <2>3. StopInv(q, k)
    BY <1>2, <2>1, <2>2
    DEF SessionInv, StopInv, BuiltTogether, PipelineBeforeSfu, ClosedByAStopper,
        PhaseOfTasks
  <2>4. SessionInv(StopRaises(q, k))
    BY <2>2, <2>3, StopRaisesInv
  <2> QED BY <1>2, <2>4 DEF StopResumes
<1>3. CASE r.stops[k] = "pipeline" /\ r.pipe = "crashed"
  <2>1. StopInv(r, k)
    BY <1>3
    DEF SessionInv, StopInv, ClosedByAStopper, PhaseOfTasks
  <2>2. SessionInv(StopRaises(r, k))
    BY <1>3, <2>1, StopRaisesInv
  <2> QED BY <1>3, <2>2 DEF StopResumes, AfterPipeline
<1>4. CASE r.stops[k] = "pipeline" /\ r.pipe # "crashed"
  <2> DEFINE q == [r EXCEPT !.pipe = "cancelled"]
  <2>1. q \in SessionState
    BY <1>1 DEF SessionState, PipeStates
  <2>2. /\ q.phase = r.phase /\ q.stops = r.stops /\ q.start = r.start
        /\ q.oai = r.oai /\ q.sfu = r.sfu /\ q.sfuClosed = r.sfuClosed
        /\ q.pipe = "cancelled" /\ q.pipeCancelled = r.pipeCancelled
        /\ q.speaker = r.speaker
    BY <1>1 DEF SessionState
  <2>3. StopInv(q, k) /\ q.pipeCancelled
    BY <1>4, <2>1, <2>2
    DEF SessionInv, StopInv, BuiltTogether, PipelineBeforeSfu, ClosedByAStopper,
        PhaseOfTasks
  <2>4. SessionInv(StopSfu(q, k))
    BY <2>2, <2>3, StopSfuInv
  <2> QED BY <1>4, <2>4 DEF StopResumes, AfterPipeline
<1>5. CASE r.stops[k] = "sfu"
  <2> DEFINE q == [r EXCEPT !.sfu = IF @ = "leaving" THEN "left" ELSE @]
  <2>1. q \in SessionState
    BY <1>1 DEF SessionState, SfuStates
  <2>2. /\ q.phase = r.phase /\ q.stops = r.stops /\ q.start = r.start
        /\ q.oai = r.oai /\ q.sfuClosed = r.sfuClosed
        /\ q.pipe = r.pipe /\ q.pipeCancelled = r.pipeCancelled
        /\ q.speaker = r.speaker /\ (q.sfu = "none" <=> r.sfu = "none")
    BY <1>1 DEF SessionState
  <2>3. StopInv(q, k)
    BY <1>5, <2>1, <2>2
    DEF SessionInv, StopInv, BuiltTogether, PipelineBeforeSfu, ClosedByAStopper,
        PhaseOfTasks
  <2>4. SessionInv(StopOpenAI(q, k))
    BY <2>3, StopOpenAIInv
  <2> QED BY <1>5, <2>4 DEF StopResumes
<1>6. CASE r.stops[k] = "openai"
  <2> DEFINE q == [r EXCEPT !.oai = "closed"]
  <2>1. q \in SessionState
    BY <1>1 DEF SessionState, OaiStates
  <2>2. /\ q.phase = r.phase /\ q.stops = r.stops /\ q.start = r.start
        /\ q.oai = "closed" /\ q.sfu = r.sfu /\ q.sfuClosed = r.sfuClosed
        /\ q.pipe = r.pipe /\ q.pipeCancelled = r.pipeCancelled
        /\ q.speaker = r.speaker
    BY <1>1 DEF SessionState
  <2>3. StopInv(q, k)
    BY <1>6, <2>1, <2>2
    DEF SessionInv, StopInv, BuiltTogether, PipelineBeforeSfu, ClosedByAStopper,
        PhaseOfTasks
  <2>4. SessionInv(StopRings(q, k))
    BY <2>2, <2>3, StopRingsInv
  <2> QED BY <1>6, <2>4 DEF StopResumes
<1>7. CASE r.stops[k] = "rings"
  <2>1. StopInv(r, k) /\ r.oai \in {"closing", "draining", "closed"}
    BY <1>7
    DEF SessionInv, StopInv, ClosedByAStopper, PhaseOfTasks
  <2>2. SessionInv(StopEnd(r, k))
    BY <2>1, StopEndInv
  <2> QED BY <1>7, <2>2 DEF StopResumes
<1> QED BY <1>1, <1>2, <1>3, <1>4, <1>5, <1>6, <1>7 DEF StopPoints

------------------------------------------------------------------------------
(* start() and the peers.                                                   *)

\* A step of start() or of a peer that leaves stop() alone.  It gives the
\* changed session q by its fields.
LEMMA StepInv ==
    ASSUME NEW r, NEW q \in SessionState, SessionInv(r),
           q.stops = r.stops, q.sfuClosed = r.sfuClosed,
           q.pipeCancelled = r.pipeCancelled,
           BuiltTogether(q),
           q.pipe = r.pipe \/ (Rendering(r) /\ q.pipe = "crashed")
               \/ (r.start \in NotWarm /\ (q.pipe = "running" => ~r.pipeCancelled)),
           q.speaker = r.speaker \/ (q.speaker = "running" /\ r.start \in NotWarm),
           \/ q.oai = r.oai
           \/ /\ q.oai \in {"connecting", "opening", "open", "dead"}
              /\ r.oai \in {"none", "connecting", "opening", "open"}
              /\ q.phase # "stopped",
           \/ q.phase = r.phase /\ q.start = r.start
           \/ q.phase = "ready" /\ q.start = "done" /\ r.start # "cleanup"
           \/ q.phase = r.phase /\ {r.start, q.start} \cap {"cleanup", "done"} = {}
           \/ /\ q.phase \notin {"failed", "stopping", "stopped"}
              /\ {r.start, q.start} \cap {"cleanup", "done"} = {}
    PROVE  SessionInv(q)
<1>1. r \in SessionState
  BY DEF SessionInv
<1>2. \A k \in Stoppers : r.stops[k] = "pipeline" => r.start \notin NotWarm
  BY DEF SessionInv, BuiltTogether, PipelineBeforeSfu, NotStarted, NotWarm
<1>3. \A k \in Stoppers : r.stops[k] = "speaker" => r.start \notin NotWarm
  BY DEF SessionInv, BuiltTogether, PipelineBeforeSfu
<1>4. PipelineBeforeSfu(q)
  BY <1>2, <1>3 DEF SessionInv, PipelineBeforeSfu, Rendering
<1>5. ClosedByAStopper(q)
  BY DEF SessionInv, ClosedByAStopper
<1>6. PhaseOfTasks(q)
  <2>1. q.phase = "stopping" =>
            Stopping(q) \/ q.pipe = "crashed" \/ q.speaker = "cancelled"
    BY DEF SessionInv, PhaseOfTasks, Stopping, BuiltTogether, NotStarted, NotWarm, Rendering
  <2> QED BY <2>1 DEF SessionInv, PhaseOfTasks
<1> QED BY <1>4, <1>5, <1>6 DEF SessionInv

LEMMA ConnectOpenAIInv ==
    ASSUME NEW r, SessionInv(r), r.start = "scheduled"
    PROVE  SessionInv(ConnectOpenAI(r))
<1> DEFINE q == ConnectOpenAI(r)
<1>1. q \in SessionState
  BY DEF ConnectOpenAI, SessionInv, SessionState, Phases, OaiStates, StartPoints
<1>2. /\ q.phase = "openai_connecting" /\ q.stops = r.stops /\ q.start = "oai_connect"
      /\ q.oai = "connecting" /\ q.sfu = r.sfu /\ q.sfuClosed = r.sfuClosed
      /\ q.pipe = r.pipe /\ q.pipeCancelled = r.pipeCancelled /\ q.speaker = r.speaker
  BY DEF ConnectOpenAI, SessionInv, SessionState
<1>3. BuiltTogether(q)
  BY <1>2 DEF SessionInv, BuiltTogether, NotStarted, NotWarm
<1> HIDE DEF q
<1>4. r.oai = "none"
  BY DEF SessionInv, BuiltTogether
<1>5. SessionInv(q)
  BY <1>1, <1>2, <1>3, <1>4, StepInv
<1> QED BY <1>5 DEF q

LEMMA AwaitChannelInv ==
    ASSUME NEW r, SessionInv(r), r.start = "oai_connect", r.oai = "connecting"
    PROVE  SessionInv(AwaitChannel(r))
<1> DEFINE q == AwaitChannel(r)
<1>1. q \in SessionState
  BY DEF AwaitChannel, SessionInv, SessionState, OaiStates, StartPoints
<1>2. /\ q.phase = r.phase /\ q.stops = r.stops /\ q.start = "oai_open"
      /\ q.oai = "opening" /\ q.sfu = r.sfu /\ q.sfuClosed = r.sfuClosed
      /\ q.pipe = r.pipe /\ q.pipeCancelled = r.pipeCancelled /\ q.speaker = r.speaker
  BY DEF AwaitChannel, SessionInv, SessionState
<1>3. BuiltTogether(q) /\ q.phase # "stopped"
  BY <1>2 DEF SessionInv, BuiltTogether, ClosedByAStopper, NotStarted, NotWarm
<1> HIDE DEF q
<1>4. SessionInv(q)
  BY <1>1, <1>2, <1>3, StepInv DEF NotWarm, NotStarted
<1> QED BY <1>4 DEF q

LEMMA LoadImageInv ==
    ASSUME NEW r, SessionInv(r), r.start = "oai_open"
    PROVE  SessionInv(LoadImage(r))
<1> DEFINE q == LoadImage(r)
<1>1. q \in SessionState
  BY DEF LoadImage, SessionInv, SessionState, Phases, StartPoints
<1>2. /\ q.phase = "model_loading" /\ q.stops = r.stops /\ q.start = "load_image"
      /\ q.oai = r.oai /\ q.sfu = r.sfu /\ q.sfuClosed = r.sfuClosed
      /\ q.pipe = r.pipe /\ q.pipeCancelled = r.pipeCancelled /\ q.speaker = r.speaker
  BY DEF LoadImage, SessionInv, SessionState
<1>3. BuiltTogether(q)
  BY <1>2 DEF SessionInv, BuiltTogether, NotStarted, NotWarm
<1> HIDE DEF q
<1>4. SessionInv(q)
  BY <1>1, <1>2, <1>3, StepInv DEF NotWarm, NotStarted
<1> QED BY <1>4 DEF q

LEMMA BuildAndJoinInv ==
    ASSUME NEW r, SessionInv(r), r.start \in {"oai_open", "load_image"}
    PROVE  SessionInv(BuildAndJoin(r))
<1> DEFINE q == BuildAndJoin(r)
<1>1. q \in SessionState
  BY ZenonT(60) DEF BuildAndJoin, SessionInv, SessionState, Phases, PipeStates, SfuStates, StartPoints
<1>2. /\ q.phase = "sfu_connecting" /\ q.stops = r.stops /\ q.start = "sfu_join"
      /\ q.oai = r.oai /\ q.sfu = "joining" /\ q.sfuClosed = r.sfuClosed
      /\ q.pipe = "built" /\ q.pipeCancelled = r.pipeCancelled /\ q.speaker = r.speaker
  BY DEF BuildAndJoin, SessionInv, SessionState
<1>3. BuiltTogether(q)
  BY <1>2 DEF SessionInv, BuiltTogether, NotStarted, NotWarm
<1> HIDE DEF q
<1>4. SessionInv(q)
  BY <1>1, <1>2, <1>3, StepInv DEF NotWarm, NotStarted
<1> QED BY <1>4 DEF q

LEMMA PublishTracksInv ==
    ASSUME NEW r, SessionInv(r), r.start = "sfu_join"
    PROVE  SessionInv(PublishTracks(r))
<1> DEFINE q == PublishTracks(r)
<1>1. q \in SessionState
  BY DEF PublishTracks, SessionInv, SessionState, SfuStates, StartPoints
<1>2. /\ q.phase = r.phase /\ q.stops = r.stops /\ q.start = "sfu_publish"
      /\ q.oai = r.oai /\ q.sfu = "joined" /\ q.sfuClosed = r.sfuClosed
      /\ q.pipe = r.pipe /\ q.pipeCancelled = r.pipeCancelled /\ q.speaker = r.speaker
  BY DEF PublishTracks, SessionInv, SessionState
<1>3. BuiltTogether(q)
  BY <1>2 DEF SessionInv, BuiltTogether, NotStarted, NotWarm
<1> HIDE DEF q
<1>4. SessionInv(q)
  BY <1>1, <1>2, <1>3, StepInv DEF NotWarm, NotStarted
<1> QED BY <1>4 DEF q

LEMMA WarmUpInv ==
    ASSUME NEW r, SessionInv(r), r.start = "sfu_publish", NEW b \in BOOLEAN
    PROVE  SessionInv(WarmUp(r, b))
<1> DEFINE q == WarmUp(r, b)
<1>1. q \in SessionState
  BY DEF WarmUp, SessionInv, SessionState, Phases, PipeStates, SpeakerStates, StartPoints
<1>2. /\ q.phase = "warming_up" /\ q.stops = r.stops /\ q.start = "first_frame"
      /\ q.oai = r.oai /\ q.sfu = r.sfu /\ q.sfuClosed = r.sfuClosed
      /\ q.pipe \in {"running", "ended"} /\ (q.pipe = "running" => ~r.pipeCancelled)
      /\ q.pipeCancelled = r.pipeCancelled /\ q.speaker \in {"running", r.speaker}
  BY DEF WarmUp, SessionInv, SessionState
<1>3. BuiltTogether(q)
  BY <1>2 DEF SessionInv, BuiltTogether, NotStarted, NotWarm
<1> HIDE DEF q
<1>4. SessionInv(q)
  BY <1>1, <1>2, <1>3, StepInv DEF NotWarm, NotStarted
<1> QED BY <1>4 DEF q

LEMMA BecomeReadyInv ==
    ASSUME NEW r, SessionInv(r), r.start = "first_frame"
    PROVE  SessionInv(BecomeReady(r))
<1> DEFINE q == [r EXCEPT !.phase = "ready", !.start = "done"]
<1>1. q \in SessionState
  BY DEF SessionInv, SessionState, Phases, StartPoints
<1>2. /\ q.phase = "ready" /\ q.stops = r.stops /\ q.start = "done"
      /\ q.oai = r.oai /\ q.sfu = r.sfu /\ q.sfuClosed = r.sfuClosed
      /\ q.pipe = r.pipe /\ q.pipeCancelled = r.pipeCancelled /\ q.speaker = r.speaker
  BY DEF SessionInv, SessionState
<1>3. BuiltTogether(q)
  BY <1>2 DEF SessionInv, BuiltTogether, NotStarted, NotWarm
<1> HIDE DEF q
<1>4. SessionInv(q)
  BY <1>1, <1>2, <1>3, StepInv
<1> QED BY <1>4, EmitInv DEF BecomeReady, Events, q

\* Where the constructor of the SFU peer raises, the pipeline is built already.
FailsWith(r, b) ==
    \/ r.start \in StartAwaits /\ b = r
    \/ r.start \in {"oai_open", "load_image"} /\ b = [r EXCEPT !.pipe = "built"]

\* The handler of start() calls stop() on a session whose stopper "starter" is
\* idle, and parks or ends like every other caller.
LEMMA StartFailsInv ==
    ASSUME NEW r, SessionInv(r), NEW b, FailsWith(r, b)
    PROVE  SessionInv(StartFails(b))
<1> DEFINE q == [b EXCEPT !.phase = "failed", !.lastError = TRUE,
                          !.start = "cleanup",
                          !.sfu = IF @ = "joining" THEN "unjoined" ELSE @]
           e == Emit(q, "error")
           f == [e EXCEPT !.phase = "stopping"]
<1>1. /\ b \in SessionState
      /\ b.stops = r.stops /\ b.oai = r.oai /\ b.sfu = r.sfu /\ b.sfuClosed = r.sfuClosed
      /\ b.pipe = r.pipe \/ (b.pipe = "built" /\ r.pipe = "none")
      /\ b.pipeCancelled = r.pipeCancelled /\ b.speaker = r.speaker
      /\ r.start \in StartAwaits
  BY DEF FailsWith, SessionInv, BuiltTogether, NotStarted, SessionState, PipeStates, StartAwaits
<1>2. q \in SessionState
  BY <1>1 DEF SessionState, Phases, SfuStates, StartPoints
<1>3. /\ q.stops = r.stops /\ q.start = "cleanup"
      /\ q.oai = r.oai /\ (q.sfu = "none" <=> r.sfu = "none")
      /\ q.sfuClosed = r.sfuClosed /\ q.pipe = b.pipe
      /\ q.pipeCancelled = r.pipeCancelled /\ q.speaker = r.speaker
  BY <1>1 DEF SessionState
<1> HIDE DEF q
<1>4. e \in SessionState
  BY <1>2, EmitType DEF Events
<1>5. /\ e.stops = r.stops /\ e.start = "cleanup"
      /\ e.oai = r.oai /\ (e.sfu = "none" <=> r.sfu = "none")
      /\ e.sfuClosed = r.sfuClosed /\ e.pipe = b.pipe
      /\ e.pipeCancelled = r.pipeCancelled /\ e.speaker = r.speaker
  BY <1>2, <1>3, EmitFields
<1> HIDE DEF e
<1>6. f \in SessionState
  BY <1>4 DEF SessionState, Phases
<1>7. /\ f.phase = "stopping" /\ f.stops = r.stops /\ f.start = "cleanup"
      /\ f.oai = r.oai /\ (f.sfu = "none" <=> r.sfu = "none")
      /\ f.sfuClosed = r.sfuClosed /\ f.pipe = b.pipe
      /\ f.pipeCancelled = r.pipeCancelled /\ f.speaker = r.speaker
  BY <1>4, <1>5 DEF SessionState
<1> HIDE DEF f
<1>8. r.stops["starter"] = "idle" /\ "starter" \in Stoppers
  BY <1>1 DEF SessionInv, PhaseOfTasks, StartAwaits, Stoppers
<1>9. StopInv(f, "starter")
  <2>1. BuiltTogether(f)
    BY <1>1, <1>7 DEF SessionInv, BuiltTogether, NotStarted, NotWarm, StartAwaits
  <2>2. PipelineBeforeSfu(f)
    BY <1>1, <1>7 DEF SessionInv, PipelineBeforeSfu
  <2>3. f.oai \in {"closing", "draining"} =>
            \E l \in Stoppers \ {"starter"} : f.stops[l] = "openai"
    BY <1>7, <1>8 DEF SessionInv, ClosedByAStopper
  <2>4. \A l \in Stoppers :
            f.stops[l] \in {"openai", "rings"} => f.oai \in {"closing", "draining", "closed"}
    BY <1>7 DEF SessionInv, ClosedByAStopper
  <2> QED BY <1>6, <1>7, <2>1, <2>2, <2>3, <2>4 DEF StopInv
<1> QED BY <1>8, <1>9, StopSpeakerInv DEF StartFails, Stop, f, e, q

\* The peers and the GPU change one field of the session.
LEMMA OaiEventInv ==
    ASSUME NEW r, SessionInv(r), NEW o \in {"open", "dead"}, r.oai \in {"opening", "open"}
    PROVE  SessionInv([r EXCEPT !.oai = o])
<1> DEFINE q == [r EXCEPT !.oai = o]
<1>1. q \in SessionState
  BY DEF SessionInv, SessionState, OaiStates
<1>2. /\ q.phase = r.phase /\ q.stops = r.stops /\ q.start = r.start
      /\ q.oai = o /\ q.sfu = r.sfu /\ q.sfuClosed = r.sfuClosed
      /\ q.pipe = r.pipe /\ q.pipeCancelled = r.pipeCancelled /\ q.speaker = r.speaker
  BY DEF SessionInv, SessionState
<1>3. BuiltTogether(q) /\ q.phase # "stopped"
  BY <1>2 DEF SessionInv, BuiltTogether, ClosedByAStopper
<1> HIDE DEF q
<1>4. SessionInv(q)
  BY <1>1, <1>2, <1>3, StepInv
<1> QED BY <1>4 DEF q

LEMMA SfuEventInv ==
    ASSUME NEW r, SessionInv(r), r.sfu = "joined"
    PROVE  SessionInv([r EXCEPT !.sfu = "lost"])
<1> DEFINE q == [r EXCEPT !.sfu = "lost"]
<1>1. q \in SessionState
  BY DEF SessionInv, SessionState, SfuStates
<1>2. /\ q.phase = r.phase /\ q.stops = r.stops /\ q.start = r.start
      /\ q.oai = r.oai /\ q.sfu = "lost" /\ q.sfuClosed = r.sfuClosed
      /\ q.pipe = r.pipe /\ q.pipeCancelled = r.pipeCancelled /\ q.speaker = r.speaker
  BY DEF SessionInv, SessionState
<1>3. BuiltTogether(q)
  BY <1>2 DEF SessionInv, BuiltTogether
<1> HIDE DEF q
<1>4. SessionInv(q)
  BY <1>1, <1>2, <1>3, StepInv
<1> QED BY <1>4 DEF q

LEMMA PipeEventInv ==
    ASSUME NEW r, SessionInv(r), Rendering(r)
    PROVE  /\ SessionInv([r EXCEPT !.firstFrame = TRUE])
           /\ SessionInv([r EXCEPT !.pipe = "crashed"])
<1>1. SessionInv([r EXCEPT !.firstFrame = TRUE])
  <2> DEFINE q == [r EXCEPT !.firstFrame = TRUE]
  <2>1. q \in SessionState
    BY DEF SessionInv, SessionState
  <2>2. /\ q.phase = r.phase /\ q.stops = r.stops /\ q.start = r.start
        /\ q.oai = r.oai /\ q.sfu = r.sfu /\ q.sfuClosed = r.sfuClosed
        /\ q.pipe = r.pipe /\ q.pipeCancelled = r.pipeCancelled /\ q.speaker = r.speaker
    BY DEF SessionInv, SessionState
  <2>3. BuiltTogether(q)
    BY <2>2 DEF SessionInv, BuiltTogether
  <2> HIDE DEF q
  <2>4. SessionInv(q)
    BY <2>1, <2>2, <2>3, StepInv
  <2> QED BY <2>4 DEF q
<1>2. SessionInv([r EXCEPT !.pipe = "crashed"])
  <2> DEFINE q == [r EXCEPT !.pipe = "crashed"]
  <2>1. q \in SessionState
    BY DEF SessionInv, SessionState, PipeStates
  <2>2. /\ q.phase = r.phase /\ q.stops = r.stops /\ q.start = r.start
        /\ q.oai = r.oai /\ q.sfu = r.sfu /\ q.sfuClosed = r.sfuClosed
        /\ q.pipe = "crashed" /\ q.pipeCancelled = r.pipeCancelled
        /\ q.speaker = r.speaker
    BY DEF SessionInv, SessionState
  <2>3. BuiltTogether(q)
    BY <2>2 DEF SessionInv, BuiltTogether, NotStarted, NotWarm, Rendering
  <2> HIDE DEF q
  <2>4. SessionInv(q)
    BY <2>1, <2>2, <2>3, StepInv
  <2> QED BY <2>4 DEF q
<1> QED BY <1>1, <1>2

LEMMA NewSessionInv ==
    ASSUME NEW b \in BOOLEAN
    PROVE  SessionInv(NewSession(b))
<1> DEFINE q == NewSession(b)
<1>1. q \in SessionState
  <2>1. << >> \in Seq(Events)
    OBVIOUS
  <2> QED BY <2>1 DEF NewSession, SessionState, Phases, StartPoints, StopPoints, OaiStates,
                      SfuStates, PipeStates, SpeakerStates
<1>2. /\ q.phase = "initializing" /\ q.start = "unborn"
      /\ q.stops = [k \in Stoppers |-> "idle"]
      /\ q.oai = "none" /\ q.sfu = "none" /\ q.sfuClosed = FALSE
      /\ q.pipe = "none" /\ q.pipeCancelled = FALSE /\ q.speaker = "none"
  BY DEF NewSession
<1>3. "starter" \in Stoppers
  BY DEF Stoppers
<1> HIDE DEF q
<1>4. SessionInv(q)
  BY <1>1, <1>2, <1>3
  DEF SessionInv, BuiltTogether, PipelineBeforeSfu, ClosedByAStopper, PhaseOfTasks,
      NotStarted, NotWarm
<1> QED BY <1>4 DEF q

LEMMA ScheduleInv ==
    ASSUME NEW r, SessionInv(r), r.start = "unborn"
    PROVE  SessionInv([r EXCEPT !.start = "scheduled"])
<1> DEFINE q == [r EXCEPT !.start = "scheduled"]
<1>1. q \in SessionState
  BY DEF SessionInv, SessionState, StartPoints
<1>2. /\ q.phase = r.phase /\ q.stops = r.stops /\ q.start = "scheduled"
      /\ q.oai = r.oai /\ q.sfu = r.sfu /\ q.sfuClosed = r.sfuClosed
      /\ q.pipe = r.pipe /\ q.pipeCancelled = r.pipeCancelled /\ q.speaker = r.speaker
  BY DEF SessionInv, SessionState
<1>3. BuiltTogether(q)
  BY <1>2 DEF SessionInv, BuiltTogether, NotStarted, NotWarm
<1> HIDE DEF q
<1>4. SessionInv(q)
  BY <1>1, <1>2, <1>3, StepInv
<1> QED BY <1>4 DEF q

------------------------------------------------------------------------------
(* What a call of stop() does, told by the fields that others look at.      *)

\* From r to q the stopper k moves nobody but itself, and start() only to its end; it
\* appends `stopped` to what has been sent if it ends the session, and nothing if it does
\* not; and a connection that was begun is not forgotten.
Moves(r, q, k) ==
    /\ \E p \in StopPoints : q.stops = [r.stops EXCEPT ![k] = p]
    /\ q.start = r.start \/ (k = "starter" /\ q.start = "done")
    /\ q.oai = "none" => r.oai = "none"
    /\ \/ q.phase \in {r.phase, "stopping"} /\ q.sent = r.sent
       \/ q.phase = "stopped" /\ q.sent = Append(r.sent, "stopped")

\* A record on the way from r, when no stopper has moved and nothing is sent yet.
OnTheWay(r, f) ==
    /\ f \in SessionState
    /\ f.stops = r.stops /\ f.start = r.start /\ f.sent = r.sent
    /\ f.phase \in {r.phase, "stopping"}
    /\ f.oai = "none" => r.oai = "none"

LEMMA MovesOnTheWay ==
    ASSUME NEW r, NEW f, OnTheWay(r, f), NEW k \in Stoppers, NEW q, Moves(f, q, k)
    PROVE  Moves(r, q, k)
  BY DEF OnTheWay, Moves

LEMMA StopEndMoves ==
    ASSUME NEW r \in SessionState, NEW k \in Stoppers
    PROVE  Moves(r, StopEnd(r, k), k)
<1> DEFINE q == [r EXCEPT !.phase = "stopped", !.stops[k] = "idle",
                   !.start = IF k = "starter" THEN "done" ELSE @]
           e == Emit(q, "stopped")
<1>1. q \in SessionState
  BY DEF SessionState, Phases, StopPoints, StartPoints
<1>2. /\ q.stops = [r.stops EXCEPT ![k] = "idle"] /\ q.phase = "stopped"
      /\ q.start = r.start \/ (k = "starter" /\ q.start = "done")
      /\ q.oai = r.oai /\ q.sent = r.sent
  BY DEF SessionState
<1> HIDE DEF q
<1>3. e.stops = q.stops /\ e.start = q.start /\ e.phase = q.phase /\ e.oai = q.oai
  BY <1>1, EmitFields
<1>4. e.sent = Append(q.sent, "stopped")
  BY <1>1 DEF Emit, SessionState
<1> HIDE DEF e
<1>5. Moves(r, e, k)
  BY <1>2, <1>3, <1>4 DEF Moves, StopPoints
<1> QED BY <1>5 DEF StopEnd, e, q

LEMMA StopRaisesMoves ==
    ASSUME NEW r \in SessionState, NEW k \in Stoppers
    PROVE  Moves(r, StopRaises(r, k), k)
  BY DEF StopRaises, Moves, StopPoints, SessionState

LEMMA ParkMoves ==
    ASSUME NEW r \in SessionState, NEW k \in Stoppers, NEW p \in StopPoints
    PROVE  Moves(r, Park(r, k, p), k)
  BY DEF Park, Moves, SessionState

LEMMA StopRingsMoves ==
    ASSUME NEW r \in SessionState, NEW k \in Stoppers
    PROVE  Moves(r, StopRings(r, k), k)
  BY ParkMoves, StopEndMoves DEF StopRings, StopPoints

LEMMA StopOpenAIMoves ==
    ASSUME NEW r \in SessionState, NEW k \in Stoppers
    PROVE  Moves(r, StopOpenAI(r, k), k)
<1> DEFINE f == [r EXCEPT !.oai = IF @ = "open" THEN "draining" ELSE "closing"]
<1>1. OnTheWay(r, f)
  BY DEF OnTheWay, SessionState, OaiStates
<1> HIDE DEF f
<1>2. Moves(r, Park(f, k, "openai"), k)
  BY <1>1, ParkMoves, MovesOnTheWay DEF OnTheWay, StopPoints
<1> QED BY <1>2, StopRingsMoves DEF StopOpenAI, f

LEMMA StopSfuMoves ==
    ASSUME NEW r \in SessionState, NEW k \in Stoppers
    PROVE  Moves(r, StopSfu(r, k), k)
<1> DEFINE f == [r EXCEPT !.sfuClosed = TRUE,
                          !.sfu = IF @ \in Leavable(r) THEN "leaving" ELSE @]
<1>1. OnTheWay(r, f)
  BY DEF OnTheWay, SessionState, SfuStates
<1> HIDE DEF f
<1>2. Moves(r, Park(f, k, "sfu"), k)
  BY <1>1, ParkMoves, MovesOnTheWay DEF OnTheWay, StopPoints
<1> QED BY <1>2, StopOpenAIMoves DEF StopSfu, f

LEMMA StopPipelineMoves ==
    ASSUME NEW r \in SessionState, NEW k \in Stoppers
    PROVE  Moves(r, StopPipeline(r, k), k)
<1> DEFINE f == [r EXCEPT !.pipeCancelled = (@ \/ r.pipe # "none")]
           g == [f EXCEPT !.pipe = "cancelling"]
<1>1. OnTheWay(r, f)
  BY DEF OnTheWay, SessionState
<1> HIDE DEF f
<1>2. OnTheWay(r, g)
  BY <1>1 DEF OnTheWay, SessionState, PipeStates
<1> HIDE DEF g
<1>3. Moves(r, StopRaises(f, k), k)
  BY <1>1, StopRaisesMoves, MovesOnTheWay DEF OnTheWay
<1>4. Moves(r, StopSfu(f, k), k)
  BY <1>1, StopSfuMoves, MovesOnTheWay DEF OnTheWay
<1>5. Moves(r, Park(g, k, "pipeline"), k)
  BY <1>2, ParkMoves, MovesOnTheWay DEF OnTheWay, StopPoints
<1> QED BY <1>3, <1>4, <1>5 DEF StopPipeline, f, g

LEMMA StopMoves ==
    ASSUME NEW r \in SessionState, NEW k \in Stoppers
    PROVE  Moves(r, Stop(r, k), k)
<1> DEFINE f == [r EXCEPT !.phase = "stopping"]
           g == [f EXCEPT !.speaker = "cancelling"]
<1>1. OnTheWay(r, f)
  BY DEF OnTheWay, SessionState, Phases
<1> HIDE DEF f
<1>2. OnTheWay(r, g)
  BY <1>1 DEF OnTheWay, SessionState, SpeakerStates
<1> HIDE DEF g
<1>3. Moves(r, StopRaises(f, k), k)
  BY <1>1, StopRaisesMoves, MovesOnTheWay DEF OnTheWay
<1>4. Moves(r, StopPipeline(f, k), k)
  BY <1>1, StopPipelineMoves, MovesOnTheWay DEF OnTheWay
<1>5. Moves(r, Park(g, k, "speaker"), k)
  BY <1>2, ParkMoves, MovesOnTheWay DEF OnTheWay, StopPoints
<1> QED BY <1>3, <1>4, <1>5 DEF Stop, StopSpeaker, f, g

LEMMA StopResumesMoves ==
    ASSUME NEW r \in SessionState, NEW k \in Stoppers
    PROVE  Moves(r, StopResumes(r, k), k)
<1> DEFINE a == [r EXCEPT !.speaker = "cancelled"]
           b == [r EXCEPT !.pipe = "cancelled"]
           c == [r EXCEPT !.sfu = IF @ = "leaving" THEN "left" ELSE @]
           d == [r EXCEPT !.oai = "closed"]
<1>1. OnTheWay(r, a) /\ OnTheWay(r, b) /\ OnTheWay(r, c) /\ OnTheWay(r, d)
  <2>1. OnTheWay(r, a) /\ OnTheWay(r, b)
    BY DEF OnTheWay, SessionState, SpeakerStates, PipeStates
  <2>2. OnTheWay(r, c) /\ OnTheWay(r, d)
    BY DEF OnTheWay, SessionState, SfuStates, OaiStates
  <2> QED BY <2>1, <2>2
<1> HIDE DEF a, b, c, d
<1>2. Moves(r, StopRaises(a, k), k)
  BY <1>1, StopRaisesMoves, MovesOnTheWay DEF OnTheWay
<1>3. Moves(r, StopSfu(b, k), k)
  BY <1>1, StopSfuMoves, MovesOnTheWay DEF OnTheWay
<1>4. Moves(r, StopOpenAI(c, k), k)
  BY <1>1, StopOpenAIMoves, MovesOnTheWay DEF OnTheWay
<1>5. Moves(r, StopRings(d, k), k)
  BY <1>1, StopRingsMoves, MovesOnTheWay DEF OnTheWay
<1>6. Moves(r, StopRaises(r, k), k) /\ Moves(r, StopEnd(r, k), k)
  BY StopRaisesMoves, StopEndMoves
<1> QED BY <1>2, <1>3, <1>4, <1>5, <1>6 DEF StopResumes, AfterPipeline, a, b, c, d

\* What the handler of start() does before it calls stop().
Failed(r) ==
    Emit([r EXCEPT !.phase = "failed", !.lastError = TRUE, !.start = "cleanup",
                   !.sfu = IF @ = "joining" THEN "unjoined" ELSE @], "error")

LEMMA FailedFields ==
    ASSUME NEW r \in SessionState
    PROVE  /\ Failed(r) \in SessionState
           /\ Failed(r).phase = "failed" /\ Failed(r).start = "cleanup"
           /\ Failed(r).stops = r.stops /\ Failed(r).oai = r.oai
           /\ Failed(r).sfu = (IF r.sfu = "joining" THEN "unjoined" ELSE r.sfu)
           /\ Failed(r).sfuClosed = r.sfuClosed /\ Failed(r).legacySfu = r.legacySfu
           /\ Failed(r).joinedLate = r.joinedLate
           /\ Failed(r).pipe = r.pipe /\ Failed(r).pipeCancelled = r.pipeCancelled
           /\ Failed(r).speaker = r.speaker
           /\ Failed(r).sent = Append(r.sent, "error")
           /\ StartFails(r) = Stop(Failed(r), "starter")
<1> DEFINE q == [r EXCEPT !.phase = "failed", !.lastError = TRUE, !.start = "cleanup",
                          !.sfu = IF @ = "joining" THEN "unjoined" ELSE @]
<1>1. q \in SessionState
  BY DEF SessionState, Phases, SfuStates, StartPoints
<1>2. /\ q.phase = "failed" /\ q.start = "cleanup" /\ q.stops = r.stops /\ q.oai = r.oai
      /\ q.sfu = (IF r.sfu = "joining" THEN "unjoined" ELSE r.sfu)
      /\ q.sfuClosed = r.sfuClosed /\ q.legacySfu = r.legacySfu
      /\ q.joinedLate = r.joinedLate
      /\ q.pipe = r.pipe /\ q.pipeCancelled = r.pipeCancelled
      /\ q.speaker = r.speaker /\ q.sent = r.sent
  BY DEF SessionState
<1>3. StartFails(r) = Stop(Emit(q, "error"), "starter")
  BY DEF StartFails
<1> HIDE DEF q
<1>4. Emit(q, "error") \in SessionState
  BY <1>1, EmitType DEF Events
<1>5. /\ Emit(q, "error").sent = Append(r.sent, "error")
      /\ Emit(q, "error").legacySfu = r.legacySfu
      /\ Emit(q, "error").joinedLate = r.joinedLate
  BY <1>1, <1>2 DEF Emit, SessionState
<1>6. Failed(r) = Emit(q, "error")
  BY DEF Failed, q
<1>7. /\ Emit(q, "error").phase = q.phase /\ Emit(q, "error").start = q.start
      /\ Emit(q, "error").stops = q.stops /\ Emit(q, "error").oai = q.oai
      /\ Emit(q, "error").sfu = q.sfu /\ Emit(q, "error").sfuClosed = q.sfuClosed
      /\ Emit(q, "error").pipe = q.pipe /\ Emit(q, "error").pipeCancelled = q.pipeCancelled
      /\ Emit(q, "error").speaker = q.speaker
  BY <1>1, EmitFields
<1> QED BY <1>2, <1>3, <1>4, <1>5, <1>6, <1>7

LEMMA StartFailsMoves ==
    ASSUME NEW r \in SessionState
    PROVE  Moves(Failed(r), StartFails(r), "starter")
  BY FailedFields, StopMoves DEF Stoppers
------------------------------------------------------------------------------
(* Every step of a session, whoever makes it, but for the POST.             *)

StopperMoves(r, q) ==
    \/ \E k \in Stoppers \ {"starter"} :
            r.stops[k] = "idle" /\ ~StopReturnsAtOnce(r) /\ q = Stop(r, k)
    \/ \E k \in Stoppers : r.stops[k] # "idle" /\ q = StopResumes(r, k)

StartMoves(r, q) ==
    \/ r.start = "scheduled" /\ q = ConnectOpenAI(r)
    \/ r.start = "oai_connect" /\ q = AwaitChannel(r)
    \/ r.start = "oai_open" /\ q = LoadImage(r)
    \/ r.start \in {"oai_open", "load_image"} /\ q = BuildAndJoin(r)
    \/ r.start = "sfu_join" /\ r.sfu = "joining" /\ q = PublishTracks(r)
    \/ r.start = "sfu_publish" /\ \E b \in BOOLEAN : q = WarmUp(r, b)
    \/ r.start = "first_frame" /\ q = BecomeReady(r)
    \/ \E b : FailsWith(r, b) /\ q = StartFails(b)

PeerMoves(r, q) ==
    \/ r.oai \in {"opening", "open"} /\ \E o \in {"open", "dead"} : q = [r EXCEPT !.oai = o]
    \/ r.sfu = "joined" /\ q = [r EXCEPT !.sfu = "lost"]
    \/ Rendering(r) /\ q = [r EXCEPT !.firstFrame = TRUE]
    \/ Rendering(r) /\ q = [r EXCEPT !.pipe = "crashed"]

SessionStep(r, q) == q = r \/ StopperMoves(r, q) \/ StartMoves(r, q) \/ PeerMoves(r, q)

------------------------------------------------------------------------------
(* What the gateway has been told.                                          *)

ToldStopped(r) == \E i \in DOMAIN r.sent : r.sent[i] = "stopped"

\* No session is stopped in secret.
Told(r) == r.phase = "stopped" => ToldStopped(r)

\* What was sent stays sent.
LEMMA SendingMore ==
    ASSUME NEW sent \in Seq(Events), NEW e \in Events
    PROVE  /\ \A i \in DOMAIN sent : i \in DOMAIN Append(sent, e) /\ Append(sent, e)[i] = sent[i]
           /\ \E i \in DOMAIN Append(sent, e) : Append(sent, e)[i] = e
<1>1. /\ Len(sent) + 1 \in DOMAIN Append(sent, e)
      /\ Append(sent, e)[Len(sent) + 1] = e
  OBVIOUS
<1> QED BY <1>1

LEMMA SendingTold ==
    ASSUME NEW r \in SessionState, Told(r), NEW q, NEW e \in Events,
           q.sent = Append(r.sent, e), q.phase = "stopped" => e = "stopped"
    PROVE  Told(q) /\ (ToldStopped(r) => ToldStopped(q))
<1>1. r.sent \in Seq(Events)
  BY DEF SessionState
<1> QED BY <1>1, SendingMore DEF Told, ToldStopped

LEMMA QuietTold ==
    ASSUME NEW r, Told(r), NEW q, q.sent = r.sent,
           q.phase = "stopped" => r.phase = "stopped"
    PROVE  Told(q) /\ (ToldStopped(r) => ToldStopped(q))
  BY DEF Told, ToldStopped

\* stop() says so when it ends the session.
LEMMA MovesTold ==
    ASSUME NEW r \in SessionState, Told(r), NEW k \in Stoppers, NEW q, Moves(r, q, k)
    PROVE  Told(q) /\ (ToldStopped(r) => ToldStopped(q))
<1>1. CASE q.phase \in {r.phase, "stopping"} /\ q.sent = r.sent
  BY <1>1, QuietTold
<1>2. CASE q.phase = "stopped" /\ q.sent = Append(r.sent, "stopped")
  BY <1>2, SendingTold DEF Events
<1> QED BY <1>1, <1>2 DEF Moves

LEMMA StepTold ==
    ASSUME NEW r, SessionInv(r), Told(r), NEW q, SessionStep(r, q)
    PROVE  /\ Told(q)
           /\ ToldStopped(r) => ToldStopped(q)
           /\ r.start = "unborn" => q.start = "unborn"
<1>1. r \in SessionState
  BY DEF SessionInv
<1>2. CASE StopperMoves(r, q)
  <2>1. PICK k \in Stoppers : Moves(r, q, k) /\ (k = "starter" => r.start = "cleanup")
    BY <1>1, <1>2, StopMoves, StopResumesMoves DEF StopperMoves, SessionInv, PhaseOfTasks
  <2> QED BY <1>1, <2>1, MovesTold DEF Moves
<1>3. CASE StartMoves(r, q)
  <2>1. CASE r.start = "first_frame" /\ q = BecomeReady(r)
    <3>1. q.sent = Append(r.sent, "avatar_ready") /\ q.phase = "ready"
      BY <1>1, <2>1 DEF BecomeReady, Emit, SessionState
    <3> QED BY <1>1, <2>1, <3>1, SendingTold DEF Events
  <2>2. ASSUME NEW b, FailsWith(r, b), q = StartFails(b)
        PROVE  Told(q) /\ (ToldStopped(r) => ToldStopped(q)) /\ r.start # "unborn"
    <3> DEFINE f == Failed(b)
    <3>1. b \in SessionState /\ b.sent = r.sent /\ r.start # "unborn"
      BY <1>1, <2>2 DEF FailsWith, StartAwaits, SessionState, PipeStates
    <3>2. f \in SessionState /\ f.sent = Append(r.sent, "error") /\ f.phase = "failed"
      BY <3>1, FailedFields
    <3>3. Moves(f, q, "starter") /\ "starter" \in Stoppers
      BY <2>2, <3>1, StartFailsMoves DEF Stoppers
    <3> HIDE DEF f
    <3>4. Told(f) /\ (ToldStopped(r) => ToldStopped(f))
      BY <1>1, <3>2, SendingTold DEF Events
    <3>5. Told(q) /\ (ToldStopped(f) => ToldStopped(q))
      BY <3>2, <3>3, <3>4, MovesTold
    <3> QED BY <3>1, <3>4, <3>5
  <2>3. CASE /\ ~(r.start = "first_frame" /\ q = BecomeReady(r))
             /\ ~\E b : FailsWith(r, b) /\ q = StartFails(b)
    <3>1. /\ q.sent = r.sent /\ r.start # "unborn"
          /\ q.phase = "stopped" => r.phase = "stopped"
      BY <1>1, <1>3, <2>3, ZenonT(60)
      DEF StartMoves, ConnectOpenAI, AwaitChannel, LoadImage, BuildAndJoin, PublishTracks,
          WarmUp, SessionState
    <3> QED BY <3>1, QuietTold
  <2> QED BY <2>1, <2>2, <2>3
<1>4. CASE PeerMoves(r, q)
  <2>1. q.sent = r.sent /\ q.start = r.start /\ q.phase = r.phase
    BY <1>1, <1>4 DEF PeerMoves, SessionState
  <2> QED BY <2>1, QuietTold
<1> QED BY <1>2, <1>3, <1>4 DEF SessionStep

------------------------------------------------------------------------------
(* How far the stoppers have come with the call.                            *)

\* Only a stopper leaves the call, and it stays with it until the call is left.  A
\* StreamSfuPeer that was closed has left or is leaving.  Whoever tells the pipeline to
\* stop goes on to close the SFU peer, unless there is none or the pipeline has crashed.
SfuOfStops(r) ==
    /\ r.pipeCancelled => r.pipe # "none"
    /\ r.legacySfu /\ r.sfuClosed => r.sfu \in {"leaving", "left"}
    /\ r.sfu = "leaving" => \E k \in Stoppers : r.stops[k] = "sfu"
    /\ r.sfuClosed /\ r.sfu \in {"joined", "lost"} => r.joinedLate
    /\ r.pipeCancelled /\ ~r.sfuClosed =>
            \/ r.pipe = "crashed" \/ r.sfu = "none"
            \/ \E k \in Stoppers : r.stops[k] = "pipeline"

\* What the stopper k may rely on between two stages, whatever it is parked on still.
SfuBetween(r, k) ==
    /\ r \in SessionState
    /\ r.pipeCancelled => r.pipe # "none"
    /\ r.legacySfu /\ r.sfuClosed => r.sfu \in {"leaving", "left"}
    /\ r.sfu = "leaving" => \E l \in Stoppers \ {k} : r.stops[l] = "sfu"
    /\ r.sfuClosed /\ r.sfu \in {"joined", "lost"} => r.joinedLate

\* The pipeline was told to stop by somebody else, who goes on to the SFU peer.
OthersGoOn(r, k) ==
    r.pipeCancelled /\ ~r.sfuClosed =>
        \/ r.pipe = "crashed" \/ r.sfu = "none"
        \/ \E l \in Stoppers \ {k} : r.stops[l] = "pipeline"

SameSfu(r, q) ==
    /\ q.pipe = r.pipe /\ q.pipeCancelled = r.pipeCancelled
    /\ q.legacySfu = r.legacySfu /\ q.sfu = r.sfu /\ q.sfuClosed = r.sfuClosed
    /\ q.joinedLate = r.joinedLate

LEMMA SfuGoesOn ==
    ASSUME NEW r, NEW k \in Stoppers, SfuBetween(r, k), OthersGoOn(r, k), NEW q,
           SameSfu(r, q), \A l \in Stoppers \ {k} : q.stops[l] = r.stops[l]
    PROVE  SfuOfStops(q)
  BY DEF SfuBetween, OthersGoOn, SameSfu, SfuOfStops

LEMMA StopEndSfu ==
    ASSUME NEW r, NEW k \in Stoppers, SfuBetween(r, k), OthersGoOn(r, k)
    PROVE  /\ SfuOfStops(StopEnd(r, k))
           /\ SfuOfStops(StopRaises(r, k))
           /\ \A p \in StopPoints : SfuOfStops(Park(r, k, p))
<1>1. r \in SessionState
  BY DEF SfuBetween
<1>2. SameSfu(r, StopEnd(r, k)) /\ \A l \in Stoppers \ {k} : StopEnd(r, k).stops[l] = r.stops[l]
  BY <1>1 DEF SameSfu, StopEnd, Emit, SessionState
<1>3. SameSfu(r, StopRaises(r, k))
      /\ \A l \in Stoppers \ {k} : StopRaises(r, k).stops[l] = r.stops[l]
  BY <1>1 DEF SameSfu, StopRaises, SessionState
<1>4. \A p \in StopPoints : SameSfu(r, Park(r, k, p))
      /\ \A l \in Stoppers \ {k} : Park(r, k, p).stops[l] = r.stops[l]
  BY <1>1 DEF SameSfu, Park, SessionState
<1> QED BY <1>2, <1>3, <1>4, SfuGoesOn

LEMMA StopRingsSfu ==
    ASSUME NEW r, NEW k \in Stoppers, SfuBetween(r, k), OthersGoOn(r, k)
    PROVE  SfuOfStops(StopRings(r, k))
  BY StopEndSfu DEF StopRings, StopPoints

LEMMA StopOpenAISfu ==
    ASSUME NEW r, NEW k \in Stoppers, SfuBetween(r, k), OthersGoOn(r, k)
    PROVE  SfuOfStops(StopOpenAI(r, k))
<1> DEFINE f == [r EXCEPT !.oai = IF @ = "open" THEN "draining" ELSE "closing"]
<1>1. f \in SessionState /\ SameSfu(r, f) /\ f.stops = r.stops
  BY DEF SfuBetween, SameSfu, SessionState, OaiStates
<1> HIDE DEF f
<1>2. SfuBetween(f, k) /\ OthersGoOn(f, k)
  BY <1>1 DEF SfuBetween, OthersGoOn, SameSfu
<1>3. SfuOfStops(Park(f, k, "openai"))
  BY <1>2, StopEndSfu DEF StopPoints
<1> QED BY <1>3, StopRingsSfu DEF StopOpenAI, f

\* The stage that closes the SFU peer: nobody else has to come this far any more.
LEMMA StopSfuSfu ==
    ASSUME NEW r, NEW k \in Stoppers, SfuBetween(r, k)
    PROVE  SfuOfStops(StopSfu(r, k))
<1>1. CASE r.sfu = "none" \/ r.sfuClosed
  <2>1. OthersGoOn(r, k)
    BY <1>1 DEF OthersGoOn, SfuBetween
  <2> QED BY <1>1, <2>1, StopOpenAISfu DEF StopSfu
<1>2. CASE ~(r.sfu = "none" \/ r.sfuClosed)
  <2> DEFINE f == [r EXCEPT !.sfuClosed = TRUE,
                            !.sfu = IF @ \in Leavable(r) THEN "leaving" ELSE @]
             q == Park(f, k, "sfu")
  <2>1. /\ f \in SessionState /\ f.pipe = r.pipe /\ f.pipeCancelled = r.pipeCancelled
        /\ f.legacySfu = r.legacySfu /\ f.sfuClosed = TRUE /\ f.joinedLate = r.joinedLate
        /\ f.sfu = IF r.sfu \in Leavable(r) THEN "leaving" ELSE r.sfu
    BY DEF SfuBetween, SessionState, SfuStates
  <2>2. f.legacySfu => f.sfu \in {"leaving", "left"}
    BY <1>2, <2>1 DEF SfuBetween, SessionState, SfuStates, Leavable
  <2> HIDE DEF f
  <2>3. SameSfu(f, q) /\ q.stops[k] = "sfu"
    BY <2>1 DEF SameSfu, Park, SessionState
  <2> HIDE DEF q
  <2>4. f.sfu \notin {"joined", "lost"}
    BY <2>1 DEF Leavable
  <2>5. SfuOfStops(q)
    BY <2>1, <2>2, <2>3, <2>4 DEF SameSfu, SfuBetween, SfuOfStops
  <2> QED BY <1>2, <2>5 DEF StopSfu, f, q
<1> QED BY <1>1, <1>2

LEMMA StopPipelineSfu ==
    ASSUME NEW r, NEW k \in Stoppers, SfuBetween(r, k), OthersGoOn(r, k)
    PROVE  SfuOfStops(StopPipeline(r, k))
<1> DEFINE f == [r EXCEPT !.pipeCancelled = (@ \/ r.pipe # "none")]
           g == [f EXCEPT !.pipe = "cancelling"]
           q == Park(g, k, "pipeline")
<1>1. /\ f \in SessionState /\ f.stops = r.stops /\ f.pipe = r.pipe /\ f.sfu = r.sfu
      /\ f.sfuClosed = r.sfuClosed /\ f.legacySfu = r.legacySfu
      /\ f.joinedLate = r.joinedLate
      /\ f.pipeCancelled = (r.pipeCancelled \/ r.pipe # "none")
  BY DEF SfuBetween, SessionState
<1> HIDE DEF f
<1>2. SfuBetween(f, k)
  BY <1>1 DEF SfuBetween
<1>3. CASE r.pipe \in {"running", "cancelling"}
  <2>1. /\ g \in SessionState /\ g.stops = f.stops /\ g.pipe = "cancelling" /\ g.sfu = f.sfu
        /\ g.sfuClosed = f.sfuClosed /\ g.legacySfu = f.legacySfu
        /\ g.joinedLate = f.joinedLate
        /\ g.pipeCancelled = f.pipeCancelled
    BY <1>1 DEF SessionState, PipeStates
  <2> HIDE DEF g
  <2>2. SameSfu(g, q) /\ q.stops[k] = "pipeline"
        /\ \A l \in Stoppers \ {k} : q.stops[l] = r.stops[l]
    BY <1>1, <2>1 DEF SameSfu, Park, SessionState
  <2> HIDE DEF q
  <2>3. SfuOfStops(q)
    BY <1>1, <1>2, <1>3, <2>1, <2>2 DEF SameSfu, SfuBetween, SfuOfStops
  <2> QED BY <1>3, <2>3 DEF StopPipeline, f, g, q
<1>4. CASE r.pipe = "crashed"
  <2>1. SfuOfStops(StopRaises(f, k))
    BY <1>1, <1>2, <1>4, StopEndSfu DEF OthersGoOn
  <2> QED BY <1>4, <2>1 DEF StopPipeline, f
<1>5. CASE r.pipe \notin {"running", "cancelling", "crashed"}
  <2>1. SfuOfStops(StopSfu(f, k))
    BY <1>2, StopSfuSfu
  <2> QED BY <1>5, <2>1 DEF StopPipeline, f
<1> QED BY <1>3, <1>4, <1>5

LEMMA StopSfuOfStops ==
    ASSUME NEW r \in SessionState, NEW k \in Stoppers, SfuOfStops(r), r.stops[k] = "idle"
    PROVE  SfuOfStops(Stop(r, k))
<1> DEFINE f == [r EXCEPT !.phase = "stopping"]
           g == [f EXCEPT !.speaker = "cancelling"]
<1>1. f \in SessionState /\ SameSfu(r, f) /\ f.stops = r.stops
  BY DEF SameSfu, SessionState, Phases
<1> HIDE DEF f
<1>2. g \in SessionState /\ SameSfu(r, g) /\ g.stops = r.stops
  BY <1>1 DEF SameSfu, SessionState, SpeakerStates
<1> HIDE DEF g
<1>3. ASSUME NEW h \in SessionState, SameSfu(r, h), h.stops = r.stops
      PROVE  SfuBetween(h, k) /\ OthersGoOn(h, k)
  BY <1>3 DEF SfuBetween, OthersGoOn, SameSfu, SfuOfStops
<1>4. SfuOfStops(StopRaises(f, k)) /\ SfuOfStops(StopPipeline(f, k))
  BY <1>1, <1>3, StopEndSfu, StopPipelineSfu
<1>5. SfuOfStops(Park(g, k, "speaker"))
  BY <1>2, <1>3, StopEndSfu DEF StopPoints
<1> QED BY <1>4, <1>5 DEF Stop, StopSpeaker, f, g

LEMMA StopResumesSfu ==
    ASSUME NEW r, NEW k \in Stoppers, SessionInv(r), SfuOfStops(r), r.stops[k] # "idle"
    PROVE  SfuOfStops(StopResumes(r, k))
<1> DEFINE a == [r EXCEPT !.speaker = "cancelled"]
           b == [r EXCEPT !.pipe = "cancelled"]
           c == [r EXCEPT !.sfu = IF @ = "leaving" THEN "left" ELSE @]
           d == [r EXCEPT !.oai = "closed"]
<1>1. r \in SessionState
  BY DEF SessionInv
<1>2. CASE r.stops[k] = "speaker"
  <2>1. a \in SessionState /\ SameSfu(r, a) /\ a.stops = r.stops
    BY <1>1 DEF SameSfu, SessionState, SpeakerStates
  <2> HIDE DEF a
  <2>2. SfuBetween(a, k) /\ OthersGoOn(a, k)
    BY <1>2, <2>1 DEF SfuBetween, OthersGoOn, SameSfu, SfuOfStops
  <2>3. SfuOfStops(StopRaises(a, k))
    BY <2>2, StopEndSfu
  <2> QED BY <1>2, <2>3 DEF StopResumes, a
<1>3. CASE r.stops[k] = "pipeline" /\ r.pipe = "crashed"
  <2>1. SfuBetween(r, k) /\ OthersGoOn(r, k)
    BY <1>1, <1>3 DEF SfuBetween, OthersGoOn, SfuOfStops
  <2> QED BY <1>3, <2>1, StopEndSfu DEF StopResumes, AfterPipeline
<1>4. CASE r.stops[k] = "pipeline" /\ r.pipe # "crashed"
  <2>1. /\ b \in SessionState /\ b.stops = r.stops /\ b.pipe = "cancelled" /\ b.sfu = r.sfu
        /\ b.sfuClosed = r.sfuClosed /\ b.legacySfu = r.legacySfu
        /\ b.joinedLate = r.joinedLate
        /\ b.pipeCancelled = r.pipeCancelled
    BY <1>1 DEF SessionState, PipeStates
  <2> HIDE DEF b
  <2>2. SfuBetween(b, k)
    BY <1>4, <2>1 DEF SfuBetween, SfuOfStops
  <2>3. SfuOfStops(StopSfu(b, k))
    BY <2>2, StopSfuSfu
  <2> QED BY <1>4, <2>3 DEF StopResumes, AfterPipeline, b
<1>5. CASE r.stops[k] = "sfu"
  <2>1. /\ c \in SessionState /\ c.stops = r.stops /\ c.pipe = r.pipe
        /\ c.sfu = (IF r.sfu = "leaving" THEN "left" ELSE r.sfu)
        /\ c.sfuClosed = r.sfuClosed /\ c.legacySfu = r.legacySfu
        /\ c.joinedLate = r.joinedLate
        /\ c.pipeCancelled = r.pipeCancelled
    BY <1>1 DEF SessionState, SfuStates
  <2> HIDE DEF c
  <2>2. SfuBetween(c, k) /\ OthersGoOn(c, k)
    BY <1>5, <2>1 DEF SfuBetween, OthersGoOn, SfuOfStops
  <2>3. SfuOfStops(StopOpenAI(c, k))
    BY <2>2, StopOpenAISfu
  <2> QED BY <1>5, <2>3 DEF StopResumes, c
<1>6. CASE r.stops[k] = "openai"
  <2>1. d \in SessionState /\ SameSfu(r, d) /\ d.stops = r.stops
    BY <1>1 DEF SameSfu, SessionState, OaiStates
  <2> HIDE DEF d
  <2>2. SfuBetween(d, k) /\ OthersGoOn(d, k)
    BY <1>6, <2>1 DEF SfuBetween, OthersGoOn, SameSfu, SfuOfStops
  <2>3. SfuOfStops(StopRings(d, k))
    BY <2>2, StopRingsSfu
  <2> QED BY <1>6, <2>3 DEF StopResumes, d
<1>7. CASE r.stops[k] \notin {"speaker", "pipeline", "sfu", "openai"}
  <2>1. SfuBetween(r, k) /\ OthersGoOn(r, k)
    BY <1>1, <1>7 DEF SfuBetween, OthersGoOn, SfuOfStops
  <2> QED BY <1>7, <2>1, StopEndSfu DEF StopResumes
<1> QED BY <1>2, <1>3, <1>4, <1>5, <1>6, <1>7

\* Steps of start() and of the peers, which move no stopper.
LEMMA StartSfu ==
    ASSUME NEW r, SessionInv(r), SfuOfStops(r), NEW q, StartMoves(r, q)
    PROVE  SfuOfStops(q)
<1>1. r \in SessionState
  BY DEF SessionInv
<1>2. \A k \in Stoppers : r.stops[k] = "pipeline" =>
            r.pipe \in {"cancelling", "cancelled", "crashed"}
  BY DEF SessionInv, PipelineBeforeSfu
<1>3. CASE \/ r.start = "scheduled" /\ q = ConnectOpenAI(r)
           \/ r.start = "oai_connect" /\ q = AwaitChannel(r)
           \/ r.start = "oai_open" /\ q = LoadImage(r)
  <2>1. SameSfu(r, q) /\ q.stops = r.stops
    BY <1>1, <1>3 DEF SameSfu, ConnectOpenAI, AwaitChannel, LoadImage, SessionState
  <2> QED BY <2>1 DEF SameSfu, SfuOfStops
<1>4. CASE r.start \in {"oai_open", "load_image"} /\ q = BuildAndJoin(r)
  <2>1. /\ q.pipe = "built" /\ q.sfu = "joining" /\ q.stops = r.stops
        /\ q.sfuClosed = r.sfuClosed /\ q.pipeCancelled = r.pipeCancelled
    BY <1>1, <1>4 DEF BuildAndJoin, SessionState
  <2>2. ~r.sfuClosed /\ ~r.pipeCancelled
    BY <1>4 DEF SessionInv, BuiltTogether, NotStarted, SfuOfStops
  <2> QED BY <2>1, <2>2 DEF SfuOfStops
<1>5. CASE r.start = "sfu_join" /\ r.sfu = "joining" /\ q = PublishTracks(r)
  <2>1. /\ q.pipe = r.pipe /\ q.sfu = "joined" /\ q.stops = r.stops
        /\ q.legacySfu = r.legacySfu /\ q.joinedLate = r.sfuClosed
        /\ q.sfuClosed = r.sfuClosed /\ q.pipeCancelled = r.pipeCancelled
    BY <1>1, <1>5 DEF PublishTracks, SessionState
  <2> QED BY <1>5, <2>1 DEF SfuOfStops
<1>6. CASE r.start = "sfu_publish" /\ \E b \in BOOLEAN : q = WarmUp(r, b)
  <2>1. /\ q.pipe \in {"running", "ended"} /\ q.sfu = r.sfu /\ q.stops = r.stops
        /\ q.legacySfu = r.legacySfu /\ q.joinedLate = r.joinedLate
        /\ q.sfuClosed = r.sfuClosed /\ q.pipeCancelled = r.pipeCancelled
    BY <1>1, <1>6 DEF WarmUp, SessionState
  <2>2. r.pipe = "built"
    BY <1>6 DEF SessionInv, BuiltTogether
  <2> QED BY <1>2, <2>1, <2>2 DEF SfuOfStops
<1>7. CASE r.start = "first_frame" /\ q = BecomeReady(r)
  <2>1. SameSfu(r, q) /\ q.stops = r.stops
    BY <1>1, <1>7 DEF SameSfu, BecomeReady, Emit, SessionState
  <2> QED BY <2>1 DEF SameSfu, SfuOfStops
<1>8. ASSUME NEW b, FailsWith(r, b), q = StartFails(b) PROVE SfuOfStops(q)
  <2> DEFINE f == Failed(b)
  <2>1. /\ b \in SessionState /\ b.stops = r.stops /\ b.sfu = r.sfu
        /\ b.pipe = r.pipe \/ (b.pipe = "built" /\ r.pipe = "none")
        /\ b.legacySfu = r.legacySfu /\ b.sfuClosed = r.sfuClosed
        /\ b.joinedLate = r.joinedLate /\ b.pipeCancelled = r.pipeCancelled
    BY <1>1, <1>8 DEF FailsWith, SessionInv, BuiltTogether, NotStarted, SessionState, PipeStates
  <2>2. /\ f \in SessionState /\ f.pipe = b.pipe /\ f.stops = b.stops
        /\ f.sfu = (IF b.sfu = "joining" THEN "unjoined" ELSE b.sfu)
        /\ f.legacySfu = b.legacySfu /\ f.sfuClosed = b.sfuClosed
        /\ f.joinedLate = b.joinedLate
        /\ f.pipeCancelled = b.pipeCancelled /\ q = Stop(f, "starter")
    BY <1>8, <2>1, FailedFields
  <2>3. "starter" \in Stoppers /\ r.stops["starter"] = "idle"
    BY <1>8 DEF FailsWith, SessionInv, PhaseOfTasks, StartAwaits, Stoppers
  <2> HIDE DEF f
  <2>4. SfuOfStops(f)
    BY <2>1, <2>2 DEF SfuOfStops
  <2> QED BY <2>1, <2>2, <2>3, <2>4, StopSfuOfStops
<1> QED BY <1>3, <1>4, <1>5, <1>6, <1>7, <1>8 DEF StartMoves

LEMMA StepSfu ==
    ASSUME NEW r, SessionInv(r), SfuOfStops(r), NEW q, SessionStep(r, q)
    PROVE  SfuOfStops(q)
<1>1. r \in SessionState
  BY DEF SessionInv
<1>2. CASE StopperMoves(r, q)
  BY <1>1, <1>2, StopSfuOfStops, StopResumesSfu DEF StopperMoves
<1>3. CASE PeerMoves(r, q)
  <2>1. CASE r.sfu = "joined" /\ q = [r EXCEPT !.sfu = "lost"]
    <3>1. /\ q.pipe = r.pipe /\ q.sfu = "lost" /\ q.stops = r.stops
          /\ q.legacySfu = r.legacySfu /\ q.joinedLate = r.joinedLate
          /\ q.sfuClosed = r.sfuClosed /\ q.pipeCancelled = r.pipeCancelled
      BY <1>1, <2>1 DEF SessionState
    <3> QED BY <2>1, <3>1 DEF SfuOfStops
  <2>2. CASE Rendering(r) /\ q = [r EXCEPT !.pipe = "crashed"]
    <3>1. /\ q.pipe = "crashed" /\ q.sfu = r.sfu /\ q.stops = r.stops
          /\ q.legacySfu = r.legacySfu /\ q.joinedLate = r.joinedLate
          /\ q.sfuClosed = r.sfuClosed /\ q.pipeCancelled = r.pipeCancelled
      BY <1>1, <2>2 DEF SessionState
    <3> QED BY <2>2, <3>1 DEF SfuOfStops
  <2>3. CASE \/ \E o \in {"open", "dead"} : q = [r EXCEPT !.oai = o]
             \/ q = [r EXCEPT !.firstFrame = TRUE]
    <3>1. SameSfu(r, q) /\ q.stops = r.stops
      BY <1>1, <2>3 DEF SameSfu, SessionState
    <3> QED BY <3>1 DEF SameSfu, SfuOfStops
  <2> QED BY <1>3, <2>1, <2>2, <2>3 DEF PeerMoves
<1> QED BY <1>2, <1>3, StartSfu DEF SessionStep

------------------------------------------------------------------------------
(* The pod.                                                                 *)

\* Every session keeps the invariant of one session, and the shutdown
\* hook stops nothing before it runs.
PodInv ==
    /\ active \in Sessions \cup {NoSession}
    /\ app \in {"loading", "serving", "closing", "closed"}
    /\ ses \in [Sessions -> SessionState]
    /\ \A s \in Sessions : SessionInv(ses[s])
    /\ app \in {"loading", "serving"} =>
            \A s \in Sessions : ses[s].stops["lifespan"] = "idle"

LEMMA InitPodInv == Init => PodInv
<1> SUFFICES ASSUME Init PROVE PodInv
  OBVIOUS
<1>1. \A b \in BOOLEAN : SessionInv(NewSession(b)) /\ NewSession(b) \in SessionState
  BY NewSessionInv DEF SessionInv
<1>2. \A b \in BOOLEAN : NewSession(b).stops["lifespan"] = "idle"
  BY DEF NewSession, Stoppers
<1>3. \A s \in Sessions : (s \in LegacySfu) \in BOOLEAN
  OBVIOUS
<1>4. \A s \in Sessions : ses[s] = NewSession(s \in LegacySfu)
  BY DEF Init
<1>5. \A s \in Sessions : SessionInv(ses[s]) /\ ses[s] \in SessionState
  BY <1>1, <1>3, <1>4
<1>6. \A s \in Sessions : ses[s].stops["lifespan"] = "idle"
  BY <1>2, <1>3, <1>4
<1>7. ses \in [Sessions -> SessionState]
  BY <1>5 DEF Init
<1> QED BY <1>5, <1>6, <1>7 DEF Init, PodInv

\* A step of one session is as good as the record it puts in place.
LEMMA StepPodInv ==
    ASSUME PodInv, NEW s \in Sessions, NEW r, Step(s, r), SessionInv(r),
           app = "closing" \/ r.stops["lifespan"] = ses[s].stops["lifespan"]
    PROVE  PodInv'
<1>1. r \in SessionState
  BY DEF SessionInv
<1>2. ses' \in [Sessions -> SessionState]
  BY <1>1 DEF PodInv, Step
<1>3. \A t \in Sessions : ses'[t] = IF t = s THEN r ELSE ses[t]
  BY DEF PodInv, Step
<1> QED BY <1>2, <1>3 DEF PodInv, Step

LEMMA FailurePodInv ==
    ASSUME PodInv, NEW s \in Sessions, NEW b, FailsWith(ses[s], b), Step(s, StartFails(b))
    PROVE  PodInv'
<1> DEFINE r == ses[s]
<1>1. SessionInv(r) /\ r \in SessionState
  BY DEF PodInv, SessionInv
<1>2. SessionInv(StartFails(b))
  BY <1>1, StartFailsInv
<1>3. b \in SessionState /\ b.stops = r.stops
  BY <1>1 DEF FailsWith, SessionState, PipeStates
<1>4. Moves(Failed(b), StartFails(b), "starter") /\ Failed(b).stops = r.stops
  BY <1>3, StartFailsMoves, FailedFields
<1>5. StartFails(b).stops["lifespan"] = r.stops["lifespan"]
  BY <1>1, <1>4 DEF Moves, SessionState, Stoppers
<1> QED BY <1>2, <1>5, StepPodInv

LEMMA BuildsPodInv ==
    ASSUME PodInv, NEW s \in Sessions, ses[s].start \in {"oai_open", "load_image"},
           NEW q \in Builds(ses[s]), Step(s, q)
    PROVE  PodInv'
<1> DEFINE r == ses[s]
<1>1. SessionInv(r) /\ r \in SessionState
  BY DEF PodInv, SessionInv
<1>2. CASE q = BuildAndJoin(r)
  <2>1. SessionInv(q) /\ q.stops = r.stops
    BY <1>1, <1>2, BuildAndJoinInv DEF BuildAndJoin, SessionState
  <2> QED BY <2>1, StepPodInv
<1>3. CASE q \in {StartFails(r), StartFails([r EXCEPT !.pipe = "built"])}
  BY <1>3, FailurePodInv DEF FailsWith, StartAwaits
<1> QED BY <1>2, <1>3 DEF Builds

\* Steps of start() and of the peers leave the stoppers where they are.
LEMMA StartStepPodInv ==
    ASSUME PodInv, NEW s \in Sessions, StartStep(s)
    PROVE  PodInv'
<1> DEFINE r == ses[s]
<1>1. SessionInv(r) /\ r \in SessionState
  BY DEF PodInv, SessionInv
<1>2. CASE StartBegins(s)
  <2>1. SessionInv(ConnectOpenAI(r)) /\ ConnectOpenAI(r).stops = r.stops
    BY <1>1, <1>2, ConnectOpenAIInv DEF StartBegins, ConnectOpenAI, SessionState
  <2> QED BY <1>2, <2>1, StepPodInv DEF StartBegins
<1>3. CASE OpenAIConnected(s)
  <2>1. SessionInv(AwaitChannel(r)) /\ AwaitChannel(r).stops = r.stops
    BY <1>1, <1>3, AwaitChannelInv DEF OpenAIConnected, AwaitChannel, SessionState
  <2> QED BY <1>3, <2>1, StepPodInv DEF OpenAIConnected
<1>4. CASE ChannelReady(s)
  <2>1. SessionInv(LoadImage(r)) /\ LoadImage(r).stops = r.stops
    BY <1>1, <1>4, LoadImageInv DEF ChannelReady, LoadImage, SessionState
  <2> QED BY <1>4, <2>1, StepPodInv, BuildsPodInv DEF ChannelReady
<1>5. CASE PortraitLoaded(s)
  BY <1>5, BuildsPodInv DEF PortraitLoaded
<1>6. CASE SfuJoined(s)
  <2>1. SessionInv(PublishTracks(r)) /\ PublishTracks(r).stops = r.stops
    BY <1>1, <1>6, PublishTracksInv DEF SfuJoined, PublishTracks, SessionState
  <2> QED BY <1>6, <2>1, StepPodInv DEF SfuJoined
<1>7. CASE TracksPublished(s)
  <2> DEFINE b == s \in SpeakerLoop
  <2>1. SessionInv(WarmUp(r, b)) /\ WarmUp(r, b).stops = r.stops
    BY <1>1, <1>7, WarmUpInv DEF TracksPublished, WarmUp, SessionState
  <2> QED BY <1>7, <2>1, StepPodInv DEF TracksPublished
<1>8. CASE FrameSeen(s)
  <2> DEFINE q == [r EXCEPT !.phase = "ready", !.start = "done"]
  <2>1. SessionInv(BecomeReady(r))
    BY <1>1, <1>8, BecomeReadyInv DEF FrameSeen
  <2>2. q \in SessionState /\ q.stops = r.stops
    BY <1>1 DEF SessionState, Phases, StartPoints
  <2> HIDE DEF q
  <2>3. Emit(q, "avatar_ready").stops = r.stops
    BY <2>2, EmitFields
  <2>4. BecomeReady(r).stops = r.stops
    BY <2>3 DEF BecomeReady, q
  <2> QED BY <1>8, <2>1, <2>4, StepPodInv DEF FrameSeen
<1>9. CASE StartRaises(s)
  BY <1>9, FailurePodInv DEF StartRaises, MayFail, FailsWith
<1> QED BY <1>2, <1>3, <1>4, <1>5, <1>6, <1>7, <1>8, <1>9
  DEF StartStep, IdentityStep, OtherStartStep

LEMMA PeerStepPodInv ==
    ASSUME PodInv, NEW s \in Sessions,
           ChannelOpens(s) \/ OpenAIDies(s) \/ SfuDies(s) \/ FirstFrame(s)
                \/ PipelineCrashes(s)
    PROVE  PodInv'
<1> DEFINE r == ses[s]
<1>1. SessionInv(r) /\ r \in SessionState
  BY DEF PodInv, SessionInv
<1>2. CASE ChannelOpens(s)
  <2> DEFINE q == [r EXCEPT !.oai = "open"]
  <2>1. SessionInv(q) /\ q.stops = r.stops
    BY <1>1, <1>2, OaiEventInv DEF ChannelOpens, SessionState
  <2> QED BY <1>2, <2>1, StepPodInv DEF ChannelOpens
<1>3. CASE OpenAIDies(s)
  <2> DEFINE q == [r EXCEPT !.oai = "dead"]
  <2>1. SessionInv(q) /\ q.stops = r.stops
    BY <1>1, <1>3, OaiEventInv DEF OpenAIDies, SessionState
  <2> QED BY <1>3, <2>1, StepPodInv DEF OpenAIDies
<1>4. CASE SfuDies(s)
  <2> DEFINE q == [r EXCEPT !.sfu = "lost"]
  <2>1. SessionInv(q) /\ q.stops = r.stops
    BY <1>1, <1>4, SfuEventInv DEF SfuDies, SessionState
  <2> QED BY <1>4, <2>1, StepPodInv DEF SfuDies
<1>5. CASE FirstFrame(s)
  <2> DEFINE q == [r EXCEPT !.firstFrame = TRUE]
  <2>1. SessionInv(q) /\ q.stops = r.stops
    BY <1>1, <1>5, PipeEventInv DEF FirstFrame, SessionState
  <2> QED BY <1>5, <2>1, StepPodInv DEF FirstFrame
<1>6. CASE PipelineCrashes(s)
  <2> DEFINE q == [r EXCEPT !.pipe = "crashed"]
  <2>1. SessionInv(q) /\ q.stops = r.stops
    BY <1>1, <1>6, PipeEventInv DEF PipelineCrashes, SessionState
  <2> QED BY <1>6, <2>1, StepPodInv DEF PipelineCrashes
<1> QED BY <1>2, <1>3, <1>4, <1>5, <1>6

\* POST, DELETE, the resumption of a stop() and the shutdown hook.
LEMMA ManagerStepPodInv ==
    ASSUME PodInv, NEW s \in Sessions,
           \/ Create(s)
           \/ \E k \in Clients : Delete(s, k)
           \/ \E k \in Stoppers : StopStep(s, k)
    PROVE  PodInv'
<1> DEFINE r == ses[s]
<1>1. SessionInv(r) /\ r \in SessionState
  BY DEF PodInv, SessionInv
<1>2. CASE Create(s)
  <2> DEFINE q == [r EXCEPT !.start = "scheduled"]
  <2>1. SessionInv(q) /\ q \in SessionState /\ q.stops = r.stops
    BY <1>1, <1>2, ScheduleInv DEF Create, SessionState, SessionInv
  <2> HIDE DEF q
  <2>2. ses' = [ses EXCEPT ![s] = q] /\ active' = s /\ app' = app
    BY <1>2 DEF Create, q
  <2>3. \A t \in Sessions : ses'[t] = IF t = s THEN q ELSE ses[t]
    BY <2>2 DEF PodInv
  <2> QED BY <2>1, <2>2, <2>3 DEF PodInv
<1>3. ASSUME NEW k \in Clients, Delete(s, k) PROVE PodInv'
  <2>1. k \in Stoppers /\ k # "starter" /\ k # "lifespan" /\ r.stops[k] = "idle"
    BY <1>3, ClientsAreRequests DEF Delete, Stoppers
  <2>2. SessionInv(Stop(r, k)) /\ Moves(r, Stop(r, k), k)
    BY <1>1, <2>1, StopKeepsInv, StopMoves
  <2>3. Stop(r, k).stops["lifespan"] = r.stops["lifespan"]
    BY <1>1, <2>1, <2>2 DEF Moves, SessionState, Stoppers
  <2> QED BY <1>3, <2>2, <2>3, StepPodInv DEF Delete
<1>4. ASSUME NEW k \in Stoppers, StopStep(s, k) PROVE PodInv'
  <2>1. SessionInv(StopResumes(r, k)) /\ Moves(r, StopResumes(r, k), k)
    BY <1>1, <1>4, StopResumesInv, StopResumesMoves DEF StopStep
  <2>2. k # "lifespan" \/ app = "closing"
    BY <1>4 DEF StopStep, Step, Running, PodInv
  <2>3. app = "closing" \/ StopResumes(r, k).stops["lifespan"] = r.stops["lifespan"]
    BY <1>1, <2>1, <2>2 DEF Moves, SessionState, Stoppers
  <2> QED BY <1>4, <2>1, <2>3, StepPodInv DEF StopStep
<1> QED BY <1>2, <1>3, <1>4

LEMMA ShutdownPodInv ==
    ASSUME PodInv, Shutdown
    PROVE  PodInv'
<1>1. CASE Busy /\ ~StopReturnsAtOnce(ses[active])
  <2> DEFINE q == Stop(ses[active], "lifespan")
  <2>1. active \in Sessions
    BY <1>1 DEF PodInv, Busy
  <2>2. SessionInv(ses[active]) /\ "lifespan" \in Stoppers
        /\ ses[active].stops["lifespan"] = "idle"
    BY <2>1 DEF PodInv, Stoppers, Shutdown
  <2>3. SessionInv(q) /\ q \in SessionState
    BY <2>2, StopKeepsInv DEF SessionInv
  <2> HIDE DEF q
  <2>4. ses' = [ses EXCEPT ![active] = q] /\ app' = "closing" /\ active' = active
    BY <1>1 DEF Shutdown, q
  <2>5. \A t \in Sessions : ses'[t] = IF t = active THEN q ELSE ses[t]
    BY <2>1, <2>4 DEF PodInv
  <2> QED BY <2>1, <2>3, <2>4, <2>5 DEF PodInv
<1>2. CASE ~(Busy /\ ~StopReturnsAtOnce(ses[active]))
  BY <1>2 DEF Shutdown, PodInv
<1> QED BY <1>1, <1>2

LEMMA NextPodInv == PodInv /\ [Next]_vars => PodInv'
<1> SUFFICES ASSUME PodInv, [Next]_vars PROVE PodInv'
  OBVIOUS
<1>1. CASE Load \/ Exit \/ Exited \/ UNCHANGED vars
  BY <1>1 DEF Load, Exit, Exited, vars, PodInv
<1>2. CASE Shutdown
  BY <1>2, ShutdownPodInv
<1>3. ASSUME NEW s \in Sessions,
             \/ Create(s)
             \/ \E k \in Clients : Delete(s, k)
             \/ \E k \in Stoppers : StopStep(s, k)
      PROVE  PodInv'
  BY <1>3, ManagerStepPodInv
<1>4. ASSUME NEW s \in Sessions, StartStep(s) PROVE PodInv'
  BY <1>4, StartStepPodInv
<1>5. ASSUME NEW s \in Sessions,
             ChannelOpens(s) \/ OpenAIDies(s) \/ SfuDies(s) \/ FirstFrame(s)
                \/ PipelineCrashes(s)
      PROVE  PodInv'
  BY <1>5, PeerStepPodInv
<1> QED BY <1>1, <1>2, <1>3, <1>4, <1>5
  DEF Next, OtherStep, StartStep

THEOREM PodInvariant == Spec => []PodInv
  BY InitPodInv, NextPodInv, PTL DEF Spec

------------------------------------------------------------------------------
(* Every step of the pod is a POST, or a step of one session.               *)

OneSteps == active' = active /\ \A s \in Sessions : SessionStep(ses[s], ses'[s])

LEMMA StepIsSessionStep ==
    ASSUME PodInv, NEW s \in Sessions, NEW r, Step(s, r), SessionStep(ses[s], r)
    PROVE  OneSteps
<1>1. \A t \in Sessions : ses'[t] = IF t = s THEN r ELSE ses[t]
  BY DEF PodInv, Step
<1> QED BY <1>1 DEF OneSteps, SessionStep, Step

LEMMA StopIsSessionStep ==
    ASSUME PodInv, NEW s \in Sessions, NEW k \in Stoppers \ {"starter"},
           ses[s].stops[k] = "idle", ~StopReturnsAtOnce(ses[s])
    PROVE  SessionStep(ses[s], Stop(ses[s], k))
  BY DEF SessionStep, StopperMoves

LEMMA StartIsSessionStep ==
    ASSUME PodInv, NEW s \in Sessions, StartStep(s)
    PROVE  OneSteps
<1> DEFINE r == ses[s]
<1>1. ASSUME NEW q, StartMoves(r, q), Step(s, q) PROVE OneSteps
  BY <1>1, StepIsSessionStep DEF SessionStep
<1>2. CASE StartBegins(s)
  BY <1>1, <1>2 DEF StartBegins, StartMoves
<1>3. CASE OpenAIConnected(s)
  BY <1>1, <1>3 DEF OpenAIConnected, StartMoves
<1>4. ASSUME r.start \in {"oai_open", "load_image"}, NEW q \in Builds(r), Step(s, q)
      PROVE  OneSteps
  <2>1. StartMoves(r, q)
    BY <1>4 DEF Builds, StartMoves, FailsWith, StartAwaits
  <2> QED BY <1>1, <1>4, <2>1
<1>5. CASE ChannelReady(s)
  BY <1>1, <1>5, <1>4 DEF ChannelReady, StartMoves
<1>6. CASE PortraitLoaded(s)
  BY <1>6, <1>4 DEF PortraitLoaded
<1>7. CASE SfuJoined(s)
  BY <1>1, <1>7 DEF SfuJoined, StartMoves
<1>8. CASE TracksPublished(s)
  <2>1. (s \in SpeakerLoop) \in BOOLEAN
    OBVIOUS
  <2>2. StartMoves(r, WarmUp(r, s \in SpeakerLoop))
    BY <1>8, <2>1 DEF TracksPublished, StartMoves
  <2> QED BY <1>1, <1>8, <2>2 DEF TracksPublished
<1>9. CASE FrameSeen(s)
  BY <1>1, <1>9 DEF FrameSeen, StartMoves
<1>10. CASE StartRaises(s)
  BY <1>1, <1>10 DEF StartRaises, MayFail, StartMoves, FailsWith
<1> QED BY <1>2, <1>3, <1>5, <1>6, <1>7, <1>8, <1>9, <1>10
  DEF StartStep, IdentityStep, OtherStartStep

LEMMA PeerIsSessionStep ==
    ASSUME PodInv, NEW s \in Sessions,
           ChannelOpens(s) \/ OpenAIDies(s) \/ SfuDies(s) \/ FirstFrame(s)
                \/ PipelineCrashes(s)
    PROVE  OneSteps
<1>1. ASSUME NEW q, PeerMoves(ses[s], q), Step(s, q) PROVE OneSteps
  BY <1>1, StepIsSessionStep DEF SessionStep
<1>2. CASE ChannelOpens(s)
  BY <1>1, <1>2 DEF ChannelOpens, PeerMoves
<1>3. CASE OpenAIDies(s)
  BY <1>1, <1>3 DEF OpenAIDies, PeerMoves
<1>4. CASE SfuDies(s)
  BY <1>1, <1>4 DEF SfuDies, PeerMoves
<1>5. CASE FirstFrame(s)
  BY <1>1, <1>5 DEF FirstFrame, PeerMoves
<1>6. CASE PipelineCrashes(s)
  BY <1>1, <1>6 DEF PipelineCrashes, PeerMoves
<1> QED BY <1>2, <1>3, <1>4, <1>5, <1>6

LEMMA NextMovesSessions ==
    ASSUME PodInv, [Next]_vars
    PROVE  OneSteps \/ \E s \in Sessions : Create(s)
<1>1. CASE UNCHANGED <<active, ses>>
  BY <1>1 DEF OneSteps, SessionStep
<1>2. CASE Shutdown
  <2>1. CASE Busy /\ ~StopReturnsAtOnce(ses[active])
    <3>1. active \in Sessions /\ "lifespan" \in Stoppers \ {"starter"}
      BY <2>1 DEF PodInv, Busy, Stoppers
    <3>2. ses[active].stops["lifespan"] = "idle"
      BY <1>2, <3>1 DEF PodInv, Shutdown
    <3>3. SessionStep(ses[active], Stop(ses[active], "lifespan"))
      BY <2>1, <3>1, <3>2, StopIsSessionStep
    <3>4. \A t \in Sessions :
            ses'[t] = IF t = active THEN Stop(ses[active], "lifespan") ELSE ses[t]
      BY <1>2, <2>1 DEF Shutdown, PodInv
    <3> QED BY <1>2, <3>3, <3>4 DEF OneSteps, SessionStep, Shutdown
  <2>2. CASE ~(Busy /\ ~StopReturnsAtOnce(ses[active]))
    BY <1>1, <1>2, <2>2 DEF Shutdown
  <2> QED BY <2>1, <2>2
<1>3. ASSUME NEW s \in Sessions, NEW k \in Clients, Delete(s, k) PROVE OneSteps
  <2>1. k \in Stoppers \ {"starter"}
    BY ClientsAreRequests DEF Stoppers
  <2> QED BY <1>3, <2>1, StopIsSessionStep, StepIsSessionStep DEF Delete
<1>4. ASSUME NEW s \in Sessions, NEW k \in Stoppers, StopStep(s, k) PROVE OneSteps
  BY <1>4, StepIsSessionStep DEF StopStep, SessionStep, StopperMoves
<1> QED BY <1>1, <1>2, <1>3, <1>4, StartIsSessionStep, PeerIsSessionStep
  DEF Next, OtherStep, StartStep, Load, Exit, Exited, vars

------------------------------------------------------------------------------
(* What the gateway is told, and how far the stoppers come, in the pod.     *)

Handover ==
    \A s \in Sessions \ {active} : ses[s].start = "unborn" \/ ToldStopped(ses[s])

ToldInv ==
    /\ PodInv
    /\ \A s \in Sessions : Told(ses[s]) /\ SfuOfStops(ses[s])
    /\ Handover

LEMMA InitToldInv == Init => ToldInv
<1> SUFFICES ASSUME Init PROVE ToldInv
  OBVIOUS
<1>1. ASSUME NEW s \in Sessions
      PROVE  /\ ses[s].start = "unborn" /\ ses[s].phase = "initializing"
             /\ ses[s].sent = << >> /\ ses[s].pipe = "none" /\ ses[s].sfu = "none"
             /\ ~ses[s].sfuClosed /\ ~ses[s].pipeCancelled
  BY DEF Init, NewSession
<1>2. \A s \in Sessions : Told(ses[s]) /\ SfuOfStops(ses[s])
  BY <1>1 DEF Told, SfuOfStops
<1> QED BY <1>1, <1>2, InitPodInv DEF ToldInv, Handover

\* The session that loses the pod was told to be stopped; the one that takes it is new.
LEMMA CreateToldInv ==
    ASSUME ToldInv, NEW s \in Sessions, Create(s), PodInv'
    PROVE  ToldInv'
<1> DEFINE q == [ses[s] EXCEPT !.start = "scheduled"]
<1>1. ses[s] \in SessionState /\ ses[s].start = "unborn"
  BY DEF Create, ToldInv, PodInv
<1>2. /\ q.start = "scheduled" /\ q.phase = ses[s].phase /\ q.sent = ses[s].sent
      /\ q.stops = ses[s].stops /\ SameSfu(ses[s], q)
  BY <1>1 DEF SessionState, SameSfu
<1>3. active' = s /\ \A t \in Sessions : ses'[t] = IF t = s THEN q ELSE ses[t]
  BY DEF Create, ToldInv, PodInv
<1> HIDE DEF q
<1>4. Told(q) /\ SfuOfStops(q)
  BY <1>1, <1>2, QuietTold DEF ToldInv, SameSfu, SfuOfStops
<1>5. active \in Sessions => ToldStopped(ses[active])
  <2>1. active \in Sessions => ses[active].phase \in {"stopped", "failed"} /\ active # NoSession
    BY SessionsAssumption DEF Create, Busy
  <2> QED BY <2>1 DEF ToldInv, Told, PodInv, SessionInv, PhaseOfTasks
<1>6. Handover'
  <2>1. \A t \in Sessions \ {s} : ses[t].start = "unborn" \/ ToldStopped(ses[t])
    BY <1>5 DEF ToldInv, Handover
  <2>2. \A t \in Sessions \ {s} : ses'[t] = ses[t]
    BY <1>3
  <2> QED BY <1>3, <2>1, <2>2 DEF Handover, ToldStopped
<1>7. \A t \in Sessions : Told(ses'[t]) /\ SfuOfStops(ses'[t])
  BY <1>3, <1>4 DEF ToldInv
<1> QED BY <1>6, <1>7 DEF ToldInv

LEMMA NextToldInv == ToldInv /\ [Next]_vars => ToldInv'
<1> SUFFICES ASSUME ToldInv, [Next]_vars PROVE ToldInv'
  OBVIOUS
<1>1. PodInv'
  BY NextPodInv DEF ToldInv
<1>2. CASE OneSteps
  <2>1. ASSUME NEW s \in Sessions
        PROVE  /\ Told(ses'[s]) /\ SfuOfStops(ses'[s])
               /\ ToldStopped(ses[s]) => ToldStopped(ses'[s])
               /\ ses[s].start = "unborn" => ses'[s].start = "unborn"
    <3>1. /\ SessionInv(ses[s]) /\ Told(ses[s]) /\ SfuOfStops(ses[s])
          /\ SessionStep(ses[s], ses'[s])
      BY <1>2 DEF ToldInv, PodInv, OneSteps
    <3> QED BY <3>1, StepTold, StepSfu
  <2>2. Handover'
    BY <1>2, <2>1 DEF ToldInv, Handover, OneSteps, ToldStopped
  <2> QED BY <1>1, <2>1, <2>2 DEF ToldInv
<1> QED BY <1>1, <1>2, NextMovesSessions, CreateToldInv DEF ToldInv

THEOREM ToldInvariant == Spec => []ToldInv
  BY InitToldInv, NextToldInv, PTL DEF Spec

------------------------------------------------------------------------------
(* Theorems for every gateway: nothing is assumed of StopsDuring.            *)

\* The variables keep their types: what the session and manager objects hold.
THEOREM TypeCorrect == Spec => []TypeOK
<1>1. PodInv => TypeOK
  BY DEF PodInv, TypeOK
<1> QED BY <1>1, PodInvariant, PTL

\* However DELETE, shutdown and start() interleave, the pipeline never runs
\* once the SFU peer has been closed.
THEOREM RenderingNeedsSfu == Spec => []NoRenderingWithoutSfu
<1>1. PodInv => NoRenderingWithoutSfu
  BY DEF PodInv, NoRenderingWithoutSfu, SessionInv, PipelineBeforeSfu
<1> QED BY <1>1, PodInvariant, PTL

\* A session at rest as stopped has given up its OpenAI connection: the one
\* resource for which the interleavings of start() and stop() never leak.
THEOREM StoppedReleasesOpenAI == Spec => []OpenAIReleased
<1>1. PodInv => OpenAIReleased
  BY DEF PodInv, OpenAIReleased, SessionInv, ClosedByAStopper, AtRest, Stopping,
         HoldsOpenAI
<1> QED BY <1>1, PodInvariant, PTL

\* An exception of the pipeline or of the speaker task is the only way for a
\* session to come to rest in another phase than ready or stopped.
THEOREM OnlyExceptionsGetStuck == Spec => []StuckOnlyByException
<1>1. PodInv => StuckOnlyByException
  BY DEF PodInv, StuckOnlyByException, SessionInv, PhaseOfTasks, AtRest
<1> QED BY <1>1, PodInvariant, PTL

\* A session loses _active only after its `stopped` was sent: what the gateway relies on
\* when it POSTs the next one.
THEOREM PodIsHandedOver == Spec => []TakeoverAfterStopped
<1>1. ToldInv => TakeoverAfterStopped
  BY DEF ToldInv, Handover, ToldStopped, TakeoverAfterStopped
<1> QED BY <1>1, ToldInvariant, PTL

\* However start() and stop() interleave, a session that came to rest as stopped is still
\* in the call only because its join ended after the SFU peer was closed, which a
\* StreamSfuPeer excludes, or because no stop() came as far as the SFU peer: a close()
\* that finds a connection always leaves it.
THEOREM SfuLeavesOrRaced == Spec => []SfuLeaksOnlyByRace
<1>1. ToldInv => SfuLeaksOnlyByRace
  <2> SUFFICES ASSUME ToldInv, NEW s \in Sessions,
                      AtRest(ses[s]), ses[s].phase = "stopped", HoldsSfu(ses[s])
               PROVE  IF ses[s].sfuClosed
                      THEN ses[s].joinedLate /\ ~ses[s].legacySfu
                      ELSE ses[s].pipeCancelled => ses[s].pipe = "crashed"
    BY DEF SfuLeaksOnlyByRace
  <2>1. SfuOfStops(ses[s]) /\ \A k \in Stoppers : ses[s].stops[k] = "idle"
    BY DEF ToldInv, AtRest, Stopping
  <2>2. ses[s].sfu \in {"joined", "lost"}
    BY <2>1 DEF SfuOfStops, HoldsSfu
  <2> QED BY <2>1, <2>2 DEF SfuOfStops
<1> QED BY <1>1, ToldInvariant, PTL
==============================================================================
