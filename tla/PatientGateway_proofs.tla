----------------------- MODULE PatientGateway_proofs -----------------------
(***************************************************************************)
(* What holds of the pod when the gateway waits for start() to end before  *)
(* it sends DELETE, and shutdown does too.  Without that premise both       *)
(* theorems are false: the run session_two_live shows how.                  *)
(***************************************************************************)
EXTENDS SessionManager_proofs

Closing(r) == r.oai \in {"closing", "draining", "closed"}

\* stop() is entered once, by start() or by a caller after it.
OneStop(r) ==
    /\ \A k \in Stoppers : r.stops[k] # "idle" =>
            /\ r.phase = "stopping"
            /\ r.start = IF k = "starter" THEN "cleanup" ELSE "done"
            /\ \A l \in Stoppers : r.stops[l] # "idle" => k = l
    /\ r.phase \in {"stopping", "stopped"} => r.start \in {"cleanup", "done"}
    /\ r.sfu = "joining" => r.start = "sfu_join"

\* Nothing is torn down before stop() gets to it.
NothingClosedEarly(r) ==
    /\ r.phase \notin {"stopping", "stopped"} =>
            ~r.sfuClosed /\ ~Closing(r) /\ r.pipe # "cancelling" /\ r.sfu # "leaving"
    /\ \A k \in Stoppers :
        /\ r.stops[k] \in {"speaker", "pipeline"} =>
                ~r.sfuClosed /\ ~Closing(r) /\ r.sfu # "leaving"
        /\ r.stops[k] = "sfu" => ~Closing(r)

\* Everything is torn down once stop() is past it, and not before its end.
TornDown(r) ==
    /\ \A k \in Stoppers :
        /\ r.stops[k] \in {"sfu", "openai"} => ~Rendering(r)
        /\ r.stops[k] = "sfu" => r.sfu \notin {"joined", "lost"}
        /\ r.stops[k] = "openai" => ~HoldsSfu(r)
        /\ r.stops[k] = "rings" => ~Rendering(r) /\ ~HoldsSfu(r) /\ r.oai = "closed"
    /\ r.phase = "stopped" => ~Live(r)
    /\ r.start \in {"unborn", "scheduled"} => r.oai = "none"
    /\ r.start \notin {"unborn", "scheduled"} /\ r.phase # "stopped" =>
            HoldsOpenAI(r) \/ \E k \in Stoppers : r.stops[k] = "rings"

PatientInv(r) == OneStop(r) /\ NothingClosedEarly(r) /\ TornDown(r)

------------------------------------------------------------------------------
(* stop(), when nobody else is in it.                                       *)

\* What holds of the session while k is inside stop(), between two stages.
Alone(r, k) ==
    /\ r \in SessionState
    /\ \A l \in Stoppers \ {k} : r.stops[l] = "idle"
    /\ r.phase = "stopping"
    /\ r.start = IF k = "starter" THEN "cleanup" ELSE "done"
    /\ r.sfu # "joining"
    /\ r.oai # "none"

LEMMA StopEndPatient ==
    ASSUME NEW r, NEW k \in Stoppers, Alone(r, k), ~Rendering(r), ~HoldsSfu(r),
           r.oai = "closed"
    PROVE  PatientInv(StopEnd(r, k))
<1> DEFINE q == [r EXCEPT !.phase = "stopped", !.stops[k] = "idle",
                   !.start = IF k = "starter" THEN "done" ELSE @]
           e == StopEnd(r, k)
<1>1. q \in SessionState
  BY DEF Alone, SessionState, Phases, StopPoints, StartPoints
<1>2. /\ q.phase = "stopped" /\ q.stops = [r.stops EXCEPT ![k] = "idle"]
      /\ q.start = "done" /\ q.oai = r.oai /\ q.sfu = r.sfu /\ q.pipe = r.pipe
      /\ q.sfuClosed = r.sfuClosed
  BY DEF Alone, SessionState
<1>3. \A l \in Stoppers : q.stops[l] = "idle"
  BY <1>2 DEF Alone, SessionState
<1> HIDE DEF q
<1>4. /\ e.phase = "stopped" /\ e.stops = q.stops /\ e.start = "done"
      /\ e.oai = r.oai /\ e.sfu = r.sfu /\ e.pipe = r.pipe
      /\ e.sfuClosed = r.sfuClosed
  BY <1>1, <1>2, EmitFields, ZenonT(60) DEF StopEnd, q
<1>5. ~Live(e)
  BY <1>3, <1>4 DEF Live, HoldsOpenAI, HoldsSfu, Rendering, Starting, Stopping
<1> HIDE DEF e
<1>6. PatientInv(e)
  BY <1>3, <1>4, <1>5 DEF Alone, PatientInv, OneStop, NothingClosedEarly, TornDown
<1> QED BY <1>6 DEF e

LEMMA ParkPatient ==
    ASSUME NEW r, NEW k \in Stoppers, Alone(r, k), NEW p \in StopPoints \ {"idle"},
           p # "rings" => HoldsOpenAI(r),
           p = "rings" => ~Rendering(r) /\ ~HoldsSfu(r) /\ r.oai = "closed",
           p \in {"speaker", "pipeline"} => ~r.sfuClosed /\ ~Closing(r) /\ r.sfu # "leaving",
           p = "sfu" => ~Closing(r) /\ r.sfu \notin {"joined", "lost"},
           p \in {"sfu", "openai"} => ~Rendering(r),
           p = "openai" => ~HoldsSfu(r)
    PROVE  PatientInv(Park(r, k, p))
<1> DEFINE q == Park(r, k, p)
<1>1. /\ q.stops = [r.stops EXCEPT ![k] = p]
      /\ q.phase = r.phase /\ q.sfu = r.sfu /\ q.sfuClosed = r.sfuClosed
      /\ q.pipe = r.pipe /\ q.oai = r.oai /\ q.start = r.start
  BY DEF Park, Alone, SessionState
<1>2. r.stops \in [Stoppers -> StopPoints]
  BY DEF Alone, SessionState
<1> HIDE DEF q
<1>3. OneStop(q)
  BY <1>1, <1>2 DEF Alone, OneStop
<1>4. NothingClosedEarly(q)
  BY <1>1, <1>2 DEF Alone, NothingClosedEarly, Closing
<1>5. TornDown(q)
  BY <1>1, <1>2 DEF Alone, TornDown, Rendering, HoldsSfu, HoldsOpenAI
<1> QED BY <1>3, <1>4, <1>5 DEF PatientInv, q

LEMMA StopRaisesPatient ==
    ASSUME NEW r, NEW k \in Stoppers, Alone(r, k), HoldsOpenAI(r)
    PROVE  PatientInv(StopRaises(r, k))
<1> DEFINE q == StopRaises(r, k)
<1>1. /\ q.stops = [r.stops EXCEPT ![k] = "idle"]
      /\ q.phase = r.phase /\ q.sfu = r.sfu /\ q.sfuClosed = r.sfuClosed
      /\ q.pipe = r.pipe /\ q.oai = r.oai /\ q.start = "done"
  BY DEF StopRaises, Alone, SessionState
<1>2. \A l \in Stoppers : q.stops[l] = "idle"
  BY <1>1 DEF Alone, SessionState
<1> HIDE DEF q
<1>3. PatientInv(q)
  BY <1>1, <1>2
  DEF Alone, PatientInv, OneStop, NothingClosedEarly, TornDown, HoldsOpenAI
<1> QED BY <1>3 DEF q

LEMMA StopRingsPatient ==
    ASSUME NEW r, NEW k \in Stoppers, Alone(r, k), ~Rendering(r), ~HoldsSfu(r),
           r.oai = "closed"
    PROVE  PatientInv(StopRings(r, k))
<1>1. "rings" \in StopPoints \ {"idle"}
  BY DEF StopPoints
<1> QED BY <1>1, ParkPatient, StopEndPatient DEF StopRings

LEMMA StopOpenAIPatient ==
    ASSUME NEW r, NEW k \in Stoppers, Alone(r, k), ~Rendering(r), ~HoldsSfu(r),
           ~Closing(r)
    PROVE  PatientInv(StopOpenAI(r, k))
<1> DEFINE f == [r EXCEPT !.oai = IF @ = "open" THEN "draining" ELSE "closing"]
           q == Park(f, k, "openai")
<1>1. /\ f \in SessionState /\ f.oai \in {"draining", "closing"} /\ f.sfu = r.sfu
      /\ f.phase = r.phase /\ f.start = r.start /\ f.stops = r.stops
      /\ f.pipe = r.pipe /\ f.sfuClosed = r.sfuClosed
  BY DEF Alone, SessionState, OaiStates
<1> HIDE DEF f
<1>2. Alone(f, k) /\ ~Rendering(f) /\ ~HoldsSfu(f) /\ HoldsOpenAI(f)
  BY <1>1 DEF Alone, Rendering, HoldsSfu, HoldsOpenAI
<1>3. "openai" \in StopPoints \ {"idle"}
  BY DEF StopPoints
<1>4. PatientInv(q)
  BY <1>2, <1>3, ParkPatient
<1>5. StopOpenAI(r, k) = q
  BY DEF StopOpenAI, Alone, Closing, f
<1> QED BY <1>4, <1>5

LEMMA StopSfuPatient ==
    ASSUME NEW r, NEW k \in Stoppers, Alone(r, k), ~Rendering(r), ~Closing(r),
           ~r.sfuClosed, r.sfu # "leaving"
    PROVE  PatientInv(StopSfu(r, k))
<1>1. CASE r.sfu = "none"
  BY <1>1, StopOpenAIPatient DEF StopSfu, HoldsSfu
<1>2. CASE r.sfu # "none"
  <2> DEFINE f == [r EXCEPT !.sfuClosed = TRUE,
                        !.sfu = IF @ \in Leavable(r) THEN "leaving" ELSE @]
             q == Park(f, k, "sfu")
  <2>1. /\ f \in SessionState /\ f.oai = r.oai /\ f.sfu \notin {"joined", "lost", "joining"}
        /\ f.phase = r.phase /\ f.start = r.start /\ f.stops = r.stops
        /\ f.pipe = r.pipe
    BY DEF Alone, SessionState, SfuStates, Leavable
  <2> HIDE DEF f
  <2>2. Alone(f, k) /\ ~Rendering(f) /\ ~Closing(f) /\ HoldsOpenAI(f)
    BY <2>1 DEF Alone, Rendering, Closing, HoldsOpenAI
  <2>3. "sfu" \in StopPoints \ {"idle"}
    BY DEF StopPoints
  <2>4. PatientInv(q)
    BY <2>1, <2>2, <2>3, ParkPatient
  <2> QED BY <1>2, <2>4 DEF StopSfu, f
<1> QED BY <1>1, <1>2

LEMMA StopPipelinePatient ==
    ASSUME NEW r, NEW k \in Stoppers, Alone(r, k), ~Closing(r),
           ~r.sfuClosed, r.sfu # "leaving"
    PROVE  PatientInv(StopPipeline(r, k))
<1> DEFINE f == [r EXCEPT !.pipeCancelled = (@ \/ r.pipe # "none")]
<1>1. /\ f \in SessionState /\ f.oai = r.oai /\ f.sfu = r.sfu
      /\ f.phase = r.phase /\ f.start = r.start /\ f.stops = r.stops
      /\ f.pipe = r.pipe /\ f.sfuClosed = r.sfuClosed
  BY DEF Alone, SessionState
<1> HIDE DEF f
<1>2. Alone(f, k) /\ ~Closing(f) /\ HoldsOpenAI(f) /\ ~f.sfuClosed /\ f.sfu # "leaving"
  BY <1>1 DEF Alone, Closing, HoldsOpenAI
<1>3. CASE r.pipe \in {"running", "cancelling"}
  <2> DEFINE g == [f EXCEPT !.pipe = "cancelling"]
             q == Park(g, k, "pipeline")
  <2>1. /\ g \in SessionState /\ g.oai = f.oai /\ g.sfu = f.sfu
        /\ g.phase = f.phase /\ g.start = f.start /\ g.stops = f.stops
        /\ g.sfuClosed = f.sfuClosed
    BY <1>1 DEF SessionState, PipeStates
  <2> HIDE DEF g
  <2>2. Alone(g, k) /\ ~Closing(g) /\ HoldsOpenAI(g) /\ ~g.sfuClosed /\ g.sfu # "leaving"
    BY <1>2, <2>1 DEF Alone, Closing, HoldsOpenAI
  <2>3. "pipeline" \in StopPoints \ {"idle"}
    BY DEF StopPoints
  <2>4. PatientInv(q)
    BY <2>2, <2>3, ParkPatient
  <2> QED BY <1>3, <2>4 DEF StopPipeline, g, f
<1>4. CASE r.pipe = "crashed"
  <2>1. PatientInv(StopRaises(f, k))
    BY <1>2, StopRaisesPatient
  <2> QED BY <1>4, <2>1 DEF StopPipeline, f
<1>5. CASE r.pipe \notin {"running", "cancelling", "crashed"}
  <2>1. PatientInv(StopSfu(f, k))
    BY <1>1, <1>2, <1>5, StopSfuPatient DEF Rendering
  <2> QED BY <1>5, <2>1 DEF StopPipeline, f
<1> QED BY <1>3, <1>4, <1>5

LEMMA StopSpeakerPatient ==
    ASSUME NEW r, NEW k \in Stoppers, Alone(r, k), ~Closing(r),
           ~r.sfuClosed, r.sfu # "leaving"
    PROVE  PatientInv(StopSpeaker(r, k))
<1>1. CASE r.speaker = "none"
  BY <1>1, StopPipelinePatient DEF StopSpeaker
<1>2. CASE r.speaker = "cancelled"
  <2>1. HoldsOpenAI(r)
    BY DEF Alone, Closing, HoldsOpenAI
  <2> QED BY <1>2, <2>1, StopRaisesPatient DEF StopSpeaker
<1>3. CASE r.speaker \notin {"none", "cancelled"}
  <2> DEFINE g == [r EXCEPT !.speaker = "cancelling"]
             q == Park(g, k, "speaker")
  <2>1. /\ g \in SessionState /\ g.oai = r.oai /\ g.sfu = r.sfu
        /\ g.phase = r.phase /\ g.start = r.start /\ g.stops = r.stops
        /\ g.sfuClosed = r.sfuClosed /\ g.pipe = r.pipe
    BY DEF Alone, SessionState, SpeakerStates
  <2> HIDE DEF g
  <2>2. Alone(g, k) /\ ~Closing(g) /\ HoldsOpenAI(g) /\ ~g.sfuClosed /\ g.sfu # "leaving"
    BY <2>1 DEF Alone, Closing, HoldsOpenAI
  <2>3. "speaker" \in StopPoints \ {"idle"}
    BY DEF StopPoints
  <2>4. PatientInv(q)
    BY <2>2, <2>3, ParkPatient
  <2> QED BY <1>3, <2>4 DEF StopSpeaker, g
<1> QED BY <1>1, <1>2, <1>3

\* A DELETE or the shutdown hook, on a session whose start() is over.
LEMMA StopPatient ==
    ASSUME NEW r, NEW k \in Stoppers, SessionInv(r), PatientInv(r),
           k # "starter", r.start = "done", r.phase \notin {"stopping", "stopped"}
    PROVE  PatientInv(Stop(r, k))
<1> DEFINE q == [r EXCEPT !.phase = "stopping"]
<1>1. r \in SessionState /\ \A l \in Stoppers : r.stops[l] = "idle"
  BY DEF SessionInv, PatientInv, OneStop
<1>2. /\ q \in SessionState
      /\ q.phase = "stopping" /\ q.stops = r.stops /\ q.start = "done"
      /\ q.oai = r.oai /\ q.sfu = r.sfu /\ q.sfuClosed = r.sfuClosed
  BY <1>1 DEF SessionState, Phases
<1> HIDE DEF q
<1>3. Alone(q, k)
  BY <1>1, <1>2 DEF Alone, PatientInv, OneStop, TornDown, HoldsOpenAI
<1>4. ~Closing(q) /\ ~q.sfuClosed /\ q.sfu # "leaving"
  BY <1>2 DEF PatientInv, NothingClosedEarly, Closing
<1> QED BY <1>3, <1>4, StopSpeakerPatient DEF Stop, q

LEMMA StartFailsPatient ==
    ASSUME NEW r, SessionInv(r), PatientInv(r), NEW b, FailsWith(r, b)
    PROVE  PatientInv(StartFails(b))
<1> DEFINE q == [b EXCEPT !.phase = "failed", !.lastError = TRUE,
                          !.start = "cleanup",
                          !.sfu = IF @ = "joining" THEN "unjoined" ELSE @]
           e == Emit(q, "error")
           f == [e EXCEPT !.phase = "stopping"]
<1>1. /\ r \in SessionState /\ r.phase \notin {"stopping", "stopped"}
      /\ \A l \in Stoppers : r.stops[l] = "idle"
      /\ HoldsOpenAI(r) /\ ~Closing(r) /\ ~r.sfuClosed /\ r.sfu # "leaving"
  <2>1. r.start \in StartAwaits
    BY DEF FailsWith, StartAwaits
  <2> QED BY <2>1 DEF SessionInv, PatientInv, OneStop, NothingClosedEarly, TornDown, StartAwaits
<1>2. /\ b \in SessionState /\ b.stops = r.stops /\ b.oai = r.oai /\ b.sfu = r.sfu
      /\ b.sfuClosed = r.sfuClosed
  BY <1>1 DEF FailsWith, SessionState, PipeStates
<1>3. /\ q \in SessionState /\ q.stops = r.stops /\ q.start = "cleanup"
      /\ q.oai = r.oai /\ q.sfu \notin {"joining", "leaving"}
      /\ q.sfuClosed = r.sfuClosed
  BY <1>1, <1>2, ZenonT(60) DEF SessionState, Phases, SfuStates, StartPoints
<1> HIDE DEF q
<1>4. /\ e \in SessionState /\ e.stops = r.stops /\ e.start = "cleanup"
      /\ e.oai = r.oai /\ e.sfu \notin {"joining", "leaving"}
      /\ e.sfuClosed = r.sfuClosed
  BY <1>3, EmitType, EmitFields DEF Events
<1> HIDE DEF e
<1>5. /\ f \in SessionState /\ f.stops = r.stops /\ f.start = "cleanup"
      /\ f.phase = "stopping" /\ f.oai = r.oai
      /\ f.sfu \notin {"joining", "leaving"} /\ f.sfuClosed = r.sfuClosed
  BY <1>4 DEF SessionState, Phases
<1> HIDE DEF f
<1>6. Alone(f, "starter") /\ "starter" \in Stoppers
  BY <1>1, <1>5 DEF Alone, HoldsOpenAI, Stoppers
<1>7. ~Closing(f) /\ ~f.sfuClosed /\ f.sfu # "leaving"
  BY <1>1, <1>5 DEF Closing
<1> QED BY <1>6, <1>7, StopSpeakerPatient DEF StartFails, Stop, f, e, q

LEMMA StopResumesPatient ==
    ASSUME NEW r, NEW k \in Stoppers, SessionInv(r), PatientInv(r), r.stops[k] # "idle"
    PROVE  PatientInv(StopResumes(r, k))
<1>1. /\ r \in SessionState /\ r.stops[k] \in StopPoints
      /\ Alone(r, k) /\ (r.stops[k] # "rings" => HoldsOpenAI(r))
  BY DEF SessionInv, PatientInv, OneStop, TornDown, Alone, SessionState, HoldsOpenAI
<1>2. CASE r.stops[k] = "speaker"
  <2> DEFINE q == [r EXCEPT !.speaker = "cancelled"]
  <2>1. /\ q \in SessionState /\ q.phase = r.phase /\ q.stops = r.stops
        /\ q.start = r.start /\ q.oai = r.oai /\ q.sfu = r.sfu
    BY <1>1 DEF SessionState, SpeakerStates
  <2> HIDE DEF q
  <2>2. Alone(q, k) /\ HoldsOpenAI(q)
    BY <1>1, <1>2, <2>1 DEF Alone, HoldsOpenAI
  <2>3. PatientInv(StopRaises(q, k))
    BY <2>2, StopRaisesPatient
  <2> QED BY <1>2, <2>3 DEF StopResumes, q
<1>3. CASE r.stops[k] = "pipeline" /\ r.pipe = "crashed"
  BY <1>1, <1>3, StopRaisesPatient DEF StopResumes, AfterPipeline
<1>4. CASE r.stops[k] = "pipeline" /\ r.pipe # "crashed"
  <2> DEFINE q == [r EXCEPT !.pipe = "cancelled"]
  <2>1. /\ q \in SessionState /\ q.phase = r.phase /\ q.stops = r.stops
        /\ q.start = r.start /\ q.oai = r.oai /\ q.sfu = r.sfu
        /\ q.sfuClosed = r.sfuClosed /\ q.pipe = "cancelled"
    BY <1>1 DEF SessionState, PipeStates
  <2> HIDE DEF q
  <2>2. Alone(q, k) /\ ~Rendering(q)
    BY <1>1, <2>1 DEF Alone, Rendering
  <2>3. ~Closing(q) /\ ~q.sfuClosed /\ q.sfu # "leaving"
    BY <1>4, <2>1 DEF PatientInv, NothingClosedEarly, Closing
  <2>4. PatientInv(StopSfu(q, k))
    BY <2>2, <2>3, StopSfuPatient
  <2> QED BY <1>4, <2>4 DEF StopResumes, AfterPipeline, q
<1>5. CASE r.stops[k] = "sfu"
  <2> DEFINE q == [r EXCEPT !.sfu = IF @ = "leaving" THEN "left" ELSE @]
  <2>1. /\ q \in SessionState /\ q.phase = r.phase /\ q.stops = r.stops
        /\ q.start = r.start /\ q.oai = r.oai /\ q.pipe = r.pipe
        /\ q.sfu \in {"left", r.sfu} /\ q.sfu # "leaving"
    BY <1>1 DEF SessionState, SfuStates
  <2> HIDE DEF q
  <2>2. r.sfu \notin {"joined", "lost", "joining"} /\ ~Rendering(r) /\ ~Closing(r)
    BY <1>1, <1>5 DEF PatientInv, TornDown, NothingClosedEarly, Alone
  <2>3. Alone(q, k) /\ ~Rendering(q) /\ ~HoldsSfu(q) /\ ~Closing(q)
    BY <1>1, <2>1, <2>2 DEF Alone, Rendering, HoldsSfu, Closing
  <2>4. PatientInv(StopOpenAI(q, k))
    BY <2>3, StopOpenAIPatient
  <2> QED BY <1>5, <2>4 DEF StopResumes, q
<1>6. CASE r.stops[k] = "openai"
  <2> DEFINE q == [r EXCEPT !.oai = "closed"]
  <2>1. /\ q \in SessionState /\ q.phase = r.phase /\ q.stops = r.stops
        /\ q.start = r.start /\ q.oai = "closed" /\ q.pipe = r.pipe
        /\ q.sfu = r.sfu
    BY <1>1 DEF SessionState, OaiStates
  <2> HIDE DEF q
  <2>2. ~Rendering(r) /\ ~HoldsSfu(r)
    BY <1>6 DEF PatientInv, TornDown
  <2>3. Alone(q, k) /\ ~Rendering(q) /\ ~HoldsSfu(q)
    BY <1>1, <2>1, <2>2 DEF Alone, Rendering, HoldsSfu
  <2>4. PatientInv(StopRings(q, k))
    BY <2>1, <2>3, StopRingsPatient
  <2> QED BY <1>6, <2>4 DEF StopResumes, q
<1>7. CASE r.stops[k] = "rings"
  <2>1. ~Rendering(r) /\ ~HoldsSfu(r) /\ r.oai = "closed"
    BY <1>7 DEF PatientInv, TornDown
  <2> QED BY <1>1, <1>7, <2>1, StopEndPatient DEF StopResumes
<1> QED BY <1>1, <1>2, <1>3, <1>4, <1>5, <1>6, <1>7 DEF StopPoints

------------------------------------------------------------------------------
(* start() and the peers.                                                   *)

\* A step of start() that does not fail.
Advances(r, q) ==
    /\ r.start \notin {"unborn", "cleanup", "done"}
    /\ q.start \notin {"unborn", "scheduled", "cleanup"}
    /\ q.stops = r.stops /\ q.sfuClosed = r.sfuClosed
    /\ q.phase = r.phase \/ q.phase \notin {"stopping", "stopped"}
    /\ (q.oai = r.oai /\ r.start # "scheduled") \/ q.oai \in {"connecting", "opening"}
    /\ \/ q.sfu = r.sfu /\ r.start # "sfu_join"
       \/ q.sfu = "joining" /\ q.start = "sfu_join"
       \/ q.sfu = "joined"
    /\ q.pipe = r.pipe \/ q.pipe \in {"built", "running", "ended"}

LEMMA StartPatient ==
    ASSUME NEW r, NEW q, PatientInv(r), Advances(r, q)
    PROVE  PatientInv(q)
<1>1. /\ \A k \in Stoppers : q.stops[k] = "idle"
      /\ r.phase \notin {"stopping", "stopped"}
  BY DEF PatientInv, OneStop, Advances
<1>2. OneStop(q)
  BY <1>1 DEF Advances, PatientInv, OneStop
<1>3. NothingClosedEarly(q)
  BY <1>1 DEF Advances, PatientInv, NothingClosedEarly, Closing
<1>4. TornDown(q)
  BY <1>1 DEF Advances, PatientInv, TornDown, HoldsOpenAI
<1> QED BY <1>2, <1>3, <1>4 DEF PatientInv

\* A step of a peer or of the GPU.
Reacts(r, q) ==
    /\ q.stops = r.stops /\ q.sfuClosed = r.sfuClosed
    /\ q.start = r.start /\ q.phase = r.phase
    /\ q.oai = r.oai \/ {r.oai, q.oai} \subseteq {"opening", "open", "dead"}
    /\ q.sfu = r.sfu \/ (r.sfu = "joined" /\ q.sfu = "lost")
    /\ q.pipe = r.pipe \/ (Rendering(r) /\ q.pipe = "crashed")

LEMMA PeerPatient ==
    ASSUME NEW r, NEW q, PatientInv(r), Reacts(r, q)
    PROVE  PatientInv(q)
<1>1. OneStop(q)
  BY DEF Reacts, PatientInv, OneStop
<1>2. NothingClosedEarly(q)
  BY DEF Reacts, PatientInv, NothingClosedEarly, Closing
<1>3. TornDown(q)
  BY DEF Reacts, PatientInv, TornDown, HoldsOpenAI, HoldsSfu, Rendering, Live, Starting, Stopping
<1> QED BY <1>1, <1>2, <1>3 DEF PatientInv

\* The session the gateway has just posted; and one it has not posted yet.
LEMMA SchedulePatient ==
    ASSUME NEW r, SessionInv(r), PatientInv(r), r.start = "unborn"
    PROVE  PatientInv([r EXCEPT !.start = "scheduled"])
<1> DEFINE q == [r EXCEPT !.start = "scheduled"]
<1>1. /\ q.stops = r.stops /\ q.phase = r.phase /\ q.start = "scheduled"
      /\ q.oai = r.oai /\ q.sfu = r.sfu /\ q.sfuClosed = r.sfuClosed
      /\ q.pipe = r.pipe
  BY DEF SessionInv, SessionState
<1> HIDE DEF q
<1>2. r.phase \notin {"stopping", "stopped"} /\ \A k \in Stoppers : r.stops[k] = "idle"
  BY DEF Reacts, PatientInv, OneStop
<1>3. OneStop(q) /\ NothingClosedEarly(q) /\ TornDown(q)
  BY <1>1, <1>2 DEF PatientInv, OneStop, NothingClosedEarly, TornDown, Closing
<1> QED BY <1>3 DEF PatientInv, q

LEMMA NewSessionPatient ==
    ASSUME NEW b
    PROVE  PatientInv(NewSession(b)) /\ ~Live(NewSession(b))
<1> DEFINE r == NewSession(b)
<1>1. /\ \A k \in Stoppers : r.stops[k] = "idle"
      /\ r.phase = "initializing" /\ r.start = "unborn" /\ r.oai = "none"
      /\ r.sfu = "none" /\ r.sfuClosed = FALSE /\ r.pipe = "none"
  BY DEF NewSession
<1> HIDE DEF r
<1>2. PatientInv(r)
  BY <1>1 DEF PatientInv, OneStop, NothingClosedEarly, TornDown, Closing
<1>3. ~Live(r)
  BY <1>1 DEF Live, HoldsOpenAI, HoldsSfu, Rendering, Starting, Stopping
<1> QED BY <1>2, <1>3 DEF r

------------------------------------------------------------------------------
(* The pod: only the active session does anything.                          *)

PatientPodInv ==
    /\ PodInv
    /\ \A s \in Sessions : PatientInv(ses[s])
    /\ \A s \in Sessions : s # active => ~Live(ses[s])
    /\ active \in Sessions => ses[active].start # "unborn"

LEMMA InitPatientPod == Init => PatientPodInv
  BY InitPodInv, NewSessionPatient, SessionsAssumption DEF Init, PatientPodInv

\* A step of a session that is live is a step of the active one.
LEMMA StepPatientPod ==
    ASSUME PatientPodInv, PodInv', NEW s \in Sessions, NEW r, Step(s, r),
           Live(ses[s]) \/ s = active, PatientInv(r), r.start # "unborn"
    PROVE  PatientPodInv'
<1>1. s = active /\ active' = active
  BY DEF PatientPodInv, Step
<1>2. \A t \in Sessions : ses'[t] = IF t = s THEN r ELSE ses[t]
  BY DEF PatientPodInv, PodInv, Step
<1> QED BY <1>1, <1>2 DEF PatientPodInv

LEMMA StartStepPatientPod ==
    ASSUME PatientPodInv, PodInv', NEW s \in Sessions, StartStep(s)
    PROVE  PatientPodInv'
<1> DEFINE r == ses[s]
<1>1. SessionInv(r) /\ PatientInv(r) /\ r \in SessionState
  BY DEF PatientPodInv, PodInv, SessionInv
<1>2. Live(r)
  BY DEF StartStep, IdentityStep, OtherStartStep,
         StartBegins, OpenAIConnected, ChannelReady, PortraitLoaded,
         SfuJoined, TracksPublished, FrameSeen, StartRaises, MayFail, StartAwaits,
         Live, Starting
<1>3. CASE StartBegins(s)
  <2> DEFINE q == ConnectOpenAI(r)
  <2>1. /\ q.stops = r.stops /\ q.sfuClosed = r.sfuClosed /\ q.pipe = r.pipe
        /\ q.start = "oai_connect" /\ q.phase = "openai_connecting"
        /\ q.oai = "connecting" /\ q.sfu = r.sfu /\ r.start = "scheduled"
    BY <1>1, <1>3 DEF StartBegins, ConnectOpenAI, SessionState
  <2> HIDE DEF q
  <2>2. Advances(r, q)
    BY <2>1 DEF Advances
  <2>3. PatientInv(q)
    BY <1>1, <2>2, StartPatient
  <2>4. Step(s, q)
    BY <1>3 DEF StartBegins, q
  <2> QED BY <1>2, <2>1, <2>3, <2>4, StepPatientPod
<1>4. CASE OpenAIConnected(s)
  <2> DEFINE q == AwaitChannel(r)
  <2>1. /\ q.stops = r.stops /\ q.sfuClosed = r.sfuClosed /\ q.pipe = r.pipe
        /\ q.start = "oai_open" /\ q.phase = r.phase
        /\ q.oai = "opening" /\ q.sfu = r.sfu /\ r.start = "oai_connect"
    BY <1>1, <1>4 DEF OpenAIConnected, AwaitChannel, SessionState
  <2> HIDE DEF q
  <2>2. Advances(r, q)
    BY <2>1 DEF Advances
  <2>3. PatientInv(q)
    BY <1>1, <2>2, StartPatient
  <2>4. Step(s, q)
    BY <1>4 DEF OpenAIConnected, q
  <2> QED BY <1>2, <2>1, <2>3, <2>4, StepPatientPod
<1>5. ASSUME r.start \in {"oai_open", "load_image"}, Step(s, BuildAndJoin(r))
      PROVE  PatientPodInv'
  <2> DEFINE q == BuildAndJoin(r)
  <2>1. /\ q.stops = r.stops /\ q.sfuClosed = r.sfuClosed /\ q.pipe = "built"
        /\ q.start = "sfu_join" /\ q.phase = "sfu_connecting"
        /\ q.oai = r.oai /\ q.sfu = "joining"
    BY <1>1 DEF BuildAndJoin, SessionState
  <2> HIDE DEF q
  <2>2. Advances(r, q)
    BY <1>5, <2>1 DEF Advances
  <2>3. PatientInv(q)
    BY <1>1, <2>2, StartPatient
  <2>4. Step(s, q)
    BY <1>5 DEF q
  <2> QED BY <1>2, <2>1, <2>3, <2>4, StepPatientPod
<1>6. ASSUME r.start = "oai_open", Step(s, LoadImage(r))
      PROVE  PatientPodInv'
  <2> DEFINE q == LoadImage(r)
  <2>1. /\ q.stops = r.stops /\ q.sfuClosed = r.sfuClosed /\ q.pipe = r.pipe
        /\ q.start = "load_image" /\ q.phase = "model_loading"
        /\ q.oai = r.oai /\ q.sfu = r.sfu
    BY <1>1 DEF LoadImage, SessionState
  <2> HIDE DEF q
  <2>2. Advances(r, q)
    BY <1>6, <2>1 DEF Advances
  <2>3. PatientInv(q)
    BY <1>1, <2>2, StartPatient
  <2>4. Step(s, q)
    BY <1>6 DEF q
  <2> QED BY <1>2, <2>1, <2>3, <2>4, StepPatientPod
<1>7. ASSUME NEW b, FailsWith(r, b), Step(s, StartFails(b))
       PROVE  PatientPodInv'
  <2>1. b \in SessionState
    BY <1>1, <1>7 DEF FailsWith, SessionState, PipeStates
  <2>2. PatientInv(StartFails(b)) /\ StartFails(b).start # "unborn"
    BY <1>1, <1>7, <2>1, StartFailsPatient, StartFailsMoves, FailedFields DEF Moves
  <2> QED BY <1>2, <1>7, <2>2, StepPatientPod
<1>8. ASSUME r.start \in {"oai_open", "load_image"}, NEW q \in Builds(r), Step(s, q)
       PROVE  PatientPodInv'
  BY <1>5, <1>7, <1>8 DEF Builds, FailsWith, StartAwaits
<1>9. CASE ChannelReady(s)
  BY <1>6, <1>9, <1>8 DEF ChannelReady
<1>10. CASE PortraitLoaded(s)
  BY <1>10, <1>8 DEF PortraitLoaded
<1>11. CASE SfuJoined(s)
  <2> DEFINE q == PublishTracks(r)
  <2>1. /\ q.stops = r.stops /\ q.sfuClosed = r.sfuClosed /\ q.pipe = r.pipe
        /\ q.start = "sfu_publish" /\ q.phase = r.phase
        /\ q.oai = r.oai /\ q.sfu = "joined" /\ r.start = "sfu_join"
    BY <1>1, <1>11 DEF SfuJoined, PublishTracks, SessionState
  <2> HIDE DEF q
  <2>2. Advances(r, q)
    BY <2>1 DEF Advances
  <2>3. PatientInv(q)
    BY <1>1, <2>2, StartPatient
  <2>4. Step(s, q)
    BY <1>11 DEF SfuJoined, q
  <2> QED BY <1>2, <2>1, <2>3, <2>4, StepPatientPod
<1>12. CASE TracksPublished(s)
  <2> DEFINE q == WarmUp(r, s \in SpeakerLoop)
  <2>1. /\ q.stops = r.stops /\ q.sfuClosed = r.sfuClosed
        /\ q.pipe \in {"ended", "running"}
        /\ q.start = "first_frame" /\ q.phase = "warming_up"
        /\ q.oai = r.oai /\ q.sfu = r.sfu /\ r.start = "sfu_publish"
    BY <1>1, <1>12 DEF TracksPublished, WarmUp, SessionState
  <2> HIDE DEF q
  <2>2. Advances(r, q)
    BY <2>1 DEF Advances
  <2>3. PatientInv(q)
    BY <1>1, <2>2, StartPatient
  <2>4. Step(s, q)
    BY <1>12 DEF TracksPublished, q
  <2> QED BY <1>2, <2>1, <2>3, <2>4, StepPatientPod
<1>13. CASE FrameSeen(s)
  <2> DEFINE f == [r EXCEPT !.phase = "ready", !.start = "done"]
             q == Emit(f, "avatar_ready")
  <2>1. /\ f \in SessionState /\ f.stops = r.stops /\ f.sfuClosed = r.sfuClosed
        /\ f.pipe = r.pipe /\ f.start = "done" /\ f.phase = "ready"
        /\ f.oai = r.oai /\ f.sfu = r.sfu /\ r.start = "first_frame"
    BY <1>1, <1>13 DEF FrameSeen, SessionState, Phases, StartPoints
  <2> HIDE DEF f
  <2>2. /\ q.stops = r.stops /\ q.sfuClosed = r.sfuClosed
        /\ q.pipe = r.pipe /\ q.start = "done" /\ q.phase = "ready"
        /\ q.oai = r.oai /\ q.sfu = r.sfu
    BY <2>1, EmitFields
  <2> HIDE DEF q
  <2>3. Advances(r, q)
    BY <2>1, <2>2 DEF Advances
  <2>4. PatientInv(q)
    BY <1>1, <2>3, StartPatient
  <2>5. Step(s, q)
    BY <1>13 DEF FrameSeen, BecomeReady, q, f
  <2> QED BY <1>2, <2>2, <2>4, <2>5, StepPatientPod
<1>14. CASE StartRaises(s)
  BY <1>7, <1>14 DEF StartRaises, MayFail, FailsWith
<1> QED BY <1>3, <1>4, <1>9, <1>10, <1>11, <1>12, <1>13, <1>14
  DEF StartStep, IdentityStep, OtherStartStep

LEMMA PeerStepPatientPod ==
    ASSUME PatientPodInv, PodInv', NEW s \in Sessions,
           ChannelOpens(s) \/ OpenAIDies(s) \/ SfuDies(s) \/ FirstFrame(s)
                \/ PipelineCrashes(s)
    PROVE  PatientPodInv'
<1> DEFINE r == ses[s]
<1>1. PatientInv(r) /\ r \in SessionState
  BY DEF PatientPodInv, PodInv
<1>2. Live(r)
  BY DEF ChannelOpens, OpenAIDies, SfuDies, FirstFrame, PipelineCrashes,
         Live, HoldsOpenAI, HoldsSfu, Rendering
<1>3. s = active /\ r.start # "unborn"
  BY <1>2 DEF PatientPodInv
<1>4. CASE ChannelOpens(s)
  <2> DEFINE q == [r EXCEPT !.oai = "open"]
  <2>1. /\ q.stops = r.stops /\ q.sfuClosed = r.sfuClosed /\ q.start = r.start
        /\ q.phase = r.phase /\ q.oai = "open" /\ r.oai = "opening"
        /\ q.sfu = r.sfu /\ q.pipe = r.pipe
    BY <1>1, <1>4 DEF ChannelOpens, SessionState
  <2>2. Step(s, q)
    BY <1>4 DEF ChannelOpens
  <2> HIDE DEF q
  <2>3. Reacts(r, q)
    BY <2>1 DEF Reacts
  <2>4. PatientInv(q)
    BY <1>1, <2>3, PeerPatient
  <2> QED BY <1>3, <2>1, <2>2, <2>4, StepPatientPod
<1>5. CASE OpenAIDies(s)
  <2> DEFINE q == [r EXCEPT !.oai = "dead"]
  <2>1. /\ q.stops = r.stops /\ q.sfuClosed = r.sfuClosed /\ q.start = r.start
        /\ q.phase = r.phase /\ q.oai = "dead" /\ r.oai \in {"opening", "open"}
        /\ q.sfu = r.sfu /\ q.pipe = r.pipe
    BY <1>1, <1>5 DEF OpenAIDies, SessionState
  <2>2. Step(s, q)
    BY <1>5 DEF OpenAIDies
  <2> HIDE DEF q
  <2>3. Reacts(r, q)
    BY <2>1 DEF Reacts
  <2>4. PatientInv(q)
    BY <1>1, <2>3, PeerPatient
  <2> QED BY <1>3, <2>1, <2>2, <2>4, StepPatientPod
<1>6. CASE SfuDies(s)
  <2> DEFINE q == [r EXCEPT !.sfu = "lost"]
  <2>1. /\ q.stops = r.stops /\ q.sfuClosed = r.sfuClosed /\ q.start = r.start
        /\ q.phase = r.phase /\ q.oai = r.oai /\ q.pipe = r.pipe
        /\ q.sfu = "lost" /\ r.sfu = "joined"
    BY <1>1, <1>6 DEF SfuDies, SessionState
  <2>2. Step(s, q)
    BY <1>6 DEF SfuDies
  <2> HIDE DEF q
  <2>3. Reacts(r, q)
    BY <2>1 DEF Reacts
  <2>4. PatientInv(q)
    BY <1>1, <2>3, PeerPatient
  <2> QED BY <1>3, <2>1, <2>2, <2>4, StepPatientPod
<1>7. CASE FirstFrame(s)
  <2> DEFINE q == [r EXCEPT !.firstFrame = TRUE]
  <2>1. /\ q.stops = r.stops /\ q.sfuClosed = r.sfuClosed /\ q.start = r.start
        /\ q.phase = r.phase /\ q.oai = r.oai /\ q.pipe = r.pipe /\ q.sfu = r.sfu
    BY <1>1 DEF SessionState
  <2>2. Step(s, q)
    BY <1>7 DEF FirstFrame
  <2> HIDE DEF q
  <2>3. Reacts(r, q)
    BY <2>1 DEF Reacts
  <2>4. PatientInv(q)
    BY <1>1, <2>3, PeerPatient
  <2> QED BY <1>3, <2>1, <2>2, <2>4, StepPatientPod
<1>8. CASE PipelineCrashes(s)
  <2> DEFINE q == [r EXCEPT !.pipe = "crashed"]
  <2>1. /\ q.stops = r.stops /\ q.sfuClosed = r.sfuClosed /\ q.start = r.start
        /\ q.phase = r.phase /\ q.oai = r.oai /\ q.sfu = r.sfu
        /\ q.pipe = "crashed" /\ Rendering(r)
    BY <1>1, <1>8 DEF PipelineCrashes, SessionState
  <2>2. Step(s, q)
    BY <1>8 DEF PipelineCrashes
  <2> HIDE DEF q
  <2>3. Reacts(r, q)
    BY <2>1 DEF Reacts
  <2>4. PatientInv(q)
    BY <1>1, <2>3, PeerPatient
  <2> QED BY <1>3, <2>1, <2>2, <2>4, StepPatientPod
<1> QED BY <1>4, <1>5, <1>6, <1>7, <1>8

\* When no session is busy, none is live: stopping is over when it is over.
LEMMA FreePodIsEmpty ==
    ASSUME PatientPodInv, ~Busy, NEW s \in Sessions
    PROVE  ~Live(ses[s])
<1>1. CASE s # active
  BY <1>1 DEF PatientPodInv
<1>2. CASE s = active
  <2>1. ses[s].phase \in {"stopped", "failed"}
    BY <1>2, SessionsAssumption DEF Busy
  <2>2. ses[s].phase # "failed"
    BY DEF PatientPodInv, PodInv, SessionInv, PhaseOfTasks
  <2> QED BY <2>1, <2>2 DEF PatientPodInv, PatientInv, TornDown
<1> QED BY <1>1, <1>2

LEMMA CreatePatientPod ==
    ASSUME PatientPodInv, PodInv', NEW s \in Sessions, Create(s)
    PROVE  PatientPodInv'
<1> DEFINE r == ses[s]
           q == [r EXCEPT !.start = "scheduled"]
<1>1. SessionInv(r) /\ PatientInv(r) /\ r.start = "unborn" /\ r \in SessionState
  BY DEF PatientPodInv, PodInv, SessionInv, Create
<1>2. PatientInv(q) /\ q.start = "scheduled"
  BY <1>1, SchedulePatient DEF SessionState
<1>3. \A t \in Sessions : ~Live(ses[t])
  BY FreePodIsEmpty DEF Create
<1>4. active' = s /\ ses' = [ses EXCEPT ![s] = q]
  BY DEF Create
<1> HIDE DEF q
<1>5. \A t \in Sessions : ses'[t] = IF t = s THEN q ELSE ses[t]
  BY <1>4 DEF PatientPodInv, PodInv
<1> QED BY <1>2, <1>3, <1>4, <1>5 DEF PatientPodInv

\* A session that is busy and not starting is past its start().
LEMMA BusyIsStarted ==
    ASSUME PatientPodInv, active \in Sessions, ~Starting(ses[active])
    PROVE  ses[active].start = "done"
  BY DEF PatientPodInv, Starting

LEMMA DeletePatientPod ==
    ASSUME PatientPodInv, PodInv', StopsDuring = {},
           NEW s \in Sessions, NEW k \in Clients, Delete(s, k)
    PROVE  PatientPodInv'
<1> DEFINE r == ses[s]
           q == Stop(r, k)
<1>1. SessionInv(r) /\ PatientInv(r) /\ r \in SessionState
  BY DEF PatientPodInv, PodInv, SessionInv
<1>2. s = active /\ r.start = "done" /\ r.phase \notin {"stopping", "stopped"}
  BY BusyIsStarted DEF Delete, MayStop, StopReturnsAtOnce
<1>3. k \in Stoppers /\ k # "starter"
  BY ClientsAreRequests DEF Stoppers
<1>4. PatientInv(q)
  BY <1>1, <1>2, <1>3, StopPatient
<1>5. q.start # "unborn"
  BY <1>1, <1>2, <1>3, StopMoves DEF Moves
<1>6. Step(s, q)
  BY DEF Delete
<1> HIDE DEF q
<1> QED BY <1>2, <1>4, <1>5, <1>6, StepPatientPod

LEMMA StopStepPatientPod ==
    ASSUME PatientPodInv, PodInv', NEW s \in Sessions, NEW k \in Stoppers, StopStep(s, k)
    PROVE  PatientPodInv'
<1> DEFINE r == ses[s]
           q == StopResumes(r, k)
<1>1. SessionInv(r) /\ PatientInv(r) /\ r \in SessionState /\ r.stops[k] # "idle"
  BY DEF PatientPodInv, PodInv, SessionInv, StopStep
<1>2. Live(r)
  BY <1>1 DEF Live, Stopping
<1>3. PatientInv(q)
  BY <1>1, StopResumesPatient
<1>4. r.start \in {"cleanup", "done"}
  BY <1>1 DEF PatientInv, OneStop
<1>5. q.start # "unborn"
  BY <1>1, <1>4, StopResumesMoves DEF Moves
<1>6. Step(s, q)
  BY DEF StopStep
<1> HIDE DEF q
<1> QED BY <1>2, <1>3, <1>5, <1>6, StepPatientPod

LEMMA ShutdownPatientPod ==
    ASSUME PatientPodInv, PodInv', StopsDuring = {}, Shutdown
    PROVE  PatientPodInv'
<1>1. CASE Busy /\ ~StopReturnsAtOnce(ses[active])
  <2> DEFINE r == ses[active]
             q == Stop(r, "lifespan")
  <2>1. active \in Sessions /\ "lifespan" \in Stoppers
    BY <1>1 DEF PatientPodInv, PodInv, Busy, Stoppers
  <2>2. SessionInv(r) /\ PatientInv(r) /\ r \in SessionState
    BY <2>1 DEF PatientPodInv, PodInv, SessionInv
  <2>3. r.start = "done" /\ r.phase \notin {"stopping", "stopped"}
    BY <1>1, <2>1, BusyIsStarted DEF Shutdown, MayStop, StopReturnsAtOnce
  <2>4. PatientInv(q)
    BY <2>1, <2>2, <2>3, StopPatient
  <2>5. q.start # "unborn"
    BY <2>1, <2>2, <2>3, StopMoves DEF Moves
  <2>6. ses' = [ses EXCEPT ![active] = q] /\ active' = active
    BY <1>1 DEF Shutdown
  <2> HIDE DEF q
  <2>7. \A t \in Sessions : ses'[t] = IF t = active THEN q ELSE ses[t]
    BY <2>1, <2>6 DEF PatientPodInv, PodInv
  <2> QED BY <2>4, <2>5, <2>6, <2>7 DEF PatientPodInv
<1>2. CASE ~(Busy /\ ~StopReturnsAtOnce(ses[active]))
  BY <1>2 DEF Shutdown, PatientPodInv
<1> QED BY <1>1, <1>2

LEMMA NextPatientPod ==
    ASSUME StopsDuring = {}
    PROVE  PatientPodInv /\ [Next]_vars => PatientPodInv'
<1> SUFFICES ASSUME PatientPodInv, [Next]_vars PROVE PatientPodInv'
  OBVIOUS
<1>1. PodInv'
  BY NextPodInv DEF PatientPodInv
<1>2. CASE Load \/ Exit \/ Exited \/ UNCHANGED vars
  BY <1>1, <1>2 DEF Load, Exit, Exited, vars, PatientPodInv
<1>3. CASE Shutdown
  BY <1>1, <1>3, ShutdownPatientPod
<1>4. ASSUME NEW s \in Sessions, Create(s) PROVE PatientPodInv'
  BY <1>1, <1>4, CreatePatientPod
<1>5. ASSUME NEW s \in Sessions, NEW k \in Clients, Delete(s, k) PROVE PatientPodInv'
  BY <1>1, <1>5, DeletePatientPod
<1>6. ASSUME NEW s \in Sessions, NEW k \in Stoppers, StopStep(s, k)
      PROVE  PatientPodInv'
  BY <1>1, <1>6, StopStepPatientPod
<1>7. ASSUME NEW s \in Sessions, StartStep(s) PROVE PatientPodInv'
  BY <1>1, <1>7, StartStepPatientPod
<1>8. ASSUME NEW s \in Sessions,
             ChannelOpens(s) \/ OpenAIDies(s) \/ SfuDies(s) \/ FirstFrame(s)
                \/ PipelineCrashes(s)
      PROVE  PatientPodInv'
  BY <1>1, <1>8, PeerStepPatientPod
<1> QED BY <1>2, <1>3, <1>4, <1>5, <1>6, <1>7, <1>8
  DEF Next, OtherStep, StartStep

\* With a gateway that waits for start() to end before it sends DELETE, two
\* sessions are never live together, whoever fails and whenever.
THEOREM PatientGatewaySharesNothing ==
    ASSUME StopsDuring = {}
    PROVE  Spec => []OneSessionPerPod
<1>1. PatientPodInv => OneSessionPerPod
  BY DEF PatientPodInv, OneSessionPerPod
<1>2. PatientPodInv /\ [Next]_vars => PatientPodInv'
  BY NextPatientPod
<1> QED BY <1>1, <1>2, InitPatientPod, PTL DEF Spec

------------------------------------------------------------------------------
(* The pod refines PodLifecycle.                                            *)

\* What is held outside is what the pod is bound to.
HostHolds == {s \in Sessions : Live(ses[s])} = IF Busy THEN {active} ELSE {}

LEMMA HeldByHost == PatientPodInv => HostHolds
<1> SUFFICES ASSUME PatientPodInv PROVE HostHolds
  OBVIOUS
<1>1. CASE ~Busy
  BY <1>1, FreePodIsEmpty DEF HostHolds
<1>2. CASE Busy
  <2>1. active \in Sessions /\ ses[active].phase # "stopped"
    BY <1>2 DEF PatientPodInv, PodInv, Busy
  <2>2. Live(ses[active])
    BY <2>1 DEF PatientPodInv, PatientInv, TornDown, Live, Starting, Stopping
  <2> QED BY <1>2, <2>1, <2>2 DEF PatientPodInv, HostHolds
<1> QED BY <1>1, <1>2

\* Whatever a step is, except for accepting a session, it is a step of the
\* session that the pod is bound to.
LEMMA OnlyHostMoves ==
    ASSUME PatientPodInv, [Next]_vars, ~(\E s \in Sessions : Create(s))
    PROVE  /\ active' = active
           /\ \/ ses' = ses
              \/ Busy /\ \E r : ses' = [ses EXCEPT ![active] = r]
<1>1. CASE Load \/ Exit \/ Exited \/ UNCHANGED vars
  BY <1>1 DEF Load, Exit, Exited, vars
<1>2. CASE Shutdown
  BY <1>2 DEF Shutdown
<1>3. ASSUME NEW s \in Sessions, NEW r, Step(s, r), Live(ses[s]) \/ (s = active /\ Busy)
      PROVE  active' = active /\ Busy /\ \E q : ses' = [ses EXCEPT ![active] = q]
  <2>1. s = active /\ Busy
    BY <1>3, FreePodIsEmpty DEF PatientPodInv
  <2> QED BY <1>3, <2>1 DEF Step
<1>4. ASSUME NEW s \in Sessions, NEW k \in Clients, Delete(s, k)
      PROVE  active' = active /\ Busy /\ \E q : ses' = [ses EXCEPT ![active] = q]
  <2>1. ses[s].phase # "failed"
    BY DEF PatientPodInv, PodInv, SessionInv, PhaseOfTasks
  <2>2. s = active /\ Busy /\ Step(s, Stop(ses[s], k))
    BY <1>4, <2>1, SessionsAssumption DEF Delete, Busy, StopReturnsAtOnce
  <2> QED BY <1>3, <2>2
<1>5. ASSUME NEW s \in Sessions, NEW k \in Stoppers, StopStep(s, k)
      PROVE  active' = active /\ Busy /\ \E q : ses' = [ses EXCEPT ![active] = q]
  BY <1>3, <1>5 DEF StopStep, Live, Stopping
<1>6. ASSUME NEW s \in Sessions, StartStep(s)
      PROVE  active' = active /\ Busy /\ \E q : ses' = [ses EXCEPT ![active] = q]
  <2>1. Live(ses[s])
    BY <1>6 DEF StartStep, IdentityStep, OtherStartStep,
         StartBegins, OpenAIConnected, ChannelReady, PortraitLoaded,
         SfuJoined, TracksPublished, FrameSeen, StartRaises, MayFail, StartAwaits,
         Live, Starting
  <2>2. \E r : Step(s, r)
    BY <1>6 DEF StartStep, IdentityStep, OtherStartStep,
         StartBegins, OpenAIConnected, ChannelReady, PortraitLoaded,
         SfuJoined, TracksPublished, FrameSeen, StartRaises
  <2> QED BY <1>3, <2>1, <2>2
<1>7. ASSUME NEW s \in Sessions,
             ChannelOpens(s) \/ OpenAIDies(s) \/ SfuDies(s) \/ FirstFrame(s)
                \/ PipelineCrashes(s)
      PROVE  active' = active /\ Busy /\ \E q : ses' = [ses EXCEPT ![active] = q]
  <2>1. Live(ses[s])
    BY <1>7 DEF ChannelOpens, OpenAIDies, SfuDies, FirstFrame, PipelineCrashes,
         Live, HoldsOpenAI, HoldsSfu, Rendering
  <2>2. \E r : Step(s, r)
    BY <1>7 DEF ChannelOpens, OpenAIDies, SfuDies, FirstFrame, PipelineCrashes
  <2> QED BY <1>3, <2>1, <2>2
<1> QED BY <1>1, <1>2, <1>4, <1>5, <1>6, <1>7 DEF Next, OtherStep, StartStep

LEMMA CreateClaims ==
    ASSUME PatientPodInv, HostHolds', NEW s \in Sessions, Create(s)
    PROVE  Pod!Next
<1>1. ~Busy /\ active' = s /\ ses[s].start = "unborn"
      /\ ses' = [ses EXCEPT ![s].start = "scheduled"]
  BY DEF Create
<1>2. \A t \in Sessions : ses'[t] = IF t = s THEN [ses[s] EXCEPT !.start = "scheduled"]
                                             ELSE ses[t]
  BY <1>1 DEF PatientPodInv, PodInv
<1>3. ses'[s].phase = ses[s].phase /\ ses'[s].start = "scheduled"
  BY <1>2 DEF PatientPodInv, PodInv, SessionState
<1>4. ses[s].phase \notin {"stopped", "failed"}
  BY <1>1 DEF PatientPodInv, PodInv, PatientInv, OneStop, SessionInv, PhaseOfTasks
<1>5. Busy'
  BY <1>1, <1>3, <1>4, SessionsAssumption DEF Busy
<1>6. {t \in Sessions : Live(ses[t])}' = {s}
  <2>1. {t \in Sessions : Live(ses[t])}' = (IF Busy THEN {active} ELSE {})'
    BY DEF HostHolds
  <2> QED BY <1>1, <1>5, <2>1
<1>7. {t \in Sessions : ses[t].start # "unborn"}'
        = {t \in Sessions : ses[t].start # "unborn"} \cup {s}
  BY <1>2, <1>3
<1>8. s \notin {t \in Sessions : ses[t].start # "unborn"}
  BY <1>1
<1>9. (IF Busy THEN active ELSE NoSession) = NoSession
      /\ (IF Busy THEN active ELSE NoSession)' = s
  BY <1>1, <1>5
<1>10. Pod!Claim(s)
  BY <1>6, <1>7, <1>8, <1>9 DEF Pod!Claim
<1> QED BY <1>10 DEF Pod!Next

LEMMA OthersReleaseOrStutter ==
    ASSUME PatientPodInv, PatientPodInv', HostHolds, HostHolds', [Next]_vars,
           ~(\E s \in Sessions : Create(s))
    PROVE  [Pod!Next]_(Pod!vars)
<1> DEFINE host    == IF Busy THEN active ELSE NoSession
           served  == {s \in Sessions : ses[s].start # "unborn"}
           holding == {s \in Sessions : Live(ses[s])}
<1>1. /\ active' = active
      /\ \/ ses' = ses
         \/ Busy /\ \E r : ses' = [ses EXCEPT ![active] = r]
  BY OnlyHostMoves
<1>2. served' = served
  <2>1. ASSUME NEW s \in Sessions, s # active PROVE ses'[s] = ses[s]
    BY <1>1, <2>1 DEF PatientPodInv, PodInv
  <2>2. active \in Sessions => ses[active].start # "unborn" /\ ses'[active].start # "unborn"
    BY <1>1 DEF PatientPodInv
  <2> QED BY <2>1, <2>2
<1>3. holding = (IF Busy THEN {active} ELSE {}) /\ holding' = (IF Busy THEN {active} ELSE {})'
  BY DEF HostHolds
<1>4. CASE ses' = ses \/ Busy'
  <2>1. (Busy' = Busy) \/ (Busy /\ Busy')
    BY <1>1, <1>4 DEF Busy
  <2>2. host' = host /\ holding' = holding
    BY <1>1, <1>3, <2>1
  <2> QED BY <1>2, <2>2 DEF Pod!vars
<1>5. CASE Busy /\ ~Busy'
  <2>1. host # NoSession /\ host' = NoSession /\ holding' = {}
    BY <1>3, <1>5 DEF Busy
  <2>2. Pod!Release
    BY <1>2, <2>1 DEF Pod!Release
  <2> QED BY <2>2 DEF Pod!Next
<1> QED BY <1>1, <1>4, <1>5

\* With such a gateway the session manager implements the abstract pod.
THEOREM PatientGatewayImplementsPod ==
    ASSUME StopsDuring = {}
    PROVE  Spec => ImplementsPod
<1>1. Init => Pod!Init
  <2> SUFFICES ASSUME Init PROVE Pod!Init
    OBVIOUS
  <2>1. ~Busy /\ \A s \in Sessions : ses[s] = NewSession(s \in LegacySfu)
    BY DEF Init, Busy
  <2>2. \A s \in Sessions : ~Live(ses[s]) /\ ses[s].start = "unborn"
    <3>1. \A b \in BOOLEAN : ~Live(NewSession(b)) /\ NewSession(b).start = "unborn"
      BY NewSessionPatient DEF NewSession
    <3>2. \A s \in Sessions : (s \in LegacySfu) \in BOOLEAN
      OBVIOUS
    <3> QED BY <2>1, <3>1, <3>2
  <2> QED BY <2>1, <2>2 DEF Pod!Init
<1>2. PatientPodInv /\ [Next]_vars => PatientPodInv'
  BY NextPatientPod
<1>3. PatientPodInv /\ PatientPodInv' /\ HostHolds /\ HostHolds' /\ [Next]_vars
        => [Pod!Next]_(Pod!vars)
  BY CreateClaims, OthersReleaseOrStutter
<1>4. PatientPodInv => HostHolds
  BY HeldByHost
<1> QED BY <1>1, <1>2, <1>3, <1>4, InitPatientPod, PTL DEF Spec, ImplementsPod, Pod!Spec
==============================================================================
