-------------------------- MODULE OpenAIEvents_proofs --------------------------
(***************************************************************************)
(* The events of OpenAI change nothing of the pod.  `stopped` is sent once, *)
(* and nothing after it, when the gateway waits for start() to end: of the  *)
(* events of the session itself, and of those of its event pump and of the  *)
(* handlers of its connection states.                                       *)
(***************************************************************************)
EXTENDS OpenAIEvents, PortraitBank_proofs

------------------------------------------------------------------------------
(* The events of OpenAI and the pod.                                        *)

LEMMA PeerStepIsNone ==
    ASSUME NEW s \in Sessions, PeerStep(s)
    PROVE  UNCHANGED podVars
  BY DEF PeerStep, MessageArrives, Forward, ConnectionCloses, StateHandlerRuns

\* The event pump and the handlers of the connection states read the session and
\* change nothing of it: whatever holds of the pod with its bank, for every gateway,
\* holds with the messages and state changes of OpenAI.
THEOREM PeersOnlyReport == PeerSpec => BankSpec
<1>1. PeerInit => BankInit
  BY DEF PeerInit
<1>2. [PeerNext]_<<podVars, peer>> => [BankNext]_<<vars, bank>>
  BY PeerStepIsNone DEF PeerNext, podVars, vars
<1> QED BY <1>1, <1>2, PTL DEF PeerSpec, BankSpec

------------------------------------------------------------------------------
(* What one step of a session tells the gateway.                            *)

\* From r to q, `stopped` is appended to what has been sent if q is stopped, and
\* nothing if it is not; a connection that was begun is not forgotten.
Tells(r, q, sent) ==
    /\ q.oai = "none" => r.oai = "none"
    /\ \/ q.phase # "stopped" /\ q.sent = sent
       \/ q.phase = "stopped" /\ q.sent = Append(sent, "stopped")

LEMMA StopTells ==
    ASSUME NEW r \in SessionState, NEW k \in Stoppers, r.phase # "stopped"
    PROVE  /\ Tells(r, Stop(r, k), r.sent)
           /\ Tells(r, StopResumes(r, k), r.sent)
  BY StopMoves, StopResumesMoves DEF Moves, Tells

LEMMA StartFailsTells ==
    ASSUME NEW r \in SessionState
    PROVE  Tells(r, StartFails(r), Append(r.sent, "error"))
  BY FailedFields, StartFailsMoves DEF Moves, Tells

LEMMA BecomeReadyTells ==
    ASSUME NEW r \in SessionState
    PROVE  Tells(r, BecomeReady(r), Append(r.sent, "avatar_ready"))
  BY DEF BecomeReady, Emit, Tells, SessionState

------------------------------------------------------------------------------
(* What one step of the pod tells the gateway.                              *)

\* What a session may send besides `stopped`, in one step.
Before(sent) == {sent, Append(sent, "error"), Append(sent, "avatar_ready")}

\* The session rests, or it was not stopped and says what Tells says.
Reported(r, q) ==
    \/ q = r
    \/ r.phase # "stopped" /\ \E sent \in Before(r.sent) : Tells(r, q, sent)

AllReported == \A s \in Sessions : Reported(ses[s], ses'[s])

LEMMA OneReports ==
    ASSUME PodInv, NEW s \in Sessions, NEW r, ses' = [ses EXCEPT ![s] = r],
           Reported(ses[s], r)
    PROVE  AllReported
  BY DEF PodInv, AllReported, Reported

\* A stopped session has neither a task nor a connection that could move it.
LEMMA StoppedIsDead ==
    ASSUME PatientPodInv, NEW s \in Sessions, ses[s].phase = "stopped"
    PROVE  /\ ~Live(ses[s])
           /\ ses[s].start \in {"cleanup", "done"}
  BY DEF PatientPodInv, PatientInv, TornDown, OneStop

LEMMA StartReports ==
    ASSUME PatientPodInv, NEW s \in Sessions, StartStep(s)
    PROVE  AllReported
<1> DEFINE r == ses[s]
<1>1. r \in SessionState
  BY DEF PatientPodInv, PodInv
<1>2. Live(r)
  BY DEF StartStep, IdentityStep, OtherStartStep,
         StartBegins, OpenAIConnected, ChannelReady, PortraitLoaded,
         SfuJoined, TracksPublished, FrameSeen, StartRaises, MayFail, StartAwaits,
         Live, Starting
<1>3. r.phase # "stopped"
  BY <1>2, StoppedIsDead
<1>4. ASSUME NEW q, Step(s, q), NEW sent \in Before(r.sent), Tells(r, q, sent)
      PROVE  AllReported
  BY <1>3, <1>4, OneReports DEF Reported, Step, PatientPodInv
<1>5. r.sent \in Before(r.sent)
  BY DEF Before
<1>6. /\ Tells(r, ConnectOpenAI(r), r.sent)
      /\ Tells(r, AwaitChannel(r), r.sent)
      /\ Tells(r, LoadImage(r), r.sent)
      /\ Tells(r, BuildAndJoin(r), r.sent)
      /\ Tells(r, PublishTracks(r), r.sent)
      /\ Tells(r, WarmUp(r, s \in SpeakerLoop), r.sent)
  BY <1>1, <1>3 DEF ConnectOpenAI, AwaitChannel, LoadImage, BuildAndJoin, PublishTracks,
                    WarmUp, Tells, SessionState
<1>7. CASE FrameSeen(s)
  BY <1>1, <1>4, <1>7, BecomeReadyTells DEF FrameSeen, Before
<1>8. CASE StartRaises(s)
  BY <1>1, <1>4, <1>8, StartFailsTells DEF StartRaises, Before
<1>9. ASSUME NEW q \in Builds(r), Step(s, q) PROVE AllReported
  <2> DEFINE b == [r EXCEPT !.pipe = "built"]
  <2>1. b \in SessionState /\ b.sent = r.sent /\ b.oai = r.oai
    BY <1>1 DEF SessionState, PipeStates
  <2> HIDE DEF b
  <2>2. /\ Tells(r, StartFails(r), Append(r.sent, "error"))
        /\ Tells(r, StartFails(b), Append(r.sent, "error"))
    BY <1>1, <2>1, StartFailsTells DEF Tells
  <2>3. q = BuildAndJoin(r) \/ q = StartFails(r) \/ q = StartFails(b)
    BY <1>9 DEF Builds, b
  <2> QED BY <1>4, <1>5, <1>6, <1>9, <2>2, <2>3 DEF Before
<1> QED
  BY <1>4, <1>5, <1>6, <1>7, <1>8, <1>9
  DEF StartStep, IdentityStep, OtherStartStep, StartBegins, OpenAIConnected, ChannelReady,
      PortraitLoaded, SfuJoined, TracksPublished

LEMMA PeerMoveReports ==
    ASSUME PatientPodInv, NEW s \in Sessions,
           ChannelOpens(s) \/ OpenAIDies(s) \/ SfuDies(s) \/ FirstFrame(s)
             \/ PipelineCrashes(s)
    PROVE  AllReported
<1> DEFINE r == ses[s]
<1>1. r \in SessionState
  BY DEF PatientPodInv, PodInv
<1>2. r.phase # "stopped"
  <2>1. Live(r)
    BY DEF ChannelOpens, OpenAIDies, SfuDies, FirstFrame, PipelineCrashes,
           Live, HoldsOpenAI, HoldsSfu, Rendering
  <2> QED BY <2>1, StoppedIsDead
<1>3. \E q : Step(s, q) /\ Tells(r, q, r.sent)
  BY <1>1, <1>2 DEF ChannelOpens, OpenAIDies, SfuDies, FirstFrame, PipelineCrashes,
                    Tells, SessionState
<1> QED BY <1>2, <1>3, OneReports DEF Reported, Before, Step, PatientPodInv

LEMMA StopReports ==
    ASSUME PatientPodInv, NEW s \in Sessions, NEW k \in Stoppers,
           ~StopReturnsAtOnce(ses[s]), ses' = [ses EXCEPT ![s] = Stop(ses[s], k)]
    PROVE  AllReported
<1>1. Tells(ses[s], Stop(ses[s], k), ses[s].sent)
  BY StopTells DEF StopReturnsAtOnce, PatientPodInv, PodInv
<1> QED BY <1>1, OneReports DEF Reported, Before, StopReturnsAtOnce, PatientPodInv

LEMMA StopStepReports ==
    ASSUME PatientPodInv, NEW s \in Sessions, NEW k \in Stoppers, StopStep(s, k)
    PROVE  AllReported
<1>1. ses[s].phase # "stopped"
  BY StoppedIsDead DEF StopStep, Live, Stopping
<1>2. Tells(ses[s], StopResumes(ses[s], k), ses[s].sent)
  BY <1>1, StopTells DEF PatientPodInv, PodInv
<1> QED BY <1>1, <1>2, OneReports DEF Reported, Before, StopStep, Step, PatientPodInv

LEMMA CreateReports ==
    ASSUME PatientPodInv, NEW s \in Sessions, Create(s)
    PROVE  AllReported
<1> DEFINE q == [ses[s] EXCEPT !.start = "scheduled"]
<1>1. ses[s].phase # "stopped"
  BY StoppedIsDead DEF Create
<1>2. ses' = [ses EXCEPT ![s] = q]
  BY DEF Create
<1>3. Tells(ses[s], q, ses[s].sent)
  BY <1>1 DEF Tells, PatientPodInv, PodInv, SessionState
<1> QED BY <1>1, <1>2, <1>3, OneReports DEF Reported, Before, PatientPodInv

LEMMA StepReports == PatientPodInv /\ [Next]_vars => AllReported
<1> SUFFICES ASSUME PatientPodInv, [Next]_vars PROVE AllReported
  OBVIOUS
<1>1. CASE ses' = ses
  BY <1>1 DEF AllReported, Reported
<1>2. CASE Shutdown /\ ses' # ses
  <2>1. /\ active \in Sessions /\ "lifespan" \in Stoppers
        /\ ~StopReturnsAtOnce(ses[active])
        /\ ses' = [ses EXCEPT ![active] = Stop(ses[active], "lifespan")]
    BY <1>2 DEF Shutdown, PatientPodInv, PodInv, Busy, Stoppers
  <2> QED BY <2>1, StopReports
<1>3. ASSUME NEW s \in Sessions, NEW k \in Clients, Delete(s, k) PROVE AllReported
  <2>1. k \in Stoppers
    BY DEF Stoppers
  <2> QED BY <1>3, <2>1, StopReports DEF Delete, Step
<1> QED BY <1>1, <1>2, <1>3, StartReports, PeerMoveReports, StopStepReports, CreateReports
  DEF Next, OtherStep, StartStep, Load, Exit, Exited, vars

------------------------------------------------------------------------------
(* `stopped` is sent once.                                                  *)

\* Where `stopped` is among the events of a session, it is the last, and the session
\* is stopped.
EndsWithStopped(r) ==
    \A i \in 1..Len(r.sent) : r.sent[i] = "stopped" =>
        i = Len(r.sent) /\ r.phase = "stopped"

StoppedInv == PatientPodInv /\ \A s \in Sessions : EndsWithStopped(ses[s])

LEMMA ReportedEndsWithStopped ==
    ASSUME NEW r \in SessionState, EndsWithStopped(r), NEW q, Reported(r, q)
    PROVE  EndsWithStopped(q)
<1>1. CASE q = r
  BY <1>1
<1>2. ASSUME r.phase # "stopped", NEW sent \in Before(r.sent), Tells(r, q, sent)
      PROVE  EndsWithStopped(q)
  <2>1. r.sent \in Seq(Events) /\ \A i \in 1..Len(r.sent) : r.sent[i] # "stopped"
    BY <1>2 DEF EndsWithStopped, SessionState
  <2>2. sent \in Seq(Events) /\ \A i \in 1..Len(sent) : sent[i] # "stopped"
    <3>1. ASSUME NEW e \in Events \ {"stopped"}
          PROVE  LET a == Append(r.sent, e)
                 IN  a \in Seq(Events) /\ \A i \in 1..Len(a) : a[i] # "stopped"
      BY <2>1
    <3>2. sent = r.sent \/ \E e \in Events \ {"stopped"} : sent = Append(r.sent, e)
      BY <1>2 DEF Before, Events
    <3> QED BY <2>1, <3>1, <3>2
  <2>3. CASE q.sent = sent
    BY <2>2, <2>3 DEF EndsWithStopped
  <2>4. CASE q.phase = "stopped" /\ q.sent = Append(sent, "stopped")
    BY <2>2, <2>4 DEF EndsWithStopped
  <2> QED BY <1>2, <2>3, <2>4 DEF Tells
<1> QED BY <1>1, <1>2 DEF Reported

LEMMA InitStoppedInv == Init => StoppedInv
<1> SUFFICES ASSUME Init PROVE StoppedInv
  OBVIOUS
<1>1. \A s \in Sessions : ses[s].sent = << >>
  BY DEF Init, NewSession
<1> QED BY <1>1, InitPatientPod DEF StoppedInv, EndsWithStopped

LEMMA NextStoppedInv ==
    ASSUME StopsDuring = {}
    PROVE  StoppedInv /\ [Next]_vars => StoppedInv'
<1> SUFFICES ASSUME StoppedInv, [Next]_vars PROVE StoppedInv'
  OBVIOUS
<1>1. PatientPodInv' /\ AllReported
  BY NextPatientPod, StepReports DEF StoppedInv
<1>2. \A s \in Sessions : ses[s] \in SessionState
  BY DEF StoppedInv, PatientPodInv, PodInv
<1>3. \A s \in Sessions : EndsWithStopped(ses'[s])
  BY <1>1, <1>2, ReportedEndsWithStopped DEF StoppedInv, AllReported
<1> QED BY <1>1, <1>3 DEF StoppedInv

\* With a gateway that waits for start() to end, however many DELETEs overlap and
\* whether or not start() failed, `stopped` is sent at most once.
THEOREM StoppedIsSentOnce ==
    ASSUME StopsDuring = {}
    PROVE  Spec => []StoppedSentOnce
<1>1. StoppedInv => StoppedSentOnce
  <2> SUFFICES ASSUME StoppedInv, NEW s \in Sessions
      PROVE Cardinality({i \in DOMAIN ses[s].sent : ses[s].sent[i] = "stopped"}) < 2
    BY DEF StoppedSentOnce
  <2> DEFINE n == Len(ses[s].sent)
             T == {i \in DOMAIN ses[s].sent : ses[s].sent[i] = "stopped"}
  <2>1. ses[s].sent \in Seq(Events)
    BY DEF StoppedInv, PatientPodInv, PodInv, SessionState
  <2>2. T \in SUBSET {n}
    BY <2>1 DEF StoppedInv, EndsWithStopped
  <2>3. IsFiniteSet({n}) /\ Cardinality({n}) = 1
    BY FS_Singleton
  <2>4. IsFiniteSet(T) /\ Cardinality(T) <= Cardinality({n})
    BY <2>2, <2>3, FS_Subset
  <2>5. Cardinality(T) \in Nat
    BY <2>4, FS_CardinalityType
  <2> QED BY <2>3, <2>4, <2>5
<1>2. StoppedInv /\ [Next]_vars => StoppedInv'
  BY NextStoppedInv
<1> QED BY <1>1, <1>2, InitStoppedInv, PTL DEF Spec

------------------------------------------------------------------------------
(* `stopped` is sent last.                                                  *)

PeerState ==
    [arrived : Nat, inbox : Nat, pending : BOOLEAN, bad : BOOLEAN,
     last : Events \cup {"none", "transcript"}]

\* Messages wait for the pump only while there is a connection; whoever heard
\* `stopped` last heard it of a session that is stopped.
PeerInv ==
    /\ PatientPodInv
    /\ peer \in [Sessions -> PeerState]
    /\ \A s \in Sessions :
        /\ peer[s].inbox > 0 => HoldsOpenAI(ses[s])
        /\ peer[s].last = "stopped" => ses[s].phase = "stopped"

LEMMA InitPeerInv == PeerInit => PeerInv
<1> SUFFICES ASSUME PeerInit PROVE PeerInv
  OBVIOUS
<1>1. PatientPodInv
  BY InitPatientPod DEF PeerInit, BankInit
<1>2. NewPeer \in PeerState /\ NewPeer.inbox = 0 /\ NewPeer.last = "none"
  BY DEF NewPeer, PeerState
<1>3. peer = [s \in Sessions |-> NewPeer]
  BY DEF PeerInit
<1> HIDE DEF NewPeer
<1> QED BY <1>1, <1>2, <1>3 DEF PeerInv

\* The events that a step of the pod adds, as the peer sees them.
LEMMA LastReported ==
    ASSUME NEW r \in SessionState, NEW q, Reported(r, q), Len(q.sent) > Len(r.sent),
           Last(q.sent) = "stopped"
    PROVE  q.phase = "stopped"
<1>0. r.sent \in Seq(Events)
  BY DEF SessionState
<1>1. ~(Len(r.sent) > Len(r.sent))
  BY <1>0
<1>2. PICK sent \in Before(r.sent) : Tells(r, q, sent)
  BY <1>1 DEF Reported
<1>3. ASSUME NEW e, e # "stopped", q.sent = Append(r.sent, e) PROVE FALSE
  BY <1>0, <1>3 DEF Last
<1>4. CASE q.phase # "stopped" /\ q.sent = sent
  BY <1>1, <1>2, <1>3, <1>4 DEF Before
<1> QED BY <1>2, <1>4 DEF Tells

LEMMA PodStepPeerInv ==
    ASSUME StopsDuring = {}, PeerInv, [Next]_vars, PeersFollow
    PROVE  /\ PeerInv'
           /\ \A s \in Sessions : peer[s].last = "stopped" => peer'[s].last = "stopped"
<1>1. PatientPodInv' /\ AllReported
  BY NextPatientPod, StepReports DEF PeerInv
<1>2. /\ \A s \in Sessions : peer'[s] = PeerAfterStep(s)
      /\ (\A s \in Sessions : peer'[s] \in PeerState) => peer' \in [Sessions -> PeerState]
  BY DEF PeersFollow
<1> SUFFICES ASSUME NEW s \in Sessions
    PROVE  /\ peer'[s] \in PeerState
           /\ peer'[s].inbox > 0 => HoldsOpenAI(ses'[s])
           /\ peer'[s].last = "stopped" => ses'[s].phase = "stopped"
           /\ peer[s].last = "stopped" => peer'[s].last = "stopped"
  BY <1>1, <1>2 DEF PeerInv
<1> DEFINE r == ses[s]
           q == ses'[s]
<1>3. r \in SessionState /\ q \in SessionState /\ Reported(r, q)
  BY <1>1 DEF PeerInv, PatientPodInv, PodInv, AllReported
<1>4. q.oai = "none" => r.oai = "none"
  BY <1>3 DEF Reported, Tells
<1>5. /\ peer'[s].inbox = IF q.oai \in {"closing", "draining", "closed"} THEN 0
                           ELSE peer[s].inbox
      /\ peer'[s].last = IF Len(q.sent) > Len(r.sent) THEN Last(q.sent) ELSE peer[s].last
  <2>1. peer'[s] = PeerAfterStep(s)
    BY <1>2
  <2> QED BY <2>1 DEF PeerAfterStep
<1>6. r.phase = "stopped" => q = r
  BY <1>3 DEF Reported
<1>7. ~(Len(r.sent) > Len(r.sent))
  BY <1>3 DEF SessionState
<1>8. peer'[s] \in PeerState
  <2> DEFINE p       == peer[s]
             ends    == q.oai \in {"closing", "draining", "closed"}
             arrived == IF ends THEN 0 ELSE p.arrived
             inbox   == IF ends THEN 0 ELSE p.inbox
             pending == p.pending \/ StateChanges(s)
             bad     == q.oai = "dead" \/ (p.bad /\ q.oai # "closed")
             last    == IF Len(q.sent) > Len(r.sent) THEN Last(q.sent) ELSE p.last
  <2>1. p \in PeerState
    BY DEF PeerInv
  <2>2. arrived \in Nat /\ inbox \in Nat
    BY <2>1 DEF PeerState
  <2>3. pending \in BOOLEAN /\ bad \in BOOLEAN
    BY DEF StateChanges
  <2>4. last \in Events \cup {"none", "transcript"}
    <3>1. q.sent \in Seq(Events) /\ r.sent \in Seq(Events)
      BY <1>3 DEF SessionState
    <3>2. Len(q.sent) > Len(r.sent) => Last(q.sent) \in Events
      BY <3>1 DEF Last
    <3> QED BY <2>1, <3>2 DEF PeerState
  <2>5. peer'[s] = [arrived |-> arrived, inbox |-> inbox, pending |-> pending,
                    bad |-> bad, last |-> last]
    BY <1>2 DEF PeerAfterStep
  <2> HIDE DEF arrived, inbox, pending, bad, last
  <2> QED BY <2>2, <2>3, <2>4, <2>5 DEF PeerState
<1>9. peer'[s].inbox > 0 => HoldsOpenAI(q)
  BY <1>4, <1>5 DEF PeerInv, HoldsOpenAI
<1>10. peer'[s].last = "stopped" => q.phase = "stopped"
  BY <1>3, <1>5, <1>6, LastReported DEF PeerInv
<1>11. peer[s].last = "stopped" => peer'[s].last = "stopped"
  BY <1>5, <1>6, <1>7 DEF PeerInv
<1> QED BY <1>8, <1>9, <1>10, <1>11

LEMMA PeerMovePeerInv ==
    ASSUME PeerInv, NEW t \in Sessions, PeerStep(t)
    PROVE  /\ PeerInv'
           /\ \A s \in Sessions : peer[s].last = "stopped" => peer'[s].last = "stopped"
<1>1. PatientPodInv' /\ ses' = ses
  BY DEF PeerInv, PeerStep, MessageArrives, Forward, ConnectionCloses, StateHandlerRuns,
         podVars, vars, PatientPodInv, PodInv
<1>2. \A s \in Sessions : HoldsOpenAI(ses[s]) => ses[s].phase # "stopped"
  BY StoppedIsDead DEF PeerInv, Live
<1>3. ASSUME NEW p \in PeerState, peer' = [peer EXCEPT ![t] = p],
             p.inbox > 0 => HoldsOpenAI(ses[t]),
             p.last = peer[t].last \/ (p.last # "stopped" /\ peer[t].last # "stopped")
      PROVE  /\ PeerInv'
             /\ \A s \in Sessions : peer[s].last = "stopped" => peer'[s].last = "stopped"
  <2>1. \A s \in Sessions : peer'[s] = IF s = t THEN p ELSE peer[s]
    BY <1>3 DEF PeerInv
  <2>2. peer' \in [Sessions -> PeerState]
    BY <1>3 DEF PeerInv
  <2> QED BY <1>1, <1>3, <2>1, <2>2 DEF PeerInv
<1>4. peer[t] \in PeerState /\ (peer[t].inbox > 0 => HoldsOpenAI(ses[t]))
      /\ (HoldsOpenAI(ses[t]) => peer[t].last # "stopped")
  BY <1>2 DEF PeerInv
<1>5. CASE MessageArrives(t)
  <2> DEFINE p == [peer[t] EXCEPT !.arrived = @ + 1, !.inbox = @ + 1]
  <2>0. peer[t].arrived + 1 \in Nat /\ peer[t].inbox + 1 \in Nat
    BY <1>4 DEF PeerState
  <2>1. p \in PeerState /\ p.last = peer[t].last
    BY <1>4, <2>0, Zenon DEF PeerState
  <2>2. HoldsOpenAI(ses[t]) /\ peer' = [peer EXCEPT ![t] = p]
    BY <1>5 DEF MessageArrives, HoldsOpenAI, PeerInv
  <2> HIDE DEF p
  <2> QED BY <1>3, <2>1, <2>2
<1>6. CASE Forward(t)
  <2>1. PICK event \in {peer[t].last, "transcript"} :
            peer' = [peer EXCEPT ![t] = [peer[t] EXCEPT !.inbox = @ - 1, !.last = event]]
    BY <1>6 DEF Forward, Forwarded
  <2> DEFINE p == [peer[t] EXCEPT !.inbox = @ - 1, !.last = event]
  <2>2. peer[t].inbox > 0 /\ HoldsOpenAI(ses[t]) /\ peer[t].last # "stopped"
    BY <1>4, <1>6 DEF Forward
  <2>3. p \in PeerState /\ p.last = event
    <3>1. event \in Events \cup {"none", "transcript"} /\ peer[t].inbox - 1 \in Nat
      BY <1>4, <2>2 DEF PeerState
    <3> QED BY <1>4, <3>1 DEF PeerState
  <2>4. peer' = [peer EXCEPT ![t] = p]
    BY <2>1
  <2> HIDE DEF p
  <2> QED BY <1>3, <2>2, <2>3, <2>4
<1>7. CASE ConnectionCloses(t)
  <2> DEFINE p == [peer[t] EXCEPT !.bad = TRUE, !.pending = TRUE]
  <2>1. p \in PeerState /\ p.last = peer[t].last /\ p.inbox = peer[t].inbox
    BY <1>4 DEF PeerState
  <2>2. peer' = [peer EXCEPT ![t] = p]
    BY <1>7 DEF ConnectionCloses, PeerInv
  <2> HIDE DEF p
  <2> QED BY <1>3, <1>4, <2>1, <2>2
<1>8. CASE StateHandlerRuns(t)
  <2>1. PICK more \in BOOLEAN :
            peer' = [peer EXCEPT ![t].pending = more,
                                 ![t].last = IF Reports(t) THEN "error" ELSE @]
    BY <1>8 DEF StateHandlerRuns
  <2> DEFINE p == [peer[t] EXCEPT !.pending = more,
                                  !.last = IF Reports(t) THEN "error" ELSE @]
  <2>2. p \in PeerState /\ p.inbox = peer[t].inbox
        /\ p.last = IF Reports(t) THEN "error" ELSE peer[t].last
    BY <1>4 DEF PeerState, Events
  <2>3. Reports(t) => HoldsOpenAI(ses[t])
    BY DEF Reports, HasConnection, HoldsOpenAI
  <2>4. peer' = [peer EXCEPT ![t] = p]
    BY <2>1 DEF PeerInv
  <2> HIDE DEF p
  <2> QED BY <1>3, <1>4, <2>2, <2>3, <2>4
<1> QED BY <1>5, <1>6, <1>7, <1>8 DEF PeerStep

\* With such a gateway no transcript of the pump and no error of a late handler
\* comes after `stopped`, for whichever order the tasks run in.
THEOREM NothingAfterStopped ==
    ASSUME StopsDuring = {}
    PROVE  PeerSpec => StoppedIsLast
<1> DEFINE Kept == \A s \in Sessions :
                        peer[s].last = "stopped" => peer'[s].last = "stopped"
<1>1. PeerInv /\ [PeerNext]_<<podVars, peer>> => PeerInv' /\ [Kept]_peer
  <2> SUFFICES ASSUME PeerInv, [PeerNext]_<<podVars, peer>>
      PROVE PeerInv' /\ [Kept]_peer
    OBVIOUS
  <2>1. CASE UNCHANGED <<podVars, peer>>
    BY <2>1 DEF podVars, vars, PeerInv, PatientPodInv, PodInv
  <2>2. CASE BankNext /\ PeersFollow
    <3>1. [Next]_vars
      BY <2>2, BankStepIsStep
    <3> QED BY <2>2, <3>1, PodStepPeerInv
  <2>3. CASE \E s \in Sessions : PeerStep(s)
    BY <2>3, PeerMovePeerInv
  <2> QED BY <2>1, <2>2, <2>3 DEF PeerNext
<1> QED BY <1>1, InitPeerInv, PTL DEF PeerSpec, StoppedIsLast
====
