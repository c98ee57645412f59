----------------------------- MODULE OpenAIEvents -----------------------------
(***************************************************************************)
(* The two ways by which what happens on the OpenAI connection of a session *)
(* becomes a webhook event: the messages of the data channel go through a   *)
(* queue and a pump task (media/openai_peer.py), a change of the connection *)
(* state goes past the queue, through a handler task that aiortc schedules  *)
(* per change.  Both end in AvatarSession._on_openai_event, which emits      *)
(* without suspending.  start() and stop() emit next to them.               *)
(***************************************************************************)
EXTENDS PortraitBank

CONSTANT MaxMessages   \* bound on the messages that a channel delivers

ASSUME MessagesAssumption == MaxMessages \in Nat

VARIABLE peer   \* per session: its OpenAIRealtimePeer, and the last event it emitted

podVars == <<vars, bank>>

NewPeer ==
    [arrived |-> 0,         \* history: messages that an open channel has delivered
     inbox   |-> 0,         \* messages in _event_queue that the pump may still take
     pending |-> FALSE,     \* are there _on_state_change tasks that have not run?
     bad     |-> FALSE,     \* connectionState is "failed" or "closed"
     last    |-> "none"]    \* the last event of the session that was emitted

PeerInit == BankInit /\ peer = [s \in Sessions |-> NewPeer]

\* aiortc announces a state that it has entered.
StateChanges(s) ==
    /\ ses'[s].oai # ses[s].oai
    /\ ses'[s].oai \in {"opening", "open", "dead"}

\* close() ends the pump before it waits for the connection, and forgets the
\* connection after that.
PeerAfterStep(s) ==
    LET oai  == ses'[s].oai
        p    == peer[s]
        ends == oai \in {"closing", "draining", "closed"}
    IN  [arrived |-> IF ends THEN 0 ELSE p.arrived,
         inbox   |-> IF ends THEN 0 ELSE p.inbox,
         pending |-> p.pending \/ StateChanges(s),
         bad     |-> oai = "dead" \/ (p.bad /\ oai # "closed"),
         last    |-> IF Len(ses'[s].sent) > Len(ses[s].sent)
                     THEN Last(ses'[s].sent) ELSE p.last]

\* What a step of the pod does to the peers.
PeersFollow == peer' = [s \in Sessions |-> PeerAfterStep(s)]

MessageArrives(s) ==
    /\ ses[s].oai = "open"
    /\ peer[s].arrived < MaxMessages
    /\ peer' = [peer EXCEPT ![s].arrived = @ + 1, ![s].inbox = @ + 1]
    /\ UNCHANGED podVars

Forwarded(p) ==
    {[p EXCEPT !.inbox = @ - 1, !.last = event] : event \in {p.last, "transcript"}}

\* Mutant: the pump runs as long as the channel is open.
ForwardWhileOpen(s) ==
    /\ ses[s].oai = "open"
    /\ peer[s].inbox > 0
    /\ \E p \in Forwarded(peer[s]) : peer' = [peer EXCEPT ![s] = p]
    /\ UNCHANGED podVars

\* The pump takes a message, which is emitted as an event if it is one of those
\* the gateway wants.
Forward(s) ==
    /\ peer[s].inbox > 0
    /\ \E p \in Forwarded(peer[s]) : peer' = [peer EXCEPT ![s] = p]
    /\ UNCHANGED podVars

\* pc.close() takes the connection down; the state becomes "closed" on the way.
ConnectionCloses(s) ==
    /\ ses[s].oai \in {"closing", "draining"}
    /\ ~peer[s].bad
    /\ peer' = [peer EXCEPT ![s].bad = TRUE, ![s].pending = TRUE]
    /\ UNCHANGED podVars

HasConnection(s) == ses[s].oai \notin {"none", "closed"}

\* Mutant: the peer keeps its connection after close().
ReportsAlways(s) == peer[s].bad \/ ses[s].oai = "closed"

\* Mutant: only a connection that was closed is reported.
ReportsClosed(s) == HasConnection(s) /\ ses[s].oai # "dead" /\ peer[s].bad

\* The handler looks at the state the connection has when it runs.
Reports(s) == HasConnection(s) /\ peer[s].bad

\* A handler runs, and there may be more.
StateHandlerRuns(s) ==
    /\ peer[s].pending
    /\ \E more \in BOOLEAN :
        peer' = [peer EXCEPT ![s].pending = more,
                             ![s].last = IF Reports(s) THEN "error" ELSE @]
    /\ UNCHANGED podVars

PeerStep(s) ==
    MessageArrives(s) \/ Forward(s) \/ ConnectionCloses(s) \/ StateHandlerRuns(s)

PeerNext == (BankNext /\ PeersFollow) \/ \E s \in Sessions : PeerStep(s)

PeerSpec == PeerInit /\ [][PeerNext]_<<podVars, peer>>

\* Pump and handlers are tasks of the event loop.
PeerFairness ==
    \A s \in Sessions : WF_peer(Forward(s)) /\ WF_peer(StateHandlerRuns(s))

PeerFairSpec == PeerSpec /\ Fairness /\ PeerFairness

------------------------------------------------------------------------------
(* Properties for a patient gateway.                                        *)

\* `stopped` is the last the gateway hears of a session: no transcript of the pump
\* and no error of a late handler comes after it, for whichever order the tasks run
\* in while close() tears the connection down.
StoppedIsLast ==
    [][\A s \in Sessions : peer[s].last = "stopped" => peer'[s].last = "stopped"]_peer

\* openai_peer.py:212: a connection that fails is surfaced as an error, unless the
\* session is being stopped anyway.
FailureSurfaces ==
    \A s \in Sessions :
        ses[s].oai = "dead" /\ peer[s].pending ~>
            peer[s].last = "error" \/ ses[s].oai # "dead"

\* Of the messages that the channel delivers the pump leaves none, also after the
\* connection failed, unless close() comes first.
MessagesForwarded ==
    \A s \in Sessions :
        peer[s].inbox > 0 ~>
            peer[s].inbox = 0 \/ ses[s].oai \in {"closing", "draining", "closed"}
==============================================================================
