---------------------------- MODULE GatewayClient ----------------------------
(***************************************************************************)
(* bus/gateway_client.py: the outbox of webhook events, the pump task that  *)
(* posts them one by one, and the network to the gateway, which may lose a  *)
(* request or an answer, and deliver a request after the client gave it up. *)
(*                                                                          *)
(* An event is named by its place in the order of emission.  The model      *)
(* starts when start() has returned, with the client enabled.               *)
(***************************************************************************)
EXTENDS Integers, Sequences, FiniteSets

CONSTANTS
    QueueSize,     \* maxsize of _queue
    Retries,       \* _retries
    MaxEvents      \* bound on the events that are emitted

ASSUME GatewayAssumption ==
    /\ QueueSize \in Nat \ {0}
    /\ Retries \in Nat \ {0}
    /\ MaxEvents \in Nat

VARIABLES
    outbox,      \* _queue
    emitted,     \* the number of events emitted
    dropped,     \* the events that found the outbox full
    pump,        \* where _run_pump is, its event and its attempt
    closed,      \* _closed
    inflight,    \* the requests that the gateway may still get
    received,    \* the events that the gateway processed, in order
    acked,       \* the events answered with a 2xx
    failed       \* the requests that failed for the client, by event and attempt

vars == <<outbox, emitted, dropped, pump, closed, inflight, received, acked, failed>>
network == <<inflight, received>>

Events == 1 .. MaxEvents
Requests == Events \X (1 .. Retries)

PumpState ==
    [at      : {"waiting", "posting", "sleeping", "ended"},
     event   : 0 .. MaxEvents,
     attempt : 0 .. Retries]

Init ==
    /\ outbox = << >>
    /\ emitted = 0
    /\ dropped = {}
    /\ pump = [at |-> "waiting", event |-> 0, attempt |-> 0]
    /\ closed = FALSE
    /\ inflight = {}
    /\ received = << >>
    /\ acked = {}
    /\ failed = {}

Request == <<pump.event, pump.attempt>>

\* Mutant: the bound of the outbox is not looked at.
FitsAlways == TRUE

Fits == Len(outbox) < QueueSize

\* emit(): put_nowait, or drop.
emit ==
    /\ emitted < MaxEvents
    /\ emitted' = emitted + 1
    /\ IF Fits
       THEN outbox' = Append(outbox, emitted + 1) /\ UNCHANGED dropped
       ELSE dropped' = dropped \cup {emitted + 1} /\ UNCHANGED outbox
    /\ UNCHANGED <<pump, closed, inflight, received, acked, failed>>

------------------------------------------------------------------------------
(* The pump.                                                                *)

Send(event, attempt) ==
    /\ pump' = [at |-> "posting", event |-> event, attempt |-> attempt]
    /\ inflight' = inflight \cup {<<event, attempt>>}

\* Mutant: the newest event goes first.
TakeNewest ==
    /\ pump.at = "waiting"
    /\ outbox # << >>
    /\ outbox' = SubSeq(outbox, 1, Len(outbox) - 1)
    /\ Send(outbox[Len(outbox)], 1)
    /\ UNCHANGED <<emitted, dropped, closed, received, acked, failed>>

\* queue.get returns, and _post makes its first attempt.
Take ==
    /\ pump.at = "waiting"
    /\ outbox # << >>
    /\ outbox' = Tail(outbox)
    /\ Send(Head(outbox), 1)
    /\ UNCHANGED <<emitted, dropped, closed, received, acked, failed>>

\* A 2xx answer to this attempt: the gateway has processed it.
Succeeds ==
    /\ pump.at = "posting"
    /\ Request \notin inflight
    /\ pump.event \in {received[i] : i \in DOMAIN received}
    /\ acked' = acked \cup {pump.event}
    /\ pump' = [pump EXCEPT !.at = "waiting"]
    /\ UNCHANGED <<outbox, emitted, dropped, closed, network, failed>>

\* Mutants of what follows a failed attempt: no retry; an exception leaves _post.
GivesUpAtOnce == [pump EXCEPT !.at = "waiting"]
PumpDies == [pump EXCEPT !.at = "ended"]

AfterFailure ==
    [pump EXCEPT !.at = IF pump.attempt < Retries THEN "sleeping" ELSE "waiting"]

\* Another answer, or an exception, a timeout among them: whether the gateway has
\* processed the request, will do so, or never gets it, cannot be told.
Fails ==
    /\ pump.at = "posting"
    /\ failed' = failed \cup {Request}
    /\ pump' = AfterFailure
    /\ UNCHANGED <<outbox, emitted, dropped, closed, network, acked>>

\* The backoff is over.
Retry ==
    /\ pump.at = "sleeping"
    /\ Send(pump.event, pump.attempt + 1)
    /\ UNCHANGED <<outbox, emitted, dropped, closed, received, acked, failed>>

\* close() cancels the pump wherever it is suspended; the outbox is left as it is.
Close ==
    /\ ~closed
    /\ closed' = TRUE
    /\ pump' = [pump EXCEPT !.at = "ended"]
    /\ UNCHANGED <<outbox, emitted, dropped, network, acked, failed>>

------------------------------------------------------------------------------
(* The network and the gateway.                                             *)

Process(q) ==
    /\ q \in inflight
    /\ inflight' = inflight \ {q}
    /\ received' = Append(received, q[1])
    /\ UNCHANGED <<outbox, emitted, dropped, pump, closed, acked, failed>>

PumpStep == Take \/ Succeeds \/ Fails \/ Retry

Next == emit \/ PumpStep \/ Close \/ \E q \in Requests : Process(q)

Spec == Init /\ [][Next]_vars

\* The pump is resumed: every request has a timeout, every backoff ends.  Nothing is
\* assumed of the network, of the gateway or of those who emit.
FairSpec == Spec /\ WF_vars(PumpStep)

------------------------------------------------------------------------------
TypeOK ==
    /\ outbox \in Seq(Events)
    /\ Len(outbox) <= QueueSize
    /\ emitted \in 0 .. MaxEvents
    /\ dropped \subseteq Events
    /\ pump \in PumpState
    /\ closed \in BOOLEAN
    /\ inflight \subseteq Requests
    /\ received \in Seq(Events)
    /\ acked \subseteq Events
    /\ failed \subseteq Requests

Waiting == {outbox[i] : i \in DOMAIN outbox}
BeingPosted == IF pump.at \in {"posting", "sleeping"} THEN {pump.event} ELSE {}
CutOff == IF closed THEN {pump.event} ELSE {}

\* No event gets lost on the way: one that is no longer in the outbox or being posted
\* was answered, or was tried as often as it may be.  What close() costs, at the end
\* of a shutdown that has just emitted `stopped`, is the outbox as it then is and the
\* event whose request or backoff it cancels.
EventsAccountedFor ==
    \A e \in 1 .. emitted :
        \/ e \in dropped \cup Waiting \cup BeingPosted \cup CutOff \cup acked
        \/ {e} \X (1 .. Retries) \subseteq failed

\* The gateway sees the events in their order, but for those whose request failed for
\* the client and reached the gateway late, or twice.
LateOnlyAfterFailure ==
    \A i, j \in DOMAIN received :
        i < j /\ received[i] >= received[j] =>
            \E a \in 1 .. Retries : <<received[j], a>> \in failed

\* A gateway that is down never stalls the outbox: each event leaves it in the end.
OutboxDrains ==
    \A e \in Events : e \in Waiting ~> e \notin Waiting \/ closed
==============================================================================
