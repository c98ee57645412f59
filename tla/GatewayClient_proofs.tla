------------------------- MODULE GatewayClient_proofs -------------------------
(***************************************************************************)
(* The outbox and its pump for every size of the outbox, number of retries  *)
(* and number of events, over a network that loses, delays and reorders.    *)
(***************************************************************************)
EXTENDS GatewayClient, TLAPS

\* The outbox is in the order of emission, and behind what the pump has taken.
OutboxInv ==
    /\ \A i, j \in DOMAIN outbox : i < j => outbox[i] < outbox[j]
    /\ \A i \in DOMAIN outbox : pump.event < outbox[i] /\ outbox[i] <= emitted
    /\ pump.event <= emitted

\* The attempts of the event before the one that is under way have failed.
PumpInv ==
    /\ closed <=> pump.at = "ended"
    /\ pump.at \in {"posting", "sleeping"} => pump.event \in Events /\ pump.attempt # 0
    /\ pump.at = "posting" =>
        \A a \in 1 .. Retries : a < pump.attempt => <<pump.event, a>> \in failed
    /\ pump.at = "sleeping" =>
        /\ pump.attempt < Retries
        /\ \A a \in 1 .. Retries : a <= pump.attempt => <<pump.event, a>> \in failed

\* What is on its way to the gateway is the request of the pump, or one that failed;
\* and the gateway has seen nothing that the pump has not sent.
NetworkInv ==
    /\ \A q \in inflight :
        /\ q[1] <= pump.event
        /\ q \in failed \/ (q = Request /\ pump.at \in {"posting", "ended"})
    /\ \A i \in DOMAIN received :
        /\ received[i] <= pump.event
        /\ received[i] = pump.event =>
            Request \notin inflight \/ \E a \in 1 .. Retries : <<pump.event, a>> \in failed

ClientInv ==
    TypeOK /\ OutboxInv /\ PumpInv /\ NetworkInv /\ EventsAccountedFor /\ LateOnlyAfterFailure

LEMMA InitClient == Init => ClientInv
<1> SUFFICES ASSUME Init PROVE ClientInv
  OBVIOUS
<1>1. TypeOK
  <2>1. outbox \in Seq(Events) /\ received \in Seq(Events) /\ Len(outbox) <= QueueSize
    BY GatewayAssumption DEF Init
  <2>2. emitted \in 0 .. MaxEvents /\ pump \in PumpState
    BY GatewayAssumption DEF Init, PumpState
  <2> QED BY <2>1, <2>2 DEF Init, TypeOK
<1>2. EventsAccountedFor /\ LateOnlyAfterFailure
  BY DEF Init, EventsAccountedFor, LateOnlyAfterFailure
<1> QED BY <1>1, <1>2 DEF Init, ClientInv, OutboxInv, PumpInv, NetworkInv

------------------------------------------------------------------------------
(* Appending to the outbox and taking from it.                              *)

LEMMA AppendEntries ==
    ASSUME NEW S, NEW s \in Seq(S), NEW x \in S
    PROVE  /\ Append(s, x) \in Seq(S) /\ Len(Append(s, x)) = Len(s) + 1
           /\ DOMAIN s = 1 .. Len(s) /\ DOMAIN Append(s, x) = 1 .. Len(s) + 1
           /\ Append(s, x)[Len(s) + 1] = x
           /\ \A i \in DOMAIN s : Append(s, x)[i] = s[i]
           /\ Len(s) \in Nat
  OBVIOUS

LEMMA TailEntries ==
    ASSUME NEW S, NEW s \in Seq(S), s # << >>
    PROVE  /\ Head(s) \in S /\ Head(s) = s[1] /\ Tail(s) \in Seq(S)
           /\ Len(s) \in Nat \ {0} /\ Len(Tail(s)) = Len(s) - 1
           /\ DOMAIN s = 1 .. Len(s) /\ DOMAIN Tail(s) = 1 .. Len(s) - 1
           /\ \A i \in DOMAIN Tail(s) : Tail(s)[i] = s[i + 1]
  OBVIOUS

LEMMA TypeStep ==
    ASSUME TypeOK, OutboxInv, PumpInv, [Next]_vars
    PROVE  TypeOK'
<1>0. Retries \in Nat \ {0} /\ QueueSize \in Nat \ {0} /\ MaxEvents \in Nat
  BY GatewayAssumption
<1>1. CASE emit
  <2>1. emitted + 1 \in Events /\ emitted' = emitted + 1 /\ emitted' \in 0 .. MaxEvents
    BY <1>0, <1>1 DEF emit, TypeOK, Events
  <2>2. CASE Fits
    <3>1. outbox' = Append(outbox, emitted + 1) /\ UNCHANGED dropped
      BY <1>1, <2>2 DEF emit
    <3>2. outbox' \in Seq(Events) /\ Len(outbox') <= QueueSize
      BY <1>0, <2>1, <2>2, <3>1, AppendEntries DEF TypeOK, Fits
    <3> QED BY <1>1, <2>1, <3>1, <3>2 DEF emit, TypeOK
  <2>3. CASE ~Fits
    BY <1>1, <2>1, <2>3 DEF emit, TypeOK
  <2> QED BY <2>2, <2>3
<1>2. CASE Take
  <2>1. /\ outbox' = Tail(outbox) /\ Send(Head(outbox), 1)
        /\ UNCHANGED <<emitted, dropped, closed, received, acked, failed>>
        /\ outbox # << >>
    BY <1>2 DEF Take
  <2>2. /\ Head(outbox) \in Events /\ outbox' \in Seq(Events)
        /\ Len(outbox') <= QueueSize
    BY <1>0, <2>1, TailEntries DEF TypeOK
  <2>3. pump' \in PumpState /\ inflight' \subseteq Requests
    BY <1>0, <2>1, <2>2, SMTT(30) DEF Send, PumpState, Events, Requests, TypeOK
  <2> QED BY <2>1, <2>2, <2>3 DEF TypeOK
<1>3. CASE Succeeds
  BY <1>3 DEF Succeeds, TypeOK, PumpState, PumpInv, network
<1>4. CASE Fails
  <2>1. Request \in Requests /\ pump' \in PumpState
    BY <1>0, <1>4 DEF Fails, AfterFailure, Request, Requests, TypeOK, PumpState, PumpInv
  <2> QED BY <1>4, <2>1 DEF Fails, TypeOK, network
<1>5. CASE Retry
  <2>1. pump.event \in Events /\ pump.attempt + 1 \in 1 .. Retries
    BY <1>0, <1>5 DEF Retry, PumpInv, TypeOK, PumpState
  <2>2. pump' \in PumpState /\ inflight' \subseteq Requests
    BY <1>5, <2>1 DEF Retry, Send, TypeOK, PumpState, Requests, Events
  <2> QED BY <1>5, <2>2 DEF Retry, TypeOK
<1>6. CASE Close
  BY <1>6 DEF Close, TypeOK, PumpState, network
<1>7. CASE \E q \in Requests : Process(q)
  <2>1. PICK q \in Requests : Process(q)
    BY <1>7
  <2>2. q[1] \in Events
    BY DEF Requests
  <2>3. received' \in Seq(Events)
    BY <2>1, <2>2, AppendEntries DEF Process, TypeOK
  <2> QED BY <2>1, <2>3 DEF Process, TypeOK
<1>8. CASE UNCHANGED vars
  BY <1>8 DEF vars, TypeOK, network
<1> QED BY <1>1, <1>2, <1>3, <1>4, <1>5, <1>6, <1>7, <1>8 DEF Next, PumpStep

LEMMA OutboxStep ==
    ASSUME TypeOK, OutboxInv, [Next]_vars
    PROVE  OutboxInv'
<1>0. /\ outbox \in Seq(Events) /\ emitted \in Nat /\ pump.event \in Nat
      /\ \A i \in DOMAIN outbox : outbox[i] \in Nat
  BY GatewayAssumption DEF TypeOK, Events, PumpState
<1>1. CASE emit
  <2>1. emitted' = emitted + 1 /\ emitted + 1 \in Events /\ pump' = pump
    BY <1>0, <1>1, GatewayAssumption DEF emit, Events
  <2>2. CASE Fits
    <3>1. outbox' = Append(outbox, emitted + 1)
      BY <1>1, <2>2 DEF emit
    <3> QED BY <1>0, <2>1, <3>1, AppendEntries DEF OutboxInv
  <2>3. CASE ~Fits
    BY <1>0, <1>1, <2>1, <2>3 DEF emit, OutboxInv
  <2> QED BY <2>2, <2>3
<1>2. CASE Take
  <2>1. /\ outbox' = Tail(outbox) /\ pump'.event = outbox[1] /\ UNCHANGED emitted
        /\ outbox # << >>
    BY <1>0, <1>2 DEF Take, Send
  <2>2. ASSUME NEW i \in DOMAIN outbox'
        PROVE  i + 1 \in DOMAIN outbox /\ outbox'[i] = outbox[i + 1] /\ 1 \in DOMAIN outbox
               /\ i \in Nat \ {0}
    BY <1>0, <2>1, TailEntries
  <2>3. 1 \in DOMAIN outbox
    BY <1>0, <2>1, TailEntries
  <2> QED BY <2>1, <2>2, <2>3 DEF OutboxInv
<1>3. CASE Succeeds \/ Fails \/ Retry \/ Close \/ (\E q \in Requests : Process(q))
           \/ UNCHANGED vars
  <2>1. UNCHANGED <<outbox, emitted>> /\ pump'.event = pump.event
    BY <1>3 DEF Succeeds, Fails, AfterFailure, Retry, Send, Close, Process, vars,
                TypeOK, PumpState
  <2> QED BY <2>1 DEF OutboxInv
<1> QED BY <1>1, <1>2, <1>3 DEF Next, PumpStep

LEMMA PumpInvStep ==
    ASSUME TypeOK, PumpInv, [Next]_vars
    PROVE  PumpInv'
<1>0. /\ Retries \in Nat \ {0} /\ pump \in PumpState /\ pump.attempt \in Nat
      /\ outbox \in Seq(Events) /\ failed \subseteq Requests
  BY GatewayAssumption DEF TypeOK, PumpState
<1>1. CASE emit \/ (\E q \in Requests : Process(q)) \/ UNCHANGED vars
  BY <1>1 DEF emit, Process, vars, PumpInv
<1>2. CASE Take
  <2>1. /\ pump' = [at |-> "posting", event |-> Head(outbox), attempt |-> 1]
        /\ UNCHANGED <<closed, failed>> /\ pump.at = "waiting" /\ Head(outbox) \in Events
    BY <1>0, <1>2, TailEntries DEF Take, Send
  <2> QED BY <1>0, <2>1 DEF PumpInv
<1>3. CASE Succeeds
  BY <1>0, <1>3 DEF Succeeds, PumpInv, PumpState
<1>4. CASE Fails
  <2>1. /\ pump' = AfterFailure /\ failed' = failed \cup {Request} /\ UNCHANGED closed
        /\ pump.at = "posting"
    BY <1>4 DEF Fails
  <2>2. /\ pump'.event = pump.event /\ pump'.attempt = pump.attempt
        /\ pump'.at = IF pump.attempt < Retries THEN "sleeping" ELSE "waiting"
    BY <1>0, <2>1 DEF AfterFailure, PumpState
  <2>3. \A a \in 1 .. Retries : a <= pump.attempt => <<pump.event, a>> \in failed'
    BY <1>0, <2>1 DEF PumpInv, Request
  <2> QED BY <2>1, <2>2, <2>3 DEF PumpInv
<1>5. CASE Retry
  <2>1. /\ pump' = [at |-> "posting", event |-> pump.event, attempt |-> pump.attempt + 1]
        /\ UNCHANGED <<closed, failed>> /\ pump.at = "sleeping"
    BY <1>5 DEF Retry, Send
  <2> QED BY <1>0, <2>1 DEF PumpInv
<1>6. CASE Close
  BY <1>0, <1>6 DEF Close, PumpInv, PumpState
<1> QED BY <1>1, <1>2, <1>3, <1>4, <1>5, <1>6 DEF Next, PumpStep

\* A new event, one that is behind everything that was sent, or the next attempt of
\* one whose attempts failed: everything else that is on its way has failed.
LEMMA SendNetwork ==
    ASSUME TypeOK, NetworkInv, NEW e \in Events, NEW a \in 1 .. Retries,
           pump.at \in {"waiting", "sleeping"}, Send(e, a), UNCHANGED <<received, failed>>,
           e > pump.event \/ (e = pump.event /\ \E b \in 1 .. Retries : <<e, b>> \in failed)
    PROVE  NetworkInv'
<1>0. /\ e \in Nat /\ pump.event \in Nat /\ inflight \subseteq Requests
      /\ received \in Seq(Events) /\ \A i \in DOMAIN received : received[i] \in Nat
      /\ \A q \in Requests : q[1] \in Nat
  BY GatewayAssumption DEF TypeOK, Events, PumpState, Requests
<1>1. /\ pump'.at = "posting" /\ pump'.event = e /\ Request' = <<e, a>>
      /\ inflight' = inflight \cup {<<e, a>>}
  BY DEF Send, Request
<1>2. ASSUME NEW q \in inflight'
      PROVE  q[1] <= pump'.event /\ (q \in failed \/ q = <<e, a>>)
  <2>1. CASE q = <<e, a>>
    BY <1>0, <1>1, <2>1
  <2>2. CASE q \in inflight
    BY <1>0, <1>1, <2>2 DEF NetworkInv
  <2> QED BY <1>1, <2>1, <2>2
<1>3. ASSUME NEW i \in DOMAIN received
      PROVE  /\ received[i] <= pump'.event
             /\ received[i] = pump'.event => \E b \in 1 .. Retries : <<e, b>> \in failed
  BY <1>0, <1>1 DEF NetworkInv
<1> QED BY <1>1, <1>2, <1>3 DEF NetworkInv

LEMMA NetworkStep ==
    ASSUME TypeOK, OutboxInv, PumpInv, NetworkInv, [Next]_vars
    PROVE  NetworkInv'
<1>0. /\ Retries \in Nat \ {0} /\ pump \in PumpState /\ outbox \in Seq(Events)
      /\ pump.event \in Nat
  BY GatewayAssumption DEF TypeOK, PumpState
<1>1. CASE emit \/ UNCHANGED vars
  BY <1>1 DEF emit, vars, network, NetworkInv, Request
<1>2. CASE Take
  <2>1. /\ Head(outbox) \in Events /\ Head(outbox) > pump.event /\ 1 \in 1 .. Retries
        /\ pump.at = "waiting" /\ Send(Head(outbox), 1) /\ UNCHANGED <<received, failed>>
    <3>1. outbox # << >> /\ Head(outbox) = outbox[1] /\ 1 \in DOMAIN outbox
          /\ Head(outbox) \in Events
      BY <1>0, <1>2, TailEntries DEF Take
    <3>2. outbox[1] > pump.event
      BY <1>0, <3>1, GatewayAssumption DEF OutboxInv, Events
    <3> QED BY <1>0, <1>2, <3>1, <3>2 DEF Take
  <2> QED BY <2>1, SendNetwork
<1>3. CASE Retry
  <2>1. pump.event \in Events /\ pump.attempt \in 1 .. Retries
        /\ pump.attempt + 1 \in 1 .. Retries /\ <<pump.event, pump.attempt>> \in failed
    BY <1>0, <1>3 DEF Retry, PumpInv, PumpState
  <2>2. /\ pump.at = "sleeping" /\ Send(pump.event, pump.attempt + 1)
        /\ UNCHANGED <<received, failed>>
    BY <1>3 DEF Retry
  <2> QED BY <2>1, <2>2, SendNetwork
<1>4. CASE Succeeds
  <2>1. /\ UNCHANGED <<inflight, received, failed>> /\ Request \notin inflight
        /\ pump'.event = pump.event /\ Request' = Request
    BY <1>0, <1>4 DEF Succeeds, network, Request, PumpState
  <2> QED BY <2>1 DEF NetworkInv
<1>5. CASE Fails
  <2>1. /\ UNCHANGED <<inflight, received>> /\ failed' = failed \cup {Request}
        /\ pump'.event = pump.event /\ Request' = Request
    BY <1>0, <1>5 DEF Fails, AfterFailure, network, Request, PumpState
  <2> QED BY <2>1 DEF NetworkInv
<1>6. CASE Close
  <2>1. /\ UNCHANGED <<inflight, received, failed>> /\ pump'.at = "ended"
        /\ pump'.event = pump.event /\ Request' = Request
    BY <1>0, <1>6 DEF Close, network, Request, PumpState
  <2> QED BY <2>1 DEF NetworkInv
<1>7. CASE \E q \in Requests : Process(q)
  <2>1. PICK q \in Requests : Process(q)
    BY <1>7
  <2>2. /\ q \in inflight /\ inflight' = inflight \ {q} /\ received' = Append(received, q[1])
        /\ UNCHANGED <<pump, failed>> /\ Request' = Request
    BY <2>1 DEF Process, Request
  <2>3. q[1] \in Events /\ received \in Seq(Events) /\ q[1] <= pump.event
        /\ (q \in failed \/ q = Request) /\ \E a \in 1 .. Retries : q = <<q[1], a>>
    BY <2>2 DEF TypeOK, NetworkInv, Requests
  <2>4. ASSUME NEW i \in DOMAIN received'
        PROVE  /\ received'[i] <= pump'.event
               /\ received'[i] = pump'.event =>
                      \/ Request' \notin inflight'
                      \/ \E a \in 1 .. Retries : <<pump'.event, a>> \in failed'
    <3> DEFINE Behind == Request' \notin inflight'
                         \/ \E a \in 1 .. Retries : <<pump'.event, a>> \in failed'
    <3>1. CASE i \in DOMAIN received
      <4>1. received'[i] = received[i]
        BY <2>2, <2>3, <3>1, AppendEntries
      <4>2. received[i] <= pump.event
        BY <3>1 DEF NetworkInv
      <4>3. ASSUME received[i] = pump.event PROVE Behind
        <5>1. Request \notin inflight \/ \E a \in 1 .. Retries : <<pump.event, a>> \in failed
          BY <3>1, <4>3 DEF NetworkInv
        <5> QED BY <2>2, <5>1
      <4> QED BY <2>2, <4>1, <4>2, <4>3
    <3>2. CASE i = Len(received) + 1
      <4>1. received'[i] = q[1]
        BY <2>2, <2>3, <3>2, AppendEntries
      <4>2. CASE q \in failed
        <5>1. PICK a \in 1 .. Retries : q = <<q[1], a>>
          BY <2>3
        <5>2. q[1] = pump'.event => Behind
          BY <2>2, <4>2, <5>1
        <5> QED BY <2>2, <2>3, <4>1, <5>2
      <4>3. CASE q = Request
        <5>1. Behind
          BY <2>2, <4>3
        <5> QED BY <2>2, <2>3, <4>1, <5>1
      <4> QED BY <2>3, <4>2, <4>3
    <3>3. i \in DOMAIN received \/ i = Len(received) + 1
      BY <2>2, <2>3, AppendEntries
    <3> QED BY <3>1, <3>2, <3>3
  <2> QED BY <2>2, <2>4 DEF NetworkInv
<1> QED BY <1>1, <1>2, <1>3, <1>4, <1>5, <1>6, <1>7 DEF Next, PumpStep

LEMMA AccountedStep ==
    ASSUME TypeOK, PumpInv, EventsAccountedFor, [Next]_vars
    PROVE  EventsAccountedFor'
<1>0. /\ Retries \in Nat \ {0} /\ pump \in PumpState /\ outbox \in Seq(Events)
      /\ emitted \in Nat
  BY GatewayAssumption DEF TypeOK, PumpState
<1> DEFINE Accounted(e) == \/ e \in dropped \cup Waiting \cup BeingPosted \cup CutOff \cup acked
                           \/ {e} \X (1 .. Retries) \subseteq failed
<1>1. SUFFICES ASSUME NEW e \in 1 .. emitted' PROVE Accounted(e)'
  BY DEF EventsAccountedFor
<1>2. CASE emit
  <2>1. /\ emitted' = emitted + 1
        /\ UNCHANGED <<pump, closed, acked, failed>> /\ (BeingPosted \cup CutOff)' = BeingPosted \cup CutOff
    BY <1>2 DEF emit, BeingPosted, CutOff
  <2>2. /\ Waiting \subseteq Waiting' /\ dropped \subseteq dropped'
        /\ emitted + 1 \in Waiting' \cup dropped'
    <3>1. CASE Fits
      <4>1. outbox' = Append(outbox, emitted + 1) /\ emitted + 1 \in Events /\ UNCHANGED dropped
        BY <1>0, <1>2, <3>1, GatewayAssumption DEF emit, Events
      <4> QED BY <1>0, <4>1, AppendEntries DEF Waiting
    <3>2. CASE ~Fits
      BY <1>2, <3>2 DEF emit, Waiting
    <3> QED BY <3>1, <3>2
  <2>3. CASE e \in 1 .. emitted
    BY <2>1, <2>2, <2>3 DEF EventsAccountedFor
  <2>4. CASE e = emitted + 1
    BY <2>2, <2>4
  <2> QED BY <1>0, <2>1, <2>3, <2>4
<1>3. ASSUME UNCHANGED emitted PROVE Accounted(e)
  BY <1>1, <1>3 DEF EventsAccountedFor
<1>4. CASE Take
  <2>1. /\ UNCHANGED <<emitted, dropped, closed, acked, failed>> /\ pump.at = "waiting"
        /\ pump'.at = "posting" /\ pump'.event = Head(outbox) /\ outbox # << >>
        /\ outbox' = Tail(outbox)
    BY <1>4 DEF Take, Send
  <2>2. ~closed /\ BeingPosted = {} /\ CutOff = {}
    BY <2>1 DEF PumpInv, BeingPosted, CutOff
  <2>3. ASSUME NEW x \in Waiting PROVE x = Head(outbox) \/ x \in Waiting'
    <3>1. PICK i \in DOMAIN outbox : outbox[i] = x
      BY DEF Waiting
    <3>2. CASE i = 1
      BY <1>0, <2>1, <3>1, <3>2, TailEntries
    <3>3. CASE i # 1
      <4>1. i - 1 \in DOMAIN outbox' /\ outbox'[i - 1] = outbox[(i - 1) + 1] /\ (i - 1) + 1 = i
        BY <1>0, <2>1, <3>1, <3>3, TailEntries
      <4> QED BY <3>1, <4>1 DEF Waiting
    <3> QED BY <3>2, <3>3
  <2>4. BeingPosted' = {Head(outbox)}
    BY <2>1 DEF BeingPosted
  <2> QED BY <1>3, <2>1, <2>2, <2>3, <2>4
<1>5. CASE Succeeds
  <2>1. /\ UNCHANGED <<emitted, dropped, closed, failed, outbox>> /\ pump.at = "posting"
        /\ acked' = acked \cup {pump.event} /\ pump'.event = pump.event
    BY <1>0, <1>5 DEF Succeeds, PumpState
  <2>2. Waiting' = Waiting /\ CutOff' = CutOff /\ BeingPosted = {pump.event}
    BY <2>1 DEF Waiting, CutOff, BeingPosted
  <2> QED BY <1>3, <2>1, <2>2
<1>6. CASE Fails
  <2>1. /\ UNCHANGED <<emitted, dropped, closed, acked, outbox>> /\ pump.at = "posting"
        /\ failed' = failed \cup {Request} /\ pump'.event = pump.event
        /\ pump'.at = IF pump.attempt < Retries THEN "sleeping" ELSE "waiting"
    BY <1>0, <1>6 DEF Fails, AfterFailure, PumpState
  <2>2. Waiting' = Waiting /\ CutOff' = CutOff /\ BeingPosted = {pump.event}
    BY <2>1 DEF Waiting, CutOff, BeingPosted
  <2>3. CASE e # pump.event
    BY <1>3, <2>1, <2>2, <2>3
  <2>4. CASE e = pump.event /\ pump.attempt < Retries
    BY <2>1, <2>4 DEF BeingPosted
  <2>5. CASE e = pump.event /\ ~(pump.attempt < Retries)
    <3>1. pump.attempt = Retries
      BY <1>0, <2>5 DEF PumpState
    <3>2. \A a \in 1 .. Retries : <<e, a>> \in failed'
      BY <1>0, <2>1, <2>5, <3>1 DEF PumpInv, Request
    <3> QED BY <3>2
  <2> QED BY <2>3, <2>4, <2>5
<1>7. CASE Retry
  <2>1. /\ UNCHANGED <<emitted, dropped, closed, acked, failed, outbox>>
        /\ pump.at = "sleeping" /\ pump'.at = "posting" /\ pump'.event = pump.event
    BY <1>7 DEF Retry, Send
  <2> QED BY <1>3, <2>1 DEF Waiting, CutOff, BeingPosted
<1>8. CASE Close
  <2>1. /\ UNCHANGED <<emitted, dropped, acked, failed, outbox>>
        /\ ~closed /\ closed' /\ pump'.event = pump.event
    BY <1>0, <1>8 DEF Close, PumpState
  <2>2. Waiting' = Waiting /\ CutOff = {} /\ CutOff' = {pump.event}
        /\ BeingPosted \subseteq {pump.event}
    BY <2>1 DEF Waiting, CutOff, BeingPosted
  <2> QED BY <1>3, <2>1, <2>2
<1>9. CASE (\E q \in Requests : Process(q)) \/ UNCHANGED vars
  <2>1. UNCHANGED <<emitted, dropped, closed, acked, failed, outbox, pump>>
    BY <1>9 DEF Process, vars
  <2> QED BY <1>3, <2>1 DEF Waiting, CutOff, BeingPosted
<1> QED BY <1>2, <1>4, <1>5, <1>6, <1>7, <1>8, <1>9 DEF Next, PumpStep

LEMMA LateStep ==
    ASSUME TypeOK, NetworkInv, LateOnlyAfterFailure, [Next]_vars
    PROVE  LateOnlyAfterFailure'
<1>1. failed \subseteq failed'
  BY DEF Next, PumpStep, emit, Take, Succeeds, Fails, Retry, Close, Process, vars
<1>2. CASE UNCHANGED received
  BY <1>1, <1>2 DEF LateOnlyAfterFailure
<1>3. CASE \E q \in Requests : Process(q)
  <2>1. PICK q \in Requests : Process(q)
    BY <1>3
  <2>2. q \in inflight /\ received' = Append(received, q[1])
    BY <2>1 DEF Process
  <2>3. /\ q[1] \in Events /\ received \in Seq(Events) /\ q[1] <= pump.event
        /\ q \in failed \/ q = Request
        /\ \E a \in 1 .. Retries : q = <<q[1], a>>
    BY <2>2 DEF TypeOK, NetworkInv, Requests
  <2>4. /\ Len(received) \in Nat /\ DOMAIN received' = 1 .. Len(received) + 1
        /\ DOMAIN received = 1 .. Len(received)
        /\ received'[Len(received) + 1] = q[1]
        /\ \A i \in DOMAIN received : received'[i] = received[i]
    BY <2>2, <2>3, AppendEntries
  <2>5. SUFFICES ASSUME NEW i \in DOMAIN received', NEW j \in DOMAIN received',
                        i < j, received'[i] >= received'[j]
                 PROVE  \E a \in 1 .. Retries : <<received'[j], a>> \in failed'
    BY DEF LateOnlyAfterFailure
  <2>6. i \in DOMAIN received /\ received'[i] = received[i]
    BY <2>4, <2>5
  <2>7. CASE j \in DOMAIN received
    BY <1>1, <2>4, <2>5, <2>6, <2>7 DEF LateOnlyAfterFailure
  <2>8. CASE j = Len(received) + 1
    <3>1. CASE q \in failed
      BY <1>1, <2>3, <2>4, <2>8, <3>1
    <3>2. CASE q = Request
      <4>1. q[1] = pump.event
        BY <3>2 DEF Request
      <4>2. received[i] <= pump.event /\ received[i] >= pump.event
        BY <2>4, <2>5, <2>6, <2>8, <4>1 DEF NetworkInv
      <4>3. received[i] = pump.event
        <5>1. received[i] \in Nat /\ pump.event \in Nat
          BY <2>3, <2>6, GatewayAssumption, SMTT(30) DEF Events, TypeOK, PumpState
        <5> QED BY <4>2, <5>1
      <4>4. \E a \in 1 .. Retries : <<pump.event, a>> \in failed
        BY <2>2, <2>6, <3>2, <4>3 DEF NetworkInv
      <4> QED BY <1>1, <2>4, <2>8, <4>1, <4>4
    <3> QED BY <2>3, <3>1, <3>2
  <2> QED BY <2>4, <2>7, <2>8
<1> QED BY <1>2, <1>3
        DEF Next, PumpStep, emit, Take, Succeeds, Fails, Retry, Close, vars, network

------------------------------------------------------------------------------
\* The invariant of the client: the order of the outbox, the attempts that failed,
\* and what the network may still deliver.
THEOREM ClientInvariant == Spec => []ClientInv
<1>1. ClientInv /\ [Next]_vars => ClientInv'
  BY TypeStep, OutboxStep, PumpInvStep, NetworkStep, AccountedStep, LateStep DEF ClientInv
<1> QED BY <1>1, InitClient, PTL DEF Spec

\* GatewayClient, for every size of the outbox and number of retries: the types, with
\* the outbox within its bound.
THEOREM TypeCorrect == Spec => []TypeOK
<1>1. ClientInv => TypeOK
  BY DEF ClientInv
<1> QED BY <1>1, ClientInvariant, PTL

\* emit, _run_pump, _post and close: an event that left the outbox was answered, or
\* tried as often as it may be, or cut off by close().
THEOREM NoEventUnaccounted == Spec => []EventsAccountedFor
<1>1. ClientInv => EventsAccountedFor
  BY DEF ClientInv
<1> QED BY <1>1, ClientInvariant, PTL

\* _post and the network: the gateway sees the events in order and once, except for
\* one of which a request failed for the client.
THEOREM OrderUnlessFailed == Spec => []LateOnlyAfterFailure
<1>1. ClientInv => LateOnlyAfterFailure
  BY DEF ClientInv
<1> QED BY <1>1, ClientInvariant, PTL
==============================================================================
