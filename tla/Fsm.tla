--------------------------------- MODULE Fsm ---------------------------------
(***************************************************************************)
(* One control-protocol automaton (fsm.c) against every environment: an    *)
(* administrator, a lower layer, the two timers and a peer that may send   *)
(* any packet with any identifier at any time.                             *)
(***************************************************************************)
EXTENDS FsmOps

VARIABLES
  fsm,     \* struct fsm
  wanted,  \* the last administrative event was Open
  carrier, \* the last event of the lower layer was Up
  refused  \* the automaton failed itself as it opened, and did not come to rest since

vars == << fsm, wanted, carrier, refused >>

\* The states in which the automaton has nothing of the layer below.
AtRest == {"Initial", "Closed", "Stopped"}

TypeOK ==
  /\ fsm \in Fsms
  /\ wanted \in BOOLEAN
  /\ carrier \in BOOLEAN
  /\ refused \in BOOLEAN

Init == fsm = FsmInit /\ wanted = FALSE /\ carrier = FALSE /\ refused = FALSE

\* The automaton becomes g.
Becomes(g) == fsm' = g /\ refused' = (refused /\ g.state \notin AtRest)

\* A handler that neither the administrator nor the lower layer called.
Handle(g) == Becomes(g) /\ UNCHANGED << wanted, carrier >>

\* A handler that may open the automaton, whose method NewState lets it (joins) or not.
Answer(g, joins) ==
  /\ fsm' = g
  /\ refused' = IF fsm.state \in Negotiating /\ g.state = "Opened" /\ ~joins THEN TRUE
                ELSE refused /\ g.state \notin AtRest
  /\ UNCHANGED << wanted, carrier >>

Open  == Becomes(FsmOpen(Begin(fsm)))  /\ wanted' = TRUE  /\ UNCHANGED carrier
Close == Becomes(FsmClose(Begin(fsm))) /\ wanted' = FALSE /\ UNCHANGED carrier
Up    == Becomes(FsmUp(Begin(fsm)))    /\ carrier' = TRUE  /\ UNCHANGED wanted
Down  == Becomes(FsmDown(Begin(fsm)))  /\ carrier' = FALSE /\ UNCHANGED wanted

Timeout == fsm.timer /\ Handle(FsmTimeout(Begin(fsm)))

\* Traffic seen or not since the keep-alive timer fired last.
EchoTimeout ==
  \E traffic \in BOOLEAN : fsm.echo /\ Handle(FsmEchoTimeout(Begin(fsm), traffic))

\* FsmFailure() called from outside the automaton: a bad magic number, a fatal
\* Code-Reject or Protocol-Reject, the protocol itself rejected by the peer, or a
\* LayerUp method that cannot bring its layer up.
Failure == Handle(FsmFailure(Begin(fsm)))

ConfigReq ==
  \E id \in Ids, v \in Verdicts, joins \in BOOLEAN :
    Answer(RecvConfigReq(Begin(fsm), id, v, joins), joins)
ConfigAck ==
  \E id \in Ids, joins \in BOOLEAN :
    Answer(RecvConfigAck(Begin(fsm), id, joins), joins)
ConfigNakOrRej == \E id \in Ids : Handle(RecvConfigRefusal(Begin(fsm), id))
TermReq == Handle(RecvTermReq(Begin(fsm)))
TermAck == Handle(RecvTermAck(Begin(fsm)))
RxjPlus == Handle(RecvRxjPlus(Begin(fsm)))

Next ==
  \/ Open \/ Close \/ Up \/ Down
  \/ Timeout \/ EchoTimeout \/ Failure
  \/ ConfigReq \/ ConfigAck \/ ConfigNakOrRej \/ TermReq \/ TermAck \/ RxjPlus

Spec == Init /\ [][Next]_vars

\* The step starts the restart timer anew: with each request of our own, and when
\* our request is acknowledged first.
Rearmed ==
  \/ \E i \in DOMAIN fsm'.out : fsm'.out[i].code \in {"ConfigReq", "TermReq"}
  \/ fsm.state = "ReqSent" /\ fsm'.state = "AckRcvd"

\* The event loop fires the restart timer unless it is stopped or started anew
\* before: a peer that keeps provoking requests may put the timeout off for ever.
FairSpec == Spec /\ ([]<>(~fsm.timer) \/ []<><<Timeout \/ Rearmed>>_vars)

----------------------------------------------------------------------------
(* Safety. *)

\* The automaton never waits for the peer without a running restart timer, and the
\* timer never runs in a state whose timeout FsmTimeout() ignores: no packet
\* order, renegotiation or zeroed counter parks it in ReqSent, AckRcvd, AckSent,
\* Closing or Stopping for good.  The keep-alive timer runs in Opened only, so that
\* FsmEchoTimeout() can never fail a session that is not (or no longer) open.
TimersMatchState ==
  /\ fsm.timer <=> fsm.state \in Waiting
  /\ fsm.echo <=> fsm.state = "Opened" /\ EchoLimit # 0

\* What the layers around have been told follows from the state: the layer above is up
\* exactly in Opened and its options are configured exactly while they are negotiated or
\* in use; LayerStart and LayerFinish keep the lower layer requested while the automaton
\* needs it and released once it is done (a passive one may keep it in Stopped, and after
\* a Close from there in Closed: no LayerFinish is called on that path).  One exception:
\* an automaton that failed itself as it opened (LCP, refused by its bundle) goes on, up
\* and talking to the peer, with the lower layer released and, until the carrier is lost,
\* the options gone; no LayerStart mends that before it comes to rest.
LayersAgree ==
  /\ fsm.up <=> fsm.state = "Opened"
  /\ fsm.configured => fsm.state \in Negotiating \cup {"Opened"}
  /\ ~Passive /\ fsm.state \in AtRest => ~fsm.started
  /\ ~refused =>
       /\ fsm.state \in Negotiating \cup {"Opened"} => fsm.configured
       /\ fsm.state \in {"Starting", "Opened"} \cup Waiting => fsm.started
  /\ refused => fsm.state \notin AtRest /\ (fsm.started <=> Passive)

\* No handler tells the layer above twice that it is down, or tells one that is not up.
\* One does: FsmRecvConfigReq() in Opened calls LayerDown before it answers, and when
\* max-failure is spent FsmFailure() calls it again, for the state is Opened still.
LayerDownOnce ==
  [][\/ fsm'.downs = (IF fsm.up /\ ~fsm'.up THEN 1 ELSE 0)
     \/ /\ fsm.state = "Opened" /\ fsm.failure = 0
        /\ fsm'.state = "Stopping" /\ fsm'.downs = 2]_vars

\* The layers around follow the automaton: they agree with its state after every event,
\* and on the way there the layer above was told once what it had to be told.
LayersFollow == []LayersAgree /\ LayerDownOnce

\* The one state remembers both histories of events.  OPEN_STATE(), which link.c,
\* bund.c and iface.c use to ask what the administrator wants, answers exactly that;
\* and the automaton is in Initial or Starting exactly while the lower layer is
\* down, so it never talks to a peer over a dead layer.
StateRemembersEvents ==
  /\ fsm.state \in OPEN_STATE <=> wanted
  /\ fsm.state \in {"Initial", "Starting"} <=> ~carrier

\* No retransmission count goes negative (a negative restart counter would still
\* time out, a negative failure counter would refuse forever), and whoever awaits
\* only the peer's request has a full budget.
CountersBounded ==
  /\ fsm.state \in {"AckRcvd", "Opened"} =>
       fsm.restart = MaxConfig /\ fsm.config = MaxConfig
  /\ fsm.state \in Negotiating => fsm.restart < fsm.config + MaxConfig
  /\ fsm.failure >= 0 /\ fsm.restart >= 0

----------------------------------------------------------------------------
(* What the layers above and below see. *)

Coarse(s) == IF s \in Negotiating THEN "Negotiating" ELSE s

Layer == INSTANCE FsmLayer WITH state <- Coarse(fsm.state), started <- fsm.started

\* Every handler is one step of FsmLayer, or none, whatever the peer sends: the
\* layers around may reason about the coarse automaton, as Link does about LCP.
ImplementsLayer == Layer!Spec

----------------------------------------------------------------------------
(* Liveness. *)

\* A termination always ends: whatever the peer sends, and however often the
\* administrator changes his mind, the restart counter is never refilled in
\* Closing and Stopping.
TerminationEnds == fsm.state \in Terminating ~> fsm.state \notin Terminating

\* A negotiation in which the peer never acknowledges our requests (after some
\* time) does not go on forever: Naks, Rejects and requests that cannot be
\* accepted run into max-configure and max-failure, silence into the timeouts.
NegotiationEnds ==
  <>[][fsm.state = "ReqSent" => fsm'.state # "AckRcvd"]_vars
    => []<>(fsm.state \notin Negotiating)
=============================================================================
