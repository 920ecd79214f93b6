------------------------------- MODULE FsmOps -------------------------------
(***************************************************************************)
(* The control-protocol automaton of fsm.c as functions on one struct fsm. *)
(*                                                                         *)
(* LCP, IPCP, IPV6CP, CCP and ECP are all instances of this automaton: it  *)
(* reacts to the administrator (Open, Close), to the layer below (Up,      *)
(* Down), to its restart timer, to its keep-alive timer and to packets.    *)
(* Every handler of fsm.c is one operator here that maps the struct before *)
(* the handler to the struct after it, so that the modules Fsm (one        *)
(* automaton, any peer) and Nego (two automata and a network) share the    *)
(* same translation of the code.                                           *)
(*                                                                         *)
(* The code calls the layer's methods (LayerUp, LayerDown, LayerStart,     *)
(* LayerFinish, Configure, UnConfigure) as it goes; the fields up, started *)
(* and configured record these calls, downs counts the LayerDown calls of  *)
(* one handler.  The method NewState, which only LCP has, may call back    *)
(* into the automaton: that is NewStateOpened.                             *)
(***************************************************************************)
EXTENDS Integers, Sequences

CONSTANTS
  MaxConfig,     \* conf.maxconfig
  MaxTerminate,  \* conf.maxterminate
  MaxFailure,    \* conf.maxfailure
  EchoLimit,     \* silent intervals that make conf.echo_max; 0 if echo_int = 0
  Passive,       \* conf.passive
  IdMod          \* request ids are counted modulo IdMod (256, a u_char)

ASSUME FsmAssumption ==
  /\ MaxConfig \in Nat \ {0}
  /\ MaxTerminate \in Nat \ {0}
  /\ MaxFailure \in Nat \ {0}
  /\ EchoLimit \in Nat
  /\ Passive \in BOOLEAN
  /\ IdMod \in Nat \ {0, 1}

----------------------------------------------------------------------------
(* States, identifiers and packets. *)

Negotiating == {"ReqSent", "AckRcvd", "AckSent"}
Terminating == {"Closing", "Stopping"}
Waiting     == Negotiating \cup Terminating
States      == {"Initial", "Starting", "Closed", "Stopped", "Opened"} \cup Waiting

\* OPEN_STATE(s): the states with s > ST_CLOSING or an odd number.
OPEN_STATE == {"Starting", "Stopped", "Stopping", "Opened"} \cup Negotiating

Ids     == 0 .. (IdMod - 1)
Codes   == {"ConfigReq", "ConfigAck", "ConfigNak", "ConfigRej",
            "TermReq", "TermAck"}
Packets == [code : Codes, id : Ids]

\* The verdict of the layer's DecodeConfig on a Configure-Request: every option
\* acceptable, some option to be rejected, or some value to be negotiated.
Verdicts == {"ConfigAck", "ConfigNak", "ConfigRej"}

NextId(i) == (i + 1) % IdMod

\* The struct. config may go below zero: retransmissions decrement it too, and
\* only a received Nak or Reject looks at it.
Fsms ==
  [state : States, reqid : Ids, restart : 0 .. (MaxConfig + MaxTerminate),
   failure : 0 .. MaxFailure, config : (-MaxConfig) .. MaxConfig,
   timer : BOOLEAN, echo : BOOLEAN, quiet : Nat,
   up : BOOLEAN, started : BOOLEAN, configured : BOOLEAN,
   downs : Nat, out : Seq(Packets)]

\* FsmInit(): memset to zero, then the defaults.
FsmInit ==
  [state |-> "Initial", reqid |-> 1, restart |-> 0, failure |-> 0, config |-> 0,
   timer |-> FALSE, echo |-> FALSE, quiet |-> 0,
   up |-> FALSE, started |-> FALSE, configured |-> FALSE,
   downs |-> 0, out |-> << >>]

\* A handler starts with nothing sent and nobody told.
Begin(f) == [f EXCEPT !.out = << >>, !.downs = 0]

----------------------------------------------------------------------------
(* Building blocks. *)

\* A slip in FsmNewState(): the keep-alive timer survives the end of Opened.
NewStateKeepsEcho(f, s) ==
  [f EXCEPT !.state = s,
            !.timer = IF s \in Waiting THEN @ ELSE FALSE,
            !.echo  = IF s = "Opened" /\ EchoLimit # 0 THEN TRUE ELSE @,
            !.quiet = IF s = "Opened" /\ EchoLimit # 0 THEN 0 ELSE @]

\* FsmNewState(), except for the one call of the method NewState that matters to
\* the automaton: see NewStateOpened.
NewState(f, s) ==
  [f EXCEPT !.state = s,
            !.timer = IF s \in Waiting THEN @ ELSE FALSE,
            !.echo  = IF s = "Opened" /\ EchoLimit # 0 THEN TRUE
                      ELSE IF f.state = "Opened" THEN FALSE ELSE @,
            !.quiet = IF s = "Opened" /\ EchoLimit # 0 THEN 0 ELSE @]

LayerUp(f)     == [f EXCEPT !.up = TRUE]
LayerDown(f)   == [f EXCEPT !.up = FALSE, !.downs = @ + 1]
LayerStart(f)  == [f EXCEPT !.started = TRUE]
LayerFinish(f) == [f EXCEPT !.started = FALSE]
Configure(f)   == [f EXCEPT !.configured = TRUE]
UnConfigure(f) == [f EXCEPT !.configured = FALSE]

Output(f, code, id) == [f EXCEPT !.out = Append(@, [code |-> code, id |-> id])]

\* A slip in the send functions: the restart timer is not armed.
SendConfigReqUntimed(f) ==
  [Output(f, "ConfigReq", f.reqid) EXCEPT
     !.reqid = NextId(@), !.restart = @ - 1, !.config = @ - 1]

SendConfigReq(f) ==
  [Output(f, "ConfigReq", f.reqid) EXCEPT
     !.reqid = NextId(@), !.timer = TRUE, !.restart = @ - 1, !.config = @ - 1]

SendTerminateReq(f) ==
  [Output(f, "TermReq", f.reqid) EXCEPT
     !.reqid = NextId(@), !.timer = TRUE, !.restart = @ - 1]

SendTerminateAck(f) ==
  [Output(f, "TermAck", f.reqid) EXCEPT !.reqid = NextId(@)]

SendConfigAck(f, id) == Output(f, "ConfigAck", id)

SendConfigRefusal(f, verdict, id) ==
  [Output(f, verdict, id) EXCEPT !.failure = @ - 1]

\* A slip in FsmInitRestartCounter(): max-configure is refilled with it.
InitRestartCounterAll(f, n) == [f EXCEPT !.timer = FALSE, !.restart = n, !.config = n]

InitRestartCounter(f, n) == [f EXCEPT !.timer = FALSE, !.restart = n]

\* The three resets that always go together: FsmInitRestartCounter(maxconfig),
\* FsmInitMaxFailure(maxfailure), FsmInitMaxConfig(maxconfig).
InitCounters(f) ==
  [f EXCEPT !.timer = FALSE, !.restart = MaxConfig,
            !.failure = MaxFailure, !.config = MaxConfig]

----------------------------------------------------------------------------
(* FsmFailure() and the four events of RFC 1661 that are not packets. *)

\* A slip in FsmFailure(): a layer that never was up is told that it is down.
FsmFailureTellsAll(f) ==
  CASE f.state = "Closing"  -> LayerFinish(NewState(f, "Closed"))
    [] f.state = "Closed"   -> LayerFinish(f)
    [] f.state = "Stopping" -> LayerFinish(NewState(f, "Stopped"))
    [] f.state \in Negotiating ->
         LET g == LayerDown(NewState(f, "Stopped"))
         IN  UnConfigure(IF Passive THEN g ELSE LayerFinish(g))
    [] f.state = "Opened" ->
         UnConfigure(LayerDown(SendTerminateReq(
           InitRestartCounter(NewState(f, "Stopping"), MaxTerminate))))
    [] f.state = "Stopped" -> IF Passive THEN f ELSE LayerFinish(f)
    [] OTHER -> f

FsmFailure(f) ==
  CASE f.state = "Closing"  -> LayerFinish(NewState(f, "Closed"))
    [] f.state = "Closed"   -> LayerFinish(f)
    [] f.state = "Stopping" -> LayerFinish(NewState(f, "Stopped"))
    [] f.state \in Negotiating ->
         LET g == NewState(f, "Stopped")
         IN  UnConfigure(IF Passive THEN g ELSE LayerFinish(g))
    [] f.state = "Opened" ->
         UnConfigure(LayerDown(SendTerminateReq(
           InitRestartCounter(NewState(f, "Stopping"), MaxTerminate))))
    [] f.state = "Stopped" -> IF Passive THEN f ELSE LayerFinish(f)
    [] OTHER -> f

\* FsmNewState(ST_OPENED).  It calls the method NewState before it changes the state:
\* LcpNewState() shifts the phase, and if nobody is to be authenticated the link joins
\* its bundle at once.  When the bundle refuses the link (~joins), LcpNewPhase() calls
\* FsmFailure(), here, in the state before: the automaton stops, releases the lower
\* layer and its options, and is Opened nonetheless when FsmFailure() returns.
NewStateOpened(f, joins) == NewState(IF joins THEN f ELSE FsmFailure(f), "Opened")

\* A slip in FsmOpen(): an Open while the link is being closed is lost.
FsmOpenForgets(f) ==
  CASE f.state = "Initial" -> LayerStart(NewState(f, "Starting"))
    [] f.state = "Closed"  ->
         SendConfigReq(InitCounters(LayerStart(NewState(Configure(f), "ReqSent"))))
    [] OTHER -> f

\* A slip in FsmOpen(): an Open while the link is being closed terminates it anew.
FsmOpenTerminatesAgain(f) ==
  CASE f.state = "Initial" -> LayerStart(NewState(f, "Starting"))
    [] f.state = "Closed"  ->
         SendConfigReq(InitCounters(LayerStart(NewState(Configure(f), "ReqSent"))))
    [] f.state = "Closing" ->
         SendTerminateReq(InitRestartCounter(NewState(f, "Stopping"), MaxTerminate))
    [] OTHER -> f

FsmOpen(f) ==
  CASE f.state = "Initial" -> LayerStart(NewState(f, "Starting"))
    [] f.state = "Closed"  ->
         SendConfigReq(InitCounters(LayerStart(NewState(Configure(f), "ReqSent"))))
    [] f.state = "Closing" -> NewState(f, "Stopping")
    [] OTHER -> f

FsmUp(f) ==
  CASE f.state = "Initial"  -> NewState(f, "Closed")
    [] f.state = "Starting" ->
         SendConfigReq(InitCounters(NewState(Configure(f), "ReqSent")))
    [] OTHER -> f

FsmDown(f) ==
  CASE f.state = "Closing" -> NewState(LayerFinish(f), "Initial")
    [] f.state = "Closed"  -> NewState(f, "Initial")
    [] f.state = "Stopped" -> LayerStart(NewState(f, "Starting"))
    [] f.state \in {"Stopping"} \cup Negotiating ->
         UnConfigure(NewState(f, "Starting"))
    [] f.state = "Opened"  -> UnConfigure(LayerDown(NewState(f, "Starting")))
    [] OTHER -> f

FsmClose(f) ==
  LET terminate == SendTerminateReq(
                     InitRestartCounter(NewState(f, "Closing"), MaxTerminate))
  IN CASE f.state = "Starting" -> LayerFinish(NewState(f, "Initial"))
       [] f.state = "Stopped"  -> NewState(f, "Closed")
       [] f.state = "Stopping" -> NewState(f, "Closing")
       [] f.state = "Opened"   -> UnConfigure(LayerDown(terminate))
       [] f.state \in Negotiating -> UnConfigure(terminate)
       [] OTHER -> f

----------------------------------------------------------------------------
(* The two timers.  The restart timer is a one-shot: its event is gone when *)
(* the handler starts.  The keep-alive timer is recurring.                  *)

FsmTimeout(f) ==
  LET g == [f EXCEPT !.timer = FALSE]
  IN IF g.restart > 0
     THEN CASE g.state \in Terminating -> SendTerminateReq(g)
            [] g.state \in {"ReqSent", "AckSent"} -> SendConfigReq(g)
            [] g.state = "AckRcvd" -> SendConfigReq(NewState(g, "ReqSent"))
            [] OTHER -> g
     ELSE CASE g.state = "Closing"  -> LayerFinish(NewState(g, "Closed"))
            [] g.state = "Stopping" -> LayerFinish(NewState(g, "Stopped"))
            [] g.state \in Negotiating -> FsmFailure(g)
            [] OTHER -> g

\* The peer has been silent for q intervals; one interval is always forgiven.
EchoOverdue(q) == q >= 2 /\ q >= EchoLimit

FsmEchoTimeout(f, traffic) ==
  LET g == [f EXCEPT !.quiet = IF traffic THEN 0 ELSE @ + 1]
  IN  IF EchoOverdue(g.quiet) THEN FsmFailure([g EXCEPT !.echo = FALSE]) ELSE g

----------------------------------------------------------------------------
(* Packets.  joins: the layer's method NewState lets the automaton open. *)

\* What FsmRecvConfigReq() does before it answers: a request in Opened or
\* Stopped starts a new round with a request of our own.
ReopenNegotiation(f) ==
  CASE f.state = "Opened"  -> SendConfigReq(LayerDown(f))
    [] f.state = "Stopped" -> SendConfigReq(InitCounters(LayerStart(Configure(f))))
    [] OTHER -> f

AfterConfigAckSent(f, joins) ==
  CASE f.state \in {"Stopped", "Opened", "ReqSent"} -> NewState(f, "AckSent")
    [] f.state = "AckRcvd" -> LayerUp(NewStateOpened(f, joins))
    [] OTHER -> f

AfterRefusalSent(f) ==
  IF f.state \in {"Stopped", "Opened", "AckSent"} THEN NewState(f, "ReqSent") ELSE f

AnswerConfigReq(f, id, verdict, joins) ==
  CASE verdict = "ConfigAck" -> AfterConfigAckSent(SendConfigAck(f, id), joins)
    [] verdict # "ConfigAck" /\ f.failure <= 0 -> FsmFailure(f)
    [] OTHER -> AfterRefusalSent(SendConfigRefusal(f, verdict, id))

RecvConfigReq(f, id, verdict, joins) ==
  CASE f.state \in {"Initial", "Starting"} \cup Terminating -> f
    [] f.state = "Closed" -> SendTerminateAck(f)
    [] OTHER -> AnswerConfigReq(ReopenNegotiation(f), id, verdict, joins)

\* A slip in FsmRecvConfigAck(): the reply's identifier is not looked at.
ExpectedAny(f, id) == f.state \in States /\ id \in Ids

\* Replies are matched with the id of the packet sent last, whatever it was.
Expected(f, id) == id = (f.reqid - 1) % IdMod

RecvConfigAck(f, id, joins) ==
  IF ~Expected(f, id) THEN f
  ELSE CASE f.state \in {"Closed", "Stopped"} -> SendTerminateAck(f)
         [] f.state = "ReqSent" ->
              [InitCounters(NewState(f, "AckRcvd")) EXCEPT !.timer = TRUE]
         [] f.state = "AckRcvd" -> SendConfigReq(NewState(f, "ReqSent"))
         [] f.state = "AckSent" -> LayerUp(InitCounters(NewStateOpened(f, joins)))
         [] f.state = "Opened"  -> SendConfigReq(LayerDown(NewState(f, "ReqSent")))
         [] OTHER -> f

\* FsmRecvConfigNak() and FsmRecvConfigRej(): the two differ in what the layer
\* does with the options and, in Opened, in the order of two steps that commute.
RecvConfigRefusal(f, id) ==
  IF ~Expected(f, id) THEN f
  ELSE CASE f.state \in {"Closed", "Stopped"} -> SendTerminateAck(f)
         [] f.state \in Negotiating \cup {"Opened"} /\ f.config <= 0 -> FsmFailure(f)
         [] f.state \in {"ReqSent", "AckSent"} /\ f.config > 0 ->
              SendConfigReq(InitRestartCounter(f, MaxConfig))
         [] f.state = "AckRcvd" /\ f.config > 0 -> SendConfigReq(NewState(f, "ReqSent"))
         [] f.state = "Opened" /\ f.config > 0 ->
              SendConfigReq(NewState(LayerDown(f), "ReqSent"))
         [] OTHER -> f

RecvTermReq(f) ==
  CASE f.state \in {"Initial", "Starting"} -> f
    [] f.state \in {"Closed", "Stopped", "ReqSent"} \cup Terminating ->
         SendTerminateAck(f)
    [] f.state \in {"AckRcvd", "AckSent"} -> SendTerminateAck(NewState(f, "ReqSent"))
    [] f.state = "Opened" ->
         LET g == InitRestartCounter(
                    LayerDown(SendTerminateAck(NewState(f, "Stopping"))), 0)
         IN  UnConfigure([g EXCEPT !.timer = TRUE])

\* A slip in FsmRecvTermAck(): the lower layer is not released.
RecvTermAckHolding(f) ==
  CASE f.state = "Closing"  -> NewState(f, "Closed")
    [] f.state = "Stopping" -> NewState(f, "Stopped")
    [] f.state = "AckRcvd"  -> NewState(f, "ReqSent")
    [] f.state = "Opened"   -> SendConfigReq(LayerDown(NewState(f, "ReqSent")))
    [] OTHER -> f

RecvTermAck(f) ==
  CASE f.state = "Closing"  -> LayerFinish(NewState(f, "Closed"))
    [] f.state = "Stopping" -> LayerFinish(NewState(f, "Stopped"))
    [] f.state = "AckRcvd"  -> NewState(f, "ReqSent")
    [] f.state = "Opened"   -> SendConfigReq(LayerDown(NewState(f, "ReqSent")))
    [] OTHER -> f

\* A Code-Reject or Protocol-Reject the layer survives (RXJ+); one that is fatal
\* goes to FsmFailure() (RXJ-).
RecvRxjPlus(f) == IF f.state = "AckRcvd" THEN NewState(f, "ReqSent") ELSE f
=============================================================================
