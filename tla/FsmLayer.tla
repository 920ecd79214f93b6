------------------------------ MODULE FsmLayer ------------------------------
(***************************************************************************)
(* A control protocol as the layers around it see it: what it makes of     *)
(* Open, Close, Up and Down, when it is up itself, and when it holds the   *)
(* layer below.  Packets, identifiers, counters and timers are gone; the   *)
(* states ReqSent, AckRcvd and AckSent are one.                            *)
(***************************************************************************)
CONSTANT Passive

VARIABLES
  state,   \* state of the automaton, the negotiating ones taken together
  started  \* LayerStart was called, and LayerFinish not since

vars == << state, started >>

Init == state = "Initial" /\ started = FALSE

Go(from, to)      == state = from /\ state' = to /\ UNCHANGED started
GoStart(from, to) == state = from /\ state' = to /\ started' = TRUE
GoFinish(from, to) == state = from /\ state' = to /\ started' = FALSE

Open ==
  \/ GoStart("Initial", "Starting")
  \/ GoStart("Closed", "Negotiating")
  \/ Go("Closing", "Stopping")

Close ==
  \/ GoFinish("Starting", "Initial")
  \/ Go("Stopped", "Closed")
  \/ Go("Stopping", "Closing")
  \/ Go("Negotiating", "Closing")
  \/ Go("Opened", "Closing")

Up == Go("Initial", "Closed") \/ Go("Starting", "Negotiating")

Down ==
  \/ Go("Closed", "Initial")
  \/ GoFinish("Closing", "Initial")
  \/ GoStart("Stopped", "Starting")
  \/ \E s \in {"Stopping", "Negotiating", "Opened"} : Go(s, "Starting")

\* The peer agrees, negotiates anew (also after it was given up), or terminates.
\* A protocol that fails itself in the moment it opens (LCP, when the bundle refuses
\* the link) opens with the layer below released.
Establish   == Go("Negotiating", "Opened")
Refuse      == ~Passive /\ GoFinish("Negotiating", "Opened")
Renegotiate == Go("Opened", "Negotiating") \/ GoStart("Stopped", "Negotiating")
Terminate   == Go("Opened", "Stopping")

\* A termination is over.
Finish == GoFinish("Closing", "Closed") \/ GoFinish("Stopping", "Stopped")

\* A negotiation is given up, or fails again when it is over already.  A passive
\* protocol keeps the layer below and listens.
GiveUp ==
  \/ ~Passive /\ GoFinish("Negotiating", "Stopped")
  \/ Passive /\ Go("Negotiating", "Stopped")
  \/ ~Passive /\ GoFinish("Stopped", "Stopped")
  \/ GoFinish("Closed", "Closed")

Next ==
  \/ Open \/ Close \/ Up \/ Down
  \/ Establish \/ Refuse \/ Renegotiate \/ Terminate \/ Finish \/ GiveUp

Spec == Init /\ [][Next]_vars
=============================================================================
