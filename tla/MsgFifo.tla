------------------------------- MODULE MsgFifo -------------------------------
(***************************************************************************)
(* What the internal message queue promises the objects that talk through  *)
(* it: a message is handed to its handler exactly once, in the order of    *)
(* sending, one handler runs at a time, and as long as the process lives   *)
(* every message is eventually handed over.  A sender that finds the queue *)
(* full ends the process.                                                  *)
(***************************************************************************)
EXTENDS Naturals, Sequences

CONSTANTS Msgs, None, Capacity

VARIABLES
  queue,     \* messages sent and not handed over yet, oldest first
  handling,  \* the message whose handler runs, or None
  alive

vars == << queue, handling, alive >>

Init == queue = << >> /\ handling = None /\ alive = TRUE

Pending == Len(queue) + (IF handling = None THEN 0 ELSE 1)

Send(m) ==
  /\ alive /\ Pending < Capacity
  /\ queue' = Append(queue, m) /\ UNCHANGED << handling, alive >>

Overflow ==
  /\ alive /\ Pending = Capacity
  /\ alive' = FALSE /\ queue' = << >> /\ handling' = None

\* The handler that ran, if any, returns and the next one starts.
Take ==
  /\ alive /\ queue # << >>
  /\ handling' = Head(queue) /\ queue' = Tail(queue) /\ UNCHANGED alive

Rest ==
  /\ alive /\ queue = << >> /\ handling # None
  /\ handling' = None /\ UNCHANGED << queue, alive >>

Next == (\E m \in Msgs : Send(m)) \/ Overflow \/ Take \/ Rest

Spec == Init /\ [][Next]_vars

FairSpec == Spec /\ WF_vars(Take) /\ WF_vars(Rest)
=============================================================================
