------------------------------ MODULE MsgQueue ------------------------------
(***************************************************************************)
(* The internal message queue of msg.c: a ring of slots, a head and a tail *)
(* index, and a pipe whose only use is to wake the event loop up.          *)
(*                                                                         *)
(* MsgSend() is called by every event callback and also by the message     *)
(* handlers themselves while MsgEvent() is in the middle of its loop; all  *)
(* run under gGiantMutex, so each piece between two such calls is a step.  *)
(***************************************************************************)
EXTENDS Integers, Sequences

CONSTANTS
  Msgs,        \* a message: type, handler and argument
  None,        \* an empty slot
  QueueLen,    \* MSG_QUEUE_LEN
  QThresMin,   \* gQThresMin, gQThresMax: where overload begins and is complete
  QThresMax

ASSUME MsgAssumption ==
  /\ None \notin Msgs
  /\ QueueLen \in Nat \ {0, 1}
  /\ QThresMin \in Nat /\ QThresMax \in Nat /\ QThresMin < QThresMax

VARIABLES
  msgqueue,     \* the ring
  msgqueueh,    \* where the next message goes
  msgqueuet,    \* the oldest message, the one handled if MsgEvent() runs
  msgpipesent,  \* the flag that a byte was written to the pipe
  pipe,         \* bytes in the pipe
  running,      \* MsgEvent() is inside a handler
  gOverload,    \* percentage of incoming calls to refuse
  exited        \* DoExit() after an overflow

vars == << msgqueue, msgqueueh, msgqueuet, msgpipesent, pipe, running, gOverload, exited >>

Slots == 0 .. (QueueLen - 1)

TypeOK ==
  /\ msgqueue \in [Slots -> Msgs \cup {None}]
  /\ msgqueueh \in Slots /\ msgqueuet \in Slots
  /\ msgpipesent \in BOOLEAN /\ pipe \in {0, 1}
  /\ running \in BOOLEAN /\ exited \in BOOLEAN
  /\ gOverload \in 0 .. 100

Init ==
  /\ msgqueue = [i \in Slots |-> None]
  /\ msgqueueh = 0 /\ msgqueuet = 0
  /\ msgpipesent = FALSE /\ pipe = 0
  /\ running = FALSE /\ gOverload = 0 /\ exited = FALSE

\* (i + 1) & MSG_QUEUE_MASK
NextSlot(i) == (i + 1) % QueueLen

\* QUEUELEN(): the message being handled still counts.
QUEUELEN(h, t) == IF h >= t THEN h - t ELSE h + QueueLen - t

Overload(n) ==
  IF n > QThresMax THEN 100
  ELSE IF n > QThresMin THEN ((n - QThresMin) * 100) \div (QThresMax - QThresMin)
  ELSE 0

\* A slip in MsgSend(): the overflow check is missing.
MsgSendLate(m) ==
  /\ ~exited
  /\ msgqueue' = [msgqueue EXCEPT ![msgqueueh] = m]
  /\ msgqueueh' = NextSlot(msgqueueh)
  /\ gOverload' = Overload(QUEUELEN(msgqueueh', msgqueuet))
  /\ pipe' = IF msgpipesent THEN pipe ELSE pipe + 1
  /\ msgpipesent' = TRUE
  /\ UNCHANGED << msgqueuet, running, exited >>

MsgSend(m) ==
  /\ ~exited
  /\ msgqueue' = [msgqueue EXCEPT ![msgqueueh] = m]
  /\ msgqueueh' = NextSlot(msgqueueh)
  /\ IF msgqueueh' = msgqueuet
     THEN exited' = TRUE /\ UNCHANGED << gOverload, pipe, msgpipesent >>
     ELSE /\ gOverload' = Overload(QUEUELEN(msgqueueh', msgqueuet))
          /\ pipe' = IF msgpipesent THEN pipe ELSE pipe + 1
          /\ msgpipesent' = TRUE
          /\ UNCHANGED exited
  /\ UNCHANGED << msgqueuet, running >>

\* A slip in MsgEvent(): the flag is cleared when the loop ends, not before it.
WakeUpKeepsFlag ==
  /\ ~exited /\ ~running /\ pipe > 0
  /\ pipe' = 0
  /\ running' = (msgqueuet # msgqueueh)
  /\ UNCHANGED << msgqueue, msgqueueh, msgqueuet, msgpipesent, gOverload, exited >>

\* MsgEvent() starts: the flag and the pipe are cleared before the ring is looked at.
WakeUp ==
  /\ ~exited /\ ~running /\ pipe > 0
  /\ msgpipesent' = FALSE /\ pipe' = 0
  /\ running' = (msgqueuet # msgqueueh)
  /\ UNCHANGED << msgqueue, msgqueueh, msgqueuet, gOverload, exited >>

\* The handler of the oldest message returns; its slot is free only now.
HandlerReturns ==
  /\ ~exited /\ running
  /\ msgqueuet' = NextSlot(msgqueuet)
  /\ gOverload' = Overload(QUEUELEN(msgqueueh, msgqueuet'))
  /\ running' = (msgqueuet' # msgqueueh)
  /\ UNCHANGED << msgqueue, msgqueueh, msgpipesent, pipe, exited >>

Next == (\E m \in Msgs : MsgSend(m)) \/ WakeUp \/ HandlerReturns

Spec == Init /\ [][Next]_vars

\* The event loop polls the pipe, and handlers return.
FairSpec == Spec /\ WF_vars(WakeUp) /\ WF_vars(HandlerReturns)

----------------------------------------------------------------------------
\* No wake-up is lost: a message that waits while MsgEvent() does not run has a
\* byte in the pipe announcing it, and the flag that suppresses further bytes is
\* never set without one (msg.c writes the byte only if the flag is clear).
NoLostWakeup ==
  ~exited =>
    /\ msgqueueh # msgqueuet /\ ~running => pipe > 0
    /\ msgpipesent <=> pipe > 0

\* MsgEvent() is in a handler only for a message that is in the ring: a handler
\* that sends does not overwrite the slot it was called for.
HandledIsInRing ==
  ~exited /\ running => msgqueueh # msgqueuet /\ msgqueue[msgqueuet] # None

----------------------------------------------------------------------------
(* The queue this ring implements. *)

\* A position counted past the end of the ring.
At(k) == k % QueueLen

\* n messages from slot f on, as a sequence.
Ring(q, f, n) == [i \in 1 .. n |-> q[At(f + i - 1)]]

\* The messages that wait behind the one being handled, and where they start.
Waiting == QUEUELEN(msgqueueh, msgqueuet) - (IF running THEN 1 ELSE 0)
First   == IF running THEN NextSlot(msgqueuet) ELSE msgqueuet

FifoQueue    == IF exited THEN << >> ELSE Ring(msgqueue, First, Waiting)
FifoHandling == IF running /\ ~exited THEN msgqueue[msgqueuet] ELSE None

Fifo == INSTANCE MsgFifo WITH
  Capacity <- QueueLen - 1, queue <- FifoQueue, handling <- FifoHandling, alive <- ~exited

\* Ring, indices, flag and pipe together are the queue of MsgFifo: exactly once, in
\* order, across wrap-around and sends from inside handlers, and nothing waits for
\* ever.
ImplementsFifo == Fifo!FairSpec
=============================================================================
