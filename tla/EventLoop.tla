----------------------------- MODULE EventLoop ------------------------------
(***************************************************************************)
(* The event loop with the message queue in it: the pipe of msg.c is read  *)
(* by a recurring event of pevent.c, whose handler is MsgEvent().  Next to *)
(* it there are other events, which their objects register and unregister, *)
(* and other threads; all of them send messages.                           *)
(*                                                                         *)
(* Everything but the event thread's own work is done by whoever holds     *)
(* gGiantMutex: a handler, or a thread.                                    *)
(***************************************************************************)
EXTENDS MsgQueue, Pevent

CONSTANT msgh   \* the event of the pipe, registered once by MsgRegister()

ASSUME EventLoopAssumption ==
  /\ msgh \in Handles
  /\ NoEvent \notin Structs \cup Handles
  /\ IsFiniteSet(Handles) /\ IsFiniteSet(Structs) /\ Cardinality(Handles) < Cardinality(Structs)
  /\ {"free", "loop"} \cap Threads = {}

loopVars == << vars, pvars >>

Others == Handles \ {msgh}

LoopTypeOK == TypeOK /\ PeventTypeOK

\* The first event starts the event thread.
LoopInit ==
  /\ Init
  /\ p = pevent_register(NoEvents, msgh, TRUE)
  /\ gGiantMutex = "free" /\ live = Handles /\ ready = {}
  /\ timers \in SUBSET Others

\* A handler of an event runs, or one of a message under MsgEvent().
InHandler == p.pc = "handler" /\ (p.ev[p.cur].ref = msgh => running)

\* The code of a handler, or of a thread, between two steps of the loop.
InUserCode == gGiantMutex \in Threads \/ InHandler

UserSends ==
  /\ InUserCode
  /\ \E m \in Msgs : MsgSend(m)
  /\ ready' = IF pipe' > 0 THEN ready \cup {msgh} ELSE ready
  /\ UNCHANGED << p, gGiantMutex, live, timers >>

UserOfEvents ==
  /\ InUserCode /\ ~ exited
  /\ \E h \in Others : \/ \E recurring \in BOOLEAN : EventRegister(h, recurring)
                          \/ EventUnRegister(h) \/ Freee(h) \/ Malloc(h)
  /\ UNCHANGED vars

Poll == ~ exited /\ (Build \/ PollReturns) /\ UNCHANGED vars

Dispatch == ~ exited /\ (Service \/ ExecuteCanceled) /\ UNCHANGED vars

Run == ~ exited /\ Execute /\ UNCHANGED vars

\* MsgEvent() is one of the handlers.
Handle == \/ ~ exited /\ (\E h \in Others : Enter(h)) /\ UNCHANGED vars
          \/ Enter(msgh) /\ WakeUp

\* A handler of a message returns to MsgEvent(), any other one to the loop.
MsgDone == HandlerReturns /\ UNCHANGED pvars

Done == ~ exited /\ ~ running /\ Return /\ UNCHANGED vars

ThreadLocks == ~ exited /\ (\E t \in Threads : Lock(t)) /\ UNCHANGED vars

ThreadUnlocks == ~ exited /\ (\E t \in Threads : Unlock(t)) /\ UNCHANGED vars

DataArrives == ~ exited /\ (\E h \in Others : Arrive(h)) /\ UNCHANGED vars

LoopNext ==
  \/ UserSends \/ UserOfEvents
  \/ Poll \/ Dispatch \/ Run \/ Handle \/ MsgDone \/ Done
  \/ ThreadLocks \/ ThreadUnlocks \/ DataArrives

LoopSpec == LoopInit /\ [][LoopNext]_loopVars

\* The event thread runs, handlers return, and a thread gives gGiantMutex back.  The loop
\* gets the mutex in the end: it tries again for as long as it takes.
LoopFairSpec ==
  /\ LoopSpec
  /\ WF_loopVars(Poll) /\ WF_loopVars(Dispatch) /\ SF_loopVars(Run)
  /\ WF_loopVars(Handle) /\ WF_loopVars(MsgDone) /\ WF_loopVars(Done)
  /\ WF_loopVars(ThreadUnlocks)

----------------------------------------------------------------------------
(* Properties; NoLostWakeup and ImplementsFifo are those of MsgQueue. *)

\* The loop never sleeps on stale knowledge: whatever waits for an event while poll()
\* waits either was in the array poll() was given, or a byte in the pipe of the context
\* ends the wait.  An event may be registered by the handler that runs, by another
\* thread, and by the loop itself for a recurring one, at any moment between two polls.
SleepsRightly ==
  p.pc = "poll" => p.notified \/ \A e \in ToSet(p.events) : p.ev[e].polled

\* A handler is called, and a handle written through, only while the object it belongs
\* to exists, and an event lives as long as somebody knows it and no longer: its
\* references are those of its handle, of the list and of the loop.
HandlersMeetTheLiving ==
  /\ ~ p.wrote
  /\ \A h \in Handles : p.pe[h] # NoEvent =>
       h \in live /\ p.ev[p.pe[h]].ref = h /\ ~ p.ev[p.pe[h]].canceled
  /\ \A e \in Structs :
       p.ev[e].refs = Cardinality({h \in Handles : p.pe[h] = e})
                      + (IF e \in ToSet(p.events) THEN 1 ELSE 0)
                      + (IF p.cur = e THEN 1 ELSE 0)
=============================================================================
