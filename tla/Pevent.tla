------------------------------- MODULE Pevent -------------------------------
(***************************************************************************)
(* The event library pevent.c as event.c uses it: one context, one thread  *)
(* that polls and runs the handlers under gGiantMutex, and other threads   *)
(* that register and unregister events while they hold that mutex.         *)
(*                                                                         *)
(* Whatever pevent.c does under the mutex of the context is one step.  The *)
(* thread gives that mutex up to poll, and before it waits for gGiantMutex *)
(* with an event in its hands that may be unregistered meanwhile.          *)
(***************************************************************************)
EXTENDS Integers, Sequences, FiniteSets, SequencesExt

CONSTANTS
  Handles,      \* the EventRefs, each part of some object
  Structs,      \* memory for struct pevent: a bound on events at once
  NoEvent,      \* no struct pevent
  Threads       \* threads other than the event thread

VARIABLES
  p,            \* the context and its events
  gGiantMutex,  \* "free", "loop", or the thread that holds it
  live,         \* handles whose object is allocated
  timers,       \* handles of timers; the others wait for a descriptor
  ready         \* handles whose descriptor is readable

pvars == << p, gGiantMutex, live, timers, ready >>

NoStruct == [ref |-> NoEvent, occurred |-> FALSE, canceled |-> FALSE, enqueued |-> FALSE,
             recurring |-> FALSE, polled |-> FALSE, refs |-> 0]

\* pc: where the event thread is, with the event cur.  wrote: a handle was written to
\* whose object is gone, or an assertion failed.
PeventTypeOK ==
  /\ p.ev \in [Structs -> [ref : Handles \cup {NoEvent}, occurred : BOOLEAN, canceled : BOOLEAN,
                           enqueued : BOOLEAN, recurring : BOOLEAN, polled : BOOLEAN, refs : 0 .. 3]]
  /\ p.pe \in [Handles -> Structs \cup {NoEvent}]
  /\ \A i \in DOMAIN p.events : p.events[i] \in Structs
  /\ p.notified \in BOOLEAN /\ p.wrote \in BOOLEAN
  /\ p.pc \in {"none", "build", "poll", "service", "execute", "enter", "handler"}
  /\ p.cur \in Structs \cup {NoEvent}
  /\ gGiantMutex \in {"free", "loop"} \cup Threads
  /\ live \subseteq Handles /\ timers \subseteq Handles /\ ready \subseteq live \ timers

NoEvents == [ev |-> [s \in Structs |-> NoStruct], pe |-> [h \in Handles |-> NoEvent], events |-> << >>,
             notified |-> FALSE, wrote |-> FALSE, pc |-> "none", cur |-> NoEvent]

----------------------------------------------------------------------------
(* Functions of the context. *)

pevent_ctx_notify(c) == [c EXCEPT !.notified = TRUE]

Check(c, ok) == [c EXCEPT !.wrote = @ \/ ~ ok]

Unref(c, e) ==
  LET s == c.ev[e]
  IN  Check([c EXCEPT !.ev[e] = IF s.refs > 1 THEN [s EXCEPT !.refs = @ - 1] ELSE NoStruct],
            s.refs > 0 /\ (s.refs = 1 => ~ s.enqueued))

PEVENT_ENQUEUE(c, e) ==
  [c EXCEPT !.events = Append(@, e), !.ev[e].enqueued = TRUE, !.ev[e].refs = @ + 1]

PEVENT_DEQUEUE(c, e) ==
  Unref([c EXCEPT !.events = RemoveFirst(@, e), !.ev[e].enqueued = FALSE], e)

\* Each event of a set goes to the front of the list, in the order of the list: at the
\* end they are there the other way round, and the rest follows.
MovedToFront(events, due) ==
  {from \in Bijection(DOMAIN events, DOMAIN events) : \A i, j \in DOMAIN events :
     i < j => IF events[from[i]] \in due THEN events[from[j]] \in due => from[i] > from[j]
              ELSE events[from[j]] \notin due /\ from[i] < from[j]}

PEVENT_SET_OCCURRED(c, due, from) ==
  [c EXCEPT !.events = [i \in DOMAIN c.events |-> c.events[from[i]]],
            !.ev = [e \in Structs |-> [c.ev[e] EXCEPT !.occurred = @ \/ e \in due]]]

\* The handle is cleared through the pointer the event has kept to it.
pevent_cancel(c, e) ==
  LET h == c.ev[e].ref
  IN  Check(Unref([c EXCEPT !.ev[e].canceled = TRUE, !.pe[h] = NoEvent], e),
            h \in live /\ ~ c.ev[e].canceled)

Free(c) == {s \in Structs : c.ev[s].refs = 0}

\* A slip in pevent_register(): a thread that sleeps is not told.
RegisterQuietly(c, h, recurring) ==
  LET e == CHOOSE s \in Free(c) : TRUE
      d == IF c.pc = "none" THEN [c EXCEPT !.pc = "build"] ELSE c
  IN  PEVENT_ENQUEUE([d EXCEPT !.ev[e] = [NoStruct EXCEPT !.ref = h, !.recurring = recurring, !.refs = 1],
                               !.pe[h] = e], e)

\* The thread is started for the first event; the new event has not been polled.
pevent_register(c, h, recurring) ==
  LET e == CHOOSE s \in Free(c) : TRUE
      d == IF c.pc = "none" THEN [c EXCEPT !.pc = "build"] ELSE pevent_ctx_notify(c)
  IN  PEVENT_ENQUEUE([d EXCEPT !.ev[e] = [NoStruct EXCEPT !.ref = h, !.recurring = recurring, !.refs = 1], !.pe[h] = e], e)

\* A slip in pevent_unregister(): an event that is being serviced is not marked.
UnregisterUnmarked(c, h) ==
  LET e == c.pe[h]
  IN  IF c.ev[e].enqueued THEN pevent_cancel(pevent_ctx_notify(PEVENT_DEQUEUE(c, e)), e)
      ELSE Unref([c EXCEPT !.pe[h] = NoEvent], e)

pevent_unregister(c, h) ==
  LET e == c.pe[h]
  IN  pevent_cancel(IF c.ev[e].enqueued THEN pevent_ctx_notify(PEVENT_DEQUEUE(c, e)) ELSE c, e)

----------------------------------------------------------------------------
(* The event thread. *)

\* The poll array is filled, or the thread ends for want of events.
Build ==
  /\ p.pc = "build"
  /\ p' = IF p.events = << >> THEN [p EXCEPT !.pc = "none"]
          ELSE [p EXCEPT !.pc = "poll", !.notified = FALSE,
                         !.ev = [s \in Structs |-> [p.ev[s] EXCEPT !.polled = @ \/ p.ev[s].enqueued]]]
  /\ UNCHANGED << gGiantMutex, live, timers, ready >>

Readable(e) == p.ev[e].polled /\ p.ev[e].ref \in ready

\* poll() returns, and what occurred moves to the front of the list.  A timer may have
\* expired whether or not it was there when the array was filled.
PollReturns ==
  /\ p.pc = "poll"
  /\ \E due \in SUBSET {e \in ToSet(p.events) : p.ev[e].ref \in timers} :
       LET occurred == due \cup {e \in ToSet(p.events) : p.ev[e].ref \notin timers /\ Readable(e)}
       IN  /\ occurred # {} \/ p.notified
           /\ \E from \in MovedToFront(p.events, occurred) :
                p' = [PEVENT_SET_OCCURRED(p, occurred, from) EXCEPT !.pc = "service"]
  /\ UNCHANGED << gGiantMutex, live, timers, ready >>

\* pevent_ctx_service() is called with a reference of its own.
Service ==
  /\ p.pc = "service"
  /\ p' = IF p.events = << >> \/ ~ p.ev[Head(p.events)].occurred THEN [p EXCEPT !.pc = "build"]
          ELSE LET e == Head(p.events)
               IN  [PEVENT_DEQUEUE([p EXCEPT !.ev[e].refs = @ + 1], e) EXCEPT !.pc = "execute", !.cur = e]
  /\ UNCHANGED << gGiantMutex, live, timers, ready >>

\* pevent_ctx_execute(): an event that was unregistered meanwhile is dropped, otherwise the
\* handle is cleared, and set again at once if the event recurs.
ExecuteCanceled ==
  /\ p.pc = "execute" /\ p.ev[p.cur].canceled
  /\ p' = [Unref(p, p.cur) EXCEPT !.pc = "service", !.cur = NoEvent]
  /\ UNCHANGED << gGiantMutex, live, timers, ready >>

Execute ==
  /\ p.pc = "execute" /\ ~ p.ev[p.cur].canceled
  /\ gGiantMutex = "free" /\ gGiantMutex' = "loop"
  /\ LET h == p.ev[p.cur].ref
         c == [pevent_cancel(p, p.cur) EXCEPT !.pc = "enter"]
     IN  p' = IF p.ev[p.cur].recurring THEN pevent_register(c, h, TRUE) ELSE c
  /\ UNCHANGED << live, timers, ready >>

\* The handler is called with its EventRef, and reads what there is to read.
Enter(h) ==
  /\ p.pc = "enter" /\ p.ev[p.cur].ref = h
  /\ p' = Check([p EXCEPT !.pc = "handler"], h \in live)
  /\ ready' = ready \ {h}
  /\ UNCHANGED << gGiantMutex, live, timers >>

Return ==
  /\ p.pc = "handler"
  /\ p' = [Unref(p, p.cur) EXCEPT !.pc = "service", !.cur = NoEvent]
  /\ gGiantMutex' = "free"
  /\ UNCHANGED << live, timers, ready >>

----------------------------------------------------------------------------
(* The users of events. *)

Lock(t) ==
  /\ gGiantMutex = "free" /\ gGiantMutex' = t
  /\ UNCHANGED << p, live, timers, ready >>

Unlock(t) ==
  /\ gGiantMutex = t /\ gGiantMutex' = "free"
  /\ UNCHANGED << p, live, timers, ready >>

\* Nobody registers an event that is registered, or one whose object is gone.
EventRegister(h, recurring) ==
  /\ h \in live /\ p.pe[h] = NoEvent /\ Free(p) # {}
  /\ p' = pevent_register(p, h, recurring)
  /\ UNCHANGED << gGiantMutex, live, timers, ready >>

EventUnRegister(h) ==
  /\ p.pe[h] # NoEvent
  /\ p' = pevent_unregister(p, h)
  /\ UNCHANGED << gGiantMutex, live, timers, ready >>

\* An object is freed when its events are unregistered; its memory is used again.
Freee(h) ==
  /\ h \in live /\ p.pe[h] = NoEvent
  /\ live' = live \ {h} /\ ready' = ready \ {h}
  /\ UNCHANGED << p, gGiantMutex, timers >>

Malloc(h) ==
  /\ h \notin live
  /\ live' = live \cup {h}
  /\ UNCHANGED << p, gGiantMutex, timers, ready >>

Arrive(h) ==
  /\ h \in live \ (ready \cup timers)
  /\ ready' = ready \cup {h}
  /\ UNCHANGED << p, gGiantMutex, live, timers >>
=============================================================================
