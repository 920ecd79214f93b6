------------------------------ MODULE Paction ------------------------------
(***************************************************************************)
(* Asynchronous actions (contrib/libpdel/util/paction.c), by which auth.c  *)
(* runs authentication and accounting: a handler in a thread of its own,   *)
(* then a finisher under the user's mutex, unless the user has canceled    *)
(* the action first.                                                       *)
(*                                                                         *)
(* The user's mutex is gGiantMutex.  Whoever holds it is the user: the     *)
(* event loop in a callback, or another action's thread in its finisher.   *)
(* The mutex of an action is taken by its thread and by paction_cancel(),  *)
(* in the opposite order with respect to gGiantMutex.                      *)
(***************************************************************************)
EXTENDS Naturals

CONSTANTS
  Actions,  \* struct paction, one for each paction_start()
  Slots,    \* where the user keeps references: a->thread and a->acct_thread
  None, Loop

ASSUME PactionAssumption == None \notin Actions \cup Slots /\ Loop \notin Actions \cup {None}

VARIABLES
  action,       \* the structs and where their threads are
  mutex,        \* who holds an action's own mutex
  ref,          \* the user's references
  gGiantMutex,  \* who holds the user mutex
  call          \* paction_start() or paction_cancel() in progress

pactionVars == << action, mutex, ref, gGiantMutex, call >>

Pcs == {"new", "begin", "check", "handler", "done", "test",
        "cleanup", "try", "sleep", "finish", "gone"}

NoCall == [op |-> "none", slot |-> None, act |-> None]

PactionTypeOK ==
  /\ action \in [Actions -> [pc : Pcs, may_cancel : BOOLEAN, canceled : BOOLEAN,
                             pending : BOOLEAN, actionp : Slots \cup {None}]]
  /\ mutex \in [Actions -> {"free", "thread", "cancel"}]
  /\ ref \in [Slots -> Actions \cup {None}]
  /\ gGiantMutex \in Actions \cup {None, Loop}
  /\ \/ call = NoCall
     \/ call \in [op : {"start", "lock", "signal"}, slot : Slots, act : Actions]

PactionInit ==
  /\ action = [a \in Actions |-> [pc |-> "new", may_cancel |-> FALSE, canceled |-> FALSE,
                                  pending |-> FALSE, actionp |-> None]]
  /\ mutex = [a \in Actions |-> "free"]
  /\ ref = [s \in Slots |-> None]
  /\ gGiantMutex = None /\ call = NoCall

----------------------------------------------------------------------------
(* The user. *)

Acquire ==
  /\ gGiantMutex = None /\ gGiantMutex' = Loop
  /\ UNCHANGED << action, mutex, ref, call >>

Release ==
  /\ gGiantMutex = Loop /\ call = NoCall /\ gGiantMutex' = None
  /\ UNCHANGED << action, mutex, ref, call >>

\* A callback of the event loop runs, or a finisher that holds the mutex.
UserRuns ==
  /\ call = NoCall
  /\ \/ gGiantMutex = Loop
     \/ gGiantMutex \in Actions /\ action[gGiantMutex].pc = "finish"

\* paction_start(): the thread runs before the reference is set.
StartThread(s, a) ==
  /\ UserRuns /\ ref[s] = None /\ action[a].pc = "new"
  /\ action' = [action EXCEPT ![a].pc = "begin", ![a].actionp = s]
  /\ call' = [op |-> "start", slot |-> s, act |-> a]
  /\ UNCHANGED << mutex, ref, gGiantMutex >>

StartReturns ==
  /\ call.op = "start"
  /\ ref' = [ref EXCEPT ![call.slot] = call.act] /\ call' = NoCall
  /\ UNCHANGED << action, mutex, gGiantMutex >>

\* paction_cancel(): the action is read from the reference, locked, marked, and its
\* thread is canceled.
CancelCall(s) ==
  /\ UserRuns /\ ref[s] # None
  /\ call' = [op |-> "lock", slot |-> s, act |-> ref[s]]
  /\ UNCHANGED << action, mutex, ref, gGiantMutex >>

CancelLock ==
  /\ call.op = "lock" /\ mutex[call.act] = "free"
  /\ mutex' = [mutex EXCEPT ![call.act] = "cancel"]
  /\ action' = [action EXCEPT ![call.act].canceled = TRUE, ![call.act].actionp = None]
  /\ ref' = [ref EXCEPT ![call.slot] = None]
  /\ call' = [call EXCEPT !.op = "signal"]
  /\ UNCHANGED gGiantMutex

\* may_cancel is set without the lock: until the thread has taken the mutex, the
\* read may miss it.
CancelSignal ==
  /\ call.op = "signal"
  /\ \E seen \in BOOLEAN :
       /\ seen => action[call.act].may_cancel
       /\ action' = [action EXCEPT ![call.act].pending = @ \/ seen]
  /\ mutex' = [mutex EXCEPT ![call.act] = "free"] /\ call' = NoCall
  /\ UNCHANGED << ref, gGiantMutex >>

----------------------------------------------------------------------------
(* The thread: paction_main(). *)

Goto(a, from, to) == action[a].pc = from /\ action' = [action EXCEPT ![a].pc = to]
Shared == UNCHANGED << mutex, ref, gGiantMutex, call >>

AllowCancel(a) ==
  /\ action[a].pc = "begin"
  /\ action' = [action EXCEPT ![a].pc = "check", ![a].may_cancel = TRUE]
  /\ Shared

\* canceled is read without the lock: a cancellation may be missed.
CheckCanceled(a) ==
  /\ \/ Goto(a, "check", "handler")
     \/ action[a].canceled /\ Goto(a, "check", "done")
  /\ Shared

HandlerReturns(a) == Goto(a, "handler", "done") /\ Shared

\* The pending cancellation takes effect in the handler.
CanceledInHandler(a) ==
  /\ action[a].pc = "handler" /\ action[a].pending
  /\ action' = [action EXCEPT ![a].pc = "cleanup", ![a].pending = FALSE]
  /\ Shared

\* A slip in paction_main(): may_cancel is left set.
ForbidCancelNot(a) == mutex[a] = "free" /\ Goto(a, "done", "test") /\ Shared

ForbidCancel(a) ==
  /\ action[a].pc = "done" /\ mutex[a] = "free"
  /\ action' = [action EXCEPT ![a].pc = "test", ![a].may_cancel = FALSE]
  /\ Shared

\* pthread_testcancel(): a cancellation ends here, and paction_cleanup() runs anyway.
TestCancel(a) ==
  /\ action[a].pc = "test"
  /\ action' = [action EXCEPT ![a].pc = "cleanup", ![a].pending = FALSE]
  /\ Shared

----------------------------------------------------------------------------
(* The thread: paction_cleanup(). *)

LockAction(a) ==
  /\ Goto(a, "cleanup", "try") /\ mutex[a] = "free"
  /\ mutex' = [mutex EXCEPT ![a] = "thread"]
  /\ UNCHANGED << ref, gGiantMutex, call >>

Unlock(a) == mutex' = [mutex EXCEPT ![a] = "free"]

FoundCanceled(a) ==
  /\ action[a].canceled /\ Goto(a, "try", "finish") /\ Unlock(a)
  /\ UNCHANGED << ref, gGiantMutex, call >>

\* A slip in paction_cleanup(): the user keeps its reference.
GotUserMutexKeepsRef(a) ==
  /\ action[a].pc = "try" /\ ~action[a].canceled /\ gGiantMutex = None
  /\ gGiantMutex' = a
  /\ action' = [action EXCEPT ![a].pc = "finish"]
  /\ Unlock(a) /\ UNCHANGED << ref, call >>

GotUserMutex(a) ==
  /\ action[a].pc = "try" /\ ~action[a].canceled /\ gGiantMutex = None
  /\ gGiantMutex' = a
  /\ ref' = [ref EXCEPT ![action[a].actionp] = None]
  /\ action' = [action EXCEPT ![a].pc = "finish", ![a].actionp = None]
  /\ Unlock(a) /\ UNCHANGED call

\* Slips in paction_cleanup(): it waits for the user mutex; it goes on without it.
UserMutexBusyWaits(a) ==
  /\ action[a].pc = "try" /\ ~action[a].canceled /\ gGiantMutex # None
  /\ UNCHANGED pactionVars
UserMutexBusyIgnored(a) ==
  /\ ~action[a].canceled /\ gGiantMutex # None /\ Goto(a, "try", "finish") /\ Unlock(a)
  /\ UNCHANGED << ref, gGiantMutex, call >>

UserMutexBusy(a) ==
  /\ ~action[a].canceled /\ gGiantMutex # None /\ Goto(a, "try", "sleep") /\ Unlock(a)
  /\ UNCHANGED << ref, gGiantMutex, call >>

Wake(a) == Goto(a, "sleep", "cleanup") /\ Shared

\* The finisher returns.
FinisherReturns(a) ==
  /\ Goto(a, "finish", "gone")
  /\ gGiantMutex = a => call = NoCall
  /\ gGiantMutex' = IF gGiantMutex = a THEN None ELSE gGiantMutex
  /\ UNCHANGED << mutex, ref, call >>

Thread(a) ==
  \/ AllowCancel(a) \/ CheckCanceled(a) \/ HandlerReturns(a) \/ CanceledInHandler(a)
  \/ ForbidCancel(a) \/ TestCancel(a)
  \/ LockAction(a) \/ FoundCanceled(a) \/ GotUserMutex(a) \/ UserMutexBusy(a)
  \/ Wake(a) \/ FinisherReturns(a)

PactionNext ==
  \/ Acquire \/ Release
  \/ \E s \in Slots : CancelCall(s) \/ \E a \in Actions : StartThread(s, a)
  \/ StartReturns \/ CancelLock \/ CancelSignal
  \/ \E a \in Actions : Thread(a)

PactionSpec == PactionInit /\ [][PactionNext]_pactionVars

\* Callbacks and handlers return, threads run, whoever waits for an action's mutex
\* gets it, and no thread finds the user mutex busy at each of infinitely many polls.
PactionFairSpec ==
  /\ PactionSpec
  /\ WF_pactionVars(Release) /\ WF_pactionVars(StartReturns)
  /\ SF_pactionVars(CancelLock) /\ WF_pactionVars(CancelSignal)
  /\ \A a \in Actions :
       /\ WF_pactionVars(Thread(a)) /\ SF_pactionVars(LockAction(a) \/ ForbidCancel(a))
       /\ <>[][~UserMutexBusy(a)]_pactionVars

----------------------------------------------------------------------------
(* Properties. *)

\* The user's reference, also the one paction_cancel() has read and waits with, is to
\* an action that has neither been canceled nor finished nor freed, and that refers
\* back: the assertions of paction_cancel() hold and no freed mutex is locked.
ReferenceValid ==
  \A s \in Slots, a \in Actions :
    ref[s] = a \/ (call.op = "lock" /\ call.act = a /\ call.slot = s) =>
      /\ action[a].pc \notin {"new", "finish", "gone"}
      /\ ~action[a].canceled /\ action[a].actionp = s

\* A finisher that is told it was not canceled runs under the user mutex: what it
\* reports cannot have been canceled before, nor can it be canceled while it runs.  A
\* canceled one runs without the mutex, so it may touch its own data only.
OutcomeIsSettled ==
  \A a \in Actions : action[a].pc = "finish" => (gGiantMutex = a <=> ~action[a].canceled)

\* pthread_cancel() never hits a thread in paction_cleanup(), where usleep() would be
\* canceled and leave the action unfinished and its memory lost, nor one that is gone.
CleanupUndisturbed ==
  \A a \in Actions :
    action[a].pending => action[a].pc \in {"check", "handler", "done", "test"}

\* Every action that is started ends, canceled or not, at whatever point: its finisher
\* runs and its memory is freed, and canceling it does not block the event loop
\* although the two mutexes are taken in both orders.
ActionsEnd == \A a \in Actions : action[a].pc = "begin" ~> action[a].pc = "gone"
=============================================================================
