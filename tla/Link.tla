-------------------------------- MODULE Link --------------------------------
(***************************************************************************)
(* The life of one link: link.c (open, close, redial, shutdown), phys.c    *)
(* and the PPPoE device under it, LCP's phases in lcp.c above it, and the  *)
(* authentication and accounting it starts.                                *)
(*                                                                         *)
(* The handlers call each other directly (LinkDown calls LcpClose, LCP     *)
(* calls LinkShutdownCheck, a phase change may call FsmFailure back in the *)
(* middle of a state change) and through messages that are handled later.  *)
(* Direct calls are operators on the record l, applied in the order of the *)
(* code; messages go to l.msgs.  LCP's automaton is the one of FsmLayer:   *)
(* the states in which it negotiates are one state here.                   *)
(***************************************************************************)
EXTENDS Integers, Sequences

CONSTANTS
  MaxRedials,  \* values of conf.max_redial
  MaxMsgs      \* bound: nothing from outside is sent to a longer queue

ASSUME LinkAssumption == MaxRedials \subseteq Int /\ MaxMsgs \in Nat

VARIABLES
  l,                    \* struct linkst and its part of the device
  conf,                 \* options of the link
  handling,             \* MsgEvent() is emptying the message queue
  gShutdownInProgress,
  history               \* what happened to the link, for the properties only

vars == << l, conf, handling, gShutdownInProgress, history >>

----------------------------------------------------------------------------
(* Types. *)

LcpStates == {"Initial", "Starting", "Closed", "Stopped", "Closing", "Stopping",
              "Negotiating", "Opened"}
Phases    == {"Dead", "Establish", "Authenticate", "Network", "Terminate"}
Messages  == {"open", "close", "shutdown", "physOpen", "physClose"}

\* OPEN_STATE() of LCP.
OPEN_STATE == {"Starting", "Stopped", "Stopping", "Negotiating", "Opened"}

Links ==
  [lcp : LcpStates, phase : Phases,
   phys : {"Down", "Connecting", "Ready", "Up"}, opened : BOOLEAN, incoming : BOOLEAN,
   openTimer : BOOLEAN, redial : Nat, stay : BOOLEAN, die : BOOLEAN, dead : BOOLEAN,
   node : BOOLEAN, auth : BOOLEAN, joined : BOOLEAN, acct : {"none", "session", "stop"},
   msgs : Seq(Messages), failed : {"none", "phase", "send"}]

TypeOK ==
  /\ l \in Links
  /\ conf \in [passive : BOOLEAN, acct : BOOLEAN, maxRedial : MaxRedials]
  /\ handling \in BOOLEAN /\ gShutdownInProgress \in BOOLEAN
  /\ history \subseteq {"rawOpen", "destroyed", "denied"}

\* A link as LinkCreate() or LinkInst() leaves it.
NewLink(stay) ==
  [lcp |-> "Initial", phase |-> "Dead",
   phys |-> "Down", opened |-> FALSE, incoming |-> FALSE,
   openTimer |-> FALSE, redial |-> 0, stay |-> stay, die |-> FALSE, dead |-> FALSE,
   node |-> FALSE, auth |-> FALSE, joined |-> FALSE, acct |-> "none",
   msgs |-> << >>, failed |-> "none"]

\* A call has been offered: PhysIncoming() opens the link, or drops the call.
IncomingCall(k, m) ==
  [k EXCEPT !.phys = "Connecting", !.incoming = TRUE, !.msgs = Append(@, m)]

\* A static link; an instance that BundCreateOpenLink() has just opened (with
\* max_redial = -1); an instance made for an incoming call.
Init ==
  /\ conf \in [passive : BOOLEAN, acct : BOOLEAN, maxRedial : MaxRedials]
  /\ \/ l = NewLink(TRUE)
     \/ conf.maxRedial = -1 /\ l = [NewLink(FALSE) EXCEPT !.msgs = << "open" >>]
     \/ l \in {IncomingCall(NewLink(FALSE), m) : m \in {"open", "physClose"}}
  /\ handling = FALSE /\ gShutdownInProgress = FALSE /\ history = {}

----------------------------------------------------------------------------
(* Messages and shutdown. *)

\* assert(m->func) fails if the handlers are unregistered.
MsgSend(k, m) ==
  IF k.dead THEN [k EXCEPT !.failed = "send"] ELSE [k EXCEPT !.msgs = Append(@, m)]

LinkShutdownCheck(k, state) ==
  IF state = "Initial" /\ k.acct = "none" /\ k.die /\ ~k.stay /\ k.phys = "Down"
  THEN MsgSend(k, "shutdown") ELSE k

\* Messages still queued are dropped one by one because the link is dead.
LinkShutdown(k) == [k EXCEPT !.dead = TRUE, !.phys = "Down", !.incoming = FALSE, !.node = FALSE]

----------------------------------------------------------------------------
(* Phases of LCP. *)

\* The transitions LcpNewPhase() asserts.
PhaseShifts ==
  { << "Dead", "Establish" >>,
    << "Establish", "Dead" >>, << "Establish", "Terminate" >>,
    << "Establish", "Authenticate" >>,
    << "Authenticate", "Terminate" >>, << "Authenticate", "Establish" >>,
    << "Authenticate", "Network" >>, << "Authenticate", "Dead" >>,
    << "Network", "Terminate" >>, << "Network", "Establish" >>, << "Network", "Dead" >>,
    << "Terminate", "Establish" >>, << "Terminate", "Dead" >> }

\* AuthAccountStart(): accounting that still runs is canceled, and the one for the
\* start or the end of the session starts if accounting is enabled at all and
\* paction_start() succeeds; else there is no thread, and no AuthAccountFinish().
AuthAccountStart(k, type) == [k EXCEPT !.acct = IF conf.acct THEN type ELSE "none"]

BundLeave(k) == [AuthAccountStart(k, "stop") EXCEPT !.joined = FALSE]

\* A slip in LcpNewPhase(): the link stays in its bundle.
LeavePhaseJoined(k) == k

LeavePhase(k) == IF k.phase = "Network" /\ k.joined THEN BundLeave(k) ELSE k

\* LcpNewPhase() up to what it does on entering the new phase.
ShiftPhase(k, new) ==
  [LeavePhase(k) EXCEPT
     !.phase = new,
     !.failed = IF << k.phase, new >> \in PhaseShifts THEN @ ELSE "phase"]

\* A slip in LcpNewState(): a renegotiation of an open link is not considered.
LcpNewPhaseOnce(k, old, new) ==
  CASE old \in {"Initial", "Starting"} /\ new \notin {"Initial", "Starting"} ->
         ShiftPhase(k, "Establish")
    [] old \notin {"Initial", "Starting"} /\ new \in {"Initial", "Starting"} ->
         ShiftPhase(k, "Dead")
    [] old \in {"Closing", "Stopping"} /\ new \in {"Closed", "Stopped"} ->
         ShiftPhase(k, "Establish")
    [] old \in {"Negotiating", "Opened"} /\ new \in {"Closing", "Stopping"} ->
         ShiftPhase(k, "Terminate")
    [] OTHER -> k

\* LcpNewState(): the phase that goes with the new state, or no shift at all.
LcpNewPhase(k, old, new) ==
  CASE old \in {"Initial", "Starting"} /\ new \notin {"Initial", "Starting"} ->
         ShiftPhase(k, "Establish")
    [] old \notin {"Initial", "Starting"} /\ new \in {"Initial", "Starting"} ->
         ShiftPhase(k, "Dead")
    [] old \in {"Closing", "Stopping"} /\ new \in {"Closed", "Stopped"} ->
         ShiftPhase(k, "Establish")
    [] old \in {"Negotiating", "Opened"} /\ new \in {"Closing", "Stopping"} ->
         ShiftPhase(k, "Terminate")
    [] old = "Opened" /\ new = "Negotiating" -> ShiftPhase(k, "Establish")
    [] old = "Opened" /\ new \in {"Initial", "Closed", "Stopped", "Opened"} ->
         [k EXCEPT !.failed = "phase"]
    [] OTHER -> k

\* FsmNewState() for every state but Opened.
NewState(k, new) ==
  [LinkShutdownCheck(LcpNewPhase(k, k.lcp, new), new) EXCEPT !.lcp = new]

----------------------------------------------------------------------------
(* Layer methods of LCP. *)

\* LinkNgInit(): if the node exists already, MKPEER fails and the failure path
\* removes the node.
LinkNgInit(k) == [k EXCEPT !.node = ~@]

\* A slip in LcpLayerStart(): it leaves the dialling to the redial timer.
LcpLayerStartIdle(k) == LinkNgInit(k)

LcpLayerStart(k) ==
  IF k.openTimer THEN LinkNgInit(k) ELSE MsgSend(LinkNgInit(k), "physOpen")

AuthStop(k) == [k EXCEPT !.auth = FALSE]

\* Slips in LcpLayerFinish(): the node stays; the device stays.
LcpLayerFinishKeepsNode(k) == MsgSend(AuthStop(k), "physClose")
LcpLayerFinish(k) == [MsgSend(AuthStop(k), "physClose") EXCEPT !.node = FALSE]

LcpLayerDown(k) == AuthStop(k)

----------------------------------------------------------------------------
(* LCP's automaton: the handlers of fsm.c, negotiating states taken together. *)

FsmFailure(k) ==
  CASE k.lcp = "Closing"  -> LcpLayerFinish(NewState(k, "Closed"))
    [] k.lcp = "Closed"   -> LcpLayerFinish(k)
    [] k.lcp = "Stopping" -> LcpLayerFinish(NewState(k, "Stopped"))
    [] k.lcp = "Negotiating" ->
         IF conf.passive THEN NewState(k, "Stopped")
         ELSE LcpLayerFinish(NewState(k, "Stopped"))
    [] k.lcp = "Opened"   -> LcpLayerDown(NewState(k, "Stopping"))
    [] k.lcp = "Stopped"  -> IF conf.passive THEN k ELSE LcpLayerFinish(k)
    [] OTHER -> k

\* Entering the Network phase: BundJoin() admits the link or it fails, and
\* FsmFailure() looks at the state the automaton is in at that moment.
EnterNetwork(k, admitted) ==
  IF admitted
  THEN [AuthAccountStart(ShiftPhase(k, "Network"), "session") EXCEPT
          !.joined = TRUE, !.redial = 0]
  ELSE FsmFailure(ShiftPhase(k, "Network"))

\* Entering the Authenticate phase: with nothing to authenticate it is over at once.
EnterAuthenticate(k, admitted, needed) ==
  IF needed THEN [ShiftPhase(k, "Authenticate") EXCEPT !.auth = TRUE]
  ELSE EnterNetwork(ShiftPhase(k, "Authenticate"), admitted)

\* FsmNewState(ST_OPENED): LcpNewState() runs to its end, in the old state, before
\* the state is set.
NewStateOpened(k, admitted, needed) ==
  [EnterAuthenticate(k, admitted, needed) EXCEPT !.lcp = "Opened"]

LcpOpen(k) ==
  CASE k.lcp = "Initial" -> LcpLayerStart(NewState(k, "Starting"))
    [] k.lcp = "Closed"  -> LcpLayerStart(NewState(k, "Negotiating"))
    [] k.lcp = "Closing" -> NewState(k, "Stopping")
    [] OTHER -> k

LcpClose(k) ==
  CASE k.lcp = "Starting"    -> LcpLayerFinish(NewState(k, "Initial"))
    [] k.lcp = "Stopped"     -> NewState(k, "Closed")
    [] k.lcp = "Stopping"    -> NewState(k, "Closing")
    [] k.lcp = "Negotiating" -> NewState(k, "Closing")
    [] k.lcp = "Opened"      -> LcpLayerDown(NewState(k, "Closing"))
    [] OTHER -> k

LcpUp(k) ==
  CASE k.lcp = "Initial"  -> NewState(k, "Closed")
    [] k.lcp = "Starting" -> NewState(k, "Negotiating")
    [] OTHER -> k

LcpDown(k) ==
  CASE k.lcp = "Closing" -> NewState(LcpLayerFinish(k), "Initial")
    [] k.lcp = "Closed"  -> NewState(k, "Initial")
    [] k.lcp = "Stopped" -> LcpLayerStart(NewState(k, "Starting"))
    [] k.lcp \in {"Stopping", "Negotiating"} -> NewState(k, "Starting")
    [] k.lcp = "Opened"  -> LcpLayerDown(NewState(k, "Starting"))
    [] OTHER -> k

----------------------------------------------------------------------------
(* Link and device. *)

Dying(k) == IF k.stay THEN k ELSE [k EXCEPT !.die = TRUE]

GivesUp(k) ==
  gShutdownInProgress \/ (conf.maxRedial # 0 /\ k.redial >= conf.maxRedial)

\* num_redial is looked at only if there is a limit.
CountRedial(k) == IF conf.maxRedial > 0 THEN [k EXCEPT !.redial = @ + 1] ELSE k

LinkDown(k) ==
  IF k.lcp \notin OPEN_STATE THEN LcpDown(Dying(k))
  ELSE IF GivesUp(k) THEN LcpDown(LcpClose(Dying(k)))
  ELSE CountRedial(LcpDown([k EXCEPT !.openTimer = TRUE]))

\* A slip in PhysDown(): a link that can go is not checked once the device is down.
PhysDownUnchecked(k) == LinkDown(k)

PhysDown(k) == LinkShutdownCheck(LinkDown(k), LinkDown(k).lcp)

PhysUp(k) == LcpUp([k EXCEPT !.phys = "Up"])

DoClose(k) == [k EXCEPT !.phys = "Down", !.incoming = FALSE]

DeviceOpen(k, ok) ==
  LET o == [k EXCEPT !.opened = TRUE] IN
  CASE k.incoming /\ ~(ok /\ k.node) -> PhysDown(o)
    [] k.incoming /\ ok /\ k.node    -> IF k.phys = "Ready" THEN PhysUp(o) ELSE o
    [] ~k.incoming /\ k.phys # "Down" -> o
    [] OTHER -> IF ok /\ k.node THEN [o EXCEPT !.phys = "Connecting"] ELSE PhysDown(o)

DeviceClose(k) ==
  LET c == [k EXCEPT !.opened = FALSE]
  IN  IF k.phys = "Down" THEN c ELSE PhysDown(DoClose(c))

----------------------------------------------------------------------------
(* Actions. *)

Running == l.failed = "none"
Alive   == Running /\ ~l.dead
Calm    == Alive /\ ~handling     \* the event loop may run another callback

Unchanged == UNCHANGED << conf, handling, gShutdownInProgress, history >>

\* LinkMsg() and PhysMsg().
Handle(k, m, ok) ==
  CASE k.dead -> k
    [] ~k.dead /\ m = "open"      -> LcpOpen([k EXCEPT !.redial = 0])
    [] ~k.dead /\ m = "close"     -> LcpClose([k EXCEPT !.openTimer = FALSE])
    [] ~k.dead /\ m = "shutdown"  -> LinkShutdown(k)
    [] ~k.dead /\ m = "physOpen"  -> DeviceOpen(k, ok)
    [] ~k.dead /\ m = "physClose" -> DeviceClose(k)

\* MsgEvent() handles messages until the queue is empty before anything else runs.
MsgEvent ==
  /\ Running /\ l.msgs # << >>
  /\ \E ok \in BOOLEAN : l' = Handle([l EXCEPT !.msgs = Tail(@)], Head(l.msgs), ok)
  /\ handling' = (l'.msgs # << >>)
  /\ UNCHANGED << conf, gShutdownInProgress, history >>

\* LinkOpen() and LinkClose() by the administrator, the bundle, or accounting.
LinkOpen  == Calm /\ Len(l.msgs) < MaxMsgs /\ l' = MsgSend(l, "open")  /\ Unchanged
LinkClose == Calm /\ Len(l.msgs) < MaxMsgs /\ l' = MsgSend(l, "close") /\ Unchanged

\* The console commands for the device alone.
PhysOpenCmd ==
  /\ Calm /\ Len(l.msgs) < MaxMsgs
  /\ l' = MsgSend(l, "physOpen") /\ history' = history \cup {"rawOpen"}
  /\ UNCHANGED << conf, handling, gShutdownInProgress >>
PhysCloseCmd ==
  Calm /\ Len(l.msgs) < MaxMsgs /\ l' = MsgSend(l, "physClose") /\ Unchanged

LinkDestroy ==
  /\ Calm /\ Len(l.msgs) < MaxMsgs
  /\ l' = LET k == [l EXCEPT !.stay = FALSE]
          IN  IF k.lcp \in OPEN_STATE THEN LcpClose(k)
              ELSE LinkShutdownCheck([k EXCEPT !.die = TRUE], k.lcp)
  /\ history' = history \cup {"destroyed"}
  /\ UNCHANGED << conf, handling, gShutdownInProgress >>

\* The redial timer: its event holds a pointer to the link, dead or not.
LinkReopenTimeout ==
  /\ Running /\ ~handling /\ l.openTimer
  /\ l' = LET k == [l EXCEPT !.openTimer = FALSE]
          IN  IF gShutdownInProgress THEN LcpClose(k) ELSE MsgSend(k, "physOpen")
  /\ Unchanged

PhysIsBusy == l.die \/ l.phys # "Down" \/ l.lcp # "Initial" \/ l.acct # "none"

\* A call comes in: PhysIncoming(), or an error before the device is set up.
Incoming ==
  /\ Calm /\ Len(l.msgs) < MaxMsgs /\ ~gShutdownInProgress /\ ~PhysIsBusy
  /\ \/ \E m \in {"open", "physClose"} : l' = IncomingCall(l, m)
     \/ l' = IF l.stay THEN l ELSE LinkShutdown(l)
  /\ Unchanged

\* The PPPoE node reports success: up, or ready until PhysOpen() asks for it.
ConnectSuccess ==
  /\ Calm /\ l.phys = "Connecting"
  /\ l' = IF l.opened THEN PhysUp(l) ELSE [l EXCEPT !.phys = "Ready"]
  /\ Unchanged

\* It reports failure or the end of the session, or the connect timer fires.
ConnectionLost ==
  Calm /\ l.phys # "Down" /\ l' = PhysDown(DoClose(l)) /\ Unchanged

\* LCP's negotiation succeeds.
Established ==
  /\ Calm /\ l.lcp = "Negotiating" /\ l.node
  /\ \E admitted, needed \in BOOLEAN :
       /\ admitted => ~gShutdownInProgress
       /\ l' = NewStateOpened(l, admitted, needed)
       /\ history' = IF needed \/ admitted THEN history ELSE history \cup {"denied"}
  /\ UNCHANGED << conf, handling, gShutdownInProgress >>

\* The peer negotiates anew, or tries to in Stopped.
Renegotiated ==
  /\ Calm /\ l.node /\ Len(l.msgs) < MaxMsgs
  /\ \/ l.lcp = "Opened"  /\ l' = LcpLayerDown(NewState(l, "Negotiating"))
     \/ l.lcp = "Stopped" /\ l' = NewState(LcpLayerStart(l), "Negotiating")
  /\ Unchanged

\* The peer terminates.
TermReq == Calm /\ l.node /\ l.lcp = "Opened"
           /\ l' = LcpLayerDown(NewState(l, "Stopping")) /\ Unchanged

\* The termination is acknowledged or times out, or the negotiation fails, or the
\* peer is silent, looped or rejects LCP itself.
Failure == Calm /\ l.lcp \notin {"Initial", "Starting"} /\ Len(l.msgs) < MaxMsgs
           /\ l' = FsmFailure(l) /\ Unchanged

\* LcpAuthResult() after AuthStop(): the peers are done, or one is refused, or the
\* timer of the whole authentication fires.
AuthFinish ==
  /\ Calm /\ l.auth
  /\ \/ l' = FsmFailure(AuthStop(l))
     \/ \E admitted \in BOOLEAN :
          /\ admitted => ~gShutdownInProgress
          /\ l' = IF l.phase = "Network" THEN AuthStop(l)
                  ELSE EnterNetwork(AuthStop(l), admitted)
  /\ Unchanged

\* The accounting thread returns; the session's may ask for the link to be closed.
AuthAccountFinish ==
  /\ Running /\ ~handling /\ l.acct # "none"
  /\ LET k == [l EXCEPT !.acct = "none"] IN
     \/ l' = IF k.dead THEN k ELSE LinkShutdownCheck(k, k.lcp)
     \/ /\ ~k.dead /\ l.acct = "session" /\ Len(l.msgs) < MaxMsgs
        /\ l' = LinkShutdownCheck(MsgSend(k, "close"), k.lcp)
  /\ Unchanged

\* The recurring accounting update of a joined link.
AuthAccountTimeout ==
  /\ Calm /\ conf.acct /\ l.joined /\ l.acct = "none"
  /\ l' = AuthAccountStart(l, "session") /\ Unchanged

\* Accounting is enabled or disabled, or threads for it can be started again or no more.
AccountingChanges ==
  conf' = [conf EXCEPT !.acct = ~@] /\ UNCHANGED << l, handling, gShutdownInProgress, history >>

FatalSignal ==
  /\ Running /\ ~handling /\ ~gShutdownInProgress /\ gShutdownInProgress' = TRUE
  /\ UNCHANGED << l, conf, handling, history >>

Next ==
  \/ MsgEvent \/ LinkOpen \/ LinkClose \/ PhysOpenCmd \/ PhysCloseCmd \/ LinkDestroy
  \/ LinkReopenTimeout \/ Incoming \/ ConnectSuccess \/ ConnectionLost
  \/ Established \/ Renegotiated \/ TermReq \/ Failure
  \/ AuthFinish \/ AuthAccountFinish \/ AuthAccountTimeout
  \/ AccountingChanges \/ FatalSignal

Spec == Init /\ [][Next]_vars

----------------------------------------------------------------------------
(* Properties.  At rest, every message has been handled. *)

AtRest == Alive /\ l.msgs = << >>

\* LCP's phase is the one that goes with its state, also when a method called in
\* the middle of a state change starts another one.
PhaseMatchesState ==
  CASE l.lcp \in {"Initial", "Starting"} -> l.phase = "Dead"
    [] l.lcp \in {"Closed", "Stopped", "Negotiating"} -> l.phase = "Establish"
    [] l.lcp \in {"Closing", "Stopping"} -> l.phase = "Terminate"
    [] l.lcp = "Opened" -> l.phase \in {"Authenticate", "Network"}

\* The assertions of LcpNewPhase() and LcpNewState() hold.
PhaseAssertionsHold == l.failed # "phase"

\* The authentication and its timer run exactly in the Authenticate phase: the phase
\* cannot hang, and a late result cannot fail or admit a link in another phase.
AuthConfined == Running => (l.auth <=> l.phase = "Authenticate")

\* A link is a member of its bundle only in the Network phase; a link in that phase
\* that was not admitted is being closed (a passive one is not).
JoinedMatchesPhase ==
  /\ l.joined => l.phase = "Network"
  /\ Alive /\ l.phase = "Network" /\ ~l.joined /\ ~conf.passive =>
       \E i \in DOMAIN l.msgs : l.msgs[i] = "physClose"

\* The link's netgraph node exists while LCP needs the lower layer, so that a device
\* can be attached to it.  Not so for a passive link, and not after BundJoin()
\* refused a link in the middle of FsmNewState(ST_OPENED).
NodeHeld ==
  Alive /\ ~conf.passive /\ "denied" \notin history =>
    (l.lcp \in {"Starting", "Negotiating", "Opened", "Closing", "Stopping"} => l.node)

\* At rest, a link that is wanted and has no device under it has the redial timer
\* running: no order of open, close, redial and device events forgets to dial.
WantedIsDialled ==
  AtRest /\ l.lcp = "Starting" /\ l.phys = "Down" => l.openTimer

\* At rest, a device is not left up under a link nobody wants, unless the console
\* opened it alone or destroyed the link while it was waiting to redial.
DeviceReleased ==
  AtRest /\ ~conf.passive /\ history = {} /\ l.lcp \in {"Initial", "Closed", "Stopped"} =>
    l.phys = "Down"

\* At rest, a link that may disappear has disappeared: whatever became true last of
\* the conditions of LinkShutdownCheck(), it was checked then.
DyingLinkIsShutDown ==
  ~(AtRest /\ l.die /\ ~l.stay /\ l.lcp = "Initial" /\ l.phys = "Down" /\ l.acct = "none")

\* A link that was shut down left no activity behind: it was neither in a bundle nor
\* negotiating nor authenticating, so no timer of LCP or of the authentication
\* points to it.
NothingLeftBehind ==
  l.dead => ~l.joined /\ ~l.auth /\ l.lcp \in {"Initial", "Starting"}

\* Phase and state go together and no assertion on them fails.
PhasesAgree == PhaseMatchesState /\ PhaseAssertionsHold

\* Who is being authenticated and who is a member of a bundle goes with the phase.
AdmissionMatchesPhase == AuthConfined /\ JoinedMatchesPhase

\* At rest, the device follows what is asked of the link, up or down.
DeviceFollowsRequest == WantedIsDialled /\ DeviceReleased

\* A link that may disappear does, and leaves nothing behind.
DyingLinkVanishes == DyingLinkIsShutDown /\ NothingLeftBehind

\* The assertion of MsgSend() that the receiver is registered.
MsgSendAssertionHolds == l.failed # "send"
=============================================================================
