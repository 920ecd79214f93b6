--------------------------------- MODULE Rep ---------------------------------
(***************************************************************************)
(* The repeater: rep.c joins the devices of two links.  A call that comes  *)
(* in on the link "in" is dropped, opened by its own link, or forwarded,   *)
(* before or after the caller is authenticated, to the link "out".  Each   *)
(* end is a TCP (tcp.c), UDP (udp.c), modem (modem.c) or PPPoE device (as  *)
(* in Link; L2TP and PPTP behave alike in what matters here).  Of the link *)
(* above a device only whether its LCP has left Initial is kept.           *)
(*                                                                         *)
(* As in Link, direct calls are operators on the record w, in the order of *)
(* the code, and messages go to w.msgs.                                    *)
(***************************************************************************)
EXTENDS Integers, Sequences

CONSTANTS
  Kinds,       \* the types of device the links may have
  MaxMsgs      \* bound: nothing from outside is sent to a longer queue

VARIABLES
  w,           \* both ends, their repeater and the messages
  conf,        \* per end its kind and whether it is a template; of modems, whether there is
               \* a script to run while idle, and one to connect
  handling     \* MsgEvent() is emptying the message queue

Ends    == {"in", "out"}
Peer(e) == IF e = "in" THEN "out" ELSE "in"

\* A link and its device.  own: the accepted connection of tcp, the node of udp; async:
\* the nodes of tcp or modem; start, check: the modem's timers; cool: its port was closed
\* a moment ago.
EndRecords ==
  [alive : BOOLEAN, stay : BOOLEAN, rep : BOOLEAN, asked : BOOLEAN,
   phys : {"Down", "Connecting", "Ready", "Up"}, incoming : BOOLEAN, opened : BOOLEAN,
   own : BOOLEAN, async : BOOLEAN,
   fd : BOOLEAN, answering : BOOLEAN, chat : {"none", "idle", "connect"},
   start : BOOLEAN, check : BOOLEAN, cool : BOOLEAN]

\* The repeater: which ends are up; its tee node, with the socket that holds it.
NoRep == [up |-> {}, tee |-> FALSE]

TypeOK ==
  /\ w \in [end : [Ends -> EndRecords],
            rep : [up : SUBSET Ends, tee : BOOLEAN],
            msgs : Seq(Ends \X {"linkOpen", "shutdown", "open", "close"}),
            stray : BOOLEAN, failed : {"none", "null", "send", "opened", "answering", "fd"}]
  /\ conf \in [Ends -> [kind : Kinds, tmpl : BOOLEAN, idle : BOOLEAN, script : BOOLEAN]]
  /\ handling \in BOOLEAN

\* A link whose device is down.
Fresh(alive, stay) ==
  [alive |-> alive, stay |-> stay, rep |-> FALSE, asked |-> FALSE,
   phys |-> "Down", incoming |-> FALSE, opened |-> FALSE, own |-> FALSE, async |-> FALSE,
   fd |-> FALSE, answering |-> FALSE, chat |-> "none",
   start |-> FALSE, check |-> FALSE, cool |-> FALSE]

\* Configurations differ in what the device looks at; a modem is never a template.
Confs ==
  {c \in [kind : Kinds, tmpl : BOOLEAN, idle : BOOLEAN, script : BOOLEAN] :
     IF c.kind = "modem" THEN ~c.tmpl ELSE ~c.idle /\ ~c.script}

Init ==
  /\ conf \in [Ends -> Confs]
  /\ w = [end |-> [e \in Ends |->
                    [Fresh(~conf[e].tmpl, ~conf[e].tmpl) EXCEPT
                       !.fd = conf[e].idle, !.chat = IF conf[e].idle THEN "idle" ELSE "none"]],
          rep |-> NoRep, msgs |-> << >>, stray |-> FALSE, failed |-> "none"]
  /\ handling = FALSE

----------------------------------------------------------------------------
(* Messages. *)

Fail(k, what) == [k EXCEPT !.failed = what]

MsgSend(k, e, m) ==
  IF k.end[e].alive THEN [k EXCEPT !.msgs = Append(@, << e, m >>)] ELSE Fail(k, "send")

PhysOpen(k, e)  == MsgSend(k, e, "open")
PhysClose(k, e) == MsgSend(k, e, "close")

\* What is still queued for a dead link is ignored.
LinkShutdown(k, e) ==
  [k EXCEPT !.end[e] = Fresh(FALSE, FALSE),
            !.msgs = SelectSeq(@, LAMBDA m : m[1] # e)]

----------------------------------------------------------------------------
(* The repeater. *)

Attached(k) == {e \in Ends : k.end[e].rep}

\* PhysIsBusy(); of a template, which may have one instance at a time.
PhysIsBusy(k, e) ==
  IF conf[e].tmpl THEN k.end[e].alive
  ELSE ~k.end[e].alive \/ k.end[e].rep \/ k.end[e].asked \/ k.end[e].phys # "Down"

LinkInst(k, e) == IF conf[e].tmpl THEN [k EXCEPT !.end[e] = Fresh(TRUE, FALSE)] ELSE k

RepCreate(k) ==
  LET i == LinkInst(k, "out")
  IN  [i EXCEPT !.end["in"].rep = TRUE, !.end["out"].rep = TRUE, !.rep = NoRep]

RepIncoming(k, ok) ==
  IF ok THEN PhysOpen([k EXCEPT !.rep.tee = TRUE], "out") ELSE PhysClose(k, "in")

\* With both ends up the tee node goes and its neighbours are joined.  The other end is
\* opened without a look whether it is still there.
RepUp(k, e) ==
  LET u == [k EXCEPT !.rep.up = @ \union {e},
                     !.rep.tee = @ /\ k.rep.up \union {e} # Ends]
  IN  CASE e = "in"                    -> u
        [] e = "out" /\ k.end["in"].rep  -> PhysOpen(u, "in")
        [] e = "out" /\ ~k.end["in"].rep -> Fail(u, "null")

\* The end leaves, the other one is closed; the last one takes the repeater with it.
RepDown(k, e) ==
  LET c == IF k.end[Peer(e)].rep THEN PhysClose(k, Peer(e)) ELSE k
      d == [c EXCEPT !.end[e].rep = FALSE, !.rep = [up |-> @.up \ {e}, tee |-> FALSE]]
  IN  IF k.end[e].stay THEN d ELSE MsgSend(d, e, "shutdown")

----------------------------------------------------------------------------
(* phys.c, and what the link above makes of it. *)

\* LinkDown(), by default without redialling, and LinkShutdownCheck(): an LCP that is open
\* is closed, which closes the device once more; an instance goes.
LinkDown(k, e) ==
  LET d == [k EXCEPT !.end[e].asked = FALSE]
      c == IF k.end[e].asked THEN PhysClose(d, e) ELSE d
  IN  IF k.end[e].stay \/ k.end[e].phys # "Down" THEN c ELSE MsgSend(c, e, "shutdown")

PhysUp(k, e)   == IF k.end[e].rep THEN RepUp(k, e) ELSE k
PhysDown(k, e) == IF k.end[e].rep THEN RepDown(k, e) ELSE LinkDown(k, e)

\* The call's fate by the link action that matches.
PhysIncoming(k, action, ok) ==
  CASE action = "drop"   -> PhysClose(k, "in")
    [] action = "accept" -> MsgSend(k, "in", "linkOpen")
    [] action = "forward" /\ PhysIsBusy(k, "out")  -> PhysClose(k, "in")
    [] action = "forward" /\ ~PhysIsBusy(k, "out") -> RepIncoming(RepCreate(k), ok)

\* PhysGetUpperHook()
UpperHook(k, e) == k.end[e].rep => k.rep.tee

Put(k, e, i) == [k EXCEPT !.end[e] = i]

\* The device goes up or down, and the layer above hears of it.
GoesUp(k, e, i)   == PhysUp(Put(k, e, [i EXCEPT !.phys = "Up"]), e)
GoesDown(k, e, i) == PhysDown(Put(k, e, [i EXCEPT !.phys = "Down"]), e)

----------------------------------------------------------------------------
(* TCP. *)

\* TcpDoClose(): the accepted connection is shut down over the link's socket, which is
\* there only once the link was opened.
TcpDoClose(i) == [i EXCEPT !.own = @ /\ ~i.async, !.async = FALSE]

\* A failure leaves the mark of an incoming call.
TcpOpen(k, e, ok, now) ==
  LET i == [k.end[e] EXCEPT !.async = TRUE]
      n == ok /\ UpperHook(k, e)
  IN  CASE n /\ i.incoming /\ i.own    -> GoesUp(k, e, i)
        [] n /\ ~i.incoming /\ now     -> GoesUp(k, e, i)
        [] n /\ ~i.incoming /\ ~now    -> Put(k, e, [i EXCEPT !.phys = "Connecting"])
        [] ~n \/ (i.incoming /\ ~i.own) -> GoesDown(k, e, TcpDoClose(i))

TcpConnectEvent(k, e, ok) ==
  IF ok THEN GoesUp(k, e, k.end[e]) ELSE GoesDown(k, e, TcpDoClose(k.end[e]))

TcpClose(k, e) ==
  LET i == TcpDoClose(k.end[e])
  IN  IF i.phys = "Down" THEN Put(k, e, i) ELSE GoesDown(k, e, [i EXCEPT !.incoming = FALSE])

----------------------------------------------------------------------------
(* UDP. *)

UdpDoClose(i) == [i EXCEPT !.own = FALSE, !.incoming = FALSE]

UdpOpen(k, e, ok) ==
  IF ok /\ UpperHook(k, e) THEN GoesUp(k, e, [k.end[e] EXCEPT !.own = TRUE])
  ELSE GoesDown(k, e, UdpDoClose(k.end[e]))

UdpClose(k, e) ==
  IF k.end[e].phys = "Down" THEN k ELSE GoesDown(k, e, UdpDoClose(k.end[e]))

----------------------------------------------------------------------------
(* PPPoE. *)

PppoeDoClose(i) == [i EXCEPT !.phys = "Down", !.incoming = FALSE]

PppoeOpen(k, e, ok) ==
  LET i == [k.end[e] EXCEPT !.opened = TRUE]
      n == ok /\ UpperHook(k, e)
  IN  CASE i.incoming /\ ~n -> PhysDown(Put(k, e, i), e)
        [] i.incoming /\ n  -> IF i.phys = "Ready" THEN GoesUp(k, e, i) ELSE Put(k, e, i)
        [] ~i.incoming /\ i.phys # "Down" -> Put(k, e, i)
        [] OTHER -> IF n THEN Put(k, e, [i EXCEPT !.phys = "Connecting"])
                    ELSE PhysDown(Put(k, e, i), e)

PppoeClose(k, e) ==
  LET i == [k.end[e] EXCEPT !.opened = FALSE]
  IN  IF i.phys = "Down" THEN Put(k, e, i) ELSE GoesDown(k, e, PppoeDoClose(i))

----------------------------------------------------------------------------
(* Modem. *)

\* ModemDoClose() up to its call of ModemStart(), which, the port having been closed just
\* now, starts its timer or finds nothing to do.
ModemDoClose(k, e, opened) ==
  LET i == k.end[e] IN
  IF ~i.fd THEN Fail(k, "fd")
  ELSE Put(k, e, [i EXCEPT !.fd = FALSE, !.answering = FALSE, !.opened = opened,
                           !.chat = "none", !.check = FALSE, !.async = FALSE,
                           !.cool = TRUE, !.start = opened \/ conf[e].idle])

ModemGoesDown(k, e) ==
  LET c == ModemDoClose(k, e, FALSE)
  IN  IF c.failed = "none" THEN GoesDown(c, e, c.end[e]) ELSE c

\* The line discipline and the async node are put below what is above.
ModemInstallNodes(k, e, ok) == ok /\ UpperHook(k, e)

ModemChatConnectResult(k, e, ok) ==
  IF ModemInstallNodes(k, e, ok)
  THEN GoesUp(k, e, [k.end[e] EXCEPT !.chat = "none", !.check = TRUE, !.async = TRUE])
  ELSE ModemGoesDown(k, e)

\* If the port cannot be opened, an idle modem is not tried again.
ModemStart(k, e, ok) ==
  LET i == [k.end[e] EXCEPT !.start = FALSE]
      f == [i EXCEPT !.fd = TRUE]
  IN  CASE i.answering -> Fail(k, "answering")
        [] ~i.answering /\ ~i.opened /\ ~conf[e].idle -> Put(k, e, i)
        [] ~i.answering /\ (i.opened \/ conf[e].idle) /\ i.cool ->
             Put(k, e, [i EXCEPT !.start = TRUE])
        [] ~i.answering /\ (i.opened \/ conf[e].idle) /\ ~i.cool /\ ~ok ->
             GoesDown(k, e, [i EXCEPT !.opened = FALSE, !.cool = TRUE])
        [] ~i.answering /\ i.opened /\ ~i.cool /\ ok /\ ~conf[e].script ->
             ModemChatConnectResult(Put(k, e, f), e, TRUE)
        [] ~i.answering /\ i.opened /\ ~i.cool /\ ok /\ conf[e].script ->
             Put(k, e, [f EXCEPT !.phys = "Connecting", !.chat = "connect"])
        [] ~i.answering /\ ~i.opened /\ conf[e].idle /\ ~i.cool /\ ok ->
             Put(k, e, [f EXCEPT !.chat = "idle"])

\* The call just answered is taken; otherwise the idle script is stopped to dial.
ModemOpen(k, e, ok) ==
  LET i == [k.end[e] EXCEPT !.opened = TRUE] IN
  CASE k.end[e].opened -> Fail(k, "opened")
    [] ~k.end[e].opened /\ i.fd /\ i.answering ->
         ModemChatConnectResult(Put(k, e, [i EXCEPT !.answering = FALSE]), e, ok)
    [] ~k.end[e].opened /\ i.fd /\ ~i.answering -> ModemDoClose(k, e, TRUE)
    [] ~k.end[e].opened /\ ~i.fd -> ModemStart(Put(k, e, i), e, ok)

\* A modem that was not opened has nothing to close, not even an answered call.
ModemClose(k, e) == IF k.end[e].opened THEN ModemGoesDown(k, e) ELSE k

----------------------------------------------------------------------------
(* The handlers of messages. *)

Open(k, e, ok, now) ==
  CASE conf[e].kind = "tcp"   -> TcpOpen(k, e, ok, now)
    [] conf[e].kind = "udp"   -> UdpOpen(k, e, ok)
    [] conf[e].kind = "pppoe" -> PppoeOpen(k, e, ok)
    [] conf[e].kind = "modem" -> ModemOpen(k, e, ok)

Close(k, e) ==
  CASE conf[e].kind = "tcp"   -> TcpClose(k, e)
    [] conf[e].kind = "udp"   -> UdpClose(k, e)
    [] conf[e].kind = "pppoe" -> PppoeClose(k, e)
    [] conf[e].kind = "modem" -> ModemClose(k, e)

\* For the properties: a device opened that its repeater has lost in the meantime.
Strays(k, e) == [k EXCEPT !.stray = @ \/ (~k.end[e].rep /\ ~k.end[e].asked)]

\* LinkMsg() and PhysMsg().
Handle(k, e, m, ok, now) ==
  CASE m = "linkOpen" -> IF k.end[e].asked THEN k
                         ELSE PhysOpen([k EXCEPT !.end[e].asked = TRUE], e)
    [] m = "shutdown" -> LinkShutdown(k, e)
    [] m = "open"     -> IF k.end[e].rep /\ k.end[e].phys = "Up" THEN PhysUp(k, e)
                         ELSE Open(Strays(k, e), e, ok, now)
    [] m = "close"    -> Close(k, e)

Running == w.failed = "none"

\* The event loop may run another callback.
Calm == Running /\ ~handling

Unchanged == UNCHANGED << conf, handling >>

MsgEvent ==
  /\ Running /\ w.msgs # << >>
  /\ \E ok, now \in BOOLEAN :
       w' = Handle([w EXCEPT !.msgs = Tail(@)], Head(w.msgs)[1], Head(w.msgs)[2], ok, now)
  /\ handling' = (w'.msgs # << >>)
  /\ UNCHANGED conf

----------------------------------------------------------------------------
(* Callbacks. *)

Room == Calm /\ Len(w.msgs) < MaxMsgs

\* The administrator, a bundle or demand opens a link that is not in use.
LinkOpen(e) ==
  /\ Room /\ ~conf[e].tmpl /\ ~PhysIsBusy(w, e)
  /\ w' = MsgSend(w, e, "linkOpen") /\ Unchanged

\* LCP finishes, for whatever reason: LcpLayerFinish().
LinkFinish(e) ==
  /\ Room /\ w.end[e].asked
  /\ LET k == [w EXCEPT !.end[e].asked = FALSE]
     IN  w' = IF w.end[e].rep THEN k ELSE PhysClose(k, e)
  /\ Unchanged

\* PhysCloseCmd(), and LinkDestroy(), of a link in a repeater.
CloseEnd(e) ==
  /\ Room /\ w.end[e].rep
  /\ w' \in {PhysClose(w, e), PhysClose([w EXCEPT !.end[e].stay = FALSE], e)}
  /\ Unchanged

\* A call comes in: TcpAcceptEvent(), UdpAcceptEvent(), PppoeListenEvent().
Accepted(kind, i) ==
  CASE kind = "tcp"   -> [i EXCEPT !.phys = "Ready", !.incoming = TRUE, !.own = TRUE]
    [] kind = "udp"   -> [i EXCEPT !.phys = "Ready", !.incoming = TRUE]
    [] kind = "pppoe" -> [i EXCEPT !.phys = "Connecting", !.incoming = TRUE]

Incoming ==
  /\ Room /\ conf["in"].kind # "modem" /\ ~PhysIsBusy(w, "in")
  /\ \E action \in {"drop", "accept", "forward"}, ok \in BOOLEAN :
       LET k == LinkInst(w, "in") IN
       w' = PhysIncoming(Put(k, "in", Accepted(conf["in"].kind, k.end["in"])), action, ok)
  /\ Unchanged

\* AuthAsyncStart(), AuthAsyncFinish(): the caller is known and forwarded, LCP is killed.
AuthForward ==
  /\ Room /\ w.end["in"].asked /\ w.end["in"].phys = "Up" /\ ~w.end["in"].rep
  /\ \E ok \in BOOLEAN :
       w' = IF PhysIsBusy(w, "out") THEN PhysClose(w, "in")
            ELSE [RepIncoming(RepCreate(w), ok) EXCEPT !.end["in"].asked = FALSE]
  /\ Unchanged

TcpConnects(e) ==
  /\ Calm /\ conf[e].kind = "tcp" /\ w.end[e].phys = "Connecting"
  /\ \E ok \in BOOLEAN : w' = TcpConnectEvent(w, e, ok)
  /\ Unchanged

PppoeSuccess(e) ==
  /\ Calm /\ conf[e].kind = "pppoe" /\ w.end[e].phys = "Connecting"
  /\ w' = IF w.end[e].opened THEN GoesUp(w, e, w.end[e])
          ELSE Put(w, e, [w.end[e] EXCEPT !.phys = "Ready"])
  /\ Unchanged

PppoeLost(e) ==
  /\ Calm /\ conf[e].kind = "pppoe" /\ w.end[e].phys # "Down"
  /\ w' = GoesDown(w, e, PppoeDoClose(w.end[e])) /\ Unchanged

ModemChatConnects(e) ==
  /\ Calm /\ w.end[e].chat = "connect"
  /\ \E ok \in BOOLEAN : w' = ModemChatConnectResult(w, e, ok)
  /\ Unchanged

\* The idle script fails, or it has answered a call, or it asks to call back.
ModemChatIdleResult(e) ==
  /\ Calm /\ w.end[e].chat = "idle"
  /\ LET i == [w.end[e] EXCEPT !.chat = "none"] IN
     \/ w' = ModemDoClose(w, e, FALSE)
     \/ /\ e = "in" /\ Len(w.msgs) < MaxMsgs
        /\ \E action \in {"drop", "accept", "forward"}, ok \in BOOLEAN :
             w' \in {PhysIncoming(Put(w, e, [i EXCEPT !.answering = TRUE, !.phys = "Ready"]),
                                  action, ok),
                     PhysIncoming(Put(w, e, i), action, ok)}
  /\ Unchanged

\* Seconds have passed: no message waits.
ModemStartTimeout(e) ==
  /\ Calm /\ w.msgs = << >> /\ w.end[e].start
  /\ \E ok \in BOOLEAN : w' = ModemStart([w EXCEPT !.end[e].cool = FALSE], e, ok)
  /\ Unchanged

\* MODEM_MIN_CLOSE_TIME has passed with no timer running.
ModemCooled(e) ==
  /\ Calm /\ w.msgs = << >> /\ w.end[e].cool /\ ~w.end[e].start
  /\ w' = [w EXCEPT !.end[e].cool = FALSE] /\ Unchanged

\* ModemCheck(): a watched signal is gone.
ModemCheck(e) == Calm /\ w.end[e].check /\ w' = ModemGoesDown(w, e) /\ Unchanged

Next ==
  \/ MsgEvent \/ Incoming \/ AuthForward
  \/ \E e \in Ends :
       \/ LinkOpen(e) \/ LinkFinish(e) \/ CloseEnd(e)
       \/ TcpConnects(e) \/ PppoeSuccess(e) \/ PppoeLost(e)
       \/ ModemChatConnects(e) \/ ModemChatIdleResult(e)
       \/ ModemStartTimeout(e) \/ ModemCooled(e) \/ ModemCheck(e)

----------------------------------------------------------------------------
(* What must hold.  At rest, every message has been handled. *)

AtRest == Running /\ w.msgs = << >>

\* Closing a device tells nobody if it is down already or, a modem, was never opened.
Mute(e) ==
  IF conf[e].kind = "modem" THEN ~w.end[e].opened ELSE w.end[e].phys = "Down"

\* No end outlives the other in a repeater, unless closing its device is mute; the tee
\* node is there as long as somebody still has to be joined to it, and no longer.
RepeaterIsWhole ==
  /\ AtRest => \A e \in Attached(w) : Peer(e) \in Attached(w) \/ Mute(e)
  /\ w.rep.tee => Attached(w) = Ends /\ w.rep.up # Ends
  /\ AtRest /\ Attached(w) = Ends => w.rep.tee \/ w.rep.up = Ends \/ Mute("in")
  /\ w.rep.up \subseteq {e \in Attached(w) : w.end[e].phys = "Up"}

\* Something will happen to this device by itself.
Trying(e) == w.end[e].phys = "Connecting" \/ w.end[e].start

\* A repeater never waits for nothing: the outgoing end is up or on its way, and once it
\* is up, so is the incoming one.
RepeaterMovesOn ==
  AtRest /\ Attached(w) = Ends /\ (w.rep.tee \/ w.rep.up # {}) =>
    \/ w.end["out"].phys # "Up" /\ Trying("out")
    \/ w.end["out"].phys = "Up" /\ (w.end["in"].phys = "Up" \/ Trying("in"))

\* A device that is down holds no node and runs no check, at rest an instance that nobody
\* uses has vanished, and no assertion fails but that of a modem closed while it waits to
\* dial, no pointer is followed to an end that is gone but that of a caller lost in the
\* moment the other end connects.
EndsAreClean ==
  /\ \A e \in Ends :
       /\ w.end[e].phys = "Down" => ~w.end[e].async /\ ~w.end[e].check
       /\ AtRest /\ w.end[e].alive /\ ~w.end[e].stay =>
            w.end[e].rep \/ w.end[e].asked \/ w.end[e].phys # "Down"
  /\ w.failed \in {"none", "null", "opened", "fd"}
  /\ w.failed = "opened" => w.stray
  /\ w.failed = "null" => conf["in"].kind \in {"pppoe", "modem"}

=============================================================================
