-------------------------------- MODULE Pptp --------------------------------
(***************************************************************************)
(* PPTP control connections (pptp_ctrl.c), the calls they carry, and the   *)
(* links that dial, accept and close them (pptp.c).                        *)
(*                                                                         *)
(* The peer may send any message at any time, the TCP connection may break *)
(* at any time, and any write may fail: WriteMsg() then kills the          *)
(* connection and every call on it from inside the function that writes.   *)
(* A call belongs to the link it was made for, and is identified by it.    *)
(***************************************************************************)
EXTENDS Integers, FiniteSets

CONSTANTS
  Links,
  Ctrls,           \* slots of gPptpCtrl[], a bound on connections at once
  NoCtrl,          \* no slot
  gPPTPtunlimit    \* calls we place on one connection

VARIABLES
  pptp,   \* gPptpCtrl[], the calls of the links, and the links
  lost    \* links that were told a dead call is under way, for the properties only

CtrlStates == {"FREE", "IDLE", "WAIT_CTL_REPLY", "WAIT_STOP_REPLY", "ESTABLISHED"}
ChanStates == {"FREE", "WAIT_IN_REPLY", "WAIT_OUT_REPLY", "WAIT_CONNECT", "WAIT_DISCONNECT",
               "WAIT_ANSWER", "ESTABLISHED", "WAIT_CTRL"}

\* reps: the requests that wait for a reply, each with its timer; kill: killTimer.
\* tun: a reference to the GRE tunnel, "stale" when its call was canceled.
TypeOK ==
  /\ pptp \in [ctrl : [Ctrls -> [state : CtrlStates, orig : BOOLEAN, kill : BOOLEAN,
                                 reps : SUBSET {"Start", "Stop", "Echo"}]],
               call : [Links -> [state : ChanStates, ctrl : Ctrls \cup {NoCtrl}, orig : BOOLEAN,
                                 incoming : BOOLEAN, reps : SUBSET {"Out", "In", "Conn", "Clear"}]],
               link : [Links -> [state : {"DOWN", "CONNECTING", "UP"}, originate : BOOLEAN,
                                 outcall : BOOLEAN, tun : {"none", "held", "stale"}]],
               bad : BOOLEAN]
  /\ lost \in SUBSET Links

FreeCtrl == [state |-> "FREE", orig |-> FALSE, kill |-> FALSE, reps |-> {}]
FreeChan == [state |-> "FREE", ctrl |-> NoCtrl, orig |-> FALSE, incoming |-> FALSE, reps |-> {}]

Calls(w, c) == {l \in Links : w.call[l].state # "FREE" /\ w.call[l].ctrl = c}

PPTP_CHAN_IS_PNS(ch) == ch.orig # ch.incoming

----------------------------------------------------------------------------
(* The end of calls and connections. *)

\* What a link makes of the end of its call: PptpResult() with an error, PptpCancel().
Told(w, l) ==
  LET u == w.link[l]
  IN  CASE u.state = "DOWN" -> u
        [] u.state # "DOWN" /\ w.call[l].state = "WAIT_ANSWER" ->
             [u EXCEPT !.state = "DOWN", !.tun = IF @ = "held" THEN "stale" ELSE @]
        [] u.state # "DOWN" /\ w.call[l].state # "WAIT_ANSWER" ->
             [u EXCEPT !.state = "DOWN", !.tun = "none"]

EndCalls(w, S) ==
  [w EXCEPT !.link = [l \in Links |-> IF l \in S THEN Told(w, l) ELSE w.link[l]],
            !.call = [l \in Links |-> IF l \in S THEN FreeChan ELSE w.call[l]]]

\* A slip in PptpCtrlKillChan(): an unused connection stays.
KillChanUntimed(w, l) == EndCalls(w, {l})

PptpCtrlKillChan(w, l) ==
  LET c == w.call[l].ctrl
      u == EndCalls(w, {l})
  IN  IF w.call[l].state = "FREE" THEN w
      ELSE IF Calls(u, c) = {} THEN [u EXCEPT !.ctrl[c].kill = TRUE] ELSE u

PptpCtrlKillCtrl(w, c) ==
  IF w.ctrl[c].state = "FREE" THEN w ELSE [EndCalls(w, Calls(w, c)) EXCEPT !.ctrl[c] = FreeCtrl]

\* ok: the write succeeds.
PptpCtrlWriteMsg(w, c, ok) == IF ok THEN w ELSE PptpCtrlKillCtrl(w, c)

\* A write that expects a reply, for the connection and for one call.
WriteRequest(w, c, req, ok) ==
  LET u == PptpCtrlWriteMsg(w, c, ok)
  IN  IF u.ctrl[c].state = "FREE" THEN u ELSE [u EXCEPT !.ctrl[c].reps = @ \cup {req}]

CallRequest(w, l, req, ok) ==
  LET u == PptpCtrlWriteMsg(w, w.call[l].ctrl, ok)
  IN  IF u.call[l].state = "FREE" THEN u ELSE [u EXCEPT !.call[l].reps = @ \cup {req}]

NewCtrlState(w, c, new) ==
  [w EXCEPT !.ctrl[c].state = new, !.bad = @ \/ w.ctrl[c].state = new]
NewChanState(w, l, new) ==
  IF w.call[l].state = "FREE" THEN w
  ELSE [w EXCEPT !.call[l].state = new, !.bad = @ \/ w.call[l].state = new]

\* Our side may only ask to clear the call (PNS), or disconnects at once (PAC).
PnsClear(w, l, ok) == NewChanState(CallRequest(w, l, "Clear", ok), l, "WAIT_DISCONNECT")
PacClear(w, l, ok) == PptpCtrlKillChan(PptpCtrlWriteMsg(w, w.call[l].ctrl, ok), l)

PptpCtrlCloseChan(w, l, ok) ==
  LET ch == w.call[l]
  IN  CASE ch.state = "WAIT_DISCONNECT" -> w
        [] ch.state = "WAIT_CTRL" -> PptpCtrlKillChan(w, l)
        [] ch.state \in {"WAIT_OUT_REPLY", "WAIT_CONNECT"}
           \/ (ch.state = "ESTABLISHED" /\ PPTP_CHAN_IS_PNS(ch)) -> PnsClear(w, l, ok)
        [] ch.state \in {"WAIT_ANSWER", "WAIT_IN_REPLY"}
           \/ (ch.state = "ESTABLISHED" /\ ~PPTP_CHAN_IS_PNS(ch)) -> PacClear(w, l, ok)
        [] ch.state = "FREE" -> [w EXCEPT !.bad = TRUE]   \* memory that was freed

\* PptpCtrlCloseCtrl(), when the last call has been gone for a while.
PptpCtrlCloseCtrl(w, c, ok) ==
  IF w.ctrl[c].state = "ESTABLISHED"
  THEN WriteRequest(NewCtrlState(w, c, "WAIT_STOP_REPLY"), c, "Stop", ok)
  ELSE PptpCtrlKillCtrl(w, c)

----------------------------------------------------------------------------
(* The start of calls. *)

\* How PptpHookUp() ends: it fails before it holds the tunnel, or after.
Hooks == {"ok", "early", "late"}

PptpHookUp(w, l, hook) == IF hook = "early" THEN w ELSE [w EXCEPT !.link[l].tun = "held"]

ReportUp(w, l) == IF w.link[l].state = "CONNECTING" THEN [w EXCEPT !.link[l].state = "UP"] ELSE w

\* PptpResult() without an error.
PptpResult(w, l, hook, ok) ==
  LET u == PptpHookUp(w, l, hook)
      v == IF u.link[l].originate /\ ~u.link[l].outcall
           THEN PptpCtrlWriteMsg(u, u.call[l].ctrl, ok) ELSE u
  IN  CASE w.link[l].state = "DOWN" -> w
        [] w.link[l].state = "UP" -> [w EXCEPT !.bad = TRUE]
        [] w.link[l].state = "CONNECTING" /\ hook # "ok" -> PptpCtrlCloseChan(u, l, ok)
        [] w.link[l].state = "CONNECTING" /\ hook = "ok" -> ReportUp(v, l)

\* The calls that wait for their connection are placed.
PptpCtrlCheckConn(w, c, ok) ==
  LET S == {l \in Calls(w, c) : w.call[l].state = "WAIT_CTRL"}
      Placed(ch) == [ch EXCEPT !.state = IF ch.incoming THEN "WAIT_IN_REPLY" ELSE "WAIT_OUT_REPLY",
                               !.reps = IF ch.incoming THEN {"In"} ELSE {"Out"}]
  IN  IF w.ctrl[c].state # "ESTABLISHED" \/ S = {} THEN w
      ELSE PptpCtrlWriteMsg(
             [w EXCEPT !.call = [l \in Links |-> IF l \in S THEN Placed(@[l]) ELSE @[l]]], c, ok)

First(S) == CHOOSE c \in S : \A d \in S : c <= d

\* A new call on a connection; its kill timer is stopped.
PptpCtrlGetChan(w, c, l, state, orig, incoming) ==
  [w EXCEPT !.ctrl[c].kill = FALSE,
            !.call[l] = [state |-> state, ctrl |-> c, orig |-> orig, incoming |-> incoming,
                         reps |-> {}]]

PptpCtrlInitCtrl(w, c, ok) ==
  WriteRequest(
    [NewCtrlState(w, c, "WAIT_CTL_REPLY") EXCEPT
       !.bad = @ \/ w.ctrl[c].state # "IDLE" \/ w.ctrl[c].reps # {}
                 \/ \E l \in Calls(w, c) : w.call[l].state # "WAIT_CTRL"], c, "Start", ok)

\* PptpCtrlGetCtrl() for a call of ours: a connection to the peer with room, else a new one.
WithRoom == {c \in Ctrls : /\ pptp.ctrl[c].state # "FREE"
                           /\ Cardinality(Calls(pptp, c)) < gPPTPtunlimit}
Unused   == {c \in Ctrls : pptp.ctrl[c].state = "FREE"}

PptpCtrlGetCtrl(c) ==
  IF WithRoom # {} THEN c = First(WithRoom) ELSE Unused # {} /\ c = First(Unused)

Connecting(w, c) ==
  IF w.ctrl[c].state = "FREE"
  THEN [w EXCEPT !.ctrl[c] = [FreeCtrl EXCEPT !.state = "IDLE", !.orig = TRUE]] ELSE w

----------------------------------------------------------------------------
(* Actions of the links. *)

Init ==
  /\ pptp = [ctrl |-> [c \in Ctrls |-> FreeCtrl], call |-> [l \in Links |-> FreeChan],
             link |-> [l \in Links |-> [state |-> "DOWN", originate |-> FALSE,
                                        outcall |-> FALSE, tun |-> "none"]],
             bad |-> FALSE]
  /\ lost = {}

\* PptpOpen() of a link that is down: PptpOriginate().  If the call dies before
\* PptpCtrlOrigCall() returns, PptpResult() ignores that, for the link is still down.
Originate(l, c, outcall, ok) ==
  /\ pptp.link[l].state = "DOWN"
  /\ PptpCtrlGetCtrl(c)
  /\ LET w == PptpCtrlGetChan(Connecting(pptp, c), c, l, "WAIT_CTRL", TRUE, ~outcall)
         u == PptpCtrlCheckConn(w, c, ok)
     IN  /\ pptp' = [u EXCEPT !.link[l] = [@ EXCEPT !.state = "CONNECTING", !.originate = TRUE,
                                                    !.outcall = outcall]]
         /\ lost' = IF u.call[l].state = "FREE" THEN lost \cup {l} ELSE lost

\* The socket cannot be had, or connect() fails at once.
OriginateFails(l, outcall) ==
  /\ pptp.link[l].state = "DOWN" /\ WithRoom = {}
  /\ pptp' = [pptp EXCEPT !.link[l].originate = TRUE, !.link[l].outcall = outcall]
  /\ UNCHANGED lost

\* PptpOpen() of a link that took the peer's outgoing call: it is answered.
Answer(l, hook, ok) ==
  /\ pptp.link[l].state = "CONNECTING" /\ ~pptp.link[l].originate /\ pptp.link[l].outcall
  /\ LET u == PptpHookUp(pptp, l, hook)
     IN  pptp' = IF hook # "ok" THEN PptpCtrlCloseChan(u, l, ok)
                 ELSE ReportUp(PptpCtrlWriteMsg(NewChanState(u, l, "ESTABLISHED"),
                                                u.call[l].ctrl, ok), l)
  /\ UNCHANGED lost

PptpClose(l, ok) ==
  /\ pptp.link[l].state # "DOWN"
  /\ pptp' = PptpCtrlCloseChan(pptp, l, ok)
  /\ UNCHANGED lost

----------------------------------------------------------------------------
(* Events and timers of the connections. *)

\* A peer connects.
PptpCtrlListenEvent(c) ==
  /\ Unused # {} /\ c = First(Unused)
  /\ pptp' = [pptp EXCEPT !.ctrl[c].state = "IDLE"]
  /\ UNCHANGED lost

\* The connection of our own is made, or not.
PptpCtrlConnEvent(c, made, ok) ==
  /\ pptp.ctrl[c].state = "IDLE" /\ pptp.ctrl[c].orig
  /\ pptp' = IF made THEN PptpCtrlInitCtrl(pptp, c, ok) ELSE PptpCtrlKillCtrl(pptp, c)
  /\ UNCHANGED lost

Attached(c) == pptp.ctrl[c].state # "FREE" /\ ~(pptp.ctrl[c].state = "IDLE" /\ pptp.ctrl[c].orig)

\* The peer closes the connection, or sends what is no message.
ReadFails(c) ==
  /\ Attached(c)
  /\ pptp' = PptpCtrlKillCtrl(pptp, c)
  /\ UNCHANGED lost

\* After PPTP_IDLE_TIMEOUT of silence; the reply to an earlier echo takes no longer.
PptpCtrlIdleTimeout(c, ok) ==
  /\ Attached(c) /\ "Echo" \notin pptp.ctrl[c].reps
  /\ pptp' = WriteRequest(pptp, c, "Echo", ok)
  /\ UNCHANGED lost

KillTimeout(c, ok) ==
  /\ pptp.ctrl[c].kill
  /\ pptp' = PptpCtrlCloseCtrl([pptp EXCEPT !.ctrl[c].kill = FALSE], c, ok)
  /\ UNCHANGED lost

\* PptpCtrlReplyTimeout()
CtrlReplyTimeout(c) ==
  /\ pptp.ctrl[c].reps # {}
  /\ pptp' = PptpCtrlKillCtrl(pptp, c)
  /\ UNCHANGED lost

\* Without an answer to a call in set-up it is closed, without one to a clear request
\* or an outgoing call the connection is given up.
CallReplyTimeout(l, req, ok) ==
  /\ req \in pptp.call[l].reps
  /\ LET w == [pptp EXCEPT !.call[l].reps = @ \ {req}]
     IN  pptp' = IF req \in {"Out", "Clear"} THEN PptpCtrlKillCtrl(w, w.call[l].ctrl)
                 ELSE PptpCtrlCloseChan(w, l, ok)
  /\ UNCHANGED lost

----------------------------------------------------------------------------
(* Messages, PptpCtrlMsg(): a reply nobody waits for is ignored, a message in the wrong *)
(* state kills the connection.                                                         *)

RecvCtrl(c, admitted, handled) ==
  /\ Attached(c)
  /\ pptp' = IF pptp.ctrl[c].state \in admitted THEN handled ELSE PptpCtrlKillCtrl(pptp, c)
  /\ UNCHANGED lost

Answered(c, req) == [pptp EXCEPT !.ctrl[c].reps = @ \ {req}]

StartCtrlConnRequest(c, version, ok) ==
  RecvCtrl(c, {"IDLE"},
    IF version THEN PptpCtrlWriteMsg(NewCtrlState(pptp, c, "ESTABLISHED"), c, ok)
    ELSE PptpCtrlKillCtrl(pptp, c))

StartCtrlConnReply(c, result, ok) ==
  /\ "Start" \in pptp.ctrl[c].reps
  /\ LET w == Answered(c, "Start")
     IN  RecvCtrl(c, {"WAIT_CTL_REPLY"},
           CASE result = "denied"  -> PptpCtrlKillCtrl(w, c)
             [] result = "version" -> WriteRequest(NewCtrlState(w, c, "WAIT_STOP_REPLY"), c, "Stop", ok)
             [] result = "ok"      -> PptpCtrlCheckConn(NewCtrlState(w, c, "ESTABLISHED"), c, ok))

\* Its reply is written and the connection killed, whatever becomes of the write.
StopCtrlConnRequest(c) ==
  RecvCtrl(c, {"WAIT_CTL_REPLY", "WAIT_STOP_REPLY", "ESTABLISHED"},
           PptpCtrlKillCtrl(NewCtrlState(pptp, c, "IDLE"), c))

StopCtrlConnReply(c) ==
  /\ "Stop" \in pptp.ctrl[c].reps
  /\ RecvCtrl(c, {"WAIT_STOP_REPLY"}, PptpCtrlKillCtrl(pptp, c))

EchoRequest(c, ok) == RecvCtrl(c, {"ESTABLISHED"}, PptpCtrlWriteMsg(pptp, c, ok))

EchoReply(c, matches) ==
  /\ "Echo" \in pptp.ctrl[c].reps
  /\ RecvCtrl(c, {"ESTABLISHED"},
              IF matches THEN Answered(c, "Echo") ELSE PptpCtrlKillCtrl(pptp, c))

\* Denied, the new call is killed at once, which leaves the kill timer of an unused
\* connection running.
Denied(c, ok) ==
  PptpCtrlWriteMsg([pptp EXCEPT !.ctrl[c].kill = Calls(pptp, c) = {}], c, ok)

\* PptpPeerCall()
Accepted(c, l, incoming) ==
  LET state == IF incoming THEN "WAIT_CONNECT" ELSE "WAIT_ANSWER"
      w == PptpCtrlGetChan(pptp, c, l, state, FALSE, incoming)
  IN  [w EXCEPT !.link[l] = [@ EXCEPT !.state = "CONNECTING", !.originate = FALSE,
                                      !.outcall = ~incoming]]

CallDenied(c, ok) == RecvCtrl(c, {"ESTABLISHED"}, Denied(c, ok))

OutCallRequest(c, l) ==
  /\ pptp.link[l].state = "DOWN"
  /\ RecvCtrl(c, {"ESTABLISHED"}, Accepted(c, l, FALSE))

InCallRequest(c, l, ok) ==
  /\ pptp.link[l].state = "DOWN"
  /\ RecvCtrl(c, {"ESTABLISHED"}, CallRequest(Accepted(c, l, TRUE), l, "Conn", ok))

RecvCall(l, admitted, handled) ==
  /\ pptp.call[l].state # "FREE"
  /\ pptp' = IF pptp.call[l].state \in admitted THEN handled
             ELSE PptpCtrlKillCtrl(pptp, pptp.call[l].ctrl)
  /\ UNCHANGED lost

Replied(l, req) == [pptp EXCEPT !.call[l].reps = @ \ {req}]

OutCallReply(l, accepted, hook, ok) ==
  /\ "Out" \in pptp.call[l].reps
  /\ LET w == Replied(l, "Out")
     IN  RecvCall(l, {"WAIT_OUT_REPLY"},
           IF accepted THEN PptpResult(NewChanState(w, l, "ESTABLISHED"), l, hook, ok)
           ELSE PptpCtrlKillChan(w, l))

InCallReply(l, accepted, hook, ok) ==
  /\ "In" \in pptp.call[l].reps
  /\ LET w == Replied(l, "In")
     IN  RecvCall(l, {"WAIT_IN_REPLY"},
           IF accepted THEN PptpResult(NewChanState(w, l, "ESTABLISHED"), l, hook, ok)
           ELSE PptpCtrlKillChan(w, l))

\* The link is told first: a call it closes is established all the same.
InCallConn(l, hook, ok) ==
  /\ "Conn" \in pptp.call[l].reps
  /\ RecvCall(l, {"WAIT_CONNECT"},
              NewChanState(PptpResult(Replied(l, "Conn"), l, hook, ok), l, "ESTABLISHED"))

CallClearRequest(l, ok) ==
  LET c == pptp.call[l].ctrl
  IN  RecvCall(l, {"WAIT_IN_REPLY", "WAIT_ANSWER", "ESTABLISHED"},
        IF PPTP_CHAN_IS_PNS(pptp.call[l]) THEN PptpCtrlKillCtrl(pptp, c)
        ELSE PptpCtrlWriteMsg(PptpCtrlKillChan(pptp, l), c, ok))

CallDiscNotify(l) ==
  RecvCall(l, {"WAIT_OUT_REPLY", "WAIT_CONNECT", "WAIT_DISCONNECT", "ESTABLISHED"},
           PptpCtrlKillChan(Replied(l, "Clear"), l))

\* WanErrorNotify, SetLinkInfo
CallNotify(l) == RecvCall(l, {"ESTABLISHED"}, pptp)

CtrlMsg(c, ok) ==
  \/ \E version \in BOOLEAN : StartCtrlConnRequest(c, version, ok)
  \/ \E result \in {"ok", "denied", "version"} : StartCtrlConnReply(c, result, ok)
  \/ StopCtrlConnRequest(c)
  \/ StopCtrlConnReply(c)
  \/ EchoRequest(c, ok)
  \/ \E matches \in BOOLEAN : EchoReply(c, matches)
  \/ CallDenied(c, ok)
  \/ \E l \in Links : OutCallRequest(c, l) \/ InCallRequest(c, l, ok)

CallMsg(l, ok) ==
  \/ \E accepted \in BOOLEAN, hook \in Hooks :
       OutCallReply(l, accepted, hook, ok) \/ InCallReply(l, accepted, hook, ok)
  \/ \E hook \in Hooks : InCallConn(l, hook, ok)
  \/ CallClearRequest(l, ok)
  \/ CallDiscNotify(l)
  \/ CallNotify(l)

CtrlEvent(c, ok) ==
  \/ PptpCtrlListenEvent(c)
  \/ \E made \in BOOLEAN : PptpCtrlConnEvent(c, made, ok)
  \/ ReadFails(c)
  \/ PptpCtrlIdleTimeout(c, ok)
  \/ KillTimeout(c, ok)
  \/ CtrlReplyTimeout(c)
  \/ CtrlMsg(c, ok)

LinkEvent(l, ok) ==
  \/ \E c \in Ctrls, outcall \in BOOLEAN : Originate(l, c, outcall, ok)
  \/ \E outcall \in BOOLEAN : OriginateFails(l, outcall)
  \/ \E hook \in Hooks : Answer(l, hook, ok)
  \/ PptpClose(l, ok)
  \/ \E req \in {"Out", "In", "Conn", "Clear"} : CallReplyTimeout(l, req, ok)
  \/ CallMsg(l, ok)

Next ==
  \/ \E c \in Ctrls, ok \in BOOLEAN : CtrlEvent(c, ok)
  \/ \E l \in Links, ok \in BOOLEAN : LinkEvent(l, ok)

----------------------------------------------------------------------------
(* Properties. *)

\* Link, call, connection and tunnel agree, whichever way a call, a connection or a write
\* ends: no link waits for a call that is gone, no call goes on without a link or a
\* connection, and the tunnel is held exactly as long as the link is up, but for a call
\* of the peer that was canceled; no assertion of the two files fails, and no call that
\* was freed is closed.  Not so for a link whose call died while being placed.
CallsMatchLinks ==
  /\ pptp.bad => lost # {}
  /\ \A l \in Links \ lost :
       /\ pptp.link[l].state = "DOWN" <=> pptp.call[l].state = "FREE"
       /\ pptp.call[l].state # "FREE" => pptp.ctrl[pptp.call[l].ctrl].state # "FREE"
       /\ pptp.link[l].state = "UP" => pptp.call[l].state \in {"ESTABLISHED", "WAIT_DISCONNECT"}
  /\ \A l \in Links :
       /\ pptp.link[l].state = "UP" => pptp.link[l].tun = "held"
       /\ pptp.link[l].state = "DOWN" => pptp.link[l].tun # "held"

\* Every wait for the peer has a reply timer of its own, so that neither a call nor a
\* connection waits for ever for an answer; and a connection of ours that is unused is
\* being closed.  A call is placed when its connection, made by us, is established.
WaitsAreTimed ==
  /\ \A c \in Ctrls :
       LET d == pptp.ctrl[c]
       IN  /\ d.state = "WAIT_CTL_REPLY" => "Start" \in d.reps
           /\ d.state = "WAIT_STOP_REPLY" => "Stop" \in d.reps
           /\ d.orig /\ Calls(pptp, c) = {} => d.kill \/ d.state = "WAIT_STOP_REPLY"
  /\ \A l \in Links :
       LET ch == pptp.call[l]
       IN  /\ ch.state = "WAIT_CTRL" /\ pptp.ctrl[ch.ctrl].orig => pptp.ctrl[ch.ctrl].state # "ESTABLISHED"
           /\ ch.state = "WAIT_IN_REPLY" => "In" \in ch.reps
           /\ ch.state = "WAIT_OUT_REPLY" => "Out" \in ch.reps
           /\ ch.state = "WAIT_CONNECT" => "Conn" \in ch.reps
           /\ ch.state = "WAIT_DISCONNECT" => "Clear" \in ch.reps

=============================================================================
