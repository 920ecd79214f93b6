-------------------------------- MODULE L2tp --------------------------------
(***************************************************************************)
(* L2TP control connections and their sessions (l2tp_ctrl.c), and the      *)
(* tunnels and links on top of them (l2tp.c).                              *)
(*                                                                         *)
(* Ends are put off: ppp_l2tp_ctrl_close() and ppp_l2tp_sess_close() only  *)
(* mark the object as dying and start a timer without delay, whose handler *)
(* tells the links; sessions and connections then linger for a while.      *)
(* Between a mark and its timer any message, timer or command may come.    *)
(* There is one peer; it may send anything, and any write may fail.        *)
(***************************************************************************)
EXTENDS Integers, FiniteSets, FiniteSetsExt

CONSTANTS
  Links,
  OutCallLinks,    \* links with L2TP_CONF_OUTCALL
  Ctrls,           \* control connections, each with its tunnel: a bound on both at once
  Sessions,        \* a bound on the sessions at once
  None,            \* no link, no tunnel, no session
  gL2TPtunlimit

VARIABLES
  l2tp,    \* the connections with their tunnels, the sessions, and the links
  stale    \* a link was told that a session it has given up is connected, for the properties only

\* reply, close, notify: the timer runs; death: the lingering of a dying connection, or
\* the time that an unused one is kept.  alive: the links were not told of its end.
\* active, links: the two counters of active sessions, of the connection and its tunnel.
TypeOK ==
  /\ l2tp \in [ctrl : [Ctrls -> [state : {"FREE", "IDLE", "WAIT_CTL_REPLY", "WAIT_CTL_CONNECT",
                                          "ESTABLISHED", "DYING"},
                                 reply : BOOLEAN, close : BOOLEAN,
                                 death : {"none", "unused", "death"}, active : Int,
                                 alive : BOOLEAN, connected : BOOLEAN, links : Int]],
               sess : [Sessions -> [state : {"FREE", "WAIT_REPLY", "WAIT_CONNECT", "WAIT_ANSWER",
                                             "ESTABLISHED", "DYING"},
                                    ctrl : Ctrls \cup {None}, orig : {"LOCAL", "REMOTE"},
                                    side : {"LAC", "LNS"}, link : Links \cup {None},
                                    responded : SUBSET {"link", "peer"}, told : BOOLEAN,
                                    reply : BOOLEAN, notify : BOOLEAN, close : BOOLEAN,
                                    death : BOOLEAN]],
               link : [Links -> [state : {"DOWN", "CONNECTING", "READY", "UP"}, opened : BOOLEAN,
                                 incoming : BOOLEAN, outcall : BOOLEAN,
                                 tun : Ctrls \cup {None}, sess : Sessions \cup {None}]],
               bad : BOOLEAN]
  /\ stale \in BOOLEAN

FreeCtrl == [state |-> "FREE", reply |-> FALSE, close |-> FALSE, death |-> "none", active |-> 0,
             alive |-> FALSE, connected |-> FALSE, links |-> 0]
FreeSess == [state |-> "FREE", ctrl |-> None, orig |-> "LOCAL", side |-> "LAC", link |-> None,
             responded |-> {}, told |-> FALSE, reply |-> FALSE, notify |-> FALSE,
             close |-> FALSE, death |-> FALSE]

First(S) == CHOOSE x \in S : \A y \in S : x <= y

SessionsOf(w, t) == {s \in Sessions : w.sess[s].state # "FREE" /\ w.sess[s].ctrl = t}
LinksOf(w, t)    == {l \in Links : w.link[l].tun = t}

----------------------------------------------------------------------------
(* The end of sessions and connections. *)

ppp_l2tp_ctrl_close(w, t) ==
  IF w.ctrl[t].state \in {"FREE", "DYING"} THEN w
  ELSE [w EXCEPT !.ctrl[t] = [@ EXCEPT !.state = "DYING", !.reply = FALSE, !.death = "none",
                                       !.close = TRUE]]

\* sent: the message can be written.
ppp_l2tp_ctrl_send(w, t, sent) == IF sent THEN w ELSE ppp_l2tp_ctrl_close(w, t)

ppp_l2tp_ctrl_check_reply(w, t) ==
  [w EXCEPT !.ctrl[t].reply = w.ctrl[t].state \in {"IDLE", "WAIT_CTL_REPLY", "WAIT_CTL_CONNECT"}]

ppp_l2tp_sess_check_reply(w, s) ==
  [w EXCEPT !.sess[s].reply = w.sess[s].state \in {"WAIT_REPLY", "WAIT_CONNECT"}]

ppp_l2tp_sess_close(w, s, sent) ==
  IF w.sess[s].state = "DYING" THEN w
  ELSE [ppp_l2tp_ctrl_send(w, w.sess[s].ctrl, sent) EXCEPT
          !.sess[s] = [@ EXCEPT !.state = "DYING", !.notify = FALSE, !.reply = FALSE, !.close = TRUE]]

\* The link gives up its session.
ppp_l2tp_terminate(w, s, sent) ==
  CASE w.ctrl[w.sess[s].ctrl].state = "DYING"       -> [w EXCEPT !.sess[s].told = TRUE]
    [] w.ctrl[w.sess[s].ctrl].state = "ESTABLISHED" ->
         ppp_l2tp_sess_close([w EXCEPT !.sess[s].told = TRUE], s, sent)

\* A slip in the callbacks: the tunnel is left without being counted.
DropUncounted(w, S) ==
  [w EXCEPT !.link = [l \in Links |-> IF l \in S
                                      THEN [@[l] EXCEPT !.state = "DOWN", !.tun = None, !.sess = None]
                                      ELSE @[l]]]

\* Links go down and leave their tunnels.
Drop(w, S) ==
  [w EXCEPT
     !.link = [l \in Links |-> IF l \in S
                               THEN [@[l] EXCEPT !.state = "DOWN", !.tun = None, !.sess = None]
                               ELSE @[l]],
     !.ctrl = [t \in Ctrls |-> [@[t] EXCEPT !.links = @ - Cardinality(S \cap LinksOf(w, t))]]]

\* ppp_l2tp_terminated_cb() for the links of those of the sessions that were not told.
Terminated(w, S) ==
  LET untold == {s \in S : ~w.sess[s].told}
  IN  [Drop(w, {w.sess[s].link : s \in untold}) EXCEPT
         !.sess = [s \in Sessions |-> [@[s] EXCEPT !.told = @ \/ s \in untold]]]

ppp_l2tp_ctrl_death_start(w, t) ==
  [w EXCEPT !.ctrl[t] = [@ EXCEPT !.reply = FALSE, !.death = "death"],
            !.bad = @ \/ w.ctrl[t].state # "DYING"]

ppp_l2tp_sess_do_close(w, s) ==
  LET t == w.sess[s].ctrl
      u == Terminated([w EXCEPT !.sess[s] = [@ EXCEPT !.close = FALSE, !.death = TRUE],
                                !.ctrl[t].active = @ - 1], {s})
  IN  CASE u.ctrl[t].active # 0 -> u
        [] u.ctrl[t].active = 0 /\ u.ctrl[t].state = "DYING" -> ppp_l2tp_ctrl_death_start(u, t)
        [] u.ctrl[t].active = 0 /\ u.ctrl[t].state # "DYING" -> [u EXCEPT !.ctrl[t].death = "unused"]

\* ppp_l2tp_ctrl_terminated_cb()
CtrlTerminated(w, t) ==
  IF w.ctrl[t].alive THEN [Drop(w, LinksOf(w, t)) EXCEPT !.ctrl[t].alive = FALSE] ELSE w

\* A slip in ppp_l2tp_ctrl_do_close(): without sessions it lingers before it tells anyone.
CtrlDoCloseQuiet(w, t) ==
  LET v == [w EXCEPT !.ctrl[t].close = FALSE]
      u == CtrlTerminated(Terminated(v, SessionsOf(w, t)), t)
  IN  IF v.ctrl[t].active = 0 THEN ppp_l2tp_ctrl_death_start(v, t)
      ELSE FoldSet(LAMBDA s, x : ppp_l2tp_sess_close(x, s, TRUE), u, SessionsOf(u, t))

\* The links of all sessions are told first, then those that wait for the connection.
ppp_l2tp_ctrl_do_close(w, t) ==
  LET u == CtrlTerminated(Terminated([w EXCEPT !.ctrl[t].close = FALSE], SessionsOf(w, t)), t)
  IN  IF u.ctrl[t].active = 0 THEN ppp_l2tp_ctrl_death_start(u, t)
      ELSE FoldSet(LAMBDA s, v : ppp_l2tp_sess_close(v, s, TRUE), u, SessionsOf(u, t))

----------------------------------------------------------------------------
(* The start of sessions. *)

NewSession(w) == First({s \in Sessions : w.sess[s].state = "FREE"})

ppp_l2tp_sess_create(w, t, orig, side, l) ==
  [w EXCEPT !.ctrl[t] = [@ EXCEPT !.death = "none", !.active = @ + 1],
            !.sess[NewSession(w)] =
              [FreeSess EXCEPT !.state = CASE orig = "LOCAL" -> "WAIT_REPLY"
                                           [] orig = "REMOTE" /\ side = "LNS" -> "WAIT_CONNECT"
                                           [] orig = "REMOTE" /\ side = "LAC" -> "WAIT_ANSWER",
                               !.ctrl = t, !.orig = orig, !.side = side, !.link = l]]

\* The session is established, and a link that waits for that is told by a timer.
ppp_l2tp_sess_setup(w, s) ==
  [w EXCEPT !.sess[s] = [@ EXCEPT !.state = "ESTABLISHED",
                                  !.notify = @ \/ w.sess[s].side = "LNS" \/ w.sess[s].orig = "LOCAL"]]

\* A locally initiated incoming call connects when the link and the peer have responded.
ppp_l2tp_sess_check_liic(w, s, sent) ==
  IF w.sess[s].responded # {"link", "peer"} THEN w
  ELSE ppp_l2tp_ctrl_send(ppp_l2tp_sess_setup(w, s), w.sess[s].ctrl, sent)

\* setup: the netgraph nodes of the session can be set up.
ppp_l2tp_connected(w, s, setup, sent) ==
  LET d == w.sess[s]
  IN  CASE \/ w.ctrl[d.ctrl].state # "ESTABLISHED" \/ d.side # "LAC"
           \/ << d.orig, d.state >> \notin {<< "REMOTE", "WAIT_ANSWER" >>, << "LOCAL", "WAIT_REPLY" >>} -> w
        [] OTHER ->
             IF d.orig = "LOCAL"
             THEN ppp_l2tp_sess_check_liic([w EXCEPT !.sess[s].responded = @ \cup {"link"}], s, sent)
             ELSE IF setup THEN ppp_l2tp_ctrl_send(ppp_l2tp_sess_setup(w, s), d.ctrl, sent)
                  ELSE ppp_l2tp_sess_close(w, s, sent)

\* L2tpHookUp(): a session that cannot be hooked up is given up, the link goes up.
L2tpHookUp(w, l, hooked, sent) ==
  LET s == w.link[l].sess
  IN  IF s = None THEN [w EXCEPT !.bad = TRUE]
      ELSE IF hooked THEN w
      ELSE [ppp_l2tp_terminate(w, s, sent) EXCEPT !.link[l].sess = None]

\* A session of our own for a link that has joined its tunnel, ppp_l2tp_initiate() and
\* what follows it.  refused: the peer takes no outgoing calls.
Initiate(w, l, refused, sent) ==
  LET t == w.link[l].tun
      s == NewSession(w)
      out == l \in OutCallLinks
      u == ppp_l2tp_sess_check_reply(
             ppp_l2tp_ctrl_send(ppp_l2tp_sess_create(w, t, "LOCAL", IF out THEN "LNS" ELSE "LAC", l),
                                t, sent), s)
      v == [u EXCEPT !.link[l] = [@ EXCEPT !.sess = s, !.outcall = out]]
  IN  IF w.ctrl[t].state # "ESTABLISHED" \/ (out /\ refused) THEN Drop(w, {l})
      ELSE IF out THEN v ELSE ppp_l2tp_connected(v, s, TRUE, sent)

\* ppp_l2tp_ctrl_connected_cb(); sent: the links whose request can be written.
CtrlConnected(w, t, refused, sent) ==
  FoldSet(LAMBDA l, v : Initiate(v, l, refused, l \in sent),
          [w EXCEPT !.ctrl[t].connected = @ \/ LinksOf(w, t) # {}], LinksOf(w, t))

----------------------------------------------------------------------------
(* Actions of the links. *)

Init ==
  /\ l2tp = [ctrl |-> [t \in Ctrls |-> FreeCtrl], sess |-> [s \in Sessions |-> FreeSess],
             link |-> [l \in Links |-> [state |-> "DOWN", opened |-> FALSE, incoming |-> FALSE,
                                        outcall |-> FALSE, tun |-> None, sess |-> None]],
             bad |-> FALSE]
  /\ stale = FALSE

FreeCtrls == {t \in Ctrls : l2tp.ctrl[t].state = "FREE"}
FreeSessions == {s \in Sessions : l2tp.sess[s].state = "FREE"}

Opened(l) == [l2tp EXCEPT !.link[l].opened = TRUE]

\* L2tpOpen() on an incoming call that is ready.
OpenIncoming(l, setup, hooked, sent) ==
  /\ l2tp.link[l].incoming /\ l2tp.link[l].state = "READY"
  /\ LET w == Opened(l)
         u == IF w.link[l].outcall THEN ppp_l2tp_connected(w, w.link[l].sess, setup, sent) ELSE w
     IN  l2tp' = L2tpHookUp([u EXCEPT !.link[l].state = "UP"], l, hooked, sent)
  /\ UNCHANGED stale

Joinable(t) == l2tp.ctrl[t].alive /\ l2tp.ctrl[t].links < gL2TPtunlimit

Dialling(l) == ~l2tp.link[l].incoming /\ l2tp.link[l].state = "DOWN"

\* It joins a tunnel; one that is not connected is waited for.
OpenJoin(l, t, refused, sent) ==
  /\ Dialling(l) /\ Joinable(t)
  /\ l2tp.ctrl[t].connected => FreeSessions # {}
  /\ LET w == [Opened(l) EXCEPT !.link[l] = [@ EXCEPT !.state = "CONNECTING", !.tun = t],
                                !.ctrl[t].links = @ + 1]
     IN  l2tp' = IF w.ctrl[t].connected THEN Initiate(w, l, refused, sent) ELSE w
  /\ UNCHANGED stale

\* It makes a tunnel of its own, ppp_l2tp_ctrl_initiate(), or fails.
OpenNew(l, t, made, sent) ==
  /\ Dialling(l) /\ ~\E u \in Ctrls : Joinable(u)
  /\ FreeCtrls # {} /\ t = First(FreeCtrls)
  /\ LET w == [Opened(l) EXCEPT
                 !.link[l] = [@ EXCEPT !.state = "CONNECTING", !.tun = t],
                 !.ctrl[t] = [FreeCtrl EXCEPT !.state = "WAIT_CTL_REPLY", !.alive = TRUE, !.links = 1]]
     IN  l2tp' = IF made THEN ppp_l2tp_ctrl_check_reply(ppp_l2tp_ctrl_send(w, t, sent), t)
                 ELSE Opened(l)
  /\ UNCHANGED stale

\* The link is active, or the last call was an incoming one that was not closed.
OpenNoted(l) ==
  /\ IF l2tp.link[l].incoming THEN l2tp.link[l].state # "READY" ELSE l2tp.link[l].state # "DOWN"
  /\ l2tp' = Opened(l)
  /\ UNCHANGED stale

L2tpClose(l, sent) ==
  /\ LET w == [l2tp EXCEPT !.link[l] = [@ EXCEPT !.opened = FALSE, !.incoming = FALSE, !.outcall = FALSE]]
         s == w.link[l].sess
     IN  l2tp' = CASE w.link[l].state = "DOWN" -> w
                   [] w.link[l].state # "DOWN" /\ s = None -> Drop(w, {l})
                   [] w.link[l].state # "DOWN" /\ s # None -> Drop(ppp_l2tp_terminate(w, s, sent), {l})
  /\ UNCHANGED stale

----------------------------------------------------------------------------
(* Timers. *)

Becomes(w) == l2tp' = w /\ UNCHANGED stale

CtrlDoClose(t) == l2tp.ctrl[t].close /\ Becomes(ppp_l2tp_ctrl_do_close(l2tp, t))

ppp_l2tp_unused_timeout(t) ==
  /\ l2tp.ctrl[t].death = "unused"
  /\ Becomes(ppp_l2tp_ctrl_close(
       [l2tp EXCEPT !.bad = @ \/ l2tp.ctrl[t].active # 0 \/ l2tp.ctrl[t].state = "DYING"], t))

ppp_l2tp_ctrl_reply_timeout(t) ==
  /\ l2tp.ctrl[t].reply
  /\ Becomes(ppp_l2tp_ctrl_close([l2tp EXCEPT !.ctrl[t].reply = FALSE], t))

\* The tunnel, the connection and what is left of its sessions are freed.  The timer
\* without delay, started before this one, has run.
ppp_l2tp_ctrl_death_timeout(t) ==
  /\ l2tp.ctrl[t].death = "death" /\ ~l2tp.ctrl[t].close
  /\ Becomes([l2tp EXCEPT !.ctrl[t] = FreeCtrl,
                            !.sess = [s \in Sessions |-> IF s \in SessionsOf(l2tp, t) THEN FreeSess
                                                         ELSE @[s]]])

\* The peer's StopCCN, a message that is none or not due, an acknowledgement that is
\* overdue, a HELLO that cannot be written.
CtrlFails(t) == l2tp.ctrl[t].state # "FREE" /\ Becomes(ppp_l2tp_ctrl_close(l2tp, t))

SessDoClose(s) == l2tp.sess[s].close /\ Becomes(ppp_l2tp_sess_do_close(l2tp, s))

ppp_l2tp_sess_reply_timeout(s) ==
  /\ l2tp.sess[s].reply
  /\ Becomes(ppp_l2tp_ctrl_close([l2tp EXCEPT !.sess[s].reply = FALSE], l2tp.sess[s].ctrl))

ppp_l2tp_sess_death_timeout(s) == l2tp.sess[s].death /\ Becomes([l2tp EXCEPT !.sess[s] = FreeSess])

\* ppp_l2tp_connected_cb()
ppp_l2tp_sess_notify(s, hooked, sent) ==
  /\ l2tp.sess[s].notify
  /\ LET l == l2tp.sess[s].link
         w == [l2tp EXCEPT !.sess[s].notify = FALSE]
     IN  /\ l2tp' = IF w.link[l].opened
                    THEN L2tpHookUp([w EXCEPT !.link[l].state = "UP"], l, hooked, sent)
                    ELSE [w EXCEPT !.link[l].state = "READY"]
         /\ stale' = (stale \/ w.sess[s].told)

----------------------------------------------------------------------------
(* Messages for the connection, ppp_l2tp_data_event(); one that is not due in its state *)
(* is a failure of the connection, CtrlFails().  A HELLO changes nothing.              *)

\* L2tpServerEvent(): a peer's first packet, when there is a link for it.
L2tpServerEvent(t) ==
  /\ FreeCtrls # {} /\ t = First(FreeCtrls) /\ \E l \in Links : l2tp.link[l].state = "DOWN"
  /\ l2tp' = [l2tp EXCEPT !.ctrl[t] = [FreeCtrl EXCEPT !.state = "IDLE", !.reply = TRUE, !.alive = TRUE]]
  /\ UNCHANGED stale

RecvCtrl(t, admitted, handled) ==
  /\ l2tp.ctrl[t].state = admitted
  /\ Becomes(ppp_l2tp_ctrl_check_reply(handled, t))

\* A request of our own that is outstanding.
Rivals(t) == {u \in Ctrls \ {t} : l2tp.ctrl[u].state = "WAIT_CTL_REPLY"}

\* Our requests have no tie-breaker.  tiebreaker: the peer's has one; setup: its answer
\* and challenge are good.
SCCRQ(t, tiebreaker, setup, sent) ==
  RecvCtrl(t, "IDLE",
    IF (Rivals(t) # {} /\ tiebreaker) \/ ~setup THEN ppp_l2tp_ctrl_close(l2tp, t)
    ELSE ppp_l2tp_ctrl_send([l2tp EXCEPT !.ctrl[t].state = "WAIT_CTL_CONNECT"], t, sent))

Established(t) == [l2tp EXCEPT !.ctrl[t] = [@ EXCEPT !.state = "ESTABLISHED", !.death = "unused"]]

RoomFor(t) == Cardinality(LinksOf(l2tp, t)) <= Cardinality(FreeSessions)

SCCRP(t, setup, sent, refused, requests) ==
  /\ RoomFor(t)
  /\ RecvCtrl(t, "WAIT_CTL_REPLY",
       IF setup THEN CtrlConnected(ppp_l2tp_ctrl_send(Established(t), t, sent), t, refused, requests)
       ELSE ppp_l2tp_ctrl_close(l2tp, t))

SCCCN(t, setup, refused, requests) ==
  /\ RoomFor(t)
  /\ RecvCtrl(t, "WAIT_CTL_CONNECT",
       IF setup THEN CtrlConnected(Established(t), t, refused, requests)
       ELSE ppp_l2tp_ctrl_close(l2tp, t))

\* A call of the peer, ppp_l2tp_initiated_cb(): no link takes it, or one does.
RequestDenied(t, side, sent) ==
  /\ FreeSessions # {}
  /\ RecvCtrl(t, "ESTABLISHED",
       ppp_l2tp_terminate(ppp_l2tp_sess_create(l2tp, t, "REMOTE", side, None), NewSession(l2tp), sent))

Requested(t, side, l, state) ==
  LET s == NewSession(l2tp)
  IN  [ppp_l2tp_sess_create(l2tp, t, "REMOTE", side, l) EXCEPT
         !.link[l] = [@ EXCEPT !.state = state, !.incoming = TRUE, !.outcall = side = "LAC",
                               !.tun = t, !.sess = s],
         !.ctrl[t].links = @ + 1]

OCRQ(t, l, sent) ==
  /\ FreeSessions # {} /\ l2tp.link[l].state = "DOWN"
  /\ RecvCtrl(t, "ESTABLISHED", ppp_l2tp_ctrl_send(Requested(t, "LAC", l, "READY"), t, sent))

ICRQ(t, l, sent) ==
  /\ FreeSessions # {} /\ l2tp.link[l].state = "DOWN"
  /\ RecvCtrl(t, "ESTABLISHED",
       ppp_l2tp_sess_check_reply(ppp_l2tp_ctrl_send(Requested(t, "LNS", l, "CONNECTING"), t, sent),
                                 NewSession(l2tp)))

----------------------------------------------------------------------------
(* Messages for a session, of a connection in any state.  Again one that is not due is *)
(* a failure of the connection, and a dying session ignores what comes; SLI and WEN    *)
(* change nothing here.                                                               *)

\* failed: the handler fails, which closes the connection and leaves no reply timer.
RecvSess(s, admitted, orig, side, failed, handled) ==
  /\ << l2tp.sess[s].state, l2tp.sess[s].orig, l2tp.sess[s].side >> = << admitted, orig, side >>
  /\ Becomes(IF failed THEN ppp_l2tp_ctrl_close([handled EXCEPT !.sess[s].reply = FALSE], l2tp.sess[s].ctrl)
             ELSE ppp_l2tp_sess_check_reply(handled, s))

ICRP(s, setup, sent) ==
  LET d == l2tp.sess[s]
      w == [l2tp EXCEPT !.sess[s].responded = @ \cup {"peer"}]
  IN  RecvSess(s, "WAIT_REPLY", "LOCAL", "LAC",
        d.responded = {"link"} /\ ~setup,
        CASE "peer" \in d.responded -> ppp_l2tp_ctrl_close(w, d.ctrl)
          [] d.responded = {"link"} /\ ~setup -> w
          [] OTHER -> ppp_l2tp_sess_check_liic(w, s, sent))

OCRP(s) ==
  RecvSess(s, "WAIT_REPLY", "LOCAL", "LNS", FALSE, [l2tp EXCEPT !.sess[s].state = "WAIT_CONNECT"])

\* ICCN of a call of the peer, OCCN of a call of ours.
xCCN(s, orig, setup) ==
  RecvSess(s, "WAIT_CONNECT", orig, "LNS", ~setup,
    IF setup THEN ppp_l2tp_sess_setup(l2tp, s) ELSE l2tp)

CDN(s) ==
  l2tp.sess[s].state # "FREE" /\ Becomes(ppp_l2tp_sess_close(l2tp, s, TRUE))

LinkEvent(l, sent) ==
  \/ \E setup, hooked \in BOOLEAN : OpenIncoming(l, setup, hooked, sent)
  \/ \E t \in Ctrls, refused \in BOOLEAN : OpenJoin(l, t, refused, sent)
  \/ \E t \in Ctrls, made \in BOOLEAN : OpenNew(l, t, made, sent)
  \/ L2tpClose(l, sent)

CtrlTimers(t) == CtrlDoClose(t) \/ ppp_l2tp_ctrl_death_timeout(t)
SessTimers(s) == SessDoClose(s) \/ ppp_l2tp_sess_death_timeout(s)

CtrlEvent(t) ==
  \/ CtrlTimers(t)
  \/ ppp_l2tp_unused_timeout(t)
  \/ ppp_l2tp_ctrl_reply_timeout(t)
  \/ CtrlFails(t)
  \/ L2tpServerEvent(t)

CtrlMsg(t, sent) ==
  \/ \E tiebreaker, setup \in BOOLEAN : SCCRQ(t, tiebreaker, setup, sent)
  \/ \E setup, refused \in BOOLEAN, requests \in SUBSET LinksOf(l2tp, t) :
       SCCRP(t, setup, sent, refused, requests) \/ SCCCN(t, setup, refused, requests)
  \/ \E side \in {"LAC", "LNS"} : RequestDenied(t, side, sent)
  \/ \E l \in Links : OCRQ(t, l, sent) \/ ICRQ(t, l, sent)

SessEvent(s) ==
  \/ SessTimers(s)
  \/ ppp_l2tp_sess_reply_timeout(s)
  \/ \E hooked, sent \in BOOLEAN : ppp_l2tp_sess_notify(s, hooked, sent)
  \/ \E setup, sent \in BOOLEAN : ICRP(s, setup, sent)
  \/ OCRP(s)
  \/ \E orig \in {"LOCAL", "REMOTE"}, setup \in BOOLEAN : xCCN(s, orig, setup)
  \/ CDN(s)

Next ==
  \/ \E l \in Links : OpenNoted(l) \/ \E sent \in BOOLEAN : LinkEvent(l, sent)
  \/ \E t \in Ctrls : CtrlEvent(t) \/ \E sent \in BOOLEAN : CtrlMsg(t, sent)
  \/ \E s \in Sessions : SessEvent(s)

\* What follows the fault that stale stands for is not explored, and either one tunnel is
\* in use or the links that do not place outgoing calls are.
AtRest(u) == u.state = "DOWN" /\ ~u.opened /\ ~u.incoming /\ ~u.outcall

Explored ==
  /\ ~stale
  /\ \/ \A t \in Ctrls : t = First(Ctrls) \/ l2tp.ctrl[t].state = "FREE"
     \/ \A l \in OutCallLinks : AtRest(l2tp.link[l])

----------------------------------------------------------------------------
(* Properties. *)

\* Both counters of active sessions are right: a tunnel counts the links that use or
\* await it, a connection the sessions that have not come to their end.
CountersMatch ==
  \A t \in Ctrls :
    /\ l2tp.ctrl[t].links = Cardinality(LinksOf(l2tp, t))
    /\ l2tp.ctrl[t].active =
         Cardinality({s \in SessionsOf(l2tp, t) : l2tp.sess[s].state # "DYING" \/ l2tp.sess[s].close})

\* A link and a session refer to each other, or neither does; no assertion of l2tp_ctrl.c
\* fails, and no link is connected to a session it has not.
SessionsMatchLinks ==
  /\ l2tp.bad => stale
  /\ \A l \in Links, s \in Sessions :
       l2tp.link[l].sess = s <=> l2tp.sess[s].link = l /\ ~l2tp.sess[s].told
  /\ \A l \in Links :
       /\ l2tp.link[l].sess # None => l2tp.sess[l2tp.link[l].sess].ctrl = l2tp.link[l].tun
       /\ l2tp.link[l].tun # None =>
            l2tp.ctrl[l2tp.link[l].tun].alive /\ l2tp.ctrl[l2tp.link[l].tun].state # "FREE"
       /\ ~stale => (l2tp.link[l].tun = None <=> l2tp.link[l].state = "DOWN")

\* Links, sessions and connections agree on who belongs to whom and on how many there are.
TablesAgree == CountersMatch /\ SessionsMatchLinks

\* Nothing waits for ever: a connection that waits for the peer, is unused or is ending
\* has the timer for it, and so has a session; no timer outlives what it is for.
WaitsAreTimed ==
  /\ \A t \in Ctrls :
       LET d == l2tp.ctrl[t]
       IN  /\ d.reply <=> d.state \in {"IDLE", "WAIT_CTL_REPLY", "WAIT_CTL_CONNECT"}
           /\ d.death = "unused" <=> d.state = "ESTABLISHED" /\ d.active = 0
           /\ d.state = "DYING" <=> \/ d.close \/ d.death = "death"
                                   \/ \E s \in SessionsOf(l2tp, t) : d.state = "DYING" /\ l2tp.sess[s].close
  /\ \A s \in Sessions :
       LET d == l2tp.sess[s]
       IN  /\ d.reply => d.state \in {"WAIT_REPLY", "WAIT_CONNECT"}
           /\ d.state \in {"WAIT_REPLY", "WAIT_CONNECT"} => d.reply \/ l2tp.ctrl[d.ctrl].state = "DYING"
           /\ d.state = "DYING" <=> d.close \/ d.death
           /\ d.notify => d.state = "ESTABLISHED"

\* Whatever ends, its links are told before it is freed: of a session that lingers, and
\* of a connection once nothing of it is left to close.
EndsAreTold ==
  /\ \A s \in Sessions : l2tp.sess[s].death => l2tp.sess[s].told
  /\ \A t \in Ctrls :
       l2tp.ctrl[t].death = "death" /\ ~l2tp.ctrl[t].close =>
         /\ ~l2tp.ctrl[t].alive /\ l2tp.ctrl[t].links = 0
         /\ \A s \in SessionsOf(l2tp, t) : l2tp.sess[s].told

=============================================================================
