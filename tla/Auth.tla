-------------------------------- MODULE Auth --------------------------------
(***************************************************************************)
(* Authentication and accounting of one link: auth.c with pap.c, chap.c    *)
(* and eap.c.  The record a holds the link's struct auth; of LCP it knows  *)
(* only whether the link is in the Authenticate or the Network phase, or   *)
(* in neither ("Down").  Whether a name and a secret match is data: a      *)
(* verdict is chosen.  Packets come at any time, late and repeated, of the *)
(* protocol LCP agreed on for their direction.                             *)
(***************************************************************************)
EXTENDS Integers

CONSTANT AUTH_RETRIES       \* how often a packet is sent

ASSUME AuthAssumption == AUTH_RETRIES \in Nat \ {0}

VARIABLES
  a,
  conf,
  resources     \* the process can start a thread now

vars == << a, conf, resources >>

Protos == {"none", "PAP", "CHAP", "EAP"}
Algs   == {"MD5", "MSOFT"}

\* What a request copies and its result moves back, of struct authparams: there is an
\* EAP message; the peer's MS-CHAP challenge is remembered, for MPPE.
Params   == [eapmsg : BOOLEAN, msChal : BOOLEAN]
NoParams == [eapmsg |-> FALSE, msChal |-> FALSE]

\* pap, chal: what is left of the retries while the timer runs, 0 when it does not.
\* wantTypes, peerTypes: EAP's MD5 has not been requested yet, not been refused yet.
\* thread, copy: the protocol that asked the running thread, and the thread's params.
\* For the properties only: answered, an MS-CHAP challenge was answered; overwritten,
\* a result moved older params over newer ones; owed, the accounting server was sent
\* the START of the last session and not yet its STOP; lost, the thread that was to send
\* that STOP could not be started.
TypeOK ==
  /\ a \in [phase : {"Down", "Authenticate", "Network"}, joined : BOOLEAN,
            want : Protos, peer : Protos,
            peer_to_self : Protos, self_to_peer : Protos, self_alg : Algs,
            timer : BOOLEAN, pap : 0 .. AUTH_RETRIES, chal : 0 .. AUTH_RETRIES,
            ident : BOOLEAN, req : BOOLEAN, retry : -1 .. AUTH_RETRIES,
            resp : BOOLEAN, respTimer : BOOLEAN, wantTypes : BOOLEAN, peerTypes : BOOLEAN,
            params : Params, thread : Protos, copy : Params,
            acct : {"none", "start", "update", "stop"}, acct_timer : BOOLEAN,
            answered : BOOLEAN, overwritten : BOOLEAN, owed : BOOLEAN, lost : BOOLEAN]
  /\ conf \in [local : BOOLEAN, proxy : BOOLEAN, md5 : BOOLEAN,
               acct : BOOLEAN, acct_update : BOOLEAN]
  /\ resources \in BOOLEAN

Init ==
  /\ a = [phase |-> "Down", joined |-> FALSE, want |-> "none", peer |-> "none",
          peer_to_self |-> "none", self_to_peer |-> "none", self_alg |-> "MD5",
          timer |-> FALSE, pap |-> 0, chal |-> 0, ident |-> FALSE, req |-> FALSE,
          retry |-> 0, resp |-> FALSE, respTimer |-> FALSE,
          wantTypes |-> FALSE, peerTypes |-> FALSE,
          params |-> NoParams, thread |-> "none", copy |-> NoParams,
          acct |-> "none", acct_timer |-> FALSE,
          answered |-> FALSE, overwritten |-> FALSE, owed |-> FALSE, lost |-> FALSE]
  /\ conf \in [local : BOOLEAN, proxy : BOOLEAN, md5 : BOOLEAN,
               acct : BOOLEAN, acct_update : BOOLEAN]
  /\ resources = TRUE

----------------------------------------------------------------------------
(* Accounting. *)

\* A slip in AuthAccountStart(): only a START cancels.
CancelsAtStart(k, type) == type = "start"

\* START and STOP cancel the thread that runs; an UPDATE gives way to it.
Cancels(k, type) == type \in {"start", "stop"}

\* If paction_start() fails there is no thread, and what it was to send is lost; nothing
\* tries again.
AuthAccountStart(k, type) ==
  IF k.acct # "none" /\ ~Cancels(k, type) THEN k
  ELSE [k EXCEPT !.acct = IF conf.acct /\ resources THEN type ELSE "none",
                 !.owed = IF type = "start" THEN conf.acct /\ resources ELSE @,
                 !.lost = CASE type = "start" -> FALSE
                            [] type = "stop" -> conf.acct /\ ~resources
                            [] OTHER -> @,
                 !.acct_timer = CASE type = "start" -> conf.acct_update
                                  [] type = "stop" -> FALSE
                                  [] OTHER -> @]

----------------------------------------------------------------------------
(* LCP's phases, as far as they call this module. *)

\* A slip in EapStop(): the timer of the proxy goes on.
EapStopIdent(k) == [k EXCEPT !.ident = FALSE]

EapStop(k) == [k EXCEPT !.ident = FALSE, !.req = FALSE]

\* AuthStop(): PapStop(), ChapStop(), EapStop(), and the thread is canceled.
AuthStop(k) ==
  [EapStop(k) EXCEPT !.timer = FALSE, !.pap = 0, !.chal = 0,
                     !.respTimer = FALSE, !.resp = FALSE,
                     !.thread = "none", !.copy = NoParams]

AuthCleanup(k) ==
  [k EXCEPT !.params = NoParams, !.answered = FALSE, !.overwritten = FALSE]

\* LCP leaves the two phases: the bundle is left, then LcpLayerDown().
LeavePhase(k) ==
  AuthStop(AuthCleanup([IF k.joined THEN AuthAccountStart(k, "stop") ELSE k
                          EXCEPT !.phase = "Down", !.joined = FALSE]))

\* LcpAuthResult(): into the Network phase, where the bundle admits the link or does not.
LcpAuthResult(k, success, admitted) ==
  CASE ~success -> LeavePhase(k)
    [] success /\ k.phase = "Network" -> k
    [] success /\ k.phase # "Network" /\ admitted ->
         AuthAccountStart([k EXCEPT !.phase = "Network", !.joined = TRUE], "start")
    [] OTHER -> LeavePhase(k)

Finished(k) == k.peer_to_self = "none" /\ k.self_to_peer = "none"

\* AuthFinish(): one direction is over, and with it the authentication, if it failed
\* or nothing is left.
AuthFinish(k, which, ok, admitted) ==
  LET done == [k EXCEPT ![which] = "none"] IN
  IF ok /\ ~Finished(done) THEN done
  ELSE LcpAuthResult(AuthStop(done), ok, admitted)

----------------------------------------------------------------------------
(* Start. *)

PapStart(k) == IF k.self_to_peer = "PAP" THEN [k EXCEPT !.pap = AUTH_RETRIES] ELSE k

ChapStart(k) == IF k.peer_to_self = "CHAP" THEN [k EXCEPT !.chal = AUTH_RETRIES] ELSE k

EapStart(k) ==
  LET types == [k EXCEPT !.wantTypes = conf.md5, !.peerTypes = TRUE] IN
  CASE k.peer_to_self = "EAP" -> [types EXCEPT !.retry = AUTH_RETRIES, !.ident = TRUE]
    [] k.peer_to_self # "EAP" /\ k.self_to_peer = "EAP" -> types
    [] OTHER -> k

\* A slip in AuthStart(): the time of the whole is not limited.
AuthStartUntimed(k) == EapStart(ChapStart(PapStart(k)))

AuthStartBoth(k) == EapStart(ChapStart(PapStart([k EXCEPT !.timer = TRUE])))

\* LCP opens, with what it negotiated; with nothing to do the link goes straight on.  If
\* the bundle refuses it then, LCP is not open yet, and the device has to be closed
\* before the phase is left.
AuthStart ==
  /\ a.phase = "Down"
  /\ \E want, peer \in Protos, alg \in Algs, admitted \in BOOLEAN :
       LET k == [a EXCEPT !.phase = "Authenticate", !.want = want, !.peer = peer,
                          !.peer_to_self = want, !.self_to_peer = peer, !.self_alg = alg]
       IN /\ alg = "MSOFT" => peer = "CHAP"
          /\ a' = CASE ~Finished(k) -> AuthStartBoth(k)
                    [] Finished(k) /\ admitted -> LcpAuthResult(k, TRUE, TRUE)
                    [] OTHER -> [k EXCEPT !.phase = "Network"]
  /\ UNCHANGED << conf, resources >>

\* The carrier is lost, either end closes the link, or LCP negotiates anew.
Leave == a.phase # "Down" /\ a' = LeavePhase(a) /\ UNCHANGED << conf, resources >>

----------------------------------------------------------------------------
(* The thread. *)

\* EapRadiusProxyFinish(): a "busy" result is not told from others, it resends the
\* message at hand, or a made-up one.
EapRadiusProxyFinish(k, status, admitted) ==
  LET sent == [k EXCEPT !.params.eapmsg = TRUE, !.retry = AUTH_RETRIES,
                          !.req = @ \/ status = "undef"] IN
  IF status \in {"success", "fail"}
  THEN AuthFinish(sent, "peer_to_self", status = "success", admitted) ELSE sent

\* PapInputFinish(), ChapInputFinish(): an undefined status is settled by comparing.
InputFinish(k, status, admitted) ==
  IF status = "busy" THEN k
  ELSE AuthFinish(k, "peer_to_self", status = "success", admitted)

Finish(k, proto, status, admitted) ==
  IF proto = "EAP" /\ conf.proxy THEN EapRadiusProxyFinish(k, status, admitted)
  ELSE InputFinish(k, status, admitted)

\* AuthAsyncStart(): the link actions drop the link (a close message, then Leave) or
\* hand it to a repeater; the checks before the thread, or its start, may fail.
AuthAsyncStart(k, proto) ==
  {k, LeavePhase(k)}
  \union IF k.thread # "none" THEN {Finish(k, proto, "busy", FALSE)}
         ELSE {Finish(k, proto, "fail", FALSE)}
              \union (IF resources THEN {[k EXCEPT !.thread = proto, !.copy = k.params]} ELSE {})

\* The back ends' answers.  RADIUS goes on with EAP only where this link asked for it.
Statuses(k) ==
  {"success", "fail"} \union
  (IF k.thread = "EAP" /\ conf.proxy /\ k.want = "EAP" THEN {"undef"} ELSE {})

\* AuthAsyncFinish(): the thread's params replace the link's, RADIUS having put its
\* answer in place of the EAP message.
Replace(k, eapmsg) ==
  [k EXCEPT !.params = IF k.thread = "EAP" /\ conf.proxy
                       THEN [k.copy EXCEPT !.eapmsg = eapmsg] ELSE k.copy,
            !.overwritten = @ \/ (k.params.msChal /\ ~k.copy.msChal),
            !.thread = "none", !.copy = NoParams]

AuthAsyncFinish ==
  /\ a.thread # "none"
  /\ \E eapmsg, admitted \in BOOLEAN, status \in Statuses(a) :
       LET k == Replace(a, eapmsg) IN
       a' \in {Finish(k, a.thread, status, admitted), LeavePhase(k)}
  /\ UNCHANGED << conf, resources >>

----------------------------------------------------------------------------
(* Packets. *)

\* AuthInput(): packets are heard in these phases.
Heard == a.phase \in {"Authenticate", "Network"}

PapRequest ==
  /\ Heard /\ a.want = "PAP"
  /\ IF a.peer_to_self # "PAP" THEN UNCHANGED a
     ELSE a' \in AuthAsyncStart(a, "PAP")
                 \union {AuthFinish(a, "peer_to_self", FALSE, FALSE)}
  /\ UNCHANGED << conf, resources >>

PapReply ==
  /\ Heard /\ a.self_to_peer = "PAP"
  /\ \E ok, admitted \in BOOLEAN :
       a' = AuthFinish([a EXCEPT !.pap = 0], "self_to_peer", ok, admitted)
  /\ UNCHANGED << conf, resources >>

\* ChapSendResponse(): it is resent only while the authentication lasts.
ChapSendResponse(k) == [k EXCEPT !.respTimer = k.phase = "Authenticate"]

\* An MS-CHAP challenge is remembered if this end originated the link.
Remembers(k) == conf.local /\ k.self_alg = "MSOFT"

ChapChallenge(k) ==
  ChapSendResponse([k EXCEPT !.resp = TRUE, !.params.msChal = @ \/ Remembers(k),
                             !.answered = @ \/ (conf.local /\ k.self_alg = "MSOFT")])

RecvChapChallenge ==
  /\ Heard /\ a.peer = "CHAP" /\ a' = ChapChallenge(a) /\ UNCHANGED << conf, resources >>

ChapResponse(k, proto) == AuthAsyncStart([k EXCEPT !.chal = 0], proto)

RecvChapResponse ==
  /\ Heard /\ a.want = "CHAP" /\ a' \in ChapResponse(a, "CHAP") /\ UNCHANGED << conf, resources >>

RecvChapReply ==
  /\ Heard /\ a.peer = "CHAP"
  /\ \E ok, admitted \in BOOLEAN :
       LET k == [a EXCEPT !.respTimer = FALSE, !.resp = FALSE] IN
       a' = IF k.self_to_peer # "CHAP" \/ k.phase # "Authenticate" THEN k
            ELSE AuthFinish(k, "self_to_peer", ok, admitted)
  /\ UNCHANGED << conf, resources >>

\* A request to change the password.
RecvChapChangePw ==
  /\ Heard /\ a.want = "CHAP"
  /\ a' = AuthFinish(a, "peer_to_self", FALSE, FALSE) /\ UNCHANGED << conf, resources >>

\* EapSendRequest(): MD5, if it has not been requested or the peer asks for it.
EapSendRequest(k, asked) ==
  IF k.wantTypes \/ asked THEN [k EXCEPT !.wantTypes = FALSE, !.chal = AUTH_RETRIES]
  ELSE AuthFinish(k, "peer_to_self", FALSE, FALSE)

EapSendNak(k) ==
  IF k.peerTypes THEN [k EXCEPT !.peerTypes = FALSE]
  ELSE AuthFinish(k, "self_to_peer", FALSE, FALSE)

\* A request: of MD5, of a type this end does not have, or none.
RecvEapRequest ==
  /\ Heard /\ a.peer = "EAP" /\ ~conf.proxy
  /\ a' \in {IF a.peerTypes THEN ChapChallenge([a EXCEPT !.self_alg = "MD5"])
             ELSE EapSendNak(a),
             EapSendNak(a), AuthFinish(a, "self_to_peer", FALSE, FALSE)}
  /\ UNCHANGED << conf, resources >>

\* A response: the identity, a refusal of the type, an unknown type, or MD5's.
RecvEapResponse ==
  /\ Heard /\ a.want = "EAP" /\ ~conf.proxy
  /\ a' \in {EapSendRequest([a EXCEPT !.ident = FALSE], FALSE),
             EapSendRequest(a, FALSE), EapSendRequest(a, TRUE),
             AuthFinish(a, "peer_to_self", FALSE, FALSE)} \union ChapResponse(a, "EAP")
  /\ UNCHANGED << conf, resources >>

RecvEapReply ==
  /\ Heard /\ a.peer = "EAP" /\ ~conf.proxy
  /\ \E ok, admitted \in BOOLEAN : a' = AuthFinish(a, "self_to_peer", ok, admitted)
  /\ UNCHANGED << conf, resources >>

\* EapRadiusProxy(): every packet goes to the RADIUS server.
EapRadiusProxy ==
  /\ Heard /\ "EAP" \in {a.want, a.peer} /\ conf.proxy
  /\ \E identity \in BOOLEAN :
       a' \in AuthAsyncStart([a EXCEPT !.ident = @ /\ ~identity, !.req = FALSE], "EAP")
  /\ UNCHANGED << conf, resources >>

----------------------------------------------------------------------------
(* Timers. *)

AuthTimeout ==
  /\ a.timer
  /\ a' = LcpAuthResult(AuthStop(a), FALSE, FALSE) /\ UNCHANGED << conf, resources >>

PapTimeout  == a.pap > 0 /\ a' = [a EXCEPT !.pap = @ - 1] /\ UNCHANGED << conf, resources >>

ChapChalTimeout == a.chal > 0 /\ a' = [a EXCEPT !.chal = @ - 1] /\ UNCHANGED << conf, resources >>

ChapRespTimeout == a.respTimer /\ a' = ChapSendResponse(a) /\ UNCHANGED << conf, resources >>

\* The two timers of EAP share one count of retries.
EapIdentTimeout ==
  /\ a.ident
  /\ a' = [a EXCEPT !.retry = @ - 1, !.ident = a.retry > 1] /\ UNCHANGED << conf, resources >>

EapRadiusSendMsgTimeout ==
  /\ a.req
  /\ a' = [a EXCEPT !.retry = @ - 1, !.req = a.retry > 1] /\ UNCHANGED << conf, resources >>

AuthAccountTimeout ==
  a.acct_timer /\ a' = AuthAccountStart(a, "update") /\ UNCHANGED << conf, resources >>

\* AuthAccountFinish(): the server may ask for the link to be closed.
AuthAccountFinish ==
  /\ a.acct # "none"
  /\ LET k == [a EXCEPT !.acct = "none", !.owed = @ /\ a.acct # "stop"] IN
     \/ a' = k
     \/ a.acct # "stop" /\ a' = LeavePhase(k)
  /\ UNCHANGED << conf, resources >>

\* Threads and memory run out and come back.
ResourcesChange == resources' = ~resources /\ UNCHANGED << a, conf >>

Next ==
  \/ AuthStart \/ Leave \/ AuthAsyncFinish \/ PapRequest \/ PapReply
  \/ RecvChapChallenge \/ RecvChapResponse \/ RecvChapReply \/ RecvChapChangePw
  \/ RecvEapRequest \/ RecvEapResponse \/ RecvEapReply \/ EapRadiusProxy
  \/ AuthTimeout \/ PapTimeout \/ ChapChalTimeout \/ ChapRespTimeout
  \/ EapIdentTimeout \/ EapRadiusSendMsgTimeout
  \/ AuthAccountTimeout \/ AuthAccountFinish \/ ResourcesChange

\* The event loop serves the timer of the whole authentication.
Spec == Init /\ [][Next]_vars /\ WF_vars(AuthTimeout)

----------------------------------------------------------------------------
(* What must hold. *)

\* Nothing of an authentication outlives it: the timer of the whole runs exactly in the
\* Authenticate phase, in neither phase a retry, a kept response or a thread is left, and
\* what a timer resends is there (ChapSendResponse() asserts it, EapRadiusSendMsg()
\* reads it).  And nothing that the Network phase needs is lost: the MS-CHAP challenge that
\* was answered is there for the keys of MPPE, unless the result of a thread that had
\* copied the params before replaced them.
StateFollowsPhase ==
  /\ a.timer <=> a.phase = "Authenticate"
  /\ a.phase = "Down" =>
       /\ a.pap = 0 /\ a.chal = 0 /\ ~a.ident /\ ~a.req
       /\ ~a.resp /\ ~a.respTimer /\ a.thread = "none"
  /\ a.respTimer => a.resp
  /\ a.req => a.params.eapmsg
  /\ a.phase = "Network" /\ a.answered => a.params.msChal \/ a.overwritten

\* Accounting follows the session: updates, and a START that may still close the link,
\* belong to a joined link; and when no accounting runs after a session that the server
\* was told of, the STOP has been delivered, whatever was canceled, refused or dropped in
\* between, unless the thread for this very STOP could not be started: no other order of
\* calls leaves a session open at the server.  (A STOP that is canceled by the next START
\* is never delivered: it is no longer the last session's.)
AccountingFollowsSession ==
  /\ a.acct_timer \/ a.acct \in {"start", "update"} => a.joined
  /\ a.phase = "Down" /\ a.acct = "none" => ~a.owed \/ a.lost

\* Every authentication ends, however the peer and the back ends behave: by a result or
\* by its timer.
AuthenticationEnds == a.phase = "Authenticate" ~> a.phase # "Authenticate"

=============================================================================
