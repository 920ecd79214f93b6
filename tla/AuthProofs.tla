------------------------------ MODULE AuthProofs ------------------------------
(***************************************************************************)
(* The safety invariants of Auth, for every number of retries, and those   *)
(* of the asynchronous actions that it runs.                               *)
(*                                                                         *)
(* A handler takes the link's record through intermediate ones in which    *)
(* the timer has been stopped and the phase not yet been left, or a result *)
(* has moved the params and the retries not yet been started.  The         *)
(* invariant is therefore split: Base holds of those records too, Good of  *)
(* the records between two handlers.                                       *)
(***************************************************************************)
EXTENDS Auth, Paction, TLAPS

Auths ==
  [phase : {"Down", "Authenticate", "Network"}, joined : BOOLEAN,
   want : Protos, peer : Protos,
   peer_to_self : Protos, self_to_peer : Protos, self_alg : Algs,
   timer : BOOLEAN, pap : 0 .. AUTH_RETRIES, chal : 0 .. AUTH_RETRIES,
   ident : BOOLEAN, req : BOOLEAN, retry : -1 .. AUTH_RETRIES,
   resp : BOOLEAN, respTimer : BOOLEAN, wantTypes : BOOLEAN, peerTypes : BOOLEAN,
   params : Params, thread : Protos, copy : Params,
   acct : {"none", "start", "update", "stop"}, acct_timer : BOOLEAN,
   answered : BOOLEAN, overwritten : BOOLEAN, owed : BOOLEAN, lost : BOOLEAN]

Confs ==
  [local : BOOLEAN, proxy : BOOLEAN, md5 : BOOLEAN, acct : BOOLEAN, acct_update : BOOLEAN]

\* Nothing of an authentication is left.
Quiet(k) ==
  k.pap = 0 /\ k.chal = 0 /\ ~k.ident /\ ~k.req /\ ~k.resp /\ ~k.respTimer /\ k.thread = "none"

\* What is still to be sent to the accounting server belongs to a session that lasts, or
\* is being sent, or the thread that was to send it could not be started.
Accounted(k) ==
  /\ k.joined => k.phase = "Network"
  /\ k.acct_timer \/ k.acct \in {"start", "update"} => k.joined
  /\ k.owed => conf.acct /\ (k.joined \/ k.acct = "stop" \/ k.lost)

\* Messages of EAP are resent only where every thread asks RADIUS for EAP: no other
\* thread's params take the message away.  The timers of EAP stop before the count of
\* retries they share leaves its range.
Kept(k) ==
  /\ k.respTimer => k.resp
  /\ k.answered => k.params.msChal \/ k.overwritten
  /\ k.req => k.want = "EAP" /\ conf.proxy
  /\ k.thread # "none" /\ k.want = "EAP" /\ conf.proxy => k.thread = "EAP"
  /\ k.ident \/ k.req => k.retry >= 0
  /\ k.ident /\ k.req => k.retry >= 1

Base(k) == k \in Auths /\ Accounted(k) /\ Kept(k)

Timed(k) == k.timer <=> k.phase = "Authenticate"

Resends(k) == k.req => k.params.eapmsg

Good(k) == Base(k) /\ Timed(k) /\ Resends(k) /\ (k.phase = "Down" => Quiet(k))

IInv == conf \in Confs /\ resources \in BOOLEAN /\ Good(a)

USE AuthAssumption

----------------------------------------------------------------------------
(* What is called from several handlers. *)

\* What the invariant says of accounting, and of the rest, depends on these only.
SameAccount(k, u) ==
  /\ u.phase = k.phase /\ u.joined = k.joined
  /\ u.acct = k.acct /\ u.acct_timer = k.acct_timer /\ u.owed = k.owed
  /\ u.lost = k.lost

SameAuth(k, u) ==
  /\ u.phase = k.phase /\ u.want = k.want /\ u.timer = k.timer
  /\ u.pap = k.pap /\ u.chal = k.chal /\ u.ident = k.ident /\ u.req = k.req /\ u.retry = k.retry
  /\ u.resp = k.resp /\ u.respTimer = k.respTimer /\ u.thread = k.thread /\ u.params = k.params
  /\ u.answered = k.answered /\ u.overwritten = k.overwritten

LEMMA AccountIsSame ==
  ASSUME NEW k, NEW u, SameAccount(k, u), Accounted(k)
  PROVE  Accounted(u)
  BY DEF SameAccount, Accounted

LEMMA AuthIsSame ==
  ASSUME NEW k, NEW u, SameAuth(k, u)
  PROVE  /\ Kept(k) => Kept(u)
         /\ Timed(k) => Timed(u)
         /\ Resends(k) => Resends(u)
         /\ Quiet(k) => Quiet(u)
  BY DEF SameAuth, Kept, Timed, Resends, Quiet

\* Accounting changes itself only.
LEMMA AccountFields ==
  ASSUME NEW k \in Auths, NEW type \in {"start", "update", "stop"}, conf \in Confs
  PROVE  LET u == AuthAccountStart(k, type) IN
         /\ u \in Auths /\ SameAuth(k, u) /\ u.joined = k.joined
         /\ type = "stop" =>
              /\ u.acct = (IF conf.acct /\ resources THEN "stop" ELSE "none") /\ ~u.acct_timer
              /\ (u.lost <=> conf.acct /\ ~resources) /\ (u.owed <=> k.owed)
         /\ u.owed => k.owed \/ conf.acct
<1>1. CASE k.acct # "none" /\ type = "update"
  BY <1>1 DEF AuthAccountStart, Cancels, SameAuth
<1>2. CASE ~(k.acct # "none" /\ type = "update")
  <2> DEFINE acct  == IF conf.acct /\ resources THEN type ELSE "none"
             owed  == IF type = "start" THEN conf.acct /\ resources ELSE k.owed
             lost  == CASE type = "start" -> FALSE
                        [] type = "stop" -> conf.acct /\ ~resources
                        [] OTHER -> k.lost
             timer == CASE type = "start" -> conf.acct_update
                        [] type = "stop" -> FALSE
                        [] OTHER -> k.acct_timer
             u     == [k EXCEPT !.acct = acct, !.owed = owed, !.lost = lost, !.acct_timer = timer]
  <2>1. AuthAccountStart(k, type) = u
    BY <1>2 DEF AuthAccountStart, Cancels
  <2>2. /\ acct \in {"none", "start", "update", "stop"} /\ owed \in BOOLEAN
        /\ lost \in BOOLEAN /\ timer \in BOOLEAN
    BY DEF Auths, Confs
  <2>3. /\ type = "stop" => ~timer /\ (lost <=> conf.acct /\ ~resources) /\ (owed <=> k.owed)
        /\ owed => k.owed \/ conf.acct
    OBVIOUS
  <2> HIDE DEF timer, acct, owed, lost
  <2>4. /\ u \in Auths /\ SameAuth(k, u) /\ u.joined = k.joined
        /\ u.acct = acct /\ u.owed = owed /\ u.lost = lost /\ u.acct_timer = timer
    BY <2>2, ZenonT(60) DEF Auths, SameAuth
  <2> HIDE DEF u
  <2> QED
    BY <1>2, <2>1, <2>3, <2>4 DEF acct
<1> QED
  BY <1>1, <1>2

\* The link is admitted, or its session goes on.
LEMMA AccountIsBase ==
  ASSUME NEW k, Base(k), k.joined, NEW type \in {"start", "update"}, conf \in Confs
  PROVE  LET u == AuthAccountStart(k, type) IN Base(u) /\ SameAuth(k, u)
<1> DEFINE u == AuthAccountStart(k, type)
<1>1. /\ u \in Auths /\ SameAuth(k, u) /\ u.joined
      /\ u.owed => k.owed \/ conf.acct
  BY AccountFields DEF Base
<1> HIDE DEF u
<1>2. Accounted(u)
  BY <1>1 DEF Base, Accounted, SameAuth
<1> QED
  BY <1>1, <1>2, AuthIsSame DEF Base, u

\* AuthStop() leaves nothing of the authentication.
LEMMA StopIsBase ==
  ASSUME NEW k, Base(k)
  PROVE  LET u == AuthStop(k) IN
         /\ Base(u) /\ Quiet(u) /\ ~u.timer /\ u.phase = k.phase
         /\ u.joined = k.joined
<1> DEFINE u == AuthStop(k)
<1>1. k \in Auths
  BY DEF Base
<1>2. NoParams \in Params /\ "none" \in Protos /\ 0 \in 0 .. AUTH_RETRIES
  BY DEF NoParams, Params, Protos
<1>3. u \in Auths
  <2> DEFINE e == EapStop(k)
  <2>1. e \in Auths
    BY <1>1 DEF EapStop, Auths
  <2>2. u = [e EXCEPT !.timer = FALSE, !.pap = 0, !.chal = 0, !.respTimer = FALSE, !.resp = FALSE,
                      !.thread = "none", !.copy = NoParams]
    BY DEF AuthStop
  <2> HIDE DEF e, u
  <2> DEFINE d == [e EXCEPT !.timer = FALSE, !.pap = 0, !.chal = 0]
  <2>3. d \in Auths
    BY ONLY AuthAssumption, <1>2, <2>1 DEF Auths
  <2>4. u = [d EXCEPT !.respTimer = FALSE, !.resp = FALSE, !.thread = "none", !.copy = NoParams]
    BY ONLY <2>1, <2>2 DEF Auths
  <2> HIDE DEF d
  <2> QED
    BY ONLY <1>2, <2>3, <2>4 DEF Auths
<1>4. /\ u.phase = k.phase /\ u.joined = k.joined /\ u.acct = k.acct /\ u.acct_timer = k.acct_timer
      /\ u.owed = k.owed /\ u.lost = k.lost
      /\ u.answered = k.answered /\ u.overwritten = k.overwritten
      /\ u.params = k.params /\ ~u.timer /\ Quiet(u)
  BY <1>1 DEF AuthStop, EapStop, Auths, Quiet
<1> HIDE DEF u
<1>5. Accounted(u) /\ Kept(u)
  BY <1>4 DEF Base, Accounted, Kept, Quiet
<1> QED
  BY <1>3, <1>4, <1>5 DEF Base, u

\* The phases are left: the session ends and its STOP is sent.
LEMMA LeaveIsGood ==
  ASSUME NEW k, Base(k), conf \in Confs
  PROVE  Good(LeavePhase(k)) /\ LeavePhase(k).phase = "Down"
<1> DEFINE s == IF k.joined THEN AuthAccountStart(k, "stop") ELSE k
           d == [s EXCEPT !.phase = "Down", !.joined = FALSE]
           c == AuthCleanup(d)
           u == AuthStop(c)
<1>1. LeavePhase(k) = u
  BY DEF LeavePhase
<1>2. /\ s \in Auths /\ Kept(s) /\ ~s.acct_timer
      /\ s.acct \notin {"start", "update"}
      /\ s.owed => conf.acct /\ (s.acct = "stop" \/ s.lost)
  <2>1. CASE k.joined
    <3>1. /\ s \in Auths /\ SameAuth(k, s) /\ ~s.acct_timer
          /\ s.acct = (IF conf.acct /\ resources THEN "stop" ELSE "none")
          /\ (s.lost <=> conf.acct /\ ~resources) /\ (s.owed <=> k.owed)
      BY <2>1, AccountFields DEF Base
    <3> HIDE DEF s
    <3> QED
      BY <3>1, AuthIsSame DEF Base, Accounted
  <2>2. CASE ~k.joined
    BY <2>2 DEF Base, Accounted
  <2> QED
    BY <2>1, <2>2
<1> HIDE DEF s
<1>3. NoParams \in Params
  BY DEF NoParams, Params
<1>4. /\ c \in Auths /\ c.phase = "Down" /\ ~c.joined
      /\ c.acct = s.acct /\ c.acct_timer = s.acct_timer /\ c.owed = s.owed
      /\ c.lost = s.lost
      /\ c.respTimer = s.respTimer /\ c.resp = s.resp /\ ~c.answered
      /\ c.req = s.req /\ c.want = s.want /\ c.thread = s.thread
      /\ c.ident = s.ident /\ c.retry = s.retry
  BY <1>2, <1>3 DEF AuthCleanup, Auths
<1> HIDE DEF c
<1>5. Base(c)
  BY <1>2, <1>4 DEF Base, Accounted, Kept
<1>6. Base(u) /\ Quiet(u) /\ ~u.timer /\ u.phase = "Down"
  BY <1>4, <1>5, StopIsBase
<1> HIDE DEF u
<1> QED
  BY <1>1, <1>6 DEF Good, Timed, Resends, Quiet

\* The authentication has been stopped: the link goes on to its bundle or the phases
\* are left.
LEMMA ResultIsGood ==
  ASSUME NEW k, Base(k), Quiet(k), ~k.timer, k.phase # "Down", conf \in Confs,
         NEW success \in BOOLEAN, NEW admitted \in BOOLEAN
  PROVE  Good(LcpAuthResult(k, success, admitted))
<1>1. CASE success /\ k.phase = "Network"
  BY <1>1 DEF LcpAuthResult, Good, Timed, Resends, Quiet
<1>2. CASE success /\ k.phase # "Network" /\ admitted
  <2> DEFINE n == [k EXCEPT !.phase = "Network", !.joined = TRUE]
             u == AuthAccountStart(n, "start")
  <2>1. /\ n \in Auths /\ n.phase = "Network" /\ n.joined
        /\ n.acct = k.acct /\ n.acct_timer = k.acct_timer /\ n.owed = k.owed /\ n.lost = k.lost
        /\ n.respTimer = k.respTimer /\ n.resp = k.resp /\ n.answered = k.answered
        /\ n.overwritten = k.overwritten /\ n.params = k.params
        /\ n.req = k.req /\ n.want = k.want /\ n.thread = k.thread
        /\ n.ident = k.ident /\ n.retry = k.retry /\ n.timer = k.timer
    BY DEF Base, Auths
  <2>2. LcpAuthResult(k, success, admitted) = u
    BY <1>2 DEF LcpAuthResult
  <2> HIDE DEF n
  <2>3. Base(n)
    BY <2>1 DEF Base, Accounted, Kept
  <2>4. Base(u) /\ SameAuth(n, u)
    BY <2>1, <2>3, AccountIsBase
  <2> HIDE DEF u
  <2> QED
    BY <2>1, <2>2, <2>4 DEF Good, Timed, Resends, Quiet, SameAuth
<1>3. CASE ~success \/ (k.phase # "Network" /\ ~admitted)
  BY <1>3, LeaveIsGood DEF LcpAuthResult
<1> QED
  BY <1>1, <1>2, <1>3

Directions == {"peer_to_self", "self_to_peer"}

\* One direction is over.
LEMMA FinishIsGood ==
  ASSUME NEW k, Base(k), Timed(k), Resends(k), k.phase # "Down", conf \in Confs,
         NEW which \in Directions, NEW ok \in BOOLEAN, NEW admitted \in BOOLEAN
  PROVE  Good(AuthFinish(k, which, ok, admitted))
<1> DEFINE done == [k EXCEPT ![which] = "none"]
<1>1. done \in Auths /\ SameAuth(k, done) /\ SameAccount(k, done)
  <2>1. which = "peer_to_self" \/ which = "self_to_peer"
    BY DEF Directions
  <2>2. "none" \in Protos
    BY DEF Protos
  <2>3. CASE which = "peer_to_self"
    <3>1. done = [k EXCEPT !.peer_to_self = "none"]
      BY <2>3
    <3> HIDE DEF done
    <3> QED
      BY <2>2, <3>1 DEF Base, Auths, SameAuth, SameAccount
  <2>4. CASE which = "self_to_peer"
    <3>1. done = [k EXCEPT !.self_to_peer = "none"]
      BY <2>4
    <3> HIDE DEF done
    <3> QED
      BY <2>2, <3>1 DEF Base, Auths, SameAuth, SameAccount
  <2> QED
    BY <2>1, <2>3, <2>4
<1> HIDE DEF done
<1>2. Base(done) /\ Timed(done) /\ Resends(done) /\ done.phase # "Down"
  BY <1>1, AuthIsSame, AccountIsSame DEF Base, SameAuth
<1>3. CASE ok /\ ~Finished(done)
  BY <1>2, <1>3 DEF AuthFinish, Good, done
<1>4. CASE ~(ok /\ ~Finished(done))
  <2>1. AuthFinish(k, which, ok, admitted) = LcpAuthResult(AuthStop(done), ok, admitted)
    BY <1>4 DEF AuthFinish, done
  <2>2. Base(AuthStop(done)) /\ Quiet(AuthStop(done)) /\ ~AuthStop(done).timer
        /\ AuthStop(done).phase # "Down"
    BY <1>2, StopIsBase
  <2> QED
    BY <2>1, <2>2, ResultIsGood
<1> QED
  BY <1>3, <1>4

----------------------------------------------------------------------------
(* The thread. *)

AllStatuses == {"success", "fail", "undef", "busy"}

\* A result, of a record in which EAP's message may just have been replaced.
LEMMA ResultArrives ==
  ASSUME NEW k, Base(k), Timed(k), k.phase # "Down", conf \in Confs,
         NEW proto \in Protos, NEW status \in AllStatuses, NEW admitted \in BOOLEAN,
         Resends(k) \/ (proto = "EAP" /\ conf.proxy),
         status = "undef" => proto = "EAP" /\ conf.proxy /\ k.want = "EAP"
  PROVE  Good(Finish(k, proto, status, admitted))
<1>1. (status = "success") \in BOOLEAN /\ "peer_to_self" \in Directions
  BY DEF Directions
<1>2. CASE proto = "EAP" /\ conf.proxy
  <2> DEFINE sent == [k EXCEPT !.params.eapmsg = TRUE, !.retry = AUTH_RETRIES,
                               !.req = @ \/ status = "undef"]
  <2>1. Finish(k, proto, status, admitted)
          = IF status \in {"success", "fail"}
            THEN AuthFinish(sent, "peer_to_self", status = "success", admitted) ELSE sent
    BY <1>2 DEF Finish, EapRadiusProxyFinish
  <2>2. k \in Auths /\ k.params \in Params /\ k.req \in BOOLEAN
    BY DEF Base, Auths
  <2>3. /\ AUTH_RETRIES \in -1 .. AUTH_RETRIES /\ (k.req \/ status = "undef") \in BOOLEAN
        /\ [k.params EXCEPT !.eapmsg = TRUE] \in Params
    <3>1. AUTH_RETRIES \in -1 .. AUTH_RETRIES
      OBVIOUS
    <3>2. (k.req \/ status = "undef") \in BOOLEAN
      OBVIOUS
    <3>3. [k.params EXCEPT !.eapmsg = TRUE] \in Params
      BY <2>2 DEF Params
    <3> QED
      BY <3>1, <3>2, <3>3
  <2>4. /\ sent \in Auths /\ SameAccount(k, sent)
        /\ sent.phase = k.phase /\ sent.timer = k.timer /\ sent.want = k.want
        /\ sent.respTimer = k.respTimer /\ sent.resp = k.resp
        /\ sent.answered = k.answered /\ sent.overwritten = k.overwritten
        /\ sent.thread = k.thread /\ sent.ident = k.ident
        /\ sent.retry = AUTH_RETRIES /\ sent.params.eapmsg
        /\ sent.params.msChal = k.params.msChal
        /\ sent.req <=> k.req \/ status = "undef"
    <3> DEFINE req    == k.req \/ status = "undef"
               params == [k.params EXCEPT !.eapmsg = TRUE]
    <3>1. params \in Params /\ params.eapmsg /\ params.msChal = k.params.msChal
      BY <2>2, <2>3 DEF Params
    <3>2. req \in BOOLEAN
      BY <2>3
    <3>3. sent = [k EXCEPT !.params = params, !.retry = AUTH_RETRIES, !.req = req]
      OBVIOUS
    <3> HIDE DEF sent, req, params
    <3>4. sent \in Auths
      BY <2>2, <2>3, <3>1, <3>2, <3>3 DEF Auths
    <3>5. SameAccount(k, sent)
      BY <2>2, <3>3 DEF Auths, SameAccount
    <3>6. /\ sent.phase = k.phase /\ sent.timer = k.timer /\ sent.want = k.want
          /\ sent.respTimer = k.respTimer /\ sent.resp = k.resp
          /\ sent.answered = k.answered /\ sent.overwritten = k.overwritten
          /\ sent.thread = k.thread /\ sent.ident = k.ident
          /\ sent.retry = AUTH_RETRIES /\ sent.params = params /\ sent.req = req
      BY <2>2, <3>3 DEF Auths
    <3> QED
      BY <3>1, <3>4, <3>5, <3>6 DEF req
  <2> HIDE DEF sent
  <2>5. Base(sent) /\ Timed(sent) /\ Resends(sent) /\ sent.phase # "Down"
    BY <1>2, <2>4, AccountIsSame DEF Base, Kept, Timed, Resends
  <2>6. Good(AuthFinish(sent, "peer_to_self", status = "success", admitted))
    BY <1>1, <2>5, FinishIsGood
  <2> QED
    BY <2>1, <2>5, <2>6 DEF Good
<1>3. CASE ~(proto = "EAP" /\ conf.proxy)
  <2>1. Finish(k, proto, status, admitted)
          = IF status = "busy" THEN k
            ELSE AuthFinish(k, "peer_to_self", status = "success", admitted)
    BY <1>3 DEF Finish, InputFinish
  <2>2. Good(AuthFinish(k, "peer_to_self", status = "success", admitted))
    BY <1>1, <1>3, FinishIsGood
  <2> QED
    BY <1>3, <2>1, <2>2 DEF Good
<1> QED
  BY <1>2, <1>3

\* A thread starts for a packet, or something before it ends the matter.
LEMMA AsyncStartIsGood ==
  ASSUME NEW k, Good(k), k.phase # "Down", conf \in Confs, NEW proto \in Protos \ {"none"},
         k.want = "EAP" /\ conf.proxy => proto = "EAP",
         NEW u \in AuthAsyncStart(k, proto)
  PROVE  Good(u)
<1> USE DEF Good
<1>1. Good(LeavePhase(k))
  BY LeaveIsGood
<1>2. Good(Finish(k, proto, "busy", FALSE)) /\ Good(Finish(k, proto, "fail", FALSE))
  BY ResultArrives DEF AllStatuses
<1>3. k.phase # "Down" /\ k \in Auths /\ k.params \in Params
  BY DEF Base, Auths
<1> DEFINE t == [k EXCEPT !.thread = proto, !.copy = k.params]
<1>4. /\ t \in Auths /\ SameAccount(k, t) /\ t.timer = k.timer
      /\ t.respTimer = k.respTimer /\ t.resp = k.resp /\ t.answered = k.answered
      /\ t.overwritten = k.overwritten /\ t.params = k.params /\ t.req = k.req
      /\ t.want = k.want /\ t.ident = k.ident /\ t.retry = k.retry /\ t.thread = proto
  BY <1>3 DEF Auths, SameAccount
<1>5. AuthAsyncStart(k, proto) \subseteq
        {k, LeavePhase(k), Finish(k, proto, "busy", FALSE), t, Finish(k, proto, "fail", FALSE)}
  BY DEF AuthAsyncStart
<1> HIDE DEF t
<1>6. Good(t)
  <2>1. Kept(t) /\ Accounted(t)
    BY <1>4, AccountIsSame DEF Base, Kept
  <2> QED
    BY <1>3, <1>4, <2>1 DEF Base, Timed, Resends, SameAccount
<1> HIDE DEF Good
<1> QED
  BY <1>1, <1>2, <1>5, <1>6

\* What the thread's params take with them is noted.
LEMMA ReplaceIsBase ==
  ASSUME NEW k, Good(k), k.thread # "none", NEW eapmsg \in BOOLEAN
  PROVE  LET u == Replace(k, eapmsg) IN
         /\ Base(u) /\ Timed(u) /\ u.phase = k.phase /\ u.want = k.want
         /\ ~(k.thread = "EAP" /\ conf.proxy) => Resends(u)
<1> DEFINE new  == IF k.thread = "EAP" /\ conf.proxy
                   THEN [k.copy EXCEPT !.eapmsg = eapmsg] ELSE k.copy
           lost == k.overwritten \/ (k.params.msChal /\ ~k.copy.msChal)
           u    == [k EXCEPT !.params = new, !.overwritten = lost,
                             !.thread = "none", !.copy = NoParams]
<1>1. k \in Auths /\ k.copy \in Params /\ k.params \in Params /\ k.overwritten \in BOOLEAN
  BY DEF Good, Base, Auths
<1>2. Replace(k, eapmsg) = u
  BY DEF Replace
<1>3. /\ new \in Params /\ new.msChal = k.copy.msChal
      /\ lost \in BOOLEAN /\ NoParams \in Params /\ "none" \in Protos
  BY <1>1 DEF Params, NoParams, Protos
<1> HIDE DEF new
<1>4. /\ u \in Auths /\ SameAccount(k, u) /\ u.timer = k.timer /\ u.want = k.want
      /\ u.respTimer = k.respTimer /\ u.resp = k.resp /\ u.answered = k.answered
      /\ u.overwritten = lost /\ u.params = new /\ u.req = k.req
      /\ u.ident = k.ident /\ u.retry = k.retry /\ u.thread = "none"
  <2> HIDE DEF lost
  <2>1. u \in Auths
    BY <1>1, <1>3 DEF Auths
  <2>2. SameAccount(k, u)
    BY <1>1 DEF Auths, SameAccount
  <2>3. /\ u.timer = k.timer /\ u.want = k.want
        /\ u.respTimer = k.respTimer /\ u.resp = k.resp /\ u.answered = k.answered
        /\ u.overwritten = lost /\ u.params = new /\ u.req = k.req
        /\ u.ident = k.ident /\ u.retry = k.retry /\ u.thread = "none"
    BY <1>1 DEF Auths
  <2> QED
    BY <2>1, <2>2, <2>3
<1> HIDE DEF u
<1>5. Kept(u)
  BY <1>3, <1>4 DEF Good, Base, Kept
<1>6. Accounted(u) /\ Timed(u) /\ u.phase = k.phase
  BY <1>4, AccountIsSame DEF Good, Base, Timed, SameAccount
<1>7. ~(k.thread = "EAP" /\ conf.proxy) => Resends(u)
  BY <1>4 DEF Good, Base, Kept, Resends
<1> QED
  BY <1>2, <1>4, <1>5, <1>6, <1>7 DEF Base

LEMMA AsyncFinishIsGood ==
  ASSUME Good(a), conf \in Confs, AuthAsyncFinish
  PROVE  Good(a')
<1>1. a.thread # "none" /\ a.phase # "Down" /\ a.thread \in Protos
  BY DEF AuthAsyncFinish, Good, Quiet, Base, Auths
<1>2. PICK eapmsg, admitted \in BOOLEAN, status \in Statuses(a) :
        a' \in {Finish(Replace(a, eapmsg), a.thread, status, admitted),
                LeavePhase(Replace(a, eapmsg))}
  BY DEF AuthAsyncFinish
<1> DEFINE k == Replace(a, eapmsg)
<1>3. /\ Base(k) /\ Timed(k) /\ k.phase = a.phase /\ k.want = a.want
      /\ ~(a.thread = "EAP" /\ conf.proxy) => Resends(k)
  BY <1>1, ReplaceIsBase
<1> HIDE DEF k
<1>4. status \in AllStatuses /\ (status = "undef" => a.thread = "EAP" /\ conf.proxy /\ a.want = "EAP")
  BY DEF Statuses, AllStatuses
<1>5. Good(Finish(k, a.thread, status, admitted))
  BY <1>1, <1>3, <1>4, ResultArrives
<1>6. Good(LeavePhase(k))
  BY <1>3, LeaveIsGood
<1> QED
  BY <1>2, <1>5, <1>6 DEF k

----------------------------------------------------------------------------
(* Packets and timers. *)

\* Some timers have stopped, and nothing else of what the invariant speaks of changed.
Stops(k, u) ==
  /\ SameAccount(k, u) /\ u.want = k.want /\ u.timer = k.timer /\ u.thread = k.thread
  /\ u.params = k.params /\ u.answered = k.answered /\ u.overwritten = k.overwritten
  /\ u.pap \in {0, k.pap} /\ u.chal \in {0, k.chal} /\ u.retry = k.retry
  /\ (u.ident => k.ident) /\ (u.req => k.req) /\ (u.respTimer => k.respTimer)
  /\ (u.resp <=> k.resp) \/ (~u.resp /\ ~u.respTimer)

LEMMA StopsAreGood ==
  ASSUME NEW k, NEW u, Good(k), u \in Auths, Stops(k, u)
  PROVE  Good(u) /\ u.phase = k.phase /\ u.want = k.want
<1> USE DEF Stops
<1>1. Accounted(u)
  BY AccountIsSame DEF Good, Base
<1>2. Kept(u)
  BY DEF Good, Base, Kept
<1> QED
  BY <1>1, <1>2 DEF Good, Base, Timed, Resends, Quiet, SameAccount

\* An answered challenge of MS-CHAP is remembered.
LEMMA ChallengeIsGood ==
  ASSUME NEW k, Good(k), k.phase # "Down", conf \in Confs
  PROVE  Good(ChapChallenge(k))
<1> DEFINE r == conf.local /\ k.self_alg = "MSOFT"
           u == [k EXCEPT !.resp = TRUE, !.params.msChal = @ \/ r, !.answered = @ \/ r,
                          !.respTimer = k.phase = "Authenticate"]
<1>1. k \in Auths /\ k.params \in Params /\ k.answered \in BOOLEAN /\ k.params.msChal \in BOOLEAN
  BY DEF Good, Base, Auths, Params
<1>2. r \in BOOLEAN /\ (k.phase = "Authenticate") \in BOOLEAN
  BY DEF Confs
<1>3. ChapChallenge(k) = u
  <2> DEFINE v == [k EXCEPT !.resp = TRUE, !.params.msChal = @ \/ r, !.answered = @ \/ r]
  <2>1. ChapChallenge(k) = [v EXCEPT !.respTimer = v.phase = "Authenticate"]
    BY DEF ChapChallenge, ChapSendResponse, Remembers
  <2>2. v.phase = k.phase
    BY <1>1 DEF Auths
  <2> QED
    BY <2>1, <2>2, <1>1 DEF Auths
<1> HIDE DEF r
<1>4. [k.params EXCEPT !.msChal = @ \/ r] \in Params
  BY <1>1, <1>2 DEF Params
<1>5. (k.answered \/ r) \in BOOLEAN
  OBVIOUS
<1>6. /\ u \in Auths /\ SameAccount(k, u) /\ u.timer = k.timer /\ u.want = k.want
      /\ u.resp /\ (u.answered <=> k.answered \/ r) /\ u.overwritten = k.overwritten
      /\ u.params = [k.params EXCEPT !.msChal = @ \/ r]
      /\ u.req = k.req /\ u.ident = k.ident /\ u.retry = k.retry /\ u.thread = k.thread
  BY <1>1, <1>2, <1>4, <1>5, ZenonT(60) DEF Auths, SameAccount
<1> HIDE DEF u
<1>7. (u.params.msChal <=> k.params.msChal \/ r) /\ u.params.eapmsg = k.params.eapmsg
  BY <1>1, <1>6 DEF Params
<1>8. Accounted(u) /\ Kept(u)
  BY <1>6, <1>7, AccountIsSame DEF Good, Base, Kept
<1> QED
  BY <1>3, <1>6, <1>7, <1>8 DEF Good, Base, Timed, Resends, SameAccount

\* LCP opens.
LEMMA StartIsGood ==
  ASSUME Good(a), conf \in Confs, AuthStart
  PROVE  Good(a')
<1>1. a.phase = "Down" /\ a \in Auths /\ ~a.timer /\ Quiet(a)
  BY DEF AuthStart, Good, Base, Timed
<1>2. PICK want, peer \in Protos, alg \in Algs, admitted \in BOOLEAN :
        LET k == [a EXCEPT !.phase = "Authenticate", !.want = want, !.peer = peer,
                           !.peer_to_self = want, !.self_to_peer = peer, !.self_alg = alg]
        IN /\ alg = "MSOFT" => peer = "CHAP"
           /\ a' = CASE ~Finished(k) -> AuthStartBoth(k)
                     [] Finished(k) /\ admitted -> LcpAuthResult(k, TRUE, TRUE)
                     [] OTHER -> [k EXCEPT !.phase = "Network"]
  BY ONLY AuthStart DEF AuthStart
<1> DEFINE k == [a EXCEPT !.phase = "Authenticate", !.want = want, !.peer = peer,
                          !.peer_to_self = want, !.self_to_peer = peer, !.self_alg = alg]
<1>3. /\ k \in Auths /\ k.phase = "Authenticate" /\ Quiet(k) /\ ~k.timer
      /\ k.joined = a.joined /\ k.acct = a.acct /\ k.acct_timer = a.acct_timer
      /\ k.owed = a.owed /\ k.lost = a.lost /\ k.params = a.params /\ k.answered = a.answered
      /\ k.overwritten = a.overwritten
  BY <1>1 DEF Auths, Quiet
<1>4. a' = CASE ~Finished(k) -> AuthStartBoth(k)
             [] Finished(k) /\ admitted -> LcpAuthResult(k, TRUE, TRUE)
             [] OTHER -> [k EXCEPT !.phase = "Network"]
  BY <1>2
<1> HIDE DEF k
<1>5. Base(k)
  BY <1>1, <1>3 DEF Good, Base, Accounted, Kept, Quiet
<1>6. CASE ~Finished(k)
  <2>1. a' = AuthStartBoth(k)
    BY <1>4, <1>6
  <2>2. /\ AUTH_RETRIES \in 0 .. AUTH_RETRIES /\ AUTH_RETRIES \in -1 .. AUTH_RETRIES
        /\ conf.md5 \in BOOLEAN
    BY DEF Confs
  <2> DEFINE t == [k EXCEPT !.timer = TRUE]
             p == PapStart(t)
             c == ChapStart(p)
             e == EapStart(c)
  <2>3. /\ t \in Auths /\ SameAccount(k, t) /\ t.timer /\ t.params = k.params
        /\ t.answered = k.answered /\ t.overwritten = k.overwritten
        /\ ~t.ident /\ ~t.req /\ ~t.resp /\ ~t.respTimer /\ t.thread = "none"
    BY <1>3 DEF Auths, SameAccount, Quiet
  <2> HIDE DEF t
  <2>4. /\ p \in Auths /\ SameAccount(k, p) /\ p.timer /\ p.params = k.params
        /\ p.answered = k.answered /\ p.overwritten = k.overwritten
        /\ ~p.ident /\ ~p.req /\ ~p.resp /\ ~p.respTimer /\ p.thread = "none"
    BY <2>2, <2>3 DEF PapStart, Auths, SameAccount
  <2> HIDE DEF p
  <2>5. /\ c \in Auths /\ SameAccount(k, c) /\ c.timer /\ c.params = k.params
        /\ c.answered = k.answered /\ c.overwritten = k.overwritten
        /\ ~c.ident /\ ~c.req /\ ~c.resp /\ ~c.respTimer /\ c.thread = "none"
    BY <2>2, <2>4 DEF ChapStart, Auths, SameAccount
  <2> HIDE DEF c
  <2>6. /\ e \in Auths /\ SameAccount(k, e) /\ e.timer /\ e.params = k.params
        /\ e.answered = k.answered /\ e.overwritten = k.overwritten
        /\ ~e.req /\ ~e.resp /\ ~e.respTimer /\ e.thread = "none"
        /\ e.ident => e.retry = AUTH_RETRIES
    BY <2>2, <2>5 DEF EapStart, Auths, SameAccount
  <2>7. a' = e
    BY <2>1 DEF AuthStartBoth, t, p, c
  <2> HIDE DEF e
  <2>8. Accounted(e) /\ Kept(e)
    BY <1>5, <2>6, AccountIsSame DEF Base, Kept
  <2> QED
    BY <1>3, <2>6, <2>7, <2>8 DEF Good, Base, Timed, Resends, SameAccount
<1>7. CASE Finished(k) /\ admitted
  <2>1. a' = LcpAuthResult(k, TRUE, TRUE) /\ TRUE \in BOOLEAN
    BY <1>4, <1>7
  <2> QED
    BY <2>1, <1>3, <1>5, ResultIsGood
<1>8. CASE Finished(k) /\ ~admitted
  <2> DEFINE n == [k EXCEPT !.phase = "Network"]
  <2>1. a' = n
    BY <1>4, <1>8
  <2>2. /\ n \in Auths /\ n.phase = "Network"
        /\ n.timer = k.timer /\ Quiet(n) /\ n.params = k.params /\ n.answered = k.answered
        /\ n.overwritten = k.overwritten
        /\ n.joined = k.joined /\ n.acct = k.acct /\ n.acct_timer = k.acct_timer
        /\ n.owed = k.owed /\ n.lost = k.lost
    BY <1>3 DEF Auths, Quiet
  <2> HIDE DEF n
  <2> QED
    BY <2>1, <2>2, <1>3, <1>5 DEF Good, Base, Accounted, Kept, Timed, Resends, Quiet
<1> QED
  BY <1>6, <1>7, <1>8

\* Packets of PAP and CHAP.
LEMMA PapAndChapAreGood ==
  ASSUME Good(a), conf \in Confs,
         PapRequest \/ PapReply \/ RecvChapChallenge \/ RecvChapResponse
           \/ RecvChapReply \/ RecvChapChangePw
  PROVE  Good(a')
<1>1. a.phase # "Down" /\ a \in Auths /\ 0 \in 0 .. AUTH_RETRIES
  <2>1. Heard
    BY DEF PapRequest, PapReply, RecvChapChallenge, RecvChapResponse, RecvChapReply,
           RecvChapChangePw
  <2>2. 0 \in 0 .. AUTH_RETRIES
    OBVIOUS
  <2> QED
    BY <2>1, <2>2 DEF Heard, Good, Base
<1>2. /\ "peer_to_self" \in Directions /\ "self_to_peer" \in Directions
      /\ "PAP" \in Protos \ {"none"} /\ "CHAP" \in Protos \ {"none"}
  BY DEF Directions, Protos
<1>3. ASSUME NEW k, Good(k), k.phase # "Down", NEW which \in Directions,
             NEW ok \in BOOLEAN, NEW admitted \in BOOLEAN
      PROVE  Good(AuthFinish(k, which, ok, admitted))
  BY <1>3, FinishIsGood DEF Good
<1>4. CASE PapRequest
  BY <1>1, <1>2, <1>3, <1>4, AsyncStartIsGood DEF PapRequest
<1>5. CASE PapReply
  <2> DEFINE k == [a EXCEPT !.pap = 0]
  <2>1. Good(k) /\ k.phase # "Down"
    <3>1. k \in Auths /\ Stops(a, k)
      BY <1>1 DEF Auths, Stops, SameAccount
    <3> HIDE DEF k
    <3> QED
      BY <3>1, <1>1, StopsAreGood
  <2> HIDE DEF k
  <2> QED
    BY <2>1, <1>2, <1>3, <1>5 DEF PapReply, k
<1>6. CASE RecvChapChallenge
  BY <1>1, <1>6, ChallengeIsGood DEF RecvChapChallenge
<1>7. CASE RecvChapResponse
  <2> DEFINE k == [a EXCEPT !.chal = 0]
  <2>1. Good(k) /\ k.phase # "Down" /\ k.want = "CHAP"
    <3>1. k \in Auths /\ Stops(a, k)
      BY <1>1 DEF Auths, Stops, SameAccount
    <3>2. a.want = "CHAP"
      BY <1>7 DEF RecvChapResponse
    <3> HIDE DEF k
    <3> QED
      BY <3>1, <3>2, <1>1, StopsAreGood
  <2>2. a' \in AuthAsyncStart(k, "CHAP")
    BY <1>7 DEF RecvChapResponse, ChapResponse
  <2> HIDE DEF k
  <2> QED
    BY <2>1, <2>2, <1>2, AsyncStartIsGood
<1>8. CASE RecvChapReply
  <2> DEFINE k == [a EXCEPT !.respTimer = FALSE, !.resp = FALSE]
  <2>1. Good(k) /\ k.phase # "Down"
    <3>1. k \in Auths /\ Stops(a, k)
      BY <1>1 DEF Auths, Stops, SameAccount
    <3> HIDE DEF k
    <3> QED
      BY <3>1, <1>1, StopsAreGood
  <2>2. PICK ok, admitted \in BOOLEAN :
          a' = IF k.self_to_peer # "CHAP" \/ k.phase # "Authenticate" THEN k
               ELSE AuthFinish(k, "self_to_peer", ok, admitted)
    BY <1>8 DEF RecvChapReply
  <2> HIDE DEF k
  <2> QED
    BY <2>1, <2>2, <1>2, <1>3
<1>9. CASE RecvChapChangePw
  BY <1>1, <1>2, <1>3, <1>9 DEF RecvChapChangePw
<1> QED
  BY <1>4, <1>5, <1>6, <1>7, <1>8, <1>9

\* Packets of EAP, handled here or by the RADIUS server.
LEMMA EapIsGood ==
  ASSUME Good(a), conf \in Confs,
         RecvEapRequest \/ RecvEapResponse \/ RecvEapReply \/ EapRadiusProxy
  PROVE  Good(a')
<1>1. a.phase # "Down" /\ a \in Auths
  BY DEF RecvEapRequest, RecvEapResponse, RecvEapReply, EapRadiusProxy, Heard, Good, Base
<1>2. /\ "peer_to_self" \in Directions /\ "self_to_peer" \in Directions
      /\ "EAP" \in Protos \ {"none"} /\ "MD5" \in Algs /\ 0 \in 0 .. AUTH_RETRIES
      /\ AUTH_RETRIES \in 0 .. AUTH_RETRIES
  BY DEF Directions, Protos, Algs
<1>3. ASSUME NEW k, Good(k), k.phase # "Down", NEW which \in Directions,
             NEW ok \in BOOLEAN, NEW admitted \in BOOLEAN
      PROVE  Good(AuthFinish(k, which, ok, admitted))
  BY <1>3, FinishIsGood DEF Good
\* What the invariant does not speak of.
<1>4. ASSUME NEW k \in Auths, NEW u \in Auths, Good(k), SameAccount(k, u), SameAuth(k, u)
      PROVE  Good(u)
  BY <1>4, AccountIsSame, AuthIsSame DEF Good, Base, SameAuth
<1>5. CASE RecvEapRequest
  <2> DEFINE m == [a EXCEPT !.self_alg = "MD5"]
             n == [a EXCEPT !.peerTypes = FALSE]
  <2>1. /\ m \in Auths /\ SameAccount(a, m) /\ SameAuth(a, m)
        /\ n \in Auths /\ SameAccount(a, n) /\ SameAuth(a, n)
    BY <1>1, <1>2 DEF Auths, SameAccount, SameAuth
  <2>2. Good(m) /\ m.phase # "Down" /\ Good(n)
    BY <1>1, <1>4, <2>1 DEF SameAuth
  <2>3. Good(EapSendNak(a))
    BY <1>1, <1>2, <1>3, <2>2 DEF EapSendNak
  <2>4. Good(ChapChallenge(m))
    BY <2>2, ChallengeIsGood
  <2>5. a' \in {ChapChallenge(m), EapSendNak(a), AuthFinish(a, "self_to_peer", FALSE, FALSE)}
    BY <1>5 DEF RecvEapRequest
  <2> HIDE DEF m, n
  <2> QED
    BY <2>3, <2>4, <2>5, <1>1, <1>2, <1>3
<1>6. CASE RecvEapResponse
  <2> DEFINE i == [a EXCEPT !.ident = FALSE]
             c == [a EXCEPT !.chal = 0]
  <2>1. i \in Auths /\ Stops(a, i)
    BY <1>1 DEF Auths, Stops, SameAccount
  <2>2. c \in Auths /\ Stops(a, c)
    BY <1>1, <1>2 DEF Auths, Stops, SameAccount
  <2>3. ~conf.proxy
    BY <1>6 DEF RecvEapResponse
  <2>4. a' \in {EapSendRequest(i, FALSE), EapSendRequest(a, FALSE), EapSendRequest(a, TRUE),
               AuthFinish(a, "peer_to_self", FALSE, FALSE)} \union AuthAsyncStart(c, "EAP")
    BY <1>6 DEF RecvEapResponse, ChapResponse
  <2> HIDE DEF i, c
  <2>5. Good(i) /\ i.phase # "Down" /\ Good(c) /\ c.phase # "Down"
    BY <2>1, <2>2, <1>1, StopsAreGood
  <2>6. ASSUME NEW k, Good(k), k.phase # "Down", NEW asked \in BOOLEAN
        PROVE  Good(EapSendRequest(k, asked))
    <3> DEFINE u == [k EXCEPT !.wantTypes = FALSE, !.chal = AUTH_RETRIES]
    <3>1. k \in Auths
      BY <2>6 DEF Good, Base
    <3>2. /\ u \in Auths /\ SameAccount(k, u) /\ u.phase = k.phase
          /\ u.want = k.want /\ u.timer = k.timer /\ u.retry = k.retry /\ u.thread = k.thread
          /\ u.params = k.params /\ u.answered = k.answered /\ u.overwritten = k.overwritten
          /\ u.ident = k.ident /\ u.req = k.req
          /\ u.respTimer = k.respTimer /\ u.resp = k.resp
      BY <3>1, <1>2 DEF Auths, SameAccount
    <3>3. EapSendRequest(k, asked)
            = IF k.wantTypes \/ asked THEN u ELSE AuthFinish(k, "peer_to_self", FALSE, FALSE)
      BY DEF EapSendRequest
    <3> HIDE DEF u
    <3>4. Good(u)
      BY <2>6, <3>2, AccountIsSame DEF Good, Base, Kept, Timed, Resends
    <3> QED
      BY <2>6, <3>3, <3>4, <1>2, <1>3
  <2>7. ASSUME NEW u \in AuthAsyncStart(c, "EAP") PROVE Good(u)
    BY <2>7, <2>3, <2>5, <1>2, AsyncStartIsGood
  <2> QED
    BY <2>4, <2>5, <2>6, <2>7, <1>1, <1>2, <1>3
<1>7. CASE RecvEapReply
  BY <1>1, <1>2, <1>3, <1>7 DEF RecvEapReply
<1>8. CASE EapRadiusProxy
  <2>1. PICK identity \in BOOLEAN :
          a' \in AuthAsyncStart([a EXCEPT !.ident = @ /\ ~identity, !.req = FALSE], "EAP")
    BY <1>8 DEF EapRadiusProxy
  <2> DEFINE id == a.ident /\ ~identity
             k  == [a EXCEPT !.ident = id, !.req = FALSE]
  <2>0. id \in BOOLEAN /\ (id => a.ident)
    OBVIOUS
  <2>3. a' \in AuthAsyncStart(k, "EAP")
    BY <2>1
  <2> HIDE DEF id
  <2>4. k \in Auths
    BY <2>0, <1>1 DEF Auths
  <2>5. /\ SameAccount(a, k) /\ k.want = a.want /\ k.timer = a.timer /\ k.thread = a.thread
        /\ k.params = a.params /\ k.answered = a.answered /\ k.overwritten = a.overwritten
        /\ k.pap = a.pap /\ k.chal = a.chal /\ k.retry = a.retry
        /\ k.ident = id /\ k.req = FALSE /\ k.respTimer = a.respTimer /\ k.resp = a.resp
    BY <1>1 DEF Auths, SameAccount
  <2> HIDE DEF k
  <2>2. k \in Auths /\ Stops(a, k)
    BY <2>0, <2>4, <2>5, <1>1 DEF Auths, Stops
  <2>6. Good(k) /\ k.phase # "Down"
    BY <2>2, <1>1, StopsAreGood
  <2> QED
    BY <2>3, <2>6, <1>1, <1>2, AsyncStartIsGood
<1> QED
  BY <1>5, <1>6, <1>7, <1>8

\* Timers, and the accounting server's answers.
LEMMA TimersAreGood ==
  ASSUME Good(a), conf \in Confs,
         AuthTimeout \/ PapTimeout \/ ChapChalTimeout \/ ChapRespTimeout
           \/ EapIdentTimeout \/ EapRadiusSendMsgTimeout
           \/ AuthAccountTimeout \/ AuthAccountFinish
  PROVE  Good(a')
<1>1. a \in Auths /\ Base(a)
  BY DEF Good, Base
<1>2. CASE AuthTimeout
  <2>1. a' = LcpAuthResult(AuthStop(a), FALSE, FALSE) /\ a.timer
    BY <1>2 DEF AuthTimeout
  <2>2. a.phase # "Down"
    BY <2>1 DEF Good, Timed
  <2>3. /\ Base(AuthStop(a)) /\ Quiet(AuthStop(a)) /\ ~AuthStop(a).timer
        /\ AuthStop(a).phase # "Down"
    BY <1>1, <2>2, StopIsBase
  <2> QED
    BY <2>1, <2>3, ResultIsGood
<1>3. CASE PapTimeout
  <2>1. a.pap - 1 \in 0 .. AUTH_RETRIES /\ a.phase # "Down" /\ a' = [a EXCEPT !.pap = @ - 1]
    BY <1>1, <1>3 DEF PapTimeout, Good, Quiet, Auths
  <2> QED
    BY <1>1, <2>1 DEF Auths, Good, Base, Accounted, Kept, Timed, Resends
<1>4. CASE ChapChalTimeout
  <2>1. a.chal - 1 \in 0 .. AUTH_RETRIES /\ a.phase # "Down" /\ a' = [a EXCEPT !.chal = @ - 1]
    BY <1>1, <1>4 DEF ChapChalTimeout, Good, Quiet, Auths
  <2> QED
    BY <1>1, <2>1 DEF Auths, Good, Base, Accounted, Kept, Timed, Resends
<1>5. CASE ChapRespTimeout
  <2>1. a' = [a EXCEPT !.respTimer = a.phase = "Authenticate"] /\ a.respTimer
    BY <1>5 DEF ChapRespTimeout, ChapSendResponse
  <2> DEFINE on == a.phase = "Authenticate"
             u  == [a EXCEPT !.respTimer = on]
  <2>2. on \in BOOLEAN
    OBVIOUS
  <2> HIDE DEF on
  <2>3. u \in Auths
    BY <1>1, <2>2 DEF Auths
  <2>4. Stops(a, u)
    BY <1>1, <2>1 DEF Auths, Stops, SameAccount
  <2>5. a' = u
    BY <2>1 DEF on
  <2> HIDE DEF u
  <2> QED
    BY <2>3, <2>4, <2>5, StopsAreGood
<1>6. CASE EapIdentTimeout
  <2>1. a' = [a EXCEPT !.retry = @ - 1, !.ident = a.retry > 1] /\ a.ident
    BY <1>6 DEF EapIdentTimeout
  <2>2. a.retry \in -1 .. AUTH_RETRIES /\ a.retry >= 0 /\ a.phase # "Down"
    BY <1>1, <2>1 DEF Auths, Good, Base, Kept, Quiet
  <2>3. a.retry - 1 \in -1 .. AUTH_RETRIES /\ (a.retry > 1) \in BOOLEAN
    BY <2>2
  <2>4. a' \in Auths
    BY <1>1, <2>1, <2>3 DEF Auths
  <2>5. Kept(a')
    <3>1. /\ a'.respTimer = a.respTimer /\ a'.resp = a.resp /\ a'.answered = a.answered
          /\ a'.params = a.params /\ a'.overwritten = a.overwritten /\ a'.want = a.want
          /\ a'.thread = a.thread /\ a'.req = a.req /\ a'.retry = a.retry - 1
          /\ (a'.ident <=> a.retry > 1)
      BY <1>1, <2>1, <2>3 DEF Auths
    <3>2. Kept(a)
      BY <1>1 DEF Base
    <3> QED
      BY <2>1, <2>2, <3>1, <3>2 DEF Kept
  <2>6. SameAccount(a, a') /\ a'.timer = a.timer /\ a'.req = a.req /\ a'.params = a.params
    BY <1>1, <2>1 DEF Auths, SameAccount
  <2> QED
    BY <2>2, <2>4, <2>5, <2>6, AccountIsSame DEF Good, Base, Timed, Resends, SameAccount
<1>7. CASE EapRadiusSendMsgTimeout
  <2>1. a' = [a EXCEPT !.retry = @ - 1, !.req = a.retry > 1] /\ a.req
    BY <1>7 DEF EapRadiusSendMsgTimeout
  <2>2. a.retry \in -1 .. AUTH_RETRIES /\ a.retry >= 0 /\ a.phase # "Down"
    BY <1>1, <2>1 DEF Auths, Good, Base, Kept, Quiet
  <2>3. a.retry - 1 \in -1 .. AUTH_RETRIES /\ (a.retry > 1) \in BOOLEAN
    BY <2>2
  <2>4. a' \in Auths
    BY <1>1, <2>1, <2>3 DEF Auths
  <2>5. Kept(a')
    <3>1. /\ a'.respTimer = a.respTimer /\ a'.resp = a.resp /\ a'.answered = a.answered
          /\ a'.params = a.params /\ a'.overwritten = a.overwritten /\ a'.want = a.want
          /\ a'.thread = a.thread /\ a'.ident = a.ident /\ a'.retry = a.retry - 1
          /\ (a'.req <=> a.retry > 1)
      BY <1>1, <2>1, <2>3 DEF Auths
    <3>2. Kept(a)
      BY <1>1 DEF Base
    <3> QED
      BY <2>1, <2>2, <3>1, <3>2 DEF Kept
  <2>6. SameAccount(a, a') /\ a'.timer = a.timer /\ a'.params = a.params
    BY <1>1, <2>1 DEF Auths, SameAccount
  <2> QED
    BY <2>1, <2>2, <2>4, <2>5, <2>6, AccountIsSame DEF Good, Base, Timed, Resends, SameAccount
<1>8. CASE AuthAccountTimeout
  <2>1. a.joined /\ a' = AuthAccountStart(a, "update")
    BY <1>1, <1>8 DEF AuthAccountTimeout, Base, Accounted
  <2>2. Base(a') /\ SameAuth(a, a')
    BY <1>1, <2>1, AccountIsBase
  <2> QED
    BY <2>2, AuthIsSame DEF Good, SameAuth
<1>9. CASE AuthAccountFinish
  <2> DEFINE k == [a EXCEPT !.acct = "none", !.owed = @ /\ a.acct # "stop"]
  <2>1. a' = k \/ a' = LeavePhase(k)
    BY <1>9 DEF AuthAccountFinish
  <2>2. /\ k \in Auths /\ SameAuth(a, k) /\ k.joined = a.joined /\ k.acct = "none"
        /\ k.acct_timer = a.acct_timer /\ (k.owed <=> a.owed /\ a.acct # "stop")
        /\ k.lost = a.lost
    BY <1>1, ZenonT(60) DEF Auths, SameAuth
  <2> HIDE DEF k
  <2>3. Accounted(k)
    BY <1>1, <2>2 DEF Base, Accounted, SameAuth
  <2>4. Good(k)
    BY <2>2, <2>3, AuthIsSame DEF Good, Base, SameAuth
  <2>5. Good(LeavePhase(k))
    BY <2>4, LeaveIsGood DEF Good
  <2> QED
    BY <2>1, <2>4, <2>5
<1> QED
  BY <1>2, <1>3, <1>4, <1>5, <1>6, <1>7, <1>8, <1>9

----------------------------------------------------------------------------
(* The specification. *)

LEMMA InitIInv == Init => IInv
<1> SUFFICES ASSUME Init PROVE IInv
  OBVIOUS
<1>1. conf \in Confs /\ resources \in BOOLEAN
  BY DEF Init, Confs
<1>2. 0 \in 0 .. AUTH_RETRIES /\ 0 \in -1 .. AUTH_RETRIES
  OBVIOUS
<1>3. a \in Auths
  BY <1>2 DEF Init, Auths, Protos, Algs, Params, NoParams
<1>4. Good(a)
  BY <1>3 DEF Init, Good, Base, Accounted, Kept, Timed, Resends, Quiet
<1> QED
  BY <1>1, <1>4 DEF IInv

LEMMA NextIInv == IInv /\ [Next]_vars => IInv'
<1> SUFFICES ASSUME IInv, [Next]_vars PROVE IInv'
  OBVIOUS
<1> USE DEF IInv
<1>1. conf' = conf /\ resources' \in BOOLEAN
  BY DEF Next, vars, AuthStart, Leave, AuthAsyncFinish, PapRequest, PapReply,
         RecvChapChallenge, RecvChapResponse, RecvChapReply, RecvChapChangePw,
         RecvEapRequest, RecvEapResponse, RecvEapReply, EapRadiusProxy,
         AuthTimeout, PapTimeout, ChapChalTimeout, ChapRespTimeout, EapIdentTimeout,
         EapRadiusSendMsgTimeout, AuthAccountTimeout, AuthAccountFinish, ResourcesChange
<1>2. Good(a')
  <2>1. CASE AuthStart
    BY <2>1, StartIsGood
  <2>2. CASE Leave
    BY <2>2, LeaveIsGood DEF Leave, Good
  <2>3. CASE AuthAsyncFinish
    BY <2>3, AsyncFinishIsGood
  <2>4. CASE PapRequest \/ PapReply \/ RecvChapChallenge \/ RecvChapResponse
               \/ RecvChapReply \/ RecvChapChangePw
    BY <2>4, PapAndChapAreGood
  <2>5. CASE RecvEapRequest \/ RecvEapResponse \/ RecvEapReply \/ EapRadiusProxy
    BY <2>5, EapIsGood
  <2>6. CASE AuthTimeout \/ PapTimeout \/ ChapChalTimeout \/ ChapRespTimeout
               \/ EapIdentTimeout \/ EapRadiusSendMsgTimeout
               \/ AuthAccountTimeout \/ AuthAccountFinish
    BY <2>6, TimersAreGood
  <2>7. CASE ResourcesChange \/ UNCHANGED vars
    BY <2>7 DEF ResourcesChange, vars
  <2> QED
    BY <2>1, <2>2, <2>3, <2>4, <2>5, <2>6, <2>7 DEF Next
<1> QED
  BY <1>1, <1>2 DEF Good, Base, Accounted, Kept

LEMMA IInvHolds == Spec => []IInv
<1> QED
  BY InitIInv, NextIInv, PTL DEF Spec

\* Every variable keeps its type; in particular the count of retries that two timers of
\* EAP share never leaves its range (eap.c).
THEOREM TypeCorrect == Spec => []TypeOK
<1>1. IInv => TypeOK
  BY DEF IInv, Good, Base, TypeOK, Auths, Confs
<1> QED
  BY <1>1, IInvHolds, PTL

\* Nothing of an authentication outlives it, whatever packets, timers and late results
\* arrive, and what a timer resends or MPPE needs is there (chap.c:ChapSendResponse(),
\* eap.c:EapRadiusSendMsg()).
THEOREM StateFollows == Spec => []StateFollowsPhase
<1>1. IInv => StateFollowsPhase
  BY DEF IInv, Good, Base, Kept, Timed, Resends, Quiet, StateFollowsPhase
<1> QED
  BY <1>1, IInvHolds, PTL

\* Updates belong to a session, and no session that was announced to the accounting
\* server stays open there once accounting is at rest (auth.c:AuthAccountStart()).
THEOREM AccountingFollows == Spec => []AccountingFollowsSession
<1>1. IInv => AccountingFollowsSession
  BY DEF IInv, Good, Base, Accounted, AccountingFollowsSession
<1> QED
  BY <1>1, IInvHolds, PTL

----------------------------------------------------------------------------
(* The threads that authentication and accounting run in (Paction): for    *)
(* any number of actions and of references, the reference is valid, the    *)
(* outcome is settled when the finisher runs, and paction_cleanup() is     *)
(* never disturbed.  The invariant says what each of the two unlocked      *)
(* fields can be at each place.                                            *)

Early == {"new", "begin"}
Over  == {"new", "finish", "gone"}
Late  == {"test", "cleanup", "try", "sleep", "finish", "gone"}

\* paction_cancel() has marked x and is about to look at may_cancel.
Signaled(x) == call.op = "signal" /\ call.act = x

\* What the user refers to refers back.
Refs ==
  \A s \in Slots, x \in Actions : ref[s] = x => action[x].actionp = s

\* An action with an actionp is alive, not canceled, and its reference is set, unless
\* paction_start() has still to set it.
BackRefs ==
  \A s \in Slots, x \in Actions :
    action[x].actionp = s =>
      /\ action[x].pc \notin Over /\ ~action[x].canceled
      /\ ref[s] = x \/ (call.op = "start" /\ call.slot = s /\ call.act = x)

\* What the call in progress has read still holds, and the user mutex is held.
Calls ==
  /\ call.op = "start" => action[call.act].actionp = call.slot /\ ref[call.slot] = None
  /\ call.op = "lock" => ref[call.slot] = call.act
  /\ call.op = "signal" => action[call.act].canceled
  /\ call.op # "none" => gGiantMutex # None

\* Who holds the mutex of an action follows from where the two sides are.
Mutexes ==
  \A x \in Actions :
    /\ mutex[x] = "thread" <=> action[x].pc = "try"
    /\ mutex[x] = "cancel" <=> Signaled(x)

\* The user mutex is held by an action's thread exactly while its uncanceled finisher runs.
Holder ==
  \A x \in Actions :
    /\ action[x].pc = "finish" => (gGiantMutex = x <=> ~action[x].canceled)
    /\ gGiantMutex = x => action[x].pc = "finish"

\* A pthread_cancel() is pending before paction_cleanup() only; a thread that is past
\* its handler with may_cancel set was canceled there, and signaled already.
Cancellations ==
  \A x \in Actions :
    /\ action[x].pc \in Early => ~action[x].may_cancel /\ ~action[x].pending
    /\ action[x].pending =>
         action[x].pc \in {"check", "handler", "done", "test"} /\ action[x].canceled
           /\ ~Signaled(x)
    /\ action[x].pc \in Late /\ action[x].may_cancel => action[x].canceled /\ ~Signaled(x)

PactionInv == PactionTypeOK /\ Refs /\ BackRefs /\ Calls /\ Mutexes /\ Holder /\ Cancellations

----------------------------------------------------------------------------
(* One lemma for each action. *)

\* What a struct paction and the place of its thread can be.
Struct == [pc : Pcs, may_cancel : BOOLEAN, canceled : BOOLEAN, pending : BOOLEAN,
           actionp : Slots \cup {None}]

\* The action of a thread is a struct.
LEMMA ActionTyped ==
  ASSUME PactionTypeOK, NEW x \in Actions
  PROVE  action \in [Actions -> Struct] /\ action[x] \in Struct
<1>1. action \in [Actions -> Struct]
  BY DEF PactionTypeOK, Struct
<1>2. QED
  BY <1>1

\* A step that replaces one struct by another keeps the type.
LEMMA ActionUpdated ==
  ASSUME PactionTypeOK, NEW x \in Actions, NEW r \in Struct, action' = [action EXCEPT ![x] = r]
  PROVE  action' \in [Actions -> Struct]
  BY ActionTyped

\* The names of the places in a thread.
LEMMA EveryPc ==
  /\ "begin" \in Pcs /\ "check" \in Pcs /\ "handler" \in Pcs /\ "done" \in Pcs
  /\ "test" \in Pcs /\ "cleanup" \in Pcs /\ "try" \in Pcs /\ "sleep" \in Pcs
  /\ "finish" \in Pcs /\ "gone" \in Pcs
  BY DEF Pcs

\* A call in progress has a slot and an action.
LEMMA CallInProgress ==
  ASSUME PactionTypeOK, call.op # "none"
  PROVE  call \in [op : {"start", "lock", "signal"}, slot : Slots, act : Actions]
  BY DEF PactionTypeOK, NoCall

\* The event loop takes the user mutex.
LEMMA AcquireKeeps ==
  ASSUME PactionInv, Acquire PROVE PactionInv'
<1>1. PactionTypeOK'
  BY EveryPc DEF PactionInv, PactionTypeOK, Acquire
<1>2. Refs'
  BY DEF PactionInv, PactionTypeOK, Refs, Acquire
<1>3. BackRefs'
  BY DEF PactionInv, PactionTypeOK, BackRefs, Over, Acquire
<1>4. Calls'
  BY DEF PactionInv, PactionTypeOK, Calls, Acquire, NoCall
<1>5. Mutexes'
  BY DEF PactionInv, PactionTypeOK, Mutexes, Signaled, Acquire, NoCall
<1>6. Holder'
  BY PactionAssumption DEF PactionInv, PactionTypeOK, Holder, Acquire
<1>7. Cancellations'
  BY DEF PactionInv, PactionTypeOK, Cancellations, Early, Late, Signaled, Acquire, NoCall
<1>8. QED
  BY <1>1, <1>2, <1>3, <1>4, <1>5, <1>6, <1>7 DEF PactionInv

\* The event loop gives it back.
LEMMA ReleaseKeeps ==
  ASSUME PactionInv, Release PROVE PactionInv'
<1>1. PactionTypeOK'
  BY EveryPc DEF PactionInv, PactionTypeOK, Release
<1>2. Refs'
  BY DEF PactionInv, PactionTypeOK, Refs, Release, NoCall
<1>3. BackRefs'
  BY DEF PactionInv, PactionTypeOK, BackRefs, Over, Release, NoCall
<1>4. Calls'
  BY DEF PactionInv, PactionTypeOK, Calls, Release, NoCall
<1>5. Mutexes'
  BY DEF PactionInv, PactionTypeOK, Mutexes, Signaled, Release, NoCall
<1>6. Holder'
  BY PactionAssumption DEF PactionInv, PactionTypeOK, Holder, Release, NoCall
<1>7. Cancellations'
  BY DEF PactionInv, PactionTypeOK, Cancellations, Early, Late, Signaled, Release, NoCall
<1>8. QED
  BY <1>1, <1>2, <1>3, <1>4, <1>5, <1>6, <1>7 DEF PactionInv

\* paction_start() has created the thread.
LEMMA StartThreadKeeps ==
  ASSUME PactionInv, NEW s \in Slots, NEW x \in Actions, StartThread(s, x) PROVE PactionInv'
<1>1. PactionTypeOK'
  <2> DEFINE r == [action[x] EXCEPT !.pc = "begin", !.actionp = s]
  <2>1. r \in Struct
    BY EveryPc, ActionTyped DEF PactionInv, Struct
  <2>2. action' = [action EXCEPT ![x] = r]
    BY ActionTyped DEF PactionInv, StartThread
  <2> HIDE DEF r
  <2>3. action' \in [Actions -> Struct]
    BY <2>1, <2>2, ActionUpdated DEF PactionInv
  <2>4. QED
    BY <2>3 DEF PactionInv, PactionTypeOK, Struct, StartThread, UserRuns
<1>2. Refs'
  BY DEF PactionInv, PactionTypeOK, Refs, StartThread, UserRuns, NoCall
<1>3. BackRefs'
  BY DEF PactionInv, PactionTypeOK, BackRefs, Over, StartThread, UserRuns, NoCall
<1>4. Calls'
  BY PactionAssumption DEF PactionInv, PactionTypeOK, Calls, StartThread, UserRuns, NoCall
<1>5. Mutexes'
  BY DEF PactionInv, PactionTypeOK, Mutexes, Signaled, StartThread, UserRuns, NoCall
<1>6. Holder'
  BY DEF PactionInv, PactionTypeOK, Holder, StartThread, UserRuns, NoCall
<1>7. Cancellations'
  BY DEF PactionInv, PactionTypeOK, Cancellations, Early, Late, Signaled, StartThread, UserRuns, NoCall
<1>8. QED
  BY <1>1, <1>2, <1>3, <1>4, <1>5, <1>6, <1>7 DEF PactionInv

\* paction_start() sets the reference; the thread cannot have finished, for it
\* needs the user mutex.
LEMMA StartReturnsKeeps ==
  ASSUME PactionInv, StartReturns PROVE PactionInv'
<1>1. PactionTypeOK'
  BY EveryPc, CallInProgress DEF PactionInv, PactionTypeOK, StartReturns
<1>2. Refs'
  BY DEF PactionInv, PactionTypeOK, Refs, Calls, StartReturns, NoCall
<1>3. BackRefs'
  BY PactionAssumption DEF PactionInv, PactionTypeOK, BackRefs, Calls, Over, StartReturns, NoCall
<1>4. Calls'
  BY DEF PactionInv, PactionTypeOK, Calls, StartReturns, NoCall
<1>5. Mutexes'
  BY DEF PactionInv, PactionTypeOK, Mutexes, Signaled, StartReturns, NoCall
<1>6. Holder'
  BY DEF PactionInv, PactionTypeOK, Holder, StartReturns, NoCall
<1>7. Cancellations'
  BY DEF PactionInv, PactionTypeOK, Cancellations, Early, Late, Signaled, StartReturns, NoCall
<1>8. QED
  BY <1>1, <1>2, <1>3, <1>4, <1>5, <1>6, <1>7 DEF PactionInv

\* paction_cancel() reads the reference.
LEMMA CancelCallKeeps ==
  ASSUME PactionInv, NEW s \in Slots, CancelCall(s) PROVE PactionInv'
<1>1. PactionTypeOK'
  BY EveryPc DEF PactionInv, PactionTypeOK, CancelCall, UserRuns
<1>2. Refs'
  BY DEF PactionInv, PactionTypeOK, Refs, CancelCall, UserRuns, NoCall
<1>3. BackRefs'
  BY DEF PactionInv, PactionTypeOK, BackRefs, Over, CancelCall, UserRuns, NoCall
<1>4. Calls'
  BY PactionAssumption DEF PactionInv, PactionTypeOK, Calls, CancelCall, UserRuns, NoCall
<1>5. Mutexes'
  BY DEF PactionInv, PactionTypeOK, Mutexes, Signaled, CancelCall, UserRuns, NoCall
<1>6. Holder'
  BY DEF PactionInv, PactionTypeOK, Holder, CancelCall, UserRuns, NoCall
<1>7. Cancellations'
  BY DEF PactionInv, PactionTypeOK, Cancellations, Early, Late, Signaled, CancelCall, UserRuns, NoCall
<1>8. QED
  BY <1>1, <1>2, <1>3, <1>4, <1>5, <1>6, <1>7 DEF PactionInv

\* paction_cancel() locks the action and marks it; the reference it had read is
\* still valid.
LEMMA CancelLockKeeps ==
  ASSUME PactionInv, CancelLock PROVE PactionInv'
<1>1. PactionTypeOK'
  <2>1. call \in [op : {"start", "lock", "signal"}, slot : Slots, act : Actions]
    BY CallInProgress DEF PactionInv, CancelLock
  <2> DEFINE marked == [action[call.act] EXCEPT !.canceled = TRUE, !.actionp = None]
  <2>2. action' \in [Actions -> Struct]
    <3>1. call.act \in Actions
      BY <2>1
    <3>2. action[call.act] \in Struct
      BY <3>1, ActionTyped DEF PactionInv
    <3>3. marked \in Struct
      BY <3>2 DEF Struct
    <3>4. action' = [action EXCEPT ![call.act] = marked]
      BY <3>1, ActionTyped DEF PactionInv, CancelLock
    <3> HIDE DEF marked
    <3>5. QED
      BY <3>1, <3>3, <3>4, ActionUpdated DEF PactionInv
  <2>3. QED
    BY <2>1, <2>2 DEF PactionInv, PactionTypeOK, Struct, CancelLock
<1>2. Refs'
  BY PactionAssumption DEF PactionInv, PactionTypeOK, Refs, CancelLock
<1>3. BackRefs'
  BY PactionAssumption DEF PactionInv, PactionTypeOK, BackRefs, Calls, Over, CancelLock, NoCall
<1>4. Calls'
  BY DEF PactionInv, PactionTypeOK, Calls, CancelLock, NoCall
<1>5. Mutexes'
  BY DEF PactionInv, PactionTypeOK, Mutexes, Signaled, CancelLock, NoCall
<1>6. Holder'
  BY PactionAssumption DEF PactionInv, PactionTypeOK, Holder, Calls, Refs, CancelLock, NoCall
<1>7. Cancellations'
  BY PactionAssumption DEF PactionInv, PactionTypeOK, Cancellations, Calls, Refs, Early, Late, Signaled,
     CancelLock, NoCall
<1>8. QED
  BY <1>1, <1>2, <1>3, <1>4, <1>5, <1>6, <1>7 DEF PactionInv

\* paction_cancel() signals the thread if it may; a thread in its cleanup holds no
\* may_cancel.
LEMMA CancelSignalKeeps ==
  ASSUME PactionInv, CancelSignal PROVE PactionInv'
<1>1. PactionTypeOK'
  <2>1. call \in [op : {"start", "lock", "signal"}, slot : Slots, act : Actions]
    BY CallInProgress DEF PactionInv, CancelSignal
  <2>2. PICK seen \in BOOLEAN :
               action' = [action EXCEPT ![call.act].pending = @ \/ seen]
    BY DEF CancelSignal
  <2> DEFINE signaled == [action[call.act] EXCEPT !.pending = @ \/ seen]
  <2>3. action' \in [Actions -> Struct]
    <3>1. call.act \in Actions
      BY <2>1
    <3>2. action[call.act] \in Struct
      BY <3>1, ActionTyped DEF PactionInv
    <3>3. signaled \in Struct
      BY <3>2 DEF Struct
    <3>4. action' = [action EXCEPT ![call.act] = signaled]
      BY <2>2, <3>1, ActionTyped DEF PactionInv
    <3> HIDE DEF signaled
    <3>5. QED
      BY <3>1, <3>3, <3>4, ActionUpdated DEF PactionInv
  <2>4. QED
    BY <2>1, <2>3 DEF PactionInv, PactionTypeOK, Struct, CancelSignal
<1>2. Refs'
  BY DEF PactionInv, PactionTypeOK, Refs, CancelSignal, NoCall
<1>3. BackRefs'
  BY DEF PactionInv, PactionTypeOK, BackRefs, Over, CancelSignal, NoCall
<1>4. Calls'
  BY DEF PactionInv, PactionTypeOK, Calls, CancelSignal, NoCall
<1>5. Mutexes'
  BY DEF PactionInv, PactionTypeOK, Mutexes, Signaled, CancelSignal, NoCall
<1>6. Holder'
  BY DEF PactionInv, PactionTypeOK, Holder, CancelSignal, NoCall
<1>7. Cancellations'
  BY PactionAssumption DEF PactionInv, PactionTypeOK, Refs, BackRefs, Calls, Mutexes, Holder,
     Cancellations,
     Signaled, Early, Over, Late, CancelSignal, NoCall, Pcs
<1>8. QED
  BY <1>1, <1>2, <1>3, <1>4, <1>5, <1>6, <1>7 DEF PactionInv

\* paction_main() sets may_cancel.
LEMMA AllowCancelKeeps ==
  ASSUME PactionInv, NEW x \in Actions, AllowCancel(x) PROVE PactionInv'
<1>1. PactionTypeOK'
  <2> DEFINE r == [action[x] EXCEPT !.pc = "check", !.may_cancel = TRUE]
  <2>1. r \in Struct
    BY EveryPc, ActionTyped DEF PactionInv, Struct
  <2>2. action' = [action EXCEPT ![x] = r]
    BY ActionTyped DEF PactionInv, AllowCancel
  <2> HIDE DEF r
  <2>3. action' \in [Actions -> Struct]
    BY <2>1, <2>2, ActionUpdated DEF PactionInv
  <2>4. QED
    BY <2>3 DEF PactionInv, PactionTypeOK, Struct, AllowCancel, Shared
<1>2. Refs'
  BY DEF PactionInv, PactionTypeOK, Refs, AllowCancel, Shared
<1>3. BackRefs'
  BY DEF PactionInv, PactionTypeOK, BackRefs, Over, AllowCancel, Shared
<1>4. Calls'
  BY DEF PactionInv, PactionTypeOK, Calls, AllowCancel, Shared, NoCall
<1>5. Mutexes'
  BY DEF PactionInv, PactionTypeOK, Mutexes, Signaled, AllowCancel, Shared, NoCall
<1>6. Holder'
  BY DEF PactionInv, PactionTypeOK, Holder, AllowCancel, Shared
<1>7. Cancellations'
  BY DEF PactionInv, PactionTypeOK, Cancellations, Early, Late, Signaled, AllowCancel, Shared, NoCall
<1>8. QED
  BY <1>1, <1>2, <1>3, <1>4, <1>5, <1>6, <1>7 DEF PactionInv

\* paction_main() looks at canceled.
LEMMA CheckCanceledKeeps ==
  ASSUME PactionInv, NEW x \in Actions, CheckCanceled(x) PROVE PactionInv'
<1>1. PactionTypeOK'
  BY EveryPc DEF PactionInv, PactionTypeOK, CheckCanceled, Goto, Shared
<1>2. Refs'
  BY DEF PactionInv, PactionTypeOK, Refs, CheckCanceled, Goto, Shared
<1>3. BackRefs'
  BY DEF PactionInv, PactionTypeOK, BackRefs, Over, CheckCanceled, Goto, Shared
<1>4. Calls'
  BY DEF PactionInv, PactionTypeOK, Calls, CheckCanceled, Goto, Shared, NoCall
<1>5. Mutexes'
  BY DEF PactionInv, PactionTypeOK, Mutexes, Signaled, CheckCanceled, Goto, Shared, NoCall
<1>6. Holder'
  BY DEF PactionInv, PactionTypeOK, Holder, CheckCanceled, Goto, Shared
<1>7. Cancellations'
  BY DEF PactionInv, PactionTypeOK, Cancellations, Early, Late, Signaled, CheckCanceled, Goto, Shared,
     NoCall
<1>8. QED
  BY <1>1, <1>2, <1>3, <1>4, <1>5, <1>6, <1>7 DEF PactionInv

\* The handler returns.
LEMMA HandlerReturnsKeeps ==
  ASSUME PactionInv, NEW x \in Actions, HandlerReturns(x) PROVE PactionInv'
<1>1. PactionTypeOK'
  BY EveryPc DEF PactionInv, PactionTypeOK, HandlerReturns, Goto, Shared
<1>2. Refs'
  BY DEF PactionInv, PactionTypeOK, Refs, HandlerReturns, Goto, Shared
<1>3. BackRefs'
  BY DEF PactionInv, PactionTypeOK, BackRefs, Over, HandlerReturns, Goto, Shared
<1>4. Calls'
  BY DEF PactionInv, PactionTypeOK, Calls, HandlerReturns, Goto, Shared, NoCall
<1>5. Mutexes'
  BY DEF PactionInv, PactionTypeOK, Mutexes, Signaled, HandlerReturns, Goto, Shared, NoCall
<1>6. Holder'
  BY DEF PactionInv, PactionTypeOK, Holder, HandlerReturns, Goto, Shared
<1>7. Cancellations'
  BY DEF PactionInv, PactionTypeOK, Cancellations, Early, Late, Signaled, HandlerReturns, Goto, Shared,
     NoCall
<1>8. QED
  BY <1>1, <1>2, <1>3, <1>4, <1>5, <1>6, <1>7 DEF PactionInv

\* A cancellation ends the handler.
LEMMA CanceledInHandlerKeeps ==
  ASSUME PactionInv, NEW x \in Actions, CanceledInHandler(x) PROVE PactionInv'
<1>1. PactionTypeOK'
  <2> DEFINE r == [action[x] EXCEPT !.pc = "cleanup", !.pending = FALSE]
  <2>1. r \in Struct
    BY EveryPc, ActionTyped DEF PactionInv, Struct
  <2>2. action' = [action EXCEPT ![x] = r]
    BY ActionTyped DEF PactionInv, CanceledInHandler
  <2> HIDE DEF r
  <2>3. action' \in [Actions -> Struct]
    BY <2>1, <2>2, ActionUpdated DEF PactionInv
  <2>4. QED
    BY <2>3 DEF PactionInv, PactionTypeOK, Struct, CanceledInHandler, Shared
<1>2. Refs'
  BY DEF PactionInv, PactionTypeOK, Refs, CanceledInHandler, Shared
<1>3. BackRefs'
  BY DEF PactionInv, PactionTypeOK, BackRefs, Over, CanceledInHandler, Shared
<1>4. Calls'
  BY DEF PactionInv, PactionTypeOK, Calls, CanceledInHandler, Shared, NoCall
<1>5. Mutexes'
  BY DEF PactionInv, PactionTypeOK, Mutexes, Signaled, CanceledInHandler, Shared, NoCall
<1>6. Holder'
  BY DEF PactionInv, PactionTypeOK, Holder, CanceledInHandler, Shared
<1>7. Cancellations'
  BY DEF PactionInv, PactionTypeOK, Cancellations, Early, Late, Signaled, CanceledInHandler, Shared,
     NoCall
<1>8. QED
  BY <1>1, <1>2, <1>3, <1>4, <1>5, <1>6, <1>7 DEF PactionInv

\* paction_main() clears may_cancel under the mutex, so not between the mark and
\* the signal.
LEMMA ForbidCancelKeeps ==
  ASSUME PactionInv, NEW x \in Actions, ForbidCancel(x) PROVE PactionInv'
<1>1. PactionTypeOK'
  <2> DEFINE r == [action[x] EXCEPT !.pc = "test", !.may_cancel = FALSE]
  <2>1. r \in Struct
    BY EveryPc, ActionTyped DEF PactionInv, Struct
  <2>2. action' = [action EXCEPT ![x] = r]
    BY ActionTyped DEF PactionInv, ForbidCancel
  <2> HIDE DEF r
  <2>3. action' \in [Actions -> Struct]
    BY <2>1, <2>2, ActionUpdated DEF PactionInv
  <2>4. QED
    BY <2>3 DEF PactionInv, PactionTypeOK, Struct, ForbidCancel, Shared
<1>2. Refs'
  BY DEF PactionInv, PactionTypeOK, Refs, ForbidCancel, Shared
<1>3. BackRefs'
  BY DEF PactionInv, PactionTypeOK, BackRefs, Over, ForbidCancel, Shared
<1>4. Calls'
  BY DEF PactionInv, PactionTypeOK, Calls, ForbidCancel, Shared, NoCall
<1>5. Mutexes'
  BY DEF PactionInv, PactionTypeOK, Mutexes, Signaled, ForbidCancel, Shared, NoCall
<1>6. Holder'
  BY DEF PactionInv, PactionTypeOK, Holder, ForbidCancel, Shared
<1>7. Cancellations'
  BY DEF PactionInv, PactionTypeOK, Cancellations, Early, Late, Signaled, ForbidCancel, Shared, NoCall
<1>8. QED
  BY <1>1, <1>2, <1>3, <1>4, <1>5, <1>6, <1>7 DEF PactionInv

\* paction_main() consumes what is pending.
LEMMA TestCancelKeeps ==
  ASSUME PactionInv, NEW x \in Actions, TestCancel(x) PROVE PactionInv'
<1>1. PactionTypeOK'
  <2> DEFINE r == [action[x] EXCEPT !.pc = "cleanup", !.pending = FALSE]
  <2>1. r \in Struct
    BY EveryPc, ActionTyped DEF PactionInv, Struct
  <2>2. action' = [action EXCEPT ![x] = r]
    BY ActionTyped DEF PactionInv, TestCancel
  <2> HIDE DEF r
  <2>3. action' \in [Actions -> Struct]
    BY <2>1, <2>2, ActionUpdated DEF PactionInv
  <2>4. QED
    BY <2>3 DEF PactionInv, PactionTypeOK, Struct, TestCancel, Shared
<1>2. Refs'
  BY DEF PactionInv, PactionTypeOK, Refs, TestCancel, Shared
<1>3. BackRefs'
  BY DEF PactionInv, PactionTypeOK, BackRefs, Over, TestCancel, Shared
<1>4. Calls'
  BY DEF PactionInv, PactionTypeOK, Calls, TestCancel, Shared, NoCall
<1>5. Mutexes'
  BY DEF PactionInv, PactionTypeOK, Mutexes, Signaled, TestCancel, Shared, NoCall
<1>6. Holder'
  BY DEF PactionInv, PactionTypeOK, Holder, TestCancel, Shared
<1>7. Cancellations'
  BY DEF PactionInv, PactionTypeOK, Cancellations, Early, Late, Signaled, TestCancel, Shared, NoCall
<1>8. QED
  BY <1>1, <1>2, <1>3, <1>4, <1>5, <1>6, <1>7 DEF PactionInv

\* paction_cleanup() locks the action.
LEMMA LockActionKeeps ==
  ASSUME PactionInv, NEW x \in Actions, LockAction(x) PROVE PactionInv'
<1>1. PactionTypeOK'
  BY EveryPc DEF PactionInv, PactionTypeOK, LockAction, Goto
<1>2. Refs'
  BY DEF PactionInv, PactionTypeOK, Refs, LockAction, Goto
<1>3. BackRefs'
  BY DEF PactionInv, PactionTypeOK, BackRefs, Over, LockAction, Goto
<1>4. Calls'
  BY DEF PactionInv, PactionTypeOK, Calls, LockAction, Goto, NoCall
<1>5. Mutexes'
  BY DEF PactionInv, PactionTypeOK, Mutexes, Signaled, LockAction, Goto, NoCall
<1>6. Holder'
  BY DEF PactionInv, PactionTypeOK, Holder, LockAction, Goto
<1>7. Cancellations'
  BY DEF PactionInv, PactionTypeOK, Cancellations, Early, Late, Signaled, LockAction, Goto, NoCall
<1>8. QED
  BY <1>1, <1>2, <1>3, <1>4, <1>5, <1>6, <1>7 DEF PactionInv

\* paction_cleanup() finds the action canceled.
LEMMA FoundCanceledKeeps ==
  ASSUME PactionInv, NEW x \in Actions, FoundCanceled(x) PROVE PactionInv'
<1>1. PactionTypeOK'
  BY EveryPc DEF PactionInv, PactionTypeOK, FoundCanceled, Goto, Unlock
<1>2. Refs'
  BY DEF PactionInv, PactionTypeOK, Refs, FoundCanceled, Goto, Unlock
<1>3. BackRefs'
  BY DEF PactionInv, PactionTypeOK, BackRefs, Over, FoundCanceled, Goto, Unlock
<1>4. Calls'
  BY DEF PactionInv, PactionTypeOK, Calls, FoundCanceled, Goto, Unlock, NoCall
<1>5. Mutexes'
  BY DEF PactionInv, PactionTypeOK, Mutexes, Signaled, FoundCanceled, Goto, Unlock, NoCall
<1>6. Holder'
  BY DEF PactionInv, PactionTypeOK, Holder, FoundCanceled, Goto, Unlock
<1>7. Cancellations'
  BY DEF PactionInv, PactionTypeOK, Cancellations, Early, Late, Signaled, FoundCanceled, Goto, Unlock,
     NoCall
<1>8. QED
  BY <1>1, <1>2, <1>3, <1>4, <1>5, <1>6, <1>7 DEF PactionInv

\* paction_cleanup() gets the user mutex, so no call is in progress.
LEMMA GotUserMutexKeeps ==
  ASSUME PactionInv, NEW x \in Actions, GotUserMutex(x) PROVE PactionInv'
<1>1. PactionTypeOK'
  <2> DEFINE r == [action[x] EXCEPT !.pc = "finish", !.actionp = None]
  <2>1. r \in Struct
    BY EveryPc, ActionTyped DEF PactionInv, Struct
  <2>2. action' = [action EXCEPT ![x] = r]
    BY ActionTyped DEF PactionInv, GotUserMutex
  <2> HIDE DEF r
  <2>3. action' \in [Actions -> Struct]
    BY <2>1, <2>2, ActionUpdated DEF PactionInv
  <2>4. QED
    BY <2>3 DEF PactionInv, PactionTypeOK, Struct, GotUserMutex, Unlock
<1>2. Refs'
  BY PactionAssumption DEF PactionInv, PactionTypeOK, Refs, GotUserMutex, Unlock
<1>3. BackRefs'
  BY PactionAssumption DEF PactionInv, PactionTypeOK, BackRefs, Over, GotUserMutex, Unlock
<1>4. Calls'
  BY DEF PactionInv, PactionTypeOK, Calls, GotUserMutex, Unlock, NoCall
<1>5. Mutexes'
  BY DEF PactionInv, PactionTypeOK, Mutexes, Signaled, GotUserMutex, Unlock, NoCall
<1>6. Holder'
  BY PactionAssumption DEF PactionInv, PactionTypeOK, Holder, GotUserMutex, Unlock
<1>7. Cancellations'
  BY DEF PactionInv, PactionTypeOK, Cancellations, Early, Late, Signaled, GotUserMutex, Unlock, NoCall
<1>8. QED
  BY <1>1, <1>2, <1>3, <1>4, <1>5, <1>6, <1>7 DEF PactionInv

\* paction_cleanup() finds it busy.
LEMMA UserMutexBusyKeeps ==
  ASSUME PactionInv, NEW x \in Actions, UserMutexBusy(x) PROVE PactionInv'
<1>1. PactionTypeOK'
  BY EveryPc DEF PactionInv, PactionTypeOK, UserMutexBusy, Goto, Unlock
<1>2. Refs'
  BY DEF PactionInv, PactionTypeOK, Refs, UserMutexBusy, Goto, Unlock
<1>3. BackRefs'
  BY DEF PactionInv, PactionTypeOK, BackRefs, Over, UserMutexBusy, Goto, Unlock
<1>4. Calls'
  BY DEF PactionInv, PactionTypeOK, Calls, UserMutexBusy, Goto, Unlock, NoCall
<1>5. Mutexes'
  BY DEF PactionInv, PactionTypeOK, Mutexes, Signaled, UserMutexBusy, Goto, Unlock, NoCall
<1>6. Holder'
  BY DEF PactionInv, PactionTypeOK, Holder, UserMutexBusy, Goto, Unlock
<1>7. Cancellations'
  BY DEF PactionInv, PactionTypeOK, Cancellations, Early, Late, Signaled, UserMutexBusy, Goto, Unlock,
     NoCall
<1>8. QED
  BY <1>1, <1>2, <1>3, <1>4, <1>5, <1>6, <1>7 DEF PactionInv

\* paction_cleanup() tries again.
LEMMA WakeKeeps ==
  ASSUME PactionInv, NEW x \in Actions, Wake(x) PROVE PactionInv'
<1>1. PactionTypeOK'
  BY EveryPc DEF PactionInv, PactionTypeOK, Wake, Goto, Shared
<1>2. Refs'
  BY DEF PactionInv, PactionTypeOK, Refs, Wake, Goto, Shared
<1>3. BackRefs'
  BY DEF PactionInv, PactionTypeOK, BackRefs, Over, Wake, Goto, Shared
<1>4. Calls'
  BY DEF PactionInv, PactionTypeOK, Calls, Wake, Goto, Shared, NoCall
<1>5. Mutexes'
  BY DEF PactionInv, PactionTypeOK, Mutexes, Signaled, Wake, Goto, Shared, NoCall
<1>6. Holder'
  BY DEF PactionInv, PactionTypeOK, Holder, Wake, Goto, Shared
<1>7. Cancellations'
  BY DEF PactionInv, PactionTypeOK, Cancellations, Early, Late, Signaled, Wake, Goto, Shared, NoCall
<1>8. QED
  BY <1>1, <1>2, <1>3, <1>4, <1>5, <1>6, <1>7 DEF PactionInv

\* The finisher returns and the action is freed.
LEMMA FinishedKeeps ==
  ASSUME PactionInv, NEW x \in Actions, FinisherReturns(x) PROVE PactionInv'
<1>1. PactionTypeOK'
  BY EveryPc DEF PactionInv, PactionTypeOK, FinisherReturns, Goto
<1>2. Refs'
  BY DEF PactionInv, PactionTypeOK, Refs, FinisherReturns, Goto, NoCall
<1>3. BackRefs'
  BY DEF PactionInv, PactionTypeOK, BackRefs, Over, FinisherReturns, Goto, NoCall
<1>4. Calls'
  BY DEF PactionInv, PactionTypeOK, Calls, FinisherReturns, Goto, NoCall
<1>5. Mutexes'
  BY DEF PactionInv, PactionTypeOK, Mutexes, Signaled, FinisherReturns, Goto, NoCall
<1>6. Holder'
  BY PactionAssumption DEF PactionInv, PactionTypeOK, Holder, FinisherReturns, Goto, NoCall
<1>7. Cancellations'
  BY DEF PactionInv, PactionTypeOK, Cancellations, Early, Late, Signaled, FinisherReturns, Goto, NoCall
<1>8. QED
  BY <1>1, <1>2, <1>3, <1>4, <1>5, <1>6, <1>7 DEF PactionInv

----------------------------------------------------------------------------
(* The invariant and what follows from it. *)

\* No action is started, no reference set, no mutex held.
LEMMA InitEstablishes == ASSUME PactionInit PROVE PactionInv
<1>1. PactionTypeOK
  BY DEF PactionInit, PactionTypeOK, Pcs
<1> QED BY <1>1, PactionAssumption DEF PactionInit, PactionInv, PactionTypeOK, Refs, BackRefs, Calls,
    Mutexes,
     Holder, Cancellations, Signaled, Early, Over, Late, NoCall

\* A step of the thread of one action.
LEMMA ThreadKeeps ==
  ASSUME PactionInv, NEW x \in Actions, Thread(x) PROVE PactionInv'
  BY AllowCancelKeeps, CheckCanceledKeeps, HandlerReturnsKeeps, CanceledInHandlerKeeps,
     ForbidCancelKeeps, TestCancelKeeps, LockActionKeeps, FoundCanceledKeeps,
     GotUserMutexKeeps, UserMutexBusyKeeps, WakeKeeps, FinishedKeeps DEF Thread

\* The invariant is inductive.
LEMMA NextKeeps == ASSUME PactionInv, [PactionNext]_pactionVars PROVE PactionInv'
<1>1. CASE Acquire      BY <1>1, AcquireKeeps
<1>2. CASE Release      BY <1>2, ReleaseKeeps
<1>3. CASE \E s \in Slots : CancelCall(s) \/ \E x \in Actions : StartThread(s, x)
  BY <1>3, CancelCallKeeps, StartThreadKeeps
<1>4. CASE StartReturns BY <1>4, StartReturnsKeeps
<1>5. CASE CancelLock   BY <1>5, CancelLockKeeps
<1>6. CASE CancelSignal BY <1>6, CancelSignalKeeps
<1>7. CASE \E x \in Actions : Thread(x)
  BY <1>7, ThreadKeeps
<1>8. CASE UNCHANGED pactionVars
  BY <1>8 DEF pactionVars, PactionInv, PactionTypeOK, Refs, BackRefs, Calls, Mutexes, Holder,
     Cancellations, Signaled
<1> QED BY <1>1, <1>2, <1>3, <1>4, <1>5, <1>6, <1>7, <1>8 DEF PactionNext

\* The inductive invariant holds in every behaviour of threads and user.
THEOREM PactionInvariance == PactionSpec => []PactionInv
  BY InitEstablishes, NextKeeps, PTL DEF PactionSpec

\* Every variable keeps its type.
THEOREM PactionTypeCorrect == PactionSpec => []PactionTypeOK
<1>1. PactionInv => PactionTypeOK
  BY DEF PactionInv
<1> QED BY <1>1, PactionInvariance, PTL

\* The reference of the user, also the one paction_cancel() has read and waits with,
\* is to an action that is neither canceled nor finished nor freed.
THEOREM ReferenceAlwaysValid == PactionSpec => []ReferenceValid
<1>1. PactionInv => ReferenceValid
  <2> SUFFICES ASSUME PactionInv, NEW s \in Slots, NEW x \in Actions,
                      ref[s] = x \/ (call.op = "lock" /\ call.act = x /\ call.slot = s)
               PROVE  /\ action[x].pc \notin {"new", "finish", "gone"}
                      /\ ~action[x].canceled /\ action[x].actionp = s
    BY DEF ReferenceValid
  <2>1. ref[s] = x
    BY DEF PactionInv, Calls
  <2>2. action[x].actionp = s
    BY <2>1 DEF PactionInv, Refs
  <2> QED BY <2>2 DEF PactionInv, BackRefs, Over
<1> QED BY <1>1, PactionInvariance, PTL

\* A finisher runs under the user mutex if and only if its action was not canceled.
THEOREM OutcomeAlwaysSettled == PactionSpec => []OutcomeIsSettled
<1>1. PactionInv => OutcomeIsSettled
  BY DEF PactionInv, Holder, OutcomeIsSettled
<1> QED BY <1>1, PactionInvariance, PTL

\* pthread_cancel() never hits paction_cleanup() nor a thread that is gone.
THEOREM CleanupNeverDisturbed == PactionSpec => []CleanupUndisturbed
<1>1. PactionInv => CleanupUndisturbed
  BY DEF PactionInv, Cancellations, CleanupUndisturbed
<1> QED BY <1>1, PactionInvariance, PTL
=============================================================================
