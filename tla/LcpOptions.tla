----------------------------- MODULE LcpOptions -----------------------------
(***************************************************************************)
(* The options of LCP (lcp.c): what a Configure-Request asks, what the     *)
(* other end makes of it, and what a Nak or a Reject changes.              *)
(*                                                                         *)
(* A packet is a function from the options in it to their values.  Of the  *)
(* options that are always acknowledged between two ends that run this     *)
(* code (MRU, ACCMAP, the endpoint discriminator) none is kept; "comp"     *)
(* stands for PROTOCOMP and ACFCOMP, which go the same way.                *)
(***************************************************************************)
EXTENDS Integers, Sequences, TLC

LOCAL INSTANCE Functions
LOCAL INSTANCE FiniteSetsExt

NoAuth == "none"

\* gLcpAuthProtos[], and the order in which LcpConfigure() prefers them.
AuthProtos == << "pap", "md5", "msv1", "msv2", "eap" >>
Preference == << "msv2", "msv1", "md5", "pap", "eap" >>
Auths      == {Preference[i] : i \in DOMAIN Preference}

\* The options of the link that LCP looks at.  enable, accept: authentication
\* protocols; comp, magic, multi, short: what is enabled; compOk, shortOk: acceptable;
\* callback: enabled on a link that dials; dropAuth: no-orig-auth on such a link.
LcpConfs ==
  [enable : SUBSET Auths, accept : SUBSET Auths, comp : BOOLEAN, compOk : BOOLEAN,
   magic : BOOLEAN, multi : BOOLEAN, short : BOOLEAN, shortOk : BOOLEAN,
   callback : BOOLEAN, dropAuth : BOOLEAN]

\* The positions of a list of protocols that are not crossed out.
Listed(list) == {i \in DOMAIN list : list[i] # NoAuth}

\* struct lcpstate.  auth: want_auth and want_alg; list: want_protos[]; own: what else
\* is asked; rejected: peer_reject; peer: the options granted to the peer.
LcpConfigure(c) ==
  LET enabled == [i \in DOMAIN Preference |->
                    IF Preference[i] \in c.enable THEN Preference[i] ELSE NoAuth]
      first   == IF Listed(enabled) = {} THEN 0 ELSE Min(Listed(enabled))
  IN [auth |-> IF first = 0 THEN NoAuth ELSE enabled[first],
      list |-> [i \in DOMAIN enabled |-> IF i = first THEN NoAuth ELSE enabled[i]],
      own  |-> {t \in {"comp", "magic", "callback", "mrru", "short"} :
                  \/ t = "comp" /\ c.comp
                  \/ t = "magic" /\ c.magic
                  \/ t = "callback" /\ c.callback
                  \/ t = "mrru" /\ c.multi
                  \/ t = "short" /\ c.multi /\ c.short},
      rejected |-> {}, reset |-> FALSE, peer |-> << >>]

\* LcpBuildConfigReq().  An authentication protocol the peer rejected is asked again.
LcpRequest(c, o) ==
  LET plain == (o.own \cap {"comp", "magic", "callback"}) \ o.rejected
      mp    == IF c.multi /\ "mrru" \notin o.rejected
               THEN {"mrru"} \cup ((o.own \cap {"short"}) \ o.rejected) ELSE {}
      auth  == IF o.auth # NoAuth THEN {"auth"} ELSE {}
  IN [t \in plain \cup mp \cup auth |-> IF t = "auth" THEN o.auth ELSE "on"]

\* The protocol an end proposes instead of one it does not accept: always the first.
Proposal(c) == Preference[Min({i \in DOMAIN Preference : Preference[i] \in c.accept})]

\* The authentication protocol asked for is none this end accepts.
Alien(c, req) == "auth" \in DOMAIN req /\ req["auth"] \notin c.accept

\* The options of a request that are rejected; the callback always, as only the peer
\* may call back.
Rejected(c, o, req) ==
  {t \in DOMAIN req :
     \/ t = "comp" /\ ~c.compOk
     \/ t = "magic" /\ "magic" \notin o.own
     \/ t = "callback"
     \/ t = "mrru" /\ ~c.multi
     \/ t = "short" /\ ~(c.multi /\ c.shortOk)
     \/ t = "auth" /\ Alien(c, req) /\ c.accept = {}}

\* LcpDecodeConfig() of a Configure-Request: the state, what is to be Nak'd with which
\* value, and what is to be rejected.
LcpDecodeReq(c, o, req) ==
  LET k   == IF o.reset THEN LcpConfigure(c) ELSE [o EXCEPT !.peer = << >>]
      nak == IF Alien(c, req) /\ c.accept # {} THEN "auth" :> Proposal(c) ELSE << >>
      rej == Rejected(c, k, req)
  IN [opt |-> [k EXCEPT !.peer = Restrict(req, DOMAIN req \ (rej \cup DOMAIN nak))],
      nak |-> nak, rej |-> Restrict(req, rej)]

\* A Nak proposes another authentication protocol.  One that is not enabled is to be
\* struck from the list, but its position in gLcpAuthProtos[] is taken for the one in
\* want_protos[], which has another order.  The protocol tried next stays listed.
LcpDecodeNak(c, o, nak) ==
  IF "auth" \notin DOMAIN nak THEN o
  ELSE IF nak["auth"] \in c.enable THEN [o EXCEPT !.auth = nak["auth"]]
  ELSE LET pos  == CHOOSE i \in DOMAIN AuthProtos : AuthProtos[i] = nak["auth"]
           list == [o.list EXCEPT ![pos] = NoAuth]
       IN [o EXCEPT !.list = list,
                    !.auth = IF Listed(list) = {} THEN @ ELSE list[Min(Listed(list))]]

LcpDecodeRej(c, o, rej) ==
  [o EXCEPT !.rejected = @ \cup DOMAIN rej, !.own = @ \ DOMAIN rej,
            !.auth = IF "auth" \in DOMAIN rej /\ c.dropAuth THEN NoAuth ELSE @]

\* LcpLayerDown(): a full reset is due with the next request of the peer, if the
\* automaton calls it while the phase is still Authenticate or Network.
LcpLayerDown(o, early) == [o EXCEPT !.reset = @ \/ early]
=============================================================================
