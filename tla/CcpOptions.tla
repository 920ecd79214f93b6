----------------------------- MODULE CcpOptions -----------------------------
(***************************************************************************)
(* The options of CCP (ccp.c with ccp_mppc.c, ccp_deflate.c, ccp_pred1.c)  *)
(* and of ECP (ecp.c with ecp_dese.c, ecp_dese_bis.c).  Each direction has *)
(* one type of compression or encryption: the sender asks for all it has   *)
(* enabled, the receiver takes the first it accepts and rejects the rest.  *)
(*                                                                         *)
(* The kernel is taken to support every type, and MPPE to have its keys.   *)
(***************************************************************************)
EXTENDS Integers, Sequences, TLC

LOCAL INSTANCE Functions
LOCAL INSTANCE FiniteSetsExt

NoType == "none"

\* gCompTypes[] and gEncTypes[], in order of preference, and the bits of MPPC.
CompTypes == << "mppc", "deflate", "pred1" >>
EncTypes  == << "dese-bis", "dese" >>
Mppe      == {"e40", "e56", "e128"}
MppcBits  == Mppe \cup {"mppc", "stateless"}

\* enable, accept: the types; bits, okBits: of MPPC, what is enabled and acceptable.
CcpConfs ==
  [enable : SUBSET {"mppc", "deflate", "pred1"}, accept : SUBSET {"mppc", "deflate", "pred1"},
   bits : SUBSET MppcBits, okBits : SUBSET MppcBits]
EcpConfs == [enable : SUBSET {"dese-bis", "dese"}, accept : SUBSET {"dese-bis", "dese"}]

FirstOf(order, S) ==
  IF S = {} THEN NoType ELSE order[Min({i \in DOMAIN order : order[i] \in S})]
After(order, t) ==
  {order[i] : i \in {j \in DOMAIN order : \E k \in DOMAIN order : order[k] = t /\ k < j}}

----------------------------------------------------------------------------
(* CCP. *)

\* struct ccpstate.  xbits, rbits: MPPC's bits for either direction; refused: the bits
\* the peer has taken away; nodes: the netgraph nodes at the hooks of the PPP node,
\* which outlive the configuration.
CcpZero ==
  [xmit |-> NoType, recv |-> NoType, selfRej |-> {}, peerRej |-> {},
   xbits |-> {}, rbits |-> {}, refused |-> {}, nodes |-> {}]

\* CcpConfigure() with MppcConfigure(): MPPC is no use without anything to offer.
CcpConfigure(c, o) ==
  [CcpZero EXCEPT
     !.nodes = o.nodes,
     !.selfRej = IF "mppc" \in c.bits \/ Mppe \cap (c.bits \cup c.okBits) # {}
                 THEN {} ELSE {"mppc"}]

CcpUnConfigure(o) ==
  [o EXCEPT !.xmit = NoType, !.recv = NoType, !.selfRej = {}, !.peerRej = {}]

\* CcpBuildConfigReq() with MppcBuildConfigReq(): the state and the request.
CcpBuild(c, o) ==
  LET strong  == (c.bits \ o.refused) \ {"stateless"}
      bits    == IF strong = {} THEN {}
                 ELSE strong \cup ((c.bits \ o.refused) \cap {"stateless"})
      offered == c.enable \ o.peerRej
      types   == IF bits = {} THEN offered \ {"mppc"} ELSE offered
  IN [opt |-> [o EXCEPT !.xmit = FirstOf(CompTypes, types),
                        !.xbits = IF "mppc" \in offered THEN bits ELSE @],
      req |-> [t \in types |-> IF t = "mppc" THEN bits ELSE {}]]

Strongest(bits) ==
  CASE "e128" \in bits -> bits \ {"e40", "e56"}
    [] "e128" \notin bits /\ "e56" \in bits -> bits \ {"e40"}
    [] OTHER -> bits

\* MppcDecodeConfigReq(): what this end could agree to when asked for these bits.  A
\* peer that asks for no encryption is prompted to.
MppcAnswer(c, asked) ==
  LET chosen == Strongest((asked \cap c.okBits) \ {"stateless"})
      strong == IF chosen \cap Mppe = {} THEN chosen \cup (c.okBits \cap Mppe) ELSE chosen
  IN  IF strong = {} THEN {} ELSE strong \cup (asked \cap c.okBits \cap {"stateless"})

\* The choice of one type among those of a request, shared by CCP and ECP: good are
\* the types this end would acknowledge as they are, bad those it will never take.
Choice(order, req, good, bad) ==
  LET taken == FirstOf(order, good)
  IN  [taken |-> taken, rej |-> DOMAIN req \cap (bad \cup After(order, taken))]

CcpDecodeReq(c, o, req) ==
  LET open   == (DOMAIN req \cap c.accept) \ o.selfRej
      answer == MppcAnswer(c, req["mppc"])
      tried  == "mppc" \in open
      vain   == IF tried /\ answer = {} THEN {"mppc"} ELSE {}
      nak    == tried /\ answer \notin {{}, req["mppc"]}
      choice == Choice(CompTypes, req, IF nak THEN open \ {"mppc"} ELSE open \ vain,
                       (DOMAIN req \ open) \cup vain)
  IN [opt |-> [o EXCEPT !.recv = choice.taken, !.selfRej = @ \cup vain,
                        !.rbits = IF tried THEN answer ELSE @],
      nak |-> IF nak THEN "mppc" :> answer ELSE << >>, rej |-> Restrict(req, choice.rej)]

CcpDecodeNak(o, nak) ==
  IF "mppc" \in DOMAIN nak
  THEN [o EXCEPT !.refused = @ \cup (MppcBits \ nak["mppc"])] ELSE o

CcpDecodeRej(o, rej) == [o EXCEPT !.peerRej = @ \cup DOMAIN rej]

\* CcpLayerUp(): fails if nothing was negotiated, or if a hook is taken already.
CcpLayerUp(o) ==
  LET sends == o.xmit # NoType
      takes == o.recv # NoType
      first == sends /\ "comp" \notin o.nodes
      made  == (IF sends THEN {"comp"} ELSE {})
               \cup (IF takes /\ (sends => first) THEN {"decomp"} ELSE {})
  IN [opt |-> [o EXCEPT !.nodes = @ \cup made],
      ok  |-> (sends \/ takes) /\ made \cap o.nodes = {}]

\* CcpLayerDown(): the nodes are removed by the methods of the types chosen now.
CcpLayerDown(o) ==
  [o EXCEPT !.nodes = @ \ ((IF o.recv # NoType THEN {"decomp"} ELSE {})
                           \cup (IF o.xmit # NoType THEN {"comp"} ELSE {}))]

\* Each direction works with the one type that was asked for and acknowledged, and
\* MPPC with the bits of the request.
CcpUses(o, req)   == DOMAIN req = {o.xmit} \ {NoType} /\ (o.xmit = "mppc" => o.xbits = req["mppc"])
CcpGrants(o, req) == DOMAIN req = {o.recv} \ {NoType} /\ (o.recv = "mppc" => o.rbits = req["mppc"])

----------------------------------------------------------------------------
(* ECP. *)

\* struct ecpstate.  xiv, riv: the initialisation vectors of DESE and DESE-bis, named
\* after the request that carried them.
EcpZero ==
  [xmit |-> NoType, recv |-> NoType, selfRej |-> {}, peerRej |-> {},
   xiv |-> << >>, riv |-> << >>]

\* EcpConfigure() and EcpUnConfigure() leave the vectors alone.
EcpConfigure(o) == [EcpZero EXCEPT !.xiv = o.xiv, !.riv = o.riv]

\* EcpBuildConfigReq(): every request has new vectors.
EcpBuild(c, o, n) ==
  LET req == [t \in c.enable \ o.peerRej |-> n]
  IN  [opt |-> [o EXCEPT !.xmit = FirstOf(EncTypes, DOMAIN req), !.xiv = req @@ @],
       req |-> req]

EcpDecodeReq(c, o, req) ==
  LET open   == (DOMAIN req \cap c.accept) \ o.selfRej
      choice == Choice(EncTypes, req, open, DOMAIN req \ open)
  IN [opt |-> [o EXCEPT !.recv = choice.taken,
                        !.riv = Restrict(req, DOMAIN req \ choice.rej) @@ @],
      nak |-> << >>, rej |-> Restrict(req, choice.rej)]

EcpDecodeRej(o, rej) == [o EXCEPT !.peerRej = @ \cup DOMAIN rej]

\* Either end starts its cipher with the vector of the request.
EcpUses(o, req) ==
  DOMAIN req = {o.xmit} \ {NoType} /\ \A t \in DOMAIN req : o.xiv[t] = req[t]
EcpGrants(o, req) ==
  DOMAIN req = {o.recv} \ {NoType} /\ \A t \in DOMAIN req : o.riv[t] = req[t]
=============================================================================
