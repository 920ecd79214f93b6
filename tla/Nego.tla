--------------------------------- MODULE Nego ---------------------------------
(***************************************************************************)
(* Two ends negotiate one control protocol: the automaton of fsm.c at both *)
(* ends of a link, with the options of LCP, CCP, ECP, IPCP or IPV6CP, and  *)
(* the link between them, which keeps the order of packets but may lose    *)
(* them.  Both ends run the same code; their configurations differ.        *)
(*                                                                         *)
(* The automaton comes from FsmOps, what a layer's methods do with options *)
(* from the three modules of options.  Step puts them together: it calls   *)
(* the methods in the order in which the handlers of fsm.c do.  The ends'  *)
(* links are admitted to their bundles (a refused one is taken down again: *)
(* Fsm and Link).                                                          *)
(***************************************************************************)
EXTENDS FsmOps, LcpOptions, CcpOptions, IpcpOptions

CONSTANTS
  Peers,      \* the two ends
  Deals,      \* the protocols and pairs of configurations to be tried, each with a
              \* number of faults: packets lost, Close and Down events, early timeouts
  Capacity    \* packets in flight in one direction

ASSUME NegoAssumption ==
  /\ \E a, b \in Peers : a # b /\ Peers = {a, b}
  /\ \A d \in Deals : d.faults \in Nat
  /\ \A d \in Deals : d.protocol = "ipcp" => \A p \in Peers : d.conf[p].pool \subseteq Nat
  /\ Capacity \in Nat \ {0}

VARIABLES
  deal,    \* what is negotiated: the protocol and the configuration of each end
  ends,    \* ends[p]: struct fsm of end p
  opt,     \* opt[p]: the option state of the layer at end p
  net,     \* net[p]: the packets on their way to p, oldest first
  asked,   \* asked[p]: the options of the last Configure-Request of p
  faults   \* faults left

negoVars == << deal, ends, opt, net, asked, faults >>

Other(p) == CHOOSE q \in Peers : q # p
Conf(p)  == deal.conf[p]

----------------------------------------------------------------------------
(* The methods of the layer that negotiates (struct fsmtype). *)

Zero(protocol, c) ==
  CASE protocol = "lcp"    -> LcpConfigure(c)
    [] protocol = "ccp"    -> CcpZero
    [] protocol = "ecp"    -> EcpZero
    [] protocol = "ipcp"   -> IpcpZero(c)
    [] protocol = "ipv6cp" -> Ipv6cpZero(c)

Configured(p) ==
  CASE deal.protocol = "lcp"    -> LcpConfigure(Conf(p))
    [] deal.protocol = "ccp"    -> CcpConfigure(Conf(p), opt[p])
    [] deal.protocol = "ecp"    -> EcpConfigure(opt[p])
    [] deal.protocol = "ipcp"   -> IpcpConfigure(Conf(p), opt[p])
    [] deal.protocol = "ipv6cp" -> opt[p]

Unconfigured(p, o) ==
  CASE deal.protocol = "ccp"  -> CcpUnConfigure(o)
    [] deal.protocol = "ecp"  -> EcpConfigure(o)
    [] deal.protocol = "ipcp" -> IpcpUnConfigure(Conf(p), o)
    [] OTHER -> o

\* BuildConfigReq: the state and the options asked for; n names the request.
Built(p, o, n) ==
  CASE deal.protocol = "lcp"    -> [opt |-> o, req |-> LcpRequest(Conf(p), o)]
    [] deal.protocol = "ccp"    -> CcpBuild(Conf(p), o)
    [] deal.protocol = "ecp"    -> EcpBuild(Conf(p), o, n)
    [] deal.protocol = "ipcp"   -> [opt |-> o, req |-> IpcpRequest(Conf(p), o)]
    [] deal.protocol = "ipv6cp" -> [opt |-> o, req |-> "id" :> o.mine]

DecodedReq(p, o, req) ==
  CASE deal.protocol = "lcp"    -> LcpDecodeReq(Conf(p), o, req)
    [] deal.protocol = "ccp"    -> CcpDecodeReq(Conf(p), o, req)
    [] deal.protocol = "ecp"    -> EcpDecodeReq(Conf(p), o, req)
    [] deal.protocol = "ipcp"   -> IpcpDecodeReq(Conf(p), o, req)
    [] deal.protocol = "ipv6cp" -> Ipv6cpDecodeReq(Conf(p), o, req)

DecodedNak(p, nak) ==
  CASE deal.protocol = "lcp"    -> LcpDecodeNak(Conf(p), opt[p], nak)
    [] deal.protocol = "ccp"    -> CcpDecodeNak(opt[p], nak)
    [] deal.protocol = "ecp"    -> opt[p]
    [] deal.protocol = "ipcp"   -> IpcpDecodeNak(Conf(p), opt[p], nak)
    [] deal.protocol = "ipv6cp" -> Ipv6cpDecodeNak(opt[p], nak)

DecodedRej(p, rej) ==
  CASE deal.protocol = "lcp"  -> LcpDecodeRej(Conf(p), opt[p], rej)
    [] deal.protocol = "ccp"  -> CcpDecodeRej(opt[p], rej)
    [] deal.protocol = "ecp"  -> EcpDecodeRej(opt[p], rej)
    [] deal.protocol = "ipcp" -> IpcpDecodeRej(opt[p], rej)
    [] OTHER -> opt[p]

\* LayerUp: the state, and whether the layer is content; if not it calls FsmFailure().
WentUp(o) ==
  CASE deal.protocol = "ccp"  -> CcpLayerUp(o)
    [] deal.protocol = "ipcp" -> [opt |-> IpcpLayerUp(o), ok |-> TRUE]
    [] OTHER -> [opt |-> o, ok |-> TRUE]

\* LayerDown; early: the automaton has not left Opened yet.
WentDown(o, early) ==
  CASE deal.protocol = "lcp" -> LcpLayerDown(o, early)
    [] deal.protocol = "ccp" -> CcpLayerDown(o)
    [] OTHER -> o

----------------------------------------------------------------------------
(* A step of one end. *)

NegoInit ==
  /\ deal \in Deals
  /\ ends = [p \in Peers |-> FsmInit]
  /\ opt = [p \in Peers |-> Zero(deal.protocol, deal.conf[p])]
  /\ net = [p \in Peers |-> << >>]
  /\ asked = [p \in Peers |-> << >>]
  /\ faults = deal.faults

Sends(g, code) == \E i \in DOMAIN g.out : g.out[i].code = code

\* The automaton of p goes to goal, o are the options after the packet was decoded,
\* answer what a refusal carries, in the packets on their way.  The link interface
\* queue drops what does not fit.
Step(p, goal, o, answer, early, in) ==
  LET f     == ends[p]
      down  == IF f.up /\ ~goal.up THEN WentDown(o, early) ELSE o
      built == IF Sends(goal, "ConfigReq") THEN Built(p, down, f.reqid)
               ELSE [opt |-> down, req |-> asked[p]]
      up    == IF ~f.up /\ goal.up THEN WentUp(built.opt) ELSE [opt |-> built.opt, ok |-> TRUE]
      g     == IF up.ok THEN goal ELSE FsmFailure(goal)
      left  == IF up.ok THEN up.opt ELSE WentDown(up.opt, FALSE)
      sent  == [i \in DOMAIN g.out |->
                  [code |-> g.out[i].code, id |-> g.out[i].id,
                   body |-> CASE g.out[i].code = "ConfigReq" -> built.req
                              [] g.out[i].code \in {"ConfigNak", "ConfigRej"} -> answer
                              [] OTHER -> << >>]]
  IN /\ ends' = [ends EXCEPT ![p] = Begin(g)]
     /\ opt' = [opt EXCEPT ![p] = IF f.configured /\ ~g.configured
                                  THEN Unconfigured(p, left) ELSE left]
     /\ asked' = [asked EXCEPT ![p] = built.req]
     /\ net' = [in EXCEPT ![Other(p)] =
                  LET q == @ \o sent
                  IN  SubSeq(q, 1, IF Len(q) < Capacity THEN Len(q) ELSE Capacity)]
     /\ UNCHANGED deal

Quiet == \A q \in Peers : net[q] = << >>

Spend == faults > 0 /\ faults' = faults - 1

\* The administrator and the layer below.  A layer below that goes down or comes
\* up drops what was on its way over it.
EndOpen(p) ==
  /\ ends[p].state \notin OPEN_STATE
  /\ Step(p, FsmOpen(ends[p]), IF ends[p].state = "Closed" THEN Configured(p) ELSE opt[p],
          << >>, FALSE, net)
  /\ UNCHANGED faults

EndClose(p) ==
  /\ ends[p].state \in OPEN_STATE /\ Spend
  /\ Step(p, FsmClose(ends[p]), opt[p], << >>, FALSE, net)

EndUp(p) ==
  /\ ends[p].state \in {"Initial", "Starting"}
  /\ Step(p, FsmUp(ends[p]), IF ends[p].state = "Starting" THEN Configured(p) ELSE opt[p],
          << >>, FALSE, [net EXCEPT ![p] = << >>])
  /\ UNCHANGED faults

EndDown(p) ==
  /\ ends[p].state \notin {"Initial", "Starting"} /\ Spend
  /\ Step(p, FsmDown(ends[p]), opt[p], << >>, FALSE, [net EXCEPT ![p] = << >>])

EndTimeout(p) ==
  /\ ends[p].timer
  /\ IF Quiet THEN UNCHANGED faults ELSE Spend
  /\ Step(p, FsmTimeout(ends[p]), opt[p], << >>, FALSE, net)

Lose(p) ==
  /\ net[p] # << >> /\ Spend
  /\ net' = [net EXCEPT ![p] = Tail(@)]
  /\ UNCHANGED << deal, ends, opt, asked >>

Packet(p) == Head(net[p])
Rest(p)   == [net EXCEPT ![p] = Tail(@)]

\* FsmRecvConfigReq(): a rejected option matters more than one with another value.
RecvReq(p) ==
  LET f       == ends[p]
      decodes == f.state \in Negotiating \cup {"Opened", "Stopped"}
      o       == IF f.state = "Stopped" THEN Configured(p) ELSE opt[p]
      d       == DecodedReq(p, o, Packet(p).body)
      verdict == CASE d.rej # << >> -> "ConfigRej"
                   [] d.rej = << >> /\ d.nak # << >> -> "ConfigNak"
                   [] OTHER -> "ConfigAck"
      answer  == IF verdict = "ConfigRej" THEN d.rej ELSE d.nak
  IN /\ net[p] # << >> /\ Packet(p).code = "ConfigReq"
     /\ IF decodes
        THEN Step(p, RecvConfigReq(f, Packet(p).id, verdict, TRUE), d.opt, answer,
                  f.state = "Opened", Rest(p))
        ELSE Step(p, RecvConfigReq(f, Packet(p).id, "ConfigAck", TRUE), opt[p], << >>, FALSE,
                  Rest(p))

RecvRefusal(p) ==
  LET f       == ends[p]
      decodes == Expected(f, Packet(p).id) /\ f.state \in Negotiating \cup {"Opened"}
      decoded == IF Packet(p).code = "ConfigNak" THEN DecodedNak(p, Packet(p).body)
                 ELSE DecodedRej(p, Packet(p).body)
  IN /\ net[p] # << >> /\ Packet(p).code \in {"ConfigNak", "ConfigRej"}
     /\ Step(p, RecvConfigRefusal(f, Packet(p).id), IF decodes THEN decoded ELSE opt[p],
             << >>, Packet(p).code = "ConfigNak", Rest(p))

RecvOther(p) ==
  /\ net[p] # << >>
  /\ \/ Packet(p).code = "ConfigAck"
        /\ Step(p, RecvConfigAck(ends[p], Packet(p).id, TRUE), opt[p], << >>, FALSE, Rest(p))
     \/ Packet(p).code = "TermReq"
        /\ Step(p, RecvTermReq(ends[p]), opt[p], << >>, FALSE, Rest(p))
     \/ Packet(p).code = "TermAck"
        /\ Step(p, RecvTermAck(ends[p]), opt[p], << >>, FALSE, Rest(p))

Receive(p) == (RecvReq(p) \/ RecvRefusal(p) \/ RecvOther(p)) /\ UNCHANGED faults

NegoNext ==
  \E p \in Peers :
    EndOpen(p) \/ EndUp(p) \/ EndClose(p) \/ EndDown(p) \/ EndTimeout(p) \/ Lose(p) \/ Receive(p)

NegoSpec == NegoInit /\ [][NegoNext]_negoVars

\* The step takes the oldest packet on its way to p.
Taken(p) == net[p] # << >> /\ net'[p] = Tail(net[p])

\* The step starts the restart timer of p anew (or sends a Terminate-Ack).
EndRearmed(p) ==
  \/ ends'[p].reqid # ends[p].reqid
  \/ ends[p].state = "ReqSent" /\ ends'[p].state = "AckRcvd"

\* A packet arrives or is lost.  A restart timer fires unless it is stopped or started
\* anew before, and when it fires it sends again and starts anew, or stays stopped.
NegoFairSpec ==
  /\ NegoSpec
  /\ \A p \in Peers :
       /\ []<>(net[p] = << >>) \/ []<><<Taken(p)>>_negoVars
       /\ []<>(~ends[p].timer) \/ []<><<EndRearmed(p)>>_negoVars

----------------------------------------------------------------------------
NegoTypeOK ==
  /\ deal \in Deals
  /\ ends \in [Peers -> Fsms]
  /\ \A p \in Peers : \A i \in DOMAIN net[p] :
       [code |-> net[p][i].code, id |-> net[p][i].id] \in Packets
  /\ faults \in 0 .. deal.faults

\* LCP starts afresh with the peer's first request after it went down, when its own
\* request with the values of the session before is out already.  Until it asks
\* again it may want what it never asked for.
StartedAfresh(p) == opt[p] = [LcpConfigure(Conf(p)) EXCEPT !.peer = opt[p].peer]

\* What end p uses in its own direction is what it asked for last.
Uses(p) ==
  CASE deal.protocol = "lcp"    -> LcpRequest(Conf(p), opt[p]) = asked[p] \/ StartedAfresh(p)
    [] deal.protocol = "ccp"    -> CcpUses(opt[p], asked[p])
    [] deal.protocol = "ecp"    -> EcpUses(opt[p], asked[p])
    [] deal.protocol = "ipcp"   -> IpcpUses(opt[p], asked[p])
    [] deal.protocol = "ipv6cp" -> asked[p] = "id" :> opt[p].mine

\* What end p noted of the other end is what the other end asked for last.
Grants(p) ==
  LET req == asked[Other(p)] IN
  CASE deal.protocol = "lcp"    -> opt[p].peer = req
    [] deal.protocol = "ccp"    -> CcpGrants(opt[p], req)
    [] deal.protocol = "ecp"    -> EcpGrants(opt[p], req)
    [] deal.protocol = "ipcp"   -> IpcpGrants(opt[p], req)
    [] deal.protocol = "ipv6cp" -> req = "id" :> opt[p].his

\* Two ends that are both open with nothing on the way agree on every option: what
\* one uses is what the other has granted, whatever was refused, counter-proposed,
\* lost, or asked again on the way, and although an acknowledgement is never
\* compared with the request it answers ("XXX We should verify", FsmRecvConfigAck()).
Agreement ==
  (Quiet /\ \A p \in Peers : ends[p].state = "Opened") =>
     \A p \in Peers : Grants(p) /\ Uses(p)

\* No session keeps what it took: a leased address is not in the pool and goes back
\* when the protocol is no longer configured, on every way out of a negotiation, and
\* the compressor's node is gone when the layer is down.  Not so for an end that pretends
\* (pretend-ip): it notes an address that is not the leased one, and frees that.
ResourcesReturn ==
  \A p \in Peers :
    LET o == opt[p] IN
    /\ deal.protocol = "ipcp" /\ ~Conf(p).pretend =>
         /\ o.used  => o.his \notin o.free /\ o.free \cup {o.his} = Conf(p).pool
         /\ ~o.used => o.free = Conf(p).pool
         /\ o.used  => ends[p].configured
    /\ deal.protocol = "ccp" /\ "comp" \in o.nodes => ends[p].up

Settled == \A p \in Peers : ends[p].state = "Opened"

\* As long as neither end is closed, loses its carrier or gives up, two ends whose
\* configurations leave common ground end up open together for good: counter-proposals,
\* crossed requests, lost packets and the restart of one end only neither lock them up
\* nor make them chase each other through Opened and ReqSent for ever.
Converges ==
  <>[](\A p \in Peers : ends[p].state \in Negotiating \cup {"Opened"}) => <>[]Settled
=============================================================================
