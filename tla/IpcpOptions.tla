----------------------------- MODULE IpcpOptions -----------------------------
(***************************************************************************)
(* The options of IPCP (ipcp.c, with the address pools of ippool.c) and of *)
(* IPV6CP (ipv6cp.c).  "dns" stands for the four name servers, which go    *)
(* the same way; address 0 is 0.0.0.0.  An end leases the address of its   *)
(* peer from a pool, or has ranges from its configuration.                 *)
(***************************************************************************)
EXTENDS Integers, Sequences, FiniteSetsExt, TLC

LOCAL INSTANCE Functions

\* A range: its address and all the addresses in it (an empty range has every one).
Addresses(a, S) == [addr |-> a, all |-> S]

\* struct ipcpstate.  self, peer: the ranges self_allow and peer_allow; want, his: the
\* addresses want_addr and peer_addr; vj, hisVj: van Jacobson compression; used: an
\* address was leased; free: of the pool.
IpcpZero(c) ==
  [self |-> Addresses(0, c.addresses), peer |-> Addresses(0, c.addresses), want |-> 0, his |-> 0,
   vj |-> FALSE, hisVj |-> FALSE, dns |-> 0, rejected |-> {},
   used |-> FALSE, free |-> c.pool]

\* IpcpConfigure() with IPPoolGet(): the first free address of the pool.  When there is
\* none the range of the session before stays in force.
IpcpConfigure(c, o) ==
  LET lease == c.pool # {} /\ o.free # {}
      peer  == CASE lease -> Addresses(Min(o.free), {Min(o.free)})
                 [] ~lease /\ c.pool # {} -> o.peer
                 [] OTHER -> c.peer
  IN [o EXCEPT !.self = c.self, !.peer = peer, !.want = c.self.addr, !.his = peer.addr,
               !.vj = c.vj, !.hisVj = FALSE, !.dns = 0, !.rejected = {},
               !.used = @ \/ lease, !.free = IF lease THEN @ \ {Min(@)} ELSE @]

\* A slip in IpcpUnConfigure(): the lease is forgotten and not returned.
IpcpUnConfigureForgets(c, o) == [o EXCEPT !.used = FALSE]

\* IpcpUnConfigure() with IPPoolFree(): the address the peer has now goes back, if it
\* is one of the pool's.
IpcpUnConfigure(c, o) ==
  [o EXCEPT !.used = FALSE, !.free = IF o.used THEN @ \cup ({o.his} \cap c.pool) ELSE @]

IpcpRequest(c, o) ==
  LET types == (IF "addr" \notin o.rejected \/ o.want = 0 THEN {"addr"} ELSE {})
               \cup (IF o.vj THEN {"vj"} \ o.rejected ELSE {})
               \cup (IF c.dns THEN {"dns"} \ o.rejected ELSE {})
  IN [t \in types |-> CASE t = "addr" -> o.want [] t = "dns" -> o.dns [] OTHER -> 1]

\* IpcpDecodeConfig() of a request: an address out of range is replaced by ours, or
\* acknowledged all the same by an end that pretends.
IpcpDecodeReq(c, o, req) ==
  LET asks   == "addr" \in DOMAIN req
      fine   == asks /\ req["addr"] \in o.peer.all \ {0}
      noVj   == "vj" \in DOMAIN req /\ ~c.vjOk
      server == "dns" \in DOMAIN req /\ req["dns"] = 0
      nak    == (IF asks /\ ~fine /\ ~c.pretend THEN "addr" :> o.his ELSE << >>)
                @@ (IF server /\ c.server # 0 THEN "dns" :> c.server ELSE << >>)
  IN [opt |-> [o EXCEPT !.his = IF fine \/ (asks /\ c.pretend) THEN req["addr"] ELSE @,
                        !.hisVj = @ \/ ("vj" \in DOMAIN req /\ ~noVj)],
      nak |-> nak,
      rej |-> Restrict(req, (IF noVj THEN {"vj"} ELSE {})
                            \cup (IF server /\ c.server = 0 THEN {"dns"} ELSE {}))]

IpcpDecodeNak(c, o, nak) ==
  [o EXCEPT !.want = IF "addr" \in DOMAIN nak /\ (nak["addr"] \in o.self.all \/ c.pretend)
                     THEN nak["addr"] ELSE @,
            !.dns = IF "dns" \in DOMAIN nak THEN nak["dns"] ELSE @]

IpcpDecodeRej(o, rej) ==
  [o EXCEPT !.rejected = @ \cup DOMAIN rej, !.vj = @ /\ "vj" \notin DOMAIN rej]

\* IpcpLayerUp(): an address out of range is not used, whatever was negotiated.
IpcpLayerUp(o) ==
  [o EXCEPT !.want = IF @ \in o.self.all THEN @ ELSE o.self.addr,
            !.his  = IF @ \in o.peer.all \/ o.peer.addr = 0 THEN @ ELSE o.peer.addr]

IpcpUses(o, req) ==
  /\ "addr" \in DOMAIN req => o.want = req["addr"]
  /\ o.vj <=> "vj" \in DOMAIN req
IpcpGrants(o, req) ==
  /\ "addr" \in DOMAIN req => o.his = req["addr"]
  /\ o.hisVj <=> "vj" \in DOMAIN req

----------------------------------------------------------------------------
(* IPV6CP: mine and his, the interface identifiers. *)

Ipv6cpZero(c) == [mine |-> c.mine, his |-> 0]

Ipv6cpDecodeReq(c, o, req) ==
  LET same == req["id"] \in {0, o.mine}
  IN [opt |-> [o EXCEPT !.his = IF same THEN c.spare ELSE req["id"]],
      nak |-> IF same THEN "id" :> c.spare ELSE << >>, rej |-> << >>]

Ipv6cpDecodeNak(o, nak) == [o EXCEPT !.mine = nak["id"]]
=============================================================================
