------------------------------- MODULE MCNego -------------------------------
(* Instances of Nego: a few pairs of configurations for every protocol. *)
EXTENDS Nego

CONSTANTS a, b

Pair(protocol, c, d) == [protocol |-> protocol, conf |-> (a :> c) @@ (b :> d), faults |-> 1]

\* Two faults: enough for a stale acknowledgement of a request whose own was lost.
Again(d) == [d EXCEPT !.faults = 2]

\* LCP: a server that asks for authentication, a client that dials.
LcpPlain ==
  [enable |-> {}, accept |-> Auths, comp |-> TRUE, compOk |-> TRUE, magic |-> TRUE,
   multi |-> FALSE, short |-> FALSE, shortOk |-> TRUE, callback |-> FALSE, dropAuth |-> FALSE]
Server     == [LcpPlain EXCEPT !.enable = {"msv2", "md5", "pap"}, !.compOk = FALSE]
Client     == [LcpPlain EXCEPT !.accept = {"md5", "pap"}, !.magic = FALSE, !.callback = TRUE]
Multilink  == [LcpPlain EXCEPT !.multi = TRUE, !.short = TRUE, !.enable = {"msv2"}]
NoShort    == [Multilink EXCEPT !.shortOk = FALSE, !.short = FALSE, !.dropAuth = TRUE, !.enable = {"msv1", "eap"}]

\* CCP.
CcpConf(types, bits) == [enable |-> types, accept |-> types, bits |-> bits, okBits |-> bits]

Ccp1 == CcpConf({"mppc", "deflate"}, {"e40", "e128", "stateless"})
Ccp2 == CcpConf({"mppc", "pred1"}, {"e40", "e128"})
Ccp3 == CcpConf({"deflate", "pred1"}, {})
Ccp4 == CcpConf({"deflate"}, {})

Ecp1 == [enable |-> {"dese-bis", "dese"}, accept |-> {"dese-bis", "dese"}]
Ecp2 == [enable |-> {"dese"}, accept |-> {"dese"}]

\* IPCP: a server with a pool, a client that takes what it gets.
All == 0 .. 4
IpServer == [self |-> Addresses(1, {1}), peer |-> Addresses(0, All), pool |-> {2, 3}, addresses |-> All,
             vj |-> TRUE, vjOk |-> TRUE, dns |-> FALSE, server |-> 4, pretend |-> FALSE]
IpClient == [self |-> Addresses(0, All), peer |-> Addresses(0, All), pool |-> {}, addresses |-> All,
             vj |-> TRUE, vjOk |-> FALSE, dns |-> TRUE, server |-> 0, pretend |-> FALSE]
IpFixed  == [self |-> Addresses(2, {2}), peer |-> Addresses(1, {1}), pool |-> {}, addresses |-> All,
             vj |-> FALSE, vjOk |-> TRUE, dns |-> TRUE, server |-> 0, pretend |-> FALSE]

Six(mine, spare) == [mine |-> mine, spare |-> spare]

MCDeals ==
  { Pair("lcp", Server, Client), Pair("lcp", Multilink, NoShort), Pair("lcp", Server, LcpPlain),
    Pair("ccp", Ccp1, Ccp1), Pair("ccp", Ccp1, Ccp2), Pair("ccp", Ccp3, Ccp4),
    Pair("ecp", Ecp1, Ecp1), Pair("ecp", Ecp1, Ecp2), Again(Pair("ecp", Ecp2, Ecp2)),
    Pair("ipcp", IpServer, IpClient), Pair("ipcp", IpServer, IpFixed),
    Pair("ipv6cp", Six(1, 3), Six(1, 4)), Pair("ipv6cp", Six(1, 3), Six(2, 4)) }
MCPeers == {a, b}
=============================================================================
