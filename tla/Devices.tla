------------------------------ MODULE Devices -------------------------------
(***************************************************************************)
(* The types of device of gPhysTypes[] that keep state of their own beyond *)
(* one link: PPTP and L2TP with their control connections, and the devices *)
(* a repeater joins in pairs.  SetDeviceType() gives a link its type once, *)
(* and from then on phys.c calls the operations of that type only, so that *)
(* a behaviour is one of the devices of one type.                          *)
(***************************************************************************)
EXTENDS Integers, FiniteSets

CONSTANTS
  Links,           \* links of type pptp or l2tp
  OutCallLinks,    \* links with L2TP_CONF_OUTCALL
  Ctrls,           \* control connections
  Sessions,        \* sessions of L2TP
  None,
  NoCtrl,
  gPPTPtunlimit,
  gL2TPtunlimit,
  Kinds,           \* types of the ends of a repeater
  MaxMsgs

ASSUME DevicesAssumption ==
  /\ IsFiniteSet(Links) /\ OutCallLinks \subseteq Links
  /\ IsFiniteSet(Ctrls) /\ Ctrls \subseteq Nat /\ IsFiniteSet(Sessions) /\ Sessions \subseteq Nat
  /\ None \notin Links \cup Ctrls \cup Sessions /\ NoCtrl \notin Ctrls
  /\ gPPTPtunlimit \in Nat \ {0} /\ gL2TPtunlimit \in Nat \ {0}
  /\ Kinds \subseteq {"tcp", "udp", "modem", "pppoe"} /\ MaxMsgs \in Nat

VARIABLES
  type,                \* the type of the devices
  pptp, lost,          \* of Pptp
  l2tp, stale,         \* of L2tp
  w, conf, handling    \* of Rep

P == INSTANCE Pptp
L == INSTANCE L2tp
R == INSTANCE Rep

Unused == "unused"

vars == << type, pptp, lost, l2tp, stale, w, conf, handling >>

IdlePptp == pptp = Unused /\ lost = Unused
IdleL2tp == l2tp = Unused /\ stale = Unused
IdleRep  == w = Unused /\ conf = Unused /\ handling = Unused

TypeOK ==
  CASE type = "pptp" -> P!TypeOK /\ IdleL2tp /\ IdleRep
    [] type = "l2tp" -> L!TypeOK /\ IdlePptp /\ IdleRep
    [] type = "rep"  -> R!TypeOK /\ IdlePptp /\ IdleL2tp

Init ==
  \/ type = "pptp" /\ P!Init /\ IdleL2tp /\ IdleRep
  \/ type = "l2tp" /\ L!Init /\ IdlePptp /\ IdleRep
  \/ type = "rep"  /\ R!Init /\ IdlePptp /\ IdleL2tp

Next ==
  \/ type = "pptp" /\ P!Next /\ UNCHANGED << type, l2tp, stale, w, conf, handling >>
  \/ type = "l2tp" /\ L!Next /\ UNCHANGED << type, pptp, lost, w, conf, handling >>
  \/ type = "rep"  /\ R!Next /\ UNCHANGED << type, pptp, lost, l2tp, stale >>

Spec == Init /\ [][Next]_vars

Explored == type = "l2tp" => L!Explored

----------------------------------------------------------------------------
(* Properties. *)

\* Links, calls or sessions, and control connections agree on who belongs to whom and on
\* how many there are, whichever way one of them ends: see CallsMatchLinks of Pptp and
\* TablesAgree of L2tp.
TablesAgree ==
  /\ type = "pptp" => P!CallsMatchLinks
  /\ type = "l2tp" => L!TablesAgree

\* Nothing waits for ever for a peer: whatever waits has the timer for it, and a repeater
\* waits only for an end that is on its way.
WaitsAreTimed ==
  /\ type = "pptp" => P!WaitsAreTimed
  /\ type = "l2tp" => L!WaitsAreTimed
  /\ type = "rep"  => R!RepeaterMovesOn

\* Nothing ends alone: whatever ends in L2TP, its links are told before it is freed; no end
\* of a repeater outlives the other, and a device that is down has left nothing behind, in
\* itself or in its repeater.
EndsAreTold ==
  /\ type = "l2tp" => L!EndsAreTold
  /\ type = "rep"  => R!RepeaterIsWhole /\ R!EndsAreClean

=============================================================================
