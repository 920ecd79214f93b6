------------------------------- MODULE Iface -------------------------------
(***************************************************************************)
(* The network interface of a bundle (iface.c) and the calls that take it  *)
(* up and down (BundNcpsJoin() and BundNcpsLeave() in bund.c): by the      *)
(* network protocols, by "open iface" and "close iface" for dial-on-demand,*)
(* and by its idle and session timers.                                     *)
(*                                                                         *)
(* A family is wired to the demand hook, where mpd hears outgoing packets, *)
(* or to the PPP node.  Addresses, routes, NAT and scripts come and go     *)
(* with the wire; any of them may fail.                                    *)
(***************************************************************************)
EXTENDS Integers

CONSTANTS
  IP, IPv6,          \* the families
  IFACE_IDLE_SPLIT   \* periods of the idle timer in the idle timeout

ASSUME IfaceAssumption == IP # IPv6 /\ IFACE_IDLE_SPLIT \in Nat /\ IFACE_IDLE_SPLIT > 1

VARIABLES
  iface,   \* struct ifacestate, the wires, and which protocols are opened
  conf,    \* on-demand and timeouts of the interface, protocols of the bundle
  asked,   \* the last request to the bundle
  quiet,   \* whole periods without traffic, -1 if there was some in this one, for the properties only
  manual,  \* a manual open or close came while a protocol was opened, for the properties only
  deaf     \* the family of which LayerDown has just come twice, for the properties only

vars == << iface, conf, asked, quiet, manual, deaf >>

Fams    == {IP, IPv6}
Periods == 0 .. IFACE_IDLE_SPLIT - 1

\* The point at which bringing up a family fails: before it is wired, or after it (an
\* address that cannot be set, an up-script that returns an error).
Faults == [Fams -> {"none", "early", "late"}]

TypeOK ==
  /\ iface \in [open : BOOLEAN, dod : BOOLEAN, up : BOOLEAN,
                fam : [Fams -> BOOLEAN], wire : [Fams -> {"none", "demand", "ppp"}],
                opened : [Fams -> BOOLEAN], idleTimer : BOOLEAN, sessionTimer : BOOLEAN,
                traffic : [Periods -> BOOLEAN], dodCache : BOOLEAN,
                failed : BOOLEAN, bad : SUBSET {"demand", "ppp"}]
  /\ conf \in [ondemand : BOOLEAN, enabled : SUBSET Fams, idle : BOOLEAN, session : BOOLEAN]
  /\ asked \in {"none", "open", "close"}
  /\ quiet \in -1 .. IFACE_IDLE_SPLIT /\ manual \in BOOLEAN /\ deaf \subseteq Fams

----------------------------------------------------------------------------
(* The whole interface. *)

IfaceUp(w, ready) ==
  [w EXCEPT !.up = TRUE, !.dod = ~ready, !.dodCache = FALSE,
            !.sessionTimer = ready /\ conf.session, !.idleTimer = ready /\ conf.idle,
            !.traffic = IF ready /\ conf.idle THEN [@ EXCEPT ![0] = FALSE, ![1] = TRUE] ELSE @]

\* A slip in IfaceDown(): the timers go on.
IfaceDownTimed(w) == [w EXCEPT !.up = FALSE, !.dod = FALSE]

IfaceDown(w) ==
  [w EXCEPT !.up = FALSE, !.dod = FALSE, !.idleTimer = FALSE, !.sessionTimer = FALSE]

----------------------------------------------------------------------------
(* One family. *)

\* IfaceIpIfaceDown() and IfaceIpv6IfaceDown().
FamilyDown(w, f) == IF w.fam[f] THEN [w EXCEPT !.fam[f] = FALSE, !.wire[f] = "none"] ELSE w

BothDown(w) == FamilyDown(FamilyDown(w, IP), IPv6)

\* FsmFailure(): an opened protocol goes down, and with LayerDown comes back to
\* BundNcpsLeave(), which undoes what was done.  One that is not opened undoes nothing.
Failure(w, f) ==
  IF w.opened[f] THEN [FamilyDown(w, f) EXCEPT !.opened[f] = FALSE]
  ELSE [w EXCEPT !.fam[f] = FALSE]

\* A family that is wired already cannot be wired again.
FamilyUp(w, f, ready, fault) ==
  LET how   == IF ready THEN "ppp" ELSE "demand"
      wires == w.wire[f] = "none" /\ fault[f] # "early"
      u     == [w EXCEPT !.fam[f] = TRUE, !.wire[f] = IF wires THEN how ELSE @]
  IN  IF wires /\ fault[f] = "none" THEN u
      ELSE [Failure(u, f) EXCEPT !.failed = TRUE, !.bad = @ \cup {how}]

\* For dial-on-demand; at the first that fails the rest is left out.
DemandUp(w, f, fault) ==
  IF w.failed \/ w.fam[f] \/ f \notin conf.enabled THEN w ELSE FamilyUp(w, f, FALSE, fault)

----------------------------------------------------------------------------
(* BundNcpsJoin() and BundNcpsLeave(). *)

\* A slip in BundNcpsJoin(): the demand hooks stay.
KeepsDemand(w) == [w EXCEPT !.failed = FALSE]

\* What listens for demand goes first.
EndDemand(w) ==
  LET u == [w EXCEPT !.failed = FALSE] IN IF u.dod THEN IfaceDown(BothDown(u)) ELSE u

Raise(w, ready) == IF w.failed \/ w.up THEN w ELSE IfaceUp(w, ready)

BundNcpsJoin(w, f, fault) ==
  LET u == EndDemand(w)
  IN  Raise(IF u.fam[f] THEN u ELSE FamilyUp(u, f, TRUE, fault), TRUE)

\* "open iface"
BundNcpsJoinNone(w, fault) ==
  Raise(DemandUp(DemandUp(EndDemand(w), IP, fault), IPv6, fault), FALSE)

\* Demand is listened for again, also for one family if the other one fails.
DemandAgain(w, fault) ==
  LET v == DemandUp([w EXCEPT !.failed = FALSE], IP, fault)
      u == DemandUp([v EXCEPT !.failed = FALSE], IPv6, fault)
  IN  IF \E f \in Fams : u.fam[f] THEN IfaceUp(u, FALSE) ELSE u

BundNcpsLeave(w, gone, fault) ==
  LET v == IF IP \in gone THEN FamilyDown(w, IP) ELSE w
      u == IF IPv6 \in gone THEN FamilyDown(v, IPv6) ELSE v
      d == IfaceDown(u)
  IN  CASE ~u.up \/ (\E f \in Fams : u.fam[f]) -> u
        [] u.up /\ (\A f \in Fams : ~u.fam[f]) -> IF d.open THEN DemandAgain(d, fault) ELSE d

----------------------------------------------------------------------------
(* Actions. *)

Init ==
  /\ conf \in [ondemand : BOOLEAN, enabled : (SUBSET Fams) \ {{}}, idle : BOOLEAN, session : BOOLEAN]
  /\ iface = [open |-> FALSE, dod |-> FALSE, up |-> FALSE, fam |-> [f \in Fams |-> FALSE],
              wire |-> [f \in Fams |-> "none"], opened |-> [f \in Fams |-> FALSE],
              idleTimer |-> FALSE, sessionTimer |-> FALSE,
              traffic |-> [k \in Periods |-> FALSE], dodCache |-> FALSE,
              failed |-> FALSE, bad |-> {}]
  /\ asked = "none" /\ quiet = 0 /\ manual = FALSE /\ deaf = {}

Connected == \E f \in Fams : iface.opened[f]

\* A session starts with a fresh count of quiet periods.
Counted ==
  quiet' = IF iface'.up /\ ~iface'.dod /\ (~iface.up \/ iface.dod) THEN 0 ELSE quiet

IfaceOpen(fault) ==
  /\ conf.ondemand /\ ~iface.open
  /\ iface' = BundNcpsJoinNone([iface EXCEPT !.open = TRUE], fault)
  /\ manual' = (manual \/ Connected) /\ Counted
  /\ UNCHANGED << conf, asked, deaf >>

IfaceClose ==
  /\ iface.open
  /\ iface' = BundNcpsLeave([iface EXCEPT !.open = FALSE], Fams, [f \in Fams |-> "none"])
  /\ manual' = (manual \/ Connected) /\ Counted /\ deaf' = {}
  /\ UNCHANGED << conf, asked >>

\* IpcpLayerUp(), Ipv6cpLayerUp()
LayerUp(f, fault) ==
  /\ f \in conf.enabled /\ ~iface.opened[f]
  /\ iface' = BundNcpsJoin([iface EXCEPT !.opened[f] = TRUE], f, fault)
  /\ Counted /\ deaf' = {}
  /\ UNCHANGED << conf, asked, manual >>

\* IpcpLayerDown(), Ipv6cpLayerDown(): they do not ask whether the protocol was up.
Leave(w, f, fault) == BundNcpsLeave([w EXCEPT !.opened[f] = FALSE], {f}, fault)

\* The automaton calls it from Opened.
LayerDown(f, fault) ==
  /\ iface.opened[f]
  /\ iface' = Leave(iface, f, fault)
  /\ Counted /\ deaf' = {}
  /\ UNCHANGED << conf, asked, manual >>

\* FsmRecvConfigReq() has called it when FsmFailure() calls it once more, in one handler.
LayerDownTwice(f, fault, again) ==
  /\ iface.opened[f]
  /\ iface' = Leave(Leave(iface, f, fault), f, again)
  /\ Counted /\ deaf' = {f}
  /\ UNCHANGED << conf, asked, manual >>

\* An outgoing packet comes through the demand hook.
IfaceListenInput(f) ==
  /\ iface.up /\ iface.wire[f] = "demand"
  /\ iface.open
  /\ iface' = [iface EXCEPT !.traffic[0] = TRUE, !.dodCache = TRUE]
  /\ asked' = "open" /\ quiet' = -1
  /\ UNCHANGED << conf, manual, deaf >>

\* A slip in IfaceIdleTimeout(): the oldest period is not looked at.
IsIdleEarly(w) == \A k \in Periods \ {IFACE_IDLE_SPLIT - 1} : ~w.traffic[k]

IsIdle(w) == \A k \in Periods : ~w.traffic[k]

Shifted(traffic) == [k \in Periods |-> IF k = 0 THEN FALSE ELSE traffic[k - 1]]

\* busy: the statistics of the bundle show traffic since the last time.
IfaceIdleTimeout(busy) ==
  /\ iface.idleTimer
  /\ \/ /\ ~busy /\ IsIdle(iface)
        /\ asked' = "close" /\ iface' = [iface EXCEPT !.idleTimer = FALSE]
     \/ /\ busy \/ ~IsIdle(iface)
        /\ iface' = [iface EXCEPT !.traffic = Shifted([@ EXCEPT ![0] = iface.traffic[0] \/ busy])]
        /\ UNCHANGED asked
  /\ quiet' = IF busy THEN 0 ELSE IF quiet < IFACE_IDLE_SPLIT THEN quiet + 1 ELSE quiet
  /\ UNCHANGED << conf, manual, deaf >>

IfaceSessionTimeout ==
  /\ iface.sessionTimer
  /\ iface' = [iface EXCEPT !.sessionTimer = FALSE] /\ asked' = "close"
  /\ UNCHANGED << conf, quiet, manual, deaf >>

Next ==
  \/ \E fault \in Faults : IfaceOpen(fault)
  \/ IfaceClose
  \/ \E f \in Fams, fault \in Faults : LayerUp(f, fault) \/ LayerDown(f, fault)
  \/ \E f \in Fams, fault, again \in Faults : LayerDownTwice(f, fault, again)
  \/ \E f \in Fams : IfaceListenInput(f)
  \/ \E busy \in BOOLEAN : IfaceIdleTimeout(busy)
  \/ IfaceSessionTimeout

Spec == Init /\ [][Next]_vars

----------------------------------------------------------------------------
(* Properties. *)

\* Whatever the order in which the protocols, dial-on-demand and its commands come and
\* go, an opened protocol has its family wired to the PPP node of an interface that is
\* up and no longer dials on demand.  Not so after a failure to listen for demand, or
\* after an interface was opened or closed by hand under a connection.  And as long as
\* nothing fails an open interface is never deaf: it carries traffic, or it hears the
\* demand of every protocol that is enabled.  There is one exception: the second
\* LayerDown of a refused renegotiation (fsm.c:589, 610) takes the family off the
\* demand hook that the first has just put it on.
OpenIsServed ==
  /\ "demand" \notin iface.bad /\ ~manual =>
       \A f \in Fams : iface.opened[f] => iface.up /\ ~iface.dod /\ iface.wire[f] = "ppp"
  /\ iface.open /\ iface.bad = {} /\ ~manual =>
       /\ iface.up
       /\ iface.dod <=> ~Connected
       /\ iface.dod => \A f \in conf.enabled \ deaf : iface.wire[f] = "demand"

\* A family is wired if and only if its flag says so, and the interface is up if and
\* only if a family is: what bringing up a family for an opened protocol did before
\* it failed is undone from within FsmFailure().
WiresMatchFlags ==
  "demand" \notin iface.bad =>
    /\ \A f \in Fams : iface.fam[f] <=> iface.wire[f] # "none"
    /\ iface.up <=> \E f \in Fams : iface.fam[f]

\* The timers run only while the interface carries traffic.
TimersMatch == iface.idleTimer \/ iface.sessionTimer => iface.up /\ ~iface.dod

\* Flags, wiring and timers tell the same story after a family failed in the middle of
\* coming up, a protocol left or demand began to wait again: nothing stays wired,
\* reported or timed that a session before has left behind (iface.c:1112, 1366).
FlagsAreTrue == WiresMatchFlags /\ TimersMatch

\* The idle timer closes the bundle after a whole idle timeout without traffic,
\* neither sooner nor later.
IdleClosesInTime ==
  [][ (\E busy \in BOOLEAN : IfaceIdleTimeout(busy)) =>
        (quiet' = IFACE_IDLE_SPLIT <=> ~iface'.idleTimer) ]_vars

=============================================================================
