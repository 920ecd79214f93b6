----------------------------- MODULE LinkProofs -----------------------------
(***************************************************************************)
(* The safety invariants of Link, for every limit of redials and every     *)
(* bound on the queue.                                                     *)
(*                                                                         *)
(* A handler takes the link's record through intermediate ones in which    *)
(* little but Base holds: LCP is down and the node still there, the device *)
(* gone and the link not yet told.  The first section says what is sent,   *)
(* the second what a change of LCP's state does to the record, the third   *)
(* what each event of the automaton does, the fourth restores the          *)
(* invariant at the end of the calls of link.c and phys.c, and the last    *)
(* puts them together, action by action.                                   *)
(***************************************************************************)
EXTENDS Link, TLAPS

Confs == [passive : BOOLEAN, acct : BOOLEAN, maxRedial : MaxRedials]

Has(k, m) == \E i \in DOMAIN k.msgs : k.msgs[i] = m

Dead == {"Initial", "Starting"}

PhaseFits(k) ==
  CASE k.lcp \in {"Initial", "Starting"} -> k.phase = "Dead"
    [] k.lcp \in {"Closed", "Stopped", "Negotiating"} -> k.phase = "Establish"
    [] k.lcp \in {"Closing", "Stopping"} -> k.phase = "Terminate"
    [] k.lcp = "Opened" -> k.phase \in {"Authenticate", "Network"}

\* What holds between the calls of one handler too.
Base(k) ==
  /\ k \in Links /\ PhaseFits(k) /\ k.failed # "phase"
  /\ k.joined => k.phase = "Network"
  /\ k.die => ~k.stay

Authenticates(k) == k.auth <=> k.phase = "Authenticate"

\* A link that LinkShutdownCheck() lets go, and one that it let go.
Disposable(k) == k.die /\ ~k.stay /\ k.lcp = "Initial" /\ k.phys = "Down" /\ k.acct = "none"
Buried(k)     == k.dead => k.lcp \in Dead

\* A link that is to go may be dialled once more, but its device does not come up.
Goes(k) ==
  Has(k, "shutdown") /\ ~k.dead =>
    k.die /\ k.lcp \in Dead /\ k.phys \in {"Down", "Connecting"}

Holds(k) ==
  ~k.dead => (k.node <=> k.lcp \in {"Starting", "Negotiating", "Opened", "Closing", "Stopping"})

\* What is still to be handled.
Releases(k) ==
  ~k.dead /\ k.phys # "Down" =>
     /\ k.lcp = "Stopped" => Has(k, "physClose")
     /\ k.lcp \in {"Initial", "Closed"} => Has(k, "physClose") \/ Has(k, "open")

Disposes(k) == ~k.dead /\ Disposable(k) => Has(k, "shutdown")

Admits(k) ==
  ~k.dead /\ k.phase = "Network" /\ ~k.joined /\ ~conf.passive => Has(k, "physClose")

Dials(k) == ~k.dead /\ k.lcp = "Starting" /\ k.phys = "Down" => k.openTimer \/ Has(k, "physOpen")

Rises(k)  == k.lcp \notin Dead => k.phys = "Up"
Called(k) == k.incoming => k.phys # "Down"

\* What no message and no event of the automaton may break, and what the handlers
\* restore before they return.
Sound(k) == Base(k) /\ Buried(k) /\ Goes(k)
Kept(k)  == Sound(k) /\ Authenticates(k)
Whole(k) == Kept(k) /\ Rises(k) /\ Disposes(k) /\ Admits(k) /\ Dials(k) /\ Called(k)

\* Where the node and the device are left alone.
NodeKept   == ~conf.passive /\ "denied" \notin history
DeviceKept == ~conf.passive /\ history = {}

IInv ==
  /\ conf \in Confs /\ handling \in BOOLEAN /\ gShutdownInProgress \in BOOLEAN
  /\ history \subseteq {"rawOpen", "destroyed", "denied"}
  /\ Whole(l)
  /\ NodeKept => Holds(l)
  /\ DeviceKept => Releases(l)
  /\ Has(l, "shutdown") /\ ~l.dead /\ ~handling => l.phys = "Down"

USE LinkAssumption

----------------------------------------------------------------------------
(* Messages. *)

\* Everything but the messages, whether one could be sent, and a few fields that a lemma
\* names apart.
SameLcp(k, u)    == u.lcp = k.lcp /\ u.phase = k.phase /\ u.joined = k.joined /\ u.acct = k.acct
SameDevice(k, u) ==
  /\ u.phys = k.phys /\ u.opened = k.opened /\ u.incoming = k.incoming
  /\ u.openTimer = k.openTimer /\ u.stay = k.stay /\ u.die = k.die /\ u.dead = k.dead
SameLower(k, u)  == u.node = k.node /\ u.auth = k.auth

\* Nothing is lost from the queue, and only what is in S is added.
Sent(k, u, S) ==
  /\ \A m \in Messages : Has(k, m) => Has(u, m)
  /\ \A m \in Messages : Has(u, m) => Has(k, m) \/ m \in S

LEMMA HasSame ==
  ASSUME NEW k, NEW u, u.msgs = k.msgs, NEW S
  PROVE  Sent(k, u, S)
  BY DEF Sent, Has

LEMMA HasAppend ==
  ASSUME NEW s \in Seq(Messages), NEW m \in Messages, NEW n
  PROVE  (\E i \in DOMAIN Append(s, m) : Append(s, m)[i] = n)
           <=> (\E i \in DOMAIN s : s[i] = n) \/ n = m
<1>1. /\ Len(Append(s, m)) = Len(s) + 1 /\ Append(s, m)[Len(s) + 1] = m
      /\ \A i \in 1 .. Len(s) : Append(s, m)[i] = s[i]
      /\ DOMAIN s = 1 .. Len(s) /\ DOMAIN Append(s, m) = 1 .. Len(s) + 1 /\ Len(s) \in Nat
  OBVIOUS
<1>2. ASSUME NEW i \in DOMAIN Append(s, m), Append(s, m)[i] = n
      PROVE  (\E j \in DOMAIN s : s[j] = n) \/ n = m
  <2>1. CASE i = Len(s) + 1
    BY <1>1, <1>2, <2>1
  <2>2. CASE i # Len(s) + 1
    <3>1. i \in 1 .. Len(s)
      BY <1>1, <2>2
    <3>2. s[i] = n
      BY <1>1, <1>2, <3>1
    <3> QED
      BY <1>1, <3>1, <3>2
  <2> QED
    BY <2>1, <2>2
<1>3. ASSUME NEW i \in DOMAIN s, s[i] = n
      PROVE  \E j \in DOMAIN Append(s, m) : Append(s, m)[j] = n
  <2>1. i \in DOMAIN Append(s, m) /\ Append(s, m)[i] = n
    BY <1>1, <1>3
  <2> QED
    BY <2>1
<1>4. Len(s) + 1 \in DOMAIN Append(s, m)
  BY <1>1
<1> QED
  BY <1>1, <1>2, <1>3, <1>4

LEMMA NothingQueued ==
  ASSUME NEW k, k.msgs = << >>, NEW m
  PROVE  ~Has(k, m)
<1>1. DOMAIN << >> = {}
  OBVIOUS
<1> QED
  BY <1>1 DEF Has

\* What is left when the first message has been taken.
LEMMA HasTail ==
  ASSUME NEW s \in Seq(Messages), s # << >>, NEW n
  PROVE  /\ Tail(s) \in Seq(Messages) /\ Head(s) \in Messages
         /\ (\E i \in DOMAIN s : s[i] = n)
              <=> (\E i \in DOMAIN Tail(s) : Tail(s)[i] = n) \/ n = Head(s)
<1>1. /\ Len(s) \in Nat \ {0} /\ DOMAIN s = 1 .. Len(s) /\ Head(s) = s[1]
      /\ Tail(s) \in Seq(Messages) /\ Head(s) \in Messages
      /\ Len(Tail(s)) = Len(s) - 1 /\ DOMAIN Tail(s) = 1 .. Len(s) - 1
      /\ \A i \in 1 .. Len(s) - 1 : Tail(s)[i] = s[i + 1]
  OBVIOUS
<1>2. ASSUME NEW i \in DOMAIN s, s[i] = n
      PROVE  (\E j \in DOMAIN Tail(s) : Tail(s)[j] = n) \/ n = Head(s)
  <2>1. CASE i = 1
    BY <1>1, <1>2, <2>1
  <2>2. CASE i # 1
    <3>1. i - 1 \in 1 .. Len(s) - 1 /\ (i - 1) + 1 = i
      BY <1>1, <2>2
    <3>2. Tail(s)[i - 1] = n
      BY <1>1, <1>2, <3>1
    <3> QED
      BY <1>1, <3>1, <3>2
  <2> QED
    BY <2>1, <2>2
<1>3. ASSUME NEW i \in DOMAIN Tail(s), Tail(s)[i] = n
      PROVE  \E j \in DOMAIN s : s[j] = n
  <2>1. i + 1 \in DOMAIN s /\ s[i + 1] = n
    BY <1>1, <1>3
  <2> QED
    BY <2>1
<1>4. 1 \in DOMAIN s
  BY <1>1
<1> QED
  BY <1>1, <1>2, <1>3, <1>4

LEMMA SendFields ==
  ASSUME NEW k \in Links, NEW m \in Messages
  PROVE  LET u == MsgSend(k, m) IN
         /\ u \in Links /\ SameLcp(k, u) /\ SameDevice(k, u) /\ SameLower(k, u)
         /\ u.redial = k.redial
         /\ u.failed = "phase" => k.failed = "phase"
         /\ Sent(k, u, {m})
         /\ ~k.dead => Has(u, m)
<1>1. CASE k.dead
  BY <1>1 DEF MsgSend, Links, SameLcp, SameDevice, SameLower, Sent, Has
<1>2. CASE ~k.dead
  <2> DEFINE s == Append(k.msgs, m)
             u == [k EXCEPT !.msgs = s]
  <2>1. MsgSend(k, m) = u
    BY <1>2 DEF MsgSend
  <2>2. k.msgs \in Seq(Messages) /\ s \in Seq(Messages)
    BY DEF Links
  <2>3. \A n : (\E i \in DOMAIN s : s[i] = n) <=> (\E i \in DOMAIN k.msgs : k.msgs[i] = n) \/ n = m
    BY <2>2, HasAppend
  <2> HIDE DEF s
  <2>4. /\ u \in Links /\ SameLcp(k, u) /\ SameDevice(k, u) /\ SameLower(k, u)
        /\ u.redial = k.redial /\ u.failed = k.failed /\ u.msgs = s
    BY <2>2 DEF Links, SameLcp, SameDevice, SameLower
  <2> HIDE DEF u
  <2>5. \A n : Has(u, n) <=> Has(k, n) \/ n = m
    BY <2>3, <2>4 DEF Has
  <2> QED
    BY <2>1, <2>4, <2>5 DEF Sent
<1> QED
  BY <1>1, <1>2 DEF Links

\* The check lets go a link that is disposable once LCP is in the state it is told.
LEMMA CheckFields ==
  ASSUME NEW k \in Links, NEW state \in LcpStates
  PROVE  LET u == LinkShutdownCheck(k, state) IN
         /\ u \in Links /\ SameLcp(k, u) /\ SameDevice(k, u) /\ SameLower(k, u)
         /\ u.redial = k.redial
         /\ u.failed = "phase" => k.failed = "phase"
         /\ Sent(k, u, {"shutdown"})
         /\ LET goes == state = "Initial" /\ Disposable([k EXCEPT !.lcp = state]) IN
            /\ goes /\ ~k.dead => Has(u, "shutdown")
            /\ ~goes => u = k
<1> DEFINE goes == state = "Initial" /\ k.acct = "none" /\ k.die /\ ~k.stay /\ k.phys = "Down"
<1>1. goes <=> state = "Initial" /\ Disposable([k EXCEPT !.lcp = state])
  BY DEF Disposable, Links
<1>2. CASE goes
  BY <1>1, <1>2, SendFields DEF LinkShutdownCheck, Messages
<1>3. CASE ~goes
  <2>1. LinkShutdownCheck(k, state) = k
    BY <1>3 DEF LinkShutdownCheck
  <2> QED
    BY <1>1, <1>3, <2>1, HasSame DEF SameLcp, SameDevice, SameLower
<1> QED
  BY <1>2, <1>3

----------------------------------------------------------------------------
(* Changes of LCP's state. *)

LEMMA AcctFields ==
  ASSUME NEW k \in Links, NEW type \in {"session", "stop"}
  PROVE  LET u == AuthAccountStart(k, type) IN
         /\ u \in Links /\ SameDevice(k, u) /\ SameLower(k, u) /\ u.lcp = k.lcp
         /\ u.phase = k.phase /\ u.joined = k.joined /\ u.failed = k.failed /\ u.msgs = k.msgs
<1> DEFINE acct == IF conf.acct THEN type ELSE "none"
<1>1. acct \in {"none", "session", "stop"}
  OBVIOUS
<1>2. AuthAccountStart(k, type) = [k EXCEPT !.acct = acct]
  BY DEF AuthAccountStart
<1> HIDE DEF acct
<1> QED
  BY <1>1, <1>2 DEF Links, SameDevice, SameLower

\* A shift leaves the bundle; it only concerns the phase.
LEMMA ShiftFields ==
  ASSUME NEW k \in Links, NEW new \in Phases
  PROVE  LET u == ShiftPhase(k, new) IN
         /\ u \in Links /\ SameDevice(k, u) /\ SameLower(k, u) /\ u.lcp = k.lcp
         /\ u.phase = new /\ u.msgs = k.msgs
         /\ u.joined <=> k.joined /\ k.phase # "Network"
         /\ << k.phase, new >> \in PhaseShifts => u.failed = k.failed
<1> DEFINE p == LeavePhase(k)
           failed == IF << k.phase, new >> \in PhaseShifts THEN p.failed ELSE "phase"
           u == [p EXCEPT !.phase = new, !.failed = failed]
<1>1. /\ p \in Links /\ SameDevice(k, p) /\ SameLower(k, p) /\ p.lcp = k.lcp
      /\ p.failed = k.failed /\ p.msgs = k.msgs
      /\ p.joined <=> k.joined /\ k.phase # "Network"
  <2>1. CASE k.phase = "Network" /\ k.joined
    <3> DEFINE q == AuthAccountStart(k, "stop")
    <3>1. /\ q \in Links /\ SameDevice(k, q) /\ SameLower(k, q) /\ q.lcp = k.lcp
          /\ q.failed = k.failed /\ q.msgs = k.msgs
      BY AcctFields
    <3>2. p = [q EXCEPT !.joined = FALSE]
      BY <2>1 DEF LeavePhase, BundLeave
    <3> HIDE DEF q, p
    <3> QED
      BY <2>1, <3>1, <3>2 DEF Links, SameDevice, SameLower
  <2>2. CASE ~(k.phase = "Network" /\ k.joined)
    BY <2>2 DEF LeavePhase, Links, SameDevice, SameLower
  <2> QED
    BY <2>1, <2>2
<1>2. ShiftPhase(k, new) = u
  BY DEF ShiftPhase
<1> HIDE DEF p
<1>3. failed \in {"none", "phase", "send"}
  BY <1>1 DEF Links
<1>4. << k.phase, new >> \in PhaseShifts => failed = k.failed
  BY <1>1
<1> HIDE DEF failed
<1>5. u \in Links /\ SameDevice(p, u) /\ SameLower(p, u) /\ u.lcp = p.lcp
      /\ u.phase = new /\ u.msgs = p.msgs /\ u.joined = p.joined /\ u.failed = failed
  BY <1>1, <1>3, ZenonT(60) DEF Links, SameDevice, SameLower, Phases
<1> HIDE DEF u
<1> QED
  BY <1>1, <1>2, <1>4, <1>5 DEF SameDevice, SameLower

\* The changes of state that the handlers make, Opened apart.
Turns(old, new) ==
  CASE old = "Initial"     -> new \in {"Starting", "Closed"}
    [] old = "Starting"    -> new \in {"Initial", "Negotiating"}
    [] old = "Closed"      -> new \in {"Negotiating", "Initial"}
    [] old = "Stopped"     -> new \in {"Closed", "Starting", "Negotiating"}
    [] old = "Closing"     -> new \in {"Closed", "Stopping", "Initial"}
    [] old = "Stopping"    -> new \in {"Stopped", "Closing", "Starting"}
    [] old = "Negotiating" -> new \in {"Stopped", "Closing", "Starting"}
    [] old = "Opened"      -> new \in {"Stopping", "Closing", "Starting", "Negotiating"}

\* The phase that a state other than Opened goes with.
PhaseOf(state) ==
  CASE state \in {"Initial", "Starting"} -> "Dead"
    [] state \in {"Closed", "Stopped", "Negotiating"} -> "Establish"
    [] state \in {"Closing", "Stopping"} -> "Terminate"

LEMMA PhaseFields ==
  ASSUME NEW k, Base(k), NEW new \in LcpStates, Turns(k.lcp, new)
  PROVE  LET u == LcpNewPhase(k, k.lcp, new) IN
         /\ u \in Links /\ SameDevice(k, u) /\ SameLower(k, u) /\ u.lcp = k.lcp
         /\ u.msgs = k.msgs /\ u.failed # "phase"
         /\ u.phase = PhaseOf(new) /\ ~u.joined
<1> DEFINE u == LcpNewPhase(k, k.lcp, new)
           ph == PhaseOf(new)
<1>1. k \in Links /\ k.lcp \in LcpStates /\ k.phase \in Phases /\ ph \in Phases
  BY DEF Base, Links, Turns, PhaseOf, Phases, LcpStates
<1>2. \/ u = ShiftPhase(k, ph) /\ << k.phase, ph >> \in PhaseShifts
      \/ u = k /\ k.phase = ph
  <2>1. CASE k.lcp = "Initial"
    BY <2>1 DEF Base, PhaseFits, Turns, LcpNewPhase, PhaseOf, PhaseShifts
  <2>2. CASE k.lcp = "Starting"
    BY <2>2 DEF Base, PhaseFits, Turns, LcpNewPhase, PhaseOf, PhaseShifts
  <2>3. CASE k.lcp = "Closed"
    BY <2>3 DEF Base, PhaseFits, Turns, LcpNewPhase, PhaseOf, PhaseShifts
  <2>4. CASE k.lcp = "Stopped"
    BY <2>4 DEF Base, PhaseFits, Turns, LcpNewPhase, PhaseOf, PhaseShifts
  <2>5. CASE k.lcp = "Closing"
    BY <2>5 DEF Base, PhaseFits, Turns, LcpNewPhase, PhaseOf, PhaseShifts
  <2>6. CASE k.lcp = "Stopping"
    BY <2>6 DEF Base, PhaseFits, Turns, LcpNewPhase, PhaseOf, PhaseShifts
  <2>7. CASE k.lcp = "Negotiating"
    BY <2>7 DEF Base, PhaseFits, Turns, LcpNewPhase, PhaseOf, PhaseShifts
  <2>8. CASE k.lcp = "Opened"
    BY <2>8 DEF Base, PhaseFits, Turns, LcpNewPhase, PhaseOf, PhaseShifts
  <2> QED
    BY <1>1, <2>1, <2>2, <2>3, <2>4, <2>5, <2>6, <2>7, <2>8 DEF LcpStates
<1>3. ph # "Network"
  BY DEF Turns, PhaseOf, Base, Links, LcpStates
<1>4. CASE u = ShiftPhase(k, ph) /\ << k.phase, ph >> \in PhaseShifts
  <2> HIDE DEF ph
  <2>1. /\ ShiftPhase(k, ph) \in Links /\ SameDevice(k, ShiftPhase(k, ph))
        /\ SameLower(k, ShiftPhase(k, ph)) /\ ShiftPhase(k, ph).lcp = k.lcp
        /\ ShiftPhase(k, ph).phase = ph /\ ShiftPhase(k, ph).msgs = k.msgs
        /\ (ShiftPhase(k, ph).joined <=> k.joined /\ k.phase # "Network")
        /\ ShiftPhase(k, ph).failed = k.failed
    BY <1>1, <1>4, ShiftFields
  <2> HIDE DEF u
  <2> QED
    BY <1>1, <1>3, <1>4, <2>1 DEF Base, ph, u
<1>5. CASE u = k /\ k.phase = ph
  <2> HIDE DEF u, ph
  <2> QED
    BY <1>1, <1>3, <1>5 DEF Base, SameDevice, SameLower, u, ph
<1> QED
  BY <1>2, <1>4, <1>5

\* A change of state in the middle of a handler: the phase goes with it, and a link that
\* can go is told.
LEMMA NewStateFields ==
  ASSUME NEW k, Base(k), NEW new \in LcpStates, Turns(k.lcp, new)
  PROVE  LET u == NewState(k, new) IN
         /\ Base(u) /\ SameDevice(k, u) /\ SameLower(k, u)
         /\ u.lcp = new /\ u.phase = PhaseOf(new) /\ ~u.joined
         /\ Sent(k, u, {"shutdown"})
         /\ Disposable(u) /\ ~u.dead => Has(u, "shutdown")
         /\ ~Disposable(u) => Sent(k, u, {})
<1> DEFINE p == LcpNewPhase(k, k.lcp, new)
           c == LinkShutdownCheck(p, new)
           u == [c EXCEPT !.lcp = new]
<1>1. /\ p \in Links /\ SameDevice(k, p) /\ SameLower(k, p)
      /\ p.msgs = k.msgs /\ p.failed # "phase"
      /\ p.phase = PhaseOf(new) /\ ~p.joined
  BY PhaseFields
<1>2. Sent(k, p, {})
  BY <1>1, HasSame
<1> HIDE DEF p
<1>3. /\ c \in Links /\ SameLcp(p, c) /\ SameDevice(p, c) /\ SameLower(p, c)
      /\ c.failed = "phase" => p.failed = "phase"
      /\ Sent(p, c, {"shutdown"})
      /\ new = "Initial" /\ Disposable([p EXCEPT !.lcp = new]) /\ ~p.dead => Has(c, "shutdown")
      /\ ~(new = "Initial" /\ Disposable([p EXCEPT !.lcp = new])) => c = p
  BY <1>1, CheckFields
<1> HIDE DEF c
<1>4. /\ u \in Links /\ SameDevice(c, u) /\ SameLower(c, u) /\ u.msgs = c.msgs
      /\ u.failed = c.failed /\ u.lcp = new /\ u.phase = c.phase /\ u.joined = c.joined
      /\ u.acct = c.acct
  BY <1>3 DEF Links, SameDevice, SameLower
<1>5. Sent(c, u, {})
  BY <1>4, HasSame
<1>6. Has(c, "shutdown") <=> Has(u, "shutdown")
  BY <1>4 DEF Has
<1>7. NewState(k, new) = u
  BY DEF NewState, c, p
<1>8. Disposable(u) <=> new = "Initial" /\ Disposable([p EXCEPT !.lcp = new])
  BY <1>1, <1>3, <1>4 DEF Disposable, SameDevice, SameLcp, Links
<1> HIDE DEF u
<1>9. SameDevice(k, u) /\ SameLower(k, u) /\ u.phase = PhaseOf(new) /\ ~u.joined
  BY <1>1, <1>3, <1>4 DEF SameDevice, SameLower, SameLcp
<1>10. Base(u)
  <2>1. PhaseFits(u)
    BY <1>4, <1>9 DEF PhaseFits, PhaseOf, Turns, Base, Links, LcpStates
  <2> QED
    BY <1>1, <1>3, <1>4, <1>9, <2>1 DEF Base, SameDevice
<1>11. Sent(k, u, {"shutdown"})
  BY <1>2, <1>3, <1>5 DEF Sent
<1>12. ~Disposable(u) => Sent(k, u, {})
  BY <1>2, <1>3, <1>5, <1>8 DEF Sent
<1>13. Disposable(u) /\ ~u.dead => Has(u, "shutdown")
  BY <1>1, <1>3, <1>4, <1>6, <1>8 DEF SameDevice
<1> QED
  BY <1>4, <1>7, <1>9, <1>10, <1>11, <1>12, <1>13

----------------------------------------------------------------------------
(* Layer methods and events of the automaton. *)

\* A layer method changes nothing that the base of the invariant is about.
LEMMA BaseSame ==
  ASSUME NEW k, NEW u \in Links, Base(k), SameLcp(k, u), SameDevice(k, u),
         u.failed = "phase" => k.failed = "phase"
  PROVE  Base(u)
  BY DEF Base, PhaseFits, SameLcp, SameDevice

LEMMA LayerStartFields ==
  ASSUME NEW k, Base(k)
  PROVE  LET u == LcpLayerStart(k) IN
         /\ Base(u) /\ SameLcp(k, u) /\ SameDevice(k, u)
         /\ u.node = ~k.node /\ u.auth = k.auth
         /\ Sent(k, u, {"physOpen"})
         /\ ~k.dead /\ ~k.openTimer => Has(u, "physOpen")
<1> DEFINE n == LinkNgInit(k)
<1>1. /\ n \in Links /\ SameLcp(k, n) /\ SameDevice(k, n) /\ n.auth = k.auth
      /\ n.node = ~k.node /\ n.msgs = k.msgs /\ n.failed = k.failed
  BY DEF LinkNgInit, Base, Links, SameLcp, SameDevice
<1>2. Sent(k, n, {"physOpen"})
  BY <1>1, HasSame
<1>3. LcpLayerStart(k) = IF k.openTimer THEN n ELSE MsgSend(n, "physOpen")
  BY DEF LcpLayerStart
<1> HIDE DEF n
<1>4. CASE k.openTimer
  BY <1>1, <1>2, <1>3, <1>4, BaseSame
<1>5. CASE ~k.openTimer
  <2> DEFINE u == MsgSend(n, "physOpen")
  <2>1. /\ u \in Links /\ SameLcp(n, u) /\ SameDevice(n, u) /\ SameLower(n, u)
        /\ u.failed = "phase" => n.failed = "phase"
        /\ Sent(n, u, {"physOpen"})
        /\ ~n.dead => Has(u, "physOpen")
    BY <1>1, SendFields DEF Messages
  <2> HIDE DEF u
  <2>2. SameLcp(k, u) /\ SameDevice(k, u) /\ u.node = ~k.node /\ u.auth = k.auth
    BY <1>1, <2>1 DEF SameLcp, SameDevice, SameLower
  <2>3. Base(u)
    BY <1>1, <2>1, <2>2, BaseSame
  <2>4. Sent(k, u, {"physOpen"})
    BY <1>2, <2>1 DEF Sent
  <2>5. LcpLayerStart(k) = u
    BY <1>3, <1>5 DEF u
  <2> QED
    BY <1>1, <2>1, <2>2, <2>3, <2>4, <2>5 DEF SameDevice
<1> QED
  BY <1>4, <1>5

LEMMA AuthStopFields ==
  ASSUME NEW k \in Links
  PROVE  LET u == AuthStop(k) IN
         /\ u \in Links /\ SameLcp(k, u) /\ SameDevice(k, u) /\ u.node = k.node /\ ~u.auth
         /\ u.failed = k.failed /\ u.msgs = k.msgs
         /\ Sent(k, u, {}) /\ (Base(k) => Base(u))
<1> DEFINE u == AuthStop(k)
<1>1. /\ u \in Links /\ SameLcp(k, u) /\ SameDevice(k, u) /\ u.node = k.node /\ ~u.auth
      /\ u.failed = k.failed /\ u.msgs = k.msgs
  BY DEF AuthStop, Links, SameLcp, SameDevice
<1> HIDE DEF u
<1>2. Sent(k, u, {}) /\ (Base(k) => Base(u))
  BY <1>1, BaseSame, HasSame
<1> QED
  BY <1>1, <1>2 DEF u

LEMMA LayerDownFields ==
  ASSUME NEW k, Base(k)
  PROVE  LET u == LcpLayerDown(k) IN
         /\ Base(u) /\ SameLcp(k, u) /\ SameDevice(k, u)
         /\ u.node = k.node /\ ~u.auth /\ Sent(k, u, {})
  BY AuthStopFields DEF LcpLayerDown, Base

LEMMA LayerFinishFields ==
  ASSUME NEW k \in Links
  PROVE  LET u == LcpLayerFinish(k) IN
         /\ u \in Links /\ SameLcp(k, u) /\ SameDevice(k, u)
         /\ u.failed = "phase" => k.failed = "phase"
         /\ Base(k) => Base(u)
         /\ ~u.node /\ ~u.auth
         /\ Sent(k, u, {"physClose"})
         /\ ~k.dead => Has(u, "physClose")
<1> DEFINE a == AuthStop(k)
           s == MsgSend(a, "physClose")
           u == [s EXCEPT !.node = FALSE]
<1>1. /\ a \in Links /\ SameLcp(k, a) /\ SameDevice(k, a) /\ ~a.auth /\ Sent(k, a, {})
      /\ a.failed = k.failed
  BY AuthStopFields
<1> HIDE DEF a
<1>2. /\ s \in Links /\ SameLcp(a, s) /\ SameDevice(a, s) /\ SameLower(a, s)
      /\ s.failed = "phase" => a.failed = "phase"
      /\ Sent(a, s, {"physClose"})
      /\ ~a.dead => Has(s, "physClose")
  BY <1>1, SendFields DEF Messages
<1> HIDE DEF s
<1>3. /\ u \in Links /\ SameLcp(s, u) /\ SameDevice(s, u) /\ u.auth = s.auth /\ ~u.node
      /\ u.msgs = s.msgs /\ u.failed = s.failed
  BY <1>2 DEF Links, SameLcp, SameDevice
<1>4. LcpLayerFinish(k) = u
  BY DEF LcpLayerFinish, a, s
<1> HIDE DEF u
<1>5. SameLcp(k, u) /\ SameDevice(k, u) /\ ~u.auth
  BY <1>1, <1>2, <1>3 DEF SameLcp, SameDevice, SameLower
<1>6. Base(k) => Base(u)
  BY <1>1, <1>2, <1>3, <1>5, BaseSame
<1>7. /\ Has(s, "physClose") => Has(u, "physClose")
      /\ \A m \in Messages : Has(u, m) <=> Has(s, m)
  BY <1>3 DEF Has
<1>8. Sent(k, u, {"physClose"}) /\ (~k.dead => Has(u, "physClose"))
  BY <1>1, <1>2, <1>7 DEF Sent, SameDevice
<1> QED
  BY <1>1, <1>2, <1>3, <1>4, <1>5, <1>6, <1>8

\* What every event of the automaton keeps to: the device is not touched, no message is
\* lost, and a link that can go with the new state, and no other, is told.
Moved(k, u) ==
  /\ Base(u) /\ SameDevice(k, u)
  /\ \A m \in Messages : Has(k, m) => Has(u, m)
  /\ Has(u, "shutdown") => Has(k, "shutdown") \/ Disposable(u)
  /\ u.lcp # k.lcp /\ Disposable(u) /\ ~u.dead => Has(u, "shutdown")
  /\ u.lcp = k.lcp => SameLcp(k, u)

LEMMA MovedByNewState ==
  ASSUME NEW k, Base(k), NEW new \in LcpStates, Turns(k.lcp, new)
  PROVE  LET u == NewState(k, new) IN
         Moved(k, u) /\ SameLower(k, u) /\ u.lcp = new
<1> DEFINE u == NewState(k, new)
<1>1. /\ Base(u) /\ SameDevice(k, u) /\ SameLower(k, u) /\ u.lcp = new
      /\ Sent(k, u, {"shutdown"})
      /\ Disposable(u) /\ ~u.dead => Has(u, "shutdown")
      /\ ~Disposable(u) => Sent(k, u, {})
  BY NewStateFields
<1>2. new # k.lcp
  BY DEF Turns, Base, Links, LcpStates
<1> HIDE DEF u
<1>3. Has(u, "shutdown") => Has(k, "shutdown") \/ Disposable(u)
  BY <1>1 DEF Sent, Messages
<1>4. \A m \in Messages : Has(k, m) => Has(u, m)
  BY <1>1 DEF Sent
<1>5. Moved(k, u)
  BY <1>1, <1>2, <1>3, <1>4 DEF Moved
<1> QED
  BY <1>1, <1>5 DEF u

LEMMA MovedThenSame ==
  ASSUME NEW k, NEW v, NEW u, NEW S \in SUBSET {"physOpen", "physClose"},
         Moved(k, v), Base(u), SameLcp(v, u), SameDevice(v, u), Sent(v, u, S)
  PROVE  Moved(k, u)
<1>1. \A m \in Messages : Has(v, m) => Has(u, m)
  BY DEF Sent
<1>2. Has(u, "shutdown") <=> Has(v, "shutdown")
  BY DEF Sent, Messages
<1>3. Disposable(u) <=> Disposable(v)
  BY DEF Disposable, SameLcp, SameDevice
<1>4. SameDevice(k, u) /\ u.lcp = v.lcp /\ u.dead = v.dead
  BY DEF Moved, SameDevice, SameLcp
<1>5. u.lcp = k.lcp => SameLcp(k, u)
  BY DEF Moved, SameLcp
<1> QED
  BY <1>1, <1>2, <1>3, <1>4, <1>5 DEF Moved

LEMMA MovedNot ==
  ASSUME NEW k, Base(k)
  PROVE  Moved(k, k)
  BY DEF Moved, SameDevice, SameLcp

LEMMA OpenMoves ==
  ASSUME NEW k, Base(k)
  PROVE  LET u == LcpOpen(k) IN
         /\ Moved(k, u) /\ u.auth = k.auth
         /\ \/ /\ k.lcp = "Initial" /\ u.lcp = "Starting" /\ u.node = ~k.node
               /\ ~k.dead /\ ~k.openTimer => Has(u, "physOpen")
            \/ k.lcp = "Closed" /\ u.lcp = "Negotiating" /\ u.node = ~k.node
            \/ k.lcp = "Closing" /\ u.lcp = "Stopping" /\ u.node = k.node
            \/ k.lcp \notin {"Initial", "Closed", "Closing"} /\ u = k
<1> DEFINE u == LcpOpen(k)
<1>1. CASE k.lcp = "Initial"
  <2> DEFINE v == NewState(k, "Starting")
  <2>1. Moved(k, v) /\ SameLower(k, v) /\ v.lcp = "Starting"
    <3>1. Turns(k.lcp, "Starting") /\ "Starting" \in LcpStates
      BY <1>1 DEF Turns, LcpStates
    <3> QED
      BY <3>1, MovedByNewState
  <2>2. u = LcpLayerStart(v)
    BY <1>1 DEF LcpOpen
  <2> HIDE DEF v, u
  <2>3. /\ Base(u) /\ SameLcp(v, u) /\ SameDevice(v, u)
        /\ u.node = ~v.node /\ u.auth = v.auth /\ Sent(v, u, {"physOpen"})
        /\ ~v.dead /\ ~v.openTimer => Has(u, "physOpen")
    BY <2>1, <2>2, LayerStartFields DEF Moved
  <2>4. Moved(k, u)
    BY <2>1, <2>3, MovedThenSame
  <2>5. u.lcp = "Starting" /\ u.auth = k.auth /\ u.node = ~k.node
        /\ (~k.dead /\ ~k.openTimer => Has(u, "physOpen"))
    BY <2>1, <2>3 DEF Moved, SameLcp, SameLower, SameDevice
  <2> QED
    BY <1>1, <2>4, <2>5 DEF u
<1>2. CASE k.lcp = "Closed"
  <2> DEFINE v == NewState(k, "Negotiating")
  <2>1. Moved(k, v) /\ SameLower(k, v) /\ v.lcp = "Negotiating"
    <3>1. Turns(k.lcp, "Negotiating") /\ "Negotiating" \in LcpStates
      BY <1>2 DEF Turns, LcpStates
    <3> QED
      BY <3>1, MovedByNewState
  <2>2. u = LcpLayerStart(v)
    BY <1>2 DEF LcpOpen
  <2> HIDE DEF v, u
  <2>3. /\ Base(u) /\ SameLcp(v, u) /\ SameDevice(v, u)
        /\ u.node = ~v.node /\ u.auth = v.auth /\ Sent(v, u, {"physOpen"})
    BY <2>1, <2>2, LayerStartFields DEF Moved
  <2>4. Moved(k, u)
    BY <2>1, <2>3, MovedThenSame
  <2>5. u.lcp = "Negotiating" /\ u.auth = k.auth /\ u.node = ~k.node
    BY <2>1, <2>3 DEF SameLcp, SameLower
  <2> QED
    BY <1>2, <2>4, <2>5 DEF u
<1>3. CASE k.lcp = "Closing"
  <2> DEFINE v == NewState(k, "Stopping")
  <2>1. Moved(k, v) /\ SameLower(k, v) /\ v.lcp = "Stopping"
    <3>1. Turns(k.lcp, "Stopping") /\ "Stopping" \in LcpStates
      BY <1>3 DEF Turns, LcpStates
    <3> QED
      BY <3>1, MovedByNewState
  <2>2. u = v
    BY <1>3 DEF LcpOpen
  <2> HIDE DEF v
  <2> QED
    BY <1>3, <2>1, <2>2 DEF SameLower
<1>4. CASE k.lcp \notin {"Initial", "Closed", "Closing"}
  <2>1. u = k
    BY <1>4 DEF LcpOpen
  <2> QED
    BY <1>4, <2>1, MovedNot
<1> QED
  BY <1>1, <1>2, <1>3, <1>4

LEMMA CloseMoves ==
  ASSUME NEW k, Base(k)
  PROVE  LET u == LcpClose(k) IN
         /\ Moved(k, u)
         /\ \/ /\ k.lcp = "Starting" /\ u.lcp = "Initial" /\ ~u.node /\ ~u.auth
               /\ ~k.dead => Has(u, "physClose")
            \/ k.lcp = "Stopped" /\ u.lcp = "Closed" /\ SameLower(k, u)
            \/ k.lcp \in {"Stopping", "Negotiating"} /\ u.lcp = "Closing" /\ SameLower(k, u)
            \/ k.lcp = "Opened" /\ u.lcp = "Closing" /\ u.node = k.node /\ ~u.auth
            \/ k.lcp \in {"Initial", "Closed", "Closing"} /\ u = k
<1> DEFINE u == LcpClose(k)
<1>1. CASE k.lcp = "Starting"
  <2> DEFINE v == NewState(k, "Initial")
  <2>1. Moved(k, v) /\ v.lcp = "Initial"
    <3>1. Turns(k.lcp, "Initial") /\ "Initial" \in LcpStates
      BY <1>1 DEF Turns, LcpStates
    <3> QED
      BY <3>1, MovedByNewState
  <2>2. u = LcpLayerFinish(v)
    BY <1>1 DEF LcpClose
  <2> HIDE DEF v, u
  <2>3. /\ Base(u) /\ SameLcp(v, u) /\ SameDevice(v, u)
        /\ ~u.node /\ ~u.auth /\ Sent(v, u, {"physClose"})
        /\ ~v.dead => Has(u, "physClose")
    BY <2>1, <2>2, LayerFinishFields DEF Moved, Base
  <2>4. Moved(k, u)
    BY <2>1, <2>3, MovedThenSame
  <2>5. u.lcp = "Initial" /\ (~k.dead => Has(u, "physClose"))
    BY <2>1, <2>3 DEF Moved, SameLcp, SameDevice
  <2> QED
    BY <1>1, <2>3, <2>4, <2>5 DEF u
<1>2. CASE k.lcp = "Opened"
  <2> DEFINE v == NewState(k, "Closing")
  <2>1. Moved(k, v) /\ SameLower(k, v) /\ v.lcp = "Closing"
    <3>1. Turns(k.lcp, "Closing") /\ "Closing" \in LcpStates
      BY <1>2 DEF Turns, LcpStates
    <3> QED
      BY <3>1, MovedByNewState
  <2>2. u = LcpLayerDown(v)
    BY <1>2 DEF LcpClose
  <2> HIDE DEF v, u
  <2>3. /\ Base(u) /\ SameLcp(v, u) /\ SameDevice(v, u) /\ u.node = v.node /\ ~u.auth
        /\ Sent(v, u, {})
    BY <2>1, <2>2, LayerDownFields DEF Moved
  <2>4. Moved(k, u)
    BY <2>1, <2>3, MovedThenSame
  <2>5. u.lcp = "Closing" /\ u.node = k.node
    BY <2>1, <2>3 DEF SameLcp, SameLower
  <2> QED
    BY <1>2, <2>3, <2>4, <2>5 DEF u
<1>3. CASE k.lcp = "Stopped"
  <2> DEFINE v == NewState(k, "Closed")
  <2>1. Moved(k, v) /\ SameLower(k, v) /\ v.lcp = "Closed"
    <3>1. Turns(k.lcp, "Closed") /\ "Closed" \in LcpStates
      BY <1>3 DEF Turns, LcpStates
    <3> QED
      BY <3>1, MovedByNewState
  <2>2. u = v
    BY <1>3 DEF LcpClose
  <2> HIDE DEF v
  <2> QED
    BY <1>3, <2>1, <2>2 DEF SameLower
<1>4. CASE k.lcp \in {"Stopping", "Negotiating"}
  <2> DEFINE v == NewState(k, "Closing")
  <2>1. Moved(k, v) /\ SameLower(k, v) /\ v.lcp = "Closing"
    <3>1. Turns(k.lcp, "Closing") /\ "Closing" \in LcpStates
      BY <1>4 DEF Turns, LcpStates
    <3> QED
      BY <3>1, MovedByNewState
  <2>2. u = v
    BY <1>4 DEF LcpClose
  <2> HIDE DEF v
  <2> QED
    BY <1>4, <2>1, <2>2 DEF SameLower
<1>5. CASE k.lcp \in {"Initial", "Closed", "Closing"}
  <2>1. u = k
    BY <1>5 DEF LcpClose
  <2> QED
    BY <1>5, <2>1, MovedNot
<1> QED
  BY <1>1, <1>2, <1>3, <1>4, <1>5 DEF Base, Links, LcpStates

LEMMA UpMoves ==
  ASSUME NEW k, Base(k)
  PROVE  LET u == LcpUp(k) IN
         /\ Moved(k, u) /\ SameLower(k, u)
         /\ \/ k.lcp = "Initial" /\ u.lcp = "Closed"
            \/ k.lcp = "Starting" /\ u.lcp = "Negotiating"
            \/ k.lcp \notin Dead /\ u = k
<1> DEFINE u == LcpUp(k)
<1>1. CASE k.lcp = "Initial"
  <2> DEFINE v == NewState(k, "Closed")
  <2>1. Moved(k, v) /\ SameLower(k, v) /\ v.lcp = "Closed"
    <3>1. Turns(k.lcp, "Closed") /\ "Closed" \in LcpStates
      BY <1>1 DEF Turns, LcpStates
    <3> QED
      BY <3>1, MovedByNewState
  <2>2. u = v
    BY <1>1 DEF LcpUp
  <2> HIDE DEF v
  <2> QED
    BY <1>1, <2>1, <2>2 DEF SameLower
<1>2. CASE k.lcp = "Starting"
  <2> DEFINE v == NewState(k, "Negotiating")
  <2>1. Moved(k, v) /\ SameLower(k, v) /\ v.lcp = "Negotiating"
    <3>1. Turns(k.lcp, "Negotiating") /\ "Negotiating" \in LcpStates
      BY <1>2 DEF Turns, LcpStates
    <3> QED
      BY <3>1, MovedByNewState
  <2>2. u = v
    BY <1>2 DEF LcpUp
  <2> HIDE DEF v
  <2> QED
    BY <1>2, <2>1, <2>2 DEF SameLower
<1>3. CASE k.lcp \notin Dead
  <2>1. u = k
    BY <1>3 DEF LcpUp, Dead
  <2> QED
    BY <1>3, <2>1, MovedNot DEF SameLower
<1> QED
  BY <1>1, <1>2, <1>3 DEF Dead

LEMMA DownMoves ==
  ASSUME NEW k, Base(k)
  PROVE  LET u == LcpDown(k) IN
         /\ Moved(k, u)
         /\ \/ /\ k.lcp = "Closing" /\ u.lcp = "Initial" /\ ~u.node /\ ~u.auth
               /\ ~k.dead => Has(u, "physClose")
            \/ k.lcp = "Closed" /\ u.lcp = "Initial" /\ SameLower(k, u)
            \/ /\ k.lcp = "Stopped" /\ u.lcp = "Starting" /\ u.node = ~k.node /\ u.auth = k.auth
               /\ ~k.dead /\ ~k.openTimer => Has(u, "physOpen")
            \/ k.lcp \in {"Stopping", "Negotiating"} /\ u.lcp = "Starting" /\ SameLower(k, u)
            \/ k.lcp = "Opened" /\ u.lcp = "Starting" /\ u.node = k.node /\ ~u.auth
            \/ k.lcp \in Dead /\ u = k
<1> DEFINE u == LcpDown(k)
<1>1. CASE k.lcp = "Closing"
  <2> DEFINE f == LcpLayerFinish(k)
             v == NewState(f, "Initial")
  <2>1. /\ Base(f) /\ SameLcp(k, f) /\ SameDevice(k, f) /\ ~f.node /\ ~f.auth
        /\ Sent(k, f, {"physClose"})
        /\ ~k.dead => Has(f, "physClose")
    BY LayerFinishFields DEF Base
  <2>2. u = v
    BY <1>1 DEF LcpDown
  <2> HIDE DEF f
  <2>3. Moved(f, v) /\ SameLower(f, v) /\ v.lcp = "Initial"
    BY <1>1, <2>1, MovedByNewState DEF Turns, LcpStates, SameLcp
  <2> HIDE DEF v
  <2>4. SameDevice(k, v) /\ ~v.node /\ ~v.auth
    BY <2>1, <2>3 DEF Moved, SameDevice, SameLower
  <2>5. \A m \in Messages : Has(k, m) => Has(v, m)
    BY <2>1, <2>3 DEF Moved, Sent
  <2>6. ~k.dead => Has(v, "physClose")
    BY <2>1, <2>3 DEF Moved, Messages
  <2>7. Has(f, "shutdown") => Has(k, "shutdown")
    BY <2>1 DEF Sent, Messages
  <2>8. f.lcp = k.lcp
    BY <2>1 DEF SameLcp
  <2>9. Moved(k, v)
    BY <1>1, <2>3, <2>4, <2>5, <2>7, <2>8 DEF Moved
  <2> HIDE DEF u
  <2> QED
    BY <1>1, <2>2, <2>3, <2>4, <2>6, <2>9 DEF u
<1>2. CASE k.lcp = "Closed"
  <2> DEFINE v == NewState(k, "Initial")
  <2>1. Moved(k, v) /\ SameLower(k, v) /\ v.lcp = "Initial"
    <3>1. Turns(k.lcp, "Initial") /\ "Initial" \in LcpStates
      BY <1>2 DEF Turns, LcpStates
    <3> QED
      BY <3>1, MovedByNewState
  <2>2. u = v
    BY <1>2 DEF LcpDown
  <2> HIDE DEF v
  <2> QED
    BY <1>2, <2>1, <2>2
<1>3. CASE k.lcp = "Stopped"
  <2> DEFINE v == NewState(k, "Starting")
  <2>1. Moved(k, v) /\ SameLower(k, v) /\ v.lcp = "Starting"
    <3>1. Turns(k.lcp, "Starting") /\ "Starting" \in LcpStates
      BY <1>3 DEF Turns, LcpStates
    <3> QED
      BY <3>1, MovedByNewState
  <2>2. u = LcpLayerStart(v)
    BY <1>3 DEF LcpDown
  <2> HIDE DEF v, u
  <2>3. /\ Base(u) /\ SameLcp(v, u) /\ SameDevice(v, u)
        /\ u.node = ~v.node /\ u.auth = v.auth /\ Sent(v, u, {"physOpen"})
        /\ ~v.dead /\ ~v.openTimer => Has(u, "physOpen")
    BY <2>1, <2>2, LayerStartFields DEF Moved
  <2>4. Moved(k, u)
    BY <2>1, <2>3, MovedThenSame
  <2>5. u.lcp = "Starting" /\ u.auth = k.auth /\ u.node = ~k.node
        /\ (~k.dead /\ ~k.openTimer => Has(u, "physOpen"))
    BY <2>1, <2>3 DEF Moved, SameLcp, SameLower, SameDevice
  <2> QED
    BY <1>3, <2>4, <2>5 DEF u
<1>4. CASE k.lcp \in {"Stopping", "Negotiating"}
  <2> DEFINE v == NewState(k, "Starting")
  <2>1. Moved(k, v) /\ SameLower(k, v) /\ v.lcp = "Starting"
    <3>1. Turns(k.lcp, "Starting") /\ "Starting" \in LcpStates
      BY <1>4 DEF Turns, LcpStates
    <3> QED
      BY <3>1, MovedByNewState
  <2>2. u = v
    BY <1>4 DEF LcpDown
  <2> HIDE DEF v
  <2> QED
    BY <1>4, <2>1, <2>2
<1>5. CASE k.lcp = "Opened"
  <2> DEFINE v == NewState(k, "Starting")
  <2>1. Moved(k, v) /\ SameLower(k, v) /\ v.lcp = "Starting"
    <3>1. Turns(k.lcp, "Starting") /\ "Starting" \in LcpStates
      BY <1>5 DEF Turns, LcpStates
    <3> QED
      BY <3>1, MovedByNewState
  <2>2. u = LcpLayerDown(v)
    BY <1>5 DEF LcpDown
  <2> HIDE DEF v, u
  <2>3. /\ Base(u) /\ SameLcp(v, u) /\ SameDevice(v, u) /\ u.node = v.node /\ ~u.auth
        /\ Sent(v, u, {})
    BY <2>1, <2>2, LayerDownFields DEF Moved
  <2>4. Moved(k, u)
    BY <2>1, <2>3, MovedThenSame
  <2>5. u.lcp = "Starting" /\ u.node = k.node
    BY <2>1, <2>3 DEF SameLcp, SameLower
  <2> QED
    BY <1>5, <2>3, <2>4, <2>5 DEF u
<1>6. CASE k.lcp \in Dead
  <2>1. u = k
    BY <1>6 DEF LcpDown, Dead
  <2> QED
    BY <1>6, <2>1, MovedNot
<1> QED
  BY <1>1, <1>2, <1>3, <1>4, <1>5, <1>6 DEF Base, Links, LcpStates, Dead

\* A failure lets go of the lower layer, in a passive link only when it is not wanted.
LEMMA FailureMoves ==
  ASSUME NEW k, Base(k), k.lcp \notin Dead
  PROVE  LET u == FsmFailure(k) IN
         /\ Moved(k, u)
         /\ \/ k.lcp \in {"Closing", "Closed"} /\ u.lcp = "Closed"
            \/ k.lcp \in {"Stopping", "Stopped", "Negotiating"} /\ u.lcp = "Stopped"
            \/ k.lcp = "Opened" /\ u.lcp = "Stopping" /\ u.node = k.node /\ ~u.auth
         /\ k.lcp # "Opened" =>
              \/ ~u.node /\ ~u.auth /\ (~k.dead => Has(u, "physClose"))
              \/ conf.passive /\ SameLower(k, u)
<1> DEFINE u == FsmFailure(k)
<1>1. CASE k.lcp = "Closing"
  <2> DEFINE v == NewState(k, "Closed")
  <2>1. Moved(k, v) /\ v.lcp = "Closed"
    <3>1. Turns(k.lcp, "Closed") /\ "Closed" \in LcpStates
      BY <1>1 DEF Turns, LcpStates
    <3> QED
      BY <3>1, MovedByNewState
  <2>2. u = LcpLayerFinish(v)
    BY <1>1 DEF FsmFailure
  <2> HIDE DEF v, u
  <2>3. /\ Base(u) /\ SameLcp(v, u) /\ SameDevice(v, u)
        /\ ~u.node /\ ~u.auth /\ Sent(v, u, {"physClose"})
        /\ ~v.dead => Has(u, "physClose")
    BY <2>1, <2>2, LayerFinishFields DEF Moved, Base
  <2>4. Moved(k, u)
    BY <2>1, <2>3, MovedThenSame
  <2>5. u.lcp = "Closed" /\ (~k.dead => Has(u, "physClose"))
    BY <2>1, <2>3 DEF Moved, SameLcp, SameDevice
  <2> QED
    BY <1>1, <2>3, <2>4, <2>5 DEF u
<1>2. CASE k.lcp = "Stopping"
  <2> DEFINE v == NewState(k, "Stopped")
  <2>1. Moved(k, v) /\ v.lcp = "Stopped"
    <3>1. Turns(k.lcp, "Stopped") /\ "Stopped" \in LcpStates
      BY <1>2 DEF Turns, LcpStates
    <3> QED
      BY <3>1, MovedByNewState
  <2>2. u = LcpLayerFinish(v)
    BY <1>2 DEF FsmFailure
  <2> HIDE DEF v, u
  <2>3. /\ Base(u) /\ SameLcp(v, u) /\ SameDevice(v, u)
        /\ ~u.node /\ ~u.auth /\ Sent(v, u, {"physClose"})
        /\ ~v.dead => Has(u, "physClose")
    BY <2>1, <2>2, LayerFinishFields DEF Moved, Base
  <2>4. Moved(k, u)
    BY <2>1, <2>3, MovedThenSame
  <2>5. u.lcp = "Stopped" /\ (~k.dead => Has(u, "physClose"))
    BY <2>1, <2>3 DEF Moved, SameLcp, SameDevice
  <2> QED
    BY <1>2, <2>3, <2>4, <2>5 DEF u
<1>3. CASE k.lcp = "Negotiating" /\ ~conf.passive
  <2> DEFINE v == NewState(k, "Stopped")
  <2>1. Moved(k, v) /\ v.lcp = "Stopped"
    <3>1. Turns(k.lcp, "Stopped") /\ "Stopped" \in LcpStates
      BY <1>3 DEF Turns, LcpStates
    <3> QED
      BY <3>1, MovedByNewState
  <2>2. u = LcpLayerFinish(v)
    BY <1>3 DEF FsmFailure
  <2> HIDE DEF v, u
  <2>3. /\ Base(u) /\ SameLcp(v, u) /\ SameDevice(v, u)
        /\ ~u.node /\ ~u.auth /\ Sent(v, u, {"physClose"})
        /\ ~v.dead => Has(u, "physClose")
    BY <2>1, <2>2, LayerFinishFields DEF Moved, Base
  <2>4. Moved(k, u)
    BY <2>1, <2>3, MovedThenSame
  <2>5. u.lcp = "Stopped" /\ (~k.dead => Has(u, "physClose"))
    BY <2>1, <2>3 DEF Moved, SameLcp, SameDevice
  <2> QED
    BY <1>3, <2>3, <2>4, <2>5 DEF u
<1>4. CASE k.lcp = "Negotiating" /\ conf.passive
  <2> DEFINE v == NewState(k, "Stopped")
  <2>1. Moved(k, v) /\ SameLower(k, v) /\ v.lcp = "Stopped"
    <3>1. Turns(k.lcp, "Stopped") /\ "Stopped" \in LcpStates
      BY <1>4 DEF Turns, LcpStates
    <3> QED
      BY <3>1, MovedByNewState
  <2>2. u = v
    BY <1>4 DEF FsmFailure
  <2> HIDE DEF v
  <2> QED
    BY <1>4, <2>1, <2>2
<1>5. CASE k.lcp = "Closed" \/ (k.lcp = "Stopped" /\ ~conf.passive)
  <2>1. u = LcpLayerFinish(k)
    BY <1>5 DEF FsmFailure
  <2> HIDE DEF u
  <2>2. /\ Base(u) /\ SameLcp(k, u) /\ SameDevice(k, u)
        /\ ~u.node /\ ~u.auth /\ Sent(k, u, {"physClose"})
        /\ ~k.dead => Has(u, "physClose")
    BY <2>1, LayerFinishFields DEF Base
  <2>3. Moved(k, u)
    BY <2>2, MovedNot, MovedThenSame
  <2> QED
    BY <1>5, <2>2, <2>3 DEF u, SameLcp
<1>6. CASE k.lcp = "Stopped" /\ conf.passive
  <2>1. u = k
    BY <1>6 DEF FsmFailure
  <2> QED
    BY <1>6, <2>1, MovedNot DEF SameLower
<1>7. CASE k.lcp = "Opened"
  <2> DEFINE v == NewState(k, "Stopping")
  <2>1. Moved(k, v) /\ SameLower(k, v) /\ v.lcp = "Stopping"
    <3>1. Turns(k.lcp, "Stopping") /\ "Stopping" \in LcpStates
      BY <1>7 DEF Turns, LcpStates
    <3> QED
      BY <3>1, MovedByNewState
  <2>2. u = LcpLayerDown(v)
    BY <1>7 DEF FsmFailure
  <2> HIDE DEF v, u
  <2>3. /\ Base(u) /\ SameLcp(v, u) /\ SameDevice(v, u) /\ u.node = v.node /\ ~u.auth
        /\ Sent(v, u, {})
    BY <2>1, <2>2, LayerDownFields DEF Moved
  <2>4. Moved(k, u)
    BY <2>1, <2>3, MovedThenSame
  <2>5. u.lcp = "Stopping" /\ u.node = k.node
    BY <2>1, <2>3 DEF SameLcp, SameLower
  <2> QED
    BY <1>7, <2>3, <2>4, <2>5 DEF u
<1> QED
  BY <1>1, <1>2, <1>3, <1>4, <1>5, <1>6, <1>7 DEF Base, Links, LcpStates, Dead

----------------------------------------------------------------------------
(* The invariant across the events and the calls of the device. *)

\* Messages may be added to a whole link, except "shutdown".
LEMMA MoreMessages ==
  ASSUME NEW k, NEW u, Base(k), Base(u),
         SameLcp(k, u), SameDevice(k, u), SameLower(k, u),
         \A m \in Messages : Has(k, m) => Has(u, m)
  PROVE  /\ Authenticates(k) => Authenticates(u)
         /\ Buried(k) => Buried(u)
         /\ Goes(k) /\ (Has(u, "shutdown") => Has(k, "shutdown")) => Goes(u)
         /\ Holds(k) => Holds(u)
         /\ Releases(k) => Releases(u)
         /\ Disposes(k) => Disposes(u)
         /\ Admits(k) => Admits(u)
         /\ Dials(k) => Dials(u)
         /\ Rises(k) => Rises(u)
         /\ Called(k) => Called(u)
<1>1. Authenticates(k) => Authenticates(u)
  BY DEF Authenticates, SameLcp, SameLower
<1>2. Buried(k) => Buried(u)
  BY DEF Buried, SameLcp, SameDevice
<1>3. Goes(k) /\ (Has(u, "shutdown") => Has(k, "shutdown")) => Goes(u)
  BY DEF Goes, SameLcp, SameDevice
<1>4. Holds(k) => Holds(u)
  BY DEF Holds, SameLcp, SameDevice, SameLower
<1>5. Releases(k) => Releases(u)
  BY DEF Releases, SameLcp, SameDevice, Messages
<1>6. Disposes(k) => Disposes(u)
  BY DEF Disposes, Disposable, SameLcp, SameDevice, Messages
<1>7. Admits(k) => Admits(u)
  BY DEF Admits, SameLcp, SameDevice, Messages
<1>8. Dials(k) => Dials(u)
  BY DEF Dials, SameLcp, SameDevice, Messages
<1>9. Rises(k) => Rises(u)
  BY DEF Rises, SameLcp, SameDevice
<1>10. Called(k) => Called(u)
  BY DEF Called, SameDevice
<1> QED
  BY <1>1, <1>2, <1>3, <1>4, <1>5, <1>6, <1>7, <1>8, <1>9, <1>10

\* An event that does not wake up LCP keeps a link that is to go going.
LEMMA MovedKeeps ==
  ASSUME NEW k, NEW u, Sound(k), Moved(k, u), k.lcp \in Dead => u.lcp \in Dead,
         u.lcp # "Opened",
         ~u.auth \/ (u.auth = k.auth /\ k.lcp # "Opened" /\ Authenticates(k))
  PROVE  Kept(u)
<1>1. Base(u) /\ SameDevice(k, u)
  BY DEF Moved
<1>2. Buried(u)
  BY <1>1 DEF Kept, Sound, Buried, SameDevice
<1>3. Goes(u)
  <2>1. CASE Has(k, "shutdown")
    BY <1>1, <2>1 DEF Kept, Sound, Goes, SameDevice
  <2>2. CASE ~Has(k, "shutdown")
    BY <1>1, <2>2 DEF Goes, Moved, Disposable, Dead
  <2> QED
    BY <2>1, <2>2
<1>4. k.lcp # "Opened" => k.phase # "Authenticate"
  BY DEF Kept, Sound, Base, PhaseFits, Links, LcpStates
<1>5. u.phase # "Authenticate"
  BY <1>1 DEF Base, PhaseFits, Links, LcpStates
<1>6. u.auth \in BOOLEAN /\ k.auth \in BOOLEAN
  BY <1>1 DEF Kept, Sound, Base, Links
<1>7. Authenticates(u)
  BY <1>4, <1>5, <1>6 DEF Kept, Sound, Authenticates
<1> QED
  BY <1>1, <1>2, <1>3, <1>7 DEF Kept, Sound

\* What follows where LCP is neither open nor left as it was.
LEMMA MovedWhole ==
  ASSUME NEW k, NEW u, Moved(k, u), u.lcp # "Opened"
  PROVE  /\ u.lcp # k.lcp \/ Disposes(k) => Disposes(u)
         /\ Admits(u)
         /\ u.lcp # "Starting" => Dials(u)
         /\ Called(k) => Called(u)
<1>1. Base(u) /\ SameDevice(k, u)
  BY DEF Moved
<1>2. u.lcp # k.lcp => Disposes(u)
  BY DEF Moved, Disposes
<1>3. u.lcp = k.lcp /\ Disposes(k) => Disposes(u)
  BY <1>1 DEF Moved, Disposes, Disposable, SameLcp, SameDevice, Messages
<1>4. u.phase # "Network"
  BY <1>1 DEF Base, PhaseFits, Links, LcpStates
<1>5. Admits(u) /\ (u.lcp # "Starting" => Dials(u)) /\ (Called(k) => Called(u))
  BY <1>1, <1>4 DEF Admits, Dials, Called, SameDevice
<1> QED
  BY <1>2, <1>3, <1>5

\* Closing LCP.
LEMMA CloseKeeps ==
  ASSUME NEW k, Kept(k)
  PROVE  LET u == LcpClose(k) IN
         /\ Kept(u)
         /\ u.phys = k.phys /\ u.stay = k.stay /\ u.dead = k.dead /\ u.incoming = k.incoming
         /\ u.lcp \in {"Initial", "Closed", "Closing"}
         /\ Has(u, "shutdown") => Has(k, "shutdown") \/ u.phys = "Down"
         /\ Holds(k) => Holds(u)
         /\ Releases(k) => Releases(u)
         /\ Rises(k) /\ Disposes(k) /\ Called(k) => Whole(u)
<1> DEFINE u == LcpClose(k)
<1>1. /\ Moved(k, u)
      /\ \/ /\ k.lcp = "Starting" /\ u.lcp = "Initial" /\ ~u.node /\ ~u.auth
            /\ ~k.dead => Has(u, "physClose")
         \/ k.lcp = "Stopped" /\ u.lcp = "Closed" /\ SameLower(k, u)
         \/ k.lcp \in {"Stopping", "Negotiating"} /\ u.lcp = "Closing" /\ SameLower(k, u)
         \/ k.lcp = "Opened" /\ u.lcp = "Closing" /\ u.node = k.node /\ ~u.auth
         \/ k.lcp \in {"Initial", "Closed", "Closing"} /\ u = k
  BY CloseMoves DEF Kept, Sound
<1> HIDE DEF u
<1>2. SameDevice(k, u) /\ Base(u) /\ Base(k)
  BY <1>1 DEF Moved, Kept, Sound
<1>3. u.lcp \in {"Initial", "Closed", "Closing"} /\ (k.lcp \in Dead => u.lcp \in Dead)
  BY <1>1 DEF Dead
<1>4. Kept(u)
  BY <1>1, <1>3, MovedKeeps DEF Kept, SameLower
<1>5. Has(u, "shutdown") => Has(k, "shutdown") \/ u.phys = "Down"
  BY <1>1 DEF Moved, Disposable
<1>6. Holds(k) => Holds(u)
  BY <1>1, <1>2 DEF Holds, SameDevice, SameLower
<1>7. Releases(k) => Releases(u)
  <2> SUFFICES ASSUME Releases(k), ~u.dead, u.phys # "Down"
               PROVE  /\ u.lcp = "Stopped" => Has(u, "physClose")
                      /\ u.lcp \in {"Initial", "Closed"} => Has(u, "physClose") \/ Has(u, "open")
    BY DEF Releases
  <2>1. ~k.dead /\ k.phys # "Down"
    BY <1>2 DEF SameDevice
  <2>2. \A m \in {"open", "physClose"} : Has(k, m) => Has(u, m)
    BY <1>1 DEF Moved, Messages
  <2> QED
    BY <1>1, <1>3, <2>1, <2>2 DEF Releases
<1>8. Rises(k) => Rises(u)
  BY <1>2, <1>3 DEF Rises, SameDevice
<1>9. Disposes(k) /\ Called(k) => Disposes(u) /\ Admits(u) /\ Dials(u) /\ Called(u)
  BY <1>1, <1>3, MovedWhole
<1> QED
  BY <1>2, <1>3, <1>4, <1>5, <1>6, <1>7, <1>8, <1>9 DEF Whole, SameDevice, u

\* The lower layer going down.
LEMMA DownKeeps ==
  ASSUME NEW k, Kept(k)
  PROVE  LET u == LcpDown(k) IN
         /\ Kept(u) /\ u.lcp \in Dead /\ SameDevice(k, u)
         /\ k.lcp \notin OPEN_STATE => u.lcp = "Initial"
         /\ Holds(k) => Holds(u)
         /\ Releases(k) => Releases(u)
<1> DEFINE u == LcpDown(k)
<1>1. /\ Moved(k, u)
      /\ \/ /\ k.lcp = "Closing" /\ u.lcp = "Initial" /\ ~u.node /\ ~u.auth
            /\ ~k.dead => Has(u, "physClose")
         \/ k.lcp = "Closed" /\ u.lcp = "Initial" /\ SameLower(k, u)
         \/ k.lcp = "Stopped" /\ u.lcp = "Starting" /\ u.node = ~k.node /\ u.auth = k.auth
         \/ k.lcp \in {"Stopping", "Negotiating"} /\ u.lcp = "Starting" /\ SameLower(k, u)
         \/ k.lcp = "Opened" /\ u.lcp = "Starting" /\ u.node = k.node /\ ~u.auth
         \/ k.lcp \in Dead /\ u = k
  BY DownMoves DEF Kept, Sound
<1> HIDE DEF u
<1>2. SameDevice(k, u) /\ Base(u) /\ Base(k)
  BY <1>1 DEF Moved, Kept, Sound
<1>3. u.lcp \in Dead
  BY <1>1 DEF Dead
<1>4. Kept(u)
  BY <1>1, <1>3, MovedKeeps DEF Kept, SameLower, Dead
<1>5. k.lcp \notin OPEN_STATE => u.lcp = "Initial"
  BY <1>1, <1>2 DEF OPEN_STATE, Base, Links, LcpStates, Dead
<1>6. Holds(k) => Holds(u)
  <2>1. k.node \in BOOLEAN /\ u.node \in BOOLEAN
    BY <1>2 DEF Base, Links
  <2> QED
    BY <1>1, <1>2, <2>1 DEF Holds, SameDevice, SameLower, Dead
<1>7. Releases(k) => Releases(u)
  <2> SUFFICES ASSUME Releases(k), ~u.dead, u.phys # "Down", u.lcp = "Initial"
               PROVE  Has(u, "physClose") \/ Has(u, "open")
    BY <1>3 DEF Releases, Dead
  <2>1. ~k.dead /\ k.phys # "Down"
    BY <1>2 DEF SameDevice
  <2>2. \A m \in {"open", "physClose"} : Has(k, m) => Has(u, m)
    BY <1>1 DEF Moved, Messages
  <2> QED
    BY <1>1, <2>1, <2>2 DEF Releases
<1> QED
  BY <1>2, <1>3, <1>4, <1>5, <1>6, <1>7 DEF u

\* A failure of LCP while the lower layer is up.
LEMMA FailureKeeps ==
  ASSUME NEW k, Sound(k), Authenticates(k) \/ ~k.auth, k.lcp \notin Dead
  PROVE  LET u == FsmFailure(k) IN
         /\ Kept(u) /\ SameDevice(k, u) /\ (Has(u, "shutdown") => Has(k, "shutdown"))
         /\ ~conf.passive /\ Holds(k) => Holds(u)
         /\ ~conf.passive => Releases(u)
         /\ Rises(k) /\ Called(k) => Whole(u)
<1> DEFINE u == FsmFailure(k)
<1>1. /\ Moved(k, u)
      /\ \/ k.lcp \in {"Closing", "Closed"} /\ u.lcp = "Closed"
         \/ k.lcp \in {"Stopping", "Stopped", "Negotiating"} /\ u.lcp = "Stopped"
         \/ k.lcp = "Opened" /\ u.lcp = "Stopping" /\ u.node = k.node /\ ~u.auth
      /\ k.lcp # "Opened" =>
           \/ ~u.node /\ ~u.auth /\ (~k.dead => Has(u, "physClose"))
           \/ conf.passive /\ SameLower(k, u)
  BY FailureMoves DEF Kept, Sound
<1> HIDE DEF u
<1>2. SameDevice(k, u) /\ Base(u) /\ Base(k)
  BY <1>1 DEF Moved, Kept, Sound
<1>3. u.lcp \in {"Closed", "Stopped", "Stopping"}
  BY <1>1
<1>4. Kept(u)
  BY <1>1, <1>3, MovedKeeps DEF Kept, SameLower
<1>5. Has(u, "shutdown") => Has(k, "shutdown")
  BY <1>1, <1>3 DEF Moved, Disposable
<1>6. ~conf.passive /\ Holds(k) => Holds(u)
  BY <1>1, <1>2, <1>3 DEF Holds, SameDevice, SameLower
<1>7. ~conf.passive => Releases(u)
  BY <1>1, <1>2 DEF Releases, SameDevice
<1>8. Rises(k) => Rises(u)
  BY <1>2 DEF Rises, SameDevice
<1>9. Called(k) => Disposes(u) /\ Admits(u) /\ Dials(u) /\ Called(u)
  BY <1>1, <1>3, MovedWhole DEF Disposes, Disposable
<1> QED
  BY <1>2, <1>4, <1>5, <1>6, <1>7, <1>8, <1>9 DEF Whole, u

\* Opening LCP: the request has just been taken from the queue, so that it does not
\* count as something that will release the device.
LEMMA OpenKeeps ==
  ASSUME NEW k, Whole(k), ~k.dead
  PROVE  LET u == LcpOpen(k) IN
         /\ Whole(u)
         /\ Holds(k) => Holds(u)
         /\ (k.phys # "Down" /\ k.lcp = "Stopped" => Has(k, "physClose")) => Releases(u)
<1> DEFINE u == LcpOpen(k)
<1>1. /\ Moved(k, u) /\ u.auth = k.auth
      /\ \/ /\ k.lcp = "Initial" /\ u.lcp = "Starting" /\ u.node = ~k.node
            /\ ~k.dead /\ ~k.openTimer => Has(u, "physOpen")
         \/ k.lcp = "Closed" /\ u.lcp = "Negotiating" /\ u.node = ~k.node
         \/ k.lcp = "Closing" /\ u.lcp = "Stopping" /\ u.node = k.node
         \/ k.lcp \notin {"Initial", "Closed", "Closing"} /\ u = k
  BY OpenMoves DEF Whole, Kept, Sound
<1> HIDE DEF u
<1>2. SameDevice(k, u) /\ Base(u) /\ Base(k)
  BY <1>1 DEF Moved, Whole, Kept, Sound
<1>3. k.node \in BOOLEAN /\ u.node \in BOOLEAN
  BY <1>2 DEF Base, Links
<1>4. Holds(k) => Holds(u)
  BY <1>1, <1>2, <1>3 DEF Holds, SameDevice
<1>5. (k.phys # "Down" /\ k.lcp = "Stopped" => Has(k, "physClose")) => Releases(u)
  BY <1>1, <1>2 DEF Releases, SameDevice
<1>6. CASE k.lcp \in {"Initial", "Closed", "Closing"}
  <2>1. k.lcp \in Dead => u.lcp \in Dead
    BY <1>1 DEF Dead
  <2>2. Kept(u)
    BY <1>1, <1>6, <2>1, MovedKeeps DEF Whole, Kept
  <2>3. Rises(u)
    BY <1>1, <1>2, <1>6 DEF Whole, Rises, SameDevice, Dead
  <2>4. Disposes(u) /\ Admits(u) /\ Called(u) /\ (u.lcp # "Starting" => Dials(u))
    BY <1>1, <1>6, MovedWhole DEF Whole
  <2>5. CASE k.lcp = "Initial"
    <3>1. k.openTimer \in BOOLEAN /\ k.dead \in BOOLEAN
      BY <1>2 DEF Base, Links
    <3>2. u.openTimer = k.openTimer /\ (~k.openTimer => Has(u, "physOpen"))
      BY <1>1, <1>2, <2>5, <3>1 DEF SameDevice
    <3> QED
      BY <2>2, <2>3, <2>4, <3>1, <3>2, <1>4, <1>5 DEF Dials, Whole, u
  <2>6. CASE k.lcp # "Initial"
    <3>1. Dials(u)
      BY <1>1, <1>6, <2>4, <2>6
    <3> QED
      BY <2>2, <2>3, <2>4, <3>1, <1>4, <1>5 DEF Whole, u
  <2> QED
    BY <2>5, <2>6
<1>7. CASE k.lcp \notin {"Initial", "Closed", "Closing"}
  BY <1>1, <1>4, <1>5, <1>7 DEF u
<1> QED
  BY <1>6, <1>7

\* LinkShutdownCheck() with the state LCP is in makes a link dispose of itself.
LEMMA CheckKeeps ==
  ASSUME NEW k, Kept(k)
  PROVE  LET u == LinkShutdownCheck(k, k.lcp) IN
         /\ Kept(u) /\ Disposes(u) /\ SameLcp(k, u) /\ SameDevice(k, u)
         /\ Has(u, "shutdown") => Has(k, "shutdown") \/ u.phys = "Down"
         /\ Holds(k) => Holds(u)
         /\ Releases(k) => Releases(u)
         /\ Rises(k) /\ Admits(k) /\ Dials(k) /\ Called(k) => Whole(u)
<1> DEFINE u == LinkShutdownCheck(k, k.lcp)
           goes == k.lcp = "Initial" /\ Disposable([k EXCEPT !.lcp = k.lcp])
<1>1. k \in Links /\ k.lcp \in LcpStates /\ Base(k)
  BY DEF Kept, Sound, Base, Links
<1>2. /\ u \in Links /\ SameLcp(k, u) /\ SameDevice(k, u) /\ SameLower(k, u)
      /\ u.failed = "phase" => k.failed = "phase"
      /\ Sent(k, u, {"shutdown"})
      /\ goes /\ ~k.dead => Has(u, "shutdown")
      /\ ~goes => u = k
  BY <1>1, CheckFields
<1>3. goes <=> Disposable(k)
  BY <1>1 DEF Disposable, Links
<1> HIDE DEF u, goes
<1>4. Base(u)
  BY <1>1, <1>2, BaseSame
<1>5. \A m \in Messages : Has(k, m) => Has(u, m)
  BY <1>2 DEF Sent
<1>6. Disposable(u) <=> Disposable(k)
  BY <1>2 DEF Disposable, SameLcp, SameDevice
<1>7. Disposes(u)
  BY <1>2, <1>3, <1>6 DEF Disposes, SameDevice
<1>8. Has(u, "shutdown") => Has(k, "shutdown") \/ Disposable(u)
  BY <1>2, <1>3, <1>6
<1>9. Goes(u)
  <2>1. CASE Has(k, "shutdown")
    BY <1>2, <2>1 DEF Kept, Sound, Goes, SameLcp, SameDevice
  <2>2. CASE ~Has(k, "shutdown")
    BY <1>8, <2>2 DEF Goes, Disposable, Dead
  <2> QED
    BY <2>1, <2>2
<1>10. Kept(u)
  BY <1>1, <1>2, <1>4, <1>5, <1>9, MoreMessages DEF Kept, Sound
<1>11. /\ Holds(k) => Holds(u)
       /\ Releases(k) => Releases(u)
       /\ Rises(k) /\ Admits(k) /\ Dials(k) /\ Called(k) =>
            Rises(u) /\ Admits(u) /\ Dials(u) /\ Called(u)
  BY <1>1, <1>2, <1>4, <1>5, MoreMessages
<1> QED
  BY <1>2, <1>7, <1>8, <1>10, <1>11 DEF Whole, Disposable, u

LEMMA DyingFields ==
  ASSUME NEW k, Kept(k)
  PROVE  LET u == Dying(k) IN
         /\ Kept(u) /\ SameLcp(k, u) /\ SameLower(k, u)
         /\ u.phys = k.phys /\ u.incoming = k.incoming /\ u.stay = k.stay /\ u.dead = k.dead
         /\ Holds(k) => Holds(u)
         /\ Releases(k) => Releases(u)
<1> DEFINE u == Dying(k)
<1>1. k \in Links
  BY DEF Kept, Sound, Base
<1>2. /\ u \in Links /\ SameLcp(k, u) /\ SameLower(k, u) /\ u.msgs = k.msgs
      /\ u.phys = k.phys /\ u.incoming = k.incoming /\ u.stay = k.stay /\ u.dead = k.dead
      /\ u.failed = k.failed
      /\ k.stay => u.die = k.die
      /\ ~k.stay => u.die
  <2>1. CASE k.stay
    BY <1>1, <2>1 DEF Dying, SameLcp, SameLower
  <2>2. CASE ~k.stay
    BY <1>1, <2>2 DEF Dying, Links, SameLcp, SameLower
  <2> QED
    BY <2>1, <2>2
<1> HIDE DEF u
<1>3. \A m : Has(u, m) <=> Has(k, m)
  BY <1>2 DEF Has
<1>4. Base(u)
  BY <1>2 DEF Kept, Sound, Base, PhaseFits, SameLcp
<1>5. Authenticates(u) /\ Buried(u) /\ Goes(u)
  BY <1>2, <1>3 DEF Kept, Sound, Authenticates, Buried, Goes, SameLcp, SameLower
<1>6. (Holds(k) => Holds(u)) /\ (Releases(k) => Releases(u))
  BY <1>2, <1>3 DEF Holds, Releases, SameLcp, SameLower
<1> QED
  BY <1>2, <1>4, <1>5, <1>6 DEF Kept, Sound, u

\* Whether LCP is closed, or left open for the redial timer, it is down afterwards.
LEMMA LinkDownKeeps ==
  ASSUME NEW k, Kept(k), Called(k), conf \in Confs
  PROVE  LET u == LinkDown(k) IN
         /\ Kept(u) /\ Rises(u) /\ Admits(u) /\ Dials(u) /\ Called(u) /\ u.phys = k.phys
         /\ Holds(k) => Holds(u)
         /\ Releases(k) => Releases(u)
<1> DEFINE u == LinkDown(k)
           d == Dying(k)
<1>1. /\ Kept(d) /\ SameLcp(k, d)
      /\ d.phys = k.phys /\ d.incoming = k.incoming
      /\ Holds(k) => Holds(d)
      /\ Releases(k) => Releases(d)
  BY DyingFields
<1>2. SUFFICES /\ Kept(u) /\ u.lcp \in Dead /\ Called(u) /\ u.phys = k.phys
               /\ u.lcp = "Starting" => u.openTimer
               /\ Holds(k) => Holds(u)
               /\ Releases(k) => Releases(u)
  <2> HIDE DEF u
  <2>1. u.lcp \in Dead => Rises(u)
    BY DEF Rises
  <2>2. u.lcp \in Dead /\ Kept(u) => Admits(u)
    BY DEF Kept, Sound, Base, PhaseFits, Dead, Admits
  <2>3. (u.lcp = "Starting" => u.openTimer) => Dials(u)
    BY DEF Dials
  <2> QED
    BY <1>2, <2>1, <2>2, <2>3 DEF u
<1> HIDE DEF d
<1>3. CASE k.lcp \notin OPEN_STATE
  <2>1. u = LcpDown(d)
    BY <1>3 DEF LinkDown, d
  <2> HIDE DEF u
  <2>2. /\ Kept(u) /\ u.lcp \in Dead /\ SameDevice(d, u)
        /\ u.lcp = "Initial"
        /\ Holds(d) => Holds(u)
        /\ Releases(d) => Releases(u)
    BY <1>1, <1>3, <2>1, DownKeeps DEF SameLcp
  <2> QED
    BY <1>1, <2>2 DEF Called, SameDevice
<1>4. CASE k.lcp \in OPEN_STATE /\ GivesUp(k)
  <2> DEFINE c == LcpClose(d)
  <2>1. u = LcpDown(c)
    BY <1>4 DEF LinkDown, d
  <2>2. /\ Kept(c) /\ c.phys = d.phys /\ c.incoming = d.incoming
        /\ c.lcp \in {"Initial", "Closed", "Closing"}
        /\ Holds(d) => Holds(c)
        /\ Releases(d) => Releases(c)
    BY <1>1, CloseKeeps
  <2> HIDE DEF c, u
  <2>3. /\ Kept(u) /\ u.lcp \in Dead /\ SameDevice(c, u)
        /\ c.lcp \notin OPEN_STATE => u.lcp = "Initial"
        /\ Holds(c) => Holds(u)
        /\ Releases(c) => Releases(u)
    BY <2>1, <2>2, DownKeeps
  <2>4. c.lcp \notin OPEN_STATE
    BY <2>2 DEF OPEN_STATE
  <2> QED
    BY <1>1, <2>2, <2>3, <2>4 DEF Called, SameDevice
<1>5. CASE k.lcp \in OPEN_STATE /\ ~GivesUp(k)
  <2> DEFINE t == [k EXCEPT !.openTimer = TRUE]
             v == LcpDown(t)
  <2>1. u = CountRedial(v)
    BY <1>5 DEF LinkDown
  <2>2. k \in Links
    BY DEF Kept, Sound, Base
  <2>3. /\ t \in Links /\ SameLcp(k, t) /\ SameLower(k, t) /\ t.msgs = k.msgs
        /\ t.phys = k.phys /\ t.incoming = k.incoming /\ t.stay = k.stay /\ t.dead = k.dead
        /\ t.die = k.die /\ t.failed = k.failed /\ t.openTimer
    BY <2>2 DEF Links, SameLcp, SameLower
  <2> HIDE DEF t
  <2>4. \A m : Has(t, m) <=> Has(k, m)
    BY <2>3 DEF Has
  <2>5. Kept(t)
    BY <2>3, <2>4 DEF Kept, Sound, Base, PhaseFits, SameLcp, SameLower, Authenticates, Buried, Goes
  <2>6. (Holds(k) => Holds(t)) /\ (Releases(k) => Releases(t))
    BY <2>3, <2>4 DEF Holds, Releases, SameLcp, SameLower
  <2>7. /\ Kept(v) /\ v.lcp \in Dead /\ SameDevice(t, v)
        /\ Holds(t) => Holds(v)
        /\ Releases(t) => Releases(v)
    BY <2>5, DownKeeps
  <2> HIDE DEF v, u
  <2>8. v \in Links /\ v.redial \in Nat
    BY <2>7 DEF Kept, Sound, Base, Links
  <2>9. /\ u \in Links /\ SameLcp(v, u) /\ SameLower(v, u) /\ SameDevice(v, u) /\ u.msgs = v.msgs
        /\ u.failed = v.failed
    BY <2>1, <2>8 DEF CountRedial, Links, SameLcp, SameLower, SameDevice
  <2>10. \A m : Has(u, m) <=> Has(v, m)
    BY <2>9 DEF Has
  <2>11. Base(u) /\ Base(v)
    BY <2>7, <2>9, BaseSame DEF Kept, Sound
  <2>12. Kept(u) /\ (Holds(v) => Holds(u)) /\ (Releases(v) => Releases(u))
    BY <2>7, <2>9, <2>10, <2>11, MoreMessages DEF Kept, Sound
  <2>13. u.lcp \in Dead /\ u.openTimer /\ Called(u) /\ u.phys = k.phys
    BY <2>3, <2>7, <2>9 DEF SameLcp, SameDevice, Called
  <2> QED
    BY <2>6, <2>7, <2>12, <2>13
<1> QED
  BY <1>3, <1>4, <1>5

LEMMA PhysDownKeeps ==
  ASSUME NEW k, Kept(k), Called(k), conf \in Confs
  PROVE  LET u == PhysDown(k) IN
         /\ Whole(u) /\ u.phys = k.phys
         /\ Holds(k) => Holds(u)
         /\ Releases(k) => Releases(u)
<1> DEFINE d == LinkDown(k)
           u == PhysDown(k)
<1>1. /\ Kept(d) /\ Rises(d) /\ Admits(d) /\ Dials(d) /\ Called(d) /\ d.phys = k.phys
      /\ Holds(k) => Holds(d)
      /\ Releases(k) => Releases(d)
  BY LinkDownKeeps
<1>2. u = LinkShutdownCheck(d, d.lcp)
  BY DEF PhysDown
<1> HIDE DEF d, u
<1>3. /\ SameDevice(d, u)
      /\ Holds(d) => Holds(u)
      /\ Releases(d) => Releases(u)
      /\ Rises(d) /\ Admits(d) /\ Dials(d) /\ Called(d) => Whole(u)
  BY <1>1, <1>2, CheckKeeps
<1> QED
  BY <1>1, <1>3 DEF SameDevice, u

\* The device coming up under a link that is not to go.
LEMMA PhysUpKeeps ==
  ASSUME NEW k, Kept(k), Admits(k), ~k.dead, ~Has(k, "shutdown"), k.phys # "Down"
  PROVE  LET u == PhysUp(k) IN
         /\ Whole(u) /\ ~Has(u, "shutdown")
         /\ Holds(k) => Holds(u)
         /\ Releases(k) => Releases(u)
<1> DEFINE p == [k EXCEPT !.phys = "Up"]
           u == PhysUp(k)
<1>1. k \in Links
  BY DEF Kept, Sound, Base
<1>2. /\ p \in Links /\ SameLcp(k, p) /\ SameLower(k, p) /\ p.msgs = k.msgs /\ p.phys = "Up"
      /\ p.incoming = k.incoming /\ p.dead = k.dead /\ p.stay = k.stay /\ p.die = k.die
      /\ p.failed = k.failed
  BY <1>1 DEF Links, SameLcp, SameLower
<1>3. u = LcpUp(p)
  BY DEF PhysUp
<1> HIDE DEF p
<1>4. \A m : Has(p, m) <=> Has(k, m)
  BY <1>2 DEF Has
<1>5. Base(p)
  BY <1>2 DEF Kept, Sound, Base, PhaseFits, SameLcp
<1> HIDE DEF u
<1>6. /\ Moved(p, u) /\ SameLower(p, u)
      /\ \/ k.lcp = "Initial" /\ u.lcp = "Closed"
         \/ k.lcp = "Starting" /\ u.lcp = "Negotiating"
         \/ k.lcp \notin Dead /\ u = p
  BY <1>2, <1>3, <1>5, UpMoves DEF SameLcp
<1>7. Base(u) /\ SameDevice(p, u) /\ u.phys = "Up"
  BY <1>2, <1>6 DEF Moved, SameDevice
<1>8. ~Has(u, "shutdown")
  BY <1>4, <1>6, <1>7 DEF Moved, Disposable
<1>9. Goes(u) /\ Rises(u) /\ Disposes(u) /\ Dials(u) /\ Called(u)
  BY <1>7, <1>8 DEF Goes, Rises, Disposes, Disposable, Dials, Called
<1>10. Holds(k) => Holds(u)
  BY <1>2, <1>6, <1>7 DEF Holds, SameLcp, SameLower, SameDevice, Dead
<1>11. Releases(k) => Releases(u)
  <2> SUFFICES ASSUME Releases(k), ~u.dead
               PROVE  /\ u.lcp = "Stopped" => Has(u, "physClose")
                      /\ u.lcp \in {"Initial", "Closed"} => Has(u, "physClose") \/ Has(u, "open")
    BY DEF Releases
  <2>1. ~k.dead
    BY <1>2, <1>7 DEF SameDevice
  <2>2. \A m \in {"open", "physClose"} : Has(k, m) => Has(u, m)
    BY <1>4, <1>6 DEF Moved, Messages
  <2>3. k.lcp = "Stopped" => Has(k, "physClose")
    BY <2>1 DEF Releases
  <2>4. k.lcp \in {"Initial", "Closed"} => Has(k, "physClose") \/ Has(k, "open")
    BY <2>1 DEF Releases
  <2>5. CASE k.lcp \in Dead
    BY <1>6, <2>2, <2>4, <2>5 DEF Dead
  <2>6. CASE k.lcp \notin Dead
    <3>1. u.lcp = k.lcp
      BY <1>2, <1>6, <2>6 DEF SameLcp, Dead
    <3> QED
      BY <2>2, <2>3, <2>4, <3>1
  <2> QED
    BY <2>5, <2>6
<1>12. Buried(u)
  BY <1>2, <1>7 DEF Buried, SameDevice
<1>13. Authenticates(u) /\ Admits(u)
  <2>1. CASE k.lcp \in Dead
    <3>1. u.lcp \in {"Closed", "Negotiating"} /\ k.phase = "Dead"
      BY <1>6, <2>1 DEF Dead, Kept, Sound, Base, PhaseFits
    <3>2. Admits(u) /\ u.phase = "Establish"
      BY <1>6, <1>7, <3>1, MovedWhole DEF Base, PhaseFits
    <3>3. ~k.auth /\ u.auth = k.auth
      BY <1>2, <1>6, <3>1 DEF Kept, Sound, Authenticates, SameLower
    <3> QED
      BY <3>2, <3>3 DEF Authenticates
  <2>2. CASE k.lcp \notin Dead
    <3>1. u = p
      BY <1>6, <2>2 DEF Dead
    <3>2. Authenticates(p) /\ Admits(p)
      BY <1>2, <1>4 DEF Kept, Sound, Authenticates, Admits, SameLcp, SameLower
    <3> QED
      BY <3>1, <3>2
  <2> QED
    BY <2>1, <2>2
<1> QED
  BY <1>7, <1>8, <1>9, <1>10, <1>11, <1>12, <1>13 DEF Whole, Kept, Sound, u

\* What the invariant says depends on a few fields: opened and redial are free.
LEMMA SameParts ==
  ASSUME NEW k \in Links, NEW u \in Links, SameLcp(k, u), SameLower(k, u), u.msgs = k.msgs,
         u.stay = k.stay, u.die = k.die, u.dead = k.dead, u.failed = k.failed,
         u.phys = k.phys, u.incoming = k.incoming
  PROVE  /\ Kept(k) => Kept(u)
         /\ Rises(k) => Rises(u)
         /\ Disposes(k) => Disposes(u)
         /\ Admits(k) => Admits(u)
         /\ Dials(k) /\ u.openTimer = k.openTimer => Dials(u)
         /\ Called(k) => Called(u)
         /\ Holds(k) => Holds(u)
         /\ Releases(k) => Releases(u)
<1>1. \A m : Has(u, m) <=> Has(k, m)
  BY DEF Has
<1>2. Kept(k) => Kept(u)
  BY <1>1 DEF Kept, Sound, Base, PhaseFits, Authenticates, Buried, Goes, SameLcp, SameLower
<1>3. Disposes(k) => Disposes(u)
  BY <1>1 DEF Disposes, Disposable, SameLcp
<1>4. Rises(k) => Rises(u)
  BY DEF Rises, SameLcp
<1>5. Admits(k) => Admits(u)
  BY <1>1 DEF Admits, SameLcp
<1>6. Dials(k) /\ u.openTimer = k.openTimer => Dials(u)
  BY <1>1 DEF Dials, SameLcp
<1>7. Holds(k) => Holds(u)
  BY DEF Holds, SameLcp, SameLower
<1>8. Releases(k) => Releases(u)
  BY <1>1 DEF Releases, SameLcp
<1>9. Called(k) => Called(u)
  BY DEF Called
<1> QED
  BY <1>2, <1>3, <1>4, <1>5, <1>6, <1>7, <1>8, <1>9

LEMMA DoCloseFields ==
  ASSUME NEW k, Kept(k)
  PROVE  LET u == DoClose(k) IN
         /\ Kept(u) /\ Called(u) /\ Releases(u)
         /\ Holds(k) => Holds(u)
<1> DEFINE u == DoClose(k)
<1>1. k \in Links
  BY DEF Kept, Sound, Base
<1>2. /\ u \in Links /\ SameLcp(k, u) /\ SameLower(k, u) /\ u.msgs = k.msgs
      /\ u.phys = "Down" /\ ~u.incoming /\ u.dead = k.dead /\ u.stay = k.stay /\ u.die = k.die
      /\ u.failed = k.failed
  BY <1>1 DEF DoClose, Links, SameLcp, SameLower
<1> HIDE DEF u
<1>3. \A m : Has(u, m) <=> Has(k, m)
  BY <1>2 DEF Has
<1>4. Kept(u)
  BY <1>2, <1>3 DEF Kept, Sound, Base, PhaseFits, Authenticates, Buried, Goes, SameLcp, SameLower
<1>5. Called(u) /\ Releases(u) /\ (Holds(k) => Holds(u))
  BY <1>2 DEF Called, Releases, Holds, SameLcp, SameLower
<1> QED
  BY <1>4, <1>5 DEF u

\* The device is opened: at once, by a call that waits for it, or not.
LEMMA DeviceOpenKeeps ==
  ASSUME NEW k, Kept(k), Rises(k), Disposes(k), Admits(k), Called(k), ~k.dead,
         NodeKept => Holds(k), DeviceKept => Releases(k), conf \in Confs, NEW ok \in BOOLEAN
  PROVE  LET u == DeviceOpen(k, ok) IN
         Whole(u) /\ (NodeKept => Holds(u)) /\ (DeviceKept => Releases(u))
<1> DEFINE u == DeviceOpen(k, ok)
           o == [k EXCEPT !.opened = TRUE]
<1>1. k \in Links
  BY DEF Kept, Sound, Base
<1>2. /\ o \in Links /\ SameLcp(k, o) /\ SameLower(k, o) /\ o.msgs = k.msgs
      /\ o.phys = k.phys /\ o.incoming = k.incoming /\ o.dead = k.dead /\ o.stay = k.stay
      /\ o.die = k.die /\ o.failed = k.failed
  BY <1>1 DEF Links, SameLcp, SameLower
<1>3. \/ u = PhysDown(o)
      \/ u = PhysUp(o) /\ k.phys = "Ready"
      \/ u = o /\ k.phys # "Down"
      \/ u = [o EXCEPT !.phys = "Connecting"] /\ k.phys = "Down" /\ ~k.incoming /\ k.node
  <2>1. k.incoming => k.phys # "Down"
    BY DEF Called
  <2> HIDE DEF o
  <2>2. CASE k.incoming
    BY <2>1, <2>2 DEF DeviceOpen, o
  <2>3. CASE ~k.incoming
    BY <2>3 DEF DeviceOpen, o
  <2> QED
    BY <2>2, <2>3
<1> HIDE DEF o, u
<1>4. /\ Kept(o) /\ Rises(o) /\ Disposes(o) /\ Admits(o) /\ Called(o)
      /\ NodeKept => Holds(o)
      /\ DeviceKept => Releases(o)
  BY <1>1, <1>2, SameParts
<1>5. CASE u = PhysDown(o)
  BY <1>4, <1>5, PhysDownKeeps DEF u
<1>6. CASE u = PhysUp(o) /\ k.phys = "Ready"
  <2>1. ~Has(o, "shutdown")
    BY <1>2, <1>4, <1>6 DEF Kept, Sound, Goes
  <2> QED
    BY <1>2, <1>4, <1>6, <2>1, PhysUpKeeps DEF u
<1>7. CASE u = o /\ k.phys # "Down"
  BY <1>2, <1>4, <1>7 DEF Whole, Dials, u
<1>8. CASE u = [o EXCEPT !.phys = "Connecting"] /\ k.phys = "Down" /\ ~k.incoming /\ k.node
  <2>1. /\ u \in Links /\ SameLcp(o, u) /\ SameLower(o, u) /\ u.msgs = o.msgs
        /\ u.phys = "Connecting" /\ u.incoming = o.incoming /\ u.dead = o.dead
        /\ u.stay = o.stay /\ u.die = o.die /\ u.failed = o.failed
    BY <1>2, <1>8 DEF Links, SameLcp, SameLower
  <2>2. \A m : Has(u, m) <=> Has(o, m)
    BY <2>1 DEF Has
  <2>3. Kept(u)
    BY <2>1, <2>2, <1>4
       DEF Kept, Sound, Base, PhaseFits, Authenticates, Buried, Goes, SameLcp, SameLower
  <2>4. k.lcp \in Dead
    BY <1>8 DEF Rises
  <2>5. Rises(u) /\ Disposes(u) /\ Dials(u) /\ Called(u)
    BY <1>2, <1>8, <2>1, <2>4 DEF Rises, Disposes, Disposable, Dials, Called, SameLcp
  <2>6. Admits(u)
    BY <1>4, <2>1, <2>2 DEF Admits, SameLcp
  <2>7. NodeKept => Holds(u)
    BY <1>4, <2>1 DEF Holds, SameLcp, SameLower
  <2>8. DeviceKept => Releases(u)
    <3> SUFFICES ASSUME DeviceKept PROVE Releases(u)
      OBVIOUS
    <3>1. Holds(k)
      BY DEF DeviceKept, NodeKept
    <3>2. k.lcp = "Starting"
      BY <1>8, <2>4, <3>1 DEF Holds, Dead
    <3> QED
      BY <1>2, <2>1, <3>2 DEF Releases, SameLcp
  <2> QED
    BY <2>3, <2>5, <2>6, <2>7, <2>8 DEF Whole, u
<1> QED
  BY <1>3, <1>5, <1>6, <1>7, <1>8

\* The device is closed; the request has just been taken from the queue.
LEMMA DeviceCloseKeeps ==
  ASSUME NEW k, Kept(k), Rises(k), Disposes(k), Dials(k), Called(k), conf \in Confs
  PROVE  LET u == DeviceClose(k) IN
         /\ Whole(u) /\ Releases(u)
         /\ Holds(k) => Holds(u)
<1> DEFINE u == DeviceClose(k)
           c == [k EXCEPT !.opened = FALSE]
           q == DoClose(c)
<1>1. k \in Links
  BY DEF Kept, Sound, Base
<1>2. /\ c \in Links /\ SameLcp(k, c) /\ SameLower(k, c) /\ c.msgs = k.msgs
      /\ c.phys = k.phys /\ c.incoming = k.incoming /\ c.dead = k.dead /\ c.stay = k.stay
      /\ c.die = k.die /\ c.failed = k.failed /\ c.openTimer = k.openTimer
  BY <1>1 DEF Links, SameLcp, SameLower
<1>3. u = IF k.phys = "Down" THEN c ELSE PhysDown(q)
  BY DEF DeviceClose
<1> HIDE DEF c
<1>4. /\ Kept(c) /\ Rises(c) /\ Disposes(c) /\ Dials(c) /\ Called(c)
      /\ Holds(k) => Holds(c)
  BY <1>1, <1>2, SameParts
<1>5. /\ Kept(q) /\ Called(q) /\ Releases(q)
      /\ Holds(c) => Holds(q)
  BY <1>4, DoCloseFields
<1> HIDE DEF q, u
<1>6. CASE k.phys = "Down"
  <2>1. c.lcp \in Dead
    BY <1>2, <1>4, <1>6 DEF Rises
  <2>2. Admits(c) /\ Releases(c)
    BY <1>2, <1>4, <1>6, <2>1 DEF Admits, Releases, Kept, Sound, Base, PhaseFits, Dead
  <2> QED
    BY <1>3, <1>4, <1>6, <2>2 DEF Whole, u
<1>7. CASE k.phys # "Down"
  BY <1>3, <1>4, <1>5, <1>7, PhysDownKeeps DEF u
<1> QED
  BY <1>6, <1>7

----------------------------------------------------------------------------
(* The actions. *)

\* The invariant of a record, by what has happened to the link.
Fine(k) == Whole(k) /\ (NodeKept => Holds(k)) /\ (DeviceKept => Releases(k))

\* A link that is to go has no device unless its messages are being handled.
Rests(k) == Has(k, "shutdown") /\ ~k.dead => k.phys = "Down"

\* The state before an action of the event loop.
LEMMA FineBefore ==
  ASSUME IInv
  PROVE  /\ conf \in Confs /\ Fine(l) /\ Kept(l) /\ Sound(l) /\ Base(l) /\ l \in Links
         /\ l.lcp \in LcpStates /\ Rises(l) /\ Disposes(l) /\ Admits(l) /\ Dials(l) /\ Called(l)
         /\ Authenticates(l)
         /\ ~handling => Rests(l)
<1>1. conf \in Confs /\ Fine(l) /\ (~handling => Rests(l))
  BY DEF IInv, Fine, Rests
<1>2. Kept(l) /\ Rises(l) /\ Disposes(l) /\ Admits(l) /\ Dials(l) /\ Called(l)
  BY DEF IInv, Whole
<1>3. Sound(l) /\ Base(l) /\ Authenticates(l) /\ l \in Links /\ l.lcp \in LcpStates
  BY <1>2 DEF Kept, Sound, Base, Links
<1> QED
  BY <1>1, <1>2, <1>3

\* What a message brings about.
LEMMA HandleIsFine ==
  ASSUME IInv, ~l.dead, l.msgs # << >>, NEW ok \in BOOLEAN
  PROVE  Fine(Handle([l EXCEPT !.msgs = Tail(l.msgs)], Head(l.msgs), ok))
<1> DEFINE k == [l EXCEPT !.msgs = Tail(l.msgs)]
           m == Head(l.msgs)
<1>1. /\ conf \in Confs /\ Fine(l) /\ Kept(l) /\ l \in Links /\ Rises(l) /\ Disposes(l)
      /\ Admits(l) /\ Dials(l) /\ Called(l)
  BY FineBefore
<1>2. l.msgs \in Seq(Messages)
  BY <1>1 DEF Links
<1>3. /\ Tail(l.msgs) \in Seq(Messages) /\ m \in Messages
      /\ \A n : (\E i \in DOMAIN l.msgs : l.msgs[i] = n) <=>
                (\E i \in DOMAIN Tail(l.msgs) : Tail(l.msgs)[i] = n) \/ n = m
  BY <1>2, HasTail
<1>4. /\ k \in Links /\ SameLcp(l, k) /\ SameLower(l, k) /\ SameDevice(l, k)
      /\ k.msgs = Tail(l.msgs) /\ k.failed = l.failed /\ k.redial = l.redial
  BY <1>1, <1>3 DEF Links, SameLcp, SameLower, SameDevice
<1> HIDE DEF k, m
<1>5. \A n : Has(l, n) <=> Has(k, n) \/ n = m
  BY <1>3, <1>4 DEF Has
<1>6. Kept(k) /\ Rises(k) /\ Called(k) /\ ~k.dead
  BY <1>1, <1>4, <1>5
     DEF Kept, Sound, Base, PhaseFits, Authenticates, Buried, Goes, Rises, Called,
         SameLcp, SameLower, SameDevice
<1>7. NodeKept => Holds(k)
  BY <1>1, <1>4 DEF Fine, Holds, SameLcp, SameLower, SameDevice
<1>8. /\ m # "shutdown" => Disposes(k)
      /\ m # "physClose" => Admits(k)
      /\ m # "physOpen" => Dials(k)
  BY <1>1, <1>4, <1>5 DEF Disposes, Disposable, Admits, Dials, SameLcp, SameDevice
<1>9. DeviceKept /\ m \notin {"open", "physClose"} => Releases(k)
  BY <1>1, <1>4, <1>5 DEF Fine, Releases, SameLcp, SameDevice
<1> DEFINE u == Handle(k, m, ok)
<1>10. CASE m = "open"
  <2> DEFINE o == [k EXCEPT !.redial = 0]
  <2>1. u = LcpOpen(o)
    BY <1>6, <1>10 DEF Handle
  <2>2. /\ o \in Links /\ SameLcp(k, o) /\ SameLower(k, o) /\ o.msgs = k.msgs
        /\ o.phys = k.phys /\ o.incoming = k.incoming /\ o.dead = k.dead /\ o.stay = k.stay
        /\ o.die = k.die /\ o.failed = k.failed /\ o.openTimer = k.openTimer
    BY <1>4 DEF Links, SameLcp, SameLower
  <2> HIDE DEF o, u
  <2>3. /\ Whole(o) /\ ~o.dead
        /\ NodeKept => Holds(o)
    BY <1>4, <1>6, <1>7, <1>8, <1>10, <2>2, SameParts DEF Whole
  <2>4. \A n : Has(o, n) <=> Has(k, n)
    BY <2>2 DEF Has
  <2>5. DeviceKept /\ o.phys # "Down" /\ o.lcp = "Stopped" => Has(o, "physClose")
    BY <1>1, <1>4, <1>5, <1>6, <1>10, <2>2, <2>4 DEF Fine, Releases, SameLcp, SameDevice
  <2>6. /\ Whole(u)
        /\ Holds(o) => Holds(u)
        /\ (o.phys # "Down" /\ o.lcp = "Stopped" => Has(o, "physClose")) => Releases(u)
    BY <2>1, <2>3, OpenKeeps
  <2> QED
    BY <2>3, <2>5, <2>6 DEF Fine, u, k, m
<1>11. CASE m = "close"
  <2> DEFINE o == [k EXCEPT !.openTimer = FALSE]
  <2>1. u = LcpClose(o)
    BY <1>6, <1>11 DEF Handle
  <2>2. /\ o \in Links /\ SameLcp(k, o) /\ SameLower(k, o) /\ o.msgs = k.msgs
        /\ o.phys = k.phys /\ o.incoming = k.incoming /\ o.dead = k.dead /\ o.stay = k.stay
        /\ o.die = k.die /\ o.failed = k.failed
    BY <1>4 DEF Links, SameLcp, SameLower
  <2> HIDE DEF o, u
  <2>3. /\ Kept(o) /\ Rises(o) /\ Disposes(o) /\ Called(o)
        /\ NodeKept => Holds(o)
        /\ DeviceKept => Releases(o)
    BY <1>4, <1>6, <1>7, <1>8, <1>9, <1>11, <2>2, SameParts
  <2>4. /\ Holds(o) => Holds(u)
        /\ Releases(o) => Releases(u)
        /\ Rises(o) /\ Disposes(o) /\ Called(o) => Whole(u)
    BY <2>1, <2>3, CloseKeeps
  <2> QED
    BY <2>3, <2>4 DEF Fine, u, k, m
<1>12. CASE m = "shutdown"
  <2>1. u = LinkShutdown(k)
    BY <1>6, <1>12 DEF Handle
  <2>2. /\ u \in Links /\ SameLcp(k, u) /\ u.auth = k.auth /\ u.stay = k.stay /\ u.die = k.die
        /\ u.failed = k.failed /\ u.dead /\ u.phys = "Down" /\ ~u.incoming
    BY <1>4, <2>1, ZenonT(60) DEF LinkShutdown, Links, SameLcp
  <2>3. k.lcp \in Dead
    BY <1>1, <1>4, <1>5, <1>6, <1>12 DEF Kept, Sound, Goes, SameLcp, SameDevice
  <2> HIDE DEF u
  <2>4. Kept(u)
    BY <1>6, <2>2, <2>3
       DEF Kept, Sound, Base, PhaseFits, Authenticates, Buried, Goes, SameLcp
  <2>5. Rises(u) /\ Disposes(u) /\ Admits(u) /\ Dials(u) /\ Called(u) /\ Holds(u) /\ Releases(u)
    BY <2>2, <2>3 DEF Rises, Disposes, Admits, Dials, Called, Holds, Releases, SameLcp
  <2> QED
    BY <2>4, <2>5 DEF Fine, Whole, u, k, m
<1>13. CASE m = "physOpen"
  <2>1. u = DeviceOpen(k, ok)
    BY <1>6, <1>13 DEF Handle
  <2> HIDE DEF u
  <2>2. Whole(u) /\ (NodeKept => Holds(u)) /\ (DeviceKept => Releases(u))
    BY <1>1, <1>6, <1>7, <1>8, <1>9, <1>13, <2>1, DeviceOpenKeeps
  <2> QED
    BY <2>2 DEF Fine, u, k, m
<1>14. CASE m = "physClose"
  <2>1. u = DeviceClose(k)
    BY <1>6, <1>14 DEF Handle
  <2> HIDE DEF u
  <2>2. /\ Whole(u) /\ Releases(u)
        /\ Holds(k) => Holds(u)
    BY <1>1, <1>6, <1>8, <1>14, <2>1, DeviceCloseKeeps
  <2> QED
    BY <1>7, <2>2 DEF Fine, u, k, m
<1> QED
  BY <1>3, <1>10, <1>11, <1>12, <1>13, <1>14 DEF Messages, k, m

\* A link that is dead drops its messages.
LEMMA DropIsFine ==
  ASSUME IInv, l.dead, l.msgs # << >>
  PROVE  Fine([l EXCEPT !.msgs = Tail(l.msgs)])
<1> DEFINE k == [l EXCEPT !.msgs = Tail(l.msgs)]
<1>1. l \in Links /\ Kept(l) /\ Rises(l) /\ Called(l)
  BY FineBefore
<1>2. l.msgs \in Seq(Messages)
  BY <1>1 DEF Links
<1>3. Tail(l.msgs) \in Seq(Messages)
  BY <1>2, HasTail
<1>4. /\ k \in Links /\ SameLcp(l, k) /\ SameLower(l, k) /\ SameDevice(l, k)
      /\ k.failed = l.failed
  BY <1>1, <1>3 DEF Links, SameLcp, SameLower, SameDevice
<1> HIDE DEF k
<1>5. Kept(k) /\ Rises(k) /\ Called(k) /\ k.dead
  BY <1>1, <1>4
     DEF Kept, Sound, Base, PhaseFits, Authenticates, Buried, Goes, Rises, Called,
         SameLcp, SameLower, SameDevice
<1>6. Disposes(k) /\ Admits(k) /\ Dials(k) /\ Holds(k) /\ Releases(k)
  BY <1>5 DEF Disposes, Admits, Dials, Holds, Releases
<1> QED
  BY <1>5, <1>6 DEF Fine, Whole, k

\* A request from outside.
LEMMA SendIsFine ==
  ASSUME IInv, ~l.dead, ~handling, NEW m \in Messages, m # "shutdown"
  PROVE  LET u == MsgSend(l, m) IN
         Whole(u) /\ (Holds(l) => Holds(u)) /\ (Releases(l) => Releases(u)) /\ Rests(u)
<1> DEFINE u == MsgSend(l, m)
<1>1. /\ Kept(l) /\ Sound(l) /\ Base(l) /\ l \in Links /\ Rises(l) /\ Disposes(l) /\ Admits(l)
      /\ Dials(l) /\ Called(l) /\ Rests(l)
  BY FineBefore
<1>2. /\ u \in Links /\ SameLcp(l, u) /\ SameDevice(l, u) /\ SameLower(l, u)
      /\ u.failed = "phase" => l.failed = "phase"
      /\ Sent(l, u, {m})
  BY <1>1, SendFields
<1> HIDE DEF u
<1>3. Base(u)
  BY <1>1, <1>2, BaseSame
<1>4. /\ \A n \in Messages : Has(l, n) => Has(u, n)
      /\ Has(u, "shutdown") => Has(l, "shutdown")
  BY <1>2 DEF Sent, Messages
<1>5. Authenticates(l) /\ Buried(l) /\ Goes(l)
  BY <1>1 DEF Kept, Sound
<1>6. /\ Authenticates(u) /\ Buried(u) /\ Goes(u) /\ (Holds(l) => Holds(u))
      /\ (Releases(l) => Releases(u)) /\ Disposes(u) /\ Admits(u) /\ Dials(u) /\ Rises(u)
      /\ Called(u)
  BY <1>1, <1>2, <1>3, <1>4, <1>5, MoreMessages
<1>7. Rests(u)
  BY <1>1, <1>2, <1>4 DEF Rests, SameDevice
<1> QED
  BY <1>3, <1>6, <1>7 DEF Whole, Kept, Sound, u

LEMMA DestroyIsFine ==
  ASSUME IInv, LinkDestroy
  PROVE  Whole(l') /\ (NodeKept => Holds(l')) /\ Rests(l')
<1> DEFINE k == [l EXCEPT !.stay = FALSE]
           d == [k EXCEPT !.die = TRUE]
<1>1. /\ Fine(l) /\ Kept(l) /\ l \in Links /\ Rises(l) /\ Disposes(l) /\ Admits(l)
      /\ Dials(l) /\ Called(l)
  BY FineBefore
<1>2. ~l.dead /\ ~handling /\ Rests(l)
  BY FineBefore DEF LinkDestroy, Calm, Alive
<1>3. /\ k \in Links /\ SameLcp(l, k) /\ SameLower(l, k) /\ k.msgs = l.msgs
      /\ k.phys = l.phys /\ k.incoming = l.incoming /\ k.dead = l.dead /\ ~k.stay
      /\ k.die = l.die /\ k.failed = l.failed /\ k.openTimer = l.openTimer
  BY <1>1 DEF Links, SameLcp, SameLower
<1>4. /\ d \in Links /\ SameLcp(l, d) /\ SameLower(l, d) /\ d.msgs = l.msgs
      /\ d.phys = l.phys /\ d.incoming = l.incoming /\ d.dead = l.dead /\ ~d.stay
      /\ d.die /\ d.failed = l.failed /\ d.openTimer = l.openTimer
  BY <1>1 DEF Links, SameLcp, SameLower
<1>5. l' = IF k.lcp \in OPEN_STATE THEN LcpClose(k) ELSE LinkShutdownCheck(d, k.lcp)
  BY DEF LinkDestroy
<1> HIDE DEF k, d
<1>6. \A m : (Has(k, m) <=> Has(l, m)) /\ (Has(d, m) <=> Has(l, m))
  BY <1>3, <1>4 DEF Has
<1>7. CASE l.lcp \in OPEN_STATE
  <2>1. Kept(k) /\ Rises(k) /\ Called(k) /\ (Holds(l) => Holds(k))
    BY <1>1, <1>3, <1>6
       DEF Kept, Sound, Base, PhaseFits, Authenticates, Buried, Goes, Rises, Called, Holds,
           SameLcp, SameLower
  <2>2. Disposes(k)
    BY <1>3, <1>7 DEF Disposes, Disposable, OPEN_STATE, SameLcp
  <2>3. l' = LcpClose(k)
    BY <1>3, <1>5, <1>7 DEF SameLcp
  <2>4. /\ l'.phys = k.phys /\ l'.dead = k.dead
        /\ Has(l', "shutdown") => Has(k, "shutdown") \/ l'.phys = "Down"
        /\ Holds(k) => Holds(l')
        /\ Rises(k) /\ Disposes(k) /\ Called(k) => Whole(l')
    BY <2>1, <2>3, CloseKeeps
  <2> QED
    BY <1>1, <1>2, <1>3, <1>6, <2>1, <2>2, <2>4 DEF Fine, Rests
<1>8. CASE l.lcp \notin OPEN_STATE
  <2>1. /\ Kept(d) /\ Rises(d) /\ Admits(d) /\ Dials(d) /\ Called(d)
        /\ Holds(l) => Holds(d)
    BY <1>1, <1>4, <1>6
       DEF Kept, Sound, Base, PhaseFits, Authenticates, Buried, Goes, Rises, Admits, Dials,
           Called, Holds, SameLcp, SameLower
  <2>2. l' = LinkShutdownCheck(d, d.lcp)
    BY <1>3, <1>4, <1>5, <1>8 DEF SameLcp
  <2>3. /\ SameDevice(d, l')
        /\ Has(l', "shutdown") => Has(d, "shutdown") \/ l'.phys = "Down"
        /\ Holds(d) => Holds(l')
        /\ Rises(d) /\ Admits(d) /\ Dials(d) /\ Called(d) => Whole(l')
    BY <2>1, <2>2, CheckKeeps
  <2> QED
    BY <1>1, <1>2, <1>4, <1>6, <2>1, <2>3 DEF Fine, Rests, SameDevice
<1> QED
  BY <1>7, <1>8

\* The redial timer, which may find the link dead.
LEMMA ReopenIsFine ==
  ASSUME IInv, LinkReopenTimeout
  PROVE  Fine(l') /\ Rests(l')
<1> DEFINE k == [l EXCEPT !.openTimer = FALSE]
<1>1. /\ Fine(l) /\ Kept(l) /\ l \in Links /\ Rises(l) /\ Disposes(l) /\ Admits(l) /\ Called(l)
      /\ Rests(l)
  BY FineBefore DEF LinkReopenTimeout
<1>2. /\ k \in Links /\ SameLcp(l, k) /\ SameLower(l, k) /\ k.msgs = l.msgs
      /\ k.phys = l.phys /\ k.incoming = l.incoming /\ k.dead = l.dead /\ k.stay = l.stay
      /\ k.die = l.die /\ k.failed = l.failed
  BY <1>1 DEF Links, SameLcp, SameLower
<1>3. l' = IF gShutdownInProgress THEN LcpClose(k) ELSE MsgSend(k, "physOpen")
  BY DEF LinkReopenTimeout
<1> HIDE DEF k
<1>4. \A m : Has(k, m) <=> Has(l, m)
  BY <1>2 DEF Has
<1>5. /\ Kept(k) /\ Rises(k) /\ Disposes(k) /\ Admits(k) /\ Called(k)
      /\ NodeKept => Holds(k)
      /\ DeviceKept => Releases(k)
  BY <1>1, <1>2, SameParts DEF Fine
<1>6. CASE gShutdownInProgress
  <2>1. l' = LcpClose(k)
    BY <1>3, <1>6
  <2>2. /\ l'.phys = k.phys /\ l'.dead = k.dead
        /\ Has(l', "shutdown") => Has(k, "shutdown") \/ l'.phys = "Down"
        /\ Holds(k) => Holds(l')
        /\ Releases(k) => Releases(l')
        /\ Rises(k) /\ Disposes(k) /\ Called(k) => Whole(l')
    BY <1>5, <2>1, CloseKeeps
  <2> QED
    BY <1>1, <1>2, <1>4, <1>5, <2>2 DEF Fine, Rests
<1>7. CASE ~gShutdownInProgress
  <2> DEFINE u == MsgSend(k, "physOpen")
  <2>1. /\ u \in Links /\ SameLcp(k, u) /\ SameDevice(k, u) /\ SameLower(k, u)
        /\ u.failed = "phase" => k.failed = "phase"
        /\ Sent(k, u, {"physOpen"})
        /\ ~k.dead => Has(u, "physOpen")
    BY <1>2, SendFields DEF Messages
  <2>2. l' = u
    BY <1>3, <1>7
  <2> HIDE DEF u
  <2>3. Base(k) /\ Authenticates(k) /\ Buried(k) /\ Goes(k)
    BY <1>5 DEF Kept, Sound
  <2>4. Base(u)
    BY <2>1, <2>3, BaseSame
  <2>5. /\ \A n \in Messages : Has(k, n) => Has(u, n)
        /\ Has(u, "shutdown") => Has(k, "shutdown")
    BY <2>1 DEF Sent, Messages
  <2>6. /\ Authenticates(u) /\ Buried(u) /\ Goes(u) /\ (Holds(k) => Holds(u))
        /\ (Releases(k) => Releases(u)) /\ Disposes(u) /\ Admits(u) /\ Rises(u) /\ Called(u)
    BY <1>5, <2>1, <2>3, <2>4, <2>5, MoreMessages
  <2>7. Dials(u)
    BY <2>1 DEF Dials, SameDevice
  <2>8. Rests(u)
    BY <1>1, <1>2, <1>4, <2>1, <2>5 DEF Rests, SameDevice
  <2> QED
    BY <1>5, <2>2, <2>4, <2>6, <2>7, <2>8 DEF Fine, Whole, Kept, Sound
<1> QED
  BY <1>6, <1>7

LEMMA IncomingIsFine ==
  ASSUME IInv, Incoming
  PROVE  Fine(l') /\ Rests(l')
<1>1. /\ Fine(l) /\ Kept(l) /\ Base(l) /\ l \in Links /\ Called(l) /\ Rests(l)
  BY FineBefore DEF Incoming, Calm
<1>2. l.lcp = "Initial" /\ l.phys = "Down" /\ ~l.die /\ ~l.dead
  BY DEF Incoming, Calm, Alive, PhysIsBusy
<1>3. l.phase = "Dead" /\ ~l.auth
  BY <1>1, <1>2 DEF Base, PhaseFits, Kept, Authenticates
<1>4. ~Has(l, "shutdown")
  BY <1>1, <1>2 DEF Kept, Sound, Goes
<1>5. ASSUME NEW m \in {"open", "physClose"}, l' = IncomingCall(l, m)
      PROVE  Fine(l') /\ Rests(l')
  <2> DEFINE s == Append(l.msgs, m)
             u == [l EXCEPT !.phys = "Connecting", !.incoming = TRUE, !.msgs = s]
  <2>1. l' = u
    BY <1>5 DEF IncomingCall
  <2>2. l.msgs \in Seq(Messages) /\ m \in Messages /\ s \in Seq(Messages)
    BY <1>1 DEF Links, Messages
  <2>3. \A n : (\E i \in DOMAIN s : s[i] = n) <=> (\E i \in DOMAIN l.msgs : l.msgs[i] = n) \/ n = m
    BY <2>2, HasAppend
  <2> HIDE DEF s
  <2>4. /\ u \in Links /\ SameLcp(l, u) /\ SameLower(l, u) /\ u.msgs = s
        /\ u.phys = "Connecting" /\ u.incoming /\ u.dead = l.dead /\ u.stay = l.stay
        /\ u.die = l.die /\ u.failed = l.failed
    BY <1>1, <2>2 DEF Links, SameLcp, SameLower
  <2> HIDE DEF u
  <2>5. \A n : Has(u, n) <=> Has(l, n) \/ n = m
    BY <2>3, <2>4 DEF Has
  <2>6. Kept(u)
    BY <1>1, <1>2, <1>4, <2>4, <2>5
       DEF Kept, Sound, Base, PhaseFits, Authenticates, Buried, Goes, SameLcp, SameLower
  <2>7. Rises(u) /\ Disposes(u) /\ Admits(u) /\ Dials(u) /\ Called(u)
    BY <1>2, <1>3, <2>4
       DEF Rises, Disposes, Disposable, Admits, Dials, Called, SameLcp, Dead
  <2>8. (NodeKept => Holds(u)) /\ Releases(u)
    BY <1>1, <1>2, <2>4, <2>5 DEF Fine, Holds, Releases, SameLcp, SameLower
  <2>9. Rests(u)
    BY <1>4, <2>5 DEF Rests
  <2> QED
    BY <2>1, <2>6, <2>7, <2>8, <2>9 DEF Fine, Whole
<1>6. ASSUME l' = LinkShutdown(l)
      PROVE  Fine(l') /\ Rests(l')
  <2> DEFINE u == LinkShutdown(l)
  <2>1. /\ u \in Links /\ SameLcp(l, u) /\ u.auth = l.auth /\ u.stay = l.stay /\ u.die = l.die
        /\ u.failed = l.failed /\ u.dead /\ u.phys = "Down" /\ ~u.incoming
    BY <1>1 DEF LinkShutdown, Links, SameLcp
  <2> HIDE DEF u
  <2>2. Kept(u)
    BY <1>1, <1>2, <2>1
       DEF Kept, Sound, Base, PhaseFits, Authenticates, Buried, Goes, SameLcp, Dead
  <2>3. /\ Rises(u) /\ Disposes(u) /\ Admits(u) /\ Dials(u) /\ Called(u) /\ Holds(u) /\ Releases(u)
        /\ Rests(u)
    BY <1>2, <2>1
       DEF Rises, Disposes, Admits, Dials, Called, Holds, Releases, Rests, SameLcp, Dead
  <2> QED
    BY <1>6, <2>2, <2>3 DEF Fine, Whole, u
<1>7. \/ \E m \in {"open", "physClose"} : l' = IncomingCall(l, m)
      \/ l' = l
      \/ l' = LinkShutdown(l)
  BY DEF Incoming
<1> QED
  BY <1>1, <1>5, <1>6, <1>7

LEMMA ConnectIsFine ==
  ASSUME IInv, ConnectSuccess
  PROVE  Fine(l') /\ Rests(l')
<1>1. /\ Fine(l) /\ Kept(l) /\ l \in Links /\ Called(l) /\ Rests(l) /\ Rises(l) /\ Admits(l)
      /\ Disposes(l)
  BY FineBefore DEF ConnectSuccess, Calm
<1>2. ~l.dead /\ l.phys = "Connecting"
  BY DEF ConnectSuccess, Calm, Alive
<1>3. ~Has(l, "shutdown")
  BY <1>1, <1>2 DEF Rests
<1>4. CASE l' = PhysUp(l)
  <2>1. /\ Whole(l') /\ ~Has(l', "shutdown")
        /\ Holds(l) => Holds(l')
        /\ Releases(l) => Releases(l')
    BY <1>1, <1>2, <1>3, <1>4, PhysUpKeeps
  <2> QED
    BY <1>1, <2>1 DEF Fine, Rests
<1>5. CASE l' = [l EXCEPT !.phys = "Ready"]
  <2> DEFINE u == [l EXCEPT !.phys = "Ready"]
  <2>1. /\ u \in Links /\ SameLcp(l, u) /\ SameLower(l, u) /\ u.msgs = l.msgs
        /\ u.phys = "Ready" /\ u.dead = l.dead /\ u.stay = l.stay
        /\ u.die = l.die /\ u.failed = l.failed
    BY <1>1 DEF Links, SameLcp, SameLower
  <2> HIDE DEF u
  <2>2. \A n : Has(u, n) <=> Has(l, n)
    BY <2>1 DEF Has
  <2>3. Kept(u)
    BY <1>1, <1>3, <2>1, <2>2
       DEF Kept, Sound, Base, PhaseFits, Authenticates, Buried, Goes, SameLcp, SameLower
  <2>4. Rises(u) /\ Disposes(u) /\ Admits(u) /\ Dials(u) /\ Called(u) /\ Rests(u)
    BY <1>1, <1>2, <1>3, <2>1, <2>2
       DEF Rises, Disposes, Disposable, Admits, Dials, Called, Rests, SameLcp
  <2>5. (Holds(l) => Holds(u)) /\ (Releases(l) => Releases(u))
    BY <1>2, <2>1, <2>2 DEF Holds, Releases, SameLcp, SameLower
  <2> QED
    BY <1>1, <1>5, <2>3, <2>4, <2>5 DEF Fine, Whole, u
<1> QED
  BY <1>4, <1>5 DEF ConnectSuccess

LEMMA LostIsFine ==
  ASSUME IInv, ConnectionLost
  PROVE  Fine(l') /\ Rests(l')
<1> DEFINE d == DoClose(l)
<1>1. Fine(l) /\ Kept(l) /\ conf \in Confs
  BY FineBefore
<1>2. l' = PhysDown(d) /\ d.phys = "Down"
  BY FineBefore DEF ConnectionLost, DoClose, Links
<1>3. /\ Kept(d) /\ Called(d) /\ Releases(d)
      /\ Holds(l) => Holds(d)
  BY <1>1, DoCloseFields
<1> HIDE DEF d
<1>4. /\ Whole(l') /\ l'.phys = d.phys
      /\ Holds(d) => Holds(l')
      /\ Releases(d) => Releases(l')
  BY <1>1, <1>2, <1>3, PhysDownKeeps
<1> QED
  BY <1>1, <1>2, <1>3, <1>4 DEF Fine, Rests

LEMMA FailureIsFine ==
  ASSUME IInv, Failure \/ TermReq
  PROVE  Fine(l') /\ Rests(l')
<1>1. /\ Fine(l) /\ Sound(l) /\ Authenticates(l) /\ Called(l) /\ Rises(l) /\ Rests(l)
  BY FineBefore DEF Failure, TermReq, Calm
<1>2. l.lcp \notin Dead /\ l' = FsmFailure(l)
  BY DEF Failure, TermReq, FsmFailure, Dead
<1>3. /\ SameDevice(l, l') /\ (Has(l', "shutdown") => Has(l, "shutdown"))
      /\ ~conf.passive /\ Holds(l) => Holds(l')
      /\ ~conf.passive => Releases(l')
      /\ Rises(l) /\ Called(l) => Whole(l')
  BY <1>1, <1>2, FailureKeeps
<1> QED
  BY <1>1, <1>3 DEF Fine, NodeKept, DeviceKept, Rests, SameDevice

LEMMA RenegotiatedIsFine ==
  ASSUME IInv, Renegotiated
  PROVE  Fine(l') /\ Rests(l')
<1>1. /\ Fine(l) /\ Kept(l) /\ Sound(l) /\ Base(l) /\ Called(l) /\ Rises(l) /\ Rests(l)
      /\ Authenticates(l)
  BY FineBefore DEF Renegotiated, Calm
<1>2. ~l.dead /\ l.node
  BY DEF Renegotiated, Calm, Alive
<1>3. ASSUME NEW k, Base(k), k.lcp # "Negotiating", Moved(k, l'), l'.lcp = "Negotiating",
             SameDevice(l, k), Has(k, "shutdown") => Has(l, "shutdown"),
             l.lcp \notin Dead, Kept(l'), NodeKept => Holds(l')
      PROVE  Fine(l') /\ Rests(l')
  <2>1. SameDevice(l, l') /\ Base(l')
    BY <1>3 DEF Moved, SameDevice
  <2>2. Called(k)
    BY <1>1, <1>3 DEF Called, SameDevice
  <2>3. Disposes(l') /\ Admits(l') /\ Dials(l') /\ Called(l')
    BY <1>3, <2>2, MovedWhole
  <2>4. Rises(l') /\ Releases(l')
    BY <1>1, <1>3, <2>1 DEF Rises, Releases, SameDevice
  <2>5. Rests(l')
    BY <1>1, <1>3, <2>1 DEF Rests, Moved, Disposable, SameDevice
  <2> QED
    BY <1>3, <2>3, <2>4, <2>5 DEF Fine, Whole
<1>4. CASE l.lcp = "Opened" /\ l' = LcpLayerDown(NewState(l, "Negotiating"))
  <2> DEFINE v == NewState(l, "Negotiating")
             u == LcpLayerDown(v)
  <2>1. Turns(l.lcp, "Negotiating") /\ "Negotiating" \in LcpStates
    BY <1>4 DEF Turns, LcpStates
  <2>2. Moved(l, v) /\ SameLower(l, v) /\ v.lcp = "Negotiating"
    BY <1>1, <2>1, MovedByNewState
  <2> HIDE DEF v
  <2>3. /\ Base(u) /\ SameLcp(v, u) /\ SameDevice(v, u) /\ u.node = v.node /\ ~u.auth
        /\ Sent(v, u, {})
    BY <2>2, LayerDownFields DEF Moved
  <2> HIDE DEF u
  <2>4. Moved(l, u) /\ u.lcp = "Negotiating"
    BY <2>2, <2>3, MovedThenSame DEF SameLcp
  <2>5. Kept(u)
    BY <1>1, <1>4, <2>3, <2>4, MovedKeeps DEF Dead
  <2>6. Holds(u)
    BY <1>2, <2>2, <2>3, <2>4 DEF Holds, SameLower
  <2>7. l' = u
    BY <1>4 DEF u, v
  <2>8. SameDevice(l, l)
    BY DEF SameDevice
  <2> QED
    BY <1>1, <1>3, <1>4, <2>4, <2>5, <2>6, <2>7, <2>8 DEF Dead
<1>5. CASE l.lcp = "Stopped" /\ l' = NewState(LcpLayerStart(l), "Negotiating")
  <2> DEFINE k == LcpLayerStart(l)
             u == NewState(k, "Negotiating")
  <2>1. /\ Base(k) /\ SameLcp(l, k) /\ SameDevice(l, k) /\ k.auth = l.auth
        /\ Sent(l, k, {"physOpen"})
    BY <1>1, LayerStartFields
  <2> HIDE DEF k
  <2>2. Turns(k.lcp, "Negotiating") /\ "Negotiating" \in LcpStates /\ k.lcp = "Stopped"
    BY <1>5, <2>1 DEF Turns, LcpStates, SameLcp
  <2>3. Moved(k, u) /\ SameLower(k, u) /\ u.lcp = "Negotiating"
    BY <2>1, <2>2, MovedByNewState
  <2> HIDE DEF u
  <2>4. Has(k, "shutdown") => Has(l, "shutdown")
    BY <2>1 DEF Sent, Messages
  <2>5. Sound(k) /\ Authenticates(k)
    BY <1>1, <2>1, <2>4 DEF Sound, Buried, Goes, Authenticates, SameLcp, SameDevice
  <2>6. Kept(u)
    BY <2>2, <2>3, <2>5, MovedKeeps DEF SameLower, Dead
  <2>7. ~NodeKept
    BY <1>1, <1>2, <1>5 DEF Fine, Holds
  <2>8. l' = u
    BY <1>5 DEF u, k
  <2> QED
    BY <1>3, <1>5, <2>1, <2>2, <2>3, <2>4, <2>6, <2>7, <2>8 DEF Dead
<1> QED
  BY <1>4, <1>5 DEF Renegotiated

\* A link that is admitted to its bundle.
LEMMA AdmittedFields ==
  ASSUME NEW k \in Links, k.phase = "Authenticate"
  PROVE  LET u == EnterNetwork(k, TRUE) IN
         /\ u \in Links /\ SameDevice(k, u) /\ SameLower(k, u) /\ u.lcp = k.lcp
         /\ u.phase = "Network" /\ u.joined /\ u.msgs = k.msgs /\ u.failed = k.failed
<1> DEFINE n == ShiftPhase(k, "Network")
           a == AuthAccountStart(n, "session")
           u == [a EXCEPT !.joined = TRUE, !.redial = 0]
<1>1. << k.phase, "Network" >> \in PhaseShifts
  BY DEF PhaseShifts
<1>2. /\ n \in Links /\ SameDevice(k, n) /\ SameLower(k, n) /\ n.lcp = k.lcp
      /\ n.phase = "Network" /\ n.msgs = k.msgs /\ n.failed = k.failed
  BY <1>1, ShiftFields DEF Phases
<1> HIDE DEF n
<1>3. /\ a \in Links /\ SameDevice(n, a) /\ SameLower(n, a) /\ a.lcp = n.lcp
      /\ a.phase = n.phase /\ a.failed = n.failed /\ a.msgs = n.msgs
  BY <1>2, AcctFields
<1> HIDE DEF a
<1>4. /\ u \in Links /\ SameDevice(a, u) /\ SameLower(a, u) /\ u.lcp = a.lcp
      /\ u.phase = a.phase /\ u.joined /\ u.msgs = a.msgs /\ u.failed = a.failed
  BY <1>3 DEF Links, SameDevice, SameLower
<1>5. EnterNetwork(k, TRUE) = u
  BY DEF EnterNetwork, a, n
<1> HIDE DEF u
<1> QED
  BY <1>2, <1>3, <1>4, <1>5 DEF SameDevice, SameLower

\* What the invariant asks of a link whose LCP has come up.
Opens(u) ==
  /\ u \in Links /\ u.lcp = "Opened" /\ u.phase \in {"Authenticate", "Network"}
  /\ u.failed # "phase"
  /\ u.joined => u.phase = "Network"
  /\ u.auth <=> u.phase = "Authenticate"
  /\ SameDevice(l, u)
  /\ \A m \in Messages : Has(l, m) => Has(u, m)
  /\ Has(u, "shutdown") => Has(l, "shutdown")

LEMMA OpensIsWhole ==
  ASSUME IInv, ~l.dead, l.lcp \notin Dead, NEW u, Opens(u),
         u.phase = "Network" => u.joined \/ conf.passive \/ Has(u, "physClose")
  PROVE  Whole(u) /\ Releases(u) /\ Rests(u)
<1>1. Sound(l) /\ Base(l) /\ Rises(l) /\ Called(l)
  BY FineBefore
<1>2. ~Has(l, "shutdown")
  BY <1>1 DEF Sound, Goes
<1>3. ~Has(u, "shutdown") /\ ~u.dead
  BY <1>2 DEF Opens, SameDevice
<1>4. Base(u)
  BY <1>1 DEF Opens, Base, PhaseFits, SameDevice
<1>5. Kept(u)
  BY <1>3, <1>4 DEF Opens, Kept, Sound, Authenticates, Buried, Goes
<1>6. Rises(u) /\ Disposes(u) /\ Dials(u) /\ Called(u) /\ Releases(u)
  BY <1>1 DEF Opens, Rises, Disposes, Disposable, Dials, Called, Releases, SameDevice
<1>7. Admits(u) /\ Rests(u)
  BY <1>3 DEF Admits, Rests
<1> QED
  BY <1>5, <1>6, <1>7 DEF Whole

\* LCP comes up: with the authentication to be done, or in the Network phase at once.  A
\* link that BundJoin() refuses is torn down in the state it was in, and then is Opened.
LEMMA EstablishedOpens ==
  ASSUME IInv, ~l.dead, l.lcp = "Negotiating", NEW admitted \in BOOLEAN, NEW needed \in BOOLEAN
  PROVE  LET u == NewStateOpened(l, admitted, needed) IN
         /\ Opens(u)
         /\ u.phase = "Network" => u.joined \/ conf.passive \/ Has(u, "physClose")
         /\ needed \/ admitted => u.node = l.node
<1> DEFINE u == NewStateOpened(l, admitted, needed)
           a == ShiftPhase(l, "Authenticate")
           e == EnterAuthenticate(l, admitted, needed)
<1>1. Base(l) /\ l \in Links /\ Authenticates(l)
  BY FineBefore
<1>2. l.phase = "Establish" /\ ~l.joined /\ ~l.auth
  BY <1>1 DEF Base, PhaseFits, Authenticates
<1>3. << l.phase, "Authenticate" >> \in PhaseShifts
  BY <1>2 DEF PhaseShifts
<1>4. /\ a \in Links /\ SameDevice(l, a) /\ SameLower(l, a) /\ a.lcp = l.lcp
      /\ a.phase = "Authenticate" /\ a.msgs = l.msgs /\ a.failed = l.failed /\ ~a.joined
  BY <1>1, <1>2, <1>3, ShiftFields DEF Phases
<1>5. u = [e EXCEPT !.lcp = "Opened"]
  BY DEF NewStateOpened
<1>6. e = IF needed THEN [a EXCEPT !.auth = TRUE] ELSE EnterNetwork(a, admitted)
  BY DEF EnterAuthenticate
<1> HIDE DEF a, e
<1>7. ASSUME e \in Links, SameDevice(l, e), e.phase \in {"Authenticate", "Network"},
             e.failed # "phase", e.joined => e.phase = "Network",
             e.auth <=> e.phase = "Authenticate",
             \A m \in Messages : Has(l, m) => Has(e, m),
             Has(e, "shutdown") => Has(l, "shutdown")
      PROVE  /\ Opens(u) /\ u.phase = e.phase /\ u.joined = e.joined /\ u.node = e.node
             /\ Has(e, "physClose") => Has(u, "physClose")
  <2>1. /\ u \in Links /\ u.lcp = "Opened" /\ u.phase = e.phase /\ u.failed = e.failed
        /\ u.joined = e.joined /\ u.auth = e.auth /\ SameDevice(e, u) /\ u.msgs = e.msgs
        /\ u.node = e.node
    BY <1>5, <1>7 DEF Links, LcpStates, SameDevice
  <2> HIDE DEF u
  <2>2. \A m : Has(u, m) <=> Has(e, m)
    BY <2>1 DEF Has
  <2> QED
    BY <1>7, <2>1, <2>2 DEF Opens, SameDevice, u
<1>8. \A k, v : k.msgs = v.msgs => \A m : Has(k, m) <=> Has(v, m)
  BY DEF Has
<1>9. l.failed # "phase"
  BY <1>1 DEF Base
<1> HIDE DEF u
<1>10. CASE needed
  <2>1. /\ e \in Links /\ SameDevice(a, e) /\ e.phase = a.phase /\ e.auth /\ e.failed = a.failed
        /\ e.joined = a.joined /\ e.msgs = a.msgs /\ e.node = a.node
    BY <1>4, <1>6, <1>10 DEF Links, SameDevice
  <2>2. \A m : Has(e, m) <=> Has(l, m)
    BY <1>4, <1>8, <2>1
  <2>3. SameDevice(l, e) /\ e.node = l.node
    BY <1>4, <2>1 DEF SameDevice, SameLower
  <2> QED
    BY <1>4, <1>7, <1>9, <2>1, <2>2, <2>3 DEF u
<1>11. CASE ~needed /\ admitted
  <2>1. e = EnterNetwork(a, TRUE)
    BY <1>6, <1>11
  <2>2. /\ e \in Links /\ SameDevice(a, e) /\ SameLower(a, e)
        /\ e.phase = "Network" /\ e.joined /\ e.msgs = a.msgs /\ e.failed = a.failed
    BY <1>4, <2>1, AdmittedFields
  <2>3. \A m : Has(e, m) <=> Has(l, m)
    BY <1>4, <1>8, <2>2
  <2>4. SameDevice(l, e) /\ e.node = l.node /\ ~e.auth
    BY <1>2, <1>4, <2>2 DEF SameDevice, SameLower
  <2> QED
    BY <1>7, <1>4, <1>9, <2>2, <2>3, <2>4 DEF u
<1>12. CASE ~needed /\ ~admitted
  <2> DEFINE n == ShiftPhase(a, "Network")
             t == [n EXCEPT !.lcp = "Stopped"]
  <2>1. << a.phase, "Network" >> \in PhaseShifts
    BY <1>4 DEF PhaseShifts
  <2>2. /\ n \in Links /\ SameDevice(a, n) /\ SameLower(a, n) /\ n.lcp = a.lcp
        /\ n.phase = "Network" /\ n.msgs = a.msgs /\ n.failed = a.failed /\ ~n.joined
    BY <1>4, <2>1, ShiftFields DEF Phases
  <2>3. e = FsmFailure(n)
    BY <1>6, <1>12 DEF EnterNetwork
  <2> HIDE DEF n
  <2>4. n.lcp = "Negotiating"
    BY <1>4, <2>2
  <2>5. NewState(n, "Stopped") = t
    BY <2>4 DEF NewState, LcpNewPhase, LinkShutdownCheck
  <2>6. /\ t \in Links /\ SameDevice(n, t) /\ SameLower(n, t) /\ t.phase = "Network"
        /\ t.msgs = n.msgs /\ t.failed = n.failed /\ ~t.joined
    BY <2>2 DEF Links, LcpStates, SameDevice, SameLower
  <2>7. e = IF conf.passive THEN t ELSE LcpLayerFinish(t)
    BY <2>3, <2>4, <2>5 DEF FsmFailure
  <2> HIDE DEF t
  <2>8. \A m : Has(t, m) <=> Has(l, m)
    BY <1>4, <1>8, <2>2, <2>6
  <2>9. SameDevice(l, t) /\ ~t.auth /\ ~t.dead
    BY <1>2, <1>4, <2>2, <2>6 DEF SameDevice, SameLower
  <2>10. CASE conf.passive
    BY <1>4, <1>7, <1>9, <1>12, <2>2, <2>6, <2>7, <2>8, <2>9, <2>10 DEF u
  <2>11. CASE ~conf.passive
    <3>1. e = LcpLayerFinish(t)
      BY <2>7, <2>11
    <3>2. /\ e \in Links /\ SameLcp(t, e) /\ SameDevice(t, e)
          /\ e.failed = "phase" => t.failed = "phase"
          /\ ~e.auth /\ Sent(t, e, {"physClose"})
          /\ ~t.dead => Has(e, "physClose")
      BY <2>6, <3>1, LayerFinishFields
    <3>3. /\ \A m \in Messages : Has(l, m) => Has(e, m)
          /\ Has(e, "shutdown") => Has(l, "shutdown")
      BY <2>8, <3>2 DEF Sent, Messages
    <3>4. SameDevice(l, e) /\ e.phase = "Network" /\ ~e.joined
      BY <2>6, <2>9, <3>2 DEF SameDevice, SameLcp
    <3>5. e.failed # "phase"
      BY <1>4, <1>9, <2>2, <2>6, <3>2
    <3> QED
      BY <1>7, <1>12, <2>9, <3>2, <3>3, <3>4, <3>5 DEF u
  <2> QED
    BY <2>10, <2>11
<1> QED
  BY <1>10, <1>11, <1>12

LEMMA EstablishedIsFine ==
  ASSUME IInv, Established
  PROVE  /\ Whole(l') /\ Rests(l')
         /\ ~conf.passive /\ "denied" \notin history' => Holds(l')
         /\ ~conf.passive /\ history' = {} => Releases(l')
<1>1. Fine(l) /\ ~l.dead /\ l.lcp = "Negotiating"
  BY FineBefore DEF Established, Calm, Alive
<1>2. PICK admitted \in BOOLEAN, needed \in BOOLEAN :
        /\ l' = NewStateOpened(l, admitted, needed)
        /\ history' = IF needed \/ admitted THEN history ELSE history \cup {"denied"}
  BY DEF Established
<1>3. /\ Opens(l')
      /\ l'.phase = "Network" => l'.joined \/ conf.passive \/ Has(l', "physClose")
      /\ needed \/ admitted => l'.node = l.node
  BY <1>1, <1>2, EstablishedOpens
<1>4. Whole(l') /\ Releases(l') /\ Rests(l')
  BY <1>1, <1>3, OpensIsWhole DEF Dead
<1>5. ASSUME ~conf.passive, "denied" \notin history'
      PROVE  Holds(l')
  <2>1. (needed \/ admitted) /\ "denied" \notin history
    BY <1>2, <1>5
  <2>2. Holds(l) /\ l'.node = l.node
    BY <1>1, <1>3, <1>5, <2>1 DEF Fine, NodeKept
  <2> QED
    BY <1>1, <1>3, <2>2 DEF Holds, Opens
<1> QED
  BY <1>4, <1>5

\* The authentication's result: the phase it ends in is still LCP's, or LCP is closed.
LEMMA AuthFinishIsFine ==
  ASSUME IInv, AuthFinish
  PROVE  Fine(l') /\ Rests(l')
<1> DEFINE s == AuthStop(l)
<1>1. /\ Fine(l) /\ Sound(l) /\ Base(l) /\ l \in Links /\ Authenticates(l) /\ Called(l) /\ Rises(l)
      /\ Rests(l)
  BY FineBefore DEF AuthFinish, Calm
<1>2. ~l.dead /\ l.phase = "Authenticate" /\ l.lcp = "Opened" /\ ~l.joined
  BY <1>1 DEF AuthFinish, Calm, Alive, Authenticates, Base, PhaseFits, Links, LcpStates
<1>3. /\ s \in Links /\ SameLcp(l, s) /\ SameDevice(l, s) /\ s.node = l.node /\ ~s.auth
      /\ s.failed = l.failed /\ s.msgs = l.msgs /\ Base(s)
  BY <1>1, AuthStopFields
<1>4. \/ l' = FsmFailure(s)
      \/ \E admitted \in BOOLEAN : l' = EnterNetwork(s, admitted)
  BY <1>2 DEF AuthFinish
<1> HIDE DEF s
<1>5. \A k, v : k.msgs = v.msgs => \A m : Has(k, m) <=> Has(v, m)
  BY DEF Has
\* In both failures the link has left the Authenticate phase or stopped authenticating.
<1>6. ASSUME NEW k, Base(k), k.lcp = "Opened", SameDevice(l, k), ~k.auth, k.node = l.node,
             k.msgs = l.msgs, l' = FsmFailure(k)
      PROVE  Fine(l') /\ Rests(l')
  <2>1. \A m : Has(k, m) <=> Has(l, m)
    BY <1>5, <1>6
  <2>2. Sound(k) /\ Rises(k) /\ Called(k)
    BY <1>1, <1>2, <1>6, <2>1 DEF Sound, Buried, Goes, Rises, Called, SameDevice
  <2>3. Holds(l) => Holds(k)
    BY <1>2, <1>6 DEF Holds, SameDevice
  <2>4. /\ SameDevice(k, l') /\ (Has(l', "shutdown") => Has(k, "shutdown"))
        /\ ~conf.passive /\ Holds(k) => Holds(l')
        /\ ~conf.passive => Releases(l')
        /\ Rises(k) /\ Called(k) => Whole(l')
    BY <1>6, <2>2, FailureKeeps DEF Dead
  <2> QED
    BY <1>1, <1>6, <2>1, <2>2, <2>3, <2>4 DEF Fine, NodeKept, DeviceKept, Rests, SameDevice
<1>7. CASE l' = FsmFailure(s)
  BY <1>2, <1>3, <1>6, <1>7 DEF SameLcp
<1>8. CASE l' = EnterNetwork(s, FALSE)
  <2> DEFINE n == ShiftPhase(s, "Network")
  <2>1. s.phase = "Authenticate" /\ << s.phase, "Network" >> \in PhaseShifts
    BY <1>2, <1>3 DEF PhaseShifts, SameLcp
  <2>2. /\ n \in Links /\ SameDevice(s, n) /\ SameLower(s, n) /\ n.lcp = s.lcp
        /\ n.phase = "Network" /\ n.msgs = s.msgs /\ n.failed = s.failed
    BY <1>3, <2>1, ShiftFields DEF Phases
  <2>3. l' = FsmFailure(n)
    BY <1>8 DEF EnterNetwork
  <2> HIDE DEF n
  <2>4. Base(n) /\ n.lcp = "Opened"
    BY <1>2, <1>3, <2>2 DEF Base, PhaseFits, SameLcp, SameDevice
  <2>5. SameDevice(l, n) /\ ~n.auth /\ n.node = l.node /\ n.msgs = l.msgs
    BY <1>3, <2>2 DEF SameDevice, SameLower
  <2> QED
    BY <1>6, <2>3, <2>4, <2>5
<1>9. CASE l' = EnterNetwork(s, TRUE)
  <2> DEFINE u == EnterNetwork(s, TRUE)
  <2>1. s.phase = "Authenticate"
    BY <1>2, <1>3 DEF SameLcp
  <2>2. /\ u \in Links /\ SameDevice(s, u) /\ SameLower(s, u) /\ u.lcp = s.lcp
        /\ u.phase = "Network" /\ u.joined /\ u.msgs = s.msgs /\ u.failed = s.failed
    BY <1>3, <2>1, AdmittedFields
  <2> HIDE DEF u
  <2>3. \A m : Has(u, m) <=> Has(l, m)
    BY <1>3, <1>5, <2>2
  <2>4. Opens(u)
    BY <1>1, <1>2, <1>3, <2>2, <2>3 DEF Opens, Base, SameDevice, SameLower, SameLcp
  <2>5. Whole(u) /\ Releases(u) /\ Rests(u)
    BY <1>2, <2>2, <2>4, OpensIsWhole DEF Dead
  <2>6. Holds(l) => Holds(u)
    BY <1>2, <1>3, <2>2, <2>4 DEF Holds, Opens, SameLower
  <2> QED
    BY <1>1, <1>9, <2>5, <2>6 DEF Fine, u
<1> QED
  BY <1>4, <1>7, <1>8, <1>9

\* Accounting coming to its end decides when a link can go.
LEMMA AccountIsFine ==
  ASSUME IInv, AuthAccountFinish \/ AuthAccountTimeout
  PROVE  Fine(l') /\ Rests(l')
<1>1. /\ Fine(l) /\ Kept(l) /\ Base(l) /\ l \in Links /\ Called(l) /\ Rises(l) /\ Admits(l)
      /\ Dials(l) /\ Disposes(l) /\ Rests(l)
  BY FineBefore DEF AuthAccountFinish, AuthAccountTimeout, Calm
\* Nothing but LinkShutdownCheck() looks at the accounting.
<1>2. ASSUME NEW k \in Links, SameDevice(l, k), SameLower(l, k), k.lcp = l.lcp,
             k.phase = l.phase, k.joined = l.joined, k.failed = l.failed, k.msgs = l.msgs
      PROVE  /\ Kept(k) /\ Rises(k) /\ Admits(k) /\ Dials(k) /\ Called(k) /\ Rests(k)
             /\ Holds(l) => Holds(k)
             /\ Releases(l) => Releases(k)
  <2>1. \A m : Has(k, m) <=> Has(l, m)
    BY <1>2 DEF Has
  <2>2. Kept(k)
    BY <1>1, <1>2, <2>1
       DEF Kept, Sound, Base, PhaseFits, Authenticates, Buried, Goes, SameDevice, SameLower
  <2>3. Rises(k) /\ Admits(k) /\ Dials(k) /\ Called(k) /\ Rests(k)
    BY <1>1, <1>2, <2>1 DEF Rises, Admits, Dials, Called, Rests, SameDevice
  <2>4. (Holds(l) => Holds(k)) /\ (Releases(l) => Releases(k))
    BY <1>2, <2>1 DEF Holds, Releases, SameDevice, SameLower
  <2> QED
    BY <2>2, <2>3, <2>4
<1>3. CASE AuthAccountTimeout
  <2> DEFINE u == AuthAccountStart(l, "session")
  <2>1. /\ u \in Links /\ SameDevice(l, u) /\ SameLower(l, u) /\ u.lcp = l.lcp
        /\ u.phase = l.phase /\ u.joined = l.joined /\ u.failed = l.failed /\ u.msgs = l.msgs
    BY <1>1, AcctFields
  <2>2. l' = u /\ l.joined
    BY <1>3 DEF AuthAccountTimeout
  <2> HIDE DEF u
  <2>3. l.lcp # "Initial"
    BY <1>1, <2>2 DEF Base, PhaseFits
  <2>4. Disposes(u)
    BY <2>1, <2>3 DEF Disposes, Disposable
  <2> QED
    BY <1>1, <1>2, <2>1, <2>2, <2>4 DEF Fine, Whole
<1>4. CASE AuthAccountFinish
  <2> DEFINE k == [l EXCEPT !.acct = "none"]
             s == MsgSend(k, "close")
  <2>1. /\ k \in Links /\ SameDevice(l, k) /\ SameLower(l, k) /\ k.lcp = l.lcp
        /\ k.phase = l.phase /\ k.joined = l.joined /\ k.failed = l.failed /\ k.msgs = l.msgs
    BY <1>1 DEF Links, SameDevice, SameLower
  <2>2. \/ l' = k /\ l.dead
        \/ l' = LinkShutdownCheck(k, k.lcp)
        \/ l' = LinkShutdownCheck(s, k.lcp)
    BY <1>4 DEF AuthAccountFinish
  <2> HIDE DEF k
  <2>3. /\ Kept(k) /\ Rises(k) /\ Admits(k) /\ Dials(k) /\ Called(k) /\ Rests(k)
        /\ Holds(l) => Holds(k)
        /\ Releases(l) => Releases(k)
    BY <1>2, <2>1
  <2>4. ASSUME NEW v, Kept(v), Rises(v), Admits(v), Dials(v), Called(v), Rests(v),
               Holds(k) => Holds(v), Releases(k) => Releases(v),
               l' = LinkShutdownCheck(v, v.lcp)
        PROVE  Fine(l') /\ Rests(l')
    <3>1. /\ SameDevice(v, l')
          /\ Has(l', "shutdown") => Has(v, "shutdown") \/ l'.phys = "Down"
          /\ Holds(v) => Holds(l')
          /\ Releases(v) => Releases(l')
          /\ Rises(v) /\ Admits(v) /\ Dials(v) /\ Called(v) => Whole(l')
      BY <2>4, CheckKeeps
    <3> QED
      BY <1>1, <2>3, <2>4, <3>1 DEF Fine, Rests, SameDevice
  <2>5. CASE l' = k /\ l.dead
    <3>1. Disposes(k)
      BY <2>1, <2>5 DEF Disposes, SameDevice
    <3> QED
      BY <1>1, <2>3, <2>5, <3>1 DEF Fine, Whole
  <2>6. CASE l' = LinkShutdownCheck(k, k.lcp)
    BY <2>3, <2>4, <2>6
  <2>7. CASE l' = LinkShutdownCheck(s, k.lcp)
    <3>1. /\ s \in Links /\ SameLcp(k, s) /\ SameDevice(k, s) /\ SameLower(k, s)
          /\ s.failed = "phase" => k.failed = "phase"
          /\ Sent(k, s, {"close"})
      BY <2>1, SendFields DEF Messages
    <3> HIDE DEF s
    <3>2. Base(k) /\ Authenticates(k) /\ Buried(k) /\ Goes(k)
      BY <2>3 DEF Kept, Sound
    <3>3. Base(s)
      BY <3>1, <3>2, BaseSame
    <3>4. /\ \A m \in Messages : Has(k, m) => Has(s, m)
          /\ Has(s, "shutdown") => Has(k, "shutdown")
      BY <3>1 DEF Sent, Messages
    <3>5. /\ Authenticates(s) /\ Buried(s) /\ Goes(s) /\ Admits(s) /\ Dials(s) /\ Rises(s)
          /\ Called(s)
          /\ Holds(k) => Holds(s)
          /\ Releases(k) => Releases(s)
      BY <2>3, <3>1, <3>2, <3>3, <3>4, MoreMessages
    <3>6. Rests(s) /\ Kept(s) /\ s.lcp = k.lcp
      BY <2>3, <3>1, <3>3, <3>4, <3>5 DEF Rests, Kept, Sound, SameLcp, SameDevice
    <3> QED
      BY <2>4, <2>7, <3>5, <3>6
  <2> QED
    BY <2>2, <2>5, <2>6, <2>7
<1> QED
  BY <1>3, <1>4

----------------------------------------------------------------------------
(* The theorems. *)

LEMMA InitIInv == Init => IInv
<1> SUFFICES ASSUME Init PROVE IInv
  OBVIOUS
<1>1. conf \in Confs /\ handling = FALSE /\ gShutdownInProgress = FALSE /\ history = {}
  BY DEF Init, Confs
<1>2. ASSUME NEW k \in Links, k.lcp = "Initial", k.phase = "Dead", ~k.dead, ~k.die, ~k.auth,
             ~k.joined, ~k.node, k.failed = "none", k.phys = "Down" <=> ~k.incoming,
             ~Has(k, "shutdown"), k.phys # "Down" => Has(k, "physClose") \/ Has(k, "open"),
             l = k
      PROVE  IInv
  <2>1. Base(k) /\ Kept(k)
    BY <1>2 DEF Kept, Sound, Base, PhaseFits, Authenticates, Buried, Goes
  <2>2. Rises(k) /\ Disposes(k) /\ Admits(k) /\ Dials(k) /\ Called(k) /\ Holds(k) /\ Releases(k)
    BY <1>2
       DEF Rises, Disposes, Disposable, Admits, Dials, Called, Holds, Releases, Dead
  <2> QED
    BY <1>1, <1>2, <2>1, <2>2 DEF IInv, Whole
<1>3. \A stay \in BOOLEAN : << >> \in Seq(Messages) /\ NewLink(stay) \in Links
  BY DEF NewLink, Links, LcpStates, Phases
<1>4. \A m : (\E i \in DOMAIN << >> : << >>[i] = m) <=> FALSE
  OBVIOUS
<1>5. ASSUME NEW m \in Messages
      PROVE  /\ << m >> \in Seq(Messages) /\ Append(<< >>, m) = << m >>
             /\ \A n : (\E i \in DOMAIN << m >> : << m >>[i] = n) <=> n = m
  BY <1>5
<1>6. CASE l = NewLink(TRUE)
  <2>1. \A m : ~Has(l, m)
    BY <1>6 DEF Has, NewLink
  <2> QED
    BY <1>2, <1>3, <1>6, <2>1 DEF NewLink
<1>7. CASE l = [NewLink(FALSE) EXCEPT !.msgs = << "open" >>]
  <2>1. "open" \in Messages
    BY DEF Messages
  <2>2. << "open" >> \in Seq(Messages) /\ l.msgs = << "open" >>
    BY <1>5, <1>7, <2>1 DEF NewLink
  <2>3. l \in Links
    BY <1>3, <1>7, <2>2 DEF Links
  <2>4. \A n : Has(l, n) <=> n = "open"
    BY <1>5, <2>1, <2>2 DEF Has
  <2> QED
    BY <1>2, <1>7, <2>3, <2>4 DEF NewLink
<1>8. CASE l \in {IncomingCall(NewLink(FALSE), m) : m \in {"open", "physClose"}}
  <2>1. PICK m \in {"open", "physClose"} : l = IncomingCall(NewLink(FALSE), m)
    BY <1>8
  <2>2. m \in Messages
    BY DEF Messages
  <2>3. << m >> \in Seq(Messages) /\ l.msgs = << m >>
    BY <1>5, <2>1, <2>2 DEF NewLink, IncomingCall
  <2>4. l \in Links
    BY <1>3, <1>5, <2>1, <2>2, <2>3, ZenonT(60) DEF Links, IncomingCall, NewLink
  <2>5. \A n : Has(l, n) <=> n = m
    BY <1>5, <2>2, <2>3 DEF Has
  <2> QED
    BY <1>2, <2>1, <2>4, <2>5 DEF NewLink, IncomingCall
<1> QED
  BY <1>6, <1>7, <1>8 DEF Init

\* A step keeps the invariant if its link is as it should be for what has happened to it.
LEMMA Together ==
  ASSUME conf \in Confs, conf' = conf,
         handling' \in BOOLEAN, gShutdownInProgress' \in BOOLEAN,
         history' \subseteq {"rawOpen", "destroyed", "denied"},
         Whole(l'), ~handling' => Rests(l'),
         ~conf.passive /\ "denied" \notin history' => Holds(l'),
         ~conf.passive /\ history' = {} => Releases(l')
  PROVE  IInv'
  BY DEF IInv, Whole, Admits, Confs, NodeKept, DeviceKept, Rests

LEMMA NextIInv == IInv /\ [Next]_vars => IInv'
<1> SUFFICES ASSUME IInv, [Next]_vars PROVE IInv'
  OBVIOUS
<1>1. /\ conf \in Confs /\ handling \in BOOLEAN /\ gShutdownInProgress \in BOOLEAN
      /\ history \subseteq {"rawOpen", "destroyed", "denied"}
  BY DEF IInv
<1>2. Fine(l) /\ Whole(l) /\ l \in Links /\ (~handling => Rests(l))
  BY FineBefore DEF Fine
<1>3. ASSUME Unchanged, Fine(l'), Rests(l')
      PROVE  IInv'
  BY <1>1, <1>3, Together DEF Unchanged, Fine, NodeKept, DeviceKept
<1>4. CASE MsgEvent
  <2>1. /\ l.msgs # << >> /\ conf' = conf /\ gShutdownInProgress' = gShutdownInProgress
        /\ history' = history /\ handling' = (l'.msgs # << >>)
    BY <1>4 DEF MsgEvent
  <2>2. PICK ok \in BOOLEAN : l' = Handle([l EXCEPT !.msgs = Tail(l.msgs)], Head(l.msgs), ok)
    BY <1>4 DEF MsgEvent
  <2>3. Fine(l')
    <3>1. CASE l.dead
      <4>1. l' = [l EXCEPT !.msgs = Tail(l.msgs)]
        BY <1>2, <2>2, <3>1 DEF Handle, Links
      <4> QED
        BY <2>1, <3>1, <4>1, DropIsFine
    <3>2. CASE ~l.dead
      BY <2>1, <2>2, <3>2, HandleIsFine
    <3> QED
      BY <3>1, <3>2
  <2>4. ~handling' => Rests(l')
    <3>1. l'.msgs = << >> => ~Has(l', "shutdown")
      BY NothingQueued
    <3> QED
      BY <2>1, <3>1 DEF Rests
  <2> QED
    BY <1>1, <2>1, <2>3, <2>4, Together DEF Fine, NodeKept, DeviceKept
<1>5. CASE LinkOpen \/ LinkClose \/ PhysCloseCmd
  <2>1. PICK m \in Messages : m # "shutdown" /\ l' = MsgSend(l, m)
    BY <1>5 DEF LinkOpen, LinkClose, PhysCloseCmd, Messages
  <2>2. ~l.dead /\ ~handling /\ Unchanged
    BY <1>5 DEF LinkOpen, LinkClose, PhysCloseCmd, Calm, Alive
  <2>3. Whole(l') /\ (Holds(l) => Holds(l')) /\ (Releases(l) => Releases(l')) /\ Rests(l')
    BY <2>1, <2>2, SendIsFine
  <2> QED
    BY <1>2, <1>3, <2>2, <2>3 DEF Fine
<1>6. CASE PhysOpenCmd
  <2>1. /\ "physOpen" \in Messages /\ "physOpen" # "shutdown" /\ l' = MsgSend(l, "physOpen")
        /\ ~l.dead /\ ~handling /\ history' = history \cup {"rawOpen"}
        /\ conf' = conf /\ handling' = handling /\ gShutdownInProgress' = gShutdownInProgress
    BY <1>6 DEF PhysOpenCmd, Calm, Alive, Messages
  <2>2. Whole(l') /\ (Holds(l) => Holds(l')) /\ Rests(l')
    BY <2>1, SendIsFine
  <2> QED
    BY <1>1, <1>2, <2>1, <2>2, Together DEF Fine, NodeKept
<1>7. CASE LinkDestroy
  <2>1. /\ history' = history \cup {"destroyed"}
        /\ conf' = conf /\ handling' = handling /\ gShutdownInProgress' = gShutdownInProgress
    BY <1>7 DEF LinkDestroy
  <2>2. Whole(l') /\ (NodeKept => Holds(l')) /\ Rests(l')
    BY <1>7, DestroyIsFine
  <2> QED
    BY <1>1, <2>1, <2>2, Together DEF NodeKept
<1>8. CASE LinkReopenTimeout
  BY <1>3, <1>8, ReopenIsFine DEF LinkReopenTimeout
<1>9. CASE Incoming
  BY <1>3, <1>9, IncomingIsFine DEF Incoming
<1>10. CASE ConnectSuccess
  BY <1>3, <1>10, ConnectIsFine DEF ConnectSuccess
<1>11. CASE ConnectionLost
  BY <1>3, <1>11, LostIsFine DEF ConnectionLost
<1>12. CASE Established
  <2>1. /\ conf' = conf /\ handling' = handling /\ gShutdownInProgress' = gShutdownInProgress
        /\ history' \subseteq {"rawOpen", "destroyed", "denied"}
    BY <1>1, <1>12 DEF Established
  <2> QED
    BY <1>1, <1>12, <2>1, EstablishedIsFine, Together
<1>13. CASE Renegotiated
  BY <1>3, <1>13, RenegotiatedIsFine DEF Renegotiated
<1>14. CASE Failure \/ TermReq
  BY <1>3, <1>14, FailureIsFine DEF Failure, TermReq
<1>15. CASE AuthFinish
  BY <1>3, <1>15, AuthFinishIsFine DEF AuthFinish
<1>16. CASE AuthAccountFinish \/ AuthAccountTimeout
  BY <1>3, <1>16, AccountIsFine DEF AuthAccountFinish, AuthAccountTimeout
<1>17. CASE FatalSignal
  <2>1. /\ l' = l /\ conf' = conf /\ handling' = handling /\ history' = history
        /\ gShutdownInProgress' = TRUE
    BY <1>17 DEF FatalSignal
  <2> QED
    BY <1>1, <1>2, <2>1, Together DEF Fine, NodeKept, DeviceKept
<1>18. CASE AccountingChanges
  <2>1. /\ conf' \in Confs /\ conf'.passive = conf.passive
        /\ l' = l /\ handling' = handling /\ history' = history
        /\ gShutdownInProgress' = gShutdownInProgress
    BY <1>1, <1>18 DEF AccountingChanges, Confs
  <2> QED
    BY <2>1 DEF IInv, Whole, Admits, NodeKept, DeviceKept, Rests
<1>19. CASE UNCHANGED vars
  <2>1. /\ l' = l /\ conf' = conf /\ handling' = handling /\ history' = history
        /\ gShutdownInProgress' = gShutdownInProgress
    BY <1>19 DEF vars
  <2> QED
    BY <1>1, <1>2, <2>1, Together DEF Fine, NodeKept, DeviceKept
<1> QED
  BY <1>4, <1>5, <1>6, <1>7, <1>8, <1>9, <1>10, <1>11, <1>12, <1>13, <1>14, <1>15, <1>16,
     <1>17, <1>18, <1>19 DEF Next

LEMMA IInvHolds == Spec => []IInv
<1> QED
  BY InitIInv, NextIInv, PTL DEF Spec

\* Every variable keeps its type, whatever the limit of redials.
THEOREM TypeCorrect == Spec => []TypeOK
<1>1. IInv => TypeOK
  BY DEF IInv, Whole, Kept, Sound, Base, TypeOK, Confs
<1> QED
  BY <1>1, IInvHolds, PTL

\* LCP's phase goes with its state, and the assertions of LcpNewPhase() and LcpNewState()
\* hold, also when entering a phase fails in the middle of the change of state
\* (lcp.c:LcpNewState()).
THEOREM PhasesAlwaysAgree == Spec => []PhasesAgree
<1>1. IInv => PhasesAgree
  BY DEF IInv, Whole, Kept, Sound, Base, PhaseFits, PhasesAgree, PhaseMatchesState,
         PhaseAssertionsHold
<1> QED
  BY <1>1, IInvHolds, PTL

\* Authentication runs in its phase only, and who is in the Network phase is a member of a
\* bundle or about to be closed (bund.c:BundJoin(), auth.c:AuthStop()).
THEOREM AdmissionAlwaysMatches == Spec => []AdmissionMatchesPhase
<1>1. IInv => AdmissionMatchesPhase
  <2> SUFFICES ASSUME IInv PROVE AdmissionMatchesPhase
    OBVIOUS
  <2>1. Base(l) /\ Authenticates(l) /\ Admits(l)
    BY FineBefore
  <2> QED
    BY <2>1 DEF AdmissionMatchesPhase, AuthConfined, JoinedMatchesPhase, Base, Authenticates,
                Admits, Has, Alive, Running
<1> QED
  BY <1>1, IInvHolds, PTL

\* The netgraph node is there while LCP needs the lower layer (link.c:LinkNgInit(),
\* lcp.c:LcpLayerFinish()).
THEOREM NodeAlwaysHeld == Spec => []NodeHeld
<1>1. IInv => NodeHeld
  BY DEF IInv, NodeKept, Holds, NodeHeld, Alive, Running
<1> QED
  BY <1>1, IInvHolds, PTL

\* At rest, a wanted link without device has its redial timer running, and an unwanted
\* one has no device (link.c:LinkDown(), phys.c).
THEOREM DeviceAlwaysFollows == Spec => []DeviceFollowsRequest
<1>1. IInv => DeviceFollowsRequest
  <2> SUFFICES ASSUME IInv PROVE DeviceFollowsRequest
    OBVIOUS
  <2>1. Dials(l) /\ (DeviceKept => Releases(l))
    BY DEF IInv, Whole
  <2> QED
    BY <2>1 DEF DeviceFollowsRequest, WantedIsDialled, DeviceReleased, AtRest, Alive, Running,
                Dials, Releases, DeviceKept, Has
<1> QED
  BY <1>1, IInvHolds, PTL

\* A link that may disappear does, whatever became true last of what LinkShutdownCheck()
\* asks for, and nothing is left running behind it (link.c:LinkShutdown()).
THEOREM DyingAlwaysVanishes == Spec => []DyingLinkVanishes
<1>1. IInv => DyingLinkVanishes
  <2> SUFFICES ASSUME IInv PROVE DyingLinkVanishes
    OBVIOUS
  <2>1. Disposes(l) /\ Buried(l) /\ Base(l) /\ Authenticates(l)
    BY FineBefore DEF Sound
  <2>2. DyingLinkIsShutDown
    BY <2>1, NothingQueued DEF DyingLinkIsShutDown, AtRest, Alive, Disposes, Disposable
  <2>3. NothingLeftBehind
    BY <2>1 DEF NothingLeftBehind, Buried, Base, PhaseFits, Authenticates, Dead
  <2> QED
    BY <2>2, <2>3 DEF DyingLinkVanishes
<1> QED
  BY <1>1, IInvHolds, PTL

=============================================================================
