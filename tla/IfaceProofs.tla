----------------------------- MODULE IfaceProofs -----------------------------
(***************************************************************************)
(* The safety invariants of Iface and its action property, for every two   *)
(* families and every number of idle periods.                              *)
(*                                                                         *)
(* The first section says what each call does to the fields of the         *)
(* interface, the second states the inductive invariant as predicates on   *)
(* the interface and shows that the two calls of the bundle keep them, the *)
(* third draws the conclusions.                                            *)
(***************************************************************************)
EXTENDS Iface, TLAPS

Ifaces ==
  [open : BOOLEAN, dod : BOOLEAN, up : BOOLEAN,
   fam : [Fams -> BOOLEAN], wire : [Fams -> {"none", "demand", "ppp"}],
   opened : [Fams -> BOOLEAN], idleTimer : BOOLEAN, sessionTimer : BOOLEAN,
   traffic : [Periods -> BOOLEAN], dodCache : BOOLEAN,
   failed : BOOLEAN, bad : SUBSET {"demand", "ppp"}]

Confs == [ondemand : BOOLEAN, enabled : SUBSET Fams, idle : BOOLEAN, session : BOOLEAN]

\* What the families are wired to.
Wire(ready) == IF ready THEN "ppp" ELSE "demand"

\* The two interfaces differ in what a family does to them only.
SameFrame(w, u) ==
  /\ u.open = w.open /\ u.dod = w.dod /\ u.up = w.up
  /\ u.idleTimer = w.idleTimer /\ u.sessionTimer = w.sessionTimer /\ u.traffic = w.traffic

SameFamily(w, u, f) ==
  u.fam[f] = w.fam[f] /\ u.wire[f] = w.wire[f] /\ u.opened[f] = w.opened[f]

SameFamilies(w, u) == u.fam = w.fam /\ u.wire = w.wire /\ u.opened = w.opened

USE IfaceAssumption

----------------------------------------------------------------------------
(* What the calls do. *)

LEMMA FamilyDownFields ==
  ASSUME NEW w \in Ifaces, NEW f \in Fams
  PROVE  LET u == FamilyDown(w, f) IN
         /\ u \in Ifaces /\ SameFrame(w, u)
         /\ u.opened = w.opened /\ u.failed = w.failed /\ u.bad = w.bad
         /\ ~u.fam[f]
         /\ w.fam[f] => u.wire[f] = "none"
         /\ ~w.fam[f] => u.wire[f] = w.wire[f]
         /\ \A g \in Fams \ {f} : SameFamily(w, u, g)
  BY DEF FamilyDown, Ifaces, SameFrame, SameFamily

LEMMA BothDownFields ==
  ASSUME NEW w \in Ifaces
  PROVE  LET u == BothDown(w) IN
         /\ u \in Ifaces /\ SameFrame(w, u)
         /\ u.opened = w.opened /\ u.failed = w.failed /\ u.bad = w.bad
         /\ \A f \in Fams : ~u.fam[f] /\ (w.fam[f] \/ w.wire[f] = "none" => u.wire[f] = "none")
  BY ZenonT(60) DEF BothDown, FamilyDown, Ifaces, SameFrame, Fams

LEMMA IfaceDownFields ==
  ASSUME NEW w \in Ifaces
  PROVE  LET u == IfaceDown(w) IN
         /\ u \in Ifaces /\ SameFamilies(w, u)
         /\ u.open = w.open /\ u.failed = w.failed /\ u.bad = w.bad
         /\ u.traffic = w.traffic
         /\ ~u.up /\ ~u.dod /\ ~u.idleTimer /\ ~u.sessionTimer
  BY DEF IfaceDown, Ifaces, SameFamilies

LEMMA IfaceUpFields ==
  ASSUME NEW w \in Ifaces, NEW ready \in BOOLEAN, conf \in Confs
  PROVE  LET u == IfaceUp(w, ready) IN
         /\ u \in Ifaces /\ SameFamilies(w, u)
         /\ u.open = w.open /\ u.failed = w.failed /\ u.bad = w.bad
         /\ u.up /\ (u.dod <=> ~ready)
         /\ u.idleTimer \/ u.sessionTimer => ready
         /\ u.idleTimer => ~u.traffic[0] /\ u.traffic[1]
<1>1. 0 \in Periods /\ 1 \in Periods
  BY DEF Periods
<1> DEFINE t == IF ready /\ conf.idle THEN [w.traffic EXCEPT ![0] = FALSE, ![1] = TRUE]
                ELSE w.traffic
<1>2. t \in [Periods -> BOOLEAN]
  BY DEF Ifaces
<1>3. ready /\ conf.idle => ~t[0] /\ t[1]
  BY <1>1 DEF Ifaces
<1>4. conf.idle \in BOOLEAN /\ conf.session \in BOOLEAN
  BY DEF Confs
<1>5. IfaceUp(w, ready) =
        [w EXCEPT !.up = TRUE, !.dod = ~ready, !.dodCache = FALSE,
                  !.sessionTimer = ready /\ conf.session, !.idleTimer = ready /\ conf.idle,
                  !.traffic = t]
  BY DEF IfaceUp
<1> HIDE DEF t
<1> QED
  BY <1>2, <1>3, <1>4, <1>5, ZenonT(60) DEF Ifaces, SameFamilies

\* A family comes up as a whole, or is left down with the fault noted; an opened one is
\* then no longer wired either.
LEMMA FamilyUpFields ==
  ASSUME NEW w \in Ifaces, NEW f \in Fams, NEW ready \in BOOLEAN, NEW fault \in Faults
  PROVE  LET u == FamilyUp(w, f, ready, fault) IN
         /\ u \in Ifaces /\ SameFrame(w, u)
         /\ \A g \in Fams \ {f} : SameFamily(w, u, g)
         /\ \/ /\ u.fam[f] /\ u.wire[f] = Wire(ready) /\ u.opened[f] = w.opened[f]
               /\ w.wire[f] = "none" /\ u.failed = w.failed /\ u.bad = w.bad
            \/ /\ ~u.fam[f] /\ ~u.opened[f] /\ u.failed /\ Wire(ready) \in u.bad
               /\ w.opened[f] => u.wire[f] = "none"
               /\ w.bad \subseteq u.bad
<1>1. ASSUME NEW u \in Ifaces, u.fam[f]
      PROVE  LET v == Failure(u, f) IN
             /\ v \in Ifaces /\ SameFrame(u, v)
             /\ \A g \in Fams \ {f} : SameFamily(u, v, g)
             /\ ~v.fam[f] /\ ~v.opened[f] /\ v.bad = u.bad
             /\ u.opened[f] => v.wire[f] = "none"
  BY <1>1 DEF Failure, FamilyDown, Ifaces, SameFrame, SameFamily
<1> DEFINE wires == w.wire[f] = "none" /\ fault[f] # "early"
           u     == [w EXCEPT !.fam[f] = TRUE, !.wire[f] = IF wires THEN Wire(ready) ELSE @]
<1>2. /\ u \in Ifaces /\ SameFrame(w, u) /\ u.fam[f] /\ u.opened = w.opened
      /\ u.failed = w.failed /\ u.bad = w.bad
      /\ \A g \in Fams \ {f} : SameFamily(w, u, g)
      /\ wires => u.wire[f] = Wire(ready)
  BY DEF Ifaces, Wire, SameFrame, SameFamily
<1>3. CASE wires /\ fault[f] = "none"
  <2>1. FamilyUp(w, f, ready, fault) = u
    BY <1>3 DEF FamilyUp, Wire
  <2> QED
    BY <2>1, <1>2, <1>3
<1>4. CASE ~(wires /\ fault[f] = "none")
  <2> DEFINE v == Failure(u, f)
             x == [v EXCEPT !.failed = TRUE, !.bad = @ \cup {Wire(ready)}]
  <2>1. FamilyUp(w, f, ready, fault) = x
    BY <1>4 DEF FamilyUp, Wire
  <2>2. /\ v \in Ifaces /\ SameFrame(u, v)
        /\ \A g \in Fams \ {f} : SameFamily(u, v, g)
        /\ ~v.fam[f] /\ ~v.opened[f] /\ v.bad = u.bad
        /\ u.opened[f] => v.wire[f] = "none"
    BY <1>1, <1>2
  <2> HIDE DEF u, v
  <2>3. /\ x \in Ifaces /\ SameFrame(v, x) /\ SameFamilies(v, x)
        /\ x.failed /\ x.bad = v.bad \cup {Wire(ready)}
    BY <2>2 DEF Ifaces, Wire, SameFrame, SameFamilies
  <2> HIDE DEF x
  <2> QED
    BY <2>1, <2>2, <2>3, <1>2, ZenonT(60) DEF SameFrame, SameFamily, SameFamilies
<1> QED
  BY <1>3, <1>4

\* For demand: nothing happens, or the family listens, or the fault is noted.
LEMMA DemandUpFields ==
  ASSUME NEW w \in Ifaces, NEW f \in Fams, NEW fault \in Faults
  PROVE  LET u == DemandUp(w, f, fault) IN
         /\ u \in Ifaces /\ SameFrame(w, u)
         /\ \A g \in Fams \ {f} : SameFamily(w, u, g)
         /\ \/ u = w /\ (w.failed \/ w.fam[f] \/ f \notin conf.enabled)
            \/ /\ u.fam[f] /\ u.wire[f] = "demand" /\ u.opened[f] = w.opened[f]
               /\ ~u.failed /\ u.bad = w.bad /\ ~w.fam[f] /\ f \in conf.enabled
            \/ u.failed /\ "demand" \in u.bad /\ w.bad \subseteq u.bad
<1>1. CASE w.failed \/ w.fam[f] \/ f \notin conf.enabled
  BY <1>1 DEF DemandUp, SameFrame, SameFamily
<1>2. CASE ~(w.failed \/ w.fam[f] \/ f \notin conf.enabled)
  <2> DEFINE u == FamilyUp(w, f, FALSE, fault)
  <2>1. DemandUp(w, f, fault) = u
    BY <1>2 DEF DemandUp
  <2>2. FALSE \in BOOLEAN /\ Wire(FALSE) = "demand"
    BY DEF Wire
  <2>3. /\ u \in Ifaces /\ SameFrame(w, u)
        /\ \A g \in Fams \ {f} : SameFamily(w, u, g)
        /\ \/ /\ u.fam[f] /\ u.wire[f] = "demand" /\ u.opened[f] = w.opened[f]
              /\ u.failed = w.failed /\ u.bad = w.bad
           \/ u.failed /\ "demand" \in u.bad /\ w.bad \subseteq u.bad
    BY <2>2, FamilyUpFields, ZenonT(60)
  <2> HIDE DEF u
  <2>4. u.failed = w.failed => ~u.failed
    BY <1>2
  <2> QED
    BY <2>1, <2>3, <2>4, <1>2
<1> QED
  BY <1>1, <1>2

\* What u adds to w, unless a family failed, is that every family that is enabled and
\* was not up listens.
Listens(w, u) ==
  /\ u \in Ifaces /\ SameFrame(w, u) /\ w.bad \subseteq u.bad
  /\ "demand" \notin u.bad =>
       /\ ~u.failed /\ u.bad = w.bad
       /\ \A f \in Fams :
            /\ u.opened[f] = w.opened[f]
            /\ w.fam[f] \/ f \notin conf.enabled => SameFamily(w, u, f)
            /\ ~w.fam[f] /\ f \in conf.enabled => u.fam[f] /\ u.wire[f] = "demand"

\* The two families, one after the other, whether the first one's fault is forgotten
\* before the second one's turn or not.
LEMMA DemandBothFields ==
  ASSUME NEW w \in Ifaces, ~w.failed, NEW fault \in Faults
  PROVE  LET v == DemandUp(w, IP, fault)
         IN  /\ v \in Ifaces
             /\ Listens(w, DemandUp(v, IPv6, fault))
             /\ Listens(w, DemandUp([v EXCEPT !.failed = FALSE], IPv6, fault))
<1> DEFINE v == DemandUp(w, IP, fault)
           x == [v EXCEPT !.failed = FALSE]
<1>1. IP \in Fams /\ IPv6 \in Fams /\ Fams = {IP, IPv6} /\ IP # IPv6
  BY DEF Fams
<1>2. /\ v \in Ifaces /\ SameFrame(w, v) /\ SameFamily(w, v, IPv6)
      /\ \/ v = w /\ (w.fam[IP] \/ IP \notin conf.enabled)
         \/ /\ v.fam[IP] /\ v.wire[IP] = "demand" /\ v.opened[IP] = w.opened[IP]
            /\ ~v.failed /\ v.bad = w.bad /\ ~w.fam[IP] /\ IP \in conf.enabled
         \/ v.failed /\ "demand" \in v.bad /\ w.bad \subseteq v.bad
  BY <1>1, DemandUpFields
<1>3. x \in Ifaces /\ SameFrame(v, x) /\ SameFamilies(v, x) /\ ~x.failed /\ x.bad = v.bad
  BY <1>2 DEF Ifaces, SameFrame, SameFamilies
<1> HIDE DEF v, x
<1>4. ASSUME NEW y \in {v, x} PROVE Listens(w, DemandUp(y, IPv6, fault))
  <2> DEFINE u == DemandUp(y, IPv6, fault)
  <2>1. y \in Ifaces /\ SameFrame(v, y) /\ SameFamilies(v, y) /\ y.bad = v.bad
    BY <1>2, <1>3, <1>4 DEF SameFrame, SameFamilies
  <2>2. /\ u \in Ifaces /\ SameFrame(y, u) /\ SameFamily(y, u, IP)
        /\ \/ u = y /\ (y.failed \/ y.fam[IPv6] \/ IPv6 \notin conf.enabled)
           \/ /\ u.fam[IPv6] /\ u.wire[IPv6] = "demand" /\ u.opened[IPv6] = y.opened[IPv6]
              /\ ~u.failed /\ u.bad = y.bad /\ ~y.fam[IPv6] /\ IPv6 \in conf.enabled
           \/ u.failed /\ "demand" \in u.bad /\ y.bad \subseteq u.bad
    BY <1>1, <2>1, DemandUpFields
  <2>3. y.failed => y = v /\ v.failed
    BY <1>3, <1>4
  <2> HIDE DEF u
  <2>4. SameFrame(w, u) /\ w.bad \subseteq u.bad
    BY <1>2, <2>1, <2>2 DEF SameFrame
  <2>5. ASSUME "demand" \notin u.bad
        PROVE  /\ ~v.failed /\ ~y.failed /\ ~u.failed /\ u.bad = w.bad
    BY <2>5, <1>2, <2>1, <2>2, <2>3
  <2>6. ASSUME "demand" \notin u.bad
        PROVE  \A f \in Fams :
                 /\ u.opened[f] = w.opened[f]
                 /\ w.fam[f] \/ f \notin conf.enabled => SameFamily(w, u, f)
                 /\ ~w.fam[f] /\ f \in conf.enabled => u.fam[f] /\ u.wire[f] = "demand"
    BY <2>5, <2>6, <1>1, <1>2, <2>1, <2>2 DEF SameFamily, SameFamilies
  <2> QED
    BY <2>2, <2>4, <2>5, <2>6 DEF Listens, u
<1> QED
  BY <1>2, <1>4 DEF v, x

\* What listened for demand is gone; an interface that did not is left alone.
LEMMA EndDemandFields ==
  ASSUME NEW w \in Ifaces
  PROVE  LET u == EndDemand(w) IN
         /\ u \in Ifaces /\ ~u.failed /\ ~u.dod
         /\ u.open = w.open /\ u.opened = w.opened /\ u.bad = w.bad /\ u.traffic = w.traffic
         /\ ~w.dod => SameFrame(w, u) /\ SameFamilies(w, u)
         /\ w.dod =>
              /\ ~u.up /\ ~u.idleTimer /\ ~u.sessionTimer
              /\ \A f \in Fams : ~u.fam[f] /\ (w.fam[f] \/ w.wire[f] = "none" => u.wire[f] = "none")
<1> DEFINE v == [w EXCEPT !.failed = FALSE]
<1>1. v \in Ifaces /\ SameFrame(w, v) /\ SameFamilies(w, v) /\ v.bad = w.bad /\ ~v.failed
  BY DEF Ifaces, SameFrame, SameFamilies
<1>2. EndDemand(w) = IF v.dod THEN IfaceDown(BothDown(v)) ELSE v
  BY DEF EndDemand
<1> HIDE DEF v
<1>3. CASE v.dod
  BY <1>1, <1>2, <1>3, BothDownFields, IfaceDownFields DEF SameFrame, SameFamilies
<1>4. CASE ~v.dod
  BY <1>1, <1>2, <1>4 DEF SameFrame, SameFamilies
<1> QED
  BY <1>3, <1>4

----------------------------------------------------------------------------
(* The inductive invariant, and the calls of the bundle. *)

\* A family is wired if and only if its flag says so.
Wired(w) == \A f \in Fams : w.fam[f] <=> w.wire[f] # "none"

\* An interface is up if and only if a family is.
UpWithFamily(w) == w.up <=> \E f \in Fams : w.fam[f]

Timed(w) ==
  /\ w.idleTimer \/ w.sessionTimer => w.up /\ ~w.dod
  /\ w.dod => w.up

\* Families other than those that carry an opened protocol wait for demand.
Served(w) ==
  \A f \in Fams : /\ w.opened[f] => w.up /\ ~w.dod /\ w.wire[f] = "ppp"
                  /\ w.fam[f] /\ ~w.dod => w.opened[f]

\* An open interface carries traffic or hears demand, but for what the deaf families miss.
Hears(w, miss) ==
  w.open =>
    /\ w.up
    /\ w.dod <=> \A f \in Fams : ~w.opened[f]
    /\ w.dod => \A f \in conf.enabled \ miss : w.wire[f] = "demand"

\* What holds of an interface until it has failed to listen for demand (Wired,
\* UpWithFamily), was opened or closed by hand (Served) or has failed at all (Hears).
Good(w, byHand, miss) ==
  /\ w \in Ifaces /\ Timed(w)
  /\ "demand" \notin w.bad => Wired(w) /\ UpWithFamily(w)
  /\ "demand" \notin w.bad /\ ~byHand => Served(w)
  /\ w.bad = {} /\ ~byHand => Hears(w, miss)

\* quiet counts what the idle timer remembers: the last period with traffic was
\* quiet + 1 periods ago, or has been forgotten.
Measured(w, n) ==
  w.idleTimer =>
    /\ n < IFACE_IDLE_SPLIT
    /\ n < IFACE_IDLE_SPLIT - 1 => w.traffic[n + 1]
    /\ \A k \in Periods : k <= n => ~w.traffic[k]

\* A timer that runs was started with the session or ran before.
KeepsTime(w, u) ==
  /\ u.idleTimer => \/ w.idleTimer /\ u.traffic = w.traffic
                    \/ (~w.up \/ w.dod) /\ ~u.traffic[0] /\ u.traffic[1]
  /\ u.up /\ ~u.dod /\ (~w.up \/ w.dod) => ~w.idleTimer

IInv ==
  /\ conf \in Confs /\ conf.enabled # {}
  /\ asked \in {"none", "open", "close"}
  /\ quiet \in -1 .. IFACE_IDLE_SPLIT /\ manual \in BOOLEAN /\ deaf \subseteq Fams
  /\ Good(iface, manual, deaf) /\ Measured(iface, quiet)

\* Raise() starts the timers with a session only.
LEMMA RaiseFields ==
  ASSUME NEW w \in Ifaces, NEW ready \in BOOLEAN, conf \in Confs
  PROVE  LET u == Raise(w, ready) IN
         /\ u \in Ifaces /\ SameFamilies(w, u)
         /\ u.open = w.open /\ u.bad = w.bad
         /\ w.failed \/ w.up => u = w
         /\ ~w.failed /\ ~w.up =>
              /\ u.up /\ (u.dod <=> ~ready)
              /\ u.idleTimer \/ u.sessionTimer => ready
              /\ u.idleTimer => ~u.traffic[0] /\ u.traffic[1]
<1>1. CASE w.failed \/ w.up
  BY <1>1 DEF Raise, SameFamilies
<1>2. CASE ~(w.failed \/ w.up)
  <2>1. Raise(w, ready) = IfaceUp(w, ready)
    BY <1>2 DEF Raise
  <2> QED
    BY <2>1, <1>2, IfaceUpFields
<1> QED
  BY <1>1, <1>2

\* A protocol came up: its family is wired to the PPP node and a session begins, or goes
\* on, or the family failed and the protocol is down again.
LEMMA JoinIsGood ==
  ASSUME NEW w, NEW byHand \in BOOLEAN, NEW miss, NEW f \in Fams, NEW fault \in Faults,
         conf \in Confs, Good(w, byHand, miss), ~w.opened[f]
  PROVE  LET u == BundNcpsJoin([w EXCEPT !.opened[f] = TRUE], f, fault)
         IN  Good(u, byHand, {}) /\ KeepsTime(w, u)
<1> DEFINE o == [w EXCEPT !.opened[f] = TRUE]
           e == EndDemand(o)
           v == IF e.fam[f] THEN e ELSE FamilyUp(e, f, TRUE, fault)
           u == Raise(v, TRUE)
<1>0. w \in Ifaces
  BY DEF Good
<1>1. /\ o \in Ifaces /\ o.opened[f] /\ SameFrame(w, o) /\ o.bad = w.bad
      /\ o.fam = w.fam /\ o.wire = w.wire
      /\ \A g \in Fams \ {f} : o.opened[g] = w.opened[g]
  BY <1>0 DEF Ifaces, SameFrame
<1>2. BundNcpsJoin(o, f, fault) = u
  BY DEF BundNcpsJoin
<1> HIDE DEF o
<1>3. /\ e \in Ifaces /\ ~e.failed /\ ~e.dod
      /\ e.open = o.open /\ e.opened = o.opened /\ e.bad = o.bad /\ e.traffic = o.traffic
      /\ ~o.dod => SameFrame(o, e) /\ SameFamilies(o, e)
      /\ o.dod =>
           /\ ~e.up /\ ~e.idleTimer /\ ~e.sessionTimer
           /\ \A g \in Fams : ~e.fam[g] /\ (o.fam[g] \/ o.wire[g] = "none" => e.wire[g] = "none")
  BY <1>1, EndDemandFields
<1> HIDE DEF e
<1>4. /\ v \in Ifaces /\ SameFrame(e, v)
      /\ \A g \in Fams \ {f} : SameFamily(e, v, g)
      /\ \/ e.fam[f] /\ v = e
         \/ /\ ~e.fam[f]
            /\ v.fam[f] /\ v.wire[f] = "ppp" /\ v.opened[f] = e.opened[f]
            /\ v.failed = e.failed /\ v.bad = e.bad
         \/ /\ ~e.fam[f]
            /\ ~v.fam[f] /\ ~v.opened[f] /\ v.failed /\ "ppp" \in v.bad
            /\ e.opened[f] => v.wire[f] = "none"
            /\ e.bad \subseteq v.bad
  <2>1. TRUE \in BOOLEAN /\ Wire(TRUE) = "ppp"
    BY DEF Wire
  <2>2. CASE e.fam[f]
    BY <1>3, <2>2 DEF SameFrame, SameFamily
  <2>3. CASE ~e.fam[f]
    <3> DEFINE t == FamilyUp(e, f, TRUE, fault)
    <3>1. e \in Ifaces
      BY <1>3
    <3>2. /\ t \in Ifaces /\ SameFrame(e, t)
          /\ \A g \in Fams \ {f} : SameFamily(e, t, g)
          /\ \/ /\ t.fam[f] /\ t.wire[f] = "ppp" /\ t.opened[f] = e.opened[f]
                /\ t.failed = e.failed /\ t.bad = e.bad
             \/ /\ ~t.fam[f] /\ ~t.opened[f] /\ t.failed /\ "ppp" \in t.bad
                /\ e.opened[f] => t.wire[f] = "none"
                /\ e.bad \subseteq t.bad
      BY ONLY <2>1, <3>1, f \in Fams, fault \in Faults, FamilyUpFields, ZenonT(60)
    <3>3. v = t
      BY <2>3
    <3> HIDE DEF t, v
    <3> QED
      BY <2>3, <3>2, <3>3
  <2> QED
    BY <2>2, <2>3
<1> HIDE DEF v
<1>5. /\ u \in Ifaces /\ SameFamilies(v, u)
      /\ u.open = v.open /\ u.bad = v.bad
      /\ v.failed \/ v.up => u = v
      /\ ~v.failed /\ ~v.up =>
           u.up /\ ~u.dod /\ (u.idleTimer => ~u.traffic[0] /\ u.traffic[1])
  BY <1>4, RaiseFields
<1> HIDE DEF u
<1>6. Timed(w) /\ w \in Ifaces
  BY DEF Good
<1>7. Timed(u) /\ KeepsTime(w, u)
  BY <1>1, <1>3, <1>4, <1>5, <1>6 DEF Timed, KeepsTime, SameFrame
<1>8. ASSUME "demand" \notin u.bad PROVE Wired(u) /\ UpWithFamily(u)
  <2>1. Wired(w) /\ UpWithFamily(w)
    BY <1>1, <1>3, <1>4, <1>5, <1>8 DEF Good
  <2>2. Wired(e) /\ UpWithFamily(e)
    BY <2>1, <1>1, <1>3 DEF Wired, UpWithFamily, SameFrame, SameFamilies
  <2>3. Wired(v) /\ (e.up => v.up) /\ (v.up /\ ~v.failed => \E g \in Fams : v.fam[g])
    BY <2>2, <1>1, <1>3, <1>4 DEF Wired, UpWithFamily, SameFrame, SameFamily
  <2> QED
    BY <2>2, <2>3, <1>1, <1>3, <1>4, <1>5 DEF Wired, UpWithFamily, SameFrame, SameFamilies, SameFamily
<1>9. ASSUME "demand" \notin u.bad, ~byHand PROVE Served(u)
  <2>1. Wired(w) /\ UpWithFamily(w) /\ Served(w)
    BY <1>1, <1>3, <1>4, <1>5, <1>9 DEF Good
  <2>2. ~e.fam[f]
    BY <2>1, <1>1, <1>3 DEF Served, SameFrame, SameFamilies
  <2>3. \A g \in Fams \ {f} : /\ e.opened[g] => e.up /\ ~e.dod /\ e.wire[g] = "ppp"
                              /\ e.fam[g] => e.opened[g]
    <3>1. CASE w.dod
      BY <3>1, <2>1, <1>1, <1>3 DEF Served, SameFrame
    <3>2. CASE ~w.dod
      BY <3>2, <2>1, <1>1, <1>3 DEF Served, SameFamilies, SameFrame
    <3> QED
      BY <3>1, <3>2
  <2>4. \A g \in Fams \ {f} : /\ v.opened[g] => v.up /\ ~v.dod /\ v.wire[g] = "ppp"
                              /\ v.fam[g] => v.opened[g]
    BY <2>3, <1>4 DEF SameFrame, SameFamily
  <2>5. ~v.dod
    BY <1>3, <1>4 DEF SameFrame
  <2>6. CASE v.failed
    <3>1. u = v /\ ~v.fam[f] /\ ~v.opened[f]
      BY <2>2, <2>6, <1>3, <1>4, <1>5
    <3> QED
      BY <3>1, <2>4 DEF Served
  <2>7. CASE ~v.failed
    <3>1. v.fam[f] /\ v.wire[f] = "ppp" /\ v.opened[f] /\ u.up /\ ~u.dod
      BY <2>2, <2>5, <2>7, <1>1, <1>3, <1>4, <1>5
    <3> QED
      <4>1. ASSUME NEW g \in Fams
            PROVE  /\ u.opened[g] => u.up /\ ~u.dod /\ u.wire[g] = "ppp"
                   /\ u.fam[g] /\ ~u.dod => u.opened[g]
        BY <3>1, <2>4, <1>5 DEF SameFamilies
      <4> QED
        BY <4>1 DEF Served
  <2> QED
    BY <2>6, <2>7
<1>10. ASSUME u.bad = {}, ~byHand PROVE Hears(u, {})
  BY <1>10, <1>1, <1>3, <1>4, <1>5 DEF Hears, SameFamilies, SameFrame, SameFamily
<1>11. Good(u, byHand, {})
  BY <1>5, <1>7, <1>8, <1>9, <1>10 DEF Good
<1> QED
  BY <1>2, <1>7, <1>11 DEF o

\* "open iface": demand is listened for, unless a connection is there already.
LEMMA JoinNoneIsGood ==
  ASSUME NEW w, NEW byHand \in BOOLEAN, NEW miss, NEW fault \in Faults,
         conf \in Confs, conf.enabled # {}, Good(w, byHand, miss)
  PROVE  LET u == BundNcpsJoinNone([w EXCEPT !.open = TRUE], fault)
         IN  /\ Good(u, byHand \/ \E f \in Fams : w.opened[f], {})
             /\ KeepsTime(w, u)
<1> DEFINE o == [w EXCEPT !.open = TRUE]
           e == EndDemand(o)
           v == DemandUp(DemandUp(e, IP, fault), IPv6, fault)
           u == Raise(v, FALSE)
           b == byHand \/ \E f \in Fams : w.opened[f]
<1>0. w \in Ifaces /\ Timed(w)
  BY DEF Good
<1>1. /\ o \in Ifaces /\ SameFamilies(w, o) /\ o.bad = w.bad /\ o.open
      /\ o.dod = w.dod /\ o.up = w.up /\ o.traffic = w.traffic
      /\ o.idleTimer = w.idleTimer /\ o.sessionTimer = w.sessionTimer
  BY <1>0 DEF Ifaces, SameFamilies
<1>2. BundNcpsJoinNone(o, fault) = u
  BY DEF BundNcpsJoinNone
<1> HIDE DEF o
<1>3. /\ e \in Ifaces /\ ~e.failed /\ ~e.dod
      /\ e.open = o.open /\ e.opened = o.opened /\ e.bad = o.bad /\ e.traffic = o.traffic
      /\ ~o.dod => SameFrame(o, e) /\ SameFamilies(o, e)
      /\ o.dod =>
           /\ ~e.up /\ ~e.idleTimer /\ ~e.sessionTimer
           /\ \A g \in Fams : ~e.fam[g] /\ (o.fam[g] \/ o.wire[g] = "none" => e.wire[g] = "none")
  BY <1>1, EndDemandFields
<1> HIDE DEF e
<1>4. Listens(e, v)
  BY <1>3, DemandBothFields
<1> HIDE DEF v
<1>5. /\ u \in Ifaces /\ SameFamilies(v, u)
      /\ u.open = v.open /\ u.bad = v.bad
      /\ v.failed \/ v.up => u = v
      /\ ~v.failed /\ ~v.up => u.up /\ u.dod /\ ~u.idleTimer /\ ~u.sessionTimer
  <2>1. v \in Ifaces /\ FALSE \in BOOLEAN
    BY <1>4 DEF Listens
  <2> QED
    BY <2>1, RaiseFields
<1> HIDE DEF u
<1>6. SameFrame(e, v) /\ v.bad = u.bad /\ e.bad \subseteq u.bad /\ w.bad \subseteq u.bad
  BY <1>1, <1>3, <1>4, <1>5 DEF Listens
<1>7. Timed(u) /\ KeepsTime(w, u)
  BY <1>0, <1>1, <1>3, <1>5, <1>6 DEF Timed, KeepsTime, SameFrame
<1>8. ASSUME "demand" \notin u.bad
      PROVE  /\ u.up /\ Wired(u) /\ Wired(e) /\ UpWithFamily(e)
             /\ \A f \in Fams :
                  /\ u.opened[f] = w.opened[f]
                  /\ f \in conf.enabled => u.fam[f]
                  /\ ~e.fam[f] /\ f \in conf.enabled => u.wire[f] = "demand"
  <2>1. Wired(w) /\ UpWithFamily(w)
    BY <1>6, <1>8 DEF Good
  <2>2. Wired(e) /\ UpWithFamily(e)
    BY <2>1, <1>1, <1>3 DEF Wired, UpWithFamily, SameFrame, SameFamilies
  <2>3. /\ ~v.failed
        /\ \A f \in Fams :
             /\ v.opened[f] = e.opened[f]
             /\ e.fam[f] \/ f \notin conf.enabled => SameFamily(e, v, f)
             /\ ~e.fam[f] /\ f \in conf.enabled => v.fam[f] /\ v.wire[f] = "demand"
    BY <1>6, <1>8, <1>4 DEF Listens
  <2>4. u.up
    BY <2>3, <1>5
  <2>5. Wired(v)
    BY <2>2, <2>3 DEF Wired, SameFamily
  <2> QED
    BY <2>2, <2>3, <2>4, <2>5, <1>1, <1>3, <1>5 DEF Wired, SameFamilies, SameFamily
<1>9. ASSUME "demand" \notin u.bad, ~b
      PROVE  u.dod /\ \A f \in Fams : ~u.opened[f] /\ ~e.fam[f]
  <2>1. Wired(w) /\ UpWithFamily(w) /\ Served(w)
    BY <1>6, <1>9 DEF Good
  <2>2. \A f \in Fams : ~w.opened[f] /\ (w.fam[f] => w.dod)
    BY <2>1, <1>9 DEF Served
  <2>3. \A f \in Fams : ~e.fam[f]
    BY <2>2, <1>1, <1>3 DEF SameFamilies
  <2>4. ~e.up /\ ~v.up
    BY <2>3, <1>8, <1>9, <1>6 DEF UpWithFamily, SameFrame
  <2>5. u.dod
    BY <2>4, <1>8, <1>9, <1>5
  <2> QED
    BY <2>2, <2>3, <2>5, <1>8, <1>9
<1>10. ASSUME "demand" \notin u.bad PROVE Wired(u) /\ UpWithFamily(u)
  <2>1. PICK f \in conf.enabled : TRUE
    OBVIOUS
  <2>2. f \in Fams
    BY DEF Confs
  <2> QED
    BY <2>2, <1>8, <1>10 DEF UpWithFamily
<1>11. ASSUME "demand" \notin u.bad, ~b PROVE Served(u)
  BY <1>9, <1>11 DEF Served
<1>12. ASSUME u.bad = {}, ~b PROVE Hears(u, {})
  <2>1. "demand" \notin u.bad /\ conf.enabled \subseteq Fams
    BY <1>12 DEF Confs
  <2> QED
    BY <2>1, <1>8, <1>9, <1>12 DEF Hears
<1>13. Good(u, b, {})
  BY <1>5, <1>7, <1>10, <1>11, <1>12 DEF Good
<1> QED
  BY <1>2, <1>7, <1>13 DEF o

\* Whoever is left alone listens again; the interface is up if and only if a family is.
LEMMA DemandAgainFields ==
  ASSUME NEW w \in Ifaces, NEW fault \in Faults, conf \in Confs, ~w.up, ~w.dod,
         ~w.idleTimer, ~w.sessionTimer, \A f \in Fams : ~w.fam[f]
  PROVE  LET u == DemandAgain(w, fault) IN
         /\ u \in Ifaces /\ u.open = w.open /\ w.bad \subseteq u.bad
         /\ ~u.idleTimer /\ ~u.sessionTimer /\ (u.dod <=> u.up)
         /\ UpWithFamily(u)
         /\ "demand" \notin u.bad =>
              /\ u.bad = w.bad
              /\ \A f \in Fams :
                   /\ u.opened[f] = w.opened[f]
                   /\ f \notin conf.enabled => SameFamily(w, u, f)
                   /\ f \in conf.enabled => u.fam[f] /\ u.wire[f] = "demand"
<1> DEFINE x == [w EXCEPT !.failed = FALSE]
           y == DemandUp([DemandUp(x, IP, fault) EXCEPT !.failed = FALSE], IPv6, fault)
           u == IF \E f \in Fams : y.fam[f] THEN IfaceUp(y, FALSE) ELSE y
<1>1. DemandAgain(w, fault) = u
  BY DEF DemandAgain
<1>2. x \in Ifaces /\ SameFrame(w, x) /\ SameFamilies(w, x) /\ ~x.failed /\ x.bad = w.bad
  BY DEF Ifaces, SameFrame, SameFamilies
<1> HIDE DEF x
<1>3. Listens(x, y)
  BY <1>2, DemandBothFields
<1> HIDE DEF y
<1>4. y \in Ifaces /\ SameFrame(w, y) /\ w.bad \subseteq y.bad
  BY <1>2, <1>3 DEF Listens, SameFrame
<1>5. ASSUME "demand" \notin y.bad
      PROVE  /\ y.bad = w.bad
             /\ \A f \in Fams :
                  /\ y.opened[f] = w.opened[f]
                  /\ f \notin conf.enabled => SameFamily(w, y, f)
                  /\ f \in conf.enabled => y.fam[f] /\ y.wire[f] = "demand"
  BY <1>2, <1>3, <1>5 DEF Listens, SameFamily, SameFamilies
<1>6. CASE \E f \in Fams : y.fam[f]
  <2>1. /\ u \in Ifaces /\ SameFamilies(y, u)
        /\ u.open = y.open /\ u.bad = y.bad
        /\ u.up /\ u.dod /\ ~u.idleTimer /\ ~u.sessionTimer
    <3> DEFINE t == IfaceUp(y, FALSE)
    <3>1. FALSE \in BOOLEAN /\ u = t
      BY <1>6
    <3>2. /\ t \in Ifaces /\ SameFamilies(y, t)
          /\ t.open = y.open /\ t.failed = y.failed /\ t.bad = y.bad
          /\ t.up /\ (t.dod <=> ~FALSE)
          /\ t.idleTimer \/ t.sessionTimer => FALSE
          /\ t.idleTimer => ~t.traffic[0] /\ t.traffic[1]
      BY ONLY <3>1, <1>4, conf \in Confs, IfaceUpFields, ZenonT(60)
    <3> HIDE DEF t, u
    <3> QED
      BY ONLY <3>1, <3>2
  <2> HIDE DEF u
  <2>2. UpWithFamily(u)
    BY <2>1, <1>6 DEF UpWithFamily, SameFamilies
  <2>3. u.open = w.open /\ w.bad \subseteq u.bad
    BY <2>1, <1>4 DEF SameFrame
  <2> QED
    BY <2>1, <2>2, <2>3, <1>1, <1>5 DEF SameFamilies, SameFamily
<1>7. CASE ~ \E f \in Fams : y.fam[f]
  <2>1. u = y
    BY <1>7
  <2> HIDE DEF u
  <2>2. /\ u \in Ifaces /\ u.open = w.open /\ w.bad \subseteq u.bad
        /\ ~u.idleTimer /\ ~u.sessionTimer /\ ~u.dod /\ ~u.up
    BY <2>1, <1>4 DEF SameFrame
  <2>3. UpWithFamily(u)
    BY <2>1, <2>2, <1>7 DEF UpWithFamily
  <2> QED
    BY <2>1, <2>2, <2>3, <1>1, <1>5
<1> QED
  BY <1>6, <1>7

\* The families that are gone come down; the last one takes the interface along, which
\* then listens for demand if it is open.
LEMMA LeaveFields ==
  ASSUME NEW w \in Ifaces, NEW gone \in SUBSET Fams, NEW fault \in Faults, conf \in Confs
  PROVE  LET u == BundNcpsLeave(w, gone, fault) IN
         \E p \in Ifaces :
            /\ SameFrame(w, p) /\ p.opened = w.opened /\ p.bad = w.bad
            /\ \A f \in Fams :
                 /\ f \in gone => ~p.fam[f] /\ (w.fam[f] \/ w.wire[f] = "none" => p.wire[f] = "none")
                 /\ f \notin gone => SameFamily(w, p, f)
            /\ \/ u = p /\ (~p.up \/ \E f \in Fams : p.fam[f])
               \/ /\ p.up /\ \A f \in Fams : ~p.fam[f]
                  /\ \/ ~p.open /\ u = IfaceDown(p)
                     \/ p.open /\ u = DemandAgain(IfaceDown(p), fault)
<1> DEFINE v == IF IP \in gone THEN FamilyDown(w, IP) ELSE w
           p == IF IPv6 \in gone THEN FamilyDown(v, IPv6) ELSE v
           d == IfaceDown(p)
           u == BundNcpsLeave(w, gone, fault)
<1>1. IP \in Fams /\ IPv6 \in Fams /\ Fams = {IP, IPv6} /\ IP # IPv6
  BY DEF Fams
<1>2. /\ v \in Ifaces /\ SameFrame(w, v) /\ v.opened = w.opened /\ v.bad = w.bad
      /\ SameFamily(w, v, IPv6)
      /\ IP \in gone => ~v.fam[IP] /\ (w.fam[IP] \/ w.wire[IP] = "none" => v.wire[IP] = "none")
      /\ IP \notin gone => SameFamily(w, v, IP)
  BY <1>1, FamilyDownFields DEF SameFrame, SameFamily
<1> HIDE DEF v
<1>3. /\ p \in Ifaces /\ SameFrame(v, p) /\ p.opened = v.opened /\ p.bad = v.bad
      /\ SameFamily(v, p, IP)
      /\ IPv6 \in gone => ~p.fam[IPv6] /\ (v.fam[IPv6] \/ v.wire[IPv6] = "none" => p.wire[IPv6] = "none")
      /\ IPv6 \notin gone => SameFamily(v, p, IPv6)
  BY <1>1, <1>2, FamilyDownFields DEF SameFrame, SameFamily
<1> HIDE DEF p
<1>4. /\ SameFrame(w, p) /\ p.opened = w.opened /\ p.bad = w.bad
      /\ \A f \in Fams :
           /\ f \in gone => ~p.fam[f] /\ (w.fam[f] \/ w.wire[f] = "none" => p.wire[f] = "none")
           /\ f \notin gone => SameFamily(w, p, f)
  BY <1>1, <1>2, <1>3 DEF SameFrame, SameFamily
<1>5. u = CASE ~p.up \/ (\E f \in Fams : p.fam[f]) -> p
            [] p.up /\ (\A f \in Fams : ~p.fam[f]) -> IF d.open THEN DemandAgain(d, fault) ELSE d
  BY DEF BundNcpsLeave, p, v
<1>6. d.open = p.open
  BY <1>3, IfaceDownFields
<1>7. \/ u = p /\ (~p.up \/ \E f \in Fams : p.fam[f])
      \/ /\ p.up /\ \A f \in Fams : ~p.fam[f]
         /\ \/ ~p.open /\ u = d
            \/ p.open /\ u = DemandAgain(d, fault)
  <2> HIDE DEF u, d
  <2> QED
    BY <1>5, <1>6
<1> QED
  BY <1>3, <1>4, <1>7

\* A protocol goes down: the interface goes on with the other one, listens again, or
\* goes down.
LEMMA LeaveIsGood ==
  ASSUME NEW w, NEW byHand \in BOOLEAN, NEW miss, NEW f \in Fams, NEW fault \in Faults,
         conf \in Confs, conf.enabled # {}, Good(w, byHand, miss), w.opened[f]
  PROVE  LET u == BundNcpsLeave([w EXCEPT !.opened[f] = FALSE], {f}, fault)
         IN  Good(u, byHand, {}) /\ KeepsTime(w, u) /\ ("demand" \in u.bad \/ ~u.opened[f])
<1> DEFINE o == [w EXCEPT !.opened[f] = FALSE]
           u == BundNcpsLeave(o, {f}, fault)
<1> SUFFICES Good(u, byHand, {}) /\ KeepsTime(w, u) /\ ("demand" \in u.bad \/ ~u.opened[f])
  OBVIOUS
<1>0. w \in Ifaces /\ Timed(w)
  BY DEF Good
<1>1. /\ o \in Ifaces /\ ~o.opened[f] /\ SameFrame(w, o) /\ o.bad = w.bad
      /\ o.fam = w.fam /\ o.wire = w.wire
      /\ \A g \in Fams \ {f} : o.opened[g] = w.opened[g]
  BY <1>0 DEF Ifaces, SameFrame
<1> HIDE DEF o
<1>2. PICK p \in Ifaces :
        /\ SameFrame(o, p) /\ p.opened = o.opened /\ p.bad = o.bad
        /\ \A g \in Fams :
             /\ g \in {f} => ~p.fam[g] /\ (o.fam[g] \/ o.wire[g] = "none" => p.wire[g] = "none")
             /\ g \notin {f} => SameFamily(o, p, g)
        /\ \/ u = p /\ (~p.up \/ \E g \in Fams : p.fam[g])
           \/ /\ p.up /\ \A g \in Fams : ~p.fam[g]
              /\ \/ ~p.open /\ u = IfaceDown(p)
                 \/ p.open /\ u = DemandAgain(IfaceDown(p), fault)
  <2>1. {f} \in SUBSET Fams
    OBVIOUS
  <2> HIDE DEF u
  <2>2. o \in Ifaces /\ conf \in Confs
    BY <1>1
  <2> QED
    BY ONLY <2>1, <2>2, LeaveFields, fault \in Faults DEF u
<1> HIDE DEF u
<1>3. /\ SameFrame(w, p) /\ p.bad = w.bad /\ ~p.opened[f] /\ ~p.fam[f] /\ Timed(p)
      /\ \A g \in Fams \ {f} : SameFamily(w, p, g)
      /\ w.fam[f] \/ w.wire[f] = "none" => p.wire[f] = "none"
  BY <1>0, <1>1, <1>2 DEF SameFrame, SameFamily, Timed
<1>4. ASSUME "demand" \notin w.bad PROVE Wired(w) /\ UpWithFamily(w) /\ Wired(p)
  <2>1. Wired(w) /\ UpWithFamily(w)
    BY <1>4 DEF Good
  <2> QED
    BY <2>1, <1>3 DEF Wired, SameFamily
<1>5. ASSUME "demand" \notin w.bad, ~byHand
      PROVE  /\ Served(w) /\ w.up /\ ~w.dod
             /\ \A g \in Fams : p.opened[g] <=> p.fam[g]
  <2>1. Served(w)
    BY <1>5 DEF Good
  <2>2. w.up /\ ~w.dod
    BY <2>1 DEF Served
  <2>3. \A g \in Fams \ {f} : p.opened[g] <=> p.fam[g]
    BY <2>1, <2>2, <1>4, <1>5, <1>3 DEF Served, SameFamily, Wired
  <2> QED
    BY <2>1, <2>2, <2>3, <1>3
<1>6. CASE u = p /\ (~p.up \/ \E g \in Fams : p.fam[g])
  <2>1. KeepsTime(w, p)
    BY <1>3 DEF KeepsTime, SameFrame
  <2>2. ASSUME "demand" \notin p.bad PROVE Wired(p) /\ UpWithFamily(p)
    BY <2>2, <1>3, <1>4, <1>6 DEF UpWithFamily, SameFrame, SameFamily
  <2>3. ASSUME "demand" \notin p.bad, ~byHand PROVE Served(p)
    <3>1. Served(w) /\ w.up /\ ~w.dod /\ \A g \in Fams : p.opened[g] <=> p.fam[g]
      BY <2>3, <1>3, <1>5
    <3> QED
      BY <3>1, <1>3 DEF Served, SameFrame, SameFamily
  <2>4. ASSUME p.bad = {}, ~byHand PROVE Hears(p, {})
    BY <2>4, <1>3, <1>5, <1>6 DEF Hears, SameFrame
  <2> QED
    BY <2>1, <2>2, <2>3, <2>4, <1>2, <1>3, <1>6 DEF Good
<1>7. CASE p.up /\ (\A g \in Fams : ~p.fam[g]) /\ ~p.open /\ u = IfaceDown(p)
  <2>1. /\ u \in Ifaces /\ SameFamilies(p, u)
        /\ u.open = p.open /\ u.failed = p.failed /\ u.bad = p.bad
        /\ ~u.up /\ ~u.dod /\ ~u.idleTimer /\ ~u.sessionTimer
    BY <1>2, <1>7, IfaceDownFields
  <2>2. KeepsTime(w, u) /\ Timed(u)
    BY <2>1 DEF KeepsTime, Timed
  <2>3. ASSUME "demand" \notin u.bad PROVE Wired(u) /\ UpWithFamily(u)
    BY <2>1, <2>3, <1>3, <1>4, <1>7 DEF Wired, UpWithFamily, SameFamilies
  <2>4. ASSUME "demand" \notin u.bad, ~byHand PROVE Served(u)
    BY <2>1, <2>4, <1>3, <1>5, <1>7 DEF Served, SameFamilies
  <2>5. Hears(u, {})
    BY <2>1, <1>7 DEF Hears
  <2>6. ~u.opened[f]
    BY <2>1, <1>3 DEF SameFamilies
  <2> QED
    BY <2>1, <2>2, <2>3, <2>4, <2>5, <2>6 DEF Good
<1>8. CASE p.up /\ (\A g \in Fams : ~p.fam[g]) /\ p.open /\ u = DemandAgain(IfaceDown(p), fault)
  <2> DEFINE d == IfaceDown(p)
  <2>1. /\ d \in Ifaces /\ SameFamilies(p, d)
        /\ d.open = p.open /\ d.failed = p.failed /\ d.bad = p.bad
        /\ ~d.up /\ ~d.dod /\ ~d.idleTimer /\ ~d.sessionTimer
    BY <1>2, IfaceDownFields
  <2> HIDE DEF d
  <2>2. \A g \in Fams : ~d.fam[g]
    BY <2>1, <1>8 DEF SameFamilies
  <2>3. /\ u \in Ifaces /\ u.open = d.open /\ d.bad \subseteq u.bad
        /\ ~u.idleTimer /\ ~u.sessionTimer /\ (u.dod <=> u.up)
        /\ UpWithFamily(u)
        /\ "demand" \notin u.bad =>
             /\ u.bad = d.bad
             /\ \A g \in Fams :
                  /\ u.opened[g] = d.opened[g]
                  /\ g \notin conf.enabled => SameFamily(d, u, g)
                  /\ g \in conf.enabled => u.fam[g] /\ u.wire[g] = "demand"
    <3>1. u = DemandAgain(d, fault)
      BY <1>8 DEF d
    <3> QED
      BY <3>1, <2>1, <2>2, DemandAgainFields
  <2>4. KeepsTime(w, u) /\ Timed(u)
    BY <2>3 DEF KeepsTime, Timed
  <2>5. u.bad \in SUBSET {"demand", "ppp"} /\ w.bad \subseteq u.bad
    BY <2>1, <2>3, <1>3 DEF Ifaces
  <2>6. ASSUME "demand" \notin u.bad PROVE Wired(u)
    BY <2>1, <2>3, <2>5, <2>6, <1>3, <1>4 DEF Wired, SameFamilies, SameFamily
  <2>7. ASSUME "demand" \notin u.bad, ~byHand PROVE \A g \in Fams : ~u.opened[g]
    BY <2>1, <2>3, <2>5, <2>7, <1>5, <1>8 DEF SameFamilies
  <2>8. ASSUME "demand" \notin u.bad, ~byHand PROVE Served(u)
    BY <2>3, <2>7, <2>8 DEF Served, UpWithFamily
  <2>9. ASSUME u.bad = {}, ~byHand PROVE Hears(u, {})
    <3>1. conf.enabled \subseteq Fams /\ "demand" \notin u.bad
      BY <2>9 DEF Confs
    <3>2. PICK g \in conf.enabled : TRUE
      OBVIOUS
    <3>3. u.up
      BY <3>1, <3>2, <2>3 DEF UpWithFamily
    <3> QED
      BY <3>1, <3>3, <2>3, <2>7, <2>9 DEF Hears
  <2>10. "demand" \notin u.bad => ~u.opened[f]
    BY <2>1, <2>3, <1>3 DEF SameFamilies
  <2> QED
    BY <2>3, <2>4, <2>6, <2>8, <2>9, <2>10 DEF Good
<1> QED
  BY <1>2, <1>3, <1>6, <1>7, <1>8

\* LayerDown once more: the family no longer hears demand, the rest is as before.
LEMMA LeaveAgainIsGood ==
  ASSUME NEW w, NEW byHand \in BOOLEAN, NEW f \in Fams, NEW fault \in Faults,
         conf \in Confs, conf.enabled # {}, Good(w, byHand, {}), "demand" \in w.bad \/ ~w.opened[f]
  PROVE  LET u == Leave(w, f, fault)
         IN  /\ Good(u, byHand, {f})
             /\ u.idleTimer => w.idleTimer /\ u.traffic = w.traffic
             /\ u.up /\ ~u.dod => w.up /\ ~w.dod
<1> DEFINE o == [w EXCEPT !.opened[f] = FALSE]
           u == BundNcpsLeave(o, {f}, fault)
           Keeps == /\ u.idleTimer => w.idleTimer /\ u.traffic = w.traffic
                    /\ u.up /\ ~u.dod => w.up /\ ~w.dod
<1> SUFFICES Good(u, byHand, {f}) /\ Keeps
  BY DEF Leave
<1>0. w \in Ifaces /\ Timed(w)
  BY DEF Good
<1>1. /\ o \in Ifaces /\ ~o.opened[f] /\ SameFrame(w, o) /\ o.bad = w.bad
      /\ o.fam = w.fam /\ o.wire = w.wire
      /\ \A g \in Fams \ {f} : o.opened[g] = w.opened[g]
  BY <1>0 DEF Ifaces, SameFrame, SameFamily
<1> HIDE DEF o
<1>2. PICK p \in Ifaces :
        /\ SameFrame(o, p) /\ p.opened = o.opened /\ p.bad = o.bad
        /\ \A g \in Fams :
             /\ g \in {f} => ~p.fam[g] /\ (o.fam[g] \/ o.wire[g] = "none" => p.wire[g] = "none")
             /\ g \notin {f} => SameFamily(o, p, g)
        /\ \/ u = p /\ (~p.up \/ \E g \in Fams : p.fam[g])
           \/ /\ p.up /\ \A g \in Fams : ~p.fam[g]
              /\ \/ ~p.open /\ u = IfaceDown(p)
                 \/ p.open /\ u = DemandAgain(IfaceDown(p), fault)
  <2>1. {f} \in SUBSET Fams
    OBVIOUS
  <2> HIDE DEF u
  <2>2. o \in Ifaces /\ conf \in Confs
    BY <1>1
  <2> QED
    BY ONLY <2>1, <2>2, LeaveFields, fault \in Faults DEF u
<1> HIDE DEF u
<1>3. /\ SameFrame(w, p) /\ p.bad = w.bad /\ ~p.opened[f] /\ ~p.fam[f] /\ Timed(p)
      /\ \A g \in Fams \ {f} : SameFamily(w, p, g)
      /\ w.fam[f] \/ w.wire[f] = "none" => p.wire[f] = "none"
  BY <1>0, <1>1, <1>2 DEF SameFrame, SameFamily, Timed
<1>4. ASSUME "demand" \notin w.bad PROVE Wired(w) /\ UpWithFamily(w) /\ Wired(p)
  <2>1. Wired(w) /\ UpWithFamily(w)
    BY <1>4 DEF Good
  <2> QED
    BY <2>1, <1>3 DEF Wired, SameFamily
<1>5. ASSUME "demand" \notin w.bad, ~byHand
      PROVE  /\ Served(w)
             /\ (\A g \in Fams : ~p.fam[g]) => \A g \in Fams : ~p.opened[g]
  <2>1. Served(w)
    BY <1>5 DEF Good
  <2>2. ASSUME NEW g \in Fams \ {f}, ~p.fam[g] PROVE ~p.opened[g]
    BY <2>1, <2>2, <1>3, <1>4, <1>5 DEF Served, Wired, SameFamily
  <2> QED
    BY <2>1, <2>2, <1>3
<1>6. CASE u = p /\ (~p.up \/ \E g \in Fams : p.fam[g])
  <2>1. Keeps
    BY <1>3, <1>6 DEF SameFrame
  <2>2. ASSUME "demand" \notin p.bad PROVE Wired(p) /\ UpWithFamily(p)
    BY <2>2, <1>3, <1>4, <1>6 DEF UpWithFamily, SameFrame, SameFamily
  <2>3. ASSUME "demand" \notin p.bad, ~byHand PROVE Served(p)
    <3>1. Served(w)
      BY <2>3, <1>3, <1>5
    <3> QED
      BY <3>1, <1>3 DEF Served, SameFrame, SameFamily
  <2>4. ASSUME p.bad = {}, ~byHand PROVE Hears(p, {f})
    <3>1. Hears(w, {}) /\ conf.enabled \subseteq Fams
      BY <2>4, <1>3 DEF Good, Confs
    <3>2. \A g \in Fams : p.opened[g] <=> w.opened[g]
      <4>1. ~w.opened[f] /\ ~p.opened[f]
        BY <2>4, <1>3
      <4> QED
        BY <4>1, <1>3 DEF SameFamily
    <3> QED
      BY <3>1, <3>2, <1>3 DEF Hears, SameFrame, SameFamily
  <2> QED
    BY <2>1, <2>2, <2>3, <2>4, <1>2, <1>3, <1>6 DEF Good
<1>7. CASE p.up /\ (\A g \in Fams : ~p.fam[g]) /\ ~p.open /\ u = IfaceDown(p)
  <2>1. /\ u \in Ifaces /\ SameFamilies(p, u)
        /\ u.open = p.open /\ u.failed = p.failed /\ u.bad = p.bad
        /\ ~u.up /\ ~u.dod /\ ~u.idleTimer /\ ~u.sessionTimer
    BY <1>2, <1>7, IfaceDownFields
  <2>2. Keeps /\ Timed(u)
    BY <2>1 DEF Timed
  <2>3. ASSUME "demand" \notin u.bad PROVE Wired(u) /\ UpWithFamily(u)
    BY <2>1, <2>3, <1>3, <1>4, <1>7 DEF Wired, UpWithFamily, SameFamilies
  <2>4. ASSUME "demand" \notin u.bad, ~byHand PROVE Served(u)
    BY <2>1, <2>4, <1>3, <1>5, <1>7 DEF Served, SameFamilies
  <2>5. Hears(u, {f})
    BY <2>1, <1>7 DEF Hears
  <2> QED
    BY <2>1, <2>2, <2>3, <2>4, <2>5 DEF Good
<1>8. CASE p.up /\ (\A g \in Fams : ~p.fam[g]) /\ p.open /\ u = DemandAgain(IfaceDown(p), fault)
  <2> DEFINE d == IfaceDown(p)
  <2>1. /\ d \in Ifaces /\ SameFamilies(p, d)
        /\ d.open = p.open /\ d.failed = p.failed /\ d.bad = p.bad
        /\ ~d.up /\ ~d.dod /\ ~d.idleTimer /\ ~d.sessionTimer
    BY <1>2, IfaceDownFields
  <2> HIDE DEF d
  <2>2. \A g \in Fams : ~d.fam[g]
    BY <2>1, <1>8 DEF SameFamilies
  <2>3. /\ u \in Ifaces /\ u.open = d.open /\ d.bad \subseteq u.bad
        /\ ~u.idleTimer /\ ~u.sessionTimer /\ (u.dod <=> u.up)
        /\ UpWithFamily(u)
        /\ "demand" \notin u.bad =>
             /\ u.bad = d.bad
             /\ \A g \in Fams :
                  /\ u.opened[g] = d.opened[g]
                  /\ g \notin conf.enabled => SameFamily(d, u, g)
                  /\ g \in conf.enabled => u.fam[g] /\ u.wire[g] = "demand"
    <3>1. u = DemandAgain(d, fault)
      BY <1>8 DEF d
    <3> QED
      BY <3>1, <2>1, <2>2, DemandAgainFields
  <2>4. Keeps /\ Timed(u)
    BY <2>3 DEF Timed
  <2>5. u.bad \in SUBSET {"demand", "ppp"} /\ w.bad \subseteq u.bad
    BY <2>1, <2>3, <1>3 DEF Ifaces
  <2>6. ASSUME "demand" \notin u.bad PROVE Wired(u)
    BY <2>1, <2>3, <2>5, <2>6, <1>3, <1>4 DEF Wired, SameFamilies, SameFamily
  <2>7. ASSUME "demand" \notin u.bad, ~byHand PROVE \A g \in Fams : ~u.opened[g]
    BY <2>1, <2>3, <2>5, <2>7, <1>5, <1>8 DEF SameFamilies
  <2>8. ASSUME "demand" \notin u.bad, ~byHand PROVE Served(u)
    BY <2>3, <2>7, <2>8 DEF Served, UpWithFamily
  <2>9. ASSUME u.bad = {}, ~byHand PROVE Hears(u, {f})
    <3>1. conf.enabled \subseteq Fams /\ "demand" \notin u.bad
      BY <2>9 DEF Confs
    <3>2. PICK g \in conf.enabled : TRUE
      OBVIOUS
    <3>3. u.up
      BY <3>1, <3>2, <2>3 DEF UpWithFamily
    <3> QED
      BY <3>1, <3>3, <2>3, <2>7, <2>9 DEF Hears
  <2> QED
    BY <2>3, <2>4, <2>6, <2>8, <2>9 DEF Good
<1> QED
  BY <1>2, <1>6, <1>7, <1>8

\* "close iface": nothing is left.
LEMMA CloseIsGood ==
  ASSUME NEW w, NEW byHand \in BOOLEAN, NEW miss, NEW fault \in Faults,
         conf \in Confs, Good(w, byHand, miss)
  PROVE  LET u == BundNcpsLeave([w EXCEPT !.open = FALSE], Fams, fault)
         IN  /\ Good(u, byHand \/ \E f \in Fams : w.opened[f], {})
             /\ KeepsTime(w, u)
<1> DEFINE o == [w EXCEPT !.open = FALSE]
           u == BundNcpsLeave(o, Fams, fault)
           b == byHand \/ \E f \in Fams : w.opened[f]
<1>0. w \in Ifaces /\ Timed(w)
  BY DEF Good
<1>1. /\ o \in Ifaces /\ SameFamilies(w, o) /\ o.bad = w.bad /\ ~o.open
      /\ o.dod = w.dod /\ o.up = w.up /\ o.traffic = w.traffic
      /\ o.idleTimer = w.idleTimer /\ o.sessionTimer = w.sessionTimer
  BY <1>0 DEF Ifaces, SameFamilies
<1> HIDE DEF o
<1>2. PICK p \in Ifaces :
        /\ SameFrame(o, p) /\ p.opened = o.opened /\ p.bad = o.bad
        /\ \A g \in Fams :
             /\ g \in Fams => ~p.fam[g] /\ (o.fam[g] \/ o.wire[g] = "none" => p.wire[g] = "none")
             /\ g \notin Fams => SameFamily(o, p, g)
        /\ \/ u = p /\ (~p.up \/ \E g \in Fams : p.fam[g])
           \/ /\ p.up /\ \A g \in Fams : ~p.fam[g]
              /\ \/ ~p.open /\ u = IfaceDown(p)
                 \/ p.open /\ u = DemandAgain(IfaceDown(p), fault)
  <2>1. Fams \in SUBSET Fams
    OBVIOUS
  <2> HIDE DEF u
  <2> QED
    BY <2>1, <1>1, LeaveFields DEF u
<1> HIDE DEF u
<1>3. /\ ~p.open /\ p.bad = w.bad /\ p.opened = w.opened
      /\ p.up = w.up /\ p.dod = w.dod /\ p.traffic = w.traffic
      /\ p.idleTimer = w.idleTimer /\ p.sessionTimer = w.sessionTimer
      /\ \A g \in Fams : ~p.fam[g] /\ (w.fam[g] \/ w.wire[g] = "none" => p.wire[g] = "none")
  BY <1>1, <1>2 DEF SameFrame, SameFamilies
<1>4. ASSUME "demand" \notin w.bad PROVE Wired(p)
  BY <1>3, <1>4 DEF Wired, Good
<1>5. /\ u \in Ifaces /\ ~u.open /\ SameFamilies(p, u) /\ u.bad = p.bad
      /\ ~u.up /\ Timed(u) /\ KeepsTime(w, u)
  <2>1. CASE u = p /\ ~p.up
    BY <2>1, <1>0, <1>2, <1>3 DEF Timed, KeepsTime, SameFamilies
  <2>2. CASE p.up /\ u = IfaceDown(p)
    <3>1. /\ u \in Ifaces /\ SameFamilies(p, u)
          /\ u.open = p.open /\ u.failed = p.failed /\ u.bad = p.bad
          /\ ~u.up /\ ~u.dod /\ ~u.idleTimer /\ ~u.sessionTimer
      BY <1>2, <2>2, IfaceDownFields
    <3> QED
      BY <3>1, <1>3 DEF Timed, KeepsTime
  <2> QED
    BY <2>1, <2>2, <1>2, <1>3
<1>6. ASSUME "demand" \notin u.bad PROVE Wired(u) /\ UpWithFamily(u)
  BY <1>3, <1>4, <1>5, <1>6 DEF Wired, UpWithFamily, SameFamilies
<1>7. ASSUME ~b PROVE Served(u)
  BY <1>3, <1>5, <1>7 DEF Served, SameFamilies
<1>8. Good(u, b, {})
  BY <1>5, <1>6, <1>7 DEF Good, Hears
<1> QED
  BY <1>5, <1>8 DEF u, o

\* A session that begins is measured from its beginning, one that goes on as before.
LEMMA CountedIsMeasured ==
  ASSUME NEW w \in Ifaces, NEW u \in Ifaces, NEW n \in -1 .. IFACE_IDLE_SPLIT,
         KeepsTime(w, u), Measured(w, n), Timed(w), Timed(u)
  PROVE  LET m == IF u.up /\ ~u.dod /\ (~w.up \/ w.dod) THEN 0 ELSE n
         IN  m \in -1 .. IFACE_IDLE_SPLIT /\ Measured(u, m)
<1> DEFINE m == IF u.up /\ ~u.dod /\ (~w.up \/ w.dod) THEN 0 ELSE n
<1>1. m \in -1 .. IFACE_IDLE_SPLIT
  OBVIOUS
<1>2. ASSUME u.idleTimer, w.idleTimer PROVE Measured(u, m)
  <2>1. w.up /\ ~w.dod
    BY <1>2 DEF Timed
  <2>2. m = n /\ u.traffic = w.traffic
    BY <2>1, <1>2 DEF KeepsTime
  <2> QED
    BY <2>2, <1>2 DEF Measured
<1>3. ASSUME u.idleTimer, ~w.idleTimer PROVE Measured(u, m)
  <2>1. m = 0 /\ ~u.traffic[0] /\ u.traffic[1]
    BY <1>3 DEF KeepsTime, Timed
  <2> HIDE DEF m
  <2> QED
    BY <2>1 DEF Measured, Periods
<1>4. ASSUME ~u.idleTimer PROVE Measured(u, m)
  BY <1>4 DEF Measured
<1> QED
  BY <1>1, <1>2, <1>3, <1>4

----------------------------------------------------------------------------
(* The specification. *)

LEMMA InitIInv == Init => IInv
<1> SUFFICES ASSUME Init PROVE IInv
  OBVIOUS
<1>1. iface \in Ifaces
  BY DEF Init, Ifaces
<1>2. conf \in Confs /\ conf.enabled # {}
  BY DEF Init, Confs
<1>3. Good(iface, manual, deaf) /\ Measured(iface, quiet)
  BY <1>1 DEF Init, Good, Timed, Wired, UpWithFamily, Served, Hears, Measured
<1>4. quiet = 0 /\ manual = FALSE /\ asked = "none" /\ deaf = {}
  BY DEF Init
<1>5. quiet \in -1 .. IFACE_IDLE_SPLIT
  BY <1>4
<1> QED
  BY <1>2, <1>3, <1>4, <1>5 DEF IInv

\* One more period: the window of what is remembered moves on, and the bundle is closed
\* when it has nothing but quiet periods.
LEMMA IdleTimeoutMeasures ==
  ASSUME IInv, NEW busy \in BOOLEAN, IfaceIdleTimeout(busy)
  PROVE  /\ iface' \in Ifaces /\ SameFamilies(iface, iface')
         /\ iface'.open = iface.open /\ iface'.up = iface.up /\ iface'.dod = iface.dod
         /\ iface'.bad = iface.bad /\ iface'.sessionTimer = iface.sessionTimer
         /\ quiet' \in -1 .. IFACE_IDLE_SPLIT /\ Measured(iface', quiet')
         /\ quiet' = IFACE_IDLE_SPLIT <=> ~iface'.idleTimer
<1>1. /\ iface \in Ifaces /\ iface.idleTimer /\ Measured(iface, quiet)
      /\ quiet \in -1 .. IFACE_IDLE_SPLIT
  BY DEF IInv, Good, IfaceIdleTimeout
<1>2. /\ quiet < IFACE_IDLE_SPLIT
      /\ quiet < IFACE_IDLE_SPLIT - 1 => iface.traffic[quiet + 1]
      /\ \A k \in Periods : k <= quiet => ~iface.traffic[k]
  BY <1>1 DEF Measured
<1>3. quiet' = IF busy THEN 0 ELSE quiet + 1
  BY <1>2 DEF IfaceIdleTimeout
<1>4. IsIdle(iface) <=> quiet = IFACE_IDLE_SPLIT - 1
  BY <1>1, <1>2 DEF IsIdle, Periods
<1>5. CASE ~busy /\ IsIdle(iface)
  <2>1. iface' = [iface EXCEPT !.idleTimer = FALSE]
    BY <1>5 DEF IfaceIdleTimeout
  <2>2. quiet' = IFACE_IDLE_SPLIT
    BY <1>3, <1>4, <1>5
  <2>3. quiet' \in -1 .. IFACE_IDLE_SPLIT
    BY <2>2
  <2>4. /\ iface' \in Ifaces /\ SameFamilies(iface, iface') /\ ~iface'.idleTimer
        /\ iface'.open = iface.open /\ iface'.up = iface.up /\ iface'.dod = iface.dod
        /\ iface'.bad = iface.bad /\ iface'.sessionTimer = iface.sessionTimer
    BY <1>1, <2>1 DEF Ifaces, SameFamilies
  <2> QED
    BY <2>2, <2>3, <2>4 DEF Measured
<1>6. CASE busy \/ ~IsIdle(iface)
  <2> DEFINE now == [iface.traffic EXCEPT ![0] = @ \/ busy]
             t   == Shifted(now)
  <2>1. iface' = [iface EXCEPT !.traffic = t]
    BY <1>6 DEF IfaceIdleTimeout
  <2>2. 0 \in Periods /\ iface.traffic \in [Periods -> BOOLEAN]
    BY <1>1 DEF Ifaces, Periods
  <2>3. /\ now \in [Periods -> BOOLEAN] /\ (now[0] <=> iface.traffic[0] \/ busy)
        /\ \A k \in Periods \ {0} : now[k] = iface.traffic[k]
    BY <2>2
  <2> HIDE DEF now
  <2>4. /\ t \in [Periods -> BOOLEAN] /\ ~t[0]
        /\ \A k \in Periods \ {0} : t[k] = now[k - 1]
    <3>1. \A k \in Periods \ {0} : k - 1 \in Periods
      BY DEF Periods
    <3>2. \A k \in Periods : (IF k = 0 THEN FALSE ELSE now[k - 1]) \in BOOLEAN
      BY <3>1, <2>3
    <3>3. t = [k \in Periods |-> IF k = 0 THEN FALSE ELSE now[k - 1]]
      BY DEF Shifted
    <3> HIDE DEF t
    <3> QED
      BY <3>2, <3>3, <2>2
  <2> HIDE DEF t
  <2>5. /\ iface' \in Ifaces /\ SameFamilies(iface, iface') /\ iface'.idleTimer
        /\ iface'.open = iface.open /\ iface'.up = iface.up /\ iface'.dod = iface.dod
        /\ iface'.bad = iface.bad /\ iface'.sessionTimer = iface.sessionTimer
        /\ iface'.traffic = t
    BY <1>1, <2>1, <2>4 DEF Ifaces, SameFamilies
  <2>6. quiet' \in 0 .. IFACE_IDLE_SPLIT - 1
    BY <1>1, <1>2, <1>3, <1>4, <1>6
  <2>7. quiet' < IFACE_IDLE_SPLIT - 1 => t[quiet' + 1]
    <3>1. CASE busy
      BY <3>1, <1>3, <2>3, <2>4 DEF Periods
    <3>2. CASE ~busy
      BY <3>2, <1>1, <1>2, <1>3, <2>3, <2>4, <2>6 DEF Periods
    <3> QED
      BY <3>1, <3>2
  <2>8. ASSUME NEW k \in Periods, k <= quiet' PROVE ~t[k]
    <3>1. CASE k = 0
      BY <3>1, <2>4
    <3>2. CASE k # 0
      <4>1. ~busy /\ quiet' = quiet + 1
        BY <3>2, <2>8, <1>3 DEF Periods
      <4>2. k - 1 \in Periods /\ k - 1 <= quiet /\ t[k] = now[k - 1]
        BY <3>2, <4>1, <2>8, <2>4, <1>1 DEF Periods
      <4>3. ~now[k - 1]
        BY <4>1, <4>2, <1>2, <2>3
      <4> QED
        BY <4>2, <4>3
    <3> QED
      BY <3>1, <3>2
  <2>9. Measured(iface', quiet')
    BY <2>5, <2>6, <2>7, <2>8 DEF Measured
  <2> QED
    BY <2>5, <2>6, <2>9
<1> QED
  BY <1>5, <1>6

LEMMA NextIInv == IInv /\ [Next]_vars => IInv'
<1> SUFFICES ASSUME IInv, [Next]_vars PROVE IInv'
  OBVIOUS
<1> USE DEF IInv
<1>1. iface \in Ifaces /\ Timed(iface)
  BY DEF Good
<1>2. ASSUME UNCHANGED conf, asked' \in {"none", "open", "close"},
             quiet' \in -1 .. IFACE_IDLE_SPLIT, manual' \in BOOLEAN, deaf' \subseteq Fams,
             Good(iface', manual', deaf'), Measured(iface', quiet')
      PROVE  IInv'
  BY <1>2 DEF Good, Hears
\* The calls of the bundle.
<1>3. ASSUME UNCHANGED << conf, asked >>, manual' \in BOOLEAN, deaf' \subseteq Fams, Counted,
             Good(iface', manual', deaf'), KeepsTime(iface, iface')
      PROVE  IInv'
  <2>1. iface' \in Ifaces /\ Timed(iface')
    BY <1>3 DEF Good
  <2>2. quiet' = IF iface'.up /\ ~iface'.dod /\ (~iface.up \/ iface.dod) THEN 0 ELSE quiet
    BY <1>3 DEF Counted
  <2>3. quiet' \in -1 .. IFACE_IDLE_SPLIT /\ Measured(iface', quiet')
    BY <1>1, <1>3, <2>1, <2>2, CountedIsMeasured
  <2> QED
    BY <1>2, <1>3, <2>3
\* What leaves the families alone.
<1>4. ASSUME UNCHANGED << conf, manual, deaf >>, asked' \in {"none", "open", "close"},
             quiet' \in -1 .. IFACE_IDLE_SPLIT, Measured(iface', quiet'),
             iface' \in Ifaces, SameFamilies(iface, iface'), iface'.open = iface.open,
             iface'.up = iface.up, iface'.dod = iface.dod, iface'.bad = iface.bad,
             iface'.idleTimer => iface.idleTimer, iface'.sessionTimer => iface.sessionTimer
      PROVE  IInv'
  <2>1. Good(iface', manual', deaf')
    BY <1>1, <1>4 DEF Good, Timed, Wired, UpWithFamily, Served, Hears, SameFamilies
  <2> QED
    BY <1>2, <1>4, <2>1
\* Less may be missed than is allowed to be.
<1>d. ASSUME NEW m \in BOOLEAN, NEW w, Good(w, m, {}) PROVE Good(w, m, deaf)
  BY <1>d DEF Good, Hears
<1>5. ASSUME NEW fault \in Faults, IfaceOpen(fault) PROVE IInv'
  <2>1. iface' = BundNcpsJoinNone([iface EXCEPT !.open = TRUE], fault) /\ deaf' = deaf
    BY <1>5 DEF IfaceOpen
  <2>2. manual' = (manual \/ \E f \in Fams : iface.opened[f])
    BY <1>5 DEF IfaceOpen, Connected
  <2>3. Good(iface', manual', {}) /\ KeepsTime(iface, iface')
    BY <2>1, <2>2, JoinNoneIsGood
  <2>4. Good(iface', manual', deaf')
    BY <1>d, <2>1, <2>2, <2>3
  <2> QED
    BY <1>3, <1>5, <2>1, <2>2, <2>3, <2>4 DEF IfaceOpen
<1>6. ASSUME IfaceClose PROVE IInv'
  <2> DEFINE fault == [f \in Fams |-> "none"]
  <2>1. fault \in Faults
    BY DEF Faults
  <2>2. iface' = BundNcpsLeave([iface EXCEPT !.open = FALSE], Fams, fault) /\ deaf' = {}
    BY <1>6 DEF IfaceClose
  <2>3. manual' = (manual \/ \E f \in Fams : iface.opened[f])
    BY <1>6 DEF IfaceClose, Connected
  <2> HIDE DEF fault
  <2>4. Good(iface', manual', {}) /\ KeepsTime(iface, iface')
    BY <2>1, <2>2, <2>3, CloseIsGood
  <2> QED
    BY <1>3, <1>6, <2>2, <2>3, <2>4 DEF IfaceClose
<1>7. ASSUME NEW f \in Fams, NEW fault \in Faults, LayerUp(f, fault) PROVE IInv'
  <2>1. Good(iface', manual, {}) /\ KeepsTime(iface, iface') /\ deaf' = {}
    BY <1>7, JoinIsGood DEF LayerUp
  <2> QED
    BY <1>3, <1>7, <2>1 DEF LayerUp
<1>8. ASSUME NEW f \in Fams, NEW fault \in Faults, LayerDown(f, fault) PROVE IInv'
  <2>1. Good(iface', manual, {}) /\ KeepsTime(iface, iface') /\ deaf' = {}
    BY <1>8, LeaveIsGood DEF LayerDown, Leave
  <2> QED
    BY <1>3, <1>8, <2>1 DEF LayerDown
<1>13. ASSUME NEW f \in Fams, NEW fault \in Faults, NEW again \in Faults,
              LayerDownTwice(f, fault, again)
       PROVE  IInv'
  <2> DEFINE v == Leave(iface, f, fault)
  <2>1. iface' = Leave(v, f, again) /\ deaf' = {f} /\ iface.opened[f]
    BY <1>13 DEF LayerDownTwice
  <2>2. Good(v, manual, {}) /\ KeepsTime(iface, v) /\ ("demand" \in v.bad \/ ~v.opened[f])
    BY <2>1, LeaveIsGood DEF Leave
  <2> HIDE DEF v
  <2>3. /\ Good(iface', manual, {f})
        /\ iface'.idleTimer => v.idleTimer /\ iface'.traffic = v.traffic
        /\ iface'.up /\ ~iface'.dod => v.up /\ ~v.dod
    BY <2>1, <2>2, LeaveAgainIsGood
  <2>4. KeepsTime(iface, iface')
    BY <2>2, <2>3 DEF KeepsTime
  <2> QED
    BY <1>3, <1>13, <2>1, <2>3, <2>4 DEF LayerDownTwice
<1>9. ASSUME NEW f \in Fams, IfaceListenInput(f) PROVE IInv'
  <2>1. 0 \in Periods
    BY DEF Periods
  <2>2. /\ iface' \in Ifaces /\ SameFamilies(iface, iface')
        /\ iface'.open = iface.open /\ iface'.up = iface.up /\ iface'.dod = iface.dod
        /\ iface'.bad = iface.bad /\ iface'.idleTimer = iface.idleTimer
        /\ iface'.sessionTimer = iface.sessionTimer /\ iface'.traffic[0]
    BY <1>1, <1>9, <2>1 DEF IfaceListenInput, Ifaces, SameFamilies
  <2>3. quiet' = -1 /\ asked' = "open" /\ UNCHANGED << conf, manual, deaf >>
    BY <1>9 DEF IfaceListenInput
  <2>4. Measured(iface', quiet')
    BY <2>2, <2>3 DEF Measured, Periods
  <2> QED
    BY <1>4, <2>2, <2>3, <2>4
<1>10. ASSUME NEW busy \in BOOLEAN, IfaceIdleTimeout(busy) PROVE IInv'
  <2>1. asked' \in {"none", "open", "close"} /\ UNCHANGED << conf, manual, deaf >> /\ iface.idleTimer
    BY <1>10 DEF IfaceIdleTimeout
  <2> QED
    BY <1>4, <1>10, <2>1, IdleTimeoutMeasures
<1>11. ASSUME IfaceSessionTimeout PROVE IInv'
  <2>1. /\ iface' \in Ifaces /\ SameFamilies(iface, iface') /\ ~iface'.sessionTimer
        /\ iface'.open = iface.open /\ iface'.up = iface.up /\ iface'.dod = iface.dod
        /\ iface'.bad = iface.bad /\ iface'.idleTimer = iface.idleTimer
        /\ iface'.traffic = iface.traffic
    BY <1>1, <1>11 DEF IfaceSessionTimeout, Ifaces, SameFamilies
  <2>2. Measured(iface', quiet)
    BY <2>1 DEF Measured
  <2> QED
    BY <1>4, <1>11, <2>1, <2>2 DEF IfaceSessionTimeout
<1>12. CASE UNCHANGED vars
  BY <1>2, <1>12 DEF vars
<1> QED
  BY <1>5, <1>6, <1>7, <1>8, <1>9, <1>10, <1>11, <1>12, <1>13 DEF Next

LEMMA IInvHolds == Spec => []IInv
<1> QED
  BY InitIInv, NextIInv, PTL DEF Spec

\* Every variable keeps its type.
THEOREM TypeCorrect == Spec => []TypeOK
<1>1. IInv => TypeOK
  BY DEF IInv, Good, TypeOK, Ifaces, Confs
<1> QED
  BY <1>1, IInvHolds, PTL

\* Whatever the order of protocols, demand, commands and failures: an opened protocol is
\* wired to the PPP node of an interface that is up and does not dial, and an open
\* interface on which nothing failed carries traffic or hears demand (iface.c:1112-1187).
THEOREM ServedWhenOpen == Spec => []OpenIsServed
<1>1. IInv => OpenIsServed
  <2> SUFFICES ASSUME IInv PROVE OpenIsServed
    OBVIOUS
  <2>1. /\ "demand" \notin iface.bad /\ ~manual => Served(iface)
        /\ iface.bad = {} /\ ~manual => Hears(iface, deaf)
    BY DEF IInv, Good
  <2> QED
    BY <2>1 DEF OpenIsServed, Served, Hears, Connected
<1> QED
  BY <1>1, IInvHolds, PTL

\* Flags, wiring and timers tell the same story, also after a family failed in the middle
\* of coming up.
THEOREM FlagsTrue == Spec => []FlagsAreTrue
<1>1. IInv => FlagsAreTrue
  BY DEF IInv, Good, Timed, Wired, UpWithFamily, FlagsAreTrue, WiresMatchFlags, TimersMatch
<1> QED
  BY <1>1, IInvHolds, PTL

\* The bundle is closed in the period that completes a whole idle timeout without
\* traffic, and in no other, however many periods the timeout has: what the array of a
\* session before remembers does not count.
THEOREM IdleClosed == Spec => IdleClosesInTime
<1>1. IInv /\ [Next]_vars =>
        [(\E busy \in BOOLEAN : IfaceIdleTimeout(busy)) =>
           (quiet' = IFACE_IDLE_SPLIT <=> ~iface'.idleTimer)]_vars
  BY IdleTimeoutMeasures
<1> QED
  BY <1>1, IInvHolds, PTL DEF Spec, IdleClosesInTime

=============================================================================
