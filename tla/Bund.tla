-------------------------------- MODULE Bund --------------------------------
(***************************************************************************)
(* One bundle (bund.c) and the links that dial for it or join it: opening  *)
(* and closing, the table of links and its two counters, bandwidth         *)
(* management, the reopen timer, the network protocols that keep the links *)
(* up, and destruction.                                                    *)
(*                                                                         *)
(* Of a link only what the bundle can see is kept: whether LCP is in an    *)
(* OPEN_STATE(), whether PhysIsBusy(), whether it has joined (Link has the *)
(* rest).  Static links exist for ever; the others are instances of one    *)
(* template, made when they are dialled or called and gone when they end.  *)
(***************************************************************************)
EXTENDS Integers, FiniteSets, Sequences, SequencesExt

CONSTANTS
  Static,     \* permanent links
  Instances,  \* instances of the link template, gMaxChildren of them
  NSlots,     \* NG_PPP_MAX_LINKS
  Ncps,       \* network protocols that are enabled: IPCP, IPV6CP
  Template,   \* the name of the link template
  None,
  MaxMsgs,    \* bound: no event that sends messages comes to a longer queue
  MaxLost     \* bound: netgraph joins that fail

ASSUME BundAssumption ==
  /\ Static \cap Instances = {} /\ {None, Template} \cap (Static \cup Instances) = {}
  /\ None # Template
  /\ NSlots \in Nat \ {0} /\ MaxMsgs \in Nat /\ MaxLost \in Nat

VARIABLES
  b,         \* struct bundle, its links and the messages to all of them
  conf,      \* options of the bundle and of its interface
  handling,  \* MsgEvent() is emptying the message queue
  lost       \* netgraph joins that failed, for the properties only

vars == << b, conf, handling, lost >>

Links == Static \cup Instances
Slots == 1 .. NSlots

\* idle: not in use; open: OPEN_STATE(); closing: not open, but LCP or the device is
\* still in use; dying: in use until its MSG_SHUTDOWN is handled.
LinkStates == {"absent", "idle", "open", "closing", "dying"}

Messages ==
  [op : {"bundOpen", "bundClose"}, to : {None}] \cup
  [op : {"open", "close", "shutdown"}, to : Links]

TypeOK ==
  /\ b \in [open : BOOLEAN, dead : BOOLEAN, stay : BOOLEAN,
            links : [Slots -> Links \cup {None}], n_links : Nat, n_up : Nat,
            link : [Links -> [st : LinkStates, joined : BOOLEAN]],
            ncpstarted : SUBSET Ncps, reOpenTimer : BOOLEAN, bmTimer : BOOLEAN,
            msgs : Seq(Messages), failed : {"none", "leave", "bm", "freed"}]
  /\ conf \in [linkst : [Slots -> Static \cup {Template, None}],
               bwmanage : BOOLEAN, ondemand : BOOLEAN]
  /\ handling \in BOOLEAN /\ lost \in 0 .. MaxLost

----------------------------------------------------------------------------
(* Links and messages. *)

Member(w, x) == \E k \in Slots : w.links[k] = x
SlotOf(w, x) == CHOOSE k \in Slots : w.links[k] = x
Least(S) == CHOOSE k \in S : \A j \in S : k <= j
Greatest(S) == CHOOSE k \in S : \A j \in S : k >= j

MsgSend(w, op, x) == [w EXCEPT !.msgs = Append(@, [op |-> op, to |-> x])]

\* The messages but those to links that are gone: they will be dropped when their turn comes.
Kept(msgs, gone) ==
  LET kept[n \in 0 .. Len(msgs)] ==
        CASE n = 0                            -> << >>
          [] n # 0 /\ msgs[n].to \in gone    -> kept[n - 1]
          [] n # 0 /\ msgs[n].to \notin gone -> Append(kept[n - 1], msgs[n])
  IN  kept

Without(msgs, gone) == Kept(msgs, gone)[Len(msgs)]

\* LinkShutdown(): the late divorce.
LinkShutdown(w, x) ==
  [w EXCEPT !.link[x] = [st |-> "absent", joined |-> FALSE],
            !.msgs = Without(@, {x}),
            !.links = [k \in Slots |-> IF w.links[k] = x THEN None ELSE w.links[k]],
            !.n_links = IF Member(w, x) THEN @ - 1 ELSE @]

PhysIsBusy(w, x) == w.link[x].st # "idle"

----------------------------------------------------------------------------
(* Opening and closing the links. *)

BundOpenLink(w, k) == MsgSend(w, "open", w.links[k])

\* The link that is put into slot k: the static one named there, or a new instance.
Candidates(w, k) ==
  IF conf.linkst[k] = Template THEN {x \in Instances : w.link[x].st = "absent"}
  ELSE {x \in Static \cap {conf.linkst[k]} : ~PhysIsBusy(w, x)}

\* A slip in BundCreateOpenLink(): a new member is not counted.
BundCreateUncounted(w, k) ==
  IF Candidates(w, k) = {} THEN w
  ELSE LET x == CHOOSE y \in Candidates(w, k) : TRUE
       IN  BundOpenLink([w EXCEPT !.links[k] = x, !.link[x].st = "idle"], k)

BundCreateOpenLink(w, k) ==
  IF Candidates(w, k) = {} THEN w
  ELSE LET x == CHOOSE y \in Candidates(w, k) : TRUE
       IN  BundOpenLink([w EXCEPT !.links[k] = x, !.link[x].st = "idle",
                                  !.n_links = @ + 1], k)

BundOpenSlot(w, k) == IF w.links[k] # None THEN BundOpenLink(w, k) ELSE BundCreateOpenLink(w, k)

Usable(w) == {k \in Slots : w.links[k] # None \/ conf.linkst[k] # None}

\* After each slot in turn; one that names no link has no candidates.
Opened(w) ==
  LET after[k \in 0 .. NSlots] == IF k = 0 THEN w ELSE BundOpenSlot(after[k - 1], k)
  IN  after

\* One link with bandwidth management, and only if there is none; else all of them.
BundOpenLinks(v) ==
  LET w == [v EXCEPT !.reOpenTimer = FALSE] IN
  CASE conf.bwmanage /\ (w.n_links # 0 \/ Usable(w) = {}) -> w
    [] conf.bwmanage /\ w.n_links = 0 /\ Usable(w) # {} -> BundOpenSlot(w, Least(Usable(w)))
    [] ~conf.bwmanage -> Opened(w)[NSlots]

BundCloseLink(w, k) == MsgSend(w, "close", w.links[k])

OpenSlots(w) == {k \in Slots : w.links[k] # None /\ w.link[w.links[k]].st = "open"}

Closed(w) ==
  LET after[k \in 0 .. NSlots] ==
        CASE k = 0                          -> w
          [] k # 0 /\ k \in OpenSlots(w)    -> BundCloseLink(after[k - 1], k)
          [] k # 0 /\ k \notin OpenSlots(w) -> after[k - 1]
  IN  after

\* A link whose MSG_OPEN is still queued is not open yet, and is left alone.
BundCloseLinks(w) == Closed([w EXCEPT !.reOpenTimer = FALSE])[NSlots]

----------------------------------------------------------------------------
(* Network protocols. *)

BundNcpsStart(w, n) == [w EXCEPT !.ncpstarted = @ \cup {n}]

BundNcpsFinish(w, n) ==
  LET f == [w EXCEPT !.ncpstarted = @ \ {n}]
  IN  IF f.ncpstarted = {} THEN BundCloseLinks(f) ELSE f

\* BundNcpsClose() and BundNcpsDown(): each that is started finishes.
BundNcpsDown(w) ==
  IF w.ncpstarted = {} THEN w ELSE BundCloseLinks([w EXCEPT !.ncpstarted = {}])

----------------------------------------------------------------------------
(* The life of the bundle. *)

\* Static links are let go, the others are shut down whatever they are doing; the
\* timers of the bundle are not stopped.
BundShutdown(w) ==
  LET gone == {x \in Instances : Member(w, x)}
  IN  [w EXCEPT !.dead = TRUE, !.msgs = Without(@, gone),
                !.links = [k \in Slots |-> None],
                !.n_links = @ - Cardinality(gone),
                !.link = [x \in Links |-> IF x \in gone THEN [st |-> "absent", joined |-> FALSE]
                                          ELSE w.link[x]]]

Reopens(w) == w.open /\ conf.bwmanage /\ ~conf.ondemand
              /\ (w.n_links # 0 \/ conf.linkst[1] # None)

\* A slip in BundLeave(): bandwidth management goes on without links.
LastLinkLeftManaged(w) ==
  LET d == BundNcpsDown(w) IN
  CASE Reopens(d) -> [d EXCEPT !.reOpenTimer = TRUE]
    [] ~Reopens(d) /\ d.stay -> [d EXCEPT !.open = FALSE]
    [] ~Reopens(d) /\ ~d.stay -> BundShutdown([d EXCEPT !.open = FALSE])

\* The end of BundLeave() for the last link.
LastLinkLeft(w) ==
  LET d == BundNcpsDown([w EXCEPT !.bmTimer = FALSE]) IN
  CASE Reopens(d) -> [d EXCEPT !.reOpenTimer = TRUE]
    [] ~Reopens(d) /\ d.stay -> [d EXCEPT !.open = FALSE]
    [] ~Reopens(d) /\ ~d.stay -> BundShutdown([d EXCEPT !.open = FALSE])

\* A link that a shut down bundle let go has no bundle to leave: l->bund is NULL.
BundLeave(w, x) ==
  IF ~Member(w, x) \/ w.n_up = 0 THEN [w EXCEPT !.failed = "leave"]
  ELSE LET d == [w EXCEPT !.link[x].joined = FALSE, !.n_up = @ - 1, !.n_links = @ - 1,
                          !.links[SlotOf(w, x)] = None]
       IN  IF d.n_up = 0 THEN LastLinkLeft(d) ELSE d

LeaveIfJoined(w, x) == IF w.link[x].joined THEN BundLeave(w, x) ELSE w

\* The first half of BundJoin(): a link that was not dialled takes the first slot.
TakeSlot(w, x) ==
  IF Member(w, x) THEN w
  ELSE [w EXCEPT !.links[Least({k \in Slots : w.links[k] = None})] = x, !.n_links = @ + 1]

\* LinkNgJoin() fails: the slot is freed, n_links is not decremented.
JoinFails(w, x) ==
  LET t == [TakeSlot(w, x) EXCEPT !.open = TRUE]
      d == [t EXCEPT !.links[SlotOf(t, x)] = None]
  IN  IF d.stay THEN d ELSE BundShutdown(d)

Joins(w, x) ==
  LET d == [TakeSlot(w, x) EXCEPT !.open = TRUE, !.link[x].joined = TRUE, !.n_up = @ + 1]
  IN  IF d.n_up > 1 THEN d
      ELSE [d EXCEPT !.reOpenTimer = FALSE, !.bmTimer = conf.bwmanage, !.ncpstarted = Ncps]

\* As BundCreate() or BundInst() leave it.
NewBund(stay) ==
  [open |-> FALSE, dead |-> FALSE, stay |-> stay,
   links |-> [k \in Slots |-> None], n_links |-> 0, n_up |-> 0,
   link |-> [x \in Links |-> [st |-> IF x \in Static THEN "idle" ELSE "absent",
                              joined |-> FALSE]],
   ncpstarted |-> {}, reOpenTimer |-> FALSE, bmTimer |-> FALSE,
   msgs |-> << >>, failed |-> "none"]

\* A static bundle, or an instance made for the first link that joins it.  No static
\* link is named twice.
Init ==
  /\ conf \in [linkst : [Slots -> Static \cup {Template, None}],
               bwmanage : BOOLEAN, ondemand : BOOLEAN]
  /\ \A j, k \in Slots : j # k /\ conf.linkst[j] = conf.linkst[k] => conf.linkst[j] \notin Static
  /\ \/ b = NewBund(TRUE)
     \/ \E x \in Links : b = Joins([NewBund(FALSE) EXCEPT !.link[x].st = "open"], x)
  /\ handling = FALSE /\ lost = 0

----------------------------------------------------------------------------
(* Actions. *)

Running == b.failed = "none"
Calm    == Running /\ ~handling        \* the event loop may run another callback
Room    == Len(b.msgs) < MaxMsgs

Unchanged == UNCHANGED << conf, handling, lost >>

\* LcpClose() and what follows at once.
CloseLink(w, x) ==
  IF w.link[x].st = "open" THEN [LeaveIfJoined(w, x) EXCEPT !.link[x].st = "closing"] ELSE w

\* BundMsg() and LinkMsg().
Handle(w, m) ==
  CASE m.op = "bundOpen"  -> IF w.dead THEN w ELSE BundOpenLinks([w EXCEPT !.open = TRUE])
    [] m.op = "bundClose" -> IF w.dead THEN w ELSE BundCloseLinks([w EXCEPT !.open = FALSE])
    [] m.op = "open"      -> IF w.link[m.to].st \in {"idle", "closing"}
                             THEN [w EXCEPT !.link[m.to].st = "open"] ELSE w
    [] m.op = "close"     -> CloseLink(w, m.to)
    [] m.op = "shutdown"  -> LinkShutdown(w, m.to)

\* MsgEvent() handles messages until the queue is empty before anything else runs.
MsgEvent ==
  /\ Running /\ b.msgs # << >>
  /\ b' = Handle([b EXCEPT !.msgs = Tail(@)], Head(b.msgs))
  /\ handling' = (b'.msgs # << >>)
  /\ UNCHANGED << conf, lost >>

\* Console, dial-on-demand traffic, idle timeout, signals.
BundOpen  == Calm /\ ~b.dead /\ Room /\ b' = MsgSend(b, "bundOpen", None)  /\ Unchanged
BundClose == Calm /\ ~b.dead /\ Room /\ b' = MsgSend(b, "bundClose", None) /\ Unchanged

\* The console or accounting opens or closes a link by itself.
LinkOpen(x)  ==
  Calm /\ Room /\ b.link[x].st # "absent" /\ b' = MsgSend(b, "open", x) /\ Unchanged
LinkClose(x) ==
  Calm /\ Room /\ b.link[x].st # "absent" /\ b' = MsgSend(b, "close", x) /\ Unchanged

\* A call comes in for the template.
Incoming(x) ==
  /\ Calm /\ x \in Instances /\ b.link[x].st = "absent"
  /\ b' = [b EXCEPT !.link[x].st = "open"] /\ Unchanged

\* A link enters the Network phase: it is refused before it takes a slot, or it
\* joins, or netgraph fails.
BundJoin(x) ==
  /\ Calm /\ ~b.dead /\ b.link[x].st = "open" /\ ~b.link[x].joined
  /\ Member(b, x) \/ \E k \in Slots : b.links[k] = None
  /\ \/ b' = Joins(b, x) /\ UNCHANGED lost
     \/ lost < MaxLost /\ b' = JoinFails(b, x) /\ lost' = lost + 1
  /\ UNCHANGED << conf, handling >>

\* A link leaves the Network phase but stays open: it is negotiated anew, or its
\* device is lost and will be redialled.
Leave(x) == Calm /\ Room /\ b.link[x].joined /\ b' = BundLeave(b, x) /\ Unchanged

\* A slip in LinkDown(): an instance that ends is not told to die.
EndUndead(w, x) == [LeaveIfJoined(w, x) EXCEPT !.link[x].st = "idle"]

\* LinkDown() and LinkShutdownCheck().
End(w, x) ==
  LET d == LeaveIfJoined(w, x) IN
  CASE x \in Static -> [d EXCEPT !.link[x].st = "idle"]
    [] x \in Instances /\ d.link[x].st # "absent" ->
         MsgSend([d EXCEPT !.link[x].st = "dying"], "shutdown", x)
    [] x \in Instances /\ d.link[x].st = "absent" -> d

\* A link is done: its device is down, after it was closed, or given up.
LinkDown(x) == Calm /\ Room /\ b.link[x].st \in {"open", "closing"} /\ b' = End(b, x) /\ Unchanged

\* LayerStart and LayerFinish of IPCP and IPV6CP.
NcpStart(n)  == Calm /\ ~b.dead /\ b' = BundNcpsStart(b, n) /\ Unchanged
NcpFinish(n) ==
  /\ Calm /\ ~b.dead /\ Room /\ (n \in b.ncpstarted \/ b.n_up > 0)
  /\ b' = BundNcpsFinish(b, n) /\ Unchanged

BundDestroy ==
  /\ Calm /\ ~b.dead /\ Room
  /\ b' = LET d == [b EXCEPT !.stay = FALSE]
          IN  IF d.n_up # 0 THEN MsgSend(d, "bundClose", None) ELSE BundShutdown(d)
  /\ Unchanged

\* The reopen timer: its event holds a pointer to the bundle, dead or not ("freed").
BundReOpenLinks ==
  /\ Calm /\ Room /\ b.reOpenTimer
  /\ b' = LET d == BundOpenLinks(b) IN IF d.dead THEN [d EXCEPT !.failed = "freed"] ELSE d
  /\ Unchanged

\* Traffic grew: a free slot whose link can be dialled is.
BmOpens(w) ==
  LET free == {k \in Slots : w.links[k] = None /\ conf.linkst[k] # None /\ Candidates(w, k) # {}}
  IN  IF free = {} THEN w ELSE BundCreateOpenLink(w, Least(free))

\* Traffic shrank: the last open link is closed.
BmCloses(w) ==
  IF OpenSlots(w) = {} THEN [w EXCEPT !.failed = "bm"]
  ELSE BundCloseLink(w, Greatest(OpenSlots(w)))

BundBmTimeout ==
  /\ Calm /\ b.bmTimer /\ Room
  /\ \/ ~b.dead /\ b' = BmOpens(b)
     \/ ~b.dead /\ b.n_links > 1 /\ b' = BmCloses(b)
     \/ b.dead /\ b' = [b EXCEPT !.failed = "freed"]
  /\ Unchanged

Next ==
  \/ MsgEvent \/ BundOpen \/ BundClose \/ BundDestroy \/ BundReOpenLinks \/ BundBmTimeout
  \/ \E n \in Ncps : NcpStart(n) \/ NcpFinish(n)
  \/ \E x \in Links :
       LinkOpen(x) \/ LinkClose(x) \/ Incoming(x) \/ BundJoin(x) \/ Leave(x) \/ LinkDown(x)

Spec == Init /\ [][Next]_vars

----------------------------------------------------------------------------
(* Properties. *)

AtRest == Running /\ ~b.dead /\ b.msgs = << >>

Joined  == {x \in Links : b.link[x].joined}
Members == {x \in Links : Member(b, x)}

\* The counters, which decide over opening, closing, reopening and destroying, are
\* those of the table: n_up of the links that joined, all of them open members;
\* n_links of the members, each in one slot and alive, but too high by one for
\* each failed netgraph join.
CountersMatchLinks ==
  ~b.dead =>
    /\ Joined \subseteq Members /\ b.n_up = Cardinality(Joined)
    /\ b.n_links = Cardinality(Members) + lost
    /\ \A x \in Joined : b.link[x].st = "open"
    /\ \A x \in Members : b.link[x].st # "absent"
    /\ \A j, k \in Slots : j # k /\ b.links[j] = b.links[k] => b.links[j] = None

\* Bandwidth management runs exactly while a link is up; the reopen timer runs only for
\* a bundle that should be open and has lost its last link, never besides a link.
TimersMatch ==
  ~b.dead =>
    /\ b.bmTimer <=> conf.bwmanage /\ b.n_up > 0
    /\ b.reOpenTimer => b.open /\ b.n_up = 0 /\ conf.bwmanage /\ ~conf.ondemand

\* What decides over opening, closing, reopening and destroying is never stale: the
\* counters, and the timers that stand for them.
DecisionsAreCurrent == CountersMatchLinks /\ TimersMatch

\* The assertions of BundLeave() and BundBmTimeout() hold, as long as netgraph does not
\* fail to join a link (then a static link may be left joined to no bundle).
AssertionsHold == b.failed # "bm" /\ (lost = 0 => b.failed # "leave")

\* At rest an instance occupies a slot of the bundle only while it is dialled, up or
\* closing: with bandwidth management an idle one would keep the bundle from dialling
\* again for ever.
InstancesVacateSlots ==
  AtRest => \A x \in Members \cap Instances : b.link[x].st \in {"open", "closing"}

=============================================================================
