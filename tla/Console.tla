------------------------------ MODULE Console ------------------------------
(***************************************************************************)
(* Who holds a link or a bundle, and until when.  The objects live in      *)
(* memory that is counted (REF and UNREF of ppp.h): the tables gLinks and  *)
(* gBundles hold one reference, each queued message another, and so does   *)
(* each context that has chosen the object: of a console session, of a web *)
(* request, of the configuration file at start.  Commands create, choose,  *)
(* open, close and destroy; messages, devices and LCP do the rest.         *)
(*                                                                         *)
(* A line, a web request or a "load" runs its commands with gGiantMutex    *)
(* held: nothing happens in between.  A bundle has one slot for links, and *)
(* LCP and the device are coarse (Bund and Link have the details).         *)
(***************************************************************************)
EXTENDS Integers, FiniteSets, Sequences

CONSTANTS
  LinkMem, BundMem, \* bound: memory for links and for bundles
  Sessions,         \* bound: console sessions at a time
  Web,              \* the context of a web request
  None, Freed,
  Privileges,       \* of the users: 2 of an administrator, 1 of an operator, 0
  Kinds,            \* bound: of links and bundles that commands make
  GMaxChildren,     \* gMaxChildren
  MaxChildren,      \* bound: gChildren when a command makes a link
  MaxUp,            \* bound: links a bundle counts when one more joins
  MaxCommands,      \* bound: commands of a request or a file
  MaxMsgs           \* bound: only messages are handled with as many in the queue

VARIABLES
  w,        \* memory, tables, contexts, and messages
  session,  \* the state of each console session
  batch,    \* the context whose commands run, how many may follow
  handling  \* MsgEvent() is emptying the message queue

vars == << w, session, batch, handling >>

Mem       == LinkMem \cup BundMem
Contexts  == Sessions \cup {Web}
LinkSlots == 1 .. Cardinality(LinkMem)
BundSlots == 1 .. Cardinality(BundMem)

\* starting and up: OPEN_STATE() without and with the device; closing: neither open
\* nor Initial.
LcpStates == {"initial", "starting", "up", "closing"}

\* "cut" and "robbed" are history, for the properties: a link that another bundle took
\* from the one it was in, and that bundle.
Links ==
  [refs : Nat, dead : BOOLEAN, id : LinkSlots, tmpl : BOOLEAN, stay : BOOLEAN, die : BOOLEAN,
   lcp : LcpStates, busy : BOOLEAN, bund : BundMem \cup {None}, joined : BOOLEAN,
   parent : LinkSlots \cup {0}, children : Nat, cut : BOOLEAN]

Bundles ==
  [refs : Nat, dead : BOOLEAN, id : BundSlots, tmpl : BOOLEAN, stay : BOOLEAN,
   link : LinkMem \cup {None}, n_up : Nat, robbed : BOOLEAN]

ASSUME ConsoleAssumption ==
  /\ IsFiniteSet(LinkMem) /\ IsFiniteSet(BundMem) /\ LinkMem \cap BundMem = {}
  /\ IsFiniteSet(Sessions) /\ None \notin Mem \cup Contexts /\ Freed \notin Links \cup Bundles
  /\ Privileges \subseteq 0 .. 2 /\ Kinds \subseteq {"template", "static", "temporary"}
  /\ GMaxChildren \in Nat /\ MaxChildren \in Nat /\ MaxUp \in Nat
  /\ MaxCommands \in Nat \ {0} /\ MaxMsgs \in Nat

Messages ==
  [op : {"open", "close", "shutdown", "physOpen", "physClose"}, to : LinkMem] \cup
  [op : {"bundOpen", "bundClose"}, to : BundMem]

TypeOK ==
  /\ w.mem \in [Mem -> Links \cup Bundles \cup {Freed}]
  /\ w.gLinks \in [LinkSlots -> LinkMem \cup {None}]
  /\ w.gBundles \in [BundSlots -> BundMem \cup {None}]
  /\ w.ctx \in [Contexts -> [lnk : LinkMem \cup {None}, bund : BundMem \cup {None}, priv : 0 .. 2]]
  /\ w.msgs \in Seq(Messages) /\ w.gChildren \in Nat
  /\ w.failed \in {"none", "assert", "freed", "again", "slot"}
  /\ session \in [Sessions -> {"none", "authentic"}]
  /\ batch \in [who : Contexts \cup {None}, left : 0 .. MaxCommands]
  /\ handling \in BOOLEAN

----------------------------------------------------------------------------
(* References and messages.  The program ends where one is broken. *)

\* What is left of a link or a bundle that has been shut down.
Gone(v, x) == v.mem[x] = Freed \/ v.mem[x].dead

Fail(v, how) == IF v.failed = "none" THEN [v EXCEPT !.failed = how] ELSE v

Ref(v, x) ==
  IF v.mem[x] = Freed THEN Fail(v, "freed") ELSE [v EXCEPT !.mem[x].refs = @ + 1]

Unref(v, x) ==
  CASE v.mem[x] = Freed -> Fail(v, "freed")
    [] v.mem[x] # Freed /\ v.mem[x].refs = 1 -> [v EXCEPT !.mem[x] = Freed]
    [] v.mem[x] # Freed /\ v.mem[x].refs # 1 -> [v EXCEPT !.mem[x].refs = @ - 1]

\* RESETREF() of one member of a context.
ResetRef(v, c, member, x) ==
  LET d == IF v.ctx[c][member] = None THEN v ELSE Unref(v, v.ctx[c][member])
      e == [d EXCEPT !.ctx[c][member] = x]
  IN  IF x = None THEN e ELSE Ref(e, x)

Choose(v, c, l, b) == ResetRef(ResetRef(v, c, "lnk", l), c, "bund", b)

\* The handlers of a dead object are unregistered, which MsgSend() asserts they are not.
MsgSend(v, op, x) ==
  IF Gone(v, x) THEN Fail(v, "assert")
  ELSE Ref([v EXCEPT !.msgs = Append(@, [op |-> op, to |-> x])], x)

Listed(table) == {table[k] : k \in DOMAIN table} \ {None}
LiveLinks(v)  == Listed(v.gLinks)
LiveBundles(v) == Listed(v.gBundles)

\* Memory for a new object.  Where a slot still sees a link that was freed, reading it
\* is undefined and ends the program: what may come to lie there is left out.
Unused(v, mem) ==
  {x \in mem : v.mem[x] = Freed /\ \A b \in LiveBundles(v) : v.mem[b].link # x}
FreeSlot(table) ==
  CHOOSE k \in DOMAIN table : table[k] = None /\ \A j \in DOMAIN table : table[j] = None => k <= j

----------------------------------------------------------------------------
(* Links. *)

Open(v, x) == v.mem[x].lcp \in {"starting", "up"}

PhysIsBusy(v, x) ==
  \/ v.mem[x].die \/ v.mem[x].busy \/ v.mem[x].lcp # "initial"
  \/ v.mem[x].tmpl /\ v.gChildren >= GMaxChildren

LinkShutdownCheck(v, x) ==
  LET l == v.mem[x]
  IN  IF l.lcp = "initial" /\ l.die /\ ~l.stay /\ ~l.busy THEN MsgSend(v, "shutdown", x) ELSE v

\* The parts of LinkShutdown(): divorce, the parent, the orphans, the table.
Divorce(v, x) ==
  LET b == v.mem[x].bund
  IN  IF b = None THEN v ELSE [v EXCEPT !.mem[b].link = None, !.mem[x].bund = None]

LeaveParent(v, x) ==
  LET k == v.mem[x].parent
  IN  CASE k = 0 -> v
        [] k # 0 /\ v.gLinks[k] = None -> Fail(v, "freed")
        [] k # 0 /\ v.gLinks[k] # None ->
             [v EXCEPT !.gChildren = @ - 1, !.mem[v.gLinks[k]].children = @ - 1]

\* gChildren is not told of them.
Orphan(v, x) ==
  LET mine == {y \in LiveLinks(v) : v.mem[y].parent = v.mem[x].id}
  IN  IF v.mem[x].children = 0 THEN v
      ELSE [v EXCEPT !.mem = [y \in Mem |-> IF y \in mine THEN [v.mem[y] EXCEPT !.parent = 0] ELSE v.mem[y]]]

NewLink(k, tmpl, stay) ==
  [refs |-> 1, dead |-> FALSE, id |-> k, tmpl |-> tmpl, stay |-> stay, die |-> FALSE,
   lcp |-> "initial", busy |-> FALSE, bund |-> None, joined |-> FALSE,
   parent |-> 0, children |-> 0, cut |-> FALSE]

\* What a dead link remembers besides its references and the state of its LCP decides
\* nothing any more.
LinkShutdown(v, x) ==
  IF v.mem[x].dead THEN Fail(v, "again")
  ELSE LET d == [Divorce(v, x) EXCEPT !.gLinks[v.mem[x].id] = None]
           e == Orphan(LeaveParent(d, x), x)
       IN  Unref([e EXCEPT !.mem[x] =
                    [NewLink(1, FALSE, FALSE) EXCEPT
                       !.refs = v.mem[x].refs, !.dead = TRUE, !.lcp = v.mem[x].lcp]], x)

Enlist(v, x, tmpl, stay) ==
  LET k == FreeSlot(v.gLinks)
  IN  [v EXCEPT !.gLinks[k] = x, !.mem[x] = NewLink(k, tmpl, stay)]

\* A link made from template t, at address x.
LinkInst(v, x, t, tmpl, stay) ==
  [Enlist(v, x, tmpl, stay) EXCEPT
     !.mem[x].parent = v.mem[t].id, !.mem[t].children = @ + 1, !.gChildren = @ + 1]

LinkOpen(v, x)  == MsgSend(v, "open", x)
LinkClose(v, x) == MsgSend(v, "close", x)
PhysOpen(v, x)  == MsgSend(v, "physOpen", x)
PhysClose(v, x) == MsgSend(v, "physClose", x)

----------------------------------------------------------------------------
(* Bundles. *)

NewBund(k, tmpl, stay) ==
  [refs |-> 1, dead |-> FALSE, id |-> k, tmpl |-> tmpl, stay |-> stay,
   link |-> None, n_up |-> 0, robbed |-> FALSE]

\* A bundle that had link x so far, other than b, is not told that b takes it.
Rob(v, x, b) ==
  LET c == v.mem[x].bund
  IN  IF c \in {b, None} THEN v ELSE [v EXCEPT !.mem[c].robbed = TRUE, !.mem[x].cut = TRUE]

\* A slip in BundShutdown(): the permanent link keeps its bundle.
DismissOneSided(v, b, x) == [Rob(v, x, b) EXCEPT !.mem[b].link = None]

\* Bundle b parts with a link that stays, though it may be the link of another by now.
Dismiss(v, b, x) == [Rob(v, x, b) EXCEPT !.mem[b].link = None, !.mem[x].bund = None]

\* A bundle that is shut down shuts the link in its slot down too, whatever it is doing
\* and whosever it is by now, unless the link is permanent.
BundShutdown(v, b) ==
  LET x    == v.mem[b].link
      lost == x # None /\ Gone(v, x)
      d == CASE x = None -> v
             [] x # None /\ v.mem[x].stay  -> Dismiss(v, b, x)
             [] x # None /\ ~v.mem[x].stay -> LinkShutdown(Rob(v, x, b), x)
  IN  CASE v.mem[b].dead -> Fail(v, "again")
        [] ~v.mem[b].dead /\ lost -> Fail(v, "slot")
        [] ~v.mem[b].dead /\ ~lost ->
             Unref([d EXCEPT !.gBundles[v.mem[b].id] = None, !.mem[b] =
                      [NewBund(1, FALSE, FALSE) EXCEPT !.refs = v.mem[b].refs, !.dead = TRUE]], b)

\* A bundle at address b, from nothing or from a template.
BundInst(v, b, tmpl, stay) ==
  LET k == FreeSlot(v.gBundles)
  IN  [v EXCEPT !.gBundles[k] = b, !.mem[b] = NewBund(k, tmpl, stay)]

BundOpen(v, b)  == MsgSend(v, "bundOpen", b)
BundClose(v, b) == MsgSend(v, "bundClose", b)

\* The link may be in the slot of another bundle.
Marry(v, b, x) ==
  [Rob(v, x, b) EXCEPT !.mem[b].link = x, !.mem[x] = [@ EXCEPT !.bund = b, !.cut = FALSE]]

Joins(v, b, x) == [Marry(v, b, x) EXCEPT !.mem[x].joined = TRUE, !.mem[b].n_up = @ + 1]

BundLeave(v, x) ==
  LET b == v.mem[x].bund
      d == [Divorce(v, x) EXCEPT !.mem[x].joined = FALSE, !.mem[b].n_up = @ - 1]
  IN  CASE b = None -> Fail(v, "slot")
        [] b # None /\ d.mem[b].n_up = 0 /\ ~d.mem[b].stay -> BundShutdown(d, b)
        [] b # None /\ ~(d.mem[b].n_up = 0 /\ ~d.mem[b].stay) -> d

LeaveIfJoined(v, x) == IF v.mem[x].joined THEN BundLeave(v, x) ELSE v

\* "logs": the name of the link's bundle is written to the log.
Nameless(v, x, logs) == logs /\ v.mem[x].bund = None

\* The link in the slot, or t, which the slot names, or a new one at address y if t is a
\* template.
BundOpenLinks(v, b, t, y, logs) ==
  LET x == v.mem[b].link IN
  CASE x # None -> IF Gone(v, x) \/ Nameless(v, x, logs) THEN Fail(v, "slot") ELSE LinkOpen(v, x)
    [] x = None /\ t = None -> v
    [] x = None /\ t # None ->
         IF v.mem[t].tmpl THEN LinkOpen(Marry(LinkInst(v, y, t, FALSE, FALSE), b, y), y)
         ELSE LinkOpen(Marry(v, b, t), t)

BundCloseLinks(v, b, logs) ==
  LET x == v.mem[b].link IN
  CASE x = None -> v
    [] x # None /\ v.mem[x] = Freed -> Fail(v, "slot")
    [] x # None /\ v.mem[x] # Freed ->
         CASE ~Open(v, x) -> v
           [] Open(v, x) /\ (Gone(v, x) \/ Nameless(v, x, logs)) -> Fail(v, "slot")
           [] Open(v, x) /\ ~(Gone(v, x) \/ Nameless(v, x, logs)) -> LinkClose(v, x)

\* What a slot may name: a link that is there and not busy, or nothing to be dialled.  A
\* link that is down but in the slot of another bundle is not busy.
Dialled(v) ==
  {None} \cup {t \in LiveLinks(v) : ~PhysIsBusy(v, t) /\ (v.mem[t].tmpl => Unused(v, LinkMem) # {})}

----------------------------------------------------------------------------
(* LCP and the device, as far as the life of the link depends on them. *)

LcpState(v, x, s) == LinkShutdownCheck([v EXCEPT !.mem[x].lcp = s], x)

LcpOpen(v, x) ==
  CASE v.mem[x].lcp = "initial" -> PhysOpen(LcpState(v, x, "starting"), x)
    [] v.mem[x].lcp = "closing" -> LcpState(v, x, "up")
    [] Open(v, x) -> v

LcpClose(v, x) ==
  CASE v.mem[x].lcp = "starting" -> PhysClose(LcpState(v, x, "initial"), x)
    [] v.mem[x].lcp = "up" -> LcpState(LeaveIfJoined(v, x), x, "closing")
    [] ~Open(v, x) -> v

\* "midway": in Closing, which tells the device again, or in Stopped, which starts again.
LcpDown(v, x, midway) ==
  CASE v.mem[x].lcp = "closing" ->
         LcpState(IF midway THEN PhysClose(v, x) ELSE v, x, "initial")
    [] v.mem[x].lcp = "up" ->
         LET d == LcpState(LeaveIfJoined(v, x), x, "starting")
         IN  IF midway THEN PhysOpen(d, x) ELSE d
    [] v.mem[x].lcp \in {"initial", "starting"} -> v

\* conf.max_redial is -1: give up at once.
LinkDown(v, x, midway) ==
  LET d == [v EXCEPT !.mem[x].die = @ \/ ~v.mem[x].stay]
  IN  LcpDown(IF Open(d, x) THEN LcpClose(d, x) ELSE d, x, midway)

PhysDown(v, x, midway) ==
  LinkShutdownCheck(LinkDown([v EXCEPT !.mem[x].busy = FALSE], x, midway), x)

----------------------------------------------------------------------------
(* Messages. *)

\* LinkMsg() and PhysMsg(); "now": the device is down before its close returns.
Deliver(v, m, now, midway) ==
  CASE m.op = "open"      -> LcpOpen(v, m.to)
    [] m.op = "close"     -> LcpClose(v, m.to)
    [] m.op = "shutdown"  -> LinkShutdown(v, m.to)
    [] m.op = "physOpen"  -> [v EXCEPT !.mem[m.to].busy = TRUE]
    [] m.op = "physClose" -> IF now /\ v.mem[m.to].busy THEN PhysDown(v, m.to, midway) ELSE v

\* A slip in LinkMsg(): a message for a dead link is handled all the same.
LinkMsgToTheDead(v, m, now, midway) == Unref(Deliver(v, m, now, midway), m.to)

LinkMsg(v, m, now, midway) ==
  Unref(IF v.mem[m.to].dead THEN v ELSE Deliver(v, m, now, midway), m.to)

BundMsg(v, m, t, y, logs) ==
  Unref(CASE v.mem[m.to].dead -> v
          [] ~v.mem[m.to].dead /\ m.op = "bundOpen"  -> BundOpenLinks(v, m.to, t, y, logs)
          [] ~v.mem[m.to].dead /\ m.op = "bundClose" -> BundCloseLinks(v, m.to, logs), m.to)

----------------------------------------------------------------------------
(* Commands: the state after each, for context c. *)

NoBatch == [who |-> None, left |-> 0]

Init ==
  /\ w = [mem |-> [x \in Mem |-> Freed], gLinks |-> [k \in LinkSlots |-> None],
          gBundles |-> [k \in BundSlots |-> None],
          ctx |-> [c \in Contexts |-> [lnk |-> None, bund |-> None, priv |-> 0]],
          msgs |-> << >>, gChildren |-> 0, failed |-> "none"]
  /\ session = [s \in Sessions |-> "none"]
  /\ batch = NoBatch
  /\ handling = FALSE

\* "link", "session" and "authname" find a link in different ways.
LinkCommand(v, c, l) == Choose(v, c, l, v.mem[l].bund)

\* "bundle", "msession" and "iface" do so for a bundle; the link follows if it must.
BundCommand(v, c, b) ==
  LET d == ResetRef(v, c, "bund", b)
      l == d.ctx[c].lnk
      x == d.mem[b].link
  IN  CASE l # None /\ d.mem[l].bund = b -> d
        [] ~(l # None /\ d.mem[l].bund = b) /\ x # None /\ d.mem[x] = Freed -> Fail(d, "slot")
        [] ~(l # None /\ d.mem[l].bund = b) /\ ~(x # None /\ d.mem[x] = Freed) ->
             ResetRef(d, c, "lnk", x)

LinkCreate(v, c, x, t, tmpl, stay) ==
  LET d == Choose(v, c, None, None)
      e == IF t = None THEN Enlist(d, x, tmpl, stay) ELSE LinkInst(d, x, t, tmpl, stay)
  IN  ResetRef(e, c, "lnk", x)

\* A dead link whose LCP is open would run on, with its timers.
LinkDestroy(v, x) ==
  LET d == [v EXCEPT !.mem[x].tmpl = FALSE, !.mem[x].stay = FALSE] IN
  CASE v.mem[x].tmpl -> LinkShutdown(d, x)
    [] ~v.mem[x].tmpl /\ Open(v, x) -> IF v.mem[x].dead THEN Fail(v, "again") ELSE LcpClose(d, x)
    [] ~v.mem[x].tmpl /\ ~Open(v, x) -> LinkShutdownCheck([d EXCEPT !.mem[x].die = TRUE], x)

BundCreate(v, c, b, tmpl, stay) ==
  ResetRef(BundInst(Choose(v, c, None, None), b, tmpl, stay), c, "bund", b)

BundDestroy(v, b) ==
  LET d == [v EXCEPT !.mem[b].tmpl = FALSE, !.mem[b].stay = FALSE]
  IN  IF ~v.mem[b].tmpl /\ v.mem[b].n_up # 0 THEN BundClose(d, b) ELSE BundShutdown(d, b)
----------------------------------------------------------------------------
(* Actions: sessions and batches of commands. *)

Running == w.failed = "none"
Idle    == Running /\ batch.who = None /\ ~handling
Room    == Len(w.msgs) < MaxMsgs

Fresh(mem) == CHOOSE x \in Unused(w, mem) : TRUE

\* A session that has logged in, if it must; its privilege is that of the user.
ConsoleConnect(s) ==
  /\ Idle /\ session[s] = "none" /\ session' = [session EXCEPT ![s] = "authentic"]
  /\ \E p \in Privileges : w' = [w EXCEPT !.ctx[s].priv = p]
  /\ UNCHANGED << batch, handling >>

\* A slip in ConsoleSessionReadEvent(): the dead are forgotten, not let go.
DropDeadForgets(v, c, member) ==
  LET x == v.ctx[c][member]
  IN  IF x # None /\ v.mem[x].dead THEN [v EXCEPT !.ctx[c][member] = None] ELSE v

DropDead(v, c, member) ==
  LET x == v.ctx[c][member] IN
  CASE x = None -> v
    [] x # None /\ v.mem[x] = Freed -> Fail(v, "freed")
    [] x # None /\ v.mem[x] # Freed -> IF v.mem[x].dead THEN ResetRef(v, c, member, None) ELSE v

\* Each key lets go of what has died since the last one; at the end of a line there is
\* a command to run.
Line(s) ==
  /\ Idle /\ Room /\ session[s] = "authentic"
  /\ w' = DropDead(DropDead(w, s, "lnk"), s, "bund")
  /\ batch' = [who |-> s, left |-> 1] /\ UNCHANGED << session, handling >>

\* With the privilege of the user, or 0 if requests need no password.
WebServletRun ==
  /\ Idle /\ Room /\ \E p \in Privileges : w' = [w EXCEPT !.ctx[Web].priv = p]
  /\ batch' = [who |-> Web, left |-> MaxCommands]
  /\ UNCHANGED << session, handling >>

LetGo(v, c) == [Choose(v, c, None, None) EXCEPT !.ctx[c].priv = 0]

\* The end of the request, or of a line or a file with no command left that does anything.
Return ==
  /\ Running /\ batch.who # None
  /\ w' = IF batch.who = Web THEN LetGo(w, Web) ELSE w
  /\ batch' = NoBatch /\ UNCHANGED << session, handling >>

\* The line was "exit", or the peer of a console goes away.
Disconnect(s) ==
  /\ Idle /\ session[s] # "none"
  /\ w' = LetGo(w, s) /\ session' = [session EXCEPT ![s] = "none"]
  /\ UNCHANGED << batch, handling >>

\* DoCommandTab(): a command that needs privilege p and leads to state v.  After the last
\* one of a line the console waits again.
Do(p, v) ==
  /\ batch.left > 0 /\ Running /\ w.ctx[batch.who].priv >= p /\ w' = v
  /\ batch' = IF batch.who # Web /\ batch.left = 1 /\ v.failed = "none" THEN NoBatch
              ELSE [batch EXCEPT !.left = @ - 1]
  /\ UNCHANGED << session, handling >>

Select ==
  /\ batch.left > 0
  /\ \/ Do(0, Choose(w, batch.who, None, None))   \* there is none of that name
     \/ \E l \in LiveLinks(w) : Do(0, LinkCommand(w, batch.who, l))
     \/ \E b \in LiveBundles(w) : Do(0, BundCommand(w, batch.who, b))

\* "create link": a link, a permanent link or a template, of a type or from a template.
CreateLink ==
  /\ batch.left > 0 /\ Running /\ Unused(w, LinkMem) # {} /\ w.gChildren < MaxChildren
  /\ \E t \in {None} \cup {x \in LiveLinks(w) : w.mem[x].tmpl}, k \in Kinds :
       Do(2, LinkCreate(w, batch.who, Fresh(LinkMem), t, k = "template", k # "temporary"))

CreateBundle ==
  /\ batch.left > 0 /\ Running /\ Unused(w, BundMem) # {}
  /\ \E k \in Kinds :
       Do(2, BundCreate(w, batch.who, Fresh(BundMem), k = "template", k # "temporary"))

\* By name, or what the context has chosen, dead or not.
DestroyLink ==
  /\ batch.left > 0 /\ Running /\ Room
  /\ \E l \in LiveLinks(w) \cup ({w.ctx[batch.who].lnk} \ {None}) : Do(2, LinkDestroy(w, l))

DestroyBundle ==
  /\ batch.left > 0 /\ Running /\ Room
  /\ \E b \in LiveBundles(w) \cup ({w.ctx[batch.who].bund} \ {None}) : Do(2, BundDestroy(w, b))

\* "open" and "close" of the layers link, device and bund.
OpenCommand ==
  /\ batch.left > 0 /\ Running /\ Room
  /\ LET c == w.ctx[batch.who] IN
     \/ /\ c.lnk # None /\ ~w.mem[c.lnk].tmpl
        /\ Do(1, LinkOpen(w, c.lnk)) \/ Do(1, PhysOpen(w, c.lnk))
     \/ c.bund # None /\ ~w.mem[c.bund].tmpl /\ Do(1, BundOpen(w, c.bund))

CloseCommand ==
  /\ batch.left > 0 /\ Running /\ Room
  /\ LET c == w.ctx[batch.who] IN
     \/ /\ c.lnk # None /\ ~w.mem[c.lnk].tmpl
        /\ Do(1, LinkClose(w, c.lnk)) \/ Do(1, PhysClose(w, c.lnk))
     \/ c.bund # None /\ ~w.mem[c.bund].tmpl /\ Do(1, BundClose(w, c.bund))

\* The lines of a file run in the context of the command; in the end, at most 20 deep,
\* they are some commands more.
LoadCommand ==
  /\ Running /\ batch.who \in Sessions /\ batch.left = 1 /\ MaxCommands > 1
  /\ batch' = [batch EXCEPT !.left = MaxCommands] /\ UNCHANGED << w, session, handling >>

Command ==
  Select \/ CreateLink \/ CreateBundle \/ DestroyLink \/ DestroyBundle
  \/ OpenCommand \/ CloseCommand \/ LoadCommand

----------------------------------------------------------------------------
(* Actions: messages, devices and LCP. *)

\* Messages are handled until there are no more, before anything else happens.
MsgEvent ==
  /\ Running /\ batch.who = None /\ w.msgs # << >>
  /\ LET m == Head(w.msgs)
         v == [w EXCEPT !.msgs = Tail(@)]
     IN  \/ /\ m.to \in LinkMem
            /\ \E now, midway \in BOOLEAN : w' = LinkMsg(v, m, now, midway)
         \/ /\ m.to \in BundMem
            /\ \E t \in Dialled(v), logs \in BOOLEAN :
                 w' = BundMsg(v, m, t, IF t = None THEN None ELSE Fresh(LinkMem), logs)
  /\ handling' = (w'.msgs # << >>) /\ UNCHANGED << session, batch >>

Happens(v) == Idle /\ Room /\ w' = v /\ UNCHANGED << session, batch, handling >>

PhysUp(x) ==
  /\ w.mem[x].busy /\ w.mem[x].lcp \in {"initial", "starting"}
  /\ Happens([w EXCEPT !.mem[x].lcp = IF @ = "initial" THEN "closing" ELSE "up"])

DeviceLost(x) ==
  w.mem[x].busy /\ \E midway \in BOOLEAN : Happens(PhysDown(w, x, midway))

\* A call for a link that waits for it, or for a template, which makes a link for it.
PhysIncoming(x) ==
  /\ ~PhysIsBusy(w, x)
  /\ \/ ~w.mem[x].tmpl /\ Happens(LinkOpen([w EXCEPT !.mem[x].busy = TRUE], x))
     \/ /\ w.mem[x].tmpl /\ Unused(w, LinkMem) # {}
        /\ LET y == Fresh(LinkMem) IN
           Happens(LinkOpen([LinkInst(w, y, x, FALSE, FALSE) EXCEPT !.mem[y].busy = TRUE], y))

\* LCP ends or gives up; open, it waits for the peer to begin again.
LcpLayerFinish(x) ==
  /\ w.mem[x].lcp \in {"up", "closing"} /\ Happens(PhysClose(LeaveIfJoined(w, x), x))

\* The link joins the bundle that dialled it, one that is free, or a new instance.
BundJoin(x) ==
  /\ w.mem[x].lcp = "up" /\ ~w.mem[x].joined
  /\ LET b == w.mem[x].bund IN
     \/ b # None /\ w.mem[b].n_up <= MaxUp /\ Happens(Joins(w, b, x))
     \/ /\ b = None
        /\ \E f \in LiveBundles(w) :
             /\ ~w.mem[f].tmpl /\ w.mem[f].link = None /\ w.mem[f].n_up <= MaxUp
             /\ Happens(Joins(w, f, x))
     \/ /\ b = None /\ Unused(w, BundMem) # {}
        /\ \E t \in LiveBundles(w) :
             /\ w.mem[t].tmpl
             /\ LET y == Fresh(BundMem)
                IN  Happens(Joins(BundInst(w, y, FALSE, FALSE), y, x))

Next ==
  \/ Command \/ Return \/ WebServletRun \/ MsgEvent
  \/ \E s \in Sessions : ConsoleConnect(s) \/ Line(s) \/ Disconnect(s)
  \/ \E x \in LiveLinks(w) :
       PhysUp(x) \/ DeviceLost(x) \/ PhysIncoming(x) \/ LcpLayerFinish(x) \/ BundJoin(x)

Spec == Init /\ [][Next]_vars

----------------------------------------------------------------------------
(* Properties. *)

Holders(x) ==
  Cardinality({k \in LinkSlots : w.gLinks[k] = x}) + Cardinality({k \in BundSlots : w.gBundles[k] = x})
  + Cardinality({c \in Contexts : w.ctx[c].lnk = x}) + Cardinality({c \in Contexts : w.ctx[c].bund = x})
  + Cardinality({i \in 1 .. Len(w.msgs) : w.msgs[i].to = x})

\* Each object is counted once by each of its holders and by nothing else, so that it
\* is freed with the last of them, no sooner and no later: REF(), UNREF() and RESETREF()
\* of link.c, bund.c, phys.c, console.c and web.c.
RefsAreHolders ==
  Running => \A x \in Mem : Holders(x) = IF w.mem[x] = Freed THEN 0 ELSE w.mem[x].refs

Living == {x \in Mem : w.mem[x] # Freed /\ ~w.mem[x].dead}
Kin(k) == {x \in LiveLinks(w) : w.mem[x].parent = k}

\* gLinks and gBundles list the living, each where its id says.  The bundle of a link is
\* there and has it in its slot, and counts it if it has joined.  A bundle whose slot
\* names a link has that link, and counts no other, except a bundle whose link has been
\* taken: by another bundle that dialled it (BundCreateOpenLink() asks only whether the
\* link is busy), or by that other one when it is shut down (BundShutdown()).  A parent is
\* there and counts its children; gChildren counts no less than there are.
TablesAreCurrent ==
  Running =>
    /\ Living = LiveLinks(w) \cup LiveBundles(w)
    /\ \A x \in LiveLinks(w) :
         /\ w.gLinks[w.mem[x].id] = x
         /\ w.mem[x].bund # None =>
              /\ w.mem[x].bund \in LiveBundles(w) /\ w.mem[w.mem[x].bund].link = x
              /\ w.mem[x].joined => w.mem[w.mem[x].bund].n_up >= 1
         /\ w.mem[x].joined => w.mem[x].lcp = "up" /\ (w.mem[x].bund # None \/ w.mem[x].cut)
         /\ w.mem[x].parent # 0 => w.gLinks[w.mem[x].parent] # None
         /\ w.mem[x].children = Cardinality(Kin(w.mem[x].id))
    /\ \A b \in LiveBundles(w) :
         /\ w.gBundles[w.mem[b].id] = b
         /\ ~w.mem[b].robbed =>
              LET x == w.mem[b].link IN
              /\ x # None => x \in LiveLinks(w) /\ w.mem[x].bund = b
              /\ w.mem[b].n_up = IF x # None /\ w.mem[x].joined THEN 1 ELSE 0
    /\ w.gChildren >= Cardinality(LiveLinks(w) \ Kin(0))

\* The assertion of MsgSend() fails, an object is shut down again or read after it was
\* freed, only in a request, a line or a file that goes on with what its context names
\* although it is dead, never from a message, a device or LCP, except through a slot:
\* where a bundle opens, closes or shuts down the link it names, or a link leaves its
\* bundle, this takes a link that two bundles have dialled before.
FailsOnlyOnTheDead ==
  ~Running =>
    IF w.failed = "slot"
    THEN \/ \E x \in LinkMem : w.mem[x] # Freed /\ w.mem[x].cut
         \/ \E b \in BundMem : w.mem[b] # Freed /\ w.mem[b].robbed
    ELSE \E c \in Contexts \cap {batch.who} : \E x \in {w.ctx[c].lnk, w.ctx[c].bund} \ {None} :
           w.mem[x] = Freed \/ w.mem[x].dead

=============================================================================
