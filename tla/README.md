# mpd: models, checks and proofs

This directory holds a TLA+ development of mpd, the netgraph multi-link PPP
daemon in this repository. It models the parts of the daemon whose correctness
depends on the *order* of events: the control-protocol automaton, the message
queue, links, bundles and interfaces, authentication and accounting, the control
connections of PPTP and L2TP, the repeater with its devices, the event loop, the
threads of the back ends, the frames that are compressed and encrypted on their
way, and the commands that create and destroy links and bundles. TLC checks the models on small instances; TLAPS proves what is
marked below as proved for every value of the constants.

Paths below are relative to the daemon's directory `src/src/` unless they begin
with `docs/`.

## 1. The system

mpd is one process with one event loop. Callbacks (timers, file descriptors,
console commands, netgraph messages) run one at a time under `gGiantMutex`.
Only authentication and accounting back ends run in other threads
(`paction.c`), without that mutex; their results come back in a *finisher* that
holds it. Objects talk in two ways: by **direct calls**, which nest deeply and
come back to their caller in the middle of a state change, and by **messages**
(`MsgSend()`), which `MsgEvent()` hands over after the current callback, all of
them before any other callback runs. Almost every hard behaviour of mpd is in
the mixture of the two.

    console, web, signals       dial-on-demand traffic, idle timeout
            |                              |
            v                              v
    bund.c  <---- joins, leaves ----  lcp.c phases  <----  auth.c ==> threads
      |  ^                               ^   |                       (paction.c)
      |  | NCP start/finish              |   | LayerStart/LayerFinish
      v  |                               |   v
    ipcp.c, ipv6cp.c, ccp.c, ecp.c     link.c  -- msg.c -->  phys.c  --> rep.c
      |     \_______ fsm.c ________/                            |
      v                                          pppoe.c, tcp.c, udp.c, modem.c,
    iface.c                                l2tp.c + l2tp_ctrl.c, pptp.c + pptp_ctrl.c

| Component | State it keeps | Operations | Hard behaviour | What makes it correct |
|---|---|---|---|---|
| Automaton (`fsm.c`) | state, request id, three counters, restart and keep-alive timers | Open, Close, Up, Down, Failure, Timeout, each packet | late and crossed packets, counters on many paths, `FsmFailure()` called back from a layer method | no waiting state without a timer; the layers around are told Up/Down and Start/Finish in step; negotiations and terminations end; two open ends agree |
| Message queue (`msg.c`) | ring, two indices, wake-up flag, pipe | send (also from a handler), wake-up, handle | wrap-around, sends during handling, a full ring | a FIFO: once, in order, none forgotten; a full ring ends the process |
| Event loop (`event.c`, `timer.c`, `pevent.c`) | events in a list, each with references and flags, the handle of each in some object, `gGiantMutex` | register, unregister, poll, service, execute | an event is unregistered, and its object freed, while the loop has it in its hands; one is registered while the loop sleeps | nothing gone is touched; the loop never sleeps over what it was not told |
| Link (`link.c`, `phys.c`) | LCP, phase, device, redial timer and counter, `stay`, `die`, `dead` | open, close, redial, incoming call, destroy, shutdown | redial timer versus open/close/destroy; shutdown when the last of five conditions turns true | wanted links are dialled, unwanted devices released, dying links disappear and leave nothing behind |
| LCP phases (`lcp.c`) | phase | `LcpNewState()`, `LcpNewPhase()`, layer methods | a phase change that calls `FsmFailure()` before the new state is set | phase and state agree; the asserted phase changes are the only ones |
| PPPoE device (`pppoe.c`) | Down, Connecting, Ready, Up | open, close, connect, lose, incoming | failures in the middle of opening | see Link |
| Bundle (`bund.c`) | slots, `n_links`, `n_up`, `ncpstarted`, two timers | open, close, join, leave, bandwidth management, reopen, destroy | a last leave that closes the NCPs, which close links from inside it; members that gave up; failed joins | counters match the table; timers match the counters; open events dial |
| Interface (`iface.c`) | `up`, `ip_up`, `ipv6_up`, `dod`, `open`, idle history, timers, the wiring of each family | open, close, families that join and leave, demand, idle and session timeout | dial-on-demand takes turns with two address families; each family's wiring may fail half-way, inside the protocol's own state change | what is open is served by a protocol or waits for demand; wiring follows the flags; an idle session is closed in time and only then |
| Authentication, accounting (`auth.c`, PAP, CHAP, EAP, RADIUS) | protocols in use, retries, resend timers, two threads, the parameters they copy | start, input, result, account start/update/stop | results after the phase has gone, parameters replaced by an older copy, accounting of one session that meets the next | activity only while there is something to authenticate; START, updates and STOP follow the session; keys survive; every authentication ends |
| Actions (`paction.c`) | thread, reference, `canceled`, `may_cancel`, two mutexes | start, cancel, finish | two mutexes in opposite orders; cancellation at any point | a result is reported exactly if it was not canceled; no stale reference; no deadlock |
| PPTP (`pptp.c`, `pptp_ctrl.c`) | control connections, their calls, a reply timer per request, the link's state | open, close, each control message, timeouts, broken connections, failing writes | answers that cross closes, a write that kills the connection inside the handler that writes | links and calls name each other; every wait has a timer |
| L2TP (`l2tp.c`, `l2tp_ctrl.c`) | control connections shared by links, sessions, three timers, tie-breaker | open, close, each control message, timeouts, lost connections | ends that are marked first and handled later, crossed requests, shared tunnels with two reference counts | counters match the tables; links and sessions name each other; every end is told to the link |
| Repeater (`rep.c`), TCP, UDP, modem | two links tied together, each device's state and timers, the tee node | incoming, up, down, open, close, timers, accept or forward a call | one end is lost in the round in which the other connects | a repeater has both ends or is going away; ends that left are clean |
| Data of CCP and ECP (`ccp_pred1.c`, `ccp_mppc.c`, `ecp_dese.c`, ...) | histories, sequence numbers and chaining blocks at both ends | compress, encrypt, the reverse, Reset-Request and -Ack | a frame is lost, and a reset overtakes frames that wait for the other layer | histories agree, nothing garbled is delivered, frames fit, traffic recovers |
| NCPs (`ipcp.c`, `ipv6cp.c`, `ccp.c`, `ecp.c`) | their automaton, options, pool address | automaton events, options | counter-proposals, lost or late answers, renegotiation, leases | ends that are open agree; what was taken comes back; they converge |
| Console, web, commands (`console.c`, `web.c`, `command.c`) | sessions, the link and bundle each context has chosen, references, the tables `gLinks` and `gBundles` | create, choose, open, close, destroy, load | an object is shut down while a context, a message or a child still names it; several commands run in one go | memory lives as long as somebody holds it; tables and pointers list the living |

Configuration, telnet and HTTP, logging, netgraph plumbing, packet
formats and vendored code are I/O, parsing or data; they are listed in
`PROJECT.json` with the reason they are left out.

## 2. Modules

| Module | Models | State and code |
|---|---|---|
| `FsmOps` | every handler of `fsm.c` as an operator on one `struct fsm` | the record's fields are the struct's; `up`, `started`, `configured` record the calls of the layer methods, `downs` counts the LayerDown calls of the handler; `out` the packets it sends; `NewStateOpened` is `FsmNewState(ST_OPENED)` with the method NewState that LCP has, which lets the automaton open (`joins`) or calls `FsmFailure()` from inside |
| `Fsm` | one automaton, with any peer | actions are the events and the packets, each with every verdict of the option parser, any identifier, and any outcome of NewState; `refused` remembers that the automaton failed itself as it opened |
| `FsmLayer` | what the layers above and below may assume of an automaton | negotiating states are one state; `Refuse` is to open with the lower layer released |
| `LcpOptions`, `CcpOptions`, `IpcpOptions` | the options of LCP; CCP with MPPC, and ECP; IPCP with its pool, and IPV6CP | what each layer's Configure, BuildConfigReq, DecodeConfig, LayerUp and LayerDown do to its state, as operators; a packet is a function from options to values |
| `Nego`, `MCNego` | two ends that negotiate one of these protocols, and the link between them | ordered channels; packets may be lost; `Step` calls the layer's methods in the order of the handler; what was asked last is remembered for the property |
| `MsgFifo` | what the message queue promises | a sequence and the message being handled |
| `MsgQueue` | `msg.c` | ring, `msgqueueh`, `msgqueuet`, `msgpipesent`, the pipe, `gOverload` |
| `Pevent` | `pevent.c` as `event.c` uses it | `p.ev`: every `struct pevent` with its flags and references; `p.pe`: the handles; `p.pc`: where the event thread is |
| `EventLoop` | the event loop with the message queue in it | `MsgQueue` and `Pevent` together: `MsgEvent()` is the handler of a recurring event |
| `Link`, `MCLink` | `link.c`, `phys.c`, `pppoe.c`, the phases of `lcp.c`, start and end of authentication and accounting | one record `l`; each direct call is an operator on it, applied in the order of the code; messages are in `l.msgs` |
| `Bund` | `bund.c` and, of each link, what a bundle sees | one record `b`; direct calls and messages as in `Link` |
| `Iface` | `struct ifacestate` and the parts of `bund.c` that call it | one record; per family the flag, what was wired and where it may fail; `LayerDownTwice` is the handler of `fsm.c` that calls LayerDown twice |
| `Auth` | `auth.c`, `pap.c`, `chap.c`, `eap.c` on one link, with the life of both threads | one record; `params` is the struct the thread copies, `copy` the copy; `resources`: a thread can be started |
| `Console`, `MCConsole` | `console.c`, `web.c`, `command.c`; creation, destruction and references in `link.c` and `bund.c` | `w.mem`: every address with its object or `Freed`; `w.gLinks`, `w.gBundles` the tables; `w.ctx` the contexts; `batch` the context whose commands run; `cut` and `robbed` remember that a second bundle took a link, and from whom |
| `Paction` | `paction.c` | one program counter per thread, the two kinds of mutex, the references `a->thread` and `a->acct_thread` |
| `Pptp` | `pptp.c` and `pptp_ctrl.c` | functions from links to devices and from control connections to structs; the calls are in the connection |
| `L2tp` | `l2tp.c` and `l2tp_ctrl.c` | links, control connections and sessions as functions; a timer is a field |
| `Stream`, `MCStream` | the data of CCP and ECP between two ends | `snd`, `rcv`: codec, number and last block of each end; `q`: frames at each socket and on the wire; a frame carries what it would take to decode it |
| `Rep` | `rep.c` with `tcp.c`, `udp.c`, `modem.c` (and PPPoE) as its two ends | one record per end, the repeater, the queue of messages |
| `Devices` | one of `Pptp`, `L2tp`, `Rep` per behaviour | `type` is chosen once, as by `SetDeviceType()` |
| `FsmProofs`, `EventLoopProofs` (with the message queue), `LinkProofs`, `IfaceProofs`, `AuthProofs` (with the actions), `BundProofs`, `ConsoleProofs`, `StreamProofs` | the proofs | |

How they compose. `Nego` runs two copies of `FsmOps` with the
three modules of options. `Fsm` is shown to
implement `FsmLayer`, and `Link` models LCP by the coarse states of `FsmLayer`
(its operators `LcpOpen` ... `FsmFailure` are the same handlers with the
negotiating states merged). `MsgQueue`, within `EventLoop`, is shown to implement `MsgFifo`, and
`Link`, `Bund` and `Rep` use a sequence as their queue. `Bund` sees of a link only
whether it is absent, idle, open, closing or dying, which is what `Link` details,
and of a network protocol that it is up or down, which is what `Iface` is told.
`Auth` details what `Link` calls the start, the result and the end of an
authentication; the threads of `Auth` behave as the references of `Paction`.
`Console` has several links and bundles, which may dial the same link, with their life from
creation to the last reference, and keeps of LCP and the device only what decides about it, which `Link` details.
`Pptp`, `L2tp` and `Rep` hold the device side of `phys.c` for the devices that
share connections or talk to each other; `Link` does the same for PPPoE.

The event loop is built into the other models: an action is a whole callback, a
stopped timer does not fire, which `EventLoop` shows of the loop itself, and where a module has a queue of messages (`Link`, `Bund`, `Rep`, `Console`), every other
callback but those of the devices' own events waits while `MsgEvent` empties it.

Definitions introduced by the comment "A slip" are plausible mistakes at that
place. No specification uses them; replacing the definition they follow by the
slip breaks a property, which shows that the property depends on that code.

## 3. What TLC checks

| Run | Question | Result |
|---|---|---|
| `fsm` | One automaton, every order of events, timeouts and packets | safety holds, also if the automaton fails itself as it opens; LayerDown is called once; implements `FsmLayer`; terminations end, and so do negotiations in which the peer never acknowledges |
| `nego` | Two ends that negotiate LCP, CCP, ECP, IPCP or IPV6CP over a lossy link | whenever both are open with nothing under way, what each uses is what it asked for *last* and what the other has granted; leases and nodes come back; without further closing or giving up, they end up open together for good |
| `event_loop` | Event thread, message queue, another event and another thread | the queue implements the FIFO with its liveness; no wake-up lost, of the queue or of the loop; handlers run and handles are written only while their object lives |
| `link` | One link with every order of administrator, device, peer, authentication, accounting, redial and shutdown events | phase and state agree; admission follows the phase; the device follows the request; a link that may disappear has done so and left nothing behind |
| `bund` | A bundle with a static link and two instances in two slots | counters, table and timers match; the assertions hold; instances vacate their slots |
| `iface` | An interface with two families, dial-on-demand, idle and session timers, failures half-way | what is open is served; wiring and timers match the flags; a session is closed for idleness exactly after the timeout |
| `auth` | One link with every combination of protocols, packets at any time, results of the back ends, accounting and all timers | activity is confined to its phase and keys survive; accounting follows the session; authentication ends |
| `devices` | PPTP with two links over two control connections; L2TP with two links, two control connections and two sessions; a repeater between any two of four kinds of device | counters and tables agree, links name their calls; every wait has a timer; every end is told to the other side; ends that left are clean |
| `stream` | Frames between two ends that compress, encrypt or both, with losses and resets | histories agree; nothing garbled is delivered; sizes fit; traffic recovers |
| `paction` | Three actions on two references, every interleaving | references valid, outcomes settled, cleanup undisturbed, every action ends |
| `console` | Two links and a bundle, templates or not, or a link and two bundles that both name it, with a console session and web requests | every reference has a holder; tables, pointers and counters name the living, but for the slot of a bundle that was robbed; assertions fail only in a batch of commands that goes on with what it has destroyed, or through such a slot |
| `link_redial_after_shutdown` | Does every message find its handlers? | **no**: `LinkShutdown()` leaves the redial timer running (`link.c:599`), and `MsgSend()` asserts |

The last one is a disagreement between the code and an assertion of its own
(`PROJECT.json`, "findings"). No run checks a bare type invariant: `TypeOK` is in
each module for the reader and for experiments, and is proved where a module has
proofs. `CountersBounded` of `Fsm` is proved and not run.

### What the properties except

Properties state their exceptions openly. Each stands for something the code does:

* **Link.** `NodeHeld` excludes passive links whose negotiation failed (the second
  `LinkNgInit()` finds the node and its failure path removes it, `link.c:692`, so
  that the peer that calls again is not heard, against docs/mpd18.md) and a link
  refused by the bundle without authentication. `DeviceFollowsRequest` excludes
  devices opened by themselves at the console and links destroyed while waiting to
  redial. `LayersFollow` allows a passive automaton to keep its lower layer in
  Stopped and Closed.
* **Automaton.** `FsmNewState()` calls `type->NewState` before it sets the state
  (`fsm.c:186`). LCP joins its bundle there, and if the bundle refuses, `FsmFailure()` runs in
  the state before (`lcp.c:489`): LayerFinish and UnConfigure are called, and then the outer
  call makes the automaton Opened and calls LayerUp. `LayersFollow` excepts this until the
  automaton comes to rest (`refused`), and states what it lacks meanwhile; in `FsmLayer` it is
  the step `Refuse`, and `Link` models its consequences (the device is closed by the message
  that LayerFinish sent). A request in Opened that is refused with max-failure spent calls
  LayerDown twice (`fsm.c:589`, then `FsmFailure()`); `LayersFollow` excepts exactly this.
* **Negotiation.** LCP that went down while authenticated is reset by the next *request*
  of the peer (`lcp.c:808`), when its own request with the values found before is out
  already; if that is acknowledged, it opens wanting what it did not ask for (for
  instance the first authentication protocol again, while the peer agreed to another).
  `Agreement` excepts this (`StartedAfresh`), and no other disagreement. An
  authentication protocol proposed by the peer that is not enabled is struck from the
  list at its position in `gLcpAuthProtos[]`, but the list has another order
  (`lcp.c:1012`, "Remove the disabled proto from my list"): the wrong one is struck, and
  two ends with common ground may never meet; such pairs are not among those of
  `MCNego`. When the pool is empty IPCP keeps the range of the session before, and with
  none accepts any address (`ipcp.c:353`). An end that pretends (`pretend-ip`)
  notes an address that is not the leased one and frees that; `ResourcesReturn` excepts it. A request that reopens CCP and is refused chooses no
  decompressor, so that LayerDown() leaves the node of the old one, and the next
  LayerUp() fails; `ResourcesReturn` speaks of the compressor only. Close and Open in
  quick succession leave both ends in Stopped with nobody to send; `Converges` begins
  where both negotiate.
* **Bundle.** The counter is too high by one for each failed netgraph join
  (`bund.c:294` frees the slot without counting down) and for each static link that
  gave up under bandwidth management (`bund.c:538`), after which an open event does
  not dial (docs/mpd20.md:160-161 says it does). `BundShutdown()` leaves the reopen
  timer running (`bund.c:1255`, against docs/mpd18.md:33-37). `BundLeave()` may find
  no bundle after a failed join into a dynamic bundle, which frees itself but leaves
  the static link joined.
* **Interface.** A family whose up script fails stays reported as the code reports it
  (docs/mpd28.md:146-154 promises that the protocol goes down; `iface.c:1110` does so
  by `FsmFailure()` from inside the join). `nfin_up` and `nfout_up` are shared by both
  families (`iface.c:2377`). When LayerDown comes twice, the first call brings the interface
  up again to wait for demand and the second takes the family off that hook (`bund.c:763`):
  its demand is not heard until the interface or a protocol changes again, unless it was the
  only one, which listens again at once. `OpenIsServed` excepts that family (`deaf`).
* **Authentication.** The result of a thread replaces `params` by the copy made at its
  start (`auth.c:1293`), so that a challenge or keys stored in between are lost;
  `StateFollowsPhase` excepts that (`overwritten`). A STOP canceled by the next session's START
  is never delivered (`auth.c:866`); `AccountingFollowsSession` excepts it. If the thread for
  a STOP cannot be started the STOP is dropped and never tried again (`auth.c:942`), and the
  session stays open at the server; the property excepts this one loss (`lost`), and no loss
  by a START or an UPDATE that could not be started. The result
  BUSY is not handled by `EapRadiusProxyFinish()` (`eap.c:461`). A second EAP Identity
  response runs out of types and fails the link; all EAP timers share one retry count.
  A link refused by its bundle without authentication stays in Network, unjoined, until
  its device closes.
* **PPTP.** A connection opened by the peer and found idle is used for our call, but
  nothing sends the call when the connection comes up again and nothing times it
  (`StartCtrlConnRequest` does not call `PptpCtrlCheckConn()`); `WaitsAreTimed` speaks
  of connections of our own. `PptpCancel()` does not unhook the tunnel reference. When
  the request of a call cannot be written on an established connection, connection and
  call die inside `PptpCtrlOrigCall()`; `PptpResult()` ignores the end because the link
  is still Down (`pptp.c:750`), the caller is handed the dead call (`pptp_ctrl.c:716`),
  and the link enters Connecting with nothing under way (`pptp.c:299`).
* **L2TP.** The tie-break compares one way for a request that crosses ours in Idle and
  the other way for the reply (`l2tp_ctrl.c:2066`, `l2tp_ctrl.c:2078`).
  `ppp_l2tp_terminate()` in Dying only sets `link_notified` and leaves the notify timer,
  so a closed link can become Ready or Up without a session; the model marks the state
  `stale` and does not go on from it. `tun->connected` is never set for the peer's
  tunnels, nor if no link waits at that moment, so that a link that joins such a tunnel
  waits for the unused timeout. `pi->incoming` is not reset at the end of a call, so
  redialling that link does nothing. A link whose `L2tpHookUp()` fails stays Up without
  a session.
* **Repeater.** An end that was never opened and is mute (a modem) is not told to leave:
  after a failed tee or a failed outgoing end the other end stays attached and busy. The
  action `drop` (docs/mpd20.md:23-24) neither hangs up an answered modem call
  (`ModemClose()` returns unless opened) nor a TCP connection (`TcpDoClose()` finds no
  `csock` yet). `TcpOpen()` that fails leaves `incoming` set. Three assertions or
  dereferences can fail and are kept as ends of the behaviour (`failed`): `ModemClose()`
  while the start timer waits (`assert(m->fd >= 0)`), a caller lost in the round in which
  the other end connects (`RepUp()` follows a NULL pointer), and a modem dialled by an
  open message that arrives after its end left the repeater.

* **Frames.** A frame that is both compressed and encrypted can be larger than the peer
  receives: `BundUpdateParams()` (`bund.c:904`) takes off the room for CCP before that for
  ECP, but frames are compressed first. `FramesFit` names the sizes (modulo 8) for which
  this happens. A reset overtakes frames that wait at the sockets of ECP, whose numbers and
  histories then do not match: further resets follow, and `FramesGetThrough` shows that
  they end. A frame after exactly 65536 lost ones decrypts to garbage (the 16-bit number
  of DESE wraps); `DeliveredIntact` excepts it. `Pred1Init()` called for a reset allocates
  a new table without freeing the old one (`ccp_pred1.c:402`).

* **Console.** A web request or a file that destroys a link or bundle and goes on with it
  (its context still names it) breaks: a second destroy of a template or of a bundle that is
  down shuts it down twice and drops a reference that belongs to another holder
  (`link.c:642`, `bund.c:1279`), an open or close fails the assertion of `MsgSend()`
  (`msg.c:133`). `FailsOnlyOnTheDead` says that nothing else does but what follows; a
  console line begins with nothing dead, since each key lets go of it first
  (`console.c:416`).
  `BundCreateOpenLink()` asks `PhysIsBusy()` only (`bund.c:574`): a static link named in two
  bundles is married to the second while the first has it in its slot, as long as its LCP is
  in Initial and its device down. The first bundle is *robbed*, the link *cut* (history of the
  model). `LinkShutdown()` clears the slot of the second only; the first keeps a link that is
  dead and later freed, and opens it at its next MSG_OPEN: the assertion of `MsgSend()` fails
  from a message. `BundShutdown()` of the first takes the bundle from a permanent link that may
  have joined the other (`bund.c:1267`), after which `BundLeave()` finds none, or shuts a link
  down that is not its own. `TablesAreCurrent` promises nothing of the slot and the count of a
  robbed bundle, and all else; `FailsOnlyOnTheDead` says of each of these failures ("slot")
  that it needs a cut link or a robbed bundle. Whether the log is on decides whether a
  link without a bundle is followed to the bundle's name (`Nameless`, `bund.c:607`). Children whose
  template is destroyed become orphans and are never taken off `gChildren`
  (`link.c:617-624`), so that calls are refused as if they still existed;
  `TablesAreCurrent` states only that `gChildren` counts no less than there are.

Observations for which no property exists: the
search for a slot in `BundBmTimeout()` can look one past the last slot (`bund.c:1651`), logins are counted before the bundle is open
(`auth.c:1712`), and a TCP listener that returns early for overload or shutdown is deaf
afterwards (`tcp.c:449-457`; `udp.c` and docs/mpd4.md:447 differ).

### Bounds and why they are enough

* `Fsm`: `MaxConfig` 3, `MaxTerminate` 2, `MaxFailure` 2 instead of 10, 2, 10:
  the counters are only compared with zero and refilled, so three values show
  full, partly used and exhausted. Identifiers are counted modulo 4 instead of
  256: the code compares only the id of a reply with the last request, and all
  ids arrive. `EchoLimit` 3 lets some keep-alives go unanswered before the limit.
* `Nego`: thirteen pairs of configurations: for each protocol one that agrees at once,
  one in which an end must reject and one in which it must propose another value. One
  fault (a loss, a timeout while packets are still on the way, a close or a carrier
  loss), two of them for one pair: enough for a late acknowledgement of a request whose
  own was lost. 3 packets per direction; `MaxConfig` 4, `MaxFailure` 3, with which
  every pair can reach an agreement. Identifiers
  are counted modulo 6 instead of 256: more than one direction holds, so that an
  old reply is not taken for a new one merely because of the small modulus, and few enough to
  wrap around in the run.
  Timeouts with nothing on the way are not bounded. These budgets end
  behaviours, which is why deadlock is not checked there.
* `EventLoop`: a ring of 3 instead of 8192 slots, filled to overflow at every position
  of the indices, with two messages whose order shows; the proofs remove the bound.
  The pipe's event and one other, a timer or a descriptor, recurring or not; one thread
  besides the loop. Each event can be registered once and be in the loop's hands once
  more, hence three structs.
* `Link`: `MaxMsgs` 2: no event from *outside* adds to a queue longer than that;
  handlers may. `conf.max_redial` is -1 (never redial), 0 (no limit) or 1.
* `Bund`: one static link and two instances, two slots, which may name the
  static link, the template or nothing, in every combination; one netgraph
  failure; `MaxMsgs` 2 as above. Two slots are the least with which a bundle has
  a link that leaves and one that stays; two instances outnumber the slots when
  the static link is in use. One NCP: what matters is the first and the last.
* `Console`: one session and one web request, two addresses for links and two for bundles, of
  which a CONSTRAINT (`OneOfAKind`) goes on only with two links and a bundle (a template with
  an instance, two holders of a context besides tables and messages) or with a link and two
  bundles (one that is robbed and one that robs, or a template and its instance); a bundle
  robbed, or an orphan that `gChildren` still counts, stays within its kind. Both at
  once are more than ten million states. `MaxUp` is 1,
  for a robbed bundle may count a link it has lost and another. Batches of two commands:
  one that destroys and one that follows. A bundle has one slot; `Kinds` are template and
  static, temporary objects come from templates; `MaxChildren` stops `create` only. External
  events come when no message waits, commands that send when none does.
* `Iface`: `IFACE_IDLE_SPLIT` 4 as in the code; a failure may come early or late in
  the bring-up of each family, which are the two places where different things
  have to be undone.
* `Auth`: `AUTH_RETRIES` 2 instead of 5: the first attempt and the last. Packets are
  well formed and of the agreed protocols; the verdict is chosen.
* `Pptp`, `L2tp`: two links and two control connections, with a limit of two links per
  tunnel: the least with which a connection is shared by one that leaves and one that
  stays, and a second connection crosses it. `L2tp` has two sessions, one peer whose
  configuration always matches; `Explored` keeps TLC from combining a second control
  connection with a link that is not at rest on the other kind of call, and from
  going on after `stale`. Timers without delay run before the 11 s death timer.
* `Stream`: frames of two symbols, which the table of Predictor-1 learns one by one; a
  history is as long as one symbol. Two sequence numbers and six cipher blocks instead of
  2^16 and as many as there are: a number comes back when the block does not. One to three
  losses, two or three frames and requests under way: with three, a frame whose number came
  back is followed by one out of sequence. Sizes 1480 to 1503 show every
  residue.
* `Rep`: two ends of every kind in every combination; `MaxMsgs` 1: calls and timers come
  with no more than one message waiting, device callbacks at any time.
* `Paction`: three actions on two references, so that a reference is reused
  while its former action is still ending. The proofs remove the bound.

Deadlock is checked except where the real system stops or a budget ends the
behaviour: a dead link or bundle, a failed assertion (`failed`), exhausted
budgets of `Nego`, an interface that nobody may change any more.

### Fairness and why the code justifies it

* `Fsm`, `Nego`: the restart timer fires unless it is stopped or started anew
  before (`timer.c`; the event loop serves timers). In `Nego` a packet on the
  way arrives or is lost. Nothing is assumed of the peer of `Fsm`.
* `EventLoop`: the event thread goes on, handlers return, a thread gives `gGiantMutex`
  back. `pevent_ctx_execute()` tries the mutex again and again without waiting for it:
  that it finds it free in the end is assumed (strong fairness of `Run`), not enforced.
* `Stream`: the sockets and nodes do what they have to do, in any order, and the interface
  keeps sending; losses end.
* `Auth`: the event loop serves the authentication timer. Nothing is assumed of the
  peer, the back ends or the threads.
* `Paction`: a running thread and a callback that holds `gGiantMutex` go on; a
  lock that is free again and again is eventually taken. `paction_main()` polls
  `gGiantMutex` every 10 ms rather than waiting for it: that a thread does not
  find it busy at every poll for ever is an assumption, not something the code
  enforces.
* The other modules have no liveness properties: what they promise eventually is
  stated for the moments when no message is left ("at rest"), which
  `EventLoop` shows to come, or as a timer that must be running. `IdleClosesInTime` is a safety
  property that counts the periods of the idle timer.

## 4. What is proved

All theorems are for arbitrary values of the constants, under the assumption
named in each module (`FsmAssumption`: positive limits; `NegoAssumption`: two ends, and
pools of addresses that are natural numbers; `MsgAssumption`:
a ring of at least two slots and ordered thresholds; `PactionAssumption`: the
names are distinct; `LinkAssumption`: the limits of redials are integers;
`IfaceAssumption`: two distinct protocols and more than one idle period;
`AuthAssumption`: at least one retry; `EventLoopAssumption`: `NoEvent` is none of the
finitely many structs and handles, no thread is called like the two other holders of
`gGiantMutex`, and there are more structs than handles; `BundAssumption`: the names of
links and of no link are distinct, and there is a slot; `ConsoleAssumption`: memory and
sessions are finite, addresses of links and of bundles are distinct, `None` and `Freed` are
none of them, privileges are those of the code and a batch has at least one command;
`StreamAssumption`: the octets include 0, the modes are those of the code, at least two
sequence numbers, whose number divides that of the blocks, and sizes are integers).

* **`FsmProofs`**: `TypeCorrect`, `TimersAlwaysMatch`, `LayersAlwaysFollow`,
  `EventsAlwaysRemembered`, `CountersAlwaysBounded`, for
  passive and other automata. The invariant `IInv` joins these properties with
  relations between state and counters that make it inductive (in a terminating
  state `restart` is within `MaxTerminate`, in AckRcvd and Opened the budgets are
  full). Each building block (`NewState`, a send, a layer call) has a lemma on
  what it changes, each handler a lemma that it keeps a struct *sound*; the step
  lemma puts them together action by action. What is sound depends on whether the automaton
  failed itself as it opened (`SoundIn(f, denied)`): a denied one has nothing of the lower
  layer until it rests. The nested `FsmFailure()` leaves a struct that only the outer call
  makes sound again; its lemma takes both together. `LayersAlwaysFollow` has two halves:
  `LayersAlwaysAgree` follows from the invariant, `LayerAlwaysDownOnce` counts the calls along
  each handler (`Told`).
  `RefinesLayer`: Spec implies the coarse specification under the mapping of
  `Coarse`. For every handler and every state the proof names the step of `FsmLayer`
  or shows that there is none; the one that opens while it fails itself is `Refuse`.
  About two ends (`Nego`): `NegoTypeCorrect` and `ResourcesAlwaysReturn`, for any
  configurations, pools of any size and any number of losses, closes and early timeouts.
  `NegoInv` says that both structs are sound, and adds what ties the options to the
  automaton. A leased address is the only one its holder grants (`IpcpFine`): an address is
  returned as the one the peer has *now*, so that a request accepted with another one would
  lose the lease. The compressor's node implies that its type is still chosen, since
  LayerDown() removes the node of the type it finds: it is kept because a step that leaves
  the layer up changes no type, that is, because an automaton that stays in Opened sends
  no request (`RequestLeaves`, `RepliesLeave`). `StepKeeps` shows for any handler that the
  order of the layer's methods in `Step` preserves this; the rest shows that each handler
  meets its conditions.
* **`EventLoopProofs`**, about the queue: `TypeCorrect`, `WakeupNeverLost`, `HandledStaysInRing`,
  and `RefinesFifo`. The strengthening `Filled` says that the slots between the
  two indices hold messages; the refinement rests on lemmas about positions
  modulo the length of the ring: a send appends to the mapped sequence, the
  return of a handler takes its head.
* **`AuthProofs`**, about the actions of `Paction`: `PactionTypeCorrect`,
  `ReferenceAlwaysValid`, `OutcomeAlwaysSettled`, `CleanupNeverDisturbed`, for any number of
  threads and references. `PactionInv` relates a reference to its action's back pointer (`Refs`,
  `BackRefs`), the call in progress to both (`Calls`), each mutex to the program
  counter of its holder (`Mutexes`, `Holder`), and cancellation to both
  (`Cancellations`). None of the properties is inductive alone: that a finisher runs
  only if not canceled needs the action's mutex to be held from the test of
  `canceled` until the back pointer has been cleared.

* **`LinkProofs`**: `TypeCorrect`, `PhasesAlwaysAgree`, `AdmissionAlwaysMatches`,
  `NodeAlwaysHeld`, `DeviceAlwaysFollows`, `DyingAlwaysVanishes`. The properties of a
  link at rest are not inductive: while messages are queued they are false, and what
  makes them true later is the message. `IInv` says which one it is: an unwanted device
  has `physClose` or `open` queued (`Releases`), a wanted link without a device its timer
  or `physOpen` (`Dials`), a link that can go has `shutdown` (`Disposes`), a link in the
  Network phase that was not admitted `physClose` (`Admits`). The converse is needed as
  well: a link with `shutdown` queued is dead to LCP and its device does not come up
  (`Goes`), which holds only because no callback runs before the queue is empty. The
  handlers pass through records in which half of this is broken (LCP down, node still
  there; device gone, link not told), so the invariant is layered: `Sound` holds in the
  middle of a handler, `Kept` when authentication has been stopped, `Whole` when it
  returns. The denied admission inside `FsmNewState(ST_OPENED)` has lemmas of its own:
  the automaton runs a failure from a state whose phase it has already left.
* **`IfaceProofs`**: `TypeCorrect`, `ServedWhenOpen`, `FlagsTrue`, and the action
  property `IdleClosed`, for every number of periods. `Good` relates the flags, the
  wiring of each protocol and the timers; `Measured` says that the array of traffic
  agrees with the `n` periods that have passed since the timer was started: entries 0
  to `n` are clear and entry `n + 1` is still set, so that an entry left from a session
  before is never the one that decides. The two calls of a double LayerDown keep `Good` one
  after the other, with the family in question deaf after the second.
* **`AuthProofs`**, about `Auth`: `TypeCorrect`, `StateFollows`, `AccountingFollows`. `Base` holds of
  the records between the steps of a handler, `Good` between handlers. `Kept` has what
  the two directions share: the message that a timer of EAP resends is in the params
  of the thread, and no other thread's result can have replaced it, because with the
  proxy every thread asks for EAP; the count that the two timers of EAP share leaves
  room for both. A session that is owed its STOP is joined, or its STOP runs, or was lost for
  want of a thread, however threads become available and run out.
* **`EventLoopProofs`**, about the loop: `LoopTypeCorrect`, `AlwaysSleepsRightly`,
  `HandlersAlwaysMeetTheLiving`, `QueueInLoop`, `WakeupNeverLostInLoop` and
  `LoopRefinesFifo`, for any number of events and threads. `Counted` says that the
  references of an event are those of its handle, of the list and of the loop;
  `Listed` that the list has each event marked as enqueued, once; `Held` that a handle
  and its event point at each other; `Served` what the loop may still have in its hands
  between the unlocking of the context and the call of the handler: until it is
  cancelled, its handle is there, and then its object is. None of the two safety
  properties is inductive alone. Registering an event must find memory: a struct in use
  is that of a handle or the one in the loop's hands (a recurring event can be replaced
  by its own handler while it is called), so one struct more than handles is enough, a
  pigeonhole argument over finite sets. `EventLoopAssumption` states that as
  malloc() not failing, which the model does not cover. `QueueInLoop` maps every step of
  the loop to a step of `MsgQueue` or none, and with it the theorems of the queue,
  `RefinesFifo` included, hold in the loop.
* **`BundProofs`**: `TypeCorrect`, `DecisionsAlwaysCurrent`, `AssertionsAlwaysHold` and
  `InstancesAlwaysVacate`, for any number of slots, static links and instances. The
  counters are cardinalities of sets of links (`Upward`, `Counts`), which is useful only
  together with `Slotted` and `Placed`: no link is in two slots, and a static link that
  has not joined can be in no slot but the one that names it, so that opening another slot
  finds it idle. `Leaving` says which message will move an idle or dying instance out of
  its slot, `Dies` that no other link is shut down. Of a bundle that is dead only
  `Dead` is left, and that an assertion fails is possible only then, and only after a
  failed join. `BundOpenLinks()` and `BundCloseLinks()` are recursive functions
  over the slots, and `Without` over the messages. There is no induction principle to cite,
  but what they do at each slot is a set of slots that is found to be whole: the least
  slot outside it would have its predecessor inside (`SlotExtremes`, from the
  well-foundedness of the subsets of a finite set; `UpTo`, `OpenedDef`, `ClosedDef`).
  `Leaving` and `Counts` are kept from slot to slot for the links opened so far.

* **`ConsoleProofs`**: `ConsoleTypeCorrect`, `ReferencesAlwaysHolders`,
  `TablesAlwaysCurrent` and `FailsAlwaysOnlyOnTheDead`, for any number of links, bundles,
  sessions, templates and messages. `Sound` is the invariant of the world, and it is kept by
  every function of the code and not only by whole steps: `Sound(v, h, z)` says that
  messages are being handled if `h`, and that `z` is held once more than its holders
  account for, because its message has been taken out of the queue and not yet let go.
  `Counted` is the count of references; it needs `Tabled` (tables and ids are inverse to each
  other, so that an object is listed once and the dead not at all), `Married` and `Related`
  (pointers between links and bundles, as far as a robbed bundle has any, and between
  parents and children), `Blank` (the dead have
  forgotten what they were), `Still` (nobody asks a template for anything) and `Shut`: a
  link whose shutdown is queued belongs to no bundle and, unless messages are being handled,
  does not come up before, which is why LinkShutdown() does not divorce a joined link unless
  it was cut. The last one is the reason why a message never fails on the dead where bundles
  share no link. A new object finds a free slot by a pigeonhole argument: as many slots as
  addresses, and no address in two of them.
  Each kind of change (a count only: `Recounted`; one record: `Touched`; a slot of a table)
  has a lemma on what it leaves alone, and each function a lemma on top of these. A command
  on something dead leads to `Broken`, and only `DestroyLink`, `DestroyBundle`, `OpenCommand`
  and `CloseCommand` can (`Misled`): there the context names it. The one failure elsewhere,
  at a slot, ends in `Spoilt`, which keeps its witness (a link cut, or a bundle robbed)
  through the rest of the handler, which goes on changing things after the failure (`Torn`).

* **`StreamProofs`**: `DeliveredAlwaysIntact`, for every number of sequence numbers and
  blocks where the first divides the second, of losses and of frames under way.
  `IntactInv` says that the numbers between the two ends form a chain (`Chained`): a
  received frame has the number of the one before, or of the last one decrypted, plus one
  and the frames lost before it; those on the link follow each other; and the sender's next
  number follows the last. A loss shortens the chain at the link's head and lengthens the
  gap there. A frame that has the expected number but does not follow the last block is
  then a whole multiple of the sequence numbers away (`ManyLost`), which takes some
  arithmetic of remainders, since the prover knows none for a divisor that is a constant of
  the module (`RemainderOfSum`, `RemainderOfMultiple`, `SameRemainder`). For compressed
  frames, the checksum of the model suffices, and nothing is needed of their tables.
  `SizesFit` proves `FramesFit` for every size, residue by residue.

TLC evaluates the assumptions in the runs of the modules above.

Each inductive invariant was an invariant of a TLC run before it was proved.

**Only model-checked:** all liveness properties (the prover does not reason about
ENABLED), `AuthenticationEnds` among them, the fairness part of `ImplementsFifo`, and
everything of `Pptp`, `L2tp`, `Devices` and `Rep`. `InStep` of `Stream` is not proved: that
two tables are the same after a frame is an induction over its symbols. `Agreement` of `Nego` is not
proved: it rests on identifiers that are not reused while an answer to the former is under
way, which holds for the width of the run and depends on it. What `L2tp` and `Devices`
say uses folds over sets of links, about which nothing can be proved without induction.

## 5. Abstractions, and what is not modelled

* `Fsm` answers a request with any verdict; `Nego` has the options that are negotiated.
  MRU, ACCMAP and the discriminator, which two ends that run this code acknowledge
  always, magic numbers (no loop), the second of two name servers, an own address from
  a pool and the required-encryption check are left out; the kernel supports every type
  of compression, and keys for MPPE exist.
  Identification and Time-Remaining are left out; a detected loop and a protocol
  reject are among the reasons of `Failure`.
* `Link` has one device, PPPoE, which stands for `struct phystype`; link actions
  (accept, drop, forward) are reduced to accept and drop (`Rep` has all three);
  templates appear as instances in `Init`.
* `Bund` has one bundle, and no static link is named twice (`Console` has two bundles that
  name one). The choice of a
  bundle for a link is its result. `gShutdownInProgress` is in `Link` only.
* `Console`: LCP and the device are four states and a flag; `max_redial` is -1, as when
  created; repeaters, accounting threads, bandwidth management and netgraph failures are
  left out; a dead object keeps only its references and, of a link, the state of its LCP. Where
  a slot still names a link that was freed, nothing new is placed at that address: reading it
  there is undefined behaviour, and ends the run.
* `Iface`: addresses, routes, access lists, NAT and netflow are whether the wiring of a
  family succeeds.
* `Auth`: names, secrets and hashes are a verdict; the limit of logins
  (`auth.c:1712`) is not modelled; back ends end or fail at any time.
* `Pptp`: a connection or call that is dying in order to be freed is free; listeners,
  call identifiers and the layout of messages are left out. `L2tp`: the coding and hiding
  of AVPs, listeners and templates are left out; HELLO, SLI and WEN change nothing;
  messages that are not due are one action (`CtrlFails`).
* `Rep`: listeners hear every call; sockets can be created; a template end has one
  instance; links of a repeater are not opened by the administrator while in use and do
  not redial. `ModemUpdate()`, `ModemErrorCheck()` and changes of options are left out; a
  chat script succeeds or fails. The netgraph device (`ng.c`) has no state.
* `Stream`: the cipher is its chaining; a checksum finds every difference. Deflate and MPPC
  are in the kernel, and stand there with the history of Predictor-1.
* `Pevent`: events of message ports and with threads of their own, which mpd does not use,
  allocation failures and interrupted polls are left out.
* Memory is modelled where its life matters (`dead` links and bundles, gone
  actions), allocation failures are not.

## 6. Plan

Order: the behaviours most shared by the rest came first.

1. *Done*: automaton, negotiation, queue, link, bundle, actions; interface, authentication,
   PPTP, L2TP, repeater and its devices; event loop; compressed and encrypted frames.
2. Several sessions on one address pool; the chat interpreter; login limits with several links.
3. Proofs: done for the automaton, the queue, actions, links, bundles, interfaces,
   authentication, the event loop, the references of `Console`, what two ends of
   `Nego` return, and what `Stream` delivers. Left: the tables of `Pptp` and `Devices`, the two ends of `Rep`, the
   agreement of `Nego`, the tables of `Stream`.

## 7. Running

    tlc -workers 2 -config Fsm.cfg Fsm            # and likewise the other pairs
    tlapm FsmProofs.tla                           # and the other *Proofs modules

`PROJECT.json` lists the runs with their configurations, the map from
definitions to source lines, the hazards and the properties aimed at them.
Most passing runs take up to a minute, `devices` and `stream` two; the proofs of `ConsoleProofs` take about ten (two workers).
