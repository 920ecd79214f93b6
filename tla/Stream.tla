------------------------------- MODULE Stream -------------------------------
(***************************************************************************)
(* The data of one direction of a bundle once CCP and ECP are open: frames *)
(* are compressed, encrypted, carried by a link that loses some of them,   *)
(* decrypted and decompressed; ccp.c, ccp_pred1.c, ecp.c, ecp_dese*.c.     *)
(*                                                                         *)
(* Predictor-1 and DES run in the daemon: the kernel hands it each frame   *)
(* twice, on the sockets of CCP and of ECP, and the event loop reads the   *)
(* sockets in any order.  Deflate and MPPC run in the kernel, which only   *)
(* asks the daemon for a reset.  A reset request or acknowledgement is a   *)
(* packet of CCP and waits on a socket of its own, so that it may overtake *)
(* the frames that it was sent behind, or be overtaken by those after it.  *)
(***************************************************************************)
EXTENDS Integers, Sequences, SequencesExt

CONSTANTS
  Symbols,     \* the octets; 0 is what a new table guesses
  Frames,      \* the plain frames, sequences of symbols
  Modes,       \* what was negotiated, with two bounds: losses of the link, and flight, what is under way
  SeqNums,     \* 2^16, the modulus of the sequence numbers of DESE
  Blocks,      \* numbers that tell the last block of a frame from that of another
  Mrus         \* sizes the peer can receive, for FramesFit

ASSUME StreamAssumption ==
  /\ 0 \in Symbols /\ Frames \subseteq Seq(Symbols)
  /\ Modes \subseteq [comp : {"none", "pred1", "deflate", "mppc"}, enc : {"none", "dese", "dese-bis"},
                       losses : Nat, flight : Nat]
  /\ SeqNums \in Nat \ {0, 1} /\ Blocks \in Nat \ {0} /\ Blocks % SeqNums = 0
  /\ \A m \in Modes : m.flight + m.losses < Blocks
  /\ Mrus \subseteq Int

VARIABLES
  mode,    \* what was negotiated
  snd,     \* the sender: its table, the frames encrypted so far, and whether to flush (MPPC)
  rcv,     \* the receiver: its table, the sequence number it expects, the last block it saw
  q,       \* what waits in the sockets and on the link
  up,      \* the fate of the last frame: "none", "intact", "garbled", "error"
  losses,  \* of the link so far
  trace    \* for the properties: see Trace

vars == << mode, snd, rcv, q, up, losses, trace >>

Userland == mode.comp = "pred1"
Kernel   == mode.comp \in {"deflate", "mppc"}

\* The guess table with the hash of the symbols before; a longer memory would change
\* nothing but the size of the table.
Fresh == [table |-> [s \in Symbols |-> 0], hash |-> 0]

\* epoch, at: how often the sender and the receiver started anew.  seen: the epochs of the
\* frames that were decompressed, or lost.  upset: since both sides last started anew at the
\* same frame, a frame was lost, or one was decompressed that does not belong to the epoch.
\* gap: frames lost before the one last decrypted, missed: since the one last received.
Trace == [epoch : 0 .. 3, at : 0 .. 3, seen : SUBSET (0 .. 3), upset : BOOLEAN, gap : Nat, missed : Nat]

Codec == [table : [Symbols -> Symbols], hash : Symbols]

TypeOK ==
  /\ mode \in Modes
  /\ snd.codec \in Codec /\ snd.n \in 0 .. Blocks - 1 /\ snd.flush \in BOOLEAN
  /\ rcv.codec \in Codec /\ rcv.seq \in 0 .. SeqNums - 1 /\ rcv.ivec \in 0 .. Blocks - 1
  /\ \A s \in DOMAIN q : Len(q[s]) <= mode.flight
  /\ up \in {"none", "intact", "garbled", "error"}
  /\ losses \in 0 .. mode.losses
  /\ trace \in Trace

----------------------------------------------------------------------------
(* Predictor-1.  A frame is the flags, which symbols were guessed, the     *)
(* others, and a checksum that finds every difference: the plain frame.    *)

Next1(c, x) == [table |-> [c.table EXCEPT ![c.hash] = x], hash |-> x]

Compress(c, f) ==
  LET One(s, x) == LET hit == s.codec.table[s.codec.hash] = x
                   IN  [codec |-> Next1(s.codec, x), flags |-> Append(s.flags, hit),
                        lits |-> IF hit THEN s.lits ELSE Append(s.lits, x)]
  IN  FoldLeft(One, [codec |-> c, flags |-> << >>, lits |-> << >>], f)

Decompress(c, flags, lits) ==
  LET One(s, hit) == LET x == IF hit THEN s.codec.table[s.codec.hash] ELSE Head(s.lits)
                     IN  [codec |-> Next1(s.codec, x), plain |-> Append(s.plain, x),
                          lits |-> IF hit THEN s.lits ELSE Tail(s.lits)]
  IN  FoldLeft(One, [codec |-> c, plain |-> << >>, lits |-> lits], flags)

\* A slip in SyncTable(): the table does not learn from frames that were not compressed.
SyncTableIdle(c, f) == [c EXCEPT !.hash = f[Len(f)]]

SyncTable(c, f) == FoldLeft(Next1, c, f)

\* An octet of flags for each eight symbols; a frame that gains nothing goes as it is.
Pred1Compress(c, f) ==
  LET r    == Compress(c, f)
      size == (Len(f) + 7) \div 8 + Len(r.lits)
  IN  [codec |-> r.codec, comp |-> size < Len(f), fcs |-> f,
       flags |-> IF size < Len(f) THEN r.flags ELSE << >>,
       lits  |-> IF size < Len(f) THEN r.lits ELSE f]

\* What comes out, and the table after it; a frame that was not decrypted right is garbage.
Pred1Decompress(c, p) ==
  IF p.comp
  THEN LET r == Decompress(c, p.flags, p.lits)
       IN  [codec |-> r.codec, ok |-> p.good /\ r.plain = p.fcs]
  ELSE [codec |-> SyncTable(c, p.lits), ok |-> p.good]

----------------------------------------------------------------------------
(* Sizes.  size is what the peer can receive; a protocol number takes two  *)
(* octets, and Deflate never makes a frame longer.                         *)

CCP_OVERHEAD == 2
ECP_OVERHEAD == 2
DES_OVERHEAD == 2   \* the sequence number

CcpSubtractBloat(size) ==
  CASE mode.comp = "none"    -> size
    [] mode.comp = "pred1"   -> size - 4 - CCP_OVERHEAD
    [] mode.comp = "mppc"    -> size - 2 - CCP_OVERHEAD   \* encryption only
    [] mode.comp = "deflate" -> size + CCP_OVERHEAD - CCP_OVERHEAD

EcpSubtractBloat(size) ==
  LET whole == ((size - DES_OVERHEAD) \div 8) * 8
  IN  CASE mode.enc = "none"     -> size
        [] mode.enc = "dese"     -> whole - ECP_OVERHEAD
        [] mode.enc = "dese-bis" -> whole - 1 - ECP_OVERHEAD

BundUpdateParams(size) == EcpSubtractBloat(CcpSubtractBloat(size))

\* What the codecs make of n octets.
Compressed(n) ==
  CASE mode.comp \in {"none", "deflate"} -> n
    [] mode.comp = "pred1"               -> n + CCP_OVERHEAD + 4
    [] mode.comp = "mppc"                -> n + CCP_OVERHEAD + 2

\* The padding of DESE-bis fills a block, but is left out if the frame ends with one and its
\* last octet, x, cannot be taken for padding.
BisPadding(n, x) == LET padlen == 8 - (n % 8) IN IF padlen = 8 /\ (x = 0 \/ x > 8) THEN 0 ELSE padlen

Encrypted(n, x) ==
  CASE mode.enc = "none"     -> n
    [] mode.enc = "dese"     -> ((n + ECP_OVERHEAD + 7) \div 8) * 8 + DES_OVERHEAD
    [] mode.enc = "dese-bis" -> n + ECP_OVERHEAD + BisPadding(n + ECP_OVERHEAD, x) + DES_OVERHEAD

\* The last octet of the padded frame says how much to strip.
BisStripped(n, x) ==
  LET pad  == BisPadding(n, x)
      last == IF pad > 0 THEN pad ELSE x
  IN  IF last \in 1 .. 8 THEN n + pad - last ELSE n + pad

----------------------------------------------------------------------------
(* The sockets and the link. *)

InFlight == Len(q.ecpOut) + Len(q.wire) + Len(q.ecpIn) + Len(q.ccpIn) + Len(q.ackIn)
            + Len(q.node) + Len(q.reqs)

Wire(x) == Append(q.wire, x)

\* FsmOutputMbuf(): the packet goes out at once, past the frames that wait for encryption.
CcpSendResetReq(queues) == [queues EXCEPT !.reqs = Append(@, "ResetReq")]

\* Pred1SendResetReq() starts the table anew; in the kernel only the nodes have tables.
Pred1SendResetReq(c) == IF Userland THEN Fresh ELSE c

\* CcpDataOutput(), or the node in the kernel.  p waits for encryption, or leaves.
CcpDataOutput(f) ==
  /\ InFlight < mode.flight
  /\ LET r == IF mode.comp = "none"
              THEN [codec |-> snd.codec, comp |-> FALSE, fcs |-> f, flags |-> << >>, lits |-> f]
              ELSE Pred1Compress(snd.codec, f)
         p == [comp |-> r.comp, fcs |-> r.fcs, flags |-> r.flags, lits |-> r.lits, good |-> TRUE,
               flush |-> snd.flush, epoch |-> trace.epoch]
     IN  /\ snd' = [snd EXCEPT !.codec = r.codec, !.flush = FALSE]
         /\ q' = IF mode.enc = "none" THEN [q EXCEPT !.wire = Wire([type |-> "data", n |-> 0, body |-> p])]
                                      ELSE [q EXCEPT !.ecpOut = Append(@, p)]
  /\ UNCHANGED << mode, rcv, up, losses, trace >>

\* Every frame is chained to the last block of the one before.
DesEncrypt ==
  /\ q.ecpOut # << >>
  /\ q' = [q EXCEPT !.ecpOut = Tail(@),
                    !.wire = Wire([type |-> "data", n |-> snd.n, body |-> Head(q.ecpOut)])]
  /\ snd' = [snd EXCEPT !.n = (@ + 1) % Blocks]
  /\ UNCHANGED << mode, rcv, up, losses, trace >>

Lost(p, tr) == [tr EXCEPT !.upset = TRUE, !.seen = @ \cup {p.epoch}]

LoseData ==
  /\ q.wire # << >> /\ losses < mode.losses
  /\ q' = [q EXCEPT !.wire = Tail(@)]
  /\ losses' = losses + 1
  /\ trace' = IF Head(q.wire).type = "data"
               THEN Lost(Head(q.wire).body, [trace EXCEPT !.missed = @ + 1]) ELSE trace
  /\ UNCHANGED << mode, snd, rcv, up >>

LoseRequest ==
  /\ q.reqs # << >> /\ losses < mode.losses
  /\ q' = [q EXCEPT !.reqs = Tail(@)]
  /\ losses' = losses + 1
  /\ UNCHANGED << mode, snd, rcv, up, trace >>

\* A frame reaches the decompressor, wherever that is; r is the receiver before.
Decompressed(queues, r, p, tr) ==
  LET d == Pred1Decompress(IF p.flush THEN Fresh ELSE r.codec, p)
  IN  /\ up' = IF d.ok THEN "intact" ELSE "error"
      /\ rcv' = [r EXCEPT !.codec = IF d.ok THEN d.codec ELSE Pred1SendResetReq(@)]
      /\ q' = CASE d.ok     -> queues
                [] ~ d.ok /\ Userland -> CcpSendResetReq(queues)
                [] ~ d.ok /\ Kernel   -> [queues EXCEPT !.node = Append(@, "RESETREQ")]
      /\ trace' = [tr EXCEPT !.seen = @ \cup {p.epoch}, !.at = IF p.flush THEN p.epoch ELSE @,
                             !.upset = \/ ~ p.good
                                       \/ p.flush /\ p.epoch \in tr.seen
                                       \/ ~ p.flush /\ (@ \/ p.epoch # tr.at)]

\* A frame that is not encrypted, or no longer: up, or to the decompressor.
Plain(queues, r, p, tr) ==
  CASE mode.comp = "none" ->
         /\ up' = IF p.good THEN "intact" ELSE "garbled"
         /\ q' = queues /\ rcv' = r /\ trace' = tr
    [] Userland ->
         /\ q' = [queues EXCEPT !.ccpIn = Append(@, p)]
         /\ rcv' = r /\ trace' = tr /\ UNCHANGED up
    [] Kernel -> Decompressed(queues, r, p, tr)

\* The ppp node sorts what arrives.
Receive ==
  /\ q.wire # << >>
  /\ LET f    == Head(q.wire)
         rest == [q EXCEPT !.wire = Tail(@)]
     IN  CASE f.type = "ResetAck" ->
                /\ q' = [rest EXCEPT !.ackIn = Append(@, f.epoch)]
                /\ UNCHANGED << rcv, up, trace >>
           [] f.type # "ResetAck" /\ mode.enc # "none" ->
                /\ q' = [rest EXCEPT !.ecpIn = Append(@, [n |-> f.n, body |-> f.body, gap |-> trace.missed])]
                /\ trace' = [trace EXCEPT !.missed = 0]
                /\ UNCHANGED << rcv, up >>
           [] f.type # "ResetAck" /\ mode.enc = "none" -> Plain(rest, rcv, f.body, trace)
  /\ UNCHANGED << mode, snd, losses >>

\* A slip in DesDecrypt(): the number of the frame is not looked at.
InSequenceAlways(f) == TRUE

InSequence(f) == f.n % SeqNums = rcv.seq

\* A slip in DesDecrypt(): the number of this frame is expected again.
ExpectSame(f) == [rcv EXCEPT !.seq = f.n % SeqNums, !.ivec = f.n]

\* What DesDecrypt() expects next.
Expect(f) == [rcv EXCEPT !.seq = (f.n + 1) % SeqNums, !.ivec = f.n]

\* A frame out of sequence is dropped, but its last block and its number are kept.  The
\* number alone decides that a frame follows the one before.
DesDecrypt ==
  /\ q.ecpIn # << >>
  /\ LET f    == Head(q.ecpIn)
         rest == [q EXCEPT !.ecpIn = Tail(@)]
         r    == Expect(f)
         tr   == [trace EXCEPT !.gap = f.gap]
     IN  IF InSequence(f)
         THEN Plain(rest, r, [f.body EXCEPT !.good = f.n = (rcv.ivec + 1) % Blocks], tr)
         ELSE /\ q' = rest /\ rcv' = r /\ trace' = Lost(f.body, trace)
              /\ UNCHANGED up
  /\ UNCHANGED << mode, snd, losses >>

EcpNgDataEvent == DesEncrypt \/ DesDecrypt

CcpDataInput ==
  /\ q.ccpIn # << >>
  /\ Decompressed([q EXCEPT !.ccpIn = Tail(@)], rcv, Head(q.ccpIn), trace)
  /\ UNCHANGED << mode, snd, losses >>

----------------------------------------------------------------------------
(* Resets. *)

\* The node of the kernel asks: CcpNgCtrlEvent(), CcpRecvMsg().
CcpRecvMsg ==
  /\ q.node # << >>
  /\ q' = CcpSendResetReq([q EXCEPT !.node = Tail(@)])
  /\ UNCHANGED << mode, snd, rcv, up, losses, trace >>

\* Predictor-1 and Deflate start anew and acknowledge, MPPC marks the next frame instead.
NoAck == mode.comp = "mppc"

CcpRecvResetReq ==
  /\ q.reqs # << >>
  /\ LET epoch == (trace.epoch + 1) % 4
     IN  /\ snd' = [snd EXCEPT !.codec = Fresh, !.flush = NoAck]
         /\ q' = [q EXCEPT !.reqs = Tail(@),
                           !.wire = IF NoAck THEN @ ELSE Append(@, [type |-> "ResetAck", epoch |-> epoch])]
         /\ trace' = [trace EXCEPT !.epoch = epoch, !.seen = @ \ {epoch}]
  /\ UNCHANGED << mode, rcv, up, losses >>

CcpRecvResetAck ==
  /\ q.ackIn # << >>
  /\ q' = [q EXCEPT !.ackIn = Tail(@)]
  /\ rcv' = [rcv EXCEPT !.codec = Fresh]
  /\ trace' = [trace EXCEPT !.at = Head(q.ackIn), !.upset = Head(q.ackIn) \in trace.seen]
  /\ up' = "none"
  /\ UNCHANGED << mode, snd, losses >>

----------------------------------------------------------------------------

\* Both layers come up: new tables, numbers from zero, and the nonce of the configuration
\* is the block before the first.
NewSnd   == [codec |-> Fresh, n |-> 0, flush |-> FALSE]
NewRcv   == [codec |-> Fresh, seq |-> 0, ivec |-> Blocks - 1]
NewTrace == [epoch |-> 0, at |-> 0, seen |-> {}, upset |-> FALSE, gap |-> 0, missed |-> 0]

Init ==
  /\ mode \in Modes
  /\ snd = NewSnd /\ rcv = NewRcv /\ trace = NewTrace
  /\ q = [s \in {"ecpOut", "wire", "ecpIn", "ccpIn", "ackIn", "node", "reqs"} |-> << >>]
  /\ up = "none" /\ losses = 0

\* Down and up again; negotiation takes turns of the event loop that empty the sockets.
Reopen ==
  /\ InFlight = 0 /\ up # "none"
  /\ snd' = NewSnd /\ rcv' = NewRcv /\ trace' = NewTrace /\ up' = "none"
  /\ UNCHANGED << mode, q, losses >>

\* What the event loop and the nodes do with what waits.
Work ==
  \/ EcpNgDataEvent \/ Receive \/ CcpDataInput
  \/ CcpRecvMsg \/ CcpRecvResetReq \/ CcpRecvResetAck

Send == \E f \in Frames : CcpDataOutput(f)

Next == Send \/ Work \/ LoseData \/ LoseRequest \/ Reopen

Spec == Init /\ [][Next]_vars

\* The event loop never stops as long as anything waits, but may come to the sockets in any
\* order; and the interface keeps sending.
Fairness == WF_vars(Send) /\ WF_vars(Work)

FairSpec == Spec /\ Fairness

----------------------------------------------------------------------------
(* Properties. *)

\* Without loss and with every frame decompressed in the epoch it was compressed in, the two
\* tables are the same whenever nothing is on its way; and no frame fails but for a loss, or
\* because a reset overtook frames or was overtaken.
InStep ==
  ~ trace.upset => /\ up # "error"
                   /\ InFlight = 0 /\ trace.at = trace.epoch /\ ~ snd.flush => rcv.codec = snd.codec

\* Whether the largest packet that the interface sends fits into what the peer can receive;
\* BundUpdateParams() sees to it when the layers come up.  Not so for some sizes when a frame
\* is both compressed and encrypted: the room for the compression is taken off first,
\* although the frame is compressed first, so that what is left is whole blocks before and
\* not after the compression.
FramesFit ==
  LET tooLarge == CASE mode.enc = "none" \/ mode.comp \in {"none", "deflate"} -> {}
                    [] mode.enc # "none" /\ mode.comp = "pred1" -> {0, 1}
                    [] mode.enc # "none" /\ mode.comp = "mppc"  -> {0, 1, 6, 7}
  IN  \A size \in Mrus, x \in 0 .. 9 :
        Encrypted(Compressed(BundUpdateParams(size)), x) > size <=> size % 8 \in tooLarge

\* Nothing garbled goes up, however many frames are lost, as long as it is not as many in a
\* row as there are sequence numbers; frames of all sizes fit but those that FramesFit
\* names; and DESE-bis takes off the padding it put on, whatever the last octet.
DeliveredIntact ==
  /\ up = "garbled" => trace.gap >= SeqNums
  /\ snd = NewSnd /\ rcv = NewRcv =>
       FramesFit /\ \A size \in Mrus, x \in 0 .. 9 : BisStripped(size, x) = size

\* Once the link loses nothing more, frames get through again and again.
FramesGetThrough == []<>(up = "intact")
=============================================================================
