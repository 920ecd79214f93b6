-------------------------- MODULE EventLoopProofs ---------------------------
(***************************************************************************)
(* Proofs about the event loop and the message queue, for any number of    *)
(* events, threads and messages and every length of the ring.  First the   *)
(* queue: no wake-up is lost and the ring implements MsgFifo.  Then the    *)
(* loop: every event of pevent.c has the references that its holders       *)
(* account for, handlers are called for living objects only, and the loop  *)
(* does not sleep on stale knowledge.  The queue inside the loop makes the *)
(* steps of MsgQueue only, so that its theorems hold there as well.        *)
(***************************************************************************)
EXTENDS EventLoop, FiniteSetTheorems, SequenceTheorems, TLAPS

----------------------------------------------------------------------------
(* The message queue: index arithmetic. *)

\* An index plus at most one turn, & MSG_QUEUE_MASK.
LEMMA Wrap ==
  ASSUME NEW k \in 0 .. (2 * QueueLen - 1)
  PROVE  k % QueueLen = IF k < QueueLen THEN k ELSE k - QueueLen
<1>1. CASE k < QueueLen
  BY <1>1, MsgAssumption, SMT
<1>2. CASE k >= QueueLen
  <2>1. PICK j \in 0 .. (QueueLen - 1) : k = j + QueueLen
    BY <1>2, MsgAssumption, SMT
  <2>2. (j + QueueLen) % QueueLen = j
    BY MsgAssumption, SMT
  <2> QED BY <1>2, <2>1, <2>2, MsgAssumption, SMT
<1> QED BY <1>1, <1>2, MsgAssumption, SMT

LEMMA NextSlotWraps ==
  ASSUME NEW i \in Slots
  PROVE  /\ NextSlot(i) \in Slots
         /\ NextSlot(i) = IF i + 1 = QueueLen THEN 0 ELSE i + 1
<1>1. i + 1 \in 0 .. (2 * QueueLen - 1)
  BY MsgAssumption, SMT DEF Slots
<1> QED BY <1>1, Wrap, MsgAssumption, SMT DEF NextSlot, Slots

\* The number of messages grows by one with the head and shrinks by one with the
\* tail, and is zero exactly if the two meet.
LEMMA QueueLenMoves ==
  ASSUME NEW h \in Slots, NEW t \in Slots
  PROVE  /\ QUEUELEN(h, t) \in 0 .. (QueueLen - 1)
         /\ QUEUELEN(h, t) = 0 <=> h = t
         /\ NextSlot(h) # t => QUEUELEN(NextSlot(h), t) = QUEUELEN(h, t) + 1
         /\ NextSlot(h) = t => QUEUELEN(h, t) = QueueLen - 1
         /\ h # t => QUEUELEN(h, NextSlot(t)) = QUEUELEN(h, t) - 1
<1>1. /\ NextSlot(h) = IF h + 1 = QueueLen THEN 0 ELSE h + 1
      /\ NextSlot(t) = IF t + 1 = QueueLen THEN 0 ELSE t + 1
  BY NextSlotWraps
<1> QED BY <1>1, MsgAssumption, SMT DEF QUEUELEN, Slots

LEMMA OverloadIsPercentage ==
  ASSUME NEW n \in Nat
  PROVE  Overload(n) \in 0 .. 100
<1> DEFINE d == QThresMax - QThresMin
           x == (n - QThresMin) * 100
<1>1. CASE QThresMin < n /\ n <= QThresMax
  <2>1. d \in Nat \ {0} /\ x \in Nat /\ x <= d * 100
    BY <1>1, MsgAssumption, SMT
  <2>2. x \div d \in 0 .. 100
    <3> HIDE DEF d, x
    <3> QED BY <2>1, SMT
  <2> QED BY <1>1, <2>2, MsgAssumption, SMT DEF Overload
<1>2. CASE ~(QThresMin < n /\ n <= QThresMax)
  BY <1>2, MsgAssumption, SMT DEF Overload
<1> QED BY <1>1, <1>2

----------------------------------------------------------------------------
(* The messages of a piece of the ring as a sequence. *)

LEMMA AtWraps ==
  ASSUME NEW k \in 0 .. (2 * QueueLen - 1)
  PROVE  At(k) \in Slots /\ At(k) = IF k < QueueLen THEN k ELSE k - QueueLen
<1>1. At(k) = IF k < QueueLen THEN k ELSE k - QueueLen
  BY Wrap DEF At
<1> QED BY <1>1, MsgAssumption, SMT DEF Slots

\* Fewer than a whole turn apart, two positions are two slots.
LEMMA AtApart ==
  ASSUME NEW f \in Slots, NEW n \in 0 .. (QueueLen - 1), NEW i \in 1 .. n
  PROVE  At(f + i - 1) \in Slots /\ At(f + n) \in Slots /\ At(f + i - 1) # At(f + n)
<1>1. f + i - 1 \in 0 .. (2 * QueueLen - 1) /\ f + n \in 0 .. (2 * QueueLen - 1)
  BY MsgAssumption, SMT DEF Slots
<1>2. At(f + n) \in Slots /\ At(f + n) = IF f + n < QueueLen THEN f + n ELSE f + n - QueueLen
  BY <1>1, AtWraps, MsgAssumption, SMT DEF Slots
<1>3. /\ At(f + i - 1) \in Slots
      /\ At(f + i - 1) = IF f + i - 1 < QueueLen THEN f + i - 1 ELSE f + i - 1 - QueueLen
  BY <1>1, AtWraps, MsgAssumption, SMT DEF Slots
<1> QED BY <1>2, <1>3, MsgAssumption, SMT DEF Slots

\* Counting from the next slot is counting one further.
LEMMA AtNext ==
  ASSUME NEW f \in Slots, NEW i \in 1 .. (QueueLen - 1)
  PROVE  At(NextSlot(f) + i - 1) = At(f + (i + 1) - 1)
<1>1. NextSlot(f) \in Slots /\ NextSlot(f) = IF f + 1 = QueueLen THEN 0 ELSE f + 1
  BY NextSlotWraps
<1>2. /\ f + (i + 1) - 1 \in 0 .. (2 * QueueLen - 1)
      /\ NextSlot(f) + i - 1 \in 0 .. (2 * QueueLen - 1)
  BY <1>1, MsgAssumption, SMT DEF Slots
<1>3. At(f + (i + 1) - 1)
        = IF f + (i + 1) - 1 < QueueLen THEN f + (i + 1) - 1 ELSE f + (i + 1) - 1 - QueueLen
  BY <1>2, AtWraps, MsgAssumption, SMT DEF Slots
<1>4. At(NextSlot(f) + i - 1)
        = IF NextSlot(f) + i - 1 < QueueLen
          THEN NextSlot(f) + i - 1 ELSE NextSlot(f) + i - 1 - QueueLen
  BY <1>1, <1>2, AtWraps, MsgAssumption, SMT DEF Slots
<1> QED BY <1>1, <1>3, <1>4, MsgAssumption, SMT DEF Slots

\* Counting from slot 0 of a count: the slot itself.
LEMMA AtSelf ==
  ASSUME NEW f \in Slots
  PROVE  At(f + 1 - 1) = f
<1>1. f \in 0 .. (2 * QueueLen - 1) /\ f < QueueLen /\ f + 1 - 1 = f
  BY MsgAssumption, SMT DEF Slots
<1> QED BY <1>1, AtWraps, MsgAssumption, SMT DEF Slots

\* The head is as far from the tail as there are messages.
LEMMA AtHead ==
  ASSUME NEW h \in Slots, NEW t \in Slots
  PROVE  At(t + QUEUELEN(h, t)) = h
<1>1. /\ QUEUELEN(h, t) \in 0 .. (QueueLen - 1)
      /\ QUEUELEN(h, t) = IF h >= t THEN h - t ELSE h + QueueLen - t
  BY QueueLenMoves DEF QUEUELEN
<1>2. t + QUEUELEN(h, t) \in 0 .. (2 * QueueLen - 1)
  BY <1>1, MsgAssumption, SMT DEF Slots
<1> QED BY <1>1, <1>2, AtWraps, MsgAssumption, SMT DEF Slots

LEMMA RingIsSequence ==
  ASSUME NEW q \in [Slots -> Msgs \cup {None}], NEW f \in Slots,
         NEW n \in 0 .. (QueueLen - 1)
  PROVE  /\ Ring(q, f, n) \in Seq(Msgs \cup {None})
         /\ Len(Ring(q, f, n)) = n
         /\ \A i \in 1 .. n : Ring(q, f, n)[i] = q[At(f + i - 1)]
<1>1. \A i \in 1 .. n : At(f + i - 1) \in Slots
  <2> TAKE i \in 1 .. n
  <2>1. f + i - 1 \in 0 .. (2 * QueueLen - 1)
    BY MsgAssumption, SMT DEF Slots
  <2> QED BY <2>1, AtWraps
<1> QED BY <1>1, SMT DEF Ring

\* Taking the oldest message moves the first slot on by one.
LEMMA RingTail ==
  ASSUME NEW q \in [Slots -> Msgs \cup {None}], NEW f \in Slots,
         NEW n \in 1 .. (QueueLen - 1)
  PROVE  /\ Ring(q, f, n) # << >>
         /\ Head(Ring(q, f, n)) = q[f]
         /\ Tail(Ring(q, f, n)) = Ring(q, NextSlot(f), n - 1)
<1> DEFINE r == Ring(q, f, n)
           s == Ring(q, NextSlot(f), n - 1)
<1>1. /\ NextSlot(f) \in Slots
      /\ NextSlot(f) = IF f + 1 = QueueLen THEN 0 ELSE f + 1
      /\ n - 1 \in 0 .. (QueueLen - 1) /\ n \in 0 .. (QueueLen - 1)
  BY NextSlotWraps, MsgAssumption, SMT
<1>2. /\ r \in Seq(Msgs \cup {None}) /\ Len(r) = n
      /\ \A i \in 1 .. n : r[i] = q[At(f + i - 1)]
  BY <1>1, RingIsSequence
<1>3. /\ s \in Seq(Msgs \cup {None}) /\ Len(s) = n - 1
      /\ \A i \in 1 .. n - 1 : s[i] = q[At(NextSlot(f) + i - 1)]
  BY <1>1, RingIsSequence
<1> HIDE DEF r, s
<1>4. r[1] = q[f]
  <2>1. 1 \in 1 .. n
    BY SMT
  <2> QED BY <2>1, <1>2, AtSelf
<1>5. \A i \in 1 .. n - 1 : s[i] = r[i + 1]
  <2> TAKE i \in 1 .. n - 1
  <2>1. i + 1 \in 1 .. n /\ i \in 1 .. (QueueLen - 1)
    BY MsgAssumption, SMT
  <2> QED BY <2>1, AtNext, <1>2, <1>3
<1>6. Tail(r) = s
  <2>1. /\ Tail(r) \in Seq(Msgs \cup {None}) /\ Len(Tail(r)) = n - 1
        /\ \A i \in 1 .. n - 1 : Tail(r)[i] = r[i + 1]
    BY <1>2, MsgAssumption, SMT
  <2> QED BY <2>1, <1>3, <1>5, SMT
<1>7. r # << >> /\ Head(r) = r[1]
  BY <1>2, MsgAssumption, SMT
<1> QED BY <1>4, <1>6, <1>7 DEF r, s

\* A message stored at the head joins the end of the sequence.
LEMMA RingAppend ==
  ASSUME NEW q \in [Slots -> Msgs \cup {None}], NEW f \in Slots,
         NEW n \in 0 .. (QueueLen - 2), NEW m \in Msgs,
         NEW h \in Slots, h = At(f + n)
  PROVE  Ring([q EXCEPT ![h] = m], f, n + 1) = Append(Ring(q, f, n), m)
<1> DEFINE moved == [q EXCEPT ![h] = m]
           r == Ring(q, f, n)
           s == Ring(moved, f, n + 1)
<1>1. moved \in [Slots -> Msgs \cup {None}] /\ moved[h] = m /\ \A k \in Slots \ {h} : moved[k] = q[k]
  OBVIOUS
<1> HIDE DEF moved
<1>2. n \in 0 .. (QueueLen - 1) /\ n + 1 \in 0 .. (QueueLen - 1)
  BY MsgAssumption, SMT
<1>3. /\ r \in Seq(Msgs \cup {None}) /\ Len(r) = n
      /\ \A i \in 1 .. n : r[i] = q[At(f + i - 1)]
  BY <1>2, RingIsSequence
<1>4. /\ s \in Seq(Msgs \cup {None}) /\ Len(s) = n + 1
      /\ \A i \in 1 .. n + 1 : s[i] = moved[At(f + i - 1)]
  BY <1>1, <1>2, RingIsSequence
<1> HIDE DEF r, s
<1>5. \A i \in 1 .. n : At(f + i - 1) \in Slots \ {h}
  BY <1>2, AtApart
<1>6. \A i \in 1 .. n : s[i] = r[i]
  <2> TAKE i \in 1 .. n
  <2>1. i \in 1 .. n + 1
    BY MsgAssumption, SMT
  <2> QED BY <2>1, <1>1, <1>3, <1>4, <1>5
<1>7. s[n + 1] = m
  <2>1. f + (n + 1) - 1 = f + n /\ n + 1 \in 1 .. n + 1
    BY MsgAssumption, SMT DEF Slots
  <2> QED BY <2>1, <1>1, <1>4
<1>8. s = Append(r, m)
  BY <1>3, <1>4, <1>6, <1>7, SMT
<1> QED BY <1>8 DEF moved, r, s

----------------------------------------------------------------------------
(* Invariance. *)

Count == QUEUELEN(msgqueueh, msgqueuet)

\* Every slot from the tail up to the head holds a message.
Filled == ~exited => \A i \in 1 .. Count : msgqueue[At(msgqueuet + i - 1)] \in Msgs

IInv == TypeOK /\ NoLostWakeup /\ HandledIsInRing /\ Filled

\* The oldest message is in the tail slot.
LEMMA TailFilled ==
  ASSUME IInv, ~exited, msgqueueh # msgqueuet
  PROVE  msgqueue[msgqueuet] \in Msgs
<1>1. Count \in 0 .. (QueueLen - 1) /\ Count # 0
  BY QueueLenMoves DEF IInv, TypeOK, Count
<1>2. 1 \in 1 .. Count
  BY <1>1, MsgAssumption, SMT
<1>3. At(msgqueuet + 1 - 1) = msgqueuet
  BY AtSelf DEF IInv, TypeOK
<1> QED BY <1>2, <1>3 DEF IInv, Filled

LEMMA InitInvariant == Init => IInv
<1> SUFFICES ASSUME Init PROVE IInv
  OBVIOUS
<1>1. 0 \in Slots
  BY MsgAssumption, SMT DEF Slots
<1>2. Count = 0
  BY <1>1, QueueLenMoves DEF Count, Init
<1>3. TypeOK
  <2>1. gOverload \in 0 .. 100
    BY SMT DEF Init
  <2>2. msgpipesent \in BOOLEAN /\ running \in BOOLEAN /\ exited \in BOOLEAN
    BY Zenon DEF Init
  <2>3. msgqueue \in [Slots -> Msgs \cup {None}] /\ pipe \in {0, 1}
    BY DEF Init
  <2> QED BY <1>1, <2>1, <2>2, <2>3 DEF Init, TypeOK
<1>4. NoLostWakeup /\ HandledIsInRing
  <2>1. msgqueueh = msgqueuet /\ ~msgpipesent /\ pipe = 0 /\ ~running
    BY DEF Init
  <2> QED BY <2>1, SMT DEF NoLostWakeup, HandledIsInRing
<1>5. Filled
  <2>1. 1 .. Count = {}
    BY <1>2, SMT
  <2> QED BY <2>1 DEF Filled
<1> QED BY <1>3, <1>4, <1>5 DEF IInv

\* What a send that finds room does to the ring.
LEMMA SendKeeps ==
  ASSUME IInv, NEW m \in Msgs, MsgSend(m), NextSlot(msgqueueh) # msgqueuet
  PROVE  Count' = Count + 1 /\ Filled'
<1>1. /\ msgqueueh \in Slots /\ msgqueuet \in Slots /\ ~exited /\ ~exited'
      /\ msgqueueh' = NextSlot(msgqueueh) /\ msgqueuet' = msgqueuet
      /\ msgqueue \in [Slots -> Msgs \cup {None}]
      /\ msgqueue' = [msgqueue EXCEPT ![msgqueueh] = m]
  BY DEF IInv, TypeOK, MsgSend
<1>2. /\ Count' = Count + 1
      /\ Count \in 0 .. (QueueLen - 1) /\ Count' \in 0 .. (QueueLen - 1)
  BY <1>1, QueueLenMoves, NextSlotWraps DEF Count
<1>3. At(msgqueuet + Count) = msgqueueh
  BY <1>1, AtHead DEF Count
<1>4. ASSUME NEW i \in 1 .. Count'
      PROVE  msgqueue'[At(msgqueuet + i - 1)] \in Msgs
  <2>1. CASE i \in 1 .. Count
    <3>1. At(msgqueuet + i - 1) \in Slots /\ At(msgqueuet + i - 1) # msgqueueh
      BY <1>1, <1>2, <1>3, <2>1, AtApart
    <3>2. msgqueue[At(msgqueuet + i - 1)] \in Msgs
      BY <1>1, <2>1 DEF IInv, Filled
    <3> QED BY <1>1, <3>1, <3>2
  <2>2. CASE i = Count + 1
    <3>1. msgqueuet + i - 1 = msgqueuet + Count
      BY <1>1, <1>2, <2>2, MsgAssumption, SMT DEF Slots
    <3> QED BY <1>1, <1>3, <3>1
  <2> QED BY <1>2, <2>1, <2>2, SMT
<1> QED BY <1>1, <1>2, <1>4 DEF Filled

\* What the end of a handler does to the ring.
LEMMA HandlerKeeps ==
  ASSUME IInv, HandlerReturns
  PROVE  Count' = Count - 1 /\ Count \in 1 .. (QueueLen - 1) /\ Filled'
<1>1. /\ msgqueueh \in Slots /\ msgqueuet \in Slots /\ ~exited /\ ~exited'
      /\ msgqueueh' = msgqueueh /\ msgqueuet' = NextSlot(msgqueuet)
      /\ msgqueue' = msgqueue /\ msgqueueh # msgqueuet
  BY DEF IInv, TypeOK, HandlerReturns, HandledIsInRing
<1>2. Count' = Count - 1 /\ Count \in 0 .. (QueueLen - 1) /\ Count # 0
  BY <1>1, QueueLenMoves DEF Count
<1>3. ASSUME NEW i \in 1 .. Count'
      PROVE  msgqueue[At(NextSlot(msgqueuet) + i - 1)] \in Msgs
  <2>1. i + 1 \in 1 .. Count /\ i \in 1 .. (QueueLen - 1)
    BY <1>2, MsgAssumption, SMT
  <2>2. At(NextSlot(msgqueuet) + i - 1) = At(msgqueuet + (i + 1) - 1)
    BY <1>1, <2>1, AtNext
  <2> QED BY <1>1, <2>1, <2>2 DEF IInv, Filled
<1>4. Count \in 1 .. (QueueLen - 1)
  BY <1>2, MsgAssumption, SMT
<1> QED BY <1>1, <1>2, <1>3, <1>4 DEF Filled

LEMMA StepInvariant == IInv /\ [Next]_vars => IInv'
<1> SUFFICES ASSUME IInv, [Next]_vars PROVE IInv'
  OBVIOUS
<1>1. ASSUME NEW m \in Msgs, MsgSend(m) PROVE IInv'
  <2>1. NextSlot(msgqueueh) \in Slots
    BY NextSlotWraps DEF IInv, TypeOK
  <2>2. CASE NextSlot(msgqueueh) = msgqueuet
    <3>1. exited'
      BY <1>1, <2>2 DEF MsgSend
    <3>2. TypeOK'
      BY <1>1, <2>1, <2>2 DEF MsgSend, IInv, TypeOK
    <3> QED BY <3>1, <3>2 DEF IInv, NoLostWakeup, HandledIsInRing, Filled
  <2>3. CASE NextSlot(msgqueueh) # msgqueuet
    <3>1. Overload(QUEUELEN(NextSlot(msgqueueh), msgqueuet)) \in 0 .. 100
      <4>1. QUEUELEN(NextSlot(msgqueueh), msgqueuet) \in 0 .. (QueueLen - 1)
        BY <2>1, QueueLenMoves DEF IInv, TypeOK
      <4>2. QUEUELEN(NextSlot(msgqueueh), msgqueuet) \in Nat
        BY <4>1, MsgAssumption, SMT
      <4> QED BY <4>2, OverloadIsPercentage
    <3>2. pipe' \in {0, 1} /\ pipe' > 0 /\ msgpipesent'
      BY <1>1, <2>3, SMT DEF MsgSend, IInv, TypeOK, NoLostWakeup
    <3>3. TypeOK'
      BY <1>1, <2>1, <2>3, <3>1, <3>2 DEF MsgSend, IInv, TypeOK
    <3>4. NoLostWakeup'
      BY <3>2 DEF NoLostWakeup
    <3>5. HandledIsInRing'
      BY <1>1, <2>3 DEF MsgSend, IInv, TypeOK, HandledIsInRing
    <3> QED BY <1>1, <2>3, <3>3, <3>4, <3>5, SendKeeps DEF IInv
  <2> QED BY <2>2, <2>3
<1>2. CASE WakeUp
  <2>1. TypeOK'
    BY <1>2, Zenon DEF WakeUp, IInv, TypeOK
  <2>4. NoLostWakeup'
    <3>1. ~msgpipesent' /\ pipe' = 0 /\ (~running' => msgqueueh' = msgqueuet')
      BY <1>2, Zenon DEF WakeUp
    <3> QED BY <3>1, SMT DEF NoLostWakeup
  <2>2. HandledIsInRing'
    BY <1>2, TailFilled, MsgAssumption DEF WakeUp, HandledIsInRing
  <2>3. Filled'
    BY <1>2 DEF WakeUp, IInv, Filled, Count
  <2> QED BY <2>1, <2>2, <2>3, <2>4 DEF IInv
<1>3. CASE HandlerReturns
  <2>1. NextSlot(msgqueuet) \in Slots
    BY NextSlotWraps DEF IInv, TypeOK
  <2>2. Count' = Count - 1 /\ Count \in 1 .. (QueueLen - 1) /\ Filled'
    BY <1>3, HandlerKeeps
  <2>3. Overload(QUEUELEN(msgqueueh, msgqueuet')) \in 0 .. 100
    <3>1. Count' \in Nat
      BY <2>2, MsgAssumption, SMT
    <3> QED BY <1>3, <3>1, OverloadIsPercentage DEF Count, HandlerReturns
  <2>4. TypeOK'
    BY <1>3, <2>1, <2>3 DEF HandlerReturns, IInv, TypeOK
  <2>5. NoLostWakeup'
    BY <1>3 DEF HandlerReturns, IInv, NoLostWakeup
  <2>6. HandledIsInRing'
    <3> SUFFICES ASSUME msgqueueh' # msgqueuet' PROVE msgqueue'[msgqueuet'] # None
      BY <1>3 DEF HandlerReturns, HandledIsInRing
    <3>1. Count' # 0
      BY <1>3, <2>1, QueueLenMoves DEF Count, HandlerReturns, IInv, TypeOK
    <3>2. 1 \in 1 .. Count'
      BY <2>2, <3>1, MsgAssumption, SMT
    <3>3. At(msgqueuet' + 1 - 1) = msgqueuet'
      BY <1>3, <2>1, AtSelf DEF HandlerReturns
    <3>4. msgqueue'[msgqueuet'] \in Msgs
      BY <1>3, <2>2, <3>2, <3>3 DEF Filled, HandlerReturns
    <3> QED BY <3>4, MsgAssumption
  <2> QED BY <2>2, <2>4, <2>5, <2>6 DEF IInv
<1>4. CASE UNCHANGED vars
  BY <1>4 DEF vars, IInv, TypeOK, NoLostWakeup, HandledIsInRing, Filled, Count
<1> QED BY <1>1, <1>2, <1>3, <1>4 DEF Next

\* Every reachable state of the queue satisfies the inductive invariant.
THEOREM Invariance == Spec => []IInv
<1> QED BY InitInvariant, StepInvariant, PTL DEF Spec

\* Indices, flag, pipe and overload percentage of msg.c keep their types: the pipe
\* never holds two bytes and SETOVERLOAD() yields a percentage.
THEOREM TypeCorrect == Spec => []TypeOK
<1>1. IInv => TypeOK
  BY DEF IInv
<1> QED BY <1>1, Invariance, PTL

\* MsgEvent() and MsgSend() lose no wake-up, whatever the length of the ring.
THEOREM WakeupNeverLost == Spec => []NoLostWakeup
<1>1. IInv => NoLostWakeup
  BY DEF IInv
<1> QED BY <1>1, Invariance, PTL

\* A handler's own message stays in its slot while the handler runs.
THEOREM HandledStaysInRing == Spec => []HandledIsInRing
<1>1. IInv => HandledIsInRing
  BY DEF IInv
<1> QED BY <1>1, Invariance, PTL

----------------------------------------------------------------------------
(* The ring implements the queue of MsgFifo. *)

\* How many messages wait, and where they start.
LEMMA WaitingCount ==
  ASSUME IInv, ~exited
  PROVE  /\ First \in Slots /\ Waiting \in 0 .. (QueueLen - 1)
         /\ ~running => Waiting = Count /\ First = msgqueuet
         /\ running => Waiting = Count - 1 /\ First = NextSlot(msgqueuet)
         /\ running => Waiting + 1 \in 1 .. (QueueLen - 1)
<1>1. /\ Count \in 0 .. (QueueLen - 1) /\ (Count = 0 <=> msgqueueh = msgqueuet)
      /\ msgqueuet \in Slots /\ NextSlot(msgqueuet) \in Slots
  BY QueueLenMoves, NextSlotWraps DEF IInv, TypeOK, Count
<1>2. CASE running
  <2>1. Count # 0
    BY <1>1, <1>2 DEF IInv, HandledIsInRing
  <2>2. Waiting = Count - 1 /\ First = NextSlot(msgqueuet)
    BY <1>2 DEF Waiting, First, Count
  <2> QED BY <1>1, <1>2, <2>1, <2>2, MsgAssumption, SMT
<1>3. CASE ~running
  <2>1. Waiting = Count - 0 /\ First = msgqueuet
    BY <1>3 DEF Waiting, First, Count
  <2> QED BY <1>1, <1>3, <2>1, MsgAssumption, SMT
<1> QED BY <1>2, <1>3

\* The abstract queue is as long as messages wait.
LEMMA FifoQueueLength ==
  ASSUME IInv, ~exited
  PROVE  /\ FifoQueue = Ring(msgqueue, First, Waiting)
         /\ Len(FifoQueue) = Waiting
         /\ FifoQueue = << >> <=> Waiting = 0
         /\ running => FifoHandling \in Msgs /\ FifoHandling # None
         /\ ~running => FifoHandling = None
<1>1. FifoQueue = Ring(msgqueue, First, Waiting)
  BY DEF FifoQueue
<1>2. /\ FifoQueue \in Seq(Msgs \cup {None}) /\ Len(FifoQueue) = Waiting
  BY <1>1, WaitingCount, RingIsSequence DEF IInv, TypeOK
<1>3. FifoQueue = << >> <=> Waiting = 0
  BY <1>2, SMT
<1>4. running => FifoHandling \in Msgs
  BY TailFilled DEF FifoHandling, IInv, HandledIsInRing
<1>5. ~running => FifoHandling = None
  BY DEF FifoHandling
<1> QED BY <1>1, <1>2, <1>3, <1>4, <1>5, MsgAssumption

\* The messages pending in the abstract queue are the ones of the ring.
LEMMA FifoPending ==
  ASSUME IInv, ~exited
  PROVE  Fifo!Pending = Count
<1>1. Count \in 0 .. (QueueLen - 1)
  BY QueueLenMoves DEF IInv, TypeOK, Count
<1>2. Fifo!Pending = Waiting + (IF FifoHandling = None THEN 0 ELSE 1)
  BY FifoQueueLength DEF Fifo!Pending
<1>3. CASE running
  BY <1>1, <1>2, <1>3, WaitingCount, FifoQueueLength, MsgAssumption, SMT
<1>4. CASE ~running
  BY <1>1, <1>2, <1>4, WaitingCount, FifoQueueLength, MsgAssumption, SMT
<1> QED BY <1>3, <1>4

\* Initially both are empty.
LEMMA InitRefines == Init => Fifo!Init
<1> SUFFICES ASSUME Init PROVE Fifo!Init
  OBVIOUS
<1>1. IInv /\ ~exited /\ ~running
  BY InitInvariant DEF Init
<1>2. 0 \in Slots /\ Count = 0
  <2>1. 0 \in Slots
    BY MsgAssumption, SMT DEF Slots
  <2> QED BY <2>1, QueueLenMoves DEF Count, Init
<1>3. FifoQueue = << >> /\ FifoHandling = None
  BY <1>1, <1>2, WaitingCount, FifoQueueLength
<1> QED BY <1>1, <1>3, Zenon DEF Fifo!Init

\* A send is a Send, or the Overflow that ends the process.
LEMMA SendRefines ==
  ASSUME IInv, IInv', NEW m \in Msgs, MsgSend(m)
  PROVE  Fifo!Next
<1>1. /\ ~exited /\ msgqueueh \in Slots /\ msgqueuet \in Slots
      /\ msgqueueh' = NextSlot(msgqueueh) /\ msgqueuet' = msgqueuet
      /\ msgqueue \in [Slots -> Msgs \cup {None}]
      /\ msgqueue' = [msgqueue EXCEPT ![msgqueueh] = m] /\ (running' <=> running)
  BY DEF IInv, TypeOK, MsgSend
<1>2. Fifo!Pending = Count /\ Count \in 0 .. (QueueLen - 1)
  BY <1>1, FifoPending, QueueLenMoves DEF Count
<1>3. CASE NextSlot(msgqueueh) = msgqueuet
  <2>1. exited'
    BY <1>1, <1>3 DEF MsgSend
  <2>2. Count = QueueLen - 1
    BY <1>1, <1>3, QueueLenMoves DEF Count
  <2>3. FifoQueue' = << >> /\ FifoHandling' = None
    BY <2>1 DEF FifoQueue, FifoHandling
  <2>4. Fifo!Overflow
    BY <1>1, <1>2, <2>1, <2>2, <2>3, Zenon DEF Fifo!Overflow
  <2> QED BY <2>4 DEF Fifo!Next
<1>4. CASE NextSlot(msgqueueh) # msgqueuet
  <2>1. /\ ~exited' /\ Count' = Count + 1 /\ Count' \in 0 .. (QueueLen - 1)
    BY <1>1, <1>4, SendKeeps, QueueLenMoves, NextSlotWraps DEF MsgSend, Count
  <2>2. Count < QueueLen - 1
    BY <1>2, <2>1, MsgAssumption, SMT
  <2>3. First' = First /\ Waiting' = Waiting + 1 /\ Waiting \in 0 .. (QueueLen - 2)
    <3>1. First' = First
      BY <1>1 DEF First
    <3>2. CASE running
      <4>1. Waiting = Count - 1 /\ Waiting' = Count' - 1 /\ Waiting \in 0 .. (QueueLen - 1)
        BY <1>1, <3>2, WaitingCount DEF Waiting, Count
      <4> QED BY <1>2, <2>1, <2>2, <3>1, <4>1, MsgAssumption, SMT
    <3>3. CASE ~running
      <4>1. Waiting = Count - 0 /\ Waiting' = Count' - 0
        BY <1>1, <3>3 DEF Waiting, Count
      <4> QED BY <1>2, <2>1, <2>2, <3>1, <4>1, MsgAssumption, SMT
    <3> QED BY <3>2, <3>3
  <2>4. msgqueueh = At(First + Waiting)
    <3>1. At(msgqueuet + Count) = msgqueueh
      BY <1>1, AtHead DEF Count
    <3>2. CASE ~running
      BY <1>1, <3>1, <3>2, WaitingCount
    <3>3. CASE running
      <4>1. Waiting + 1 \in 1 .. (QueueLen - 1) /\ First = NextSlot(msgqueuet)
        BY <1>1, <3>3, WaitingCount
      <4>2. At(NextSlot(msgqueuet) + (Waiting + 1) - 1) = At(msgqueuet + ((Waiting + 1) + 1) - 1)
        BY <1>1, <4>1, AtNext
      <4>3. /\ NextSlot(msgqueuet) + (Waiting + 1) - 1 = First + Waiting
            /\ msgqueuet + ((Waiting + 1) + 1) - 1 = msgqueuet + Count
        <5>1. Waiting = Count - 1 /\ First \in Slots
          BY <1>1, <3>3, WaitingCount
        <5> QED BY <1>1, <1>2, <2>3, <4>1, <5>1, MsgAssumption, SMT DEF Slots
      <4> QED BY <3>1, <4>2, <4>3
    <3> QED BY <3>2, <3>3
  <2>5. FifoQueue' = Append(FifoQueue, m)
    <3>1. First \in Slots
      BY <1>1, WaitingCount
    <3>2. Ring(msgqueue', First, Waiting + 1) = Append(Ring(msgqueue, First, Waiting), m)
      BY <1>1, <2>3, <2>4, <3>1, RingAppend, ZenonT(60)
    <3>3. FifoQueue' = Ring(msgqueue', First', Waiting')
      BY <2>1 DEF FifoQueue, Ring
    <3>4. FifoQueue = Ring(msgqueue, First, Waiting)
      BY <1>1, FifoQueueLength
    <3> QED BY <2>3, <3>2, <3>3, <3>4
  <2>6. FifoHandling' = FifoHandling
    <3>1. running => msgqueue'[msgqueuet'] = msgqueue[msgqueuet]
      BY <1>1 DEF IInv, HandledIsInRing
    <3> QED BY <1>1, <2>1, <3>1 DEF FifoHandling
  <2>7. Fifo!Send(m)
    BY <1>1, <1>2, <2>1, <2>2, <2>5, <2>6, Zenon DEF Fifo!Send
  <2> QED BY <2>7 DEF Fifo!Next
<1> QED BY <1>3, <1>4

\* The event loop that wakes up takes the oldest message, or finds none.
LEMMA WakeUpRefines ==
  ASSUME IInv, WakeUp
  PROVE  Fifo!Next \/ UNCHANGED Fifo!vars
<1>1. /\ ~exited /\ ~exited' /\ ~running /\ (running' <=> msgqueuet # msgqueueh)
      /\ msgqueue' = msgqueue /\ msgqueueh' = msgqueueh /\ msgqueuet' = msgqueuet
      /\ msgqueuet \in Slots /\ msgqueue \in [Slots -> Msgs \cup {None}]
  BY Zenon DEF WakeUp, IInv, TypeOK
<1>2. /\ Waiting = Count /\ First = msgqueuet /\ Count \in 0 .. (QueueLen - 1)
      /\ Count = 0 <=> msgqueueh = msgqueuet
  BY <1>1, WaitingCount, QueueLenMoves DEF Count, IInv, TypeOK
<1>3. FifoQueue = Ring(msgqueue, msgqueuet, Count) /\ FifoHandling = None
  BY <1>1, <1>2, FifoQueueLength
<1>4. CASE msgqueuet = msgqueueh
  <2>1. FifoQueue' = FifoQueue /\ FifoHandling' = FifoHandling
    BY <1>1, <1>4 DEF FifoQueue, FifoHandling, Ring, First, Waiting
  <2>2. (~exited') = (~exited)
    BY <1>1
  <2> QED BY <2>1, <2>2 DEF Fifo!vars
<1>5. CASE msgqueuet # msgqueueh
  <2>1. Count \in 1 .. (QueueLen - 1)
    BY <1>2, <1>5, MsgAssumption, SMT
  <2>2. First' = NextSlot(msgqueuet) /\ Waiting' = Count - 1
    BY <1>1, <1>5 DEF First, Waiting, Count
  <2>3. FifoQueue' = Ring(msgqueue, NextSlot(msgqueuet), Count - 1)
    BY <1>1, <2>2 DEF FifoQueue, Ring
  <2>4. FifoHandling' = msgqueue[msgqueuet]
    BY <1>1, <1>5 DEF FifoHandling
  <2>5. /\ FifoQueue # << >> /\ FifoHandling' = Head(FifoQueue)
        /\ FifoQueue' = Tail(FifoQueue)
    BY <1>1, <1>3, <2>1, <2>3, <2>4, RingTail
  <2>6. Fifo!Take
    BY <1>1, <2>5, Zenon DEF Fifo!Take
  <2> QED BY <2>6 DEF Fifo!Next
<1> QED BY <1>4, <1>5

\* The handler returns and the next message, if any, is taken.
LEMMA HandlerRefines ==
  ASSUME IInv, HandlerReturns
  PROVE  Fifo!Next
<1>1. /\ ~exited /\ ~exited' /\ running
      /\ (running' <=> NextSlot(msgqueuet) # msgqueueh)
      /\ msgqueue' = msgqueue /\ msgqueueh' = msgqueueh
      /\ msgqueuet' = NextSlot(msgqueuet)
      /\ msgqueuet \in Slots /\ NextSlot(msgqueuet) \in Slots /\ msgqueueh \in Slots
      /\ msgqueue \in [Slots -> Msgs \cup {None}]
  <2>1. msgqueuet \in Slots /\ msgqueueh \in Slots
    BY DEF IInv, TypeOK
  <2>2. NextSlot(msgqueuet) \in Slots
    BY <2>1, NextSlotWraps
  <2> QED BY <2>1, <2>2, Zenon DEF HandlerReturns, IInv, TypeOK
<1>2. Count' = Count - 1 /\ Count \in 1 .. (QueueLen - 1)
  BY HandlerKeeps
<1>3. Waiting = Count - 1 /\ First = NextSlot(msgqueuet)
  BY <1>1, WaitingCount
<1>4. FifoQueue = Ring(msgqueue, NextSlot(msgqueuet), Count - 1) /\ FifoHandling # None
  BY <1>1, <1>3, FifoQueueLength
<1>5. Count' = 0 <=> NextSlot(msgqueuet) = msgqueueh
  BY <1>1, QueueLenMoves DEF Count
<1>6. CASE NextSlot(msgqueuet) = msgqueueh
  <2>1. Waiting = 0
    BY <1>2, <1>3, <1>5, <1>6, SMT
  <2>2. FifoQueue = << >>
    BY <1>1, <2>1, FifoQueueLength
  <2>3. Waiting' = Count' - 0 /\ Count' = 0
    BY <1>1, <1>5, <1>6 DEF Waiting, Count
  <2>4. Waiting' = 0
    BY <2>3, SMT
  <2>5. FifoQueue' = << >>
    <3>1. FifoQueue' = Ring(msgqueue', First', 0)
      BY <1>1, <2>4 DEF FifoQueue, Ring
    <3>2. Ring(msgqueue', First', 0) = << >>
      BY SMT DEF Ring
    <3> QED BY <3>1, <3>2
  <2>6. FifoHandling' = None
    BY <1>1, <1>6 DEF FifoHandling
  <2>7. Fifo!Rest
    BY <1>1, <1>4, <2>2, <2>5, <2>6, Zenon DEF Fifo!Rest
  <2> QED BY <2>7 DEF Fifo!Next
<1>7. CASE NextSlot(msgqueuet) # msgqueueh
  <2>1. Count - 1 \in 1 .. (QueueLen - 1)
    BY <1>2, <1>5, <1>7, MsgAssumption, SMT
  <2>2. First' = NextSlot(NextSlot(msgqueuet)) /\ Waiting' = (Count - 1) - 1
    BY <1>1, <1>2, <1>7 DEF First, Waiting, Count
  <2>3. FifoQueue' = Ring(msgqueue, NextSlot(NextSlot(msgqueuet)), (Count - 1) - 1)
    BY <1>1, <2>2 DEF FifoQueue, Ring
  <2>4. FifoHandling' = msgqueue[NextSlot(msgqueuet)]
    BY <1>1, <1>7 DEF FifoHandling
  <2>5. /\ FifoQueue # << >> /\ FifoHandling' = Head(FifoQueue)
        /\ FifoQueue' = Tail(FifoQueue)
    BY <1>1, <1>4, <2>1, <2>3, <2>4, RingTail
  <2>6. Fifo!Take
    BY <1>1, <2>5, Zenon DEF Fifo!Take
  <2> QED BY <2>6 DEF Fifo!Next
<1> QED BY <1>6, <1>7

\* Every step of the queue is a step of MsgFifo or changes nothing there.
LEMMA StepRefines == IInv /\ IInv' /\ [Next]_vars => [Fifo!Next]_(Fifo!vars)
<1> SUFFICES ASSUME IInv, IInv', [Next]_vars PROVE [Fifo!Next]_(Fifo!vars)
  OBVIOUS
<1>1. CASE \E m \in Msgs : MsgSend(m)
  BY <1>1, SendRefines
<1>2. CASE WakeUp
  BY <1>2, WakeUpRefines
<1>3. CASE HandlerReturns
  BY <1>3, HandlerRefines
<1>4. CASE UNCHANGED vars
  <2>1. FifoQueue' = FifoQueue /\ FifoHandling' = FifoHandling /\ (~exited') = (~exited)
    BY <1>4 DEF vars, FifoQueue, FifoHandling, Ring, First, Waiting
  <2> QED BY <2>1 DEF Fifo!vars
<1> QED BY <1>1, <1>2, <1>3, <1>4 DEF Next

\* The safety part of ImplementsFifo, for every ring: messages are handed over
\* exactly once and in the order of MsgSend(), and the process ends only on a send
\* that finds QUEUELEN() messages pending.
THEOREM RefinesFifo == Spec => Fifo!Spec
<1>1. Init => Fifo!Init
  BY InitRefines
<1>2. IInv /\ IInv' /\ [Next]_vars => [Fifo!Next]_(Fifo!vars)
  BY StepRefines
<1> QED BY <1>1, <1>2, Invariance, PTL DEF Spec, Fifo!Spec

----------------------------------------------------------------------------
(* The event loop. *)

Pevents == [ref : Handles \cup {NoEvent}, occurred : BOOLEAN, canceled : BOOLEAN,
            enqueued : BOOLEAN, recurring : BOOLEAN, polled : BOOLEAN, refs : Nat]

PCs == {"none", "build", "poll", "service", "execute", "enter", "handler"}

Contexts == [ev : [Structs -> Pevents], pe : [Handles -> Structs \cup {NoEvent}],
             events : Seq(Structs), notified : BOOLEAN, wrote : BOOLEAN, pc : PCs,
             cur : Structs \cup {NoEvent}]

----------------------------------------------------------------------------
(* The inductive invariant, part by part, of a context and the live objects. *)

\* The user still holds the event.
Registered(c, e) == c.ev[e].ref # NoEvent /\ c.pe[c.ev[e].ref] = e

\* The references of an event: of its handle, of the list, and of the loop.
Refs(c, e) == (IF Registered(c, e) THEN 1 ELSE 0) + (IF c.ev[e].enqueued THEN 1 ELSE 0)
              + (IF c.cur = e THEN 1 ELSE 0)

\* The list has each event that is marked as enqueued, once.
Listed(c) == IsInjective(c.events) /\ \A e \in Structs : e \in ToSet(c.events) <=> c.ev[e].enqueued

\* A handle and its event point at each other.
Held(c, alive) ==
  \A h \in Handles : c.pe[h] # NoEvent =>
    h \in alive /\ c.ev[c.pe[h]].ref = h /\ ~ c.ev[c.pe[h]].canceled

Counted(c) == \A e \in Structs : c.ev[e].refs = Refs(c, e)

Waits(c) == \A e \in Structs : c.ev[e].enqueued => Registered(c, e)

\* The event in the loop's hands is not in the list; until it is cancelled its handle is
\* there, and between that and the call of its handler its object is.
Serving == {"execute", "enter", "handler"}

Served(c, alive) ==
  /\ c.cur # NoEvent <=> c.pc \in Serving
  /\ c.cur # NoEvent => (c.ev[c.cur].ref # NoEvent /\ ~ c.ev[c.cur].enqueued)
  /\ c.pc = "execute" => (c.ev[c.cur].canceled \/ Registered(c, c.cur))
  /\ c.pc = "enter" => c.ev[c.cur].ref \in alive

Sleeps(c) == c.pc = "poll" => (c.notified \/ \A e \in ToSet(c.events) : c.ev[e].polled)

Sound(c, alive) ==
  /\ c \in Contexts
  /\ Listed(c) /\ Held(c, alive) /\ Counted(c) /\ Waits(c) /\ Served(c, alive) /\ ~ c.wrote

LoopInv ==
  /\ Sound(p, live) /\ Sleeps(p)
  /\ gGiantMutex \in {"free", "loop"} \cup Threads
  /\ p.pc \in {"enter", "handler"} <=> gGiantMutex = "loop"
  /\ live \subseteq Handles /\ timers \subseteq Handles /\ ready \subseteq live \ timers
  /\ msgh \in live \ timers

----------------------------------------------------------------------------
(* Lists. *)

\* TAILQ_REMOVE() of an event that is in the list once.
LEMMA RemoveFirstFields ==
  ASSUME NEW q \in Seq(Structs), IsInjective(q), NEW e \in ToSet(q)
  PROVE  /\ RemoveFirst(q, e) \in Seq(Structs) /\ IsInjective(RemoveFirst(q, e))
         /\ ToSet(RemoveFirst(q, e)) = ToSet(q) \ {e}
<1>1. PICK i \in DOMAIN q : q[i] = e
  BY DEF ToSet
<1>2. i \in 1 .. Len(q) /\ Len(q) \in Nat /\ DOMAIN q = 1 .. Len(q)
  BY <1>1
<1>3. RemoveFirst(q, e) = RemoveAt(q, i)
  <2>1. {j \in 1 .. Len(q) : q[j] = e} = {i}
    BY <1>1, <1>2 DEF IsInjective
  <2>2. Min({i}) = i
    BY <1>2 DEF Min
  <2> QED
    BY <1>1, <1>2, <2>1, <2>2 DEF RemoveFirst, SelectInSeq
<1> DEFINE a == SubSeq(q, 1, i - 1)
           b == SubSeq(q, i + 1, Len(q))
           r == RemoveAt(q, i)
<1>4. /\ a \in Seq(Structs) /\ Len(a) = i - 1 /\ \A j \in 1 .. i - 1 : a[j] = q[j]
      /\ b \in Seq(Structs) /\ Len(b) = Len(q) - i /\ \A j \in 1 .. Len(q) - i : b[j] = q[j + i]
  <2>1. \A j \in 1 .. Len(q) : q[j] \in Structs
    BY <1>2
  <2>2. /\ a \in Seq(Structs) /\ Len(a) = i - 1 /\ \A j \in 1 .. i - 1 : a[j] = q[j]
    BY <1>2, <2>1, SubSeqProperties
  <2>3. /\ b \in Seq(Structs) /\ Len(b) = Len(q) - i /\ \A j \in 1 .. Len(q) - i : b[j] = q[j + i]
    BY <1>2, <2>1, SubSeqProperties, SMTT(30)
  <2> QED
    BY <2>2, <2>3
<1>5. /\ r \in Seq(Structs) /\ Len(r) = Len(q) - 1
      /\ \A j \in 1 .. Len(q) - 1 : r[j] = IF j < i THEN q[j] ELSE q[j + 1]
  <2>1. r = a \o b
    BY DEF RemoveAt
  <2> HIDE DEF a, b, r
  <2>2. /\ r \in Seq(Structs) /\ Len(r) = Len(a) + Len(b)
        /\ \A j \in 1 .. Len(a) + Len(b) : r[j] = IF j <= Len(a) THEN a[j] ELSE b[j - Len(a)]
    BY <2>1, <1>4, ConcatProperties
  <2>3. Len(a) + Len(b) = Len(q) - 1
    BY <1>2, <1>4
  <2>4. ASSUME NEW j \in 1 .. Len(q) - 1
        PROVE  r[j] = IF j < i THEN q[j] ELSE q[j + 1]
    <3>1. CASE j < i
      BY <1>2, <1>4, <2>2, <2>3, <3>1, SMTT(30)
    <3>2. CASE ~(j < i)
      <4>1. j - Len(a) \in 1 .. Len(q) - i /\ ~(j <= Len(a)) /\ (j - Len(a)) + i = j + 1
        BY <1>2, <1>4, <3>2, SMTT(30)
      <4> QED
        BY <1>4, <2>2, <2>3, <3>2, <4>1
    <3> QED
      BY <3>1, <3>2
  <2> QED
    BY <2>2, <2>3, <2>4
<1> HIDE DEF a, b, r
<1>6. DOMAIN r = 1 .. Len(q) - 1
  BY <1>5
<1>7. IsInjective(r)
  <2> SUFFICES ASSUME NEW j \in DOMAIN r, NEW k \in DOMAIN r, r[j] = r[k] PROVE j = k
    BY DEF IsInjective
  <2> DEFINE at(x) == IF x < i THEN x ELSE x + 1
  <2>1. /\ at(j) \in DOMAIN q /\ q[at(j)] = r[j]
        /\ at(k) \in DOMAIN q /\ q[at(k)] = r[k]
    BY <1>2, <1>5, <1>6
  <2>2. at(j) = at(k)
    BY <2>1 DEF IsInjective
  <2> QED
    BY <1>2, <1>6, <2>2
<1>8. ToSet(r) = ToSet(q) \ {e}
  <2>1. ASSUME NEW x \in ToSet(r) PROVE x \in ToSet(q) \ {e}
    <3>1. PICK j \in DOMAIN r : r[j] = x
      BY <2>1 DEF ToSet
    <3> DEFINE k == IF j < i THEN j ELSE j + 1
    <3>2. k \in DOMAIN q /\ q[k] = x /\ k # i
      BY <1>2, <1>5, <1>6, <3>1
    <3> HIDE DEF k
    <3> QED
      BY <1>1, <3>2 DEF IsInjective, ToSet
  <2>2. ASSUME NEW x \in ToSet(q) \ {e} PROVE x \in ToSet(r)
    <3>1. PICK j \in DOMAIN q : q[j] = x
      BY <2>2 DEF ToSet
    <3> DEFINE k == IF j < i THEN j ELSE j - 1
    <3>2. k \in DOMAIN r /\ r[k] = x
      BY <1>1, <1>2, <1>5, <1>6, <2>2, <3>1
    <3> HIDE DEF k
    <3> QED
      BY <3>2 DEF ToSet
  <2> QED
    BY <2>1, <2>2
<1> QED
  BY <1>3, <1>5, <1>7, <1>8 DEF r

LEMMA AppendFields ==
  ASSUME NEW q \in Seq(Structs), IsInjective(q), NEW e \in Structs, e \notin ToSet(q)
  PROVE  /\ Append(q, e) \in Seq(Structs) /\ IsInjective(Append(q, e))
         /\ ToSet(Append(q, e)) = ToSet(q) \cup {e}
<1> DEFINE r == Append(q, e)
<1>1. /\ Len(q) \in Nat /\ DOMAIN q = 1 .. Len(q)
      /\ r \in Seq(Structs) /\ DOMAIN r = 1 .. Len(q) + 1
      /\ r[Len(q) + 1] = e /\ \A i \in 1 .. Len(q) : r[i] = q[i]
  OBVIOUS
<1> HIDE DEF r
<1>2. \A i \in DOMAIN q : q[i] # e
  BY DEF ToSet
<1>3. \A i \in DOMAIN r : i \in DOMAIN q \/ i = Len(q) + 1
  BY <1>1
<1>4. IsInjective(r)
  BY <1>1, <1>2, <1>3 DEF IsInjective
<1>5. ToSet(r) = ToSet(q) \cup {e}
  BY <1>1, <1>3 DEF ToSet
<1> QED
  BY <1>1, <1>4, <1>5 DEF r

\* What PEVENT_SET_OCCURRED() does to the list, for all that occurred.
LEMMA MovedFields ==
  ASSUME NEW q \in Seq(Structs), IsInjective(q), NEW from \in Bijection(DOMAIN q, DOMAIN q)
  PROVE  LET r == [i \in DOMAIN q |-> q[from[i]]] IN
         r \in Seq(Structs) /\ IsInjective(r) /\ ToSet(r) = ToSet(q)
<1> DEFINE r == [i \in DOMAIN q |-> q[from[i]]]
<1>1. /\ from \in [DOMAIN q -> DOMAIN q]
      /\ \A v, w \in DOMAIN q : from[v] = from[w] => v = w
      /\ \A w \in DOMAIN q : \E v \in DOMAIN q : from[v] = w
  BY DEF Bijection, Injection, Surjection, IsInjective
<1>2. DOMAIN q = 1 .. Len(q) /\ Len(q) \in Nat /\ \A i \in DOMAIN q : q[i] \in Structs
  OBVIOUS
<1>3. r \in Seq(Structs)
  BY <1>1, <1>2
<1> QED
  BY <1>1, <1>3 DEF IsInjective, ToSet

----------------------------------------------------------------------------
(* The functions of the context: what they return, field by field. *)

SameRest(c, u) == u.pc = c.pc /\ u.cur = c.cur

\* A record with one event changed.
LEMMA EventChanges ==
  ASSUME NEW c \in Contexts, NEW e \in Structs, NEW s \in Pevents
  PROVE  LET u == [c EXCEPT !.ev[e] = s] IN
         /\ u \in Contexts /\ SameRest(c, u)
         /\ u.ev = [c.ev EXCEPT ![e] = s] /\ u.pe = c.pe /\ u.events = c.events
         /\ u.notified = c.notified /\ u.wrote = c.wrote
<1>1. c.ev \in [Structs -> Pevents]
  BY DEF Contexts
<1> DEFINE f == [c.ev EXCEPT ![e] = s]
<1>2. f \in [Structs -> Pevents] /\ [c EXCEPT !.ev[e] = s] = [c EXCEPT !.ev = f]
  BY <1>1 DEF Contexts
<1> HIDE DEF f
<1>3. LET u == [c EXCEPT !.ev = f] IN
      /\ u \in Contexts /\ SameRest(c, u) /\ u.ev = f /\ u.pe = c.pe /\ u.events = c.events
      /\ u.notified = c.notified /\ u.wrote = c.wrote
  BY <1>2 DEF Contexts, SameRest
<1> QED
  BY <1>2, <1>3 DEF f

\* One reference less, the last one frees the event.
Dropped(s) == IF s.refs > 1 THEN [s EXCEPT !.refs = s.refs - 1] ELSE NoStruct

LEMMA DroppedFields ==
  ASSUME NEW s \in Pevents, s.refs > 0
  PROVE  /\ Dropped(s) \in Pevents
         /\ s.refs = 1 => Dropped(s) = NoStruct
         /\ s.refs > 1 => /\ Dropped(s).ref = s.ref /\ Dropped(s).recurring = s.recurring
                         /\ Dropped(s).enqueued = s.enqueued
                         /\ Dropped(s).canceled = s.canceled
                         /\ Dropped(s).refs = s.refs - 1
<1>1. CASE s.refs > 1
  <2>1. s.refs - 1 \in Nat /\ s.refs # 1
    BY <1>1 DEF Pevents
  <2>2. Dropped(s) = [s EXCEPT !.refs = s.refs - 1]
    BY <1>1 DEF Dropped
  <2> QED
    BY <1>1, <2>1, <2>2 DEF Pevents
<1>2. CASE ~(s.refs > 1)
  BY <1>2 DEF Dropped, NoStruct, Pevents
<1> QED
  BY <1>1, <1>2

LEMMA UnrefFields ==
  ASSUME NEW c \in Contexts, NEW e \in Structs,
         c.ev[e].refs > 0, c.ev[e].refs = 1 => ~ c.ev[e].enqueued
  PROVE  LET u == Unref(c, e) IN
         /\ u \in Contexts /\ SameRest(c, u)
         /\ u.ev = [c.ev EXCEPT ![e] = Dropped(c.ev[e])] /\ u.pe = c.pe /\ u.events = c.events
         /\ u.notified = c.notified /\ u.wrote = c.wrote
<1>1. c.ev[e] \in Pevents /\ c.wrote \in BOOLEAN
  BY DEF Contexts
<1> DEFINE d == [c EXCEPT !.ev[e] = Dropped(c.ev[e])]
<1>2. Dropped(c.ev[e]) \in Pevents
  BY <1>1, DroppedFields
<1>3. /\ d \in Contexts /\ SameRest(c, d)
      /\ d.ev = [c.ev EXCEPT ![e] = Dropped(c.ev[e])] /\ d.pe = c.pe /\ d.events = c.events
      /\ d.notified = c.notified /\ d.wrote = c.wrote
  BY <1>2, EventChanges
<1> DEFINE ok == c.ev[e].refs > 0 /\ (c.ev[e].refs = 1 => ~ c.ev[e].enqueued)
<1>4. Unref(c, e) = Check(d, ok)
  BY DEF Unref, Dropped
<1>5. Check(d, ok) = [d EXCEPT !.wrote = d.wrote]
  <2>1. ok /\ d.wrote \in BOOLEAN
    BY <1>1, <1>3
  <2> HIDE DEF d, ok
  <2>2. (d.wrote \/ ~ ok) = d.wrote
    BY <2>1
  <2> QED
    BY <2>2 DEF Check
<1> HIDE DEF d, ok
<1>6. [d EXCEPT !.wrote = d.wrote] = d
  BY <1>3 DEF Contexts
<1> QED
  BY <1>3, <1>4, <1>5, <1>6

\* An assertion that holds changes nothing.
LEMMA CheckHolds ==
  ASSUME NEW c \in Contexts, NEW ok \in BOOLEAN, ok
  PROVE  Check(c, ok) = c
<1>1. c.wrote \in BOOLEAN
  BY DEF Contexts
<1>2. (c.wrote \/ ~ ok) = c.wrote
  BY <1>1
<1>3. [c EXCEPT !.wrote = c.wrote] = c
  BY DEF Contexts
<1> QED
  BY <1>2, <1>3 DEF Check

LEMMA CancelFields ==
  ASSUME NEW c \in Contexts, NEW e \in Structs, c.ev[e].refs > 0,
         ~ c.ev[e].enqueued, ~ c.ev[e].canceled,
         c.ev[e].ref \in Handles, c.ev[e].ref \in live
  PROVE  LET u == pevent_cancel(c, e) IN
         /\ u \in Contexts /\ SameRest(c, u)
         /\ u.ev = [c.ev EXCEPT ![e] = Dropped([c.ev[e] EXCEPT !.canceled = TRUE])]
         /\ u.pe = [c.pe EXCEPT ![c.ev[e].ref] = NoEvent] /\ u.events = c.events
         /\ u.notified = c.notified /\ u.wrote = c.wrote
<1> DEFINE h  == c.ev[e].ref
           s  == [c.ev[e] EXCEPT !.canceled = TRUE]
           d  == [c EXCEPT !.ev[e] = s]
           pe == [c.pe EXCEPT ![h] = NoEvent]
           b  == [d EXCEPT !.pe = pe]
<1>1. c.ev[e] \in Pevents /\ pe \in [Handles -> Structs \cup {NoEvent}]
  BY DEF Contexts
<1>2. s \in Pevents /\ s.refs = c.ev[e].refs /\ s.enqueued = c.ev[e].enqueued
  BY <1>1 DEF Pevents
<1>3. [c EXCEPT !.ev[e].canceled = TRUE, !.pe[h] = NoEvent] = b
  BY DEF Contexts
<1>4. pevent_cancel(c, e) = Check(Unref(b, e), h \in live /\ ~ c.ev[e].canceled)
  BY <1>3 DEF pevent_cancel
<1> HIDE DEF s, pe
<1>5. /\ d \in Contexts /\ SameRest(c, d)
      /\ d.ev = [c.ev EXCEPT ![e] = s] /\ d.pe = c.pe /\ d.events = c.events
      /\ d.notified = c.notified /\ d.wrote = c.wrote
  BY <1>2, EventChanges
<1> HIDE DEF d
<1>6. /\ b \in Contexts /\ SameRest(c, b)
      /\ b.ev = d.ev /\ b.pe = pe /\ b.events = c.events
      /\ b.notified = c.notified /\ b.wrote = c.wrote
  BY <1>1, <1>5 DEF Contexts, SameRest
<1> HIDE DEF b
<1>7. b.ev[e] = s /\ [b.ev EXCEPT ![e] = Dropped(s)] = [c.ev EXCEPT ![e] = Dropped(s)]
  BY <1>5, <1>6 DEF Contexts
<1> DEFINE u == Unref(b, e)
<1>8. /\ u \in Contexts /\ SameRest(b, u)
      /\ u.ev = [c.ev EXCEPT ![e] = Dropped(s)] /\ u.pe = pe /\ u.events = c.events
      /\ u.notified = c.notified /\ u.wrote = c.wrote
  BY <1>2, <1>6, <1>7, UnrefFields
<1> HIDE DEF u
<1>9. pevent_cancel(c, e) = u
  BY <1>4, <1>8, CheckHolds DEF u
<1> QED
  BY <1>6, <1>8, <1>9 DEF s, pe, SameRest

LEMMA DequeueFields ==
  ASSUME NEW c \in Contexts, NEW e \in ToSet(c.events), c.ev[e].refs > 1,
         IsInjective(c.events)
  PROVE  LET u == PEVENT_DEQUEUE(c, e) IN
         /\ u \in Contexts /\ SameRest(c, u)
         /\ u.ev = [c.ev EXCEPT ![e] = [c.ev[e] EXCEPT !.enqueued = FALSE, !.refs = c.ev[e].refs - 1]]
         /\ u.pe = c.pe /\ u.events = RemoveFirst(c.events, e)
         /\ u.notified = c.notified /\ u.wrote = c.wrote
<1> DEFINE s == [c.ev[e] EXCEPT !.enqueued = FALSE]
           q == RemoveFirst(c.events, e)
           d == [c EXCEPT !.ev[e] = s]
           b == [d EXCEPT !.events = q]
<1>1. c.events \in Seq(Structs) /\ e \in Structs
  BY DEF Contexts, ToSet
<1>2. q \in Seq(Structs)
  BY <1>1, RemoveFirstFields
<1>3. c.ev[e] \in Pevents
  BY <1>1 DEF Contexts
<1>4. /\ s \in Pevents /\ s.refs > 0 /\ ~ s.enqueued
      /\ Dropped(s) = [c.ev[e] EXCEPT !.enqueued = FALSE, !.refs = c.ev[e].refs - 1]
  <2>1. c.ev[e].refs \in Nat /\ c.ev[e].refs - 1 \in Nat
    BY <1>3 DEF Pevents
  <2>2. s \in Pevents /\ s.refs = c.ev[e].refs /\ ~ s.enqueued
    BY <1>3 DEF Pevents
  <2>3. Dropped(s) = [s EXCEPT !.refs = c.ev[e].refs - 1]
    BY <2>2 DEF Dropped
  <2>4. [s EXCEPT !.refs = c.ev[e].refs - 1]
          = [c.ev[e] EXCEPT !.enqueued = FALSE, !.refs = c.ev[e].refs - 1]
    BY <1>3, <2>1 DEF Pevents
  <2>5. s.refs > 0
    BY <2>1, <2>2
  <2> QED
    BY <2>2, <2>3, <2>4, <2>5
<1> HIDE DEF q
<1>5. PEVENT_DEQUEUE(c, e) = Unref(b, e)
  <2>1. [c EXCEPT !.events = q, !.ev[e].enqueued = FALSE] = b
    BY DEF Contexts
  <2> QED
    BY <2>1 DEF PEVENT_DEQUEUE, q
<1> HIDE DEF s
<1>6. /\ d \in Contexts /\ SameRest(c, d)
      /\ d.ev = [c.ev EXCEPT ![e] = s] /\ d.pe = c.pe /\ d.events = c.events
      /\ d.notified = c.notified /\ d.wrote = c.wrote
  BY <1>1, <1>4, EventChanges
<1> HIDE DEF d
<1>7. /\ b \in Contexts /\ SameRest(c, b)
      /\ b.ev = d.ev /\ b.pe = c.pe /\ b.events = q
      /\ b.notified = c.notified /\ b.wrote = c.wrote
  BY <1>2, <1>6 DEF Contexts, SameRest
<1> HIDE DEF b
<1>8. b.ev[e] = s /\ [b.ev EXCEPT ![e] = Dropped(s)] = [c.ev EXCEPT ![e] = Dropped(s)]
  BY <1>1, <1>6, <1>7 DEF Contexts
<1> DEFINE u == Unref(b, e)
<1>9. /\ u \in Contexts /\ SameRest(b, u)
      /\ u.ev = [c.ev EXCEPT ![e] = Dropped(s)] /\ u.pe = c.pe /\ u.events = q
      /\ u.notified = c.notified /\ u.wrote = c.wrote
  <2>1. b.ev[e].refs > 0 /\ (b.ev[e].refs = 1 => ~ b.ev[e].enqueued)
    BY ONLY <1>4, <1>8
  <2>2. /\ u \in Contexts /\ SameRest(b, u)
        /\ u.ev = [b.ev EXCEPT ![e] = Dropped(b.ev[e])] /\ u.pe = b.pe /\ u.events = b.events
        /\ u.notified = b.notified /\ u.wrote = b.wrote
    BY ONLY <1>1, <1>7, <2>1, UnrefFields
  <2> HIDE DEF u
  <2> QED
    BY ONLY <1>7, <1>8, <2>2
<1> HIDE DEF u
<1> QED
  BY <1>4, <1>5, <1>7, <1>9 DEF q, u, SameRest

LEMMA NotifyFields ==
  ASSUME NEW c \in Contexts
  PROVE  LET u == pevent_ctx_notify(c) IN
         /\ u \in Contexts /\ SameRest(c, u) /\ u.notified
         /\ u.ev = c.ev /\ u.pe = c.pe /\ u.events = c.events /\ u.wrote = c.wrote
  BY DEF pevent_ctx_notify, Contexts, SameRest

\* An event as pevent_register() leaves it.
Registers(h, recurring) ==
  [NoStruct EXCEPT !.ref = h, !.recurring = recurring, !.enqueued = TRUE, !.refs = 2]

\* What it is to register the event e of handle h.
IsRegistered(c, u, e, h, recurring) ==
  /\ u \in Contexts /\ u.cur = c.cur
  /\ u.pc = (IF c.pc = "none" THEN "build" ELSE c.pc)
  /\ u.ev = [c.ev EXCEPT ![e] = Registers(h, recurring)]
  /\ u.pe = [c.pe EXCEPT ![h] = e] /\ u.events = Append(c.events, e)
  /\ u.notified \/ c.pc = "none"
  /\ u.wrote = c.wrote

LEMMA RegisterFields ==
  ASSUME NEW c \in Contexts, NEW h \in Handles, NEW recurring \in BOOLEAN, Free(c) # {}
  PROVE  \E e \in Free(c) : IsRegistered(c, pevent_register(c, h, recurring), e, h, recurring)
<1> DEFINE e  == CHOOSE x \in Free(c) : TRUE
           n  == [NoStruct EXCEPT !.ref = h, !.recurring = recurring, !.refs = 1]
           d  == IF c.pc = "none" THEN [c EXCEPT !.pc = "build"] ELSE pevent_ctx_notify(c)
           f  == [d EXCEPT !.ev[e] = n]
           b  == [d EXCEPT !.ev[e] = n, !.pe[h] = e]
           u  == PEVENT_ENQUEUE(b, e)
           ev == [c.ev EXCEPT ![e] = Registers(h, recurring)]
           pe == [c.pe EXCEPT ![h] = e]
           q  == Append(c.events, e)
<1>1. pevent_register(c, h, recurring) = u
  BY DEF pevent_register
<1>2. e \in Free(c) /\ e \in Structs
  BY DEF Free
<1> HIDE DEF e
<1>3. /\ d \in Contexts /\ d.cur = c.cur /\ d.ev = c.ev /\ d.pe = c.pe /\ d.events = c.events
      /\ d.pc = (IF c.pc = "none" THEN "build" ELSE c.pc)
      /\ d.notified \/ c.pc = "none"
      /\ d.wrote = c.wrote
  <2>1. CASE c.pc = "none"
    BY <2>1 DEF Contexts, PCs
  <2>2. CASE c.pc # "none"
    BY <2>2, NotifyFields DEF SameRest
  <2> QED
    BY <2>1, <2>2
<1> HIDE DEF d
<1>4. /\ n \in Pevents /\ Registers(h, recurring) \in Pevents
      /\ [n EXCEPT !.enqueued = TRUE, !.refs = n.refs + 1] = Registers(h, recurring)
  <2>1. NoStruct \in Pevents
    BY DEF NoStruct, Pevents
  <2>2. n \in Pevents
    BY <2>1 DEF Pevents
  <2>5. n.refs = 1 /\ 1 + 1 = 2
    BY <2>1 DEF Pevents
  <2>3. Registers(h, recurring) \in Pevents
    BY <2>1 DEF Registers, Pevents
  <2>4. [n EXCEPT !.enqueued = TRUE, !.refs = 2] = Registers(h, recurring)
    BY <2>1 DEF Registers, Pevents
  <2> QED
    BY <2>2, <2>3, <2>4, <2>5
<1>5. /\ c.ev \in [Structs -> Pevents] /\ c.pe \in [Handles -> Structs \cup {NoEvent}]
      /\ c.events \in Seq(Structs)
  BY DEF Contexts
<1>6. /\ ev \in [Structs -> Pevents] /\ pe \in [Handles -> Structs \cup {NoEvent}]
      /\ q \in Seq(Structs)
  BY <1>2, <1>4, <1>5
<1>7. u = [d EXCEPT !.events = q, !.ev = ev, !.pe = pe]
  <2>1. b = [d EXCEPT !.ev = [c.ev EXCEPT ![e] = n], !.pe = pe]
    BY <1>3 DEF Contexts
  <2>2. b.ev = [c.ev EXCEPT ![e] = n] /\ b.events = c.events
    BY <1>3, <2>1 DEF Contexts
  <2>3. b.ev[e] = n
    BY <1>2, <1>5, <2>2
  <2> HIDE DEF b, n
  <2>4. u = [b EXCEPT !.events = Append(b.events, e),
                      !.ev = [b.ev EXCEPT ![e] = [n EXCEPT !.enqueued = TRUE, !.refs = n.refs + 1]]]
    BY <2>3 DEF PEVENT_ENQUEUE
  <2>5. [b.ev EXCEPT ![e] = [n EXCEPT !.enqueued = TRUE, !.refs = n.refs + 1]] = ev
    BY <1>2, <1>4, <1>5, <2>2
  <2>6. u = [b EXCEPT !.events = q, !.ev = ev]
    BY <2>2, <2>4, <2>5
  <2> HIDE DEF ev, pe, q
  <2> QED
    BY <1>3, <2>1, <2>6 DEF Contexts
<1> HIDE DEF ev, pe, q, u
<1>8. /\ u \in Contexts /\ u.cur = c.cur
      /\ u.pc = (IF c.pc = "none" THEN "build" ELSE c.pc)
      /\ u.ev = ev /\ u.pe = pe /\ u.events = q
      /\ u.notified \/ c.pc = "none"
      /\ u.wrote = c.wrote
  BY <1>3, <1>6, <1>7 DEF Contexts
<1> QED
  BY <1>1, <1>2, <1>8 DEF ev, pe, q, IsRegistered

----------------------------------------------------------------------------
(* Every function keeps a context sound. *)

\* The event of a handle, and its references.
LEMMA HandleHolds ==
  ASSUME NEW c, Sound(c, live), live \subseteq Handles, NEW h \in Handles, c.pe[h] # NoEvent
  PROVE  /\ c.pe[h] \in Structs /\ c.ev[c.pe[h]].ref = h /\ ~ c.ev[c.pe[h]].canceled
         /\ h \in live /\ Registered(c, c.pe[h])
         /\ c.ev[c.pe[h]].refs = 1 + (IF c.ev[c.pe[h]].enqueued THEN 1 ELSE 0)
                                  + (IF c.cur = c.pe[h] THEN 1 ELSE 0)
<1>1. c.pe[h] \in Structs
  BY DEF Sound, Contexts
<1>2. c.ev[c.pe[h]].ref = h /\ ~ c.ev[c.pe[h]].canceled /\ h \in live
  BY DEF Sound, Held
<1>3. Registered(c, c.pe[h])
  BY <1>2, EventLoopAssumption DEF Registered
<1> QED
  BY <1>1, <1>2, <1>3 DEF Sound, Counted, Refs

\* What it is to cancel the event e of handle h.
Cancelled(c, u, e, h) ==
  /\ u \in Contexts /\ SameRest(c, u) /\ u.wrote = c.wrote
  /\ u.pe = [c.pe EXCEPT ![h] = NoEvent]
  /\ \A x \in Structs \ {e} : u.ev[x] = c.ev[x]
  /\ c.cur # e => u.ev[e] = NoStruct
  /\ c.cur = e => /\ u.ev[e].ref = h /\ u.ev[e].canceled /\ ~ u.ev[e].enqueued
                  /\ u.ev[e].refs = 1 /\ u.ev[e].recurring = c.ev[e].recurring
  /\ IsInjective(u.events) /\ ToSet(u.events) = ToSet(c.events) \ {e}
  /\ c.notified => u.notified

LEMMA CancelledIsSound ==
  ASSUME NEW c, Sound(c, live), Sleeps(c), live \subseteq Handles,
         NEW h \in Handles, NEW e \in Structs, c.pe[h] = e,
         NEW u, Cancelled(c, u, e, h)
  PROVE  Sound(u, live) /\ Sleeps(u)
<1>1. /\ NoEvent \notin Structs /\ NoEvent \notin Handles
      /\ c \in Contexts /\ u \in Contexts
      /\ \A x \in Structs : c.ev[x].ref \in Handles \cup {NoEvent}
      /\ \A g \in Handles : c.pe[g] \in Structs \cup {NoEvent}
      /\ u.pe[h] = NoEvent /\ \A g \in Handles \ {h} : u.pe[g] = c.pe[g]
      /\ u.cur = c.cur /\ u.pc = c.pc
  BY EventLoopAssumption DEF Sound, Cancelled, SameRest, Contexts, Pevents
<1>2. c.ev[e].ref = h /\ c.ev[e].refs > 0
  BY <1>1, HandleHolds
<1>3. c.cur # e => /\ u.ev[e].ref = NoEvent /\ ~ u.ev[e].enqueued /\ u.ev[e].refs = 0
  BY DEF Cancelled, NoStruct
<1>4. ~ Registered(u, e) /\ ~ u.ev[e].enqueued
  BY <1>1, <1>3 DEF Registered, Cancelled
<1>5. ASSUME NEW x \in Structs \ {e}
      PROVE  u.ev[x] = c.ev[x] /\ (Registered(u, x) <=> Registered(c, x))
  <2>1. u.ev[x] = c.ev[x]
    BY DEF Cancelled
  <2>2. ASSUME c.ev[x].ref = h PROVE ~ Registered(c, x) /\ ~ Registered(u, x)
    BY <1>1, <2>1, <2>2 DEF Registered
  <2>3. ASSUME c.ev[x].ref # h PROVE Registered(u, x) <=> Registered(c, x)
    BY <1>1, <2>1, <2>3 DEF Registered
  <2> QED
    BY <2>1, <2>2, <2>3
<1>6. Listed(u)
  <2>1. ASSUME NEW x \in Structs PROVE x \in ToSet(u.events) <=> u.ev[x].enqueued
    <3>1. x \in ToSet(u.events) <=> x \in ToSet(c.events) /\ x # e
      BY DEF Cancelled
    <3> QED
      BY <3>1, <1>4, <1>5 DEF Sound, Listed
  <2> QED
    BY <2>1 DEF Listed, Cancelled
<1>7. Held(u, live)
  <2> SUFFICES ASSUME NEW g \in Handles, u.pe[g] # NoEvent
               PROVE  g \in live /\ u.ev[u.pe[g]].ref = g /\ ~ u.ev[u.pe[g]].canceled
    BY DEF Held
  <2>1. g # h /\ u.pe[g] = c.pe[g]
    BY <1>1
  <2>2. g \in live /\ c.ev[c.pe[g]].ref = g /\ ~ c.ev[c.pe[g]].canceled
    BY <2>1 DEF Sound, Held
  <2>3. c.pe[g] \in Structs \ {e}
    BY <1>1, <1>2, <2>1, <2>2
  <2> QED
    BY <1>5, <2>1, <2>2, <2>3
<1>8. Counted(u)
  <2>1. ASSUME NEW x \in Structs, x # e PROVE u.ev[x].refs = Refs(u, x)
    BY <1>1, <1>5, <2>1 DEF Sound, Counted, Refs
  <2>2. u.ev[e].refs = Refs(u, e)
    BY <1>1, <1>3, <1>4 DEF Refs, Cancelled
  <2> QED
    BY <2>1, <2>2 DEF Counted
<1>9. Waits(u)
  BY <1>4, <1>5 DEF Sound, Waits
<1>10. Served(u, live)
  <2>1. c.cur = e => u.ev[e].ref = h /\ u.ev[e].canceled /\ ~ u.ev[e].enqueued /\ h # NoEvent
    BY <1>1 DEF Cancelled
  <2>2. c.cur \in Structs \cup {NoEvent}
    BY <1>1 DEF Contexts
  <2>3. CASE c.cur = e
    BY <1>1, <1>2, <2>1, <2>3 DEF Sound, Served
  <2>4. CASE c.cur = NoEvent
    BY <1>1, <2>4 DEF Sound, Served, Serving
  <2>5. CASE c.cur \in Structs \ {e}
    BY <1>1, <1>5, <2>5 DEF Sound, Served
  <2> QED
    BY <2>2, <2>3, <2>4, <2>5
<1>11. Sleeps(u)
  <2> SUFFICES ASSUME u.pc = "poll", ~ u.notified, NEW x \in ToSet(u.events) PROVE u.ev[x].polled
    BY DEF Sleeps
  <2>1. c.pc = "poll" /\ ~ c.notified /\ x \in ToSet(c.events) /\ x # e
    BY <1>1 DEF Cancelled
  <2>2. c.ev[x].polled /\ x \in Structs
    BY <2>1, <1>1 DEF Sleeps, ToSet, Contexts
  <2> QED
    BY <1>5, <2>1, <2>2
<1> QED
  BY <1>1, <1>6, <1>7, <1>8, <1>9, <1>10, <1>11 DEF Sound, Cancelled

\* pevent_cancel() of an event that is not in the list.
LEMMA CancelCancels ==
  ASSUME NEW c, Sound(c, live), live \subseteq Handles, NEW h \in Handles, c.pe[h] # NoEvent,
         ~ c.ev[c.pe[h]].enqueued
  PROVE  LET u == pevent_cancel(c, c.pe[h]) IN
         Cancelled(c, u, c.pe[h], h) /\ u.events = c.events
<1> DEFINE e == c.pe[h]
           s == [c.ev[e] EXCEPT !.canceled = TRUE]
           u == pevent_cancel(c, e)
<1>1. /\ c \in Contexts /\ e \in Structs /\ c.ev[e].ref = h /\ ~ c.ev[e].canceled /\ h \in live
      /\ c.ev[e].refs = 1 + (IF c.cur = e THEN 1 ELSE 0)
  BY HandleHolds DEF Sound
<1> HIDE DEF e
<1>2. /\ u \in Contexts /\ SameRest(c, u)
      /\ u.ev = [c.ev EXCEPT ![e] = Dropped(s)]
      /\ u.pe = [c.pe EXCEPT ![h] = NoEvent] /\ u.events = c.events
      /\ u.notified = c.notified /\ u.wrote = c.wrote
  <2>1. c.ev[e].refs > 0
    BY <1>1
  <2> QED
    BY <1>1, <2>1, CancelFields DEF e
<1> HIDE DEF u
<1>3. c.ev \in [Structs -> Pevents] /\ c.ev[e] \in Pevents
  BY <1>1 DEF Contexts
<1>4. u.ev[e] = Dropped(s) /\ \A x \in Structs \ {e} : u.ev[x] = c.ev[x]
  BY <1>1, <1>2, <1>3
<1>5. /\ s \in Pevents /\ s.refs = 1 + (IF c.cur = e THEN 1 ELSE 0) /\ s.ref = h /\ s.canceled
      /\ ~ s.enqueued /\ s.recurring = c.ev[e].recurring
  BY <1>1, <1>3 DEF Pevents, e
<1> HIDE DEF s
<1>6. c.cur # e => Dropped(s) = NoStruct
  BY <1>5, DroppedFields
<1>7. c.cur = e => /\ u.ev[e].ref = h /\ u.ev[e].canceled /\ ~ u.ev[e].enqueued
                  /\ u.ev[e].refs = 1 /\ u.ev[e].recurring = c.ev[e].recurring
  BY <1>4, <1>5, DroppedFields
<1>8. IsInjective(u.events) /\ ToSet(u.events) = ToSet(c.events) \ {e}
  <2>1. IsInjective(c.events) /\ e \notin ToSet(c.events)
    BY <1>1 DEF Sound, Listed, e
  <2> QED
    BY <1>2, <2>1
<1> QED
  BY <1>2, <1>4, <1>6, <1>7, <1>8 DEF Cancelled, e, u

LEMMA UnregisterCancels ==
  ASSUME NEW c, Sound(c, live), live \subseteq Handles, NEW h \in Handles, c.pe[h] # NoEvent
  PROVE  Cancelled(c, pevent_unregister(c, h), c.pe[h], h)
<1> DEFINE e == c.pe[h]
<1>1. CASE ~ c.ev[e].enqueued
  BY <1>1, CancelCancels DEF pevent_unregister
<1>2. CASE c.ev[e].enqueued
  <2> DEFINE s == [c.ev[e] EXCEPT !.enqueued = FALSE, !.refs = c.ev[e].refs - 1]
             d == PEVENT_DEQUEUE(c, e)
             b == pevent_ctx_notify(d)
             t == [s EXCEPT !.canceled = TRUE]
             u == pevent_cancel(b, e)
  <2>1. pevent_unregister(c, h) = u
    BY <1>2 DEF pevent_unregister
  <2>2. /\ c \in Contexts /\ e \in Structs /\ c.ev[e].ref = h /\ ~ c.ev[e].canceled
        /\ h \in live
        /\ c.ev[e].refs = 2 + (IF c.cur = e THEN 1 ELSE 0)
    BY <1>2, HandleHolds DEF Sound
  <2>3. e \in ToSet(c.events) /\ IsInjective(c.events) /\ c.events \in Seq(Structs)
    BY <1>2, <2>2 DEF Sound, Listed, Contexts
  <2> HIDE DEF e
  <2>4. /\ d \in Contexts /\ SameRest(c, d) /\ d.ev = [c.ev EXCEPT ![e] = s]
        /\ d.pe = c.pe /\ d.events = RemoveFirst(c.events, e)
        /\ d.notified = c.notified /\ d.wrote = c.wrote
    <3>1. c.ev[e].refs > 1
      BY <2>2
    <3> QED
      BY <2>2, <2>3, <3>1, DequeueFields
  <2> HIDE DEF d
  <2>5. /\ b \in Contexts /\ SameRest(c, b) /\ b.ev = [c.ev EXCEPT ![e] = s]
        /\ b.pe = c.pe /\ b.events = RemoveFirst(c.events, e)
        /\ b.notified /\ b.wrote = c.wrote
    BY <2>4, NotifyFields DEF SameRest
  <2> HIDE DEF b
  <2>6. c.ev \in [Structs -> Pevents] /\ c.ev[e] \in Pevents
    BY <2>2 DEF Contexts
  <2>7. /\ s.ref = h /\ ~ s.canceled /\ ~ s.enqueued
        /\ s.refs = 1 + (IF c.cur = e THEN 1 ELSE 0)
        /\ s.recurring = c.ev[e].recurring
    BY <2>2, <2>6 DEF Pevents
  <2>8. b.ev[e] = s /\ \A x \in Structs \ {e} : b.ev[x] = c.ev[x]
    BY <2>2, <2>5, <2>6
  <2>9. b.ev[e] \in Pevents /\ b.ev \in [Structs -> Pevents]
    BY <2>2, <2>5 DEF Contexts
  <2> HIDE DEF s
  <2>10. /\ u \in Contexts /\ SameRest(b, u) /\ u.ev = [b.ev EXCEPT ![e] = Dropped(t)]
         /\ u.pe = [c.pe EXCEPT ![h] = NoEvent] /\ u.events = RemoveFirst(c.events, e)
         /\ u.notified /\ u.wrote = c.wrote
    <3>1. s.refs > 0
      BY <2>7
    <3> QED
      BY <2>2, <2>5, <2>7, <2>8, <3>1, CancelFields
  <2> HIDE DEF u
  <2>11. u.ev[e] = Dropped(t) /\ \A x \in Structs \ {e} : u.ev[x] = c.ev[x]
    BY <2>2, <2>8, <2>9, <2>10
  <2>12. /\ t \in Pevents /\ t.refs = 1 + (IF c.cur = e THEN 1 ELSE 0) /\ t.ref = h
         /\ t.canceled /\ ~ t.enqueued /\ t.recurring = c.ev[e].recurring
    BY <2>7, <2>8, <2>9 DEF Pevents
  <2> HIDE DEF t
  <2>15. c.cur # e => Dropped(t) = NoStruct
    BY <2>12, DroppedFields
  <2>13. c.cur = e => /\ Dropped(t).ref = h /\ Dropped(t).canceled /\ ~ Dropped(t).enqueued
                     /\ Dropped(t).refs = 1 /\ Dropped(t).recurring = c.ev[e].recurring
    BY <2>12, DroppedFields
  <2>14. IsInjective(u.events) /\ ToSet(u.events) = ToSet(c.events) \ {e}
    BY <2>3, <2>10, RemoveFirstFields
  <2> QED
    BY <2>1, <2>5, <2>10, <2>11, <2>15, <2>13, <2>14 DEF Cancelled, SameRest, e
<1> QED
  BY <1>1, <1>2

\* Memory that is free belongs to nobody.
LEMMA FreeIsFree ==
  ASSUME NEW c, Sound(c, live), NEW e \in Free(c)
  PROVE  /\ e \in Structs /\ ~ Registered(c, e) /\ ~ c.ev[e].enqueued /\ c.cur # e
         /\ e \notin ToSet(c.events) /\ \A h \in Handles : c.pe[h] # e
<1>1. e \in Structs /\ c.ev[e].refs = 0 /\ e # NoEvent
  BY EventLoopAssumption DEF Free
<1>2. c.ev[e].refs = Refs(c, e)
  BY <1>1 DEF Sound, Counted
<1>3. ~ Registered(c, e) /\ ~ c.ev[e].enqueued /\ c.cur # e
  BY <1>1, <1>2 DEF Refs
<1>4. e \notin ToSet(c.events)
  BY <1>1, <1>3 DEF Sound, Listed
<1>5. ASSUME NEW h \in Handles, c.pe[h] = e PROVE FALSE
  BY <1>1, <1>3, <1>5, EventLoopAssumption DEF Sound, Held, Registered
<1> QED
  BY <1>1, <1>3, <1>4, <1>5

LEMMA RegisterIsSound ==
  ASSUME NEW c, Sound(c, live), Sleeps(c), live \subseteq Handles,
         NEW h \in live, NEW recurring \in BOOLEAN, c.pe[h] = NoEvent, Free(c) # {}
  PROVE  LET u == pevent_register(c, h, recurring) IN
         /\ Sound(u, live) /\ Sleeps(u)
         /\ u.cur = c.cur /\ u.pc = (IF c.pc = "none" THEN "build" ELSE c.pc)
<1> DEFINE u == pevent_register(c, h, recurring)
           s == Registers(h, recurring)
<1>1. c \in Contexts /\ h \in Handles /\ NoEvent \notin Structs /\ NoEvent \notin Handles
  BY EventLoopAssumption DEF Sound
<1>0. PICK e \in Free(c) : IsRegistered(c, u, e, h, recurring)
  BY <1>1, RegisterFields
<1>2. /\ u \in Contexts /\ u.cur = c.cur
      /\ u.pc = (IF c.pc = "none" THEN "build" ELSE c.pc)
      /\ u.ev = [c.ev EXCEPT ![e] = s]
      /\ u.pe = [c.pe EXCEPT ![h] = e] /\ u.events = Append(c.events, e)
      /\ u.notified \/ c.pc = "none"
      /\ u.wrote = c.wrote
  BY <1>0 DEF IsRegistered
<1> HIDE DEF u
<1>3. /\ e \in Structs /\ ~ Registered(c, e) /\ ~ c.ev[e].enqueued /\ c.cur # e
      /\ e \notin ToSet(c.events) /\ \A g \in Handles : c.pe[g] # e
  BY FreeIsFree
<1>4. s.ref = h /\ ~ s.canceled /\ s.enqueued /\ s.refs = 2
  BY DEF Registers, NoStruct
<1> HIDE DEF s
<1>5. /\ c.ev \in [Structs -> Pevents] /\ c.pe \in [Handles -> Structs \cup {NoEvent}]
      /\ c.events \in Seq(Structs)
  BY <1>1 DEF Contexts
<1>6. /\ u.ev[e] = s /\ \A x \in Structs \ {e} : u.ev[x] = c.ev[x]
      /\ u.pe[h] = e /\ \A g \in Handles \ {h} : u.pe[g] = c.pe[g]
      /\ \A x \in Structs : c.ev[x].ref \in Handles \cup {NoEvent}
  BY <1>1, <1>2, <1>3, <1>5 DEF Pevents
<1>7. Registered(u, e)
  BY <1>1, <1>4, <1>6 DEF Registered
<1>8. ASSUME NEW x \in Structs \ {e} PROVE Registered(u, x) <=> Registered(c, x)
  <2>1. CASE c.ev[x].ref = h
    BY <1>1, <1>6, <2>1 DEF Registered
  <2>2. CASE c.ev[x].ref # h
    BY <1>1, <1>6, <2>2 DEF Registered
  <2> QED
    BY <2>1, <2>2
<1>9. Listed(u)
  <2>1. IsInjective(u.events) /\ ToSet(u.events) = ToSet(c.events) \cup {e}
    BY <1>2, <1>3, <1>5, AppendFields DEF Sound, Listed
  <2>2. ASSUME NEW x \in Structs PROVE x \in ToSet(u.events) <=> u.ev[x].enqueued
    BY <1>4, <1>6, <2>1 DEF Sound, Listed
  <2> QED
    BY <2>1, <2>2 DEF Listed
<1>10. Held(u, live)
  <2> SUFFICES ASSUME NEW g \in Handles, u.pe[g] # NoEvent
               PROVE  g \in live /\ u.ev[u.pe[g]].ref = g /\ ~ u.ev[u.pe[g]].canceled
    BY DEF Held
  <2>1. CASE g = h
    BY <1>4, <1>6, <2>1
  <2>2. CASE g # h
    <3>1. u.pe[g] = c.pe[g] /\ c.pe[g] \in Structs \ {e}
      BY <1>3, <1>5, <1>6, <2>2
    <3>2. g \in live /\ c.ev[c.pe[g]].ref = g /\ ~ c.ev[c.pe[g]].canceled
      BY <3>1 DEF Sound, Held
    <3> QED
      BY <1>6, <3>1, <3>2
  <2> QED
    BY <2>1, <2>2
<1>11. Counted(u)
  <2>1. ASSUME NEW x \in Structs, x # e PROVE u.ev[x].refs = Refs(u, x)
    BY <1>2, <1>6, <1>8, <2>1 DEF Sound, Counted, Refs
  <2>2. u.ev[e].refs = Refs(u, e)
    BY <1>2, <1>3, <1>4, <1>6, <1>7 DEF Refs
  <2> QED
    BY <2>1, <2>2 DEF Counted
<1>12. Waits(u)
  BY <1>6, <1>7, <1>8 DEF Sound, Waits
<1>13. Served(u, live)
  <2>1. c.cur \in Structs \cup {NoEvent}
    BY <1>1 DEF Contexts
  <2>2. CASE c.cur = NoEvent
    BY <1>2, <2>2 DEF Sound, Served, Serving
  <2>3. CASE c.cur \in Structs \ {e}
    BY <1>1, <1>2, <1>6, <1>8, <2>3 DEF Sound, Served, Serving
  <2> QED
    BY <1>3, <2>1, <2>2, <2>3
<1>14. Sleeps(u)
  BY <1>2 DEF Sleeps
<1>15. Sound(u, live)
  BY <1>2, <1>9, <1>10, <1>11, <1>12, <1>13 DEF Sound
<1> QED
  BY <1>2, <1>14, <1>15 DEF u

\* There is memory for one more event than there are handles: the event that is called
\* and the one registered in its place exist together.
LEMMA RoomForOneMore ==
  ASSUME NEW c, Sound(c, live), \A e \in Structs : c.cur = e => Registered(c, e)
  PROVE  Free(c) # {}
<1> DEFINE hs == {h \in Handles : c.pe[h] # NoEvent}
           us == {c.pe[h] : h \in hs}
           f  == [h \in hs |-> c.pe[h]]
<1> SUFFICES ASSUME Free(c) = {} PROVE FALSE
  OBVIOUS
<1>1. us = Structs
  <2>1. us \subseteq Structs
    BY DEF Sound, Contexts
  <2>2. ASSUME NEW e \in Structs PROVE e \in us
    <3>1. c.ev[e].refs # 0 /\ c.ev[e].refs = Refs(c, e)
      BY DEF Free, Sound, Counted
    <3>2. Registered(c, e)
      BY <3>1 DEF Refs, Sound, Waits
    <3>3. c.ev[e].ref \in Handles
      BY <3>2 DEF Registered, Sound, Contexts, Pevents
    <3> QED
      BY <3>2, <3>3, EventLoopAssumption DEF Registered
  <2> QED
    BY <2>1, <2>2
<1>2. IsFiniteSet(hs) /\ Cardinality(hs) <= Cardinality(Handles)
  BY FS_Subset, EventLoopAssumption
<1>3. f \in Surjection(hs, us)
  BY DEF Surjection
<1> HIDE DEF hs, us, f
<1>4. IsFiniteSet(us) /\ Cardinality(us) <= Cardinality(hs)
  BY <1>2, <1>3, FS_Surjection
<1>5. Cardinality(us) \in Nat /\ Cardinality(hs) \in Nat /\ Cardinality(Handles) \in Nat
  BY <1>2, <1>4, FS_CardinalityType, EventLoopAssumption
<1> QED
  BY <1>1, <1>2, <1>4, <1>5, EventLoopAssumption

\* Whether a context is sound does not depend on the order of the list, on what has
\* occurred, and on what has been polled.
Like(c, u) ==
  /\ u \in Contexts /\ u.pe = c.pe /\ u.cur = c.cur /\ u.wrote = c.wrote
  /\ \A e \in Structs :
       /\ u.ev[e].ref = c.ev[e].ref /\ u.ev[e].canceled = c.ev[e].canceled
       /\ u.ev[e].enqueued = c.ev[e].enqueued /\ u.ev[e].refs = c.ev[e].refs
  /\ IsInjective(u.events) /\ ToSet(u.events) = ToSet(c.events)

LEMMA LikeIsSound ==
  ASSUME NEW c, NEW alive, Sound(c, alive), NEW u, Like(c, u), NEW still,
         \A h \in Handles : c.pe[h] # NoEvent => h \in still, Served(u, still)
  PROVE  Sound(u, still)
<1>1. c \in Contexts /\ u \in Contexts /\ c.pe \in [Handles -> Structs \cup {NoEvent}]
  BY DEF Sound, Like, Contexts
<1>2. \A e \in Structs : Registered(u, e) <=> Registered(c, e)
  BY DEF Like, Registered
<1>3. Listed(u)
  BY DEF Like, Sound, Listed
<1>4. Held(u, still)
  BY <1>1 DEF Like, Sound, Held
<1>5. Counted(u)
  <2>1. ASSUME NEW e \in Structs PROVE u.ev[e].refs = Refs(u, e)
    BY <1>2 DEF Like, Sound, Counted, Refs
  <2> QED
    BY <2>1 DEF Counted
<1>6. Waits(u)
  BY <1>2 DEF Like, Sound, Waits
<1> QED
  BY <1>1, <1>3, <1>4, <1>5, <1>6 DEF Sound, Like

----------------------------------------------------------------------------
(* The actions of the event thread. *)

\* What the invariant needs besides the context, where nothing else changes.
LEMMA Framed ==
  ASSUME LoopInv, UNCHANGED << live, timers, ready >>, Sound(p', live), Sleeps(p'),
         gGiantMutex' \in {"free", "loop"} \cup Threads,
         p'.pc \in {"enter", "handler"} <=> gGiantMutex' = "loop"
  PROVE  LoopInv'
<1>1. Sound(p', live') /\ Sleeps(p')
  OBVIOUS
<1>2. Sound(p, live)'
  BY <1>1
<1> QED
  BY <1>1 DEF LoopInv

LEMMA BuildKeeps ==
  ASSUME LoopInv, Build
  PROVE  LoopInv'
<1>1. Sound(p, live) /\ p \in Contexts /\ p.pc = "build" /\ gGiantMutex # "loop"
  BY DEF LoopInv, Sound, Build
<1>2. CASE p.events = << >>
  <2> DEFINE u == [p EXCEPT !.pc = "none"]
  <2>1. p' = u
    BY <1>2 DEF Build
  <2>2. /\ u \in Contexts /\ u.pe = p.pe /\ u.cur = p.cur /\ u.wrote = p.wrote /\ u.ev = p.ev
        /\ u.events = p.events /\ u.pc = "none"
    BY <1>1 DEF Contexts, PCs
  <2> HIDE DEF u
  <2>3. Like(p, u)
    BY <1>1, <2>2 DEF Like, Sound, Listed
  <2>4. Served(u, live)
    BY <1>1, <2>2 DEF Sound, Served, Serving
  <2>5. Sound(u, live)
    BY <1>1, <2>3, <2>4, LikeIsSound DEF Sound, Held
  <2>6. Sleeps(u)
    BY <2>2 DEF Sleeps
  <2> QED
    BY <1>1, <2>1, <2>2, <2>5, <2>6, Framed DEF Build, LoopInv
<1>3. CASE p.events # << >>
  <2> DEFINE ev == [s \in Structs |-> [p.ev[s] EXCEPT !.polled = @ \/ p.ev[s].enqueued]]
             u  == [p EXCEPT !.pc = "poll", !.notified = FALSE, !.ev = ev]
  <2>1. p' = u
    BY <1>3 DEF Build
  <2>2. ASSUME NEW e \in Structs
        PROVE  /\ ev[e] \in Pevents /\ ev[e].ref = p.ev[e].ref
               /\ ev[e].canceled = p.ev[e].canceled /\ ev[e].enqueued = p.ev[e].enqueued
               /\ ev[e].refs = p.ev[e].refs
               /\ p.ev[e].enqueued => ev[e].polled
    <3>1. p.ev[e] \in Pevents
      BY <1>1 DEF Contexts
    <3>2. (p.ev[e].polled \/ p.ev[e].enqueued) \in BOOLEAN
      OBVIOUS
    <3>3. ev[e] = [p.ev[e] EXCEPT !.polled = p.ev[e].polled \/ p.ev[e].enqueued]
      OBVIOUS
    <3> HIDE DEF ev
    <3> QED
      BY <3>1, <3>2, <3>3 DEF Pevents
  <2>3. ev \in [Structs -> Pevents]
    <3>1. \A e \in Structs : ev[e] \in Pevents
      BY <2>2
    <3>2. ev = [e \in Structs |-> ev[e]]
      OBVIOUS
    <3> HIDE DEF ev
    <3> QED
      BY <3>1, <3>2
  <2> HIDE DEF ev
  <2>4. /\ u \in Contexts /\ u.pe = p.pe /\ u.cur = p.cur /\ u.wrote = p.wrote /\ u.ev = ev
        /\ u.events = p.events /\ u.pc = "poll"
    BY <1>1, <2>3 DEF Contexts, PCs
  <2> HIDE DEF u
  <2>5. Like(p, u)
    BY <1>1, <2>2, <2>4 DEF Like, Sound, Listed
  <2>6. Served(u, live)
    BY <1>1, <2>4 DEF Sound, Served, Serving
  <2>7. Sound(u, live)
    BY <1>1, <2>5, <2>6, LikeIsSound DEF Sound, Held
  <2>8. Sleeps(u)
    <3>1. ASSUME NEW e \in ToSet(p.events) PROVE ev[e].polled
      BY <1>1, <2>2 DEF Sound, Listed, ToSet, Contexts
    <3> QED
      BY <2>4, <3>1 DEF Sleeps
  <2> QED
    BY <1>1, <2>1, <2>4, <2>7, <2>8, Framed DEF Build, LoopInv
<1> QED
  BY <1>2, <1>3

LEMMA PollReturnsKeeps ==
  ASSUME LoopInv, PollReturns
  PROVE  LoopInv'
<1>1. Sound(p, live) /\ p \in Contexts /\ p.pc = "poll" /\ gGiantMutex # "loop"
  BY DEF LoopInv, Sound, PollReturns
<1>2. PICK due, from :
        /\ from \in Bijection(DOMAIN p.events, DOMAIN p.events)
        /\ p' = [PEVENT_SET_OCCURRED(p, due, from) EXCEPT !.pc = "service"]
  BY DEF PollReturns, MovedToFront
<1> DEFINE ev == [e \in Structs |-> [p.ev[e] EXCEPT !.occurred = @ \/ e \in due]]
           q  == [i \in DOMAIN p.events |-> p.events[from[i]]]
           u  == [p EXCEPT !.events = q, !.ev = ev, !.pc = "service"]
<1>3. p' = u
  BY <1>1, <1>2 DEF PEVENT_SET_OCCURRED, Contexts
<1>4. p.events \in Seq(Structs) /\ IsInjective(p.events)
  BY <1>1 DEF Contexts, Sound, Listed
<1>5. q \in Seq(Structs) /\ IsInjective(q) /\ ToSet(q) = ToSet(p.events)
  BY <1>2, <1>4, MovedFields
<1> HIDE DEF q
<1>6. ASSUME NEW e \in Structs
      PROVE  /\ ev[e] \in Pevents /\ ev[e].ref = p.ev[e].ref
             /\ ev[e].canceled = p.ev[e].canceled /\ ev[e].enqueued = p.ev[e].enqueued
             /\ ev[e].refs = p.ev[e].refs
  <2>1. p.ev[e] \in Pevents
    BY <1>1 DEF Contexts
  <2>2. (p.ev[e].occurred \/ e \in due) \in BOOLEAN
    OBVIOUS
  <2>3. ev[e] = [p.ev[e] EXCEPT !.occurred = p.ev[e].occurred \/ e \in due]
    OBVIOUS
  <2> HIDE DEF ev
  <2> QED
    BY <2>1, <2>2, <2>3 DEF Pevents
<1>7. ev \in [Structs -> Pevents]
  <2>1. \A e \in Structs : ev[e] \in Pevents
    BY <1>6
  <2>2. ev = [e \in Structs |-> ev[e]]
    OBVIOUS
  <2> HIDE DEF ev
  <2> QED
    BY <2>1, <2>2
<1> HIDE DEF ev
<1>8. /\ u \in Contexts /\ u.pe = p.pe /\ u.cur = p.cur /\ u.wrote = p.wrote /\ u.ev = ev
      /\ u.events = q /\ u.pc = "service"
  BY <1>1, <1>5, <1>7 DEF Contexts, PCs
<1> HIDE DEF u
<1>9. Like(p, u)
  BY <1>5, <1>6, <1>8 DEF Like
<1>10. Served(u, live)
  BY <1>1, <1>8 DEF Sound, Served, Serving
<1>11. Sound(u, live)
  BY <1>1, <1>9, <1>10, LikeIsSound DEF Sound, Held
<1>12. Sleeps(u)
  BY <1>8 DEF Sleeps
<1> QED
  BY <1>1, <1>3, <1>8, <1>11, <1>12, Framed DEF PollReturns, LoopInv

LEMMA ServiceKeeps ==
  ASSUME LoopInv, Service
  PROVE  LoopInv'
<1>1. /\ Sound(p, live) /\ p \in Contexts /\ p.pc = "service" /\ gGiantMutex # "loop"
      /\ p.cur = NoEvent /\ live \subseteq Handles
  BY DEF LoopInv, Sound, Service, Served, Serving
<1>2. CASE p.events = << >> \/ ~ p.ev[Head(p.events)].occurred
  <2> DEFINE u == [p EXCEPT !.pc = "build"]
  <2>1. p' = u
    BY <1>2 DEF Service
  <2>2. /\ u \in Contexts /\ u.pe = p.pe /\ u.cur = p.cur /\ u.wrote = p.wrote /\ u.ev = p.ev
        /\ u.events = p.events /\ u.pc = "build"
    BY <1>1 DEF Contexts, PCs
  <2> HIDE DEF u
  <2>3. Like(p, u)
    BY <1>1, <2>2 DEF Like, Sound, Listed
  <2>4. Served(u, live)
    BY <1>1, <2>2 DEF Sound, Served, Serving
  <2>5. Sound(u, live)
    BY <1>1, <2>3, <2>4, LikeIsSound DEF Sound, Held
  <2>6. Sleeps(u)
    BY <2>2 DEF Sleeps
  <2> QED
    BY <1>1, <2>1, <2>2, <2>5, <2>6, Framed DEF Service, LoopInv
<1>3. CASE p.events # << >> /\ p.ev[Head(p.events)].occurred
  <2> DEFINE e == Head(p.events)
             n == [p.ev[e] EXCEPT !.refs = p.ev[e].refs + 1]
             d == [p EXCEPT !.ev[e] = n]
             b == PEVENT_DEQUEUE(d, e)
             u == [b EXCEPT !.pc = "execute", !.cur = e]
             s == [n EXCEPT !.enqueued = FALSE, !.refs = n.refs - 1]
  <2>1. p' = u
    BY <1>3 DEF Service
  <2>2. /\ e \in ToSet(p.events) /\ e \in Structs /\ p.events \in Seq(Structs)
        /\ IsInjective(p.events)
    BY <1>1, <1>3 DEF Contexts, ToSet, Sound, Listed
  <2> HIDE DEF e
  <2>3. /\ p.ev[e].enqueued /\ Registered(p, e) /\ p.ev[e].refs = 2 /\ p.ev[e] \in Pevents
        /\ p.ev \in [Structs -> Pevents]
    BY <1>1, <2>2, EventLoopAssumption DEF Sound, Listed, Waits, Counted, Refs, Contexts
  <2>4. n \in Pevents /\ n.refs = 3
    BY <2>3 DEF Pevents
  <2>5. /\ s.ref = p.ev[e].ref /\ s.canceled = p.ev[e].canceled /\ ~ s.enqueued /\ s.refs = 2
    BY <2>3 DEF Pevents
  <2> HIDE DEF n
  <2>6. /\ d \in Contexts /\ SameRest(p, d) /\ d.ev = [p.ev EXCEPT ![e] = n] /\ d.pe = p.pe
        /\ d.events = p.events /\ d.wrote = p.wrote
    BY <1>1, <2>2, <2>4, EventChanges
  <2>7. d.ev[e] = n /\ n.refs > 1
    BY <2>2, <2>3, <2>4, <2>6
  <2> HIDE DEF d
  <2>8. /\ b \in Contexts /\ b.ev = [d.ev EXCEPT ![e] = s] /\ b.pe = p.pe
        /\ b.events = RemoveFirst(p.events, e) /\ b.wrote = p.wrote
    <3>1. e \in ToSet(d.events) /\ IsInjective(d.events) /\ d.ev[e].refs > 1
      BY <2>2, <2>6, <2>7
    <3>2. /\ b \in Contexts /\ b.pe = d.pe /\ b.events = RemoveFirst(d.events, e)
          /\ b.wrote = d.wrote
          /\ b.ev = [d.ev EXCEPT ![e] = [d.ev[e] EXCEPT !.enqueued = FALSE,
                                                       !.refs = d.ev[e].refs - 1]]
      BY <2>6, <3>1, DequeueFields
    <3> QED
      BY <2>6, <2>7, <3>2
  <2> HIDE DEF b, s
  <2>9. /\ u \in Contexts /\ u.ev = b.ev /\ u.pe = p.pe /\ u.events = RemoveFirst(p.events, e)
        /\ u.wrote = p.wrote /\ u.pc = "execute" /\ u.cur = e
    BY <2>2, <2>8 DEF Contexts, PCs
  <2> HIDE DEF u
  <2>10. u.ev[e] = s /\ \A x \in Structs \ {e} : u.ev[x] = p.ev[x]
    BY <2>2, <2>3, <2>6, <2>8, <2>9
  <2>11. \A x \in Structs : Registered(u, x) <=> Registered(p, x)
    BY <2>5, <2>9, <2>10 DEF Registered
  <2>12. Listed(u)
    <3>1. IsInjective(u.events) /\ ToSet(u.events) = ToSet(p.events) \ {e}
      BY <2>2, <2>9, RemoveFirstFields
    <3>2. ASSUME NEW x \in Structs PROVE x \in ToSet(u.events) <=> u.ev[x].enqueued
      BY <1>1, <2>5, <2>10, <3>1 DEF Sound, Listed
    <3> QED
      BY <3>1, <3>2 DEF Listed
  <2>13. Held(u, live)
    <3> SUFFICES ASSUME NEW h \in Handles, u.pe[h] # NoEvent
                 PROVE  h \in live /\ u.ev[u.pe[h]].ref = h /\ ~ u.ev[u.pe[h]].canceled
      BY DEF Held
    <3>1. u.pe[h] = p.pe[h] /\ p.pe[h] \in Structs
      BY <1>1, <2>9 DEF Contexts
    <3>2. h \in live /\ p.ev[p.pe[h]].ref = h /\ ~ p.ev[p.pe[h]].canceled
      BY <1>1, <2>9 DEF Sound, Held
    <3> QED
      BY <2>5, <2>10, <3>1, <3>2
  <2>14. Counted(u)
    <3>1. ASSUME NEW x \in Structs, x # e PROVE u.ev[x].refs = Refs(u, x)
      <4>1. NoEvent # x
        BY EventLoopAssumption
      <4> QED
        BY <1>1, <2>9, <2>10, <2>11, <3>1, <4>1 DEF Sound, Counted, Refs
    <3>2. u.ev[e].refs = Refs(u, e)
      BY <2>2, <2>3, <2>5, <2>9, <2>10, <2>11 DEF Refs
    <3> QED
      BY <3>1, <3>2 DEF Counted
  <2>15. Waits(u)
    BY <1>1, <2>5, <2>10, <2>11 DEF Sound, Waits
  <2>16. Served(u, live)
    <3>1. e # NoEvent /\ Registered(u, e) /\ u.ev[e].ref # NoEvent /\ ~ u.ev[e].enqueued
      BY <2>2, <2>3, <2>5, <2>10, <2>11, EventLoopAssumption DEF Registered
    <3> QED
      BY <2>9, <3>1 DEF Served, Serving
  <2>17. Sound(u, live)
    BY <1>1, <2>9, <2>12, <2>13, <2>14, <2>15, <2>16 DEF Sound
  <2>18. Sleeps(u)
    BY <2>9 DEF Sleeps
  <2> QED
    BY <1>1, <2>1, <2>9, <2>17, <2>18, Framed DEF Service, LoopInv
<1> QED
  BY <1>2, <1>3

\* The loop gives its reference up.
LEMMA LetGoKeeps ==
  ASSUME LoopInv, p.cur # NoEvent,
         p' = [Unref(p, p.cur) EXCEPT !.pc = "service", !.cur = NoEvent],
         UNCHANGED << live, timers, ready >>,
         gGiantMutex' \in {"free"} \cup Threads
  PROVE  LoopInv'
<1> DEFINE e == p.cur
           b == Unref(p, e)
           u == [b EXCEPT !.pc = "service", !.cur = NoEvent]
<1>1. /\ Sound(p, live) /\ p \in Contexts /\ e \in Structs /\ e # NoEvent
      /\ p.ev \in [Structs -> Pevents] /\ p.ev[e] \in Pevents
  BY DEF LoopInv, Sound, Contexts
<1>2. p.ev[e].refs = 1 + (IF Registered(p, e) THEN 1 ELSE 0) + (IF p.ev[e].enqueued THEN 1 ELSE 0)
  BY <1>1 DEF Sound, Counted, Refs
<1>3. p.ev[e].refs > 0 /\ (p.ev[e].refs = 1 => ~ p.ev[e].enqueued)
  BY <1>2
<1>4. p' = u
  OBVIOUS
<1>5. /\ b \in Contexts /\ SameRest(p, b) /\ b.ev = [p.ev EXCEPT ![e] = Dropped(p.ev[e])]
      /\ b.pe = p.pe /\ b.events = p.events /\ b.wrote = p.wrote
  BY <1>1, <1>3, UnrefFields
<1> HIDE DEF b
<1>6. /\ u \in Contexts /\ u.ev = b.ev /\ u.pe = p.pe /\ u.events = p.events /\ u.wrote = p.wrote
      /\ u.pc = "service" /\ u.cur = NoEvent
  BY <1>5 DEF Contexts, PCs
<1> HIDE DEF u
<1>7. u.ev[e] = Dropped(p.ev[e]) /\ \A x \in Structs \ {e} : u.ev[x] = p.ev[x]
  BY <1>1, <1>5, <1>6
<1> HIDE DEF e
<1>8. /\ ~ Registered(p, e) /\ ~ p.ev[e].enqueued => u.ev[e] = NoStruct
      /\ Registered(p, e) \/ p.ev[e].enqueued =>
           /\ u.ev[e].ref = p.ev[e].ref /\ u.ev[e].canceled = p.ev[e].canceled
           /\ u.ev[e].enqueued = p.ev[e].enqueued /\ u.ev[e].refs = p.ev[e].refs - 1
  <2>1. CASE ~ Registered(p, e) /\ ~ p.ev[e].enqueued
    BY <1>1, <1>2, <1>7, <2>1, DroppedFields
  <2>2. CASE Registered(p, e) \/ p.ev[e].enqueued
    <3>1. p.ev[e].refs > 1
      BY <1>2, <2>2
    <3> QED
      BY <1>1, <1>3, <1>7, <2>2, <3>1, DroppedFields
  <2> QED
    BY <2>1, <2>2
<1>9. u.ev[e].enqueued <=> p.ev[e].enqueued
  BY <1>8 DEF NoStruct
<1>10. \A x \in Structs : Registered(u, x) <=> Registered(p, x)
  <2>1. ASSUME NEW x \in Structs, x # e PROVE Registered(u, x) <=> Registered(p, x)
    BY <1>6, <1>7, <2>1 DEF Registered
  <2>2. Registered(u, e) <=> Registered(p, e)
    BY <1>6, <1>8 DEF Registered, NoStruct
  <2> QED
    BY <2>1, <2>2
<1>11. Listed(u)
  <2>1. ASSUME NEW x \in Structs PROVE x \in ToSet(u.events) <=> u.ev[x].enqueued
    BY <1>1, <1>6, <1>7, <1>9 DEF Sound, Listed
  <2> QED
    BY <1>1, <1>6, <2>1 DEF Sound, Listed
<1>12. Held(u, live)
  <2> SUFFICES ASSUME NEW h \in Handles, u.pe[h] # NoEvent
               PROVE  h \in live /\ u.ev[u.pe[h]].ref = h /\ ~ u.ev[u.pe[h]].canceled
    BY DEF Held
  <2>1. u.pe[h] = p.pe[h] /\ p.pe[h] \in Structs
    BY <1>1, <1>6 DEF Contexts
  <2>2. h \in live /\ p.ev[p.pe[h]].ref = h /\ ~ p.ev[p.pe[h]].canceled
    BY <1>1, <1>6 DEF Sound, Held
  <2>3. p.pe[h] = e => Registered(p, e)
    BY <2>2, EventLoopAssumption DEF Registered
  <2> QED
    BY <1>7, <1>8, <2>1, <2>2, <2>3
<1>13. Counted(u)
  <2>1. ASSUME NEW x \in Structs, x # e PROVE u.ev[x].refs = Refs(u, x)
    <3>1. NoEvent # x /\ p.cur # x
      BY <2>1, EventLoopAssumption DEF e
    <3> QED
      BY <1>1, <1>6, <1>7, <1>10, <2>1, <3>1 DEF Sound, Counted, Refs
  <2>2. u.ev[e].refs = Refs(u, e)
    <3>1. u.cur # e
      BY <1>1, <1>6
    <3>2. CASE ~ Registered(p, e) /\ ~ p.ev[e].enqueued
      BY <1>1, <1>8, <1>9, <1>10, <3>1, <3>2 DEF Refs, NoStruct
    <3>3. CASE Registered(p, e) \/ p.ev[e].enqueued
      BY <1>1, <1>2, <1>8, <1>9, <1>10, <3>1, <3>3 DEF Refs
    <3> QED
      BY <3>2, <3>3
  <2> QED
    BY <2>1, <2>2 DEF Counted
<1>14. Waits(u)
  <2>1. ASSUME NEW x \in Structs, u.ev[x].enqueued PROVE Registered(u, x)
    BY <1>1, <1>7, <1>9, <1>10, <2>1 DEF Sound, Waits
  <2> QED
    BY <2>1 DEF Waits
<1>15. Served(u, live)
  BY <1>6 DEF Served, Serving
<1>16. Sound(u, live)
  BY <1>1, <1>6, <1>11, <1>12, <1>13, <1>14, <1>15 DEF Sound
<1>17. Sleeps(u)
  BY <1>6 DEF Sleeps
<1>18. gGiantMutex' # "loop"
  BY EventLoopAssumption
<1> QED
  BY <1>4, <1>6, <1>16, <1>17, <1>18, Framed DEF LoopInv

LEMMA ExecuteKeeps ==
  ASSUME LoopInv, Execute
  PROVE  LoopInv'
<1> DEFINE e == p.cur
           h == p.ev[e].ref
           b == pevent_cancel(p, e)
           c == [b EXCEPT !.pc = "enter"]
           u == IF p.ev[e].recurring THEN pevent_register(c, h, TRUE) ELSE c
<1>1. /\ Sound(p, live) /\ Sleeps(p) /\ p \in Contexts /\ p.pc = "execute" /\ live \subseteq Handles
      /\ e \in Structs /\ e # NoEvent /\ Registered(p, e) /\ gGiantMutex' = "loop"
  BY DEF LoopInv, Sound, Execute, Served, Serving, Contexts
<1>2. p' = u
  BY DEF Execute
<1>3. h \in Handles /\ p.pe[h] = e /\ p.pe[h] # NoEvent
  BY <1>1 DEF Registered, Contexts, Pevents
<1>4. h \in live /\ ~ p.ev[e].enqueued
  <2>1. h \in live
    BY <1>1, <1>3, HandleHolds
  <2>2. ~ p.ev[e].enqueued
    BY <1>1 DEF Sound, Served
  <2> QED
    BY <2>1, <2>2
<1>5. Cancelled(p, b, e, h) /\ b.events = p.events
  BY <1>1, <1>3, <1>4, CancelCancels
<1>6. /\ Sound(b, live) /\ Sleeps(b) /\ b \in Contexts /\ b.pc = "execute" /\ b.cur = e
      /\ b.ev[e].ref = h /\ ~ b.ev[e].enqueued /\ b.pe[h] = NoEvent /\ b.wrote = p.wrote
  <2>1. Sound(b, live) /\ Sleeps(b)
    BY <1>1, <1>3, <1>5, CancelledIsSound
  <2> QED
    BY <1>1, <1>3, <1>5, <2>1 DEF Cancelled, SameRest, Contexts
<1> HIDE DEF b
<1>7. /\ c \in Contexts /\ c.pe = b.pe /\ c.cur = e /\ c.wrote = b.wrote /\ c.ev = b.ev
      /\ c.events = b.events /\ c.pc = "enter"
  BY <1>6 DEF Contexts, PCs
<1> HIDE DEF c
<1>8. Sound(c, live) /\ Sleeps(c)
  <2>1. Like(b, c)
    BY <1>6, <1>7 DEF Like, Sound, Listed
  <2>2. h # NoEvent
    BY <1>3, EventLoopAssumption
  <2>3. Served(c, live)
    BY <1>1, <1>4, <1>6, <1>7, <2>2 DEF Served, Serving
  <2>4. Sound(c, live)
    BY <1>6, <2>1, <2>3, LikeIsSound DEF Sound, Held
  <2> QED
    BY <1>7, <2>4 DEF Sleeps
<1>9. Free(c) # {}
  <2>1. Free(p) # {}
    BY <1>1, RoomForOneMore
  <2>2. PICK s \in Free(p) : TRUE
    BY <2>1
  <2>3. s \in Structs /\ s # e
    BY <1>1, <2>2, FreeIsFree
  <2>4. c.ev[s] = p.ev[s]
    BY <1>5, <1>7, <2>3 DEF Cancelled
  <2> QED
    BY <2>2, <2>3, <2>4 DEF Free
<1>10. /\ Sound(u, live) /\ Sleeps(u) /\ u.pc = "enter"
  <2>1. CASE p.ev[e].recurring
    <3>1. c.pe[h] = NoEvent /\ TRUE \in BOOLEAN
      BY <1>6, <1>7
    <3>2. LET v == pevent_register(c, h, TRUE)
          IN  Sound(v, live) /\ Sleeps(v) /\ v.pc = "enter"
      BY <1>1, <1>4, <1>7, <1>8, <1>9, <3>1, RegisterIsSound
    <3> QED
      BY <2>1, <3>2
  <2>2. CASE ~ p.ev[e].recurring
    BY <1>7, <1>8, <2>2
  <2> QED
    BY <2>1, <2>2
<1> HIDE DEF u
<1> QED
  BY <1>1, <1>2, <1>10, Framed DEF Execute

LEMMA EnterKeeps ==
  ASSUME LoopInv, NEW h \in Handles, Enter(h)
  PROVE  LoopInv'
<1> DEFINE b == [p EXCEPT !.pc = "handler"]
<1>1. /\ Sound(p, live) /\ p \in Contexts /\ p.pc = "enter" /\ p.cur # NoEvent
      /\ p.ev[p.cur].ref = h /\ h \in live /\ gGiantMutex = "loop"
  BY DEF LoopInv, Sound, Enter, Served, Serving
<1>2. /\ b \in Contexts /\ b.pe = p.pe /\ b.cur = p.cur /\ b.wrote = p.wrote /\ b.ev = p.ev
      /\ b.events = p.events /\ b.pc = "handler"
  BY <1>1 DEF Contexts, PCs
<1>3. p' = Check(b, h \in live)
  BY DEF Enter
<1> HIDE DEF b
<1>4. p' = b
  BY <1>1, <1>2, <1>3, CheckHolds
<1>5. Like(p, b)
  BY <1>1, <1>2 DEF Like, Sound, Listed
<1>6. Served(b, live)
  BY <1>1, <1>2 DEF Sound, Served, Serving
<1>7. Sound(b, live)
  BY <1>1, <1>5, <1>6, LikeIsSound DEF Sound, Held
<1>8. Sleeps(b)
  BY <1>2 DEF Sleeps
<1>9. gGiantMutex' = "loop" /\ live' = live /\ timers' = timers /\ ready' \subseteq ready
  BY <1>1 DEF Enter
<1> QED
  BY <1>2, <1>4, <1>7, <1>8, <1>9 DEF LoopInv

\* The steps of the event thread, together.
LEMMA LoopKeeps ==
  ASSUME LoopInv, Build \/ PollReturns \/ Service \/ ExecuteCanceled \/ Execute \/ Return
  PROVE  LoopInv'
<1>1. CASE ExecuteCanceled
  <2>1. p.cur # NoEvent /\ gGiantMutex \in {"free"} \cup Threads
    BY <1>1 DEF ExecuteCanceled, LoopInv, Sound, Served, Serving
  <2>2. /\ p' = [Unref(p, p.cur) EXCEPT !.pc = "service", !.cur = NoEvent]
        /\ UNCHANGED << live, timers, ready >> /\ gGiantMutex' = gGiantMutex
    BY <1>1 DEF ExecuteCanceled
  <2> QED
    BY <2>1, <2>2, LetGoKeeps
<1>2. CASE Return
  <2>1. p.cur # NoEvent
    BY <1>2 DEF Return, LoopInv, Sound, Served, Serving
  <2>2. /\ p' = [Unref(p, p.cur) EXCEPT !.pc = "service", !.cur = NoEvent]
        /\ UNCHANGED << live, timers, ready >> /\ gGiantMutex' = "free"
    BY <1>2 DEF Return
  <2> QED
    BY <2>1, <2>2, LetGoKeeps
<1> QED
  BY <1>1, <1>2, BuildKeeps, PollReturnsKeeps, ServiceKeeps, ExecuteKeeps

----------------------------------------------------------------------------
(* The actions of the users of events. *)

\* User code runs neither before a handler is entered nor at the same time as the loop.
LEMMA UserRuns ==
  ASSUME LoopInv, InUserCode
  PROVE  p.pc # "enter"
  BY EventLoopAssumption DEF LoopInv, InUserCode, InHandler

LEMMA UserKeeps ==
  ASSUME LoopInv, InUserCode, NEW h \in Others,
         \/ \E recurring \in BOOLEAN : EventRegister(h, recurring)
         \/ EventUnRegister(h) \/ Freee(h) \/ Malloc(h)
  PROVE  LoopInv'
<1>1. /\ Sound(p, live) /\ Sleeps(p) /\ p \in Contexts /\ live \subseteq Handles /\ h \in Handles
      /\ p.pc # "enter" /\ h # msgh
  BY UserRuns DEF LoopInv, Sound, Others
<1>2. ASSUME NEW recurring \in BOOLEAN, EventRegister(h, recurring) PROVE LoopInv'
  <2> DEFINE u == pevent_register(p, h, recurring)
  <2>1. /\ h \in live /\ p.pe[h] = NoEvent /\ Free(p) # {} /\ p' = u
        /\ UNCHANGED << gGiantMutex, live, timers, ready >>
    BY <1>2 DEF EventRegister
  <2>2. /\ Sound(u, live) /\ Sleeps(u)
        /\ u.cur = p.cur /\ u.pc = (IF p.pc = "none" THEN "build" ELSE p.pc)
    BY <1>1, <2>1, RegisterIsSound
  <2> HIDE DEF u
  <2> QED
    BY <2>1, <2>2, Framed DEF LoopInv
<1>3. CASE EventUnRegister(h)
  <2> DEFINE u == pevent_unregister(p, h)
             e == p.pe[h]
  <2>1. /\ p.pe[h] # NoEvent /\ p' = u /\ UNCHANGED << gGiantMutex, live, timers, ready >>
    BY <1>3 DEF EventUnRegister
  <2>2. Cancelled(p, u, e, h) /\ e \in Structs
    BY <1>1, <2>1, UnregisterCancels, HandleHolds
  <2> HIDE DEF u
  <2>3. Sound(u, live) /\ Sleeps(u) /\ u.pc = p.pc
    BY <1>1, <2>2, CancelledIsSound DEF Cancelled, SameRest
  <2> QED
    BY <2>1, <2>3, Framed DEF LoopInv
<1>4. CASE Freee(h) \/ Malloc(h)
  <2>1. /\ p' = p /\ gGiantMutex' = gGiantMutex /\ timers' = timers /\ live' \subseteq Handles
        /\ ready' \subseteq live' \ timers /\ msgh \in live' \ timers
    BY <1>1, <1>4 DEF Freee, Malloc, LoopInv
  <2>2. \A g \in Handles : p.pe[g] # NoEvent => g \in live'
    BY <1>1, <1>4 DEF Freee, Malloc, Sound, Held
  <2>3. Like(p, p)
    BY <1>1 DEF Like, Sound, Listed
  <2>4. Served(p, live')
    BY <1>1 DEF Sound, Served
  <2>5. Sound(p, live')
    BY <1>1, <2>2, <2>3, <2>4, LikeIsSound
  <2>6. Sound(p', live')
    BY <2>1, <2>5
  <2> QED
    BY <2>1, <2>6 DEF LoopInv, Sleeps
<1> QED
  BY <1>2, <1>3, <1>4

----------------------------------------------------------------------------
(* The specification. *)

LEMMA LoopInitInvariant == LoopInit => LoopInv
<1> SUFFICES ASSUME LoopInit PROVE LoopInv
  OBVIOUS
<1> DEFINE u == pevent_register(NoEvents, msgh, TRUE)
<1>1. /\ p = u /\ gGiantMutex = "free" /\ live = Handles /\ ready = {}
      /\ timers \in SUBSET Others /\ msgh \in Handles
  BY EventLoopAssumption DEF LoopInit
<1>2. NoEvents \in Contexts /\ NoStruct \in Pevents
  BY DEF NoEvents, Contexts, NoStruct, Pevents, PCs
<1>3. /\ \A e \in Structs : NoEvents.ev[e] = NoStruct
      /\ \A h \in Handles : NoEvents.pe[h] = NoEvent
      /\ NoEvents.events = << >> /\ NoEvents.pc = "none" /\ NoEvents.cur = NoEvent
      /\ ~ NoEvents.wrote
  BY DEF NoEvents
<1>4. ToSet(NoEvents.events) = {} /\ IsInjective(NoEvents.events)
  BY <1>3 DEF ToSet, IsInjective
<1>5. \A e \in Structs : ~ Registered(NoEvents, e)
  BY <1>3 DEF Registered, NoStruct
<1>6. Sound(NoEvents, live)
  <2>1. Listed(NoEvents)
    BY <1>3, <1>4 DEF Listed, NoStruct
  <2>2. Held(NoEvents, live)
    BY <1>3 DEF Held
  <2>3. Counted(NoEvents)
    BY <1>3, <1>5, EventLoopAssumption DEF Counted, Refs, NoStruct
  <2>4. Waits(NoEvents)
    BY <1>3 DEF Waits, NoStruct
  <2>5. Served(NoEvents, live)
    BY <1>3 DEF Served, Serving
  <2> QED
    BY <1>2, <1>3, <2>1, <2>2, <2>3, <2>4, <2>5 DEF Sound
<1>7. Free(NoEvents) # {}
  BY <1>3, <1>6, EventLoopAssumption, RoomForOneMore
<1>8. Sleeps(NoEvents)
  BY <1>3 DEF Sleeps
<1>9. Sound(u, live) /\ Sleeps(u) /\ u.pc = "build"
  BY <1>1, <1>3, <1>6, <1>7, <1>8, RegisterIsSound
<1> HIDE DEF u
<1> QED
  BY <1>1, <1>9 DEF LoopInv, Others

LEMMA LoopStepInvariant == LoopInv /\ [LoopNext]_loopVars => LoopInv'
<1> SUFFICES ASSUME LoopInv, [LoopNext]_loopVars PROVE LoopInv'
  OBVIOUS
<1>1. /\ msgh \in live \ timers /\ live \subseteq Handles /\ ready \subseteq live \ timers
      /\ {"free", "loop"} \cap Threads = {} /\ msgh \in Handles
  BY EventLoopAssumption DEF LoopInv
<1>2. CASE UserSends
  BY <1>1, <1>2 DEF UserSends, LoopInv
<1>3. CASE UserOfEvents
  BY <1>3, UserKeeps DEF UserOfEvents
<1>4. CASE Poll \/ Dispatch \/ Run \/ Done
  BY <1>4, LoopKeeps DEF Poll, Dispatch, Run, Done
<1>5. CASE Handle
  BY <1>1, <1>5, EnterKeeps DEF Handle, Others
<1>6. CASE ThreadLocks \/ ThreadUnlocks
  <2>1. PICK t \in Threads : Lock(t) \/ Unlock(t)
    BY <1>6 DEF ThreadLocks, ThreadUnlocks
  <2> QED
    BY <1>1, <2>1 DEF Lock, Unlock, LoopInv
<1>7. CASE DataArrives
  <2>1. PICK h \in Others : Arrive(h)
    BY <1>7 DEF DataArrives
  <2> QED
    BY <2>1 DEF Arrive, LoopInv
<1>8. CASE MsgDone \/ UNCHANGED loopVars
  BY <1>8 DEF MsgDone, loopVars, pvars, LoopInv
<1> QED
  BY <1>2, <1>3, <1>4, <1>5, <1>6, <1>7, <1>8 DEF LoopNext

\* References, list, handles and the event in the loop's hands keep to the invariant in
\* every behaviour of the event thread, its handlers and the other threads (pevent.c).
THEOREM LoopInvariance == LoopSpec => []LoopInv
<1> QED BY LoopInitInvariant, LoopStepInvariant, PTL DEF LoopSpec

\* pevent_ctx_main() does not sleep on stale knowledge: while poll() waits, each event in
\* the list was in the array that poll() was given, or a byte in the pipe of the context
\* ends the wait.
THEOREM AlwaysSleepsRightly == LoopSpec => []SleepsRightly
<1>1. LoopInv => SleepsRightly
  BY DEF LoopInv, Sleeps, SleepsRightly
<1> QED BY <1>1, LoopInvariance, PTL

\* At most one handle points at an event.
LEMMA HandlesCounted ==
  ASSUME LoopInv, NEW e \in Structs
  PROVE  Cardinality({h \in Handles : p.pe[h] = e}) = IF Registered(p, e) THEN 1 ELSE 0
<1>1. /\ p \in Contexts /\ p.ev[e].ref \in Handles \cup {NoEvent} /\ e # NoEvent
      /\ NoEvent \notin Handles
  BY EventLoopAssumption DEF LoopInv, Sound, Contexts, Pevents
<1>2. \A h \in Handles : p.pe[h] = e => p.ev[e].ref = h
  BY <1>1 DEF LoopInv, Sound, Held
<1>3. CASE Registered(p, e)
  <2>1. {h \in Handles : p.pe[h] = e} = {p.ev[e].ref}
    BY <1>1, <1>2, <1>3 DEF Registered
  <2> QED
    BY <1>3, <2>1, FS_Singleton
<1>4. CASE ~ Registered(p, e)
  <2>1. {h \in Handles : p.pe[h] = e} = {}
    BY <1>1, <1>2, <1>4 DEF Registered
  <2> QED
    BY <1>4, <2>1, FS_EmptySet
<1> QED
  BY <1>3, <1>4

\* A handler is called, and a handle written through, only while the object it belongs
\* to exists; the references of a struct pevent are those of its handle, of the list and
\* of the loop, so that it is freed when nobody knows it any more, and not before.
THEOREM HandlersAlwaysMeetTheLiving == LoopSpec => []HandlersMeetTheLiving
<1>1. LoopInv => HandlersMeetTheLiving
  <2> SUFFICES ASSUME LoopInv PROVE HandlersMeetTheLiving
    OBVIOUS
  <2>1. /\ ~ p.wrote
        /\ \A h \in Handles : p.pe[h] # NoEvent =>
             h \in live /\ p.ev[p.pe[h]].ref = h /\ ~ p.ev[p.pe[h]].canceled
    BY DEF LoopInv, Sound, Held
  <2>2. ASSUME NEW e \in Structs
        PROVE  p.ev[e].refs = Cardinality({h \in Handles : p.pe[h] = e})
                              + (IF e \in ToSet(p.events) THEN 1 ELSE 0)
                              + (IF p.cur = e THEN 1 ELSE 0)
    <3>1. /\ p.ev[e].refs = Refs(p, e)
          /\ e \in ToSet(p.events) <=> p.ev[e].enqueued
      BY DEF LoopInv, Sound, Counted, Listed
    <3> QED
      BY <3>1, HandlesCounted DEF Refs
  <2> QED
    BY <2>1, <2>2 DEF HandlersMeetTheLiving
<1> QED BY <1>1, LoopInvariance, PTL

----------------------------------------------------------------------------
(* The message queue inside the loop. *)

\* MsgEvent() runs only as the handler of its event, and MsgSend() only in user code:
\* whatever the loop and its users do, the queue takes the steps of MsgQueue.
THEOREM QueueInLoop == LoopSpec => Spec
<1>1. LoopInit => Init
  BY DEF LoopInit
<1>2. [LoopNext]_loopVars => [Next]_vars
  <2> SUFFICES ASSUME [LoopNext]_loopVars PROVE [Next]_vars
    OBVIOUS
  <2>1. CASE UserSends
    BY <2>1 DEF UserSends, Next
  <2>2. CASE Handle
    BY <2>2 DEF Handle, Next
  <2>3. CASE MsgDone
    BY <2>3 DEF MsgDone, Next
  <2>4. CASE UserOfEvents \/ Poll \/ Dispatch \/ Run \/ Done
               \/ ThreadLocks \/ ThreadUnlocks \/ DataArrives
    BY <2>4 DEF UserOfEvents, Poll, Dispatch, Run, Done, ThreadLocks, ThreadUnlocks, DataArrives
  <2>5. CASE UNCHANGED loopVars
    BY <2>5 DEF loopVars
  <2> QED
    BY <2>1, <2>2, <2>3, <2>4, <2>5 DEF LoopNext
<1> QED BY <1>1, <1>2, PTL DEF LoopSpec, Spec

\* A message that waits is announced by a byte in the pipe in the loop as well.
THEOREM WakeupNeverLostInLoop == LoopSpec => []NoLostWakeup
<1> QED BY QueueInLoop, WakeupNeverLost, PTL

\* With the event loop to carry it, the ring still hands over every message exactly once
\* and in the order of MsgSend(), or the process has ended on a full ring (msg.c).
THEOREM LoopRefinesFifo == LoopSpec => Fifo!Spec
<1> QED BY QueueInLoop, RefinesFifo

\* The types of queue, context and events, among them that no event has more than three
\* references.
THEOREM LoopTypeCorrect == LoopSpec => []LoopTypeOK
<1>1. LoopInv => PeventTypeOK
  <2> SUFFICES ASSUME LoopInv PROVE PeventTypeOK
    OBVIOUS
  <2>1. p \in Contexts
    BY DEF LoopInv, Sound
  <2>2. ASSUME NEW e \in Structs
        PROVE  p.ev[e] \in [ref : Handles \cup {NoEvent}, occurred : BOOLEAN, canceled : BOOLEAN,
                            enqueued : BOOLEAN, recurring : BOOLEAN, polled : BOOLEAN, refs : 0 .. 3]
    <3>1. p.ev[e] \in Pevents
      BY <2>1 DEF Contexts
    <3>2. p.ev[e].refs \in 0 .. 3
      BY DEF LoopInv, Sound, Counted, Refs
    <3> QED
      BY <3>1, <3>2 DEF Pevents
  <2>3. p.ev = [e \in Structs |-> p.ev[e]]
    BY <2>1 DEF Contexts
  <2>4. p.ev \in [Structs -> [ref : Handles \cup {NoEvent}, occurred : BOOLEAN,
                              canceled : BOOLEAN, enqueued : BOOLEAN, recurring : BOOLEAN,
                              polled : BOOLEAN, refs : 0 .. 3]]
    BY <2>2, <2>3
  <2> QED
    BY <2>1, <2>4 DEF PeventTypeOK, LoopInv, Contexts, PCs
<1>2. LoopSpec => []TypeOK
  BY QueueInLoop, TypeCorrect, PTL
<1> QED BY <1>1, <1>2, LoopInvariance, PTL DEF LoopTypeOK

=============================================================================
