----------------------------- MODULE BundProofs -----------------------------
(***************************************************************************)
(* Proofs about the bundle: its counters and timers tell the truth about   *)
(* the table of links, its assertions hold, and no instance of a link      *)
(* keeps a slot it does not use, for any number of links and slots.        *)
(***************************************************************************)
EXTENDS Bund, FiniteSetTheorems, SequenceTheorems, TLAPS

Bundles ==
  [open : BOOLEAN, dead : BOOLEAN, stay : BOOLEAN,
   links : [Slots -> Links \cup {None}], n_links : Nat, n_up : Nat,
   link : [Links -> [st : LinkStates, joined : BOOLEAN]],
   ncpstarted : SUBSET Ncps, reOpenTimer : BOOLEAN, bmTimer : BOOLEAN,
   msgs : Seq(Messages), failed : {"none", "leave", "bm", "freed"}]

Confs == [linkst : [Slots -> Static \cup {Template, None}], bwmanage : BOOLEAN, ondemand : BOOLEAN]

----------------------------------------------------------------------------
(* The inductive invariant, part by part, of a configuration c, a bundle w *)
(* and a number n of failed joins.                                         *)

MembersOf(w) == {x \in Links : Member(w, x)}
JoinedOf(w)  == {x \in Links : w.link[x].joined}
Queued(w, op, x) == [op |-> op, to |-> x] \in ToSet(w.msgs)

\* No static link is named by two slots.
Names(c) == \A j, k \in Slots : j # k /\ c.linkst[j] = c.linkst[k] => c.linkst[j] \notin Static

\* A link is in one slot, and it is there.
Apart(w) == \A j, k \in Slots : j # k /\ w.links[j] = w.links[k] => w.links[j] = None

Slotted(w) ==
  /\ Apart(w)
  /\ \A x \in MembersOf(w) : w.link[x].st # "absent"

\* A static link that has not joined is in the slot that names it.
Placed(c, w) == \A k \in Slots : w.links[k] \in Static => w.links[k] = c.linkst[k] \/ w.link[w.links[k]].joined

Upward(w) ==
  /\ JoinedOf(w) \subseteq MembersOf(w) /\ \A x \in JoinedOf(w) : w.link[x].st = "open"
  /\ w.n_up = Cardinality(JoinedOf(w))

Counts(w, n) == w.n_links = Cardinality(MembersOf(w)) + n

Timed(c, w) ==
  /\ w.bmTimer <=> c.bwmanage /\ w.n_up > 0
  /\ w.reOpenTimer => w.open /\ w.n_up = 0 /\ c.bwmanage /\ ~c.ondemand

\* What moves an idle or a dying instance out of its slot is on its way, but for those of X.
Leaving(w, X) ==
  \A x \in (MembersOf(w) \cap Instances) \ X :
    /\ w.link[x].st = "idle" => Queued(w, "open", x)
    /\ w.link[x].st = "dying" => Queued(w, "shutdown", x)

\* Only a dying instance is shut down.
Dies(w) == \A x \in Links : Queued(w, "shutdown", x) => x \in Instances /\ w.link[x].st = "dying"

Living(c, w, n, X) ==
  Slotted(w) /\ Placed(c, w) /\ Upward(w) /\ Counts(w, n) /\ Timed(c, w) /\ Leaving(w, X) /\ Dies(w)

\* Static links may still be up if netgraph has failed to join one.
Dead(w, n) ==
  /\ \A k \in Slots : w.links[k] = None
  /\ n = 0 => JoinedOf(w) = {}
  /\ Dies(w)

Sound(c, w, n, X) == IF w.dead THEN Dead(w, n) ELSE Living(c, w, n, X)

\* An assertion may fail only for a link that netgraph failed to join, once the bundle is gone.
Good(c, w, n) ==
  /\ w \in Bundles
  /\ w.failed = "none" => Sound(c, w, n, {})
  /\ w.failed # "none" => w.dead /\ w.failed # "bm" /\ (n = 0 => w.failed # "leave")

BundInv ==
  /\ Good(conf, b, lost) /\ conf \in Confs /\ Names(conf)
  /\ handling \in BOOLEAN /\ lost \in 0 .. MaxLost

----------------------------------------------------------------------------
(* Numbers: the least and the greatest of a set, and induction, as facts about sets. *)

LEMMA FiniteExtremes ==
  ASSUME NEW S \in SUBSET Nat, IsFiniteSet(S), S # {}
  PROVE  (\E n \in S : \A m \in S : n <= m) /\ (\E n \in S : \A m \in S : n >= m)
<1> DEFINE Bad == {W \in SUBSET Nat : /\ W # {} /\ IsFiniteSet(W)
                                      /\ \/ ~ \E n \in W : \A m \in W : n <= m
                                         \/ ~ \E n \in W : \A m \in W : n >= m}
<1> SUFFICES ASSUME Bad # {} PROVE FALSE
  OBVIOUS
<1>1. IsWellFoundedOn(StrictSubsetOrdering(Nat), FiniteSubsetsOf(Nat))
  BY FS_StrictSubsetOrderingWellFounded
<1>2. Bad \subseteq FiniteSubsetsOf(Nat)
  BY DEF FiniteSubsetsOf
<1>3. PICK W \in Bad : \A V \in Bad : ~ (<< V, W >> \in StrictSubsetOrdering(Nat))
  BY <1>1, <1>2, WFMin
<1>4. PICK n \in W : TRUE
  BY <1>3
<1>5. W \ {n} \notin Bad
  BY <1>3, <1>4 DEF StrictSubsetOrdering
<1>6. IsFiniteSet(W \ {n})
  BY <1>3, FS_RemoveElement
<1>7. CASE W = {n}
  BY <1>7, <1>3, <1>4
<1>8. CASE W # {n}
  <2>1. PICK l \in W \ {n}, g \in W \ {n} : \A j \in W \ {n} : l <= j /\ g >= j
    BY <1>3, <1>4, <1>5, <1>6, <1>8
  <2> QED
    BY <2>1, <1>3, <1>4
<1> QED
  BY <1>7, <1>8

LEMMA SlotsFinite == IsFiniteSet(Slots)
<1>1. 1 \in Int /\ NSlots \in Int
  BY BundAssumption
<1> QED
  BY <1>1, FS_Interval, Zenon DEF Slots

LEMMA SlotExtremes ==
  ASSUME NEW S \in SUBSET Slots, S # {}
  PROVE  /\ Least(S) \in S /\ \A j \in S : Least(S) <= j
         /\ Greatest(S) \in S /\ \A j \in S : Greatest(S) >= j
<1>1. S \in SUBSET Nat /\ IsFiniteSet(S)
  <2>1. S \in SUBSET Nat
    BY DEF Slots
  <2>2. IsFiniteSet(S)
    BY SlotsFinite, FS_Subset, Zenon
  <2> QED
    BY <2>1, <2>2
<1> QED
  BY <1>1, FiniteExtremes DEF Least, Greatest

\* What holds at 0, and at k if at k - 1, holds up to n.
LEMMA UpTo ==
  ASSUME NEW n \in Nat, NEW S, 0 \in S, \A k \in 1 .. n : k - 1 \in S => k \in S
  PROVE  0 .. n \subseteq S
<1> SUFFICES ASSUME (0 .. n) \ S # {} PROVE FALSE
  OBVIOUS
<1>1. (0 .. n) \ S \in SUBSET Nat /\ IsFiniteSet((0 .. n) \ S)
  <2>1. 0 \in Int /\ n \in Int
    OBVIOUS
  <2>2. IsFiniteSet(0 .. n)
    BY <2>1, FS_Interval, Zenon
  <2>3. IsFiniteSet((0 .. n) \ S)
    BY <2>2, FS_Difference, Zenon
  <2> QED
    BY <2>3
<1>2. PICK k \in (0 .. n) \ S : \A j \in (0 .. n) \ S : k <= j
  BY <1>1, FiniteExtremes
<1>3. k \in 1 .. n /\ k - 1 \in 0 .. n /\ ~ (k <= k - 1)
  BY <1>2
<1> QED
  BY <1>2, <1>3

----------------------------------------------------------------------------
(* Messages. *)

LEMMA KeptDef ==
  ASSUME NEW q \in Seq(Messages), NEW gone
  PROVE  /\ Kept(q, gone)[0] = << >>
         /\ \A n \in 1 .. Len(q) :
              Kept(q, gone)[n] = IF q[n].to \in gone THEN Kept(q, gone)[n - 1]
                                 ELSE Append(Kept(q, gone)[n - 1], q[n])
<1> DEFINE After(v, n) == CASE n = 0                         -> << >>
                            [] n # 0 /\ q[n].to \in gone    -> v
                            [] n # 0 /\ q[n].to \notin gone -> Append(v, q[n])
           S == {n \in Nat : \E f : f = [k \in 0 .. n |-> After(f[k - 1], k)]}
<1>1. Len(q) \in Nat
  OBVIOUS
<1>2. 0 \in S
  <2>1. [k \in 0 .. 0 |-> << >>] = [k \in 0 .. 0 |-> After([j \in 0 .. 0 |-> << >>][k - 1], k)]
    OBVIOUS
  <2> QED
    BY <2>1
<1>3. ASSUME NEW n \in 1 .. Len(q), n - 1 \in S PROVE n \in S
  <2> HIDE DEF After
  <2>1. PICK f : f = [k \in 0 .. n - 1 |-> After(f[k - 1], k)]
    BY <1>3
  <2> DEFINE g == [k \in 0 .. n |-> IF k < n THEN f[k] ELSE After(f[n - 1], n)]
  <2>2. ASSUME NEW k \in 0 .. n PROVE g[k] = After(g[k - 1], k)
    <3>1. CASE k = n
      BY <3>1, <1>3
    <3>2. CASE k < n /\ k # 0
      BY <3>2, <2>1
    <3>3. CASE k = 0
      <4>1. \A u, v : After(u, 0) = After(v, 0)
        BY DEF After
      <4>2. g[0] = After(f[-1], 0)
        BY <2>1, <1>3
      <4> QED
        BY <3>3, <4>1, <4>2
    <3> QED
      BY <3>1, <3>2, <3>3
  <2>3. g = [k \in 0 .. n |-> After(g[k - 1], k)]
    BY <2>2
  <2>4. n \in Nat
    BY <1>3
  <2> HIDE DEF g
  <2>5. \E h : h = [k \in 0 .. n |-> After(h[k - 1], k)]
    BY ONLY <2>3
  <2> QED
    BY <2>4, <2>5
<1>4. Len(q) \in S
  <2> HIDE DEF S
  <2>1. \A n \in 1 .. Len(q) : n - 1 \in S => n \in S
    BY <1>3
  <2>2. 0 .. Len(q) \subseteq S
    BY <1>1, <1>2, <2>1, UpTo
  <2> QED
    BY <1>1, <2>2
<1>5. PICK f : f = [k \in 0 .. Len(q) |-> After(f[k - 1], k)]
  BY <1>4
<1>6. Kept(q, gone) = [k \in 0 .. Len(q) |-> After(Kept(q, gone)[k - 1], k)]
  BY <1>5 DEF Kept
<1> HIDE DEF After
<1>7. /\ Kept(q, gone)[0] = After(Kept(q, gone)[-1], 0)
      /\ \A n \in 1 .. Len(q) : Kept(q, gone)[n] = After(Kept(q, gone)[n - 1], n)
  BY <1>1, <1>6
<1> QED
  BY <1>7 DEF After

LEMMA ToSetAppend ==
  ASSUME NEW T, NEW q \in Seq(T), NEW m \in T
  PROVE  Append(q, m) \in Seq(T) /\ ToSet(Append(q, m)) = ToSet(q) \cup {m}
<1>1. /\ Len(q) \in Nat /\ DOMAIN q = 1 .. Len(q)
      /\ Append(q, m) \in Seq(T) /\ DOMAIN Append(q, m) = 1 .. Len(q) + 1
      /\ Append(q, m)[Len(q) + 1] = m
      /\ \A i \in 1 .. Len(q) : Append(q, m)[i] = q[i]
  OBVIOUS
<1>2. 1 .. Len(q) + 1 = (1 .. Len(q)) \cup {Len(q) + 1}
  BY <1>1
<1>3. ToSet(Append(q, m)) \subseteq ToSet(q) \cup {m}
  <2> SUFFICES ASSUME NEW i \in 1 .. Len(q) + 1 PROVE Append(q, m)[i] \in ToSet(q) \cup {m}
    BY <1>1 DEF ToSet
  <2> QED
    BY <1>1, <1>2 DEF ToSet
<1>4. ToSet(q) \cup {m} \subseteq ToSet(Append(q, m))
  BY <1>1, <1>2 DEF ToSet
<1> QED
  BY <1>1, <1>3, <1>4

LEMMA ToSetTail ==
  ASSUME NEW T, NEW q \in Seq(T), q # << >>
  PROVE  /\ Head(q) \in T /\ Tail(q) \in Seq(T)
         /\ ToSet(q) = ToSet(Tail(q)) \cup {Head(q)}
<1>1. /\ Len(q) \in Nat \ {0} /\ DOMAIN q = 1 .. Len(q) /\ Head(q) = q[1] /\ Head(q) \in T
      /\ Tail(q) \in Seq(T) /\ DOMAIN Tail(q) = 1 .. Len(q) - 1
      /\ \A i \in 1 .. Len(q) - 1 : Tail(q)[i] = q[i + 1]
  OBVIOUS
<1>2. \A i \in 1 .. Len(q) : i = 1 \/ (i - 1 \in 1 .. Len(q) - 1 /\ q[i] = Tail(q)[i - 1])
  BY <1>1
<1>3. \A i \in 1 .. Len(q) - 1 : i + 1 \in 1 .. Len(q)
  BY <1>1
<1>4. ToSet(q) \subseteq ToSet(Tail(q)) \cup {Head(q)}
  <2> SUFFICES ASSUME NEW i \in 1 .. Len(q) PROVE q[i] \in ToSet(Tail(q)) \cup {Head(q)}
    BY <1>1 DEF ToSet
  <2> QED
    BY <1>1, <1>2 DEF ToSet
<1>5. ToSet(Tail(q)) \cup {Head(q)} \subseteq ToSet(q)
  <2>1. 1 \in 1 .. Len(q)
    BY <1>1
  <2> QED
    BY <1>1, <1>3, <2>1 DEF ToSet
<1> QED
  BY <1>1, <1>4, <1>5

LEMMA WithoutFields ==
  ASSUME NEW q \in Seq(Messages), NEW gone
  PROVE  /\ Without(q, gone) \in Seq(Messages)
         /\ ToSet(Without(q, gone)) = {m \in ToSet(q) : m.to \notin gone}
<1> DEFINE k == Kept(q, gone)
           S == {n \in Nat : /\ k[n] \in Seq(Messages)
                             /\ ToSet(k[n]) = {q[i] : i \in {j \in 1 .. n : q[j].to \notin gone}}}
<1>1. Len(q) \in Nat /\ DOMAIN q = 1 .. Len(q) /\ \A i \in 1 .. Len(q) : q[i] \in Messages
  OBVIOUS
<1>2. /\ k[0] = << >>
      /\ \A n \in 1 .. Len(q) : k[n] = IF q[n].to \in gone THEN k[n - 1] ELSE Append(k[n - 1], q[n])
  BY KeptDef
<1> HIDE DEF k
<1>3. 0 \in S
  <2>1. k[0] \in Seq(Messages) /\ ToSet(k[0]) = {} /\ 1 .. 0 = {}
    BY <1>2 DEF ToSet
  <2> QED
    BY <2>1
<1>4. ASSUME NEW n \in 1 .. Len(q), n - 1 \in S PROVE n \in S
  <2>1. 1 .. n = (1 .. n - 1) \cup {n} /\ n \in Nat
    BY <1>1
  <2>2. CASE q[n].to \in gone
    BY <1>2, <1>4, <2>1, <2>2
  <2>3. CASE q[n].to \notin gone
    <3>1. k[n] = Append(k[n - 1], q[n])
      BY <1>2, <2>3
    <3>2. k[n] \in Seq(Messages) /\ ToSet(k[n]) = ToSet(k[n - 1]) \cup {q[n]}
      BY <1>1, <1>4, <3>1, ToSetAppend
    <3>3. {j \in 1 .. n : q[j].to \notin gone} = {j \in 1 .. n - 1 : q[j].to \notin gone} \cup {n}
      BY <2>1, <2>3
    <3> QED
      BY <1>4, <2>1, <3>2, <3>3
  <2> QED
    BY <2>2, <2>3
<1>5. Len(q) \in S
  <2> HIDE DEF S
  <2>1. \A n \in 1 .. Len(q) : n - 1 \in S => n \in S
    BY <1>4
  <2>2. 0 .. Len(q) \subseteq S
    BY <1>1, <1>3, <2>1, UpTo
  <2> QED
    BY <1>1, <2>2
<1>6. /\ k[Len(q)] \in Seq(Messages)
      /\ ToSet(k[Len(q)]) = {q[i] : i \in {j \in 1 .. Len(q) : q[j].to \notin gone}}
  BY <1>5
<1>7. {q[i] : i \in {j \in 1 .. Len(q) : q[j].to \notin gone}} = {m \in ToSet(q) : m.to \notin gone}
  BY <1>1 DEF ToSet
<1> QED
  BY <1>6, <1>7 DEF Without, k

----------------------------------------------------------------------------
(* What is done slot by slot. *)

LEMMA OpenedDef ==
  ASSUME NEW w
  PROVE  /\ Opened(w)[0] = w
         /\ \A k \in Slots : Opened(w)[k] = BundOpenSlot(Opened(w)[k - 1], k)
<1> DEFINE After(v, k) == IF k = 0 THEN w ELSE BundOpenSlot(v, k)
           S == {n \in Nat : \E f : f = [k \in 0 .. n |-> After(f[k - 1], k)]}
<1>1. NSlots \in Nat
  BY BundAssumption
<1>2. \A v : After(v, 0) = w
  OBVIOUS
<1> HIDE DEF After
<1>3. 0 \in S
  <2>1. [k \in 0 .. 0 |-> w] = [k \in 0 .. 0 |-> After([j \in 0 .. 0 |-> w][k - 1], k)]
    BY <1>2
  <2> QED
    BY <2>1
<1>4. ASSUME NEW n \in 1 .. NSlots, n - 1 \in S PROVE n \in S
  <2>1. PICK f : f = [k \in 0 .. n - 1 |-> After(f[k - 1], k)]
    BY <1>4
  <2> DEFINE g == [k \in 0 .. n |-> IF k < n THEN f[k] ELSE After(f[n - 1], n)]
  <2>2. ASSUME NEW k \in 0 .. n PROVE g[k] = After(g[k - 1], k)
    <3>1. CASE k = n
      BY <3>1, <1>4
    <3>2. CASE k < n /\ k # 0
      BY <3>2, <2>1
    <3>3. CASE k = 0
      <4>1. g[0] = After(f[-1], 0)
        BY <2>1, <1>4
      <4> QED
        BY <3>3, <4>1, <1>2
    <3> QED
      BY <3>1, <3>2, <3>3
  <2>3. g = [k \in 0 .. n |-> After(g[k - 1], k)]
    BY <2>2
  <2> HIDE DEF g
  <2> QED
    BY <2>3
<1>5. NSlots \in S
  <2> HIDE DEF S
  <2>1. \A n \in 1 .. NSlots : n - 1 \in S => n \in S
    BY <1>4
  <2>2. 0 .. NSlots \subseteq S
    BY <1>1, <1>3, <2>1, UpTo
  <2> QED
    BY <1>1, <2>2
<1>6. PICK f : f = [k \in 0 .. NSlots |-> After(f[k - 1], k)]
  BY <1>5
<1>7. Opened(w) = [k \in 0 .. NSlots |-> After(Opened(w)[k - 1], k)]
  BY <1>6 DEF Opened, After
<1>8. /\ Opened(w)[0] = After(Opened(w)[-1], 0)
      /\ \A k \in 1 .. NSlots : Opened(w)[k] = After(Opened(w)[k - 1], k)
  BY <1>1, <1>7
<1> QED
  BY <1>2, <1>8 DEF After, Slots

LEMMA ClosedDef ==
  ASSUME NEW w
  PROVE  /\ Closed(w)[0] = w
         /\ \A k \in Slots : Closed(w)[k] = IF k \in OpenSlots(w) THEN BundCloseLink(Closed(w)[k - 1], k) ELSE Closed(w)[k - 1]
<1> DEFINE After(v, k) == CASE k = 0                          -> w
                            [] k # 0 /\ k \in OpenSlots(w)    -> BundCloseLink(v, k)
                            [] k # 0 /\ k \notin OpenSlots(w) -> v
           S == {n \in Nat : \E f : f = [k \in 0 .. n |-> After(f[k - 1], k)]}
<1>1. NSlots \in Nat
  BY BundAssumption
<1>2. \A v : After(v, 0) = w
  OBVIOUS
<1> HIDE DEF After
<1>3. 0 \in S
  <2>1. [k \in 0 .. 0 |-> w] = [k \in 0 .. 0 |-> After([j \in 0 .. 0 |-> w][k - 1], k)]
    BY <1>2
  <2> QED
    BY <2>1
<1>4. ASSUME NEW n \in 1 .. NSlots, n - 1 \in S PROVE n \in S
  <2>1. PICK f : f = [k \in 0 .. n - 1 |-> After(f[k - 1], k)]
    BY <1>4
  <2> DEFINE g == [k \in 0 .. n |-> IF k < n THEN f[k] ELSE After(f[n - 1], n)]
  <2>2. ASSUME NEW k \in 0 .. n PROVE g[k] = After(g[k - 1], k)
    <3>1. CASE k = n
      BY <3>1, <1>4
    <3>2. CASE k < n /\ k # 0
      BY <3>2, <2>1
    <3>3. CASE k = 0
      <4>1. g[0] = After(f[-1], 0)
        BY <2>1, <1>4
      <4> QED
        BY <3>3, <4>1, <1>2
    <3> QED
      BY <3>1, <3>2, <3>3
  <2>3. g = [k \in 0 .. n |-> After(g[k - 1], k)]
    BY <2>2
  <2> HIDE DEF g
  <2> QED
    BY <2>3
<1>5. NSlots \in S
  <2> HIDE DEF S
  <2>1. \A n \in 1 .. NSlots : n - 1 \in S => n \in S
    BY <1>4
  <2>2. 0 .. NSlots \subseteq S
    BY <1>1, <1>3, <2>1, UpTo
  <2> QED
    BY <1>1, <2>2
<1>6. PICK f : f = [k \in 0 .. NSlots |-> After(f[k - 1], k)]
  BY <1>5
<1>7. Closed(w) = [k \in 0 .. NSlots |-> After(Closed(w)[k - 1], k)]
  BY <1>6 DEF Closed, After
<1>8. /\ Closed(w)[0] = After(Closed(w)[-1], 0)
      /\ \A k \in 1 .. NSlots : Closed(w)[k] = After(Closed(w)[k - 1], k)
  BY <1>1, <1>7
<1> QED
  BY <1>2, <1>8 DEF After, Slots

----------------------------------------------------------------------------
(* Messages that are sent.  u is w with more messages. *)

SameButMsgs(u, w) ==
  /\ u.open = w.open /\ u.dead = w.dead /\ u.stay = w.stay /\ u.links = w.links
  /\ u.n_links = w.n_links /\ u.n_up = w.n_up /\ u.link = w.link /\ u.ncpstarted = w.ncpstarted
  /\ u.reOpenTimer = w.reOpenTimer /\ u.bmTimer = w.bmTimer /\ u.failed = w.failed

\* Nothing but what the invariant allows at any time: no shutdown of a link that lives.
Harmless(w, m) == m.op = "shutdown" => m.to \in Instances /\ w.link[m.to].st = "dying"

Sent(u, w) ==
  /\ u \in Bundles /\ SameButMsgs(u, w) /\ ToSet(w.msgs) \subseteq ToSet(u.msgs)
  /\ \A m \in ToSet(u.msgs) : m \in ToSet(w.msgs) \/ Harmless(w, m)

LEMMA MsgSendSends ==
  ASSUME NEW w \in Bundles, NEW op, NEW x, [op |-> op, to |-> x] \in Messages,
         op = "shutdown" => x \in Instances /\ w.link[x].st = "dying"
  PROVE  Sent(MsgSend(w, op, x), w) /\ Queued(MsgSend(w, op, x), op, x)
<1> DEFINE m == [op |-> op, to |-> x]
           u == MsgSend(w, op, x)
<1>1. w.msgs \in Seq(Messages)
  BY DEF Bundles
<1>2. u \in Bundles /\ SameButMsgs(u, w) /\ u.msgs = Append(w.msgs, m)
  <2>1. u = [w EXCEPT !.msgs = Append(w.msgs, m)] /\ Append(w.msgs, m) \in Seq(Messages)
    BY <1>1, ToSetAppend DEF MsgSend
  <2> HIDE DEF u, m
  <2> QED
    BY <2>1 DEF Bundles, SameButMsgs
<1>3. ToSet(u.msgs) = ToSet(w.msgs) \cup {m}
  BY <1>1, <1>2, ToSetAppend
<1>4. Harmless(w, m)
  BY DEF Harmless
<1> QED
  BY <1>2, <1>3, <1>4 DEF Sent, Queued

LEMMA SentTrans ==
  ASSUME NEW u, NEW v, NEW w, Sent(u, v), Sent(v, w)
  PROVE  Sent(u, w)
<1>1. v.link = w.link
  BY DEF Sent, SameButMsgs
<1>2. \A m : Harmless(v, m) <=> Harmless(w, m)
  BY <1>1 DEF Harmless
<1>3. SameButMsgs(u, w)
  BY DEF Sent, SameButMsgs
<1> QED
  BY <1>2, <1>3 DEF Sent

LEMMA SentRefl ==
  ASSUME NEW w \in Bundles
  PROVE  Sent(w, w)
BY DEF Sent, SameButMsgs

LEMMA SentSound ==
  ASSUME NEW w \in Bundles, NEW u, Sent(u, w), NEW c, NEW n, NEW X, Sound(c, w, n, X)
  PROVE  Sound(c, u, n, X)
<1>1. /\ u.links = w.links /\ u.link = w.link /\ u.dead = w.dead
      /\ MembersOf(u) = MembersOf(w) /\ JoinedOf(u) = JoinedOf(w)
  BY DEF Sent, SameButMsgs, MembersOf, JoinedOf, Member
<1>2. /\ Slotted(w) => Slotted(u)
      /\ Placed(c, w) => Placed(c, u)
  BY <1>1 DEF Slotted, Apart, Placed
<1>3. /\ Upward(w) => Upward(u)
      /\ Counts(w, n) => Counts(u, n)
      /\ Timed(c, w) => Timed(c, u)
  BY <1>1 DEF Upward, Counts, Timed, Sent, SameButMsgs
<1>4. Leaving(w, X) => Leaving(u, X)
  BY <1>1 DEF Leaving, Queued, Sent
<1>5. Dies(w) => Dies(u)
  <2> SUFFICES ASSUME Dies(w), NEW x \in Links, Queued(u, "shutdown", x)
               PROVE  x \in Instances /\ u.link[x].st = "dying"
    BY DEF Dies
  <2>1. CASE Queued(w, "shutdown", x)
    BY <1>1, <2>1 DEF Dies
  <2>2. CASE ~ Queued(w, "shutdown", x)
    BY <1>1, <2>2 DEF Queued, Sent, Harmless
  <2> QED
    BY <2>1, <2>2
<1> QED
  BY <1>1, <1>2, <1>3, <1>4, <1>5 DEF Sound, Living, Dead

\* The messages to open links to close only.
LEMMA ClosedSends ==
  ASSUME NEW w \in Bundles
  PROVE  Sent(Closed(w)[NSlots], w)
<1> DEFINE S == {k \in Nat : k <= NSlots => Sent(Closed(w)[k], w)}
<1>1. NSlots \in Nat
  BY BundAssumption
<1>2. 0 \in S
  BY ClosedDef, SentRefl
<1>3. ASSUME NEW k \in 1 .. NSlots, k - 1 \in S PROVE k \in S
  <2> DEFINE v == Closed(w)[k - 1]
  <2>1. Sent(v, w) /\ k \in Slots
    BY <1>1, <1>3 DEF Slots
  <2>2. CASE k \in OpenSlots(w)
    <3>1. v \in Bundles /\ v.links[k] \in Links
      BY <2>1, <2>2 DEF OpenSlots, Sent, SameButMsgs, Bundles
    <3>2. [op |-> "close", to |-> v.links[k]] \in Messages
      BY <3>1 DEF Messages
    <3>3. Closed(w)[k] = MsgSend(v, "close", v.links[k])
      BY <2>1, <2>2, ClosedDef DEF BundCloseLink
    <3> HIDE DEF v
    <3>4. Sent(Closed(w)[k], v)
      BY <3>1, <3>2, <3>3, MsgSendSends
    <3> QED
      BY <2>1, <3>4, SentTrans
  <2>3. CASE k \notin OpenSlots(w)
    BY <2>1, <2>3, ClosedDef
  <2> QED
    BY <2>2, <2>3
<1>4. 0 .. NSlots \subseteq S
  <2> HIDE DEF S
  <2>1. \A k \in 1 .. NSlots : k - 1 \in S => k \in S
    BY <1>3
  <2> QED
    BY <1>1, <1>2, <2>1, UpTo
<1> QED
  BY <1>1, <1>4

\* BundCloseLinks() leaves the table alone and stops the reopen timer.
LEMMA CloseLinksSound ==
  ASSUME NEW w \in Bundles
  PROVE  /\ Sent(BundCloseLinks(w), [w EXCEPT !.reOpenTimer = FALSE])
         /\ \A c, n, X : Sound(c, w, n, X) => Sound(c, BundCloseLinks(w), n, X)
<1> DEFINE v == [w EXCEPT !.reOpenTimer = FALSE]
<1>1. /\ v \in Bundles /\ ~ v.reOpenTimer /\ v.open = w.open /\ v.dead = w.dead /\ v.links = w.links
      /\ v.n_links = w.n_links /\ v.n_up = w.n_up /\ v.link = w.link /\ v.bmTimer = w.bmTimer
      /\ v.msgs = w.msgs
  BY DEF Bundles
<1>2. BundCloseLinks(w) = Closed(v)[NSlots]
  BY DEF BundCloseLinks
<1> HIDE DEF v
<1>3. Sent(BundCloseLinks(w), v)
  BY <1>1, <1>2, ClosedSends
<1>4. ASSUME NEW c, NEW n, NEW X, Sound(c, w, n, X) PROVE Sound(c, v, n, X)
  <2>1. MembersOf(v) = MembersOf(w) /\ JoinedOf(v) = JoinedOf(w) /\ \A op, x : Queued(v, op, x) <=> Queued(w, op, x)
    BY <1>1 DEF MembersOf, JoinedOf, Member, Queued
  <2>2. /\ Slotted(w) => Slotted(v)
        /\ Placed(c, w) => Placed(c, v)
        /\ Upward(w) => Upward(v)
        /\ Counts(w, n) => Counts(v, n)
    BY <1>1, <2>1 DEF Slotted, Apart, Placed, Upward, Counts
  <2>3. /\ Timed(c, w) => Timed(c, v)
        /\ Leaving(w, X) => Leaving(v, X)
        /\ Dies(w) => Dies(v)
    BY <1>1, <2>1 DEF Timed, Leaving, Dies
  <2> QED
    BY <1>1, <1>4, <2>1, <2>2, <2>3 DEF Sound, Living, Dead
<1> QED
  BY <1>1, <1>3, <1>4, SentSound DEF v

----------------------------------------------------------------------------
(* Opening the links. *)

\* A link that may be put into a slot is in none.
LEMMA CandidatesFree ==
  ASSUME NEW w \in Bundles, conf \in Confs, Names(conf), Slotted(w), Placed(conf, w), Upward(w),
         NEW k \in Slots, w.links[k] = None, NEW x \in Candidates(w, k)
  PROVE  /\ x \in Links /\ x # None /\ ~ w.link[x].joined /\ x \notin MembersOf(w)
         /\ x \in Instances => w.link[x].st = "absent"
         /\ x \in Static => x = conf.linkst[k] /\ w.link[x].st = "idle"
<1>1. CASE conf.linkst[k] = Template
  <2>1. x \in Instances /\ w.link[x].st = "absent"
    BY <1>1 DEF Candidates
  <2>2. x \in Links /\ x # None /\ x \notin Static
    BY <2>1, BundAssumption DEF Links
  <2>3. x \notin JoinedOf(w) /\ x \notin MembersOf(w)
    BY <2>1 DEF Slotted, Upward
  <2> QED
    BY <2>1, <2>2, <2>3 DEF JoinedOf
<1>2. CASE conf.linkst[k] # Template
  <2>1. x \in Static /\ x = conf.linkst[k] /\ w.link[x].st = "idle"
    BY <1>2 DEF Candidates, PhysIsBusy
  <2>2. x \in Links /\ x # None /\ x \notin Instances
    BY <2>1, BundAssumption DEF Links
  <2>3. ~ w.link[x].joined
    BY <2>1, <2>2 DEF JoinedOf, Upward
  <2>4. ASSUME NEW j \in Slots, w.links[j] = x PROVE FALSE
    <3>1. conf.linkst[j] = x /\ j # k
      BY <2>1, <2>2, <2>3, <2>4 DEF Placed
    <3> QED
      BY <2>1, <3>1 DEF Names
  <2> QED
    BY <2>1, <2>2, <2>3, <2>4 DEF MembersOf, Member
<1> QED
  BY <1>1, <1>2

LEMMA NoneIsNoLink == None \notin Links
BY BundAssumption DEF Links

LinkRecords == [st : LinkStates, joined : BOOLEAN]

\* Changing one field of a link.
LEMMA LinkSt ==
  ASSUME NEW r \in LinkRecords, NEW s
  PROVE  [r EXCEPT !.st = s] = [st |-> s, joined |-> r.joined]
BY DEF LinkRecords

LEMMA LinkJoined ==
  ASSUME NEW r \in LinkRecords, NEW j
  PROVE  [r EXCEPT !.joined = j] = [st |-> r.st, joined |-> j]
BY DEF LinkRecords

LEMMA MembersFinite ==
  ASSUME NEW w \in Bundles
  PROVE  IsFiniteSet(MembersOf(w)) /\ Cardinality(MembersOf(w)) \in Nat
<1> DEFINE T == {w.links[k] : k \in Slots}
<1>1. w.links \in Surjection(Slots, T)
  BY DEF Bundles, Surjection
<1>2. IsFiniteSet(T)
  BY <1>1, SlotsFinite, FS_Surjection, Zenon
<1>3. MembersOf(w) \subseteq T
  BY DEF MembersOf, Member
<1> HIDE DEF T
<1>4. IsFiniteSet(MembersOf(w))
  BY <1>2, <1>3, FS_Subset, Zenon
<1> QED
  BY <1>4, FS_CardinalityType

\* A free slot takes a link that has none: the members are one more.
LEMMA Seated ==
  ASSUME NEW w \in Bundles, NEW k \in Slots, w.links[k] = None, NEW x \in Links, x # None,
         x \notin MembersOf(w), NEW u, u.links = [w.links EXCEPT ![k] = x]
  PROVE  /\ MembersOf(u) = MembersOf(w) \cup {x}
         /\ Cardinality(MembersOf(u)) = Cardinality(MembersOf(w)) + 1
         /\ Apart(w) => Apart(u)
<1>1. /\ w.links \in [Slots -> Links \cup {None}] /\ u.links[k] = x
      /\ \A j \in Slots \ {k} : u.links[j] = w.links[j]
  BY DEF Bundles
<1>2. \A j \in Slots : w.links[j] # x
  BY DEF MembersOf, Member
<1>3. MembersOf(u) = MembersOf(w) \cup {x}
  BY <1>1, NoneIsNoLink DEF MembersOf, Member
<1>4. Cardinality(MembersOf(u)) = Cardinality(MembersOf(w)) + 1
  <2>1. IsFiniteSet(MembersOf(w))
    BY MembersFinite
  <2>2. Cardinality(MembersOf(w) \cup {x}) = Cardinality(MembersOf(w)) + 1
    BY <2>1, FS_AddElement, Zenon
  <2> QED
    BY <1>3, <2>2
<1>5. ASSUME Apart(w),
             NEW i \in Slots, NEW j \in Slots, i # j, u.links[i] = u.links[j]
      PROVE  u.links[i] = None
  BY <1>1, <1>2, <1>5 DEF Apart
<1> QED
  BY <1>3, <1>4, <1>5 DEF Apart

\* A slot is freed: the members are one less.
LEMMA Vacated ==
  ASSUME NEW w \in Bundles, NEW k \in Slots, NEW x \in Links, x # None, w.links[k] = x,
         Apart(w), NEW u, u.links = [w.links EXCEPT ![k] = None]
  PROVE  /\ x \in MembersOf(w) /\ MembersOf(u) = MembersOf(w) \ {x}
         /\ Cardinality(MembersOf(u)) = Cardinality(MembersOf(w)) - 1
         /\ Apart(u)
<1>1. /\ w.links \in [Slots -> Links \cup {None}] /\ u.links[k] = None
      /\ \A j \in Slots \ {k} : u.links[j] = w.links[j] /\ w.links[j] # x
  BY DEF Bundles, Apart
<1>2. x \in MembersOf(w) /\ MembersOf(u) = MembersOf(w) \ {x}
  BY <1>1, NoneIsNoLink DEF MembersOf, Member
<1>3. Cardinality(MembersOf(u)) = Cardinality(MembersOf(w)) - 1
  <2>1. IsFiniteSet(MembersOf(w))
    BY MembersFinite
  <2>2. Cardinality(MembersOf(w) \ {x}) = Cardinality(MembersOf(w)) - 1
    BY <1>2, <2>1, FS_RemoveElement, Zenon
  <2> QED
    BY <1>2, <2>2
<1>4. ASSUME NEW i \in Slots, NEW j \in Slots, i # j, u.links[i] = u.links[j]
      PROVE  u.links[i] = None
  BY <1>1, <1>4 DEF Apart
<1> QED
  BY <1>2, <1>3, <1>4 DEF Apart

LEMMA CreateOpenLinkSound ==
  ASSUME NEW w \in Bundles, conf \in Confs, Names(conf), NEW n \in Nat, Living(conf, w, n, {}),
         NEW k \in Slots, w.links[k] = None
  PROVE  LET u == BundCreateOpenLink(w, k)
         IN  u \in Bundles /\ Living(conf, u, n, {}) /\ u.dead = w.dead /\ u.failed = w.failed
<1>1. CASE Candidates(w, k) = {}
  BY <1>1 DEF BundCreateOpenLink
<1>2. CASE Candidates(w, k) # {}
  <2> DEFINE x == CHOOSE y \in Candidates(w, k) : TRUE
             v == [w EXCEPT !.links[k] = x, !.link[x].st = "idle", !.n_links = @ + 1]
             u == MsgSend(v, "open", x)
  <2>1. x \in Candidates(w, k)
    BY <1>2
  <2> HIDE DEF x
  <2>2. /\ x \in Links /\ x # None /\ ~ w.link[x].joined /\ x \notin MembersOf(w)
        /\ x \in Instances => w.link[x].st = "absent"
        /\ x \in Static => x = conf.linkst[k] /\ w.link[x].st = "idle"
    BY <2>1, CandidatesFree DEF Living
  <2>3. /\ v \in Bundles /\ v.links = [w.links EXCEPT ![k] = x]
        /\ v.link = [w.link EXCEPT ![x] = [st |-> "idle", joined |-> FALSE]]
        /\ v.n_links = w.n_links + 1 /\ v.n_up = w.n_up /\ v.msgs = w.msgs
        /\ v.bmTimer = w.bmTimer /\ v.reOpenTimer = w.reOpenTimer /\ v.open = w.open
        /\ v.dead = w.dead /\ v.failed = w.failed
    <3> DEFINE p == [w.links EXCEPT ![k] = x]
               q == [w.link EXCEPT ![x] = [st |-> "idle", joined |-> FALSE]]
               i == w.n_links + 1
    <3>1. /\ w.links \in [Slots -> Links \cup {None}] /\ w.n_links \in Nat
          /\ w.link \in [Links -> LinkRecords]
      BY DEF Bundles, LinkRecords
    <3>2. p \in [Slots -> Links \cup {None}] /\ q \in [Links -> LinkRecords] /\ i \in Nat
      BY <2>2, <3>1 DEF LinkStates, LinkRecords
    <3>3. [w.link EXCEPT ![x].st = "idle"] = q
      <4>1. w.link[x].joined = FALSE
        BY <2>2, <3>1 DEF LinkRecords
      <4>2. w.link[x] \in LinkRecords
        BY <2>2, <3>1
      <4>3. [w.link[x] EXCEPT !.st = "idle"] = [st |-> "idle", joined |-> w.link[x].joined]
        BY <4>2, LinkSt
      <4> QED
        BY <4>1, <4>3
    <3>4. v = [w EXCEPT !.links = p, !.link = q, !.n_links = i]
      BY <3>3 DEF Bundles
    <3> HIDE DEF p, q, i, v
    <3>5. v \in Bundles
      BY <3>2, <3>4 DEF Bundles, LinkRecords
    <3>6. /\ v.links = p /\ v.link = q /\ v.n_links = i /\ v.n_up = w.n_up /\ v.msgs = w.msgs
          /\ v.bmTimer = w.bmTimer /\ v.reOpenTimer = w.reOpenTimer /\ v.open = w.open
          /\ v.dead = w.dead /\ v.failed = w.failed
      BY <3>4 DEF Bundles
    <3> QED
      BY <3>5, <3>6 DEF p, q, i
  <2>4. BundCreateOpenLink(w, k) = u
    BY <1>2, <2>3 DEF BundCreateOpenLink, BundOpenLink, x, Bundles
  <2> HIDE DEF v
  <2>5. [op |-> "open", to |-> x] \in Messages
    BY <2>2 DEF Messages
  <2>6. Sent(u, v) /\ Queued(u, "open", x)
    BY <2>3, <2>5, MsgSendSends
  <2> HIDE DEF u
  <2>7. /\ MembersOf(v) = MembersOf(w) \cup {x}
        /\ Cardinality(MembersOf(v)) = Cardinality(MembersOf(w)) + 1
        /\ Apart(v)
    BY <2>2, <2>3, Seated DEF Living, Slotted
  <2>8. /\ w.link \in [Links -> [st : LinkStates, joined : BOOLEAN]]
        /\ v.link[x].st = "idle" /\ ~ v.link[x].joined
        /\ \A y \in Links \ {x} : v.link[y] = w.link[y]
        /\ w.links \in [Slots -> Links \cup {None}] /\ v.links[k] = x
        /\ \A j \in Slots \ {k} : v.links[j] = w.links[j]
    BY <2>2, <2>3 DEF Bundles
  <2>9. JoinedOf(v) = JoinedOf(w)
    BY <2>2, <2>8 DEF JoinedOf
  <2>10. Slotted(v)
    BY <2>7, <2>8 DEF Slotted, Living, MembersOf
  <2>11. Placed(conf, v)
    <3>1. \A j \in Slots \ {k} : v.links[j] # x
      BY <2>2, <2>8 DEF MembersOf, Member
    <3> QED
      BY <2>2, <2>8, <3>1 DEF Placed, Living, Links
  <2>12. Upward(v)
    <3>1. JoinedOf(v) \subseteq MembersOf(v) /\ v.n_up = Cardinality(JoinedOf(v))
      BY <2>3, <2>7, <2>9 DEF Upward, Living
    <3>2. ASSUME NEW y \in JoinedOf(v) PROVE v.link[y].st = "open"
      BY <2>2, <2>8, <2>9, <3>2 DEF Upward, Living, JoinedOf
    <3> QED
      BY <3>1, <3>2 DEF Upward
  <2>13. Counts(v, n)
    <3>1. Cardinality(MembersOf(w)) \in Nat
      BY MembersFinite
    <3> QED
      BY <2>3, <2>7, <3>1 DEF Counts, Living
  <2>14. Timed(conf, v)
    BY <2>3 DEF Timed, Living
  <2>15. Dies(v)
    BY <2>2, <2>3, <2>8, BundAssumption DEF Dies, Queued, Living, Links
  <2>16. MembersOf(u) = MembersOf(v) /\ u.link = v.link
    BY <2>6 DEF Sent, SameButMsgs, MembersOf, Member
  <2>17. Leaving(u, {})
    <3> SUFFICES ASSUME NEW y \in MembersOf(u) \cap Instances
                 PROVE  /\ u.link[y].st = "idle" => Queued(u, "open", y)
                        /\ u.link[y].st = "dying" => Queued(u, "shutdown", y)
      BY DEF Leaving
    <3>1. CASE y = x
      BY <2>6, <2>8, <2>16, <3>1
    <3>2. CASE y # x
      <4>1. y \in MembersOf(w) \cap Instances /\ u.link[y] = w.link[y]
        BY <2>7, <2>8, <2>16, <3>2 DEF MembersOf
      <4> QED
        BY <2>3, <2>6, <4>1 DEF Living, Leaving, Queued, Sent
    <3> QED
      BY <3>1, <3>2
  <2>18. u.links = v.links /\ u.dead = v.dead /\ u.failed = v.failed /\ JoinedOf(u) = JoinedOf(v)
    BY <2>6 DEF Sent, SameButMsgs, JoinedOf
  <2>19. Slotted(u) /\ Placed(conf, u)
    BY <2>10, <2>11, <2>16, <2>18 DEF Slotted, Apart, Placed
  <2>20. Upward(u) /\ Counts(u, n) /\ Timed(conf, u)
    BY <2>6, <2>12, <2>13, <2>14, <2>16, <2>18 DEF Upward, Counts, Timed, Sent, SameButMsgs
  <2>21. Dies(u)
    BY <2>6, <2>15, <2>16 DEF Dies, Queued, Sent, Harmless
  <2> QED
    BY <2>3, <2>4, <2>6, <2>17, <2>18, <2>19, <2>20, <2>21 DEF Living, Sent
<1> QED
  BY <1>1, <1>2

----------------------------------------------------------------------------
(* One link changes its state. *)

SameButLink(u, w) ==
  /\ u.open = w.open /\ u.dead = w.dead /\ u.stay = w.stay /\ u.links = w.links
  /\ u.n_links = w.n_links /\ u.n_up = w.n_up /\ u.ncpstarted = w.ncpstarted /\ u.msgs = w.msgs
  /\ u.reOpenTimer = w.reOpenTimer /\ u.bmTimer = w.bmTimer /\ u.failed = w.failed

AtState(w, x, s) == [w EXCEPT !.link[x].st = s]

LEMMA AtStateFields ==
  ASSUME NEW w \in Bundles, NEW x \in Links, NEW s \in LinkStates
  PROVE  /\ AtState(w, x, s) \in Bundles /\ SameButLink(AtState(w, x, s), w)
         /\ AtState(w, x, s).link[x].st = s /\ AtState(w, x, s).link[x].joined = w.link[x].joined
         /\ \A y \in Links \ {x} : AtState(w, x, s).link[y] = w.link[y]
<1> DEFINE f == [w.link EXCEPT ![x] = [st |-> s, joined |-> w.link[x].joined]]
           u == AtState(w, x, s)
<1>1. w.link \in [Links -> LinkRecords] /\ w.link[x] \in LinkRecords
  BY DEF Bundles, LinkRecords
<1>2. [w.link[x] EXCEPT !.st = s] = [st |-> s, joined |-> w.link[x].joined]
  BY <1>1, LinkSt
<1>3. u = [w EXCEPT !.link = f]
  BY <1>2 DEF AtState
<1>4. [st |-> s, joined |-> w.link[x].joined] \in LinkRecords
  BY <1>1 DEF LinkRecords
<1>5. f \in [Links -> LinkRecords]
  BY <1>1, <1>4
<1>6. f[x] = [st |-> s, joined |-> w.link[x].joined] /\ \A y \in Links \ {x} : f[y] = w.link[y]
  BY <1>1
<1> HIDE DEF f, u
<1>7. u \in Bundles
  BY <1>3, <1>5 DEF Bundles, LinkRecords
<1>8. u.link = f /\ SameButLink(u, w)
  BY <1>3 DEF Bundles, SameButLink
<1> QED
  BY <1>6, <1>7, <1>8 DEF u

\* A link that has not joined changes its state: a static one may become idle, and an
\* instance may begin to die, if it will be told.
LEMMA AtStateSound ==
  ASSUME NEW w \in Bundles, NEW c, NEW n, NEW X, Sound(c, w, n, X), NEW x \in Links,
         ~ w.dead => ~ w.link[x].joined, w.link[x].st # "dying",
         NEW s \in LinkStates, s \in {"open", "closing"} \/ (s = "idle" /\ x \in Static) \/ (s = "dying" /\ x \in Instances)
  PROVE  /\ Sound(c, AtState(w, x, s), n, IF s = "dying" THEN X \cup {x} ELSE X \ {x})
         /\ AtState(w, x, s) \in Bundles
         /\ AtState(w, x, s).dead = w.dead /\ AtState(w, x, s).failed = w.failed
<1> DEFINE u == AtState(w, x, s)
           Y == IF s = "dying" THEN X \cup {x} ELSE X \ {x}
<1>1. /\ u \in Bundles /\ SameButLink(u, w)
      /\ u.link[x].st = s /\ u.link[x].joined = w.link[x].joined
      /\ \A y \in Links \ {x} : u.link[y] = w.link[y]
  BY AtStateFields
<1> HIDE DEF u, Y
<1>2. /\ u.links = w.links /\ u.dead = w.dead /\ u.failed = w.failed /\ u.msgs = w.msgs
      /\ u.n_links = w.n_links /\ u.n_up = w.n_up
  BY <1>1 DEF SameButLink
<1>3. MembersOf(u) = MembersOf(w) /\ JoinedOf(u) = JoinedOf(w) /\ \A op, y : Queued(u, op, y) <=> Queued(w, op, y)
  BY <1>1, <1>2 DEF MembersOf, JoinedOf, Member, Queued
<1>4. Dies(w) => Dies(u)
  BY <1>1, <1>3 DEF Dies
<1>5. CASE w.dead
  BY <1>1, <1>2, <1>3, <1>4, <1>5 DEF Sound, Dead, u, Y
<1>6. CASE ~ w.dead
  <2>1. Living(c, w, n, X)
    BY <1>6 DEF Sound
  <2>2. Slotted(u)
    BY <1>1, <1>2, <1>3, <2>1 DEF Living, Slotted, Apart, MembersOf
  <2>3. Placed(c, u)
    <3> SUFFICES ASSUME NEW k \in Slots, u.links[k] \in Static
                 PROVE  u.links[k] = c.linkst[k] \/ u.link[u.links[k]].joined
      BY DEF Placed
    <3>1. w.links[k] \in Links /\ (w.links[k] = c.linkst[k] \/ w.link[w.links[k]].joined)
      BY <1>2, <2>1 DEF Living, Placed, Links
    <3> QED
      BY <1>1, <1>2, <3>1
  <2>4. x \notin JoinedOf(w)
    BY <1>6 DEF JoinedOf
  <2>5. Upward(u)
    BY <1>1, <1>2, <1>3, <2>1, <2>4 DEF Living, Upward, JoinedOf
  <2>6. Counts(u, n) /\ Timed(c, u)
    BY <1>1, <1>2, <1>3, <2>1 DEF Living, Counts, Timed, SameButLink
  <2>7. Leaving(u, Y)
    <3> SUFFICES ASSUME NEW y \in (MembersOf(w) \cap Instances) \ Y
                 PROVE  /\ u.link[y].st = "idle" => Queued(w, "open", y)
                        /\ u.link[y].st = "dying" => Queued(w, "shutdown", y)
      BY <1>3 DEF Leaving
    <3>1. CASE y = x
      BY <1>1, <3>1, BundAssumption DEF Y
    <3>2. CASE y # x
      BY <1>1, <2>1, <3>2 DEF Living, Leaving, MembersOf, Y
    <3> QED
      BY <3>1, <3>2
  <2> QED
    BY <1>1, <1>2, <1>4, <1>6, <2>1, <2>2, <2>3, <2>5, <2>6, <2>7 DEF Living, Sound, u, Y
<1> QED
  BY <1>5, <1>6

\* A link that has not joined opens or begins to close.
LEMMA AtStateLive ==
  ASSUME NEW w \in Bundles, NEW c, NEW n, NEW X, Sound(c, w, n, X), NEW x \in Links,
         ~ w.dead => ~ w.link[x].joined, w.link[x].st # "dying", NEW s \in {"open", "closing"}
  PROVE  /\ Sound(c, AtState(w, x, s), n, X \ {x})
         /\ AtState(w, x, s) \in Bundles
         /\ AtState(w, x, s).dead = w.dead /\ AtState(w, x, s).failed = w.failed
<1>1. s \in LinkStates /\ s # "dying"
  BY DEF LinkStates
<1>2. (IF s = "dying" THEN X \cup {x} ELSE X \ {x}) = X \ {x}
  BY <1>1
<1>3. /\ Sound(c, AtState(w, x, s), n, IF s = "dying" THEN X \cup {x} ELSE X \ {x})
      /\ AtState(w, x, s) \in Bundles
      /\ AtState(w, x, s).dead = w.dead /\ AtState(w, x, s).failed = w.failed
  <2>1. s \in {"open", "closing"} \/ (s = "idle" /\ x \in Static) \/ (s = "dying" /\ x \in Instances)
    OBVIOUS
  <2> QED
    BY <1>1, <2>1, AtStateSound
<1> QED
  BY <1>2, <1>3

\* The links of X are told what they are waiting for.
LEMMA Settled ==
  ASSUME NEW w \in Bundles, NEW u, Sent(u, w), NEW c, NEW n, NEW X, Sound(c, w, n, X),
         \A x \in X : /\ u.link[x].st = "idle" => Queued(u, "open", x)
                      /\ u.link[x].st = "dying" => Queued(u, "shutdown", x)
  PROVE  Sound(c, u, n, {})
<1>1. Sound(c, u, n, X)
  BY SentSound
<1>2. Leaving(u, X) => Leaving(u, {})
  BY DEF Leaving
<1> QED
  BY <1>1, <1>2 DEF Sound, Living

LEMMA JoinedFinite ==
  ASSUME NEW w \in Bundles, Upward(w)
  PROVE  /\ IsFiniteSet(JoinedOf(w)) /\ Cardinality(JoinedOf(w)) \in Nat
         /\ w.n_up = 0 <=> JoinedOf(w) = {}
<1>1. IsFiniteSet(JoinedOf(w))
  <2>1. IsFiniteSet(MembersOf(w)) /\ JoinedOf(w) \subseteq MembersOf(w)
    BY MembersFinite DEF Upward
  <2> QED
    BY <2>1, FS_Subset, Zenon
<1>2. Cardinality(JoinedOf(w)) \in Nat /\ (Cardinality(JoinedOf(w)) = 0 <=> JoinedOf(w) = {})
  BY <1>1, FS_CardinalityType, FS_EmptySet
<1> QED
  BY <1>1, <1>2 DEF Upward

----------------------------------------------------------------------------
(* The bundle is shut down. *)

LEMMA ShutdownDead ==
  ASSUME NEW w \in Bundles, NEW n \in Nat, Counts(w, n), Dies(w), n = 0 => JoinedOf(w) = {}
  PROVE  /\ BundShutdown(w) \in Bundles /\ BundShutdown(w).dead /\ Dead(BundShutdown(w), n)
         /\ BundShutdown(w).failed = w.failed
         /\ \A x \in Links : ~ Member(w, x) => BundShutdown(w).link[x] = w.link[x]
<1> DEFINE gone == {x \in Instances : Member(w, x)}
           p == [k \in Slots |-> None]
           q == [x \in Links |-> IF x \in gone THEN [st |-> "absent", joined |-> FALSE] ELSE w.link[x]]
           i == w.n_links - Cardinality(gone)
           g == Without(w.msgs, gone)
           u == BundShutdown(w)
<1>1. i \in Nat
  <2>1. gone \subseteq MembersOf(w)
    BY DEF MembersOf, Links
  <2>2. IsFiniteSet(MembersOf(w)) /\ Cardinality(MembersOf(w)) \in Nat
    BY MembersFinite
  <2> HIDE DEF gone
  <2>3. IsFiniteSet(gone) /\ Cardinality(gone) <= Cardinality(MembersOf(w))
    BY <2>1, <2>2, FS_Subset, Zenon
  <2>4. Cardinality(gone) \in Nat
    BY <2>3, FS_CardinalityType
  <2>5. w.n_links = Cardinality(MembersOf(w)) + n
    BY DEF Counts
  <2> QED
    BY <2>2, <2>3, <2>4, <2>5
<1>2. w.msgs \in Seq(Messages) /\ w.link \in [Links -> LinkRecords]
  BY DEF Bundles, LinkRecords
<1>3. g \in Seq(Messages) /\ ToSet(g) = {m \in ToSet(w.msgs) : m.to \notin gone}
  BY <1>2, WithoutFields
<1>4. p \in [Slots -> Links \cup {None}] /\ q \in [Links -> LinkRecords]
  BY <1>2 DEF LinkRecords, LinkStates
<1>5. u = [w EXCEPT !.dead = TRUE, !.msgs = g, !.links = p, !.n_links = i, !.link = q]
  BY DEF BundShutdown
<1> HIDE DEF p, q, i, g, u
<1>6. u \in Bundles
  BY <1>1, <1>3, <1>4, <1>5 DEF Bundles, LinkRecords
<1>7. u.dead /\ u.links = p /\ u.link = q /\ u.msgs = g /\ u.failed = w.failed
  BY <1>5 DEF Bundles
<1>8. \A x \in Links : IF x \in gone THEN u.link[x].st = "absent" /\ ~ u.link[x].joined
                       ELSE u.link[x] = w.link[x]
  BY <1>7 DEF q
<1> HIDE DEF gone
<1>9. JoinedOf(u) \subseteq JoinedOf(w)
  BY <1>8 DEF JoinedOf
<1>10. Dies(u)
  <2> SUFFICES ASSUME NEW x \in Links, Queued(u, "shutdown", x)
               PROVE  x \in Instances /\ u.link[x].st = "dying"
    BY DEF Dies
  <2>1. x \notin gone /\ Queued(w, "shutdown", x)
    BY <1>3, <1>7 DEF Queued
  <2> QED
    BY <1>8, <2>1 DEF Dies
<1>11. \A k \in Slots : u.links[k] = None
  BY <1>7 DEF p
<1>12. Dead(u, n)
  BY <1>9, <1>10, <1>11 DEF Dead
<1>13. \A x \in Links : ~ Member(w, x) => u.link[x] = w.link[x]
  BY <1>8 DEF gone
<1> QED
  BY <1>6, <1>7, <1>12, <1>13 DEF u

----------------------------------------------------------------------------
(* The links stay as they are. *)

SameTable(u, w) ==
  /\ u.links = w.links /\ u.link = w.link /\ u.n_links = w.n_links /\ u.n_up = w.n_up
  /\ u.msgs = w.msgs /\ u.dead = w.dead

LEMMA TableSound ==
  ASSUME NEW w, NEW u, SameTable(u, w), NEW c, NEW n, NEW X, Sound(c, w, n, X), ~ w.dead => Timed(c, u)
  PROVE  Sound(c, u, n, X)
<1>1. /\ u.links = w.links /\ u.link = w.link /\ u.n_links = w.n_links /\ u.n_up = w.n_up /\ u.dead = w.dead
      /\ MembersOf(u) = MembersOf(w) /\ JoinedOf(u) = JoinedOf(w)
      /\ \A op, x : Queued(u, op, x) <=> Queued(w, op, x)
  BY DEF SameTable, MembersOf, JoinedOf, Member, Queued
<1>2. /\ Slotted(w) => Slotted(u)
      /\ Placed(c, w) => Placed(c, u)
      /\ Upward(w) => Upward(u)
      /\ Counts(w, n) => Counts(u, n)
  BY <1>1 DEF Slotted, Apart, Placed, Upward, Counts
<1>3. /\ Leaving(w, X) => Leaving(u, X)
      /\ Dies(w) => Dies(u)
  BY <1>1 DEF Leaving, Dies
<1> QED
  BY <1>1, <1>2, <1>3 DEF Sound, Living, Dead

LEMMA CloseLinksFields ==
  ASSUME NEW w \in Bundles
  PROVE  LET d == BundCloseLinks(w)
         IN  /\ d \in Bundles /\ d.link = w.link /\ d.links = w.links /\ d.dead = w.dead
             /\ d.failed = w.failed /\ d.n_up = w.n_up /\ d.open = w.open /\ ~ d.reOpenTimer
<1> DEFINE v == [w EXCEPT !.reOpenTimer = FALSE]
           d == BundCloseLinks(w)
<1>1. /\ ~ v.reOpenTimer /\ v.open = w.open /\ v.dead = w.dead /\ v.links = w.links
      /\ v.n_up = w.n_up /\ v.link = w.link /\ v.failed = w.failed
  BY DEF Bundles
<1>2. Sent(d, v)
  BY CloseLinksSound
<1> HIDE DEF v, d
<1>3. /\ d \in Bundles /\ d.link = w.link /\ d.links = w.links /\ d.dead = w.dead
      /\ d.failed = w.failed /\ d.n_up = w.n_up /\ d.open = w.open /\ ~ d.reOpenTimer
  BY <1>1, <1>2 DEF Sent, SameButMsgs
<1> QED
  BY <1>3 DEF d

LEMMA NcpsDownSound ==
  ASSUME NEW w \in Bundles, ~ w.reOpenTimer
  PROVE  LET d == BundNcpsDown(w)
         IN  /\ d \in Bundles /\ d.link = w.link /\ d.links = w.links /\ d.dead = w.dead
             /\ d.failed = w.failed /\ d.n_up = w.n_up /\ ~ d.reOpenTimer
             /\ \A c, n, X : Sound(c, w, n, X) => Sound(c, d, n, X)
<1>1. CASE w.ncpstarted = {}
  BY <1>1 DEF BundNcpsDown
<1>2. CASE w.ncpstarted # {}
  <2> DEFINE v == [w EXCEPT !.ncpstarted = {}]
             d == BundCloseLinks(v)
  <2>1. /\ v \in Bundles /\ SameTable(v, w) /\ v.failed = w.failed /\ v.open = w.open
        /\ v.reOpenTimer = w.reOpenTimer /\ v.bmTimer = w.bmTimer
    BY DEF Bundles, SameTable
  <2>2. BundNcpsDown(w) = d
    BY <1>2 DEF BundNcpsDown
  <2> HIDE DEF v
  <2>3. ASSUME NEW c, NEW n, NEW X, Sound(c, w, n, X) PROVE Sound(c, v, n, X)
    <3>1. Timed(c, w) => Timed(c, v)
      BY <2>1 DEF Timed, SameTable
    <3> QED
      BY <2>1, <2>3, <3>1, TableSound DEF Sound, Living
  <2>4. /\ d \in Bundles /\ d.link = v.link /\ d.links = v.links /\ d.dead = v.dead
        /\ d.failed = v.failed /\ d.n_up = v.n_up /\ ~ d.reOpenTimer
    BY <2>1, CloseLinksFields
  <2>5. \A c, n, X : Sound(c, v, n, X) => Sound(c, d, n, X)
    BY <2>1, CloseLinksSound
  <2> QED
    BY <2>1, <2>2, <2>3, <2>4, <2>5 DEF SameTable
<1> QED
  BY <1>1, <1>2

LEMMA LastLinkLeftSound ==
  ASSUME NEW w \in Bundles, NEW n \in Nat, NEW X, Sound(conf, [w EXCEPT !.bmTimer = FALSE], n, X),
         ~ w.dead, ~ w.reOpenTimer, w.n_up = 0
  PROVE  LET u == LastLinkLeft(w)
         IN  /\ u \in Bundles /\ Sound(conf, u, n, X) /\ u.failed = w.failed
             /\ \A x \in Links : ~ Member(w, x) => u.link[x] = w.link[x]
<1> DEFINE v == [w EXCEPT !.bmTimer = FALSE]
           d == BundNcpsDown(v)
<1>1. /\ v \in Bundles /\ v.link = w.link /\ v.links = w.links /\ v.dead = w.dead
      /\ v.failed = w.failed /\ v.n_up = w.n_up /\ ~ v.reOpenTimer
  BY DEF Bundles
<1> HIDE DEF v
<1>2. /\ d \in Bundles /\ d.link = v.link /\ d.links = v.links /\ d.dead = v.dead
      /\ d.failed = v.failed /\ d.n_up = v.n_up /\ ~ d.reOpenTimer /\ Sound(conf, d, n, X)
  BY <1>1, NcpsDownSound DEF v
<1>3. LastLinkLeft(w) = CASE Reopens(d) -> [d EXCEPT !.reOpenTimer = TRUE]
                          [] ~ Reopens(d) /\ d.stay -> [d EXCEPT !.open = FALSE]
                          [] ~ Reopens(d) /\ ~ d.stay -> BundShutdown([d EXCEPT !.open = FALSE])
  BY DEF LastLinkLeft, v
<1> HIDE DEF d
<1>4. ~ d.dead /\ Living(conf, d, n, X)
  BY <1>1, <1>2 DEF Sound
<1>5. \A x \in Links : Member(d, x) <=> Member(w, x)
  BY <1>1, <1>2 DEF Member
<1>6. CASE Reopens(d)
  <2> DEFINE u == [d EXCEPT !.reOpenTimer = TRUE]
  <2>1. /\ u \in Bundles /\ SameTable(u, d) /\ u.failed = d.failed /\ u.link = d.link
        /\ u.open = d.open /\ u.n_up = d.n_up /\ u.bmTimer = d.bmTimer
    BY <1>2 DEF Bundles, SameTable
  <2> HIDE DEF u
  <2>2. Timed(conf, u)
    BY <1>1, <1>2, <1>4, <1>6, <2>1 DEF Timed, Living, Reopens
  <2>3. Sound(conf, u, n, X)
    BY <1>2, <2>1, <2>2, TableSound
  <2>4. LastLinkLeft(w) = u
    BY <1>3, <1>6 DEF u
  <2> QED
    BY <1>1, <1>2, <2>1, <2>3, <2>4
<1>7. CASE ~ Reopens(d)
  <2> DEFINE u == [d EXCEPT !.open = FALSE]
  <2>1. /\ u \in Bundles /\ SameTable(u, d) /\ u.failed = d.failed /\ u.link = d.link /\ u.links = d.links
        /\ u.reOpenTimer = d.reOpenTimer /\ u.n_up = d.n_up /\ u.bmTimer = d.bmTimer /\ u.stay = d.stay
        /\ u.dead = d.dead
    BY <1>2 DEF Bundles, SameTable
  <2>2. LastLinkLeft(w) = IF d.stay THEN u ELSE BundShutdown(u)
    BY <1>3, <1>7
  <2> HIDE DEF u
  <2>3. Timed(conf, u)
    BY <1>2, <1>4, <2>1 DEF Timed, Living
  <2>4. Sound(conf, u, n, X)
    BY <1>2, <2>1, <2>3, TableSound
  <2>5. CASE d.stay
    BY <1>1, <1>2, <2>1, <2>2, <2>4, <2>5
  <2>6. CASE ~ d.stay
    <3>1. Counts(u, n) /\ Dies(u) /\ Upward(u)
      BY <1>4, <2>1, <2>4 DEF Sound, Living
    <3>2. JoinedOf(u) = {}
      BY <1>1, <1>2, <2>1, <3>1, JoinedFinite
    <3>3. /\ BundShutdown(u) \in Bundles /\ BundShutdown(u).dead /\ Dead(BundShutdown(u), n)
          /\ BundShutdown(u).failed = u.failed
          /\ \A x \in Links : ~ Member(u, x) => BundShutdown(u).link[x] = u.link[x]
      BY <2>1, <3>1, <3>2, ShutdownDead
    <3>4. \A x \in Links : Member(u, x) <=> Member(d, x)
      BY <2>1 DEF Member
    <3> QED
      BY <1>1, <1>2, <1>5, <2>1, <2>2, <2>6, <3>3, <3>4 DEF Sound
  <2> QED
    BY <2>5, <2>6
<1> QED
  BY <1>6, <1>7

----------------------------------------------------------------------------
(* A link leaves. *)

\* A link that has joined is in a slot, and the table can do without it.
LEMMA JoinedCounts ==
  ASSUME NEW w \in Bundles, NEW n \in Nat, Slotted(w), Upward(w), Counts(w, n), NEW x \in Links, w.link[x].joined
  PROVE  /\ Member(w, x) /\ SlotOf(w, x) \in Slots /\ w.links[SlotOf(w, x)] = x
         /\ w.n_up - 1 \in Nat /\ w.n_links - 1 \in Nat /\ w.n_up # 0
<1>1. x \in JoinedOf(w) /\ x \in MembersOf(w)
  BY DEF JoinedOf, Upward
<1>2. Member(w, x) /\ SlotOf(w, x) \in Slots /\ w.links[SlotOf(w, x)] = x
  BY <1>1 DEF MembersOf, Member, SlotOf
<1>3. w.n_up \in Nat /\ w.n_up # 0
  BY <1>1, JoinedFinite DEF Bundles
<1>4. IsFiniteSet(MembersOf(w)) /\ Cardinality(MembersOf(w)) \in Nat
  BY MembersFinite
<1>5. Cardinality(MembersOf(w)) # 0
  BY <1>1, <1>4, FS_EmptySet
<1>6. w.n_links - 1 \in Nat
  BY <1>4, <1>5 DEF Counts
<1> QED
  BY <1>2, <1>3, <1>6

LEMMA LeaveTable ==
  ASSUME NEW w \in Bundles, NEW n \in Nat, NEW X, Living(conf, w, n, X), NEW x \in Links, w.link[x].joined,
         NEW u, u.links = [w.links EXCEPT ![SlotOf(w, x)] = None],
         u.link = [w.link EXCEPT ![x] = [st |-> w.link[x].st, joined |-> FALSE]],
         u.n_up = w.n_up - 1, u.n_links = w.n_links - 1, u.msgs = w.msgs, u.open = w.open,
         u.reOpenTimer = w.reOpenTimer, u.bmTimer <=> conf.bwmanage /\ u.n_up > 0
  PROVE  Living(conf, u, n, X) /\ x \notin MembersOf(u)
<1> DEFINE k == SlotOf(w, x)
<1>1. Slotted(w) /\ Placed(conf, w) /\ Upward(w) /\ Counts(w, n) /\ Timed(conf, w) /\ Leaving(w, X) /\ Dies(w)
  BY DEF Living
<1>2. k \in Slots /\ w.links[k] = x /\ w.n_up # 0 /\ w.n_up - 1 \in Nat
  BY <1>1, JoinedCounts
<1>3. u.links = [w.links EXCEPT ![k] = None]
  OBVIOUS
<1> HIDE DEF k
<1>4. /\ x \in MembersOf(w) /\ MembersOf(u) = MembersOf(w) \ {x}
      /\ Cardinality(MembersOf(u)) = Cardinality(MembersOf(w)) - 1
      /\ Apart(u)
  BY <1>1, <1>2, <1>3, NoneIsNoLink, Vacated, SMTT(30) DEF Slotted
<1>5. /\ u.link[x].st = w.link[x].st /\ ~ u.link[x].joined
      /\ \A y \in Links \ {x} : u.link[y] = w.link[y]
  BY DEF Bundles
<1>6. u.links[k] = None /\ \A j \in Slots \ {k} : u.links[j] = w.links[j] /\ w.links[j] # x
  <2>1. w.links \in [Slots -> Links \cup {None}]
    BY DEF Bundles
  <2>2. \A j \in Slots \ {k} : w.links[j] # x
    BY <1>1, <1>2, NoneIsNoLink DEF Slotted, Apart
  <2> QED
    BY <1>2, <1>3, <2>1, <2>2
<1>7. JoinedOf(u) = JoinedOf(w) \ {x} /\ x \in JoinedOf(w)
  BY <1>5 DEF JoinedOf
<1>8. Slotted(u)
  BY <1>1, <1>4, <1>5 DEF Slotted, MembersOf
<1>9. Placed(conf, u)
  <2> SUFFICES ASSUME NEW j \in Slots, u.links[j] \in Static
               PROVE  u.links[j] = conf.linkst[j] \/ u.link[u.links[j]].joined
    BY DEF Placed
  <2>1. j # k /\ u.links[j] = w.links[j] /\ w.links[j] \in Links \ {x}
    BY <1>2, <1>6, BundAssumption DEF Links
  <2> QED
    BY <1>1, <1>5, <2>1 DEF Placed
<1>10. Upward(u)
  <2>1. IsFiniteSet(JoinedOf(w)) /\ Cardinality(JoinedOf(w)) \in Nat
    BY <1>1, JoinedFinite
  <2>2. Cardinality(JoinedOf(w) \ {x}) = Cardinality(JoinedOf(w)) - 1
    BY <1>7, <2>1, FS_RemoveElement, Zenon
  <2>3. u.n_up = Cardinality(JoinedOf(u))
    BY <1>1, <1>7, <2>2 DEF Upward
  <2>4. JoinedOf(u) \subseteq MembersOf(u)
    BY <1>1, <1>4, <1>7 DEF Upward
  <2>5. \A y \in JoinedOf(u) : u.link[y].st = "open"
    BY <1>1, <1>5, <1>7 DEF Upward, JoinedOf
  <2> QED
    BY <2>3, <2>4, <2>5 DEF Upward
<1>11. Counts(u, n)
  <2>1. Cardinality(MembersOf(w)) \in Nat
    BY MembersFinite
  <2> QED
    BY <1>1, <1>4, <2>1 DEF Counts
<1>12. Timed(conf, u)
  BY <1>1, <1>2 DEF Timed
<1>13. Leaving(u, X) /\ Dies(u)
  <2>1. \A op, y : Queued(u, op, y) <=> Queued(w, op, y)
    BY DEF Queued
  <2>2. Leaving(u, X)
    BY <1>1, <1>4, <1>5, <2>1 DEF Leaving, MembersOf
  <2>3. Dies(u)
    BY <1>1, <1>5, <2>1 DEF Dies
  <2> QED
    BY <2>2, <2>3
<1> QED
  BY <1>4, <1>8, <1>9, <1>10, <1>11, <1>12, <1>13 DEF Living

LEMMA LeaveSound ==
  ASSUME NEW w \in Bundles, NEW n \in Nat, NEW X, Living(conf, w, n, X), ~ w.dead, NEW x \in Links, w.link[x].joined
  PROVE  LET u == BundLeave(w, x)
         IN  /\ u \in Bundles /\ Sound(conf, u, n, X) /\ u.failed = w.failed
             /\ ~ u.link[x].joined /\ u.link[x].st = "open"
<1> DEFINE p == [w.links EXCEPT ![SlotOf(w, x)] = None]
           q == [w.link EXCEPT ![x] = [st |-> w.link[x].st, joined |-> FALSE]]
           i == w.n_up - 1
           j == w.n_links - 1
           d == [w EXCEPT !.link[x].joined = FALSE, !.n_up = @ - 1, !.n_links = @ - 1,
                          !.links[SlotOf(w, x)] = None]
<1>1. Slotted(w) /\ Upward(w) /\ Counts(w, n) /\ Timed(conf, w)
  BY DEF Living
<1>2. Member(w, x) /\ SlotOf(w, x) \in Slots /\ w.links[SlotOf(w, x)] = x /\ w.n_up # 0 /\ i \in Nat /\ j \in Nat
  BY <1>1, JoinedCounts
<1>3. BundLeave(w, x) = IF d.n_up = 0 THEN LastLinkLeft(d) ELSE d
  BY <1>2 DEF BundLeave
<1>4. w.links \in [Slots -> Links \cup {None}] /\ w.link \in [Links -> LinkRecords]
  BY DEF Bundles, LinkRecords
<1>5. p \in [Slots -> Links \cup {None}] /\ q \in [Links -> LinkRecords]
  <2>1. [st |-> w.link[x].st, joined |-> FALSE] \in LinkRecords
    BY <1>4 DEF LinkRecords
  <2> QED
    BY <1>4, <2>1
<1>6. d = [w EXCEPT !.link = q, !.n_up = i, !.n_links = j, !.links = p]
  <2>1. w.link[x] \in LinkRecords
    BY <1>4
  <2>2. [w.link[x] EXCEPT !.joined = FALSE] = [st |-> w.link[x].st, joined |-> FALSE]
    BY <2>1, LinkJoined
  <2> QED
    BY <2>2
<1>7. q[x].st = "open" /\ ~ q[x].joined
  BY <1>1, <1>4 DEF Upward, JoinedOf
<1>8. ~ w.reOpenTimer
  BY <1>1, <1>2 DEF Timed
<1> HIDE DEF p, q, i, j, d
<1>9. d \in Bundles
  BY <1>2, <1>5, <1>6 DEF Bundles, LinkRecords
<1>10. /\ d.links = p /\ d.link = q /\ d.n_up = i /\ d.n_links = j /\ d.msgs = w.msgs /\ d.open = w.open
       /\ d.reOpenTimer = w.reOpenTimer /\ d.bmTimer = w.bmTimer /\ d.dead = w.dead /\ d.failed = w.failed
  BY <1>6 DEF Bundles
<1>11. CASE d.n_up = 0
  <2> DEFINE e == [d EXCEPT !.bmTimer = FALSE]
  <2>1. /\ e.links = p /\ e.link = q /\ e.n_up = i /\ e.n_links = j /\ e.msgs = w.msgs /\ e.open = w.open
        /\ e.reOpenTimer = w.reOpenTimer /\ ~ e.bmTimer /\ e.dead = w.dead
    BY <1>9, <1>10 DEF Bundles
  <2> HIDE DEF e
  <2>2. e.bmTimer <=> conf.bwmanage /\ e.n_up > 0
    <3>1. ~ e.bmTimer
      BY <2>1
    <3>2. e.n_up = 0
      BY <1>10, <1>11, <2>1, Zenon
    <3>3. ~ (e.n_up > 0)
      BY <3>2
    <3> QED
      BY <3>1, <3>3
  <2>3. Living(conf, e, n, X) /\ x \notin MembersOf(e)
    BY <2>1, <2>2, LeaveTable DEF p, q, i, j
  <2>4. ~ Member(d, x)
    BY <1>10, <2>1, <2>3 DEF MembersOf, Member
  <2>5. Sound(conf, e, n, X)
    BY <2>1, <2>3 DEF Sound
  <2>6. LET u == LastLinkLeft(d)
        IN  /\ u \in Bundles /\ Sound(conf, u, n, X) /\ u.failed = d.failed
            /\ \A y \in Links : ~ Member(d, y) => u.link[y] = d.link[y]
    BY <1>8, <1>9, <1>10, <1>11, <2>5, LastLinkLeftSound DEF e
  <2> QED
    BY <1>3, <1>7, <1>10, <1>11, <2>4, <2>6
<1>12. CASE d.n_up # 0
  <2>1. d.bmTimer <=> conf.bwmanage /\ d.n_up > 0
    <3>1. w.n_up \in Nat /\ d.n_up \in Nat
      BY <1>9 DEF Bundles
    <3>2. w.n_up > 0 /\ d.n_up > 0
      BY <1>2, <1>12, <3>1
    <3>3. d.bmTimer = w.bmTimer /\ (w.bmTimer <=> conf.bwmanage /\ w.n_up > 0)
      BY <1>1, <1>10 DEF Timed
    <3> QED
      BY <3>2, <3>3
  <2>2. Living(conf, d, n, X)
    BY <1>10, <2>1, LeaveTable DEF p, q, i, j
  <2> QED
    BY <1>3, <1>7, <1>9, <1>10, <1>12, <2>2 DEF Sound
<1> QED
  BY <1>11, <1>12

----------------------------------------------------------------------------
(* A link joins. *)

\* With x in a slot, where it is not yet at home.
PlacedBut(c, w, x) ==
  \A k \in Slots : w.links[k] \in Static \ {x} => w.links[k] = c.linkst[k] \/ w.link[w.links[k]].joined

LEMMA TakeSlotSound ==
  ASSUME NEW w \in Bundles, NEW n \in Nat, NEW X, Living(conf, w, n, X), NEW x \in Links,
         w.link[x].st = "open", Member(w, x) \/ \E k \in Slots : w.links[k] = None
  PROVE  LET t == TakeSlot(w, x)
         IN  /\ t \in Bundles /\ t.link = w.link /\ t.n_up = w.n_up /\ t.msgs = w.msgs /\ t.stay = w.stay
             /\ t.reOpenTimer = w.reOpenTimer /\ t.bmTimer = w.bmTimer /\ t.open = w.open
             /\ t.dead = w.dead /\ t.failed = w.failed /\ t.ncpstarted = w.ncpstarted
             /\ MembersOf(t) = MembersOf(w) \cup {x}
             /\ Slotted(t) /\ Counts(t, n) /\ Leaving(t, X) /\ Dies(t) /\ Upward(t) /\ PlacedBut(conf, t, x)
<1>1. Slotted(w) /\ Placed(conf, w) /\ Upward(w) /\ Counts(w, n) /\ Timed(conf, w) /\ Leaving(w, X) /\ Dies(w)
  BY DEF Living
<1>2. CASE Member(w, x)
  <2>1. MembersOf(w) = MembersOf(w) \cup {x}
    BY <1>2 DEF MembersOf
  <2> QED
    BY <1>1, <1>2, <2>1 DEF TakeSlot, Placed, PlacedBut
<1>3. CASE ~ Member(w, x)
  <2> DEFINE k == Least({j \in Slots : w.links[j] = None})
             p == [w.links EXCEPT ![k] = x]
             i == w.n_links + 1
             t == [w EXCEPT !.links[k] = x, !.n_links = @ + 1]
  <2>1. k \in Slots /\ w.links[k] = None
    <3> DEFINE Free == {j \in Slots : w.links[j] = None}
    <3>1. Free # {} /\ Free \subseteq Slots
      BY <1>3
    <3> HIDE DEF Free
    <3>2. Least(Free) \in Free
      BY <3>1, SlotExtremes
    <3> QED
      BY <3>2 DEF Free
  <2>2. TakeSlot(w, x) = t
    BY <1>3 DEF TakeSlot
  <2> HIDE DEF k
  <2>3. w.links \in [Slots -> Links \cup {None}] /\ i \in Nat
    BY DEF Bundles
  <2>4. p \in [Slots -> Links \cup {None}]
    BY <2>1, <2>3
  <2>5. t = [w EXCEPT !.links = p, !.n_links = i]
    OBVIOUS
  <2>6. p = [w.links EXCEPT ![k] = x] /\ i = w.n_links + 1
    OBVIOUS
  <2> HIDE DEF p, i, t
  <2>7. t \in Bundles
    BY <2>3, <2>4, <2>5 DEF Bundles
  <2>8. /\ t.link = w.link /\ t.n_up = w.n_up /\ t.msgs = w.msgs /\ t.stay = w.stay
        /\ t.reOpenTimer = w.reOpenTimer /\ t.bmTimer = w.bmTimer /\ t.open = w.open
        /\ t.dead = w.dead /\ t.failed = w.failed /\ t.links = p /\ t.n_links = i /\ t.ncpstarted = w.ncpstarted
    BY <2>5 DEF Bundles
  <2>9. x # None /\ x \notin MembersOf(w)
    BY <1>3, NoneIsNoLink DEF MembersOf
  <2>10. t.links = [w.links EXCEPT ![k] = x]
    BY <2>6, <2>8
  <2>11. /\ MembersOf(t) = MembersOf(w) \cup {x}
         /\ Cardinality(MembersOf(t)) = Cardinality(MembersOf(w)) + 1
         /\ Apart(w) => Apart(t)
    BY <2>1, <2>9, <2>10, Seated
  <2>12. JoinedOf(t) = JoinedOf(w) /\ \A op, y : Queued(t, op, y) <=> Queued(w, op, y)
    BY <2>8 DEF JoinedOf, Queued
  <2>13. Slotted(t) /\ Dies(t) /\ Leaving(t, X)
    BY <1>1, <2>8, <2>11, <2>12 DEF Slotted, Dies, Leaving
  <2>14. Upward(t)
    BY <1>1, <2>8, <2>11, <2>12 DEF Upward
  <2>15. Counts(t, n)
    <3>1. Cardinality(MembersOf(w)) \in Nat
      BY MembersFinite
    <3> QED
      BY <1>1, <2>6, <2>8, <2>11, <3>1 DEF Counts
  <2>16. PlacedBut(conf, t, x)
    <3> SUFFICES ASSUME NEW j \in Slots, t.links[j] \in Static \ {x}
                 PROVE  t.links[j] = conf.linkst[j] \/ t.link[t.links[j]].joined
      BY DEF PlacedBut
    <3>1. t.links[j] = w.links[j]
      BY <2>3, <2>10
    <3> QED
      BY <1>1, <2>8, <3>1 DEF Placed
  <2> QED
    BY <2>2, <2>7, <2>8, <2>11, <2>13, <2>14, <2>15, <2>16
<1> QED
  BY <1>2, <1>3

LEMMA JoinTable ==
  ASSUME NEW t \in Bundles, NEW n \in Nat, NEW X, NEW x \in Links, t.link[x].st = "open", ~ t.link[x].joined,
         x \in MembersOf(t), Slotted(t), Counts(t, n), Leaving(t, X), Dies(t), Upward(t), PlacedBut(conf, t, x),
         NEW u, u.links = t.links, u.n_links = t.n_links, u.msgs = t.msgs,
         u.link = [t.link EXCEPT ![x] = [st |-> "open", joined |-> TRUE]], u.n_up = t.n_up + 1,
         Timed(conf, u)
  PROVE  Living(conf, u, n, X)
<1>1. u.link[x].st = "open" /\ u.link[x].joined /\ \A y \in Links \ {x} : u.link[y] = t.link[y]
  BY DEF Bundles
<1>2. /\ MembersOf(u) = MembersOf(t) /\ \A op, y : Queued(u, op, y) <=> Queued(t, op, y)
      /\ JoinedOf(u) = JoinedOf(t) \cup {x} /\ x \notin JoinedOf(t)
  BY <1>1 DEF MembersOf, Member, Queued, JoinedOf
<1>3. Slotted(u)
  BY <1>1, <1>2 DEF Slotted, Apart, MembersOf
<1>4. Placed(conf, u)
  <2> SUFFICES ASSUME NEW k \in Slots, u.links[k] \in Static
               PROVE  u.links[k] = conf.linkst[k] \/ u.link[u.links[k]].joined
    BY DEF Placed
  <2>1. CASE u.links[k] = x
    BY <1>1, <2>1
  <2>2. CASE u.links[k] # x
    BY <1>1, <2>2 DEF PlacedBut, Links
  <2> QED
    BY <2>1, <2>2
<1>5. Upward(u)
  <2>1. IsFiniteSet(JoinedOf(t)) /\ Cardinality(JoinedOf(t)) \in Nat
    BY JoinedFinite
  <2>2. Cardinality(JoinedOf(t) \cup {x}) = Cardinality(JoinedOf(t)) + 1
    BY <1>2, <2>1, FS_AddElement, Zenon
  <2>3. u.n_up = Cardinality(JoinedOf(u))
    BY <1>2, <2>2 DEF Upward
  <2>4. JoinedOf(u) \subseteq MembersOf(u)
    BY <1>2 DEF Upward
  <2>5. \A y \in JoinedOf(u) : u.link[y].st = "open"
    BY <1>1, <1>2 DEF Upward, JoinedOf
  <2> QED
    BY <2>3, <2>4, <2>5 DEF Upward
<1>6. Counts(u, n)
  BY <1>2 DEF Counts
<1>7. Leaving(u, X)
  BY <1>1, <1>2 DEF Leaving, MembersOf
<1>8. Dies(u)
  BY <1>1, <1>2 DEF Dies
<1> QED
  BY <1>3, <1>4, <1>5, <1>6, <1>7, <1>8 DEF Living

LEMMA JoinsSound ==
  ASSUME NEW w \in Bundles, conf \in Confs, NEW n \in Nat, Living(conf, w, n, {}), ~ w.dead, NEW x \in Links,
         w.link[x].st = "open", ~ w.link[x].joined, Member(w, x) \/ \E k \in Slots : w.links[k] = None
  PROVE  LET u == Joins(w, x)
         IN  u \in Bundles /\ Living(conf, u, n, {}) /\ ~ u.dead /\ u.failed = w.failed
<1> DEFINE t == TakeSlot(w, x)
           q == [t.link EXCEPT ![x] = [st |-> "open", joined |-> TRUE]]
           i == t.n_up + 1
           d == [t EXCEPT !.open = TRUE, !.link[x].joined = TRUE, !.n_up = @ + 1]
           e == [d EXCEPT !.reOpenTimer = FALSE, !.bmTimer = conf.bwmanage, !.ncpstarted = Ncps]
<1>1. /\ t \in Bundles /\ t.link = w.link /\ t.n_up = w.n_up /\ t.msgs = w.msgs
      /\ t.reOpenTimer = w.reOpenTimer /\ t.bmTimer = w.bmTimer
      /\ t.dead = w.dead /\ t.failed = w.failed /\ MembersOf(t) = MembersOf(w) \cup {x}
      /\ Slotted(t) /\ Counts(t, n) /\ Leaving(t, {}) /\ Dies(t) /\ Upward(t) /\ PlacedBut(conf, t, x)
  BY TakeSlotSound
<1>2. Timed(conf, w)
  BY DEF Living
<1>3. Joins(w, x) = IF d.n_up > 1 THEN d ELSE e
  BY DEF Joins
<1> HIDE DEF t
<1>4. t.link \in [Links -> LinkRecords] /\ t.link[x] \in LinkRecords /\ t.link[x].st = "open" /\ t.n_up \in Nat /\ i \in Nat
  BY <1>1 DEF Bundles, LinkRecords
<1>5. q \in [Links -> LinkRecords]
  <2>1. [st |-> "open", joined |-> TRUE] \in LinkRecords
    BY DEF LinkRecords, LinkStates
  <2> QED
    BY <1>4, <2>1
<1>6. d = [t EXCEPT !.open = TRUE, !.link = q, !.n_up = i]
  <2>1. [t.link[x] EXCEPT !.joined = TRUE] = [st |-> t.link[x].st, joined |-> TRUE]
    BY <1>4, LinkJoined
  <2>2. [t.link[x] EXCEPT !.joined = TRUE] = [st |-> "open", joined |-> TRUE]
    BY <1>4, <2>1
  <2> QED
    BY <2>2
<1> HIDE DEF q, i, d
<1>7. d \in Bundles
  BY <1>1, <1>4, <1>5, <1>6 DEF Bundles, LinkRecords
<1>8. /\ d.links = t.links /\ d.n_links = t.n_links /\ d.msgs = t.msgs /\ d.link = q /\ d.n_up = i
      /\ d.open /\ d.reOpenTimer = t.reOpenTimer /\ d.bmTimer = t.bmTimer /\ d.dead = t.dead /\ d.failed = t.failed
  BY <1>1, <1>6 DEF Bundles
<1>9. CASE d.n_up > 1
  <2>1. w.n_up > 0 /\ w.n_up # 0 /\ d.n_up > 0
    BY <1>1, <1>4, <1>8, <1>9 DEF i
  <2>2. Timed(conf, d)
    BY <1>1, <1>2, <1>8, <2>1 DEF Timed
  <2>3. Living(conf, d, n, {})
    BY <1>1, <1>4, <1>8, <2>2, JoinTable DEF q, i
  <2> QED
    BY <1>1, <1>3, <1>7, <1>8, <1>9, <2>3
<1>10. CASE ~ (d.n_up > 1)
  <2>1. conf.bwmanage \in BOOLEAN
    BY DEF Confs
  <2>2. e \in Bundles
    BY <1>7, <2>1 DEF Bundles
  <2>3. /\ e.links = d.links /\ e.n_links = d.n_links /\ e.msgs = d.msgs /\ e.link = d.link /\ e.n_up = d.n_up
        /\ ~ e.reOpenTimer /\ e.dead = d.dead /\ e.failed = d.failed
    BY <1>7 DEF Bundles
  <2>4. e.bmTimer = conf.bwmanage
    BY <1>7 DEF Bundles
  <2> HIDE DEF e
  <2>5. e.n_up > 0
    BY <1>4, <1>8, <2>3 DEF i
  <2>6. Timed(conf, e)
    BY <2>3, <2>4, <2>5 DEF Timed
  <2>7. Living(conf, e, n, {})
    BY <1>1, <1>4, <1>8, <2>3, <2>6, JoinTable DEF q, i
  <2> QED
    BY <1>1, <1>3, <1>8, <1>10, <2>2, <2>3, <2>7
<1> QED
  BY <1>9, <1>10

LEMMA JoinFailsSound ==
  ASSUME NEW w \in Bundles, NEW n \in Nat, Living(conf, w, n, {}), ~ w.dead, NEW x \in Links,
         w.link[x].st = "open", ~ w.link[x].joined, Member(w, x) \/ \E k \in Slots : w.links[k] = None
  PROVE  LET u == JoinFails(w, x)
         IN  u \in Bundles /\ Sound(conf, u, n + 1, {}) /\ u.failed = w.failed
<1> DEFINE r == TakeSlot(w, x)
           t == [r EXCEPT !.open = TRUE]
           k == SlotOf(t, x)
           p == [t.links EXCEPT ![k] = None]
           d == [t EXCEPT !.links[k] = None]
<1>1. /\ r \in Bundles /\ r.link = w.link /\ r.n_up = w.n_up /\ r.msgs = w.msgs
      /\ r.reOpenTimer = w.reOpenTimer /\ r.bmTimer = w.bmTimer
      /\ r.dead = w.dead /\ r.failed = w.failed /\ MembersOf(r) = MembersOf(w) \cup {x}
      /\ Slotted(r) /\ Counts(r, n) /\ Leaving(r, {}) /\ Dies(r) /\ Upward(r) /\ PlacedBut(conf, r, x)
  BY TakeSlotSound
<1>2. Timed(conf, w) /\ Upward(w)
  BY DEF Living
<1>3. JoinFails(w, x) = IF d.stay THEN d ELSE BundShutdown(d)
  BY DEF JoinFails
<1> HIDE DEF r
<1>4. /\ t \in Bundles /\ t.open /\ t.links = r.links /\ t.n_links = r.n_links /\ t.link = r.link /\ t.n_up = r.n_up
      /\ t.msgs = r.msgs /\ t.reOpenTimer = r.reOpenTimer /\ t.bmTimer = r.bmTimer /\ t.dead = r.dead
      /\ t.failed = r.failed
  BY <1>1 DEF Bundles
<1> HIDE DEF t
<1>5. x \in MembersOf(t) /\ MembersOf(t) = MembersOf(r)
  BY <1>1, <1>4 DEF MembersOf, Member
<1>6. k \in Slots /\ t.links[k] = x
  BY <1>5 DEF MembersOf, Member, SlotOf
<1> HIDE DEF k
<1>7. t.links \in [Slots -> Links \cup {None}]
  BY <1>4 DEF Bundles
<1>8. p \in [Slots -> Links \cup {None}]
  BY <1>7
<1>9. d = [t EXCEPT !.links = p] /\ p = [t.links EXCEPT ![k] = None]
  OBVIOUS
<1> HIDE DEF p, d
<1>10. d \in Bundles
  BY <1>4, <1>8, <1>9 DEF Bundles
<1>11. /\ d.links = p /\ d.n_links = t.n_links /\ d.msgs = t.msgs /\ d.link = t.link /\ d.n_up = t.n_up
       /\ d.open = t.open /\ d.reOpenTimer = t.reOpenTimer /\ d.bmTimer = t.bmTimer /\ d.dead = t.dead
       /\ d.failed = t.failed
  BY <1>4, <1>9 DEF Bundles
<1>12. Apart(t)
  BY <1>1, <1>4 DEF Slotted, Apart
<1>13. d.links = [t.links EXCEPT ![k] = None]
  BY <1>9, <1>11
<1>14. /\ MembersOf(d) = MembersOf(t) \ {x} /\ Cardinality(MembersOf(d)) = Cardinality(MembersOf(t)) - 1
       /\ Apart(d)
  BY <1>4, <1>6, <1>12, <1>13, NoneIsNoLink, Vacated
<1>15. d.link = w.link /\ d.n_up = w.n_up /\ \A op, y : Queued(d, op, y) <=> Queued(r, op, y)
  BY <1>1, <1>4, <1>11 DEF Queued
<1>16. JoinedOf(d) = JoinedOf(w) /\ x \notin JoinedOf(w) /\ JoinedOf(r) = JoinedOf(w)
  BY <1>1, <1>15 DEF JoinedOf
<1>17. Slotted(d)
  BY <1>1, <1>5, <1>14, <1>15 DEF Slotted
<1>18. Placed(conf, d)
  <2> SUFFICES ASSUME NEW j \in Slots, d.links[j] \in Static
               PROVE  d.links[j] = conf.linkst[j] \/ d.link[d.links[j]].joined
    BY DEF Placed
  <2>1. j # k /\ d.links[j] = t.links[j]
    BY <1>6, <1>7, <1>13, BundAssumption
  <2>2. d.links[j] # x
    BY <1>6, <1>12, <2>1, NoneIsNoLink DEF Apart
  <2>3. d.links[j] = r.links[j] /\ d.link = r.link
    BY <1>4, <1>11, <2>1
  <2> QED
    BY <1>1, <2>2, <2>3 DEF PlacedBut
<1>19. Upward(d)
  BY <1>1, <1>2, <1>5, <1>14, <1>15, <1>16 DEF Upward
<1>20. Counts(d, n + 1)
  <2>1. Cardinality(MembersOf(t)) \in Nat
    BY <1>4, MembersFinite
  <2>2. r.n_links = Cardinality(MembersOf(t)) + n /\ d.n_links = r.n_links
    BY <1>1, <1>4, <1>5, <1>11 DEF Counts
  <2> QED
    BY <1>14, <2>1, <2>2 DEF Counts
<1>21. Timed(conf, d)
  BY <1>1, <1>2, <1>4, <1>11 DEF Timed
<1>22. Leaving(d, {}) /\ Dies(d)
  BY <1>1, <1>5, <1>14, <1>15 DEF Leaving, Dies
<1>23. Living(conf, d, n + 1, {})
  BY <1>17, <1>18, <1>19, <1>20, <1>21, <1>22 DEF Living
<1>24. CASE d.stay
  BY <1>1, <1>3, <1>4, <1>10, <1>11, <1>23, <1>24 DEF Sound
<1>25. CASE ~ d.stay
  <2>1. n + 1 \in Nat /\ n + 1 # 0
    OBVIOUS
  <2>2. /\ BundShutdown(d) \in Bundles /\ BundShutdown(d).dead /\ Dead(BundShutdown(d), n + 1)
        /\ BundShutdown(d).failed = d.failed
    BY <1>10, <1>20, <1>22, <2>1, ShutdownDead
  <2> QED
    BY <1>1, <1>3, <1>4, <1>11, <1>25, <2>2 DEF Sound
<1> QED
  BY <1>24, <1>25

----------------------------------------------------------------------------
(* An instance is shut down. *)

LEMMA LinkShutdownSound ==
  ASSUME NEW w \in Bundles, NEW n \in Nat, NEW x \in Instances, Sound(conf, w, n, {x}), w.link[x].st = "dying"
  PROVE  LET u == LinkShutdown(w, x)
         IN  u \in Bundles /\ Sound(conf, u, n, {}) /\ u.dead = w.dead /\ u.failed = w.failed
<1> DEFINE p == [k \in Slots |-> IF w.links[k] = x THEN None ELSE w.links[k]]
           q == [w.link EXCEPT ![x] = [st |-> "absent", joined |-> FALSE]]
           g == Without(w.msgs, {x})
           i == IF Member(w, x) THEN w.n_links - 1 ELSE w.n_links
           u == LinkShutdown(w, x)
<1>1. x \in Links /\ x # None /\ x \notin Static
  BY BundAssumption DEF Links
<1>2. w.links \in [Slots -> Links \cup {None}] /\ w.link \in [Links -> LinkRecords] /\ w.n_links \in Nat
      /\ w.msgs \in Seq(Messages)
  BY DEF Bundles, LinkRecords
<1>3. p \in [Slots -> Links \cup {None}]
  BY <1>2
<1>4. q \in [Links -> LinkRecords]
  <2>1. [st |-> "absent", joined |-> FALSE] \in LinkRecords
    BY DEF LinkRecords, LinkStates
  <2> QED
    BY <1>2, <2>1
<1>5. g \in Seq(Messages) /\ ToSet(g) = {m \in ToSet(w.msgs) : m.to \notin {x}}
  BY <1>2, WithoutFields
<1>6. IsFiniteSet(MembersOf(w)) /\ Cardinality(MembersOf(w)) \in Nat
  BY MembersFinite
<1>7. Member(w, x) => Cardinality(MembersOf(w)) # 0
  <2> SUFFICES ASSUME Member(w, x) PROVE Cardinality(MembersOf(w)) # 0
    OBVIOUS
  <2>1. x \in MembersOf(w)
    BY <1>1 DEF MembersOf
  <2> QED
    BY <1>6, <2>1, FS_EmptySet
<1>8. u = [w EXCEPT !.link = q, !.msgs = g, !.links = p, !.n_links = i]
  BY DEF LinkShutdown
<1>9. q[x].st = "absent" /\ ~ q[x].joined /\ \A y \in Links \ {x} : q[y] = w.link[y]
  BY <1>1, <1>2
<1>10. \A k \in Slots : p[k] = IF w.links[k] = x THEN None ELSE w.links[k]
  OBVIOUS
<1> HIDE DEF p, q, g, u
<1>11. ASSUME i \in Nat PROVE u \in Bundles
  <2> HIDE DEF i
  <2> QED
    BY <1>3, <1>4, <1>5, <1>8, <1>11 DEF Bundles, LinkRecords
<1>12. /\ u.links = p /\ u.link = q /\ u.msgs = g /\ u.n_links = i /\ u.n_up = w.n_up /\ u.open = w.open
       /\ u.reOpenTimer = w.reOpenTimer /\ u.bmTimer = w.bmTimer /\ u.dead = w.dead /\ u.failed = w.failed
  <2> HIDE DEF i
  <2> QED
    BY <1>8 DEF Bundles
<1>13. MembersOf(u) = MembersOf(w) \ {x}
  BY <1>1, <1>10, <1>12, NoneIsNoLink DEF MembersOf, Member
<1>14. Dies(w)
  BY DEF Sound, Living, Dead
<1>15. Dies(u)
  <2> SUFFICES ASSUME NEW y \in Links, Queued(u, "shutdown", y)
               PROVE  y \in Instances /\ u.link[y].st = "dying"
    BY DEF Dies
  <2>1. y # x /\ Queued(w, "shutdown", y)
    BY <1>5, <1>12 DEF Queued
  <2> QED
    BY <1>9, <1>12, <1>14, <2>1 DEF Dies
<1>16. CASE w.dead
  <2>1. Dead(w, n)
    BY <1>16 DEF Sound
  <2>2. ~ Member(w, x)
    BY <1>1, <2>1 DEF Dead, Member
  <2>3. JoinedOf(u) \subseteq JoinedOf(w)
    BY <1>9, <1>12 DEF JoinedOf
  <2>4. \A k \in Slots : u.links[k] = None
    BY <1>10, <1>12, <2>1 DEF Dead
  <2>5. Dead(u, n)
    BY <1>15, <2>1, <2>3, <2>4 DEF Dead
  <2> QED
    BY <1>2, <1>11, <1>12, <1>16, <2>2, <2>5 DEF Sound, u
<1>17. CASE ~ w.dead
  <2>1. Living(conf, w, n, {x})
    BY <1>17 DEF Sound
  <2>2. i \in Nat /\ Counts(u, n)
    <3>1. w.n_links = Cardinality(MembersOf(w)) + n
      BY <2>1 DEF Living, Counts
    <3>2. CASE Member(w, x)
      <4>1. x \in MembersOf(w)
        BY <1>1, <3>2 DEF MembersOf
      <4>2. Cardinality(MembersOf(w) \ {x}) = Cardinality(MembersOf(w)) - 1
        BY <1>6, <4>1, FS_RemoveElement, Zenon
      <4>3. u.n_links = w.n_links - 1 /\ i = w.n_links - 1
        BY <1>12, <3>2
      <4> QED
        BY <1>6, <1>7, <1>13, <3>1, <3>2, <4>2, <4>3 DEF Counts
    <3>3. CASE ~ Member(w, x)
      <4>1. MembersOf(u) = MembersOf(w)
        BY <1>13, <3>3 DEF MembersOf
      <4> QED
        BY <1>2, <1>12, <3>1, <3>3, <4>1 DEF Counts
    <3> QED
      BY <3>2, <3>3
  <2> HIDE DEF i
  <2>3. x \notin JoinedOf(w) /\ JoinedOf(u) = JoinedOf(w)
    <3>1. x \notin JoinedOf(w)
      BY <2>1 DEF Living, Upward
    <3> QED
      BY <1>9, <1>12, <3>1 DEF JoinedOf
  <2>4. Slotted(u)
    <3>1. Apart(u)
      BY <1>1, <1>10, <1>12, <2>1 DEF Living, Slotted, Apart
    <3>2. \A y \in MembersOf(u) : u.link[y].st # "absent"
      BY <1>9, <1>12, <1>13, <2>1 DEF Living, Slotted, MembersOf
    <3> QED
      BY <3>1, <3>2 DEF Slotted
  <2>5. Placed(conf, u)
    <3> SUFFICES ASSUME NEW k \in Slots, u.links[k] \in Static
                 PROVE  u.links[k] = conf.linkst[k] \/ u.link[u.links[k]].joined
      BY DEF Placed
    <3>1. u.links[k] = w.links[k] /\ u.links[k] # x /\ u.links[k] \in Links
      BY <1>1, <1>10, <1>12, BundAssumption DEF Links
    <3> QED
      BY <1>9, <1>12, <2>1, <3>1 DEF Living, Placed
  <2>6. Upward(u)
    <3>1. \A y \in JoinedOf(u) : u.link[y] = w.link[y]
      BY <1>9, <1>12, <2>3 DEF JoinedOf
    <3> QED
      BY <1>12, <1>13, <2>1, <2>3, <3>1 DEF Living, Upward
  <2>7. Timed(conf, u)
    BY <1>12, <2>1 DEF Living, Timed
  <2>8. Leaving(u, {})
    <3> SUFFICES ASSUME NEW y \in MembersOf(u) \cap Instances
                 PROVE  /\ u.link[y].st = "idle" => Queued(u, "open", y)
                        /\ u.link[y].st = "dying" => Queued(u, "shutdown", y)
      BY DEF Leaving
    <3>1. y \in (MembersOf(w) \cap Instances) \ {x} /\ u.link[y] = w.link[y]
      BY <1>9, <1>12, <1>13 DEF MembersOf
    <3>2. \A op : Queued(w, op, y) => Queued(u, op, y)
      BY <1>5, <1>12, <3>1 DEF Queued
    <3> QED
      BY <2>1, <3>1, <3>2 DEF Living, Leaving
  <2> QED
    BY <1>11, <1>12, <1>15, <1>17, <2>2, <2>4, <2>5, <2>6, <2>7, <2>8 DEF Sound, Living, u
<1> QED
  BY <1>16, <1>17

----------------------------------------------------------------------------
(* All the links are opened. *)

LEMMA CreateOpenLinkType ==
  ASSUME NEW w \in Bundles, NEW k \in Slots
  PROVE  LET u == BundCreateOpenLink(w, k)
         IN  u \in Bundles /\ u.dead = w.dead /\ u.failed = w.failed
<1>1. CASE Candidates(w, k) = {}
  BY <1>1 DEF BundCreateOpenLink
<1>2. CASE Candidates(w, k) # {}
  <2> DEFINE x == CHOOSE y \in Candidates(w, k) : TRUE
             p == [w.links EXCEPT ![k] = x]
             q == [w.link EXCEPT ![x] = [st |-> "idle", joined |-> w.link[x].joined]]
             i == w.n_links + 1
             v == [w EXCEPT !.links[k] = x, !.link[x].st = "idle", !.n_links = @ + 1]
             u == MsgSend(v, "open", x)
  <2>1. x \in Candidates(w, k)
    BY <1>2
  <2>2. BundCreateOpenLink(w, k) = BundOpenLink(v, k)
    BY <1>2 DEF BundCreateOpenLink
  <2> HIDE DEF x
  <2>3. x \in Links
    BY <2>1 DEF Candidates, Links
  <2>4. w.links \in [Slots -> Links \cup {None}] /\ i \in Nat /\ w.link \in [Links -> LinkRecords]
        /\ w.link[x] \in LinkRecords
    BY <2>3 DEF Bundles, LinkRecords
  <2>5. p \in [Slots -> Links \cup {None}] /\ q \in [Links -> LinkRecords]
    <3>1. [st |-> "idle", joined |-> w.link[x].joined] \in LinkRecords
      BY <2>4 DEF LinkRecords, LinkStates
    <3> QED
      BY <2>3, <2>4, <3>1
  <2>6. v = [w EXCEPT !.links = p, !.link = q, !.n_links = i]
    <3>1. [w.link[x] EXCEPT !.st = "idle"] = [st |-> "idle", joined |-> w.link[x].joined]
      BY <2>4, LinkSt
    <3> QED
      BY <3>1
  <2>7. p[k] = x
    BY <2>4
  <2> HIDE DEF p, q, i, v
  <2>8. v \in Bundles
    BY <2>4, <2>5, <2>6 DEF Bundles, LinkRecords
  <2>9. v.links = p /\ v.dead = w.dead /\ v.failed = w.failed
    BY <2>6 DEF Bundles
  <2>10. BundCreateOpenLink(w, k) = u
    BY <2>2, <2>7, <2>9 DEF BundOpenLink
  <2>11. [op |-> "open", to |-> x] \in Messages
    BY <2>3 DEF Messages
  <2>12. Sent(u, v)
    BY <2>8, <2>11, MsgSendSends
  <2> HIDE DEF u
  <2> QED
    BY <2>9, <2>10, <2>12 DEF Sent, SameButMsgs
<1> QED
  BY <1>1, <1>2

LEMMA OpenLinkSent ==
  ASSUME NEW w \in Bundles, NEW k \in Slots, w.links[k] # None
  PROVE  Sent(BundOpenLink(w, k), w)
<1>1. w.links[k] \in Links
  BY DEF Bundles
<1>2. [op |-> "open", to |-> w.links[k]] \in Messages
  BY <1>1 DEF Messages
<1> QED
  BY <1>2, MsgSendSends DEF BundOpenLink

LEMMA OpenSlotSound ==
  ASSUME NEW w \in Bundles, conf \in Confs, Names(conf), NEW n \in Nat, NEW k \in Slots
  PROVE  LET u == BundOpenSlot(w, k)
         IN  /\ u \in Bundles /\ u.dead = w.dead /\ u.failed = w.failed
             /\ ~ w.dead /\ Sound(conf, w, n, {}) => Sound(conf, u, n, {})
<1>1. CASE w.links[k] # None
  <2>1. BundOpenSlot(w, k) = BundOpenLink(w, k) /\ Sent(BundOpenLink(w, k), w)
    BY <1>1, OpenLinkSent DEF BundOpenSlot
  <2>2. Sound(conf, w, n, {}) => Sound(conf, BundOpenLink(w, k), n, {})
    BY <2>1, SentSound
  <2> QED
    BY <2>1, <2>2 DEF Sent, SameButMsgs
<1>2. CASE w.links[k] = None
  <2>1. BundOpenSlot(w, k) = BundCreateOpenLink(w, k)
    BY <1>2 DEF BundOpenSlot
  <2>2. ASSUME ~ w.dead, Sound(conf, w, n, {}) PROVE Living(conf, BundCreateOpenLink(w, k), n, {})
    <3>1. Living(conf, w, n, {})
      BY <2>2 DEF Sound
    <3> QED
      BY <1>2, <3>1, CreateOpenLinkSound
  <2> QED
    BY <2>1, <2>2, CreateOpenLinkType DEF Sound
<1> QED
  BY <1>1, <1>2

LEMMA OpenedSound ==
  ASSUME NEW w \in Bundles, conf \in Confs, Names(conf), NEW n \in Nat
  PROVE  LET u == Opened(w)[NSlots]
         IN  /\ u \in Bundles /\ u.dead = w.dead /\ u.failed = w.failed
             /\ ~ w.dead /\ Sound(conf, w, n, {}) => Sound(conf, u, n, {})
<1> DEFINE AsBefore(u) == /\ u \in Bundles /\ u.dead = w.dead /\ u.failed = w.failed
                          /\ ~ w.dead /\ Sound(conf, w, n, {}) => Sound(conf, u, n, {})
           S == {k \in Nat : k <= NSlots => AsBefore(Opened(w)[k])}
<1>1. NSlots \in Nat
  BY BundAssumption
<1>2. Opened(w)[0] = w /\ \A k \in Slots : Opened(w)[k] = BundOpenSlot(Opened(w)[k - 1], k)
  BY OpenedDef
<1>3. 0 \in S
  BY <1>2
<1>4. ASSUME NEW k \in 1 .. NSlots, k - 1 \in S PROVE k \in S
  <2> DEFINE v == Opened(w)[k - 1]
  <2>1. AsBefore(v) /\ k \in Slots /\ k \in Nat
    BY <1>1, <1>4 DEF Slots
  <2>2. Opened(w)[k] = BundOpenSlot(v, k)
    BY <1>2, <2>1
  <2> HIDE DEF v
  <2>3. /\ BundOpenSlot(v, k) \in Bundles /\ BundOpenSlot(v, k).dead = v.dead
        /\ BundOpenSlot(v, k).failed = v.failed
        /\ ~ v.dead /\ Sound(conf, v, n, {}) => Sound(conf, BundOpenSlot(v, k), n, {})
    BY <2>1, OpenSlotSound
  <2>4. AsBefore(Opened(w)[k])
    BY <2>1, <2>2, <2>3
  <2> QED
    BY <2>1, <2>4
<1>5. 0 .. NSlots \subseteq S
  <2> HIDE DEF S
  <2>1. \A k \in 1 .. NSlots : k - 1 \in S => k \in S
    BY <1>4
  <2> QED
    BY <1>1, <1>3, <2>1, UpTo
<1>6. AsBefore(Opened(w)[NSlots])
  BY <1>1, <1>5
<1> QED
  BY ONLY <1>6 DEF AsBefore

LEMMA OpenLinksSound ==
  ASSUME NEW v \in Bundles, conf \in Confs, Names(conf), NEW n \in Nat
  PROVE  LET u == BundOpenLinks(v)
         IN  /\ u \in Bundles /\ u.dead = v.dead /\ u.failed = v.failed
             /\ ~ v.dead /\ Sound(conf, v, n, {}) => Sound(conf, u, n, {})
<1> DEFINE w == [v EXCEPT !.reOpenTimer = FALSE]
<1>1. /\ w \in Bundles /\ SameTable(w, v) /\ w.failed = v.failed /\ w.dead = v.dead /\ ~ w.reOpenTimer
      /\ w.bmTimer = v.bmTimer /\ w.n_up = v.n_up
  BY DEF Bundles, SameTable
<1>2. BundOpenLinks(v) = CASE conf.bwmanage /\ (w.n_links # 0 \/ Usable(w) = {}) -> w
                           [] conf.bwmanage /\ w.n_links = 0 /\ Usable(w) # {} -> BundOpenSlot(w, Least(Usable(w)))
                           [] ~ conf.bwmanage -> Opened(w)[NSlots]
  BY DEF BundOpenLinks
<1> HIDE DEF w
<1>3. Sound(conf, v, n, {}) => Sound(conf, w, n, {})
  <2>1. Timed(conf, v) => Timed(conf, w)
    BY <1>1 DEF Timed
  <2> QED
    BY <1>1, <2>1, TableSound DEF Sound, Living
<1>4. CASE conf.bwmanage /\ (w.n_links # 0 \/ Usable(w) = {})
  BY <1>1, <1>2, <1>3, <1>4
<1>5. CASE conf.bwmanage /\ w.n_links = 0 /\ Usable(w) # {}
  <2>1. Usable(w) \subseteq Slots
    BY DEF Usable
  <2>2. Least(Usable(w)) \in Slots
    BY <1>5, <2>1, SlotExtremes
  <2>3. BundOpenLinks(v) = BundOpenSlot(w, Least(Usable(w)))
    BY <1>2, <1>5
  <2> QED
    BY <1>1, <1>3, <2>2, <2>3, OpenSlotSound
<1>6. CASE ~ conf.bwmanage
  <2>1. BundOpenLinks(v) = Opened(w)[NSlots]
    BY <1>2, <1>6
  <2> QED
    BY <1>1, <1>3, <2>1, OpenedSound
<1> QED
  BY <1>4, <1>5, <1>6

----------------------------------------------------------------------------
(* A link is closed or ends, and messages are handled. *)

LEMMA LeaveIfJoinedSound ==
  ASSUME NEW w \in Bundles, NEW n \in Nat, Sound(conf, w, n, {}), w.failed = "none", NEW x \in Links
  PROVE  LET d == LeaveIfJoined(w, x)
         IN  /\ d \in Bundles
             /\ \/ /\ d.failed = "none" /\ Sound(conf, d, n, {})
                   /\ ~ d.link[x].joined /\ d.link[x].st = w.link[x].st
                \/ d.failed = "leave" /\ d.dead /\ n # 0
<1>1. CASE ~ w.link[x].joined
  BY <1>1 DEF LeaveIfJoined
<1>2. CASE w.link[x].joined /\ w.dead
  <2> DEFINE d == [w EXCEPT !.failed = "leave"]
  <2>1. ~ Member(w, x)
    BY <1>2, NoneIsNoLink DEF Sound, Dead, Member
  <2>2. LeaveIfJoined(w, x) = d
    BY <1>2, <2>1 DEF LeaveIfJoined, BundLeave
  <2>3. d \in Bundles /\ d.failed = "leave" /\ d.dead
    BY <1>2 DEF Bundles
  <2>4. n # 0
    BY <1>2 DEF Sound, Dead, JoinedOf
  <2> HIDE DEF d
  <2> QED
    BY <2>2, <2>3, <2>4
<1>3. CASE w.link[x].joined /\ ~ w.dead
  <2>1. Living(conf, w, n, {})
    BY <1>3 DEF Sound
  <2>2. w.link[x].st = "open"
    BY <1>3, <2>1 DEF Living, Upward, JoinedOf
  <2>3. LeaveIfJoined(w, x) = BundLeave(w, x)
    BY <1>3 DEF LeaveIfJoined
  <2> QED
    BY <1>3, <2>1, <2>2, <2>3, LeaveSound
<1> QED
  BY <1>1, <1>2, <1>3

LEMMA CloseLinkGood ==
  ASSUME NEW w \in Bundles, NEW n \in Nat, Sound(conf, w, n, {}), w.failed = "none", NEW x \in Links
  PROVE  Good(conf, CloseLink(w, x), n)
<1> DEFINE d == LeaveIfJoined(w, x)
<1>1. CASE w.link[x].st # "open"
  BY <1>1 DEF CloseLink, Good
<1>2. CASE w.link[x].st = "open"
  <2>1. /\ d \in Bundles
        /\ \/ /\ d.failed = "none" /\ Sound(conf, d, n, {})
              /\ ~ d.link[x].joined /\ d.link[x].st = w.link[x].st
           \/ d.failed = "leave" /\ d.dead /\ n # 0
    BY LeaveIfJoinedSound
  <2>2. CloseLink(w, x) = AtState(d, x, "closing")
    BY <1>2 DEF CloseLink, AtState
  <2> HIDE DEF d
  <2>3. "closing" \in LinkStates
    BY DEF LinkStates
  <2>4. CASE d.failed = "none"
    <3>3. d \in Bundles /\ Sound(conf, d, n, {}) /\ ~ d.link[x].joined /\ d.link[x].st # "dying"
      BY <1>2, <2>1, <2>4
    <3>1. /\ Sound(conf, AtState(d, x, "closing"), n, {} \ {x}) /\ AtState(d, x, "closing") \in Bundles
          /\ AtState(d, x, "closing").failed = d.failed
      BY ONLY <3>3, x \in Links, AtStateLive
    <3>2. {} \ {x} = {}
      OBVIOUS
    <3> QED
      BY <2>2, <2>4, <3>1, <3>2 DEF Good
  <2>5. CASE d.failed # "none"
    <3>1. AtState(d, x, "closing") \in Bundles /\ SameButLink(AtState(d, x, "closing"), d)
      BY <2>1, <2>3, AtStateFields
    <3> QED
      BY <2>1, <2>2, <2>5, <3>1 DEF Good, SameButLink
  <2> QED
    BY <2>4, <2>5
<1> QED
  BY <1>1, <1>2

LEMMA TailSound ==
  ASSUME NEW v \in Bundles, NEW n \in Nat, Sound(conf, v, n, {}), v.msgs # << >>
  PROVE  LET w == [v EXCEPT !.msgs = Tail(@)]
             m == Head(v.msgs)
         IN  /\ w \in Bundles /\ m \in Messages /\ w.failed = v.failed /\ w.dead = v.dead
             /\ m.op = "shutdown" => m.to \in Instances /\ w.link[m.to].st = "dying"
             /\ Sound(conf, w, n, {m.to})
             /\ m.op # "shutdown" /\ (m.op = "open" => w.link[m.to].st # "idle") => Sound(conf, w, n, {})
<1> DEFINE q == Tail(v.msgs)
           w == [v EXCEPT !.msgs = Tail(@)]
           m == Head(v.msgs)
<1>1. v.msgs \in Seq(Messages)
  BY DEF Bundles
<1>2. m \in Messages /\ q \in Seq(Messages) /\ ToSet(v.msgs) = ToSet(q) \cup {m}
  BY <1>1, ToSetTail
<1>3. w = [v EXCEPT !.msgs = q]
  OBVIOUS
<1> HIDE DEF q, m, w
<1>4. /\ w \in Bundles /\ w.msgs = q /\ w.failed = v.failed /\ w.dead = v.dead /\ w.links = v.links
      /\ w.link = v.link /\ w.n_links = v.n_links /\ w.n_up = v.n_up /\ w.bmTimer = v.bmTimer
      /\ w.reOpenTimer = v.reOpenTimer /\ w.open = v.open
  BY <1>2, <1>3 DEF Bundles
<1>5. m = [op |-> m.op, to |-> m.to]
  BY <1>2 DEF Messages
<1>6. ASSUME NEW op, NEW x PROVE Queued(v, op, x) <=> Queued(w, op, x) \/ (op = m.op /\ x = m.to)
  <2>1. [op |-> op, to |-> x] = m <=> op = m.op /\ x = m.to
    BY <1>5
  <2> QED
    BY <1>2, <1>4, <2>1 DEF Queued
<1>7. Dies(v)
  BY DEF Sound, Living, Dead
<1>8. Dies(w)
  BY <1>4, <1>6, <1>7 DEF Dies
<1>9. m.op = "shutdown" => m.to \in Instances /\ w.link[m.to].st = "dying"
  <2>1. m.op = "shutdown" => m.to \in Links
    BY <1>2 DEF Messages
  <2> QED
    BY <1>4, <1>6, <1>7, <2>1 DEF Dies
<1>10. MembersOf(w) = MembersOf(v) /\ JoinedOf(w) = JoinedOf(v)
  BY <1>4 DEF MembersOf, JoinedOf, Member
<1>11. ASSUME NEW X, Leaving(v, {}) => Leaving(w, X) PROVE Sound(conf, w, n, X)
  <2>1. /\ Slotted(v) => Slotted(w)
        /\ Placed(conf, v) => Placed(conf, w)
        /\ Upward(v) => Upward(w)
        /\ Counts(v, n) => Counts(w, n)
        /\ Timed(conf, v) => Timed(conf, w)
    BY <1>4, <1>10 DEF Slotted, Apart, Placed, Upward, Counts, Timed
  <2> QED
    BY <1>4, <1>8, <1>10, <1>11, <2>1 DEF Sound, Living, Dead
<1>12. Leaving(v, {}) => Leaving(w, {m.to})
  BY <1>4, <1>6, <1>10 DEF Leaving
<1>13. ASSUME m.op # "shutdown", m.op = "open" => w.link[m.to].st # "idle"
       PROVE  Leaving(v, {}) => Leaving(w, {})
  BY <1>4, <1>6, <1>10, <1>13 DEF Leaving
<1> QED
  BY <1>2, <1>4, <1>9, <1>11, <1>12, <1>13 DEF w, m

LEMMA HandleGood ==
  ASSUME NEW v \in Bundles, conf \in Confs, Names(conf), NEW n \in Nat,
         Sound(conf, v, n, {}), v.failed = "none", v.msgs # << >>
  PROVE  Good(conf, Handle([v EXCEPT !.msgs = Tail(@)], Head(v.msgs)), n)
<1> DEFINE w == [v EXCEPT !.msgs = Tail(@)]
           m == Head(v.msgs)
<1>1. /\ w \in Bundles /\ m \in Messages /\ w.failed = v.failed /\ w.dead = v.dead
      /\ m.op = "shutdown" => m.to \in Instances /\ w.link[m.to].st = "dying"
      /\ Sound(conf, w, n, {m.to})
      /\ m.op # "shutdown" /\ (m.op = "open" => w.link[m.to].st # "idle") => Sound(conf, w, n, {})
  BY TailSound
<1> HIDE DEF w, m
<1>2. m.op \in {"bundOpen", "bundClose"} \/ (m.op \in {"open", "close", "shutdown"} /\ m.to \in Links)
  BY <1>1 DEF Messages
<1>3. CASE m.op = "bundOpen"
  <2>1. Sound(conf, w, n, {})
    BY <1>1, <1>3
  <2>2. CASE w.dead
    <3>1. Handle(w, m) = w
      BY <1>3, <2>2 DEF Handle
    <3> QED
      BY <1>1, <2>1, <3>1 DEF Good, w, m
  <2>3. CASE ~ w.dead
    <3> DEFINE z == [w EXCEPT !.open = TRUE]
    <3>1. /\ z \in Bundles /\ SameTable(z, w) /\ z.open /\ z.dead = w.dead /\ z.failed = w.failed
          /\ z.reOpenTimer = w.reOpenTimer /\ z.bmTimer = w.bmTimer /\ z.n_up = w.n_up
      BY <1>1 DEF Bundles, SameTable
    <3>2. Handle(w, m) = BundOpenLinks(z)
      BY <1>3, <2>3 DEF Handle
    <3> HIDE DEF z
    <3>3. Timed(conf, z)
      BY <2>1, <2>3, <3>1 DEF Sound, Living, Timed
    <3>4. Sound(conf, z, n, {})
      BY <2>1, <3>1, <3>3, TableSound
    <3>5. LET u == BundOpenLinks(z)
          IN  u \in Bundles /\ u.failed = z.failed /\ (~ z.dead /\ Sound(conf, z, n, {}) => Sound(conf, u, n, {}))
      BY <3>1, OpenLinksSound
    <3> QED
      BY <1>1, <2>3, <3>1, <3>2, <3>4, <3>5 DEF Good, w, m
  <2> QED
    BY <2>2, <2>3
<1>4. CASE m.op = "bundClose"
  <2>1. Sound(conf, w, n, {})
    BY <1>1, <1>4
  <2>2. CASE w.dead
    <3>1. Handle(w, m) = w
      BY <1>4, <2>2 DEF Handle
    <3> QED
      BY <1>1, <2>1, <3>1 DEF Good, w, m
  <2>3. CASE ~ w.dead
    <3> DEFINE z == [w EXCEPT !.open = FALSE]
               y == [z EXCEPT !.reOpenTimer = FALSE]
    <3>1. Handle(w, m) = BundCloseLinks(z)
      BY <1>4, <2>3 DEF Handle
    <3>2. /\ z \in Bundles /\ SameTable(z, w) /\ z.failed = w.failed /\ z.bmTimer = w.bmTimer
      BY <1>1 DEF Bundles, SameTable
    <3> HIDE DEF z
    <3>3. /\ y \in Bundles /\ SameTable(y, z) /\ ~ y.reOpenTimer /\ y.bmTimer = z.bmTimer
          /\ y.failed = z.failed
      BY <3>2 DEF Bundles, SameTable
    <3>4. Sent(BundCloseLinks(z), y)
      BY <3>2, CloseLinksSound
    <3> HIDE DEF y
    <3>5. SameTable(y, w)
      BY <3>2, <3>3 DEF SameTable
    <3>6. Timed(conf, y)
      BY <2>1, <2>3, <3>2, <3>3, <3>5 DEF Sound, Living, Timed, SameTable
    <3>7. Sound(conf, y, n, {})
      BY <2>1, <3>5, <3>6, TableSound
    <3>8. Sound(conf, BundCloseLinks(z), n, {})
      BY <3>3, <3>4, <3>7, SentSound
    <3> QED
      BY <1>1, <3>1, <3>2, <3>3, <3>4, <3>8 DEF Good, Sent, SameButMsgs, w, m
  <2> QED
    BY <2>2, <2>3
<1>5. CASE m.op = "open" /\ m.to \in Links
  <2> DEFINE x == m.to
  <2>1. CASE w.link[x].st \in {"idle", "closing"}
    <3>1. Handle(w, m) = AtState(w, x, "open")
      BY <1>5, <2>1 DEF Handle, AtState
    <3>2. ~ w.dead => ~ w.link[x].joined
      BY <1>1, <1>5, <2>1 DEF Sound, Living, Upward, JoinedOf
    <3>3. w.link[x].st # "dying" /\ w \in Bundles
      BY <1>1, <2>1
    <3> HIDE DEF x
    <3>4. x \in Links /\ Sound(conf, w, n, {x})
      BY <1>1, <1>5 DEF x
    <3> HIDE DEF w, m
    <3>5. /\ Sound(conf, AtState(w, x, "open"), n, {x} \ {x})
          /\ AtState(w, x, "open") \in Bundles /\ AtState(w, x, "open").failed = w.failed
      BY ONLY <3>2, <3>3, <3>4, AtStateLive
    <3>6. {x} \ {x} = {}
      OBVIOUS
    <3> QED
      BY <1>1, <3>1, <3>5, <3>6 DEF Good, w, m
  <2>2. CASE w.link[x].st \notin {"idle", "closing"}
    <3>1. Handle(w, m) = w
      BY <1>5, <2>2 DEF Handle
    <3>2. Sound(conf, w, n, {})
      BY <1>1, <1>5, <2>2
    <3> QED
      BY <1>1, <3>1, <3>2 DEF Good, w, m
  <2> QED
    BY <2>1, <2>2
<1>6. CASE m.op = "close" /\ m.to \in Links
  <2>1. Handle(w, m) = CloseLink(w, m.to)
    BY <1>6 DEF Handle
  <2>2. Sound(conf, w, n, {})
    BY <1>1, <1>6
  <2> QED
    BY <1>1, <1>6, <2>1, <2>2, CloseLinkGood DEF w, m
<1>7. CASE m.op = "shutdown"
  <2>1. Handle(w, m) = LinkShutdown(w, m.to)
    BY <1>7 DEF Handle
  <2>2. LET u == LinkShutdown(w, m.to)
        IN  u \in Bundles /\ Sound(conf, u, n, {}) /\ u.failed = w.failed
    BY <1>1, <1>7, LinkShutdownSound
  <2> QED
    BY <1>1, <2>1, <2>2 DEF Good, w, m
<1> QED
  BY <1>2, <1>3, <1>4, <1>5, <1>6, <1>7

----------------------------------------------------------------------------
(* The initial states, and the actions. *)

LEMMA NewBundLiving ==
  ASSUME NEW stay \in BOOLEAN, conf \in Confs
  PROVE  LET w == NewBund(stay)
         IN  w \in Bundles /\ Living(conf, w, 0, {}) /\ ~ w.dead /\ w.failed = "none" /\ w.links[1] = None
<1> DEFINE p == [k \in Slots |-> None]
           q == [x \in Links |-> [st |-> IF x \in Static THEN "idle" ELSE "absent", joined |-> FALSE]]
           w == NewBund(stay)
<1>1. p \in [Slots -> Links \cup {None}] /\ q \in [Links -> LinkRecords]
  BY DEF LinkRecords, LinkStates
<1>2. << >> \in Seq(Messages) /\ ToSet(<< >>) = {}
  BY DEF ToSet
<1>3. w = [open |-> FALSE, dead |-> FALSE, stay |-> stay, links |-> p, n_links |-> 0, n_up |-> 0, link |-> q,
           ncpstarted |-> {}, reOpenTimer |-> FALSE, bmTimer |-> FALSE, msgs |-> << >>, failed |-> "none"]
  BY DEF NewBund
<1>4. (\A k \in Slots : p[k] = None) /\ \A x \in Links : ~ q[x].joined
  OBVIOUS
<1> HIDE DEF p, q, w
<1>5. w \in Bundles
  BY <1>1, <1>2, <1>3 DEF Bundles, LinkRecords
<1>6. /\ ~ w.dead /\ w.failed = "none" /\ w.links = p /\ w.link = q /\ w.n_links = 0 /\ w.n_up = 0
      /\ ~ w.reOpenTimer /\ ~ w.bmTimer /\ w.msgs = << >>
  BY <1>3
<1>7. MembersOf(w) = {} /\ JoinedOf(w) = {} /\ \A op, x : ~ Queued(w, op, x)
  BY <1>2, <1>4, <1>6, NoneIsNoLink DEF MembersOf, Member, JoinedOf, Queued
<1>8. Cardinality({}) = 0
  BY FS_EmptySet
<1>9. Slotted(w) /\ Upward(w) /\ Counts(w, 0)
  BY <1>4, <1>6, <1>7, <1>8 DEF Slotted, Apart, Upward, Counts
<1>10. Placed(conf, w) /\ Leaving(w, {}) /\ Dies(w)
  <2>1. None \notin Static
    BY BundAssumption
  <2> QED
    BY <1>4, <1>6, <1>7, <2>1 DEF Placed, Leaving, Dies
<1>11. Timed(conf, w)
  <2>1. ~ (w.n_up > 0)
    BY <1>6
  <2> QED
    BY <1>6, <2>1 DEF Timed
<1>12. 1 \in Slots
  BY BundAssumption DEF Slots
<1> QED
  BY <1>4, <1>5, <1>6, <1>9, <1>10, <1>11, <1>12 DEF Living, w

LEMMA InitBundInv == Init => BundInv
<1> SUFFICES ASSUME Init PROVE BundInv
  OBVIOUS
<1>1. conf \in Confs /\ Names(conf) /\ handling = FALSE /\ lost = 0 /\ lost \in 0 .. MaxLost
  <2>1. 0 \in 0 .. MaxLost
    BY BundAssumption
  <2> QED
    BY <2>1 DEF Init, Confs, Names
<1>2. CASE b = NewBund(TRUE)
  BY <1>1, <1>2, NewBundLiving DEF BundInv, Good, Sound
<1>3. CASE \E x \in Links : b = Joins([NewBund(FALSE) EXCEPT !.link[x].st = "open"], x)
  <2>1. PICK x \in Links : b = Joins([NewBund(FALSE) EXCEPT !.link[x].st = "open"], x)
    BY <1>3
  <2> DEFINE v == NewBund(FALSE)
             w == AtState(v, x, "open")
  <2>2. v \in Bundles /\ Living(conf, v, 0, {}) /\ ~ v.dead /\ v.failed = "none" /\ v.links[1] = None
    BY <1>1, NewBundLiving
  <2>3. b = Joins(w, x)
    BY <2>1 DEF AtState
  <2>4. v.link[x].st # "dying" /\ ~ v.link[x].joined
    BY DEF NewBund
  <2> HIDE DEF v
  <2>5. "open" \in LinkStates
    BY DEF LinkStates
  <2>6. /\ w \in Bundles /\ w.link[x].st = "open" /\ w.link[x].joined = v.link[x].joined /\ SameButLink(w, v)
    BY <2>2, <2>5, AtStateFields
  <2>7. Sound(conf, w, 0, {} \ {x})
    <3>1. Sound(conf, v, 0, {})
      BY <2>2 DEF Sound
    <3> QED
      BY <2>2, <2>4, <3>1, AtStateLive
  <2>8. {} \ {x} = {}
    OBVIOUS
  <2> HIDE DEF w
  <2>9. Living(conf, w, 0, {}) /\ ~ w.dead /\ w.failed = "none" /\ w.links[1] = None
    BY <2>2, <2>6, <2>7, <2>8 DEF Sound, SameButLink
  <2>10. 1 \in Slots
    BY BundAssumption DEF Slots
  <2>11. b \in Bundles /\ Living(conf, b, 0, {}) /\ ~ b.dead /\ b.failed = w.failed
    BY <1>1, <2>3, <2>4, <2>6, <2>9, <2>10, JoinsSound
  <2> QED
    BY <1>1, <2>9, <2>11 DEF BundInv, Good, Sound
<1> QED
  BY <1>2, <1>3 DEF Init

\* A message is sent to the bundle or to a link.
LEMMA MsgGood ==
  ASSUME NEW w \in Bundles, NEW n, Sound(conf, w, n, {}), w.failed = "none",
         NEW op, NEW x, [op |-> op, to |-> x] \in Messages, op # "shutdown"
  PROVE  Good(conf, MsgSend(w, op, x), n)
<1>1. Sent(MsgSend(w, op, x), w)
  BY MsgSendSends
<1> QED
  BY <1>1, SentSound DEF Good, Sent, SameButMsgs

\* The network protocols come and go, or the bundle is told not to stay.
LEMMA TableGood ==
  ASSUME NEW w \in Bundles, NEW n, Sound(conf, w, n, {}), w.failed = "none", NEW u \in Bundles,
         SameTable(u, w), u.failed = w.failed, u.open = w.open, u.reOpenTimer = w.reOpenTimer, u.bmTimer = w.bmTimer
  PROVE  Sound(conf, u, n, {})
<1>1. Timed(conf, w) => Timed(conf, u)
  BY DEF Timed, SameTable
<1> QED
  BY <1>1, TableSound DEF Sound, Living

LEMMA EndGood ==
  ASSUME NEW w \in Bundles, NEW n \in Nat, Sound(conf, w, n, {}), w.failed = "none", NEW x \in Links,
         w.link[x].st \in {"open", "closing"}
  PROVE  Good(conf, End(w, x), n)
<1> DEFINE d == LeaveIfJoined(w, x)
<1>1. /\ d \in Bundles
      /\ \/ /\ d.failed = "none" /\ Sound(conf, d, n, {})
            /\ ~ d.link[x].joined /\ d.link[x].st = w.link[x].st
         \/ d.failed = "leave" /\ d.dead /\ n # 0
  BY LeaveIfJoinedSound
<1>2. End(w, x) = CASE x \in Static -> AtState(d, x, "idle")
                    [] x \in Instances /\ d.link[x].st # "absent" -> MsgSend(AtState(d, x, "dying"), "shutdown", x)
                    [] x \in Instances /\ d.link[x].st = "absent" -> d
  BY DEF End, AtState
<1> HIDE DEF d
<1>3. "idle" \in LinkStates /\ "dying" \in LinkStates
  BY DEF LinkStates
<1>4. CASE x \in Static
  <2>1. End(w, x) = AtState(d, x, "idle")
    <3>1. x \notin Instances
      BY <1>4, BundAssumption
    <3> QED
      BY <1>2, <1>4, <3>1
  <2>2. CASE d.failed = "none"
    <3>1. /\ Sound(conf, AtState(d, x, "idle"), n, IF "idle" = "dying" THEN {} \cup {x} ELSE {} \ {x})
          /\ AtState(d, x, "idle") \in Bundles /\ AtState(d, x, "idle").failed = d.failed
      <4>1. Sound(conf, d, n, {}) /\ ~ d.link[x].joined /\ d.link[x].st # "dying"
        BY <1>1, <2>2
      <4> QED
        BY <1>1, <1>3, <1>4, <4>1, AtStateSound
    <3>2. (IF "idle" = "dying" THEN {} \cup {x} ELSE {} \ {x}) = {}
      OBVIOUS
    <3> QED
      BY <2>1, <2>2, <3>1, <3>2 DEF Good
  <2>3. CASE d.failed # "none"
    <3>1. AtState(d, x, "idle") \in Bundles /\ SameButLink(AtState(d, x, "idle"), d)
      BY <1>1, <1>3, AtStateFields
    <3> QED
      BY <1>1, <2>1, <2>3, <3>1 DEF Good, SameButLink
  <2> QED
    BY <2>2, <2>3
<1>5. CASE x \in Instances /\ d.link[x].st # "absent"
  <2> DEFINE v == AtState(d, x, "dying")
             u == MsgSend(v, "shutdown", x)
  <2>1. x \notin Static
    BY <1>5, BundAssumption
  <2>2. End(w, x) = u
    BY <1>2, <1>5, <2>1
  <2>3. /\ v \in Bundles /\ v.link[x].st = "dying" /\ SameButLink(v, d)
    BY <1>1, <1>3, AtStateFields
  <2>4. [op |-> "shutdown", to |-> x] \in Messages
    BY DEF Messages
  <2>5. ASSUME d.failed = "none" PROVE Sound(conf, v, n, {x})
    <3>1. Sound(conf, d, n, {}) /\ ~ d.link[x].joined /\ d.link[x].st # "dying"
      BY <1>1, <2>5
    <3>2. Sound(conf, v, n, IF "dying" = "dying" THEN {} \cup {x} ELSE {} \ {x})
      BY <1>1, <1>3, <1>5, <3>1, AtStateSound
    <3>3. (IF "dying" = "dying" THEN {} \cup {x} ELSE {} \ {x}) = {x}
      OBVIOUS
    <3> QED
      BY <3>2, <3>3
  <2> HIDE DEF v
  <2>6. Sent(u, v) /\ Queued(u, "shutdown", x)
    BY <1>5, <2>3, <2>4, MsgSendSends
  <2> HIDE DEF u
  <2>7. u \in Bundles /\ u.dead = d.dead /\ u.failed = d.failed /\ u.link = v.link
    BY <2>3, <2>6 DEF Sent, SameButMsgs, SameButLink
  <2>8. d.failed = "none" => Sound(conf, u, n, {})
    BY <2>3, <2>5, <2>6, <2>7, Settled
  <2> QED
    BY <1>1, <2>2, <2>7, <2>8 DEF Good
<1>6. CASE x \in Instances /\ d.link[x].st = "absent"
  <2>1. x \notin Static
    BY <1>6, BundAssumption
  <2>2. End(w, x) = d
    BY <1>2, <1>6, <2>1
  <2> QED
    BY <1>1, <2>2 DEF Good
<1> QED
  BY <1>4, <1>5, <1>6 DEF Links

LEMMA MsgEventKeepsBundInv == BundInv /\ MsgEvent => BundInv'
<1> SUFFICES ASSUME BundInv, MsgEvent PROVE BundInv'
  OBVIOUS
<1>1. /\ b \in Bundles /\ Sound(conf, b, lost, {}) /\ b.failed = "none" /\ b.msgs # << >> /\ conf \in Confs
      /\ Names(conf) /\ lost \in Nat
  BY BundAssumption DEF BundInv, Good, MsgEvent, Running
<1>2. Good(conf, Handle([b EXCEPT !.msgs = Tail(@)], Head(b.msgs)), lost)
  BY <1>1, HandleGood
<1>3. Good(conf', b', lost')
  BY <1>2 DEF MsgEvent
<1> QED
  BY <1>3 DEF BundInv, MsgEvent

LEMMA SendingKeepsBundInv ==
  ASSUME BundInv, BundOpen \/ BundClose \/ \E x \in Links : LinkOpen(x) \/ LinkClose(x)
  PROVE  BundInv'
<1>1. b \in Bundles /\ Sound(conf, b, lost, {}) /\ b.failed = "none"
  BY DEF BundInv, Good, BundOpen, BundClose, LinkOpen, LinkClose, Calm, Running
<1>2. PICK op, to : /\ [op |-> op, to |-> to] \in Messages /\ op # "shutdown"
                    /\ b' = MsgSend(b, op, to) /\ Unchanged
  BY DEF BundOpen, BundClose, LinkOpen, LinkClose, Messages
<1>3. Good(conf, MsgSend(b, op, to), lost)
  BY <1>1, <1>2, MsgGood
<1> QED
  BY <1>2, <1>3 DEF BundInv, Unchanged

LEMMA IncomingKeepsBundInv ==
  ASSUME NEW x \in Links, BundInv, Incoming(x)
  PROVE  BundInv'
<1>1. b \in Bundles /\ Sound(conf, b, lost, {}) /\ b.failed = "none" /\ b.link[x].st = "absent"
  BY DEF BundInv, Good, Incoming, Calm, Running
<1>2. b' = AtState(b, x, "open") /\ Unchanged
  BY DEF Incoming, AtState
<1>3. ~ b.dead => ~ b.link[x].joined
  BY <1>1 DEF Sound, Living, Upward, JoinedOf
<1>4. b.link[x].st # "dying"
  BY <1>1
<1>5. /\ Sound(conf, AtState(b, x, "open"), lost, {} \ {x})
      /\ AtState(b, x, "open") \in Bundles /\ AtState(b, x, "open").failed = b.failed
  BY <1>1, <1>3, <1>4, AtStateLive
<1>6. {} \ {x} = {}
  OBVIOUS
<1> QED
  BY <1>1, <1>2, <1>5, <1>6 DEF BundInv, Good, Unchanged

LEMMA BundJoinKeepsBundInv ==
  ASSUME NEW x \in Links, BundInv, BundJoin(x)
  PROVE  BundInv'
<1>1. /\ b \in Bundles /\ Sound(conf, b, lost, {}) /\ b.failed = "none" /\ conf \in Confs /\ lost \in 0 .. MaxLost
      /\ ~ b.dead /\ b.link[x].st = "open" /\ ~ b.link[x].joined
      /\ Member(b, x) \/ \E k \in Slots : b.links[k] = None
  BY DEF BundInv, Good, BundJoin, Calm, Running
<1>2. Living(conf, b, lost, {}) /\ lost \in Nat
  BY <1>1 DEF Sound
<1>3. CASE b' = Joins(b, x) /\ UNCHANGED lost
  <2>1. LET u == Joins(b, x) IN u \in Bundles /\ Living(conf, u, lost, {}) /\ ~ u.dead /\ u.failed = b.failed
    BY <1>1, <1>2, JoinsSound
  <2> QED
    BY <1>1, <1>3, <2>1 DEF BundInv, Good, Sound, BundJoin
<1>4. CASE lost < MaxLost /\ b' = JoinFails(b, x) /\ lost' = lost + 1
  <2>1. LET u == JoinFails(b, x) IN u \in Bundles /\ Sound(conf, u, lost + 1, {}) /\ u.failed = b.failed
    BY <1>1, <1>2, JoinFailsSound
  <2>2. lost' \in 0 .. MaxLost
    BY <1>1, <1>4, BundAssumption
  <2> QED
    BY <1>1, <1>4, <2>1, <2>2 DEF BundInv, Good, BundJoin
<1> QED
  BY <1>3, <1>4 DEF BundJoin

LEMMA LeavingKeepsBundInv ==
  ASSUME NEW x \in Links, BundInv, Leave(x) \/ LinkDown(x)
  PROVE  BundInv'
<1>1. b \in Bundles /\ Sound(conf, b, lost, {}) /\ b.failed = "none" /\ lost \in Nat
  BY DEF BundInv, Good, Leave, LinkDown, Calm, Running
<1>2. CASE Leave(x)
  <2>1. b' = LeaveIfJoined(b, x) /\ Unchanged
    BY <1>2 DEF Leave, LeaveIfJoined
  <2>2. LET d == LeaveIfJoined(b, x)
        IN  /\ d \in Bundles
            /\ \/ d.failed = "none" /\ Sound(conf, d, lost, {})
               \/ d.failed = "leave" /\ d.dead /\ lost # 0
    BY <1>1, LeaveIfJoinedSound
  <2> QED
    BY <2>1, <2>2 DEF BundInv, Good, Unchanged
<1>3. CASE LinkDown(x)
  <2>1. b.link[x].st \in {"open", "closing"} /\ b' = End(b, x) /\ Unchanged
    BY <1>3 DEF LinkDown
  <2>2. Good(conf, End(b, x), lost)
    BY <1>1, <2>1, EndGood
  <2> QED
    BY <2>1, <2>2 DEF BundInv, Unchanged
<1> QED
  BY <1>2, <1>3

LEMMA NcpKeepsBundInv ==
  ASSUME NEW n \in Ncps, BundInv, NcpStart(n) \/ NcpFinish(n)
  PROVE  BundInv'
<1>1. b \in Bundles /\ Sound(conf, b, lost, {}) /\ b.failed = "none"
  BY DEF BundInv, Good, NcpStart, NcpFinish, Calm, Running
<1>2. ASSUME NEW N \in SUBSET Ncps
      PROVE  LET f == [b EXCEPT !.ncpstarted = N]
             IN  f \in Bundles /\ Sound(conf, f, lost, {}) /\ f.failed = "none" /\ f.ncpstarted = N
  <2> DEFINE f == [b EXCEPT !.ncpstarted = N]
  <2>1. /\ f \in Bundles /\ SameTable(f, b) /\ f.failed = b.failed /\ f.open = b.open
        /\ f.reOpenTimer = b.reOpenTimer /\ f.bmTimer = b.bmTimer /\ f.ncpstarted = N
    BY <1>1 DEF Bundles, SameTable
  <2> HIDE DEF f
  <2>2. Sound(conf, f, lost, {})
    BY <1>1, <2>1, TableGood
  <2> QED
    BY <1>1, <2>1, <2>2 DEF f
<1>3. CASE NcpStart(n)
  <2> DEFINE N == b.ncpstarted \cup {n}
  <2>1. N \in SUBSET Ncps
    BY <1>1 DEF Bundles
  <2>2. b' = [b EXCEPT !.ncpstarted = N] /\ Unchanged
    BY <1>3 DEF NcpStart, BundNcpsStart
  <2> HIDE DEF N
  <2> QED
    BY <1>2, <2>1, <2>2 DEF BundInv, Good, Unchanged
<1>4. CASE NcpFinish(n)
  <2> DEFINE N == b.ncpstarted \ {n}
             f == [b EXCEPT !.ncpstarted = N]
  <2>1. N \in SUBSET Ncps
    BY <1>1 DEF Bundles
  <2>2. b' = (IF f.ncpstarted = {} THEN BundCloseLinks(f) ELSE f) /\ Unchanged
    BY <1>4 DEF NcpFinish, BundNcpsFinish
  <2> HIDE DEF N
  <2>3. f \in Bundles /\ Sound(conf, f, lost, {}) /\ f.failed = "none"
    BY <1>2, <2>1
  <2> HIDE DEF f
  <2>4. Sound(conf, BundCloseLinks(f), lost, {})
    BY <2>3, CloseLinksSound
  <2>5. BundCloseLinks(f) \in Bundles /\ BundCloseLinks(f).failed = "none"
    BY <2>3, CloseLinksFields
  <2> QED
    BY <2>2, <2>3, <2>4, <2>5 DEF BundInv, Good, Unchanged
<1> QED
  BY <1>3, <1>4

LEMMA BundDestroyKeepsBundInv == BundInv /\ BundDestroy => BundInv'
<1> SUFFICES ASSUME BundInv, BundDestroy PROVE BundInv'
  OBVIOUS
<1> DEFINE d == [b EXCEPT !.stay = FALSE]
<1>1. b \in Bundles /\ Sound(conf, b, lost, {}) /\ b.failed = "none" /\ ~ b.dead /\ lost \in Nat
  BY DEF BundInv, Good, BundDestroy, Calm, Running
<1>2. b' = (IF d.n_up # 0 THEN MsgSend(d, "bundClose", None) ELSE BundShutdown(d)) /\ Unchanged
  BY DEF BundDestroy
<1>3. /\ d \in Bundles /\ SameTable(d, b) /\ d.failed = b.failed /\ d.open = b.open /\ d.dead = b.dead
      /\ d.reOpenTimer = b.reOpenTimer /\ d.bmTimer = b.bmTimer
  BY <1>1 DEF Bundles, SameTable
<1> HIDE DEF d
<1>4. Sound(conf, d, lost, {})
  BY <1>1, <1>3, TableGood
<1>5. CASE d.n_up # 0
  <2>1. [op |-> "bundClose", to |-> None] \in Messages
    BY DEF Messages
  <2>2. Good(conf, MsgSend(d, "bundClose", None), lost)
    BY <1>1, <1>3, <1>4, <2>1, MsgGood
  <2> QED
    BY <1>2, <1>5, <2>2 DEF BundInv, Unchanged
<1>6. CASE d.n_up = 0
  <2>1. Upward(d) /\ Counts(d, lost) /\ Dies(d)
    BY <1>1, <1>3, <1>4 DEF Sound, Living
  <2>2. JoinedOf(d) = {}
    BY <1>3, <1>6, <2>1, JoinedFinite
  <2>3. LET u == BundShutdown(d)
        IN  u \in Bundles /\ u.dead /\ Dead(u, lost) /\ u.failed = d.failed
    BY <1>1, <1>3, <2>1, <2>2, ShutdownDead
  <2> QED
    BY <1>1, <1>2, <1>3, <1>6, <2>3 DEF BundInv, Good, Sound, Unchanged
<1> QED
  BY <1>5, <1>6

LEMMA BundReOpenLinksKeepsBundInv == BundInv /\ BundReOpenLinks => BundInv'
<1> SUFFICES ASSUME BundInv, BundReOpenLinks PROVE BundInv'
  OBVIOUS
<1> DEFINE d == BundOpenLinks(b)
<1>1. /\ b \in Bundles /\ Sound(conf, b, lost, {}) /\ b.failed = "none" /\ lost \in Nat
      /\ conf \in Confs /\ Names(conf)
  BY DEF BundInv, Good, BundReOpenLinks, Calm, Running
<1>2. b' = (IF d.dead THEN [d EXCEPT !.failed = "freed"] ELSE d) /\ Unchanged
  BY DEF BundReOpenLinks
<1>3. /\ d \in Bundles /\ d.dead = b.dead /\ d.failed = b.failed
      /\ ~ b.dead /\ Sound(conf, b, lost, {}) => Sound(conf, d, lost, {})
  BY <1>1, OpenLinksSound
<1> HIDE DEF d
<1>4. CASE d.dead
  <2> DEFINE u == [d EXCEPT !.failed = "freed"]
  <2>1. u \in Bundles /\ u.dead /\ u.failed = "freed"
    BY <1>3, <1>4 DEF Bundles
  <2> HIDE DEF u
  <2>2. Good(conf, u, lost)
    BY <2>1 DEF Good
  <2> QED
    BY <1>2, <1>4, <2>2 DEF BundInv, Unchanged, u
<1>5. CASE ~ d.dead
  BY <1>1, <1>2, <1>3, <1>5 DEF BundInv, Good, Unchanged
<1> QED
  BY <1>4, <1>5

LEMMA BundBmTimeoutKeepsBundInv == BundInv /\ BundBmTimeout => BundInv'
<1> SUFFICES ASSUME BundInv, BundBmTimeout PROVE BundInv'
  OBVIOUS
<1>1. /\ b \in Bundles /\ Sound(conf, b, lost, {}) /\ b.failed = "none" /\ lost \in Nat
      /\ conf \in Confs /\ Names(conf) /\ b.bmTimer /\ Unchanged
  BY DEF BundInv, Good, BundBmTimeout, Calm, Running
<1>2. CASE ~ b.dead /\ b' = BmOpens(b)
  <2> DEFINE free == {k \in Slots : b.links[k] = None /\ conf.linkst[k] # None /\ Candidates(b, k) # {}}
             u == BundCreateOpenLink(b, Least(free))
  <2>1. CASE free = {}
    BY <1>1, <1>2, <2>1 DEF BmOpens, BundInv, Good, Unchanged
  <2>2. CASE free # {}
    <3>1. b' = u
      BY <1>2, <2>2 DEF BmOpens
    <3>2. free \subseteq Slots /\ \A k \in free : b.links[k] = None
      OBVIOUS
    <3> HIDE DEF free
    <3>3. Least(free) \in Slots /\ b.links[Least(free)] = None
      BY <2>2, <3>2, SlotExtremes
    <3>4. Living(conf, b, lost, {})
      BY <1>1, <1>2 DEF Sound
    <3>5. u \in Bundles /\ Living(conf, u, lost, {}) /\ u.dead = b.dead /\ u.failed = b.failed
      BY <1>1, <3>3, <3>4, CreateOpenLinkSound
    <3> HIDE DEF u
    <3> QED
      BY <1>1, <1>2, <3>1, <3>5 DEF BundInv, Good, Sound, Unchanged
  <2> QED
    BY <2>1, <2>2
<1>3. CASE ~ b.dead /\ b' = BmCloses(b)
  <2>1. Living(conf, b, lost, {})
    BY <1>1, <1>3 DEF Sound
  <2>2. b.n_up # 0
    <3>1. b.n_up > 0
      BY <1>1, <2>1 DEF Living, Timed
    <3> QED
      BY <3>1
  <2>3. PICK x \in Links : x \in JoinedOf(b)
    BY <1>1, <2>1, <2>2, JoinedFinite DEF Living, JoinedOf
  <2>4. PICK k \in Slots : b.links[k] = x
    BY <2>1, <2>3 DEF Living, Upward, MembersOf, Member
  <2>5. k \in OpenSlots(b)
    BY <2>1, <2>3, <2>4, NoneIsNoLink DEF OpenSlots, Living, Upward
  <2> DEFINE g == Greatest(OpenSlots(b))
  <2>6. g \in OpenSlots(b)
    <3>1. OpenSlots(b) \subseteq Slots
      BY DEF OpenSlots
    <3> QED
      BY <2>5, <3>1, SlotExtremes
  <2>7. b' = MsgSend(b, "close", b.links[g])
    BY <1>3, <2>5 DEF BmCloses, BundCloseLink
  <2> HIDE DEF g
  <2>8. b.links[g] \in Links
    BY <1>1, <2>6 DEF OpenSlots, Bundles
  <2>9. [op |-> "close", to |-> b.links[g]] \in Messages
    BY <2>8 DEF Messages
  <2>10. Good(conf, MsgSend(b, "close", b.links[g]), lost)
    BY <1>1, <2>9, MsgGood
  <2> QED
    BY <1>1, <2>7, <2>10 DEF BundInv, Unchanged
<1>4. CASE b.dead /\ b' = [b EXCEPT !.failed = "freed"]
  <2>1. b' \in Bundles /\ b'.dead /\ b'.failed = "freed"
    BY <1>1, <1>4 DEF Bundles
  <2>2. Good(conf, b', lost)
    BY <2>1 DEF Good
  <2> QED
    BY <1>1, <2>2 DEF BundInv, Unchanged
<1> QED
  BY <1>2, <1>3, <1>4 DEF BundBmTimeout

LEMMA NextBundInv == BundInv /\ [Next]_vars => BundInv'
<1> SUFFICES ASSUME BundInv, [Next]_vars PROVE BundInv'
  OBVIOUS
<1>1. CASE UNCHANGED vars
  BY <1>1 DEF BundInv, vars
<1>2. CASE MsgEvent
  BY <1>2, MsgEventKeepsBundInv
<1>3. CASE BundOpen \/ BundClose
  BY <1>3, SendingKeepsBundInv
<1>4. CASE BundDestroy
  BY <1>4, BundDestroyKeepsBundInv
<1>5. CASE BundReOpenLinks
  BY <1>5, BundReOpenLinksKeepsBundInv
<1>6. CASE BundBmTimeout
  BY <1>6, BundBmTimeoutKeepsBundInv
<1>7. CASE \E n \in Ncps : NcpStart(n) \/ NcpFinish(n)
  BY <1>7, NcpKeepsBundInv
<1>8. CASE \E x \in Links : LinkOpen(x) \/ LinkClose(x) \/ Incoming(x) \/ BundJoin(x) \/ Leave(x) \/ LinkDown(x)
  BY <1>8, SendingKeepsBundInv, IncomingKeepsBundInv, BundJoinKeepsBundInv, LeavingKeepsBundInv
<1> QED
  BY <1>1, <1>2, <1>3, <1>4, <1>5, <1>6, <1>7, <1>8 DEF Next

----------------------------------------------------------------------------
(* What follows. *)

\* The inductive invariant: tables, counters, timers and messages of a bundle fit together.
THEOREM BundInvAlways == Spec => []BundInv
BY InitBundInv, NextBundInv, PTL DEF Spec

\* The state of a bundle is always of its type, whatever is dialled, joined, left or shut down.
THEOREM TypeCorrect == Spec => []TypeOK
<1>1. BundInv => TypeOK
  BY DEF BundInv, Good, Bundles, Confs, TypeOK
<1> QED
  BY <1>1, BundInvAlways, PTL

\* BundOpenLinks(), BundLeave(), BundDestroy() and BundBmTimeout() decide by counters and
\* timers that agree with the table of links.
THEOREM DecisionsAlwaysCurrent == Spec => []DecisionsAreCurrent
<1>1. BundInv => DecisionsAreCurrent
  <2> SUFFICES ASSUME BundInv, ~ b.dead PROVE DecisionsAreCurrent
    BY DEF DecisionsAreCurrent, CountersMatchLinks, TimersMatch
  <2>1. Living(conf, b, lost, {})
    BY DEF BundInv, Good, Sound
  <2>2. Joined = JoinedOf(b) /\ Members = MembersOf(b)
    BY DEF Joined, Members, JoinedOf, MembersOf
  <2> QED
    BY <2>1, <2>2 DEF DecisionsAreCurrent, CountersMatchLinks, TimersMatch, Living, Upward, Counts, Slotted,
       Apart, Timed
<1> QED
  BY <1>1, BundInvAlways, PTL

\* BundLeave() finds the link that leaves among the members, and BundBmTimeout() an open
\* link to close.
THEOREM AssertionsAlwaysHold == Spec => []AssertionsHold
<1>1. BundInv => AssertionsHold
  BY DEF BundInv, Good, AssertionsHold
<1> QED
  BY <1>1, BundInvAlways, PTL

\* An instance that is done leaves the slot it was dialled for.
THEOREM InstancesAlwaysVacate == Spec => []InstancesVacateSlots
<1>1. BundInv => InstancesVacateSlots
  <2> SUFFICES ASSUME BundInv, AtRest, NEW x \in MembersOf(b) \cap Instances
               PROVE  b.link[x].st \in {"open", "closing"}
    BY DEF InstancesVacateSlots, Members, MembersOf
  <2>1. b \in Bundles /\ Living(conf, b, lost, {}) /\ b.msgs = << >>
    BY DEF BundInv, Good, Sound, AtRest, Running
  <2>2. \A op : ~ Queued(b, op, x)
    BY <2>1 DEF Queued, ToSet
  <2>3. b.link[x].st \in LinkStates
    BY <2>1 DEF Bundles, MembersOf
  <2> QED
    BY <2>1, <2>2, <2>3 DEF Living, Slotted, Leaving, LinkStates
<1> QED
  BY <1>1, BundInvAlways, PTL

=============================================================================
