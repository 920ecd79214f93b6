---------------------------- MODULE ConsoleProofs ----------------------------
(***************************************************************************)
(* Proofs about references: every object is counted once by each of its    *)
(* holders, the tables and the pointers between links and bundles tell the *)
(* truth, and what breaks is the fault of a context that goes on with what *)
(* is dead, or of two bundles that have dialled one link; for any number   *)
(* of links, bundles, sessions and messages.                               *)
(***************************************************************************)
EXTENDS Console, FiniteSetTheorems, FunctionTheorems, TLAPS

Worlds ==
  [mem : [Mem -> Links \cup Bundles \cup {Freed}],
   gLinks : [LinkSlots -> LinkMem \cup {None}], gBundles : [BundSlots -> BundMem \cup {None}],
   ctx : [Contexts -> [lnk : LinkMem \cup {None}, bund : BundMem \cup {None}, priv : 0 .. 2]],
   msgs : Seq(Messages), gChildren : Nat, failed : {"none", "assert", "freed", "again", "slot"}]

\* The living links and bundles.
Ls(v) == {x \in LinkMem : v.mem[x] # Freed /\ ~ v.mem[x].dead}
Bs(v) == {b \in BundMem : v.mem[b] # Freed /\ ~ v.mem[b].dead}

\* An address has an object of its kind, or none.
Sorted(v) ==
  /\ \A x \in LinkMem : v.mem[x] \in Links \cup {Freed}
  /\ \A b \in BundMem : v.mem[b] \in Bundles \cup {Freed}

\* Each of the tables and the ids of the living are inverse to each other.
Tabled(v) ==
  /\ \A k \in LinkSlots : v.gLinks[k] # None => v.gLinks[k] \in Ls(v) /\ v.mem[v.gLinks[k]].id = k
  /\ \A x \in Ls(v) : v.gLinks[v.mem[x].id] = x
  /\ \A k \in BundSlots : v.gBundles[k] # None => v.gBundles[k] \in Bs(v) /\ v.mem[v.gBundles[k]].id = k
  /\ \A b \in Bs(v) : v.gBundles[v.mem[b].id] = b

\* A bundle that has been robbed may name any link, and count what it likes.
Married(v) ==
  /\ \A x \in Ls(v) :
       /\ v.mem[x].bund # None => v.mem[x].bund \in Bs(v) /\ v.mem[v.mem[x].bund].link = x
       /\ v.mem[x].joined => v.mem[x].lcp = "up" /\ (v.mem[x].bund # None \/ v.mem[x].cut)
       /\ v.mem[x].bund # None /\ v.mem[x].joined => v.mem[v.mem[x].bund].n_up >= 1
  /\ \A b \in Bs(v) : ~ v.mem[b].robbed =>
       /\ v.mem[b].link # None => v.mem[b].link \in Ls(v) /\ v.mem[v.mem[b].link].bund = b
       /\ v.mem[b].n_up = IF v.mem[b].link # None /\ v.mem[v.mem[b].link].joined THEN 1 ELSE 0

KinOf(v, k) == {y \in Ls(v) : v.mem[y].parent = k}
Born(v)     == {y \in Ls(v) : v.mem[y].parent # 0}

Related(v) ==
  /\ \A x \in Ls(v) :
       /\ v.mem[x].parent # 0 => v.mem[x].parent # v.mem[x].id /\ v.gLinks[v.mem[x].parent] # None
       /\ v.mem[x].children = Cardinality(KinOf(v, v.mem[x].id))
  /\ v.gChildren >= Cardinality(Born(v))

\* The dead have forgotten what they were.
Blank(v) ==
  /\ \A x \in LinkMem \ Ls(v) : v.mem[x] # Freed =>
       ~ v.mem[x].tmpl /\ ~ v.mem[x].busy
  /\ \A b \in BundMem \ Bs(v) : v.mem[b] # Freed => ~ v.mem[b].tmpl /\ v.mem[b].n_up = 0

Queued(v, x) == \E i \in 1 .. Len(v.msgs) : v.msgs[i].to = x
Dies(v, x)   == \E i \in 1 .. Len(v.msgs) : v.msgs[i] = [op |-> "shutdown", to |-> x]

\* Templates do nothing, nobody asks them to, and no slot names them.
Still(v) ==
  /\ \A x \in Ls(v) : v.mem[x].tmpl =>
       v.mem[x].lcp = "initial" /\ ~ v.mem[x].busy /\ v.mem[x].bund = None /\ ~ Queued(v, x)
  /\ \A b \in Bs(v) : /\ v.mem[b].tmpl => v.mem[b].link = None /\ ~ Queued(v, b)
                      /\ v.mem[b].link \in Ls(v) => ~ v.mem[v.mem[b].link].tmpl

\* A link that will be shut down is in no bundle, and does not come up before.
Shut(v, h) ==
  \A x \in Ls(v) : Dies(v, x) =>
    v.mem[x].die /\ ~ v.mem[x].joined /\ (~ h => v.mem[x].lcp = "initial" /\ ~ v.mem[x].busy)

Refs(v, x) == IF v.mem[x] = Freed THEN 0 ELSE v.mem[x].refs

Held(v, x) ==
  Cardinality({k \in LinkSlots : v.gLinks[k] = x}) + Cardinality({k \in BundSlots : v.gBundles[k] = x})
  + Cardinality({c \in Contexts : v.ctx[c].lnk = x}) + Cardinality({c \in Contexts : v.ctx[c].bund = x})
  + Cardinality({i \in 1 .. Len(v.msgs) : v.msgs[i].to = x})

\* z is counted once more: its message is being handled.
Counted(v, z) ==
  \A x \in Mem : /\ Refs(v, x) = Held(v, x) + (IF x = z THEN 1 ELSE 0)
                 /\ v.mem[x] # Freed => v.mem[x].refs >= 1

Sound(v, h, z) ==
  /\ v \in Worlds /\ v.failed = "none" /\ Sorted(v)
  /\ Tabled(v) /\ Married(v) /\ Related(v) /\ Blank(v) /\ Still(v) /\ Shut(v, h) /\ Counted(v, z)

ConInv ==
  /\ w \in Worlds
  /\ session \in [Sessions -> {"none", "authentic"}]
  /\ batch \in [who : Contexts \cup {None}, left : 0 .. MaxCommands]
  /\ batch.left > 0 => batch.who \in Contexts
  /\ handling \in BOOLEAN
  /\ w.failed = "none" => Sound(w, handling, None)
  /\ FailsOnlyOnTheDead

----------------------------------------------------------------------------
(* Counting. *)

\* One element more or less.
LEMMA CountChange ==
  ASSUME NEW S, IsFiniteSet(S), NEW P \in SUBSET S, NEW Q \in SUBSET S, NEW k \in S,
         \A j \in S \ {k} : j \in P <=> j \in Q
  PROVE  /\ Cardinality(P) \in Nat /\ Cardinality(Q) \in Nat
         /\ Cardinality(Q) + (IF k \in P THEN 1 ELSE 0) = Cardinality(P) + (IF k \in Q THEN 1 ELSE 0)
<1>1. IsFiniteSet(P) /\ IsFiniteSet(Q)
  BY FS_Subset, Zenon
<1>2. Cardinality(P) \in Nat /\ Cardinality(Q) \in Nat
  BY <1>1, FS_CardinalityType, Zenon
<1>3. P \ {k} = Q \ {k}
  OBVIOUS
<1>4. /\ Cardinality(P \ {k}) = IF k \in P THEN Cardinality(P) - 1 ELSE Cardinality(P)
      /\ Cardinality(Q \ {k}) = IF k \in Q THEN Cardinality(Q) - 1 ELSE Cardinality(Q)
  BY <1>1, FS_RemoveElement, Zenon
<1> QED
  BY <1>2, <1>3, <1>4

\* What one entry of a table or one member of a context adds to the holders of x.
One(y, x) == IF y = x THEN 1 ELSE 0

Count(S, f, x) == Cardinality({j \in S : f[j] = x})

LEMMA CountEntry ==
  ASSUME NEW S, IsFiniteSet(S), NEW f, NEW g, NEW k \in S, \A j \in S \ {k} : f[j] = g[j], NEW x
  PROVE  /\ Count(S, f, x) \in Nat /\ Count(S, g, x) \in Nat
         /\ Count(S, g, x) + One(f[k], x) = Count(S, f, x) + One(g[k], x)
<1> DEFINE P == {j \in S : f[j] = x}
           Q == {j \in S : g[j] = x}
<1>1. \A j \in S \ {k} : j \in P <=> j \in Q
  OBVIOUS
<1>2. (k \in P <=> f[k] = x) /\ (k \in Q <=> g[k] = x)
  OBVIOUS
<1>3. P \in SUBSET S /\ Q \in SUBSET S /\ Count(S, f, x) = Cardinality(P) /\ Count(S, g, x) = Cardinality(Q)
  BY DEF Count
<1> HIDE DEF P, Q
<1>4. /\ Cardinality(P) \in Nat /\ Cardinality(Q) \in Nat
      /\ Cardinality(Q) + (IF k \in P THEN 1 ELSE 0) = Cardinality(P) + (IF k \in Q THEN 1 ELSE 0)
  BY <1>1, <1>3, CountChange
<1>5. Cardinality(Q) + One(f[k], x) = Cardinality(P) + One(g[k], x)
  BY <1>2, <1>4 DEF One
<1> QED
  BY <1>3, <1>4, <1>5

\* What is counted is there.
LEMMA CountPositive ==
  ASSUME NEW S, IsFiniteSet(S), NEW P \in SUBSET S
  PROVE  Cardinality(P) \in Nat /\ (Cardinality(P) = 0 <=> P = {})
<1>1. IsFiniteSet(P)
  BY FS_Subset, Zenon
<1> QED
  BY <1>1, FS_CardinalityType, FS_EmptySet, Zenon

LEMMA Finite ==
  /\ IsFiniteSet(LinkSlots) /\ IsFiniteSet(BundSlots) /\ IsFiniteSet(Contexts)
  /\ \A n \in Nat : IsFiniteSet(1 .. n)
  /\ IsFiniteSet(LinkMem) /\ IsFiniteSet(BundMem)
  /\ LinkSlots \subseteq Nat \ {0} /\ BundSlots \subseteq Nat \ {0}
<1>1. \A n \in Nat : IsFiniteSet(1 .. n)
  <2> SUFFICES ASSUME NEW n \in Nat PROVE IsFiniteSet(1 .. n)
    OBVIOUS
  <2>1. 1 \in Int /\ n \in Int
    OBVIOUS
  <2> QED
    BY <2>1, FS_Interval, Zenon
<1>2. Cardinality(LinkMem) \in Nat /\ Cardinality(BundMem) \in Nat
  BY ConsoleAssumption, FS_CardinalityType, Zenon
<1>3. IsFiniteSet(LinkSlots) /\ IsFiniteSet(BundSlots)
  BY <1>1, <1>2 DEF LinkSlots, BundSlots
<1>4. IsFiniteSet(Contexts)
  <2>1. Contexts = Sessions \cup {Web}
    BY DEF Contexts
  <2> QED
    BY <2>1, ConsoleAssumption, FS_AddElement, Zenon
<1> QED
  BY <1>1, <1>2, <1>3, <1>4, ConsoleAssumption DEF LinkSlots, BundSlots

\* The parts of Held.
InLinks(v, x)  == Cardinality({k \in LinkSlots : v.gLinks[k] = x})
InBunds(v, x)  == Cardinality({k \in BundSlots : v.gBundles[k] = x})
AsLink(v, x)   == Cardinality({c \in Contexts : v.ctx[c].lnk = x})
AsBund(v, x)   == Cardinality({c \in Contexts : v.ctx[c].bund = x})
AsTarget(v, x) == Cardinality({i \in 1 .. Len(v.msgs) : v.msgs[i].to = x})

LEMMA HeldParts ==
  ASSUME NEW v \in Worlds, NEW x
  PROVE  /\ Held(v, x) = InLinks(v, x) + InBunds(v, x) + AsLink(v, x) + AsBund(v, x) + AsTarget(v, x)
         /\ InLinks(v, x) \in Nat /\ InBunds(v, x) \in Nat /\ AsLink(v, x) \in Nat
         /\ AsBund(v, x) \in Nat /\ AsTarget(v, x) \in Nat /\ Held(v, x) \in Nat
<1>1. Len(v.msgs) \in Nat
  BY DEF Worlds
<1>2. /\ InLinks(v, x) \in Nat /\ InBunds(v, x) \in Nat /\ AsLink(v, x) \in Nat
      /\ AsBund(v, x) \in Nat /\ AsTarget(v, x) \in Nat
  <2>1. InLinks(v, x) \in Nat
    BY Finite, CountPositive DEF InLinks
  <2>2. InBunds(v, x) \in Nat
    BY Finite, CountPositive DEF InBunds
  <2>3. AsLink(v, x) \in Nat /\ AsBund(v, x) \in Nat
    BY Finite, CountPositive DEF AsLink, AsBund
  <2>4. AsTarget(v, x) \in Nat
    BY <1>1, Finite, CountPositive DEF AsTarget
  <2> QED
    BY <2>1, <2>2, <2>3, <2>4
<1>3. Held(v, x) = InLinks(v, x) + InBunds(v, x) + AsLink(v, x) + AsBund(v, x) + AsTarget(v, x)
  BY DEF Held, InLinks, InBunds, AsLink, AsBund, AsTarget
<1> QED
  BY <1>2, <1>3

LEMMA HeldSum ==
  ASSUME NEW v \in Worlds, NEW x
  PROVE  InLinks(v, x) # 0 \/ InBunds(v, x) # 0 \/ AsLink(v, x) # 0 \/ AsBund(v, x) # 0
         \/ AsTarget(v, x) # 0 => Held(v, x) \in Nat \ {0}
<1> DEFINE a == InLinks(v, x)  d == InBunds(v, x)  e == AsLink(v, x)  f == AsBund(v, x)  g == AsTarget(v, x)
           h == Held(v, x)
<1>1. h = a + d + e + f + g /\ a \in Nat /\ d \in Nat /\ e \in Nat /\ f \in Nat /\ g \in Nat
  BY HeldParts
<1> HIDE DEF a, d, e, f, g, h
<1>2. a # 0 \/ d # 0 \/ e # 0 \/ f # 0 \/ g # 0 => h \in Nat \ {0}
  BY <1>1
<1> QED
  BY <1>2 DEF a, d, e, f, g, h

\* Who is in a table, in a context or has a message is held.
LEMMA HeldPositive ==
  ASSUME NEW v \in Worlds, NEW x,
         \/ \E k \in LinkSlots : v.gLinks[k] = x
         \/ \E k \in BundSlots : v.gBundles[k] = x
         \/ \E c \in Contexts : v.ctx[c].lnk = x \/ v.ctx[c].bund = x
         \/ Queued(v, x)
  PROVE  Held(v, x) \in Nat \ {0}
<1>1. Len(v.msgs) \in Nat
  BY DEF Worlds
<1>2. InLinks(v, x) # 0 \/ InBunds(v, x) # 0 \/ AsLink(v, x) # 0 \/ AsBund(v, x) # 0
      \/ AsTarget(v, x) # 0 => Held(v, x) \in Nat \ {0}
  BY HeldSum
<1>3. CASE \E k \in LinkSlots : v.gLinks[k] = x
  <2>1. {k \in LinkSlots : v.gLinks[k] = x} # {}
    BY <1>3
  <2>2. InLinks(v, x) # 0
    BY <2>1, Finite, CountPositive DEF InLinks
  <2> QED
    BY <2>2, <1>2
<1>4. CASE \E k \in BundSlots : v.gBundles[k] = x
  <2>1. {k \in BundSlots : v.gBundles[k] = x} # {}
    BY <1>4
  <2>2. InBunds(v, x) # 0
    BY <2>1, Finite, CountPositive DEF InBunds
  <2> QED
    BY <2>2, <1>2
<1>5. CASE \E c \in Contexts : v.ctx[c].lnk = x
  <2> DEFINE P == {c \in Contexts : v.ctx[c].lnk = x}
  <2>1. P # {} /\ P \in SUBSET Contexts /\ AsLink(v, x) = Cardinality(P)
    BY <1>5 DEF AsLink
  <2> HIDE DEF P
  <2>2. AsLink(v, x) # 0
    BY <2>1, Finite, CountPositive
  <2> QED
    BY <2>2, <1>2
<1>6. CASE \E c \in Contexts : v.ctx[c].bund = x
  <2> DEFINE P == {c \in Contexts : v.ctx[c].bund = x}
  <2>1. P # {} /\ P \in SUBSET Contexts /\ AsBund(v, x) = Cardinality(P)
    BY <1>6 DEF AsBund
  <2> HIDE DEF P
  <2>2. AsBund(v, x) # 0
    BY <2>1, Finite, CountPositive
  <2> QED
    BY <2>2, <1>2
<1>7. CASE Queued(v, x)
  <2>1. {i \in 1 .. Len(v.msgs) : v.msgs[i].to = x} # {}
    BY <1>7 DEF Queued
  <2>2. AsTarget(v, x) # 0
    BY <1>1, <2>1, Finite, CountPositive DEF AsTarget
  <2> QED
    BY <2>2, <1>2
<1> QED
  BY <1>3, <1>4, <1>5, <1>6, <1>7

----------------------------------------------------------------------------
(* References come and go, all else stays. *)

LinkLike(l, m) ==
  /\ l.dead = m.dead /\ l.id = m.id /\ l.tmpl = m.tmpl /\ l.stay = m.stay /\ l.die = m.die
  /\ l.lcp = m.lcp /\ l.busy = m.busy /\ l.bund = m.bund /\ l.joined = m.joined
  /\ l.parent = m.parent /\ l.children = m.children /\ l.cut = m.cut

BundLike(l, m) ==
  /\ l.dead = m.dead /\ l.id = m.id /\ l.tmpl = m.tmpl /\ l.stay = m.stay
  /\ l.link = m.link /\ l.n_up = m.n_up /\ l.robbed = m.robbed

\* Only the references and the memory of the dead have changed from v to u.
Recounted(v, u) ==
  /\ u \in Worlds /\ Sorted(u)
  /\ u.gLinks = v.gLinks /\ u.gBundles = v.gBundles /\ u.gChildren = v.gChildren
  /\ u.failed = v.failed
  /\ \A x \in LinkMem : /\ u.mem[x] = Freed => x \notin Ls(v)
                        /\ u.mem[x] # Freed => v.mem[x] # Freed /\ LinkLike(v.mem[x], u.mem[x])
  /\ \A b \in BundMem : /\ u.mem[b] = Freed => b \notin Bs(v)
                        /\ u.mem[b] # Freed => v.mem[b] # Freed /\ BundLike(v.mem[b], u.mem[b])

Positive(v) == \A x \in Mem : v.mem[x] # Freed => v.mem[x].refs >= 1

LEMMA MemKinds ==
  /\ \A x \in LinkMem : x \in Mem /\ x \notin BundMem /\ x # None
  /\ \A b \in BundMem : b \in Mem /\ b \notin LinkMem /\ b # None
  /\ Mem = LinkMem \cup BundMem /\ Freed \notin Links /\ Freed \notin Bundles
BY ConsoleAssumption DEF Mem

LEMMA SetRefs ==
  ASSUME NEW v \in Worlds, Sorted(v), NEW x \in Mem, v.mem[x] # Freed, NEW n \in Nat
  PROVE  LET u == [v EXCEPT !.mem[x].refs = n]
         IN  /\ Recounted(v, u) /\ u.ctx = v.ctx /\ u.msgs = v.msgs
             /\ u.mem[x] # Freed /\ u.mem[x].refs = n
             /\ \A y \in Mem \ {x} : u.mem[y] = v.mem[y]
<1> DEFINE r == [v.mem[x] EXCEPT !.refs = n]
           u == [v EXCEPT !.mem[x].refs = n]
<1>1. /\ x \in LinkMem => v.mem[x] \in Links
      /\ x \in BundMem => v.mem[x] \in Bundles
      /\ x \in LinkMem \/ x \in BundMem
  BY MemKinds DEF Sorted
<1>2. x \in LinkMem => r \in Links /\ LinkLike(v.mem[x], r) /\ r.refs = n
  BY <1>1 DEF Links, LinkLike
<1>3. x \in BundMem => r \in Bundles /\ BundLike(v.mem[x], r) /\ r.refs = n
  BY <1>1 DEF Bundles, BundLike
<1>4. /\ u.mem = [v.mem EXCEPT ![x] = r] /\ u.gLinks = v.gLinks /\ u.gBundles = v.gBundles
      /\ u.gChildren = v.gChildren /\ u.failed = v.failed /\ u.ctx = v.ctx /\ u.msgs = v.msgs
      /\ DOMAIN v.mem = Mem
  BY DEF Worlds
<1> HIDE DEF r
<1>5. r \in Links \cup Bundles /\ r # Freed /\ r.refs = n
  BY <1>1, <1>2, <1>3, MemKinds
<1>6. u \in Worlds
  BY <1>5 DEF Worlds, r
<1> HIDE DEF u
<1>7. u.mem[x] = r /\ \A y \in Mem \ {x} : u.mem[y] = v.mem[y]
  BY <1>4
<1>8. \A y \in LinkMem : /\ u.mem[y] \in Links \cup {Freed}
                         /\ u.mem[y] = Freed => y \notin Ls(v)
                         /\ u.mem[y] # Freed => v.mem[y] # Freed /\ LinkLike(v.mem[y], u.mem[y])
  <2> SUFFICES ASSUME NEW y \in LinkMem
               PROVE  /\ u.mem[y] \in Links \cup {Freed}
                      /\ u.mem[y] = Freed => y \notin Ls(v)
                      /\ u.mem[y] # Freed => v.mem[y] # Freed /\ LinkLike(v.mem[y], u.mem[y])
    OBVIOUS
  <2>1. CASE y = x
    BY <2>1, <1>2, <1>5, <1>7
  <2>2. CASE y # x
    BY <2>2, <1>7, MemKinds DEF Sorted, Ls, LinkLike
  <2> QED
    BY <2>1, <2>2
<1>9. \A y \in BundMem : /\ u.mem[y] \in Bundles \cup {Freed}
                         /\ u.mem[y] = Freed => y \notin Bs(v)
                         /\ u.mem[y] # Freed => v.mem[y] # Freed /\ BundLike(v.mem[y], u.mem[y])
  <2> SUFFICES ASSUME NEW y \in BundMem
               PROVE  /\ u.mem[y] \in Bundles \cup {Freed}
                      /\ u.mem[y] = Freed => y \notin Bs(v)
                      /\ u.mem[y] # Freed => v.mem[y] # Freed /\ BundLike(v.mem[y], u.mem[y])
    OBVIOUS
  <2>1. CASE y = x
    BY <2>1, <1>3, <1>5, <1>7
  <2>2. CASE y # x
    BY <2>2, <1>7, MemKinds DEF Sorted, Bs, BundLike
  <2> QED
    BY <2>1, <2>2
<1>10. Recounted(v, u)
  BY <1>4, <1>6, <1>8, <1>9 DEF Recounted, Sorted
<1> QED
  BY <1>4, <1>5, <1>7, <1>10 DEF u

LEMMA FreeRefs ==
  ASSUME NEW v \in Worlds, Sorted(v), NEW x \in Mem, x \notin Ls(v) \cup Bs(v)
  PROVE  LET u == [v EXCEPT !.mem[x] = Freed]
         IN  /\ Recounted(v, u) /\ u.ctx = v.ctx /\ u.msgs = v.msgs
             /\ u.mem[x] = Freed
             /\ \A y \in Mem \ {x} : u.mem[y] = v.mem[y]
<1> DEFINE u == [v EXCEPT !.mem[x] = Freed]
<1>1. /\ u.mem = [v.mem EXCEPT ![x] = Freed] /\ u.gLinks = v.gLinks /\ u.gBundles = v.gBundles
      /\ u.gChildren = v.gChildren /\ u.failed = v.failed /\ u.ctx = v.ctx /\ u.msgs = v.msgs
      /\ DOMAIN v.mem = Mem
  BY DEF Worlds
<1>2. u \in Worlds
  BY DEF Worlds
<1> HIDE DEF u
<1>3. u.mem[x] = Freed /\ \A y \in Mem \ {x} : u.mem[y] = v.mem[y]
  BY <1>1
<1>4. \A y \in LinkMem : /\ u.mem[y] \in Links \cup {Freed}
                         /\ u.mem[y] = Freed => y \notin Ls(v)
                         /\ u.mem[y] # Freed => v.mem[y] # Freed /\ LinkLike(v.mem[y], u.mem[y])
  BY <1>3, MemKinds DEF Sorted, Ls, LinkLike
<1>5. \A y \in BundMem : /\ u.mem[y] \in Bundles \cup {Freed}
                         /\ u.mem[y] = Freed => y \notin Bs(v)
                         /\ u.mem[y] # Freed => v.mem[y] # Freed /\ BundLike(v.mem[y], u.mem[y])
  BY <1>3, MemKinds DEF Sorted, Bs, BundLike
<1>6. Recounted(v, u)
  BY <1>1, <1>2, <1>4, <1>5 DEF Recounted, Sorted
<1> QED
  BY <1>1, <1>3, <1>6 DEF u

\* REF() of an object that is there.
LEMMA RefFields ==
  ASSUME NEW v \in Worlds, Sorted(v), NEW x \in Mem, v.mem[x] # Freed, Positive(v)
  PROVE  LET u == Ref(v, x)
         IN  /\ Recounted(v, u) /\ u.ctx = v.ctx /\ u.msgs = v.msgs /\ Positive(u)
             /\ \A y \in Mem : Refs(u, y) = Refs(v, y) + One(x, y)
<1> DEFINE n == v.mem[x].refs + 1
           u == [v EXCEPT !.mem[x].refs = n]
<1>1. \A y \in Mem : v.mem[y] # Freed => v.mem[y].refs \in Nat /\ v.mem[y].refs >= 1
  BY MemKinds DEF Sorted, Links, Bundles, Positive
<1>2. n \in Nat /\ n >= 1
  BY <1>1
<1>3. Ref(v, x) = u
  BY DEF Ref, Worlds
<1> HIDE DEF n
<1>4. /\ Recounted(v, u) /\ u.ctx = v.ctx /\ u.msgs = v.msgs
      /\ u.mem[x] # Freed /\ u.mem[x].refs = n
      /\ \A y \in Mem \ {x} : u.mem[y] = v.mem[y]
  BY <1>2, SetRefs
<1> HIDE DEF u
<1>5. Positive(u)
  BY <1>2, <1>4 DEF Positive
<1>6. \A y \in Mem : Refs(u, y) = Refs(v, y) + One(x, y)
  BY <1>1, <1>4 DEF Refs, One, n
<1> QED
  BY <1>3, <1>4, <1>5, <1>6

\* UNREF() of one that is there; of the living, others have references.
LEMMA UnrefFields ==
  ASSUME NEW v \in Worlds, Sorted(v), NEW x \in Mem, v.mem[x] # Freed, Positive(v),
         x \in Ls(v) \cup Bs(v) => v.mem[x].refs >= 2
  PROVE  LET u == Unref(v, x)
         IN  /\ Recounted(v, u) /\ u.ctx = v.ctx /\ u.msgs = v.msgs /\ Positive(u)
             /\ \A y \in Mem : Refs(u, y) = Refs(v, y) - One(x, y)
             /\ u.mem[x] = Freed <=> v.mem[x].refs = 1
             /\ \A y \in Mem \ {x} : u.mem[y] = v.mem[y]
<1> DEFINE n == v.mem[x].refs - 1
<1>1. \A y \in Mem : v.mem[y] # Freed => v.mem[y].refs \in Nat /\ v.mem[y].refs >= 1
  BY MemKinds DEF Sorted, Links, Bundles, Positive
<1>2. CASE v.mem[x].refs = 1
  <2> DEFINE u == [v EXCEPT !.mem[x] = Freed]
  <2>1. x \notin Ls(v) \cup Bs(v)
    BY <1>2
  <2>2. Unref(v, x) = u
    BY <1>2 DEF Unref
  <2>3. /\ Recounted(v, u) /\ u.ctx = v.ctx /\ u.msgs = v.msgs /\ u.mem[x] = Freed
        /\ \A y \in Mem \ {x} : u.mem[y] = v.mem[y]
    BY <2>1, FreeRefs
  <2> HIDE DEF u
  <2>4. Positive(u)
    BY <2>3 DEF Positive
  <2>5. \A y \in Mem : Refs(u, y) = Refs(v, y) - One(x, y)
    BY <1>1, <1>2, <2>3 DEF Refs, One
  <2> QED
    BY <1>2, <2>2, <2>3, <2>4, <2>5
<1>3. CASE v.mem[x].refs # 1
  <2> DEFINE u == [v EXCEPT !.mem[x].refs = n]
  <2>1. n \in Nat /\ n >= 1
    BY <1>1, <1>3
  <2>2. Unref(v, x) = u
    BY <1>3 DEF Unref, Worlds
  <2> HIDE DEF n
  <2>3. /\ Recounted(v, u) /\ u.ctx = v.ctx /\ u.msgs = v.msgs
        /\ u.mem[x] # Freed /\ u.mem[x].refs = n
        /\ \A y \in Mem \ {x} : u.mem[y] = v.mem[y]
    BY <2>1, SetRefs
  <2> HIDE DEF u
  <2>4. Positive(u)
    BY <2>1, <2>3 DEF Positive
  <2>5. \A y \in Mem : Refs(u, y) = Refs(v, y) - One(x, y)
    BY <1>1, <2>3 DEF Refs, One, n
  <2> QED
    BY <1>3, <2>2, <2>3, <2>4, <2>5
<1> QED
  BY <1>2, <1>3

LEMMA RecountedLiving ==
  ASSUME NEW v \in Worlds, NEW u, Sorted(v), Recounted(v, u)
  PROVE  /\ Ls(u) = Ls(v) /\ \A x \in Ls(v) : LinkLike(v.mem[x], u.mem[x]) /\ u.mem[x] \in Links /\ v.mem[x] \in Links
         /\ Bs(u) = Bs(v) /\ \A b \in Bs(v) : BundLike(v.mem[b], u.mem[b]) /\ u.mem[b] \in Bundles /\ v.mem[b] \in Bundles
<1>1. Ls(u) = Ls(v)
  BY DEF Ls, Recounted, LinkLike
<1>2. Bs(u) = Bs(v)
  BY DEF Bs, Recounted, BundLike
<1>3. \A x \in Ls(v) : LinkLike(v.mem[x], u.mem[x]) /\ u.mem[x] \in Links /\ v.mem[x] \in Links
  BY <1>1 DEF Ls, Recounted, Sorted
<1>4. \A b \in Bs(v) : BundLike(v.mem[b], u.mem[b]) /\ u.mem[b] \in Bundles /\ v.mem[b] \in Bundles
  BY <1>2 DEF Bs, Recounted, Sorted
<1> QED
  BY <1>1, <1>2, <1>3, <1>4

LEMMA RecountedTables ==
  ASSUME NEW v \in Worlds, NEW u, Sorted(v), Recounted(v, u),
         Tabled(v), Married(v), Related(v), Blank(v)
  PROVE  Tabled(u) /\ Married(u) /\ Related(u) /\ Blank(u)
<1>1. /\ Ls(u) = Ls(v) /\ \A x \in Ls(v) : LinkLike(v.mem[x], u.mem[x])
      /\ Bs(u) = Bs(v) /\ \A b \in Bs(v) : BundLike(v.mem[b], u.mem[b])
      /\ u.gLinks = v.gLinks /\ u.gBundles = v.gBundles /\ u.gChildren = v.gChildren
  <2>1. u.gLinks = v.gLinks /\ u.gBundles = v.gBundles /\ u.gChildren = v.gChildren
    BY DEF Recounted
  <2> QED
    BY <2>1, RecountedLiving
<1>2. Tabled(u)
  BY <1>1 DEF Tabled, LinkLike, BundLike
<1>3. Married(u)
  <2>1. ASSUME NEW x \in Ls(u)
        PROVE  /\ u.mem[x].bund # None => u.mem[x].bund \in Bs(u) /\ u.mem[u.mem[x].bund].link = x
               /\ u.mem[x].joined => u.mem[x].lcp = "up" /\ (u.mem[x].bund # None \/ u.mem[x].cut)
               /\ u.mem[x].bund # None /\ u.mem[x].joined => u.mem[u.mem[x].bund].n_up >= 1
    BY <1>1, <2>1 DEF Married, LinkLike, BundLike
  <2>2. ASSUME NEW b \in Bs(u), ~ u.mem[b].robbed
        PROVE  /\ u.mem[b].link # None => u.mem[b].link \in Ls(u) /\ u.mem[u.mem[b].link].bund = b
               /\ u.mem[b].n_up = IF u.mem[b].link # None /\ u.mem[u.mem[b].link].joined THEN 1 ELSE 0
    BY <1>1, <2>2, SMTT(30) DEF Married, LinkLike, BundLike
  <2> QED
    BY <2>1, <2>2 DEF Married
<1>4. Related(u)
  <2>1. \A k : KinOf(u, k) = KinOf(v, k)
    BY <1>1 DEF KinOf, LinkLike
  <2>2. Born(u) = Born(v)
    BY <1>1 DEF Born, LinkLike
  <2> QED
    BY <1>1, <2>1, <2>2 DEF Related, LinkLike
<1>5. Blank(u)
  BY <1>1 DEF Blank, Recounted, LinkLike, BundLike, Ls, Bs
<1> QED
  BY <1>2, <1>3, <1>4, <1>5

\* What may be asked of x without harm.
Asks(v, x) == (x \in Ls(v) \cup Bs(v) => ~ v.mem[x].tmpl)
Kills(v, x) ==
  x \in Ls(v) => v.mem[x].die /\ ~ v.mem[x].joined /\ v.mem[x].lcp = "initial" /\ ~ v.mem[x].busy

\* All of Sound but the count.
Fit(v, h) ==
  /\ v \in Worlds /\ v.failed = "none" /\ Sorted(v)
  /\ Tabled(v) /\ Married(v) /\ Related(v) /\ Blank(v) /\ Still(v) /\ Shut(v, h)

LEMMA RecountedFit ==
  ASSUME NEW v, NEW h, Fit(v, h), NEW u, Recounted(v, u),
         \A x \in Mem : Queued(u, x) => Queued(v, x) \/ Asks(v, x),
         \A x \in LinkMem : Dies(u, x) => Dies(v, x) \/ Kills(v, x)
  PROVE  Fit(u, h)
<1>1. /\ v \in Worlds /\ v.failed = "none" /\ Sorted(v) /\ Tabled(v) /\ Married(v) /\ Related(v)
      /\ Blank(v) /\ Still(v) /\ Shut(v, h)
  BY DEF Fit
<1>2. Tabled(u) /\ Married(u) /\ Related(u) /\ Blank(u)
  BY <1>1, RecountedTables
<1>3. u \in Worlds /\ u.failed = "none" /\ Sorted(u)
  BY <1>1 DEF Recounted
<1>4. /\ Ls(u) = Ls(v) /\ \A x \in Ls(v) : LinkLike(v.mem[x], u.mem[x])
      /\ Bs(u) = Bs(v) /\ \A b \in Bs(v) : BundLike(v.mem[b], u.mem[b])
  BY <1>1, RecountedLiving
<1>5. Still(u)
  BY <1>1, <1>4, MemKinds DEF Still, Asks, LinkLike, BundLike, Ls, Bs
<1>6. Shut(u, h)
  <2>1. Ls(v) \subseteq LinkMem
    BY DEF Ls
  <2> QED
    BY <1>1, <1>4, <2>1 DEF Shut, Kills, LinkLike
<1> QED
  BY <1>2, <1>3, <1>5, <1>6 DEF Fit

LEMMA RecountedSound ==
  ASSUME NEW v, NEW h, NEW z, Sound(v, h, z), NEW u, Recounted(v, u), NEW y, Counted(u, y),
         \A x \in Mem : Queued(u, x) => Queued(v, x) \/ Asks(v, x),
         \A x \in LinkMem : Dies(u, x) => Dies(v, x) \/ Kills(v, x)
  PROVE  Sound(u, h, y)
<1>1. Fit(v, h)
  BY DEF Sound, Fit
<1>2. Fit(u, h)
  BY <1>1, RecountedFit
<1> QED
  BY <1>2 DEF Sound, Fit

\* Who is referenced is there.
LEMMA SoundHeld ==
  ASSUME NEW v, NEW h, NEW z, Sound(v, h, z)
  PROVE  /\ v \in Worlds /\ Sorted(v) /\ Positive(v) /\ v.failed = "none"
         /\ \A x \in Mem : Held(v, x) \in Nat /\ Refs(v, x) = Held(v, x) + One(z, x)
         /\ \A x \in Mem : Held(v, x) # 0 \/ x = z => v.mem[x] # Freed
         /\ \A x \in Ls(v) \cup Bs(v) : Held(v, x) >= 1
<1>1. v \in Worlds /\ Sorted(v) /\ v.failed = "none" /\ Counted(v, z) /\ Tabled(v)
  BY DEF Sound
<1>2. \A x \in Mem : Held(v, x) \in Nat
  BY <1>1, HeldParts
<1>3. \A x \in Mem : Refs(v, x) = Held(v, x) + One(z, x)
  BY <1>1 DEF Counted, One
<1>4. Positive(v)
  BY <1>1 DEF Counted, Positive
<1>5. \A x \in Mem : Held(v, x) # 0 \/ x = z => v.mem[x] # Freed
  BY <1>2, <1>3 DEF Refs, One
<1>6. \A x \in Ls(v) \cup Bs(v) : Held(v, x) >= 1
  <2>1. ASSUME NEW x \in Ls(v) PROVE Held(v, x) >= 1
    <3>1. v.mem[x] \in Links
      BY <1>1 DEF Ls, Sorted
    <3>2. v.mem[x].id \in LinkSlots /\ v.gLinks[v.mem[x].id] = x
      BY <1>1, <3>1 DEF Tabled, Links
    <3> QED
      BY <1>1, <3>2, HeldPositive
  <2>2. ASSUME NEW x \in Bs(v) PROVE Held(v, x) >= 1
    <3>1. v.mem[x] \in Bundles
      BY <1>1 DEF Bs, Sorted
    <3>2. v.mem[x].id \in BundSlots /\ v.gBundles[v.mem[x].id] = x
      BY <1>1, <3>1 DEF Tabled, Bundles
    <3> QED
      BY <1>1, <3>2, HeldPositive
  <2> QED
    BY <2>1, <2>2
<1> QED
  BY <1>1, <1>2, <1>3, <1>4, <1>5, <1>6

LEMMA RecountedTrans ==
  ASSUME NEW v \in Worlds, Sorted(v), NEW d, Recounted(v, d), NEW u, Recounted(d, u)
  PROVE  Recounted(v, u)
<1>1. Ls(d) = Ls(v) /\ Bs(d) = Bs(v)
  BY RecountedLiving
<1>2. \A x \in LinkMem : /\ u.mem[x] = Freed => x \notin Ls(v)
                         /\ u.mem[x] # Freed => v.mem[x] # Freed /\ LinkLike(v.mem[x], u.mem[x])
  BY <1>1 DEF Recounted, LinkLike
<1>3. \A x \in BundMem : /\ u.mem[x] = Freed => x \notin Bs(v)
                         /\ u.mem[x] # Freed => v.mem[x] # Freed /\ BundLike(v.mem[x], u.mem[x])
  BY <1>1 DEF Recounted, BundLike
<1> QED
  BY <1>2, <1>3 DEF Recounted

LEMMA RecountedRefl ==
  ASSUME NEW v \in Worlds, Sorted(v)
  PROVE  Recounted(v, v)
BY DEF Recounted, LinkLike, BundLike, Ls, Bs

\* Only tables, contexts and messages hold.
LEMMA HeldSame ==
  ASSUME NEW v, NEW u, u.gLinks = v.gLinks, u.gBundles = v.gBundles, u.ctx = v.ctx, u.msgs = v.msgs, NEW x
  PROVE  Held(u, x) = Held(v, x) /\ (Queued(u, x) <=> Queued(v, x)) /\ (Dies(u, x) <=> Dies(v, x))
BY DEF Held, Queued, Dies

----------------------------------------------------------------------------
(* Messages. *)

LEMMA AppendHeld ==
  ASSUME NEW v \in Worlds, NEW u \in Worlds, NEW m \in Messages, u.msgs = Append(v.msgs, m),
         u.gLinks = v.gLinks, u.gBundles = v.gBundles, u.ctx = v.ctx, NEW x
  PROVE  /\ Held(u, x) = Held(v, x) + One(m.to, x)
         /\ Queued(u, x) <=> Queued(v, x) \/ m.to = x
         /\ Dies(u, x) <=> Dies(v, x) \/ m = [op |-> "shutdown", to |-> x]
<1> DEFINE n == Len(v.msgs)
           P == {i \in 1 .. n : v.msgs[i].to = x}
           Q == {i \in 1 .. n + 1 : u.msgs[i].to = x}
<1>1. /\ n \in Nat /\ Len(u.msgs) = n + 1 /\ u.msgs[n + 1] = m
      /\ \A i \in 1 .. n : u.msgs[i] = v.msgs[i] /\ i \in 1 .. n + 1
      /\ n + 1 \in 1 .. n + 1 /\ \A i \in (1 .. n + 1) \ {n + 1} : i \in 1 .. n
      /\ n + 1 \notin 1 .. n
  BY DEF Worlds
<1> HIDE DEF n
<1>2. P \in SUBSET (1 .. n + 1) /\ Q \in SUBSET (1 .. n + 1)
      /\ \A i \in (1 .. n + 1) \ {n + 1} : i \in P <=> i \in Q
  BY <1>1
<1>3. n + 1 \notin P /\ (n + 1 \in Q <=> m.to = x)
  BY <1>1
<1>4. AsTarget(v, x) = Cardinality(P) /\ AsTarget(u, x) = Cardinality(Q)
  BY <1>1 DEF AsTarget, n
<1>5. IsFiniteSet(1 .. n + 1)
  BY <1>1, Finite
<1> DEFINE k == n + 1
           S == 1 .. n + 1
<1>6. IsFiniteSet(S) /\ P \in SUBSET S /\ Q \in SUBSET S /\ k \in S /\ \A i \in S \ {k} : i \in P <=> i \in Q
  BY <1>1, <1>2, <1>5
<1> HIDE DEF P, Q, S, k
<1>7. Cardinality(Q) + (IF k \in P THEN 1 ELSE 0) = Cardinality(P) + (IF k \in Q THEN 1 ELSE 0)
      /\ Cardinality(P) \in Nat /\ Cardinality(Q) \in Nat
  BY <1>6, CountChange
<1>8. AsTarget(u, x) = AsTarget(v, x) + One(m.to, x)
  BY <1>3, <1>4, <1>7 DEF One, k
<1>9. /\ InLinks(u, x) = InLinks(v, x) /\ InBunds(u, x) = InBunds(v, x) /\ AsLink(u, x) = AsLink(v, x)
      /\ AsBund(u, x) = AsBund(v, x)
  BY DEF InLinks, InBunds, AsLink, AsBund
<1>10. One(m.to, x) \in Nat
  BY DEF One
<1>11. Held(u, x) = Held(v, x) + One(m.to, x)
  <2>1. /\ Held(u, x) = InLinks(u, x) + InBunds(u, x) + AsLink(u, x) + AsBund(u, x) + AsTarget(u, x)
        /\ Held(v, x) = InLinks(v, x) + InBunds(v, x) + AsLink(v, x) + AsBund(v, x) + AsTarget(v, x)
        /\ InLinks(v, x) \in Nat /\ InBunds(v, x) \in Nat /\ AsLink(v, x) \in Nat
        /\ AsBund(v, x) \in Nat /\ AsTarget(v, x) \in Nat
    BY HeldParts
  <2> QED
    BY <1>8, <1>9, <1>10, <2>1
<1>12. Queued(u, x) <=> Queued(v, x) \/ m.to = x
  BY <1>1 DEF Queued, n
<1>13. Dies(u, x) <=> Dies(v, x) \/ m = [op |-> "shutdown", to |-> x]
  BY <1>1 DEF Dies, n
<1> QED
  BY <1>11, <1>12, <1>13

\* A message to the living.
LEMMA MsgSendSound ==
  ASSUME NEW v, NEW h, NEW z, Sound(v, h, z), NEW op, NEW x \in Ls(v) \cup Bs(v), ~ v.mem[x].tmpl,
         [op |-> op, to |-> x] \in Messages, op = "shutdown" => Kills(v, x)
  PROVE  LET u == MsgSend(v, op, x)
         IN  Sound(u, h, z) /\ Recounted(v, u) /\ u.ctx = v.ctx
<1> DEFINE m == [op |-> op, to |-> x]
           d == [v EXCEPT !.msgs = Append(v.msgs, m)]
           u == Ref(d, x)
<1>1. /\ v \in Worlds /\ Sorted(v) /\ Positive(v) /\ v.failed = "none"
      /\ \A y \in Mem : Held(v, y) \in Nat /\ Refs(v, y) = Held(v, y) + One(z, y)
  BY SoundHeld
<1>2. x \in Mem /\ v.mem[x] # Freed /\ ~ v.mem[x].dead
  BY MemKinds DEF Ls, Bs
<1>3. MsgSend(v, op, x) = u
  BY <1>1, <1>2 DEF MsgSend, Gone, Worlds
<1>4. m \in Messages /\ m.to = x
  OBVIOUS
<1> HIDE DEF m
<1>5. /\ d.mem = v.mem /\ d.gLinks = v.gLinks /\ d.gBundles = v.gBundles /\ d.gChildren = v.gChildren
      /\ d.failed = v.failed /\ d.ctx = v.ctx /\ d.msgs = Append(v.msgs, m) /\ d \in Worlds
  <2> DEFINE q == Append(v.msgs, m)
  <2>1. q \in Seq(Messages)
    BY <1>1, <1>4 DEF Worlds
  <2> HIDE DEF q
  <2>2. [v EXCEPT !.msgs = q] \in Worlds
    BY <1>1, <2>1 DEF Worlds
  <2>3. /\ d.mem = v.mem /\ d.gLinks = v.gLinks /\ d.gBundles = v.gBundles /\ d.gChildren = v.gChildren
        /\ d.failed = v.failed /\ d.ctx = v.ctx /\ d.msgs = q
    BY <1>1 DEF Worlds, q
  <2> QED
    BY <2>2, <2>3 DEF q
<1> HIDE DEF d
<1>6. Sorted(d) /\ Positive(d) /\ \A y \in Mem : Refs(d, y) = Refs(v, y)
  BY <1>1, <1>5 DEF Sorted, Positive, Refs
<1>7. /\ Recounted(d, u) /\ u.ctx = d.ctx /\ u.msgs = d.msgs /\ Positive(u)
      /\ \A y \in Mem : Refs(u, y) = Refs(d, y) + One(x, y)
  BY <1>2, <1>5, <1>6, RefFields
<1> HIDE DEF u
<1>8. Recounted(v, u)
  BY <1>5, <1>7 DEF Recounted, Ls, Bs
<1>9. u \in Worlds /\ u.gLinks = v.gLinks /\ u.gBundles = v.gBundles /\ u.ctx = v.ctx /\ u.msgs = Append(v.msgs, m)
  BY <1>5, <1>7, <1>8 DEF Recounted
<1>10. \A y : /\ Held(u, y) = Held(v, y) + One(x, y)
              /\ Queued(u, y) <=> Queued(v, y) \/ x = y
              /\ Dies(u, y) <=> Dies(v, y) \/ m = [op |-> "shutdown", to |-> y]
  BY <1>1, <1>9, <1>4, AppendHeld
<1>11. Counted(u, z)
  <2> SUFFICES ASSUME NEW y \in Mem
               PROVE  /\ Refs(u, y) = Held(u, y) + (IF y = z THEN 1 ELSE 0)
                      /\ u.mem[y] # Freed => u.mem[y].refs >= 1
    BY DEF Counted
  <2>1. Refs(u, y) = Held(v, y) + One(z, y) + One(x, y) /\ Held(u, y) = Held(v, y) + One(x, y)
        /\ Held(v, y) \in Nat
    BY <1>1, <1>6, <1>7, <1>10
  <2> QED
    BY <1>7, <2>1 DEF One, Positive
<1>12. \A y \in Mem : Queued(u, y) => Queued(v, y) \/ Asks(v, y)
  BY <1>10 DEF Asks
<1>13. \A y \in LinkMem : Dies(u, y) => Dies(v, y) \/ Kills(v, y)
  BY <1>10 DEF m
<1>14. Sound(u, h, z)
  BY <1>8, <1>11, <1>12, <1>13, RecountedSound
<1> QED
  BY <1>3, <1>8, <1>9, <1>14

----------------------------------------------------------------------------
(* Contexts. *)

Slot(member) == IF member = "lnk" THEN LinkMem ELSE BundMem

LEMMA SetMember ==
  ASSUME NEW v \in Worlds, NEW c \in Contexts, NEW member \in {"lnk", "bund"}, NEW x \in Slot(member) \cup {None}
  PROVE  LET u == [v EXCEPT !.ctx[c][member] = x]
         IN  /\ u \in Worlds /\ u.mem = v.mem /\ u.gLinks = v.gLinks /\ u.gBundles = v.gBundles
             /\ u.gChildren = v.gChildren /\ u.failed = v.failed /\ u.msgs = v.msgs
             /\ v.ctx[c][member] \in Slot(member) \cup {None}
             /\ u.ctx[c][member] = x
             /\ \A k \in Contexts, i \in {"lnk", "bund"} : k # c \/ i # member => u.ctx[k][i] = v.ctx[k][i]
<1> DEFINE o == [v.ctx[c] EXCEPT ![member] = x]
           f == [v.ctx EXCEPT ![c] = o]
           u == [v EXCEPT !.ctx[c][member] = x]
           R == [lnk : LinkMem \cup {None}, bund : BundMem \cup {None}, priv : 0 .. 2]
<1>1. v.ctx \in [Contexts -> R] /\ v.ctx[c] \in R
  BY DEF Worlds
<1>2. /\ o \in R /\ o[member] = x /\ v.ctx[c][member] \in Slot(member) \cup {None}
      /\ \A i \in {"lnk", "bund"} : i # member => o[i] = v.ctx[c][i]
  BY <1>1 DEF Slot
<1> HIDE DEF R, o
<1>3. f \in [Contexts -> R] /\ f[c] = o /\ \A k \in Contexts : k # c => f[k] = v.ctx[k]
  BY <1>1, <1>2
<1>4. u = [v EXCEPT !.ctx = f]
  BY DEF Worlds, o
<1> HIDE DEF f
<1>5. [v EXCEPT !.ctx = f] \in Worlds
  BY <1>3 DEF Worlds, R
<1>6. /\ u.mem = v.mem /\ u.gLinks = v.gLinks /\ u.gBundles = v.gBundles
      /\ u.gChildren = v.gChildren /\ u.failed = v.failed /\ u.msgs = v.msgs /\ u.ctx = f
  BY <1>4 DEF Worlds
<1> HIDE DEF u
<1>7. u.ctx[c][member] = x
      /\ \A k \in Contexts, i \in {"lnk", "bund"} : k # c \/ i # member => u.ctx[k][i] = v.ctx[k][i]
  BY <1>2, <1>3, <1>6
<1>8. u \in Worlds
  BY <1>4, <1>5
<1> QED
  BY <1>2, <1>6, <1>7, <1>8 DEF u

LEMMA SetMemberHeld ==
  ASSUME NEW v \in Worlds, NEW c \in Contexts, NEW member \in {"lnk", "bund"}, NEW x \in Slot(member) \cup {None},
         NEW y \in Mem
  PROVE  LET u == [v EXCEPT !.ctx[c][member] = x]
         IN  Held(u, y) + One(v.ctx[c][member], y) = Held(v, y) + One(x, y)
<1> DEFINE u == [v EXCEPT !.ctx[c][member] = x]
           As(t, i) == Cardinality({k \in Contexts : t.ctx[k][i] = y})
<1>1. /\ u \in Worlds /\ u.gLinks = v.gLinks /\ u.gBundles = v.gBundles /\ u.msgs = v.msgs
      /\ u.ctx[c][member] = x
      /\ \A k \in Contexts, i \in {"lnk", "bund"} : k # c \/ i # member => u.ctx[k][i] = v.ctx[k][i]
  BY SetMember
<1> HIDE DEF u
<1>2. As(u, member) + One(v.ctx[c][member], y) = As(v, member) + One(x, y)
  <2> DEFINE f == [k \in Contexts |-> v.ctx[k][member]]
             g == [k \in Contexts |-> u.ctx[k][member]]
  <2>1. \A j \in Contexts \ {c} : f[j] = g[j]
    BY <1>1
  <2>2. f[c] = v.ctx[c][member] /\ g[c] = x
    BY <1>1
  <2>3. Count(Contexts, f, y) = As(v, member) /\ Count(Contexts, g, y) = As(u, member)
    <3>1. {j \in Contexts : f[j] = y} = {k \in Contexts : v.ctx[k][member] = y}
          /\ {j \in Contexts : g[j] = y} = {k \in Contexts : u.ctx[k][member] = y}
      OBVIOUS
    <3> QED
      BY <3>1 DEF Count
  <2> HIDE DEF f, g
  <2>4. IsFiniteSet(Contexts)
    BY Finite
  <2>5. Count(Contexts, g, y) + One(f[c], y) = Count(Contexts, f, y) + One(g[c], y)
    BY <2>1, <2>4, CountEntry
  <2> QED
    BY <2>2, <2>3, <2>5
<1>3. \A i \in {"lnk", "bund"} : i # member => As(u, i) = As(v, i)
  BY <1>1
<1>4. /\ AsLink(u, y) = As(u, "lnk") /\ AsLink(v, y) = As(v, "lnk")
      /\ AsBund(u, y) = As(u, "bund") /\ AsBund(v, y) = As(v, "bund")
  BY DEF AsLink, AsBund
<1>5. InLinks(u, y) = InLinks(v, y) /\ InBunds(u, y) = InBunds(v, y) /\ AsTarget(u, y) = AsTarget(v, y)
  BY <1>1 DEF InLinks, InBunds, AsTarget
<1> HIDE DEF As
<1>6. Held(u, y) + One(v.ctx[c][member], y) = Held(v, y) + One(x, y)
  <2>1. /\ Held(v, y) = InLinks(v, y) + InBunds(v, y) + AsLink(v, y) + AsBund(v, y) + AsTarget(v, y)
        /\ InLinks(v, y) \in Nat /\ InBunds(v, y) \in Nat /\ AsLink(v, y) \in Nat
        /\ AsBund(v, y) \in Nat /\ AsTarget(v, y) \in Nat
    BY HeldParts
  <2>2. /\ Held(u, y) = InLinks(u, y) + InBunds(u, y) + AsLink(u, y) + AsBund(u, y) + AsTarget(u, y)
        /\ AsLink(u, y) \in Nat /\ AsBund(u, y) \in Nat
    BY <1>1, HeldParts
  <2>3. \/ AsLink(u, y) + One(v.ctx[c][member], y) = AsLink(v, y) + One(x, y) /\ AsBund(u, y) = AsBund(v, y)
        \/ AsBund(u, y) + One(v.ctx[c][member], y) = AsBund(v, y) + One(x, y) /\ AsLink(u, y) = AsLink(v, y)
    <3>1. CASE member = "lnk"
      BY <1>2, <1>3, <1>4, <3>1
    <3>2. CASE member = "bund"
      BY <1>2, <1>3, <1>4, <3>2
    <3> QED
      BY <3>1, <3>2
  <2>4. One(v.ctx[c][member], y) \in Nat /\ One(x, y) \in Nat
    BY DEF One
  <2> DEFINE a == One(v.ctx[c][member], y)  e == One(x, y)
  <2> HIDE DEF a, e
  <2>5. /\ a \in Nat /\ e \in Nat
        /\ \/ AsLink(u, y) + a = AsLink(v, y) + e /\ AsBund(u, y) = AsBund(v, y)
           \/ AsBund(u, y) + a = AsBund(v, y) + e /\ AsLink(u, y) = AsLink(v, y)
    BY <2>3, <2>4 DEF a, e
  <2>6. Held(u, y) + a = Held(v, y) + e
    BY <1>5, <2>1, <2>2, <2>5
  <2> QED
    BY <2>6 DEF a, e
<1> QED
  BY <1>6 DEF u

\* The table holds the living; a context holds them once more.
LEMMA HeldTwice ==
  ASSUME NEW v, NEW h, NEW z, Sound(v, h, z), NEW c \in Contexts, NEW member \in {"lnk", "bund"},
         v.ctx[c][member] \in Ls(v) \cup Bs(v)
  PROVE  Held(v, v.ctx[c][member]) >= 2
<1> DEFINE x == v.ctx[c][member]
<1>1. v \in Worlds /\ Sorted(v) /\ Tabled(v)
  BY DEF Sound
<1> HIDE DEF x
<1>2. InLinks(v, x) # 0 \/ InBunds(v, x) # 0
  <2>1. CASE x \in Ls(v)
    <3>1. v.mem[x] \in Links
      BY <1>1, <2>1 DEF Ls, Sorted
    <3>2. v.mem[x].id \in LinkSlots /\ v.gLinks[v.mem[x].id] = x
      BY <1>1, <2>1, <3>1 DEF Tabled, Links
    <3>3. {k \in LinkSlots : v.gLinks[k] = x} # {}
      BY <3>2
    <3> QED
      BY <3>3, Finite, CountPositive DEF InLinks
  <2>2. CASE x \in Bs(v)
    <3>1. v.mem[x] \in Bundles
      BY <1>1, <2>2 DEF Bs, Sorted
    <3>2. v.mem[x].id \in BundSlots /\ v.gBundles[v.mem[x].id] = x
      BY <1>1, <2>2, <3>1 DEF Tabled, Bundles
    <3>3. {k \in BundSlots : v.gBundles[k] = x} # {}
      BY <3>2
    <3> QED
      BY <3>3, Finite, CountPositive DEF InBunds
  <2> QED
    BY <2>1, <2>2 DEF x
<1>3. AsLink(v, x) # 0 \/ AsBund(v, x) # 0
  <2>1. CASE member = "lnk"
    <3> DEFINE P == {k \in Contexts : v.ctx[k].lnk = x}
    <3>1. P # {} /\ P \in SUBSET Contexts /\ AsLink(v, x) = Cardinality(P)
      BY <2>1 DEF AsLink, x
    <3> HIDE DEF P
    <3> QED
      BY <3>1, Finite, CountPositive
  <2>2. CASE member = "bund"
    <3> DEFINE P == {k \in Contexts : v.ctx[k].bund = x}
    <3>1. P # {} /\ P \in SUBSET Contexts /\ AsBund(v, x) = Cardinality(P)
      BY <2>2 DEF AsBund, x
    <3> HIDE DEF P
    <3> QED
      BY <3>1, Finite, CountPositive
  <2> QED
    BY <2>1, <2>2
<1>4. Held(v, x) >= 2
  <2>1. /\ Held(v, x) = InLinks(v, x) + InBunds(v, x) + AsLink(v, x) + AsBund(v, x) + AsTarget(v, x)
        /\ InLinks(v, x) \in Nat /\ InBunds(v, x) \in Nat /\ AsLink(v, x) \in Nat
        /\ AsBund(v, x) \in Nat /\ AsTarget(v, x) \in Nat
    BY <1>1, HeldParts
  <2> QED
    BY <1>2, <1>3, <2>1
<1> QED
  BY <1>4 DEF x

\* RESETREF(): the context lets go of one object and holds another, if any.
Reset(v, u, h, z) == Sound(u, h, z) /\ Recounted(v, u) /\ u.msgs = v.msgs

\* The context goes on with an object that it held last, and that is free now.
Missed(u, c, member, x) ==
  u \in Worlds /\ u.failed = "freed" /\ u.mem[x] = Freed /\ u.ctx[c][member] = x

LEMMA ResetRefAny ==
  ASSUME NEW v, NEW h, NEW z, Sound(v, h, z), NEW c \in Contexts, NEW member \in {"lnk", "bund"},
         NEW x \in Slot(member) \cup {None}
  PROVE  LET u == ResetRef(v, c, member, x)
         IN  /\ Reset(v, u, h, z) \/ Missed(u, c, member, x)
             /\ x = None \/ x \in Ls(v) \cup Bs(v) => Reset(v, u, h, z)
<1> DEFINE old == v.ctx[c][member]
           d == IF old = None THEN v ELSE Unref(v, old)
           e == [d EXCEPT !.ctx[c][member] = x]
           u == IF x = None THEN e ELSE Ref(e, x)
<1>1. /\ v \in Worlds /\ Sorted(v) /\ Positive(v) /\ v.failed = "none"
      /\ \A y \in Mem : Held(v, y) \in Nat /\ Refs(v, y) = Held(v, y) + One(z, y)
  BY SoundHeld
<1>2. ResetRef(v, c, member, x) = u
  BY DEF ResetRef
<1>3. old \in Slot(member) \cup {None} /\ (old # None => old \in Mem)
  <2>1. old \in Slot(member) \cup {None}
    BY <1>1, SetMember
  <2> HIDE DEF old
  <2> QED
    BY <2>1, MemKinds DEF Slot
<1>4. \A y \in Mem : One(None, y) = 0
  BY MemKinds DEF One
<1>5. /\ Recounted(v, d) /\ Positive(d) /\ d.ctx = v.ctx /\ d.msgs = v.msgs
      /\ \A y \in Mem : Refs(d, y) = Refs(v, y) - One(old, y)
  <2>1. CASE old = None
    <3>1. \A y \in Mem : Refs(v, y) \in Int
      BY <1>1 DEF One
    <3> QED
      BY <2>1, <3>1, <1>1, <1>4, RecountedRefl
  <2>2. CASE old # None
    <3>1. Held(v, old) \in Nat \ {0}
      BY <1>1, HeldPositive
    <3>2. v.mem[old] # Freed
      BY <1>3, <2>2, <3>1, SoundHeld
    <3>3. old \in Ls(v) \cup Bs(v) => v.mem[old].refs >= 2
      <4> SUFFICES ASSUME old \in Ls(v) \cup Bs(v) PROVE v.mem[old].refs >= 2
        OBVIOUS
      <4>1. Held(v, old) >= 2
        BY HeldTwice
      <4>2. v.mem[old].refs = Held(v, old) + One(z, old)
        BY <1>1, <1>3, <2>2, <3>2 DEF Refs
      <4>3. One(z, old) \in Nat
        BY DEF One
      <4> QED
        BY <3>1, <4>1, <4>2, <4>3
    <3> HIDE DEF old
    <3> QED
      BY <1>1, <1>3, <2>2, <3>2, <3>3, UnrefFields
  <2> QED
    BY <2>1, <2>2
<1> HIDE DEF d
<1>6. /\ d \in Worlds /\ Sorted(d) /\ d.failed = "none"
      /\ d.gLinks = v.gLinks /\ d.gBundles = v.gBundles /\ d.gChildren = v.gChildren
  BY <1>1, <1>5 DEF Recounted
<1>6a. e.ctx[c][member] = x
  <2>1. d.ctx \in [Contexts -> [lnk : LinkMem \cup {None}, bund : BundMem \cup {None}, priv : 0 .. 2]]
    BY <1>6 DEF Worlds
  <2> QED
    BY <1>6, <2>1 DEF Worlds
<1>7. /\ e \in Worlds /\ e.mem = d.mem /\ e.gLinks = d.gLinks /\ e.gBundles = d.gBundles
      /\ e.gChildren = d.gChildren /\ e.failed = d.failed /\ e.msgs = d.msgs
  BY <1>6, SetMember
<1>8. \A y \in Mem : Held(e, y) + One(old, y) = Held(v, y) + One(x, y)
  <2>1. ASSUME NEW y \in Mem PROVE Held(e, y) + One(d.ctx[c][member], y) = Held(d, y) + One(x, y)
    BY <1>6, SetMemberHeld
  <2>2. \A y : Held(d, y) = Held(v, y)
    BY <1>5, <1>6, HeldSame
  <2> QED
    BY <1>5, <2>1, <2>2
<1> HIDE DEF e, old
<1>9. Recounted(v, e) /\ Sorted(e) /\ Positive(e) /\ \A y \in Mem : Refs(e, y) = Refs(d, y)
  BY <1>5, <1>7 DEF Recounted, Sorted, Positive, Refs
<1>9a. x \in Ls(v) \cup Bs(v) => e.mem[x] # Freed
  BY <1>9, MemKinds DEF Recounted, Ls, Bs
<1>9b. CASE x # None /\ e.mem[x] = Freed
  <2>1. u = [e EXCEPT !.failed = "freed"]
    BY <1>6, <1>7, <1>9b DEF Ref, Fail
  <2>2. u \in Worlds /\ u.failed = "freed" /\ u.mem = e.mem /\ u.ctx = e.ctx
    BY <1>7, <2>1 DEF Worlds
  <2>3. Missed(u, c, member, x)
    BY <1>6a, <1>9b, <2>2 DEF Missed
  <2>4. x \notin Ls(v) \cup Bs(v)
    BY <1>9a, <1>9b
  <2> HIDE DEF u
  <2> QED
    BY <1>2, <1>9b, <2>3, <2>4
<1>9c. SUFFICES ASSUME x = None \/ e.mem[x] # Freed PROVE Reset(v, u, h, z)
  BY <1>2, <1>9a, <1>9b
<1>10. /\ Recounted(v, u) /\ Positive(u) /\ u.msgs = v.msgs /\ u.ctx = e.ctx
       /\ \A y \in Mem : Refs(u, y) = Refs(e, y) + One(x, y)
  <2>1. CASE x = None
    <3>1. \A y \in Mem : Refs(e, y) + One(x, y) = Refs(e, y)
      <4>1. \A y \in Mem : Refs(e, y) \in Int
        BY <1>1, <1>5, <1>9 DEF One
      <4> QED
        BY <2>1, <1>4, <4>1
    <3> QED
      BY <2>1, <3>1, <1>5, <1>7, <1>9
  <2>2. CASE x # None
    <3>1. x \in Mem /\ e.mem[x] # Freed
      BY <2>2, <1>9c, MemKinds DEF Slot
    <3>2. /\ Recounted(e, Ref(e, x)) /\ Positive(Ref(e, x)) /\ Ref(e, x).msgs = e.msgs /\ Ref(e, x).ctx = e.ctx
          /\ \A y \in Mem : Refs(Ref(e, x), y) = Refs(e, y) + One(x, y)
      BY <1>7, <1>9, <3>1, RefFields
    <3>3. Recounted(v, Ref(e, x))
      BY <1>1, <1>9, <3>2, RecountedTrans
    <3> QED
      BY <2>2, <3>2, <3>3, <1>5, <1>7
  <2> QED
    BY <2>1, <2>2
<1> HIDE DEF u
<1>11. \A y : Held(u, y) = Held(e, y) /\ (Queued(u, y) <=> Queued(v, y)) /\ (Dies(u, y) <=> Dies(v, y))
  <2>1. u.gLinks = e.gLinks /\ u.gBundles = e.gBundles /\ u.ctx = e.ctx /\ u.msgs = e.msgs
    BY <1>5, <1>6, <1>7, <1>10 DEF Recounted
  <2>2. \A y : Held(u, y) = Held(e, y)
    BY <2>1, HeldSame
  <2> QED
    BY <1>10, <2>2 DEF Queued, Dies
<1>12. Counted(u, z)
  <2> SUFFICES ASSUME NEW y \in Mem
               PROVE  /\ Refs(u, y) = Held(u, y) + (IF y = z THEN 1 ELSE 0)
                      /\ u.mem[y] # Freed => u.mem[y].refs >= 1
    BY DEF Counted
  <2>1. /\ Held(v, y) \in Nat /\ Refs(v, y) = Held(v, y) + One(z, y)
        /\ Refs(d, y) = Refs(v, y) - One(old, y) /\ Refs(e, y) = Refs(d, y)
        /\ Refs(u, y) = Refs(e, y) + One(x, y)
    BY <1>1, <1>5, <1>9, <1>10
  <2>2. Held(e, y) + One(old, y) = Held(v, y) + One(x, y) /\ Held(e, y) \in Nat
    BY <1>7, <1>8, HeldParts
  <2>3. One(old, y) \in Nat /\ One(x, y) \in Nat /\ One(z, y) = IF y = z THEN 1 ELSE 0
    BY DEF One
  <2>4. Refs(u, y) = Held(u, y) + (IF y = z THEN 1 ELSE 0)
    BY <1>11, <2>1, <2>2, <2>3
  <2> QED
    BY <1>10, <2>4 DEF Positive
<1>13. Sound(u, h, z)
  BY <1>10, <1>11, <1>12, RecountedSound
<1> QED
  BY <1>10, <1>13 DEF Reset

LEMMA ResetRefSound ==
  ASSUME NEW v, NEW h, NEW z, Sound(v, h, z), NEW c \in Contexts, NEW member \in {"lnk", "bund"},
         NEW x \in Slot(member) \cup {None}, x # None => x \in Ls(v) \cup Bs(v)
  PROVE  LET u == ResetRef(v, c, member, x)
         IN  Sound(u, h, z) /\ Recounted(v, u) /\ u.msgs = v.msgs
BY ResetRefAny DEF Reset


LEMMA SoundLiving ==
  ASSUME NEW v, NEW h, NEW z, Sound(v, h, z), NEW u, Recounted(v, u)
  PROVE  /\ Ls(u) = Ls(v) /\ \A x \in Ls(v) : LinkLike(v.mem[x], u.mem[x]) /\ u.mem[x] \in Links /\ v.mem[x] \in Links
         /\ Bs(u) = Bs(v) /\ \A b \in Bs(v) : BundLike(v.mem[b], u.mem[b]) /\ u.mem[b] \in Bundles /\ v.mem[b] \in Bundles
         /\ u.gLinks = v.gLinks /\ u.gBundles = v.gBundles
BY RecountedLiving DEF Sound, Recounted

LEMMA ChooseSound ==
  ASSUME NEW v, NEW h, NEW z, Sound(v, h, z), NEW c \in Contexts, NEW l \in Ls(v) \cup {None}, NEW b \in Bs(v) \cup {None}
  PROVE  LET u == Choose(v, c, l, b)
         IN  Sound(u, h, z) /\ Recounted(v, u) /\ u.msgs = v.msgs
<1> DEFINE d == ResetRef(v, c, "lnk", l)
           u == ResetRef(d, c, "bund", b)
<1>1. Ls(v) \subseteq LinkMem /\ Bs(v) \subseteq BundMem /\ v \in Worlds /\ Sorted(v)
  BY DEF Ls, Bs, Sound
<1>2. Sound(d, h, z) /\ Recounted(v, d) /\ d.msgs = v.msgs
  <2>1. l \in Slot("lnk") \cup {None} /\ (l # None => l \in Ls(v) \cup Bs(v)) /\ "lnk" \in {"lnk", "bund"}
    BY <1>1 DEF Slot
  <2> QED
    BY <2>1, ResetRefSound
<1> HIDE DEF d
<1>3. b \in Slot("bund") \cup {None} /\ (b # None => b \in Ls(d) \cup Bs(d))
  <2>1. b # None => b \in Ls(d) \cup Bs(d)
    BY <1>2, SoundLiving
  <2>2. b \in Slot("bund") \cup {None}
    BY <1>1 DEF Slot
  <2> QED
    BY <2>1, <2>2
<1>4. Sound(u, h, z) /\ Recounted(d, u) /\ u.msgs = d.msgs
  BY <1>2, <1>3, ResetRefSound
<1>5. Recounted(v, u)
  BY <1>1, <1>2, <1>4, RecountedTrans
<1> QED
  BY <1>2, <1>4, <1>5 DEF Choose, d

\* The end of the handling of a message.
LEMMA UnrefSound ==
  ASSUME NEW v, NEW h, NEW z \in Mem, Sound(v, h, z)
  PROVE  LET u == Unref(v, z)
         IN  Sound(u, h, None) /\ Recounted(v, u) /\ u.msgs = v.msgs
<1> DEFINE u == Unref(v, z)
<1>1. /\ v \in Worlds /\ Sorted(v) /\ Positive(v) /\ v.failed = "none" /\ v.mem[z] # Freed
      /\ \A y \in Mem : Held(v, y) \in Nat /\ Refs(v, y) = Held(v, y) + One(z, y)
  BY SoundHeld
<1>2. z \in Ls(v) \cup Bs(v) => v.mem[z].refs >= 2
  <2>1. Held(v, z) \in Nat /\ (z \in Ls(v) \cup Bs(v) => Held(v, z) >= 1)
    BY SoundHeld
  <2> QED
    BY <1>1, <2>1 DEF Refs, One
<1>3. /\ Recounted(v, u) /\ u.ctx = v.ctx /\ u.msgs = v.msgs /\ Positive(u)
      /\ \A y \in Mem : Refs(u, y) = Refs(v, y) - One(z, y)
  BY <1>1, <1>2, UnrefFields
<1> HIDE DEF u
<1>4. \A y : Held(u, y) = Held(v, y) /\ (Queued(u, y) <=> Queued(v, y)) /\ (Dies(u, y) <=> Dies(v, y))
  <2>1. u.gLinks = v.gLinks /\ u.gBundles = v.gBundles
    BY <1>3 DEF Recounted
  <2> QED
    BY <1>3, <2>1, HeldSame
<1>5. Counted(u, None)
  <2> SUFFICES ASSUME NEW y \in Mem
               PROVE  /\ Refs(u, y) = Held(u, y) + (IF y = None THEN 1 ELSE 0)
                      /\ u.mem[y] # Freed => u.mem[y].refs >= 1
    BY DEF Counted
  <2>1. Held(v, y) \in Nat /\ Refs(v, y) = Held(v, y) + One(z, y) /\ Refs(u, y) = Refs(v, y) - One(z, y)
        /\ Held(u, y) = Held(v, y) /\ One(z, y) \in Nat
    BY <1>1, <1>3, <1>4 DEF One
  <2>2. y # None
    BY MemKinds
  <2> QED
    BY <1>3, <2>1, <2>2 DEF Positive
<1>6. Sound(u, h, None)
  BY <1>3, <1>4, <1>5, RecountedSound
<1> QED
  BY <1>3, <1>6 DEF u

----------------------------------------------------------------------------
(* Changes of one link or of one bundle. *)

\* Only the object at x is another.
Touched(v, u, x) ==
  /\ u \in Worlds /\ Sorted(u)
  /\ u.gLinks = v.gLinks /\ u.gBundles = v.gBundles /\ u.gChildren = v.gChildren
  /\ u.failed = v.failed /\ u.ctx = v.ctx /\ u.msgs = v.msgs
  /\ \A y \in Mem \ {x} : u.mem[y] = v.mem[y]

\* Memory with another object at x.
Put(v, x, o) == [v EXCEPT !.mem = [v.mem EXCEPT ![x] = o]]

LEMMA PutTouches ==
  ASSUME NEW v \in Worlds, Sorted(v), NEW x \in Mem,
         NEW o \in IF x \in LinkMem THEN Links ELSE Bundles
  PROVE  Touched(v, Put(v, x, o), x) /\ Put(v, x, o).mem[x] = o
<1> DEFINE f == [v.mem EXCEPT ![x] = o]
           u == [v EXCEPT !.mem = f]
<1>1. o \in Links \cup Bundles /\ v.mem \in [Mem -> Links \cup Bundles \cup {Freed}]
  BY DEF Worlds
<1>2. f \in [Mem -> Links \cup Bundles \cup {Freed}] /\ f[x] = o /\ \A y \in Mem \ {x} : f[y] = v.mem[y]
  BY <1>1
<1>3. Put(v, x, o) = u
  BY DEF Put
<1> HIDE DEF f
<1>4. u \in Worlds
  BY <1>2 DEF Worlds
<1>5. /\ u.mem = f /\ u.gLinks = v.gLinks /\ u.gBundles = v.gBundles
      /\ u.gChildren = v.gChildren /\ u.failed = v.failed /\ u.msgs = v.msgs /\ u.ctx = v.ctx
  BY DEF Worlds
<1> HIDE DEF u
<1>6. Sorted(u)
  BY <1>2, <1>5, MemKinds DEF Sorted
<1> QED
  BY <1>2, <1>3, <1>4, <1>5, <1>6 DEF Touched

\* The tables stay right when what is live and its indices do.
LEMMA TabledIsSame ==
  ASSUME NEW v, NEW u, Tabled(v), Ls(u) = Ls(v), Bs(u) = Bs(v),
         u.gLinks = v.gLinks, u.gBundles = v.gBundles,
         \A y \in Ls(v) : u.mem[y].id = v.mem[y].id,
         \A y \in Bs(v) : u.mem[y].id = v.mem[y].id
  PROVE  Tabled(u)
<1>1. /\ \A k \in LinkSlots : u.gLinks[k] # None => u.gLinks[k] \in Ls(u) /\ u.mem[u.gLinks[k]].id = k
      /\ \A y \in Ls(u) : u.gLinks[u.mem[y].id] = y
  <2>1. /\ \A k \in LinkSlots : v.gLinks[k] # None => v.gLinks[k] \in Ls(v) /\ v.mem[v.gLinks[k]].id = k
        /\ \A y \in Ls(v) : v.gLinks[v.mem[y].id] = y
    BY DEF Tabled
  <2>2. ASSUME NEW k \in LinkSlots, u.gLinks[k] # None
        PROVE  u.gLinks[k] \in Ls(u) /\ u.mem[u.gLinks[k]].id = k
    BY ONLY <2>1, <2>2, Ls(u) = Ls(v), u.gLinks = v.gLinks, \A y \in Ls(v) : u.mem[y].id = v.mem[y].id
  <2>3. ASSUME NEW y \in Ls(u) PROVE u.gLinks[u.mem[y].id] = y
    BY ONLY <2>1, <2>3, Ls(u) = Ls(v), u.gLinks = v.gLinks, \A x \in Ls(v) : u.mem[x].id = v.mem[x].id
  <2> QED
    BY <2>2, <2>3
<1>2. /\ \A k \in BundSlots : u.gBundles[k] # None => u.gBundles[k] \in Bs(u) /\ u.mem[u.gBundles[k]].id = k
      /\ \A y \in Bs(u) : u.gBundles[u.mem[y].id] = y
  <2>1. /\ \A k \in BundSlots : v.gBundles[k] # None => v.gBundles[k] \in Bs(v) /\ v.mem[v.gBundles[k]].id = k
        /\ \A y \in Bs(v) : v.gBundles[v.mem[y].id] = y
    BY DEF Tabled
  <2>2. ASSUME NEW k \in BundSlots, u.gBundles[k] # None
        PROVE  u.gBundles[k] \in Bs(u) /\ u.mem[u.gBundles[k]].id = k
    BY ONLY <2>1, <2>2, Bs(u) = Bs(v), u.gBundles = v.gBundles, \A y \in Bs(v) : u.mem[y].id = v.mem[y].id
  <2>3. ASSUME NEW y \in Bs(u) PROVE u.gBundles[u.mem[y].id] = y
    BY ONLY <2>1, <2>3, Bs(u) = Bs(v), u.gBundles = v.gBundles, \A x \in Bs(v) : u.mem[x].id = v.mem[x].id
  <2> QED
    BY <2>2, <2>3
<1> QED
  BY <1>1, <1>2 DEF Tabled

\* The pairs stay right when both ends of each keep what says so.
LEMMA MarriedIsSame ==
  ASSUME NEW v, NEW u, Married(v), Ls(u) = Ls(v), Bs(u) = Bs(v),
         \A y \in Ls(v) : /\ u.mem[y].bund = v.mem[y].bund /\ u.mem[y].joined = v.mem[y].joined
                          /\ u.mem[y].joined => u.mem[y].lcp = "up"
                          /\ v.mem[y].cut => u.mem[y].cut,
         \A y \in Bs(v) : /\ u.mem[y].link = v.mem[y].link /\ u.mem[y].n_up = v.mem[y].n_up
                          /\ v.mem[y].robbed => u.mem[y].robbed
  PROVE  Married(u)
<1>1. ASSUME NEW y \in Ls(v)
      PROVE  /\ u.mem[y].bund # None => u.mem[y].bund \in Bs(v) /\ u.mem[u.mem[y].bund].link = y
             /\ u.mem[y].joined => u.mem[y].lcp = "up" /\ (u.mem[y].bund # None \/ u.mem[y].cut)
             /\ u.mem[y].bund # None /\ u.mem[y].joined => u.mem[u.mem[y].bund].n_up >= 1
  <2>1. v.mem[y].bund # None => v.mem[y].bund \in Bs(v) /\ v.mem[v.mem[y].bund].link = y
    BY <1>1 DEF Married
  <2>2. /\ v.mem[y].joined => v.mem[y].bund # None \/ v.mem[y].cut
        /\ v.mem[y].bund # None /\ v.mem[y].joined => v.mem[v.mem[y].bund].n_up >= 1
    BY <1>1 DEF Married
  <2>3. /\ u.mem[y].bund = v.mem[y].bund /\ u.mem[y].joined = v.mem[y].joined /\ (v.mem[y].cut => u.mem[y].cut)
        /\ u.mem[y].joined => u.mem[y].lcp = "up"
    BY <1>1
  <2>4. v.mem[y].bund # None =>
          u.mem[v.mem[y].bund].link = y /\ u.mem[v.mem[y].bund].n_up = v.mem[v.mem[y].bund].n_up
    BY <2>1
  <2> QED
    BY ONLY <2>1, <2>2, <2>3, <2>4
<1>2. ASSUME NEW y \in Bs(v), ~ u.mem[y].robbed
      PROVE  /\ u.mem[y].link # None => u.mem[y].link \in Ls(v) /\ u.mem[u.mem[y].link].bund = y
             /\ u.mem[y].n_up = IF u.mem[y].link # None /\ u.mem[u.mem[y].link].joined THEN 1 ELSE 0
  <2>1. /\ v.mem[y].link # None => v.mem[y].link \in Ls(v) /\ v.mem[v.mem[y].link].bund = y
        /\ v.mem[y].n_up = IF v.mem[y].link # None /\ v.mem[v.mem[y].link].joined THEN 1 ELSE 0
    BY <1>2 DEF Married
  <2>2. u.mem[y].link = v.mem[y].link /\ u.mem[y].n_up = v.mem[y].n_up
    BY <1>2
  <2>3. v.mem[y].link # None => u.mem[v.mem[y].link].bund = v.mem[v.mem[y].link].bund
    BY <2>1
  <2>4. v.mem[y].link # None => u.mem[v.mem[y].link].joined = v.mem[v.mem[y].link].joined
    BY <2>1
  <2> QED
    BY ONLY <2>1, <2>2, <2>3, <2>4
<1> QED
  BY <1>1, <1>2 DEF Married

\* The kinship stays right when indices, parents and counts do.
LEMMA RelatedIsSame ==
  ASSUME NEW v, NEW u, Related(v), Ls(u) = Ls(v), u.gLinks = v.gLinks, u.gChildren = v.gChildren,
         \A y \in Ls(v) : /\ u.mem[y].id = v.mem[y].id /\ u.mem[y].parent = v.mem[y].parent
                          /\ u.mem[y].children = v.mem[y].children
  PROVE  Related(u)
<1>1. \A k : KinOf(u, k) = KinOf(v, k)
  BY DEF KinOf
<1>2. Born(u) = Born(v)
  BY DEF Born
<1>3. ASSUME NEW y \in Ls(v)
      PROVE  /\ u.mem[y].parent # 0 => u.mem[y].parent # u.mem[y].id /\ u.gLinks[u.mem[y].parent] # None
             /\ u.mem[y].children = Cardinality(KinOf(u, u.mem[y].id))
  <2>1. /\ v.mem[y].parent # 0 => v.mem[y].parent # v.mem[y].id /\ v.gLinks[v.mem[y].parent] # None
        /\ v.mem[y].children = Cardinality(KinOf(v, v.mem[y].id))
    BY <1>3 DEF Related
  <2>2. u.mem[y].id = v.mem[y].id /\ u.mem[y].parent = v.mem[y].parent /\ u.mem[y].children = v.mem[y].children
    BY <1>3
  <2>3. KinOf(u, v.mem[y].id) = KinOf(v, v.mem[y].id)
    BY <1>1
  <2>4. u.gLinks = v.gLinks
    OBVIOUS
  <2> QED
    BY ONLY <2>1, <2>2, <2>3, <2>4
<1>4. u.gChildren >= Cardinality(Born(u))
  BY <1>2 DEF Related
<1> QED
  BY <1>3, <1>4 DEF Related

\* LCP, the device or a flag of a living link.
LEMMA LinkSound ==
  ASSUME NEW v, NEW h, NEW z, Sound(v, h, z), NEW x \in Ls(v), NEW u, Touched(v, u, x),
         NEW l, l = v.mem[x], NEW m, m = u.mem[x], m \in Links,
         m.refs = l.refs, m.dead = l.dead, m.id = l.id, m.bund = l.bund, m.joined = l.joined,
         m.parent = l.parent, m.children = l.children, l.cut => m.cut,
         m.joined => m.lcp = "up",
         m.tmpl => m.lcp = "initial" /\ ~ m.busy /\ l.tmpl,
         Dies(v, x) => m.die /\ (h \/ (m.lcp = "initial" /\ ~ m.busy))
  PROVE  /\ Sound(u, h, z) /\ Ls(u) = Ls(v) /\ Bs(u) = Bs(v)
<1>1. /\ v \in Worlds /\ v.failed = "none" /\ Sorted(v) /\ Tabled(v) /\ Married(v) /\ Related(v)
      /\ Blank(v) /\ Still(v) /\ Shut(v, h) /\ Counted(v, z)
  BY DEF Sound
<1>2. /\ u \in Worlds /\ u.failed = "none" /\ Sorted(u)
      /\ u.gLinks = v.gLinks /\ u.gBundles = v.gBundles /\ u.gChildren = v.gChildren
      /\ u.ctx = v.ctx /\ u.msgs = v.msgs
      /\ \A y \in LinkMem \ {x} : u.mem[y] = v.mem[y]
      /\ \A b \in BundMem : u.mem[b] = v.mem[b]
      /\ \A y \in Mem \ {x} : u.mem[y] = v.mem[y]
  BY <1>1, MemKinds DEF Touched, Ls
<1>3. x \in LinkMem /\ l \in Links /\ l # Freed /\ ~ l.dead /\ m # Freed /\ ~ m.dead
  BY <1>1, MemKinds DEF Ls, Sorted
<1>4. Ls(u) = Ls(v) /\ Bs(u) = Bs(v)
  <2>1. Ls(u) = Ls(v)
    BY <1>2, <1>3 DEF Ls
  <2>2. Bs(u) = Bs(v)
    BY <1>2 DEF Bs
  <2> QED
    BY <2>1, <2>2
<1>5. /\ \A y \in Ls(v) : /\ u.mem[y].id = v.mem[y].id /\ u.mem[y].bund = v.mem[y].bund
                          /\ u.mem[y].joined = v.mem[y].joined /\ u.mem[y].parent = v.mem[y].parent
                          /\ u.mem[y].children = v.mem[y].children /\ (v.mem[y].cut => u.mem[y].cut)
                          /\ u.mem[y].tmpl => v.mem[y].tmpl
      /\ \A b \in Bs(v) : u.mem[b] = v.mem[b]
  BY <1>2 DEF Ls, Bs
<1>6. Tabled(u)
  BY <1>1, <1>2, <1>4, <1>5, TabledIsSame
<1>7. Married(u)
  <2>1. ASSUME NEW y \in Ls(v), u.mem[y].joined PROVE u.mem[y].lcp = "up"
    <3>1. CASE y = x
      BY <2>1, <3>1
    <3>2. CASE y # x
      <4>1. u.mem[y] = v.mem[y]
        BY <1>2, <2>1, <3>2 DEF Ls
      <4>2. v.mem[y].joined => v.mem[y].lcp = "up"
        BY <1>1, <2>1 DEF Married
      <4> QED
        BY ONLY <2>1, <4>1, <4>2
    <3> QED
      BY <3>1, <3>2
  <2> QED
    BY <1>1, <1>4, <1>5, <2>1, MarriedIsSame
<1>8. Related(u)
  BY <1>1, <1>2, <1>4, <1>5, RelatedIsSame
<1>9. Blank(u)
  BY <1>1, <1>2, <1>3, <1>4 DEF Blank
<1>10. \A y : Held(u, y) = Held(v, y) /\ (Queued(u, y) <=> Queued(v, y)) /\ (Dies(u, y) <=> Dies(v, y))
  BY <1>2, HeldSame
<1>11. Still(u)
  <2>1. \A y \in Ls(u) : u.mem[y].tmpl =>
          u.mem[y].lcp = "initial" /\ ~ u.mem[y].busy /\ u.mem[y].bund = None /\ ~ Queued(u, y)
    <3> SUFFICES ASSUME NEW y \in Ls(v), u.mem[y].tmpl
                 PROVE  u.mem[y].lcp = "initial" /\ ~ u.mem[y].busy /\ u.mem[y].bund = None /\ ~ Queued(u, y)
      BY <1>4
    <3>1. CASE y = x
      BY <1>1, <1>5, <1>10, <3>1 DEF Still
    <3>2. CASE y # x
      BY <1>1, <1>2, <1>10, <3>2 DEF Still, Ls
    <3> QED
      BY <3>1, <3>2
  <2>2. \A b \in Bs(u) : u.mem[b].tmpl => u.mem[b].link = None /\ ~ Queued(u, b)
    BY <1>1, <1>4, <1>5, <1>10 DEF Still
  <2>3. \A b \in Bs(u) : u.mem[b].link \in Ls(u) => ~ u.mem[u.mem[b].link].tmpl
    BY <1>1, <1>4, <1>5 DEF Still
  <2> QED
    BY <2>1, <2>2, <2>3 DEF Still
<1>12. Shut(u, h)
  <2> SUFFICES ASSUME NEW y \in Ls(v), Dies(v, y)
               PROVE  u.mem[y].die /\ ~ u.mem[y].joined /\ (~ h => u.mem[y].lcp = "initial" /\ ~ u.mem[y].busy)
    BY <1>4, <1>10 DEF Shut
  <2>1. CASE y = x
    BY <1>1, <1>5, <2>1 DEF Shut
  <2>2. CASE y # x
    BY <1>1, <1>2, <2>2 DEF Shut, Ls
  <2> QED
    BY <2>1, <2>2
<1>13. Counted(u, z)
  <2>1. \A y \in Mem : Refs(u, y) = Refs(v, y)
    BY <1>2, <1>3 DEF Refs
  <2>2. \A y \in Mem : u.mem[y] # Freed => u.mem[y].refs >= 1
    BY <1>1, <1>2, <1>3, MemKinds DEF Counted
  <2> QED
    BY <1>1, <1>10, <2>1, <2>2 DEF Counted
<1>14. Sound(u, h, z)
  BY <1>2, <1>6, <1>7, <1>8, <1>9, <1>11, <1>12, <1>13 DEF Sound
<1> QED
  BY <1>4, <1>14

\* A flag of a living bundle.
LEMMA BundSound ==
  ASSUME NEW v, NEW h, NEW z, Sound(v, h, z), NEW b \in Bs(v), NEW u, Touched(v, u, b),
         NEW l, l = v.mem[b], NEW m, m = u.mem[b], m \in Bundles,
         m.refs = l.refs, m.dead = l.dead, m.id = l.id, m.link = l.link, m.n_up = l.n_up,
         m.tmpl => l.tmpl, l.robbed => m.robbed
  PROVE  /\ Sound(u, h, z) /\ Ls(u) = Ls(v) /\ Bs(u) = Bs(v)
<1>1. /\ v \in Worlds /\ v.failed = "none" /\ Sorted(v) /\ Tabled(v) /\ Married(v) /\ Related(v)
      /\ Blank(v) /\ Still(v) /\ Shut(v, h) /\ Counted(v, z)
  BY DEF Sound
<1>2. /\ u \in Worlds /\ u.failed = "none" /\ Sorted(u)
      /\ u.gLinks = v.gLinks /\ u.gBundles = v.gBundles /\ u.gChildren = v.gChildren
      /\ u.ctx = v.ctx /\ u.msgs = v.msgs
      /\ \A y \in LinkMem : u.mem[y] = v.mem[y]
      /\ \A y \in Mem \ {b} : u.mem[y] = v.mem[y]
  BY <1>1, MemKinds DEF Touched, Bs
<1>3. b \in BundMem /\ l \in Bundles /\ l # Freed /\ ~ l.dead /\ m # Freed /\ ~ m.dead
  BY <1>1, MemKinds DEF Bs, Sorted
<1>4. Ls(u) = Ls(v) /\ Bs(u) = Bs(v)
  <2>1. Ls(u) = Ls(v)
    BY <1>2 DEF Ls
  <2>2. Bs(u) = Bs(v)
    BY <1>2, <1>3, MemKinds DEF Bs
  <2> QED
    BY <2>1, <2>2
<1>5. /\ \A y \in Bs(v) : /\ u.mem[y].id = v.mem[y].id /\ u.mem[y].link = v.mem[y].link
                          /\ u.mem[y].n_up = v.mem[y].n_up /\ (u.mem[y].tmpl => v.mem[y].tmpl)
                          /\ v.mem[y].robbed => u.mem[y].robbed
      /\ \A x \in Ls(v) : u.mem[x] = v.mem[x]
  BY <1>2, MemKinds DEF Ls, Bs
<1>6. Tabled(u)
  BY <1>1, <1>2, <1>4, <1>5, TabledIsSame
<1>7. Married(u)
  <2>1. \A y \in Ls(v) : u.mem[y].joined => u.mem[y].lcp = "up"
    BY <1>1, <1>5 DEF Married
  <2> QED
    BY <1>1, <1>4, <1>5, <2>1, MarriedIsSame
<1>8. Related(u)
  BY <1>1, <1>2, <1>4, <1>5, RelatedIsSame
<1>9. Blank(u)
  BY <1>1, <1>2, <1>3, <1>4, MemKinds DEF Blank
<1>10. \A y : Held(u, y) = Held(v, y) /\ (Queued(u, y) <=> Queued(v, y)) /\ (Dies(u, y) <=> Dies(v, y))
  BY <1>2, HeldSame
<1>11. Still(u)
  BY <1>1, <1>4, <1>5, <1>10 DEF Still
<1>12. Shut(u, h)
  BY <1>1, <1>4, <1>5, <1>10 DEF Shut
<1>13. Counted(u, z)
  <2>1. \A y \in Mem : Refs(u, y) = Refs(v, y)
    BY <1>2, <1>3 DEF Refs
  <2>2. \A y \in Mem : u.mem[y] # Freed => u.mem[y].refs >= 1
    BY <1>1, <1>2, <1>3, MemKinds DEF Counted
  <2> QED
    BY <1>1, <1>10, <2>1, <2>2 DEF Counted
<1>14. Sound(u, h, z)
  BY <1>2, <1>6, <1>7, <1>8, <1>9, <1>11, <1>12, <1>13 DEF Sound
<1> QED
  BY <1>4, <1>14

\* What stays of a link and of a bundle that come together or part.
Wed(l, m) ==
  /\ m \in Links
  /\ m.refs = l.refs /\ m.dead = l.dead /\ m.id = l.id /\ m.tmpl = l.tmpl /\ m.die = l.die
  /\ m.lcp = l.lcp /\ m.busy = l.busy /\ m.parent = l.parent /\ m.children = l.children

WedBund(o, p) ==
  p \in Bundles /\ p.refs = o.refs /\ p.dead = o.dead /\ p.id = o.id /\ p.tmpl = o.tmpl

\* A link and a bundle come together or part; d is the state with the link changed only.
LEMMA PairSound ==
  ASSUME NEW v, NEW h, NEW z, Sound(v, h, z), NEW x \in Ls(v), NEW b \in Bs(v),
         NEW d, Touched(v, d, x), NEW u, Touched(d, u, b),
         Wed(v.mem[x], d.mem[x]), WedBund(v.mem[b], u.mem[b]),
         v.mem[x].bund \in {b, None} \/ v.mem[v.mem[x].bund].robbed,
         v.mem[b].link \in {x, None},
         \/ d.mem[x].bund = b /\ u.mem[b].link = x /\ ~ d.mem[x].tmpl /\ ~ u.mem[b].tmpl
         \/ d.mem[x].bund = None /\ u.mem[b].link = None,
         v.mem[b].robbed => u.mem[b].robbed,
         ~ u.mem[b].robbed => u.mem[b].n_up = IF d.mem[x].bund = b /\ d.mem[x].joined THEN 1 ELSE 0,
         d.mem[x].bund = b /\ d.mem[x].joined => u.mem[b].n_up >= 1,
         d.mem[x].joined => d.mem[x].lcp = "up" /\ ~ Dies(v, x) /\ (d.mem[x].bund # None \/ d.mem[x].cut)
  PROVE  /\ Sound(u, h, z) /\ Ls(u) = Ls(v) /\ Bs(u) = Bs(v)
<1> DEFINE l == v.mem[x]  m == d.mem[x]  o == v.mem[b]  p == u.mem[b]
<1>0. /\ l = v.mem[x] /\ m = d.mem[x] /\ o = v.mem[b] /\ p = u.mem[b]
      /\ m \in Links
      /\ m.refs = l.refs /\ m.dead = l.dead /\ m.id = l.id /\ m.tmpl = l.tmpl /\ m.die = l.die
      /\ m.lcp = l.lcp /\ m.busy = l.busy /\ m.parent = l.parent /\ m.children = l.children
      /\ p \in Bundles /\ p.refs = o.refs /\ p.dead = o.dead /\ p.id = o.id /\ p.tmpl = o.tmpl
      /\ l.bund \in {b, None} \/ v.mem[l.bund].robbed
      /\ o.link \in {x, None}
      /\ \/ m.bund = b /\ p.link = x /\ ~ m.tmpl /\ ~ p.tmpl
         \/ m.bund = None /\ p.link = None
      /\ o.robbed => p.robbed
      /\ ~ p.robbed => p.n_up = IF m.bund = b /\ m.joined THEN 1 ELSE 0
      /\ m.bund = b /\ m.joined => p.n_up >= 1
      /\ m.joined => m.lcp = "up" /\ ~ Dies(v, x) /\ (m.bund # None \/ m.cut)
  BY DEF Wed, WedBund
<1> HIDE DEF l, m, o, p
<1> USE <1>0
<1>1. /\ v \in Worlds /\ v.failed = "none" /\ Sorted(v) /\ Tabled(v) /\ Married(v) /\ Related(v)
      /\ Blank(v) /\ Still(v) /\ Shut(v, h) /\ Counted(v, z)
  BY DEF Sound
<1>2. x \in LinkMem /\ b \in BundMem /\ x # None /\ b # None
  BY MemKinds DEF Ls, Bs
<1>3. /\ u \in Worlds /\ u.failed = "none" /\ Sorted(u)
      /\ u.gLinks = v.gLinks /\ u.gBundles = v.gBundles /\ u.gChildren = v.gChildren
      /\ u.ctx = v.ctx /\ u.msgs = v.msgs
      /\ u.mem[x] = m /\ u.mem[b] = p
      /\ \A y \in LinkMem \ {x} : u.mem[y] = v.mem[y]
      /\ \A y \in BundMem \ {b} : u.mem[y] = v.mem[y]
  BY <1>1, <1>2, MemKinds DEF Touched
<1>4. /\ l \in Links /\ l # Freed /\ ~ l.dead /\ m # Freed /\ ~ m.dead
      /\ o \in Bundles /\ o # Freed /\ ~ o.dead /\ p # Freed /\ ~ p.dead
  BY <1>1, MemKinds DEF Ls, Bs, Sorted
<1>5. Ls(u) = Ls(v) /\ Bs(u) = Bs(v)
  <2>1. Ls(u) = Ls(v)
    BY <1>3, <1>4 DEF Ls
  <2>2. Bs(u) = Bs(v)
    BY <1>3, <1>4 DEF Bs
  <2> QED
    BY <2>1, <2>2
<1>6. /\ \A y \in Ls(v) : /\ u.mem[y].id = v.mem[y].id /\ u.mem[y].parent = v.mem[y].parent
                          /\ u.mem[y].children = v.mem[y].children /\ u.mem[y].lcp = v.mem[y].lcp
                          /\ u.mem[y].tmpl = v.mem[y].tmpl /\ u.mem[y].busy = v.mem[y].busy
                          /\ u.mem[y].die = v.mem[y].die
                          /\ y # x => u.mem[y] = v.mem[y]
      /\ \A y \in Bs(v) : /\ u.mem[y].id = v.mem[y].id /\ u.mem[y].tmpl = v.mem[y].tmpl
                          /\ y # b => u.mem[y] = v.mem[y]
  <2>1. \A y \in Ls(v) : y # x => u.mem[y] = v.mem[y]
    BY ONLY <1>3 DEF Ls
  <2>2. \A y \in Bs(v) : y # b => u.mem[y] = v.mem[y]
    BY ONLY <1>3 DEF Bs
  <2>3. /\ u.mem[x].id = v.mem[x].id /\ u.mem[x].parent = v.mem[x].parent
        /\ u.mem[x].children = v.mem[x].children /\ u.mem[x].lcp = v.mem[x].lcp
        /\ u.mem[x].tmpl = v.mem[x].tmpl /\ u.mem[x].busy = v.mem[x].busy
        /\ u.mem[x].die = v.mem[x].die
        /\ u.mem[b].id = v.mem[b].id /\ u.mem[b].tmpl = v.mem[b].tmpl
    BY ONLY <1>0, <1>3
  <2> QED
    BY ONLY <2>1, <2>2, <2>3
<1>7. Tabled(u)
  <2>1. \A y \in Ls(v) : u.mem[y].id = v.mem[y].id
    BY <1>6
  <2>2. \A y \in Bs(v) : u.mem[y].id = v.mem[y].id
    BY <1>6
  <2> QED
    BY ONLY <1>1, <1>3, <1>5, <2>1, <2>2, TabledIsSame
<1>8. /\ \A y \in Ls(v) \ {x} : v.mem[y].bund # b
      /\ \A y \in Bs(v) \ {b} : ~ v.mem[y].robbed => v.mem[y].link # x
  <2>1. \A y \in Ls(v) : y # None /\ (v.mem[y].bund # None => v.mem[v.mem[y].bund].link = y)
    BY <1>1, MemKinds DEF Married, Ls
  <2>2. \A y \in Bs(v) : y # None /\ (~ v.mem[y].robbed /\ v.mem[y].link # None => v.mem[v.mem[y].link].bund = y)
    BY <1>1, MemKinds DEF Married, Bs
  <2>3. \A y \in Ls(v) \ {x} : v.mem[y].bund # b
    BY ONLY <1>0, <1>2, <2>1
  <2>4. \A y \in Bs(v) \ {b} : ~ v.mem[y].robbed => v.mem[y].link # x
    BY ONLY <1>0, <1>2, <2>2
  <2> QED
    BY <2>3, <2>4
<1>9. Married(u)
  <2>1. ASSUME NEW y \in Ls(v)
        PROVE  /\ u.mem[y].bund # None => u.mem[y].bund \in Bs(v) /\ u.mem[u.mem[y].bund].link = y
               /\ u.mem[y].joined => u.mem[y].lcp = "up" /\ (u.mem[y].bund # None \/ u.mem[y].cut)
               /\ u.mem[y].bund # None /\ u.mem[y].joined => u.mem[u.mem[y].bund].n_up >= 1
    <3>1. CASE y = x
      BY <1>2, <1>3, <3>1
    <3>2. CASE y # x
      <4>1. u.mem[y] = v.mem[y] /\ v.mem[y].bund # b
        BY <1>6, <1>8, <2>1, <3>2
      <4>2. /\ v.mem[y].bund # None => v.mem[y].bund \in Bs(v) /\ v.mem[v.mem[y].bund].link = y
            /\ v.mem[y].joined => v.mem[y].lcp = "up" /\ (v.mem[y].bund # None \/ v.mem[y].cut)
            /\ v.mem[y].bund # None /\ v.mem[y].joined => v.mem[v.mem[y].bund].n_up >= 1
        BY <1>1, <2>1 DEF Married
      <4>3. v.mem[y].bund # None => u.mem[v.mem[y].bund] = v.mem[v.mem[y].bund]
        BY <1>6, <4>1, <4>2
      <4> QED
        BY <4>1, <4>2, <4>3
    <3> QED
      BY <3>1, <3>2
  <2>2. ASSUME NEW y \in Bs(v), ~ u.mem[y].robbed
        PROVE  /\ u.mem[y].link # None => u.mem[y].link \in Ls(v) /\ u.mem[u.mem[y].link].bund = y
               /\ u.mem[y].n_up = IF u.mem[y].link # None /\ u.mem[u.mem[y].link].joined THEN 1 ELSE 0
    <3>1. CASE y = b
      BY <1>2, <1>3, <2>2, <3>1
    <3>2. CASE y # b
      <4>1. u.mem[y] = v.mem[y] /\ v.mem[y].link # x
        BY <1>6, <1>8, <2>2, <3>2
      <4>2. /\ v.mem[y].link # None => v.mem[y].link \in Ls(v) /\ v.mem[v.mem[y].link].bund = y
            /\ v.mem[y].n_up = IF v.mem[y].link # None /\ v.mem[v.mem[y].link].joined THEN 1 ELSE 0
        BY <1>1, <2>2, <4>1 DEF Married
      <4>3. v.mem[y].link # None => u.mem[v.mem[y].link] = v.mem[v.mem[y].link]
        BY <1>6, <4>1, <4>2
      <4> QED
        BY <4>1, <4>2, <4>3
    <3> QED
      BY <3>1, <3>2
  <2> QED
    BY <1>5, <2>1, <2>2 DEF Married
<1>10. Related(u)
  <2>1. \A y \in Ls(v) : /\ u.mem[y].id = v.mem[y].id /\ u.mem[y].parent = v.mem[y].parent
                          /\ u.mem[y].children = v.mem[y].children
    BY ONLY <1>6
  <2> QED
    BY ONLY <1>1, <1>3, <1>5, <2>1, RelatedIsSame
<1>11. Blank(u)
  <2>1. ASSUME NEW y \in LinkMem \ Ls(v) PROVE u.mem[y] = v.mem[y]
    BY ONLY <1>3, <2>1, x \in Ls(v)
  <2>2. ASSUME NEW y \in BundMem \ Bs(v) PROVE u.mem[y] = v.mem[y]
    BY ONLY <1>3, <2>2, b \in Bs(v)
  <2> QED
    BY ONLY <1>1, <1>5, <2>1, <2>2 DEF Blank
<1>12. \A y : Held(u, y) = Held(v, y) /\ (Queued(u, y) <=> Queued(v, y)) /\ (Dies(u, y) <=> Dies(v, y))
  BY <1>3, HeldSame
<1>13. Still(u)
  <2>1. ASSUME NEW y \in Ls(v), u.mem[y].tmpl
        PROVE  u.mem[y].lcp = "initial" /\ ~ u.mem[y].busy /\ u.mem[y].bund = None /\ ~ Queued(u, y)
    <3>1. CASE y = x
      <4>1. v.mem[x].tmpl /\ u.mem[x].lcp = v.mem[x].lcp /\ (u.mem[x].busy <=> v.mem[x].busy)
        BY ONLY <1>6, <2>1, <3>1
      <4>2. v.mem[x].lcp = "initial" /\ ~ v.mem[x].busy /\ ~ Queued(v, x)
        BY ONLY <1>1, <2>1, <3>1, <4>1 DEF Still
      <4>3. u.mem[x].bund = None
        BY ONLY <1>0, <1>3, <2>1, <3>1
      <4>4. ~ Queued(u, x)
        BY ONLY <1>12, <4>2
      <4> QED
        BY ONLY <3>1, <4>1, <4>2, <4>3, <4>4
    <3>2. CASE y # x
      <4>1. u.mem[y] = v.mem[y]
        BY ONLY <1>6, <2>1, <3>2
      <4>2. v.mem[y].lcp = "initial" /\ ~ v.mem[y].busy /\ v.mem[y].bund = None /\ ~ Queued(v, y)
        BY ONLY <1>1, <2>1, <4>1 DEF Still
      <4> QED
        BY ONLY <1>12, <4>1, <4>2
    <3> QED
      BY <3>1, <3>2
  <2>2. ASSUME NEW y \in Bs(v), u.mem[y].tmpl PROVE u.mem[y].link = None /\ ~ Queued(u, y)
    <3>1. CASE y = b
      <4>1. v.mem[b].tmpl
        BY ONLY <1>6, <2>2, <3>1
      <4>2. ~ Queued(v, b)
        BY ONLY <1>1, <2>2, <3>1, <4>1 DEF Still
      <4>3. u.mem[b].link = None
        BY ONLY <1>0, <1>3, <2>2, <3>1
      <4>4. ~ Queued(u, b)
        BY ONLY <1>12, <4>2
      <4> QED
        BY ONLY <3>1, <4>3, <4>4
    <3>2. CASE y # b
      <4>1. u.mem[y] = v.mem[y]
        BY ONLY <1>6, <2>2, <3>2
      <4>2. v.mem[y].link = None /\ ~ Queued(v, y)
        BY ONLY <1>1, <2>2, <4>1 DEF Still
      <4> QED
        BY ONLY <1>12, <4>1, <4>2
    <3> QED
      BY <3>1, <3>2
  <2>3. ASSUME NEW y \in Bs(v), u.mem[y].link \in Ls(v) PROVE ~ u.mem[u.mem[y].link].tmpl
    <3>1. CASE y = b
      BY ONLY <1>0, <1>2, <1>3, <2>3, <3>1, MemKinds DEF Ls
    <3>2. CASE y # b
      <4>1. u.mem[y] = v.mem[y]
        BY ONLY <1>6, <2>3, <3>2
      <4>2. ~ v.mem[v.mem[y].link].tmpl
        BY ONLY <1>1, <2>3, <4>1 DEF Still
      <4> QED
        BY ONLY <1>6, <2>3, <4>1, <4>2
    <3> QED
      BY <3>1, <3>2
  <2> QED
    BY <1>5, <2>1, <2>2, <2>3 DEF Still
<1>14. Shut(u, h)
  <2> SUFFICES ASSUME NEW y \in Ls(v), Dies(v, y)
               PROVE  u.mem[y].die /\ ~ u.mem[y].joined /\ (~ h => u.mem[y].lcp = "initial" /\ ~ u.mem[y].busy)
    BY <1>5, <1>12 DEF Shut
  <2>1. CASE y = x
    BY <1>1, <1>3, <1>6, <2>1 DEF Shut
  <2>2. CASE y # x
    BY <1>1, <1>6, <2>2, ZenonT(60) DEF Shut
  <2> QED
    BY <2>1, <2>2
<1>15. Counted(u, z)
  <2>1. \A y \in Mem : /\ Refs(u, y) = Refs(v, y)
                       /\ u.mem[y] # Freed => u.mem[y].refs >= 1
    <3> SUFFICES ASSUME NEW y \in Mem PROVE Refs(u, y) = Refs(v, y) /\ (u.mem[y] # Freed => u.mem[y].refs >= 1)
      OBVIOUS
    <3>1. CASE y = x \/ y = b
      BY <1>1, <1>2, <1>3, <1>4, <3>1 DEF Refs, Counted
    <3>2. CASE y # x /\ y # b
      <4>1. u.mem[y] = v.mem[y]
        BY <1>3, <3>2, MemKinds
      <4> QED
        BY <1>1, <4>1 DEF Refs, Counted
    <3> QED
      BY <3>1, <3>2
  <2> QED
    BY <1>1, <1>12, <2>1 DEF Counted
<1>16. Sound(u, h, z)
  BY <1>3, <1>7, <1>9, <1>10, <1>11, <1>13, <1>14, <1>15 DEF Sound
<1> QED
  BY <1>5, <1>16

\* A link and a bundle written one after the other.
LEMMA PutPair ==
  ASSUME NEW v \in Worlds, Sorted(v), NEW x \in LinkMem, NEW b \in BundMem, NEW m \in Links, NEW p \in Bundles
  PROVE  LET d == Put(v, x, m)
             u == Put(d, b, p)
         IN  /\ Touched(v, d, x) /\ Touched(d, u, b) /\ d.mem[x] = m /\ u.mem[b] = p
             /\ u.mem[x] = m /\ \A y \in Mem \ {x, b} : u.mem[y] = v.mem[y]
             /\ u.gLinks = v.gLinks /\ u.gBundles = v.gBundles /\ u.gChildren = v.gChildren
             /\ u.ctx = v.ctx /\ u.msgs = v.msgs
<1> DEFINE d == Put(v, x, m)
           u == Put(d, b, p)
<1>1. x \in Mem /\ b \in Mem /\ x \notin BundMem /\ b \notin LinkMem
  BY MemKinds
<1>2. Touched(v, d, x) /\ d.mem[x] = m
  BY <1>1, PutTouches
<1> HIDE DEF d
<1>3. d \in Worlds /\ Sorted(d)
  BY <1>2 DEF Touched
<1>4. Touched(d, u, b) /\ u.mem[b] = p
  BY <1>1, <1>3, PutTouches
<1> HIDE DEF u
<1>5. /\ u.mem[x] = m /\ \A y \in Mem \ {x, b} : u.mem[y] = v.mem[y]
      /\ u.gLinks = v.gLinks /\ u.gBundles = v.gBundles /\ u.gChildren = v.gChildren
      /\ u.ctx = v.ctx /\ u.msgs = v.msgs
  BY <1>1, <1>2, <1>4 DEF Touched
<1> QED
  BY <1>2, <1>4, <1>5 DEF d, u

LEMMA TwoEntries ==
  ASSUME NEW f, NEW x \in DOMAIN f, NEW b \in DOMAIN f, x # b, NEW m, NEW p
  PROVE  [f EXCEPT ![b] = p, ![x] = m] = [f EXCEPT ![x] = m, ![b] = p]
OBVIOUS

\* A bundle and a link written at once.
LEMMA PairPut ==
  ASSUME NEW v \in Worlds, NEW x \in LinkMem, NEW b \in BundMem, NEW m, NEW p
  PROVE  [v EXCEPT !.mem = [v.mem EXCEPT ![b] = p, ![x] = m]] = Put(Put(v, x, m), b, p)
<1>1. x \in Mem /\ b \in Mem /\ x # b
  BY MemKinds
<1>2. DOMAIN v.mem = Mem
  BY DEF Worlds
<1>3. [v.mem EXCEPT ![b] = p, ![x] = m] = [v.mem EXCEPT ![x] = m, ![b] = p]
  BY <1>1, <1>2, TwoEntries
<1>4. Put(Put(v, x, m), b, p) = [v EXCEPT !.mem = [v.mem EXCEPT ![x] = m, ![b] = p]]
  BY DEF Put, Worlds
<1> QED
  BY <1>3, <1>4

LEMMA PutTwice ==
  ASSUME NEW v \in Worlds, NEW x \in LinkMem, NEW b \in BundMem, NEW m, NEW p, NEW k, NEW q
  PROVE  Put(Put(Put(Put(v, x, m), b, p), x, k), b, q) = Put(Put(v, x, k), b, q)
<1>1. x \in Mem /\ b \in Mem /\ x # b
  BY MemKinds
<1>2. DOMAIN v.mem = Mem
  BY DEF Worlds
<1> DEFINE f == [v.mem EXCEPT ![x] = m, ![b] = p]
           g == [f EXCEPT ![x] = k, ![b] = q]
<1>3. Put(Put(v, x, m), b, p) = [v EXCEPT !.mem = f]
  BY DEF Put, Worlds
<1>4. g = [v.mem EXCEPT ![x] = k, ![b] = q]
  BY <1>1, <1>2
<1> HIDE DEF f
<1> DEFINE d == [v EXCEPT !.mem = f]
<1>5. d.mem = f /\ \A h : [d EXCEPT !.mem = h] = [v EXCEPT !.mem = h]
  BY DEF Worlds
<1> HIDE DEF d
<1>6. Put(Put(d, x, k), b, q) = [v EXCEPT !.mem = g]
  <2> DEFINE e == [f EXCEPT ![x] = k]
             o == [v EXCEPT !.mem = e]
  <2>1. Put(d, x, k) = o
    BY <1>5 DEF Put
  <2>2. o.mem = e /\ \A h : [o EXCEPT !.mem = h] = [v EXCEPT !.mem = h]
    BY DEF Worlds
  <2>3. g = [e EXCEPT ![b] = q]
    OBVIOUS
  <2> HIDE DEF e, o, g
  <2>4. Put(o, b, q) = [v EXCEPT !.mem = g]
    BY <2>2, <2>3 DEF Put
  <2> QED
    BY <2>1, <2>4
<1> DEFINE j == [v.mem EXCEPT ![x] = k, ![b] = q]
<1>7. Put(Put(v, x, k), b, q) = [v EXCEPT !.mem = j]
  BY DEF Put, Worlds
<1>8. g = j
  BY <1>4
<1> HIDE DEF g, j
<1> QED
  BY <1>3, <1>6, <1>7, <1>8 DEF d

\* A link in the slot of a bundle that no other bundle had.
Wedding(v, b, x) == [v EXCEPT !.mem[b].link = x, !.mem[x] = [@ EXCEPT !.bund = b, !.cut = FALSE]]

LEMMA WeddingPut ==
  ASSUME NEW v \in Worlds, NEW x \in LinkMem, NEW b \in BundMem
  PROVE  Wedding(v, b, x) = Put(Put(v, x, [v.mem[x] EXCEPT !.bund = b, !.cut = FALSE]), b,
                                [v.mem[b] EXCEPT !.link = x])
<1> DEFINE m == [v.mem[x] EXCEPT !.bund = b, !.cut = FALSE]
           p == [v.mem[b] EXCEPT !.link = x]
<1>1. x \in Mem /\ b \in Mem /\ x # b
  BY MemKinds
<1>2. Wedding(v, b, x) = [v EXCEPT !.mem = [v.mem EXCEPT ![b] = p, ![x] = m]]
  BY <1>1 DEF Worlds, Wedding
<1> HIDE DEF m, p
<1>3. Wedding(v, b, x) = Put(Put(v, x, m), b, p)
  BY <1>2, PairPut
<1> QED
  BY <1>3 DEF m, p

\* A link without a bundle, a bundle without a link.
Cleared(v, b, x) == [v EXCEPT !.mem[b].link = None, !.mem[x].bund = None]

LEMMA ClearedPut ==
  ASSUME NEW v \in Worlds, NEW x \in LinkMem, NEW b \in BundMem
  PROVE  Cleared(v, b, x) = Put(Put(v, x, [v.mem[x] EXCEPT !.bund = None]), b, [v.mem[b] EXCEPT !.link = None])
<1> DEFINE m == [v.mem[x] EXCEPT !.bund = None]
           p == [v.mem[b] EXCEPT !.link = None]
<1>1. x \in Mem /\ b \in Mem /\ x # b
  BY MemKinds
<1>2. Cleared(v, b, x) = [v EXCEPT !.mem = [v.mem EXCEPT ![b] = p, ![x] = m]]
  BY <1>1 DEF Worlds, Cleared
<1> HIDE DEF m, p
<1>3. Cleared(v, b, x) = Put(Put(v, x, m), b, p)
  BY <1>2, PairPut
<1> QED
  BY <1>3 DEF m, p

\* A link and its bundle count each other, or do so no more.
Counting(v, b, x)   == [v EXCEPT !.mem[x].joined = TRUE, !.mem[b].n_up = @ + 1]
Discounting(v, b, x) == [v EXCEPT !.mem[x].joined = FALSE, !.mem[b].n_up = @ - 1]
Joined(l)    == [l EXCEPT !.joined = TRUE]
Unjoined(l)  == [l EXCEPT !.joined = FALSE]
Counts(o)    == [o EXCEPT !.n_up = @ + 1]
Discounts(o) == [o EXCEPT !.n_up = @ - 1]

LEMMA CountPut ==
  ASSUME NEW v \in Worlds, Sorted(v), NEW x \in LinkMem, NEW b \in BundMem, NEW m \in Links, NEW p \in Bundles,
         NEW u, u = Put(Put(v, x, m), b, p)
  PROVE  /\ Counting(u, b, x) = Put(Put(v, x, Joined(m)), b, Counts(p))
         /\ Discounting(u, b, x) = Put(Put(v, x, Unjoined(m)), b, Discounts(p))
<1>1. x \in Mem /\ b \in Mem /\ x # b
  BY MemKinds
<1>2. u.mem[x] = m /\ u.mem[b] = p /\ u \in Worlds
  BY PutPair DEF Touched
<1>3. \A k, q : Put(Put(u, x, k), b, q) = Put(Put(v, x, k), b, q)
  BY PutTwice
<1>4. ASSUME NEW on, NEW n
      PROVE  [u EXCEPT !.mem[x].joined = on, !.mem[b].n_up = n]
             = Put(Put(u, x, [m EXCEPT !.joined = on]), b, [p EXCEPT !.n_up = n])
  <2> DEFINE k == [m EXCEPT !.joined = on]
             q == [p EXCEPT !.n_up = n]
  <2>1. [u EXCEPT !.mem[x].joined = on, !.mem[b].n_up = n] = [u EXCEPT !.mem = [u.mem EXCEPT ![x] = k, ![b] = q]]
    BY <1>1, <1>2 DEF Worlds
  <2> HIDE DEF k, q
  <2>2. Put(Put(u, x, k), b, q) = [u EXCEPT !.mem = [u.mem EXCEPT ![x] = k, ![b] = q]]
    BY <1>2 DEF Put, Worlds
  <2> QED
    BY <2>1, <2>2 DEF k, q
<1>5. \A on : [u EXCEPT !.mem[x].joined = on].mem[b].n_up = p.n_up
  BY <1>1, <1>2 DEF Worlds
<1>6. [u EXCEPT !.mem[x].joined = TRUE, !.mem[b].n_up = @ + 1]
      = Put(Put(v, x, [m EXCEPT !.joined = TRUE]), b, [p EXCEPT !.n_up = @ + 1])
  <2> DEFINE n == p.n_up + 1
  <2>1. [u EXCEPT !.mem[x].joined = TRUE, !.mem[b].n_up = @ + 1]
        = [u EXCEPT !.mem[x].joined = TRUE, !.mem[b].n_up = n]
    BY <1>5
  <2>2. [p EXCEPT !.n_up = @ + 1] = [p EXCEPT !.n_up = n]
    OBVIOUS
  <2> HIDE DEF n
  <2> DEFINE k == [m EXCEPT !.joined = TRUE]
             q == [p EXCEPT !.n_up = n]
  <2>3. [u EXCEPT !.mem[x].joined = TRUE, !.mem[b].n_up = n] = Put(Put(u, x, k), b, q)
    BY ONLY <1>4
  <2> HIDE DEF k
  <2>4. Put(Put(u, x, k), b, q) = Put(Put(v, x, k), b, q)
    BY <1>3
  <2>5. Put(Put(v, x, k), b, q) = Put(Put(v, x, k), b, [p EXCEPT !.n_up = @ + 1])
    BY ONLY <2>2
  <2> QED
    BY ONLY <2>1, <2>3, <2>4, <2>5 DEF k
<1>7. [u EXCEPT !.mem[x].joined = FALSE, !.mem[b].n_up = @ - 1]
      = Put(Put(v, x, [m EXCEPT !.joined = FALSE]), b, [p EXCEPT !.n_up = @ - 1])
  <2> DEFINE n == p.n_up - 1
  <2>1. [u EXCEPT !.mem[x].joined = FALSE, !.mem[b].n_up = @ - 1]
        = [u EXCEPT !.mem[x].joined = FALSE, !.mem[b].n_up = n]
    BY <1>5
  <2>2. [p EXCEPT !.n_up = @ - 1] = [p EXCEPT !.n_up = n]
    OBVIOUS
  <2> HIDE DEF n
  <2> DEFINE k == [m EXCEPT !.joined = FALSE]
             q == [p EXCEPT !.n_up = n]
  <2>3. [u EXCEPT !.mem[x].joined = FALSE, !.mem[b].n_up = n] = Put(Put(u, x, k), b, q)
    BY ONLY <1>4
  <2> HIDE DEF k
  <2>4. Put(Put(u, x, k), b, q) = Put(Put(v, x, k), b, q)
    BY <1>3
  <2>5. Put(Put(v, x, k), b, q) = Put(Put(v, x, k), b, [p EXCEPT !.n_up = @ - 1])
    BY ONLY <2>2
  <2> QED
    BY ONLY <2>1, <2>3, <2>4, <2>5 DEF k
<1> QED
  BY ONLY <1>6, <1>7 DEF Counting, Discounting, Joined, Unjoined, Counts, Discounts

\* Link x of bundle c is taken by another.
Cut(v, x) == [v EXCEPT !.mem[v.mem[x].bund].robbed = TRUE, !.mem[x].cut = TRUE]

LEMMA CutPut ==
  ASSUME NEW v \in Worlds, NEW x \in LinkMem, v.mem[x].bund \in BundMem
  PROVE  Cut(v, x) = Put(Put(v, x, [v.mem[x] EXCEPT !.cut = TRUE]), v.mem[x].bund,
                         [v.mem[v.mem[x].bund] EXCEPT !.robbed = TRUE])
<1> DEFINE c == v.mem[x].bund
           m == [v.mem[x] EXCEPT !.cut = TRUE]
           p == [v.mem[c] EXCEPT !.robbed = TRUE]
<1>1. x \in Mem /\ c \in Mem /\ x # c
  BY MemKinds
<1>2. Cut(v, x) = [v EXCEPT !.mem = [v.mem EXCEPT ![c] = p, ![x] = m]]
  BY <1>1 DEF Worlds, Cut
<1> HIDE DEF m, p, c
<1>3. Cut(v, x) = Put(Put(v, x, m), c, p)
  BY <1>2, PairPut DEF c
<1> QED
  BY <1>3 DEF m, p, c

\* In u, of the pairs in v, the one of x is one that b takes the link of.
Robbed(v, u, h, z, x, b) ==
  /\ Sound(u, h, z) /\ Ls(u) = Ls(v) /\ Bs(u) = Bs(v)
  /\ u.gLinks = v.gLinks /\ u.gBundles = v.gBundles /\ u.gChildren = v.gChildren
  /\ u.ctx = v.ctx /\ u.msgs = v.msgs
  /\ u.mem[x] = v.mem[x] \/ u.mem[x] = [v.mem[x] EXCEPT !.cut = TRUE]
  /\ \A y \in LinkMem \ {x} : u.mem[y] = v.mem[y]
  /\ \A y \in BundMem : u.mem[y] = v.mem[y] \/ u.mem[y] = [v.mem[y] EXCEPT !.robbed = TRUE]
  /\ b \in BundMem => u.mem[b] = v.mem[b]
  /\ v.mem[x].bund \notin {b, None} => u.mem[v.mem[x].bund].robbed /\ u.mem[x].cut

LEMMA RobSound ==
  ASSUME NEW v, NEW h, NEW z, Sound(v, h, z), NEW x \in Ls(v), NEW b
  PROVE  Robbed(v, Rob(v, x, b), h, z, x, b)
<1> DEFINE c == v.mem[x].bund
           m == [v.mem[x] EXCEPT !.cut = TRUE]
           p == [v.mem[c] EXCEPT !.robbed = TRUE]
           d == Put(v, x, m)
           u == Put(d, c, p)
<1>1. /\ v \in Worlds /\ Sorted(v) /\ Married(v) /\ Still(v) /\ Shut(v, h) /\ x \in LinkMem
      /\ v.mem[x] \in Links
  BY MemKinds DEF Sound, Sorted, Ls
<1>2. CASE c \in {b, None}
  BY <1>2 DEF Rob, Robbed
<1>3. CASE c \notin {b, None}
  <2>1. c \in Bs(v) /\ c \in BundMem /\ v.mem[c] \in Bundles
    BY <1>1, <1>3 DEF Married, Bs, Sorted
  <2>2. Rob(v, x, b) = u
    BY <1>1, <1>3, <2>1, CutPut DEF Rob, Cut
  <2>3. m \in Links /\ p \in Bundles
    BY <1>1, <2>1 DEF Links, Bundles
  <2>4. /\ Touched(v, d, x) /\ Touched(d, u, c) /\ d.mem[x] = m /\ u.mem[c] = p /\ u.mem[x] = m
        /\ \A y \in Mem \ {x, c} : u.mem[y] = v.mem[y]
        /\ u.gLinks = v.gLinks /\ u.gBundles = v.gBundles /\ u.gChildren = v.gChildren
        /\ u.ctx = v.ctx /\ u.msgs = v.msgs
    <3> HIDE DEF c, m, p
    <3> QED
      BY <1>1, <2>1, <2>3, PutPair
  <2>5. Sound(d, h, z) /\ Ls(d) = Ls(v) /\ Bs(d) = Bs(v)
    <3>1. /\ m.refs = v.mem[x].refs /\ m.dead = v.mem[x].dead /\ m.id = v.mem[x].id
          /\ m.bund = v.mem[x].bund /\ m.joined = v.mem[x].joined /\ m.parent = v.mem[x].parent
          /\ m.children = v.mem[x].children /\ m.lcp = v.mem[x].lcp /\ m.busy = v.mem[x].busy
          /\ m.tmpl = v.mem[x].tmpl /\ m.die = v.mem[x].die /\ m.cut
      BY <1>1 DEF Links
    <3>2. /\ v.mem[x].joined => v.mem[x].lcp = "up"
          /\ v.mem[x].tmpl => v.mem[x].lcp = "initial" /\ ~ v.mem[x].busy
          /\ Dies(v, x) => v.mem[x].die /\ (h \/ (v.mem[x].lcp = "initial" /\ ~ v.mem[x].busy))
      BY <1>1 DEF Married, Still, Shut
    <3> HIDE DEF m, d, u, p
    <3> QED
      BY <2>3, <2>4, <3>1, <3>2, LinkSound
  <2>6. Sound(u, h, z) /\ Ls(u) = Ls(v) /\ Bs(u) = Bs(v)
    <3>1. d.mem[c] = v.mem[c]
      BY <1>1, <2>1, <2>4, MemKinds DEF Touched
    <3>2. /\ p.refs = v.mem[c].refs /\ p.dead = v.mem[c].dead /\ p.id = v.mem[c].id /\ p.link = v.mem[c].link
          /\ p.n_up = v.mem[c].n_up /\ p.tmpl = v.mem[c].tmpl /\ p.robbed
      BY <2>1 DEF Bundles
    <3> HIDE DEF m, d, u, p, c
    <3> QED
      BY <2>1, <2>3, <2>4, <2>5, <3>1, <3>2, BundSound
  <2>7. /\ \A y \in LinkMem \ {x} : u.mem[y] = v.mem[y]
        /\ \A y \in BundMem \ {c} : u.mem[y] = v.mem[y]
        /\ p.robbed /\ m.cut
    <3>1. p.robbed /\ m.cut /\ x \in LinkMem
      BY <1>1, <2>1 DEF Links, Bundles
    <3> HIDE DEF c, m, d, u, p
    <3> QED
      BY <2>1, <2>4, <3>1, MemKinds
  <2> HIDE DEF u, d
  <2> QED
    BY <1>3, <2>1, <2>2, <2>4, <2>6, <2>7 DEF Robbed
<1> QED
  BY <1>2, <1>3

\* What BundLeave() begins with.
Parted(v, x) == [Divorce(v, x) EXCEPT !.mem[x].joined = FALSE, !.mem[v.mem[x].bund].n_up = @ - 1]

\* Of the bundles, only that of x changes: it has no link.
Widowed(v, u, x) ==
  \A y \in BundMem : u.mem[y] = IF y = v.mem[x].bund THEN [v.mem[y] EXCEPT !.link = None] ELSE v.mem[y]

\* A divorce of a link that has left its bundle, or never joined it, or was taken from it.
LEMMA DivorceSound ==
  ASSUME NEW v, NEW h, NEW z, Sound(v, h, z), NEW x \in Ls(v),
         v.mem[x].joined /\ v.mem[x].bund # None => v.mem[x].cut /\ v.mem[v.mem[x].bund].robbed
  PROVE  LET u == Divorce(v, x)
         IN  /\ Sound(u, h, z) /\ Ls(u) = Ls(v) /\ Bs(u) = Bs(v)
             /\ u.gLinks = v.gLinks /\ u.gBundles = v.gBundles /\ u.gChildren = v.gChildren
             /\ u.ctx = v.ctx /\ u.msgs = v.msgs
             /\ u.mem[x] = [v.mem[x] EXCEPT !.bund = None]
             /\ \A y \in LinkMem \ {x} : u.mem[y] = v.mem[y]
             /\ Widowed(v, u, x)
<1> DEFINE b == v.mem[x].bund
           m == [v.mem[x] EXCEPT !.bund = None]
           p == [v.mem[b] EXCEPT !.link = None]
           d == Put(v, x, m)
           u == Put(d, b, p)
<1>1. /\ v \in Worlds /\ Sorted(v) /\ Married(v) /\ Shut(v, h) /\ x \in LinkMem /\ v.mem[x] \in Links
      /\ x # None
  BY MemKinds DEF Sound, Sorted, Ls
<1>2. CASE b = None
  <2>1. \A y \in BundMem : y # b
    BY <1>2, MemKinds
  <2>2. v.mem[x] = m
    BY <1>1, <1>2 DEF Links
  <2>3. Divorce(v, x) = v
    BY <1>2 DEF Divorce
  <2> HIDE DEF b, m
  <2> QED
    BY <2>1, <2>2, <2>3 DEF b, m, Widowed
<1>3. CASE b # None
  <2>1. b \in Bs(v) /\ v.mem[b].link = x
    BY <1>1, <1>3 DEF Married
  <2>2. b \in BundMem /\ v.mem[b] \in Bundles
    BY <1>1, <2>1 DEF Bs, Sorted
  <2>3. /\ Wed(v.mem[x], m) /\ m.bund = None /\ m.joined = v.mem[x].joined /\ m.cut = v.mem[x].cut
        /\ m.lcp = v.mem[x].lcp /\ m \in Links
    BY <1>1 DEF Links, Wed
  <2>4. /\ ~ v.mem[b].robbed => v.mem[b].n_up = 0
        /\ m.joined => m.lcp = "up" /\ ~ Dies(v, x) /\ m.cut
    BY <1>1, <1>3, <2>1, <2>3 DEF Married, Shut
  <2>5. /\ WedBund(v.mem[b], p) /\ p.link = None /\ p.n_up = v.mem[b].n_up /\ p \in Bundles
        /\ p.robbed = v.mem[b].robbed
    BY <2>2 DEF Bundles, WedBund
  <2>6. Divorce(v, x) = u
    <3>1. Divorce(v, x) = Cleared(v, b, x)
      BY <1>3 DEF Divorce, Cleared
    <3>2. Cleared(v, b, x) = u
      BY <1>1, <2>2, ClearedPut
    <3> QED
      BY ONLY <3>1, <3>2
  <2> HIDE DEF m, p, b
  <2>7. /\ Touched(v, d, x) /\ Touched(d, u, b) /\ d.mem[x] = m /\ u.mem[b] = p
        /\ u.mem[x] = m /\ \A y \in Mem \ {x, b} : u.mem[y] = v.mem[y]
        /\ u.gLinks = v.gLinks /\ u.gBundles = v.gBundles /\ u.gChildren = v.gChildren
        /\ u.ctx = v.ctx /\ u.msgs = v.msgs
    BY <1>1, <2>2, <2>3, <2>5, PutPair
  <2> HIDE DEF d, u
  <2>8. Sound(u, h, z) /\ Ls(u) = Ls(v) /\ Bs(u) = Bs(v)
    <3>1. v.mem[x].bund \in {b, None} /\ v.mem[b].link \in {x, None} /\ m.bund # b
      BY <2>1, <2>2, <2>3, MemKinds DEF b
    <3> QED
      BY <2>1, <2>3, <2>4, <2>5, <2>7, <3>1, PairSound
  <2>9. /\ \A y \in LinkMem \ {x} : u.mem[y] = v.mem[y]
        /\ \A y \in BundMem \ {b} : u.mem[y] = v.mem[y]
    BY <1>1, <2>2, <2>7, MemKinds
  <2>10. Divorce(v, x) = u
    BY <2>6
  <2> QED
    BY <2>2, <2>7, <2>8, <2>9, <2>10 DEF b, m, p, Widowed
<1> QED
  BY <1>2, <1>3

\* A link is put into the slot of a bundle, maybe from that of another.
LEMMA MarrySound ==
  ASSUME NEW v, NEW h, NEW z, Sound(v, h, z), NEW x \in Ls(v), NEW b \in Bs(v),
         ~ v.mem[x].joined, v.mem[b].link = None, ~ v.mem[x].tmpl, ~ v.mem[b].tmpl
  PROVE  LET u == Marry(v, b, x)
         IN  Sound(u, h, z) /\ Ls(u) = Ls(v) /\ Bs(u) = Bs(v) /\ ~ u.mem[x].tmpl
<1> DEFINE r == Rob(v, x, b)
<1>0. Robbed(v, r, h, z, x, b) /\ Marry(v, b, x) = Wedding(r, b, x)
  BY RobSound DEF Marry, Wedding
<1> HIDE DEF r
<1>1. /\ r \in Worlds /\ Sorted(r) /\ Married(r) /\ x \in LinkMem /\ r.mem[x] \in Links /\ b \in BundMem
      /\ r.mem[b] \in Bundles /\ x \in Ls(r) /\ b \in Bs(r)
  BY <1>0 DEF Sound, Sorted, Ls, Bs, Robbed
<1>2. /\ ~ r.mem[x].joined /\ r.mem[b].link = None /\ ~ r.mem[x].tmpl /\ ~ r.mem[b].tmpl
      /\ r.mem[x].bund \in {b, None} \/ r.mem[r.mem[x].bund].robbed
      /\ ~ r.mem[b].robbed => r.mem[b].n_up = 0
  <2>1. v.mem[x] \in Links
    BY DEF Sound, Sorted, Ls
  <2>2. /\ r.mem[x].bund = v.mem[x].bund /\ r.mem[x].joined = v.mem[x].joined /\ r.mem[x].tmpl = v.mem[x].tmpl
        /\ r.mem[b] = v.mem[b]
    BY <1>0, <1>1, <2>1 DEF Robbed, Links
  <2> QED
    BY <1>0, <1>1, <2>2 DEF Robbed, Married
<1> DEFINE m == [r.mem[x] EXCEPT !.bund = b, !.cut = FALSE]
           p == [r.mem[b] EXCEPT !.link = x]
           d == Put(r, x, m)
           u == Put(d, b, p)
<1>3. Wed(r.mem[x], m) /\ m.bund = b /\ ~ m.joined /\ m \in Links /\ ~ m.tmpl
  BY <1>1, <1>2 DEF Links, Wed
<1>4. /\ WedBund(r.mem[b], p) /\ p.link = x /\ p.n_up = r.mem[b].n_up /\ p.robbed = r.mem[b].robbed
      /\ p \in Bundles /\ ~ p.tmpl
  BY <1>1, <1>2 DEF Bundles, WedBund
<1>5. Wedding(r, b, x) = u
  BY <1>1, WeddingPut
<1> HIDE DEF m, p
<1>6. Touched(r, d, x) /\ Touched(d, u, b) /\ d.mem[x] = m /\ u.mem[b] = p /\ u.mem[x] = m
  BY <1>1, <1>3, <1>4, PutPair
<1> HIDE DEF d, u
<1>7. Sound(u, h, z) /\ Ls(u) = Ls(r) /\ Bs(u) = Bs(r)
  <2>1. Sound(r, h, z)
    BY <1>0 DEF Robbed
  <2> QED
    BY <1>1, <1>2, <1>3, <1>4, <1>6, <2>1, PairSound
<1> QED
  BY <1>0, <1>3, <1>5, <1>6, <1>7 DEF Robbed

\* A link that is up joins a bundle.
LEMMA JoinsSound ==
  ASSUME NEW v, NEW h, NEW z, Sound(v, h, z), NEW x \in Ls(v), NEW b \in Bs(v),
         v.mem[x].bund = b \/ (v.mem[x].bund = None /\ v.mem[b].link = None),
         v.mem[x].lcp = "up", ~ v.mem[x].joined, ~ v.mem[b].tmpl, ~ Dies(v, x)
  PROVE  Sound(Joins(v, b, x), h, z)
<1> DEFINE k == [v.mem[x] EXCEPT !.bund = b, !.cut = FALSE]
           q == [v.mem[b] EXCEPT !.link = x]
           m == Joined(k)
           p == Counts(q)
           o == Put(Put(v, x, k), b, q)
           d == Put(v, x, m)
           u == Put(d, b, p)
<1>1. v \in Worlds /\ Sorted(v) /\ Married(v) /\ Still(v) /\ x \in LinkMem /\ v.mem[x] \in Links /\ b \in BundMem
      /\ v.mem[b] \in Bundles
  BY DEF Sound, Sorted, Ls, Bs
<1>2. /\ ~ v.mem[b].robbed => v.mem[b].n_up = 0
      /\ ~ v.mem[x].tmpl /\ v.mem[b].link \in {x, None} /\ v.mem[x].bund \in {b, None}
  <2>1. v.mem[b].link = x \/ v.mem[b].link = None
    BY <1>1, MemKinds DEF Married
  <2>2. ~ v.mem[b].robbed => v.mem[b].n_up = 0
    BY <1>1, <2>1 DEF Married
  <2>3. ~ v.mem[x].tmpl
    BY <1>1 DEF Still
  <2> QED
    BY <2>1, <2>2, <2>3
<1>3. k \in Links /\ q \in Bundles
  BY <1>1 DEF Links, Bundles
<1>4. Wed(v.mem[x], m) /\ m.bund = b /\ m.joined /\ m \in Links /\ ~ m.tmpl /\ m.lcp = "up"
  BY <1>1, <1>2 DEF Links, Wed, Joined, Unjoined
<1>5. /\ WedBund(v.mem[b], p) /\ p.link = x /\ p.n_up = v.mem[b].n_up + 1 /\ p \in Bundles /\ ~ p.tmpl
      /\ p.robbed = v.mem[b].robbed /\ v.mem[b].n_up \in Nat
  <2>1. /\ q.n_up = v.mem[b].n_up /\ q.robbed = v.mem[b].robbed /\ q.link = x /\ q.tmpl = v.mem[b].tmpl
        /\ v.mem[b].n_up \in Nat
    BY <1>1 DEF Bundles
  <2>2. WedBund(v.mem[b], q)
    BY <1>1, <1>3 DEF Bundles, WedBund
  <2> HIDE DEF q
  <2> QED
    BY <1>3, <2>1, <2>2 DEF Bundles, WedBund, Counts, Discounts
<1>6. Joins(v, b, x) = u
  <2>1. Marry(v, b, x) = Wedding(v, b, x)
    BY <1>2 DEF Marry, Rob, Wedding
  <2>2. Marry(v, b, x) = o
    BY <1>1, <2>1, WeddingPut
  <2>0. o = Put(Put(v, x, k), b, q)
    OBVIOUS
  <2> HIDE DEF k, q, o
  <2>3. Joins(v, b, x) = Counting(o, b, x)
    BY ONLY <2>2 DEF Joins, Counting
  <2>4. Counting(o, b, x) = u
    BY <1>1, <1>3, <2>0, CountPut
  <2> QED
    BY ONLY <2>3, <2>4
<1> HIDE DEF m, p
<1>7. Touched(v, d, x) /\ Touched(d, u, b) /\ d.mem[x] = m /\ u.mem[b] = p
  BY <1>1, <1>4, <1>5, PutPair
<1> HIDE DEF d, u, k, q
<1>8. Sound(u, h, z)
  <2>1. p.n_up >= 1 /\ (~ p.robbed => p.n_up = 1) /\ m.bund # None
    BY <1>1, <1>2, <1>4, <1>5, MemKinds
  <2> QED
    BY <1>1, <1>2, <1>4, <1>5, <1>7, <2>1, PairSound
<1> QED
  BY <1>6, <1>8

\* In the sound world u, x has left the bundle b it was in in v.
Unpaired(v, u, h, z, x, b) ==
  /\ Sound(u, h, z) /\ Ls(u) = Ls(v) /\ Bs(u) = Bs(v) /\ u.msgs = v.msgs
  /\ b \in Bs(v) /\ u.mem[b].link = None
  /\ u.mem[x] = [v.mem[x] EXCEPT !.bund = None, !.joined = FALSE]

\* A link leaves its bundle.
LEMMA PartSound ==
  ASSUME NEW v, NEW h, NEW z, Sound(v, h, z), NEW x \in Ls(v), v.mem[x].joined, v.mem[x].bund # None
  PROVE  Unpaired(v, Parted(v, x), h, z, x, v.mem[x].bund)
<1> DEFINE b == v.mem[x].bund
           k == [v.mem[x] EXCEPT !.bund = None]
           q == [v.mem[b] EXCEPT !.link = None]
           m == Unjoined(k)
           p == Discounts(q)
           o == Put(Put(v, x, k), b, q)
           d == Put(v, x, m)
           u == Put(d, b, p)
<1>1. v \in Worlds /\ Sorted(v) /\ Married(v) /\ x \in LinkMem /\ v.mem[x] \in Links
  BY DEF Sound, Sorted, Ls
<1>2. b \in Bs(v) /\ b # None /\ v.mem[b].link = x /\ v.mem[b].n_up >= 1 /\ (~ v.mem[b].robbed => v.mem[b].n_up = 1)
  <2>1. b \in Bs(v) /\ b # None /\ v.mem[b].link = x /\ v.mem[b].n_up >= 1
    BY <1>1 DEF Married
  <2>2. ~ v.mem[b].robbed => v.mem[b].n_up = 1
    BY <1>1, <2>1, MemKinds DEF Married
  <2> QED
    BY <2>1, <2>2
<1>3. b \in BundMem /\ v.mem[b] \in Bundles
  BY <1>1, <1>2 DEF Bs, Sorted
<1>4. k \in Links /\ q \in Bundles
  BY <1>1, <1>3 DEF Links, Bundles
<1>5. /\ Wed(v.mem[x], m) /\ m.bund = None /\ ~ m.joined /\ m \in Links
      /\ m = [v.mem[x] EXCEPT !.bund = None, !.joined = FALSE]
  BY <1>1 DEF Links, Wed, Joined, Unjoined
<1>6. /\ WedBund(v.mem[b], p) /\ p.link = None /\ p.n_up = v.mem[b].n_up - 1 /\ p \in Bundles
      /\ p.robbed = v.mem[b].robbed
  <2>1. q.n_up = v.mem[b].n_up /\ q.robbed = v.mem[b].robbed /\ q.link = None /\ v.mem[b].n_up \in Nat
    BY <1>3 DEF Bundles
  <2>2. WedBund(v.mem[b], q)
    BY <1>3 DEF Bundles, WedBund
  <2> HIDE DEF q, b
  <2> QED
    BY <1>2, <1>4, <2>1, <2>2 DEF Bundles, WedBund, Counts, Discounts
<1>7. Parted(v, x) = u
  <2>0. Divorce(v, x) = Cleared(v, b, x)
    BY <1>2 DEF Divorce, Cleared
  <2>1. Divorce(v, x) = o
    BY <1>1, <1>3, <2>0, ClearedPut
  <2>4. o = Put(Put(v, x, k), b, q)
    OBVIOUS
  <2> HIDE DEF k, q, b, o
  <2>2. Parted(v, x) = Discounting(o, b, x)
    BY <2>1 DEF Parted, b, Discounting
  <2>3. Discounting(o, b, x) = u
    BY <1>1, <1>3, <1>4, <2>4, CountPut
  <2> QED
    BY ONLY <2>2, <2>3
<1> HIDE DEF m, p, b, k, q
<1>8. Touched(v, d, x) /\ Touched(d, u, b) /\ d.mem[x] = m /\ u.mem[b] = p /\ u.mem[x] = m /\ u.msgs = v.msgs
  BY <1>1, <1>3, <1>5, <1>6, PutPair
<1> HIDE DEF d, u
<1>9. Sound(u, h, z) /\ Ls(u) = Ls(v) /\ Bs(u) = Bs(v)
  <2>1. v.mem[x].bund \in {b, None} /\ v.mem[b].link \in {x, None} /\ m.bund # b /\ (~ p.robbed => p.n_up = 0)
    BY <1>2, <1>5, <1>6 DEF b
  <2>2. /\ Wed(v.mem[x], d.mem[x]) /\ WedBund(v.mem[b], u.mem[b])
        /\ d.mem[x].bund = None /\ u.mem[b].link = None /\ ~ d.mem[x].joined /\ d.mem[x].bund # b
        /\ v.mem[b].robbed => u.mem[b].robbed
        /\ ~ u.mem[b].robbed => u.mem[b].n_up = 0
    BY <1>5, <1>6, <1>8, <2>1
  <2> QED
    BY ONLY Sound(v, h, z), x \in Ls(v), <1>2, <1>8, <2>1, <2>2, PairSound
<1> QED
  BY <1>2, <1>5, <1>6, <1>7, <1>8, <1>9 DEF b, Unpaired

\* A bundle without the link that its slot named; the bundle of the link, if another, is robbed.
LEMMA DismissSound ==
  ASSUME NEW v, NEW h, NEW z, Sound(v, h, z), NEW x \in Ls(v), NEW b \in Bs(v), v.mem[b].link = x,
         v.mem[x].bund = b => ~ v.mem[x].joined
  PROVE  LET u == Dismiss(v, b, x)
         IN  /\ Sound(u, h, z) /\ Ls(u) = Ls(v) /\ Bs(u) = Bs(v) /\ u.msgs = v.msgs /\ u.ctx = v.ctx
             /\ u.mem[b] = [v.mem[b] EXCEPT !.link = None] /\ u.gBundles = v.gBundles
             /\ u.mem[x].bund = None
<1> DEFINE r == Rob(v, x, b)
<1>0. Robbed(v, r, h, z, x, b) /\ Dismiss(v, b, x) = Cleared(r, b, x)
  BY RobSound DEF Dismiss, Cleared
<1> HIDE DEF r
<1>1. /\ r \in Worlds /\ Sorted(r) /\ Married(r) /\ Shut(r, h) /\ x \in LinkMem /\ r.mem[x] \in Links
      /\ b \in BundMem /\ r.mem[b] \in Bundles /\ x \in Ls(r) /\ b \in Bs(r) /\ b # None /\ x # None
      /\ v.mem[x] \in Links /\ Married(v)
  BY <1>0, MemKinds DEF Sound, Sorted, Ls, Bs, Robbed
<1>2. /\ r.mem[x].bund = v.mem[x].bund /\ r.mem[x].joined = v.mem[x].joined
      /\ r.mem[b] = v.mem[b] /\ (v.mem[x].cut => r.mem[x].cut)
  BY <1>0, <1>1 DEF Robbed, Links
<1>3. /\ r.mem[x].bund \in {b, None} \/ r.mem[r.mem[x].bund].robbed
      /\ ~ r.mem[b].robbed => r.mem[b].n_up = 0
      /\ r.mem[x].joined => r.mem[x].lcp = "up" /\ ~ Dies(r, x) /\ r.mem[x].cut
  <2>1. r.mem[x].bund \in {b, None} \/ (r.mem[r.mem[x].bund].robbed /\ r.mem[x].cut)
    BY <1>0, <1>2 DEF Robbed
  <2>2. ~ v.mem[b].robbed => v.mem[x].bund = b /\ v.mem[b].n_up = 0
    BY <1>1 DEF Married
  <2>3. v.mem[x].joined => v.mem[x].bund # None \/ v.mem[x].cut
    BY <1>1 DEF Married
  <2>4. r.mem[x].joined => r.mem[x].lcp = "up" /\ ~ Dies(r, x)
    BY <1>1 DEF Married, Shut
  <2> QED
    BY <1>2, <2>1, <2>2, <2>3, <2>4
<1> DEFINE m == [r.mem[x] EXCEPT !.bund = None]
           p == [r.mem[b] EXCEPT !.link = None]
           d == Put(r, x, m)
           u == Put(d, b, p)
<1>4. /\ Wed(r.mem[x], m) /\ m.bund = None /\ m.joined = r.mem[x].joined /\ m \in Links /\ m.cut = r.mem[x].cut
      /\ m.lcp = r.mem[x].lcp
  BY <1>1 DEF Links, Wed
<1>5. /\ WedBund(r.mem[b], p) /\ p.link = None /\ p.n_up = r.mem[b].n_up /\ p.robbed = r.mem[b].robbed
      /\ p \in Bundles /\ p = [v.mem[b] EXCEPT !.link = None]
  BY <1>1, <1>2 DEF Bundles, WedBund
<1>6. Cleared(r, b, x) = u
  BY <1>1, ClearedPut
<1> HIDE DEF m, p
<1>7. /\ Touched(r, d, x) /\ Touched(d, u, b) /\ d.mem[x] = m /\ u.mem[b] = p /\ u.mem[x] = m
      /\ u.gBundles = r.gBundles /\ u.ctx = r.ctx /\ u.msgs = r.msgs
  BY <1>1, <1>4, <1>5, PutPair
<1> HIDE DEF d, u
<1>8. Sound(u, h, z) /\ Ls(u) = Ls(r) /\ Bs(u) = Bs(r)
  <2>1. Sound(r, h, z) /\ r.mem[b].link \in {x, None} /\ m.bund # b
    BY <1>0, <1>1, <1>2, <1>4 DEF Robbed
  <2>2. /\ Wed(r.mem[x], d.mem[x]) /\ WedBund(r.mem[b], u.mem[b])
        /\ d.mem[x].bund = None /\ u.mem[b].link = None /\ d.mem[x].bund # b
        /\ r.mem[b].robbed => u.mem[b].robbed
        /\ ~ u.mem[b].robbed => u.mem[b].n_up = 0
        /\ d.mem[x].joined => d.mem[x].lcp = "up" /\ ~ Dies(r, x) /\ d.mem[x].cut
    BY <1>3, <1>4, <1>5, <1>7, <2>1
  <2> QED
    BY ONLY <1>1, <1>3, <1>7, <2>1, <2>2, PairSound
<1> QED
  BY <1>0, <1>4, <1>5, <1>6, <1>7, <1>8 DEF Robbed

LEMMA ListedLiving ==
  ASSUME NEW v \in Worlds, Tabled(v), Sorted(v)
  PROVE  /\ LiveLinks(v) = Ls(v) /\ LiveBundles(v) = Bs(v)
         /\ \A x \in Ls(v) : v.mem[x] \in Links /\ v.mem[x].id \in LinkSlots
         /\ \A b \in Bs(v) : v.mem[b] \in Bundles /\ v.mem[b].id \in BundSlots
<1>1. /\ \A x \in Ls(v) : v.mem[x] \in Links /\ v.mem[x].id \in LinkSlots
      /\ \A b \in Bs(v) : v.mem[b] \in Bundles /\ v.mem[b].id \in BundSlots
  BY DEF Ls, Bs, Sorted, Links, Bundles
<1>2. DOMAIN v.gLinks = LinkSlots /\ DOMAIN v.gBundles = BundSlots
  BY DEF Worlds
<1>3. LiveLinks(v) = Ls(v)
  <2>1. \A x \in LiveLinks(v) : x \in Ls(v)
    BY <1>2 DEF LiveLinks, Listed, Tabled
  <2>2. \A x \in Ls(v) : x \in LiveLinks(v)
    BY <1>1, <1>2, MemKinds DEF LiveLinks, Listed, Tabled, Ls
  <2> QED
    BY <2>1, <2>2
<1>4. LiveBundles(v) = Bs(v)
  <2>1. \A x \in LiveBundles(v) : x \in Bs(v)
    BY <1>2 DEF LiveBundles, Listed, Tabled
  <2>2. \A x \in Bs(v) : x \in LiveBundles(v)
    BY <1>1, <1>2, MemKinds DEF LiveBundles, Listed, Tabled, Bs
  <2> QED
    BY <2>1, <2>2
<1> QED
  BY <1>1, <1>3, <1>4

----------------------------------------------------------------------------
(* The shutdown of a link. *)

DeadLink(n, s) == [NewLink(1, FALSE, FALSE) EXCEPT !.refs = n, !.dead = TRUE, !.lcp = s]

LEMMA DeadLinkThere ==
  ASSUME NEW x \in LinkMem, NEW n \in Nat, NEW s \in LcpStates
  PROVE  DeadLink(n, s) \in Links /\ DeadLink(n, s).refs = n
<1> DEFINE c == Cardinality(LinkMem)
<1>1. IsFiniteSet(LinkMem) /\ LinkMem # {} /\ LinkMem \in SUBSET LinkMem
  BY Finite
<1>2. c \in Nat \ {0}
  BY <1>1, CountPositive
<1> HIDE DEF c
<1>3. 1 \in LinkSlots
  BY <1>2 DEF LinkSlots, c
<1>4. NewLink(1, FALSE, FALSE) \in Links
  BY <1>3 DEF NewLink, Links, LcpStates
<1> QED
  BY <1>4 DEF DeadLink, Links

\* What a link y other than x is after the shutdown of x, which it may be parent or child of.
Bereft(l, m, k, id) ==
  /\ m \in Links
  /\ m.refs = l.refs /\ m.dead = l.dead /\ m.id = l.id /\ m.tmpl = l.tmpl /\ m.stay = l.stay /\ m.die = l.die
  /\ m.lcp = l.lcp /\ m.busy = l.busy /\ m.bund = l.bund /\ m.joined = l.joined /\ m.cut = l.cut
  /\ m.parent = IF l.parent = id THEN 0 ELSE l.parent
  /\ l.children = IF l.id = k THEN m.children + 1 ELSE m.children

\* The shutdown of x, until it is unreferenced: x has left the table and its relatives.
Buried(v, u, x) ==
  /\ u \in Worlds /\ Sorted(u) /\ u.failed = v.failed /\ u.ctx = v.ctx /\ u.msgs = v.msgs
  /\ u.gBundles = v.gBundles /\ u.gLinks = [v.gLinks EXCEPT ![v.mem[x].id] = None]
  /\ v.gChildren = IF v.mem[x].parent = 0 THEN u.gChildren ELSE u.gChildren + 1
  /\ u.mem[x] = DeadLink(v.mem[x].refs, v.mem[x].lcp)
  /\ \A b \in BundMem : u.mem[b] = v.mem[b]
  /\ \A y \in LinkMem \ {x} : y \notin Ls(v) => u.mem[y] = v.mem[y]
  /\ \A y \in Ls(v) \ {x} : Bereft(v.mem[y], u.mem[y], v.mem[x].parent, v.mem[x].id)

\* The parent is there and counts x, which is not among the last to be born.
LEMMA ParentThere ==
  ASSUME NEW v, NEW h, NEW z, Sound(v, h, z), NEW x \in Ls(v)
  PROVE  LET k == v.mem[x].parent  p == v.gLinks[k]
         IN  k # 0 => /\ k \in LinkSlots /\ k # v.mem[x].id /\ p # None /\ p \in Ls(v) /\ p # x /\ v.mem[p].id = k
                      /\ v.mem[p].children - 1 \in Nat /\ v.gChildren - 1 \in Nat
<1> DEFINE k == v.mem[x].parent
           p == v.gLinks[k]
<1>1. v \in Worlds /\ Sorted(v) /\ Tabled(v) /\ Related(v) /\ v.mem[x] \in Links /\ v.gChildren \in Nat
  BY DEF Sound, Sorted, Ls, Worlds
<1> SUFFICES ASSUME k # 0
             PROVE  /\ k \in LinkSlots /\ k # v.mem[x].id /\ p # None /\ p \in Ls(v) /\ p # x /\ v.mem[p].id = k
                    /\ v.mem[p].children - 1 \in Nat /\ v.gChildren - 1 \in Nat
  OBVIOUS
<1>2. k \in LinkSlots /\ k # v.mem[x].id /\ p # None
  BY <1>1 DEF Links, Related
<1>3. p \in Ls(v) /\ v.mem[p].id = k /\ p # x
  BY <1>1, <1>2 DEF Tabled
<1>4. Ls(v) \in SUBSET LinkMem /\ IsFiniteSet(LinkMem)
  BY Finite DEF Ls
<1>5. v.mem[p].children - 1 \in Nat
  <2> DEFINE K == KinOf(v, k)
  <2>1. K # {} /\ K \in SUBSET LinkMem
    BY <1>4 DEF KinOf
  <2>2. v.mem[p].children = Cardinality(K)
    BY <1>1, <1>3 DEF Related
  <2> HIDE DEF K
  <2>3. Cardinality(K) \in Nat \ {0}
    BY <1>4, <2>1, CountPositive
  <2> QED
    BY <2>2, <2>3
<1>6. v.gChildren - 1 \in Nat
  <2> DEFINE K == Born(v)
  <2>1. K # {} /\ K \in SUBSET LinkMem
    BY <1>4 DEF Born
  <2>2. v.gChildren >= Cardinality(K)
    BY <1>1 DEF Related
  <2> HIDE DEF K
  <2>3. Cardinality(K) \in Nat \ {0}
    BY <1>4, <2>1, CountPositive
  <2> QED
    BY <1>1, <2>2, <2>3
<1> QED
  BY <1>2, <1>3, <1>5, <1>6

Unlisted(v, x) == [v EXCEPT !.gLinks[v.mem[x].id] = None]

\* The state e, in which x has left its parent in state v.
Left(v, e, x) ==
  LET k == v.mem[x].parent
      p == v.gLinks[k]
  IN  /\ e \in Worlds /\ e.failed = v.failed /\ e.ctx = v.ctx /\ e.msgs = v.msgs
      /\ e.gBundles = v.gBundles /\ e.gLinks = [v.gLinks EXCEPT ![v.mem[x].id] = None]
      /\ v.gChildren = IF k = 0 THEN e.gChildren ELSE e.gChildren + 1
      /\ \A y \in Mem : k = 0 \/ y # p => e.mem[y] = v.mem[y]
      /\ k # 0 => e.mem[p] = [v.mem[p] EXCEPT !.children = v.mem[p].children - 1]

LEMMA LeaveParentFields ==
  ASSUME NEW v, NEW h, NEW z, Sound(v, h, z), NEW x \in Ls(v)
  PROVE  Left(v, LeaveParent(Unlisted(v, x), x), x)
<1> DEFINE k == v.mem[x].parent
           p == v.gLinks[k]
           id == v.mem[x].id
           g == [v.gLinks EXCEPT ![id] = None]
           d == Unlisted(v, x)
           e == LeaveParent(d, x)
<1>1. /\ v \in Worlds /\ Sorted(v) /\ v.mem[x] \in Links /\ id \in LinkSlots /\ x \in LinkMem
  BY DEF Sound, Sorted, Ls, Links
<1>2. /\ d.mem = v.mem /\ d.gLinks = g /\ d.gBundles = v.gBundles /\ d.gChildren = v.gChildren
      /\ d.failed = v.failed /\ d.ctx = v.ctx /\ d.msgs = v.msgs /\ d \in Worlds
  BY <1>1 DEF Worlds, Unlisted
<1>3. k # 0 => /\ k \in LinkSlots /\ k # id /\ p # None /\ p \in Ls(v) /\ p # x /\ v.mem[p].id = k
               /\ v.mem[p].children - 1 \in Nat /\ v.gChildren - 1 \in Nat
  BY ParentThere
<1>4. CASE k = 0
  <2>1. e = d
    BY <1>2, <1>4 DEF LeaveParent
  <2> QED
    BY <1>2, <1>4, <2>1 DEF Left
<1>5. CASE k # 0
  <2> DEFINE o == [v.mem[p] EXCEPT !.children = v.mem[p].children - 1]
             f == [v.mem EXCEPT ![p] = o]
             n == v.gChildren - 1
  <2>1. g[k] = p
    BY <1>1, <1>3, <1>5 DEF Worlds
  <2>2. e = [d EXCEPT !.gChildren = @ - 1, !.mem[p].children = @ - 1]
    BY <1>2, <1>3, <1>5, <2>1 DEF LeaveParent
  <2>3. p \in LinkMem /\ p \in Mem /\ v.mem[p] \in Links
    BY <1>1, <1>3, <1>5, MemKinds DEF Ls, Sorted
  <2>4. o \in Links
    BY <1>3, <1>5, <2>3 DEF Links
  <2>5. v.mem \in [Mem -> Links \cup Bundles \cup {Freed}]
    BY <1>1 DEF Worlds
  <2>6. [d EXCEPT !.gChildren = @ - 1, !.mem[p].children = @ - 1] = [d EXCEPT !.gChildren = n, !.mem = f]
    BY <1>2, <2>3, <2>5 DEF Worlds, Links
  <2> HIDE DEF d, g, n, p
  <2>7. f \in [Mem -> Links \cup Bundles \cup {Freed}] /\ f[p] = o /\ \A y \in Mem : y # p => f[y] = v.mem[y]
    BY <2>3, <2>4, <2>5
  <2> HIDE DEF o, f, e
  <2>8. e = [d EXCEPT !.gChildren = n, !.mem = f]
    BY <2>2, <2>6
  <2>9. n \in Nat /\ v.gChildren = n + 1
    BY <1>1, <1>3, <1>5 DEF n, Worlds
  <2>10. /\ e \in Worlds /\ e.gChildren = n /\ e.mem = f /\ e.gLinks = d.gLinks /\ e.gBundles = d.gBundles
         /\ e.failed = d.failed /\ e.ctx = d.ctx /\ e.msgs = d.msgs
    BY <1>2, <2>7, <2>8, <2>9 DEF Worlds
  <2> QED
    BY <1>2, <1>5, <2>7, <2>9, <2>10 DEF g, n, e, o, d, p, Left
<1> QED
  BY <1>4, <1>5

LEMMA OrphanFields ==
  ASSUME NEW v, NEW h, NEW z, Sound(v, h, z), NEW x \in Ls(v)
  PROVE  LET e == LeaveParent(Unlisted(v, x), x)
             u == Orphan(e, x)
         IN  /\ u \in Worlds /\ u.failed = v.failed /\ u.ctx = v.ctx /\ u.msgs = v.msgs
             /\ u.gBundles = v.gBundles /\ u.gLinks = [v.gLinks EXCEPT ![v.mem[x].id] = None]
             /\ u.gChildren = e.gChildren
             /\ \A y \in Mem : u.mem[y] = IF y \in KinOf(v, v.mem[x].id) THEN [e.mem[y] EXCEPT !.parent = 0] ELSE e.mem[y]
<1> DEFINE id == v.mem[x].id
           k == v.mem[x].parent
           p == v.gLinks[k]
           e == LeaveParent(Unlisted(v, x), x)
           u == Orphan(e, x)
           mine == {y \in LiveLinks(e) : e.mem[y].parent = e.mem[x].id}
<1>1. /\ v \in Worlds /\ Sorted(v) /\ Tabled(v) /\ Related(v) /\ v.mem[x] \in Links /\ id \in LinkSlots /\ x \in LinkMem
  BY DEF Sound, Sorted, Ls, Links
<1>2. /\ e \in Worlds /\ e.failed = v.failed /\ e.ctx = v.ctx /\ e.msgs = v.msgs
      /\ e.gBundles = v.gBundles /\ e.gLinks = [v.gLinks EXCEPT ![id] = None]
      /\ \A y \in Mem : k = 0 \/ y # p => e.mem[y] = v.mem[y]
      /\ k # 0 => e.mem[p] = [v.mem[p] EXCEPT !.children = v.mem[p].children - 1]
  <2>1. Left(v, e, x)
    BY LeaveParentFields
  <2> HIDE DEF e
  <2> QED
    BY <2>1 DEF Left
<1>3. k # 0 => k \in LinkSlots /\ k # id /\ p \in Ls(v) /\ p # x
  BY ParentThere
<1> HIDE DEF e
<1>4. \A y \in Ls(v) : v.mem[y] \in Links /\ v.mem[y].id \in LinkSlots /\ y \in Mem /\ y # None
  BY <1>1, ListedLiving, MemKinds DEF Ls
<1>5. /\ \A y \in Ls(v) : /\ e.mem[y] \in Links /\ e.mem[y].parent = v.mem[y].parent
                          /\ e.mem[y].id = v.mem[y].id
      /\ e.mem[x] = v.mem[x]
  <2>1. e.mem[x] = v.mem[x]
    BY <1>2, <1>3, <1>4
  <2>2. ASSUME NEW y \in Ls(v)
        PROVE  e.mem[y] \in Links /\ e.mem[y].parent = v.mem[y].parent /\ e.mem[y].id = v.mem[y].id
    <3>1. CASE k = 0 \/ y # p
      BY <1>2, <1>4, <3>1
    <3>2. CASE k # 0 /\ y = p
      <4>1. v.mem[y].children - 1 \in Nat /\ v.mem[y] \in Links /\ e.mem[y] = [v.mem[y] EXCEPT !.children = v.mem[y].children - 1]
        BY <1>2, <1>4, <3>2, ParentThere
      <4> QED
        BY <4>1 DEF Links
    <3> QED
      BY <3>1, <3>2
  <2> QED
    BY <2>1, <2>2
<1>6. LiveLinks(e) = Ls(v) \ {x}
  <2>1. DOMAIN e.gLinks = LinkSlots /\ e.gLinks[id] = None /\ \A j \in LinkSlots \ {id} : e.gLinks[j] = v.gLinks[j]
    BY <1>1, <1>2 DEF Worlds
  <2>2. \A y \in LiveLinks(e) : y \in Ls(v) /\ y # x
    BY <1>1, <2>1 DEF LiveLinks, Listed, Tabled
  <2>3. \A y \in Ls(v) \ {x} : y \in LiveLinks(e)
    <3> SUFFICES ASSUME NEW y \in Ls(v) \ {x} PROVE y \in LiveLinks(e)
      OBVIOUS
    <3>1. v.gLinks[v.mem[y].id] = y /\ v.gLinks[id] = x /\ v.mem[y].id \in LinkSlots
      BY <1>1, <1>4 DEF Tabled
    <3>2. e.gLinks[v.mem[y].id] = y /\ y # None
      BY <1>4, <2>1, <3>1
    <3> QED
      BY <2>1, <3>1, <3>2 DEF LiveLinks, Listed
  <2> QED
    BY <2>2, <2>3
<1>7. x \notin KinOf(v, id)
  <2>1. id # 0
    BY <1>1, Finite
  <2> QED
    BY <1>3, <2>1 DEF KinOf
<1>8. mine = KinOf(v, id)
  BY <1>5, <1>6, <1>7 DEF KinOf
<1>9. CASE e.mem[x].children = 0
  <2>1. u = e
    BY <1>9 DEF Orphan
  <2>2. KinOf(v, id) = {}
    <3> DEFINE K == KinOf(v, id)
    <3>1. Cardinality(K) = 0
      BY <1>1, <1>5, <1>9 DEF Related
    <3>2. K \in SUBSET LinkMem /\ IsFiniteSet(LinkMem)
      BY Finite DEF KinOf, Ls
    <3> HIDE DEF K
    <3>3. K = {}
      BY <3>1, <3>2, CountPositive
    <3> QED
      BY <3>3 DEF K
  <2> QED
    BY <1>2, <2>1, <2>2 DEF e
<1>10. CASE e.mem[x].children # 0
  <2> DEFINE f == [y \in Mem |-> IF y \in mine THEN [e.mem[y] EXCEPT !.parent = 0] ELSE e.mem[y]]
  <2>1. u = [e EXCEPT !.mem = f]
    BY <1>10 DEF Orphan
  <2> HIDE DEF mine
  <2>2. ASSUME NEW y \in Mem PROVE f[y] \in Links \cup Bundles \cup {Freed}
    <3>1. CASE y \in mine
      <4>1. e.mem[y] \in Links
        BY <1>5, <1>8, <3>1 DEF KinOf
      <4>2. [e.mem[y] EXCEPT !.parent = 0] \in Links
        BY <4>1 DEF Links
      <4> QED
        BY <3>1, <4>2
    <3>2. CASE y \notin mine
      BY <1>2, <3>2 DEF Worlds
    <3> QED
      BY <3>1, <3>2
  <2>3. f \in [Mem -> Links \cup Bundles \cup {Freed}]
    BY <2>2
  <2>4. \A y \in Mem : f[y] = IF y \in KinOf(v, id) THEN [e.mem[y] EXCEPT !.parent = 0] ELSE e.mem[y]
    BY <1>8
  <2> HIDE DEF f, u
  <2>5. u \in Worlds
    BY <1>2, <2>1, <2>3 DEF Worlds
  <2>6. /\ u.failed = e.failed /\ u.ctx = e.ctx /\ u.msgs = e.msgs /\ u.gBundles = e.gBundles
        /\ u.gLinks = e.gLinks /\ u.gChildren = e.gChildren /\ u.mem = f
    BY <1>2, <2>1 DEF Worlds
  <2> QED
    BY <1>2, <2>4, <2>5, <2>6 DEF u, e
<1> QED
  BY <1>9, <1>10

LEMMA BuriedFields ==
  ASSUME NEW v, NEW h, NEW z, Sound(v, h, z), NEW x \in Ls(v)
  PROVE  LET e == Orphan(LeaveParent(Unlisted(v, x), x), x)
         IN  Buried(v, [e EXCEPT !.mem[x] = DeadLink(v.mem[x].refs, v.mem[x].lcp)], x)
<1> DEFINE id == v.mem[x].id
           k == v.mem[x].parent
           p == v.gLinks[k]
           i == LeaveParent(Unlisted(v, x), x)
           e == Orphan(i, x)
           o == DeadLink(v.mem[x].refs, v.mem[x].lcp)
           u == [e EXCEPT !.mem[x] = o]
<1>1. /\ v \in Worlds /\ Sorted(v) /\ Tabled(v) /\ Related(v) /\ v.mem[x] \in Links /\ x \in LinkMem /\ id \in LinkSlots
  BY DEF Sound, Sorted, Ls, Links
<1>2. /\ i \in Worlds
      /\ v.gChildren = IF k = 0 THEN i.gChildren ELSE i.gChildren + 1
      /\ \A y \in Mem : k = 0 \/ y # p => i.mem[y] = v.mem[y]
      /\ k # 0 => i.mem[p] = [v.mem[p] EXCEPT !.children = v.mem[p].children - 1]
  <2>1. Left(v, i, x)
    BY LeaveParentFields
  <2> HIDE DEF i
  <2> QED
    BY <2>1 DEF Left
<1>3. /\ e \in Worlds /\ e.failed = v.failed /\ e.ctx = v.ctx /\ e.msgs = v.msgs
      /\ e.gBundles = v.gBundles /\ e.gLinks = [v.gLinks EXCEPT ![id] = None]
      /\ e.gChildren = i.gChildren
      /\ \A y \in Mem : e.mem[y] = IF y \in KinOf(v, id) THEN [i.mem[y] EXCEPT !.parent = 0] ELSE i.mem[y]
  BY OrphanFields
<1> HIDE DEF e, i
<1>4. k # 0 => k \in LinkSlots /\ k # id /\ p \in Ls(v) /\ p # x /\ v.mem[p].id = k /\ v.mem[p].children - 1 \in Nat
  BY ParentThere
<1>5. \A y \in Ls(v) : v.mem[y] \in Links /\ v.mem[y].id \in LinkSlots /\ y \in Mem /\ y \in LinkMem
  BY <1>1, ListedLiving, MemKinds DEF Ls
<1>6. ASSUME NEW y \in Ls(v) \ {x} PROVE Bereft(v.mem[y], e.mem[y], k, id)
  <2> DEFINE l == v.mem[y]
  <2>1. l \in Links /\ y \in Mem
    BY <1>5
  <2>2. l.id = k <=> k # 0 /\ y = p
    <3>1. l.id # 0 /\ v.gLinks[l.id] = y
      BY <1>1, <1>5, Finite DEF Tabled
    <3> QED
      BY <1>4, <3>1
  <2>3. y \in KinOf(v, id) <=> l.parent = id
    BY DEF KinOf
  <2>4. i.mem[y] = IF l.id = k THEN [l EXCEPT !.children = l.children - 1] ELSE l
    BY <1>2, <2>1, <2>2
  <2>5. l.id = k => l.children - 1 \in Nat
    BY <1>4, <2>2
  <2>6. e.mem[y] = IF l.parent = id THEN [i.mem[y] EXCEPT !.parent = 0] ELSE i.mem[y]
    BY <1>3, <2>1, <2>3
  <2> HIDE DEF l
  <2> DEFINE n == IF l.id = k THEN l.children - 1 ELSE l.children
  <2>7. n \in Nat /\ l.children = IF l.id = k THEN n + 1 ELSE n
    BY <2>1, <2>5 DEF Links
  <2>8. i.mem[y] = [l EXCEPT !.children = n]
    BY <2>1, <2>4 DEF Links
  <2> HIDE DEF n
  <2>9. /\ i.mem[y] \in Links /\ i.mem[y].children = n /\ i.mem[y].parent = l.parent
        /\ i.mem[y].refs = l.refs /\ i.mem[y].dead = l.dead /\ i.mem[y].id = l.id /\ i.mem[y].tmpl = l.tmpl
        /\ i.mem[y].stay = l.stay /\ i.mem[y].die = l.die /\ i.mem[y].lcp = l.lcp /\ i.mem[y].busy = l.busy
        /\ i.mem[y].bund = l.bund /\ i.mem[y].joined = l.joined /\ i.mem[y].cut = l.cut
    BY <2>1, <2>7, <2>8 DEF Links
  <2>10. Bereft(l, e.mem[y], k, id)
    <3>1. CASE l.parent = id
      <4>1. e.mem[y] = [i.mem[y] EXCEPT !.parent = 0]
        BY <2>6, <3>1
      <4> QED
        BY <2>7, <2>9, <3>1, <4>1 DEF Bereft, Links
    <3>2. CASE l.parent # id
      BY <2>6, <2>7, <2>9, <3>2 DEF Bereft
    <3> QED
      BY <3>1, <3>2
  <2> QED
    BY <2>10 DEF l
<1>7. ASSUME NEW y \in Mem, y \notin Ls(v) PROVE e.mem[y] = v.mem[y]
  <2>1. y \notin KinOf(v, id)
    BY <1>7 DEF KinOf
  <2>2. k = 0 \/ y # p
    BY <1>4, <1>7
  <2> QED
    BY <1>2, <1>3, <1>7, <2>1, <2>2
<1>8. o \in Links
  <2>1. v.mem[x].refs \in Nat /\ v.mem[x].lcp \in LcpStates
    BY <1>1 DEF Links
  <2> QED
    BY <1>1, <2>1, DeadLinkThere
<1> HIDE DEF o
<1>9. /\ u.mem = [e.mem EXCEPT ![x] = o] /\ u.gLinks = e.gLinks /\ u.gBundles = e.gBundles /\ u.gChildren = e.gChildren
      /\ u.failed = e.failed /\ u.ctx = e.ctx /\ u.msgs = e.msgs /\ DOMAIN e.mem = Mem
  BY <1>3 DEF Worlds
<1>10. u \in Worlds
  BY <1>3, <1>8 DEF Worlds
<1> HIDE DEF u
<1>11. u.mem[x] = o /\ \A y \in Mem \ {x} : u.mem[y] = e.mem[y]
  BY <1>1, <1>9, MemKinds
<1>12. \A b \in BundMem : u.mem[b] = v.mem[b]
  BY <1>1, <1>7, <1>11, MemKinds DEF Ls
<1>13. \A y \in LinkMem \ {x} : y \notin Ls(v) => u.mem[y] = v.mem[y]
  BY <1>7, <1>11, MemKinds
<1>14. \A y \in Ls(v) \ {x} : Bereft(v.mem[y], u.mem[y], k, id)
  BY <1>5, <1>6, <1>11
<1>15. Sorted(u)
  <2>1. \A b \in BundMem : u.mem[b] \in Bundles \cup {Freed}
    BY <1>1, <1>12 DEF Sorted
  <2>2. ASSUME NEW y \in LinkMem PROVE u.mem[y] \in Links \cup {Freed}
    <3>1. CASE y = x
      BY <1>8, <1>11, <3>1
    <3>2. CASE y # x /\ y \in Ls(v)
      BY <1>14, <3>2 DEF Bereft
    <3>3. CASE y # x /\ y \notin Ls(v)
      BY <1>1, <1>13, <3>3 DEF Sorted
    <3> QED
      BY <3>1, <3>2, <3>3
  <2> QED
    BY <2>1, <2>2 DEF Sorted
<1>16. v.gChildren = IF k = 0 THEN u.gChildren ELSE u.gChildren + 1
  BY <1>2, <1>3, <1>9
<1>17. Buried(v, u, x)
  BY <1>3, <1>9, <1>10, <1>11, <1>12, <1>13, <1>14, <1>15, <1>16 DEF Buried, o
<1> QED
  BY <1>17 DEF u, o, e, i

\* An entry of a table is another, the rest of what holds is the same.
LinkSlot(v, u, k) ==
  /\ k \in LinkSlots /\ \A j \in LinkSlots \ {k} : u.gLinks[j] = v.gLinks[j]
  /\ u.gBundles = v.gBundles /\ u.ctx = v.ctx /\ u.msgs = v.msgs

BundSlot(v, u, k) ==
  /\ k \in BundSlots /\ \A j \in BundSlots \ {k} : u.gBundles[j] = v.gBundles[j]
  /\ u.gLinks = v.gLinks /\ u.ctx = v.ctx /\ u.msgs = v.msgs

LEMMA SetLinkHeld ==
  ASSUME NEW v \in Worlds, NEW u \in Worlds, NEW k, LinkSlot(v, u, k), NEW y
  PROVE  Held(u, y) + One(v.gLinks[k], y) = Held(v, y) + One(u.gLinks[k], y)
<1> DEFINE n == u.gLinks[k]
<1> USE DEF LinkSlot
<1>1. k \in LinkSlots /\ \A j \in LinkSlots \ {k} : v.gLinks[j] = u.gLinks[j]
  OBVIOUS
<1>2. InLinks(u, y) + One(v.gLinks[k], y) = InLinks(v, y) + One(n, y)
  <2> DEFINE f == v.gLinks  g == u.gLinks
  <2>1. Count(LinkSlots, f, y) = InLinks(v, y) /\ Count(LinkSlots, g, y) = InLinks(u, y)
    BY DEF Count, InLinks
  <2>2. (\A j \in LinkSlots \ {k} : f[j] = g[j]) /\ IsFiniteSet(LinkSlots)
    BY <1>1, Finite
  <2> HIDE DEF f, g
  <2>3. Count(LinkSlots, g, y) + One(f[k], y) = Count(LinkSlots, f, y) + One(g[k], y)
    BY <2>2, CountEntry
  <2> QED
    BY <1>1, <2>1, <2>3 DEF f, g
<1>3. /\ InBunds(u, y) = InBunds(v, y) /\ AsLink(u, y) = AsLink(v, y)
      /\ AsBund(u, y) = AsBund(v, y) /\ AsTarget(u, y) = AsTarget(v, y)
  BY DEF InBunds, AsLink, AsBund, AsTarget
<1>4. One(v.gLinks[k], y) \in Nat /\ One(n, y) \in Nat
  BY DEF One
<1> DEFINE a == One(v.gLinks[k], y)  e == One(n, y)
<1> HIDE DEF a, e
<1>5. a \in Nat /\ e \in Nat /\ InLinks(u, y) + a = InLinks(v, y) + e
  BY <1>2, <1>4 DEF a, e
<1>6. Held(u, y) + a = Held(v, y) + e
  <2>1. /\ Held(v, y) = InLinks(v, y) + InBunds(v, y) + AsLink(v, y) + AsBund(v, y) + AsTarget(v, y)
        /\ InLinks(v, y) \in Nat /\ InBunds(v, y) \in Nat /\ AsLink(v, y) \in Nat
        /\ AsBund(v, y) \in Nat /\ AsTarget(v, y) \in Nat
    BY HeldParts
  <2>2. Held(u, y) = InLinks(u, y) + InBunds(u, y) + AsLink(u, y) + AsBund(u, y) + AsTarget(u, y)
        /\ InLinks(u, y) \in Nat
    BY HeldParts
  <2> QED
    BY <1>3, <1>5, <2>1, <2>2
<1> QED
  BY <1>6 DEF a, e

LEMMA SetBundHeld ==
  ASSUME NEW v \in Worlds, NEW u \in Worlds, NEW k, BundSlot(v, u, k), NEW y
  PROVE  Held(u, y) + One(v.gBundles[k], y) = Held(v, y) + One(u.gBundles[k], y)
<1> DEFINE n == u.gBundles[k]
<1> USE DEF BundSlot
<1>1. k \in BundSlots /\ \A j \in BundSlots \ {k} : v.gBundles[j] = u.gBundles[j]
  OBVIOUS
<1>2. InBunds(u, y) + One(v.gBundles[k], y) = InBunds(v, y) + One(n, y)
  <2> DEFINE f == v.gBundles  g == u.gBundles
  <2>1. Count(BundSlots, f, y) = InBunds(v, y) /\ Count(BundSlots, g, y) = InBunds(u, y)
    BY DEF Count, InBunds
  <2>2. (\A j \in BundSlots \ {k} : f[j] = g[j]) /\ IsFiniteSet(BundSlots)
    BY <1>1, Finite
  <2> HIDE DEF f, g
  <2>3. Count(BundSlots, g, y) + One(f[k], y) = Count(BundSlots, f, y) + One(g[k], y)
    BY <2>2, CountEntry
  <2> QED
    BY <1>1, <2>1, <2>3 DEF f, g
<1>3. /\ InLinks(u, y) = InLinks(v, y) /\ AsLink(u, y) = AsLink(v, y)
      /\ AsBund(u, y) = AsBund(v, y) /\ AsTarget(u, y) = AsTarget(v, y)
  BY DEF InLinks, AsLink, AsBund, AsTarget
<1>4. One(v.gBundles[k], y) \in Nat /\ One(n, y) \in Nat
  BY DEF One
<1> DEFINE a == One(v.gBundles[k], y)  e == One(n, y)
<1> HIDE DEF a, e
<1>5. a \in Nat /\ e \in Nat /\ InBunds(u, y) + a = InBunds(v, y) + e
  BY <1>2, <1>4 DEF a, e
<1>6. Held(u, y) + a = Held(v, y) + e
  <2>1. /\ Held(v, y) = InLinks(v, y) + InBunds(v, y) + AsLink(v, y) + AsBund(v, y) + AsTarget(v, y)
        /\ InLinks(v, y) \in Nat /\ InBunds(v, y) \in Nat /\ AsLink(v, y) \in Nat
        /\ AsBund(v, y) \in Nat /\ AsTarget(v, y) \in Nat
    BY HeldParts
  <2>2. Held(u, y) = InLinks(u, y) + InBunds(u, y) + AsLink(u, y) + AsBund(u, y) + AsTarget(u, y)
        /\ InBunds(u, y) \in Nat
    BY HeldParts
  <2> QED
    BY <1>3, <1>5, <2>1, <2>2
<1> QED
  BY <1>6 DEF a, e

LEMMA BuriedFit ==
  ASSUME NEW v, NEW h, NEW z, Sound(v, h, z), NEW x \in Ls(v), v.mem[x].bund = None, NEW u, Buried(v, u, x)
  PROVE  /\ Fit(u, h) /\ Ls(u) = Ls(v) \ {x} /\ Bs(u) = Bs(v) /\ Positive(u)
         /\ \A y \in Mem : Refs(u, y) = Refs(v, y) /\ Held(u, y) + One(x, y) = Held(v, y)
<1> DEFINE id == v.mem[x].id
           k == v.mem[x].parent
<1>1. /\ v \in Worlds /\ v.failed = "none" /\ Sorted(v) /\ Tabled(v) /\ Married(v) /\ Related(v)
      /\ Blank(v) /\ Still(v) /\ Shut(v, h) /\ Counted(v, z)
  BY DEF Sound
<1>2. /\ u \in Worlds /\ Sorted(u) /\ u.failed = "none" /\ u.ctx = v.ctx /\ u.msgs = v.msgs
      /\ u.gBundles = v.gBundles /\ u.gLinks = [v.gLinks EXCEPT ![id] = None]
      /\ v.gChildren = IF k = 0 THEN u.gChildren ELSE u.gChildren + 1
      /\ u.mem[x] = DeadLink(v.mem[x].refs, v.mem[x].lcp)
      /\ \A b \in BundMem : u.mem[b] = v.mem[b]
      /\ \A y \in LinkMem \ {x} : y \notin Ls(v) => u.mem[y] = v.mem[y]
      /\ \A y \in Ls(v) \ {x} : Bereft(v.mem[y], u.mem[y], k, id)
  BY <1>1 DEF Buried
<1>3. x \in LinkMem /\ v.mem[x] \in Links /\ v.mem[x] # Freed /\ id \in LinkSlots /\ v.gLinks[id] = x
  BY <1>1, MemKinds DEF Ls, Sorted, Links, Tabled
<1>4. /\ u.mem[x] # Freed /\ u.mem[x].dead /\ u.mem[x].refs = v.mem[x].refs
      /\ ~ u.mem[x].tmpl /\ ~ u.mem[x].busy
  <2>1. DeadLink(v.mem[x].refs, v.mem[x].lcp) \in Links
    <3>1. v.mem[x].refs \in Nat /\ v.mem[x].lcp \in LcpStates
      BY <1>3 DEF Links
    <3> QED
      BY <1>3, <3>1, DeadLinkThere
  <2> QED
    BY <1>2, <2>1, MemKinds DEF DeadLink, NewLink
<1>5. \A y \in Ls(v) \ {x} :
        /\ u.mem[y] \in Links /\ u.mem[y] # Freed /\ ~ u.mem[y].dead
        /\ u.mem[y].refs = v.mem[y].refs /\ u.mem[y].id = v.mem[y].id /\ u.mem[y].tmpl = v.mem[y].tmpl
        /\ u.mem[y].die = v.mem[y].die /\ u.mem[y].lcp = v.mem[y].lcp /\ u.mem[y].busy = v.mem[y].busy
        /\ u.mem[y].bund = v.mem[y].bund /\ u.mem[y].joined = v.mem[y].joined /\ u.mem[y].cut = v.mem[y].cut
        /\ u.mem[y].parent = IF v.mem[y].parent = id THEN 0 ELSE v.mem[y].parent
        /\ v.mem[y].children = IF v.mem[y].id = k THEN u.mem[y].children + 1 ELSE u.mem[y].children
        /\ u.mem[y].children \in Nat
  <2> SUFFICES ASSUME NEW y \in Ls(v) \ {x}
               PROVE  /\ u.mem[y] \in Links /\ u.mem[y] # Freed /\ ~ u.mem[y].dead
                      /\ u.mem[y].refs = v.mem[y].refs /\ u.mem[y].id = v.mem[y].id /\ u.mem[y].tmpl = v.mem[y].tmpl
                      /\ u.mem[y].die = v.mem[y].die /\ u.mem[y].lcp = v.mem[y].lcp /\ u.mem[y].busy = v.mem[y].busy
                      /\ u.mem[y].bund = v.mem[y].bund /\ u.mem[y].joined = v.mem[y].joined
                      /\ u.mem[y].cut = v.mem[y].cut
                      /\ u.mem[y].parent = IF v.mem[y].parent = id THEN 0 ELSE v.mem[y].parent
                      /\ v.mem[y].children = IF v.mem[y].id = k THEN u.mem[y].children + 1 ELSE u.mem[y].children
                      /\ u.mem[y].children \in Nat
    BY Zenon
  <2>1. Bereft(v.mem[y], u.mem[y], k, id) /\ ~ v.mem[y].dead
    BY <1>2 DEF Ls
  <2> QED
    BY <2>1, MemKinds DEF Bereft, Links
<1>6. Ls(u) = Ls(v) \ {x} /\ Bs(u) = Bs(v)
  <2>1. Ls(u) = Ls(v) \ {x}
    BY <1>2, <1>4, <1>5 DEF Ls
  <2>2. Bs(u) = Bs(v)
    BY <1>2 DEF Bs
  <2> QED
    BY <2>1, <2>2
<1>7. \A y \in Ls(v) \ {x} : v.mem[y].id # id
  BY <1>1, <1>3 DEF Tabled
<1>8. Tabled(u)
  <2>1. DOMAIN v.gLinks = LinkSlots /\ u.gLinks[id] = None /\ \A j \in LinkSlots \ {id} : u.gLinks[j] = v.gLinks[j]
    BY <1>1, <1>2, <1>3 DEF Worlds
  <2>2. ASSUME NEW j \in LinkSlots, u.gLinks[j] # None PROVE u.gLinks[j] \in Ls(u) /\ u.mem[u.gLinks[j]].id = j
    <3>1. j # id /\ u.gLinks[j] = v.gLinks[j]
      BY <2>1, <2>2
    <3>2. v.gLinks[j] \in Ls(v) /\ v.mem[v.gLinks[j]].id = j
      BY <1>1, <2>2, <3>1 DEF Tabled
    <3> QED
      BY <1>5, <1>6, <3>1, <3>2
  <2>3. ASSUME NEW y \in Ls(u) PROVE u.gLinks[u.mem[y].id] = y
    <3>1. v.gLinks[v.mem[y].id] = y /\ v.mem[y].id \in LinkSlots
      BY <1>1, <1>6, <2>3, ListedLiving DEF Tabled
    <3> QED
      BY <1>5, <1>6, <1>7, <2>1, <2>3, <3>1
  <2>4. \A j \in BundSlots : u.gBundles[j] # None => u.gBundles[j] \in Bs(u) /\ u.mem[u.gBundles[j]].id = j
    BY <1>1, <1>2, <1>6 DEF Tabled, Bs
  <2>5. \A b \in Bs(u) : u.gBundles[u.mem[b].id] = b
    BY <1>1, <1>2, <1>6 DEF Tabled, Bs
  <2> QED
    BY <2>2, <2>3, <2>4, <2>5 DEF Tabled
<1>9. Married(u)
  <2>1. \A b \in Bs(v) : u.mem[b] = v.mem[b] /\ (~ v.mem[b].robbed => v.mem[b].link # x)
    BY <1>1, <1>2, MemKinds DEF Married, Bs, Ls
  <2>2. ASSUME NEW y \in Ls(u)
        PROVE  /\ u.mem[y].bund # None => u.mem[y].bund \in Bs(u) /\ u.mem[u.mem[y].bund].link = y
               /\ u.mem[y].joined => u.mem[y].lcp = "up" /\ (u.mem[y].bund # None \/ u.mem[y].cut)
               /\ u.mem[y].bund # None /\ u.mem[y].joined => u.mem[u.mem[y].bund].n_up >= 1
    BY <1>1, <1>5, <1>6, <2>1, <2>2 DEF Married
  <2>3. ASSUME NEW b \in Bs(u), ~ u.mem[b].robbed
        PROVE  /\ u.mem[b].link # None => u.mem[b].link \in Ls(u) /\ u.mem[u.mem[b].link].bund = b
               /\ u.mem[b].n_up = IF u.mem[b].link # None /\ u.mem[u.mem[b].link].joined THEN 1 ELSE 0
    <3>1. /\ u.mem[b] = v.mem[b] /\ v.mem[b].link # x
          /\ v.mem[b].link # None => v.mem[b].link \in Ls(v) /\ v.mem[v.mem[b].link].bund = b
          /\ v.mem[b].n_up = IF v.mem[b].link # None /\ v.mem[v.mem[b].link].joined THEN 1 ELSE 0
      BY <1>1, <1>6, <2>1, <2>3 DEF Married
    <3>2. v.mem[b].link # None => /\ v.mem[b].link \in Ls(u)
                                 /\ u.mem[v.mem[b].link].bund = v.mem[v.mem[b].link].bund
                                 /\ u.mem[v.mem[b].link].joined = v.mem[v.mem[b].link].joined
      BY <1>5, <1>6, <3>1
    <3> QED
      BY <3>1, <3>2
  <2> QED
    BY <2>2, <2>3 DEF Married
<1>10. Related(u)
  <2>1. ASSUME NEW y \in Ls(u), u.mem[y].parent # 0
        PROVE  u.mem[y].parent # u.mem[y].id /\ u.gLinks[u.mem[y].parent] # None
    <3>1. u.mem[y].parent = v.mem[y].parent /\ v.mem[y].parent # id /\ v.mem[y].parent # 0 /\ y \in Ls(v)
      BY <1>5, <1>6, <2>1
    <3>2. v.mem[y].parent \in LinkSlots
      BY <1>1, <3>1, ListedLiving DEF Links
    <3>3. u.gLinks[v.mem[y].parent] = v.gLinks[v.mem[y].parent]
      BY <1>1, <1>2, <3>1, <3>2 DEF Worlds
    <3> QED
      BY <1>1, <1>5, <1>6, <2>1, <3>1, <3>3 DEF Related
  <2>2. ASSUME NEW y \in Ls(u) PROVE u.mem[y].children = Cardinality(KinOf(u, u.mem[y].id))
    <3> DEFINE j == v.mem[y].id
               P == KinOf(v, j)
               Q == KinOf(u, j)
    <3>1. y \in Ls(v) \ {x} /\ j # id /\ u.mem[y].id = j /\ j \in LinkSlots /\ j # 0
      BY <1>1, <1>5, <1>6, <1>7, <2>2, ListedLiving, Finite
    <3>2. P \in SUBSET LinkMem /\ Q \in SUBSET LinkMem /\ x \notin Q /\ (x \in P <=> k = j)
      BY <1>6 DEF KinOf, Ls
    <3>3. \A c \in LinkMem \ {x} : c \in P <=> c \in Q
      BY <1>5, <1>6, <3>1 DEF KinOf
    <3>4. v.mem[y].children = Cardinality(P)
      BY <1>1, <3>1 DEF Related
    <3>5. v.mem[y].children = (IF j = k THEN u.mem[y].children + 1 ELSE u.mem[y].children) /\ u.mem[y].children \in Nat
      BY <1>5, <3>1
    <3>6. IsFiniteSet(LinkMem)
      BY Finite
    <3> HIDE DEF P, Q, j
    <3>7. Cardinality(Q) + (IF x \in P THEN 1 ELSE 0) = Cardinality(P) + (IF x \in Q THEN 1 ELSE 0)
          /\ Cardinality(P) \in Nat /\ Cardinality(Q) \in Nat
      BY <1>3, <3>2, <3>3, <3>6, CountChange
    <3>8. u.mem[y].children = Cardinality(Q)
      BY <3>2, <3>4, <3>5, <3>7
    <3> QED
      BY <3>1, <3>8 DEF Q
  <2>3. u.gChildren >= Cardinality(Born(u))
    <3> DEFINE P == Born(v)
               Q == Born(u)
    <3>1. P \in SUBSET LinkMem /\ IsFiniteSet(LinkMem) /\ (x \in P <=> k # 0)
      BY Finite DEF Born, Ls
    <3>2. Q \subseteq P \ {x}
      BY <1>5, <1>6 DEF Born
    <3>3. v.gChildren >= Cardinality(P) /\ v.gChildren \in Nat /\ u.gChildren \in Nat
      BY <1>1, <1>2 DEF Related, Worlds
    <3> HIDE DEF P, Q
    <3>4. IsFiniteSet(P) /\ IsFiniteSet(P \ {x})
      BY <3>1, FS_Subset, Zenon
    <3>5. Cardinality(P) \in Nat /\ Cardinality(Q) \in Nat /\ Cardinality(P \ {x}) \in Nat /\ Cardinality(Q) <= Cardinality(P \ {x})
      BY <3>2, <3>4, FS_Subset, FS_CardinalityType, Zenon
    <3>6. Cardinality(P \ {x}) = IF x \in P THEN Cardinality(P) - 1 ELSE Cardinality(P)
      BY <3>4, FS_RemoveElement, Zenon
    <3>7. u.gChildren >= Cardinality(Q)
      BY <1>2, <3>1, <3>3, <3>5, <3>6
    <3> QED
      BY <3>7 DEF Q
  <2> QED
    BY <2>1, <2>2, <2>3 DEF Related
<1>11. Blank(u)
  <2>1. ASSUME NEW y \in LinkMem \ Ls(u), u.mem[y] # Freed
        PROVE  ~ u.mem[y].tmpl /\ ~ u.mem[y].busy
    BY <1>1, <1>2, <1>4, <1>6, <2>1 DEF Blank
  <2>2. \A b \in BundMem \ Bs(u) : u.mem[b] # Freed => ~ u.mem[b].tmpl /\ u.mem[b].n_up = 0
    BY <1>1, <1>2, <1>6 DEF Blank
  <2> QED
    BY <2>1, <2>2 DEF Blank
<1>12. \A y : (Queued(u, y) <=> Queued(v, y)) /\ (Dies(u, y) <=> Dies(v, y))
  BY <1>2 DEF Queued, Dies
<1>13. Still(u)
  <2>1. \A b \in Bs(u) : /\ u.mem[b].tmpl => u.mem[b].link = None /\ ~ Queued(u, b)
                         /\ u.mem[b].link \in Ls(u) => ~ u.mem[u.mem[b].link].tmpl
    BY <1>1, <1>2, <1>5, <1>6, <1>12 DEF Still, Bs
  <2>2. \A y \in Ls(u) : u.mem[y].tmpl =>
          u.mem[y].lcp = "initial" /\ ~ u.mem[y].busy /\ u.mem[y].bund = None /\ ~ Queued(u, y)
    BY <1>1, <1>5, <1>6, <1>12 DEF Still
  <2> QED
    BY <2>1, <2>2 DEF Still
<1>14. Shut(u, h)
  BY <1>1, <1>5, <1>6, <1>12 DEF Shut
<1>15. \A y \in Mem : Refs(u, y) = Refs(v, y) /\ (u.mem[y] # Freed => u.mem[y].refs >= 1)
  <2> SUFFICES ASSUME NEW y \in Mem
               PROVE  Refs(u, y) = Refs(v, y) /\ (u.mem[y] # Freed => u.mem[y].refs >= 1)
    OBVIOUS
  <2>1. CASE y = x
    BY <1>1, <1>3, <1>4, <2>1 DEF Refs, Counted
  <2>2. CASE y \in Ls(v) \ {x}
    BY <1>1, <1>5, <2>2 DEF Refs, Counted, Ls
  <2>3. CASE y # x /\ y \notin Ls(v)
    <3>1. u.mem[y] = v.mem[y]
      BY <1>2, <2>3, MemKinds
    <3> QED
      BY <1>1, <3>1 DEF Refs, Counted
  <2> QED
    BY <2>1, <2>2, <2>3
<1>16. \A y \in Mem : Held(u, y) + One(x, y) = Held(v, y)
  <2> SUFFICES ASSUME NEW y \in Mem PROVE Held(u, y) + One(x, y) = Held(v, y)
    OBVIOUS
  <2>1. Held(u, y) + One(v.gLinks[id], y) = Held(v, y) + One(None, y)
    <3>1. u.gLinks[id] = None /\ \A j \in LinkSlots \ {id} : u.gLinks[j] = v.gLinks[j]
      BY <1>1, <1>2, <1>3 DEF Worlds
    <3>2. Held(u, y) + One(v.gLinks[id], y) = Held(v, y) + One(u.gLinks[id], y)
      <4>1. LinkSlot(v, u, id)
        BY <1>2, <1>3, <3>1 DEF LinkSlot
      <4>2. v \in Worlds /\ u \in Worlds
        BY <1>1, <1>2
      <4> HIDE DEF id
      <4> QED
        BY <4>1, <4>2, SetLinkHeld
    <3> QED
      BY <3>1, <3>2
  <2>2. One(None, y) = 0 /\ Held(v, y) \in Nat
    BY <1>1, HeldParts, MemKinds DEF One
  <2> QED
    BY <1>3, <2>1, <2>2
<1>17. Fit(u, h)
  BY <1>2, <1>8, <1>9, <1>10, <1>11, <1>13, <1>14 DEF Fit
<1>18. Positive(u)
  BY <1>15 DEF Positive
<1> QED
  BY <1>6, <1>15, <1>16, <1>17, <1>18

\* The last step of a shutdown: x has left its table and is unreferenced.
LEMMA UnrefDead ==
  ASSUME NEW c, NEW h, NEW z, Sound(c, h, z), NEW v, Fit(v, h), Positive(v), NEW x \in Mem, v.mem[x] # Freed,
         x \notin Ls(v) \cup Bs(v),
         \A y \in Mem : Refs(v, y) = Refs(c, y) /\ Held(v, y) + One(x, y) = Held(c, y)
  PROVE  LET u == Unref(v, x)
         IN  /\ Sound(u, h, z) /\ Recounted(v, u) /\ u.ctx = v.ctx /\ u.msgs = v.msgs
             /\ \A y \in Mem \ {x} : u.mem[y] = v.mem[y]
<1> DEFINE u == Unref(v, x)
<1>1. v \in Worlds /\ Sorted(v)
  BY DEF Fit
<1>2. /\ Recounted(v, u) /\ u.ctx = v.ctx /\ u.msgs = v.msgs /\ Positive(u)
      /\ \A y \in Mem : Refs(u, y) = Refs(v, y) - One(x, y)
      /\ \A y \in Mem \ {x} : u.mem[y] = v.mem[y]
  BY <1>1, UnrefFields
<1> HIDE DEF u
<1>3. \A y : Held(u, y) = Held(v, y) /\ (Queued(u, y) <=> Queued(v, y)) /\ (Dies(u, y) <=> Dies(v, y))
  <2>1. u.gLinks = v.gLinks /\ u.gBundles = v.gBundles
    BY <1>2 DEF Recounted
  <2> QED
    BY <1>2, <2>1, HeldSame
<1>4. Fit(u, h)
  BY <1>2, <1>3, RecountedFit
<1>5. Counted(u, z)
  <2> SUFFICES ASSUME NEW y \in Mem
               PROVE  /\ Refs(u, y) = Held(u, y) + (IF y = z THEN 1 ELSE 0)
                      /\ u.mem[y] # Freed => u.mem[y].refs >= 1
    BY DEF Counted
  <2>1. /\ Refs(c, y) = Held(c, y) + One(z, y) /\ Held(c, y) \in Nat
        /\ Refs(u, y) = Refs(c, y) - One(x, y) /\ Held(u, y) + One(x, y) = Held(c, y)
    BY <1>2, <1>3, SoundHeld
  <2>2. Held(u, y) \in Nat /\ One(x, y) \in Nat /\ One(z, y) = IF y = z THEN 1 ELSE 0
    BY <1>4, HeldParts DEF One, Fit
  <2>3. Refs(u, y) = Held(u, y) + (IF y = z THEN 1 ELSE 0)
    BY <2>1, <2>2
  <2> QED
    BY <1>2, <2>3 DEF Positive
<1>6. Sound(u, h, z)
  BY <1>4, <1>5 DEF Sound, Fit
<1> QED
  BY <1>2, <1>6 DEF u

LEMMA LinkShutdownSound ==
  ASSUME NEW v, NEW h, NEW z, Sound(v, h, z), NEW x \in Ls(v),
         v.mem[x].joined /\ v.mem[x].bund # None => v.mem[x].cut /\ v.mem[v.mem[x].bund].robbed
  PROVE  LET u == LinkShutdown(v, x)
         IN  /\ Sound(u, h, z) /\ Ls(u) = Ls(v) \ {x} /\ Bs(u) = Bs(v) /\ u.gBundles = v.gBundles
             /\ u.ctx = v.ctx /\ u.msgs = v.msgs
             /\ Widowed(v, u, x)
<1> DEFINE c == Divorce(v, x)
           e == Orphan(LeaveParent(Unlisted(c, x), x), x)
           d == [e EXCEPT !.mem[x] = DeadLink(c.mem[x].refs, c.mem[x].lcp)]
           u == Unref(d, x)
<1>1. x \in LinkMem /\ x \in Mem /\ v.mem[x] \in Links /\ ~ v.mem[x].dead
  BY MemKinds DEF Sound, Sorted, Ls
<1>2. /\ Sound(c, h, z) /\ Ls(c) = Ls(v) /\ Bs(c) = Bs(v) /\ c.gBundles = v.gBundles
      /\ c.ctx = v.ctx /\ c.msgs = v.msgs
      /\ c.mem[x] = [v.mem[x] EXCEPT !.bund = None]
      /\ Widowed(v, c, x)
  BY DivorceSound
<1>3. c.mem[x].id = v.mem[x].id /\ c.mem[x].refs = v.mem[x].refs /\ c.mem[x].bund = None /\ c.mem[x].lcp = v.mem[x].lcp
  BY <1>1, <1>2 DEF Links
<1>4. LinkShutdown(v, x) = u
  <2>1. [Divorce(v, x) EXCEPT !.gLinks[v.mem[x].id] = None] = Unlisted(c, x)
    BY <1>3 DEF Unlisted
  <2>2. DeadLink(c.mem[x].refs, c.mem[x].lcp) = [NewLink(1, FALSE, FALSE) EXCEPT !.refs = v.mem[x].refs, !.dead = TRUE, !.lcp = v.mem[x].lcp]
    BY <1>3 DEF DeadLink
  <2>3. LinkShutdown(v, x) = Unref([Orphan(LeaveParent([Divorce(v, x) EXCEPT !.gLinks[v.mem[x].id] = None], x), x) EXCEPT !.mem[x] =
                               [NewLink(1, FALSE, FALSE) EXCEPT
                                  !.refs = v.mem[x].refs, !.dead = TRUE, !.lcp = v.mem[x].lcp]], x)
    BY <1>1 DEF LinkShutdown
  <2> QED
    BY <2>1, <2>2, <2>3
<1>5. Buried(c, d, x)
  BY <1>2, BuriedFields
<1> HIDE DEF c, d
<1>6. /\ Fit(d, h) /\ Ls(d) = Ls(c) \ {x} /\ Bs(d) = Bs(c) /\ Positive(d)
      /\ \A y \in Mem : Refs(d, y) = Refs(c, y) /\ Held(d, y) + One(x, y) = Held(c, y)
  <2>1. Sound(c, h, z) /\ x \in Ls(c) /\ c.mem[x].bund = None /\ Buried(c, d, x)
    BY <1>2, <1>3, <1>5
  <2> QED
    BY <2>1, BuriedFit
<1>7. /\ d.mem[x] # Freed /\ d.gBundles = c.gBundles /\ d.ctx = c.ctx /\ d.msgs = c.msgs
      /\ \A b \in BundMem : d.mem[b] = c.mem[b]
  <2>1. v.mem[x].refs \in Nat /\ v.mem[x].lcp \in LcpStates
    BY <1>1 DEF Links
  <2>2. DeadLink(c.mem[x].refs, c.mem[x].lcp) # Freed
    BY <1>1, <1>3, <2>1, DeadLinkThere, MemKinds
  <2> QED
    BY <1>5, <2>2 DEF Buried
<1>8. x \notin Ls(d) \cup Bs(d)
  BY <1>1, <1>6, MemKinds DEF Bs
<1>9. /\ Sound(u, h, z) /\ Recounted(d, u) /\ u.ctx = d.ctx /\ u.msgs = d.msgs
      /\ \A y \in Mem \ {x} : u.mem[y] = d.mem[y]
  BY <1>1, <1>2, <1>6, <1>7, <1>8, UnrefDead
<1> HIDE DEF u
<1>10. Ls(u) = Ls(d) /\ Bs(u) = Bs(d) /\ u.gBundles = d.gBundles
  <2>1. d \in Worlds /\ Sorted(d)
    BY <1>6 DEF Fit
  <2> QED
    BY <1>9, <2>1, RecountedLiving DEF Recounted
<1>11. \A b \in BundMem : u.mem[b] = c.mem[b]
  BY <1>1, <1>7, <1>9, MemKinds
<1>12. Widowed(v, u, x)
  BY <1>2, <1>11 DEF Widowed
<1> QED
  BY <1>2, <1>4, <1>6, <1>7, <1>9, <1>10, <1>12

----------------------------------------------------------------------------
(* The shutdown of a bundle. *)

DeadBund(n) == [NewBund(1, FALSE, FALSE) EXCEPT !.refs = n, !.dead = TRUE]

LEMMA DeadBundThere ==
  ASSUME NEW x \in BundMem, NEW n \in Nat
  PROVE  /\ DeadBund(n) \in Bundles /\ DeadBund(n).refs = n /\ DeadBund(n).dead
         /\ ~ DeadBund(n).tmpl /\ DeadBund(n).n_up = 0 /\ DeadBund(n) # Freed
<1> DEFINE c == Cardinality(BundMem)
<1>1. IsFiniteSet(BundMem) /\ BundMem # {} /\ BundMem \in SUBSET BundMem
  BY Finite
<1>2. c \in Nat \ {0}
  BY <1>1, CountPositive
<1> HIDE DEF c
<1>3. 1 \in BundSlots /\ 0 \in 0 .. 1
  BY <1>2 DEF BundSlots, c
<1>4. NewBund(1, FALSE, FALSE) \in Bundles
  BY <1>3 DEF NewBund, Bundles
<1>5. DeadBund(n) \in Bundles
  BY <1>4 DEF DeadBund, Bundles
<1> QED
  BY <1>5, MemKinds DEF DeadBund, NewBund

BuriedBund(v, b) == [v EXCEPT !.gBundles[v.mem[b].id] = None, !.mem[b] = DeadBund(v.mem[b].refs)]

\* A bundle that no link belongs to leaves its table and dies.
LEMMA BuriedBundFit ==
  ASSUME NEW v, NEW h, NEW z, Sound(v, h, z), NEW b \in Bs(v), \A y \in Ls(v) : v.mem[y].bund # b,
         NEW u, u = BuriedBund(v, b)
  PROVE  /\ Fit(u, h) /\ Ls(u) = Ls(v) /\ Bs(u) = Bs(v) \ {b} /\ Positive(u)
         /\ u.ctx = v.ctx /\ u.msgs = v.msgs /\ u.mem[b] # Freed
         /\ \A x \in LinkMem : u.mem[x] = v.mem[x]
         /\ \A y \in Mem : Refs(u, y) = Refs(v, y) /\ Held(u, y) + One(b, y) = Held(v, y)
<1> DEFINE id == v.mem[b].id
           o == DeadBund(v.mem[b].refs)
           f == [v.mem EXCEPT ![b] = o]
           g == [v.gBundles EXCEPT ![id] = None]
<1>1. /\ v \in Worlds /\ v.failed = "none" /\ Sorted(v) /\ Tabled(v) /\ Married(v) /\ Related(v)
      /\ Blank(v) /\ Still(v) /\ Shut(v, h) /\ Counted(v, z)
  BY DEF Sound
<1>2. b \in BundMem /\ b \in Mem /\ v.mem[b] \in Bundles /\ v.mem[b] # Freed /\ id \in BundSlots /\ v.gBundles[id] = b
  BY <1>1, MemKinds DEF Bs, Sorted, Bundles, Tabled
<1>3. o \in Bundles /\ o.refs = v.mem[b].refs /\ o.dead /\ ~ o.tmpl /\ o.n_up = 0 /\ o # Freed
  <2>1. v.mem[b].refs \in Nat
    BY <1>2 DEF Bundles
  <2> QED
    BY <1>2, <2>1, DeadBundThere
<1> HIDE DEF o
<1>4. u = [v EXCEPT !.gBundles = g, !.mem = f]
  BY <1>1 DEF Worlds, o, BuriedBund
<1>5. f \in [Mem -> Links \cup Bundles \cup {Freed}] /\ f[b] = o /\ \A y \in Mem \ {b} : f[y] = v.mem[y]
  BY <1>1, <1>2, <1>3 DEF Worlds
<1>6. g \in [BundSlots -> BundMem \cup {None}] /\ g[id] = None /\ \A j \in BundSlots \ {id} : g[j] = v.gBundles[j]
  BY <1>1, <1>2 DEF Worlds
<1>7. g = [v.gBundles EXCEPT ![id] = None]
  OBVIOUS
<1> HIDE DEF f, g
<1>8. /\ u \in Worlds /\ u.mem = f /\ u.gLinks = v.gLinks /\ u.gBundles = g /\ u.gChildren = v.gChildren
      /\ u.failed = v.failed /\ u.ctx = v.ctx /\ u.msgs = v.msgs
  BY <1>1, <1>4, <1>5, <1>6 DEF Worlds
<1>9. /\ \A x \in LinkMem : u.mem[x] = v.mem[x]
      /\ \A y \in BundMem \ {b} : u.mem[y] = v.mem[y]
      /\ u.mem[b] = o
  BY <1>2, <1>5, <1>8, MemKinds
<1>10. Sorted(u)
  BY <1>1, <1>3, <1>9 DEF Sorted
<1>11. Ls(u) = Ls(v) /\ Bs(u) = Bs(v) \ {b}
  <2>1. Ls(u) = Ls(v)
    BY <1>9 DEF Ls
  <2>2. Bs(u) = Bs(v) \ {b}
    BY <1>3, <1>9 DEF Bs
  <2> QED
    BY <2>1, <2>2
<1>12. /\ \A x \in Ls(v) : u.mem[x] = v.mem[x]
       /\ \A y \in Bs(v) \ {b} : u.mem[y] = v.mem[y]
  BY <1>9 DEF Ls, Bs
<1>13. Tabled(u)
  <2>1. \A y \in Bs(v) \ {b} : v.mem[y].id # id /\ v.mem[y].id \in BundSlots
    BY <1>1, <1>2, ListedLiving DEF Tabled
  <2>2. ASSUME NEW j \in BundSlots, u.gBundles[j] # None PROVE u.gBundles[j] \in Bs(u) /\ u.mem[u.gBundles[j]].id = j
    <3>1. j # id /\ u.gBundles[j] = v.gBundles[j]
      BY <1>6, <1>8, <2>2
    <3>2. v.gBundles[j] \in Bs(v) /\ v.mem[v.gBundles[j]].id = j
      BY <1>1, <2>2, <3>1 DEF Tabled
    <3> QED
      BY <1>11, <1>12, <3>1, <3>2
  <2>3. ASSUME NEW y \in Bs(u) PROVE u.gBundles[u.mem[y].id] = y
    <3>1. y \in Bs(v) \ {b} /\ v.gBundles[v.mem[y].id] = y
      BY <1>1, <1>11, <2>3 DEF Tabled
    <3> QED
      BY <1>6, <1>8, <1>12, <2>1, <3>1
  <2>4. /\ \A k \in LinkSlots : u.gLinks[k] # None => u.gLinks[k] \in Ls(u) /\ u.mem[u.gLinks[k]].id = k
        /\ \A x \in Ls(u) : u.gLinks[u.mem[x].id] = x
    BY <1>1, <1>8, <1>11, <1>12 DEF Tabled
  <2> QED
    BY <2>2, <2>3, <2>4 DEF Tabled
<1>14. Married(u)
  <2>1. \A x \in Ls(v) : v.mem[x].bund # b
    OBVIOUS
  <2>2. ASSUME NEW y \in Ls(u)
        PROVE  /\ u.mem[y].bund # None => u.mem[y].bund \in Bs(u) /\ u.mem[u.mem[y].bund].link = y
               /\ u.mem[y].joined => u.mem[y].lcp = "up" /\ (u.mem[y].bund # None \/ u.mem[y].cut)
               /\ u.mem[y].bund # None /\ u.mem[y].joined => u.mem[u.mem[y].bund].n_up >= 1
    BY <1>1, <1>11, <1>12, <2>1, <2>2 DEF Married
  <2>3. ASSUME NEW y \in Bs(u), ~ u.mem[y].robbed
        PROVE  /\ u.mem[y].link # None => u.mem[y].link \in Ls(u) /\ u.mem[u.mem[y].link].bund = y
               /\ u.mem[y].n_up = IF u.mem[y].link # None /\ u.mem[u.mem[y].link].joined THEN 1 ELSE 0
    BY <1>1, <1>11, <1>12, <2>3 DEF Married
  <2> QED
    BY <2>2, <2>3 DEF Married
<1>15. Related(u)
  <2>1. \A k : KinOf(u, k) = KinOf(v, k)
    BY <1>11, <1>12 DEF KinOf
  <2>2. Born(u) = Born(v)
    BY <1>11, <1>12 DEF Born
  <2> QED
    BY <1>1, <1>8, <1>11, <1>12, <2>1, <2>2 DEF Related
<1>16. Blank(u)
  BY <1>1, <1>3, <1>9, <1>11 DEF Blank
<1>17. \A y : (Queued(u, y) <=> Queued(v, y)) /\ (Dies(u, y) <=> Dies(v, y))
  BY <1>8 DEF Queued, Dies
<1>18. Still(u)
  BY <1>1, <1>11, <1>12, <1>17 DEF Still
<1>19. Shut(u, h)
  BY <1>1, <1>11, <1>12, <1>17 DEF Shut
<1>20. \A y \in Mem : Refs(u, y) = Refs(v, y) /\ (u.mem[y] # Freed => u.mem[y].refs >= 1)
  <2> SUFFICES ASSUME NEW y \in Mem PROVE Refs(u, y) = Refs(v, y) /\ (u.mem[y] # Freed => u.mem[y].refs >= 1)
    OBVIOUS
  <2>1. CASE y = b
    BY <1>1, <1>2, <1>3, <1>9, <2>1 DEF Refs, Counted
  <2>2. CASE y # b
    <3>1. u.mem[y] = v.mem[y]
      BY <1>9, <2>2, MemKinds
    <3> QED
      BY <1>1, <3>1 DEF Refs, Counted
  <2> QED
    BY <2>1, <2>2
<1>21. \A y \in Mem : Held(u, y) + One(b, y) = Held(v, y)
  <2> SUFFICES ASSUME NEW y \in Mem PROVE Held(u, y) + One(b, y) = Held(v, y)
    OBVIOUS
  <2>1. Held(u, y) + One(v.gBundles[id], y) = Held(v, y) + One(None, y)
    <3>1. v \in Worlds /\ u \in Worlds /\ BundSlot(v, u, id) /\ u.gBundles[id] = None
      BY <1>1, <1>2, <1>6, <1>8 DEF BundSlot
    <3> HIDE DEF id
    <3>2. Held(u, y) + One(v.gBundles[id], y) = Held(v, y) + One(u.gBundles[id], y)
      BY <3>1, SetBundHeld
    <3> QED
      BY <3>1, <3>2
  <2>2. One(None, y) = 0 /\ Held(v, y) \in Nat
    BY <1>1, HeldParts, MemKinds DEF One
  <2> QED
    BY <1>2, <2>1, <2>2
<1>22. Fit(u, h)
  BY <1>1, <1>8, <1>10, <1>13, <1>14, <1>15, <1>16, <1>18, <1>19 DEF Fit
<1> QED
  BY <1>3, <1>8, <1>9, <1>11, <1>20, <1>21, <1>22 DEF Positive

LEMMA BundShutdownSound ==
  ASSUME NEW v, NEW h, NEW z, Sound(v, h, z), NEW b \in Bs(v), v.mem[b].n_up = 0 \/ v.mem[b].link = None,
         v.mem[b].link # None => ~ Gone(v, v.mem[b].link)
  PROVE  LET u == BundShutdown(v, b)
         IN  /\ Sound(u, h, z) /\ u.ctx = v.ctx /\ u.msgs = v.msgs /\ Ls(u) \subseteq Ls(v)
             /\ v.mem[b].link = None => Ls(u) = Ls(v) /\ \A x \in LinkMem : u.mem[x] = v.mem[x]
<1> DEFINE x == v.mem[b].link
           d == CASE x = None -> v
                  [] x # None /\ v.mem[x].stay -> Dismiss(v, b, x)
                  [] x # None /\ ~v.mem[x].stay -> LinkShutdown(Rob(v, x, b), x)
           e == BuriedBund(d, b)
           u == Unref(e, b)
<1>1. /\ v \in Worlds /\ Sorted(v) /\ Married(v) /\ b \in BundMem /\ b \in Mem /\ v.mem[b] \in Bundles
      /\ ~ v.mem[b].dead
  BY MemKinds DEF Sound, Bs, Sorted
<1>2. x # None => x \in Ls(v) /\ (v.mem[x].bund = b => ~ v.mem[x].joined) /\ v.mem[x].stay \in BOOLEAN
  <2> SUFFICES ASSUME x # None
               PROVE  x \in Ls(v) /\ (v.mem[x].bund = b => ~ v.mem[x].joined) /\ v.mem[x].stay \in BOOLEAN
    OBVIOUS
  <2>1. x \in LinkMem
    BY <1>1 DEF Bundles
  <2>2. x \in Ls(v)
    BY <2>1 DEF Gone, Ls
  <2>3. v.mem[x] \in Links /\ v.mem[b].n_up = 0 /\ b # None
    BY <1>1, <2>2, MemKinds DEF Ls, Sorted
  <2>4. v.mem[x].bund = b => ~ v.mem[x].joined
    BY <1>1, <2>2, <2>3 DEF Married
  <2> QED
    BY <2>2, <2>3, <2>4 DEF Links
<1>3. /\ Sound(d, h, z) /\ Bs(d) = Bs(v) /\ Ls(d) \subseteq Ls(v) /\ d.ctx = v.ctx /\ d.msgs = v.msgs
      /\ \A y \in Ls(d) : d.mem[y].bund # b
      /\ d.mem[b].refs = v.mem[b].refs /\ d.mem[b].id = v.mem[b].id
      /\ x = None => d = v
  <2>1. CASE x = None
    <3>1. \A y \in Ls(v) : v.mem[y].bund # b
      BY <1>1, <2>1, MemKinds DEF Married, Ls
    <3>2. d = v
      BY <2>1
    <3> HIDE DEF d
    <3> QED
      BY <3>1, <3>2
  <2>2. CASE x # None /\ v.mem[x].stay
    <3>1. d = Dismiss(v, b, x)
      BY <2>2
    <3> HIDE DEF d
    <3>2. /\ Sound(d, h, z) /\ Bs(d) = Bs(v) /\ Ls(d) = Ls(v) /\ d.ctx = v.ctx /\ d.msgs = v.msgs
          /\ d.mem[b] = [v.mem[b] EXCEPT !.link = None]
      BY <1>2, <2>2, <3>1, DismissSound
    <3> HIDE DEF x
    <3>3. d.mem[b].link = None /\ d.mem[b].refs = v.mem[b].refs /\ d.mem[b].id = v.mem[b].id
      BY <1>1, <3>2 DEF Bundles
    <3>4. \A y \in Ls(d) : d.mem[y].bund # b
      <4>1. Married(d) /\ b # None /\ \A y \in Ls(d) : y # None
        BY <1>1, <3>2, MemKinds DEF Ls, Sound
      <4> QED
        BY <3>3, <4>1 DEF Married
    <3> QED
      BY <2>2, <3>2, <3>3, <3>4
  <2>3. CASE x # None /\ ~ v.mem[x].stay
    <3> DEFINE q == Rob(v, x, b)
    <3>1. d = LinkShutdown(q, x)
      BY <2>3
    <3>2. Robbed(v, q, h, z, x, b)
      BY <1>2, <2>3, RobSound
    <3> HIDE DEF d, q
    <3>3. /\ Sound(q, h, z) /\ Ls(q) = Ls(v) /\ Bs(q) = Bs(v) /\ q.ctx = v.ctx /\ q.msgs = v.msgs
          /\ q.mem[b] = v.mem[b] /\ x \in Ls(q)
      BY <1>1, <1>2, <2>3, <3>2 DEF Robbed
    <3>4. q.mem[x].bund = v.mem[x].bund /\ q.mem[x].joined = v.mem[x].joined
      <4>1. v.mem[x] \in Links
        BY <1>1, <1>2, <2>3 DEF Ls, Sorted
      <4> QED
        BY <3>2, <4>1 DEF Robbed, Links
    <3>5. q.mem[x].joined /\ q.mem[x].bund # None => q.mem[x].cut /\ q.mem[q.mem[x].bund].robbed
      BY <1>2, <2>3, <3>2, <3>4 DEF Robbed
    <3>6. /\ Sound(d, h, z) /\ Bs(d) = Bs(q) /\ Ls(d) = Ls(q) \ {x} /\ d.ctx = q.ctx /\ d.msgs = q.msgs
          /\ Widowed(q, d, x)
      BY <3>1, <3>3, <3>5, LinkShutdownSound
    <3>7. d.mem[b] = v.mem[b] \/ d.mem[b] = [v.mem[b] EXCEPT !.link = None]
      BY <1>1, <3>3, <3>6 DEF Widowed
    <3>8. d.mem[b].refs = v.mem[b].refs /\ d.mem[b].id = v.mem[b].id /\ d.mem[b].link \in {x, None}
      BY <1>1, <3>7 DEF Bundles
    <3>9. \A y \in Ls(d) : d.mem[y].bund # b
      BY <1>1, <3>6, <3>8, MemKinds DEF Married, Ls, Sound
    <3> QED
      BY <2>3, <3>3, <3>6, <3>8, <3>9
  <2> QED
    BY <2>1, <2>2, <2>3
<1>4. BundShutdown(v, b) = u
  <2>1. BundShutdown(v, b) = Unref([d EXCEPT !.gBundles[v.mem[b].id] = None, !.mem[b] =
                    [NewBund(1, FALSE, FALSE) EXCEPT !.refs = v.mem[b].refs, !.dead = TRUE]], b)
    BY <1>1 DEF BundShutdown, Gone
  <2> HIDE DEF d
  <2>2. e = [d EXCEPT !.gBundles[v.mem[b].id] = None, !.mem[b] =
                    [NewBund(1, FALSE, FALSE) EXCEPT !.refs = v.mem[b].refs, !.dead = TRUE]]
    BY <1>3 DEF BuriedBund, DeadBund
  <2> QED
    BY <2>1, <2>2
<1> HIDE DEF d, x
<1>5. b \in Bs(d)
  BY <1>3
<1>6. /\ Fit(e, h) /\ Ls(e) = Ls(d) /\ Bs(e) = Bs(d) \ {b} /\ Positive(e)
      /\ e.ctx = d.ctx /\ e.msgs = d.msgs /\ e.mem[b] # Freed
      /\ \A y \in LinkMem : e.mem[y] = d.mem[y]
      /\ \A y \in Mem : Refs(e, y) = Refs(d, y) /\ Held(e, y) + One(b, y) = Held(d, y)
  BY <1>3, <1>5, BuriedBundFit
<1> HIDE DEF e
<1>7. b \notin Ls(e) \cup Bs(e)
  BY <1>1, <1>6, MemKinds DEF Ls
<1>8. /\ Sound(u, h, z) /\ Recounted(e, u) /\ u.ctx = e.ctx /\ u.msgs = e.msgs
      /\ \A y \in Mem \ {b} : u.mem[y] = e.mem[y]
  BY <1>1, <1>3, <1>6, <1>7, UnrefDead
<1> HIDE DEF u
<1>9. Ls(u) = Ls(e)
  <2>1. e \in Worlds /\ Sorted(e)
    BY <1>6 DEF Fit
  <2> QED
    BY <1>8, <2>1, RecountedLiving
<1>10. \A y \in LinkMem : u.mem[y] = d.mem[y]
  BY <1>1, <1>6, <1>8, MemKinds
<1> QED
  BY <1>3, <1>4, <1>6, <1>8, <1>9, <1>10 DEF x

----------------------------------------------------------------------------
(* LCP and the device. *)

\* A link that another bundle took has lost the bundle it joined.
Lost(v, x) == v.mem[x].joined /\ v.mem[x].bund = None

\* The flags and the device of a link stay.
Alike(l, m) == m \in Links /\ m.tmpl = l.tmpl /\ m.stay = l.stay /\ m.die = l.die /\ m.busy = l.busy

LEMMA BundLeaveSound ==
  ASSUME NEW v, NEW h, NEW z, Sound(v, h, z), NEW x \in Ls(v), ~ Lost(v, x)
  PROVE  LET u == LeaveIfJoined(v, x)
         IN  /\ Sound(u, h, z) /\ Ls(u) = Ls(v) /\ u.msgs = v.msgs
             /\ Alike(v.mem[x], u.mem[x]) /\ u.mem[x].lcp = v.mem[x].lcp /\ ~ u.mem[x].joined
<1>1. v \in Worlds /\ Sorted(v) /\ x \in LinkMem /\ v.mem[x] \in Links
  BY DEF Sound, Sorted, Ls
<1>2. CASE ~ v.mem[x].joined
  BY <1>1, <1>2 DEF LeaveIfJoined, Alike
<1>3. CASE v.mem[x].joined
  <2> DEFINE b == v.mem[x].bund
             d == Parted(v, x)
             u == IF d.mem[b].n_up = 0 /\ ~ d.mem[b].stay THEN BundShutdown(d, b) ELSE d
  <2>0. v.mem[x].bund # None
    BY <1>3 DEF Lost
  <2>1. LeaveIfJoined(v, x) = u
    BY <1>3, <2>0 DEF LeaveIfJoined, BundLeave, Parted
  <2>2. /\ Sound(d, h, z) /\ Ls(d) = Ls(v) /\ Bs(d) = Bs(v) /\ d.msgs = v.msgs
        /\ b \in Bs(v) /\ d.mem[b].link = None
        /\ d.mem[x] = [v.mem[x] EXCEPT !.bund = None, !.joined = FALSE]
    <3>1. Unpaired(v, Parted(v, x), h, z, x, v.mem[x].bund)
      BY ONLY <1>3, <2>0, Sound(v, h, z), x \in Ls(v), PartSound
    <3> QED
      BY ONLY <3>1 DEF Unpaired
  <2> HIDE DEF b, d
  <2>3. Alike(v.mem[x], d.mem[x]) /\ d.mem[x].lcp = v.mem[x].lcp /\ ~ d.mem[x].joined
    BY <1>1, <2>2 DEF Alike, Links
  <2>4. CASE ~ (d.mem[b].n_up = 0 /\ ~ d.mem[b].stay)
    <3>1. u = d
      BY <2>4
    <3> HIDE DEF u
    <3> QED
      BY <2>1, <2>2, <2>3, <3>1
  <2>5. CASE d.mem[b].n_up = 0 /\ ~ d.mem[b].stay
    <3>1. u = BundShutdown(d, b)
      BY <2>5
    <3> HIDE DEF u
    <3>2. Sound(u, h, z) /\ u.msgs = d.msgs /\ Ls(u) = Ls(d) /\ u.mem[x] = d.mem[x]
      BY <1>1, <2>2, <3>1, BundShutdownSound
    <3> QED
      BY <2>1, <2>2, <2>3, <3>2
  <2> QED
    BY <2>4, <2>5
<1> QED
  BY <1>2, <1>3

\* A message to a link.
LEMMA AskSound ==
  ASSUME NEW v, NEW h, NEW z, Sound(v, h, z), NEW x \in Ls(v), ~ v.mem[x].tmpl,
         NEW op \in {"open", "close", "physOpen", "physClose"}
  PROVE  LET u == MsgSend(v, op, x)
         IN  /\ Sound(u, h, z) /\ Ls(u) = Ls(v)
             /\ Alike(v.mem[x], u.mem[x]) /\ u.mem[x].lcp = v.mem[x].lcp /\ u.mem[x].joined = v.mem[x].joined
<1> DEFINE u == MsgSend(v, op, x)
<1>1. [op |-> op, to |-> x] \in Messages
  BY DEF Messages, Ls
<1>2. Sound(u, h, z) /\ Recounted(v, u)
  BY <1>1, MsgSendSound
<1> HIDE DEF u
<1>3. Ls(u) = Ls(v) /\ LinkLike(v.mem[x], u.mem[x]) /\ u.mem[x] \in Links
  BY <1>2, SoundLiving
<1>4. Alike(v.mem[x], u.mem[x]) /\ u.mem[x].lcp = v.mem[x].lcp /\ u.mem[x].joined = v.mem[x].joined
  BY <1>3 DEF LinkLike, Alike
<1> QED
  BY <1>2, <1>3, <1>4 DEF u

LEMMA LinkShutdownCheckSound ==
  ASSUME NEW v, NEW h, NEW z, Sound(v, h, z), NEW x \in Ls(v), ~ v.mem[x].tmpl
  PROVE  LET u == LinkShutdownCheck(v, x)
         IN  /\ Sound(u, h, z) /\ Ls(u) = Ls(v)
             /\ Alike(v.mem[x], u.mem[x]) /\ u.mem[x].lcp = v.mem[x].lcp /\ u.mem[x].joined = v.mem[x].joined
<1> DEFINE l == v.mem[x]
           u == MsgSend(v, "shutdown", x)
<1>1. v \in Worlds /\ Sorted(v) /\ Married(v) /\ x \in LinkMem /\ v.mem[x] \in Links
  BY DEF Sound, Sorted, Ls
<1>2. CASE ~ (l.lcp = "initial" /\ l.die /\ ~ l.stay /\ ~ l.busy)
  BY <1>1, <1>2 DEF LinkShutdownCheck, Alike
<1>3. CASE l.lcp = "initial" /\ l.die /\ ~ l.stay /\ ~ l.busy
  <2>1. [op |-> "shutdown", to |-> x] \in Messages
    BY <1>1 DEF Messages
  <2>2. Kills(v, x)
    BY <1>1, <1>3 DEF Kills, Married
  <2>3. Sound(u, h, z) /\ Recounted(v, u)
    BY <2>1, <2>2, MsgSendSound
  <2>4. LinkShutdownCheck(v, x) = u
    BY <1>3 DEF LinkShutdownCheck
  <2> HIDE DEF u
  <2>5. Ls(u) = Ls(v) /\ LinkLike(v.mem[x], u.mem[x]) /\ u.mem[x] \in Links
    BY <2>3, SoundLiving
  <2>6. Alike(v.mem[x], u.mem[x]) /\ u.mem[x].lcp = v.mem[x].lcp /\ u.mem[x].joined = v.mem[x].joined
    BY <2>5 DEF LinkLike, Alike
  <2> QED
    BY <2>3, <2>4, <2>5, <2>6
<1> QED
  BY <1>2, <1>3

\* Another LCP state, and what follows it.
LEMMA LcpStateSound ==
  ASSUME NEW v, NEW h, NEW z, Sound(v, h, z), NEW x \in Ls(v), ~ v.mem[x].tmpl,
         NEW s \in LcpStates, v.mem[x].joined => s = "up", h \/ s = "initial" \/ ~ Dies(v, x)
  PROVE  LET u == LcpState(v, x, s)
         IN  /\ Sound(u, h, z) /\ Ls(u) = Ls(v)
             /\ Alike(v.mem[x], u.mem[x]) /\ u.mem[x].lcp = s /\ u.mem[x].joined = v.mem[x].joined
<1> DEFINE l == v.mem[x]
           m == [l EXCEPT !.lcp = s]
           d == Put(v, x, m)
           u == LinkShutdownCheck(d, x)
<1>1. v \in Worlds /\ Sorted(v) /\ Shut(v, h) /\ x \in LinkMem /\ x \in Mem /\ l \in Links
  BY MemKinds DEF Sound, Sorted, Ls
<1>2. LcpState(v, x, s) = u
  <2>1. [v EXCEPT !.mem[x].lcp = s] = d
    BY <1>1 DEF Put
  <2> QED
    BY <2>1 DEF LcpState
<1>3. /\ m \in Links /\ m.refs = l.refs /\ m.dead = l.dead /\ m.id = l.id /\ m.bund = l.bund /\ m.joined = l.joined
      /\ m.parent = l.parent /\ m.children = l.children /\ m.tmpl = l.tmpl /\ m.busy = l.busy /\ m.die = l.die
      /\ m.stay = l.stay /\ m.lcp = s /\ m.cut = l.cut
  BY <1>1 DEF Links
<1>4. Alike(l, m)
  BY <1>3 DEF Alike
<1> HIDE DEF m
<1>5. Touched(v, d, x) /\ d.mem[x] = m
  BY <1>1, <1>3, PutTouches
<1> HIDE DEF d
<1>6. Dies(v, x) => m.die /\ (h \/ (m.lcp = "initial" /\ ~ m.busy))
  BY <1>1, <1>3 DEF Shut
<1>7. Sound(d, h, z) /\ Ls(d) = Ls(v)
  BY <1>3, <1>5, <1>6, LinkSound
<1>8. x \in Ls(d) /\ ~ d.mem[x].tmpl
  BY <1>3, <1>5, <1>7
<1>9. /\ Sound(u, h, z) /\ Ls(u) = Ls(d)
      /\ Alike(d.mem[x], u.mem[x]) /\ u.mem[x].lcp = d.mem[x].lcp /\ u.mem[x].joined = d.mem[x].joined
  BY <1>7, <1>8, LinkShutdownCheckSound
<1> HIDE DEF u
<1>10. Alike(l, u.mem[x])
  BY <1>4, <1>5, <1>9 DEF Alike
<1> QED
  BY <1>2, <1>3, <1>5, <1>7, <1>9, <1>10

\* What LCP may do to a link.
Run(v, u, h, z, x) ==
  Sound(u, h, z) /\ Ls(u) = Ls(v) /\ Alike(v.mem[x], u.mem[x])

LEMMA RunTrans ==
  ASSUME NEW v, NEW d, NEW u, NEW h, NEW z, NEW x, Run(v, d, h, z, x), Run(d, u, h, z, x)
  PROVE  Run(v, u, h, z, x)
BY DEF Run, Alike

LEMMA RunRefl ==
  ASSUME NEW v, NEW h, NEW z, Sound(v, h, z), NEW x \in Ls(v)
  PROVE  Run(v, v, h, z, x) /\ v.mem[x].lcp \in LcpStates
<1>1. v.mem[x] \in Links
  BY DEF Sound, Sorted, Ls
<1> QED
  BY <1>1 DEF Run, Alike, Links

\* The states of the lemmas on LCP, with the changes named.
LEMMA StateRun ==
  ASSUME NEW v, NEW h, NEW z, Sound(v, h, z), NEW x \in Ls(v), ~ v.mem[x].tmpl,
         NEW s \in LcpStates, v.mem[x].joined => s = "up", h \/ s = "initial" \/ ~ Dies(v, x)
  PROVE  /\ Run(v, LcpState(v, x, s), h, z, x) /\ LcpState(v, x, s).mem[x].lcp = s
         /\ LcpState(v, x, s).mem[x].joined = v.mem[x].joined
<1> DEFINE u == LcpState(v, x, s)
<1>1. /\ Sound(u, h, z) /\ Ls(u) = Ls(v)
      /\ Alike(v.mem[x], u.mem[x]) /\ u.mem[x].lcp = s /\ u.mem[x].joined = v.mem[x].joined
  BY LcpStateSound
<1> HIDE DEF u
<1>2. Run(v, u, h, z, x)
  BY <1>1 DEF Run
<1> QED
  BY <1>1, <1>2 DEF u

LEMMA AskRun ==
  ASSUME NEW v, NEW h, NEW z, Sound(v, h, z), NEW x \in Ls(v), ~ v.mem[x].tmpl
  PROVE  /\ Run(v, LinkOpen(v, x), h, z, x) /\ LinkOpen(v, x).mem[x].lcp = v.mem[x].lcp
         /\ Run(v, LinkClose(v, x), h, z, x) /\ LinkClose(v, x).mem[x].lcp = v.mem[x].lcp
         /\ Run(v, PhysOpen(v, x), h, z, x) /\ PhysOpen(v, x).mem[x].lcp = v.mem[x].lcp
         /\ Run(v, PhysClose(v, x), h, z, x) /\ PhysClose(v, x).mem[x].lcp = v.mem[x].lcp
         /\ PhysClose(v, x).mem[x].joined = v.mem[x].joined
<1>1. ASSUME NEW op \in {"open", "close", "physOpen", "physClose"}
      PROVE  /\ Run(v, MsgSend(v, op, x), h, z, x) /\ MsgSend(v, op, x).mem[x].lcp = v.mem[x].lcp
             /\ MsgSend(v, op, x).mem[x].joined = v.mem[x].joined
  <2> DEFINE u == MsgSend(v, op, x)
  <2>1. /\ Sound(u, h, z) /\ Ls(u) = Ls(v)
        /\ Alike(v.mem[x], u.mem[x]) /\ u.mem[x].lcp = v.mem[x].lcp /\ u.mem[x].joined = v.mem[x].joined
    BY AskSound
  <2> HIDE DEF u
  <2> QED
    BY <2>1 DEF Run, u
<1>2. LinkOpen(v, x) = MsgSend(v, "open", x) /\ LinkClose(v, x) = MsgSend(v, "close", x)
      /\ PhysOpen(v, x) = MsgSend(v, "physOpen", x) /\ PhysClose(v, x) = MsgSend(v, "physClose", x)
  BY DEF LinkOpen, LinkClose, PhysOpen, PhysClose
<1> QED
  BY <1>1, <1>2

LEMMA LeaveRun ==
  ASSUME NEW v, NEW h, NEW z, Sound(v, h, z), NEW x \in Ls(v), ~ Lost(v, x)
  PROVE  /\ Run(v, LeaveIfJoined(v, x), h, z, x) /\ LeaveIfJoined(v, x).mem[x].lcp = v.mem[x].lcp
         /\ ~ LeaveIfJoined(v, x).mem[x].joined /\ (Dies(LeaveIfJoined(v, x), x) <=> Dies(v, x))
<1> DEFINE u == LeaveIfJoined(v, x)
<1>1. /\ Sound(u, h, z) /\ Ls(u) = Ls(v) /\ u.msgs = v.msgs
      /\ Alike(v.mem[x], u.mem[x]) /\ u.mem[x].lcp = v.mem[x].lcp /\ ~ u.mem[x].joined
  BY BundLeaveSound
<1> HIDE DEF u
<1>2. Run(v, u, h, z, x) /\ (Dies(u, x) <=> Dies(v, x))
  BY <1>1 DEF Run, Dies
<1> QED
  BY <1>1, <1>2 DEF u

\* What holds of a link by its LCP state.
LEMMA LcpFacts ==
  ASSUME NEW v, NEW h, NEW z, Sound(v, h, z), NEW x \in Ls(v)
  PROVE  /\ v.mem[x].lcp \in LcpStates /\ v.mem[x].tmpl \in BOOLEAN /\ v.mem[x].stay \in BOOLEAN
         /\ v.mem[x].tmpl => v.mem[x].lcp = "initial" /\ ~ v.mem[x].busy /\ v.mem[x].bund = None
         /\ v.mem[x].joined => v.mem[x].lcp = "up"
         /\ ~ h /\ Dies(v, x) => v.mem[x].lcp = "initial" /\ ~ v.mem[x].busy
         /\ Dies(v, x) => v.mem[x].die /\ ~ v.mem[x].joined
<1>1. v.mem[x] \in Links
  BY DEF Sound, Sorted, Ls
<1> QED
  BY <1>1 DEF Sound, Still, Married, Shut, Links

LEMMA LcpCloseSound ==
  ASSUME NEW v, NEW h, NEW z, Sound(v, h, z), NEW x \in Ls(v), ~ Lost(v, x)
  PROVE  Run(v, LcpClose(v, x), h, z, x) /\ LcpClose(v, x).mem[x].lcp \in {"initial", "closing"}
<1>0. "initial" \in LcpStates /\ "closing" \in LcpStates
  BY DEF LcpStates
<1>1. CASE v.mem[x].lcp = "starting"
  <2> DEFINE d == LcpState(v, x, "initial")
  <2>1. ~ v.mem[x].tmpl /\ ~ v.mem[x].joined
    BY <1>1, LcpFacts
  <2>2. Run(v, d, h, z, x) /\ d.mem[x].lcp = "initial"
    BY <1>0, <2>1, StateRun
  <2>3. LcpClose(v, x) = PhysClose(d, x)
    BY <1>1 DEF LcpClose, Open
  <2> HIDE DEF d
  <2>4. Sound(d, h, z) /\ x \in Ls(d) /\ ~ d.mem[x].tmpl
    BY <2>1, <2>2 DEF Run, Alike
  <2>5. Run(d, PhysClose(d, x), h, z, x) /\ PhysClose(d, x).mem[x].lcp = d.mem[x].lcp
    BY <2>4, AskRun
  <2> QED
    BY <2>2, <2>3, <2>5, RunTrans
<1>2. CASE v.mem[x].lcp = "up"
  <2> DEFINE d == LeaveIfJoined(v, x)
  <2>1. ~ v.mem[x].tmpl /\ (~ h => ~ Dies(v, x))
    BY <1>2, LcpFacts
  <2>2. Run(v, d, h, z, x) /\ ~ d.mem[x].joined /\ (Dies(d, x) <=> Dies(v, x))
    BY LeaveRun
  <2>3. LcpClose(v, x) = LcpState(d, x, "closing")
    BY <1>2 DEF LcpClose, Open
  <2> HIDE DEF d
  <2>4. Sound(d, h, z) /\ x \in Ls(d) /\ ~ d.mem[x].tmpl
    BY <2>1, <2>2 DEF Run, Alike
  <2>5. h \/ ~ Dies(d, x)
    BY <2>1, <2>2
  <2>6. Run(d, LcpState(d, x, "closing"), h, z, x) /\ LcpState(d, x, "closing").mem[x].lcp = "closing"
    BY <1>0, <2>2, <2>4, <2>5, StateRun
  <2> QED
    BY <2>2, <2>3, <2>6, RunTrans
<1>3. CASE ~ Open(v, x)
  <2>1. LcpClose(v, x) = v
    BY <1>3 DEF LcpClose, Open
  <2> QED
    BY <1>3, <2>1, RunRefl DEF Open, LcpStates
<1> QED
  BY <1>1, <1>2, <1>3 DEF Open

LEMMA LcpOpenSound ==
  ASSUME NEW v, NEW z, Sound(v, TRUE, z), NEW x \in Ls(v), ~ v.mem[x].tmpl
  PROVE  Run(v, LcpOpen(v, x), TRUE, z, x)
<1>0. "starting" \in LcpStates /\ "up" \in LcpStates
  BY DEF LcpStates
<1>1. CASE v.mem[x].lcp = "initial"
  <2> DEFINE d == LcpState(v, x, "starting")
  <2>1. ~ v.mem[x].joined
    BY <1>1, LcpFacts
  <2>2. Run(v, d, TRUE, z, x)
    BY <1>0, <2>1, StateRun
  <2>3. LcpOpen(v, x) = PhysOpen(d, x)
    BY <1>1 DEF LcpOpen, Open
  <2> HIDE DEF d
  <2>4. Sound(d, TRUE, z) /\ x \in Ls(d) /\ ~ d.mem[x].tmpl
    BY <2>1, <2>2 DEF Run, Alike
  <2>5. Run(d, PhysOpen(d, x), TRUE, z, x)
    BY <2>4, AskRun
  <2> QED
    BY <2>2, <2>3, <2>5, RunTrans
<1>2. CASE v.mem[x].lcp = "closing"
  <2>1. Run(v, LcpState(v, x, "up"), TRUE, z, x)
    BY <1>0, StateRun
  <2>2. LcpOpen(v, x) = LcpState(v, x, "up")
    BY <1>2 DEF LcpOpen, Open
  <2> QED
    BY <2>1, <2>2
<1>3. CASE Open(v, x)
  <2>1. LcpOpen(v, x) = v
    BY <1>3 DEF LcpOpen, Open
  <2> QED
    BY <2>1, RunRefl
<1> QED
  BY <1>1, <1>2, <1>3, RunRefl DEF Open, LcpStates

\* LCP of a link that is not open goes down.
LEMMA LcpDownSound ==
  ASSUME NEW v, NEW h, NEW z, Sound(v, h, z), NEW x \in Ls(v), v.mem[x].lcp \in {"initial", "closing"}, NEW midway
  PROVE  Run(v, LcpDown(v, x, midway), h, z, x)
<1>0. "initial" \in LcpStates
  BY DEF LcpStates
<1>1. CASE v.mem[x].lcp = "closing"
  <2> DEFINE d == IF midway THEN PhysClose(v, x) ELSE v
  <2>1. ~ v.mem[x].tmpl /\ ~ v.mem[x].joined
    BY <1>1, LcpFacts
  <2>2. Run(v, d, h, z, x) /\ ~ d.mem[x].joined
    BY <2>1, AskRun, RunRefl
  <2>3. LcpDown(v, x, midway) = LcpState(d, x, "initial")
    BY <1>1 DEF LcpDown
  <2> HIDE DEF d
  <2>4. Sound(d, h, z) /\ x \in Ls(d) /\ ~ d.mem[x].tmpl
    BY <2>1, <2>2 DEF Run, Alike
  <2>5. Run(d, LcpState(d, x, "initial"), h, z, x)
    BY <1>0, <2>2, <2>4, StateRun
  <2> QED
    BY <2>2, <2>3, <2>5, RunTrans
<1>2. CASE v.mem[x].lcp = "initial"
  <2>1. LcpDown(v, x, midway) = v
    BY <1>2 DEF LcpDown
  <2> QED
    BY <2>1, RunRefl
<1> QED
  BY <1>1, <1>2

\* A flag, the device or LCP of a living link is written.
Flagged(v, m, h, x) ==
  LET l == v.mem[x] IN
  /\ m \in Links /\ m.refs = l.refs /\ m.dead = l.dead /\ m.id = l.id /\ m.bund = l.bund /\ m.joined = l.joined
  /\ m.parent = l.parent /\ m.children = l.children /\ m.cut = l.cut
  /\ m.joined => m.lcp = "up"
  /\ m.tmpl => m.lcp = "initial" /\ ~ m.busy /\ l.tmpl
  /\ Dies(v, x) => m.die /\ (h \/ (m.lcp = "initial" /\ ~ m.busy))

LEMMA PutLinkSound ==
  ASSUME NEW v, NEW h, NEW z, Sound(v, h, z), NEW x \in Ls(v), NEW m, Flagged(v, m, h, x)
  PROVE  LET u == Put(v, x, m)
         IN  /\ Sound(u, h, z) /\ Ls(u) = Ls(v) /\ Bs(u) = Bs(v) /\ u.mem[x] = m
             /\ \A y \in Mem \ {x} : u.mem[y] = v.mem[y]
             /\ u.msgs = v.msgs /\ u.ctx = v.ctx
<1> DEFINE u == Put(v, x, m)
<1>1. v \in Worlds /\ Sorted(v) /\ x \in LinkMem /\ x \in Mem /\ m \in Links
  BY MemKinds DEF Sound, Ls, Flagged
<1>2. Touched(v, u, x) /\ u.mem[x] = m
  BY <1>1, PutTouches
<1> HIDE DEF u
<1>3. Sound(u, h, z) /\ Ls(u) = Ls(v) /\ Bs(u) = Bs(v)
  <2> DEFINE l == v.mem[x]
  <2>1. /\ m.refs = l.refs /\ m.dead = l.dead /\ m.id = l.id /\ m.bund = l.bund /\ m.joined = l.joined
        /\ m.parent = l.parent /\ m.children = l.children /\ m.cut = l.cut
        /\ m.joined => m.lcp = "up"
        /\ m.tmpl => m.lcp = "initial" /\ ~ m.busy /\ l.tmpl
        /\ Dies(v, x) => m.die /\ (h \/ (m.lcp = "initial" /\ ~ m.busy))
    BY DEF Flagged
  <2>2. l = v.mem[x]
    OBVIOUS
  <2> HIDE DEF l
  <2> QED
    BY <1>1, <1>2, <2>1, <2>2, LinkSound
<1>4. u.msgs = v.msgs /\ u.ctx = v.ctx /\ \A y \in Mem \ {x} : u.mem[y] = v.mem[y]
  BY <1>2 DEF Touched
<1> QED
  BY <1>2, <1>3, <1>4 DEF u

\* The layers below go down.
LEMMA LinkDownSound ==
  ASSUME NEW v, NEW h, NEW z, Sound(v, h, z), NEW x \in Ls(v), ~ Lost(v, x), NEW midway
  PROVE  LET u == LinkDown(v, x, midway)
         IN  Sound(u, h, z) /\ Ls(u) = Ls(v) /\ (u.mem[x].tmpl <=> v.mem[x].tmpl)
<1> DEFINE l == v.mem[x]
           m == [l EXCEPT !.die = l.die \/ ~ l.stay]
           d == Put(v, x, m)
           e == IF Open(d, x) THEN LcpClose(d, x) ELSE d
           u == LcpDown(e, x, midway)
<1>1. v \in Worlds /\ x \in Mem /\ l \in Links
  BY MemKinds DEF Sound, Sorted, Ls
<1>2. LinkDown(v, x, midway) = u
  <2>1. [v EXCEPT !.mem[x].die = @ \/ ~ v.mem[x].stay] = d
    BY <1>1 DEF Put, Worlds
  <2> QED
    BY <2>1 DEF LinkDown
<1>3. /\ m \in Links /\ m.refs = l.refs /\ m.dead = l.dead /\ m.id = l.id /\ m.bund = l.bund /\ m.joined = l.joined
      /\ m.parent = l.parent /\ m.children = l.children /\ m.tmpl = l.tmpl /\ m.busy = l.busy /\ m.lcp = l.lcp
      /\ (l.die => m.die) /\ m.cut = l.cut
  BY <1>1 DEF Links
<1> HIDE DEF m
<1>4. Flagged(v, m, h, x)
  BY <1>3, LcpFacts DEF Flagged
<1>5. Sound(d, h, z) /\ Ls(d) = Ls(v) /\ d.mem[x] = m
  BY <1>4, PutLinkSound
<1> HIDE DEF d
<1>6. Run(d, e, h, z, x) /\ e.mem[x].lcp \in {"initial", "closing"}
  <2>0. ~ Lost(d, x)
    BY <1>3, <1>5 DEF Lost
  <2>1. Run(d, LcpClose(d, x), h, z, x) /\ LcpClose(d, x).mem[x].lcp \in {"initial", "closing"}
    BY <1>5, <2>0, LcpCloseSound
  <2>2. Run(d, d, h, z, x) /\ d.mem[x].lcp \in LcpStates
    BY <1>5, RunRefl
  <2> QED
    BY <2>1, <2>2 DEF Open, LcpStates
<1> HIDE DEF e
<1>7. Run(e, u, h, z, x)
  <2>1. Sound(e, h, z) /\ x \in Ls(e)
    BY <1>5, <1>6 DEF Run
  <2> QED
    BY <1>6, <2>1, LcpDownSound
<1> HIDE DEF u
<1> QED
  BY <1>2, <1>3, <1>5, <1>6, <1>7 DEF Run, Alike

LEMMA PhysDownSound ==
  ASSUME NEW v, NEW h, NEW z, Sound(v, h, z), NEW x \in Ls(v), ~ v.mem[x].tmpl, ~ Lost(v, x), NEW midway
  PROVE  Sound(PhysDown(v, x, midway), h, z)
<1> DEFINE l == v.mem[x]
           m == [l EXCEPT !.busy = FALSE]
           d == Put(v, x, m)
           e == LinkDown(d, x, midway)
<1>1. v \in Worlds /\ x \in Mem /\ l \in Links
  BY MemKinds DEF Sound, Sorted, Ls
<1>2. PhysDown(v, x, midway) = LinkShutdownCheck(e, x)
  <2>1. [v EXCEPT !.mem[x].busy = FALSE] = d
    BY <1>1 DEF Put, Worlds
  <2> QED
    BY <2>1 DEF PhysDown
<1>3. /\ m \in Links /\ m.refs = l.refs /\ m.dead = l.dead /\ m.id = l.id /\ m.bund = l.bund /\ m.joined = l.joined
      /\ m.parent = l.parent /\ m.children = l.children /\ m.tmpl = l.tmpl /\ ~ m.busy /\ m.lcp = l.lcp
      /\ m.die = l.die /\ m.cut = l.cut
  BY <1>1 DEF Links
<1> HIDE DEF m
<1>4. Flagged(v, m, h, x)
  BY <1>3, LcpFacts DEF Flagged
<1>5. Sound(d, h, z) /\ Ls(d) = Ls(v) /\ d.mem[x] = m
  BY <1>4, PutLinkSound
<1> HIDE DEF d
<1>6. Sound(e, h, z) /\ Ls(e) = Ls(d) /\ (e.mem[x].tmpl <=> d.mem[x].tmpl)
  <2>1. ~ Lost(d, x)
    BY <1>3, <1>5 DEF Lost
  <2> QED
    BY <1>5, <2>1, LinkDownSound
<1> HIDE DEF e
<1>7. Sound(e, h, z) /\ x \in Ls(e) /\ ~ e.mem[x].tmpl
  BY <1>3, <1>5, <1>6
<1> QED
  BY <1>2, <1>7, LinkShutdownCheckSound

----------------------------------------------------------------------------
(* The end of a run at a slot. *)

\* A link or a bundle shows that two bundles have dialled one link.
Spoilt(u) ==
  /\ u \in Worlds /\ u.failed = "slot"
  /\ \/ \E x \in LinkMem : u.mem[x] # Freed /\ u.mem[x].cut
     \/ \E b \in BundMem : u.mem[b] # Freed /\ u.mem[b].robbed

\* In u the run has ended and link x shows why; it was in state v.
Torn(v, u, x) ==
  /\ u \in Worlds /\ Sorted(u) /\ u.failed = "slot"
  /\ u.mem[x] \in Links /\ u.mem[x].cut /\ ~ u.mem[x].dead /\ u.mem[x].refs >= v.mem[x].refs

LEMMA TornSpoilt ==
  ASSUME NEW v, NEW u, NEW x \in LinkMem, Torn(v, u, x)
  PROVE  Spoilt(u)
<1>1. u.mem[x] # Freed
  BY MemKinds DEF Torn
<1> QED
  BY <1>1 DEF Torn, Spoilt

LEMMA FailSlot ==
  ASSUME NEW v \in Worlds, Sorted(v), v.failed = "none"
  PROVE  LET u == Fail(v, "slot")
         IN  u \in Worlds /\ Sorted(u) /\ u.failed = "slot" /\ u.mem = v.mem
BY DEF Fail, Worlds, Sorted

LEMMA TornPut ==
  ASSUME NEW v, NEW d, NEW x \in LinkMem, Torn(v, d, x),
         NEW o \in Links, o.cut, ~ o.dead, o.refs >= v.mem[x].refs
  PROVE  Torn(v, Put(d, x, o), x) /\ Put(d, x, o).mem[x] = o
<1> DEFINE u == Put(d, x, o)
<1>1. Touched(d, u, x) /\ u.mem[x] = o
  BY MemKinds, PutTouches DEF Torn
<1> HIDE DEF u
<1>2. Torn(v, u, x)
  BY <1>1 DEF Torn, Touched
<1> QED
  BY <1>1, <1>2 DEF u

LEMMA TornSend ==
  ASSUME NEW v, NEW d, NEW x \in LinkMem, Torn(v, d, x), NEW op, [op |-> op, to |-> x] \in Messages, v.mem[x].refs \in Nat
  PROVE  Torn(v, MsgSend(d, op, x), x) /\ MsgSend(d, op, x).mem[x].lcp = d.mem[x].lcp
<1> DEFINE q == Append(d.msgs, [op |-> op, to |-> x])
           e == [d EXCEPT !.msgs = q]
           o == [d.mem[x] EXCEPT !.refs = d.mem[x].refs + 1]
           u == Put(e, x, o)
<1>1. /\ d \in Worlds /\ Sorted(d) /\ d.failed = "slot" /\ d.mem[x] \in Links /\ d.mem[x].cut /\ ~ d.mem[x].dead
      /\ d.mem[x].refs >= v.mem[x].refs /\ d.mem[x].refs \in Nat /\ x \in Mem /\ d.mem[x] # Freed
  BY MemKinds DEF Torn, Links
<1>2. q \in Seq(Messages)
  BY <1>1 DEF Worlds
<1>3. MsgSend(d, op, x) = u
  BY <1>1 DEF MsgSend, Gone, Ref, Worlds, Put
<1>4. /\ o \in Links /\ o.cut /\ ~ o.dead /\ o.refs >= v.mem[x].refs /\ o.lcp = d.mem[x].lcp
  BY <1>1 DEF Links
<1> HIDE DEF q, o
<1>5. e \in Worlds /\ e.mem = d.mem /\ e.failed = d.failed
  BY <1>1, <1>2 DEF Worlds
<1> HIDE DEF e
<1>6. Torn(v, e, x)
  BY <1>1, <1>5 DEF Torn, Sorted
<1>7. Torn(v, u, x) /\ u.mem[x] = o
  BY <1>4, <1>6, TornPut
<1> QED
  BY <1>3, <1>4, <1>7

LEMMA TornState ==
  ASSUME NEW v, NEW d, NEW x \in LinkMem, Torn(v, d, x), NEW s \in LcpStates, v.mem[x].refs \in Nat
  PROVE  Torn(v, LcpState(d, x, s), x) /\ LcpState(d, x, s).mem[x].lcp = s
<1> DEFINE o == [d.mem[x] EXCEPT !.lcp = s]
           e == Put(d, x, o)
<1>1. d \in Worlds /\ d.mem[x] \in Links /\ x \in Mem
  BY MemKinds DEF Torn
<1>2. o \in Links /\ o.cut /\ ~ o.dead /\ o.refs >= v.mem[x].refs /\ o.lcp = s
  BY <1>1 DEF Torn, Links
<1>3. LcpState(d, x, s) = LinkShutdownCheck(e, x)
  BY <1>1 DEF LcpState, Put, Worlds
<1> HIDE DEF o
<1>4. Torn(v, e, x) /\ e.mem[x] = o
  BY <1>2, TornPut
<1> HIDE DEF e
<1>5. LinkShutdownCheck(e, x) = e \/ LinkShutdownCheck(e, x) = MsgSend(e, "shutdown", x)
  BY DEF LinkShutdownCheck
<1>6. [op |-> "shutdown", to |-> x] \in Messages
  BY DEF Messages
<1>7. Torn(v, MsgSend(e, "shutdown", x), x) /\ MsgSend(e, "shutdown", x).mem[x].lcp = e.mem[x].lcp
  BY <1>4, <1>6, TornSend
<1> QED
  BY <1>2, <1>3, <1>4, <1>5, <1>7

LEMMA LeaveTorn ==
  ASSUME NEW v, NEW h, NEW z, Sound(v, h, z), NEW x \in Ls(v), Lost(v, x)
  PROVE  /\ Torn(v, LeaveIfJoined(v, x), x) /\ v.mem[x].lcp = "up" /\ v.mem[x].refs \in Nat /\ x \in LinkMem
<1>1. v \in Worlds /\ Sorted(v) /\ v.failed = "none" /\ Married(v) /\ x \in LinkMem /\ v.mem[x] \in Links /\ ~ v.mem[x].dead
  BY DEF Sound, Sorted, Ls
<1>2. v.mem[x].lcp = "up" /\ v.mem[x].cut /\ v.mem[x].joined /\ v.mem[x].bund = None /\ v.mem[x].refs \in Nat
  BY <1>1 DEF Married, Lost, Links
<1>3. LeaveIfJoined(v, x) = Fail(v, "slot")
  BY <1>2 DEF LeaveIfJoined, BundLeave
<1> DEFINE u == Fail(v, "slot")
<1>4. u \in Worlds /\ Sorted(u) /\ u.failed = "slot" /\ u.mem = v.mem
  BY <1>1, FailSlot
<1> HIDE DEF u
<1>5. Torn(v, u, x)
  BY <1>1, <1>2, <1>4 DEF Torn
<1> QED
  BY <1>1, <1>2, <1>3, <1>5 DEF u

LEMMA LcpCloseTorn ==
  ASSUME NEW v, NEW h, NEW z, Sound(v, h, z), NEW x \in Ls(v), Lost(v, x)
  PROVE  Torn(v, LcpClose(v, x), x) /\ LcpClose(v, x).mem[x].lcp = "closing"
<1>1. Torn(v, LeaveIfJoined(v, x), x) /\ v.mem[x].lcp = "up" /\ v.mem[x].refs \in Nat /\ x \in LinkMem
  BY LeaveTorn
<1>2. LcpClose(v, x) = LcpState(LeaveIfJoined(v, x), x, "closing")
  BY <1>1 DEF LcpClose, Open
<1>3. "closing" \in LcpStates
  BY DEF LcpStates
<1> QED
  BY <1>1, <1>2, <1>3, TornState

LEMMA LinkDownTorn ==
  ASSUME NEW v, NEW h, NEW z, Sound(v, h, z), NEW x \in Ls(v), Lost(v, x), NEW midway
  PROVE  Torn(v, LinkDown(v, x, midway), x)
<1> DEFINE l == v.mem[x]
           m == [l EXCEPT !.die = l.die \/ ~ l.stay]
           d == Put(v, x, m)
           e == LcpClose(d, x)
           f == IF midway THEN PhysClose(e, x) ELSE e
<1>1. v \in Worlds /\ x \in Mem /\ l \in Links /\ x \in LinkMem /\ l.lcp = "up" /\ l.refs \in Nat
  BY MemKinds, LeaveTorn DEF Sound, Sorted, Ls
<1>2. /\ m \in Links /\ m.refs = l.refs /\ m.dead = l.dead /\ m.id = l.id /\ m.bund = l.bund /\ m.joined = l.joined
      /\ m.parent = l.parent /\ m.children = l.children /\ m.tmpl = l.tmpl /\ m.busy = l.busy /\ m.lcp = l.lcp
      /\ (l.die => m.die) /\ m.cut = l.cut
  BY <1>1 DEF Links
<1>3. LinkDown(v, x, midway) = LcpDown(IF Open(d, x) THEN e ELSE d, x, midway)
  <2>1. [v EXCEPT !.mem[x].die = @ \/ ~ v.mem[x].stay] = d
    BY <1>1 DEF Put, Worlds
  <2> QED
    BY <2>1 DEF LinkDown
<1> HIDE DEF m
<1>4. Flagged(v, m, h, x)
  BY <1>2, LcpFacts DEF Flagged
<1>5. Sound(d, h, z) /\ Ls(d) = Ls(v) /\ d.mem[x] = m
  BY <1>4, PutLinkSound
<1> HIDE DEF d
<1>6. Lost(d, x) /\ x \in Ls(d) /\ Open(d, x)
  BY <1>1, <1>2, <1>5 DEF Lost, Open
<1>7. Torn(d, e, x) /\ e.mem[x].lcp = "closing"
  BY <1>5, <1>6, LcpCloseTorn
<1> HIDE DEF e
<1>8. Torn(v, e, x)
  BY <1>2, <1>5, <1>7 DEF Torn
<1>9. Torn(v, f, x)
  <2>1. [op |-> "physClose", to |-> x] \in Messages
    BY <1>1 DEF Messages
  <2> QED
    BY <1>1, <1>8, <2>1, TornSend DEF PhysClose
<1>10. LcpDown(e, x, midway) = LcpState(f, x, "initial")
  BY <1>7 DEF LcpDown
<1> HIDE DEF f
<1>11. "initial" \in LcpStates
  BY DEF LcpStates
<1> QED
  BY <1>1, <1>3, <1>6, <1>9, <1>10, <1>11, TornState

LEMMA PhysDownTorn ==
  ASSUME NEW v, NEW h, NEW z, Sound(v, h, z), NEW x \in Ls(v), Lost(v, x), NEW midway
  PROVE  Torn(v, PhysDown(v, x, midway), x)
<1> DEFINE l == v.mem[x]
           m == [l EXCEPT !.busy = FALSE]
           d == Put(v, x, m)
           e == LinkDown(d, x, midway)
<1>1. v \in Worlds /\ x \in Mem /\ l \in Links /\ x \in LinkMem /\ l.refs \in Nat
  BY MemKinds, LeaveTorn DEF Sound, Sorted, Ls
<1>2. PhysDown(v, x, midway) = LinkShutdownCheck(e, x)
  <2>1. [v EXCEPT !.mem[x].busy = FALSE] = d
    BY <1>1 DEF Put, Worlds
  <2> QED
    BY <2>1 DEF PhysDown
<1>3. /\ m \in Links /\ m.refs = l.refs /\ m.dead = l.dead /\ m.id = l.id /\ m.bund = l.bund /\ m.joined = l.joined
      /\ m.parent = l.parent /\ m.children = l.children /\ m.tmpl = l.tmpl /\ ~ m.busy /\ m.lcp = l.lcp
      /\ m.die = l.die /\ m.cut = l.cut
  BY <1>1 DEF Links
<1> HIDE DEF m
<1>4. Flagged(v, m, h, x)
  BY <1>3, LcpFacts DEF Flagged
<1>5. Sound(d, h, z) /\ Ls(d) = Ls(v) /\ d.mem[x] = m
  BY <1>4, PutLinkSound
<1> HIDE DEF d
<1>6. Lost(d, x) /\ x \in Ls(d)
  BY <1>3, <1>5 DEF Lost
<1>7. Torn(d, e, x)
  BY <1>5, <1>6, LinkDownTorn
<1> HIDE DEF e
<1>8. Torn(v, e, x)
  BY <1>3, <1>5, <1>7 DEF Torn
<1>9. [op |-> "shutdown", to |-> x] \in Messages
  BY <1>1 DEF Messages
<1>10. Torn(v, MsgSend(e, "shutdown", x), x)
  BY <1>1, <1>8, <1>9, TornSend
<1> QED
  BY <1>2, <1>8, <1>10 DEF LinkShutdownCheck

\* The message was for the one that shows it, which its table counts too.
LEMMA UnrefSpoilt ==
  ASSUME NEW d \in Worlds, Sorted(d), d.failed = "slot", NEW x \in Mem, d.mem[x] # Freed, d.mem[x].refs >= 2,
         IF x \in LinkMem THEN d.mem[x].cut ELSE d.mem[x].robbed
  PROVE  Spoilt(Unref(d, x))
<1> DEFINE o == [d.mem[x] EXCEPT !.refs = d.mem[x].refs - 1]
           u == Put(d, x, o)
<1>1. d.mem[x] \in (IF x \in LinkMem THEN Links ELSE Bundles) /\ d.mem[x].refs \in Nat
  BY MemKinds DEF Sorted, Links, Bundles
<1>2. Unref(d, x) = u
  BY <1>1 DEF Unref, Put, Worlds
<1>3. d.mem[x].refs - 1 \in Nat
  BY <1>1
<1>4. CASE x \in LinkMem
  <2>1. o \in Links /\ o.cut
    BY <1>1, <1>3, <1>4 DEF Links
  <2> HIDE DEF o
  <2>2. Touched(d, u, x) /\ u.mem[x] = o
    BY <1>4, <2>1, PutTouches
  <2> HIDE DEF u
  <2> QED
    BY <1>2, <1>4, <2>1, <2>2, MemKinds DEF Touched, Spoilt
<1>5. CASE x \notin LinkMem
  <2>1. o \in Bundles /\ o.robbed
    BY <1>1, <1>3, <1>5 DEF Bundles
  <2> HIDE DEF o
  <2>2. Touched(d, u, x) /\ u.mem[x] = o /\ x \in BundMem
    BY <1>5, <2>1, PutTouches, MemKinds
  <2> HIDE DEF u
  <2> QED
    BY <1>2, <2>1, <2>2, MemKinds DEF Touched, Spoilt
<1> QED
  BY <1>4, <1>5

\* Who is handled and in a table is counted twice.
LEMMA CountedTwice ==
  ASSUME NEW v, NEW h, NEW z \in Ls(v) \cup Bs(v), Sound(v, h, z)
  PROVE  v.mem[z].refs \in Nat /\ v.mem[z].refs >= 2
<1>1. z \in Mem /\ v.mem[z] # Freed
  BY MemKinds DEF Ls, Bs
<1>2. Held(v, z) \in Nat /\ Refs(v, z) = Held(v, z) + One(z, z) /\ Held(v, z) >= 1
  BY <1>1, SoundHeld
<1> QED
  BY <1>1, <1>2 DEF Refs, One

----------------------------------------------------------------------------
(* New links and bundles. *)

\* Who is in memory only is not in the tables and has no messages.
LEMMA FreedFacts ==
  ASSUME NEW v, NEW h, NEW z, Sound(v, h, z), NEW x \in Mem, v.mem[x] = Freed
  PROVE  /\ Held(v, x) = 0 /\ x # z /\ ~ Queued(v, x) /\ ~ Dies(v, x) /\ x \notin Ls(v) /\ x \notin Bs(v)
         /\ \A k \in LinkSlots : v.gLinks[k] # x
         /\ \A k \in BundSlots : v.gBundles[k] # x
<1>1. v \in Worlds /\ Held(v, x) \in Nat /\ Held(v, x) = 0 /\ x # z
  BY SoundHeld
<1>2. /\ ~ \E k \in LinkSlots : v.gLinks[k] = x
      /\ ~ \E k \in BundSlots : v.gBundles[k] = x
      /\ ~ Queued(v, x)
  BY <1>1, HeldPositive
<1>3. ~ Dies(v, x)
  <2> SUFFICES ASSUME Dies(v, x) PROVE Queued(v, x)
    BY <1>2
  <2> QED
    BY DEF Dies, Queued
<1> QED
  BY <1>1, <1>2, <1>3 DEF Ls, Bs

\* Of finitely many numbers, one is the least.
LEMMA Least ==
  ASSUME NEW S \in SUBSET Nat, IsFiniteSet(S), S # {}
  PROVE  \E n \in S : \A m \in S : n <= m
<1> DEFINE Bad == {W \in SUBSET Nat : W # {} /\ IsFiniteSet(W) /\ ~ \E n \in W : \A m \in W : n <= m}
<1> SUFFICES ASSUME Bad # {} PROVE FALSE
  OBVIOUS
<1>1. IsWellFoundedOn(StrictSubsetOrdering(Nat), FiniteSubsetsOf(Nat))
  BY FS_StrictSubsetOrderingWellFounded
<1>2. Bad \subseteq FiniteSubsetsOf(Nat)
  BY DEF FiniteSubsetsOf
<1>3. PICK W \in Bad : \A V \in Bad : ~ (<< V, W >> \in StrictSubsetOrdering(Nat))
  BY <1>1, <1>2, WFMin
<1>4. PICK n \in W : TRUE
  BY <1>3
<1>5. W \ {n} \notin Bad
  BY <1>3, <1>4 DEF StrictSubsetOrdering
<1>6. IsFiniteSet(W \ {n})
  BY <1>3, FS_RemoveElement
<1>7. CASE W = {n}
  BY <1>7, <1>3, <1>4
<1>8. CASE W # {n}
  <2>1. PICK l \in W \ {n} : \A j \in W \ {n} : l <= j
    BY <1>3, <1>4, <1>5, <1>6, <1>8
  <2> QED
    BY <2>1, <1>3, <1>4
<1> QED
  BY <1>7, <1>8

\* The first free entry of a table that has one.
LEMMA FirstFree ==
  ASSUME NEW n \in Nat, NEW table, DOMAIN table = 1 .. n, \E k \in 1 .. n : table[k] = None
  PROVE  FreeSlot(table) \in 1 .. n /\ table[FreeSlot(table)] = None
<1> DEFINE S == {k \in 1 .. n : table[k] = None}
<1>1. S \in SUBSET Nat /\ S # {}
  OBVIOUS
<1>2. IsFiniteSet(S)
  <2>1. IsFiniteSet(1 .. n) /\ S \in SUBSET (1 .. n)
    BY Finite
  <2> QED
    BY <2>1, FS_Subset, Zenon
<1>3. \E k \in S : \A j \in S : k <= j
  BY <1>1, <1>2, Least
<1>4. \E k \in 1 .. n : table[k] = None /\ \A j \in 1 .. n : table[j] = None => k <= j
  BY <1>3
<1> HIDE DEF S
<1> DEFINE P(k) == table[k] = None /\ \A j \in DOMAIN table : table[j] = None => k <= j
<1>5. FreeSlot(table) = CHOOSE k \in DOMAIN table : P(k)
  BY DEF FreeSlot
<1>6. \E k \in DOMAIN table : P(k)
  BY <1>4
<1> HIDE DEF P
<1>7. FreeSlot(table) \in DOMAIN table /\ P(FreeSlot(table))
  BY <1>5, <1>6
<1> QED
  BY <1>7 DEF P

Crowded(S, T, f) ==
  IsFiniteSet(S) /\ IsFiniteSet(T) /\ Cardinality(T) < Cardinality(S) /\ f \in [S -> T]

Twice(S, f) == \E j, k \in S : j # k /\ f[j] = f[k]

LEMMA PigeonHole ==
  ASSUME NEW S, NEW T, NEW f, Crowded(S, T, f)
  PROVE  Twice(S, f)
BY FS_PigeonHole DEF Crowded, Twice

\* A table with as many entries as there are objects, each listed once, is not full while
\* one of them is not listed.
LEMMA TableHasRoom ==
  ASSUME NEW M, IsFiniteSet(M), None \notin M, NEW y \in M, NEW table \in [1 .. Cardinality(M) -> M \cup {None}],
         \A k \in 1 .. Cardinality(M) : table[k] # y,
         \A j, k \in 1 .. Cardinality(M) : table[k] # None /\ table[j] = table[k] => j = k
  PROVE  FreeSlot(table) \in 1 .. Cardinality(M) /\ table[FreeSlot(table)] = None
<1> DEFINE n == Cardinality(M)
<1>1. n \in Nat
  BY FS_CardinalityType
<1>2. \E k \in 1 .. n : table[k] = None
  <2> SUFFICES ASSUME \A k \in 1 .. n : table[k] # None PROVE FALSE
    OBVIOUS
  <2>1. IsFiniteSet(M \ {y}) /\ Cardinality(M \ {y}) = n - 1
    BY FS_RemoveElement
  <2>2. table \in [1 .. n -> M \ {y}]
    OBVIOUS
  <2>3. IsFiniteSet(1 .. n) /\ Cardinality(1 .. n) = n
    <3>1. 1 \in Int /\ n \in Int
      BY <1>1
    <3>2. IsFiniteSet(1 .. n) /\ Cardinality(1 .. n) = IF 1 > n THEN 0 ELSE n - 1 + 1
      BY <3>1, FS_Interval, Zenon
    <3> QED
      BY <1>1, <3>2
  <2> HIDE DEF n
  <2>4. Cardinality(M \ {y}) < Cardinality(1 .. n)
    BY <1>1, <2>1, <2>3
  <2> DEFINE S == 1 .. n
             T == M \ {y}
  <2>6. Crowded(S, T, table)
    BY <2>1, <2>2, <2>3, <2>4 DEF Crowded
  <2> HIDE DEF S, T
  <2>7. Twice(S, table)
    BY <2>6, PigeonHole
  <2>5. \E j, k \in 1 .. n : j # k /\ table[j] = table[k]
    BY <2>7 DEF S, Twice
  <2> QED
    BY <2>5 DEF n
<1>3. DOMAIN table = 1 .. n
  OBVIOUS
<1> HIDE DEF n
<1>4. FreeSlot(table) \in 1 .. n /\ table[FreeSlot(table)] = None
  BY <1>1, <1>2, <1>3, FirstFree
<1> QED
  BY <1>4 DEF n

\* There is a slot for a new object.
LEMMA SlotThere ==
  ASSUME NEW v, NEW h, NEW z, Sound(v, h, z), NEW y \in Mem, v.mem[y] = Freed
  PROVE  /\ y \in LinkMem => FreeSlot(v.gLinks) \in LinkSlots /\ v.gLinks[FreeSlot(v.gLinks)] = None
         /\ y \in BundMem => FreeSlot(v.gBundles) \in BundSlots /\ v.gBundles[FreeSlot(v.gBundles)] = None
<1>1. v \in Worlds /\ Tabled(v)
  BY DEF Sound
<1>2. ASSUME y \in LinkMem PROVE FreeSlot(v.gLinks) \in LinkSlots /\ v.gLinks[FreeSlot(v.gLinks)] = None
  <2>1. v.gLinks \in [1 .. Cardinality(LinkMem) -> LinkMem \cup {None}] /\ None \notin LinkMem
    BY <1>1, MemKinds DEF Worlds, LinkSlots
  <2>2. \A k \in 1 .. Cardinality(LinkMem) : v.gLinks[k] # y
    BY FreedFacts DEF LinkSlots
  <2>3. \A j, k \in 1 .. Cardinality(LinkMem) : v.gLinks[k] # None /\ v.gLinks[j] = v.gLinks[k] => j = k
    BY <1>1 DEF Tabled, LinkSlots
  <2> QED
    BY <1>2, <2>1, <2>2, <2>3, Finite, TableHasRoom DEF LinkSlots
<1>3. ASSUME y \in BundMem PROVE FreeSlot(v.gBundles) \in BundSlots /\ v.gBundles[FreeSlot(v.gBundles)] = None
  <2>1. v.gBundles \in [1 .. Cardinality(BundMem) -> BundMem \cup {None}] /\ None \notin BundMem
    BY <1>1, MemKinds DEF Worlds, BundSlots
  <2>2. \A k \in 1 .. Cardinality(BundMem) : v.gBundles[k] # y
    BY FreedFacts DEF BundSlots
  <2>3. \A j, k \in 1 .. Cardinality(BundMem) : v.gBundles[k] # None /\ v.gBundles[j] = v.gBundles[k] => j = k
    BY <1>1 DEF Tabled, BundSlots
  <2> QED
    BY <1>3, <2>1, <2>2, <2>3, Finite, TableHasRoom DEF BundSlots
<1> QED
  BY <1>2, <1>3

LEMMA NewLinkThere ==
  ASSUME NEW k \in LinkSlots, NEW tmpl \in BOOLEAN, NEW stay \in BOOLEAN, NEW o, o = NewLink(k, tmpl, stay)
  PROVE  /\ o \in Links /\ o # Freed /\ o.refs = 1 /\ ~ o.dead /\ o.id = k /\ o.tmpl = tmpl /\ o.stay = stay /\ ~ o.die
         /\ o.lcp = "initial" /\ ~ o.busy /\ o.bund = None /\ ~ o.joined /\ o.parent = 0 /\ o.children = 0
         /\ ~ o.cut
<1>1. "initial" \in LcpStates
  BY DEF LcpStates
<1>2. o \in Links
  BY <1>1 DEF NewLink, Links
<1> QED
  BY <1>2, MemKinds DEF NewLink

\* No bundle has memory x in its slot.
Unnamed(v, x) == \A b \in Bs(v) : v.mem[b].link # x

\* A link has been made at x.
NewlyLinked(v, u, h, z, x, tmpl) ==
  /\ Sound(u, h, z) /\ Ls(u) = Ls(v) \cup {x} /\ Bs(u) = Bs(v) /\ u.msgs = v.msgs /\ u.ctx = v.ctx
  /\ \A y \in Mem \ {x} : u.mem[y] = v.mem[y]
  /\ u.gChildren = v.gChildren
  /\ u.mem[x] \in Links /\ u.mem[x].tmpl = tmpl /\ ~ u.mem[x].die /\ u.mem[x].lcp = "initial" /\ ~ u.mem[x].busy
  /\ u.mem[x].bund = None /\ ~ u.mem[x].joined /\ u.mem[x].parent = 0

Entered(v, x, k, o) == [v EXCEPT !.gLinks[k] = x, !.mem[x] = o]

LEMMA EnlistSound ==
  ASSUME NEW v, NEW h, NEW z, Sound(v, h, z), NEW x \in LinkMem, v.mem[x] = Freed, Unnamed(v, x),
         NEW tmpl \in BOOLEAN, NEW stay \in BOOLEAN
  PROVE  NewlyLinked(v, Enlist(v, x, tmpl, stay), h, z, x, tmpl)
<1> DEFINE k == FreeSlot(v.gLinks)
           o == NewLink(k, tmpl, stay)
           f == [v.mem EXCEPT ![x] = o]
           g == [v.gLinks EXCEPT ![k] = x]
           u == Entered(v, x, k, o)
<1>1. /\ v \in Worlds /\ v.failed = "none" /\ Sorted(v) /\ Tabled(v) /\ Married(v) /\ Related(v)
      /\ Blank(v) /\ Still(v) /\ Shut(v, h) /\ Counted(v, z)
  BY DEF Sound
<1>2. x \in Mem /\ k \in LinkSlots /\ v.gLinks[k] = None /\ k # 0
  BY MemKinds, SlotThere, Finite
<1>3. /\ Held(v, x) = 0 /\ x # z /\ ~ Queued(v, x) /\ ~ Dies(v, x) /\ x \notin Ls(v)
      /\ \A j \in LinkSlots : v.gLinks[j] # x
  BY <1>2, FreedFacts
<1>4. Enlist(v, x, tmpl, stay) = u
  BY DEF Enlist, Entered
<1> HIDE DEF k
<1>5. /\ o \in Links /\ o # Freed /\ o.refs = 1 /\ ~ o.dead /\ o.id = k /\ o.tmpl = tmpl /\ ~ o.die
      /\ o.lcp = "initial" /\ ~ o.busy /\ o.bund = None /\ ~ o.joined /\ o.parent = 0 /\ o.children = 0
  BY <1>2, NewLinkThere
<1> HIDE DEF o
<1>6. u = [v EXCEPT !.gLinks = g, !.mem = f]
  BY <1>1 DEF Worlds, Entered
<1>7. f \in [Mem -> Links \cup Bundles \cup {Freed}] /\ f[x] = o /\ \A y \in Mem \ {x} : f[y] = v.mem[y]
  BY <1>1, <1>2, <1>5 DEF Worlds
<1>8. g \in [LinkSlots -> LinkMem \cup {None}] /\ g[k] = x /\ \A j \in LinkSlots \ {k} : g[j] = v.gLinks[j]
  BY <1>1, <1>2 DEF Worlds
<1> HIDE DEF f, g
<1>9. /\ u \in Worlds /\ u.mem = f /\ u.gBundles = v.gBundles /\ u.gLinks = g /\ u.gChildren = v.gChildren
      /\ u.failed = v.failed /\ u.ctx = v.ctx /\ u.msgs = v.msgs
  BY <1>1, <1>6, <1>7, <1>8 DEF Worlds
<1> HIDE DEF u
<1>10. /\ u.mem[x] = o /\ \A y \in Mem \ {x} : u.mem[y] = v.mem[y]
       /\ \A y \in LinkMem \ {x} : u.mem[y] = v.mem[y]
       /\ \A y \in BundMem : u.mem[y] = v.mem[y]
  BY <1>7, <1>9, MemKinds
<1>11. Sorted(u)
  BY <1>1, <1>5, <1>10 DEF Sorted
<1>12. Ls(u) = Ls(v) \cup {x} /\ Bs(u) = Bs(v)
  <2>1. Ls(u) = Ls(v) \cup {x}
    BY <1>5, <1>10 DEF Ls
  <2>2. Bs(u) = Bs(v)
    BY <1>10 DEF Bs
  <2> QED
    BY <2>1, <2>2
<1>13. /\ \A y \in Ls(v) : u.mem[y] = v.mem[y]
       /\ \A y \in Bs(v) : u.mem[y] = v.mem[y]
  BY <1>3, <1>10 DEF Ls, Bs
<1>14. \A y \in Ls(v) : v.mem[y].id # k /\ v.mem[y].id \in LinkSlots /\ v.mem[y].id # 0 /\ v.mem[y] \in Links /\ y # None
  <2> SUFFICES ASSUME NEW y \in Ls(v)
               PROVE  v.mem[y].id # k /\ v.mem[y].id \in LinkSlots /\ v.mem[y].id # 0 /\ v.mem[y] \in Links /\ y # None
    OBVIOUS
  <2>1. v.mem[y] \in Links /\ v.mem[y].id \in LinkSlots /\ v.mem[y].id # 0
    BY <1>1, ListedLiving, Finite
  <2>2. y # None /\ v.gLinks[v.mem[y].id] = y
    BY <1>1, MemKinds DEF Tabled, Ls
  <2> QED
    BY <1>2, <2>1, <2>2
<1>15. Tabled(u)
  <2>1. ASSUME NEW j \in LinkSlots, u.gLinks[j] # None PROVE u.gLinks[j] \in Ls(u) /\ u.mem[u.gLinks[j]].id = j
    <3>1. CASE j = k
      BY <1>5, <1>8, <1>9, <1>10, <1>12, <3>1
    <3>2. CASE j # k
      <4>1. u.gLinks[j] = v.gLinks[j]
        BY <1>8, <1>9, <2>1, <3>2
      <4>2. v.gLinks[j] \in Ls(v) /\ v.mem[v.gLinks[j]].id = j
        BY <1>1, <2>1, <4>1 DEF Tabled
      <4> QED
        BY <1>12, <1>13, <4>1, <4>2
    <3> QED
      BY <3>1, <3>2
  <2>2. ASSUME NEW y \in Ls(u) PROVE u.gLinks[u.mem[y].id] = y
    <3>1. CASE y = x
      BY <1>5, <1>8, <1>9, <1>10, <3>1
    <3>2. CASE y # x
      <4>1. y \in Ls(v) /\ v.gLinks[v.mem[y].id] = y
        BY <1>1, <1>12, <2>2, <3>2 DEF Tabled
      <4> QED
        BY <1>8, <1>9, <1>13, <1>14, <4>1
    <3> QED
      BY <3>1, <3>2
  <2>3. /\ \A j \in BundSlots : u.gBundles[j] # None => u.gBundles[j] \in Bs(u) /\ u.mem[u.gBundles[j]].id = j
        /\ \A b \in Bs(u) : u.gBundles[u.mem[b].id] = b
    BY <1>1, <1>9, <1>12, <1>13 DEF Tabled
  <2> QED
    BY <2>1, <2>2, <2>3 DEF Tabled
<1>16. Married(u)
  <2>1. ASSUME NEW y \in Ls(u)
        PROVE  /\ u.mem[y].bund # None => u.mem[y].bund \in Bs(u) /\ u.mem[u.mem[y].bund].link = y
               /\ u.mem[y].joined => u.mem[y].lcp = "up" /\ (u.mem[y].bund # None \/ u.mem[y].cut)
               /\ u.mem[y].bund # None /\ u.mem[y].joined => u.mem[u.mem[y].bund].n_up >= 1
    <3>1. CASE y = x
      BY <1>5, <1>10, <3>1
    <3>2. CASE y # x
      BY <1>1, <1>12, <1>13, <2>1, <3>2 DEF Married
    <3> QED
      BY <3>1, <3>2
  <2>2. ASSUME NEW b \in Bs(u), ~ u.mem[b].robbed
        PROVE  /\ u.mem[b].link # None => u.mem[b].link \in Ls(u) /\ u.mem[u.mem[b].link].bund = b
               /\ u.mem[b].n_up = IF u.mem[b].link # None /\ u.mem[u.mem[b].link].joined THEN 1 ELSE 0
    BY <1>1, <1>12, <1>13, <2>2 DEF Married
  <2> QED
    BY <2>1, <2>2 DEF Married
<1>17. \A y \in Ls(v) : v.mem[y].parent # 0 => /\ v.mem[y].parent \in LinkSlots /\ v.mem[y].parent # k
                                              /\ v.mem[y].parent # v.mem[y].id
                                              /\ u.gLinks[v.mem[y].parent] # None
  <2> SUFFICES ASSUME NEW y \in Ls(v), v.mem[y].parent # 0
               PROVE  v.mem[y].parent \in LinkSlots /\ v.mem[y].parent # k /\ v.mem[y].parent # v.mem[y].id
                      /\ u.gLinks[v.mem[y].parent] # None
    OBVIOUS
  <2>1. v.mem[y].parent \in LinkSlots
    BY <1>14 DEF Links
  <2>2. v.gLinks[v.mem[y].parent] # None /\ v.mem[y].parent # v.mem[y].id
    BY <1>1 DEF Related
  <2> QED
    BY <1>2, <1>8, <1>9, <2>1, <2>2
<1>18. Related(u)
  <2>1. \A j : j # 0 => KinOf(u, j) = KinOf(v, j)
    <3> SUFFICES ASSUME NEW j, j # 0 PROVE KinOf(u, j) = KinOf(v, j)
      OBVIOUS
    <3>1. u.mem[x].parent # j
      BY <1>5, <1>10
    <3> QED
      BY <1>3, <1>12, <1>13, <3>1 DEF KinOf
  <2>2. Born(u) = Born(v)
    BY <1>3, <1>5, <1>10, <1>12, <1>13 DEF Born
  <2>3. Cardinality(KinOf(u, k)) = 0
    <3>1. KinOf(v, k) = {}
      BY <1>2, <1>17 DEF KinOf
    <3> QED
      BY <1>2, <2>1, <3>1, FS_EmptySet
  <2>4. ASSUME NEW y \in Ls(u)
        PROVE  /\ u.mem[y].parent # 0 => u.mem[y].parent # u.mem[y].id /\ u.gLinks[u.mem[y].parent] # None
               /\ u.mem[y].children = Cardinality(KinOf(u, u.mem[y].id))
    <3>1. CASE y = x
      BY <1>5, <1>10, <2>3, <3>1
    <3>2. CASE y # x
      <4>1. y \in Ls(v) /\ u.mem[y] = v.mem[y]
        BY <1>12, <1>13, <2>4, <3>2
      <4>2. v.mem[y].children = Cardinality(KinOf(v, v.mem[y].id))
        BY <1>1, <4>1 DEF Related
      <4>3. KinOf(u, v.mem[y].id) = KinOf(v, v.mem[y].id)
        BY <1>14, <2>1, <4>1
      <4> QED
        BY <1>17, <4>1, <4>2, <4>3
    <3> QED
      BY <3>1, <3>2
  <2>5. u.gChildren >= Cardinality(Born(u))
    BY <1>1, <1>9, <2>2 DEF Related
  <2> QED
    BY <2>4, <2>5 DEF Related
<1>19. Blank(u)
  BY <1>1, <1>10, <1>12 DEF Blank
<1>20. \A y : (Queued(u, y) <=> Queued(v, y)) /\ (Dies(u, y) <=> Dies(v, y))
  BY <1>9 DEF Queued, Dies
<1>21. Still(u)
  BY <1>1, <1>3, <1>5, <1>10, <1>12, <1>13, <1>20 DEF Still, Unnamed
<1>22. Shut(u, h)
  BY <1>1, <1>3, <1>12, <1>13, <1>20 DEF Shut
<1>23. \A y \in Mem : Held(u, y) = Held(v, y) + One(x, y)
  <2> SUFFICES ASSUME NEW y \in Mem PROVE Held(u, y) = Held(v, y) + One(x, y)
    OBVIOUS
  <2>1. v \in Worlds /\ u \in Worlds /\ LinkSlot(v, u, k) /\ u.gLinks[k] = x
    BY <1>1, <1>2, <1>8, <1>9 DEF LinkSlot
  <2>2. Held(u, y) + One(v.gLinks[k], y) = Held(v, y) + One(u.gLinks[k], y)
    BY <2>1, SetLinkHeld
  <2>3. One(v.gLinks[k], y) = 0 /\ Held(u, y) \in Nat /\ Held(v, y) \in Nat /\ One(x, y) \in Nat
    BY <1>2, <2>1, HeldParts, MemKinds DEF One
  <2> QED
    BY <2>1, <2>2, <2>3
<1>24. Counted(u, z)
  <2> SUFFICES ASSUME NEW y \in Mem
               PROVE  Refs(u, y) = Held(u, y) + (IF y = z THEN 1 ELSE 0) /\ (u.mem[y] # Freed => u.mem[y].refs >= 1)
    BY DEF Counted
  <2>1. CASE y = x
    BY <1>3, <1>5, <1>10, <1>23, <2>1 DEF Refs, One
  <2>2. CASE y # x
    <3>1. u.mem[y] = v.mem[y] /\ Held(v, y) \in Nat /\ Held(u, y) = Held(v, y) + One(x, y)
      BY <1>1, <1>10, <1>23, <2>2, HeldParts
    <3>2. Held(u, y) = Held(v, y)
      BY <2>2, <3>1 DEF One
    <3> QED
      BY <1>1, <3>1, <3>2 DEF Refs, Counted
  <2> QED
    BY <2>1, <2>2
<1>25. Sound(u, h, z)
  BY <1>1, <1>9, <1>11, <1>15, <1>16, <1>18, <1>19, <1>21, <1>22, <1>24 DEF Sound
<1> QED
  BY <1>4, <1>5, <1>9, <1>10, <1>12, <1>25 DEF NewlyLinked

NewlyBundled(v, u, h, z, b, tmpl) ==
  /\ Sound(u, h, z) /\ Bs(u) = Bs(v) \cup {b} /\ Ls(u) = Ls(v) /\ u.msgs = v.msgs /\ u.ctx = v.ctx
  /\ \A y \in Mem \ {b} : u.mem[y] = v.mem[y]
  /\ u.mem[b].tmpl = tmpl /\ u.mem[b].link = None

LEMMA NewBundThere ==
  ASSUME NEW k \in BundSlots, NEW tmpl \in BOOLEAN, NEW stay \in BOOLEAN, NEW o, o = NewBund(k, tmpl, stay)
  PROVE  /\ o \in Bundles /\ o # Freed /\ o.refs = 1 /\ ~ o.dead /\ o.id = k /\ o.tmpl = tmpl
         /\ o.link = None /\ o.n_up = 0 /\ ~ o.robbed
<1>1. 0 \in 0 .. 1
  OBVIOUS
<1>2. o \in Bundles
  BY <1>1 DEF NewBund, Bundles
<1> QED
  BY <1>2, MemKinds DEF NewBund

EnteredBund(v, x, k, o) == [v EXCEPT !.gBundles[k] = x, !.mem[x] = o]

LEMMA BundInstSound ==
  ASSUME NEW v, NEW h, NEW z, Sound(v, h, z), NEW x \in BundMem, v.mem[x] = Freed,
         NEW tmpl \in BOOLEAN, NEW stay \in BOOLEAN
  PROVE  NewlyBundled(v, BundInst(v, x, tmpl, stay), h, z, x, tmpl)
<1> DEFINE k == FreeSlot(v.gBundles)
           o == NewBund(k, tmpl, stay)
           f == [v.mem EXCEPT ![x] = o]
           g == [v.gBundles EXCEPT ![k] = x]
           u == EnteredBund(v, x, k, o)
<1>1. /\ v \in Worlds /\ v.failed = "none" /\ Sorted(v) /\ Tabled(v) /\ Married(v) /\ Related(v)
      /\ Blank(v) /\ Still(v) /\ Shut(v, h) /\ Counted(v, z)
  BY DEF Sound
<1>2. x \in Mem /\ k \in BundSlots /\ v.gBundles[k] = None
  BY MemKinds, SlotThere
<1>3. /\ Held(v, x) = 0 /\ x # z /\ ~ Queued(v, x) /\ x \notin Bs(v)
      /\ \A j \in BundSlots : v.gBundles[j] # x
  BY <1>2, FreedFacts
<1>4. BundInst(v, x, tmpl, stay) = u
  BY DEF BundInst, EnteredBund
<1> HIDE DEF k
<1>5. /\ o \in Bundles /\ o # Freed /\ o.refs = 1 /\ ~ o.dead /\ o.id = k /\ o.tmpl = tmpl
      /\ o.link = None /\ o.n_up = 0 /\ ~ o.robbed
  BY <1>2, NewBundThere
<1> HIDE DEF o
<1>6. u = [v EXCEPT !.gBundles = g, !.mem = f]
  BY <1>1 DEF Worlds, EnteredBund
<1>7. f \in [Mem -> Links \cup Bundles \cup {Freed}] /\ f[x] = o /\ \A y \in Mem \ {x} : f[y] = v.mem[y]
  BY <1>1, <1>2, <1>5 DEF Worlds
<1>8. g \in [BundSlots -> BundMem \cup {None}] /\ g[k] = x /\ \A j \in BundSlots \ {k} : g[j] = v.gBundles[j]
  BY <1>1, <1>2 DEF Worlds
<1> HIDE DEF f, g
<1>9. /\ u \in Worlds /\ u.mem = f /\ u.gBundles = g /\ u.gLinks = v.gLinks /\ u.gChildren = v.gChildren
      /\ u.failed = v.failed /\ u.ctx = v.ctx /\ u.msgs = v.msgs
  BY <1>1, <1>6, <1>7, <1>8 DEF Worlds
<1> HIDE DEF u
<1>10. /\ u.mem[x] = o /\ \A y \in Mem \ {x} : u.mem[y] = v.mem[y]
       /\ \A y \in BundMem \ {x} : u.mem[y] = v.mem[y]
       /\ \A y \in LinkMem : u.mem[y] = v.mem[y]
  BY <1>7, <1>9, MemKinds
<1>11. Sorted(u)
  BY <1>1, <1>5, <1>10 DEF Sorted
<1>12. Bs(u) = Bs(v) \cup {x} /\ Ls(u) = Ls(v)
  <2>1. Bs(u) = Bs(v) \cup {x}
    BY <1>5, <1>10 DEF Bs
  <2>2. Ls(u) = Ls(v)
    BY <1>10 DEF Ls
  <2> QED
    BY <2>1, <2>2
<1>13. /\ \A y \in Ls(v) : u.mem[y] = v.mem[y]
       /\ \A y \in Bs(v) : u.mem[y] = v.mem[y]
  BY <1>3, <1>10 DEF Ls, Bs
<1>14. \A y \in Bs(v) : v.mem[y].id # k /\ v.mem[y].id \in BundSlots
  <2> SUFFICES ASSUME NEW y \in Bs(v) PROVE v.mem[y].id # k /\ v.mem[y].id \in BundSlots
    OBVIOUS
  <2>1. v.mem[y].id \in BundSlots
    BY <1>1, ListedLiving
  <2>2. y # None /\ v.gBundles[v.mem[y].id] = y
    BY <1>1, MemKinds DEF Tabled, Bs
  <2> QED
    BY <1>2, <2>1, <2>2
<1>15. Tabled(u)
  <2>1. ASSUME NEW j \in BundSlots, u.gBundles[j] # None PROVE u.gBundles[j] \in Bs(u) /\ u.mem[u.gBundles[j]].id = j
    <3>1. CASE j = k
      BY <1>5, <1>8, <1>9, <1>10, <1>12, <3>1
    <3>2. CASE j # k
      <4>1. u.gBundles[j] = v.gBundles[j]
        BY <1>8, <1>9, <2>1, <3>2
      <4>2. v.gBundles[j] \in Bs(v) /\ v.mem[v.gBundles[j]].id = j
        BY <1>1, <2>1, <4>1 DEF Tabled
      <4> QED
        BY <1>12, <1>13, <4>1, <4>2
    <3> QED
      BY <3>1, <3>2
  <2>2. ASSUME NEW y \in Bs(u) PROVE u.gBundles[u.mem[y].id] = y
    <3>1. CASE y = x
      BY <1>5, <1>8, <1>9, <1>10, <3>1
    <3>2. CASE y # x
      <4>1. y \in Bs(v) /\ v.gBundles[v.mem[y].id] = y
        BY <1>1, <1>12, <2>2, <3>2 DEF Tabled
      <4> QED
        BY <1>8, <1>9, <1>13, <1>14, <4>1
    <3> QED
      BY <3>1, <3>2
  <2>3. /\ \A j \in LinkSlots : u.gLinks[j] # None => u.gLinks[j] \in Ls(u) /\ u.mem[u.gLinks[j]].id = j
        /\ \A l \in Ls(u) : u.gLinks[u.mem[l].id] = l
    BY <1>1, <1>9, <1>12, <1>13 DEF Tabled
  <2> QED
    BY <2>1, <2>2, <2>3 DEF Tabled
<1>16. Married(u)
  <2>1. ASSUME NEW y \in Ls(u)
        PROVE  /\ u.mem[y].bund # None => u.mem[y].bund \in Bs(u) /\ u.mem[u.mem[y].bund].link = y
               /\ u.mem[y].joined => u.mem[y].lcp = "up" /\ (u.mem[y].bund # None \/ u.mem[y].cut)
               /\ u.mem[y].bund # None /\ u.mem[y].joined => u.mem[u.mem[y].bund].n_up >= 1
    BY <1>1, <1>12, <1>13, <2>1 DEF Married
  <2>2. ASSUME NEW b \in Bs(u), ~ u.mem[b].robbed
        PROVE  /\ u.mem[b].link # None => u.mem[b].link \in Ls(u) /\ u.mem[u.mem[b].link].bund = b
               /\ u.mem[b].n_up = IF u.mem[b].link # None /\ u.mem[u.mem[b].link].joined THEN 1 ELSE 0
    <3>1. CASE b = x
      BY <1>5, <1>10, <3>1
    <3>2. CASE b # x
      BY <1>1, <1>12, <1>13, <2>2, <3>2 DEF Married
    <3> QED
      BY <3>1, <3>2
  <2> QED
    BY <2>1, <2>2 DEF Married
<1>17. Related(u)
  <2>1. \A j : KinOf(u, j) = KinOf(v, j)
    BY <1>12, <1>13 DEF KinOf
  <2>2. Born(u) = Born(v)
    BY <1>12, <1>13 DEF Born
  <2> QED
    BY <1>1, <1>9, <1>12, <1>13, <2>1, <2>2 DEF Related
<1>18. Blank(u)
  BY <1>1, <1>10, <1>12 DEF Blank
<1>19. \A y : (Queued(u, y) <=> Queued(v, y)) /\ (Dies(u, y) <=> Dies(v, y))
  BY <1>9 DEF Queued, Dies
<1>20. Still(u)
  <2>1. None \notin Ls(u)
    BY MemKinds DEF Ls
  <2> QED
    BY <1>1, <1>3, <1>5, <1>10, <1>12, <1>13, <1>19, <2>1 DEF Still
<1>21. Shut(u, h)
  BY <1>1, <1>12, <1>13, <1>19 DEF Shut
<1>22. \A y \in Mem : Held(u, y) = Held(v, y) + One(x, y)
  <2> SUFFICES ASSUME NEW y \in Mem PROVE Held(u, y) = Held(v, y) + One(x, y)
    OBVIOUS
  <2>1. v \in Worlds /\ u \in Worlds /\ BundSlot(v, u, k) /\ u.gBundles[k] = x
    BY <1>1, <1>2, <1>8, <1>9 DEF BundSlot
  <2>2. Held(u, y) + One(v.gBundles[k], y) = Held(v, y) + One(u.gBundles[k], y)
    BY <2>1, SetBundHeld
  <2>3. One(v.gBundles[k], y) = 0 /\ Held(u, y) \in Nat /\ Held(v, y) \in Nat /\ One(x, y) \in Nat
    BY <1>2, <2>1, HeldParts, MemKinds DEF One
  <2> QED
    BY <2>1, <2>2, <2>3
<1>23. Counted(u, z)
  <2> SUFFICES ASSUME NEW y \in Mem
               PROVE  Refs(u, y) = Held(u, y) + (IF y = z THEN 1 ELSE 0) /\ (u.mem[y] # Freed => u.mem[y].refs >= 1)
    BY DEF Counted
  <2>1. CASE y = x
    BY <1>3, <1>5, <1>10, <1>22, <2>1 DEF Refs, One
  <2>2. CASE y # x
    <3>1. u.mem[y] = v.mem[y] /\ Held(v, y) \in Nat /\ Held(u, y) = Held(v, y) + One(x, y)
      BY <1>1, <1>10, <1>22, <2>2, HeldParts
    <3>2. Held(u, y) = Held(v, y)
      BY <2>2, <3>1 DEF One
    <3> QED
      BY <1>1, <3>1, <3>2 DEF Refs, Counted
  <2> QED
    BY <2>1, <2>2
<1>24. Sound(u, h, z)
  BY <1>1, <1>9, <1>11, <1>15, <1>16, <1>17, <1>18, <1>20, <1>21, <1>23 DEF Sound
<1> QED
  BY <1>4, <1>5, <1>9, <1>10, <1>12, <1>24 DEF NewlyBundled

\* What a link y is after x has become a child of t, whose slot is id.
Kept(l, m, parent, children) ==
  /\ m \in Links
  /\ m.refs = l.refs /\ m.dead = l.dead /\ m.id = l.id /\ m.tmpl = l.tmpl /\ m.stay = l.stay /\ m.die = l.die
  /\ m.lcp = l.lcp /\ m.busy = l.busy /\ m.bund = l.bund /\ m.joined = l.joined /\ m.cut = l.cut
  /\ m.parent = parent /\ m.children = children

Adopted(v, u, x, t) ==
  /\ u \in Worlds /\ u.failed = v.failed /\ u.ctx = v.ctx /\ u.msgs = v.msgs
  /\ u.gLinks = v.gLinks /\ u.gBundles = v.gBundles /\ u.gChildren = v.gChildren + 1
  /\ \A y \in Mem \ {x, t} : u.mem[y] = v.mem[y]
  /\ Kept(v.mem[x], u.mem[x], v.mem[t].id, v.mem[x].children)
  /\ Kept(v.mem[t], u.mem[t], v.mem[t].parent, v.mem[t].children + 1)

Adopt(v, x, t, id) == [v EXCEPT !.mem[x].parent = id, !.mem[t].children = @ + 1, !.gChildren = @ + 1]

LEMMA AdoptFields ==
  ASSUME NEW v, NEW h, NEW z, Sound(v, h, z), NEW x \in Ls(v), NEW t \in Ls(v), x # t
  PROVE  Adopted(v, Adopt(v, x, t, v.mem[t].id), x, t)
<1> DEFINE id == v.mem[t].id
           m == [v.mem[x] EXCEPT !.parent = id]
           n == [v.mem[t] EXCEPT !.children = v.mem[t].children + 1]
           d == Put(v, x, m)
           e == Put(d, t, n)
           u == [e EXCEPT !.gChildren = v.gChildren + 1]
<1>1. /\ v \in Worlds /\ Sorted(v) /\ x \in LinkMem /\ t \in LinkMem /\ x \in Mem /\ t \in Mem
      /\ v.mem[x] \in Links /\ v.mem[t] \in Links /\ id \in LinkSlots /\ v.gChildren \in Nat
  BY MemKinds DEF Sound, Sorted, Ls, Links, Worlds
<1>2. /\ Kept(v.mem[x], m, id, v.mem[x].children) /\ m \in Links
      /\ Kept(v.mem[t], n, v.mem[t].parent, v.mem[t].children + 1) /\ n \in Links
  <2>1. Kept(v.mem[x], m, id, v.mem[x].children) /\ m \in Links
    BY <1>1 DEF Kept, Links
  <2>2. v.mem[t].children + 1 \in Nat
    BY <1>1 DEF Links
  <2>3. Kept(v.mem[t], n, v.mem[t].parent, v.mem[t].children + 1) /\ n \in Links
    BY <1>1, <2>2 DEF Kept, Links
  <2> QED
    BY <2>1, <2>3
<1>3. Adopt(v, x, t, id) = u
  <2>1. [v EXCEPT !.mem[x].parent = id] = d
    BY <1>1 DEF Put, Worlds
  <2>2. Adopt(v, x, t, id) = [d EXCEPT !.mem[t].children = @ + 1, !.gChildren = @ + 1]
    BY <1>1, <2>1 DEF Adopt, Put, Worlds
  <2> HIDE DEF m
  <2>3. d.mem[t] = v.mem[t] /\ d.gChildren = v.gChildren
    BY <1>1 DEF Put, Worlds
  <2>4. Touched(v, d, x)
    BY <1>1, <1>2, PutTouches
  <2> HIDE DEF d
  <2>5. d \in Worlds
    BY <2>4 DEF Touched
  <2>6. [d EXCEPT !.mem[t].children = @ + 1, !.gChildren = @ + 1] = u
    BY <2>3, <2>5 DEF Put, Worlds
  <2> QED
    BY <2>2, <2>6
<1> HIDE DEF m, n, id
<1>4. Touched(v, d, x) /\ d.mem[x] = m
  BY <1>1, <1>2, PutTouches
<1> HIDE DEF d
<1>5. d \in Worlds /\ Sorted(d)
  BY <1>4 DEF Touched
<1>6. Touched(d, e, t) /\ e.mem[t] = n
  BY <1>1, <1>2, <1>5, PutTouches
<1> HIDE DEF e
<1>7. e \in Worlds /\ e.mem[x] = m /\ e.gChildren = v.gChildren /\ \A y \in Mem \ {x, t} : e.mem[y] = v.mem[y]
  BY <1>1, <1>4, <1>6 DEF Touched
<1>8. /\ u \in Worlds /\ u.mem = e.mem /\ u.failed = e.failed /\ u.ctx = e.ctx /\ u.msgs = e.msgs
      /\ u.gLinks = e.gLinks /\ u.gBundles = e.gBundles /\ u.gChildren = v.gChildren + 1
  <2> DEFINE c == v.gChildren + 1
  <2>1. c \in Nat
    BY <1>1
  <2> HIDE DEF c
  <2>2. u = [e EXCEPT !.gChildren = c]
    BY DEF c
  <2>3. e \in Worlds
    BY <1>7
  <2> HIDE DEF u
  <2>4. u \in Worlds
    BY <2>1, <2>2, <2>3 DEF Worlds
  <2>5. /\ u.mem = e.mem /\ u.failed = e.failed /\ u.ctx = e.ctx /\ u.msgs = e.msgs
        /\ u.gLinks = e.gLinks /\ u.gBundles = e.gBundles /\ u.gChildren = c
    BY <2>2, <2>3 DEF Worlds
  <2> QED
    BY <2>4, <2>5 DEF c
<1> HIDE DEF u
<1>9. /\ u.failed = v.failed /\ u.ctx = v.ctx /\ u.msgs = v.msgs /\ u.gLinks = v.gLinks /\ u.gBundles = v.gBundles
  BY <1>4, <1>6, <1>8 DEF Touched
<1>10. Adopted(v, u, x, t)
  BY <1>2, <1>6, <1>7, <1>8, <1>9 DEF Adopted, id
<1> QED
  BY <1>3, <1>10 DEF id

\* A link without a parent gets one.
LEMMA AdoptSound ==
  ASSUME NEW v, NEW h, NEW z, Sound(v, h, z), NEW x \in Ls(v), NEW t \in Ls(v), x # t, v.mem[x].parent = 0,
         NEW u, Adopted(v, u, x, t)
  PROVE  Sound(u, h, z) /\ Ls(u) = Ls(v) /\ Bs(u) = Bs(v)
<1> DEFINE id == v.mem[t].id
<1>1. /\ v \in Worlds /\ v.failed = "none" /\ Sorted(v) /\ Tabled(v) /\ Married(v) /\ Related(v)
      /\ Blank(v) /\ Still(v) /\ Shut(v, h) /\ Counted(v, z)
  BY DEF Sound
<1>2. /\ u \in Worlds /\ u.failed = "none" /\ u.ctx = v.ctx /\ u.msgs = v.msgs
      /\ u.gLinks = v.gLinks /\ u.gBundles = v.gBundles /\ u.gChildren = v.gChildren + 1
      /\ \A y \in Mem \ {x, t} : u.mem[y] = v.mem[y]
      /\ Kept(v.mem[x], u.mem[x], id, v.mem[x].children)
      /\ Kept(v.mem[t], u.mem[t], v.mem[t].parent, v.mem[t].children + 1)
  BY <1>1 DEF Adopted
<1>3. /\ \A y \in Ls(v) : v.mem[y] \in Links /\ v.mem[y].id \in LinkSlots /\ v.mem[y].id # 0 /\ y \in LinkMem
                          /\ y \in Mem /\ y # None /\ ~ v.mem[y].dead
      /\ id \in LinkSlots /\ id # 0
  BY <1>1, ListedLiving, MemKinds, Finite DEF Ls
<1>4. /\ \A b \in BundMem : u.mem[b] = v.mem[b]
      /\ \A y \in LinkMem \ Ls(v) : u.mem[y] = v.mem[y]
  BY <1>2, <1>3, MemKinds
<1>5. \A y \in Ls(v) : Kept(v.mem[y], u.mem[y], IF y = x THEN id ELSE v.mem[y].parent,
                            IF y = t THEN v.mem[y].children + 1 ELSE v.mem[y].children)
  <2> SUFFICES ASSUME NEW y \in Ls(v)
               PROVE  Kept(v.mem[y], u.mem[y], IF y = x THEN id ELSE v.mem[y].parent,
                           IF y = t THEN v.mem[y].children + 1 ELSE v.mem[y].children)
    OBVIOUS
  <2>1. CASE y = x
    BY <1>2, <2>1
  <2>2. CASE y = t
    BY <1>2, <2>2
  <2>3. CASE y # x /\ y # t
    BY <1>2, <1>3, <2>3 DEF Kept
  <2> QED
    BY <2>1, <2>2, <2>3
<1>6. \A y \in Ls(v) :
        /\ u.mem[y] \in Links /\ u.mem[y] # Freed /\ ~ u.mem[y].dead
        /\ u.mem[y].refs = v.mem[y].refs /\ u.mem[y].id = v.mem[y].id /\ u.mem[y].tmpl = v.mem[y].tmpl
        /\ u.mem[y].die = v.mem[y].die /\ u.mem[y].lcp = v.mem[y].lcp /\ u.mem[y].busy = v.mem[y].busy
        /\ u.mem[y].bund = v.mem[y].bund /\ u.mem[y].joined = v.mem[y].joined /\ u.mem[y].cut = v.mem[y].cut
        /\ u.mem[y].parent = (IF y = x THEN id ELSE v.mem[y].parent)
        /\ u.mem[y].children = (IF y = t THEN v.mem[y].children + 1 ELSE v.mem[y].children)
  BY <1>3, <1>5, MemKinds DEF Kept
<1>7. Ls(u) = Ls(v) /\ Bs(u) = Bs(v)
  <2>1. Ls(u) = Ls(v)
    BY <1>4, <1>6 DEF Ls
  <2>2. Bs(u) = Bs(v)
    BY <1>4 DEF Bs
  <2> QED
    BY <2>1, <2>2
<1>8. Sorted(u)
  BY <1>1, <1>4, <1>6 DEF Sorted
<1>9. Tabled(u)
  <2>1. \A y \in Ls(v) : u.mem[y].id = v.mem[y].id
    BY <1>6
  <2>2. \A y \in Bs(v) : u.mem[y].id = v.mem[y].id
    BY <1>4 DEF Bs
  <2> QED
    BY <1>1, <1>2, <1>7, <2>1, <2>2, TabledIsSame
<1>10. Married(u)
  <2>1. \A b \in Bs(v) : u.mem[b] = v.mem[b]
    BY <1>4 DEF Bs
  <2>2. ASSUME NEW y \in Ls(u)
        PROVE  /\ u.mem[y].bund # None => u.mem[y].bund \in Bs(u) /\ u.mem[u.mem[y].bund].link = y
               /\ u.mem[y].joined => u.mem[y].lcp = "up" /\ (u.mem[y].bund # None \/ u.mem[y].cut)
               /\ u.mem[y].bund # None /\ u.mem[y].joined => u.mem[u.mem[y].bund].n_up >= 1
    BY <1>1, <1>6, <1>7, <2>1, <2>2 DEF Married
  <2>3. ASSUME NEW b \in Bs(u), ~ u.mem[b].robbed
        PROVE  /\ u.mem[b].link # None => u.mem[b].link \in Ls(u) /\ u.mem[u.mem[b].link].bund = b
               /\ u.mem[b].n_up = IF u.mem[b].link # None /\ u.mem[u.mem[b].link].joined THEN 1 ELSE 0
    <3>1. b \in Bs(v) /\ u.mem[b] = v.mem[b] /\ ~ v.mem[b].robbed
      BY <1>7, <2>1, <2>3
    <3>2. /\ v.mem[b].link # None => v.mem[b].link \in Ls(v) /\ v.mem[v.mem[b].link].bund = b
          /\ v.mem[b].n_up = IF v.mem[b].link # None /\ v.mem[v.mem[b].link].joined THEN 1 ELSE 0
      BY <1>1, <3>1 DEF Married
    <3>3. v.mem[b].link # None => /\ u.mem[v.mem[b].link].bund = v.mem[v.mem[b].link].bund
                                  /\ u.mem[v.mem[b].link].joined = v.mem[v.mem[b].link].joined
      BY <1>6, <3>2
    <3> QED
      BY <1>7, <3>1, <3>2, <3>3
  <2> QED
    BY <2>2, <2>3 DEF Married
<1>11. \A y \in Ls(v) : v.mem[y].id = id <=> y = t
  BY <1>1 DEF Tabled
<1>12. Related(u)
  <2>1. ASSUME NEW y \in Ls(u), u.mem[y].parent # 0
        PROVE  u.mem[y].parent # u.mem[y].id /\ u.gLinks[u.mem[y].parent] # None
    <3>1. CASE y = x
      <4>1. u.mem[y].parent = id /\ u.mem[y].id # id
        BY <1>6, <1>7, <1>11, <3>1
      <4>2. u.gLinks[id] = t /\ t # None
        BY <1>1, <1>2, <1>3 DEF Tabled
      <4> QED
        BY <4>1, <4>2
    <3>2. CASE y # x
      BY <1>1, <1>2, <1>6, <1>7, <2>1, <3>2 DEF Related
    <3> QED
      BY <3>1, <3>2
  <2>2. ASSUME NEW y \in Ls(u) PROVE u.mem[y].children = Cardinality(KinOf(u, u.mem[y].id))
    <3> DEFINE j == v.mem[y].id
               P == KinOf(v, j)
               Q == KinOf(u, j)
    <3>1. y \in Ls(v) /\ u.mem[y].id = j /\ j \in LinkSlots /\ j # 0 /\ (j = id <=> y = t)
      BY <1>3, <1>6, <1>7, <1>11, <2>2
    <3>2. P \in SUBSET LinkMem /\ Q \in SUBSET LinkMem /\ x \notin P /\ (x \in Q <=> y = t) /\ x \in LinkMem
      BY <1>3, <1>6, <1>7, <3>1 DEF KinOf
    <3>3. \A c \in LinkMem \ {x} : c \in P <=> c \in Q
      BY <1>6, <1>7 DEF KinOf
    <3>4. v.mem[y].children = Cardinality(P)
      BY <1>1, <3>1 DEF Related
    <3>5. u.mem[y].children = (IF y = t THEN v.mem[y].children + 1 ELSE v.mem[y].children)
      BY <1>6, <3>1
    <3>6. IsFiniteSet(LinkMem)
      BY Finite
    <3> HIDE DEF P, Q, j
    <3>7. Cardinality(Q) + (IF x \in P THEN 1 ELSE 0) = Cardinality(P) + (IF x \in Q THEN 1 ELSE 0)
          /\ Cardinality(P) \in Nat /\ Cardinality(Q) \in Nat
      BY <3>2, <3>3, <3>6, CountChange
    <3>8. u.mem[y].children = Cardinality(Q)
      BY <3>2, <3>4, <3>5, <3>7
    <3> QED
      BY <3>1, <3>8 DEF Q
  <2>3. u.gChildren >= Cardinality(Born(u))
    <3> DEFINE P == Born(v)
               Q == Born(u)
    <3>1. P \in SUBSET LinkMem /\ Q \in SUBSET LinkMem /\ x \in LinkMem /\ x \notin P /\ x \in Q /\ IsFiniteSet(LinkMem)
      BY <1>3, <1>6, <1>7, Finite DEF Born, Ls
    <3>2. \A c \in LinkMem \ {x} : c \in P <=> c \in Q
      BY <1>6, <1>7 DEF Born
    <3>3. v.gChildren >= Cardinality(P) /\ v.gChildren \in Nat /\ u.gChildren = v.gChildren + 1
      BY <1>1, <1>2 DEF Related, Worlds
    <3> HIDE DEF P, Q
    <3>4. Cardinality(Q) + (IF x \in P THEN 1 ELSE 0) = Cardinality(P) + (IF x \in Q THEN 1 ELSE 0)
          /\ Cardinality(P) \in Nat /\ Cardinality(Q) \in Nat
      BY <3>1, <3>2, CountChange
    <3>5. u.gChildren >= Cardinality(Q)
      BY <3>1, <3>3, <3>4
    <3> QED
      BY <3>5 DEF Q
  <2> QED
    BY <2>1, <2>2, <2>3 DEF Related
<1>13. Blank(u)
  BY <1>1, <1>4, <1>7 DEF Blank
<1>14. \A y : Held(u, y) = Held(v, y) /\ (Queued(u, y) <=> Queued(v, y)) /\ (Dies(u, y) <=> Dies(v, y))
  BY <1>2, HeldSame
<1>15. Still(u)
  <2>1. \A b \in Bs(u) : /\ u.mem[b].tmpl => u.mem[b].link = None /\ ~ Queued(u, b)
                         /\ u.mem[b].link \in Ls(u) => ~ u.mem[u.mem[b].link].tmpl
    BY <1>1, <1>4, <1>6, <1>7, <1>14 DEF Still, Bs
  <2>2. \A y \in Ls(u) : u.mem[y].tmpl =>
          u.mem[y].lcp = "initial" /\ ~ u.mem[y].busy /\ u.mem[y].bund = None /\ ~ Queued(u, y)
    BY <1>1, <1>6, <1>7, <1>14 DEF Still
  <2> QED
    BY <2>1, <2>2 DEF Still
<1>16. Shut(u, h)
  BY <1>1, <1>6, <1>7, <1>14 DEF Shut
<1>17. Counted(u, z)
  <2> SUFFICES ASSUME NEW y \in Mem
               PROVE  Refs(u, y) = Refs(v, y) /\ (u.mem[y] # Freed => u.mem[y].refs >= 1)
    BY <1>1, <1>14 DEF Counted
  <2>1. CASE y \in Ls(v)
    BY <1>1, <1>6, <2>1 DEF Refs, Counted, Ls
  <2>2. CASE y \notin Ls(v)
    <3>1. u.mem[y] = v.mem[y]
      BY <1>4, <2>2, MemKinds
    <3> QED
      BY <1>1, <3>1 DEF Refs, Counted
  <2> QED
    BY <2>1, <2>2
<1> QED
  BY <1>2, <1>7, <1>8, <1>9, <1>10, <1>12, <1>13, <1>15, <1>16, <1>17 DEF Sound

\* A link has been made at x, from a template.
Instanced(v, u, h, z, x, tmpl) ==
  /\ Sound(u, h, z) /\ Ls(u) = Ls(v) \cup {x} /\ Bs(u) = Bs(v) /\ u.msgs = v.msgs /\ u.ctx = v.ctx
  /\ \A b \in BundMem : u.mem[b] = v.mem[b]
  /\ u.mem[x] \in Links /\ u.mem[x].tmpl = tmpl /\ ~ u.mem[x].die /\ u.mem[x].lcp = "initial"
  /\ ~ u.mem[x].busy /\ u.mem[x].bund = None /\ ~ u.mem[x].joined

LEMMA LinkInstSound ==
  ASSUME NEW v, NEW h, NEW z, Sound(v, h, z), NEW x \in LinkMem, v.mem[x] = Freed, Unnamed(v, x),
         NEW t \in Ls(v), NEW tmpl \in BOOLEAN, NEW stay \in BOOLEAN
  PROVE  LET u == LinkInst(v, x, t, tmpl, stay)
         IN  Instanced(v, u, h, z, x, tmpl)
<1> DEFINE e == Enlist(v, x, tmpl, stay)
           u == Adopt(e, x, t, v.mem[t].id)
<1>1. x \in Mem /\ t \in Mem /\ t # x /\ \A b \in BundMem : b # x /\ b \in Mem
  BY MemKinds DEF Ls
<1>2. LinkInst(v, x, t, tmpl, stay) = u
  BY DEF LinkInst, Adopt
<1>3. NewlyLinked(v, e, h, z, x, tmpl)
  BY EnlistSound
<1> HIDE DEF e
<1>4. /\ Sound(e, h, z) /\ Ls(e) = Ls(v) \cup {x} /\ Bs(e) = Bs(v) /\ e.msgs = v.msgs /\ e.ctx = v.ctx
      /\ \A y \in Mem \ {x} : e.mem[y] = v.mem[y]
      /\ e.mem[x] \in Links /\ e.mem[x].tmpl = tmpl /\ ~ e.mem[x].die /\ e.mem[x].lcp = "initial" /\ ~ e.mem[x].busy
      /\ e.mem[x].bund = None /\ ~ e.mem[x].joined /\ e.mem[x].parent = 0
  BY <1>3 DEF NewlyLinked
<1>5. x \in Ls(e) /\ t \in Ls(e) /\ e.mem[t].id = v.mem[t].id
  BY <1>1, <1>4
<1>6. Adopted(e, u, x, t)
  BY <1>1, <1>4, <1>5, AdoptFields
<1> HIDE DEF u
<1>7. Sound(u, h, z) /\ Ls(u) = Ls(e) /\ Bs(u) = Bs(e)
  BY <1>1, <1>4, <1>5, <1>6, AdoptSound
<1>8. u.msgs = e.msgs /\ u.ctx = e.ctx /\ (\A b \in BundMem : u.mem[b] = e.mem[b])
  <2>1. \A b \in BundMem : b \in Mem \ {x, t}
    BY <1>1, MemKinds DEF Ls
  <2> QED
    BY <1>6, <2>1 DEF Adopted
<1>9. /\ u.mem[x] \in Links /\ u.mem[x].tmpl = e.mem[x].tmpl /\ u.mem[x].die = e.mem[x].die
      /\ u.mem[x].lcp = e.mem[x].lcp /\ u.mem[x].busy = e.mem[x].busy /\ u.mem[x].bund = e.mem[x].bund
      /\ u.mem[x].joined = e.mem[x].joined
  BY <1>6 DEF Adopted, Kept
<1> QED
  BY <1>1, <1>2, <1>4, <1>7, <1>8, <1>9 DEF Instanced

----------------------------------------------------------------------------
(* Messages. *)

\* The first of a queue counts once.
LEMMA TailCount ==
  ASSUME NEW q \in Seq(Messages), q # << >>, NEW x
  PROVE  LET P == {i \in 1 .. Len(q) : q[i].to = x}
             Q == {i \in 1 .. Len(Tail(q)) : Tail(q)[i].to = x}
         IN  Cardinality(P) = Cardinality(Q) + One(Head(q).to, x)
<1> DEFINE n == Len(q)
           P == {i \in 1 .. n : q[i].to = x}
           Q == {i \in 1 .. Len(Tail(q)) : Tail(q)[i].to = x}
           R == P \ {1}
           f == [i \in Q |-> i + 1]
<1>1. n \in Nat /\ n >= 1 /\ Len(Tail(q)) = n - 1 /\ \A i \in 1 .. n - 1 : Tail(q)[i] = q[i + 1]
  OBVIOUS
<1>2. Head(q) = q[1]
  OBVIOUS
<1>3. IsFiniteSet(P) /\ IsFiniteSet(Q)
  <2>1. IsFiniteSet(1 .. n) /\ P \in SUBSET (1 .. n)
    BY <1>1, Finite
  <2>2. IsFiniteSet(1 .. Len(Tail(q))) /\ Q \in SUBSET (1 .. Len(Tail(q)))
    BY <1>1, Finite
  <2> QED
    BY <2>1, <2>2, FS_Subset, Zenon
<1>4. Q = {i \in 1 .. n - 1 : q[i + 1].to = x}
  BY <1>1
<1>5. \A i \in Q : i + 1 \in R
  BY <1>1, <1>4
<1>6. \A j \in R : j - 1 \in Q /\ (j - 1) + 1 = j
  BY <1>1, <1>4
<1>7. Q \subseteq Nat
  BY <1>4
<1>8. 1 \in P <=> Head(q).to = x
  BY <1>1, <1>2
<1> HIDE DEF n, P, Q, R
<1>9. f \in Bijection(Q, R)
  <2>1. f \in [Q -> R]
    BY <1>5
  <2>2. \A i, j \in Q : f[i] = f[j] => i = j
    BY <1>7
  <2>3. \A j \in R : \E i \in Q : f[i] = j
    BY <1>6
  <2> HIDE DEF f
  <2> QED
    BY <2>1, <2>2, <2>3, Fun_IsBij
<1>10. ExistsBijection(Q, R)
  BY <1>9 DEF ExistsBijection
<1>11. Cardinality(R) = Cardinality(Q)
  BY <1>3, <1>10, FS_Bijection
<1>12. Cardinality(R) = IF 1 \in P THEN Cardinality(P) - 1 ELSE Cardinality(P)
  BY <1>3, FS_RemoveElement, Zenon DEF R
<1>13. Cardinality(P) \in Nat /\ Cardinality(Q) \in Nat
  BY <1>3, FS_CardinalityType, Zenon
<1>14. Cardinality(P) = Cardinality(Q) + One(Head(q).to, x)
  BY <1>8, <1>11, <1>12, <1>13 DEF One
<1> QED
  BY <1>14 DEF P, Q, n

LEMMA TailHeld ==
  ASSUME NEW v \in Worlds, v.msgs # << >>, NEW u \in Worlds, u.msgs = Tail(v.msgs),
         u.gLinks = v.gLinks, u.gBundles = v.gBundles, u.ctx = v.ctx, NEW x
  PROVE  Held(v, x) = Held(u, x) + One(Head(v.msgs).to, x)
<1> DEFINE q == v.msgs
           a == AsTarget(v, x)
           b == AsTarget(u, x)
           o == One(Head(q).to, x)
<1>1. q \in Seq(Messages) /\ q # << >>
  BY DEF Worlds
<1>2. a = b + o
  <2>1. a = Cardinality({i \in 1 .. Len(q) : q[i].to = x})
    BY DEF AsTarget
  <2>2. b = Cardinality({i \in 1 .. Len(Tail(q)) : Tail(q)[i].to = x})
    BY DEF AsTarget
  <2> HIDE DEF q, a, b
  <2> QED
    BY <1>1, <2>1, <2>2, TailCount
<1>3. InLinks(u, x) = InLinks(v, x) /\ InBunds(u, x) = InBunds(v, x) /\ AsLink(u, x) = AsLink(v, x) /\ AsBund(u, x) = AsBund(v, x)
  BY DEF InLinks, InBunds, AsLink, AsBund
<1>4. /\ Held(v, x) = InLinks(v, x) + InBunds(v, x) + AsLink(v, x) + AsBund(v, x) + a
      /\ Held(u, x) = InLinks(u, x) + InBunds(u, x) + AsLink(u, x) + AsBund(u, x) + b
      /\ InLinks(v, x) \in Nat /\ InBunds(v, x) \in Nat /\ AsLink(v, x) \in Nat /\ AsBund(v, x) \in Nat
      /\ a \in Nat /\ b \in Nat
  BY HeldParts
<1>5. o \in Nat
  BY DEF One
<1> HIDE DEF a, b, o
<1> QED
  BY <1>2, <1>3, <1>4, <1>5 DEF o, q

\* A message is taken from the queue; its reference is that of the handler.
Taken(v) == [v EXCEPT !.msgs = Tail(@)]

LEMMA TakenSound ==
  ASSUME NEW v, NEW h, Sound(v, h, None), v.msgs # << >>
  PROVE  LET m == Head(v.msgs)
             u == Taken(v)
         IN  /\ Sound(u, TRUE, m.to) /\ u.mem = v.mem /\ m \in Messages
             /\ m.to \in Ls(u) \cup Bs(u) => ~ u.mem[m.to].tmpl
             /\ m.op = "shutdown" /\ m.to \in Ls(u) => ~ u.mem[m.to].joined
<1> DEFINE m == Head(v.msgs)
           u == Taken(v)
<1>1. v \in Worlds /\ Sorted(v) /\ Still(v) /\ Shut(v, h) /\ Counted(v, None) /\ v.msgs \in Seq(Messages)
  BY DEF Sound, Worlds
<1>2. m \in Messages /\ Tail(v.msgs) \in Seq(Messages) /\ m = v.msgs[1] /\ 1 \in 1 .. Len(v.msgs)
  BY <1>1
<1>3. /\ u \in Worlds /\ u.mem = v.mem /\ u.gLinks = v.gLinks /\ u.gBundles = v.gBundles
      /\ u.gChildren = v.gChildren /\ u.failed = v.failed /\ u.ctx = v.ctx /\ u.msgs = Tail(v.msgs)
  BY <1>1, <1>2 DEF Taken, Worlds
<1> HIDE DEF u, m
<1>4. Recounted(v, u)
  BY <1>1, <1>3 DEF Recounted, Sorted, LinkLike, BundLike, Ls, Bs
<1>5. \A x \in Mem : Held(v, x) = Held(u, x) + One(m.to, x) /\ Held(u, x) \in Nat
  BY <1>1, <1>3, TailHeld, HeldParts DEF m
<1>6. Counted(u, m.to)
  <2> SUFFICES ASSUME NEW x \in Mem
               PROVE  Refs(u, x) = Held(u, x) + (IF x = m.to THEN 1 ELSE 0) /\ (u.mem[x] # Freed => u.mem[x].refs >= 1)
    BY DEF Counted
  <2>1. Refs(v, x) = Held(v, x) + (IF x = None THEN 1 ELSE 0) /\ (v.mem[x] # Freed => v.mem[x].refs >= 1)
    BY <1>1 DEF Counted
  <2>2. x # None
    BY MemKinds
  <2>3. Refs(v, x) = Held(v, x)
    BY <1>5, <2>1, <2>2 DEF One
  <2> QED
    BY <1>3, <1>5, <2>1, <2>3 DEF Refs, One
<1>7. \A i \in 1 .. Len(u.msgs) : i + 1 \in 1 .. Len(v.msgs) /\ u.msgs[i] = v.msgs[i + 1]
  BY <1>1, <1>3
<1>8. \A x : (Queued(u, x) => Queued(v, x)) /\ (Dies(u, x) => Dies(v, x))
  BY <1>7 DEF Queued, Dies
<1>9. Sound(u, h, m.to)
  BY <1>4, <1>6, <1>8, RecountedSound
<1>10. Sound(u, TRUE, m.to)
  BY <1>9 DEF Sound, Shut
<1>11. Queued(v, m.to) /\ (m.op = "shutdown" => Dies(v, m.to))
  <2>1. Queued(v, m.to)
    BY <1>2 DEF Queued
  <2>2. m.op = "shutdown" => m = [op |-> "shutdown", to |-> m.to]
    BY <1>2 DEF Messages
  <2> QED
    BY <1>2, <2>1, <2>2 DEF Dies
<1>12. Ls(u) = Ls(v) /\ Bs(u) = Bs(v)
  BY <1>3 DEF Ls, Bs
<1>13. m.to \in Ls(u) \cup Bs(u) => ~ u.mem[m.to].tmpl
  BY <1>1, <1>3, <1>11, <1>12 DEF Still
<1>14. m.op = "shutdown" /\ m.to \in Ls(u) => ~ u.mem[m.to].joined
  BY <1>1, <1>3, <1>11, <1>12 DEF Shut
<1> QED
  BY <1>2, <1>3, <1>10, <1>13, <1>14 DEF m, u

\* A message for a link, which may find that the link has lost its bundle.
LEMMA DeliverSound ==
  ASSUME NEW v, NEW z, Sound(v, TRUE, z), NEW m \in Messages, m.to \in Ls(v), ~ v.mem[m.to].tmpl,
         m.op = "shutdown" => ~ v.mem[m.to].joined, NEW now, NEW midway
  PROVE  Sound(Deliver(v, m, now, midway), TRUE, z) \/ Torn(v, Deliver(v, m, now, midway), m.to)
<1> DEFINE x == m.to
<1>1. m.op \in {"open", "close", "shutdown", "physOpen", "physClose"}
  BY MemKinds DEF Messages, Ls
<1> HIDE DEF x
<1>2. CASE m.op = "open"
  <2>1. Run(v, LcpOpen(v, x), TRUE, z, x)
    BY LcpOpenSound DEF x
  <2>2. Deliver(v, m, now, midway) = LcpOpen(v, x)
    BY <1>2 DEF Deliver, x
  <2> QED
    BY <2>1, <2>2 DEF Run
<1>3. CASE m.op = "close"
  <2>1. Run(v, LcpClose(v, x), TRUE, z, x) \/ Torn(v, LcpClose(v, x), x)
    <3>1. x \in Ls(v)
      BY DEF x
    <3> QED
      BY <3>1, LcpCloseSound, LcpCloseTorn
  <2>2. Deliver(v, m, now, midway) = LcpClose(v, x)
    BY <1>3 DEF Deliver, x
  <2> QED
    BY <2>1, <2>2 DEF Run, x
<1>4. CASE m.op = "shutdown"
  <2>1. x \in Ls(v) /\ ~ v.mem[x].joined
    BY <1>4 DEF x
  <2>2. Sound(LinkShutdown(v, x), TRUE, z)
    BY <2>1, LinkShutdownSound
  <2>3. Deliver(v, m, now, midway) = LinkShutdown(v, x)
    BY <1>4 DEF Deliver, x
  <2> QED
    BY <2>2, <2>3
<1>5. CASE m.op = "physOpen"
  <2> DEFINE l == v.mem[x]
             n == [l EXCEPT !.busy = TRUE]
             d == Put(v, x, n)
  <2>1. v \in Worlds /\ x \in Mem /\ x \in Ls(v) /\ l \in Links /\ ~ l.tmpl
    BY MemKinds DEF Sound, Sorted, Ls, x
  <2>2. Deliver(v, m, now, midway) = d
    <3>1. Deliver(v, m, now, midway) = [v EXCEPT !.mem[x].busy = TRUE]
      BY <1>5 DEF Deliver, x
    <3> QED
      BY <2>1, <3>1 DEF Put
  <2>3. /\ n \in Links /\ n.refs = l.refs /\ n.dead = l.dead /\ n.id = l.id /\ n.bund = l.bund /\ n.joined = l.joined
        /\ n.parent = l.parent /\ n.children = l.children /\ n.tmpl = l.tmpl /\ n.lcp = l.lcp /\ n.die = l.die
        /\ n.cut = l.cut
    BY <2>1 DEF Links
  <2> HIDE DEF n
  <2>4. Flagged(v, n, TRUE, x)
    BY <2>1, <2>3, LcpFacts DEF Flagged
  <2>5. Sound(d, TRUE, z)
    BY <2>1, <2>4, PutLinkSound
  <2> QED
    BY <2>2, <2>5
<1>6. CASE m.op = "physClose"
  <2>1. Sound(PhysDown(v, x, midway), TRUE, z) \/ Torn(v, PhysDown(v, x, midway), x)
    <3>1. x \in Ls(v) /\ ~ v.mem[x].tmpl
      BY DEF x
    <3> QED
      BY <3>1, PhysDownSound, PhysDownTorn
  <2>2. Deliver(v, m, now, midway) = IF now /\ v.mem[m.to].busy THEN PhysDown(v, x, midway) ELSE v
    BY <1>6 DEF Deliver, x
  <2> QED
    BY <2>1, <2>2 DEF x
<1> QED
  BY <1>1, <1>2, <1>3, <1>4, <1>5, <1>6

\* What the handler of a bundle for a message may leave.
Asked(v, u, h, z, b) == Sound(u, h, z) \/ (u = Fail(v, "slot") /\ v.mem[b].robbed)

\* The link in the slot of a bundle: another has it, or had it, unless it is the bundle's.
LEMMA SlotFacts ==
  ASSUME NEW v, NEW h, NEW z, Sound(v, h, z), NEW b \in Bs(v), v.mem[b].link # None, NEW logs
  PROVE  LET x == v.mem[b].link
         IN  /\ Gone(v, x) \/ Nameless(v, x, logs) => v.mem[b].robbed
             /\ ~ Gone(v, x) => x \in Ls(v) /\ ~ v.mem[x].tmpl
<1> DEFINE x == v.mem[b].link
<1>1. Married(v) /\ Still(v) /\ v.mem[b] \in Bundles /\ b # None
  BY MemKinds DEF Sound, Sorted, Bs
<1>2. x \in LinkMem
  BY <1>1 DEF Bundles
<1>3. ~ Gone(v, x) => x \in Ls(v)
  BY <1>2 DEF Gone, Ls
<1>4. ~ v.mem[b].robbed => x \in Ls(v) /\ v.mem[x].bund = b
  BY <1>1 DEF Married
<1>5. x \in Ls(v) => ~ v.mem[x].tmpl
  BY <1>1 DEF Still
<1> HIDE DEF x
<1>6. Gone(v, x) \/ Nameless(v, x, logs) => v.mem[b].robbed
  BY <1>1, <1>4 DEF Gone, Ls, Nameless
<1> QED
  BY <1>3, <1>5, <1>6 DEF x

LEMMA BundOpenLinksSound ==
  ASSUME NEW v, NEW h, NEW z, Sound(v, h, z), NEW b \in Bs(v), ~ v.mem[b].tmpl, NEW y, NEW logs,
         NEW t \in Ls(v) \cup {None},
         t # None => ~ v.mem[t].joined /\ (v.mem[t].tmpl => y \in LinkMem /\ v.mem[y] = Freed /\ Unnamed(v, y))
  PROVE  Asked(v, BundOpenLinks(v, b, t, y, logs), h, z, b)
<1>1. Married(v) /\ None \notin Ls(v) /\ b \in BundMem
  BY MemKinds DEF Sound, Ls, Bs
<1>2. CASE v.mem[b].link # None
  <2> DEFINE x == v.mem[b].link
  <2>1. /\ Gone(v, x) \/ Nameless(v, x, logs) => v.mem[b].robbed
        /\ ~ Gone(v, x) => x \in Ls(v) /\ ~ v.mem[x].tmpl
    BY <1>2, SlotFacts
  <2>2. BundOpenLinks(v, b, t, y, logs) =
          IF Gone(v, x) \/ Nameless(v, x, logs) THEN Fail(v, "slot") ELSE LinkOpen(v, x)
    BY <1>2 DEF BundOpenLinks
  <2> HIDE DEF x
  <2>3. ~ Gone(v, x) => Run(v, LinkOpen(v, x), h, z, x)
    BY <2>1, AskRun
  <2> QED
    BY <2>1, <2>2, <2>3 DEF Run, Asked
<1>3. CASE v.mem[b].link = None /\ t = None
  BY <1>3 DEF BundOpenLinks, Asked
<1>4. CASE v.mem[b].link = None /\ t # None /\ ~ v.mem[t].tmpl
  <2> DEFINE d == Marry(v, b, t)
  <2>1. t \in Ls(v) /\ ~ v.mem[t].joined /\ v.mem[b].link = None /\ ~ v.mem[t].tmpl
    BY <1>4
  <2>2. Sound(d, h, z) /\ Ls(d) = Ls(v) /\ ~ d.mem[t].tmpl
    BY <2>1, MarrySound
  <2>3. BundOpenLinks(v, b, t, y, logs) = LinkOpen(d, t)
    BY <1>4 DEF BundOpenLinks
  <2> HIDE DEF d
  <2>4. t \in Ls(d)
    BY <2>1, <2>2
  <2>5. Run(d, LinkOpen(d, t), h, z, t)
    BY <2>2, <2>4, AskRun
  <2> QED
    BY <2>3, <2>5 DEF Run, Asked
<1>5. CASE v.mem[b].link = None /\ t # None /\ v.mem[t].tmpl
  <2> DEFINE d == LinkInst(v, y, t, FALSE, FALSE)
             e == Marry(d, b, y)
  <2>1. t \in Ls(v) /\ y \in LinkMem /\ v.mem[y] = Freed /\ Unnamed(v, y)
    BY <1>5
  <2>2. /\ Sound(d, h, z) /\ Ls(d) = Ls(v) \cup {y} /\ Bs(d) = Bs(v)
        /\ \A p \in BundMem : d.mem[p] = v.mem[p]
        /\ ~ d.mem[y].tmpl /\ ~ d.mem[y].joined
    <3>1. FALSE \in BOOLEAN
      OBVIOUS
    <3>2. Instanced(v, d, h, z, y, FALSE)
      BY <2>1, <3>1, LinkInstSound
    <3> HIDE DEF d
    <3> QED
      BY <3>2 DEF Instanced
  <2>3. BundOpenLinks(v, b, t, y, logs) = LinkOpen(e, y)
    BY <1>5 DEF BundOpenLinks
  <2> HIDE DEF d
  <2>4. y \in Ls(d) /\ b \in Bs(d) /\ ~ d.mem[y].joined /\ d.mem[b].link = None /\ ~ d.mem[y].tmpl /\ ~ d.mem[b].tmpl
    BY <1>1, <1>5, <2>2
  <2>5. Sound(e, h, z) /\ Ls(e) = Ls(d) /\ ~ e.mem[y].tmpl
    BY <2>2, <2>4, MarrySound
  <2> HIDE DEF e
  <2>6. y \in Ls(e)
    BY <2>4, <2>5
  <2>7. Run(e, LinkOpen(e, y), h, z, y)
    BY <2>5, <2>6, AskRun
  <2> QED
    BY <2>3, <2>7 DEF Run, Asked
<1> QED
  BY <1>2, <1>3, <1>4, <1>5

LEMMA BundCloseLinksSound ==
  ASSUME NEW v, NEW h, NEW z, Sound(v, h, z), NEW b \in Bs(v), NEW logs
  PROVE  Asked(v, BundCloseLinks(v, b, logs), h, z, b)
<1> DEFINE x == v.mem[b].link
           u == BundCloseLinks(v, b, logs)
<1>1. CASE x = None
  BY <1>1 DEF BundCloseLinks, Asked
<1>2. CASE x # None
  <2>1. /\ Gone(v, x) \/ Nameless(v, x, logs) => v.mem[b].robbed
        /\ ~ Gone(v, x) => x \in Ls(v) /\ ~ v.mem[x].tmpl
    BY <1>2, SlotFacts
  <2>2. u = v \/ (u = Fail(v, "slot") /\ (Gone(v, x) \/ Nameless(v, x, logs))) \/ (u = LinkClose(v, x) /\ ~ Gone(v, x))
    BY <1>2 DEF BundCloseLinks, Gone
  <2> HIDE DEF x, u
  <2>3. ~ Gone(v, x) => Run(v, LinkClose(v, x), h, z, x)
    BY <2>1, AskRun
  <2>4. Asked(v, u, h, z, b)
    BY <2>1, <2>2, <2>3 DEF Run, Asked
  <2> QED
    BY <2>4 DEF u
<1> QED
  BY <1>1, <1>2

\* Without messages, nothing is being handled.
LEMMA HandledSound ==
  ASSUME NEW v, Sound(v, TRUE, None)
  PROVE  Sound(v, v.msgs # << >>, None)
<1>1. CASE v.msgs = << >>
  <2>1. \A x : ~ Dies(v, x)
    BY <1>1 DEF Dies
  <2> QED
    BY <1>1, <2>1 DEF Sound, Shut
<1>2. CASE v.msgs # << >>
  BY <1>2 DEF Sound, Shut
<1> QED
  BY <1>1, <1>2

LEMMA LinkMsgSound ==
  ASSUME NEW v, NEW m \in Messages, Sound(v, TRUE, m.to), m.to \in LinkMem, NEW now, NEW midway,
         m.to \in Ls(v) => ~ v.mem[m.to].tmpl /\ (m.op = "shutdown" => ~ v.mem[m.to].joined)
  PROVE  LET u == LinkMsg(v, m, now, midway)
         IN  Sound(u, TRUE, None) \/ Spoilt(u)
<1> DEFINE d == IF v.mem[m.to].dead THEN v ELSE Deliver(v, m, now, midway)
<1>1. m.to \in Mem /\ v.mem[m.to] # Freed
  BY SoundHeld, MemKinds
<1>2. Sound(d, TRUE, m.to) \/ (m.to \in Ls(v) /\ Torn(v, d, m.to))
  <2>1. CASE v.mem[m.to].dead
    BY <2>1
  <2>2. CASE ~ v.mem[m.to].dead
    <3>1. m.to \in Ls(v)
      BY <1>1, <2>2 DEF Ls
    <3>2. Sound(Deliver(v, m, now, midway), TRUE, m.to) \/ Torn(v, Deliver(v, m, now, midway), m.to)
      BY <3>1, DeliverSound
    <3> QED
      BY <2>2, <3>1, <3>2
  <2> QED
    BY <2>1, <2>2
<1>3. LinkMsg(v, m, now, midway) = Unref(d, m.to)
  BY DEF LinkMsg
<1> HIDE DEF d
<1>4. CASE Sound(d, TRUE, m.to)
  BY <1>1, <1>3, <1>4, UnrefSound
<1>5. CASE m.to \in Ls(v) /\ Torn(v, d, m.to)
  <2>1. v.mem[m.to].refs \in Nat /\ v.mem[m.to].refs >= 2
    BY <1>5, CountedTwice
  <2>2. /\ d \in Worlds /\ Sorted(d) /\ d.failed = "slot" /\ d.mem[m.to] # Freed /\ d.mem[m.to].cut
        /\ d.mem[m.to].refs >= 2
    BY <1>5, <2>1, MemKinds DEF Torn, Links
  <2>3. Spoilt(Unref(d, m.to))
    BY <1>1, <2>2, UnrefSpoilt
  <2> QED
    BY <1>3, <2>3
<1> QED
  BY <1>2, <1>4, <1>5

LEMMA BundMsgSound ==
  ASSUME NEW v, NEW m \in Messages, Sound(v, TRUE, m.to), m.to \in BundMem, NEW y, NEW logs,
         m.to \in Bs(v) => ~ v.mem[m.to].tmpl,
         NEW t \in Ls(v) \cup {None},
         t # None => ~ v.mem[t].joined /\ (v.mem[t].tmpl => y \in LinkMem /\ v.mem[y] = Freed /\ Unnamed(v, y))
  PROVE  LET u == BundMsg(v, m, t, y, logs)
         IN  Sound(u, TRUE, None) \/ Spoilt(u)
<1> DEFINE b == m.to
           d == CASE v.mem[b].dead -> v
                  [] ~v.mem[b].dead /\ m.op = "bundOpen"  -> BundOpenLinks(v, b, t, y, logs)
                  [] ~v.mem[b].dead /\ m.op = "bundClose" -> BundCloseLinks(v, b, logs)
<1>1. b \in Mem /\ v.mem[b] # Freed /\ b \notin LinkMem
  BY SoundHeld, MemKinds
<1>2. m.op \in {"bundOpen", "bundClose"}
  BY MemKinds DEF Messages
<1>3. Sound(d, TRUE, b) \/ (b \in Bs(v) /\ d = Fail(v, "slot") /\ v.mem[b].robbed)
  <2>1. CASE v.mem[b].dead
    BY <2>1
  <2>2. CASE ~ v.mem[b].dead
    <3>1. b \in Bs(v)
      BY <1>1, <2>2 DEF Bs
    <3>2. d = BundOpenLinks(v, b, t, y, logs) \/ d = BundCloseLinks(v, b, logs)
      BY <1>2, <2>2
    <3> HIDE DEF d
    <3>3. ~ v.mem[b].tmpl /\ Sound(v, TRUE, b)
      BY <3>1
    <3> HIDE DEF b
    <3>4. Asked(v, BundOpenLinks(v, b, t, y, logs), TRUE, b, b)
      BY <3>1, <3>3, BundOpenLinksSound
    <3>5. Asked(v, BundCloseLinks(v, b, logs), TRUE, b, b)
      BY <3>1, <3>3, BundCloseLinksSound
    <3>6. Asked(v, d, TRUE, b, b)
      BY <3>2, <3>4, <3>5
    <3> QED
      BY <3>1, <3>6 DEF Asked
  <2> QED
    BY <2>1, <2>2
<1>4. BundMsg(v, m, t, y, logs) = Unref(d, b)
  BY DEF BundMsg
<1> HIDE DEF d
<1>5. CASE Sound(d, TRUE, b)
  BY <1>1, <1>4, <1>5, UnrefSound
<1>6. CASE b \in Bs(v) /\ d = Fail(v, "slot") /\ v.mem[b].robbed
  <2>1. v.mem[b].refs \in Nat /\ v.mem[b].refs >= 2
    BY <1>6, CountedTwice
  <2>2. d \in Worlds /\ Sorted(d) /\ d.failed = "slot" /\ d.mem = v.mem
    BY <1>6, FailSlot DEF Sound
  <2>3. Spoilt(Unref(d, b))
    BY <1>1, <1>6, <2>1, <2>2, UnrefSpoilt
  <2> QED
    BY <1>4, <2>3
<1> QED
  BY <1>3, <1>5, <1>6

----------------------------------------------------------------------------
(* Commands. *)

\* What a context names is there.
LEMMA NamedThere ==
  ASSUME NEW v, NEW h, NEW z, Sound(v, h, z), NEW c \in Contexts, NEW member \in {"lnk", "bund"}
  PROVE  /\ v.ctx[c][member] \in Slot(member) \cup {None}
         /\ v.ctx[c][member] # None => v.ctx[c][member] \in Mem /\ v.mem[v.ctx[c][member]] # Freed
<1> DEFINE x == v.ctx[c][member]
<1>1. v \in Worlds
  BY DEF Sound
<1>2. v.ctx[c] \in [lnk : LinkMem \cup {None}, bund : BundMem \cup {None}, priv : 0 .. 2]
  BY <1>1 DEF Worlds
<1>3. x \in Slot(member) \cup {None} /\ (x = v.ctx[c].lnk \/ x = v.ctx[c].bund)
  BY <1>2 DEF Slot
<1>4. x # None => x \in Mem
  BY <1>3, MemKinds DEF Slot
<1>5. Held(v, x) \in Nat \ {0}
  <2>1. \E k \in Contexts : v.ctx[k].lnk = x \/ v.ctx[k].bund = x
    BY <1>3
  <2> HIDE DEF x
  <2> QED
    BY <1>1, <2>1, HeldPositive
<1> HIDE DEF x
<1>6. x # None => v.mem[x] # Freed
  BY <1>4, <1>5, SoundHeld
<1> QED
  BY <1>3, <1>4, <1>6 DEF x

Privileged(v, c, p) == [v EXCEPT !.ctx[c].priv = p]

LEMMA PrivSound ==
  ASSUME NEW v, NEW h, NEW z, Sound(v, h, z), NEW c \in Contexts, NEW p \in 0 .. 2
  PROVE  Sound(Privileged(v, c, p), h, z)
<1> DEFINE e == [v.ctx[c] EXCEPT !.priv = p]
           f == [v.ctx EXCEPT ![c] = e]
           u == Privileged(v, c, p)
<1>1. v \in Worlds /\ Sorted(v) /\ Counted(v, z)
  BY DEF Sound
<1>2. v.ctx \in [Contexts -> [lnk : LinkMem \cup {None}, bund : BundMem \cup {None}, priv : 0 .. 2]]
  BY <1>1 DEF Worlds
<1>3. e \in [lnk : LinkMem \cup {None}, bund : BundMem \cup {None}, priv : 0 .. 2] /\ e.lnk = v.ctx[c].lnk /\ e.bund = v.ctx[c].bund
  BY <1>2
<1> HIDE DEF e
<1>4. /\ f \in [Contexts -> [lnk : LinkMem \cup {None}, bund : BundMem \cup {None}, priv : 0 .. 2]]
      /\ \A k \in Contexts : f[k].lnk = v.ctx[k].lnk /\ f[k].bund = v.ctx[k].bund
  BY <1>2, <1>3
<1>5. u = [v EXCEPT !.ctx = f]
  BY <1>1 DEF Worlds, e, Privileged
<1> HIDE DEF f, u
<1>6. /\ u \in Worlds /\ u.mem = v.mem /\ u.gLinks = v.gLinks /\ u.gBundles = v.gBundles
      /\ u.gChildren = v.gChildren /\ u.failed = v.failed /\ u.msgs = v.msgs /\ u.ctx = f
  BY <1>1, <1>4, <1>5 DEF Worlds
<1>7. Recounted(v, u)
  BY <1>1, <1>6 DEF Recounted, Sorted, LinkLike, BundLike, Ls, Bs
<1>8. \A x : Held(u, x) = Held(v, x)
  <2> SUFFICES ASSUME NEW x PROVE Held(u, x) = Held(v, x)
    OBVIOUS
  <2>1. {k \in Contexts : u.ctx[k].lnk = x} = {k \in Contexts : v.ctx[k].lnk = x}
    BY <1>4, <1>6
  <2>2. {k \in Contexts : u.ctx[k].bund = x} = {k \in Contexts : v.ctx[k].bund = x}
    BY <1>4, <1>6
  <2> QED
    BY <1>6, <2>1, <2>2 DEF Held
<1>9. Counted(u, z)
  BY <1>1, <1>6, <1>8 DEF Counted, Refs
<1>10. \A x : (Queued(u, x) <=> Queued(v, x)) /\ (Dies(u, x) <=> Dies(v, x))
  BY <1>6 DEF Queued, Dies
<1>11. Sound(u, h, z)
  BY <1>7, <1>9, <1>10, RecountedSound
<1> QED
  BY <1>11 DEF u

LEMMA LetGoSound ==
  ASSUME NEW v, NEW h, NEW z, Sound(v, h, z), NEW c \in Contexts
  PROVE  Sound(LetGo(v, c), h, z)
<1> DEFINE d == Choose(v, c, None, None)
<1>1. Sound(d, h, z)
  BY ChooseSound
<1>2. LetGo(v, c) = Privileged(d, c, 0)
  BY DEF LetGo, Privileged
<1> HIDE DEF d
<1>3. 0 \in 0 .. 2
  OBVIOUS
<1> QED
  BY <1>1, <1>2, <1>3, PrivSound

LEMMA DropDeadSound ==
  ASSUME NEW v, NEW h, NEW z, Sound(v, h, z), NEW c \in Contexts, NEW member \in {"lnk", "bund"}
  PROVE  Sound(DropDead(v, c, member), h, z)
<1> DEFINE x == v.ctx[c][member]
           u == ResetRef(v, c, member, None)
<1>1. x # None => v.mem[x] # Freed
  BY NamedThere
<1>2. Sound(u, h, z)
  BY ResetRefSound
<1>3. DropDead(v, c, member) = IF x # None /\ v.mem[x].dead THEN u ELSE v
  BY <1>1 DEF DropDead
<1> HIDE DEF u
<1> QED
  BY <1>2, <1>3

LEMMA LinkCommandSound ==
  ASSUME NEW v, NEW h, NEW z, Sound(v, h, z), NEW c \in Contexts, NEW l \in Ls(v)
  PROVE  Sound(LinkCommand(v, c, l), h, z)
<1>1. v.mem[l].bund \in Bs(v) \cup {None}
  BY DEF Sound, Married
<1> QED
  BY <1>1, ChooseSound DEF LinkCommand

\* The program ended, and what a context has chosen is dead.
Misled(u, c) ==
  /\ u \in Worlds /\ u.failed \in {"assert", "freed", "again"}
  /\ \E x \in {u.ctx[c].lnk, u.ctx[c].bund} \ {None} : u.mem[x] = Freed \/ u.mem[x].dead

LEMMA BundCommandSound ==
  ASSUME NEW v, NEW h, NEW z, Sound(v, h, z), NEW c \in Contexts, NEW b \in Bs(v)
  PROVE  LET u == BundCommand(v, c, b)
         IN  Sound(u, h, z) \/ Spoilt(u) \/ Misled(u, c)
<1> DEFINE d == ResetRef(v, c, "bund", b)
           l == d.ctx[c].lnk
           x == d.mem[b].link
           u == ResetRef(d, c, "lnk", x)
           t == BundCommand(v, c, b)
<1>1. b \in Slot("bund") \cup {None} /\ "bund" \in {"lnk", "bund"} /\ "lnk" \in {"lnk", "bund"}
  BY DEF Slot, Bs
<1>2. Sound(d, h, z) /\ Recounted(v, d)
  BY <1>1, ResetRefSound
<1>3. \/ t = d
      \/ t = Fail(d, "slot") /\ x # None /\ d.mem[x] = Freed
      \/ t = u /\ (x = None \/ d.mem[x] # Freed)
  BY DEF BundCommand
<1> HIDE DEF d, t
<1>4. b \in Bs(d) /\ b \in BundMem
  BY <1>2, SoundLiving DEF Bs
<1>5. d \in Worlds /\ Sorted(d) /\ Married(d) /\ d.failed = "none" /\ d.mem[b] \in Bundles /\ d.mem[b] # Freed
  BY <1>2, <1>4, MemKinds DEF Sound, Sorted, Bs
<1>6. x \in Slot("lnk") \cup {None}
  BY <1>5 DEF Slot, Bundles
<1>7. CASE t = Fail(d, "slot") /\ x # None /\ d.mem[x] = Freed
  <2>1. d.mem[b].robbed
    BY <1>4, <1>5, <1>7 DEF Married, Ls
  <2>2. t \in Worlds /\ t.failed = "slot" /\ t.mem = d.mem
    BY <1>5, <1>7, FailSlot
  <2>3. Spoilt(t)
    BY <1>4, <1>5, <2>1, <2>2 DEF Spoilt
  <2> QED
    BY <2>3 DEF t
<1>8. CASE t = u /\ (x = None \/ d.mem[x] # Freed)
  <2> HIDE DEF x
  <2>1. Reset(d, u, h, z) \/ Missed(u, c, "lnk", x)
    BY <1>1, <1>2, <1>6, ResetRefAny
  <2>2. CASE Reset(d, u, h, z)
    BY <1>8, <2>2 DEF Reset, t
  <2>3. CASE Missed(u, c, "lnk", x)
    <3>1. x = None => Reset(d, u, h, z)
      BY <1>1, <1>2, <1>6, ResetRefAny
    <3> HIDE DEF u
    <3>2. CASE x = None
      BY <1>8, <3>1, <3>2 DEF Reset, t
    <3>3. CASE x # None
      <4>1. u \in Worlds /\ u.failed = "freed" /\ u.mem[x] = Freed /\ u.ctx[c].lnk = x
        BY <2>3 DEF Missed
      <4>2. Misled(u, c)
        BY <3>3, <4>1 DEF Misled
      <4> QED
        BY <1>8, <4>2 DEF t
    <3> QED
      BY <3>2, <3>3
  <2> QED
    BY <2>1, <2>2, <2>3
<1>9. CASE t = d
  BY <1>2, <1>9 DEF t
<1> QED
  BY <1>3, <1>7, <1>8, <1>9

LEMMA LinkCreateSound ==
  ASSUME NEW v, NEW h, NEW z, Sound(v, h, z), NEW c \in Contexts, NEW x \in LinkMem, v.mem[x] = Freed, Unnamed(v, x),
         NEW t \in Ls(v) \cup {None}, NEW tmpl \in BOOLEAN, NEW stay \in BOOLEAN
  PROVE  Sound(LinkCreate(v, c, x, t, tmpl, stay), h, z)
<1> DEFINE d == Choose(v, c, None, None)
           e == IF t = None THEN Enlist(d, x, tmpl, stay) ELSE LinkInst(d, x, t, tmpl, stay)
<1>1. Sound(d, h, z) /\ Recounted(v, d)
  BY ChooseSound
<1>2. LinkCreate(v, c, x, t, tmpl, stay) = ResetRef(e, c, "lnk", x)
  BY DEF LinkCreate
<1> HIDE DEF d
<1>3. d.mem[x] = Freed /\ Ls(d) = Ls(v) /\ None \notin Ls(v)
  BY <1>1, SoundLiving, MemKinds DEF Recounted, Ls
<1>3a. Unnamed(d, x)
  <2>1. Bs(d) = Bs(v) /\ \A b \in Bs(v) : BundLike(v.mem[b], d.mem[b])
    BY <1>1, SoundLiving
  <2> QED
    BY <2>1 DEF Unnamed, BundLike
<1>4. Sound(e, h, z) /\ x \in Ls(e)
  <2>1. CASE t = None
    <3> DEFINE i == Enlist(d, x, tmpl, stay)
    <3>1. NewlyLinked(d, i, h, z, x, tmpl)
      BY <1>1, <1>3, <1>3a, EnlistSound
    <3>2. e = i
      BY <2>1
    <3> HIDE DEF i, e
    <3> QED
      BY <3>1, <3>2 DEF NewlyLinked
  <2>2. CASE t # None
    <3> DEFINE i == LinkInst(d, x, t, tmpl, stay)
    <3>1. t \in Ls(d)
      BY <1>3, <2>2
    <3>2. Instanced(d, i, h, z, x, tmpl)
      BY <1>1, <1>3, <1>3a, <3>1, LinkInstSound
    <3>3. e = i
      BY <2>2
    <3> HIDE DEF i, e
    <3> QED
      BY <3>2, <3>3 DEF Instanced
  <2> QED
    BY <2>1, <2>2
<1> HIDE DEF e
<1>5. "lnk" \in {"lnk", "bund"} /\ x \in Slot("lnk") \cup {None} /\ x \in Ls(e) \cup Bs(e)
  BY <1>4 DEF Slot
<1> QED
  BY <1>2, <1>4, <1>5, ResetRefSound

LEMMA BundCreateSound ==
  ASSUME NEW v, NEW h, NEW z, Sound(v, h, z), NEW c \in Contexts, NEW b \in BundMem, v.mem[b] = Freed,
         NEW tmpl \in BOOLEAN, NEW stay \in BOOLEAN
  PROVE  Sound(BundCreate(v, c, b, tmpl, stay), h, z)
<1> DEFINE d == Choose(v, c, None, None)
           e == BundInst(d, b, tmpl, stay)
<1>1. Sound(d, h, z) /\ Recounted(v, d)
  BY ChooseSound
<1>2. BundCreate(v, c, b, tmpl, stay) = ResetRef(e, c, "bund", b)
  BY DEF BundCreate
<1> HIDE DEF d
<1>3. d.mem[b] = Freed
  BY <1>1 DEF Recounted
<1>4. NewlyBundled(d, e, h, z, b, tmpl)
  BY <1>1, <1>3, BundInstSound
<1> HIDE DEF e
<1>5. Sound(e, h, z) /\ b \in Bs(e)
  BY <1>4 DEF NewlyBundled
<1>6. "bund" \in {"lnk", "bund"} /\ b \in Slot("bund") \cup {None} /\ b \in Ls(e) \cup Bs(e)
  BY <1>5 DEF Slot
<1> QED
  BY <1>2, <1>5, <1>6, ResetRefSound

\* The program ended on x, which is dead.
Broken(v, u, x) ==
  /\ u \in Worlds /\ u.failed \in {"assert", "freed", "again"} /\ u.ctx = v.ctx
  /\ u.mem[x] = Freed \/ u.mem[x].dead

LEMMA FailBroken ==
  ASSUME NEW v \in Worlds, v.failed = "none", NEW x, v.mem[x] # Freed => v.mem[x].dead, NEW how \in {"assert", "freed", "again"}
  PROVE  Broken(v, Fail(v, how), x)
<1> DEFINE u == [v EXCEPT !.failed = how]
<1>1. Fail(v, how) = u
  BY DEF Fail
<1>2. u \in Worlds /\ u.mem = v.mem /\ u.ctx = v.ctx /\ u.failed = how
  BY DEF Worlds
<1> HIDE DEF u
<1> QED
  BY <1>1, <1>2 DEF Broken

LEMMA SendBroken ==
  ASSUME NEW v, NEW h, NEW z, Sound(v, h, z), NEW x \in Mem, x \notin Ls(v) \cup Bs(v), NEW op
  PROVE  Broken(v, MsgSend(v, op, x), x)
<1>1. v \in Worlds /\ v.failed = "none" /\ (v.mem[x] # Freed => v.mem[x].dead)
  BY MemKinds DEF Sound, Ls, Bs
<1>2. MsgSend(v, op, x) = Fail(v, "assert")
  BY <1>1 DEF MsgSend, Gone
<1> QED
  BY <1>1, <1>2, FailBroken

LEMMA LinkDestroySound ==
  ASSUME NEW v, NEW h, NEW z, Sound(v, h, z), NEW x \in Ls(v)
  PROVE  Sound(LinkDestroy(v, x), h, z) \/ Torn(v, LinkDestroy(v, x), x)
<1> DEFINE l == v.mem[x]
           m == [l EXCEPT !.tmpl = FALSE, !.stay = FALSE]
           d == Put(v, x, m)
<1>1. v \in Worlds /\ x \in Mem /\ l \in Links /\ l.tmpl \in BOOLEAN
  BY MemKinds DEF Sound, Sorted, Ls, Links
<1>2. [v EXCEPT !.mem[x].tmpl = FALSE, !.mem[x].stay = FALSE] = d
  BY <1>1 DEF Put, Worlds
<1>3. /\ m \in Links /\ m.refs = l.refs /\ m.dead = l.dead /\ m.id = l.id /\ m.bund = l.bund /\ m.joined = l.joined
      /\ m.parent = l.parent /\ m.children = l.children /\ ~ m.tmpl /\ m.lcp = l.lcp /\ m.die = l.die
      /\ m.busy = l.busy /\ m.cut = l.cut
  BY <1>1 DEF Links
<1> HIDE DEF m
<1>4. Flagged(v, m, h, x)
  BY <1>3, LcpFacts DEF Flagged
<1>5. Sound(d, h, z) /\ Ls(d) = Ls(v) /\ d.mem[x] = m
  BY <1>4, PutLinkSound
<1> HIDE DEF d
<1>6. CASE l.tmpl
  <2>1. x \in Ls(d) /\ ~ d.mem[x].joined
    BY <1>3, <1>5, <1>6, LcpFacts
  <2>2. Sound(LinkShutdown(d, x), h, z)
    BY <1>5, <2>1, LinkShutdownSound
  <2>3. LinkDestroy(v, x) = LinkShutdown(d, x)
    BY <1>2, <1>6 DEF LinkDestroy
  <2> QED
    BY <2>2, <2>3
<1>7. CASE ~ l.tmpl /\ Open(v, x)
  <2>1. x \in Ls(d) /\ ~ l.dead
    BY <1>5 DEF Ls
  <2>2. LinkDestroy(v, x) = LcpClose(d, x)
    BY <1>2, <1>7, <2>1 DEF LinkDestroy
  <2>3. CASE ~ Lost(d, x)
    <3>1. Run(d, LcpClose(d, x), h, z, x)
      BY <1>5, <2>1, <2>3, LcpCloseSound
    <3> QED
      BY <2>2, <3>1 DEF Run
  <2>4. CASE Lost(d, x)
    <3>1. Torn(d, LcpClose(d, x), x)
      BY <1>5, <2>1, <2>4, LcpCloseTorn
    <3>2. Torn(v, LcpClose(d, x), x)
      BY <1>3, <1>5, <3>1 DEF Torn
    <3> QED
      BY <2>2, <3>2
  <2> QED
    BY <2>3, <2>4
<1>8. CASE ~ l.tmpl /\ ~ Open(v, x)
  <2> DEFINE n == [m EXCEPT !.die = TRUE]
             e == Put(d, x, n)
  <2>1. d \in Worlds
    BY <1>5 DEF Sound
  <2>2. [d EXCEPT !.mem[x].die = TRUE] = e
    BY <1>1, <1>5, <2>1 DEF Put, Worlds
  <2>3. /\ n \in Links /\ n.refs = m.refs /\ n.dead = m.dead /\ n.id = m.id /\ n.bund = m.bund /\ n.joined = m.joined
        /\ n.parent = m.parent /\ n.children = m.children /\ ~ n.tmpl /\ n.lcp = m.lcp /\ n.die /\ n.busy = m.busy
        /\ n.cut = m.cut
    BY <1>3 DEF Links
  <2> HIDE DEF n
  <2>4. x \in Ls(d)
    BY <1>5
  <2>5. Flagged(d, n, h, x)
    BY <1>5, <2>3, <2>4, LcpFacts DEF Flagged
  <2>6. Sound(e, h, z) /\ Ls(e) = Ls(d) /\ e.mem[x] = n
    BY <1>5, <2>4, <2>5, PutLinkSound
  <2>7. LinkDestroy(v, x) = LinkShutdownCheck(e, x)
    BY <1>2, <1>8, <2>2 DEF LinkDestroy
  <2> HIDE DEF e
  <2>8. Sound(e, h, z) /\ x \in Ls(e) /\ ~ e.mem[x].tmpl
    BY <2>3, <2>4, <2>6
  <2> QED
    BY <2>7, <2>8, LinkShutdownCheckSound
<1> QED
  BY <1>1, <1>6, <1>7, <1>8

\* What a dead link remembers.
LEMMA DeadPutSound ==
  ASSUME NEW v, NEW h, NEW z, Sound(v, h, z), NEW x \in LinkMem, x \notin Ls(v), v.mem[x] # Freed,
         NEW m \in Links, m.dead, m.refs = v.mem[x].refs, ~ m.tmpl, ~ m.busy
  PROVE  Sound(Put(v, x, m), h, z)
<1> DEFINE u == Put(v, x, m)
<1>1. /\ v \in Worlds /\ v.failed = "none" /\ Sorted(v) /\ Tabled(v) /\ Married(v) /\ Related(v)
      /\ Blank(v) /\ Still(v) /\ Shut(v, h) /\ Counted(v, z) /\ x \in Mem
  BY MemKinds DEF Sound
<1>2. Touched(v, u, x) /\ u.mem[x] = m
  BY <1>1, PutTouches
<1> HIDE DEF u
<1>3. /\ u \in Worlds /\ u.failed = "none" /\ Sorted(u)
      /\ u.gLinks = v.gLinks /\ u.gBundles = v.gBundles /\ u.gChildren = v.gChildren
      /\ u.ctx = v.ctx /\ u.msgs = v.msgs
      /\ \A y \in LinkMem \ {x} : u.mem[y] = v.mem[y]
      /\ \A b \in BundMem : u.mem[b] = v.mem[b]
      /\ \A y \in Mem \ {x} : u.mem[y] = v.mem[y]
  BY <1>1, <1>2, MemKinds DEF Touched
<1>4. m # Freed
  BY MemKinds
<1>5. Ls(u) = Ls(v) /\ Bs(u) = Bs(v) /\ \A y \in Ls(v) : u.mem[y] = v.mem[y]
  <2>1. Ls(u) = Ls(v)
    BY <1>2, <1>3 DEF Ls
  <2>2. Bs(u) = Bs(v)
    BY <1>3 DEF Bs
  <2>3. \A y \in Ls(v) : u.mem[y] = v.mem[y]
    BY <1>3 DEF Ls
  <2> QED
    BY <2>1, <2>2, <2>3
<1>6. \A b \in Bs(v) : u.mem[b] = v.mem[b]
  BY <1>3 DEF Bs
<1>7. Tabled(u)
  BY <1>1, <1>3, <1>5, <1>6, TabledIsSame
<1>8. Married(u)
  <2>1. \A y \in Ls(v) : u.mem[y].joined => u.mem[y].lcp = "up"
    BY <1>1, <1>5 DEF Married
  <2> QED
    BY <1>1, <1>5, <1>6, <2>1, MarriedIsSame
<1>9. Related(u)
  BY <1>1, <1>3, <1>5, RelatedIsSame
<1>10. Blank(u)
  BY <1>1, <1>2, <1>3, <1>4, <1>5 DEF Blank
<1>11. \A y : Held(u, y) = Held(v, y) /\ (Queued(u, y) <=> Queued(v, y)) /\ (Dies(u, y) <=> Dies(v, y))
  <2>1. \A y : Held(u, y) = Held(v, y)
    BY <1>3, HeldSame
  <2> QED
    BY <1>3, <2>1 DEF Queued, Dies
<1>12. Still(u)
  BY <1>1, <1>5, <1>6, <1>11 DEF Still
<1>13. Shut(u, h)
  BY <1>1, <1>5, <1>11 DEF Shut
<1>14. Counted(u, z)
  <2>1. \A y \in Mem : Refs(u, y) = Refs(v, y)
    BY <1>2, <1>3, <1>4 DEF Refs
  <2>2. \A y \in Mem : u.mem[y] # Freed => u.mem[y].refs >= 1
    BY <1>1, <1>2, <1>3 DEF Counted
  <2> QED
    BY <1>1, <1>11, <2>1, <2>2 DEF Counted
<1>15. Sound(u, h, z)
  BY <1>3, <1>7, <1>8, <1>9, <1>10, <1>12, <1>13, <1>14 DEF Sound
<1> QED
  BY <1>15 DEF u

LEMMA LinkDestroyBroken ==
  ASSUME NEW v, NEW h, NEW z, Sound(v, h, z), NEW x \in LinkMem, x \notin Ls(v), v.mem[x] # Freed
  PROVE  Broken(v, LinkDestroy(v, x), x) \/ Sound(LinkDestroy(v, x), h, z)
<1> DEFINE l == v.mem[x]
           m == [l EXCEPT !.tmpl = FALSE, !.stay = FALSE]
           n == [m EXCEPT !.die = TRUE]
           d == Put(v, x, m)
           e == Put(d, x, n)
<1>1. /\ v \in Worlds /\ Sorted(v) /\ v.failed = "none" /\ x \in Mem /\ l \in Links /\ l.dead
      /\ ~ l.tmpl /\ ~ l.busy
  BY MemKinds DEF Sound, Sorted, Ls, Blank
<1>2. [v EXCEPT !.mem[x].tmpl = FALSE, !.mem[x].stay = FALSE] = d
  BY <1>1 DEF Put, Worlds
<1>3. m \in Links /\ m.dead /\ m.lcp = l.lcp /\ ~ m.stay /\ ~ m.busy /\ ~ m.tmpl /\ m.refs = l.refs
  BY <1>1 DEF Links
<1> HIDE DEF m
<1>4. n \in Links /\ n.dead /\ n.lcp = l.lcp /\ ~ n.stay /\ ~ n.busy /\ ~ n.tmpl /\ n.refs = l.refs /\ n.die
  BY <1>3 DEF Links
<1>5. Touched(v, d, x) /\ d.mem[x] = m
  BY <1>1, <1>3, PutTouches
<1>5a. Sound(d, h, z)
  BY <1>3, DeadPutSound
<1> HIDE DEF d
<1>6. d \in Worlds /\ Sorted(d) /\ d.failed = "none" /\ d.ctx = v.ctx
  BY <1>1, <1>5 DEF Touched
<1>7. [d EXCEPT !.mem[x].die = TRUE] = e
  BY <1>1, <1>5, <1>6 DEF Put, Worlds
<1> HIDE DEF n
<1>8. Touched(d, e, x) /\ e.mem[x] = n
  BY <1>1, <1>4, <1>6, PutTouches
<1>8a. Sound(e, h, z)
  <2>1. x \notin Ls(d) /\ d.mem[x] # Freed
    BY <1>3, <1>5, MemKinds DEF Ls
  <2> QED
    BY <1>3, <1>4, <1>5, <1>5a, <2>1, DeadPutSound
<1> HIDE DEF e
<1>9. CASE Open(v, x)
  <2>1. LinkDestroy(v, x) = Fail(v, "again")
    BY <1>1, <1>9 DEF LinkDestroy
  <2> QED
    BY <1>1, <2>1, FailBroken
<1>10. CASE ~ Open(v, x)
  <2>1. LinkDestroy(v, x) = LinkShutdownCheck(e, x)
    BY <1>1, <1>2, <1>7, <1>10 DEF LinkDestroy
  <2>2. e \in Worlds /\ e.failed = "none" /\ e.ctx = v.ctx
    BY <1>6, <1>8 DEF Touched
  <2>3. CASE l.lcp = "initial"
    <3>1. LinkShutdownCheck(e, x) = MsgSend(e, "shutdown", x)
      BY <1>4, <1>8, <2>3 DEF LinkShutdownCheck
    <3>2. MsgSend(e, "shutdown", x) = Fail(e, "assert")
      BY <1>4, <1>8 DEF MsgSend, Gone
    <3>3. Broken(e, Fail(e, "assert"), x)
      BY <1>4, <1>8, <2>2, FailBroken
    <3> QED
      BY <2>1, <2>2, <3>1, <3>2, <3>3 DEF Broken
  <2>4. CASE l.lcp # "initial"
    <3>1. LinkShutdownCheck(e, x) = e
      BY <1>4, <1>8, <2>4 DEF LinkShutdownCheck
    <3> QED
      BY <1>8a, <2>1, <3>1
  <2> QED
    BY <2>3, <2>4
<1> QED
  BY <1>9, <1>10

LEMMA BundDestroySound ==
  ASSUME NEW v, NEW h, NEW z, Sound(v, h, z), NEW b \in Bs(v)
  PROVE  Sound(BundDestroy(v, b), h, z) \/ Spoilt(BundDestroy(v, b))
<1> DEFINE l == v.mem[b]
           m == [l EXCEPT !.tmpl = FALSE, !.stay = FALSE]
           d == Put(v, b, m)
<1>1. /\ v \in Worlds /\ Sorted(v) /\ Still(v) /\ Married(v) /\ b \in Mem /\ b \in BundMem /\ b \notin LinkMem
      /\ l \in Bundles /\ l.tmpl \in BOOLEAN
  BY MemKinds DEF Sound, Sorted, Bs, Bundles
<1>2. [v EXCEPT !.mem[b].tmpl = FALSE, !.mem[b].stay = FALSE] = d
  BY <1>1 DEF Put, Worlds
<1>3. /\ m \in Bundles /\ m.refs = l.refs /\ m.dead = l.dead /\ m.id = l.id /\ m.link = l.link /\ m.n_up = l.n_up
      /\ ~ m.tmpl /\ m.robbed = l.robbed
  BY <1>1 DEF Bundles
<1> HIDE DEF m
<1>4. Touched(v, d, b) /\ d.mem[b] = m
  BY <1>1, <1>3, PutTouches
<1> HIDE DEF d
<1>5. Sound(d, h, z) /\ Bs(d) = Bs(v)
  <2>1. l = v.mem[b]
    OBVIOUS
  <2> HIDE DEF l
  <2> QED
    BY <1>3, <1>4, <2>1, BundSound
<1>6. CASE ~ l.tmpl /\ l.n_up # 0
  <2> DEFINE u == MsgSend(d, "bundClose", b)
  <2>1. b \in Ls(d) \cup Bs(d) /\ ~ d.mem[b].tmpl /\ [op |-> "bundClose", to |-> b] \in Messages
    BY <1>1, <1>3, <1>4, <1>5 DEF Messages
  <2>2. Sound(u, h, z)
    BY <1>5, <2>1, MsgSendSound
  <2>3. BundDestroy(v, b) = u
    BY <1>2, <1>6 DEF BundDestroy, BundClose
  <2> QED
    BY <2>2, <2>3
<1>7. CASE l.tmpl \/ l.n_up = 0
  <2>1. b \in Bs(d) /\ (d.mem[b].n_up = 0 \/ d.mem[b].link = None) /\ ~ d.mem[b].dead
    BY <1>1, <1>3, <1>4, <1>5, <1>7 DEF Still, Bs
  <2>2. BundDestroy(v, b) = BundShutdown(d, b)
    BY <1>2, <1>7 DEF BundDestroy
  <2>3. CASE d.mem[b].link # None => ~ Gone(d, d.mem[b].link)
    <3>1. Sound(BundShutdown(d, b), h, z)
      BY <1>5, <2>1, <2>3, BundShutdownSound
    <3> QED
      BY <2>2, <3>1
  <2>4. CASE d.mem[b].link # None /\ Gone(d, d.mem[b].link)
    <3>1. BundShutdown(d, b) = Fail(d, "slot")
      BY <2>1, <2>4 DEF BundShutdown
    <3>2. d \in Worlds /\ Sorted(d) /\ Married(d) /\ d.failed = "none"
      BY <1>5 DEF Sound
    <3>3. d.mem[b].robbed /\ d.mem[b] # Freed
      BY <2>1, <2>4, <3>2 DEF Married, Gone, Ls, Bs
    <3>4. Fail(d, "slot") \in Worlds /\ Fail(d, "slot").failed = "slot" /\ Fail(d, "slot").mem = d.mem
      BY <3>2, FailSlot
    <3>5. Spoilt(Fail(d, "slot"))
      BY <1>1, <3>3, <3>4 DEF Spoilt
    <3> QED
      BY <2>2, <3>1, <3>5
  <2> QED
    BY <2>3, <2>4
<1> QED
  BY <1>1, <1>6, <1>7

LEMMA BundDestroyBroken ==
  ASSUME NEW v, NEW h, NEW z, Sound(v, h, z), NEW b \in BundMem, b \notin Bs(v), v.mem[b] # Freed
  PROVE  Broken(v, BundDestroy(v, b), b)
<1> DEFINE l == v.mem[b]
           m == [l EXCEPT !.tmpl = FALSE, !.stay = FALSE]
           d == Put(v, b, m)
<1>1. /\ v \in Worlds /\ Sorted(v) /\ v.failed = "none" /\ b \in Mem /\ b \notin LinkMem /\ l \in Bundles /\ l.dead
      /\ ~ l.tmpl /\ l.n_up = 0
  BY MemKinds DEF Sound, Sorted, Bs, Blank
<1>2. [v EXCEPT !.mem[b].tmpl = FALSE, !.mem[b].stay = FALSE] = d
  BY <1>1 DEF Put, Worlds
<1>3. m \in Bundles /\ m.dead
  BY <1>1 DEF Bundles
<1> HIDE DEF m
<1>4. Touched(v, d, b) /\ d.mem[b] = m
  BY <1>1, <1>3, PutTouches
<1> HIDE DEF d
<1>5. d \in Worlds /\ d.failed = "none" /\ d.ctx = v.ctx
  BY <1>1, <1>4 DEF Touched
<1>6. BundDestroy(v, b) = BundShutdown(d, b)
  BY <1>1, <1>2 DEF BundDestroy
<1>7. BundShutdown(d, b) = Fail(d, "again")
  BY <1>3, <1>4 DEF BundShutdown
<1>8. Broken(d, Fail(d, "again"), b)
  BY <1>3, <1>4, <1>5, FailBroken
<1> QED
  BY <1>5, <1>6, <1>7, <1>8 DEF Broken

----------------------------------------------------------------------------
(* The invariant: commands. *)

LEMMA ConInvSound ==
  ASSUME ConInv, Running
  PROVE  /\ Sound(w, handling, None) /\ LiveLinks(w) = Ls(w) /\ LiveBundles(w) = Bs(w) /\ w \in Worlds
         /\ \A c \in Contexts : w.ctx[c] \in [lnk : LinkMem \cup {None}, bund : BundMem \cup {None}, priv : 0 .. 2]
<1>1. Sound(w, handling, None) /\ w \in Worlds
  BY DEF ConInv, Running
<1>2. LiveLinks(w) = Ls(w) /\ LiveBundles(w) = Bs(w)
  BY <1>1, ListedLiving DEF Sound
<1> QED
  BY <1>1, <1>2 DEF Worlds

\* What a step leads to if nothing breaks.
LEMMA SoundStep ==
  ASSUME ConInv, Sound(w, handling, None)', session' \in [Sessions -> {"none", "authentic"}], handling' \in BOOLEAN,
         batch' \in [who : Contexts \cup {None}, left : 0 .. MaxCommands], batch'.left > 0 => batch'.who \in Contexts
  PROVE  ConInv'
<1>1. w' \in Worlds /\ w'.failed = "none"
  BY DEF Sound
<1>2. FailsOnlyOnTheDead'
  BY <1>1 DEF FailsOnlyOnTheDead, Running
<1> QED
  BY <1>1, <1>2 DEF ConInv

\* What a step leads to where the run ends at a slot.
LEMMA SpoiltStep ==
  ASSUME ConInv, Spoilt(w'), session' \in [Sessions -> {"none", "authentic"}], handling' \in BOOLEAN,
         batch' \in [who : Contexts \cup {None}, left : 0 .. MaxCommands], batch'.left > 0 => batch'.who \in Contexts
  PROVE  ConInv'
<1>1. w' \in Worlds /\ w'.failed = "slot"
  BY DEF Spoilt
<1>2. FailsOnlyOnTheDead'
  BY <1>1 DEF FailsOnlyOnTheDead, Spoilt
<1> QED
  BY <1>1, <1>2 DEF ConInv

LEMMA DoStep ==
  ASSUME ConInv, NEW p, NEW v, Do(p, v),
         \/ Sound(v, handling, None)
         \/ Spoilt(v)
         \/ Misled(v, batch.who)
         \/ \E x \in {w.ctx[batch.who].lnk, w.ctx[batch.who].bund} \ {None} : Broken(w, v, x)
  PROVE  ConInv'
<1>1. /\ w' = v /\ batch.left > 0 /\ session' = session /\ handling' = handling
      /\ batch' = IF batch.who # Web /\ batch.left = 1 /\ v.failed = "none" THEN NoBatch
                  ELSE [batch EXCEPT !.left = batch.left - 1]
  BY DEF Do
<1>2. /\ batch \in [who : Contexts \cup {None}, left : 0 .. MaxCommands] /\ batch.who \in Contexts
      /\ session \in [Sessions -> {"none", "authentic"}] /\ handling \in BOOLEAN /\ MaxCommands \in Nat
  BY <1>1, ConsoleAssumption DEF ConInv
<1>3. batch.left - 1 \in 0 .. MaxCommands
  BY <1>1, <1>2
<1>4. batch' \in [who : Contexts \cup {None}, left : 0 .. MaxCommands] /\ (batch'.left > 0 => batch'.who \in Contexts)
  <2>1. CASE batch.who # Web /\ batch.left = 1 /\ v.failed = "none"
    <3>1. batch' = NoBatch /\ 0 \in 0 .. MaxCommands
      BY <1>1, <1>2, <2>1
    <3> QED
      BY <3>1 DEF NoBatch
  <2>2. CASE ~ (batch.who # Web /\ batch.left = 1 /\ v.failed = "none")
    <3> DEFINE n == batch.left - 1
    <3>1. batch' = [batch EXCEPT !.left = n] /\ n \in 0 .. MaxCommands
      BY <1>1, <1>3, <2>2
    <3> HIDE DEF n
    <3> QED
      BY <1>2, <3>1
  <2> QED
    BY <2>1, <2>2
<1>5. CASE Sound(v, handling, None)
  <2>1. Sound(w', handling', None)
    BY <1>1, <1>5
  <2> QED
    BY <1>1, <1>2, <1>4, <2>1, SoundStep
<1>6. CASE Spoilt(v)
  <2>1. Spoilt(w')
    BY <1>1, <1>6
  <2>2. session' \in [Sessions -> {"none", "authentic"}] /\ handling' \in BOOLEAN
    BY <1>1, <1>2
  <2> QED
    BY <1>4, <2>1, <2>2, SpoiltStep
<1>7. CASE Misled(v, batch.who) \/ \E x \in {w.ctx[batch.who].lnk, w.ctx[batch.who].bund} \ {None} : Broken(w, v, x)
  <2>1. /\ v \in Worlds /\ v.failed \in {"assert", "freed", "again"}
        /\ \E x \in {v.ctx[batch.who].lnk, v.ctx[batch.who].bund} \ {None} : v.mem[x] = Freed \/ v.mem[x].dead
    BY <1>7 DEF Broken, Misled
  <2>2. batch'.who = batch.who
    BY <1>1, <1>2, <2>1
  <2>3. FailsOnlyOnTheDead'
    BY <1>1, <1>2, <2>1, <2>2 DEF FailsOnlyOnTheDead
  <2> QED
    BY <1>1, <1>2, <1>4, <2>1, <2>3 DEF ConInv
<1> QED
  BY <1>5, <1>6, <1>7

LEMMA DoRunning ==
  ASSUME ConInv, NEW p, NEW v, Do(p, v)
  PROVE  Running /\ batch.left > 0 /\ batch.who \in Contexts
BY DEF Do, ConInv

LEMMA FreshThere ==
  ASSUME NEW mem, Unused(w, mem) # {}
  PROVE  /\ Fresh(mem) \in mem /\ w.mem[Fresh(mem)] = Freed
         /\ LiveBundles(w) = Bs(w) => Unnamed(w, Fresh(mem))
<1>1. Fresh(mem) \in Unused(w, mem)
  BY DEF Fresh
<1> QED
  BY <1>1 DEF Unused, Unnamed

LEMMA SelectStep ==
  ASSUME ConInv, Select
  PROVE  ConInv'
<1> DEFINE c == batch.who
<1>1. CASE Do(0, Choose(w, c, None, None))
  <2>1. Running /\ c \in Contexts
    BY <1>1, DoRunning
  <2>2. Sound(w, handling, None)
    BY <2>1, ConInvSound
  <2>3. Sound(Choose(w, c, None, None), handling, None)
    BY <2>1, <2>2, ChooseSound
  <2> QED
    BY <1>1, <2>3, DoStep
<1>2. ASSUME NEW l \in LiveLinks(w), Do(0, LinkCommand(w, c, l)) PROVE ConInv'
  <2>1. Running /\ c \in Contexts
    BY <1>2, DoRunning
  <2>2. Sound(w, handling, None) /\ l \in Ls(w)
    BY <1>2, <2>1, ConInvSound
  <2>3. Sound(LinkCommand(w, c, l), handling, None)
    BY <2>1, <2>2, LinkCommandSound
  <2> QED
    BY <1>2, <2>3, DoStep
<1>3. ASSUME NEW b \in LiveBundles(w), Do(0, BundCommand(w, c, b)) PROVE ConInv'
  <2>1. Running /\ c \in Contexts
    BY <1>3, DoRunning
  <2>2. Sound(w, handling, None) /\ b \in Bs(w)
    BY <1>3, <2>1, ConInvSound
  <2>3. LET u == BundCommand(w, c, b)
        IN  Sound(u, handling, None) \/ Spoilt(u) \/ Misled(u, c)
    BY <2>1, <2>2, BundCommandSound
  <2> QED
    BY <1>3, <2>3, DoStep
<1> QED
  BY <1>1, <1>2, <1>3 DEF Select

LEMMA CreateLinkStep ==
  ASSUME ConInv, CreateLink
  PROVE  ConInv'
<1>1. PICK t \in {None} \cup {x \in LiveLinks(w) : w.mem[x].tmpl}, k \in Kinds :
        Do(2, LinkCreate(w, batch.who, Fresh(LinkMem), t, k = "template", k # "temporary"))
  BY DEF CreateLink
<1>2. Running /\ batch.who \in Contexts
  BY <1>1, DoRunning
<1>3. Sound(w, handling, None) /\ t \in Ls(w) \cup {None} /\ LiveBundles(w) = Bs(w)
  BY <1>1, <1>2, ConInvSound
<1>4. Fresh(LinkMem) \in LinkMem /\ w.mem[Fresh(LinkMem)] = Freed /\ Unnamed(w, Fresh(LinkMem))
  BY <1>3, FreshThere DEF CreateLink
<1> DEFINE tmpl == k = "template"
           stay == k # "temporary"
<1>5. tmpl \in BOOLEAN /\ stay \in BOOLEAN
  OBVIOUS
<1> HIDE DEF tmpl, stay
<1>6. Sound(LinkCreate(w, batch.who, Fresh(LinkMem), t, tmpl, stay), handling, None)
  BY <1>2, <1>3, <1>4, <1>5, LinkCreateSound
<1>7. Do(2, LinkCreate(w, batch.who, Fresh(LinkMem), t, tmpl, stay))
  BY <1>1 DEF tmpl, stay
<1> QED
  BY <1>6, <1>7, DoStep

LEMMA CreateBundleStep ==
  ASSUME ConInv, CreateBundle
  PROVE  ConInv'
<1>1. PICK k \in Kinds : Do(2, BundCreate(w, batch.who, Fresh(BundMem), k = "template", k # "temporary"))
  BY DEF CreateBundle
<1>2. Running /\ batch.who \in Contexts
  BY <1>1, DoRunning
<1>3. Sound(w, handling, None)
  BY <1>2, ConInvSound
<1>4. Fresh(BundMem) \in BundMem /\ w.mem[Fresh(BundMem)] = Freed
  BY FreshThere DEF CreateBundle
<1> DEFINE tmpl == k = "template"
           stay == k # "temporary"
<1>5. tmpl \in BOOLEAN /\ stay \in BOOLEAN
  OBVIOUS
<1> HIDE DEF tmpl, stay
<1>6. Sound(BundCreate(w, batch.who, Fresh(BundMem), tmpl, stay), handling, None)
  BY <1>2, <1>3, <1>4, <1>5, BundCreateSound
<1>7. Do(2, BundCreate(w, batch.who, Fresh(BundMem), tmpl, stay))
  BY <1>1 DEF tmpl, stay
<1> QED
  BY <1>6, <1>7, DoStep

LEMMA DestroyLinkStep ==
  ASSUME ConInv, DestroyLink
  PROVE  ConInv'
<1>1. PICK l \in LiveLinks(w) \cup ({w.ctx[batch.who].lnk} \ {None}) : Do(2, LinkDestroy(w, l))
  BY DEF DestroyLink
<1>2. Running /\ batch.who \in Contexts
  BY <1>1, DoRunning
<1>3. Sound(w, handling, None) /\ LiveLinks(w) = Ls(w)
  BY <1>2, ConInvSound
<1>4. CASE l \in Ls(w)
  <2>0. l \in LinkMem
    BY <1>4 DEF Ls
  <2>1. Sound(LinkDestroy(w, l), handling, None) \/ Spoilt(LinkDestroy(w, l))
    BY <1>3, <1>4, <2>0, LinkDestroySound, TornSpoilt
  <2> QED
    BY <1>1, <2>1, DoStep
<1>5. CASE l \notin Ls(w)
  <2>1. l = w.ctx[batch.who].lnk /\ l # None
    BY <1>1, <1>3, <1>5
  <2>2. l \in LinkMem /\ w.mem[l] # Freed
    <3>1. "lnk" \in {"lnk", "bund"} /\ w.ctx[batch.who]["lnk"] = l
      BY <2>1
    <3> QED
      BY <1>2, <1>3, <2>1, <3>1, NamedThere DEF Slot
  <2>3. Broken(w, LinkDestroy(w, l), l) \/ Sound(LinkDestroy(w, l), handling, None)
    BY <1>3, <1>5, <2>2, LinkDestroyBroken
  <2> QED
    BY <1>1, <2>1, <2>3, DoStep
<1> QED
  BY <1>4, <1>5

LEMMA DestroyBundleStep ==
  ASSUME ConInv, DestroyBundle
  PROVE  ConInv'
<1>1. PICK b \in LiveBundles(w) \cup ({w.ctx[batch.who].bund} \ {None}) : Do(2, BundDestroy(w, b))
  BY DEF DestroyBundle
<1>2. Running /\ batch.who \in Contexts
  BY <1>1, DoRunning
<1>3. Sound(w, handling, None) /\ LiveBundles(w) = Bs(w)
  BY <1>2, ConInvSound
<1>4. CASE b \in Bs(w)
  <2>1. Sound(BundDestroy(w, b), handling, None) \/ Spoilt(BundDestroy(w, b))
    BY <1>3, <1>4, BundDestroySound
  <2> QED
    BY <1>1, <2>1, DoStep
<1>5. CASE b \notin Bs(w)
  <2>1. b = w.ctx[batch.who].bund /\ b # None
    BY <1>1, <1>3, <1>5
  <2>2. b \in BundMem /\ w.mem[b] # Freed
    <3>1. "bund" \in {"lnk", "bund"} /\ w.ctx[batch.who]["bund"] = b
      BY <2>1
    <3> QED
      BY <1>2, <1>3, <2>1, <3>1, NamedThere DEF Slot
  <2>3. Broken(w, BundDestroy(w, b), b)
    BY <1>3, <1>5, <2>2, BundDestroyBroken
  <2> QED
    BY <1>1, <2>1, <2>3, DoStep
<1> QED
  BY <1>4, <1>5

\* "open" and "close" of what the context has chosen, alive or dead.
LEMMA SendStep ==
  ASSUME ConInv, NEW p, NEW op,
         NEW x \in {w.ctx[batch.who].lnk, w.ctx[batch.who].bund} \ {None}, ~ w.mem[x].tmpl,
         x \in Mem => [op |-> op, to |-> x] \in Messages, op # "shutdown", Do(p, MsgSend(w, op, x))
  PROVE  ConInv'
<1>1. Running /\ batch.who \in Contexts
  BY DoRunning
<1>2. Sound(w, handling, None)
  BY <1>1, ConInvSound
<1>3. x \in Mem
  BY <1>1, ConInvSound, MemKinds
<1>4. CASE x \in Ls(w) \cup Bs(w)
  <2>1. [op |-> op, to |-> x] \in Messages /\ (op = "shutdown" => Kills(w, x))
    BY <1>3
  <2>2. Sound(MsgSend(w, op, x), handling, None)
    BY <1>2, <1>4, <2>1, MsgSendSound
  <2> QED
    BY <2>2, DoStep
<1>5. CASE x \notin Ls(w) \cup Bs(w)
  <2>1. Broken(w, MsgSend(w, op, x), x)
    BY <1>2, <1>3, <1>5, SendBroken
  <2> QED
    BY <2>1, DoStep
<1> QED
  BY <1>4, <1>5

LEMMA OpenCloseStep ==
  ASSUME ConInv, OpenCommand \/ CloseCommand
  PROVE  ConInv'
<1> DEFINE c == w.ctx[batch.who]
<1>0. batch.who \in Contexts
  BY DEF OpenCommand, CloseCommand, ConInv
<1>1. ASSUME c.lnk # None, ~ w.mem[c.lnk].tmpl, NEW op \in {"open", "close", "physOpen", "physClose"},
             Do(1, MsgSend(w, op, c.lnk))
      PROVE  ConInv'
  <2>1. Running
    BY <1>1, DoRunning
  <2>2. c.lnk \in LinkMem /\ c.lnk \in {w.ctx[batch.who].lnk, w.ctx[batch.who].bund} \ {None}
    BY <1>0, <1>1, <2>1, ConInvSound
  <2>3. [op |-> op, to |-> c.lnk] \in Messages /\ op # "shutdown"
    BY <2>2 DEF Messages
  <2> QED
    BY <1>1, <2>2, <2>3, SendStep
<1>2. ASSUME c.bund # None, ~ w.mem[c.bund].tmpl, NEW op \in {"bundOpen", "bundClose"},
             Do(1, MsgSend(w, op, c.bund))
      PROVE  ConInv'
  <2>1. Running
    BY <1>2, DoRunning
  <2>2. c.bund \in BundMem /\ c.bund \in {w.ctx[batch.who].lnk, w.ctx[batch.who].bund} \ {None}
    BY <1>0, <1>2, <2>1, ConInvSound
  <2>3. [op |-> op, to |-> c.bund] \in Messages /\ op # "shutdown"
    BY <2>2 DEF Messages
  <2> QED
    BY <1>2, <2>2, <2>3, SendStep
<1>3. \/ c.lnk # None /\ ~ w.mem[c.lnk].tmpl /\ \E op \in {"open", "close", "physOpen", "physClose"} : Do(1, MsgSend(w, op, c.lnk))
      \/ c.bund # None /\ ~ w.mem[c.bund].tmpl /\ \E op \in {"bundOpen", "bundClose"} : Do(1, MsgSend(w, op, c.bund))
  BY DEF OpenCommand, CloseCommand, LinkOpen, LinkClose, PhysOpen, PhysClose, BundOpen, BundClose
<1> HIDE DEF c
<1> QED
  BY <1>1, <1>2, <1>3

LEMMA LoadStep ==
  ASSUME ConInv, LoadCommand
  PROVE  ConInv'
<1>1. /\ batch \in [who : Contexts \cup {None}, left : 0 .. MaxCommands] /\ batch.who \in Contexts
      /\ session \in [Sessions -> {"none", "authentic"}] /\ handling \in BOOLEAN /\ MaxCommands \in 0 .. MaxCommands
  BY ConsoleAssumption DEF ConInv, LoadCommand, Contexts
<1>2. batch' = [batch EXCEPT !.left = MaxCommands] /\ w' = w /\ session' = session /\ handling' = handling /\ Running
  BY DEF LoadCommand
<1>3. batch' \in [who : Contexts \cup {None}, left : 0 .. MaxCommands] /\ batch'.who \in Contexts
  BY <1>1, <1>2
<1>4. Sound(w', handling', None)
  BY <1>2, ConInvSound
<1> QED
  BY <1>1, <1>2, <1>3, <1>4, SoundStep

LEMMA CommandStep ==
  ASSUME ConInv, Command
  PROVE  ConInv'
BY SelectStep, CreateLinkStep, CreateBundleStep, DestroyLinkStep, DestroyBundleStep, OpenCloseStep, LoadStep DEF Command

LEMMA ConInvTypes ==
  ASSUME ConInv
  PROVE  /\ session \in [Sessions -> {"none", "authentic"}] /\ handling \in BOOLEAN
         /\ batch \in [who : Contexts \cup {None}, left : 0 .. MaxCommands]
         /\ batch.left > 0 => batch.who \in Contexts
BY Zenon DEF ConInv

\* What changes only the world keeps the rest of the invariant.
LEMMA WorldStep ==
  ASSUME ConInv, Sound(w', handling, None), UNCHANGED << session, batch, handling >>
  PROVE  ConInv'
<1>1. Sound(w, handling, None)'
  BY DEF Sound
<1>2. /\ session' \in [Sessions -> {"none", "authentic"}] /\ handling' \in BOOLEAN
      /\ batch' \in [who : Contexts \cup {None}, left : 0 .. MaxCommands]
      /\ batch'.left > 0 => batch'.who \in Contexts
  BY ConInvTypes
<1> QED
  BY <1>1, <1>2, SoundStep, Zenon

LEMMA HappensStep ==
  ASSUME ConInv, NEW v, Happens(v), Sound(v, handling, None)
  PROVE  ConInv'
<1>1. w' = v /\ UNCHANGED << session, batch, handling >>
  BY DEF Happens
<1>2. Sound(w', handling, None)
  BY <1>1, Zenon
<1> QED
  BY <1>1, <1>2, WorldStep, Zenon

LEMMA HappensSpoilt ==
  ASSUME ConInv, NEW v, Happens(v), Spoilt(v)
  PROVE  ConInv'
<1>1. w' = v /\ UNCHANGED << session, batch, handling >>
  BY DEF Happens
<1>2. Spoilt(w')
  BY <1>1, Zenon
<1>3. /\ session' \in [Sessions -> {"none", "authentic"}] /\ handling' \in BOOLEAN
      /\ batch' \in [who : Contexts \cup {None}, left : 0 .. MaxCommands]
      /\ batch'.left > 0 => batch'.who \in Contexts
  BY <1>1, ConInvTypes
<1> QED
  BY <1>2, <1>3, SpoiltStep, Zenon

LEMMA BatchThere ==
  ASSUME NEW c \in Contexts \cup {None}, NEW n \in 0 .. MaxCommands, n > 0 => c \in Contexts
  PROVE  LET r == [who |-> c, left |-> n]
         IN  r \in [who : Contexts \cup {None}, left : 0 .. MaxCommands] /\ (r.left > 0 => r.who \in Contexts)
OBVIOUS

LEMMA NoBatchThere ==
  NoBatch \in [who : Contexts \cup {None}, left : 0 .. MaxCommands] /\ ~ NoBatch.left > 0
<1>1. 0 \in 0 .. MaxCommands
  BY ConsoleAssumption
<1> QED
  BY <1>1 DEF NoBatch

LEMMA ConnectStep ==
  ASSUME ConInv, NEW s \in Sessions, ConsoleConnect(s)
  PROVE  ConInv'
<1>1. PICK p \in Privileges : w' = [w EXCEPT !.ctx[s].priv = p]
  BY DEF ConsoleConnect
<1>2. w' = Privileged(w, s, p) /\ p \in 0 .. 2 /\ s \in Contexts
  BY <1>1, ConsoleAssumption DEF Privileged, Contexts
<1>3. Running /\ session' = [session EXCEPT ![s] = "authentic"] /\ UNCHANGED << batch, handling >>
  BY DEF ConsoleConnect, Idle
<1>4. Sound(w, handling, None)
  BY <1>3, ConInvSound
<1>5. Sound(w', handling, None)
  BY <1>2, <1>4, PrivSound
<1>6. Sound(w, handling, None)'
  BY <1>3, <1>5 DEF Sound
<1>7. session' \in [Sessions -> {"none", "authentic"}]
  BY <1>3, ConInvTypes
<1>8. /\ handling' \in BOOLEAN /\ batch' \in [who : Contexts \cup {None}, left : 0 .. MaxCommands]
      /\ batch'.left > 0 => batch'.who \in Contexts
  BY <1>3, ConInvTypes
<1> QED
  BY <1>6, <1>7, <1>8, SoundStep, Zenon

LEMMA LineStep ==
  ASSUME ConInv, NEW s \in Sessions, Line(s)
  PROVE  ConInv'
<1>1. /\ Running /\ w' = DropDead(DropDead(w, s, "lnk"), s, "bund")
      /\ batch' = [who |-> s, left |-> 1] /\ UNCHANGED << session, handling >>
  BY DEF Line, Idle
<1>2. s \in Contexts /\ "lnk" \in {"lnk", "bund"} /\ "bund" \in {"lnk", "bund"} /\ Sound(w, handling, None)
  BY <1>1, ConInvSound DEF Contexts
<1>3. Sound(DropDead(w, s, "lnk"), handling, None)
  BY <1>2, DropDeadSound
<1>4. Sound(w', handling, None)
  BY <1>1, <1>2, <1>3, DropDeadSound
<1>5. Sound(w, handling, None)'
  BY <1>1, <1>4 DEF Sound
<1>6. 1 \in 0 .. MaxCommands /\ s \in Contexts \cup {None}
  BY <1>2, ConsoleAssumption
<1>7. batch' \in [who : Contexts \cup {None}, left : 0 .. MaxCommands] /\ (batch'.left > 0 => batch'.who \in Contexts)
  BY <1>1, <1>2, <1>6, BatchThere
<1>8. session' \in [Sessions -> {"none", "authentic"}] /\ handling' \in BOOLEAN
  BY <1>1, ConInvTypes
<1> QED
  BY <1>5, <1>7, <1>8, SoundStep, Zenon

LEMMA WebStep ==
  ASSUME ConInv, WebServletRun
  PROVE  ConInv'
<1>1. PICK p \in Privileges : w' = [w EXCEPT !.ctx[Web].priv = p]
  BY DEF WebServletRun
<1>2. w' = Privileged(w, Web, p) /\ p \in 0 .. 2 /\ Web \in Contexts
  BY <1>1, ConsoleAssumption DEF Privileged, Contexts
<1>3. Running /\ batch' = [who |-> Web, left |-> MaxCommands] /\ UNCHANGED << session, handling >>
  BY DEF WebServletRun, Idle
<1>4. Sound(w, handling, None)
  BY <1>3, ConInvSound
<1>5. Sound(w', handling, None)
  BY <1>2, <1>4, PrivSound
<1>6. Sound(w, handling, None)'
  BY <1>3, <1>5 DEF Sound
<1>7. MaxCommands \in 0 .. MaxCommands /\ Web \in Contexts \cup {None}
  BY <1>2, ConsoleAssumption
<1>8. batch' \in [who : Contexts \cup {None}, left : 0 .. MaxCommands] /\ (batch'.left > 0 => batch'.who \in Contexts)
  BY <1>2, <1>3, <1>7, BatchThere
<1>9. session' \in [Sessions -> {"none", "authentic"}] /\ handling' \in BOOLEAN
  BY <1>3, ConInvTypes
<1> QED
  BY <1>6, <1>8, <1>9, SoundStep, Zenon

LEMMA ReturnStep ==
  ASSUME ConInv, Return
  PROVE  ConInv'
<1>1. /\ Running /\ w' = (IF batch.who = Web THEN LetGo(w, Web) ELSE w)
      /\ batch' = NoBatch /\ UNCHANGED << session, handling >>
  BY DEF Return
<1>2. Web \in Contexts /\ Sound(w, handling, None)
  BY <1>1, ConInvSound DEF Contexts
<1>3. Sound(LetGo(w, Web), handling, None)
  BY <1>2, LetGoSound
<1>4. Sound(w', handling, None)
  BY <1>1, <1>2, <1>3
<1>5. Sound(w, handling, None)'
  BY <1>1, <1>4 DEF Sound
<1>6. batch' \in [who : Contexts \cup {None}, left : 0 .. MaxCommands] /\ (batch'.left > 0 => batch'.who \in Contexts)
  BY <1>1, NoBatchThere, Zenon
<1>7. session' \in [Sessions -> {"none", "authentic"}] /\ handling' \in BOOLEAN
  BY <1>1, ConInvTypes
<1> QED
  BY <1>5, <1>6, <1>7, SoundStep, Zenon

LEMMA DisconnectStep ==
  ASSUME ConInv, NEW s \in Sessions, Disconnect(s)
  PROVE  ConInv'
<1>1. /\ Running /\ w' = LetGo(w, s) /\ session' = [session EXCEPT ![s] = "none"]
      /\ UNCHANGED << batch, handling >>
  BY DEF Disconnect, Idle
<1>2. s \in Contexts /\ Sound(w, handling, None)
  BY <1>1, ConInvSound DEF Contexts
<1>3. Sound(w', handling, None)
  BY <1>1, <1>2, LetGoSound
<1>4. Sound(w, handling, None)'
  BY <1>1, <1>3 DEF Sound
<1>5. session' \in [Sessions -> {"none", "authentic"}]
  BY <1>1, ConInvTypes
<1>6. /\ handling' \in BOOLEAN /\ batch' \in [who : Contexts \cup {None}, left : 0 .. MaxCommands]
      /\ batch'.left > 0 => batch'.who \in Contexts
  BY <1>1, ConInvTypes
<1> QED
  BY <1>4, <1>5, <1>6, SoundStep, Zenon

----------------------------------------------------------------------------
(* Steps of messages, devices and LCP. *)

LEMMA DialledThere ==
  ASSUME NEW v, NEW h, NEW z, Sound(v, h, z), v.mem = w.mem, v.gBundles = w.gBundles, LiveBundles(w) = Bs(w),
         NEW t \in Dialled(v), t # None
  PROVE  /\ t \in Ls(v) /\ ~ v.mem[t].joined
         /\ v.mem[t].tmpl => Fresh(LinkMem) \in LinkMem /\ v.mem[Fresh(LinkMem)] = Freed /\ Unnamed(v, Fresh(LinkMem))
<1>1. LiveLinks(v) = Ls(v)
  BY ListedLiving DEF Sound
<1>2. t \in Ls(v) /\ v.mem[t].lcp = "initial" /\ (v.mem[t].tmpl => Unused(v, LinkMem) # {})
  BY <1>1 DEF Dialled, PhysIsBusy
<1>3. ~ v.mem[t].joined
  BY <1>2, LcpFacts
<1>4. LiveBundles(v) = LiveBundles(w) /\ Bs(v) = Bs(w)
  BY DEF LiveBundles, Bs
<1>5. Unused(v, LinkMem) = Unused(w, LinkMem)
  BY <1>4 DEF Unused
<1>6. Unused(w, LinkMem) # {} =>
        Fresh(LinkMem) \in LinkMem /\ w.mem[Fresh(LinkMem)] = Freed /\ Unnamed(w, Fresh(LinkMem))
  BY FreshThere
<1>7. Unnamed(w, Fresh(LinkMem)) => Unnamed(v, Fresh(LinkMem))
  BY <1>4 DEF Unnamed
<1> QED
  BY <1>2, <1>3, <1>5, <1>6, <1>7

LEMMA MsgEventStep ==
  ASSUME ConInv, MsgEvent
  PROVE  ConInv'
<1> DEFINE m == Head(w.msgs)
           v == Taken(w)
           Y(t) == IF t = None THEN None ELSE Fresh(LinkMem)
<1>1. /\ Running /\ w.msgs # << >> /\ handling' = (w'.msgs # << >>) /\ UNCHANGED << session, batch >>
      /\ \/ m.to \in LinkMem /\ \E now, midway \in BOOLEAN : w' = LinkMsg(v, m, now, midway)
         \/ m.to \in BundMem /\ \E t \in Dialled(v), logs \in BOOLEAN : w' = BundMsg(v, m, t, Y(t), logs)
  BY DEF MsgEvent, Taken
<1>2. Sound(w, handling, None) /\ LiveBundles(w) = Bs(w)
  BY <1>1, ConInvSound
<1>3. /\ Sound(v, TRUE, m.to) /\ v.mem = w.mem /\ m \in Messages
      /\ m.to \in Ls(v) \cup Bs(v) => ~ v.mem[m.to].tmpl
      /\ m.op = "shutdown" /\ m.to \in Ls(v) => ~ v.mem[m.to].joined
  BY <1>1, <1>2, TakenSound
<1>3a. v.gBundles = w.gBundles
  BY <1>2 DEF Taken, Sound, Worlds
<1> HIDE DEF m, v
<1>4. ASSUME m.to \in LinkMem, \E now, midway \in BOOLEAN : w' = LinkMsg(v, m, now, midway)
      PROVE  Sound(w', TRUE, None) \/ Spoilt(w')
  <2>1. PICK now \in BOOLEAN, midway \in BOOLEAN : w' = LinkMsg(v, m, now, midway)
    BY <1>4
  <2>2. m.to \in Ls(v) => ~ v.mem[m.to].tmpl /\ (m.op = "shutdown" => ~ v.mem[m.to].joined)
    BY <1>3
  <2>3. LET u == LinkMsg(v, m, now, midway)
        IN  Sound(u, TRUE, None) \/ Spoilt(u)
    BY <1>3, <1>4, <2>2, LinkMsgSound
  <2> QED
    BY <2>1, <2>3
<1>5. ASSUME m.to \in BundMem, \E t \in Dialled(v), logs \in BOOLEAN : w' = BundMsg(v, m, t, Y(t), logs)
      PROVE  Sound(w', TRUE, None) \/ Spoilt(w')
  <2>1. PICK t \in Dialled(v), logs \in BOOLEAN : w' = BundMsg(v, m, t, Y(t), logs)
    BY <1>5
  <2> DEFINE y == Y(t)
  <2>2. t # None => /\ t \in Ls(v) /\ ~ v.mem[t].joined
                    /\ v.mem[t].tmpl => Fresh(LinkMem) \in LinkMem /\ v.mem[Fresh(LinkMem)] = Freed
                                        /\ Unnamed(v, Fresh(LinkMem))
    BY <1>2, <1>3, <1>3a, DialledThere
  <2>3. /\ t \in Ls(v) \cup {None}
        /\ t # None => ~ v.mem[t].joined /\ (v.mem[t].tmpl => y \in LinkMem /\ v.mem[y] = Freed /\ Unnamed(v, y))
    BY <2>2
  <2>4. m.to \in Bs(v) => ~ v.mem[m.to].tmpl
    BY <1>3
  <2> HIDE DEF y
  <2>5. LET u == BundMsg(v, m, t, y, logs)
        IN  Sound(u, TRUE, None) \/ Spoilt(u)
    BY <1>3, <1>5, <2>3, <2>4, BundMsgSound
  <2> QED
    BY <2>1, <2>5 DEF y
<1>6. Sound(w', TRUE, None) \/ Spoilt(w')
  BY <1>1, <1>4, <1>5
<1>7. /\ session' \in [Sessions -> {"none", "authentic"}] /\ handling' \in BOOLEAN
      /\ batch' \in [who : Contexts \cup {None}, left : 0 .. MaxCommands]
      /\ batch'.left > 0 => batch'.who \in Contexts
  BY <1>1, ConInvTypes
<1>8. CASE Sound(w', TRUE, None)
  <2>1. Sound(w', w'.msgs # << >>, None)
    BY <1>8, HandledSound
  <2>2. Sound(w, handling, None)'
    BY <1>1, <2>1 DEF Sound
  <2> QED
    BY <1>7, <2>2, SoundStep, Zenon
<1>9. CASE Spoilt(w')
  BY <1>7, <1>9, SpoiltStep, Zenon
<1> QED
  BY <1>6, <1>8, <1>9

\* What the devices and LCP start from.
LEMMA IdleFacts ==
  ASSUME ConInv, NEW v, Happens(v), NEW x \in LiveLinks(w)
  PROVE  /\ x \in Ls(w) /\ Sound(w, handling, None) /\ ~ handling /\ w.mem[x] \in Links
         /\ x \in LinkMem /\ w \in Worlds
<1>1. Running /\ ~ handling
  BY DEF Happens, Idle
<1>2. Sound(w, handling, None) /\ LiveLinks(w) = Ls(w) /\ w \in Worlds
  BY <1>1, ConInvSound
<1>3. w.mem[x] \in Links /\ x \in LinkMem
  BY <1>2, ListedLiving DEF Sound, Ls
<1> QED
  BY <1>1, <1>2, <1>3

LEMMA PutBusy ==
  ASSUME NEW v \in Worlds, NEW x \in Mem
  PROVE  [v EXCEPT !.mem[x].busy = TRUE] = Put(v, x, [v.mem[x] EXCEPT !.busy = TRUE])
<1>1. DOMAIN v.mem = Mem
  BY DEF Worlds
<1> QED
  BY <1>1 DEF Put

LEMMA PhysUpStep ==
  ASSUME ConInv, NEW x \in LiveLinks(w), PhysUp(x)
  PROVE  ConInv'
<1> DEFINE s == IF w.mem[x].lcp = "initial" THEN "closing" ELSE "up"
           l == w.mem[x]
           o == [l EXCEPT !.lcp = s]
           u == Put(w, x, o)
<1>1. w.mem[x].busy /\ w.mem[x].lcp \in {"initial", "starting"}
      /\ Happens([w EXCEPT !.mem[x].lcp = IF @ = "initial" THEN "closing" ELSE "up"])
  BY DEF PhysUp
<1>2. /\ x \in Ls(w) /\ Sound(w, handling, None) /\ ~ handling /\ l \in Links /\ x \in LinkMem /\ w \in Worlds
  BY <1>1, IdleFacts
<1>3. Happens(u)
  <2>1. [w EXCEPT !.mem[x].lcp = IF @ = "initial" THEN "closing" ELSE "up"] = [w EXCEPT !.mem[x].lcp = s]
    OBVIOUS
  <2>2. x \in Mem
    BY <1>2, MemKinds
  <2> HIDE DEF s
  <2>3. [w EXCEPT !.mem[x].lcp = s] = u
    <3>1. DOMAIN w.mem = Mem
      BY <1>2 DEF Worlds
    <3> QED
      BY <2>2, <3>1 DEF Put
  <2> QED
    BY <1>1, <2>1, <2>3
<1>4. /\ l.tmpl => ~ l.busy
      /\ l.joined => l.lcp = "up"
      /\ ~ handling /\ Dies(w, x) => ~ l.busy
  BY <1>2, LcpFacts
<1>5. ~ l.tmpl /\ ~ l.joined /\ ~ Dies(w, x)
  BY <1>1, <1>2, <1>4
<1>6. s \in LcpStates
  BY DEF LcpStates
<1> HIDE DEF s
<1>7. Flagged(w, o, handling, x)
  BY <1>2, <1>5, <1>6 DEF Flagged, Links
<1>8. Sound(u, handling, None)
  BY <1>2, <1>7, PutLinkSound
<1> HIDE DEF u
<1> QED
  BY <1>3, <1>8, HappensStep

LEMMA DeviceLostStep ==
  ASSUME ConInv, NEW x \in LiveLinks(w), DeviceLost(x)
  PROVE  ConInv'
<1>1. PICK midway \in BOOLEAN : Happens(PhysDown(w, x, midway))
  BY DEF DeviceLost
<1>2. x \in Ls(w) /\ Sound(w, handling, None)
  BY <1>1, IdleFacts
<1>3. w.mem[x].busy
  BY DEF DeviceLost
<1>4. ~ w.mem[x].tmpl
  BY <1>2, <1>3, LcpFacts
<1>5. CASE ~ Lost(w, x)
  <2>1. Sound(PhysDown(w, x, midway), handling, None)
    BY <1>2, <1>4, <1>5, PhysDownSound
  <2> QED
    BY <1>1, <2>1, HappensStep
<1>6. CASE Lost(w, x)
  <2>1. x \in LinkMem
    BY <1>2 DEF Ls
  <2>2. Spoilt(PhysDown(w, x, midway))
    BY <1>2, <1>6, <2>1, PhysDownTorn, TornSpoilt
  <2> QED
    BY <1>1, <2>2, HappensSpoilt
<1> QED
  BY <1>5, <1>6

\* A call that makes a link, or a link that waits, busy and asks it to open.
LEMMA BusySound ==
  ASSUME NEW v, NEW h, NEW z, Sound(v, h, z), NEW x \in Ls(v), ~ v.mem[x].tmpl, ~ Dies(v, x)
  PROVE  Sound(LinkOpen([v EXCEPT !.mem[x].busy = TRUE], x), h, z)
<1> DEFINE l == v.mem[x]
           o == [l EXCEPT !.busy = TRUE]
           u == Put(v, x, o)
<1>1. v \in Worlds /\ x \in Mem /\ l \in Links
  BY ListedLiving, MemKinds DEF Sound, Ls
<1>2. [v EXCEPT !.mem[x].busy = TRUE] = u
  BY <1>1, PutBusy
<1>3. l.joined => l.lcp = "up"
  BY LcpFacts
<1>4. Flagged(v, o, h, x)
  BY <1>1, <1>3 DEF Flagged, Links
<1>5. Sound(u, h, z) /\ Ls(u) = Ls(v) /\ u.mem[x] = o
  BY <1>4, PutLinkSound
<1>6. ~ o.tmpl
  BY <1>1 DEF Links
<1> HIDE DEF u, o
<1>7. x \in Ls(u) /\ ~ u.mem[x].tmpl
  BY <1>5, <1>6
<1>8. Sound(LinkOpen(u, x), h, z)
  BY <1>5, <1>7, AskRun DEF Run
<1> QED
  BY <1>2, <1>8

LEMMA PhysIncomingStep ==
  ASSUME ConInv, NEW x \in LiveLinks(w), PhysIncoming(x)
  PROVE  ConInv'
<1>1. ~ w.mem[x].die
  BY DEF PhysIncoming, PhysIsBusy
<1>2. CASE ~ w.mem[x].tmpl /\ Happens(LinkOpen([w EXCEPT !.mem[x].busy = TRUE], x))
  <2>1. x \in Ls(w) /\ Sound(w, handling, None)
    BY <1>2, IdleFacts
  <2>2. ~ Dies(w, x)
    BY <1>1, <2>1, LcpFacts
  <2>3. Sound(LinkOpen([w EXCEPT !.mem[x].busy = TRUE], x), handling, None)
    BY <1>2, <2>1, <2>2, BusySound
  <2> QED
    BY <1>2, <2>3, HappensStep
<1> DEFINE y == Fresh(LinkMem)
           d == LinkInst(w, y, x, FALSE, FALSE)
<1>3. CASE w.mem[x].tmpl /\ Unused(w, LinkMem) # {} /\ Happens(LinkOpen([d EXCEPT !.mem[y].busy = TRUE], y))
  <2>1. x \in Ls(w) /\ Sound(w, handling, None)
    BY <1>3, IdleFacts
  <2>1a. LiveBundles(w) = Bs(w)
    BY <2>1, ListedLiving DEF Sound
  <2>2. y \in LinkMem /\ w.mem[y] = Freed /\ y \in Mem /\ Unnamed(w, y)
    BY <1>3, <2>1a, FreshThere, MemKinds
  <2>3. FALSE \in BOOLEAN
    OBVIOUS
  <2> HIDE DEF y
  <2>4. Instanced(w, d, handling, None, y, FALSE)
    BY <2>1, <2>2, <2>3, LinkInstSound
  <2> HIDE DEF d
  <2>5. Sound(d, handling, None) /\ y \in Ls(d) /\ ~ d.mem[y].tmpl /\ ~ d.mem[y].die
    BY <2>4 DEF Instanced
  <2>6. ~ Dies(d, y)
    BY <2>5, LcpFacts
  <2>7. Sound(LinkOpen([d EXCEPT !.mem[y].busy = TRUE], y), handling, None)
    BY <2>5, <2>6, BusySound
  <2> QED
    BY <1>3, <2>7, HappensStep
<1> QED
  BY <1>2, <1>3 DEF PhysIncoming

LEMMA LcpLayerFinishStep ==
  ASSUME ConInv, NEW x \in LiveLinks(w), LcpLayerFinish(x)
  PROVE  ConInv'
<1> DEFINE d == LeaveIfJoined(w, x)
<1>1. w.mem[x].lcp \in {"up", "closing"} /\ Happens(PhysClose(d, x))
  BY DEF LcpLayerFinish
<1>2. x \in Ls(w) /\ Sound(w, handling, None)
  BY <1>1, IdleFacts
<1>3. ~ w.mem[x].tmpl
  BY <1>1, <1>2, LcpFacts
<1>4. CASE ~ Lost(w, x)
  <2>1. Run(w, d, handling, None, x)
    BY <1>2, <1>4, LeaveRun
  <2> HIDE DEF d
  <2>2. Sound(d, handling, None) /\ x \in Ls(d) /\ ~ d.mem[x].tmpl
    BY <1>2, <1>3, <2>1 DEF Run, Alike
  <2>3. Sound(PhysClose(d, x), handling, None)
    BY <2>2, AskRun DEF Run
  <2> QED
    BY <1>1, <2>3, HappensStep
<1>5. CASE Lost(w, x)
  <2>1. Torn(w, d, x) /\ w.mem[x].refs \in Nat /\ x \in LinkMem
    BY <1>2, <1>5, LeaveTorn
  <2> HIDE DEF d
  <2>2. [op |-> "physClose", to |-> x] \in Messages
    BY <2>1 DEF Messages
  <2>3. Torn(w, PhysClose(d, x), x)
    BY <2>1, <2>2, TornSend DEF PhysClose
  <2>4. Spoilt(PhysClose(d, x))
    BY <2>1, <2>3, TornSpoilt
  <2> QED
    BY <1>1, <2>4, HappensSpoilt
<1> QED
  BY <1>4, <1>5

LEMMA BundJoinStep ==
  ASSUME ConInv, NEW x \in LiveLinks(w), BundJoin(x)
  PROVE  ConInv'
<1>1. w.mem[x].lcp = "up" /\ ~ w.mem[x].joined
  BY DEF BundJoin
<1> DEFINE b == w.mem[x].bund
<1> SUFFICES ASSUME NEW v, Happens(v),
                    \/ b # None /\ v = Joins(w, b, x)
                    \/ /\ b = None
                       /\ \E f \in LiveBundles(w) : ~ w.mem[f].tmpl /\ w.mem[f].link = None /\ v = Joins(w, f, x)
                    \/ /\ b = None /\ Unused(w, BundMem) # {}
                       /\ v = Joins(BundInst(w, Fresh(BundMem), FALSE, FALSE), Fresh(BundMem), x)
             PROVE  ConInv'
  BY DEF BundJoin
<1>2. x \in Ls(w) /\ Sound(w, handling, None) /\ ~ handling /\ x \in LinkMem
  BY IdleFacts
<1>3. ~ Dies(w, x) /\ ~ w.mem[x].tmpl
  BY <1>1, <1>2, LcpFacts
<1>4. LiveBundles(w) = Bs(w)
  BY <1>2, ListedLiving DEF Sound
<1>5. CASE b # None /\ v = Joins(w, b, x)
  <2>1. b \in Bs(w) /\ w.mem[b].link = x
    BY <1>2, <1>5 DEF Sound, Married
  <2>2. ~ w.mem[b].tmpl
    BY <1>2, <2>1, MemKinds DEF Sound, Still, Ls
  <2>3. Sound(v, handling, None)
    BY <1>1, <1>2, <1>3, <1>5, <2>1, <2>2, JoinsSound
  <2> QED
    BY <2>3, HappensStep
<1>6. CASE /\ b = None
           /\ \E f \in LiveBundles(w) : ~ w.mem[f].tmpl /\ w.mem[f].link = None /\ v = Joins(w, f, x)
  <2>1. PICK f \in Bs(w) : ~ w.mem[f].tmpl /\ w.mem[f].link = None /\ v = Joins(w, f, x)
    BY <1>4, <1>6
  <2>2. Sound(v, handling, None)
    BY <1>1, <1>2, <1>3, <1>6, <2>1, JoinsSound
  <2> QED
    BY <2>2, HappensStep
<1> DEFINE y == Fresh(BundMem)
           d == BundInst(w, y, FALSE, FALSE)
<1>7. CASE b = None /\ Unused(w, BundMem) # {} /\ v = Joins(d, y, x)
  <2>1. y \in BundMem /\ w.mem[y] = Freed
    BY <1>7, FreshThere
  <2>2. FALSE \in BOOLEAN
    OBVIOUS
  <2> HIDE DEF y
  <2>3. NewlyBundled(w, d, handling, None, y, FALSE)
    BY <1>2, <2>1, <2>2, BundInstSound
  <2> HIDE DEF d
  <2>4. x # y /\ x \in Mem
    BY <1>2, <2>1, MemKinds
  <2>5. /\ Sound(d, handling, None) /\ y \in Bs(d) /\ x \in Ls(d) /\ d.mem[x] = w.mem[x] /\ d.msgs = w.msgs
        /\ ~ d.mem[y].tmpl /\ d.mem[y].link = None
    BY <1>2, <2>3, <2>4 DEF NewlyBundled
  <2>6. ~ Dies(d, x)
    BY <1>3, <2>5 DEF Dies
  <2>7. Sound(Joins(d, y, x), handling, None)
    BY <1>1, <1>7, <2>5, <2>6, JoinsSound
  <2> QED
    BY <1>7, <2>7, HappensStep
<1> QED
  BY <1>5, <1>6, <1>7

LEMMA NextStep ==
  ASSUME ConInv, Next
  PROVE  ConInv'
<1>1. CASE Command
  BY <1>1, CommandStep
<1>2. CASE Return
  BY <1>2, ReturnStep
<1>3. CASE WebServletRun
  BY <1>3, WebStep
<1>4. CASE MsgEvent
  BY <1>4, MsgEventStep
<1>5. CASE \E s \in Sessions : ConsoleConnect(s) \/ Line(s) \/ Disconnect(s)
  BY <1>5, ConnectStep, LineStep, DisconnectStep
<1>6. CASE \E x \in LiveLinks(w) :
             PhysUp(x) \/ DeviceLost(x) \/ PhysIncoming(x) \/ LcpLayerFinish(x) \/ BundJoin(x)
  BY <1>6, PhysUpStep, DeviceLostStep, PhysIncomingStep, LcpLayerFinishStep, BundJoinStep
<1> QED
  BY <1>1, <1>2, <1>3, <1>4, <1>5, <1>6 DEF Next

LEMMA StutterStep ==
  ASSUME ConInv, UNCHANGED vars
  PROVE  ConInv'
<1>1. w' = w /\ session' = session /\ batch' = batch /\ handling' = handling
  BY DEF vars
<1>2. FailsOnlyOnTheDead'
  BY <1>1 DEF ConInv, FailsOnlyOnTheDead, Running
<1>3. /\ w' \in Worlds /\ session' \in [Sessions -> {"none", "authentic"}]
      /\ batch' \in [who : Contexts \cup {None}, left : 0 .. MaxCommands]
      /\ (batch'.left > 0 => batch'.who \in Contexts) /\ handling' \in BOOLEAN
  BY <1>1 DEF ConInv
<1>4. (w.failed = "none" => Sound(w, handling, None))'
  BY <1>1 DEF ConInv
<1> QED
  BY <1>2, <1>3, <1>4 DEF ConInv

\* Nothing is there and nobody holds anything.
Empty(v) ==
  /\ v \in Worlds /\ v.failed = "none" /\ v.msgs = << >> /\ v.gChildren = 0
  /\ \A x \in Mem : v.mem[x] = Freed
  /\ \A k \in LinkSlots : v.gLinks[k] = None
  /\ \A k \in BundSlots : v.gBundles[k] = None
  /\ \A c \in Contexts : v.ctx[c].lnk = None /\ v.ctx[c].bund = None

LEMMA EmptyThere ==
  ASSUME Init
  PROVE  Empty(w)
<1>1. w = [mem |-> [x \in Mem |-> Freed], gLinks |-> [k \in LinkSlots |-> None],
           gBundles |-> [k \in BundSlots |-> None],
           ctx |-> [c \in Contexts |-> [lnk |-> None, bund |-> None, priv |-> 0]],
           msgs |-> << >>, gChildren |-> 0, failed |-> "none"]
  BY DEF Init
<1>2. << >> \in Seq(Messages)
  OBVIOUS
<1> QED
  BY <1>1, <1>2 DEF Empty, Worlds

LEMMA EmptySound ==
  ASSUME NEW v, Empty(v), NEW h
  PROVE  Sound(v, h, None)
<1>1. v \in Worlds /\ v.failed = "none" /\ v.msgs = << >> /\ Len(v.msgs) = 0
  BY DEF Empty
<1>2. Ls(v) = {} /\ Bs(v) = {}
  BY MemKinds DEF Empty, Ls, Bs
<1>3. Sorted(v) /\ Tabled(v) /\ Married(v) /\ Blank(v) /\ Still(v) /\ Shut(v, h)
  BY <1>2, MemKinds DEF Empty, Sorted, Tabled, Married, Blank, Still, Shut
<1>4. Related(v)
  <2>1. Born(v) = {}
    BY <1>2 DEF Born
  <2>2. v.gChildren = 0 /\ Cardinality(Born(v)) = 0
    BY <2>1, FS_EmptySet DEF Empty
  <2>3. v.gChildren >= Cardinality(Born(v))
    BY <2>2
  <2> QED
    BY <1>2, <2>3 DEF Related
<1>5. Counted(v, None)
  <2> SUFFICES ASSUME NEW x \in Mem
               PROVE  Refs(v, x) = Held(v, x) + (IF x = None THEN 1 ELSE 0) /\ v.mem[x] = Freed
    BY DEF Counted
  <2>1. v.mem[x] = Freed /\ x # None
    BY MemKinds DEF Empty
  <2>2. Cardinality({}) = 0
    BY FS_EmptySet
  <2>3. {k \in LinkSlots : v.gLinks[k] = x} = {} /\ {k \in BundSlots : v.gBundles[k] = x} = {}
    BY <2>1 DEF Empty
  <2>4. {c \in Contexts : v.ctx[c].lnk = x} = {} /\ {c \in Contexts : v.ctx[c].bund = x} = {}
    BY <2>1 DEF Empty
  <2>5. {i \in 1 .. Len(v.msgs) : v.msgs[i].to = x} = {}
    BY <1>1
  <2>6. InLinks(v, x) = 0 /\ InBunds(v, x) = 0
    BY <2>2, <2>3 DEF InLinks, InBunds
  <2>7. AsLink(v, x) = 0 /\ AsBund(v, x) = 0
    BY <2>2, <2>4 DEF AsLink, AsBund
  <2>8. AsTarget(v, x) = 0
    BY <2>2, <2>5 DEF AsTarget
  <2>9. Held(v, x) = 0
    BY <1>1, <2>6, <2>7, <2>8, HeldParts
  <2> QED
    BY <2>1, <2>9 DEF Refs
<1> QED
  BY <1>1, <1>3, <1>4, <1>5 DEF Sound

LEMMA InitConInv ==
  ASSUME Init
  PROVE  ConInv
<1>1. Empty(w)
  BY EmptyThere
<1>2. Sound(w, handling, None)
  BY <1>1, EmptySound
<1>3. session \in [Sessions -> {"none", "authentic"}] /\ handling \in BOOLEAN /\ batch = NoBatch
  BY DEF Init
<1>4. batch \in [who : Contexts \cup {None}, left : 0 .. MaxCommands] /\ ~ batch.left > 0
  BY <1>3, NoBatchThere, Zenon
<1>5. w \in Worlds /\ w.failed = "none"
  BY <1>2 DEF Sound
<1>6. FailsOnlyOnTheDead
  BY <1>5 DEF FailsOnlyOnTheDead, Running
<1> QED
  BY <1>2, <1>3, <1>4, <1>5, <1>6 DEF ConInv

----------------------------------------------------------------------------
(* What follows. *)

\* The inductive invariant: while the program runs, the world is sound in every state,
\* with a message in hand only inside MsgEvent().
THEOREM ConInvAlways == Spec => []ConInv
<1>1. Init => ConInv
  BY InitConInv
<1>2. ConInv /\ [Next]_vars => ConInv'
  BY NextStep, StutterStep
<1> QED
  BY <1>1, <1>2, PTL DEF Spec

\* Type correctness of the references, contexts and sessions of console.c and web.c.
THEOREM ConsoleTypeCorrect == Spec => []TypeOK
<1>1. ConInv => TypeOK
  BY DEF ConInv, TypeOK, Worlds
<1> QED
  BY <1>1, ConInvAlways, PTL

LEMMA RefsFollow ==
  ASSUME ConInv
  PROVE  RefsAreHolders
<1> SUFFICES ASSUME Running, NEW x \in Mem
             PROVE  Holders(x) = IF w.mem[x] = Freed THEN 0 ELSE w.mem[x].refs
  BY DEF RefsAreHolders
<1>1. Sound(w, handling, None) /\ x # None
  BY ConInvSound, MemKinds
<1>2. Held(w, x) \in Nat /\ Refs(w, x) = Held(w, x) + One(None, x)
  BY <1>1, SoundHeld
<1>3. Held(w, x) = Refs(w, x)
  BY <1>1, <1>2 DEF One
<1>4. Holders(x) = Held(w, x)
  BY DEF Holders, Held
<1> QED
  BY <1>3, <1>4 DEF Refs

\* REF(), UNREF() and RESETREF() keep the count of each object equal to the number of its
\* holders: tables, console sessions, web requests and queued messages.
THEOREM ReferencesAlwaysHolders == Spec => []RefsAreHolders
BY ConInvAlways, RefsFollow, PTL

LEMMA TablesFollow ==
  ASSUME ConInv
  PROVE  TablesAreCurrent
<1> SUFFICES ASSUME Running
             PROVE  /\ Living = LiveLinks(w) \cup LiveBundles(w)
                    /\ \A x \in LiveLinks(w) :
                         /\ w.gLinks[w.mem[x].id] = x
                         /\ w.mem[x].bund # None =>
                              /\ w.mem[x].bund \in LiveBundles(w) /\ w.mem[w.mem[x].bund].link = x
                              /\ w.mem[x].joined => w.mem[w.mem[x].bund].n_up >= 1
                         /\ w.mem[x].joined => w.mem[x].lcp = "up" /\ (w.mem[x].bund # None \/ w.mem[x].cut)
                         /\ w.mem[x].parent # 0 => w.gLinks[w.mem[x].parent] # None
                         /\ w.mem[x].children = Cardinality(Kin(w.mem[x].id))
                    /\ \A b \in LiveBundles(w) :
                         /\ w.gBundles[w.mem[b].id] = b
                         /\ ~ w.mem[b].robbed =>
                              /\ w.mem[b].link # None => w.mem[b].link \in LiveLinks(w) /\ w.mem[w.mem[b].link].bund = b
                              /\ w.mem[b].n_up = IF w.mem[b].link # None /\ w.mem[w.mem[b].link].joined THEN 1 ELSE 0
                    /\ w.gChildren >= Cardinality(LiveLinks(w) \ Kin(0))
  BY DEF TablesAreCurrent
<1>1. LiveLinks(w) = Ls(w) /\ LiveBundles(w) = Bs(w) /\ Tabled(w) /\ Married(w) /\ Related(w)
  BY ConInvSound DEF Sound
<1>2. Living = Ls(w) \cup Bs(w)
  BY DEF Living, Ls, Bs, Mem
<1>3. \A k : Kin(k) = KinOf(w, k)
  BY <1>1 DEF Kin, KinOf
<1>4. Ls(w) \ Kin(0) = Born(w)
  BY <1>1 DEF Kin, Born
<1>5. /\ \A x \in Ls(w) :
           /\ w.gLinks[w.mem[x].id] = x
           /\ w.mem[x].bund # None =>
                /\ w.mem[x].bund \in Bs(w) /\ w.mem[w.mem[x].bund].link = x
                /\ w.mem[x].joined => w.mem[w.mem[x].bund].n_up >= 1
           /\ w.mem[x].joined => w.mem[x].lcp = "up" /\ (w.mem[x].bund # None \/ w.mem[x].cut)
           /\ w.mem[x].parent # 0 => w.gLinks[w.mem[x].parent] # None
           /\ w.mem[x].children = Cardinality(KinOf(w, w.mem[x].id))
  BY <1>1 DEF Tabled, Married, Related
<1>6. \A b \in Bs(w) :
        /\ w.gBundles[w.mem[b].id] = b
        /\ ~ w.mem[b].robbed =>
             /\ w.mem[b].link # None => w.mem[b].link \in Ls(w) /\ w.mem[w.mem[b].link].bund = b
             /\ w.mem[b].n_up = IF w.mem[b].link # None /\ w.mem[w.mem[b].link].joined THEN 1 ELSE 0
  BY <1>1 DEF Tabled, Married
<1>7. w.gChildren >= Cardinality(Born(w))
  BY <1>1 DEF Related
<1> QED
  BY <1>1, <1>2, <1>3, <1>4, <1>5, <1>6, <1>7, ZenonT(60)

\* gLinks, gBundles, the pointers between links and bundles and the counts of children
\* tell the truth after every command, message and event, but for what a bundle knows
\* of a link that another bundle has taken.
THEOREM TablesAlwaysCurrent == Spec => []TablesAreCurrent
BY ConInvAlways, TablesFollow, PTL

\* Only a context that goes on with what is dead meets the assertion of MsgSend(), shuts
\* down again or reads what was freed; messages, devices and LCP break nothing but at the
\* slot of a bundle, and there only where two bundles have dialled one link.
THEOREM FailsAlwaysOnlyOnTheDead == Spec => []FailsOnlyOnTheDead
<1>1. ConInv => FailsOnlyOnTheDead
  BY DEF ConInv
<1> QED
  BY <1>1, ConInvAlways, PTL

=============================================================================
