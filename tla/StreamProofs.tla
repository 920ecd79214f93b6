---------------------------- MODULE StreamProofs ----------------------------
(***************************************************************************)
(* Frames that are encrypted, or only carried, are not garbled             *)
(* (DeliveredIntact of Stream), for every number of sequence numbers, of   *)
(* losses and of frames on their way.                                      *)
(***************************************************************************)
EXTENDS Stream, SequenceTheorems, TLAPS

----------------------------------------------------------------------------
(* Remainders. *)

\* A number is so many times the divisor and a remainder.
LEMMA Quotient ==
  ASSUME NEW M \in Nat \ {0}, NEW a \in Int
  PROVE  a % M \in 0 .. M - 1 /\ a \div M \in Int /\ a = M * (a \div M) + (a % M)
  OBVIOUS

\* Only one number below the divisor is the remainder.
LEMMA RemainderUnique ==
  ASSUME NEW M \in Nat \ {0}, NEW k \in Int, NEW r \in 0 .. M - 1
  PROVE  (M * k + r) % M = r
<1> DEFINE a == M * k + r
           d == k - (a \div M)
<1>1. a \in Int
  OBVIOUS
<1>2. a % M \in 0 .. M - 1 /\ a \div M \in Int /\ a = M * (a \div M) + (a % M)
  BY <1>1, Quotient
<1>3. d \in Int /\ M * d = (a % M) - r
  BY <1>2
<1>4. ~ d >= 1
  <2>1. SUFFICES ASSUME d >= 1 PROVE M * d >= M
    BY <1>2, <1>3
  <2>2. M * (d - 1) >= 0
    BY <1>3, <2>1
  <2>3. QED
    BY <1>3, <2>2
<1>5. ~ d <= -1
  <2>1. SUFFICES ASSUME d <= -1 PROVE M * d <= - M
    BY <1>2, <1>3
  <2>2. M * (d + 1) <= 0
    BY <1>3, <2>1
  <2>3. QED
    BY <1>3, <2>2
<1>6. d = 0
  BY <1>3, <1>4, <1>5
<1>7. QED
  BY <1>3, <1>6, <1>2

\* A remainder can stand for the number under the same divisor.
LEMMA RemainderOfSum ==
  ASSUME NEW M \in Nat \ {0}, NEW a \in Nat, NEW b \in Nat
  PROVE  ((a % M) + b) % M = (a + b) % M
<1> DEFINE s == (a % M) + b
<1>1. a % M \in 0 .. M - 1 /\ a \div M \in Int /\ a = M * (a \div M) + (a % M)
  BY Quotient
<1>2. s \in Int
  BY <1>1
<1>3. s % M \in 0 .. M - 1 /\ s \div M \in Int /\ s = M * (s \div M) + (s % M)
  BY <1>2, Quotient
<1> DEFINE k == (a \div M) + (s \div M)
<1>4. k \in Int /\ a + b = M * k + (s % M)
  BY <1>1, <1>3
<1> HIDE DEF k, s
<1>5. (M * k + (s % M)) % M = s % M
  BY <1>3, <1>4, RemainderUnique
<1>6. QED
  BY <1>4, <1>5 DEF s

\* Nor does a divisor of the divisor see the difference.
LEMMA RemainderOfMultiple ==
  ASSUME NEW M \in Nat \ {0}, NEW S \in Nat \ {0}, M % S = 0, NEW a \in Nat
  PROVE  (a % M) % S = a % S
<1> DEFINE r == a % M
           k == M \div S
<1>1. k \in Int /\ M = S * k
  BY Quotient
<1>2. r \in 0 .. M - 1 /\ a \div M \in Int /\ a = M * (a \div M) + r
  BY Quotient
<1>3. r % S \in 0 .. S - 1 /\ r \div S \in Int /\ r = S * (r \div S) + (r % S)
  BY <1>2, Quotient
<1> DEFINE u == a \div M
           v == r \div S
           j == k * u + v
<1>4. j \in Int /\ a = S * j + (r % S)
  <2>1. k \in Int /\ u \in Int /\ v \in Int /\ r % S \in Int
    BY <1>1, <1>2, <1>3
  <2>2. a = M * u + r /\ r = S * v + (r % S) /\ M = S * k
    BY <1>1, <1>2, <1>3
  <2> HIDE DEF k, u, v, r
  <2>3. M * u = S * (k * u)
    BY <2>1, <2>2
  <2>4. S * j = S * (k * u) + S * v
    BY <2>1
  <2>5. QED
    BY <2>1, <2>2, <2>3, <2>4
<1> HIDE DEF j, k, r
<1>5. (S * j + (r % S)) % S = r % S
  BY <1>3, <1>4, RemainderUnique
<1>6. QED
  BY <1>4, <1>5 DEF r

\* A number and a later one with the same remainder are at least the divisor apart.
LEMMA SameRemainder ==
  ASSUME NEW S \in Nat \ {0}, NEW a \in Nat, NEW g \in Nat, (a + g) % S = a % S, g # 0
  PROVE  g >= S
<1>1. a % S \in 0 .. S - 1 /\ a \div S \in Int /\ a = S * (a \div S) + (a % S)
  BY Quotient
<1>2. (a + g) \div S \in Int /\ a + g = S * ((a + g) \div S) + (a % S)
  BY Quotient, a + g \in Int
<1> DEFINE d == ((a + g) \div S) - (a \div S)
<1>3. d \in Int /\ S * d = g
  BY <1>1, <1>2
<1> HIDE DEF d
<1>4. d >= 1
  BY <1>3
<1>5. S * (d - 1) >= 0
  BY <1>3, <1>4
<1>6. QED
  BY <1>3, <1>5

----------------------------------------------------------------------------
(* Sizes. *)

\* A size is so many blocks and a rest.
LEMMA Blocks8 ==
  ASSUME NEW n \in Int
  PROVE  \E k \in Int, r \in 0 .. 7 : n = 8 * k + r
<1>1. n \div 8 \in Int /\ n % 8 \in 0 .. 7 /\ n = 8 * (n \div 8) + (n % 8)
  OBVIOUS
<1>2. QED
  BY <1>1

\* The padding fills the last block or is none at all.
LEMMA PaddingFills ==
  ASSUME NEW k \in Int, NEW r \in 0 .. 7, NEW x \in 0 .. 9
  PROVE  BisPadding(8 * k + r, x) = IF r # 0 THEN 8 - r ELSE IF x = 0 \/ x > 8 THEN 0 ELSE 8
<1>1. (8 * k + r) % 8 = r
  OBVIOUS
<1>2. QED
  BY <1>1 DEF BisPadding

\* DESE-bis takes off what it put on.
LEMMA PaddingStripped ==
  ASSUME NEW n \in Int, NEW x \in 0 .. 9
  PROVE  BisStripped(n, x) = n
<1>1. \/ BisPadding(n, x) = 0 /\ x \notin 1 .. 8
      \/ BisPadding(n, x) \in 1 .. 8
  <2>1. n % 8 \in 0 .. 7
    OBVIOUS
  <2>2. QED
    BY <2>1 DEF BisPadding
<1>2. QED
  BY <1>1 DEF BisStripped

\* A block more or less.
LEMMA WholeBlocks ==
  ASSUME NEW w \in Int, NEW t \in 0 .. 7
  PROVE  (8 * w + t) \div 8 = w /\ (8 * w + t) % 8 = t
  OBVIOUS

\* What ECP leaves of a size: whole blocks, without its header and, for DESE-bis, an octet.
LEMMA EcpLeaves ==
  ASSUME NEW w \in Int, NEW t \in 0 .. 7, NEW size \in Int, size = 8 * w + t + 2
  PROVE  /\ mode.enc = "dese" => EcpSubtractBloat(size) = 8 * w - 2
         /\ mode.enc = "dese-bis" => EcpSubtractBloat(size) = 8 * w - 3
<1>1. (size - DES_OVERHEAD) \div 8 = w
  <2>1. size - DES_OVERHEAD = 8 * w + t
    BY DEF DES_OVERHEAD
  <2>2. QED
    BY <2>1, WholeBlocks
<1>2. QED
  BY <1>1 DEF EcpSubtractBloat, ECP_OVERHEAD

\* What ECP makes of a frame that, with its header, is so many blocks and a rest.
LEMMA EcpMakes ==
  ASSUME NEW w \in Int, NEW t \in 1 .. 7, NEW x \in 0 .. 9, NEW n \in Int, n = 8 * w + t - 2,
         mode.enc \in {"dese", "dese-bis"}
  PROVE  Encrypted(n, x) = 8 * (w + 1) + 2
<1>1. CASE mode.enc = "dese"
  <2>1. n + ECP_OVERHEAD + 7 = 8 * (w + 1) + (t - 1) /\ t - 1 \in 0 .. 7 /\ w + 1 \in Int
    BY DEF ECP_OVERHEAD
  <2>2. (n + ECP_OVERHEAD + 7) \div 8 = w + 1
    BY <2>1, WholeBlocks
  <2>3. QED
    BY <1>1, <2>2 DEF Encrypted, DES_OVERHEAD
<1>2. CASE mode.enc = "dese-bis"
  <2>1. n + ECP_OVERHEAD = 8 * w + t
    BY DEF ECP_OVERHEAD
  <2>2. BisPadding(n + ECP_OVERHEAD, x) = 8 - t
    BY <2>1, PaddingFills
  <2>3. QED
    BY <1>2, <2>1, <2>2 DEF Encrypted, DES_OVERHEAD
<1>3. QED
  BY <1>1, <1>2

\* Of the sizes that the peer can receive, the frames fit into all but those that FramesFit
\* names.
LEMMA SizesFit ==
  ASSUME mode \in Modes
  PROVE  FramesFit
<1>1. mode.comp \in {"none", "pred1", "deflate", "mppc"} /\ mode.enc \in {"none", "dese", "dese-bis"}
  BY StreamAssumption
<1> SUFFICES ASSUME NEW n \in Mrus, NEW x \in 0 .. 9
             PROVE  Encrypted(Compressed(BundUpdateParams(n)), x) > n <=>
                      n % 8 \in CASE mode.enc = "none" \/ mode.comp \in {"none", "deflate"} -> {}
                                  [] mode.enc # "none" /\ mode.comp = "pred1" -> {0, 1}
                                  [] mode.enc # "none" /\ mode.comp = "mppc"  -> {0, 1, 6, 7}
  BY DEF FramesFit
<1>2. n \in Int
  BY StreamAssumption
<1> DEFINE e == Encrypted(Compressed(BundUpdateParams(n)), x)
<1>3. CASE mode.enc = "none"
  <2>1. e = n
    BY <1>1, <1>2, <1>3 DEF Encrypted, Compressed, BundUpdateParams, EcpSubtractBloat, CcpSubtractBloat,
       CCP_OVERHEAD
  <2> HIDE DEF e
  <2>2. ~ e > n
    BY <1>2, <2>1
  <2>3. QED
    BY <1>3, <2>2 DEF e
<1>4. CASE mode.enc # "none" /\ mode.comp \in {"none", "deflate"}
  <2>1. n - 2 \in Int
    BY <1>2
  <2>2. PICK w \in Int, t \in 0 .. 7 : n - 2 = 8 * w + t
    BY <2>1, Blocks8
  <2>3. CcpSubtractBloat(n) = n /\ Compressed(BundUpdateParams(n)) = BundUpdateParams(n)
    BY <1>2, <1>4 DEF CcpSubtractBloat, Compressed, CCP_OVERHEAD
  <2>4. n \in Int /\ n = 8 * w + t + 2
    BY <1>2, <2>2
  <2>5. e = 8 * w + 2
    <3>1. CASE mode.enc = "dese"
      <4>1. BundUpdateParams(n) = 8 * w - 2
        BY <2>3, <2>4, <3>1, EcpLeaves DEF BundUpdateParams
      <4>2. (8 * w - 2 + ECP_OVERHEAD + 7) \div 8 = w
        <5>1. 8 * w - 2 + ECP_OVERHEAD + 7 = 8 * w + 7
          BY DEF ECP_OVERHEAD
        <5>2. QED
          BY <5>1, WholeBlocks
      <4>3. QED
        BY <2>3, <3>1, <4>1, <4>2 DEF Encrypted, DES_OVERHEAD
    <3>2. CASE mode.enc = "dese-bis"
      <4>1. BundUpdateParams(n) = 8 * w - 3
        BY <2>3, <2>4, <3>2, EcpLeaves DEF BundUpdateParams
      <4>2. PICK v \in Int : w = v + 1
        <5>1. w - 1 \in Int /\ w = w - 1 + 1
          OBVIOUS
        <5>2. QED
          BY <5>1
      <4>3. 8 * w - 3 = 8 * v + 7 - 2 /\ 7 \in 1 .. 7 /\ 8 * w - 3 \in Int
        BY <4>2
      <4>4. Encrypted(8 * w - 3, x) = 8 * (v + 1) + 2
        BY <3>2, <4>3, EcpMakes
      <4>5. QED
        BY <2>3, <4>1, <4>2, <4>4
    <3>3. QED
      BY <1>1, <1>4, <3>1, <3>2
  <2> HIDE DEF e
  <2>6. ~ e > n
    BY <2>4, <2>5
  <2>7. QED
    BY <1>4, <2>6 DEF e
<1>5. CASE mode.enc # "none" /\ mode.comp = "pred1"
  <2>1. n - 8 \in Int
    BY <1>2
  <2>2. PICK w \in Int, t \in 0 .. 7 : n - 8 = 8 * w + t
    BY <2>1, Blocks8
  <2>3. CcpSubtractBloat(n) = n - 6
    BY <1>2, <1>5 DEF CcpSubtractBloat, CCP_OVERHEAD
  <2>4. PICK d \in {2, 3} : BundUpdateParams(n) = 8 * w - d
    <3>1. n - 6 \in Int /\ n - 6 = 8 * w + t + 2
      BY <1>2, <2>2
    <3>2. QED
      BY <1>1, <1>5, <2>3, <3>1, EcpLeaves DEF BundUpdateParams
  <2>5. e = 8 * (w + 1) + 2
    <3>1. Compressed(BundUpdateParams(n)) = 8 * w + (8 - d) - 2
      BY <1>5, <2>4 DEF Compressed, CCP_OVERHEAD
    <3>2. 8 - d \in 1 .. 7 /\ 8 * w + (8 - d) - 2 \in Int
      OBVIOUS
    <3>3. QED
      BY <1>1, <1>5, <3>1, <3>2, EcpMakes
  <2> HIDE DEF e
  <2>6. n = 8 * (w + 1) + t /\ w + 1 \in Int
    BY <1>2, <2>2
  <2>7. e > n <=> t \in {0, 1}
    BY <2>5, <2>6
  <2>8. n % 8 = t
    BY <2>6, WholeBlocks
  <2>9. QED
    BY <1>5, <2>7, <2>8 DEF e
<1>6. CASE mode.enc # "none" /\ mode.comp = "mppc"
  <2>1. n - 6 \in Int
    BY <1>2
  <2>2. PICK w \in Int, t \in 0 .. 7 : n - 6 = 8 * w + t
    BY <2>1, Blocks8
  <2>3. CcpSubtractBloat(n) = n - 4
    BY <1>2, <1>6 DEF CcpSubtractBloat, CCP_OVERHEAD
  <2>4. PICK d \in {2, 3} : BundUpdateParams(n) = 8 * w - d
    <3>1. n - 4 \in Int /\ n - 4 = 8 * w + t + 2
      BY <1>2, <2>2
    <3>2. QED
      BY <1>1, <1>6, <2>3, <3>1, EcpLeaves DEF BundUpdateParams
  <2>5. e = 8 * (w + 1) + 2
    <3>1. Compressed(BundUpdateParams(n)) = 8 * w + (6 - d) - 2
      BY <1>6, <2>4 DEF Compressed, CCP_OVERHEAD
    <3>2. 6 - d \in 1 .. 7 /\ 8 * w + (6 - d) - 2 \in Int
      OBVIOUS
    <3>3. QED
      BY <1>1, <1>6, <3>1, <3>2, EcpMakes
  <2> HIDE DEF e
  <2>6. n = 8 * w + t + 6
    BY <1>2, <2>2
  <2>7. e > n <=> t \in 0 .. 3
    BY <2>5, <2>6
  <2>8. t \in 0 .. 3 <=> n % 8 \in {0, 1, 6, 7}
    <3>1. CASE t \in 0 .. 1
      <4>1. n = 8 * w + (t + 6) /\ t + 6 \in 0 .. 7
        BY <2>6, <3>1
      <4>2. n % 8 = t + 6
        BY <4>1, WholeBlocks
      <4>3. QED
        BY <3>1, <4>2
    <3>2. CASE t \in 2 .. 7
      <4>1. n = 8 * (w + 1) + (t - 2) /\ t - 2 \in 0 .. 7 /\ w + 1 \in Int
        BY <2>6, <3>2
      <4>2. n % 8 = t - 2
        BY <4>1, WholeBlocks
      <4>3. QED
        BY <3>2, <4>2
    <3>3. QED
      BY <3>1, <3>2
  <2>9. QED
    BY <1>6, <2>7, <2>8 DEF e
<1>7. QED
  BY <1>1, <1>3, <1>4, <1>5, <1>6

----------------------------------------------------------------------------
(* The numbers of the frames that are on their way. *)

\* A frame as it is when it is not compressed, encrypted or on the link, and received.
Bodies   == [comp : {FALSE}, fcs : Frames, flags : {<< >>}, lits : Frames, good : {TRUE},
             flush : {FALSE}, epoch : 0 .. 3]
Sent     == [type : {"data"}, n : 0 .. Blocks - 1, body : Bodies]
Received == [n : 0 .. Blocks - 1, body : Bodies, gap : Nat]
Queues   == [ecpOut : Seq(Bodies), wire : Seq(Sent), ecpIn : Seq(Received),
             ccpIn : {<< >>}, ackIn : {<< >>}, node : {<< >>}, reqs : {<< >>}]

\* What is there when the frames are not compressed.
PlainTyped ==
  /\ snd \in [codec : {Fresh}, n : 0 .. Blocks - 1, flush : {FALSE}]
  /\ rcv \in [codec : {Fresh}, seq : 0 .. SeqNums - 1, ivec : 0 .. Blocks - 1]
  /\ q \in Queues
  /\ trace \in Trace
  /\ mode.enc = "none" => q.ecpOut = << >> /\ q.ecpIn = << >>

\* The number after n when gap frames are lost in between.
After(n, gap) == (n + gap + 1) % Blocks

\* The last number in s, or n; the number that comes after those on the link, or m.
LastIn(s, n)   == IF s = << >> THEN n ELSE s[Len(s)].n
Upcoming(s, m) == IF s = << >> THEN m ELSE After(s[Len(s)].n, 0)

\* Frames that are received have the numbers after n, but for those lost before each;
\* frames on the link have the numbers from m.
InChain(s, n) ==
  \A i \in 1 .. Len(s) : s[i].n = After(IF i = 1 THEN n ELSE s[i - 1].n, s[i].gap)
WireChain(s, m) ==
  \A i \in 1 .. Len(s) : s[i].n = IF i = 1 THEN m ELSE After(s[i - 1].n, 0)

FirstSent == After(LastIn(q.ecpIn, rcv.ivec), trace.missed)

\* The numbers of all frames between the two ends, and of the next.
Chained ==
  /\ rcv.seq = (rcv.ivec + 1) % SeqNums
  /\ InChain(q.ecpIn, rcv.ivec)
  /\ WireChain(q.wire, FirstSent)
  /\ snd.n = Upcoming(q.wire, FirstSent)

\* Only frames that are not compressed reach the top garbled, and if their numbers are in a
\* chain, only when so many are lost that the number of the first received is the expected.
IntactInv ==
  /\ mode \in Modes
  /\ up = "garbled" => mode.comp = "none" /\ trace.gap >= SeqNums
  /\ mode.comp = "none" => PlainTyped /\ (mode.enc # "none" => Chained)

\* The numbers are numbers of blocks.
LEMMA AfterTyped ==
  ASSUME NEW n \in Nat, NEW gap \in Nat PROVE After(n, gap) \in 0 .. Blocks - 1
  BY StreamAssumption, Quotient DEF After

\* One more frame lost is one number further.
LEMMA AfterLost ==
  ASSUME NEW n \in Nat, NEW gap \in Nat PROVE After(After(n, gap), 0) = After(n, gap + 1)
<1>1. n + gap + 1 \in Nat /\ 1 \in Nat /\ Blocks \in Nat \ {0}
  BY StreamAssumption
<1>2. (((n + gap + 1) % Blocks) + 1) % Blocks = (n + gap + 1 + 1) % Blocks
  BY <1>1, RemainderOfSum
<1>3. (n + gap + 1) % Blocks \in Nat
  BY <1>1, Quotient
<1> DEFINE m == (n + gap + 1) % Blocks
<1>4. m + 0 + 1 = m + 1 /\ n + (gap + 1) + 1 = n + gap + 1 + 1
  BY <1>3
<1>5. QED
  BY <1>2, <1>4 DEF After

\* A frame put on the link has the next number.
LEMMA WireAppend ==
  ASSUME NEW s \in Seq(Sent), NEW m, NEW e \in Sent, WireChain(s, m), e.n = Upcoming(s, m)
  PROVE  WireChain(Append(s, e), m) /\ Upcoming(Append(s, e), m) = After(e.n, 0)
<1>1. /\ Append(s, e) \in Seq(Sent) /\ Len(Append(s, e)) = Len(s) + 1 /\ Len(s) \in Nat
      /\ \A i \in 1 .. Len(s) : Append(s, e)[i] = s[i]
      /\ Append(s, e)[Len(s) + 1] = e
  BY AppendProperties, LenProperties
<1>2. Append(s, e) # << >>
  BY <1>1, EmptySeq
<1>3. Upcoming(Append(s, e), m) = After(e.n, 0)
  BY <1>1, <1>2 DEF Upcoming
<1>4. ASSUME NEW i \in 1 .. Len(s) + 1
      PROVE  Append(s, e)[i].n = IF i = 1 THEN m ELSE After(Append(s, e)[i - 1].n, 0)
  <2>1. CASE i <= Len(s)
    BY <1>1, <2>1 DEF WireChain
  <2>2. CASE i = Len(s) + 1 /\ Len(s) = 0
    BY <1>1, <2>2, EmptySeq DEF Upcoming
  <2>3. CASE i = Len(s) + 1 /\ Len(s) # 0
    <3>1. s # << >>
      BY <2>3
    <3>2. i - 1 = Len(s) /\ Len(s) \in 1 .. Len(s) /\ i # 1
      BY <1>1, <2>3
    <3>3. Append(s, e)[i] = e /\ Append(s, e)[i - 1] = s[Len(s)]
      BY <1>1, <2>3, <3>2
    <3>4. QED
      BY <3>1, <3>2, <3>3 DEF Upcoming
  <2>4. QED
    BY <1>1, <2>1, <2>2, <2>3
<1>5. QED
  BY <1>1, <1>3, <1>4 DEF WireChain

\* The first frame leaves the link, received or lost.
LEMMA WireTail ==
  ASSUME NEW s \in Seq(Sent), NEW m, s # << >>, WireChain(s, m)
  PROVE  /\ Head(s).n = m
         /\ WireChain(Tail(s), After(m, 0))
         /\ Upcoming(Tail(s), After(m, 0)) = Upcoming(s, m)
<1>1. /\ Head(s) = s[1] /\ Tail(s) \in Seq(Sent) /\ Len(Tail(s)) = Len(s) - 1
      /\ Len(s) \in Nat \ {0}
      /\ \A i \in 1 .. Len(Tail(s)) : Tail(s)[i] = s[i + 1]
  BY HeadTailProperties, EmptySeq
<1>2. s[1].n = m
  BY <1>1 DEF WireChain
<1>3. ASSUME NEW i \in 1 .. Len(Tail(s))
      PROVE  Tail(s)[i].n = IF i = 1 THEN After(m, 0) ELSE After(Tail(s)[i - 1].n, 0)
  <2>1. Tail(s)[i] = s[i + 1] /\ i + 1 \in 1 .. Len(s) /\ i + 1 # 1 /\ i + 1 - 1 = i
    BY <1>1
  <2>2. s[i + 1].n = After(s[i].n, 0)
    BY <2>1 DEF WireChain
  <2>3. i # 1 => Tail(s)[i - 1] = s[i]
    BY <1>1
  <2>4. QED
    BY <1>2, <2>1, <2>2, <2>3
<1>4. Upcoming(Tail(s), After(m, 0)) = Upcoming(s, m)
  <2>1. CASE Len(s) = 1
    <3>1. Len(Tail(s)) = 0 /\ s[Len(s)] = s[1]
      BY <1>1, <2>1
    <3>2. Tail(s) = << >>
      BY <1>1, <3>1, EmptySeq
    <3>3. QED
      BY <1>2, <3>1, <3>2 DEF Upcoming
  <2>2. CASE Len(s) # 1
    <3>1. Tail(s) # << >> /\ Tail(s)[Len(Tail(s))] = s[Len(s)]
      BY <1>1, <2>2, EmptySeq
    <3>2. QED
      BY <3>1 DEF Upcoming
  <2>3. QED
    BY <2>1, <2>2
<1>5. QED
  BY <1>1, <1>2, <1>3, <1>4 DEF WireChain

\* A frame is received.
LEMMA InAppend ==
  ASSUME NEW s \in Seq(Received), NEW n, NEW e \in Received, InChain(s, n),
         e.n = After(LastIn(s, n), e.gap)
  PROVE  InChain(Append(s, e), n) /\ LastIn(Append(s, e), n) = e.n
<1>1. /\ Append(s, e) \in Seq(Received) /\ Len(Append(s, e)) = Len(s) + 1 /\ Len(s) \in Nat
      /\ \A i \in 1 .. Len(s) : Append(s, e)[i] = s[i]
      /\ Append(s, e)[Len(s) + 1] = e
  BY AppendProperties, LenProperties
<1>2. Append(s, e) # << >>
  BY <1>1, EmptySeq
<1>3. LastIn(Append(s, e), n) = e.n
  BY <1>1, <1>2 DEF LastIn
<1>4. ASSUME NEW i \in 1 .. Len(s) + 1
      PROVE  Append(s, e)[i].n =
               After(IF i = 1 THEN n ELSE Append(s, e)[i - 1].n, Append(s, e)[i].gap)
  <2>1. CASE i <= Len(s)
    BY <1>1, <2>1 DEF InChain
  <2>2. CASE i = Len(s) + 1 /\ Len(s) = 0
    BY <1>1, <2>2, EmptySeq DEF LastIn
  <2>3. CASE i = Len(s) + 1 /\ Len(s) # 0
    <3>1. s # << >>
      BY <2>3
    <3>2. i - 1 = Len(s) /\ Len(s) \in 1 .. Len(s) /\ i # 1
      BY <1>1, <2>3
    <3>3. Append(s, e)[i] = e /\ Append(s, e)[i - 1] = s[Len(s)]
      BY <1>1, <2>3, <3>2
    <3>4. QED
      BY <3>1, <3>2, <3>3 DEF LastIn
  <2>4. QED
    BY <1>1, <2>1, <2>2, <2>3
<1>5. QED
  BY <1>1, <1>3, <1>4 DEF InChain

\* The first of the received frames is decrypted, or dropped.
LEMMA InTail ==
  ASSUME NEW s \in Seq(Received), NEW n, s # << >>, InChain(s, n)
  PROVE  /\ Head(s).n = After(n, Head(s).gap)
         /\ InChain(Tail(s), Head(s).n)
         /\ LastIn(Tail(s), Head(s).n) = LastIn(s, n)
<1>1. /\ Head(s) = s[1] /\ Tail(s) \in Seq(Received) /\ Len(Tail(s)) = Len(s) - 1
      /\ Len(s) \in Nat \ {0}
      /\ \A i \in 1 .. Len(Tail(s)) : Tail(s)[i] = s[i + 1]
  BY HeadTailProperties, EmptySeq
<1>2. s[1].n = After(n, s[1].gap)
  BY <1>1 DEF InChain
<1>3. ASSUME NEW i \in 1 .. Len(Tail(s))
      PROVE  Tail(s)[i].n = After(IF i = 1 THEN s[1].n ELSE Tail(s)[i - 1].n, Tail(s)[i].gap)
  <2>1. Tail(s)[i] = s[i + 1] /\ i + 1 \in 1 .. Len(s) /\ i + 1 # 1 /\ i + 1 - 1 = i
    BY <1>1
  <2>2. s[i + 1].n = After(s[i].n, s[i + 1].gap)
    BY <2>1 DEF InChain
  <2>3. i # 1 => Tail(s)[i - 1] = s[i]
    BY <1>1
  <2>4. QED
    BY <2>1, <2>2, <2>3
<1>4. LastIn(Tail(s), s[1].n) = LastIn(s, n)
  <2>1. CASE Len(s) = 1
    <3>1. Len(Tail(s)) = 0 /\ s[Len(s)] = s[1]
      BY <1>1, <2>1
    <3>2. Tail(s) = << >>
      BY <1>1, <3>1, EmptySeq
    <3>3. QED
      BY <3>1, <3>2 DEF LastIn
  <2>2. CASE Len(s) # 1
    <3>1. Tail(s) # << >> /\ Tail(s)[Len(Tail(s))] = s[Len(s)]
      BY <1>1, <2>2, EmptySeq
    <3>2. QED
      BY <3>1 DEF LastIn
  <2>3. QED
    BY <2>1, <2>2
<1>5. QED
  BY <1>1, <1>2, <1>3, <1>4 DEF InChain

----------------------------------------------------------------------------
(* Frames that are not compressed: the steps. *)

\* The interface sends a frame.
LEMMA OutputKeeps ==
  ASSUME IntactInv, mode.comp = "none", NEW f \in Frames, CcpDataOutput(f)
  PROVE  PlainTyped' /\ (mode.enc # "none" => Chained')
<1> DEFINE b == [comp |-> FALSE, fcs |-> f, flags |-> << >>, lits |-> f, good |-> TRUE,
                 flush |-> snd.flush, epoch |-> trace.epoch]
           e == [type |-> "data", n |-> 0, body |-> b]
<1>1. PlainTyped /\ (mode.enc # "none" => Chained)
  BY DEF IntactInv
<1>2. /\ snd' = [snd EXCEPT !.codec = snd.codec, !.flush = FALSE]
      /\ q' = IF mode.enc = "none" THEN [q EXCEPT !.wire = Append(q.wire, e)]
                                   ELSE [q EXCEPT !.ecpOut = Append(@, b)]
      /\ UNCHANGED << mode, rcv, up, losses, trace >>
  BY DEF CcpDataOutput, Wire
<1>3. b \in Bodies
  BY <1>1 DEF PlainTyped, Bodies, Trace
<1>4. e \in Sent
  BY <1>3, StreamAssumption DEF Sent
<1> HIDE DEF b, e
<1>5. snd' = snd
  BY <1>1, <1>2 DEF PlainTyped
<1>6. q' \in Queues /\ (mode.enc = "none" => q'.ecpOut = q.ecpOut /\ q'.ecpIn = q.ecpIn)
  BY <1>1, <1>2, <1>3, <1>4, AppendProperties DEF PlainTyped, Queues
<1>7. PlainTyped'
  BY <1>1, <1>2, <1>5, <1>6 DEF PlainTyped
<1>8. ASSUME mode.enc # "none" PROVE Chained'
  <2>1. q'.wire = q.wire /\ q'.ecpIn = q.ecpIn
    BY <1>1, <1>2, <1>8 DEF PlainTyped, Queues
  <2>2. Chained
    BY <1>1, <1>8
  <2>3. QED
    BY <1>2, <1>5, <2>1, <2>2 DEF Chained, FirstSent
<1>9. QED
  BY <1>7, <1>8

\* A frame is encrypted and gets the next number.
LEMMA EncryptKeeps ==
  ASSUME IntactInv, mode.comp = "none", DesEncrypt
  PROVE  PlainTyped' /\ (mode.enc # "none" => Chained')
<1> DEFINE e == [type |-> "data", n |-> snd.n, body |-> Head(q.ecpOut)]
<1>1. PlainTyped /\ (mode.enc # "none" => Chained)
  BY DEF IntactInv
<1>2. /\ q.ecpOut # << >>
      /\ q' = [q EXCEPT !.ecpOut = Tail(@), !.wire = Append(q.wire, e)]
      /\ snd' = [snd EXCEPT !.n = (@ + 1) % Blocks]
      /\ UNCHANGED << mode, rcv, up, losses, trace >>
  BY DEF DesEncrypt, Wire
<1>3. q.ecpOut \in Seq(Bodies) /\ q.wire \in Seq(Sent) /\ q \in Queues
  BY <1>1 DEF PlainTyped, Queues
<1>4. Head(q.ecpOut) \in Bodies /\ Tail(q.ecpOut) \in Seq(Bodies)
  BY <1>2, <1>3, HeadTailProperties
<1>5. e \in Sent /\ e.n = snd.n /\ snd.n \in 0 .. Blocks - 1
  BY <1>1, <1>4 DEF Sent, PlainTyped
<1> HIDE DEF e
<1>6. /\ q' \in Queues /\ q'.wire = Append(q.wire, e) /\ q'.ecpIn = q.ecpIn
      /\ mode.enc # "none"
  <2>1. Append(q.wire, e) \in Seq(Sent)
    BY <1>3, <1>5, AppendProperties
  <2>2. QED
    BY <1>1, <1>2, <1>3, <1>4, <2>1 DEF PlainTyped, Queues
<1>7. snd' \in [codec : {Fresh}, n : 0 .. Blocks - 1, flush : {FALSE}] /\ snd'.n = After(snd.n, 0)
  <2>1. After(snd.n, 0) \in 0 .. Blocks - 1 /\ After(snd.n, 0) = (snd.n + 1) % Blocks
    <3>1. snd.n \in Nat /\ snd.n + 0 + 1 = snd.n + 1
      BY <1>5
    <3>2. QED
      BY <3>1, AfterTyped DEF After
  <2>2. QED
    BY <1>1, <1>2, <2>1 DEF PlainTyped
<1>8. PlainTyped'
  BY <1>1, <1>2, <1>6, <1>7 DEF PlainTyped
<1>9. Chained'
  <2>1. WireChain(q.wire, FirstSent) /\ snd.n = Upcoming(q.wire, FirstSent)
    BY <1>1, <1>6 DEF Chained
  <2>2. /\ WireChain(Append(q.wire, e), FirstSent)
        /\ Upcoming(Append(q.wire, e), FirstSent) = After(snd.n, 0)
    BY <1>3, <1>5, <2>1, WireAppend
  <2>3. FirstSent' = FirstSent
    BY <1>2, <1>6 DEF FirstSent
  <2>4. QED
    BY <1>1, <1>2, <1>6, <1>7, <2>2, <2>3 DEF Chained
<1>10. QED
  BY <1>8, <1>9

\* What is known of the frame that leaves the link.
LEMMA OnTheLink ==
  ASSUME PlainTyped, q.wire # << >>
  PROVE  /\ Head(q.wire) \in Sent /\ Tail(q.wire) \in Seq(Sent)
         /\ Head(q.wire).body \in Bodies /\ Head(q.wire).type = "data"
         /\ [q EXCEPT !.wire = Tail(@)] \in Queues
<1>1. q \in Queues /\ q.wire \in Seq(Sent)
  BY DEF PlainTyped, Queues
<1>2. Head(q.wire) \in Sent /\ Tail(q.wire) \in Seq(Sent)
  BY <1>1, HeadTailProperties
<1>3. QED
  BY <1>1, <1>2 DEF Queues, Sent

\* The numbers are a type of their own.
LEMMA LastTyped ==
  ASSUME PlainTyped
  PROVE  LastIn(q.ecpIn, rcv.ivec) \in Nat /\ trace.missed \in Nat
<1>1. q.ecpIn \in Seq(Received) /\ rcv.ivec \in Nat /\ trace.missed \in Nat
  BY StreamAssumption DEF PlainTyped, Queues, Trace
<1>2. CASE q.ecpIn = << >>
  BY <1>1, <1>2 DEF LastIn
<1>3. CASE q.ecpIn # << >>
  <2>1. Len(q.ecpIn) \in 1 .. Len(q.ecpIn)
    BY <1>1, <1>3, EmptySeq
  <2>2. q.ecpIn[Len(q.ecpIn)] \in Received
    BY <1>1, <2>1, ElementOfSeq
  <2>3. q.ecpIn[Len(q.ecpIn)].n \in Nat
    BY <2>2, StreamAssumption DEF Received
  <2>4. QED
    BY <1>1, <1>3, <2>3 DEF LastIn
<1>4. QED
  BY <1>1, <1>2, <1>3

\* The link loses a frame: the next one comes one number later.
LEMMA LoseKeeps ==
  ASSUME IntactInv, mode.comp = "none", LoseData
  PROVE  PlainTyped' /\ (mode.enc # "none" => Chained')
<1>1. PlainTyped /\ (mode.enc # "none" => Chained)
  BY DEF IntactInv
<1>2. q.wire # << >>
  BY DEF LoseData
<1>3. /\ Head(q.wire) \in Sent /\ Tail(q.wire) \in Seq(Sent)
      /\ Head(q.wire).body \in Bodies /\ Head(q.wire).type = "data"
      /\ [q EXCEPT !.wire = Tail(@)] \in Queues
  BY <1>1, <1>2, OnTheLink
<1>4. /\ q' = [q EXCEPT !.wire = Tail(@)]
      /\ trace' = [trace EXCEPT !.missed = @ + 1, !.upset = TRUE,
                                !.seen = @ \cup {Head(q.wire).body.epoch}]
      /\ UNCHANGED << mode, snd, rcv, up >>
  <2>1. trace' = Lost(Head(q.wire).body, [trace EXCEPT !.missed = @ + 1])
    BY <1>3 DEF LoseData
  <2>2. QED
    BY <1>1, <2>1 DEF LoseData, Lost, PlainTyped, Trace
<1>5. trace' \in Trace /\ trace'.missed = trace.missed + 1
  <2> DEFINE seen == trace.seen \cup {Head(q.wire).body.epoch}
             missed == trace.missed + 1
  <2>1. Head(q.wire).body.epoch \in 0 .. 3 /\ trace.seen \in SUBSET (0 .. 3)
    BY <1>1, <1>3 DEF Bodies, PlainTyped, Trace
  <2>2. seen \in SUBSET (0 .. 3) /\ missed \in Nat
    BY <1>1, <2>1 DEF PlainTyped, Trace
  <2>3. trace' = [trace EXCEPT !.missed = missed, !.upset = TRUE, !.seen = seen]
    BY <1>4
  <2>4. missed = trace.missed + 1
    OBVIOUS
  <2> HIDE DEF seen, missed
  <2>5. QED
    BY <1>1, <2>2, <2>3, <2>4 DEF PlainTyped, Trace
<1>6. /\ q' \in Queues /\ q'.wire = Tail(q.wire) /\ q'.ecpIn = q.ecpIn /\ q'.ecpOut = q.ecpOut
      /\ q.wire \in Seq(Sent)
  BY <1>1, <1>3, <1>4 DEF PlainTyped, Queues
<1>7. PlainTyped'
  BY <1>1, <1>4, <1>5, <1>6 DEF PlainTyped
<1>8. ASSUME mode.enc # "none" PROVE Chained'
  <2>1. Chained
    BY <1>1, <1>8
  <2>2. FirstSent' = After(FirstSent, 0)
    <3>1. FirstSent' = After(LastIn(q.ecpIn, rcv.ivec), trace.missed + 1)
      BY <1>4, <1>5, <1>6 DEF FirstSent
    <3>2. QED
      BY <1>1, <3>1, LastTyped, AfterLost DEF FirstSent
  <2>3. /\ WireChain(Tail(q.wire), After(FirstSent, 0))
        /\ Upcoming(Tail(q.wire), After(FirstSent, 0)) = Upcoming(q.wire, FirstSent)
    BY <1>2, <1>6, <2>1, WireTail DEF Chained
  <2>4. QED
    BY <1>4, <1>6, <2>1, <2>2, <2>3 DEF Chained
<1>9. QED
  BY <1>7, <1>8

\* The ppp node takes a frame from the link: up, or to the socket of ECP with the number of
\* those lost before it.
LEMMA ReceiveKeeps ==
  ASSUME IntactInv, mode.comp = "none", Receive
  PROVE  /\ PlainTyped' /\ (mode.enc # "none" => Chained')
         /\ up' = "garbled" => up = "garbled"
         /\ trace'.gap = trace.gap
<1> DEFINE f == Head(q.wire)
<1>1. PlainTyped /\ (mode.enc # "none" => Chained)
  BY DEF IntactInv
<1>2. q.wire # << >>
  BY DEF Receive
<1>3. /\ f \in Sent /\ Tail(q.wire) \in Seq(Sent) /\ f.body \in Bodies /\ f.type = "data"
      /\ [q EXCEPT !.wire = Tail(@)] \in Queues
  BY <1>1, <1>2, OnTheLink
<1>4. CASE mode.enc = "none"
  <2>1. Plain([q EXCEPT !.wire = Tail(@)], rcv, f.body, trace) /\ UNCHANGED << mode, snd, losses >>
    BY <1>3, <1>4 DEF Receive
  <2>2. /\ up' = IF f.body.good THEN "intact" ELSE "garbled"
        /\ q' = [q EXCEPT !.wire = Tail(@)] /\ rcv' = rcv /\ trace' = trace
    BY <2>1 DEF Plain, Userland, Kernel
  <2>3. up' = "intact"
    BY <1>3, <2>2 DEF Bodies
  <2>4. q' \in Queues /\ q'.ecpOut = q.ecpOut /\ q'.ecpIn = q.ecpIn
    BY <1>1, <1>3, <2>2 DEF PlainTyped, Queues
  <2>5. QED
    BY <1>1, <1>4, <2>1, <2>2, <2>3, <2>4 DEF PlainTyped
<1>5. CASE mode.enc # "none"
  <2> DEFINE e == [n |-> f.n, body |-> f.body, gap |-> trace.missed]
             rest == [q EXCEPT !.wire = Tail(@)]
  <2>1. /\ q' = [rest EXCEPT !.ecpIn = Append(@, e)]
        /\ trace' = [trace EXCEPT !.missed = 0]
        /\ UNCHANGED << mode, snd, rcv, up, losses >>
    BY <1>3, <1>5 DEF Receive
  <2>2. e \in Received /\ e.n = f.n /\ e.gap = trace.missed
    BY <1>1, <1>3 DEF Sent, Received, PlainTyped, Trace
  <2>3. /\ q.ecpIn \in Seq(Received) /\ q.wire \in Seq(Sent) /\ rest.ecpIn = q.ecpIn
        /\ rest.wire = Tail(q.wire) /\ rest \in Queues
    BY <1>1, <1>3 DEF PlainTyped, Queues
  <2> HIDE DEF e, rest
  <2>4. Append(q.ecpIn, e) \in Seq(Received)
    BY <2>2, <2>3, AppendProperties
  <2>5. q' \in Queues /\ q'.wire = Tail(q.wire) /\ q'.ecpIn = Append(q.ecpIn, e)
    BY <2>1, <2>3, <2>4 DEF Queues
  <2>6. trace' \in Trace /\ trace'.missed = 0 /\ trace'.gap = trace.gap
    BY <1>1, <2>1 DEF PlainTyped, Trace
  <2>7. PlainTyped'
    BY <1>1, <1>5, <2>1, <2>5, <2>6 DEF PlainTyped
  <2>8. Chained
    BY <1>1, <1>5
  <2>9. /\ f.n = FirstSent /\ WireChain(Tail(q.wire), After(f.n, 0))
        /\ Upcoming(Tail(q.wire), After(f.n, 0)) = Upcoming(q.wire, FirstSent)
    BY <1>2, <2>3, <2>8, WireTail DEF Chained
  <2>10. InChain(Append(q.ecpIn, e), rcv.ivec) /\ LastIn(Append(q.ecpIn, e), rcv.ivec) = f.n
    BY <2>2, <2>3, <2>8, <2>9, InAppend DEF Chained, FirstSent
  <2>11. FirstSent' = After(f.n, 0)
    BY <2>1, <2>5, <2>6, <2>10 DEF FirstSent
  <2>12. Chained'
    BY <2>1, <2>5, <2>8, <2>9, <2>10, <2>11 DEF Chained
  <2>13. QED
    BY <2>1, <2>6, <2>7, <2>12
<1>6. QED
  BY <1>4, <1>5

\* A frame whose number is the expected one but which does not follow the last: as many are
\* lost as there are sequence numbers, or more.
LEMMA ManyLost ==
  ASSUME NEW i \in Nat, NEW gap \in Nat, NEW n, n = After(i, gap),
         n # (i + 1) % Blocks, n % SeqNums = (i + 1) % SeqNums
  PROVE  gap >= SeqNums
<1>1. /\ SeqNums \in Nat \ {0} /\ Blocks \in Nat \ {0} /\ Blocks % SeqNums = 0
      /\ i + 1 \in Nat /\ i + 1 + gap \in Nat /\ i + gap + 1 = i + 1 + gap
  BY StreamAssumption
<1>2. gap # 0
  <2>1. i + 0 + 1 = i + 1
    OBVIOUS
  <2>2. QED
    BY <2>1 DEF After
<1>3. ((i + 1 + gap) % Blocks) % SeqNums = (i + 1 + gap) % SeqNums
  BY <1>1, RemainderOfMultiple
<1>4. (i + 1 + gap) % SeqNums = (i + 1) % SeqNums
  BY <1>1, <1>3 DEF After
<1>5. QED
  BY <1>1, <1>2, <1>4, SameRemainder

\* ECP decrypts a frame, or drops it.
LEMMA DecryptKeeps ==
  ASSUME IntactInv, mode.comp = "none", DesDecrypt
  PROVE  /\ PlainTyped' /\ (mode.enc # "none" => Chained')
         /\ up' = "garbled" => trace'.gap >= SeqNums
<1> DEFINE f == Head(q.ecpIn)
           rest == [q EXCEPT !.ecpIn = Tail(@)]
           r == Expect(f)
<1>1. PlainTyped /\ (mode.enc # "none" => Chained) /\ (up = "garbled" => trace.gap >= SeqNums)
  BY DEF IntactInv
<1>2. q.ecpIn # << >>
  BY DEF DesDecrypt
<1>3. mode.enc # "none" /\ Chained
  BY <1>1, <1>2 DEF PlainTyped
<1>4. q.ecpIn \in Seq(Received) /\ q \in Queues
  BY <1>1 DEF PlainTyped, Queues
<1>5. f \in Received /\ Tail(q.ecpIn) \in Seq(Received)
  BY <1>2, <1>4, HeadTailProperties
<1>6. f.n \in 0 .. Blocks - 1 /\ f.body \in Bodies /\ f.gap \in Nat
  BY <1>5 DEF Received
<1>7. rest \in Queues /\ rest.ecpIn = Tail(q.ecpIn) /\ rest.wire = q.wire
  BY <1>4, <1>5 DEF Queues
<1>8. /\ r \in [codec : {Fresh}, seq : 0 .. SeqNums - 1, ivec : 0 .. Blocks - 1]
      /\ r.ivec = f.n /\ r.seq = (f.n + 1) % SeqNums
  <2>1. f.n + 1 \in Int /\ SeqNums \in Nat \ {0}
    BY <1>6, StreamAssumption
  <2>2. (f.n + 1) % SeqNums \in 0 .. SeqNums - 1
    BY <2>1, Quotient
  <2>3. QED
    BY <1>1, <1>6, <2>2 DEF PlainTyped, Expect
<1>9. /\ f.n = After(rcv.ivec, f.gap) /\ InChain(Tail(q.ecpIn), f.n)
      /\ LastIn(Tail(q.ecpIn), f.n) = LastIn(q.ecpIn, rcv.ivec)
  BY <1>2, <1>3, <1>4, InTail DEF Chained
<1>10. /\ UNCHANGED << mode, snd, losses >> /\ q' = rest /\ rcv' = r
       /\ trace' \in Trace /\ trace'.missed = trace.missed
       /\ up' = "garbled" => trace'.gap >= SeqNums
  <2> DEFINE good == f.n = (rcv.ivec + 1) % Blocks
             tr   == [trace EXCEPT !.gap = f.gap]
  <2>1. CASE InSequence(f)
    <3>1. Plain(rest, r, [f.body EXCEPT !.good = good], tr) /\ UNCHANGED << mode, snd, losses >>
      BY <2>1 DEF DesDecrypt
    <3>2. [f.body EXCEPT !.good = good].good = good
      BY <1>6 DEF Bodies
    <3>3. /\ up' = IF good THEN "intact" ELSE "garbled"
          /\ q' = rest /\ rcv' = r /\ trace' = tr
      BY <3>1, <3>2 DEF Plain, Userland, Kernel
    <3>4. trace' \in Trace /\ trace'.missed = trace.missed /\ trace'.gap = f.gap
      BY <1>1, <1>6, <3>3 DEF PlainTyped, Trace
    <3>5. ASSUME up' = "garbled" PROVE f.gap >= SeqNums
      <4>1. ~ good
        BY <3>3, <3>5
      <4>2. f.n % SeqNums = (rcv.ivec + 1) % SeqNums
        BY <1>3, <2>1 DEF InSequence, Chained
      <4>3. rcv.ivec \in Nat
        BY <1>1, StreamAssumption DEF PlainTyped
      <4>4. QED
        BY <1>6, <1>9, <4>1, <4>2, <4>3, ManyLost
    <3>6. QED
      BY <3>1, <3>3, <3>4, <3>5
  <2>2. CASE ~ InSequence(f)
    <3>1. /\ q' = rest /\ rcv' = r /\ trace' = Lost(f.body, trace)
          /\ UNCHANGED << mode, snd, up, losses >>
      BY <2>2 DEF DesDecrypt
    <3> DEFINE seen == trace.seen \cup {f.body.epoch}
    <3>2. f.body.epoch \in 0 .. 3 /\ trace.seen \in SUBSET (0 .. 3)
      BY <1>1, <1>6 DEF Bodies, PlainTyped, Trace
    <3>3. seen \in SUBSET (0 .. 3)
      BY <3>2
    <3>4. trace' = [trace EXCEPT !.upset = TRUE, !.seen = seen]
      BY <1>1, <3>1 DEF Lost, PlainTyped, Trace
    <3> HIDE DEF seen
    <3>5. trace' \in Trace /\ trace'.missed = trace.missed /\ trace'.gap = trace.gap
      BY <1>1, <3>3, <3>4 DEF PlainTyped, Trace
    <3>6. QED
      BY <1>1, <3>1, <3>5
  <2>3. QED
    BY <2>1, <2>2
<1> HIDE DEF f, rest, r
<1>11. PlainTyped'
  BY <1>1, <1>3, <1>7, <1>8, <1>10 DEF PlainTyped
<1>12. FirstSent' = FirstSent
  BY <1>7, <1>8, <1>9, <1>10 DEF FirstSent
<1>13. Chained'
  BY <1>3, <1>7, <1>8, <1>9, <1>10, <1>12 DEF Chained
<1>14. QED
  BY <1>10, <1>11, <1>13

\* New tables and numbers: the first frame has the number after the nonce.
LEMMA Anew ==
  /\ NewSnd \in [codec : {Fresh}, n : 0 .. Blocks - 1, flush : {FALSE}] /\ NewSnd.n = 0
  /\ NewRcv \in [codec : {Fresh}, seq : 0 .. SeqNums - 1, ivec : 0 .. Blocks - 1]
  /\ NewRcv.seq = (NewRcv.ivec + 1) % SeqNums
  /\ NewTrace \in Trace
  /\ After(LastIn(<< >>, NewRcv.ivec), NewTrace.missed) = 0
<1>1. Blocks \in Nat \ {0} /\ SeqNums \in Nat \ {0} /\ Blocks % SeqNums = 0
  BY StreamAssumption
<1>2. After(Blocks - 1, 0) = 0
  <2>1. Blocks - 1 + 0 + 1 = Blocks * 1 + 0 /\ 0 \in 0 .. Blocks - 1
    BY <1>1
  <2>2. QED
    BY <1>1, <2>1, RemainderUnique DEF After
<1>3. (Blocks - 1 + 1) % SeqNums = 0
  BY <1>1
<1>4. QED
  BY <1>1, <1>2, <1>3 DEF NewSnd, NewRcv, NewTrace, Trace, LastIn

\* Nothing is in a chain with everything.
LEMMA EmptyChains ==
  ASSUME NEW n
  PROVE  InChain(<< >>, n) /\ WireChain(<< >>, n) /\ Upcoming(<< >>, n) = n
  BY EmptySeq DEF InChain, WireChain, Upcoming

\* The layers go down and come up again; nothing is on its way.
LEMMA ReopenKeeps ==
  ASSUME IntactInv, mode.comp = "none", Reopen
  PROVE  PlainTyped' /\ Chained'
<1>1. q \in Queues
  BY DEF IntactInv, PlainTyped
<1>2. /\ q.ecpOut \in Seq(Bodies) /\ q.wire \in Seq(Sent) /\ q.ecpIn \in Seq(Received)
      /\ q.ccpIn = << >> /\ q.ackIn = << >> /\ q.node = << >> /\ q.reqs = << >>
  BY <1>1 DEF Queues
<1>3. q.ecpOut = << >> /\ q.wire = << >> /\ q.ecpIn = << >>
  <2>1. Len(q.ecpOut) \in Nat /\ Len(q.wire) \in Nat /\ Len(q.ecpIn) \in Nat
    BY <1>2, LenProperties
  <2>2. Len(q.ccpIn) = 0 /\ Len(q.ackIn) = 0 /\ Len(q.node) = 0 /\ Len(q.reqs) = 0
    BY <1>2, EmptySeq
  <2>3. Len(q.ecpOut) + Len(q.wire) + Len(q.ecpIn) + Len(q.ccpIn) + Len(q.ackIn) + Len(q.node)
          + Len(q.reqs) = 0
    BY DEF Reopen, InFlight
  <2>5. Len(q.ecpOut) + Len(q.wire) + Len(q.ecpIn) + 0 + 0 + 0 + 0 = 0
    BY ONLY <2>2, <2>3, Zenon
  <2>6. Len(q.ecpOut) = 0 /\ Len(q.wire) = 0 /\ Len(q.ecpIn) = 0
    <3> DEFINE a == Len(q.ecpOut)
               b == Len(q.wire)
               c == Len(q.ecpIn)
    <3>1. a \in Nat /\ b \in Nat /\ c \in Nat /\ a + b + c + 0 + 0 + 0 + 0 = 0
      BY ONLY <2>1, <2>5
    <3> HIDE DEF a, b, c
    <3>2. a = 0 /\ b = 0 /\ c = 0
      BY ONLY <3>1
    <3> QED
      BY ONLY <3>2 DEF a, b, c
  <2>7. QED
    BY <1>2, <2>6, EmptySeq
<1>4. snd' = NewSnd /\ rcv' = NewRcv /\ trace' = NewTrace /\ q' = q
  BY DEF Reopen
<1>5. PlainTyped'
  BY <1>1, <1>3, <1>4, Anew DEF PlainTyped
<1>6. FirstSent' = 0
  BY <1>3, <1>4, Anew DEF FirstSent
<1>7. Chained'
  BY <1>3, <1>4, <1>6, Anew, EmptyChains DEF Chained
<1>8. QED
  BY <1>5, <1>7

\* Nothing else can happen to frames that are not compressed.
LEMMA NothingToReset ==
  ASSUME IntactInv, mode.comp = "none"
  PROVE  ~ LoseRequest /\ ~ CcpDataInput /\ ~ CcpRecvMsg /\ ~ CcpRecvResetReq /\ ~ CcpRecvResetAck
<1>1. q.ccpIn = << >> /\ q.ackIn = << >> /\ q.node = << >> /\ q.reqs = << >>
  BY DEF IntactInv, PlainTyped, Queues
<1>2. QED
  BY <1>1 DEF LoseRequest, CcpDataInput, CcpRecvMsg, CcpRecvResetReq, CcpRecvResetAck

\* A compressed frame is never delivered garbled: its checksum finds every difference.
LEMMA CompressedKeeps ==
  ASSUME IntactInv, mode.comp # "none", [Next]_vars
  PROVE  IntactInv'
<1>1. up # "garbled" /\ mode \in Modes
  BY DEF IntactInv
<1>2. mode' = mode
  BY DEF Next, Send, Work, EcpNgDataEvent, CcpDataOutput, DesEncrypt, DesDecrypt, LoseData, LoseRequest,
     Receive, CcpDataInput, CcpRecvMsg, CcpRecvResetReq, CcpRecvResetAck, Reopen, vars
<1>3. mode.comp \in {"pred1", "deflate", "mppc"}
  BY <1>1, StreamAssumption
<1>4. ASSUME NEW queues, NEW r, NEW p, NEW tr, Decompressed(queues, r, p, tr) PROVE up' # "garbled"
  BY <1>4 DEF Decompressed
<1>5. ASSUME NEW queues, NEW r, NEW p, NEW tr, Plain(queues, r, p, tr) PROVE up' # "garbled"
  <2>1. CASE Userland
    BY <1>1, <1>3, <1>5, <2>1 DEF Plain, Userland, Kernel
  <2>2. CASE Kernel
    <3>1. Decompressed(queues, r, p, tr)
      BY <1>3, <1>5, <2>2 DEF Plain, Userland, Kernel
    <3>2. QED
      BY <1>4, <3>1
  <2>3. QED
    BY <1>3, <2>1, <2>2 DEF Userland, Kernel
<1>6. up' # "garbled"
  <2>1. CASE Send
    BY <1>1, <2>1 DEF Send, CcpDataOutput
  <2>2. CASE DesEncrypt
    BY <1>1, <2>2 DEF DesEncrypt
  <2>3. CASE DesDecrypt
    <3>1. CASE InSequence(Head(q.ecpIn))
      BY <1>5, <2>3, <3>1 DEF DesDecrypt
    <3>2. CASE ~ InSequence(Head(q.ecpIn))
      BY <1>1, <2>3, <3>2 DEF DesDecrypt
    <3>3. QED
      BY <3>1, <3>2
  <2>4. CASE Receive
    <3>1. CASE Head(q.wire).type = "ResetAck" \/ mode.enc # "none"
      BY <1>1, <2>4, <3>1 DEF Receive
    <3>2. CASE Head(q.wire).type # "ResetAck" /\ mode.enc = "none"
      <4>1. Plain([q EXCEPT !.wire = Tail(@)], rcv, Head(q.wire).body, trace)
        BY <2>4, <3>2 DEF Receive
      <4>2. QED
        BY <1>5, <4>1
    <3>3. QED
      BY <3>1, <3>2
  <2>5. CASE CcpDataInput
    BY <1>4, <2>5 DEF CcpDataInput
  <2>6. CASE CcpRecvMsg \/ CcpRecvResetReq \/ CcpRecvResetAck
    BY <1>1, <2>6 DEF CcpRecvMsg, CcpRecvResetReq, CcpRecvResetAck
  <2>7. CASE LoseData \/ LoseRequest
    BY <1>1, <2>7 DEF LoseData, LoseRequest
  <2>8. CASE Reopen
    BY <2>8 DEF Reopen
  <2>9. CASE UNCHANGED vars
    BY <1>1, <2>9 DEF vars
  <2>10. QED
    BY <2>1, <2>2, <2>3, <2>4, <2>5, <2>6, <2>7, <2>8, <2>9 DEF Next, Work, EcpNgDataEvent
<1>7. QED
  BY <1>1, <1>2, <1>6 DEF IntactInv

\* Nor one that is only encrypted, unless so many are lost.
LEMMA UncompressedKeeps ==
  ASSUME IntactInv, mode.comp = "none", [Next]_vars
  PROVE  IntactInv'
<1>1. /\ PlainTyped /\ (mode.enc # "none" => Chained) /\ mode \in Modes
      /\ up = "garbled" => trace.gap >= SeqNums
  BY DEF IntactInv
<1>2. mode' = mode
  BY DEF Next, Send, Work, EcpNgDataEvent, CcpDataOutput, DesEncrypt, DesDecrypt, LoseData, LoseRequest,
     Receive, CcpDataInput, CcpRecvMsg, CcpRecvResetReq, CcpRecvResetAck, Reopen, vars
<1> DEFINE Kept == /\ PlainTyped' /\ (mode.enc # "none" => Chained')
                   /\ up' = "garbled" => trace'.gap >= SeqNums
<1>3. CASE Send
  <2>1. PICK f \in Frames : CcpDataOutput(f)
    BY <1>3 DEF Send
  <2>2. up' = up /\ trace' = trace
    BY <2>1 DEF CcpDataOutput
  <2>3. Kept
    BY <1>1, <2>1, <2>2, OutputKeeps
  <2>4. QED
    BY <1>1, <1>2, <2>3 DEF IntactInv
<1>4. CASE DesEncrypt
  <2>1. up' = up /\ trace' = trace
    BY <1>4 DEF DesEncrypt
  <2>2. Kept
    BY <1>1, <1>4, <2>1, EncryptKeeps
  <2>3. QED
    BY <1>1, <1>2, <2>2 DEF IntactInv
<1>5. CASE DesDecrypt
  <2>1. Kept
    BY <1>5, DecryptKeeps
  <2>2. QED
    BY <1>1, <1>2, <2>1 DEF IntactInv
<1>6. CASE Receive
  <2>1. Kept
    BY <1>1, <1>6, ReceiveKeeps
  <2>2. QED
    BY <1>1, <1>2, <2>1 DEF IntactInv
<1>7. CASE LoseData
  <2>1. up' = up /\ trace'.gap = trace.gap
    BY <1>1, <1>7 DEF LoseData, Lost, PlainTyped, Trace
  <2>2. Kept
    BY <1>1, <1>7, <2>1, LoseKeeps
  <2>3. QED
    BY <1>1, <1>2, <2>2 DEF IntactInv
<1>8. CASE Reopen
  <2>1. up' = "none"
    BY <1>8 DEF Reopen
  <2>2. Kept
    BY <1>8, <2>1, ReopenKeeps
  <2>3. QED
    BY <1>1, <1>2, <2>2 DEF IntactInv
<1>9. CASE UNCHANGED vars
  <2>1. UNCHANGED << mode, snd, rcv, q, up, losses, trace >>
    BY <1>9 DEF vars
  <2>2. Kept
    BY <1>1, <2>1 DEF PlainTyped, Chained, FirstSent
  <2>3. QED
    BY <1>1, <1>2, <2>2 DEF IntactInv
<1>10. QED
  BY <1>3, <1>4, <1>5, <1>6, <1>7, <1>8, <1>9, NothingToReset DEF Next, Work, EcpNgDataEvent

\* IntactInv is inductive.
THEOREM StreamInvariance == Spec => []IntactInv
<1>1. Init => IntactInv
  <2> SUFFICES ASSUME Init PROVE IntactInv
    OBVIOUS
  <2>1. q \in Queues /\ q.ecpOut = << >> /\ q.ecpIn = << >> /\ q.wire = << >>
    BY EmptySeq DEF Init, Queues
  <2>2. PlainTyped
    BY <2>1, Anew DEF Init, PlainTyped
  <2>3. FirstSent = 0
    BY <2>1, Anew DEF Init, FirstSent
  <2>4. Chained
    BY <2>1, <2>3, Anew, EmptyChains DEF Init, Chained
  <2>5. QED
    BY <2>2, <2>4 DEF Init, IntactInv
<1>2. IntactInv /\ [Next]_vars => IntactInv'
  BY CompressedKeeps, UncompressedKeeps
<1>3. QED
  BY <1>1, <1>2, PTL DEF Spec

\* Nothing garbled goes up unless as many frames in a row are lost as there are sequence
\* numbers, for every number of them, of losses and of frames on their way; and frames of
\* every size fit but those that FramesFit names (DesDecrypt, BundUpdateParams, the padding
\* of DESE-bis).
THEOREM DeliveredAlwaysIntact == Spec => []DeliveredIntact
<1>1. IntactInv => DeliveredIntact
  <2> SUFFICES ASSUME IntactInv PROVE DeliveredIntact
    OBVIOUS
  <2>1. FramesFit
    BY SizesFit DEF IntactInv
  <2>2. \A size \in Mrus, x \in 0 .. 9 : BisStripped(size, x) = size
    BY StreamAssumption, PaddingStripped
  <2>3. QED
    BY <2>1, <2>2 DEF DeliveredIntact, IntactInv
<1>2. QED
  BY <1>1, StreamInvariance, PTL
=============================================================================
