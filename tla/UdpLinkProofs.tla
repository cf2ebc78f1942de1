---------------------------- MODULE UdpLinkProofs ----------------------------
(***************************************************************************)
(* What passes the two UDP workers, for every MTU, block size, percentage, *)
(* batch and receive buffer the two programs accept: what is handed on is  *)
(* what was sent, in order (ReceivedIsSent); a block that lost little      *)
(* arrives complete enough (EnoughArrive); the receive buffer is as large  *)
(* as its comment says (WindowIsBuffered).                                 *)
(***************************************************************************)
EXTENDS UdpLink, SequenceTheorems, FiniteSetTheorems, TLAPS

-----------------------------------------------------------------------------
(* Sizes and counts *)

\* Quotient and remainder of naturals.
LEMMA DivMod ==
  ASSUME NEW x \in Nat, NEW a \in Nat \ {0}
  PROVE  /\ x \div a \in Nat /\ x % a \in 0 .. (a - 1)
         /\ x = a * (x \div a) + (x % a)
         /\ x % a <= x
         /\ x < a => x % a = x
<1> DEFINE q == x \div a
           r == x % a
<1>1. q \in Int /\ r \in 0 .. (a - 1) /\ x = a * q + r
  OBVIOUS
<1> HIDE DEF q, r
<1>2. q >= 0
  <2>1. SUFFICES ASSUME q <= -1 PROVE FALSE
    BY <1>1
  <2>2. a * (-1 - q) >= 0
    BY <2>1, <1>1
  <2>3. a * (-1 - q) = -a - a * q
    BY <1>1
  <2>4. QED
    BY <2>2, <2>3, <1>1
<1>3. a * q >= 0
  BY <1>1, <1>2
<1>4. x < a => q = 0
  <2>1. SUFFICES ASSUME x < a, q >= 1 PROVE FALSE
    BY <1>1, <1>2
  <2>2. a * (q - 1) >= 0
    BY <2>1, <1>1
  <2>3. a * (q - 1) = a * q - a
    BY <1>1
  <2>4. QED
    BY <2>1, <2>2, <2>3, <1>1
<1>5. x < a => r = x
  BY <1>4, <1>1
<1>6. QED
  BY <1>1, <1>2, <1>3, <1>5 DEF q, r

\* A number that holds a times d holds d at least a times.
LEMMA DivAtLeast ==
  ASSUME NEW x \in Nat, NEW a \in Nat, NEW d \in Nat \ {0}, a * d <= x
  PROVE  a <= x \div d
<1> DEFINE q == x \div d
           r == x % d
<1>1. q \in Nat /\ r \in 0 .. (d - 1) /\ x = d * q + r
  BY DivMod
<1> HIDE DEF q, r
<1>2. SUFFICES ASSUME q + 1 <= a PROVE FALSE
  BY <1>1 DEF q
<1>3. d * (a - q - 1) >= 0
  BY <1>1, <1>2
<1>4. d * (a - q - 1) = a * d - d * q - d
  BY <1>1
<1>5. QED
  BY <1>1, <1>3, <1>4

\* Factors are ordered as their products with a positive number.
LEMMA FactorLess ==
  ASSUME NEW a \in Nat, NEW b \in Nat, NEW n \in Nat, a * n < b * n
  PROVE  a < b
<1>1. SUFFICES ASSUME b <= a PROVE FALSE
  OBVIOUS
<1>2. (a - b) * n >= 0
  BY <1>1
<1>3. (a - b) * n = a * n - b * n
  OBVIOUS
<1>4. a * n \in Int /\ b * n \in Int
  OBVIOUS
<1>5. QED
  BY <1>2, <1>3, <1>4

\* The products of naturals grow with their factors.
LEMMA TimesGrows ==
  ASSUME NEW a \in Nat, NEW b \in Nat, NEW n \in Nat, a <= b
  PROVE  a * n <= b * n /\ n * a <= n * b
<1>1. (b - a) * n >= 0
  OBVIOUS
<1>2. (b - a) * n = b * n - a * n /\ n * a = a * n /\ n * b = b * n
  OBVIOUS
<1>3. a * n \in Int /\ b * n \in Int
  OBVIOUS
<1>4. QED
  BY <1>1, <1>2, <1>3

\* A packet holds something, and less than U16.
LEMMA PacketSize ==
  ASSUME NEW mtu \in 0 .. (U16 - 1), MaxPacketSize(mtu) # 0
  PROVE  /\ MaxPacketSize(mtu) \in Nat \ {0}
         /\ PACKET_HEADER_SIZE + RAPTORQ_HEADER_SIZE <= mtu =>
              MaxPacketSize(mtu) + RAPTORQ_HEADER_SIZE <= mtu
<1>1. /\ U16 \in Nat \ {0} /\ RAPTORQ_ALIGNMENT \in Nat \ {0}
      /\ PACKET_HEADER_SIZE \in Nat /\ RAPTORQ_HEADER_SIZE \in Nat
  BY RaptorQAssumption
<1>2. Room(mtu) \in Nat
  <2> DEFINE room == mtu - PACKET_HEADER_SIZE - RAPTORQ_HEADER_SIZE
  <2>1. room \in Int
    BY <1>1
  <2> HIDE DEF room
  <2>2. room % U16 \in Nat
    BY <2>1, <1>1
  <2>3. QED
    BY <2>2 DEF room, Room
<1>3. Room(mtu) % RAPTORQ_ALIGNMENT \in 0 .. Room(mtu)
  <2>1. Room(mtu) % RAPTORQ_ALIGNMENT \in 0 .. (RAPTORQ_ALIGNMENT - 1)
    BY <1>1, <1>2
  <2>2. Room(mtu) % RAPTORQ_ALIGNMENT <= Room(mtu)
    BY <1>1, <1>2, DivMod
  <2>3. QED
    BY <2>1, <2>2, <1>2
<1>4. MaxPacketSize(mtu) \in 0 .. Room(mtu)
  BY <1>2, <1>3 DEF MaxPacketSize
<1>5. ASSUME PACKET_HEADER_SIZE + RAPTORQ_HEADER_SIZE <= mtu
      PROVE  Room(mtu) = mtu - PACKET_HEADER_SIZE - RAPTORQ_HEADER_SIZE
  <2>1. /\ mtu - PACKET_HEADER_SIZE - RAPTORQ_HEADER_SIZE \in Nat
        /\ mtu - PACKET_HEADER_SIZE - RAPTORQ_HEADER_SIZE < U16
    BY <1>1, <1>5
  <2>2. QED
    BY <2>1, <1>1, DivMod DEF Room
<1>6. QED
  BY <1>1, <1>2, <1>4, <1>5

\* What the options of the two sides amount to.
LEMMA Counts ==
  ASSUME NEW c \in Configs
  PROVE  /\ NbPackets(SenderOf(c)) \in Nat /\ NbPackets(ReceiverOf(c)) \in Nat
         /\ DatagramLen(SenderOf(c)) \in Nat \ {0}
         /\ c.send.mtu \in Nat /\ c.receive.mtu \in Nat
         /\ PACKET_HEADER_SIZE + RAPTORQ_HEADER_SIZE <= c.send.mtu =>
              DatagramLen(SenderOf(c)) <= c.send.mtu
         /\ c.rmem_max \in Nat /\ c.rmem_max < U32
         /\ BatchSize(c.send.batch) \in Nat \ {0} /\ BatchSize(c.receive.batch) \in Nat \ {0}
<1>1. /\ c.send.mtu \in 0 .. (U16 - 1) /\ c.receive.mtu \in 0 .. (U16 - 1)
      /\ MaxPacketSize(c.send.mtu) # 0
      /\ c.send.batch \in (Nat \ {0}) \cup {None} /\ c.receive.batch \in (Nat \ {0}) \cup {None}
      /\ c.rmem_max \in 0 .. (U32 \div 2 - 1)
      /\ Accepted(SenderOf(c)) /\ Accepted(ReceiverOf(c))
  BY UdpLinkAssumption
<1>2. /\ U16 \in Nat \ {0} /\ U32 \in Nat \ {0} /\ RAPTORQ_HEADER_SIZE \in Nat
  BY RaptorQAssumption
<1>3. NbPackets(SenderOf(c)) \in Nat /\ NbPackets(ReceiverOf(c)) \in Nat
  BY <1>1, <1>2 DEF Accepted, NbPackets
<1>4. DatagramLen(SenderOf(c)) = MaxPacketSize(c.send.mtu) + RAPTORQ_HEADER_SIZE
  BY DEF DatagramLen, SenderOf, New
<1>5. c.rmem_max \in Nat /\ c.rmem_max < U32
  BY <1>1, <1>2
<1>6. BatchSize(c.send.batch) \in Nat \ {0} /\ BatchSize(c.receive.batch) \in Nat \ {0}
  BY <1>1 DEF BatchSize
<1>7. QED
  BY <1>1, <1>2, <1>3, <1>4, <1>5, <1>6, PacketSize

-----------------------------------------------------------------------------
(* Sequences of datagrams in the order the sender makes them *)

Before(d, e) == d.blk < e.blk \/ (d.blk = e.blk /\ d.k < e.k)

Increasing(s) == \A i, j \in DOMAIN s : i < j => Before(s[i], s[j])

Precede(S, T) == \A d \in S : \A e \in T : Before(d, e)

LEMMA SmallerRange ==
  ASSUME NEW a \in Int, NEW b \in Int
  PROVE  /\ Smaller(a, b) \in {a, b}
         /\ Smaller(a, b) <= a /\ Smaller(a, b) <= b
  BY DEF Smaller

\* A part of a sequence, item by item.
LEMMA Part ==
  ASSUME NEW S, NEW s \in Seq(S), NEW n \in 0 .. Len(s)
  PROVE  /\ SubSeq(s, 1, n) \in Seq(S) /\ Len(SubSeq(s, 1, n)) = n
         /\ \A i \in 1 .. n : SubSeq(s, 1, n)[i] = s[i]
         /\ SubSeq(s, n + 1, Len(s)) \in Seq(S) /\ Len(SubSeq(s, n + 1, Len(s))) = Len(s) - n
         /\ \A i \in 1 .. (Len(s) - n) : SubSeq(s, n + 1, Len(s))[i] = s[n + i]
<1>1. PICK l \in Nat : l = Len(s)
  BY LenProperties
<1>2. n \in 0 .. l /\ \A i \in 1 .. l : s[i] \in S
  BY <1>1, ElementOfSeq
<1>3. /\ 1 \in Int /\ n \in Int /\ l \in Int /\ n + 1 \in Int
      /\ \A i \in 1 .. n : s[i] \in S
      /\ \A i \in (n + 1) .. l : s[i] \in S
  BY <1>1, <1>2
<1>4. /\ SubSeq(s, 1, n) \in Seq(S) /\ Len(SubSeq(s, 1, n)) = n
      /\ \A i \in 1 .. n : SubSeq(s, 1, n)[i] = s[i]
  <2>1. /\ SubSeq(s, 1, n) \in Seq(S)
        /\ Len(SubSeq(s, 1, n)) = IF 1 <= n THEN n - 1 + 1 ELSE 0
        /\ \A i \in 1 .. n - 1 + 1 : SubSeq(s, 1, n)[i] = s[1 + i - 1]
    BY <1>3, SubSeqProperties
  <2>2. QED
    BY <2>1, <1>2, <1>1
<1>5. /\ SubSeq(s, n + 1, l) \in Seq(S) /\ Len(SubSeq(s, n + 1, l)) = l - n
      /\ \A i \in 1 .. (l - n) : SubSeq(s, n + 1, l)[i] = s[n + i]
  <2>1. /\ SubSeq(s, n + 1, l) \in Seq(S)
        /\ Len(SubSeq(s, n + 1, l)) = IF n + 1 <= l THEN l - (n + 1) + 1 ELSE 0
        /\ \A i \in 1 .. l - (n + 1) + 1 : SubSeq(s, n + 1, l)[i] = s[n + 1 + i - 1]
    BY <1>3, SubSeqProperties
  <2>2. l - (n + 1) + 1 = l - n /\ \A i \in Int : n + 1 + i - 1 = n + i
    BY <1>1, <1>2
  <2>3. Len(SubSeq(s, n + 1, l)) = l - n
    BY <2>1, <1>1, <1>2
  <2>4. ASSUME NEW i \in 1 .. (l - n) PROVE SubSeq(s, n + 1, l)[i] = s[n + i]
    <3>1. i \in 1 .. l - (n + 1) + 1 /\ n + 1 + i - 1 = n + i
      BY <2>2, <1>1, <1>2
    <3>2. QED
      BY <3>1, <2>1
  <2>5. QED
    BY <2>1, <2>3, <2>4
<1>6. QED
  BY <1>1, <1>4, <1>5

\* A sequence in order, cut in two.
LEMMA CutOrder ==
  ASSUME NEW S, NEW s \in Seq(S), Increasing(s), NEW n \in 0 .. Len(s)
  PROVE  /\ Increasing(SubSeq(s, 1, n)) /\ Increasing(SubSeq(s, n + 1, Len(s)))
         /\ Values(s) = Values(SubSeq(s, 1, n)) \cup Values(SubSeq(s, n + 1, Len(s)))
         /\ Precede(Values(SubSeq(s, 1, n)), Values(SubSeq(s, n + 1, Len(s))))
<1> DEFINE a == SubSeq(s, 1, n)
           b == SubSeq(s, n + 1, Len(s))
<1>1. PICK l \in Nat : l = Len(s)
  BY LenProperties
<1>2. /\ DOMAIN s = 1 .. l /\ n \in 0 .. l
      /\ a \in Seq(S) /\ Len(a) = n /\ (\A i \in 1 .. n : a[i] = s[i])
      /\ b \in Seq(S) /\ Len(b) = l - n /\ (\A i \in 1 .. (l - n) : b[i] = s[n + i])
  BY <1>1, Part, LenProperties
<1> HIDE DEF a, b
<1>3. DOMAIN a = 1 .. n /\ DOMAIN b = 1 .. (l - n)
  BY <1>2, LenProperties
<1>4. Increasing(a)
  BY <1>2, <1>3 DEF Increasing
<1>5. Increasing(b)
  <2>1. SUFFICES ASSUME NEW i \in 1 .. (l - n), NEW j \in 1 .. (l - n), i < j
                 PROVE  Before(b[i], b[j])
    BY <1>3 DEF Increasing
  <2>2. n + i \in 1 .. l /\ n + j \in 1 .. l /\ n + i < n + j
    BY <2>1, <1>1, <1>2
  <2>3. Before(s[n + i], s[n + j])
    BY <2>2, <1>2 DEF Increasing
  <2>4. QED
    BY <2>3, <1>2
<1>6. Values(s) \subseteq Values(a) \cup Values(b)
  <2>1. SUFFICES ASSUME NEW i \in 1 .. l PROVE s[i] \in Values(a) \cup Values(b)
    <3>1. Values(s) = {s[i] : i \in 1 .. l}
      BY <1>2 DEF Values
    <3>2. QED
      BY <3>1
  <2>2. CASE i <= n
    <3>1. i \in 1 .. n /\ a[i] = s[i]
      BY <2>2, <1>1, <1>2
    <3>2. QED
      BY <3>1, <1>3 DEF Values
  <2>3. CASE i > n
    <3>1. i - n \in 1 .. (l - n) /\ n + (i - n) = i
      BY <2>3, <1>1, <1>2
    <3>2. b[i - n] = s[i]
      BY <3>1, <1>2
    <3>3. QED
      BY <3>1, <3>2, <1>3 DEF Values
  <2>4. QED
    BY <2>2, <2>3, <1>1, <1>2
<1>7. Values(a) \cup Values(b) \subseteq Values(s)
  <2>1. \A i \in 1 .. n : i \in 1 .. l
    BY <1>1, <1>2
  <2>2. \A i \in 1 .. (l - n) : n + i \in 1 .. l
    BY <1>1, <1>2
  <2>3. Values(a) \subseteq Values(s)
    BY <2>1, <1>2, <1>3 DEF Values
  <2>4. Values(b) \subseteq Values(s)
    <3>1. \A i \in 1 .. (l - n) : b[i] \in Values(s)
      <4>1. \A i \in 1 .. l : s[i] \in Values(s)
        BY <1>2 DEF Values
      <4>2. QED
        BY <2>2, <4>1, <1>2
    <3>2. QED
      BY <3>1, <1>3 DEF Values
  <2>5. QED
    BY <2>3, <2>4
<1>8. Precede(Values(a), Values(b))
  <2>1. SUFFICES ASSUME NEW i \in 1 .. n, NEW j \in 1 .. (l - n) PROVE Before(a[i], b[j])
    BY <1>3 DEF Precede, Values
  <2>2. i \in 1 .. l /\ n + j \in 1 .. l /\ i < n + j
    BY <1>1, <1>2
  <2>3. QED
    BY <2>2, <1>2 DEF Increasing
<1>9. QED
  BY <1>4, <1>5, <1>6, <1>7, <1>8 DEF a, b

\* Two sequences in order, one before the other.
LEMMA JoinOrder ==
  ASSUME NEW S, NEW s \in Seq(S), NEW t \in Seq(S)
  PROVE  /\ s \o t \in Seq(S) /\ Len(s \o t) = Len(s) + Len(t)
         /\ Values(s \o t) = Values(s) \cup Values(t)
         /\ Increasing(s) /\ Increasing(t) /\ Precede(Values(s), Values(t)) =>
              Increasing(s \o t)
<1> DEFINE u == s \o t
<1>1. PICK m \in Nat : m = Len(s)
  BY LenProperties
<1>2. PICK n \in Nat : n = Len(t)
  BY LenProperties
<1>3. /\ u \in Seq(S) /\ Len(u) = m + n
      /\ \A i \in 1 .. (m + n) : u[i] = IF i <= m THEN s[i] ELSE t[i - m]
  BY <1>1, <1>2, ConcatProperties
<1> HIDE DEF u
<1>4. DOMAIN s = 1 .. m /\ DOMAIN t = 1 .. n /\ DOMAIN u = 1 .. (m + n)
  BY <1>1, <1>2, <1>3, LenProperties
<1>5. \A i \in 1 .. m : i \in 1 .. (m + n) /\ u[i] = s[i]
  BY <1>1, <1>2, <1>3
<1>6. \A j \in 1 .. n : m + j \in 1 .. (m + n) /\ u[m + j] = t[j]
  <2>1. SUFFICES ASSUME NEW j \in 1 .. n PROVE m + j \in 1 .. (m + n) /\ u[m + j] = t[j]
    OBVIOUS
  <2>2. m + j \in 1 .. (m + n) /\ ~(m + j <= m) /\ m + j - m = j
    BY <1>1, <1>2
  <2>3. QED
    BY <2>2, <1>3
<1>7. ASSUME NEW i \in 1 .. (m + n)
      PROVE  \/ i \in 1 .. m /\ u[i] = s[i]
             \/ i - m \in 1 .. n /\ u[i] = t[i - m] /\ i = m + (i - m)
  BY <1>1, <1>2, <1>3
<1>8. Values(u) = Values(s) \cup Values(t)
  <2>1. Values(u) \subseteq Values(s) \cup Values(t)
    BY <1>4, <1>7 DEF Values
  <2>2. Values(s) \cup Values(t) \subseteq Values(u)
    BY <1>4, <1>5, <1>6 DEF Values
  <2>3. QED
    BY <2>1, <2>2
<1>9. ASSUME Increasing(s), Increasing(t), Precede(Values(s), Values(t))
      PROVE  Increasing(u)
  <2>1. SUFFICES ASSUME NEW i \in 1 .. (m + n), NEW j \in 1 .. (m + n), i < j
                 PROVE  Before(u[i], u[j])
    BY <1>4 DEF Increasing
  <2>2. CASE j \in 1 .. m
    <3>1. i \in 1 .. m
      BY <2>1, <2>2, <1>1, <1>2
    <3>2. QED
      BY <3>1, <2>1, <2>2, <1>4, <1>5, <1>9 DEF Increasing
  <2>3. CASE i \in 1 .. m /\ j - m \in 1 .. n
    <3>1. u[i] \in Values(s) /\ u[j] \in Values(t)
      <4>1. m + (j - m) = j
        BY <2>1, <1>1, <1>2
      <4>2. u[i] = s[i] /\ u[j] = t[j - m]
        BY <4>1, <2>3, <1>5, <1>6
      <4>3. QED
        BY <4>2, <2>3, <1>4 DEF Values
    <3>2. QED
      BY <3>1, <1>9 DEF Precede
  <2>4. CASE i - m \in 1 .. n /\ j - m \in 1 .. n
    <3>1. m + (j - m) = j /\ m + (i - m) = i /\ i - m < j - m
      BY <2>1, <1>1, <1>2
    <3>2. u[i] = t[i - m] /\ u[j] = t[j - m]
      BY <3>1, <2>4, <1>6
    <3>3. Before(t[i - m], t[j - m])
      BY <3>1, <2>4, <1>4, <1>9 DEF Increasing
    <3>4. QED
      BY <3>2, <3>3
  <2>5. QED
    BY <2>1, <2>2, <2>3, <2>4, <1>1, <1>2
<1>10. QED
  BY <1>1, <1>2, <1>3, <1>8, <1>9 DEF u

\* The order is transitive, and irreflexive.
LEMMA BeforeOrder ==
  ASSUME NEW d \in Datagrams, NEW e \in Datagrams, NEW f \in Datagrams
  PROVE  /\ Before(d, e) /\ Before(e, f) => Before(d, f)
         /\ ~Before(d, d)
  BY DEF Before, Datagrams

\* A sequence in order has as many different items as places.
LEMMA IncreasingCount ==
  ASSUME NEW s \in Seq(Datagrams), Increasing(s)
  PROVE  IsFiniteSet(Values(s)) /\ Cardinality(Values(s)) = Len(s)
<1>1. PICK l \in Nat : l = Len(s)
  BY LenProperties
<1>2. DOMAIN s = 1 .. l /\ s \in [1 .. l -> Datagrams]
  BY <1>1, LenProperties
<1>3. s \in Surjection(1 .. l, Values(s))
  BY <1>2 DEF Surjection, Values
<1>4. s \in Injection(1 .. l, Values(s))
  <2>1. \A i, j \in 1 .. l : s[i] = s[j] => i = j
    <3> SUFFICES ASSUME NEW i \in 1 .. l, NEW j \in 1 .. l, s[i] = s[j] PROVE i = j
      OBVIOUS
    <3>1. s[i] \in Datagrams /\ ~Before(s[i], s[i])
      BY <1>2, BeforeOrder
    <3>2. ~(i < j) /\ ~(j < i)
      BY <3>1, <1>2 DEF Increasing
    <3>3. QED
      BY <3>2, <1>1
  <2>2. IsInjective(s)
    BY <2>1, <1>2 DEF IsInjective
  <2>3. s \in [1 .. l -> Values(s)]
    BY <1>3 DEF Surjection
  <2>4. QED
    BY <2>2, <2>3 DEF Injection
<1>5. IsFiniteSet(1 .. l) /\ Cardinality(1 .. l) = l
  <2>1. /\ IsFiniteSet(1 .. l)
        /\ Cardinality(1 .. l) = IF 1 > l THEN 0 ELSE l - 1 + 1
    BY FS_Interval
  <2>2. QED
    BY <2>1
<1>6. QED
  BY <1>1, <1>3, <1>4, <1>5, FS_Surjection

-----------------------------------------------------------------------------
(* The invariant *)

Handed == [i \in DOMAIN toReblock |-> toReblock[i].datagram]

MsgLen == Smaller(DatagramLen(Sending), config.receive.mtu)

\* How many datagrams the receive buffer holds.
Capacity == Granted \div DatagramLen(Sending)

TypeInv ==
  /\ config \in Configs /\ sndPc \in {"recv", "send", "ended"}
  /\ blocks \in 0 .. MaxBlocks
  /\ packets \in Seq(Datagrams) /\ socket \in Seq(Datagrams)
  /\ buffers \in Seq(Datagrams \cup {None})
  /\ Len(buffers) = BatchSize(config.receive.batch)
  /\ toReblock \in Seq([datagram : Datagrams, msg_len : {MsgLen}])
  /\ lost \subseteq Datagrams /\ IsFiniteSet(lost)

\* What is handed on was sent before what is in the socket, and that before what
\* is still to send.
OrderInv ==
  /\ Increasing(packets) /\ Increasing(socket) /\ Increasing(Handed)
  /\ Precede(Values(Handed), Values(socket))
  /\ Precede(Values(Handed), Values(packets))
  /\ Precede(Values(socket), Values(packets))
  /\ sndPc = "recv" => packets = <<>>

\* No datagram is made up.
SourceInv ==
  \A d \in Values(Handed) \cup Values(socket) \cup Values(packets) :
    d.blk < blocks /\ d.k \in 1 .. NbPackets(Sending)

CapacityInv == Len(socket) <= Capacity

\* No datagram disappears.
CompleteInv ==
  \A b \in 0 .. (blocks - 1), k \in 1 .. NbPackets(Sending) :
    \/ [blk |-> b, k |-> k] \in lost \cup Values(packets) \cup Values(socket) \cup Values(Handed)
    \/ \E o \in overrun : o.dropped = [blk |-> b, k |-> k]

LinkInv == TypeInv /\ OrderInv /\ SourceInv /\ CapacityInv /\ CompleteInv

-----------------------------------------------------------------------------
(* The room in the receive buffer *)

LEMMA WidthNat == WindowWidth \in Nat
<1>1. IdModulus - 1 \in Nat /\ 2 \in Nat \ {0}
  BY IdModulusAssumption
<1>2. (IdModulus - 1) \div 2 \in Nat
  BY <1>1
<1>3. QED
  BY <1>2 DEF WindowWidth

LEMMA CapacityType ==
  ASSUME config \in Configs
  PROVE  Capacity \in Nat
<1>1. /\ NbPackets(Receiving) \in Nat /\ config.receive.mtu \in Nat /\ config.rmem_max \in Nat
      /\ DatagramLen(Sending) \in Nat \ {0}
  BY Counts DEF Sending, Receiving
<1>2. WindowWidth * NbPackets(Receiving) * config.receive.mtu \in Nat
  <2>1. WindowWidth * NbPackets(Receiving) \in Nat
    BY <1>1, WidthNat
  <2>2. QED
    BY <2>1, <1>1
<1>3. Asked \in Nat
  <2>1. U32 \in Nat \ {0}
    BY RaptorQAssumption
  <2>2. QED
    BY <1>2, <2>1 DEF Asked
<1>4. Granted \in Nat
  BY <1>1, <1>3 DEF Granted, Smaller
<1>5. QED
  BY <1>1, <1>4, DivMod DEF Capacity

\* A share of a block, in packets.
LEMMA ShareType ==
  ASSUME NEW length \in Nat, NEW percentage \in Nat, NEW size \in Nat \ {0}
  PROVE  Share(length, percentage, size) \in Nat /\ Share(length, 0, size) = 0
<1>1. Hundred \in Nat \ {0} /\ U32 \in Nat \ {0}
  BY RaptorQAssumption
<1>2. PICK n \in Nat : n = length \div Hundred
  BY <1>1, DivMod
<1>3. n * percentage \in Nat /\ n * 0 = 0
  BY <1>2
<1>4. PICK m \in Nat : m = (n * percentage) % U32
  BY <1>1, <1>3, DivMod
<1>5. m \div size \in Nat
  BY <1>4, DivMod
<1>6. Share(length, percentage, size) \in Nat
  BY <1>2, <1>4, <1>5 DEF Share
<1>7. 0 % U32 = 0
  BY <1>1, DivMod
<1>8. 0 \div size = 0
  <2>1. 0 = size * (0 \div size) + (0 % size) /\ 0 \div size \in Nat /\ 0 % size = 0
    BY DivMod
  <2>2. PICK q \in Nat : q = 0 \div size
    BY <2>1
  <2>3. size * q = 0
    BY <2>1, <2>2
  <2>4. q = 0
    BY <2>3
  <2>5. QED
    BY <2>2, <2>4
<1>9. Share(length, 0, size) = 0
  BY <1>2, <1>3, <1>7, <1>8 DEF Share
<1>10. QED
  BY <1>6, <1>9

\* When the two sides agree, they cut a block into the same packets, and the
\* receiver counts at least as many repair packets as the sender makes.
LEMMA AgreeCounts ==
  ASSUME config \in Configs, Agree
  PROVE  /\ Sending.symbol_count = Receiving.symbol_count
         /\ NbPackets(Sending) <= NbPackets(Receiving)
<1> DEFINE mtu == config.send.mtu
           size == MaxPacketSize(mtu)
           symbols == config.send.block \div size
           length == (size * symbols) % U32
           repair == Share(length, config.send.repair, size)
           minimum == Share(length, config.receive.min_repair, size)
<1>1. /\ mtu \in 0 .. (U16 - 1) /\ size # 0
      /\ config.send.block \in Nat /\ config.send.repair \in Nat
      /\ config.receive.min_repair \in Nat
  BY UdpLinkAssumption
<1>2. size \in Nat \ {0} /\ U32 \in Nat \ {0}
  BY <1>1, PacketSize, RaptorQAssumption
<1> DEFINE none == Share(length, 0, size)
<1>3. /\ Sending.symbol_count = symbols /\ Receiving.symbol_count = symbols
      /\ Sending.nb_repair_packets = Larger(repair, none)
      /\ Receiving.nb_repair_packets = Larger(repair, minimum)
  BY DEF Sending, Receiving, SenderOf, ReceiverOf, New, Agree
<1> HIDE DEF size
<1>4. symbols \in Nat
  BY <1>1, <1>2, DivMod
<1> HIDE DEF symbols
<1>5. length \in Nat
  <2>1. size * symbols \in Nat
    BY <1>2, <1>4
  <2>2. QED
    BY <2>1, <1>2
<1> HIDE DEF length
<1>6. repair \in Nat /\ minimum \in Nat /\ none = 0
  BY <1>1, <1>2, <1>5, ShareType
<1> HIDE DEF repair, minimum, none
<1>7. Larger(repair, none) <= Larger(repair, minimum)
      /\ Larger(repair, none) \in Nat /\ Larger(repair, minimum) \in Nat
  BY <1>6 DEF Larger
<1>8. QED
  BY <1>3, <1>4, <1>7 DEF NbPackets

\* The receive buffer holds a window of blocks, when the kernel grants it.
LEMMA CapacityHoldsWindow ==
  ASSUME config \in Configs, Agree,
         config.rmem_max >= WindowWidth * NbPackets(Receiving) * config.receive.mtu,
         PACKET_HEADER_SIZE + RAPTORQ_HEADER_SIZE <= config.send.mtu
  PROVE  WindowWidth * NbPackets(Sending) <= Capacity
<1>1. PICK s \in Nat : s = NbPackets(Sending)
  BY Counts DEF Sending
<1>2. PICK r \in Nat : r = NbPackets(Receiving)
  BY Counts DEF Receiving
<1>3. PICK mtu \in Nat : mtu = config.receive.mtu
  BY Counts
<1>4. PICK d \in Nat \ {0} : d = DatagramLen(Sending)
  BY Counts DEF Sending
<1>5. d <= mtu
  BY <1>3, <1>4, Counts DEF Sending, Agree
<1>6. s <= r
  BY <1>1, <1>2, AgreeCounts
<1>7. PICK w \in Nat : w = WindowWidth
  BY WidthNat
<1>8. PICK a \in Nat : a = w * r
  BY <1>2, <1>7
<1>9. PICK n \in Nat : n = a * mtu
  BY <1>3, <1>8
<1>10. n = WindowWidth * NbPackets(Receiving) * config.receive.mtu
  BY <1>2, <1>3, <1>7, <1>8, <1>9
<1>11. config.rmem_max \in Nat /\ config.rmem_max < U32 /\ U32 \in Nat \ {0}
  BY Counts, RaptorQAssumption
<1>12. Asked = n
  <2>1. n < U32
    BY <1>10, <1>11
  <2>2. n % U32 = n
    BY <2>1, <1>9, <1>11, DivMod
  <2>3. QED
    BY <2>2, <1>10 DEF Asked
<1>13. n <= Granted /\ Granted \in Nat
  BY <1>9, <1>10, <1>11, <1>12 DEF Granted, Smaller
<1>14. a * d <= a * mtu /\ a * d \in Nat
  BY <1>3, <1>4, <1>5, <1>8, TimesGrows
<1>15. a * d <= Granted
  BY <1>9, <1>13, <1>14
<1>16. a <= Granted \div d
  BY <1>4, <1>8, <1>13, <1>15, DivAtLeast
<1>17. w * s <= w * r
  BY <1>1, <1>2, <1>6, <1>7, TimesGrows
<1>18. w * s \in Nat /\ Granted \div d \in Nat
  BY <1>1, <1>4, <1>7, <1>13, DivMod
<1>19. w * s <= Granted \div d
  BY <1>8, <1>16, <1>17, <1>18
<1>20. QED
  BY <1>1, <1>4, <1>7, <1>19 DEF Capacity

-----------------------------------------------------------------------------
(* What one system call of the sender does *)

\* A call takes the first datagrams that are left; those that arrive keep their
\* order, and the others are lost.
Delivers(taken, arrived) ==
  /\ taken \in 0 .. Len(packets)
  /\ arrived \in Seq(Datagrams) /\ Increasing(arrived)
  /\ Values(arrived) \subseteq Values(SubSeq(packets, 1, taken))
  /\ Values(SubSeq(packets, 1, taken)) \subseteq lost' \cup Values(arrived)
  /\ Arrive(arrived)
  /\ packets' = SubSeq(packets, taken + 1, Len(packets))

SomeDelivered == \E taken \in Nat : \E arrived \in Seq(Datagrams) : Delivers(taken, arrived)

LEMMA SurvivingType ==
  ASSUME NEW n \in Nat, NEW f \in Surviving(n)
  PROVE  \E m \in 0 .. n :
           f \in [1 .. m -> 1 .. n] /\ \A i, j \in 1 .. m : i < j => f[i] < f[j]
  BY DEF Surviving

LEMMA SendChunkDelivers ==
  ASSUME TypeInv, Increasing(packets), SendChunk
  PROVE  /\ SomeDelivered
         /\ lost \subseteq lost' /\ lost' \subseteq Datagrams /\ IsFiniteSet(lost')
         /\ sndPc' \in {"recv", "send", "ended"} /\ (sndPc' = "recv" => packets' = <<>>)
         /\ UNCHANGED <<config, blocks, rcvPc, buffers, toReblock>>
<1> DEFINE chunk == Smaller(BatchSize(config.send.batch), Len(packets))
<1>1. PICK l \in Nat : l = Len(packets)
  BY LenProperties DEF TypeInv
<1>2. PICK c \in 0 .. l : c = chunk
  <2>1. BatchSize(config.send.batch) \in Nat \ {0}
    BY Counts DEF TypeInv
  <2>2. chunk \in Int /\ 0 <= chunk /\ chunk <= l
    BY <1>1, <2>1 DEF Smaller
  <2>3. QED
    BY <2>2, <1>1
<1> HIDE DEF chunk
<1>3. PICK taken \in 0 .. c :
        /\ \E f \in Surviving(taken) :
             /\ lost' = lost \cup {packets[i] : i \in (1 .. taken) \ Values(f)}
             /\ Arrive([i \in DOMAIN f |-> packets[f[i]]])
        /\ packets' = SubSeq(packets, taken + 1, Len(packets))
        /\ sndPc' = IF taken < chunk THEN "ended" ELSE IF packets' = <<>> THEN "recv" ELSE "send"
  BY <1>2 DEF SendChunk, chunk
<1>3a. PICK f \in Surviving(taken) :
         /\ lost' = lost \cup {packets[i] : i \in (1 .. taken) \ Values(f)}
         /\ Arrive([i \in DOMAIN f |-> packets[f[i]]])
  BY <1>3
<1>4. taken \in Nat /\ taken \in 0 .. l
  BY <1>1, <1>2, <1>3
<1>5. PICK m \in 0 .. taken :
        f \in [1 .. m -> 1 .. taken] /\ \A i, j \in 1 .. m : i < j => f[i] < f[j]
  BY <1>3a, <1>4, SurvivingType
<1>6. /\ DOMAIN packets = 1 .. l
      /\ \A i \in 1 .. l : packets[i] \in Datagrams
      /\ 1 .. taken \subseteq 1 .. l
  BY <1>1, <1>4, LenProperties DEF TypeInv
<1> DEFINE arrived == [i \in 1 .. m |-> packets[f[i]]]
<1>7. m \in Nat /\ DOMAIN f = 1 .. m /\ \A i \in 1 .. m : f[i] \in 1 .. taken /\ f[i] \in 1 .. l
  BY <1>4, <1>5, <1>6
<1>8. arrived \in [1 .. m -> Datagrams]
  BY <1>6, <1>7
<1>9. arrived \in Seq(Datagrams) /\ DOMAIN arrived = 1 .. m /\ Len(arrived) = m
  BY <1>7, <1>8
<1>10. \A i \in 1 .. m : arrived[i] = packets[f[i]]
  BY <1>7
<1>11. arrived = [i \in DOMAIN f |-> packets[f[i]]]
  BY <1>7
<1> HIDE DEF arrived
<1>12. Increasing(arrived)
  <2>1. SUFFICES ASSUME NEW i \in 1 .. m, NEW j \in 1 .. m, i < j
                 PROVE  Before(arrived[i], arrived[j])
    BY <1>9 DEF Increasing
  <2>2. f[i] \in 1 .. l /\ f[j] \in 1 .. l /\ f[i] < f[j]
    BY <1>5, <1>7, <2>1
  <2>3. QED
    BY <2>2, <1>6, <1>10 DEF Increasing
<1> DEFINE sent == SubSeq(packets, 1, taken)
<1>13. sent \in Seq(Datagrams) /\ Len(sent) = taken /\ \A i \in 1 .. taken : sent[i] = packets[i]
  BY <1>1, <1>4, Part DEF TypeInv
<1>14. DOMAIN sent = 1 .. taken
  BY <1>13, LenProperties
<1> HIDE DEF sent
<1>15. Values(arrived) \subseteq Values(sent)
  BY <1>7, <1>9, <1>10, <1>13, <1>14 DEF Values
<1>16. Values(sent) \subseteq lost' \cup Values(arrived)
  <2>1. SUFFICES ASSUME NEW i \in 1 .. taken PROVE packets[i] \in lost' \cup Values(arrived)
    BY <1>13, <1>14 DEF Values
  <2>2. CASE i \in Values(f)
    <3>1. PICK j \in 1 .. m : f[j] = i
      BY <2>2, <1>7 DEF Values
    <3>2. QED
      BY <3>1, <1>9, <1>10 DEF Values
  <2>3. CASE i \notin Values(f)
    BY <2>3, <1>3a
  <2>4. QED
    BY <2>2, <2>3
<1>17. SomeDelivered
  <2>1. Delivers(taken, arrived)
    BY <1>1, <1>3, <1>3a, <1>4, <1>9, <1>11, <1>12, <1>15, <1>16 DEF Delivers, sent
  <2>2. QED
    BY <2>1, <1>4, <1>9 DEF SomeDelivered
<1>18. lost \subseteq lost' /\ lost' \subseteq Datagrams
  BY <1>3a, <1>4, <1>6 DEF TypeInv
<1>19. IsFiniteSet(lost')
  <2> DEFINE gone == {packets[i] : i \in (1 .. taken) \ Values(f)}
             all == Values(sent)
  <2>1. IsFiniteSet(all)
    <3>1. Increasing(sent)
      BY <1>1, <1>4, CutOrder DEF TypeInv, sent
    <3>2. QED
      BY <3>1, <1>13, IncreasingCount
  <2>2. gone \subseteq all
    BY <1>13, <1>14 DEF Values
  <2>3. IsFiniteSet(gone)
    BY <2>1, <2>2, FS_Subset
  <2>4. lost' = lost \cup gone
    BY <1>3a
  <2> HIDE DEF gone
  <2>5. QED
    BY <2>3, <2>4, FS_Union DEF TypeInv
<1>20. sndPc' \in {"recv", "send", "ended"} /\ (sndPc' = "recv" => packets' = <<>>)
  BY <1>3
<1>21. UNCHANGED <<config, blocks, rcvPc, buffers, toReblock>>
  BY DEF SendChunk, rcvVars
<1>22. QED
  BY <1>17, <1>18, <1>19, <1>20, <1>21

\* The datagrams that the socket drops arrived when it was full.
LEMMA ArriveFits ==
  ASSUME TypeInv, CapacityInv, NEW arrived \in Seq(Datagrams), Increasing(arrived),
         Arrive(arrived)
  PROVE  LET fit == Fitting(arrived) IN
         /\ fit \in Seq(Datagrams) /\ Increasing(fit) /\ Values(fit) \subseteq Values(arrived)
         /\ socket' = socket \o fit
         /\ Len(socket') \in 0 .. Capacity
         /\ overrun \subseteq overrun'
         /\ \A d \in Values(arrived) \ Values(fit) : \E o \in overrun' : o.dropped = d
         /\ \A o \in overrun' \ overrun :
              /\ o.dropped \in Values(arrived) \ Values(fit)
              /\ Len(socket') = Capacity
              /\ o.kept = {e.blk : e \in Values(socket') \cup {o.dropped}}
<1> DEFINE fit == Fitting(arrived)
<1>1. PICK cap \in Nat : cap = Capacity
  BY CapacityType DEF TypeInv
<1>2. PICK l \in 0 .. cap : l = Len(socket)
  <2>1. Len(socket) \in Nat
    BY LenProperties DEF TypeInv
  <2>2. QED
    BY <2>1, <1>1 DEF CapacityInv
<1>3. PICK n \in Nat : n = Len(arrived)
  BY LenProperties
<1>4. PICK m \in 0 .. n : m = Smaller(n, cap - l) /\ m <= cap - l /\ (m < n => m = cap - l)
  BY <1>1, <1>2, <1>3 DEF Smaller
<1>5. fit = SubSeq(arrived, 1, m)
  BY <1>1, <1>2, <1>3, <1>4 DEF Fitting, Capacity
<1>6. m \in 0 .. Len(arrived)
  BY <1>3, <1>4
<1>7. fit \in Seq(Datagrams) /\ Len(fit) = m
  BY <1>5, <1>6, Part
<1>8. Increasing(fit) /\ Values(fit) \subseteq Values(arrived)
  BY <1>5, <1>6, CutOrder
<1>9. /\ socket' = socket \o fit
      /\ overrun' = overrun \cup
           {[dropped |-> d, kept |-> {e.blk : e \in Values(socket') \cup {d}}] :
              d \in Values(arrived) \ Values(fit)}
  BY DEF Arrive
<1> HIDE DEF fit
<1>10. Len(socket') = l + m
  BY <1>2, <1>7, <1>9, JoinOrder DEF TypeInv
<1>11. Len(socket') \in 0 .. Capacity
  BY <1>1, <1>2, <1>4, <1>10
<1>12. ASSUME Values(arrived) \ Values(fit) # {} PROVE Len(socket') = Capacity
  <2>1. m # n
    <3>1. SUFFICES ASSUME m = n PROVE FALSE
      OBVIOUS
    <3>2. fit = arrived
      BY <3>1, <1>3, <1>5, SubSeqFull
    <3>3. QED
      BY <3>2, <1>12
  <2>2. QED
    BY <2>1, <1>1, <1>2, <1>3, <1>4, <1>10
<1>13. ASSUME NEW d \in Values(arrived) \ Values(fit) PROVE \E o \in overrun' : o.dropped = d
  <2> DEFINE o == [dropped |-> d, kept |-> {e.blk : e \in Values(socket') \cup {d}}]
  <2>1. o \in overrun' /\ o.dropped = d
    BY <1>9
  <2>2. QED
    BY <2>1
<1>14. ASSUME NEW o \in overrun' \ overrun
       PROVE  /\ o.dropped \in Values(arrived) \ Values(fit)
              /\ Len(socket') = Capacity
              /\ o.kept = {e.blk : e \in Values(socket') \cup {o.dropped}}
  <2>1. PICK d \in Values(arrived) \ Values(fit) :
          o = [dropped |-> d, kept |-> {e.blk : e \in Values(socket') \cup {d}}]
    BY <1>9
  <2>2. o.dropped = d /\ o.kept = {e.blk : e \in Values(socket') \cup {d}}
    BY <2>1
  <2>3. QED
    BY <2>2, <1>12
<1>15. overrun \subseteq overrun'
  BY <1>9
<1>16. QED
  BY <1>7, <1>8, <1>9, <1>11, <1>13, <1>14, <1>15 DEF fit

-----------------------------------------------------------------------------
(* The invariant is kept *)

\* The projection of what is handed on.
LEMMA HandedType ==
  ASSUME TypeInv
  PROVE  /\ Handed \in Seq(Datagrams) /\ Len(Handed) = Len(toReblock)
         /\ DOMAIN Handed = DOMAIN toReblock
         /\ \A i \in DOMAIN toReblock :
              /\ Handed[i] = toReblock[i].datagram /\ Handed[i] \in Datagrams
              /\ toReblock[i].msg_len = MsgLen
<1>1. PICK l \in Nat : l = Len(toReblock)
  BY LenProperties DEF TypeInv
<1>2. /\ DOMAIN toReblock = 1 .. l
      /\ \A i \in 1 .. l : toReblock[i] \in [datagram : Datagrams, msg_len : {MsgLen}]
  BY <1>1, LenProperties DEF TypeInv
<1>3. Handed \in [1 .. l -> Datagrams]
  BY <1>2 DEF Handed
<1>4. Handed \in Seq(Datagrams) /\ Len(Handed) = l
  BY <1>3
<1>5. QED
  BY <1>1, <1>2, <1>3, <1>4 DEF Handed

LEMMA NoValues == Values(<<>>) = {} /\ Increasing(<<>>)
  BY DEF Values, Increasing

LEMMA InitLink ==
  ASSUME Init
  PROVE  LinkInv
<1>1. /\ config \in Configs /\ sndPc = "recv" /\ blocks = 0 /\ packets = <<>> /\ socket = <<>>
      /\ lost = {} /\ overrun = {} /\ toReblock = <<>>
      /\ buffers = [i \in 1 .. BatchSize(config.receive.batch) |-> None]
  BY DEF Init
<1>2. TypeInv
  <2>1. BatchSize(config.receive.batch) \in Nat
    BY <1>1, Counts
  <2>2. PICK n \in Nat : n = BatchSize(config.receive.batch)
    BY <2>1
  <2>3. buffers \in [1 .. n -> Datagrams \cup {None}]
    BY <1>1, <2>2
  <2>4. buffers \in Seq(Datagrams \cup {None}) /\ Len(buffers) = n
    BY <2>3
  <2>5. 0 \in 0 .. MaxBlocks
    BY UdpLinkAssumption
  <2>6. IsFiniteSet(lost)
    BY <1>1, FS_EmptySet
  <2>7. QED
    BY <1>1, <2>2, <2>4, <2>5, <2>6 DEF TypeInv
<1>3. Handed = <<>>
  <2>1. Len(Handed) = 0 /\ Handed \in Seq(Datagrams)
    BY <1>1, <1>2, HandedType
  <2>2. QED
    BY <2>1, EmptySeq
<1>4. OrderInv
  BY <1>1, <1>3, NoValues DEF OrderInv, Precede
<1>5. SourceInv
  BY <1>1, <1>3, NoValues DEF SourceInv
<1>6. CapacityInv
  BY <1>1, CapacityType DEF CapacityInv
<1>7. CompleteInv
  BY <1>1 DEF CompleteInv
<1>8. QED
  BY <1>2, <1>4, <1>5, <1>6, <1>7 DEF LinkInv

\* What depends on the options alone stays.
LEMMA OptionsStay ==
  ASSUME config' = config
  PROVE  /\ Sending' = Sending /\ Receiving' = Receiving /\ MsgLen' = MsgLen
         /\ Capacity' = Capacity /\ Agree' = Agree
  BY DEF Sending, Receiving, MsgLen, Capacity, Granted, Asked, Agree

\* What is handed on stays with it.
LEMMA HandedStays ==
  ASSUME toReblock' = toReblock
  PROVE  Handed' = Handed
  BY DEF Handed

LEMMA TakeStep ==
  ASSUME LinkInv, TakeBlock
  PROVE  LinkInv'
<1> USE DEF LinkInv
<1>1. /\ sndPc = "recv" /\ blocks < MaxBlocks /\ blocks' = blocks + 1 /\ sndPc' = "send"
      /\ packets' = [k \in 1 .. NbPackets(Sending) |-> [blk |-> blocks, k |-> k]]
      /\ UNCHANGED <<config, socket, lost, overrun, rcvPc, buffers, toReblock>>
  BY DEF TakeBlock, linkVars, rcvVars
<1>2. /\ Sending' = Sending /\ Receiving' = Receiving /\ MsgLen' = MsgLen
      /\ Capacity' = Capacity /\ Agree' = Agree /\ Handed' = Handed
  BY <1>1, OptionsStay, HandedStays
<1>3. PICK n \in Nat : n = NbPackets(Sending)
  BY Counts DEF Sending, TypeInv
<1>4. blocks \in Nat /\ MaxBlocks \in Nat /\ blocks' \in 0 .. MaxBlocks
  BY <1>1, UdpLinkAssumption DEF TypeInv
<1>5. packets' \in [1 .. n -> Datagrams] /\ \A k \in 1 .. n : packets'[k] = [blk |-> blocks, k |-> k]
  <2>1. \A k \in 1 .. n : [blk |-> blocks, k |-> k] \in Datagrams
    BY <1>3, <1>4 DEF Datagrams
  <2>2. QED
    BY <1>1, <1>3, <2>1
<1>6. packets' \in Seq(Datagrams) /\ Len(packets') = n /\ DOMAIN packets' = 1 .. n
  BY <1>3, <1>5
<1>7. Values(packets') = {[blk |-> blocks, k |-> k] : k \in 1 .. n}
  BY <1>5, <1>6 DEF Values
<1>8. Values(packets) = {}
  BY <1>1, NoValues DEF OrderInv
<1>9. TypeInv'
  BY <1>1, <1>2, <1>4, <1>6 DEF TypeInv
<1>10. OrderInv'
  <2>1. Increasing(packets')
    BY <1>4, <1>5, <1>6 DEF Increasing, Before
  <2>2. \A d \in Values(Handed) \cup Values(socket) : \A e \in Values(packets') : Before(d, e)
    BY <1>7 DEF SourceInv, Before
  <2>3. QED
    BY <1>1, <1>2, <2>1, <2>2 DEF OrderInv, Precede
<1>11. SourceInv'
  <2>1. \A d \in Values(Handed) \cup Values(socket) : d.blk < blocks'
    <3>1. Handed \in Seq(Datagrams) /\ socket \in Seq(Datagrams)
      BY HandedType DEF TypeInv
    <3>2. Values(Handed) \subseteq Datagrams /\ Values(socket) \subseteq Datagrams
      BY <3>1, LenProperties DEF Values
    <3>3. \A d \in Datagrams : d.blk \in Nat
      BY DEF Datagrams
    <3>4. QED
      BY <1>1, <1>4, <3>2, <3>3 DEF SourceInv
  <2>2. \A d \in Values(packets') : d.blk < blocks' /\ d.k \in 1 .. n
    BY <1>1, <1>4, <1>7
  <2>3. QED
    BY <1>1, <1>2, <1>3, <2>1, <2>2 DEF SourceInv
<1>12. CapacityInv'
  BY <1>1, <1>2 DEF CapacityInv
<1>13. CompleteInv'
  <2>1. SUFFICES ASSUME NEW b \in 0 .. (blocks' - 1), NEW k \in 1 .. n
                 PROVE  \/ [blk |-> b, k |-> k] \in lost \cup Values(packets') \cup Values(socket) \cup Values(Handed)
                        \/ \E o \in overrun : o.dropped = [blk |-> b, k |-> k]
    BY <1>1, <1>2, <1>3 DEF CompleteInv
  <2>2. CASE b = blocks
    BY <2>2, <1>7
  <2>3. CASE b # blocks
    <3>1. b \in 0 .. (blocks - 1)
      BY <2>3, <1>1, <1>4
    <3>2. QED
      BY <3>1, <1>3, <1>8 DEF CompleteInv
  <2>4. QED
    BY <2>2, <2>3
<1>14. QED
  BY <1>9, <1>10, <1>11, <1>12, <1>13

\* A full socket and one datagram more are of more blocks than a window has.
LEMMA FullIsWide ==
  ASSUME NEW s \in Seq(Datagrams), Increasing(s), NEW d \in Datagrams, d \notin Values(s),
         NEW n \in Nat, \A e \in Values(s) \cup {d} : e.k \in 1 .. n,
         WindowWidth * n <= Len(s)
  PROVE  Cardinality({e.blk : e \in Values(s) \cup {d}}) > WindowWidth
<1> DEFINE D == Values(s) \cup {d}
           K == {e.blk : e \in D}
           f == [e \in D |-> e.blk]
           g == [e \in D |-> <<e.blk, e.k>>]
<1>1. IsFiniteSet(D) /\ Cardinality(D) = Len(s) + 1
  <2>1. IsFiniteSet(Values(s)) /\ Cardinality(Values(s)) = Len(s)
    BY IncreasingCount
  <2>2. QED
    BY <2>1, FS_AddElement
<1>2. \A e \in D : e \in Datagrams /\ e.k \in 1 .. n
  BY LenProperties DEF Values
<1> HIDE DEF D
<1>3. IsFiniteSet(K)
  <2>1. f \in Surjection(D, K)
    BY DEF Surjection
  <2>2. QED
    BY <2>1, <1>1, FS_Surjection
<1>4. g \in Injection(D, K \X (1 .. n))
  <2>1. g \in [D -> K \X (1 .. n)]
    BY <1>2
  <2>2. ASSUME NEW a \in D, NEW b \in D, g[a] = g[b] PROVE a = b
    <3>1. a.blk = b.blk /\ a.k = b.k
      BY <2>2
    <3>2. a \in Datagrams /\ b \in Datagrams
      BY <1>2
    <3>3. QED
      BY <3>1, <3>2 DEF Datagrams
  <2>3. IsInjective(g)
    BY <2>1, <2>2 DEF IsInjective
  <2>4. QED
    BY <2>1, <2>3 DEF Injection
<1> HIDE DEF K, g
<1>5. IsFiniteSet(1 .. n) /\ Cardinality(1 .. n) = n
  <2>1. /\ IsFiniteSet(1 .. n)
        /\ Cardinality(1 .. n) = IF 1 > n THEN 0 ELSE n - 1 + 1
    BY FS_Interval
  <2>2. QED
    BY <2>1
<1>6. IsFiniteSet(K \X (1 .. n)) /\ Cardinality(K \X (1 .. n)) = Cardinality(K) * n
  BY <1>3, <1>5, FS_Product
<1>7. Cardinality(D) <= Cardinality(K) * n
  BY <1>4, <1>6, FS_Injection
<1>8. PICK w \in Nat : w = WindowWidth
  BY WidthNat
<1>9. PICK c \in Nat : c = Cardinality(K)
  BY <1>3, FS_CardinalityType
<1>10. PICK l \in Nat : l = Len(s)
  BY LenProperties
<1>11. w * n <= l /\ l + 1 <= c * n /\ w * n \in Nat /\ c * n \in Nat
  BY <1>1, <1>7, <1>8, <1>9, <1>10
<1>12. w < c
  BY <1>11, <1>10, FactorLess
<1>13. QED
  BY <1>8, <1>9, <1>12 DEF K, D

\* The MTU of the sender has room for the headers; below them the subtraction of
\* max_packet_size wraps.
HeadersFit == \A c \in Configs : PACKET_HEADER_SIZE + RAPTORQ_HEADER_SIZE <= c.send.mtu

LEMMA SendStep ==
  ASSUME LinkInv, SendChunk
  PROVE  LinkInv' /\ (HeadersFit /\ WindowIsBuffered => WindowIsBuffered')
<1> USE DEF LinkInv
<1>1. /\ lost \subseteq lost' /\ lost' \subseteq Datagrams /\ IsFiniteSet(lost')
      /\ sndPc' \in {"recv", "send", "ended"} /\ (sndPc' = "recv" => packets' = <<>>)
      /\ UNCHANGED <<config, blocks, rcvPc, buffers, toReblock>>
  BY SendChunkDelivers DEF OrderInv
<1>2. /\ Sending' = Sending /\ Receiving' = Receiving /\ MsgLen' = MsgLen
      /\ Capacity' = Capacity /\ Agree' = Agree /\ Handed' = Handed
  BY <1>1, OptionsStay, HandedStays
<1>3. PICK taken \in Nat : \E arrived \in Seq(Datagrams) : Delivers(taken, arrived)
  BY SendChunkDelivers DEF OrderInv, SomeDelivered
<1>4. PICK arrived \in Seq(Datagrams) : Delivers(taken, arrived)
  BY <1>3
<1> DEFINE sent == SubSeq(packets, 1, taken)
           fit == Fitting(arrived)
<1>5. /\ taken \in 0 .. Len(packets) /\ Increasing(arrived)
      /\ Values(arrived) \subseteq Values(sent)
      /\ Values(sent) \subseteq lost' \cup Values(arrived)
      /\ Arrive(arrived)
      /\ packets' = SubSeq(packets, taken + 1, Len(packets))
  BY <1>4 DEF Delivers
<1>6. packets \in Seq(Datagrams) /\ socket \in Seq(Datagrams) /\ Increasing(packets)
  BY DEF TypeInv, OrderInv
<1>7. /\ packets' \in Seq(Datagrams) /\ Increasing(packets')
      /\ Values(packets) = Values(sent) \cup Values(packets')
      /\ Precede(Values(sent), Values(packets'))
  BY <1>5, <1>6, CutOrder, Part
<1>8. /\ fit \in Seq(Datagrams) /\ Increasing(fit) /\ Values(fit) \subseteq Values(arrived)
      /\ socket' = socket \o fit
      /\ Len(socket') \in 0 .. Capacity
      /\ overrun \subseteq overrun'
      /\ \A d \in Values(arrived) \ Values(fit) : \E o \in overrun' : o.dropped = d
      /\ \A o \in overrun' \ overrun :
           /\ o.dropped \in Values(arrived) \ Values(fit)
           /\ Len(socket') = Capacity
           /\ o.kept = {e.blk : e \in Values(socket') \cup {o.dropped}}
  BY <1>5, ArriveFits
<1> HIDE DEF sent, fit
<1>9. Precede(Values(socket), Values(fit))
  BY <1>5, <1>7, <1>8 DEF OrderInv, Precede
<1>10. /\ socket' \in Seq(Datagrams) /\ Values(socket') = Values(socket) \cup Values(fit)
       /\ Increasing(socket')
  BY <1>6, <1>8, <1>9, JoinOrder DEF OrderInv
<1>11. TypeInv'
  BY <1>1, <1>2, <1>7, <1>10 DEF TypeInv
<1>12. OrderInv'
  <2>1. Precede(Values(Handed), Values(socket'))
    BY <1>5, <1>7, <1>8, <1>10 DEF OrderInv, Precede
  <2>2. Precede(Values(Handed), Values(packets'))
    BY <1>7 DEF OrderInv, Precede
  <2>3. Precede(Values(socket'), Values(packets'))
    BY <1>5, <1>7, <1>8, <1>10 DEF OrderInv, Precede
  <2>4. Increasing(Handed)
    BY DEF OrderInv
  <2>5. QED
    BY <1>1, <1>2, <1>7, <1>10, <2>1, <2>2, <2>3, <2>4 DEF OrderInv
<1>13. SourceInv'
  <2>1. Values(socket') \subseteq Values(socket) \cup Values(packets)
    BY <1>5, <1>7, <1>8, <1>10
  <2>2. QED
    BY <1>1, <1>2, <1>7, <2>1 DEF SourceInv
<1>14. CapacityInv'
  <2>1. Capacity \in Nat
    BY CapacityType DEF TypeInv
  <2>2. QED
    BY <1>2, <1>8, <2>1 DEF CapacityInv
<1>15. CompleteInv'
  <2>1. ASSUME NEW b \in 0 .. (blocks - 1), NEW k \in 1 .. NbPackets(Sending)
        PROVE  \/ [blk |-> b, k |-> k] \in
                    lost' \cup Values(packets') \cup Values(socket') \cup Values(Handed)
               \/ \E o \in overrun' : o.dropped = [blk |-> b, k |-> k]
    <3> DEFINE d == [blk |-> b, k |-> k]
    <3>1. \/ d \in lost \cup Values(packets) \cup Values(socket) \cup Values(Handed)
          \/ \E o \in overrun : o.dropped = d
      BY <2>1 DEF CompleteInv
    <3> HIDE DEF d
    <3>2. \/ d \in lost' \cup Values(packets') \cup Values(socket') \cup Values(Handed)
          \/ \E o \in overrun' : o.dropped = d
      BY <3>1, <1>1, <1>5, <1>7, <1>8, <1>10
    <3>3. QED
      BY <3>2 DEF d
  <2>2. QED
    BY <1>1, <1>2, <2>1 DEF CompleteInv
<1>16. ASSUME HeadersFit, WindowIsBuffered PROVE WindowIsBuffered'
  <2>1. SUFFICES ASSUME Agree,
                        config.rmem_max >= WindowWidth * NbPackets(Receiving) * config.receive.mtu,
                        NEW o \in overrun'
                 PROVE  Cardinality(o.kept) > WindowWidth
    BY <1>1, <1>2 DEF WindowIsBuffered
  <2>2. CASE o \in overrun
    BY <2>1, <2>2, <1>16 DEF WindowIsBuffered
  <2>3. CASE o \notin overrun
    <3> DEFINE d == o.dropped
    <3>1. /\ d \in Values(packets) /\ d \notin Values(fit)
          /\ Len(socket') = Capacity
          /\ o.kept = {e.blk : e \in Values(socket') \cup {d}}
      BY <2>1, <2>3, <1>5, <1>7, <1>8
    <3> HIDE DEF d
    <3>2. d \in Datagrams
      BY <3>1, <1>6, LenProperties DEF Values
    <3>3. d \notin Values(socket')
      BY <3>1, <3>2, <1>10, BeforeOrder DEF OrderInv, Precede
    <3>4. PICK n \in Nat : n = NbPackets(Sending)
      BY Counts DEF TypeInv, Sending
    <3>5. \A e \in Values(socket') \cup {d} : e.k \in 1 .. n
      BY <1>5, <1>7, <1>8, <1>10, <3>1, <3>4 DEF SourceInv
    <3>6. WindowWidth * n <= Len(socket')
      <4>1. config \in Configs
        BY DEF TypeInv
      <4>2. PACKET_HEADER_SIZE + RAPTORQ_HEADER_SIZE <= config.send.mtu
        BY <4>1, <1>16 DEF HeadersFit
      <4>3. WindowWidth * NbPackets(Sending) <= Capacity
        BY <4>1, <4>2, <2>1, CapacityHoldsWindow
      <4>4. QED
        BY <4>3, <3>1, <3>4
    <3>7. Cardinality({e.blk : e \in Values(socket') \cup {d}}) > WindowWidth
      BY <1>10, <3>2, <3>3, <3>4, <3>5, <3>6, FullIsWide
    <3>8. QED
      BY <3>1, <3>7
  <2>4. QED
    BY <2>2, <2>3
<1>17. QED
  BY <1>11, <1>12, <1>13, <1>14, <1>15, <1>16

\* A call of the receiver hands on the first datagrams of the socket.
Hands(n) ==
  /\ n \in 0 .. Len(socket)
  /\ Handed' = Handed \o SubSeq(socket, 1, n)
  /\ socket' = SubSeq(socket, n + 1, Len(socket))

SomeHanded == \E n \in Nat : Hands(n)

LEMMA RecvHands ==
  ASSUME TypeInv, Recv
  PROVE  /\ SomeHanded /\ TypeInv'
         /\ UNCHANGED <<config, sndPc, blocks, packets, lost, overrun, rcvPc>>
<1> DEFINE n0 == Smaller(BatchSize(config.receive.batch), Len(socket))
           Pass == [datagram : Datagrams, msg_len : {MsgLen}]
<1>1. /\ buffers' = [i \in DOMAIN buffers |-> IF i <= n0 THEN socket[i] ELSE buffers[i]]
      /\ toReblock' = toReblock \o
           [i \in 1 .. Len(Filled(buffers', n0)) |->
              [datagram |-> Filled(buffers', n0)[i], msg_len |-> MsgLen]]
      /\ socket' = SubSeq(socket, n0 + 1, Len(socket))
      /\ UNCHANGED <<config, sndPc, blocks, packets, lost, overrun, rcvPc>>
  BY DEF Recv, sendVars, MsgLen
<1>2. PICK size \in Nat \ {0} : size = BatchSize(config.receive.batch)
  BY Counts DEF TypeInv
<1>3. PICK l \in Nat : l = Len(socket)
  BY LenProperties DEF TypeInv
<1>4. PICK n \in Nat : n = n0
  BY <1>2, <1>3 DEF Smaller
<1>5. n <= size /\ n \in 0 .. l
  BY <1>2, <1>3, <1>4 DEF Smaller
<1> HIDE DEF n0
<1>6. DOMAIN socket = 1 .. l /\ \A i \in 1 .. l : socket[i] \in Datagrams
  BY <1>3, LenProperties DEF TypeInv
<1>7. DOMAIN buffers = 1 .. size /\ \A i \in 1 .. size : buffers[i] \in Datagrams \cup {None}
  BY <1>2, LenProperties DEF TypeInv
<1>8. buffers' \in [1 .. size -> Datagrams \cup {None}]
  <2>1. buffers' = [i \in 1 .. size |-> IF i <= n THEN socket[i] ELSE buffers[i]]
    BY <1>1, <1>4, <1>7
  <2>2. \A i \in 1 .. size : (IF i <= n THEN socket[i] ELSE buffers[i]) \in Datagrams \cup {None}
    <3>1. SUFFICES ASSUME NEW i \in 1 .. size
                   PROVE  (IF i <= n THEN socket[i] ELSE buffers[i]) \in Datagrams \cup {None}
      OBVIOUS
    <3>2. CASE i <= n
      <4>1. i \in 1 .. l
        BY <3>2, <1>5, <1>3, <1>2
      <4>2. QED
        BY <4>1, <3>2, <1>6
    <3>3. CASE ~(i <= n)
      BY <3>3, <1>7
    <3>4. QED
      BY <3>2, <3>3
  <2>3. QED
    BY <2>1, <2>2
<1>9. buffers' \in Seq(Datagrams \cup {None}) /\ Len(buffers') = size
  BY <1>2, <1>8
<1>10. \A i \in 1 .. n : i \in 1 .. size /\ i \in 1 .. l /\ buffers'[i] = socket[i]
  BY <1>1, <1>2, <1>3, <1>4, <1>5, <1>7
<1> DEFINE filled == SubSeq(buffers', 1, n)
<1>11. Len(filled) = n /\ \A i \in 1 .. n : filled[i] = socket[i]
  <2>1. n \in 0 .. Len(buffers')
    BY <1>4, <1>5, <1>9
  <2>2. Len(filled) = n /\ \A i \in 1 .. n : filled[i] = buffers'[i]
    BY <2>1, <1>9, Part
  <2>3. QED
    BY <2>2, <1>10
<1>12. filled = Filled(buffers', n0)
  BY <1>4 DEF Filled
<1> HIDE DEF filled
<1> DEFINE new == [i \in 1 .. n |-> [datagram |-> socket[i], msg_len |-> MsgLen]]
<1>13. toReblock' = toReblock \o new
  <2>1. new = [i \in 1 .. Len(filled) |-> [datagram |-> filled[i], msg_len |-> MsgLen]]
    BY <1>11
  <2> HIDE DEF new
  <2>2. QED
    BY <2>1, <1>1, <1>12
<1>14. new \in [1 .. n -> Pass] /\ \A i \in 1 .. n : new[i].datagram = socket[i]
  <2>1. \A i \in 1 .. n : [datagram |-> socket[i], msg_len |-> MsgLen] \in Pass
    BY <1>6, <1>10
  <2>2. QED
    BY <2>1
<1>15. new \in Seq(Pass) /\ Len(new) = n
  BY <1>4, <1>14
<1> HIDE DEF new, Pass
<1>16. toReblock \in Seq(Pass)
  BY DEF TypeInv, Pass
<1>17. PICK m \in Nat : m = Len(toReblock)
  BY <1>16, LenProperties
<1>18. /\ toReblock' \in Seq(Pass) /\ Len(toReblock') = m + n
       /\ \A i \in 1 .. (m + n) : toReblock'[i] = IF i <= m THEN toReblock[i] ELSE new[i - m]
  BY <1>13, <1>15, <1>16, <1>17, ConcatProperties
<1>19. /\ Sending' = Sending /\ MsgLen' = MsgLen
  BY <1>1, OptionsStay
<1>20. n \in 0 .. Len(socket) /\ socket' = SubSeq(socket, n + 1, Len(socket))
  BY <1>1, <1>3, <1>4, <1>5
<1>21. TypeInv'
  <2>1. socket' \in Seq(Datagrams)
    BY <1>20, Part DEF TypeInv
  <2>2. QED
    BY <1>1, <1>2, <1>9, <1>18, <1>19, <2>1 DEF TypeInv, Pass
<1> DEFINE first == SubSeq(socket, 1, n)
<1>22. /\ first \in Seq(Datagrams) /\ Len(first) = n /\ \A i \in 1 .. n : first[i] = socket[i]
  BY <1>20, Part DEF TypeInv
<1> HIDE DEF first
<1>23. /\ Handed \in Seq(Datagrams) /\ Len(Handed) = m
       /\ \A i \in 1 .. m : Handed[i] = toReblock[i].datagram
  BY <1>16, <1>17, HandedType, LenProperties
<1>24. /\ Handed' \in Seq(Datagrams) /\ Len(Handed') = m + n
       /\ \A i \in 1 .. (m + n) : Handed'[i] = toReblock'[i].datagram
  <2>1. /\ DOMAIN toReblock' = 1 .. (m + n)
        /\ \A i \in 1 .. (m + n) : toReblock'[i] \in Pass
    BY <1>4, <1>17, <1>18, LenProperties
  <2>2. Handed' = [i \in 1 .. (m + n) |-> toReblock'[i].datagram]
    BY <2>1 DEF Handed
  <2>3. \A i \in 1 .. (m + n) : toReblock'[i].datagram \in Datagrams
    BY <2>1 DEF Pass
  <2>4. Handed' \in [1 .. (m + n) -> Datagrams]
    BY <2>2, <2>3
  <2>5. m + n \in Nat
    BY <1>4, <1>17
  <2>6. QED
    BY <2>2, <2>4, <2>5
<1>25. /\ Handed \o first \in Seq(Datagrams) /\ Len(Handed \o first) = m + n
       /\ \A i \in 1 .. (m + n) : (Handed \o first)[i] = IF i <= m THEN Handed[i] ELSE first[i - m]
  BY <1>22, <1>23, ConcatProperties
<1>26. ASSUME NEW i \in 1 .. (m + n) PROVE Handed'[i] = (Handed \o first)[i]
  <2>1. CASE i <= m
    <3>1. i \in 1 .. m
      BY <2>1, <1>4, <1>17
    <3>2. Handed'[i] = toReblock[i].datagram
      BY <2>1, <1>18, <1>24
    <3>3. (Handed \o first)[i] = Handed[i]
      BY <2>1, <1>25
    <3>4. QED
      BY <3>1, <3>2, <3>3, <1>23
  <2>2. CASE ~(i <= m)
    <3>1. i - m \in 1 .. n
      BY <2>2, <1>4, <1>17
    <3>2. toReblock'[i] = new[i - m] /\ new[i - m].datagram = socket[i - m]
      BY <3>1, <2>2, <1>14, <1>18
    <3>3. (Handed \o first)[i] = first[i - m] /\ first[i - m] = socket[i - m]
      BY <3>1, <2>2, <1>22, <1>25
    <3>4. QED
      BY <3>2, <3>3, <1>24
  <2>3. QED
    BY <2>1, <2>2
<1>27. Handed' = Handed \o first
  BY <1>24, <1>25, <1>26, SeqEqual
<1>28. SomeHanded
  <2>1. Hands(n)
    BY <1>20, <1>27 DEF Hands, first
  <2>2. QED
    BY <2>1, <1>4 DEF SomeHanded
<1>29. QED
  BY <1>1, <1>21, <1>28

LEMMA RecvStep ==
  ASSUME LinkInv, Recv
  PROVE  LinkInv'
<1> USE DEF LinkInv
<1>1. TypeInv' /\ UNCHANGED <<config, sndPc, blocks, packets, lost, overrun, rcvPc>>
  BY RecvHands
<1>2. /\ Sending' = Sending /\ Receiving' = Receiving /\ MsgLen' = MsgLen
      /\ Capacity' = Capacity /\ Agree' = Agree
  BY <1>1, OptionsStay
<1>3. PICK n \in Nat : Hands(n)
  BY RecvHands DEF SomeHanded
<1> DEFINE first == SubSeq(socket, 1, n)
<1>4. /\ n \in 0 .. Len(socket) /\ Handed' = Handed \o first
      /\ socket' = SubSeq(socket, n + 1, Len(socket))
  BY <1>3 DEF Hands
<1>5. /\ socket \in Seq(Datagrams) /\ Increasing(socket)
      /\ Handed \in Seq(Datagrams) /\ Increasing(Handed)
  BY HandedType DEF TypeInv, OrderInv
<1>6. /\ Increasing(first) /\ Increasing(socket')
      /\ Values(socket) = Values(first) \cup Values(socket')
      /\ Precede(Values(first), Values(socket'))
  BY <1>4, <1>5, CutOrder
<1>7. first \in Seq(Datagrams) /\ socket' \in Seq(Datagrams) /\ Len(socket') = Len(socket) - n
  BY <1>4, <1>5, Part
<1> HIDE DEF first
<1>8. Precede(Values(Handed), Values(first))
  BY <1>6 DEF OrderInv, Precede
<1>9. Increasing(Handed') /\ Values(Handed') = Values(Handed) \cup Values(first)
  BY <1>4, <1>5, <1>6, <1>7, <1>8, JoinOrder
<1>10. OrderInv'
  <2>1. Precede(Values(Handed'), Values(socket'))
    BY <1>6, <1>9 DEF OrderInv, Precede
  <2>2. Precede(Values(Handed'), Values(packets))
    BY <1>6, <1>9 DEF OrderInv, Precede
  <2>3. Precede(Values(socket'), Values(packets))
    BY <1>6 DEF OrderInv, Precede
  <2>4. QED
    BY <1>1, <1>6, <1>9, <2>1, <2>2, <2>3 DEF OrderInv
<1>11. SourceInv'
  BY <1>1, <1>2, <1>6, <1>9 DEF SourceInv
<1>12. CapacityInv'
  <2>1. PICK l \in Nat : l = Len(socket)
    BY <1>5, LenProperties
  <2>2. PICK cap \in Nat : cap = Capacity
    BY CapacityType DEF TypeInv
  <2>3. Len(socket') = l - n /\ n \in 0 .. l /\ l <= cap
    BY <2>1, <2>2, <1>4, <1>7 DEF CapacityInv
  <2>4. l - n <= cap
    BY <2>1, <2>2, <2>3
  <2>5. QED
    BY <2>2, <2>3, <2>4, <1>2 DEF CapacityInv
<1>13. CompleteInv'
  BY <1>1, <1>2, <1>6, <1>9 DEF CompleteInv
<1>14. QED
  BY <1>1, <1>10, <1>11, <1>12, <1>13

\* What the other steps leave alone.
LEMMA LinkStutters ==
  ASSUME LinkInv, RecvFails \/ UNCHANGED vars
  PROVE  LinkInv'
<1>1. UNCHANGED <<config, sndPc, blocks, packets, socket, lost, overrun, buffers, toReblock>>
  BY DEF RecvFails, vars, sendVars, linkVars, rcvVars
<1>2. /\ Sending' = Sending /\ Receiving' = Receiving /\ MsgLen' = MsgLen
      /\ Capacity' = Capacity /\ Agree' = Agree /\ Handed' = Handed
  BY <1>1, OptionsStay, HandedStays
<1>3. TypeInv'
  BY <1>1, <1>2 DEF LinkInv, TypeInv
<1>4. OrderInv' /\ SourceInv'
  BY <1>1, <1>2 DEF LinkInv, OrderInv, SourceInv
<1>5. CapacityInv' /\ CompleteInv'
  BY <1>1, <1>2 DEF LinkInv, CapacityInv, CompleteInv
<1>6. QED
  BY <1>3, <1>4, <1>5 DEF LinkInv

\* The other steps drop no datagrams.
LEMMA WindowStays ==
  ASSUME WindowIsBuffered, TakeBlock \/ Recv \/ RecvFails \/ UNCHANGED vars
  PROVE  WindowIsBuffered'
<1>1. UNCHANGED <<config, overrun>>
  BY DEF TakeBlock, Recv, RecvFails, vars, sendVars, linkVars, rcvVars
<1>2. Receiving' = Receiving /\ Agree' = Agree
  BY <1>1, OptionsStay
<1>3. QED
  BY <1>1, <1>2 DEF WindowIsBuffered

LEMMA LinkStep ==
  ASSUME LinkInv, [Next]_vars
  PROVE  LinkInv' /\ (HeadersFit /\ WindowIsBuffered => WindowIsBuffered')
<1>1. CASE TakeBlock
  BY <1>1, TakeStep, WindowStays
<1>2. CASE SendChunk
  BY <1>2, SendStep
<1>3. CASE Recv
  BY <1>3, RecvStep, WindowStays
<1>4. CASE RecvFails \/ UNCHANGED vars
  BY <1>4, LinkStutters, WindowStays
<1>5. QED
  BY <1>1, <1>2, <1>3, <1>4 DEF Next

\* The invariant of the two workers and the link between them.
THEOREM LinkInvariant == Spec => []LinkInv
<1>1. Init => LinkInv
  BY InitLink
<1>2. LinkInv /\ [Next]_vars => LinkInv'
  BY LinkStep
<1>3. QED
  BY <1>1, <1>2, PTL DEF Spec

-----------------------------------------------------------------------------
(* The properties *)

LEMMA OrderedAndWhole ==
  ASSUME LinkInv, HeadersFit
  PROVE  ReceivedIsSent
<1>1. /\ \A i \in DOMAIN toReblock :
           /\ Handed[i] = toReblock[i].datagram /\ Handed[i] \in Datagrams
           /\ toReblock[i].msg_len = MsgLen
      /\ DOMAIN Handed = DOMAIN toReblock
  BY HandedType DEF LinkInv
<1>2. \A i \in DOMAIN toReblock : toReblock[i].datagram # None
  BY <1>1, UdpLinkAssumption
<1>3. ASSUME NEW i \in DOMAIN toReblock, NEW j \in DOMAIN toReblock, i < j
      PROVE  Before(toReblock[i].datagram, toReblock[j].datagram)
  BY <1>1, <1>3 DEF LinkInv, OrderInv, Increasing
<1>4. ASSUME config.send.mtu <= config.receive.mtu
      PROVE  MsgLen = DatagramLen(Sending)
  <2>1. config \in Configs
    BY DEF LinkInv, TypeInv
  <2>2. DatagramLen(Sending) <= config.send.mtu
    BY <2>1, Counts DEF HeadersFit, Sending
  <2>3. PICK d \in Nat : d = DatagramLen(Sending)
    BY <2>1, Counts DEF Sending
  <2>4. config.send.mtu \in Nat /\ config.receive.mtu \in Nat
    BY <2>1, Counts
  <2>5. d <= config.receive.mtu
    BY <2>2, <2>3, <2>4, <1>4
  <2>6. Smaller(d, config.receive.mtu) = d
    BY <2>5, <2>3, <2>4 DEF Smaller
  <2>7. QED
    BY <2>3, <2>6 DEF MsgLen
<1>5. QED
  BY <1>1, <1>2, <1>3, <1>4 DEF ReceivedIsSent, Before

\* What is passed on to reblock is what the sender sent, each datagram once, in
\* order and whole, for any batches, sizes and losses, if the headers of a packet
\* fit into the MTU (ReceivedIsSent).
THEOREM ReceivedAsSent == HeadersFit => (Spec => []ReceivedIsSent)
<1>1. SUFFICES ASSUME HeadersFit PROVE Spec => []ReceivedIsSent
  OBVIOUS
<1>2. LinkInv => ReceivedIsSent
  BY <1>1, OrderedAndWhole
<1>3. QED
  BY <1>2, LinkInvariant, PTL

\* Every datagram of a block that the link is through with is lost or handed on.
LEMMA PassedCount ==
  ASSUME LinkInv, NEW b \in Nat, Passed(b)
  PROVE  /\ Count(b) \in Nat /\ Cardinality({d \in lost : d.blk = b}) \in Nat
         /\ NbPackets(Sending) <= Cardinality({d \in lost : d.blk = b}) + Count(b)
<1> DEFINE I == {i \in DOMAIN toReblock : toReblock[i].datagram.blk = b}
           G == {d \in lost : d.blk = b}
           H == {Handed[i] : i \in I}
           h == [i \in I |-> Handed[i]]
<1>1. PICK n \in Nat : n = NbPackets(Sending)
  BY Counts DEF LinkInv, TypeInv, Sending
<1> DEFINE A == {[blk |-> b, k |-> k] : k \in 1 .. n}
           a == [k \in 1 .. n |-> [blk |-> b, k |-> k]]
<1>2. /\ DOMAIN Handed = DOMAIN toReblock
      /\ \A i \in DOMAIN toReblock : Handed[i] = toReblock[i].datagram
  BY HandedType DEF LinkInv
<1>3. A \subseteq G \cup H
  <2>1. SUFFICES ASSUME NEW k \in 1 .. n PROVE [blk |-> b, k |-> k] \in G \cup H
    OBVIOUS
  <2> DEFINE d == [blk |-> b, k |-> k]
  <2>2. b \in 0 .. (blocks - 1)
    BY DEF Passed, LinkInv, TypeInv
  <2>3. \/ d \in lost \cup Values(packets) \cup Values(socket) \cup Values(Handed)
        \/ \E o \in overrun : o.dropped = d
    BY <2>2, <1>1 DEF LinkInv, CompleteInv
  <2>4. d.blk = b
    OBVIOUS
  <2> HIDE DEF d
  <2>5. d \in lost \cup Values(Handed)
    BY <2>3, <2>4 DEF Passed
  <2>6. ASSUME d \in Values(Handed) PROVE d \in H
    <3>1. PICK i \in DOMAIN toReblock : Handed[i] = d
      BY <2>6, <1>2 DEF Values
    <3>2. i \in I
      BY <3>1, <2>4, <1>2
    <3>3. QED
      BY <3>1, <3>2
  <2>7. QED
    BY <2>4, <2>5, <2>6 DEF d
<1>4. IsFiniteSet(I)
  <2>1. PICK l \in Nat : DOMAIN toReblock = 1 .. l
    BY LenProperties DEF LinkInv, TypeInv
  <2>2. IsFiniteSet(1 .. l)
    BY FS_Interval
  <2>3. QED
    BY <2>1, <2>2, FS_Subset
<1>5. IsFiniteSet(G)
  BY FS_Subset DEF LinkInv, TypeInv
<1>6. IsFiniteSet(1 .. n) /\ Cardinality(1 .. n) = n
  <2>1. /\ IsFiniteSet(1 .. n)
        /\ Cardinality(1 .. n) = IF 1 > n THEN 0 ELSE n - 1 + 1
    BY FS_Interval
  <2>2. QED
    BY <2>1
<1>7. h \in Surjection(I, H)
  BY DEF Surjection
<1>8. a \in Surjection(1 .. n, A)
  BY DEF Surjection
<1>9. a \in Injection(1 .. n, A)
  <2>1. \A j, k \in 1 .. n : a[j] = a[k] => j = k
    <3>1. SUFFICES ASSUME NEW j \in 1 .. n, NEW k \in 1 .. n, a[j] = a[k] PROVE j = k
      OBVIOUS
    <3>2. a[j].k = j /\ a[k].k = k
      OBVIOUS
    <3>3. QED
      BY <3>1, <3>2
  <2>2. DOMAIN a = 1 .. n /\ a \in [1 .. n -> A]
    BY <1>8 DEF Surjection
  <2> HIDE DEF a
  <2>3. IsInjective(a)
    BY <2>1, <2>2 DEF IsInjective
  <2>4. QED
    BY <2>2, <2>3 DEF Injection
<1> HIDE DEF I, G, H, h, A, a
<1>10. IsFiniteSet(H) /\ Cardinality(H) <= Cardinality(I)
  BY <1>4, <1>7, FS_Surjection
<1>11. IsFiniteSet(A) /\ Cardinality(A) = n
  BY <1>6, <1>8, <1>9, FS_Surjection
<1>12. IsFiniteSet(G \cup H) /\ Cardinality(A) <= Cardinality(G \cup H)
  BY <1>3, <1>5, <1>10, FS_Union, FS_Subset
<1>13. Cardinality(G \cup H) <= Cardinality(G) + Cardinality(H)
  <2>1. Cardinality(G \cup H) = Cardinality(G) + Cardinality(H) - Cardinality(G \cap H)
    BY <1>5, <1>10, FS_Union
  <2>2. PICK x \in Nat : x = Cardinality(G \cap H)
    BY <1>5, FS_Intersection, FS_CardinalityType
  <2>3. PICK y \in Nat : y = Cardinality(G)
    BY <1>5, FS_CardinalityType
  <2>4. PICK z \in Nat : z = Cardinality(H)
    BY <1>10, FS_CardinalityType
  <2>5. QED
    BY <2>1, <2>2, <2>3, <2>4
<1>14. PICK g \in Nat : g = Cardinality(G)
  BY <1>5, FS_CardinalityType
<1>15. PICK c \in Nat : c = Cardinality(I)
  BY <1>4, FS_CardinalityType
<1>16. PICK x \in Nat : x = Cardinality(H)
  BY <1>10, FS_CardinalityType
<1>17. PICK y \in Nat : y = Cardinality(G \cup H)
  BY <1>12, FS_CardinalityType
<1>18. n <= y /\ y <= g + x /\ x <= c
  BY <1>10, <1>11, <1>12, <1>13, <1>14, <1>15, <1>16, <1>17
<1>19. n <= g + c
  BY <1>14, <1>15, <1>16, <1>17, <1>18
<1>20. Count(b) = c
  BY <1>15 DEF Count, I
<1>21. QED
  BY <1>1, <1>14, <1>15, <1>19, <1>20 DEF G

LEMMA Enough ==
  ASSUME LinkInv
  PROVE  EnoughArrive
<1>1. SUFFICES ASSUME Agree, NEW b \in 0 .. (MaxBlocks - 1), Passed(b),
                      Cardinality({d \in lost : d.blk = b})
                        <= Sending.nb_repair_packets - Receiving.min_nb_repair_packets
               PROVE  Count(b) >= MinNbPackets(Receiving)
  BY DEF EnoughArrive
<1>2. b \in Nat /\ config \in Configs
  BY UdpLinkAssumption DEF LinkInv, TypeInv
<1>3. PICK c \in Nat : c = Count(b)
  BY <1>1, <1>2, PassedCount
<1>4. PICK g \in Nat : g = Cardinality({d \in lost : d.blk = b})
  BY <1>1, <1>2, PassedCount
<1>5. Accepted(Sending) /\ Accepted(Receiving) /\ U16 \in Nat \ {0}
  BY <1>2, UdpLinkAssumption, RaptorQAssumption DEF Sending, Receiving
<1>6. PICK repair \in Nat : repair = Sending.nb_repair_packets
  BY <1>5 DEF Accepted
<1>7. PICK minimum \in Nat : minimum = Receiving.min_nb_repair_packets
  BY <1>5 DEF Accepted
<1>8. PICK symbols \in Nat : symbols = Sending.symbol_count /\ symbols = Receiving.symbol_count
  BY <1>1, <1>2, <1>5, AgreeCounts DEF Accepted
<1>9. symbols + repair <= g + c
  BY <1>1, <1>2, <1>3, <1>4, <1>6, <1>8, PassedCount DEF NbPackets
<1>10. g <= repair - minimum
  BY <1>1, <1>4, <1>6, <1>7
<1>11. symbols + minimum <= c
  BY <1>3, <1>4, <1>6, <1>7, <1>8, <1>9, <1>10
<1>12. PICK m \in Nat : m = symbols + minimum
  BY <1>7, <1>8
<1>13. m % U16 <= m /\ m % U16 \in Nat
  <2>1. m % U16 \in Nat
    BY <1>5, <1>12
  <2>2. m % U16 <= m
    BY <1>5, <1>12, DivMod
  <2>3. QED
    BY <2>1, <2>2
<1>14. MinNbPackets(Receiving) = m % U16
  BY <1>7, <1>8, <1>12 DEF MinNbPackets
<1>15. m % U16 <= c
  BY <1>3, <1>11, <1>12, <1>13
<1>16. QED
  BY <1>3, <1>14, <1>15

\* When the two sides agree, a block of which no more datagrams are lost than the
\* sender added and the receiver does not ask for arrives complete enough to be
\* decoded, for any sizes, batches and receive buffer (EnoughArrive).
THEOREM EnoughAlwaysArrive == Spec => []EnoughArrive
<1>1. LinkInv => EnoughArrive
  BY Enough
<1>2. QED
  BY <1>1, LinkInvariant, PTL

\* "lidi can bufferize 127 blocks": when the kernel grants the receive buffer, it
\* overruns only when it holds datagrams of more blocks than a window has
\* (WindowIsBuffered).
THEOREM BuffersAWindow == HeadersFit => (Spec => []WindowIsBuffered)
<1>1. SUFFICES ASSUME HeadersFit PROVE Spec => []WindowIsBuffered
  OBVIOUS
<1>2. Init => WindowIsBuffered
  BY DEF Init, WindowIsBuffered
<1>3. LinkInv /\ WindowIsBuffered /\ [Next]_vars => WindowIsBuffered'
  BY <1>1, LinkStep
<1>4. QED
  BY <1>2, <1>3, LinkInvariant, PTL DEF Spec

=============================================================================
