---------------------------- MODULE SenderProofs ----------------------------
(***************************************************************************)
(* Proofs about the sending half: any number of clients, server threads,   *)
(* encoders and heartbeats, streams of any length, any configuration.      *)
(***************************************************************************)
EXTENDS Sender, SequenceTheorems, FiniteSetTheorems, TLAPS

-----------------------------------------------------------------------------
(* The constants *)

LEMMA ServersFacts ==
  /\ IsFiniteSet(Servers)
  /\ Servers \subseteq Nat
  /\ \A k \in Configs : k.max_clients \in Nat /\ 1 .. k.max_clients \subseteq Servers
<1>1. \A k \in Configs : k.max_clients \in Nat
  BY SenderAssumption
<1>2. \A k \in Configs : 1 .. k.max_clients \subseteq Servers
  BY DEF Servers
<1>3. Servers \subseteq Nat
  BY <1>1 DEF Servers
<1>4. IsFiniteSet({1 .. k.max_clients : k \in Configs})
  <2> DEFINE f == [k \in Configs |-> 1 .. k.max_clients]
  <2>1. f \in Surjection(Configs, {1 .. k.max_clients : k \in Configs})
    BY DEF Surjection
  <2>2. IsFiniteSet(Configs)
    BY SenderAssumption
  <2> HIDE DEF f
  <2>3. QED
    BY <2>1, <2>2, FS_Surjection
<1>5. \A S \in {1 .. k.max_clients : k \in Configs} : IsFiniteSet(S)
  <2>1. ASSUME NEW k \in Configs PROVE IsFiniteSet(1 .. k.max_clients)
    <3>1. k.max_clients \in Int /\ 1 \in Int
      BY <1>1
    <3>2. QED
      BY <3>1, FS_Interval
  <2>2. QED
    BY <2>1
<1>6. IsFiniteSet(Servers)
  BY <1>4, <1>5, FS_UNION DEF Servers
<1>7. QED
  BY <1>1, <1>2, <1>3, <1>6

LEMMA ConstantFacts ==
  /\ IsFiniteSet(Clients) /\ Cardinality(Clients) \in Nat
  /\ Cardinality(Encoders) \in Nat \ {0}
  /\ BufferLen \in Nat \ {0} /\ MaxHeartbeats \in Nat
  /\ Stop \notin Clients /\ NoItem \notin Clients /\ NoItem \notin Nat
  /\ ClientIdModulus \in Nat \ {0}
  /\ 0 \in ClientIds /\ ClientIds \subseteq Nat /\ NoItem \notin ClientIds
<1>1. /\ IsFiniteSet(Clients) /\ Cardinality(Clients) \in Nat
      /\ Cardinality(Encoders) \in Nat \ {0}
      /\ BufferLen \in Nat \ {0} /\ MaxHeartbeats \in Nat
      /\ Stop \notin Clients /\ NoItem \notin Clients /\ NoItem \notin Nat
      /\ ClientIdModulus \in Nat \ {0}
  BY SenderAssumption, SenderPipelineAssumption, FS_CardinalityType, FS_EmptySet
<1>2. 0 \in ClientIds /\ ClientIds \subseteq Nat
  BY <1>1 DEF ClientIds
<1>3. QED
  BY <1>1, <1>2

-----------------------------------------------------------------------------
(* Counting modulo m *)

LEMMA ModFacts ==
  ASSUME NEW m \in Nat \ {0}, NEW a \in Nat
  PROVE  /\ a = (m * (a \div m)) + (a % m)
         /\ a % m \in Nat /\ a % m < m
         /\ a \div m \in Nat
  OBVIOUS

\* A larger quotient means a number larger by at least one full turn.
LEMMA TurnGap ==
  ASSUME NEW m \in Nat \ {0}, NEW q \in Int, NEW r \in Int, q < r
  PROVE  m * r >= m * q + m
<1>1. r - q - 1 \in Nat
  OBVIOUS
<1>2. m * (r - q - 1) >= 0
  BY <1>1
<1>3. m * (r - q - 1) = m * r - m * q - m
  OBVIOUS
<1>4. QED
  BY <1>2, <1>3

LEMMA DivisionUnique ==
  ASSUME NEW m \in Nat \ {0}, NEW q \in Int, NEW r \in Int,
         NEW x \in 0 .. (m - 1), NEW y \in 0 .. (m - 1), m * q + x = m * r + y
  PROVE  q = r /\ x = y
<1>1. ~(q < r)
  BY TurnGap
<1>2. ~(r < q)
  BY TurnGap
<1>3. q = r
  BY <1>1, <1>2
<1>4. QED
  BY <1>3

\* A counter that wraps at each step is the whole count, wrapped once.
LEMMA CountWraps ==
  ASSUME NEW m \in Nat \ {0}, NEW a \in Nat
  PROVE  ((a % m) + 1) % m = (a + 1) % m
<1> DEFINE q == a \div m
           x == a % m
           r == (a + 1) \div m
           y == (a + 1) % m
<1>1. a = m * q + x /\ x \in 0 .. (m - 1) /\ q \in Nat
  BY ModFacts
<1>2. a + 1 = m * r + y /\ y \in 0 .. (m - 1) /\ r \in Nat
  <2> DEFINE b == a + 1
  <2>1. b \in Nat
    OBVIOUS
  <2> HIDE DEF b
  <2>2. /\ b = (m * (b \div m)) + (b % m) /\ b % m \in Nat /\ b % m < m
        /\ b \div m \in Nat
    BY <2>1, ModFacts
  <2>3. QED
    BY <2>1, <2>2 DEF b
<1> HIDE DEF q, x, r, y
<1>3. m * q \in Int /\ m * (q + 1) = m * q + m
  <2>1. \A i \in Int : m * i \in Int /\ m * (i + 1) = m * i + m
    OBVIOUS
  <2>2. QED
    BY <1>1, <2>1
<1>4. CASE x + 1 = m
  <2>1. m * (q + 1) + 0 = m * r + y
    BY <1>1, <1>2, <1>3, <1>4
  <2>2. y = 0
    <3>1. q + 1 \in Int /\ r \in Int /\ 0 \in 0 .. (m - 1)
      BY <1>1, <1>2
    <3> DEFINE p == q + 1
               z == 0
    <3>2. p \in Int /\ z \in 0 .. (m - 1) /\ m * p + z = m * r + y
      BY <2>1, <3>1
    <3> HIDE DEF p, z
    <3>3. z = y
      BY <1>2, <3>1, <3>2, DivisionUnique
    <3>4. QED
      BY <3>3 DEF z
  <2>3. m % m = 0
    <3>1. /\ m = m * (m \div m) + (m % m) /\ m \div m \in Int
          /\ m % m \in 0 .. (m - 1) /\ 0 \in 0 .. (m - 1)
      BY ModFacts
    <3>2. m * 1 + 0 = m * (m \div m) + (m % m)
      BY <3>1
    <3>3. QED
      BY <3>1, <3>2, DivisionUnique
  <2>4. (x + 1) % m = 0
    BY <1>4, <2>3
  <2>5. QED
    BY <2>2, <2>4 DEF x, y
<1>5. CASE x + 1 # m
  <2>1. m * q + (x + 1) = m * r + y /\ x + 1 \in 0 .. (m - 1)
    BY <1>1, <1>2, <1>3, <1>5
  <2>2. y = x + 1
    BY <1>1, <1>2, <2>1, DivisionUnique
  <2>3. (x + 1) % m = x + 1
    BY <2>1
  <2>4. QED
    BY <2>2, <2>3 DEF x, y
<1>6. QED
  BY <1>4, <1>5

\* Two counts less than a turn apart differ once wrapped.
LEMMA DistinctInATurn ==
  ASSUME NEW m \in Nat \ {0}, NEW a \in Nat, NEW b \in Nat, a < b, b < a + m
  PROVE  a % m # b % m
<1> SUFFICES ASSUME a % m = b % m PROVE FALSE
  OBVIOUS
<1> DEFINE q == a \div m
           r == b \div m
           x == a % m
<1>1. a = m * q + x /\ x \in 0 .. (m - 1) /\ q \in Nat
  BY ModFacts
<1>2. b = m * r + x /\ r \in Nat
  BY ModFacts
<1>3. m * q \in Int /\ m * r \in Int
  BY <1>1, <1>2
<1> HIDE DEF q, r, x
<1>4. ~(q < r)
  BY <1>1, <1>2, <1>3, TurnGap
<1>5. ~(r < q)
  BY <1>1, <1>2, <1>3, TurnGap
<1>6. QED
  BY <1>4, <1>5, <1>1, <1>2

-----------------------------------------------------------------------------
(* The invariants of the server threads *)

Pcs == {"recv", "wait", "start", "read", "block", "finish", "error", "abort", "stop", "done"}

ServerTypes ==
  /\ toServer \in Seq(Clients \cup {Stop}) /\ Len(toServer) <= 1
  /\ connected \subseteq Clients
  /\ stopped \in BOOLEAN
  /\ peer \in [Clients -> {"open", "closed", "broken"}]
  /\ config \in Configs
  /\ permits \in Nat
  /\ nextId \in ClientIds
  /\ srvPc \in [Servers -> Pcs]
  /\ srvClient \in [Servers -> Clients \cup {NoItem}]
  /\ srvId \in [Servers -> ClientIds \cup {NoItem}]
  /\ cursor \in [Servers -> 0 .. BufferLen]
  /\ transmitted \in [Servers -> Nat]
  /\ eof \in [Servers -> BOOLEAN]
  /\ stopsLeft \in [Servers -> 0 .. Cardinality(Encoders)]
  /\ heartbeats \in 0 .. MaxHeartbeats
  /\ handedOut \in Nat
  /\ rank \in [Servers -> Nat]
  /\ outlasted \in BOOLEAN

HasClient(s) == srvPc[s] \in {"wait", "start", "read", "block", "finish", "error", "abort"}
HasId(s)     == srvPc[s] \in {"start", "read", "block", "finish", "error", "abort"}
HasPermit(s) == srvPc[s] \in {"start", "read", "block", "finish", "error"}

Holders == {s \in Servers : HasPermit(s)}

\* The semaphore counts the servers that hold a permit.
CountsInv ==
  /\ permits + Cardinality(Holders) = config.max_clients
  /\ \A s \in Servers : s > config.max_clients => srvPc[s] = "recv"
  /\ \A s \in Servers : srvPc[s] = "stop" => stopsLeft[s] >= 1

\* The client in the queue is at no server.
QueueInv ==
  \A i \in 1 .. Len(toServer) : toServer[i] # Stop =>
    toServer[i] \in connected /\ \A s \in Servers : srvClient[s] # toServer[i]

ServerInv(s) ==
  /\ IF HasClient(s) THEN srvClient[s] \in connected ELSE srvClient[s] = NoItem
  /\ HasId(s) <=> srvId[s] # NoItem

OneServerEach ==
  \A s, t \in Servers : HasClient(s) /\ srvClient[s] = srvClient[t] => s = t

\* A client is in the queue, then at one server, where it gets its id.
ClientsInv == QueueInv /\ (\A s \in Servers : ServerInv(s)) /\ OneServerEach

\* The id of a client is its rank, wrapped; ids that are in use are less than a turn
\* apart until one is handed out again.
RanksInv ==
  /\ nextId = handedOut % ClientIdModulus
  /\ \A s \in Servers : HasId(s) => /\ srvId[s] = rank[s] % ClientIdModulus
                                    /\ rank[s] < handedOut
  /\ \A s, t \in Servers : HasId(s) /\ HasId(t) /\ rank[s] = rank[t] => s = t
  /\ ~outlasted => \A s \in Servers : Sends(s) => handedOut <= rank[s] + ClientIdModulus

\* A read waits for a byte the buffer has room for, so it only returns 0 at the end
\* of the stream; a block that is sent before that has data, and fills the buffer.
BufferInv(s) ==
  /\ srvPc[s] = "read" => cursor[s] < BufferLen /\ ~eof[s]
  /\ srvPc[s] = "block" /\ eof[s] => peer[srvClient[s]] = "closed"
  /\ srvPc[s] = "block" /\ ~eof[s] => cursor[s] > 0 /\ (config.flush \/ cursor[s] = BufferLen)

BuffersInv == \A s \in Servers : BufferInv(s)

LEMMA ServerTypesInit == Init => ServerTypes
<1> SUFFICES ASSUME Init PROVE ServerTypes
  OBVIOUS
<1>1. config \in Configs /\ config.max_clients \in Nat
  BY ServersFacts DEF Init
<1>2. 0 \in 0 .. BufferLen /\ 0 \in 0 .. Cardinality(Encoders) /\ 0 \in 0 .. MaxHeartbeats
  BY ConstantFacts
<1>3. <<>> \in Seq(Clients \cup {Stop}) /\ Len(<<>>) <= 1
  OBVIOUS
<1>4. QED
  BY <1>1, <1>2, <1>3, ConstantFacts DEF Init, ServerTypes, Pcs

LEMMA CountsInit == Init => CountsInv
<1> SUFFICES ASSUME Init PROVE CountsInv
  OBVIOUS
<1>1. config \in Configs /\ config.max_clients \in Nat /\ permits = config.max_clients
  BY ServersFacts DEF Init
<1>2. Holders = {}
  BY DEF Init, Holders, HasPermit
<1>3. Cardinality({}) = 0
  BY FS_EmptySet
<1>4. QED
  BY <1>1, <1>2, <1>3 DEF Init, CountsInv

LEMMA ClientsInit == Init => ClientsInv /\ BuffersInv
<1> SUFFICES ASSUME Init PROVE ClientsInv /\ BuffersInv
  OBVIOUS
<1>1. toServer = <<>> /\ Len(toServer) = 0
  BY DEF Init
<1>2. \A s \in Servers : srvPc[s] = "recv" /\ srvClient[s] = NoItem /\ srvId[s] = NoItem
  BY DEF Init
<1>3. QED
  BY <1>1, <1>2 DEF ClientsInv, QueueInv, ServerInv, OneServerEach, BuffersInv, BufferInv,
         HasClient, HasId

LEMMA RanksInit == Init => RanksInv
<1> SUFFICES ASSUME Init PROVE RanksInv
  OBVIOUS
<1>1. nextId = 0 /\ handedOut = 0 /\ \A s \in Servers : srvPc[s] = "recv"
  BY DEF Init
<1>2. 0 % ClientIdModulus = 0
  BY ConstantFacts
<1>3. QED
  BY <1>1, <1>2 DEF RanksInv, HasId, Sends

-----------------------------------------------------------------------------
(* The steps of a server thread *)

\* A server only changes its own variables.
LEMMA ServerFrame ==
  ASSUME ServerTypes, NEW s \in Servers, Server(s)
  PROVE  \A t \in Servers : t # s =>
           /\ srvPc'[t] = srvPc[t] /\ srvClient'[t] = srvClient[t] /\ srvId'[t] = srvId[t]
           /\ cursor'[t] = cursor[t] /\ transmitted'[t] = transmitted[t]
           /\ eof'[t] = eof[t] /\ stopsLeft'[t] = stopsLeft[t] /\ rank'[t] = rank[t]
<1> USE DEF ServerTypes, Goto, clientVars, historyVars
<1>1. CASE ServerReceive(s)
  BY <1>1 DEF ServerReceive
<1>2. CASE ServerAcquire(s)
  BY <1>2 DEF ServerAcquire, HandOut
<1>3. CASE ClientStart(s)
  BY <1>3 DEF ClientStart
<1>4. CASE ClientReadData(s)
  BY <1>4 DEF ClientReadData
<1>5. CASE ClientReadZero(s)
  BY <1>5 DEF ClientReadZero
<1>6. CASE ClientReadError(s)
  BY <1>6 DEF ClientReadError
<1>7. CASE ClientSend(s)
  BY <1>7 DEF ClientSend
<1>8. CASE ServerRelease(s)
  BY <1>8 DEF ServerRelease, Forget
<1>9. CASE ServerAbort(s)
  BY <1>9 DEF ServerAbort, Forget
<1>10. CASE ServerStop(s)
  BY <1>10 DEF ServerStop
<1>11. QED
  BY <1>1, <1>2, <1>3, <1>4, <1>5, <1>6, <1>7, <1>8, <1>9, <1>10 DEF Server

\* The servers beyond max_clients do not exist.
LEMMA ServerExists ==
  ASSUME ServerTypes, NEW s \in 1 .. config.max_clients
  PROVE  s \in Servers /\ s \in Nat /\ s <= config.max_clients
<1>1. config \in Configs /\ config.max_clients \in Nat
  BY ServersFacts DEF ServerTypes
<1>2. QED
  BY <1>1, ServersFacts

LEMMA QueueTypes ==
  ASSUME NEW q \in Seq(Clients \cup {Stop}), NEW c \in Clients \cup {Stop}
  PROVE  /\ Len(q) < 1 => /\ Append(q, c) \in Seq(Clients \cup {Stop})
                          /\ Len(Append(q, c)) = 1 /\ Append(q, c)[1] = c
         /\ q # <<>> /\ Len(q) <= 1 => /\ Head(q) \in Clients \cup {Stop} /\ Head(q) = q[1]
                                       /\ Len(q) = 1 /\ Tail(q) = <<>>
<1>1. Len(q) \in Nat
  BY LenProperties
<1>2. ASSUME Len(q) < 1
      PROVE  /\ Append(q, c) \in Seq(Clients \cup {Stop})
             /\ Len(Append(q, c)) = 1 /\ Append(q, c)[1] = c
  <2>1. Len(q) = 0
    BY <1>1, <1>2
  <2>2. QED
    BY <2>1, AppendProperties
<1>3. ASSUME q # <<>>, Len(q) <= 1
      PROVE  /\ Head(q) \in Clients \cup {Stop} /\ Head(q) = q[1]
             /\ Len(q) = 1 /\ Tail(q) = <<>>
  <2>1. Len(q) = 1
    <3> DEFINE n == Len(q)
    <3>1. n \in Nat /\ n # 0 /\ n <= 1
      BY <1>1, <1>3, EmptySeq
    <3> HIDE DEF n
    <3>2. n = 1
      BY <3>1
    <3>3. QED
      BY <3>2 DEF n
  <2>2. /\ Head(q) \in Clients \cup {Stop} /\ Head(q) = q[1]
        /\ Tail(q) \in Seq(Clients \cup {Stop}) /\ Len(Tail(q)) = 0
    BY <1>3, <2>1, HeadTailProperties
  <2>3. QED
    BY <2>1, <2>2, EmptySeq
<1>4. QED
  BY <1>2, <1>3

LEMMA ServerTypesStep ==
  ASSUME ServerTypes, CountsInv, ClientsInv, [Next]_vars
  PROVE  ServerTypes'
<1>a. /\ 0 \in 0 .. BufferLen /\ 0 \in 0 .. Cardinality(Encoders)
      /\ Cardinality(Encoders) \in 0 .. Cardinality(Encoders)
      /\ BufferLen \in Nat \ {0} /\ Cardinality(Encoders) \in Nat /\ MaxHeartbeats \in Nat
      /\ Stop \notin Clients
  BY ConstantFacts
<1>1. ASSUME NEW c \in Clients, NewClient(c) PROVE ServerTypes'
  <2>1. toServer' \in Seq(Clients \cup {Stop}) /\ Len(toServer') <= 1
    BY <1>1, QueueTypes DEF NewClient, ServerTypes
  <2>2. QED
    BY <1>1, <2>1 DEF NewClient, ServerTypes, serverVars, clientVars, historyVars
<1>2. ASSUME NEW c \in Clients, PeerEnds(c) PROVE ServerTypes'
  BY <1>2 DEF PeerEnds, ServerTypes, serverVars, clientVars, historyVars
<1>3. CASE StopSender
  <2>1. toServer' \in Seq(Clients \cup {Stop}) /\ Len(toServer') <= 1
    BY <1>3, QueueTypes DEF StopSender, ServerTypes
  <2>2. QED
    BY <1>3, <2>1 DEF StopSender, ServerTypes, serverVars, clientVars, historyVars
<1>4. ASSUME NEW s \in 1 .. config.max_clients, Server(s) PROVE ServerTypes'
  <2>a. s \in Servers
    BY ServerExists
  <2>1. CASE ServerReceive(s)
    <3>1. /\ toServer' \in Seq(Clients \cup {Stop}) /\ Len(toServer') <= 1
          /\ Head(toServer) \in Clients \cup {Stop}
      BY <2>1, QueueTypes, EmptySeq DEF ServerReceive, ServerTypes
    <3>2. /\ srvPc' \in [Servers -> Pcs]
          /\ srvClient' \in [Servers -> Clients \cup {NoItem}]
          /\ stopsLeft' \in [Servers -> 0 .. Cardinality(Encoders)]
      <4> USE <2>a
      <4>1. /\ srvPc \in [Servers -> Pcs] /\ srvClient \in [Servers -> Clients \cup {NoItem}]
            /\ stopsLeft \in [Servers -> 0 .. Cardinality(Encoders)]
            /\ {"stop", "wait"} \subseteq Pcs
        BY DEF ServerTypes, Pcs
      <4>2. CASE Head(toServer) = Stop
        <5>1. /\ stopsLeft' = [stopsLeft EXCEPT ![s] = Cardinality(Encoders)]
              /\ srvPc' = [srvPc EXCEPT ![s] = "stop"] /\ srvClient' = srvClient
          BY <2>1, <4>2 DEF ServerReceive, Goto
        <5>2. QED
          BY <1>a, <4>1, <5>1
      <4>3. CASE Head(toServer) # Stop
        <5>1. /\ srvClient' = [srvClient EXCEPT ![s] = Head(toServer)]
              /\ srvPc' = [srvPc EXCEPT ![s] = "wait"] /\ stopsLeft' = stopsLeft
          BY <2>1, <4>3 DEF ServerReceive, Goto
        <5>2. Head(toServer) \in Clients \cup {NoItem}
          BY <3>1, <4>3
        <5>3. QED
          BY <4>1, <5>1, <5>2
      <4>4. QED
        BY <4>2, <4>3
    <3>3. QED
      BY <2>1, <3>1, <3>2 DEF ServerReceive, ServerTypes, clientVars, historyVars
  <2>2. CASE ServerAcquire(s)
    <3>1. /\ permits' \in Nat /\ nextId' \in ClientIds
          /\ handedOut' \in Nat /\ outlasted' \in BOOLEAN
      <4>1. /\ permits' \in Nat /\ handedOut' \in Nat /\ nextId \in Nat
            /\ outlasted' \in BOOLEAN
        BY <2>2, ConstantFacts DEF ServerAcquire, HandOut, ServerTypes
      <4>2. (nextId + 1) % ClientIdModulus \in 0 .. (ClientIdModulus - 1)
        BY <4>1, ConstantFacts
      <4>3. QED
        BY <2>2, <4>1, <4>2 DEF ServerAcquire, NextClientId, ClientIds
    <3>2. /\ srvPc' \in [Servers -> Pcs] /\ srvId' \in [Servers -> ClientIds \cup {NoItem}]
          /\ rank' \in [Servers -> Nat]
      BY <2>a, <2>2 DEF ServerAcquire, HandOut, ServerTypes, Goto, Pcs
    <3>3. QED
      BY <2>2, <3>1, <3>2 DEF ServerAcquire, ServerTypes, clientVars, listenerVars, historyVars
  <2>3. CASE ClientStart(s)
    BY <1>a, <2>a, <2>3 DEF ClientStart, ServerTypes, Goto, Pcs, listenerVars, historyVars
  <2>4. CASE ClientReadData(s)
    <3>1. PICK n \in 1 .. Room(s) : cursor' = [cursor EXCEPT ![s] = @ + n]
      BY <2>4 DEF ClientReadData
    <3>2. cursor[s] + n \in 0 .. BufferLen
      BY <1>a, <2>a, <3>1 DEF ServerTypes, Room
    <3>3. cursor' \in [Servers -> 0 .. BufferLen]
      BY <2>a, <3>1, <3>2 DEF ServerTypes
    <3>4. srvPc' \in [Servers -> Pcs]
      BY <2>a, <2>4 DEF ClientReadData, ServerTypes, Goto, Pcs
    <3>5. QED
      BY <2>4, <3>3, <3>4 DEF ClientReadData, ServerTypes, listenerVars, historyVars
  <2>5. CASE ClientReadZero(s)
    BY <2>a, <2>5 DEF ClientReadZero, ServerTypes, Goto, Pcs, listenerVars, historyVars
  <2>6. CASE ClientReadError(s)
    BY <2>a, <2>6 DEF ClientReadError, ServerTypes, Goto, Pcs, clientVars, listenerVars, historyVars
  <2>7. CASE ClientSend(s)
    <3>1. transmitted[s] + cursor[s] \in Nat
      BY <1>a, <2>a DEF ServerTypes
    <3>2. QED
      BY <1>a, <2>a, <2>7, <3>1 DEF ClientSend, ServerTypes, Goto, Pcs, listenerVars, historyVars
  <2>8. CASE ServerRelease(s)
    <3>1. permits' \in Nat
      BY <2>8 DEF ServerRelease, ServerTypes
    <3>2. /\ srvPc' \in [Servers -> Pcs]
          /\ srvClient' \in [Servers -> Clients \cup {NoItem}]
          /\ srvId' \in [Servers -> ClientIds \cup {NoItem}]
      BY <2>a, <2>8 DEF ServerRelease, Forget, ServerTypes, Goto, Pcs
    <3>3. /\ cursor' \in [Servers -> 0 .. BufferLen]
          /\ transmitted' \in [Servers -> Nat]
          /\ eof' \in [Servers -> BOOLEAN]
          /\ rank' \in [Servers -> Nat]
      <4>1. CASE Forget(s)
        BY <1>a, <2>a, <4>1 DEF Forget, ServerTypes
      <4>2. CASE UNCHANGED <<clientVars, rank>>
        BY <4>2 DEF ServerTypes, clientVars
      <4>3. QED
        BY <2>8, <4>1, <4>2 DEF ServerRelease
    <3>4. QED
      BY <2>8, <3>1, <3>2, <3>3 DEF ServerRelease, ServerTypes, listenerVars, historyVars
  <2>9. CASE ServerAbort(s)
    BY <1>a, <2>a, <2>9 DEF ServerAbort, Forget, ServerTypes, Goto, Pcs, listenerVars, historyVars
  <2>10. CASE ServerStop(s)
    <3>1. stopsLeft[s] - 1 \in 0 .. Cardinality(Encoders)
      BY <1>a, <2>a, <2>10 DEF ServerStop, CountsInv, ServerTypes
    <3>2. QED
      BY <2>a, <2>10, <3>1 DEF ServerStop, ServerTypes, Goto, Pcs, clientVars, listenerVars, historyVars
  <2>11. QED
    BY <1>4, <2>1, <2>2, <2>3, <2>4, <2>5, <2>6, <2>7, <2>8, <2>9, <2>10 DEF Server
<1>5. CASE Heartbeat
  BY <1>a, <1>5 DEF Heartbeat, ServerTypes, listenerVars, serverVars, clientVars, historyVars
<1>6. CASE UNCHANGED inputVars
  BY <1>6 DEF inputVars, ServerTypes, listenerVars, serverVars, clientVars, historyVars
<1>7. QED
  BY <1>1, <1>2, <1>3, <1>4, <1>5, <1>6 DEF Next, vars

-----------------------------------------------------------------------------
(* The counters *)

\* A step that moves no server into or out of the pool.
LEMMA SameCounts ==
  ASSUME ServerTypes, CountsInv, UNCHANGED <<permits, config>>,
         \A t \in Servers : HasPermit(t)' <=> HasPermit(t),
         \A t \in Servers : t > config.max_clients => srvPc'[t] = srvPc[t],
         \A t \in Servers : srvPc'[t] = "stop" => stopsLeft'[t] >= 1
  PROVE  CountsInv'
<1>1. Holders' = Holders
  BY DEF Holders
<1>2. QED
  BY <1>1 DEF CountsInv

LEMMA CountsStep ==
  ASSUME ServerTypes, CountsInv, ClientsInv, [Next]_vars
  PROVE  CountsInv'
<1>a. \A t \in Servers : srvPc[t] = "stop" => stopsLeft[t] >= 1
  BY DEF CountsInv
<1>1. CASE UNCHANGED <<config, serverVars>>
  <2>1. /\ UNCHANGED <<permits, config, srvPc, stopsLeft>>
    BY <1>1 DEF serverVars
  <2>2. \A t \in Servers : HasPermit(t)' <=> HasPermit(t)
    BY <2>1 DEF HasPermit
  <2>3. QED
    BY <1>a, <2>1, <2>2, SameCounts
<1>2. ASSUME NEW s \in 1 .. config.max_clients, Server(s) PROVE CountsInv'
  <2>a. /\ s \in Servers /\ s \in Nat /\ s <= config.max_clients
        /\ config.max_clients \in Nat /\ config' = config
        /\ IsFiniteSet(Servers) /\ Servers \subseteq Nat
    <3>1. s \in Servers /\ s \in Nat /\ s <= config.max_clients
      BY ServerExists
    <3>2. config.max_clients \in Nat /\ IsFiniteSet(Servers) /\ Servers \subseteq Nat
      BY ServersFacts DEF ServerTypes
    <3>3. config' = config
      BY <1>2 DEF Server, ServerReceive, ServerAcquire, ClientStart, ClientReadData,
                  ClientReadZero, ClientReadError, ClientSend, ServerRelease, ServerAbort,
                  ServerStop, listenerVars
    <3>4. QED
      BY <3>1, <3>2, <3>3
  <2>b. \A t \in Servers : t # s => srvPc'[t] = srvPc[t] /\ stopsLeft'[t] = stopsLeft[t]
    BY <1>2, <2>a, ServerFrame
  <2>c. \A t \in Servers : t # s => (HasPermit(t)' <=> HasPermit(t))
    BY <2>b DEF HasPermit
  <2>d. ASSUME NEW t \in Servers, t > config.max_clients PROVE srvPc'[t] = srvPc[t]
    <3>1. t \in Nat /\ s \in Nat /\ s <= config.max_clients /\ config.max_clients \in Nat
      BY <2>a
    <3>2. t # s
      BY <2>d, <3>1
    <3>3. QED
      BY <2>b, <3>2
  <2>e. IsFiniteSet(Holders) /\ Cardinality(Holders) \in Nat
    BY <2>a, FS_Subset, FS_CardinalityType DEF Holders
  <2>1. CASE ServerReceive(s)
    <3>1. /\ srvPc'[s] \in {"stop", "wait"} /\ srvPc[s] = "recv"
          /\ UNCHANGED permits
          /\ srvPc'[s] = "stop" => stopsLeft'[s] = Cardinality(Encoders)
      BY <2>a, <2>1 DEF ServerReceive, Goto, ServerTypes
    <3>2. \A t \in Servers : HasPermit(t)' <=> HasPermit(t)
      BY <2>c, <3>1 DEF HasPermit
    <3>3. \A t \in Servers : srvPc'[t] = "stop" => stopsLeft'[t] >= 1
      BY <1>a, <2>b, <3>1, ConstantFacts
    <3>4. QED
      BY <2>a, <2>d, <3>1, <3>2, <3>3, SameCounts
  <2>2. CASE ServerAcquire(s)
    <3>1. /\ srvPc'[s] = "start" /\ srvPc[s] = "wait" /\ permits > 0 /\ permits' = permits - 1
          /\ permits \in Nat
      BY <2>a, <2>2 DEF ServerAcquire, Goto, ServerTypes
    <3>2. Holders' = Holders \cup {s} /\ s \notin Holders
      BY <2>a, <2>c, <3>1 DEF Holders, HasPermit
    <3>3. Cardinality(Holders') = Cardinality(Holders) + 1
      BY <2>e, <3>2, FS_AddElement
    <3>8. permits' + Cardinality(Holders') = config.max_clients
      BY <2>e, <3>1, <3>3 DEF CountsInv
    <3>9. \A t \in Servers : t > config.max_clients => srvPc'[t] = "recv"
      BY <2>d DEF CountsInv
    <3>10. \A t \in Servers : srvPc'[t] = "stop" => stopsLeft'[t] >= 1
      BY <1>a, <2>b, <3>1
    <3>11. QED
      BY <2>a, <3>8, <3>9, <3>10 DEF CountsInv
  <2>3. CASE ServerRelease(s)
    <3>1. /\ srvPc'[s] \in {"recv", "abort"} /\ srvPc[s] \in {"finish", "error"}
          /\ permits' = permits + 1 /\ permits \in Nat
      BY <2>a, <2>3 DEF ServerRelease, Goto, ServerTypes
    <3>2. Holders' = Holders \ {s} /\ s \in Holders
      BY <2>a, <2>c, <3>1 DEF Holders, HasPermit
    <3>3. Cardinality(Holders') = Cardinality(Holders) - 1
      BY <2>e, <3>2, FS_RemoveElement
    <3>5. permits' + Cardinality(Holders') = config.max_clients
      BY <2>e, <3>1, <3>3 DEF CountsInv
    <3>6. \A t \in Servers : t > config.max_clients => srvPc'[t] = "recv"
      BY <2>d DEF CountsInv
    <3>7. \A t \in Servers : srvPc'[t] = "stop" => stopsLeft'[t] >= 1
      BY <1>a, <2>b, <3>1
    <3>8. QED
      BY <2>a, <3>1, <3>5, <3>6, <3>7 DEF CountsInv
  <2>4. CASE ServerStop(s)
    <3>1. /\ srvPc[s] = "stop" /\ srvPc'[s] = IF stopsLeft'[s] = 0 THEN "done" ELSE "stop"
          /\ stopsLeft'[s] = stopsLeft[s] - 1 /\ stopsLeft[s] \in Nat
          /\ UNCHANGED permits
      BY <2>a, <2>4 DEF ServerStop, Goto, ServerTypes
    <3>2. \A t \in Servers : HasPermit(t)' <=> HasPermit(t)
      BY <2>c, <3>1 DEF HasPermit
    <3>3. \A t \in Servers : srvPc'[t] = "stop" => stopsLeft'[t] >= 1
      BY <1>a, <2>a, <2>b, <3>1
    <3>4. QED
      BY <2>a, <2>d, <3>1, <3>2, <3>3, SameCounts
  <2>5. CASE ServerAbort(s)
    <3>1. /\ srvPc[s] = "abort" /\ srvPc'[s] = "recv" /\ UNCHANGED permits
      BY <2>a, <2>5 DEF ServerAbort, Goto, ServerTypes
    <3>2. \A t \in Servers : HasPermit(t)' <=> HasPermit(t)
      BY <2>c, <3>1 DEF HasPermit
    <3>3. \A t \in Servers : srvPc'[t] = "stop" => stopsLeft'[t] >= 1
      BY <1>a, <2>b, <3>1
    <3>4. QED
      BY <2>a, <2>d, <3>1, <3>2, <3>3, SameCounts
  <2>6. CASE \/ ClientStart(s) \/ ClientReadData(s) \/ ClientReadZero(s)
             \/ ClientReadError(s) \/ ClientSend(s)
    <3>1. /\ srvPc[s] \in {"start", "read", "block"}
          /\ srvPc'[s] \in {"read", "block", "error", "finish"}
          /\ UNCHANGED permits
      BY <2>a, <2>6 DEF ClientStart, ClientReadData, ClientReadZero, ClientReadError,
                        ClientSend, Goto, ServerTypes
    <3>2. \A t \in Servers : HasPermit(t)' <=> HasPermit(t)
      BY <2>c, <3>1 DEF HasPermit
    <3>3. \A t \in Servers : srvPc'[t] = "stop" => stopsLeft'[t] >= 1
      BY <1>a, <2>b, <3>1
    <3>4. QED
      BY <2>a, <2>d, <3>1, <3>2, <3>3, SameCounts
  <2>7. QED
    BY <1>2, <2>1, <2>2, <2>3, <2>4, <2>5, <2>6 DEF Server
<1>3. QED
  BY <1>1, <1>2 DEF Next, vars, inputVars, listenerVars, NewClient, PeerEnds, StopSender,
                    Heartbeat

-----------------------------------------------------------------------------
(* The clients *)

\* A step that changes neither the queue, nor which client and id any server has.
LEMMA SameClients ==
  ASSUME ClientsInv, UNCHANGED <<toServer, connected, srvClient, srvId>>,
         \A t \in Servers : (HasClient(t)' <=> HasClient(t)) /\ (HasId(t)' <=> HasId(t))
  PROVE  ClientsInv'
<1>1. QueueInv'
  BY DEF ClientsInv, QueueInv
<1>2. \A s \in Servers : ServerInv(s)'
  BY DEF ClientsInv, ServerInv
<1>3. OneServerEach'
  BY DEF ClientsInv, OneServerEach
<1>4. QED
  BY <1>1, <1>2, <1>3 DEF ClientsInv

\* A server whose client is done forgets it.
LEMMA ClientForgotten ==
  ASSUME ServerTypes, ClientsInv, NEW s \in Servers, srvPc' = [srvPc EXCEPT ![s] = "recv"],
         Forget(s), UNCHANGED <<toServer, connected>>
  PROVE  ClientsInv'
<1>1. /\ srvPc'[s] = "recv" /\ srvClient'[s] = NoItem /\ srvId'[s] = NoItem
      /\ \A t \in Servers : t # s =>
           srvPc'[t] = srvPc[t] /\ srvClient'[t] = srvClient[t] /\ srvId'[t] = srvId[t]
  BY DEF Forget, ServerTypes
<1>2. QueueInv'
  <2>1. \A i \in 1 .. Len(toServer) : toServer[i] \in Clients \cup {Stop}
    BY ElementOfSeq DEF ClientsInv, ServerTypes
  <2>2. ASSUME NEW i \in 1 .. Len(toServer), toServer[i] # Stop, NEW t \in Servers
        PROVE  srvClient'[t] # toServer[i]
    BY <1>1, <2>1, <2>2, ConstantFacts DEF ClientsInv, QueueInv
  <2>3. QED
    BY <2>2 DEF ClientsInv, QueueInv
<1>3. ASSUME NEW t \in Servers PROVE ServerInv(t)'
  <2>1. CASE t = s
    BY <1>1, <2>1 DEF ClientsInv, ServerInv, HasClient, HasId
  <2>2. CASE t # s
    BY <1>1, <2>2 DEF ClientsInv, ServerInv, HasClient, HasId
  <2>3. QED
    BY <2>1, <2>2
<1>4. OneServerEach'
  <2>1. ASSUME NEW t \in Servers, NEW u \in Servers,
               HasClient(t)', srvClient'[t] = srvClient'[u]
        PROVE  t = u
    <3>1. t # s /\ HasClient(t) /\ srvClient[t] # NoItem
      <4>1. t # s
        BY <1>1, <2>1 DEF ClientsInv, HasClient
      <4>2. HasClient(t) /\ srvClient[t] \in connected
        BY <1>1, <2>1, <4>1 DEF ClientsInv, HasClient, ServerInv
      <4>3. QED
        BY <4>1, <4>2, ConstantFacts DEF ServerTypes
    <3>2. u # s
      BY <1>1, <2>1, <3>1
    <3>3. QED
      BY <1>1, <2>1, <3>1, <3>2 DEF ClientsInv, OneServerEach
  <2>2. QED
    BY <2>1 DEF ClientsInv, OneServerEach
<1>5. QED
  BY <1>2, <1>3, <1>4 DEF ClientsInv

LEMMA ReceiveClients ==
  ASSUME ServerTypes, ClientsInv, NEW s \in Servers, ServerReceive(s)
  PROVE  ClientsInv'
<1> DEFINE c == Head(toServer)
<1>1. /\ c = toServer[1] /\ Len(toServer) = 1 /\ toServer' = <<>>
      /\ c \in Clients \cup {Stop}
      /\ UNCHANGED <<connected, srvId>>
  BY QueueTypes DEF ServerReceive, ServerTypes
<1>2. /\ srvPc[s] = "recv"
      /\ \A t \in Servers : t # s => srvPc'[t] = srvPc[t] /\ srvClient'[t] = srvClient[t]
      /\ c = Stop => srvPc'[s] = "stop" /\ srvClient'[s] = srvClient[s]
      /\ c # Stop => srvPc'[s] = "wait" /\ srvClient'[s] = c
  BY DEF ServerReceive, Goto, ServerTypes
<1>3. c # Stop => /\ c \in connected
                  /\ \A t \in Servers : srvClient[t] # c
  BY <1>1 DEF ClientsInv, QueueInv
<1> HIDE DEF c
<1>4. srvClient[s] = NoItem /\ srvId[s] = NoItem
  BY <1>2 DEF ClientsInv, ServerInv, HasClient, HasId
<1>5. QueueInv'
  BY <1>1, EmptySeq DEF ClientsInv, QueueInv
<1>6. ASSUME NEW t \in Servers PROVE ServerInv(t)'
  <2>1. CASE t = s
    BY <1>1, <1>2, <1>3, <1>4, <2>1 DEF ClientsInv, ServerInv, HasClient, HasId
  <2>2. CASE t # s
    BY <1>1, <1>2, <2>2 DEF ClientsInv, ServerInv, HasClient, HasId
  <2>3. QED
    BY <2>1, <2>2
<1>7. ASSUME NEW t \in Servers, NEW u \in Servers,
             HasClient(t)', srvClient'[t] = srvClient'[u]
      PROVE  t = u
  <2>0. \A v \in Servers : v # s /\ HasClient(v)' => HasClient(v) /\ srvClient[v] # NoItem
    BY <1>2, ConstantFacts DEF ClientsInv, HasClient, ServerInv, ServerTypes
  <2>1. CASE t # s /\ u # s
    BY <1>2, <1>7, <2>0, <2>1 DEF ClientsInv, OneServerEach
  <2>2. CASE t = s /\ u # s
    BY <1>2, <1>3, <1>7, <2>2 DEF HasClient
  <2>3. CASE t # s /\ u = s
    <3>1. srvClient'[t] = srvClient[t] /\ srvClient[t] # NoItem
      BY <1>2, <1>7, <2>0, <2>3
    <3>2. QED
      BY <1>2, <1>3, <1>4, <1>7, <2>3, <3>1
  <2>4. QED
    BY <2>1, <2>2, <2>3
<1>8. OneServerEach'
  BY <1>7 DEF ClientsInv, OneServerEach
<1>9. QED
  BY <1>5, <1>6, <1>8 DEF ClientsInv

LEMMA AcquireClients ==
  ASSUME ServerTypes, ClientsInv, NEW s \in Servers, ServerAcquire(s)
  PROVE  ClientsInv'
<1>1. /\ srvPc[s] = "wait" /\ srvPc'[s] = "start"
      /\ srvId'[s] = nextId /\ nextId # NoItem
      /\ \A t \in Servers : t # s => srvPc'[t] = srvPc[t] /\ srvId'[t] = srvId[t]
      /\ UNCHANGED <<toServer, connected, srvClient>>
  BY ConstantFacts DEF ServerAcquire, Goto, listenerVars, ServerTypes
<1>2. QueueInv'
  BY <1>1 DEF ClientsInv, QueueInv
<1>3. ASSUME NEW t \in Servers PROVE ServerInv(t)'
  <2>1. CASE t = s
    BY <1>1, <2>1 DEF ClientsInv, ServerInv, HasClient, HasId
  <2>2. CASE t # s
    BY <1>1, <2>2 DEF ClientsInv, ServerInv, HasClient, HasId
  <2>3. QED
    BY <2>1, <2>2
<1>4. OneServerEach'
  <2>1. \A t \in Servers : HasClient(t)' <=> HasClient(t)
    BY <1>1 DEF HasClient
  <2>2. QED
    BY <1>1, <2>1 DEF ClientsInv, OneServerEach
<1>5. QED
  BY <1>2, <1>3, <1>4 DEF ClientsInv

LEMMA QueuedClients ==
  ASSUME ServerTypes, ClientsInv, \/ \E c \in Clients : NewClient(c)
                                  \/ StopSender
  PROVE  ClientsInv'
<1>1. /\ UNCHANGED <<srvPc, srvClient, srvId>> /\ connected \subseteq connected'
  BY DEF NewClient, StopSender, serverVars
<1>2. QueueInv'
  <2>1. ASSUME NEW c \in Clients, NewClient(c)
        PROVE  QueueInv'
    <3>1. Len(toServer') = 1 /\ toServer'[1] = c /\ connected' = connected \cup {c}
      BY <2>1, QueueTypes DEF ClientsInv, NewClient, ServerTypes
    <3>2. c \notin connected
      BY <2>1 DEF NewClient
    <3>3. \A t \in Servers : srvClient[t] # c
      BY <3>2, ConstantFacts DEF ClientsInv, ServerInv
    <3>4. QED
      BY <1>1, <3>1, <3>3 DEF ClientsInv, QueueInv
  <2>2. CASE StopSender
    <3>1. Len(toServer') = 1 /\ toServer'[1] = Stop
      BY <2>2, QueueTypes DEF StopSender, ServerTypes
    <3>2. QED
      BY <3>1 DEF ClientsInv, QueueInv
  <2>3. QED
    BY <2>1, <2>2
<1>3. \A t \in Servers : ServerInv(t)'
  BY <1>1 DEF ClientsInv, ServerInv, HasClient, HasId
<1>4. OneServerEach'
  BY <1>1 DEF ClientsInv, OneServerEach, HasClient
<1>5. QED
  BY <1>2, <1>3, <1>4 DEF ClientsInv

LEMMA ClientsStep ==
  ASSUME ServerTypes, ClientsInv, [Next]_vars
  PROVE  ClientsInv'
<1>1. CASE UNCHANGED <<toServer, connected, serverVars>>
  <2>1. UNCHANGED <<toServer, connected, srvPc, srvClient, srvId>>
    BY <1>1 DEF serverVars
  <2>2. \A t \in Servers : (HasClient(t)' <=> HasClient(t)) /\ (HasId(t)' <=> HasId(t))
    BY <2>1 DEF HasClient, HasId
  <2>3. QED
    BY <2>1, <2>2, SameClients
<1>2. ASSUME NEW s \in 1 .. config.max_clients, Server(s) PROVE ClientsInv'
  <2>a. s \in Servers
    BY ServerExists
  <2>1. CASE ServerReceive(s)
    BY <2>a, <2>1, ReceiveClients
  <2>2. CASE ServerAcquire(s)
    BY <2>a, <2>2, AcquireClients
  <2>3. CASE ServerRelease(s) /\ srvPc[s] = "finish"
    BY <2>a, <2>3, ClientForgotten DEF ServerRelease, Goto, listenerVars
  <2>4. CASE ServerAbort(s)
    BY <2>a, <2>4, ClientForgotten DEF ServerAbort, Goto, listenerVars
  <2>5. CASE \/ ServerRelease(s) /\ srvPc[s] # "finish"
             \/ ClientStart(s) \/ ClientReadData(s) \/ ClientReadZero(s)
             \/ ClientReadError(s) \/ ClientSend(s) \/ ServerStop(s)
    <3>1. /\ UNCHANGED <<toServer, connected, srvClient, srvId>>
      BY <2>5 DEF ClientStart, ClientReadData, ClientReadZero, ClientReadError, ClientSend,
                  ServerRelease, ServerStop, listenerVars
    <3>2. \/ /\ srvPc[s] \in {"start", "read", "block", "error"}
             /\ srvPc'[s] \in {"read", "block", "error", "finish", "abort"}
          \/ srvPc[s] = "stop" /\ srvPc'[s] \in {"stop", "done"}
      BY <2>a, <2>5 DEF ClientStart, ClientReadData, ClientReadZero, ClientReadError,
                  ClientSend, ServerRelease, ServerStop, Goto, ServerTypes
    <3>3. \A t \in Servers : t # s => srvPc'[t] = srvPc[t]
      BY <1>2, <2>a, ServerFrame
    <3>4. \A t \in Servers : (HasClient(t)' <=> HasClient(t)) /\ (HasId(t)' <=> HasId(t))
      BY <3>2, <3>3 DEF HasClient, HasId
    <3>5. QED
      BY <3>1, <3>4, SameClients
  <2>6. QED
    BY <1>2, <2>1, <2>2, <2>3, <2>4, <2>5 DEF Server
<1>3. CASE StopSender \/ \E c \in Clients : NewClient(c)
  BY <1>3, QueuedClients
<1>4. QED
  BY <1>1, <1>2, <1>3 DEF Next, vars, inputVars, listenerVars, PeerEnds, Heartbeat

-----------------------------------------------------------------------------
(* The client ids *)

\* A step in which no id is handed out and no server gets one.
LEMMA SameRanks ==
  ASSUME RanksInv, UNCHANGED <<nextId, handedOut, outlasted>>,
         \A t \in Servers : HasId(t)' => HasId(t) /\ UNCHANGED <<srvId[t], rank[t]>>,
         \A t \in Servers : Sends(t)' => Sends(t) /\ HasId(t)'
  PROVE  RanksInv'
<1>1. \A t \in Servers : HasId(t)' => /\ srvId'[t] = rank'[t] % ClientIdModulus
                                      /\ rank'[t] < handedOut'
  BY DEF RanksInv
<1>2. \A t, u \in Servers : HasId(t)' /\ HasId(u)' /\ rank'[t] = rank'[u] => t = u
  BY DEF RanksInv
<1>3. ~outlasted' => \A t \in Servers : Sends(t)' => handedOut' <= rank'[t] + ClientIdModulus
  BY DEF RanksInv
<1>4. QED
  BY <1>1, <1>2, <1>3 DEF RanksInv

LEMMA AcquireRanks ==
  ASSUME ServerTypes, RanksInv, NEW s \in Servers, ServerAcquire(s)
  PROVE  RanksInv'
<1>1. /\ srvPc[s] = "wait" /\ srvPc'[s] = "start"
      /\ srvId'[s] = nextId /\ nextId' = NextClientId
      /\ rank'[s] = handedOut /\ handedOut' = handedOut + 1 /\ handedOut \in Nat
      /\ \A t \in Servers : t # s => /\ srvPc'[t] = srvPc[t] /\ srvId'[t] = srvId[t]
                                     /\ rank'[t] = rank[t]
      /\ outlasted' = (outlasted \/ \E t \in Servers : /\ Sends(t)
                                                      /\ handedOut - rank[t] >= ClientIdModulus)
  BY DEF ServerAcquire, HandOut, Goto, ServerTypes
<1>2. ClientIdModulus \in Nat \ {0} /\ \A t \in Servers : rank[t] \in Nat
  BY ConstantFacts DEF ServerTypes
<1>3. \A t \in Servers : t # s => (HasId(t)' <=> HasId(t)) /\ (Sends(t)' <=> Sends(t))
  BY <1>1 DEF HasId, Sends
<1>4. nextId' = handedOut' % ClientIdModulus
  BY <1>1, <1>2, CountWraps DEF RanksInv, NextClientId
<1>5. ASSUME NEW t \in Servers, HasId(t)'
      PROVE  /\ srvId'[t] = rank'[t] % ClientIdModulus
             /\ rank'[t] < handedOut'
  <2>1. CASE t = s
    BY <1>1, <2>1 DEF RanksInv
  <2>2. CASE t # s
    <3>1. srvId[t] = rank[t] % ClientIdModulus /\ rank[t] < handedOut
      BY <1>3, <1>5, <2>2 DEF RanksInv
    <3>2. QED
      BY <1>1, <1>2, <2>2, <3>1
  <2>3. QED
    BY <2>1, <2>2
<1>6. ASSUME NEW t \in Servers, NEW u \in Servers,
             HasId(t)', HasId(u)', rank'[t] = rank'[u]
      PROVE  t = u
  <2>1. \A v \in Servers : v # s /\ HasId(v)' => rank'[v] \in Nat /\ rank'[v] < handedOut
    BY <1>1, <1>2, <1>3 DEF RanksInv
  <2>2. CASE t # s /\ u # s
    BY <1>1, <1>3, <1>6, <2>2 DEF RanksInv
  <2>3. CASE t = s \/ u = s
    BY <1>1, <1>6, <2>1, <2>3
  <2>4. QED
    BY <2>2, <2>3
<1>7. ASSUME ~outlasted', NEW t \in Servers, Sends(t)'
      PROVE  handedOut' <= rank'[t] + ClientIdModulus
  <2>1. CASE t = s
    BY <1>1, <1>2, <2>1
  <2>2. CASE t # s
    <3>1. ~(handedOut - rank[t] >= ClientIdModulus)
      BY <1>1, <1>3, <1>7, <2>2
    <3>2. QED
      BY <1>1, <1>2, <2>2, <3>1
  <2>3. QED
    BY <2>1, <2>2
<1>8. QED
  BY <1>4, <1>5, <1>6, <1>7 DEF RanksInv

LEMMA RanksStep ==
  ASSUME ServerTypes, RanksInv, [Next]_vars
  PROVE  RanksInv'
<1>1. CASE UNCHANGED serverVars
  <2>1. UNCHANGED <<nextId, handedOut, outlasted, srvPc, srvId, rank>>
    BY <1>1 DEF serverVars, historyVars
  <2>2. QED
    BY <2>1, SameRanks DEF HasId, Sends
<1>2. ASSUME NEW s \in 1 .. config.max_clients, Server(s) PROVE RanksInv'
  <2>a. s \in Servers
    BY ServerExists
  <2>1. CASE ServerAcquire(s)
    BY <2>a, <2>1, AcquireRanks
  <2>2. CASE ~ServerAcquire(s)
    <3>1. UNCHANGED <<nextId, handedOut, outlasted>>
      BY <1>2, <2>2 DEF Server, ServerReceive, ClientStart, ClientReadData, ClientReadZero,
         ClientReadError, ClientSend, ServerRelease, ServerAbort, ServerStop, historyVars
    <3>2. \A t \in Servers : t # s =>
            srvPc'[t] = srvPc[t] /\ srvId'[t] = srvId[t] /\ rank'[t] = rank[t]
      BY <1>2, <2>a, ServerFrame
    <3>3. /\ HasId(s)' => HasId(s) /\ UNCHANGED <<srvId[s], rank[s]>>
          /\ Sends(s)' => Sends(s)
      <4>1. CASE ServerReceive(s) \/ ServerAbort(s) \/ ServerStop(s)
        <5>1. srvPc'[s] \in {"wait", "stop", "recv", "done"}
          BY <2>a, <4>1 DEF ServerReceive, ServerAbort, ServerStop, Goto, ServerTypes
        <5>2. QED
          BY <5>1 DEF HasId, Sends
      <4>2. CASE \/ ClientStart(s) \/ ClientReadData(s) \/ ClientReadZero(s)
                 \/ ClientReadError(s) \/ ClientSend(s)
        <5>1. UNCHANGED <<srvId, rank>> /\ srvPc[s] \in {"start", "read", "block"}
          BY <4>2 DEF ClientStart, ClientReadData, ClientReadZero, ClientReadError,
                      ClientSend, historyVars
        <5>2. QED
          BY <5>1 DEF HasId, Sends
      <4>3. CASE ServerRelease(s)
        <5>1. \/ srvPc'[s] = "recv"
              \/ UNCHANGED <<srvId, rank>> /\ srvPc[s] = "error"
          BY <2>a, <4>3 DEF ServerRelease, Goto, ServerTypes
        <5>2. QED
          BY <5>1 DEF HasId, Sends
      <4>4. QED
        BY <1>2, <2>2, <4>1, <4>2, <4>3 DEF Server
    <3>4. \A t \in Servers : HasId(t)' => HasId(t) /\ UNCHANGED <<srvId[t], rank[t]>>
      BY <3>2, <3>3 DEF HasId
    <3>5. \A t \in Servers : Sends(t)' => Sends(t) /\ HasId(t)'
      BY <3>2, <3>3 DEF HasId, Sends
    <3>6. QED
      BY <3>1, <3>4, <3>5, SameRanks
  <2>3. QED
    BY <2>1, <2>2
<1>3. QED
  BY <1>1, <1>2 DEF Next, vars, inputVars, NewClient, PeerEnds, StopSender, Heartbeat

-----------------------------------------------------------------------------
(* The buffers *)

\* A connection that was closed stays closed.
LEMMA PeersStay ==
  ASSUME ServerTypes, [Next]_vars
  PROVE  /\ UNCHANGED config
         /\ \A c \in Clients : peer[c] # "open" => peer'[c] = peer[c]
<1>1. ASSUME NEW c \in Clients, PeerEnds(c)
      PROVE  /\ UNCHANGED config
             /\ \A d \in Clients : peer[d] # "open" => peer'[d] = peer[d]
  BY <1>1 DEF PeerEnds, ServerTypes
<1>2. ASSUME NEW c \in Clients, NewClient(c)
      PROVE  UNCHANGED <<config, peer>>
  BY <1>2 DEF NewClient
<1>3. CASE StopSender
  BY <1>3 DEF StopSender
<1>4. ASSUME NEW s \in 1 .. config.max_clients, Server(s)
      PROVE  UNCHANGED <<config, peer>>
  BY <1>4 DEF Server, ServerReceive, ServerAcquire, ClientStart, ClientReadData,
              ClientReadZero, ClientReadError, ClientSend, ServerRelease, ServerAbort,
              ServerStop, listenerVars
<1>5. CASE UNCHANGED <<config, peer>>
  BY <1>5
<1>6. QED
  BY <1>1, <1>2, <1>3, <1>4, <1>5 DEF Next, Heartbeat, inputVars, listenerVars, vars

LEMMA BuffersStep ==
  ASSUME ServerTypes, ClientsInv, BuffersInv, [Next]_vars
  PROVE  BuffersInv'
<1>a. UNCHANGED config /\ \A c \in Clients : peer[c] # "open" => peer'[c] = peer[c]
  BY PeersStay
<1>b. BufferLen \in Nat \ {0}
  BY ConstantFacts
<1>1. ASSUME NEW t \in Servers, srvPc'[t] = srvPc[t], srvClient'[t] = srvClient[t],
             cursor'[t] = cursor[t], eof'[t] = eof[t]
      PROVE  BufferInv(t)'
  <2>1. srvPc[t] = "block" => srvClient[t] \in Clients
    BY DEF ClientsInv, ServerInv, HasClient, ServerTypes
  <2>2. QED
    BY <1>a, <1>1, <2>1 DEF BuffersInv, BufferInv
<1>2. ASSUME NEW s \in 1 .. config.max_clients, Server(s) PROVE BuffersInv'
  <2>a. s \in Servers
    BY ServerExists
  <2>b. BufferInv(s)'
    <3>1. CASE ClientStart(s)
      BY <1>b, <2>a, <3>1 DEF ClientStart, Goto, ServerTypes, BufferInv
    <3>2. CASE ClientReadData(s)
      <4>1. PICK n \in 1 .. Room(s) :
              /\ cursor' = [cursor EXCEPT ![s] = @ + n]
              /\ Goto(s, IF BlockReady(cursor[s] + n) THEN "block" ELSE "read")
        BY <3>2 DEF ClientReadData
      <4>2. /\ cursor[s] \in Nat /\ n \in Nat \ {0} /\ n <= BufferLen - cursor[s]
            /\ cursor'[s] = cursor[s] + n /\ eof'[s] = eof[s] /\ eof[s] = FALSE
            /\ srvPc'[s] = IF BlockReady(cursor[s] + n) THEN "block" ELSE "read"
        BY <1>b, <2>a, <3>2, <4>1 DEF ClientReadData, Room, Goto, ServerTypes, BuffersInv, BufferInv
      <4>3. QED
        BY <1>a, <1>b, <4>2 DEF BufferInv, BlockReady
    <3>3. CASE ClientReadZero(s)
      <4>1. peer[srvClient[s]] = "closed" /\ srvClient[s] \in Clients
        BY <1>b, <2>a, <3>3 DEF ClientReadZero, Room, BuffersInv, BufferInv, ClientsInv,
           ServerInv, HasClient, ServerTypes
      <4>2. srvPc'[s] = "block" /\ eof'[s] = TRUE /\ srvClient'[s] = srvClient[s]
        BY <2>a, <3>3 DEF ClientReadZero, Goto, ServerTypes
      <4>3. QED
        BY <1>a, <4>1, <4>2 DEF BufferInv
    <3>4. CASE ClientSend(s)
      <4>1. /\ srvPc[s] = "block" /\ cursor'[s] = 0 /\ eof'[s] = eof[s]
            /\ srvPc'[s] = IF eof[s] THEN "finish" ELSE "read"
        BY <2>a, <3>4 DEF ClientSend, Goto, ServerTypes
      <4>2. QED
        BY <1>b, <4>1 DEF BufferInv
    <3>5. CASE \/ ServerReceive(s) \/ ServerAcquire(s) \/ ClientReadError(s)
               \/ ServerRelease(s) \/ ServerAbort(s) \/ ServerStop(s)
      <4>1. srvPc'[s] \notin {"read", "block"}
        BY <2>a, <3>5 DEF ServerReceive, ServerAcquire, ClientReadError, ServerRelease,
           ServerAbort, ServerStop, Goto, ServerTypes
      <4>2. QED
        BY <4>1 DEF BufferInv
    <3>6. QED
      BY <1>2, <3>1, <3>2, <3>3, <3>4, <3>5 DEF Server
  <2>c. \A t \in Servers : t # s => BufferInv(t)'
    BY <1>1, <1>2, <2>a, ServerFrame
  <2>d. QED
    BY <2>b, <2>c DEF BuffersInv
<1>3. CASE UNCHANGED serverVars
  BY <1>1, <1>3 DEF BuffersInv, serverVars, clientVars
<1>4. QED
  BY <1>2, <1>3 DEF Next, vars, inputVars, NewClient, PeerEnds, StopSender, Heartbeat

-----------------------------------------------------------------------------
(* The server threads *)

ServersInv == ServerTypes /\ CountsInv /\ ClientsInv /\ RanksInv /\ BuffersInv

LEMMA ServersStep == ServersInv /\ [Next]_vars => ServersInv'
  BY ServerTypesStep, CountsStep, ClientsStep, RanksStep, BuffersStep DEF ServersInv

-----------------------------------------------------------------------------
(* The blocks the threads submit to the pipeline *)

LEMMA IdsFit ==
  ASSUME ServersInv, NEW s \in Servers, HasId(s)
  PROVE  srvId[s] \in ClientIds /\ srvClient[s] \in Clients
  BY DEF ServersInv, ServerTypes, ClientsInv, ServerInv, HasId, HasClient

\* A thread sends nothing but protocol blocks and None.
LEMMA ServerSends ==
  ASSUME ServersInv, NEW s \in 1 .. config.max_clients, Server(s)
  PROVE  \/ UNCHANGED <<toOrdering, belowVars>>
         \/ \E b \in ProtocolBlocks \cup {Stop} : SendBlock(b)
<1>a. s \in Servers
  BY ServerExists DEF ServersInv
<1>b. HasId(s) => srvId[s] \in ClientIds /\ srvClient[s] \in Clients
  BY <1>a, IdsFit
<1>c. \A type \in BlockTypes, id \in ClientIds, of \in Clients, m, n \in Nat :
        Block(type, id, of, m, n) \in ProtocolBlocks
  BY DEF Block, ProtocolBlocks
<1>1. CASE ClientStart(s)
  <2>1. /\ SendBlock(Block("Start", srvId[s], srvClient[s], 0, 0))
        /\ srvId[s] \in ClientIds /\ srvClient[s] \in Clients
    BY <1>b, <1>1 DEF ClientStart, HasId
  <2>2. QED
    BY <1>c, <2>1 DEF BlockTypes
<1>2. CASE ClientSend(s)
  <2> DEFINE type == IF eof[s] THEN "End" ELSE "Data"
             to   == transmitted[s] + cursor[s]
  <2>1. /\ SendBlock(Block(type, srvId[s], srvClient[s], transmitted[s], to))
        /\ srvId[s] \in ClientIds /\ srvClient[s] \in Clients
    BY <1>b, <1>2 DEF ClientSend, HasId
  <2>2. type \in BlockTypes /\ transmitted[s] \in Nat /\ to \in Nat
    BY <1>a, ConstantFacts DEF BlockTypes, ServersInv, ServerTypes
  <2> HIDE DEF type, to
  <2>3. QED
    BY <1>c, <2>1, <2>2
<1>3. CASE ServerAbort(s)
  <2>1. /\ SendBlock(Block("Abort", srvId[s], srvClient[s], 0, 0))
        /\ srvId[s] \in ClientIds /\ srvClient[s] \in Clients
    BY <1>b, <1>3 DEF ServerAbort, HasId
  <2>2. QED
    BY <1>c, <2>1 DEF BlockTypes
<1>4. CASE ServerStop(s)
  BY <1>4 DEF ServerStop
<1>5. CASE \/ ServerReceive(s) \/ ServerAcquire(s) \/ ClientReadData(s)
           \/ ClientReadZero(s) \/ ClientReadError(s) \/ ServerRelease(s)
  BY <1>5 DEF ServerReceive, ServerAcquire, ClientReadData, ClientReadZero,
              ClientReadError, ServerRelease
<1>6. QED
  BY <1>1, <1>2, <1>3, <1>4, <1>5 DEF Server

LEMMA HeartbeatSends ==
  ASSUME Heartbeat
  PROVE  \E b \in ProtocolBlocks : SendBlock(b)
<1>1. Block("Heartbeat", 0, NoItem, 0, 0) \in ProtocolBlocks
  BY ConstantFacts DEF Block, ProtocolBlocks, BlockTypes
<1>2. QED
  BY <1>1 DEF Heartbeat

-----------------------------------------------------------------------------
(* The pipeline below the threads *)

\* The lemmas about the pipeline hold of this one.
PF == INSTANCE SendPipelineProofs WITH
        Blocks <- ProtocolBlocks, StopSubmitted <- TRUE, MaxSubmitted <- 0

PipeInv == PF!TypeOK /\ PF!PipelineInv /\ PF!WireInOrder

LEMMA PipeAssumption == PF!SendPipelineAssumption
<1>1. IsFiniteSet(Encoders) <=> PF!IsFiniteSet(Encoders)
  BY DEF IsFiniteSet, PF!IsFiniteSet
<1>2. Cardinality(Encoders) = PF!Cardinality(Encoders)
  BY DEF Cardinality, PF!Cardinality, IsFiniteSet, PF!IsFiniteSet
<1>3. Pipeline!Items = PF!Items
  BY DEF Pipeline!Items, PF!Items, Pipeline!Ids, PF!Ids
<1>4. QED
  BY <1>1, <1>2, <1>3, SenderPipelineAssumption DEF PF!SendPipelineAssumption

LEMMA SameCapacity == Pipeline!Capacity = PF!Capacity
  BY DEF Pipeline!Capacity, PF!Capacity, Pipeline!Cardinality, PF!Cardinality

LEMMA SameNext == Pipeline!PipelineNext => PF!PipelineNext
  BY SameCapacity
  DEF Pipeline!PipelineNext, PF!PipelineNext, Pipeline!Ordering, PF!Ordering,
      Pipeline!OrderingReceive, PF!OrderingReceive, Pipeline!OrderingSend, PF!OrderingSend,
      Pipeline!OrderingStop, PF!OrderingStop, Pipeline!WrappingAdd, PF!WrappingAdd,
      Pipeline!Encoder, PF!Encoder, Pipeline!EncoderReceive, PF!EncoderReceive,
      Pipeline!EncoderLock, PF!EncoderLock, Pipeline!MutexFree, PF!MutexFree,
      Pipeline!EncoderSend, PF!EncoderSend, Pipeline!EncoderNotify, PF!EncoderNotify,
      Pipeline!SpuriousWakeup, PF!SpuriousWakeup, Pipeline!Udp, PF!Udp,
      Pipeline!UdpReceive, PF!UdpReceive, Pipeline!UdpSend, PF!UdpSend,
      Pipeline!UdpStop, PF!UdpStop, Pipeline!UdpFail, PF!UdpFail, Pipeline!OnLink, PF!OnLink,
      Pipeline!ordVars, PF!ordVars, Pipeline!encVars, PF!encVars, Pipeline!udpVars, PF!udpVars

LEMMA SameTypes == PF!TypeOK => Pipeline!TypeOK
  BY SameCapacity
  DEF Pipeline!TypeOK, PF!TypeOK, Pipeline!Items, PF!Items, Pipeline!Ids, PF!Ids,
      Pipeline!Holds, PF!Holds

LEMMA PipeInit == Init => PipeInv
<1> SUFFICES ASSUME Init PROVE PipeInv
  OBVIOUS
<1>1. PF!PipelineInit
  BY DEF Init, Pipeline!PipelineInit, PF!PipelineInit
<1>2. QED
  BY <1>1, PF!TypeInit, PF!InvInit, PipeAssumption, IdModulusAssumption DEF PipeInv

\* A submitted block waits in to_ordering.
LEMMA PipeSubmit ==
  ASSUME PipeInv, NEW b \in ProtocolBlocks \cup {Stop}, SendBlock(b)
  PROVE  PipeInv'
<1>1. /\ toOrdering' = Append(toOrdering, b)
      /\ UNCHANGED <<toEncoding, toSend, ordPc, ordId, ordBlock, ordered, encPc,
                     encItem, blockToSend, turn, udpPc, udpCount, wire>>
  BY DEF SendBlock, Pipeline!PutOrdering, belowVars
<1>2. toOrdering' \in Seq(ProtocolBlocks \cup {Stop})
  <2>1. toOrdering \in Seq(ProtocolBlocks \cup {Stop})
    BY DEF PipeInv, PF!TypeOK
  <2>2. QED
    BY <1>1, <2>1, AppendProperties
<1>3. PF!TypeOK'
  BY <1>1, <1>2 DEF PipeInv, PF!TypeOK, PF!Holds
<1>4. PF!Numbered' = PF!Numbered /\ PF!Taken' = PF!Taken
  BY <1>1 DEF PF!Numbered, PF!Taken
<1>5. PF!PipelineInv' /\ PF!WireInOrder'
  BY <1>1, <1>4
  DEF PipeInv, PF!PipelineInv, PF!OrderingInv, PF!EncodingQueueInv, PF!TurnstileInv,
      PF!SendQueueInv, PF!WireInOrder, PF!Holds
<1>6. QED
  BY <1>3, <1>5 DEF PipeInv

LEMMA PipeStep ==
  ASSUME ServersInv, PipeInv, [Next]_vars
  PROVE  PipeInv'
<1>1. CASE Pipeline!PipelineNext
  BY <1>1, SameNext, PF!TypeStep, PF!InvStep, PipeAssumption, IdModulusAssumption
  DEF PipeInv, PF!Next
<1>2. CASE UNCHANGED <<toOrdering, belowVars>>
  <2>1. UNCHANGED PF!pipeVars
    BY <1>2 DEF belowVars, PF!pipeVars, PF!ordVars, PF!encVars, PF!udpVars
  <2>2. QED
    BY <2>1, PF!TypeStep, PF!InvStep, PipeAssumption, IdModulusAssumption DEF PipeInv
<1>3. CASE \E b \in ProtocolBlocks \cup {Stop} : SendBlock(b)
  BY <1>3, PipeSubmit
<1>4. QED
  <2>1. ASSUME NEW c \in Clients, NewClient(c) \/ PeerEnds(c)
        PROVE  UNCHANGED <<toOrdering, belowVars>>
    BY <2>1 DEF NewClient, PeerEnds
  <2>2. StopSender => UNCHANGED <<toOrdering, belowVars>>
    BY DEF StopSender
  <2>3. UNCHANGED vars => UNCHANGED <<toOrdering, belowVars>>
    BY DEF vars
  <2>4. QED
    BY <1>1, <1>2, <1>3, <2>1, <2>2, <2>3, ServerSends, HeartbeatSends DEF Next

-----------------------------------------------------------------------------
(* The blocks accepted so far: those the ordering worker has numbered, and those   *)
(* it will number unless it has stopped.                                           *)

Messages == ProtocolBlocks \cup {Stop}

Stopped == ordPc \in {"stop", "done"}

Accepted == ordered \o (IF Stopped THEN <<>> ELSE toOrdering)

LEMMA AcceptedTypes ==
  ASSUME PipeInv
  PROVE  /\ ordered \in Seq(Messages) /\ toOrdering \in Seq(Messages)
         /\ Accepted \in Seq(Messages)
         /\ Len(ordered) <= Len(Accepted)
         /\ \A i \in 1 .. Len(ordered) : Accepted[i] = ordered[i]
<1>1. ordered \in Seq(Messages) /\ toOrdering \in Seq(Messages) /\ <<>> \in Seq(Messages)
  BY SeqMonotonic, EmptySeq DEF PipeInv, PF!TypeOK, Messages
<1> DEFINE rest == IF Stopped THEN <<>> ELSE toOrdering
<1>2. rest \in Seq(Messages) /\ Accepted = ordered \o rest
  BY <1>1 DEF Accepted
<1> HIDE DEF rest
<1>3. /\ Accepted \in Seq(Messages) /\ Len(Accepted) = Len(ordered) + Len(rest)
      /\ \A i \in 1 .. Len(ordered) + Len(rest) :
           Accepted[i] = IF i <= Len(ordered) THEN ordered[i] ELSE rest[i - Len(ordered)]
  BY <1>1, <1>2, ConcatProperties
<1>4. Len(ordered) \in Nat /\ Len(rest) \in Nat
  BY <1>1, <1>2, LenProperties
<1>5. QED
  BY <1>1, <1>3, <1>4

LEMMA ConcatAppend ==
  ASSUME NEW S, NEW s \in Seq(S), NEW t \in Seq(S), NEW e \in S
  PROVE  s \o Append(t, e) = Append(s \o t, e)
<1> DEFINE u == s \o Append(t, e)
           v == Append(s \o t, e)
<1>1. /\ Append(t, e) \in Seq(S) /\ Len(Append(t, e)) = Len(t) + 1
      /\ Append(t, e)[Len(t) + 1] = e
      /\ \A i \in 1 .. Len(t) : Append(t, e)[i] = t[i]
  BY AppendProperties
<1>2. /\ s \o t \in Seq(S) /\ Len(s \o t) = Len(s) + Len(t)
      /\ \A i \in 1 .. Len(s) + Len(t) :
           (s \o t)[i] = IF i <= Len(s) THEN s[i] ELSE t[i - Len(s)]
  BY ConcatProperties
<1>3. Len(s) \in Nat /\ Len(t) \in Nat
  BY LenProperties
<1>4. /\ u \in Seq(S) /\ Len(u) = Len(s) + (Len(t) + 1)
      /\ \A i \in 1 .. Len(s) + (Len(t) + 1) :
           u[i] = IF i <= Len(s) THEN s[i] ELSE Append(t, e)[i - Len(s)]
  BY <1>1, ConcatProperties
<1>5. /\ v \in Seq(S) /\ Len(v) = Len(s) + Len(t) + 1
      /\ v[Len(s) + Len(t) + 1] = e
      /\ \A i \in 1 .. Len(s) + Len(t) : v[i] = (s \o t)[i]
  BY <1>2, AppendProperties
<1> HIDE DEF u, v
<1>6. ASSUME NEW i \in 1 .. Len(u) PROVE u[i] = v[i]
  <2> DEFINE m == Len(s)
             n == Len(t)
  <2>0. m \in Nat /\ n \in Nat /\ i \in 1 .. m + (n + 1)
    BY <1>3, <1>4, <1>6
  <2>1. CASE i <= m
    <3>1. i \in 1 .. m + n
      BY <2>0, <2>1
    <3>2. u[i] = s[i]
      BY <1>4, <2>0, <2>1
    <3>3. v[i] = s[i]
      BY <1>2, <1>5, <2>1, <3>1
    <3>4. QED
      BY <3>2, <3>3
  <2>2. CASE m < i /\ i <= m + n
    <3>1. i - m \in 1 .. n /\ i \in 1 .. m + n /\ ~(i <= m)
      BY <2>0, <2>2
    <3>2. u[i] = Append(t, e)[i - m] /\ Append(t, e)[i - m] = t[i - m]
      BY <1>1, <1>4, <2>0, <3>1
    <3>3. v[i] = t[i - m]
      BY <1>2, <1>5, <3>1
    <3>4. QED
      BY <3>2, <3>3
  <2>3. CASE i = m + n + 1
    <3>1. i - m = n + 1 /\ ~(i <= m)
      BY <2>0, <2>3
    <3>2. u[i] = Append(t, e)[i - m]
      BY <1>4, <2>0, <3>1
    <3>3. QED
      BY <1>1, <1>5, <2>3, <3>1, <3>2
  <2>4. QED
    BY <2>0, <2>1, <2>2, <2>3
<1>7. Len(u) = Len(v)
  BY <1>3, <1>4, <1>5
<1>8. u = v
  BY <1>4, <1>5, <1>6, <1>7, SeqEqual
<1>9. QED
  BY <1>8 DEF u, v

\* Moving the head of t to the end of s leaves the whole as it is.
LEMMA ConcatMoved ==
  ASSUME NEW S, NEW s \in Seq(S), NEW t \in Seq(S), t # <<>>
  PROVE  Append(s, Head(t)) \o Tail(t) = s \o t
<1>1. <<Head(t)>> \in Seq(S) /\ Tail(t) \in Seq(S) /\ Head(t) \in S
  BY HeadTailProperties
<1>2. Append(s, Head(t)) = s \o <<Head(t)>>
  BY <1>1, AppendIsConcat
<1>3. <<Head(t)>> \o Tail(t) = t
  <2> DEFINE u == <<Head(t)>> \o Tail(t)
  <2>1. /\ Len(t) \in Nat /\ t # <<>> /\ Len(Tail(t)) = Len(t) - 1 /\ Head(t) = t[1]
        /\ \A i \in 1 .. Len(Tail(t)) : Tail(t)[i] = t[i + 1]
    BY HeadTailProperties, LenProperties
  <2>2. Len(<<Head(t)>>) = 1 /\ <<Head(t)>>[1] = Head(t)
    OBVIOUS
  <2>3. /\ u \in Seq(S) /\ Len(u) = 1 + Len(Tail(t))
        /\ \A i \in 1 .. 1 + Len(Tail(t)) :
             u[i] = IF i <= 1 THEN <<Head(t)>>[i] ELSE Tail(t)[i - 1]
    BY <1>1, <2>2, ConcatProperties
  <2> HIDE DEF u
  <2>4. Len(u) = Len(t)
    BY <2>1, <2>3
  <2>5. ASSUME NEW i \in 1 .. Len(u) PROVE u[i] = t[i]
    <3>1. CASE i = 1
      BY <2>1, <2>2, <2>3, <2>5, <3>1
    <3>2. CASE i # 1
      <4>1. i - 1 \in 1 .. Len(Tail(t)) /\ i - 1 + 1 = i /\ ~(i <= 1)
        BY <2>1, <2>4, <2>5, <3>2
      <4>2. QED
        BY <2>1, <2>3, <2>5, <4>1
    <3>3. QED
      BY <3>1, <3>2
  <2>6. u = t
    BY <2>3, <2>4, <2>5, SeqEqual
  <2>7. QED
    BY <2>6 DEF u
<1>4. QED
  BY <1>1, <1>2, <1>3, ConcatAssociative

\* A block submitted before the end is accepted.
LEMMA SubmitAccepted ==
  ASSUME PipeInv, NEW b \in Messages, SendBlock(b)
  PROVE  /\ Stopped' = Stopped
         /\ Accepted' = IF Stopped THEN Accepted ELSE Append(Accepted, b)
<1>1. ordPc' = ordPc /\ ordered' = ordered /\ toOrdering' = Append(toOrdering, b)
  BY DEF SendBlock, Pipeline!PutOrdering, belowVars
<1>2. ordered \o Append(toOrdering, b) = Append(ordered \o toOrdering, b)
  BY AcceptedTypes, ConcatAppend
<1>3. QED
  BY <1>1, <1>2 DEF Stopped, Accepted

\* The pipeline only takes back the blocks submitted after a None.
LEMMA PipelineAccepted ==
  ASSUME PipeInv, Pipeline!PipelineNext
  PROVE  /\ Stopped => Stopped'
         /\ ~Stopped' => Accepted' = Accepted
         /\ Accepted' \in {ordered, Accepted}
<1>a. /\ ordered \in Seq(Messages) /\ toOrdering \in Seq(Messages)
      /\ ordered \o <<>> = ordered
  BY AcceptedTypes, ConcatEmptySeq
<1>1. CASE Pipeline!OrderingReceive
  <2>1. /\ toOrdering # <<>> /\ toOrdering' = Tail(toOrdering) /\ ~Stopped
    BY <1>1 DEF Pipeline!OrderingReceive, Stopped
  <2>2. CASE Head(toOrdering) = Stop
    <3>1. Stopped' /\ ordered' = ordered
      BY <1>1, <2>2 DEF Pipeline!OrderingReceive, Stopped
    <3>2. QED
      BY <1>a, <3>1 DEF Accepted
  <2>3. CASE Head(toOrdering) # Stop
    <3>1. ~Stopped' /\ ordered' = Append(ordered, Head(toOrdering))
      BY <1>1, <2>3 DEF Pipeline!OrderingReceive, Stopped
    <3>2. Append(ordered, Head(toOrdering)) \o Tail(toOrdering) = ordered \o toOrdering
      BY <1>a, <2>1, ConcatMoved
    <3>3. QED
      BY <2>1, <3>1, <3>2 DEF Accepted
  <2>4. QED
    BY <2>2, <2>3
<1>2. CASE UNCHANGED <<ordered, toOrdering>> /\ (Stopped' <=> Stopped)
  BY <1>2 DEF Accepted
<1>3. CASE Pipeline!OrderingSend \/ Pipeline!OrderingStop
  BY <1>2, <1>3 DEF Pipeline!OrderingSend, Pipeline!OrderingStop, Stopped
<1>4. CASE UNCHANGED <<ordPc, ordered, toOrdering>>
  BY <1>2, <1>4 DEF Stopped
<1>5. QED
  BY <1>1, <1>3, <1>4
  DEF Pipeline!PipelineNext, Pipeline!Ordering, Pipeline!Encoder, Pipeline!EncoderReceive,
      Pipeline!EncoderLock, Pipeline!EncoderSend, Pipeline!EncoderNotify,
      Pipeline!SpuriousWakeup, Pipeline!Udp, Pipeline!UdpSend, Pipeline!UdpStop,
      Pipeline!UdpFail, Pipeline!ordVars

-----------------------------------------------------------------------------
(* Transfers in a sequence of blocks *)

\* No block of the sequence is about the connection.
Unseen(bs, c) == \A i \in 1 .. Len(bs) : ~IsOf(bs[i], c)

\* The id has no block, or its last one is an End or an Abort.
Closed(bs, id) ==
  \A i \in 1 .. Len(bs) :
    /\ Belongs(bs[i], id) /\ \A k \in i + 1 .. Len(bs) : ~Belongs(bs[k], id)
    => bs[i].type \in {"End", "Abort"}

\* The last block of the id is a Start or a Data block of this connection that carries
\* bytes up to `to'.
OpenAt(bs, id, of, to) ==
  \E i \in 1 .. Len(bs) :
    /\ Belongs(bs[i], id) /\ \A k \in i + 1 .. Len(bs) : ~Belongs(bs[k], id)
    /\ bs[i].of = of
    /\ bs[i].type \in {"Start", "Data"}
    /\ bs[i].to = to

\* Only the blocks before it decide whether a block is well placed.
LEMMA SamePrefix ==
  ASSUME NEW as, NEW bs, NEW n \in Nat, \A i \in 1 .. n : as[i] = bs[i],
         NEW j \in 1 .. n, InTransfer(bs, j)
  PROVE  InTransfer(as, j)
<1>0. \A i \in 1 .. j - 1 : i \in 1 .. n
  OBVIOUS
<1>a. as[j] = bs[j]
  OBVIOUS
<1>1. as[j] = bs[j] /\ \A i \in 1 .. j - 1 : i \in 1 .. n /\ as[i] = bs[i]
  BY <1>0, <1>a
<1>2. ASSUME NEW i \in 1 .. j - 1 PROVE Follows(as, i, j) <=> Follows(bs, i, j)
  <2>1. \A k \in i + 1 .. j - 1 : k \in 1 .. j - 1
    OBVIOUS
  <2>2. QED
    BY <1>1, <2>1 DEF Follows
<1>3. CASE bs[j].type = "Start"
  <2>1. ASSUME NEW i \in 1 .. j - 1
        PROVE  /\ ~IsOf(as[i], as[j].of)
               /\ Follows(as, i, j) => as[i].type \in {"End", "Abort"}
    <3>1. /\ ~IsOf(bs[i], bs[j].of)
          /\ Follows(bs, i, j) => bs[i].type \in {"End", "Abort"}
      BY <1>3, <2>1 DEF InTransfer
    <3>2. QED
      BY <1>1, <1>2, <3>1
  <2>2. QED
    BY <1>1, <1>3, <2>1 DEF InTransfer
<1>4. CASE bs[j].type # "Start"
  <2>1. PICK i \in 1 .. j - 1 :
          /\ Follows(bs, i, j)
          /\ bs[i].of = bs[j].of
          /\ bs[i].type \in {"Start", "Data"}
          /\ bs[j].type # "Abort" => bs[j].from = bs[i].to
    BY <1>4 DEF InTransfer
  <2>2. Follows(as, i, j) /\ as[i] = bs[i]
    BY <1>1, <1>2, <2>1
  <2>3. QED
    BY <1>1, <1>4, <2>1, <2>2 DEF InTransfer
<1>5. QED
  BY <1>3, <1>4

LEMMA AppendFacts ==
  ASSUME NEW bs \in Seq(Messages), NEW b \in Messages
  PROVE  /\ Len(bs) \in Nat /\ Len(Append(bs, b)) = Len(bs) + 1
         /\ Append(bs, b)[Len(bs) + 1] = b
         /\ \A i \in 1 .. Len(bs) : Append(bs, b)[i] = bs[i]
  BY AppendProperties, LenProperties

LEMMA WellFormedAppend ==
  ASSUME NEW bs \in Seq(Messages), NEW b \in Messages, WellFormed(bs),
         Belongs(b, b.client) => InTransfer(Append(bs, b), Len(bs) + 1)
  PROVE  WellFormed(Append(bs, b))
<1> DEFINE as == Append(bs, b)
           n  == Len(bs)
<1>1. /\ n \in Nat /\ Len(as) = n + 1 /\ as[n + 1] = b
      /\ \A i \in 1 .. n : as[i] = bs[i]
  BY AppendFacts
<1>2. Belongs(b, b.client) => InTransfer(as, n + 1)
  OBVIOUS
<1>3. \A j \in 1 .. n : Belongs(bs[j], bs[j].client) => InTransfer(bs, j)
  BY DEF WellFormed
<1> HIDE DEF as, n
<1>4. ASSUME NEW j \in 1 .. n + 1, Belongs(as[j], as[j].client) PROVE InTransfer(as, j)
  <2>1. CASE j \in 1 .. n
    <3>1. InTransfer(bs, j)
      BY <1>1, <1>3, <1>4, <2>1
    <3>2. n \in Nat /\ \A i \in 1 .. n : as[i] = bs[i]
      BY <1>1
    <3>3. QED
      BY <2>1, <3>1, <3>2, SamePrefix
  <2>2. CASE j = n + 1
    BY <1>1, <1>2, <1>4, <2>2
  <2>3. n \in Nat
    BY <1>1
  <2>4. j \in 1 .. n \/ j = n + 1
    BY <2>3
  <2>5. QED
    BY <2>1, <2>2, <2>4
<1>5. WellFormed(as)
  BY <1>1, <1>4 DEF WellFormed
<1>6. QED
  BY <1>5 DEF as

\* A block of another id leaves the id closed.
LEMMA ClosedAppend ==
  ASSUME NEW bs \in Seq(Messages), NEW b \in Messages, NEW id, Closed(bs, id), ~Belongs(b, id)
  PROVE  Closed(Append(bs, b), id)
<1> DEFINE as == Append(bs, b)
           n  == Len(bs)
<1>1. /\ n \in Nat /\ Len(as) = n + 1 /\ as[n + 1] = b
      /\ \A i \in 1 .. n : as[i] = bs[i]
  BY AppendFacts
<1>2. \A i \in 1 .. n : /\ Belongs(bs[i], id) /\ \A k \in i + 1 .. n : ~Belongs(bs[k], id)
                        => bs[i].type \in {"End", "Abort"}
  BY DEF Closed
<1> HIDE DEF as, n
<1>3. ASSUME NEW i \in 1 .. n + 1, Belongs(as[i], id),
             \A k \in i + 1 .. n + 1 : ~Belongs(as[k], id)
      PROVE  as[i].type \in {"End", "Abort"}
  <2>1. i \in 1 .. n
    <3>1. i # n + 1
      BY <1>1, <1>3
    <3>2. QED
      BY <1>1, <3>1
  <2>2. ASSUME NEW k \in i + 1 .. n PROVE ~Belongs(bs[k], id)
    <3>1. k \in 1 .. n /\ k \in i + 1 .. n + 1
      BY <1>1, <2>1
    <3>2. QED
      BY <1>1, <1>3, <3>1
  <2>3. Belongs(bs[i], id) /\ as[i] = bs[i]
    BY <1>1, <1>3, <2>1
  <2>4. QED
    BY <1>2, <2>1, <2>2, <2>3
<1>4. Closed(as, id)
  BY <1>1, <1>3 DEF Closed
<1>5. QED
  BY <1>4 DEF as

\* An End or an Abort closes its id.
LEMMA ClosedByAppend ==
  ASSUME NEW bs \in Seq(Messages), NEW b \in Messages, NEW id,
         Belongs(b, id), b.type \in {"End", "Abort"}
  PROVE  Closed(Append(bs, b), id)
<1> DEFINE as == Append(bs, b)
           n  == Len(bs)
<1>1. n \in Nat /\ Len(as) = n + 1 /\ as[n + 1] = b
  BY AppendFacts
<1> HIDE DEF as, n
<1>2. ASSUME NEW i \in 1 .. n + 1, \A k \in i + 1 .. n + 1 : ~Belongs(as[k], id)
      PROVE  as[i].type \in {"End", "Abort"}
  <2>1. i = n + 1
    <3>1. i # n + 1 => n + 1 \in i + 1 .. n + 1
      BY <1>1
    <3>2. QED
      BY <1>1, <1>2, <3>1
  <2>2. QED
    BY <1>1, <2>1
<1>3. Closed(as, id)
  BY <1>1, <1>2 DEF Closed
<1>4. QED
  BY <1>3 DEF as

LEMMA OpenAppend ==
  ASSUME NEW bs \in Seq(Messages), NEW b \in Messages, NEW id, NEW of, NEW to,
         OpenAt(bs, id, of, to), ~Belongs(b, id)
  PROVE  OpenAt(Append(bs, b), id, of, to)
<1> DEFINE as == Append(bs, b)
           n  == Len(bs)
<1>1. /\ n \in Nat /\ Len(as) = n + 1 /\ as[n + 1] = b
      /\ \A i \in 1 .. n : as[i] = bs[i]
  BY AppendFacts
<1>2. PICK i \in 1 .. n : /\ Belongs(bs[i], id)
                          /\ \A k \in i + 1 .. n : ~Belongs(bs[k], id)
                          /\ bs[i].of = of
                          /\ bs[i].type \in {"Start", "Data"}
                          /\ bs[i].to = to
  BY DEF OpenAt
<1> HIDE DEF as, n
<1>3. \A k \in i + 1 .. n + 1 : ~Belongs(as[k], id)
  <2>1. ASSUME NEW k \in i + 1 .. n + 1 PROVE ~Belongs(as[k], id)
    <3>1. CASE k = n + 1
      BY <1>1, <3>1
    <3>2. CASE k # n + 1
      <4>1. k \in i + 1 .. n /\ k \in 1 .. n
        BY <1>1, <3>2
      <4>2. QED
        BY <1>1, <1>2, <4>1
    <3>3. QED
      BY <3>1, <3>2
  <2>2. QED
    BY <2>1
<1>4. i \in 1 .. n + 1
  BY <1>1
<1>5. as[i] = bs[i]
  BY <1>1
<1>6. OpenAt(as, id, of, to)
  BY <1>1, <1>2, <1>3, <1>4, <1>5 DEF OpenAt
<1>7. QED
  BY <1>6 DEF as

LEMMA OpenedByAppend ==
  ASSUME NEW bs \in Seq(Messages), NEW b \in Messages, NEW id,
         Belongs(b, id), b.type \in {"Start", "Data"}
  PROVE  OpenAt(Append(bs, b), id, b.of, b.to)
<1> DEFINE as == Append(bs, b)
           n  == Len(bs)
<1>1. n \in Nat /\ Len(as) = n + 1 /\ as[n + 1] = b
  BY AppendFacts
<1> HIDE DEF as, n
<1>2. n + 1 \in 1 .. Len(as)
  BY <1>1
<1>3. \A k \in n + 1 + 1 .. n + 1 : FALSE
  BY <1>1
<1>4. \A k \in n + 1 + 1 .. Len(as) : ~Belongs(as[k], id)
  BY <1>1, <1>3
<1>5. OpenAt(as, id, b.of, b.to)
  BY <1>1, <1>2, <1>4 DEF OpenAt
<1>6. QED
  BY <1>5 DEF as

\* What the transfer asks of the next block of a client.
Fits(bs, b) ==
  /\ b.type = "Start" => b.to = 0 /\ Closed(bs, b.client) /\ Unseen(bs, b.of)
  /\ b.type = "Abort" => \E to \in Nat : OpenAt(bs, b.client, b.of, to)
  /\ b.type \in {"Data", "End"} => OpenAt(bs, b.client, b.of, b.from)
  /\ b.to - b.from <= BufferLen
  /\ b.type = "Data" => b.to > b.from
  /\ b.type = "Data" /\ ~config.flush => b.to - b.from = BufferLen

LEMMA FittingBlock ==
  ASSUME NEW bs \in Seq(Messages), NEW b \in ProtocolBlocks, Belongs(b, b.client), Fits(bs, b)
  PROVE  InTransfer(Append(bs, b), Len(bs) + 1)
<1> DEFINE as == Append(bs, b)
           n  == Len(bs)
           j  == n + 1
<1>0. b \in Messages
  BY DEF Messages
<1>1. n \in Nat /\ as[j] = b /\ \A i \in 1 .. n : as[i] = bs[i]
  BY <1>0, AppendFacts
<1>2. j - 1 = n
  BY <1>1
<1>3. /\ b.to - b.from <= BufferLen
      /\ b.type = "Data" => b.to > b.from
      /\ b.type = "Data" /\ ~config.flush => b.to - b.from = BufferLen
  BY DEF Fits
<1>a. \A i \in 1 .. n : \A k \in i + 1 .. n : k \in 1 .. n
  BY <1>1
<1>4. CASE b.type = "Start"
  <2>1. /\ b.to = 0 /\ \A i \in 1 .. n : ~IsOf(bs[i], b.of)
        /\ \A i \in 1 .. n :
             /\ Belongs(bs[i], b.client) /\ \A k \in i + 1 .. n : ~Belongs(bs[k], b.client)
             => bs[i].type \in {"End", "Abort"}
    BY <1>4 DEF Fits, Unseen, Closed
  <2> HIDE DEF as, j, n
  <2>2. ASSUME NEW i \in 1 .. j - 1
        PROVE  /\ ~IsOf(as[i], as[j].of)
               /\ Follows(as, i, j) => as[i].type \in {"End", "Abort"}
    <3>1. i \in 1 .. n /\ as[i] = bs[i]
      BY <1>1, <1>2
    <3>2. ASSUME Follows(as, i, j) PROVE bs[i].type \in {"End", "Abort"}
      <4>1. Belongs(bs[i], b.client) /\ \A k \in i + 1 .. n : ~Belongs(as[k], b.client)
        BY <1>1, <1>2, <3>1, <3>2 DEF Follows
      <4>2. \A k \in i + 1 .. n : ~Belongs(bs[k], b.client)
        BY <1>1, <1>a, <3>1, <4>1
      <4>3. QED
        BY <2>1, <3>1, <4>1, <4>2
    <3>3. QED
      BY <1>1, <2>1, <3>1, <3>2
  <2>3. InTransfer(as, j)
    BY <1>1, <1>3, <1>4, <2>1, <2>2 DEF InTransfer
  <2>4. QED
    BY <2>3 DEF as, j, n
<1>5. CASE b.type # "Start"
  <2>1. b.type \in {"Data", "End", "Abort"}
    BY <1>5 DEF ProtocolBlocks, BlockTypes, Belongs
  <2>2. PICK i \in 1 .. n :
          /\ Belongs(bs[i], b.client) /\ \A k \in i + 1 .. n : ~Belongs(bs[k], b.client)
          /\ bs[i].of = b.of
          /\ bs[i].type \in {"Start", "Data"}
          /\ b.type # "Abort" => b.from = bs[i].to
    BY <2>1 DEF Fits, OpenAt
  <2> HIDE DEF as, j, n
  <2>3. as[i] = bs[i] /\ i \in 1 .. j - 1
    BY <1>1, <1>2
  <2>4. \A k \in i + 1 .. j - 1 : ~Belongs(as[k], b.client)
    BY <1>1, <1>2, <1>a, <2>2
  <2>5. Follows(as, i, j)
    BY <1>1, <2>2, <2>3, <2>4 DEF Follows
  <2>6. InTransfer(as, j)
    BY <1>1, <1>3, <1>5, <2>2, <2>3, <2>5 DEF InTransfer
  <2>7. QED
    BY <2>6 DEF as, j, n
<1>6. QED
  BY <1>4, <1>5

-----------------------------------------------------------------------------
(* The accepted blocks and the server threads *)

\* A connection no block of which was submitted yet.
Untouched(c) ==
  \/ c \notin connected
  \/ \E i \in 1 .. Len(toServer) : toServer[i] = c
  \/ \E s \in Servers : srvPc[s] \in {"wait", "start"} /\ srvClient[s] = c

SeenInv == \A c \in Clients : Untouched(c) => Unseen(Accepted, c)

EndsInv ==
  \A i \in 1 .. Len(Accepted) :
    Accepted[i] # Stop /\ Accepted[i].type = "End"
      => Accepted[i].of \in Clients /\ peer[Accepted[i].of] = "closed"

\* A server between the Start block of its client and the last one.
Transferring(s) == srvPc[s] \in {"read", "block", "error", "abort"}

\* The transfer of a server's client is open, up to the bytes already transmitted.
InProgress(s) ==
  Transferring(s) => OpenAt(Accepted, srvId[s], srvClient[s], transmitted[s])

\* An id under which no server transfers.
Idle(id) == \A s \in Servers : Transferring(s) => srvId[s] # id

\* The open transfers are those the servers are at.
TrackInv ==
  /\ \A s \in Servers : InProgress(s)
  /\ \A id \in ClientIds : Idle(id) => Closed(Accepted, id)

LogInv ==
  /\ SeenInv /\ EndsInv
  /\ ~outlasted => WellFormed(Accepted) /\ (~Stopped => TrackInv)

LEMMA LogInit == Init => LogInv
<1> SUFFICES ASSUME Init PROVE LogInv
  OBVIOUS
<1>1. ordered = <<>> /\ toOrdering = <<>>
  BY DEF Init, Pipeline!PipelineInit
<1>2. Accepted = <<>>
  BY <1>1, ConcatEmptySeq, EmptySeq DEF Accepted
<1>3. Len(Accepted) = 0
  BY <1>2
<1>4. \A s \in Servers : srvPc[s] = "recv"
  BY DEF Init
<1>5. QED
  BY <1>3, <1>4 DEF LogInv, WellFormed, SeenInv, Unseen, EndsInv, TrackInv, InProgress,
         Transferring, Closed

\* No other server has the id of this one's client, unless it was handed out again.
LEMMA OtherIds ==
  ASSUME ServersInv, ~outlasted, NEW s \in Servers, NEW t \in Servers, s # t,
         Sends(s), Sends(t)
  PROVE  srvId[s] # srvId[t]
<1>1. /\ rank[s] \in Nat /\ rank[t] \in Nat /\ handedOut \in Nat
      /\ ClientIdModulus \in Nat \ {0}
  BY ConstantFacts DEF ServersInv, ServerTypes
<1>2. HasId(s) /\ HasId(t)
  BY DEF HasId, Sends
<1>3. /\ srvId[s] = rank[s] % ClientIdModulus /\ rank[s] < handedOut
      /\ srvId[t] = rank[t] % ClientIdModulus /\ rank[t] < handedOut
      /\ rank[s] # rank[t]
      /\ handedOut <= rank[s] + ClientIdModulus /\ handedOut <= rank[t] + ClientIdModulus
  BY <1>2 DEF ServersInv, RanksInv
<1>4. CASE rank[s] < rank[t]
  <2>1. rank[t] < rank[s] + ClientIdModulus
    BY <1>1, <1>3
  <2>2. QED
    BY <1>1, <1>3, <1>4, <2>1, DistinctInATurn
<1>5. CASE rank[t] < rank[s]
  <2>1. rank[s] < rank[t] + ClientIdModulus
    BY <1>1, <1>3
  <2>2. QED
    BY <1>1, <1>3, <1>5, <2>1, DistinctInATurn
<1>6. QED
  BY <1>1, <1>3, <1>4, <1>5

LEMMA WellFormedNext ==
  ASSUME UNCHANGED config, WellFormed(Accepted')
  PROVE  WellFormed(Accepted)'
  BY DEF WellFormed, InTransfer, Follows, Belongs, IsOf

\* What the history says of a transfer that lasted too long stays true.
LEMMA OutlastedStays ==
  ASSUME [Next]_vars
  PROVE  outlasted => outlasted'
<1>1. ASSUME NEW s \in 1 .. config.max_clients, Server(s)
      PROVE  outlasted => outlasted'
  BY <1>1 DEF Server, ServerReceive, ServerAcquire, ClientStart, ClientReadData,
              ClientReadZero, ClientReadError, ClientSend, ServerRelease, ServerAbort,
              ServerStop, HandOut, historyVars
<1>2. CASE UNCHANGED serverVars
  BY <1>2 DEF serverVars, historyVars
<1>3. QED
  BY <1>1, <1>2 DEF Next, vars, inputVars, NewClient, PeerEnds, StopSender, Heartbeat

\* Once a block of it was submitted, a connection is touched for good.
LEMMA TouchedStays ==
  ASSUME ServersInv, [Next]_vars, NEW c \in Clients, Untouched(c)'
  PROVE  Untouched(c)
<1>a. ServerTypes /\ ClientsInv
  BY DEF ServersInv
<1>1. ASSUME NEW s \in 1 .. config.max_clients, Server(s) PROVE Untouched(c)
  <2>1. s \in Servers
    BY <1>a, ServerExists
  <2>2. \A t \in Servers : t # s => srvPc'[t] = srvPc[t] /\ srvClient'[t] = srvClient[t]
    BY <1>a, <1>1, <2>1, ServerFrame
  <2>3. CASE ServerReceive(s)
    <3>1. /\ toServer' = <<>> /\ Len(toServer) = 1 /\ Head(toServer) = toServer[1]
          /\ connected' = connected
      BY <1>a, <2>3, QueueTypes DEF ServerReceive, ServerTypes
    <3>2. /\ Head(toServer) = Stop => srvPc'[s] = "stop"
          /\ Head(toServer) # Stop => srvClient'[s] = Head(toServer)
      BY <1>a, <2>1, <2>3 DEF ServerReceive, Goto, ServerTypes
    <3>3. Len(toServer') = 0
      BY <3>1
    <3>4. CASE c \notin connected
      BY <3>4 DEF Untouched
    <3>5. CASE \E t \in Servers : srvPc'[t] \in {"wait", "start"} /\ srvClient'[t] = c
      <4>1. PICK t \in Servers : srvPc'[t] \in {"wait", "start"} /\ srvClient'[t] = c
        BY <3>5
      <4>2. CASE t = s
        <5>1. toServer[1] = c /\ 1 \in 1 .. Len(toServer)
          BY <3>1, <3>2, <4>1, <4>2
        <5>2. QED
          BY <5>1 DEF Untouched
      <4>3. CASE t # s
        BY <2>2, <4>1, <4>3 DEF Untouched
      <4>4. QED
        BY <4>2, <4>3
    <3>6. \/ c \notin connected'
          \/ \E i \in 1 .. Len(toServer') : toServer'[i] = c
          \/ \E t \in Servers : srvPc'[t] \in {"wait", "start"} /\ srvClient'[t] = c
      BY DEF Untouched
    <3>7. QED
      BY <3>1, <3>3, <3>4, <3>5, <3>6
  <2>4. CASE ~ServerReceive(s)
    <3>1. UNCHANGED <<toServer, connected>>
      BY <1>1, <2>4 DEF Server, ServerAcquire, ClientStart, ClientReadData, ClientReadZero,
         ClientReadError, ClientSend, ServerRelease, ServerAbort, ServerStop, listenerVars
    <3>2. srvPc'[s] \in {"wait", "start"} => /\ srvPc[s] \in {"wait", "start"}
                                             /\ srvClient'[s] = srvClient[s]
      <4>1. CASE ServerAcquire(s)
        BY <4>1 DEF ServerAcquire
      <4>2. CASE ~ServerAcquire(s)
        <5>1. srvPc'[s] \notin {"wait", "start"}
          BY <1>1, <1>a, <2>1, <2>4, <4>2
          DEF Server, ClientStart, ClientReadData, ClientReadZero, ClientReadError,
              ClientSend, ServerRelease, ServerAbort, ServerStop, Goto, ServerTypes
        <5>2. QED
          BY <5>1
      <4>3. QED
        BY <4>1, <4>2
    <3>3. \A t \in Servers : srvPc'[t] \in {"wait", "start"} =>
            srvPc[t] \in {"wait", "start"} /\ srvClient'[t] = srvClient[t]
      BY <2>2, <3>2
    <3>4. QED
      BY <3>1, <3>3 DEF Untouched
  <2>5. QED
    BY <2>3, <2>4
<1>2. ASSUME NEW d \in Clients, NewClient(d) PROVE Untouched(c)
  <2>1. /\ Len(toServer') = 1 /\ toServer'[1] = d /\ connected' = connected \cup {d}
        /\ d \notin connected /\ UNCHANGED <<srvPc, srvClient>>
    BY <1>2, <1>a, QueueTypes DEF NewClient, ServerTypes, serverVars
  <2>2. CASE c = d
    BY <2>1, <2>2 DEF Untouched
  <2>3. CASE c # d
    BY <2>1, <2>3 DEF Untouched
  <2>4. QED
    BY <2>2, <2>3
<1>3. CASE StopSender
  <2>1. /\ Len(toServer') = 1 /\ toServer'[1] = Stop
        /\ UNCHANGED <<connected, srvPc, srvClient>>
    BY <1>3, <1>a, QueueTypes DEF StopSender, ServerTypes, serverVars
  <2>2. QED
    BY <2>1, ConstantFacts DEF Untouched
<1>4. CASE UNCHANGED <<toServer, connected, serverVars>>
  BY <1>4 DEF Untouched, serverVars
<1>5. QED
  BY <1>1, <1>2, <1>3, <1>4 DEF Next, vars, inputVars, listenerVars, PeerEnds, Heartbeat

\* What remains of the accepted blocks is as good as all of them.
LEMMA BlocksKept ==
  ASSUME ServersInv, PipeInv, LogInv, [Next]_vars, Accepted' \in {ordered, Accepted}
  PROVE  SeenInv' /\ EndsInv' /\ (~outlasted' => WellFormed(Accepted)')
<1>a. UNCHANGED config /\ \A c \in Clients : peer[c] # "open" => peer'[c] = peer[c]
  BY PeersStay DEF ServersInv
<1> DEFINE as == Accepted'
<1>1. /\ Len(as) \in Nat /\ Len(Accepted) \in Nat /\ Len(as) <= Len(Accepted)
      /\ \A i \in 1 .. Len(as) : as[i] = Accepted[i]
  BY AcceptedTypes, LenProperties
<1>2. \A i \in 1 .. Len(as) : i \in 1 .. Len(Accepted)
  BY <1>1
<1>3. ~outlasted' => WellFormed(as)
  <2> SUFFICES ASSUME ~outlasted' PROVE WellFormed(as)
    OBVIOUS
  <2>a. WellFormed(Accepted)
    BY OutlastedStays DEF LogInv
  <2> HIDE DEF as
  <2>1. ASSUME NEW j \in 1 .. Len(as), Belongs(as[j], as[j].client) PROVE InTransfer(as, j)
    <3>1. InTransfer(Accepted, j)
      BY <1>1, <1>2, <2>1, <2>a DEF WellFormed
    <3>2. QED
      BY <1>1, <3>1, SamePrefix
  <2>2. QED
    BY <2>1 DEF WellFormed
<1>4. SeenInv'
  <2>1. ASSUME NEW c \in Clients, Untouched(c)' PROVE Unseen(as, c)
    <3>1. Unseen(Accepted, c)
      BY <2>1, TouchedStays DEF LogInv, SeenInv
    <3>2. QED
      BY <1>1, <1>2, <3>1 DEF Unseen
  <2>2. \A c \in Clients : Unseen(as, c) => Unseen(Accepted, c)'
    BY DEF Unseen, IsOf
  <2>3. QED
    BY <2>1, <2>2 DEF SeenInv
<1>5. EndsInv'
  <2>1. ASSUME NEW i \in 1 .. Len(as), as[i] # Stop, as[i].type = "End"
        PROVE  as[i].of \in Clients /\ peer'[as[i].of] = "closed"
    <3>1. i \in 1 .. Len(Accepted) /\ as[i] = Accepted[i]
      BY <1>1, <1>2
    <3>2. as[i].of \in Clients /\ peer[as[i].of] = "closed"
      BY <2>1, <3>1 DEF LogInv, EndsInv
    <3>3. QED
      BY <1>a, <3>2
  <2>2. QED
    BY <2>1 DEF EndsInv
<1>6. QED
  BY <1>a, <1>3, <1>4, <1>5, WellFormedNext

\* A submitted block that fits extends the accepted ones.
LEMMA BlocksGrow ==
  ASSUME ServersInv, PipeInv, LogInv, [Next]_vars, UNCHANGED <<config, peer>>,
         NEW b \in Messages, Accepted' = Append(Accepted, b),
         ~outlasted' /\ Belongs(b, b.client) => b \in ProtocolBlocks /\ Fits(Accepted, b),
         \A c \in Clients : IsOf(b, c) => ~Untouched(c)',
         b # Stop /\ b.type = "End" => b.of \in Clients /\ peer[b.of] = "closed"
  PROVE  SeenInv' /\ EndsInv' /\ (~outlasted' => WellFormed(Accepted)')
<1>1. ~outlasted' => WellFormed(Accepted)'
  <2> SUFFICES ASSUME ~outlasted' PROVE WellFormed(Accepted)'
    OBVIOUS
  <2>1. Accepted \in Seq(Messages) /\ WellFormed(Accepted)
    BY AcceptedTypes, OutlastedStays DEF LogInv
  <2>2. Belongs(b, b.client) => InTransfer(Append(Accepted, b), Len(Accepted) + 1)
    BY <2>1, FittingBlock
  <2>3. WellFormed(Append(Accepted, b))
    BY <2>1, <2>2, WellFormedAppend
  <2>4. QED
    BY <2>3, WellFormedNext
<1> DEFINE as == Accepted'
           n  == Len(Accepted)
<1>2. /\ n \in Nat /\ Len(as) = n + 1 /\ as[n + 1] = b
      /\ \A i \in 1 .. n : as[i] = Accepted[i]
  BY AcceptedTypes, AppendFacts
<1>3. /\ \A i \in 1 .. n : Accepted[i] # Stop /\ Accepted[i].type = "End"
           => Accepted[i].of \in Clients /\ peer[Accepted[i].of] = "closed"
      /\ \A c \in Clients : Untouched(c)' => \A i \in 1 .. n : ~IsOf(Accepted[i], c)
  BY TouchedStays DEF LogInv, EndsInv, SeenInv, Unseen
<1> HIDE DEF as, n
<1>4. n \in Nat
  BY <1>2
<1>5. \A i \in 1 .. n + 1 : i \in 1 .. n \/ i = n + 1
  BY <1>4
<1>6. \A i \in 1 .. Len(as) : as[i] # Stop /\ as[i].type = "End"
        => as[i].of \in Clients /\ peer[as[i].of] = "closed"
  BY <1>2, <1>3, <1>5
<1>7. \A c \in Clients : Untouched(c)' => \A i \in 1 .. Len(as) : ~IsOf(as[i], c)
  BY <1>2, <1>3, <1>5
<1>8. EndsInv'
  BY <1>6 DEF as, EndsInv
<1>9. SeenInv'
  BY <1>7 DEF as, SeenInv, Unseen, IsOf
<1>10. QED
  BY <1>1, <1>8, <1>9

\* Another block leaves a transfer as it is.
LEMMA InProgressAppend ==
  ASSUME PipeInv, NEW t \in Servers, InProgress(t), NEW b \in Messages,
         Accepted' = Append(Accepted, b), Transferring(t) => ~Belongs(b, srvId[t]),
         srvPc'[t] = srvPc[t], srvId'[t] = srvId[t], srvClient'[t] = srvClient[t],
         transmitted'[t] = transmitted[t]
  PROVE  InProgress(t)'
<1>1. Accepted \in Seq(Messages)
  BY AcceptedTypes
<1>2. CASE Transferring(t)
  <2>1. OpenAt(Accepted, srvId[t], srvClient[t], transmitted[t]) /\ ~Belongs(b, srvId[t])
    BY <1>2 DEF InProgress
  <2>2. OpenAt(Append(Accepted, b), srvId[t], srvClient[t], transmitted[t])
    BY <1>1, <2>1, OpenAppend
  <2>3. OpenAt(Accepted, srvId[t], srvClient[t], transmitted[t])'
    BY <2>2 DEF OpenAt
  <2>4. QED
    BY <2>3 DEF InProgress
<1>3. CASE ~Transferring(t)
  BY <1>3 DEF InProgress, Transferring
<1>4. QED
  BY <1>2, <1>3

\* A server submits a block of its client.
LEMMA SubmitStep ==
  ASSUME ServersInv, PipeInv, LogInv, [Next]_vars,
         NEW s \in Servers, Sends(s), NEW b \in ProtocolBlocks, SendBlock(b),
         b.client = srvId[s], b.of = srvClient[s], b.type # "Heartbeat",
         ~Stopped /\ ~outlasted => Fits(Accepted, b),
         b.type = "End" => peer[srvClient[s]] = "closed",
         UNCHANGED <<config, peer, toServer, connected>>,
         \A t \in Servers : t # s =>
           /\ srvPc'[t] = srvPc[t] /\ srvId'[t] = srvId[t] /\ srvClient'[t] = srvClient[t]
           /\ transmitted'[t] = transmitted[t],
         srvPc'[s] \notin {"wait", "start"},
         IF Transferring(s)'
         THEN /\ b.type \in {"Start", "Data"} /\ srvId'[s] = srvId[s]
              /\ srvClient'[s] = srvClient[s] /\ transmitted'[s] = b.to
         ELSE b.type \in {"End", "Abort"}
  PROVE  LogInv'
<1>0. /\ b \in Messages /\ Stopped' = Stopped
      /\ Accepted' = IF Stopped THEN Accepted ELSE Append(Accepted, b)
  BY SubmitAccepted DEF Messages
<1>1. CASE Stopped
  BY <1>0, <1>1, BlocksKept DEF LogInv
<1>2. CASE ~Stopped
  <2>0. Accepted' = Append(Accepted, b) /\ Accepted \in Seq(Messages)
    BY <1>0, <1>2, AcceptedTypes
  <2>1. b # Stop
    BY SenderPipelineAssumption
  <2>2. srvId[s] \in ClientIds /\ srvClient[s] \in Clients
    BY IdsFit DEF Sends, HasId
  <2>3. ASSUME NEW c \in Clients, IsOf(b, c) PROVE ~Untouched(c)'
    <3>1. c = srvClient[s]
      BY <2>3 DEF IsOf
    <3>2. HasClient(s) /\ ClientsInv
      BY DEF Sends, HasClient, ServersInv
    <3>3. c \in connected
      BY <3>1, <3>2 DEF ClientsInv, ServerInv
    <3>4. \A i \in 1 .. Len(toServer) : toServer[i] # c
      BY <3>1, <3>2, ConstantFacts DEF ClientsInv, QueueInv
    <3>5. ASSUME NEW t \in Servers, srvPc'[t] \in {"wait", "start"} PROVE srvClient'[t] # c
      <4>1. t # s
        BY <3>5
      <4>2. QED
        BY <3>1, <3>2, <4>1 DEF ClientsInv, OneServerEach
    <3>6. QED
      BY <3>3, <3>4, <3>5 DEF Untouched
  <2>4. ~outlasted' => ~outlasted
    BY OutlastedStays
  <2>5. SeenInv' /\ EndsInv' /\ (~outlasted' => WellFormed(Accepted)')
    BY <1>0, <1>2, <2>0, <2>2, <2>3, <2>4, BlocksGrow
  <2>6. ASSUME ~outlasted' PROVE TrackInv'
    <3>0. TrackInv /\ ~outlasted
      BY <1>2, <2>4, <2>6 DEF LogInv
    <3>a. ASSUME NEW t \in Servers, t # s, Transferring(t) PROVE ~Belongs(b, srvId[t])
      <4>1. Sends(t)
        BY <3>a DEF Sends, Transferring
      <4>2. QED
        BY <3>0, <3>a, <4>1, OtherIds DEF Belongs
    <3>1. ASSUME NEW t \in Servers PROVE InProgress(t)'
      <4>1. CASE t # s
        BY <1>0, <2>0, <3>0, <3>1, <3>a, <4>1, InProgressAppend DEF TrackInv
      <4>2. CASE t = s /\ Transferring(s)'
        <5>1. Belongs(b, srvId[s])
          BY <2>1 DEF Belongs
        <5>2. OpenAt(Append(Accepted, b), srvId[s], b.of, b.to)
          BY <1>0, <2>0, <4>2, <5>1, OpenedByAppend
        <5>3. OpenAt(Accepted, srvId[s], srvClient[s], transmitted[s])'
          BY <2>0, <4>2, <5>2 DEF OpenAt
        <5>4. QED
          BY <4>2, <5>3 DEF InProgress
      <4>3. CASE t = s /\ ~Transferring(s)'
        BY <4>3 DEF InProgress
      <4>4. QED
        BY <4>1, <4>2, <4>3
    <3>2. ASSUME NEW id \in ClientIds, Idle(id)' PROVE Closed(Accepted', id)
      <4>1. CASE id = srvId[s]
        <5>1. ~Transferring(s)'
          BY <3>2, <4>1 DEF Idle
        <5>2. Belongs(b, id) /\ b.type \in {"End", "Abort"}
          BY <2>1, <4>1, <5>1 DEF Belongs
        <5>3. QED
          BY <1>0, <2>0, <5>2, ClosedByAppend
      <4>2. CASE id # srvId[s]
        <5>1. Idle(id)
          BY <3>2, <4>2 DEF Idle, Transferring
        <5>2. Closed(Accepted, id) /\ ~Belongs(b, id)
          BY <3>0, <4>2, <5>1 DEF TrackInv, Belongs
        <5>3. QED
          BY <1>0, <2>0, <5>2, ClosedAppend
      <4>3. QED
        BY <4>1, <4>2
    <3>3. \A id \in ClientIds : Closed(Accepted', id) => Closed(Accepted, id)'
      BY DEF Closed, Belongs
    <3>4. QED
      BY <3>1, <3>2, <3>3 DEF TrackInv
  <2>7. QED
    BY <2>5, <2>6 DEF LogInv
<1>3. QED
  BY <1>1, <1>2

LEMMA TransferStep ==
  ASSUME ServersInv, PipeInv, LogInv, [Next]_vars, NEW s \in 1 .. config.max_clients,
         Server(s), ClientStart(s) \/ ClientSend(s) \/ ServerAbort(s)
  PROVE  LogInv'
<1>1. s \in Servers /\ Sends(s) /\ HasId(s)
  BY ServerExists DEF ServersInv, Sends, HasId, ClientStart, ClientSend, ServerAbort
<1>2. \A t \in Servers : t # s =>
        /\ srvPc'[t] = srvPc[t] /\ srvId'[t] = srvId[t] /\ srvClient'[t] = srvClient[t]
        /\ transmitted'[t] = transmitted[t]
  BY <1>1, ServerFrame DEF ServersInv
<1>3. UNCHANGED <<config, peer, toServer, connected>>
  BY DEF ClientStart, ClientSend, ServerAbort, listenerVars
<1>4. srvId[s] \in ClientIds /\ srvClient[s] \in Clients
  BY <1>1, IdsFit
<1>5. /\ transmitted[s] \in Nat /\ cursor[s] \in Nat /\ cursor[s] <= BufferLen
      /\ transmitted[s] + cursor[s] \in Nat /\ BufferLen \in Nat
      /\ srvPc \in [Servers -> Pcs] /\ transmitted \in [Servers -> Nat]
  <2>1. transmitted \in [Servers -> Nat] /\ cursor \in [Servers -> 0 .. BufferLen]
    BY DEF ServersInv, ServerTypes
  <2>2. BufferLen \in Nat
    BY ConstantFacts
  <2>3. QED
    BY <1>1, <2>1, <2>2 DEF ServersInv, ServerTypes
<1>6. ~Stopped /\ ~outlasted => TrackInv /\ InProgress(s)
  BY <1>1 DEF LogInv, TrackInv
<1>7. CASE ClientStart(s)
  <2> DEFINE b == Block("Start", srvId[s], srvClient[s], 0, 0)
  <2>1. /\ b \in ProtocolBlocks /\ b.type = "Start" /\ b.client = srvId[s]
        /\ b.of = srvClient[s] /\ b.from = 0 /\ b.to = 0
    BY <1>4 DEF Block, ProtocolBlocks, BlockTypes
  <2>2. SendBlock(b) /\ srvPc[s] = "start"
    BY <1>7 DEF ClientStart
  <2>3. /\ srvPc'[s] = "read" /\ srvId' = srvId /\ srvClient' = srvClient
        /\ transmitted'[s] = 0
    BY <1>1, <1>5, <1>7 DEF ClientStart, Goto
  <2> HIDE DEF b
  <2>4. Unseen(Accepted, srvClient[s])
    BY <1>1, <1>4, <2>2 DEF LogInv, SeenInv, Untouched
  <2>5. ~Stopped /\ ~outlasted => Closed(Accepted, srvId[s])
    <3> SUFFICES ASSUME ~Stopped, ~outlasted PROVE Closed(Accepted, srvId[s])
      OBVIOUS
    <3>1. ASSUME NEW t \in Servers, Transferring(t) PROVE srvId[t] # srvId[s]
      <4>1. t # s /\ Sends(t)
        BY <2>2, <3>1 DEF Transferring, Sends
      <4>2. QED
        BY <1>1, <4>1, OtherIds
    <3>2. Idle(srvId[s])
      BY <3>1 DEF Idle
    <3>3. QED
      BY <1>4, <1>6, <3>2 DEF TrackInv
  <2>6. ~Stopped /\ ~outlasted => Fits(Accepted, b)
    BY <1>5, <2>1, <2>4, <2>5 DEF Fits
  <2>7. Transferring(s)' /\ srvPc'[s] \notin {"wait", "start"}
    BY <2>3 DEF Transferring
  <2>8. QED
    BY <1>1, <1>2, <1>3, <2>1, <2>2, <2>3, <2>6, <2>7, SubmitStep
<1>8. CASE ClientSend(s)
  <2> DEFINE b == Block(IF eof[s] THEN "End" ELSE "Data", srvId[s], srvClient[s],
                        transmitted[s], transmitted[s] + cursor[s])
  <2>1. /\ b \in ProtocolBlocks /\ b.type = (IF eof[s] THEN "End" ELSE "Data")
        /\ b.client = srvId[s] /\ b.of = srvClient[s]
        /\ b.from = transmitted[s] /\ b.to = transmitted[s] + cursor[s]
    BY <1>4, <1>5 DEF Block, ProtocolBlocks, BlockTypes
  <2>2. SendBlock(b) /\ srvPc[s] = "block"
    BY <1>8 DEF ClientSend
  <2>3. /\ srvPc'[s] = (IF eof[s] THEN "finish" ELSE "read") /\ srvId' = srvId
        /\ srvClient' = srvClient /\ transmitted'[s] = transmitted[s] + cursor[s]
    BY <1>1, <1>5, <1>8 DEF ClientSend, Goto
  <2> HIDE DEF b
  <2>4. /\ eof[s] => peer[srvClient[s]] = "closed"
        /\ ~eof[s] => cursor[s] > 0 /\ (config.flush \/ cursor[s] = BufferLen)
    BY <1>1, <2>2 DEF ServersInv, BuffersInv, BufferInv
  <2>5. b.to - b.from = cursor[s] /\ (cursor[s] > 0 => b.to > b.from)
    BY <1>5, <2>1
  <2>6. ~Stopped /\ ~outlasted => OpenAt(Accepted, b.client, b.of, b.from)
    BY <1>6, <2>1, <2>2 DEF InProgress, Transferring
  <2>7. ~Stopped /\ ~outlasted => Fits(Accepted, b)
    <3>1. b.type \in {"End", "Data"} /\ (b.type = "Data" <=> ~eof[s])
      BY <2>1
    <3>2. QED
      BY <1>5, <2>4, <2>5, <2>6, <3>1 DEF Fits
  <2>8. /\ Transferring(s)' <=> ~eof[s]
        /\ srvPc'[s] \notin {"wait", "start"}
    BY <2>3 DEF Transferring
  <2>9. IF Transferring(s)'
        THEN /\ b.type \in {"Start", "Data"} /\ srvId'[s] = srvId[s]
             /\ srvClient'[s] = srvClient[s] /\ transmitted'[s] = b.to
        ELSE b.type \in {"End", "Abort"}
    BY <2>1, <2>3, <2>8
  <2>10. b.type # "Heartbeat" /\ (b.type = "End" => peer[srvClient[s]] = "closed")
    BY <2>1, <2>4
  <2>11. QED
    BY <1>1, <1>2, <1>3, <2>1, <2>2, <2>7, <2>8, <2>9, <2>10, SubmitStep
<1>9. CASE ServerAbort(s)
  <2> DEFINE b == Block("Abort", srvId[s], srvClient[s], 0, 0)
  <2>1. /\ b \in ProtocolBlocks /\ b.type = "Abort" /\ b.client = srvId[s]
        /\ b.of = srvClient[s] /\ b.from = 0 /\ b.to = 0
    BY <1>4 DEF Block, ProtocolBlocks, BlockTypes
  <2>2. SendBlock(b) /\ srvPc[s] = "abort"
    BY <1>9 DEF ServerAbort
  <2>3. srvPc'[s] = "recv"
    BY <1>1, <1>5, <1>9 DEF ServerAbort, Goto
  <2> HIDE DEF b
  <2>4. ~Stopped /\ ~outlasted => OpenAt(Accepted, b.client, b.of, transmitted[s])
    BY <1>6, <2>1, <2>2 DEF InProgress, Transferring
  <2>5. ~Stopped /\ ~outlasted => Fits(Accepted, b)
    BY <1>5, <2>1, <2>4 DEF Fits
  <2>6. ~Transferring(s)' /\ srvPc'[s] \notin {"wait", "start"}
    BY <2>3 DEF Transferring
  <2>7. QED
    BY <1>1, <1>2, <1>3, <2>1, <2>2, <2>5, <2>6, SubmitStep
<1>10. QED
  BY <1>7, <1>8, <1>9

\* A step of the transfers themselves: none opens, closes or moves on.
LEMMA SameTracks ==
  ASSUME TrackInv, Accepted' = Accepted,
         \A t \in Servers : Transferring(t)' <=> Transferring(t),
         \A t \in Servers : Transferring(t) =>
           /\ srvId'[t] = srvId[t] /\ srvClient'[t] = srvClient[t]
           /\ transmitted'[t] = transmitted[t]
  PROVE  TrackInv'
<1>1. ASSUME NEW t \in Servers PROVE InProgress(t)'
  BY DEF TrackInv, InProgress, OpenAt
<1>2. ASSUME NEW id \in ClientIds, Idle(id)' PROVE Closed(Accepted, id)'
  <2>1. Idle(id)
    BY <1>2 DEF Idle
  <2>2. QED
    BY <2>1 DEF TrackInv, Closed
<1>3. QED
  BY <1>1, <1>2 DEF TrackInv

\* A None or a heartbeat belongs to no transfer.
Outside(b) == b = Stop \/ (b.type = "Heartbeat" /\ b.of = NoItem)

LEMMA OtherSubmitStep ==
  ASSUME ServersInv, PipeInv, LogInv, [Next]_vars,
         NEW b \in Messages, SendBlock(b), Outside(b),
         UNCHANGED <<config, peer, srvId, srvClient, transmitted>>,
         \A t \in Servers : srvPc'[t] = srvPc[t]
                            \/ (srvPc[t] = "stop" /\ srvPc'[t] \in {"stop", "done"})
  PROVE  LogInv'
<1>0. /\ Stopped' = Stopped
      /\ Accepted' = IF Stopped THEN Accepted ELSE Append(Accepted, b)
  BY SubmitAccepted
<1>a. \A n : ~Belongs(b, n)
  BY DEF Outside, Belongs
<1>b. (\A c \in Clients : ~IsOf(b, c)) /\ (b # Stop => b.type # "End")
  BY ConstantFacts DEF Outside, IsOf
<1>1. CASE Stopped
  BY <1>0, <1>1, BlocksKept DEF LogInv
<1>2. CASE ~Stopped
  <2>1. SeenInv' /\ EndsInv' /\ (~outlasted' => WellFormed(Accepted)')
    <3>1. ~Belongs(b, b.client)
      BY <1>a
    <3>2. QED
      BY <1>0, <1>2, <1>b, <3>1, BlocksGrow
  <2>2. Accepted \in Seq(Messages)
    BY AcceptedTypes
  <2>3. ASSUME ~outlasted' PROVE TrackInv'
    <3>0. TrackInv
      BY <1>2, <2>3, OutlastedStays DEF LogInv
    <3>1. ASSUME NEW t \in Servers PROVE InProgress(t)'
      <4>1. CASE srvPc'[t] = srvPc[t]
        <5>1. ~Belongs(b, srvId[t]) /\ InProgress(t)
          BY <1>a, <3>0 DEF TrackInv
        <5>2. QED
          BY <1>0, <1>2, <4>1, <5>1, InProgressAppend
      <4>2. CASE srvPc'[t] \in {"stop", "done"}
        BY <4>2 DEF InProgress, Transferring
      <4>3. QED
        BY <4>1, <4>2
    <3>2. ASSUME NEW id \in ClientIds, Idle(id)' PROVE Closed(Accepted', id)
      <4>1. Idle(id)
        BY <3>2 DEF Idle, Transferring
      <4>2. Closed(Accepted, id) /\ ~Belongs(b, id)
        BY <1>a, <3>0, <4>1 DEF TrackInv
      <4>3. QED
        BY <1>0, <1>2, <2>2, <4>2, ClosedAppend
    <3>3. \A id \in ClientIds : Closed(Accepted', id) => Closed(Accepted, id)'
      BY DEF Closed, Belongs
    <3>4. QED
      BY <3>1, <3>2, <3>3 DEF TrackInv
  <2>4. QED
    BY <2>1, <2>3 DEF LogInv
<1>3. QED
  BY <1>1, <1>2

\* A server that submits nothing neither opens nor closes a transfer.
LEMMA QuietServerStep ==
  ASSUME ServersInv, NEW s \in 1 .. config.max_clients,
         \/ ServerReceive(s) \/ ServerAcquire(s) \/ ClientReadData(s)
         \/ ClientReadZero(s) \/ ClientReadError(s) \/ ServerRelease(s),
         TrackInv, Accepted' = Accepted
  PROVE  TrackInv'
<1>0. s \in Servers /\ Server(s)
  BY ServerExists DEF ServersInv, Server
<1>a. srvPc \in [Servers -> Pcs]
  BY DEF ServersInv, ServerTypes
<1>1. \A t \in Servers : t # s =>
        /\ srvPc'[t] = srvPc[t] /\ srvId'[t] = srvId[t] /\ srvClient'[t] = srvClient[t]
        /\ transmitted'[t] = transmitted[t]
  BY <1>0, ServerFrame DEF ServersInv
<1>2. /\ Transferring(s)' <=> Transferring(s)
      /\ Transferring(s) => UNCHANGED <<srvId, srvClient, transmitted>>
  <2>1. CASE ServerReceive(s) \/ ServerAcquire(s) \/ (ServerRelease(s) /\ srvPc[s] = "finish")
    <3>1. /\ srvPc[s] \in {"recv", "wait", "finish"}
          /\ srvPc'[s] \in {"wait", "stop", "start", "recv"}
      BY <1>0, <1>a, <2>1 DEF ServerReceive, ServerAcquire, ServerRelease, Goto
    <3>2. QED
      BY <3>1 DEF Transferring
  <2>2. CASE \/ ClientReadData(s) \/ ClientReadZero(s) \/ ClientReadError(s)
             \/ ServerRelease(s) /\ srvPc[s] # "finish"
    <3>1. /\ srvPc[s] \in {"read", "error"} /\ srvPc'[s] \in {"read", "block", "error", "abort"}
          /\ UNCHANGED <<srvId, srvClient, transmitted>>
      BY <1>0, <1>a, <2>2
      DEF ClientReadData, ClientReadZero, ClientReadError, ServerRelease, Goto, clientVars
    <3>2. QED
      BY <3>1 DEF Transferring
  <2>3. QED
    BY <2>1, <2>2
<1>3. \A t \in Servers : Transferring(t)' <=> Transferring(t)
  BY <1>1, <1>2 DEF Transferring
<1>4. QED
  BY <1>1, <1>2, <1>3, SameTracks

LEMMA LogStep ==
  ASSUME ServersInv, PipeInv, LogInv, [Next]_vars
  PROVE  LogInv'
<1>a. ASSUME UNCHANGED serverVars, TrackInv, Accepted' = Accepted PROVE TrackInv'
  <2>1. UNCHANGED <<srvPc, srvId, srvClient, transmitted>>
    BY <1>a DEF serverVars, clientVars
  <2>2. \A t \in Servers : Transferring(t)' <=> Transferring(t)
    BY <2>1 DEF Transferring
  <2>3. QED
    BY <1>a, <2>1, <2>2, SameTracks
<1>1. CASE Pipeline!PipelineNext /\ UNCHANGED inputVars
  <2>1. /\ Stopped => Stopped'
        /\ ~Stopped' => Accepted' = Accepted
        /\ Accepted' \in {ordered, Accepted}
    BY <1>1, PipelineAccepted
  <2>2. UNCHANGED serverVars /\ outlasted' = outlasted
    BY <1>1 DEF inputVars, serverVars, historyVars
  <2>3. SeenInv' /\ EndsInv' /\ (~outlasted' => WellFormed(Accepted)')
    BY <2>1, BlocksKept
  <2>4. ASSUME ~outlasted', ~Stopped' PROVE TrackInv'
    BY <1>a, <2>1, <2>2, <2>4 DEF LogInv
  <2>5. QED
    BY <2>3, <2>4 DEF LogInv
<1>2. ASSUME UNCHANGED <<toOrdering, belowVars>>,
             TrackInv /\ Accepted' = Accepted => TrackInv'
      PROVE  LogInv'
  <2>1. Accepted' = Accepted /\ Stopped' = Stopped
    BY <1>2 DEF belowVars, Accepted, Stopped
  <2>2. SeenInv' /\ EndsInv' /\ (~outlasted' => WellFormed(Accepted)')
    BY <2>1, BlocksKept
  <2>3. ~outlasted' /\ ~Stopped' => TrackInv'
    BY <1>2, <2>1, OutlastedStays DEF LogInv
  <2>4. QED
    BY <2>2, <2>3 DEF LogInv
<1>3. ASSUME UNCHANGED <<toOrdering, belowVars, serverVars>> PROVE LogInv'
  BY <1>2, <1>3, <1>a
<1>4. ASSUME NEW s \in 1 .. config.max_clients, Server(s) PROVE LogInv'
  <2>1. CASE ClientStart(s) \/ ClientSend(s) \/ ServerAbort(s)
    BY <1>4, <2>1, TransferStep
  <2>2. CASE \/ ServerReceive(s) \/ ServerAcquire(s) \/ ClientReadData(s)
             \/ ClientReadZero(s) \/ ClientReadError(s) \/ ServerRelease(s)
    <3>1. UNCHANGED <<toOrdering, belowVars>>
      BY <2>2 DEF ServerReceive, ServerAcquire, ClientReadData, ClientReadZero,
                  ClientReadError, ServerRelease
    <3>2. QED
      BY <1>2, <2>2, <3>1, QuietServerStep
  <2>3. CASE ServerStop(s)
    <3>1. SendBlock(Stop) /\ Stop \in Messages /\ Outside(Stop)
      BY <2>3 DEF ServerStop, Messages, Outside
    <3>2. UNCHANGED <<config, peer, srvId, srvClient, transmitted>>
      BY <2>3 DEF ServerStop, listenerVars, clientVars
    <3>3. \A t \in Servers : srvPc'[t] = srvPc[t]
                             \/ (srvPc[t] = "stop" /\ srvPc'[t] \in {"stop", "done"})
      BY <2>3 DEF ServerStop, Goto, ServersInv, ServerTypes
    <3>4. QED
      BY <3>1, <3>2, <3>3, OtherSubmitStep
  <2>4. QED
    BY <1>4, <2>1, <2>2, <2>3 DEF Server
<1>5. CASE Heartbeat
  <2> DEFINE b == Block("Heartbeat", 0, NoItem, 0, 0)
  <2>1. SendBlock(b) /\ Outside(b)
    BY <1>5 DEF Heartbeat, Block, Outside
  <2>2. b \in Messages
    BY ConstantFacts DEF Messages, Block, ProtocolBlocks, BlockTypes
  <2>3. UNCHANGED <<config, peer, srvId, srvClient, transmitted, srvPc>>
    BY <1>5 DEF Heartbeat, listenerVars, serverVars, clientVars
  <2> HIDE DEF b
  <2>4. QED
    BY <2>1, <2>2, <2>3, OtherSubmitStep
<1>6. QED
  BY <1>1, <1>3, <1>4, <1>5
  DEF Next, NewClient, PeerEnds, StopSender, vars, inputVars

-----------------------------------------------------------------------------
(* The theorems *)

SenderInv == ServersInv /\ PipeInv /\ LogInv

\* The invariant from which the properties of the sender follow.
THEOREM SenderCorrect == Spec => []SenderInv
<1>1. Init => SenderInv
  BY ServerTypesInit, CountsInit, ClientsInit, RanksInit, PipeInit, LogInit
  DEF SenderInv, ServersInv
<1>2. SenderInv /\ [Next]_vars => SenderInv'
  BY ServersStep, PipeStep, LogStep DEF SenderInv
<1>3. QED
  BY <1>1, <1>2, PTL DEF Spec

\* Types and bounds: the semaphore never counts more permits than max_clients, no block
\* is larger than the buffer, and a server never sends more Nones than there are
\* encoding threads.
THEOREM TypeCorrect == Spec => []TypeOK
<1>1. SenderInv => TypeOK
  <2> SUFFICES ASSUME SenderInv PROVE TypeOK
    OBVIOUS
  <2>1. Pipeline!TypeOK
    BY SameTypes DEF SenderInv, PipeInv
  <2>2. permits \in 0 .. config.max_clients
    <3>1. Holders \subseteq Servers
      BY DEF Holders
    <3>2. Cardinality(Holders) \in Nat
      BY <3>1, ServersFacts, FS_Subset, FS_CardinalityType
    <3>3. /\ permits \in Nat /\ config.max_clients \in Nat
          /\ permits + Cardinality(Holders) = config.max_clients
      BY ServersFacts DEF SenderInv, ServersInv, ServerTypes, CountsInv
    <3>4. QED
      BY <3>2, <3>3
  <2>3. QED
    BY <2>1, <2>2 DEF SenderInv, ServersInv, ServerTypes, Pcs, TypeOK
<1>2. QED
  BY <1>1, SenderCorrect, PTL

\* The blocks on the link are the first of the accepted ones.
LEMMA WireFacts ==
  ASSUME PipeInv
  PROVE  \A i \in 1 .. Len(wire) : /\ i \in 1 .. Len(Accepted)
                                   /\ wire[i].block = Accepted[i]
                                   /\ wire[i].block \in ProtocolBlocks
<1>1. /\ Len(wire) <= Len(ordered)
      /\ \A i \in 1 .. Len(wire) : wire[i].block = ordered[i]
  <2>1. /\ Len(wire) <= Len(ordered)
        /\ \A i \in 1 .. Len(wire) :
             wire[i] = [id |-> PF!IdOf(i - 1), block |-> ordered[i]]
    BY DEF PipeInv, PF!WireInOrder
  <2>2. ASSUME NEW i \in 1 .. Len(wire) PROVE wire[i].block = ordered[i]
    <3> DEFINE id == PF!IdOf(i - 1)
    <3>1. wire[i] = [id |-> id, block |-> ordered[i]]
      BY <2>1
    <3> HIDE DEF id
    <3>2. QED
      BY <3>1
  <2>3. QED
    BY <2>1, <2>2
<1>2. /\ wire \in Seq([id : PF!Ids, block : ProtocolBlocks])
      /\ ordered \in Seq(ProtocolBlocks)
  BY DEF PipeInv, PF!TypeOK
<1>3. /\ Len(wire) \in Nat /\ Len(ordered) \in Nat /\ Len(Accepted) \in Nat
      /\ Len(ordered) <= Len(Accepted)
      /\ \A i \in 1 .. Len(ordered) : Accepted[i] = ordered[i]
  BY <1>2, AcceptedTypes, LenProperties
<1>4. \A i \in 1 .. Len(wire) : i \in 1 .. Len(ordered) /\ i \in 1 .. Len(Accepted)
  BY <1>1, <1>3
<1>5. \A i \in 1 .. Len(wire) : ordered[i] \in ProtocolBlocks
  BY <1>2, <1>4, ElementOfSeq
<1>6. QED
  BY <1>1, <1>3, <1>4, <1>5

\* The blocks on the link are transfers one after the other under each client id
\* (TransfersWellFormed): a Start, all of one connection's bytes in order, one End or
\* Abort, however the server threads interleave in ordering.rs's queue and however
\* often the counter of ids wraps, as long as no transfer lasts a whole turn of it.
THEOREM TransfersAreWellFormed == Spec => []TransfersWellFormed
<1>1. SenderInv => TransfersWellFormed
  <2> SUFFICES ASSUME SenderInv, ~outlasted
               PROVE  WellFormed([i \in 1 .. Len(wire) |-> wire[i].block])
    BY DEF TransfersWellFormed
  <2> DEFINE n  == Len(wire)
             as == [i \in 1 .. n |-> wire[i].block]
  <2>1. n \in Nat
    <3>1. wire \in Seq([id : PF!Ids, block : ProtocolBlocks])
      BY DEF SenderInv, PipeInv, PF!TypeOK
    <3>2. QED
      BY <3>1, LenProperties
  <2>2. Len(as) = n
    <3> HIDE DEF n
    <3>1. QED
      BY <2>1
  <2>3. \A i \in 1 .. n : as[i] = Accepted[i] /\ i \in 1 .. Len(Accepted)
    BY WireFacts DEF SenderInv
  <2>a. WellFormed(Accepted)
    BY DEF SenderInv, LogInv
  <2> HIDE DEF as, n
  <2>4. ASSUME NEW j \in 1 .. n, Belongs(as[j], as[j].client) PROVE InTransfer(as, j)
    <3>1. InTransfer(Accepted, j)
      BY <2>3, <2>4, <2>a DEF WellFormed
    <3>2. n \in Nat /\ \A i \in 1 .. n : as[i] = Accepted[i]
      BY <2>1, <2>3
    <3>3. QED
      BY <3>1, <3>2, SamePrefix
  <2>5. WellFormed(as)
    BY <2>2, <2>4 DEF WellFormed
  <2>6. QED
    BY <2>5 DEF as, n
<1>2. QED
  BY <1>1, SenderCorrect, PTL

\* client.rs takes a read of 0 bytes for the end of the stream, and it is one
\* (EndMeansClosed): it never reads into a full buffer.
THEOREM EndsMeanClosed == Spec => []EndMeansClosed
<1>1. SenderInv => EndMeansClosed
  <2> SUFFICES ASSUME SenderInv, NEW i \in 1 .. Len(wire), wire[i].block.type = "End"
               PROVE  peer[wire[i].block.of] = "closed"
    BY DEF EndMeansClosed
  <2>1. /\ i \in 1 .. Len(Accepted) /\ wire[i].block = Accepted[i]
        /\ Accepted[i] # Stop
    BY WireFacts, SenderPipelineAssumption DEF SenderInv
  <2>2. QED
    BY <2>1 DEF SenderInv, LogInv, EndsInv
<1>2. QED
  BY <1>1, SenderCorrect, PTL

=============================================================================
