------------------------------- MODULE UdpLink -------------------------------
(***************************************************************************)
(* The UDP workers of the two sides (send/udp.rs, receive/udp.rs), the     *)
(* system calls they make (udp.rs), and the receive buffer of the kernel.  *)
(* The sender hands the packets of a block to sendmsg one by one, or to    *)
(* sendmmsg in chunks; the receiver gets datagrams from recvmsg, or from   *)
(* recvmmsg, into buffers it uses again for the next call.                 *)
(*                                                                         *)
(* The link loses datagrams here and keeps their order; ReblockLink is     *)
(* about reordering.  A datagram is known by its block and its position in *)
(* it; its bytes are its length.                                           *)
(***************************************************************************)
EXTENDS RaptorQParams, BlockIds, Sequences, FiniteSets

CONSTANTS Configs,   \* the options the two programs are started with
          None,      \* an option that is not given
          MaxBlocks, \* bound: blocks sent in a run
          MaxLost    \* bound: datagrams lost in a run

SenderOf(c)   == New(c.send.mtu, c.send.block, c.send.repair, 0)
ReceiverOf(c) == New(c.receive.mtu, c.receive.block, c.receive.repair, c.receive.min_repair)

Datagrams == [blk : Nat, k : Nat]

\* mtu, block, repair, min_repair and batch on each side (diode-send has no
\* option for the minimum, and takes 0), and net.core.rmem_max.  RaptorQ::new
\* divides by the packet size.
ASSUME UdpLinkAssumption ==
  /\ \A c \in Configs :
       /\ \A side \in {c.send, c.receive} :
            /\ side.mtu \in 0 .. (U16 - 1) /\ MaxPacketSize(side.mtu) # 0
            /\ {side.block, side.repair, side.min_repair} \subseteq 0 .. (U32 - 1)
            /\ side.batch \in (Nat \ {0}) \cup {None}
       /\ c.rmem_max \in 0 .. (U32 \div 2 - 1)
       /\ Accepted(SenderOf(c)) /\ Accepted(ReceiverOf(c))
  /\ MaxBlocks \in Nat /\ MaxLost \in Nat
  /\ None \notin Datagrams

VARIABLES
  config,    \* the options of this run
  sndPc,     \* sender: "recv", "send" or "ended"
  blocks,    \*   how many blocks it has taken from to_send
  packets,   \*   the datagrams of the block still to send
  socket,    \* the receive buffer of the kernel
  rcvPc,     \* receiver: "recv" or "ended"
  buffers,   \*   the datagram in each of its buffers
  toReblock, \*   the datagrams passed on to reblock
  lost,      \* history: the datagrams lost on the link
  overrun    \* history: datagrams that the kernel had no room for, and what it had

sendVars == <<sndPc, blocks, packets>>
linkVars == <<socket, lost, overrun>>
rcvVars  == <<rcvPc, buffers, toReblock>>
vars     == <<config, sendVars, linkVars, rcvVars>>

Sending   == SenderOf(config)
Receiving == ReceiverOf(config)

\* How many datagrams a call handles at most: sendmsg and recvmsg one.
BatchSize(batch) == IF batch \in {None, 1} THEN 1 ELSE batch

Smaller(a, b) == IF a < b THEN a ELSE b

Init ==
  /\ config \in Configs
  /\ sndPc = "recv" /\ blocks = 0 /\ packets = <<>>
  /\ socket = <<>> /\ lost = {} /\ overrun = {}
  /\ rcvPc = "recv"
  /\ buffers = [i \in 1 .. BatchSize(config.receive.batch) |-> None]
  /\ toReblock = <<>>

-----------------------------------------------------------------------------
(* The sender *)

TakeBlock ==
  /\ sndPc = "recv" /\ blocks < MaxBlocks
  /\ packets' = [k \in 1 .. NbPackets(Sending) |-> [blk |-> blocks, k |-> k]]
  /\ blocks' = blocks + 1
  /\ sndPc' = "send"
  /\ UNCHANGED <<config, linkVars, rcvVars>>

\* Mutant: the buffer is as large as one block.
AskedForOneBlock == (NbPackets(Receiving) * config.receive.mtu) % U32

\* The receive buffer that the receiver asks for, an i32, which the kernel takes
\* for a u32 and limits.
Asked   == (WindowWidth * NbPackets(Receiving) * config.receive.mtu) % U32
Granted == Smaller(Asked, config.rmem_max)

\* What the socket has room for of the datagrams that arrive.
Fitting(arrived) ==
  SubSeq(arrived, 1, Smaller(Len(arrived), Granted \div DatagramLen(Sending) - Len(socket)))

Values(s) == {s[i] : i \in DOMAIN s}

Arrive(arrived) ==
  /\ socket' = socket \o Fitting(arrived)
  /\ overrun' = overrun \cup
       {[dropped |-> d, kept |-> {e.blk : e \in Values(socket') \cup {d}}] :
          d \in Values(arrived) \ Values(Fitting(arrived))}

\* The places of the datagrams that the link does not lose, of n in a row.
Surviving(n) ==
  UNION {{f \in [1 .. m -> 1 .. n] : \A i, j \in 1 .. m : i < j => f[i] < f[j]} : m \in 0 .. n}

\* One system call.  When the kernel takes less than the whole chunk, sendmmsg
\* returns how much it took, and the worker ends with the rest unsent.
SendChunk ==
  /\ sndPc = "send" /\ packets # <<>>
  /\ LET chunk == Smaller(BatchSize(config.send.batch), Len(packets)) IN
     \E taken \in 0 .. chunk :
       /\ \E f \in Surviving(taken) :
            /\ lost' = lost \cup {packets[i] : i \in (1 .. taken) \ Values(f)}
            /\ Cardinality(lost') <= MaxLost
            /\ Arrive([i \in DOMAIN f |-> packets[f[i]]])
       /\ packets' = SubSeq(packets, taken + 1, Len(packets))
       /\ sndPc' = IF taken < chunk THEN "ended" ELSE IF packets' = <<>> THEN "recv" ELSE "send"
  /\ UNCHANGED <<config, blocks, rcvVars>>

-----------------------------------------------------------------------------
(* The receiver *)

\* Mutant: the number of messages that recvmmsg returns is not looked at.
FilledAll(bufs, n) == bufs

\* The buffers that the last call filled.
Filled(bufs, n) == SubSeq(bufs, 1, n)

\* A call waits for one datagram, and takes what else is there.
Recv ==
  /\ rcvPc = "recv" /\ socket # <<>>
  /\ LET n == Smaller(BatchSize(config.receive.batch), Len(socket)) IN
     /\ buffers' = [i \in DOMAIN buffers |-> IF i <= n THEN socket[i] ELSE buffers[i]]
     /\ toReblock' = toReblock \o
          [i \in 1 .. Len(Filled(buffers', n)) |->
             [datagram |-> Filled(buffers', n)[i],
              msg_len |-> Smaller(DatagramLen(Sending), config.receive.mtu)]]
     /\ socket' = SubSeq(socket, n + 1, Len(socket))
  /\ UNCHANGED <<config, sendVars, lost, overrun, rcvPc>>

\* A call fails: the worker ends, and the kernel goes on filling the socket.
RecvFails ==
  /\ rcvPc = "recv"
  /\ rcvPc' = "ended"
  /\ UNCHANGED <<config, sendVars, linkVars, buffers, toReblock>>

Next == TakeBlock \/ SendChunk \/ Recv \/ RecvFails

Spec == Init /\ [][Next]_vars

-----------------------------------------------------------------------------
(* Properties *)

\* What is passed on to reblock are datagrams of the sender, each once, in order
\* and whole, whatever the sizes of the batches on the two sides, as long as the
\* MTU of the receiver is no smaller.
ReceivedIsSent ==
  /\ \A i \in DOMAIN toReblock : toReblock[i].datagram # None
  /\ \A i, j \in DOMAIN toReblock : i < j =>
       LET d == toReblock[i].datagram
           e == toReblock[j].datagram
       IN  d.blk < e.blk \/ (d.blk = e.blk /\ d.k < e.k)
  /\ config.send.mtu <= config.receive.mtu =>
       \A i \in DOMAIN toReblock : toReblock[i].msg_len = DatagramLen(Sending)

\* The options that the documentation wants equal are, and the minimum asks for
\* no more than there is.
Agree ==
  /\ config.send.mtu = config.receive.mtu /\ config.send.block = config.receive.block
  /\ config.send.repair = config.receive.repair
  /\ config.receive.min_repair <= config.receive.repair

Count(b) == Cardinality({i \in DOMAIN toReblock : toReblock[i].datagram.blk = b})

\* The link and the receiver are through with block b.
Passed(b) ==
  /\ b < blocks /\ \A d \in Values(packets) \cup Values(socket) : d.blk # b
  /\ \A o \in overrun : o.dropped.blk # b

\* When the two sides agree, a block that the link is through with is complete for
\* reblock, if no more datagrams of it were lost than the sender added and the
\* receiver does not ask for.
EnoughArrive ==
  Agree => \A b \in 0 .. (MaxBlocks - 1) :
    LET gone == Cardinality({d \in lost : d.blk = b}) IN
    Passed(b) /\ gone <= Sending.nb_repair_packets - Receiving.min_nb_repair_packets
      => Count(b) >= MinNbPackets(Receiving)

\* "lidi can bufferize 127 blocks": the receive buffer overruns only when it has
\* datagrams of more blocks than the window is wide, unless the kernel limits it.
WindowIsBuffered ==
  Agree /\ config.rmem_max >= WindowWidth * NbPackets(Receiving) * config.receive.mtu =>
    \A o \in overrun : Cardinality(o.kept) > WindowWidth

=============================================================================
