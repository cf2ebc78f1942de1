---------------------------- MODULE SendPipeline ----------------------------
(***************************************************************************)
(* The sending half of the diode from the ordering queue to the UDP link:  *)
(* one ordering worker numbers the protocol blocks, a pool of encoding     *)
(* workers turns them into RaptorQ packets in parallel, and one UDP worker *)
(* sends them.  The encoders finish in any order; a turnstile (the mutex   *)
(* and condition variable `block_to_send') lets them hand their packets    *)
(* over in the order of the ids.                                           *)
(*                                                                         *)
(*   to_ordering --ordering--> to_encoding --encoders--> to_send --udp-->  *)
(*                                                                         *)
(* The three channels are bounded by the number of encoding threads, so a  *)
(* `send' blocks when the channel is full.  Encoding itself is local to a  *)
(* thread: the packets of a block are represented by the block and its id. *)
(***************************************************************************)
EXTENDS BlockIds, Sequences, FiniteSets

CONSTANTS Encoders,      \* the encoding threads (config.nb_encode_threads)
          Blocks,        \* the protocol blocks the clients produce
          Stop,          \* the None that asks the workers to stop
          NoItem,        \* the item of a worker that has none
          StopSubmitted, \* TRUE in diode-oneshot-send, the only caller of stop()
          MaxSubmitted   \* bound: blocks submitted in a run of the model

\* `n' is a history field, the position of the block; no guard reads it.
Items == [id : Ids, block : Blocks, n : Nat]

\* The number of threads is a u8: there are fewer threads than ids.
ASSUME SendPipelineAssumption ==
  /\ IsFiniteSet(Encoders) /\ Encoders # {}
  /\ Cardinality(Encoders) <= IdModulus
  /\ Stop \notin Blocks \cup Items
  /\ NoItem \notin Blocks \cup Items
  /\ StopSubmitted \in BOOLEAN
  /\ MaxSubmitted \in Nat

VARIABLES
  toOrdering,   \* channel: protocol blocks, or Stop
  ordPc,        \* ordering worker: "recv", "send", "stop" or "done"
  ordId,        \*   its counter `id'
  ordBlock,     \*   the block it is sending to to_encoding
  toEncoding,   \* channel: numbered blocks
  encPc,        \* encoder: "recv", "lock", "waiting", "send" or "notify"
  encItem,      \*   the numbered block it works on
  blockToSend,  \* the id whose turn it is, under the mutex
  toSend,       \* channel: encoded blocks, or Stop
  udpPc,        \* UDP worker: "run", "drain", "done" or "failed"
  udpCount,     \*   its counter `count'
  ordered,      \* history: the blocks numbered so far
  turn,         \* history: how many blocks went through the turnstile
  wire          \* history: the blocks sent on the link, with their ids; the last
                \*   one may be cut if udpPc = "failed"

ordVars  == <<ordPc, ordId, ordBlock, ordered>>
encVars  == <<encPc, encItem, blockToSend, turn>>
udpVars  == <<udpPc, udpCount, wire>>
pipeVars == <<toOrdering, toEncoding, toSend, ordVars, encVars, udpVars>>

Messages == Blocks \cup (IF StopSubmitted THEN {Stop} ELSE {})

Capacity == Cardinality(Encoders)

PipelineInit ==
  /\ toOrdering = <<>> /\ toEncoding = <<>> /\ toSend = <<>>
  /\ ordPc = "recv" /\ ordId = 0 /\ ordBlock = NoItem /\ ordered = <<>>
  /\ encPc = [e \in Encoders |-> "recv"]
  /\ encItem = [e \in Encoders |-> NoItem]
  /\ blockToSend = 0 /\ turn = 0
  /\ udpPc = "run" /\ udpCount = 0 /\ wire = <<>>

-----------------------------------------------------------------------------
\* A client, heartbeat or server worker puts a message in the ordering queue.
PutOrdering(m) ==
  /\ Len(toOrdering) < Capacity
  /\ toOrdering' = Append(toOrdering, m)

Submit ==
  /\ Len(ordered) + Len(toOrdering) < MaxSubmitted
  /\ \E m \in Messages : PutOrdering(m)
  /\ UNCHANGED <<toEncoding, toSend, ordVars, encVars, udpVars>>

-----------------------------------------------------------------------------
(* The ordering worker *)

OrderingReceive ==
  /\ ordPc = "recv"
  /\ toOrdering # <<>>
  /\ toOrdering' = Tail(toOrdering)
  /\ IF Head(toOrdering) = Stop
     THEN ordPc' = "stop" /\ UNCHANGED <<ordBlock, ordered>>
     ELSE /\ ordPc' = "send"
          /\ ordBlock' = Head(toOrdering)
          /\ ordered' = Append(ordered, Head(toOrdering))
  /\ UNCHANGED <<ordId, toEncoding, toSend, encVars, udpVars>>

\* Mutant: `id' is not incremented.
OrderingSendSameId ==
  /\ ordPc = "send"
  /\ Len(toEncoding) < Capacity
  /\ toEncoding' = Append(toEncoding, [id |-> ordId, block |-> ordBlock,
                                       n |-> Len(ordered) - 1])
  /\ ordBlock' = NoItem
  /\ ordPc' = "recv"
  /\ UNCHANGED <<ordId, ordered, toOrdering, toSend, encVars, udpVars>>

OrderingSend ==
  /\ ordPc = "send"
  /\ Len(toEncoding) < Capacity
  /\ toEncoding' = Append(toEncoding, [id |-> ordId, block |-> ordBlock,
                                       n |-> Len(ordered) - 1])
  /\ ordId' = WrappingAdd(ordId, 1)
  /\ ordBlock' = NoItem
  /\ ordPc' = "recv"
  /\ UNCHANGED <<ordered, toOrdering, toSend, encVars, udpVars>>

\* The None goes straight to to_send, past the encoders, and the worker ends.
OrderingStop ==
  /\ ordPc = "stop"
  /\ Len(toSend) < Capacity
  /\ toSend' = Append(toSend, Stop)
  /\ ordPc' = "done"
  /\ UNCHANGED <<ordId, ordBlock, ordered, toOrdering, toEncoding, encVars, udpVars>>

-----------------------------------------------------------------------------
(* An encoding worker.  It never receives None: ordering sends none to     *)
(* to_encoding.  Only the thread that sends keeps the mutex.               *)

MutexFree == \A e \in Encoders : encPc[e] # "send"

EncoderReceive(e) ==
  /\ encPc[e] = "recv"
  /\ toEncoding # <<>>
  /\ encItem' = [encItem EXCEPT ![e] = Head(toEncoding)]
  /\ encPc' = [encPc EXCEPT ![e] = "lock"]
  /\ toEncoding' = Tail(toEncoding)
  /\ UNCHANGED <<blockToSend, turn, toOrdering, toSend, ordVars, udpVars>>

\* Mutant: lock() without wait_while.
EncoderLockNoWait(e) ==
  /\ encPc[e] = "lock"
  /\ MutexFree
  /\ encPc' = [encPc EXCEPT ![e] = "send"]
  /\ UNCHANGED <<encItem, blockToSend, turn, toOrdering, toEncoding, toSend,
                 ordVars, udpVars>>

\* lock(), then one evaluation of wait_while's condition: keep the mutex on
\* one's turn, else release it and wait.
EncoderLock(e) ==
  /\ encPc[e] = "lock"
  /\ MutexFree
  /\ encPc' = [encPc EXCEPT ![e] =
                 IF blockToSend = encItem[e].id THEN "send" ELSE "waiting"]
  /\ UNCHANGED <<encItem, blockToSend, turn, toOrdering, toEncoding, toSend,
                 ordVars, udpVars>>

\* A condition variable may wake a thread that nobody notified.
SpuriousWakeup(e) ==
  /\ encPc[e] = "waiting"
  /\ encPc' = [encPc EXCEPT ![e] = "lock"]
  /\ UNCHANGED <<encItem, blockToSend, turn, toOrdering, toEncoding, toSend,
                 ordVars, udpVars>>

\* Mutant: block_to_send is not incremented.
EncoderSendNoAdvance(e) ==
  /\ encPc[e] = "send"
  /\ Len(toSend) < Capacity
  /\ toSend' = Append(toSend, encItem[e])
  /\ turn' = turn + 1
  /\ encItem' = [encItem EXCEPT ![e] = NoItem]
  /\ encPc' = [encPc EXCEPT ![e] = "notify"]
  /\ UNCHANGED <<blockToSend, toOrdering, toEncoding, ordVars, udpVars>>

\* The send blocks, with the mutex held, while to_send is full.
EncoderSend(e) ==
  /\ encPc[e] = "send"
  /\ Len(toSend) < Capacity
  /\ toSend' = Append(toSend, encItem[e])
  /\ blockToSend' = WrappingAdd(blockToSend, 1)
  /\ turn' = turn + 1
  /\ encItem' = [encItem EXCEPT ![e] = NoItem]
  /\ encPc' = [encPc EXCEPT ![e] = "notify"]
  /\ UNCHANGED <<toOrdering, toEncoding, ordVars, udpVars>>

\* Mutant: no notify_all.
EncoderNotifyNobody(e) ==
  /\ encPc[e] = "notify"
  /\ encPc' = [encPc EXCEPT ![e] = "recv"]
  /\ UNCHANGED <<encItem, blockToSend, turn, toOrdering, toEncoding, toSend,
                 ordVars, udpVars>>

\* notify_all comes after the mutex is released.
EncoderNotify(e) ==
  /\ encPc[e] = "notify"
  /\ encPc' = [f \in Encoders |->
                 CASE f = e -> "recv"
                   [] f # e /\ encPc[f] = "waiting" -> "lock"
                   [] OTHER -> encPc[f]]
  /\ UNCHANGED <<encItem, blockToSend, turn, toOrdering, toEncoding, toSend,
                 ordVars, udpVars>>

-----------------------------------------------------------------------------
(* The UDP worker *)

UdpReceive == udpPc \in {"run", "drain"} /\ toSend # <<>>

OnLink(x) == wire' = Append(wire, [id |-> x.id, block |-> x.block])

\* All packets of the block are sent on the link.
UdpSend ==
  /\ UdpReceive
  /\ Head(toSend) # Stop
  /\ toSend' = Tail(toSend)
  /\ OnLink(Head(toSend))
  /\ UNCHANGED <<udpPc, udpCount, toOrdering, toEncoding, ordVars, encVars>>

\* Mutant: the error is ignored and the block skipped.
UdpFailGoesOn ==
  /\ UdpReceive
  /\ Head(toSend) # Stop
  /\ toSend' = Tail(toSend)
  /\ UNCHANGED <<udpPc, udpCount, wire, toOrdering, toEncoding, ordVars, encVars>>

\* An error of the socket ends the thread, before or after the first packets of the
\* block are on the link: nobody receives from to_send any more.
UdpFail ==
  /\ UdpReceive
  /\ Head(toSend) # Stop
  /\ toSend' = Tail(toSend)
  /\ udpPc' = "failed"
  /\ UNCHANGED wire \/ OnLink(Head(toSend))
  /\ UNCHANGED <<udpCount, toOrdering, toEncoding, ordVars, encVars>>

\* The first None: wait for the None of the other encoding threads.  Ordering
\* sends a single None, so the one decrement of `count' is never reached.
UdpStop ==
  /\ UdpReceive
  /\ udpPc = "run" /\ Head(toSend) = Stop
  /\ toSend' = Tail(toSend)
  /\ udpCount' = Capacity - 1
  /\ udpPc' = IF udpCount' = 0 THEN "done" ELSE "drain"
  /\ UNCHANGED <<wire, toOrdering, toEncoding, ordVars, encVars>>

-----------------------------------------------------------------------------
Ordering == OrderingReceive \/ OrderingSend \/ OrderingStop
Encoder(e) == \/ EncoderReceive(e) \/ EncoderLock(e)
              \/ EncoderSend(e) \/ EncoderNotify(e)
Udp == UdpSend \/ UdpStop

PipelineNext ==
  \/ Ordering
  \/ \E e \in Encoders : Encoder(e) \/ SpuriousWakeup(e)
  \/ Udp
  \/ UdpFail

Next == Submit \/ PipelineNext

\* Every thread that can take a step takes one: the operating system schedules
\* runnable threads.  Wakeups that nobody asked for, errors and clients are free.
PipelineFairness ==
  /\ WF_pipeVars(Ordering)
  /\ WF_pipeVars(Udp)
  /\ \A e \in Encoders : WF_pipeVars(Encoder(e))

Spec == PipelineInit /\ [][Next]_pipeVars
FairSpec == Spec /\ PipelineFairness

-----------------------------------------------------------------------------
(* Properties *)

\* The block an encoder has taken and not yet handed over.
Holds(e) == encPc[e] \in {"lock", "waiting", "send"}

\* Types, and which thread holds a block.
TypeOK ==
  /\ toOrdering \in Seq(Blocks \cup {Stop})
  /\ toEncoding \in Seq(Items)
  /\ toSend \in Seq(Items \cup {Stop})
  /\ ordPc \in {"recv", "send", "stop", "done"}
  /\ ordId \in Ids
  /\ ordBlock \in IF ordPc = "send" THEN Blocks ELSE {NoItem}
  /\ encPc \in [Encoders -> {"recv", "lock", "waiting", "send", "notify"}]
  /\ encItem \in [Encoders -> Items \cup {NoItem}]
  /\ \A e \in Encoders : Holds(e) <=> encItem[e] # NoItem
  /\ blockToSend \in Ids
  /\ udpPc \in {"run", "drain", "done", "failed"}
  /\ udpCount \in 0 .. Capacity
  /\ ordered \in Seq(Blocks)
  /\ ordPc = "send" => ordered # <<>>
  /\ turn \in Nat
  /\ wire \in Seq([id : Ids, block : Blocks])

\* Whatever the encoders' interleaving, the link carries the accepted blocks in
\* the order ordering.rs accepted them, none skipped or repeated, with
\* consecutive wrapping ids: the receiver has nothing else to rebuild the
\* order from.
WireInOrder ==
  /\ Len(wire) <= Len(ordered)
  /\ \A i \in 1 .. Len(wire) :
       wire[i] = [id |-> IdOf(i - 1), block |-> ordered[i]]

\* Two encoders never wait for the same value of block_to_send, so the
\* turnstile never lets a block of a later turn of the ids through.
HeldIdsDistinct ==
  \A e, f \in Encoders :
    Holds(e) /\ Holds(f) /\ encItem[e].id = encItem[f].id => e = f

\* As long as nobody asks to stop and the socket works, every block that
\* ordering.rs accepted reaches the link: no lost wakeup in the turnstile and
\* no cycle of full channels.
AcceptedIsSent ==
  \A n \in 1 .. MaxSubmitted :
    Len(ordered) >= n ~> (Len(wire) >= n \/ udpPc \in {"failed", "done"})

\* Seen from the link, the three kinds of workers are one line that emits the
\* accepted blocks in order, until the UDP worker ends.
Line == INSTANCE OrderedLine WITH
          accepted <- ordered, emitted <- wire, up <- udpPc \in {"run", "drain"}

ImplementsLine == Line!Spec

-----------------------------------------------------------------------------
(* The inductive invariant: where every accepted position is.              *)

Numbered == Len(ordered) - (IF ordPc = "send" THEN 1 ELSE 0)
Taken    == Numbered - Len(toEncoding)

\* An item carries the block of its position and the id of its position.
InPlace(x, blocks) ==
  /\ x.n < Len(blocks)
  /\ x.id = IdOf(x.n)
  /\ x.block = blocks[x.n + 1]

\* ordering.rs counts the blocks it numbered, and still holds the next one.
OrderingInv ==
  /\ ordId = IdOf(Numbered)
  /\ ordPc = "send" => ordBlock = ordered[Len(ordered)]

\* to_encoding holds the last numbered blocks.
EncodingQueueInv ==
  /\ Taken \in Nat
  /\ \A i \in 1 .. Len(toEncoding) :
       InPlace(toEncoding[i], ordered) /\ toEncoding[i].n = Taken + i - 1

\* The encoders hold, one each, the positions from `turn' to the last one taken.
TurnstileInv ==
  /\ blockToSend = IdOf(turn)
  /\ turn <= Taken
  /\ \A e \in Encoders :
       Holds(e) => /\ InPlace(encItem[e], ordered)
                   /\ turn <= encItem[e].n /\ encItem[e].n < Taken
                   /\ encPc[e] = "send" => encItem[e].n = turn
  /\ \A e, f \in Encoders :
       Holds(e) /\ Holds(f) /\ encItem[e].n = encItem[f].n => e = f
  /\ \A n \in turn .. (Taken - 1) :
       \E e \in Encoders : Holds(e) /\ encItem[e].n = n

\* to_send holds, in order, the positions between the link and the turnstile.
SendQueueInv ==
  /\ Len(wire) <= turn
  /\ \A i \in 1 .. Len(toSend) :
       toSend[i] # Stop => InPlace(toSend[i], ordered) /\ toSend[i].n < turn
  /\ udpPc \in {"run", "drain"} =>
       /\ \A i \in 1 .. Len(toSend) :
            toSend[i] # Stop => Len(wire) <= toSend[i].n
       /\ \A i, j \in 1 .. Len(toSend) :
            i < j /\ toSend[i] # Stop /\ toSend[j] # Stop
              => toSend[i].n < toSend[j].n
       /\ \A n \in Len(wire) .. (turn - 1) :
            \E i \in 1 .. Len(toSend) : toSend[i] # Stop /\ toSend[i].n = n

\* Every accepted block is in exactly one place, in the order of the positions:
\* the link, to_send, an encoder, to_encoding or the ordering worker.
PipelineInv ==
  /\ OrderingInv
  /\ EncodingQueueInv
  /\ TurnstileInv
  /\ SendQueueInv

=============================================================================
