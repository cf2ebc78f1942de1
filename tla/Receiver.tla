------------------------------ MODULE Receiver ------------------------------
(***************************************************************************)
(* The receiving half of the diode as a whole (receive/mod.rs): the link   *)
(* and the reblock worker (ReblockLink), the decoding threads (Decoders),  *)
(* the dispatch and client workers (Delivery), and the channels and the    *)
(* turnstile between them.                                                 *)
(*                                                                         *)
(*   link --> reblock --to_decode--> decoders --to_dispatch--> dispatch    *)
(*                  \-- block_to_dispatch --/         --> client workers   *)
(*                                                                         *)
(* The sender is what OrderedLine and the properties of Sender say of it:  *)
(* the blocks of well-formed transfers, under consecutive ids.  Both       *)
(* programs may be stopped at any point and started again.                 *)
(***************************************************************************)
EXTENDS ReblockLink

CONSTANTS Threads, Lost, NoItem, DecodeFails, QuietResets,           \* see Decoders
          SymbolCount, \* how many different packets raptorq cannot do without
          ClientIds, Workers, NoTransfer, AbortTimeout, ClientsFail, \* see Delivery
          MaxRestarts  \* bound: how often one of the programs is restarted

ASSUME ReceiverAssumption ==
  /\ MaxRestarts \in Nat
  /\ SymbolCount \in 1 .. MinPackets  \* RaptorQ::min_nb_packets
  /\ SyncLost # NoItem
  /\ NoItem \notin Reassembled /\ Lost \notin Reassembled
  /\ IsFiniteSet(Threads) /\ Threads # {} /\ Cardinality(Threads) < IdModulus
  /\ IsFiniteSet(Workers) /\ Workers # {}
  /\ ClientIds # {} /\ NoTransfer \notin Nat
  /\ {DecodeFails, QuietResets, AbortTimeout, ClientsFail} \subseteq BOOLEAN

VARIABLES
  decPc, decItem, toDispatch, \* see Decoders
  active, ended, transfers, toClients, permits, wkPc, wkTransfer,
  dispatched, told, \* see Delivery
  stream,  \* the blocks of the sender by their number, on the link so far
  restarts \* history: which program was restarted, and how long stream was then

\* Reblock counts the packets of a block, whether they are different or not: one that
\* duplicates have completed may lack the packets to be decoded.
HasEnough(x) == Cardinality({x.packets[k].sym : k \in DOMAIN x.packets}) >= SymbolCount

D == INSTANCE Decoders WITH Items <- Reassembled, MaxHanded <- MaxBlocks, handedOver <- curSeq,
                            Decodable <- {x \in Reassembled : HasEnough(x)}
T == INSTANCE Delivery WITH MaxMessages <- 0

threadVars   == <<decPc, decItem, toDispatch>>
deliveryVars == <<active, ended, transfers, toClients, permits, wkPc, wkTransfer, dispatched, told>>
senderVars   == <<stream, restarts>>
receiverVars == <<reblockVars, linkVars, threadVars, deliveryVars, senderVars>>

ReceiverInit ==
  /\ LinkInit /\ D!ThreadsInit /\ T!Init
  /\ stream = <<>> /\ restarts = <<>>

-----------------------------------------------------------------------------
(* The sender *)

\* `program' was not restarted after the i-th block, before the j-th.
SameSession(program, i, j) ==
  ~ \E k \in DOMAIN restarts : restarts[k].program = program /\ restarts[k].at \in i .. (j - 1)

\* The blocks of a client that the sender sent since it was last started.
BlocksSent(c) ==
  {i \in DOMAIN stream : /\ stream[i].client = c /\ stream[i].type # "Heartbeat"
                         /\ SameSession("sender", i, Len(stream) + 1)}

\* A transfer is one Start, then Data, then one End or Abort; a client id is
\* used once, but again after a restart.
MayFollow(b) ==
  LET mine == BlocksSent(b.client) IN
  IF b.type = "Start" THEN mine = {}
  ELSE \E i \in mine : stream[i].type \in {"Start", "Data"} /\ \A j \in mine : j <= i

\* The next block goes on the link; n identifies its payload.  Heartbeats are
\* left out: dispatch ignores them (see Delivery).
Transmit ==
  /\ SendPackets
  /\ \E b \in [type : T!BlockTypes \ {"Heartbeat"}, client : ClientIds, n : {Len(stream)}] :
       MayFollow(b) /\ stream' = Append(stream, b)
  /\ UNCHANGED <<threadVars, deliveryVars, restarts>>

Restarted(program) ==
  /\ Len(restarts) < MaxRestarts
  /\ restarts' = Append(restarts, [program |-> program, at |-> Len(stream)])

\* Heartbeats stand for the numbers that no block of the sender has.
RestartSender ==
  /\ Restarted("sender")
  /\ SenderRestarts
  /\ stream' = stream \o [i \in 1 .. (nextBlk' - nextBlk) |->
       [type |-> "Heartbeat", client |-> CHOOSE c \in ClientIds : TRUE, n |-> -1]]
  /\ UNCHANGED <<threadVars, deliveryVars>>

-----------------------------------------------------------------------------
(* The link, reblock and the decoders *)

\* A silence, after which the threads have done what they can if QuietResets.
Silence ==
  /\ QuietResets => D!Quiet
  /\ SilentTimeout
  /\ UNCHANGED linkVars

Reblock ==
  /\ \/ Deliver \/ Silence
     \/ (Push \/ Advance \/ Wait) /\ UNCHANGED linkVars
  /\ UNCHANGED <<threadVars, deliveryVars, senderVars>>

Decode(d) ==
  /\ D!Thread(d)
  /\ UNCHANGED <<pc, batch, reset, curId, blocksData, blocksIgnore, curSeq, handed,
                 linkVars, deliveryVars, senderVars>>

-----------------------------------------------------------------------------
(* Dispatch and the client workers *)

\* What a decoder makes of the packets of a reassembled block.
Decoded(x) == stream[x.packets[1].blk + 1]

\* Dispatch takes the next message; to_dispatch keeps those before it.
Dispatch ==
  /\ dispatched < Len(toDispatch)
  /\ LET m == toDispatch[dispatched + 1] IN
       T!Dispatch(IF m = Lost THEN Lost ELSE Decoded(m))
  /\ UNCHANGED <<reblockVars, linkVars, threadVars, senderVars>>

Client(w) == T!Worker(w) /\ UNCHANGED <<reblockVars, linkVars, threadVars, senderVars>>

\* The receiving program is stopped and started again: all it knew is lost, as
\* are the connections to its clients.  It takes longer than the packets on the
\* link, which find nobody.
RestartReceiver ==
  /\ Restarted("receiver")
  /\ inFlight' = {}
  /\ pc' = "recv" /\ batch' = <<>> /\ reset' = TRUE /\ curId' = 0 /\ curSeq' = 0
  /\ blocksData' = [id \in Ids |-> <<>>] /\ blocksIgnore' = [id \in Ids |-> TRUE]
  /\ toDecode' = <<>> /\ blockToDispatch' = 0 /\ handed' = <<>>
  /\ decPc' = [d \in Threads |-> "recv"] /\ decItem' = [d \in Threads |-> NoItem]
  /\ toDispatch' = <<>> /\ dispatched' = 0 /\ told' = <<>> /\ transfers' = <<>> /\ toClients' = <<>>
  /\ active' = [c \in ClientIds |-> NoTransfer] /\ ended' = active'
  /\ permits' = Cardinality(Workers)
  /\ wkPc' = [w \in Workers |-> "recv"] /\ wkTransfer' = [w \in Workers |-> NoTransfer]
  /\ UNCHANGED <<nextBlk, harmed, faults, sent, stream>>

-----------------------------------------------------------------------------
ReceiverNext ==
  \/ Transmit \/ RestartSender \/ RestartReceiver
  \/ Reblock
  \/ \E d \in Threads : Decode(d)
  \/ Dispatch
  \/ \E w \in Workers : Client(w)

ReceiverSpec == ReceiverInit /\ [][ReceiverNext]_receiverVars

\* The workers run and the link delivers; the sender sends when it pleases, and
\* silences and restarts come as they may.
FairReceiverSpec ==
  /\ ReceiverSpec
  /\ WF_receiverVars(Deliver /\ UNCHANGED <<threadVars, deliveryVars, senderVars>>)
  /\ WF_receiverVars((Push \/ Advance \/ Wait)
             /\ UNCHANGED <<linkVars, threadVars, deliveryVars, senderVars>>)
  /\ \A d \in Threads : WF_receiverVars(Decode(d))
  /\ WF_receiverVars(Dispatch)
  /\ \A w \in Workers : WF_receiverVars(Client(w))

-----------------------------------------------------------------------------
(* Properties *)

\* The blocks of the transfer that the i-th block of the stream starts.
TransferFrom(i) ==
  {j \in i .. Len(stream) :
     /\ stream[j].client = stream[i].client /\ stream[j].type # "Heartbeat"
     /\ SameSession("sender", i, j)}

\* What the client of the sender put in it.
Payloads(i) ==
  {stream[j].n : j \in {k \in TransferFrom(i) : stream[k].type \in {"Data", "End"}}}

\* The sequence s has the numbers of S, each once, in their order.
Lists(s, S) ==
  /\ {s[k] : k \in DOMAIN s} = S
  /\ \A k, l \in DOMAIN s : k < l => s[k] < s[l]

Started(c) == {i \in DOMAIN stream : stream[i].type = "Start" /\ stream[i].client = c}

\* A transfer that ends as a success was delivered whole: the client on the
\* receiving side got everything that its peer sent, in order, and nothing else,
\* wherever either program was restarted.
SuccessIsComplete ==
  \A t \in DOMAIN transfers :
    transfers[t].outcome = "success" =>
      \E i \in Started(transfers[t].client) : Lists(transfers[t].written, Payloads(i))

\* The i-th block starts a transfer that the sender has ended, and the receiver was
\* not restarted since.
EndSent(i) ==
  /\ stream[i].type = "Start"
  /\ SameSession("receiver", i, Len(stream) + 1)
  /\ \E j \in TransferFrom(i) : stream[j].type = "End"

\* A client has got the very transfer that the i-th block starts.
Delivered(i) ==
  \E t \in DOMAIN transfers : /\ transfers[t].client = stream[i].client
                              /\ transfers[t].outcome = "success"
                              /\ Lists(transfers[t].written, Payloads(i))

\* On a link that loses nothing, every single transfer that the sender has ended is
\* delivered in the end, in spite of the silences, of the restarts before it, and of
\* others under the same client id; unless the receiver is restarted afterwards.
EndedIsDelivered == <>[](\A i \in DOMAIN stream : EndSent(i) => Delivered(i))

=============================================================================
