------------------------------ MODULE Reblock -------------------------------
(***************************************************************************)
(* The reblock worker of the receiving half (receive/reblock.rs).  It gets *)
(* the datagrams of the link, sorts their packets by block id in a window  *)
(* of WindowWidth ids from the current one, and hands a block over to the  *)
(* decoders as soon as it is the current one and has enough packets.       *)
(*                                                                         *)
(* A packet only carries the 8-bit id of its block.  The model gives it    *)
(* the number of the block at the sender instead (blk, counted from 0, not *)
(* wrapped), from which the id follows; only the history variable curSeq   *)
(* and the properties look at the number itself.                           *)
(*                                                                         *)
(* This module lets any datagrams arrive at any time; ReblockLink adds the *)
(* link they come from.                                                    *)
(***************************************************************************)
EXTENDS BlockIds, Sequences

CONSTANTS Symbols,     \* the encoding symbols of a block
          MinPackets,  \* raptorq.min_nb_packets()
          SyncLost     \* Reassembled::Error

Packets == [blk : Nat, sym : Symbols]

\* A block handed over; `n' is a history field, the number it is meant to have.
Reassembled == [id : Ids, packets : Seq(Packets), n : Nat]

ASSUME ReblockAssumption ==
  /\ MinPackets \in Nat \ {0}
  /\ SyncLost \notin Reassembled

VARIABLES
  pc,              \* "recv", "push" or "advance"
  batch,           \* the datagrams of the last receive still to sort
  reset,           \* the next datagram starts a new window
  curId,           \* cur_id
  blocksData,      \* the packets kept for each id
  blocksIgnore,    \* the ids out of the window
  toDecode,        \* channel to the decoders
  blockToDispatch, \* the id whose turn it is to be dispatched
  curSeq,          \* history: the number of the block curId stands for
  handed           \* history: the numbers of the blocks handed over

windowVars  == <<reset, curId, blocksData, blocksIgnore, curSeq>>
reblockVars == <<pc, batch, windowVars, toDecode, blockToDispatch, handed>>

Init ==
  /\ pc = "recv" /\ batch = <<>>
  /\ reset = TRUE
  /\ curId = 0 /\ curSeq = 0
  /\ blocksData = [id \in Ids |-> <<>>]
  /\ blocksIgnore = [id \in Ids |-> TRUE]
  /\ toDecode = <<>>
  /\ blockToDispatch = 0
  /\ handed = <<>>

PacketId(p) == IdOf(p.blk)

InWindow(from, id) == Ahead(from, id) < WindowWidth

-----------------------------------------------------------------------------
\* Mutant: the packets kept from before the reset are not cleared.
StartWindowNoClear(p) ==
  /\ curId' = PacketId(p)
  /\ curSeq' = p.blk
  /\ blocksIgnore' = [id \in Ids |-> ~InWindow(PacketId(p), id)]
  /\ blockToDispatch' = PacketId(p)
  /\ UNCHANGED blocksData

\* After a reset the block of the first datagram opens the window, whichever
\* block it is, and is the next to be dispatched.
StartWindow(p) ==
  /\ curId' = PacketId(p)
  /\ curSeq' = p.blk
  /\ blocksData' = [id \in Ids |-> <<>>]
  /\ blocksIgnore' = [id \in Ids |-> ~InWindow(PacketId(p), id)]
  /\ blockToDispatch' = PacketId(p)

\* Mutant: `reset' is not set back to false.
ReceiveKeepsReset(datagrams) ==
  /\ pc = "recv"
  /\ batch' = datagrams
  /\ IF reset
     THEN StartWindow(datagrams[1])
     ELSE UNCHANGED <<curId, curSeq, blocksData, blocksIgnore, blockToDispatch>>
  /\ pc' = "push"
  /\ UNCHANGED <<reset, toDecode, handed>>

\* One datagram, or several at once with recvmmsg, of a sender: what is no packet
\* panics in deserialize.
Receive(datagrams) ==
  /\ pc = "recv"
  /\ batch' = datagrams
  /\ IF reset
     THEN StartWindow(datagrams[1])
     ELSE UNCHANGED <<curId, curSeq, blocksData, blocksIgnore, blockToDispatch>>
  /\ reset' = FALSE
  /\ pc' = "push"
  /\ UNCHANGED <<toDecode, handed>>

\* Mutant: ignored ids are not filtered out.
PushAnyId ==
  /\ pc = "push"
  /\ blocksData' = [blocksData EXCEPT ![PacketId(Head(batch))] = Append(@, Head(batch))]
  /\ batch' = Tail(batch)
  /\ pc' = IF batch' = <<>> THEN "advance" ELSE "push"
  /\ UNCHANGED <<reset, curId, curSeq, blocksIgnore, toDecode, blockToDispatch, handed>>

\* The next packet of the batch is kept, unless its id is out of the window.
Push ==
  /\ pc = "push"
  /\ LET id == PacketId(Head(batch)) IN
       blocksData' = IF blocksIgnore[id] THEN blocksData
                     ELSE [blocksData EXCEPT ![id] = Append(@, Head(batch))]
  /\ batch' = Tail(batch)
  /\ pc' = IF batch' = <<>> THEN "advance" ELSE "push"
  /\ UNCHANGED <<reset, curId, curSeq, blocksIgnore, toDecode, blockToDispatch, handed>>

\* Mutant: one packet more than the decoder needs.
CurrentReadyLate == Len(blocksData[curId]) > MinPackets

CurrentReady == Len(blocksData[curId]) >= MinPackets

Current == [id |-> curId, packets |-> blocksData[curId], n |-> curSeq]

\* Mutant: the id that was handed over is not ignored.
AdvanceKeepsId ==
  /\ pc = "advance" /\ CurrentReady
  /\ blocksData' = [blocksData EXCEPT ![curId] = <<>>]
  /\ blocksIgnore' = [blocksIgnore EXCEPT ![WrappingAdd(curId, WindowWidth)] = FALSE]
  /\ toDecode' = Append(toDecode, Current)
  /\ curId' = WrappingAdd(curId, 1)
  /\ curSeq' = curSeq + 1
  /\ handed' = Append(handed, curSeq)
  /\ UNCHANGED <<pc, reset, batch, blockToDispatch>>

\* Mutant: `if' in place of `while'.
AdvanceOnce ==
  /\ pc = "advance" /\ CurrentReady
  /\ LET opposite == WrappingAdd(curId, WindowWidth) IN
     /\ blocksData' = [blocksData EXCEPT ![curId] = <<>>]
     /\ blocksIgnore' = [blocksIgnore EXCEPT ![curId] = TRUE, ![opposite] = FALSE]
  /\ toDecode' = Append(toDecode, Current)
  /\ curId' = WrappingAdd(curId, 1)
  /\ curSeq' = curSeq + 1
  /\ pc' = "recv"
  /\ handed' = Append(handed, curSeq)
  /\ UNCHANGED <<reset, batch, blockToDispatch>>

\* The current block is handed over and the window moves by one id.
Advance ==
  /\ pc = "advance" /\ CurrentReady
  /\ LET opposite == WrappingAdd(curId, WindowWidth) IN
     /\ blocksData' = [blocksData EXCEPT ![curId] = <<>>]
     /\ blocksIgnore' = [blocksIgnore EXCEPT ![curId] = TRUE, ![opposite] = FALSE]
     /\ IF blocksData'[opposite] # <<>>
        THEN /\ toDecode' = toDecode \o <<Current, SyncLost>>
             /\ reset' = TRUE
             /\ pc' = "recv"
             /\ UNCHANGED <<curId, curSeq>>
        ELSE /\ toDecode' = Append(toDecode, Current)
             /\ curId' = WrappingAdd(curId, 1)
             /\ curSeq' = curSeq + 1
             /\ UNCHANGED <<reset, pc>>
  /\ handed' = Append(handed, curSeq)
  /\ UNCHANGED <<batch, blockToDispatch>>

\* The current block lacks packets: wait for more.
Wait ==
  /\ pc = "advance" /\ ~CurrentReady
  /\ pc' = "recv"
  /\ UNCHANGED <<batch, windowVars, toDecode, blockToDispatch, handed>>

\* recv_timeout returned Timeout: nothing arrived for reset_timeout.
Timeout ==
  /\ pc = "recv"
  /\ reset' = TRUE
  /\ toDecode' = IF \E id \in Ids : blocksIgnore[id] /\ blocksData[id] # <<>>
                 THEN Append(toDecode, SyncLost) ELSE toDecode
  /\ UNCHANGED <<pc, batch, curId, curSeq, blocksData, blocksIgnore, blockToDispatch, handed>>

-----------------------------------------------------------------------------
(* The environment: datagrams of any blocks, and decoders that take and    *)
(* take turns to dispatch.                                                 *)

\* A decoder takes from the channel.
Take ==
  /\ toDecode # <<>>
  /\ toDecode' = Tail(toDecode)
  /\ UNCHANGED <<pc, batch, windowVars, blockToDispatch, handed>>

\* A decoder passes the turn on after its block.
PassTurn ==
  /\ blockToDispatch' = WrappingAdd(blockToDispatch, 1)
  /\ UNCHANGED <<pc, batch, windowVars, toDecode, handed>>

Datagrams == {d \in Seq(Packets) : d # <<>>}

\* Any datagrams; they are named by the new value of batch, so that TLC can
\* recognise the step without enumerating them.
ReceiveAny == batch' \in Datagrams /\ Receive(batch')

Worker == Push \/ Advance \/ Wait \/ Timeout

Next == ReceiveAny \/ Worker \/ Take \/ PassTurn

Spec == Init /\ [][Next]_reblockVars

\* The datagram is less than a turn of the ids ahead of the current block, and
\* behind it by no more than the ids out of the window.
Near(p) == /\ p.blk < curSeq + IdModulus
           /\ curSeq <= p.blk + (IdModulus - WindowWidth)

\* As Next, on a link where the current block never falls that far behind.
NearNext ==
  \/ ReceiveAny
  \/ Push /\ Near(Head(batch))
  \/ Advance \/ Wait \/ Timeout \/ Take \/ PassTurn

NearSpec == Init /\ [][NearNext]_reblockVars

-----------------------------------------------------------------------------
(* Properties *)

TypeOK ==
  /\ pc \in {"recv", "push", "advance"}
  /\ batch \in Seq(Packets) /\ (pc = "push" <=> batch # <<>>)
  /\ reset \in BOOLEAN
  /\ curId \in Ids
  /\ curSeq \in Nat
  /\ blocksData \in [Ids -> Seq(Packets)]
  /\ blocksIgnore \in [Ids -> BOOLEAN]
  /\ toDecode \in Seq(Reassembled \cup {SyncLost})
  /\ blockToDispatch \in Ids
  /\ handed \in Seq(Nat)

\* While a window is open, the ids that are not ignored are exactly the
\* WindowWidth ids from cur_id on: the ring of flags, changed at two places per
\* step, never drifts from the current id.
WindowFollowsCurrent ==
  ~reset => /\ curId = IdOf(curSeq)
            /\ \A id \in Ids : blocksIgnore[id] <=> ~InWindow(curId, id)

\* No packet is ever kept for an ignored id.
IgnoredIdsEmpty == \A id \in Ids : blocksIgnore[id] => blocksData[id] = <<>>

\* So neither of the two checks for damaged blocks in reblock.rs, which look for
\* packets under an ignored id, can ever report a loss to the decoders.
NeverReportsLoss == \A i \in 1 .. Len(toDecode) : toDecode[i] # SyncLost

\* The strengthening that makes the four properties above inductive: a window is
\* open whenever packets are sorted.
WindowInv ==
  /\ TypeOK
  /\ pc # "recv" => ~reset
  /\ WindowFollowsCurrent
  /\ IgnoredIdsEmpty
  /\ NeverReportsLoss

\* A reassembled block only has packets of the one sender block it stands for:
\* packets of different turns of the 8-bit ids are never mixed.
BlocksUnmixed ==
  \A i \in 1 .. Len(toDecode) :
    toDecode[i] # SyncLost =>
      \A k \in 1 .. Len(toDecode[i].packets) :
        toDecode[i].packets[k].blk = toDecode[i].n

\* What makes it inductive: every packet kept in an open window is of the block
\* as far ahead of the current one as its id is.
KeptInWindow ==
  ~reset => \A id \in Ids : \A k \in 1 .. Len(blocksData[id]) :
              blocksData[id][k].blk = curSeq + Ahead(curId, id)

=============================================================================
