---------------------------- MODULE ReblockLink -----------------------------
(***************************************************************************)
(* The reblock worker at the end of the link.  The sender puts the packets *)
(* of the blocks 0, 1, 2, ... on the link one block after the other.  The  *)
(* link reorders packets within a block and across MaxSkew consecutive     *)
(* blocks, and the UDP worker receives one or several at once.  What else  *)
(* may go wrong is chosen at the start among Links:                        *)
(*                                                                         *)
(*   "lose"       packets are lost;                                        *)
(*   "duplicate"  packets arrive more than once;                           *)
(*   "overtake"   after a silence, a packet of a later block may arrive    *)
(*                before one of the first block;                           *)
(*   "restart"    the sending program is restarted, which takes longer     *)
(*                than reset_timeout: the ids of its blocks are 0, 1, ...  *)
(*                once more.                                               *)
(*                                                                         *)
(* The unbounded channel from the UDP worker to reblock only delays the    *)
(* packets: it is part of the link here.                                   *)
(***************************************************************************)
EXTENDS Reblock, FiniteSets

CONSTANTS Links,     \* the sets of faults that the link may have
          MaxBlocks, \* bound: blocks sent in a run
          MaxFaults, \* bound: packets lost or duplicated in a run
          MaxSkew,   \* how many consecutive blocks the link can interleave
          MaxBatch,  \* config.batch_receive
          Timely     \* no packet is on its way for as long as reset_timeout

Faults == {"lose", "duplicate", "overtake", "restart"}

ASSUME ReblockLinkAssumption ==
  /\ Links \subseteq SUBSET Faults
  /\ MaxBlocks \in Nat /\ MaxFaults \in Nat /\ MaxSkew \in Nat \ {0} /\ MaxBatch \in Nat \ {0}
  /\ Timely \in BOOLEAN
  \* RaptorQ::new raises nb_repair_packets to min_nb_repair_packets.
  /\ IsFiniteSet(Symbols) /\ MinPackets <= Cardinality(Symbols)

VARIABLES nextBlk,  \* the next block the sender puts on the link
          inFlight, \* the packets on the link
          harmed,   \* how many packets were lost or duplicated
          faults,   \* the faults of this link
          sent      \* history: the numbers of the blocks sent

linkVars == <<nextBlk, inFlight, harmed, faults, sent>>
vars     == <<reblockVars, linkVars>>

LinkInit ==
  /\ Init /\ nextBlk = 0 /\ inFlight = {} /\ harmed = 0 /\ sent = <<>>
  /\ faults \in Links

\* The packets of the next block are not MaxSkew blocks ahead of any other.
KeepsSkew == \A p \in inFlight : nextBlk < p.blk + MaxSkew

\* The sender's UDP worker sends all packets of the next block.  Those that the
\* link loses are never seen by anyone: they are not put on it.
SendPackets ==
  /\ Len(sent) < MaxBlocks
  /\ KeepsSkew
  /\ \E lost \in SUBSET Symbols :
       /\ lost # {} => "lose" \in faults
       /\ harmed' = harmed + Cardinality(lost)
       /\ harmed' <= MaxFaults
       /\ inFlight' = inFlight \cup [blk : {nextBlk}, sym : Symbols \ lost]
  /\ nextBlk' = nextBlk + 1
  /\ sent' = Append(sent, nextBlk)
  /\ UNCHANGED <<faults, reblockVars>>

\* The sending program starts again, when the link has been silent for long
\* enough: its next block is the next one that has id 0.
SenderRestarts ==
  /\ "restart" \in faults
  /\ inFlight = {} /\ pc = "recv" /\ reset
  /\ Len(sent) < MaxBlocks /\ IdOf(nextBlk) # 0
  /\ nextBlk' = (nextBlk \div IdModulus + 1) * IdModulus
  /\ UNCHANGED <<inFlight, harmed, faults, sent, reblockVars>>

Arrivals == {d \in UNION {[1 .. n -> inFlight] : n \in 1 .. MaxBatch} :
               Cardinality({d[i] : i \in DOMAIN d}) = Len(d)}

\* The UDP worker receives datagrams and passes them on to reblock; those that
\* were duplicated come once more.
Deliver ==
  \E d \in Arrivals :
    /\ reset /\ "overtake" \notin faults => \A p \in inFlight : d[1].blk <= p.blk
    /\ Receive(d)
    /\ LET arrived == {d[i] : i \in DOMAIN d} IN
       \/ inFlight' = inFlight \ arrived /\ UNCHANGED harmed
       \/ /\ "duplicate" \in faults /\ harmed < MaxFaults
          /\ \E again \in arrived : inFlight' = inFlight \ (arrived \ {again})
          /\ harmed' = harmed + 1
    /\ UNCHANGED <<nextBlk, faults, sent>>

SilentTimeout == (Timely => inFlight = {}) /\ Timeout

\* A link that loses packets is only looked at while they are near the current
\* block: see NearNext.
PushNear == Push /\ ("lose" \in faults => Near(Head(batch)))

\* The decoders keep up with reblock: nobody but them sees how many blocks there
\* are in the unbounded to_decode.
LinkNext ==
  \/ Take /\ UNCHANGED linkVars
  \/ /\ toDecode = <<>>
     /\ \/ SendPackets \/ SenderRestarts \/ Deliver
        \/ (PushNear \/ Advance \/ Wait \/ SilentTimeout) /\ UNCHANGED linkVars

LinkSpec == LinkInit /\ [][LinkNext]_vars

\* The link delivers what it does not lose, the workers run.
FairLinkSpec ==
  /\ LinkSpec
  /\ WF_vars(SendPackets) /\ WF_vars(Deliver)
  /\ WF_vars((PushNear \/ Advance \/ Wait \/ Take) /\ UNCHANGED linkVars)

-----------------------------------------------------------------------------
(* Properties *)

\* Reblock never goes back: whatever is lost or comes twice, and however often
\* it resets, the blocks it hands over have increasing numbers, so none is
\* decoded twice.
HandedIncreasing ==
  \A i, j \in 1 .. Len(handed) : i < j => handed[i] < handed[j]

LosesNothing == "lose" \notin faults

\* Neither lost packets nor a late first one.
Reliable == LosesNothing /\ "overtake" \notin faults

\* On a link that loses nothing, the packets that reblock looks at are always
\* near the current block, whatever comes twice or late, whatever it resets and
\* ignores: what the theorem that blocks are never mixed takes for granted.
StaysNear == [][LosesNothing => NearNext]_reblockVars

\* On a link that loses nothing and keeps the first block of a silence first, the
\* blocks handed over are in the end those that were sent, in order, each once, in
\* spite of packets reordered across blocks, of duplicates, of resets in the
\* silences, and of a sender that starts again with id 0 after one.
AllHanded == <>[](Reliable => handed = sent)

=============================================================================
