---------------------------- MODULE ReceiverProofs ----------------------------
(***************************************************************************)
(* Proofs about the receiving half: first the reblock worker on its own,   *)
(* for every number of ids, any datagrams in any order, and runs of any    *)
(* length; then the link, the workers and the channels between them as a   *)
(* whole, for any numbers of threads, of client workers and of restarts:   *)
(* what a client is told is whole was sent as such.                        *)
(***************************************************************************)
EXTENDS Receiver, BlockIdsProofs, SequenceTheorems, FiniteSetTheorems

USE IdModulusAssumption, ReblockAssumption

LEMMA PacketIdType == ASSUME NEW p \in Packets PROVE PacketId(p) \in Ids /\ p.blk \in Nat
  BY IdOfType DEF PacketId, Packets

-----------------------------------------------------------------------------
(* The window *)

\* The window that opens at a packet follows it.
LEMMA StartedWindow ==
  ASSUME NEW p \in Packets, StartWindow(p), TypeOK
  PROVE  /\ curId' \in Ids /\ curSeq' \in Nat /\ blockToDispatch' \in Ids
         /\ blocksData' \in [Ids -> Seq(Packets)]
         /\ blocksIgnore' \in [Ids -> BOOLEAN]
         /\ curId' = IdOf(curSeq')
         /\ \A id \in Ids : blocksIgnore'[id] <=> ~InWindow(curId', id)
         /\ \A id \in Ids : blocksData'[id] = <<>>
<1>1. PacketId(p) \in Ids /\ p.blk \in Nat /\ PacketId(p) = IdOf(p.blk)
  BY PacketIdType DEF PacketId
<1>2. \A id \in Ids : InWindow(PacketId(p), id) \in BOOLEAN
  BY DEF InWindow
<1>3. /\ curId' = PacketId(p) /\ curSeq' = p.blk /\ blockToDispatch' = PacketId(p)
      /\ blocksData' = [id \in Ids |-> <<>>]
      /\ blocksIgnore' = [id \in Ids |-> ~InWindow(PacketId(p), id)]
  BY DEF StartWindow
<1>4. <<>> \in Seq(Packets)
  BY EmptySeq
<1>5. QED
  BY <1>1, <1>2, <1>3, <1>4

\* Advance finds nothing under the id that it brings into the window, so it
\* never reports a loss, and it moves the window by one id.
LEMMA AdvancedWindow ==
  ASSUME WindowInv, Advance
  PROVE  /\ curId' = WrappingAdd(curId, 1) /\ curId' \in Ids
         /\ curSeq' = curSeq + 1
         /\ UNCHANGED <<reset, pc>> /\ ~reset
         /\ Current \in Reassembled
         /\ toDecode' = Append(toDecode, Current)
         /\ blocksData' = [blocksData EXCEPT ![curId] = <<>>]
         /\ blocksData' \in [Ids -> Seq(Packets)]
         /\ blocksIgnore' \in [Ids -> BOOLEAN]
         /\ \A id \in Ids : blocksIgnore'[id] <=> ~InWindow(curId', id)
         /\ \A id \in Ids : blocksIgnore'[id] => blocksData'[id] = <<>>
<1> DEFINE opposite == WrappingAdd(curId, WindowWidth)
<1>1. /\ ~reset /\ curId \in Ids /\ curSeq \in Nat
      /\ blocksData \in [Ids -> Seq(Packets)] /\ blocksIgnore \in [Ids -> BOOLEAN]
      /\ \A id \in Ids : blocksIgnore[id] <=> ~InWindow(curId, id)
      /\ \A id \in Ids : blocksIgnore[id] => blocksData[id] = <<>>
  BY DEF WindowInv, TypeOK, Advance, WindowFollowsCurrent, IgnoredIdsEmpty
<1>2. opposite \in Ids /\ opposite # curId /\ Ahead(curId, opposite) = WindowWidth
  BY <1>1, OppositeJustBeyond
<1>3. blocksIgnore[opposite]
  BY <1>1, <1>2, WindowWidthRange DEF InWindow, Ids
<1>4. /\ blocksData' = [blocksData EXCEPT ![curId] = <<>>]
      /\ blocksIgnore' = [blocksIgnore EXCEPT ![curId] = TRUE, ![opposite] = FALSE]
  BY DEF Advance
<1>5. blocksData'[opposite] = <<>>
  BY <1>1, <1>2, <1>3, <1>4
<1>6. /\ curId' = WrappingAdd(curId, 1) /\ curSeq' = curSeq + 1
      /\ UNCHANGED <<reset, pc>>
      /\ toDecode' = Append(toDecode, Current)
  BY <1>5 DEF Advance
<1>7. Current \in Reassembled
  BY <1>1 DEF Current, Reassembled
<1>8. /\ blocksData' \in [Ids -> Seq(Packets)]
      /\ blocksIgnore' \in [Ids -> BOOLEAN]
      /\ curId' \in Ids
  BY <1>1, <1>2, <1>4, <1>6, EmptySeq, AheadAfterStep
<1>9. ASSUME NEW id \in Ids PROVE blocksIgnore'[id] <=> ~InWindow(curId', id)
  <2>1. /\ Ahead(curId, id) \in Ids
        /\ id # curId => Ahead(curId', id) = Ahead(curId, id) - 1
        /\ id = curId => Ahead(curId', id) = IdModulus - 1
    BY <1>1, <1>6, <1>9, AheadValue, AheadAfterStep
  <2>2. CASE id = curId
    BY <1>1, <1>2, <1>4, <2>1, <2>2, WindowWidthRange DEF InWindow, Ids
  <2>3. CASE id = opposite
    BY <1>1, <1>2, <1>4, <2>1, <2>3, WindowWidthRange DEF InWindow, Ids
  <2>4. CASE id # curId /\ id # opposite
    <3>1. Ahead(curId, id) # WindowWidth
      <4>1. /\ Ahead(curId, id) = IF curId <= id THEN id - curId ELSE id - curId + IdModulus
            /\ Ahead(curId, opposite) = IF curId <= opposite THEN opposite - curId
                                        ELSE opposite - curId + IdModulus
        BY <1>1, <1>2, <1>9, AheadValue
      <4> HIDE DEF opposite
      <4>2. QED
        BY <1>1, <1>2, <1>9, <2>4, <4>1 DEF Ids
    <3>2. blocksIgnore'[id] = blocksIgnore[id]
      BY <1>1, <1>4, <2>4
    <3>3. QED
      BY <1>1, <2>1, <2>4, <3>1, <3>2, WindowWidthRange DEF InWindow, Ids
  <2>5. QED
    BY <2>2, <2>3, <2>4
<1>10. \A id \in Ids : blocksIgnore'[id] => blocksData'[id] = <<>>
  BY <1>1, <1>2, <1>4
<1>11. QED
  BY <1>1, <1>4, <1>6, <1>7, <1>8, <1>9, <1>10

LEMMA WindowInit == Init => WindowInv
<1> SUFFICES ASSUME Init PROVE WindowInv
  OBVIOUS
<1>1. /\ pc = "recv" /\ batch = <<>> /\ reset = TRUE /\ curId = 0 /\ curSeq = 0
      /\ blocksData = [id \in Ids |-> <<>>] /\ blocksIgnore = [id \in Ids |-> TRUE]
      /\ toDecode = <<>> /\ blockToDispatch = 0 /\ handed = <<>> /\ 0 \in Ids
  BY DEF Init, Ids
<1>2. \A i \in 1 .. Len(toDecode) : toDecode[i] # SyncLost
  BY <1>1
<1>3. TypeOK
  BY <1>1, EmptySeq DEF TypeOK
<1>4. QED
  BY <1>1, <1>2, <1>3
     DEF WindowInv, WindowFollowsCurrent, IgnoredIdsEmpty, NeverReportsLoss

\* A queue without reports keeps none when a block is appended to it.
LEMMA AppendBlock ==
  ASSUME NEW q \in Seq(Reassembled \cup {SyncLost}), NEW b \in Reassembled,
         \A i \in 1 .. Len(q) : q[i] # SyncLost
  PROVE  /\ Append(q, b) \in Seq(Reassembled \cup {SyncLost})
         /\ \A i \in 1 .. Len(Append(q, b)) : Append(q, b)[i] # SyncLost
<1>1. /\ Append(q, b) \in Seq(Reassembled \cup {SyncLost})
      /\ Len(Append(q, b)) = Len(q) + 1
      /\ \A i \in 1 .. Len(q) : Append(q, b)[i] = q[i]
      /\ Append(q, b)[Len(q) + 1] = b
  BY AppendProperties
<1>2. Len(q) \in Nat /\ b # SyncLost
  BY LenProperties
<1>3. ASSUME NEW i \in 1 .. Len(Append(q, b)) PROVE Append(q, b)[i] # SyncLost
  <2>1. CASE i = Len(q) + 1
    BY <1>1, <1>2, <2>1
  <2>2. CASE i # Len(q) + 1
    BY <1>1, <1>2, <1>3, <2>2
  <2>3. QED
    BY <2>1, <2>2
<1>4. QED
  BY <1>1, <1>3

\* The elements of the tail of a queue are elements of the queue.
LEMMA TailElements ==
  ASSUME NEW S, NEW q \in Seq(S), q # <<>>
  PROVE  /\ Tail(q) \in Seq(S)
         /\ \A i \in 1 .. Len(Tail(q)) : i + 1 \in 1 .. Len(q) /\ Tail(q)[i] = q[i + 1]
<1>1. /\ Tail(q) \in Seq(S) /\ Len(Tail(q)) = Len(q) - 1
      /\ \A i \in 1 .. Len(Tail(q)) : Tail(q)[i] = q[i + 1]
  BY HeadTailProperties
<1>2. Len(q) \in Nat
  BY LenProperties
<1>3. QED
  BY <1>1, <1>2

LEMMA WindowStep == WindowInv /\ [Next]_reblockVars => WindowInv'
<1> SUFFICES ASSUME WindowInv, [Next]_reblockVars PROVE WindowInv'
  OBVIOUS
<1>a. /\ TypeOK /\ (pc # "recv" => ~reset) /\ WindowFollowsCurrent
      /\ IgnoredIdsEmpty /\ NeverReportsLoss
  BY DEF WindowInv
<1>1. ASSUME NEW d \in Datagrams, Receive(d) PROVE WindowInv'
  <2>1. d \in Seq(Packets) /\ d # <<>> /\ d[1] \in Packets
    <3>1. d \in Seq(Packets) /\ d # <<>>
      BY <1>1 DEF Datagrams
    <3>2. Len(d) \in Nat /\ Len(d) # 0
      BY <3>1, LenProperties, EmptySeq
    <3>3. QED
      BY <3>1, <3>2, ElementOfSeq
  <2>2. /\ batch' = d /\ reset' = FALSE /\ pc' = "push"
        /\ toDecode' = toDecode /\ handed' = handed
    BY <1>1 DEF Receive
  <2>3. /\ curId' \in Ids /\ curSeq' \in Nat /\ blockToDispatch' \in Ids
        /\ blocksData' \in [Ids -> Seq(Packets)]
        /\ blocksIgnore' \in [Ids -> BOOLEAN]
        /\ curId' = IdOf(curSeq')
        /\ \A id \in Ids : blocksIgnore'[id] <=> ~InWindow(curId', id)
        /\ \A id \in Ids : blocksIgnore'[id] => blocksData'[id] = <<>>
    <3>1. CASE reset
      BY <1>1, <1>a, <2>1, <3>1, StartedWindow DEF Receive
    <3>2. CASE ~reset
      BY <1>1, <1>a, <3>2 DEF Receive, TypeOK, WindowFollowsCurrent, IgnoredIdsEmpty
    <3>3. QED
      BY <3>1, <3>2
  <2>4. TypeOK'
    BY <1>a, <2>1, <2>2, <2>3 DEF TypeOK
  <2>5. QED
    BY <1>a, <2>2, <2>3, <2>4
       DEF WindowInv, WindowFollowsCurrent, IgnoredIdsEmpty, NeverReportsLoss
<1>2. CASE Push
  <2> DEFINE id == PacketId(Head(batch))
  <2>1. /\ batch \in Seq(Packets) /\ batch # <<>>
        /\ batch' = Tail(batch)
        /\ pc' = IF batch' = <<>> THEN "advance" ELSE "push"
        /\ UNCHANGED <<reset, curId, curSeq, blocksIgnore, toDecode, blockToDispatch, handed>>
        /\ pc = "push"
        /\ blocksData' = IF blocksIgnore[id] THEN blocksData
                         ELSE [blocksData EXCEPT ![id] = Append(@, Head(batch))]
    BY <1>2, <1>a DEF Push, TypeOK
  <2>2. Head(batch) \in Packets /\ Tail(batch) \in Seq(Packets)
    BY <2>1, HeadTailProperties
  <2>3. id \in Ids
    BY <2>2, PacketIdType
  <2>4. blocksData \in [Ids -> Seq(Packets)]
    BY <1>a DEF TypeOK
  <2>5. Append(blocksData[id], Head(batch)) \in Seq(Packets)
    BY <2>2, <2>3, <2>4, AppendProperties
  <2> HIDE DEF id
  <2>6. blocksData' \in [Ids -> Seq(Packets)]
    BY <2>1, <2>3, <2>4, <2>5
  <2>7. TypeOK'
    BY <1>a, <2>1, <2>2, <2>6 DEF TypeOK
  <2>8. IgnoredIdsEmpty'
    BY <1>a, <2>1, <2>3, <2>4 DEF IgnoredIdsEmpty
  <2>9. QED
    BY <1>a, <2>1, <2>7, <2>8 DEF WindowInv, WindowFollowsCurrent, NeverReportsLoss
<1>3. CASE Advance
  <2>1. /\ curId' = WrappingAdd(curId, 1) /\ curId' \in Ids
        /\ curSeq' = curSeq + 1
        /\ UNCHANGED <<reset, pc>> /\ ~reset
        /\ Current \in Reassembled
        /\ toDecode' = Append(toDecode, Current)
        /\ blocksData' \in [Ids -> Seq(Packets)]
        /\ blocksIgnore' \in [Ids -> BOOLEAN]
        /\ \A id \in Ids : blocksIgnore'[id] <=> ~InWindow(curId', id)
        /\ \A id \in Ids : blocksIgnore'[id] => blocksData'[id] = <<>>
    BY <1>3, AdvancedWindow
  <2>2. UNCHANGED <<batch, blockToDispatch>> /\ handed' = Append(handed, curSeq)
    BY <1>3 DEF Advance
  <2>3. /\ toDecode' \in Seq(Reassembled \cup {SyncLost})
        /\ \A i \in 1 .. Len(toDecode') : toDecode'[i] # SyncLost
    BY <1>a, <2>1, AppendBlock DEF TypeOK, NeverReportsLoss
  <2>4. handed' \in Seq(Nat) /\ curSeq \in Nat
    BY <1>a, <2>2, AppendProperties DEF TypeOK
  <2>5. curId' = IdOf(curSeq')
    BY <1>a, <2>1, <2>4, IdOfNext DEF WindowFollowsCurrent
  <2>6. TypeOK'
    BY <1>a, <2>1, <2>2, <2>3, <2>4 DEF TypeOK
  <2>7. QED
    BY <1>a, <2>1, <2>3, <2>5, <2>6
       DEF WindowInv, WindowFollowsCurrent, IgnoredIdsEmpty, NeverReportsLoss
<1>4. CASE Wait
  BY <1>4, <1>a DEF Wait, windowVars, WindowInv, TypeOK, WindowFollowsCurrent,
                    IgnoredIdsEmpty, NeverReportsLoss, InWindow
<1>5. CASE Timeout
  <2>1. toDecode' = toDecode
    BY <1>5, <1>a DEF Timeout, IgnoredIdsEmpty
  <2>2. QED
    BY <1>5, <1>a, <2>1 DEF Timeout, WindowInv, TypeOK, WindowFollowsCurrent,
                            IgnoredIdsEmpty, NeverReportsLoss
<1>6. CASE Take
  <2>1. toDecode \in Seq(Reassembled \cup {SyncLost}) /\ toDecode # <<>>
    BY <1>6, <1>a DEF Take, TypeOK
  <2>2. toDecode' = Tail(toDecode)
    BY <1>6 DEF Take
  <2>3. /\ toDecode' \in Seq(Reassembled \cup {SyncLost})
        /\ \A i \in 1 .. Len(toDecode') :
             i + 1 \in 1 .. Len(toDecode) /\ toDecode'[i] = toDecode[i + 1]
    BY <2>1, <2>2, TailElements
  <2>4. NeverReportsLoss'
    BY <1>a, <2>3 DEF NeverReportsLoss
  <2>5. QED
    BY <1>6, <1>a, <2>3, <2>4 DEF Take, windowVars, WindowInv, TypeOK,
                                  WindowFollowsCurrent, IgnoredIdsEmpty, InWindow
<1>7. CASE PassTurn
  <2>1. blockToDispatch' \in Ids
    BY <1>7, <1>a, AheadAfterStep DEF PassTurn, TypeOK
  <2>2. QED
    BY <1>7, <1>a, <2>1 DEF PassTurn, windowVars, WindowInv, TypeOK,
                            WindowFollowsCurrent, IgnoredIdsEmpty, NeverReportsLoss, InWindow
<1>8. CASE UNCHANGED reblockVars
  BY <1>8, <1>a DEF reblockVars, windowVars, WindowInv, TypeOK,
                    WindowFollowsCurrent, IgnoredIdsEmpty, NeverReportsLoss, InWindow
<1>9. QED
  BY <1>1, <1>2, <1>3, <1>4, <1>5, <1>6, <1>7, <1>8 DEF Next, Worker, ReceiveAny

\* Whatever datagrams arrive, the open window is the WindowWidth ids from cur_id
\* on and nothing is kept outside of it.
THEOREM WindowInvariant == Spec => []WindowInv
<1>1. Init => WindowInv
  BY WindowInit
<1>2. WindowInv /\ [Next]_reblockVars => WindowInv'
  BY WindowStep
<1>3. QED
  BY <1>1, <1>2, PTL DEF Spec

\* The two checks for damaged blocks of reblock.rs never report anything: no
\* sequence of datagrams and silences makes reblock announce a loss.
THEOREM LossNeverReported == Spec => []NeverReportsLoss
<1>1. WindowInv => NeverReportsLoss
  BY DEF WindowInv
<1>2. QED
  BY <1>1, WindowInvariant, PTL

-----------------------------------------------------------------------------
(* Blocks of different turns of the ids *)

\* NearSpec only takes steps of Spec.
LEMMA NearStep == [NearNext]_reblockVars => [Next]_reblockVars
  BY DEF NearNext, Next, Worker

UnmixedInv == WindowInv /\ KeptInWindow /\ BlocksUnmixed

LEMMA UnmixedInit == Init => UnmixedInv
<1> SUFFICES ASSUME Init PROVE UnmixedInv
  OBVIOUS
<1>1. WindowInv
  BY WindowInit
<1>2. KeptInWindow /\ BlocksUnmixed
  BY DEF Init, KeptInWindow, BlocksUnmixed
<1>3. QED
  BY <1>1, <1>2 DEF UnmixedInv

\* A packet of a near block that is not ignored is as many blocks ahead of the
\* current one as its id is.
LEMMA NearIsAhead ==
  ASSUME WindowInv, ~reset, NEW p \in Packets, Near(p), ~blocksIgnore[PacketId(p)]
  PROVE  p.blk = curSeq + Ahead(curId, PacketId(p))
<1>1. /\ curSeq \in Nat /\ curId = IdOf(curSeq) /\ p.blk \in Nat
      /\ PacketId(p) = IdOf(p.blk) /\ PacketId(p) \in Ids
  BY PacketIdType DEF WindowInv, TypeOK, WindowFollowsCurrent, PacketId
<1>2. Ahead(curId, PacketId(p)) < WindowWidth
  BY <1>1 DEF WindowInv, WindowFollowsCurrent, InWindow
<1>3. p.blk < curSeq + IdModulus /\ curSeq <= p.blk + (IdModulus - WindowWidth)
  BY DEF Near
<1>4. ~(p.blk < curSeq)
  <2> SUFFICES ASSUME p.blk < curSeq PROVE FALSE
    OBVIOUS
  <2>1. Ahead(IdOf(curSeq), IdOf(p.blk)) >= WindowWidth
    BY <1>1, <1>3, BehindIsOutOfWindow
  <2>2. Ahead(curId, PacketId(p)) \in Ids
    BY <1>1, IdOfType, AheadValue
  <2>3. QED
    BY <1>1, <1>2, <2>1, <2>2, WindowWidthRange DEF Ids
<1>5. p.blk - curSeq \in Ids /\ curSeq + (p.blk - curSeq) = p.blk
  BY <1>1, <1>3, <1>4 DEF Ids
<1>6. Ahead(IdOf(curSeq), IdOf(curSeq + (p.blk - curSeq))) = p.blk - curSeq
  BY <1>1, <1>5, AheadOfNumbers
<1>7. QED
  BY <1>1, <1>5, <1>6

LEMMA UnmixedStep == UnmixedInv /\ [NearNext]_reblockVars => UnmixedInv'
<1> SUFFICES ASSUME UnmixedInv, [NearNext]_reblockVars PROVE UnmixedInv'
  OBVIOUS
<1>a. /\ WindowInv /\ KeptInWindow /\ BlocksUnmixed
      /\ TypeOK /\ (pc # "recv" => ~reset) /\ WindowFollowsCurrent /\ NeverReportsLoss
  BY DEF UnmixedInv, WindowInv
<1>b. WindowInv'
  BY <1>a, NearStep, WindowStep
<1>1. ASSUME NEW d \in Datagrams, Receive(d) PROVE UnmixedInv'
  <2>1. toDecode' = toDecode /\ (reset \/ UNCHANGED <<curId, curSeq, blocksData>>)
    BY <1>1 DEF Receive
  <2>2. KeptInWindow'
    <3>1. CASE reset
      <4>1. blocksData' = [id \in Ids |-> <<>>]
        BY <1>1, <3>1 DEF Receive, StartWindow
      <4>2. \A id \in Ids : Len(blocksData'[id]) = 0
        BY <4>1
      <4>3. QED
        BY <4>2 DEF KeptInWindow
    <3>2. CASE ~reset
      BY <1>a, <2>1, <3>2 DEF KeptInWindow
    <3>3. QED
      BY <3>1, <3>2
  <2>3. QED
    BY <1>a, <1>b, <2>1, <2>2 DEF UnmixedInv, BlocksUnmixed
<1>2. CASE Push /\ Near(Head(batch))
  <2> DEFINE p == Head(batch)
  <2>1. /\ batch \in Seq(Packets) /\ batch # <<>> /\ ~reset
        /\ UNCHANGED <<reset, curId, curSeq, toDecode>>
        /\ blocksData' = IF blocksIgnore[PacketId(p)] THEN blocksData
                         ELSE [blocksData EXCEPT ![PacketId(p)] = Append(@, p)]
        /\ Near(p)
    BY <1>2, <1>a DEF Push, TypeOK
  <2>2. p \in Packets /\ PacketId(p) \in Ids /\ blocksData \in [Ids -> Seq(Packets)]
    BY <1>a, <2>1, HeadTailProperties, PacketIdType DEF TypeOK
  <2> HIDE DEF p
  <2>3. KeptInWindow'
    <3>1. CASE blocksIgnore[PacketId(p)]
      BY <1>a, <2>1, <3>1 DEF KeptInWindow
    <3>2. CASE ~blocksIgnore[PacketId(p)]
      <4>1. p.blk = curSeq + Ahead(curId, PacketId(p))
        BY <1>a, <2>1, <2>2, <3>2, NearIsAhead
      <4>2. ASSUME NEW id \in Ids, NEW k \in 1 .. Len(blocksData'[id])
            PROVE  blocksData'[id][k].blk = curSeq + Ahead(curId, id)
        <5>1. CASE id # PacketId(p)
          BY <1>a, <2>1, <2>2, <3>2, <4>2, <5>1 DEF KeptInWindow
        <5>2. CASE id = PacketId(p)
          <6>1. blocksData'[id] = Append(blocksData[id], p) /\ blocksData[id] \in Seq(Packets)
            BY <2>1, <2>2, <3>2, <5>2
          <6>2. /\ Len(blocksData'[id]) = Len(blocksData[id]) + 1
                /\ \A j \in 1 .. Len(blocksData[id]) : blocksData'[id][j] = blocksData[id][j]
                /\ blocksData'[id][Len(blocksData[id]) + 1] = p
                /\ Len(blocksData[id]) \in Nat
            BY <2>2, <6>1, AppendProperties, LenProperties
          <6>3. CASE k = Len(blocksData[id]) + 1
            BY <4>1, <5>2, <6>2, <6>3
          <6>4. CASE k # Len(blocksData[id]) + 1
            <7>1. k \in 1 .. Len(blocksData[id])
              BY <4>2, <6>2, <6>4
            <7>2. QED
              BY <1>a, <2>1, <4>2, <6>2, <7>1 DEF KeptInWindow
          <6>5. QED
            BY <6>3, <6>4
        <5>3. QED
          BY <5>1, <5>2
      <4>3. QED
        BY <2>1, <4>2 DEF KeptInWindow
    <3>3. QED
      BY <3>1, <3>2
  <2>4. QED
    BY <1>a, <1>b, <2>1, <2>3 DEF UnmixedInv, BlocksUnmixed
<1>3. CASE Advance
  <2>1. /\ curId' = WrappingAdd(curId, 1)
        /\ curSeq' = curSeq + 1
        /\ ~reset /\ Current \in Reassembled
        /\ toDecode' = Append(toDecode, Current)
        /\ blocksData' = [blocksData EXCEPT ![curId] = <<>>]
    BY <1>3, <1>a, AdvancedWindow
  <2>2. /\ curId \in Ids /\ curSeq \in Nat /\ blocksData \in [Ids -> Seq(Packets)]
        /\ toDecode \in Seq(Reassembled \cup {SyncLost})
    BY <1>a DEF TypeOK
  <2>3. KeptInWindow'
    <3>1. ASSUME NEW id \in Ids, NEW k \in 1 .. Len(blocksData'[id])
          PROVE  blocksData'[id][k].blk = curSeq' + Ahead(curId', id)
      <4>1. id # curId /\ blocksData'[id] = blocksData[id]
        BY <2>1, <2>2, <3>1
      <4>2. blocksData[id][k].blk = curSeq + Ahead(curId, id)
        BY <1>a, <2>1, <3>1, <4>1 DEF KeptInWindow
      <4>3. Ahead(curId', id) = Ahead(curId, id) - 1 /\ Ahead(curId, id) \in Ids
        BY <2>1, <2>2, <3>1, <4>1, AheadAfterStep, AheadValue
      <4>4. QED
        BY <2>1, <2>2, <4>1, <4>2, <4>3 DEF Ids
    <3>2. QED
      BY <3>1 DEF KeptInWindow
  <2>4. ASSUME NEW k \in 1 .. Len(Current.packets)
        PROVE  Current.packets[k].blk = Current.n
    <3>1. blocksData[curId][k].blk = curSeq + Ahead(curId, curId)
      BY <1>a, <2>1, <2>2, <2>4 DEF KeptInWindow, Current
    <3>2. Ahead(curId, curId) = 0
      BY <2>2, AheadSelf
    <3>3. QED
      BY <2>2, <3>1, <3>2 DEF Current
  <2>5. BlocksUnmixed'
    <3>1. /\ Len(toDecode') = Len(toDecode) + 1 /\ Len(toDecode) \in Nat
          /\ \A i \in 1 .. Len(toDecode) : toDecode'[i] = toDecode[i]
          /\ toDecode'[Len(toDecode) + 1] = Current
      BY <2>1, <2>2, AppendProperties, LenProperties
    <3>2. ASSUME NEW i \in 1 .. Len(toDecode'), toDecode'[i] # SyncLost,
                 NEW k \in 1 .. Len(toDecode'[i].packets)
          PROVE  toDecode'[i].packets[k].blk = toDecode'[i].n
      <4>1. CASE i = Len(toDecode) + 1
        BY <2>4, <3>1, <3>2, <4>1
      <4>2. CASE i # Len(toDecode) + 1
        <5>1. i \in 1 .. Len(toDecode) /\ toDecode'[i] = toDecode[i]
          BY <3>1, <3>2, <4>2
        <5>2. QED
          BY <1>a, <3>2, <5>1 DEF BlocksUnmixed
      <4>3. QED
        BY <4>1, <4>2
    <3>3. QED
      BY <3>2 DEF BlocksUnmixed
  <2>6. QED
    BY <1>b, <2>3, <2>5 DEF UnmixedInv
<1>4. CASE Wait \/ PassTurn \/ UNCHANGED reblockVars
  <2>1. UNCHANGED <<reset, curId, curSeq, blocksData, toDecode>>
    BY <1>4 DEF Wait, PassTurn, reblockVars, windowVars
  <2>2. QED
    BY <1>a, <1>b, <2>1 DEF UnmixedInv, KeptInWindow, BlocksUnmixed
<1>5. CASE Timeout
  <2>1. toDecode' = toDecode /\ reset'
    BY <1>5, <1>a DEF Timeout, WindowInv, IgnoredIdsEmpty
  <2>2. QED
    BY <1>a, <1>b, <2>1 DEF UnmixedInv, KeptInWindow, BlocksUnmixed
<1>6. CASE Take
  <2>1. toDecode \in Seq(Reassembled \cup {SyncLost}) /\ toDecode # <<>>
    BY <1>6, <1>a DEF Take, TypeOK
  <2>2. toDecode' = Tail(toDecode) /\ UNCHANGED <<reset, curId, curSeq, blocksData>>
    BY <1>6 DEF Take, windowVars
  <2>3. \A i \in 1 .. Len(toDecode') :
          i + 1 \in 1 .. Len(toDecode) /\ toDecode'[i] = toDecode[i + 1]
    BY <2>1, <2>2, TailElements
  <2>4. BlocksUnmixed'
    BY <1>a, <2>3 DEF BlocksUnmixed
  <2>5. QED
    BY <1>a, <1>b, <2>2, <2>4 DEF UnmixedInv, KeptInWindow
<1>7. QED
  BY <1>1, <1>2, <1>3, <1>4, <1>5, <1>6 DEF NearNext, ReceiveAny

\* As long as every packet that reblock looks at is less than a turn of the ids
\* ahead of the current block, and behind it by no more than the ids out of the
\* window, no reassembled block mixes packets of two sender blocks.
THEOREM NearBlocksUnmixed == NearSpec => []BlocksUnmixed
<1>1. Init => UnmixedInv
  BY UnmixedInit
<1>2. UnmixedInv /\ [NearNext]_reblockVars => UnmixedInv'
  BY UnmixedStep
<1>3. UnmixedInv => BlocksUnmixed
  BY DEF UnmixedInv
<1>4. QED
  BY <1>1, <1>2, <1>3, PTL DEF NearSpec

\* While a window is open, what is kept for a block is of that block: the packets
\* under an id are of the block as far ahead of the current one as the id is.
THEOREM NearKeptInWindow == NearSpec => []KeptInWindow
<1>1. UnmixedInv => KeptInWindow
  BY DEF UnmixedInv
<1>2. QED
  BY <1>1, UnmixedInit, UnmixedStep, PTL DEF NearSpec

-----------------------------------------------------------------------------
(* The blocks handed over at the end of the link *)

\* Every packet that is anywhere, and every block handed over, was sent.
AllSent ==
  /\ nextBlk \in Nat
  /\ inFlight \subseteq Packets
  /\ \A p \in inFlight : p.blk < nextBlk
  /\ \A i \in 1 .. Len(batch) : batch[i].blk < nextBlk
  /\ \A id \in Ids : \A k \in 1 .. Len(blocksData[id]) : blocksData[id][k].blk < nextBlk
  /\ \A i \in 1 .. Len(handed) : handed[i] < nextBlk

\* The blocks handed over are behind the current one and, once a silence has
\* closed the window, behind everything that may open the next one.
HandedBehind ==
  /\ ~reset => \A i \in 1 .. Len(handed) : handed[i] < curSeq
  /\ reset => \A i \in 1 .. Len(handed) : \A p \in inFlight : handed[i] < p.blk

HandedInv == AllSent /\ HandedBehind /\ HandedIncreasing

\* A program that starts, on an empty link.
Fresh == Init /\ inFlight = {} /\ nextBlk \in Nat

LEMMA LinkInitIsFresh == LinkInit => Fresh
  BY DEF LinkInit, Fresh

LEMMA HandedInit == Fresh => HandedInv
<1> SUFFICES ASSUME Fresh PROVE HandedInv
  OBVIOUS
<1>1. /\ nextBlk \in Nat /\ inFlight = {} /\ reset = TRUE
      /\ batch = <<>> /\ handed = <<>> /\ blocksData = [id \in Ids |-> <<>>]
  BY DEF Fresh, Init
<1>2. \A id \in Ids : Len(blocksData[id]) = 0
  BY <1>1
<1>3. Len(batch) = 0 /\ Len(handed) = 0
  BY <1>1
<1>4. QED
  BY <1>1, <1>2, <1>3 DEF HandedInv, AllSent, HandedBehind, HandedIncreasing

\* The number of ids fits at least once more into the next block after a restart.
LEMMA RestartAhead ==
  ASSUME NEW n \in Nat
  PROVE  /\ (n \div IdModulus + 1) * IdModulus \in Nat
         /\ n < (n \div IdModulus + 1) * IdModulus
<1> DEFINE q == n \div IdModulus
           r == n % IdModulus
<1>1. n = (IdModulus * q) + r /\ r \in Ids /\ q \in Nat
  BY Euclid
<1> HIDE DEF q, r
<1>2. (q + 1) * IdModulus = (IdModulus * q) + IdModulus
  BY <1>1
<1>3. IdModulus * q \in Nat
  BY <1>1
<1>4. (q + 1) * IdModulus \in Nat /\ n < (q + 1) * IdModulus
  BY <1>1, <1>2, <1>3 DEF Ids
<1>5. QED
  BY <1>4 DEF q

\* Datagrams that the link delivers are packets that were on it.
LEMMA ArrivalsAreInFlight ==
  ASSUME NEW d \in Arrivals, inFlight \subseteq Packets
  PROVE  /\ d \in Datagrams
         /\ 1 \in 1 .. Len(d)
         /\ \A i \in 1 .. Len(d) : d[i] \in inFlight
<1>1. PICK n \in 1 .. MaxBatch : d \in [1 .. n -> inFlight]
  BY DEF Arrivals
<1>2. n \in Nat /\ n >= 1
  BY <1>1, ReblockLinkAssumption
<1>3. d \in Seq(Packets) /\ Len(d) = n
  BY <1>1, <1>2
<1>4. 1 \in 1 .. Len(d) /\ \A i \in 1 .. Len(d) : d[i] \in inFlight
  BY <1>1, <1>2, <1>3
<1>5. d # <<>>
  BY <1>2, <1>3
<1>6. QED
  BY <1>3, <1>4, <1>5 DEF Datagrams

\* A longer sequence of numbers still increases when what is appended is greater
\* than all there was.
LEMMA AppendIncreases ==
  ASSUME NEW s \in Seq(Nat), NEW x \in Nat,
         \A i, j \in 1 .. Len(s) : i < j => s[i] < s[j],
         \A i \in 1 .. Len(s) : s[i] < x
  PROVE  /\ \A i, j \in 1 .. Len(Append(s, x)) :
              i < j => Append(s, x)[i] < Append(s, x)[j]
         /\ \A i \in 1 .. Len(Append(s, x)) : Append(s, x)[i] < x + 1
<1> DEFINE t == Append(s, x)
<1>1. /\ Len(t) = Len(s) + 1 /\ Len(s) \in Nat
      /\ \A i \in 1 .. Len(s) : t[i] = s[i]
      /\ t[Len(s) + 1] = x
  BY AppendProperties, LenProperties
<1> HIDE DEF t
<1>2. \A i \in 1 .. Len(t) : i = Len(s) + 1 \/ i \in 1 .. Len(s)
  BY <1>1
<1>3. \A i \in 1 .. Len(s) : s[i] \in Nat
  BY ElementOfSeq
<1>4. \A i \in 1 .. Len(t) : t[i] < x + 1
  BY <1>1, <1>2, <1>3
<1>5. ASSUME NEW i \in 1 .. Len(t), NEW j \in 1 .. Len(t), i < j PROVE t[i] < t[j]
  <2>1. i \in 1 .. Len(s)
    BY <1>1, <1>5
  <2>2. CASE j = Len(s) + 1
    BY <1>1, <2>1, <2>2
  <2>3. CASE j \in 1 .. Len(s)
    BY <1>1, <1>5, <2>1, <2>3
  <2>4. QED
    BY <1>2, <2>2, <2>3
<1>6. QED
  BY <1>4, <1>5 DEF t

\* The steps of the link without its bounds on them: the decoders may be behind,
\* and take turns.
LinkStep ==
  \/ SendPackets \/ SenderRestarts \/ Deliver
  \/ (Push \/ Advance \/ Wait \/ SilentTimeout \/ Take \/ PassTurn) /\ UNCHANGED linkVars

LEMMA LinkNextIsStep == [LinkNext]_vars => [LinkStep]_vars
  BY DEF LinkNext, LinkStep, PushNear

LEMMA HandedStep ==
  ASSUME Timely, UnmixedInv, HandedInv, [LinkStep]_vars
  PROVE  HandedInv'
<1>a. /\ TypeOK /\ KeptInWindow /\ (pc # "recv" => ~reset)
      /\ AllSent /\ HandedBehind /\ HandedIncreasing
  BY DEF UnmixedInv, WindowInv, HandedInv
<1>b. /\ nextBlk \in Nat /\ inFlight \subseteq Packets
      /\ \A i \in 1 .. Len(handed) : handed[i] < nextBlk /\ handed[i] \in Nat
      /\ blocksData \in [Ids -> Seq(Packets)] /\ curId \in Ids /\ curSeq \in Nat
      /\ batch \in Seq(Packets) /\ handed \in Seq(Nat)
  <2>1. handed \in Seq(Nat)
    BY <1>a DEF TypeOK
  <2>2. \A i \in 1 .. Len(handed) : handed[i] \in Nat
    BY <2>1, ElementOfSeq
  <2>3. QED
    BY <1>a, <2>2 DEF AllSent, TypeOK
<1>1. CASE SendPackets
  <2>1. /\ nextBlk' = nextBlk + 1
        /\ UNCHANGED <<batch, reset, curSeq, blocksData, handed>>
    BY <1>1 DEF SendPackets, reblockVars, windowVars
  <2>2. PICK lost \in SUBSET Symbols :
          inFlight' = inFlight \cup [blk : {nextBlk}, sym : Symbols \ lost]
    BY <1>1 DEF SendPackets
  <2>3. \A p \in inFlight' : p \in Packets /\ (p \in inFlight \/ p.blk = nextBlk)
    BY <1>b, <2>2 DEF Packets
  <2>4. /\ \A p \in inFlight' : p.blk \in Nat /\ p.blk < nextBlk'
        /\ \A i \in 1 .. Len(batch) : batch[i].blk < nextBlk'
        /\ \A i \in 1 .. Len(handed) : handed[i] < nextBlk'
    <3>1. \A p \in inFlight' : p.blk \in Nat
      BY <2>3 DEF Packets
    <3>2. \A i \in 1 .. Len(batch) : batch[i].blk \in Nat
      BY <1>b, ElementOfSeq, PacketIdType
    <3>3. ASSUME NEW p \in inFlight' PROVE p.blk < nextBlk'
      BY <1>a, <1>b, <2>1, <2>3, <3>1 DEF AllSent
    <3>4. ASSUME NEW i \in 1 .. Len(batch) PROVE batch[i].blk < nextBlk'
      BY <1>a, <1>b, <2>1, <3>2 DEF AllSent
    <3>5. ASSUME NEW i \in 1 .. Len(handed) PROVE handed[i] < nextBlk'
      BY <1>b, <2>1
    <3>6. QED
      BY <3>1, <3>3, <3>4, <3>5
  <2>5. ASSUME NEW id \in Ids, NEW k \in 1 .. Len(blocksData[id])
        PROVE  blocksData[id][k].blk < nextBlk'
    <3>1. blocksData[id][k] \in Packets
      BY <1>b, ElementOfSeq
    <3>2. QED
      BY <1>a, <1>b, <2>1, <3>1, PacketIdType DEF AllSent
  <2>6. reset => \A i \in 1 .. Len(handed) : \A p \in inFlight' : handed[i] < p.blk
    BY <1>a, <1>b, <2>3 DEF HandedBehind
  <2>7. inFlight' \subseteq Packets /\ nextBlk' \in Nat
    BY <1>b, <2>1, <2>3
  <2>8. AllSent' /\ HandedBehind' /\ HandedIncreasing'
    BY <1>a, <2>1, <2>4, <2>5, <2>6, <2>7 DEF AllSent, HandedBehind, HandedIncreasing
  <2>9. QED
    BY <2>8 DEF HandedInv
<1>2. CASE SenderRestarts
  <2>1. /\ inFlight = {} /\ UNCHANGED <<inFlight, batch, reset, curSeq, blocksData, handed>>
        /\ nextBlk' = (nextBlk \div IdModulus + 1) * IdModulus
    BY <1>2 DEF SenderRestarts, reblockVars, windowVars
  <2>2. nextBlk' \in Nat /\ nextBlk < nextBlk'
    BY <1>b, <2>1, RestartAhead
  <2>3. /\ \A i \in 1 .. Len(batch) : batch[i].blk < nextBlk'
        /\ \A i \in 1 .. Len(handed) : handed[i] < nextBlk'
    <3>1. \A i \in 1 .. Len(batch) : batch[i].blk \in Nat
      BY <1>b, ElementOfSeq, PacketIdType
    <3>2. QED
      BY <1>a, <1>b, <2>2, <3>1 DEF AllSent
  <2>4. ASSUME NEW id \in Ids, NEW k \in 1 .. Len(blocksData[id])
        PROVE  blocksData[id][k].blk < nextBlk'
    <3>1. blocksData[id][k] \in Packets
      BY <1>b, ElementOfSeq
    <3>2. blocksData[id][k].blk \in Nat /\ blocksData[id][k].blk < nextBlk
      BY <1>a, <2>4, <3>1, PacketIdType DEF AllSent
    <3>3. QED
      BY <1>b, <2>2, <3>2
  <2>5. AllSent' /\ HandedBehind' /\ HandedIncreasing'
    BY <1>a, <2>1, <2>2, <2>3, <2>4 DEF AllSent, HandedBehind, HandedIncreasing
  <2>6. QED
    BY <2>5 DEF HandedInv
<1>3. CASE Deliver
  <2>1. PICK d \in Arrivals :
          /\ Receive(d)
          /\ inFlight' \subseteq inFlight
          /\ UNCHANGED nextBlk
    BY <1>3 DEF Deliver
  <2>2. /\ d \in Datagrams /\ 1 \in 1 .. Len(d)
        /\ \A i \in 1 .. Len(d) : d[i] \in inFlight
    BY <1>b, <2>1, ArrivalsAreInFlight
  <2>3. /\ batch' = d /\ ~reset' /\ handed' = handed
        /\ reset => curSeq' = d[1].blk /\ blocksData' = [id \in Ids |-> <<>>]
        /\ ~reset => UNCHANGED <<curSeq, blocksData>>
    BY <2>1 DEF Receive, StartWindow
  <2>4. \A i \in 1 .. Len(handed) : handed[i] < curSeq'
    BY <1>a, <2>2, <2>3 DEF HandedBehind
  <2>5. \A id \in Ids : \A k \in 1 .. Len(blocksData'[id]) : blocksData'[id][k].blk < nextBlk
    <3>1. CASE reset
      <4>1. \A id \in Ids : Len(blocksData'[id]) = 0
        BY <2>3, <3>1
      <4>2. QED
        BY <4>1
    <3>2. CASE ~reset
      BY <1>a, <2>3, <3>2 DEF AllSent
    <3>3. QED
      BY <3>1, <3>2
  <2>6. AllSent' /\ HandedBehind' /\ HandedIncreasing'
    BY <1>a, <2>1, <2>2, <2>3, <2>4, <2>5 DEF AllSent, HandedBehind, HandedIncreasing
  <2>7. QED
    BY <2>6 DEF HandedInv
<1>4. CASE Push /\ UNCHANGED linkVars
  <2> DEFINE id == PacketId(Head(batch))
  <2>1. /\ batch # <<>> /\ batch' = Tail(batch)
        /\ UNCHANGED <<nextBlk, inFlight, reset, curSeq, handed>>
        /\ \/ blocksData' = blocksData
           \/ blocksData' = [blocksData EXCEPT ![id] = Append(blocksData[id], Head(batch))]
    BY <1>4, <1>a DEF Push, TypeOK, linkVars
  <2>2. /\ Head(batch) = batch[1] /\ 1 \in 1 .. Len(batch)
        /\ Head(batch) \in Packets /\ id \in Ids
    <3>1. Len(batch) \in Nat /\ Len(batch) # 0
      BY <1>b, <2>1, LenProperties, EmptySeq
    <3>2. QED
      BY <1>b, <2>1, <3>1, HeadTailProperties, PacketIdType
  <2>3. Head(batch).blk < nextBlk
    BY <1>a, <2>2 DEF AllSent
  <2>4. \A i \in 1 .. Len(batch') : batch'[i].blk < nextBlk
    BY <1>a, <1>b, <2>1, TailElements DEF AllSent
  <2> HIDE DEF id
  <2>5. ASSUME NEW other \in Ids, NEW k \in 1 .. Len(blocksData'[other])
        PROVE  blocksData'[other][k].blk < nextBlk
    <3>1. CASE blocksData'[other] = blocksData[other]
      BY <1>a, <2>5, <3>1 DEF AllSent
    <3>2. CASE blocksData'[other] # blocksData[other]
      <4>1. /\ other = id /\ blocksData[other] \in Seq(Packets)
            /\ blocksData'[other] = Append(blocksData[other], Head(batch))
        BY <1>b, <2>1, <2>2, <3>2
      <4>2. /\ Len(blocksData'[other]) = Len(blocksData[other]) + 1
            /\ Len(blocksData[other]) \in Nat
            /\ \A j \in 1 .. Len(blocksData[other]) : blocksData'[other][j] = blocksData[other][j]
            /\ blocksData'[other][Len(blocksData[other]) + 1] = Head(batch)
        BY <2>2, <4>1, AppendProperties, LenProperties
      <4>3. CASE k = Len(blocksData[other]) + 1
        BY <2>3, <4>2, <4>3
      <4>4. CASE k # Len(blocksData[other]) + 1
        <5>1. k \in 1 .. Len(blocksData[other])
          BY <2>5, <4>2, <4>4
        <5>2. QED
          BY <1>a, <4>2, <5>1 DEF AllSent
      <4>5. QED
        BY <4>3, <4>4
    <3>3. QED
      BY <3>1, <3>2
  <2>6. AllSent' /\ HandedBehind' /\ HandedIncreasing'
    BY <1>a, <2>1, <2>4, <2>5 DEF AllSent, HandedBehind, HandedIncreasing
  <2>7. QED
    BY <2>6 DEF HandedInv
<1>5. CASE Advance /\ UNCHANGED linkVars
  <2>1. /\ curSeq' = curSeq + 1 /\ ~reset /\ ~reset'
        /\ blocksData' = [blocksData EXCEPT ![curId] = <<>>]
    BY <1>5, AdvancedWindow DEF UnmixedInv
  <2>2. /\ UNCHANGED <<batch, nextBlk, inFlight>>
        /\ handed' = Append(handed, curSeq)
        /\ CurrentReady
    BY <1>5 DEF Advance, linkVars
  <2>3. curSeq < nextBlk
    <3>1. blocksData[curId] \in Seq(Packets) /\ Len(blocksData[curId]) \in Nat
      BY <1>b, LenProperties
    <3>2. 1 \in 1 .. Len(blocksData[curId])
      BY <2>2, <3>1 DEF CurrentReady
    <3>3. blocksData[curId][1].blk = curSeq + Ahead(curId, curId)
      BY <1>a, <1>b, <2>1, <3>2 DEF KeptInWindow
    <3>4. blocksData[curId][1].blk < nextBlk
      BY <1>a, <1>b, <3>2 DEF AllSent
    <3>5. QED
      BY <1>b, <3>3, <3>4, AheadSelf
  <2>4. \A i \in 1 .. Len(handed) : handed[i] < curSeq
    BY <1>a, <2>1 DEF HandedBehind
  <2>5. /\ HandedIncreasing'
        /\ \A i \in 1 .. Len(handed') : handed'[i] < curSeq'
    BY <1>a, <1>b, <2>1, <2>2, <2>4, AppendIncreases DEF HandedIncreasing
  <2>6. \A i \in 1 .. Len(handed') : handed'[i] < nextBlk
    <3>1. \A i \in 1 .. Len(handed') : handed'[i] \in Nat
      BY <1>b, <2>2, AppendProperties, ElementOfSeq
    <3>2. QED
      BY <1>b, <2>1, <2>3, <2>5, <3>1
  <2>7. ASSUME NEW id \in Ids, NEW k \in 1 .. Len(blocksData'[id])
        PROVE  blocksData'[id][k].blk < nextBlk
    <3>1. id # curId /\ blocksData'[id] = blocksData[id]
      BY <1>b, <2>1, <2>7
    <3>2. QED
      BY <1>a, <2>7, <3>1 DEF AllSent
  <2>8. AllSent' /\ HandedBehind'
    BY <1>a, <2>1, <2>2, <2>5, <2>6, <2>7 DEF AllSent, HandedBehind
  <2>9. QED
    BY <2>5, <2>8 DEF HandedInv
<1>6. CASE SilentTimeout /\ UNCHANGED linkVars
  <2>1. inFlight = {} /\ UNCHANGED <<batch, nextBlk, inFlight, blocksData, handed>> /\ reset'
    BY <1>6 DEF SilentTimeout, Timeout, linkVars
  <2>2. QED
    BY <1>a, <2>1 DEF HandedInv, AllSent, HandedBehind, HandedIncreasing
<1>7. CASE \/ (Wait \/ Take \/ PassTurn) /\ UNCHANGED linkVars
           \/ UNCHANGED vars
  <2>1. UNCHANGED <<batch, nextBlk, inFlight, reset, curSeq, blocksData, handed>>
    BY <1>7 DEF Wait, Take, PassTurn, vars, linkVars, reblockVars, windowVars
  <2>2. QED
    BY <1>a, <2>1 DEF HandedInv, AllSent, HandedBehind, HandedIncreasing
<1>8. QED
  BY <1>1, <1>2, <1>3, <1>4, <1>5, <1>6, <1>7 DEF LinkStep

\* When no packet is on its way for as long as reset_timeout, and the packets that
\* reblock looks at are near the current block, the blocks it hands over have
\* increasing numbers: whatever the link loses, duplicates and reorders, however
\* often reblock resets and the sender restarts, no block is decoded twice and
\* none is decoded late.
THEOREM ReblockNeverGoesBack ==
  Timely => (LinkSpec /\ [][NearNext]_reblockVars => []HandedIncreasing)
<1> SUFFICES ASSUME Timely
             PROVE  LinkSpec /\ [][NearNext]_reblockVars => []HandedIncreasing
  OBVIOUS
<1>1. LinkInit => UnmixedInv /\ HandedInv
  BY UnmixedInit, HandedInit, LinkInitIsFresh DEF LinkInit
<1>2. UnmixedInv /\ HandedInv /\ [LinkNext]_vars /\ [NearNext]_reblockVars
        => UnmixedInv' /\ HandedInv'
  BY UnmixedStep, HandedStep, LinkNextIsStep
<1>3. HandedInv => HandedIncreasing
  BY DEF HandedInv
<1>4. QED
  BY <1>1, <1>2, <1>3, PTL DEF LinkSpec

-----------------------------------------------------------------------------
(* A link that loses nothing stays near: NearNext need not be assumed *)

Kept(p) ==
  \E k \in 1 .. Len(blocksData[PacketId(p)]) : blocksData[PacketId(p)][k] = p

OnItsWay(p) == p \in inFlight \/ \E i \in 1 .. Len(batch) : batch[i] = p

PacketOf(b, s) == [blk |-> b, sym |-> s]

\* No packet on the link is MaxSkew blocks behind the sender, and none of the
\* packets being sorted is further than MaxSkew from the current block.
Skewed ==
  /\ \A p \in inFlight : nextBlk <= p.blk + MaxSkew
  /\ \A i \in 1 .. Len(batch) :
       batch[i].blk < curSeq + MaxSkew /\ curSeq <= batch[i].blk + MaxSkew

\* From the current block on, every packet sent is on its way or kept; the block
\* that opens the next window is still complete on the link.
NothingMissing ==
  /\ ~reset => /\ curSeq <= nextBlk
               /\ \A b \in curSeq .. nextBlk - 1 : \A s \in Symbols :
                    OnItsWay(PacketOf(b, s)) \/ Kept(PacketOf(b, s))
  /\ reset => \A p \in inFlight : \A b \in p.blk .. nextBlk - 1 : \A s \in Symbols :
                PacketOf(b, s) \in inFlight
  /\ pc = "recv" /\ ~reset => ~CurrentReady

NearInv == UnmixedInv /\ HandedInv /\ Skewed /\ NothingMissing

LEMMA PacketOfType ==
  ASSUME NEW b \in Nat, NEW s \in Symbols
  PROVE  PacketOf(b, s) \in Packets /\ PacketOf(b, s).blk = b /\ PacketOf(b, s).sym = s
  BY DEF PacketOf, Packets

\* When all symbols of a block are kept, there are at least MinPackets packets.
LEMMA AllKeptIsReady ==
  ASSUME NEW q \in Seq(Packets), NEW b \in Nat,
         \A s \in Symbols : \E k \in 1 .. Len(q) : q[k] = PacketOf(b, s)
  PROVE  Len(q) >= MinPackets
<1> DEFINE f == [k \in 1 .. Len(q) |-> q[k].sym]
<1>1. Len(q) \in Nat /\ \A k \in 1 .. Len(q) : q[k].sym \in Symbols
  <2>1. \A k \in 1 .. Len(q) : q[k] \in Packets
    BY ElementOfSeq
  <2>2. \A p \in Packets : p.sym \in Symbols
    BY DEF Packets
  <2>3. QED
    BY <2>1, <2>2, LenProperties
<1>2. f \in [1 .. Len(q) -> Symbols]
  BY <1>1
<1>3. ASSUME NEW s \in Symbols PROVE \E k \in 1 .. Len(q) : f[k] = s
  <2>1. PICK k \in 1 .. Len(q) : q[k] = PacketOf(b, s)
    OBVIOUS
  <2>2. f[k] = s
    BY <2>1, PacketOfType
  <2>3. QED
    BY <2>2
<1>4. f \in Surjection(1 .. Len(q), Symbols)
  BY <1>2, <1>3 DEF Surjection
<1>5. ExistsSurjection(1 .. Len(q), Symbols)
  BY <1>4 DEF ExistsSurjection
<1>6. Cardinality(Symbols) <= Len(q)
  BY <1>1, <1>5, FS_SurjCardinalityBound
<1>7. Cardinality(Symbols) \in Nat /\ MinPackets <= Cardinality(Symbols)
  BY ReblockLinkAssumption, FS_CardinalityType
<1>8. QED
  BY <1>1, <1>6, <1>7

LEMMA NearInit == Fresh => NearInv
<1> SUFFICES ASSUME Fresh PROVE NearInv
  OBVIOUS
<1>1. UnmixedInv /\ HandedInv
  BY UnmixedInit, HandedInit DEF Fresh
<1>2. inFlight = {} /\ batch = <<>> /\ reset = TRUE
  BY DEF Fresh, Init
<1>3. QED
  BY <1>1, <1>2 DEF NearInv, Skewed, NothingMissing

\* While reblock waits for datagrams, a packet of the current block is still on the
\* link, unless the sender has not sent the block.
LEMMA CurrentOnItsWay ==
  ASSUME NearInv, pc = "recv", ~reset
  PROVE  /\ curSeq \in Nat /\ nextBlk \in Nat /\ curSeq <= nextBlk
         /\ curSeq # nextBlk => \E s \in Symbols : PacketOf(curSeq, s) \in inFlight
<1>1. /\ curSeq \in Nat /\ nextBlk \in Nat /\ curId \in Ids /\ curId = IdOf(curSeq)
      /\ blocksData \in [Ids -> Seq(Packets)] /\ batch = <<>>
      /\ curSeq <= nextBlk /\ ~CurrentReady
  BY DEF NearInv, UnmixedInv, WindowInv, TypeOK, WindowFollowsCurrent, HandedInv,
         AllSent, NothingMissing
<1>2. SUFFICES ASSUME curSeq # nextBlk
               PROVE  \E s \in Symbols : PacketOf(curSeq, s) \in inFlight
  BY <1>1
<1>3. curSeq \in curSeq .. nextBlk - 1
  BY <1>1, <1>2
<1>4. ~ \A s \in Symbols : Kept(PacketOf(curSeq, s))
  <2> SUFFICES ASSUME \A s \in Symbols : Kept(PacketOf(curSeq, s)) PROVE FALSE
    OBVIOUS
  <2>1. \A s \in Symbols : PacketId(PacketOf(curSeq, s)) = curId
    BY <1>1, PacketOfType DEF PacketId
  <2>2. \A s \in Symbols : \E k \in 1 .. Len(blocksData[curId]) :
          blocksData[curId][k] = PacketOf(curSeq, s)
    BY <2>1 DEF Kept
  <2>3. Len(blocksData[curId]) >= MinPackets
    BY <1>1, <2>2, AllKeptIsReady
  <2>4. QED
    BY <1>1, <2>3 DEF CurrentReady
<1>5. PICK s \in Symbols : ~Kept(PacketOf(curSeq, s))
  BY <1>4
<1>6. OnItsWay(PacketOf(curSeq, s))
  BY <1>3, <1>5 DEF NearInv, NothingMissing
<1>7. QED
  BY <1>1, <1>6 DEF OnItsWay

\* So the sender is at most MaxSkew blocks ahead of it.
LEMMA SenderNotFarAhead ==
  ASSUME NearInv, pc = "recv", ~reset
  PROVE  nextBlk <= curSeq + MaxSkew /\ curSeq <= nextBlk
<1>1. curSeq \in Nat /\ nextBlk \in Nat /\ curSeq <= nextBlk /\ MaxSkew \in Nat
  BY CurrentOnItsWay, ReblockLinkAssumption
<1>2. CASE curSeq = nextBlk
  BY <1>1, <1>2
<1>3. CASE curSeq # nextBlk
  <2>1. PICK s \in Symbols : PacketOf(curSeq, s) \in inFlight
    BY <1>3, CurrentOnItsWay
  <2>2. PacketOf(curSeq, s).blk = curSeq
    BY <1>1, PacketOfType
  <2>3. QED
    BY <1>1, <2>1, <2>2 DEF NearInv, Skewed
<1>4. QED
  BY <1>2, <1>3

\* So every packet that is pushed is near.
LEMMA PushedIsNear ==
  ASSUME NearInv, pc = "push", MaxSkew <= WindowWidth
  PROVE  Near(Head(batch))
<1>1. /\ batch \in Seq(Packets) /\ batch # <<>> /\ curSeq \in Nat
  BY DEF NearInv, UnmixedInv, WindowInv, TypeOK
<1>2. Head(batch) = batch[1] /\ 1 \in 1 .. Len(batch) /\ Head(batch).blk \in Nat
  <2>1. Len(batch) \in Nat /\ Len(batch) # 0
    BY <1>1, LenProperties, EmptySeq
  <2>2. Head(batch) = batch[1] /\ Head(batch) \in Packets
    BY <1>1, HeadTailProperties
  <2>3. QED
    BY <2>1, <2>2, PacketIdType
<1>3. Head(batch).blk < curSeq + MaxSkew /\ curSeq <= Head(batch).blk + MaxSkew
  BY <1>2 DEF NearInv, Skewed
<1>4. MaxSkew <= IdModulus /\ MaxSkew <= IdModulus - WindowWidth /\ MaxSkew \in Nat
  BY WindowWidthRange, ReblockLinkAssumption DEF Ids
<1>5. WindowWidth \in Nat
  BY WindowWidthRange DEF Ids
<1>6. QED
  BY <1>1, <1>2, <1>3, <1>4, <1>5 DEF Near

LEMMA LinkStepIsNear ==
  ASSUME NearInv, [LinkStep]_vars, MaxSkew <= WindowWidth
  PROVE  [NearNext]_reblockVars
<1>1. CASE Deliver
  <2>1. PICK d \in Arrivals : Receive(d)
    BY <1>1 DEF Deliver
  <2>2. d \in Datagrams
    BY <2>1, ArrivalsAreInFlight DEF NearInv, HandedInv, AllSent
  <2>3. batch' = d
    BY <2>1 DEF Receive
  <2>4. ReceiveAny
    BY <2>1, <2>2, <2>3 DEF ReceiveAny
  <2>5. QED
    BY <2>4 DEF NearNext
<1>2. CASE Push
  <2>1. Near(Head(batch))
    BY <1>2, PushedIsNear DEF Push
  <2>2. QED
    BY <1>2, <2>1 DEF NearNext
<1>3. CASE Advance \/ Wait \/ SilentTimeout \/ Take \/ PassTurn
  BY <1>3 DEF NearNext, SilentTimeout
<1>4. CASE SendPackets \/ SenderRestarts \/ UNCHANGED vars
  BY <1>4 DEF SendPackets, SenderRestarts, vars
<1>5. QED
  BY <1>1, <1>2, <1>3, <1>4 DEF LinkStep

\* Pushing keeps every packet from the current block on: it moves from the batch
\* to the packets of its id, which is in the window.
LEMMA PushKeeps ==
  ASSUME NearInv, Push, MaxSkew <= WindowWidth, UNCHANGED linkVars,
         NEW b \in curSeq .. nextBlk - 1, NEW s \in Symbols
  PROVE  OnItsWay(PacketOf(b, s))' \/ Kept(PacketOf(b, s))'
<1> DEFINE p == PacketOf(b, s)
           q == Head(batch)
<1>1. /\ batch \in Seq(Packets) /\ batch # <<>> /\ batch' = Tail(batch)
      /\ curSeq \in Nat /\ nextBlk \in Nat /\ curId \in Ids /\ curId = IdOf(curSeq) /\ ~reset
      /\ blocksData \in [Ids -> Seq(Packets)]
      /\ UNCHANGED <<inFlight, nextBlk, curSeq>>
      /\ blocksData' = IF blocksIgnore[PacketId(q)] THEN blocksData
                       ELSE [blocksData EXCEPT ![PacketId(q)] = Append(@, q)]
      /\ \A id \in Ids : blocksIgnore[id] <=> ~InWindow(curId, id)
  BY DEF NearInv, UnmixedInv, WindowInv, TypeOK, WindowFollowsCurrent, HandedInv,
         AllSent, Push, linkVars
<1>2. b \in Nat /\ p \in Packets /\ p.blk = b /\ PacketId(p) = IdOf(b) /\ PacketId(p) \in Ids
  <2>1. b \in Nat
    BY <1>1
  <2>2. p \in Packets /\ p.blk = b
    BY <2>1, PacketOfType
  <2>3. QED
    BY <2>1, <2>2, PacketIdType DEF PacketId
<1>3. q \in Packets /\ PacketId(q) \in Ids /\ q = batch[1] /\ Len(batch) \in Nat
  BY <1>1, HeadTailProperties, PacketIdType, LenProperties
<1>4. OnItsWay(p) \/ Kept(p)
  BY <1>1 DEF NearInv, NothingMissing
<1> HIDE DEF p, q
<1>5. CASE p \in inFlight
  BY <1>1, <1>5 DEF OnItsWay, p
<1>6. CASE p = q
  <2>1. b - curSeq \in Nat /\ b - curSeq < MaxSkew /\ b = curSeq + (b - curSeq)
    <3>1. 1 \in 1 .. Len(batch)
      BY <1>1, <1>3, EmptySeq
    <3>2. batch[1].blk < curSeq + MaxSkew
      BY <3>1 DEF NearInv, Skewed
    <3>3. MaxSkew \in Nat
      BY ReblockLinkAssumption
    <3>4. QED
      BY <1>1, <1>2, <1>3, <1>6, <3>2, <3>3
  <2>2. b - curSeq \in Ids /\ b - curSeq < WindowWidth
    BY <2>1, WindowWidthRange, ReblockLinkAssumption DEF Ids
  <2>3. Ahead(curId, PacketId(p)) = b - curSeq
    BY <1>1, <1>2, <2>1, <2>2, AheadOfNumbers
  <2>4. ~blocksIgnore[PacketId(p)]
    BY <1>1, <1>2, <2>2, <2>3 DEF InWindow
  <2>5. /\ blocksData'[PacketId(p)] = Append(blocksData[PacketId(p)], p)
        /\ blocksData[PacketId(p)] \in Seq(Packets)
    BY <1>1, <1>2, <1>6, <2>4
  <2>6. /\ Len(blocksData'[PacketId(p)]) = Len(blocksData[PacketId(p)]) + 1
        /\ blocksData'[PacketId(p)][Len(blocksData[PacketId(p)]) + 1] = p
        /\ Len(blocksData[PacketId(p)]) \in Nat
    BY <1>2, <2>5, AppendProperties, LenProperties
  <2>7. \E k \in 1 .. Len(blocksData'[PacketId(p)]) : blocksData'[PacketId(p)][k] = p
    BY <2>6
  <2>8. QED
    BY <2>7 DEF Kept, p, PacketId, PacketOf
<1>7. CASE p # q /\ \E i \in 1 .. Len(batch) : batch[i] = p
  <2>1. PICK i \in 1 .. Len(batch) : batch[i] = p
    BY <1>7
  <2>2. i # 1
    BY <1>3, <1>7, <2>1
  <2>3. /\ Len(batch') = Len(batch) - 1
        /\ \A j \in 1 .. Len(batch') : batch'[j] = batch[j + 1]
    BY <1>1, HeadTailProperties
  <2>4. i - 1 \in 1 .. Len(batch') /\ batch'[i - 1] = p
    BY <1>3, <2>1, <2>2, <2>3
  <2>5. QED
    BY <2>4 DEF OnItsWay, p
<1>8. CASE Kept(p)
  <2>1. PICK k \in 1 .. Len(blocksData[PacketId(p)]) : blocksData[PacketId(p)][k] = p
    BY <1>8 DEF Kept
  <2>2. blocksData[PacketId(p)] \in Seq(Packets) /\ Len(blocksData[PacketId(p)]) \in Nat
    BY <1>1, <1>2, LenProperties
  <2>3. \/ blocksData'[PacketId(p)] = blocksData[PacketId(p)]
        \/ blocksData'[PacketId(p)] = Append(blocksData[PacketId(p)], q)
    BY <1>1, <1>2, <1>3
  <2>4. \E j \in 1 .. Len(blocksData'[PacketId(p)]) : blocksData'[PacketId(p)][j] = p
    <3>1. CASE blocksData'[PacketId(p)] = blocksData[PacketId(p)]
      BY <2>1, <3>1
    <3>2. CASE blocksData'[PacketId(p)] = Append(blocksData[PacketId(p)], q)
      <4>1. /\ Len(blocksData'[PacketId(p)]) = Len(blocksData[PacketId(p)]) + 1
            /\ blocksData'[PacketId(p)][k] = blocksData[PacketId(p)][k]
        BY <1>3, <2>1, <2>2, <3>2, AppendProperties
      <4>2. k \in 1 .. Len(blocksData'[PacketId(p)])
        BY <2>1, <2>2, <4>1
      <4>3. QED
        BY <2>1, <4>1, <4>2
    <3>3. QED
      BY <2>3, <3>1, <3>2
  <2>5. QED
    BY <2>4 DEF Kept, p, PacketId, PacketOf
<1>9. QED
  BY <1>4, <1>5, <1>6, <1>7, <1>8 DEF OnItsWay

\* A packet x and the current block c, both at most m blocks behind the sender n,
\* are at most m blocks apart.
LEMMA SkewChain ==
  ASSUME NEW x \in Nat, NEW c \in Nat, NEW n \in Nat, NEW m \in Nat,
         x < n, n <= x + m, c <= n, n <= c + m
  PROVE  x < c + m /\ c <= x + m
  OBVIOUS

LEMMA NearInvStep ==
  ASSUME Timely, MaxSkew <= WindowWidth, LosesNothing, NearInv, [LinkStep]_vars
  PROVE  NearInv'
<1>a. /\ UnmixedInv /\ HandedInv /\ Skewed /\ NothingMissing
      /\ nextBlk \in Nat /\ inFlight \subseteq Packets /\ curSeq \in Nat /\ curId \in Ids
      /\ batch \in Seq(Packets) /\ (pc = "push" <=> batch # <<>>) /\ (pc # "recv" => ~reset)
      /\ blocksData \in [Ids -> Seq(Packets)] /\ MaxSkew \in Nat \ {0}
  BY ReblockLinkAssumption DEF NearInv, UnmixedInv, WindowInv, TypeOK, HandedInv, AllSent
<1>b. UnmixedInv' /\ HandedInv'
  BY <1>a, LinkStepIsNear, UnmixedStep, HandedStep
<1>c. \A p \in inFlight : p.blk \in Nat /\ p.blk < nextBlk /\ nextBlk <= p.blk + MaxSkew
  BY <1>a, PacketIdType DEF HandedInv, AllSent, Skewed
<1>1. CASE SendPackets
  <2>1. /\ nextBlk' = nextBlk + 1 /\ \A p \in inFlight : nextBlk < p.blk + MaxSkew
        /\ UNCHANGED <<pc, batch, reset, curSeq, curId, blocksData>>
    BY <1>1 DEF SendPackets, KeepsSkew, reblockVars, windowVars
  <2>2. inFlight' = inFlight \cup [blk : {nextBlk}, sym : Symbols]
    BY <1>1 DEF SendPackets, LosesNothing
  <2>3. \A s \in Symbols : PacketOf(nextBlk, s) \in inFlight'
    BY <2>2 DEF PacketOf
  <2>4. \A p \in inFlight' : p \in inFlight \/ p.blk = nextBlk
    BY <2>2
  <2>5. Skewed'
    BY <1>a, <1>c, <2>1, <2>4 DEF Skewed
  <2>6. \A p : OnItsWay(p) => OnItsWay(p)'
    BY <2>1, <2>2 DEF OnItsWay
  <2>7. \A p : Kept(p) => Kept(p)'
    BY <2>1 DEF Kept, PacketId
  <2>8. CASE reset
    <3>1. ASSUME NEW p \in inFlight', NEW b \in p.blk .. nextBlk' - 1, NEW s \in Symbols
          PROVE  PacketOf(b, s) \in inFlight'
      <4>1. CASE b = nextBlk
        BY <2>3, <4>1
      <4>2. CASE b # nextBlk
        <5>1. p \in inFlight /\ b \in p.blk .. nextBlk - 1
          BY <1>a, <1>c, <2>1, <2>4, <3>1, <4>2
        <5>2. PacketOf(b, s) \in inFlight
          BY <1>a, <2>8, <5>1 DEF NothingMissing
        <5>3. QED
          BY <2>2, <5>2
      <4>3. QED
        BY <4>1, <4>2
    <3>2. NothingMissing'
      BY <2>1, <2>8, <3>1 DEF NothingMissing, PacketOf
    <3>3. QED
      BY <1>b, <2>5, <3>2 DEF NearInv
  <2>9. CASE ~reset
    <3>1. ASSUME NEW b \in curSeq' .. nextBlk' - 1, NEW s \in Symbols
          PROVE  OnItsWay(PacketOf(b, s))' \/ Kept(PacketOf(b, s))'
      <4>1. CASE b = nextBlk
        BY <2>3, <4>1 DEF OnItsWay, PacketOf
      <4>2. CASE b # nextBlk
        <5>1. b \in curSeq .. nextBlk - 1
          BY <1>a, <2>1, <3>1, <4>2
        <5>2. OnItsWay(PacketOf(b, s)) \/ Kept(PacketOf(b, s))
          BY <1>a, <2>9, <5>1 DEF NothingMissing
        <5>3. QED
          BY <2>6, <2>7, <5>2 DEF PacketOf
      <4>3. QED
        BY <4>1, <4>2
    <3>2. curSeq' <= nextBlk'
      BY <1>a, <2>1, <2>9 DEF NothingMissing
    <3>3. NothingMissing'
      BY <1>a, <2>1, <2>9, <3>1, <3>2 DEF NothingMissing, PacketOf, CurrentReady
    <3>4. QED
      BY <1>b, <2>5, <3>3 DEF NearInv
  <2>10. QED
    BY <2>8, <2>9, <1>a DEF UnmixedInv, WindowInv, TypeOK
<1>2. CASE SenderRestarts
  <2>1. inFlight' = {} /\ reset' /\ batch' = batch /\ batch = <<>>
    BY <1>2, <1>a DEF SenderRestarts, reblockVars, windowVars
  <2>2. Skewed' /\ NothingMissing'
    BY <2>1 DEF Skewed, NothingMissing
  <2>3. QED
    BY <1>b, <2>2 DEF NearInv
<1>3. CASE Deliver
  <2>1. PICK d \in Arrivals :
          /\ Receive(d)
          /\ inFlight \subseteq inFlight' \cup {d[i] : i \in 1 .. Len(d)}
          /\ inFlight' \subseteq inFlight
          /\ nextBlk' = nextBlk
    <3>1. PICK d \in Arrivals :
            /\ Receive(d)
            /\ \/ inFlight' = inFlight \ {d[i] : i \in DOMAIN d}
               \/ \E again \in {d[i] : i \in DOMAIN d} :
                    inFlight' = inFlight \ ({d[i] : i \in DOMAIN d} \ {again})
            /\ nextBlk' = nextBlk
      BY <1>3 DEF Deliver
    <3>2. DOMAIN d = 1 .. Len(d)
      BY <1>a, ArrivalsAreInFlight DEF Datagrams
    <3>3. QED
      BY <3>1, <3>2
  <2>2. /\ d \in Datagrams /\ 1 \in 1 .. Len(d)
        /\ \A i \in 1 .. Len(d) : d[i] \in inFlight
    BY <1>a, <2>1, ArrivalsAreInFlight
  <2>3. /\ pc = "recv" /\ pc' = "push" /\ batch = <<>> /\ batch' = d /\ ~reset'
        /\ reset => curSeq' = d[1].blk
        /\ ~reset => UNCHANGED <<curSeq, curId, blocksData>>
    BY <1>a, <2>1 DEF Receive, StartWindow
  <2>4. ASSUME NEW p \in inFlight PROVE OnItsWay(p)'
    <3>1. p \in inFlight' \/ \E i \in 1 .. Len(d) : d[i] = p
      BY <2>1
    <3>2. QED
      BY <2>3, <3>1 DEF OnItsWay
  <2>5. /\ curSeq' \in Nat /\ curSeq' <= nextBlk /\ nextBlk <= curSeq' + MaxSkew
    <3>1. CASE reset
      BY <1>a, <1>c, <2>2, <2>3, <3>1
    <3>2. CASE ~reset
      BY <1>a, <2>3, <3>2, SenderNotFarAhead DEF NearInv
    <3>3. QED
      BY <3>1, <3>2, <1>a DEF UnmixedInv, WindowInv, TypeOK
  <2>6. Skewed'
    <3>1. \A p \in inFlight' : nextBlk' <= p.blk + MaxSkew
      BY <1>c, <2>1
    <3>2. ASSUME NEW i \in 1 .. Len(batch')
          PROVE  /\ batch'[i].blk < curSeq' + MaxSkew
                 /\ curSeq' <= batch'[i].blk + MaxSkew
      <4>1. batch'[i] \in inFlight
        BY <2>2, <2>3
      <4> DEFINE x == batch'[i].blk
      <4>2. x \in Nat /\ x < nextBlk /\ nextBlk <= x + MaxSkew
        BY <1>c, <4>1
      <4> HIDE DEF x
      <4>3. MaxSkew \in Nat /\ nextBlk \in Nat
        BY <1>a
      <4>4. x < curSeq' + MaxSkew /\ curSeq' <= x + MaxSkew
        BY <2>5, <4>2, <4>3, SkewChain
      <4>5. QED
        BY <4>4 DEF x
    <3>3. QED
      BY <3>1, <3>2 DEF Skewed
  <2>7. ASSUME NEW b \in curSeq' .. nextBlk' - 1, NEW s \in Symbols
        PROVE  OnItsWay(PacketOf(b, s))' \/ Kept(PacketOf(b, s))'
    <3>1. CASE reset
      <4>1. PacketOf(b, s) \in inFlight
        BY <1>a, <2>1, <2>2, <2>3, <2>7, <3>1 DEF NothingMissing
      <4>2. QED
        BY <2>4, <4>1 DEF PacketOf
    <3>2. CASE ~reset
      <4>1. OnItsWay(PacketOf(b, s)) \/ Kept(PacketOf(b, s))
        BY <1>a, <2>1, <2>3, <2>7, <3>2 DEF NothingMissing
      <4>2. CASE Kept(PacketOf(b, s))
        BY <2>3, <3>2, <4>2 DEF Kept, PacketId, PacketOf
      <4>3. CASE OnItsWay(PacketOf(b, s))
        <5>1. PacketOf(b, s) \in inFlight
          BY <2>3, <4>3 DEF OnItsWay
        <5>2. QED
          BY <2>4, <5>1 DEF PacketOf
      <4>4. QED
        BY <4>1, <4>2, <4>3
    <3>3. QED
      BY <3>1, <3>2
  <2>8. NothingMissing'
    BY <2>1, <2>3, <2>5, <2>7 DEF NothingMissing, PacketOf
  <2>9. QED
    BY <1>b, <2>6, <2>8 DEF NearInv
<1>4. CASE Push /\ UNCHANGED linkVars
  <2>1. /\ batch # <<>> /\ batch' = Tail(batch) /\ ~reset /\ ~reset' /\ pc' # "recv"
        /\ UNCHANGED <<inFlight, nextBlk, curSeq>>
    BY <1>4, <1>a DEF Push, linkVars
  <2>2. \A i \in 1 .. Len(batch') : i + 1 \in 1 .. Len(batch) /\ batch'[i] = batch[i + 1]
    BY <1>a, <2>1, TailElements
  <2>3. Skewed'
    BY <1>a, <2>1, <2>2 DEF Skewed
  <2>4. \A b \in curSeq .. nextBlk - 1 : \A s \in Symbols :
          OnItsWay(PacketOf(b, s))' \/ Kept(PacketOf(b, s))'
    BY <1>4, PushKeeps
  <2>5. curSeq <= nextBlk
    BY <1>a, <2>1 DEF NothingMissing
  <2>6. NothingMissing'
    BY <2>1, <2>4, <2>5 DEF NothingMissing, PacketOf
  <2>7. QED
    BY <1>b, <2>3, <2>6 DEF NearInv
<1>5. CASE Advance /\ UNCHANGED linkVars
  <2>1. /\ curSeq' = curSeq + 1 /\ ~reset /\ ~reset' /\ pc' = "advance"
        /\ blocksData' = [blocksData EXCEPT ![curId] = <<>>]
        /\ UNCHANGED <<inFlight, nextBlk, batch>> /\ batch = <<>>
    <3>1. /\ curSeq' = curSeq + 1 /\ ~reset /\ UNCHANGED <<reset, pc>>
          /\ blocksData' = [blocksData EXCEPT ![curId] = <<>>]
      BY <1>5, <1>a, AdvancedWindow DEF UnmixedInv
    <3>2. pc = "advance" /\ UNCHANGED <<inFlight, nextBlk, batch>>
      BY <1>5 DEF Advance, linkVars
    <3>3. QED
      BY <1>a, <3>1, <3>2
  <2>2. Skewed'
    BY <1>a, <2>1 DEF Skewed
  <2>3. curSeq' <= nextBlk'
    <3>1. handed' = Append(handed, curSeq) /\ handed \in Seq(Nat)
      BY <1>5, <1>a DEF Advance, UnmixedInv, WindowInv, TypeOK
    <3>2. /\ Len(handed') = Len(handed) + 1 /\ Len(handed) \in Nat
          /\ handed'[Len(handed) + 1] = curSeq
      BY <1>a, <3>1, AppendProperties, LenProperties
    <3>3. curSeq < nextBlk'
      BY <1>b, <3>2 DEF HandedInv, AllSent
    <3>4. QED
      BY <1>a, <2>1, <3>3
  <2>4. ASSUME NEW b \in curSeq' .. nextBlk' - 1, NEW s \in Symbols
        PROVE  OnItsWay(PacketOf(b, s))' \/ Kept(PacketOf(b, s))'
    <3> DEFINE p == PacketOf(b, s)
    <3>1. b \in Nat /\ b > curSeq /\ b \in curSeq .. nextBlk - 1
      BY <1>a, <2>1, <2>4
    <3>2. p \in Packets /\ p.blk = b /\ PacketId(p) \in Ids
      BY <3>1, PacketOfType, PacketIdType
    <3> HIDE DEF p
    <3>3. OnItsWay(p) \/ Kept(p)
      BY <1>a, <2>1, <3>1 DEF NothingMissing, p
    <3>4. CASE OnItsWay(p)
      BY <2>1, <3>4 DEF OnItsWay, p
    <3>5. CASE Kept(p)
      <4>1. PICK k \in 1 .. Len(blocksData[PacketId(p)]) : blocksData[PacketId(p)][k] = p
        BY <3>5 DEF Kept
      <4>2. p.blk = curSeq + Ahead(curId, PacketId(p))
        BY <1>a, <2>1, <3>2, <4>1 DEF UnmixedInv, KeptInWindow
      <4>3. PacketId(p) # curId
        BY <1>a, <3>1, <3>2, <4>2, AheadSelf
      <4>4. blocksData'[PacketId(p)] = blocksData[PacketId(p)]
        BY <1>a, <2>1, <3>2, <4>3
      <4>5. QED
        BY <4>1, <4>4 DEF Kept, p, PacketId, PacketOf
    <3>6. QED
      BY <3>3, <3>4, <3>5 DEF p
  <2>5. NothingMissing'
    BY <2>1, <2>3, <2>4 DEF NothingMissing, PacketOf
  <2>6. QED
    BY <1>b, <2>2, <2>5 DEF NearInv
<1>6. CASE SilentTimeout /\ UNCHANGED linkVars
  <2>1. inFlight' = {} /\ reset' /\ batch' = batch /\ batch = <<>>
    BY <1>6, <1>a DEF SilentTimeout, Timeout, linkVars
  <2>2. Skewed' /\ NothingMissing'
    BY <2>1 DEF Skewed, NothingMissing
  <2>3. QED
    BY <1>b, <2>2 DEF NearInv
<1>7. CASE \/ (Wait \/ Take \/ PassTurn) /\ UNCHANGED linkVars
           \/ UNCHANGED vars
  <2>1. /\ UNCHANGED <<batch, nextBlk, inFlight, reset, curSeq, curId, blocksData>>
        /\ \/ UNCHANGED pc
           \/ ~CurrentReady
    BY <1>7 DEF Wait, Take, PassTurn, vars, linkVars, reblockVars, windowVars
  <2>2. /\ \A p : OnItsWay(p) => OnItsWay(p)'
        /\ \A p : Kept(p) => Kept(p)'
        /\ CurrentReady' <=> CurrentReady
    BY <2>1 DEF OnItsWay, Kept, PacketId, CurrentReady
  <2>3. Skewed'
    BY <1>a, <2>1 DEF Skewed
  <2>4. ~reset => \A b \in curSeq .. nextBlk - 1 : \A s \in Symbols :
                    OnItsWay(PacketOf(b, s))' \/ Kept(PacketOf(b, s))'
    BY <1>a, <2>2 DEF NothingMissing, PacketOf
  <2>5. NothingMissing'
    BY <1>a, <2>1, <2>2, <2>4 DEF NothingMissing, PacketOf
  <2>6. QED
    BY <1>b, <2>3, <2>5 DEF NearInv
<1>8. QED
  BY <1>1, <1>2, <1>3, <1>4, <1>5, <1>6, <1>7 DEF LinkStep

\* On a link that keeps no packet for as long as reset_timeout and interleaves no
\* more blocks than the window holds, a packet that is only duplicated, reordered
\* or late, but never lost, is near the current block whenever reblock looks at it,
\* also across resets and restarts of the sender.
THEOREM LosslessStaysNear ==
  Timely /\ MaxSkew <= WindowWidth => (LinkSpec => StaysNear)
<1> SUFFICES ASSUME Timely, MaxSkew <= WindowWidth
             PROVE  LinkSpec => StaysNear
  OBVIOUS
<1>1. LinkInit => (LosesNothing => NearInv)
  BY NearInit, LinkInitIsFresh
<1>2. [LinkNext]_vars => (LosesNothing' <=> LosesNothing)
  <2> SUFFICES ASSUME [LinkNext]_vars PROVE faults' = faults
    BY DEF LosesNothing
  <2>1. QED
    BY DEF LinkNext, SendPackets, SenderRestarts, Deliver, linkVars, vars
<1>3. (LosesNothing => NearInv) /\ [LinkNext]_vars => (LosesNothing => NearInv)'
  BY <1>2, NearInvStep, LinkNextIsStep
<1>4. (LosesNothing => NearInv) /\ [LinkNext]_vars
        => [LosesNothing => NearNext]_reblockVars
  BY LinkStepIsNear, LinkNextIsStep
<1>5. QED
  BY <1>1, <1>3, <1>4, PTL DEF LinkSpec, StaysNear

\* On such a link reblock never mixes two blocks and hands the blocks over in
\* increasing order, whatever comes twice and whenever it resets.
THEOREM LosslessCorrect ==
  Timely /\ MaxSkew <= WindowWidth =>
    (LinkSpec => [](LosesNothing => BlocksUnmixed /\ HandedIncreasing))
<1> SUFFICES ASSUME Timely, MaxSkew <= WindowWidth
             PROVE  LinkSpec => [](LosesNothing => BlocksUnmixed /\ HandedIncreasing)
  OBVIOUS
<1>1. LinkInit => (LosesNothing => NearInv)
  BY NearInit, LinkInitIsFresh
<1>2. [LinkNext]_vars => (LosesNothing' <=> LosesNothing)
  <2> SUFFICES ASSUME [LinkNext]_vars PROVE faults' = faults
    BY DEF LosesNothing
  <2>1. QED
    BY DEF LinkNext, SendPackets, SenderRestarts, Deliver, linkVars, vars
<1>3. (LosesNothing => NearInv) /\ [LinkNext]_vars => (LosesNothing => NearInv)'
  BY <1>2, NearInvStep, LinkNextIsStep
<1>4. NearInv => BlocksUnmixed /\ HandedIncreasing
  BY DEF NearInv, UnmixedInv, HandedInv
<1>5. QED
  BY <1>1, <1>3, <1>4, PTL DEF LinkSpec

-----------------------------------------------------------------------------
(* The parts of the receiving half as one: what is proved of each holds in it *)


DP == INSTANCE DecodersProofs WITH Items <- Reassembled, MaxHanded <- MaxBlocks,
                                   handedOver <- curSeq,
                                   Decodable <- {x \in Reassembled : HasEnough(x)}
TP == INSTANCE DeliveryProofs WITH MaxMessages <- 0

LEMMA DecodersFit == DP!DecodersAssumption /\ DP!IdModulusAssumption
<1>1. IsFiniteSet(Threads) <=> DP!IsFiniteSet(Threads)
  BY DEF IsFiniteSet, DP!IsFiniteSet
<1>2. Cardinality(Threads) = DP!Cardinality(Threads)
  BY DEF Cardinality, DP!Cardinality, IsFiniteSet, DP!IsFiniteSet
<1>3. DecodeFails \in BOOLEAN /\ QuietResets \in BOOLEAN
  BY ReceiverAssumption
<1>4. SyncLost \notin Reassembled \cup {NoItem}
  BY ReceiverAssumption
<1>5. DP!DecodersAssumption
  BY <1>1, <1>2, <1>3, <1>4, ReceiverAssumption, ReblockLinkAssumption
  DEF DP!DecodersAssumption
<1>6. QED
  BY <1>5 DEF DP!IdModulusAssumption

LEMMA DeliveryFits == TP!DeliveryAssumption
<1>1. IsFiniteSet(Workers) <=> TP!IsFiniteSet(Workers)
  BY DEF IsFiniteSet, TP!IsFiniteSet
<1>2. QED
  BY <1>1, ReceiverAssumption DEF TP!DeliveryAssumption

\* A decoder does to the channel of reblock what Reblock has it do.
LEMMA SameIds ==
  /\ DP!Ids = Ids
  /\ \A n : DP!IdOf(n) = IdOf(n)
  /\ \A id, n : DP!WrappingAdd(id, n) = WrappingAdd(id, n)
  BY DEF DP!Ids, Ids, DP!IdOf, IdOf, DP!WrappingAdd, WrappingAdd

LEMMA SameThread ==
  ASSUME NEW d \in Threads, D!Thread(d)
  PROVE  DP!Thread(d) /\ (DP!Take(d) \/ DP!Report(d) \/ DP!Pass(d))
  BY DEF D!Thread, D!Take, D!Report, D!Pass, D!WrappingAdd,
         DP!Thread, DP!Take, DP!Report, DP!Pass, DP!WrappingAdd

LEMMA SameQuiet == D!Quiet => DP!Quiet
  BY DEF D!Quiet, DP!Quiet

LEMMA SameBlocks == T!Blocks = TP!Blocks
  BY DEF T!Blocks, TP!Blocks, T!BlockTypes, TP!BlockTypes

LEMMA SameDispatch ==
  ASSUME NEW m, T!Dispatch(m)
  PROVE  TP!Dispatch(m)
  BY DEF T!Dispatch, TP!Dispatch, T!Tell, TP!Tell, T!Close, TP!Close,
         T!DispatchLost, TP!DispatchLost, T!IsOpen, TP!IsOpen, T!HasReceiver, TP!HasReceiver,
         T!Unchanged, TP!Unchanged,
         T!DispatchStart, TP!DispatchStart, T!NewTransfer, TP!NewTransfer,
         T!DispatchToTransfer, TP!DispatchToTransfer, T!Push, TP!Push, T!Retained, TP!Retained,
         T!workerVars, TP!workerVars

LEMMA SameWorker ==
  ASSUME NEW w \in Workers, T!Worker(w)
  PROVE  TP!Worker(w)
  BY DEF T!Worker, TP!Worker, T!WorkerReceive, TP!WorkerReceive, T!Goto, TP!Goto,
         T!Taken, TP!Taken, T!WorkerAcquire, TP!WorkerAcquire, T!ClientConnect, TP!ClientConnect,
         T!Leave, TP!Leave, T!ClientBlock, TP!ClientBlock, T!Mine, TP!Mine,
         T!HasPayload, TP!HasPayload, T!ClientGivesUp, TP!ClientGivesUp,
         T!NothingComes, TP!NothingComes, T!HasSender, TP!HasSender,
         T!WorkerSignal, TP!WorkerSignal, T!Signalled, TP!Signalled, T!WorkerDrop, TP!WorkerDrop,
         T!dispatchVars, TP!dispatchVars

-----------------------------------------------------------------------------
(* The blocks of the sender *)

LEMMA SessionWithin ==
  ASSUME NEW program, NEW i \in Int, NEW j \in Int, NEW a \in Int, NEW b \in Int,
         i <= a, b <= j, SameSession(program, i, j)
  PROVE  SameSession(program, a, b)
<1>1. a .. (b - 1) \subseteq i .. (j - 1)
  OBVIOUS
<1>2. QED
  BY <1>1 DEF SameSession

LEMMA SessionsJoin ==
  ASSUME NEW program, NEW i \in Int, NEW k \in Int, NEW j \in Int,
         SameSession(program, i, k), SameSession(program, k, j)
  PROVE  SameSession(program, i, j)
<1>1. \A x \in i .. (j - 1) : x \in i .. (k - 1) \/ x \in k .. (j - 1)
  OBVIOUS
<1>2. QED
  BY <1>1 DEF SameSession

Beat(k) == stream[k].type = "Heartbeat"

Restarts == [program : {"sender", "receiver"}, at : Nat]

\* The stream is what the sender sent, and it numbered the blocks.
StreamInv ==
  /\ stream \in Seq(T!Blocks) /\ Len(stream) = nextBlk /\ nextBlk \in Nat
  /\ \A k \in 1 .. Len(stream) : ~Beat(k) => stream[k].n = k - 1
  /\ restarts \in Seq(Restarts)
  /\ \A r \in DOMAIN restarts : restarts[r].at <= Len(stream)

\* The blocks of the client of the j-th block that the sender sent before it since
\* it was last started.
Earlier(j) ==
  {i \in 1 .. (j - 1) : /\ stream[i].client = stream[j].client /\ ~Beat(i)
                        /\ SameSession("sender", i, j)}

\* The sender keeps to the protocol: a transfer is a Start, then Data, then an End
\* or an Abort, and nothing follows.
WellFormed ==
  \A j \in 1 .. Len(stream) : ~Beat(j) =>
    /\ stream[j].type = "Start" => Earlier(j) = {}
    /\ stream[j].type # "Start" => \E i \in Earlier(j) : stream[i].type = "Start"
    /\ \A i \in Earlier(j) : stream[i].type \in {"Start", "Data"}

\* What a step leaves of the stream and of its sessions.
StreamGrows ==
  /\ Len(stream) <= Len(stream')
  /\ \A k \in 1 .. Len(stream) : stream'[k] = stream[k]
  /\ \A i \in Int : \A j \in Int :
       j <= Len(stream) => (SameSession("sender", i, j)' <=> SameSession("sender", i, j))

\* A restart is noted behind all blocks sent so far.
LEMMA RestartNoted ==
  ASSUME StreamInv, NEW program \in {"sender", "receiver"}, Restarted(program)
  PROVE  /\ restarts' \in Seq(Restarts)
         /\ \A r \in DOMAIN restarts' : restarts'[r].at <= Len(stream)
         /\ \A i \in Int : \A j \in Int :
              j <= Len(stream) => (SameSession("sender", i, j)' <=> SameSession("sender", i, j))
<1> DEFINE new == [program |-> program, at |-> Len(stream)]
<1>1. Len(stream) \in Nat /\ new.at = Len(stream) /\ new \in Restarts
  BY DEF StreamInv, Restarts
<1>2. restarts' = Append(restarts, new)
  BY DEF Restarted
<1> HIDE DEF new
<1>3. /\ restarts' \in Seq(Restarts) /\ Len(restarts') = Len(restarts) + 1
      /\ restarts \in Seq(Restarts) /\ Len(restarts) \in Nat
      /\ \A r \in 1 .. Len(restarts) : restarts'[r] = restarts[r]
      /\ restarts'[Len(restarts) + 1] = new
  BY <1>1, <1>2, AppendProperties, LenProperties DEF StreamInv
<1>4. DOMAIN restarts = 1 .. Len(restarts) /\ DOMAIN restarts' = 1 .. Len(restarts')
  BY <1>3
<1>5. \A r \in DOMAIN restarts' : r \in DOMAIN restarts \/ r = Len(restarts) + 1
  BY <1>3, <1>4
<1>6. \A r \in DOMAIN restarts' : restarts'[r].at <= Len(stream)
  BY <1>1, <1>3, <1>4, <1>5 DEF StreamInv
<1>7. ASSUME NEW i \in Int, NEW j \in Int, j <= Len(stream)
      PROVE  SameSession("sender", i, j)' <=> SameSession("sender", i, j)
  <2>1. Len(stream) \notin i .. (j - 1)
    BY <1>1, <1>7
  <2>2. SameSession("sender", i, j)' => SameSession("sender", i, j)
    <3>1. \A r \in DOMAIN restarts : r \in DOMAIN restarts' /\ restarts'[r] = restarts[r]
      BY <1>3, <1>4
    <3>2. QED
      BY <3>1 DEF SameSession
  <2>3. SameSession("sender", i, j) => SameSession("sender", i, j)'
    BY <1>1, <1>3, <1>4, <1>5, <2>1 DEF SameSession
  <2>4. QED
    BY <2>2, <2>3
<1>8. QED
  BY <1>3, <1>6, <1>7

LEMMA TransmitSends ==
  ASSUME StreamInv, Transmit
  PROVE  /\ nextBlk' = nextBlk + 1 /\ Len(stream') = nextBlk'
         /\ stream' \in Seq(T!Blocks)
         /\ \A k \in 1 .. Len(stream) : stream'[k] = stream[k]
         /\ stream'[nextBlk'].type # "Heartbeat" /\ stream'[nextBlk'].n = nextBlk
         /\ MayFollow(stream'[nextBlk'])
         /\ UNCHANGED <<restarts, reblockVars, threadVars, deliveryVars, faults>>
<1>1. PICK b \in [type : T!BlockTypes \ {"Heartbeat"}, client : ClientIds, n : {Len(stream)}] :
        MayFollow(b) /\ stream' = Append(stream, b)
  BY DEF Transmit
<1>2. b \in T!Blocks /\ b.type # "Heartbeat" /\ b.n = nextBlk
  BY <1>1 DEF T!Blocks, StreamInv
<1>3. /\ stream' \in Seq(T!Blocks) /\ Len(stream') = Len(stream) + 1
      /\ \A k \in 1 .. Len(stream) : stream'[k] = stream[k]
      /\ stream'[Len(stream) + 1] = b
  BY <1>1, <1>2, AppendProperties DEF StreamInv
<1>4. /\ nextBlk' = nextBlk + 1
      /\ UNCHANGED <<restarts, reblockVars, threadVars, deliveryVars, faults>>
  BY DEF Transmit, SendPackets
<1>5. QED
  BY <1>1, <1>2, <1>3, <1>4 DEF StreamInv

LEMMA RestartSends ==
  ASSUME StreamInv, RestartSender
  PROVE  /\ nextBlk < nextBlk' /\ nextBlk' \in Nat /\ Len(stream') = nextBlk'
         /\ stream' \in Seq(T!Blocks)
         /\ \A k \in 1 .. Len(stream) : stream'[k] = stream[k]
         /\ \A k \in (nextBlk + 1) .. nextBlk' : stream'[k].type = "Heartbeat"
         /\ UNCHANGED <<reblockVars, threadVars, deliveryVars, faults>>
<1> DEFINE beat == [type |-> "Heartbeat", client |-> CHOOSE c \in ClientIds : TRUE, n |-> -1]
<1>1. /\ nextBlk' = (nextBlk \div IdModulus + 1) * IdModulus
      /\ UNCHANGED <<reblockVars, threadVars, deliveryVars, faults>>
  BY DEF RestartSender, SenderRestarts
<1>2. nextBlk \in Nat /\ nextBlk' \in Nat /\ nextBlk < nextBlk'
  BY <1>1, RestartAhead DEF StreamInv
<1>3. beat \in T!Blocks /\ beat.type = "Heartbeat"
  <2>1. (CHOOSE c \in ClientIds : TRUE) \in ClientIds
    BY ReceiverAssumption
  <2>2. QED
    BY <2>1 DEF T!Blocks, T!BlockTypes
<1>4. stream' = stream \o [i \in 1 .. (nextBlk' - nextBlk) |-> beat]
  BY DEF RestartSender
<1> HIDE DEF beat
<1>5. PICK m \in Nat : nextBlk' = nextBlk + m /\ nextBlk' - nextBlk = m
  <2>1. \A x \in Nat : \A y \in Nat :
          x < y => y - x \in Nat /\ y = x + (y - x)
    OBVIOUS
  <2>2. QED
    BY <1>2, <2>1
<1> DEFINE beats == [i \in 1 .. m |-> beat]
<1>6. beats \in Seq(T!Blocks) /\ Len(beats) = m /\ \A i \in 1 .. m : beats[i] = beat
  BY <1>3, <1>5
<1> HIDE DEF beats
<1>7. /\ stream' \in Seq(T!Blocks) /\ Len(stream') = nextBlk + m
      /\ \A i \in 1 .. nextBlk + m :
           stream'[i] = IF i <= nextBlk THEN stream[i] ELSE beats[i - nextBlk]
  <2>1. stream' = stream \o beats
    BY <1>4, <1>5 DEF beats
  <2>2. stream \in Seq(T!Blocks) /\ Len(stream) = nextBlk /\ nextBlk \in Nat
    BY DEF StreamInv
  <2>3. /\ stream \o beats \in Seq(T!Blocks)
        /\ Len(stream \o beats) = Len(stream) + Len(beats)
        /\ \A i \in 1 .. Len(stream) + Len(beats) : (stream \o beats)[i] =
              IF i <= Len(stream) THEN stream[i] ELSE beats[i - Len(stream)]
    BY <1>6, <2>2, ConcatProperties, Zenon
  <2>4. QED
    BY <1>6, <2>1, <2>2, <2>3
<1>8. \A k \in 1 .. Len(stream) : stream'[k] = stream[k]
  BY <1>2, <1>5, <1>7 DEF StreamInv
<1>9. ASSUME NEW k \in (nextBlk + 1) .. nextBlk' PROVE stream'[k].type = "Heartbeat"
  <2>1. k \in 1 .. nextBlk + m /\ ~(k <= nextBlk) /\ k - nextBlk \in 1 .. m
    BY <1>2, <1>5
  <2>2. stream'[k] = beat
    BY <1>6, <1>7, <2>1
  <2>3. QED
    BY <1>3, <2>2
<1>10. QED
  BY <1>1, <1>2, <1>5, <1>7, <1>8, <1>9

\* No other step changes the stream.
LEMMA StreamKept ==
  ASSUME ReceiverNext, ~Transmit, ~RestartSender
  PROVE  stream' = stream /\ nextBlk' = nextBlk /\ faults' = faults
<1>1. RestartReceiver => UNCHANGED <<stream, nextBlk, faults>>
  BY DEF RestartReceiver
<1>2. Reblock => UNCHANGED <<stream, nextBlk, faults>>
  BY DEF Reblock, Silence, Deliver, senderVars, linkVars
<1>3. (\E d \in Threads : Decode(d)) => UNCHANGED <<stream, nextBlk, faults>>
  BY DEF Decode, senderVars, linkVars
<1>4. Dispatch \/ (\E w \in Workers : Client(w)) => UNCHANGED <<stream, nextBlk, faults>>
  BY DEF Dispatch, Client, senderVars, linkVars
<1>5. QED
  BY <1>1, <1>2, <1>3, <1>4 DEF ReceiverNext

LEMMA RestartsKept ==
  ASSUME ReceiverNext, ~RestartSender, ~RestartReceiver
  PROVE  restarts' = restarts
<1>1. Transmit => restarts' = restarts
  BY DEF Transmit
<1>2. Reblock => restarts' = restarts
  BY DEF Reblock, senderVars
<1>3. (\E d \in Threads : Decode(d)) => restarts' = restarts
  BY DEF Decode, senderVars
<1>4. Dispatch \/ (\E w \in Workers : Client(w)) => restarts' = restarts
  BY DEF Dispatch, Client, senderVars
<1>5. QED
  BY <1>1, <1>2, <1>3, <1>4 DEF ReceiverNext

LEMMA StreamStep ==
  ASSUME StreamInv, ReceiverNext
  PROVE  StreamInv' /\ StreamGrows /\ faults' = faults
<1>1. /\ Len(stream) = nextBlk /\ nextBlk \in Nat
      /\ restarts \in Seq(Restarts)
      /\ \A r \in DOMAIN restarts : restarts[r].at \in Nat /\ restarts[r].at <= Len(stream)
  <2>1. restarts \in Seq(Restarts)
    BY DEF StreamInv
  <2>2. \A r \in DOMAIN restarts : restarts[r] \in Restarts
    BY <2>1, ElementOfSeq
  <2>3. QED
    BY <2>1, <2>2 DEF StreamInv, Restarts
<1>2. /\ stream' \in Seq(T!Blocks) /\ Len(stream') = nextBlk' /\ nextBlk' \in Nat
      /\ Len(stream) <= Len(stream')
      /\ \A k \in 1 .. Len(stream) : stream'[k] = stream[k]
      /\ \A k \in (Len(stream) + 1) .. Len(stream') :
           stream'[k].type # "Heartbeat" => stream'[k].n = k - 1
      /\ faults' = faults
  <2>1. CASE Transmit
    <3>1. \A k \in (nextBlk + 1) .. nextBlk' : k = nextBlk' /\ nextBlk' - 1 = nextBlk
      BY <1>1, <2>1, TransmitSends
    <3>2. \A k \in (nextBlk + 1) .. nextBlk' : stream'[k].n = k - 1
      BY <2>1, <3>1, TransmitSends
    <3>3. nextBlk' \in Nat /\ Len(stream) <= nextBlk'
      BY <1>1, <2>1, TransmitSends
    <3>4. QED
      BY <1>1, <2>1, <3>2, <3>3, TransmitSends, StreamKept
  <2>2. CASE RestartSender
    BY <1>1, <2>2, RestartSends
  <2>3. CASE ~Transmit /\ ~RestartSender
    BY <1>1, <2>3, StreamKept DEF StreamInv
  <2>4. QED
    BY <2>1, <2>2, <2>3
<1>3. /\ restarts' \in Seq(Restarts)
      /\ \A r \in DOMAIN restarts' : restarts'[r].at \in Nat /\ restarts'[r].at <= Len(stream)
      /\ \A i \in Int : \A j \in Int :
           j <= Len(stream) => (SameSession("sender", i, j)' <=> SameSession("sender", i, j))
  <2>1. CASE ~RestartSender /\ ~RestartReceiver
    <3>1. restarts' = restarts
      BY <2>1, RestartsKept
    <3>2. QED
      BY <1>1, <3>1 DEF SameSession
  <2>2. CASE RestartSender \/ RestartReceiver
    <3>1. \E program \in {"sender", "receiver"} : Restarted(program)
      BY <2>2 DEF RestartSender, RestartReceiver
    <3>2. /\ restarts' \in Seq(Restarts)
          /\ \A r \in DOMAIN restarts' : restarts'[r].at <= Len(stream)
          /\ \A i \in Int : \A j \in Int :
               j <= Len(stream) => (SameSession("sender", i, j)' <=> SameSession("sender", i, j))
      BY <3>1, RestartNoted
    <3>3. \A r \in DOMAIN restarts' : restarts'[r] \in Restarts
      BY <3>2, ElementOfSeq
    <3>4. QED
      BY <3>2, <3>3 DEF Restarts
  <2>3. QED
    BY <2>1, <2>2
<1>4. \A k \in 1 .. Len(stream') : ~Beat(k)' => stream'[k].n = k - 1
  <2>1. \A k \in 1 .. Len(stream') : k \in 1 .. Len(stream) \/ k \in (Len(stream) + 1) .. Len(stream')
    BY <1>1, <1>2
  <2>2. QED
    BY <1>2, <2>1 DEF StreamInv, Beat
<1>5. \A r \in DOMAIN restarts' : restarts'[r].at <= Len(stream')
  BY <1>1, <1>2, <1>3
<1>6. QED
  BY <1>2, <1>3, <1>4, <1>5 DEF StreamInv, StreamGrows

\* A block that may be sent next has the blocks of its client in order before it.
LEMMA SentBefore ==
  ASSUME StreamInv, WellFormed, NEW b, MayFollow(b)
  PROVE  /\ b.type = "Start" => BlocksSent(b.client) = {}
         /\ b.type # "Start" => \E i \in BlocksSent(b.client) : stream[i].type = "Start"
         /\ \A i \in BlocksSent(b.client) : stream[i].type \in {"Start", "Data"}
<1> DEFINE mine == BlocksSent(b.client)
           n == Len(stream)
<1>1. n \in Nat /\ DOMAIN stream = 1 .. n
  BY DEF StreamInv
<1>2. CASE b.type = "Start"
  BY <1>2 DEF MayFollow
<1>3. CASE b.type # "Start"
  <2>1. PICK i \in mine : stream[i].type \in {"Start", "Data"} /\ \A j \in mine : j <= i
    BY <1>3 DEF MayFollow
  <2>2. \A j \in mine : /\ j \in 1 .. n /\ stream[j].client = b.client /\ ~Beat(j)
                        /\ SameSession("sender", j, n + 1)
    BY <1>1 DEF BlocksSent, Beat
  <2>3. \A j \in 1 .. n : stream[j].client = b.client /\ ~Beat(j)
                            /\ SameSession("sender", j, n + 1) => j \in mine
    BY <1>1 DEF BlocksSent, Beat
  <2> HIDE DEF mine, n
  <2>4. ASSUME NEW j \in mine, j # i PROVE j \in Earlier(i)
    <3>1. /\ j \in Int /\ j \in 1 .. (i - 1) /\ i \in Int /\ n + 1 \in Int /\ i <= n + 1
          /\ SameSession("sender", j, n + 1)
      BY <1>1, <2>1, <2>2, <2>4
    <3>2. SameSession("sender", j, i)
      BY <3>1, SessionWithin
    <3>3. QED
      BY <2>2, <2>4, <3>1, <3>2 DEF Earlier
  <2>5. \A j \in mine : stream[j].type \in {"Start", "Data"}
    BY <2>1, <2>2, <2>4 DEF WellFormed, n
  <2>6. \E j \in mine : stream[j].type = "Start"
    <3>1. CASE stream[i].type = "Start"
      BY <3>1
    <3>2. CASE stream[i].type # "Start"
      <4>1. PICK j \in Earlier(i) : stream[j].type = "Start"
        BY <2>2, <3>2 DEF WellFormed, n
      <4>2. /\ j \in Int /\ j \in 1 .. (i - 1) /\ i \in 1 .. n /\ SameSession("sender", j, i)
            /\ stream[j].client = b.client /\ ~Beat(j)
        BY <2>2, <4>1 DEF Earlier
      <4>3. SameSession("sender", i, n + 1)
        BY <2>2
      <4>4. SameSession("sender", j, n + 1)
        BY <1>1, <4>2, <4>3, SessionsJoin
      <4>5. j \in mine
        BY <1>1, <2>3, <4>2, <4>4
      <4>6. QED
        BY <4>1, <4>5
    <3>3. QED
      BY <3>1, <3>2
  <2>7. QED
    BY <1>3, <2>5, <2>6 DEF mine
<1>4. QED
  BY <1>2, <1>3

LEMMA WellFormedStep ==
  ASSUME StreamInv, StreamInv', StreamGrows, WellFormed, ReceiverNext
  PROVE  WellFormed'
<1> DEFINE n == Len(stream)
<1>1. n \in Nat /\ Len(stream') \in Nat /\ n = nextBlk /\ Len(stream') = nextBlk'
  BY DEF StreamInv
<1> SUFFICES ASSUME NEW j \in 1 .. Len(stream'), ~Beat(j)'
             PROVE  /\ stream'[j].type = "Start" => Earlier(j)' = {}
                    /\ stream'[j].type # "Start" => \E i \in Earlier(j)' : stream'[i].type = "Start"
                    /\ \A i \in Earlier(j)' : stream'[i].type \in {"Start", "Data"}
  BY DEF WellFormed
<1>2. \A i \in 1 .. n : stream'[i] = stream[i] /\ (Beat(i)' <=> Beat(i))
  BY DEF StreamGrows, Beat
<1>3. CASE j \in 1 .. n
  <2>1. \A i \in 1 .. (j - 1) : SameSession("sender", i, j)' <=> SameSession("sender", i, j)
    BY <1>1, <1>3 DEF StreamGrows
  <2>2. \A i \in 1 .. (j - 1) : i \in 1 .. n
    BY <1>1, <1>3
  <2>3. Earlier(j)' = Earlier(j)
    BY <1>2, <1>3, <2>1, <2>2 DEF Earlier
  <2>4. \A i \in Earlier(j) : i \in 1 .. n
    BY <2>2 DEF Earlier
  <2>5. QED
    BY <1>2, <1>3, <2>3, <2>4 DEF WellFormed
<1>4. CASE j \notin 1 .. n
  <2>1. CASE Transmit
    <3>1. /\ nextBlk' = nextBlk + 1 /\ MayFollow(stream'[nextBlk']) /\ restarts' = restarts
      BY <2>1, TransmitSends
    <3>2. j = n + 1 /\ nextBlk' = n + 1
      BY <1>1, <1>4, <3>1
    <3>3. Earlier(j)' = BlocksSent(stream'[j].client)
      <4>1. DOMAIN stream = 1 .. n
        BY DEF StreamInv
      <4>2. \A i : SameSession("sender", i, j)' <=> SameSession("sender", i, j)
        BY <3>1 DEF SameSession
      <4>3. 1 .. (j - 1) = 1 .. n
        BY <1>1, <3>2
      <4>4. QED
        BY <1>2, <3>2, <4>1, <4>2, <4>3 DEF Earlier, BlocksSent, Beat
    <3>4. \A i \in BlocksSent(stream'[j].client) : i \in 1 .. n
      BY DEF BlocksSent, StreamInv
    <3>5. MayFollow(stream'[j])
      BY <3>1, <3>2
    <3> DEFINE b == stream'[j]
    <3>6. /\ b.type = "Start" => BlocksSent(b.client) = {}
          /\ b.type # "Start" => \E i \in BlocksSent(b.client) : stream[i].type = "Start"
          /\ \A i \in BlocksSent(b.client) : stream[i].type \in {"Start", "Data"}
      BY <3>5, SentBefore
    <3>7. \A i \in BlocksSent(b.client) : stream'[i] = stream[i]
      BY <1>2, <3>4
    <3>8. QED
      BY <3>3, <3>6, <3>7
  <2>2. CASE RestartSender
    <3>1. j \in (nextBlk + 1) .. nextBlk'
      BY <1>1, <1>4
    <3>2. QED
      BY <2>2, <3>1, RestartSends DEF Beat
  <2>3. CASE ~Transmit /\ ~RestartSender
    BY <1>4, <2>3, StreamKept
  <2>4. QED
    BY <2>1, <2>2, <2>3
<1>5. QED
  BY <1>3, <1>4

-----------------------------------------------------------------------------
(* Reblock and the link *)

\* Every step but a restart of the receiver is one of the link and reblock, or
\* leaves them alone.
LEMMA LinkPart ==
  ASSUME ReceiverNext, ~RestartReceiver
  PROVE  [LinkStep]_vars
<1>1. Transmit \/ RestartSender => LinkStep
  BY DEF Transmit, RestartSender, LinkStep
<1>2. Reblock => LinkStep
  BY DEF Reblock, Silence, LinkStep
<1>3. ASSUME NEW d \in Threads, Decode(d) PROVE [LinkStep]_vars
  <2>1. /\ UNCHANGED <<pc, batch, reset, curId, blocksData, blocksIgnore, curSeq, handed>>
        /\ UNCHANGED linkVars
        /\ DP!Take(d) \/ DP!Report(d) \/ DP!Pass(d)
    BY <1>3, SameThread DEF Decode
  <2>2. UNCHANGED windowVars
    BY <2>1 DEF windowVars
  <2>3. CASE DP!Take(d)
    BY <2>1, <2>2, <2>3 DEF DP!Take, Take, LinkStep
  <2>4. CASE DP!Report(d)
    BY <2>1, <2>2, <2>4 DEF DP!Report, vars, reblockVars
  <2>5. CASE DP!Pass(d)
    BY <2>1, <2>2, <2>5, SameIds DEF DP!Pass, PassTurn, LinkStep
  <2>6. QED
    BY <2>1, <2>3, <2>4, <2>5
<1>4. Dispatch \/ (\E w \in Workers : Client(w)) => UNCHANGED vars
  BY DEF Dispatch, Client, vars
<1>5. QED
  BY <1>1, <1>2, <1>3, <1>4 DEF ReceiverNext

\* A receiver that is started again knows nothing, on an empty link.
LEMMA RestartIsFresh ==
  ASSUME StreamInv', RestartReceiver
  PROVE  Fresh'
  BY DEF RestartReceiver, Fresh, Init, StreamInv

LEMMA FreshIsNear == Fresh' => NearInv'
<1>1. Fresh => NearInv
  BY NearInit
<1>2. QED
  BY <1>1, PTL

\* What the theorems below suppose: no packet is on its way for as long as
\* reset_timeout, the decoding threads are done with their blocks by then, and the
\* window is as wide as the link is skewed.
InTime == Timely /\ QuietResets /\ MaxSkew <= WindowWidth

LEMMA NearPart ==
  ASSUME InTime, LosesNothing, NearInv, StreamInv', ReceiverNext
  PROVE  NearInv'
<1>1. CASE RestartReceiver
  BY <1>1, RestartIsFresh, FreshIsNear
<1>2. CASE ~RestartReceiver
  <2>1. [LinkStep]_vars
    BY <1>2, LinkPart
  <2>2. QED
    BY <2>1, NearInvStep DEF InTime
<1>3. QED
  BY <1>1, <1>2

-----------------------------------------------------------------------------
(* The decoding threads *)

\* The threads wait for a block, and the channel is empty.
Idle == DP!Busy = {} /\ toDecode = <<>>

\* The turnstile works, and no loss was reported.
TurnstileInv == DP!TypeOK /\ DP!TurnInv /\ DP!NothingReported

\* Without an open window the threads are idle, and what is on the link comes from
\* the number of the last window on; if that number is the next one to dispatch, no
\* block from it on was lost.
ResetInv ==
  reset => /\ Idle
           /\ curSeq <= nextBlk /\ \A p \in inFlight : curSeq <= p.blk
           /\ toDispatch # <<>> => \A k \in curSeq .. (nextBlk - 1) :
                Beat(k + 1) \/ \A s \in Symbols : PacketOf(k, s) \in inFlight

decodeView == <<toDecode, blockToDispatch, decPc, decItem, toDispatch, curSeq>>

LEMMA NearTypes ==
  ASSUME NearInv
  PROVE  /\ WindowInv /\ TypeOK /\ curSeq \in Nat /\ blockToDispatch \in Ids
         /\ toDecode \in Seq(Reassembled \cup {SyncLost}) /\ NeverReportsLoss
         /\ (pc # "recv" => ~reset)
         /\ inFlight \subseteq Packets
  BY DEF NearInv, UnmixedInv, WindowInv, TypeOK, HandedInv, AllSent

LEMMA TurnFacts ==
  ASSUME TurnstileInv
  PROVE  /\ DP!TypeOK /\ DP!ChannelInv /\ DP!HeldInv /\ DP!DoneInv
         /\ DP!Turn \in Nat /\ toDispatch \in Seq(Reassembled \cup {Lost})
         /\ \A i \in 1 .. Len(toDispatch) : toDispatch[i] # Lost
  BY DEF TurnstileInv, DP!TurnInv, DP!NothingReported, DP!HeldInv, DP!TypeOK

\* A silence finds the threads idle, and nothing on the link; had a window been
\* open, every block sent was handed over.
LEMMA SilenceIsLate ==
  ASSUME InTime, NearInv, TurnstileInv, Silence
  PROVE  /\ Idle /\ inFlight = {} /\ reset'
         /\ ~reset => curSeq = nextBlk
         /\ UNCHANGED <<toDecode, blockToDispatch, curSeq, linkVars>>
<1>1. /\ DP!Quiet /\ inFlight = {} /\ pc = "recv" /\ Timeout /\ reset'
      /\ UNCHANGED <<blockToDispatch, curSeq, linkVars>>
  BY SameQuiet DEF InTime, Silence, SilentTimeout, Timeout
<1>2. toDecode' = toDecode
  BY <1>1, NearTypes DEF Timeout, WindowInv, IgnoredIdsEmpty
<1>3. Idle
  BY <1>1, TurnFacts, DP!QuietIsIdle, DecodersFit DEF Idle
<1>4. ~reset => curSeq = nextBlk
  BY <1>1, CurrentOnItsWay
<1>5. QED
  BY <1>1, <1>2, <1>3, <1>4

\* What a step means for the threads.
LEMMA DecoderCases ==
  ASSUME InTime, NearInv, TurnstileInv, ReceiverNext, ~RestartReceiver
  PROVE  \/ \E d \in Threads : Decode(d)
         \/ Advance /\ UNCHANGED <<linkVars, decPc, decItem, toDispatch>>
         \/ Deliver /\ reset /\ UNCHANGED <<decPc, decItem, toDispatch>>
         \/ UNCHANGED decodeView
<1>1. Transmit \/ RestartSender => UNCHANGED decodeView
  BY DEF Transmit, RestartSender, SendPackets, SenderRestarts, reblockVars, windowVars,
         threadVars, decodeView
<1>2. Dispatch \/ (\E w \in Workers : Client(w)) => UNCHANGED decodeView
  BY DEF Dispatch, Client, reblockVars, windowVars, threadVars, decodeView
<1>3. ASSUME Reblock
      PROVE  \/ Advance /\ UNCHANGED <<linkVars, decPc, decItem, toDispatch>>
             \/ Deliver /\ reset /\ UNCHANGED <<decPc, decItem, toDispatch>>
             \/ UNCHANGED decodeView
  <2>1. UNCHANGED <<decPc, decItem, toDispatch>>
    BY <1>3 DEF Reblock, threadVars
  <2>2. CASE Deliver /\ ~reset
    BY <2>1, <2>2 DEF Deliver, Receive, decodeView
  <2>3. CASE Silence
    BY <2>1, <2>3, SilenceIsLate DEF decodeView
  <2>4. CASE Push \/ Wait
    BY <2>1, <2>4 DEF Push, Wait, windowVars, decodeView
  <2>5. QED
    BY <1>3, <2>1, <2>2, <2>3, <2>4 DEF Reblock
<1>4. QED
  BY <1>1, <1>2, <1>3 DEF ReceiverNext

\* A decoder takes a block, or fails to decode it, or passes its block on; or it
\* reports a loss.
LEMMA DecodeCases ==
  ASSUME TurnstileInv, DP!NothingReported', NEW d \in Threads, Decode(d)
  PROVE  /\ UNCHANGED <<curSeq, reset, linkVars>>
         /\ \/ /\ DP!Take(d) /\ toDecode # <<>> /\ toDecode' = Tail(toDecode)
               /\ decPc' = [decPc EXCEPT ![d] = "turn"]
               /\ decItem' = [decItem EXCEPT ![d] = Head(toDecode)]
               /\ UNCHANGED toDispatch
            \/ /\ DP!Take(d) /\ toDecode # <<>> /\ toDecode' = Tail(toDecode)
               /\ decPc' = [decPc EXCEPT ![d] = "report"]
               /\ UNCHANGED <<decItem, toDispatch>>
            \/ /\ DP!Pass(d) /\ decPc[d] = "turn"
               /\ toDispatch' = Append(toDispatch, decItem[d])
               /\ decPc' = [decPc EXCEPT ![d] = "recv"]
               /\ decItem' = [decItem EXCEPT ![d] = NoItem]
               /\ UNCHANGED toDecode
<1>1. /\ UNCHANGED <<curSeq, reset, linkVars>>
      /\ DP!Take(d) \/ DP!Report(d) \/ DP!Pass(d)
  BY SameThread DEF Decode
<1>2. ~DP!Report(d)
  <2> SUFFICES ASSUME DP!Report(d) PROVE FALSE
    OBVIOUS
  <2>1. toDispatch' = Append(toDispatch, Lost) /\ toDispatch \in Seq(Reassembled \cup {Lost})
    BY DEF DP!Report, TurnstileInv, DP!TypeOK
  <2>2. /\ toDispatch'[Len(toDispatch) + 1] = Lost
        /\ Len(toDispatch) + 1 \in 1 .. Len(toDispatch')
    BY <2>1, AppendProperties, LenProperties
  <2>3. QED
    BY <2>2 DEF DP!NothingReported
<1>3. QED
  BY <1>1, <1>2 DEF DP!Take, DP!Pass

\* A block from which its number can be told, as a decoder does.
GoodItem(x) ==
  x \in Reassembled /\ 1 \in 1 .. Len(x.packets) /\ x.packets[1].blk = x.n /\ x.n < nextBlk

LEMMA AdvanceHands ==
  ASSUME NearInv, Advance
  PROVE  /\ toDecode' = Append(toDecode, Current) /\ curSeq' = curSeq + 1 /\ ~reset'
         /\ Current.n = curSeq /\ Current.id = IdOf(curSeq) /\ GoodItem(Current)
<1>1. /\ ~reset /\ UNCHANGED reset /\ curSeq' = curSeq + 1
      /\ toDecode' = Append(toDecode, Current) /\ Current \in Reassembled
  BY NearTypes, AdvancedWindow
<1>2. /\ Current.id = curId /\ Current.n = curSeq /\ Current.packets = blocksData[curId]
      /\ CurrentReady
  BY DEF Current, Advance
<1>3. /\ curId = IdOf(curSeq) /\ curId \in Ids /\ curSeq \in Nat
      /\ blocksData[curId] \in Seq(Packets) /\ Len(blocksData[curId]) \in Nat
  BY <1>1, NearTypes, LenProperties DEF TypeOK, WindowInv, WindowFollowsCurrent
<1>4. 1 \in 1 .. Len(blocksData[curId])
  BY <1>2, <1>3 DEF CurrentReady
<1>5. blocksData[curId][1].blk = curSeq + Ahead(curId, curId) /\ blocksData[curId][1].blk < nextBlk
  BY <1>1, <1>3, <1>4 DEF NearInv, UnmixedInv, KeptInWindow, HandedInv, AllSent
<1>6. blocksData[curId][1].blk = curSeq
  BY <1>3, <1>5, AheadSelf
<1>7. QED
  BY <1>1, <1>2, <1>3, <1>4, <1>5, <1>6 DEF GoodItem

\* A window opens at the first block on the link, when the threads are idle.
LEMMA WindowOpens ==
  ASSUME NearInv, ResetInv, "overtake" \notin faults, Deliver, reset
  PROVE  /\ Idle /\ toDecode' = toDecode /\ ~reset'
         /\ curSeq' \in Nat /\ curSeq <= curSeq' /\ blockToDispatch' = IdOf(curSeq')
         /\ curSeq' < nextBlk
         /\ \A p \in inFlight : curSeq' <= p.blk
<1>1. PICK d \in Arrivals : Receive(d) /\ \A p \in inFlight : d[1].blk <= p.blk
  BY DEF Deliver
<1>2. d[1] \in inFlight /\ d[1].blk \in Nat /\ d[1].blk < nextBlk
  <2>1. d[1] \in inFlight
    BY <1>1, NearTypes, ArrivalsAreInFlight
  <2>2. QED
    BY <2>1, NearTypes, PacketIdType DEF NearInv, HandedInv, AllSent
<1>3. /\ curSeq' = d[1].blk /\ blockToDispatch' = IdOf(d[1].blk)
      /\ toDecode' = toDecode /\ ~reset'
  BY <1>1 DEF Receive, StartWindow, PacketId
<1>4. Idle /\ curSeq <= d[1].blk
  BY <1>2 DEF ResetInv
<1>5. QED
  BY <1>1, <1>2, <1>3, <1>4

LEMMA TurnstileKept ==
  ASSUME UNCHANGED decodeView
  PROVE  /\ TurnstileInv => TurnstileInv'
         /\ DP!Turn' = DP!Turn /\ DP!Busy' = DP!Busy
<1>1. DP!Busy' = DP!Busy /\ DP!Taken' = DP!Taken
  BY DEF decodeView, DP!Busy, DP!Taken
<1>2. DP!Turn' = DP!Turn
  BY <1>1 DEF DP!Turn
<1>3. DP!TypeOK => DP!TypeOK'
  BY DEF decodeView, DP!TypeOK
<1>4. DP!TurnInv => DP!TurnInv'
  BY <1>1, <1>2
  DEF decodeView, DP!TurnInv, DP!NothingReported, DP!ChannelInv, DP!HeldInv, DP!DoneInv
<1>5. DP!NothingReported => DP!NothingReported'
  BY DEF decodeView, DP!NothingReported
<1>6. QED
  BY <1>1, <1>2, <1>3, <1>4, <1>5 DEF TurnstileInv, decodeView

\* The decoders of a receiver that starts.
LEMMA ThreadsStart ==
  ASSUME DP!Init
  PROVE  TurnstileInv
<1>1. DP!TypeOK /\ DP!TurnInv
  BY DP!TypeInit, DP!TurnInit, DecodersFit
<1>2. QED
  BY <1>1 DEF TurnstileInv, DP!Init, DP!ThreadsInit, DP!NothingReported

LEMMA ThreadsRestart == DP!Init' => TurnstileInv'
<1>1. DP!Init => TurnstileInv
  BY ThreadsStart
<1>2. QED
  BY <1>1, PTL

LEMMA TurnstileStep ==
  ASSUME InTime, "overtake" \notin faults, NearInv, TurnstileInv, ResetInv,
         DP!TypeOK', DP!NothingReported', ReceiverNext, ~RestartReceiver
  PROVE  TurnstileInv'
<1>1. ASSUME NEW d \in Threads, Decode(d) PROVE DP!TurnInv'
  <2>1. UNCHANGED curSeq /\ (DP!Take(d) \/ DP!Pass(d))
    BY <1>1, DecodeCases
  <2>2. QED
    BY <2>1, DP!TakeStep, DP!PassStep, DecodersFit DEF TurnstileInv
<1>2. CASE Advance /\ UNCHANGED <<linkVars, decPc, decItem, toDispatch>>
  <2>1. /\ toDecode' = Append(toDecode, Current) /\ curSeq' = curSeq + 1
        /\ Current \in Reassembled /\ Current.n = curSeq /\ Current.id = DP!IdOf(curSeq)
    BY <1>2, AdvanceHands, SameIds DEF GoodItem
  <2>2. UNCHANGED <<blockToDispatch, decPc, decItem, toDispatch>>
    BY <1>2 DEF Advance
  <2>3. DP!TurnInv'
    BY <2>1, <2>2, DP!HandoverStep, DecodersFit DEF TurnstileInv, DP!threadVars
  <2>4. QED
    BY <2>3 DEF TurnstileInv
<1>3. CASE Deliver /\ reset /\ UNCHANGED <<decPc, decItem, toDispatch>>
  <2>1. /\ DP!Busy = {} /\ toDecode = <<>> /\ UNCHANGED toDecode /\ curSeq' \in Nat
        /\ curSeq <= curSeq' /\ blockToDispatch' = DP!IdOf(curSeq')
    BY <1>3, WindowOpens, SameIds DEF Idle
  <2>2. DP!TurnInv'
    BY <1>3, <2>1, DP!ResetStep, DecodersFit DEF TurnstileInv, DP!threadVars
  <2>3. QED
    BY <2>2 DEF TurnstileInv
<1>4. QED
  BY <1>1, <1>2, <1>3, TurnstileKept, DecoderCases DEF TurnstileInv

-----------------------------------------------------------------------------
(* The blocks on their way to dispatch *)

\* All of them were sent.
ItemsInv ==
  /\ \A i \in 1 .. Len(toDecode) : GoodItem(toDecode[i])
  /\ \A d \in Threads : decPc[d] = "turn" => GoodItem(decItem[d])
  /\ \A i \in 1 .. Len(toDispatch) : GoodItem(toDispatch[i])

LEMMA GoodStays ==
  ASSUME StreamInv, StreamInv', StreamGrows, NEW x, GoodItem(x)
  PROVE  GoodItem(x)'
<1>1. nextBlk \in Nat /\ nextBlk' \in Nat /\ nextBlk <= nextBlk'
  BY DEF StreamInv, StreamGrows
<1>2. x.n \in Nat
  BY DEF GoodItem, Reassembled
<1>3. QED
  BY <1>1, <1>2 DEF GoodItem

\* Appending a good item to a channel, or taking one from it.
LEMMA AppendGood ==
  ASSUME NEW S, NEW q \in Seq(S), NEW x \in S, GoodItem(x),
         \A i \in 1 .. Len(q) : GoodItem(q[i])
  PROVE  \A i \in 1 .. Len(Append(q, x)) : GoodItem(Append(q, x)[i])
<1> DEFINE r == Append(q, x)
<1>1. /\ Len(q) \in Nat /\ Len(r) = Len(q) + 1 /\ r[Len(q) + 1] = x
      /\ \A i \in 1 .. Len(q) : r[i] = q[i]
  BY AppendProperties, LenProperties
<1> HIDE DEF r
<1>2. \A i \in 1 .. Len(r) : i \in 1 .. Len(q) \/ i = Len(q) + 1
  BY <1>1
<1>3. \A i \in 1 .. Len(r) : GoodItem(r[i])
  BY <1>1, <1>2
<1>4. QED
  BY <1>3 DEF r

LEMMA TailGood ==
  ASSUME NEW S, NEW q \in Seq(S), q # <<>>, \A i \in 1 .. Len(q) : GoodItem(q[i])
  PROVE  GoodItem(Head(q)) /\ \A i \in 1 .. Len(Tail(q)) : GoodItem(Tail(q)[i])
<1>1. /\ Len(q) \in Nat /\ Len(q) # 0 /\ Head(q) = q[1] /\ Len(Tail(q)) = Len(q) - 1
      /\ \A i \in 1 .. Len(Tail(q)) : Tail(q)[i] = q[i + 1]
  BY HeadTailProperties, LenProperties, EmptySeq
<1>2. \A i \in 1 .. Len(Tail(q)) : i + 1 \in 1 .. Len(q)
  BY <1>1
<1>3. QED
  BY <1>1, <1>2

LEMMA ItemsStep ==
  ASSUME InTime, "overtake" \notin faults, NearInv, TurnstileInv, ResetInv,
         StreamInv, StreamInv', StreamGrows, ItemsInv,
         DP!NothingReported', ReceiverNext, ~RestartReceiver
  PROVE  ItemsInv'
<1> DEFINE Good(x) == /\ x \in Reassembled /\ 1 \in 1 .. Len(x.packets)
                      /\ x.packets[1].blk = x.n /\ x.n < nextBlk'
<1>1. \A x : GoodItem(x) => Good(x)
  BY GoodStays DEF GoodItem
<1>2. /\ toDecode \in Seq(Reassembled \cup {SyncLost})
      /\ toDispatch \in Seq(Reassembled \cup {Lost})
      /\ decPc \in [Threads -> {"recv", "turn", "report"}]
      /\ decItem \in [Threads -> Reassembled \cup {NoItem}]
  BY NearTypes, TurnFacts DEF TurnstileInv, DP!TypeOK
<1>3. SUFFICES /\ \A i \in 1 .. Len(toDecode') : GoodItem(toDecode'[i])
               /\ \A d \in Threads : decPc'[d] = "turn" => GoodItem(decItem'[d])
               /\ \A i \in 1 .. Len(toDispatch') : GoodItem(toDispatch'[i])
  <2>1. /\ \A i \in 1 .. Len(toDecode') : Good(toDecode'[i])
        /\ \A d \in Threads : decPc'[d] = "turn" => Good(decItem'[d])
        /\ \A i \in 1 .. Len(toDispatch') : Good(toDispatch'[i])
    BY <1>1, <1>3
  <2>2. QED
    BY <2>1 DEF ItemsInv, GoodItem
<1>4. ASSUME NEW d \in Threads, Decode(d)
      PROVE  /\ \A i \in 1 .. Len(toDecode') : GoodItem(toDecode'[i])
             /\ \A e \in Threads : decPc'[e] = "turn" => GoodItem(decItem'[e])
             /\ \A i \in 1 .. Len(toDispatch') : GoodItem(toDispatch'[i])
  <2>1. CASE /\ toDecode # <<>> /\ toDecode' = Tail(toDecode)
             /\ decPc' = [decPc EXCEPT ![d] = "turn"]
             /\ decItem' = [decItem EXCEPT ![d] = Head(toDecode)]
             /\ UNCHANGED toDispatch
    <3>1. GoodItem(Head(toDecode)) /\ \A i \in 1 .. Len(toDecode') : GoodItem(toDecode'[i])
      BY <1>2, <2>1, TailGood DEF ItemsInv
    <3>2. \A e \in Threads : /\ decPc'[e] = IF e = d THEN "turn" ELSE decPc[e]
                             /\ decItem'[e] = IF e = d THEN Head(toDecode) ELSE decItem[e]
      BY <1>2, <2>1
    <3>3. QED
      BY <2>1, <3>1, <3>2 DEF ItemsInv
  <2>2. CASE /\ decPc[d] = "turn" /\ toDispatch' = Append(toDispatch, decItem[d])
             /\ decPc' = [decPc EXCEPT ![d] = "recv"]
             /\ decItem' = [decItem EXCEPT ![d] = NoItem]
             /\ UNCHANGED toDecode
    <3>1. GoodItem(decItem[d]) /\ decItem[d] \in Reassembled \cup {Lost}
      BY <2>2 DEF ItemsInv, GoodItem
    <3>2. \A i \in 1 .. Len(toDispatch') : GoodItem(toDispatch'[i])
      BY <1>2, <2>2, <3>1, AppendGood DEF ItemsInv
    <3>3. \A e \in Threads : /\ decPc'[e] = IF e = d THEN "recv" ELSE decPc[e]
                             /\ decItem'[e] = IF e = d THEN NoItem ELSE decItem[e]
      BY <1>2, <2>2
    <3>4. QED
      BY <2>2, <3>2, <3>3 DEF ItemsInv
  <2>3. CASE /\ toDecode # <<>> /\ toDecode' = Tail(toDecode)
             /\ decPc' = [decPc EXCEPT ![d] = "report"]
             /\ UNCHANGED <<decItem, toDispatch>>
    <3>1. \A i \in 1 .. Len(toDecode') : GoodItem(toDecode'[i])
      BY <1>2, <2>3, TailGood DEF ItemsInv
    <3>2. \A e \in Threads : decPc'[e] = IF e = d THEN "report" ELSE decPc[e]
      BY <1>2, <2>3
    <3>3. QED
      BY <2>3, <3>1, <3>2 DEF ItemsInv
  <2>4. QED
    BY <1>4, <2>1, <2>2, <2>3, DecodeCases
<1>5. CASE Advance /\ UNCHANGED <<linkVars, decPc, decItem, toDispatch>>
  <2>1. GoodItem(Current) /\ toDecode' = Append(toDecode, Current)
    BY <1>5, AdvanceHands
  <2>2. Current \in Reassembled \cup {SyncLost}
    BY <2>1 DEF GoodItem
  <2>3. \A i \in 1 .. Len(toDecode') : GoodItem(toDecode'[i])
    BY <1>2, <2>1, <2>2, AppendGood DEF ItemsInv
  <2>4. QED
    BY <1>5, <2>3 DEF ItemsInv
<1>6. CASE Deliver /\ reset /\ UNCHANGED <<decPc, decItem, toDispatch>>
  BY <1>6, WindowOpens DEF ItemsInv
<1>7. CASE UNCHANGED decodeView
  BY <1>7 DEF ItemsInv, decodeView
<1>8. QED
  BY <1>4, <1>5, <1>6, <1>7, DecoderCases

LEMMA ResetStep ==
  ASSUME InTime, LosesNothing, NearInv, TurnstileInv, ResetInv,
         StreamInv, StreamInv', StreamGrows, DP!NothingReported', ReceiverNext, ~RestartReceiver
  PROVE  ResetInv'
<1>1. /\ nextBlk \in Nat /\ nextBlk' \in Nat /\ nextBlk <= nextBlk' /\ curSeq \in Nat
      /\ Len(stream) = nextBlk
      /\ \A k \in 1 .. nextBlk : stream'[k] = stream[k]
  BY NearTypes DEF StreamInv, StreamGrows
<1>2. SUFFICES ASSUME reset' PROVE ResetInv'
  BY DEF ResetInv
<1>3. SUFFICES
        /\ DP!Busy' = {} /\ toDecode' = <<>>
        /\ curSeq' <= nextBlk' /\ \A p \in inFlight' : curSeq' <= p.blk
        /\ toDispatch' # <<>> => \A k \in curSeq' .. (nextBlk' - 1) :
             stream'[k + 1].type = "Heartbeat" \/ \A s \in Symbols : PacketOf(k, s) \in inFlight'
  BY <1>2 DEF ResetInv, Idle, Beat, PacketOf
<1>4. CASE UNCHANGED <<reset, decPc, toDecode, curSeq, toDispatch>>
  <2>1. Idle /\ DP!Busy' = DP!Busy
    BY <1>2, <1>4 DEF ResetInv, DP!Busy
  <2>2. CASE UNCHANGED <<inFlight, nextBlk, stream>>
    BY <1>2, <1>4, <2>1, <2>2 DEF ResetInv, Idle, Beat
  <2>3. CASE Transmit
    <3>1. nextBlk' = nextBlk + 1 /\ inFlight' = inFlight \cup [blk : {nextBlk}, sym : Symbols]
      BY <2>3 DEF Transmit, SendPackets, LosesNothing
    <3>2. \A s \in Symbols : PacketOf(nextBlk, s) \in inFlight'
      BY <3>1 DEF PacketOf
    <3>3. \A p \in inFlight' : p \in inFlight \/ p.blk = nextBlk
      BY <3>1
    <3>4. \A k \in curSeq .. (nextBlk' - 1) : k = nextBlk \/ k \in curSeq .. (nextBlk - 1)
      BY <1>1, <3>1
    <3>5. \A k \in curSeq .. (nextBlk - 1) : stream'[k + 1] = stream[k + 1]
      BY <1>1
    <3>6. inFlight \subseteq inFlight'
      BY <3>1
    <3>7. toDispatch' # <<>> => \A k \in curSeq .. (nextBlk - 1) :
            stream'[k + 1].type = "Heartbeat" \/ \A s \in Symbols : PacketOf(k, s) \in inFlight'
      BY <1>2, <1>4, <3>5, <3>6 DEF ResetInv, Beat
    <3>8. curSeq <= nextBlk /\ \A p \in inFlight' : curSeq <= p.blk
      BY <1>2, <1>4, <3>3 DEF ResetInv
    <3>9. QED
      BY <1>1, <1>4, <2>1, <3>1, <3>2, <3>4, <3>7, <3>8 DEF Idle
  <2>4. CASE RestartSender
    <3>1. inFlight' = {} /\ inFlight = {}
      BY <2>4 DEF RestartSender, SenderRestarts
    <3>2. \A k \in (nextBlk + 1) .. nextBlk' : stream'[k].type = "Heartbeat"
      BY <2>4, RestartSends
    <3>3. \A k \in curSeq .. (nextBlk' - 1) :
            k + 1 \in (nextBlk + 1) .. nextBlk' \/ k \in curSeq .. (nextBlk - 1)
      <4>1. \A x \in Nat : \A y \in Nat : \A z \in Nat : \A k \in x .. (z - 1) :
              k + 1 \in (y + 1) .. z \/ k \in x .. (y - 1)
        OBVIOUS
      <4>2. QED
        BY <1>1, <4>1
    <3>4. toDispatch' # <<>> => \A k \in curSeq .. (nextBlk - 1) :
            stream'[k + 1].type = "Heartbeat" \/ \A s \in Symbols : PacketOf(k, s) \in inFlight'
      <4>1. \A k \in curSeq .. (nextBlk - 1) : stream'[k + 1] = stream[k + 1]
        BY <1>1
      <4>2. QED
        BY <1>2, <1>4, <3>1, <4>1 DEF ResetInv, Beat
    <3>5. curSeq <= nextBlk
      BY <1>2, <1>4 DEF ResetInv
    <3>6. toDispatch' # <<>> => \A k \in curSeq' .. (nextBlk' - 1) :
            stream'[k + 1].type = "Heartbeat" \/ \A s \in Symbols : PacketOf(k, s) \in inFlight'
      BY <1>4, <3>2, <3>3, <3>4
    <3>7. curSeq' <= nextBlk'
      BY <1>1, <1>4, <3>5
    <3>8. QED
      BY <1>4, <2>1, <3>1, <3>6, <3>7 DEF Idle
  <2>5. CASE ~Transmit /\ ~RestartSender /\ ~Reblock
    <3>1. UNCHANGED <<nextBlk, stream>>
      BY <2>5, StreamKept
    <3>2. UNCHANGED inFlight
      BY <2>5 DEF ReceiverNext, Decode, Dispatch, Client, linkVars
    <3>3. QED
      BY <2>2, <3>1, <3>2
  <2>6. CASE Reblock
    <3>1. Reblock => Deliver \/ Silence \/ Push \/ Advance \/ Wait
      BY DEF Reblock
    <3>2. ~Deliver
      BY <1>2 DEF Deliver, Receive
    <3>3. ~(Push \/ Advance \/ Wait)
      BY <1>2, <1>4, NearTypes DEF Push, Advance, Wait
    <3>4. UNCHANGED <<inFlight, nextBlk, stream>>
      BY <2>6, <3>1, <3>2, <3>3 DEF Reblock, Silence, linkVars, senderVars
    <3>5. QED
      BY <2>2, <3>4
  <2>7. QED
    BY <2>3, <2>4, <2>5, <2>6
<1>5. CASE Reblock
  <2>1. /\ Deliver \/ Silence \/ Push \/ Advance \/ Wait
        /\ UNCHANGED <<decPc, decItem, toDispatch, stream>>
    BY <1>5 DEF Reblock, threadVars, senderVars
  <2>2. ~Deliver
    BY <1>2 DEF Deliver, Receive
  <2>3. ~Advance
    BY <1>2, AdvanceHands
  <2>4. ~(Push \/ Wait)
    BY <1>2, NearTypes DEF Push, Wait, windowVars
  <2>5. /\ Idle /\ inFlight = {}
        /\ ~reset => curSeq = nextBlk
        /\ UNCHANGED <<toDecode, curSeq, inFlight, nextBlk>>
    BY <2>1, <2>2, <2>3, <2>4, SilenceIsLate DEF linkVars
  <2>6. DP!Busy' = DP!Busy
    BY <2>1 DEF DP!Busy
  <2>7. CASE reset
    BY <1>4, <2>1, <2>5, <2>7, <1>2
  <2>8. CASE ~reset
    <3>1. curSeq' = nextBlk' /\ nextBlk' \in Nat /\ inFlight' = {}
      BY <1>1, <2>5, <2>8
    <3>2. \A k \in curSeq' .. (nextBlk' - 1) : FALSE
      <4>1. \A x \in Nat : \A k \in x .. (x - 1) : FALSE
        OBVIOUS
      <4>2. QED
        BY <3>1, <4>1
    <3>3. QED
      BY <2>5, <2>6, <3>1, <3>2 DEF Idle
  <2>9. QED
    BY <2>7, <2>8
<1>6. ASSUME NEW d \in Threads, Decode(d) PROVE FALSE
  <2>1. reset /\ (toDecode # <<>> \/ decPc[d] = "turn")
    BY <1>2, <1>6, DecodeCases
  <2>2. QED
    BY <2>1 DEF ResetInv, Idle, DP!Busy
<1>7. CASE Transmit
  BY <1>4, <1>7, TransmitSends DEF reblockVars, windowVars, threadVars
<1>8. CASE RestartSender
  BY <1>4, <1>8, RestartSends DEF reblockVars, windowVars, threadVars
<1>9. CASE Dispatch \/ (\E w \in Workers : Client(w))
  BY <1>4, <1>9 DEF Dispatch, Client, reblockVars, windowVars, threadVars
<1>10. QED
  BY <1>5, <1>6, <1>7, <1>8, <1>9 DEF ReceiverNext

\* Dispatch gets every number from its first block to the turn, but those that no
\* block of the sender has.
CompleteInv ==
  /\ dispatched \in 0 .. Len(toDispatch)
  /\ toDispatch # <<>> =>
       \A k \in toDispatch[1].n .. (DP!Turn - 1) :
         (\E j \in 1 .. Len(toDispatch) : toDispatch[j].n = k) \/ (k < nextBlk /\ Beat(k + 1))

LEMMA DispatchedWithin ==
  ASSUME TurnstileInv, CompleteInv, DP!NothingReported', ReceiverNext, ~RestartReceiver
  PROVE  dispatched' \in 0 .. Len(toDispatch')
<1>1. dispatched \in 0 .. Len(toDispatch) /\ Len(toDispatch) \in Nat
  BY TurnFacts, LenProperties DEF CompleteInv
<1>2. CASE UNCHANGED <<dispatched, toDispatch>>
  BY <1>1, <1>2
<1>3. ASSUME NEW d \in Threads, Decode(d) PROVE dispatched' \in 0 .. Len(toDispatch')
  <2>1. dispatched' = dispatched
    BY <1>3 DEF Decode, deliveryVars
  <2>2. CASE UNCHANGED toDispatch
    BY <1>2, <2>1, <2>2
  <2>3. CASE toDispatch' = Append(toDispatch, decItem[d]) /\ decPc[d] = "turn"
    <3>1. decItem[d] \in Reassembled \cup {Lost}
      BY <2>3, ReceiverAssumption DEF TurnstileInv, DP!TypeOK
    <3>2. Len(toDispatch') = Len(toDispatch) + 1
      BY <2>3, <3>1, TurnFacts, AppendProperties
    <3>3. QED
      BY <1>1, <2>1, <3>2
  <2>4. QED
    BY <1>3, <2>2, <2>3, DecodeCases
<1>4. CASE Dispatch
  <2>1. dispatched < Len(toDispatch) /\ dispatched' = dispatched + 1 /\ toDispatch' = toDispatch
    BY <1>4 DEF Dispatch, T!Dispatch, threadVars
  <2>2. QED
    BY <1>1, <2>1
<1>5. CASE Transmit \/ RestartSender \/ Reblock
  BY <1>2, <1>5 DEF Transmit, RestartSender, Reblock, threadVars, deliveryVars
<1>6. ASSUME NEW w \in Workers, Client(w) PROVE UNCHANGED <<dispatched, toDispatch>>
  <2>1. TP!Worker(w) /\ UNCHANGED toDispatch
    BY <1>6, SameWorker DEF Client, threadVars
  <2>2. QED
    BY <2>1 DEF TP!Worker, TP!WorkerReceive, TP!WorkerAcquire, TP!ClientConnect,
                TP!ClientBlock, TP!ClientGivesUp, TP!WorkerSignal, TP!WorkerDrop, TP!dispatchVars
<1>7. QED
  BY <1>2, <1>3, <1>4, <1>5, <1>6 DEF ReceiverNext

\* Idle threads have dispatched all that was handed over.
TurnIsCurrent == DP!Turn = curSeq

LEMMA IdleTurnNext == DP!TypeOK' /\ Idle' => TurnIsCurrent'
<1>1. DP!TypeOK /\ Idle => TurnIsCurrent
  BY DP!IdleTurn, DecodersFit DEF Idle, TurnIsCurrent
<1>2. QED
  BY <1>1, PTL

LEMMA SymbolsExist == Symbols # {}
<1>1. IsFiniteSet(Symbols) /\ MinPackets <= Cardinality(Symbols) /\ MinPackets \in Nat \ {0}
  BY ReblockLinkAssumption
<1>2. Cardinality(Symbols) # 0
  BY <1>1, FS_CardinalityType
<1>3. QED
  BY <1>2, FS_EmptySet

LEMMA CompleteStep ==
  ASSUME InTime, "overtake" \notin faults, NearInv, TurnstileInv, TurnstileInv', ResetInv,
         StreamInv, StreamInv', StreamGrows, ItemsInv, CompleteInv, ReceiverNext, ~RestartReceiver
  PROVE  CompleteInv'
<1> DEFINE Here(k) == k < nextBlk' /\ stream'[k + 1].type = "Heartbeat"
           There(k) == \E j \in 1 .. Len(toDispatch') : toDispatch'[j].n = k
<1>1. /\ nextBlk \in Nat /\ nextBlk' \in Nat /\ nextBlk <= nextBlk' /\ Len(stream) = nextBlk
      /\ \A k \in 1 .. nextBlk : stream'[k] = stream[k]
      /\ DP!Turn \in Nat /\ curSeq \in Nat /\ Len(toDispatch) \in Nat
  BY NearTypes, TurnFacts, LenProperties DEF StreamInv, StreamGrows
<1>2. toDispatch # <<>> => toDispatch[1].n \in Nat
  <2> SUFFICES ASSUME toDispatch # <<>> PROVE toDispatch[1].n \in Nat
    OBVIOUS
  <2>1. 1 \in 1 .. Len(toDispatch)
    BY <1>1, TurnFacts, EmptySeq, LenProperties
  <2>2. QED
    BY <2>1 DEF ItemsInv, GoodItem, Reassembled
<1>3. \A k \in Nat : k < nextBlk /\ Beat(k + 1) => Here(k)
  BY <1>1 DEF Beat
<1>4. toDispatch # <<>> =>
        \A k \in toDispatch[1].n .. (DP!Turn - 1) :
          (\E j \in 1 .. Len(toDispatch) : toDispatch[j].n = k) \/ Here(k)
  BY <1>1, <1>2, <1>3 DEF CompleteInv
<1> SUFFICES toDispatch' # <<>> =>
               \A k \in toDispatch'[1].n .. (DP!Turn' - 1) : There(k) \/ Here(k)
  BY DispatchedWithin DEF CompleteInv, Beat, TurnstileInv
<1> HIDE DEF Here
<1>5. CASE toDispatch' = toDispatch /\ DP!Turn' = DP!Turn
  BY <1>4, <1>5
<1>6. ASSUME NEW d \in Threads, Decode(d)
      PROVE  toDispatch' # <<>> =>
               \A k \in toDispatch'[1].n .. (DP!Turn' - 1) : There(k) \/ Here(k)
  <2>1. UNCHANGED curSeq
    BY <1>6, DecodeCases DEF TurnstileInv
  <2>2. CASE DP!Take(d) /\ UNCHANGED toDispatch
    BY <1>5, <2>1, <2>2, TurnFacts, DP!TakeKeepsTurn, DecodersFit
  <2>3. CASE /\ DP!Pass(d) /\ decPc[d] = "turn"
             /\ toDispatch' = Append(toDispatch, decItem[d])
    <3>1. DP!Turn' = DP!Turn + 1 /\ decItem[d].n = DP!Turn
      BY <2>1, <2>3, TurnFacts, DP!PassMovesTurn, DP!TurnIsHeld, DecodersFit DEF DP!Pass
    <3>2. decItem[d] \in Reassembled \cup {Lost}
      BY <2>3, ReceiverAssumption DEF TurnstileInv, DP!TypeOK
    <3>3. /\ Len(toDispatch') = Len(toDispatch) + 1
          /\ \A j \in 1 .. Len(toDispatch) : toDispatch'[j] = toDispatch[j]
          /\ toDispatch'[Len(toDispatch) + 1] = decItem[d]
      BY <2>3, <3>2, TurnFacts, AppendProperties
    <3>4. There(DP!Turn)
      BY <1>1, <3>1, <3>3
    <3>5. \A k : (\E j \in 1 .. Len(toDispatch) : toDispatch[j].n = k) => There(k)
      BY <1>1, <3>3
    <3> HIDE DEF There
    <3>6. CASE toDispatch = <<>>
      <4>1. toDispatch'[1].n = DP!Turn
        BY <1>1, <3>1, <3>3, <3>6
      <4>2. \A x \in Nat : \A k \in x .. (x + 1 - 1) : k = x
        OBVIOUS
      <4>3. \A k \in toDispatch'[1].n .. (DP!Turn' - 1) : k = DP!Turn
        BY <1>1, <3>1, <4>1, <4>2
      <4>4. QED
        BY <3>4, <4>3
    <3>7. CASE toDispatch # <<>>
      <4>1. toDispatch'[1].n = toDispatch[1].n
        <5>1. 1 \in 1 .. Len(toDispatch)
          BY <1>1, <3>7, TurnFacts, EmptySeq, LenProperties
        <5>2. QED
          BY <3>3, <5>1
      <4>2. \A a \in Nat : \A x \in Nat : \A k \in a .. (x + 1 - 1) :
              k = x \/ k \in a .. (x - 1)
        OBVIOUS
      <4>3. \A k \in toDispatch'[1].n .. (DP!Turn' - 1) :
              k = DP!Turn \/ k \in toDispatch[1].n .. (DP!Turn - 1)
        BY <1>1, <1>2, <3>1, <3>7, <4>1, <4>2
      <4>4. QED
        BY <1>4, <3>4, <3>5, <3>7, <4>3
    <3>8. QED
      BY <3>6, <3>7
  <2>4. QED
    BY <1>6, <2>2, <2>3, DecodeCases DEF TurnstileInv
<1>7. CASE Advance /\ UNCHANGED <<linkVars, decPc, decItem, toDispatch>>
  <2>1. /\ toDecode' = Append(toDecode, Current) /\ curSeq' = curSeq + 1
        /\ Current \in Reassembled
    BY <1>7, AdvanceHands DEF GoodItem
  <2>2. DP!Turn' = DP!Turn
    BY <1>7, <2>1, TurnFacts, DP!HandoverKeepsTurn, DecodersFit
  <2>3. QED
    BY <1>5, <1>7, <2>2
<1>8. CASE Deliver /\ reset /\ UNCHANGED <<decPc, decItem, toDispatch>>
  <2>1. /\ Idle /\ toDecode' = toDecode /\ curSeq' \in Nat /\ curSeq <= curSeq'
        /\ curSeq' < nextBlk /\ \A p \in inFlight : curSeq' <= p.blk
    BY <1>8, WindowOpens
  <2>2. DP!Turn = curSeq
    BY <2>1, TurnFacts, DP!IdleTurn, DecodersFit DEF Idle
  <2>3. DP!Busy' = DP!Busy
    BY <1>8 DEF DP!Busy
  <2>4. DP!Turn' = curSeq'
    <3>1. Idle'
      BY <2>1, <2>3 DEF Idle
    <3>2. QED
      BY <3>1, IdleTurnNext DEF TurnIsCurrent, TurnstileInv
  <2> SUFFICES ASSUME toDispatch # <<>>
               PROVE  \A k \in toDispatch[1].n .. (curSeq' - 1) : There(k) \/ Here(k)
    BY <1>8, <2>4
  <2>5. ASSUME NEW k \in curSeq .. (curSeq' - 1) PROVE Here(k)
    <3>1. k \in Nat /\ k < curSeq' /\ k \in curSeq .. (nextBlk - 1)
      BY <1>1, <2>1
    <3>2. PICK s \in Symbols : TRUE
      BY SymbolsExist
    <3>3. PacketOf(k, s).blk = k
      BY <3>1, <3>2, PacketOfType
    <3>4. PacketOf(k, s) \notin inFlight
      BY <2>1, <3>1, <3>3
    <3>5. Beat(k + 1)
      BY <1>8, <3>1, <3>2, <3>4 DEF ResetInv
    <3>6. QED
      BY <1>1, <1>3, <3>1, <3>5
  <2>6. \A k \in toDispatch[1].n .. (curSeq' - 1) :
          k \in toDispatch[1].n .. (curSeq - 1) \/ k \in curSeq .. (curSeq' - 1)
    <3>1. \A a \in Nat : \A x \in Nat : \A y \in Nat : \A k \in a .. (y - 1) :
            k \in a .. (x - 1) \/ k \in x .. (y - 1)
      OBVIOUS
    <3>2. QED
      BY <1>1, <1>2, <2>1, <3>1
  <2>7. QED
    BY <1>4, <1>8, <2>2, <2>5, <2>6
<1>9. CASE UNCHANGED decodeView
  BY <1>5, <1>9, TurnstileKept DEF decodeView
<1>10. QED
  BY <1>6, <1>7, <1>8, <1>9, DecoderCases

-----------------------------------------------------------------------------
(* Dispatch and the client workers *)

\* Dispatch handles a block of the stream, whose position is one more than its number.
LEMMA DispatchedMessage ==
  ASSUME StreamInv, TurnstileInv, ItemsInv, CompleteInv, Dispatch,
         NEW g, g = toDispatch[dispatched + 1].n + 1
  PROVE  /\ dispatched + 1 \in 1 .. Len(toDispatch) /\ dispatched \in Nat
         /\ g \in 1 .. Len(stream) /\ stream[g] \in TP!Messages /\ TP!Dispatch(stream[g])
         /\ dispatched' = dispatched + 1
         /\ UNCHANGED <<toDispatch, stream, restarts>>
<1> DEFINE x == toDispatch[dispatched + 1]
<1>1. /\ dispatched < Len(toDispatch)
      /\ T!Dispatch(IF x = Lost THEN Lost ELSE Decoded(x))
      /\ UNCHANGED <<toDispatch, stream, restarts>>
  BY DEF Dispatch, threadVars, senderVars
<1>2. dispatched \in Nat /\ dispatched + 1 \in 1 .. Len(toDispatch)
  BY <1>1, TurnFacts, LenProperties DEF CompleteInv
<1>3. x # Lost /\ GoodItem(x)
  BY <1>2, TurnFacts DEF ItemsInv
<1>4. g \in 1 .. Len(stream) /\ Decoded(x) = stream[g] /\ g = x.n + 1
  BY <1>3 DEF GoodItem, Reassembled, Decoded, StreamInv
<1>5. TP!Dispatch(stream[g])
  BY <1>1, <1>3, <1>4, SameDispatch
<1>6. stream[g] \in TP!Messages
  <2>1. stream[g] \in TP!Blocks
    BY <1>4, SameBlocks, ElementOfSeq DEF StreamInv
  <2>2. stream[g].type # "Heartbeat" => stream[g].n \in Nat
    BY <1>4 DEF StreamInv, Beat
  <2>3. QED
    BY <2>1, <2>2 DEF TP!Messages, TP!Message
<1>7. dispatched' = dispatched + 1
  BY <1>5 DEF TP!Dispatch
<1>8. QED
  BY <1>1, <1>2, <1>4, <1>5, <1>6, <1>7

LEMMA SameWorkers ==
  /\ TP!Cardinality(Workers) = Cardinality(Workers)
  /\ TP!Cardinality(Workers) = T!Cardinality(Workers)
  BY DEF Cardinality, T!Cardinality, TP!Cardinality, IsFiniteSet, T!IsFiniteSet, TP!IsFiniteSet

LEMMA ServiceRestarts == TP!Init' => TP!ServedInv'
<1>1. TP!Init => TP!ServedInv
  BY TP!ServedInit, DeliveryFits
<1>2. QED
  BY <1>1, PTL

LEMMA ServiceStep ==
  ASSUME StreamInv, TurnstileInv, ItemsInv, CompleteInv, TP!ServedInv,
         ReceiverNext, ~RestartReceiver
  PROVE  TP!ServedInv'
<1>1. CASE Dispatch
  <2>1. \E m \in TP!Messages : TP!Dispatch(m)
    BY <1>1, DispatchedMessage
  <2>2. TP!NextAny
    BY <2>1 DEF TP!NextAny
  <2>3. QED
    BY <2>2, TP!ServedStep, DeliveryFits
<1>2. ASSUME NEW w \in Workers, Client(w) PROVE TP!ServedInv'
  <2>1. TP!NextAny
    BY <1>2, SameWorker DEF Client, TP!NextAny
  <2>2. QED
    BY <2>1, TP!ServedStep, DeliveryFits
<1>3. CASE Transmit \/ RestartSender \/ Reblock \/ \E d \in Threads : Decode(d)
  <2>1. UNCHANGED TP!deliveryVars
    BY <1>3 DEF Transmit, RestartSender, Reblock, Decode, deliveryVars,
                TP!deliveryVars, TP!dispatchVars, TP!workerVars
  <2>2. QED
    BY <2>1, TP!ServedStep, DeliveryFits
<1>4. QED
  BY <1>1, <1>2, <1>3 DEF ReceiverNext

-----------------------------------------------------------------------------
(* What dispatch was told of a transfer *)

\* The position in the stream up to which dispatch has gone.
Reached == IF dispatched = 0 THEN 0 ELSE toDispatch[dispatched].n + 1

\* The blocks of client c behind position i, up to position f, and their numbers.
Between(i, f, c) == {k \in (i + 1) .. f : stream[k].client = c /\ ~Beat(k)}
Numbers(S) == {k - 1 : k \in S}

\* From the Start at position i, dispatch was told h of the stream up to position f.
Receives(h, i, f) ==
  /\ i \in Started(h.client) /\ i <= f
  /\ h.closed = "no" =>
       /\ \A k \in Between(i, f, h.client) : stream[k].type = "Data"
       /\ Lists(h.sent, Numbers(Between(i, f, h.client)))
  /\ h.closed = "end" =>
       \E e \in (i + 1) .. f :
         /\ stream[e].type = "End" /\ stream[e].client = h.client /\ SameSession("sender", i, e)
         /\ \A k \in Between(i, e - 1, h.client) : stream[k].type = "Data"
         /\ Lists(h.sent, Numbers(Between(i, e, h.client)))

\* What was told so far of transfer t is what the sender sent from the Start at i.
ToldFrom(t, i) == Receives(told[t], i, Reached)

\* Dispatch was told of every transfer what the sender sent, without a hole.
ToldInv ==
  /\ dispatched = 0 => told = <<>>
  /\ \A t \in 1 .. Len(told) : \E i \in 1 .. Len(stream) : ToldFrom(t, i)

LEMMA ListsAppend ==
  ASSUME NEW s \in Seq(Nat), NEW S, NEW n \in Nat, Lists(s, S), \A x \in S : x < n
  PROVE  Lists(Append(s, n), S \cup {n})
<1> DEFINE r == Append(s, n)
<1>1. /\ Len(s) \in Nat /\ Len(r) = Len(s) + 1 /\ r[Len(s) + 1] = n
      /\ \A k \in 1 .. Len(s) : r[k] = s[k] /\ s[k] \in Nat
      /\ DOMAIN s = 1 .. Len(s) /\ DOMAIN r = 1 .. Len(r)
  BY AppendProperties, LenProperties
<1>2. /\ \A k \in 1 .. Len(s) : s[k] \in S
      /\ \A x \in S : \E k \in 1 .. Len(s) : s[k] = x
      /\ \A k, l \in 1 .. Len(s) : k < l => s[k] < s[l]
  BY <1>1 DEF Lists
<1> HIDE DEF r
<1>3. \A k \in 1 .. Len(r) : k \in 1 .. Len(s) \/ k = Len(s) + 1
  BY <1>1
<1>4. {r[k] : k \in DOMAIN r} = S \cup {n}
  <2>1. \A k \in DOMAIN r : r[k] \in S \cup {n}
    BY <1>1, <1>2, <1>3
  <2>2. \A x \in S \cup {n} : \E k \in DOMAIN r : r[k] = x
    <3>1. Len(s) + 1 \in DOMAIN r /\ \A k \in 1 .. Len(s) : k \in DOMAIN r
      BY <1>1
    <3>2. QED
      BY <1>1, <1>2, <3>1
  <2>3. QED
    BY <2>1, <2>2
<1>5. ASSUME NEW k \in DOMAIN r, NEW l \in DOMAIN r, k < l
      PROVE  r[k] < r[l]
  <2>1. k \in 1 .. Len(s)
    BY <1>1, <1>3, <1>5
  <2>2. CASE l \in 1 .. Len(s)
    BY <1>1, <1>2, <1>5, <2>1, <2>2
  <2>3. CASE l = Len(s) + 1
    BY <1>1, <1>2, <2>1, <2>3
  <2>4. QED
    BY <1>1, <1>3, <2>2, <2>3
<1>6. QED
  BY <1>4, <1>5 DEF Lists, r

\* The next block that dispatch gets adds itself, if it is one of the client.
LEMMA BetweenNext ==
  ASSUME NEW i \in Nat, NEW f \in Nat, NEW g \in Nat, NEW c,
         i <= f, f < g, \A k \in (f + 1) .. (g - 1) : Beat(k)
  PROVE  /\ Between(i, g - 1, c) = Between(i, f, c)
         /\ Between(i, g, c) = IF stream[g].client = c /\ ~Beat(g)
                               THEN Between(i, f, c) \cup {g} ELSE Between(i, f, c)
<1>1. /\ \A k \in (i + 1) .. (g - 1) : k \in (i + 1) .. f \/ k \in (f + 1) .. (g - 1)
      /\ \A k \in (i + 1) .. f : k \in (i + 1) .. (g - 1)
      /\ \A k \in (i + 1) .. g : k \in (i + 1) .. (g - 1) \/ k = g
      /\ \A k \in (i + 1) .. (g - 1) : k \in (i + 1) .. g
      /\ g \in (i + 1) .. g
  OBVIOUS
<1>2. Between(i, g - 1, c) = Between(i, f, c)
  BY <1>1 DEF Between
<1>3. CASE stream[g].client = c /\ ~Beat(g)
  <2>1. Between(i, g, c) = Between(i, g - 1, c) \cup {g}
    BY <1>1, <1>3 DEF Between
  <2>2. QED
    BY <1>2, <1>3, <2>1
<1>4. CASE ~(stream[g].client = c /\ ~Beat(g))
  <2>1. Between(i, g, c) = Between(i, g - 1, c)
    BY <1>1, <1>4 DEF Between
  <2>2. QED
    BY <1>2, <1>4, <2>1
<1>5. QED
  BY <1>2, <1>3, <1>4

\* A block that says nothing of a transfer, or comes after its end.
LEMMA ReceivesOn ==
  ASSUME NEW h, NEW i \in Nat, NEW f \in Nat, NEW g \in Nat, f < g,
         \A k \in (f + 1) .. (g - 1) : Beat(k),
         Receives(h, i, f), h.closed # "no" \/ stream[g].client # h.client \/ Beat(g)
  PROVE  Receives(h, i, g)
<1>1. i <= f /\ i <= g
  BY DEF Receives
<1>2. h.closed = "no" => Between(i, g, h.client) = Between(i, f, h.client)
  BY <1>1, BetweenNext
<1>3. \A e \in (i + 1) .. f : e \in (i + 1) .. g
  OBVIOUS
<1>4. QED
  BY <1>1, <1>2, <1>3 DEF Receives

\* A transfer that ends otherwise than with an End is none that succeeds.
LEMMA ReceivesClosed ==
  ASSUME NEW h, NEW i \in Nat, NEW f \in Nat, NEW g \in Nat, f < g, Receives(h, i, f),
         NEW h2, h2.client = h.client, h2.closed \notin {"no", "end"}
  PROVE  Receives(h2, i, g)
  BY DEF Receives

LEMMA ReceivesStart ==
  ASSUME NEW c, NEW g \in 1 .. Len(stream), DOMAIN stream = 1 .. Len(stream),
         stream[g].type = "Start", stream[g].client = c
  PROVE  Receives(TP!ToldNew(c), g, g)
<1> DEFINE h == TP!ToldNew(c)
<1>1. h.client = c /\ h.sent = <<>> /\ h.closed = "no"
  BY TP!ToldNewFields, DeliveryFits
<1> HIDE DEF h
<1>2. g \in Started(c) /\ g <= g
  BY DEF Started
<1>3. Between(g, g, c) = {} /\ Numbers({}) = {}
  BY DEF Between, Numbers
<1>4. Lists(<<>>, {})
  BY DEF Lists
<1>5. Receives(h, g, g)
  BY <1>1, <1>2, <1>3, <1>4 DEF Receives
<1>6. QED
  BY <1>5 DEF h

\* A payload of the transfer.
LEMMA ReceivesPayload ==
  ASSUME NEW i \in Nat, NEW f \in Nat, NEW g \in Nat, i <= f, f < g,
         \A k \in (f + 1) .. (g - 1) : Beat(k),
         NEW c, stream[g].client = c, ~Beat(g),
         NEW s \in Seq(Nat), Lists(s, Numbers(Between(i, f, c)))
  PROVE  Lists(Append(s, g - 1), Numbers(Between(i, g, c)))
<1>1. Between(i, g, c) = Between(i, f, c) \cup {g}
  BY BetweenNext
<1>2. Numbers(Between(i, g, c)) = Numbers(Between(i, f, c)) \cup {g - 1}
  BY <1>1 DEF Numbers
<1>3. \A x \in Numbers(Between(i, f, c)) : x < g - 1
  BY DEF Numbers, Between
<1>4. QED
  BY <1>2, <1>3, ListsAppend

LEMMA ReceivesData ==
  ASSUME NEW h, NEW i \in Nat, NEW f \in Nat, NEW g \in Nat, f < g,
         \A k \in (f + 1) .. (g - 1) : Beat(k),
         Receives(h, i, f), h.closed = "no", h.sent \in Seq(Nat),
         stream[g].client = h.client, stream[g].type = "Data",
         NEW h2, h2.client = h.client, h2.closed = "no", h2.sent = Append(h.sent, g - 1)
  PROVE  Receives(h2, i, g)
<1>1. /\ i \in Started(h.client) /\ i <= f /\ ~Beat(g)
      /\ \A k \in Between(i, f, h.client) : stream[k].type = "Data"
      /\ Lists(h.sent, Numbers(Between(i, f, h.client)))
  BY DEF Receives, Beat
<1>2. Between(i, g, h.client) = Between(i, f, h.client) \cup {g}
  BY <1>1, BetweenNext
<1>3. Lists(h2.sent, Numbers(Between(i, g, h.client)))
  BY <1>1, ReceivesPayload
<1>4. QED
  BY <1>1, <1>2, <1>3 DEF Receives

\* The End comes in the session of the Start: the sender keeps to the protocol.
LEMMA ReceivesEnd ==
  ASSUME StreamInv, WellFormed,
         NEW h, NEW i \in Nat, NEW f \in Nat, NEW g \in 1 .. Len(stream), f < g,
         \A k \in (f + 1) .. (g - 1) : Beat(k),
         Receives(h, i, f), h.closed = "no", h.sent \in Seq(Nat),
         stream[g].client = h.client, stream[g].type = "End",
         NEW h2, h2.client = h.client, h2.closed = "end", h2.sent = Append(h.sent, g - 1)
  PROVE  Receives(h2, i, g)
<1>1. /\ i \in Started(h.client) /\ i <= f /\ ~Beat(g) /\ g \in Nat
      /\ \A k \in Between(i, f, h.client) : stream[k].type = "Data"
      /\ Lists(h.sent, Numbers(Between(i, f, h.client)))
  BY LenProperties DEF Receives, Beat, StreamInv
<1>2. Between(i, g - 1, h.client) = Between(i, f, h.client)
  BY <1>1, BetweenNext
<1>3. Lists(h2.sent, Numbers(Between(i, g, h.client)))
  BY <1>1, ReceivesPayload
<1>4. SameSession("sender", i, g)
  <2>1. PICK b \in Earlier(g) : stream[b].type = "Start"
    BY <1>1 DEF WellFormed
  <2>2. /\ b \in 1 .. (g - 1) /\ stream[b].client = h.client /\ ~Beat(b)
        /\ SameSession("sender", b, g)
    BY <2>1 DEF Earlier
  <2>3. ~(i < b)
    <3> SUFFICES ASSUME i < b PROVE FALSE
      OBVIOUS
    <3>1. b \in Between(i, g - 1, h.client)
      BY <2>2 DEF Between
    <3>2. QED
      BY <1>1, <1>2, <2>1, <3>1
  <2>4. ~(b < i)
    <3> SUFFICES ASSUME b < i PROVE FALSE
      OBVIOUS
    <3>1. SameSession("sender", b, i)
      BY <1>1, <2>2, SessionWithin
    <3>2. i \in 1 .. Len(stream) /\ stream[i].type = "Start" /\ stream[i].client = h.client
      BY <1>1 DEF Started, StreamInv
    <3>3. b \in Earlier(i)
      BY <2>2, <3>1, <3>2 DEF Earlier
    <3>4. QED
      BY <3>2, <3>3 DEF WellFormed, Beat
  <2>5. QED
    BY <2>2, <2>3, <2>4
<1>5. g \in (i + 1) .. g
  BY <1>1
<1>6. QED
  BY <1>1, <1>2, <1>3, <1>4, <1>5 DEF Receives

\* What was told stays true while the stream grows.
LEMMA ReceivesKept ==
  ASSUME StreamInv, StreamGrows, NEW h, NEW i \in Nat, NEW f \in Nat, f <= Len(stream),
         DOMAIN stream = 1 .. Len(stream), DOMAIN stream' = 1 .. Len(stream'),
         Len(stream) \in Nat, Len(stream') \in Nat, Receives(h, i, f)
  PROVE  Receives(h, i, f)'
<1>1. \A k \in 1 .. Len(stream) : k \in 1 .. Len(stream') /\ stream'[k] = stream[k]
  BY DEF StreamGrows
<1>2. i \in Started(h.client)' /\ i <= f
  BY <1>1 DEF Receives, Started
<1>3. ASSUME NEW e \in Nat, e <= f
      PROVE  Between(i, e, h.client)' = Between(i, e, h.client)
  <2>1. \A k \in (i + 1) .. e : k \in 1 .. Len(stream)
    BY <1>3
  <2>2. \A k \in (i + 1) .. e : stream'[k] = stream[k]
    BY <1>1, <2>1
  <2>3. QED
    BY <2>2 DEF Between, Beat
<1>4. ASSUME NEW e \in Nat, e <= f
      PROVE  \A k \in Between(i, e, h.client) : stream'[k] = stream[k]
  BY <1>1, <1>4 DEF Between
<1>5. h.closed = "no" =>
        /\ \A k \in Between(i, f, h.client)' : stream'[k].type = "Data"
        /\ Lists(h.sent, Numbers(Between(i, f, h.client)'))
  BY <1>3, <1>4 DEF Receives
<1>6. ASSUME h.closed = "end"
      PROVE  \E e \in (i + 1) .. f :
               /\ stream'[e].type = "End" /\ stream'[e].client = h.client
               /\ SameSession("sender", i, e)'
               /\ \A k \in Between(i, e - 1, h.client)' : stream'[k].type = "Data"
               /\ Lists(h.sent, Numbers(Between(i, e, h.client)'))
  <2>1. PICK e \in (i + 1) .. f :
         /\ stream[e].type = "End" /\ stream[e].client = h.client /\ SameSession("sender", i, e)
         /\ \A k \in Between(i, e - 1, h.client) : stream[k].type = "Data"
         /\ Lists(h.sent, Numbers(Between(i, e, h.client)))
    BY <1>6 DEF Receives
  <2>2. e \in Nat /\ e <= f /\ e - 1 \in Nat /\ e - 1 <= f /\ e \in 1 .. Len(stream)
    OBVIOUS
  <2>3. /\ Between(i, e, h.client)' = Between(i, e, h.client)
        /\ Between(i, e - 1, h.client)' = Between(i, e - 1, h.client)
        /\ \A k \in Between(i, e - 1, h.client) : stream'[k] = stream[k]
    BY <1>3, <1>4, <2>2
  <2>4. SameSession("sender", i, e)'
    BY <2>1, <2>2 DEF StreamGrows
  <2>5. stream'[e] = stream[e]
    BY <1>1, <2>2
  <2>6. QED
    BY <2>1, <2>3, <2>4, <2>5
<1>7. QED
  BY <1>2, <1>5, <1>6 DEF Receives, Lists, Numbers

LEMMA ReachedRange ==
  ASSUME StreamInv, TurnstileInv, ItemsInv, CompleteInv
  PROVE  /\ Reached \in Nat /\ Reached <= Len(stream)
         /\ dispatched # 0 => dispatched \in 1 .. Len(toDispatch)
         /\ DOMAIN stream = 1 .. Len(stream) /\ Len(stream) \in Nat
<1>1. DOMAIN stream = 1 .. Len(stream) /\ Len(stream) \in Nat
  BY LenProperties DEF StreamInv
<1>2. dispatched # 0 => dispatched \in 1 .. Len(toDispatch)
  BY TurnFacts, LenProperties DEF CompleteInv
<1>3. CASE dispatched = 0
  BY <1>1, <1>2, <1>3 DEF Reached
<1>4. CASE dispatched # 0
  <2>1. GoodItem(toDispatch[dispatched])
    BY <1>2, <1>4 DEF ItemsInv
  <2>2. QED
    BY <1>1, <1>2, <1>4, <2>1 DEF Reached, GoodItem, Reassembled, StreamInv
<1>5. QED
  BY <1>3, <1>4

\* Between two messages there are only numbers that no block of the sender has.
LEMMA NothingSkipped ==
  ASSUME StreamInv, TurnstileInv, ItemsInv, CompleteInv,
         dispatched # 0, dispatched + 1 \in 1 .. Len(toDispatch),
         NEW g, g = toDispatch[dispatched + 1].n + 1
  PROVE  /\ g \in Nat /\ Reached < g
         /\ \A k \in (Reached + 1) .. (g - 1) : Beat(k)
<1> DEFINE n(j) == toDispatch[j].n
           d == dispatched
<1>1. /\ Len(toDispatch) \in Nat /\ d \in 1 .. Len(toDispatch)
      /\ DP!Turn \in Nat /\ toDispatch # <<>>
  BY TurnFacts, ReachedRange, LenProperties, EmptySeq
<1>2. \A j \in 1 .. Len(toDispatch) : n(j) \in Nat /\ n(j) < DP!Turn
  BY <1>1, TurnFacts DEF DP!DoneInv
<1>3. \A j, l \in 1 .. Len(toDispatch) : j < l => n(j) < n(l)
  BY TurnFacts DEF DP!DoneInv
<1>4. /\ 1 \in 1 .. Len(toDispatch)
      /\ \A k \in n(1) .. (DP!Turn - 1) :
           (\E j \in 1 .. Len(toDispatch) : n(j) = k) \/ (k < nextBlk /\ Beat(k + 1))
  BY <1>1 DEF CompleteInv
<1>5. Reached = n(d) + 1 /\ g = n(d + 1) + 1
  BY DEF Reached
<1> HIDE DEF n, d
<1>6. n(d) < n(d + 1) /\ n(1) <= n(d) /\ d + 1 \in 1 .. Len(toDispatch)
  <2>1. d + 1 \in 1 .. Len(toDispatch)
    BY DEF d
  <2>2. d = 1 \/ 1 < d
    BY <1>1
  <2>3. QED
    BY <1>1, <1>2, <1>3, <1>4, <2>1, <2>2
<1>7. ASSUME NEW k \in (Reached + 1) .. (g - 1) PROVE Beat(k)
  <2>1. /\ k - 1 \in n(1) .. (DP!Turn - 1) /\ n(d) < k - 1 /\ k - 1 < n(d + 1)
        /\ k - 1 + 1 = k
    <3>1. n(1) \in Nat /\ n(d) \in Nat /\ n(d + 1) \in Nat /\ n(d + 1) < DP!Turn
      BY <1>1, <1>2, <1>4, <1>6
    <3>2. k \in (n(d) + 2) .. n(d + 1)
      BY <1>5, <3>1
    <3>3. k \in Int /\ n(d) < k - 1 /\ k - 1 < n(d + 1) /\ k - 1 + 1 = k
      BY <3>1, <3>2
    <3>4. QED
      BY <1>1, <1>6, <3>1, <3>3
  <2>2. ASSUME NEW j \in 1 .. Len(toDispatch), n(j) = k - 1 PROVE FALSE
    <3>1. CASE j <= d
      <4>1. j = d \/ j < d
        BY <1>1, <3>1
      <4>2. n(j) <= n(d)
        BY <1>1, <1>2, <1>3, <4>1
      <4>3. QED
        BY <1>1, <1>2, <2>1, <2>2, <4>2
    <3>2. CASE ~(j <= d)
      <4>1. j = d + 1 \/ d + 1 < j
        BY <1>1, <3>2
      <4>2. n(d + 1) <= n(j)
        BY <1>2, <1>3, <1>6, <4>1
      <4>3. QED
        BY <1>2, <1>6, <2>1, <2>2, <4>2
    <3>3. QED
      BY <3>1, <3>2
  <2>3. Beat(k - 1 + 1)
    BY <1>4, <2>1, <2>2
  <2>4. QED
    BY <2>1, <2>3
<1>8. QED
  BY <1>1, <1>2, <1>5, <1>6, <1>7

\* What message m makes of h, which dispatch was told of a transfer before.
Says(m, h, h2) ==
  \/ h2 = IF h.closed = "no" THEN TP!Closed(h, "loss") ELSE h
  \/ m.type = "Heartbeat" /\ h2 = h
  \/ h2 = IF h.client = m.client /\ h.closed = "no" THEN TP!Closed(h, "replaced") ELSE h
  \/ /\ m.type \in {"Data", "Abort", "End"}
     /\ h.client # m.client \/ h.closed # "no" => h2 = h
     /\ h.client = m.client /\ h.closed = "no" =>
          /\ h2.client = h.client
          /\ m.type = "Abort" => h2.closed = "abort"
          /\ m.type = "Data" => h2.closed = "no" /\ h2.sent = Append(h.sent, m.n)
          /\ m.type = "End" => h2.closed = "end" /\ h2.sent = Append(h.sent, m.n)

LEMMA DispatchTells ==
  ASSUME StreamInv, WellFormed,
         NEW h \in TP!ToldRecords, NEW i \in Nat, NEW f \in Nat, NEW g \in 1 .. Len(stream),
         f < g, \A k \in (f + 1) .. (g - 1) : Beat(k), Receives(h, i, f),
         NEW h2, Says(stream[g], h, h2)
  PROVE  Receives(h2, i, g)
<1>1. g \in Nat /\ h.sent \in Seq(Nat) /\ (~Beat(g) => stream[g].n = g - 1)
  BY LenProperties DEF StreamInv, TP!ToldRecords
<1>2. \A how : TP!Closed(h, how).client = h.client /\ TP!Closed(h, how).closed = how
  BY TP!ClosedFields, DeliveryFits
<1>3. CASE h2 = h /\ (h.closed # "no" \/ stream[g].client # h.client \/ Beat(g))
  BY <1>1, <1>3, ReceivesOn
<1>4. CASE h2.client = h.client /\ h2.closed \notin {"no", "end"}
  BY <1>1, <1>4, ReceivesClosed
<1>5. CASE /\ h.client = stream[g].client /\ h.closed = "no" /\ stream[g].type = "Data"
           /\ h2.client = h.client /\ h2.closed = "no" /\ h2.sent = Append(h.sent, stream[g].n)
  BY <1>1, <1>5, ReceivesData DEF Beat
<1>6. CASE /\ h.client = stream[g].client /\ h.closed = "no" /\ stream[g].type = "End"
           /\ h2.client = h.client /\ h2.closed = "end" /\ h2.sent = Append(h.sent, stream[g].n)
  BY <1>1, <1>6, ReceivesEnd DEF Beat
<1>7. QED
  BY <1>2, <1>3, <1>4, <1>5, <1>6 DEF Beat, Says

\* What a block of a transfer adds to what dispatch was told of it.
LEMMA GivenHolds ==
  ASSUME NEW t, NEW m \in TP!Message, m.type \in {"Data", "Abort", "End"}
  PROVE  /\ TP!Given(t, m).client = told[t].client
         /\ m.type = "Abort" => TP!Given(t, m).closed = "abort"
         /\ m.type = "Data" => /\ TP!Given(t, m).closed = "no"
                               /\ TP!Given(t, m).sent = Append(told[t].sent, m.n)
         /\ m.type = "End" => /\ TP!Given(t, m).closed = "end"
                              /\ TP!Given(t, m).sent = Append(told[t].sent, m.n)
  BY TP!GivenFields, DeliveryFits

LEMMA DispatchTold ==
  ASSUME StreamInv, WellFormed, TurnstileInv, ItemsInv, CompleteInv, ToldInv,
         TP!ServedInv, Dispatch, NEW g, g = toDispatch[dispatched + 1].n + 1
  PROVE  \A t \in 1 .. Len(told') : \E i \in 1 .. Len(stream) : Receives(told'[t], i, g)
<1> DEFINE m == stream[g]
           f == Reached
<1>1. /\ dispatched + 1 \in 1 .. Len(toDispatch) /\ g \in 1 .. Len(stream)
      /\ m \in TP!Messages /\ TP!Dispatch(m)
  BY DispatchedMessage
<1>2. /\ TP!DataTypes /\ told \in Seq(TP!ToldRecords) /\ Len(told) \in Nat
      /\ f \in Nat /\ DOMAIN stream = 1 .. Len(stream)
  BY ReachedRange, LenProperties DEF TP!ServedInv, TP!DataTypes
<1>3. /\ \/ /\ Len(told') = Len(told)
            /\ \A t \in 1 .. Len(told) :
                 told'[t] = IF told[t].closed = "no" THEN TP!Closed(told[t], "loss") ELSE told[t]
         \/ m \in TP!Message /\ m.type = "Heartbeat" /\ told' = told
         \/ /\ m \in TP!Message /\ m.type = "Start" /\ Len(told') = Len(told) + 1
            /\ told'[Len(told) + 1] = TP!ToldNew(m.client)
            /\ \A t \in 1 .. Len(told) :
                 told'[t] = IF TP!Hears(t, m.client) THEN TP!Closed(told[t], "replaced") ELSE told[t]
         \/ /\ m \in TP!Message /\ m.type \in {"Data", "Abort", "End"} /\ Len(told') = Len(told)
            /\ \A t \in 1 .. Len(told) :
                 told'[t] = IF TP!Hears(t, m.client) THEN TP!Given(t, m) ELSE told[t]
  BY <1>1, <1>2, TP!ToldCases, DeliveryFits
<1>4. ASSUME NEW t \in 1 .. Len(told)
      PROVE  \E i \in 1 .. Len(stream) : Receives(told'[t], i, g)
  <2>1. dispatched # 0
    BY <1>2, <1>4 DEF ToldInv
  <2>2. g \in Nat /\ f < g /\ \A k \in (f + 1) .. (g - 1) : Beat(k)
    BY <1>1, <2>1, NothingSkipped
  <2>3. PICK h \in TP!ToldRecords : h = told[t]
    BY <1>2, <1>4, ElementOfSeq
  <2>4. PICK i \in 1 .. Len(stream) : Receives(h, i, f)
    BY <1>4, <2>3 DEF ToldInv, ToldFrom
  <2>5. PICK h2 : h2 = told'[t]
    OBVIOUS
  <2>6. TP!Hears(t, m.client) <=> h.client = m.client /\ h.closed = "no"
    BY <2>3 DEF TP!Hears
  <2>7. m \in TP!Message /\ m.type \in {"Data", "Abort", "End"} =>
          /\ TP!Given(t, m).client = h.client
          /\ m.type = "Abort" => TP!Given(t, m).closed = "abort"
          /\ m.type = "Data" => /\ TP!Given(t, m).closed = "no"
                                /\ TP!Given(t, m).sent = Append(h.sent, m.n)
          /\ m.type = "End" => /\ TP!Given(t, m).closed = "end"
                               /\ TP!Given(t, m).sent = Append(h.sent, m.n)
    BY <2>3, GivenHolds
  <2>8. \/ h2 = IF h.closed = "no" THEN TP!Closed(h, "loss") ELSE h
        \/ m.type = "Heartbeat" /\ h2 = h
        \/ h2 = IF h.client = m.client /\ h.closed = "no" THEN TP!Closed(h, "replaced") ELSE h
        \/ /\ m \in TP!Message /\ m.type \in {"Data", "Abort", "End"}
           /\ h2 = IF h.client = m.client /\ h.closed = "no" THEN TP!Given(t, m) ELSE h
    BY <1>3, <1>4, <2>3, <2>5, <2>6
  <2>9. Says(m, h, h2)
    BY <2>7, <2>8 DEF Says
  <2>10. i \in Nat
    BY <2>4
  <2>11. Receives(h2, i, g)
    BY <1>1, <1>2, <2>2, <2>3, <2>4, <2>9, <2>10, DispatchTells
  <2>12. QED
    BY <2>4, <2>5, <2>11
<1>5. ASSUME m.type = "Start", told'[Len(told) + 1] = TP!ToldNew(m.client)
      PROVE  \E i \in 1 .. Len(stream) : Receives(told'[Len(told) + 1], i, g)
  <2>1. Receives(TP!ToldNew(m.client), g, g)
    BY <1>1, <1>2, <1>5, ReceivesStart
  <2>2. QED
    BY <1>1, <1>5, <2>1
<1>6. \A t \in 1 .. (Len(told) + 1) : t \in 1 .. Len(told) \/ t = Len(told) + 1
  BY <1>2
<1>7. QED
  BY <1>3, <1>4, <1>5, <1>6

\* Only dispatch, and the start of the receiver, change what was told.
LEMMA ToldKept ==
  ASSUME TurnstileInv, CompleteInv, DP!NothingReported', ReceiverNext, ~RestartReceiver, ~Dispatch
  PROVE  /\ told' = told /\ dispatched' = dispatched
         /\ dispatched # 0 => toDispatch'[dispatched] = toDispatch[dispatched]
<1>1. dispatched # 0 => dispatched \in 1 .. Len(toDispatch)
  BY TurnFacts, LenProperties DEF CompleteInv
<1>2. CASE Transmit \/ RestartSender \/ Reblock
  BY <1>2 DEF Transmit, RestartSender, Reblock, threadVars, deliveryVars
<1>3. ASSUME NEW d \in Threads, Decode(d)
      PROVE  /\ told' = told /\ dispatched' = dispatched
             /\ dispatched # 0 => toDispatch'[dispatched] = toDispatch[dispatched]
  <2>1. told' = told /\ dispatched' = dispatched
    BY <1>3 DEF Decode, deliveryVars
  <2>2. CASE UNCHANGED toDispatch
    BY <2>1, <2>2
  <2>3. CASE toDispatch' = Append(toDispatch, decItem[d]) /\ decPc[d] = "turn"
    <3>1. decItem[d] \in Reassembled \cup {Lost}
      BY <2>3, ReceiverAssumption DEF TurnstileInv, DP!TypeOK
    <3>2. QED
      BY <1>1, <2>1, <2>3, <3>1, TurnFacts, AppendProperties
  <2>4. QED
    BY <1>3, <2>2, <2>3, DecodeCases
<1>4. ASSUME NEW w \in Workers, Client(w) PROVE UNCHANGED <<told, dispatched, toDispatch>>
  <2>1. TP!Worker(w) /\ UNCHANGED toDispatch
    BY <1>4, SameWorker DEF Client, threadVars
  <2>2. QED
    BY <2>1 DEF TP!Worker, TP!WorkerReceive, TP!WorkerAcquire, TP!ClientConnect,
                TP!ClientBlock, TP!ClientGivesUp, TP!WorkerSignal, TP!WorkerDrop, TP!dispatchVars
<1>5. QED
  BY <1>2, <1>3, <1>4 DEF ReceiverNext

\* What is told after a step, by its value.
ToldNow(t, h, f) == h = told[t] /\ f = Reached

LEMMA ToldNext ==
  ASSUME NEW t, NEW i, NEW h, NEW f
  PROVE  ToldNow(t, h, f)' /\ Receives(h, i, f)' => ToldFrom(t, i)'
<1>1. ToldNow(t, h, f) /\ Receives(h, i, f) => ToldFrom(t, i)
  BY DEF ToldNow, ToldFrom
<1>2. QED
  BY <1>1, PTL

LEMMA ToldMeans ==
  ASSUME \A t \in 1 .. Len(told') : \E i \in 1 .. Len(stream') : \E h, f :
           h = told'[t] /\ f = Reached' /\ Receives(h, i, f)',
         dispatched' = 0 => told' = <<>>
  PROVE  ToldInv'
<1>1. ASSUME NEW t \in 1 .. Len(told'), NEW i \in 1 .. Len(stream'), NEW h, NEW f,
             h = told'[t], f = Reached', Receives(h, i, f)'
      PROVE  ToldFrom(t, i)'
  BY <1>1, ToldNext DEF ToldNow
<1>2. QED
  BY <1>1 DEF ToldInv

\* A step of which dispatch knows nothing.
LEMMA ToldStands ==
  ASSUME StreamInv, StreamInv', StreamGrows, TurnstileInv, ItemsInv, CompleteInv, ToldInv,
         told' = told, dispatched' = dispatched,
         dispatched # 0 => toDispatch'[dispatched] = toDispatch[dispatched]
  PROVE  ToldInv'
<1>1. /\ DOMAIN stream = 1 .. Len(stream) /\ DOMAIN stream' = 1 .. Len(stream')
      /\ Len(stream) \in Nat /\ Len(stream') \in Nat /\ Len(stream) <= Len(stream')
      /\ Reached \in Nat /\ Reached <= Len(stream)
  BY ReachedRange, LenProperties DEF StreamInv, StreamGrows
<1>2. Reached' = Reached
  BY DEF Reached
<1>3. ASSUME NEW t \in 1 .. Len(told')
      PROVE  \E i \in 1 .. Len(stream') : \E h, f :
               h = told'[t] /\ f = Reached' /\ Receives(h, i, f)'
  <2>1. PICK i \in 1 .. Len(stream) : Receives(told[t], i, Reached)
    BY DEF ToldInv, ToldFrom
  <2>2. PICK h, f : h = told[t] /\ f = Reached /\ Receives(h, i, f)
    BY <2>1
  <2>3. Receives(h, i, f)'
    BY <1>1, <2>1, <2>2, ReceivesKept
  <2>4. i \in 1 .. Len(stream')
    BY <1>1
  <2>5. QED
    BY <1>2, <2>2, <2>3, <2>4
<1>4. QED
  BY <1>3, ToldMeans DEF ToldInv

LEMMA ToldStep ==
  ASSUME TurnstileInv, StreamInv, StreamInv', StreamGrows, WellFormed,
         ItemsInv, CompleteInv, TP!ServedInv, ToldInv,
         DP!NothingReported', ReceiverNext, ~RestartReceiver
  PROVE  ToldInv'
<1>1. /\ DOMAIN stream = 1 .. Len(stream) /\ DOMAIN stream' = 1 .. Len(stream')
      /\ Len(stream) \in Nat /\ Len(stream') \in Nat /\ Len(stream) <= Len(stream')
      /\ Reached \in Nat /\ Reached <= Len(stream)
  BY ReachedRange, LenProperties DEF StreamInv, StreamGrows
<1>2. CASE Dispatch
  <2>1. PICK g : g = toDispatch[dispatched + 1].n + 1
    OBVIOUS
  <2>2. /\ dispatched \in Nat /\ dispatched' = dispatched + 1 /\ g \in 1 .. Len(stream)
        /\ toDispatch' = toDispatch
    BY <1>2, <2>1, DispatchedMessage
  <2>3. dispatched' # 0 /\ Reached' = g
    BY <2>1, <2>2 DEF Reached
  <2>4. ASSUME NEW t \in 1 .. Len(told')
        PROVE  \E i \in 1 .. Len(stream') : \E h, f :
                 h = told'[t] /\ f = Reached' /\ Receives(h, i, f)'
    <3>1. PICK i \in 1 .. Len(stream) : Receives(told'[t], i, g)
      BY <1>2, <2>1, DispatchTold
    <3>2. PICK h : h = told'[t] /\ Receives(h, i, g)
      BY <3>1
    <3>3. Receives(h, i, g)'
      BY <1>1, <2>2, <3>1, <3>2, ReceivesKept
    <3>4. i \in 1 .. Len(stream')
      BY <1>1
    <3>5. QED
      BY <2>3, <3>2, <3>3, <3>4
  <2>5. QED
    BY <2>3, <2>4, ToldMeans
<1>3. CASE ~Dispatch
  BY <1>3, ToldKept, ToldStands
<1>4. QED
  BY <1>2, <1>3

\* A transfer that dispatch was told to have ended was told as a whole: nothing of it
\* follows its End.
LEMMA ToldIsWhole ==
  ASSUME StreamInv, WellFormed, NEW h, NEW i \in 1 .. Len(stream), NEW f \in Nat,
         f <= Len(stream), Receives(h, i, f), h.closed = "end"
  PROVE  i \in Started(h.client) /\ Lists(h.sent, Payloads(i))
<1> DEFINE c == h.client
           Ps == {k \in TransferFrom(i) : stream[k].type \in {"Data", "End"}}
<1>1. Len(stream) \in Nat /\ DOMAIN stream = 1 .. Len(stream)
  BY LenProperties DEF StreamInv
<1>2. i \in Started(c) /\ stream[i].type = "Start" /\ stream[i].client = c
  BY DEF Receives, Started
<1>3. PICK e \in (i + 1) .. f :
        /\ stream[e].type = "End" /\ stream[e].client = c /\ SameSession("sender", i, e)
        /\ \A k \in Between(i, e - 1, c) : stream[k].type = "Data"
        /\ Lists(h.sent, Numbers(Between(i, e, c)))
  BY DEF Receives
<1>4. e \in 1 .. Len(stream) /\ i < e
  BY <1>1
<1>5. ASSUME NEW k \in Ps PROVE k \in Between(i, e, c)
  <2>1. /\ k \in i .. Len(stream) /\ stream[k].client = c /\ ~Beat(k)
        /\ SameSession("sender", i, k) /\ stream[k].type \in {"Data", "End"}
    BY <1>2 DEF TransferFrom, Beat
  <2>2. k # i
    BY <1>2, <2>1
  <2>3. ~(e < k)
    <3> SUFFICES ASSUME e < k PROVE FALSE
      OBVIOUS
    <3>1. SameSession("sender", e, k)
      BY <1>1, <1>4, <2>1, SessionWithin
    <3>2. e \in Earlier(k)
      BY <1>3, <1>4, <2>1, <3>1 DEF Earlier, Beat
    <3>3. k \in 1 .. Len(stream)
      BY <1>1, <2>1
    <3>4. QED
      BY <1>3, <2>1, <3>2, <3>3 DEF WellFormed
  <2>4. k \in (i + 1) .. e
    BY <1>1, <1>4, <2>1, <2>2, <2>3
  <2>5. QED
    BY <2>1, <2>4 DEF Between
<1>6. ASSUME NEW k \in Between(i, e, c) PROVE k \in Ps
  <2>1. k \in (i + 1) .. e /\ stream[k].client = c /\ ~Beat(k)
    BY DEF Between
  <2>2. SameSession("sender", i, k)
    BY <1>3, <1>4, <2>1, SessionWithin
  <2>3. stream[k].type \in {"Data", "End"}
    <3>1. CASE k = e
      BY <1>3, <3>1
    <3>2. CASE k # e
      <4>1. k \in Between(i, e - 1, c)
        BY <2>1, <3>2 DEF Between
      <4>2. QED
        BY <1>3, <4>1
    <3>3. QED
      BY <3>1, <3>2
  <2>4. k \in i .. Len(stream)
    BY <1>1, <1>4, <2>1
  <2>5. QED
    BY <1>2, <2>1, <2>2, <2>3, <2>4 DEF TransferFrom, Beat
<1>7. Ps = Between(i, e, c)
  BY <1>5, <1>6
<1>8. \A k \in Between(i, e, c) : stream[k].n = k - 1
  BY <1>1, <1>4 DEF Between, StreamInv
<1>9. Payloads(i) = Numbers(Between(i, e, c))
  BY <1>7, <1>8 DEF Payloads, Numbers
<1>10. QED
  BY <1>2, <1>3, <1>9

-----------------------------------------------------------------------------
(* The receiving half as a whole *)

\* What holds until a loss is reported: the turnstile works and its blocks are sent
\* ones; a silence and a new window leave no hole; dispatch gets every number of the
\* stream in order; the workers write what dispatch was told, which is what was sent.
UndisturbedInv ==
  /\ TurnstileInv /\ ItemsInv /\ ResetInv /\ CompleteInv
  /\ TP!ServedInv /\ ToldInv

\* The inductive invariant: reblock stays near the link, the sender's stream follows
\* the protocol, and the rest holds until a decoder fails.
ReceiverInv ==
  /\ NearInv /\ StreamInv /\ WellFormed
  /\ DP!TypeOK /\ DP!DispatchedInOrder
  /\ DP!NothingReported => UndisturbedInv

LEMMA ReceiverInvInit == ReceiverInit => ReceiverInv
<1> SUFFICES ASSUME ReceiverInit PROVE ReceiverInv
  OBVIOUS
<1>1. /\ LinkInit /\ D!ThreadsInit /\ T!Init /\ stream = <<>> /\ restarts = <<>>
      /\ Init /\ nextBlk = 0 /\ inFlight = {}
  BY DEF ReceiverInit, LinkInit
<1>2. /\ toDecode = <<>> /\ blockToDispatch = 0 /\ curSeq = 0 /\ toDispatch = <<>>
      /\ decPc = [d \in Threads |-> "recv"] /\ decItem = [d \in Threads |-> NoItem]
      /\ dispatched = 0 /\ told = <<>>
  BY <1>1 DEF Init, D!ThreadsInit, T!Init
<1>3. NearInv
  BY <1>1, LinkInitIsFresh, NearInit
<1>4. StreamInv
  <2>1. <<>> \in Seq(T!Blocks) /\ <<>> \in Seq(Restarts) /\ Len(<<>>) = 0 /\ DOMAIN <<>> = {}
    BY EmptySeq
  <2>2. QED
    BY <1>1, <2>1 DEF StreamInv
<1>5. WellFormed /\ ItemsInv /\ CompleteInv /\ ToldInv
  BY <1>1, <1>2 DEF WellFormed, ItemsInv, CompleteInv, ToldInv
<1>6. TurnstileInv
  BY <1>2, ThreadsStart DEF DP!Init, DP!ThreadsInit
<1>7. ResetInv
  BY <1>1, <1>2 DEF ResetInv, Idle, DP!Busy
<1>8. TP!ServedInv
  <2>1. TP!Init
    BY <1>1, SameWorkers DEF T!Init, TP!Init
  <2>2. QED
    BY <2>1, TP!ServedInit, DeliveryFits
<1>9. DP!TypeOK /\ DP!DispatchedInOrder
  BY <1>2, <1>6 DEF TurnstileInv, DP!DispatchedInOrder
<1>10. QED
  BY <1>3, <1>4, <1>5, <1>6, <1>7, <1>8, <1>9 DEF ReceiverInv, UndisturbedInv

\* What the threads and reblock do to the channel to dispatch.
LEMMA ToDispatchGrows ==
  ASSUME DP!TypeOK, ReceiverNext, ~RestartReceiver
  PROVE  /\ \/ UNCHANGED toDispatch
            \/ \E x \in Reassembled \cup {Lost} : toDispatch' = Append(toDispatch, x)
         /\ DP!NothingReported' => DP!NothingReported
<1>1. \/ UNCHANGED toDispatch
      \/ \E x \in Reassembled \cup {Lost} : toDispatch' = Append(toDispatch, x)
  <2>1. ASSUME NEW d \in Threads, Decode(d)
        PROVE  \/ UNCHANGED toDispatch
               \/ \E x \in Reassembled \cup {Lost} : toDispatch' = Append(toDispatch, x)
    <3>1. DP!Take(d) \/ DP!Report(d) \/ DP!Pass(d)
      BY <2>1, SameThread DEF Decode
    <3>2. DP!Pass(d) => decItem[d] \in Reassembled
      BY DEF DP!Pass, DP!TypeOK
    <3>3. QED
      BY <3>1, <3>2 DEF DP!Take, DP!Report, DP!Pass
  <2>2. QED
    BY <2>1 DEF ReceiverNext, Transmit, RestartSender, Reblock, Dispatch, Client, threadVars
<1>2. CASE UNCHANGED toDispatch
  BY <1>2 DEF DP!NothingReported
<1>3. ASSUME NEW x \in Reassembled \cup {Lost}, toDispatch' = Append(toDispatch, x)
      PROVE  DP!NothingReported' => DP!NothingReported
  <2>1. /\ Len(toDispatch) \in Nat /\ Len(toDispatch') = Len(toDispatch) + 1
        /\ \A i \in 1 .. Len(toDispatch) : toDispatch'[i] = toDispatch[i]
    BY <1>3, AppendProperties, LenProperties DEF DP!TypeOK
  <2>2. QED
    BY <2>1 DEF DP!NothingReported
<1>4. QED
  BY <1>1, <1>2, <1>3

LEMMA ThreadTypesStep ==
  ASSUME DP!TypeOK, NearInv', ReceiverNext, ~RestartReceiver
  PROVE  DP!TypeOK'
<1>1. ASSUME NEW d \in Threads, Decode(d) PROVE DP!TypeOK'
  <2>1. DP!Thread(d) /\ UNCHANGED curSeq
    BY <1>1, SameThread DEF Decode
  <2>2. QED
    BY <2>1, DP!ThreadTypes, DecodersFit
<1>2. CASE UNCHANGED <<decPc, decItem, toDispatch>>
  BY <1>2, SameIds DEF DP!TypeOK, NearInv, UnmixedInv, WindowInv, TypeOK
<1>3. QED
  BY <1>1, <1>2
     DEF ReceiverNext, Transmit, RestartSender, Reblock, Dispatch, Client, threadVars

\* A receiver that is started again is undisturbed, whatever it went through before.
LEMMA RestartStep ==
  ASSUME StreamInv', RestartReceiver
  PROVE  UndisturbedInv' /\ DP!TypeOK' /\ DP!DispatchedInOrder'
<1>1. /\ inFlight' = {} /\ curSeq' = 0 /\ toDecode' = <<>> /\ toDispatch' = <<>>
      /\ blockToDispatch' = 0 /\ decPc' = [d \in Threads |-> "recv"]
      /\ decItem' = [d \in Threads |-> NoItem] /\ dispatched' = 0 /\ told' = <<>>
  BY DEF RestartReceiver
<1>2. TurnstileInv'
  <2>1. DP!Init'
    BY <1>1 DEF DP!Init, DP!ThreadsInit
  <2>2. QED
    BY <2>1, ThreadsRestart
<1>3. ItemsInv' /\ CompleteInv'
  BY <1>1 DEF ItemsInv, CompleteInv
<1>4. ResetInv'
  <2>1. DP!Busy' = {}
    BY <1>1 DEF DP!Busy
  <2>2. curSeq' <= nextBlk'
    BY <1>1 DEF StreamInv
  <2>3. QED
    BY <1>1, <2>1, <2>2 DEF ResetInv, Idle
<1>5. TP!ServedInv'
  <2>1. TP!Init'
    BY SameWorkers DEF RestartReceiver, TP!Init
  <2>2. QED
    BY <2>1, ServiceRestarts
<1>6. ToldInv'
  BY <1>1, ToldMeans
<1>7. DP!DispatchedInOrder'
  BY <1>1 DEF DP!DispatchedInOrder
<1>8. QED
  BY <1>2, <1>3, <1>4, <1>5, <1>6, <1>7 DEF UndisturbedInv, TurnstileInv

\* Before the report of a loss, every other step leaves the receiver undisturbed.
LEMMA UndisturbedStep ==
  ASSUME InTime, Reliable, NearInv, StreamInv, StreamInv', StreamGrows, WellFormed,
         UndisturbedInv, DP!TypeOK', DP!NothingReported', ReceiverNext, ~RestartReceiver
  PROVE  UndisturbedInv'
<1> USE DEF UndisturbedInv, Reliable
<1>1. TurnstileInv' /\ ItemsInv' /\ ResetInv'
  BY TurnstileStep, ItemsStep, ResetStep
<1>2. CompleteInv'
  BY <1>1, CompleteStep
<1>3. TP!ServedInv' /\ ToldInv'
  BY ServiceStep, ToldStep
<1>4. QED
  BY <1>1, <1>2, <1>3

LEMMA ReceiverInvStep ==
  ASSUME InTime, Reliable, ReceiverInv, ReceiverNext
  PROVE  ReceiverInv'
<1> USE DEF ReceiverInv
<1>1. StreamInv' /\ StreamGrows /\ faults' = faults
  BY StreamStep
<1>2. WellFormed' /\ NearInv'
  BY <1>1, WellFormedStep, NearPart DEF Reliable
<1>3. CASE RestartReceiver
  BY <1>1, <1>2, <1>3, RestartStep
<1>4. CASE ~RestartReceiver
  <2>1. DP!TypeOK'
    BY <1>2, <1>4, ThreadTypesStep
  <2>2. DP!NothingReported' => UndisturbedInv'
    BY <1>1, <1>4, <2>1, ToDispatchGrows, UndisturbedStep
  <2>3. DP!DispatchedInOrder'
    <3>1. DP!TurnInv'
      BY <2>2 DEF UndisturbedInv, TurnstileInv, DP!TurnInv
    <3>2. QED
      BY <1>4, <3>1, ToDispatchGrows, DP!OrderKept, DecodersFit
  <2>4. QED
    BY <1>1, <1>2, <2>1, <2>2, <2>3
<1>5. QED
  BY <1>3, <1>4

LEMMA ReceiverInvStutter ==
  ASSUME InTime, Reliable, ReceiverInv, UNCHANGED receiverVars
  PROVE  ReceiverInv'
<1> USE DEF ReceiverInv, Reliable
<1>1. /\ UNCHANGED <<pc, batch, toDecode, blockToDispatch, handed>> /\ UNCHANGED windowVars
      /\ UNCHANGED <<nextBlk, inFlight, harmed, faults, sent>>
      /\ UNCHANGED <<decPc, decItem, toDispatch>> /\ UNCHANGED deliveryVars
      /\ UNCHANGED <<stream, restarts>>
  BY DEF receiverVars, reblockVars, linkVars, threadVars, senderVars
<1>2. UNCHANGED <<reset, curId, blocksData, blocksIgnore, curSeq>>
  BY <1>1 DEF windowVars
<1>3. UNCHANGED <<active, ended, transfers, toClients, permits, wkPc, wkTransfer, dispatched, told>>
  BY <1>1 DEF deliveryVars
<1>4. NearInv'
  <2>1. UNCHANGED vars
    BY <1>1 DEF vars, reblockVars, linkVars
  <2>2. QED
    BY <2>1, NearInvStep DEF InTime
<1>5. StreamInv' /\ StreamGrows
  BY <1>1 DEF StreamInv, StreamGrows, Beat, SameSession
<1>6. WellFormed'
  BY <1>1 DEF WellFormed, Earlier, Beat, SameSession
<1>7. DP!TypeOK' /\ DP!DispatchedInOrder' /\ (DP!NothingReported' => DP!NothingReported)
  BY <1>1, <1>2 DEF DP!TypeOK, DP!DispatchedInOrder, DP!NothingReported
<1>8. ASSUME UndisturbedInv PROVE UndisturbedInv'
  <2> USE DEF UndisturbedInv
  <2>1. TurnstileInv' /\ DP!Turn' = DP!Turn /\ DP!Busy' = DP!Busy
    BY <1>1, <1>2, <1>8, TurnstileKept DEF decodeView
  <2>2. ItemsInv'
    BY <1>1, <1>8 DEF ItemsInv, GoodItem
  <2>3. ResetInv'
    BY <1>1, <1>2, <1>8, <2>1 DEF ResetInv, Idle, Beat
  <2>4. CompleteInv'
    BY <1>1, <1>3, <1>8, <2>1 DEF CompleteInv, Beat
  <2>5. TP!ServedInv'
    BY <1>3, <1>8, TP!ServedStep, DeliveryFits DEF TP!deliveryVars, TP!dispatchVars, TP!workerVars
  <2>6. ToldInv'
    BY <1>1, <1>3, <1>5, <1>8, ToldStands
  <2>7. QED
    BY <2>1, <2>2, <2>3, <2>4, <2>5, <2>6
<1>9. QED
  BY <1>4, <1>5, <1>6, <1>7, <1>8

LEMMA ReceiverInvSucceeds ==
  ASSUME ReceiverInv, DP!NothingReported
  PROVE  SuccessIsComplete
<1> USE DEF ReceiverInv, UndisturbedInv
<1>1. /\ TP!DataTypes /\ TP!SuccessInv
      /\ DOMAIN transfers = 1 .. Len(transfers) /\ Len(told) = Len(transfers)
  BY LenProperties DEF TP!ServedInv, TP!DataTypes
<1> SUFFICES ASSUME NEW t \in DOMAIN transfers, transfers[t].outcome = "success"
             PROVE  \E i \in Started(transfers[t].client) :
                      Lists(transfers[t].written, Payloads(i))
  BY DEF SuccessIsComplete
<1>2. /\ transfers[t].client = told[t].client /\ told[t].closed = "end"
      /\ transfers[t].written = told[t].sent /\ t \in 1 .. Len(told)
  BY <1>1 DEF TP!SuccessInv, TP!Transfers
<1>3. PICK i \in 1 .. Len(stream) : Receives(told[t], i, Reached)
  BY <1>2 DEF ToldInv, ToldFrom
<1>4. Reached \in Nat /\ Reached <= Len(stream)
  BY ReachedRange
<1>5. i \in Started(told[t].client) /\ Lists(told[t].sent, Payloads(i))
  BY <1>2, <1>3, <1>4, ToldIsWhole
<1>6. QED
  BY <1>2, <1>5

\* ReceiverInv holds on a reliable link that is quiet in time.
THEOREM ReceiverInvariant == InTime => (ReceiverSpec => [](Reliable => ReceiverInv))
<1> SUFFICES ASSUME InTime PROVE ReceiverSpec => [](Reliable => ReceiverInv)
  OBVIOUS
<1>1. ReceiverInit => (Reliable => ReceiverInv)
  BY ReceiverInvInit
<1>2. (Reliable => ReceiverInv) /\ [ReceiverNext]_receiverVars => (Reliable => ReceiverInv)'
  <2> SUFFICES ASSUME Reliable => ReceiverInv, [ReceiverNext]_receiverVars, Reliable'
               PROVE  ReceiverInv'
    OBVIOUS
  <2>1. faults' = faults
    <3>1. CASE UNCHANGED receiverVars
      BY <3>1 DEF receiverVars, linkVars
    <3>2. CASE ReceiverNext
      BY <3>2, StreamKept DEF Transmit, RestartSender, SendPackets, SenderRestarts
    <3>3. QED
      BY <3>1, <3>2
  <2>2. Reliable
    BY <2>1 DEF Reliable, LosesNothing
  <2>3. QED
    BY <2>2, ReceiverInvStep, ReceiverInvStutter
<1>3. QED
  BY <1>1, <1>2, PTL DEF ReceiverSpec

\* What is proved of reblock and of the decoders on their own holds of them as parts of
\* the receiver, where each is fed by the one before it: no block is a mix of two, none
\* is handed over twice or late, and, until one that cannot be decoded makes a decoder
\* report a loss, dispatch gets them in the order of the sender, wherever the programs
\* are restarted.
THEOREM PartsInOrder ==
  Timely /\ QuietResets /\ MaxSkew <= WindowWidth =>
    (ReceiverSpec =>
       [](Reliable => BlocksUnmixed /\ HandedIncreasing /\ D!DispatchedInOrder))
<1> SUFFICES ASSUME Timely, QuietResets, MaxSkew <= WindowWidth
             PROVE  ReceiverSpec =>
                      [](Reliable => BlocksUnmixed /\ HandedIncreasing /\ D!DispatchedInOrder)
  OBVIOUS
<1>1. InTime
  BY DEF InTime
<1>2. ReceiverInv => BlocksUnmixed /\ HandedIncreasing
  BY DEF ReceiverInv, NearInv, UnmixedInv, HandedInv
<1>3. ReceiverInv => D!DispatchedInOrder
  BY DEF ReceiverInv, DP!DispatchedInOrder, D!DispatchedInOrder
<1>4. QED
  BY <1>1, <1>2, <1>3, ReceiverInvariant, PTL

\* A transfer that ends as a success was delivered whole, wherever either program is
\* restarted and whatever silences, duplicates and reordering there are: on a link that
\* loses nothing, on which no packet of a later block comes first after a silence, that
\* is quiet before reset_timeout (Timely, QuietResets) and skewed by no more than a
\* window, for as long as the receiver was told of no loss: by raptorq (DecodeFails), or
\* by a block that duplicates completed too early.
THEOREM DeliveredWhole ==
  Timely /\ QuietResets /\ MaxSkew <= WindowWidth =>
    (ReceiverSpec =>
       [](Reliable /\ (\A k \in 1 .. Len(toDispatch) : toDispatch[k] # Lost)
            => SuccessIsComplete))
<1> SUFFICES ASSUME Timely, QuietResets, MaxSkew <= WindowWidth
             PROVE  ReceiverSpec =>
                      [](Reliable /\ (\A k \in 1 .. Len(toDispatch) : toDispatch[k] # Lost)
                           => SuccessIsComplete)
  OBVIOUS
<1>1. InTime
  BY DEF InTime
<1>2. ReceiverInv /\ (\A k \in 1 .. Len(toDispatch) : toDispatch[k] # Lost) => SuccessIsComplete
  BY ReceiverInvSucceeds DEF DP!NothingReported
<1>3. QED
  BY <1>1, <1>2, ReceiverInvariant, PTL

-----------------------------------------------------------------------------
(* On a link that duplicates nothing no loss is ever reported *)

\* No element of s comes twice.
Once(s) == \A i, j \in 1 .. Len(s) : s[i] = s[j] => i = j

\* Each packet is in one place at most, so what is counted for a block are different
\* packets of it, with which raptorq decodes it.
SingleInv ==
  /\ Once(batch) /\ \A i \in 1 .. Len(batch) : batch[i] \notin inFlight
  /\ \A id \in Ids : /\ Once(blocksData[id])
                     /\ \A k \in 1 .. Len(blocksData[id]) :
                          /\ blocksData[id][k] \notin inFlight
                          /\ \A i \in 1 .. Len(batch) : batch[i] # blocksData[id][k]
  /\ \A i \in 1 .. Len(toDecode) : HasEnough(toDecode[i])
  /\ \A d \in Threads : decPc[d] # "report"
  /\ DP!NothingReported

\* As many different symbols as there are packets, all of one block.
LEMMA OnceIsEnough ==
  ASSUME NEW x \in Reassembled, Once(x.packets), Len(x.packets) >= MinPackets,
         NEW b, \A k \in 1 .. Len(x.packets) : x.packets[k].blk = b
  PROVE  HasEnough(x)
<1> DEFINE q == x.packets
           symbols == {q[k].sym : k \in DOMAIN q}
           f == [k \in 1 .. Len(q) |-> q[k].sym]
<1>1. /\ q \in Seq(Packets) /\ Len(q) \in Nat /\ DOMAIN q = 1 .. Len(q)
      /\ \A k \in 1 .. Len(q) : q[k] \in Packets
  BY LenProperties, ElementOfSeq DEF Reassembled
<1>2. \A k, l \in 1 .. Len(q) : q[k].sym = q[l].sym => k = l
  <2>1. \A p, r \in Packets : p.blk = r.blk /\ p.sym = r.sym => p = r
    BY DEF Packets
  <2>2. QED
    BY <1>1, <2>1 DEF Once
<1> HIDE DEF q
<1>3. f \in Bijection(1 .. Len(q), symbols)
  <2>1. f \in [1 .. Len(q) -> symbols] /\ \A s \in symbols : \E k \in 1 .. Len(q) : f[k] = s
    BY <1>1
  <2>2. IsInjective(f)
    BY <1>2 DEF IsInjective
  <2>3. QED
    BY <2>1, <2>2 DEF Bijection, Injection, Surjection
<1>4. Cardinality(symbols) = Len(q)
  <2>1. IsFiniteSet(1 .. Len(q)) /\ Cardinality(1 .. Len(q)) = Len(q)
    BY <1>1, FS_Interval
  <2>2. ExistsBijection(1 .. Len(q), symbols)
    BY <1>3 DEF ExistsBijection
  <2>3. QED
    BY <2>1, <2>2, FS_Bijection, <1>3
<1>5. Cardinality(symbols) >= SymbolCount
  BY <1>1, <1>4, ReceiverAssumption DEF q
<1>6. QED
  BY <1>5 DEF HasEnough, q

\* What the link delivers at once are different packets.
LEMMA ArrivalsDiffer ==
  ASSUME NEW d \in Arrivals
  PROVE  Once(d) /\ DOMAIN d = 1 .. Len(d)
<1>1. PICK n \in 1 .. MaxBatch : d \in [1 .. n -> inFlight]
  BY DEF Arrivals
<1>2. n \in Nat /\ Len(d) = n /\ DOMAIN d = 1 .. n
  BY <1>1, ReblockLinkAssumption
<1> DEFINE values == {d[i] : i \in DOMAIN d}
<1>3. d \in Surjection(1 .. n, values)
  BY <1>1, <1>2 DEF Surjection
<1>4. Cardinality(values) = n
  BY <1>2 DEF Arrivals
<1>5. IsFiniteSet(1 .. n) /\ Cardinality(1 .. n) = n
  BY <1>2, FS_Interval
<1>6. d \in Injection(1 .. n, values)
  BY <1>3, <1>4, <1>5, FS_Surjection
<1>7. QED
  BY <1>2, <1>6 DEF Injection, IsInjective, Once

LEMMA SingleInit == ReceiverInit => SingleInv
<1> SUFFICES ASSUME ReceiverInit PROVE SingleInv
  OBVIOUS
<1>1. /\ batch = <<>> /\ blocksData = [id \in Ids |-> <<>>] /\ toDecode = <<>>
      /\ decPc = [d \in Threads |-> "recv"] /\ toDispatch = <<>>
  BY DEF ReceiverInit, LinkInit, Init, D!ThreadsInit
<1>2. QED
  BY <1>1 DEF SingleInv, Once, DP!NothingReported

LEMMA SingleRestarts == ASSUME RestartReceiver PROVE SingleInv'
<1>1. /\ batch' = <<>> /\ blocksData' = [id \in Ids |-> <<>>] /\ toDecode' = <<>>
      /\ decPc' = [d \in Threads |-> "recv"] /\ toDispatch' = <<>>
  BY DEF RestartReceiver
<1>2. QED
  BY <1>1 DEF SingleInv, Once, DP!NothingReported

\* The packets of a new block are none of the old ones.
LEMMA SingleSends ==
  ASSUME NearInv, SingleInv, Transmit \/ RestartSender
  PROVE  SingleInv'
<1>1. /\ UNCHANGED <<batch, blocksData, toDecode, decPc, toDispatch>>
      /\ \A p \in inFlight' : p \in inFlight \/ p.blk = nextBlk
  <2>1. UNCHANGED <<batch, blocksData, toDecode, decPc, toDispatch>>
    BY DEF Transmit, RestartSender, SendPackets, SenderRestarts, reblockVars, windowVars, threadVars
  <2>2. Transmit => \A p \in inFlight' : p \in inFlight \/ p.blk = nextBlk
    BY DEF Transmit, SendPackets
  <2>3. RestartSender => inFlight' = inFlight
    BY DEF RestartSender, SenderRestarts
  <2>4. QED
    BY <2>1, <2>2, <2>3
<1>2. /\ nextBlk \in Nat
      /\ \A i \in 1 .. Len(batch) : batch[i].blk < nextBlk
      /\ \A id \in Ids : \A k \in 1 .. Len(blocksData[id]) : blocksData[id][k].blk < nextBlk
  BY DEF NearInv, HandedInv, AllSent
<1>3. \A n \in Nat : ~(n < n)
  OBVIOUS
<1>4. QED
  BY <1>1, <1>2, <1>3 DEF SingleInv, DP!NothingReported

LEMMA SingleDelivers ==
  ASSUME NearInv, SingleInv, "duplicate" \notin faults, Deliver,
         UNCHANGED <<decPc, toDispatch>>
  PROVE  SingleInv'
<1>1. PICK d \in Arrivals :
        Receive(d) /\ inFlight' = inFlight \ {d[i] : i \in DOMAIN d}
  BY DEF Deliver
<1>2. /\ batch' = d /\ toDecode' = toDecode
      /\ blocksData' = [id \in Ids |-> <<>>] \/ blocksData' = blocksData
  BY <1>1 DEF Receive, StartWindow
<1>3. Once(d) /\ \A i \in 1 .. Len(d) : d[i] \notin inFlight' /\ d[i] \in inFlight
  BY <1>1, ArrivalsDiffer, ArrivalsAreInFlight, NearTypes
<1>4. \A id \in Ids : /\ Once(blocksData'[id])
                      /\ \A k \in 1 .. Len(blocksData'[id]) : blocksData'[id][k] \notin inFlight
  BY <1>2 DEF SingleInv, Once
<1>5. inFlight' \subseteq inFlight
  BY <1>1
<1>6. QED
  BY <1>2, <1>3, <1>4, <1>5 DEF SingleInv, DP!NothingReported, Once

LEMMA SinglePush ==
  ASSUME NearInv, SingleInv, Push, UNCHANGED <<linkVars, decPc, toDispatch>>
  PROVE  SingleInv'
<1> DEFINE q == Head(batch)
           id == PacketId(q)
<1>1. /\ batch \in Seq(Packets) /\ batch # <<>> /\ batch' = Tail(batch)
      /\ blocksData \in [Ids -> Seq(Packets)]
      /\ blocksData' = blocksData \/ blocksData' = [blocksData EXCEPT ![id] = Append(@, q)]
      /\ UNCHANGED <<inFlight, toDecode>>
  BY NearTypes DEF TypeOK, Push, linkVars
<1>2. /\ q \in Packets /\ id \in Ids /\ q = batch[1] /\ Len(batch) \in Nat /\ Len(batch) >= 1
      /\ Len(batch') = Len(batch) - 1 /\ \A j \in 1 .. Len(batch') : batch'[j] = batch[j + 1]
  BY <1>1, HeadTailProperties, PacketIdType, LenProperties, EmptySeq
<1> HIDE DEF q, id
<1>3. /\ Once(batch')
      /\ \A j \in 1 .. Len(batch') : batch'[j] # q /\ \E i \in 1 .. Len(batch) : batch'[j] = batch[i]
      /\ q \notin inFlight
  <2>1. \A j \in 1 .. Len(batch') : j + 1 \in 1 .. Len(batch) /\ j + 1 # 1
    BY <1>2
  <2>2. 1 \in 1 .. Len(batch)
    BY <1>2
  <2>3. \A j \in 1 .. Len(batch') : batch'[j] # q
    BY <1>2, <2>1, <2>2 DEF SingleInv, Once
  <2>4. Once(batch')
    <3>1. SUFFICES ASSUME NEW i \in 1 .. Len(batch'), NEW j \in 1 .. Len(batch'), batch'[i] = batch'[j]
                   PROVE  i = j
      BY DEF Once
    <3>2. i + 1 = j + 1
      BY <1>2, <2>1, <3>1 DEF SingleInv, Once
    <3>3. QED
      BY <1>2, <3>2
  <2>5. QED
    BY <1>2, <2>1, <2>2, <2>3, <2>4 DEF SingleInv
<1>4. ASSUME NEW x \in Ids
      PROVE  /\ Once(blocksData'[x])
             /\ \A k \in 1 .. Len(blocksData'[x]) :
                  /\ blocksData'[x][k] \notin inFlight
                  /\ \A i \in 1 .. Len(batch') : batch'[i] # blocksData'[x][k]
  <2>1. CASE blocksData'[x] = blocksData[x]
    BY <1>3, <2>1 DEF SingleInv
  <2>2. CASE blocksData'[x] = Append(blocksData[x], q)
    <3>1. blocksData[x] \in Seq(Packets) /\ Len(blocksData[x]) \in Nat
      BY <1>1, LenProperties
    <3>2. /\ Len(blocksData'[x]) = Len(blocksData[x]) + 1
          /\ \A k \in 1 .. Len(blocksData[x]) : blocksData'[x][k] = blocksData[x][k]
          /\ blocksData'[x][Len(blocksData[x]) + 1] = q
      BY <1>2, <2>2, <3>1, AppendProperties
    <3>3. \A k \in 1 .. Len(blocksData'[x]) : k \in 1 .. Len(blocksData[x]) \/ k = Len(blocksData[x]) + 1
      BY <3>1, <3>2
    <3>4. \A k \in 1 .. Len(blocksData[x]) : blocksData[x][k] # q
      <4>1. 1 \in 1 .. Len(batch)
        BY <1>2
      <4>2. QED
        BY <1>2, <4>1 DEF SingleInv
    <3>5. Once(blocksData'[x])
      BY <3>2, <3>3, <3>4 DEF SingleInv, Once
    <3>6. QED
      BY <1>3, <3>2, <3>3, <3>5 DEF SingleInv
  <2>3. QED
    BY <1>1, <1>2, <2>1, <2>2
<1>5. QED
  BY <1>1, <1>3, <1>4 DEF SingleInv, DP!NothingReported

LEMMA SingleAdvance ==
  ASSUME NearInv, SingleInv, Advance, UNCHANGED <<linkVars, decPc, toDispatch>>
  PROVE  SingleInv'
<1>1. /\ toDecode' = Append(toDecode, Current) /\ Current \in Reassembled
      /\ toDecode \in Seq(Reassembled \cup {SyncLost})
  BY AdvanceHands, NearTypes DEF GoodItem
<1>2. /\ ~reset /\ curId \in Ids /\ blocksData \in [Ids -> Seq(Packets)] /\ curSeq \in Nat
      /\ UNCHANGED <<batch, inFlight>> /\ blocksData' = [blocksData EXCEPT ![curId] = <<>>]
      /\ Current.packets = blocksData[curId] /\ CurrentReady
  BY NearTypes DEF TypeOK, Advance, Current, linkVars
<1>3. HasEnough(Current)
  <2>1. \A k \in 1 .. Len(Current.packets) : Current.packets[k].blk = curSeq + Ahead(curId, curId)
    BY <1>2 DEF NearInv, UnmixedInv, KeptInWindow
  <2>2. Once(Current.packets) /\ Len(Current.packets) >= MinPackets
    BY <1>2 DEF SingleInv, CurrentReady
  <2>3. QED
    BY <1>1, <2>1, <2>2, OnceIsEnough
<1>4. \A i \in 1 .. Len(toDecode') : HasEnough(toDecode'[i])
  <2>1. /\ Len(toDecode') = Len(toDecode) + 1 /\ Len(toDecode) \in Nat
        /\ \A i \in 1 .. Len(toDecode) : toDecode'[i] = toDecode[i]
        /\ toDecode'[Len(toDecode) + 1] = Current
    BY <1>1, AppendProperties, LenProperties
  <2>2. QED
    BY <1>3, <2>1 DEF SingleInv
<1>5. \A id \in Ids : blocksData'[id] = blocksData[id] \/ blocksData'[id] = <<>>
  BY <1>2
<1>6. QED
  BY <1>2, <1>4, <1>5 DEF SingleInv, Once, DP!NothingReported

\* What a decoder takes has enough packets, so there is nothing to report.
LEMMA SingleDecodes ==
  ASSUME ~DecodeFails, NearInv, DP!TypeOK, SingleInv, NEW d \in Threads, Decode(d)
  PROVE  SingleInv'
<1>1. /\ UNCHANGED <<batch, blocksData, inFlight>>
      /\ DP!Take(d) \/ DP!Report(d) \/ DP!Pass(d)
  BY SameThread DEF Decode, linkVars
<1>2. /\ toDecode \in Seq(Reassembled \cup {SyncLost}) /\ NeverReportsLoss
      /\ decPc \in [Threads -> {"recv", "turn", "report"}]
      /\ toDispatch \in Seq(Reassembled \cup {Lost})
  BY NearTypes DEF DP!TypeOK
<1>3. CASE DP!Take(d)
  <2>1. /\ toDecode # <<>> /\ toDecode' = Tail(toDecode) /\ toDispatch' = toDispatch
        /\ \/ decPc' = [decPc EXCEPT ![d] = "turn"]
           \/ Head(toDecode) \notin {x \in Reassembled : HasEnough(x)}
    BY <1>3 DEF DP!Take
  <2>2. /\ Head(toDecode) = toDecode[1] /\ 1 \in 1 .. Len(toDecode) /\ Len(toDecode) \in Nat
        /\ Head(toDecode) \in Reassembled \cup {SyncLost}
        /\ Len(toDecode') = Len(toDecode) - 1
        /\ \A i \in 1 .. Len(toDecode') : toDecode'[i] = toDecode[i + 1]
    BY <1>2, <2>1, HeadTailProperties, LenProperties, EmptySeq
  <2>3. HasEnough(Head(toDecode)) /\ Head(toDecode) # SyncLost
    BY <1>2, <2>2 DEF SingleInv, NeverReportsLoss
  <2>4. decPc' = [decPc EXCEPT ![d] = "turn"]
    BY <2>1, <2>2, <2>3
  <2>5. \A i \in 1 .. Len(toDecode') : HasEnough(toDecode'[i])
    BY <2>2 DEF SingleInv
  <2>6. QED
    BY <1>1, <1>2, <2>1, <2>4, <2>5 DEF SingleInv, Once, DP!NothingReported
<1>4. CASE DP!Report(d)
  BY <1>4 DEF DP!Report, SingleInv
<1>5. CASE DP!Pass(d)
  <2>1. /\ toDispatch' = Append(toDispatch, decItem[d]) /\ toDecode' = toDecode
        /\ decPc' = [decPc EXCEPT ![d] = "recv"] /\ decItem[d] \in Reassembled
    BY <1>5 DEF DP!Pass, DP!TypeOK
  <2>2. decItem[d] # Lost
    BY <2>1, ReceiverAssumption
  <2>3. /\ Len(toDispatch') = Len(toDispatch) + 1 /\ Len(toDispatch) \in Nat
        /\ \A i \in 1 .. Len(toDispatch) : toDispatch'[i] = toDispatch[i]
        /\ toDispatch'[Len(toDispatch) + 1] = decItem[d]
    BY <1>2, <2>1, AppendProperties, LenProperties
  <2>4. DP!NothingReported'
    BY <2>2, <2>3 DEF SingleInv, DP!NothingReported
  <2>5. QED
    BY <1>1, <1>2, <2>1, <2>4 DEF SingleInv, Once
<1>6. QED
  BY <1>1, <1>3, <1>4, <1>5

LEMMA SingleStep ==
  ASSUME ~DecodeFails, "duplicate" \notin faults, NearInv, DP!TypeOK, SingleInv,
         [ReceiverNext]_receiverVars
  PROVE  SingleInv'
<1>1. CASE UNCHANGED <<batch, blocksData, inFlight, toDecode, decPc, toDispatch>>
  BY <1>1 DEF SingleInv, Once, DP!NothingReported
<1>2. CASE Reblock
  <2>1. UNCHANGED <<decPc, toDispatch>>
    BY <1>2 DEF Reblock, threadVars
  <2>2. CASE Silence
    <3>1. Timeout /\ UNCHANGED inFlight
      BY <2>2 DEF Silence, SilentTimeout, linkVars
    <3>2. toDecode' = toDecode
      BY <3>1, NearTypes DEF Timeout, WindowInv, IgnoredIdsEmpty
    <3>3. QED
      BY <1>1, <2>1, <3>1, <3>2 DEF Timeout
  <2>3. CASE Wait /\ UNCHANGED linkVars
    BY <1>1, <2>1, <2>3 DEF Wait, windowVars, linkVars
  <2>4. QED
    BY <1>2, <2>1, <2>2, <2>3, SingleDelivers, SinglePush, SingleAdvance DEF Reblock
<1>3. CASE UNCHANGED receiverVars
  BY <1>1, <1>3 DEF receiverVars, reblockVars, windowVars, linkVars, threadVars
<1>4. CASE Dispatch \/ \E w \in Workers : Client(w)
  BY <1>1, <1>4 DEF Dispatch, Client, reblockVars, windowVars, linkVars, threadVars
<1>5. QED
  BY <1>2, <1>3, <1>4, SingleSends, SingleRestarts, SingleDecodes DEF ReceiverNext

\* On a link that duplicates nothing, and with a raptorq that decodes whatever has
\* enough different packets, no loss is ever reported, so that DeliveredWhole holds all
\* the time: each success is a whole transfer, and dispatch gets all the sender's blocks
\* in order, wherever the programs are restarted.
THEOREM SinglesDeliverWhole ==
  Timely /\ QuietResets /\ MaxSkew <= WindowWidth /\ ~DecodeFails =>
    (ReceiverSpec =>
       [](Reliable /\ "duplicate" \notin faults
            => SuccessIsComplete /\ \A k \in 1 .. Len(toDispatch) : toDispatch[k] # Lost))
<1> SUFFICES ASSUME Timely, QuietResets, MaxSkew <= WindowWidth, ~DecodeFails
             PROVE  ReceiverSpec =>
                      [](Reliable /\ "duplicate" \notin faults
                           => SuccessIsComplete /\ \A k \in 1 .. Len(toDispatch) : toDispatch[k] # Lost)
  OBVIOUS
<1> DEFINE Single == Reliable /\ "duplicate" \notin faults
<1>1. InTime
  BY DEF InTime
<1>2. ReceiverInit => (Single => SingleInv)
  BY SingleInit
<1>3. /\ Reliable => ReceiverInv
      /\ Single => SingleInv
      /\ [ReceiverNext]_receiverVars
      => (Single => SingleInv)'
  <2> SUFFICES ASSUME Reliable => ReceiverInv, Single => SingleInv,
                      [ReceiverNext]_receiverVars, Single'
               PROVE  SingleInv'
    OBVIOUS
  <2>1. faults' = faults
    <3>1. CASE UNCHANGED receiverVars
      BY <3>1 DEF receiverVars, linkVars
    <3>2. CASE ReceiverNext
      BY <3>2, StreamKept DEF Transmit, RestartSender, SendPackets, SenderRestarts
    <3>3. QED
      BY <3>1, <3>2
  <2>2. Single
    BY <2>1 DEF Reliable, LosesNothing
  <2>3. QED
    BY <2>2, SingleStep DEF ReceiverInv
<1>4. (Reliable => ReceiverInv) /\ (Single => SingleInv)
      => (Single => /\ SuccessIsComplete
                    /\ \A k \in 1 .. Len(toDispatch) : toDispatch[k] # Lost)
  BY ReceiverInvSucceeds DEF SingleInv, DP!NothingReported
<1>5. QED
  BY <1>1, <1>2, <1>3, <1>4, ReceiverInvariant, PTL DEF ReceiverSpec

=============================================================================
