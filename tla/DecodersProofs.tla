--------------------------- MODULE DecodersProofs ---------------------------
(***************************************************************************)
(* Proofs about the decoding threads, for any number of threads below the  *)
(* number of ids, any set of blocks, with or without decoding failures.    *)
(***************************************************************************)
EXTENDS Decoders, BlockIdsProofs, SequenceTheorems, FiniteSetTheorems, TLAPS

USE IdModulusAssumption, DecodersAssumption

LEMMA TypeInit == Init => TypeOK
  BY EmptySeq DEF Init, ThreadsInit, TypeOK, Ids

LEMMA ThreadTypes ==
  ASSUME TypeOK, NEW d \in Threads, Thread(d), UNCHANGED handedOver
  PROVE  TypeOK'
<1>1. CASE Take(d)
  <2>1. toDecode' \in Seq(Items \cup {SyncLost}) /\ Head(toDecode) \in Items \cup {SyncLost}
    BY <1>1, HeadTailProperties DEF Take, TypeOK
  <2>2. CASE Head(toDecode) \in Decodable /\ decPc' = [decPc EXCEPT ![d] = "turn"]
    BY <1>1, <2>1, <2>2 DEF Take, TypeOK
  <2>3. CASE decPc' = [decPc EXCEPT ![d] = "report"] /\ UNCHANGED decItem
    BY <1>1, <2>1, <2>3 DEF Take, TypeOK
  <2>4. QED
    BY <1>1, <2>2, <2>3 DEF Take
<1>2. CASE Report(d)
  <2>1. toDispatch' \in Seq(Items \cup {Lost})
    BY <1>2, AppendProperties DEF Report, TypeOK
  <2>2. QED
    BY <1>2, <2>1 DEF Report, TypeOK
<1>3. CASE Pass(d)
  <2>1. decItem[d] \in Items
    BY <1>3 DEF Pass, TypeOK
  <2>2. toDispatch' \in Seq(Items \cup {Lost})
    BY <1>3, <2>1, AppendProperties DEF Pass, TypeOK
  <2>3. blockToDispatch' \in Ids
    <3>1. blockToDispatch + 1 \in Nat
      BY DEF TypeOK, Ids
    <3>2. QED
      BY <1>3, <3>1, Euclid DEF Pass, WrappingAdd
  <2>4. QED
    BY <1>3, <2>2, <2>3 DEF Pass, TypeOK
<1>4. QED
  BY <1>1, <1>2, <1>3 DEF Thread

LEMMA TypeStep == TypeOK /\ [Next]_decodeVars => TypeOK'
<1> SUFFICES ASSUME TypeOK, [Next]_decodeVars PROVE TypeOK'
  OBVIOUS
<1>1. CASE Handover
  <2>1. PICK x \in Items : toDecode' = Append(toDecode, x)
    BY <1>1 DEF Handover
  <2>2. toDecode' \in Seq(Items \cup {SyncLost})
    BY <2>1, AppendProperties DEF TypeOK
  <2>3. QED
    BY <1>1, <2>2 DEF Handover, threadVars, TypeOK
<1>2. CASE Reset
  <2>1. PICK n \in handedOver .. (MaxHanded - 1) :
          handedOver' = n /\ blockToDispatch' = IdOf(n)
    BY <1>2 DEF Reset
  <2>2. n \in Nat
    BY <2>1 DEF TypeOK
  <2>3. QED
    BY <1>2, <2>1, <2>2, IdOfType DEF Reset, threadVars, TypeOK
<1>3. CASE UNCHANGED decodeVars
  BY <1>3 DEF decodeVars, threadVars, TypeOK
<1>4. QED
  BY <1>1, <1>2, <1>3, ThreadTypes DEF Next

\* The variables of the threads keep their types, and a thread holds a block
\* exactly when it waits for its turn.
THEOREM TypeCorrect == Spec => []TypeOK
  BY TypeInit, TypeStep, PTL DEF Spec

-----------------------------------------------------------------------------
(* The inductive invariant *)

NothingReported == \A k \in 1 .. Len(toDispatch) : toDispatch[k] # Lost

\* The threads that took a block and are not done with it.
Busy == {d \in Threads : decPc[d] # "recv"}

\* The number of the first block that no thread has taken, and of the first one
\* that was not dispatched.
Taken == handedOver - Len(toDecode)
Turn == Taken - Cardinality(Busy)

\* The channel holds the blocks from Taken on.
ChannelInv ==
  \A i \in 1 .. Len(toDecode) : /\ toDecode[i].n = Taken + i - 1
                                /\ toDecode[i].id = IdOf(Taken + i - 1)

\* Waiting threads hold different blocks from Turn to Taken - 1, and the turn is
\* that of the first.
HeldInv ==
  /\ Turn \in Nat /\ blockToDispatch = IdOf(Turn)
  /\ \A d \in Threads : decPc[d] = "turn" =>
       /\ decItem[d].n \in Turn .. (Taken - 1)
       /\ decItem[d].id = IdOf(decItem[d].n)
  /\ \A d, e \in Threads :
       decPc[d] = "turn" /\ decPc[e] = "turn" /\ decItem[d].n = decItem[e].n => d = e

\* The blocks before Turn were dispatched, in order.
DoneInv ==
  /\ \A i \in 1 .. Len(toDispatch) : toDispatch[i].n \in 0 .. (Turn - 1)
  /\ \A i, j \in 1 .. Len(toDispatch) : i < j => toDispatch[i].n < toDispatch[j].n

\* After the report of a loss nothing is promised.
TurnInv == NothingReported => ChannelInv /\ HeldInv /\ DoneInv

\* As many blocks are between Turn and Taken as threads are busy, fewer than ids.
LEMMA BusyFit ==
  ASSUME TypeOK
  PROVE  /\ IsFiniteSet(Busy) /\ Cardinality(Busy) \in Nat
         /\ Cardinality(Busy) < IdModulus
         /\ Len(toDecode) \in Nat /\ Taken \in Int /\ Turn \in Int
         /\ Taken = Turn + Cardinality(Busy)
<1>1. /\ IsFiniteSet(Busy) /\ Cardinality(Busy) <= Cardinality(Threads)
      /\ Cardinality(Busy) \in Nat /\ Cardinality(Threads) \in Nat
  BY FS_Subset, FS_CardinalityType DEF Busy
<1>2. Len(toDecode) \in Nat /\ handedOver \in Nat
  BY LenProperties DEF TypeOK
<1>3. Taken \in Int
  BY <1>2 DEF Taken
<1>4. QED
  BY <1>1, <1>2, <1>3 DEF Turn

\* A thread that takes a block adds one to the busy ones; one that is done is
\* removed from them.
LEMMA BusyGrows ==
  ASSUME TypeOK, NEW d \in Threads, NEW pc \in {"turn", "report"},
         decPc[d] = "recv", decPc' = [decPc EXCEPT ![d] = pc]
  PROVE  Cardinality(Busy') = Cardinality(Busy) + 1
<1>1. Busy' = Busy \cup {d} /\ d \notin Busy
  BY DEF Busy, TypeOK
<1>2. QED
  BY <1>1, BusyFit, FS_AddElement

LEMMA BusyShrinks ==
  ASSUME TypeOK, NEW d \in Threads,
         decPc[d] # "recv", decPc' = [decPc EXCEPT ![d] = "recv"]
  PROVE  Cardinality(Busy') = Cardinality(Busy) - 1
<1>1. Busy' = Busy \ {d} /\ d \in Busy
  BY DEF Busy, TypeOK
<1>2. QED
  BY <1>1, BusyFit, FS_RemoveElement

\* Turn stands still while blocks enter the channel and are taken from it, and
\* moves by one when a thread has dispatched its block.
LEMMA HandoverKeepsTurn ==
  ASSUME TypeOK, NEW x \in Items, toDecode' = Append(toDecode, x),
         handedOver' = handedOver + 1, UNCHANGED decPc
  PROVE  Taken' = Taken /\ Turn' = Turn /\ Busy' = Busy
<1>1. Len(toDecode') = Len(toDecode) + 1 /\ Len(toDecode) \in Nat
  BY AppendProperties, LenProperties DEF TypeOK
<1>2. Taken' = Taken /\ Busy' = Busy
  BY <1>1 DEF Taken, Busy, TypeOK
<1>3. QED
  BY <1>2 DEF Turn

LEMMA TakeKeepsTurn ==
  ASSUME TypeOK, NEW d \in Threads, Take(d), UNCHANGED handedOver
  PROVE  Taken' = Taken + 1 /\ Turn' = Turn
<1>1. Len(toDecode') = Len(toDecode) - 1 /\ Len(toDecode) \in Nat
  BY HeadTailProperties, LenProperties DEF TypeOK, Take
<1>2. PICK pc \in {"turn", "report"} : decPc' = [decPc EXCEPT ![d] = pc]
  BY DEF Take
<1>3. Cardinality(Busy') = Cardinality(Busy) + 1
  BY <1>2, BusyGrows DEF Take
<1>4. Taken' = Taken + 1
  BY <1>1 DEF Taken, TypeOK
<1>5. QED
  BY <1>3, <1>4, BusyFit DEF Turn

LEMMA PassMovesTurn ==
  ASSUME TypeOK, NEW d \in Threads, Pass(d), UNCHANGED handedOver
  PROVE  Taken' = Taken /\ Turn' = Turn + 1
<1>1. Cardinality(Busy') = Cardinality(Busy) - 1
  BY BusyShrinks DEF Pass
<1>2. Taken' = Taken
  BY DEF Pass, Taken
<1>3. QED
  BY <1>1, <1>2, BusyFit DEF Turn

LEMMA IdleTurn ==
  ASSUME TypeOK, Busy = {}, toDecode = <<>>
  PROVE  Turn = handedOver
<1>1. Cardinality({}) = 0
  BY FS_EmptySet
<1>2. Taken = handedOver
  BY DEF Taken, TypeOK
<1>3. QED
  BY <1>1, <1>2 DEF Turn, TypeOK

\* When no thread has a loss to report and none has its turn, none is busy: the
\* busy ones hold all blocks from Turn to Taken - 1, so one of them has Turn.
LEMMA QuietIsIdle ==
  ASSUME TypeOK, HeldInv, Quiet
  PROVE  Busy = {} /\ toDecode = <<>>
<1> DEFINE S == Turn .. (Taken - 1)
           f == [d \in Busy |-> decItem[d].n]
<1>1. \A d \in Busy : decPc[d] = "turn" /\ blockToDispatch # decItem[d].id
  BY DEF Quiet, Busy
<1>2. f \in Injection(Busy, S)
  <2>1. f \in [Busy -> S]
    BY <1>1 DEF HeldInv, Busy
  <2>2. \A d, e \in Busy : f[d] = f[e] => d = e
    <3>1. \A d \in Busy : f[d] = decItem[d].n /\ d \in Threads
      BY DEF Busy
    <3> HIDE DEF f
    <3>2. QED
      BY <1>1, <3>1 DEF HeldInv
  <2>3. QED
    BY <2>1, <2>2 DEF Injection, IsInjective
<1>3. IsFiniteSet(S) /\ Cardinality(S) = Cardinality(Busy)
  <2>1. IsFiniteSet(S) /\ Cardinality(S) = IF Turn > Taken - 1 THEN 0 ELSE Taken - 1 - Turn + 1
    <3>1. Turn \in Int /\ Taken - 1 \in Int
      BY BusyFit
    <3>2. QED
      BY <3>1, FS_Interval
  <2>2. QED
    BY <2>1, BusyFit
<1>4. f \in Surjection(Busy, S)
  BY <1>2, <1>3, FS_Injection
<1>5. Busy = {}
  <2> SUFFICES ASSUME Busy # {} PROVE FALSE
    OBVIOUS
  <2>1. Cardinality(Busy) # 0
    BY BusyFit, FS_EmptySet
  <2>2. Turn \in S
    BY <2>1, BusyFit
  <2>3. PICK d \in Busy : f[d] = Turn
    BY <1>4, <2>2 DEF Surjection
  <2>4. decItem[d].id = IdOf(Turn) /\ blockToDispatch = IdOf(Turn)
    BY <1>1, <2>3 DEF HeldInv, Busy
  <2>5. QED
    BY <1>1, <2>4
<1>6. QED
  BY <1>5 DEF Quiet, Busy

LEMMA TurnInit == Init => TurnInv
<1> SUFFICES ASSUME Init PROVE TurnInv
  OBVIOUS
<1>1. Busy = {} /\ toDecode = <<>> /\ toDispatch = <<>>
  BY DEF Init, ThreadsInit, Busy
<1>2. Turn = 0 /\ Taken = 0
  <2>1. Taken = 0
    <3>1. handedOver = 0 /\ Len(toDecode) = 0
      BY <1>1 DEF Init
    <3>2. QED
      BY <3>1 DEF Taken
  <2>2. Cardinality(Busy) = 0
    BY <1>1, FS_EmptySet
  <2>3. QED
    BY <2>1, <2>2 DEF Turn
<1>3. QED
  BY <1>1, <1>2 DEF TurnInv, ChannelInv, HeldInv, DoneInv, IdOf, Init, ThreadsInit

\* Handover: the next number enters the channel.
LEMMA HandoverStep ==
  ASSUME TypeOK, TurnInv, NEW x \in Items, x.n = handedOver, x.id = IdOf(handedOver),
         toDecode' = Append(toDecode, x), handedOver' = handedOver + 1,
         UNCHANGED <<blockToDispatch, threadVars, toDispatch>>
  PROVE  TurnInv'
<1> SUFFICES ASSUME NothingReported' PROVE (ChannelInv /\ HeldInv /\ DoneInv)'
  BY DEF TurnInv
<1>1. UNCHANGED <<blockToDispatch, decPc, decItem, toDispatch>> /\ handedOver' = handedOver + 1
  BY DEF threadVars
<1>2. ChannelInv /\ HeldInv /\ DoneInv
  BY <1>1 DEF TurnInv, NothingReported
<1>3. x.n = handedOver /\ x.id = IdOf(handedOver) /\ toDecode' = Append(toDecode, x)
  OBVIOUS
<1>4. /\ Len(toDecode) \in Nat /\ Len(toDecode') = Len(toDecode) + 1
      /\ toDecode'[Len(toDecode) + 1] = x
      /\ \A i \in 1 .. Len(toDecode) : toDecode'[i] = toDecode[i]
  BY <1>3, AppendProperties, LenProperties DEF TypeOK
<1>5. Taken' = Taken /\ Busy' = Busy /\ Turn' = Turn
  BY <1>1, <1>3, HandoverKeepsTurn
<1>6. ChannelInv'
  <2>1. Taken + (Len(toDecode) + 1) - 1 = handedOver
    BY <1>4 DEF Taken, TypeOK
  <2>2. \A i \in 1 .. Len(toDecode') : i \in 1 .. Len(toDecode) \/ i = Len(toDecode) + 1
    BY <1>4
  <2>3. QED
    BY <1>2, <1>3, <1>4, <1>5, <2>1, <2>2 DEF ChannelInv
<1>7. HeldInv' /\ DoneInv'
  BY <1>1, <1>2, <1>5 DEF HeldInv, DoneInv
<1>8. QED
  BY <1>6, <1>7

\* A reset finds all threads idle and the channel empty, so that every block
\* handed over was dispatched; the turn goes to the next block that will be.
LEMMA ResetStep ==
  ASSUME TypeOK, TurnInv, NothingReported /\ HeldInv => Busy = {} /\ toDecode = <<>>,
         NEW n \in Nat, handedOver <= n, handedOver' = n, blockToDispatch' = IdOf(n),
         UNCHANGED <<toDecode, threadVars, toDispatch>>
  PROVE  TurnInv'
<1> SUFFICES ASSUME NothingReported' PROVE (ChannelInv /\ HeldInv /\ DoneInv)'
  BY DEF TurnInv
<1>1. UNCHANGED <<toDecode, decPc, decItem, toDispatch>>
  BY DEF threadVars
<1>2. NothingReported /\ ChannelInv /\ HeldInv /\ DoneInv
  BY <1>1 DEF TurnInv, NothingReported
<1>3. handedOver' = n /\ blockToDispatch' = IdOf(n)
  OBVIOUS
<1>4. Busy = {} /\ toDecode = <<>>
  BY <1>2
<1>5. Busy' = {} /\ \A d \in Threads : decPc'[d] # "turn"
  BY <1>1, <1>4 DEF Busy
<1>6. /\ n \in Nat /\ handedOver <= n
      /\ Turn = handedOver /\ Turn' = n
  <2>1. Cardinality({}) = 0
    BY FS_EmptySet
  <2>2. Taken = handedOver /\ Taken' = n
    BY <1>1, <1>3, <1>4 DEF Taken, TypeOK
  <2>3. QED
    BY <1>3, <1>4, <1>5, <2>1, <2>2 DEF Turn, TypeOK
<1>7. ChannelInv'
  BY <1>1, <1>4 DEF ChannelInv
<1>8. HeldInv'
  BY <1>3, <1>5, <1>6 DEF HeldInv
<1>9. DoneInv'
  <2>1. handedOver \in Nat
    BY DEF TypeOK
  <2>2. 0 .. (Turn - 1) \subseteq 0 .. (Turn' - 1)
    BY <1>6, <2>1
  <2>3. QED
    BY <1>1, <1>2, <2>2 DEF DoneInv
<1>10. QED
  BY <1>7, <1>8, <1>9

\* A thread takes the head of the channel, the block Taken; it decodes it, or it
\* fails.
LEMMA TakeStep ==
  ASSUME TypeOK, TurnInv, NEW d \in Threads, Take(d), UNCHANGED handedOver
  PROVE  TurnInv'
<1> SUFFICES ASSUME NothingReported' PROVE (ChannelInv /\ HeldInv /\ DoneInv)'
  BY DEF TurnInv
<1>1. /\ decPc[d] = "recv" /\ toDecode # <<>> /\ toDecode' = Tail(toDecode)
      /\ UNCHANGED <<blockToDispatch, toDispatch>>
  BY DEF Take
<1>2. ChannelInv /\ HeldInv /\ DoneInv
  BY <1>1 DEF TurnInv, NothingReported
<1>3. /\ Len(toDecode) \in Nat \ {0} /\ Len(toDecode') = Len(toDecode) - 1
      /\ Head(toDecode) = toDecode[1]
      /\ \A i \in 1 .. Len(toDecode') : toDecode'[i] = toDecode[i + 1]
  BY <1>1, HeadTailProperties, LenProperties, EmptySeq DEF TypeOK
<1>4. PICK pc \in {"turn", "report"} : decPc' = [decPc EXCEPT ![d] = pc]
  BY DEF Take
<1>5. Taken' = Taken + 1 /\ Turn' = Turn /\ Taken \in Int /\ Turn \in Nat /\ Turn <= Taken
  <2>1. Taken' = Taken + 1 /\ Turn' = Turn
    BY TakeKeepsTurn
  <2>2. QED
    BY <2>1, <1>2, BusyFit DEF HeldInv
<1>6. ChannelInv'
  <2>1. ASSUME NEW i \in 1 .. Len(toDecode')
        PROVE  toDecode'[i].n = Taken' + i - 1 /\ toDecode'[i].id = IdOf(Taken' + i - 1)
    <3>1. i + 1 \in 1 .. Len(toDecode) /\ Taken' + i - 1 = Taken + (i + 1) - 1
      BY <1>3, <1>5
    <3>2. QED
      BY <1>2, <1>3, <3>1 DEF ChannelInv
  <2>2. QED
    BY <2>1 DEF ChannelInv
<1>7. HeldInv'
  <2>1. toDecode[1].n = Taken /\ toDecode[1].id = IdOf(Taken)
    <3>1. 1 \in 1 .. Len(toDecode) /\ Taken + 1 - 1 = Taken
      BY <1>3, <1>5
    <3>2. QED
      BY <1>2, <3>1 DEF ChannelInv
  <2>2. /\ \A e \in Threads \ {d} : decPc'[e] = decPc[e] /\ decItem'[e] = decItem[e]
        /\ decPc'[d] = "turn" => decItem'[d] = toDecode[1]
    BY <1>3 DEF Take, TypeOK
  <2>3. \A e \in Threads \ {d} : decPc[e] = "turn" =>
          decItem[e].n \in Turn .. (Taken - 1) /\ decItem[e].n # Taken
    BY <1>2, <1>5 DEF HeldInv
  <2>4. Taken \in Turn .. (Taken' - 1) /\ Turn .. (Taken - 1) \subseteq Turn .. (Taken' - 1)
    BY <1>5
  <2>5. \A e \in Threads : decPc'[e] = "turn" =>
          /\ decItem'[e].n \in Turn .. (Taken' - 1)
          /\ decItem'[e].id = IdOf(decItem'[e].n)
    BY <1>2, <2>1, <2>2, <2>3, <2>4 DEF HeldInv
  <2>6. \A e, f \in Threads :
          decPc'[e] = "turn" /\ decPc'[f] = "turn" /\ decItem'[e].n = decItem'[f].n => e = f
    BY <1>2, <2>1, <2>2, <2>3 DEF HeldInv
  <2>7. QED
    BY <1>1, <1>2, <1>5, <2>5, <2>6 DEF HeldInv
<1>8. DoneInv'
  BY <1>1, <1>2, <1>5 DEF DoneInv
<1>9. QED
  BY <1>6, <1>7, <1>8

\* The thread whose id has the turn holds the block Turn: fewer blocks than ids
\* are held.
LEMMA TurnIsHeld ==
  ASSUME TypeOK, HeldInv, NEW d \in Threads,
         decPc[d] = "turn", blockToDispatch = decItem[d].id
  PROVE  decItem[d].n = Turn
<1>1. /\ decItem[d].n \in Turn .. (Taken - 1) /\ Turn \in Nat
      /\ IdOf(Turn) = IdOf(decItem[d].n)
  BY DEF HeldInv
<1>2. Taken < Turn + IdModulus /\ Taken \in Int
  BY BusyFit
<1>3. decItem[d].n \in Nat /\ Turn <= decItem[d].n /\ decItem[d].n < Turn + IdModulus
  BY <1>1, <1>2
<1>4. QED
  BY <1>1, <1>3, IdsDistinctInATurn

LEMMA PassStep ==
  ASSUME TypeOK, TurnInv, NEW d \in Threads, Pass(d), UNCHANGED handedOver
  PROVE  TurnInv'
<1> SUFFICES ASSUME NothingReported' PROVE (ChannelInv /\ HeldInv /\ DoneInv)'
  BY DEF TurnInv
<1>1. /\ decPc[d] = "turn" /\ blockToDispatch = decItem[d].id
      /\ toDispatch' = Append(toDispatch, decItem[d])
      /\ blockToDispatch' = WrappingAdd(blockToDispatch, 1)
      /\ decPc' = [decPc EXCEPT ![d] = "recv"]
      /\ decItem' = [decItem EXCEPT ![d] = NoItem]
      /\ UNCHANGED toDecode
  BY DEF Pass
<1>2. /\ Len(toDispatch) \in Nat /\ Len(toDispatch') = Len(toDispatch) + 1
      /\ toDispatch'[Len(toDispatch) + 1] = decItem[d]
      /\ \A i \in 1 .. Len(toDispatch) : toDispatch'[i] = toDispatch[i]
  <2>1. decItem[d] \in Items \cup {Lost}
    BY <1>1 DEF TypeOK
  <2>2. QED
    BY <1>1, <2>1, AppendProperties, LenProperties DEF TypeOK
<1>3. ChannelInv /\ HeldInv /\ DoneInv
  BY <1>2 DEF TurnInv, NothingReported
<1>4. decItem[d].n = Turn /\ Turn \in Nat
  BY <1>1, <1>3, TurnIsHeld DEF HeldInv
<1>5. Taken' = Taken /\ Turn' = Turn + 1 /\ Taken \in Int
  BY PassMovesTurn, BusyFit
<1>6. ChannelInv'
  BY <1>1, <1>3, <1>5 DEF ChannelInv
<1>7. HeldInv'
  <2>1. /\ decPc'[d] = "recv"
        /\ \A e \in Threads \ {d} : decPc'[e] = decPc[e] /\ decItem'[e] = decItem[e]
    BY <1>1 DEF TypeOK
  <2>2. \A e \in Threads \ {d} : decPc[e] = "turn" =>
          decItem[e].n \in (Turn + 1) .. (Taken - 1)
    <3>1. \A e \in Threads \ {d} : decPc[e] = "turn" =>
            decItem[e].n \in Turn .. (Taken - 1) /\ decItem[e].n # Turn
      BY <1>1, <1>3, <1>4 DEF HeldInv
    <3>2. QED
      BY <3>1, <1>4, <1>5
  <2>3. blockToDispatch' = IdOf(Turn')
    BY <1>1, <1>3, <1>4, <1>5, IdOfNext DEF HeldInv
  <2>4. QED
    BY <1>3, <1>4, <1>5, <2>1, <2>2, <2>3 DEF HeldInv
<1>8. DoneInv'
  <2>1. \A i \in 1 .. Len(toDispatch') : i \in 1 .. Len(toDispatch) \/ i = Len(toDispatch) + 1
    BY <1>2
  <2>2. \A i \in 1 .. Len(toDispatch) :
          toDispatch[i].n \in 0 .. Turn /\ toDispatch[i].n < Turn
    BY <1>3, <1>4 DEF DoneInv
  <2>3. \A i \in 1 .. Len(toDispatch') : toDispatch'[i].n \in 0 .. (Turn' - 1)
    BY <1>2, <1>4, <1>5, <2>1, <2>2
  <2>4. \A i, j \in 1 .. Len(toDispatch') : i < j => toDispatch'[i].n < toDispatch'[j].n
    BY <1>2, <1>3, <1>4, <2>1, <2>2 DEF DoneInv
  <2>5. QED
    BY <2>3, <2>4 DEF DoneInv
<1>9. QED
  BY <1>6, <1>7, <1>8

\* The report of a loss ends what the invariant promises.
LEMMA ReportStep ==
  ASSUME TypeOK, NEW d \in Threads, Report(d)
  PROVE  TurnInv'
<1>1. toDispatch' = Append(toDispatch, Lost) /\ toDispatch \in Seq(Items \cup {Lost})
  BY DEF Report, TypeOK
<1>2. /\ toDispatch'[Len(toDispatch) + 1] = Lost
      /\ Len(toDispatch) + 1 \in 1 .. Len(toDispatch')
  BY <1>1, AppendProperties, LenProperties
<1>3. QED
  BY <1>2 DEF TurnInv, NothingReported

LEMMA TurnStep ==
  TypeOK /\ TurnInv /\ QuietResets /\ [Next]_decodeVars => TurnInv'
<1> SUFFICES ASSUME TypeOK, TurnInv, QuietResets, [Next]_decodeVars PROVE TurnInv'
  OBVIOUS
<1>1. ASSUME UNCHANGED decodeVars PROVE TurnInv'
  <2>1. Taken' = Taken /\ Busy' = Busy
    BY <1>1 DEF decodeVars, threadVars, Taken, Busy
  <2>2. Turn' = Turn
    BY <2>1 DEF Turn
  <2>3. QED
    BY <1>1, <2>1, <2>2 DEF decodeVars, threadVars, TurnInv, NothingReported, ChannelInv,
                            HeldInv, DoneInv
<1>2. ASSUME Handover PROVE TurnInv'
  BY <1>2, HandoverStep DEF Handover
<1>3. ASSUME Reset PROVE TurnInv'
  <2>1. PICK n \in handedOver .. (MaxHanded - 1) :
          handedOver' = n /\ blockToDispatch' = IdOf(n)
    BY <1>3 DEF Reset
  <2>2. n \in Nat /\ handedOver <= n
    BY <2>1 DEF TypeOK
  <2>3. HeldInv => Busy = {} /\ toDecode = <<>>
    BY <1>3, QuietIsIdle DEF Reset
  <2>4. QED
    BY <1>3, <2>1, <2>2, <2>3, ResetStep DEF Reset
<1>4. QED
  BY <1>1, <1>2, <1>3, TakeStep, ReportStep, PassStep DEF Next, Thread

\* DispatchedInOrder goes on to speak of what came before the report of a loss,
\* when TurnInv is no longer of use: what was dispatched stays.
LEMMA OrderKept ==
  ASSUME TypeOK, TurnInv', DispatchedInOrder,
         \/ UNCHANGED toDispatch
         \/ \E x \in Items \cup {Lost} : toDispatch' = Append(toDispatch, x)
  PROVE  DispatchedInOrder'
<1>1. CASE UNCHANGED toDispatch
  BY <1>1 DEF DispatchedInOrder
<1>2. ASSUME NEW x \in Items \cup {Lost}, toDispatch' = Append(toDispatch, x)
      PROVE  DispatchedInOrder'
  <2>1. /\ Len(toDispatch) \in Nat /\ Len(toDispatch') = Len(toDispatch) + 1
        /\ \A i \in 1 .. Len(toDispatch) : toDispatch'[i] = toDispatch[i]
    BY <1>2, AppendProperties, LenProperties DEF TypeOK
  <2> SUFFICES ASSUME NEW i \in 1 .. Len(toDispatch'), NEW j \in 1 .. Len(toDispatch'),
                      i < j, \A k \in 1 .. j : toDispatch'[k] # Lost
               PROVE  toDispatch'[i].n < toDispatch'[j].n
    BY DEF DispatchedInOrder
  <2>2. CASE j <= Len(toDispatch)
    <3>1. /\ i \in 1 .. Len(toDispatch) /\ j \in 1 .. Len(toDispatch)
          /\ \A k \in 1 .. j : toDispatch[k] # Lost
      BY <2>1, <2>2
    <3>2. QED
      BY <2>1, <3>1 DEF DispatchedInOrder
  <2>3. CASE j > Len(toDispatch)
    <3>1. j = Len(toDispatch')
      BY <2>1, <2>3
    <3>2. NothingReported'
      BY <3>1 DEF NothingReported
    <3>3. QED
      BY <3>2 DEF TurnInv, DoneInv
  <2>4. QED
    BY <2>1, <2>2, <2>3
<1>3. QED
  BY <1>1, <1>2

LEMMA OrderStep ==
  ASSUME TypeOK, TurnInv', DispatchedInOrder, [Next]_decodeVars
  PROVE  DispatchedInOrder'
<1>1. \A d \in Threads : Pass(d) => decItem[d] \in Items
  BY DEF Pass, TypeOK
<1>2. \/ UNCHANGED toDispatch
      \/ \E x \in Items \cup {Lost} : toDispatch' = Append(toDispatch, x)
  BY <1>1 DEF Next, Thread, Handover, Reset, Take, Report, Pass, decodeVars
<1>3. QED
  BY <1>2, OrderKept

\* As long as no loss was reported, the blocks reach dispatch in the order of
\* the sender, for any number of threads below the number of ids and whatever
\* their interleaving, if resets come when the threads are quiet.
THEOREM DispatchOrdered == QuietResets => (Spec => []DispatchedInOrder)
<1> SUFFICES ASSUME QuietResets PROVE Spec => []DispatchedInOrder
  OBVIOUS
<1>1. Init => TurnInv /\ DispatchedInOrder
  <2>1. Init => DispatchedInOrder
    BY DEF Init, ThreadsInit, DispatchedInOrder
  <2>2. QED
    BY <2>1, TurnInit
<1>2. TypeOK /\ TurnInv /\ DispatchedInOrder /\ [Next]_decodeVars
        => TurnInv' /\ DispatchedInOrder'
  BY TurnStep, OrderStep
<1>3. QED
  BY <1>1, <1>2, TypeCorrect, PTL DEF Spec

=============================================================================
