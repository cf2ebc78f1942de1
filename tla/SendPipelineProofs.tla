------------------------- MODULE SendPipelineProofs -------------------------
(***************************************************************************)
(* Proofs about the sending pipeline, for any number of encoders up to the *)
(* number of ids, any set of blocks and runs of any length.                *)
(***************************************************************************)
EXTENDS SendPipeline, BlockIdsProofs, SequenceTheorems, FiniteSetTheorems, TLAPS

USE IdModulusAssumption, SendPipelineAssumption

LEMMA CapacityType == Capacity \in Nat \ {0}
  BY FS_CardinalityType, FS_EmptySet DEF Capacity

LEMMA WrappingAddType == ASSUME NEW i \in Ids PROVE WrappingAdd(i, 1) \in Ids
  BY Euclid DEF WrappingAdd, Ids

LEMMA TypeInit == PipelineInit => TypeOK
<1>1. 0 \in Ids /\ 0 \in 0 .. Capacity /\ 0 \in Nat
  BY CapacityType DEF Ids
<1>2. QED
  BY <1>1, EmptySeq DEF PipelineInit, TypeOK, Holds

\* The UDP worker fails before the first packet of a block, or after it.
LEMMA FailCases ==
  UdpFail => (UdpFail /\ OnLink(Head(toSend))) \/ (UdpFail /\ UNCHANGED wire)
  BY DEF UdpFail

LEMMA TypeStep == TypeOK /\ [Next]_pipeVars => TypeOK'
<1> SUFFICES ASSUME TypeOK, [Next]_pipeVars PROVE TypeOK'
  OBVIOUS
<1>1. CASE Submit
  <2>1. PICK m \in Blocks \cup {Stop} : toOrdering' = Append(toOrdering, m)
    BY <1>1 DEF Submit, PutOrdering, Messages
  <2>2. toOrdering' \in Seq(Blocks \cup {Stop})
    BY <2>1, AppendProperties DEF TypeOK
  <2>3. QED
    BY <1>1, <2>2 DEF Submit, ordVars, encVars, udpVars, Holds, TypeOK
<1>2. CASE OrderingReceive
  <2>1. /\ toOrdering' \in Seq(Blocks \cup {Stop})
        /\ Head(toOrdering) \in Blocks \cup {Stop}
    BY <1>2, HeadTailProperties DEF OrderingReceive, TypeOK
  <2>2. CASE Head(toOrdering) = Stop
    BY <1>2, <2>1, <2>2 DEF OrderingReceive, encVars, udpVars, Holds, TypeOK
  <2>3. CASE Head(toOrdering) # Stop
    <3>1. Head(toOrdering) \in Blocks
      BY <2>1, <2>3
    <3>2. ordered' = Append(ordered, Head(toOrdering)) /\ ordered \in Seq(Blocks)
      BY <1>2, <2>3 DEF OrderingReceive, TypeOK
    <3>3. ordered' \in Seq(Blocks) /\ ordered' # <<>>
      BY <3>1, <3>2, AppendProperties
    <3>4. QED
      BY <1>2, <2>1, <2>3, <3>1, <3>3 DEF OrderingReceive, encVars, udpVars, Holds, TypeOK
  <2>4. QED
    BY <2>2, <2>3
<1>3. CASE OrderingSend
  <2> DEFINE x == [id |-> ordId, block |-> ordBlock, n |-> Len(ordered) - 1]
  <2>1. ordId \in Ids /\ ordBlock \in Blocks /\ Len(ordered) - 1 \in Nat
    BY <1>3, LenProperties, EmptySeq DEF OrderingSend, TypeOK
  <2>2. x \in Items
    BY <2>1 DEF Items
  <2>3. toEncoding' = Append(toEncoding, x) /\ toEncoding \in Seq(Items)
    BY <1>3 DEF OrderingSend, TypeOK
  <2> HIDE DEF x
  <2>4. toEncoding' \in Seq(Items)
    BY <2>2, <2>3, AppendProperties
  <2>5. ordId' \in Ids
    BY <1>3, <2>1, WrappingAddType DEF OrderingSend
  <2>6. QED
    BY <1>3, <2>4, <2>5 DEF OrderingSend, encVars, udpVars, Holds, TypeOK
<1>4. CASE OrderingStop
  <2>1. toSend' \in Seq(Items \cup {Stop})
    BY <1>4, AppendProperties DEF OrderingStop, TypeOK
  <2>2. QED
    BY <1>4, <2>1 DEF OrderingStop, encVars, udpVars, Holds, TypeOK
<1>5. ASSUME NEW e \in Encoders, EncoderReceive(e) PROVE TypeOK'
  <2>1. Head(toEncoding) \in Items /\ toEncoding' \in Seq(Items)
    BY <1>5, HeadTailProperties DEF EncoderReceive, TypeOK
  <2>2. encItem' \in [Encoders -> Items \cup {NoItem}]
    BY <1>5, <2>1 DEF EncoderReceive, TypeOK
  <2>3. encPc' \in [Encoders -> {"recv", "lock", "waiting", "send", "notify"}]
    BY <1>5 DEF EncoderReceive, TypeOK
  <2>4. \A f \in Encoders : Holds(f)' <=> encItem'[f] # NoItem
    BY <1>5, <2>1 DEF EncoderReceive, TypeOK, Holds
  <2>5. QED
    BY <1>5, <2>1, <2>2, <2>3, <2>4 DEF EncoderReceive, ordVars, udpVars, TypeOK
<1>6. ASSUME NEW e \in Encoders, EncoderLock(e) \/ SpuriousWakeup(e) PROVE TypeOK'
  <2>1. encPc' \in [Encoders -> {"recv", "lock", "waiting", "send", "notify"}]
    BY <1>6 DEF EncoderLock, SpuriousWakeup, TypeOK
  <2>2. \A f \in Encoders : Holds(f)' <=> encItem'[f] # NoItem
    BY <1>6 DEF EncoderLock, SpuriousWakeup, TypeOK, Holds
  <2>3. QED
    BY <1>6, <2>1, <2>2 DEF EncoderLock, SpuriousWakeup, ordVars, udpVars, TypeOK
<1>7. ASSUME NEW e \in Encoders, EncoderSend(e) PROVE TypeOK'
  <2>1. encItem[e] \in Items
    BY <1>7 DEF EncoderSend, TypeOK, Holds
  <2>2. toSend' \in Seq(Items \cup {Stop})
    BY <1>7, <2>1, AppendProperties DEF EncoderSend, TypeOK
  <2>3. blockToSend' \in Ids /\ turn' \in Nat
    BY <1>7, WrappingAddType DEF EncoderSend, TypeOK
  <2>4. /\ encPc' \in [Encoders -> {"recv", "lock", "waiting", "send", "notify"}]
        /\ encItem' \in [Encoders -> Items \cup {NoItem}]
    BY <1>7 DEF EncoderSend, TypeOK
  <2>5. \A f \in Encoders : Holds(f)' <=> encItem'[f] # NoItem
    BY <1>7 DEF EncoderSend, TypeOK, Holds
  <2>6. QED
    BY <1>7, <2>2, <2>3, <2>4, <2>5 DEF EncoderSend, ordVars, udpVars, TypeOK
<1>8. ASSUME NEW e \in Encoders, EncoderNotify(e) PROVE TypeOK'
  <2>1. encPc' \in [Encoders -> {"recv", "lock", "waiting", "send", "notify"}]
    BY <1>8 DEF EncoderNotify, TypeOK
  <2>2. \A f \in Encoders : Holds(f)' <=> encItem'[f] # NoItem
    BY <1>8 DEF EncoderNotify, TypeOK, Holds
  <2>3. QED
    BY <1>8, <2>1, <2>2 DEF EncoderNotify, ordVars, udpVars, TypeOK
<1>9. CASE UdpSend \/ (UdpFail /\ OnLink(Head(toSend)))
  <2> DEFINE p == [id |-> Head(toSend).id, block |-> Head(toSend).block]
  <2>0. /\ toSend # <<>> /\ toSend \in Seq(Items \cup {Stop})
        /\ Head(toSend) # Stop /\ toSend' = Tail(toSend)
    BY <1>9 DEF UdpSend, UdpFail, UdpReceive, TypeOK
  <2>1. Head(toSend) \in Items /\ toSend' \in Seq(Items \cup {Stop})
    BY <2>0, HeadTailProperties
  <2>2. p \in [id : Ids, block : Blocks]
    BY <2>1 DEF Items
  <2>3. wire' = Append(wire, p) /\ wire \in Seq([id : Ids, block : Blocks])
    BY <1>9 DEF UdpSend, OnLink, TypeOK
  <2> HIDE DEF p
  <2>4. wire' \in Seq([id : Ids, block : Blocks])
    BY <2>2, <2>3, AppendProperties
  <2>5. QED
    BY <1>9, <2>1, <2>4 DEF UdpSend, UdpFail, ordVars, encVars, Holds, TypeOK
<1>10. CASE (UdpFail /\ UNCHANGED wire) \/ UdpStop
  <2>1. toSend' = Tail(toSend) /\ toSend # <<>> /\ toSend \in Seq(Items \cup {Stop})
    BY <1>10 DEF UdpFail, UdpStop, UdpReceive, TypeOK
  <2>2. toSend' \in Seq(Items \cup {Stop})
    BY <2>1, HeadTailProperties
  <2>3. udpPc' \in {"run", "drain", "done", "failed"} /\ udpCount' \in 0 .. Capacity
    BY <1>10, CapacityType DEF UdpFail, UdpStop, TypeOK
  <2>4. QED
    BY <1>10, <2>2, <2>3 DEF UdpFail, UdpStop, ordVars, encVars, Holds, TypeOK
<1>11. CASE UNCHANGED pipeVars
  BY <1>11 DEF pipeVars, ordVars, encVars, udpVars, Holds, TypeOK
<1>12. QED
  BY <1>1, <1>2, <1>3, <1>4, <1>5, <1>6, <1>7, <1>8, <1>9, <1>10, <1>11, FailCases
     DEF Next, PipelineNext, Ordering, Encoder, Udp

\* The workers only ever hold and pass on what their channels are meant for,
\* and an encoder holds a block exactly while it waits for its turn or sends.
THEOREM TypeCorrect == Spec => []TypeOK
  BY TypeInit, TypeStep, PTL DEF Spec

-----------------------------------------------------------------------------
(* The inductive invariant *)

\* What is in place stays in place when more blocks are accepted.
LEMMA InPlaceAppend ==
  ASSUME NEW s \in Seq(Blocks), NEW b \in Blocks, NEW x \in Items, InPlace(x, s)
  PROVE  InPlace(x, Append(s, b))
<1>1. x.n \in Nat /\ x.n + 1 \in 1 .. Len(s) /\ Len(s) \in Nat
  BY LenProperties DEF InPlace, Items
<1>2. Append(s, b)[x.n + 1] = s[x.n + 1] /\ Len(Append(s, b)) = Len(s) + 1
  BY <1>1, AppendProperties
<1>3. QED
  BY <1>1, <1>2 DEF InPlace

\* The encoders hold different positions, so no more of them than encoders: the
\* positions they hold all have different ids.
LEMMA HeldPositionsFit ==
  ASSUME TypeOK, TurnstileInv, Taken \in Nat
  PROVE  Taken <= turn + IdModulus
<1> DEFINE S == turn .. (Taken - 1)
           f == [n \in S |-> CHOOSE e \in Encoders : Holds(e) /\ encItem[e].n = n]
<1>1. turn \in Nat /\ turn <= Taken
  BY DEF TypeOK, TurnstileInv
<1>2. \A n \in S : f[n] \in Encoders /\ encItem[f[n]].n = n
  BY DEF TurnstileInv
<1> HIDE DEF f
<1>3. f \in Injection(S, Encoders)
  <2>1. f \in [S -> Encoders]
    BY <1>2 DEF f
  <2>2. \A a, b \in S : f[a] = f[b] => a = b
    BY <1>2
  <2>3. QED
    BY <2>1, <2>2 DEF Injection, IsInjective
<1>4. Cardinality(S) <= Cardinality(Encoders)
  BY <1>3, FS_Injection
<1>5. Cardinality(S) = IF turn > Taken - 1 THEN 0 ELSE Taken - 1 - turn + 1
  BY <1>1, FS_Interval
<1>6. Cardinality(Encoders) \in Nat
  BY FS_CardinalityType
<1>7. QED
  BY <1>1, <1>4, <1>5, <1>6

LEMMA InvInit == PipelineInit => PipelineInv /\ WireInOrder
<1> SUFFICES ASSUME PipelineInit PROVE PipelineInv /\ WireInOrder
  OBVIOUS
<1>1. IdOf(0) = 0
  BY DEF IdOf
<1>2. /\ ordered = <<>> /\ toEncoding = <<>> /\ toSend = <<>> /\ wire = <<>>
      /\ turn = 0 /\ blockToSend = 0 /\ ordId = 0 /\ ordPc = "recv"
      /\ \A e \in Encoders : ~Holds(e)
  BY DEF PipelineInit, Holds
<1>3. Numbered = 0 /\ Taken = 0
  BY <1>2, EmptySeq DEF Numbered, Taken
<1>4. QED
  BY <1>1, <1>2, <1>3, EmptySeq
     DEF PipelineInv, OrderingInv, EncodingQueueInv, TurnstileInv, SendQueueInv,
         WireInOrder

\* The ordering worker takes a block: it is the next position, and numbered later.
LEMMA OrderingReceiveStep ==
  ASSUME TypeOK, PipelineInv, WireInOrder, OrderingReceive
  PROVE  PipelineInv' /\ WireInOrder'
<1>1. CASE Head(toOrdering) = Stop
  <2>1. Numbered' = Numbered /\ Taken' = Taken
    BY <1>1 DEF OrderingReceive, Numbered, Taken
  <2>2. OrderingInv'
    BY <1>1, <2>1 DEF OrderingReceive, PipelineInv, OrderingInv
  <2>3. EncodingQueueInv'
    BY <1>1, <2>1 DEF OrderingReceive, PipelineInv, EncodingQueueInv
  <2>4. TurnstileInv'
    BY <1>1, <2>1 DEF OrderingReceive, PipelineInv, TurnstileInv, Holds, encVars
  <2>5. SendQueueInv' /\ WireInOrder'
    BY <1>1 DEF OrderingReceive, PipelineInv, SendQueueInv, WireInOrder, udpVars, encVars
  <2>6. QED
    BY <2>2, <2>3, <2>4, <2>5 DEF PipelineInv
<1>2. CASE Head(toOrdering) # Stop
  <2> DEFINE b == Head(toOrdering)
  <2>1. /\ b \in Blocks /\ ordered \in Seq(Blocks)
        /\ ordered' = Append(ordered, b) /\ ordBlock' = b
        /\ ordPc = "recv" /\ ordPc' = "send"
        /\ UNCHANGED <<ordId, toEncoding, toSend, encPc, encItem, blockToSend,
                       turn, udpPc, wire>>
    BY <1>2, HeadTailProperties
       DEF OrderingReceive, TypeOK, encVars, udpVars
  <2> HIDE DEF b
  <2>2. /\ Len(ordered) \in Nat /\ Len(ordered') = Len(ordered) + 1
        /\ ordered'[Len(ordered) + 1] = b
        /\ \A i \in 1 .. Len(ordered) : ordered'[i] = ordered[i]
    BY <2>1, AppendProperties, LenProperties
  <2>3. Numbered' = Numbered /\ Taken' = Taken
    BY <2>1, <2>2 DEF Numbered, Taken
  <2>4. \A x \in Items : InPlace(x, ordered) => InPlace(x, ordered')
    BY <2>1, InPlaceAppend
  <2>5. OrderingInv'
    BY <2>1, <2>2, <2>3 DEF PipelineInv, OrderingInv
  <2>6. EncodingQueueInv'
    <3>1. \A i \in 1 .. Len(toEncoding) : toEncoding[i] \in Items
      BY ElementOfSeq DEF TypeOK
    <3>2. QED
      BY <2>1, <2>3, <2>4, <3>1 DEF PipelineInv, EncodingQueueInv
  <2>7. TurnstileInv'
    <3>1. \A e \in Encoders : Holds(e) => encItem[e] \in Items
      BY DEF TypeOK
    <3>2. \A e \in Encoders : Holds(e)' <=> Holds(e)
      BY <2>1 DEF Holds
    <3>3. QED
      BY <2>1, <2>3, <2>4, <3>1, <3>2 DEF PipelineInv, TurnstileInv
  <2>8. SendQueueInv'
    <3>1. \A i \in 1 .. Len(toSend) : toSend[i] # Stop => toSend[i] \in Items
      BY ElementOfSeq DEF TypeOK
    <3>2. QED
      BY <2>1, <2>4, <3>1 DEF PipelineInv, SendQueueInv
  <2>9. WireInOrder'
    <3>1. Len(wire) \in Nat
      BY LenProperties DEF TypeOK
    <3>2. QED
      BY <2>1, <2>2, <3>1 DEF WireInOrder
  <2>10. QED
    BY <2>5, <2>6, <2>7, <2>8, <2>9 DEF PipelineInv
<1>3. QED
  BY <1>1, <1>2

\* The ordering worker numbers a block: it joins the queue of the encoders.
LEMMA OrderingSendStep ==
  ASSUME TypeOK, PipelineInv, WireInOrder, OrderingSend
  PROVE  PipelineInv' /\ WireInOrder'
<1> DEFINE x == [id |-> ordId, block |-> ordBlock, n |-> Len(ordered) - 1]
<1>1. /\ ordPc = "send" /\ ordPc' = "recv"
      /\ toEncoding' = Append(toEncoding, x)
      /\ ordId' = WrappingAdd(ordId, 1)
      /\ UNCHANGED <<ordered, toSend, encPc, encItem, blockToSend, turn, udpPc, wire>>
  BY DEF OrderingSend, encVars, udpVars
<1>2. /\ ordId \in Ids /\ ordBlock \in Blocks
      /\ Len(ordered) \in Nat \ {0}
      /\ toEncoding \in Seq(Items)
  BY <1>1, LenProperties, EmptySeq DEF TypeOK
<1>3. x \in Items /\ x.id = ordId /\ x.block = ordBlock /\ x.n = Len(ordered) - 1
  BY <1>2 DEF Items
<1> HIDE DEF x
<1>4. /\ Len(toEncoding) \in Nat /\ Len(toEncoding') = Len(toEncoding) + 1
      /\ toEncoding'[Len(toEncoding) + 1] = x
      /\ \A i \in 1 .. Len(toEncoding) : toEncoding'[i] = toEncoding[i]
  BY <1>1, <1>2, <1>3, AppendProperties, LenProperties
<1>5. /\ Numbered = Len(ordered) - 1 /\ Numbered' = Numbered + 1 /\ Numbered \in Nat
      /\ Taken' = Taken
  BY <1>1, <1>2, <1>4 DEF Numbered, Taken
<1>6. OrderingInv'
  BY <1>1, <1>5, IdOfNext DEF PipelineInv, OrderingInv
<1>7. InPlace(x, ordered)
  BY <1>1, <1>2, <1>3, <1>5 DEF InPlace, PipelineInv, OrderingInv
<1>8. EncodingQueueInv'
  <2>1. Taken' \in Nat
    BY <1>5 DEF PipelineInv, EncodingQueueInv
  <2>2. ASSUME NEW i \in 1 .. Len(toEncoding')
        PROVE  InPlace(toEncoding'[i], ordered) /\ toEncoding'[i].n = Taken + i - 1
    <3>1. CASE i \in 1 .. Len(toEncoding)
      BY <1>4, <3>1 DEF PipelineInv, EncodingQueueInv
    <3>2. CASE i = Len(toEncoding) + 1
      <4>1. x.n = Taken + i - 1
        BY <1>2, <1>3, <1>4, <1>5, <3>2 DEF Taken
      <4>2. QED
        BY <1>4, <1>7, <3>2, <4>1
    <3>3. QED
      BY <1>4, <3>1, <3>2
  <2>3. QED
    BY <1>1, <1>5, <2>1, <2>2 DEF EncodingQueueInv
<1>9. TurnstileInv'
  <2>1. \A e \in Encoders : Holds(e)' <=> Holds(e)
    BY <1>1 DEF Holds
  <2>2. QED
    BY <1>1, <1>5, <2>1 DEF PipelineInv, TurnstileInv
<1>10. SendQueueInv' /\ WireInOrder'
  BY <1>1 DEF PipelineInv, SendQueueInv, WireInOrder
<1>11. QED
  BY <1>6, <1>8, <1>9, <1>10 DEF PipelineInv

\* The None of the ordering worker joins to_send and moves no block.
LEMMA OrderingStopStep ==
  ASSUME TypeOK, PipelineInv, WireInOrder, OrderingStop
  PROVE  PipelineInv' /\ WireInOrder'
<1>1. /\ ordPc = "stop" /\ ordPc' = "done"
      /\ toSend' = Append(toSend, Stop) /\ toSend \in Seq(Items \cup {Stop})
      /\ UNCHANGED <<ordered, ordId, ordBlock, toEncoding, encPc, encItem,
                     blockToSend, turn, udpPc, wire>>
  BY DEF OrderingStop, encVars, udpVars, TypeOK
<1>2. Numbered' = Numbered /\ Taken' = Taken
  BY <1>1 DEF Numbered, Taken
<1>3. OrderingInv' /\ EncodingQueueInv' /\ WireInOrder'
  BY <1>1, <1>2 DEF PipelineInv, OrderingInv, EncodingQueueInv, WireInOrder
<1>4. TurnstileInv'
  <2>1. \A e \in Encoders : Holds(e)' <=> Holds(e)
    BY <1>1 DEF Holds
  <2>2. QED
    BY <1>1, <1>2, <2>1 DEF PipelineInv, TurnstileInv
<1>5. SendQueueInv'
  <2>1. /\ Len(toSend) \in Nat /\ Len(toSend') = Len(toSend) + 1
        /\ toSend'[Len(toSend) + 1] = Stop
        /\ \A i \in 1 .. Len(toSend) : toSend'[i] = toSend[i]
    BY <1>1, AppendProperties, LenProperties
  <2>2. \A i \in 1 .. Len(toSend') : toSend'[i] # Stop => i \in 1 .. Len(toSend)
    BY <2>1
  <2>3. 1 .. Len(toSend) \subseteq 1 .. Len(toSend')
    BY <2>1
  <2>4. QED
    BY <1>1, <2>1, <2>2, <2>3 DEF PipelineInv, SendQueueInv
<1>6. QED
  BY <1>3, <1>4, <1>5 DEF PipelineInv

\* An encoder takes the head of to_encoding, the first position not yet taken.
LEMMA EncoderReceiveStep ==
  ASSUME TypeOK, PipelineInv, WireInOrder, NEW e \in Encoders, EncoderReceive(e)
  PROVE  PipelineInv' /\ WireInOrder'
<1> DEFINE x == Head(toEncoding)
<1>1. /\ encPc[e] = "recv" /\ toEncoding # <<>> /\ toEncoding \in Seq(Items)
      /\ toEncoding' = Tail(toEncoding)
      /\ encItem' = [encItem EXCEPT ![e] = x]
      /\ encPc' = [encPc EXCEPT ![e] = "lock"]
      /\ UNCHANGED <<ordered, ordPc, ordId, ordBlock, blockToSend, turn, toSend,
                     udpPc, wire>>
  BY DEF EncoderReceive, ordVars, udpVars, TypeOK
<1>2. /\ x = toEncoding[1] /\ x \in Items
      /\ Len(toEncoding) \in Nat \ {0} /\ Len(toEncoding') = Len(toEncoding) - 1
      /\ \A i \in 1 .. Len(toEncoding') : toEncoding'[i] = toEncoding[i + 1]
  BY <1>1, HeadTailProperties, LenProperties, EmptySeq
<1> HIDE DEF x
<1>3. Numbered' = Numbered /\ Numbered \in Int /\ Taken' = Taken + 1 /\ Taken \in Nat
  <2>1. Numbered' = Numbered /\ Numbered \in Int
    BY <1>1, LenProperties DEF Numbered, TypeOK
  <2>2. QED
    BY <1>2, <2>1 DEF Taken, PipelineInv, EncodingQueueInv
<1>4. InPlace(x, ordered) /\ x.n = Taken
  BY <1>2, <1>3 DEF PipelineInv, EncodingQueueInv
<1>5. OrderingInv' /\ SendQueueInv' /\ WireInOrder'
  BY <1>1, <1>3 DEF PipelineInv, OrderingInv, SendQueueInv, WireInOrder
<1>6. EncodingQueueInv'
  <2>1. ASSUME NEW i \in 1 .. Len(toEncoding')
        PROVE  InPlace(toEncoding'[i], ordered) /\ toEncoding'[i].n = Taken + 1 + i - 1
    <3>1. i + 1 \in 1 .. Len(toEncoding) /\ toEncoding'[i] = toEncoding[i + 1]
      BY <1>2
    <3>2. InPlace(toEncoding[i + 1], ordered) /\ toEncoding[i + 1].n = Taken + (i + 1) - 1
      BY <3>1 DEF PipelineInv, EncodingQueueInv
    <3>3. QED
      BY <1>3, <3>1, <3>2
  <2>2. QED
    BY <1>1, <1>3, <2>1 DEF EncodingQueueInv
<1>7. TurnstileInv'
  <2>1. /\ Holds(e)' /\ ~Holds(e) /\ encItem'[e] = x /\ encPc'[e] = "lock"
        /\ \A f \in Encoders \ {e} : /\ Holds(f)' <=> Holds(f)
                                     /\ encItem'[f] = encItem[f]
                                     /\ encPc'[f] = encPc[f]
    BY <1>1 DEF Holds, TypeOK
  <2>2. /\ turn \in Nat /\ turn <= Taken /\ blockToSend = IdOf(turn)
        /\ \A f \in Encoders : Holds(f) => encItem[f].n \in turn .. (Taken - 1)
    <3>1. \A f \in Encoders : Holds(f) => encItem[f].n \in Nat
      BY DEF TypeOK, Items
    <3>2. QED
      BY <1>3, <3>1 DEF TypeOK, PipelineInv, TurnstileInv
  <2>3. \A f \in Encoders :
          Holds(f)' => /\ InPlace(encItem'[f], ordered)
                       /\ turn <= encItem'[f].n /\ encItem'[f].n < Taken + 1
                       /\ encPc'[f] = "send" => encItem'[f].n = turn
    BY <1>3, <1>4, <2>1, <2>2 DEF PipelineInv, TurnstileInv
  <2>4. \A f, g \in Encoders :
          Holds(f)' /\ Holds(g)' /\ encItem'[f].n = encItem'[g].n => f = g
    BY <1>3, <1>4, <2>1, <2>2 DEF PipelineInv, TurnstileInv
  <2>5. \A n \in turn .. Taken : \E f \in Encoders : Holds(f)' /\ encItem'[f].n = n
    <3>1. ASSUME NEW n \in turn .. Taken, n # Taken
          PROVE  \E f \in Encoders : Holds(f)' /\ encItem'[f].n = n
      <4>1. n \in turn .. (Taken - 1)
        BY <1>3, <2>2, <3>1
      <4>2. PICK f \in Encoders : Holds(f) /\ encItem[f].n = n
        BY <4>1 DEF PipelineInv, TurnstileInv
      <4>3. QED
        BY <2>1, <4>2
    <3>2. QED
      BY <1>4, <2>1, <3>1
  <2>6. Taken' - 1 = Taken /\ turn' <= Taken'
    BY <1>1, <1>3, <2>2
  <2>7. QED
    BY <1>1, <1>3, <2>2, <2>3, <2>4, <2>5, <2>6 DEF TurnstileInv
<1>8. QED
  BY <1>5, <1>6, <1>7 DEF PipelineInv

\* Locking, waking up and notifying move no block.  The encoder that finds its
\* id in block_to_send holds the position `turn': all positions in the
\* encoders' hands are less than a turn of the ids apart.
LEMMA TurnstileStep ==
  ASSUME TypeOK, PipelineInv, WireInOrder, NEW e \in Encoders,
         EncoderLock(e) \/ SpuriousWakeup(e) \/ EncoderNotify(e)
  PROVE  PipelineInv' /\ WireInOrder'
<1>1. UNCHANGED <<ordered, ordPc, ordId, ordBlock, toEncoding, encItem, blockToSend,
                  turn, toSend, udpPc, wire>>
  BY DEF EncoderLock, SpuriousWakeup, EncoderNotify, ordVars, udpVars
<1>2. Numbered' = Numbered /\ Taken' = Taken
  BY <1>1 DEF Numbered, Taken
<1>3. OrderingInv' /\ EncodingQueueInv' /\ SendQueueInv' /\ WireInOrder'
  BY <1>1, <1>2
     DEF PipelineInv, OrderingInv, EncodingQueueInv, SendQueueInv, WireInOrder
<1>4. \A f \in Encoders : Holds(f)' <=> Holds(f)
  BY DEF EncoderLock, SpuriousWakeup, EncoderNotify, Holds, TypeOK
<1>5. \A f \in Encoders :
        encPc'[f] = "send" /\ encPc[f] # "send"
          => Holds(f) /\ encItem[f].id = blockToSend
  BY DEF EncoderLock, SpuriousWakeup, EncoderNotify, Holds, TypeOK
<1>6. ASSUME NEW f \in Encoders, encPc'[f] = "send" PROVE encItem[f].n = turn
  <2>1. CASE encPc[f] = "send"
    BY <2>1 DEF PipelineInv, TurnstileInv, Holds
  <2>2. CASE encPc[f] # "send"
    <3>1. Holds(f) /\ encItem[f].id = blockToSend /\ encItem[f] \in Items
      BY <1>5, <1>6, <2>2 DEF TypeOK
    <3>2. /\ turn <= encItem[f].n /\ encItem[f].n < Taken
          /\ IdOf(turn) = IdOf(encItem[f].n)
      BY <3>1 DEF PipelineInv, TurnstileInv, InPlace
    <3>3. Taken <= turn + IdModulus /\ Taken \in Nat
      BY HeldPositionsFit DEF PipelineInv, EncodingQueueInv
    <3>4. turn \in Nat /\ encItem[f].n \in Nat
      BY <3>1 DEF TypeOK, Items
    <3>5. encItem[f].n < turn + IdModulus
      BY <3>2, <3>3, <3>4
    <3>6. QED
      BY <3>2, <3>4, <3>5, IdsDistinctInATurn
  <2>3. QED
    BY <2>1, <2>2
<1>7. TurnstileInv'
  BY <1>1, <1>2, <1>4, <1>6 DEF PipelineInv, TurnstileInv
<1>8. QED
  BY <1>3, <1>7 DEF PipelineInv

\* The encoder in its turn hands the position `turn' over to to_send.
LEMMA EncoderSendStep ==
  ASSUME TypeOK, PipelineInv, WireInOrder, NEW e \in Encoders, EncoderSend(e)
  PROVE  PipelineInv' /\ WireInOrder'
<1> DEFINE x == encItem[e]
<1>1. /\ encPc[e] = "send" /\ toSend' = Append(toSend, x)
      /\ blockToSend' = WrappingAdd(blockToSend, 1) /\ turn' = turn + 1
      /\ encItem' = [encItem EXCEPT ![e] = NoItem]
      /\ encPc' = [encPc EXCEPT ![e] = "notify"]
      /\ UNCHANGED <<ordered, ordPc, ordId, ordBlock, toEncoding, udpPc, wire>>
  BY DEF EncoderSend, ordVars, udpVars
<1>2. /\ Holds(e) /\ x \in Items /\ InPlace(x, ordered)
      /\ x.n = turn /\ turn < Taken
      /\ turn \in Nat /\ blockToSend = IdOf(turn)
  <2>1. Holds(e)
    BY <1>1 DEF Holds
  <2>2. QED
    BY <1>1, <2>1 DEF TypeOK, PipelineInv, TurnstileInv
<1> HIDE DEF x
<1>3. Numbered' = Numbered /\ Taken' = Taken /\ Taken \in Nat
  BY <1>1 DEF Numbered, Taken, PipelineInv, EncodingQueueInv
<1>4. OrderingInv' /\ EncodingQueueInv' /\ WireInOrder'
  BY <1>1, <1>3 DEF PipelineInv, OrderingInv, EncodingQueueInv, WireInOrder
<1>5. TurnstileInv'
  <2>1. /\ ~Holds(e)'
        /\ \A f \in Encoders \ {e} : /\ Holds(f)' <=> Holds(f)
                                     /\ encItem'[f] = encItem[f]
                                     /\ encPc'[f] = encPc[f]
    BY <1>1 DEF Holds, TypeOK
  <2>2. \A f \in Encoders \ {e} : Holds(f) =>
          /\ encItem[f].n \in Nat /\ turn <= encItem[f].n /\ encItem[f].n # turn
          /\ encPc[f] # "send"
    <3>1. \A f \in Encoders : Holds(f) => encItem[f].n \in Nat
      BY DEF TypeOK, Items
    <3>2. QED
      BY <1>2, <3>1 DEF PipelineInv, TurnstileInv, x
  <2>3. \A f \in Encoders :
          Holds(f)' => /\ InPlace(encItem'[f], ordered)
                       /\ turn + 1 <= encItem'[f].n /\ encItem'[f].n < Taken
                       /\ encPc'[f] = "send" => encItem'[f].n = turn + 1
    <3>1. ASSUME NEW f \in Encoders, Holds(f)'
          PROVE  /\ InPlace(encItem'[f], ordered)
                 /\ turn + 1 <= encItem'[f].n /\ encItem'[f].n < Taken
                 /\ encPc'[f] # "send"
      <4>1. f # e /\ Holds(f) /\ encItem'[f] = encItem[f] /\ encPc'[f] = encPc[f]
        BY <2>1, <3>1
      <4>2. turn + 1 <= encItem[f].n
        BY <1>2, <2>2, <4>1
      <4>3. QED
        BY <2>2, <4>1, <4>2 DEF PipelineInv, TurnstileInv
    <3>2. QED
      BY <3>1
  <2>4. \A f, g \in Encoders :
          Holds(f)' /\ Holds(g)' /\ encItem'[f].n = encItem'[g].n => f = g
    BY <2>1 DEF PipelineInv, TurnstileInv
  <2>5. ASSUME NEW n \in (turn + 1) .. (Taken - 1)
        PROVE  \E f \in Encoders : Holds(f)' /\ encItem'[f].n = n
    <3>1. n \in turn .. (Taken - 1) /\ n # turn
      BY <1>2, <1>3
    <3>2. PICK f \in Encoders : Holds(f) /\ encItem[f].n = n
      BY <3>1 DEF PipelineInv, TurnstileInv
    <3>3. f # e
      BY <1>2, <3>1, <3>2 DEF x
    <3>4. QED
      BY <2>1, <3>2, <3>3
  <2>6. blockToSend' = IdOf(turn + 1) /\ turn + 1 <= Taken
    BY <1>1, <1>2, <1>3, IdOfNext
  <2>7. QED
    BY <1>1, <1>3, <2>3, <2>4, <2>5, <2>6 DEF TurnstileInv
<1>6. SendQueueInv'
  <2>1. toSend \in Seq(Items \cup {Stop}) /\ x \in Items \cup {Stop} /\ x # Stop
    BY <1>2 DEF TypeOK
  <2>2. /\ Len(toSend) \in Nat /\ Len(toSend') = Len(toSend) + 1
        /\ toSend'[Len(toSend) + 1] = x
        /\ \A i \in 1 .. Len(toSend) : toSend'[i] = toSend[i]
    BY <1>1, <2>1, AppendProperties, LenProperties
  <2>3. Len(wire) \in Nat /\ Len(wire) <= turn
    BY LenProperties DEF TypeOK, PipelineInv, SendQueueInv
  <2>4. \A i \in 1 .. Len(toSend) : toSend[i] # Stop => toSend[i].n \in Nat
    BY <2>1, ElementOfSeq DEF Items
  <2>5. \A i \in 1 .. Len(toSend') :
          toSend'[i] # Stop => InPlace(toSend'[i], ordered) /\ toSend'[i].n < turn + 1
    <3>1. ASSUME NEW i \in 1 .. Len(toSend), toSend[i] # Stop
          PROVE  InPlace(toSend[i], ordered) /\ toSend[i].n < turn + 1
      BY <1>2, <2>4, <3>1 DEF PipelineInv, SendQueueInv
    <3>2. QED
      BY <1>2, <2>2, <3>1
  <2>6. ASSUME udpPc \in {"run", "drain"}
        PROVE  /\ \A i \in 1 .. Len(toSend') :
                    toSend'[i] # Stop => Len(wire) <= toSend'[i].n
               /\ \A i, j \in 1 .. Len(toSend') :
                    i < j /\ toSend'[i] # Stop /\ toSend'[j] # Stop
                      => toSend'[i].n < toSend'[j].n
               /\ \A n \in Len(wire) .. turn :
                    \E i \in 1 .. Len(toSend') : toSend'[i] # Stop /\ toSend'[i].n = n
    <3>1. ASSUME NEW i \in 1 .. Len(toSend'), toSend'[i] # Stop
          PROVE  Len(wire) <= toSend'[i].n
      <4>1. CASE i \in 1 .. Len(toSend)
        BY <2>2, <2>6, <3>1, <4>1 DEF PipelineInv, SendQueueInv
      <4>2. CASE i = Len(toSend) + 1
        BY <1>2, <2>2, <2>3, <4>2
      <4>3. QED
        BY <2>2, <4>1, <4>2
    <3>2. ASSUME NEW i \in 1 .. Len(toSend'), NEW j \in 1 .. Len(toSend'),
                 i < j, toSend'[i] # Stop, toSend'[j] # Stop
          PROVE  toSend'[i].n < toSend'[j].n
      <4>1. i \in 1 .. Len(toSend)
        BY <2>2, <3>2
      <4>2. toSend'[i] = toSend[i] /\ toSend[i].n < turn
        BY <2>2, <3>2, <4>1 DEF PipelineInv, SendQueueInv
      <4>3. CASE j \in 1 .. Len(toSend)
        BY <2>2, <2>6, <3>2, <4>1, <4>2, <4>3 DEF PipelineInv, SendQueueInv
      <4>4. CASE j = Len(toSend) + 1
        BY <1>2, <2>2, <4>2, <4>4
      <4>5. QED
        BY <2>2, <4>3, <4>4
    <3>3. ASSUME NEW n \in Len(wire) .. turn
          PROVE  \E i \in 1 .. Len(toSend') : toSend'[i] # Stop /\ toSend'[i].n = n
      <4>1. CASE n = turn
        <5>1. Len(toSend) + 1 \in 1 .. Len(toSend')
          BY <2>2
        <5>2. QED
          BY <1>2, <2>1, <2>2, <4>1, <5>1
      <4>2. CASE n # turn
        <5>1. n \in Len(wire) .. (turn - 1)
          BY <1>2, <2>3, <4>2
        <5>2. PICK i \in 1 .. Len(toSend) : toSend[i] # Stop /\ toSend[i].n = n
          BY <2>6, <5>1 DEF PipelineInv, SendQueueInv
        <5>3. i \in 1 .. Len(toSend') /\ toSend'[i] = toSend[i]
          BY <2>2
        <5>4. QED
          BY <5>2, <5>3
      <4>3. QED
        BY <4>1, <4>2
    <3>4. QED
      BY <3>1, <3>2, <3>3
  <2>7. Len(wire) <= turn + 1
    BY <1>2, <2>3
  <2>8. turn' = turn + 1 /\ turn' - 1 = turn /\ wire' = wire /\ udpPc' = udpPc
        /\ ordered' = ordered
    BY <1>1, <1>2
  <2>9. QED
    BY <2>5, <2>6, <2>7, <2>8 DEF SendQueueInv
<1>7. QED
  BY <1>4, <1>5, <1>6 DEF PipelineInv

\* The UDP worker sends the head of to_send, or a part of it before it fails: the
\* first position not on the link.
LEMMA UdpSendStep ==
  ASSUME TypeOK, PipelineInv, WireInOrder, UdpSend \/ (UdpFail /\ OnLink(Head(toSend)))
  PROVE  /\ PipelineInv' /\ WireInOrder'
         /\ Len(wire) < Len(ordered)
         /\ wire' = Append(wire, [id |-> IdOf(Len(wire)),
                                  block |-> ordered[Len(wire) + 1]])
<1> DEFINE x == Head(toSend)
           p == [id |-> x.id, block |-> x.block]
<1>1. /\ udpPc \in {"run", "drain"} /\ toSend # <<>> /\ x # Stop
      /\ toSend' = Tail(toSend) /\ OnLink(x)
      /\ toSend \in Seq(Items \cup {Stop}) /\ wire \in Seq([id : Ids, block : Blocks])
      /\ UNCHANGED <<ordered, ordPc, ordId, ordBlock, toEncoding, encPc, encItem,
                     blockToSend, turn>>
  BY DEF UdpSend, UdpFail, UdpReceive, ordVars, encVars, TypeOK
<1>o. wire' = Append(wire, p)
  BY <1>1 DEF OnLink
<1>2. /\ x = toSend[1] /\ x \in Items
      /\ Len(toSend) \in Nat \ {0} /\ Len(toSend') = Len(toSend) - 1
      /\ \A i \in 1 .. Len(toSend') : toSend'[i] = toSend[i + 1]
  BY <1>1, HeadTailProperties, LenProperties, EmptySeq
<1>3. /\ Len(wire) \in Nat /\ Len(ordered) \in Nat /\ turn \in Nat
      /\ p \in [id : Ids, block : Blocks] /\ p.id = x.id /\ p.block = x.block
  BY <1>1, <1>2, LenProperties DEF TypeOK, Items
<1> HIDE DEF x
<1>4. \A i \in 1 .. Len(toSend) : toSend[i] # Stop =>
        toSend[i].n \in Nat /\ Len(wire) <= toSend[i].n /\ toSend[i].n < turn
  <2>1. \A i \in 1 .. Len(toSend) : toSend[i] # Stop => toSend[i].n \in Nat
    BY <1>1, ElementOfSeq DEF Items
  <2>2. QED
    BY <1>1, <2>1 DEF PipelineInv, SendQueueInv
<1>5. InPlace(x, ordered) /\ x.n = Len(wire) /\ Len(wire) < turn
  <2>1. 1 \in 1 .. Len(toSend) /\ toSend[1] # Stop
    BY <1>1, <1>2
  <2>2. InPlace(x, ordered) /\ Len(wire) <= x.n /\ x.n < turn /\ x.n \in Nat
    BY <1>2, <1>4, <2>1 DEF PipelineInv, SendQueueInv
  <2>3. Len(wire) \in Len(wire) .. (turn - 1)
    BY <1>3, <2>2
  <2>4. PICK j \in 1 .. Len(toSend) : toSend[j] # Stop /\ toSend[j].n = Len(wire)
    BY <1>1, <2>3 DEF PipelineInv, SendQueueInv
  <2>5. CASE j = 1
    BY <1>2, <2>2, <2>4, <2>5, <1>3
  <2>6. CASE 1 < j
    <3>1. x.n < toSend[j].n
      BY <1>1, <1>2, <2>1, <2>4, <2>6 DEF PipelineInv, SendQueueInv
    <3>2. QED
      BY <1>3, <2>2, <2>4, <3>1
  <2>7. QED
    BY <1>2, <2>4, <2>5, <2>6
<1>6. /\ Len(wire) < Len(ordered)
      /\ p = [id |-> IdOf(Len(wire)), block |-> ordered[Len(wire) + 1]]
  BY <1>5 DEF InPlace
<1> HIDE DEF p
<1>7. /\ Len(wire') = Len(wire) + 1 /\ wire'[Len(wire) + 1] = p
      /\ \A i \in 1 .. Len(wire) : wire'[i] = wire[i]
  BY <1>1, <1>o, <1>3, AppendProperties
<1>8. WireInOrder'
  <2>1. Len(wire) + 1 <= Len(ordered)
    BY <1>3, <1>6
  <2>2. ASSUME NEW i \in 1 .. Len(wire) + 1
        PROVE  wire'[i] = [id |-> IdOf(i - 1), block |-> ordered[i]]
    <3>1. CASE i \in 1 .. Len(wire)
      BY <1>7, <3>1 DEF WireInOrder
    <3>2. CASE i = Len(wire) + 1
      <4>1. i - 1 = Len(wire)
        BY <1>3, <3>2
      <4>2. QED
        BY <1>6, <1>7, <3>2, <4>1
    <3>3. QED
      BY <1>3, <3>1, <3>2
  <2>3. QED
    BY <1>1, <1>7, <2>1, <2>2 DEF WireInOrder
<1>9. SendQueueInv'
  <2>1. ASSUME NEW i \in 1 .. Len(toSend')
        PROVE  i + 1 \in 1 .. Len(toSend) /\ toSend'[i] = toSend[i + 1] /\ 1 < i + 1
    BY <1>2
  <2>2. \A i \in 1 .. Len(toSend') :
          toSend'[i] # Stop => InPlace(toSend'[i], ordered) /\ toSend'[i].n < turn
    BY <2>1 DEF PipelineInv, SendQueueInv
  <2>3. ASSUME NEW i \in 1 .. Len(toSend'), toSend'[i] # Stop
        PROVE  Len(wire) + 1 <= toSend'[i].n
    <3>1. x.n < toSend[i + 1].n
      <4>1. /\ 1 \in 1 .. Len(toSend) /\ i + 1 \in 1 .. Len(toSend) /\ 1 < i + 1
            /\ toSend[1] # Stop /\ toSend[i + 1] # Stop /\ x = toSend[1]
        BY <1>1, <1>2, <2>1, <2>3
      <4>2. \A k, j \in 1 .. Len(toSend) :
              k < j /\ toSend[k] # Stop /\ toSend[j] # Stop => toSend[k].n < toSend[j].n
        BY <1>1 DEF PipelineInv, SendQueueInv
      <4>3. QED
        BY <4>1, <4>2
    <3>2. QED
      BY <1>3, <1>4, <1>5, <2>1, <2>3, <3>1
  <2>4. ASSUME NEW i \in 1 .. Len(toSend'), NEW j \in 1 .. Len(toSend'),
               i < j, toSend'[i] # Stop, toSend'[j] # Stop
        PROVE  toSend'[i].n < toSend'[j].n
    <3>1. i + 1 < j + 1
      BY <1>2, <2>4
    <3>2. QED
      BY <1>1, <2>1, <2>4, <3>1 DEF PipelineInv, SendQueueInv
  <2>5. ASSUME NEW n \in (Len(wire) + 1) .. (turn - 1)
        PROVE  \E i \in 1 .. Len(toSend') : toSend'[i] # Stop /\ toSend'[i].n = n
    <3>1. n \in Len(wire) .. (turn - 1) /\ n # Len(wire)
      BY <1>3
    <3>2. PICK j \in 1 .. Len(toSend) : toSend[j] # Stop /\ toSend[j].n = n
      BY <1>1, <3>1 DEF PipelineInv, SendQueueInv
    <3>3. j # 1
      BY <1>2, <1>5, <3>1, <3>2
    <3>4. j - 1 \in 1 .. Len(toSend') /\ toSend'[j - 1] = toSend[j]
      BY <1>2, <3>3
    <3>5. QED
      BY <3>2, <3>4
  <2>6. Len(wire) + 1 <= turn
    BY <1>3, <1>5
  <2>7. QED
    BY <1>1, <1>7, <2>2, <2>3, <2>4, <2>5, <2>6 DEF SendQueueInv
<1>10. Numbered' = Numbered /\ Taken' = Taken
  BY <1>1 DEF Numbered, Taken
<1>11. OrderingInv' /\ EncodingQueueInv'
  BY <1>1, <1>10 DEF PipelineInv, OrderingInv, EncodingQueueInv
<1>12. TurnstileInv'
  <2>1. \A e \in Encoders : Holds(e)' <=> Holds(e)
    BY <1>1 DEF Holds
  <2>2. QED
    BY <1>1, <1>10, <2>1 DEF PipelineInv, TurnstileInv
<1>13. QED
  BY <1>o, <1>6, <1>8, <1>9, <1>11, <1>12 DEF PipelineInv, p

\* The end of the UDP worker, or its wait for more Nones, loses no order.
LEMMA UdpEndStep ==
  ASSUME TypeOK, PipelineInv, WireInOrder, (UdpFail /\ UNCHANGED wire) \/ UdpStop
  PROVE  PipelineInv' /\ WireInOrder'
<1>1. /\ udpPc \in {"run", "drain"} /\ toSend # <<>>
      /\ toSend' = Tail(toSend) /\ toSend \in Seq(Items \cup {Stop})
      /\ udpPc' \in {"run", "drain"} => toSend[1] = Stop
      /\ UNCHANGED <<ordered, ordPc, ordId, ordBlock, toEncoding, encPc, encItem,
                     blockToSend, turn, wire>>
  BY DEF UdpFail, UdpStop, UdpReceive, ordVars, encVars, TypeOK
<1>2. /\ Len(toSend) \in Nat \ {0} /\ Len(toSend') = Len(toSend) - 1
      /\ \A i \in 1 .. Len(toSend') : toSend'[i] = toSend[i + 1]
  BY <1>1, HeadTailProperties, LenProperties, EmptySeq
<1>3. Numbered' = Numbered /\ Taken' = Taken
  BY <1>1 DEF Numbered, Taken
<1>4. OrderingInv' /\ EncodingQueueInv' /\ WireInOrder'
  BY <1>1, <1>3 DEF PipelineInv, OrderingInv, EncodingQueueInv, WireInOrder
<1>5. TurnstileInv'
  <2>1. \A e \in Encoders : Holds(e)' <=> Holds(e)
    BY <1>1 DEF Holds
  <2>2. QED
    BY <1>1, <1>3, <2>1 DEF PipelineInv, TurnstileInv
<1>6. SendQueueInv'
  <2>1. ASSUME NEW i \in 1 .. Len(toSend')
        PROVE  i + 1 \in 1 .. Len(toSend) /\ toSend'[i] = toSend[i + 1]
    BY <1>2
  <2>2. \A i \in 1 .. Len(toSend') :
          toSend'[i] # Stop => InPlace(toSend'[i], ordered) /\ toSend'[i].n < turn
    BY <2>1 DEF PipelineInv, SendQueueInv
  <2>3. ASSUME udpPc' \in {"run", "drain"}
        PROVE  /\ \A i \in 1 .. Len(toSend') :
                    toSend'[i] # Stop => Len(wire) <= toSend'[i].n
               /\ \A i, j \in 1 .. Len(toSend') :
                    i < j /\ toSend'[i] # Stop /\ toSend'[j] # Stop
                      => toSend'[i].n < toSend'[j].n
               /\ \A n \in Len(wire) .. (turn - 1) :
                    \E i \in 1 .. Len(toSend') : toSend'[i] # Stop /\ toSend'[i].n = n
    <3>1. \A i \in 1 .. Len(toSend') :
            toSend'[i] # Stop => Len(wire) <= toSend'[i].n
      BY <1>1, <2>1 DEF PipelineInv, SendQueueInv
    <3>2. ASSUME NEW i \in 1 .. Len(toSend'), NEW j \in 1 .. Len(toSend'),
                 i < j, toSend'[i] # Stop, toSend'[j] # Stop
          PROVE  toSend'[i].n < toSend'[j].n
      <4>1. i + 1 < j + 1
        BY <1>2, <3>2
      <4>2. QED
        BY <1>1, <2>1, <3>2, <4>1 DEF PipelineInv, SendQueueInv
    <3>3. ASSUME NEW n \in Len(wire) .. (turn - 1)
          PROVE  \E i \in 1 .. Len(toSend') : toSend'[i] # Stop /\ toSend'[i].n = n
      <4>1. PICK j \in 1 .. Len(toSend) : toSend[j] # Stop /\ toSend[j].n = n
        BY <1>1 DEF PipelineInv, SendQueueInv
      <4>2. j # 1
        BY <1>1, <2>3, <4>1
      <4>3. j - 1 \in 1 .. Len(toSend') /\ toSend'[j - 1] = toSend[j]
        BY <1>2, <4>2
      <4>4. QED
        BY <4>1, <4>3
    <3>4. QED
      BY <3>1, <3>2, <3>3
  <2>4. QED
    BY <1>1, <2>2, <2>3 DEF PipelineInv, SendQueueInv
<1>7. QED
  BY <1>4, <1>5, <1>6 DEF PipelineInv

LEMMA InvUnchanged ==
  ASSUME PipelineInv, WireInOrder, Submit \/ UNCHANGED pipeVars
  PROVE  PipelineInv' /\ WireInOrder'
<1>1. UNCHANGED <<ordered, ordPc, ordId, ordBlock, toEncoding, encPc, encItem,
                  blockToSend, turn, toSend, udpPc, wire>>
  BY DEF Submit, pipeVars, ordVars, encVars, udpVars
<1>2. Numbered' = Numbered /\ Taken' = Taken /\ \A e \in Encoders : Holds(e)' <=> Holds(e)
  BY <1>1 DEF Numbered, Taken, Holds
<1>3. QED
  BY <1>1, <1>2 DEF PipelineInv, OrderingInv, EncodingQueueInv, TurnstileInv,
                    SendQueueInv, WireInOrder

LEMMA InvStep ==
  TypeOK /\ PipelineInv /\ WireInOrder /\ [Next]_pipeVars => PipelineInv' /\ WireInOrder'
  BY OrderingReceiveStep, OrderingSendStep, OrderingStopStep, EncoderReceiveStep,
     TurnstileStep, EncoderSendStep, UdpSendStep, UdpEndStep, FailCases, InvUnchanged
     DEF Next, PipelineNext, Ordering, Encoder, Udp

\* Every accepted block is in exactly one place on its way to the link, and the
\* encoders hold the positions that follow the turnstile, one each.
THEOREM PipelineInvariant == Spec => []PipelineInv
<1>1. PipelineInit => TypeOK /\ PipelineInv /\ WireInOrder
  BY TypeInit, InvInit
<1>2. /\ TypeOK /\ PipelineInv /\ WireInOrder
      /\ [Next]_pipeVars
      => (TypeOK /\ PipelineInv /\ WireInOrder)'
  BY TypeStep, InvStep
<1>3. QED
  BY <1>1, <1>2, PTL DEF Spec

\* encoding.rs and udp.rs put the blocks on the link in the order ordering.rs
\* accepted them, under consecutive ids, however the threads interleave.
THEOREM WireOrdered == Spec => []WireInOrder
<1>1. PipelineInit => TypeOK /\ PipelineInv /\ WireInOrder
  BY TypeInit, InvInit
<1>2. /\ TypeOK /\ PipelineInv /\ WireInOrder
      /\ [Next]_pipeVars
      => (TypeOK /\ PipelineInv /\ WireInOrder)'
  BY TypeStep, InvStep
<1>3. QED
  BY <1>1, <1>2, PTL DEF Spec

\* No two encoding threads ever wait for the same value of block_to_send.
THEOREM HeldIdsAreDistinct == Spec => []HeldIdsDistinct
<1>1. TypeOK /\ PipelineInv => HeldIdsDistinct
  <2> SUFFICES ASSUME TypeOK, PipelineInv PROVE HeldIdsDistinct
    OBVIOUS
  <2>1. \A e \in Encoders : Holds(e) => encItem[e].n \in Nat
    BY DEF TypeOK, Items
  <2>2. Taken <= turn + IdModulus /\ Taken \in Nat /\ turn \in Nat
    BY HeldPositionsFit DEF PipelineInv, EncodingQueueInv, TypeOK
  <2>3. ASSUME NEW e \in Encoders, NEW f \in Encoders, Holds(e), Holds(f),
               encItem[e].id = encItem[f].id, encItem[e].n <= encItem[f].n
        PROVE  e = f
    <3>1. /\ turn <= encItem[e].n /\ encItem[f].n < Taken
          /\ IdOf(encItem[e].n) = IdOf(encItem[f].n)
      BY <2>3 DEF PipelineInv, TurnstileInv, InPlace
    <3>2. encItem[f].n < encItem[e].n + IdModulus
      BY <2>1, <2>2, <2>3, <3>1
    <3>3. encItem[e].n = encItem[f].n
      BY <2>1, <2>3, <3>1, <3>2, IdsDistinctInATurn
    <3>4. QED
      BY <2>3, <3>3 DEF PipelineInv, TurnstileInv
  <2>4. QED
    BY <2>1, <2>3 DEF HeldIdsDistinct
<1>2. QED
  BY <1>1, TypeCorrect, PipelineInvariant, PTL

\* The workers implement one ordered line: every step of theirs accepts a block,
\* emits the next accepted block, takes the line down, or changes nothing that
\* the link can see.
THEOREM PipelineImplementsLine == Spec => ImplementsLine
<1>1. PipelineInit => Line!Init
  BY DEF PipelineInit, Line!Init
<1>2. ASSUME TypeOK, PipelineInv, WireInOrder, [Next]_pipeVars
      PROVE  [Line!Next]_(Line!lineVars)
  <2> USE DEF Line!Next, Line!lineVars
  <2>1. CASE OrderingReceive
    <3>1. CASE Head(toOrdering) = Stop
      BY <2>1, <3>1 DEF OrderingReceive, udpVars
    <3>2. CASE Head(toOrdering) # Stop
      <4>1. Head(toOrdering) \in Blocks
        BY <1>2, <2>1, <3>2, HeadTailProperties DEF OrderingReceive, TypeOK
      <4>2. Line!Accept
        BY <2>1, <3>2, <4>1 DEF OrderingReceive, udpVars, Line!Accept
      <4>3. QED
        BY <4>2
    <3>3. QED
      BY <3>1, <3>2
  <2>2. CASE UdpSend
    <3>1. Line!Emit
      BY <1>2, <2>2, UdpSendStep
         DEF UdpSend, UdpReceive, ordVars, Line!Emit, Line!EmitNext, Line!IdOf, IdOf
    <3>2. QED
      BY <3>1
  <2>3. CASE UdpFail
    <3>1. UNCHANGED ordered /\ udpPc \in {"run", "drain"} /\ udpPc' = "failed"
      BY <2>3 DEF UdpFail, UdpReceive, ordVars
    <3>2. CASE OnLink(Head(toSend))
      <4>1. Line!EmitNext
        BY <1>2, <2>3, <3>1, <3>2, UdpSendStep DEF Line!EmitNext, Line!IdOf, IdOf
      <4>2. QED
        BY <3>1, <4>1 DEF Line!GoDown
    <3>3. CASE UNCHANGED wire
      BY <3>1, <3>3 DEF Line!GoDown
    <3>4. QED
      BY <2>3, <3>2, <3>3 DEF UdpFail
  <2>4. CASE UdpStop
    <3>1. Line!GoDown \/ UNCHANGED Line!lineVars
      BY <2>4 DEF UdpStop, UdpReceive, ordVars, Line!GoDown
    <3>2. QED
      BY <3>1
  <2>5. CASE OrderingSend \/ OrderingStop
    BY <2>5 DEF OrderingSend, OrderingStop, udpVars
  <2>6. CASE \E e \in Encoders : Encoder(e) \/ SpuriousWakeup(e)
    BY <2>6 DEF Encoder, EncoderReceive, EncoderLock, EncoderSend, EncoderNotify,
                SpuriousWakeup, ordVars, udpVars
  <2>7. CASE Submit \/ UNCHANGED pipeVars
    BY <2>7 DEF Submit, pipeVars, ordVars, udpVars
  <2>8. QED
    BY <1>2, <2>1, <2>2, <2>3, <2>4, <2>5, <2>6, <2>7
       DEF Next, PipelineNext, Ordering, Udp
<1>3. QED
  BY <1>1, <1>2, TypeCorrect, PipelineInvariant, WireOrdered, PTL
     DEF Spec, ImplementsLine, Line!Spec

=============================================================================
