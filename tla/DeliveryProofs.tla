--------------------------- MODULE DeliveryProofs ---------------------------
(***************************************************************************)
(* Proofs about dispatch and the client workers, for any finite number of  *)
(* workers, any set of client ids, any messages and runs of any length:    *)
(* what the workers own, and that Delivery implements Transfers.           *)
(***************************************************************************)
EXTENDS Delivery, SequenceTheorems, FiniteSetTheorems, TLAPS

USE DeliveryAssumption

TransferRecords ==
  [client : ClientIds, queue : Seq(Blocks), written : Seq(Nat),
   outcome : {"open", "success", "failed", "dropped"}]

ToldRecords ==
  [client : ClientIds, sent : Seq(Nat),
   closed : {"no", "replaced", "abort", "end", "loss"}]

\* The types of the data, all of TypeOK but the range of the permits.
DataTypes ==
  /\ active \in [ClientIds -> Transfers \cup {NoTransfer}]
  /\ ended \in [ClientIds -> Transfers \cup {NoTransfer}]
  /\ transfers \in Seq(TransferRecords)
  /\ toClients \in Seq(Transfers)
  /\ wkPc \in [Workers -> {"recv", "wait", "connect", "write", "signal", "drop"}]
  /\ wkTransfer \in [Workers -> Transfers \cup {NoTransfer}]
  /\ dispatched \in Nat
  /\ told \in Seq(ToldRecords) /\ Len(told) = Len(transfers)

\* A worker that is not between transfers has one.
Occupied == \A w \in Workers : wkPc[w] = "recv" <=> wkTransfer[w] = NoTransfer

\* The workers between WorkerAcquire and WorkerSignal, which hold a permit each.
Holding == {w \in Workers : wkPc[w] \in {"connect", "write", "signal"}}

PermitsInv == permits = Cardinality(Workers) - Cardinality(Holding)

\* The blocks that may come, whichever payload they have, and the reports of losses.
Message == {b \in Blocks : b.type # "Heartbeat" => b.n \in Nat}
Messages == {Lost} \cup Message

\* As Next, with any messages.
NextAny ==
  \/ \E m \in Messages : Dispatch(m)
  \/ \E w \in Workers : Worker(w)

LEMMA MessageFields ==
  ASSUME NEW m \in Message
  PROVE  /\ m \in Blocks /\ m.type \in BlockTypes /\ m.client \in ClientIds
         /\ m.type # "Heartbeat" => m.n \in Nat
  BY DEF Message, Blocks

\* The messages of Next are some of them, with payloads of their own.
LEMMA NextMessage ==
  ASSUME DataTypes, NEW m \in NextMessages, m # Lost
  PROVE  m \in Message /\ m.n = dispatched /\ dispatched \in Nat
  BY DEF NextMessages, Message, Blocks, DataTypes

LEMMA NextIsAny ==
  ASSUME DataTypes, [Next]_deliveryVars PROVE [NextAny]_deliveryVars
  BY NextMessage DEF Next, NextAny, Messages

-----------------------------------------------------------------------------
(* Permits *)

LEMMA HoldingFit ==
  /\ IsFiniteSet(Holding) /\ Cardinality(Holding) \in 0 .. Cardinality(Workers)
  /\ Cardinality(Workers) \in Nat
  /\ Holding # Workers => Cardinality(Holding) < Cardinality(Workers)
<1>1. /\ IsFiniteSet(Holding) /\ Cardinality(Holding) <= Cardinality(Workers)
      /\ Cardinality(Workers) = Cardinality(Holding) => Workers = Holding
      /\ Cardinality(Holding) \in Nat /\ Cardinality(Workers) \in Nat
  BY FS_Subset, FS_CardinalityType DEF Holding
<1>2. QED
  BY <1>1

\* A worker whose program counter goes from one place to another.
LEMMA HoldingStep ==
  ASSUME wkPc \in [Workers -> {"recv", "wait", "connect", "write", "signal", "drop"}],
         NEW w \in Workers, NEW pc, Goto(w, pc)
  PROVE  Cardinality(Holding') = Cardinality(Holding)
           + (IF pc \in {"connect", "write", "signal"} THEN 1 ELSE 0)
           - (IF w \in Holding THEN 1 ELSE 0)
<1>1. Holding' = IF pc \in {"connect", "write", "signal"} THEN Holding \cup {w}
                 ELSE Holding \ {w}
  BY DEF Holding, Goto
<1>2. /\ Cardinality(Holding \cup {w}) = IF w \in Holding THEN Cardinality(Holding)
                                         ELSE Cardinality(Holding) + 1
      /\ Cardinality(Holding \ {w}) = IF w \in Holding THEN Cardinality(Holding) - 1
                                      ELSE Cardinality(Holding)
  BY HoldingFit, FS_AddElement, FS_RemoveElement
<1>3. Cardinality(Holding) \in Nat
  BY HoldingFit
<1>4. QED
  BY <1>1, <1>2, <1>3

LEMMA PermitsStep ==
  ASSUME DataTypes, PermitsInv, [NextAny]_deliveryVars
  PROVE  PermitsInv'
<1>1. Cardinality(Holding) \in Nat /\ Cardinality(Workers) \in Nat
  BY HoldingFit
<1>2. CASE UNCHANGED <<permits, wkPc>>
  BY <1>2 DEF PermitsInv, Holding
<1>3. ASSUME NEW w \in Workers, NEW pc, Goto(w, pc),
             permits' = permits + (IF w \in Holding THEN 1 ELSE 0)
                          - (IF pc \in {"connect", "write", "signal"} THEN 1 ELSE 0)
      PROVE  PermitsInv'
  <2>1. Cardinality(Holding') = Cardinality(Holding)
          + (IF pc \in {"connect", "write", "signal"} THEN 1 ELSE 0)
          - (IF w \in Holding THEN 1 ELSE 0)
    BY <1>3, HoldingStep DEF DataTypes
  <2>2. PICK in, out \in {0, 1} :
          /\ in = IF pc \in {"connect", "write", "signal"} THEN 1 ELSE 0
          /\ out = IF w \in Holding THEN 1 ELSE 0
    OBVIOUS
  <2>3. QED
    BY <1>1, <1>3, <2>1, <2>2 DEF PermitsInv
<1>4. permits \in Int
  BY <1>1 DEF PermitsInv
<1>5. ASSUME NEW w \in Workers, WorkerReceive(w) PROVE PermitsInv'
  BY <1>3, <1>4, <1>5 DEF WorkerReceive, Holding
<1>6. ASSUME NEW w \in Workers, WorkerAcquire(w) PROVE PermitsInv'
  BY <1>3, <1>4, <1>6 DEF WorkerAcquire, Holding
<1>7. ASSUME NEW w \in Workers, ClientConnect(w) \/ ClientBlock(w) \/ ClientGivesUp(w)
      PROVE  PermitsInv'
  <2>1. permits' = permits /\ w \in Holding
    BY <1>7 DEF ClientConnect, ClientBlock, ClientGivesUp, Holding
  <2>2. UNCHANGED wkPc \/ Goto(w, "write") \/ Goto(w, "signal")
    BY <1>7 DEF ClientConnect, ClientBlock, ClientGivesUp, Leave
  <2>3. QED
    BY <1>2, <1>3, <1>4, <2>1, <2>2
<1>8. ASSUME NEW w \in Workers, WorkerSignal(w) PROVE PermitsInv'
  BY <1>3, <1>4, <1>8 DEF WorkerSignal, Signalled, Holding
<1>9. ASSUME NEW w \in Workers, WorkerDrop(w) PROVE PermitsInv'
  BY <1>3, <1>4, <1>9 DEF WorkerDrop, Holding
<1>10. QED
  BY <1>2, <1>5, <1>6, <1>7, <1>8, <1>9
     DEF NextAny, Worker, Dispatch, workerVars, deliveryVars

-----------------------------------------------------------------------------
(* What a message changes in the history `told' *)

\* A transfer that a block of client c speaks of.
Hears(t, c) == told[t].client = c /\ told[t].closed = "no"

\* What is told of a transfer when its blocks come to an end in this way.
Closed(h, how) == [client |-> h.client, sent |-> h.sent, closed |-> how]

LEMMA ClosedMeans ==
  ASSUME NEW h \in ToldRecords, NEW how \in {"no", "replaced", "abort", "end", "loss"}
  PROVE  Closed(h, how) \in ToldRecords /\ [h EXCEPT !.closed = how] = Closed(h, how)
  BY DEF Closed, ToldRecords

LEMMA ClosedFields ==
  ASSUME NEW h, NEW how
  PROVE  /\ Closed(h, how).client = h.client /\ Closed(h, how).sent = h.sent
         /\ Closed(h, how).closed = how
  BY DEF Closed

LEMMA TellLost ==
  ASSUME DataTypes, Tell(Lost)
  PROVE  /\ told' \in Seq(ToldRecords) /\ Len(told') = Len(told)
         /\ \A t \in 1 .. Len(told) :
              told'[t] = IF told[t].closed = "no" THEN Closed(told[t], "loss") ELSE told[t]
<1>1. told \in Seq(ToldRecords) /\ DOMAIN told = 1 .. Len(told) /\ Len(told) \in Nat
  BY LenProperties DEF DataTypes
<1>2. \A t \in 1 .. Len(told) :
        /\ told[t] \in ToldRecords /\ Closed(told[t], "loss") \in ToldRecords
        /\ [told[t] EXCEPT !.closed = "loss"] = Closed(told[t], "loss")
  BY <1>1, ClosedMeans
<1>3. told' = [t \in 1 .. Len(told) |->
                 IF told[t].closed = "no" THEN [told[t] EXCEPT !.closed = "loss"] ELSE told[t]]
  BY <1>1 DEF Tell, Close
<1>4. told' = [t \in 1 .. Len(told) |->
                 IF told[t].closed = "no" THEN Closed(told[t], "loss") ELSE told[t]]
  BY <1>2, <1>3
<1>5. told' \in [1 .. Len(told) -> ToldRecords]
  BY <1>2, <1>4
<1>6. QED
  BY <1>1, <1>4, <1>5

\* What is told of a transfer that starts.
ToldNew(c) == [client |-> c, sent |-> <<>>, closed |-> "no"]

LEMMA ToldNewFields ==
  ASSUME NEW c
  PROVE  ToldNew(c).client = c /\ ToldNew(c).sent = <<>> /\ ToldNew(c).closed = "no"
  BY DEF ToldNew

LEMMA TellStart ==
  ASSUME DataTypes, NEW m \in Message, m # Lost, m.type = "Start", Tell(m)
  PROVE  /\ told' \in Seq(ToldRecords) /\ Len(told') = Len(told) + 1
         /\ told'[Len(told) + 1] = ToldNew(m.client)
         /\ \A t \in 1 .. Len(told) :
              told'[t] = IF Hears(t, m.client) THEN Closed(told[t], "replaced") ELSE told[t]
<1> DEFINE mine == {t \in DOMAIN told : m # Lost /\ told[t].client = m.client}
           rest == Close(mine, "replaced")
           new == [client |-> m.client, sent |-> <<>>, closed |-> "no"]
<1>1. told \in Seq(ToldRecords) /\ DOMAIN told = 1 .. Len(told) /\ Len(told) \in Nat
  BY LenProperties DEF DataTypes
<1>2. told' = Append(rest, new)
  BY DEF Tell
<1>3. rest = [t \in 1 .. Len(told) |->
                IF Hears(t, m.client) THEN [told[t] EXCEPT !.closed = "replaced"] ELSE told[t]]
  BY <1>1 DEF Close, Hears
<1> HIDE DEF mine, rest
<1>4. \A t \in 1 .. Len(told) :
        /\ told[t] \in ToldRecords /\ Closed(told[t], "replaced") \in ToldRecords
        /\ [told[t] EXCEPT !.closed = "replaced"] = Closed(told[t], "replaced")
  BY <1>1, ClosedMeans
<1>5. /\ rest \in [1 .. Len(told) -> ToldRecords]
      /\ rest = [t \in 1 .. Len(told) |->
                   IF Hears(t, m.client) THEN Closed(told[t], "replaced") ELSE told[t]]
  BY <1>3, <1>4
<1>6. rest \in Seq(ToldRecords) /\ Len(rest) = Len(told)
  BY <1>1, <1>5
<1>7. new \in ToldRecords
  BY MessageFields DEF ToldRecords
<1> HIDE DEF new
<1>8. /\ told' \in Seq(ToldRecords) /\ Len(told') = Len(told) + 1
      /\ told'[Len(told) + 1] = new
      /\ \A t \in 1 .. Len(told) : told'[t] = rest[t]
  BY <1>2, <1>6, <1>7, AppendProperties
<1>9. QED
  BY <1>5, <1>8 DEF new, ToldNew

\* What is told of a transfer by a later block of its client.
Given(t, m) ==
  [client |-> told[t].client,
   sent   |-> IF m.type = "Abort" THEN told[t].sent ELSE Append(told[t].sent, m.n),
   closed |-> CASE m.type = "Data" -> "no" [] m.type = "Abort" -> "abort" [] OTHER -> "end"]

LEMMA GivenFields ==
  ASSUME NEW t, NEW m \in Message, m.type \in {"Data", "Abort", "End"}
  PROVE  /\ Given(t, m).client = told[t].client
         /\ Given(t, m).closed = "no" <=> m.type = "Data"
         /\ m.type = "Data" => /\ Given(t, m).sent = Append(told[t].sent, m.n)
                               /\ Given(t, m).closed = "no"
         /\ m.type = "End" => /\ Given(t, m).sent = Append(told[t].sent, m.n)
                              /\ Given(t, m).closed = "end"
         /\ m.type = "Abort" => Given(t, m).sent = told[t].sent /\ Given(t, m).closed = "abort"
<1>1. CASE m.type = "Data"
  BY <1>1 DEF Given
<1>2. CASE m.type = "End"
  BY <1>2 DEF Given
<1>3. CASE m.type = "Abort"
  BY <1>3 DEF Given
<1>4. QED
  BY <1>1, <1>2, <1>3

LEMMA TellGiven ==
  ASSUME DataTypes, NEW m \in Message, m # Lost, m.type \in {"Data", "Abort", "End"}, Tell(m)
  PROVE  /\ told' \in Seq(ToldRecords) /\ Len(told') = Len(told)
         /\ \A t \in 1 .. Len(told) :
              told'[t] = IF Hears(t, m.client) THEN Given(t, m) ELSE told[t]
<1>1. told \in Seq(ToldRecords) /\ DOMAIN told = 1 .. Len(told) /\ Len(told) \in Nat
  BY LenProperties DEF DataTypes
<1>2. \A t \in 1 .. Len(told) : told[t] \in ToldRecords
  BY <1>1
<1>3. m.n \in Nat
  BY MessageFields
<1> DEFINE mine == {t \in DOMAIN told : m # Lost /\ told[t].client = m.client}
           given == [t \in DOMAIN told |->
                       IF t \in mine /\ told[t].closed = "no"
                       THEN [told[t] EXCEPT !.sent = Append(@, m.n)] ELSE told[t]]
           more(t) == Append(told[t].sent, m.n)
<1>4. told' = [t \in 1 .. Len(told) |-> IF Hears(t, m.client) THEN Given(t, m) ELSE told[t]]
  <2>1. CASE m.type = "Data"
    <3>1. told' = given
      BY <2>1 DEF Tell
    <3>2. ASSUME NEW t \in 1 .. Len(told)
          PROVE  given[t] = IF Hears(t, m.client) THEN Given(t, m) ELSE told[t]
      <4>1. given[t] = IF Hears(t, m.client) THEN [told[t] EXCEPT !.sent = more(t)] ELSE told[t]
        BY <1>1 DEF Hears
      <4>2. Given(t, m) = [client |-> told[t].client, sent |-> more(t), closed |-> "no"]
        BY <2>1 DEF Given
      <4> HIDE DEF given, more
      <4>3. told[t] \in ToldRecords
        BY <1>2
      <4>4. QED
        BY <4>1, <4>2, <4>3 DEF Hears, ToldRecords
    <3> HIDE DEF given
    <3>3. DOMAIN given = 1 .. Len(told) /\ given = [t \in 1 .. Len(told) |-> given[t]]
      BY <1>1 DEF given
    <3>4. QED
      BY <3>1, <3>2, <3>3
  <2>2. CASE m.type = "Abort"
    <3>1. told' = Close(mine, "abort")
      BY <2>2 DEF Tell
    <3>2. \A t \in 1 .. Len(told) :
            Close(mine, "abort")[t] = IF Hears(t, m.client) THEN Given(t, m) ELSE told[t]
      BY <1>1, <1>2, <2>2 DEF Hears, Given, ToldRecords, Close
    <3>3. QED
      BY <1>1, <3>1, <3>2 DEF Close
  <2>3. CASE m.type = "End"
    <3>1. told' = [t \in DOMAIN told |-> [given[t] EXCEPT !.closed = Close(mine, "end")[t].closed]]
      BY <2>3 DEF Tell
    <3>2. ASSUME NEW t \in 1 .. Len(told)
          PROVE  [given[t] EXCEPT !.closed = Close(mine, "end")[t].closed]
                   = IF Hears(t, m.client) THEN Given(t, m) ELSE told[t]
      <4>1. /\ given[t] = IF Hears(t, m.client) THEN [told[t] EXCEPT !.sent = more(t)] ELSE told[t]
            /\ Close(mine, "end")[t] = IF Hears(t, m.client) THEN [told[t] EXCEPT !.closed = "end"]
                                       ELSE told[t]
        BY <1>1 DEF Hears, Close
      <4>2. Given(t, m) = [client |-> told[t].client, sent |-> more(t), closed |-> "end"]
        BY <2>3 DEF Given
      <4> HIDE DEF given, more, mine
      <4>3. told[t] \in ToldRecords
        BY <1>2
      <4>4. CASE Hears(t, m.client)
        <5>1. /\ given[t] = [client |-> told[t].client, sent |-> more(t), closed |-> told[t].closed]
              /\ Close(mine, "end")[t].closed = "end"
          BY <4>1, <4>3, <4>4 DEF ToldRecords
        <5>2. QED
          BY <4>2, <4>4, <5>1
      <4>5. CASE ~Hears(t, m.client)
        BY <4>1, <4>3, <4>5 DEF ToldRecords
      <4>6. QED
        BY <4>4, <4>5
    <3>3. QED
      BY <1>1, <3>1, <3>2
  <2>4. QED
    BY <2>1, <2>2, <2>3
<1>5. ASSUME NEW t \in 1 .. Len(told) PROVE Given(t, m) \in ToldRecords
  <2>1. told[t].client \in ClientIds /\ told[t].sent \in Seq(Nat)
    BY <1>2 DEF ToldRecords
  <2>2. Append(told[t].sent, m.n) \in Seq(Nat)
    BY <1>3, <2>1, AppendProperties
  <2>3. QED
    BY <2>1, <2>2 DEF Given, ToldRecords
<1>6. told' \in [1 .. Len(told) -> ToldRecords]
  BY <1>2, <1>4, <1>5
<1>7. QED
  BY <1>1, <1>4, <1>6

\* How messages come: the report of a loss, or a block whose payload is new.
LEMMA DispatchCases ==
  ASSUME DataTypes, NEW m \in Messages, Dispatch(m)
  PROVE  \/ m = Lost /\ Tell(Lost) /\ DispatchLost
         \/ /\ m \in Message /\ m # Lost /\ Tell(m)
            /\ \/ m.type = "Heartbeat" /\ Unchanged /\ told' = told
               \/ m.type = "Start" /\ DispatchStart(m)
               \/ /\ m.type \in {"Data", "Abort", "End"}
                  /\ IF active[m.client] = NoTransfer THEN Unchanged
                     ELSE DispatchToTransfer(m, active[m.client])
<1>1. m = Lost \/ m \in Message
  BY DEF Messages
<1>2. CASE m = Lost
  BY <1>2 DEF Dispatch
<1>3. CASE m # Lost /\ m.type = "Heartbeat"
  <2>1. Tell(m) /\ Unchanged
    BY <1>3 DEF Dispatch
  <2>2. told' = told
    BY <1>3, <2>1 DEF Tell
  <2>3. QED
    BY <1>1, <1>3, <2>1, <2>2
<1>4. CASE m # Lost /\ m.type # "Heartbeat"
  BY <1>1, <1>4 DEF Dispatch
<1>5. QED
  BY <1>2, <1>3, <1>4

-----------------------------------------------------------------------------
(* The types of the data *)

LEMMA TransferExcept ==
  ASSUME transfers \in Seq(TransferRecords), NEW t \in Transfers, NEW r \in TransferRecords,
         transfers' = [transfers EXCEPT ![t] = r]
  PROVE  /\ transfers' \in Seq(TransferRecords) /\ Len(transfers') = Len(transfers)
         /\ \A u \in Transfers : transfers'[u] = IF u = t THEN r ELSE transfers[u]
  BY ExceptSeq, LenProperties DEF Transfers

\* A worker in a step of client::start, and what becomes of its transfer there.
LEMMA ClientStep ==
  ASSUME DataTypes, Occupied, NEW w \in Workers, NEW r \in TransferRecords,
         wkTransfer[w] # NoTransfer,
         transfers' = [transfers EXCEPT ![wkTransfer[w]] = r]
  PROVE  /\ wkTransfer[w] \in Transfers
         /\ transfers' \in Seq(TransferRecords) /\ Len(transfers') = Len(transfers)
         /\ \A u \in Transfers : transfers'[u] = IF u = wkTransfer[w] THEN r ELSE transfers[u]
<1>1. wkTransfer[w] \in Transfers
  BY DEF DataTypes
<1>2. QED
  BY <1>1, TransferExcept DEF DataTypes

\* What Leave makes of a transfer m, but for what it leaves in the channel; and m
\* with the first block of its channel read.
LeftAs(m, r, outcome, written) ==
  r.client = m.client /\ r.outcome = outcome /\ r.written = written

WithPayload(r) ==
  IF HasPayload(Head(r.queue)) THEN Append(r.written, Head(r.queue).n) ELSE r.written

Read(r) ==
  [client |-> r.client, queue |-> Tail(r.queue), written |-> WithPayload(r),
   outcome |-> r.outcome]

LEMMA LeaveMeans ==
  ASSUME DataTypes, NEW w \in Workers, wkTransfer[w] \in Transfers,
         NEW outcome \in {"success", "failed", "dropped"}, NEW rest \in Seq(Blocks),
         NEW written \in Seq(Nat), Leave(w, outcome, rest, written)
  PROVE  \E r \in TransferRecords :
           /\ transfers' = [transfers EXCEPT ![wkTransfer[w]] = r]
           /\ LeftAs(Mine(w), r, outcome, written)
<1>1. Mine(w) \in TransferRecords
  BY DEF DataTypes, Transfers, Mine
<1> DEFINE r1 == [Mine(w) EXCEPT !.outcome = outcome]
           r2 == [r1 EXCEPT !.queue = rest]
           r3 == [r2 EXCEPT !.written = written]
<1>2. transfers' = [transfers EXCEPT ![wkTransfer[w]] = r3]
  BY DEF Leave, Mine
<1>3. r1 \in TransferRecords /\ r1.outcome = outcome /\ r1.client = Mine(w).client
  BY <1>1 DEF TransferRecords
<1> HIDE DEF r1
<1>4. r2 \in TransferRecords /\ r2.outcome = outcome /\ r2.client = Mine(w).client
  BY <1>3 DEF TransferRecords
<1> HIDE DEF r2
<1>5. /\ r3 \in TransferRecords /\ r3.outcome = outcome /\ r3.client = Mine(w).client
      /\ r3.written = written
  BY <1>4 DEF TransferRecords
<1> HIDE DEF r3
<1>6. QED
  BY <1>2, <1>5 DEF LeftAs

LEMMA ReadMeans ==
  ASSUME NEW r \in TransferRecords, r.queue # <<>>
  PROVE  /\ Head(r.queue) \in Blocks /\ WithPayload(r) \in Seq(Nat)
         /\ Read(r) \in TransferRecords
         /\ [r EXCEPT !.queue = Tail(@), !.written = WithPayload(r)] = Read(r)
<1>1. r.queue \in Seq(Blocks) /\ r.written \in Seq(Nat)
  BY DEF TransferRecords
<1>2. Head(r.queue) \in Blocks /\ Tail(r.queue) \in Seq(Blocks)
  BY <1>1, HeadTailProperties
<1>3. HasPayload(Head(r.queue)) => Head(r.queue).n \in Nat
  BY <1>2 DEF Blocks, HasPayload
<1>4. WithPayload(r) \in Seq(Nat)
  BY <1>1, <1>3, AppendProperties DEF WithPayload
<1>5. Read(r) \in TransferRecords
  BY <1>2, <1>4 DEF Read, TransferRecords
<1> DEFINE queue == Tail(r.queue)
           written == WithPayload(r)
           r1 == [r EXCEPT !.queue = queue]
           r2 == [r1 EXCEPT !.written = written]
<1>6. [r EXCEPT !.queue = Tail(@), !.written = WithPayload(r)] = r2
  OBVIOUS
<1>7. queue \in Seq(Blocks) /\ written \in Seq(Nat)
  BY <1>2, <1>4
<1>8. Read(r) = [client |-> r.client, queue |-> queue, written |-> written, outcome |-> r.outcome]
  BY DEF Read
<1> HIDE DEF queue, written
<1>9. /\ r1 \in TransferRecords /\ r1.outcome = r.outcome /\ r1.client = r.client
      /\ r1.queue = queue
  BY <1>7 DEF TransferRecords
<1> HIDE DEF r1
<1>10. /\ r2 \in TransferRecords /\ r2.outcome = r.outcome /\ r2.client = r.client
       /\ r2.queue = queue /\ r2.written = written
  BY <1>7, <1>9 DEF TransferRecords
<1> HIDE DEF r2
<1>11. r2 = Read(r)
  BY <1>8, <1>10 DEF TransferRecords
<1>12. QED
  BY <1>2, <1>4, <1>5, <1>6, <1>11

\* What a worker does in client::start, with the record r that its transfer becomes.
ClientBecomes(w, r) ==
  \/ wkPc[w] = "connect" /\ Goto(w, "write") /\ r = Mine(w)
  \/ wkPc[w] = "connect" /\ Goto(w, "signal") /\ LeftAs(Mine(w), r, "dropped", <<>>)
  \/ wkPc[w] = "write" /\ Goto(w, "signal") /\ LeftAs(Mine(w), r, "dropped", Mine(w).written)
  \/ /\ wkPc[w] = "write" /\ Mine(w).queue # <<>>
     /\ \/ /\ Head(Mine(w).queue).type = "Abort" /\ Goto(w, "signal")
           /\ LeftAs(Mine(w), r, "failed", WithPayload(Mine(w)))
        \/ /\ Head(Mine(w).queue).type = "End" /\ Goto(w, "signal")
           /\ LeftAs(Mine(w), r, "success", WithPayload(Mine(w)))
        \/ /\ Head(Mine(w).queue).type \in {"Start", "Data"} /\ UNCHANGED wkPc
           /\ r = Read(Mine(w))

LEMMA ClientCases ==
  ASSUME DataTypes, Occupied, NEW w \in Workers,
         ClientConnect(w) \/ ClientBlock(w) \/ ClientGivesUp(w)
  PROVE  /\ UNCHANGED <<permits, wkTransfer, toClients, dispatchVars>>
         /\ wkTransfer[w] \in Transfers /\ Mine(w) \in TransferRecords
         /\ \E r \in TransferRecords :
              /\ transfers' = [transfers EXCEPT ![wkTransfer[w]] = r]
              /\ ClientBecomes(w, r)
<1>1. /\ UNCHANGED <<permits, wkTransfer, toClients, dispatchVars>>
      /\ wkPc[w] \in {"connect", "write"}
  BY DEF ClientConnect, ClientBlock, ClientGivesUp
<1>2. wkTransfer[w] \in Transfers
  BY <1>1 DEF DataTypes, Occupied
<1>3. Mine(w) \in TransferRecords
  BY <1>2 DEF DataTypes, Mine, Transfers
<1>4. /\ Mine(w).written \in Seq(Nat) /\ <<>> \in Seq(Nat)
      /\ Mine(w).queue \in Seq(Blocks) /\ <<>> \in Seq(Blocks)
      /\ Mine(w).queue # <<>> => Tail(Mine(w).queue) \in Seq(Blocks)
  BY <1>3, HeadTailProperties DEF TransferRecords
<1>5. ASSUME NEW outcome \in {"success", "failed", "dropped"}, NEW rest \in Seq(Blocks),
             NEW written \in Seq(Nat), Leave(w, outcome, rest, written),
             \A r : LeftAs(Mine(w), r, outcome, written) => ClientBecomes(w, r)
      PROVE  \E r \in TransferRecords :
               /\ transfers' = [transfers EXCEPT ![wkTransfer[w]] = r]
               /\ ClientBecomes(w, r)
  BY <1>2, <1>5, LeaveMeans
<1>6. CASE ClientConnect(w)
  <2>1. CASE Goto(w, "write") /\ UNCHANGED transfers
    <3>1. transfers' = [transfers EXCEPT ![wkTransfer[w]] = Mine(w)]
      BY <1>2, <2>1 DEF DataTypes, Mine, Transfers
    <3>2. QED
      BY <1>1, <1>2, <1>3, <1>6, <2>1, <3>1 DEF ClientConnect, ClientBecomes
  <2>2. CASE Leave(w, "dropped", Mine(w).queue, <<>>)
    <3>1. \A r : LeftAs(Mine(w), r, "dropped", <<>>) => ClientBecomes(w, r)
      BY <1>6, <2>2 DEF ClientConnect, ClientBecomes, Leave
    <3>2. QED
      BY <1>1, <1>2, <1>3, <1>4, <1>5, <2>2, <3>1
  <2>3. QED
    BY <1>6, <2>1, <2>2 DEF ClientConnect
<1>7. CASE ClientGivesUp(w)
  <2>1. Leave(w, "dropped", <<>>, Mine(w).written)
    BY <1>7 DEF ClientGivesUp
  <2>2. \A r : LeftAs(Mine(w), r, "dropped", Mine(w).written) => ClientBecomes(w, r)
    BY <1>7, <2>1 DEF ClientGivesUp, ClientBecomes, Leave
  <2>3. QED
    BY <1>1, <1>2, <1>3, <1>4, <1>5, <2>1, <2>2
<1>8. CASE ClientBlock(w)
  <2> DEFINE b == Head(Mine(w).queue)
             written == IF HasPayload(b) THEN Append(Mine(w).written, b.n) ELSE Mine(w).written
             rest == Tail(Mine(w).queue)
  <2>1. /\ wkPc[w] = "write" /\ Mine(w).queue # <<>>
        /\ \/ b.type = "Abort" /\ Leave(w, "failed", rest, written)
           \/ b.type = "End" /\ Leave(w, "success", rest, written)
           \/ /\ b.type \in {"Start", "Data"}
              /\ transfers' = [transfers EXCEPT ![wkTransfer[w]] =
                                 [Mine(w) EXCEPT !.queue = rest, !.written = written]]
              /\ UNCHANGED wkPc
           \/ Leave(w, "dropped", rest, Mine(w).written)
    BY <1>8 DEF ClientBlock
  <2>2. written = WithPayload(Mine(w)) /\ rest \in Seq(Blocks)
    BY <1>4, <2>1 DEF WithPayload
  <2>3. [Mine(w) EXCEPT !.queue = rest, !.written = written] = Read(Mine(w))
    BY <1>3, <2>1, <2>2, ReadMeans
  <2> HIDE DEF written, rest
  <2>4. written \in Seq(Nat) /\ Read(Mine(w)) \in TransferRecords
    BY <1>3, <2>1, <2>2, ReadMeans
  <2>5. CASE b.type = "Abort" /\ Leave(w, "failed", rest, written)
    <3>1. \A r : LeftAs(Mine(w), r, "failed", written) => ClientBecomes(w, r)
      BY <2>1, <2>2, <2>5 DEF ClientBecomes, Leave
    <3>2. QED
      BY <1>1, <1>2, <1>3, <1>5, <2>2, <2>4, <2>5, <3>1
  <2>6. CASE b.type = "End" /\ Leave(w, "success", rest, written)
    <3>1. \A r : LeftAs(Mine(w), r, "success", written) => ClientBecomes(w, r)
      BY <2>1, <2>2, <2>6 DEF ClientBecomes, Leave
    <3>2. QED
      BY <1>1, <1>2, <1>3, <1>5, <2>2, <2>4, <2>6, <3>1
  <2>7. CASE /\ b.type \in {"Start", "Data"}
             /\ transfers' = [transfers EXCEPT ![wkTransfer[w]] =
                                [Mine(w) EXCEPT !.queue = rest, !.written = written]]
             /\ UNCHANGED wkPc
    <3>1. transfers' = [transfers EXCEPT ![wkTransfer[w]] = Read(Mine(w))]
      BY <2>3, <2>7
    <3>2. ClientBecomes(w, Read(Mine(w)))
      BY <2>1, <2>7 DEF ClientBecomes
    <3>3. QED
      BY <1>1, <1>2, <1>3, <2>4, <3>1, <3>2
  <2>8. CASE Leave(w, "dropped", rest, Mine(w).written)
    <3>1. \A r : LeftAs(Mine(w), r, "dropped", Mine(w).written) => ClientBecomes(w, r)
      BY <2>1, <2>8 DEF ClientBecomes, Leave
    <3>2. QED
      BY <1>1, <1>2, <1>3, <1>4, <1>5, <2>2, <2>8, <3>1
  <2>9. QED
    BY <2>1, <2>5, <2>6, <2>7, <2>8
<1>9. QED
  BY <1>6, <1>7, <1>8

\* A worker that drops its end of the channel changes nothing but what is in it.
LEMMA DropStep ==
  ASSUME DataTypes, Occupied, NEW w \in Workers, WorkerDrop(w)
  PROVE  /\ UNCHANGED <<permits, toClients, dispatchVars>>
         /\ wkTransfer[w] \in Transfers
         /\ transfers' \in Seq(TransferRecords) /\ Len(transfers') = Len(transfers)
         /\ Transfers' = Transfers
         /\ \A u \in Transfers :
              /\ transfers'[u].client = transfers[u].client
              /\ transfers'[u].outcome = transfers[u].outcome
              /\ transfers'[u].written = transfers[u].written
              /\ u # wkTransfer[w] => transfers'[u] = transfers[u]
<1>1. UNCHANGED <<permits, toClients, dispatchVars>> /\ wkPc[w] = "drop"
  BY DEF WorkerDrop
<1>2. wkTransfer[w] \in Transfers
  BY <1>1 DEF DataTypes, Occupied
<1>3. Mine(w) \in TransferRecords
  BY <1>2 DEF DataTypes, Mine, Transfers
<1> DEFINE none == <<>>
           r == [Mine(w) EXCEPT !.queue = none]
<1>4. transfers' = [transfers EXCEPT ![wkTransfer[w]] = r]
  BY DEF WorkerDrop, Mine
<1>5. none \in Seq(Blocks)
  OBVIOUS
<1> HIDE DEF none
<1>6. /\ r \in TransferRecords /\ r.client = Mine(w).client
      /\ r.outcome = Mine(w).outcome /\ r.written = Mine(w).written
  BY <1>3, <1>5 DEF TransferRecords
<1> HIDE DEF r
<1>7. /\ transfers' \in Seq(TransferRecords) /\ Len(transfers') = Len(transfers)
      /\ \A u \in Transfers : transfers'[u] = IF u = wkTransfer[w] THEN r ELSE transfers[u]
  BY <1>2, <1>4, <1>6, TransferExcept DEF DataTypes
<1>8. QED
  BY <1>1, <1>2, <1>6, <1>7 DEF Mine, Transfers

-----------------------------------------------------------------------------
(* What dispatch does to the transfers *)

Pushed(r, b) ==
  [client |-> r.client, queue |-> Append(r.queue, b), written |-> r.written,
   outcome |-> r.outcome]

Aborting(r) == [type |-> "Abort", client |-> r.client, n |-> -1]

LEMMA PushedFields ==
  ASSUME NEW r, NEW b
  PROVE  /\ Pushed(r, b).queue = Append(r.queue, b)
         /\ Pushed(r, b).written = r.written /\ Pushed(r, b).outcome = r.outcome
         /\ Pushed(r, b).client = r.client
  BY DEF Pushed

LEMMA PushedType ==
  ASSUME NEW r \in TransferRecords, NEW b \in Blocks
  PROVE  /\ Pushed(r, b) \in TransferRecords
         /\ [r EXCEPT !.queue = Append(@, b)] = Pushed(r, b)
<1>1. r.queue \in Seq(Blocks) /\ Append(r.queue, b) \in Seq(Blocks)
  BY AppendProperties DEF TransferRecords
<1> DEFINE queue == Append(r.queue, b)
<1>2. [r EXCEPT !.queue = Append(@, b)] = [r EXCEPT !.queue = queue]
  OBVIOUS
<1>3. queue \in Seq(Blocks) /\ Pushed(r, b) =
        [client |-> r.client, queue |-> queue, written |-> r.written, outcome |-> r.outcome]
  BY <1>1 DEF Pushed
<1> HIDE DEF queue
<1>4. QED
  BY <1>2, <1>3, SMTT(60) DEF TransferRecords

LEMMA LostPushes ==
  ASSUME DataTypes, DispatchLost
  PROVE  /\ transfers' \in Seq(TransferRecords) /\ Len(transfers') = Len(transfers)
         /\ \A t \in Transfers :
              transfers'[t] = IF (\E c \in ClientIds : active[c] = t) /\ HasReceiver(t)
                              THEN Pushed(transfers[t], Aborting(transfers[t]))
                              ELSE transfers[t]
<1>1. transfers \in Seq(TransferRecords) /\ DOMAIN transfers = Transfers
  BY DEF DataTypes, Transfers
<1>2. ASSUME NEW t \in Transfers
      PROVE  /\ transfers[t] \in TransferRecords
             /\ Pushed(transfers[t], Aborting(transfers[t])) \in TransferRecords
             /\ [transfers[t] EXCEPT !.queue = Append(@, Aborting(transfers[t]))]
                  = Pushed(transfers[t], Aborting(transfers[t]))
  <2>1. transfers[t] \in TransferRecords
    BY <1>1 DEF Transfers
  <2>2. Aborting(transfers[t]) \in Blocks
    BY <2>1 DEF TransferRecords, Aborting, Blocks, BlockTypes
  <2>3. QED
    BY <2>1, <2>2, PushedType
<1>3. transfers' = [t \in Transfers |->
        IF (\E c \in ClientIds : active[c] = t) /\ HasReceiver(t)
        THEN [transfers[t] EXCEPT !.queue = Append(@, Aborting(transfers[t]))]
        ELSE transfers[t]]
  BY <1>1 DEF DispatchLost, Aborting
<1>4. \A t \in Transfers :
        transfers'[t] = IF (\E c \in ClientIds : active[c] = t) /\ HasReceiver(t)
                        THEN Pushed(transfers[t], Aborting(transfers[t]))
                        ELSE transfers[t]
  BY <1>2, <1>3
<1>5. transfers' \in [1 .. Len(transfers) -> TransferRecords]
  <2>1. DOMAIN transfers' = Transfers /\ transfers' = [t \in Transfers |-> transfers'[t]]
    BY <1>3
  <2>2. \A t \in Transfers : transfers'[t] \in TransferRecords
    BY <1>2, <1>4
  <2>3. QED
    BY <2>1, <2>2 DEF Transfers
<1>6. QED
  BY <1>1, <1>4, <1>5

LEMMA StartAdds ==
  ASSUME DataTypes, NEW m \in Message, DispatchStart(m)
  PROVE  /\ transfers' \in Seq(TransferRecords) /\ Len(transfers') = Len(transfers) + 1
         /\ transfers'[Len(transfers) + 1] = NewTransfer(m.client, m)
         /\ \A t \in Transfers : transfers'[t] = transfers[t]
<1>1. m \in Blocks
  BY MessageFields
<1>2. <<m>> \in Seq(Blocks)
  BY <1>1
<1> DEFINE none == <<>>
<1>3. none \in Seq(Nat)
  OBVIOUS
<1>4. m.client \in ClientIds
  BY MessageFields
<1>5. NewTransfer(m.client, m) \in TransferRecords
  <2> DEFINE q == <<m>>
  <2>1. NewTransfer(m.client, m) = [client |-> m.client, queue |-> q, written |-> none,
                                    outcome |-> "open"]
    BY DEF NewTransfer
  <2>2. q \in Seq(Blocks)
    BY <1>2
  <2> HIDE DEF q, none
  <2>3. QED
    BY <1>3, <1>4, <2>1, <2>2 DEF TransferRecords
<1>6. QED
  BY <1>5, AppendProperties DEF DispatchStart, DataTypes, Transfers

\* A block for an active transfer is pushed if its channel has a receiver.
LEMMA DispatchPushes ==
  ASSUME DataTypes, NEW m \in Message, NEW t \in Transfers, DispatchToTransfer(m, t)
  PROVE  /\ transfers' \in Seq(TransferRecords) /\ Len(transfers') = Len(transfers)
         /\ toClients' = toClients
         /\ \A u \in Transfers :
              transfers'[u] = IF u = t /\ HasReceiver(t) THEN Pushed(transfers[t], m)
                              ELSE transfers[u]
         /\ active' = IF HasReceiver(t) /\ m.type \notin {"End", "Abort"} THEN active
                      ELSE [active EXCEPT ![m.client] = NoTransfer]
<1>1. m \in Blocks /\ transfers[t] \in TransferRecords
  BY MessageFields DEF DataTypes, Transfers
<1>2. CASE HasReceiver(t)
  <2>1. transfers' = [transfers EXCEPT ![t] = Pushed(transfers[t], m)]
    <3>1. [transfers[t] EXCEPT !.queue = Append(@, m)] = Pushed(transfers[t], m)
      BY <1>1, PushedType
    <3>2. transfers' = [transfers EXCEPT ![t] = [transfers[t] EXCEPT !.queue = Append(@, m)]]
      BY <1>2 DEF DispatchToTransfer, Push
    <3>3. QED
      BY <3>1, <3>2
  <2>2. Pushed(transfers[t], m) \in TransferRecords
    BY <1>1, PushedType
  <2>3. /\ toClients' = toClients
        /\ active' = IF m.type \notin {"End", "Abort"} THEN active
                     ELSE [active EXCEPT ![m.client] = NoTransfer]
    BY <1>2 DEF DispatchToTransfer
  <2>4. /\ transfers' \in Seq(TransferRecords) /\ Len(transfers') = Len(transfers)
        /\ \A u \in Transfers :
             transfers'[u] = IF u = t THEN Pushed(transfers[t], m) ELSE transfers[u]
    BY <2>1, <2>2, TransferExcept DEF DataTypes
  <2>5. QED
    BY <1>2, <2>3, <2>4
<1>3. CASE ~HasReceiver(t)
  BY <1>3 DEF DispatchToTransfer, DataTypes
<1>4. QED
  BY <1>2, <1>3

-----------------------------------------------------------------------------
(* Types and owners *)

\* The types of what dispatch writes, when there are as many transfers as before.
LEMMA DispatchTypes ==
  ASSUME DataTypes, NEW m \in Messages, Dispatch(m)
  PROVE  DataTypes'
<1>1. /\ dispatched' \in Nat /\ UNCHANGED <<wkPc, wkTransfer>>
      /\ Len(transfers) \in Nat /\ Len(told) \in Nat
  BY DEF Dispatch, workerVars, DataTypes
<1>2. ASSUME transfers' \in Seq(TransferRecords), Len(transfers') = Len(transfers),
             told' \in Seq(ToldRecords), Len(told') = Len(told), toClients' = toClients,
             active' \in [ClientIds -> Transfers \cup {NoTransfer}],
             ended' \in [ClientIds -> Transfers \cup {NoTransfer}]
      PROVE  DataTypes'
  BY <1>1, <1>2 DEF DataTypes, Transfers
<1>3. CASE m = Lost /\ Tell(Lost) /\ DispatchLost
  <2>1. /\ toClients' = toClients /\ ended' = ended
        /\ active' \in [ClientIds -> Transfers \cup {NoTransfer}]
    BY <1>3 DEF DispatchLost
  <2>2. QED
    BY <1>2, <1>3, <2>1, TellLost, LostPushes DEF DataTypes
<1>4. CASE Unchanged /\ told' \in Seq(ToldRecords) /\ Len(told') = Len(told)
  BY <1>2, <1>4 DEF Unchanged, DataTypes
<1>5. CASE m \in Message /\ m # Lost /\ m.type = "Start" /\ Tell(m) /\ DispatchStart(m)
  <2>1. /\ Len(transfers') = Len(transfers) + 1 /\ transfers' \in Seq(TransferRecords)
        /\ Len(told') = Len(told) + 1 /\ told' \in Seq(ToldRecords)
    BY <1>5, TellStart, StartAdds
  <2>2. Transfers' = 1 .. Len(transfers) + 1
    BY <2>1 DEF Transfers
  <2>3. Transfers \subseteq Transfers' /\ Len(transfers) + 1 \in Transfers'
    BY <1>1, <2>2 DEF Transfers
  <2>4. toClients \in Seq(Transfers')
    <3>1. toClients \in [1 .. Len(toClients) -> Transfers] /\ Len(toClients) \in Nat
      BY DEF DataTypes
    <3>2. toClients \in [1 .. Len(toClients) -> Transfers']
      BY <2>3, <3>1
    <3>3. QED
      BY <3>1, <3>2
  <2>5. toClients' \in Seq(Transfers')
    BY <1>5, <2>3, <2>4, AppendProperties DEF DispatchStart
  <2>6. active' \in [ClientIds -> Transfers' \cup {NoTransfer}]
    BY <1>5, <2>3 DEF DispatchStart, DataTypes
  <2>7. QED
    BY <1>1, <1>5, <2>1, <2>3, <2>5, <2>6 DEF DispatchStart, DataTypes
<1>6. ASSUME m \in Message, m # Lost, m.type \in {"Data", "Abort", "End"}, Tell(m),
             NEW t \in Transfers, DispatchToTransfer(m, t)
      PROVE  DataTypes'
  <2>1. active' \in [ClientIds -> Transfers \cup {NoTransfer}]
    BY <1>6, DispatchPushes DEF DataTypes
  <2>2. ended' \in [ClientIds -> Transfers \cup {NoTransfer}]
    <3>1. ended' = ended \/ ended' = [Retained(transfers') EXCEPT ![m.client] = t]
      BY <1>6 DEF DispatchToTransfer
    <3>2. Retained(transfers') \in [ClientIds -> Transfers \cup {NoTransfer}]
      BY DEF Retained, DataTypes
    <3>3. QED
      BY <1>6, <3>1, <3>2 DEF DataTypes
  <2>3. QED
    BY <1>2, <1>6, <2>1, <2>2, TellGiven, DispatchPushes
<1>7. m \in Message /\ m # Lost => m.client \in ClientIds
  BY MessageFields
<1>8. active \in [ClientIds -> Transfers \cup {NoTransfer}] /\ told \in Seq(ToldRecords)
  BY DEF DataTypes
<1>9. CASE m \in Message /\ m # Lost /\ m.type \in {"Data", "Abort", "End"} /\ Tell(m)
           /\ IF active[m.client] = NoTransfer THEN Unchanged
              ELSE DispatchToTransfer(m, active[m.client])
  <2>1. CASE active[m.client] = NoTransfer
    BY <1>4, <1>9, <2>1, TellGiven
  <2>2. CASE active[m.client] # NoTransfer
    BY <1>6, <1>7, <1>8, <1>9, <2>2
  <2>3. QED
    BY <2>1, <2>2
<1>10. QED
  BY <1>3, <1>4, <1>5, <1>8, <1>9, DispatchCases

LEMMA TypeStep ==
  ASSUME DataTypes, Occupied, [NextAny]_deliveryVars
  PROVE  DataTypes' /\ Occupied'
<1>1. CASE UNCHANGED deliveryVars
  BY <1>1 DEF deliveryVars, dispatchVars, workerVars, DataTypes, Occupied, Transfers
<1>2. ASSUME NEW m \in Messages, Dispatch(m) PROVE DataTypes' /\ Occupied'
  BY <1>2, DispatchTypes DEF Dispatch, workerVars, Occupied
<1>3. ASSUME NEW w \in Workers, WorkerReceive(w) PROVE DataTypes' /\ Occupied'
  <2>1. Head(toClients) \in Transfers /\ Tail(toClients) \in Seq(Transfers)
    BY <1>3, HeadTailProperties DEF WorkerReceive, DataTypes
  <2>2. Head(toClients) # NoTransfer
    BY <2>1 DEF Transfers
  <2>3. QED
    BY <1>3, <2>1, <2>2
       DEF WorkerReceive, Taken, Goto, dispatchVars, DataTypes, Occupied, Transfers
<1>4. ASSUME NEW w \in Workers, WorkerAcquire(w) \/ WorkerSignal(w)
      PROVE  DataTypes' /\ Occupied'
  BY <1>4 DEF WorkerAcquire, WorkerSignal, Goto, dispatchVars, DataTypes, Occupied, Transfers
<1>5. ASSUME NEW w \in Workers, ClientConnect(w) \/ ClientBlock(w) \/ ClientGivesUp(w)
      PROVE  DataTypes' /\ Occupied'
  <2>1. /\ UNCHANGED <<permits, wkTransfer, toClients, dispatchVars>>
        /\ wkTransfer[w] \in Transfers
    BY <1>5, ClientCases
  <2>2. PICK r \in TransferRecords :
          /\ transfers' = [transfers EXCEPT ![wkTransfer[w]] = r]
          /\ ClientBecomes(w, r)
    BY <1>5, ClientCases
  <2>3. transfers' \in Seq(TransferRecords) /\ Len(transfers') = Len(transfers)
    BY <2>1, <2>2, TransferExcept DEF DataTypes
  <2>4. wkPc' \in [Workers -> {"recv", "wait", "connect", "write", "signal", "drop"}] /\ Occupied'
    BY <2>1, <2>2 DEF ClientBecomes, Goto, DataTypes, Occupied
  <2>5. QED
    BY <2>1, <2>3, <2>4 DEF dispatchVars, DataTypes, Transfers
<1>6. ASSUME NEW w \in Workers, WorkerDrop(w) PROVE DataTypes' /\ Occupied'
  <2>1. /\ wkPc' = [wkPc EXCEPT ![w] = "recv"]
        /\ wkTransfer' = [wkTransfer EXCEPT ![w] = NoTransfer]
    BY <1>6 DEF WorkerDrop, Goto
  <2>2. QED
    BY <1>6, <2>1, DropStep DEF dispatchVars, DataTypes, Occupied
<1>7. QED
  BY <1>1, <1>2, <1>3, <1>4, <1>5, <1>6 DEF NextAny, Worker

LEMMA TypeInit == Init => DataTypes /\ Occupied /\ PermitsInv
<1> SUFFICES ASSUME Init PROVE DataTypes /\ Occupied /\ PermitsInv
  OBVIOUS
<1>1. /\ transfers = <<>> /\ told = <<>> /\ toClients = <<>>
      /\ Len(transfers) = 0 /\ Len(told) = 0
  BY DEF Init
<1>2. DataTypes /\ Occupied
  BY <1>1 DEF Init, DataTypes, Occupied
<1>3. Holding = {} /\ Cardinality({}) = 0 /\ Cardinality(Workers) \in Nat
  BY FS_EmptySet, FS_CardinalityType DEF Init, Holding
<1>4. QED
  BY <1>2, <1>3 DEF Init, PermitsInv

\* A transfer has one owner: its place in toClients, or a worker.
OwnersInv ==
  /\ \A v, w \in Workers : wkTransfer[v] # NoTransfer /\ wkTransfer[v] = wkTransfer[w] => v = w
  /\ \A w \in Workers : \A i \in 1 .. Len(toClients) : toClients[i] # wkTransfer[w]
  /\ \A i, j \in 1 .. Len(toClients) : toClients[i] = toClients[j] => i = j

\* A transfer that is queued or served is open until client::start has returned,
\* and nothing of it is written before there is a connection.
FreshInv ==
  /\ \A i \in 1 .. Len(toClients) :
       IsOpen(toClients[i]) /\ transfers[toClients[i]].written = <<>>
  /\ \A w \in Workers :
       /\ wkPc[w] \in {"signal", "drop"} => ~IsOpen(wkTransfer[w])
       /\ wkPc[w] \in {"wait", "connect", "write"} => IsOpen(wkTransfer[w])
       /\ wkPc[w] \in {"wait", "connect"} => transfers[wkTransfer[w]].written = <<>>

\* What dispatch does leaves the outcome and what is written of a transfer alone.
LEMMA DispatchKeeps ==
  ASSUME DataTypes, NEW m \in Messages, Dispatch(m), NEW t \in Transfers
  PROVE  /\ t \in Transfers'
         /\ transfers'[t].outcome = transfers[t].outcome
         /\ transfers'[t].written = transfers[t].written
<1>1. Len(transfers) \in Nat /\ t \in 1 .. Len(transfers)
  BY DEF DataTypes, Transfers
<1>2. \A r, b : /\ Pushed(r, b).outcome = r.outcome
                /\ Pushed(r, b).written = r.written
  BY DEF Pushed
<1>3. ASSUME Len(transfers') = Len(transfers) \/ Len(transfers') = Len(transfers) + 1,
             transfers'[t] = transfers[t] \/ \E b : transfers'[t] = Pushed(transfers[t], b)
      PROVE  /\ t \in Transfers'
             /\ transfers'[t].outcome = transfers[t].outcome
             /\ transfers'[t].written = transfers[t].written
  BY <1>1, <1>2, <1>3 DEF Transfers
<1>4. CASE DispatchLost
  BY <1>3, <1>4, LostPushes
<1>5. CASE Unchanged
  BY <1>3, <1>5 DEF Unchanged
<1>6. CASE m \in Message /\ DispatchStart(m)
  BY <1>3, <1>6, StartAdds
<1>7. ASSUME m \in Message, NEW u \in Transfers, DispatchToTransfer(m, u)
      PROVE  /\ t \in Transfers'
             /\ transfers'[t].outcome = transfers[t].outcome
             /\ transfers'[t].written = transfers[t].written
  BY <1>3, <1>7, DispatchPushes
<1>8. m \in Message => active[m.client] \in Transfers \cup {NoTransfer}
  BY MessageFields DEF DataTypes
<1>9. QED
  BY <1>4, <1>5, <1>6, <1>7, <1>8, DispatchCases

LEMMA DispatchOwners ==
  ASSUME DataTypes, Occupied, OwnersInv, FreshInv, NEW m \in Messages, Dispatch(m)
  PROVE  OwnersInv' /\ FreshInv'
<1>1. UNCHANGED <<wkPc, wkTransfer>>
  BY DEF Dispatch, workerVars
<1>2. /\ toClients \in Seq(Transfers) /\ Len(transfers) \in Nat /\ Len(toClients) \in Nat
      /\ \A i \in 1 .. Len(toClients) : toClients[i] \in Transfers
      /\ \A w \in Workers : wkTransfer[w] \in Transfers \cup {NoTransfer}
  BY DEF DataTypes
<1>3. /\ \A t \in Transfers : /\ transfers'[t].outcome = transfers[t].outcome
                              /\ transfers'[t].written = transfers[t].written
      /\ \A w \in Workers : wkPc[w] # "recv" => wkTransfer[w] \in Transfers
  BY DispatchKeeps DEF DataTypes, Occupied
<1>4. CASE toClients' = toClients
  <2>1. OwnersInv'
    BY <1>1, <1>4 DEF OwnersInv
  <2>2. FreshInv'
    BY <1>1, <1>2, <1>4, <1>3 DEF FreshInv, IsOpen
  <2>3. QED
    BY <2>1, <2>2
<1>5. CASE m \in Message /\ DispatchStart(m)
  <2>1. /\ Len(toClients') = Len(toClients) + 1
        /\ toClients'[Len(toClients) + 1] = Len(transfers) + 1
        /\ \A i \in 1 .. Len(toClients) : toClients'[i] = toClients[i]
    BY <1>2, <1>5 DEF DispatchStart
  <2>2. Len(transfers) + 1 \notin Transfers /\ Len(transfers) + 1 # NoTransfer
    BY <1>2 DEF Transfers
  <2>3. OwnersInv'
    BY <1>1, <1>2, <2>1, <2>2 DEF OwnersInv
  <2>4. /\ transfers'[Len(transfers) + 1].outcome = "open"
        /\ transfers'[Len(transfers) + 1].written = <<>>
    <3>1. /\ NewTransfer(m.client, m).outcome = "open"
          /\ NewTransfer(m.client, m).written = <<>>
      BY Zenon DEF NewTransfer
    <3>2. transfers'[Len(transfers) + 1] = NewTransfer(m.client, m)
      BY <1>5, StartAdds
    <3>3. QED
      BY <3>1, <3>2
  <2>5. FreshInv'
    BY <1>1, <1>2, <1>3, <2>1, <2>4 DEF FreshInv, IsOpen
  <2>6. QED
    BY <2>3, <2>5
<1>6. toClients' = toClients \/ (m \in Message /\ DispatchStart(m))
  <2>1. m \in Message => active[m.client] \in Transfers \cup {NoTransfer}
    BY MessageFields DEF DataTypes
  <2>2. QED
    BY <2>1, DispatchCases, DispatchPushes DEF DispatchLost, Unchanged
<1>7. QED
  BY <1>4, <1>5, <1>6

LEMMA ClientOwners ==
  ASSUME DataTypes, Occupied, OwnersInv, FreshInv, NEW w \in Workers,
         ClientConnect(w) \/ ClientBlock(w) \/ ClientGivesUp(w)
  PROVE  OwnersInv' /\ FreshInv'
<1>1. /\ UNCHANGED <<permits, wkTransfer, toClients, dispatchVars>>
      /\ wkTransfer[w] \in Transfers /\ Mine(w) \in TransferRecords
  BY ClientCases
<1>2. PICK r \in TransferRecords :
        /\ transfers' = [transfers EXCEPT ![wkTransfer[w]] = r]
        /\ ClientBecomes(w, r)
  BY ClientCases
<1>3. OwnersInv'
  BY <1>1 DEF OwnersInv
<1>4. \A u \in Transfers : transfers'[u] = IF u = wkTransfer[w] THEN r ELSE transfers[u]
  BY <1>1, <1>2, TransferExcept DEF DataTypes
<1>5. /\ \A i \in 1 .. Len(toClients) :
           toClients[i] \in Transfers /\ toClients[i] # wkTransfer[w]
      /\ \A v \in Workers : v # w => wkTransfer[v] # wkTransfer[w]
      /\ \A v \in Workers : wkTransfer[v] \in Transfers \/ wkPc[v] = "recv"
  BY <1>1 DEF OwnersInv, DataTypes, Occupied, Transfers
<1>6. IsOpen(wkTransfer[w])
  BY <1>2 DEF FreshInv, ClientBecomes
<1>7. \/ wkPc'[w] = "write" /\ r.outcome = "open"
      \/ wkPc'[w] = "signal" /\ r.outcome # "open"
  <2>1. Mine(w).outcome = "open"
    BY <1>6 DEF IsOpen, Mine
  <2>2. Read(Mine(w)).outcome = Mine(w).outcome
    BY DEF Read
  <2>3. QED
    BY <1>2, <2>1, <2>2 DEF ClientBecomes, LeftAs, Goto, DataTypes
<1>8. \A v \in Workers : v # w => wkPc'[v] = wkPc[v]
  BY <1>2 DEF ClientBecomes, Goto, DataTypes
<1>9. FreshInv'
  <2>1. ASSUME NEW i \in 1 .. Len(toClients')
        PROVE  (IsOpen(toClients[i]) /\ transfers[toClients[i]].written = <<>>)'
    BY <1>1, <1>4, <1>5, <2>1 DEF FreshInv, IsOpen
  <2>2. ASSUME NEW v \in Workers
        PROVE  /\ wkPc'[v] \in {"signal", "drop"} => ~IsOpen(wkTransfer[v])'
               /\ wkPc'[v] \in {"wait", "connect", "write"} => IsOpen(wkTransfer[v])'
               /\ wkPc'[v] \in {"wait", "connect"} => transfers'[wkTransfer'[v]].written = <<>>
    <3>1. CASE v = w
      BY <1>1, <1>4, <1>7, <3>1 DEF IsOpen
    <3>2. CASE v # w
      BY <1>1, <1>4, <1>5, <1>8, <3>2 DEF FreshInv, IsOpen
    <3>3. QED
      BY <3>1, <3>2
  <2>3. QED
    BY <2>1, <2>2 DEF FreshInv
<1>10. QED
  BY <1>3, <1>9

LEMMA OwnersStep ==
  ASSUME DataTypes, Occupied, OwnersInv, FreshInv, [NextAny]_deliveryVars
  PROVE  OwnersInv' /\ FreshInv'
<1>1. CASE UNCHANGED deliveryVars
  BY <1>1 DEF deliveryVars, dispatchVars, workerVars, OwnersInv, FreshInv, IsOpen
<1>2. ASSUME NEW w \in Workers, WorkerReceive(w) PROVE OwnersInv' /\ FreshInv'
  <2>1. /\ toClients \in Seq(Transfers) /\ toClients # <<>> /\ UNCHANGED transfers
        /\ toClients' = Tail(toClients)
        /\ wkTransfer' = [wkTransfer EXCEPT ![w] = Head(toClients)]
        /\ wkPc' = [wkPc EXCEPT ![w] = "wait"]
    BY <1>2 DEF WorkerReceive, Taken, Goto, DataTypes
  <2>2. /\ Len(toClients) \in Nat \ {0} /\ Head(toClients) = toClients[1]
        /\ Len(toClients') = Len(toClients) - 1
        /\ \A i \in 1 .. Len(toClients') : toClients'[i] = toClients[i + 1]
    BY <2>1
  <2>3. /\ \A v \in Workers : wkTransfer'[v] = IF v = w THEN toClients[1] ELSE wkTransfer[v]
        /\ \A v \in Workers : wkPc'[v] = IF v = w THEN "wait" ELSE wkPc[v]
    BY <2>1, <2>2 DEF DataTypes
  <2>4. OwnersInv'
    <3>1. ASSUME NEW i \in 1 .. Len(toClients') PROVE i + 1 \in 1 .. Len(toClients) /\ i + 1 # 1
      BY <2>2
    <3>2. \A i \in 1 .. Len(toClients) : i # 1 => toClients[i] # toClients[1]
      BY <2>2 DEF OwnersInv
    <3>3. ASSUME NEW i \in 1 .. Len(toClients'), NEW j \in 1 .. Len(toClients'),
                 toClients'[i] = toClients'[j]
          PROVE  i = j
      <4>1. i + 1 = j + 1
        BY <2>2, <3>1, <3>3 DEF OwnersInv
      <4>2. QED
        BY <4>1, <2>2
    <3>4. ASSUME NEW v \in Workers, NEW i \in 1 .. Len(toClients')
          PROVE  toClients'[i] # wkTransfer'[v]
      BY <2>2, <2>3, <3>1, <3>2 DEF OwnersInv
    <3>5. ASSUME NEW v \in Workers, NEW u \in Workers,
                 wkTransfer'[v] # NoTransfer, wkTransfer'[v] = wkTransfer'[u]
          PROVE  v = u
      <4>1. \A x \in Workers : wkTransfer[x] # toClients[1]
        BY <2>2 DEF OwnersInv
      <4>2. QED
        BY <2>3, <3>5, <4>1 DEF OwnersInv
    <3>6. QED
      BY <3>3, <3>4, <3>5 DEF OwnersInv
  <2>5. FreshInv'
    BY <2>1, <2>2, <2>3 DEF FreshInv, IsOpen
  <2>6. QED
    BY <2>4, <2>5
<1>3. ASSUME NEW w \in Workers, WorkerAcquire(w) PROVE OwnersInv' /\ FreshInv'
  BY <1>3 DEF WorkerAcquire, Goto, OwnersInv, FreshInv, IsOpen, DataTypes
<1>4. ASSUME NEW w \in Workers, WorkerSignal(w) PROVE OwnersInv' /\ FreshInv'
  BY <1>4 DEF WorkerSignal, Goto, OwnersInv, FreshInv, IsOpen, DataTypes
<1>5. ASSUME NEW w \in Workers, WorkerDrop(w) PROVE OwnersInv' /\ FreshInv'
  <2>1. /\ \A v \in Workers : wkTransfer'[v] = IF v = w THEN NoTransfer ELSE wkTransfer[v]
        /\ \A v \in Workers : wkPc'[v] = IF v = w THEN "recv" ELSE wkPc[v]
    BY <1>5 DEF WorkerDrop, Goto, DataTypes
  <2>2. /\ toClients' = toClients
        /\ \A t \in Transfers : /\ IsOpen(t)' <=> IsOpen(t)
                               /\ transfers'[t].written = transfers[t].written
    BY <1>5, DropStep DEF IsOpen
  <2>3. /\ \A i \in 1 .. Len(toClients) : toClients[i] \in Transfers /\ toClients[i] # NoTransfer
        /\ \A v \in Workers : wkPc[v] # "recv" => wkTransfer[v] \in Transfers
    BY DEF DataTypes, Occupied, Transfers
  <2>4. OwnersInv'
    BY <2>1, <2>2, <2>3 DEF OwnersInv
  <2>5. FreshInv'
    <3>1. ASSUME NEW i \in 1 .. Len(toClients')
          PROVE  IsOpen(toClients[i])' /\ transfers'[toClients'[i]].written = <<>>
      BY <2>2, <2>3, <3>1 DEF FreshInv, IsOpen
    <3>2. ASSUME NEW v \in Workers
          PROVE  /\ wkPc'[v] \in {"signal", "drop"} => ~IsOpen(wkTransfer[v])'
                 /\ wkPc'[v] \in {"wait", "connect", "write"} => IsOpen(wkTransfer[v])'
                 /\ wkPc'[v] \in {"wait", "connect"} => transfers'[wkTransfer'[v]].written = <<>>
      BY <2>1, <2>2, <2>3 DEF FreshInv, IsOpen
    <3>3. QED
      BY <3>1, <3>2 DEF FreshInv
  <2>6. QED
    BY <2>4, <2>5
<1>6. QED
  BY <1>1, <1>2, <1>3, <1>4, <1>5, DispatchOwners, ClientOwners DEF NextAny, Worker

LEMMA OwnersInit == Init => OwnersInv /\ FreshInv
<1> SUFFICES ASSUME Init PROVE OwnersInv /\ FreshInv
  OBVIOUS
<1>1. toClients = <<>> /\ Len(toClients) = 0
  BY DEF Init
<1>2. QED
  BY <1>1 DEF Init, OwnersInv, FreshInv

\* The invariant of the pool of client workers.
PoolInv == DataTypes /\ Occupied /\ PermitsInv /\ OwnersInv /\ FreshInv

LEMMA PoolInvariant == Spec => []PoolInv
<1>1. Init => PoolInv
  BY TypeInit, OwnersInit DEF PoolInv
<1>2. PoolInv /\ [Next]_deliveryVars => PoolInv'
  BY NextIsAny, TypeStep, PermitsStep, OwnersStep DEF PoolInv
<1>3. QED
  BY <1>1, <1>2, PTL DEF Spec

\* Type correctness: the maps of dispatch and the workers name existing
\* transfers, and there are never fewer than no permits nor more than workers.
THEOREM TypeCorrect == Spec => []TypeOK
<1>1. PoolInv => TypeOK
  <2> SUFFICES ASSUME PoolInv PROVE TypeOK
    OBVIOUS
  <2>1. permits \in 0 .. Cardinality(Workers)
    BY HoldingFit DEF PoolInv, PermitsInv
  <2>2. DOMAIN told = Transfers
    BY DEF PoolInv, DataTypes, Transfers
  <2>3. QED
    BY <2>1, <2>2 DEF PoolInv, DataTypes, TypeOK, TransferRecords
<1>2. QED
  BY <1>1, PoolInvariant, PTL

\* A worker that has taken a transfer finds a permit: the semaphore multiplex_control
\* of clients.rs never makes a transfer wait, whatever way the others ended.
THEOREM PermitForEveryWorker == Spec => []NeverWaitsForPermit
<1>1. PoolInv => NeverWaitsForPermit
  <2> SUFFICES ASSUME PoolInv, NEW w \in Workers, wkPc[w] = "wait" PROVE permits > 0
    BY DEF NeverWaitsForPermit
  <2>1. Holding # Workers
    BY DEF Holding
  <2>2. QED
    BY <2>1, HoldingFit DEF PoolInv, PermitsInv
<1>2. QED
  BY <1>1, PoolInvariant, PTL

\* Each transfer is served by one worker, once: it is in toClients or with a
\* worker, and a worker between transfers has none that is still open.
THEOREM OneOwner == Spec => []OneWorkerEach
<1>1. PoolInv => OneWorkerEach
  <2> SUFFICES ASSUME PoolInv PROVE OneWorkerEach
    OBVIOUS
  <2>1. \A w \in Workers : wkTransfer[w] # NoTransfer =>
          wkPc[w] \in {"wait", "connect", "write", "signal", "drop"}
    BY DEF PoolInv, DataTypes, Occupied
  <2>2. QED
    BY <2>1 DEF PoolInv, OwnersInv, FreshInv, OneWorkerEach
<1>2. QED
  BY <1>1, PoolInvariant, PTL

-----------------------------------------------------------------------------
(* Routes *)

\* active_transfers against the messages: a client id is only mapped to a transfer
\* that its blocks are for, every transfer that is not closed and whose worker has
\* not left is found there, and no block is for two transfers.
RouteInv ==
  /\ \A c \in ClientIds : active[c] # NoTransfer => Hears(active[c], c)
  /\ \A t \in Transfers : told[t].closed = "no" /\ IsOpen(t) => active[told[t].client] = t
  /\ \A t, u \in Transfers :
       told[t].closed = "no" /\ told[u].closed = "no" /\ told[t].client = told[u].client => t = u

\* A block of an active client reaches the one transfer that hears it.
LEMMA GivenStep ==
  ASSUME DataTypes, RouteInv, NEW m \in Message, m # Lost,
         m.type \in {"Data", "Abort", "End"}, Tell(m),
         IF active[m.client] = NoTransfer THEN Unchanged
         ELSE DispatchToTransfer(m, active[m.client])
  PROVE  /\ Len(transfers') = Len(transfers)
         /\ \A c \in ClientIds : c # m.client => active'[c] = active[c]
         /\ active'[m.client] \in {active[m.client], NoTransfer}
         /\ active'[m.client] # NoTransfer => m.type = "Data"
         /\ m.type = "Data" /\ active[m.client] # NoTransfer /\ IsOpen(active[m.client])
              => active'[m.client] = active[m.client]
         /\ \A t \in Transfers : ~Hears(t, m.client) =>
              told'[t] = told[t] /\ transfers'[t] = transfers[t]
         /\ \A t \in Transfers : Hears(t, m.client) =>
              /\ told'[t] = Given(t, m)
              /\ transfers'[t] \in {transfers[t], Pushed(transfers[t], m)}
              /\ IsOpen(t) => transfers'[t] = Pushed(transfers[t], m)
<1>1. m.client \in ClientIds /\ active \in [ClientIds -> Transfers \cup {NoTransfer}]
  BY MessageFields DEF DataTypes
<1>2. \A t \in Transfers : told'[t] = IF Hears(t, m.client) THEN Given(t, m) ELSE told[t]
  BY TellGiven DEF Transfers, DataTypes
<1>3. CASE active[m.client] = NoTransfer
  <2>1. UNCHANGED <<active, transfers>>
    BY <1>3 DEF Unchanged
  <2>2. \A t \in Transfers : Hears(t, m.client) => ~IsOpen(t)
    BY <1>3 DEF RouteInv, Hears, Transfers
  <2>3. QED
    BY <1>2, <1>3, <2>1, <2>2
<1>4. CASE active[m.client] # NoTransfer
  <2> DEFINE t == active[m.client]
  <2>1. t \in Transfers /\ DispatchToTransfer(m, t)
    BY <1>1, <1>4
  <2>2. Hears(t, m.client) /\ \A u \in Transfers : Hears(u, m.client) => u = t
    BY <1>1, <1>4, <2>1 DEF RouteInv, Hears
  <2>3. /\ Len(transfers') = Len(transfers)
        /\ \A u \in Transfers :
             transfers'[u] = IF u = t /\ HasReceiver(t) THEN Pushed(transfers[t], m)
                             ELSE transfers[u]
        /\ active' = IF HasReceiver(t) /\ m.type \notin {"End", "Abort"} THEN active
                     ELSE [active EXCEPT ![m.client] = NoTransfer]
    BY <2>1, DispatchPushes
  <2>4. /\ \A c \in ClientIds : c # m.client => active'[c] = active[c]
        /\ active'[m.client] = IF HasReceiver(t) /\ m.type = "Data" THEN t ELSE NoTransfer
    <3> HIDE DEF t
    <3>1. t = active[m.client]
      BY DEF t
    <3>2. QED
      BY <1>1, <2>3, <3>1
  <2> HIDE DEF t
  <2>5. t = active[m.client] /\ (IsOpen(t) => HasReceiver(t))
    BY DEF t, HasReceiver
  <2>6. QED
    BY <1>2, <1>4, <2>2, <2>3, <2>4, <2>5
<1>5. QED
  BY <1>3, <1>4

LEMMA GivenRoutes ==
  ASSUME DataTypes, RouteInv, NEW m \in Message, m # Lost,
         m.type \in {"Data", "Abort", "End"}, Tell(m),
         IF active[m.client] = NoTransfer THEN Unchanged
         ELSE DispatchToTransfer(m, active[m.client])
  PROVE  RouteInv'
<1>1. /\ Transfers' = Transfers /\ active \in [ClientIds -> Transfers \cup {NoTransfer}]
      /\ \A t \in Transfers : told[t] \in ToldRecords
  BY GivenStep DEF Transfers, DataTypes
<1>2. ASSUME NEW t \in Transfers, Hears(t, m.client)
      PROVE  /\ told'[t].client = m.client
             /\ told'[t].closed = "no" <=> m.type = "Data"
             /\ IsOpen(t)' <=> IsOpen(t)
  <2>1. told'[t] = Given(t, m) /\ told[t].client = m.client
    BY <1>2, GivenStep DEF Hears
  <2>2. transfers'[t].outcome = transfers[t].outcome
    BY <1>2, GivenStep, PushedFields
  <2>3. QED
    BY <2>1, <2>2, GivenFields DEF IsOpen
<1>3. ASSUME NEW t \in Transfers, ~Hears(t, m.client)
      PROVE  told'[t] = told[t] /\ (IsOpen(t)' <=> IsOpen(t))
  BY <1>3, GivenStep DEF IsOpen
<1>4. ASSUME NEW c \in ClientIds, active'[c] # NoTransfer PROVE Hears(active[c], c)'
  <2>1. CASE c = m.client
    <3>1. active'[c] = active[c] /\ m.type = "Data" /\ Hears(active[c], c)
      BY <1>4, <2>1, GivenStep DEF RouteInv
    <3>2. QED
      BY <1>1, <1>2, <1>4, <2>1, <3>1 DEF Hears
  <2>2. CASE c # m.client
    <3>1. active'[c] = active[c] /\ Hears(active[c], c)
      BY <1>4, <2>2, GivenStep DEF RouteInv
    <3>2. ~Hears(active[c], m.client)
      BY <2>2, <3>1 DEF Hears
    <3>3. QED
      BY <1>1, <1>3, <1>4, <3>1, <3>2 DEF Hears
  <2>3. QED
    BY <2>1, <2>2
<1>5. ASSUME NEW t \in Transfers, told'[t].closed = "no", IsOpen(t)'
      PROVE  active'[told'[t].client] = t
  <2>1. CASE Hears(t, m.client)
    <3>1. told[t].client = m.client /\ told[t].closed = "no" /\ IsOpen(t) /\ m.type = "Data"
      BY <1>2, <1>5, <2>1 DEF Hears
    <3>2. active[m.client] = t /\ t # NoTransfer
      BY <3>1 DEF RouteInv, Transfers
    <3>3. QED
      BY <1>2, <2>1, <3>1, <3>2, GivenStep
  <2>2. CASE ~Hears(t, m.client)
    <3>1. told'[t] = told[t] /\ told[t].client # m.client /\ IsOpen(t)
      BY <1>3, <1>5, <2>2 DEF Hears
    <3>2. active[told[t].client] = t /\ told[t].client \in ClientIds
      BY <1>1, <1>5, <3>1 DEF RouteInv, ToldRecords
    <3>3. QED
      BY <3>1, <3>2, GivenStep
  <2>3. QED
    BY <2>1, <2>2
<1>6. ASSUME NEW t \in Transfers, told'[t].closed = "no"
      PROVE  told[t].closed = "no" /\ told'[t].client = told[t].client
  BY <1>2, <1>3, <1>6 DEF Hears
<1>7. QED
  BY <1>1, <1>4, <1>5, <1>6 DEF RouteInv

LEMMA RouteStep ==
  ASSUME DataTypes, Occupied, FreshInv, RouteInv, [NextAny]_deliveryVars
  PROVE  RouteInv'
<1>1. CASE UNCHANGED <<active, transfers, told>>
  BY <1>1 DEF RouteInv, Hears, IsOpen, Transfers
<1>2. CASE UNCHANGED deliveryVars
  BY <1>1, <1>2 DEF deliveryVars, dispatchVars
<1>3. ASSUME NEW w \in Workers, WorkerReceive(w) \/ WorkerAcquire(w) \/ WorkerSignal(w)
      PROVE  RouteInv'
  BY <1>1, <1>3 DEF WorkerReceive, WorkerAcquire, WorkerSignal, dispatchVars
<1>4. ASSUME NEW w \in Workers, ClientConnect(w) \/ ClientBlock(w) \/ ClientGivesUp(w)
      PROVE  RouteInv'
  <2>1. /\ UNCHANGED dispatchVars
        /\ wkTransfer[w] \in Transfers
    BY <1>4, ClientCases
  <2>2. PICK r \in TransferRecords :
          /\ transfers' = [transfers EXCEPT ![wkTransfer[w]] = r]
          /\ ClientBecomes(w, r)
    BY <1>4, ClientCases
  <2>3. /\ Len(transfers') = Len(transfers)
        /\ \A u \in Transfers : transfers'[u] = IF u = wkTransfer[w] THEN r ELSE transfers[u]
    BY <2>1, <2>2, TransferExcept DEF DataTypes
  <2>4. IsOpen(wkTransfer[w])
    BY <2>2 DEF FreshInv, ClientBecomes
  <2>5. \A u \in Transfers : IsOpen(u)' => IsOpen(u)
    BY <2>3, <2>4 DEF IsOpen
  <2>6. QED
    BY <2>1, <2>3, <2>5 DEF dispatchVars, RouteInv, Hears, Transfers
<1>5. ASSUME Tell(Lost), DispatchLost PROVE RouteInv'
  <2>1. Transfers' = Transfers /\ \A c \in ClientIds : active'[c] = NoTransfer
    BY <1>5, LostPushes DEF DispatchLost, Transfers
  <2>2. \A t \in Transfers : told'[t].closed # "no"
    <3>1. \A t \in Transfers :
            told'[t] = IF told[t].closed = "no" THEN Closed(told[t], "loss") ELSE told[t]
      BY <1>5, TellLost DEF Transfers, DataTypes
    <3>2. QED
      BY <3>1, ClosedFields
  <2>3. QED
    BY <2>1, <2>2 DEF RouteInv
<1>6. ASSUME NEW m \in Message, m # Lost, m.type = "Start", Tell(m), DispatchStart(m)
      PROVE  RouteInv'
  <2> DEFINE new == Len(transfers) + 1
  <2>1. /\ active \in [ClientIds -> Transfers \cup {NoTransfer}] /\ Len(transfers) \in Nat
        /\ m.client \in ClientIds /\ Len(told) = Len(transfers)
        /\ \A t \in Transfers : told[t] \in ToldRecords
    BY MessageFields DEF DataTypes, Transfers
  <2>2. /\ Transfers' = Transfers \cup {new} /\ new \notin Transfers
        /\ \A t \in Transfers : transfers'[t] = transfers[t]
    BY <1>6, <2>1, StartAdds DEF Transfers
  <2>3. /\ told'[new].client = m.client /\ told'[new].closed = "no"
        /\ \A t \in Transfers :
             told'[t] = IF Hears(t, m.client) THEN Closed(told[t], "replaced") ELSE told[t]
    <3>1. told'[new] = ToldNew(m.client)
      BY <1>6, <2>1, TellStart
    <3>2. /\ told'[new].client = m.client /\ told'[new].closed = "no"
      BY <3>1, ToldNewFields
    <3>3. QED
      BY <1>6, <2>1, <3>2, TellStart DEF Transfers
  <2>4. /\ active'[m.client] = new
        /\ \A c \in ClientIds : c # m.client => active'[c] = active[c]
    BY <1>6, <2>1 DEF DispatchStart
  <2> HIDE DEF new
  <2>5. \A t \in Transfers :
          /\ told'[t].closed = "no" => told[t].closed = "no" /\ told'[t] = told[t]
                                       /\ told[t].client # m.client
          /\ told[t].closed = "no" /\ told[t].client # m.client => told'[t] = told[t]
    BY <2>1, <2>3, ClosedFields DEF Hears
  <2>6. \A c \in ClientIds : active'[c] # NoTransfer => Hears(active[c], c)'
    <3>1. ASSUME NEW c \in ClientIds, active'[c] # NoTransfer, c # m.client
          PROVE  Hears(active[c], c)'
      BY <2>1, <2>4, <2>5, <3>1 DEF RouteInv, Hears
    <3>2. QED
      BY <2>3, <2>4, <3>1 DEF Hears
  <2>7. \A t \in Transfers' : told'[t].closed = "no" /\ IsOpen(t)' => active'[told'[t].client] = t
    BY <2>1, <2>2, <2>3, <2>4, <2>5 DEF RouteInv, IsOpen, ToldRecords
  <2>8. \A t, u \in Transfers' : told'[t].closed = "no" /\ told'[u].closed = "no"
                                   /\ told'[t].client = told'[u].client => t = u
    BY <2>2, <2>3, <2>5 DEF RouteInv
  <2>9. QED
    BY <2>6, <2>7, <2>8 DEF RouteInv
<1>7. ASSUME NEW m \in Messages, Dispatch(m) PROVE RouteInv'
  BY <1>1, <1>5, <1>6, <1>7, DispatchCases, GivenRoutes DEF Unchanged
<1>8. ASSUME NEW w \in Workers, WorkerDrop(w) PROVE RouteInv'
  BY <1>8, DropStep DEF dispatchVars, RouteInv, Hears, IsOpen
<1>9. QED
  BY <1>2, <1>3, <1>4, <1>7, <1>8 DEF NextAny, Worker

-----------------------------------------------------------------------------
(* What is in a channel *)

\* The blocks of a transfer, for its client worker: the Start, one for each payload
\* that was sent, and an Abort if the transfer was aborted or hit by a loss.
Total(h) ==
  IF h.closed \in {"abort", "loss"} THEN Len(h.sent) + 2 ELSE Len(h.sent) + 1

\* The type of the i-th of them.
Kind(h, i) ==
  IF i = 1 THEN "Start"
  ELSE IF i > Len(h.sent) + 1 THEN "Abort"
  ELSE IF h.closed = "end" /\ i = Len(h.sent) + 1 THEN "End" ELSE "Data"

\* How many the worker has read.
Done(r, h) == Total(h) - Len(r.queue)

Carries(b, h, i) == b.type = Kind(h, i) /\ (b.type \in {"Data", "End"} => b.n = h.sent[i - 1])

\* The channel holds the blocks that are not read, and the payloads of those that
\* are read were written; the last block of a closed transfer is never behind.
QueueOK(r, h) ==
  /\ Done(r, h) \in Nat
  /\ \A j \in 1 .. Len(r.queue) : Carries(r.queue[j], h, Done(r, h) + j)
  /\ Len(r.written) = IF Done(r, h) = 0 THEN 0 ELSE Done(r, h) - 1
  /\ \A k \in 1 .. Len(r.written) : r.written[k] = h.sent[k]
  /\ h.closed \in {"end", "abort", "loss"} => Len(r.queue) # 0
  /\ h.closed = "end" => Len(h.sent) # 0

QueuesInv == \A t \in Transfers : IsOpen(t) => QueueOK(transfers[t], told[t])

LEMMA RecordTypes ==
  /\ \A r \in TransferRecords :
       /\ r.client \in ClientIds /\ r.queue \in Seq(Blocks) /\ Len(r.queue) \in Nat
       /\ r.written \in Seq(Nat) /\ Len(r.written) \in Nat
       /\ r.outcome \in {"open", "success", "failed", "dropped"}
  /\ \A h \in ToldRecords :
       /\ h.client \in ClientIds /\ h.sent \in Seq(Nat) /\ Len(h.sent) \in Nat
       /\ h.closed \in {"no", "replaced", "abort", "end", "loss"}
       /\ Total(h) \in Nat
<1>1. ASSUME NEW r \in TransferRecords
      PROVE  /\ r.client \in ClientIds /\ r.queue \in Seq(Blocks) /\ Len(r.queue) \in Nat
             /\ r.written \in Seq(Nat) /\ Len(r.written) \in Nat
             /\ r.outcome \in {"open", "success", "failed", "dropped"}
  BY DEF TransferRecords
<1>2. ASSUME NEW h \in ToldRecords
      PROVE  /\ h.client \in ClientIds /\ h.sent \in Seq(Nat) /\ Len(h.sent) \in Nat
             /\ h.closed \in {"no", "replaced", "abort", "end", "loss"}
             /\ Total(h) \in Nat
  <2>1. /\ h.client \in ClientIds /\ h.sent \in Seq(Nat)
        /\ h.closed \in {"no", "replaced", "abort", "end", "loss"}
    BY DEF ToldRecords
  <2>2. Len(h.sent) \in Nat
    BY <2>1
  <2>3. Total(h) \in Nat
    BY <2>2 DEF Total
  <2>4. QED
    BY <2>1, <2>2, <2>3
<1>3. QED
  BY <1>1, <1>2

LEMMA QueueNew ==
  ASSUME NEW m \in Message, m.type = "Start"
  PROVE  QueueOK(NewTransfer(m.client, m), ToldNew(m.client))
<1> DEFINE r == NewTransfer(m.client, m)
           h == ToldNew(m.client)
<1>1. /\ r.queue = <<m>> /\ r.written = <<>> /\ h.sent = <<>> /\ h.closed = "no"
  <2>1. r.queue = <<m>> /\ r.written = <<>>
    BY Zenon DEF NewTransfer
  <2>2. QED
    BY <2>1, ToldNewFields
<1> HIDE DEF r, h
<1>2. /\ Len(r.queue) = 1 /\ r.queue[1] = m /\ Len(r.written) = 0 /\ Len(h.sent) = 0
  BY <1>1
<1>3. Total(h) = 1 /\ Kind(h, 1) = "Start"
  BY <1>1, <1>2 DEF Total, Kind
<1>4. Done(r, h) = 0
  BY <1>2, <1>3 DEF Done
<1>5. Carries(r.queue[1], h, 1)
  BY <1>2, <1>3 DEF Carries
<1>6. QueueOK(r, h)
  BY <1>1, <1>2, <1>4, <1>5 DEF QueueOK
<1>7. QED
  BY <1>6 DEF r, h

\* Nothing comes for a transfer that a new Start replaces.
LEMMA QueueReplaced ==
  ASSUME NEW r \in TransferRecords, NEW h \in ToldRecords, h.closed = "no", QueueOK(r, h)
  PROVE  QueueOK(r, Closed(h, "replaced"))
<1> DEFINE h2 == Closed(h, "replaced")
<1>1. h2.sent = h.sent /\ h2.closed = "replaced"
  BY ClosedFields
<1> HIDE DEF h2
<1>2. /\ Total(h2) = Total(h) /\ \A i \in Int : Kind(h2, i) = Kind(h, i)
  BY <1>1 DEF Total, Kind
<1>3. Done(r, h2) = Done(r, h) /\ Done(r, h) \in Nat
  BY <1>2 DEF Done, QueueOK
<1>4. \A j \in 1 .. Len(r.queue) : Carries(r.queue[j], h2, Done(r, h2) + j)
  BY <1>1, <1>2, <1>3, RecordTypes DEF QueueOK, Carries
<1>5. QueueOK(r, h2)
  BY <1>1, <1>3, <1>4 DEF QueueOK
<1>6. QED
  BY <1>5 DEF h2

\* An Abort is put behind what is in the channel.
LEMMA QueueAborted ==
  ASSUME NEW r \in TransferRecords, NEW h \in ToldRecords, h.closed = "no", QueueOK(r, h),
         NEW b \in Blocks, b.type = "Abort",
         NEW h2 \in ToldRecords, h2.sent = h.sent, h2.closed \in {"abort", "loss"}
  PROVE  QueueOK(Pushed(r, b), h2)
<1> DEFINE r2 == Pushed(r, b)
           q == Len(r.queue)
           s == Len(h.sent)
<1>1. /\ q \in Nat /\ s \in Nat /\ r.queue \in Seq(Blocks)
      /\ Total(h) = s + 1 /\ Total(h2) = s + 2
  BY RecordTypes DEF Total
<1>2. /\ r2.queue = Append(r.queue, b) /\ r2.written = r.written
  BY PushedFields
<1> HIDE DEF r2, q, s
<1>3. /\ Len(r2.queue) = q + 1 /\ r2.queue[q + 1] = b
      /\ \A j \in 1 .. q : r2.queue[j] = r.queue[j]
  BY <1>1, <1>2, AppendProperties DEF q
<1>4. Done(r2, h2) = Done(r, h) /\ Done(r, h) \in Nat /\ Done(r, h) = s + 1 - q
  BY <1>1, <1>3 DEF Done, QueueOK, q
<1>5. ASSUME NEW j \in 1 .. q PROVE Carries(r2.queue[j], h2, Done(r, h) + j)
  <2>1. Carries(r.queue[j], h, Done(r, h) + j)
    BY DEF QueueOK, q
  <2>2. Kind(h2, Done(r, h) + j) = Kind(h, Done(r, h) + j)
    BY <1>1, <1>4 DEF Kind, s
  <2>3. QED
    BY <1>3, <2>1, <2>2 DEF Carries
<1>6. Carries(r2.queue[q + 1], h2, Done(r, h) + (q + 1))
  <2>1. Done(r, h) + (q + 1) = s + 2
    BY <1>1, <1>4
  <2>2. Kind(h2, s + 2) = "Abort"
    BY <1>1 DEF Kind, s
  <2>3. QED
    BY <1>3, <2>1, <2>2 DEF Carries
<1>7. \A j \in 1 .. Len(r2.queue) : Carries(r2.queue[j], h2, Done(r2, h2) + j)
  BY <1>1, <1>3, <1>4, <1>5, <1>6
<1>8. QueueOK(r2, h2)
  BY <1>1, <1>2, <1>3, <1>4, <1>7 DEF QueueOK
<1>9. QED
  BY <1>8 DEF r2

\* A block with a payload is put behind what is in the channel.
LEMMA QueueGiven ==
  ASSUME NEW r \in TransferRecords, NEW h \in ToldRecords, h.closed = "no", QueueOK(r, h),
         NEW b \in Blocks, b.n \in Nat,
         NEW h2 \in ToldRecords, h2.sent = Append(h.sent, b.n),
         \/ b.type = "Data" /\ h2.closed = "no"
         \/ b.type = "End" /\ h2.closed = "end"
  PROVE  QueueOK(Pushed(r, b), h2)
<1> DEFINE r2 == Pushed(r, b)
           q == Len(r.queue)
           s == Len(h.sent)
<1>1. /\ q \in Nat /\ s \in Nat /\ r.queue \in Seq(Blocks) /\ r.written \in Seq(Nat)
      /\ h.sent \in Seq(Nat) /\ Total(h) = s + 1
  BY RecordTypes DEF Total
<1>2. /\ r2.queue = Append(r.queue, b) /\ r2.written = r.written
  BY PushedFields
<1> HIDE DEF r2, q, s
<1>3. /\ Len(r2.queue) = q + 1 /\ r2.queue[q + 1] = b
      /\ \A j \in 1 .. q : r2.queue[j] = r.queue[j]
  BY <1>1, <1>2, AppendProperties DEF q
<1>4. /\ Len(h2.sent) = s + 1 /\ h2.sent[s + 1] = b.n
      /\ \A k \in 1 .. s : h2.sent[k] = h.sent[k]
  BY <1>1, AppendProperties DEF s
<1>5. Total(h2) = s + 2
  BY <1>1, <1>4 DEF Total
<1>6. Done(r2, h2) = Done(r, h) /\ Done(r, h) \in Nat /\ Done(r, h) = s + 1 - q
  BY <1>1, <1>3, <1>5 DEF Done, QueueOK, q
<1>7. ASSUME NEW j \in 1 .. q PROVE Carries(r2.queue[j], h2, Done(r, h) + j)
  <2> DEFINE i == Done(r, h) + j
  <2>1. Carries(r.queue[j], h, i) /\ i \in 1 .. s + 1
    <3>1. Carries(r.queue[j], h, Done(r, h) + j)
      BY DEF QueueOK, q
    <3>2. Done(r, h) + j \in 1 .. s + 1
      BY <1>1, <1>6
    <3>3. QED
      BY <3>1, <3>2
  <2> HIDE DEF i
  <2>2. Kind(h2, i) = Kind(h, i) /\ (i = 1 => Kind(h, i) = "Start")
    BY <1>1, <1>4, <2>1 DEF Kind, s
  <2>3. i # 1 => h2.sent[i - 1] = h.sent[i - 1]
    BY <1>1, <1>4, <2>1
  <2>4. Carries(r2.queue[j], h2, i)
    BY <1>3, <2>1, <2>2, <2>3 DEF Carries
  <2>5. QED
    BY <2>4 DEF i
<1>8. Carries(r2.queue[q + 1], h2, Done(r, h) + (q + 1))
  <2>1. Done(r, h) + (q + 1) = s + 2
    BY <1>1, <1>6
  <2>2. Kind(h2, s + 2) = b.type
    BY <1>1, <1>4 DEF Kind
  <2>3. QED
    BY <1>1, <1>3, <1>4, <2>1, <2>2 DEF Carries
<1>9. \A j \in 1 .. Len(r2.queue) : Carries(r2.queue[j], h2, Done(r2, h2) + j)
  BY <1>1, <1>3, <1>6, <1>7, <1>8
<1>10. \A k \in 1 .. Len(r.written) : r.written[k] = h2.sent[k]
  <2>1. Len(r.written) <= s
    BY <1>1, <1>6 DEF QueueOK
  <2>2. QED
    BY <1>1, <1>4, <2>1, RecordTypes DEF QueueOK
<1>11. QueueOK(r2, h2)
  <2>1. Len(r2.queue) # 0 /\ Len(h2.sent) # 0
    BY <1>1, <1>3, <1>4
  <2>2. /\ Done(r2, h2) \in Nat
        /\ Len(r2.written) = IF Done(r2, h2) = 0 THEN 0 ELSE Done(r2, h2) - 1
    BY <1>2, <1>6 DEF QueueOK
  <2>3. QED
    BY <1>2, <1>9, <1>10, <2>1, <2>2 DEF QueueOK
<1>12. QED
  BY <1>11 DEF r2

\* The block at the head of the channel, and its place among those of the transfer.
LEMMA QueueHead ==
  ASSUME NEW r \in TransferRecords, NEW h \in ToldRecords, QueueOK(r, h), r.queue # <<>>
  PROVE  /\ Carries(Head(r.queue), h, Done(r, h) + 1)
         /\ Done(r, h) + 1 \in 1 .. Total(h)
         /\ Len(r.queue) = Total(h) - Done(r, h)
<1>1. /\ Len(r.queue) \in Nat \ {0} /\ Head(r.queue) = r.queue[1] /\ Total(h) \in Nat
  BY RecordTypes
<1>2. Done(r, h) \in Nat /\ Done(r, h) = Total(h) - Len(r.queue)
  BY DEF QueueOK, Done
<1>3. QED
  BY <1>1, <1>2 DEF QueueOK

\* The payload of a Data or End block at the head is the one after those written.
LEMMA QueuePayload ==
  ASSUME NEW r \in TransferRecords, NEW h \in ToldRecords, QueueOK(r, h), r.queue # <<>>,
         Head(r.queue).type \in {"Data", "End"}
  PROVE  /\ Done(r, h) \in 1 .. Len(h.sent)
         /\ Len(r.written) = Done(r, h) - 1
         /\ WithPayload(r) = Append(r.written, h.sent[Done(r, h)])
         /\ Len(WithPayload(r)) = Done(r, h)
         /\ \A k \in 1 .. Done(r, h) : WithPayload(r)[k] = h.sent[k]
<1> DEFINE d == Done(r, h)
           b == Head(r.queue)
<1>1. /\ Carries(b, h, d + 1) /\ d + 1 \in 1 .. Total(h) /\ d \in Nat
      /\ Len(h.sent) \in Nat /\ h.sent \in Seq(Nat) /\ r.written \in Seq(Nat)
  BY QueueHead, RecordTypes DEF QueueOK
<1>2. Len(r.written) = (IF d = 0 THEN 0 ELSE d - 1)
      /\ \A k \in 1 .. Len(r.written) : r.written[k] = h.sent[k]
  BY DEF QueueOK
<1> HIDE DEF d, b
<1>3. b.type \in {"Data", "End"}
  BY DEF b
<1>4. d \in 1 .. Len(h.sent)
  BY <1>1, <1>3 DEF Carries, Kind
<1>5. b.n = h.sent[d] /\ h.sent[d] \in Nat
  BY <1>1, <1>3, <1>4 DEF Carries
<1>6. WithPayload(r) = Append(r.written, h.sent[d])
  BY <1>3, <1>5 DEF WithPayload, HasPayload, b
<1>7. /\ Len(WithPayload(r)) = d
      /\ \A k \in 1 .. d : WithPayload(r)[k] = h.sent[k]
  <2>1. PICK l \in Nat : l = Len(r.written) /\ d = l + 1
    BY <1>1, <1>2, <1>4
  <2>2. /\ Len(WithPayload(r)) = l + 1
        /\ \A k \in 1 .. l : WithPayload(r)[k] = r.written[k]
        /\ WithPayload(r)[l + 1] = h.sent[d]
    BY <1>1, <1>5, <1>6, <2>1, AppendProperties
  <2>3. ASSUME NEW k \in 1 .. d PROVE WithPayload(r)[k] = h.sent[k]
    <3>1. k \in 1 .. l \/ k = l + 1
      BY <2>1
    <3>2. QED
      BY <1>2, <2>1, <2>2, <3>1
  <2>4. QED
    BY <2>1, <2>2, <2>3
<1>8. QED
  BY <1>2, <1>4, <1>6, <1>7 DEF d

\* A worker that has read a Start or Data block has not read the last one.
LEMMA QueueRead ==
  ASSUME NEW r \in TransferRecords, NEW h \in ToldRecords, QueueOK(r, h), r.queue # <<>>,
         Head(r.queue).type \in {"Start", "Data"}
  PROVE  QueueOK(Read(r), h)
<1> DEFINE r2 == Read(r)
           d == Done(r, h)
           q == Len(r.queue)
<1>1. /\ Carries(Head(r.queue), h, d + 1) /\ d + 1 \in 1 .. Total(h) /\ d \in Nat
      /\ q = Total(h) - d /\ q \in Nat \ {0}
      /\ Len(h.sent) \in Nat /\ r.queue \in Seq(Blocks) /\ Total(h) \in Nat
  BY QueueHead, RecordTypes DEF QueueOK
<1>2. /\ r2.queue = Tail(r.queue) /\ r2.written = WithPayload(r)
  BY DEF Read
<1> HIDE DEF r2, d, q
<1>3. /\ Len(r2.queue) = q - 1
      /\ \A j \in 1 .. q - 1 : r2.queue[j] = r.queue[j + 1]
  BY <1>1, <1>2 DEF q
<1>4. Done(r2, h) = d + 1
  BY <1>1, <1>3 DEF Done
<1>5. \A j \in 1 .. Len(r2.queue) : Carries(r2.queue[j], h, Done(r2, h) + j)
  <2>1. ASSUME NEW j \in 1 .. q - 1 PROVE Carries(r.queue[j + 1], h, d + (j + 1))
    <3>1. j + 1 \in 1 .. Len(r.queue)
      BY <1>1 DEF q
    <3>2. QED
      BY <3>1 DEF QueueOK, d
  <2>2. \A j \in 1 .. q - 1 : d + (j + 1) = (d + 1) + j
    BY <1>1
  <2>3. QED
    BY <1>3, <1>4, <2>1, <2>2
<1>6. /\ Len(r2.written) = d
      /\ \A k \in 1 .. Len(r2.written) : r2.written[k] = h.sent[k]
  <2>1. CASE Head(r.queue).type = "Start"
    <3>1. d = 0
      BY <1>1, <2>1 DEF Carries, Kind
    <3>2. WithPayload(r) = r.written
      BY <2>1 DEF WithPayload, HasPayload
    <3>3. QED
      BY <1>2, <3>1, <3>2 DEF QueueOK, d
  <2>2. CASE Head(r.queue).type = "Data"
    BY <1>2, <2>2, QueuePayload DEF d
  <2>3. QED
    BY <2>1, <2>2
<1>7. h.closed \in {"end", "abort", "loss"} => q # 1
  <2>1. SUFFICES ASSUME h.closed \in {"end", "abort", "loss"}, q = 1 PROVE FALSE
    OBVIOUS
  <2>2. d + 1 = Total(h)
    BY <1>1, <2>1
  <2>3. h.closed = "end" => Len(h.sent) # 0
    BY DEF QueueOK
  <2>4. Kind(h, Total(h)) \in {"End", "Abort"}
    BY <1>1, <2>1, <2>3 DEF Kind, Total
  <2>5. QED
    BY <1>1, <2>2, <2>4 DEF Carries
<1>8. QueueOK(r2, h)
  BY <1>1, <1>3, <1>4, <1>5, <1>6, <1>7 DEF QueueOK
<1>9. QED
  BY <1>8 DEF r2

\* At the Abort all that was sent has been written, and at the End all but the
\* payload of the End.
LEMMA QueueLast ==
  ASSUME NEW r \in TransferRecords, NEW h \in ToldRecords, QueueOK(r, h), r.queue # <<>>
  PROVE  /\ Head(r.queue).type = "Abort" =>
              h.closed \in {"abort", "loss"} /\ WithPayload(r) = h.sent /\ r.written = h.sent
         /\ Head(r.queue).type = "End" =>
              h.closed = "end" /\ WithPayload(r) = h.sent /\ Done(r, h) = Len(h.sent)
<1> DEFINE d == Done(r, h)
<1>1. /\ Carries(Head(r.queue), h, d + 1) /\ d + 1 \in 1 .. Total(h) /\ d \in Nat
      /\ Len(h.sent) \in Nat /\ h.sent \in Seq(Nat) /\ r.written \in Seq(Nat)
  BY QueueHead, RecordTypes DEF QueueOK
<1>2. /\ Len(r.written) = (IF d = 0 THEN 0 ELSE d - 1)
      /\ \A k \in 1 .. Len(r.written) : r.written[k] = h.sent[k]
  BY DEF QueueOK
<1> HIDE DEF d
<1>3. CASE Head(r.queue).type = "Abort"
  <2>1. d + 1 > Len(h.sent) + 1
    BY <1>1, <1>3 DEF Carries, Kind
  <2>2. h.closed \in {"abort", "loss"} /\ d = Len(h.sent) + 1
    BY <1>1, <2>1 DEF Total
  <2>3. Len(r.written) = Len(h.sent)
    BY <1>1, <1>2, <2>2
  <2>4. r.written = h.sent
    BY <1>1, <1>2, <2>3, SeqEqual
  <2>5. WithPayload(r) = r.written
    BY <1>3 DEF WithPayload, HasPayload
  <2>6. QED
    BY <1>3, <2>2, <2>4, <2>5
<1>4. CASE Head(r.queue).type = "End"
  <2>1. h.closed = "end" /\ d = Len(h.sent)
    BY <1>1, <1>4 DEF Carries, Kind
  <2>2. /\ Len(WithPayload(r)) = d /\ WithPayload(r) \in Seq(Nat)
        /\ \A k \in 1 .. d : WithPayload(r)[k] = h.sent[k]
    BY <1>4, QueuePayload, ReadMeans DEF d
  <2>3. WithPayload(r) = h.sent
    BY <1>1, <2>1, <2>2, SeqEqual
  <2>4. QED
    BY <1>4, <2>1, <2>3 DEF d
<1>5. QED
  BY <1>3, <1>4

\* A loss reaches every transfer that is not closed and whose worker has not left.
LEMMA LostStep ==
  ASSUME DataTypes, RouteInv, Tell(Lost), DispatchLost
  PROVE  /\ Len(transfers') = Len(transfers)
         /\ \A t \in Transfers : told[t].closed # "no" =>
              told'[t] = told[t] /\ transfers'[t] = transfers[t]
         /\ \A t \in Transfers : told[t].closed = "no" =>
              /\ told'[t] = Closed(told[t], "loss")
              /\ transfers'[t] \in {transfers[t], Pushed(transfers[t], Aborting(transfers[t]))}
              /\ IsOpen(t) => transfers'[t] = Pushed(transfers[t], Aborting(transfers[t]))
<1>1. \A t \in Transfers :
        /\ told'[t] = IF told[t].closed = "no" THEN Closed(told[t], "loss") ELSE told[t]
        /\ told[t] \in ToldRecords
  BY TellLost DEF Transfers, DataTypes
<1>2. /\ Len(transfers') = Len(transfers)
      /\ \A t \in Transfers :
           transfers'[t] = IF (\E c \in ClientIds : active[c] = t) /\ HasReceiver(t)
                           THEN Pushed(transfers[t], Aborting(transfers[t]))
                           ELSE transfers[t]
  BY LostPushes
<1>3. ASSUME NEW t \in Transfers, told[t].closed # "no"
      PROVE  ~\E c \in ClientIds : active[c] = t
  BY <1>3 DEF RouteInv, Hears, Transfers
<1>4. ASSUME NEW t \in Transfers, told[t].closed = "no", IsOpen(t)
      PROVE  (\E c \in ClientIds : active[c] = t) /\ HasReceiver(t)
  BY <1>1, <1>4, RecordTypes DEF RouteInv, HasReceiver
<1>5. QED
  BY <1>1, <1>2, <1>3, <1>4

LEMMA StartStep ==
  ASSUME DataTypes, NEW m \in Message, m # Lost, m.type = "Start", Tell(m), DispatchStart(m)
  PROVE  /\ Len(transfers) \in Nat /\ Len(transfers') = Len(transfers) + 1
         /\ told'[Len(transfers) + 1] = ToldNew(m.client)
         /\ transfers'[Len(transfers) + 1] = NewTransfer(m.client, m)
         /\ \A t \in Transfers :
              /\ transfers'[t] = transfers[t]
              /\ told'[t] = IF Hears(t, m.client) THEN Closed(told[t], "replaced") ELSE told[t]
<1>1. Len(told) = Len(transfers) /\ Len(transfers) \in Nat
  BY DEF DataTypes
<1>2. QED
  BY <1>1, TellStart, StartAdds DEF Transfers

LEMMA Records ==
  ASSUME DataTypes
  PROVE  \A t \in Transfers : transfers[t] \in TransferRecords /\ told[t] \in ToldRecords
  BY DEF DataTypes, Transfers

LEMMA DispatchQueues ==
  ASSUME DataTypes, DataTypes', RouteInv, QueuesInv, NEW m \in Messages, Dispatch(m)
  PROVE  QueuesInv'
<1>1. CASE Tell(Lost) /\ DispatchLost
  <2> SUFFICES ASSUME NEW t \in Transfers', IsOpen(t)' PROVE QueueOK(transfers'[t], told'[t])
    BY DEF QueuesInv
  <2>1. t \in Transfers /\ transfers[t] \in TransferRecords /\ told[t] \in ToldRecords
    BY <1>1, LostStep, Records DEF Transfers
  <2>2. CASE told[t].closed # "no"
    BY <1>1, <2>1, <2>2, LostStep DEF QueuesInv, IsOpen
  <2>3. CASE told[t].closed = "no"
    <3> DEFINE b == Aborting(transfers[t])
               h == Closed(told[t], "loss")
    <3>1. IsOpen(t)
      BY <1>1, <2>1, <2>3, LostStep, PushedFields DEF IsOpen
    <3>2. QueueOK(transfers[t], told[t])
      BY <2>1, <3>1 DEF QueuesInv
    <3>3. b \in Blocks /\ b.type = "Abort"
      BY <2>1, RecordTypes DEF Aborting, Blocks, BlockTypes
    <3>4. h \in ToldRecords /\ h.sent = told[t].sent /\ h.closed = "loss"
      BY <2>1, ClosedMeans, ClosedFields
    <3>5. transfers'[t] = Pushed(transfers[t], b) /\ told'[t] = h
      BY <1>1, <2>1, <2>3, <3>1, LostStep
    <3> HIDE DEF b, h
    <3>6. QED
      BY <2>1, <2>3, <3>2, <3>3, <3>4, <3>5, QueueAborted
  <2>4. QED
    BY <2>2, <2>3
<1>2. CASE Unchanged /\ told' = told
  BY <1>2 DEF Unchanged, QueuesInv, IsOpen, Transfers
<1>3. CASE m \in Message /\ m # Lost /\ m.type = "Start" /\ Tell(m) /\ DispatchStart(m)
  <2> SUFFICES ASSUME NEW t \in Transfers', IsOpen(t)' PROVE QueueOK(transfers'[t], told'[t])
    BY DEF QueuesInv
  <2>1. t \in Transfers \/ t = Len(transfers) + 1
    BY <1>3, StartStep DEF Transfers
  <2>2. CASE t = Len(transfers) + 1
    BY <1>3, <2>2, StartStep, QueueNew
  <2>3. CASE t \in Transfers
    <3>1. /\ transfers[t] \in TransferRecords /\ told[t] \in ToldRecords
          /\ transfers'[t] = transfers[t] /\ QueueOK(transfers[t], told[t])
      BY <1>3, <2>3, StartStep, Records DEF QueuesInv, IsOpen
    <3>2. CASE Hears(t, m.client)
      BY <1>3, <2>3, <3>1, <3>2, StartStep, QueueReplaced DEF Hears
    <3>3. CASE ~Hears(t, m.client)
      BY <1>3, <2>3, <3>1, <3>3, StartStep
    <3>4. QED
      BY <3>2, <3>3
  <2>4. QED
    BY <2>1, <2>2, <2>3
<1>4. CASE /\ m \in Message /\ m # Lost /\ m.type \in {"Data", "Abort", "End"} /\ Tell(m)
           /\ IF active[m.client] = NoTransfer THEN Unchanged
              ELSE DispatchToTransfer(m, active[m.client])
  <2> SUFFICES ASSUME NEW t \in Transfers', IsOpen(t)' PROVE QueueOK(transfers'[t], told'[t])
    BY DEF QueuesInv
  <2>1. t \in Transfers /\ transfers[t] \in TransferRecords /\ told[t] \in ToldRecords
    BY <1>4, GivenStep, Records DEF Transfers
  <2>2. CASE ~Hears(t, m.client)
    BY <1>4, <2>1, <2>2, GivenStep DEF QueuesInv, IsOpen
  <2>3. CASE Hears(t, m.client)
    <3>1. told'[t] = Given(t, m) /\ Given(t, m) \in ToldRecords
      BY <1>4, <2>1, <2>3, GivenStep DEF DataTypes, Transfers
    <3>2. IsOpen(t)
      BY <1>4, <2>1, <2>3, GivenStep, PushedFields DEF IsOpen
    <3>3. QueueOK(transfers[t], told[t]) /\ transfers'[t] = Pushed(transfers[t], m)
      BY <1>4, <2>1, <2>3, <3>2, GivenStep DEF QueuesInv
    <3>4. m \in Blocks /\ m.n \in Nat /\ told[t].closed = "no"
      BY <1>4, <2>3, MessageFields DEF Hears
    <3>5. CASE m.type = "Abort"
      BY <1>4, <2>1, <3>1, <3>3, <3>4, <3>5, GivenFields, QueueAborted
    <3>6. CASE m.type \in {"Data", "End"}
      <4>1. /\ Given(t, m).sent = Append(told[t].sent, m.n)
            /\ \/ m.type = "Data" /\ Given(t, m).closed = "no"
               \/ m.type = "End" /\ Given(t, m).closed = "end"
        BY <1>4, <3>6, GivenFields
      <4>2. QED
        BY <2>1, <3>1, <3>3, <3>4, <4>1, QueueGiven
    <3>7. QED
      BY <1>4, <3>5, <3>6
  <2>4. QED
    BY <2>2, <2>3
<1>5. QED
  BY <1>1, <1>2, <1>3, <1>4, DispatchCases

LEMMA QueuesStep ==
  ASSUME DataTypes, DataTypes', Occupied, FreshInv, RouteInv, QueuesInv, [NextAny]_deliveryVars
  PROVE  QueuesInv'
<1>1. CASE UNCHANGED <<transfers, told>>
  BY <1>1 DEF QueuesInv, IsOpen, Transfers
<1>2. CASE UNCHANGED deliveryVars
  BY <1>1, <1>2 DEF deliveryVars, dispatchVars
<1>3. ASSUME NEW w \in Workers, WorkerReceive(w) \/ WorkerAcquire(w) \/ WorkerSignal(w)
      PROVE  QueuesInv'
  BY <1>1, <1>3 DEF WorkerReceive, WorkerAcquire, WorkerSignal, dispatchVars
<1>4. ASSUME NEW w \in Workers, ClientConnect(w) \/ ClientBlock(w) \/ ClientGivesUp(w)
      PROVE  QueuesInv'
  <2>1. /\ UNCHANGED dispatchVars
        /\ wkTransfer[w] \in Transfers /\ Mine(w) \in TransferRecords
    BY <1>4, ClientCases
  <2>2. PICK r \in TransferRecords :
          /\ transfers' = [transfers EXCEPT ![wkTransfer[w]] = r]
          /\ ClientBecomes(w, r)
    BY <1>4, ClientCases
  <2>3. /\ Len(transfers') = Len(transfers) /\ told' = told
        /\ \A u \in Transfers : transfers'[u] = IF u = wkTransfer[w] THEN r ELSE transfers[u]
    BY <2>1, <2>2, TransferExcept DEF DataTypes, dispatchVars
  <2>4. IsOpen(wkTransfer[w]) /\ QueueOK(Mine(w), told[wkTransfer[w]])
    BY <2>1, <2>2 DEF FreshInv, ClientBecomes, QueuesInv, Mine
  <2>5. r.outcome = "open" => QueueOK(r, told[wkTransfer[w]])
    <3>1. told[wkTransfer[w]] \in ToldRecords
      BY <2>1, Records
    <3>2. QED
      BY <2>1, <2>2, <2>4, <3>1, QueueRead DEF ClientBecomes, LeftAs
  <2>6. QED
    BY <2>1, <2>3, <2>5 DEF QueuesInv, IsOpen, Transfers
<1>5. ASSUME NEW m \in Messages, Dispatch(m) PROVE QueuesInv'
  BY <1>5, DispatchQueues
<1>6. ASSUME NEW w \in Workers, WorkerDrop(w) PROVE QueuesInv'
  <2>1. ~IsOpen(wkTransfer[w])
    BY <1>6 DEF WorkerDrop, FreshInv
  <2>2. QED
    BY <1>6, <2>1, DropStep DEF dispatchVars, QueuesInv, IsOpen
<1>7. QED
  BY <1>2, <1>3, <1>4, <1>5, <1>6 DEF NextAny, Worker

DeliveryInv == PoolInv /\ RouteInv /\ QueuesInv

LEMMA DeliveryInvariant == Spec => []DeliveryInv
<1>1. Init => DeliveryInv
  <2> SUFFICES ASSUME Init PROVE DeliveryInv
    OBVIOUS
  <2>1. PoolInv
    BY TypeInit, OwnersInit DEF PoolInv
  <2>2. Transfers = {}
    BY DEF Init, Transfers
  <2>3. RouteInv /\ QueuesInv
    BY <2>2 DEF Init, RouteInv, QueuesInv
  <2>4. QED
    BY <2>1, <2>3 DEF DeliveryInv
<1>2. DeliveryInv /\ [Next]_deliveryVars => DeliveryInv'
  <2> SUFFICES ASSUME DeliveryInv, [NextAny]_deliveryVars PROVE DeliveryInv'
    BY NextIsAny DEF DeliveryInv, PoolInv
  <2>1. DataTypes' /\ PoolInv'
    BY TypeStep, PermitsStep, OwnersStep DEF DeliveryInv, PoolInv
  <2>2. RouteInv' /\ QueuesInv'
    BY <2>1, RouteStep, QueuesStep DEF DeliveryInv, PoolInv
  <2>3. QED
    BY <2>1, <2>2 DEF DeliveryInv
<1>3. QED
  BY <1>1, <1>2, PTL DEF Spec

-----------------------------------------------------------------------------
(* A transfer that ends as a success *)

\* The worker that reads the End has written all that the messages gave to the
\* transfer; nothing is given to it afterwards.
SuccessInv ==
  \A t \in Transfers :
    /\ transfers[t].client = told[t].client
    /\ transfers[t].outcome = "success" =>
         told[t].closed = "end" /\ transfers[t].written = told[t].sent

\* What the messages say of the transfers, one by one.
LEMMA ToldCases ==
  ASSUME DataTypes, NEW m \in Messages, Dispatch(m)
  PROVE  \/ /\ Len(told') = Len(told)
            /\ \A t \in 1 .. Len(told) :
                 told'[t] = IF told[t].closed = "no" THEN Closed(told[t], "loss") ELSE told[t]
         \/ m \in Message /\ m.type = "Heartbeat" /\ told' = told
         \/ /\ m \in Message /\ m.type = "Start" /\ Len(told') = Len(told) + 1
            /\ told'[Len(told) + 1] = ToldNew(m.client)
            /\ \A t \in 1 .. Len(told) :
                 told'[t] = IF Hears(t, m.client) THEN Closed(told[t], "replaced") ELSE told[t]
         \/ /\ m \in Message /\ m.type \in {"Data", "Abort", "End"} /\ Len(told') = Len(told)
            /\ \A t \in 1 .. Len(told) :
                 told'[t] = IF Hears(t, m.client) THEN Given(t, m) ELSE told[t]
  BY DispatchCases, TellLost, TellStart, TellGiven

LEMMA DispatchSuccess ==
  ASSUME DataTypes, RouteInv, SuccessInv, NEW m \in Messages, Dispatch(m)
  PROVE  SuccessInv'
<1> USE DEF SuccessInv
<1>1. CASE Tell(Lost) /\ DispatchLost
  <2> SUFFICES ASSUME NEW t \in Transfers'
               PROVE  /\ transfers'[t].client = told'[t].client
                      /\ transfers'[t].outcome = "success" =>
                           told'[t].closed = "end" /\ transfers'[t].written = told'[t].sent
    OBVIOUS
  <2>1. t \in Transfers
    BY <1>1, LostStep DEF Transfers
  <2>2. CASE told[t].closed = "no"
    <3>1. /\ told'[t] = Closed(told[t], "loss") /\ transfers[t].outcome # "success"
          /\ \/ transfers'[t] = Pushed(transfers[t], Aborting(transfers[t]))
             \/ transfers'[t] = transfers[t]
      BY <1>1, <2>1, <2>2, LostStep
    <3>2. /\ transfers'[t].client = transfers[t].client
          /\ transfers'[t].outcome = transfers[t].outcome
      BY <3>1, PushedFields
    <3>3. told'[t].client = told[t].client
      BY <3>1, ClosedFields
    <3>4. QED
      BY <2>1, <3>1, <3>2, <3>3
  <2>3. CASE told[t].closed # "no"
    BY <1>1, <2>1, <2>3, LostStep
  <2>4. QED
    BY <2>2, <2>3
<1>2. CASE Unchanged /\ told' = told
  BY <1>2 DEF Unchanged, Transfers
<1>3. CASE m \in Message /\ m # Lost /\ m.type = "Start" /\ Tell(m) /\ DispatchStart(m)
  <2> SUFFICES ASSUME NEW t \in Transfers'
               PROVE  /\ transfers'[t].client = told'[t].client
                      /\ transfers'[t].outcome = "success" =>
                           told'[t].closed = "end" /\ transfers'[t].written = told'[t].sent
    OBVIOUS
  <2>1. t \in Transfers \/ t = Len(transfers) + 1
    BY <1>3, StartStep DEF Transfers
  <2>2. CASE t = Len(transfers) + 1
    <3>1. told'[t] = ToldNew(m.client) /\ transfers'[t] = NewTransfer(m.client, m)
      BY <1>3, <2>2, StartStep
    <3>2. /\ NewTransfer(m.client, m).client = m.client
          /\ NewTransfer(m.client, m).outcome = "open"
      BY Zenon DEF NewTransfer
    <3>3. QED
      BY <3>1, <3>2, ToldNewFields
  <2>3. CASE t \in Transfers
    <3>1. /\ transfers'[t] = transfers[t]
          /\ told'[t] = IF Hears(t, m.client) THEN Closed(told[t], "replaced") ELSE told[t]
      BY <1>3, <2>3, StartStep
    <3>2. told'[t].client = told[t].client
      BY <3>1, ClosedFields
    <3>3. Hears(t, m.client) => transfers[t].outcome # "success"
      BY <2>3 DEF Hears
    <3>4. QED
      BY <2>3, <3>1, <3>2, <3>3
  <2>4. QED
    BY <2>1, <2>2, <2>3
<1>4. CASE /\ m \in Message /\ m # Lost /\ m.type \in {"Data", "Abort", "End"} /\ Tell(m)
           /\ IF active[m.client] = NoTransfer THEN Unchanged
              ELSE DispatchToTransfer(m, active[m.client])
  <2> SUFFICES ASSUME NEW t \in Transfers'
               PROVE  /\ transfers'[t].client = told'[t].client
                      /\ transfers'[t].outcome = "success" =>
                           told'[t].closed = "end" /\ transfers'[t].written = told'[t].sent
    OBVIOUS
  <2>1. t \in Transfers
    BY <1>4, GivenStep DEF Transfers
  <2>2. CASE ~Hears(t, m.client)
    BY <1>4, <2>1, <2>2, GivenStep
  <2>3. CASE Hears(t, m.client)
    <3>1. /\ told'[t] = Given(t, m) /\ transfers[t].outcome # "success"
          /\ transfers'[t] = Pushed(transfers[t], m) \/ transfers'[t] = transfers[t]
      BY <1>4, <2>1, <2>3, GivenStep DEF Hears
    <3>2. /\ transfers'[t].client = transfers[t].client
          /\ transfers'[t].outcome = transfers[t].outcome
      BY <3>1, PushedFields
    <3>3. told'[t].client = told[t].client
      BY <1>4, <3>1, GivenFields
    <3>4. QED
      BY <2>1, <3>1, <3>2, <3>3
  <2>4. QED
    BY <2>2, <2>3
<1>5. QED
  BY <1>1, <1>2, <1>3, <1>4, DispatchCases

LEMMA SuccessStep ==
  ASSUME DataTypes, Occupied, FreshInv, RouteInv, QueuesInv, SuccessInv, [NextAny]_deliveryVars
  PROVE  SuccessInv'
<1>1. CASE UNCHANGED <<transfers, told>>
  BY <1>1 DEF SuccessInv, Transfers
<1>2. CASE UNCHANGED deliveryVars
  BY <1>1, <1>2 DEF deliveryVars, dispatchVars
<1>3. ASSUME NEW w \in Workers, WorkerReceive(w) \/ WorkerAcquire(w) \/ WorkerSignal(w)
      PROVE  SuccessInv'
  BY <1>1, <1>3 DEF WorkerReceive, WorkerAcquire, WorkerSignal, dispatchVars
<1>4. ASSUME NEW w \in Workers, ClientConnect(w) \/ ClientBlock(w) \/ ClientGivesUp(w)
      PROVE  SuccessInv'
  <2>1. /\ UNCHANGED dispatchVars
        /\ wkTransfer[w] \in Transfers /\ Mine(w) \in TransferRecords
    BY <1>4, ClientCases
  <2>2. PICK r \in TransferRecords :
          /\ transfers' = [transfers EXCEPT ![wkTransfer[w]] = r]
          /\ ClientBecomes(w, r)
    BY <1>4, ClientCases
  <2>3. /\ Len(transfers') = Len(transfers) /\ told' = told
        /\ \A u \in Transfers : transfers'[u] = IF u = wkTransfer[w] THEN r ELSE transfers[u]
    BY <2>1, <2>2, TransferExcept DEF DataTypes, dispatchVars
  <2>4. /\ IsOpen(wkTransfer[w]) /\ QueueOK(Mine(w), told[wkTransfer[w]])
        /\ told[wkTransfer[w]] \in ToldRecords
    BY <2>1, <2>2, Records DEF FreshInv, ClientBecomes, QueuesInv, Mine
  <2>5. /\ r.client = Mine(w).client
        /\ r.outcome = "success" =>
             told[wkTransfer[w]].closed = "end" /\ r.written = told[wkTransfer[w]].sent
    <3> DEFINE m == Mine(w)
    <3>1. m.outcome = "open"
      BY <2>4 DEF IsOpen, Mine
    <3>2. Read(m).client = m.client /\ Read(m).outcome = m.outcome
      BY DEF Read
    <3>3. m.queue # <<>> /\ Head(m.queue).type = "End" =>
            told[wkTransfer[w]].closed = "end" /\ WithPayload(m) = told[wkTransfer[w]].sent
      BY <2>1, <2>4, QueueLast
    <3> HIDE DEF m
    <3>4. \/ r = m \/ r = Read(m)
          \/ r.client = m.client /\ r.outcome \in {"dropped", "failed"}
          \/ /\ m.queue # <<>> /\ Head(m.queue).type = "End"
             /\ r.client = m.client /\ r.written = WithPayload(m)
      BY <2>2 DEF ClientBecomes, LeftAs, m
    <3>5. QED
      BY <3>1, <3>2, <3>3, <3>4 DEF m
  <2>6. QED
    BY <2>1, <2>3, <2>5 DEF SuccessInv, Transfers, Mine
<1>5. ASSUME NEW w \in Workers, WorkerDrop(w) PROVE SuccessInv'
  BY <1>5, DropStep DEF dispatchVars, SuccessInv
<1>6. QED
  BY <1>2, <1>3, <1>4, <1>5, DispatchSuccess DEF NextAny, Worker

\* All that a successful transfer needs of dispatch and the workers.
ServedInv ==
  /\ DataTypes /\ Occupied /\ OwnersInv /\ FreshInv
  /\ RouteInv /\ QueuesInv /\ SuccessInv

LEMMA ServedInit == Init => ServedInv
<1> SUFFICES ASSUME Init PROVE ServedInv
  OBVIOUS
<1>1. Transfers = {}
  BY DEF Init, Transfers
<1>2. RouteInv /\ QueuesInv /\ SuccessInv
  BY <1>1 DEF Init, RouteInv, QueuesInv, SuccessInv
<1>3. QED
  BY <1>2, TypeInit, OwnersInit DEF ServedInv

LEMMA ServedStep == ServedInv /\ [NextAny]_deliveryVars => ServedInv'
<1> SUFFICES ASSUME ServedInv, [NextAny]_deliveryVars PROVE ServedInv'
  OBVIOUS
<1> USE DEF ServedInv
<1>1. DataTypes' /\ Occupied' /\ OwnersInv' /\ FreshInv'
  BY TypeStep, OwnersStep
<1>2. QED
  BY <1>1, RouteStep, QueuesStep, SuccessStep

-----------------------------------------------------------------------------
(* Delivery implements Transfers *)

\* A transfer as Transfers has it.
One(r, h) ==
  [client |-> h.client, sent |-> h.sent, closed |-> h.closed,
   delivered |-> r.written, outcome |-> r.outcome]

LEMMA OneFields ==
  ASSUME NEW r, NEW h
  PROVE  /\ One(r, h).client = h.client /\ One(r, h).sent = h.sent
         /\ One(r, h).closed = h.closed
         /\ One(r, h).delivered = r.written /\ One(r, h).outcome = r.outcome
  BY DEF One

LEMMA SeenIs ==
  /\ Seen = [t \in Transfers |-> One(transfers[t], told[t])]
  /\ DOMAIN Seen = Transfers
  /\ \A t \in Transfers : Seen[t] = One(transfers[t], told[t])
  BY DEF Seen, One

LEMMA SeenPrimed ==
  /\ Seen' = [t \in Transfers' |-> One(transfers'[t], told'[t])]
  /\ DOMAIN Seen' = Transfers'
  /\ \A t \in Transfers' : Seen'[t] = One(transfers'[t], told'[t])
  BY DEF Seen, One

\* A step that changes nothing that Transfers has.
LEMMA SeenSame ==
  ASSUME Transfers' = Transfers,
         \A t \in Transfers : One(transfers'[t], told'[t]) = One(transfers[t], told[t])
  PROVE  Seen' = Seen
  BY SeenIs, SeenPrimed

\* A step that changes one transfer.
LEMMA SeenExcept ==
  ASSUME Transfers' = Transfers, NEW t \in Transfers,
         \A u \in Transfers : u # t => transfers'[u] = transfers[u] /\ told'[u] = told[u]
  PROVE  Seen' = [Seen EXCEPT ![t] = One(transfers'[t], told'[t])]
  BY SeenIs, SeenPrimed

LEMMA SeenLost ==
  ASSUME DataTypes, RouteInv, Tell(Lost), DispatchLost
  PROVE  Promise!Loss
<1>1. Transfers' = Transfers
  BY LostStep DEF Transfers
<1>2. ASSUME NEW t \in Transfers
      PROVE  Seen'[t] = IF Seen[t].closed = "no" THEN [Seen[t] EXCEPT !.closed = "loss"]
                        ELSE Seen[t]
  <2>1. Seen[t] = One(transfers[t], told[t]) /\ Seen'[t] = One(transfers'[t], told'[t])
    BY <1>1, SeenIs, SeenPrimed
  <2>2. CASE told[t].closed # "no"
    BY <2>1, <2>2, LostStep, OneFields
  <2>3. CASE told[t].closed = "no"
    <3>1. /\ transfers'[t].written = transfers[t].written
          /\ transfers'[t].outcome = transfers[t].outcome
          /\ told'[t] = Closed(told[t], "loss")
      BY <2>3, LostStep, PushedFields
    <3>2. Seen'[t] = [client |-> told[t].client, sent |-> told[t].sent, closed |-> "loss",
                      delivered |-> transfers[t].written, outcome |-> transfers[t].outcome]
      BY <2>1, <3>1, ClosedFields DEF One
    <3>3. [One(transfers[t], told[t]) EXCEPT !.closed = "loss"]
            = [client |-> told[t].client, sent |-> told[t].sent, closed |-> "loss",
               delivered |-> transfers[t].written, outcome |-> transfers[t].outcome]
      BY DEF One
    <3>4. QED
      BY <2>1, <2>3, <3>2, <3>3, OneFields
  <2>4. QED
    BY <2>2, <2>3
<1>3. Seen' = [t \in Transfers |-> IF Seen[t].closed = "no"
                                   THEN [Seen[t] EXCEPT !.closed = "loss"] ELSE Seen[t]]
  BY <1>1, <1>2, SeenPrimed
<1>4. QED
  BY <1>3, SeenIs DEF Promise!Loss, Promise!Gets

LEMMA AppendFunction ==
  ASSUME NEW S, NEW n \in Nat, NEW f \in [1 .. n -> S], NEW x \in S
  PROVE  Append(f, x) = [t \in 1 .. n + 1 |-> IF t = n + 1 THEN x ELSE f[t]]
<1>1. f \in Seq(S) /\ Len(f) = n
  OBVIOUS
<1>2. /\ Append(f, x) \in Seq(S) /\ Len(Append(f, x)) = n + 1
      /\ Append(f, x)[n + 1] = x
      /\ \A t \in 1 .. n : Append(f, x)[t] = f[t]
  BY <1>1, AppendProperties
<1> DEFINE g == Append(f, x)
<1>3. g \in Seq(S) /\ Len(g) = n + 1
      /\ \A t \in 1 .. n + 1 : g[t] = IF t = n + 1 THEN x ELSE f[t]
  BY <1>2
<1> HIDE DEF g
<1>4. g \in [1 .. n + 1 -> S]
  BY <1>3
<1>5. g = [t \in 1 .. n + 1 |-> IF t = n + 1 THEN x ELSE f[t]]
  BY <1>3, <1>4
<1>6. QED
  BY <1>5 DEF g

LEMMA SeenStart ==
  ASSUME DataTypes, NEW m \in Message, m # Lost, m.type = "Start", Tell(m), DispatchStart(m)
  PROVE  Promise!Start(m.client)
<1> DEFINE n == Len(transfers)
           old == [t \in DOMAIN Seen |->
                     IF Seen[t].closed = "no" /\ Seen[t].client = m.client
                     THEN [Seen[t] EXCEPT !.closed = "replaced"] ELSE Seen[t]]
           new == Promise!New(m.client)
<1>1. n \in Nat /\ Transfers = 1 .. n /\ Transfers' = 1 .. n + 1
  BY StartStep DEF Transfers
<1>2. ASSUME NEW t \in Transfers PROVE Seen'[t] = old[t]
  <2>1. t \in Transfers'
    BY <1>1
  <2>2. /\ Seen[t] = One(transfers[t], told[t]) /\ Seen'[t] = One(transfers[t], told'[t])
        /\ t \in DOMAIN Seen
    BY <2>1, StartStep, SeenIs, SeenPrimed
  <2>3. CASE ~Hears(t, m.client)
    BY <2>2, <2>3, StartStep, OneFields DEF Hears
  <2>4. CASE Hears(t, m.client)
    <3>1. told'[t] = Closed(told[t], "replaced")
      BY <2>4, StartStep
    <3>2. Seen'[t] = [client |-> told[t].client, sent |-> told[t].sent, closed |-> "replaced",
                      delivered |-> transfers[t].written, outcome |-> transfers[t].outcome]
      BY <2>2, <3>1, ClosedFields DEF One
    <3>3. [One(transfers[t], told[t]) EXCEPT !.closed = "replaced"]
            = [client |-> told[t].client, sent |-> told[t].sent, closed |-> "replaced",
               delivered |-> transfers[t].written, outcome |-> transfers[t].outcome]
      BY DEF One
    <3>4. QED
      BY <2>2, <2>4, <3>2, <3>3, OneFields DEF Hears
  <2>5. QED
    BY <2>3, <2>4
<1>3. Seen'[n + 1] = new
  <2>1. Seen'[n + 1] = One(transfers'[n + 1], told'[n + 1])
    BY <1>1, SeenPrimed
  <2>2. transfers'[n + 1] = NewTransfer(m.client, m) /\ told'[n + 1] = ToldNew(m.client)
    BY StartStep
  <2>3. /\ NewTransfer(m.client, m).written = <<>>
        /\ NewTransfer(m.client, m).outcome = "open"
    BY Zenon DEF NewTransfer
  <2>4. QED
    BY <2>1, <2>2, <2>3, ToldNewFields DEF One, Promise!New
<1>4. DOMAIN old = 1 .. n /\ DOMAIN Seen' = 1 .. n + 1
  BY <1>1, SeenIs, SeenPrimed
<1>5. Seen' = [t \in 1 .. n + 1 |-> Seen'[t]]
  BY SeenPrimed, <1>1
<1>6. old = [t \in 1 .. n |-> old[t]]
  BY <1>4
<1>7. Promise!Start(m.client) <=> Seen' = Append(old, new)
  BY DEF Promise!Start, Promise!Gets
<1> HIDE DEF n, old, new
<1>8. Append(old, new) = [t \in 1 .. n + 1 |-> IF t = n + 1 THEN new ELSE old[t]]
  <2> DEFINE S == {old[t] : t \in 1 .. n} \cup {new}
  <2>1. old \in [1 .. n -> S] /\ new \in S
    BY <1>6
  <2> HIDE DEF S
  <2>2. QED
    BY <1>1, <2>1, AppendFunction
<1>9. QED
  BY <1>1, <1>2, <1>3, <1>5, <1>7, <1>8

LEMMA SeenGiven ==
  ASSUME DataTypes, RouteInv, NEW m \in Message, m # Lost, m.n \in 0 .. MaxMessages - 1,
         m.type \in {"Data", "Abort", "End"}, Tell(m),
         IF active[m.client] = NoTransfer THEN Unchanged
         ELSE DispatchToTransfer(m, active[m.client])
  PROVE  Promise!Next \/ Seen' = Seen
<1>1. Transfers' = Transfers
  BY GivenStep DEF Transfers
<1>2. m.n \in 0 .. MaxMessages - 1 /\ m.n \in Nat
  OBVIOUS
<1>3. CASE \A t \in Transfers : ~Hears(t, m.client)
  BY <1>1, <1>3, GivenStep, SeenSame
<1>4. ASSUME NEW t \in Transfers, Hears(t, m.client)
      PROVE  Promise!Next
  <2> DEFINE r == transfers[t]
             h == told[t]
  <2>1. \A u \in Transfers : u # t => ~Hears(u, m.client)
    BY <1>4 DEF RouteInv, Hears
  <2>2. Seen' = [Seen EXCEPT ![t] = One(transfers'[t], told'[t])]
    BY <1>1, <2>1, GivenStep, SeenExcept
  <2>3. One(transfers'[t], told'[t]) =
          [client |-> h.client, sent |-> Given(t, m).sent, closed |-> Given(t, m).closed,
           delivered |-> r.written, outcome |-> r.outcome]
    <3>1. /\ told'[t] = Given(t, m) /\ transfers'[t].written = r.written
          /\ transfers'[t].outcome = r.outcome
      BY <1>4, GivenStep, PushedFields
    <3>2. QED
      BY <3>1, GivenFields DEF One
  <2>4. /\ Seen[t] = One(r, h) /\ t \in DOMAIN Seen
        /\ Seen[t].closed = "no" /\ Seen[t].sent = h.sent
        /\ Seen[t] = [client |-> h.client, sent |-> h.sent, closed |-> h.closed,
                      delivered |-> r.written, outcome |-> r.outcome]
    <3>1. Seen[t] = One(r, h) /\ t \in DOMAIN Seen /\ h.closed = "no"
      BY <1>4, SeenIs DEF Hears
    <3>2. QED
      BY <3>1, OneFields DEF One
  <2>5. CASE m.type = "Data"
    <3> DEFINE x == Append(h.sent, m.n)
    <3>1. One(transfers'[t], told'[t]) = [Seen[t] EXCEPT !.sent = x]
      <4>1. One(transfers'[t], told'[t]) =
              [client |-> h.client, sent |-> x, closed |-> h.closed,
               delivered |-> r.written, outcome |-> r.outcome]
        BY <1>4, <2>3, <2>5, GivenFields DEF Hears
      <4> HIDE DEF x
      <4>2. QED
        BY <2>4, <4>1
    <3>2. Seen' = [Seen EXCEPT ![t].sent = x]
      BY <2>2, <3>1
    <3>3. Promise!Data(t, m.n)
      BY <2>4, <3>2 DEF Promise!Data, Promise!Gets
    <3>4. QED
      BY <1>2, <2>4, <3>3 DEF Promise!Next
  <2>6. CASE m.type = "End"
    <3> DEFINE x == Append(h.sent, m.n)
    <3>1. One(transfers'[t], told'[t]) = [[Seen[t] EXCEPT !.sent = x] EXCEPT !.closed = "end"]
      <4> DEFINE e == [Seen[t] EXCEPT !.sent = x]
      <4>1. One(transfers'[t], told'[t]) =
              [client |-> h.client, sent |-> x, closed |-> "end",
               delivered |-> r.written, outcome |-> r.outcome]
        BY <2>3, <2>6, GivenFields
      <4> HIDE DEF x
      <4>2. e = [client |-> h.client, sent |-> x, closed |-> h.closed,
                 delivered |-> r.written, outcome |-> r.outcome]
        BY <2>4
      <4> HIDE DEF e
      <4>3. [e EXCEPT !.closed = "end"] =
              [client |-> h.client, sent |-> x, closed |-> "end",
               delivered |-> r.written, outcome |-> r.outcome]
        BY <4>2
      <4>4. QED
        BY <4>1, <4>3 DEF e
    <3>2. Seen' = [Seen EXCEPT ![t].sent = x, ![t].closed = "end"]
      BY <2>2, <2>4, <3>1
    <3>3. Promise!End(t, m.n)
      BY <2>4, <3>2 DEF Promise!End, Promise!Gets
    <3>4. QED
      BY <1>2, <2>4, <3>3 DEF Promise!Next
  <2>7. CASE m.type = "Abort"
    <3>1. One(transfers'[t], told'[t]) = [Seen[t] EXCEPT !.closed = "abort"]
      <4>1. One(transfers'[t], told'[t]) =
              [client |-> h.client, sent |-> h.sent, closed |-> "abort",
               delivered |-> r.written, outcome |-> r.outcome]
        BY <2>3, <2>7, GivenFields
      <4>2. QED
        BY <2>4, <4>1
    <3>2. Seen' = [Seen EXCEPT ![t].closed = "abort"]
      BY <2>2, <3>1
    <3>3. Promise!Abort(t)
      BY <2>4, <3>2 DEF Promise!Abort, Promise!Gets
    <3>4. QED
      BY <2>4, <3>3 DEF Promise!Next
  <2>8. QED
    BY <2>5, <2>6, <2>7
<1>5. QED
  BY <1>3, <1>4

\* The first payloads, one more than are written.
LEMMA OneMoreIs ==
  ASSUME NEW r \in TransferRecords, NEW h \in ToldRecords, QueueOK(r, h), r.queue # <<>>,
         Head(r.queue).type \in {"Data", "End"}
  PROVE  WithPayload(r) = SubSeq(h.sent, 1, Len(r.written) + 1)
<1> DEFINE d == Done(r, h)
           p == SubSeq(h.sent, 1, d)
<1>1. /\ d \in 1 .. Len(h.sent) /\ Len(r.written) = d - 1 /\ Len(WithPayload(r)) = d
      /\ \A k \in 1 .. d : WithPayload(r)[k] = h.sent[k]
      /\ WithPayload(r) \in Seq(Nat) /\ h.sent \in Seq(Nat) /\ Len(h.sent) \in Nat
  BY QueuePayload, ReadMeans, RecordTypes
<1> HIDE DEF d
<1>2. p \in Seq(Nat) /\ Len(p) = d /\ \A k \in 1 .. d : p[k] = h.sent[k]
  BY <1>1, SubSeqProperties, SMTT(30)
<1> HIDE DEF p
<1>3. WithPayload(r) = p
  <2>1. \A k \in 1 .. Len(WithPayload(r)) : WithPayload(r)[k] = p[k]
    BY <1>1, <1>2
  <2>2. Len(WithPayload(r)) = Len(p)
    BY <1>1, <1>2
  <2>3. QED
    BY <1>1, <1>2, <2>1, <2>2, SeqEqual, Zenon
<1>4. Len(r.written) + 1 = d
  BY <1>1
<1>5. QED
  BY <1>3, <1>4 DEF p

LEMMA SeenClient ==
  ASSUME DataTypes, Occupied, FreshInv, QueuesInv, NEW w \in Workers,
         ClientConnect(w) \/ ClientBlock(w) \/ ClientGivesUp(w)
  PROVE  Promise!Next \/ Seen' = Seen
<1> DEFINE t == wkTransfer[w]
           m == Mine(w)
           h == told[t]
<1>1. /\ told' = told /\ t \in Transfers /\ m \in TransferRecords
      /\ Transfers' = Transfers /\ h \in ToldRecords
  BY ClientCases, Records, TransferExcept DEF DataTypes, Transfers, dispatchVars
<1>2. PICK r \in TransferRecords :
        /\ transfers' = [transfers EXCEPT ![t] = r]
        /\ ClientBecomes(w, r)
  BY ClientCases
<1>3. \A u \in Transfers : transfers'[u] = IF u = t THEN r ELSE transfers[u]
  BY <1>1, <1>2, TransferExcept DEF DataTypes
<1>4. Seen' = [Seen EXCEPT ![t] = One(r, h)]
  BY <1>1, <1>3, SeenExcept
<1>5. /\ IsOpen(t) /\ QueueOK(m, h) /\ m.outcome = "open"
      /\ wkPc[w] = "connect" => m.written = <<>>
  BY <1>1, <1>2 DEF FreshInv, ClientBecomes, QueuesInv, IsOpen, Mine
<1>6. /\ Seen[t] = One(m, h) /\ t \in DOMAIN Seen
      /\ Seen[t].sent = h.sent /\ Seen[t].closed = h.closed
      /\ Seen[t].delivered = m.written /\ Seen[t].outcome = "open"
      /\ Seen[t] = [client |-> h.client, sent |-> h.sent, closed |-> h.closed,
                    delivered |-> m.written, outcome |-> m.outcome]
  <2>1. Seen[t] = One(m, h) /\ t \in DOMAIN Seen
    BY <1>1, SeenIs DEF Mine
  <2>2. QED
    BY <1>5, <2>1, OneFields DEF One
<1> HIDE DEF t, m, h
<1>7. ASSUME r.written = m.written, r.outcome = "open" PROVE Seen' = Seen
  BY <1>1, <1>4, <1>5, <1>6, <1>7, SeenIs DEF One
<1>8. ASSUME LeftAs(m, r, "dropped", m.written) PROVE Promise!Drop(t)
  <2>1. One(r, h) = [client |-> h.client, sent |-> h.sent, closed |-> h.closed,
                     delivered |-> m.written, outcome |-> "dropped"]
    BY <1>8 DEF One, LeftAs
  <2>2. One(r, h) = [Seen[t] EXCEPT !.outcome = "dropped"]
    BY <1>6, <2>1
  <2>3. Seen' = [Seen EXCEPT ![t].outcome = "dropped"]
    BY <1>4, <2>2
  <2>4. QED
    BY <1>6, <2>3 DEF Promise!Drop, Promise!IsOpen
<1>9. ASSUME m.queue # <<>>, Head(m.queue).type = "Abort", LeftAs(m, r, "failed", WithPayload(m))
      PROVE  Promise!Fail(t)
  <2>1. h.closed \in {"abort", "loss"} /\ WithPayload(m) = m.written /\ m.written = h.sent
    BY <1>1, <1>5, <1>9, QueueLast
  <2>2. One(r, h) = [client |-> h.client, sent |-> h.sent, closed |-> h.closed,
                     delivered |-> m.written, outcome |-> "failed"]
    BY <1>9, <2>1 DEF One, LeftAs
  <2>3. One(r, h) = [Seen[t] EXCEPT !.outcome = "failed"]
    BY <1>6, <2>2
  <2>4. Seen' = [Seen EXCEPT ![t].outcome = "failed"]
    BY <1>4, <2>3
  <2>5. QED
    BY <1>6, <2>1, <2>4 DEF Promise!Fail, Promise!IsOpen
<1>10. ASSUME m.queue # <<>>, Head(m.queue).type = "End", LeftAs(m, r, "success", WithPayload(m))
       PROVE  Promise!Succeed(t)
  <2> DEFINE x == WithPayload(m)
  <2>1. h.closed = "end" /\ x = h.sent /\ x = SubSeq(h.sent, 1, Len(m.written) + 1)
    BY <1>1, <1>5, <1>10, QueueLast, OneMoreIs
  <2>2. One(r, h) = [client |-> h.client, sent |-> h.sent, closed |-> h.closed,
                     delivered |-> x, outcome |-> "success"]
    BY <1>10 DEF One, LeftAs
  <2> HIDE DEF x
  <2>3. One(r, h) = [[Seen[t] EXCEPT !.delivered = x] EXCEPT !.outcome = "success"]
    <3> DEFINE e == [Seen[t] EXCEPT !.delivered = x]
    <3>1. e = [client |-> h.client, sent |-> h.sent, closed |-> h.closed,
               delivered |-> x, outcome |-> m.outcome]
      BY <1>6
    <3> HIDE DEF e
    <3>2. One(r, h) = [e EXCEPT !.outcome = "success"]
      BY <2>2, <3>1
    <3>3. QED
      BY <3>2 DEF e
  <2>4. Seen' = [Seen EXCEPT ![t].delivered = x, ![t].outcome = "success"]
    BY <1>4, <1>6, <2>3
  <2>5. Promise!OneMore(t) = x /\ Promise!OneMore(t) = Seen[t].sent
    BY <1>6, <2>1 DEF Promise!OneMore
  <2>6. QED
    BY <1>6, <2>1, <2>4, <2>5 DEF Promise!Succeed, Promise!IsOpen
<1>11. ASSUME m.queue # <<>>, Head(m.queue).type = "Data", r = Read(m)
       PROVE  Promise!Deliver(t)
  <2> DEFINE x == WithPayload(m)
  <2>1. /\ x = SubSeq(h.sent, 1, Len(m.written) + 1)
        /\ Len(m.written) < Len(h.sent)
    <3>1. Done(m, h) \in 1 .. Len(h.sent) /\ Len(m.written) = Done(m, h) - 1
          /\ Len(h.sent) \in Nat
      BY <1>1, <1>5, <1>11, QueuePayload, RecordTypes
    <3>2. QED
      BY <1>1, <1>5, <1>11, <3>1, OneMoreIs
  <2>2. One(r, h) = [client |-> h.client, sent |-> h.sent, closed |-> h.closed,
                     delivered |-> x, outcome |-> m.outcome]
    BY <1>11 DEF One, Read
  <2> HIDE DEF x
  <2>3. One(r, h) = [Seen[t] EXCEPT !.delivered = x]
    BY <1>6, <2>2
  <2>4. Seen' = [Seen EXCEPT ![t].delivered = x]
    BY <1>4, <2>3
  <2>5. Promise!OneMore(t) = x
    BY <1>6, <2>1 DEF Promise!OneMore
  <2>6. QED
    BY <1>6, <2>1, <2>4, <2>5 DEF Promise!Deliver, Promise!IsOpen
<1>12. Promise!Drop(t) \/ Promise!Fail(t) \/ Promise!Succeed(t) \/ Promise!Deliver(t)
         => Promise!Next
  BY <1>6 DEF Promise!Next
<1>13. ASSUME m.queue # <<>>, Head(m.queue).type = "Start", r = Read(m) PROVE Seen' = Seen
  <2>1. WithPayload(m) = m.written
    BY <1>13 DEF WithPayload, HasPayload
  <2>2. r.written = m.written /\ r.outcome = "open"
    BY <1>5, <1>13, <2>1 DEF Read
  <2>3. QED
    BY <1>7, <2>2
<1>14. QED
  BY <1>2, <1>5, <1>7, <1>8, <1>9, <1>10, <1>11, <1>12, <1>13 DEF ClientBecomes, m

\* Every step of Delivery is a step of Transfers, or none.
LEMMA RefinementStep ==
  ASSUME DeliveryInv, DeliveryInv', [Next]_deliveryVars
  PROVE  [Promise!Next]_Seen
<1> USE DEF DeliveryInv, PoolInv
<1>1. CASE UNCHANGED <<transfers, told>>
  BY <1>1 DEF Seen, Transfers
<1>2. CASE UNCHANGED deliveryVars
  BY <1>1, <1>2 DEF deliveryVars, dispatchVars
<1>3. ASSUME NEW w \in Workers, WorkerReceive(w) \/ WorkerAcquire(w) \/ WorkerSignal(w)
      PROVE  [Promise!Next]_Seen
  BY <1>1, <1>3 DEF WorkerReceive, WorkerAcquire, WorkerSignal, dispatchVars
<1>4. ASSUME NEW w \in Workers, ClientConnect(w) \/ ClientBlock(w) \/ ClientGivesUp(w)
      PROVE  [Promise!Next]_Seen
  BY <1>4, SeenClient
<1>5. ASSUME NEW m \in NextMessages, Dispatch(m), dispatched < MaxMessages
      PROVE  [Promise!Next]_Seen
  <2>1. CASE Tell(Lost) /\ DispatchLost
    BY <2>1, SeenLost DEF Promise!Next
  <2>2. CASE Unchanged /\ told' = told
    BY <1>1, <2>2 DEF Unchanged
  <2>3. CASE m \in Message /\ m # Lost /\ m.type = "Start" /\ Tell(m) /\ DispatchStart(m)
    <3>1. Promise!Start(m.client) /\ m.client \in ClientIds
      BY <2>3, SeenStart, MessageFields
    <3>2. QED
      BY <3>1 DEF Promise!Next
  <2>4. CASE /\ m \in Message /\ m # Lost /\ m.type \in {"Data", "Abort", "End"} /\ Tell(m)
             /\ IF active[m.client] = NoTransfer THEN Unchanged
                ELSE DispatchToTransfer(m, active[m.client])
    <3>1. m.n \in 0 .. MaxMessages - 1
      BY <1>5, <2>4, NextMessage
    <3>2. QED
      BY <2>4, <3>1, SeenGiven
  <2>5. m \in Messages
    BY <1>5, NextMessage DEF Messages
  <2>6. QED
    BY <1>5, <2>1, <2>2, <2>3, <2>4, <2>5, DispatchCases
<1>6. ASSUME NEW w \in Workers, WorkerDrop(w) PROVE [Promise!Next]_Seen
  <2>1. \A t \in Transfers : One(transfers'[t], told'[t]) = One(transfers[t], told[t])
    BY <1>6, DropStep DEF One, dispatchVars
  <2>2. QED
    BY <1>6, <2>1, DropStep, SeenSame
<1>7. QED
  BY <1>2, <1>3, <1>4, <1>5, <1>6 DEF Next, Worker

\* Dispatch and the client workers implement Transfers: whatever the order of
\* blocks, losses, reused client ids and failing clients, the client of a transfer
\* is given a prefix of its own payloads, and a success only after the last.
THEOREM DeliveryImplementsTransfers == Spec => ImplementsTransfers
<1>1. Init => Promise!Init
  BY DEF Init, Promise!Init, Seen, Transfers
<1>2. DeliveryInv /\ DeliveryInv' /\ [Next]_deliveryVars => [Promise!Next]_Seen
  BY RefinementStep
<1>3. QED
  BY <1>1, <1>2, DeliveryInvariant, PTL DEF Spec, ImplementsTransfers, Promise!Spec

=============================================================================
