------------------------------ MODULE Delivery ------------------------------
(***************************************************************************)
(* The last part of the receiving half: the dispatch worker                *)
(* (receive/dispatch.rs) routes the decoded blocks to the transfers they   *)
(* belong to, and a pool of client workers (receive/clients.rs, client.rs) *)
(* writes each transfer to a client connection of its own.                 *)
(*                                                                         *)
(* A transfer is what one Start block opens: a channel, a connection, an   *)
(* outcome.  Client ids come from the link and may be used again (the      *)
(* sender counts from 0 after a restart), so transfers are numbered here   *)
(* in the order of their Start blocks.  This module lets any block, or the *)
(* report of a loss, come from the decoders; Receiver connects them.       *)
(***************************************************************************)
EXTENDS Integers, Sequences, FiniteSets

CONSTANTS ClientIds,      \* the client ids that blocks carry
          Workers,        \* the client workers (config.max_clients)
          Lost,           \* the None of to_dispatch: synchronization lost
          NoTransfer,     \* no transfer
          AbortTimeout,   \* TRUE if config.abort_timeout is set
          ClientsFail,    \* TRUE if connecting or writing to a client may fail
          MaxMessages     \* bound: messages dispatched in a run

ASSUME DeliveryAssumption ==
  /\ IsFiniteSet(Workers) /\ Workers # {}
  /\ AbortTimeout \in BOOLEAN /\ ClientsFail \in BOOLEAN
  /\ MaxMessages \in Nat
  /\ NoTransfer \notin Nat

BlockTypes == {"Heartbeat", "Start", "Data", "Abort", "End"}

\* `n' stands for the payload: the position of the block among the messages, or
\* -1 for a block without one.  The Abort of a loss is made by dispatch.
Blocks == [type : BlockTypes, client : ClientIds, n : Nat \cup {-1}]

VARIABLES
  active,     \* active_transfers: the transfer of a client id
  ended,      \* ended_transfers
  transfers,  \* every transfer so far: its client id, its channel, ...
  toClients,  \* channel to the client workers
  permits,    \* the semaphore multiplex_control
  wkPc,       \* client worker: "recv", "wait", "connect", "write", "signal" or "drop"
  wkTransfer, \*   the transfer it serves
  dispatched, \* how many messages were dispatched
  told        \* history: what the messages said of each transfer

dispatchVars == <<active, ended, dispatched, told>>
workerVars   == <<permits, wkPc, wkTransfer>>
deliveryVars == <<dispatchVars, transfers, toClients, workerVars>>

\* outcome: "open" until the worker is through with the transfer, then
\* "success" (client_end with true), "failed" (client_end with false) or
\* "dropped" (the worker returned an error and client_end was not called).
NewTransfer(c, b) ==
  [client |-> c, queue |-> <<b>>, written |-> <<>>, outcome |-> "open"]

Init ==
  /\ active = [c \in ClientIds |-> NoTransfer]
  /\ ended = [c \in ClientIds |-> NoTransfer]
  /\ transfers = <<>> /\ toClients = <<>>
  /\ permits = Cardinality(Workers)
  /\ wkPc = [w \in Workers |-> "recv"]
  /\ wkTransfer = [w \in Workers |-> NoTransfer]
  /\ dispatched = 0 /\ told = <<>>

IsOpen(t) == transfers[t].outcome = "open"

\* The receiving end of the channel of t exists: until its worker drops it, some time
\* after client::start has returned.
HasReceiver(t) == IsOpen(t) \/ \E w \in Workers : wkTransfer[w] = t

-----------------------------------------------------------------------------
(* The dispatch worker.  Its channels are unbounded: it never waits, and    *)
(* handles a message in one step as far as the client workers can tell.     *)

\* Appends b to the channel of transfer t, whose receiving end exists.
Push(ts, t, b) == [ts EXCEPT ![t].queue = Append(@, b)]

Unchanged == UNCHANGED <<active, ended, transfers, toClients>>

\* Mutant: the loss is logged, the transfers go on.
DispatchLostIgnored == UNCHANGED <<active, ended, transfers, toClients>>

\* A loss: every active transfer gets an Abort and is forgotten.
DispatchLost ==
  /\ transfers' = [t \in DOMAIN transfers |->
       IF \E c \in ClientIds : active[c] = t /\ HasReceiver(t)
       THEN [transfers[t] EXCEPT !.queue =
               Append(@, [type |-> "Abort", client |-> transfers[t].client, n |-> -1])]
       ELSE transfers[t]]
  /\ active' = [c \in ClientIds |-> NoTransfer]
  /\ UNCHANGED <<ended, toClients>>

\* Mutant: an entry of active_transfers is not replaced.
DispatchStartKeeps(b) ==
  /\ transfers' = Append(transfers, NewTransfer(b.client, b))
  /\ active' = [active EXCEPT ![b.client] = IF @ = NoTransfer THEN Len(transfers) + 1 ELSE @]
  /\ toClients' = Append(toClients, Len(transfers) + 1)
  /\ UNCHANGED ended

\* A Start: a new channel, queued for the client workers, replaces the transfer
\* that the client id had.  The Start block is sent into the channel after that;
\* should the worker have dropped it by then, the next block finds out as well.
DispatchStart(b) ==
  /\ transfers' = Append(transfers, NewTransfer(b.client, b))
  /\ active' = [active EXCEPT ![b.client] = Len(transfers) + 1]
  /\ toClients' = Append(toClients, Len(transfers) + 1)
  /\ UNCHANGED ended

\* The ended transfers whose channel is not empty.
Retained(ts) ==
  [c \in ClientIds |->
     IF ended[c] # NoTransfer /\ ts[ended[c]].queue # <<>> THEN ended[c] ELSE NoTransfer]

\* Another block of an active transfer; End and Abort move it to the ended ones.
DispatchToTransfer(b, t) ==
  IF HasReceiver(t)
  THEN /\ transfers' = Push(transfers, t, b)
       /\ IF b.type \in {"End", "Abort"}
          THEN /\ active' = [active EXCEPT ![b.client] = NoTransfer]
               /\ ended' = [Retained(transfers') EXCEPT ![b.client] = t]
          ELSE UNCHANGED <<active, ended>>
       /\ UNCHANGED toClients
  ELSE \* the channel was dropped: the send fails
       /\ active' = [active EXCEPT ![b.client] = NoTransfer]
       /\ UNCHANGED <<ended, transfers, toClients>>

\* History: the transfers in ts that were not closed yet are, in this way.
Close(ts, how) ==
  [t \in DOMAIN told |-> IF t \in ts /\ told[t].closed = "no"
                         THEN [told[t] EXCEPT !.closed = how] ELSE told[t]]

\* History: message m, by what it says alone.
Tell(m) ==
  LET mine == {t \in DOMAIN told : m # Lost /\ told[t].client = m.client}
      given == [t \in DOMAIN told |->
                  IF t \in mine /\ told[t].closed = "no"
                  THEN [told[t] EXCEPT !.sent = Append(@, m.n)] ELSE told[t]]
  IN  told' = IF m = Lost THEN Close(DOMAIN told, "loss")
              ELSE CASE m.type = "Start" -> Append(Close(mine, "replaced"),
                                               [client |-> m.client, sent |-> <<>>, closed |-> "no"])
                     [] m.type = "Data"  -> given
                     [] m.type = "Abort" -> Close(mine, "abort")
                     [] m.type = "End"   -> [t \in DOMAIN told |->
                          [given[t] EXCEPT !.closed = Close(mine, "end")[t].closed]]
                     [] OTHER -> told

Dispatch(m) ==
  /\ dispatched' = dispatched + 1
  /\ Tell(m)
  /\ \/ m = Lost /\ DispatchLost
     \/ m # Lost /\ m.type = "Heartbeat" /\ Unchanged
     \/ m # Lost /\ m.type = "Start" /\ DispatchStart(m)
     \/ /\ m # Lost /\ m.type \in {"Data", "End", "Abort"}
        /\ IF active[m.client] = NoTransfer THEN Unchanged
           ELSE DispatchToTransfer(m, active[m.client])
  /\ UNCHANGED workerVars

-----------------------------------------------------------------------------
(* A client worker *)

Goto(w, pc) == wkPc' = [wkPc EXCEPT ![w] = pc]

\* Mutant: the transfer stays in the channel.
TakenOnlySeen == toClients

Taken == Tail(toClients)

WorkerReceive(w) ==
  /\ wkPc[w] = "recv"
  /\ toClients # <<>>
  /\ wkTransfer' = [wkTransfer EXCEPT ![w] = Head(toClients)]
  /\ toClients' = Taken
  /\ Goto(w, "wait")
  /\ UNCHANGED <<permits, transfers, dispatchVars>>

WorkerAcquire(w) ==
  /\ wkPc[w] = "wait"
  /\ permits > 0
  /\ permits' = permits - 1
  /\ Goto(w, "connect")
  /\ UNCHANGED <<wkTransfer, transfers, toClients, dispatchVars>>

\* client::start returns; `rest' is what it leaves in the channel.
Leave(w, outcome, rest, written) ==
  /\ transfers' = [transfers EXCEPT ![wkTransfer[w]] =
                     [@ EXCEPT !.outcome = outcome, !.queue = rest, !.written = written]]
  /\ Goto(w, "signal")

Mine(w) == transfers[wkTransfer[w]]

\* client_new, which may fail to connect.
ClientConnect(w) ==
  /\ wkPc[w] = "connect"
  /\ \/ Goto(w, "write") /\ UNCHANGED transfers
     \/ ClientsFail /\ Leave(w, "dropped", Mine(w).queue, <<>>)
  /\ UNCHANGED <<permits, wkTransfer, toClients, dispatchVars>>

\* Mutant: only Data blocks have a payload, as the protocol is documented.
HasPayloadDataOnly(b) == b.type = "Data" /\ b.n # -1

HasPayload(b) == b.type \in {"Data", "End"} /\ b.n # -1

\* One block of the channel: its payload is written, and Abort or End ends the
\* transfer.  An error of the client connection drops it.
ClientBlock(w) ==
  /\ wkPc[w] = "write"
  /\ Mine(w).queue # <<>>
  /\ LET b == Head(Mine(w).queue)
         written == IF HasPayload(b) THEN Append(Mine(w).written, b.n) ELSE Mine(w).written
         rest == Tail(Mine(w).queue)
     IN \/ b.type = "Abort" /\ Leave(w, "failed", rest, written)
        \/ b.type = "End" /\ Leave(w, "success", rest, written)
        \/ /\ b.type \in {"Start", "Data"}
           /\ transfers' = [transfers EXCEPT ![wkTransfer[w]] =
                              [Mine(w) EXCEPT !.queue = rest, !.written = written]]
           /\ UNCHANGED wkPc
        \/ /\ ClientsFail /\ b.type # "Start"
           /\ Leave(w, "dropped", rest, Mine(w).written)
  /\ UNCHANGED <<permits, wkTransfer, toClients, dispatchVars>>

\* dispatch.rs holds the sending end of the channel of t.
HasSender(t) == \E c \in ClientIds : active[c] = t \/ ended[c] = t

\* Mutant: abort_timeout is not used.
NothingComesAlone(w) == Mine(w).queue = <<>> /\ ~HasSender(wkTransfer[w])

\* Nothing came for abort_timeout, or nothing can come any more.
NothingComes(w) == Mine(w).queue = <<>> /\ (AbortTimeout \/ ~HasSender(wkTransfer[w]))

ClientGivesUp(w) ==
  /\ wkPc[w] = "write"
  /\ NothingComes(w)
  /\ Leave(w, "dropped", <<>>, Mine(w).written)
  /\ UNCHANGED <<permits, wkTransfer, toClients, dispatchVars>>

\* Mutants: client::start has signalled as well; nobody signals.
SignalledTwice == permits + 2
SignalledNever == permits

Signalled == permits + 1

WorkerSignal(w) ==
  /\ wkPc[w] = "signal"
  /\ permits' = Signalled
  /\ Goto(w, "drop")
  /\ UNCHANGED <<wkTransfer, transfers, toClients, dispatchVars>>

\* The end of the loop iteration: the worker's end of the channel is dropped, with
\* what is in it.
WorkerDrop(w) ==
  /\ wkPc[w] = "drop"
  /\ transfers' = [transfers EXCEPT ![wkTransfer[w]].queue = <<>>]
  /\ wkTransfer' = [wkTransfer EXCEPT ![w] = NoTransfer]
  /\ Goto(w, "recv")
  /\ UNCHANGED <<permits, toClients, dispatchVars>>

-----------------------------------------------------------------------------
Worker(w) ==
  \/ WorkerReceive(w) \/ WorkerAcquire(w) \/ ClientConnect(w)
  \/ ClientBlock(w) \/ ClientGivesUp(w) \/ WorkerSignal(w) \/ WorkerDrop(w)

\* The n-th message: its payload is called n.
NextMessages ==
  {Lost} \cup [type : BlockTypes, client : ClientIds, n : {dispatched}]

Next ==
  \/ dispatched < MaxMessages /\ \E m \in NextMessages : Dispatch(m)
  \/ \E w \in Workers : Worker(w)

Spec == Init /\ [][Next]_deliveryVars

\* The workers run; messages come when the link brings them.
FairSpec == Spec /\ \A w \in Workers : WF_deliveryVars(Worker(w))

-----------------------------------------------------------------------------
(* Properties *)

Transfers == 1 .. Len(transfers)

TypeOK ==
  /\ active \in [ClientIds -> Transfers \cup {NoTransfer}]
  /\ ended \in [ClientIds -> Transfers \cup {NoTransfer}]
  /\ transfers \in Seq([client : ClientIds, queue : Seq(Blocks), written : Seq(Nat),
                        outcome : {"open", "success", "failed", "dropped"}])
  /\ toClients \in Seq(Transfers)
  /\ permits \in 0 .. Cardinality(Workers)
  /\ wkPc \in [Workers -> {"recv", "wait", "connect", "write", "signal", "drop"}]
  /\ wkTransfer \in [Workers -> Transfers \cup {NoTransfer}]
  /\ dispatched \in Nat /\ DOMAIN told = Transfers

\* There are as many permits as client workers, so a worker that has a transfer
\* never waits for the semaphore, whatever way the transfers before it ended.
NeverWaitsForPermit == \A w \in Workers : wkPc[w] = "wait" => permits > 0

\* The transfers as the messages and the clients see them.
Seen ==
  [t \in Transfers |->
     [client |-> told[t].client, sent |-> told[t].sent, closed |-> told[t].closed,
      delivered |-> transfers[t].written, outcome |-> transfers[t].outcome]]

Promise == INSTANCE Transfers WITH transfers <- Seen, Payloads <- 0 .. (MaxMessages - 1)

\* Delivery implements Transfers.  A client only gets the payloads of its own
\* transfer, in order and without a hole, and a success only if the End came with
\* no loss, no Abort and no other Start before it, and all was written: however
\* concurrent transfers, client ids used again, losses and failing clients
\* interleave with the two kinds of workers.
ImplementsTransfers == Promise!Spec

\* No two workers serve the same transfer, and one that has ended is never
\* served again.
OneWorkerEach ==
  /\ \A v, w \in Workers : wkTransfer[v] # NoTransfer /\ wkTransfer[v] = wkTransfer[w] => v = w
  /\ \A w \in Workers : wkTransfer[w] # NoTransfer =>
       /\ ~ \E i \in 1 .. Len(toClients) : toClients[i] = wkTransfer[w]
       /\ wkPc[w] \in {"signal", "drop"} <=> ~IsOpen(wkTransfer[w])

\* With an abort timeout every transfer that was started comes to an end, so a
\* lost End never keeps a worker or a connection for ever.
TransfersEnd ==
  \A t \in 1 .. MaxMessages :
    (t \in Transfers) ~> (t \in Transfers /\ ~IsOpen(t))

=============================================================================
