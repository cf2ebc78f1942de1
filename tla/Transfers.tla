------------------------------ MODULE Transfers ------------------------------
(***************************************************************************)
(* What the receiving half promises to the clients on its side, without    *)
(* the channels, workers, maps of client ids and timeouts that it is made  *)
(* of.  A transfer is started, gets payloads, and is closed by its End, by *)
(* an Abort, by the loss of a block, or by another Start of its client id. *)
(* Its client is given a growing prefix of the payloads, and is told of a  *)
(* success only when it has been given all of them up to the End.          *)
(*                                                                         *)
(* Delivery is shown to implement this.                                    *)
(***************************************************************************)
EXTENDS Naturals, Sequences

CONSTANTS ClientIds, Payloads

VARIABLE transfers  \* every transfer so far

New(c) ==
  [client |-> c, sent |-> <<>>, closed |-> "no", delivered |-> <<>>, outcome |-> "open"]

Init == transfers = <<>>

IsOpen(t) == transfers[t].outcome = "open"

Gets(t) == transfers[t].closed = "no"

-----------------------------------------------------------------------------
(* What comes from the link *)

Start(c) ==
  transfers' = Append([t \in DOMAIN transfers |->
                         IF Gets(t) /\ transfers[t].client = c
                         THEN [transfers[t] EXCEPT !.closed = "replaced"] ELSE transfers[t]],
                      New(c))

Data(t, x) ==
  /\ Gets(t)
  /\ transfers' = [transfers EXCEPT ![t].sent = Append(@, x)]

End(t, x) ==
  /\ Gets(t)
  /\ transfers' = [transfers EXCEPT ![t].sent = Append(@, x), ![t].closed = "end"]

Abort(t) ==
  /\ Gets(t)
  /\ transfers' = [transfers EXCEPT ![t].closed = "abort"]

\* A block is lost: it may have been of any transfer.
Loss ==
  transfers' = [t \in DOMAIN transfers |->
                  IF Gets(t) THEN [transfers[t] EXCEPT !.closed = "loss"] ELSE transfers[t]]

-----------------------------------------------------------------------------
(* What the client sees *)

\* The first payloads that were sent, one more than are delivered.
OneMore(t) == SubSeq(transfers[t].sent, 1, Len(transfers[t].delivered) + 1)

Deliver(t) ==
  /\ IsOpen(t)
  /\ Len(transfers[t].delivered) < Len(transfers[t].sent)
  /\ transfers' = [transfers EXCEPT ![t].delivered = OneMore(t)]

\* With the last payload, which is in the End.
Succeed(t) ==
  /\ IsOpen(t) /\ transfers[t].closed = "end"
  /\ OneMore(t) = transfers[t].sent
  /\ transfers' = [transfers EXCEPT ![t].delivered = OneMore(t), ![t].outcome = "success"]

Fail(t) ==
  /\ IsOpen(t) /\ transfers[t].closed \in {"abort", "loss"}
  /\ transfers[t].delivered = transfers[t].sent
  /\ transfers' = [transfers EXCEPT ![t].outcome = "failed"]

\* The connection breaks, or nothing comes any more.
Drop(t) ==
  /\ IsOpen(t)
  /\ transfers' = [transfers EXCEPT ![t].outcome = "dropped"]

Next ==
  \/ \E c \in ClientIds : Start(c)
  \/ Loss
  \/ \E t \in DOMAIN transfers :
       \/ \E x \in Payloads : Data(t, x) \/ End(t, x)
       \/ Abort(t) \/ Deliver(t) \/ Succeed(t) \/ Fail(t) \/ Drop(t)

Spec == Init /\ [][Next]_transfers

=============================================================================
