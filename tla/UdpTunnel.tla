------------------------------ MODULE UdpTunnel ------------------------------
(***************************************************************************)
(* UDP datagrams through the diode (aux/udp): each run of diode-send-udp   *)
(* is one session, a stream of frames with a header and the bytes of a     *)
(* datagram.  diode-receive-udp serves one session at a time, until its    *)
(* stream ends, and sends the datagrams on.                                *)
(*                                                                         *)
(* Between them a stream may be cut at any byte, and may lose some in the  *)
(* middle (see SuccessIsComplete of Receiver), after which other bytes are *)
(* taken for a header.                                                     *)
(***************************************************************************)
EXTENDS Integers, Sequences, SequencesExt

CONSTANTS MaxDatagrams, \* bound: for each session, its datagrams
          BufferSize    \* of both programs, the size of the largest datagram

ASSUME UdpTunnelAssumption == MaxDatagrams \in Seq(Nat) /\ BufferSize \in Nat

VARIABLES
  opened,  \* sessions that have connected
  taken,   \* per session the sizes of the datagrams taken from UDP
  writing, \*   whether the last one has only its header written
  pipe,    \*   what was written and not yet read
  closed,  \*   whether no more will come
  harmed,  \* history: "cut" or "hole" for sessions that lost something
  served,  \* receiver: the session it serves, or served last
  tunPc,   \*   "accept", "header", "bytes" or "panicked"
  size,    \*   of the datagram it reads
  sentOn   \* per session the datagrams sent to UDP

tunSendVars == <<opened, taken, writing>>
tunVars == <<tunSendVars, pipe, closed, harmed, served, tunPc, size, sentOn>>

Sessions == DOMAIN MaxDatagrams

FrameHeader(n)    == [kind |-> "header", val |-> n]
Datagram(k, n)    == [i \in 1 .. n |-> [kind |-> "byte", val |-> <<k, i>>]]

TunnelInit ==
  /\ opened = 0
  /\ taken = [s \in Sessions |-> <<>>] /\ writing = [s \in Sessions |-> FALSE]
  /\ pipe = [s \in Sessions |-> <<>>] /\ closed = [s \in Sessions |-> FALSE]
  /\ harmed = [s \in Sessions |-> {}]
  /\ served = 0 /\ tunPc = "accept" /\ size = 0
  /\ sentOn = [s \in Sessions |-> <<>>]

-----------------------------------------------------------------------------
(* diode-send-udp, and the diode *)

Connect ==
  /\ opened < Len(MaxDatagrams)
  /\ opened' = opened + 1
  /\ UNCHANGED <<taken, writing, pipe, closed, harmed, served, tunPc, size, sentOn>>

\* recv_from, and the header.
WriteHeader(s) ==
  /\ s <= opened /\ ~closed[s] /\ ~writing[s] /\ Len(taken[s]) < MaxDatagrams[s]
  /\ \E n \in 0 .. BufferSize :
       /\ taken' = [taken EXCEPT ![s] = Append(@, n)]
       /\ pipe' = [pipe EXCEPT ![s] = Append(@, FrameHeader(n))]
  /\ writing' = [writing EXCEPT ![s] = TRUE]
  /\ UNCHANGED <<opened, closed, harmed, served, tunPc, size, sentOn>>

WriteBytes(s) ==
  /\ writing[s] /\ ~closed[s]
  /\ pipe' = [pipe EXCEPT ![s] = @ \o Datagram(Len(taken[s]), Last(taken[s]))]
  /\ writing' = [writing EXCEPT ![s] = FALSE]
  /\ UNCHANGED <<opened, taken, closed, harmed, served, tunPc, size, sentOn>>

\* The sender or the transfer ends; what is on its way may be lost from some
\* byte on.
Close(s) ==
  /\ s <= opened /\ ~closed[s]
  /\ closed' = [closed EXCEPT ![s] = TRUE]
  /\ \E k \in 0 .. Len(pipe[s]) :
       /\ pipe' = [pipe EXCEPT ![s] = SubSeq(@, 1, k)]
       /\ harmed' = IF k < Len(pipe[s]) THEN [harmed EXCEPT ![s] = @ \cup {"cut"}] ELSE harmed
  /\ UNCHANGED <<tunSendVars, served, tunPc, size, sentOn>>

\* Blocks lost on the link are a hole in the stream.
Hole(s) ==
  /\ harmed[s] = {}
  /\ \E i, j \in DOMAIN pipe[s] :
       i <= j /\ pipe' = [pipe EXCEPT ![s] = SubSeq(@, 1, i - 1) \o SubSeq(@, j + 1, Len(@))]
  /\ harmed' = [harmed EXCEPT ![s] = {"hole"}]
  /\ UNCHANGED <<tunSendVars, closed, served, tunPc, size, sentOn>>

-----------------------------------------------------------------------------
(* diode-receive-udp *)

\* Mutant: the size of the last frame outlives the connection.
FirstReadResumes == IF size > 0 THEN "bytes" ELSE "header"

\* What a new connection begins with.
FirstRead == "header"

AcceptSession ==
  /\ tunPc = "accept" /\ served < opened
  /\ served' = served + 1
  /\ tunPc' = FirstRead
  /\ UNCHANGED <<tunSendVars, pipe, closed, harmed, size, sentOn>>

Needed == IF tunPc = "header" THEN 1 ELSE size

\* read_exact finds all the bytes it is to read.
Available == Len(pipe[served]) >= Needed

\* Eight bytes that are no header are any number, also one that is larger than the
\* buffer: then the slice that is to be read into panics, and that is the end of
\* the program.
ReadHeader ==
  /\ tunPc = "header" /\ Available
  /\ LET first == Head(pipe[served]) IN
     \/ first.kind = "header" /\ size' = first.val /\ tunPc' = "bytes"
     \/ first.kind = "byte" /\ size' \in 0 .. BufferSize /\ tunPc' = "bytes"
     \/ first.kind = "byte" /\ tunPc' = "panicked" /\ UNCHANGED size
  /\ pipe' = [pipe EXCEPT ![served] = Tail(@)]
  /\ UNCHANGED <<tunSendVars, closed, harmed, served, sentOn>>

ReadBytes ==
  /\ tunPc = "bytes" /\ Available
  /\ sentOn' = [sentOn EXCEPT ![served] = Append(@, SubSeq(pipe[served], 1, size))]
  /\ pipe' = [pipe EXCEPT ![served] = SubSeq(@, size + 1, Len(@))]
  /\ tunPc' = "header"
  /\ UNCHANGED <<tunSendVars, closed, harmed, served, size>>

\* Mutant: a frame that is cut in the middle is waited for.
ExhaustedOnlyEmpty == closed[served] /\ pipe[served] = <<>> /\ Needed > 0

\* The stream ended before all the bytes that read_exact is to read.
StreamExhausted == closed[served] /\ ~Available

\* read_exact fails, and the next connection is accepted.
SessionEnds ==
  /\ tunPc \in {"header", "bytes"} /\ StreamExhausted
  /\ pipe' = [pipe EXCEPT ![served] = <<>>]
  /\ tunPc' = "accept"
  /\ UNCHANGED <<tunSendVars, closed, harmed, served, size, sentOn>>

\* send_to fails: the datagram is lost, and the connection dropped.
SendToFails ==
  /\ tunPc = "bytes" /\ Available
  /\ pipe' = [pipe EXCEPT ![served] = <<>>]
  /\ closed' = [closed EXCEPT ![served] = TRUE]
  /\ harmed' = [harmed EXCEPT ![served] = @ \cup {"cut"}]
  /\ tunPc' = "accept"
  /\ UNCHANGED <<tunSendVars, served, size, sentOn>>

TunnelReceiver == AcceptSession \/ ReadHeader \/ ReadBytes \/ SessionEnds

TunnelNext ==
  \/ Connect \/ TunnelReceiver \/ SendToFails
  \/ \E s \in Sessions : WriteHeader(s) \/ WriteBytes(s) \/ Close(s) \/ Hole(s)


-----------------------------------------------------------------------------
(* Properties *)

Datagrams(s) == [k \in DOMAIN taken[s] |-> Datagram(k, taken[s][k])]

\* What is sent on are the datagrams of the session, in order, each whole and alone,
\* wherever the stream of this or of an earlier session was cut.
FramesIntact ==
  \A s \in Sessions : "hole" \notin harmed[s] => IsPrefix(sentOn[s], Datagrams(s))

\* The datagrams of which all was written.
Written(s) == IF writing[s] THEN Front(Datagrams(s)) ELSE Datagrams(s)

\* Every datagram of a session that lost nothing is sent on, whatever happened to
\* the sessions before it, once they have ended.
TunnelDelivers ==
  \A s \in Sessions :
    []<>(\/ IsPrefix(Written(s), sentOn[s]) \/ harmed[s] # {} \/ tunPc = "panicked"
         \/ \E e \in 1 .. (s - 1) : ~closed[e])

=============================================================================
