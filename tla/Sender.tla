------------------------------- MODULE Sender -------------------------------
(***************************************************************************)
(* The sending half of the diode: clients connect to the listeners and are *)
(* queued for a pool of server threads; a server thread reads its client   *)
(* and cuts the stream into protocol blocks (client.rs); a heartbeat       *)
(* thread adds its own blocks; all of them feed the ordering queue of      *)
(* SendPipeline.                                                           *)
(*                                                                         *)
(* A byte is its position in the stream of its client, so a block carries  *)
(* the interval [from, to) of positions.  What the peer of a client        *)
(* connection does (write, close, break) is chosen by the environment.     *)
(***************************************************************************)
EXTENDS BlockIds, Sequences, FiniteSets

CONSTANTS Clients,       \* the connections accepted in a run, numbered in this order
          ClientIdModulus, \* u32::MAX + 1
          Encoders,      \* the encoding threads
          BufferLen,     \* Block::max_data_len, in bytes
          Configs,       \* the configurations the program is started with;
                         \* `connections' is a bound: how many clients connect
          Stop, NoItem,  \* see SendPipeline
          MaxBytes,      \* bound: bytes the peer of each client writes
          MaxHeartbeats  \* bound: heartbeats sent

ASSUME SenderAssumption ==
  /\ IsFiniteSet(Clients) /\ Clients \subseteq Nat
  /\ ClientIdModulus \in Nat \ {0}
  /\ BufferLen \in Nat \ {0}
  /\ IsFiniteSet(Configs)
  /\ Configs \subseteq [oneshot : BOOLEAN, flush : BOOLEAN,
                       heartbeat : BOOLEAN, max_clients : Nat \ {0},
                       connections : Nat]
  /\ \A k \in Configs : k.oneshot => k.max_clients = 1 /\ ~k.heartbeat
  /\ MaxBytes \in [Clients -> Nat] /\ MaxHeartbeats \in Nat
  /\ Stop \notin Clients
  /\ NoItem \notin Clients /\ NoItem \notin Nat

\* The threads of the largest configuration.
Servers == UNION {1 .. k.max_clients : k \in Configs}

VARIABLES
  config,      \* the configuration of this run: diode-send, or diode-oneshot-send
  toServer,    \* channel, bounded(1): clients, or Stop
  connected,   \* the clients handed to new_client
  stopped,     \* stop() was called
  peer,        \* the other end of a client: "open", "closed" or "broken"
  permits,     \* the semaphore multiplex_control
  nextId,      \* CLIENT_ID_COUNTER
  srvPc,       \* server thread: see the actions
  srvClient,   \*   its client
  srvId,       \*   its client id
  cursor,      \*   bytes in the read buffer
  transmitted, \*   bytes already put in blocks
  eof,         \*   the last read returned 0
  stopsLeft,   \*   Nones still to send
  heartbeats,  \* heartbeats sent
  handedOut,   \* history: how many client ids were handed out
  rank,        \*   how many of them before that of a server's client
  outlasted,   \*   whether a transfer lasted until its id was handed out again
  toOrdering, ordPc, ordId, ordBlock, toEncoding, encPc, encItem, blockToSend,
  toSend, udpPc, udpCount, ordered, turn, wire

BlockTypes == {"Heartbeat", "Start", "Data", "Abort", "End"}

ClientIds == 0 .. (ClientIdModulus - 1)

\* `of' is history: the connection a block is about.  The receiver only sees its id.
ProtocolBlocks == [type : BlockTypes, client : ClientIds, of : Clients \cup {NoItem},
                   from : Nat, to : Nat]

Pipeline == INSTANCE SendPipeline WITH
              Blocks <- ProtocolBlocks, StopSubmitted <- TRUE, MaxSubmitted <- 0

\* What SendPipeline assumes of its constants.
ASSUME SenderPipelineAssumption ==
  /\ IsFiniteSet(Encoders) /\ Encoders # {} /\ Cardinality(Encoders) <= IdModulus
  /\ Stop \notin ProtocolBlocks /\ Stop \notin Pipeline!Items
  /\ NoItem \notin ProtocolBlocks /\ NoItem \notin Pipeline!Items

listenerVars == <<config, toServer, connected, stopped, peer>>
clientVars   == <<cursor, transmitted, eof>>
historyVars  == <<handedOut, rank, outlasted>>
serverVars   == <<permits, nextId, srvPc, srvClient, srvId, clientVars, stopsLeft,
                  historyVars>>
inputVars    == <<listenerVars, serverVars, heartbeats>>
belowVars    == <<toEncoding, toSend, ordPc, ordId, ordBlock, ordered, encPc,
                  encItem, blockToSend, turn, udpPc, udpCount, wire>>
vars         == <<inputVars, toOrdering, belowVars>>

Init ==
  /\ config \in Configs
  /\ toServer = <<>> /\ connected = {} /\ stopped = FALSE
  /\ peer = [c \in Clients |-> "open"]
  /\ permits = config.max_clients /\ nextId = 0
  /\ srvPc = [s \in Servers |-> "recv"]
  /\ srvClient = [s \in Servers |-> NoItem]
  /\ srvId = [s \in Servers |-> NoItem]
  /\ cursor = [s \in Servers |-> 0]
  /\ transmitted = [s \in Servers |-> 0]
  /\ eof = [s \in Servers |-> FALSE]
  /\ stopsLeft = [s \in Servers |-> 0]
  /\ heartbeats = 0
  /\ handedOut = 0 /\ rank = [s \in Servers |-> 0] /\ outlasted = FALSE
  /\ Pipeline!PipelineInit

\* Block::new; a block without data has a data_length of 0.
Block(type, id, of, from, to) ==
  [type |-> type, client |-> id, of |-> of, from |-> from, to |-> to]

Goto(s, pc) == srvPc' = [srvPc EXCEPT ![s] = pc]

\* A worker sends a block to the ordering worker.
SendBlock(b) == Pipeline!PutOrdering(b) /\ UNCHANGED belowVars

-----------------------------------------------------------------------------
(* The listeners, and what the clients do *)

\* The clients that connect in this run.
Accepts == {c \in Clients : c <= config.connections}

\* A listener queues an accepted client; diode-oneshot-send queues its stdin.
NewClient(c) ==
  /\ c \in Accepts /\ c \notin connected
  /\ \A d \in Accepts : d < c => d \in connected
  /\ config.oneshot => connected = {}
  /\ Len(toServer) < 1
  /\ connected' = connected \cup {c}
  /\ toServer' = Append(toServer, c)
  /\ UNCHANGED <<config, stopped, peer, serverVars, heartbeats, toOrdering, belowVars>>

\* Sender::stop, called by diode-oneshot-send after its new_client.
StopSender ==
  /\ config.oneshot /\ ~stopped
  /\ connected # {}
  /\ Len(toServer) < 1
  /\ stopped' = TRUE
  /\ toServer' = Append(toServer, Stop)
  /\ UNCHANGED <<config, connected, peer, serverVars, heartbeats, toOrdering, belowVars>>

PeerEnds(c) ==
  /\ c \in connected /\ peer[c] = "open"
  /\ \E how \in {"closed", "broken"} : peer' = [peer EXCEPT ![c] = how]
  /\ UNCHANGED <<config, toServer, connected, stopped, serverVars, heartbeats, toOrdering, belowVars>>

-----------------------------------------------------------------------------
(* A server thread (server.rs) *)

ServerReceive(s) ==
  /\ srvPc[s] = "recv"
  /\ toServer # <<>>
  /\ toServer' = Tail(toServer)
  /\ IF Head(toServer) = Stop
     THEN /\ stopsLeft' = [stopsLeft EXCEPT ![s] = Cardinality(Encoders)]
          /\ Goto(s, "stop")
          /\ UNCHANGED srvClient
     ELSE /\ srvClient' = [srvClient EXCEPT ![s] = Head(toServer)]
          /\ Goto(s, "wait")
          /\ UNCHANGED stopsLeft
  /\ UNCHANGED <<config, connected, stopped, peer, permits, nextId, srvId, clientVars, historyVars,
                 heartbeats, toOrdering, belowVars>>

\* The thread has an id and is not done with the blocks of its client.
Sends(s) == srvPc[s] \in {"start", "read", "block", "error", "abort"}

\* What the history keeps of an id handed out.
HandOut(s) ==
  /\ handedOut' = handedOut + 1
  /\ rank' = [rank EXCEPT ![s] = handedOut]
  /\ outlasted' = (outlasted \/ \E t \in Servers : Sends(t) /\ handedOut - rank[t] >= ClientIdModulus)

\* Mutant: the id is read, and the counter not incremented.
NextClientIdSame == nextId

\* fetch_add of an AtomicU32, which wraps.
NextClientId == (nextId + 1) % ClientIdModulus

\* multiplex_control.wait(), then new_client_id().
ServerAcquire(s) ==
  /\ srvPc[s] = "wait"
  /\ permits > 0
  /\ permits' = permits - 1
  /\ srvId' = [srvId EXCEPT ![s] = nextId]
  /\ nextId' = NextClientId
  /\ HandOut(s)
  /\ Goto(s, "start")
  /\ UNCHANGED <<srvClient, clientVars, stopsLeft, listenerVars, heartbeats,
                 toOrdering, belowVars>>

\* client::start: the Start block, and an empty buffer.
ClientStart(s) ==
  /\ srvPc[s] = "start"
  /\ SendBlock(Block("Start", srvId[s], srvClient[s], 0, 0))
  /\ cursor' = [cursor EXCEPT ![s] = 0]
  /\ transmitted' = [transmitted EXCEPT ![s] = 0]
  /\ eof' = [eof EXCEPT ![s] = FALSE]
  /\ Goto(s, "read")
  /\ UNCHANGED <<permits, nextId, srvClient, srvId, stopsLeft, historyVars, listenerVars, heartbeats>>

Room(s) == BufferLen - cursor[s]

\* Mutant: waits for one byte more than the buffer holds.
BlockReadyLate(len) == config.flush \/ len > BufferLen

\* A block is sent when the buffer is full, or after each read with --flush.
BlockReady(len) == config.flush \/ len >= BufferLen

\* Some bytes were read: into the buffer, and a block if it is ready.
ClientReadData(s) ==
  /\ srvPc[s] = "read"
  /\ peer[srvClient[s]] = "open"
  /\ \E n \in 1 .. Room(s) :
       /\ transmitted[s] + cursor[s] + n <= MaxBytes[srvClient[s]]
       /\ cursor' = [cursor EXCEPT ![s] = @ + n]
       /\ Goto(s, IF BlockReady(cursor[s] + n) THEN "block" ELSE "read")
  /\ UNCHANGED <<permits, nextId, srvClient, srvId, transmitted, eof, stopsLeft, historyVars,
                 listenerVars, heartbeats, toOrdering, belowVars>>

\* A read returns 0 at the end of the stream, and when the slice is empty.
ClientReadZero(s) ==
  /\ srvPc[s] = "read"
  /\ peer[srvClient[s]] = "closed" \/ Room(s) = 0
  /\ eof' = [eof EXCEPT ![s] = TRUE]
  /\ Goto(s, "block")
  /\ UNCHANGED <<permits, nextId, srvClient, srvId, cursor, transmitted, stopsLeft, historyVars,
                 listenerVars, heartbeats, toOrdering, belowVars>>

\* The read fails: client::start returns the error.
ClientReadError(s) ==
  /\ srvPc[s] = "read"
  /\ peer[srvClient[s]] = "broken"
  /\ Goto(s, "error")
  /\ UNCHANGED <<permits, nextId, srvClient, srvId, clientVars, stopsLeft, historyVars,
                 listenerVars, heartbeats, toOrdering, belowVars>>

\* The bytes of the buffer leave in a Data block, or in the End block.
ClientSend(s) ==
  /\ srvPc[s] = "block"
  /\ SendBlock(Block(IF eof[s] THEN "End" ELSE "Data", srvId[s], srvClient[s],
                     transmitted[s], transmitted[s] + cursor[s]))
  /\ transmitted' = [transmitted EXCEPT ![s] = @ + cursor[s]]
  /\ cursor' = [cursor EXCEPT ![s] = 0]
  /\ Goto(s, IF eof[s] THEN "finish" ELSE "read")
  /\ UNCHANGED <<permits, nextId, srvClient, srvId, eof, stopsLeft, historyVars,
                 listenerVars, heartbeats>>

\* The variables of client::start and of the loop go out of scope.
Forget(s) ==
  /\ srvClient' = [srvClient EXCEPT ![s] = NoItem]
  /\ srvId' = [srvId EXCEPT ![s] = NoItem]
  /\ cursor' = [cursor EXCEPT ![s] = 0]
  /\ transmitted' = [transmitted EXCEPT ![s] = 0]
  /\ eof' = [eof EXCEPT ![s] = FALSE]
  /\ rank' = [rank EXCEPT ![s] = 0]

\* Mutant: `?' on the client's result before the signal.
ServerReleaseIfOk(s) ==
  /\ \/ srvPc[s] = "finish" /\ Goto(s, "recv") /\ Forget(s) /\ permits' = permits + 1
     \/ srvPc[s] = "error" /\ Goto(s, "abort")
        /\ UNCHANGED <<permits, srvClient, srvId, clientVars, rank>>
  /\ UNCHANGED <<nextId, stopsLeft, handedOut, outlasted, listenerVars, heartbeats, toOrdering, belowVars>>

\* multiplex_control.signal(), after a success or an error.
ServerRelease(s) ==
  /\ permits' = permits + 1
  /\ \/ srvPc[s] = "finish" /\ Goto(s, "recv") /\ Forget(s)
     \/ srvPc[s] = "error" /\ Goto(s, "abort")
        /\ UNCHANGED <<srvClient, srvId, clientVars, rank>>
  /\ UNCHANGED <<nextId, stopsLeft, handedOut, outlasted, listenerVars, heartbeats, toOrdering, belowVars>>

\* Mutant: signals a second time.
ServerAbortSignals(s) ==
  /\ srvPc[s] = "abort"
  /\ SendBlock(Block("Abort", srvId[s], srvClient[s], 0, 0))
  /\ permits' = permits + 1
  /\ Goto(s, "recv")
  /\ Forget(s)
  /\ UNCHANGED <<nextId, stopsLeft, handedOut, outlasted, listenerVars, heartbeats>>

ServerAbort(s) ==
  /\ srvPc[s] = "abort"
  /\ SendBlock(Block("Abort", srvId[s], srvClient[s], 0, 0))
  /\ Goto(s, "recv")
  /\ Forget(s)
  /\ UNCHANGED <<permits, nextId, stopsLeft, handedOut, outlasted, listenerVars, heartbeats>>

\* One None for each encoding thread, then the thread ends.
ServerStop(s) ==
  /\ srvPc[s] = "stop"
  /\ SendBlock(Stop)
  /\ stopsLeft' = [stopsLeft EXCEPT ![s] = @ - 1]
  /\ Goto(s, IF stopsLeft'[s] = 0 THEN "done" ELSE "stop")
  /\ UNCHANGED <<permits, nextId, srvClient, srvId, clientVars, historyVars,
                 listenerVars, heartbeats>>

-----------------------------------------------------------------------------
(* The heartbeat thread, never started by diode-oneshot-send *)

Heartbeat ==
  /\ config.heartbeat
  /\ heartbeats < MaxHeartbeats
  /\ SendBlock(Block("Heartbeat", 0, NoItem, 0, 0))
  /\ heartbeats' = heartbeats + 1
  /\ UNCHANGED <<listenerVars, serverVars>>

-----------------------------------------------------------------------------
Server(s) ==
  \/ ServerReceive(s) \/ ServerAcquire(s) \/ ClientStart(s)
  \/ ClientReadData(s) \/ ClientReadZero(s) \/ ClientReadError(s)
  \/ ClientSend(s) \/ ServerRelease(s) \/ ServerAbort(s) \/ ServerStop(s)

Next ==
  \/ \E c \in Clients : NewClient(c) \/ PeerEnds(c)
  \/ StopSender
  \/ \E s \in 1 .. config.max_clients : Server(s)
  \/ Heartbeat
  \/ Pipeline!PipelineNext /\ UNCHANGED inputVars

Spec == Init /\ [][Next]_vars

\* Runnable threads run.  Clients connect, write and end when they please; the
\* end of a read is up to them as well, so only the reads that can return count.
FairSpec ==
  /\ Spec
  /\ \A s \in Servers : WF_vars(s <= config.max_clients /\ Server(s))
  /\ WF_vars(Pipeline!Ordering /\ UNCHANGED inputVars)
  /\ WF_vars(Pipeline!Udp /\ UNCHANGED inputVars)
  /\ \A e \in Encoders : WF_vars(Pipeline!Encoder(e) /\ UNCHANGED inputVars)

-----------------------------------------------------------------------------
(* Properties *)

TypeOK ==
  /\ Pipeline!TypeOK
  /\ toServer \in Seq(Clients \cup {Stop}) /\ Len(toServer) <= 1
  /\ connected \subseteq Clients
  /\ stopped \in BOOLEAN
  /\ peer \in [Clients -> {"open", "closed", "broken"}]
  /\ config \in Configs
  /\ permits \in 0 .. config.max_clients
  /\ nextId \in ClientIds
  /\ srvPc \in [Servers -> {"recv", "wait", "start", "read", "block", "finish",
                            "error", "abort", "stop", "done"}]
  /\ srvClient \in [Servers -> Clients \cup {NoItem}]
  /\ srvId \in [Servers -> ClientIds \cup {NoItem}]
  /\ cursor \in [Servers -> 0 .. BufferLen]
  /\ transmitted \in [Servers -> Nat]
  /\ eof \in [Servers -> BOOLEAN]
  /\ stopsLeft \in [Servers -> 0 .. Cardinality(Encoders)]
  /\ heartbeats \in 0 .. MaxHeartbeats
  /\ handedOut \in Nat
  /\ rank \in [Servers -> Nat]
  /\ outlasted \in BOOLEAN

\* The block b is one of the transfer, or transfers, of the client `id'.
Belongs(b, id) == b # Stop /\ b.type # "Heartbeat" /\ b.client = id

\* The block of the same id before block j of the blocks bs is block i.
Follows(bs, i, j) ==
  /\ Belongs(bs[i], bs[j].client)
  /\ \A k \in i + 1 .. j - 1 : ~Belongs(bs[k], bs[j].client)

\* The block b is about the connection c.
IsOf(b, c) == b # Stop /\ b.of = c

\* Read by their ids, the blocks are transfers one after the other, each of them one
\* connection's own: one Start, then Data blocks that carry its bytes from the first
\* one on with no gap, repeat or mix with another's, then one End or Abort.  Each
\* connection has one transfer; a block has at most a buffer of data, and is full
\* unless clients are flushed.
InTransfer(bs, j) ==
  /\ IF bs[j].type = "Start"
     THEN /\ bs[j].to = 0
          /\ \A i \in 1 .. j - 1 : /\ ~IsOf(bs[i], bs[j].of)
                                   /\ Follows(bs, i, j) => bs[i].type \in {"End", "Abort"}
     ELSE \E i \in 1 .. j - 1 :
            /\ Follows(bs, i, j)
            /\ bs[i].of = bs[j].of
            /\ bs[i].type \in {"Start", "Data"}
            /\ bs[j].type # "Abort" => bs[j].from = bs[i].to
  /\ bs[j].to - bs[j].from <= BufferLen
  /\ bs[j].type = "Data" => bs[j].to > bs[j].from
  /\ bs[j].type = "Data" /\ ~config.flush => bs[j].to - bs[j].from = BufferLen

WellFormed(bs) ==
  \A j \in 1 .. Len(bs) : Belongs(bs[j], bs[j].client) => InTransfer(bs, j)

\* The transfers on the link are well formed under ids that several threads take and
\* that wrap, as long as no transfer outlasts a whole turn of the ids: the receiver
\* knows a transfer by its id alone, concatenates its payloads and relies on all of it.
TransfersWellFormed ==
  ~outlasted => WellFormed([i \in 1 .. Len(wire) |-> wire[i].block])

\* An End block says that the client closed its stream: a read that returns 0
\* because no room is left in the buffer is never taken for the end.
EndMeansClosed ==
  \A i \in 1 .. Len(wire) : wire[i].block.type = "End" => peer[wire[i].block.of] = "closed"

\* Once every client that connected has closed or broken its stream, each of
\* their transfers gets its End or Abort on the link, unless the socket failed:
\* no thread keeps its permit, and full queues drain.
TransfersEnd ==
  (~config.oneshot /\ connected = Accepts /\ \A c \in Accepts : peer[c] # "open")
    ~> \/ \A c \in Accepts : \E i \in 1 .. Len(wire) :
            /\ wire[i].block.of = c
            /\ wire[i].block.type \in {"End", "Abort"}
       \/ udpPc = "failed"

\* diode-oneshot-send "read[s] stdin and send[s] it": when its UDP worker stops
\* after the end of stdin, the End block and so all of the data is on the link.
StdinIsSent ==
  udpPc = "done" =>
    \A c \in Clients :
      peer[c] = "closed" => \E i \in 1 .. Len(wire) : wire[i].block.type = "End"

=============================================================================
