------------------------------ MODULE Decoders ------------------------------
(***************************************************************************)
(* The pool of decoding threads (receive/decode.rs).  They take the        *)
(* reassembled blocks from one channel, decode them in parallel, and hand  *)
(* them over to the dispatch worker in the order of their ids, through a   *)
(* turnstile: the mutex and condition variable `block_to_dispatch'.        *)
(*                                                                         *)
(* Reblock sets the turnstile as well, when it starts a new window.  Both  *)
(* channels are unbounded, so the thread whose turn it is never waits with *)
(* the mutex, and every change of the turn is followed by notify_all: the  *)
(* wait on the condition variable is a guard here.                         *)
(*                                                                         *)
(* This module plays reblock itself: it hands over blocks with consecutive *)
(* ids, and jumps ahead at a reset.  Receiver connects the real one.       *)
(***************************************************************************)
EXTENDS BlockIds, Sequences, FiniteSets

CONSTANTS Threads,     \* the decoding threads (config.nb_decode_threads)
          Items,       \* reassembled blocks, with an id and a number n
          Decodable,   \* those with packets enough to be decoded
          SyncLost,    \* Reassembled::Error
          Lost,        \* the None that reports a loss to dispatch
          NoItem,      \* the item of a thread that has none
          DecodeFails, \* TRUE if raptorq may fail to decode one of these all the same
          QuietResets, \* resets only come when the threads are done with their blocks
          MaxHanded    \* bound: numbers of the blocks handed over

\* The number of threads is a u8.
ASSUME DecodersAssumption ==
  /\ IsFiniteSet(Threads) /\ Threads # {}
  /\ Cardinality(Threads) < IdModulus
  /\ NoItem \notin Items /\ SyncLost \notin Items \cup {NoItem} /\ Lost \notin Items
  /\ Decodable \subseteq Items
  /\ DecodeFails \in BOOLEAN /\ QuietResets \in BOOLEAN
  /\ MaxHanded \in Nat

VARIABLES
  toDecode,        \* channel from reblock
  blockToDispatch, \* the id whose turn it is
  decPc,           \* thread: "recv", "turn" or "report"
  decItem,         \*   the block it waits with
  toDispatch,      \* channel to dispatch, kept whole: nothing is removed here
  handedOver       \* history: how many numbers reblock has gone through

threadVars == <<decPc, decItem>>
decodeVars == <<toDecode, blockToDispatch, threadVars, toDispatch, handedOver>>

ThreadsInit ==
  /\ decPc = [d \in Threads |-> "recv"]
  /\ decItem = [d \in Threads |-> NoItem]
  /\ toDispatch = <<>>

Init ==
  /\ toDecode = <<>> /\ blockToDispatch = 0 /\ handedOver = 0
  /\ ThreadsInit

-----------------------------------------------------------------------------
\* A thread takes a block and decodes it, if it can, and waits for its turn; else
\* it reports the loss.  A loss that reblock found is passed on.
Take(d) ==
  /\ decPc[d] = "recv"
  /\ toDecode # <<>>
  /\ toDecode' = Tail(toDecode)
  /\ \/ /\ Head(toDecode) \in Decodable
        /\ decPc' = [decPc EXCEPT ![d] = "turn"]
        /\ decItem' = [decItem EXCEPT ![d] = Head(toDecode)]
     \/ /\ Head(toDecode) \notin Decodable \/ DecodeFails
        /\ decPc' = [decPc EXCEPT ![d] = "report"]
        /\ UNCHANGED decItem
  /\ UNCHANGED <<blockToDispatch, toDispatch>>

\* Mutant: the error is only logged.
ReportNothing(d) ==
  /\ decPc[d] = "report"
  /\ decPc' = [decPc EXCEPT ![d] = "recv"]
  /\ UNCHANGED <<decItem, toDispatch, toDecode, blockToDispatch>>

\* The report does not wait for its turn and does not pass the turn on.
Report(d) ==
  /\ decPc[d] = "report"
  /\ toDispatch' = Append(toDispatch, Lost)
  /\ decPc' = [decPc EXCEPT ![d] = "recv"]
  /\ UNCHANGED <<decItem, toDecode, blockToDispatch>>

\* Mutant: the thread does not wait for its turn.
PassNoWait(d) ==
  /\ decPc[d] = "turn"
  /\ toDispatch' = Append(toDispatch, decItem[d])
  /\ blockToDispatch' = WrappingAdd(blockToDispatch, 1)
  /\ decPc' = [decPc EXCEPT ![d] = "recv"]
  /\ decItem' = [decItem EXCEPT ![d] = NoItem]
  /\ UNCHANGED toDecode

\* On its turn the thread sends its block and passes the turn on.
Pass(d) ==
  /\ decPc[d] = "turn"
  /\ blockToDispatch = decItem[d].id
  /\ toDispatch' = Append(toDispatch, decItem[d])
  /\ blockToDispatch' = WrappingAdd(blockToDispatch, 1)
  /\ decPc' = [decPc EXCEPT ![d] = "recv"]
  /\ decItem' = [decItem EXCEPT ![d] = NoItem]
  /\ UNCHANGED toDecode

Thread(d) == Take(d) \/ Report(d) \/ Pass(d)

-----------------------------------------------------------------------------
(* Reblock, as the threads see it *)

Handover ==
  /\ handedOver < MaxHanded
  /\ \E x \in Items : /\ x.n = handedOver /\ x.id = IdOf(handedOver)
                      /\ toDecode' = Append(toDecode, x)
  /\ handedOver' = handedOver + 1
  /\ UNCHANGED <<blockToDispatch, threadVars, toDispatch>>

\* The threads have done what they can: each waits for a block or for its turn.
Quiet ==
  \A d \in Threads : \/ decPc[d] = "recv" /\ toDecode = <<>>
                     \/ decPc[d] = "turn" /\ blockToDispatch # decItem[d].id

\* A new window starts at a later block, and sets the turnstile to its id.
Reset ==
  /\ QuietResets => Quiet
  /\ \E n \in handedOver .. (MaxHanded - 1) :
       handedOver' = n /\ blockToDispatch' = IdOf(n)
  /\ UNCHANGED <<toDecode, threadVars, toDispatch>>

Next ==
  \/ Handover
  \/ Reset
  \/ \E d \in Threads : Thread(d) /\ UNCHANGED handedOver

Spec == Init /\ [][Next]_decodeVars

\* The threads run; blocks come when the link brings them.
FairSpec ==
  Spec /\ \A d \in Threads : WF_decodeVars(Thread(d) /\ UNCHANGED handedOver)

-----------------------------------------------------------------------------
(* Properties *)

TypeOK ==
  /\ toDecode \in Seq(Items \cup {SyncLost})
  /\ blockToDispatch \in Ids
  /\ decPc \in [Threads -> {"recv", "turn", "report"}]
  /\ decItem \in [Threads -> Items \cup {NoItem}]
  /\ \A d \in Threads : decPc[d] = "turn" <=> decItem[d] # NoItem
  /\ toDispatch \in Seq(Items \cup {Lost})
  /\ handedOver \in Nat

\* As long as no loss was reported, the blocks reach dispatch in the order of
\* the sender, whatever the threads' interleaving and however the 8-bit ids wrap,
\* if resets come when the threads are quiet.
DispatchedInOrder ==
  \A i, j \in 1 .. Len(toDispatch) :
    i < j /\ (\A k \in 1 .. j : toDispatch[k] # Lost)
      => toDispatch[i].n < toDispatch[j].n

\* Every block that is handed over is dispatched, unless dispatch was told of a
\* loss: a block that fails to decode blocks every later one, but leaves no hole
\* in silence, and without failures no thread waits for a turn that never comes.
HandedOrReported ==
  \A n \in 0 .. (MaxHanded - 1) :
    (\E i \in 1 .. Len(toDecode) : toDecode[i].n = n)
      ~> \E i \in 1 .. Len(toDispatch) : toDispatch[i] = Lost \/ toDispatch[i].n = n

\* "Reset diode if no data are received after duration": whatever went wrong
\* before, the block that a reset makes the next one to dispatch is decoded.
ResetRestoresService ==
  \A n \in 0 .. (MaxHanded - 1) :
    ((\E i \in 1 .. Len(toDecode) : toDecode[i].n = n) /\ blockToDispatch = IdOf(n))
      ~> ~ \E i \in 1 .. Len(toDecode) : toDecode[i].n = n

=============================================================================
