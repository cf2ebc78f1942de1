# A TLA+ model of Lidi

Lidi copies TCP or Unix streams from one host to another over a one-way UDP
link (a *diode*). Nothing ever comes back over the link: no acknowledgement, no
retransmission, no flow control. What makes a transfer correct is therefore all
in how the two programs cut, number, order, reassemble and dispatch blocks.

This directory holds TLA+ modules translated from the Rust sources, TLC
configurations that check them on small instances, and theorems that TLAPS
checks for every value of the constants. `PROJECT.json` lists the components,
the runs, the source lines of each definition, the hazards and the theorems.
Paths below are relative to `src/src/` of the repository.

## 1. The system

```
 clients --> server threads --to_ordering--> ordering --to_encoding--> encoders
                (send/server.rs, client.rs)   (ordering.rs)            (encoding.rs)
 heartbeat --------^                                                      | to_send
                                                                          v
                                            UDP link  <---------------- udp (udp.rs)
 ============================================= diode ==========================
 udp --to_reblock--> reblock --to_decode--> decoders --to_dispatch--> dispatch
 (receive/udp.rs)   (reblock.rs)           (decode.rs)              (dispatch.rs)
                        \--block_to_dispatch--/                          |
                                     client workers (clients.rs, client.rs) --> peers
```

Every box is a thread or a pool of threads; every arrow is a crossbeam channel.
The channels of the sender are bounded by the number of encoding threads, those
of the receiver are unbounded.

| Component | State it keeps | Operations | What is hard | What makes it correct |
|---|---|---|---|---|
| ordering, encoders, UDP worker (`send/ordering.rs`, `encoding.rs`, `udp.rs`) | an 8-bit counter, three bounded channels, the id whose turn it is under a mutex with a condition variable | number a block, encode it, wait for its turn, send, pass the turn on, stop | threads finish in any order; ids wrap; a lost wakeup or a cycle of full channels; a socket error ends one thread only | the link carries the accepted blocks in order under consecutive ids; every accepted block gets there |
| listeners, server threads, clients, heartbeat, stop (`send/server.rs`, `client.rs`, `heartbeat.rs`, `mod.rs`, `bin/diode-send.rs`, `bin/diode-oneshot-send.rs`) | a semaphore, a counter of client ids that wraps, a read buffer and its cursor | accept, acquire, read, cut into Start/Data/End, abort, release, heartbeat, stop | clients that break at any point; concurrent transfers interleave on the link; a read that returns 0 for two reasons; a stop that overtakes data | each transfer on the link is Start, Data..., End or Abort without gap or mix; every transfer ends |
| reblock (`receive/reblock.rs`) | a ring of 256 packet lists and 256 flags, the current id, `reset` | receive a batch, start a window, sort packets, hand a block over, time out | reordering across blocks, loss, ids that come round, resets | packets of different blocks are never mixed; nothing is handed over twice; what is not lost is handed over |
| decoders (`receive/decode.rs`) | one block per thread, the id whose turn it is | decode, wait for the turn, dispatch, report a failure | threads finish in any order; a failure must not leave the turn unpassed; resets set the turn from another thread | dispatch sees the sender's order; no hole is left in silence |
| dispatch and client workers (`receive/dispatch.rs`, `clients.rs`, `client.rs`) | active and ended transfers, a channel per transfer, a semaphore | open a transfer, route a block, abort all at a loss; connect, write, end, give up | a worker that leaves while dispatch sends; client ids used again; losses in mid-transfer; permits on error paths | a client gets a prefix of its own transfer; a success was deserved; workers and permits come back |
| UDP workers and system calls (`send/udp.rs`, `receive/udp.rs`, `udp.rs`) | buffers of the receiver, the socket buffer of the kernel | send a block in chunks, receive one or several datagrams | calls that take a part or fail, buffers used again, an overrun | reblock gets whole datagrams in order, enough of each block |
| RaptorQ parameters (`protocol.rs`) | packet sizes and counts | compute them from MTU, block and repair | u16/u32 arithmetic, options that differ between the sides | the receiver waits for no more than the sender sends |
| files (`aux/file/`) | a buffer and cursor on each side, a hasher, the bytes remaining; the output directory, a count of connections | header, chunks, footer, checks; accept, join | the source changes while it is sent; the transfer is cut; content that looks like a footer; receivers of one name | an accepted file is the sent one and stays; an intact one is accepted; the end of the server cuts no file off |
| UDP tunnel (`aux/udp/`) | a buffer | frame datagrams on a stream, one session at a time | a stream cut in a frame; a hole in it | datagrams stay whole; a broken session does not harm the next |
| options, logging, sockets, Python bindings | - | - | - | - |

Hard behaviours the sources are exposed to are listed with their lines in
`PROJECT.json` under `hazards`, with the properties that watch them or the
reason why none does yet.

## 2. Modules

| Module | Models | Extends / instantiates |
|---|---|---|
| `BlockIds` | `u8` block ids: wrapping addition, distance, the window width | |
| `OrderedLine` | abstract: the line the sending half promises to the link | `BlockIds` |
| `SendPipeline` | ordering, encoders, UDP worker and their channels | `BlockIds`; `OrderedLine` as `Line` |
| `Sender` | listeners, server threads, clients, heartbeat, stop, on top of the pipeline | `SendPipeline` as `Pipeline` |
| `Reblock` | the reblock worker, fed with any datagrams | `BlockIds` |
| `ReblockLink` | the same at the end of a link that reorders and, by choice, loses, duplicates, overtakes, or has its sender restarted | `Reblock` |
| `Decoders` | the decoding threads and their turnstile, with a stand-in for reblock | `BlockIds` |
| `Transfers` | abstract: what the receiving half promises to its clients | |
| `Delivery` | dispatch and client workers, fed with any messages | `Transfers` as `Promise` |
| `Receiver` | the receiving half: the four parts through their channels, restarts of both programs | `ReblockLink`; `Decoders` as `D`, `Delivery` as `T` |
| `RaptorQParams` | `RaptorQ::new` and the counts it gives, with their widths | |
| `UdpLink` | both UDP workers, their system calls, the socket buffer | `RaptorQParams`, `BlockIds` |
| `FileTransfer` | `send_file` and `receive_file` over a stream that may be cut | |
| `FileServer` | the accept loop, `max_files`, concurrent threads in one directory | |
| `UdpTunnel` | `diode-send-udp` and `diode-receive-udp` | |
| `AuxPrograms` | the three programs beside the diode, one at a time | `FileTransfer`, `FileServer`, `UdpTunnel` |
| `BlockIdsProofs` | proofs: arithmetic of wrapping ids | `BlockIds` |
| `SendPipelineProofs`, `SenderProofs` | proofs: the sending half | the module each is named for |
| `DecodersProofs`, `DeliveryProofs` | proofs: the decoding threads; dispatch and the client workers | `Decoders`, `Delivery` |
| `ReceiverProofs` | proofs: reblock alone, then the receiving half as a whole | `Receiver`; `DecodersProofs` as `DP`, `DeliveryProofs` as `TP` |
| `UdpLinkProofs` | proofs: the UDP workers and the sizes they work with | `UdpLink` |
| `AuxProofs` | proofs: file transfer, file server, UDP tunnel | `AuxPrograms` |
| `MC*` | instances for TLC | |

How state and actions correspond to the code:

- A program counter (`ordPc`, `encPc`, `srvPc`, `pc`, `decPc`, `wkPc`, `rcvPc`,
  `thread`, `tunPc`) stands for the place of a thread between two operations other threads can see:
  a channel send or receive, a lock, a wait, a semaphore. What a thread does with
  local variables in between is one step.
- A bounded channel is a sequence whose sender waits when it is full. An
  unbounded one never blocks its sender. `to_dispatch` is kept whole, and its
  reader by the counter `dispatched`, since properties speak of its history.
- The mutex of the sender is the fact that an encoder is in `send` (it sends on
  a bounded channel with the mutex held). The decoders send on an unbounded
  channel with the mutex held, so there lock, wait and send are one step, and
  `wait_while` is its guard. Lost and spurious wakeups are modelled for the
  encoders, where the notification comes after the unlock.
- Blocks and packets are records. A byte of a client, a block of the sender and
  a byte of a file are known by their position, so that an order, a gap or a mix
  is visible. Only history variables and properties look at block numbers beyond
  their 8-bit id: `PacketId` and `IdOf` are all the code sees.
- RaptorQ is what reblock sees of it: a block is complete with `MinPackets`
  packets, which reblock counts whether they are different or not
  (`receive/reblock.rs:102`). Decoding needs `SymbolCount` different ones
  (`HasEnough`, `Decodable`): a block that duplicates have completed may fail.
  Otherwise it is a choice between success and failure (`DecodeFails`).
- Client ids wrap as the `AtomicU32` of `protocol.rs` does (`ClientIdModulus`). The
  histories `handedOut` and `rank` count the ids handed out, and those before the
  one of a server's client; `outlasted` says that a transfer went on sending until its
  id had been handed out again.
- The channel of a transfer is dropped by its client worker at the end of the loop
  iteration, after `client::start` has returned and the permit is back
  (`HasReceiver`, the place "drop" of `wkPc`): until then dispatch still sends into it.
- A transfer of `Delivery` is a channel, what was written and an outcome; `told` is
  a history of what the messages said of it. `Seen` puts the two together, and
  is what `Transfers` speaks of: the maps of client ids, the channels, the
  semaphore and the abort timeout are gone there.
- A restart of the sender sets its counters of block and client ids to 0: in
  `ReblockLink` its next block is the next one that has id 0. A restart of the
  receiver sets all variables of its threads to their initial values. The history
  `restarts` says where in the stream of blocks each was.
- The configuration a program is started with is a variable `config` in `Sender`,
  `UdpLink` and `FileTransfer`, chosen at the start and never changed, as the `Config`
  structures of `send/mod.rs` and `aux/file/mod.rs`.

Some definitions are commented "Mutant": they restate one definition with a plausible
bug and are used in no specification. Each property is known to fail when one of
them takes the place of the one it restates (`mutants` in `PROJECT.json`).

## 3. Runs

All runs end in less than three minutes with two workers. Deadlock is not checked
where the bounded run simply ends; that threads go on is what the properties
under fairness say.

| Run | Instance | Shows |
|---|---|---|
| `send_pipeline` | 2 encoders, ids mod 3, 9 blocks or stops | `WireInOrder`, `HeldIdsDistinct`, `PipelineInv`, `ImplementsLine`, and `AcceptedIsSent` under fairness |
| `sender` | client ids mod 2, buffer of 2; 2 clients of 2 and 0 bytes on two server threads, 3 on one with `--flush` and a heartbeat, or the one-shot program | `TransfersWellFormed`, `EndMeansClosed`, and `TransfersEnd` under fairness |
| `reblock` | 6 blocks of 2 packets, ids mod 5, skew 2, batches of 2; a link that duplicates and restarts, one that overtakes and restarts, or one that loses, duplicates and overtakes, 2 faults | `WindowInv`, `NeverReportsLoss`, `BlocksUnmixed`, `KeptInWindow`, `HandedIncreasing`, `StaysNear`, and `AllHanded` under fairness |
| `decoders` | 3 threads, ids mod 4, 6 blocks, failures, a block that cannot be decoded, resets | `DispatchedInOrder`, and `HandedOrReported` under fairness |
| `delivery` | 2 client ids, 2 workers, any 4 messages, failing clients, abort timeout | `NeverWaitsForPermit`, `OneWorkerEach`, `ImplementsTransfers`, and `TransfersEnd` under fairness |
| `receiver` | 7 blocks, ids mod 5, skew 2, 2 decoders, one client and its worker, one restart of either program | `SuccessIsComplete`, and `EndedIsDelivered` under fairness |
| `udp_link` | 4 blocks of 3 to 5 packets, single calls and batches of 2 and 3, four sets of options, 2 lost datagrams | `ReceivedIsSent`, `EnoughArrive`, `WindowIsBuffered` |
| `aux` | files of up to 5 bytes, buffers 2/2 with hash, 3/2 without; 3 connections with files of one name, `max_files` 3; 2 tunnel sessions of 2 and 1 datagrams of up to 2 bytes | `AcceptedIsSent`, `AcceptedIsAnnounced`, `IntactIsAccepted`, `OkIsWhole`, `FramesIntact`, and `ReceiverEnds`, `FilesBeforeExit`, `TunnelDelivers` under fairness |
| `sender_oneshot_data` | the one-shot program | `StdinIsSent` is violated, see section 6 |
| `decoders_reset` | one decoder, a block that cannot be decoded | `ResetRestoresService` is violated |
| `receiver_loss` | one packet lost | `SuccessIsComplete` is violated |
| `file_buffers` | buffers 2/3 with hash | `HashIsOfContent` is violated |

Why the bounds are enough:

- *Ids.* 256 becomes 3 to 6. Every run on ids sends more blocks than there are
  ids, so they wrap. The window is `(IdModulus - 1) \div 2` as in the code: one
  id for 3 and 4, two for 5 and 6. The theorems hold for every modulus from 3.
- *Send pipeline.* Nine blocks fill two encoders, the ordering worker and the
  three channels of two. One kind of block is enough: the position of a block is
  its history field `n`, and the theorems cover any set of blocks.
- *Sender.* Two bytes and a buffer of two give full blocks, partial reads, empty
  and non-empty End blocks. One server thread for two clients makes a permit that
  was not given back block the second client; two threads interleave transfers.
  Three clients on two ids use one again. `TransfersWellFormed` is about the link as
  its reader knows it, by client ids alone, and holds as long as no transfer is
  `outlasted`; the program does nothing to prevent that, as 2^32 clients connect
  first.
- *Link.* `MaxSkew` is how many consecutive blocks may be on the link at once. It
  is no more than the window, which is what the window is for. Two faults lose or
  duplicate all packets of a block, or one of each of two.
- *Delivery.* Four messages contain Start, Data, a loss or a second Start, and
  End, for one client while the other does something.
- *Receiver.* Seven blocks and a restart contain two whole transfers of one client
  id, and leave ids between them for a restart to skip. `EndedIsDelivered` asks for a
  delivery of each single transfer, as the second comes under the id of the first.
- *UDP link.* Headers, alignment and percentages are small numbers in place of 28,
  4, 8 and 100, and the widths 64 and 4096 in place of 2^16 and 2^32; the
  arithmetic is the same. Four blocks of five packets are more than a window of two
  fits in the socket buffer, so that it overruns; a limit of 30 on it makes it
  overrun early.
- *Files.* Five bytes fill buffers of two and three exactly or not, and a file that
  grows leaves two bytes that can be taken for the footer. Three files of one name
  are two that meet and one that comes before or after.
- *Tunnel.* One datagram in the session after the broken one shows whether it is
  shifted or not served.

Assumptions a run makes are constants of the module, named where they are
declared: `Timely` (no packet is on its way for as long as `reset_timeout`),
`QuietResets` (a reset finds the decoders idle: `reset_timeout` is two seconds by
default, decoding a block takes far less), `DecodeFails`, `ClientsFail`,
`AbortTimeout`. What the link may do is a set of faults among `Links`. A link that
loses packets is only looked at while they are near the current block
(`PushNear`; section 4); `StaysNear` shows that a link which loses nothing is like
that by itself, duplicates and restarts included. A sender is restarted after a
silence, and a restart of the receiver takes longer than the packets that are on
the link. `ReblockLink` lets the decoders take what reblock hands over before
anything else happens, since nothing of reblock depends on it; `Receiver` does not.

### Fairness

Weak fairness on each thread, because the operating system schedules a thread
that can run and crossbeam wakes a thread whose channel has an item or room. One
condition covers all steps of a thread, since it is only ever at one of them. In
`ReblockLink` and `Receiver` the link delivers what it does not lose. Nothing is
assumed of what the environment may or may not do: clients that connect, write,
close or break, errors, losses, decoding failures, spurious wakeups, heartbeats,
timeouts, stop requests, resets, restarts and changes of a file have no fairness.
`EndedIsDelivered` and `AllHanded` therefore speak of what was sent, whenever
it is. `FilesBeforeExit` takes for granted that every stream to the file server ends,
as `diode-receive` closes it with its transfer, but not that more clients come;
`TunnelDelivers` only that earlier sessions have ended.
`TransfersEnd` of `Delivery` takes the expiry of `abort_timeout` as a step of the
worker, which is what `recv_timeout` does.

## 4. Proofs

Every theorem is stated for all values of the constants that satisfy the named
assumptions, and needs no bound: `MaxSubmitted` is any natural number, and
`Reblock` has none.

**Sending pipeline** (`SendPipelineProofs`), from `IdModulusAssumption` (at least
three ids) and `SendPipelineAssumption` (a finite, non-empty set of encoders, no
more of them than ids: both are `u8` in the code).

- `TypeCorrect`, then `PipelineInvariant`: `Spec => []PipelineInv`. `WireInOrder`
  alone is not inductive; it must be known where every accepted position is.
  `PipelineInv` says that the positions from 0 on are, in this order, on the link,
  in `to_send`, held by one encoder each, in `to_encoding`, and at the ordering
  worker; and that `block_to_send` is the id of the first one that was not passed.
  The crux is `TurnstileStep`: the encoder whose *id* is next holds the *position*
  that is next, since held positions are fewer than `IdModulus` apart
  (`HeldPositionsFit`), and ids are distinct within a turn (`IdsDistinctInATurn`).
- `WireOrdered`, `HeldIdsAreDistinct` follow from it.
- `PipelineImplementsLine`: `Spec => ImplementsLine`, the refinement of
  `OrderedLine`, in which encoders do not appear.

**Sender** (`SenderProofs`), from `SenderAssumption` and
`SenderPipelineAssumption`: any clients, streams of any length, any buffer, any
`max_clients`, any number of encoders. `Stop` and `NoItem` are no blocks, as the
`None` of an `Option`.

- `TypeCorrect`, `TransfersAreWellFormed`, `EndsMeanClosed` follow from one invariant,
  `SenderInv`, in three parts. `ServersInv`: permits, server threads and clients add
  up, each client that was accepted has one thread, a thread's place says what it has
  sent for its client, and its id is the remainder of its `rank`. `PipeInv`: what was
  accepted is `PipelineInv` again, so that the link is a prefix of what the server
  threads put in the queue. `LogInv`: what that queue has under a client id is whole
  transfers and, at its end, one that is as far as its server thread has come.
- Ids are not distinct for ever: they wrap. What is proved is that those *in use* are,
  as long as nothing is `outlasted`: the ranks of the threads that still send are
  different (`RanksInv`) and within one turn of the counter, so that their remainders
  differ (`DistinctInATurn`). A Start under an id used before therefore finds the earlier
  transfer of that id closed.

**Reblock** (first part of `ReceiverProofs`), from `IdModulusAssumption` and
`ReblockAssumption`, for any datagrams at any time, which covers loss,
duplication and any reordering.

- `WindowInvariant`: the ring of flags is the window from `cur_id` on. The lemma
  `AdvancedWindow` is about the two flags that move at each step.
- `LossNeverReported`: neither check for damaged blocks of `reblock.rs` (at the
  timeout, and when a block is handed over) can ever be true, since they look for
  packets under ignored ids.
- `NearBlocksUnmixed`, `NearKeptInWindow`: `NearSpec => []BlocksUnmixed` and
  `[]KeptInWindow`. The assumption `Near` is that
  a packet is less than a turn of the ids ahead of the current block, and behind
  it by no more than the ids out of the window. The strengthening `UnmixedInv`
  says that every packet kept for an id is of the block that is as far
  ahead of the current one as the id is of `cur_id`.
- `ReblockNeverGoesBack`: `[]HandedIncreasing` for any link of `ReblockLink`, if
  it is `Timely` and packets are near. `HandedInv` says that what was handed over
  is behind the current block, and that everything on the link after a reset is of
  later blocks: this is where `Timely` is needed, as a packet that outlives a reset
  opens the window behind blocks that were handed over.
- `LosslessStaysNear`: on a link that is `Timely`, loses nothing, and interleaves no more
  blocks than the window holds (`MaxSkew <= WindowWidth`), `Near` holds by itself, in
  spite of duplicates, late first packets, resets and restarts of the sender. The
  invariant `NearInv` follows the packets of the current block: as long as it is
  incomplete some are on the link, so the sender is less than `MaxSkew` blocks ahead.
- `LosslessCorrect` puts these together: `BlocksUnmixed` and `HandedIncreasing` with
  no condition on the packets.

**Decoders** (`DecodersProofs`), from `DecodersAssumption`: fewer threads than ids.

- `TypeCorrect`, and `DispatchOrdered`: `QuietResets => (Spec => []DispatchedInOrder)`.
  `TurnInv` is the turnstile argument of the encoders, with a reader that may give up:
  as long as nothing was reported lost, the blocks that were taken and not yet
  dispatched are as many as there are busy threads (`Turn`, `Taken`), each with one of them,
  so their ids are distinct and the turn is that of the first. `QuietResets` is needed
  where a reset sets the turn: it must find no block between the two.

**Delivery** (`DeliveryProofs`), from `DeliveryAssumption`: any messages, any number
of client ids and of workers.

- `TypeCorrect`, `PermitForEveryWorker`, `OneOwner` follow from `PoolInv`: the permits
  that are out are held by the workers in `connect` to `signal`, of which the waiting one is
  none; and the transfers in `toClients` and those of the workers are all different.
- `DeliveryImplementsTransfers`: `Spec => ImplementsTransfers`, step by step. `RouteInv` says
  that the map `active` names, for each client id, the one open transfer that still hears its
  blocks; `QueuesInv` that what a client was written and what is in its
  channel are, put together, what the messages said of the transfer (`told`),
  up to its last block. With that each step of a worker is one of
  `Transfers` or a stutter.

**The receiving half as a whole** (second part of `ReceiverProofs`), from
`ReceiverAssumption`, `ReblockLinkAssumption` and the two of reblock: any numbers of
blocks, threads, client ids, workers and restarts, clients that fail, abort timeouts.

- `DeliveredWhole`: `ReceiverSpec => [](Reliable /\ no loss reported => SuccessIsComplete)`,
  under three conditions on the constants, which the instance of the run `receiver` meets:
  `Timely`; `QuietResets`; and `MaxSkew <= WindowWidth`. `Reliable` leaves out
  links that lose packets, for which the property is false (`receiver_loss`), and links
  on which a packet of a later block comes first after a silence, as the blocks before it
  are then ignored without a report. Duplicates, reordering, silences and restarts of both
  programs are all in. So are the blocks that cannot be decoded, because duplicates completed
  them too early or by choice (`DecodeFails`), up to the report of the first one.
- `SinglesDeliverWhole`: on such a link that duplicates nothing, and with `~DecodeFails`, no
  loss is ever reported and every success is whole. `SingleInv` says that each packet is
  in one place at most, the link, the batch or under an id; with `KeptInWindow` the packets
  of a block that is handed over are then as many different symbols (`OnceIsEnough`).
- `ReceiverInvariant` is the induction. `SuccessIsComplete` speaks of the written
  bytes and the sender's stream only, so `ReceiverInv` has to follow a block through
  everything between, with a part for each place. The first two hold always; the others
  are `UndisturbedInv` and hold until a loss is reported, when a turn stays unpassed:
  - `NearInv` (of reblock): the packets that reblock looks at are near the current
    block, what was handed over is behind it. It is taken over as it is: every step but
    a restart of the receiver is one of `ReblockLink` or leaves its variables alone
    (`LinkPart`).
  - `StreamInv`, `WellFormed`: the blocks of the sender are numbered, and those of a
    client since the last restart of the sender are a Start, Data, and an End or Abort.
  - `TurnstileInv`: the invariant `TurnInv` of the decoders, with `handedOver` as the
    current block, and nothing reported lost.
  - `ItemsInv`: whatever is in `to_decode`, with a thread or in `to_dispatch` is a
    block of the stream, and its packets tell its number.
  - `ResetInv`: without an open window the threads are idle, nothing on the link is of a
    block before the last window, and of each block from there on every packet is on it. This
    carries completeness across a reset, when neither reblock nor the decoders remember
    anything: the next window opens at the first block that was not handed over.
  - `CompleteInv`: dispatch got every number from its first block to the turn, but those
    that a restarted sender skipped (`Beat`).
  - `ServedInv` (of `Delivery`): what a client was written is what dispatch was told.
  - `ToldInv`: what dispatch was told of a transfer is what the sender sent from one of
    its Starts, without a hole, up to the place in the stream that dispatch has reached
    (`Receives`). The crux is `ReceivesEnd`: the End that closes a transfer is of the
    session of its Start, because the sender keeps to the protocol, so that nothing
    of it follows.
- `PartsInOrder`: in the composition too, under the same conditions, blocks are not mixed
  and not handed over twice, and dispatch gets them in order until a loss is reported, also
  when duplicates complete blocks that cannot be decoded. The theorems about the parts take
  any input; here their conditions are met by the parts before them.

**Programs beside the diode** (`AuxProofs`), from `FileTransferAssumption`,
`FileServerAssumption` and `UdpTunnelAssumption`: any sizes of file, footer, buffers
and datagrams, any options on either side.

- `FileIsWhole`, `FileIsAnnounced` follow from `FileInv`: item `p` of the stream is
  known from what the sender has read (`SentItem`: header, bytes, footer), what is on
  its way starts at the place up to which the receiver has taken it (`StreamInv`),
  and its buffer and file hold what is before it (`ContentInv`). A footer that
  matches is no byte of the file, so the content ends where the file did.
- `IntactFileIsAccepted` needs `HashInv` as well: the hashes of both sides are places of one
  `Chain`, that grows by a full buffer at a time. The receiver is never ahead of the
  sender on it, and when both are at the end of the file they are at its last place,
  since the last part is shorter than a buffer. The chain is a witness of the invariant,
  not a recursive function, so no induction is needed.
- `ReportedIsWhole`: `CreatorsInv` (who is about to create a file without a race is
  alone) and `WritersInv` (a file without a race has exactly what its thread
  wrote).
- `TunnelKeepsFrames`: the stream of a session is its frames one after the other
  (`Placed`: there are places in it at which the frames are), and the receiver is at the
  start of one, or after its header.

**UDP workers** (`UdpLinkProofs`), from `RaptorQAssumption`, `IdModulusAssumption` and
`UdpLinkAssumption`: any MTU, block size, percentages, batches and limit of the kernel
that the programs accept, any losses.

- `LinkInvariant`: what was handed on, what is in the socket and what is still to send
  are three parts of the order in which the sender made the datagrams (`OrderInv`), the
  socket never has more than it has room for (`CapacityInv`), and each datagram
  that was made is in one of them, lost or dropped (`CompleteInv`).
- `ReceivedAsSent` follows, if the headers fit into the MTU of the sender
  (`HeadersFit`): for a smaller MTU the `u16` subtraction of `RaptorQ::new` wraps, and
  the packets are larger than the MTU.
- `EnoughAlwaysArrive` counts: the packets of a block are those that were lost and those
  that were passed on, and with the same options both sides cut a block into the same
  symbols (`AgreeCounts`), although the shares of repair data may wrap in 32 bits.
- `BuffersAWindow`: a datagram is dropped only when the socket is full, its room is
  at least `WindowWidth` blocks (`CapacityHoldsWindow`; the product does not wrap when
  the kernel grants it), and a full socket and one datagram more, all different, are
  of more blocks (`FullIsWide`).

`BlockIdsProofs` proves what is needed of `%`: uniqueness of quotients, how ids and
distances change by one step, also on the ring that the window of reblock walks.

Only model-checked: all liveness properties, as fairness and ENABLED are out of
reach of the prover, and what the runs of section 6 refute. Every invariant, action
property and refinement of a passing run is stated by a theorem. Nothing is defined by
RECURSIVE and nothing is proved by induction over data.

## 5. What the properties say together

`Sender` shows that the blocks of each transfer are well formed in the order in
which they are accepted; `SendPipeline` that the link carries them in that order;
`Reblock` that they come out unmixed and in order as long as nothing is lost;
`Decoders` that dispatch sees that order; `Delivery`, through `Transfers`, that each
client gets its own blocks of it. `Receiver` checks the receiving parts connected, fed with what the
sending half promises: well-formed transfers under consecutive ids, also when
either program is started again. `UdpLink` says which packets of a block reach
reblock, and that they are enough (`EnoughArrive`): `MinPackets` of `Reblock` is
its `MinNbPackets`. `DeliveredWhole` is where the receiving parts come together: what
`Reblock`, `Decoders` and `Delivery` show, each for the input it is given, adds up to a
success that is the sender's transfer. The programs of `AuxPrograms` are peers of the diode, whose
streams they see cut, or with holes after a loss as in `receiver_loss`.

## 6. Where the code and its documentation disagree

Each of these is a run that TLC ends with a counterexample.

- **`receiver_loss`**: a block is lost, and a silence follows. The timeout branch
  of `reblock.rs` finds nothing under the ignored ids (as `LossNeverReported`
  proves), dispatch is not told, the next window starts after the hole, and the
  transfer ends as a success with a payload missing. `dispatch.rs:39` means to
  mark all active transfers as failed.
- **`decoders_reset`**: a block that fails to decode is reported, but the turn is
  not passed on. The decoder of the next block waits for ever, with one thread
  all decoding stops, and the "reset" of `--reset-timeout` does not wake it: its
  id is older than the window.
- **`sender_oneshot_data`**: the `None` that stops the sender goes from ordering
  straight to the UDP worker, past the blocks in the encoders. With one encoding
  thread `diode-oneshot-send` ends without sending the end of stdin.
- **`file_buffers`**: full buffers are hashed with their length in front, the last
  part without. With `--hash`, an intact file is refused when the two sides have
  different buffer sizes.

Read in the code while modelling, without a run:

- The End block carries the last bytes of a transfer although `protocol.rs:250`
  says it should not (the receiver relies on it: `SuccessIsComplete` fails if only
  Data blocks have a payload).
- A block lost under traffic that never pauses keeps `cur_id` waiting until the ids
  have gone round, when packets of two blocks 256 apart are put together (this is
  where `Near` fails).
- A sender that is restarted faster than `reset_timeout` meets the window and the
  transfers of the old program: its blocks wait until the ids come round, and Data
  of a client id whose Start was not seen goes to the old transfer of that id.
- With `--repair 0` on both sides, equal as `doc/parameters.rst:115` wants them,
  the receiver waits for the 1% of its default `--min-repair`, which
  `diode-send` has no option for: no block is ever complete. `Agree` excludes it.
- "0 = no abort" (`bin/diode-receive.rs:96`) is parsed as a timeout of 0 s, and
  "0 to disable" of the heartbeat as an interval of 0 s.
- `diode-oneshot-receive` writes every transfer to the same stdout, and one that is
  dropped does not end it (`client_end` is not called): when another `Start` replaces
  a transfer in the middle, as when `diode-oneshot-send` is run again, both are written
  before it exits with 0.
- `--max-files`: "Exits after receiving max_files files"
  (`bin/diode-receive-file.rs:47`), but connections are counted, whatever becomes of their
  files, and one accept that fails ends the loop as well: the server may end with fewer
  files, or none. `FilesBeforeExit` says what does hold: it ends, and not before the files
  that are coming in.
- A datagram duplicated by the network counts twice (`receive/reblock.rs:102`): a block
  may be handed over with too few different packets, be undecodable although the
  missing ones are on their way, and so wedge the decoders as in `decoders_reset`.
- Client ids wrap after 2^32 clients; a transfer that lasts that long would be spliced
  with the new one of its id (`outlasted`).
- A file that was received in part stays, and its name is then refused; two threads
  that look for one name before either creates it both write the file (`raced`).
- After a hole in its stream the UDP tunnel takes other bytes for a header; a size
  larger than its buffer is a panic, which ends the program.

## 7. Not modelled

- Packets that are late by more than `reset_timeout`, restarts of the sender that
  are faster than it: `Reblock` alone allows any datagrams, but nothing of the parts
  behind it is shown then. Duplicates are in the theorems about the composed receiver and
  in the run `reblock`, but not in the run `receiver`, which they would make too large.
- That `diode-oneshot-receive` exits at `client_end`.
- Datagrams that no sender of Lidi makes: one that is too short panics in
  `EncodingPacket::deserialize` (`receive/reblock.rs:63`), which ends the reblock thread
  for good.
- The instant between the announcement of a transfer to the client workers and its
  Start block in the channel (`receive/dispatch.rs:81` and `:92`), which are one step of
  `DispatchStart`: a client worker that is faster finds the channel empty and waits, as it
  does in the model between two blocks; should it leave meanwhile, the Start finds
  nobody, where in the model the next block does.
- Time. A timeout is a step that may happen; the heartbeat warning only logs.
- The layout of blocks and headers in bytes, and the RaptorQ code itself.
- How the kernel accounts for a datagram: the socket buffer counts its bytes.
- The Python bindings, options, logging, CPU affinity, the creation of sockets,
  `diode-config`, `diode-flood-test`: no state of a transfer.
- Hashing of client streams, which only logs.
- Zero threads (`--encode-threads 0` and the like) and `--batch 0`, for which
  `chunks_mut` panics; both are outside what the options are for.

## 8. Plan

Done, in this order: `BlockIds`, `SendPipeline` with its proofs, `Sender`,
`Reblock`/`ReblockLink` with their proofs, `Decoders`, `Delivery` with `Transfers`,
`Receiver`, `RaptorQParams` and `UdpLink`, `FileTransfer`, `FileServer`,
`UdpTunnel`. All their invariants are proved, and so is that of the composed
receiver. What could follow:

1. The whole diode: `Sender` and `Receiver` share their notion of a transfer, but the
   receiver is fed by a stand-in for the sender (`MayFollow`), not by its pipeline.
2. `DeliveredWhole` after the report of a loss: it ends the open transfers, but a thread
   that waits for a turn that was skipped (`decoders_reset`) may have a block with an id that
   comes round, and it is not clear yet what of the conclusion is left.
