---------------------------- MODULE FileTransfer ----------------------------
(***************************************************************************)
(* A file sent by diode-send-file to diode-receive-file (aux/file).  The   *)
(* diode between them is a stream that may be cut at any point: the        *)
(* transfer is aborted, or the sender dies, and the receiver only sees the *)
(* end of the stream.                                                      *)
(*                                                                         *)
(*   stream = header (name, mode, length) . content . footer (hash)        *)
(*                                                                         *)
(* The content ends where the header said, not where the footer starts;    *)
(* the file may change its size after the header was made.  A byte of the  *)
(* file is its position.  The hash is modelled as what was fed into it.    *)
(***************************************************************************)
EXTENDS Integers, Sequences, FiniteSetsExt

CONSTANTS Configs,   \* the options the two programs are started with
          FooterLen, \* bytes in a footer
          MaxLen     \* bound: length of the file

\* --buffer-size and --hash on each side.
Options == [send : [buffer_size : Nat \ {0}, hash : BOOLEAN],
            receive : [buffer_size : Nat \ {0}, hash : BOOLEAN]]

ASSUME FileTransferAssumption ==
  /\ Configs \subseteq Options
  /\ FooterLen \in Nat \ {0} /\ MaxLen \in Nat

VARIABLES
  config,    \* the options of this transfer
  fileLen,   \* the length of the source file
  sndPc,     \* sender: "start", "read" or "done"
  sndPos,    \*   bytes read from the file
  sndCursor, \*   bytes in its buffer
  sndHashed, \*   what went into its hasher
  announced, \* the length in the header
  stream,    \* sent and not yet received
  ended,     \* nothing more will come
  cut,       \* history: the stream was cut
  rcvPc,     \* receiver: "header", "create", "read", "footer" or how it ended
  remaining, \*   bytes of content still to read
  buffer,    \*   the bytes in its buffer
  rcvHashed, \*   what went into its hasher
  existed,   \* the output file was there before
  disk       \* the content of the output file that was written

fileVars == <<config, fileLen, sndPc, sndPos, sndCursor, sndHashed, announced, existed>>
linkVars == <<stream, ended, cut>>
rcvVars  == <<rcvPc, remaining, buffer, rcvHashed, disk>>
vars     == <<fileVars, linkVars, rcvVars>>

Byte(i)   == [kind |-> "byte", val |-> i]
Header(n) == [kind |-> "header", val |-> n]
Length(n) == [kind |-> "length", val |-> n]
Footer    == [k \in 1 .. FooterLen |-> [kind |-> "footer", val |-> k]]

\* The bytes of the file after the first `from', up to `to'.
Content(from, to) == [i \in 1 .. (to - from) |-> Byte(from + i)]

Init ==
  /\ config \in Configs
  /\ fileLen \in 0 .. MaxLen
  /\ sndPc = "start" /\ sndPos = 0 /\ sndCursor = 0 /\ sndHashed = <<>>
  /\ announced = 0
  /\ stream = <<>> /\ ended = FALSE /\ cut = FALSE
  /\ rcvPc = "header" /\ remaining = 0 /\ buffer = <<>> /\ rcvHashed = <<>>
  /\ existed \in BOOLEAN
  /\ disk = <<>>

-----------------------------------------------------------------------------
\* What a full buffer feeds into the hasher: `Hash for Vec' adds the length.
FullBuffer(bytes) == <<Length(Len(bytes))>> \o bytes

\* What is written after a cut goes nowhere.
Write(bytes) == stream' = IF ended THEN stream ELSE stream \o bytes

\* Some other program appends to the source file or truncates it.
Resize ==
  /\ sndPc # "done"
  /\ \E n \in 0 .. MaxLen : fileLen' = n
  /\ UNCHANGED <<config, sndPc, sndPos, sndCursor, sndHashed, announced, existed, linkVars, rcvVars>>

SendHeader ==
  /\ sndPc = "start"
  /\ announced' = fileLen
  /\ Write(<<Header(fileLen)>>)
  /\ sndPc' = "read"
  /\ UNCHANGED <<config, fileLen, sndPos, sndCursor, sndHashed, existed, ended, cut, rcvVars>>

\* A read returns some bytes; a full buffer is hashed and written.
SendContent ==
  /\ sndPc = "read"
  /\ \E n \in 1 .. (config.send.buffer_size - sndCursor) :
       /\ sndPos + n <= fileLen
       /\ sndPos' = sndPos + n
       /\ IF sndCursor + n < config.send.buffer_size
          THEN sndCursor' = sndCursor + n /\ UNCHANGED <<sndHashed, stream>>
          ELSE LET bytes == Content(sndPos' - config.send.buffer_size, sndPos') IN
               /\ sndCursor' = 0
               /\ sndHashed' = sndHashed \o FullBuffer(bytes)
               /\ Write(bytes)
  /\ UNCHANGED <<config, fileLen, sndPc, announced, existed, ended, cut, rcvVars>>

\* The read returns 0: the rest, the footer, and the connection is closed.
SendFooter ==
  /\ sndPc = "read"
  /\ sndPos >= fileLen
  /\ LET bytes == Content(sndPos - sndCursor, sndPos) IN
       /\ sndHashed' = sndHashed \o bytes
       /\ Write(bytes \o Footer)
  /\ sndCursor' = 0
  /\ sndPc' = "done"
  /\ ended' = TRUE
  /\ UNCHANGED <<config, fileLen, sndPos, announced, existed, cut, rcvVars>>

\* The transfer breaks: the receiver gets a part of what is on its way.
Cut ==
  /\ ~cut
  /\ cut' = TRUE /\ ended' = TRUE
  /\ \E k \in 0 .. Len(stream) : stream' = SubSeq(stream, 1, k)
  /\ UNCHANGED <<fileVars, rcvVars>>

-----------------------------------------------------------------------------
(* receive_file *)

Exhausted == ended /\ stream = <<>>

ReceiveHeader ==
  /\ rcvPc = "header"
  /\ \/ /\ stream # <<>>
        /\ remaining' = Head(stream).val
        /\ stream' = Tail(stream)
        /\ rcvPc' = "create"
     \/ Exhausted /\ rcvPc' = "eof" /\ UNCHANGED <<remaining, stream>>
  /\ UNCHANGED <<fileVars, ended, cut, buffer, rcvHashed, disk>>

CreateFile ==
  /\ rcvPc = "create"
  /\ rcvPc' = IF existed THEN "exists" ELSE "read"
  /\ UNCHANGED <<fileVars, linkVars, remaining, buffer, rcvHashed, disk>>

\* Mutant: the slice to read into always ends at the end of the buffer.
SliceOverrun == config.receive.buffer_size - Len(buffer)

\* The slice to read into ends with the buffer or with the content.
Slice == Min({config.receive.buffer_size - Len(buffer), remaining})

\* A read returns bytes; a full buffer is hashed and written to the file.
ReceiveContent ==
  /\ rcvPc = "read"
  /\ \E n \in 1 .. Min({Slice, Len(stream)}) :
       LET bytes == buffer \o SubSeq(stream, 1, n) IN
       /\ stream' = SubSeq(stream, n + 1, Len(stream))
       /\ remaining' = remaining - n
       /\ IF Len(bytes) < config.receive.buffer_size
          THEN buffer' = bytes /\ UNCHANGED <<rcvHashed, disk>>
          ELSE /\ buffer' = <<>>
               /\ rcvHashed' = rcvHashed \o FullBuffer(bytes)
               /\ disk' = disk \o bytes
  /\ UNCHANGED <<fileVars, ended, cut, rcvPc>>

\* Mutant: a read of 0 bytes is retried until the content is complete.
ReadsNothingComplete == remaining = 0

\* The read returns 0: at the end of the stream, or because the slice is empty.
ReadsNothing == remaining = 0 \/ Exhausted

\* Mutant: what is left in the buffer is not written.
RestUnflushed == <<>>

\* What is left in the buffer to write.
Rest == buffer

ReceiveEnd ==
  /\ rcvPc = "read" /\ ReadsNothing
  /\ rcvHashed' = rcvHashed \o buffer
  /\ disk' = disk \o Rest
  /\ buffer' = <<>>
  /\ rcvPc' = "footer"
  /\ UNCHANGED <<fileVars, linkVars, remaining>>

\* The hash in the footer is the one of the receiver: 0 is sent without --hash,
\* and any other bytes are no hash at all.
HashMatches(bytes) == bytes = Footer /\ config.send.hash /\ sndHashed = rcvHashed

\* Mutant: the hash is not compared.
HashUnchecked(bytes) == TRUE

HashAccepted(bytes) == config.receive.hash => HashMatches(bytes)

\* The footer first, then the two checks.
ReceiveFooter ==
  /\ rcvPc = "footer"
  /\ \/ /\ Len(stream) >= FooterLen
        /\ rcvPc' = IF remaining # 0 THEN "badSize"
                    ELSE IF HashAccepted(SubSeq(stream, 1, FooterLen)) THEN "ok" ELSE "badHash"
        /\ stream' = SubSeq(stream, FooterLen + 1, Len(stream))
     \/ ended /\ Len(stream) < FooterLen /\ rcvPc' = "eof" /\ UNCHANGED stream
  /\ UNCHANGED <<fileVars, ended, cut, remaining, buffer, rcvHashed, disk>>

\* An I/O error of the output file.
ReceiveFails ==
  /\ rcvPc \in {"create", "read"}
  /\ rcvPc' = "failed"
  /\ UNCHANGED <<fileVars, linkVars, remaining, buffer, rcvHashed, disk>>

-----------------------------------------------------------------------------
Sender   == SendHeader \/ SendContent \/ SendFooter
Receiver == ReceiveHeader \/ CreateFile \/ ReceiveContent \/ ReceiveEnd \/ ReceiveFooter

Next == Resize \/ Sender \/ Cut \/ Receiver \/ ReceiveFails

Spec == Init /\ [][Next]_vars

-----------------------------------------------------------------------------
(* Properties *)

\* With --hash, a file that is reported as received is the whole of what the
\* sender read, whatever is cut and however the source changes in between.
AcceptedIsSent ==
  rcvPc = "ok" /\ config.receive.hash => sndPc = "done" /\ disk = Content(0, sndPos)

\* Without --hash as well, it has the announced length and no byte of the footer
\* or of another place in it.
AcceptedIsAnnounced == rcvPc = "ok" => disk = Content(0, announced)

\* Neither a cut nor a source file that has another length than announced.
Undisturbed == ~cut /\ announced = sndPos

\* A transfer that nothing disturbed is not rejected, if both sides have the same
\* options or the receiver does not check the hash.
IntactIsAccepted ==
  rcvPc \in {"eof", "badSize", "badHash"} /\ Undisturbed =>
    config.receive.hash /\ config.send # config.receive

\* With --hash both sides have "the hash of file content", so the buffer size,
\* the "size of client write buffer", makes no difference to it.
HashIsOfContent ==
  rcvPc = "badHash" => ~Undisturbed \/ ~config.send.hash

\* The receiver comes to an end once the stream has.
ReceiverEnds ==
  ended ~> rcvPc \in {"ok", "exists", "eof", "badSize", "badHash", "failed"}

=============================================================================
