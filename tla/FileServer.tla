------------------------------ MODULE FileServer ------------------------------
(***************************************************************************)
(* The server that diode-receive-file is (aux/file/receive.rs): it accepts *)
(* connections of diode-receive, at most max_files of them, and a thread   *)
(* of each stores the file that comes.  FileTransfer has one such transfer *)
(* in detail; here a file is a few chunks and a stream may end early, and  *)
(* it is the threads that meet, in the output directory, and the end of    *)
(* the server that waits for them.                                         *)
(***************************************************************************)
EXTENDS Integers, Sequences, FiniteSets

CONSTANTS Files,    \* the files that connections bring, in the order they may come
          MaxFiles, \* --max-files; 0 is no limit
          Absent, Zero

ASSUME FileServerAssumption ==
  /\ \A c \in DOMAIN Files : Files[c].chunks \in Nat
  /\ MaxFiles \in Nat
  /\ Absent \notin Seq((DOMAIN Files) \cup {Zero})

Conns == DOMAIN Files
Names == {Files[c].name : c \in Conns}
Name(c) == Files[c].name

VARIABLES
  count,     \* calls of accept
  serverPc,  \* "accept", "join" when the loop has returned, "exited"
  thread,    \* of each connection: "none", "check", "open", "write" or how it ended
  offset,    \* the chunks it has written
  directory, \* the output directory: per name the writers of its chunks, or Absent
  raced      \* history: connections that found no file when another had just done so

serverVars == <<count, serverPc, thread, offset, directory, raced>>

ServerInit ==
  /\ count = 0 /\ serverPc = "accept"
  /\ thread = [c \in Conns |-> "none"]
  /\ offset = [c \in Conns |-> 0]
  /\ directory = [n \in Names |-> Absent]
  /\ raced = {}

-----------------------------------------------------------------------------
\* Connections are counted, whatever becomes of their files.
LoopEnds == MaxFiles # 0 /\ count >= MaxFiles

\* diode-receive connects for a new transfer.
Accept(c) ==
  /\ serverPc = "accept" /\ ~LoopEnds
  /\ thread[c] = "none" /\ \A d \in 1 .. (c - 1) : thread[d] # "none"
  /\ count' = count + 1
  /\ thread' = [thread EXCEPT ![c] = "check"]
  /\ UNCHANGED <<serverPc, offset, directory, raced>>

\* accept()? failed: the loop returns its error, which nobody looks at.
AcceptFails ==
  /\ serverPc = "accept" /\ ~LoopEnds
  /\ count' = count + 1
  /\ serverPc' = "join"
  /\ UNCHANGED <<thread, offset, directory, raced>>

LoopReturns ==
  /\ serverPc = "accept" /\ LoopEnds
  /\ serverPc' = "join"
  /\ UNCHANGED <<count, thread, offset, directory, raced>>

Running(c) == thread[c] \in {"check", "open", "write"}

\* Mutant: threads of no scope, which the end of the program ends where they are.
ExitAtOnce ==
  /\ serverPc = "join"
  /\ serverPc' = "exited"
  /\ UNCHANGED <<count, thread, offset, directory, raced>>

\* The scope joins the threads that are left.
Exit ==
  /\ serverPc = "join" /\ \A c \in Conns : ~Running(c)
  /\ serverPc' = "exited"
  /\ UNCHANGED <<count, thread, offset, directory, raced>>

\* Mutant: any file is overwritten.
ExistsNever(n) == FALSE

Exists(n) == directory[n] # Absent

\* The others that found no file of that name and are about to create it.
Rivals(c) == {d \in Conns \ {c} : thread[d] = "open" /\ Name(d) = Name(c)}

CheckFile(c) ==
  /\ thread[c] = "check"
  /\ thread' = [thread EXCEPT ![c] = IF Exists(Name(c)) THEN "exists" ELSE "open"]
  /\ raced' = IF thread'[c] = "open" /\ Rivals(c) # {} THEN raced \cup Rivals(c) \cup {c} ELSE raced
  /\ UNCHANGED <<count, serverPc, offset, directory>>

\* Created if it is not there, truncated if it is.
OpenFile(c) ==
  /\ thread[c] = "open"
  /\ thread' = [thread EXCEPT ![c] = "write"]
  /\ directory' = [directory EXCEPT ![Name(c)] = <<>>]
  /\ UNCHANGED <<count, serverPc, offset, raced>>

\* A chunk of c written in a file after the first `at' chunks.
WriteAt(file, at, c) ==
  [i \in 1 .. (IF Len(file) > at THEN Len(file) ELSE at + 1) |->
     IF i = at + 1 THEN c ELSE IF i \in DOMAIN file THEN file[i] ELSE Zero]

WriteChunk(c) ==
  /\ thread[c] = "write" /\ offset[c] < Files[c].chunks
  /\ directory' = [directory EXCEPT ![Name(c)] = WriteAt(@, offset[c], c)]
  /\ offset' = [offset EXCEPT ![c] = @ + 1]
  /\ UNCHANGED <<count, serverPc, thread, raced>>

\* The stream ended after the whole file, and its footer was as expected.
Received(c) ==
  /\ thread[c] = "write" /\ offset[c] = Files[c].chunks
  /\ thread' = [thread EXCEPT ![c] = "ok"]
  /\ UNCHANGED <<count, serverPc, offset, directory, raced>>

\* The stream ended early, or the directory or the file failed.  A file that was
\* created stays as it is.
Failed(c) ==
  /\ Running(c)
  /\ thread' = [thread EXCEPT ![c] = "failed"]
  /\ UNCHANGED <<count, serverPc, offset, directory, raced>>

\* The threads of a program that has ended take no step.
ReceiveFile(c) ==
  /\ serverPc # "exited"
  /\ CheckFile(c) \/ OpenFile(c) \/ WriteChunk(c) \/ Received(c) \/ Failed(c)

FileServer == LoopReturns \/ Exit

ServerNext == FileServer \/ AcceptFails \/ \E c \in Conns : Accept(c) \/ ReceiveFile(c)

-----------------------------------------------------------------------------
(* Properties *)

Whole(c) == [i \in 1 .. Files[c].chunks |-> c]

\* A file that was reported as received is there as a whole, and stays so whatever
\* else is received and fails, unless another thread found no such file either
\* between its own look and the creation of the file.
OkIsWhole == \A c \in Conns \ raced : thread[c] = "ok" => directory[Name(c)] = Whole(c)

\* A connection that was accepted is dealt with, and what ends the server does not
\* cut it off: after its last connection, or when accept fails while files are coming
\* in, the program goes on until every thread has its file whole, or has refused it,
\* or has failed by itself; then it does end.  It counts connections, so that this may
\* be before "max_files files" were received (bin/diode-receive-file.rs:47).
FilesBeforeExit ==
  /\ \A c \in Conns : thread[c] = "check" ~> thread[c] \in {"ok", "exists", "failed"}
  /\ serverPc = "join" \/ LoopEnds ~> serverPc = "exited"

=============================================================================
