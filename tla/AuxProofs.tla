------------------------------ MODULE AuxProofs ------------------------------
(***************************************************************************)
(* Proofs about the programs beside the diode, for any sizes of buffers,   *)
(* footers and files, any number of connections, sessions and datagrams:   *)
(* a file that is reported is whole, and datagrams stay apart.             *)
(***************************************************************************)
EXTENDS AuxPrograms, SequenceTheorems, TLAPS

-----------------------------------------------------------------------------
(* The file server *)

Contents == Seq(Conns \cup {Zero})

\* Connections of the same name as c.
Namesakes(c) == {d \in Conns \ {c} : Name(d) = Name(c)}

ServerTypes ==
  /\ thread \in [Conns -> {"none", "check", "open", "write", "ok", "exists", "failed"}]
  /\ offset \in [Conns -> Nat]
  /\ directory \in [Names -> Contents \cup {Absent}]
  /\ \A c \in Conns : thread[c] \in {"none", "check", "open"} => offset[c] = 0

\* A file is there as soon as one of its name was opened.
OpenedExist ==
  \A c \in Conns : thread[c] \in {"write", "ok"} => directory[Name(c)] # Absent

\* Who is about to create a file that is there, or that another is about to
\* create as well, has raced.
CreatorsInv ==
  \A c \in Conns \ raced : thread[c] = "open" =>
    /\ directory[Name(c)] = Absent
    /\ \A d \in Namesakes(c) : thread[d] # "open"

\* Who has created a file without a race is the only one who writes to it, and
\* nobody will create it again.
WritersInv ==
  \A c \in Conns \ raced : thread[c] \in {"write", "ok"} =>
    /\ directory[Name(c)] = [i \in 1 .. offset[c] |-> c]
    /\ thread[c] = "ok" => offset[c] = Files[c].chunks
    /\ \A d \in Namesakes(c) : thread[d] \notin {"open", "write"}

ServerInv == ServerTypes /\ OpenedExist /\ CreatorsInv /\ WritersInv

LEMMA NamesType == \A c \in Conns : Name(c) \in Names /\ Files[c].chunks \in Nat
BY FileServerAssumption DEF Names, Name, Conns

LEMMA ContentsAreFiles == <<>> \in Contents /\ Absent \notin Contents
BY FileServerAssumption DEF Contents, Conns

LEMMA WriteAtType ==
  ASSUME NEW file \in Contents, NEW at \in Nat, NEW c \in Conns
  PROVE  WriteAt(file, at, c) \in Contents
<1>1. \A i \in 1 .. (IF Len(file) > at THEN Len(file) ELSE at + 1) :
        (IF i = at + 1 THEN c ELSE IF i \in DOMAIN file THEN file[i] ELSE Zero)
          \in Conns \cup {Zero}
  BY DEF Contents
<1>2. (IF Len(file) > at THEN Len(file) ELSE at + 1) \in Nat
  BY DEF Contents
<1>3. QED
  BY <1>1, <1>2 DEF WriteAt, Contents

\* The next chunk of a file that has the chunks of c before it, and no other.
LEMMA WriteAtEnd ==
  ASSUME NEW n \in Nat, NEW c \in Conns
  PROVE  WriteAt([i \in 1 .. n |-> c], n, c) = [i \in 1 .. (n + 1) |-> c]
<1> DEFINE file == [i \in 1 .. n |-> c]
<1>1. Len(file) = n /\ DOMAIN file = 1 .. n
  <2>1. file \in [1 .. n -> Conns]
    OBVIOUS
  <2>2. QED
    BY <2>1
<1>2. (IF Len(file) > n THEN Len(file) ELSE n + 1) = n + 1
  BY <1>1
<1>3. \A i \in 1 .. (n + 1) :
        (IF i = n + 1 THEN c ELSE IF i \in DOMAIN file THEN file[i] ELSE Zero) = c
  BY <1>1
<1>4. QED
  BY <1>2, <1>3 DEF WriteAt

LEMMA ServerStarts == ServerInit => ServerInv
BY NamesType DEF ServerInit, ServerInv, ServerTypes, OpenedExist, CreatorsInv, WritersInv

LEMMA ServerStep ==
  ASSUME ServerInv, [ServerNext]_serverVars
  PROVE  ServerInv'
<1> USE NamesType
<1>1. CASE UNCHANGED <<thread, offset, directory, raced>>
  BY <1>1 DEF ServerInv, ServerTypes, OpenedExist, CreatorsInv, WritersInv, Namesakes
<1>2. ASSUME NEW c \in Conns, Accept(c)
      PROVE  ServerInv'
  BY <1>2 DEF Accept, ServerInv, ServerTypes, OpenedExist, CreatorsInv, WritersInv, Namesakes
<1>3. ASSUME NEW c \in Conns, Failed(c)
      PROVE  ServerInv'
  BY <1>3 DEF Failed, Running, ServerInv, ServerTypes, OpenedExist, CreatorsInv, WritersInv,
     Namesakes
<1>4. ASSUME NEW c \in Conns, Received(c)
      PROVE  ServerInv'
  BY <1>4 DEF Received, ServerInv, ServerTypes, OpenedExist, CreatorsInv, WritersInv, Namesakes
<1>5. ASSUME NEW c \in Conns, CheckFile(c)
      PROVE  ServerInv'
  <2> USE <1>5 DEF CheckFile, ServerInv
  <2>1. ServerTypes' /\ OpenedExist'
    BY DEF ServerTypes, OpenedExist
  <2>2. CreatorsInv'
    BY DEF ServerTypes, CreatorsInv, Rivals, Exists, Namesakes
  <2>3. WritersInv'
    BY DEF ServerTypes, OpenedExist, WritersInv, Rivals, Exists, Namesakes
  <2>4. QED
    BY <2>1, <2>2, <2>3
<1>6. ASSUME NEW c \in Conns, OpenFile(c)
      PROVE  ServerInv'
  <2> USE <1>6 DEF OpenFile, ServerInv
  <2>1. <<>> \in Contents /\ <<>> # Absent
    BY ContentsAreFiles
  <2>2. ServerTypes' /\ OpenedExist'
    BY <2>1 DEF ServerTypes, OpenedExist
  <2>3. CreatorsInv'
    BY DEF ServerTypes, CreatorsInv, Namesakes
  <2>4. <<>> = [i \in 1 .. 0 |-> c]
    OBVIOUS
  <2>5. WritersInv'
    BY <2>4 DEF ServerTypes, OpenedExist, CreatorsInv, WritersInv, Namesakes
  <2>6. QED
    BY <2>2, <2>3, <2>5
<1>7. ASSUME NEW c \in Conns, WriteChunk(c)
      PROVE  ServerInv'
  <2> USE <1>7 DEF WriteChunk, ServerInv
  <2> DEFINE n == Name(c)
             file == WriteAt(directory[n], offset[c], c)
  <2>1. directory[n] \in Contents /\ offset[c] \in Nat
    BY DEF ServerTypes, OpenedExist
  <2>2. file \in Contents /\ file # Absent
    BY <2>1, WriteAtType, ContentsAreFiles
  <2>3. c \notin raced => file = [i \in 1 .. (offset[c] + 1) |-> c]
    <3>1. c \notin raced => directory[n] = [i \in 1 .. offset[c] |-> c]
      BY DEF WritersInv
    <3>2. WriteAt([i \in 1 .. offset[c] |-> c], offset[c], c)
            = [i \in 1 .. (offset[c] + 1) |-> c]
      BY <2>1, WriteAtEnd
    <3>3. QED
      BY <3>1, <3>2
  <2>4. /\ directory' = [directory EXCEPT ![n] = file]
        /\ offset' = [offset EXCEPT ![c] = offset[c] + 1]
        /\ UNCHANGED <<thread, raced>> /\ thread[c] = "write"
    OBVIOUS
  <2> HIDE DEF file, WriteChunk
  <2>5. ServerTypes' /\ OpenedExist'
    BY <2>1, <2>2, <2>4 DEF ServerTypes, OpenedExist
  <2>6. CreatorsInv'
    BY <2>1, <2>4 DEF ServerTypes, CreatorsInv, OpenedExist, Namesakes
  <2>7. WritersInv'
    <3>1. SUFFICES ASSUME NEW d \in Conns \ raced, thread[d] \in {"write", "ok"}
                   PROVE  /\ directory'[Name(d)] = [i \in 1 .. offset'[d] |-> d]
                          /\ thread[d] = "ok" => offset'[d] = Files[d].chunks
      BY <2>4 DEF WritersInv, Namesakes
    <3>2. CASE d = c
      BY <2>1, <2>3, <2>4, <3>1, <3>2 DEF ServerTypes, WritersInv
    <3>3. CASE d # c
      <4>1. Name(d) # n
        BY <2>4, <3>1, <3>3 DEF WritersInv, Namesakes
      <4>2. directory'[Name(d)] = directory[Name(d)] /\ offset'[d] = offset[d]
        BY <2>4, <3>3, <4>1 DEF ServerTypes
      <4>3. QED
        BY <3>1, <4>2 DEF WritersInv
    <3>4. QED
      BY <3>2, <3>3
  <2>8. QED
    BY <2>5, <2>6, <2>7
<1>8. QED
  BY <1>1, <1>2, <1>3, <1>4, <1>5, <1>6, <1>7
  DEF ServerNext, FileServer, ReceiveFile, AcceptFails, LoopReturns, Exit, serverVars

-----------------------------------------------------------------------------
(* The UDP tunnel *)

FrameByte(k, i) == [kind |-> "byte", val |-> <<k, i>>]

Items == [kind : {"header"}, val : Nat] \cup [kind : {"byte"}, val : Nat \X Nat]

\* The two parts of a concatenation.
LEMMA Joined ==
  ASSUME NEW S, NEW s1 \in Seq(S), NEW s2 \in Seq(S),
         NEW m \in Nat, m = Len(s1), NEW n \in Nat, n = Len(s2)
  PROVE  /\ s1 \o s2 \in Seq(S) /\ Len(s1 \o s2) = m + n
         /\ \A i \in 1 .. m : (s1 \o s2)[i] = s1[i]
         /\ \A i \in 1 .. n : (s1 \o s2)[m + i] = s2[i]
<1>1. /\ s1 \o s2 \in Seq(S) /\ Len(s1 \o s2) = m + n
      /\ \A i \in 1 .. (m + n) : (s1 \o s2)[i] = IF i <= m THEN s1[i] ELSE s2[i - m]
  BY ConcatProperties
<1>2. ASSUME NEW i \in 1 .. m PROVE (s1 \o s2)[i] = s1[i]
  <2>1. i \in 1 .. (m + n) /\ i <= m
    OBVIOUS
  <2>2. QED
    BY <2>1, <1>1
<1>3. ASSUME NEW i \in 1 .. n PROVE (s1 \o s2)[m + i] = s2[i]
  <2>1. m + i \in 1 .. (m + n) /\ ~(m + i <= m) /\ m + i - m = i
    OBVIOUS
  <2>2. QED
    BY <2>1, <1>1
<1>4. QED
  BY <1>1, <1>2, <1>3

\* The frames of m datagrams of sizes t in the stream q of n items, in which
\* start[k] is the place of the header of frame k, as far as q still has it and
\* already has it.  The last one is where the next frame will start.
Placed(q, n, t, m, start) ==
  /\ start \in [1 .. (m + 1) -> Int]
  /\ \A k \in 1 .. m : start[k + 1] = start[k] + 1 + t[k]
  /\ \A k, l \in 1 .. (m + 1) : k < l => start[k] + 1 + t[k] <= start[l]
  /\ \A k \in 1 .. m : start[k] \in 1 .. n => q[start[k]] = FrameHeader(t[k])
  /\ \A k \in 1 .. m : \A i \in 1 .. t[k] :
       start[k] + i \in 1 .. n => q[start[k] + i] = FrameByte(k, i)
  /\ n < start[m + 1]

Dropped(q, n, d, rest) == \A i \in (d + 1) .. n : rest[i - d] = q[i]

Moved(start, m, d, moved) == \A k \in 1 .. (m + 1) : moved[k] = start[k] - d

\* Bytes are read.
LEMMA PlacedRead ==
  ASSUME NEW q, NEW n \in Nat, NEW t, NEW m \in Nat, NEW start,
         \A k \in 1 .. m : t[k] \in Nat, Placed(q, n, t, m, start),
         NEW d \in Nat, d <= n, NEW rest, Dropped(q, n, d, rest)
  PROVE  \E moved : Placed(rest, n - d, t, m, moved) /\ Moved(start, m, d, moved)
<1> USE DEF Dropped, Moved
<1> DEFINE moved == [k \in 1 .. (m + 1) |-> start[k] - d]
<1>1. start \in [1 .. (m + 1) -> Int]
  BY DEF Placed
<1>2. moved \in [1 .. (m + 1) -> Int]
  BY <1>1
<1>3. \A k \in 1 .. (m + 1) : moved[k] = start[k] - d
  OBVIOUS
<1> HIDE DEF moved
<1>4. ASSUME NEW k \in 1 .. m
      PROVE  moved[k + 1] = moved[k] + 1 + t[k]
  <2>1. k \in 1 .. (m + 1) /\ k + 1 \in 1 .. (m + 1) /\ t[k] \in Nat
    OBVIOUS
  <2>2. start[k + 1] = start[k] + 1 + t[k]
    BY DEF Placed
  <2>3. start[k] \in Int /\ moved[k] = start[k] - d /\ moved[k + 1] = start[k + 1] - d
    BY <1>1, <1>3, <2>1
  <2>4. QED
    BY <2>1, <2>2, <2>3
<1>5. \A k, l \in 1 .. (m + 1) : k < l => moved[k] + 1 + t[k] <= moved[l]
  <2>1. SUFFICES ASSUME NEW k \in 1 .. (m + 1), NEW l \in 1 .. (m + 1), k < l
                 PROVE  moved[k] + 1 + t[k] <= moved[l]
    OBVIOUS
  <2>2. start[k] + 1 + t[k] <= start[l]
    BY <2>1 DEF Placed
  <2>3. t[k] \in Nat
    BY <2>1
  <2>4. start[k] \in Int /\ start[l] \in Int /\ moved[k] = start[k] - d /\ moved[l] = start[l] - d
    BY <1>1, <1>3
  <2>5. QED
    BY <2>2, <2>3, <2>4
<1>6. ASSUME NEW k \in 1 .. m, moved[k] \in 1 .. (n - d)
      PROVE  rest[moved[k]] = FrameHeader(t[k])
  <2>1. start[k] \in Int /\ moved[k] = start[k] - d
    BY <1>1, <1>3
  <2>2. start[k] \in (d + 1) .. n /\ start[k] \in 1 .. n
    BY <1>6, <2>1
  <2>3. rest[moved[k]] = q[start[k]]
    BY <2>1, <2>2
  <2>4. QED
    BY <2>2, <2>3 DEF Placed
<1>7. ASSUME NEW k \in 1 .. m, NEW i \in 1 .. t[k], moved[k] + i \in 1 .. (n - d)
      PROVE  rest[moved[k] + i] = FrameByte(k, i)
  <2>1. start[k] \in Int /\ moved[k] = start[k] - d /\ i \in Int
    BY <1>1, <1>3
  <2>2. start[k] + i \in (d + 1) .. n /\ start[k] + i \in 1 .. n /\ moved[k] + i = start[k] + i - d
    BY <1>7, <2>1
  <2>3. rest[start[k] + i - d] = q[start[k] + i]
    <3>1. PICK p \in (d + 1) .. n : p = start[k] + i
      BY <2>2
    <3>2. rest[p - d] = q[p]
      OBVIOUS
    <3>3. start[k] + i - d = p - d
      BY <2>1, <3>1
    <3>4. QED
      BY <3>1, <3>2, <3>3, Zenon
  <2>4. rest[moved[k] + i] = q[start[k] + i]
    BY <2>2, <2>3
  <2>5. QED
    BY <2>2, <2>4 DEF Placed
<1>8. n - d < moved[m + 1]
  BY <1>1, <1>3 DEF Placed
<1>9. Placed(rest, n - d, t, m, moved)
  BY <1>2, <1>4, <1>5, <1>6, <1>7, <1>8 DEF Placed
<1>10. QED
  BY <1>3, <1>9

\* What is on its way is cut.
LEMMA PlacedCut ==
  ASSUME NEW q, NEW n \in Nat, NEW t, NEW m \in Nat, NEW start, Placed(q, n, t, m, start),
         NEW c \in 0 .. n, NEW rest, \A i \in 1 .. c : rest[i] = q[i]
  PROVE  Placed(rest, c, t, m, start)
<1>1. start \in [1 .. (m + 1) -> Int] /\ start[m + 1] \in Int /\ \A i \in 1 .. c : i \in 1 .. n
  BY DEF Placed
<1>2. c < start[m + 1]
  BY <1>1 DEF Placed
<1>3. ASSUME NEW k \in 1 .. m, start[k] \in 1 .. c PROVE rest[start[k]] = FrameHeader(t[k])
  BY <1>1, <1>3 DEF Placed
<1>4. ASSUME NEW k \in 1 .. m, NEW i \in 1 .. t[k], start[k] + i \in 1 .. c
      PROVE  rest[start[k] + i] = FrameByte(k, i)
  BY <1>1, <1>4 DEF Placed
<1>5. /\ \A k \in 1 .. m : start[k + 1] = start[k] + 1 + t[k]
      /\ \A k, l \in 1 .. (m + 1) : k < l => start[k] + 1 + t[k] <= start[l]
  BY DEF Placed
<1>6. QED
  BY <1>1, <1>2, <1>3, <1>4, <1>5 DEF Placed

Appended(q, n, item, longer) == longer[n + 1] = item /\ \A i \in 1 .. n : longer[i] = q[i]

\* A header is written.
LEMMA PlacedHeader ==
  ASSUME NEW q, NEW n \in Nat, NEW t, NEW m \in Nat, NEW start,
         \A k \in 1 .. m : t[k] \in Nat, Placed(q, n, t, m, start), n = start[m + 1] - 1,
         NEW len \in Nat, NEW longer, Appended(q, n, FrameHeader(len), longer),
         NEW sizes, Appended(t, m, len, sizes)
  PROVE  \E more :
           /\ Placed(longer, n + 1, sizes, m + 1, more)
           /\ \A k \in 1 .. (m + 1) : more[k] = start[k]
<1> USE DEF Appended
<1> DEFINE more == [k \in 1 .. (m + 2) |-> IF k = m + 2 THEN start[m + 1] + 1 + len ELSE start[k]]
<1>1. /\ start \in [1 .. (m + 1) -> Int]
      /\ \A k \in 1 .. m : start[k] + 1 + t[k] <= start[m + 1]
      /\ \A k \in 1 .. (m + 1) : k \in 1 .. m \/ k = m + 1
      /\ m + 1 \in 1 .. (m + 1)
  BY DEF Placed
<1>2. more \in [1 .. (m + 2) -> Int]
  BY <1>1
<1>3. more[m + 2] = n + 2 + len /\ \A k \in 1 .. (m + 1) : more[k] = start[k]
  BY <1>1
<1> HIDE DEF more
<1>4. \A k \in 1 .. (m + 1) : more[k + 1] = more[k] + 1 + sizes[k]
  <2>1. \A k \in 1 .. m : k + 1 \in 1 .. (m + 1) /\ k \in 1 .. (m + 1)
    OBVIOUS
  <2>2. \A k \in 1 .. m : more[k + 1] = more[k] + 1 + sizes[k]
    BY <1>3, <2>1 DEF Placed
  <2>3. more[m + 1 + 1] = more[m + 1] + 1 + sizes[m + 1]
    BY <1>1, <1>3
  <2>4. QED
    BY <1>1, <2>2, <2>3
<1>5. \A k, l \in 1 .. (m + 2) : k < l => more[k] + 1 + sizes[k] <= more[l]
  <2>1. SUFFICES ASSUME NEW k \in 1 .. (m + 2), NEW l \in 1 .. (m + 2), k < l
                 PROVE  more[k] + 1 + sizes[k] <= more[l]
    OBVIOUS
  <2>2. CASE k = m + 1
    <3>1. l = m + 2
      BY <2>1, <2>2
    <3>2. QED
      BY <1>1, <1>3, <2>2, <3>1
  <2>3. CASE k \in 1 .. m
    <3>1. start[k] \in Int /\ start[m + 1] \in Int /\ t[k] \in Nat /\ start[k] + 1 + t[k] <= start[m + 1]
      BY <1>1, <2>3
    <3>2. more[k] = start[k] /\ sizes[k] = t[k]
      <4>1. k \in 1 .. (m + 1)
        BY <2>3
      <4>2. more[k] = start[k]
        BY <1>3, <4>1
      <4>3. QED
        BY <2>3, <4>2
    <3>3. CASE l = m + 2
      <4>1. start[m + 1] = n + 1
        BY <3>1
      <4>2. more[l] = n + 2 + len
        BY <1>3, <3>3
      <4>3. start[k] + 1 + t[k] <= n + 1
        BY <3>1, <4>1
      <4>4. more[k] + 1 + sizes[k] = start[k] + 1 + t[k]
        BY <3>2
      <4>5. n + 1 <= n + 2 + len
        OBVIOUS
      <4>6. QED
        BY <3>1, <4>2, <4>3, <4>4, <4>5
    <3>4. CASE l \in 1 .. (m + 1)
      <4>1. start[k] + 1 + t[k] <= start[l]
        BY <2>1, <2>3, <3>4 DEF Placed
      <4>2. QED
        BY <1>3, <3>2, <3>4, <4>1
    <3>5. QED
      BY <3>3, <3>4
  <2>4. QED
    BY <2>1, <2>2, <2>3
<1>6. ASSUME NEW k \in 1 .. (m + 1), more[k] \in 1 .. (n + 1)
      PROVE  longer[more[k]] = FrameHeader(sizes[k])
  <2>1. CASE k = m + 1
    <3>1. more[k] = n + 1
      <4>1. m + 1 \in 1 .. (m + 1)
        OBVIOUS
      <4>2. more[m + 1] = start[m + 1] /\ start[m + 1] = n + 1
        BY <1>1, <1>3, <4>1
      <4>3. QED
        BY <2>1, <4>2
    <3>2. QED
      BY <2>1, <3>1
  <2>2. CASE k \in 1 .. m
    <3>1. /\ start[k] + 1 + t[k] <= start[m + 1] /\ start[k] \in Int /\ t[k] \in Nat
          /\ more[k] = start[k] /\ start[m + 1] \in Int
      BY <1>1, <1>3, <2>2
    <3>2. start[k] <= n /\ start[k] >= 1
      BY <1>6, <3>1
    <3>3. start[k] \in 1 .. n
      BY <3>1, <3>2
    <3>4. q[start[k]] = FrameHeader(t[k])
      BY <2>2, <3>3 DEF Placed
    <3>5. longer[start[k]] = q[start[k]]
      BY <3>3
    <3>6. QED
      BY <2>2, <3>1, <3>4, <3>5
  <2>3. QED
    BY <1>1, <2>1, <2>2
<1>7. ASSUME NEW k \in 1 .. (m + 1), NEW i \in 1 .. sizes[k], more[k] + i \in 1 .. (n + 1)
      PROVE  longer[more[k] + i] = FrameByte(k, i)
  <2>1. CASE k = m + 1
    <3>1. more[k] = n + 1 /\ i >= 1 /\ i \in Nat
      BY <1>1, <1>3, <2>1
    <3>2. QED
      BY <1>7, <3>1
  <2>2. CASE k \in 1 .. m
    <3>1. /\ start[k] + 1 + t[k] <= start[m + 1] /\ start[k] \in Int /\ t[k] \in Nat
          /\ more[k] = start[k] /\ i \in 1 .. t[k] /\ start[m + 1] \in Int
      BY <1>1, <1>3, <2>2
    <3>2. start[k] + i <= n /\ start[k] + i >= 1
      BY <1>7, <3>1
    <3>3. start[k] + i \in 1 .. n
      BY <3>1, <3>2
    <3>4. q[start[k] + i] = FrameByte(k, i)
      BY <2>2, <3>1, <3>3 DEF Placed
    <3>5. longer[start[k] + i] = q[start[k] + i]
      BY <3>3
    <3>6. QED
      BY <3>1, <3>4, <3>5
  <2>3. QED
    BY <1>1, <2>1, <2>2
<1>8. n + 1 < more[m + 1 + 1]
  BY <1>3
<1>9. Placed(longer, n + 1, sizes, m + 1, more)
  BY <1>2, <1>4, <1>5, <1>6, <1>7, <1>8 DEF Placed
<1>10. QED
  BY <1>3, <1>9

\* The bytes of datagram k.
BytesAppended(q, n, k, len, longer) ==
  /\ \A i \in 1 .. n : longer[i] = q[i]
  /\ \A i \in 1 .. len : longer[n + i] = FrameByte(k, i)

\* The bytes of the last datagram are written.
LEMMA PlacedBytes ==
  ASSUME NEW q, NEW n \in Nat, NEW t, NEW m \in Nat, NEW start,
         \A k \in 1 .. m : t[k] \in Nat, Placed(q, n, t, m, start), m > 0, n = start[m],
         NEW longer, BytesAppended(q, n, m, t[m], longer)
  PROVE  /\ Placed(longer, n + t[m], t, m, start)
         /\ n + t[m] = start[m + 1] - 1
<1> USE DEF BytesAppended
<1>1. /\ start \in [1 .. (m + 1) -> Int]
      /\ \A k \in 1 .. (m - 1) : start[k] + 1 + t[k] <= start[m]
      /\ \A k \in 1 .. m : k \in 1 .. (m - 1) \/ k = m
      /\ m \in 1 .. m /\ t[m] \in Nat
  BY DEF Placed
<1>2. start[m + 1] = n + 1 + t[m]
  BY <1>1 DEF Placed
<1>3. ASSUME NEW k \in 1 .. m, start[k] \in 1 .. (n + t[m])
      PROVE  longer[start[k]] = FrameHeader(t[k])
  <2>1. start[k] \in 1 .. n
    <3>1. CASE k = m
      BY <1>1, <1>3, <3>1
    <3>2. CASE k \in 1 .. (m - 1)
      <4>1. start[k] + 1 + t[k] <= n /\ t[k] \in Nat
        BY <1>1, <3>2
      <4>2. QED
        BY <1>3, <4>1
    <3>3. QED
      BY <1>1, <3>1, <3>2
  <2>2. QED
    BY <2>1 DEF Placed
<1>4. ASSUME NEW k \in 1 .. m, NEW i \in 1 .. t[k], start[k] + i \in 1 .. (n + t[m])
      PROVE  longer[start[k] + i] = FrameByte(k, i)
  <2>1. CASE k = m
    BY <2>1
  <2>2. CASE k \in 1 .. (m - 1)
    <3>1. start[k] + 1 + t[k] <= n /\ t[k] \in Nat /\ start[k] \in Int
      BY <1>1, <2>2
    <3>2. start[k] + i \in 1 .. n
      BY <1>4, <3>1
    <3>3. QED
      BY <3>2 DEF Placed
  <2>3. QED
    BY <1>1, <2>1, <2>2
<1>5. n + t[m] < start[m + 1]
  BY <1>1, <1>2
<1>6. Placed(longer, n + t[m], t, m, start)
  BY <1>3, <1>4, <1>5 DEF Placed
<1>7. QED
  BY <1>1, <1>2, <1>6

TunnelTypes ==
  /\ opened \in 0 .. Len(MaxDatagrams)
  /\ taken \in [Sessions -> Seq(Nat)]
  /\ writing \in [Sessions -> BOOLEAN]
  /\ pipe \in [Sessions -> Seq(Items)]
  /\ closed \in [Sessions -> BOOLEAN]
  /\ harmed \in [Sessions -> SUBSET {"cut", "hole"}]
  /\ served \in 0 .. opened
  /\ tunPc \in {"accept", "header", "bytes", "panicked"}
  /\ tunPc # "accept" => served \in Sessions
  /\ size \in Nat
  /\ sentOn \in [Sessions -> Seq(Seq(Items))]
  /\ \A s \in Sessions : writing[s] => Len(taken[s]) > 0
  /\ \A s \in Sessions : s > served => sentOn[s] = <<>>

\* The frames of session s are placed so, and the writer is at their end.
Frames(s, start) ==
  LET n == Len(pipe[s]) m == Len(taken[s]) IN
  /\ Placed(pipe[s], n, taken[s], m, start)
  /\ ~closed[s] => n = IF writing[s] THEN start[m] ELSE start[m + 1] - 1

\* The reader is where the frame after those that were sent on starts, or has
\* read the header of it.
Reading(s, start) ==
  LET next == Len(sentOn[s]) + 1 IN
  IF s = served /\ tunPc = "bytes"
  THEN next <= Len(taken[s]) /\ start[next] = 0 /\ size = taken[s][next]
  ELSE start[next] = 1

\* Whoever reads the rest of what session s has in the pipe.
Live(s) == s > served \/ (s = served /\ tunPc \in {"header", "bytes"})

SentOnFrames(s) ==
  /\ Len(sentOn[s]) <= Len(taken[s])
  /\ \A k \in 1 .. Len(sentOn[s]) : sentOn[s][k] = Datagram(k, taken[s][k])

SessionInv(s) ==
  "hole" \notin harmed[s] =>
    /\ SentOnFrames(s)
    /\ Live(s) => \E start : Frames(s, start) /\ Reading(s, start)

TunnelInv == TunnelTypes /\ \A s \in Sessions : SessionInv(s)

LEMMA SessionNumbers == Sessions = 1 .. Len(MaxDatagrams) /\ Len(MaxDatagrams) \in Nat
BY UdpTunnelAssumption DEF Sessions

LEMMA HeaderType == \A n \in Nat : FrameHeader(n) \in Items
BY DEF FrameHeader, Items

LEMMA DatagramType ==
  ASSUME NEW k \in Nat, NEW n \in Nat
  PROVE  /\ Datagram(k, n) \in Seq(Items) /\ Len(Datagram(k, n)) = n
         /\ \A i \in 1 .. n : Datagram(k, n)[i] = FrameByte(k, i)
<1>1. \A i \in 1 .. n : FrameByte(k, i) \in Items
  BY DEF FrameByte, Items
<1>2. Datagram(k, n) = [i \in 1 .. n |-> FrameByte(k, i)]
  BY DEF Datagram, FrameByte
<1>3. [i \in 1 .. n |-> FrameByte(k, i)] \in [1 .. n -> Items]
  BY <1>1
<1>4. QED
  BY <1>2, <1>3

\* A session that no step is about stays as it was.
LEMMA SessionKeeps ==
  ASSUME NEW s \in Sessions, SessionInv(s), Live(s)' => Live(s),
         UNCHANGED <<taken[s], writing[s], pipe[s], closed[s], harmed[s], sentOn[s]>>,
         Live(s)' =>
           /\ (s = served' /\ tunPc' = "bytes") <=> (s = served /\ tunPc = "bytes")
           /\ s = served /\ tunPc = "bytes" => UNCHANGED size
  PROVE  SessionInv(s)'
<1>1. SentOnFrames(s)' <=> SentOnFrames(s)
  BY DEF SentOnFrames
<1>2. ASSUME NEW start
      PROVE  Frames(s, start)' <=> Frames(s, start)
  BY DEF Frames
<1>3. ASSUME NEW start, Live(s)'
      PROVE  Reading(s, start)' <=> Reading(s, start)
  BY <1>3 DEF Reading
<1>4. QED
  BY <1>1, <1>2, <1>3 DEF SessionInv

LEMMA TunnelStarts == TunnelInit => TunnelInv
<1> SUFFICES ASSUME TunnelInit PROVE TunnelInv
  OBVIOUS
<1>1. TunnelTypes
  BY SessionNumbers DEF TunnelInit, TunnelTypes
<1>2. ASSUME NEW s \in Sessions
      PROVE  SessionInv(s)
  <2> DEFINE start == [k \in 1 .. 1 |-> 1]
  <2>1. taken[s] = <<>> /\ pipe[s] = <<>> /\ sentOn[s] = <<>> /\ ~writing[s] /\ served = 0
    BY <1>2 DEF TunnelInit
  <2>2. start \in [1 .. (0 + 1) -> Int] /\ start[1] = 1
    OBVIOUS
  <2>3. Placed(<<>>, 0, <<>>, 0, start)
    BY <2>2 DEF Placed
  <2>4. Frames(s, start)
    BY <2>1, <2>2, <2>3 DEF Frames
  <2>5. Reading(s, start)
    BY <2>1, <2>2, <1>2, SessionNumbers DEF Reading
  <2>6. SentOnFrames(s)
    BY <2>1 DEF SentOnFrames
  <2>7. QED
    BY <2>4, <2>5, <2>6 DEF SessionInv
<1>3. QED
  BY <1>1, <1>2 DEF TunnelInv

LEMMA ConnectStep ==
  ASSUME TunnelInv, Connect
  PROVE  TunnelInv'
<1>1. TunnelTypes'
  BY SessionNumbers DEF TunnelInv, TunnelTypes, Connect
<1>2. ASSUME NEW s \in Sessions
      PROVE  SessionInv(s)'
  BY SessionKeeps DEF TunnelInv, Connect, Live
<1>3. QED
  BY <1>1, <1>2 DEF TunnelInv

LEMMA WriteHeaderStep ==
  ASSUME TunnelInv, NEW s \in Sessions, WriteHeader(s)
  PROVE  TunnelInv'
<1>1. PICK n \in 0 .. BufferSize :
        /\ taken' = [taken EXCEPT ![s] = Append(taken[s], n)]
        /\ pipe' = [pipe EXCEPT ![s] = Append(pipe[s], FrameHeader(n))]
  BY DEF WriteHeader
<1>2. /\ TunnelTypes /\ ~closed[s] /\ ~writing[s] /\ s <= opened
      /\ writing' = [writing EXCEPT ![s] = TRUE]
      /\ UNCHANGED <<opened, closed, harmed, served, tunPc, size, sentOn>>
  BY DEF TunnelInv, WriteHeader
<1>3. n \in Nat /\ FrameHeader(n) \in Items
  BY UdpTunnelAssumption, HeaderType
<1>4. /\ taken[s] \in Seq(Nat) /\ pipe[s] \in Seq(Items) /\ sentOn[s] \in Seq(Seq(Items))
      /\ taken'[s] = Append(taken[s], n) /\ pipe'[s] = Append(pipe[s], FrameHeader(n))
      /\ writing'[s] = TRUE
  BY <1>1, <1>2, <1>3 DEF TunnelTypes
<1>5. TunnelTypes'
  <2>1. /\ taken' \in [Sessions -> Seq(Nat)] /\ pipe' \in [Sessions -> Seq(Items)]
        /\ writing' \in [Sessions -> BOOLEAN]
    BY <1>1, <1>2, <1>3, <1>4 DEF TunnelTypes
  <2>2. \A r \in Sessions : writing'[r] => Len(taken'[r]) > 0
    BY <1>1, <1>2, <1>3, <1>4 DEF TunnelTypes
  <2>3. QED
    BY <1>2, <2>1, <2>2 DEF TunnelTypes
<1>6. ASSUME NEW r \in Sessions \ {s}
      PROVE  SessionInv(r)'
  <2>1. UNCHANGED <<taken[r], writing[r], pipe[r], closed[r], harmed[r], sentOn[r]>>
    BY <1>1, <1>2 DEF TunnelTypes
  <2>2. QED
    BY <1>2, <2>1, SessionKeeps DEF TunnelInv, Live
<1>7. SessionInv(s)'
  <2> SUFFICES ASSUME "hole" \notin harmed[s]
               PROVE  SentOnFrames(s)' /\ (Live(s)' => \E start : (Frames(s, start) /\ Reading(s, start))')
    BY <1>2 DEF SessionInv
  <2> DEFINE m == Len(taken[s])
  <2>1. SentOnFrames(s) /\ (Live(s) => \E start : Frames(s, start) /\ Reading(s, start))
    BY DEF TunnelInv, SessionInv
  <2>2. /\ m \in Nat /\ Len(taken'[s]) = m + 1 /\ taken'[s][m + 1] = n
        /\ \A k \in 1 .. m : taken'[s][k] = taken[s][k] /\ taken[s][k] \in Nat
    BY <1>3, <1>4
  <2>3. /\ Len(pipe[s]) \in Nat /\ Len(pipe'[s]) = Len(pipe[s]) + 1
        /\ pipe'[s][Len(pipe[s]) + 1] = FrameHeader(n)
        /\ \A i \in 1 .. Len(pipe[s]) : pipe'[s][i] = pipe[s][i]
    BY <1>3, <1>4
  <2>4. Len(sentOn[s]) \in Nat /\ Len(sentOn[s]) <= m
    BY <1>4, <2>1 DEF SentOnFrames
  <2>5. SentOnFrames(s)'
    BY <1>2, <2>1, <2>2, <2>4 DEF SentOnFrames
  <2>6. ASSUME Live(s)'
        PROVE  \E start : (Frames(s, start) /\ Reading(s, start))'
    <3>1. PICK start : Frames(s, start) /\ Reading(s, start)
      BY <1>2, <2>1, <2>6 DEF Live
    <3>2. /\ Placed(pipe[s], Len(pipe[s]), taken[s], m, start)
          /\ Len(pipe[s]) = start[m + 1] - 1
      BY <1>2, <3>1 DEF Frames
    <3>3. PICK more :
            /\ Placed(pipe'[s], Len(pipe[s]) + 1, taken'[s], m + 1, more)
            /\ \A k \in 1 .. (m + 1) : more[k] = start[k]
      <4> DEFINE q == pipe[s]
                 t == taken[s]
                 q2 == pipe'[s]
                 t2 == taken'[s]
                 l == Len(q)
      <4>1. /\ m \in Nat /\ l \in Nat
            /\ \A k \in 1 .. m : t[k] \in Nat
            /\ Appended(t, m, n, t2)
        BY <2>2, <2>3 DEF Appended
      <4>2. Appended(q, l, FrameHeader(n), q2)
        BY <2>3 DEF Appended
      <4>3. Placed(q, l, t, m, start) /\ l = start[m + 1] - 1
        BY <3>2
      <4> HIDE DEF m, q, t, q2, t2, l
      <4>4. \E more : /\ Placed(q2, l + 1, t2, m + 1, more)
                      /\ \A k \in 1 .. (m + 1) : more[k] = start[k]
        BY <1>3, <4>1, <4>2, <4>3, PlacedHeader
      <4>5. QED
        BY <4>4 DEF m, q, t, q2, t2, l
    <3>4. Len(pipe[s]) + 1 = more[m + 1]
      <4>1. m + 1 \in 1 .. (m + 1)
        BY <2>2
      <4>2. start[m + 1] \in Int /\ more[m + 1] = start[m + 1]
        BY <3>2, <3>3, <4>1 DEF Placed
      <4>3. QED
        BY <2>3, <3>2, <4>2
    <3>5. Frames(s, more)'
      BY <1>4, <2>2, <2>3, <3>3, <3>4 DEF Frames
    <3>6. Reading(s, more)'
      <4>1. Len(sentOn[s]) + 1 \in 1 .. (m + 1)
        BY <2>2, <2>4
      <4>2. more[Len(sentOn[s]) + 1] = start[Len(sentOn[s]) + 1]
        BY <3>3, <4>1
      <4>3. CASE s = served /\ tunPc = "bytes"
        <5>1. Len(sentOn[s]) + 1 \in 1 .. m
          BY <2>4, <2>2, <3>1, <4>3 DEF Reading
        <5>2. QED
          BY <1>2, <2>2, <3>1, <4>2, <4>3, <5>1 DEF Reading
      <4>4. QED
        BY <1>2, <3>1, <4>2, <4>3 DEF Reading
    <3>7. QED
      BY <3>5, <3>6
  <2>7. QED
    BY <2>5, <2>6
<1>8. QED
  BY <1>5, <1>6, <1>7 DEF TunnelInv

LEMMA WriteBytesStep ==
  ASSUME TunnelInv, NEW s \in Sessions, WriteBytes(s)
  PROVE  TunnelInv'
<1> DEFINE m == Len(taken[s])
           q == pipe[s]
           l == Len(q)
           t == taken[s]
           bytes == Datagram(m, Last(t))
<1>1. /\ TunnelTypes /\ ~closed[s] /\ writing[s]
      /\ pipe' = [pipe EXCEPT ![s] = q \o bytes]
      /\ writing' = [writing EXCEPT ![s] = FALSE]
      /\ UNCHANGED <<opened, taken, closed, harmed, served, tunPc, size, sentOn>>
  BY DEF TunnelInv, WriteBytes
<1>2. /\ t \in Seq(Nat) /\ q \in Seq(Items) /\ m \in Nat /\ m > 0 /\ l \in Nat
      /\ \A k \in 1 .. m : t[k] \in Nat
      /\ Last(t) = t[m] /\ t[m] \in Nat
  BY <1>1 DEF TunnelTypes, Last
<1>3. /\ bytes \in Seq(Items) /\ Len(bytes) = t[m]
      /\ \A i \in 1 .. t[m] : bytes[i] = FrameByte(m, i)
  <2>1. bytes = Datagram(m, t[m])
    BY <1>2
  <2> HIDE DEF bytes, m, t
  <2>2. QED
    BY <1>2, <2>1, DatagramType
<1> HIDE DEF bytes
<1>4. /\ pipe'[s] = q \o bytes /\ q \o bytes \in Seq(Items) /\ Len(pipe'[s]) = l + t[m]
      /\ \A i \in 1 .. l : pipe'[s][i] = q[i]
      /\ \A i \in 1 .. t[m] : pipe'[s][l + i] = FrameByte(m, i)
      /\ writing'[s] = FALSE
  <2>1. pipe'[s] = q \o bytes /\ writing'[s] = FALSE
    BY <1>1 DEF TunnelTypes
  <2>2. /\ q \o bytes \in Seq(Items) /\ Len(q \o bytes) = l + t[m]
        /\ \A i \in 1 .. l : (q \o bytes)[i] = q[i]
    BY <1>2, <1>3, Joined
  <2>3. \A i \in 1 .. t[m] : (q \o bytes)[l + i] = bytes[i]
    BY <1>2, <1>3, Joined
  <2>4. QED
    BY <1>3, <2>1, <2>2, <2>3
<1>5. TunnelTypes'
  BY <1>1, <1>4 DEF TunnelTypes
<1>6. ASSUME NEW r \in Sessions \ {s}
      PROVE  SessionInv(r)'
  <2>1. UNCHANGED <<taken[r], writing[r], pipe[r], closed[r], harmed[r], sentOn[r]>>
    BY <1>1 DEF TunnelTypes
  <2>2. QED
    BY <1>1, <2>1, SessionKeeps DEF TunnelInv, Live
<1>7. SessionInv(s)'
  <2> SUFFICES ASSUME "hole" \notin harmed[s]
               PROVE  SentOnFrames(s)' /\ (Live(s)' => \E start : (Frames(s, start) /\ Reading(s, start))')
    BY <1>1 DEF SessionInv
  <2>1. SentOnFrames(s) /\ (Live(s) => \E start : Frames(s, start) /\ Reading(s, start))
    BY DEF TunnelInv, SessionInv
  <2>2. SentOnFrames(s)'
    BY <1>1, <2>1 DEF SentOnFrames
  <2>3. ASSUME Live(s)'
        PROVE  \E start : (Frames(s, start) /\ Reading(s, start))'
    <3>1. PICK start : Frames(s, start) /\ Reading(s, start)
      BY <1>1, <2>1, <2>3 DEF Live
    <3>2. Placed(q, l, t, m, start) /\ l = start[m]
      BY <1>1, <3>1 DEF Frames
    <3>3. Placed(pipe'[s], l + t[m], t, m, start) /\ l + t[m] = start[m + 1] - 1
      <4> DEFINE q2 == pipe'[s]
      <4>1. BytesAppended(q, l, m, t[m], q2)
        BY <1>4 DEF BytesAppended
      <4>2. l \in Nat /\ m \in Nat /\ m > 0
        BY <1>2
      <4>3. \A k \in 1 .. m : t[k] \in Nat
        BY <1>2
      <4> HIDE DEF q2, q, t, m, l
      <4>4. Placed(q2, l + t[m], t, m, start)
        BY <3>2, <4>1, <4>2, <4>3, PlacedBytes
      <4>5. l + t[m] = start[m + 1] - 1
        <5>1. m \in 1 .. m /\ t[m] \in Nat
          BY <4>2, <4>3
        <5>2. start[m + 1] = start[m] + 1 + t[m]
          BY <3>2, <5>1 DEF Placed
        <5>3. QED
          BY <3>2, <4>2, <5>1, <5>2
      <4>6. QED
        BY <4>4, <4>5 DEF q2
    <3>4. Frames(s, start)'
      BY <1>1, <1>4, <3>3 DEF Frames
    <3>5. Reading(s, start)'
      BY <1>1, <3>1 DEF Reading
    <3>6. QED
      BY <3>4, <3>5
  <2>4. QED
    BY <2>2, <2>3
<1>8. QED
  BY <1>5, <1>6, <1>7 DEF TunnelInv

LEMMA CloseStep ==
  ASSUME TunnelInv, NEW s \in Sessions, Close(s)
  PROVE  TunnelInv'
<1>1. PICK c \in 0 .. Len(pipe[s]) :
        /\ pipe' = [pipe EXCEPT ![s] = SubSeq(pipe[s], 1, c)]
        /\ harmed' = IF c < Len(pipe[s]) THEN [harmed EXCEPT ![s] = harmed[s] \cup {"cut"}] ELSE harmed
  BY DEF Close
<1>2. /\ TunnelTypes
      /\ closed' = [closed EXCEPT ![s] = TRUE]
      /\ UNCHANGED <<opened, taken, writing, served, tunPc, size, sentOn>>
  BY DEF TunnelInv, Close, tunSendVars
<1>3. pipe[s] \in Seq(Items) /\ Len(pipe[s]) \in Nat
  BY <1>2 DEF TunnelTypes
<1>4. /\ SubSeq(pipe[s], 1, c) \in Seq(Items) /\ Len(SubSeq(pipe[s], 1, c)) = c
      /\ \A i \in 1 .. c : SubSeq(pipe[s], 1, c)[i] = pipe[s][i]
  BY <1>3
<1>5. /\ pipe'[s] \in Seq(Items) /\ Len(pipe'[s]) = c
      /\ \A i \in 1 .. c : pipe'[s][i] = pipe[s][i]
      /\ closed'[s] = TRUE
  BY <1>1, <1>2, <1>4 DEF TunnelTypes
<1>6. TunnelTypes'
  <2>1. /\ pipe' \in [Sessions -> Seq(Items)] /\ closed' \in [Sessions -> BOOLEAN]
        /\ harmed' \in [Sessions -> SUBSET {"cut", "hole"}]
    BY <1>1, <1>2, <1>4 DEF TunnelTypes
  <2>2. QED
    BY <1>2, <2>1 DEF TunnelTypes
<1>7. ASSUME NEW r \in Sessions \ {s}
      PROVE  SessionInv(r)'
  <2>1. UNCHANGED <<taken[r], writing[r], pipe[r], closed[r], harmed[r], sentOn[r]>>
    BY <1>1, <1>2 DEF TunnelTypes
  <2>2. QED
    BY <1>2, <2>1, SessionKeeps DEF TunnelInv, Live
<1>8. SessionInv(s)'
  <2> SUFFICES ASSUME "hole" \notin harmed'[s]
               PROVE  SentOnFrames(s)' /\ (Live(s)' => \E start : (Frames(s, start) /\ Reading(s, start))')
    BY DEF SessionInv
  <2>1. "hole" \notin harmed[s]
    BY <1>1, <1>2 DEF TunnelTypes
  <2>2. SentOnFrames(s) /\ (Live(s) => \E start : Frames(s, start) /\ Reading(s, start))
    BY <2>1 DEF TunnelInv, SessionInv
  <2>3. SentOnFrames(s)'
    BY <1>2, <2>2 DEF SentOnFrames
  <2>4. ASSUME Live(s)'
        PROVE  \E start : (Frames(s, start) /\ Reading(s, start))'
    <3>1. PICK start : Frames(s, start) /\ Reading(s, start)
      BY <1>2, <2>2, <2>4 DEF Live
    <3>2. Placed(pipe[s], Len(pipe[s]), taken[s], Len(taken[s]), start) /\ Len(taken[s]) \in Nat
      BY <1>2, <3>1 DEF Frames, TunnelTypes
    <3>3. Placed(pipe'[s], c, taken[s], Len(taken[s]), start)
      BY <1>3, <1>5, <3>2, PlacedCut
    <3>4. Frames(s, start)'
      BY <1>2, <1>5, <3>3 DEF Frames
    <3>5. Reading(s, start)'
      BY <1>2, <3>1 DEF Reading
    <3>6. QED
      BY <3>4, <3>5
  <2>5. QED
    BY <2>3, <2>4
<1>9. QED
  BY <1>6, <1>7, <1>8 DEF TunnelInv

LEMMA HoleStep ==
  ASSUME TunnelInv, NEW s \in Sessions, Hole(s)
  PROVE  TunnelInv'
<1>1. PICK i \in DOMAIN pipe[s], j \in DOMAIN pipe[s] :
        i <= j /\ pipe' = [pipe EXCEPT ![s] = SubSeq(pipe[s], 1, i - 1) \o SubSeq(pipe[s], j + 1, Len(pipe[s]))]
  BY DEF Hole
<1>2. /\ TunnelTypes /\ harmed' = [harmed EXCEPT ![s] = {"hole"}]
      /\ UNCHANGED <<opened, taken, writing, closed, served, tunPc, size, sentOn>>
  BY DEF TunnelInv, Hole, tunSendVars
<1>3. pipe[s] \in Seq(Items)
  BY <1>2 DEF TunnelTypes
<1>4. SubSeq(pipe[s], 1, i - 1) \in Seq(Items) /\ SubSeq(pipe[s], j + 1, Len(pipe[s])) \in Seq(Items)
  BY <1>3
<1>5. SubSeq(pipe[s], 1, i - 1) \o SubSeq(pipe[s], j + 1, Len(pipe[s])) \in Seq(Items)
  BY <1>4
<1>6. TunnelTypes'
  <2>1. pipe' \in [Sessions -> Seq(Items)] /\ harmed' \in [Sessions -> SUBSET {"cut", "hole"}]
    BY <1>1, <1>2, <1>5 DEF TunnelTypes
  <2>2. QED
    BY <1>2, <2>1 DEF TunnelTypes
<1>7. ASSUME NEW r \in Sessions \ {s}
      PROVE  SessionInv(r)'
  <2>1. UNCHANGED <<taken[r], writing[r], pipe[r], closed[r], harmed[r], sentOn[r]>>
    BY <1>1, <1>2 DEF TunnelTypes
  <2>2. QED
    BY <1>2, <2>1, SessionKeeps DEF TunnelInv, Live
<1>8. SessionInv(s)'
  BY <1>2 DEF SessionInv, TunnelTypes
<1>9. QED
  BY <1>6, <1>7, <1>8 DEF TunnelInv

LEMMA AcceptSessionStep ==
  ASSUME TunnelInv, AcceptSession
  PROVE  TunnelInv'
<1>1. /\ TunnelTypes /\ tunPc = "accept" /\ served < opened
      /\ served' = served + 1 /\ tunPc' = "header"
      /\ UNCHANGED <<opened, taken, writing, pipe, closed, harmed, size, sentOn>>
  BY DEF TunnelInv, AcceptSession, FirstRead, tunSendVars
<1>2. TunnelTypes'
  BY <1>1, SessionNumbers DEF TunnelTypes
<1>3. ASSUME NEW r \in Sessions
      PROVE  SessionInv(r)'
  <2>1. Live(r)' => Live(r)
    BY <1>1, SessionNumbers DEF Live, TunnelTypes
  <2>2. QED
    BY <1>1, <2>1, SessionKeeps DEF TunnelInv
<1>4. QED
  BY <1>2, <1>3 DEF TunnelInv

\* The connection is dropped.
LEMMA DropStep ==
  ASSUME TunnelInv, SessionEnds \/ SendToFails
  PROVE  TunnelInv'
<1>1. /\ TunnelTypes /\ tunPc \in {"header", "bytes"} /\ tunPc' = "accept"
      /\ pipe' = [pipe EXCEPT ![served] = <<>>]
      /\ closed' = closed \/ closed' = [closed EXCEPT ![served] = TRUE]
      /\ harmed' = harmed \/ harmed' = [harmed EXCEPT ![served] = harmed[served] \cup {"cut"}]
      /\ UNCHANGED <<opened, taken, writing, served, size, sentOn>>
  BY DEF TunnelInv, SessionEnds, SendToFails, tunSendVars
<1>2. served \in Sessions /\ <<>> \in Seq(Items)
  BY <1>1 DEF TunnelTypes
<1>3. TunnelTypes'
  <2>1. /\ pipe' \in [Sessions -> Seq(Items)] /\ closed' \in [Sessions -> BOOLEAN]
        /\ harmed' \in [Sessions -> SUBSET {"cut", "hole"}]
    BY <1>1, <1>2 DEF TunnelTypes
  <2>2. QED
    BY <1>1, <2>1 DEF TunnelTypes
<1>4. ASSUME NEW r \in Sessions \ {served}
      PROVE  SessionInv(r)'
  <2>1. UNCHANGED <<taken[r], writing[r], pipe[r], closed[r], harmed[r], sentOn[r]>>
    BY <1>1, <1>2 DEF TunnelTypes
  <2>2. QED
    BY <1>1, <2>1, SessionKeeps DEF TunnelInv, Live
<1>5. SessionInv(served)'
  <2>1. ~Live(served)'
    BY <1>1, <1>2, SessionNumbers DEF Live
  <2>2. SessionInv(served)
    BY <1>2 DEF TunnelInv
  <2>3. "hole" \notin harmed'[served] => "hole" \notin harmed[served]
    BY <1>1, <1>2 DEF TunnelTypes
  <2>4. "hole" \notin harmed'[served] => SentOnFrames(served)'
    BY <1>1, <2>2, <2>3 DEF SessionInv, SentOnFrames
  <2>5. served' = served
    BY <1>1
  <2>6. QED
    BY <2>1, <2>4, <2>5 DEF SessionInv
<1>6. served' = served
  BY <1>1
<1>7. ASSUME NEW r \in Sessions
      PROVE  SessionInv(r)'
  BY <1>4, <1>5, <1>6
<1>8. QED
  BY <1>3, <1>7 DEF TunnelInv

\* The reader takes d items.
LEMMA FramesRead ==
  ASSUME TunnelTypes, NEW s \in Sessions, NEW start, Frames(s, start),
         NEW d \in 0 .. Len(pipe[s]), pipe'[s] = SubSeq(pipe[s], d + 1, Len(pipe[s])),
         UNCHANGED <<taken[s], writing[s], closed[s]>>
  PROVE  \E moved : /\ Frames(s, moved)'
                    /\ \A k \in 1 .. (Len(taken[s]) + 1) : moved[k] = start[k] - d
<1> DEFINE n == Len(pipe[s])
           m == Len(taken[s])
           q == pipe[s]
           t == taken[s]
           rest == pipe'[s]
<1>1. /\ q \in Seq(Items) /\ t \in Seq(Nat) /\ n \in Nat /\ m \in Nat
      /\ (writing[s] => m > 0) /\ d \in 0 .. n
  BY DEF TunnelTypes
<1>2. \A k \in 1 .. m : t[k] \in Nat
  BY <1>1
<1>3. Len(rest) = n - d
  BY <1>1
<1>4. Dropped(q, n, d, rest)
  <2> DEFINE cutOff == SubSeq(q, d + 1, n)
  <2>1. \A i \in (d + 1) .. n : q[i] \in Items
    BY <1>1
  <2>2. \A i \in 1 .. n - (d + 1) + 1 : cutOff[i] = q[d + 1 + i - 1]
    BY <1>1, <2>1, SubSeqProperties
  <2>3. rest = cutOff
    OBVIOUS
  <2> HIDE DEF cutOff, q, n, rest
  <2>4. ASSUME NEW i \in (d + 1) .. n PROVE cutOff[i - d] = q[i]
    <3>1. i - d \in 1 .. n - (d + 1) + 1 /\ d + 1 + (i - d) - 1 = i
      BY <1>1
    <3>2. QED
      BY <2>2, <3>1
  <2>5. QED
    BY <2>3, <2>4 DEF Dropped
<1>5. Placed(q, n, t, m, start)
  BY DEF Frames
<1>0. ASSUME ~closed[s]
      PROVE  /\ writing[s] => n = start[m]
             /\ ~writing[s] => n = start[m + 1] - 1
  BY <1>0 DEF Frames
<1> HIDE DEF q, n, t, m, rest
<1>6. PICK moved : Placed(rest, n - d, t, m, moved) /\ Moved(start, m, d, moved)
  <2>1. n \in Nat /\ m \in Nat /\ d \in Nat /\ d <= n
    BY <1>1
  <2>2. \A k \in 1 .. m : t[k] \in Nat
    BY <1>2
  <2>3. QED
    BY <2>2, <1>4, <1>5, <2>1, PlacedRead
<1>7. start \in [1 .. (m + 1) -> Int]
  BY <1>5 DEF Placed
<1>8. ASSUME ~closed[s]
      PROVE  n - d = IF writing[s] THEN moved[m] ELSE moved[m + 1] - 1
  <2>1. moved[m + 1] = start[m + 1] - d /\ start[m + 1] \in Int
    BY <1>1, <1>6, <1>7 DEF Moved
  <2>2. writing[s] => moved[m] = start[m] - d /\ start[m] \in Int
    BY <1>1, <1>6, <1>7 DEF Moved
  <2>3. CASE writing[s]
    BY <1>0, <1>1, <1>8, <2>2, <2>3
  <2>4. CASE ~writing[s]
    BY <1>0, <1>1, <1>8, <2>1, <2>4
  <2>5. QED
    BY <2>3, <2>4
<1>9. /\ taken'[s] = t /\ Len(t) = m /\ writing'[s] = writing[s] /\ closed'[s] = closed[s]
      /\ rest = pipe'[s]
  BY DEF t, m, rest
<1>10. Frames(s, moved)'
  BY <1>3, <1>6, <1>8, <1>9 DEF Frames
<1>11. QED
  BY <1>6, <1>10 DEF m, Moved

\* What the reader finds in a session without a hole.
LEMMA NextFrame ==
  ASSUME TunnelTypes, NEW s \in Sessions, s = served, tunPc \in {"header", "bytes"},
         SentOnFrames(s), NEW start, Frames(s, start), Reading(s, start), Available
  PROVE  LET next == Len(sentOn[s]) + 1 IN
         /\ next \in 1 .. (Len(taken[s]) + 1)
         /\ tunPc = "header" => /\ next \in 1 .. Len(taken[s])
                                /\ pipe[s][1] = FrameHeader(taken[s][next])
         /\ tunPc = "bytes" => /\ next \in 1 .. Len(taken[s]) /\ size = taken[s][next]
                               /\ SubSeq(pipe[s], 1, size) = Datagram(next, size)
                               /\ start[next + 1] = size + 1
<1> DEFINE next == Len(sentOn[s]) + 1
           n == Len(pipe[s])
           m == Len(taken[s])
           q == pipe[s]
           t == taken[s]
<1>1. /\ q \in Seq(Items) /\ t \in Seq(Nat) /\ n \in Nat /\ m \in Nat /\ size \in Nat
      /\ Len(sentOn[s]) \in Nat
  BY DEF TunnelTypes
<1>2. next \in 1 .. (m + 1)
  BY <1>1 DEF SentOnFrames
<1>3. Placed(q, n, t, m, start) /\ start \in [1 .. (m + 1) -> Int] /\ n < start[m + 1]
  BY DEF Frames, Placed
<1>4. CASE tunPc = "header"
  <2>1. start[next] = 1 /\ n >= 1
    BY <1>4 DEF Reading, Available, Needed
  <2>2. next # m + 1
    BY <1>1, <1>3, <2>1
  <2>3. next \in 1 .. m
    BY <1>1, <1>2, <2>2
  <2>4. start[next] \in 1 .. n
    BY <1>1, <2>1
  <2> HIDE DEF next, n, m, q, t
  <2>5. q[start[next]] = FrameHeader(t[next])
    BY <1>3, <2>3, <2>4 DEF Placed
  <2>6. QED
    BY <1>2, <1>4, <2>1, <2>3, <2>5 DEF next, n, m, q, t
<1>5. CASE tunPc = "bytes"
  <2>1. next <= m /\ start[next] = 0 /\ size = t[next] /\ n >= size
    BY <1>5 DEF Reading, Available, Needed
  <2>2. next \in 1 .. m
    BY <1>1, <1>2, <2>1
  <2>3. start[next + 1] = size + 1
    <3> HIDE DEF next, n, m, q, t
    <3>1. start[next + 1] = start[next] + 1 + t[next]
      BY <1>3, <2>2 DEF Placed
    <3>2. QED
      BY <1>1, <2>1, <3>1
  <2>4. ASSUME NEW i \in 1 .. size
        PROVE  q[i] = FrameByte(next, i)
    <3> HIDE DEF next, n, m, q, t
    <3>1. start[next] + i = i /\ i \in 1 .. n /\ i \in 1 .. t[next]
      BY <1>1, <2>1
    <3>2. q[start[next] + i] = FrameByte(next, i)
      BY <1>3, <2>2, <3>1 DEF Placed
    <3>3. QED
      BY <3>1, <3>2
  <2>5. SubSeq(q, 1, size) = Datagram(next, size)
    <3>1. SubSeq(q, 1, size) = [i \in 1 .. size |-> q[i]]
      BY <1>1, <2>1
    <3> HIDE DEF next, q
    <3>2. QED
      BY <2>4, <3>1 DEF Datagram, FrameByte
  <2>6. QED
    BY <1>2, <1>5, <2>1, <2>2, <2>3, <2>5
<1>6. QED
  BY <1>4, <1>5

LEMMA ReadHeaderStep ==
  ASSUME TunnelInv, ReadHeader
  PROVE  TunnelInv'
<1> DEFINE s == served
           first == Head(pipe[s])
<1>1. /\ TunnelTypes /\ tunPc = "header" /\ Available
      /\ \/ first.kind = "header" /\ size' = first.val /\ tunPc' = "bytes"
         \/ first.kind = "byte" /\ size' \in 0 .. BufferSize /\ tunPc' = "bytes"
         \/ first.kind = "byte" /\ tunPc' = "panicked" /\ UNCHANGED size
      /\ pipe' = [pipe EXCEPT ![s] = Tail(pipe[s])]
      /\ UNCHANGED <<opened, taken, writing, closed, harmed, served, sentOn>>
  BY DEF TunnelInv, ReadHeader, tunSendVars
<1>2. /\ s \in Sessions /\ pipe[s] \in Seq(Items) /\ Len(pipe[s]) >= 1
      /\ pipe[s] # <<>>
  BY <1>1 DEF TunnelTypes, Available, Needed
<1>3. /\ first = pipe[s][1] /\ first \in Items
      /\ Tail(pipe[s]) = SubSeq(pipe[s], 1 + 1, Len(pipe[s])) /\ Tail(pipe[s]) \in Seq(Items)
      /\ 1 \in 0 .. Len(pipe[s])
  BY <1>2
<1>4. first.kind = "header" => first.val \in Nat
  BY <1>3 DEF Items
<1>5. TunnelTypes'
  <2>1. pipe' \in [Sessions -> Seq(Items)]
    BY <1>1, <1>3 DEF TunnelTypes
  <2>2. size' \in Nat /\ tunPc' \in {"bytes", "panicked"}
    BY <1>1, <1>4, UdpTunnelAssumption DEF TunnelTypes
  <2> HIDE DEF first
  <2>3. QED
    BY <1>1, <1>2, <2>1, <2>2 DEF TunnelTypes
<1>6. ASSUME NEW r \in Sessions \ {s}
      PROVE  SessionInv(r)'
  <2>1. UNCHANGED <<taken[r], writing[r], pipe[r], closed[r], harmed[r], sentOn[r]>>
    BY <1>1 DEF TunnelTypes
  <2>2. QED
    BY <1>1, <2>1, SessionKeeps DEF TunnelInv, Live
<1>7. ASSUME NEW r \in Sessions, r = s
      PROVE  SessionInv(r)'
  <2> SUFFICES ASSUME "hole" \notin harmed[r]
               PROVE  SentOnFrames(r)' /\ \E start : (Frames(r, start) /\ Reading(r, start))'
    BY <1>1 DEF SessionInv
  <2>1. SentOnFrames(r) /\ \E start : Frames(r, start) /\ Reading(r, start)
    BY <1>1, <1>7 DEF TunnelInv, SessionInv, Live
  <2>2. SentOnFrames(r)'
    BY <1>1, <2>1 DEF SentOnFrames
  <2>3. PICK start : Frames(r, start) /\ Reading(r, start)
    BY <2>1
  <2> DEFINE next == Len(sentOn[r]) + 1
  <2>4. /\ next \in 1 .. Len(taken[r]) /\ pipe[r][1] = FrameHeader(taken[r][next])
        /\ next \in 1 .. (Len(taken[r]) + 1)
    BY <1>1, <1>7, <2>1, <2>3, NextFrame
  <2>5. size' = taken[r][next] /\ tunPc' = "bytes"
    BY <1>1, <1>3, <1>7, <2>4 DEF FrameHeader
  <2>6. PICK moved : /\ Frames(r, moved)'
                     /\ \A k \in 1 .. (Len(taken[r]) + 1) : moved[k] = start[k] - 1
    <3>1. pipe'[r] = SubSeq(pipe[r], 1 + 1, Len(pipe[r])) /\ 1 \in 0 .. Len(pipe[r])
      BY <1>1, <1>3, <1>7 DEF TunnelTypes
    <3>2. UNCHANGED <<taken[r], writing[r], closed[r]>>
      BY <1>1
    <3>3. QED
      BY <1>1, <2>3, <3>1, <3>2, FramesRead
  <2>7. Reading(r, moved)'
    <3>1. start[next] = 1
      BY <1>1, <1>7, <2>3 DEF Reading
    <3>2. moved[next] = 0
      BY <2>4, <2>6, <3>1
    <3>3. sentOn' = sentOn /\ taken' = taken /\ served' = served
      BY <1>1
    <3> HIDE DEF first
    <3>4. QED
      BY <1>7, <2>4, <2>5, <3>2, <3>3 DEF Reading
  <2>8. QED
    BY <2>2, <2>6, <2>7
<1>8. QED
  BY <1>5, <1>6, <1>7 DEF TunnelInv

LEMMA ReadBytesStep ==
  ASSUME TunnelInv, ReadBytes
  PROVE  TunnelInv'
<1> DEFINE s == served
           datagram == SubSeq(pipe[s], 1, size)
           rest == SubSeq(pipe[s], size + 1, Len(pipe[s]))
<1>1. /\ TunnelTypes /\ tunPc = "bytes" /\ Available /\ tunPc' = "header"
      /\ sentOn' = [sentOn EXCEPT ![s] = Append(sentOn[s], datagram)]
      /\ pipe' = [pipe EXCEPT ![s] = rest]
      /\ UNCHANGED <<opened, taken, writing, closed, harmed, served, size>>
  BY DEF TunnelInv, ReadBytes, tunSendVars
<1>2. /\ s \in Sessions /\ pipe[s] \in Seq(Items) /\ sentOn[s] \in Seq(Seq(Items))
      /\ size \in 0 .. Len(pipe[s])
  BY <1>1 DEF TunnelTypes, Available, Needed
<1>3. datagram \in Seq(Items) /\ rest \in Seq(Items)
  BY <1>2
<1> HIDE DEF datagram, rest
<1>4. pipe'[s] = rest /\ sentOn'[s] = Append(sentOn[s], datagram)
  BY <1>1, <1>2 DEF TunnelTypes
<1>5. Append(sentOn[s], datagram) \in Seq(Seq(Items))
  BY <1>2, <1>3
<1>6. TunnelTypes'
  <2>1. pipe' \in [Sessions -> Seq(Items)] /\ sentOn' \in [Sessions -> Seq(Seq(Items))]
    BY <1>1, <1>3, <1>5 DEF TunnelTypes
  <2>2. \A r \in Sessions : r > served => sentOn'[r] = <<>>
    BY <1>1, <1>2, SessionNumbers DEF TunnelTypes
  <2>3. QED
    BY <1>1, <1>2, <2>1, <2>2 DEF TunnelTypes
<1>7. ASSUME NEW r \in Sessions \ {s}
      PROVE  SessionInv(r)'
  <2>1. UNCHANGED <<taken[r], writing[r], pipe[r], closed[r], harmed[r], sentOn[r]>>
    BY <1>1 DEF TunnelTypes
  <2>2. QED
    BY <1>1, <2>1, SessionKeeps DEF TunnelInv, Live
<1>8. ASSUME NEW r \in Sessions, r = s
      PROVE  SessionInv(r)'
  <2> SUFFICES ASSUME "hole" \notin harmed[r]
               PROVE  SentOnFrames(r)' /\ \E start : (Frames(r, start) /\ Reading(r, start))'
    BY <1>1 DEF SessionInv
  <2>1. SentOnFrames(r) /\ \E start : Frames(r, start) /\ Reading(r, start)
    BY <1>1, <1>8 DEF TunnelInv, SessionInv, Live
  <2>2. PICK start : Frames(r, start) /\ Reading(r, start)
    BY <2>1
  <2> DEFINE sent == Len(sentOn[r])
             next == sent + 1
  <2>3. /\ next \in 1 .. Len(taken[r]) /\ size = taken[r][next]
        /\ datagram = Datagram(next, size) /\ start[next + 1] = size + 1
    BY <1>1, <1>8, <2>1, <2>2, NextFrame DEF datagram
  <2>4. /\ Len(sentOn'[r]) = next /\ sentOn'[r][next] = datagram
        /\ \A k \in 1 .. sent : sentOn'[r][k] = sentOn[r][k]
        /\ sent \in Nat /\ Len(taken[r]) \in Nat
    BY <1>2, <1>3, <1>4, <1>8, <1>1 DEF TunnelTypes
  <2>5. SentOnFrames(r)'
    <3>1. \A k \in 1 .. next : k \in 1 .. sent \/ k = next
      BY <2>4
    <3>2. taken' = taken
      BY <1>1
    <3> HIDE DEF sent
    <3>3. \A k \in 1 .. next : sentOn'[r][k] = Datagram(k, taken[r][k])
      BY <2>1, <2>3, <2>4, <3>1 DEF SentOnFrames, sent
    <3>4. QED
      BY <2>3, <2>4, <3>2, <3>3 DEF SentOnFrames
  <2>6. PICK moved : /\ Frames(r, moved)'
                     /\ \A k \in 1 .. (Len(taken[r]) + 1) : moved[k] = start[k] - size
    <3>1. pipe'[r] = SubSeq(pipe[r], size + 1, Len(pipe[r])) /\ size \in 0 .. Len(pipe[r])
      BY <1>2, <1>4, <1>8 DEF rest
    <3>2. UNCHANGED <<taken[r], writing[r], closed[r]>>
      BY <1>1
    <3>3. QED
      BY <1>1, <2>2, <3>1, <3>2, FramesRead
  <2>7. Reading(r, moved)'
    <3>1. next + 1 \in 1 .. (Len(taken[r]) + 1)
      BY <2>3, <2>4
    <3>2. moved[next + 1] = 1
      BY <1>2, <2>3, <2>6, <3>1
    <3>3. tunPc' = "header" /\ Len(sentOn'[r]) + 1 = next + 1
      BY <1>1, <2>4
    <3>4. QED
      BY <3>2, <3>3 DEF Reading
  <2>8. QED
    BY <2>5, <2>6, <2>7
<1>9. QED
  BY <1>6, <1>7, <1>8 DEF TunnelInv

LEMMA TunnelStep ==
  ASSUME TunnelInv, [TunnelNext]_tunVars
  PROVE  TunnelInv'
<1>1. CASE UNCHANGED tunVars
  <2>1. UNCHANGED <<opened, taken, writing, pipe, closed, harmed, served, tunPc, size, sentOn>>
    BY <1>1 DEF tunVars, tunSendVars
  <2>2. TunnelTypes'
    BY <2>1 DEF TunnelInv, TunnelTypes
  <2>3. ASSUME NEW s \in Sessions
        PROVE  SessionInv(s)'
    BY <2>1, SessionKeeps DEF TunnelInv, Live
  <2>4. QED
    BY <2>2, <2>3 DEF TunnelInv
<1>2. CASE TunnelNext
  BY <1>2, ConnectStep, WriteHeaderStep, WriteBytesStep, CloseStep, HoleStep,
     AcceptSessionStep, ReadHeaderStep, ReadBytesStep, DropStep
  DEF TunnelNext, TunnelReceiver
<1>3. QED
  BY <1>1, <1>2

LEMMA PrefixByElements ==
  ASSUME NEW S, NEW q \in Seq(S), NEW d \in Seq(S), Len(q) <= Len(d),
         \A k \in 1 .. Len(q) : q[k] = d[k]
  PROVE  IsPrefix(q, d)
<1> DEFINE n == Len(q)
<1>1. n \in Nat /\ n <= Len(d) /\ Len(d) \in Nat
  OBVIOUS
<1>2. /\ SubSeq(q, 1, n) \in Seq(S) /\ Len(SubSeq(q, 1, n)) = n
      /\ \A k \in 1 .. n : SubSeq(q, 1, n)[k] = q[k]
  BY <1>1
<1>3. /\ SubSeq(d, 1, n) \in Seq(S) /\ Len(SubSeq(d, 1, n)) = n
      /\ \A k \in 1 .. n : SubSeq(d, 1, n)[k] = d[k]
  BY <1>1
<1>4. SubSeq(q, 1, n) = SubSeq(d, 1, n)
  <2>1. \A k \in 1 .. n : SubSeq(q, 1, n)[k] = SubSeq(d, 1, n)[k]
    BY <1>2, <1>3
  <2>2. QED
    BY <1>2, <1>3, <2>1, SeqEqual
<1>5. QED
  BY <1>1, <1>4 DEF IsPrefix

LEMMA TunnelFrames == TunnelInv => FramesIntact
<1> SUFFICES ASSUME TunnelInv, NEW s \in Sessions, "hole" \notin harmed[s]
             PROVE  IsPrefix(sentOn[s], Datagrams(s))
  BY DEF FramesIntact
<1> DEFINE q == sentOn[s]
           t == taken[s]
           m == Len(t)
           d == Datagrams(s)
<1>1. /\ q \in Seq(Seq(Items)) /\ t \in Seq(Nat) /\ Len(q) \in Nat /\ m \in Nat
      /\ Len(q) <= m
      /\ \A k \in 1 .. Len(q) : q[k] = Datagram(k, t[k])
  BY DEF TunnelInv, TunnelTypes, SessionInv, SentOnFrames
<1>2. d = [k \in 1 .. m |-> Datagram(k, t[k])]
  BY <1>1 DEF Datagrams
<1>3. \A k \in 1 .. m : k \in Nat /\ t[k] \in Nat
  BY <1>1
<1>4. m \in Nat
  BY <1>1
<1> HIDE DEF q, t, m, d
<1>5. \A k \in 1 .. m : Datagram(k, t[k]) \in Seq(Items)
  BY <1>3, DatagramType
<1>6. d \in [1 .. m -> Seq(Items)]
  BY <1>2, <1>5
<1>7. d \in Seq(Seq(Items)) /\ Len(d) = m
  BY <1>4, <1>6
<1>8. Len(q) <= Len(d) /\ \A k \in 1 .. Len(q) : q[k] = d[k]
  BY <1>1, <1>2, <1>7
<1>9. IsPrefix(q, d)
  BY <1>1, <1>7, <1>8, PrefixByElements
<1>10. QED
  BY <1>9 DEF q, d

-----------------------------------------------------------------------------
(* The file transfer *)

FooterItem(k) == [kind |-> "footer", val |-> k]

Pieces == [kind : {"byte", "header", "length", "footer"}, val : Nat]

\* The item at place p of the stream of a file that was announced with a bytes and
\* of which pos were read.
SentItem(a, pos, p) ==
  IF p = 1 THEN Header(a) ELSE IF p - 1 <= pos THEN Byte(p - 1) ELSE FooterItem(p - 1 - pos)

\* What the sender has written, and what the receiver has taken of it.
Total ==
  CASE sndPc = "start" -> 0
    [] sndPc = "read"  -> 1 + sndPos - sndCursor
    [] sndPc = "done"  -> 1 + sndPos + FooterLen

Consumed == IF rcvPc = "header" THEN 0 ELSE 1 + announced - remaining

Receiving == rcvPc \in {"header", "create", "read", "footer"}

FileTypes ==
  /\ config \in Options
  /\ fileLen \in Nat /\ sndPos \in Nat /\ sndCursor \in Nat /\ announced \in Nat
  /\ sndPc \in {"start", "read", "done"}
  /\ sndCursor <= sndPos /\ sndCursor < config.send.buffer_size
  /\ sndPc = "start" => sndPos = 0
  /\ ended \in BOOLEAN /\ cut \in BOOLEAN
  /\ ended <=> (cut \/ sndPc = "done")
  /\ stream \in Seq(Pieces) /\ buffer \in Seq(Pieces) /\ disk \in Seq(Pieces)
  /\ remaining \in Nat
  /\ rcvPc \in {"header", "create", "read", "footer", "ok", "exists", "eof", "badSize",
               "badHash", "failed"}
  /\ Len(buffer) < config.receive.buffer_size

\* What is on its way are the items after those that were taken, and all that was
\* written unless some were cut off.
StreamInv ==
  Receiving =>
    /\ Consumed + Len(stream) <= Total
    /\ ~cut => Consumed + Len(stream) = Total
    /\ \A i \in 1 .. Len(stream) : stream[i] = SentItem(announced, sndPos, Consumed + i)

\* The receiver has written and holds the items after the header, as many as it
\* was told.
ContentInv ==
  /\ rcvPc = "header" => disk = <<>> /\ buffer = <<>>
  /\ Receiving /\ rcvPc # "header" =>
       /\ remaining <= announced
       /\ Len(disk) + Len(buffer) = announced - remaining
       /\ \A i \in 1 .. Len(disk) : disk[i] = SentItem(announced, sndPos, 1 + i)
       /\ \A i \in 1 .. Len(buffer) : buffer[i] = SentItem(announced, sndPos, 1 + Len(disk) + i)
  /\ rcvPc = "footer" => buffer = <<>> /\ (remaining # 0 => ended /\ stream = <<>>)

AcceptedInv ==
  rcvPc = "ok" =>
    /\ disk = Content(0, announced) /\ sndPc # "start"
    /\ config.receive.hash => sndPc = "done" /\ announced = sndPos

FileInv == FileTypes /\ StreamInv /\ ContentInv /\ AcceptedInv

LEMMA OptionsType ==
  \A c \in Options :
    /\ c.send.buffer_size \in Nat \ {0} /\ c.send.hash \in BOOLEAN
    /\ c.receive.buffer_size \in Nat \ {0} /\ c.receive.hash \in BOOLEAN
BY DEF Options

LEMMA ItemType ==
  ASSUME NEW a \in Nat, NEW pos \in Nat, NEW p \in Nat \ {0}
  PROVE  SentItem(a, pos, p) \in Pieces
BY DEF SentItem, Header, Byte, FooterItem, Pieces

LEMMA ItemByte ==
  ASSUME NEW a, NEW pos \in Nat, NEW j \in Nat, j >= 1, j <= pos, NEW p \in Nat, p = 1 + j
  PROVE  SentItem(a, pos, p) = Byte(j)
<1>1. p # 1 /\ p - 1 = j
  OBVIOUS
<1>2. QED
  BY <1>1 DEF SentItem

LEMMA ItemFooter ==
  ASSUME NEW a, NEW pos \in Nat, NEW k \in Nat, k >= 1, NEW p \in Nat, p = 1 + pos + k
  PROVE  SentItem(a, pos, p) = FooterItem(k)
<1>1. p # 1 /\ ~(p - 1 <= pos) /\ p - 1 - pos = k
  OBVIOUS
<1>2. QED
  BY <1>1 DEF SentItem

LEMMA ContentType ==
  ASSUME NEW from \in Nat, NEW to \in Nat, from <= to
  PROVE  /\ Content(from, to) \in Seq(Pieces) /\ Len(Content(from, to)) = to - from
         /\ \A i \in 1 .. (to - from) : Content(from, to)[i] = Byte(from + i)
<1> DEFINE n == to - from
<1>1. n \in Nat /\ \A i \in 1 .. n : Byte(from + i) \in Pieces
  BY DEF Byte, Pieces
<1>2. Content(from, to) = [i \in 1 .. n |-> Byte(from + i)]
  BY DEF Content
<1> HIDE DEF n
<1>3. Content(from, to) \in [1 .. n -> Pieces]
  BY <1>1, <1>2
<1>4. Content(from, to) \in Seq(Pieces) /\ Len(Content(from, to)) = n
  BY <1>1, <1>3
<1>5. QED
  BY <1>2, <1>4 DEF n

LEMMA FooterType ==
  /\ FooterLen \in Nat \ {0} /\ Footer \in Seq(Pieces) /\ Len(Footer) = FooterLen
  /\ \A k \in 1 .. FooterLen : Footer[k] = FooterItem(k)
<1>1. FooterLen \in Nat \ {0}
  BY FileTransferAssumption
<1>2. Footer = [k \in 1 .. FooterLen |-> FooterItem(k)]
  BY DEF Footer, FooterItem
<1>3. \A k \in 1 .. FooterLen : FooterItem(k) \in Pieces
  BY <1>1 DEF FooterItem, Pieces
<1>4. Footer \in [1 .. FooterLen -> Pieces]
  BY <1>2, <1>3
<1>5. QED
  BY <1>1, <1>2, <1>4

LEMMA MinOfTwo ==
  ASSUME NEW a \in Int, NEW b \in Int
  PROVE  Min({a, b}) \in {a, b} /\ Min({a, b}) <= a /\ Min({a, b}) <= b
<1>1. \E x \in {a, b} : \A y \in {a, b} : x <= y
  <2>1. CASE a <= b
    BY <2>1
  <2>2. CASE b <= a
    BY <2>2
  <2>3. QED
    BY <2>1, <2>2
<1>2. Min({a, b}) \in {a, b} /\ \A y \in {a, b} : Min({a, b}) <= y
  BY <1>1 DEF Min
<1>3. QED
  BY <1>2

LEMMA FileStarts == Init => FileInv
<1> SUFFICES ASSUME Init PROVE FileInv
  OBVIOUS
<1>1. config \in Options /\ fileLen \in Nat /\ MaxLen \in Nat
  BY FileTransferAssumption DEF Init
<1>2. /\ config.send.buffer_size \in Nat /\ config.send.buffer_size > 0
      /\ config.receive.buffer_size \in Nat /\ config.receive.buffer_size > 0
  BY <1>1, OptionsType
<1>3. Len(<<>>) = 0 /\ <<>> \in Seq(Pieces)
  OBVIOUS
<1>4. FileTypes
  <2>1. stream \in Seq(Pieces) /\ buffer \in Seq(Pieces) /\ disk \in Seq(Pieces) /\ Len(buffer) = 0
    BY <1>3 DEF Init
  <2>2. /\ ended \in BOOLEAN /\ cut \in BOOLEAN
        /\ ended <=> (cut \/ sndPc = "done")
    BY DEF Init
  <2>3. /\ fileLen \in Nat /\ sndPos \in Nat /\ sndCursor \in Nat /\ announced \in Nat
        /\ sndPc \in {"start", "read", "done"}
        /\ sndCursor <= sndPos /\ sndCursor < config.send.buffer_size
        /\ sndPc = "start" => sndPos = 0
        /\ remaining \in Nat /\ rcvPc = "header"
    BY <1>1, <1>2 DEF Init
  <2>4. QED
    BY <1>1, <1>2, <2>1, <2>2, <2>3 DEF FileTypes
<1>5. StreamInv /\ ContentInv /\ AcceptedInv
  BY <1>3 DEF Init, StreamInv, ContentInv, AcceptedInv, Consumed, Total, Receiving
<1>6. QED
  BY <1>4, <1>5 DEF FileInv

\* The items that were written stay what they are.
LEMMA ItemsKeep ==
  ASSUME NEW a \in Nat, NEW pos \in Nat, NEW pos2 \in Nat, pos <= pos2,
         NEW p \in Nat, p = 1 \/ p - 1 <= pos
  PROVE  SentItem(a, pos2, p) = SentItem(a, pos, p)
BY DEF SentItem

\* A step of the sender, or of another program on its file, that adds to what was
\* written and to the stream.
LEMMA SenderKeeps ==
  ASSUME FileInv, FileTypes', UNCHANGED <<rcvVars, config>>, Total <= Total',
         Total' \in Nat, Total \in Nat,
         sndPc # "start" => UNCHANGED announced,
         sndPos <= sndPos', sndPc = "done" => UNCHANGED <<sndPc, sndPos>>,
         sndPc' = "start" => sndPc = "start",
         Receiving => /\ Consumed' + Len(stream') <= Total'
                      /\ ~cut' => Consumed' + Len(stream') = Total'
                      /\ \A i \in 1 .. Len(stream') :
                           i > Len(stream) => stream'[i] = SentItem(announced', sndPos', Consumed' + i)
                      /\ \A i \in 1 .. Len(stream') :
                           i <= Len(stream) => stream'[i] = stream[i],
         ended \/ UNCHANGED stream \/ Len(stream) <= Len(stream'),
         rcvPc = "footer" /\ stream = <<>> /\ ended => stream' = <<>> /\ ended'
  PROVE  FileInv'
<1>1. ASSUME NEW p \in Nat, p # 0, p <= Total
      PROVE  SentItem(announced', sndPos', p) = SentItem(announced, sndPos, p)
  <2>1. sndPc # "start" /\ announced' = announced
    BY <1>1 DEF Total
  <2>2. CASE sndPc = "done"
    BY <2>1, <2>2
  <2>3. CASE sndPc = "read"
    <3>1. p = 1 \/ p - 1 <= sndPos
      <4>1. sndPos \in Nat /\ sndCursor \in Nat
        BY DEF FileInv, FileTypes
      <4>2. Total = 1 + sndPos - sndCursor
        BY <2>3 DEF Total
      <4>3. QED
        BY <1>1, <4>1, <4>2
    <3>2. QED
      BY <2>1, <3>1, ItemsKeep DEF FileInv, FileTypes
  <2>4. QED
    BY <2>1, <2>2, <2>3 DEF FileInv, FileTypes
<1>2. rcvPc' = rcvPc /\ remaining' = remaining /\ buffer' = buffer /\ disk' = disk
  BY DEF rcvVars
<1>3. ASSUME Receiving, rcvPc # "header"
      PROVE  announced' = announced /\ Consumed' = Consumed /\ Consumed \in Nat /\ Consumed >= 1
             /\ Consumed <= Total
  <2>1. /\ remaining <= announced /\ remaining \in Nat /\ announced \in Nat
        /\ Len(stream) \in Nat /\ Consumed + Len(stream) <= Total
    BY <1>3 DEF FileInv, FileTypes, ContentInv, StreamInv
  <2>2. Consumed = 1 + announced - remaining
    BY <1>3 DEF Consumed
  <2>3. Consumed \in Nat /\ Consumed >= 1 /\ Consumed <= Total
    BY <2>1, <2>2
  <2>4. sndPc # "start"
    BY <2>3 DEF Total
  <2>5. announced' = announced
    BY <2>4
  <2>6. QED
    BY <1>2, <2>3, <2>5 DEF Consumed
<1>4. StreamInv'
  <2> SUFFICES ASSUME Receiving
               PROVE  \A i \in 1 .. Len(stream') :
                        stream'[i] = SentItem(announced', sndPos', Consumed' + i)
    BY <1>2 DEF StreamInv, Receiving
  <2>1. Consumed' = Consumed /\ Consumed \in Nat
    BY <1>2, <1>3 DEF Consumed
  <2>2. ASSUME NEW i \in 1 .. Len(stream'), i <= Len(stream)
        PROVE  stream'[i] = SentItem(announced', sndPos', Consumed' + i)
    <3>1. Len(stream) \in Nat /\ Len(stream') \in Nat
      BY DEF FileInv, FileTypes
    <3>2. i \in 1 .. Len(stream) /\ i \in Nat
      BY <2>2, <3>1
    <3>3. Consumed + Len(stream) <= Total /\ stream[i] = SentItem(announced, sndPos, Consumed + i)
      BY <3>2 DEF FileInv, StreamInv
    <3>4. Consumed + i \in Nat /\ Consumed + i # 0 /\ Consumed + i <= Total
      BY <2>1, <3>1, <3>2, <3>3
    <3>5. SentItem(announced', sndPos', Consumed + i) = SentItem(announced, sndPos, Consumed + i)
      BY <1>1, <3>4
    <3>6. stream'[i] = stream[i]
      BY <2>2
    <3>7. QED
      BY <2>1, <3>3, <3>5, <3>6
  <2>3. Len(stream) \in Nat /\ Len(stream') \in Nat
    BY DEF FileInv, FileTypes
  <2>4. QED
    BY <2>2, <2>3
<1>5. ContentInv'
  <2>1. CASE Receiving /\ rcvPc # "header"
    <3>1. /\ Len(disk) \in Nat /\ Len(buffer) \in Nat /\ Consumed = 1 + Len(disk) + Len(buffer)
      <4>1. Len(disk) \in Nat /\ Len(buffer) \in Nat /\ remaining \in Nat /\ announced \in Nat
        BY DEF FileInv, FileTypes
      <4>2. Len(disk) + Len(buffer) = announced - remaining
        BY <2>1 DEF FileInv, ContentInv
      <4>3. Consumed = 1 + announced - remaining
        BY <2>1 DEF Consumed
      <4>4. QED
        BY <4>1, <4>2, <4>3
    <3>2. ASSUME NEW i \in 1 .. Len(disk)
          PROVE  disk[i] = SentItem(announced', sndPos', 1 + i)
      <4>1. 1 + i \in Nat /\ 1 + i # 0 /\ 1 + i <= Total
        BY <1>3, <2>1, <3>1
      <4>2. disk[i] = SentItem(announced, sndPos, 1 + i)
        BY <2>1 DEF FileInv, ContentInv
      <4>3. QED
        BY <1>1, <4>1, <4>2
    <3>3. ASSUME NEW i \in 1 .. Len(buffer)
          PROVE  buffer[i] = SentItem(announced', sndPos', 1 + Len(disk) + i)
      <4>1. 1 + Len(disk) + i \in Nat /\ 1 + Len(disk) + i # 0 /\ 1 + Len(disk) + i <= Total
        BY <1>3, <2>1, <3>1
      <4>2. buffer[i] = SentItem(announced, sndPos, 1 + Len(disk) + i)
        BY <2>1 DEF FileInv, ContentInv
      <4>3. QED
        BY <1>1, <4>1, <4>2
    <3>4. QED
      BY <1>2, <1>3, <2>1, <3>2, <3>3 DEF FileInv, ContentInv, Receiving
  <2>2. CASE ~(Receiving /\ rcvPc # "header")
    BY <1>2, <2>2 DEF FileInv, ContentInv, Receiving
  <2>3. QED
    BY <2>1, <2>2
<1>6. AcceptedInv'
  BY <1>2 DEF FileInv, AcceptedInv, FileTypes
<1>7. QED
  BY <1>4, <1>5, <1>6 DEF FileInv

LEMMA TotalType == FileTypes => Total \in Nat
BY FooterType DEF FileTypes, Total

\* What a write of the sender does to the stream.
LEMMA StreamWritten ==
  ASSUME FileTypes, NEW bytes \in Seq(Pieces), Write(bytes)
  PROVE  /\ stream' \in Seq(Pieces) /\ Len(stream) \in Nat /\ Len(bytes) \in Nat
         /\ ended => stream' = stream
         /\ ~ended => /\ Len(stream') = Len(stream) + Len(bytes)
                      /\ \A i \in 1 .. Len(stream) : stream'[i] = stream[i]
                      /\ \A i \in 1 .. Len(bytes) : stream'[Len(stream) + i] = bytes[i]
<1>1. /\ stream \in Seq(Pieces)
      /\ stream' = IF ended THEN stream ELSE stream \o bytes
  BY DEF FileTypes, Write
<1>2. PICK m \in Nat : m = Len(stream)
  BY <1>1, LenProperties
<1>3. PICK n \in Nat : n = Len(bytes)
  BY LenProperties
<1>4. /\ stream \o bytes \in Seq(Pieces) /\ Len(stream \o bytes) = m + n
      /\ \A i \in 1 .. m : (stream \o bytes)[i] = stream[i]
      /\ \A i \in 1 .. n : (stream \o bytes)[m + i] = bytes[i]
  BY <1>1, <1>2, <1>3, Joined
<1>5. CASE ended
  BY <1>1, <1>2, <1>3, <1>5
<1>6. CASE ~ended
  BY <1>1, <1>2, <1>3, <1>4, <1>6
<1>7. QED
  BY <1>5, <1>6

\* A write that begins where the last one ended.
LEMMA WriteKeeps ==
  ASSUME FileInv, NEW bytes \in Seq(Pieces), Write(bytes), UNCHANGED <<rcvVars, config, cut>>,
         sndPc # "done", sndPc' # "start",
         sndPc # "start" => UNCHANGED announced,
         sndPos <= sndPos', FileTypes', Total' = Total + Len(bytes),
         ended => ended',
         \A i \in 1 .. Len(bytes) : bytes[i] = SentItem(announced', sndPos', Total + i)
  PROVE  FileInv'
<1>1. /\ Len(stream) \in Nat /\ Len(stream') \in Nat /\ Len(bytes) \in Nat
      /\ Total \in Nat /\ Total' \in Nat
  <2>1. FileTypes /\ stream \in Seq(Pieces)
    BY DEF FileInv, FileTypes
  <2>2. stream' \in Seq(Pieces)
    BY <2>1, StreamWritten
  <2>3. Len(stream) \in Nat /\ Len(stream') \in Nat /\ Len(bytes) \in Nat
    BY <2>1, <2>2, LenProperties
  <2>4. Total \in Nat
    BY <2>1, TotalType
  <2>5. QED
    BY <2>3, <2>4
<1>2. /\ ended => stream' = stream
      /\ ~ended => /\ Len(stream') = Len(stream) + Len(bytes)
                   /\ \A i \in 1 .. Len(stream) : stream'[i] = stream[i]
                   /\ \A i \in 1 .. Len(bytes) : stream'[Len(stream) + i] = bytes[i]
  BY StreamWritten DEF FileInv
<1>3. ended <=> cut
  BY DEF FileInv, FileTypes
<1>4. Receiving => /\ Consumed \in Nat /\ Consumed' = Consumed
                   /\ Consumed + Len(stream) <= Total
                   /\ ~cut => Consumed + Len(stream) = Total
  <2> SUFFICES ASSUME Receiving
               PROVE  /\ Consumed \in Nat /\ Consumed' = Consumed
                      /\ Consumed + Len(stream) <= Total
                      /\ ~cut => Consumed + Len(stream) = Total
    OBVIOUS
  <2>1. Consumed + Len(stream) <= Total /\ (~cut => Consumed + Len(stream) = Total)
    BY DEF FileInv, StreamInv
  <2>2. CASE rcvPc = "header"
    BY <2>1, <2>2 DEF Consumed, rcvVars
  <2>3. CASE rcvPc # "header"
    <3>1. remaining <= announced /\ remaining \in Nat /\ announced \in Nat
      BY <2>3 DEF FileInv, FileTypes, ContentInv
    <3>2. Consumed = 1 + announced - remaining
      BY <2>3 DEF Consumed
    <3>3. Consumed \in Nat /\ Consumed >= 1
      BY <3>1, <3>2
    <3>4. sndPc # "start"
      BY <1>1, <2>1, <3>3 DEF Total
    <3>5. announced' = announced
      BY <3>4
    <3>6. QED
      BY <2>1, <3>3, <3>5 DEF Consumed, rcvVars
  <2>4. QED
    BY <2>2, <2>3
<1>5. ASSUME Receiving
      PROVE  /\ Consumed' + Len(stream') <= Total'
             /\ ~cut' => Consumed' + Len(stream') = Total'
  <2>1. Consumed \in Nat /\ Consumed' = Consumed /\ Consumed + Len(stream) <= Total
    BY <1>4, <1>5
  <2>2. CASE ended
    <3>1. cut' /\ Len(stream') = Len(stream)
      BY <1>2, <1>3, <2>2
    <3>2. QED
      BY <1>1, <2>1, <3>1
  <2>3. CASE ~ended
    <3>1. Len(stream') = Len(stream) + Len(bytes) /\ Consumed + Len(stream) = Total
      BY <1>2, <1>3, <1>4, <1>5, <2>3
    <3>2. QED
      BY <1>1, <2>1, <3>1
  <2>4. QED
    BY <2>2, <2>3
<1>6. ASSUME Receiving, NEW i \in 1 .. Len(stream'), i > Len(stream)
      PROVE  stream'[i] = SentItem(announced', sndPos', Consumed' + i)
  <2>1. ~ended
    BY <1>1, <1>2, <1>6
  <2>2. PICK k \in 1 .. Len(bytes) : i = Len(stream) + k
    <3>1. i - Len(stream) \in 1 .. Len(bytes) /\ i = Len(stream) + (i - Len(stream))
      BY <1>1, <1>2, <1>6, <2>1
    <3>2. QED
      BY <3>1
  <2>3. stream'[i] = bytes[k]
    BY <1>2, <2>1, <2>2
  <2>4. Consumed' + i = Total + k
    <3>1. Consumed \in Nat /\ Consumed' = Consumed /\ Consumed + Len(stream) = Total
      BY <1>3, <1>4, <1>6, <2>1
    <3>2. QED
      BY <1>1, <2>2, <3>1
  <2>5. QED
    BY <2>3, <2>4
<1>7. \A i \in 1 .. Len(stream') : i <= Len(stream) => stream'[i] = stream[i]
  BY <1>1, <1>2
<1>8. ended \/ Len(stream) <= Len(stream')
  BY <1>1, <1>2
<1>9. rcvPc = "footer" /\ stream = <<>> /\ ended => stream' = <<>> /\ ended'
  BY <1>2
<1>10. Total <= Total'
  BY <1>1
<1>11. QED
  BY <1>1, <1>5, <1>6, <1>7, <1>8, <1>9, <1>10, SenderKeeps

\* Resizing the source file leaves what was sent and received.
LEMMA ResizeStep ==
  ASSUME FileInv, Resize
  PROVE  FileInv'
<1>1. fileLen' \in Nat
  BY FileTransferAssumption DEF Resize
<1>2. UNCHANGED <<config, sndPc, sndPos, sndCursor, announced, linkVars, rcvVars>>
  BY DEF Resize
<1>3. FileTypes'
  BY <1>1, <1>2 DEF FileInv, FileTypes, linkVars, rcvVars
<1>4. StreamInv' /\ ContentInv' /\ AcceptedInv'
  BY <1>2 DEF FileInv, StreamInv, ContentInv, AcceptedInv, Total, Consumed, Receiving,
     linkVars, rcvVars
<1>5. QED
  BY <1>3, <1>4 DEF FileInv

LEMMA SendHeaderStep ==
  ASSUME FileInv, SendHeader
  PROVE  FileInv'
<1> DEFINE bytes == <<Header(fileLen)>>
<1>1. /\ FileTypes /\ sndPc = "start" /\ sndPc' = "read" /\ announced' = fileLen /\ Write(bytes)
      /\ UNCHANGED <<config, fileLen, sndPos, sndCursor, ended, cut, rcvVars>>
  BY DEF FileInv, SendHeader
<1>2. fileLen \in Nat /\ sndPos = 0 /\ sndCursor = 0
  BY <1>1 DEF FileTypes
<1>3. Header(fileLen) \in Pieces
  BY <1>2 DEF Header, Pieces
<1>4. bytes \in Seq(Pieces) /\ Len(bytes) = 1 /\ bytes[1] = Header(fileLen)
  BY <1>3
<1> HIDE DEF bytes
<1>5. stream' \in Seq(Pieces)
  BY <1>1, <1>4, StreamWritten
<1>6. FileTypes'
  BY <1>1, <1>2, <1>5 DEF FileTypes, rcvVars
<1>7. Total = 0 /\ Total' = 1
  BY <1>1, <1>2 DEF Total
<1>8. \A i \in 1 .. Len(bytes) : bytes[i] = SentItem(announced', sndPos', Total + i)
  BY <1>1, <1>4, <1>7 DEF SentItem
<1>9. Total' = Total + Len(bytes) /\ sndPos <= sndPos'
  BY <1>1, <1>2, <1>4, <1>7
<1>10. QED
  BY <1>1, <1>4, <1>6, <1>8, <1>9, WriteKeeps

LEMMA SendContentStep ==
  ASSUME FileInv, SendContent
  PROVE  FileInv'
<1> DEFINE b == config.send.buffer_size
<1>1. PICK n \in 1 .. (b - sndCursor) :
        /\ sndPos' = sndPos + n
        /\ IF sndCursor + n < b
           THEN sndCursor' = sndCursor + n /\ UNCHANGED <<sndHashed, stream>>
           ELSE /\ sndCursor' = 0
                /\ Write(Content(sndPos' - b, sndPos'))
  BY DEF SendContent
<1>2. /\ FileTypes /\ sndPc = "read"
      /\ UNCHANGED <<config, fileLen, sndPc, announced, ended, cut, rcvVars>>
  BY DEF FileInv, SendContent
<1>3. /\ sndPos \in Nat /\ sndCursor \in Nat /\ sndCursor <= sndPos /\ sndCursor < b
      /\ b \in Nat /\ b > 0 /\ n \in Nat /\ n >= 1 /\ sndCursor + n <= b
  <2>1. b \in Nat \ {0}
    BY <1>2, OptionsType DEF FileTypes
  <2>2. sndPos \in Nat /\ sndCursor \in Nat /\ sndCursor <= sndPos /\ sndCursor < b
    BY <1>2 DEF FileTypes
  <2> HIDE DEF b
  <2>3. QED
    BY <2>1, <2>2
<1>4. Total = 1 + sndPos - sndCursor
  BY <1>2 DEF Total
<1>5. CASE sndCursor + n < b
  <2>1. sndCursor' = sndCursor + n /\ stream' = stream
    BY <1>1, <1>5
  <2>2. FileTypes'
    <3>1. sndCursor' < config'.send.buffer_size /\ sndCursor' <= sndPos'
      BY <1>1, <1>2, <1>3, <1>5, <2>1
    <3>2. sndPos' \in Nat /\ sndCursor' \in Nat
      BY <1>1, <1>3, <2>1
    <3> HIDE DEF b
    <3>3. QED
      BY <1>2, <2>1, <3>1, <3>2 DEF FileTypes, rcvVars
  <2>3. Total' = Total
    <3>1. Total' = 1 + sndPos' - sndCursor'
      BY <1>2 DEF Total
    <3> HIDE DEF b
    <3>2. QED
      BY <1>1, <1>3, <1>4, <2>1, <3>1
  <2>4. <<>> \in Seq(Pieces) /\ Len(<<>>) = 0 /\ stream \o <<>> = stream
    BY <1>2 DEF FileTypes
  <2>5. Write(<<>>)
    BY <2>1, <2>4 DEF Write
  <2>6. Total' = Total + Len(<<>>) /\ sndPos <= sndPos'
    BY <1>1, <1>2, <1>3, <2>3, <2>4, TotalType
  <2>7. \A i \in 1 .. Len(<<>>) : <<>>[i] = SentItem(announced', sndPos', Total + i)
    BY <2>4
  <2> HIDE DEF b
  <2>8. QED
    BY <1>2, <2>2, <2>4, <2>5, <2>6, <2>7, WriteKeeps
<1>6. CASE ~(sndCursor + n < b)
  <2> DEFINE from == sndPos' - b
             bytes == Content(from, sndPos')
  <2>1. sndCursor' = 0 /\ Write(bytes)
    BY <1>1, <1>6
  <2>2. sndCursor + n = b /\ from \in Nat /\ sndPos' \in Nat /\ from <= sndPos'
        /\ sndPos' - from = b /\ from = sndPos - sndCursor
    <3> HIDE DEF b
    <3>1. QED
      BY <1>1, <1>3, <1>6
  <2> HIDE DEF from, b
  <2>3. /\ bytes \in Seq(Pieces) /\ Len(bytes) = b
        /\ \A i \in 1 .. b : bytes[i] = Byte(from + i)
    BY <2>2, ContentType
  <2> HIDE DEF bytes
  <2>4. stream' \in Seq(Pieces)
    BY <1>2, <2>1, <2>3, StreamWritten
  <2>5. FileTypes'
    <3>1. config'.send.buffer_size > 0 /\ config'.send.buffer_size \in Nat
      BY <1>2, <1>3 DEF b
    <3>2. QED
      BY <1>2, <2>1, <2>2, <2>4, <3>1 DEF FileTypes, rcvVars
  <2>6. Total' = 1 + sndPos'
    BY <1>2, <2>1, <2>2 DEF Total
  <2>7. Total = 1 + from
    BY <1>3, <1>4, <2>2
  <2>8. Total' = Total + Len(bytes)
    <3>1. Len(bytes) = b /\ from \in Nat /\ sndPos' - from = b /\ sndPos' \in Nat
      BY <2>2, <2>3
    <3>2. QED
      BY <2>6, <2>7, <3>1
  <2>9. ASSUME NEW i \in 1 .. Len(bytes)
        PROVE  bytes[i] = SentItem(announced', sndPos', Total + i)
    <3>1. Len(bytes) = b /\ from \in Nat /\ sndPos' - from = b /\ sndPos' \in Nat
      BY <2>2, <2>3
    <3>2. /\ i \in 1 .. b /\ from + i \in Nat /\ from + i >= 1 /\ from + i <= sndPos'
          /\ Total + i \in Nat /\ Total + i = 1 + (from + i)
      BY <2>7, <3>1
    <3>3. bytes[i] = Byte(from + i)
      BY <2>3, <3>2
    <3>4. PICK j \in Nat : j = from + i
      BY <3>2
    <3>5. PICK p \in Nat : p = Total + i
      BY <3>2
    <3>6. PICK pos \in Nat : pos = sndPos'
      BY <3>1
    <3>7. j >= 1 /\ j <= pos /\ p = 1 + j
      BY <3>2, <3>4, <3>5, <3>6
    <3>8. SentItem(announced', pos, p) = Byte(j)
      BY <3>7, ItemByte
    <3>9. QED
      BY <3>3, <3>4, <3>5, <3>6, <3>8
  <2>10. sndPos <= sndPos'
    BY <1>1, <1>3
  <2>11. QED
    BY <1>2, <2>1, <2>3, <2>5, <2>8, <2>9, <2>10, WriteKeeps
<1>7. QED
  BY <1>5, <1>6

LEMMA SendFooterStep ==
  ASSUME FileInv, SendFooter
  PROVE  FileInv'
<1> DEFINE from == sndPos - sndCursor
           rest == Content(from, sndPos)
           bytes == rest \o Footer
<1>1. /\ FileTypes /\ sndPc = "read" /\ sndPc' = "done" /\ ended' = TRUE /\ sndCursor' = 0
      /\ Write(bytes)
      /\ UNCHANGED <<config, fileLen, sndPos, announced, cut, rcvVars>>
  BY DEF FileInv, SendFooter
<1>2. /\ sndPos \in Nat /\ sndCursor \in Nat /\ from \in Nat /\ from <= sndPos
      /\ sndPos - from = sndCursor
  BY <1>1 DEF FileTypes
<1> HIDE DEF from
<1>3. /\ rest \in Seq(Pieces) /\ Len(rest) = sndCursor
      /\ \A i \in 1 .. sndCursor : rest[i] = Byte(from + i)
  BY <1>2, ContentType
<1> HIDE DEF rest
<1>4. /\ bytes \in Seq(Pieces) /\ Len(bytes) = sndCursor + FooterLen
      /\ \A i \in 1 .. sndCursor : bytes[i] = rest[i]
      /\ \A i \in 1 .. FooterLen : bytes[sndCursor + i] = Footer[i]
  <2>1. Footer \in Seq(Pieces) /\ Len(Footer) = FooterLen
    BY FooterType
  <2>2. bytes \in Seq(Pieces) /\ Len(bytes) = Len(rest) + Len(Footer)
    BY <1>3, <2>1
  <2>3. \A i \in 1 .. Len(rest) : bytes[i] = rest[i]
    BY <1>3, <2>1
  <2>4. \A i \in 1 .. Len(Footer) : bytes[Len(rest) + i] = Footer[i]
    BY <1>3, <2>1
  <2> HIDE DEF bytes
  <2>5. QED
    BY <1>3, <2>1, <2>2, <2>3, <2>4
<1> HIDE DEF bytes
<1>5. stream' \in Seq(Pieces)
  BY <1>1, <1>4, StreamWritten
<1>6. FileTypes'
  <2>1. config'.send.buffer_size > 0 /\ config'.send.buffer_size \in Nat
    BY <1>1, OptionsType DEF FileTypes
  <2>2. QED
    BY <1>1, <1>2, <1>5, <2>1 DEF FileTypes, rcvVars
<1>7. Total = 1 + from /\ Total' = 1 + sndPos + FooterLen
  BY <1>1 DEF Total, from
<1>8. FooterLen \in Nat
  BY FooterType
<1>9. Total' = Total + Len(bytes)
  BY <1>2, <1>4, <1>7, <1>8
<1>10. ASSUME NEW i \in 1 .. Len(bytes)
       PROVE  bytes[i] = SentItem(announced', sndPos', Total + i)
  <2>1. CASE i \in 1 .. sndCursor
    <3>1. /\ from + i \in Nat /\ from + i >= 1 /\ from + i <= sndPos' /\ sndPos' \in Nat
          /\ Total + i \in Nat /\ Total + i = 1 + (from + i)
      BY <1>1, <1>2, <1>7, <2>1
    <3>2. bytes[i] = Byte(from + i)
      BY <1>3, <1>4, <2>1
    <3>3. SentItem(announced', sndPos', Total + i) = Byte(from + i)
      BY <3>1, ItemByte
    <3>4. QED
      BY <3>2, <3>3
  <2>2. CASE i \notin 1 .. sndCursor
    <3>1. PICK k \in 1 .. FooterLen : i = sndCursor + k
      <4>1. i - sndCursor \in 1 .. FooterLen /\ i = sndCursor + (i - sndCursor)
        BY <1>2, <1>4, <1>8, <2>2
      <4>2. QED
        BY <4>1
    <3>2. bytes[i] = FooterItem(k)
      BY <1>4, <3>1, FooterType
    <3>3. /\ k \in Nat /\ k >= 1 /\ sndPos' \in Nat
          /\ Total + i \in Nat /\ Total + i = 1 + sndPos' + k
      BY <1>1, <1>2, <1>7, <1>8, <3>1
    <3>4. SentItem(announced', sndPos', Total + i) = FooterItem(k)
      BY <3>3, ItemFooter
    <3>5. QED
      BY <3>2, <3>4
  <2>3. QED
    BY <2>1, <2>2
<1>11. sndPos <= sndPos'
  BY <1>1, <1>2
<1>12. QED
  BY <1>1, <1>4, <1>6, <1>9, <1>10, <1>11, WriteKeeps

LEMMA CutStep ==
  ASSUME FileInv, Cut
  PROVE  FileInv'
<1>1. PICK k \in 0 .. Len(stream) : stream' = SubSeq(stream, 1, k)
  BY DEF Cut
<1>2. /\ FileTypes /\ cut' = TRUE /\ ended' = TRUE /\ UNCHANGED <<fileVars, rcvVars>>
  BY DEF FileInv, Cut
<1>3. stream \in Seq(Pieces) /\ Len(stream) \in Nat
  BY <1>2 DEF FileTypes
<1>4. /\ stream' \in Seq(Pieces) /\ Len(stream') = k
      /\ \A i \in 1 .. k : stream'[i] = stream[i]
  BY <1>1, <1>3
<1>5. FileTypes'
  BY <1>2, <1>4 DEF FileTypes, fileVars, rcvVars
<1>6. Total' = Total /\ Total \in Nat
  BY <1>2, TotalType DEF Total, fileVars
<1>7. Consumed' = Consumed /\ (Receiving => Consumed \in Nat)
  <2>1. Receiving /\ rcvPc # "header" => remaining <= announced /\ remaining \in Nat /\ announced \in Nat
    BY DEF FileInv, FileTypes, ContentInv
  <2>2. Receiving => Consumed \in Nat
    BY <2>1 DEF Consumed
  <2>3. QED
    BY <1>2, <2>2 DEF Consumed, rcvVars, fileVars
<1>8. StreamInv'
  <2> SUFFICES ASSUME Receiving
               PROVE  /\ Consumed + k <= Total
                      /\ \A i \in 1 .. k : stream'[i] = SentItem(announced, sndPos, Consumed + i)
    BY <1>2, <1>4, <1>6, <1>7 DEF StreamInv, Receiving, rcvVars, fileVars
  <2>1. Consumed + Len(stream) <= Total
    BY DEF FileInv, StreamInv
  <2>2. Consumed + k <= Total
    BY <1>3, <1>6, <1>7, <2>1
  <2>3. \A i \in 1 .. k : i \in 1 .. Len(stream)
    BY <1>3
  <2>4. QED
    BY <1>4, <2>2, <2>3 DEF FileInv, StreamInv
<1>9. stream = <<>> => stream' = <<>>
  BY <1>1, <1>3
<1>10. ContentInv' /\ AcceptedInv'
  BY <1>2, <1>9 DEF FileInv, ContentInv, AcceptedInv, Receiving, rcvVars, fileVars
<1>11. QED
  BY <1>5, <1>8, <1>10 DEF FileInv
-----------------------------------------------------------------------------
\* The receiver takes the first n pieces of what is on its way.
LEMMA StreamTaken ==
  ASSUME FileTypes, StreamInv, Receiving, Consumed \in Nat, NEW n \in 0 .. Len(stream),
         stream' = SubSeq(stream, n + 1, Len(stream)),
         UNCHANGED <<fileVars, ended, cut>>, Consumed' = Consumed + n
  PROVE  /\ StreamInv' /\ stream' \in Seq(Pieces)
         /\ \A i \in 1 .. n : stream[i] = SentItem(announced, sndPos, Consumed + i)
<1>1. stream \in Seq(Pieces) /\ Len(stream) \in Nat /\ n \in Nat /\ n <= Len(stream)
  BY DEF FileTypes
<1>2. /\ stream' \in Seq(Pieces) /\ Len(stream') = Len(stream) - n
      /\ \A i \in 1 .. (Len(stream) - n) : stream'[i] = stream[i + n]
  BY <1>1
<1>3. /\ Consumed + Len(stream) <= Total
      /\ ~cut => Consumed + Len(stream) = Total
      /\ \A i \in 1 .. Len(stream) : stream[i] = SentItem(announced, sndPos, Consumed + i)
  BY DEF StreamInv
<1>4. /\ announced' = announced /\ sndPos' = sndPos /\ cut' = cut /\ Total' = Total
      /\ Total \in Nat
  BY TotalType DEF fileVars, Total
<1>5. Consumed' + Len(stream') = Consumed + Len(stream)
  <2>1. PICK before \in Nat, step \in Nat, start \in Nat :
          before = Len(stream) /\ step = n /\ start = Consumed
    BY <1>1
  <2>2. start + step + (before - step) = start + before
    OBVIOUS
  <2>3. Consumed' = start + step /\ Len(stream') = before - step
    BY <1>2, <2>1
  <2>4. QED
    BY <2>1, <2>2, <2>3
<1>6. ASSUME NEW i \in 1 .. Len(stream')
      PROVE  stream'[i] = SentItem(announced', sndPos', Consumed' + i)
  <2>1. i + n \in 1 .. Len(stream) /\ i \in 1 .. (Len(stream) - n)
    BY <1>1, <1>2
  <2>2. stream'[i] = SentItem(announced, sndPos, Consumed + (i + n))
    BY <1>2, <1>3, <2>1
  <2>3. Consumed + (i + n) = Consumed' + i
    BY <1>1, <2>1
  <2>4. QED
    BY <1>4, <2>2, <2>3
<1>7. StreamInv'
  <2>1. Consumed' + Len(stream') <= Total'
    BY <1>3, <1>4, <1>5
  <2>2. ASSUME ~cut'
        PROVE  Consumed' + Len(stream') = Total'
    <3>1. ~cut
      BY <1>4, <2>2
    <3>2. Consumed + Len(stream) = Total
      BY <1>3, <3>1
    <3>3. QED
      BY <1>4, <1>5, <3>2
  <2>3. QED
    BY <1>6, <2>1, <2>2 DEF StreamInv
<1>8. \A i \in 1 .. n : i \in 1 .. Len(stream)
  BY <1>1
<1>9. QED
  BY <1>2, <1>3, <1>7, <1>8

LEMMA ReceiveHeaderStep ==
  ASSUME FileInv, ReceiveHeader
  PROVE  FileInv'
<1>1. /\ FileTypes /\ rcvPc = "header"
      /\ UNCHANGED <<fileVars, ended, cut, buffer, rcvHashed, disk>>
  BY DEF FileInv, ReceiveHeader
<1>2. CASE /\ stream # <<>> /\ remaining' = Head(stream).val
           /\ stream' = Tail(stream) /\ rcvPc' = "create"
  <2>1. /\ stream \in Seq(Pieces) /\ 1 \in 0 .. Len(stream) /\ Head(stream) = stream[1]
        /\ Tail(stream) = SubSeq(stream, 1 + 1, Len(stream))
    BY <1>1, <1>2 DEF FileTypes
  <2>2. Receiving /\ Consumed = 0 /\ StreamInv
    BY <1>1 DEF FileInv, Receiving, Consumed
  <2>3. 1 \in 1 .. Len(stream) /\ Consumed + 1 = 1
    BY <2>1, <2>2
  <2>4. stream[1] = SentItem(announced, sndPos, 1)
    BY <2>2, <2>3 DEF StreamInv
  <2>5. remaining' = announced /\ announced' = announced /\ announced \in Nat
    BY <1>1, <1>2, <2>1, <2>4 DEF SentItem, Header, fileVars, FileTypes
  <2>6. Consumed' = Consumed + 1 /\ Consumed \in Nat
    BY <1>2, <2>2, <2>5 DEF Consumed
  <2>7. StreamInv' /\ stream' \in Seq(Pieces)
    BY <1>1, <1>2, <2>1, <2>2, <2>6, StreamTaken
  <2>8. FileTypes'
    BY <1>1, <1>2, <2>5, <2>7 DEF FileTypes, fileVars
  <2>9. disk = <<>> /\ buffer = <<>> /\ Len(<<>>) = 0
    BY <1>1 DEF FileInv, ContentInv
  <2>10. ContentInv'
    BY <1>1, <1>2, <2>5, <2>9 DEF ContentInv
  <2>11. AcceptedInv'
    BY <1>2 DEF AcceptedInv
  <2>12. QED
    BY <2>7, <2>8, <2>10, <2>11 DEF FileInv
<1>3. CASE rcvPc' = "eof" /\ UNCHANGED <<remaining, stream>>
  <2>1. FileTypes'
    BY <1>1, <1>3 DEF FileTypes, fileVars
  <2>2. StreamInv' /\ ContentInv' /\ AcceptedInv'
    BY <1>3 DEF StreamInv, ContentInv, AcceptedInv, Receiving
  <2>3. QED
    BY <2>1, <2>2 DEF FileInv
<1>4. QED
  BY <1>2, <1>3 DEF ReceiveHeader

\* The receiver opens the output file, or fails.
LEMMA CreateFileStep ==
  ASSUME FileInv, CreateFile \/ ReceiveFails
  PROVE  FileInv'
<1>1. /\ FileTypes /\ rcvPc \in {"create", "read"}
      /\ (rcvPc' = "read" /\ rcvPc = "create") \/ rcvPc' \in {"exists", "failed"}
      /\ UNCHANGED <<fileVars, linkVars, remaining, buffer, rcvHashed, disk>>
  BY DEF FileInv, CreateFile, ReceiveFails
<1>2. FileTypes'
  BY <1>1 DEF FileTypes, fileVars, linkVars
<1>3. StreamInv'
  BY <1>1 DEF FileInv, StreamInv, Receiving, Consumed, Total, fileVars, linkVars
<1>4. ContentInv' /\ AcceptedInv'
  BY <1>1 DEF FileInv, ContentInv, AcceptedInv, Receiving, fileVars, linkVars
<1>5. QED
  BY <1>2, <1>3, <1>4 DEF FileInv

\* While content is received the counts fit.
LEMMA Counts ==
  ASSUME FileInv, rcvPc \in {"read", "footer"}
  PROVE  /\ Receiving /\ Consumed = 1 + announced - remaining /\ Consumed \in Nat
         /\ remaining \in Nat /\ announced \in Nat /\ remaining <= announced
         /\ Len(disk) \in Nat /\ Len(buffer) \in Nat /\ Len(stream) \in Nat
         /\ Len(disk) + Len(buffer) = announced - remaining
<1>1. remaining \in Nat /\ announced \in Nat /\ remaining <= announced
  BY DEF FileInv, FileTypes, ContentInv, Receiving
<1>2. Consumed = 1 + announced - remaining /\ Receiving
  BY DEF Consumed, Receiving
<1>3. Len(disk) \in Nat /\ Len(buffer) \in Nat /\ Len(stream) \in Nat
  BY DEF FileInv, FileTypes
<1>4. Len(disk) + Len(buffer) = announced - remaining
  BY DEF FileInv, ContentInv, Receiving
<1>5. QED
  BY <1>1, <1>2, <1>3, <1>4

\* How many bytes a read returns.
LEMMA ReadCount ==
  ASSUME FileInv, rcvPc = "read", NEW n \in 1 .. Min({Slice, Len(stream)})
  PROVE  /\ n \in Nat /\ n >= 1 /\ n <= remaining /\ n <= Len(stream)
         /\ n + Len(buffer) <= config.receive.buffer_size
         /\ config.receive.buffer_size \in Nat /\ config.receive.buffer_size > 0
<1> DEFINE b == config.receive.buffer_size
<1>1. b \in Nat \ {0}
  BY OptionsType DEF FileInv, FileTypes
<1>2. remaining \in Nat /\ Len(buffer) \in Nat /\ Len(stream) \in Nat
  BY Counts
<1> HIDE DEF b
<1>3. Slice = Min({b - Len(buffer), remaining})
  BY DEF Slice, b
<1> DEFINE room == b - Len(buffer)
           some == Min({Slice, Len(stream)})
<1>4. room \in Int /\ remaining \in Int /\ Len(stream) \in Int
  BY <1>1, <1>2
<1> HIDE DEF room, some
<1>5. Slice \in {room, remaining} /\ Slice <= room /\ Slice <= remaining
  BY <1>3, <1>4, MinOfTwo DEF room
<1>6. Slice \in Int
  BY <1>4, <1>5
<1>7. some \in {Slice, Len(stream)} /\ some <= Slice /\ some <= Len(stream)
  BY <1>4, <1>6, MinOfTwo DEF some
<1>8. some \in Int /\ n \in 1 .. some
  BY <1>4, <1>6, <1>7 DEF some
<1>9. n \in Nat /\ n >= 1 /\ n <= Slice /\ n <= Len(stream)
  BY <1>4, <1>6, <1>7, <1>8
<1>10. n + Len(buffer) <= b
  BY <1>1, <1>2, <1>5, <1>6, <1>9 DEF room
<1>11. n <= remaining
  BY <1>4, <1>5, <1>6, <1>9
<1>12. QED
  BY <1>1, <1>9, <1>10, <1>11 DEF b

LEMMA ReceiveContentStep ==
  ASSUME FileInv, ReceiveContent
  PROVE  FileInv'
<1>1. PICK n \in 1 .. Min({Slice, Len(stream)}) :
        /\ stream' = SubSeq(stream, n + 1, Len(stream))
        /\ remaining' = remaining - n
        /\ LET bytes == buffer \o SubSeq(stream, 1, n) IN
           IF Len(bytes) < config.receive.buffer_size
           THEN buffer' = bytes /\ UNCHANGED <<rcvHashed, disk>>
           ELSE buffer' = <<>> /\ disk' = disk \o bytes
  BY DEF ReceiveContent
<1>2. /\ FileTypes /\ StreamInv /\ rcvPc = "read" /\ rcvPc' = "read"
      /\ UNCHANGED <<fileVars, ended, cut>>
  BY DEF FileInv, ReceiveContent
<1> DEFINE bytes == buffer \o SubSeq(stream, 1, n)
           b == config.receive.buffer_size
<1>3. /\ n \in Nat /\ n >= 1 /\ n <= remaining /\ n <= Len(stream)
      /\ n + Len(buffer) <= b /\ b \in Nat /\ b > 0
  BY <1>2, ReadCount
<1>4. /\ Receiving /\ Consumed = 1 + announced - remaining /\ Consumed \in Nat
      /\ remaining \in Nat /\ announced \in Nat /\ remaining <= announced
      /\ Len(disk) \in Nat /\ Len(buffer) \in Nat /\ Len(stream) \in Nat
      /\ Len(disk) + Len(buffer) = announced - remaining
  BY <1>2, Counts
<1>5. announced' = announced /\ sndPos' = sndPos /\ config' = config
  BY <1>2 DEF fileVars
<1>6. Consumed' = Consumed + n
  <2>1. Consumed' = 1 + announced' - remaining'
    BY <1>2 DEF Consumed
  <2>2. QED
    BY <1>1, <1>3, <1>4, <1>5, <2>1
<1>7. /\ StreamInv' /\ stream' \in Seq(Pieces)
      /\ \A i \in 1 .. n : stream[i] = SentItem(announced, sndPos, Consumed + i)
  <2>1. n \in 0 .. Len(stream)
    BY <1>3, <1>4
  <2>2. QED
    BY <1>1, <1>2, <1>4, <1>6, <2>1, StreamTaken
<1>8. buffer \in Seq(Pieces) /\ disk \in Seq(Pieces) /\ stream \in Seq(Pieces)
  BY <1>2 DEF FileTypes
<1>9. /\ SubSeq(stream, 1, n) \in Seq(Pieces) /\ Len(SubSeq(stream, 1, n)) = n
      /\ \A i \in 1 .. n : SubSeq(stream, 1, n)[i] = stream[i]
  BY <1>3, <1>4, <1>8
<1>10. /\ bytes \in Seq(Pieces) /\ Len(bytes) = Len(buffer) + n
       /\ \A i \in 1 .. Len(buffer) : bytes[i] = buffer[i]
       /\ \A i \in 1 .. n : bytes[Len(buffer) + i] = stream[i]
  <2> DEFINE got == SubSeq(stream, 1, n)
  <2> HIDE DEF got
  <2>1. /\ buffer \o got \in Seq(Pieces) /\ Len(buffer \o got) = Len(buffer) + n
        /\ \A i \in 1 .. Len(buffer) : (buffer \o got)[i] = buffer[i]
        /\ \A i \in 1 .. n : (buffer \o got)[Len(buffer) + i] = got[i]
    BY <1>3, <1>4, <1>8, <1>9 DEF got
  <2>2. QED
    BY <1>9, <2>1 DEF got
<1>11. IF Len(bytes) < b THEN buffer' = bytes /\ disk' = disk
                         ELSE buffer' = <<>> /\ disk' = disk \o bytes
  BY <1>1
<1> HIDE DEF bytes, b
<1>12. /\ \A i \in 1 .. Len(disk) : disk[i] = SentItem(announced, sndPos, 1 + i)
       /\ \A i \in 1 .. Len(buffer) : buffer[i] = SentItem(announced, sndPos, 1 + Len(disk) + i)
  BY <1>2, <1>4 DEF FileInv, ContentInv
<1>13. ASSUME NEW i \in 1 .. Len(bytes)
       PROVE  bytes[i] = SentItem(announced, sndPos, 1 + Len(disk) + i)
  <2>1. CASE i \in 1 .. Len(buffer)
    BY <1>10, <1>12, <2>1
  <2>2. CASE i \notin 1 .. Len(buffer)
    <3>1. PICK k \in 1 .. n : i = Len(buffer) + k
      <4>1. i - Len(buffer) \in 1 .. n /\ i = Len(buffer) + (i - Len(buffer))
        BY <1>3, <1>4, <1>10, <2>2
      <4>2. QED
        BY <4>1
    <3>2. Consumed + k = 1 + Len(disk) + i
      BY <1>3, <1>4, <3>1
    <3>3. bytes[i] = SentItem(announced, sndPos, Consumed + k)
      BY <1>7, <1>10, <3>1
    <3>4. QED
      BY <3>2, <3>3
  <2>3. QED
    BY <2>1, <2>2
<1>14. remaining' \in Nat /\ remaining' <= announced /\ announced - remaining' = Len(disk) + Len(bytes)
  <2>1. remaining' = remaining - n /\ Len(bytes) = Len(buffer) + n
    BY <1>1, <1>10
  <2> DEFINE d == Len(disk)
             l == Len(buffer)
             m == Len(bytes)
  <2>2. d \in Nat /\ l \in Nat /\ m = l + n /\ d + l = announced - remaining
    BY <1>4, <2>1
  <2> HIDE DEF d, l, m
  <2>3. remaining' \in Nat /\ remaining' <= announced /\ announced - remaining' = d + m
    BY <1>3, <1>4, <2>1, <2>2
  <2>4. QED
    BY <2>3 DEF d, m
<1>15. AcceptedInv'
  BY <1>2 DEF AcceptedInv
<1>16. CASE Len(bytes) < b
  <2>1. buffer' = bytes /\ disk' = disk
    BY <1>11, <1>16
  <2>2. FileTypes'
    BY <1>2, <1>7, <1>8, <1>10, <1>14, <1>16, <2>1 DEF FileTypes, fileVars, b
  <2>3. ContentInv'
    BY <1>2, <1>5, <1>12, <1>13, <1>14, <2>1 DEF ContentInv
  <2>4. QED
    BY <1>7, <1>15, <2>2, <2>3 DEF FileInv
<1>17. CASE ~(Len(bytes) < b)
  <2> DEFINE more == disk \o bytes
  <2>1. /\ more \in Seq(Pieces) /\ Len(more) = Len(disk) + Len(bytes)
        /\ \A i \in 1 .. Len(disk) : more[i] = disk[i]
        /\ \A i \in 1 .. Len(bytes) : more[Len(disk) + i] = bytes[i]
    <3>1. disk \in Seq(Pieces) /\ bytes \in Seq(Pieces)
      BY <1>8, <1>10
    <3>2. more \in Seq(Pieces) /\ Len(more) = Len(disk) + Len(bytes)
      BY <3>1
    <3>3. \A i \in 1 .. Len(disk) : more[i] = disk[i]
      BY <3>1
    <3>4. \A i \in 1 .. Len(bytes) : more[Len(disk) + i] = bytes[i]
      BY <3>1
    <3>5. QED
      BY <3>2, <3>3, <3>4
  <2>2. buffer' = <<>> /\ disk' = more /\ Len(<<>>) = 0 /\ <<>> \in Seq(Pieces)
    BY <1>11, <1>17
  <2> HIDE DEF more
  <2>3. Len(bytes) \in Nat
    BY <1>10
  <2>4. ASSUME NEW i \in 1 .. Len(more)
        PROVE  more[i] = SentItem(announced, sndPos, 1 + i)
    <3>1. CASE i \in 1 .. Len(disk)
      BY <1>12, <2>1, <3>1
    <3>2. CASE i \notin 1 .. Len(disk)
      <4>1. PICK k \in 1 .. Len(bytes) : i = Len(disk) + k
        <5>1. i - Len(disk) \in 1 .. Len(bytes) /\ i = Len(disk) + (i - Len(disk))
          BY <1>4, <2>1, <2>3, <3>2
        <5>2. QED
          BY <5>1
      <4>2. 1 + i = 1 + Len(disk) + k
        BY <1>4, <4>1
      <4>3. more[i] = SentItem(announced, sndPos, 1 + Len(disk) + k)
        BY <1>13, <2>1, <4>1
      <4>4. QED
        BY <4>2, <4>3
    <3>3. QED
      BY <3>1, <3>2
  <2>5. FileTypes'
    <3>1. Len(buffer') < config'.receive.buffer_size
      BY <1>3, <1>5, <2>2 DEF b
    <3>2. /\ buffer' \in Seq(Pieces) /\ disk' \in Seq(Pieces) /\ stream' \in Seq(Pieces)
          /\ remaining' \in Nat /\ rcvPc' = "read"
      BY <1>2, <1>7, <1>14, <2>1, <2>2
    <3>3. QED
      BY <1>2, <3>1, <3>2 DEF FileTypes, fileVars
  <2>6. Len(disk') + Len(buffer') = announced' - remaining'
    <3>1. Len(buffer') = 0 /\ Len(disk') = Len(more) /\ announced' = announced
      BY <1>5, <2>2
    <3>2. Len(more) = announced - remaining' /\ Len(more) \in Nat
      BY <1>4, <1>14, <2>1, <2>3
    <3>3. QED
      BY <3>1, <3>2
  <2>7. ContentInv'
    BY <1>2, <1>5, <1>14, <2>2, <2>4, <2>6 DEF ContentInv
  <2>8. QED
    BY <1>7, <1>15, <2>5, <2>7 DEF FileInv
<1>18. QED
  BY <1>16, <1>17

LEMMA ReceiveEndStep ==
  ASSUME FileInv, ReceiveEnd
  PROVE  FileInv'
<1> DEFINE more == disk \o buffer
<1>1. /\ FileTypes /\ rcvPc = "read" /\ rcvPc' = "footer"
      /\ remaining = 0 \/ (ended /\ stream = <<>>)
      /\ disk' = more /\ buffer' = <<>>
      /\ UNCHANGED <<fileVars, linkVars, remaining>>
  BY DEF FileInv, ReceiveEnd, ReadsNothing, Exhausted, Rest
<1>2. /\ Receiving /\ Len(disk) \in Nat /\ Len(buffer) \in Nat
      /\ remaining \in Nat /\ announced \in Nat /\ remaining <= announced
      /\ Len(disk) + Len(buffer) = announced - remaining
  BY <1>1, Counts
<1>3. disk \in Seq(Pieces) /\ buffer \in Seq(Pieces)
  BY <1>1 DEF FileTypes
<1>4. /\ more \in Seq(Pieces) /\ Len(more) = Len(disk) + Len(buffer)
      /\ \A i \in 1 .. Len(disk) : more[i] = disk[i]
      /\ \A i \in 1 .. Len(buffer) : more[Len(disk) + i] = buffer[i]
  BY <1>3
<1> HIDE DEF more
<1>5. /\ \A i \in 1 .. Len(disk) : disk[i] = SentItem(announced, sndPos, 1 + i)
      /\ \A i \in 1 .. Len(buffer) : buffer[i] = SentItem(announced, sndPos, 1 + Len(disk) + i)
  BY <1>1, <1>2 DEF FileInv, ContentInv
<1>6. ASSUME NEW i \in 1 .. Len(more)
      PROVE  more[i] = SentItem(announced, sndPos, 1 + i)
  <2>1. CASE i \in 1 .. Len(disk)
    BY <1>4, <1>5, <2>1
  <2>2. CASE i \notin 1 .. Len(disk)
    <3>1. PICK k \in 1 .. Len(buffer) : i = Len(disk) + k
      <4>1. i - Len(disk) \in 1 .. Len(buffer) /\ i = Len(disk) + (i - Len(disk))
        BY <1>2, <1>4, <2>2
      <4>2. QED
        BY <4>1
    <3>2. 1 + i = 1 + Len(disk) + k
      BY <1>2, <3>1
    <3>3. more[i] = SentItem(announced, sndPos, 1 + Len(disk) + k)
      BY <1>4, <1>5, <3>1
    <3>4. QED
      BY <3>2, <3>3
  <2>3. QED
    BY <2>1, <2>2
<1>7. Len(<<>>) = 0 /\ <<>> \in Seq(Pieces)
  OBVIOUS
<1>8. FileTypes'
  <2>1. config'.receive.buffer_size \in Nat /\ config'.receive.buffer_size > 0
    BY <1>1, OptionsType DEF FileTypes, fileVars
  <2>2. QED
    BY <1>1, <1>4, <1>7, <2>1 DEF FileTypes, fileVars, linkVars
<1>9. StreamInv'
  BY <1>1 DEF FileInv, StreamInv, Receiving, Consumed, Total, fileVars, linkVars
<1>10. Len(disk') + Len(buffer') = announced' - remaining'
  BY <1>1, <1>2, <1>4, <1>7 DEF fileVars
<1>11. ContentInv'
  BY <1>1, <1>2, <1>6, <1>7, <1>10 DEF ContentInv, fileVars, linkVars
<1>12. AcceptedInv'
  BY <1>1 DEF AcceptedInv
<1>13. QED
  BY <1>8, <1>9, <1>11, <1>12 DEF FileInv

\* When the content is complete and a footer's length of bytes follows, the content
\* is that of the file.
LEMMA CompleteContent ==
  ASSUME FileInv, rcvPc = "footer", remaining = 0, Len(stream) >= FooterLen
  PROVE  /\ disk = Content(0, announced) /\ sndPc # "start" /\ announced <= sndPos
         /\ sndPc = "read" => announced < sndPos
         /\ \A i \in 1 .. FooterLen : stream[i] = SentItem(announced, sndPos, 1 + announced + i)
<1>1. /\ Receiving /\ Consumed = 1 + announced /\ announced \in Nat
      /\ Len(disk) = announced /\ Len(stream) \in Nat
  <2>1. buffer = <<>> /\ Len(<<>>) = 0
    BY DEF FileInv, ContentInv
  <2>2. QED
    BY <2>1, Counts
<1>2. FooterLen \in Nat /\ FooterLen >= 1
  BY FooterType
<1>3. /\ sndPos \in Nat /\ sndCursor \in Nat /\ sndPc \in {"start", "read", "done"}
      /\ disk \in Seq(Pieces)
  BY DEF FileInv, FileTypes
<1>4. /\ Consumed + Len(stream) <= Total
      /\ \A i \in 1 .. Len(stream) : stream[i] = SentItem(announced, sndPos, Consumed + i)
  BY <1>1 DEF FileInv, StreamInv
<1>5. 1 + announced + FooterLen <= Total
  BY <1>1, <1>2, <1>4, TotalType DEF FileInv
<1>6. sndPc # "start"
  BY <1>1, <1>2, <1>5 DEF Total
<1>7. announced <= sndPos /\ (sndPc = "read" => announced < sndPos)
  <2>1. CASE sndPc = "read"
    <3>1. Total = 1 + sndPos - sndCursor
      BY <2>1 DEF Total
    <3>2. QED
      BY <1>1, <1>2, <1>3, <1>5, <3>1
  <2>2. CASE sndPc = "done"
    <3>1. Total = 1 + sndPos + FooterLen
      BY <2>2 DEF Total
    <3>2. QED
      BY <1>1, <1>2, <1>3, <1>5, <2>2, <3>1
  <2>3. QED
    BY <1>3, <1>6, <2>1, <2>2
<1>8. ASSUME NEW i \in 1 .. announced
      PROVE  disk[i] = Byte(i)
  <2>1. disk[i] = SentItem(announced, sndPos, 1 + i)
    BY <1>1 DEF FileInv, ContentInv
  <2>2. i \in Nat /\ i >= 1 /\ i <= sndPos /\ 1 + i \in Nat
    BY <1>1, <1>3, <1>7
  <2>3. SentItem(announced, sndPos, 1 + i) = Byte(i)
    BY <1>3, <2>2, ItemByte
  <2>4. QED
    BY <2>1, <2>3
<1>9. /\ Content(0, announced) \in Seq(Pieces) /\ Len(Content(0, announced)) = announced
      /\ \A i \in 1 .. announced : Content(0, announced)[i] = Byte(i)
  <2>1. /\ Content(0, announced) \in Seq(Pieces) /\ Len(Content(0, announced)) = announced - 0
        /\ \A i \in 1 .. (announced - 0) : Content(0, announced)[i] = Byte(0 + i)
    <3>1. 0 \in Nat /\ announced \in Nat /\ 0 <= announced
      BY <1>1
    <3> DEFINE zero == 0
    <3>2. zero \in Nat /\ zero <= announced
      BY <3>1
    <3> HIDE DEF zero
    <3>3. /\ Content(zero, announced) \in Seq(Pieces)
          /\ Len(Content(zero, announced)) = announced - zero
          /\ \A i \in 1 .. (announced - zero) : Content(zero, announced)[i] = Byte(zero + i)
      BY <3>1, <3>2, ContentType
    <3>4. QED
      BY <3>3 DEF zero
  <2>2. announced - 0 = announced
    BY <1>1
  <2>3. ASSUME NEW i \in 1 .. announced
        PROVE  Content(0, announced)[i] = Byte(i)
    <3>1. 0 + i = i
      BY <1>1
    <3>2. Content(0, announced)[i] = Byte(0 + i)
      BY <2>1, <2>2
    <3>3. QED
      BY <3>1, <3>2
  <2>4. QED
    BY <2>1, <2>2, <2>3
<1>10. disk = Content(0, announced)
  BY <1>1, <1>3, <1>8, <1>9, SeqEqual
<1>11. \A i \in 1 .. FooterLen : i \in 1 .. Len(stream)
  BY <1>1, <1>2
<1>12. QED
  BY <1>1, <1>4, <1>6, <1>7, <1>10, <1>11

\* A footer that is accepted is the footer of the file.
LEMMA FooterFound ==
  ASSUME FileInv, rcvPc = "footer", remaining = 0, Len(stream) >= FooterLen,
         SubSeq(stream, 1, FooterLen) = Footer
  PROVE  sndPc = "done" /\ announced = sndPos
<1>1. /\ FooterLen \in Nat /\ FooterLen >= 1 /\ stream \in Seq(Pieces) /\ Len(stream) \in Nat
      /\ announced \in Nat /\ sndPos \in Nat /\ sndPc \in {"start", "read", "done"}
  BY FooterType DEF FileInv, FileTypes
<1>2. SubSeq(stream, 1, FooterLen)[1] = stream[1] /\ 1 \in 1 .. FooterLen
  BY <1>1
<1>3. stream[1] = FooterItem(1)
  BY <1>2, FooterType
<1>4. /\ sndPc # "start" /\ announced <= sndPos /\ (sndPc = "read" => announced < sndPos)
      /\ stream[1] = SentItem(announced, sndPos, 1 + announced + 1)
  BY <1>2, CompleteContent
<1>5. ~(announced < sndPos)
  <2> SUFFICES ASSUME announced < sndPos PROVE FALSE
    OBVIOUS
  <2>1. SentItem(announced, sndPos, 1 + announced + 1) = Byte(announced + 1)
    BY <1>1, ItemByte
  <2>2. QED
    BY <1>3, <1>4, <2>1 DEF Byte, FooterItem
<1>6. QED
  BY <1>1, <1>4, <1>5

LEMMA ReceiveFooterStep ==
  ASSUME FileInv, ReceiveFooter
  PROVE  FileInv'
<1>1. /\ FileTypes /\ rcvPc = "footer" /\ rcvPc' \in {"badSize", "ok", "badHash", "eof"}
      /\ UNCHANGED <<fileVars, ended, cut, remaining, buffer, rcvHashed, disk>>
      /\ stream' = SubSeq(stream, FooterLen + 1, Len(stream)) \/ stream' = stream
  BY DEF FileInv, ReceiveFooter
<1>2. stream \in Seq(Pieces) /\ Len(stream) \in Nat /\ FooterLen \in Nat
  BY <1>1, FooterType DEF FileTypes
<1>3. SubSeq(stream, FooterLen + 1, Len(stream)) \in Seq(Pieces)
  BY <1>2
<1>4. FileTypes'
  BY <1>1, <1>2, <1>3 DEF FileTypes, fileVars
<1>5. StreamInv' /\ ContentInv'
  BY <1>1 DEF StreamInv, ContentInv, Receiving
<1>6. AcceptedInv'
  <2> SUFFICES ASSUME rcvPc' = "ok"
               PROVE  /\ disk = Content(0, announced) /\ sndPc # "start"
                      /\ config.receive.hash => sndPc = "done" /\ announced = sndPos
    BY <1>1 DEF AcceptedInv, fileVars
  <2>1. /\ Len(stream) >= FooterLen /\ remaining = 0
        /\ config.receive.hash => SubSeq(stream, 1, FooterLen) = Footer
    BY DEF ReceiveFooter, HashAccepted, HashMatches
  <2>2. disk = Content(0, announced) /\ sndPc # "start"
    BY <1>1, <2>1, CompleteContent
  <2>3. config.receive.hash => sndPc = "done" /\ announced = sndPos
    BY <1>1, <2>1, FooterFound
  <2>4. QED
    BY <2>2, <2>3
<1>7. QED
  BY <1>4, <1>5, <1>6 DEF FileInv

LEMMA FileStep ==
  ASSUME FileInv, [Next]_vars
  PROVE  FileInv'
<1>1. CASE Resize
  BY <1>1, ResizeStep
<1>2. CASE SendHeader
  BY <1>2, SendHeaderStep
<1>3. CASE SendContent
  BY <1>3, SendContentStep
<1>4. CASE SendFooter
  BY <1>4, SendFooterStep
<1>5. CASE Cut
  BY <1>5, CutStep
<1>6. CASE ReceiveHeader
  BY <1>6, ReceiveHeaderStep
<1>7. CASE CreateFile \/ ReceiveFails
  BY <1>7, CreateFileStep
<1>8. CASE ReceiveContent
  BY <1>8, ReceiveContentStep
<1>9. CASE ReceiveEnd
  BY <1>9, ReceiveEndStep
<1>10. CASE ReceiveFooter
  BY <1>10, ReceiveFooterStep
<1>11. CASE UNCHANGED vars
  <2>1. UNCHANGED <<fileVars, linkVars, rcvVars>>
    BY <1>11 DEF vars
  <2>2. QED
    BY <2>1 DEF FileInv, FileTypes, StreamInv, ContentInv, AcceptedInv, Receiving, Consumed,
                Total, fileVars, linkVars, rcvVars
<1>12. QED
  BY <1>1, <1>2, <1>3, <1>4, <1>5, <1>6, <1>7, <1>8, <1>9, <1>10, <1>11 DEF Next, Sender, Receiver

-----------------------------------------------------------------------------
(* A transfer that nothing disturbs is accepted *)

SendSize == config.send.buffer_size

\* The hash of a file grows by a full buffer at a time: h[k] is what was hashed
\* up to the place pos[k].
Chain(n, pos, h, b) ==
  /\ n \in Nat \ {0} /\ pos \in [1 .. n -> Nat]
  /\ pos[1] = 0 /\ h[1] = <<>>
  /\ \A k \in 1 .. n : k + 1 <= n =>
       /\ pos[k + 1] = pos[k] + b
       /\ h[k + 1] = h[k] \o FullBuffer(Content(pos[k], pos[k] + b))
  /\ \A i, j \in 1 .. n : i < j => pos[i] + b <= pos[j]

\* The sender has hashed the whole chain, and the rest of the file at its end.
SenderHash(n, pos, h) ==
  /\ sndPc # "done" => sndHashed = h[n] /\ sndPos = pos[n] + sndCursor
  /\ sndPc = "done" => /\ sndHashed = h[n] \o Content(pos[n], sndPos)
                       /\ pos[n] <= sndPos /\ sndPos < pos[n] + SendSize

\* The receiver has hashed the chain up to place m, and the rest at its end.
ReceiverHash(m, pos, h) ==
  /\ rcvPc \in {"header", "create", "read"} => rcvHashed = h[m] /\ Len(disk) = pos[m]
  /\ rcvPc = "footer" /\ remaining = 0 =>
       /\ rcvHashed = h[m] \o Content(pos[m], announced)
       /\ pos[m] <= announced /\ announced < pos[m] + SendSize

\* Both sides hash in steps of the same size, and the file has the announced length.
Fits ==
  /\ config.send.buffer_size = config.receive.buffer_size
  /\ sndPc = "done" => announced = sndPos

HashInv ==
  \E n, pos, h :
    /\ Chain(n, pos, h, SendSize) /\ SenderHash(n, pos, h)
    /\ Fits => \E m \in 1 .. n : ReceiverHash(m, pos, h)

\* How a transfer is rejected.
RejectedInv ==
  /\ rcvPc = "eof" => cut \/ (sndPc = "done" /\ announced # sndPos)
  /\ rcvPc # "badSize"
  /\ rcvPc = "badHash" =>
       config.receive.hash /\ (cut \/ announced < sndPos \/ config.send # config.receive)

LEMMA SendSizeType == FileInv => SendSize \in Nat \ {0} /\ config.receive.buffer_size \in Nat \ {0}
BY OptionsType DEF FileInv, FileTypes, SendSize

\* The chain has one more place.
Grows(n, pos, h, b) ==
  \E pos2, h2 :
    /\ Chain(n + 1, pos2, h2, b)
    /\ \A k \in 1 .. n : pos2[k] = pos[k] /\ h2[k] = h[k]
    /\ pos2[n + 1] = pos[n] + b
    /\ h2[n + 1] = h[n] \o FullBuffer(Content(pos[n], pos[n] + b))

LEMMA ChainGrows ==
  ASSUME NEW n, NEW pos, NEW h, NEW b \in Nat, Chain(n, pos, h, b)
  PROVE  Grows(n, pos, h, b)
<1> DEFINE next == h[n] \o FullBuffer(Content(pos[n], pos[n] + b))
           pos2 == [k \in 1 .. (n + 1) |-> IF k <= n THEN pos[k] ELSE pos[n] + b]
           h2 == [k \in 1 .. (n + 1) |-> IF k <= n THEN h[k] ELSE next]
<1>1. /\ n \in Nat \ {0} /\ pos \in [1 .. n -> Nat] /\ pos[1] = 0 /\ h[1] = <<>>
      /\ \A k \in 1 .. n : k + 1 <= n =>
           /\ pos[k + 1] = pos[k] + b
           /\ h[k + 1] = h[k] \o FullBuffer(Content(pos[k], pos[k] + b))
      /\ \A i, j \in 1 .. n : i < j => pos[i] + b <= pos[j]
  BY DEF Chain
<1>2. n \in 1 .. n /\ 1 \in 1 .. n /\ \A k \in 1 .. n : pos[k] \in Nat
  BY <1>1
<1>3. pos2 \in [1 .. (n + 1) -> Nat]
  BY <1>1, <1>2
<1>4. \A k \in 1 .. n : pos2[k] = pos[k] /\ h2[k] = h[k]
  BY <1>1
<1>5. pos2[n + 1] = pos[n] + b /\ h2[n + 1] = next
  <2>1. n + 1 \in 1 .. (n + 1) /\ ~(n + 1 <= n)
    BY <1>1
  <2>2. QED
    BY <2>1
<1> HIDE DEF pos2, h2
<1>6. ASSUME NEW k \in 1 .. (n + 1), k + 1 <= n + 1
      PROVE  /\ pos2[k + 1] = pos2[k] + b
             /\ h2[k + 1] = h2[k] \o FullBuffer(Content(pos2[k], pos2[k] + b))
  <2>1. k \in 1 .. n
    BY <1>1, <1>6
  <2>2. CASE k = n
    BY <1>2, <1>4, <1>5, <2>2
  <2>3. CASE k # n
    <3>1. k + 1 \in 1 .. n
      BY <1>1, <2>1, <2>3
    <3>2. k + 1 <= n
      BY <1>1, <3>1
    <3>3. pos2[k + 1] = pos[k + 1] /\ h2[k + 1] = h[k + 1] /\ pos2[k] = pos[k] /\ h2[k] = h[k]
      BY <1>4, <2>1, <3>1
    <3>4. QED
      BY <1>1, <2>1, <3>2, <3>3
  <2>4. QED
    BY <2>2, <2>3
<1>7. ASSUME NEW i \in 1 .. (n + 1), NEW j \in 1 .. (n + 1), i < j
      PROVE  pos2[i] + b <= pos2[j]
  <2>1. i \in 1 .. n
    BY <1>1, <1>7
  <2>2. CASE j = n + 1
    <3>1. pos2[j] = pos[n] + b /\ pos2[i] = pos[i]
      BY <1>4, <1>5, <2>1, <2>2
    <3>2. pos[i] \in Nat /\ pos[n] \in Nat
      BY <1>2, <2>1
    <3>3. pos[i] <= pos[n]
      <4>1. CASE i = n
        BY <3>2, <4>1
      <4>2. CASE i # n
        <5>1. i < n
          BY <1>1, <2>1, <4>2
        <5>2. pos[i] + b <= pos[n]
          BY <1>1, <1>2, <2>1, <5>1
        <5>3. QED
          BY <3>2, <5>2
      <4>3. QED
        BY <4>1, <4>2
    <3>4. QED
      BY <3>1, <3>2, <3>3
  <2>3. CASE j # n + 1
    <3>1. j \in 1 .. n
      BY <1>1, <2>3
    <3>2. QED
      BY <1>1, <1>4, <1>7, <2>1, <3>1
  <2>4. QED
    BY <2>2, <2>3
<1>8. 1 \in 1 .. n /\ n + 1 \in Nat \ {0}
  BY <1>1
<1>9. pos2[1] = 0 /\ h2[1] = <<>>
  BY <1>1, <1>4, <1>8
<1>10. Chain(n + 1, pos2, h2, b)
  BY <1>3, <1>6, <1>7, <1>8, <1>9 DEF Chain
<1>11. QED
  BY <1>4, <1>5, <1>10 DEF Grows

LEMMA HashStarts == Init => HashInv /\ RejectedInv
<1> SUFFICES ASSUME Init PROVE HashInv /\ RejectedInv
  OBVIOUS
<1> DEFINE pos == [k \in 1 .. 1 |-> 0]
           h == [k \in 1 .. 1 |-> <<>>]
<1>1. 1 \in 1 .. 1 /\ pos[1] = 0 /\ h[1] = <<>> /\ pos \in [1 .. 1 -> Nat]
  OBVIOUS
<1> HIDE DEF pos, h
<1>2. Chain(1, pos, h, SendSize)
  BY <1>1 DEF Chain
<1>3. Len(disk) = 0
  BY DEF Init
<1>4. SenderHash(1, pos, h) /\ ReceiverHash(1, pos, h)
  BY <1>1, <1>3 DEF Init, SenderHash, ReceiverHash
<1>5. HashInv
  BY <1>1, <1>2, <1>4 DEF HashInv
<1>6. RejectedInv
  BY DEF Init, RejectedInv
<1>7. QED
  BY <1>5, <1>6

\* A step that hashes nothing.
LEMMA HashKept ==
  ASSUME HashInv, UNCHANGED <<config, sndPos, sndCursor, sndHashed, rcvHashed, disk>>,
         sndPc' = "done" <=> sndPc = "done", sndPc = "done" => UNCHANGED announced,
         rcvPc' \in {"header", "create", "read"} => rcvPc \in {"header", "create", "read"},
         rcvPc' = "footer" => UNCHANGED <<rcvPc, remaining, announced>>
  PROVE  HashInv'
<1>1. PICK n, pos, h :
        /\ Chain(n, pos, h, SendSize) /\ SenderHash(n, pos, h)
        /\ Fits => \E m \in 1 .. n : ReceiverHash(m, pos, h)
  BY DEF HashInv
<1>2. SendSize' = SendSize /\ config' = config
  BY DEF SendSize
<1>3. Chain(n, pos, h, SendSize')
  BY <1>1, <1>2
<1>4. SenderHash(n, pos, h)'
  BY <1>1, <1>2 DEF SenderHash
<1>5. ASSUME Fits'
      PROVE  \E m \in 1 .. n : ReceiverHash(m, pos, h)'
  <2>1. Fits
    BY <1>2, <1>5 DEF Fits
  <2>2. PICK m \in 1 .. n : ReceiverHash(m, pos, h)
    BY <1>1, <2>1
  <2>3. ReceiverHash(m, pos, h)'
    BY <1>2, <2>2 DEF ReceiverHash
  <2>4. QED
    BY <2>3
<1>6. QED
  BY <1>3, <1>4, <1>5 DEF HashInv

\* A step of the sender that hashes nothing of the receiver's.
LEMMA ReceiverKept ==
  ASSUME NEW m, NEW pos, NEW h, NEW pos2, NEW h2, NEW k, pos2[k] = pos[m], h2[k] = h[m],
         UNCHANGED <<rcvVars, config, announced>>, ReceiverHash(m, pos, h)
  PROVE  ReceiverHash(k, pos2, h2)'
BY DEF ReceiverHash, rcvVars, SendSize

LEMMA SendContentHash ==
  ASSUME FileInv, HashInv, SendContent
  PROVE  HashInv'
<1>1. PICK n, pos, h :
        /\ Chain(n, pos, h, SendSize) /\ SenderHash(n, pos, h)
        /\ Fits => \E m \in 1 .. n : ReceiverHash(m, pos, h)
  BY DEF HashInv
<1>2. PICK l \in 1 .. (SendSize - sndCursor) :
        /\ sndPos' = sndPos + l
        /\ IF sndCursor + l < SendSize
           THEN sndCursor' = sndCursor + l /\ UNCHANGED sndHashed
           ELSE /\ sndCursor' = 0
                /\ sndHashed' = sndHashed \o FullBuffer(Content(sndPos' - SendSize, sndPos'))
  BY DEF SendContent, SendSize
<1>3. /\ sndPc = "read" /\ sndPc' = "read" /\ UNCHANGED <<rcvVars, config, announced>>
      /\ SendSize' = SendSize
  BY DEF SendContent, SendSize
<1>4. /\ SendSize \in Nat \ {0} /\ sndCursor \in Nat /\ sndPos \in Nat /\ l \in Nat
      /\ l <= SendSize - sndCursor
  BY <1>2, SendSizeType DEF FileInv, FileTypes
<1>5. sndHashed = h[n] /\ sndPos = pos[n] + sndCursor
  BY <1>1, <1>3 DEF SenderHash
<1>6. n \in Nat \ {0} /\ n \in 1 .. n /\ pos[n] \in Nat
  BY <1>1 DEF Chain
<1>7. Fits' => Fits
  BY <1>3 DEF Fits
<1>8. CASE sndCursor + l < SendSize
  <2>1. SenderHash(n, pos, h)'
    <3>1. sndHashed' = h[n] /\ sndPos' = pos[n] + sndCursor'
      BY <1>2, <1>4, <1>5, <1>6, <1>8
    <3>2. QED
      BY <1>3, <3>1 DEF SenderHash
  <2>2. ASSUME Fits'
        PROVE  \E m \in 1 .. n : ReceiverHash(m, pos, h)'
    <3>1. PICK m \in 1 .. n : ReceiverHash(m, pos, h)
      BY <1>1, <1>7, <2>2
    <3>2. ReceiverHash(m, pos, h)'
      BY <1>3, <3>1, ReceiverKept
    <3>3. QED
      BY <3>2
  <2>3. Chain(n, pos, h, SendSize')
    BY <1>1, <1>3
  <2>4. QED
    BY <2>1, <2>2, <2>3 DEF HashInv
<1>9. CASE ~(sndCursor + l < SendSize)
  <2>1. sndCursor' = 0 /\ sndPos' = pos[n] + SendSize /\ sndPos' - SendSize = pos[n]
    <3>1. sndCursor' = 0 /\ sndPos' = sndPos + l
      BY <1>2, <1>9
    <3>2. sndCursor + l = SendSize
      BY <1>4, <1>9
    <3>3. sndPos = pos[n] + sndCursor /\ pos[n] \in Nat
      BY <1>5, <1>6
    <3>4. sndPos + l = pos[n] + SendSize
      BY <1>4, <3>2, <3>3
    <3>5. (pos[n] + SendSize) - SendSize = pos[n]
      BY <1>4, <3>3
    <3>6. QED
      BY <3>1, <3>4, <3>5
  <2>2. sndHashed' = h[n] \o FullBuffer(Content(pos[n], pos[n] + SendSize))
    BY <1>2, <1>5, <1>9, <2>1
  <2>3. PICK pos2, h2 :
           /\ Chain(n + 1, pos2, h2, SendSize)
           /\ \A k \in 1 .. n : pos2[k] = pos[k] /\ h2[k] = h[k]
           /\ pos2[n + 1] = pos[n] + SendSize
           /\ h2[n + 1] = h[n] \o FullBuffer(Content(pos[n], pos[n] + SendSize))
    <3>1. Grows(n, pos, h, SendSize)
      BY <1>1, <1>4, ChainGrows
    <3>2. QED
      BY <3>1 DEF Grows
  <2>4. sndHashed' = h2[n + 1] /\ sndPos' = pos2[n + 1] + sndCursor'
    BY <1>4, <1>6, <2>1, <2>2, <2>3
  <2>5. SenderHash(n + 1, pos2, h2)'
    BY <1>3, <2>4 DEF SenderHash
  <2>6. ASSUME Fits'
        PROVE  \E m \in 1 .. (n + 1) : ReceiverHash(m, pos2, h2)'
    <3>1. PICK m \in 1 .. n : ReceiverHash(m, pos, h)
      BY <1>1, <1>7, <2>6
    <3>2. ReceiverHash(m, pos2, h2)'
      BY <1>3, <2>3, <3>1, ReceiverKept
    <3>3. m \in 1 .. (n + 1)
      BY <1>6
    <3>4. QED
      BY <3>2, <3>3
  <2>7. Chain(n + 1, pos2, h2, SendSize')
    BY <1>3, <2>3
  <2>8. QED
    BY <2>5, <2>6, <2>7 DEF HashInv
<1>10. QED
  BY <1>8, <1>9

LEMMA SendFooterHash ==
  ASSUME FileInv, HashInv, SendFooter
  PROVE  HashInv'
<1>1. PICK n, pos, h :
        /\ Chain(n, pos, h, SendSize) /\ SenderHash(n, pos, h)
        /\ Fits => \E m \in 1 .. n : ReceiverHash(m, pos, h)
  BY DEF HashInv
<1>2. /\ sndPc = "read" /\ sndPc' = "done" /\ UNCHANGED <<rcvVars, config, announced, sndPos>>
      /\ SendSize' = SendSize
      /\ sndHashed' = sndHashed \o Content(sndPos - sndCursor, sndPos)
  BY DEF SendFooter, SendSize
<1>3. /\ SendSize \in Nat \ {0} /\ sndCursor \in Nat /\ sndPos \in Nat
      /\ sndCursor < SendSize
  BY SendSizeType DEF FileInv, FileTypes, SendSize
<1>4. sndHashed = h[n] /\ sndPos = pos[n] + sndCursor
  BY <1>1, <1>2 DEF SenderHash
<1>5. n \in Nat \ {0} /\ n \in 1 .. n /\ pos[n] \in Nat
  BY <1>1 DEF Chain
<1>6. sndPos - sndCursor = pos[n] /\ pos[n] <= sndPos /\ sndPos < pos[n] + SendSize
  BY <1>3, <1>4, <1>5
<1>7. SenderHash(n, pos, h)'
  BY <1>2, <1>4, <1>6 DEF SenderHash
<1>8. ASSUME Fits'
      PROVE  \E m \in 1 .. n : ReceiverHash(m, pos, h)'
  <2>1. Fits
    BY <1>2, <1>8 DEF Fits
  <2>2. PICK m \in 1 .. n : ReceiverHash(m, pos, h)
    BY <1>1, <2>1
  <2>3. ReceiverHash(m, pos, h)'
    BY <1>2, <2>2, ReceiverKept
  <2>4. QED
    BY <2>3
<1>9. Chain(n, pos, h, SendSize')
  BY <1>1, <1>2
<1>10. QED
  BY <1>7, <1>8, <1>9 DEF HashInv

\* Items of the content are bytes of the file.
LEMMA ItemsAreContent ==
  ASSUME NEW q \in Seq(Pieces), NEW from \in Nat, NEW to \in Nat, from <= to,
         NEW a, NEW pos \in Nat, to <= pos, Len(q) = to - from,
         \A i \in 1 .. Len(q) : q[i] = SentItem(a, pos, 1 + from + i)
  PROVE  q = Content(from, to)
<1>1. /\ Content(from, to) \in Seq(Pieces) /\ Len(Content(from, to)) = to - from
      /\ \A i \in 1 .. (to - from) : Content(from, to)[i] = Byte(from + i)
  BY ContentType
<1>2. ASSUME NEW i \in 1 .. Len(q)
      PROVE  q[i] = Content(from, to)[i]
  <2>1. i \in 1 .. (to - from)
    OBVIOUS
  <2>2. PICK j \in Nat, p \in Nat :
          j = from + i /\ p = 1 + from + i /\ p = 1 + j /\ j >= 1 /\ j <= pos
    BY <2>1
  <2>3. SentItem(a, pos, p) = Byte(j)
    <3>1. p # 1 /\ p - 1 = j /\ j <= pos
      BY <2>2
    <3>2. QED
      BY <3>1 DEF SentItem
  <2>4. QED
    BY <1>1, <2>1, <2>2, <2>3
<1>3. QED
  BY <1>1, <1>2, SeqEqual

\* What the receiver writes to the file are bytes of the file, and no more than the
\* sender has hashed, but for the last buffer.
LEMMA ReceivedFits ==
  ASSUME FileInv, FileInv', UNCHANGED fileVars, Fits, rcvPc' \in {"read", "footer"}, buffer' = <<>>,
         NEW rest \in Seq(Pieces), disk' = disk \o rest,
         NEW n, NEW pos, NEW h, Chain(n, pos, h, SendSize), SenderHash(n, pos, h)
  PROVE  /\ Len(disk) \in Nat /\ Len(disk') = Len(disk) + Len(rest)
         /\ Len(disk') <= sndPos /\ Len(disk') < pos[n] + SendSize
         /\ rest = Content(Len(disk), Len(disk'))
         /\ Len(disk') = announced' - remaining'
<1>1. /\ SendSize \in Nat \ {0} /\ sndPos \in Nat /\ sndCursor \in Nat /\ announced \in Nat
      /\ sndPc \in {"start", "read", "done"} /\ disk \in Seq(Pieces) /\ Len(disk) \in Nat
  BY SendSizeType DEF FileInv, FileTypes
<1>2. n \in Nat \ {0} /\ n \in 1 .. n /\ pos[n] \in Nat
  BY DEF Chain
<1>3. /\ announced' = announced /\ sndPos' = sndPos /\ sndPc' = sndPc /\ sndCursor' = sndCursor
  BY DEF fileVars
<1>4. /\ disk' \in Seq(Pieces) /\ Len(disk') \in Nat /\ Len(stream') \in Nat /\ remaining' \in Nat
      /\ Len(buffer') = 0
  BY DEF FileInv, FileTypes
<1>5. /\ Len(disk') + Len(buffer') = announced' - remaining'
      /\ \A i \in 1 .. Len(disk') : disk'[i] = SentItem(announced', sndPos', 1 + i)
  BY DEF FileInv, ContentInv, Receiving
<1>6. Len(disk') = announced - remaining'
  BY <1>1, <1>3, <1>4, <1>5
<1>7. Consumed' = 1 + announced - remaining' /\ Consumed' + Len(stream') <= Total'
  BY <1>3 DEF FileInv, StreamInv, Receiving, Consumed
<1>8. Total' = Total /\ Total \in Nat
  BY <1>3, TotalType DEF Total, FileInv
<1>9. 1 + Len(disk') <= Total
  <2>1. PICK to \in Nat, left \in Nat, coming \in Nat, all \in Nat :
          to = Len(disk') /\ left = remaining' /\ coming = Len(stream') /\ all = Total
    BY <1>4, <1>8
  <2>2. to = announced - left /\ 1 + announced - left + coming <= all
    BY <1>6, <1>7, <1>8, <2>1
  <2>3. 1 + to <= all
    BY <1>1, <2>2
  <2>4. QED
    BY <2>1, <2>3
<1>10. Len(disk') <= sndPos /\ Len(disk') < pos[n] + SendSize
  <2>1. PICK to \in Nat, left \in Nat : to = Len(disk') /\ left = remaining' /\ to = announced - left
    BY <1>4, <1>6
  <2> SUFFICES to <= sndPos /\ to < pos[n] + SendSize
    BY <2>1
  <2>6. 1 + to <= Total
    BY <1>9, <2>1
  <2>2. CASE sndPc = "start"
    <3>1. Total = 0
      BY <2>2 DEF Total
    <3>2. QED
      BY <2>6, <3>1
  <2>3. CASE sndPc = "read"
    <3>1. Total = 1 + sndPos - sndCursor /\ sndPos = pos[n] + sndCursor
      BY <2>3 DEF Total, SenderHash
    <3> DEFINE last == pos[n]
    <3>2. last \in Nat /\ sndPos = last + sndCursor
      BY <1>2, <3>1
    <3> HIDE DEF last
    <3>3. to <= sndPos /\ to < last + SendSize
      BY <1>1, <2>6, <3>1, <3>2
    <3>4. QED
      BY <3>3 DEF last
  <2>4. CASE sndPc = "done"
    <3> DEFINE last == pos[n]
    <3>1. announced = sndPos /\ sndPos < last + SendSize /\ last \in Nat
      BY <1>2, <2>4 DEF Fits, SenderHash
    <3> HIDE DEF last
    <3>2. PICK whole \in Nat : whole = announced
      BY <1>1
    <3>3. to = whole - left
      BY <2>1, <3>2
    <3>4. to <= whole
      BY <3>3
    <3>5. to <= sndPos /\ to < last + SendSize
      BY <1>1, <3>1, <3>2, <3>4
    <3>6. QED
      BY <3>5 DEF last
  <2>5. QED
    BY <1>1, <2>2, <2>3, <2>4
<1>11. /\ Len(disk') = Len(disk) + Len(rest) /\ Len(rest) \in Nat
       /\ \A i \in 1 .. Len(rest) : disk'[Len(disk) + i] = rest[i]
  BY <1>1
<1>12. ASSUME NEW i \in 1 .. Len(rest)
       PROVE  rest[i] = SentItem(announced, sndPos, 1 + Len(disk) + i)
  <2>1. Len(disk) + i \in 1 .. Len(disk') /\ 1 + (Len(disk) + i) = 1 + Len(disk) + i
    BY <1>1, <1>11
  <2>2. disk'[Len(disk) + i] = SentItem(announced', sndPos', 1 + (Len(disk) + i))
    BY <1>5, <2>1
  <2>3. QED
    BY <1>3, <1>11, <2>1, <2>2
<1>13. Len(disk) <= Len(disk') /\ Len(rest) = Len(disk') - Len(disk)
  BY <1>1, <1>4, <1>11
<1> DEFINE from == Len(disk)
           to == Len(disk')
<1>14. /\ from \in Nat /\ to \in Nat /\ from <= to /\ to <= sndPos /\ Len(rest) = to - from
       /\ \A i \in 1 .. Len(rest) : rest[i] = SentItem(announced, sndPos, 1 + from + i)
  BY <1>1, <1>4, <1>10, <1>12, <1>13
<1> HIDE DEF from, to
<1>15. rest = Content(from, to)
  BY <1>1, <1>14, ItemsAreContent
<1>16. QED
  BY <1>1, <1>3, <1>6, <1>10, <1>11, <1>15 DEF from, to

LEMMA ReceiveContentHash ==
  ASSUME FileInv, FileInv', HashInv, ReceiveContent
  PROVE  HashInv'
<1>1. PICK l \in 1 .. Min({Slice, Len(stream)}) :
        LET bytes == buffer \o SubSeq(stream, 1, l) IN
        IF Len(bytes) < config.receive.buffer_size
        THEN UNCHANGED <<rcvHashed, disk>>
        ELSE /\ buffer' = <<>> /\ disk' = disk \o bytes
             /\ rcvHashed' = rcvHashed \o FullBuffer(bytes)
  BY DEF ReceiveContent
<1>2. rcvPc = "read" /\ rcvPc' = "read" /\ UNCHANGED fileVars
  BY DEF ReceiveContent
<1>3. /\ UNCHANGED <<config, sndPos, sndCursor, sndHashed, sndPc, announced>>
      /\ SendSize' = SendSize
  BY <1>2 DEF fileVars, SendSize
<1> DEFINE bytes == buffer \o SubSeq(stream, 1, l)
           b == config.receive.buffer_size
<1>4. CASE Len(bytes) < b
  <2>1. UNCHANGED <<rcvHashed, disk>>
    BY <1>1, <1>4
  <2>2. QED
    BY <1>2, <1>3, <2>1, HashKept
<1>5. CASE ~(Len(bytes) < b)
  <2>1. /\ buffer' = <<>> /\ disk' = disk \o bytes
        /\ rcvHashed' = rcvHashed \o FullBuffer(bytes)
    BY <1>1, <1>5
  <2>2. /\ l \in Nat /\ l >= 1 /\ l <= Len(stream) /\ l + Len(buffer) <= b /\ b \in Nat
    BY <1>2, ReadCount
  <2>3. buffer \in Seq(Pieces) /\ stream \in Seq(Pieces) /\ Len(buffer) \in Nat /\ Len(stream) \in Nat
    BY DEF FileInv, FileTypes
  <2>4. SubSeq(stream, 1, l) \in Seq(Pieces) /\ Len(SubSeq(stream, 1, l)) = l
    BY <2>2, <2>3
  <2>5. bytes \in Seq(Pieces) /\ Len(bytes) = Len(buffer) + l
    BY <2>3, <2>4
  <2> HIDE DEF bytes
  <2>6. Len(bytes) = b
    BY <1>5, <2>2, <2>3, <2>5
  <2>7. PICK n, pos, h :
          /\ Chain(n, pos, h, SendSize) /\ SenderHash(n, pos, h)
          /\ Fits => \E m \in 1 .. n : ReceiverHash(m, pos, h)
    BY DEF HashInv
  <2>8. Chain(n, pos, h, SendSize') /\ SenderHash(n, pos, h)'
    BY <1>3, <2>7 DEF SenderHash
  <2>9. ASSUME Fits'
        PROVE  \E m \in 1 .. n : ReceiverHash(m, pos, h)'
    <3>1. Fits /\ b = SendSize
      BY <1>3, <2>9 DEF Fits, SendSize
    <3>2. PICK m \in 1 .. n : ReceiverHash(m, pos, h)
      BY <2>7, <3>1
    <3>3. rcvHashed = h[m] /\ Len(disk) = pos[m]
      BY <1>2, <3>2 DEF ReceiverHash
    <3>4. /\ Len(disk) \in Nat /\ Len(disk') = Len(disk) + Len(bytes)
          /\ Len(disk') < pos[n] + SendSize /\ bytes = Content(Len(disk), Len(disk'))
      BY <1>2, <2>1, <2>5, <2>7, <3>1, ReceivedFits
    <3>5. Len(disk') = pos[m] + SendSize
      BY <2>6, <3>1, <3>3, <3>4
    <3>6. rcvHashed' = h[m] \o FullBuffer(Content(pos[m], pos[m] + SendSize))
      BY <2>1, <3>3, <3>4, <3>5
    <3>7. n \in Nat \ {0} /\ SendSize \in Nat /\ pos[n] \in Nat /\ pos[m] \in Nat
      BY <2>7, SendSizeType DEF Chain
    <3>8. m # n
      BY <3>4, <3>5, <3>7
    <3>9. m + 1 \in 1 .. n /\ m + 1 <= n
      BY <3>7, <3>8
    <3>10. /\ pos[m + 1] = pos[m] + SendSize
           /\ h[m + 1] = h[m] \o FullBuffer(Content(pos[m], pos[m] + SendSize))
      BY <2>7, <3>9 DEF Chain
    <3>11. ReceiverHash(m + 1, pos, h)'
      BY <1>2, <3>5, <3>6, <3>10 DEF ReceiverHash
    <3>12. QED
      BY <3>9, <3>11
  <2>10. QED
    BY <2>8, <2>9 DEF HashInv
<1>6. QED
  BY <1>4, <1>5

LEMMA ReceiveEndHash ==
  ASSUME FileInv, FileInv', HashInv, ReceiveEnd
  PROVE  HashInv'
<1>1. /\ rcvPc = "read" /\ rcvPc' = "footer" /\ UNCHANGED <<fileVars, remaining>>
      /\ disk' = disk \o buffer /\ buffer' = <<>> /\ rcvHashed' = rcvHashed \o buffer
  BY DEF ReceiveEnd, Rest
<1>2. /\ UNCHANGED <<config, sndPos, sndCursor, sndHashed, sndPc, announced>>
      /\ SendSize' = SendSize
  BY <1>1 DEF fileVars, SendSize
<1>3. PICK n, pos, h :
        /\ Chain(n, pos, h, SendSize) /\ SenderHash(n, pos, h)
        /\ Fits => \E m \in 1 .. n : ReceiverHash(m, pos, h)
  BY DEF HashInv
<1>4. Chain(n, pos, h, SendSize') /\ SenderHash(n, pos, h)'
  BY <1>2, <1>3 DEF SenderHash
<1>5. ASSUME Fits'
      PROVE  \E m \in 1 .. n : ReceiverHash(m, pos, h)'
  <2>1. Fits /\ config.receive.buffer_size = SendSize
    BY <1>2, <1>5 DEF Fits, SendSize
  <2>2. PICK m \in 1 .. n : ReceiverHash(m, pos, h)
    BY <1>3, <2>1
  <2>3. rcvHashed = h[m] /\ Len(disk) = pos[m]
    BY <1>1, <2>2 DEF ReceiverHash
  <2>4. buffer \in Seq(Pieces) /\ Len(buffer) \in Nat /\ Len(buffer) < SendSize /\ announced \in Nat
        /\ SendSize \in Nat
    BY <2>1, SendSizeType DEF FileInv, FileTypes
  <2>5. /\ Len(disk) \in Nat /\ Len(disk') = Len(disk) + Len(buffer)
        /\ buffer = Content(Len(disk), Len(disk')) /\ Len(disk') = announced' - remaining'
    BY <1>1, <1>3, <2>1, <2>4, ReceivedFits
  <2>6. ASSUME remaining = 0
        PROVE  /\ rcvHashed' = h[m] \o Content(pos[m], announced)
               /\ pos[m] <= announced /\ announced < pos[m] + SendSize
    <3>1. Len(disk') = announced
      BY <1>1, <1>2, <2>4, <2>5, <2>6
    <3>2. pos[m] \in Nat /\ announced = pos[m] + Len(buffer)
      BY <2>3, <2>5, <3>1
    <3>3. rcvHashed' = h[m] \o Content(pos[m], announced)
      BY <1>1, <2>3, <2>5, <3>1
    <3> DEFINE l == Len(buffer)
               p == pos[m]
    <3>4. l \in Nat /\ l < SendSize /\ p \in Nat /\ announced = p + l
      BY <2>4, <3>2
    <3> HIDE DEF l, p
    <3>5. p <= announced /\ announced < p + SendSize
      BY <2>4, <3>4
    <3>6. QED
      BY <3>3, <3>5 DEF p
  <2>7. ReceiverHash(m, pos, h)'
    BY <1>1, <1>2, <2>6 DEF ReceiverHash
  <2>8. QED
    BY <2>7
<1>6. QED
  BY <1>4, <1>5 DEF HashInv

\* Nothing was taken before the header was sent.
LEMMA NothingBefore ==
  ASSUME FileInv, sndPc = "start"
  PROVE  rcvPc # "footer"
<1> SUFFICES ASSUME rcvPc = "footer" PROVE FALSE
  OBVIOUS
<1>1. Consumed \in Nat /\ Consumed = 1 + announced - remaining /\ Receiving
      /\ remaining \in Nat /\ announced \in Nat /\ remaining <= announced /\ Len(stream) \in Nat
  BY Counts
<1>2. Consumed + Len(stream) <= Total /\ Total = 0
  BY <1>1 DEF FileInv, StreamInv, Total
<1>3. QED
  BY <1>1, <1>2

\* A receiver that waits for the footer of a transfer that nothing disturbed accepts.
LEMMA HashesAgree ==
  ASSUME FileInv, HashInv, rcvPc = "footer", remaining = 0, sndPc = "done", announced = sndPos,
         config.send = config.receive
  PROVE  sndHashed = rcvHashed
<1>1. PICK n, pos, h :
        /\ Chain(n, pos, h, SendSize) /\ SenderHash(n, pos, h)
        /\ Fits => \E m \in 1 .. n : ReceiverHash(m, pos, h)
  BY DEF HashInv
<1>2. Fits
  BY DEF Fits
<1>3. PICK m \in 1 .. n : ReceiverHash(m, pos, h)
  BY <1>1, <1>2
<1>4. /\ rcvHashed = h[m] \o Content(pos[m], announced)
      /\ pos[m] <= announced /\ announced < pos[m] + SendSize
  BY <1>3 DEF ReceiverHash
<1>5. sndHashed = h[n] \o Content(pos[n], sndPos) /\ pos[n] <= sndPos
  BY <1>1 DEF SenderHash
<1>6. /\ n \in Nat \ {0} /\ pos \in [1 .. n -> Nat] /\ SendSize \in Nat /\ sndPos \in Nat
      /\ \A i, j \in 1 .. n : i < j => pos[i] + SendSize <= pos[j]
  BY <1>1, SendSizeType DEF Chain, FileInv, FileTypes
<1>7. m = n
  <2> SUFFICES ASSUME m # n PROVE FALSE
    OBVIOUS
  <2>1. m < n /\ n \in 1 .. n
    BY <1>6
  <2>2. pos[m] + SendSize <= pos[n] /\ pos[m] \in Nat /\ pos[n] \in Nat
    BY <1>6, <2>1
  <2>3. QED
    BY <1>4, <1>5, <1>6, <2>2
<1>8. QED
  BY <1>4, <1>5, <1>7

\* A transfer that has come to its end stays rejected for the same reason.
LEMMA RejectedKept ==
  ASSUME FileInv, RejectedInv, UNCHANGED <<rcvPc, config>>, cut => cut',
         sndPc # "start" => UNCHANGED announced,
         sndPc = "done" => UNCHANGED <<sndPc, sndPos>>,
         sndPc = "start" => sndPos = 0,
         sndPos <= sndPos', sndPos' \in Nat
  PROVE  RejectedInv'
<1>1. announced \in Nat /\ sndPos \in Nat /\ sndPc \in {"start", "read", "done"}
  BY DEF FileInv, FileTypes
<1>2. announced < sndPos => sndPc # "start" /\ announced' = announced /\ announced' < sndPos'
  <2> SUFFICES ASSUME announced < sndPos
               PROVE  sndPc # "start" /\ announced' = announced /\ announced' < sndPos'
    OBVIOUS
  <2>1. sndPc # "start"
    BY <1>1
  <2>2. announced' = announced
    BY <2>1
  <2>3. QED
    BY <1>1, <2>1, <2>2
<1>3. sndPc = "done" /\ announced # sndPos => sndPc' = "done" /\ announced' # sndPos'
  OBVIOUS
<1>4. rcvPc' = rcvPc /\ config' = config
  OBVIOUS
<1>5. rcvPc' = "eof" => cut' \/ (sndPc' = "done" /\ announced' # sndPos')
  BY <1>3, <1>4 DEF RejectedInv
<1>6. rcvPc' # "badSize"
  BY <1>4 DEF RejectedInv
<1>7. rcvPc' = "badHash" =>
        config'.receive.hash /\ (cut' \/ announced' < sndPos' \/ config'.send # config'.receive)
  BY <1>2, <1>4 DEF RejectedInv
<1>8. QED
  BY <1>5, <1>6, <1>7 DEF RejectedInv

LEMMA SenderRejects ==
  ASSUME FileInv, FileInv', RejectedInv, Resize \/ Sender \/ Cut
  PROVE  RejectedInv'
<1>1. sndPos \in Nat /\ sndPos' \in Nat /\ (sndPc = "start" => sndPos = 0)
  BY DEF FileInv, FileTypes
<1>2. CASE Resize
  BY <1>1, <1>2, RejectedKept DEF Resize, linkVars, rcvVars
<1>3. CASE SendHeader
  BY <1>1, <1>3, RejectedKept DEF SendHeader, rcvVars
<1>4. CASE SendContent
  <2>1. PICK n \in 1 .. (config.send.buffer_size - sndCursor) : sndPos' = sndPos + n
    BY <1>4 DEF SendContent
  <2>2. config.send.buffer_size \in Nat /\ sndCursor \in Nat
    BY OptionsType DEF FileInv, FileTypes
  <2>3. sndPos <= sndPos'
    BY <1>1, <2>1, <2>2
  <2>4. QED
    BY <1>1, <1>4, <2>3, RejectedKept DEF SendContent, rcvVars
<1>5. CASE SendFooter
  BY <1>1, <1>5, RejectedKept DEF SendFooter, rcvVars
<1>6. CASE Cut
  BY <1>1, <1>6, RejectedKept DEF Cut, fileVars, rcvVars
<1>7. QED
  BY <1>2, <1>3, <1>4, <1>5, <1>6 DEF Sender

LEMMA ReceiveHeaderRejects ==
  ASSUME FileInv, RejectedInv, ReceiveHeader
  PROVE  RejectedInv'
<1>1. rcvPc = "header" /\ UNCHANGED <<fileVars, ended, cut>>
      /\ (rcvPc' = "create" \/ (rcvPc' = "eof" /\ ended /\ stream = <<>>))
  BY DEF ReceiveHeader, Exhausted
<1>2. CASE rcvPc' = "create"
  BY <1>2 DEF RejectedInv
<1>3. CASE rcvPc' = "eof" /\ ended /\ stream = <<>>
  <2>1. Receiving /\ Consumed = 0 /\ Len(stream) = 0
    BY <1>1, <1>3 DEF Receiving, Consumed
  <2>2. Consumed + Len(stream) = 0
    BY <2>1
  <2>3. ~cut => Total = 0
    BY <2>1, <2>2 DEF FileInv, StreamInv
  <2>4. sndPc = "done" => Total # 0
    <3>1. FooterLen \in Nat \ {0} /\ sndPos \in Nat
      BY FooterType DEF FileInv, FileTypes
    <3>2. QED
      BY <3>1 DEF Total
  <2>5. ended <=> (cut \/ sndPc = "done")
    BY DEF FileInv, FileTypes
  <2>6. cut
    BY <1>3, <2>3, <2>4, <2>5
  <2>7. QED
    BY <1>1, <1>3, <2>6 DEF RejectedInv
<1>4. QED
  BY <1>1, <1>2, <1>3

LEMMA ReceiveFooterRejects ==
  ASSUME FileInv, HashInv, RejectedInv, ReceiveFooter
  PROVE  RejectedInv'
<1>1. rcvPc = "footer" /\ UNCHANGED <<fileVars, ended, cut, remaining>>
  BY DEF ReceiveFooter
<1>2. /\ config' = config /\ announced' = announced /\ sndPos' = sndPos /\ sndPc' = sndPc
      /\ cut' = cut
  BY <1>1 DEF fileVars
<1>3. /\ Receiving /\ Consumed = 1 + announced - remaining
      /\ remaining \in Nat /\ announced \in Nat /\ remaining <= announced /\ Len(stream) \in Nat
  BY <1>1, Counts
<1>4. FooterLen \in Nat \ {0} /\ sndPos \in Nat /\ sndPc \in {"start", "read", "done"}
  BY FooterType DEF FileInv, FileTypes
<1>5. CASE Len(stream) >= FooterLen
           /\ rcvPc' = IF remaining # 0 THEN "badSize"
                       ELSE IF HashAccepted(SubSeq(stream, 1, FooterLen)) THEN "ok" ELSE "badHash"
  <2>1. remaining = 0
    <3> SUFFICES ASSUME remaining # 0 PROVE FALSE
      OBVIOUS
    <3>1. stream = <<>>
      BY <1>1 DEF FileInv, ContentInv
    <3>2. Len(stream) = 0
      BY <3>1
    <3>3. QED
      BY <1>4, <1>5, <3>2
  <2>2. CASE HashAccepted(SubSeq(stream, 1, FooterLen))
    <3>1. rcvPc' = "ok"
      BY <1>5, <2>1, <2>2
    <3>2. QED
      BY <3>1 DEF RejectedInv
  <2>3. CASE ~HashAccepted(SubSeq(stream, 1, FooterLen))
    <3>1. rcvPc' = "badHash"
      BY <1>5, <2>1, <2>3
    <3>2. config.receive.hash /\ ~HashMatches(SubSeq(stream, 1, FooterLen))
      BY <2>3 DEF HashAccepted
    <3>3. ASSUME ~cut, ~(announced < sndPos), config.send = config.receive
          PROVE  FALSE
      <4>1. /\ sndPc # "start" /\ announced <= sndPos
            /\ sndPc = "read" => announced < sndPos
            /\ \A i \in 1 .. FooterLen : stream[i] = SentItem(announced, sndPos, 1 + announced + i)
        BY <1>1, <1>5, <2>1, CompleteContent
      <4>2. sndPc = "done" /\ announced = sndPos
        BY <1>3, <1>4, <3>3, <4>1
      <4>3. sndHashed = rcvHashed
        BY <1>1, <2>1, <3>3, <4>2, HashesAgree
      <4>4. SubSeq(stream, 1, FooterLen) = Footer
        <5> DEFINE q == SubSeq(stream, 1, FooterLen)
        <5>1. stream \in Seq(Pieces)
          BY DEF FileInv, FileTypes
        <5>2. /\ q \in Seq(Pieces) /\ Len(q) = FooterLen
              /\ \A i \in 1 .. FooterLen : q[i] = stream[i]
          BY <1>4, <1>5, <5>1
        <5> HIDE DEF q
        <5>3. ASSUME NEW i \in 1 .. FooterLen
              PROVE  q[i] = FooterItem(i)
          <6>1. 1 + announced + i \in Nat /\ 1 + announced + i = 1 + sndPos + i
            BY <1>3, <4>2
          <6>2. PICK p \in Nat, l \in Nat : p = 1 + announced + i /\ l = sndPos /\ p = 1 + l + i
            BY <1>4, <6>1
          <6>3. i \in Nat /\ i >= 1
            BY <1>4
          <6>4. SentItem(announced, l, p) = FooterItem(i)
            <7>1. \A k \in Nat : k >= 1 /\ p = 1 + l + k => SentItem(announced, l, p) = FooterItem(k)
              BY ItemFooter
            <7>2. QED
              BY <6>2, <6>3, <7>1
          <6>5. QED
            BY <4>1, <5>2, <6>2, <6>4
        <5>4. \A i \in 1 .. FooterLen : q[i] = Footer[i]
          BY <5>3, FooterType
        <5>5. q = Footer
          BY <5>2, <5>4, FooterType, SeqEqual
        <5>6. QED
          BY <5>5 DEF q
      <4>5. config.send.hash
        BY <3>2, <3>3
      <4>6. QED
        BY <3>2, <4>3, <4>4, <4>5 DEF HashMatches
    <3>4. cut \/ announced < sndPos \/ config.send # config.receive
      BY <3>3
    <3>5. QED
      BY <1>2, <3>1, <3>2, <3>4 DEF RejectedInv
  <2>4. QED
    BY <2>2, <2>3
<1>6. CASE ended /\ Len(stream) < FooterLen /\ rcvPc' = "eof"
  <2>1. ASSUME ~cut
        PROVE  sndPc = "done" /\ announced # sndPos
    <3>1. sndPc = "done"
      BY <1>6, <2>1 DEF FileInv, FileTypes
    <3>2. Total = 1 + sndPos + FooterLen
      BY <3>1 DEF Total
    <3>3. Consumed + Len(stream) = Total
      BY <1>3, <2>1 DEF FileInv, StreamInv
    <3>4. announced - remaining + Len(stream) = sndPos + FooterLen
      BY <1>3, <1>4, <3>2, <3>3
    <3>5. announced # sndPos
      BY <1>3, <1>4, <1>6, <3>4
    <3>6. QED
      BY <3>1, <3>5
  <2>2. QED
    BY <1>2, <1>6, <2>1 DEF RejectedInv
<1>7. QED
  BY <1>5, <1>6 DEF ReceiveFooter

LEMMA HashStep ==
  ASSUME FileInv, FileInv', HashInv, RejectedInv, [Next]_vars
  PROVE  HashInv' /\ RejectedInv'
<1>1. CASE Resize
  <2>1. HashInv'
    BY <1>1, HashKept DEF Resize, rcvVars
  <2>2. QED
    BY <1>1, <2>1, SenderRejects
<1>2. CASE SendHeader
  <2>1. rcvPc # "footer"
    BY <1>2, NothingBefore DEF SendHeader
  <2>2. HashInv'
    BY <1>2, <2>1, HashKept DEF SendHeader, rcvVars
  <2>3. QED
    BY <1>2, <2>2, SenderRejects DEF Sender
<1>3. CASE SendContent
  BY <1>3, SendContentHash, SenderRejects DEF Sender
<1>4. CASE SendFooter
  BY <1>4, SendFooterHash, SenderRejects DEF Sender
<1>5. CASE Cut
  <2>1. HashInv'
    BY <1>5, HashKept DEF Cut, fileVars, rcvVars
  <2>2. QED
    BY <1>5, <2>1, SenderRejects
<1>6. CASE ReceiveHeader
  <2>1. HashInv'
    BY <1>6, HashKept DEF ReceiveHeader, fileVars
  <2>2. QED
    BY <1>6, <2>1, ReceiveHeaderRejects
<1>7. CASE CreateFile \/ ReceiveFails
  <2>1. HashInv'
    BY <1>7, HashKept DEF CreateFile, ReceiveFails, fileVars
  <2>2. RejectedInv'
    BY <1>7 DEF CreateFile, ReceiveFails, RejectedInv
  <2>3. QED
    BY <2>1, <2>2
<1>8. CASE ReceiveContent
  <2>1. RejectedInv'
    BY <1>8 DEF ReceiveContent, RejectedInv
  <2>2. QED
    BY <1>8, <2>1, ReceiveContentHash
<1>9. CASE ReceiveEnd
  <2>1. RejectedInv'
    BY <1>9 DEF ReceiveEnd, RejectedInv
  <2>2. QED
    BY <1>9, <2>1, ReceiveEndHash
<1>10. CASE ReceiveFooter
  <2>1. HashInv'
    BY <1>10, HashKept DEF ReceiveFooter, fileVars
  <2>2. QED
    BY <1>10, <2>1, ReceiveFooterRejects
<1>11. CASE UNCHANGED vars
  <2>1. UNCHANGED <<fileVars, linkVars, rcvVars>>
    BY <1>11 DEF vars
  <2>2. HashInv'
    BY <2>1, HashKept DEF fileVars, rcvVars
  <2>3. RejectedInv'
    BY <2>1 DEF RejectedInv, fileVars, linkVars, rcvVars
  <2>4. QED
    BY <2>2, <2>3
<1>12. QED
  BY <1>1, <1>2, <1>3, <1>4, <1>5, <1>6, <1>7, <1>8, <1>9, <1>10, <1>11 DEF Next, Sender, Receiver

LEMMA FileAccepts == FileInv /\ RejectedInv => IntactIsAccepted
<1> SUFFICES ASSUME FileInv, RejectedInv, rcvPc \in {"eof", "badSize", "badHash"}, Undisturbed
             PROVE  config.receive.hash /\ config.send # config.receive
  BY DEF IntactIsAccepted
<1>1. sndPos \in Nat /\ announced \in Nat /\ ~cut /\ announced = sndPos
  BY DEF FileInv, FileTypes, Undisturbed
<1>2. rcvPc = "badHash"
  BY <1>1 DEF RejectedInv
<1>3. QED
  BY <1>1, <1>2 DEF RejectedInv

-----------------------------------------------------------------------------
(* The theorems *)

\* A file that the file server reports as received is in the output directory as a
\* whole, and stays so whatever other connections do, unless a thread that had not
\* found the file either was about to create it.
THEOREM ReportedIsWhole == AuxSpec => []OkIsWhole
<1>1. AuxInit => ServerInv
  BY ServerStarts DEF AuxInit
<1>2. ServerInv /\ [AuxNext]_auxVars => ServerInv'
  BY ServerStep DEF AuxNext, RunFile, RunServer, RunTunnel, auxVars
<1>3. ServerInv => OkIsWhole
  BY DEF ServerInv, WritersInv, OkIsWhole, Whole
<1>4. QED
  BY <1>1, <1>2, <1>3, PTL DEF AuxSpec

\* The datagrams that the tunnel sends on are those of the session, in order, whole
\* and alone, wherever the stream of this or of an earlier session was cut, for any
\* number of sessions and datagrams of any sizes.
THEOREM TunnelKeepsFrames == AuxSpec => []FramesIntact
<1>1. AuxInit => TunnelInv
  BY TunnelStarts DEF AuxInit
<1>2. TunnelInv /\ [AuxNext]_auxVars => TunnelInv'
  BY TunnelStep DEF AuxNext, RunFile, RunServer, RunTunnel, auxVars
<1>3. TunnelInv => FramesIntact
  BY TunnelFrames
<1>4. QED
  BY <1>1, <1>2, <1>3, PTL DEF AuxSpec

\* With --hash, a file that is reported as received is the whole of what the sender
\* read of it, whatever is cut and however the source file changes its size, for any
\* sizes of file, footer and buffers.
THEOREM FileIsWhole == AuxSpec => []AcceptedIsSent
<1>1. AuxInit => FileInv
  BY FileStarts DEF AuxInit
<1>2. FileInv /\ [AuxNext]_auxVars => FileInv'
  BY FileStep DEF AuxNext, RunFile, RunServer, RunTunnel, auxVars
<1>3. FileInv => AcceptedIsSent
  BY DEF FileInv, AcceptedInv, AcceptedIsSent
<1>4. QED
  BY <1>1, <1>2, <1>3, PTL DEF AuxSpec

\* Without --hash as well, a file that is reported as received has the announced
\* length, and the bytes of the file in their places.
THEOREM FileIsAnnounced == AuxSpec => []AcceptedIsAnnounced
<1>1. AuxInit => FileInv
  BY FileStarts DEF AuxInit
<1>2. FileInv /\ [AuxNext]_auxVars => FileInv'
  BY FileStep DEF AuxNext, RunFile, RunServer, RunTunnel, auxVars
<1>3. FileInv => AcceptedIsAnnounced
  BY DEF FileInv, AcceptedInv, AcceptedIsAnnounced
<1>4. QED
  BY <1>1, <1>2, <1>3, PTL DEF AuxSpec

\* The receiver rejects no transfer that nothing disturbed, if both sides have the
\* same options: the hashes of both are made of the same buffers.
THEOREM IntactFileIsAccepted == AuxSpec => []IntactIsAccepted
<1> DEFINE Inv == FileInv /\ HashInv /\ RejectedInv
<1>1. AuxInit => Inv
  BY FileStarts, HashStarts DEF AuxInit
<1>2. Inv /\ [AuxNext]_auxVars => Inv'
  BY FileStep, HashStep DEF AuxNext, RunFile, RunServer, RunTunnel, auxVars
<1>3. Inv => IntactIsAccepted
  BY FileAccepts
<1>4. QED
  BY <1>1, <1>2, <1>3, PTL DEF AuxSpec

=============================================================================
