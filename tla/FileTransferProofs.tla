-------------------------- MODULE FileTransferProofs --------------------------
(***************************************************************************)
(* Proofs about FileTransfer, for any files, marks of the send buffer and  *)
(* bounds.                                                                 *)
(***************************************************************************)
EXTENDS FileTransfer, SeqLemmas, FiniteSetTheorems

-----------------------------------------------------------------------------
(***************************************************************************)
(* Types.  A loop that reads or waits has a chunk left to send, and the    *)
(* loop that the event resumes is one that waits.                          *)
(***************************************************************************)
SendsFit ==
    /\ \A k \in DOMAIN sends :
        sends[k].at \in {"reading", "waiting"} => sends[k].sent < Size[sends[k].file]
    /\ onlow # 0 => sends[onlow].at = "waiting"

TransferInv == TypeOK /\ SendsFit

\* What the downloader knows of the list: the last manifest of the stream s
\* says what is shared, or r does when none is on its way.
Told(s, r, now) ==
    /\ (\A i \in 1..Len(s) : s[i].type # "manifest") => r = now
    /\ \A i \in 1..Len(s) :
        (/\ s[i].type = "manifest"
         /\ \A j \in 1..Len(s) : i < j => s[j].type # "manifest")
        => s[i].files = now

ToldInv == open /\ ~unheard => Told(net \o buf, remote, shared)

\* One at a time: the messages of a file have ranks, and those under way are
\* the ones from p up to q, in their order.
Data(m) == m.type # "manifest"
FileOf(m) == IF m.type = "chunk" THEN m.data[1] ELSE m.name
Rank(m) ==
    CASE m.type = "file-start" -> 0
      [] m.type = "chunk" -> m.data[2]
      [] OTHER -> Size[m.name] + 1

InOrder(s, f, p, q) ==
    /\ p <= q
    /\ \A i \in 1..Len(s) :
        Data(s[i]) => FileOf(s[i]) = f /\ p <= Rank(s[i]) /\ Rank(s[i]) < q
    /\ \A r \in p..(q - 1) : \E i \in 1..Len(s) : Data(s[i]) /\ Rank(s[i]) = r
    /\ \A i, j \in 1..Len(s) :
        Data(s[i]) /\ Data(s[j]) /\ i < j => Rank(s[i]) < Rank(s[j])

\* The ranks of the last request: beyond the last one, the next to be sent and
\* the next to be received.
File == sends[Len(sends)].file
End == IF sends = <<>> THEN 0 ELSE Size[File] + 2
ToSend ==
    IF sends = <<>> \/ sends[Len(sends)].at = "done" THEN End
    ELSE sends[Len(sends)].sent + 1
ToReceive ==
    IF Len(downloads) < Len(sends) THEN 0
    ELSE IF receiver # NoReceiver /\ saving = <<>> THEN Len(receiver.chunks) + 1
    ELSE End

\* The stream of the last request.
Flows == open => InOrder(net \o buf, File, ToReceive, ToSend)

\* The loops before the last one are done; a request waits for all to be.
Alone ==
    /\ \A k \in 1..Len(sends) : k < Len(sends) => sends[k].at = "done"
    /\ asked # <<>> =>
        /\ Len(asked) = 1
        /\ \A k \in 1..Len(sends) : sends[k].at = "done"
        /\ Len(downloads) = Len(sends) /\ receiver = NoReceiver
    /\ remote # {} \/ asked # <<>> \/ sends # <<>> => listening
    /\ net # <<>> => open

\* The downloads begin in the order of the loops.
Begun ==
    /\ Len(downloads) <= Len(sends) /\ Len(sends) <= Len(downloads) + 1
    /\ receiver # NoReceiver \/ saving # <<>> => Len(downloads) = Len(sends)

\* The receiver collects the file it is named after, of which it has got the
\* first chunks, for the download that is active.
Collects ==
    IF receiver = NoReceiver THEN active = 0 /\ saving = <<>>
    ELSE /\ receiver.name = File
         /\ Len(receiver.chunks) <= Size[receiver.name]
         /\ \A i \in 1..Len(receiver.chunks) : receiver.chunks[i] = <<receiver.name, i>>
         /\ active = Len(downloads) /\ active # 0
         /\ downloads[active].name = receiver.name
         /\ downloads[active].got = Len(receiver.chunks)
         /\ \/ saving = <<>>
            \/ saving = <<receiver>> /\ Len(receiver.chunks) = Size[receiver.name]

\* What is finished is complete.
Complete ==
    /\ SavedIsTheFile
    /\ \A k \in 1..Len(downloads) :
        downloads[k].done => downloads[k].got = Size[downloads[k].name]

OneInv == Alone /\ Begun /\ Flows /\ Collects /\ Complete

-----------------------------------------------------------------------------
(***************************************************************************)
(* The operators.                                                          *)
(***************************************************************************)
Loop == [file : Files, sent : Nat, at : {"reading", "waiting", "done", "failed"}]
Collected == [name : Files, chunks : Seq(ChunkOf)]
Download == [name : Files, got : Nat, done : BOOLEAN]

\* What the messages are made of.
LEMMA MessageType ==
    /\ \A S \in SUBSET Files :
        Manifest(S) \in Message /\ Manifest(S).type = "manifest" /\ Manifest(S).files = S
    /\ \A f \in Files :
        /\ FileStart(f) \in Message /\ FileStart(f).type = "file-start" /\ FileStart(f).name = f
        /\ FileEnd(f) \in Message /\ FileEnd(f).type = "file-end" /\ FileEnd(f).name = f
    /\ \A f \in Files : \A n \in 1..Size[f] :
        /\ Chunk(f, n) \in Message /\ Chunk(f, n).type = "chunk"
        /\ Chunk(f, n).data = <<f, n>>
BY DEF Message, Manifest, FileStart, FileEnd, Chunk, ChunkOf

LEMMA MessageParts ==
    ASSUME NEW m \in Message
    PROVE  /\ m.type \in {"manifest", "file-start", "chunk", "file-end"}
           /\ m.type = "manifest" => m.files \in SUBSET Files
           /\ m.type \in {"file-start", "file-end"} => m.name \in Files
           /\ m.type = "chunk" => m.data \in ChunkOf
BY DEF Message

LEMMA ChunkParts ==
    ASSUME NEW c \in ChunkOf
    PROVE  c[1] \in Files /\ c[2] \in 1..Size[c[1]] /\ c = <<c[1], c[2]>>
<1>1. PICK f \in Files : \E n \in 1..Size[f] : c = <<f, n>>
    BY DEF ChunkOf
<1> QED
    BY <1>1

\* What a loop goes on with after n chunks.
LEMMA RestProperties ==
    ASSUME NEW f \in Files, NEW n \in Nat, NEW b \in Seq(Message), NEW m \in Message
    PROVE  /\ n >= Size[f] => /\ After(f, n) = "done"
                              /\ b \o <<m>> \o Rest(f, n) = Append(Append(b, m), FileEnd(f))
           /\ n < Size[f] => /\ After(f, n) = "reading"
                             /\ b \o <<m>> \o Rest(f, n) = Append(b, m)
           /\ Append(b, m) \in Seq(Message) /\ FileEnd(f) \in Message
<1>1. b \o <<m>> = Append(b, m) /\ Append(b, m) \in Seq(Message)
    BY AppendIsConcat, AppendProperties
<1>2. FileEnd(f) \in Message
    BY MessageType
<1>3. Append(b, m) \o <<FileEnd(f)>> = Append(Append(b, m), FileEnd(f))
    BY <1>1, <1>2, AppendIsConcat
<1>4. Append(b, m) \o <<>> = Append(b, m)
    BY <1>1, ConcatEmptySeq
<1>5. Size[f] \in Nat
    BY SizeAssumption
<1>6. n >= Size[f] => Rest(f, n) = <<FileEnd(f)>>
    BY DEF Rest
<1>7. n < Size[f] => Rest(f, n) = <<>>
    BY <1>5 DEF Rest
<1>8. <<FileEnd(f)>> # <<>>
    OBVIOUS
<1> QED
    BY <1>1, <1>2, <1>3, <1>4, <1>5, <1>6, <1>7, <1>8 DEF After

\* Loop k has sent its next chunk.
LEMMA PutProperties ==
    ASSUME TransferInv, NEW k \in 1..Len(sends), sends[k].at \in {"reading", "waiting"},
           NEW b \in Seq(Message), PutChunk(k, b)
    PROVE  /\ sends \in Seq(Loop) /\ sends' \in Seq(Loop) /\ Len(sends') = Len(sends)
           /\ \A j \in 1..Len(sends) : j # k => sends'[j] = sends[j]
           /\ sends'[k].file = sends[k].file /\ sends'[k].sent = sends[k].sent + 1
           /\ sends[k].file \in Files /\ sends[k].sent \in Nat /\ Size[sends[k].file] \in Nat
           /\ sends[k].sent + 1 \in 1..Size[sends[k].file]
           /\ LET f == sends[k].file
                  n == sends[k].sent + 1
                  c == Append(b, Chunk(f, n))
              IN  IF n = Size[f]
                  THEN sends'[k].at = "done" /\ buf' = Append(c, FileEnd(f))
                  ELSE sends'[k].at = "reading" /\ buf' = c
<1> DEFINE f == sends[k].file
           n == sends[k].sent + 1
           r == [sends[k] EXCEPT !.sent = n, !.at = After(f, n)]
<1>1. sends \in Seq(Loop) /\ sends[k] \in Loop
    BY ElementOfSeq DEF TransferInv, TypeOK, Loop
<1>2. f \in Files /\ sends[k].sent \in Nat /\ Size[f] \in Nat
    BY <1>1, SizeAssumption DEF Loop
<1>3. n \in 1..Size[f]
    <2>1. k \in DOMAIN sends
        BY <1>1, LenProperties
    <2>2. sends[k].sent < Size[f]
        BY <2>1 DEF TransferInv, SendsFit
    <2> QED
        BY <1>2, <2>2
<1>4. Chunk(f, n) \in Message
    BY <1>2, <1>3, MessageType
<1>5. /\ sends' = [sends EXCEPT ![k].sent = n, ![k].at = After(f, n)]
      /\ buf' = b \o <<Chunk(f, n)>> \o Rest(f, n)
    BY DEF PutChunk
<1>6. n \in Nat /\ n <= Size[f] /\ n = sends[k].sent + 1
    BY <1>2, <1>3
<1> HIDE DEF f, n
<1>7. /\ After(f, n) = IF n = Size[f] THEN "done" ELSE "reading"
      /\ buf' = IF n = Size[f] THEN Append(Append(b, Chunk(f, n)), FileEnd(f))
                ELSE Append(b, Chunk(f, n))
    <2>1. n = Size[f] => n >= Size[f]
        BY <1>6
    <2>2. n # Size[f] => n < Size[f]
        BY <1>2, <1>6
    <2> QED
        BY <1>2, <1>4, <1>5, <1>6, <2>1, <2>2, RestProperties
<1>8. r \in Loop /\ r.file = sends[k].file /\ r.sent = n /\ r.at = After(f, n)
    BY <1>1, <1>6, <1>7 DEF Loop
<1>9. sends' = [sends EXCEPT ![k] = r]
    <2>2. DOMAIN sends = 1..Len(sends) /\ DOMAIN sends[k] = {"file", "sent", "at"}
        BY <1>1, LenProperties DEF Loop
    <2> QED
        BY <1>5, <2>2
<1> HIDE DEF r
<1>10. /\ sends' \in Seq(Loop) /\ Len(sends') = Len(sends) /\ sends'[k] = r
       /\ \A j \in 1..Len(sends) : j # k => sends'[j] = sends[j]
    BY <1>1, <1>8, <1>9, ExceptSeq
<1> QED
    BY <1>1, <1>2, <1>3, <1>6, <1>7, <1>8, <1>10 DEF f, n

-----------------------------------------------------------------------------
(***************************************************************************)
(* The types.                                                              *)
(***************************************************************************)
OwnerType ==
    /\ open \in BOOLEAN /\ shared \in SUBSET Files
    /\ edits \in 0..MaxEdits /\ asks \in 0..MaxRequests
    /\ sends \in Seq(Loop) /\ onlow \in {0} \cup 1..Len(sends)
    /\ buf \in Seq(Message) /\ net \in Seq(Message) /\ asked \in Seq(Files)
    /\ \A k \in 1..Len(sends) :
        sends[k].at \in {"reading", "waiting"} => sends[k].sent < Size[sends[k].file]
    /\ onlow # 0 => sends[onlow].at = "waiting"

DownType ==
    /\ listening \in BOOLEAN /\ unheard \in BOOLEAN /\ remote \in SUBSET Files
    /\ receiver \in {NoReceiver} \cup Collected
    /\ downloads \in Seq(Download) /\ active \in {0} \cup 1..Len(downloads)
    /\ saving \in Seq(Collected) /\ saved \in SUBSET Collected

LEMMA InvSplit == TransferInv <=> OwnerType /\ DownType
<1>1. /\ sends \in Seq(Loop) => DOMAIN sends = 1..Len(sends)
      /\ downloads \in Seq(Download) => DOMAIN downloads = 1..Len(downloads)
    BY LenProperties
<1> QED
    BY <1>1 DEF TransferInv, TypeOK, SendsFit, OwnerType, DownType, Loop, Collected, Download

LEMMA InvSplitNext == TransferInv' <=> OwnerType' /\ DownType'
BY InvSplit, PTL

LEMMA TransferInit == Init => TransferInv
<1> SUFFICES ASSUME Init PROVE TransferInv
    OBVIOUS
<1>1. /\ Manifest(shared) \in Message /\ buf = <<Manifest(shared)>> /\ buf \in Seq(Message)
      /\ shared \in SUBSET Files
    BY MessageType DEF Init
<1>2. OwnerType
    BY <1>1, BoundsAssumption, EmptySeq DEF Init, OwnerType
<1>3. DownType
    BY EmptySeq DEF Init, DownType
<1> QED
    BY <1>2, <1>3, InvSplit

LEMMA ShareType ==
    ASSUME OwnerType, NEW S \in SUBSET Files, Share(S)
    PROVE  OwnerType'
<1>1. edits' \in 0..MaxEdits
    BY BoundsAssumption DEF OwnerType, Share
<1>2. buf' \in Seq(Message)
    <2>1. Manifest(S) \in Message
        BY MessageType
    <2> QED
        BY <2>1, AppendProperties DEF OwnerType, Share
<1> QED
    BY <1>1, <1>2 DEF OwnerType, Share

\* A loop begins.
LEMMA RequestProperties ==
    ASSUME OwnerType, HandleFileRequest
    PROVE  /\ asked # <<>> /\ Head(asked) \in Files /\ asked' = Tail(asked)
           /\ asked' \in Seq(Files) /\ Len(asked') = Len(asked) - 1
           /\ LET f == Head(asked)
                  b == Append(buf, FileStart(f))
                  r == [file |-> f, sent |-> 0, at |-> After(f, 0)]
              IN  \/ sends' = sends /\ buf' = buf
                  \/ /\ sends' = Append(sends, r) /\ sends' \in Seq(Loop)
                     /\ Len(sends') = Len(sends) + 1 /\ sends'[Len(sends) + 1] = r
                     /\ \A k \in 1..Len(sends) : sends'[k] = sends[k]
                     /\ buf' \in Seq(Message)
                     /\ r.file = f /\ r.sent = 0 /\ r.at = After(f, 0)
                     /\ Size[f] = 0 => r.at = "done" /\ buf' = Append(b, FileEnd(f))
                     /\ Size[f] # 0 => r.at = "reading" /\ buf' = b
<1> DEFINE f == Head(asked)
           b == Append(buf, FileStart(f))
           r == [file |-> f, sent |-> 0, at |-> After(f, 0)]
<1>1. /\ asked # <<>> /\ f \in Files /\ asked' = Tail(asked)
      /\ asked' \in Seq(Files) /\ Len(asked') = Len(asked) - 1
    BY HeadTailProperties DEF OwnerType, HandleFileRequest
<1>2. FileStart(f) \in Message /\ Size[f] \in Nat /\ buf \in Seq(Message) /\ sends \in Seq(Loop)
    BY <1>1, MessageType, SizeAssumption DEF OwnerType
<1>3. \/ sends' = sends /\ buf' = buf
      \/ /\ sends' = Append(sends, r)
         /\ buf' = buf \o <<FileStart(f)>> \o Rest(f, 0)
    BY DEF HandleFileRequest
<1> HIDE DEF f
<1>4. /\ Size[f] = 0 => /\ After(f, 0) = "done"
                        /\ buf \o <<FileStart(f)>> \o Rest(f, 0) = Append(b, FileEnd(f))
      /\ Size[f] # 0 => /\ After(f, 0) = "reading"
                        /\ buf \o <<FileStart(f)>> \o Rest(f, 0) = b
      /\ b \in Seq(Message) /\ FileEnd(f) \in Message
    <2>1. Size[f] = 0 => 0 >= Size[f]
        BY <1>2
    <2>2. Size[f] # 0 => 0 < Size[f]
        BY <1>2
    <2>3. 0 \in Nat
        OBVIOUS
    <2> HIDE <1>3
    <2> QED
        BY <1>1, <1>2, <2>1, <2>2, <2>3, RestProperties
<1>5. Append(b, FileEnd(f)) \in Seq(Message)
    BY <1>4, AppendProperties
<1>6. r \in Loop /\ r.file = f /\ r.sent = 0 /\ r.at = After(f, 0)
    BY <1>1, <1>4 DEF Loop
<1> HIDE DEF r, b
<1>7. /\ Append(sends, r) \in Seq(Loop) /\ Len(Append(sends, r)) = Len(sends) + 1
      /\ Append(sends, r)[Len(sends) + 1] = r
      /\ \A k \in 1..Len(sends) : Append(sends, r)[k] = sends[k]
    BY <1>2, <1>6, AppendProperties
<1>8. /\ asked # <<>> /\ f \in Files /\ asked' = Tail(asked)
      /\ asked' \in Seq(Files) /\ Len(asked') = Len(asked) - 1
      /\ \/ sends' = sends /\ buf' = buf
         \/ /\ sends' = Append(sends, r) /\ sends' \in Seq(Loop)
            /\ Len(sends') = Len(sends) + 1 /\ sends'[Len(sends) + 1] = r
            /\ \A k \in 1..Len(sends) : sends'[k] = sends[k]
            /\ buf' \in Seq(Message)
            /\ r.file = f /\ r.sent = 0 /\ r.at = After(f, 0)
            /\ Size[f] = 0 => r.at = "done" /\ buf' = Append(b, FileEnd(f))
            /\ Size[f] # 0 => r.at = "reading" /\ buf' = b
    BY <1>1, <1>3, <1>4, <1>5, <1>6, <1>7
<1> QED
    BY <1>8 DEF r, b, f

LEMMA RequestType ==
    ASSUME OwnerType, HandleFileRequest
    PROVE  OwnerType'
<1>0. Len(sends) \in Nat
    BY LenProperties DEF OwnerType
<1>1. asked' \in Seq(Files) /\ UNCHANGED <<open, shared, edits, onlow, net, asks>>
    BY RequestProperties DEF HandleFileRequest
<1>2. CASE sends' = sends /\ buf' = buf
    BY <1>1, <1>2 DEF OwnerType
<1>3. CASE ~(sends' = sends /\ buf' = buf)
    <2>1. PICK r : /\ sends' \in Seq(Loop) /\ Len(sends') = Len(sends) + 1
                   /\ sends'[Len(sends) + 1] = r /\ buf' \in Seq(Message)
                   /\ \A k \in 1..Len(sends) : sends'[k] = sends[k]
                   /\ r.file = Head(asked) /\ r.sent = 0 /\ Head(asked) \in Files
                   /\ Size[Head(asked)] = 0 => r.at = "done"
        BY <1>3, RequestProperties
    <2>2. Size[Head(asked)] \in Nat
        BY <2>1, SizeAssumption
    <2>3. \A k \in 1..Len(sends') : k \in 1..Len(sends) \/ k = Len(sends) + 1
        BY <1>0, <2>1
    <2>4. \A k \in 1..Len(sends') :
            sends'[k].at \in {"reading", "waiting"} => sends'[k].sent < Size[sends'[k].file]
        <3> TAKE k \in 1..Len(sends')
        <3>1. CASE k \in 1..Len(sends)
            BY <2>1, <3>1 DEF OwnerType
        <3>2. CASE k = Len(sends) + 1
            <4>1. sends'[k] = r
                BY <2>1, <3>2
            <4>2. r.at # "done" => 0 < Size[Head(asked)]
                BY <2>1, <2>2
            <4> QED
                BY <2>1, <4>1, <4>2
        <3> QED
            BY <2>3, <3>1, <3>2
    <2>5. onlow' \in {0} \cup 1..Len(sends') /\ (onlow' # 0 => sends'[onlow'].at = "waiting")
        BY <1>0, <1>1, <2>1 DEF OwnerType
    <2> QED
        BY <1>1, <2>1, <2>4, <2>5 DEF OwnerType
<1> QED
    BY <1>2, <1>3

\* Loop k sends, after the messages b that are still in the buffer.
LEMMA PutType ==
    ASSUME TransferInv, NEW k \in 1..Len(sends), sends[k].at \in {"reading", "waiting"},
           NEW b \in Seq(Message), PutChunk(k, b)
    PROVE  /\ sends' \in Seq(Loop) /\ Len(sends') = Len(sends) /\ buf' \in Seq(Message)
           /\ \A j \in 1..Len(sends) :
                sends'[j].at \in {"reading", "waiting"} => sends'[j].sent < Size[sends'[j].file]
           /\ \A j \in 1..Len(sends) : j # k => sends'[j] = sends[j]
<1> DEFINE f == sends[k].file
           n == sends[k].sent + 1
<1>1. /\ sends' \in Seq(Loop) /\ Len(sends') = Len(sends)
      /\ \A j \in 1..Len(sends) : j # k => sends'[j] = sends[j]
      /\ sends'[k].file = f /\ sends'[k].sent = n /\ f \in Files /\ Size[f] \in Nat
      /\ n \in 1..Size[f]
      /\ IF n = Size[f]
         THEN sends'[k].at = "done" /\ buf' = Append(Append(b, Chunk(f, n)), FileEnd(f))
         ELSE sends'[k].at = "reading" /\ buf' = Append(b, Chunk(f, n))
    BY PutProperties
<1> HIDE DEF f, n
<1>2. Chunk(f, n) \in Message /\ FileEnd(f) \in Message
    BY <1>1, MessageType
<1>3. Append(b, Chunk(f, n)) \in Seq(Message)
    BY <1>2, AppendProperties
<1>4. Append(Append(b, Chunk(f, n)), FileEnd(f)) \in Seq(Message)
    BY <1>2, <1>3, AppendProperties
<1>5. sends'[k].at \in {"reading", "waiting"} => sends'[k].sent < Size[sends'[k].file]
    BY <1>1
<1>6. \A j \in 1..Len(sends) : j # k =>
        (sends[j].at \in {"reading", "waiting"} => sends[j].sent < Size[sends[j].file])
    BY InvSplit DEF OwnerType
<1> QED
    BY <1>1, <1>3, <1>4, <1>5, <1>6

LEMMA SliceType ==
    ASSUME TransferInv, NEW k, SliceRead(k)
    PROVE  OwnerType'
<1>0. /\ OwnerType /\ UNCHANGED <<open, shared, edits, net, asked, asks>>
      /\ k \in 1..Len(sends) /\ sends[k].at = "reading" /\ sends[k] \in Loop
    BY InvSplit, LenProperties, ElementOfSeq DEF SliceRead, OwnerType
<1>1. ASSUME NEW a \in {"waiting", "failed"}, sends' = [sends EXCEPT ![k].at = a]
      PROVE  /\ sends' \in Seq(Loop) /\ Len(sends') = Len(sends)
             /\ sends'[k].at = a
             /\ \A j \in 1..Len(sends) : j # k => sends'[j] = sends[j]
             /\ \A j \in 1..Len(sends') : sends'[j].at \in {"reading", "waiting"} =>
                    sends'[j].sent < Size[sends'[j].file]
    <2> DEFINE r == [sends[k] EXCEPT !.at = a]
    <2>1. r \in Loop /\ r.at = a /\ r.sent = sends[k].sent /\ r.file = sends[k].file
        BY <1>0 DEF Loop
    <2>2. sends' = [sends EXCEPT ![k] = r]
        BY <1>1
    <2> HIDE DEF r
    <2>3. /\ sends' \in Seq(Loop) /\ Len(sends') = Len(sends) /\ sends'[k] = r
          /\ \A j \in 1..Len(sends) : j # k => sends'[j] = sends[j]
        BY <1>0, <2>1, <2>2, ExceptSeq DEF OwnerType
    <2> QED
        BY <1>0, <2>1, <2>3 DEF OwnerType
<1>2. CASE Full(buf)
    BY <1>0, <1>1, <1>2 DEF SliceRead, OwnerType
<1>3. CASE ~Full(buf) /\ open
    <2>1. PutChunk(k, buf) /\ buf \in Seq(Message) /\ UNCHANGED onlow
        BY <1>0, <1>3 DEF SliceRead, OwnerType
    <2> QED
        BY <1>0, <2>1, PutType DEF OwnerType
<1>4. CASE ~Full(buf) /\ ~open
    <2>1. sends' = [sends EXCEPT ![k].at = "failed"] /\ UNCHANGED <<buf, onlow>>
        BY <1>4 DEF SliceRead
    <2> QED
        BY <1>0, <1>1, <2>1 DEF OwnerType
<1> QED
    BY <1>2, <1>3, <1>4

LEMMA TransmitType ==
    ASSUME TransferInv, Transmit
    PROVE  OwnerType'
<1>0. OwnerType /\ UNCHANGED <<open, shared, edits, asked, asks>> /\ buf # <<>>
      /\ net' = Append(net, Head(buf))
    BY InvSplit DEF Transmit
<1>1. Head(buf) \in Message /\ Tail(buf) \in Seq(Message) /\ net' \in Seq(Message)
    BY <1>0, HeadTailProperties, AppendProperties DEF OwnerType
<1>2. CASE Drained(buf, Tail(buf)) /\ onlow # 0
    <2>1. PutChunk(onlow, Tail(buf)) /\ onlow' = 0
        BY <1>2 DEF Transmit
    <2>2. onlow \in 1..Len(sends) /\ sends[onlow].at = "waiting"
        BY <1>0, <1>2 DEF OwnerType
    <2> QED
        BY <1>0, <1>1, <2>1, <2>2, PutType DEF OwnerType
<1>3. CASE ~(Drained(buf, Tail(buf)) /\ onlow # 0)
    BY <1>0, <1>1, <1>3 DEF Transmit, OwnerType
<1> QED
    BY <1>2, <1>3

LEMMA AskType ==
    ASSUME OwnerType, DownType, Close \/ \E f \in Files : RequestFile(f)
    PROVE  OwnerType'
<1>1. CASE Close
    BY <1>1, EmptySeq DEF Close, ownerVars, OwnerType
<1>2. ASSUME NEW f \in Files, RequestFile(f) PROVE OwnerType'
    <2>1. asked' \in Seq(Files) /\ asks' \in 0..MaxRequests
        BY <1>2, AppendProperties, BoundsAssumption DEF RequestFile, OwnerType
    <2> QED
        BY <1>2, <2>1 DEF RequestFile, ownerVars, OwnerType
<1> QED
    BY <1>1, <1>2

\* A message comes, and only the downloader changes besides.
LEMMA IncomingType ==
    ASSUME OwnerType, NEW t, Incoming(t)
    PROVE  /\ OwnerType' /\ net # <<>> /\ Head(net) \in Message /\ Head(net).type = t
           /\ net' = Tail(net) /\ net' \in Seq(Message) /\ UNCHANGED <<listening, buf, open, shared>>
<1>1. net # <<>> /\ Head(net) \in Message /\ Head(net).type = t /\ net' \in Seq(Message)
    BY HeadTailProperties DEF OwnerType, Incoming
<1> QED
    BY <1>1 DEF Incoming, ownerVars, OwnerType

\* One download changes, the active one.
LEMMA ActiveProperties ==
    ASSUME DownType, NEW d \in Download,
           downloads' = [k \in DOMAIN downloads |-> IF k = active THEN d ELSE downloads[k]]
    PROVE  /\ downloads' \in Seq(Download) /\ Len(downloads') = Len(downloads)
           /\ \A k \in 1..Len(downloads) :
                downloads'[k] = IF k = active THEN d ELSE downloads[k]
<1>1. DOMAIN downloads = 1..Len(downloads) /\ Len(downloads) \in Nat
    BY LenProperties DEF DownType
<1>2. \A k \in 1..Len(downloads) : downloads[k] \in Download
    BY ElementOfSeq DEF DownType
<1> QED
    BY <1>1, <1>2

\* After await receiver.save(): what has become of the transfers.
LEMMA FinishProperties ==
    ASSUME DownType, FinishDownload
    PROVE  /\ downloads' \in Seq(Download) /\ Len(downloads') = Len(downloads)
           /\ receiver' = NoReceiver /\ active' = 0
           /\ \A k \in 1..Len(downloads) :
                /\ downloads'[k].name = downloads[k].name /\ downloads'[k].got = downloads[k].got
                /\ downloads'[k].done => downloads[k].done \/ k = active
<1>1. DOMAIN downloads = 1..Len(downloads) /\ Len(downloads) \in Nat
    BY LenProperties DEF DownType
<1>2. \A k \in 1..Len(downloads) : downloads[k] \in Download
    BY ElementOfSeq DEF DownType
<1>3. \A k \in 1..Len(downloads) :
        LET d == [downloads[k] EXCEPT !.done = TRUE]
        IN  d \in Download /\ d.name = downloads[k].name /\ d.got = downloads[k].got
    BY <1>2 DEF Download
<1>4. downloads' = [k \in 1..Len(downloads) |->
                        IF k = active THEN [downloads[k] EXCEPT !.done = TRUE] ELSE downloads[k]]
    BY <1>1 DEF FinishDownload
<1>5. \A k \in 1..Len(downloads) : downloads'[k] \in Download
    BY <1>2, <1>3, <1>4
<1>6. downloads' \in Seq(Download) /\ Len(downloads') = Len(downloads)
    BY <1>1, <1>4, <1>5
<1> QED
    BY <1>3, <1>4, <1>6 DEF FinishDownload

\* The message tells the downloader what is shared, or that a file begins,
\* goes on or ends.
LEMMA ManifestProperties ==
    ASSUME OwnerType, DownType, GetManifest
    PROVE  OwnerType' /\ DownType'
<1>1. OwnerType' /\ Head(net).files \in SUBSET Files /\ UNCHANGED listening
    BY IncomingType, MessageParts DEF GetManifest
<1> QED
    BY <1>1 DEF GetManifest, DownType

LEMMA StartProperties ==
    ASSUME OwnerType, DownType, GetFileStart
    PROVE  /\ OwnerType' /\ DownType'
           /\ LET f == Head(net).name
                  n == Len(downloads) + 1
              IN  /\ f \in Files /\ receiver'.name = f /\ receiver'.chunks = <<>>
                  /\ receiver' \in Collected
                  /\ active' = n /\ Len(downloads') = n
                  /\ downloads'[n].name = f /\ downloads'[n].got = 0 /\ ~downloads'[n].done
                  /\ \A k \in 1..Len(downloads) : downloads'[k] = downloads[k]
<1> DEFINE f == Head(net).name
           d == [name |-> f, got |-> 0, done |-> FALSE]
           r == [name |-> f, chunks |-> <<>>]
<1>1. OwnerType' /\ f \in Files /\ UNCHANGED listening
    BY IncomingType, MessageParts DEF GetFileStart
<1>2. d \in Download /\ r \in Collected /\ r.chunks = <<>> /\ r.name = f
      /\ d.name = f /\ d.got = 0 /\ ~d.done
    BY <1>1, EmptySeq DEF Download, Collected
<1>3. receiver' = r /\ active' = Len(downloads) + 1 /\ downloads' = Append(downloads, d)
      /\ UNCHANGED <<unheard, remote, saving, saved>>
    BY DEF GetFileStart
<1> HIDE DEF d, r
<1>4. /\ downloads' \in Seq(Download) /\ Len(downloads') = Len(downloads) + 1
      /\ \A k \in 1..Len(downloads) : downloads'[k] = downloads[k]
      /\ downloads'[Len(downloads) + 1] = d /\ Len(downloads) \in Nat
    BY <1>2, <1>3, AppendProperties, LenProperties DEF DownType
<1>5. DownType'
    BY <1>1, <1>2, <1>3, <1>4 DEF DownType
<1> QED
    BY <1>1, <1>2, <1>3, <1>4, <1>5

LEMMA ChunkProperties ==
    ASSUME OwnerType, DownType, GetChunk
    PROVE  /\ OwnerType' /\ DownType' /\ Head(net).data \in ChunkOf
           /\ receiver # NoReceiver =>
                LET n == Len(receiver.chunks) + 1
                IN  /\ receiver \in Collected /\ receiver' \in Collected
                    /\ receiver'.name = receiver.name
                    /\ Len(receiver'.chunks) = n /\ receiver'.chunks[n] = Head(net).data
                    /\ \A i \in 1..(n - 1) : receiver'.chunks[i] = receiver.chunks[i]
                    /\ Len(downloads') = Len(downloads)
                    /\ \A k \in 1..Len(downloads) :
                        /\ k # active => downloads'[k] = downloads[k]
                        /\ k = active => /\ downloads'[k].name = downloads[k].name
                                         /\ downloads'[k].done = downloads[k].done
                                         /\ downloads'[k].got = n
<1>1. OwnerType' /\ Head(net).data \in ChunkOf /\ UNCHANGED listening
    BY IncomingType, MessageParts DEF GetChunk
<1>2. CASE receiver = NoReceiver
    BY <1>1, <1>2 DEF GetChunk, DownType
<1>3. CASE receiver # NoReceiver
    <2> DEFINE c == Head(net).data
               n == Len(receiver.chunks) + 1
               r == [receiver EXCEPT !.chunks = Append(@, c)]
               D(k) == [downloads[k] EXCEPT !.got = n]
    <2>1. receiver \in Collected /\ receiver.chunks \in Seq(ChunkOf) /\ receiver.name \in Files
        BY <1>3 DEF DownType, Collected
    <2>2. /\ Append(receiver.chunks, c) \in Seq(ChunkOf) /\ n \in Nat
          /\ Len(Append(receiver.chunks, c)) = n /\ Append(receiver.chunks, c)[n] = c
          /\ \A i \in 1..(n - 1) : Append(receiver.chunks, c)[i] = receiver.chunks[i]
        BY <1>1, <2>1, AppendProperties, LenProperties
    <2>3. r \in Collected /\ r.name = receiver.name /\ r.chunks = Append(receiver.chunks, c)
        BY <2>1, <2>2 DEF Collected
    <2>4. DOMAIN downloads = 1..Len(downloads) /\ Len(downloads) \in Nat
        BY LenProperties DEF DownType
    <2>5. \A k \in 1..Len(downloads) : downloads[k] \in Download
        BY ElementOfSeq DEF DownType
    <2> HIDE DEF n
    <2>6. \A k \in 1..Len(downloads) : D(k) \in Download /\ D(k).name = downloads[k].name
            /\ D(k).done = downloads[k].done /\ D(k).got = n
        BY <2>2, <2>5 DEF Download
    <2>7. receiver' = r /\ downloads' = [k \in 1..Len(downloads) |->
                                            IF k = active THEN D(k) ELSE downloads[k]]
        BY <1>3, <2>4 DEF GetChunk, n
    <2> HIDE DEF D, r
    <2>8. /\ downloads' \in Seq(Download) /\ Len(downloads') = Len(downloads)
          /\ \A k \in 1..Len(downloads) :
                downloads'[k] = IF k = active THEN D(k) ELSE downloads[k]
        BY <2>4, <2>5, <2>6, <2>7
    <2>9. DownType'
        BY <1>1, <2>3, <2>7, <2>8 DEF DownType, GetChunk
    <2> QED
        BY <1>1, <2>1, <2>2, <2>3, <2>6, <2>7, <2>8, <2>9 DEF n
<1> QED
    BY <1>2, <1>3

LEMMA EndType ==
    ASSUME OwnerType, DownType, GetFileEnd
    PROVE  OwnerType' /\ DownType'
<1>1. OwnerType' /\ UNCHANGED <<listening, unheard, remote>>
    BY IncomingType DEF GetFileEnd
<1>2. CASE /\ receiver # NoReceiver /\ saving' = Append(saving, receiver)
           /\ UNCHANGED <<receiver, downloads, active, saved>>
    <2>1. saving' \in Seq(Collected)
        BY <1>2, AppendProperties DEF DownType
    <2> QED
        BY <1>1, <1>2, <2>1 DEF DownType
<1>3. CASE /\ saved' = IF receiver = NoReceiver THEN saved ELSE saved \cup {receiver}
           /\ FinishDownload /\ UNCHANGED saving
    BY <1>1, <1>3, FinishProperties DEF DownType
<1> QED
    BY <1>2, <1>3 DEF GetFileEnd

LEMMA DialogType ==
    ASSUME OwnerType, DownType, NEW i, Save(i) \/ CancelSave(i)
    PROVE  OwnerType' /\ DownType' /\ i \in 1..Len(saving)
<1>1. /\ i \in 1..Len(saving) /\ saving' = RemoveAt(saving, i) /\ FinishDownload
      /\ UNCHANGED <<open, ownerVars, buf, net, asked, asks, listening, unheard, remote>>
      /\ saved' = saved \/ saved' = saved \cup {saving[i]}
    BY LenProperties DEF Save, CancelSave, Dialog, DownType
<1>2. saving' \in Seq(Collected) /\ saving[i] \in Collected
    BY <1>1, RemoveAtProperties, ElementOfSeq DEF DownType
<1> QED
    BY <1>1, <1>2, FinishProperties DEF DownType, OwnerType, ownerVars

LEMMA TransferStep == TransferInv /\ [Next]_vars => TransferInv'
<1> SUFFICES ASSUME OwnerType, DownType, TransferInv, [Next]_vars
             PROVE  OwnerType' /\ DownType'
    BY InvSplit, InvSplitNext
<1>1. CASE \E f \in Files : AddSharedFile(f) \/ RemoveSharedFile(f)
    <2>1. PICK S \in SUBSET Files : Share(S)
        BY <1>1 DEF AddSharedFile, RemoveSharedFile, OwnerType
    <2> QED
        BY <2>1, ShareType DEF Share, downVars, DownType
<1>2. CASE HandleFileRequest
    BY <1>2, RequestType DEF HandleFileRequest, downVars, DownType
<1>3. ASSUME NEW k, SliceRead(k) PROVE OwnerType' /\ DownType'
    BY <1>3, SliceType DEF SliceRead, downVars, DownType
<1>4. CASE Transmit
    <2>1. UNCHANGED downVars
        BY <1>4 DEF Transmit
    <2> QED
        BY <1>4, <2>1, TransmitType DEF downVars, DownType
<1>5. CASE Close \/ \E f \in Files : RequestFile(f)
    BY <1>5, AskType DEF Close, RequestFile, downVars, DownType
<1>6. CASE Listen
    BY <1>6 DEF Listen, ownerVars, OwnerType, DownType
<1>7. CASE Unheard
    <2>1. OwnerType'
        BY <1>7, IncomingType DEF Unheard
    <2>2. UNCHANGED <<listening, remote, receiver, active, downloads, saving, saved>> /\ unheard'
        BY <1>7 DEF Unheard, Incoming
    <2>3. unheard' = TRUE
        BY <1>7 DEF Unheard
    <2> QED
        BY <2>1, <2>2, <2>3 DEF DownType
<1>8. CASE GetManifest \/ GetFileStart \/ GetChunk \/ GetFileEnd
    BY <1>8, ManifestProperties, StartProperties, ChunkProperties, EndType
<1>9. ASSUME NEW i, Save(i) \/ CancelSave(i) PROVE OwnerType' /\ DownType'
    BY <1>9, DialogType
<1>10. CASE UNCHANGED vars
    BY <1>10 DEF vars, ownerVars, downVars, OwnerType, DownType
<1> QED
    BY <1>1, <1>2, <1>3, <1>4, <1>5, <1>6, <1>7, <1>8, <1>9, <1>10 DEF Next, Owner, Downloader

\* The types of both browsers and of the channel hold in every state: every
\* chunk is one of its file, and the event resumes a loop that there is.
THEOREM TransferTypeCorrect == Spec => []TypeOK
<1>1. TransferInv => TypeOK
    BY DEF TransferInv
<1> QED
    BY <1>1, TransferInit, TransferStep, PTL DEF Spec

-----------------------------------------------------------------------------
(***************************************************************************)
(* The send buffer.  Only a loop that found room, or that was resumed when *)
(* the buffer had drained, sends a chunk, and it sends one.                *)
(***************************************************************************)
Chunks(b) == {i \in DOMAIN b : b[i].type = "chunk"}

LEMMA BufferedNat ==
    ASSUME NEW b \in Seq(Message)
    PROVE  Buffered(b) \in Nat /\ IsFiniteSet(Chunks(b)) /\ Buffered(b) = Cardinality(Chunks(b))
<1>1. DOMAIN b = 1..Len(b) /\ Len(b) \in Nat
    BY LenProperties
<1>2. IsFiniteSet(1..Len(b))
    BY <1>1, FS_Interval
<1>3. Chunks(b) \in SUBSET (1..Len(b))
    BY <1>1 DEF Chunks
<1> QED
    BY <1>2, <1>3, FS_Subset, FS_CardinalityType DEF Buffered, Chunks

\* A message adds at most one chunk, and none unless it is one.
LEMMA BufferedAppend ==
    ASSUME NEW b \in Seq(Message), NEW m \in Message
    PROVE  /\ Buffered(Append(b, m)) <= Buffered(b) + 1
           /\ m.type # "chunk" => Buffered(Append(b, m)) = Buffered(b)
<1> DEFINE c == Append(b, m)
<1>0. DOMAIN b = 1..Len(b) /\ Len(b) \in Nat
    BY LenProperties
<1>1. /\ c \in Seq(Message) /\ Len(c) = Len(b) + 1 /\ c[Len(b) + 1] = m
      /\ \A i \in 1..Len(b) : c[i] = b[i]
    BY AppendProperties
<1>2. DOMAIN c = 1..(Len(b) + 1)
    BY <1>1, LenProperties
<1> HIDE DEF c
<1>3. Chunks(c) = IF m.type = "chunk" THEN Chunks(b) \cup {Len(b) + 1} ELSE Chunks(b)
    BY <1>0, <1>1, <1>2 DEF Chunks
<1>4. Buffered(b) \in Nat /\ IsFiniteSet(Chunks(b)) /\ Buffered(b) = Cardinality(Chunks(b))
      /\ Buffered(c) = Cardinality(Chunks(c))
    BY <1>1, BufferedNat
<1>5. Cardinality(Chunks(b) \cup {Len(b) + 1}) = Cardinality(Chunks(b)) + 1
    <2>1. Len(b) + 1 \notin Chunks(b)
        BY <1>0 DEF Chunks
    <2> QED
        BY <1>4, <2>1, FS_AddElement
<1>6. CASE m.type = "chunk"
    BY <1>3, <1>4, <1>5, <1>6 DEF c
<1>7. CASE m.type # "chunk"
    BY <1>3, <1>4, <1>7 DEF c
<1> QED
    BY <1>6, <1>7

\* Taking the first message adds none.
LEMMA BufferedTail ==
    ASSUME NEW b \in Seq(Message), b # <<>>
    PROVE  Buffered(Tail(b)) <= Buffered(b)
<1> DEFINE c == Tail(b)
           f == [i \in Chunks(c) |-> i + 1]
<1>0. DOMAIN b = 1..Len(b) /\ Len(b) \in Nat
    BY LenProperties
<1>1. /\ c \in Seq(Message) /\ Len(c) = Len(b) - 1
      /\ \A i \in 1..Len(c) : c[i] = b[i + 1]
    BY HeadTailProperties
<1>2. DOMAIN c = 1..(Len(b) - 1)
    BY <1>1, LenProperties
<1> HIDE DEF c
<1>3. \A i \in Chunks(c) : i \in Nat /\ i + 1 \in Chunks(b)
    BY <1>0, <1>1, <1>2 DEF Chunks
<1>4. f \in Injection(Chunks(c), Chunks(b))
    BY <1>3 DEF Injection, IsInjective
<1>5. IsFiniteSet(Chunks(b)) /\ Buffered(b) = Cardinality(Chunks(b))
      /\ Buffered(c) = Cardinality(Chunks(c))
    BY <1>1, BufferedNat
<1>6. Cardinality(Chunks(c)) <= Cardinality(Chunks(b))
    <2> HIDE DEF f
    <2> QED
        BY <1>4, <1>5, FS_Injection
<1> QED
    BY <1>5, <1>6 DEF c

LEMMA PutBuffered ==
    ASSUME TransferInv, NEW k \in 1..Len(sends), sends[k].at \in {"reading", "waiting"},
           NEW b \in Seq(Message), PutChunk(k, b)
    PROVE  Buffered(buf') <= Buffered(b) + 1
<1> DEFINE f == sends[k].file
           n == sends[k].sent + 1
<1>1. /\ f \in Files /\ n \in 1..Size[f]
      /\ IF n = Size[f] THEN buf' = Append(Append(b, Chunk(f, n)), FileEnd(f))
         ELSE buf' = Append(b, Chunk(f, n))
    BY PutProperties
<1> HIDE DEF f, n
<1>2. Chunk(f, n) \in Message /\ FileEnd(f) \in Message /\ FileEnd(f).type = "file-end"
    BY <1>1, MessageType
<1> PICK c : c = Append(b, Chunk(f, n))
    OBVIOUS
<1>3. c \in Seq(Message) /\ Buffered(c) <= Buffered(b) + 1
    BY <1>2, AppendProperties, BufferedAppend
<1>4. Buffered(Append(c, FileEnd(f))) = Buffered(c)
    BY <1>2, <1>3, BufferedAppend
<1> QED
    BY <1>1, <1>3, <1>4

LEMMA BufferInit == Init => BufferBounded
<1> SUFFICES ASSUME Init PROVE BufferBounded
    OBVIOUS
<1> DEFINE e == <<>>
           m == Manifest(shared)
<1>1. e \in Seq(Message) /\ m \in Message /\ m.type # "chunk"
    BY EmptySeq, MessageType DEF Init
<1>2. buf = Append(e, m)
    BY DEF Init
<1>3. Chunks(e) = {}
    BY DEF Chunks
<1>4. Buffered(e) = 0
    BY <1>1, <1>3, BufferedNat, FS_EmptySet
<1> HIDE DEF e, m
<1>5. Buffered(buf) = 0
    BY <1>1, <1>2, <1>4, BufferedAppend
<1> QED
    BY <1>5, MarksAssumption DEF BufferBounded

LEMMA BufferStep == TransferInv /\ BufferBounded /\ [Next]_vars => BufferBounded'
<1> SUFFICES ASSUME TransferInv, BufferBounded, [Next]_vars PROVE BufferBounded'
    OBVIOUS
<1>0. OwnerType /\ buf \in Seq(Message) /\ Buffered(buf) \in Nat /\ High \in Nat /\ Low < High
      /\ Low \in Nat
    BY InvSplit, BufferedNat, MarksAssumption DEF OwnerType
<1>1. ASSUME NEW S \in SUBSET Files, Share(S) PROVE BufferBounded'
    BY <1>0, <1>1, MessageType, BufferedAppend DEF Share, BufferBounded
<1>2. CASE HandleFileRequest
    <2> DEFINE f == Head(asked)
               b == Append(buf, FileStart(f))
    <2>1. f \in Files /\ (buf' = buf \/ buf' = b \/ buf' = Append(b, FileEnd(f)))
        BY <1>0, <1>2, RequestProperties
    <2>2. /\ FileStart(f) \in Message /\ FileStart(f).type # "chunk"
          /\ FileEnd(f) \in Message /\ FileEnd(f).type # "chunk"
        BY <2>1, MessageType
    <2>3. b \in Seq(Message) /\ Buffered(b) = Buffered(buf)
        BY <1>0, <2>2, AppendProperties, BufferedAppend
    <2> HIDE DEF b
    <2>4. Buffered(Append(b, FileEnd(f))) = Buffered(buf)
        BY <2>2, <2>3, BufferedAppend
    <2> QED
        BY <2>1, <2>3, <2>4 DEF BufferBounded
<1>3. ASSUME NEW k, SliceRead(k) PROVE BufferBounded'
    <2>1. k \in 1..Len(sends) /\ sends[k].at = "reading"
        BY <1>0, <1>3, LenProperties DEF SliceRead, OwnerType
    <2>2. CASE ~Full(buf) /\ open
        <3>1. Buffered(buf') <= Buffered(buf) + 1 /\ buf' \in Seq(Message)
            BY <1>0, <1>3, <2>1, <2>2, PutBuffered, PutType DEF SliceRead
        <3>2. Buffered(buf') \in Nat
            BY <3>1, BufferedNat
        <3> QED
            BY <1>0, <2>2, <3>1, <3>2 DEF Full, BufferBounded
    <2>3. CASE Full(buf) \/ ~open
        BY <1>3, <2>3 DEF SliceRead, BufferBounded
    <2> QED
        BY <2>2, <2>3
<1>4. CASE Transmit
    <2>1. Tail(buf) \in Seq(Message) /\ Buffered(Tail(buf)) <= Buffered(buf)
        BY <1>0, <1>4, HeadTailProperties, BufferedTail DEF Transmit
    <2>2. Buffered(Tail(buf)) \in Nat
        BY <2>1, BufferedNat
    <2>3. CASE Drained(buf, Tail(buf)) /\ onlow # 0
        <3>1. onlow \in 1..Len(sends) /\ sends[onlow].at = "waiting"
            BY <1>0, <2>3 DEF OwnerType
        <3>2. Buffered(buf') <= Buffered(Tail(buf)) + 1 /\ buf' \in Seq(Message)
            BY <1>4, <2>1, <2>3, <3>1, PutBuffered, PutType DEF Transmit
        <3>3. Buffered(buf') \in Nat
            BY <3>2, BufferedNat
        <3> QED
            BY <1>0, <2>2, <2>3, <3>2, <3>3 DEF Drained, BufferBounded
    <2>4. CASE ~(Drained(buf, Tail(buf)) /\ onlow # 0)
        <3>1. buf' = Tail(buf)
            BY <1>4, <2>4 DEF Transmit
        <3> QED
            BY <1>0, <2>1, <2>2, <3>1 DEF BufferBounded
    <2> QED
        BY <2>3, <2>4
<1>5. CASE UNCHANGED buf
    BY <1>5 DEF BufferBounded
<1> QED
    <2>1. CASE \E f \in Files : AddSharedFile(f) \/ RemoveSharedFile(f)
        BY <1>0, <1>1, <2>1 DEF AddSharedFile, RemoveSharedFile, OwnerType
    <2>2. CASE Downloader \/ Close \/ UNCHANGED vars
        BY <1>5, <2>2 DEF Downloader, Close, vars, Listen, Unheard, Incoming, RequestFile, GetManifest,
            GetFileStart, GetChunk, GetFileEnd, Save, CancelSave, Dialog
    <2> QED
        BY <1>2, <1>3, <1>4, <2>1, <2>2 DEF Next, Owner

\* However many files are sent at a time, the send buffer never holds more than
\* one chunk above the high-water mark (the wait for bufferedamountlow in
\* handleFileRequest).
THEOREM BufferIsBounded == Spec => []BufferBounded
BY TransferInit, TransferStep, BufferInit, BufferStep, PTL DEF Spec

-----------------------------------------------------------------------------
(***************************************************************************)
(* The list of what is shared.  The stream is what is in the send buffer   *)
(* and on its way; its last manifest tells the truth.                      *)
(***************************************************************************)
\* A manifest that joins the stream is its last one.
LEMMA ToldManifest ==
    ASSUME NEW s \in Seq(Message), NEW r, NEW S \in SUBSET Files
    PROVE  Told(Append(s, Manifest(S)), r, S)
<1> PICK m : m = Manifest(S)
    OBVIOUS
<1> PICK t : t = Append(s, m)
    OBVIOUS
<1>1. m \in Message /\ m.type = "manifest" /\ m.files = S
    BY MessageType
<1>2. /\ Len(t) = Len(s) + 1 /\ t[Len(s) + 1] = m /\ Len(s) \in Nat
    BY <1>1, AppendProperties, LenProperties
<1>3. Len(s) + 1 \in 1..Len(t)
    BY <1>2
<1>4. ASSUME NEW i \in 1..Len(t), \A j \in 1..Len(t) : i < j => t[j].type # "manifest"
      PROVE  t[i] = m
    <2>1. ~(i < Len(s) + 1)
        BY <1>1, <1>2, <1>3, <1>4
    <2>2. i = Len(s) + 1
        BY <1>2, <2>1
    <2> QED
        BY <1>2, <2>2
<1>5. Told(t, r, S)
    BY <1>1, <1>2, <1>3, <1>4 DEF Told
<1> QED
    BY <1>5

\* Any other message changes nothing.
LEMMA ToldOther ==
    ASSUME NEW s \in Seq(Message), NEW r, NEW now, Told(s, r, now),
           NEW m \in Message, Data(m)
    PROVE  Told(Append(s, m), r, now)
<1> PICK t : t = Append(s, m)
    OBVIOUS
<1>1. /\ Len(t) = Len(s) + 1 /\ t[Len(s) + 1] = m /\ Len(s) \in Nat
      /\ \A i \in 1..Len(s) : t[i] = s[i]
    BY AppendProperties, LenProperties
<1>2. \A i \in 1..Len(s) : i \in 1..Len(t)
    BY <1>1
<1>3. (\A i \in 1..Len(t) : t[i].type # "manifest") => r = now
    BY <1>1, <1>2 DEF Told
<1>4. ASSUME NEW i \in 1..Len(t), t[i].type = "manifest",
             \A j \in 1..Len(t) : i < j => t[j].type # "manifest"
      PROVE  t[i].files = now
    <2>1. i # Len(s) + 1
        BY <1>1, <1>4 DEF Data
    <2>2. i \in 1..Len(s)
        BY <1>1, <2>1
    <2>3. s[i].type = "manifest" /\ \A j \in 1..Len(s) : i < j => s[j].type # "manifest"
        BY <1>1, <1>2, <1>4, <2>2
    <2> QED
        BY <1>1, <2>2, <2>3 DEF Told
<1>5. Told(t, r, now)
    BY <1>3, <1>4 DEF Told
<1> QED
    BY <1>5

\* The first message is received.
LEMMA ToldTail ==
    ASSUME NEW s \in Seq(Message), s # <<>>, NEW r, NEW now, Told(s, r, now)
    PROVE  Told(Tail(s), IF Data(Head(s)) THEN r ELSE Head(s).files, now)
<1> PICK t : t = Tail(s)
    OBVIOUS
<1>1. /\ t \in Seq(Message) /\ Len(t) = Len(s) - 1 /\ s[1] = Head(s)
      /\ \A i \in 1..Len(t) : t[i] = s[i + 1]
    BY HeadTailProperties
<1>2. Len(s) \in Nat \ {0} /\ Len(t) \in Nat
    BY <1>1, EmptySeq, LenProperties
<1>3. \A j \in 1..Len(s) : j = 1 \/ (j - 1 \in 1..Len(t) /\ t[j - 1] = s[j])
    BY <1>1, <1>2
<1>4. ASSUME \A i \in 1..Len(t) : t[i].type # "manifest"
      PROVE  (IF Data(Head(s)) THEN r ELSE Head(s).files) = now
    <2>1. \A j \in 1..Len(s) : j = 1 \/ s[j].type # "manifest"
        BY <1>3, <1>4
    <2>2. CASE Data(Head(s))
        <3>1. \A j \in 1..Len(s) : s[j].type # "manifest"
            BY <1>1, <2>1, <2>2 DEF Data
        <3> QED
            BY <2>2, <3>1 DEF Told
    <2>3. CASE ~Data(Head(s))
        <3>1. 1 \in 1..Len(s) /\ s[1].type = "manifest"
            BY <1>1, <1>2, <2>3 DEF Data
        <3>2. \A j \in 1..Len(s) : 1 < j => s[j].type # "manifest"
            BY <2>1
        <3> QED
            BY <1>1, <2>3, <3>1, <3>2 DEF Told
    <2> QED
        BY <2>2, <2>3
<1>5. ASSUME NEW i \in 1..Len(t), t[i].type = "manifest",
             \A j \in 1..Len(t) : i < j => t[j].type # "manifest"
      PROVE  t[i].files = now
    <2>1. i + 1 \in 1..Len(s) /\ t[i] = s[i + 1]
        BY <1>1, <1>2
    <2>2. ASSUME NEW j \in 1..Len(s), i + 1 < j PROVE s[j].type # "manifest"
        <3>1. j - 1 \in 1..Len(t) /\ t[j - 1] = s[j] /\ i < j - 1
            BY <1>2, <1>3, <2>2
        <3> QED
            BY <1>5, <3>1
    <2> QED
        BY <1>5, <2>1, <2>2 DEF Told
<1>6. Told(t, IF Data(Head(s)) THEN r ELSE Head(s).files, now)
    BY <1>4, <1>5 DEF Told
<1> QED
    BY <1>6

\* What the loops do to a stream that ends with the send buffer.
LEMMA StreamPut ==
    ASSUME TransferInv, NEW k \in 1..Len(sends), sends[k].at \in {"reading", "waiting"},
           NEW a \in Seq(Message), NEW b \in Seq(Message), PutChunk(k, b)
    PROVE  LET f == sends[k].file
               n == sends[k].sent + 1
               c == Append(a \o b, Chunk(f, n))
           IN  /\ f \in Files /\ n \in 1..Size[f] /\ c \in Seq(Message)
               /\ IF n = Size[f] THEN a \o buf' = Append(c, FileEnd(f)) ELSE a \o buf' = c
<1> PICK f : f = sends[k].file
    OBVIOUS
<1> PICK n : n = sends[k].sent + 1
    OBVIOUS
<1>1. /\ f \in Files /\ n \in 1..Size[f]
      /\ IF n = Size[f] THEN buf' = Append(Append(b, Chunk(f, n)), FileEnd(f))
         ELSE buf' = Append(b, Chunk(f, n))
    BY PutProperties
<1>2. Chunk(f, n) \in Message /\ FileEnd(f) \in Message
    BY <1>1, MessageType
<1>3. /\ a \o Append(b, Chunk(f, n)) = Append(a \o b, Chunk(f, n))
      /\ Append(b, Chunk(f, n)) \in Seq(Message) /\ a \o b \in Seq(Message)
      /\ Append(a \o b, Chunk(f, n)) \in Seq(Message)
    BY <1>2, AppendProperties, ConcatProperties, AppendRight
<1>4. a \o Append(Append(b, Chunk(f, n)), FileEnd(f)) = Append(Append(a \o b, Chunk(f, n)), FileEnd(f))
    BY <1>2, <1>3, AppendRight
<1> QED
    BY <1>1, <1>3, <1>4

\* A message that is sent stays in the stream, a loop may add its next chunk.
LEMMA StreamTransmit ==
    ASSUME TransferInv, Transmit
    PROVE  \/ (net \o buf)' = net \o buf /\ UNCHANGED sends
           \/ \E k \in 1..Len(sends) : \E b \in Seq(Message) :
                LET f == sends[k].file
                    n == sends[k].sent + 1
                    c == Append(net \o buf, Chunk(f, n))
                IN  /\ sends[k].at \in {"reading", "waiting"} /\ PutChunk(k, b)
                    /\ (net \o buf)' = IF n = Size[f] THEN Append(c, FileEnd(f)) ELSE c
<1> PICK a : a = Append(net, Head(buf))
    OBVIOUS
<1>1. /\ OwnerType /\ net' = a /\ buf # <<>> /\ buf \in Seq(Message) /\ net \in Seq(Message)
      /\ Tail(buf) \in Seq(Message) /\ a \in Seq(Message)
    BY InvSplit, HeadTailProperties, AppendProperties DEF Transmit, OwnerType
<1>2. a \o Tail(buf) = net \o buf
    BY <1>1, MoveHead
<1>3. CASE Drained(buf, Tail(buf)) /\ onlow # 0
    <2> PICK k : k = onlow
        OBVIOUS
    <2> PICK b : b = Tail(buf)
        OBVIOUS
    <2>1. /\ PutChunk(k, b) /\ b \in Seq(Message)
          /\ k \in 1..Len(sends) /\ sends[k].at \in {"reading", "waiting"}
        BY <1>1, <1>3 DEF Transmit, OwnerType
    <2>2. LET f == sends[k].file
              n == sends[k].sent + 1
              c == Append(a \o b, Chunk(f, n))
          IN  a \o buf' = IF n = Size[f] THEN Append(c, FileEnd(f)) ELSE c
        BY <1>1, <2>1, StreamPut
    <2>3. LET f == sends[k].file
              n == sends[k].sent + 1
              c == Append(net \o buf, Chunk(f, n))
          IN  (net \o buf)' = IF n = Size[f] THEN Append(c, FileEnd(f)) ELSE c
        BY <1>1, <1>2, <2>2
    <2> QED
        BY <2>1, <2>3
<1>4. CASE ~(Drained(buf, Tail(buf)) /\ onlow # 0)
    BY <1>1, <1>2, <1>4 DEF Transmit
<1> QED
    BY <1>3, <1>4

\* A loop reads on.
LEMMA StreamSlice ==
    ASSUME TransferInv, NEW k, SliceRead(k)
    PROVE  /\ k \in 1..Len(sends) /\ sends[k].at = "reading"
           /\ \/ (net \o buf)' = net \o buf
              \/ LET f == sends[k].file
                     n == sends[k].sent + 1
                     c == Append(net \o buf, Chunk(f, n))
                 IN  /\ PutChunk(k, buf)
                     /\ (net \o buf)' = IF n = Size[f] THEN Append(c, FileEnd(f)) ELSE c
<1>1. OwnerType /\ k \in 1..Len(sends) /\ sends[k].at = "reading" /\ UNCHANGED net
      /\ buf \in Seq(Message) /\ net \in Seq(Message)
    BY InvSplit, LenProperties DEF SliceRead, OwnerType
<1>2. buf' = buf \/ PutChunk(k, buf)
    BY DEF SliceRead
<1> QED
    BY <1>1, <1>2, StreamPut

\* A loop begins.
LEMMA StreamRequest ==
    ASSUME TransferInv, HandleFileRequest
    PROVE  LET f == Head(asked)
               c == Append(net \o buf, FileStart(f))
           IN  /\ f \in Files
               /\ \/ (net \o buf)' = net \o buf /\ sends' = sends
                  \/ /\ c \in Seq(Message)
                     /\ (net \o buf)' = IF Size[f] = 0 THEN Append(c, FileEnd(f)) ELSE c
                     /\ sends' = Append(sends, [file |-> f, sent |-> 0,
                                                at |-> IF Size[f] = 0 THEN "done" ELSE "reading"])
<1> PICK f : f = Head(asked)
    OBVIOUS
<1>1. /\ OwnerType /\ f \in Files /\ UNCHANGED net
      /\ \/ sends' = sends /\ buf' = buf
         \/ /\ sends' = Append(sends, [file |-> f, sent |-> 0, at |-> After(f, 0)])
            /\ IF Size[f] = 0
               THEN After(f, 0) = "done" /\ buf' = Append(Append(buf, FileStart(f)), FileEnd(f))
               ELSE After(f, 0) = "reading" /\ buf' = Append(buf, FileStart(f))
    BY InvSplit, RequestProperties DEF HandleFileRequest
<1>2. /\ FileStart(f) \in Message /\ FileEnd(f) \in Message
      /\ buf \in Seq(Message) /\ net \in Seq(Message)
    BY <1>1, MessageType DEF OwnerType
<1>3. /\ net \o Append(buf, FileStart(f)) = Append(net \o buf, FileStart(f))
      /\ Append(buf, FileStart(f)) \in Seq(Message) /\ net \o buf \in Seq(Message)
      /\ Append(net \o buf, FileStart(f)) \in Seq(Message)
    BY <1>2, AppendProperties, ConcatProperties, AppendRight
<1>4. net \o Append(Append(buf, FileStart(f)), FileEnd(f))
        = Append(Append(net \o buf, FileStart(f)), FileEnd(f))
    BY <1>2, <1>3, AppendRight
<1> QED
    BY <1>1, <1>3, <1>4

\* The manifest goes to the end.
LEMMA StreamShare ==
    ASSUME TransferInv, NEW S \in SUBSET Files, Share(S), open
    PROVE  (net \o buf)' = Append(net \o buf, Manifest(S)) /\ net \o buf \in Seq(Message)
<1>1. OwnerType /\ Manifest(S) \in Message
    BY InvSplit, MessageType
<1> QED
    BY <1>1, AppendRight, ConcatProperties DEF Share, OwnerType

\* A message is received.
LEMMA StreamIncoming ==
    ASSUME TransferInv, NEW t, Incoming(t)
    PROVE  /\ net \o buf \in Seq(Message) /\ net \o buf # <<>>
           /\ Head(net \o buf) = Head(net) /\ Head(net).type = t /\ Head(net) \in Message
           /\ (net \o buf)' = Tail(net \o buf)
           /\ UNCHANGED <<open, ownerVars, asked, listening>>
<1>1. OwnerType /\ net # <<>> /\ net' = Tail(net) /\ Head(net) \in Message
    BY InvSplit, HeadTailProperties DEF OwnerType, Incoming
<1>2. /\ net \o buf \in Seq(Message) /\ net \o buf # <<>>
      /\ Head(net \o buf) = Head(net) /\ Tail(net \o buf) = Tail(net) \o buf
    BY <1>1, TailLeft DEF OwnerType
<1> QED
    BY <1>1, <1>2 DEF Incoming

-----------------------------------------------------------------------------
\* A loop adds no manifest.
LEMMA ToldPut ==
    ASSUME NEW s \in Seq(Message), NEW r, NEW now, Told(s, r, now),
           NEW m \in Message, Data(m), NEW f \in Files
    PROVE  Told(Append(s, m), r, now) /\ Told(Append(Append(s, m), FileEnd(f)), r, now)
<1>1. FileEnd(f) \in Message /\ Data(FileEnd(f))
    BY MessageType DEF Data
<1>2. Append(s, m) \in Seq(Message)
    BY AppendProperties
<1> QED
    BY <1>1, <1>2, ToldOther

LEMMA ToldChunk ==
    ASSUME TransferInv, ToldInv, NEW k \in 1..Len(sends), sends[k].at \in {"reading", "waiting"},
           NEW b \in Seq(Message), PutChunk(k, b), UNCHANGED <<open, unheard, remote, shared>>,
           LET f == sends[k].file
               n == sends[k].sent + 1
               c == Append(net \o buf, Chunk(f, n))
           IN  (net \o buf)' = IF n = Size[f] THEN Append(c, FileEnd(f)) ELSE c
    PROVE  ToldInv'
<1> PICK f : f = sends[k].file
    OBVIOUS
<1> PICK n : n = sends[k].sent + 1
    OBVIOUS
<1>1. f \in Files /\ n \in 1..Size[f]
    BY PutProperties
<1>2. Chunk(f, n) \in Message /\ Data(Chunk(f, n))
    BY <1>1, MessageType DEF Data
<1>3. net \o buf \in Seq(Message)
    BY InvSplit, ConcatProperties DEF OwnerType
<1>4. (net \o buf)' = IF n = Size[f] THEN Append(Append(net \o buf, Chunk(f, n)), FileEnd(f))
                      ELSE Append(net \o buf, Chunk(f, n))
    OBVIOUS
<1> QED
    BY <1>1, <1>2, <1>3, <1>4, ToldPut DEF ToldInv

LEMMA ToldInit == Init => ToldInv
<1> SUFFICES ASSUME Init PROVE ToldInv
    OBVIOUS
<1> DEFINE e == <<>>
<1>1. e \in Seq(Message) /\ shared \in SUBSET Files /\ Manifest(shared) \in Message
    BY EmptySeq, MessageType DEF Init
<1>2. buf = Append(e, Manifest(shared)) /\ net = e /\ buf \in Seq(Message)
    BY <1>1 DEF Init
<1>3. net \o buf = Append(e, Manifest(shared))
    <2> HIDE DEF e
    <2>1. e \o buf = buf
        BY <1>2, ConcatEmptySeq DEF e
    <2> QED
        BY <1>2, <2>1
<1> HIDE DEF e
<1> QED
    BY <1>1, <1>3, ToldManifest DEF ToldInv

LEMMA ToldStep == TransferInv /\ ToldInv /\ [Next]_vars => ToldInv'
<1> SUFFICES ASSUME TransferInv, ToldInv, [Next]_vars PROVE ToldInv'
    OBVIOUS
<1>0. OwnerType /\ net \o buf \in Seq(Message) /\ shared \in SUBSET Files
    BY InvSplit, ConcatProperties DEF OwnerType
<1>1. ASSUME NEW S \in SUBSET Files, Share(S) PROVE ToldInv'
    <2>1. shared' = S /\ UNCHANGED <<open, unheard, remote>>
        BY <1>1 DEF Share, downVars
    <2> QED
        BY <1>0, <1>1, <2>1, StreamShare, ToldManifest DEF ToldInv
<1>2. CASE HandleFileRequest
    <2>1. UNCHANGED <<open, unheard, remote, shared>>
        BY <1>2 DEF HandleFileRequest, downVars
    <2> PICK f : f = Head(asked)
        OBVIOUS
    <2>2. f \in Files /\ \/ (net \o buf)' = net \o buf
                         \/ (net \o buf)' = Append(net \o buf, FileStart(f))
                         \/ (net \o buf)' = Append(Append(net \o buf, FileStart(f)), FileEnd(f))
        BY <1>2, StreamRequest
    <2>3. FileStart(f) \in Message /\ Data(FileStart(f))
        BY <2>2, MessageType DEF Data
    <2> QED
        BY <1>0, <2>1, <2>2, <2>3, ToldPut DEF ToldInv
<1>3. ASSUME NEW k, SliceRead(k) PROVE ToldInv'
    <2>1. UNCHANGED <<open, unheard, remote, shared>> /\ buf \in Seq(Message)
        BY <1>0, <1>3 DEF SliceRead, downVars, OwnerType
    <2>2. CASE (net \o buf)' = net \o buf
        BY <2>1, <2>2 DEF ToldInv
    <2> QED
        BY <1>3, <2>1, <2>2, StreamSlice, ToldChunk
<1>4. CASE Transmit
    <2>1. UNCHANGED <<open, unheard, remote, shared>>
        BY <1>4 DEF Transmit, downVars
    <2>2. CASE (net \o buf)' = net \o buf
        BY <2>1, <2>2 DEF ToldInv
    <2> QED
        BY <1>4, <2>1, <2>2, StreamTransmit, ToldChunk
<1>5. CASE Close
    BY <1>5 DEF Close, ToldInv
<1>6. CASE Unheard
    BY <1>6 DEF Unheard, ToldInv
<1>7. CASE GetManifest \/ GetFileStart \/ GetChunk \/ GetFileEnd
    <2>1. PICK t : Incoming(t) /\ (t = "manifest" <=> GetManifest)
        BY <1>7 DEF GetManifest, GetFileStart, GetChunk, GetFileEnd, Incoming
    <2>2. /\ net \o buf # <<>> /\ (net \o buf)' = Tail(net \o buf) /\ Head(net \o buf) = Head(net)
          /\ Head(net).type = t /\ UNCHANGED <<open, shared>>
        BY <2>1, StreamIncoming DEF ownerVars
    <2>3. remote' = IF Data(Head(net \o buf)) THEN remote ELSE Head(net \o buf).files
        BY <1>7, <2>1, <2>2 DEF Data, GetManifest, GetFileStart, GetChunk, GetFileEnd
    <2>4. UNCHANGED unheard
        BY <1>7 DEF GetManifest, GetFileStart, GetChunk, GetFileEnd
    <2> QED
        BY <1>0, <2>2, <2>3, <2>4, ToldTail DEF ToldInv
<1>8. CASE UNCHANGED <<open, unheard, remote, shared, net, buf>>
    BY <1>8 DEF ToldInv
<1> QED
    <2>1. CASE \E f \in Files : AddSharedFile(f) \/ RemoveSharedFile(f)
        BY <1>0, <1>1, <2>1 DEF AddSharedFile, RemoveSharedFile
    <2>2. ASSUME NEW i, Save(i) \/ CancelSave(i) PROVE ToldInv'
        BY <1>8, <2>2 DEF Save, CancelSave, Dialog, ownerVars
    <2>3. CASE Listen \/ (\E f \in Files : RequestFile(f)) \/ UNCHANGED vars
        BY <1>8, <2>3 DEF Listen, RequestFile, vars, ownerVars, downVars
    <2> QED
        BY <1>2, <1>3, <1>4, <1>5, <1>6, <1>7, <2>1, <2>2, <2>3 DEF Next, Owner, Downloader

\* Once no manifest is on its way, the downloader's list is what the owner
\* shares: the effect of sharedFiles sends every change, and the channel keeps
\* the order (sendManifest and the manifest case of handleMessage).
THEOREM ListIsTold == Spec => []SeesWhatIsShared
<1>1. TransferInv /\ ToldInv => SeesWhatIsShared
    <2> SUFFICES ASSUME TransferInv, ToldInv, open, ~unheard,
                        \A m \in ToSet(buf \o net) : m.type # "manifest"
                 PROVE  remote = shared
        BY DEF SeesWhatIsShared
    <2>1. /\ buf \in Seq(Message) /\ net \in Seq(Message)
          /\ net \o buf \in Seq(Message) /\ buf \o net \in Seq(Message)
        BY InvSplit, ConcatProperties DEF OwnerType
    <2>2. ToSet(net \o buf) = ToSet(buf \o net)
        <3>1. ToSet(net \o buf) = ToSet(net) \cup ToSet(buf)
            BY <2>1, ToSetConcat
        <3>2. ToSet(buf \o net) = ToSet(buf) \cup ToSet(net)
            BY <2>1, ToSetConcat
        <3> QED
            BY <3>1, <3>2
    <2>3. \A i \in 1..Len(net \o buf) : (net \o buf)[i] \in ToSet(net \o buf)
        BY <2>1, ToSetProperties
    <2>4. \A i \in 1..Len(net \o buf) : (net \o buf)[i].type # "manifest"
        BY <2>2, <2>3
    <2> QED
        BY <2>4 DEF ToldInv, Told
<1> QED
    BY <1>1, TransferInit, TransferStep, ToldInit, ToldStep, PTL DEF Spec

-----------------------------------------------------------------------------
(***************************************************************************)
(* The files, one at a time.  First the order of a stream.                 *)
(***************************************************************************)
LEMMA RankType ==
    ASSUME NEW m \in Message, Data(m)
    PROVE  /\ FileOf(m) \in Files /\ Rank(m) \in Nat /\ Size[FileOf(m)] \in Nat
           /\ m.type = "file-start" => Rank(m) = 0 /\ FileOf(m) = m.name
           /\ m.type = "chunk" =>
                /\ Rank(m) \in 1..Size[FileOf(m)]
                /\ m.data = <<FileOf(m), Rank(m)>>
           /\ m.type = "file-end" => Rank(m) = Size[FileOf(m)] + 1 /\ FileOf(m) = m.name
<1>1. CASE m.type = "chunk"
    BY <1>1, MessageParts, ChunkParts, SizeAssumption DEF FileOf, Rank
<1>2. CASE m.type = "file-start"
    BY <1>2, MessageParts, SizeAssumption DEF FileOf, Rank
<1>3. CASE m.type = "file-end"
    BY <1>3, MessageParts, SizeAssumption DEF FileOf, Rank
<1> QED
    BY <1>1, <1>2, <1>3, MessageParts DEF Data

LEMMA RankOf ==
    ASSUME NEW f \in Files
    PROVE  /\ FileStart(f) \in Message /\ Data(FileStart(f))
           /\ FileOf(FileStart(f)) = f /\ Rank(FileStart(f)) = 0
           /\ FileEnd(f) \in Message /\ Data(FileEnd(f))
           /\ FileOf(FileEnd(f)) = f /\ Rank(FileEnd(f)) = Size[f] + 1
           /\ \A n \in 1..Size[f] :
                /\ Chunk(f, n) \in Message /\ Data(Chunk(f, n))
                /\ FileOf(Chunk(f, n)) = f /\ Rank(Chunk(f, n)) = n
<1>1. ASSUME NEW m \in Message, m.type = "file-start", m.name = f
      PROVE  Data(m) /\ FileOf(m) = f /\ Rank(m) = 0
    BY <1>1 DEF Data, FileOf, Rank
<1>2. ASSUME NEW m \in Message, m.type = "file-end", m.name = f
      PROVE  Data(m) /\ FileOf(m) = f /\ Rank(m) = Size[f] + 1
    BY <1>2 DEF Data, FileOf, Rank
<1>3. ASSUME NEW n \in 1..Size[f], NEW m \in Message, m.type = "chunk", m.data = <<f, n>>
      PROVE  Data(m) /\ FileOf(m) = f /\ Rank(m) = n
    BY <1>3 DEF Data, FileOf, Rank
<1> QED
    BY <1>1, <1>2, <1>3, MessageType

\* A stream without messages of a file is in order, and so is the other way.
LEMMA OrderNone ==
    ASSUME NEW s \in Seq(Message), \A i \in 1..Len(s) : ~Data(s[i]), NEW f, NEW p \in Nat
    PROVE  InOrder(s, f, p, p)
BY DEF InOrder

LEMMA NoneInOrder ==
    ASSUME NEW s \in Seq(Message), NEW f, NEW p \in Nat, InOrder(s, f, p, p)
    PROVE  \A i \in 1..Len(s) : ~Data(s[i])
<1>1. ASSUME NEW i \in 1..Len(s), Data(s[i]) PROVE FALSE
    <2>1. Rank(s[i]) \in Nat
        BY <1>1, ElementOfSeq, RankType
    <2> QED
        BY <1>1, <2>1 DEF InOrder
<1> QED
    BY <1>1

LEMMA OrderAppend ==
    ASSUME NEW s \in Seq(Message), NEW f, NEW p \in Nat, NEW q \in Nat, InOrder(s, f, p, q),
           NEW m \in Message, Data(m) => FileOf(m) = f /\ Rank(m) = q
    PROVE  InOrder(Append(s, m), f, p, IF Data(m) THEN q + 1 ELSE q)
<1> PICK t : t = Append(s, m)
    OBVIOUS
<1> PICK u : u = IF Data(m) THEN q + 1 ELSE q
    OBVIOUS
<1>1. /\ Len(t) = Len(s) + 1 /\ t[Len(s) + 1] = m /\ Len(s) \in Nat
      /\ \A i \in 1..Len(s) : t[i] = s[i] /\ i \in 1..Len(t)
    BY AppendProperties, LenProperties
<1>2. \A i \in 1..Len(t) : i \in 1..Len(s) \/ i = Len(s) + 1
    BY <1>1
<1>3. \A i \in 1..Len(s) : Data(s[i]) => Rank(s[i]) \in Nat
    BY ElementOfSeq, RankType
<1>4. u \in Nat /\ q <= u
    OBVIOUS
<1>0. p <= q
    BY DEF InOrder
<1>5. ASSUME NEW i \in 1..Len(t), Data(t[i])
      PROVE  FileOf(t[i]) = f /\ p <= Rank(t[i]) /\ Rank(t[i]) < u
    <2>1. CASE i \in 1..Len(s)
        BY <1>1, <1>3, <1>4, <1>5, <2>1 DEF InOrder
    <2>2. CASE i = Len(s) + 1
        BY <1>0, <1>1, <1>5, <2>2
    <2> QED
        BY <1>2, <2>1, <2>2
<1>6. ASSUME NEW r \in p..(u - 1)
      PROVE  \E i \in 1..Len(t) : Data(t[i]) /\ Rank(t[i]) = r
    <2>1. CASE r \in p..(q - 1)
        BY <1>1, <2>1 DEF InOrder
    <2>2. CASE r \notin p..(q - 1)
        <3>1. Data(m) /\ r = q
            BY <2>2
        <3>2. Len(s) + 1 \in 1..Len(t)
            BY <1>1
        <3> QED
            BY <1>1, <3>1, <3>2
    <2> QED
        BY <2>1, <2>2
<1>7. ASSUME NEW i \in 1..Len(t), NEW j \in 1..Len(t), Data(t[i]), Data(t[j]), i < j
      PROVE  Rank(t[i]) < Rank(t[j])
    <2>1. i \in 1..Len(s)
        BY <1>1, <1>7
    <2>2. CASE j \in 1..Len(s)
        BY <1>1, <1>7, <2>1, <2>2 DEF InOrder
    <2>3. CASE j = Len(s) + 1
        <3>1. Rank(t[i]) < q
            BY <1>1, <1>7, <2>1 DEF InOrder
        <3> QED
            BY <1>1, <1>7, <2>3, <3>1
    <2> QED
        BY <1>2, <2>2, <2>3
<1>8. InOrder(t, f, p, u)
    <2>1. p <= u
        BY <1>0, <1>4
    <2> QED
        BY <1>5, <1>6, <1>7, <2>1 DEF InOrder
<1> QED
    BY <1>8

LEMMA OrderTwo ==
    ASSUME NEW s \in Seq(Message), NEW f, NEW p \in Nat, NEW q \in Nat, InOrder(s, f, p, q),
           NEW m \in Message, Data(m), FileOf(m) = f, Rank(m) = q,
           NEW e \in Message, Data(e), FileOf(e) = f, Rank(e) = q + 1
    PROVE  InOrder(Append(Append(s, m), e), f, p, q + 2)
<1> PICK t : t = Append(s, m)
    OBVIOUS
<1> PICK r : r = q + 1
    OBVIOUS
<1>1. t \in Seq(Message) /\ r \in Nat /\ Rank(e) = r
    BY AppendProperties
<1>2. InOrder(t, f, p, IF Data(m) THEN q + 1 ELSE q)
    BY OrderAppend
<1>3. InOrder(t, f, p, r)
    BY <1>2, Zenon
<1>4. InOrder(Append(t, e), f, p, IF Data(e) THEN r + 1 ELSE r)
    BY <1>1, <1>3, OrderAppend
<1>5. InOrder(Append(t, e), f, p, r + 1)
    BY <1>4, Zenon
<1>6. r + 1 = q + 2
    OBVIOUS
<1> QED
    BY <1>5, <1>6

LEMMA OrderTail ==
    ASSUME NEW s \in Seq(Message), s # <<>>, NEW f, NEW p \in Nat, NEW q \in Nat,
           InOrder(s, f, p, q)
    PROVE  /\ Data(Head(s)) => FileOf(Head(s)) = f /\ Rank(Head(s)) = p /\ p < q
           /\ InOrder(Tail(s), f, IF Data(Head(s)) THEN p + 1 ELSE p, q)
<1> PICK t : t = Tail(s)
    OBVIOUS
<1> PICK h : h = Head(s)
    OBVIOUS
<1> PICK v : v = IF Data(h) THEN p + 1 ELSE p
    OBVIOUS
<1>1. /\ t \in Seq(Message) /\ Len(t) = Len(s) - 1 /\ s[1] = h
      /\ \A i \in 1..Len(t) : t[i] = s[i + 1]
    BY HeadTailProperties
<1>2. Len(s) \in Nat \ {0} /\ Len(t) \in Nat /\ 1 \in 1..Len(s)
    BY <1>1, EmptySeq, LenProperties
<1>3. \A j \in 1..Len(s) : j = 1 \/ (j - 1 \in 1..Len(t) /\ t[j - 1] = s[j])
    BY <1>1, <1>2
<1>4. \A i \in 1..Len(s) : Data(s[i]) => Rank(s[i]) \in Nat
    BY ElementOfSeq, RankType
<1>5. ASSUME Data(h) PROVE FileOf(h) = f /\ Rank(h) = p /\ p < q
    <2>1. FileOf(h) = f /\ p <= Rank(h) /\ Rank(h) < q /\ Rank(h) \in Nat
        BY <1>1, <1>2, <1>4, <1>5 DEF InOrder
    <2>2. p \in p..(q - 1)
        BY <2>1
    <2>3. PICK i \in 1..Len(s) : Data(s[i]) /\ Rank(s[i]) = p
        BY <2>2 DEF InOrder
    <2>4. CASE i = 1
        BY <1>1, <2>1, <2>3, <2>4
    <2>5. CASE i # 1
        <3>1. 1 < i
            BY <1>2, <2>5
        <3>2. Rank(h) < p
            BY <1>1, <1>2, <1>5, <2>3, <3>1 DEF InOrder
        <3> QED
            BY <2>1, <3>2
    <2> QED
        BY <2>4, <2>5
<1>6. ASSUME NEW i \in 1..Len(t), Data(t[i])
      PROVE  FileOf(t[i]) = f /\ v <= Rank(t[i]) /\ Rank(t[i]) < q
    <2>1. i + 1 \in 1..Len(s) /\ t[i] = s[i + 1] /\ 1 < i + 1
        BY <1>1, <1>2
    <2>2. FileOf(t[i]) = f /\ p <= Rank(t[i]) /\ Rank(t[i]) < q /\ Rank(t[i]) \in Nat
        BY <1>4, <1>6, <2>1 DEF InOrder
    <2>3. Data(h) => p < Rank(t[i])
        BY <1>1, <1>2, <1>5, <1>6, <2>1 DEF InOrder
    <2> QED
        BY <2>2, <2>3
<1>7. ASSUME NEW r \in v..(q - 1)
      PROVE  \E i \in 1..Len(t) : Data(t[i]) /\ Rank(t[i]) = r
    <2>1. r \in p..(q - 1)
        OBVIOUS
    <2>2. PICK j \in 1..Len(s) : Data(s[j]) /\ Rank(s[j]) = r
        BY <2>1 DEF InOrder
    <2>3. j # 1
        BY <1>1, <1>5, <2>2
    <2> QED
        BY <1>3, <2>2, <2>3
<1>8. ASSUME NEW i \in 1..Len(t), NEW j \in 1..Len(t), Data(t[i]), Data(t[j]), i < j
      PROVE  Rank(t[i]) < Rank(t[j])
    <2>1. i + 1 \in 1..Len(s) /\ j + 1 \in 1..Len(s) /\ i + 1 < j + 1
        BY <1>1, <1>2, <1>8
    <2> QED
        BY <1>1, <1>8, <2>1 DEF InOrder
<1>9. InOrder(t, f, v, q)
    <2>1. p <= q
        BY DEF InOrder
    <2>2. v <= q
        BY <1>5, <2>1
    <2> QED
        BY <1>6, <1>7, <1>8, <2>2 DEF InOrder
<1> QED
    BY <1>5, <1>9

\* What the parts of the invariant are about.
LEMMA OneParts ==
    ASSUME TransferInv, Begun, Collects
    PROVE  /\ OwnerType /\ DownType /\ net \o buf \in Seq(Message)
           /\ Len(sends) \in Nat /\ Len(downloads) \in Nat
           /\ sends = <<>> <=> Len(sends) = 0
           /\ saving = <<>> <=> Len(saving) = 0
           /\ sends # <<>> => /\ Len(sends) \in 1..Len(sends) /\ sends[Len(sends)] \in Loop
                              /\ File \in Files /\ Size[File] \in Nat /\ End = Size[File] + 2
           /\ sends = <<>> => End = 0 /\ ToSend = 0
           /\ receiver # NoReceiver =>
                /\ receiver \in Collected /\ Len(receiver.chunks) \in Nat
                /\ receiver.chunks \in Seq(ChunkOf) /\ receiver.name = File
                /\ Len(downloads) = Len(sends) /\ sends # <<>>
           /\ End \in Nat /\ ToSend \in Nat /\ ToReceive \in Nat
<1>1. /\ OwnerType /\ DownType /\ net \o buf \in Seq(Message)
      /\ Len(sends) \in Nat /\ Len(downloads) \in Nat
      /\ sends = <<>> <=> Len(sends) = 0
      /\ saving = <<>> <=> Len(saving) = 0
    BY InvSplit, ConcatProperties, LenProperties, EmptySeq DEF OwnerType, DownType
<1>2. sends # <<>> => /\ Len(sends) \in 1..Len(sends) /\ sends[Len(sends)] \in Loop
                      /\ File \in Files /\ Size[File] \in Nat /\ End = Size[File] + 2
    <2> SUFFICES ASSUME sends # <<>> PROVE <1>2!2
        OBVIOUS
    <2>1. Len(sends) \in 1..Len(sends)
        BY <1>1
    <2>2. sends[Len(sends)] \in Loop
        BY <1>1, <2>1, ElementOfSeq DEF OwnerType
    <2>3. File \in Files
        BY <2>2 DEF File, Loop
    <2> QED
        BY <2>1, <2>2, <2>3, SizeAssumption DEF End
<1>3. sends = <<>> => End = 0 /\ ToSend = 0
    BY DEF End, ToSend
<1>4. receiver # NoReceiver =>
        /\ receiver \in Collected /\ Len(receiver.chunks) \in Nat
        /\ receiver.chunks \in Seq(ChunkOf) /\ receiver.name = File
        /\ Len(downloads) = Len(sends) /\ sends # <<>>
    <2> SUFFICES ASSUME receiver # NoReceiver PROVE <1>4!2
        OBVIOUS
    <2>1. receiver \in Collected
        BY <1>1 DEF DownType
    <2>2. receiver.chunks \in Seq(ChunkOf) /\ receiver.name = File
        BY <2>1 DEF Collected, Collects
    <2>3. Len(receiver.chunks) \in Nat
        BY <2>2, LenProperties
    <2>4. Len(downloads) = Len(sends) /\ Len(sends) # 0
        BY DEF Begun, Collects
    <2> QED
        BY <1>1, <2>1, <2>2, <2>3, <2>4
<1>5. End \in Nat
    BY <1>2, <1>3
<1>6. ToSend \in Nat
    BY <1>2, <1>3, <1>5 DEF ToSend, Loop
<1>7. ToReceive \in Nat
    BY <1>4, <1>5 DEF ToReceive
<1> QED
    BY <1>1, <1>2, <1>3, <1>4, <1>5, <1>6, <1>7

\* Nothing changes but the lists, the manifests under way and the timing.
LEMMA OneSame ==
    ASSUME TransferInv, OneInv, UNCHANGED <<sends, receiver, active, downloads, saving, saved>>,
           asked' = asked \/ asked' = <<>>,
           remote' # {} => remote # {} \/ listening, listening => listening',
           net' # <<>> => open', open' => open /\ InOrder((net \o buf)', File, ToReceive, ToSend)
    PROVE  OneInv'
<1>1. File' = File /\ End' = End
    BY DEF File, End
<1>2. ToSend' = ToSend /\ ToReceive' = ToReceive
    BY <1>1 DEF ToSend, ToReceive
<1>3. Flows'
    BY <1>1, <1>2 DEF Flows
<1>4. Alone' /\ Begun'
    BY DEF OneInv, Alone, Begun
<1>5. Collects' /\ Complete'
    BY <1>1 DEF OneInv, Collects, Complete, SavedIsTheFile
<1> QED
    BY <1>3, <1>4, <1>5 DEF OneInv

\* A loop that goes on is the last one, and what it sends comes next.
LEMMA OnePut ==
    ASSUME TransferInv, OneInv, NEW k \in 1..Len(sends), sends[k].at \in {"reading", "waiting"},
           NEW b \in Seq(Message), PutChunk(k, b), UNCHANGED <<open, asked, downVars>>,
           net' # <<>> => open',
           LET f == sends[k].file
               n == sends[k].sent + 1
               c == Append(net \o buf, Chunk(f, n))
           IN  (net \o buf)' = IF n = Size[f] THEN Append(c, FileEnd(f)) ELSE c
    PROVE  OneInv'
<1> PICK f : f = sends[k].file
    OBVIOUS
<1> PICK n : n = sends[k].sent + 1
    OBVIOUS
<1> PICK s : s = net \o buf
    OBVIOUS
<1> PICK c : c = Append(s, Chunk(f, n))
    OBVIOUS
<1>0. /\ Alone /\ Begun /\ Flows /\ Collects /\ Complete
      /\ UNCHANGED <<listening, remote, receiver, active, downloads, saving, saved>>
    BY DEF OneInv, downVars
<1>1. /\ Len(sends') = Len(sends) /\ sends'[k].file = f /\ sends'[k].sent = n
      /\ \A j \in 1..Len(sends) : j # k => sends'[j] = sends[j]
      /\ f \in Files /\ Size[f] \in Nat /\ n \in 1..Size[f]
      /\ sends'[k].at = IF n = Size[f] THEN "done" ELSE "reading"
      /\ sends' \in Seq(Loop)
    BY PutProperties
<1>2. /\ s \in Seq(Message) /\ Len(sends) \in Nat /\ (sends = <<>> <=> Len(sends) = 0)
      /\ End \in Nat /\ ToSend \in Nat /\ ToReceive \in Nat
    BY <1>0, OneParts
<1>3. k = Len(sends) /\ sends # <<>> /\ asked = <<>>
    <2>1. sends[k].at # "done"
        OBVIOUS
    <2>2. ~(k < Len(sends)) /\ asked = <<>>
        BY <1>0, <2>1 DEF Alone
    <2> QED
        BY <1>2, <2>2
<1>4. sends' # <<>>
    BY <1>1, <1>2, <1>3, EmptySeq
<1>5. File = f /\ File' = f /\ End = Size[f] + 2 /\ End' = End
    BY <1>1, <1>3, <1>4 DEF File, End
<1>6. ToSend = n /\ ToSend' = IF n = Size[f] THEN n + 2 ELSE n + 1
    BY <1>1, <1>3, <1>4, <1>5 DEF ToSend
<1>7. ToReceive' = ToReceive
    BY <1>0, <1>1, <1>5 DEF ToReceive
<1>8. Flows'
    <2> SUFFICES ASSUME open' PROVE InOrder((net \o buf)', f, ToReceive, ToSend')
        BY <1>5, <1>7 DEF Flows
    <2> PICK p : p = ToReceive
        OBVIOUS
    <2>1. InOrder(s, f, p, n) /\ p \in Nat /\ n \in Nat
        BY <1>0, <1>1, <1>2, <1>5, <1>6 DEF Flows
    <2>2. /\ Chunk(f, n) \in Message /\ Data(Chunk(f, n))
          /\ FileOf(Chunk(f, n)) = f /\ Rank(Chunk(f, n)) = n
          /\ FileEnd(f) \in Message /\ Data(FileEnd(f))
          /\ FileOf(FileEnd(f)) = f /\ Rank(FileEnd(f)) = Size[f] + 1
        BY <1>1, RankOf
    <2>4. InOrder(c, f, p, n + 1) /\ c \in Seq(Message)
        BY <1>2, <2>1, <2>2, OrderAppend, AppendProperties
    <2>5. n = Size[f] => InOrder(Append(c, FileEnd(f)), f, p, n + 2)
        BY <1>2, <2>1, <2>2, OrderTwo
    <2> QED
        BY <1>6, <2>4, <2>5
<1>9. Alone' /\ Begun'
    BY <1>0, <1>1, <1>3 DEF Alone, Begun
<1>10. Collects' /\ Complete'
    BY <1>0, <1>5 DEF Collects, Complete, SavedIsTheFile
<1> QED
    BY <1>8, <1>9, <1>10 DEF OneInv

LEMMA OneInit == Init => OneInv
<1> SUFFICES ASSUME Init PROVE OneInv
    OBVIOUS
<1>1. /\ sends = <<>> /\ Len(sends) = 0 /\ downloads = <<>> /\ Len(downloads) = 0
      /\ asked = <<>> /\ remote = {} /\ net = <<>> /\ receiver = NoReceiver
      /\ saving = <<>> /\ saved = {} /\ active = 0
    BY EmptySeq DEF Init
<1>2. Alone /\ Begun /\ Collects
    BY <1>1 DEF Alone, Begun, Collects
<1>3. Complete
    BY <1>1 DEF Complete, SavedIsTheFile
<1>4. ToReceive = 0 /\ ToSend = 0
    BY <1>1 DEF ToReceive, ToSend, End
<1>5. /\ net \o buf \in Seq(Message) /\ Len(net \o buf) = 1
      /\ (net \o buf)[1].type = "manifest"
    BY MessageType, ConcatProperties DEF Init
<1>6. Flows
    <2> PICK p : p = 0
        OBVIOUS
    <2>1. p \in Nat /\ \A i \in 1..Len(net \o buf) : ~Data((net \o buf)[i])
        BY <1>5 DEF Data
    <2>2. InOrder(net \o buf, File, p, p)
        BY <1>5, <2>1, OrderNone
    <2> QED
        BY <1>4, <2>2 DEF Flows
<1> QED
    BY <1>2, <1>3, <1>6 DEF OneInv

LEMMA OneShare ==
    ASSUME TransferInv, OneInv, NEW S \in SUBSET Files, Share(S)
    PROVE  OneInv'
<1>1. /\ UNCHANGED <<sends, receiver, active, downloads, saving, saved>>
      /\ UNCHANGED <<open, asked, remote, listening, net>>
    BY DEF Share, downVars
<1>2. /\ OneInv /\ Flows /\ Alone /\ ToSend \in Nat /\ ToReceive \in Nat
    BY OneParts DEF OneInv
<1>3. Manifest(S) \in Message /\ ~Data(Manifest(S))
    BY MessageType DEF Data
<1>4. open => InOrder((net \o buf)', File, ToReceive, ToSend)
    <2> SUFFICES ASSUME open PROVE InOrder((net \o buf)', File, ToReceive, ToSend)
        OBVIOUS
    <2> PICK f : f = File
        OBVIOUS
    <2> PICK p : p = ToReceive
        OBVIOUS
    <2> PICK q : q = ToSend
        OBVIOUS
    <2> PICK m : m = Manifest(S)
        OBVIOUS
    <2>1. net \o buf \in Seq(Message) /\ (net \o buf)' = Append(net \o buf, m)
        BY StreamShare
    <2>2. InOrder(net \o buf, f, p, q) /\ p \in Nat /\ q \in Nat
        BY <1>2 DEF Flows
    <2>3. InOrder(Append(net \o buf, m), f, p, IF Data(m) THEN q + 1 ELSE q)
        BY <1>3, <2>1, <2>2, OrderAppend
    <2> QED
        BY <1>3, <2>1, <2>3, Zenon
<1>5. net' # <<>> => open'
    BY <1>1, <1>2 DEF Alone
<1> QED
    BY <1>1, <1>2, <1>4, <1>5, OneSame

LEMMA OneRequested ==
    ASSUME TransferInv, OneInv, HandleFileRequest
    PROVE  OneInv'
<1> PICK f : f = Head(asked)
    OBVIOUS
<1> PICK s : s = net \o buf
    OBVIOUS
<1> PICK c : c = Append(s, FileStart(f))
    OBVIOUS
<1>0. /\ Alone /\ Begun /\ Flows /\ Collects /\ Complete
      /\ UNCHANGED <<listening, remote, receiver, active, downloads, saving, saved, open, net>>
      /\ asked # <<>> /\ asked' = Tail(asked) /\ open
    BY DEF OneInv, downVars, HandleFileRequest
<1>1. /\ s \in Seq(Message) /\ Len(sends) \in Nat /\ (sends = <<>> <=> Len(sends) = 0)
      /\ End \in Nat /\ OwnerType
      /\ sends # <<>> => Len(sends) \in 1..Len(sends)
    BY <1>0, OneParts
<1>2. /\ \A k \in 1..Len(sends) : sends[k].at = "done"
      /\ Len(downloads) = Len(sends) /\ receiver = NoReceiver /\ listening
      /\ active = 0 /\ saving = <<>>
    BY <1>0 DEF Alone, Collects
<1>3. asked' = <<>>
    <2>1. Len(asked) = 1
        BY <1>0 DEF Alone
    <2>2. asked' \in Seq(Files) /\ Len(asked') = Len(asked) - 1
        BY <1>1, RequestProperties
    <2> QED
        BY <2>1, <2>2, EmptySeq
<1>4. ToSend = End /\ ToReceive = End
    BY <1>1, <1>2 DEF ToSend, ToReceive
<1>5. CASE (net \o buf)' = s /\ sends' = sends
    <2>1. open' => open /\ InOrder((net \o buf)', File, ToReceive, ToSend)
        BY <1>0, <1>5 DEF Flows
    <2>2. net' # <<>> => open'
        BY <1>0
    <2> QED
        BY <1>0, <1>3, <1>5, <2>1, <2>2, OneSame
<1>6. CASE /\ c \in Seq(Message) /\ f \in Files
           /\ (net \o buf)' = IF Size[f] = 0 THEN Append(c, FileEnd(f)) ELSE c
           /\ sends' = Append(sends, [file |-> f, sent |-> 0,
                                      at |-> IF Size[f] = 0 THEN "done" ELSE "reading"])
    <2> PICK r : r = [file |-> f, sent |-> 0, at |-> IF Size[f] = 0 THEN "done" ELSE "reading"]
        OBVIOUS
    <2>1. r \in Loop /\ r.file = f /\ r.sent = 0 /\ r.at = IF Size[f] = 0 THEN "done" ELSE "reading"
        BY <1>6 DEF Loop
    <2>2. /\ Len(sends') = Len(sends) + 1 /\ sends'[Len(sends) + 1] = r
          /\ \A k \in 1..Len(sends) : sends'[k] = sends[k]
          /\ sends' \in Seq(Loop)
        BY <1>1, <1>6, <2>1, AppendProperties DEF OwnerType
    <2>3. sends' # <<>>
        BY <1>1, <2>2, EmptySeq
    <2>4. File' = f /\ End' = Size[f] + 2 /\ Size[f] \in Nat
        BY <1>1, <1>6, <2>1, <2>2, <2>3, SizeAssumption DEF File, End
    <2>5. ToSend' = IF Size[f] = 0 THEN 2 ELSE 1
        BY <2>1, <2>2, <2>3, <2>4 DEF ToSend
    <2>6. ToReceive' = 0
        BY <1>0, <1>1, <1>2, <2>2 DEF ToReceive
    <2>7. InOrder(c, f, 0, 1)
        <3>1. \A i \in 1..Len(s) : ~Data(s[i])
            <4> PICK e : e = End
                OBVIOUS
            <4>1. InOrder(s, File, e, e) /\ e \in Nat
                BY <1>0, <1>1, <1>4 DEF Flows
            <4> QED
                BY <1>1, <4>1, NoneInOrder
        <3>2. InOrder(s, f, 0, 0)
            BY <1>1, <3>1, OrderNone
        <3> PICK m : m = FileStart(f)
            OBVIOUS
        <3>3. m \in Message /\ Data(m) /\ FileOf(m) = f /\ Rank(m) = 0
            BY <1>6, RankOf, Zenon
        <3> PICK p : p = 0
            OBVIOUS
        <3>4. p \in Nat /\ InOrder(s, f, p, p) /\ Rank(m) = p
            BY <3>2, <3>3
        <3>5. InOrder(Append(s, m), f, p, IF Data(m) THEN p + 1 ELSE p)
            BY <1>1, <3>3, <3>4, OrderAppend
        <3> QED
            BY <3>3, <3>5
    <2>8. Size[f] = 0 => InOrder(Append(c, FileEnd(f)), f, 0, 2)
        <3> PICK e : e = FileEnd(f)
            OBVIOUS
        <3>1. e \in Message /\ Data(e) /\ FileOf(e) = f /\ Rank(e) = Size[f] + 1
            BY <1>6, RankOf, Zenon
        <3> SUFFICES ASSUME Size[f] = 0 PROVE InOrder(Append(c, e), f, 0, 2)
            OBVIOUS
        <3> PICK p : p = 0
            OBVIOUS
        <3> PICK q : q = 1
            OBVIOUS
        <3>2. p \in Nat /\ q \in Nat /\ InOrder(c, f, p, q) /\ Rank(e) = q
            BY <2>7, <3>1
        <3>3. InOrder(Append(c, e), f, p, IF Data(e) THEN q + 1 ELSE q)
            BY <1>6, <3>1, <3>2, OrderAppend
        <3> QED
            BY <3>1, <3>3
    <2>9. Flows'
        BY <1>6, <2>4, <2>5, <2>6, <2>7, <2>8 DEF Flows
    <2>10. Alone' /\ Begun'
        <3>1. ASSUME NEW k \in 1..Len(sends'), k < Len(sends')
              PROVE  sends'[k].at = "done"
            <4>1. k \in 1..Len(sends)
                BY <1>1, <2>2, <3>1
            <4> QED
                BY <1>2, <2>2, <4>1
        <3>2. Alone'
            BY <1>0, <1>2, <1>3, <3>1 DEF Alone
        <3> QED
            BY <1>0, <1>1, <1>2, <2>2, <3>2 DEF Begun
    <2>11. Collects' /\ Complete'
        BY <1>0, <1>2 DEF Collects, Complete, SavedIsTheFile
    <2> QED
        BY <2>9, <2>10, <2>11 DEF OneInv
<1> QED
    BY <1>5, <1>6, StreamRequest

LEMMA OneSliceRead ==
    ASSUME TransferInv, OneInv, NEW k, SliceRead(k)
    PROVE  OneInv'
<1>0. /\ Alone /\ Begun /\ Flows /\ Collects /\ Complete
      /\ UNCHANGED <<open, asked, downVars, net>>
      /\ UNCHANGED <<listening, remote, receiver, active, downloads, saving, saved>>
    BY DEF OneInv, downVars, SliceRead
<1>1. k \in 1..Len(sends) /\ sends[k].at = "reading" /\ (net' # <<>> => open')
    BY <1>0, StreamSlice DEF Alone
<1>2. /\ OwnerType /\ Len(sends) \in Nat /\ (sends = <<>> <=> Len(sends) = 0)
    BY <1>0, OneParts
<1>3. CASE PutChunk(k, buf)
    <2>1. LET f == sends[k].file
              n == sends[k].sent + 1
              c == Append(net \o buf, Chunk(f, n))
          IN  (net \o buf)' = IF n = Size[f] THEN Append(c, FileEnd(f)) ELSE c
        BY <1>1, <1>2, <1>3, <1>0, StreamPut DEF OwnerType
    <2> QED
        BY <1>0, <1>1, <1>2, <1>3, <2>1, OnePut DEF OwnerType
<1>4. CASE \E a \in {"waiting", "failed"} :
            sends' = [sends EXCEPT ![k].at = a] /\ UNCHANGED buf
    <2>1. PICK a \in {"waiting", "failed"} : sends' = [sends EXCEPT ![k].at = a]
        BY <1>4
    <2>2. /\ Len(sends') = Len(sends) /\ sends'[k].file = sends[k].file
          /\ sends'[k].sent = sends[k].sent /\ sends'[k].at = a
          /\ \A j \in 1..Len(sends) : j # k => sends'[j] = sends[j]
          /\ sends' \in Seq(Loop)
        <3>1. sends[k] \in Loop
            BY <1>1, <1>2, ElementOfSeq DEF OwnerType
        <3> PICK r : r = [sends[k] EXCEPT !.at = a]
            OBVIOUS
        <3>2. r \in Loop /\ r.file = sends[k].file /\ r.sent = sends[k].sent /\ r.at = a
            BY <2>1, <3>1 DEF Loop
        <3>3. sends' = [sends EXCEPT ![k] = r]
            BY <2>1
        <3> QED
            BY <1>1, <1>2, <3>2, <3>3, ExceptSeq DEF OwnerType
    <2>3. k = Len(sends) /\ sends # <<>> /\ asked = <<>>
        <3>1. ~(k < Len(sends)) /\ asked = <<>>
            BY <1>0, <1>1 DEF Alone
        <3> QED
            BY <1>1, <1>2, <3>1
    <2>4. sends' # <<>>
        BY <1>1, <1>2, <2>2, EmptySeq
    <2>5. File' = File /\ End' = End
        BY <2>2, <2>3, <2>4 DEF File, End
    <2>6. ToSend' = ToSend /\ ToReceive' = ToReceive
        BY <1>0, <1>1, <2>2, <2>3, <2>4, <2>5 DEF ToSend, ToReceive
    <2>7. Flows'
        BY <1>0, <1>4, <2>5, <2>6 DEF Flows
    <2>8. Alone' /\ Begun'
        BY <1>0, <2>2, <2>3 DEF Alone, Begun
    <2>9. Collects' /\ Complete'
        BY <1>0, <2>5 DEF Collects, Complete, SavedIsTheFile
    <2> QED
        BY <2>7, <2>8, <2>9 DEF OneInv
<1> QED
    BY <1>3, <1>4 DEF SliceRead

LEMMA OneTransmit ==
    ASSUME TransferInv, OneInv, Transmit
    PROVE  OneInv'
<1>0. /\ Alone /\ Flows /\ UNCHANGED <<open, asked, downVars>> /\ open
      /\ UNCHANGED <<listening, remote, receiver, active, downloads, saving, saved>>
      /\ net' # <<>> => open'
    BY DEF OneInv, downVars, Transmit
<1>1. CASE (net \o buf)' = net \o buf /\ UNCHANGED sends
    <2>1. open' => open /\ InOrder((net \o buf)', File, ToReceive, ToSend)
        BY <1>0, <1>1 DEF Flows
    <2> QED
        BY <1>0, <1>1, <2>1, OneSame
<1> QED
    BY <1>0, <1>1, StreamTransmit, OnePut

LEMMA OneClose ==
    ASSUME TransferInv, OneInv, Close
    PROVE  OneInv'
<1>1. /\ UNCHANGED <<sends, receiver, active, downloads, saving, saved, remote, listening>>
      /\ asked' = <<>> /\ net' = <<>> /\ ~open'
    BY DEF Close, downVars, ownerVars
<1> QED
    BY <1>1, OneSame

LEMMA CollectedIsThere == \A r \in Collected : r # NoReceiver
<1>1. DOMAIN NoReceiver = {"chunks"} /\ "name" \notin {"chunks"}
    BY DEF NoReceiver
<1>2. \A r \in Collected : DOMAIN r = {"name", "chunks"}
    BY DEF Collected
<1> QED
    BY <1>1, <1>2

\* A message arrives: when it is one of a file, it is the next one.
LEMMA OneArrives ==
    ASSUME TransferInv, OneInv, NEW t, Incoming(t)
    PROVE  /\ OwnerType /\ DownType /\ Head(net) \in Message /\ Head(net).type = t
           /\ UNCHANGED <<open, sends, asked, listening>>
           /\ Data(Head(net)) =>
                /\ FileOf(Head(net)) = File /\ Rank(Head(net)) = ToReceive
                /\ sends # <<>> /\ File \in Files /\ Size[File] \in Nat
                /\ End = Size[File] + 2 /\ asked = <<>>
           /\ (net' # <<>> => open') /\ (net # <<>> => open)
           /\ InOrder((net \o buf)', File,
                      IF Data(Head(net)) THEN ToReceive + 1 ELSE ToReceive, ToSend)
<1> PICK h : h = Head(net)
    OBVIOUS
<1> PICK p : p = ToReceive
    OBVIOUS
<1> PICK q : q = ToSend
    OBVIOUS
<1> PICK s : s = net \o buf
    OBVIOUS
<1>1. /\ Alone /\ Begun /\ Flows /\ Collects /\ OwnerType /\ DownType /\ net # <<>> /\ open
      /\ p \in Nat /\ q \in Nat /\ Len(sends) \in Nat /\ (sends = <<>> <=> Len(sends) = 0)
      /\ sends = <<>> => q = 0
      /\ sends # <<>> => File \in Files /\ Size[File] \in Nat /\ End = Size[File] + 2
    BY OneParts DEF OneInv, Incoming, Alone
<1>2. /\ s \in Seq(Message) /\ s # <<>> /\ Head(s) = h /\ h.type = t /\ h \in Message
      /\ (net \o buf)' = Tail(s) /\ UNCHANGED <<open, sends, asked, listening>>
    BY StreamIncoming DEF ownerVars
<1>3. InOrder(s, File, p, q)
    BY <1>1 DEF Flows
<1>4. /\ Data(h) => FileOf(h) = File /\ Rank(h) = p /\ p < q
      /\ InOrder(Tail(s), File, IF Data(h) THEN p + 1 ELSE p, q)
    BY <1>1, <1>2, <1>3, OrderTail
<1>5. ASSUME Data(h) PROVE sends # <<>> /\ asked = <<>>
    <2>1. p < q
        BY <1>4, <1>5
    <2>2. sends # <<>>
        BY <1>1, <2>1
    <2>3. CASE asked # <<>>
        <3>1. /\ sends[Len(sends)].at = "done"
              /\ Len(downloads) = Len(sends) /\ receiver = NoReceiver
            BY <1>1, <2>2, <2>3 DEF Alone
        <3>2. p = End /\ q = End
            BY <1>1, <3>1 DEF ToReceive, ToSend
        <3> QED
            BY <1>1, <2>1, <3>2
    <2> QED
        BY <2>2, <2>3
<1> QED
    BY <1>1, <1>2, <1>4, <1>5

\* Which message it is says what the downloader is at.
LEMMA ReceiveParts ==
    ASSUME TransferInv, OneInv, sends # <<>>
    PROVE  /\ ToReceive = 0 => /\ Len(sends) = Len(downloads) + 1
                               /\ receiver = NoReceiver /\ saving = <<>>
           /\ ToReceive \in 1..(Size[File] + 1) =>
                /\ receiver # NoReceiver /\ saving = <<>> /\ receiver.name = File
                /\ ToReceive = Len(receiver.chunks) + 1
           /\ ToReceive = End => receiver = NoReceiver \/ saving # <<>>
<1>1. /\ Begun /\ Collects /\ Len(sends) \in Nat /\ Len(downloads) \in Nat
      /\ Size[File] \in Nat /\ End = Size[File] + 2
      /\ receiver # NoReceiver => /\ Len(receiver.chunks) \in Nat /\ receiver.name = File
                                  /\ Len(downloads) = Len(sends)
    BY OneParts DEF OneInv
<1>2. receiver # NoReceiver => Len(receiver.chunks) <= Size[File]
    BY <1>1 DEF Collects
<1>3. CASE Len(downloads) < Len(sends)
    <2>1. Len(sends) = Len(downloads) + 1 /\ receiver = NoReceiver /\ saving = <<>>
        BY <1>1, <1>3 DEF Begun
    <2> QED
        BY <1>1, <1>3, <2>1 DEF ToReceive
<1>4. CASE ~(Len(downloads) < Len(sends)) /\ receiver # NoReceiver /\ saving = <<>>
    <2>1. ToReceive = Len(receiver.chunks) + 1
        BY <1>4 DEF ToReceive
    <2> QED
        BY <1>1, <1>2, <1>4, <2>1
<1>5. CASE ~(Len(downloads) < Len(sends)) /\ ~(receiver # NoReceiver /\ saving = <<>>)
    <2>1. ToReceive = End
        BY <1>5, Zenon DEF ToReceive
    <2> QED
        BY <1>1, <1>5, <2>1
<1> QED
    BY <1>3, <1>4, <1>5

LEMMA OneManifest ==
    ASSUME TransferInv, OneInv, GetManifest \/ Unheard
    PROVE  OneInv'
<1>1. PICK t : Incoming(t) /\ (t = "manifest" \/ Unheard)
    BY DEF GetManifest, Unheard
<1>2. /\ UNCHANGED <<receiver, active, downloads, saving, saved>>
      /\ remote' = remote \/ listening
    BY DEF GetManifest, Unheard
<1>3. ~Data(Head(net))
    <2>1. CASE t = "manifest"
        BY <1>1, <2>1, OneArrives DEF Data
    <2>2. CASE Unheard
        <3>1. sends = <<>>
            BY <2>2 DEF OneInv, Alone, Unheard
        <3> QED
            BY <1>1, <3>1, OneArrives
    <2> QED
        BY <1>1, <2>1, <2>2
<1>4. /\ UNCHANGED <<open, sends, asked, listening>> /\ (net' # <<>> => open')
      /\ InOrder((net \o buf)', File, ToReceive, ToSend)
    BY <1>1, <1>3, OneArrives
<1> QED
    BY <1>2, <1>4, OneSame

\* What holds of the owner after a message of a file.
LEMMA OneArrived ==
    ASSUME TransferInv, OneInv, NEW t, Incoming(t), Data(Head(net)), listening,
           ToReceive' = ToReceive + 1
    PROVE  Flows' /\ Alone'
<1>1. /\ UNCHANGED <<open, sends, asked, listening>> /\ (net' # <<>> => open') /\ asked = <<>>
      /\ InOrder((net \o buf)', File, ToReceive + 1, ToSend)
    BY OneArrives
<1>2. File' = File /\ ToSend' = ToSend
    BY <1>1 DEF File, ToSend, End
<1>3. Flows'
    BY <1>1, <1>2 DEF Flows
<1>4. Alone'
    BY <1>1 DEF OneInv, Alone
<1> QED
    BY <1>3, <1>4

LEMMA OneStart ==
    ASSUME TransferInv, OneInv, GetFileStart
    PROVE  OneInv'
<1>1. /\ Incoming("file-start") /\ listening /\ UNCHANGED <<saving, saved>>
      /\ Alone /\ Begun /\ Collects /\ Complete
    BY DEF GetFileStart, OneInv
<1>2. /\ Head(net) \in Message /\ Data(Head(net)) /\ Head(net).type = "file-start"
      /\ OwnerType /\ DownType /\ UNCHANGED <<sends, asked>>
    <2>1. /\ Head(net) \in Message /\ Head(net).type = "file-start"
          /\ OwnerType /\ DownType /\ UNCHANGED <<sends, asked>>
        BY <1>1, OneArrives
    <2>2. Data(Head(net))
        BY <2>1 DEF Data
    <2> QED
        BY <2>1, <2>2
<1>3. Head(net).name = File /\ ToReceive = 0 /\ sends # <<>> /\ Size[File] \in Nat
    BY <1>1, <1>2, OneArrives, RankType
<1>4. Len(sends) = Len(downloads) + 1 /\ saving = <<>> /\ receiver = NoReceiver
    BY <1>3, ReceiveParts
<1> PICK n : n = Len(downloads) + 1
    OBVIOUS
<1>5. /\ receiver' \in Collected /\ receiver'.name = File /\ receiver'.chunks = <<>>
      /\ active' = n /\ Len(downloads') = n /\ Len(downloads) \in Nat
      /\ downloads'[n].name = File /\ downloads'[n].got = 0 /\ ~downloads'[n].done
      /\ \A k \in 1..Len(downloads) : downloads'[k] = downloads[k]
    BY <1>2, <1>3, StartProperties, LenProperties DEF DownType
<1>6. receiver' # NoReceiver /\ File' = File /\ saving' = <<>> /\ Len(sends') = n
    BY <1>1, <1>2, <1>4, <1>5, CollectedIsThere DEF File
<1>7. Len(receiver'.chunks) = 0
    BY <1>5
<1>8. ToReceive' = ToReceive + 1
    BY <1>3, <1>5, <1>6, <1>7 DEF ToReceive
<1>9. Flows' /\ Alone'
    BY <1>1, <1>2, <1>8, OneArrived
<1>10. Begun'
    BY <1>4, <1>5, <1>6 DEF Begun
<1>11. Collects'
    <2>1. Size[receiver'.name] \in Nat
        BY <1>3, <1>5
    <2> QED
        BY <1>5, <1>6, <1>7, <2>1 DEF Collects
<1>12. Complete'
    <2>1. ASSUME NEW k \in 1..Len(downloads'), downloads'[k].done
          PROVE  downloads'[k].got = Size[downloads'[k].name]
        <3>1. k \in 1..Len(downloads)
            BY <1>5, <2>1
        <3> QED
            BY <1>1, <1>5, <2>1, <3>1 DEF Complete
    <2> QED
        BY <1>1, <2>1 DEF Complete, SavedIsTheFile
<1> QED
    BY <1>9, <1>10, <1>11, <1>12 DEF OneInv

LEMMA OneChunk ==
    ASSUME TransferInv, OneInv, GetChunk
    PROVE  OneInv'
<1>1. /\ Incoming("chunk") /\ listening /\ UNCHANGED <<active, saving, saved>>
      /\ Alone /\ Begun /\ Collects /\ Complete
    BY DEF GetChunk, OneInv
<1>2. /\ Head(net) \in Message /\ Data(Head(net)) /\ Head(net).type = "chunk"
      /\ OwnerType /\ DownType /\ UNCHANGED <<sends, asked>>
    <2>1. /\ Head(net) \in Message /\ Head(net).type = "chunk"
          /\ OwnerType /\ DownType /\ UNCHANGED <<sends, asked>>
        BY <1>1, OneArrives
    <2>2. Data(Head(net))
        BY <2>1 DEF Data
    <2> QED
        BY <2>1, <2>2
<1> PICK p : p = ToReceive
    OBVIOUS
<1>3. Head(net).data = <<File, p>> /\ p \in 1..Size[File] /\ sends # <<>> /\ Size[File] \in Nat
    BY <1>1, <1>2, OneArrives, RankType
<1>4. receiver # NoReceiver /\ saving = <<>> /\ receiver.name = File /\ p = Len(receiver.chunks) + 1
    BY <1>3, ReceiveParts
<1>5. /\ receiver' \in Collected /\ receiver'.name = File
      /\ Len(receiver'.chunks) = p /\ receiver'.chunks[p] = <<File, p>>
      /\ \A i \in 1..(p - 1) : receiver'.chunks[i] = receiver.chunks[i]
      /\ Len(downloads') = Len(downloads)
      /\ \A k \in 1..Len(downloads) :
          /\ k # active => downloads'[k] = downloads[k]
          /\ k = active => /\ downloads'[k].name = downloads[k].name
                           /\ downloads'[k].done = downloads[k].done
                           /\ downloads'[k].got = p
    BY <1>2, <1>3, <1>4, ChunkProperties
<1>6. receiver' # NoReceiver /\ File' = File /\ saving' = <<>> /\ Len(sends') = Len(sends)
    BY <1>1, <1>2, <1>4, <1>5, CollectedIsThere DEF File
<1>7. /\ Len(downloads) = Len(sends) /\ Len(downloads) \in Nat
      /\ active = Len(downloads) /\ active \in 1..Len(downloads)
      /\ \A i \in 1..(p - 1) : receiver.chunks[i] = <<File, i>>
      /\ downloads[active].name = File /\ downloads[active].got = p - 1
    <2>1. /\ Len(downloads) = Len(sends) /\ Len(downloads) \in Nat
          /\ Len(receiver.chunks) = p - 1
        BY <1>1, <1>3, <1>4, LenProperties DEF Begun, DownType
    <2>2. active = Len(downloads) /\ active # 0
        BY <1>1, <1>4 DEF Collects
    <2> QED
        BY <1>1, <1>4, <2>1, <2>2 DEF Collects
<1>8. ToReceive' = ToReceive + 1
    BY <1>3, <1>5, <1>6, <1>7 DEF ToReceive
<1>9. Flows' /\ Alone'
    BY <1>1, <1>2, <1>8, OneArrived
<1>10. Begun'
    BY <1>5, <1>6, <1>7 DEF Begun
<1>11. Collects'
    <2>1. ASSUME NEW i \in 1..p PROVE receiver'.chunks[i] = <<File, i>>
        <3>1. CASE i = p
            BY <1>5, <3>1
        <3>2. CASE i # p
            BY <1>3, <1>5, <1>7, <3>2
        <3> QED
            BY <3>1, <3>2
    <2>2. active' = active /\ active' = Len(downloads') /\ active' # 0
        BY <1>1, <1>5, <1>7
    <2>3. downloads'[active'].name = File /\ downloads'[active'].got = p
        BY <1>5, <1>7, <2>2
    <2> QED
        BY <1>3, <1>5, <1>6, <2>1, <2>2, <2>3 DEF Collects
<1>12. Complete'
    <2>1. ASSUME NEW k \in 1..Len(downloads'), downloads'[k].done
          PROVE  downloads'[k].got = Size[downloads'[k].name]
        <3>1. k \in 1..Len(downloads)
            BY <1>5, <2>1
        <3>2. CASE k = active
            <4>1. p - 1 = Size[File]
                BY <1>1, <1>5, <1>7, <2>1, <3>1, <3>2 DEF Complete
            <4> QED
                BY <1>3, <4>1
        <3>3. CASE k # active
            BY <1>1, <1>5, <2>1, <3>1, <3>3 DEF Complete
        <3> QED
            BY <3>2, <3>3
    <2> QED
        BY <1>1, <2>1 DEF Complete, SavedIsTheFile
<1> QED
    BY <1>9, <1>10, <1>11, <1>12 DEF OneInv

\* The download is finished when the receiver has the whole file.
LEMMA OneFinish ==
    ASSUME TransferInv, OneInv, FinishDownload, receiver # NoReceiver,
           Len(receiver.chunks) = Size[receiver.name], saving' = <<>>,
           saved' = saved \/ saved' = saved \cup {receiver}, UNCHANGED sends
    PROVE  /\ ToReceive' = End /\ Begun' /\ Collects' /\ Complete'
<1>1. /\ Begun /\ Collects /\ Complete /\ OwnerType /\ DownType
      /\ receiver \in Collected /\ receiver.chunks \in Seq(ChunkOf)
      /\ Len(downloads) = Len(sends) /\ Len(downloads) \in Nat
    BY OneParts DEF OneInv
<1>2. /\ receiver' = NoReceiver /\ active' = 0 /\ Len(downloads') = Len(downloads)
      /\ \A k \in 1..Len(downloads) :
            /\ downloads'[k].name = downloads[k].name /\ downloads'[k].got = downloads[k].got
            /\ downloads'[k].done => downloads[k].done \/ k = active
    BY <1>1, FinishProperties
<1>3. ToReceive' = End
    <2>1. ToReceive' = End'
        BY <1>1, <1>2 DEF ToReceive
    <2> QED
        BY <2>1 DEF End, File
<1>4. Begun'
    BY <1>1, <1>2 DEF Begun
<1>5. Collects'
    BY <1>2 DEF Collects
<1>6. Complete'
    <2>1. ASSUME NEW k \in 1..Len(downloads'), downloads'[k].done
          PROVE  downloads'[k].got = Size[downloads'[k].name]
        <3>1. CASE k = active
            BY <1>1, <1>2, <3>1 DEF Collects
        <3>2. CASE k # active
            BY <1>1, <1>2, <2>1, <3>2 DEF Complete
        <3> QED
            BY <3>1, <3>2
    <2>2. receiver.chunks = Content(receiver.name)
        <3>1. /\ \A i \in 1..Len(receiver.chunks) : receiver.chunks[i] = <<receiver.name, i>>
              /\ receiver.chunks = [i \in 1..Len(receiver.chunks) |-> receiver.chunks[i]]
            BY <1>1, SMTT(30) DEF Collects
        <3> QED
            BY <3>1 DEF Content
    <2>3. SavedIsTheFile'
        BY <1>1, <2>2 DEF Complete, SavedIsTheFile
    <2> QED
        BY <2>1, <2>3 DEF Complete
<1> QED
    BY <1>3, <1>4, <1>5, <1>6

LEMMA OneEnd ==
    ASSUME TransferInv, OneInv, GetFileEnd
    PROVE  OneInv'
<1>1. /\ Incoming("file-end") /\ listening
      /\ Alone /\ Begun /\ Collects /\ Complete
    BY DEF GetFileEnd, OneInv
<1>2. /\ Head(net) \in Message /\ Data(Head(net)) /\ Head(net).type = "file-end"
      /\ OwnerType /\ DownType /\ UNCHANGED <<sends, asked>>
    <2>1. /\ Head(net) \in Message /\ Head(net).type = "file-end"
          /\ OwnerType /\ DownType /\ UNCHANGED <<sends, asked>>
        BY <1>1, OneArrives
    <2>2. Data(Head(net))
        BY <2>1 DEF Data
    <2> QED
        BY <2>1, <2>2
<1>3. /\ ToReceive = Size[File] + 1 /\ sends # <<>> /\ Size[File] \in Nat
      /\ End = ToReceive + 1
    <2> PICK h : h = Head(net)
        OBVIOUS
    <2>1. /\ FileOf(h) = File /\ Rank(h) = ToReceive /\ sends # <<>> /\ Size[File] \in Nat
          /\ End = Size[File] + 2
        BY <1>1, <1>2, OneArrives
    <2>2. Rank(h) = Size[FileOf(h)] + 1
        BY <1>2, RankType
    <2> QED
        BY <2>1, <2>2
<1>4. /\ receiver # NoReceiver /\ saving = <<>> /\ receiver.name = File
      /\ Size[File] = Len(receiver.chunks)
    <2>1. ToReceive \in 1..(Size[File] + 1)
        BY <1>3
    <2>2. /\ receiver # NoReceiver /\ saving = <<>> /\ receiver.name = File
          /\ ToReceive = Len(receiver.chunks) + 1
        BY <1>3, <2>1, ReceiveParts
    <2>3. Len(receiver.chunks) \in Nat
        BY <1>1, <2>2, OneParts
    <2> QED
        BY <1>3, <2>2, <2>3
<1>5. File' = File /\ End' = End
    BY <1>2 DEF File, End
<1>6. ASSUME saving' = Append(saving, receiver),
             UNCHANGED <<receiver, downloads, active, saved>>
      PROVE  OneInv'
    <2>1. saving' = <<receiver>> /\ saving' # <<>>
        BY <1>4, <1>6
    <2>2. Len(downloads) = Len(sends) /\ Len(sends) \in Nat
        BY <1>1, <1>4, OneParts
    <2>3. ToReceive' = ToReceive + 1
        BY <1>2, <1>3, <1>5, <1>6, <2>1, <2>2 DEF ToReceive
    <2>4. Flows' /\ Alone'
        BY <1>1, <1>2, <2>3, OneArrived
    <2>5. Begun'
        BY <1>2, <1>6, <2>2 DEF Begun
    <2>6. Collects' /\ Complete'
        BY <1>1, <1>4, <1>5, <1>6, <2>1 DEF Collects, Complete, SavedIsTheFile
    <2> QED
        BY <2>4, <2>5, <2>6 DEF OneInv
<1>7. ASSUME saved' = IF receiver = NoReceiver THEN saved ELSE saved \cup {receiver},
             FinishDownload, UNCHANGED saving
      PROVE  OneInv'
    <2>1. /\ saving' = <<>> /\ UNCHANGED sends /\ saved' = saved \cup {receiver}
          /\ Len(receiver.chunks) = Size[receiver.name]
        BY <1>2, <1>4, <1>7
    <2>2. ToReceive' = End /\ Begun' /\ Collects' /\ Complete'
        BY <1>4, <1>7, <2>1, OneFinish
    <2>3. Flows' /\ Alone'
        BY <1>1, <1>2, <1>3, <2>2, OneArrived
    <2> QED
        BY <2>2, <2>3 DEF OneInv
<1> QED
    BY <1>6, <1>7 DEF GetFileEnd

LEMMA OneDialog ==
    ASSUME TransferInv, OneInv, NEW i, Save(i) \/ CancelSave(i)
    PROVE  OneInv'
<1>1. /\ Alone /\ Begun /\ Flows /\ Collects /\ Complete /\ OwnerType /\ DownType
      /\ FinishDownload /\ saving' = RemoveAt(saving, i)
      /\ UNCHANGED <<open, sends, net, buf, asked, listening, remote>>
      /\ saved' = saved \/ saved' = saved \cup {saving[i]}
    BY OneParts DEF OneInv, Save, CancelSave, Dialog, ownerVars
<1>2. i \in 1..Len(saving)
    BY <1>1, DialogType
<1>3. /\ receiver # NoReceiver /\ saving = <<receiver>>
      /\ Len(receiver.chunks) = Size[receiver.name]
    <2>1. saving # <<>>
        BY <1>2
    <2> QED
        BY <1>1, <2>1 DEF Collects
<1>4. Len(saving) = 1 /\ i = 1 /\ saving[i] = receiver
    BY <1>2, <1>3
<1>5. saving' = <<>>
    <2>1. saving \in Seq(Collected)
        BY <1>1 DEF DownType
    <2>2. RemoveAt(saving, i) \in Seq(Collected) /\ Len(RemoveAt(saving, i)) = Len(saving) - 1
        BY <1>2, <2>1, RemoveAtProperties
    <2>3. saving' = RemoveAt(saving, i) /\ Len(saving) = 1
        BY <1>1, <1>4
    <2> PICK s : s = RemoveAt(saving, i)
        OBVIOUS
    <2>4. s \in Seq(Collected) /\ Len(s) = 0 /\ saving' = s
        BY <2>2, <2>3
    <2> QED
        BY <2>4, EmptySeq
<1>6. ToReceive' = End /\ Begun' /\ Collects' /\ Complete'
    BY <1>1, <1>3, <1>4, <1>5, OneFinish
<1>7. ToReceive = End /\ ToSend' = ToSend /\ File' = File
    <2>1. Len(downloads) = Len(sends) /\ Len(sends) \in Nat
        BY <1>1, <1>3, OneParts
    <2>2. ToReceive = End
        BY <1>3, <2>1 DEF ToReceive
    <2> QED
        BY <1>1, <2>2 DEF ToSend, End, File
<1>8. Flows'
    BY <1>1, <1>6, <1>7 DEF Flows
<1>9. Alone'
    <2>1. asked = <<>>
        BY <1>1, <1>3 DEF Alone
    <2> QED
        BY <1>1, <2>1 DEF Alone
<1> QED
    BY <1>6, <1>8, <1>9 DEF OneInv

\* Nothing of an earlier file is left when the next one is asked for.
LEMMA OneRequest ==
    ASSUME OneByOne, TransferInv, OneInv, NEW f \in Files, RequestFile(f)
    PROVE  OneInv'
<1>1. /\ Alone /\ Begun /\ Flows /\ Collects /\ Complete /\ open /\ f \in remote
      /\ asked' = Append(asked, f) /\ AllFinished
      /\ UNCHANGED <<open, sends, buf, net, listening, remote, receiver, active, downloads,
                     saving, saved>>
    BY DEF OneInv, RequestFile, ownerVars, downVars
<1>2. /\ Len(sends) \in Nat /\ Len(downloads) \in Nat /\ (sends = <<>> <=> Len(sends) = 0)
      /\ OwnerType /\ End \in Nat /\ ToReceive \in Nat /\ net \o buf \in Seq(Message)
      /\ sends = <<>> => End = 0
      /\ sends # <<>> => Size[File] \in Nat /\ End = Size[File] + 2
    BY <1>1, OneParts
<1>3. \A k \in 1..Len(sends) : sends[k].at = "done"
    BY <1>1, <1>2 DEF AllFinished, OwnerType
<1>4. ToReceive = End
    <2> PICK p : p = ToReceive
        OBVIOUS
    <2> PICK q : q = ToSend
        OBVIOUS
    <2>1. q = End
        BY <1>2, <1>3 DEF ToSend
    <2>2. InOrder(net \o buf, File, p, q)
        BY <1>1 DEF Flows
    <2>3. Len(net \o buf) = 0
        BY <1>1 DEF AllFinished
    <2>4. p <= q /\ ~\E r \in p..(q - 1) : TRUE
        BY <2>2, <2>3 DEF InOrder
    <2>5. ~(p < q)
        <3>1. p < q => p \in p..(q - 1)
            BY <1>2, <2>1
        <3> QED
            BY <2>4, <3>1
    <2> QED
        BY <1>2, <2>1, <2>4, <2>5
<1>5. Len(downloads) = Len(sends) /\ receiver = NoReceiver
    <2>1. CASE sends = <<>>
        BY <1>1, <1>2, <2>1 DEF Begun, Collects
    <2>2. CASE sends # <<>>
        <3>1. receiver = NoReceiver
            BY <1>1, <1>4, <2>2, ReceiveParts DEF AllFinished
        <3>2. ~(Len(downloads) < Len(sends))
            BY <1>2, <1>4, <2>2 DEF ToReceive
        <3> QED
            BY <1>1, <1>2, <3>1, <3>2 DEF Begun
    <2> QED
        BY <2>1, <2>2
<1>6. asked' = <<f>> /\ Len(asked') = 1
    BY <1>1 DEF AllFinished
<1>7. Alone'
    BY <1>1, <1>3, <1>5, <1>6 DEF Alone
<1>8. File' = File /\ End' = End /\ ToSend' = ToSend /\ ToReceive' = ToReceive
    BY <1>1 DEF File, End, ToSend, ToReceive
<1>9. Flows' /\ Begun' /\ Collects' /\ Complete'
    BY <1>1, <1>8 DEF Flows, Begun, Collects, Complete, SavedIsTheFile
<1> QED
    BY <1>7, <1>9 DEF OneInv

LEMMA OneStep == OneByOne /\ TransferInv /\ OneInv /\ [Next]_vars => OneInv'
<1> SUFFICES ASSUME OneByOne, TransferInv, OneInv, [Next]_vars PROVE OneInv'
    OBVIOUS
<1>1. CASE \E f \in Files : AddSharedFile(f) \/ RemoveSharedFile(f)
    <2>1. shared \in SUBSET Files
        BY InvSplit DEF OwnerType
    <2> QED
        BY <1>1, <2>1, OneShare DEF AddSharedFile, RemoveSharedFile
<1>2. CASE Listen
    <2>1. /\ UNCHANGED <<sends, receiver, active, downloads, saving, saved, asked, remote>>
          /\ UNCHANGED <<open, net, buf>> /\ listening'
        BY <1>2 DEF Listen, ownerVars
    <2>2. (net' # <<>> => open') /\ (open => InOrder((net \o buf)', File, ToReceive, ToSend))
        BY <2>1 DEF OneInv, Alone, Flows
    <2> QED
        BY <2>1, <2>2, OneSame
<1>3. CASE UNCHANGED vars
    <2>1. /\ UNCHANGED <<sends, receiver, active, downloads, saving, saved, asked, remote>>
          /\ UNCHANGED <<open, net, buf, listening>>
        BY <1>3 DEF vars, ownerVars, downVars
    <2>2. (net' # <<>> => open') /\ (open => InOrder((net \o buf)', File, ToReceive, ToSend))
        BY <2>1 DEF OneInv, Alone, Flows
    <2> QED
        BY <2>1, <2>2, OneSame
<1>4. CASE HandleFileRequest \/ (\E k \in 1..MaxRequests : SliceRead(k)) \/ Transmit \/ Close
    BY <1>4, OneRequested, OneSliceRead, OneTransmit, OneClose
<1>5. CASE Unheard \/ GetManifest \/ GetFileStart \/ GetChunk \/ GetFileEnd
    BY <1>5, OneManifest, OneStart, OneChunk, OneEnd
<1>6. CASE \E f \in Files : RequestFile(f)
    BY <1>6, OneRequest
<1>7. CASE \E i \in 1..MaxRequests : Save(i) \/ CancelSave(i)
    BY <1>7, OneDialog
<1> QED
    BY <1>1, <1>2, <1>3, <1>4, <1>5, <1>6, <1>7 DEF Next, Owner, Downloader

\* A downloader that asks for one file at a time saves the file it asked for:
\* every chunk of it, in order, and nothing else, whatever the loop of
\* handleFileRequest waits for, the owner shares or no longer shares, and
\* whenever the channel closes.
THEOREM SavedFileIsRight == OneByOne => (Spec => []SavedIsTheFile)
<1> SUFFICES ASSUME OneByOne PROVE Spec => []SavedIsTheFile
    OBVIOUS
<1>1. Init => TransferInv /\ OneInv
    BY TransferInit, OneInit
<1>2. TransferInv /\ OneInv /\ [Next]_vars => (TransferInv /\ OneInv)'
    BY TransferStep, OneStep
<1>3. OneInv => SavedIsTheFile
    BY DEF OneInv, Complete
<1> QED
    BY <1>1, <1>2, <1>3, PTL DEF Spec

\* And a download that is shown as done has all its bytes, and the receiver
\* collects the file the active one is named after (handleMessage: each file
\* has one receiver and one entry of transfers, and its messages are taken
\* for those of the active one).
THEOREM DoneIsComplete == OneByOne => (Spec => []DoneHasAll)
<1> SUFFICES ASSUME OneByOne PROVE Spec => []DoneHasAll
    OBVIOUS
<1>1. Init => TransferInv /\ OneInv
    BY TransferInit, OneInit
<1>2. TransferInv /\ OneInv /\ [Next]_vars => (TransferInv /\ OneInv)'
    BY TransferStep, OneStep
<1>3. TransferInv /\ OneInv => DoneHasAll
    <2> SUFFICES ASSUME TransferInv, OneInv, NEW k \in DOMAIN downloads
                 PROVE  /\ downloads[k].done => downloads[k].got = Size[downloads[k].name]
                        /\ k = active => receiver.name = downloads[k].name
        BY DEF DoneHasAll
    <2>1. Collects /\ Complete /\ k \in 1..Len(downloads)
        BY OneParts DEF OneInv, DownType
    <2>2. k = active => receiver.name = downloads[k].name
        BY <2>1 DEF Collects
    <2> QED
        BY <2>1, <2>2 DEF Complete
<1> QED
    BY <1>1, <1>2, <1>3, PTL DEF Spec

=============================================================================
