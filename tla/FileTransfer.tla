---------------------------- MODULE FileTransfer ----------------------------
(***************************************************************************)
(* Files over the DataChannel: frontend/src/hooks/useFileTransfer.js and   *)
(* frontend/src/lib/fileChunker.js, one browser being the owner of the     *)
(* files and the other the downloader (each browser is both; the two       *)
(* directions share nothing but the channel's send buffer).                *)
(*                                                                         *)
(* Each browser runs one JavaScript thread, so what happens between two    *)
(* awaits is one step.  The owner answers every request with a loop of its *)
(* own, and these loops take turns at two awaits: reading the next slice   *)
(* of the file, and waiting for the send buffer to drain.  The downloader  *)
(* keeps one receiver (receiverRef) and one active transfer                *)
(* (activeTransferIdRef) for all of them, and handles further messages     *)
(* while it awaits the dialog that saves a file.                           *)
(***************************************************************************)
EXTENDS Naturals, Sequences, FiniteSets, SequencesExt

CONSTANTS
    Files,          \* file names
    Size,           \* how many chunks of CHUNK_SIZE a file has
    High,           \* chunks in the send buffer above which a loop waits (16)
    Low,            \* bufferedAmountLowThreshold, in chunks (4)
    OneByOne,       \* the downloader asks only when all is finished
    MaxRequests,    \* bound: how many files are asked for
    MaxEdits        \* bound: how often the owner changes what is shared

ASSUME SizeAssumption == Size \in [Files -> Nat]
ASSUME MarksAssumption == High \in Nat /\ Low \in Nat /\ Low < High
ASSUME BoundsAssumption == OneByOne \in BOOLEAN /\ MaxRequests \in Nat /\ MaxEdits \in Nat

VARIABLES
    open,           \* the DataChannel is open
    \* the owner
    shared,         \* sharedFiles
    edits,          \* how often it was changed
    sends,          \* the loops of handleFileRequest, in order of the requests
    onlow,          \* channel.onbufferedamountlow: the loop it resumes, or 0
    buf,            \* the channel's send buffer
    net,            \* sent and not yet received
    \* the downloader
    listening,      \* the effect that listens to the channel has run
    unheard,        \* a message came before that
    remote,         \* remoteFiles
    asked,          \* requests under way to the owner
    asks,           \* how many there were
    receiver,       \* receiverRef
    active,         \* activeTransferIdRef, an index of downloads, or 0
    downloads,      \* transfers
    saving,         \* the files whose save dialog is open
    saved           \* the files that were saved

ownerVars == <<shared, edits, sends, onlow>>
downVars == <<listening, unheard, remote, receiver, active, downloads, saving, saved>>
vars == <<open, ownerVars, buf, net, asked, asks, downVars>>

-----------------------------------------------------------------------------
\* Messages.  Chunk n of a file stands for its bytes.
Manifest(S) == [type |-> "manifest", files |-> S]
FileStart(f) == [type |-> "file-start", name |-> f]
Chunk(f, n) == [type |-> "chunk", data |-> <<f, n>>]
FileEnd(f) == [type |-> "file-end", name |-> f]

ChunkOf == UNION {{<<f, n>> : n \in 1..Size[f]} : f \in Files}
Message ==
    [type : {"manifest"}, files : SUBSET Files]
        \cup [type : {"file-start", "file-end"}, name : Files]
        \cup [type : {"chunk"}, data : ChunkOf]

\* What a file consists of.
Content(f) == [n \in 1..Size[f] |-> <<f, n>>]

\* receiverRef is null.
NoReceiver == [chunks |-> <<>>]

\* bufferedAmount: the JSON messages in the buffer weigh next to nothing.
Buffered(b) == Cardinality({i \in DOMAIN b : b[i].type = "chunk"})

\* Slip: there is no high-water mark.
FullNever(b) == FALSE

\* "If the send buffer is too full, pause".
Full(b) == Buffered(b) > High

\* The channel has just opened, and the owner's effect has sent the manifest.
Init ==
    /\ open = TRUE
    /\ shared \in SUBSET Files
    /\ edits = 0
    /\ sends = <<>>
    /\ onlow = 0
    /\ buf = <<Manifest(shared)>>
    /\ net = <<>>
    /\ listening = FALSE
    /\ unheard = FALSE
    /\ remote = {}
    /\ asked = <<>>
    /\ asks = 0
    /\ receiver = NoReceiver
    /\ active = 0
    /\ downloads = <<>>
    /\ saving = <<>>
    /\ saved = {}

-----------------------------------------------------------------------------
(***************************************************************************)
(* The owner.                                                              *)
(***************************************************************************)

\* Slip: the peer is not told.
ShareQuietly(S) ==
    /\ edits < MaxEdits
    /\ edits' = edits + 1
    /\ shared' = S
    /\ UNCHANGED <<open, sends, onlow, buf, net, asked, asks, downVars>>

\* sharedFiles changes, and with it the effect that sends the manifest (and
\* the listener, which now looks requests up in the new list).
Share(S) ==
    /\ edits < MaxEdits
    /\ edits' = edits + 1
    /\ shared' = S
    /\ buf' = IF open THEN Append(buf, Manifest(S)) ELSE buf
    /\ UNCHANGED <<open, sends, onlow, net, asked, asks, downVars>>

AddSharedFile(f) == f \notin shared /\ Share(shared \cup {f})
RemoveSharedFile(f) == f \in shared /\ Share(shared \ {f})

\* Slip: the last chunk is forgotten.
RestTooShort(f, n) == IF n + 1 >= Size[f] THEN <<FileEnd(f)>> ELSE <<>>

\* Slip: it reads on at the end of the file.
RestTooLong(f, n) == IF n > Size[f] THEN <<FileEnd(f)>> ELSE <<>>

\* What chunkFile yields after n chunks without another slice to read.
Rest(f, n) == IF n >= Size[f] THEN <<FileEnd(f)>> ELSE <<>>
After(f, n) == IF Rest(f, n) = <<>> THEN "reading" ELSE "done"

\* handleFileRequest up to the first slice: a name that is not (or no longer)
\* shared is ignored.
HandleFileRequest ==
    /\ open /\ asked # <<>>
    /\ asked' = Tail(asked)
    /\ LET f == Head(asked)
       IN  IF f \in shared
           THEN /\ sends' = Append(sends, [file |-> f, sent |-> 0, at |-> After(f, 0)])
                /\ buf' = buf \o <<FileStart(f)>> \o Rest(f, 0)
           ELSE UNCHANGED <<sends, buf>>
    /\ UNCHANGED <<open, shared, edits, onlow, net, asks, downVars>>

\* Slip: the chunk a loop has waited with is lost.
PutChunkSkipping(k, b) ==
    LET f == sends[k].file
        n == sends[k].sent + 1
    IN  /\ sends' = [sends EXCEPT ![k].sent = n, ![k].at = After(f, n)]
        /\ buf' = b \o (IF sends[k].at = "waiting" THEN <<>> ELSE <<Chunk(f, n)>>) \o Rest(f, n)

\* Loop k sends its next chunk, after what is in the buffer b, and goes on to
\* the next slice or the end.
PutChunk(k, b) ==
    LET f == sends[k].file
        n == sends[k].sent + 1
    IN  /\ sends' = [sends EXCEPT ![k].sent = n, ![k].at = After(f, n)]
        /\ buf' = b \o <<Chunk(f, n)>> \o Rest(f, n)

\* The slice is there: send it, or wait until the buffer has drained, as the
\* one handler of the event; on a channel that is no longer open send throws,
\* and that ends the loop.
SliceRead(k) ==
    /\ k \in DOMAIN sends /\ sends[k].at = "reading"
    /\ IF Full(buf)
       THEN /\ sends' = [sends EXCEPT ![k].at = "waiting"]
            /\ onlow' = k
            /\ UNCHANGED buf
       ELSE /\ IF open THEN PutChunk(k, buf)
               ELSE sends' = [sends EXCEPT ![k].at = "failed"] /\ UNCHANGED buf
            /\ UNCHANGED onlow
    /\ UNCHANGED <<open, shared, edits, net, asked, asks, downVars>>

\* Slip: nobody is waiting for the event.
DrainedNot(b, c) == FALSE

\* The event bufferedamountlow: the buffer goes from b down to c.
Drained(b, c) == Buffered(b) > Low /\ Buffered(c) <= Low

\* The browser sends the first message of the buffer.  When that brings it to
\* the low-water mark the handler is called, and its loop goes on.
Transmit ==
    /\ open /\ buf # <<>>
    /\ net' = Append(net, Head(buf))
    /\ IF Drained(buf, Tail(buf)) /\ onlow # 0
       THEN onlow' = 0 /\ PutChunk(onlow, Tail(buf))
       ELSE buf' = Tail(buf) /\ UNCHANGED <<sends, onlow>>
    /\ UNCHANGED <<open, shared, edits, asked, asks, downVars>>

\* The channel closes: the peer has gone, or the role has changed.
Close ==
    /\ open
    /\ open' = FALSE
    /\ net' = <<>>
    /\ asked' = <<>>
    /\ UNCHANGED <<ownerVars, buf, asks, downVars>>

-----------------------------------------------------------------------------
(***************************************************************************)
(* The downloader.                                                         *)
(***************************************************************************)

\* The effect runs: from now on the messages are handled.
Listen ==
    /\ ~listening
    /\ listening' = TRUE
    /\ UNCHANGED <<open, ownerVars, buf, net, asked, asks, unheard, remote, receiver,
                   active, downloads, saving, saved>>

\* Nothing is left of what was asked for.
AllFinished ==
    /\ asked = <<>> /\ buf = <<>> /\ net = <<>> /\ saving = <<>>
    /\ \A k \in DOMAIN sends : sends[k].at = "done"

\* requestFile: the Download button of a file the peer shares.
RequestFile(f) ==
    /\ open /\ f \in remote
    /\ OneByOne => AllFinished
    /\ asks < MaxRequests
    /\ asks' = asks + 1
    /\ asked' = Append(asked, f)
    /\ UNCHANGED <<open, ownerVars, buf, net, downVars>>

\* handleMessage gets m.
Incoming(type) ==
    /\ net # <<>> /\ Head(net).type = type
    /\ net' = Tail(net)
    /\ UNCHANGED <<open, ownerVars, buf, asked, asks, listening>>

\* Nobody listens yet.
Unheard ==
    /\ ~listening
    /\ unheard' = TRUE
    /\ \E t \in {"manifest", "file-start", "chunk", "file-end"} : Incoming(t)
    /\ UNCHANGED <<remote, receiver, active, downloads, saving, saved>>

GetManifest ==
    /\ listening /\ Incoming("manifest")
    /\ remote' = Head(net).files
    /\ UNCHANGED <<unheard, receiver, active, downloads, saving, saved>>

GetFileStart ==
    /\ listening /\ Incoming("file-start")
    /\ receiver' = [name |-> Head(net).name, chunks |-> <<>>]
    /\ active' = Len(downloads) + 1
    /\ downloads' = Append(downloads, [name |-> Head(net).name, got |-> 0, done |-> FALSE])
    /\ UNCHANGED <<unheard, remote, saving, saved>>

\* A chunk nobody collects is thrown away.
GetChunk ==
    /\ listening /\ Incoming("chunk")
    /\ IF receiver = NoReceiver THEN UNCHANGED <<receiver, downloads>>
       ELSE /\ receiver' = [receiver EXCEPT !.chunks = Append(@, Head(net).data)]
            /\ downloads' = [k \in DOMAIN downloads |->
                                IF k = active
                                THEN [downloads[k] EXCEPT !.got = Len(receiver.chunks) + 1]
                                ELSE downloads[k]]
    /\ UNCHANGED <<unheard, remote, active, saving, saved>>

\* What follows await receiver.save(): the refs are read then, not before.
FinishDownload ==
    /\ receiver' = NoReceiver
    /\ downloads' = [k \in DOMAIN downloads |->
                        IF k = active THEN [downloads[k] EXCEPT !.done = TRUE]
                        ELSE downloads[k]]
    /\ active' = 0

\* file-end: with the file picker of Chrome the Blob is made at once and the
\* handler waits for the user; with a download link, or without a receiver,
\* it goes on at once.
GetFileEnd ==
    /\ listening /\ Incoming("file-end")
    /\ \/ /\ receiver # NoReceiver
          /\ saving' = Append(saving, receiver)
          /\ UNCHANGED <<receiver, downloads, active, saved>>
       \/ /\ saved' = IF receiver = NoReceiver THEN saved ELSE saved \cup {receiver}
          /\ FinishDownload
          /\ UNCHANGED saving
    /\ UNCHANGED <<unheard, remote>>

\* The user answers the dialog - or, when it fails, the link is used.
Dialog(i) ==
    /\ i \in DOMAIN saving
    /\ saving' = RemoveAt(saving, i)
    /\ FinishDownload
    /\ UNCHANGED <<open, ownerVars, buf, net, asked, asks, listening, unheard, remote>>

Save(i) == Dialog(i) /\ saved' = saved \cup {saving[i]}
CancelSave(i) == Dialog(i) /\ UNCHANGED saved

-----------------------------------------------------------------------------
Owner ==
    \/ \E f \in Files : AddSharedFile(f) \/ RemoveSharedFile(f)
    \/ HandleFileRequest
    \/ \E k \in 1..MaxRequests : SliceRead(k)
    \/ Transmit
    \/ Close

Downloader ==
    \/ Listen \/ Unheard
    \/ \E f \in Files : RequestFile(f)
    \/ GetManifest \/ GetFileStart \/ GetChunk \/ GetFileEnd
    \/ \E i \in 1..MaxRequests : Save(i) \/ CancelSave(i)

Next == Owner \/ Downloader

Spec == Init /\ [][Next]_vars

(***************************************************************************)
(* Fairness: React runs the effect, the browser reads slices and, while    *)
(* the channel is open, moves messages; and the user answers the dialogs.  *)
(* Nothing makes a user share, ask or go.                                  *)
(***************************************************************************)
Fairness ==
    /\ WF_vars(Listen)
    /\ WF_vars(HandleFileRequest)
    /\ WF_vars(Transmit)
    /\ WF_vars(Unheard \/ GetManifest \/ GetFileStart \/ GetChunk \/ GetFileEnd)
    /\ \A k \in 1..MaxRequests :
        /\ WF_vars(SliceRead(k))
        /\ WF_vars(Save(k) \/ CancelSave(k))

FairSpec == Spec /\ Fairness

-----------------------------------------------------------------------------
(***************************************************************************)
(* Properties.                                                             *)
(***************************************************************************)

\* The type invariant of both browsers and the channel.
TypeOK ==
    /\ open \in BOOLEAN /\ listening \in BOOLEAN /\ unheard \in BOOLEAN
    /\ shared \subseteq Files /\ remote \subseteq Files
    /\ edits \in 0..MaxEdits /\ asks \in 0..MaxRequests
    /\ sends \in Seq([file : Files, sent : Nat,
                      at : {"reading", "waiting", "done", "failed"}])
    /\ onlow \in {0} \cup DOMAIN sends
    /\ buf \in Seq(Message) /\ net \in Seq(Message)
    /\ asked \in Seq(Files)
    /\ receiver \in {NoReceiver} \cup [name : Files, chunks : Seq(ChunkOf)]
    /\ active \in {0} \cup DOMAIN downloads
    /\ downloads \in Seq([name : Files, got : Nat, done : BOOLEAN])
    /\ saving \in Seq([name : Files, chunks : Seq(ChunkOf)])
    /\ saved \subseteq [name : Files, chunks : Seq(ChunkOf)]

\* A file that is saved is the file that was asked for: every chunk of it, in
\* order, and nothing else, whatever waits, whatever is shared or no longer
\* shared meanwhile and whenever the channel closes.
SavedIsTheFile == \A s \in saved : s.chunks = Content(s.name)

\* A download that is shown as done has all its bytes, and while it is active
\* its receiver collects the file it is named after.
DoneHasAll ==
    \A k \in DOMAIN downloads :
        /\ downloads[k].done => downloads[k].got = Size[downloads[k].name]
        /\ k = active => receiver.name = downloads[k].name

\* However many loops there are, the send buffer holds at most one chunk more
\* than the high-water mark.
BufferBounded == Buffered(buf) <= High + 1

\* Once the manifests that were sent have arrived the downloader sees what
\* the owner shares (unless one came before it listened).
SeesWhatIsShared ==
    (/\ open /\ listening /\ ~unheard
     /\ \A m \in ToSet(buf \o net) : m.type # "manifest")
    => remote = shared

\* A download that has begun is done in the end, or the channel closes.
DownloadsEnd ==
    \A k \in 1..MaxRequests :
        (k \in DOMAIN downloads /\ ~downloads[k].done)
        ~> (~open \/ (k \in DOMAIN downloads /\ downloads[k].done))

-----------------------------------------------------------------------------
(***************************************************************************)
(* What the comments say of several requests at a time, and the code does  *)
(* not do.                                                                 *)
(***************************************************************************)

\* "FileReceiver accumulates incoming DataChannel messages for a single
\* file": no chunk of another file gets into it.
SingleFile == \A i \in DOMAIN receiver.chunks : receiver.chunks[i][1] = receiver.name

\* "If the send buffer is too full, pause until it drains": a loop that has
\* paused goes on in the end, or the channel closes.
PauseEnds ==
    \A k \in 1..MaxRequests :
        (k \in DOMAIN sends /\ sends[k].at = "waiting")
        ~> (~open \/ (k \in DOMAIN sends /\ sends[k].at # "waiting"))

=============================================================================
