----------------------------- MODULE FileUpload -----------------------------
(***************************************************************************)
(* Upload of a file in rounds of chunks: the upload thread and the receive *)
(* thread of the client (client/Client.cpp) and the handlers of the server *)
(* (filetransfer/FileTransferManager.cpp), with the thread that announces  *)
(* completed uploads (filetransfer/FIleDownload.cpp).                      *)
(*                                                                         *)
(* Sizes and offsets count chunks, and the contents of a chunk is its      *)
(* number.  The packets of one connection are handled in the order they    *)
(* were sent.  The upload id is random, so an upload is not resumed under  *)
(* another sendFile: one upload is modelled.                               *)
(***************************************************************************)
EXTENDS Integers, Sequences, FiniteSets, SequencesExt

CONSTANTS
    Sizes,     \* the sizes of the files that clients send
    MaxSize,   \* the size above which the server refuses a file
    PerRound,  \* MAX_CHUNKS_PER_ROUND
    MaxLoss    \* bound: chunks that arrive with a wrong checksum

ASSUME UploadAssumption ==
    /\ Sizes \subseteq Nat
    /\ MaxSize \in Nat /\ PerRound \in Nat \ {0} /\ MaxLoss \in Nat

VARIABLES
    size,          \* totalSize
    toServer,      \* packets from the client to the server
    toClient,      \* packets from the server to the client
    wpc,           \* place of the client's upload thread
    bytesSent,     \* what the upload thread has read of the file
    count,         \* chunksThisRound
    round,         \* currentRound of the client
    ackReceived, missingChunks,
    ack,           \* the acknowledgement handleFileAck is storing, or NoAck
    state,         \* the server's TransferState, or NoState
    disk,          \* the partial file of the server
    loss,          \* chunks with a wrong checksum so far
    completedUpload, downloadable,
    toPeer         \* packets from the server to the receiver of the file

clientVars == <<size, wpc, bytesSent, count, round, ackReceived, missingChunks, ack>>
serverVars == <<state, disk, loss>>
linkVars == <<completedUpload, downloadable, toPeer>>
vars == <<clientVars, serverVars, linkVars, toServer, toClient>>

File(n) == [i \in 1 .. n |-> i]
Slots == 0 .. PerRound - 1
Empty == [i \in Slots |-> 0]   \* a round buffer: 0 is an empty chunk
NoAck == [type |-> "none"]
NoState == [round |-> -1]

Start(n) == [type |-> "start", size |-> n]
Chunk(o) == [type |-> "chunk", offset |-> o, data |-> o + 1]
RoundEnd(r, n) == [type |-> "roundend", round |-> r, count |-> n]
FileEnd == [type |-> "end"]
Resume(o) == [type |-> "resume", offset |-> o]
Ack(r, m) == [type |-> "ack", round |-> r, missing |-> m]
Status(ok) == [type |-> "status", ok |-> ok]
Error == [type |-> "error"]
DownloadLink(n) == [type |-> "link", size |-> n]

Init ==
    /\ size = 0
    /\ toServer = <<>> /\ toClient = <<>> /\ toPeer = <<>>
    /\ wpc = "idle" /\ bytesSent = 0 /\ count = 0 /\ round = 0
    /\ ackReceived = FALSE /\ missingChunks = {} /\ ack = NoAck
    /\ state = NoState /\ disk = <<>> /\ loss = 0
    /\ completedUpload = <<>> /\ downloadable = FALSE

-----------------------------------------------------------------------------
(* The client *)

\* sendFile
SendFile(n) ==
    /\ wpc = "idle"
    /\ size' = n
    /\ toServer' = Append(toServer, Start(n))
    /\ wpc' = "asked"
    /\ UNCHANGED <<bytesSent, count, round, ackReceived, missingChunks, ack, serverVars, linkVars, toClient>>

\* HandleFileStartResponse: the offset is known, and the upload thread starts.
HandleFileStartResponse ==
    /\ toClient # <<>> /\ Head(toClient).type = "resume" /\ ack = NoAck
    /\ bytesSent' = Head(toClient).offset
    /\ round' = Head(toClient).offset \div PerRound
    /\ wpc' = "fill"
    /\ toClient' = Tail(toClient)
    /\ UNCHANGED <<size, count, ackReceived, missingChunks, ack, serverVars, linkVars, toServer>>

\* Faulty variant of FillRound: a round has no limit.
FillWholeFile ==
    /\ wpc = "fill"
    /\ bytesSent < size
    /\ toServer' = toServer \o [i \in 1 .. size - bytesSent |-> Chunk(bytesSent + i - 1)]
    /\ bytesSent' = size
    /\ count' = size - bytesSent
    /\ wpc' = "roundend"
    /\ UNCHANGED <<size, round, ackReceived, missingChunks, ack, serverVars, linkVars, toClient>>

\* uploadWorker reads the chunks of a round and sends them.
FillRound ==
    LET n == IF size - bytesSent < PerRound THEN size - bytesSent ELSE PerRound
    IN  /\ wpc = "fill"
        /\ bytesSent < size
        /\ toServer' = toServer \o [i \in 1 .. n |-> Chunk(bytesSent + i - 1)]
        /\ bytesSent' = bytesSent + n
        /\ count' = n
        /\ wpc' = "roundend"
        /\ UNCHANGED <<size, round, ackReceived, missingChunks, ack, serverVars, linkVars, toClient>>

\* uploadWorker has sent the whole file.
SendFileEnd ==
    /\ wpc = "fill"
    /\ bytesSent >= size
    /\ toServer' = Append(toServer, FileEnd)
    /\ wpc' = "done"
    /\ UNCHANGED <<size, bytesSent, count, round, ackReceived, missingChunks, ack, serverVars, linkVars, toClient>>

SendRoundEnd ==
    /\ wpc = "roundend"
    /\ toServer' = Append(toServer, RoundEnd(round, count))
    /\ wpc' = "reset"
    /\ UNCHANGED <<size, bytesSent, count, round, ackReceived, missingChunks, ack, serverVars, linkVars, toClient>>

\* uploadWorker takes ackMtx, clears ackReceived and waits.
ResetAck ==
    /\ wpc = "reset"
    /\ ackReceived' = FALSE
    /\ wpc' = "wait"
    /\ UNCHANGED <<size, bytesSent, count, round, missingChunks, ack, serverVars, linkVars, toServer, toClient>>


\* The server has every chunk of the round.
RoundAcked ==
    /\ wpc = "wait" /\ ackReceived
    /\ missingChunks = {}
    /\ round' = round + 1
    /\ wpc' = "fill"
    /\ UNCHANGED <<size, bytesSent, count, ackReceived, missingChunks, ack, serverVars, linkVars, toServer, toClient>>

\* The offset of the first chunk of the round being sent.
RoundBase == bytesSent - count


\* The missing chunks are sent again, and the round is ended again.
ResendMissing ==
    LET again == SetToSortSeq({i \in missingChunks : i < count}, <)
    IN  /\ wpc = "wait" /\ ackReceived
        /\ missingChunks # {}
        /\ toServer' = toServer \o [i \in 1 .. Len(again) |-> Chunk(RoundBase + again[i])]
        /\ wpc' = "roundend"
        /\ UNCHANGED <<size, bytesSent, count, round, ackReceived, missingChunks, ack, serverVars, linkVars, toClient>>

\* wait_for expires: the upload thread ends.
AckTimeout ==
    /\ wpc = "wait" /\ ~ackReceived
    /\ wpc' = "timeout"
    /\ UNCHANGED <<size, bytesSent, count, round, ackReceived, missingChunks, ack, serverVars, linkVars, toServer, toClient>>

\* handleFileAck compares the round without a lock.
CheckAck ==
    /\ toClient # <<>> /\ Head(toClient).type = "ack" /\ ack = NoAck
    /\ ack' = IF Head(toClient).round = round THEN Head(toClient) ELSE NoAck
    /\ toClient' = Tail(toClient)
    /\ UNCHANGED <<size, wpc, bytesSent, count, round, ackReceived, missingChunks, serverVars, linkVars, toServer>>

\* handleFileAck stores the acknowledgement and notifies.
StoreAck ==
    /\ ack # NoAck
    /\ missingChunks' = ack.missing
    /\ ackReceived' = TRUE
    /\ ack' = NoAck
    /\ UNCHANGED <<size, wpc, bytesSent, count, round, serverVars, linkVars, toServer, toClient>>

\* HandleFileStatus only prints.
HandleFileStatus ==
    /\ toClient # <<>> /\ Head(toClient).type = "status" /\ ack = NoAck
    /\ toClient' = Tail(toClient)
    /\ UNCHANGED <<clientVars, serverVars, linkVars, toServer>>

-----------------------------------------------------------------------------
(* The server *)

Received(type) == toServer # <<>> /\ Head(toServer).type = type /\ toServer' = Tail(toServer)

\* handleFileStart: a file that is too big is refused, and the error is sent to
\* the receiver of the file.
RefuseFile ==
    /\ Received("start")
    /\ Head(toServer).size > MaxSize
    /\ toPeer' = Append(toPeer, Error)
    /\ UNCHANGED <<clientVars, serverVars, completedUpload, downloadable, toClient>>

\* handleFileStart: the partial file cannot be opened; nobody is told.
OpenFails ==
    /\ Received("start")
    /\ Head(toServer).size <= MaxSize
    /\ UNCHANGED <<clientVars, serverVars, linkVars, toClient>>

\* handleFileStart: the upload goes on where the partial file ends.
AcceptFile ==
    /\ Received("start")
    /\ Head(toServer).size <= MaxSize
    /\ state' = [total |-> Head(toServer).size, roundBuffer |-> Empty,
                 round |-> Len(disk) \div PerRound, offset |-> Len(disk)]
    /\ toClient' = Append(toClient, Resume(Len(disk)))
    /\ UNCHANGED <<clientVars, disk, loss, linkVars>>

\* Faulty variant of HandleFileChunk: a chunk goes to the first free slot.
ChunkInArrivalOrder ==
    /\ Received("chunk")
    /\ \/ /\ state # NoState
          /\ LET free == {i \in Slots : state.roundBuffer[i] = 0}
             IN  state' = IF free = {} THEN state
                          ELSE [state EXCEPT !.roundBuffer[CHOOSE i \in free : \A j \in free : i <= j]
                                  = Head(toServer).data]
          /\ UNCHANGED loss
       \/ loss < MaxLoss /\ loss' = loss + 1 /\ UNCHANGED state
    /\ UNCHANGED <<clientVars, disk, linkVars, toClient>>

\* handleFileChunk: a chunk with a wrong checksum is dropped, a chunk for a
\* slot that is taken too.
HandleFileChunk ==
    LET i == Head(toServer).offset % PerRound
    IN  /\ Received("chunk")
        /\ \/ /\ IF state # NoState /\ state.roundBuffer[i] = 0
                   THEN state' = [state EXCEPT !.roundBuffer[i] = Head(toServer).data]
                   ELSE UNCHANGED state
              /\ UNCHANGED loss
           \/ loss < MaxLoss /\ loss' = loss + 1 /\ UNCHANGED state
        /\ UNCHANGED <<clientVars, disk, linkVars, toClient>>

\* writeRoundToDisk
WrittenRound(buffer) == SelectSeq([i \in 1 .. PerRound |-> buffer[i - 1]], LAMBDA c : c # 0)

\* handleRoundEnd: an acknowledgement names the missing chunks of the current
\* round; a complete round is written and the next one begins.
HandleRoundEnd ==
    LET p == Head(toServer)
        missing == {i \in 0 .. p.count - 1 : state.roundBuffer[i] = 0}
        chunks == WrittenRound(state.roundBuffer)
    IN  /\ Received("roundend")
        /\ IF state = NoState
             THEN UNCHANGED <<state, disk, toClient>>
           ELSE IF p.round # state.round
             THEN /\ toClient' = Append(toClient, Ack(state.round, {}))
                  /\ UNCHANGED <<state, disk>>
           ELSE /\ toClient' = Append(toClient, Ack(p.round, missing))
                /\ IF missing = {}
                     THEN /\ disk' = disk \o chunks
                          /\ state' = [state EXCEPT !.roundBuffer = Empty, !.round = @ + 1,
                                                    !.offset = @ + Len(chunks)]
                     ELSE UNCHANGED <<state, disk>>
        /\ UNCHANGED <<clientVars, loss, linkVars>>

\* handleFileEnd: a complete upload is queued for the announcing thread; the
\* transfer is forgotten either way.
HandleFileEnd ==
    /\ Received("end")
    /\ IF state = NoState
         THEN UNCHANGED <<completedUpload, toClient>>
         ELSE /\ completedUpload' = IF state.offset = state.total
                                      THEN Append(completedUpload, state.total)
                                      ELSE completedUpload
              /\ toClient' = Append(toClient, Status(state.offset = state.total))
    /\ state' = NoState
    /\ UNCHANGED <<clientVars, disk, loss, downloadable, toPeer>>

\* Faulty variant of SendDownloadLink: the file is not registered.
SendLinkOnly ==
    /\ completedUpload # <<>>
    /\ completedUpload' = Tail(completedUpload)
    /\ toPeer' = Append(toPeer, DownloadLink(Head(completedUpload)))
    /\ UNCHANGED <<clientVars, serverVars, downloadable, toServer, toClient>>

\* sendDownloadLinkLoop: the file becomes downloadable and is announced.
SendDownloadLink ==
    /\ completedUpload # <<>>
    /\ completedUpload' = Tail(completedUpload)
    /\ downloadable' = TRUE
    /\ toPeer' = Append(toPeer, DownloadLink(Head(completedUpload)))
    /\ UNCHANGED <<clientVars, serverVars, toServer, toClient>>

-----------------------------------------------------------------------------

Server == AcceptFile \/ RefuseFile \/ HandleFileChunk \/ HandleRoundEnd \/ HandleFileEnd
UploadThread ==
    FillRound \/ SendFileEnd \/ SendRoundEnd \/ ResetAck \/ RoundAcked \/ ResendMissing
ReceiveThread == HandleFileStartResponse \/ CheckAck \/ StoreAck \/ HandleFileStatus

Next ==
    \/ \E n \in Sizes : SendFile(n)
    \/ UploadThread \/ AckTimeout \/ ReceiveThread
    \/ Server \/ OpenFails \/ SendDownloadLink

\* Every thread runs on, and a wait with a time limit ends.
Fairness ==
    /\ WF_vars(UploadThread) /\ WF_vars(AckTimeout)
    /\ WF_vars(ReceiveThread) /\ WF_vars(Server) /\ WF_vars(SendDownloadLink)

Spec == Init /\ [][Next]_vars /\ Fairness

-----------------------------------------------------------------------------
(* Properties *)

Packets ==
    [type : {"start"}, size : Nat] \cup [type : {"chunk"}, offset : Nat, data : Nat]
      \cup [type : {"roundend"}, round : Nat, count : 0 .. PerRound] \cup [type : {"end"}]
Acks == [type : {"ack"}, round : Nat, missing : SUBSET Slots]
Replies == [type : {"resume"}, offset : Nat] \cup [type : {"status"}, ok : BOOLEAN] \cup Acks
States == [total : Nat, roundBuffer : [Slots -> Nat], round : Nat, offset : Nat]

\* Types of the packets on their way and of both sides of the upload.
TypeOK ==
    /\ size \in Nat
    /\ toServer \in Seq(Packets) /\ toClient \in Seq(Replies)
    /\ wpc \in {"idle", "asked", "fill", "roundend", "reset", "wait", "done", "timeout"}
    /\ bytesSent \in Nat /\ count \in 0 .. PerRound /\ round \in Nat
    /\ ackReceived \in BOOLEAN /\ missingChunks \in SUBSET Slots /\ ack \in Acks \cup {NoAck}
    /\ state \in States \cup {NoState} /\ disk \in Seq(Nat) /\ loss \in 0 .. MaxLoss
    /\ completedUpload \in Seq(Nat) /\ downloadable \in BOOLEAN

\* The server's partial file is always the beginning of the client's file, and
\* receivedOffset is its length: no chunk is written twice, in the wrong place
\* or in the wrong round, although chunks get lost and are sent again.
DiskIsPrefix ==
    /\ IsPrefix(disk, File(size))
    /\ state # NoState => state.offset = Len(disk)


=============================================================================
