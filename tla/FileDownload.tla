---------------------------- MODULE FileDownload ----------------------------
(***************************************************************************)
(* Download of an uploaded file in rounds of chunks: the transfer thread   *)
(* and the acknowledgement handler of the server                           *)
(* (filetransfer/FIleDownload.cpp), and the receive thread of the client   *)
(* (client/Client.cpp).                                                    *)
(*                                                                         *)
(* Sizes and offsets count chunks, and the contents of a chunk is its      *)
(* number.  A receiver asks again only after the transfer thread of the    *)
(* earlier request has ended: two transfer threads of one file would write *)
(* the same vectors at the same time.                                      *)
(***************************************************************************)
EXTENDS Integers, Sequences, FiniteSets, SequencesExt

CONSTANTS
    PerRound,     \* MAX_CHUNKS_PER_ROUND
    MaxLoss,      \* bound: chunks that arrive with a wrong checksum
    MaxRequests   \* bound: downloads of the file

VARIABLES
    size, disk,    \* totalSize and contents of the uploaded file
    downloadable,  \* the file is in downloadableFiles
    toPeer,        \* packets from the server to the receiver
    fromPeer,      \* packets from the receiver to the server
    tpc,           \* place of the transfer thread
    tSent, tCount, tRound,            \* bytesSent, chunksThisRound, currentRound
    tAckReceived, tMissing,           \* ackReceived and missingChunks of the state
    tAck,          \* the acknowledgement onAckReceived is storing, or NoAck
    recievingFile, \* of the receiver's session
    linked,        \* the receiver has been sent the link
    requests,      \* number of downloads so far
    peer,          \* the receiver's DownloadState, or NoState
    copy,          \* the receiver's file
    peerLoss,
    verdict        \* what the receiver said at the end of its last download

fileVars == <<size, disk, downloadable>>
threadVars == <<tpc, tSent, tCount, tRound, tAckReceived, tMissing, tAck, recievingFile>>
peerVars == <<linked, requests, peer, copy, peerLoss, verdict>>
vars == <<fileVars, threadVars, peerVars, toPeer, fromPeer>>

File(n) == [i \in 1 .. n |-> i]
Slots == 0 .. PerRound - 1
Empty == [i \in Slots |-> 0]
NoAck == [type |-> "none"]
NoState == [round |-> -1]

Start(n) == [type |-> "start", size |-> n]
Chunk(o, d) == [type |-> "chunk", offset |-> o, data |-> d]
RoundEnd(r, n) == [type |-> "roundend", round |-> r, count |-> n]
FileEnd == [type |-> "end"]
Error == [type |-> "error"]
Request == [type |-> "request"]
Ack(r, m) == [type |-> "ack", round |-> r, missing |-> m]

\* state->currentRound: cleared when the upload was completed, and not written
\* by the transfer thread, which counts rounds on its own.
StateRound == 0

Init ==
    /\ fromPeer = <<>>
    /\ tpc = "idle" /\ tSent = 0 /\ tCount = 0 /\ tRound = 0
    /\ tAckReceived = FALSE /\ tMissing = {} /\ tAck = NoAck /\ recievingFile = FALSE
    /\ linked = FALSE /\ requests = 0 /\ peer = NoState /\ copy = <<>>
    /\ peerLoss = 0 /\ verdict = "none"

-----------------------------------------------------------------------------
(* The server *)

Asked(type) == fromPeer # <<>> /\ Head(fromPeer).type = type /\ fromPeer' = Tail(fromPeer)

\* HandleDownloadRequest and the beginning of HandleFileTransfer.
HandleDownloadRequest ==
    /\ Asked("request") /\ tAck = NoAck
    /\ IF downloadable
         THEN /\ toPeer' = Append(toPeer, Start(size))
              /\ recievingFile' = TRUE
              /\ tpc' = "fill" /\ tSent' = 0 /\ tRound' = 0
         ELSE /\ toPeer' = Append(toPeer, Error)
              /\ UNCHANGED <<recievingFile, tpc, tSent, tRound>>
    /\ UNCHANGED <<fileVars, tCount, tAckReceived, tMissing, tAck, peerVars>>

\* HandleFileTransfer cannot open the file.
OpenFails ==
    /\ tpc = "fill" /\ tSent = 0
    /\ toPeer' = Append(toPeer, Error)
    /\ recievingFile' = FALSE
    /\ tpc' = "failed"
    /\ UNCHANGED <<fileVars, tSent, tCount, tRound, tAckReceived, tMissing, tAck, peerVars, fromPeer>>

\* HandleFileTransfer reads the chunks of a round and queues them.
FillRound ==
    LET n == IF size - tSent < PerRound THEN size - tSent ELSE PerRound
    IN  /\ tpc = "fill"
        /\ tSent < size
        /\ toPeer' = toPeer \o [i \in 1 .. n |-> Chunk(tSent + i - 1, disk[tSent + i])]
        /\ tSent' = tSent + n
        /\ tCount' = n
        /\ tpc' = "roundend"
        /\ UNCHANGED <<fileVars, tRound, tAckReceived, tMissing, tAck, recievingFile, peerVars, fromPeer>>

\* HandleFileTransfer has sent the whole file.
SendFileEnd ==
    /\ tpc = "fill"
    /\ tSent >= size
    /\ toPeer' = Append(toPeer, FileEnd)
    /\ recievingFile' = FALSE
    /\ tpc' = "done"
    /\ UNCHANGED <<fileVars, tSent, tCount, tRound, tAckReceived, tMissing, tAck, peerVars, fromPeer>>

SendRoundEnd ==
    /\ tpc = "roundend"
    /\ toPeer' = Append(toPeer, RoundEnd(tRound, tCount))
    /\ tpc' = "reset"
    /\ UNCHANGED <<fileVars, tSent, tCount, tRound, tAckReceived, tMissing, tAck, recievingFile, peerVars, fromPeer>>


\* HandleFileTransfer takes ackMtx, clears ackReceived and waits.
ResetAck ==
    /\ tpc = "reset"
    /\ tAckReceived' = FALSE
    /\ tpc' = "wait"
    /\ UNCHANGED <<fileVars, tSent, tCount, tRound, tMissing, tAck, recievingFile, peerVars, toPeer, fromPeer>>

\* The receiver has every chunk of the round.
RoundAcked ==
    /\ tpc = "wait" /\ tAckReceived
    /\ tMissing = {}
    /\ tRound' = tRound + 1
    /\ tpc' = "fill"
    /\ UNCHANGED <<fileVars, tSent, tCount, tAckReceived, tMissing, tAck, recievingFile, peerVars, toPeer, fromPeer>>


\* The missing chunks are sent again, and the round is ended again.
ResendMissing ==
    LET again == SetToSortSeq({i \in tMissing : i < tCount}, <)
        offset(i) == tSent - tCount + again[i]
    IN  /\ tpc = "wait" /\ tAckReceived
        /\ tMissing # {}
        /\ toPeer' = toPeer \o [i \in 1 .. Len(again) |-> Chunk(offset(i), disk[offset(i) + 1])]
        /\ tpc' = "roundend"
        /\ UNCHANGED <<fileVars, tSent, tCount, tRound, tAckReceived, tMissing, tAck, recievingFile, peerVars, fromPeer>>

\* wait_for expires: the thread ends and leaves recievingFile set.
AckTimeout ==
    /\ tpc = "wait" /\ ~tAckReceived
    /\ tpc' = "timeout"
    /\ UNCHANGED <<fileVars, tSent, tCount, tRound, tAckReceived, tMissing, tAck, recievingFile, peerVars, toPeer, fromPeer>>

\* onAckReceived compares the round with that of the state.
CheckAck ==
    /\ Asked("ack") /\ tAck = NoAck
    /\ tAck' = IF downloadable /\ Head(fromPeer).round = StateRound THEN Head(fromPeer) ELSE NoAck
    /\ UNCHANGED <<fileVars, tpc, tSent, tCount, tRound, tAckReceived, tMissing, recievingFile, peerVars, toPeer>>

\* onAckReceived stores the acknowledgement and notifies.
StoreAck ==
    /\ tAck # NoAck
    /\ tMissing' = tAck.missing
    /\ tAckReceived' = TRUE
    /\ tAck' = NoAck
    /\ UNCHANGED <<fileVars, tpc, tSent, tCount, tRound, recievingFile, peerVars, toPeer, fromPeer>>

-----------------------------------------------------------------------------
(* The receiver *)

\* downloadFile: the user asks for a file that a link has announced.
DownloadFile ==
    /\ linked
    /\ requests < MaxRequests
    /\ tpc \in {"idle", "done", "timeout", "failed"}
    /\ \A i \in 1 .. Len(fromPeer) : fromPeer[i] # Request
    /\ requests' = requests + 1
    /\ verdict' = "none"
    /\ fromPeer' = Append(fromPeer, Request)
    /\ UNCHANGED <<fileVars, threadVars, linked, peer, copy, peerLoss, toPeer>>

Got(type) == toPeer # <<>> /\ Head(toPeer).type = type /\ toPeer' = Tail(toPeer)

\* handleDownloadLink
HandleDownloadLink ==
    /\ Got("link")
    /\ linked' = TRUE
    /\ UNCHANGED <<fileVars, threadVars, requests, peer, copy, peerLoss, verdict, fromPeer>>

\* A file error is only printed.
HandleFileError ==
    /\ Got("error")
    /\ UNCHANGED <<fileVars, threadVars, peerVars, fromPeer>>

\* handleFileStart: the file is opened for appending, and the download goes on
\* at its end.
HandleFileStart ==
    /\ Got("start")
    /\ peer' = [total |-> Head(toPeer).size, roundBuffer |-> Empty,
                round |-> Len(copy) \div PerRound, offset |-> Len(copy)]
    /\ UNCHANGED <<fileVars, threadVars, linked, requests, copy, peerLoss, verdict, fromPeer>>

\* handleFileChunk
HandleFileChunk ==
    LET i == Head(toPeer).offset % PerRound
    IN  /\ Got("chunk")
        /\ \/ /\ IF peer # NoState /\ peer.roundBuffer[i] = 0
                   THEN peer' = [peer EXCEPT !.roundBuffer[i] = Head(toPeer).data]
                   ELSE UNCHANGED peer
              /\ UNCHANGED peerLoss
           \/ peerLoss < MaxLoss /\ peerLoss' = peerLoss + 1 /\ UNCHANGED peer
        /\ UNCHANGED <<fileVars, threadVars, linked, requests, copy, verdict, fromPeer>>

\* writeRoundToDisk
WrittenRound(buffer) == SelectSeq([i \in 1 .. PerRound |-> buffer[i - 1]], LAMBDA c : c # 0)

\* handleRoundEnd and sendRoundAck
HandleRoundEnd ==
    LET p == Head(toPeer)
        missing == {i \in 0 .. p.count - 1 : peer.roundBuffer[i] = 0}
        chunks == WrittenRound(peer.roundBuffer)
    IN  /\ Got("roundend")
        /\ IF peer = NoState
             THEN UNCHANGED <<peer, copy, fromPeer>>
           ELSE IF p.round # peer.round
             THEN /\ fromPeer' = Append(fromPeer, Ack(peer.round, {}))
                  /\ UNCHANGED <<peer, copy>>
           ELSE /\ fromPeer' = Append(fromPeer, Ack(p.round, missing))
                /\ IF missing = {}
                     THEN /\ copy' = copy \o chunks
                          /\ peer' = [peer EXCEPT !.roundBuffer = Empty, !.round = @ + 1,
                                                  !.offset = @ + Len(chunks)]
                     ELSE UNCHANGED <<peer, copy>>
        /\ UNCHANGED <<fileVars, threadVars, linked, requests, peerLoss, verdict>>

\* The checksum of the uploader's file; it is 0, and not compared, for an empty
\* file.
CrcMatches(n) == n = 0 \/ copy = File(n)

\* handleFileEnd: the length and the checksum of the whole file are compared.
HandleFileEnd ==
    /\ Got("end")
    /\ verdict' = IF peer = NoState THEN verdict
                  ELSE IF peer.offset = peer.total /\ CrcMatches(peer.total) THEN "ok" ELSE "failed"
    /\ peer' = NoState
    /\ UNCHANGED <<fileVars, threadVars, linked, requests, copy, peerLoss, fromPeer>>

-----------------------------------------------------------------------------

TransferThread ==
    FillRound \/ SendFileEnd \/ SendRoundEnd \/ ResetAck \/ RoundAcked \/ ResendMissing
Server == HandleDownloadRequest \/ CheckAck \/ StoreAck
Receiver ==
    \/ HandleDownloadLink \/ HandleFileError
    \/ HandleFileStart \/ HandleFileChunk \/ HandleRoundEnd \/ HandleFileEnd

Next == TransferThread \/ OpenFails \/ AckTimeout \/ Server \/ Receiver \/ DownloadFile

\* Every thread runs on, and a wait with a time limit ends.
Fairness ==
    /\ WF_vars(TransferThread) /\ WF_vars(AckTimeout)
    /\ WF_vars(Server) /\ WF_vars(Receiver)

-----------------------------------------------------------------------------
(* Properties *)

PeerPackets ==
    [type : {"start", "link"}, size : Nat] \cup [type : {"chunk"}, offset : Nat, data : Nat]
      \cup [type : {"roundend"}, round : Nat, count : 0 .. PerRound] \cup [type : {"end", "error"}]
Acks == [type : {"ack"}, round : Nat, missing : SUBSET Slots]
States == [total : Nat, roundBuffer : [Slots -> Nat], round : Nat, offset : Nat]

\* Types of the packets on their way and of both sides of the download.
TypeOK ==
    /\ toPeer \in Seq(PeerPackets) /\ fromPeer \in Seq(Acks \cup {Request})
    /\ tpc \in {"idle", "fill", "roundend", "reset", "wait", "done", "timeout", "failed"}
    /\ tSent \in 0 .. size /\ tCount \in 0 .. PerRound /\ tRound \in Nat
    /\ tAckReceived \in BOOLEAN /\ tMissing \in SUBSET Slots /\ tAck \in Acks \cup {NoAck}
    /\ recievingFile \in BOOLEAN /\ linked \in BOOLEAN /\ requests \in 0 .. MaxRequests
    /\ peer \in States \cup {NoState} /\ copy \in Seq(Nat)
    /\ peerLoss \in 0 .. MaxLoss /\ verdict \in {"none", "ok", "failed"}


=============================================================================
