---------------------------- MODULE FileTransfer ----------------------------
(***************************************************************************)
(* A file on its way from one client through the server to another: the    *)
(* upload, its announcement, and its downloads.  The two halves share the  *)
(* file on the server's disk, downloadableFiles, and the queue of packets  *)
(* for the receiver.                                                       *)
(***************************************************************************)
EXTENDS FileUpload

CONSTANT MaxRequests \* bound: downloads of the file

ASSUME DownloadAssumption == MaxRequests \in Nat

VARIABLES
    fromPeer, tpc, tSent, tCount, tRound, tAckReceived, tMissing, tAck,
    recievingFile, linked, requests, peer, copy, peerLoss, verdict

D == INSTANCE FileDownload

uploadOnly == <<toServer, toClient, wpc, bytesSent, count, round, ackReceived,
                missingChunks, ack, state, loss, completedUpload>>
downloadOnly == <<fromPeer, tpc, tSent, tCount, tRound, tAckReceived, tMissing, tAck,
                  recievingFile, linked, requests, peer, copy, peerLoss, verdict>>
transferVars == <<vars, downloadOnly>>

TransferInit == Init /\ D!Init

TransferNext ==
    \/ Next /\ UNCHANGED downloadOnly
    \/ D!Next /\ UNCHANGED uploadOnly

\* Every thread runs on, and a wait with a time limit ends.
TransferSpec ==
    TransferInit /\ [][TransferNext]_transferVars /\ Fairness /\ D!Fairness

-----------------------------------------------------------------------------
(* Properties *)

\* Types of the packets on their way and of the state of both transfers.
TransferTypeOK == TypeOK /\ D!TypeOK

\* A receiver who has been sent a link can ask for the file at once: it is in
\* downloadableFiles, and it is the whole file that the uploader has sent.
LinkedIsComplete == linked => downloadable /\ disk = File(size)


=============================================================================
