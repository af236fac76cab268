-------------------------- MODULE MC_FileTransfer --------------------------
(* Small instances of FileTransfer for TLC. *)
EXTENDS FileTransfer
=============================================================================
