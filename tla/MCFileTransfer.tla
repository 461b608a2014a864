--------------------------- MODULE MCFileTransfer ---------------------------
(* FileTransfer for TLC: two chunks, an empty file, one more chunk. *)
EXTENDS FileTransfer

MCSizes == <<2, 0, 1>>

=============================================================================
