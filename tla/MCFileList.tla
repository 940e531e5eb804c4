----------------------------- MODULE MCFileList -----------------------------
(* Instance of FileList for TLC: all data up to a small size. *)
EXTENDS FileList

=============================================================================
