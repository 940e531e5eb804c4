----------------------------- MODULE MCWriteFile -----------------------------
(* Instance of WriteFile for TLC: files of no, one and two blocks.           *)
EXTENDS WriteFile

==============================================================================
