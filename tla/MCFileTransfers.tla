--------------------------- MODULE MCFileTransfers ---------------------------
(* Instance of FileTransfers for TLC: files of up to three blocks, of which a *)
(* download stores up to four.                                                *)
EXTENDS FileTransfers

===============================================================================
