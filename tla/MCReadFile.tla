------------------------------ MODULE MCReadFile ------------------------------
(* Instance of ReadFile for TLC: files of up to three blocks, of which a     *)
(* session stores up to four.                                                *)
EXTENDS ReadFile

===============================================================================
