---------------------------- MODULE MCMultiCommand ----------------------------
(* Instance of MultiCommand for TLC: a call with a few commands.             *)
EXTENDS MultiCommand

===============================================================================
