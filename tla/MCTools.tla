------------------------------- MODULE MCTools -------------------------------
(* Instance of Tools for TLC: each tool, and any application that connects twice. *)
EXTENDS Tools

=============================================================================
