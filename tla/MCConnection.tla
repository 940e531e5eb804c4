---------------------------- MODULE MCConnection ----------------------------
(* Instance of Connection for TLC: an attempt and its retry on one client.  *)
EXTENDS Connection

=============================================================================
