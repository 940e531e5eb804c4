----------------------------- MODULE MCUdpClient -----------------------------
(* Instance of UdpClient for TLC: a few commands and very few request ids,  *)
(* so that ids wrap around while earlier commands are still in progress.    *)
EXTENDS UdpClient, TLC

Symmetry == Permutations(Sessions)

=============================================================================
