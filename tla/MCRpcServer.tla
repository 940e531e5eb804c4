----------------------------- MODULE MCRpcServer -----------------------------
(* Instance of RpcServer for TLC: few services, starts, requests and strays. *)
EXTENDS RpcServer

==============================================================================
