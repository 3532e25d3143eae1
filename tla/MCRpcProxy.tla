------------------------------- MODULE MCRpcProxy -------------------------------
(***************************************************************************)
(* Redirected system calls for TLC.                                        *)
(***************************************************************************)
EXTENDS RpcProxy

\* Two syscall ids, so that an answer can be that of another call.
SomeSyscalls == {"read", "write"}
================================================================================
