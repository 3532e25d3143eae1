----------------------------- MODULE MCRpmsgVirtio -----------------------------
(***************************************************************************)
(* RpmsgVirtio for TLC.                                                    *)
(***************************************************************************)
EXTENDS RpmsgVirtio, TLC

CONSTANTS ma, sa

\* Beside the two receive contexts: one application thread, on either core.
OneOnSlave == sa :> Slave
OneOnMaster == ma :> Master

\* The master's buffer size is a constant: its size check is never skipped.
BigOnMaster == {Master}
BigOnSlave == {Slave}

PayloadSymmetry == Permutations(Payloads)
================================================================================
