----------------------------- MODULE MCVdevStartup -----------------------------
(***************************************************************************)
(* VdevStartup for TLC, with the ids of the resource tables in apps: 0 for *)
(* the vdev, 1 and 2 for its vrings.                                       *)
(***************************************************************************)
EXTENDS VdevStartup

AppRingIds == [r \in Rings |-> r + 1]
================================================================================
