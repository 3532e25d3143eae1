----------------------------- MODULE MCPlatformBoot -----------------------------
(***************************************************************************)
(* PlatformBoot for TLC, with the ids of the resource tables in apps.      *)
(***************************************************************************)
EXTENDS PlatformBoot

AppRingIds == [r \in Rings |-> r + 1]
================================================================================
