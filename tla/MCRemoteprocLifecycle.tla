------------------------- MODULE MCRemoteprocLifecycle -------------------------
(***************************************************************************)
(* RemoteprocLifecycle for TLC. Banks have two units: 0..7 is the tightly  *)
(* coupled memory of a real-time core, 40..47 on-chip memory and the end   *)
(* of the address space. Images of one and two segments, inside a bank,    *)
(* across banks and up to the end of one, and one in DDR.                  *)
(***************************************************************************)
EXTENDS RemoteprocLifecycle, TLC

Seg(d, s) == [da |-> d, size |-> s]

SomeImages(p) ==
    CASE p = "RPU_0" -> {<<Seg(1, 4)>>, <<Seg(0, 2), Seg(6, 2)>>, <<Seg(2, 1), Seg(9, 1)>>}
      [] p = "RPU_1" -> {<<Seg(0, 2), Seg(4, 2)>>, <<Seg(4, 1)>>}
      [] p = "APU" -> {<<Seg(41, 4)>>, <<Seg(43, 1), Seg(3, 2)>>}

\* These images are among those the theorems are about.
ASSUME ImagesWithin == SegmentsApart /\ SegmentsWithin
================================================================================
