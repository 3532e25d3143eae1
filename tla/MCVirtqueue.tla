------------------------------ MODULE MCVirtqueue ------------------------------
(***************************************************************************)
(* Virtqueue for TLC: symmetry of the buffers, and what an assertion says  *)
(* of callers that do not count the free descriptors.                      *)
(***************************************************************************)
EXTENDS Virtqueue, TLC

BufSymmetry == Permutations(Bufs)

\* What vq_ring_add_buffer asserts as it takes the next free descriptor:
\* "premature end of free desc chain" (virtqueue.c:440-441) never happens.
FreeChainLongEnough == m_pc = "add" => AssertNotEnd
================================================================================
