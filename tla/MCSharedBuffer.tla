--------------------------- MODULE MCSharedBuffer ---------------------------
(* Model checking SharedBuffer.  Handles, buffers and mapped memory are each
   interchangeable.                                                        *)
EXTENDS SharedBuffer, TLC

Symmetry == Permutations(Handles) \cup Permutations(Buffers) \cup Permutations(Data)
=============================================================================
