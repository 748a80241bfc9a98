------------------------------- MODULE MCSlab -------------------------------
(* A small pool for TLC. Sizes of chunks are powers of two in the program; the  *)
(* module only needs them to divide the page, and with 3, 4 and 6 of a page of  *)
(* 12 all three kinds are there with four, three and two chunks.              *)
EXTENDS Slab, TLC

Symmetric == Permutations(Clients)

=============================================================================
