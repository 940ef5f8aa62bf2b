------------------------- MODULE MCHardwareBuffers -------------------------
(* HardwareBuffers for TLC: the addresses are interchangeable.             *)
EXTENDS HardwareBuffers, TLC

Addresses == Permutations(Buffer)
=============================================================================
