------------------------------ MODULE MCW4A4Kit ------------------------------
EXTENDS W4A4Kit

(* The kits: N = 24 is a multiple of two of the three tilings, N = 32 of    *)
(* all; K = 2 is a single tile, and too small for N = 32.                   *)
MCKitShapes == {<<2, 24>>, <<4, 24>>, <<4, 32>>, <<2, 32>>}

=============================================================================
