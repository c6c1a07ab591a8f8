----------------------------- MODULE MCBlcoMttkrp -----------------------------
(***************************************************************************)
(* Instances of BlcoMttkrp for TLC: host blocks of different sizes, cut by *)
(* gen_blcotensor_host with a maximum of two nonzeros.                     *)
(***************************************************************************)
EXTENDS BlcoMttkrp, TLC

CONSTANTS x1, x2, x3, x4, x5, x6

SixNonzeros == {x1, x2, x3, x4, x5, x6}
FourNonzeros == {x1, x2, x3, x4}

\* More blocks than streams; a short block is followed by a full one.
FourBlocks == (0 :> <<x1, x2>>) @@ (1 :> <<x3>>) @@ (2 :> <<x4, x5>>) @@ (3 :> <<x6>>)
ThreeBlocks == (0 :> <<x1, x2>>) @@ (1 :> <<x3>>) @@ (2 :> <<x4>>)
\* Blocks of one full tile and a rest, of less than a tile, and of a tile.
UnevenBlocks == (0 :> <<x1, x2, x3>>) @@ (1 :> <<x4>>) @@ (2 :> <<x5, x6>>)
===============================================================================
