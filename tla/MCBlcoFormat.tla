----------------------------- MODULE MCBlcoFormat -----------------------------
(***************************************************************************)
(* Integers of three bits: tensors whose index fits, whose upper half has  *)
(* bits of one mode, and of several, and with modes that tie in length.    *)
(***************************************************************************)
EXTENDS BlcoFormat

SmallTensors == {<<2, 3>>, <<4, 4>>, <<8, 3>>, <<3, 3, 2>>}
===============================================================================
