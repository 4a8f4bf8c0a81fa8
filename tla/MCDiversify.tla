---------------------------- MODULE MCDiversify ----------------------------
(***************************************************************************)
(* Diversify with blocks of two bytes and data of up to three blocks, of   *)
(* zeros and marks: what padding is made of.                               *)
(***************************************************************************)
EXTENDS Diversify, TLC

CONSTANT MaxLen

SmallDatas == UNION {[1 .. n -> Bytes] : n \in 0 .. MaxLen}

NonEmptyDatas == SmallDatas \ {<<>>}

Symmetry == Permutations(Lists) \cup Permutations(BaseKeys)
=============================================================================
