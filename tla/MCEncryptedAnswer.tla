------------------------- MODULE MCEncryptedAnswer -------------------------
(***************************************************************************)
(* EncryptedAnswer with blocks of four bytes, eight for the host, and CRCs *)
(* of two: answers of one or two blocks, of zeros, marks and one other     *)
(* byte; those that fill two blocks are of zeros and the other byte.       *)
(***************************************************************************)
EXTENDS EncryptedAnswer

CONSTANTS Byte, MaxLen

SmallDatas ==
  UNION {[1 .. n -> {Zero, Mark, Byte}] : n \in 1 .. MaxLen}
    \cup [1 .. 2 * Block - CrcLen -> {Zero, Byte}]
=============================================================================
