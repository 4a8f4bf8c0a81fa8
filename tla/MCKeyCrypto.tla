---------------------------- MODULE MCKeyCrypto ----------------------------
(***************************************************************************)
(* KeyCrypto on small instances: the key types with key data of every      *)
(* length the caller can come by, and the kinds of key a card has.         *)
(***************************************************************************)
EXTENDS KeyCrypto, TLC

\* 0: no key data; 2: key data given as an integer (util.get_list).
AllKinds == [type : KeyTypes, bytes : {0, 2, 8, 16, 24}]

ProperKinds ==
  [type : {"2K3DES"}, bytes : {8, 16}] \cup [type : {"3K3DES"}, bytes : {24}]
    \cup [type : {"AES"}, bytes : {16}]

Symmetry == Permutations(KeyObjs)
=============================================================================
