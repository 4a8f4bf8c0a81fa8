------------------------------ MODULE MCFiles ------------------------------
(***************************************************************************)
(* Files on small instances.  A byte of data is named by the list it was   *)
(* written with and its place there.                                       *)
(***************************************************************************)
EXTENDS Files

CONSTANTS
  Lists,    \* names of byte lists
  Lengths   \* their lengths

NamedContents == {Zero} \cup (Lists \X (1 .. 8))
NamedDatas == {[i \in 1 .. n |-> <<l, i>>] : l \in Lists, n \in Lengths}

SomePermissions ==
  {[read_access |-> 1, write_access |-> 2, read_and_write_access |-> 15,
    change_access |-> 0],
   [read_access |-> 14, write_access |-> 15, read_and_write_access |-> 3,
    change_access |-> 4]}
=============================================================================
