----------------------------- MODULE MCDesfire -----------------------------
(***************************************************************************)
(* Desfire on small instances.  Key objects of one type are                *)
(* interchangeable, and so are the payloads.                               *)
(***************************************************************************)
EXTENDS Desfire, TLC

Symmetry ==
  Permutations(KeyObjs \ (AesKeys \cup TripleKeys)) \cup Permutations(Payloads)
=============================================================================
