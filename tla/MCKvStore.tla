----------------------------- MODULE MCKvStore -----------------------------
(***************************************************************************)
(* Small instances of KvStore for TLC.  Keys and values are interchangeable *)
(* in every definition of the store, so both are symmetry sets.            *)
(***************************************************************************)
EXTENDS KvStore, TLC

KvSymmetry == Permutations(Keys) \cup Permutations(Vals)
=============================================================================
