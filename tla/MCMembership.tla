----------------------------- MODULE MCMembership -----------------------------
(***************************************************************************)
(* Membership on small instances.                                          *)
(***************************************************************************)
EXTENDS Membership, TLC

Symmetry ==
  Permutations(Handlers) \cup Permutations(Drivers) \cup Permutations(Codes)
    \cup Permutations(Spots)
=============================================================================
