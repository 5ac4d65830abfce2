--------------------------- MODULE MCGuardedWrite ---------------------------
(***************************************************************************)
(* GuardedWrite with few sessions; every session has one lease, so tokens  *)
(* stay below their number.                                                *)
(***************************************************************************)
EXTENDS GuardedWrite, TLC

Symmetry == Permutations(Keys) \cup Permutations(Sessions)
=============================================================================
