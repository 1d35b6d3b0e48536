--------------------------- MODULE MCConfigEntries ---------------------------
(* Two accounts and two vehicles: one that every API knows, and one that the
   EHG API does not list and that is told by its VIN. *)
EXTENDS ConfigEntries, TLC

MCSymmetry == Permutations(Flows) \cup Permutations(Accounts)
=============================================================================
