-------------------------- MODULE MCEntityControls --------------------------
(* Service calls are interchangeable: what they ask for is chosen when each is
   made. *)
EXTENDS EntityControls, TLC

CallSymmetry == Permutations(Calls)
=============================================================================
