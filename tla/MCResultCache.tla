--------------------------- MODULE MCResultCache ---------------------------
(* Instance of the result cache for TLC.                                   *)
EXTENDS ResultCache, TLC

\* The addresses are interchangeable; ids are not.
AddressSymmetry == Permutations(Handles) \cup Permutations(Results)
=============================================================================
