-------------------------------- MODULE MCOrm --------------------------------
(* Instance of the ORM for TLC.                                            *)
EXTENDS Orm, TLC

\* All addresses and slots are interchangeable; columns are not all alike.
AddressSymmetry ==
  Permutations(Objects) \cup Permutations(Handles) \cup Permutations(Scripts)
    \cup Permutations(Queries)
=============================================================================
