--------------------------- MODULE MCMediaService ---------------------------
(* MediaService, and the entity service in it, for TLC: interchangeable     *)
(* rows and workers.                                                       *)
EXTENDS MediaService, TLC

ASSUME ConstantsOK

Symmetry == Permutations(Id) \cup Permutations(Worker)
=============================================================================
