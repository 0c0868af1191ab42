--------------------------- MODULE MCMetadataClone ---------------------------
(* Symmetry for model checking MetadataClone.  Identifiers of plans and names *)
(* of objects are only compared, so permuting them changes nothing.           *)
EXTENDS MetadataClone, TLC

Symmetry == Permutations(Plans) \cup Permutations(Objects)
=============================================================================
