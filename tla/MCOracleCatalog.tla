--------------------------- MODULE MCOracleCatalog ---------------------------
(* Small instances of OracleCatalog for TLC. *)
EXTENDS OracleCatalog, TLC

Symmetry == Permutations(Owners) \cup Permutations(Codes)
=============================================================================
