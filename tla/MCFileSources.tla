--------------------------- MODULE MCFileSources ----------------------------
(* Model-checking instances of FileSources.                                *)
EXTENDS FileSources
=============================================================================
