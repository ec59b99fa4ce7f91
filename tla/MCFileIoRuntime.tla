-------------------------- MODULE MCFileIoRuntime ---------------------------
(* Model-checking instances of FileIoRuntime.                              *)
EXTENDS FileIoRuntime, TLC

\* The reads that are not oversized and the workers are interchangeable.
Symmetry == Permutations(Reads \ Oversized) \cup Permutations(Workers)
=============================================================================
