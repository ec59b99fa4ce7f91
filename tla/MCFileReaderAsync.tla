------------------------- MODULE MCFileReaderAsync --------------------------
(* Model-checking instances of FileReaderAsync.                            *)
EXTENDS FileReaderAsync

\* No chunk, one chunk, and the three chunks it takes until a progress event
\* may not be due.
UpToThree == {0, 1, 3}
JustOne == {1}
=============================================================================
