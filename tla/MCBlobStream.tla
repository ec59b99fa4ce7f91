---------------------------- MODULE MCBlobStream ----------------------------
(* Model-checking instances of BlobStream.                                 *)
EXTENDS BlobStream

Blob(chunks, tail) == [chunks |-> chunks, tail |-> tail]

\* An empty blob, bytes of one and two chunks, and the three ways a text of two
\* chunks can end.
BytesAndText ==
    {Blob(0, "bytes"), Blob(1, "bytes"), Blob(2, "bytes"),
     Blob(2, "none"), Blob(2, "extra"), Blob(2, "silent")}
=============================================================================
