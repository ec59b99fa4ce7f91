----------------------------- MODULE MCBlobValues -----------------------------
(* Instances of BlobValues: both platforms, one buffer, texts whose length    *)
(* depends on the platform, and numbers around every edge of the conversions. *)
EXTENDS BlobValues

TwoTargets == {<<"LF">>, <<"CR", "LF">>}
TwoContents == {<<"a", "b">>, <<"lead", "trail">>}
LastByte == {[offset |-> 1, len |-> 1]}
SomeTexts == {<<"LF", "CR", "LF">>}
SomeTypes == {<<"X">>}

\* 0.5, 1.5 and 2.5 are ties, 10 and -14 do not fit the width.
SomeNumbers ==
    {Special("nan"), Special("inf"), [Special("inf") EXCEPT !.sign = -1],
     Finite(1, 0, -1), Finite(1, 2, 0), Finite(1, 1, 1), Finite(-1, 0, 0), Finite(-1, 2, 0),
     Finite(1, 1, 3), Finite(-1, 3, 3)}

\* 2.5 is cut off, and 40 wraps to a negative one.
SomeStamps ==
    {[Special("inf") EXCEPT !.sign = -1], Finite(-1, 1, 1), Finite(1, 1, 5)}
=============================================================================
