----------------------------- MODULE BlobContents -----------------------------
(***************************************************************************)
(* What the constructors and methods of Blob and File promise: an object   *)
(* is a fixed sequence of bytes, made of what each part held when the      *)
(* constructor came to it, whatever happens to buffers later, and slice is *)
(* by the exact value of its arguments, however large.                     *)
(***************************************************************************)
EXTENDS WebIdlNumbers, Sequences, SequencesExt

CONSTANTS
    Bytes,           \* the contents that buffers and hosts may have
    Texts,
    Encoding(_),     \* the bytes of a text
    Breaks(_, _),    \* the text with its line ends made those of a platform
    Normal(_),       \* what an argument becomes as a type
    Absent,          \* an argument that was not given
    Now              \* what the clock says

VARIABLES
    target,    \* the line end of the platform
    buffers,   \* the bytes of each buffer, none once it is detached
    contents,  \* every Blob and File made so far
    taken,     \* the parts converted so far, in a set: empty when no constructor runs
    asked      \* the last call that made an object, with its arguments

vars == <<target, buffers, contents, taken, asked>>

NoCall == [op |-> "none"]

Object(kind, bytes, type, modified) ==
    [kind |-> kind, bytes |-> bytes, type |-> type, modified |-> modified]

Windows(bytes) == {SubSeq(bytes, i, j) : i \in 1 .. Len(bytes) + 1, j \in 0 .. Len(bytes)}

Init == contents = << >> /\ taken = {} /\ asked = NoCall

Change == /\ \E b \in DOMAIN buffers, bytes \in Bytes \cup {<< >>} :
                buffers' = [buffers EXCEPT ![b] = bytes]
          /\ asked' = NoCall /\ UNCHANGED <<target, contents, taken>>

Begin == /\ taken = {} /\ taken' = {<< >>} /\ buffers' \in [DOMAIN buffers -> Bytes]
         /\ asked' = NoCall /\ UNCHANGED <<target, contents>>

End == taken' = {} /\ \A b \in DOMAIN buffers : buffers'[b] = << >>

\* A part is what it holds at this moment.
Take == /\ \E parts \in taken : \E part \in
              {[text |-> FALSE, bytes |-> w] :
                   w \in UNION {Windows(buffers[b]) : b \in DOMAIN buffers}}
              \cup {[text |-> FALSE, bytes |-> contents[k].bytes] : k \in DOMAIN contents}
              \cup {[text |-> TRUE, bytes |-> t] : t \in Texts} :
              taken' = {Append(parts, part)}
        /\ asked' = NoCall /\ UNCHANGED <<target, buffers, contents>>

Abandon == taken # {} /\ End /\ asked' = NoCall /\ UNCHANGED <<target, contents>>

PartBytes(part, native) ==
    IF ~part.text THEN part.bytes
    ELSE Encoding(IF native THEN Breaks(part.bytes, target) ELSE part.bytes)

\* A timestamp is the integer part of a number, as far as its bits reach.
Stamp(x) ==
    IF x = Absent THEN Now
    ELSE IF x.class = "nan" THEN 0
    ELSE IF x.class = "inf" THEN IF x.sign = 1 THEN IntMax ELSE IntMin
    ELSE CHOOSE n \in IntMin .. IntMax : (n - Truncated(x)) % Pow2[Width] = 0

Make ==
    /\ asked'.op = "make"
    /\ \E parts \in taken :
          contents' = Append(contents, Object(asked'.kind,
              FlattenSeq([k \in DOMAIN parts |-> PartBytes(parts[k], asked'.native)]),
              Normal(asked'.type),
              IF asked'.kind = "File" THEN Stamp(asked'.stamp) ELSE 0))
    /\ End /\ UNCHANGED target

\* The place in a sequence that a number stands for: the nearest one, counted
\* from the end when it is negative, and not past either end.
Place(x, size, absent) ==
    IF x = Absent THEN absent
    ELSE IF x.class = "nan" THEN 0
    ELSE IF x.class = "inf" THEN IF x.sign = 1 THEN size ELSE 0
    ELSE LET n == RoundedTiesEven(x)
             from == IF n < 0 THEN size + n ELSE n
         IN  IF from < 0 THEN 0 ELSE IF from > size THEN size ELSE from

SliceOf ==
    /\ asked'.op = "slice"
    /\ LET whole == contents[asked'.of].bytes
           from == Place(asked'.start, Len(whole), 0)
           to == Place(asked'.end, Len(whole), Len(whole))
       IN  contents' = Append(contents,
               Object("Blob", SubSeq(whole, from + 1, to), Normal(asked'.type), 0))
    /\ UNCHANGED <<target, buffers, taken>>

Copy == /\ \E k \in DOMAIN contents : contents' = Append(contents, contents[k])
        /\ asked' = NoCall /\ UNCHANGED <<target, buffers, taken>>

New == /\ asked'.op = "new"
       /\ contents' = Append(contents, Object(asked'.kind, asked'.bytes, Normal(asked'.type),
                             IF asked'.kind = "File" THEN Now ELSE 0))
       /\ UNCHANGED <<target, buffers, taken>>

Return == asked' = NoCall /\ UNCHANGED <<target, buffers, contents, taken>>

Next == Return \/ Change \/ Begin \/ Take \/ Abandon \/ Make \/ SliceOf \/ Copy \/ New

Spec == Init /\ [][Next]_vars
=============================================================================
