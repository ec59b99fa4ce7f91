------------------------------ MODULE BlobValues ------------------------------
(***************************************************************************)
(* Blob and File objects as the bindings make them (webidl.rs, blob.rs,    *)
(* file.rs and the factories of extension.rs).  A constructor converts its *)
(* parts one by one, each with a call into user code before it, so buffers *)
(* are written, transferred away and objects made in between; endings are  *)
(* known only after the last part.                                         *)
(*                                                                         *)
(* A view is the window of a buffer: every buffer has the same length, and *)
(* a transferred one has none.                                             *)
(***************************************************************************)
EXTENDS BlobData, WebIdlNumbers

CONSTANTS
    Buffers,
    Bytes,           \* the contents that buffers and hosts may have, of one length
    Views,           \* windows of a buffer, of an offset and a length
    Texts, Types,
    Targets,         \* the line ends of platforms
    Numbers,         \* doubles that scripts pass to slice
    Stamps,          \* and as lastModified, for the last object that MaxObjects allows
    Now,             \* what the clock says
    MaxObjects       \* bound on the objects made

ASSUME BuffersAssumption ==
    /\ \A bytes \in Bytes : /\ bytes \in Seq(STRING) /\ bytes # << >>
                            /\ \A other \in Bytes : Len(bytes) = Len(other)
                            /\ \A v \in Views : v.offset + v.len <= Len(bytes)
    /\ \A v \in Views : v.offset \in Nat /\ v.len \in Nat

\* An index reaches every byte: a blob has less than 2^63 of them.
ASSUME ValuesAssumption ==
    /\ \A text \in Texts \cup Types \cup Targets : text \in Seq(STRING)
    /\ \A x \in Numbers \cup Stamps : x \in Doubles
    /\ Absent \notin Types \cup Int
    /\ MaxSize <= IntMax

VARIABLES
    target,    \* platform_native_ending, fixed when the program is built
    buffers,   \* the bytes of each buffer, none once it is detached
    objects,   \* Blob and File objects: kind, data and lastModified
    call,      \* the constructor that runs: its converted parts and the lower bound
    asked,     \* the last call that made an object
    refused    \* the last constructor that threw a RangeError, and at what

vars == <<target, buffers, objects, call, asked, refused>>

NoCall == [op |-> "none"]
NotRefused == [at |-> "nothing"]
Running == call.op = "construct"

NoBuffers == [b \in Buffers |-> << >>]

Init ==
    /\ target \in Targets /\ buffers = NoBuffers
    /\ objects = << >> /\ call = NoCall /\ asked = NoCall /\ refused = NotRefused

\* asked and refused tell of a call until it returns to the script.
Quiet == asked' = NoCall /\ refused' = NotRefused
Asked(what) == asked' = what /\ refused' = NotRefused
Idle == asked = NoCall /\ refused = NotRefused

\* Bound on the objects: the constructor that runs has a place for its own.
Room == Len(objects) + (IF Running THEN 1 ELSE 0) < MaxObjects

Return == ~Idle /\ Quiet /\ UNCHANGED <<target, buffers, objects, call>>

-----------------------------------------------------------------------------
(* User code, between the parts of a constructor.                          *)

WriteBuffer(b) ==
    /\ Running /\ buffers[b] # << >>
    /\ \E bytes \in Bytes : buffers' = [buffers EXCEPT ![b] = bytes]
    /\ Quiet /\ UNCHANGED <<target, objects, call>>

Detach(b) ==
    /\ Running /\ buffers[b] # << >> /\ buffers' = [buffers EXCEPT ![b] = << >>]
    /\ Quiet /\ UNCHANGED <<target, objects, call>>

-----------------------------------------------------------------------------
(* Conversion of the parts.                                                *)

Copied(bytes) == [how |-> "copied", bytes |-> bytes]
Shared(data) == [how |-> "shared", data |-> data]
Text(text) == [how |-> "text", text |-> text]

\* array_buffer_bytes and view_bytes: none of a buffer that is detached.
Window(b, v) == IF buffers[b] = << >> THEN << >>
                ELSE SubSeq(buffers[b], v.offset + 1, v.offset + v.len)

Parts == {Copied(buffers[b]) : b \in Buffers}
         \cup {Copied(Window(b, v)) : b \in Buffers, v \in Views}
         \cup {Shared(objects[k].data) : k \in DOMAIN objects}
         \cup {Text(text) : text \in Texts}

\* line_ending_byte_len counts what the conversion would make, without making it.
NativeLen(text) ==
    SumOf([k \in DOMAIN text |->
        IF BreaksAt(text, k) THEN Len(target)
        ELSE IF text[k] = "LF" THEN 0 ELSE Len(Utf8(text[k]))])

\* Mutant: the length of a text is that of the argument.
TransparentBound(part) ==
    IF part.how = "text" THEN Len(Encoded(part.text))
    ELSE IF part.how = "shared" THEN part.data.size ELSE Len(part.bytes)

\* What a part will weigh at least, whatever endings says.
LowerBound(part) ==
    IF part.how = "text" THEN Least(Len(Encoded(part.text)), NativeLen(part.text))
    ELSE IF part.how = "shared" THEN part.data.size ELSE Len(part.bytes)

\* new Blob, new File: nothing is converted yet, from buffers just made.
Begin ==
    /\ ~Running /\ Room
    /\ call' = [op |-> "construct", parts |-> << >>, bound |-> 0]
    /\ buffers' \in [Buffers -> Bytes]
    /\ Quiet /\ UNCHANGED <<target, objects>>

\* The constructor ends, and its buffers are let go.
End == call' = NoCall /\ buffers' = NoBuffers
Throw(why) == End /\ refused' = why /\ asked' = NoCall

\* convert_part on the next value of the iterator.
Convert == Running /\ \E part \in Parts :
    LET bound == call.bound + LowerBound(part)
        whole == Append(call.parts, part)
    IN  /\ IF Len(call.parts) >= MaxParts \/ bound > MaxSize
           THEN Throw([at |-> "conversion", parts |-> whole])
           ELSE /\ call' = [call EXCEPT !.parts = whole, !.bound = bound]
                /\ Quiet /\ UNCHANGED buffers
        /\ UNCHANGED <<target, objects>>

\* An iterator, a DataView without its buffer, a toString, a getter or a value
\* of the options throws: the constructor ends, and nothing is kept.
Abandon ==
    /\ Running /\ Throw(NotRefused) /\ UNCHANGED <<target, objects>>

-----------------------------------------------------------------------------
(* Making of the object, after the options.                                *)

PartBytes(part, native) ==
    IF part.how = "text" THEN Encoded(IF native THEN ToNative(part.text, target) ELSE part.text)
    ELSE part.bytes

\* PartsCollector: a blob of the parts so far, or the error that ended it.
Collect(soFar, part, native) ==
    IF ~soFar.ok THEN soFar
    ELSE LET data == IF part.how = "shared" THEN Ok(part.data)
                     ELSE FromBytes(PartBytes(part, native), << >>)
         IN  IF part.how # "shared" /\ PartBytes(part, native) = << >> THEN soFar
             ELSE IF ~data.ok THEN data
             ELSE ConcatShared(soFar.value, data.value, << >>)

CollectAll(parts, native) ==
    LET soFar[k \in 0 .. Len(parts)] ==
            IF k = 0 THEN Ok(EmptyBlob(<< >>)) ELSE Collect(soFar[k - 1], parts[k], native)
    IN  soFar[Len(parts)]

Collected(parts, native, type) ==
    LET all == CollectAll(parts, native)
    IN  IF all.ok THEN ConcatShared(EmptyBlob(<< >>), all.value, type) ELSE all

\* A Blob has no timestamp, and a File the clock's when the options have none.
Modified(kind, stamp) ==
    IF kind = "Blob" THEN 0 ELSE IF stamp = Absent THEN Now ELSE LongLong(stamp)

Add(kind, data, modified) ==
    objects' = Append(objects, [kind |-> kind, data |-> data, modified |-> modified])

Finish(kind, native, type, stamp) ==
    LET built == Collected(call.parts, native, type)
    IN  /\ Running
        /\ stamp # Absent => kind = "File" /\ Len(objects) + 1 = MaxObjects
        /\ IF built.ok
           THEN /\ Add(kind, built.value, Modified(kind, stamp)) /\ End
                /\ Asked([op |-> "make", kind |-> kind, native |-> native,
                          type |-> type, stamp |-> stamp])
           ELSE /\ Throw([at |-> "processing", parts |-> call.parts, native |-> native])
                /\ UNCHANGED objects
        /\ UNCHANGED target

-----------------------------------------------------------------------------
(* The other ways to an object.                                            *)

Index(x) == IF x = Absent THEN Absent ELSE ClampedLongLong(x)

\* Blob.slice: its limits are never met, for a part has fewer segments and bytes.
CallSlice(k, start, end, type) ==
    LET sliced == Slice(objects[k].data, Index(start), Index(end), type)
    IN  /\ Room
        /\ IF sliced.ok THEN Add("Blob", sliced.value, 0) ELSE UNCHANGED objects
        /\ Asked([op |-> "slice", of |-> k, start |-> start, end |-> end, type |-> type])
        /\ UNCHANGED <<target, buffers, call>>

\* clone_blob and blob_from_clone, or those of File: the bytes are copied, so a
\* clone has one segment, and is refused when it is too large to be read whole.
Clone(k) ==
    LET bytes == Materialize(objects[k].data)
        copy == IF bytes.ok THEN FromBytes(bytes.value, objects[k].data.type) ELSE bytes
    IN  /\ Room /\ copy.ok
        /\ Add(objects[k].kind, copy.value, objects[k].modified)
        /\ Quiet /\ UNCHANGED <<target, buffers, call>>

\* blob_from_bytes and file_from_bytes of the host.
FromHost(kind, bytes, type) ==
    LET data == FromBytes(bytes, type)
    IN  /\ Room /\ data.ok
        /\ Add(kind, data.value, Modified(kind, Absent))
        /\ Asked([op |-> "new", kind |-> kind, bytes |-> bytes, type |-> type])
        /\ UNCHANGED <<target, buffers, call>>

Kinds == {"Blob", "File"}

Next ==
    \/ Return
    \/ Idle /\ \/ \E b \in Buffers : WriteBuffer(b) \/ Detach(b)
               \/ Begin \/ Convert \/ Abandon
               \/ \E kind \in Kinds, native \in BOOLEAN, type \in Types,
                     stamp \in Stamps \cup {Absent} : Finish(kind, native, type, stamp)
               \/ \E k \in DOMAIN objects, start, end \in Numbers \cup {Absent}, type \in Types :
                     CallSlice(k, start, end, type)
               \/ \E k \in DOMAIN objects : Clone(k)
               \/ \E kind \in Kinds, bytes \in Bytes, type \in Types : FromHost(kind, bytes, type)

Spec == Init /\ [][Next]_vars

-----------------------------------------------------------------------------
(* Properties.                                                             *)

\* An object is the bytes its parts held when the constructor came to each, in
\* their order and with the line ends of its options; writes and transfers of a
\* buffer afterwards do not reach it, a slice is by exact numbers although its
\* arguments are clamped and its segments cut, and a clone has the same bytes.
Contents == INSTANCE BlobContents WITH
    contents <- [k \in DOMAIN objects |->
        [kind |-> objects[k].kind, bytes |-> ReadAll(objects[k].data.segments),
         type |-> objects[k].data.type, modified |-> objects[k].modified]],
    taken <- IF ~Running THEN {}
             ELSE {[k \in DOMAIN call.parts |->
                 IF call.parts[k].how = "text" THEN [text |-> TRUE, bytes |-> call.parts[k].text]
                 ELSE [text |-> FALSE,
                       bytes |-> IF call.parts[k].how = "shared"
                                 THEN ReadAll(call.parts[k].data.segments)
                                 ELSE call.parts[k].bytes]]},
    Encoding <- Encoded, Breaks <- ToNative, Normal <- NormalizedType

RefinesContents == Contents!Spec

\* Every way to the bytes of an object reads the same ones: the chunks of
\* BlobReader, the chunks that workers read for streams and FileReader, any
\* part of them, and the whole at once; a text decoded by chunks is the text
\* of the whole, as FileReaderSync reads it; and a data URL is as long as was
\* reckoned before the read.
ReadersAgree == \A k \in DOMAIN objects :
    LET data == objects[k].data
        bytes == ReadAll(data.segments)
    IN  /\ data.size = Len(bytes)
        /\ ReaderChunks(data) = WorkerChunks(data)
        /\ FlattenSeq(ReaderChunks(data)) = bytes
        /\ \A from \in 0 .. Len(bytes), to \in 0 .. Len(bytes) :
              from <= to => BlobRange(data, from, to) = SubSeq(bytes, from + 1, to)
        /\ DecodeText(WorkerChunks(data)) = DecodeText(<<bytes>>)
        /\ ReadPackedSync(data, TRUE).ok =>
              /\ ReadPackedSync(data, TRUE).value = DecodeText(WorkerChunks(data))
              /\ ReadPackedSync(data, FALSE).value = bytes
        /\ PackagedDataUrlLen(data.type, bytes) = DataUrlLen(data.type, data.size)
        /\ ReadAsDataUrlSync(data).ok => ReadAsDataUrlSync(data).value <= MaxDataUrl

\* The bytes and the pieces that parts would make.
PartWeight(part, native) ==
    IF part.how = "shared" THEN part.data.size ELSE Len(PartBytes(part, native))
PartPieces(part, native) ==
    IF part.how = "shared" THEN Len(part.data.segments) ELSE Least(1, Len(PartBytes(part, native)))
Weight(parts, native) == SumOf([k \in DOMAIN parts |-> PartWeight(parts[k], native)])
PieceCount(parts, native) == SumOf([k \in DOMAIN parts |-> PartPieces(parts[k], native)])

\* A constructor throws a RangeError only for what no options, or not the ones
\* it got, could have made within the limits; and nothing it makes is beyond them.
RefusesRightly ==
    /\ refused.at = "conversion" =>
          \/ Len(refused.parts) > MaxParts
          \/ \A native \in BOOLEAN : Weight(refused.parts, native) > MaxSize
    /\ refused.at = "processing" =>
          \/ Weight(refused.parts, refused.native) > MaxSize
          \/ PieceCount(refused.parts, refused.native) > MaxSegments
    /\ \A k \in DOMAIN objects :
          /\ objects[k].data.size <= MaxSize
          /\ Len(objects[k].data.segments) <= MaxSegments
=============================================================================
