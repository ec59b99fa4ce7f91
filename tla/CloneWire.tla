------------------------------ MODULE CloneWire -------------------------------
(***************************************************************************)
(* Structured clone of Blob, File and FileList (clone.rs of boa_fapi_core, *)
(* clone_bridge.rs and the clone operations of extension.rs): an object of *)
(* one runtime becomes a payload, the payload bytes, the bytes are kept by *)
(* the host, where they may be cut short, lengthened or altered, and        *)
(* another runtime makes a payload and an object of them again.            *)
(*                                                                         *)
(* A byte is a digit of Base (256 in the code): words are four of them,    *)
(* timestamps eight.  Of the bytes of a text the last digit is no UTF-8,   *)
(* one before it no character of a type, and 1 the upper case of 0.        *)
(***************************************************************************)
EXTENDS Integers, Sequences

CONSTANTS
    Base,
    MaxBytes,        \* MAX_CLONE_BYTES
    MaxString,       \* MAX_CLONE_STRING_BYTES
    MaxFiles,        \* MAX_CLONE_FILES and MAX_ENCODE_FILES
    MaxMaterialize,  \* max_materialize_bytes of the sender
    MaxSize,         \* max_blob_size of the receiver
    Objects,         \* what there is to clone: a brand and the entries
    Payloads,        \* what a host makes without the runtime
    MaxAltered,      \* bound on the alterations of the bytes
    None

\* Words, least digit first, and what they can say.
WordRange == Base * Base * Base * Base
StampRange == WordRange * WordRange

ASSUME WireAssumption ==
    /\ Base \in Nat /\ Base >= 4
    /\ MaxBytes \in 16 .. WordRange - 1
    /\ MaxString \in Nat /\ MaxFiles \in 0 .. WordRange - 1

Entry(bytes, type, name, stamp) ==
    [bytes |-> bytes, type |-> type, name |-> name, stamp |-> stamp]

\* A Blob has one entry, with neither a name nor a timestamp.
Payload(tag, entries) == [tag |-> tag, entries |-> entries]

Fail(kind) == [ok |-> FALSE, error |-> kind]
At(value, pos) == [ok |-> TRUE, value |-> value, pos |-> pos]

Tags == <<"Blob", "File", "FileList">>
IsUtf8(text) == \A k \in DOMAIN text : text[k] < Base - 1

Normal(type) ==
    IF \E k \in DOMAIN type : type[k] >= Base - 2 THEN << >>
    ELSE [k \in DOMAIN type |-> IF type[k] = 1 THEN 0 ELSE type[k]]

\* What the types of the code allow: a timestamp has a sign.
Digits == 0 .. Base - 1
Texts == Seq(0 .. Base - 2)
Stamps == -(StampRange \div 2) .. (StampRange - 1) \div 2
Entries == [bytes : Seq(Digits), type : Texts, name : Texts, stamp : Stamps]

IsPayload(p) ==
    /\ p \in [tag : {"Blob", "File", "FileList"}, entries : Seq(Entries)]
    /\ p.tag # "FileList" => Len(p.entries) = 1
    /\ p.tag = "Blob" => p.entries[1].name = << >> /\ p.entries[1].stamp = 0

ASSUME PayloadsAssumption ==
    /\ \A p \in Payloads : IsPayload(p)
    /\ \A object \in Objects :
          /\ object \in [brand : {"Blob", "File", "FileList"}, entries : Seq(Entries)]
          /\ object.brand # "FileList" => Len(object.entries) = 1

-----------------------------------------------------------------------------
(* Numbers on the wire: to_le_bytes and from_le_bytes.                     *)

Word(n) ==
    LET second == n \div Base
        third == second \div Base
        fourth == third \div Base
    IN  <<n % Base, second % Base, third % Base, fourth % Base>>

Number(four) == four[1] + Base * (four[2] + Base * (four[3] + Base * four[4]))

StampDigits(stamp) ==
    LET n == stamp % StampRange IN Word(n % WordRange) \o Word(n \div WordRange)

StampOf(eight) ==
    LET n == Number(SubSeq(eight, 1, 4)) + WordRange * Number(SubSeq(eight, 5, 8))
    IN  IF n > (StampRange - 1) \div 2 THEN n - StampRange ELSE n

Magic == <<1, 0, 2, 0>>
Version == 1
TagNumber(tag) == CHOOSE k \in DOMAIN Tags : Tags[k] = tag

-----------------------------------------------------------------------------
(* Encoding.                                                               *)

Put(out, bytes) ==
    IF ~out.ok THEN out
    ELSE IF out.pos + Len(bytes) > MaxBytes THEN Fail("LimitExceeded")
    ELSE At(out.value \o bytes, out.pos + Len(bytes))

\* push_u32 looks at what is there, not at what it adds.
PutWord(out, n) ==
    IF ~out.ok THEN out
    ELSE IF out.pos > MaxBytes THEN Fail("LimitExceeded")
    ELSE At(out.value \o Word(n), out.pos + 4)

PutBytes(out, bytes) == Put(PutWord(out, Len(bytes)), bytes)

PutEntry(out, tag, entry) ==
    LET content == PutBytes(PutBytes(out, entry.bytes), entry.type)
    IN  IF tag = "Blob" THEN content
        ELSE Put(PutBytes(content, entry.name), StampDigits(entry.stamp))

BodyLen(tag, entry) ==
    IF tag = "Blob" THEN Len(entry.bytes) + Len(entry.type) + 8
    ELSE Len(entry.bytes) + Len(entry.type) + Len(entry.name) + 20

\* Mutant: the strings are not looked at before they are written.
FieldsUnchecked(entry) == Len(entry.bytes) <= MaxBytes

\* validate_bytes_len, validate_string_len.
FieldsValid(entry) ==
    Len(entry.bytes) <= MaxBytes /\ Len(entry.type) <= MaxString /\ Len(entry.name) <= MaxString

\* What an encoding will be long, without the count of a list.
TotalLen(payload) ==
    LET total[k \in 0 .. Len(payload.entries)] ==
            IF k = 0 THEN 12 ELSE total[k - 1] + BodyLen(payload.tag, payload.entries[k])
    IN  total[Len(payload.entries)]

\* validate_payload.
Valid(payload) ==
    /\ payload.tag = "FileList" => Len(payload.entries) <= MaxFiles
    /\ \A k \in DOMAIN payload.entries : FieldsValid(payload.entries[k])
    /\ TotalLen(payload) <= MaxBytes

PutEntries(out, tag, entries) ==
    LET after[k \in 0 .. Len(entries)] ==
            IF k = 0 THEN out ELSE PutEntry(after[k - 1], tag, entries[k])
    IN  after[Len(entries)]

Encode(payload) ==
    LET head == PutWord(PutWord(At(Magic, 4), Version), TagNumber(payload.tag))
        list == IF payload.tag = "FileList" THEN PutWord(head, Len(payload.entries)) ELSE head
    IN  IF Valid(payload) THEN PutEntries(list, payload.tag, payload.entries)
        ELSE Fail("LimitExceeded")

-----------------------------------------------------------------------------
(* Decoding: a cursor over the input.                                      *)

Take(input, pos, n) ==
    IF n > MaxBytes \/ n > Len(input) - pos THEN Fail("Malformed")
    ELSE At(SubSeq(input, pos + 1, pos + n), pos + n)

ReadWord(input, pos) ==
    LET four == Take(input, pos, 4)
    IN  IF four.ok THEN At(Number(four.value), four.pos) ELSE four

ReadBytes(input, pos) ==
    LET len == ReadWord(input, pos)
    IN  IF ~len.ok THEN len
        ELSE IF len.value > MaxBytes THEN Fail("LimitExceeded")
        ELSE Take(input, len.pos, len.value)

AsString(text) ==
    IF ~text.ok THEN text
    ELSE IF Len(text.value) > MaxString THEN Fail("LimitExceeded")
    ELSE IF ~IsUtf8(text.value) THEN Fail("Malformed")
    ELSE text

ReadString(input, pos) == AsString(ReadBytes(input, pos))

\* Every read begins where the one before it ended, if that went well.
ReadEntry(input, pos, tag) ==
    LET bytes == ReadBytes(input, pos)
        type == ReadString(input, bytes.pos)
        name == ReadString(input, type.pos)
        stamp == Take(input, name.pos, 8)
    IN  IF ~bytes.ok THEN bytes
        ELSE IF ~type.ok THEN type
        ELSE IF tag = "Blob" THEN At(Entry(bytes.value, type.value, << >>, 0), type.pos)
        ELSE IF ~name.ok THEN name
        ELSE IF ~stamp.ok THEN stamp
        ELSE At(Entry(bytes.value, type.value, name.value, StampOf(stamp.value)), stamp.pos)

With(soFar, entry) ==
    IF ~soFar.ok THEN soFar
    ELSE IF ~entry.ok THEN entry
    ELSE At(Append(soFar.value, entry.value), entry.pos)

ReadNext(input, soFar, tag) == With(soFar, ReadEntry(input, soFar.pos, tag))

ReadEntries(input, pos, tag, count) ==
    LET soFar[k \in 0 .. count] ==
            IF k = 0 THEN At(<< >>, pos) ELSE ReadNext(input, soFar[k - 1], tag)
    IN  soFar[count]

\* An entry of a list has twenty bytes or more, so the rest of the input says
\* how many there can be.
ReadList(input, pos) ==
    LET count == ReadWord(input, pos)
    IN  IF ~count.ok THEN count
        ELSE IF count.value > MaxFiles THEN Fail("LimitExceeded")
        ELSE IF count.value > (Len(input) - count.pos + 19) \div 20 THEN Fail("Malformed")
        ELSE ReadEntries(input, count.pos, "FileList", count.value)

ReadBody(input, pos, tag) ==
    IF tag = "FileList" THEN ReadList(input, pos) ELSE ReadEntries(input, pos, tag, 1)

\* Mutant: what comes after the payload is ignored.
TailIgnored(input, body) == body

\* Cursor::finish.
Finished(input, body) == IF body.ok /\ body.pos # Len(input) THEN Fail("Malformed") ELSE body

AsPayload(tag, body) == IF body.ok THEN At(Payload(tag, body.value), body.pos) ELSE body

Decode(input) ==
    IF Len(input) > MaxBytes THEN Fail("LimitExceeded")
    ELSE IF Len(input) < 12 \/ SubSeq(input, 1, 4) # Magic THEN Fail("Malformed")
    ELSE IF ReadWord(input, 4).value # Version THEN Fail("UnsupportedVersion")
    ELSE IF ReadWord(input, 8).value \notin DOMAIN Tags THEN Fail("Malformed")
    ELSE LET tag == Tags[ReadWord(input, 8).value]
         IN  AsPayload(tag, Finished(input, ReadBody(input, 12, tag)))

-----------------------------------------------------------------------------
(* The operations of the two handles and of the host between them.         *)

VARIABLES
    down,      \* the handles that are shut down: of the sender, of the receiver
    bridge,    \* the clone adapter: none, of this version or of a foreign one
    payload,   \* made by the sender, or by the host
    wire,      \* the bytes of it, as they are now
    altered,   \* how often they were altered since they were encoded
    received,  \* the payload made of them
    result     \* the object made of that

vars == <<down, bridge, payload, wire, altered, received, result>>

Handles == {"sender", "receiver"}

Init ==
    /\ down = {} /\ bridge \in {"none", "current", "foreign"}
    /\ payload = None /\ wire = None /\ altered = 0 /\ received = None /\ result = None

\* clone_blob takes a File for a Blob; the others want their own brand.
Clonable(object, tag) == object.brand = tag \/ (tag = "Blob" /\ object.brand = "File")

\* serialized_blob, serialized_file: all entries, or none.
Serialized(object, tag) ==
    LET entries == [k \in DOMAIN object.entries |->
            IF tag = "Blob" THEN Entry(object.entries[k].bytes, Normal(object.entries[k].type), << >>, 0)
            ELSE [object.entries[k] EXCEPT !.type = Normal(@)]]
        reads == \A k \in DOMAIN entries :
                     Len(entries[k].bytes) <= MaxMaterialize /\ FieldsValid(entries[k])
    IN  IF reads /\ (tag = "FileList" => Len(entries) <= MaxFiles)
        THEN At(Payload(tag, entries), 0) ELSE Fail("LimitExceeded")

CloneAs(tag, object) ==
    /\ payload = None /\ "sender" \notin down /\ Clonable(object, tag)
    /\ Serialized(object, tag).ok /\ payload' = Serialized(object, tag).value
    /\ UNCHANGED <<down, bridge, wire, altered, received, result>>

CloneBlob(object) == CloneAs("Blob", object)
CloneFile(object) == CloneAs("File", object)
CloneFileList(object) == CloneAs("FileList", object)

\* The fields of a payload are public.
MakePayload ==
    /\ payload = None /\ payload' \in Payloads
    /\ UNCHANGED <<down, bridge, wire, altered, received, result>>

\* A bridge of another version is not called.
Compatible == bridge = "current"

\* clone_encode_via_bridge.
EncodeViaBridge ==
    /\ payload # None /\ wire = None /\ "sender" \notin down /\ Compatible
    /\ Encode(payload).ok /\ wire' = Encode(payload).value
    /\ UNCHANGED <<down, bridge, payload, altered, received, result>>

\* What the host keeps is cut, lengthened or altered in a place.
Alter ==
    /\ wire # None /\ altered < MaxAltered /\ received = None /\ altered' = altered + 1
    /\ \/ \E n \in 0 .. Len(wire) - 1 : wire' = SubSeq(wire, 1, n)
       \/ \E digit \in 0 .. Base - 1 : wire' = Append(wire, digit)
       \/ \E k \in DOMAIN wire, digit \in 0 .. Base - 1 :
             wire[k] # digit /\ wire' = [wire EXCEPT ![k] = digit]
    /\ UNCHANGED <<down, bridge, payload, received, result>>

\* clone_decode_via_bridge.
DecodeViaBridge ==
    /\ wire # None /\ received = None /\ "receiver" \notin down /\ Compatible
    /\ Decode(wire).ok /\ received' = Decode(wire).value
    /\ UNCHANGED <<down, bridge, payload, wire, altered, result>>

\* The payload of another kind is refused; types become lower case here.
MadeFrom(tag) ==
    /\ received # None /\ result = None /\ "receiver" \notin down /\ received.tag = tag
    /\ tag = "FileList" => Len(received.entries) <= MaxFiles
    /\ \A k \in DOMAIN received.entries : Len(received.entries[k].bytes) <= MaxSize
    /\ result' = [brand |-> tag,
                  entries |-> [k \in DOMAIN received.entries |->
                                  [received.entries[k] EXCEPT !.type = Normal(@)]]]
    /\ UNCHANGED <<down, bridge, payload, wire, altered, received>>

BlobFromClone == MadeFrom("Blob")
FileFromClone == MadeFrom("File")
FileListFromClone == MadeFrom("FileList")

Shutdown(handle) ==
    /\ handle \notin down /\ down' = down \cup {handle}
    /\ UNCHANGED <<bridge, payload, wire, altered, received, result>>

Next ==
    \/ \E object \in Objects : CloneBlob(object) \/ CloneFile(object) \/ CloneFileList(object)
    \/ MakePayload \/ EncodeViaBridge \/ Alter \/ DecodeViaBridge
    \/ BlobFromClone \/ FileFromClone \/ FileListFromClone
    \/ \E handle \in Handles : Shutdown(handle)

Spec == Init /\ [][Next]_vars

-----------------------------------------------------------------------------
(* Properties.                                                             *)

\* Bytes are the encoding of what they decode to, or do not decode: there is no
\* second way to write a payload, nothing is left over at the end, and whatever
\* was received could have been sent.
CodecStrict == received # None => Encode(received).ok /\ Encode(received).value = wire

\* What was encoded decodes to the same payload, whoever made it, and keeps the
\* limit of the wire; so an object that comes through unaltered has the bytes,
\* names and timestamps of the payload, and its types in lower case.
RoundTrip ==
    /\ wire # None /\ altered = 0 => /\ Decode(wire) = At(payload, Len(wire))
                                  /\ Len(wire) <= MaxBytes
    /\ result # None /\ altered = 0 =>
          /\ result.brand = payload.tag
          /\ result.entries = [k \in DOMAIN payload.entries |->
                                  [payload.entries[k] EXCEPT !.type = Normal(@)]]
=============================================================================
