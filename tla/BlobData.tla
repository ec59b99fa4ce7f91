------------------------------ MODULE BlobData -------------------------------
(***************************************************************************)
(* The data of a Blob: segments of immutable sources, how they are joined, *)
(* cut and read, and what is made of the bytes (blob.rs, limits.rs,        *)
(* endings.rs and mime.rs of boa_fapi_core, read_blob_range of io.rs,      *)
(* package.rs, and the limits of filereader_sync.rs).                      *)
(*                                                                         *)
(* A result is Ok(value) or Err(kind).  Sources are in memory here: files  *)
(* that change under a read are the subject of FileSources.  Sizes stay    *)
(* far below u64::MAX, so the checked additions never fail.                *)
(***************************************************************************)
EXTENDS Integers, Sequences, SequencesExt

CONSTANTS
    MaxSize,         \* max_blob_size
    MaxParts,        \* max_parts
    MaxSegments,     \* max_segments_after_normalize
    MaxMaterialize,  \* max_materialize_bytes
    MaxSync,         \* max_sync_read_bytes
    MaxDataUrl,      \* max_data_url_output
    Chunk,           \* default_chunk_size
    Absent           \* an argument that was not given

\* What FileApiLimits::validate lets pass, but for the range of the chunk size.
ValidLimits ==
    /\ MaxParts \in Nat \ {0} /\ MaxSegments \in Nat \ {0} /\ MaxDataUrl \in Nat \ {0}
    /\ MaxSize \in Nat /\ MaxMaterialize \in Nat /\ MaxSync \in Nat /\ Chunk \in Nat
    /\ 0 < MaxSync /\ MaxSync <= MaxMaterialize /\ MaxMaterialize <= MaxSize
    /\ 0 < Chunk /\ Chunk <= MaxMaterialize

ASSUME LimitsAssumption == ValidLimits

Ok(value) == [ok |-> TRUE, value |-> value]
Err(kind) == [ok |-> FALSE, error |-> kind]

Least(a, b) == IF a <= b THEN a ELSE b
Most(a, b) == IF a >= b THEN a ELSE b

-----------------------------------------------------------------------------
(* Characters.  "w" takes two bytes, "X" is an upper case letter, and a     *)
(* decoder puts "?" for what is no character.                               *)

Utf8(char) == IF char = "w" THEN <<"lead", "trail">> ELSE <<char>>
Encoded(text) == FlattenSeq([k \in DOMAIN text |-> Utf8(text[k])])

\* Blob.type in lower case, or nothing if there is a character it may not have.
NormalizedType(type) ==
    IF \E k \in DOMAIN type : type[k] \in {"w", "CR", "LF"} THEN << >>
    ELSE [k \in DOMAIN type |-> IF type[k] = "X" THEN "x" ELSE type[k]]

\* A line break begins at place k, and is not the LF of a CR LF.
BreaksAt(text, k) ==
    text[k] = "CR" \/ (text[k] = "LF" /\ ~(k > 1 /\ text[k - 1] = "CR"))

\* convert_line_endings_to_native: every break becomes the target.
ToNative(text, target) ==
    FlattenSeq([k \in DOMAIN text |->
        IF BreaksAt(text, k) THEN target
        ELSE IF text[k] = "LF" THEN << >> ELSE <<text[k]>>])

-----------------------------------------------------------------------------
(* Segments.                                                               *)

Segment(bytes) == [source |-> bytes, offset |-> 0, len |-> Len(bytes)]

SumOf(numbers) ==
    LET sum[k \in 0 .. Len(numbers)] == IF k = 0 THEN 0 ELSE sum[k - 1] + numbers[k]
    IN  sum[Len(numbers)]

TotalLen(segments) == SumOf([k \in DOMAIN segments |-> segments[k].len])

EmptyBlob(type) == [segments |-> << >>, size |-> 0, type |-> NormalizedType(type)]

\* The limits of segments, then of bytes, with which a blob of `size` bytes is made.
Sized(segments, size, type) ==
    IF Len(segments) > MaxSegments THEN Err("BlobSegments")
    ELSE IF size > MaxSize THEN Err("BlobSize")
    ELSE Ok([segments |-> segments, size |-> size, type |-> NormalizedType(type)])

\* A blob's size is summed from its segments wherever it is not a slice.
WithinLimits(segments, type) == Sized(segments, TotalLen(segments), type)

NotEmpty(segments) ==
    FlattenSeq([k \in DOMAIN segments |->
        IF segments[k].len = 0 THEN << >> ELSE <<segments[k]>>])

FromSegments(segments, type) ==
    IF \E k \in DOMAIN segments :
          segments[k].offset + segments[k].len > Len(segments[k].source)
    THEN Err("InvalidRange")
    ELSE WithinLimits(NotEmpty(segments), type)

FromBytes(bytes, type) == FromSegments(<<Segment(bytes)>>, type)

ConcatShared(blob, other, type) == WithinLimits(blob.segments \o other.segments, type)

\* Where a segment begins in the blob.
StartOf(segments, k) == TotalLen(SubSeq(segments, 1, k - 1))

\* The part of a segment that is between from and to.
Piece(segment, start, from, to) ==
    LET first == Most(from, start)
        last == Least(to, start + segment.len)
    IN  IF first >= last THEN << >>
        ELSE <<[source |-> segment.source, offset |-> segment.offset + (first - start),
                len |-> last - first]>>

Pieces(segments, from, to) ==
    FlattenSeq([k \in DOMAIN segments |-> Piece(segments[k], StartOf(segments, k), from, to)])

\* Mutant: a segment cut on the left keeps its length.
CutKeepsLength(segments, from, to) ==
    LET pieces == Pieces(segments, from, to)
    IN  IF pieces = << >> \/ Head(pieces).offset = 0 THEN pieces
        ELSE [pieces EXCEPT ![1].len = Least(@ + 1, Len(pieces[1].source) - pieces[1].offset)]

Cut(segments, from, to) == Pieces(segments, from, to)

\* An index from the end when negative, and never past either end.
Relative(index, size, absent) ==
    IF index = Absent THEN absent
    ELSE IF index < 0 THEN Most(size + index, 0) ELSE Least(index, size)

\* A slice's size is the distance of its ends: that its pieces add up to it is
\* what the readers rely on.
Slice(blob, start, end, type) ==
    LET from == Relative(start, blob.size, 0)
        to == Relative(end, blob.size, blob.size)
        kept == IF type = Absent THEN << >> ELSE type
    IN  IF to <= from THEN Ok(EmptyBlob(kept))
        ELSE Sized(Cut(blob.segments, from, to), to - from, kept)

-----------------------------------------------------------------------------
(* Reading.                                                                *)

Read(segment) == SubSeq(segment.source, segment.offset + 1, segment.offset + segment.len)
ReadAll(segments) == FlattenSeq([k \in DOMAIN segments |-> Read(segments[k])])

Materialize(blob) ==
    IF blob.size > MaxMaterialize THEN Err("MaterializeBytes") ELSE Ok(ReadAll(blob.segments))

\* One turn of the loop of read_next: `need` more bytes for this chunk, from place
\* offset of a segment on.
FillStep(segments, at) ==
    IF at.need = 0 THEN at
    ELSE LET s == segments[at.index]
             take == Least(at.need, s.len - at.offset)
             from == s.offset + at.offset
         IN  IF take = 0 THEN [at EXCEPT !.index = @ + 1, !.offset = 0]
             ELSE [at EXCEPT !.bytes = @ \o SubSeq(s.source, from + 1, from + take),
                             !.offset = @ + take, !.need = @ - take]

\* A segment takes two turns at most: what it has, and the step to the next.
Fill(segments, index, offset, need) ==
    LET at[n \in Nat] ==
            IF n = 0 THEN [bytes |-> << >>, index |-> index, offset |-> offset, need |-> need]
            ELSE FillStep(segments, at[n - 1])
    IN  at[2 * Len(segments)]

ReadNext(segments, at) ==
    IF at.remaining = 0 THEN at
    ELSE LET next == Fill(segments, at.index, at.offset, Least(Chunk, at.remaining))
         IN  [chunks |-> Append(at.chunks, next.bytes), index |-> next.index,
              offset |-> next.offset, remaining |-> at.remaining - Len(next.bytes)]

\* BlobData::reader, read to its end: a call gives a byte at least.
ReaderChunks(blob) ==
    LET at[n \in Nat] ==
            IF n = 0 THEN [chunks |-> << >>, index |-> 1, offset |-> 0, remaining |-> blob.size]
            ELSE ReadNext(blob.segments, at[n - 1])
    IN  at[blob.size].chunks

\* Mutant: the end of a range is not moved with the start of its segment.
RangeEndUnmoved(blob, start, end) ==
    FlattenSeq([k \in DOMAIN Pieces(blob.segments, start, end) |->
        LET s == Pieces(blob.segments, start, end)[k]
        IN  SubSeq(s.source, s.offset + 1, Least(s.len, Len(s.source)))])

\* read_blob_range, by which workers read chunks for streams and FileReader.
BlobRange(blob, start, end) == ReadAll(Pieces(blob.segments, start, end))

WorkerChunks(blob) ==
    [k \in 1 .. (blob.size + Chunk - 1) \div Chunk |->
        BlobRange(blob, (k - 1) * Chunk, Least(k * Chunk, blob.size))]

-----------------------------------------------------------------------------
(* Packaging.                                                              *)

\* The decoder of the encoding library, on UTF-8: held is what it keeps of a
\* character that has not ended.
DecodeByte(decoder, byte) ==
    LET lost == IF decoder.held /\ byte # "trail" THEN <<"?">> ELSE << >>
        out == IF byte = "lead" THEN << >>
               ELSE IF byte # "trail" THEN <<byte>>
               ELSE IF decoder.held THEN <<"w">> ELSE <<"?">>
    IN  [text |-> decoder.text \o lost \o out, held |-> byte = "lead"]

\* IncrementalDecoder: a push for every chunk, then finish.
Push(decoder, bytes) ==
    LET after[k \in 0 .. Len(bytes)] ==
            IF k = 0 THEN decoder ELSE DecodeByte(after[k - 1], bytes[k])
    IN  after[Len(bytes)]

DecodeText(chunks) ==
    LET after[k \in 0 .. Len(chunks)] ==
            IF k = 0 THEN [text |-> << >>, held |-> FALSE] ELSE Push(after[k - 1], chunks[k])
        last == after[Len(chunks)]
    IN  last.text \o (IF last.held THEN <<"?">> ELSE << >>)

OctetStream == 24  \* length of "application/octet-stream"
TypeLen(type) == IF type = << >> THEN OctetStream ELSE Len(type)

\* data_url_len, with which a read is refused before it starts.
DataUrlLen(type, size) == ((size + 2) \div 3) * 4 + (TypeLen(type) + 13)

\* Base64: the characters of the bytes in groups of three, filled up with "=".
Base64Len(bytes) ==
    LET chars[n \in Nat] == IF n = 0 THEN 0 ELSE 4 + chars[IF n <= 3 THEN 0 ELSE n - 3]
    IN  chars[Len(bytes)]

\* package_data_url: "data:", the type, ";base64," and the bytes.
PackagedDataUrlLen(type, bytes) == 5 + TypeLen(type) + 8 + Base64Len(bytes)
PackageDataUrl(type, bytes) ==
    IF DataUrlLen(type, Len(bytes)) > MaxDataUrl THEN Err("DataUrlOutput")
    ELSE Ok(PackagedDataUrlLen(type, bytes))

\* FileReaderSync: the limit of synchronous reads, then those of the read.
ReadSync(blob) == IF blob.size > MaxSync THEN Err("SyncRead") ELSE Materialize(blob)

\* readAsArrayBuffer and readAsBinaryString give the bytes, readAsText their text.
ReadPackedSync(blob, asText) ==
    LET bytes == ReadSync(blob)
    IN  IF asText /\ bytes.ok THEN Ok(DecodeText(<<bytes.value>>)) ELSE bytes

ReadAsDataUrlSync(blob) ==
    IF blob.size > MaxSync THEN Err("SyncRead")
    ELSE IF DataUrlLen(blob.type, blob.size) > MaxDataUrl THEN Err("DataUrlOutput")
    ELSE IF ~Materialize(blob).ok THEN Materialize(blob)
    ELSE PackageDataUrl(blob.type, Materialize(blob).value)
=============================================================================
