------------------------- MODULE FileSourcesProofs --------------------------
(* Theorems about FileSources, for every number of files, workers, ids,     *)
(* chunks and writes.                                                       *)
EXTENDS FileSources, TLAPS

USE FileAssumption

-----------------------------------------------------------------------------
(* The inductive invariant.                                                *)

\* Ids that the counter has not reached were never handed out.
FreshInv == nextId # 1 => \A id \in Ids : id >= nextId => issued[id] = NoSlot

\* A file keeps its name: the metadata of an open handle are those of one file.
NameInv == \A f \in Files : file[f].name = f

\* Versions only grow.
VersionInv == \A id \in Ids : issued[id] # NoSlot => issued[id].version <= Live(id).version

\* A read that began is of an id that was handed out.
Begun(w) == read[w].stage # "end" \/ read[w].outcome = "ok" \/ read[w].late

BegunInv(w) ==
    /\ Begun(w) => issued[read[w].id] # NoSlot
    /\ read[w].outcome = "reading" <=> read[w].stage \notin {"close", "end"}
    /\ read[w].source = "copy" => read[w].chunk = 0

\* The pieces that were there when the chunk under way began.
Earlier(w) == read[w].chunk * Pieces

\* How many pieces a read has at each stage.
CountInv(w) ==
    /\ read[w].stage \in {"begin", "outerBefore", "innerBefore", "policy"} =>
          Len(read[w].got) = Earlier(w)
    /\ read[w].stage = "bytes" =>
          Earlier(w) <= Len(read[w].got) /\ Len(read[w].got) < Wanted(w)
    /\ read[w].stage \in {"innerAfter", "outerAfter"} => Len(read[w].got) = Wanted(w)
    /\ \/ read[w].stage \in Probes \cup {"bytes"}
       \/ read[w].stage = "begin" /\ read[w].chunk # 0
       => issued[read[w].id].size = Size

\* What was read lies between the registered version and the present one.
GotInv(w) ==
    read[w].outcome = "reading" =>
        \A i \in 1 .. Len(read[w].got) :
            /\ issued[read[w].id].version <= read[w].got[i]
            /\ read[w].got[i] <= Live(read[w].id).version

\* SuccessIsImported, of one worker.
OkInv(w) ==
    read[w].outcome = "ok" =>
        read[w].got = [i \in 1 .. issued[read[w].id].size |-> issued[read[w].id].version]

\* A read that began late finds no file.
LateInv(w) ==
    read[w].late =>
        /\ slots[read[w].id] = NoSlot
        /\ ~read[w].handle
        /\ read[w].outcome = "ok" => issued[read[w].id].size = 0

ReaderInv(w) == BegunInv(w) /\ CountInv(w) /\ GotInv(w) /\ OkInv(w) /\ LateInv(w)

\* With TypeOK, inductive.
FileInv == FreshInv /\ NameInv /\ VersionInv /\ \A w \in Workers : ReaderInv(w)

-----------------------------------------------------------------------------
(* Types.                                                                  *)

\* A file that is not empty has at least one piece.
LEMMA SizePositive == Size \in Nat \ {0}
BY DEF Size

\* The counter stays among the ids.
LEMMA CounterTypes ==
    ASSUME TypeOK
    PROVE  Drawn \in Ids /\ NextId \in 1 .. IdSpace - 1
BY DEF TypeOK, Drawn, NextId, Ids

\* A handed-out id stands for the metadata of a file.
LEMMA IssuedTypes ==
    ASSUME TypeOK, NEW id \in Ids, issued[id] # NoSlot
    PROVE  issued[id] \in Metadata /\ Live(id) \in Metadata
<1>1. issued[id] \in Metadata
  BY DEF TypeOK
<1> QED
  BY <1>1 DEF TypeOK, Metadata, Live

\* One read that changes for a well-typed one keeps them all well typed.
LEMMA ReadTypes ==
    ASSUME TypeOK, NEW w \in Workers
    PROVE  /\ read[w] \in Read
           /\ \A r \in Read : [read EXCEPT ![w] = r] \in [Workers -> Read]
BY DEF TypeOK

\* A read that goes on to another stage is well typed.
LEMMA MovesTypes ==
    ASSUME TypeOK, NEW w \in Workers, NEW stage \in Probes \cup {"begin", "bytes", "close", "end"},
           Moves(w, stage)
    PROVE  read' \in [Workers -> Read]
<1> DEFINE r == [read[w] EXCEPT !.stage = stage, !.handle = FALSE]
<1>1. r \in Read
  BY ReadTypes DEF Read
<1>2. read' = [read EXCEPT ![w] = r]
  BY DEF TypeOK, Moves
<1> QED
  BY <1>1, <1>2, ReadTypes

\* A read that ends is well typed.
LEMMA EndsTypes ==
    ASSUME TypeOK, NEW w \in Workers, NEW outcome \in Outcomes, Ends(w, outcome)
    PROVE  read' \in [Workers -> Read]
<1> DEFINE stage == IF read[w].source = "copy" THEN "close" ELSE "end"
           r == [read[w] EXCEPT !.stage = stage, !.outcome = outcome, !.handle = FALSE]
<1>1. stage \in {"close", "end"}
  OBVIOUS
<1> HIDE DEF stage
<1>2. r \in Read
  BY <1>1, ReadTypes DEF Read
<1>3. read' = [read EXCEPT ![w] = r]
  BY DEF TypeOK, Ends, stage
<1> QED
  BY <1>2, <1>3, ReadTypes

\* What follows a probe is a stage, or the end of the chunk.
LEMMA AfterTypes ==
    ASSUME TypeOK, NEW w \in Workers, read[w].stage \in Probes
    PROVE  After(w) \in Probes \cup {"bytes", "done"}
BY DEF After, Probes

\* A worker's step keeps its read well typed.
LEMMA WorkTypes ==
    ASSUME TypeOK, NEW w \in Workers, BegunInv(w), Work(w)
    PROVE  read' \in [Workers -> Read]
<1>1. CASE BeginChunk(w)
  <2>1. First(w) \in Probes
    BY DEF First, Probes
  <2> QED
    BY <1>1, <2>1, EndsTypes, MovesTypes DEF BeginChunk, Outcomes
<1>2. CASE CloneHandle(w)
  <2>1. CASE slots[read[w].id] # NoSlot
    <3> DEFINE r == [read[w] EXCEPT !.handle = TRUE]
    <3>1. r \in Read
      BY ReadTypes DEF Read
    <3>2. read' = [read EXCEPT ![w] = r]
      BY <1>2, <2>1 DEF CloneHandle, TypeOK
    <3> QED
      BY <3>1, <3>2, ReadTypes
  <2>2. CASE slots[read[w].id] = NoSlot
    BY <1>2, <2>2, EndsTypes DEF CloneHandle, Outcomes
  <2> QED
    BY <2>1, <2>2
<1>3. CASE Probe(w)
  <2>1. CASE ChunkDone(w)
    <3>1. CASE read[w].chunk = Chunks - 1 \/ read[w].source = "copy"
      BY <2>1, <3>1, EndsTypes DEF ChunkDone, Outcomes
    <3>2. CASE ~(read[w].chunk = Chunks - 1 \/ read[w].source = "copy")
      <4> DEFINE chunk == read[w].chunk + 1
                 r == [read[w] EXCEPT !.stage = "begin", !.handle = FALSE, !.chunk = chunk]
      <4>1. read[w].chunk \in 0 .. Chunks - 1 /\ read[w].chunk # Chunks - 1
        BY <3>2, ReadTypes DEF Read
      <4>2. chunk \in 0 .. Chunks - 1
        BY <4>1
      <4> HIDE DEF chunk
      <4>3. r \in Read
        BY <4>2, ReadTypes DEF Read
      <4>4. read' = [read EXCEPT ![w] = r]
        BY <2>1, <3>2 DEF ChunkDone, TypeOK, chunk
      <4> QED
        BY <4>3, <4>4, ReadTypes
    <3> QED
      BY <3>1, <3>2
  <2>2. CASE Ends(w, "changed") \/ Ends(w, "cancelled")
    BY <2>2, EndsTypes DEF Outcomes
  <2>3. CASE After(w) # "done" /\ Moves(w, After(w))
    BY <1>3, <2>3, AfterTypes, MovesTypes DEF Probe
  <2> QED
    BY <1>3, <2>1, <2>2, <2>3 DEF Probe
<1>4. CASE ReadPiece(w)
  <2> DEFINE got == Append(read[w].got, Live(read[w].id).version)
  <2>1. got \in Seq(0 .. MaxWrites)
    <3>1. issued[read[w].id] # NoSlot /\ read[w].id \in Ids
      BY <1>4 DEF ReadPiece, BegunInv, Begun, TypeOK, Read
    <3>2. Live(read[w].id).version \in 0 .. MaxWrites
      BY <3>1, IssuedTypes DEF Metadata
    <3> QED
      BY <3>2 DEF TypeOK, Read
  <2>2. CASE Ends(w, "range")
    BY <2>2, EndsTypes DEF Outcomes
  <2> HIDE DEF got
  <2>3. CASE read' = [read EXCEPT ![w].got = got]
    <3>1. [read[w] EXCEPT !.got = got] \in Read
      BY <2>1, ReadTypes DEF Read
    <3> QED
      BY <2>3, <3>1, ReadTypes DEF TypeOK
  <2>4. CASE read' = [read EXCEPT ![w].got = got, ![w].stage = "innerAfter", ![w].handle = FALSE]
    <3> DEFINE r == [read[w] EXCEPT !.got = got, !.stage = "innerAfter", !.handle = FALSE]
    <3>1. r \in Read
      BY <2>1, ReadTypes DEF Read, Probes
    <3>2. read' = [read EXCEPT ![w] = r]
      BY <2>4 DEF TypeOK
    <3> QED
      BY <3>1, <3>2, ReadTypes
  <2> QED
    BY <1>4, <2>2, <2>3, <2>4 DEF ReadPiece, got
<1>5. CASE CopyCloses(w)
  BY <1>5, MovesTypes DEF CopyCloses
<1> QED
  BY <1>1, <1>2, <1>3, <1>4, <1>5 DEF Work

\* Every step keeps the types.
LEMMA TypePreserved ==
    ASSUME TypeOK, FileInv, [Next]_vars
    PROVE  TypeOK'
<1>1. CASE UNCHANGED vars
  BY <1>1 DEF vars, TypeOK
<1>2. ASSUME NEW f \in Files, Write(f) \/ Register(f)
      PROVE  TypeOK'
  <2>1. CASE Write(f)
    <3>1. PICK size \in {0, Size} :
            file' = [file EXCEPT ![f].version = @ + 1, ![f].size = size]
      BY <2>1 DEF Write
    <3>2. file[f] \in Metadata /\ file[f].version < MaxWrites
      BY <2>1 DEF Write, TypeOK
    <3> DEFINE version == file[f].version + 1
    <3>3. version \in 0 .. MaxWrites
      BY <3>2 DEF Metadata
    <3>4. file' = [file EXCEPT ![f] = [file[f] EXCEPT !.version = version, !.size = size]]
      BY <3>1 DEF TypeOK
    <3> HIDE DEF version
    <3>5. [file[f] EXCEPT !.version = version, !.size = size] \in Metadata
      BY <3>2, <3>3 DEF Metadata
    <3>6. file' \in [Files -> Metadata]
      BY <3>4, <3>5 DEF TypeOK
    <3> QED
      BY <2>1, <3>6 DEF Write, TypeOK
  <2>2. CASE Register(f)
    BY <2>2, CounterTypes DEF Register, TypeOK
  <2> QED
    BY <1>2, <2>1, <2>2
<1>3. ASSUME NEW id \in Ids, Import(id) \/ Close(id)
      PROVE  TypeOK'
  BY <1>3 DEF Import, Close, TypeOK
<1>4. CASE CloseAll \/ CloseFlag \/ RunClosers \/ CancelRuntime
  BY <1>4 DEF CloseAll, CloseFlag, RunClosers, CancelRuntime, TypeOK
<1>5. ASSUME NEW w \in Workers, Work(w)
      PROVE  TypeOK'
  <2>1. read' \in [Workers -> Read]
    BY <1>5, WorkTypes DEF FileInv, ReaderInv
  <2>2. CASE UNCHANGED rest
    BY <2>1, <2>2 DEF TypeOK, rest
  <2>3. CASE CopyCloses(w)
    BY <2>1, <2>3 DEF TypeOK, CopyCloses
  <2> QED
    BY <1>5, <2>2, <2>3 DEF Work, BeginChunk, CloneHandle, Probe, ReadPiece
<1>6. ASSUME NEW w \in Workers,
             Cancel(w) \/ \E source \in Sources, id \in Ids : Start(w, source, id)
      PROVE  TypeOK'
  <2>1. CASE Cancel(w)
    <3>1. read' \in [Workers -> Read]
      <4>1. read[w] \in Read
        BY DEF TypeOK
      <4>2. [read[w] EXCEPT !.cancelled = TRUE] \in Read
        BY <4>1 DEF Read
      <4>3. read' = [read EXCEPT ![w] = [read[w] EXCEPT !.cancelled = TRUE]]
        BY <2>1 DEF Cancel
      <4> QED
        BY <4>2, <4>3 DEF TypeOK
    <3> QED
      BY <2>1, <3>1 DEF Cancel, TypeOK, rest
  <2>2. ASSUME NEW source \in Sources, NEW id \in Ids, Start(w, source, id)
        PROVE  TypeOK'
    <3>1. read'[w] \in Read
      BY <2>2 DEF Start, TypeOK, Read, Outcomes
    <3>2. read' \in [Workers -> Read]
      BY <2>2, <3>1 DEF Start, TypeOK
    <3> QED
      BY <2>2, <3>2 DEF Start, TypeOK, rest
  <2> QED
    BY <1>6, <2>1, <2>2
<1> QED
  BY <1>1, <1>2, <1>3, <1>4, <1>5, <1>6 DEF Next

-----------------------------------------------------------------------------
(* What one read's step leaves of it.                                       *)

Same(w) ==
    /\ read'[w].source = read[w].source
    /\ read'[w].id = read[w].id
    /\ read'[w].chunk = read[w].chunk
    /\ read'[w].got = read[w].got
    /\ read'[w].late = read[w].late

OthersSame(w) == \A v \in Workers : v # w => read'[v] = read[v]

\* The fields of a read that goes on.
LEMMA MovesFields ==
    ASSUME TypeOK, NEW w \in Workers, NEW stage, Moves(w, stage)
    PROVE  /\ Same(w) /\ OthersSame(w)
           /\ read'[w].outcome = read[w].outcome
           /\ read'[w].stage = stage
           /\ read'[w].handle = FALSE
<1>1. read'[w] = [read[w] EXCEPT !.stage = stage, !.handle = FALSE] /\ OthersSame(w)
  BY DEF TypeOK, Moves, OthersSame
<1> QED
  BY <1>1, ReadTypes DEF Same, Read

\* The fields of a read that ends.
LEMMA EndsFields ==
    ASSUME TypeOK, NEW w \in Workers, NEW outcome, Ends(w, outcome)
    PROVE  /\ Same(w) /\ OthersSame(w)
           /\ read'[w].outcome = outcome
           /\ read'[w].stage \in {"close", "end"}
           /\ read'[w].handle = FALSE
<1> DEFINE stage == IF read[w].source = "copy" THEN "close" ELSE "end"
<1>1. stage \in {"close", "end"}
  OBVIOUS
<1>2. /\ read'[w] = [read[w] EXCEPT !.stage = stage, !.outcome = outcome, !.handle = FALSE]
      /\ OthersSame(w)
  BY DEF TypeOK, Ends, OthersSame
<1> HIDE DEF stage
<1> QED
  BY <1>1, <1>2, ReadTypes DEF Same, Read

\* A sequence of one value.
LEMMA ConstantSeq ==
    ASSUME NEW S, NEW s \in Seq(S), NEW v, \A i \in 1 .. Len(s) : s[i] = v
    PROVE  s = [i \in 1 .. Len(s) |-> v]
OBVIOUS

\* A worker's chunk is worth at least one piece.
LEMMA ChunkGrows ==
    ASSUME TypeOK, NEW w \in Workers, BegunInv(w)
    PROVE  /\ Earlier(w) \in Nat /\ Wanted(w) \in Nat
           /\ Earlier(w) < Wanted(w)
<1>1. read[w].chunk \in Nat
  BY ReadTypes DEF Read
<1>2. Earlier(w) \in Nat /\ (read[w].chunk + 1) * Pieces = Earlier(w) + Pieces
  BY <1>1 DEF Earlier
<1>3. CASE read[w].source = "copy"
  <2>1. read[w].chunk = 0
    BY <1>3 DEF BegunInv
  <2>2. Earlier(w) = 0
    BY <2>1 DEF Earlier
  <2> QED
    BY <1>3, <2>2, SizePositive DEF Wanted
<1>4. CASE read[w].source # "copy"
  BY <1>2, <1>4 DEF Wanted
<1> QED
  BY <1>3, <1>4

-----------------------------------------------------------------------------
(* Every step keeps what is known of a read.                                *)

\* Others keep a read whose file is still the one it began with.
LEMMA SteadyKept ==
    ASSUME TypeOK, TypeOK', NEW v \in Workers, ReaderInv(v), read'[v] = read[v],
           Begun(v) =>
              /\ issued'[read[v].id] = issued[read[v].id]
              /\ slots[read[v].id] = NoSlot => slots'[read[v].id] = NoSlot
              /\ Live(read[v].id).version <= Live(read[v].id)'.version
    PROVE  ReaderInv(v)'
<1> DEFINE id == read[v].id
<1>1. BegunInv(v)'
  BY DEF ReaderInv, BegunInv, Begun
<1>2. CountInv(v)'
  <2>1. Earlier(v)' = Earlier(v) /\ Wanted(v)' = Wanted(v)
    BY DEF Earlier, Wanted
  <2> QED
    BY <2>1 DEF ReaderInv, CountInv, Begun, Probes
<1>3. GotInv(v)'
  <2> SUFFICES ASSUME read[v].outcome = "reading", NEW i \in 1 .. Len(read[v].got)
               PROVE  /\ issued'[id].version <= read[v].got[i]
                      /\ read[v].got[i] <= Live(id)'.version
    BY DEF GotInv
  <2>1. Begun(v) /\ id \in Ids /\ issued[id] # NoSlot /\ read[v].got[i] \in Nat
    BY ReadTypes DEF ReaderInv, BegunInv, Begun, Read
  <2>2. Live(id).version \in Nat /\ Live(id)'.version \in Nat
    <3>1. issued'[id] = issued[id]
      BY <2>1
    <3>2. issued[id].name \in Files
      BY <2>1, IssuedTypes DEF Metadata
    <3>3. Live(id)' = file'[issued[id].name]
      BY <3>1 DEF Live
    <3> QED
      BY <3>2, <3>3 DEF TypeOK, Metadata, Live
  <2>3. issued[id].version <= read[v].got[i] /\ read[v].got[i] <= Live(id).version
    BY DEF ReaderInv, GotInv
  <2> QED
    BY <2>1, <2>2, <2>3
<1>4. OkInv(v)' /\ LateInv(v)'
  BY DEF ReaderInv, OkInv, LateInv, Begun
<1> QED
  BY <1>1, <1>2, <1>3, <1>4 DEF ReaderInv

\* A read that ends keeps its invariant, if a success is what it has to be.
LEMMA EndsKept ==
    ASSUME TypeOK, NEW w \in Workers, ReaderInv(w), UNCHANGED rest,
           NEW outcome \in Outcomes \ {"reading"}, Ends(w, outcome),
           read[w].outcome = "reading",
           outcome = "ok" =>
              /\ read[w].got = [i \in 1 .. issued[read[w].id].size |->
                                   issued[read[w].id].version]
              /\ read[w].late => issued[read[w].id].size = 0
    PROVE  ReaderInv(w)'
<1>1. /\ Same(w) /\ read'[w].outcome = outcome
      /\ read'[w].stage \in {"close", "end"} /\ read'[w].handle = FALSE
  BY EndsFields
<1>2. issued[read[w].id] # NoSlot
  BY DEF ReaderInv, BegunInv, Begun
<1>3. BegunInv(w)'
  BY <1>1, <1>2 DEF ReaderInv, BegunInv, Begun, Same, rest
<1>4. CountInv(w)'
  BY <1>1 DEF CountInv, Probes
<1>5. GotInv(w)'
  BY <1>1 DEF GotInv
<1>6. OkInv(w)' /\ LateInv(w)'
  BY <1>1 DEF ReaderInv, OkInv, LateInv, Same, rest
<1> QED
  BY <1>3, <1>4, <1>5, <1>6 DEF ReaderInv

\* So does one that goes on, if the pieces are as many as the next stage needs.
LEMMA MovesKept ==
    ASSUME TypeOK, NEW w \in Workers, ReaderInv(w), UNCHANGED rest,
           NEW stage \in Probes \cup {"bytes"}, Moves(w, stage),
           read[w].outcome = "reading",
           issued[read[w].id].size = Size,
           IF stage \in {"innerAfter", "outerAfter"}
           THEN Len(read[w].got) = Wanted(w)
           ELSE Len(read[w].got) = Earlier(w)
    PROVE  ReaderInv(w)'
<1>1. /\ Same(w) /\ read'[w].outcome = "reading"
      /\ read'[w].stage = stage /\ read'[w].handle = FALSE
  BY MovesFields
<1>2. BegunInv(w)'
  BY <1>1 DEF ReaderInv, BegunInv, Begun, Same, rest, Probes
<1>3. CountInv(w)'
  <2>1. Earlier(w)' = Earlier(w) /\ Wanted(w)' = Wanted(w)
    BY <1>1 DEF Earlier, Wanted, Same
  <2>2. Earlier(w) \in Nat /\ Wanted(w) \in Nat /\ Earlier(w) < Wanted(w)
    BY ChunkGrows DEF ReaderInv
  <2> QED
    BY <1>1, <2>1, <2>2 DEF CountInv, Probes, Same, rest
<1>4. GotInv(w)'
  BY <1>1 DEF ReaderInv, GotInv, Same, Live, rest
<1>5. OkInv(w)' /\ LateInv(w)'
  BY <1>1 DEF ReaderInv, OkInv, LateInv, Same, rest
<1> QED
  BY <1>2, <1>3, <1>4, <1>5 DEF ReaderInv

\* The first probe of a chunk.
LEMMA BeginChunkKept ==
    ASSUME TypeOK, NEW w \in Workers, ReaderInv(w), BeginChunk(w)
    PROVE  ReaderInv(w)'
<1>1. /\ read[w].stage = "begin" /\ read[w].outcome = "reading" /\ UNCHANGED rest
      /\ read[w].id \in Ids /\ issued[read[w].id] # NoSlot
      /\ Len(read[w].got) = Earlier(w)
  BY ReadTypes DEF BeginChunk, ReaderInv, BegunInv, Begun, CountInv, Read
<1>2. CASE Ends(w, "cancelled")
  BY <1>1, <1>2, EndsKept DEF Outcomes
<1>3. CASE Ends(w, "ok") /\ issued[read[w].id].size = 0
  <2>1. read[w].chunk = 0
    BY <1>1, <1>3, SizePositive DEF ReaderInv, CountInv
  <2>2. Len(read[w].got) = 0
    BY <1>1, <2>1 DEF Earlier
  <2>3. read[w].got = [i \in 1 .. 0 |-> issued[read[w].id].version]
    BY <2>2, ReadTypes, ConstantSeq DEF Read
  <2> QED
    BY <1>1, <1>3, <2>3, EndsKept DEF Outcomes
<1>4. CASE Moves(w, First(w)) /\ issued[read[w].id].size # 0
  <2>1. issued[read[w].id].size = Size
    BY <1>1, <1>4, IssuedTypes DEF Metadata
  <2>2. First(w) \in {"outerBefore", "innerBefore"}
    BY DEF First
  <2> QED
    BY <1>1, <1>4, <2>1, <2>2, MovesKept DEF Probes
<1> QED
  BY <1>2, <1>3, <1>4 DEF BeginChunk

\* A handle is taken only while the slot is there.
LEMMA CloneHandleKept ==
    ASSUME TypeOK, NEW w \in Workers, ReaderInv(w), CloneHandle(w)
    PROVE  ReaderInv(w)'
<1>1. read[w].outcome = "reading" /\ UNCHANGED rest
  BY DEF CloneHandle, ReaderInv, BegunInv, Probes
<1>2. CASE Ends(w, "missing")
  BY <1>1, <1>2, EndsKept DEF Outcomes
<1>3. CASE slots[read[w].id] # NoSlot /\ read' = [read EXCEPT ![w].handle = TRUE]
  <2>1. read'[w] = [read[w] EXCEPT !.handle = TRUE]
    BY <1>3 DEF TypeOK
  <2>2. /\ Same(w)
        /\ read'[w].stage = read[w].stage /\ read'[w].outcome = read[w].outcome
    BY <2>1, ReadTypes DEF Same, Read
  <2>3. ~read[w].late
    BY <1>3 DEF ReaderInv, LateInv
  <2> QED
    BY <1>1, <2>2, <2>3 DEF ReaderInv, BegunInv, Begun, CountInv, Earlier, Wanted, GotInv,
                            Live, OkInv, LateInv, Same, rest
<1> QED
  BY <1>2, <1>3 DEF CloneHandle

\* A probe that found the registered file vouches for every piece read so far.
LEMMA ProbeKept ==
    ASSUME TypeOK, NEW w \in Workers, ReaderInv(w), Probe(w)
    PROVE  ReaderInv(w)'
<1>1. /\ read[w].stage \in Probes /\ read[w].outcome = "reading" /\ UNCHANGED rest
      /\ read[w].id \in Ids /\ issued[read[w].id] # NoSlot
      /\ issued[read[w].id].size = Size
      /\ ~read[w].late
  BY ReadTypes DEF Probe, ReaderInv, BegunInv, Begun, CountInv, LateInv, Probes, Read
<1>2. CASE Ends(w, "changed") \/ Ends(w, "cancelled")
  BY <1>1, <1>2, EndsKept DEF Outcomes
<1>3. CASE After(w) # "done" /\ Moves(w, After(w))
  <2>1. /\ After(w) \in Probes \cup {"bytes"}
        /\ IF After(w) \in {"innerAfter", "outerAfter"}
           THEN read[w].stage = "innerAfter"
           ELSE read[w].stage \in {"outerBefore", "innerBefore", "policy"}
    BY <1>1, <1>3 DEF After, Probes
  <2>2. IF After(w) \in {"innerAfter", "outerAfter"}
        THEN Len(read[w].got) = Wanted(w)
        ELSE Len(read[w].got) = Earlier(w)
    BY <2>1 DEF ReaderInv, CountInv
  <2> QED
    BY <1>1, <1>3, <2>1, <2>2, MovesKept
<1>4. CASE Unchanged(w) /\ After(w) = "done" /\ ChunkDone(w)
  <2>1. Len(read[w].got) = Wanted(w)
    <3>1. read[w].stage \in {"innerAfter", "outerAfter"}
      BY <1>1, <1>4 DEF After, Probes
    <3> QED
      BY <3>1 DEF ReaderInv, CountInv
  <2>2. CASE Ends(w, "ok") /\ (read[w].chunk = Chunks - 1 \/ read[w].source = "copy")
    <3>1. Wanted(w) = Size
      BY <2>2 DEF Wanted, Size
    <3>2. \A i \in 1 .. Len(read[w].got) : read[w].got[i] = issued[read[w].id].version
      <4>1. Live(read[w].id).version = issued[read[w].id].version
        BY <1>4 DEF Unchanged
      <4>2. issued[read[w].id].version \in Nat
        BY <1>1, IssuedTypes DEF Metadata
      <4>3. \A i \in 1 .. Len(read[w].got) : read[w].got[i] \in Nat
        BY ReadTypes DEF Read
      <4> QED
        BY <1>1, <4>1, <4>2, <4>3 DEF ReaderInv, GotInv
    <3>3. read[w].got = [i \in 1 .. Size |-> issued[read[w].id].version]
      BY <2>1, <3>1, <3>2, ReadTypes, ConstantSeq DEF Read
    <3> QED
      BY <1>1, <2>2, <3>3, EndsKept DEF Outcomes
  <2>3. CASE /\ read[w].source # "copy"
             /\ read' = [read EXCEPT ![w].stage = "begin", ![w].handle = FALSE, ![w].chunk = @ + 1]
    <3>1. read'[w] = [read[w] EXCEPT !.stage = "begin", !.handle = FALSE,
                                     !.chunk = read[w].chunk + 1]
      BY <2>3 DEF TypeOK
    <3>2. /\ read'[w].source = read[w].source /\ read'[w].id = read[w].id
          /\ read'[w].got = read[w].got /\ read'[w].late = read[w].late
          /\ read'[w].outcome = "reading" /\ read'[w].stage = "begin"
          /\ read'[w].chunk = read[w].chunk + 1
      BY <1>1, <3>1, ReadTypes DEF Read
    <3>3. Earlier(w)' = Wanted(w)
      BY <2>3, <3>2 DEF Earlier, Wanted
    <3>4. BegunInv(w)'
      BY <1>1, <2>3, <3>2 DEF BegunInv, Begun, rest
    <3>5. CountInv(w)'
      BY <1>1, <2>1, <3>2, <3>3 DEF CountInv, Probes, rest
    <3>6. GotInv(w)'
      BY <1>1, <3>2 DEF ReaderInv, GotInv, Live, rest
    <3>7. OkInv(w)' /\ LateInv(w)'
      BY <1>1, <3>2 DEF OkInv, LateInv
    <3> QED
      BY <3>4, <3>5, <3>6, <3>7 DEF ReaderInv
  <2> QED
    BY <1>4, <2>2, <2>3 DEF ChunkDone
<1> QED
  BY <1>2, <1>3, <1>4 DEF Probe

\* A piece is of a version between the registered one and the present one.
LEMMA ReadPieceKept ==
    ASSUME TypeOK, VersionInv, NEW w \in Workers, ReaderInv(w), ReadPiece(w)
    PROVE  ReaderInv(w)'
<1> DEFINE got == Append(read[w].got, Live(read[w].id).version)
<1>1. /\ read[w].stage = "bytes" /\ read[w].outcome = "reading" /\ UNCHANGED rest
      /\ read[w].id \in Ids /\ issued[read[w].id] # NoSlot
      /\ issued[read[w].id].size = Size
      /\ ~read[w].late
      /\ Earlier(w) <= Len(read[w].got) /\ Len(read[w].got) < Wanted(w)
  BY ReadTypes DEF ReadPiece, ReaderInv, BegunInv, Begun, CountInv, LateInv, Probes, Read
<1>2. /\ Len(got) = Len(read[w].got) + 1
      /\ \A i \in 1 .. Len(got) :
            got[i] = IF i <= Len(read[w].got) THEN read[w].got[i]
                                              ELSE Live(read[w].id).version
  BY ReadTypes DEF Read
<1>3. /\ Len(read[w].got) \in Nat
      /\ Earlier(w) \in Nat /\ Wanted(w) \in Nat
  BY ReadTypes, ChunkGrows DEF ReaderInv, Read
<1>4. \A i \in 1 .. Len(got) :
         /\ issued[read[w].id].version <= got[i]
         /\ got[i] <= Live(read[w].id).version
  <2>1. Live(read[w].id).version \in Nat
    BY <1>1, IssuedTypes DEF Metadata
  <2>2. issued[read[w].id].version <= Live(read[w].id).version
    BY <1>1 DEF VersionInv
  <2>3. \A i \in 1 .. Len(read[w].got) :
          /\ issued[read[w].id].version <= read[w].got[i]
          /\ read[w].got[i] <= Live(read[w].id).version
    BY <1>1 DEF ReaderInv, GotInv
  <2> QED
    BY <1>2, <1>3, <2>1, <2>2, <2>3
<1> HIDE DEF got
<1>5. CASE Ends(w, "range")
  BY <1>1, <1>5, EndsKept DEF Outcomes
<1>6. CASE /\ read'[w].source = read[w].source /\ read'[w].id = read[w].id
           /\ read'[w].chunk = read[w].chunk /\ read'[w].late = read[w].late
           /\ read'[w].outcome = "reading" /\ read'[w].got = got
           /\ IF Len(got) < Wanted(w) THEN read'[w].stage = "bytes"
                                      ELSE read'[w].stage = "innerAfter"
  <2>1. BegunInv(w)'
    BY <1>1, <1>6 DEF ReaderInv, BegunInv, Begun, rest
  <2>2. CountInv(w)'
    <3>1. Earlier(w)' = Earlier(w) /\ Wanted(w)' = Wanted(w)
      BY <1>6 DEF Earlier, Wanted
    <3> QED
      BY <1>1, <1>2, <1>3, <1>6, <3>1 DEF CountInv, Probes, rest
  <2>3. GotInv(w)'
    BY <1>1, <1>4, <1>6 DEF GotInv, Live, rest
  <2>4. OkInv(w)' /\ LateInv(w)'
    BY <1>1, <1>6 DEF OkInv, LateInv
  <2> QED
    BY <2>1, <2>2, <2>3, <2>4 DEF ReaderInv
<1>7. CASE Len(got) < Wanted(w) /\ read' = [read EXCEPT ![w].got = got]
  <2>1. read'[w] = [read[w] EXCEPT !.got = got]
    BY <1>7 DEF TypeOK
  <2> QED
    BY <1>1, <1>6, <1>7, <2>1, ReadTypes DEF Read
<1>8. CASE /\ ~(Len(got) < Wanted(w))
           /\ read' = [read EXCEPT ![w].got = got, ![w].stage = "innerAfter", ![w].handle = FALSE]
  <2>1. read'[w] = [read[w] EXCEPT !.got = got, !.stage = "innerAfter", !.handle = FALSE]
    BY <1>8 DEF TypeOK
  <2> QED
    BY <1>1, <1>6, <1>8, <2>1, ReadTypes DEF Read
<1> QED
  BY <1>5, <1>7, <1>8 DEF ReadPiece, got

\* A copy that closes its file has ended.
LEMMA CopyClosesKept ==
    ASSUME TypeOK, NEW w \in Workers, ReaderInv(w), CopyCloses(w)
    PROVE  ReaderInv(w)'
<1>1. /\ Same(w) /\ read'[w].outcome = read[w].outcome
      /\ read'[w].stage = "end" /\ read'[w].handle = FALSE
  BY MovesFields DEF CopyCloses
<1>2. /\ read[w].stage = "close" /\ read[w].outcome # "reading"
      /\ issued' = issued /\ file' = file
      /\ read[w].id \in Ids
  BY ReadTypes DEF CopyCloses, ReaderInv, BegunInv, Read
<1>3. slots'[read[w].id] = NoSlot
  BY <1>2 DEF CopyCloses, TypeOK
<1> QED
  BY <1>1, <1>2, <1>3 DEF ReaderInv, BegunInv, Begun, CountInv, GotInv, OkInv, LateInv, Same, Probes

\* A read begins with nothing.
LEMMA StartKept ==
    ASSUME TypeOK, NEW w \in Workers, NEW source \in Sources, NEW id \in Ids,
           Start(w, source, id)
    PROVE  ReaderInv(w)'
<1>1. /\ read'[w] = [source |-> source, id |-> id, stage |-> "begin", handle |-> FALSE,
                     chunk |-> 0, got |-> << >>, late |-> slots[id] = NoSlot,
                     cancelled |-> FALSE, outcome |-> "reading"]
      /\ issued[id] # NoSlot /\ UNCHANGED rest
  BY DEF Start, TypeOK
<1>2. Earlier(w)' = 0
  BY <1>1 DEF Earlier
<1>3. /\ read'[w].id = id /\ read'[w].source = source /\ read'[w].stage = "begin"
      /\ read'[w].handle = FALSE /\ read'[w].chunk = 0 /\ read'[w].got = << >>
      /\ read'[w].outcome = "reading"
  BY <1>1
<1> DEFINE late == slots[id] = NoSlot
<1> HIDE DEF late
<1>4. read'[w].late = late
  BY <1>1 DEF late
<1>5. BegunInv(w)' /\ CountInv(w)'
  BY <1>1, <1>2, <1>3 DEF BegunInv, Begun, CountInv, Probes, rest
<1>6. GotInv(w)'
  BY <1>3 DEF GotInv
<1>7. OkInv(w)'
  BY <1>3 DEF OkInv
<1>8. LateInv(w)'
  <2>1. late => slots'[id] = NoSlot
    BY <1>1 DEF late, rest
  <2> QED
    BY <1>3, <1>4, <2>1 DEF LateInv
<1> QED
  BY <1>5, <1>6, <1>7, <1>8 DEF ReaderInv

\* A cancelled read goes on until it looks at its token.
LEMMA CancelKept ==
    ASSUME TypeOK, NEW w \in Workers, ReaderInv(w), Cancel(w)
    PROVE  ReaderInv(w)'
<1>1. read'[w] = [read[w] EXCEPT !.cancelled = TRUE] /\ UNCHANGED rest
  BY DEF Cancel, TypeOK
<1>2. /\ Same(w) /\ read'[w].handle = read[w].handle
      /\ read'[w].stage = read[w].stage /\ read'[w].outcome = read[w].outcome
  BY <1>1, ReadTypes DEF Same, Read
<1> QED
  BY <1>1, <1>2 DEF ReaderInv, BegunInv, Begun, CountInv, Earlier, Wanted, GotInv, Live,
                    OkInv, LateInv, Same, rest

-----------------------------------------------------------------------------
(* The invariant is inductive.                                             *)

\* The id that is drawn was not handed out before.
LEMMA DrawnIsFresh ==
    ASSUME TypeOK, FreshInv, nextId # 1
    PROVE  issued[Drawn] = NoSlot
<1>1. Drawn \in Ids /\ Drawn >= nextId
  BY CounterTypes DEF TypeOK, Drawn
<1> QED
  BY <1>1 DEF FreshInv

\* A read that does not change keeps its invariant while no file goes back to
\* an earlier version, no closed id comes back and no id changes its meaning.
LEMMA ReadersKept ==
    ASSUME TypeOK, TypeOK', NEW W, W \subseteq Workers, \A v \in W : ReaderInv(v),
           \A v \in W : read'[v] = read[v],
           \A id \in Ids : issued[id] # NoSlot =>
              /\ issued'[id] = issued[id]
              /\ slots[id] = NoSlot => slots'[id] = NoSlot
              /\ Live(id).version <= Live(id)'.version
    PROVE  \A v \in W : ReaderInv(v)'
<1> SUFFICES ASSUME NEW v \in W PROVE ReaderInv(v)'
  OBVIOUS
<1>1. Begun(v) => issued[read[v].id] # NoSlot /\ read[v].id \in Ids
  BY ReadTypes DEF ReaderInv, BegunInv, Read
<1> QED
  BY <1>1, SteadyKept

\* Nothing a worker or the host does to anything but files brings an earlier
\* version back.
LEMMA SameFiles ==
    ASSUME TypeOK, file' = file, issued' = issued
    PROVE  \A id \in Ids : issued[id] # NoSlot =>
              /\ issued'[id] = issued[id]
              /\ Live(id).version <= Live(id)'.version
<1> SUFFICES ASSUME NEW id \in Ids, issued[id] # NoSlot
             PROVE  Live(id).version <= Live(id)'.version
  OBVIOUS
<1>1. Live(id)' = Live(id)
  BY DEF Live
<1>2. Live(id).version \in Nat
  BY IssuedTypes DEF Metadata
<1> QED
  BY <1>1, <1>2

\* A write takes its file to a later version.
LEMMA WriteKept ==
    ASSUME TypeOK, TypeOK', FileInv, NEW f \in Files, Write(f)
    PROVE  FileInv'
<1>1. PICK size \in {0, Size} :
         file' = [file EXCEPT ![f].version = file[f].version + 1, ![f].size = size]
  BY DEF Write
<1>2. \A g \in Files : file[g].version \in Nat /\ file[g].version <= file'[g].version
  <2> SUFFICES ASSUME NEW g \in Files
               PROVE  file[g].version \in Nat /\ file[g].version <= file'[g].version
    OBVIOUS
  <2>1. file[g] \in Metadata /\ file[g].version \in Nat
    BY DEF TypeOK, Metadata
  <2>2. CASE g = f
    <3>1. file'[f] = [file[f] EXCEPT !.version = file[f].version + 1, !.size = size]
      BY <1>1 DEF TypeOK
    <3>2. file'[f].version = file[f].version + 1
      BY <2>1, <2>2, <3>1 DEF Metadata
    <3> QED
      BY <2>1, <2>2, <3>2
  <2>3. CASE g # f
    BY <1>1, <2>1, <2>3 DEF TypeOK
  <2> QED
    BY <2>2, <2>3
<1>3. \A id \in Ids : issued[id] # NoSlot =>
         /\ Live(id).version \in Nat /\ Live(id)'.version \in Nat
         /\ Live(id).version <= Live(id)'.version
  <2> SUFFICES ASSUME NEW id \in Ids, issued[id] # NoSlot
               PROVE  /\ Live(id).version \in Nat /\ Live(id)'.version \in Nat
                      /\ Live(id).version <= Live(id)'.version
    OBVIOUS
  <2>1. issued[id].name \in Files /\ issued' = issued
    BY IssuedTypes DEF Metadata, Write
  <2>2. file'[issued[id].name].version \in Nat
    BY <2>1 DEF TypeOK, Metadata
  <2> QED
    BY <1>2, <2>1, <2>2 DEF Live
<1>4. FreshInv'
  BY DEF FileInv, FreshInv, Write
<1>5. NameInv'
  <2> SUFFICES ASSUME NEW g \in Files PROVE file'[g].name = g
    BY DEF NameInv
  <2>1. file[g] \in Metadata /\ file[g].name = g
    BY DEF TypeOK, FileInv, NameInv
  <2>2. CASE g = f
    <3>1. file'[f] = [file[f] EXCEPT !.version = file[f].version + 1, !.size = size]
      BY <1>1 DEF TypeOK
    <3> QED
      BY <2>1, <2>2, <3>1 DEF Metadata
  <2>3. CASE g # f
    BY <1>1, <2>1, <2>3 DEF TypeOK
  <2> QED
    BY <2>2, <2>3
<1>6. VersionInv'
  <2> SUFFICES ASSUME NEW id \in Ids, issued[id] # NoSlot
               PROVE  issued[id].version <= Live(id)'.version
    BY DEF VersionInv, Write
  <2>1. issued[id].version \in Nat
    BY IssuedTypes DEF Metadata
  <2> QED
    BY <1>3, <2>1 DEF FileInv, VersionInv
<1>7. \A w \in Workers : ReaderInv(w)'
  BY <1>3, ReadersKept DEF FileInv, Write
<1> QED
  BY <1>4, <1>5, <1>6, <1>7 DEF FileInv

\* A registration gives a meaning to an id that had none.
LEMMA RegisterKept ==
    ASSUME TypeOK, TypeOK', FileInv, NEW f \in Files, Register(f)
    PROVE  FileInv'
<1>1. Drawn \in Ids /\ issued[Drawn] = NoSlot
  BY CounterTypes, DrawnIsFresh DEF FileInv, Register
<1>2. FreshInv'
  <2> SUFFICES ASSUME nextId' # 1, NEW id \in Ids, id >= nextId'
               PROVE  issued'[id] = NoSlot
    BY DEF FreshInv
  <2>1. nextId' = Drawn + 1
    BY DEF Register, NextId
  <2>2. id # Drawn /\ id >= nextId
    BY <1>1, <2>1 DEF Drawn, TypeOK, Ids
  <2> QED
    BY <2>2 DEF FileInv, FreshInv, Register, TypeOK
<1>3. \A id \in Ids : issued[id] # NoSlot =>
         /\ issued'[id] = issued[id]
         /\ slots[id] = NoSlot => slots'[id] = NoSlot
         /\ Live(id).version <= Live(id)'.version
  <2> SUFFICES ASSUME NEW id \in Ids, issued[id] # NoSlot
               PROVE  /\ issued'[id] = issued[id]
                      /\ slots[id] = NoSlot => slots'[id] = NoSlot
                      /\ Live(id).version <= Live(id)'.version
    OBVIOUS
  <2>1. id # Drawn
    BY <1>1
  <2>2. issued'[id] = issued[id] /\ slots'[id] = slots[id] /\ file' = file
    BY <2>1 DEF Register, TypeOK
  <2>3. Live(id)' = Live(id) /\ Live(id).version \in Nat
    BY <2>2, IssuedTypes DEF Live, Metadata
  <2> QED
    BY <2>2, <2>3
<1>4. VersionInv'
  <2> SUFFICES ASSUME NEW id \in Ids, issued'[id] # NoSlot
               PROVE  issued'[id].version <= Live(id)'.version
    BY DEF VersionInv
  <2>1. CASE id = Drawn
    <3>1. issued'[id] = file[f] /\ file' = file
      BY <2>1 DEF Register, TypeOK
    <3>2. file[f].name = f /\ file[f].version \in Nat
      BY DEF TypeOK, Metadata, FileInv, NameInv
    <3> QED
      BY <3>1, <3>2 DEF Live
  <2>2. CASE id # Drawn
    <3>1. issued'[id] = issued[id] /\ file' = file
      BY <2>2 DEF Register, TypeOK
    <3> QED
      BY <3>1 DEF FileInv, VersionInv, Live
  <2> QED
    BY <2>1, <2>2
<1>5. \A w \in Workers : ReaderInv(w)'
  BY <1>3, ReadersKept DEF FileInv, Register
<1>6. NameInv'
  BY DEF FileInv, NameInv, Register
<1> QED
  BY <1>2, <1>4, <1>5, <1>6 DEF FileInv

\* Imports, closing and shutdown take slots away and nothing else.
LEMMA HostKept ==
    ASSUME TypeOK, TypeOK', FileInv, UNCHANGED <<file, nextId, issued, read>>,
           \A id \in Ids : slots[id] = NoSlot => slots'[id] = NoSlot
    PROVE  FileInv'
<1>1. \A w \in Workers : ReaderInv(w)'
  BY SameFiles, ReadersKept DEF FileInv
<1> QED
  BY <1>1 DEF FileInv, FreshInv, VersionInv, NameInv, Live

\* A worker's step keeps the invariant of its own read and leaves the others.
LEMMA WorkerKept ==
    ASSUME TypeOK, TypeOK', FileInv, NEW w \in Workers, ReaderInv(w)', OthersSame(w),
           UNCHANGED <<file, nextId, issued>>,
           \A id \in Ids : slots[id] = NoSlot => slots'[id] = NoSlot
    PROVE  FileInv'
<1> DEFINE W == Workers \ {w}
<1>1. \A v \in W : ReaderInv(v)'
  BY SameFiles, ReadersKept DEF FileInv, OthersSame
<1>2. \A v \in Workers : ReaderInv(v)'
  BY <1>1
<1> QED
  BY <1>2 DEF FileInv, FreshInv, VersionInv, NameInv, Live

\* The steps of one worker keep the invariant.
LEMMA ReadStepsKept ==
    ASSUME TypeOK, TypeOK', FileInv, NEW w \in Workers,
           \/ Work(w) \/ Cancel(w)
           \/ \E source \in Sources, id \in Ids : Start(w, source, id)
    PROVE  FileInv'
<1>1. ReaderInv(w) /\ VersionInv
  BY DEF FileInv
<1>2. ReaderInv(w)'
  BY <1>1, BeginChunkKept, CloneHandleKept, ProbeKept, ReadPieceKept, CopyClosesKept,
     StartKept, CancelKept DEF Work
<1>3. OthersSame(w)
  <2>1. CASE BeginChunk(w)
    BY <2>1, EndsFields, MovesFields DEF BeginChunk
  <2>2. CASE CloneHandle(w)
    BY <2>2, EndsFields DEF CloneHandle, OthersSame, TypeOK
  <2>3. CASE Probe(w)
    <3>1. CASE ChunkDone(w)
      BY <3>1, EndsFields DEF ChunkDone, OthersSame, TypeOK
    <3>2. CASE ~ChunkDone(w)
      BY <2>3, <3>2, EndsFields, MovesFields DEF Probe
    <3> QED
      BY <3>1, <3>2
  <2>4. CASE ReadPiece(w)
    BY <2>4, EndsFields DEF ReadPiece, OthersSame, TypeOK
  <2>5. CASE CopyCloses(w)
    BY <2>5, MovesFields DEF CopyCloses
  <2>6. CASE Cancel(w) \/ \E source \in Sources, id \in Ids : Start(w, source, id)
    BY <2>6 DEF Cancel, Start, OthersSame, TypeOK
  <2> QED
    BY <2>1, <2>2, <2>3, <2>4, <2>5, <2>6 DEF Work
<1>4. CASE UNCHANGED rest
  BY <1>2, <1>3, <1>4, WorkerKept DEF rest
<1>5. CASE CopyCloses(w)
  <2>1. \A id \in Ids : slots[id] = NoSlot => slots'[id] = NoSlot
    BY <1>5 DEF CopyCloses, TypeOK
  <2> QED
    BY <1>2, <1>3, <1>5, <2>1, WorkerKept DEF CopyCloses
<1> QED
  BY <1>4, <1>5 DEF Work, BeginChunk, CloneHandle, Probe, ReadPiece, Cancel, Start

\* Every step keeps the invariant.
LEMMA FileInvPreserved ==
    ASSUME TypeOK, TypeOK', FileInv, [Next]_vars
    PROVE  FileInv'
<1>1. CASE UNCHANGED vars
  BY <1>1, HostKept DEF vars
<1>2. ASSUME NEW f \in Files, Write(f) \/ Register(f)
      PROVE  FileInv'
  BY <1>2, WriteKept, RegisterKept
<1>3. ASSUME NEW id \in Ids, Import(id) \/ Close(id)
      PROVE  FileInv'
  <2>1. UNCHANGED <<file, nextId, issued, read>>
    BY <1>3 DEF Import, Close
  <2>2. \A other \in Ids : slots[other] = NoSlot => slots'[other] = NoSlot
    BY <1>3 DEF Import, Close, TypeOK
  <2> QED
    BY <2>1, <2>2, HostKept
<1>4. CASE CloseAll \/ CloseFlag \/ RunClosers \/ CancelRuntime
  <2>1. UNCHANGED <<file, nextId, issued, read>>
    BY <1>4 DEF CloseAll, CloseFlag, RunClosers, CancelRuntime
  <2>2. \A id \in Ids : slots[id] = NoSlot => slots'[id] = NoSlot
    BY <1>4 DEF CloseAll, CloseFlag, RunClosers, CancelRuntime
  <2> QED
    BY <2>1, <2>2, HostKept
<1>5. ASSUME NEW w \in Workers,
             \/ Work(w) \/ Cancel(w)
             \/ \E source \in Sources, id \in Ids : Start(w, source, id)
      PROVE  FileInv'
  BY <1>5, ReadStepsKept
<1> QED
  BY <1>1, <1>2, <1>3, <1>4, <1>5 DEF Next

\* Every reachable state is well typed and satisfies the invariant.
LEMMA FileInvariant == Spec => [](TypeOK /\ FileInv)
<1>1. Init => TypeOK
  <2> SUFFICES ASSUME Init PROVE TypeOK
    OBVIOUS
  <2>1. IdleRead \in Read
    BY DEF IdleRead, Read, Sources, Ids, Outcomes
  <2>2. file \in [Files -> Metadata]
    BY DEF Init, Metadata
  <2>3. nextId \in 0 .. IdSpace - 1
    BY DEF Init
  <2>4. read \in [Workers -> Read]
    BY <2>1 DEF Init
  <2> QED
    BY <2>2, <2>3, <2>4 DEF Init, TypeOK
<1>2. Init => FileInv
  <2> SUFFICES ASSUME Init PROVE FileInv
    OBVIOUS
  <2>1. ASSUME NEW w \in Workers PROVE ReaderInv(w)
    <3>1. read[w] = IdleRead
      BY DEF Init
    <3> QED
      BY <3>1 DEF IdleRead, ReaderInv, BegunInv, Begun, CountInv, GotInv, OkInv, LateInv, Probes
  <2> QED
    BY <2>1 DEF Init, FileInv, FreshInv, NameInv, VersionInv
<1>3. TypeOK /\ FileInv /\ [Next]_vars => (TypeOK /\ FileInv)'
  BY TypePreserved, FileInvPreserved
<1> QED
  BY <1>1, <1>2, <1>3, PTL DEF Spec

-----------------------------------------------------------------------------
(* What a reader of the File API may rely on.                               *)

\* Every reachable state is well typed: whatever is registered, closed, written
\* and read, the counter stays among the ids and a read at one of its stages.
THEOREM FilesTypeCorrect == Spec => []TypeOK
BY FileInvariant, PTL

\* A read that succeeds returns the registered version of its file, complete,
\* for any number of chunks, system calls, writers and readers
\* (FileSource::read_range, ArcResourceSource::read_range, open_copy_on_import).
THEOREM SuccessfulReadsAreImports == Spec => []SuccessIsImported
<1>1. FileInv => SuccessIsImported
  BY DEF FileInv, ReaderInv, OkInv, SuccessIsImported
<1> QED
  BY <1>1, FileInvariant, PTL

\* A read that begins after its file was closed finds nothing, however many files
\* are registered later (FsRegistry::register, close, close_all).
THEOREM ClosedIdsStayClosed == Spec => []ClosedReadsFail
<1>1. FileInv => ClosedReadsFail
  BY DEF FileInv, ReaderInv, LateInv, ClosedReadsFail
<1> QED
  BY <1>1, FileInvariant, PTL

-----------------------------------------------------------------------------
(* The refinement: a read happens at one instant.                           *)

\* The initial states are those of the abstract specification.
LEMMA InitRefines == Init => Atomic!Init
<1> SUFFICES ASSUME Init PROVE Atomic!Init
  OBVIOUS
<1>1. OpenNow = {}
  BY DEF Init, OpenNow
<1>2. 1 \in Ids
  BY DEF Ids
<1>3. \A w \in Workers : CallNow(w) = Atomic!Call(1, FALSE, "failed", << >>)
  BY DEF Init, CallNow, IdleRead, Status, Returned, Atomic!Call
<1>4. CallsNow = [w \in Workers |-> Atomic!Call(1, FALSE, "failed", << >>)]
  BY <1>3 DEF CallsNow
<1>5. \A f \in Files : file[f].name = f
  BY DEF Init
<1> QED
  BY <1>1, <1>2, <1>4, <1>5 DEF Init, Atomic!Init

\* What the abstract specification sees of a read does not change unless the
\* read does.
LEMMA SameCalls ==
    ASSUME read' = read
    PROVE  CallsNow' = CallsNow
BY DEF CallsNow, CallNow, Status, Returned

\* One worker's step changes one call.
LEMMA OneCall ==
    ASSUME NEW w \in Workers, OthersSame(w)
    PROVE  CallsNow' = [CallsNow EXCEPT ![w] = CallNow(w)']
<1>1. \A v \in Workers : v # w => CallNow(v)' = CallNow(v)
  BY DEF OthersSame, CallNow, Status, Returned
<1>2. CallsNow' = [v \in Workers |-> CallNow(v)']
  BY DEF CallsNow
<1>3. CallsNow = [v \in Workers |-> CallNow(v)]
  BY DEF CallsNow
<1> QED
  BY <1>1, <1>2, <1>3

\* The ids that may be read follow the slots.
LEMMA SameOpen ==
    ASSUME slots' = slots
    PROVE  OpenNow' = OpenNow
BY DEF OpenNow

\* A step of a read that has not ended is none of the abstract specification.
LEMMA GoesOnRefines ==
    ASSUME NEW w \in Workers, UNCHANGED rest, OthersSame(w),
           read'[w].id = read[w].id, read'[w].late = read[w].late,
           read[w].outcome = "reading", read'[w].outcome = "reading"
    PROVE  UNCHANGED Atomic!vars
<1>1. CallNow(w)' = CallNow(w)
  BY DEF CallNow, Status, Returned
<1>2. CallNow(w) = CallsNow[w] /\ CallsNow = [CallsNow EXCEPT ![w] = CallsNow[w]]
  BY DEF CallsNow
<1>3. CallsNow' = CallsNow
  BY <1>1, <1>2, OneCall
<1>4. OpenNow' = OpenNow
  BY SameOpen DEF rest
<1> QED
  BY <1>3, <1>4 DEF rest, Atomic!vars

\* Where a success may be: the file is the one that was registered, and it was
\* registered when the read began.
MaySucceed(w) ==
    \/ Live(read[w].id) = issued[read[w].id] /\ ~read[w].late
    \/ issued[read[w].id].size = 0

\* The end of a read is its instant.
LEMMA EndsRefines ==
    ASSUME NEW w \in Workers, NEW outcome, TypeOK, OkInv(w)', UNCHANGED rest,
           Ends(w, outcome), outcome \in Outcomes \ {"reading"},
           read[w].outcome = "reading", outcome = "ok" => MaySucceed(w)
    PROVE  Atomic!Succeed(w) \/ Atomic!Fail(w)
<1>1. /\ read'[w].id = read[w].id /\ read'[w].late = read[w].late
      /\ OthersSame(w) /\ read'[w].outcome = outcome
  BY EndsFields DEF Same
<1>2. /\ CallsNow[w].id = read[w].id /\ CallsNow[w].late = read[w].late
      /\ CallsNow[w].status = "reading"
  BY DEF CallsNow, CallNow, Status
<1>3. CallsNow' = [CallsNow EXCEPT ![w] = CallNow(w)']
  BY <1>1, OneCall
<1>4. OpenNow' = OpenNow /\ file' = file /\ issued' = issued
  BY SameOpen DEF rest
<1>5. CASE outcome = "ok"
  <2>1. read'[w].got = Atomic!Whole(issued[read[w].id])
    BY <1>1, <1>4, <1>5 DEF OkInv, Atomic!Whole
  <2>2. CallNow(w)' = Atomic!Call(read[w].id, read[w].late, "ok",
                                  Atomic!Whole(issued[read[w].id]))
    BY <1>1, <1>5, <2>1 DEF CallNow, Status, Returned, Atomic!Call
  <2> QED
    BY <1>2, <1>3, <1>4, <1>5, <2>2 DEF Atomic!Succeed, MaySucceed, Live
<1>6. CASE outcome # "ok"
  <2>1. CallNow(w)' = Atomic!Call(read[w].id, read[w].late, "failed", << >>)
    BY <1>1, <1>6 DEF CallNow, Status, Returned, Atomic!Call
  <2> QED
    BY <1>2, <1>3, <1>4, <2>1 DEF Atomic!Fail
<1> QED
  BY <1>5, <1>6

\* A write to a file of the host is one of the abstract specification.
LEMMA WriteRefines ==
    ASSUME TypeOK, TypeOK', FileInv', NEW f \in Files, Write(f)
    PROVE  Atomic!Write(f)
<1>1. PICK size \in {0, Size} :
         file' = [file EXCEPT ![f].version = file[f].version + 1, ![f].size = size]
  BY DEF Write
<1>2. file[f] \in Metadata /\ file[f].version \in Nat
  BY DEF TypeOK, Metadata
<1>3. /\ file'[f] = [file[f] EXCEPT !.version = file[f].version + 1, !.size = size]
      /\ file' = [file EXCEPT ![f] = file'[f]]
  BY <1>1 DEF TypeOK
<1>4. file'[f].version = file[f].version + 1
  BY <1>2, <1>3 DEF Metadata
<1>5. file'[f].name = f
  BY DEF FileInv, NameInv
<1>6. CallsNow' = CallsNow /\ OpenNow' = OpenNow /\ issued' = issued
  BY SameCalls, SameOpen DEF Write
<1> QED
  BY <1>2, <1>3, <1>4, <1>5, <1>6 DEF Atomic!Write

\* A registration opens an id that never stood for a file.
LEMMA RegisterRefines ==
    ASSUME TypeOK, FileInv, NEW f \in Files, Register(f)
    PROVE  Atomic!Register(f)
<1>1. Drawn \in Ids /\ issued[Drawn] = NoSlot
  BY CounterTypes, DrawnIsFresh DEF FileInv, Register
<1>2. file[f] # NoSlot
  BY SlotAssumption DEF TypeOK
<1>3. /\ slots' = [slots EXCEPT ![Drawn] = file[f]]
      /\ issued' = [issued EXCEPT ![Drawn] = file[f]]
      /\ file' = file /\ read' = read
  BY DEF Register
<1>4. OpenNow' = OpenNow \cup {Drawn}
  <2>1. \A id \in Ids : slots'[id] = IF id = Drawn THEN file[f] ELSE slots[id]
    BY <1>3 DEF TypeOK
  <2> QED
    BY <1>1, <1>2, <2>1 DEF OpenNow
<1>5. CallsNow' = CallsNow
  BY <1>3, SameCalls
<1> QED
  BY <1>1, <1>3, <1>4, <1>5 DEF Atomic!Register

\* Imports, closing and shutdown close files and do nothing else to them.
LEMMA HostRefines ==
    ASSUME UNCHANGED <<file, issued, read>>,
           \A id \in Ids : slots[id] = NoSlot => slots'[id] = NoSlot
    PROVE  Atomic!Close
<1>1. OpenNow' \subseteq OpenNow
  BY DEF OpenNow
<1>2. CallsNow' = CallsNow
  BY SameCalls
<1> QED
  BY <1>1, <1>2 DEF Atomic!Close

\* A copy that closes its file has been answered before.
LEMMA CopyClosesRefines ==
    ASSUME TypeOK, NEW w \in Workers, CopyCloses(w)
    PROVE  Atomic!Close
<1>1. /\ Same(w) /\ OthersSame(w) /\ read'[w].outcome = read[w].outcome
      /\ file' = file /\ issued' = issued
  BY MovesFields DEF CopyCloses
<1>2. CallNow(w)' = CallNow(w)
  BY <1>1 DEF CallNow, Status, Returned, Same
<1>3. CallsNow' = CallsNow
  <2>1. CallNow(w) = CallsNow[w] /\ CallsNow = [CallsNow EXCEPT ![w] = CallsNow[w]]
    BY DEF CallsNow
  <2> QED
    BY <1>1, <1>2, <2>1, OneCall
<1>4. OpenNow' \subseteq OpenNow
  BY DEF CopyCloses, OpenNow, TypeOK
<1> QED
  BY <1>1, <1>3, <1>4 DEF Atomic!Close

\* A read begins, late or not.
LEMMA StartRefines ==
    ASSUME NEW w \in Workers, NEW source \in Sources, NEW id \in Ids,
           TypeOK, ReaderInv(w), Start(w, source, id)
    PROVE  Atomic!Begin(w, id)
<1>1. OthersSame(w) /\ issued[id] # NoSlot /\ UNCHANGED rest /\ read[w].stage = "end"
  BY DEF Start, TypeOK, OthersSame
<1> DEFINE late == slots[id] = NoSlot
<1>2. /\ read'[w].id = id /\ read'[w].late = late /\ read'[w].outcome = "reading"
  BY DEF Start, TypeOK
<1>3. late = (id \notin OpenNow)
  BY DEF OpenNow
<1> HIDE DEF late
<1>4. CallNow(w)' = Atomic!Call(id, late, "reading", << >>)
  BY <1>2 DEF CallNow, Status, Returned, Atomic!Call
<1>5. CallNow(w)' = Atomic!Call(id, id \notin OpenNow, "reading", << >>)
  BY <1>3, <1>4
<1>6. CallsNow' = [CallsNow EXCEPT ![w] = Atomic!Call(id, id \notin OpenNow, "reading", << >>)]
  BY <1>1, <1>5, OneCall
<1>7. CallsNow[w].status # "reading"
  BY <1>1 DEF ReaderInv, BegunInv, CallsNow, CallNow, Status
<1>8. OpenNow' = OpenNow
  BY <1>1, SameOpen DEF rest
<1> QED
  BY <1>1, <1>6, <1>7, <1>8 DEF Atomic!Begin, rest

\* The first look at a chunk ends the read or goes on.
LEMMA BeginChunkRefines ==
    ASSUME TypeOK, NEW w \in Workers, ReaderInv(w), ReaderInv(w)', BeginChunk(w)
    PROVE  Atomic!Succeed(w) \/ Atomic!Fail(w) \/ UNCHANGED Atomic!vars
<1>1. read[w].outcome = "reading" /\ UNCHANGED rest /\ OkInv(w)'
  BY DEF BeginChunk, ReaderInv, BegunInv
<1>2. CASE Ends(w, "cancelled")
  BY <1>1, <1>2, EndsRefines DEF Outcomes
<1>3. CASE Ends(w, "ok") /\ issued[read[w].id].size = 0
  BY <1>1, <1>3, EndsRefines DEF Outcomes, MaySucceed
<1>4. CASE Moves(w, First(w))
  BY <1>1, <1>4, MovesFields, GoesOnRefines DEF Same
<1> QED
  BY <1>2, <1>3, <1>4 DEF BeginChunk

\* A clone of the handle is there or the read fails.
LEMMA CloneHandleRefines ==
    ASSUME TypeOK, NEW w \in Workers, ReaderInv(w), ReaderInv(w)', CloneHandle(w)
    PROVE  Atomic!Fail(w) \/ Atomic!Succeed(w) \/ UNCHANGED Atomic!vars
<1>1. read[w].outcome = "reading" /\ UNCHANGED rest /\ OkInv(w)'
  BY DEF CloneHandle, ReaderInv, BegunInv, Probes
<1>2. CASE Ends(w, "missing")
  BY <1>1, <1>2, EndsRefines DEF Outcomes
<1>3. CASE read' = [read EXCEPT ![w].handle = TRUE]
  <2>1. read'[w] = [read[w] EXCEPT !.handle = TRUE] /\ OthersSame(w)
    BY <1>3 DEF TypeOK, OthersSame
  <2>2. /\ read'[w].id = read[w].id /\ read'[w].late = read[w].late
        /\ read'[w].outcome = "reading"
    BY <1>1, <2>1, ReadTypes DEF Read
  <2> QED
    BY <1>1, <2>1, <2>2, GoesOnRefines
<1> QED
  BY <1>2, <1>3 DEF CloneHandle

\* The last probe of the last chunk is the instant of the read: what it finds
\* unchanged is what the pieces were read from.
LEMMA ProbeRefines ==
    ASSUME TypeOK, NEW w \in Workers, ReaderInv(w), ReaderInv(w)', Probe(w)
    PROVE  Atomic!Succeed(w) \/ Atomic!Fail(w) \/ UNCHANGED Atomic!vars
<1>1. /\ read[w].outcome = "reading" /\ UNCHANGED rest /\ OkInv(w)'
      /\ ~read[w].late
  BY DEF Probe, ReaderInv, BegunInv, LateInv, Probes
<1>2. CASE Ends(w, "changed") \/ Ends(w, "cancelled")
  BY <1>1, <1>2, EndsRefines DEF Outcomes
<1>3. CASE Moves(w, After(w))
  BY <1>1, <1>3, MovesFields, GoesOnRefines DEF Same
<1>4. CASE Unchanged(w) /\ Ends(w, "ok")
  BY <1>1, <1>4, EndsRefines DEF Outcomes, MaySucceed, Unchanged
<1>5. CASE read' = [read EXCEPT ![w].stage = "begin", ![w].handle = FALSE, ![w].chunk = @ + 1]
  <2>1. /\ read'[w] = [read[w] EXCEPT !.stage = "begin", !.handle = FALSE,
                                      !.chunk = read[w].chunk + 1]
        /\ OthersSame(w)
    BY <1>5 DEF TypeOK, OthersSame
  <2>2. /\ read'[w].id = read[w].id /\ read'[w].late = read[w].late
        /\ read'[w].outcome = "reading"
    BY <1>1, <2>1, ReadTypes DEF Read
  <2> QED
    BY <1>1, <2>1, <2>2, GoesOnRefines
<1> QED
  BY <1>2, <1>3, <1>4, <1>5 DEF Probe, ChunkDone

\* A piece is not seen before the read succeeds.
LEMMA ReadPieceRefines ==
    ASSUME TypeOK, NEW w \in Workers, ReaderInv(w), ReaderInv(w)', ReadPiece(w)
    PROVE  Atomic!Fail(w) \/ Atomic!Succeed(w) \/ UNCHANGED Atomic!vars
<1> DEFINE got == Append(read[w].got, Live(read[w].id).version)
<1>1. read[w].outcome = "reading" /\ UNCHANGED rest /\ OkInv(w)'
  BY DEF ReadPiece, ReaderInv, BegunInv
<1>2. \/ Ends(w, "range")
      \/ read' = [read EXCEPT ![w].got = got]
      \/ read' = [read EXCEPT ![w].got = got, ![w].stage = "innerAfter", ![w].handle = FALSE]
  BY DEF ReadPiece
<1> HIDE DEF got
<1>3. CASE Ends(w, "range")
  BY <1>1, <1>3, EndsRefines DEF Outcomes
<1>4. CASE read' = [read EXCEPT ![w].got = got]
  <2>1. read'[w] = [read[w] EXCEPT !.got = got] /\ OthersSame(w)
    BY <1>4 DEF TypeOK, OthersSame
  <2>2. /\ read'[w].id = read[w].id /\ read'[w].late = read[w].late
        /\ read'[w].outcome = "reading"
    BY <1>1, <2>1, ReadTypes DEF Read
  <2> QED
    BY <1>1, <2>1, <2>2, GoesOnRefines
<1>5. CASE read' = [read EXCEPT ![w].got = got, ![w].stage = "innerAfter", ![w].handle = FALSE]
  <2>1. /\ read'[w] = [read[w] EXCEPT !.got = got, !.stage = "innerAfter", !.handle = FALSE]
        /\ OthersSame(w)
    BY <1>5 DEF TypeOK, OthersSame
  <2>2. /\ read'[w].id = read[w].id /\ read'[w].late = read[w].late
        /\ read'[w].outcome = "reading"
    BY <1>1, <2>1, ReadTypes DEF Read
  <2> QED
    BY <1>1, <2>1, <2>2, GoesOnRefines
<1> QED
  BY <1>2, <1>3, <1>4, <1>5

\* The token of a read is no part of the promise.
LEMMA CancelRefines ==
    ASSUME TypeOK, NEW w \in Workers, Cancel(w)
    PROVE  UNCHANGED Atomic!vars
<1>1. read'[w] = [read[w] EXCEPT !.cancelled = TRUE] /\ OthersSame(w) /\ UNCHANGED rest
  BY DEF Cancel, TypeOK, OthersSame
<1>2. /\ read'[w].id = read[w].id /\ read'[w].late = read[w].late
      /\ read[w].outcome = "reading" /\ read'[w].outcome = "reading"
  BY <1>1, ReadTypes DEF Read, Cancel
<1> QED
  BY <1>1, <1>2, GoesOnRefines

\* A step of a worker is a step of its one call or none.
LEMMA WorkRefines ==
    ASSUME TypeOK, NEW w \in Workers, ReaderInv(w), ReaderInv(w)', Work(w) \/ Cancel(w)
    PROVE  \/ Atomic!Succeed(w) \/ Atomic!Fail(w)
           \/ Atomic!Close \/ UNCHANGED Atomic!vars
BY BeginChunkRefines, CloneHandleRefines, ProbeRefines, ReadPieceRefines, CopyClosesRefines,
   CancelRefines DEF Work

\* Every step maps to a step of the abstract specification or to none.
LEMMA NextRefines ==
    ASSUME TypeOK, TypeOK', FileInv, FileInv', [Next]_vars
    PROVE  [Atomic!Next]_(Atomic!vars)
<1>1. CASE UNCHANGED vars
  BY <1>1, SameCalls, SameOpen DEF vars, Atomic!vars
<1>2. ASSUME NEW f \in Files, Write(f) \/ Register(f)
      PROVE  Atomic!Next
  BY <1>2, WriteRefines, RegisterRefines DEF Atomic!Next
<1>3. ASSUME NEW id \in Ids, Import(id) \/ Close(id)
      PROVE  Atomic!Next
  <2>1. UNCHANGED <<file, issued, read>>
    BY <1>3 DEF Import, Close
  <2>2. \A other \in Ids : slots[other] = NoSlot => slots'[other] = NoSlot
    BY <1>3 DEF Import, Close, TypeOK
  <2>3. Atomic!Close
    BY <2>1, <2>2, HostRefines
  <2> QED
    BY <2>3 DEF Atomic!Next
<1>4. CASE CloseAll \/ CloseFlag \/ RunClosers \/ CancelRuntime
  <2>1. UNCHANGED <<file, issued, read>>
    BY <1>4 DEF CloseAll, CloseFlag, RunClosers, CancelRuntime
  <2>2. \A id \in Ids : slots[id] = NoSlot => slots'[id] = NoSlot
    BY <1>4 DEF CloseAll, CloseFlag, RunClosers, CancelRuntime
  <2>3. Atomic!Close
    BY <2>1, <2>2, HostRefines
  <2> QED
    BY <2>3 DEF Atomic!Next
<1>5. ASSUME NEW w \in Workers, Work(w) \/ Cancel(w)
      PROVE  [Atomic!Next]_(Atomic!vars)
  <2>1. ReaderInv(w) /\ ReaderInv(w)'
    BY DEF FileInv
  <2> QED
    BY <1>5, <2>1, WorkRefines DEF Atomic!Next
<1>6. ASSUME NEW w \in Workers, NEW source \in Sources, NEW id \in Ids, Start(w, source, id)
      PROVE  Atomic!Next
  <2>1. ReaderInv(w)
    BY DEF FileInv
  <2>2. Atomic!Begin(w, id)
    BY <1>6, <2>1, StartRefines
  <2> QED
    BY <2>2 DEF Atomic!Next
<1> QED
  BY <1>1, <1>2, <1>3, <1>4, <1>5, <1>6 DEF Next

\* However many chunks and system calls a read takes and whatever is written,
\* closed and registered between them, it is as if made at one instant, at which
\* the file is the registered one (FileSource::read_range,
\* ArcResourceSource::read_range, open_copy_on_import).
THEOREM ReadsAreInstant == Spec => ReadsHappenAtOnce
<1>1. Init => Atomic!Init
  BY InitRefines
<1>2. TypeOK /\ TypeOK' /\ FileInv /\ FileInv' /\ [Next]_vars => [Atomic!Next]_(Atomic!vars)
  BY NextRefines
<1> QED
  BY <1>1, <1>2, FileInvariant, PTL DEF Spec, ReadsHappenAtOnce, Atomic!Spec
=============================================================================
