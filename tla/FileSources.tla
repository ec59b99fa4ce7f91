---------------------------- MODULE FileSources -----------------------------
(***************************************************************************)
(* Files of the host behind the File API (crates/boa_fapi_fs, and          *)
(* file_from_resource and ArcResourceSource in crates/boa_fapi): the       *)
(* registry of open files, the reads that worker threads make of them,     *)
(* copies on import, close and shutdown, while anybody may write to the    *)
(* files.                                                                  *)
(*                                                                         *)
(* The registry's mutex is held for one lookup at a time: each clone of a  *)
(* handle, each metadata call and each positional read is a step.  The     *)
(* metadata of a file stand for its identity, size and modification time;  *)
(* a write is taken to change the modification time.                       *)
(***************************************************************************)
EXTENDS Naturals, Sequences

CONSTANTS
    Files,      \* files of the host
    Workers,    \* threads that read
    IdSpace,    \* the number of values of a resource id, 2^64
    Chunks,     \* chunks a blob is read in
    Pieces,     \* system calls one chunk takes
    MaxWrites,  \* bound: writes to each file
    NoSlot      \* no open file under this id

ASSUME FileAssumption ==
    /\ IdSpace \in Nat /\ IdSpace > 1
    /\ Chunks \in Nat \ {0} /\ Pieces \in Nat \ {0} /\ MaxWrites \in Nat

VARIABLES
    file,      \* what the operating system holds
    slots,     \* RegistryInner.slots
    nextId,    \* RegistryInner.next_id
    issued,    \* history: the ids that were handed out, with what they stood for
    imported,  \* ids behind a JavaScript File
    tracked,   \* the registry's close_all is among the shutdown closers
    shut,      \* how far shutdown is: "no", "flag", "closed", "cancelled"
    read       \* what each worker reads

vars == <<file, slots, nextId, issued, imported, tracked, shut, read>>

Ids == 1 .. IdSpace - 1
Size == Chunks * Pieces
Metadata == [name : Files, version : 0 .. MaxWrites, size : {0, Size}]

\* A free entry of the registry is no file (Option::None).
ASSUME SlotAssumption == NoSlot \notin Metadata

Sources == {"adapted", "direct", "copy"}
Probes == {"outerBefore", "innerBefore", "policy", "innerAfter", "outerAfter"}
Outcomes == {"reading", "ok", "cancelled", "changed", "missing", "range"}

Read == [source : Sources, id : Ids, stage : Probes \cup {"begin", "bytes", "close", "end"},
         handle : BOOLEAN, chunk : 0 .. Chunks - 1, got : Seq(0 .. MaxWrites),
         late : BOOLEAN, cancelled : BOOLEAN, outcome : Outcomes]

TypeOK ==
    /\ file \in [Files -> Metadata]
    /\ slots \in [Ids -> Metadata \cup {NoSlot}]
    /\ nextId \in 0 .. IdSpace - 1
    /\ issued \in [Ids -> Metadata \cup {NoSlot}]
    /\ imported \subseteq Ids
    /\ tracked \in BOOLEAN
    /\ shut \in {"no", "flag", "closed", "cancelled"}
    /\ read \in [Workers -> Read]

IdleRead == [source |-> "direct", id |-> 1, stage |-> "end", handle |-> FALSE, chunk |-> 0,
             got |-> << >>, late |-> FALSE, cancelled |-> FALSE, outcome |-> "cancelled"]

Init ==
    /\ file = [f \in Files |-> [name |-> f, version |-> 0, size |-> Size]]
    /\ slots = [id \in Ids |-> NoSlot]
    /\ nextId = 0
    /\ issued = [id \in Ids |-> NoSlot]
    /\ imported = {} /\ tracked = FALSE
    /\ shut = "no"
    /\ read = [w \in Workers |-> IdleRead]

-----------------------------------------------------------------------------
(* The host: its files, the registry, imports.                             *)

\* Anybody may rewrite or truncate a file the registry holds open.
Write(f) ==
    /\ file[f].version < MaxWrites
    /\ \E size \in {0, Size} :
          file' = [file EXCEPT ![f].version = @ + 1, ![f].size = size]
    /\ UNCHANGED <<slots, nextId, issued, imported, tracked, shut, read>>

\* Mutant: the ids of closed files are handed out again.
DrawnFree == CHOOSE id \in Ids : slots[id] = NoSlot \/ \A other \in Ids : slots[other] # NoSlot

\* The id drawn, never 0.
Drawn == IF nextId = 0 THEN 1 ELSE nextId

\* The id after it, with the wrap of register.
NextId == IF Drawn + 1 < IdSpace THEN Drawn + 1 ELSE 1

\* Bound: the counter does not come round, as it would after 2^64 - 1
\* registrations.
Register(f) ==
    /\ nextId # 1
    /\ slots' = [slots EXCEPT ![Drawn] = file[f]]
    /\ issued' = [issued EXCEPT ![Drawn] = file[f]]
    /\ nextId' = NextId
    /\ UNCHANGED <<file, imported, tracked, shut, read>>

\* What the metadata calls on an open handle return.
Live(id) == file[issued[id].name]

\* Mutant: the import does not track its registry.
ImportUntracked(id) ==
    /\ shut = "no"
    /\ slots[id] # NoSlot /\ slots[id] = Live(id)
    /\ imported' = imported \cup {id}
    /\ UNCHANGED <<file, slots, nextId, issued, tracked, shut, read>>

\* An import whose file was changed or closed since registration is refused.
Import(id) ==
    /\ shut = "no"
    /\ slots[id] # NoSlot /\ slots[id] = Live(id)
    /\ imported' = imported \cup {id}
    /\ tracked' = TRUE
    /\ UNCHANGED <<file, slots, nextId, issued, shut, read>>

Close(id) ==
    /\ slots[id] # NoSlot
    /\ slots' = [slots EXCEPT ![id] = NoSlot]
    /\ UNCHANGED <<file, nextId, issued, imported, tracked, shut, read>>

CloseAll ==
    /\ slots' = [id \in Ids |-> NoSlot]
    /\ UNCHANGED <<file, nextId, issued, imported, tracked, shut, read>>

-----------------------------------------------------------------------------
(* Shutdown: the flag, the closers, the runtime's token.                   *)

CloseFlag ==
    /\ shut = "no"
    /\ shut' = "flag"
    /\ UNCHANGED <<file, slots, nextId, issued, imported, tracked, read>>

RunClosers ==
    /\ shut = "flag"
    /\ shut' = "closed"
    /\ slots' = [id \in Ids |-> IF tracked THEN NoSlot ELSE slots[id]]
    /\ UNCHANGED <<file, nextId, issued, imported, tracked, read>>

CancelRuntime ==
    /\ shut = "closed"
    /\ shut' = "cancelled"
    /\ UNCHANGED <<file, slots, nextId, issued, imported, tracked, read>>

-----------------------------------------------------------------------------
(* A read: the blob's chunks one after the other, each a read_range.       *)

\* On to the next call of the read; each call clones a handle of its own.
Moves(w, stage) == read' = [read EXCEPT ![w].stage = stage, ![w].handle = FALSE]

\* A failed chunk fails the whole read.  A copy closes its file on every exit.
Ends(w, outcome) ==
    read' = [read EXCEPT ![w].stage = IF read[w].source = "copy" THEN "close" ELSE "end",
                         ![w].outcome = outcome, ![w].handle = FALSE]

rest == <<file, slots, nextId, issued, imported, tracked, shut>>

\* A read of an imported File or of a FileSource, made while the file was
\* registered, may begin at any time; a copy begins with the slot's snapshot.
Start(w, source, id) ==
    /\ read[w].stage = "end"
    /\ issued[id] # NoSlot
    /\ source = "adapted" => id \in imported
    /\ source = "copy" => slots[id] # NoSlot
    /\ read' = [read EXCEPT ![w] =
          [source |-> source, id |-> id, stage |-> "begin", handle |-> FALSE, chunk |-> 0,
           got |-> << >>, late |-> slots[id] = NoSlot, cancelled |-> FALSE,
           outcome |-> "reading"]]
    /\ UNCHANGED rest

Cancel(w) ==
    /\ read[w].outcome = "reading" /\ read[w].source # "copy" /\ ~read[w].cancelled
    /\ read' = [read EXCEPT ![w].cancelled = TRUE]
    /\ UNCHANGED rest

\* The source the runtime wraps around a file looks at the runtime too.
Stopped(w) ==
    \/ read[w].cancelled
    \/ read[w].source = "adapted" /\ shut = "cancelled"

First(w) == IF read[w].source = "adapted" THEN "outerBefore" ELSE "innerBefore"

BeginChunk(w) ==
    /\ read[w].stage = "begin"
    /\ IF read[w].cancelled \/ (read[w].source = "adapted" /\ shut # "no")
       THEN Ends(w, "cancelled")
       ELSE IF issued[read[w].id].size = 0 THEN Ends(w, "ok")
       ELSE Moves(w, First(w))
    /\ UNCHANGED rest

CloneHandle(w) ==
    /\ read[w].stage \in Probes \cup {"bytes"} /\ ~read[w].handle
    /\ IF slots[read[w].id] # NoSlot
       THEN read' = [read EXCEPT ![w].handle = TRUE]
       ELSE Ends(w, "missing")
    /\ UNCHANGED rest

\* What comes after a probe that found the file unchanged.
After(w) ==
    CASE read[w].stage = "outerBefore" -> "innerBefore"
      [] read[w].stage = "innerBefore" -> IF read[w].source = "direct" THEN "policy" ELSE "bytes"
      [] read[w].stage = "policy"      -> "bytes"
      [] read[w].stage = "innerAfter"  -> IF read[w].source = "adapted" THEN "outerAfter" ELSE "done"
      [] read[w].stage = "outerAfter"  -> "done"

\* The caller's token is looked at again before the bytes; the inner source of
\* an adapted read has a token of its own that nobody cancels.
LooksAgain(w) ==
    \/ read[w].stage = "outerBefore"
    \/ read[w].stage \in {"innerBefore", "policy"} /\ After(w) = "bytes"
           /\ read[w].source # "adapted"

ChunkDone(w) ==
    IF read[w].chunk = Chunks - 1 \/ read[w].source = "copy"
    THEN Ends(w, "ok")
    ELSE read' = [read EXCEPT ![w].stage = "begin", ![w].handle = FALSE, ![w].chunk = @ + 1]

\* Mutant: only the checks before the bytes count.
UnchangedBefore(w) ==
    Live(read[w].id) = issued[read[w].id] \/ read[w].stage \in {"innerAfter", "outerAfter"}

Unchanged(w) == Live(read[w].id) = issued[read[w].id]

Probe(w) ==
    /\ read[w].stage \in Probes /\ read[w].handle
    /\ IF ~Unchanged(w) THEN Ends(w, "changed")
       ELSE IF LooksAgain(w) /\ Stopped(w) THEN Ends(w, "cancelled")
       ELSE IF After(w) = "done" THEN ChunkDone(w)
       ELSE Moves(w, After(w))
    /\ UNCHANGED rest

\* The pieces this read_at has to return in the end.
Wanted(w) == IF read[w].source = "copy" THEN Size ELSE (read[w].chunk + 1) * Pieces

ReadPiece(w) ==
    /\ read[w].stage = "bytes" /\ read[w].handle
    /\ LET got == Append(read[w].got, Live(read[w].id).version)
       IN IF Live(read[w].id).size < Len(got) THEN Ends(w, "range")
          ELSE IF Len(got) < Wanted(w) THEN read' = [read EXCEPT ![w].got = got]
          ELSE read' = [read EXCEPT ![w].got = got, ![w].stage = "innerAfter", ![w].handle = FALSE]
    /\ UNCHANGED rest

CopyCloses(w) ==
    /\ read[w].stage = "close"
    /\ slots' = [slots EXCEPT ![read[w].id] = NoSlot]
    /\ Moves(w, "end")
    /\ UNCHANGED <<file, nextId, issued, imported, tracked, shut>>

Work(w) == BeginChunk(w) \/ CloneHandle(w) \/ Probe(w) \/ ReadPiece(w) \/ CopyCloses(w)

-----------------------------------------------------------------------------
Next ==
    \/ \E f \in Files : Write(f) \/ Register(f)
    \/ \E id \in Ids : Import(id) \/ Close(id)
    \/ CloseAll \/ CloseFlag \/ RunClosers \/ CancelRuntime
    \/ \E w \in Workers :
          \/ Work(w) \/ Cancel(w)
          \/ \E source \in Sources, id \in Ids : Start(w, source, id)

Spec == Init /\ [][Next]_vars

\* Threads run and a shutdown that began goes on.
FairSpec ==
    /\ Spec
    /\ \A w \in Workers : WF_vars(Work(w))
    /\ WF_vars(RunClosers \/ CancelRuntime)

-----------------------------------------------------------------------------
(* Safety.                                                                 *)

\* A read that succeeds returns the file as it was registered, all of it of one
\* version, whatever was written meanwhile (read_range of FileSource and
\* ArcResourceSource, open_copy_on_import).
SuccessIsImported ==
    \A w \in Workers :
        read[w].outcome = "ok" =>
            read[w].got = [i \in 1 .. issued[read[w].id].size |-> issued[read[w].id].version]

\* No read that begins after its file was closed succeeds, whatever is registered
\* after it; an empty range is never looked up (close, close_all, register,
\* cloned_handle).
ClosedReadsFail ==
    \A w \in Workers :
        read[w].late /\ read[w].outcome = "ok" => issued[read[w].id].size = 0

-----------------------------------------------------------------------------
(* The abstract specification: a read happens at one instant.              *)

Status(outcome) ==
    CASE outcome = "reading" -> "reading"
      [] outcome = "ok"      -> "ok"
      [] OTHER               -> "failed"

\* A read under way, or one that failed, has returned nothing.
Returned(w) == IF read[w].outcome = "ok" THEN read[w].got ELSE << >>

CallNow(w) ==
    [id |-> read[w].id, late |-> read[w].late,
     status |-> Status(read[w].outcome), value |-> Returned(w)]

CallsNow == [w \in Workers |-> CallNow(w)]

OpenNow == {id \in Ids : slots[id] # NoSlot}

Atomic == INSTANCE AtomicReads WITH Unused <- NoSlot, open <- OpenNow, call <- CallsNow

\* However its chunks, its system calls and its four looks at the metadata
\* interleave with writes, closes and registrations, a read is as if made at one
\* instant, at which the file is the registered one (FileSource::read_range,
\* ArcResourceSource::read_range, open_copy_on_import).
ReadsHappenAtOnce == Atomic!Spec

-----------------------------------------------------------------------------
(* Liveness.                                                               *)

Held(id) == slots[id] # NoSlot \/ \E w \in Workers : read[w].id = id /\ read[w].handle

\* Shutdown lets go of every imported file, the duplicates of reads under way
\* included, and a copy of the file it copied, failed or not (ShutdownFlag::close,
\* open_copy_on_import).
HandlesReleased ==
    \A id \in Ids :
        /\ (shut # "no" /\ id \in imported) ~> ~Held(id)
        /\ \A w \in Workers :
              (read[w].source = "copy" /\ read[w].id = id) ~> slots[id] = NoSlot
=============================================================================
