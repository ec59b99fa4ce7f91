# FileAPI_boa: a verification development

TLA+ models of the File API runtime for the Boa JavaScript engine
(`src/crates/boa_fapi*`), the TLC runs that check them and the TLAPS proofs of
what matters most. File names without a directory are in
`src/crates/boa_fapi/src/`; `core/` is `src/crates/boa_fapi_core/src/` and `fs/`
is `src/crates/boa_fapi_fs/src/`.

To check a run: `tlc -config promise_reads.cfg MCFileIoRuntime.tla`. To check the
proofs: `tlapm` on each of the modules whose names end in `Proofs`.
`PROJECT.json` maps every definition to the lines it stands for and lists the
runs, a mutant for every property, the hazards and the findings.

## 1. The system

`boa_fapi` gives a Boa `Context` the W3C File API: `Blob`, `File`, `FileList`,
`FileReader`, `FileReaderSync`, `blob.stream()`, blob URLs and structured
cloning. One Boa thread owns the JavaScript heap and never blocks; a bounded
pool of worker threads reads the bytes. The two meet in one mutex, the
completion bridge. The host drives everything: it waits for a wake-up, calls
`poll_io`, runs Boa's job queue and repeats.

    script --readAs*/text/stream--> reserve a slot --submit--> request queue
                                                                   |
                                                                worker
                                                                   |
    job queue <--settle-- poll_io <--take-- completion bridge <--push
        |
    promise settles, event handlers run (and call in again)

| Component | State it keeps | Operations | What makes it hard | What makes it correct |
|---|---|---|---|---|
| Completion bridge, `io.rs` | live reservations and their tokens, submission order, quota counter, completions, chunk queues, chunk markers, shutdown | `reserve`, `unreserve`, `push_*`, `take_*`, `requeue`, `shutdown`, `has_pending` | workers push while the Boa thread reserves, drains, releases and shuts down | the counter is the number of reservations; nothing is queued for a released operation; results leave in submission order; no lost wake-up |
| Worker pool, `io.rs` | request channel, threads | `send`, `worker_loop`, drop | bounded queue, threads that finish in any order | one request per operation, each pushes once |
| Promise reads, `promise_read.rs` | operation -> resolvers | `read_promise`, `settle_completion`, `reject_with` | five ways to fail, settlement in later jobs | each promise settles once, in order, never late |
| Host loop, `extension.rs` | poll budget | `poll_io` | a budget, shutdown in the middle | everything accepted settles |
| Shutdown, `lifecycle.rs` | closed flag, tracked closers | `track`, `close`, `shutdown_runtime` | runs on the Boa thread in several steps, between which workers act; several contexts share a registry | every imported file is let go of; nothing comes back; other contexts go on |
| Streams, `streams.rs` | live operations, payloads, demand, stored errors, decoders, endpoint flags | `stream()`, `getReader`, `read`, `cancel`, `releaseLock`, collection of objects | a slot held across chunks, six ways to end, late chunks | one request serves all calls; each call is answered once, in order; slot, entry and payload go together |
| FileReader, `filereader.rs` | readyState, result, error and generation per object; a queue counter; pending operations, pump states | `readAs*`, `abort`, pump jobs, dispatch jobs | handlers re-enter in the middle of a dispatch | the event grammar; a replaced read is never heard again; every read ends |
| EventTarget, `dom.rs` | listener lists, event flags | `addEventListener`, `dispatchEvent`, `invoke_event` | lists that change while they are walked, dispatches within dispatches, exceptions | each listener of the snapshot that is still there runs once, in order; the first error is kept and reported once |
| FileReaderSync, `filereader_sync.rs` | none | four `readAs*` | order of its preflights | nothing is read before every preflight passed |
| Packaging, `package.rs` | decoder | decode, data URL | text cut at chunk borders | equal to decoding the whole |
| Bindings and conversions, `webidl.rs`, `blob.rs`, `file.rs` | the parts converted so far | constructors, slice, host factories | conversion runs user code between the parts; doubles become 64-bit integers | an object is the bytes its parts held when they were converted; only what is too large is refused |
| Blob data, `core/blob.rs` | immutable segments; a reader's cursor | slice, concat, materialize, `read_next`, ranges of workers | clamping, segment borders, slices of slices | equal to slicing the bytes, for every reader |
| Blob URL store, `core/blob_url.rs`, `url_shim.rs` | url -> payload and owner | insert under a cap, resolve, revoke, clear | collisions, names drawn again after revocation | the cap holds, no entry is overwritten, none outlives shutdown |
| Clone format, `core/clone.rs` | bytes | encode, decode | sums of lengths, bytes the host may have altered | what is accepted decodes to itself; what decodes is an encoding |
| File capabilities, `fs/` | id -> open file and its snapshot | register, import, copy, read, close, close_all | anybody writes to the file; a duplicate handle outlives its slot | a read returns the registered version or nothing; a closed id is dead; shutdown releases every handle |
| Registration, `extension.rs` | globals, prototypes, specs | `register`, rollback | a step fails half way, extensions run out of numbers, several contexts | all or nothing; a handle belongs to the extension it was asked of |

`boa_fapi_wpt` is a test harness and `observability.rs` only reports; both are
left out.

## 2. The modules

| Module | Models |
|---|---|
| `IoBridge` | the bridge as state and operators: each operator is one critical section of `IoBridge`'s mutex |
| `FileIoRuntime` | the worker pool, promise reads, `poll_io` and shutdown over the bridge, beside FileReader and stream operations reduced to how they use it |
| `PromiseReads` | abstract: what `text()`, `arrayBuffer()` and `bytes()` promise |
| `FileIoRuntimeProofs` | theorems about `FileIoRuntime`: types and quota; the refinement of `PromiseReads`; entries, requests and settlers |
| `BlobStream` | `streams.rs` over the bridge |
| `ByteStream` | abstract: what a stream promises |
| `BlobStreamProofs` | theorems about `BlobStream`, with its refinement of `ByteStream` |
| `FileReaderAsync` | `filereader.rs` over the bridge |
| `FileReaderEvents` | abstract: the states and events of a FileReader |
| `FileReaderProofs` | theorems about `FileReaderAsync`, with its refinement of `FileReaderEvents` |
| `FileSources` | `fs/`, `file_from_resource` and `ArcResourceSource` |
| `AtomicReads` | abstract: what a registered file promises its readers |
| `FileSourcesProofs` | theorems about `FileSources` |
| `DomEvents` | `dom.rs`, and the three ways in which `filereader.rs` dispatches |
| `DomEventsProofs` | theorems about `DomEvents` |
| `Contexts` | `register`, handles, the Blob URL store and shutdown, in several contexts |
| `ContextsProofs` | theorems about `Contexts` |
| `BlobData` | `core/blob.rs`, limits, endings, MIME types, `package.rs` and `filereader_sync.rs` as operators |
| `WebIdlNumbers` | the integer conversions of `webidl.rs` as operators |
| `BlobValues` | constructors, slices and clones of `Blob` and `File` over the two |
| `BlobContents` | abstract: what those constructors and methods promise |
| `BlobValuesProofs` | what the operators of `BlobData` and `WebIdlNumbers` compute, for every input; theorems about `BlobValues`, with its refinement of `BlobContents` |
| `CloneWire` | `core/clone.rs`, `clone_bridge.rs` and the clone operations of a handle |
| `CloneWireProofs` | theorems about `CloneWire`: the codec, and what it carries |
| `MCFileIoRuntime`, `MCBlobStream`, `MCFileReaderAsync`, `MCFileSources`, `MCDomEvents`, `MCContexts`, `MCBlobValues`, `MCCloneWire` | instances for TLC |

**IoBridge.** One variable per field of `BridgeState` (`tokens`, `order`,
`active`, `completed`, `completions`, `chunkQueue`, `chunkRes`, `bridgeShut`),
`nextId` for the atomic id counter, `flagShut` for the shutdown flag outside the
mutex, `cancelled` for the tokens workers look at and `woken` for the wake hook.
Results are `"ok"` or `"error"`. Submission order is the order of ids, so `order`
is a set and its head its minimum: ids are drawn under the mutex that appends to
`order`. `Limit`, `CompletionCap` and the bound `MaxId` are its constants;
`CompletionCap >= Limit` is what the constructor computes (`io.rs:1203`).

**FileIoRuntime.** A worker is idle or executing a request; taking a request and
pushing its completion are separate steps, so everything else can happen between
them. A `text()` call is one step of the Boa thread with one action per exit of
`read_promise`: refused before the reservation, refused by it, reserved and
refused by the pool, accepted. `poll_io` is a sequence of steps (chunk phase,
whole phase taken under the lock, one settlement at a time, end), between which
workers act. A settled promise needs its job to run, a failed read two jobs.
Shutdown takes `&mut Context`, so it runs on the Boa thread and begins only when
that thread is in no call; it is two steps, the flag and then the bridge. The two chunked users appear with the operations that touch the bridge.

**BlobStream.** One slot per stream. `endpoints` are the stream and reader
objects the script still holds, and those the collector has taken but no sweep
has seen. A call is a number with the answer it got; a request is a range that
the executor holds. Bytes are abstracted to the parts the stream yields: a text
blob may end in a complete character, in a tail the flush adds to the last part,
in a tail that becomes a part of its own, and one of its chunks may complete no
character at all, in which case the code submits again without an answer.

**FileReaderAsync.** `stack` has a frame for each dispatch whose handlers are
running: while it is not empty the script may call `readAs*`, `abort` and
shutdown, and `Return` does what the code does after the handlers come back.
A frame says which event it is, so every re-entry point of `run_pump`,
`finish_at_eof`, `run_dispatch` and `dispatch_terminal_now` is a frame kind.
Jobs are a queue, run from its head. The script also runs between two jobs, as a
promise reaction would; this allows slightly more than the engine does, which
runs promise jobs between rounds. A blob is its number of chunks. The clock
chooses freely whether a progress event is due, which covers a clock that jumps
either way.

**FileSources.** `file` is what the operating system holds and anybody may write to;
a version stands for the modification time. `slots` and `nextId` are the
registry's; `issued` remembers what each id stood for, which is also the import
snapshot its sources keep. A read is one worker going through the chunks of a
blob, and its `stage` says which call of `read_range` is next. Cloning a handle
is a step (the registry's mutex), using it another, and one `read_at` takes
several system calls, between which the file may change. There are three kinds
of source: `"direct"` is a `FileSource` with `RegistryPolicy`; `"adapted"` is a
`File` made by `file_from_resource`, whose `ArcResourceSource` checks around a
`HostFileSource` that checks again, without a policy; `"copy"` is
`open_copy_on_import`, which reads everything in one range and closes the file
on every exit. `CloseAll` is the host's call, or the shutdown of another runtime
that imported from the same registry. An id is drawn with the wrap of
`register` at `IdSpace`, which is 2^64 in the code.

**DomEvents.** `stack` has a frame for each dispatch under way, with the listeners
it copied and the place it is at. While a callback runs, the script may add and
remove listeners, set a handler, mark the event, dispatch it again or
another, abort the reader or shut down; `called`, `first` and `owed` are history
that the properties compare with. A reader's events report a callback's
exception from a job, and an abort reports after both of its events; a script's
dispatch throws it.

**Contexts.** Every call of the host or of a script is one step, since it runs to
its end on its thread. `global` is the engine's object: a name is absent, the
host's or ours, some names may be refused and some not given back. `handles`
remembers which extension each handle was asked of; `given` remembers what each
URL was made for. `roots` counts the rows of the tables of a context, `active` the
slots of its bridge. A read here is an operation of a stream or a FileReader.
With `Loose`, shutdown may be given any registered context, as the code allows.

**BlobData, WebIdlNumbers.** A segment is a sequence with an offset and a length,
as in the code; a result is a value or the error it is refused with. Strings are
sequences of a handful of characters that behave differently: a line break of
either kind, a letter with an upper case, a character of two bytes. A double has
`Mantissa` bits and an integer `Width`; the conversions are those of the code on
bits, with shifts as powers of two. The loops of the code (`read_next`, the sums of
lengths, the decoder) are recursive functions of the number of turns. The size of a
slice is the distance of its ends, as in the code; that its pieces add up to it is
something to check, not a definition.

**BlobValues.** A constructor is a sequence of steps, one for each part that is
converted; between two the user's code writes to the buffer or detaches it, and
may end the call with an exception. `Return` separates calls, so that the last
call can be compared with what it made. `BlobContents` knows only bytes: a part
is one of the windows its buffer may have at that moment, and a slice is by the exact
value of the double. The lower bound of a text with native line ends is counted character
by character, as `line_ending_byte_len` does, not taken from the conversion.

**CloneWire.** Bytes are digits of `Base`, and every word and timestamp is written
and read digit by digit, with the code's checks in its order. The host may alter,
lengthen or cut the bytes it keeps, or build a payload itself.

**The abstract modules** name the promise without a bridge, a job queue or a
table. `PromiseReads` orders results and settlements; `ByteStream` hands out
parts to calls in order; `FileReaderEvents` is the grammar of events with the
states that go with them; in `AtomicReads` a read succeeds at one instant, at
which the file is the registered one, and what it returned is seen only then. Each
detailed module has an instance (`Abstract`, `Atomic`) whose
substitutions are the refinement mapping; the property is its `Spec`.

## 3. The runs

Passing runs:

| Run | Instance | Shows |
|---|---|---|
| `promise_reads` | 4 reads, one oversized, 2 workers, ids for 2 accepted reads, quota 3, queue 2 | `OneSettler`, `ReadyMeansWoken`, `QuiescentMeansSettled`; implements `PromiseReads`; `NothingSettlesLate`; `ReadsSettle` with a host that polls only when woken |
| `with_streams` | 2 reads beside FileReader and stream operations, queue 1, budget 1 | `QuotaExact`, `NoStaleEntries`, `OneRequestEach`, `ShutdownQuiet` |
| `blob_streams` | 1 stream at a time, 4 calls, six kinds of blob, fair | implements `ByteStream`; `OneRequestServes`, `OneAnswerEach`, `SlotsMatchStreams`, `OnlyUnreachableAbandoned`; `ReadsAnswered`, `LostStreamsReleased`, `LostReadersUnlock` |
| `file_reader` | 1 reader, blobs of 0, 1 and 3 chunks, 4 generations, fair | implements `FileReaderEvents`; `NoEventAfterShutdown`, `EveryReadEnds` |
| `two_readers` | 2 readers, quota 2, budget 1, 3 generations, fair | `QuotaMirrored`, `OneStep`, `EveryReadEnds` |
| `file_sources` | 1 file, 2 registrations, 2 writes, blobs of 2 chunks of 2 system calls, fair | `SuccessIsImported`, `ClosedReadsFail`, `HandlesReleased`; implements `AtomicReads` |
| `event_target` | 1 reader, 2 functions that listen and one that is its handler, an event of the script and one of the reader, 2 nested dispatches | `CallsWhatWasThere`, `ReportedOnce`, `EndsHonestly` |
| `contexts` | a page and a worker, 6 extensions, 2 blobs, 2 UUIDs, 2 draws, 1 file | `HandleIsTheExtensions`, `UrlsLeadHome`, `ShutdownReleases`, `RegistersWhole` |
| `blob_values` | 2 platforms, 1 buffer, 2 parts, 2 objects, 10 doubles | `ReadersAgree`, `RefusesRightly`; implements `BlobContents` |
| `clone_wire` | 10 objects, 6 payloads of the host, 2 alterations | `CodecStrict`, `RoundTrip` |

In `file_sources` one worker stands for all of them: what a read changes for
others is that a copy closes its file, and `Close` may do that at any time. Two
registrations of one file let an id outlive a closed one; two chunks of two
system calls put a boundary inside and outside a `read_range`; two writes let a
file change twice during a read.

Why the bounds are enough. The interesting orders need a head that is late and a
follower that is done: in `promise_reads` two reads are accepted, one fails for
its size, and one is refused because the ids run out; which of them comes when
is free. That results keep their order for any number of reads is a theorem
(`ReadsAreOrdered`). Two workers give every completion order. In `with_streams`
the quota refuses. A queue of 1 makes the pool refuse. Elsewhere
`MaxId` leaves an id or two more than fit at once, so freed slots are used again
while old requests are still out. Three chunks are the least that have a first,
a middle and a last. A stream needs two waiting calls to have an order, one more
to be told it is done, one more after the end. Three operations and four
generations on one reader let a handler restart the read within a restarted
read, the last of them refused for want of an id. A quota that refuses a
FileReader takes more readers than slots; what it must not disturb is a theorem
(`QuotaIsMirrored`). Two readers are the least that
can take each other's slot. With a budget of 1 a poll leaves chunks behind as
soon as two operations have one.

In `event_target` the script makes one event object and one is left to the reader
(`Spare`), whose abort is then dispatched inside a callback of the script's
dispatch, or the other way round; the two objects are interchangeable. Two functions, one of which
is also the handler, are what removal and order need. In `contexts` two of the six
extensions are built after the numbers ran out, one page's URL limit is reached
with two URLs, and two UUIDs drawn twice collide; ids of contexts do not run out,
since each context takes one. In `blob_values` one call runs at a time and buffers are
fresh for each, because nothing outlives a constructor but the object, which
copied its bytes, and a call begins only while there is room for its object
(`Room`); the doubles are around every edge of a 4-bit integer with 2 bits
of mantissa (ties, both infinities, the first that do not fit), and only
the last object takes a `lastModified`. The limits are set where one more
part, segment or byte is refused. In `clone_wire` the base is 4 and the limits lie
at and one below the sizes of the objects.

**Fairness.** A worker that has a request eventually finishes it (weak fairness
of each worker: threads run, and `execute` is finite). The host keeps polling and
running jobs: `docs/host-integration.md` asks it for exactly this. `RunJob` has
strong fairness because a poll may be under way each time it could run, and a
host that always polls first would never run jobs. No script action is fair: a
script may stop. In `promise_reads` the host may sleep until the wake hook fires
(`WakeFairSpec`), so a lost wake-up would be a violation. A handler returns (weak
fairness of `Return`): one that never does blocks the thread. The second half of
a shutdown follows the first.

`event_target`, `contexts`, `blob_values` and `clone_wire` have no fairness: they
check safety, and nothing in them has to happen.

`CHECK_DEADLOCK FALSE` is in every configuration, because a script that has made
its calls, or a runtime that is shut down, stops.

## 4. What is proved

For every number of reads, workers, ids and every quota, with the assumptions
`BridgeAssumption` and `RuntimeAssumption` (the constants are naturals, the
completion cap at least the quota, the sets finite where they are counted):

| Theorem | Says |
|---|---|
| `TypeCorrect` | `TypeOK` always holds |
| `QuotaHolds` | `QuotaExact`: no slot leaks; a live reservation has its chunk operation or its table entry, an entry its reservation, and the counter counts them, at most the quota |
| `ShutdownIsQuiet` | `ShutdownQuiet`: nothing comes back into a bridge that was shut down |
| `ReadsAreOrdered` | `PromiseOrder`: `FileIoRuntime` implements `PromiseReads` |
| `NothingSettlesAfterShutdown` | `NothingSettlesLate`: a read not delivered when the flag closed never settles |
| `EntriesNeverStale` | `NoStaleEntries`: an entry of the bridge never outlives its operation |
| `RequestsNeverLost` | `OneRequestEach`: an operation has one request or one completion, never two, never none |
| `SettlersAreUnique` | `OneSettler`: a pending promise has exactly one settler |
| `QuietHostsAreDone` | `QuiescentMeansSettled`: no pending I/O and no job means no pending promise |
| `ReadyReadsHaveWoken` | `ReadyMeansWoken`, if only promise reads share the bridge (`ChunkKinds = {}`) |

For every number of streams, calls and ids, all blobs and every quota, with
`BridgeAssumption` and `StreamAssumption`:

| Theorem | Says |
|---|---|
| `StreamTypesCorrect` | `TypeOK` of `BlobStream` always holds |
| `OneRequestServesReads` | `OneRequestServes`: one request or completion serves all calls that wait, and none is out for nobody |
| `SlotsAlwaysMatch` | `SlotsMatchStreams`: entry, payload, slot and demand of a stream come and go together |
| `EveryCallAnsweredOnce` | `OneAnswerEach`: a call waits in its stream's queue or has one job |
| `OnlyUnreachableEnd` | `OnlyUnreachableAbandoned`: a stream is given up only when the script holds nothing of it |
| `StreamsKeepTheirPromise` | `StreamPromise`: `BlobStream` implements `ByteStream` |

For every number of readers, ids and generations, all blobs, every quota and poll
budget, with `BridgeAssumption`, `ReaderAssumption` and `NoOpAssumption` (`NoOp` is
none of the values it stands beside):

| Theorem | Says |
|---|---|
| `ReadersTypeCorrect` | `TypeOK` of `FileReaderAsync` always holds |
| `QuotaIsMirrored` | `QuotaMirrored`: entry, payload, slot and the mirrored counter come and go together |
| `ReadsMoveOneStepAtATime` | `OneStep`: a live read is at exactly one place on its way |
| `EventsStopAtShutdown` | `NoEventAfterShutdown`: after shutdown a step may only return from a handler; no event starts, nor does `loadend` follow an `abort` whose handler shut down |
| `ReadersKeepTheGrammar` | `ReaderPromise`: `FileReaderAsync` implements `FileReaderEvents` |

For every number of files, workers, ids, writes, chunks and system calls a chunk
takes, with `FileAssumption` (at least one id, chunk and call) and `SlotAssumption` (a
free slot is no file):

| Theorem | Says |
|---|---|
| `FilesTypeCorrect` | `TypeOK` of `FileSources` always holds |
| `SuccessfulReadsAreImports` | `SuccessIsImported`: a read that succeeds returns the registered version, complete |
| `ClosedIdsStayClosed` | `ClosedReadsFail`: a read that begins after its file was closed finds nothing |
| `ReadsAreInstant` | `ReadsHappenAtOnce`: `FileSources` implements `AtomicReads` |

For every number of targets, callbacks, types, events and every depth of dispatches
within dispatches, with `DomAssumption` (the constants have their types) and
`NoneAssumption` (`None` is no event):

| Theorem | Says |
|---|---|
| `EventsTypeCorrect` | `TypeOK` of `DomEvents` and its inductive invariant always hold |
| `DispatchesCallTheirCopy` | `CallsWhatWasThere`: a dispatch calls a prefix of what it copied, nothing twice |
| `DispatchesEndHonestly` | `EndsHonestly`: a dispatch that is over called everything or was stopped, and gives back what its callbacks did |
| `ExceptionsReportedOnce` | `ReportedOnce`: until shutdown as many jobs are to come as dispatches that owe one |

For every number of contexts and extensions, every global object, and any end of
the counters of identities and context ids, with `ContextsAssumption`,
`NoneAssumption` and `HostedAssumption` (the constants have their types, and
`None` is neither a registration nor an entry):

| Theorem | Says |
|---|---|
| `ContextsTypeCorrect` | `TypeOK` of `Contexts` always holds |
| `HandlesBelong` | `HandleIsTheExtensions`: a handle belongs to the extension it was asked of |
| `UrlsAlwaysLeadHome` | `UrlsLeadHome`: a URL in use leads to the blob it was made for |
| `ShutdownAlwaysReleases` | `ShutdownReleases`: after shutdown no URL, slot or open file is held; before it, the cap on URLs |
| `RegistrationsAreWhole` | `RegistersWhole`: a registration installs all of its names, or gives back all it may |
| `OwnShutdownsIndependent` | `ContextsIndependent`, which `foreign_shutdown` violates, holds when every shutdown is given its own context |

For every size, number and content of buffers, texts, parts, blobs and doubles, with
`LimitsAssumption` (`FileApiLimits::validate`), `NumbersAssumption`,
`BuffersAssumption` and `ValuesAssumption`:

| Theorem | Says |
|---|---|
| `ValuesInvariant` | the invariant of `BlobValues` always holds: every object is a blob within the limits, made of parts of its sources |
| `RefusalsRight` | `RefusesRightly`: a constructor refuses only what is beyond the limits |
| `ObjectsAreContents` | `RefinesContents`: `BlobValues` implements `BlobContents` |
| `ReadersRight` | `ReadersAgree`: every way to the bytes of an object reads the same |
| `CollectAllMakes` | the parts are joined to exactly their bytes, or are beyond the limits |
| `SliceIs`, `ReaderIs`, `WorkersAre` | segments are cut and read as the bytes they stand for |
| `DecodeIs` | a text does not depend on the chunks it is decoded from |
| `ClampedPlace`, `LongLongIs` | a clamped index is the place of the exact double; the bits of a timestamp are its integer part modulo 2^64 |

For every base from four on, all limits, payloads, objects and alterations, with
`WireAssumption` (the head and a count fit the limit of the wire, and a word can say the
limit and the count: 16 bytes and 2^32, for 256 MiB and 100 000 files) and
`PayloadsAssumption` (payloads and objects have the types of the code):

| Theorem | Says |
|---|---|
| `WireInvariant` | the invariant of `CloneWire` always holds: unaltered bytes are the encoding of the payload, and what was received is what the bytes decode to |
| `CodecIsStrict` | `CodecStrict`: bytes that decode are the one encoding of what they decode to |
| `EncodeDecode`, `DecodeEncode` | encoding and decoding undo each other |
| `RoundTripHolds` | `RoundTrip`: what is encoded decodes to itself, within the limit, and the object has what was sent |

*Quota.* `QuotaExact` alone is not inductive: `Cardinality` says something only of
finite sets, and an id that is drawn must be new. `QuotaInv` adds that ids below
`nextId` are all that was ever reserved. Every step is shown to be of one of four
kinds as far as the counter is concerned (`OnlyQuotaSteps`), and each keeps it. That a
reservation has somebody who gives it back is inductive by itself (`HeldInv`); that a
table entry has its reservation follows from the invariants of order and entries below.

*Shutdown.* `ShutdownInv` adds what a shut bridge does not hold, and that the Boa
thread settles nothing once the flag is up; a worker's push meets the flag.

*Order.* The refinement rests on an invariant in two halves. The bridge side
says what is true of an operation: reservations are below `nextId`
(`FreshInv`), chunk markers are never put on a promise read (`ChunkInv`), a read
that waits for its result is in the order with its resolvers (`PlaceInv`), a
batch that was taken holds the lowest of them (`BatchInv`) and results are only
completed ones (`CompletedInv`). The call side ties calls to operations: where a
call stands (`CallInv`, `TableInv`), what the queued jobs are for (`JobsInv`),
that everything delivered was delivered to the earlier calls first
(`ServedInv`), and that the job queue keeps the order of successes (`OrderInv`).
Each half has one step per action. `BatchInv` is the heart: a batch is a prefix
of the order because a completed read is skipped over only when its own chunk
marker says so, and a promise read never has one.

*Entries.* `NoStaleEntries` does not stand alone: a worker that is late could put an
entry back beside a batch that was taken. It cannot, because an operation has one
request, which is `OneRequestEach`; and that needs `QuotaInv`, since a full queue
would drop a completion. The invariant `RequestInv` is about one id at a time:
its entries (`EntryAt`), where the one request or result of a promise read is
(`WholeAt`) and of a chunked user (`UserAt`). The settlers then count:
a promise that was not settled has its call in the table, in the batch or in a job.

*Wake-ups.* `ReadyMeansWoken` is false when FileReaders share the bridge (see section
5), so it is checked and proved for promise reads alone. A poll consumes the wake
before it drains the completions; `WokenInv` says that only in between may there be
completions the host was not woken for. The drain leaves nothing that could be taken
(`PrefixTaken`), and a new operation makes nothing ready (`PrefixKept`).

*Streams.* Calls are numbered as they come, so the queue of a stream is a set of
numbers with an order. The invariant has one part for a call (`CallAt`), one for
the queue of a stream (`QueueAt`), one for its request (`ServeAt`), one for what
has been read of the blob (`DataAt`) and one for what the script holds
(`HeldAt`). `Ready` says which calls a stream owes an
answer in a step, with the step's own call; `Splits` that a part goes to the first
of them and the others stay behind; `Covers` that the jobs answer them in order.
Every action is an answer of this kind after what it does first.

*What scripts see of streams.* The refinement needs more than where a call is: the
jobs of one stream are queued in the order of its calls (`InOrder`), the calls that
wait are its last (`Oldest`), and the parts it gave are the chunks it passed
(`Passed`), less the one that only fills the decoder. Answering a prefix of the queue
keeps the first two (`OrdersKeep`). What an answer is does not depend on which job
is looked at, because no call has two (`AnswersInv`). One lemma (`Advances`) then
turns "these calls are answered, the first perhaps with a part" into a step of the
abstract stream; `Ends` and `Continues` are its two uses, and each action is one
of them, a new call, an opening, a settlement, the shutdown or a stutter.

*Readers.* The hard part is what outlives a read: jobs and frames of reads that a
handler has replaced. `Tied` says of each that its operation, if live, is still that
read's, and is live as long as the read is current; so `generation_current` is
enough to know that the tables still have the operation. `PlaceAt` counts where
an operation is, `DataAt` says that what is on its way is for the offset the packaging
state waits for, `ReadAt` that a live operation is its reader's present read. Steps
fall into four families: those that settle nothing (`QuietStep`), those that end a
read (`SettleStep`), those that ask for the next chunk (`SubmitStep`), and those
with which a reader begins a generation (`Renews`). That jobs are about different
operations is kept as a property of sequences (`UniqueOps`), for which the lemmas
on `Append`, `Head` and `Tail` are stated once. The order in which a poll queues
its jobs is any ascending enumeration (`Ascending`), a form the provers can use.

*Events.* The abstract state of a reader is what its objects show and the last event
that started; why the next event is allowed is not in it. `PhaseInv` says what the
rest knows of that last event: a job of the current read (`JobPhase`), a frame whose
handlers run (`FramePhase`) and the packaging state (`PumpAt`: whether `loadstart`
was dispatched). And a current read has at most one job and one frame about its end
(`UniqueEnds`), or `loadend` could come twice. Jobs and frames of replaced reads may
say anything: their generation keeps them from dispatching. All this is claimed
until the flag goes up, after which no event starts. With `IInv` each action is a
step of the grammar for one reader, or a stutter: each job and each way to return
from a handler has a lemma of its own, and what moves no reader is a stutter.

*Files.* A read knows nothing of the file while it reads; only the probe after the
last piece speaks for the pieces before it. `FileInv` says why it may: versions
only grow (`VersionInv`), so every piece lies between the registered version and
the present one (`GotInv`), and a probe that finds the two equal makes each piece
equal to them; `CountInv` says how many pieces there are at each stage. This
needs `FreshInv`, that an id is given out once, which is also what keeps a
closed id closed (`LateInv`). Two things are assumed: that a write changes the
modification time, and that the counter does not come round (the bound
`nextId # 1` of `Register`: 2^64 - 1 registrations).

*The instant of a read.* `AtomicReads` sees of a read only its id, whether that was
open when the read began, and in the end what it returned. Its instant is the last
probe of the last chunk: there the file equals its snapshot (`Unchanged`), and
`FileInv` of the next state says that the pieces are the snapshot's. Earlier steps
of the read are stutters (`GoesOnRefines`), the other ends are failures
(`EndsRefines`); that a registration is of an id with no meaning yet is
`DrawnIsFresh`. The theorem adds to `SuccessIsImported` that the file is still the
registered one when the read succeeds: no read returns what was overwritten before
its last probe.

*Dispatches.* What a frame has called (`FrameAt`) is a prefix of its copy, as long as
the loop has come; it is over only when the two are equal or the event is stopped
(`TopAt`). Neither is disturbed by an inner dispatch, because all frames but the
innermost run a callback and wait (`BelowAt`), and because a FileReader's dispatch
forgets its event when it ends: no outer frame may have that event (`Apart`), which
holds because it was unused when the dispatch began. `PushOwing` counts
what the frames owe. The copies are stated as the listeners at the places of
their type in ascending order (`InOrder`), a form the provers can use; that the
enumeration exists is seen by TLC, which finds every dispatch enabled.

*Contexts.* A handle is safe because a registration is made only by an extension
with a number of its own (`NumberInv`), on which the numbers are injective. The
rest is about what a context holds: nothing before it is registered
(`BlankInv`), only what its closers reach until it is shut down, and nothing
after (`CloserInv`); this makes the URLs in use the entries of the store
(`PairInv`). An entry is never overwritten because a URL that is taken is drawn
again. `SlotInv` keeps the slot counter from going below zero. That registrations
are whole needs no invariant but the lists: every installed name was looked at
before (`OrderFacts`), and there is a first name that a global object resists
(`FirstFacts`, over lists of at most 11 names). The proof showed an earlier form of
the property to be too strong: a name that a failed registration could not take
back is still there when another extension, which does not have that name,
registers. A page that keeps `FileReaderSync` and refuses `URL` is one of the
global objects of the run since then.

*Recursive functions.* A recursive function is a choice: one that satisfies its
equation. That there is one, and what it computes, has to be proved, and the
library's theorems about this take an operator as a parameter, which the provers cannot
instantiate. `BlobValuesProofs` goes another way, and `CloneWireProofs` with it. `Induction` is about sets of numbers
and follows from the least number of a set (`LeastNumber`, from the library's
`NatLessThanWellFounded`). A function with the values the equation asks for is put
together from the beginnings of the iteration (`PrefixExists`, `PrefixUnique`), and by
induction no other satisfies it. Sums, concatenations and the decoder are
iterations over a sequence, and their laws (`SeqInduction`) are by induction on
its last element.

*Segments.* A segment is valid when it is inside its source. Reading the pieces of a
cut is cutting what the segments read (`SliceIs`): one piece is what both have in
common (`Piece`), and when a segment is added at the end the cut of the whole is the
cut of the beginning and a piece more. `WithinLimitsIs` says that leaving out
empty segments changes neither the bytes nor the sum, and that the limits refuse nothing
else.

*Readers of bytes.* With `m` chunks read, the chunks are the bytes cut every `Chunk`
(`UpTo`) and the cursor is at the place they end (`FillIs`: a chunk is filled in
at most two turns per segment, since a turn takes something or goes to the
next). A call leaves less to read, so after as many calls as there are
bytes nothing is left. The workers' ranges are slices, so they give the same
chunks. The decoder keeps of the past only whether a character is open, so feeding
two chunks is feeding their concatenation (`DecodeIs`).

*Numbers.* A double is a sign, a mantissa and an exponent. Below `IntMax` in size
the bits shifted by the code are the integer part; above it the clamped value is
beyond the end of every blob (`ClampedPlace`), for which a blob must be
shorter than 2^63. This is in `ValuesAssumption`: `FileApiLimits::validate` does not ask
for it, but a slice from 2^63 on of a longer blob would begin too early. The default
limit is 2^31. Rounding in `WebIdlNumbers` and its definition in `BlobContents` are both
of the exact value.

*Objects.* The invariant says of a constructor that the bound it keeps while it converts
is at most the weight of its parts under either option for line ends (`Within`):
the shorter line end of the two counts, and counting a text without converting it
(`CountedIs`) gives no more than the conversion makes. So whoever is refused at the conversion
would be refused at the end (`AtConversion`), and who is refused at the end is beyond a
limit with the option it has (`AtProcessing`). Buffers are empty between calls, which is
why an object cannot change with one. Each action is then a step of `BlobContents`
or a stutter: a part is converted to the bytes of the window it then has, and
`CollectAllMakes` with `SliceIs` gives the contents of the object.

*The codec.* An entry has one form on the wire (`HasEntry`: fields one behind the
other, each a word and its bytes, and the timestamp). Four facts join this form to
the code: writing adds it at the end, if the limit allows (`EntryOk`); where it is, it
is read (`EntryHas`); whatever is read is there in this form (`EntryRead`); and what is
there would be written (`EntryHere`). They rest on the same four facts about fields
and words, and these on numbers: the digits of a word are those of one number
(`WordIs`, `NumberIs`), and a timestamp is the one number of its range that is equal to
its digits modulo the range (`StampIs`, `StampOfIs`). Lists are by induction on the
entries, written (`WrittenIsRead`) or read (`ReadIsWritten`). Two checks need an
argument: that the length `validate_payload` adds up, which leaves out the count of a
list, and the checks of each push together keep the limit (`WrittenIsShort`); and that
the decoder, which refuses a count the rest of the input has no room for, refuses no
list that was written (`RoomFor`: an entry has at least twenty bytes). So `EncodeDecode`
and `DecodeEncode` say that encoding and decoding undo each other; the invariant only
adds who made the payload, and that bytes are not altered after they were received.

The assumptions on constants: what `validate` checks; that a mantissa is no longer than an
integer (53 and 64 bits); that texts, types and line ends are sequences of
characters, all arguments doubles, and `Absent` none of the values it stands beside;
that buffers have bytes, one length, and views inside it.

Not provable with the tools here, and so only model-checked: liveness
(`ReadsSettle`, `ReadsAnswered`, `LostStreamsReleased`, `LostReadersUnlock`,
`EveryReadEnds`, `HandlesReleased`), which needs ENABLED. Every invariant and every
refinement that a passing run checks is a theorem.

## 5. Where the code and its comments disagree

Two of these are runs that TLC must find violated.

| Run | The text says | The code does |
|---|---|---|
| `stream_blocks_reads` | streams never block promise reads (`docs/architecture.md:152`) | a stream gets its chunk marker with its first chunk; one that is never read holds back every later promise read |
| `foreign_shutdown` | different contexts stay independent (`extension.rs:749`) | shutdown with another context empties that context's tables and not its bridge: its reads never end and their slots are never freed |

Others, met while modelling. The models do what the code does:

- A settlement job that was queued before shutdown settles its promise after it
  (`promise_read.rs:313`), although `lifecycle.rs:4-7` says late jobs settle nothing.
- Releasing the head of the order makes a finished read deliverable and wakes
  nobody (`io.rs:1033`), although `io.rs:1533-1535` tells the host to wait for the
  wake hook. It takes an aborted FileReader in front of a finished promise read.
- When a later chunk request is refused, `run_pump` stores the pump state again
  after the operation was released (`filereader.rs:1216`), although
  `filereader.rs:1789-1790` says both tables are dropped together. The buffered
  bytes stay until shutdown.
- `EventNative.current_target` is never reset after a dispatch (`dom.rs:529`),
  although its documentation says it is none outside of one.
- When context ids run out, `register` fails after the globals were installed
  (`extension.rs:958`) and rolls nothing back, and the rollback stops at the first
  name the global object refuses to give back and leaves the later ones
  (`extension.rs:1290`), although `extension.rs:739-740` says that when any step
  fails "none of the globals is left installed". The first takes 2^64 contexts;
  `RegistersWhole` allows both.
- A URL is revoked whoever made it, and the owner that `resolve` compares never
  differs within one store (`core/blob_url.rs:321-362`).
- `blob_from_data` and `file_from_data` do not look at the shutdown flag, which the
  other factories reject.
- After an error a `BlobReader` answers further calls with `InvalidRange` for errors
  of other kinds (`core/blob.rs:438-465`).
- The name in a clone payload is called sanitized (`core/clone.rs:19`) and is the
  name as the script gave it.
- `long_long` and `unsigned_long` turn an infinity into the largest or smallest
  value (`webidl.rs:86-115`) where Web IDL has 0.
- The size that is summed for a list leaves out the four bytes of its count
  (`core/clone.rs:254`). The check on each write makes up for it, which `clone_wire`
  relies on.

The abstract specifications are as strong as the code allows and no stronger;
where a comment promises more, they say what holds instead:

- A failed promise read takes two jobs to reject and a successful one takes one, so a
  success may overtake an earlier failure (`PromiseReads`, `Outcome`), although
  `io.rs:1244` speaks of FIFO settlement.
- A `read()` after shutdown resolves as done through a job (`ByteStream`, `Call`),
  although `streams.rs:1380` says its promise stays pending.
- `cancel()` frees the slot and leaves the request's token uncancelled, although
  `streams.rs:1163` says it cancels the request: the chunk arrives and is dropped.
- `load` may fire without a result: a promise job between the pump job and the load
  job may call `abort()` (`filereader.rs:804` and 1528). `FileReaderEvents` asks of
  `load` only that the read ended without an error.
- `loadend` is skipped for any read that starts between the load job and the
  loadend job, not only for one a handler started (`filereader.rs:1488`).
- `close` drops the slot's handle and not the duplicates of reads under way, so
  `live_slot_count` (`fs/capability.rs:297`, "exactly the OS handles currently
  held") counts fewer than are held, and shutdown releases a file "immediately"
  only when no read of it is under way. `HandlesReleased` says eventually.
- An empty range is answered without looking at the registry, so a closed empty
  file can still be read, although `fs/capability.rs:241` says later reads fail
  as `NotFound` (`ClosedReadsFail` excepts it).

## 6. What is not modelled

- Error messages; the decoders other than UTF-8, the labels of encodings and the
  charset of a MIME type (`package.rs:132-374`).
- `FileList.item`, `length` and `webidl.rs`'s `unsigned_long`; the getters of options,
  which are a choice of value or exception; the getters and prototypes of `dom.rs`.
- `clock.rs` and `observability.rs`: a clock is a free choice, telemetry changes nothing.
- A failure of `register` after its last name (see above), and contexts that are
  dropped without a shutdown.
- Rust features: the crate is modelled with its default ones.
- Panics of a worker outside its guarded section, and poisoned mutexes.
- What Boa's `run_jobs` does after a job throws: the engine is not in the
  repository.
- A poll budget of 0, which `set_poll_io_budget` accepts: no FileReader chunk is
  then ever settled and every poll asks for another.
- Dropping the pool, and the reference cycle between a registry's closer and the
  shutdown flag.
- A write to a file that keeps its size and falls into the same tick of the file
  system's clock: `FileSources` takes every write to change the modification time.
- The two locks of a poll with a budget: taking the chunks and putting back those
  beyond it (`io.rs:1364-1404`) is one step, and so is a reservation that a refused
  task gives back. Both are on the Boa thread, which in between releases no operation
  whose chunk it puts back.
- File ids that come round: an instance stops when they run out.
- That a wire's count is refused before memory is allocated for it.
- The closers as a list: each import tracks one more, and `FileSources` keeps one
  flag, since a second `close_all` changes nothing. The registry's own
  `on_shutdown` and `run_closers`, the size limits of imports and
  `authorize_open` are left out. `Contexts` has the closers of several contexts
  over one registry, as a set.
- Everything the plan below still has.

## 7. Plan

Done: (1) `IoBridge`, `FileIoRuntime`, `PromiseReads` and their proofs; (2)
`BlobStream` with `ByteStream`; (3) `FileReaderAsync` with `FileReaderEvents`; (4)
`FileSources` and its proofs; (5) `DomEvents`; (6) `Contexts` and its proofs; (7)
`BlobData`, `WebIdlNumbers` and `BlobValues` with `BlobContents`; (8) `CloneWire`;
the invariants of all modules proved, and the five refinements, of
`PromiseReads`, `ByteStream`, `FileReaderEvents`, `AtomicReads` and `BlobContents`.

Next, in this order:

9. Dropping the worker pool, and the MIME charset parser of `package.rs`.
