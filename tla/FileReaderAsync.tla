-------------------------- MODULE FileReaderAsync ---------------------------
(***************************************************************************)
(* FileReader (crates/boa_fapi/src/filereader.rs) over the completion      *)
(* bridge: readAs*() and abort(), the pump and dispatch jobs in Boa's job  *)
(* queue, poll_io, the workers and shutdown.                               *)
(*                                                                         *)
(* Event handlers run inside the call that dispatches the event and may    *)
(* call readAs*(), abort() and the host's shutdown again.  "stack" holds a *)
(* frame for every dispatch whose handlers still run; a frame is what the  *)
(* code does after they return, and Return does it.                        *)
(*                                                                         *)
(* Data that is abstracted: a blob is its number of chunks, a result or an *)
(* error is its presence, the clock decides freely whether a progress      *)
(* event is due.  The configured chunk size is in its valid range.         *)
(***************************************************************************)
EXTENDS IoBridge, Sequences, SequencesExt

CONSTANTS
    Readers,     \* FileReader objects
    Sizes,       \* chunk counts of the blobs that are read
    PollBudget,  \* reader completions settled per poll_io
    MaxGen,      \* bound: generations drawn
    NoOp         \* no entry

ASSUME ReaderAssumption ==
    /\ Sizes \subseteq Nat
    /\ PollBudget \in Nat /\ MaxGen \in Nat

VARIABLES
    native,    \* FileReaderNative, of each reader
    nextGen,   \* FileReadingQueue.next_generation
    mirror,    \* FileReadingQueue.active
    pending,   \* PendingReaderOps: the reader and generation of an operation
    pumps,     \* PumpStates: the packaging state between two jobs
    payloads,  \* reader_payloads
    size,      \* the blob of each operation
    requests,  \* offsets of the requests the executor holds, per operation
    landed,    \* the completions of chunkQueue
    boa,       \* where the Boa thread is inside shutdown
    jobs,      \* FileReading jobs in Boa's job queue
    stack,     \* dispatches whose handlers run, the innermost first
    last       \* history: the last event of each reader's current read

readerVars == <<native, nextGen, mirror, pending, pumps, payloads, size, requests,
                landed, boa, jobs, stack, last>>
vars == <<bridgeVars, flagShut, readerVars>>

Generations == 0 .. MaxGen
Offsets == {0} \cup UNION {0 .. n : n \in Sizes}
Kinds == {"chunk", "eof", "error"}
Events == {"loadstart", "progress", "final", "load", "error", "abort", "loadend"}

Native == [ready : {"empty", "loading", "done"}, result : BOOLEAN, error : BOOLEAN,
           gen : Generations, terminal : BOOLEAN]
Pump == [started : BOOLEAN, loaded : Offsets]
Operation == [reader : Readers, gen : Generations]

\* Option's None is none of the values it stands beside.
ASSUME NoOpAssumption == NoOp \notin OpIds \cup Operation \cup Pump

Job == [does : {"pump", "load", "error", "loadend"}, reader : Readers, gen : Generations,
        op : OpIds \cup {NoOp}, pump : Pump, chunk : Kinds]
Frame == [event : Events, reader : Readers, gen : Generations, op : OpIds \cup {NoOp},
          loaded : Offsets, chunk : Kinds]

TypeOK ==
    /\ BridgeTypeOK
    /\ native \in [Readers -> Native]
    /\ nextGen \in 1 .. MaxGen + 1
    /\ mirror \in Nat
    /\ pending \in [OpIds -> Operation \cup {NoOp}]
    /\ pumps \in [OpIds -> Pump \cup {NoOp}]
    /\ payloads \subseteq OpIds
    /\ size \in [OpIds -> Sizes \cup {0}]
    /\ requests \in [OpIds -> Seq(Offsets)]
    /\ landed \in [OpIds -> Seq(Kinds)]
    /\ \A op \in OpIds : Len(landed[op]) = chunkQueue[op]
    /\ boa \in {"idle", "closing"}
    /\ jobs \in Seq(Job)
    /\ stack \in Seq(Frame)
    /\ last \in [Readers -> {"none"} \cup Events]

Fresh == [ready |-> "empty", result |-> FALSE, error |-> FALSE, gen |-> 0, terminal |-> FALSE]
FirstPump == [started |-> FALSE, loaded |-> 0]
Empty == [op \in OpIds |-> << >>]
NoOps == [op \in OpIds |-> NoOp]

Init ==
    /\ BridgeInit
    /\ native = [r \in Readers |-> Fresh]
    /\ nextGen = 1
    /\ mirror = 0
    /\ pending = NoOps /\ pumps = NoOps /\ payloads = {}
    /\ size = [op \in OpIds |-> 0]
    /\ requests = Empty /\ landed = Empty
    /\ boa = "idle"
    /\ jobs = << >> /\ stack = << >>
    /\ last = [r \in Readers |-> "none"]

-----------------------------------------------------------------------------
(* Jobs, events and the end of an operation.                               *)

\* Mutant: a late job is not recognised.
IsCurrentAlways(r, gen) == TRUE

\* generation_current.
IsCurrent(r, gen) == native[r].gen = gen

ContextGone == flagShut

PumpJob(r, gen, op, pump, chunk) ==
    [does |-> "pump", reader |-> r, gen |-> gen, op |-> op, pump |-> pump, chunk |-> chunk]

DispatchJob(event, r, gen) ==
    [does |-> event, reader |-> r, gen |-> gen, op |-> NoOp, pump |-> FirstPump, chunk |-> "eof"]

FrameOf(event, r, gen, op, loaded, chunk) ==
    [event |-> event, reader |-> r, gen |-> gen, op |-> op, loaded |-> loaded, chunk |-> chunk]

PlainFrame(event, r, gen) == FrameOf(event, r, gen, NoOp, 0, "eof")

\* The handlers of `frame`'s event start, above the frames `below`.  "final" is
\* the progress event before load.
Dispatch(frame, below) ==
    /\ stack' = <<frame>> \o below
    /\ last' = [last EXCEPT ![frame.reader] =
                  IF frame.event = "final" THEN "progress" ELSE frame.event]

\* Mutant: the counter that mirrors the quota is forgotten.
ReleaseKeepsMirror(op) ==
    /\ pending' = [pending EXCEPT ![op] = NoOp]
    /\ payloads' = payloads \ {op}
    /\ Unreserve(op)
    /\ landed' = [landed EXCEPT ![op] = << >>]
    /\ UNCHANGED mirror

\* settle_success_release, settle_error_release, the release in abort: the
\* entry, the payload, the slot and its mirror.
Release(op) ==
    /\ pending' = [pending EXCEPT ![op] = NoOp]
    /\ payloads' = payloads \ {op}
    /\ Unreserve(op)
    /\ landed' = [landed EXCEPT ![op] = << >>]
    /\ mirror' = IF mirror > 0 THEN mirror - 1 ELSE 0

\* Mutant: the job that fires error is not queued.
SettlesSilently(r, gen, op, event, queue) ==
    /\ native' = [native EXCEPT ![r] = [ready |-> "done", result |-> event = "load",
                     error |-> event = "error", gen |-> gen, terminal |-> FALSE]]
    /\ Release(op)
    /\ jobs' = IF event = "load" THEN Append(queue, DispatchJob(event, r, gen)) ELSE queue
    /\ UNCHANGED <<cancelled, requests>>

\* finish_at_eof, fail_operation: the reader is done, with a result or with an
\* error, and the job that says so is queued behind `queue`.
Settles(r, gen, op, event, queue) ==
    /\ native' = [native EXCEPT ![r] = [ready |-> "done", result |-> event = "load",
                     error |-> event = "error", gen |-> gen, terminal |-> FALSE]]
    /\ Release(op)
    /\ jobs' = Append(queue, DispatchJob(event, r, gen))
    /\ UNCHANGED <<cancelled, requests>>

-----------------------------------------------------------------------------
(* readAs*() and abort(), called by a script or by a handler.              *)

MayRead(r) == boa = "idle" /\ native[r].ready # "loading" /\ nextGen <= MaxGen

\* fail_fast, fail_operation_inline: the read is over before it starts.
FailsAtOnce(r) ==
    /\ native' = [native EXCEPT ![r] = [ready |-> "done", result |-> FALSE, error |-> TRUE,
                     gen |-> nextGen, terminal |-> FALSE]]
    /\ nextGen' = nextGen + 1
    /\ jobs' = Append(jobs, DispatchJob("error", r, nextGen))
    /\ last' = [last EXCEPT ![r] = "none"]
    /\ UNCHANGED <<flagShut, mirror, pending, pumps, payloads, size, requests, landed,
                   boa, stack>>

\* The runtime is shut down, the mirrored quota is used up, or a data URL
\* would be too long.
ReadRefused(r) ==
    /\ MayRead(r)
    /\ \E tooLong \in BOOLEAN : ContextGone \/ mirror >= Limit \/ tooLong
    /\ FailsAtOnce(r)
    /\ UNCHANGED bridgeVars

\* The bridge refuses the slot.
ReadQuotaFails(r) ==
    /\ MayRead(r) /\ ~ContextGone /\ mirror < Limit
    /\ ReserveFails
    /\ FailsAtOnce(r)

\* The executor refuses the first request; everything is given back.
ReadSubmitFails(r) ==
    /\ MayRead(r) /\ ~ContextGone /\ mirror < Limit
    /\ ReserveAndReturn
    /\ FailsAtOnce(r)

\* start_read submits the request for the first chunk.
ReadStarted(r) ==
    /\ MayRead(r) /\ ~ContextGone /\ mirror < Limit
    /\ \E op \in OpIds :
          /\ Reserve(op)
          /\ pending' = [pending EXCEPT ![op] = [reader |-> r, gen |-> nextGen]]
          /\ pumps' = [pumps EXCEPT ![op] = FirstPump]
          /\ payloads' = payloads \cup {op}
          /\ \E n \in Sizes : size' = [size EXCEPT ![op] = n]
          /\ requests' = [requests EXCEPT ![op] = Append(@, 0)]
    /\ native' = [native EXCEPT ![r] = [ready |-> "loading", result |-> FALSE, error |-> FALSE,
                     gen |-> nextGen, terminal |-> FALSE]]
    /\ nextGen' = nextGen + 1
    /\ mirror' = mirror + 1
    /\ last' = [last EXCEPT ![r] = "none"]
    /\ UNCHANGED <<flagShut, landed, boa, jobs, stack>>

\* abort() outside LOADING.
AbortIdle(r) ==
    /\ boa = "idle" /\ native[r].ready # "loading"
    /\ native' = [native EXCEPT ![r].result = FALSE]
    /\ UNCHANGED <<bridgeVars, flagShut, nextGen, mirror, pending, pumps, payloads, size,
                   requests, landed, boa, jobs, stack, last>>

\* abort() of a read.  After shutdown its operation is gone and no event fires.
AbortRead(r) ==
    /\ boa = "idle" /\ native[r].ready = "loading" /\ nextGen <= MaxGen
    /\ native' = [native EXCEPT ![r] = [ready |-> "done", result |-> FALSE, error |-> FALSE,
                     gen |-> nextGen, terminal |-> FALSE]]
    /\ nextGen' = nextGen + 1
    /\ LET ops == {op \in OpIds : pending[op] # NoOp /\ pending[op].reader = r}
       IN /\ cancelled' = cancelled \cup (ops \cap tokens)
          /\ pumps' = [op \in OpIds |-> IF op \in ops THEN NoOp ELSE pumps[op]]
          /\ IF ops = {}
             THEN UNCHANGED <<nextId, exhausted, tokens, order, active, completed,
                              completions, chunkQueue, chunkRes, woken, bridgeShut,
                              mirror, pending, payloads, landed>>
             ELSE Release(CHOOSE op \in ops : TRUE)
    /\ IF ContextGone THEN UNCHANGED <<stack, last>>
       ELSE Dispatch(PlainFrame("abort", r, nextGen), stack)
    /\ UNCHANGED <<flagShut, size, requests, boa, jobs>>

-----------------------------------------------------------------------------
(* The workers and poll_io.                                                *)

\* FileReaderChunkTask::execute, for any outstanding request.
WorkerPush(op) ==
    /\ \E i \in DOMAIN requests[op] :
          LET at == requests[op][i]
          IN /\ requests' = [requests EXCEPT ![op] = RemoveAt(@, i)]
             /\ \E kind \in Kinds :
                   /\ IF IsShutdown \/ op \in cancelled THEN kind = "error"
                      ELSE kind = "eof" <=> at = size[op]
                   /\ landed' = IF PushIsStale(op) THEN landed
                                ELSE [landed EXCEPT ![op] = Append(@, kind)]
    /\ PushChunk(op)
    /\ UNCHANGED <<flagShut, native, nextGen, mirror, pending, pumps, payloads, size, boa,
                   jobs, stack, last>>

\* settle_reader_completion makes a job of the operation's completion.
IsAwaited(op) ==
    /\ pending[op] # NoOp /\ pumps[op] # NoOp
    /\ IsCurrent(pending[op].reader, pending[op].gen)

\* poll_io goes through the completions by operation and stops counting jobs
\* at its budget.
WithinBudget ==
    {op \in QueuedChunks :
        Cardinality({earlier \in QueuedChunks : earlier < op /\ IsAwaited(earlier)}) < PollBudget}

\* Mutant: what the budget leaves over is not put back.
DrainedWithoutRequeue == QueuedChunks

\* take_reader_completions takes all, requeue_reader_completion puts back what
\* the budget leaves over.
Drained == WithinBudget

\* take_pump_state: the state travels with the job.
Taken(ops) == [op \in OpIds |-> IF op \in ops THEN NoOp ELSE pumps[op]]

\* The operations `ops` in ascending order.
Ascending(ops) ==
    {inOrder \in [1 .. Cardinality(ops) -> ops] :
        /\ \A i, j \in 1 .. Cardinality(ops) : i < j => inOrder[i] < inOrder[j]
        /\ \A op \in ops : \E i \in 1 .. Cardinality(ops) : inOrder[i] = op}

\* poll_io's part for FileReader; one step, since other threads only push to
\* the queues it has not taken.
Poll ==
    /\ boa = "idle" /\ stack = << >> /\ QueuedChunks # {}
    /\ LET ops == {op \in WithinBudget : IsAwaited(op)}
       IN /\ TakeChunks(Drained)
          /\ landed' = [op \in OpIds |-> IF chunkQueue'[op] > 0 THEN landed[op] ELSE << >>]
          /\ \E inOrder \in Ascending(ops) :
                jobs' = jobs \o
                   [i \in 1 .. Cardinality(ops) |->
                      LET op == inOrder[i]
                      IN PumpJob(pending[op].reader, pending[op].gen, op, pumps[op],
                                 Head(landed[op]))]
          /\ pumps' = Taken(ops)
    /\ UNCHANGED <<flagShut, native, nextGen, mirror, pending, payloads, size, requests,
                   boa, stack, last>>

-----------------------------------------------------------------------------
(* FileReading jobs.                                                       *)

JobRuns == boa = "idle" /\ stack = << >> /\ jobs # << >>

\* A terminal event fires once, of a reader that is settled; loadend after it.
MayRun(job) ==
    LET r == native[job.reader]
    IN /\ IsCurrent(job.reader, job.gen)
       /\ ~ContextGone
       /\ job.does = "load"    => r.ready = "done" /\ ~r.terminal
       /\ job.does = "error"   => r.ready = "done" /\ ~r.terminal /\ r.error
       /\ job.does = "loadend" => r.terminal

noEvents == <<bridgeVars, flagShut, native, nextGen, mirror, pending, payloads, size,
              requests, landed, boa>>

\* A job of an earlier read, or after shutdown, when the tables are empty.
DropJob ==
    /\ JobRuns /\ ~MayRun(Head(jobs))
    /\ jobs' = Tail(jobs)
    /\ UNCHANGED <<noEvents, pumps, stack, last>>

\* run_pump's first job of a read fires loadstart and keeps the completion.
RunLoadstart ==
    /\ JobRuns /\ MayRun(Head(jobs))
    /\ LET job == Head(jobs)
           started == [job.pump EXCEPT !.started = TRUE]
       IN /\ job.does = "pump" /\ ~job.pump.started
          /\ pumps' = [pumps EXCEPT ![job.op] = started]
          /\ Dispatch(FrameOf("loadstart", job.reader, job.gen, job.op, 0, job.chunk), << >>)
    /\ jobs' = Tail(jobs)
    /\ UNCHANGED noEvents

\* submit_next_chunk, and the packaging state that is stored whatever became
\* of the request.
SubmitsNext(r, gen, op, loaded, queue) ==
    /\ \/ /\ requests' = [requests EXCEPT ![op] = Append(@, loaded)]
          /\ jobs' = queue
          /\ UNCHANGED <<bridgeVars, native, mirror, pending, payloads, landed>>
       \/ Settles(r, gen, op, "error", queue)
    /\ pumps' = [pumps EXCEPT ![op] = [started |-> TRUE, loaded |-> loaded]]

\* The first chunk is always due, the clock decides about the others; the last
\* one is reported by the final progress event.
IsProgressDue(op, loaded, due) == (due \/ loaded = 1) /\ loaded < size[op]

FailsPump(job) ==
    /\ Settles(job.reader, job.gen, job.op, "error", Tail(jobs))
    /\ pumps' = [pumps EXCEPT ![job.op] = NoOp]
    /\ UNCHANGED <<stack, last>>

Fires(job, event, loaded) ==
    /\ Dispatch(FrameOf(event, job.reader, job.gen, job.op, loaded, "chunk"), << >>)
    /\ jobs' = Tail(jobs)
    /\ UNCHANGED <<bridgeVars, native, mirror, pending, pumps, payloads, requests, landed>>

\* run_pump applies a completion.
RunPump ==
    /\ JobRuns /\ MayRun(Head(jobs))
    /\ LET job == Head(jobs)
           loaded == job.pump.loaded + 1
       IN /\ job.does = "pump" /\ job.pump.started
          /\ \/ job.chunk = "error" /\ FailsPump(job)
             \/ job.chunk = "chunk" /\ FailsPump(job)  \* it cannot be decoded
             \/ job.chunk = "eof" /\ Fires(job, "final", 0)
             \/ /\ job.chunk = "chunk"
                /\ \E due \in BOOLEAN :
                      \/ IsProgressDue(job.op, loaded, due) /\ Fires(job, "progress", loaded)
                      \/ /\ ~IsProgressDue(job.op, loaded, due)
                         /\ loaded < size[job.op]
                         /\ SubmitsNext(job.reader, job.gen, job.op, loaded, Tail(jobs))
                         /\ UNCHANGED <<stack, last>>
                      \/ /\ ~IsProgressDue(job.op, loaded, due)
                         /\ loaded >= size[job.op]
                         /\ Fires(job, "final", loaded)
    /\ UNCHANGED <<flagShut, nextGen, size, boa>>

\* run_dispatch of load, error or loadend.
RunDispatch ==
    /\ JobRuns /\ MayRun(Head(jobs))
    /\ LET job == Head(jobs)
       IN /\ job.does # "pump"
          /\ Dispatch(PlainFrame(job.does, job.reader, job.gen), << >>)
    /\ jobs' = Tail(jobs)
    /\ UNCHANGED <<noEvents, pumps>>

-----------------------------------------------------------------------------
(* The handlers of an event have returned.                                 *)

\* The code goes on with the read unless a handler replaced it; after progress
\* it also stops when a handler shut the runtime down.
GoesOn(frame) ==
    /\ frame.event # "loadend"
    /\ IsCurrent(frame.reader, frame.gen)
    /\ frame.event \in {"progress", "final"} => ~ContextGone

ReturnLast ==
    /\ boa = "idle" /\ stack # << >> /\ ~GoesOn(Head(stack))
    /\ stack' = Tail(stack)
    /\ UNCHANGED <<noEvents, pumps, jobs, last>>

ReturnLoadstart ==
    /\ boa = "idle" /\ stack # << >> /\ GoesOn(Head(stack))
    /\ LET f == Head(stack)
       IN /\ f.event = "loadstart"
          /\ jobs' = Append(jobs, PumpJob(f.reader, f.gen, f.op,
                                          [started |-> TRUE, loaded |-> 0], f.chunk))
    /\ stack' = Tail(stack)
    /\ UNCHANGED <<noEvents, pumps, last>>

ReturnProgress ==
    /\ boa = "idle" /\ stack # << >> /\ GoesOn(Head(stack))
    /\ LET f == Head(stack)
       IN f.event = "progress" /\ SubmitsNext(f.reader, f.gen, f.op, f.loaded, jobs)
    /\ stack' = Tail(stack)
    /\ UNCHANGED <<flagShut, nextGen, size, boa, last>>

\* The result is packaged, or cannot be.
ReturnFinal ==
    /\ boa = "idle" /\ stack # << >> /\ GoesOn(Head(stack))
    /\ LET f == Head(stack)
       IN /\ f.event = "final"
          /\ \E event \in {"load", "error"} : Settles(f.reader, f.gen, f.op, event, jobs)
          /\ pumps' = [pumps EXCEPT ![f.op] = NoOp]
    /\ stack' = Tail(stack)
    /\ UNCHANGED <<flagShut, nextGen, size, boa, last>>

ReturnTerminal ==
    /\ boa = "idle" /\ stack # << >> /\ GoesOn(Head(stack))
    /\ LET f == Head(stack)
       IN /\ f.event \in {"load", "error"}
          /\ native' = [native EXCEPT ![f.reader].terminal = TRUE]
          /\ jobs' = Append(jobs, DispatchJob("loadend", f.reader, f.gen))
    /\ stack' = Tail(stack)
    /\ UNCHANGED <<bridgeVars, flagShut, nextGen, mirror, pending, pumps, payloads, size,
                   requests, landed, boa, last>>

\* Mutant: nobody asks whether a handler of abort shut the runtime down.
ReturnAbortUnchecked ==
    /\ boa = "idle" /\ stack # << >> /\ GoesOn(Head(stack))
    /\ LET f == Head(stack)
       IN /\ f.event = "abort"
          /\ native' = [native EXCEPT ![f.reader].terminal = TRUE]
          /\ Dispatch(PlainFrame("loadend", f.reader, f.gen), Tail(stack))
    /\ UNCHANGED <<bridgeVars, flagShut, nextGen, mirror, pending, pumps, payloads, size,
                   requests, landed, boa, jobs>>

\* dispatch_terminal_now fires loadend before abort() returns.
ReturnAbort ==
    /\ boa = "idle" /\ stack # << >> /\ GoesOn(Head(stack))
    /\ LET f == Head(stack)
       IN /\ f.event = "abort"
          /\ native' = [native EXCEPT ![f.reader].terminal = TRUE]
          /\ IF ContextGone THEN stack' = Tail(stack) /\ UNCHANGED last
             ELSE Dispatch(PlainFrame("loadend", f.reader, f.gen), Tail(stack))
    /\ UNCHANGED <<bridgeVars, flagShut, nextGen, mirror, pending, pumps, payloads, size,
                   requests, landed, boa, jobs>>

-----------------------------------------------------------------------------
(* Shutdown, which a handler may call too.                                 *)

CloseFlag ==
    /\ boa = "idle" /\ ~flagShut
    /\ flagShut' = TRUE
    /\ boa' = "closing"
    /\ UNCHANGED <<bridgeVars, native, nextGen, mirror, pending, pumps, payloads, size,
                   requests, landed, jobs, stack, last>>

\* The tracked closer shuts the bridge down, drop_all_reader_state_for_shutdown
\* clears the tables.
CloseBridge ==
    /\ boa = "closing"
    /\ ShutdownBridge
    /\ pending' = NoOps /\ pumps' = NoOps /\ payloads' = {} /\ mirror' = 0
    /\ landed' = Empty
    /\ boa' = "idle"
    /\ UNCHANGED <<flagShut, native, nextGen, size, requests, jobs, stack, last>>

-----------------------------------------------------------------------------
Script(r) ==
    \/ ReadRefused(r) \/ ReadQuotaFails(r) \/ ReadSubmitFails(r) \/ ReadStarted(r)
    \/ AbortIdle(r) \/ AbortRead(r)

RunJob == DropJob \/ RunLoadstart \/ RunPump \/ RunDispatch

Return ==
    \/ ReturnLast \/ ReturnLoadstart \/ ReturnProgress \/ ReturnFinal
    \/ ReturnTerminal \/ ReturnAbort

Next ==
    \/ \E r \in Readers : Script(r)
    \/ \E op \in OpIds : WorkerPush(op)
    \/ Poll \/ RunJob \/ Return
    \/ CloseFlag \/ CloseBridge

Spec == Init /\ [][Next]_vars

\* The host loop of docs/host-integration.md polls and runs the jobs, handlers
\* return, and the operating system schedules the workers.
FairSpec ==
    /\ Spec
    /\ \A op \in OpIds : WF_vars(WorkerPush(op))
    /\ WF_vars(Return) /\ WF_vars(CloseBridge)
    /\ SF_vars(Poll) /\ SF_vars(RunJob)

-----------------------------------------------------------------------------
(* Safety.                                                                 *)

\* The entry of an operation, its payload, its slot in the bridge and the
\* counter that mirrors the quota come and go together, whoever ends the read,
\* also a handler in the middle of a dispatch (start_read, abort,
\* settle_success_release, settle_error_release, drop_all_reader_state_for_shutdown).
QuotaMirrored ==
    boa # "closing" =>
        LET ops == {op \in OpIds : pending[op] # NoOp}
        IN ops = tokens /\ ops = payloads /\ mirror = active /\ active = Cardinality(ops)

\* A live read is at one place: a request, a completion, a pump job or an
\* event whose handlers run; it never has two requests and never gets lost
\* ("exactly one next request", run_pump).
OneStep ==
    \A op \in OpIds : pending[op] # NoOp /\ ~flagShut =>
        LET r == pending[op].reader
        IN /\ native[r].ready = "loading" /\ native[r].gen = pending[op].gen
           /\ Len(requests[op]) + Len(landed[op])
                + Cardinality({i \in DOMAIN jobs : jobs[i].op = op})
                + Cardinality({i \in DOMAIN stack : stack[i].op = op}) = 1

\* No event starts once the runtime is shut down, whichever handler, job or
\* completion was under way: handlers only return, and no reader has a new last
\* event, also where the next event takes the place of the one that returns
\* (run_dispatch, run_pump, and dispatch_terminal_now between abort and loadend).
NoEventAfterShutdown ==
    [][flagShut => /\ UNCHANGED stack \/ (stack # << >> /\ stack' = Tail(stack))
                   /\ \A r \in Readers : last'[r] \in {last[r], "none"}]_vars

\* What a script sees of the readers.
Abstract == INSTANCE FileReaderEvents WITH
    state <- [r \in Readers |-> native[r].ready],
    result <- [r \in Readers |-> native[r].result],
    error <- [r \in Readers |-> native[r].error]

\* Readers keep the event grammar, however handlers and late jobs of replaced
\* reads interleave (generation_current, terminal_dispatched).
ReaderPromise == Abstract!Spec

-----------------------------------------------------------------------------
(* Liveness.                                                               *)

\* Every read that is not replaced by the next one fires its loadend, unless
\* the runtime is shut down (run_pump, fail_operation, run_dispatch, abort).
EveryReadEnds ==
    \A r \in Readers : \A g \in 1 .. MaxGen :
        native[r].gen = g ~> (last[r] = "loadend" \/ native[r].gen # g \/ flagShut)

=============================================================================
