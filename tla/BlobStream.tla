----------------------------- MODULE BlobStream -----------------------------
(***************************************************************************)
(* Blob.prototype.stream() and textStream() (crates/boa_fapi/src/          *)
(* streams.rs) over the completion bridge: the Boa thread, which runs the  *)
(* script's calls, poll_io and the settlement jobs, the garbage collector, *)
(* whose finalizers only clear atomic flags, and worker threads.           *)
(*                                                                         *)
(* A stream is named by its operation id.  A blob is the number of its     *)
(* chunks and how it is read: as "bytes", or as text whose tail decodes    *)
(* with the last chunk ("none"), comes out as one more text at the end     *)
(* ("extra"), or fills the last chunk, which is no text then ("silent");   *)
(* chunks are at least 16 KiB, so only the last one can be silent.         *)
(*                                                                         *)
(* A live operation's generation never changes (it is bumped only together *)
(* with the removal of its entry), so completions are matched by           *)
(* operation.  poll_io's other two drains find nothing of a stream.        *)
(***************************************************************************)
EXTENDS IoBridge, Sequences, SequencesExt

CONSTANTS
    Blobs,     \* the blobs scripts stream: records [chunks, tail]
    MaxCalls,  \* read() calls a script makes
    NoBlob

ASSUME StreamAssumption ==
    /\ \A b \in Blobs : /\ b.chunks \in Nat
                        /\ b.tail \in {"bytes", "none", "extra", "silent"}
                        /\ b.tail \in {"extra", "silent"} => b.chunks > 0
    /\ MaxCalls \in Nat
    /\ NoBlob \notin Blobs

VARIABLES
    blob,       \* the blob of each stream that was created
    stream,     \* StreamShared, of each stream
    signal,     \* StreamEndpointSignals, of each stream
    holds,      \* the objects of each stream the script still reaches
    ops,        \* PendingStreamOps: the live streams
    payloads,   \* stream_payloads
    demand,     \* stream_live_demand
    errors,     \* PendingStreamErrors: streams that replay an error
    table,      \* PendingStreamReads: calls whose resolvers are kept
    requests,   \* offsets of the requests the executor holds, per stream
    landed,     \* the completions of chunkQueue
    batch,      \* completions poll_io took and did not settle yet
    boa,        \* where the Boa thread is inside poll_io and shutdown
    jobs,       \* settlement jobs in Boa's job queue
    reads,      \* history: the stream a call reads, or 0
    promise     \* the answer each call's promise settled with

streamVars == <<blob, stream, signal, holds, ops, payloads, demand, errors,
                table, requests, landed, batch, boa, jobs, reads, promise>>
vars == <<bridgeVars, flagShut, streamVars>>

Calls == 1 .. MaxCalls
MostParts == {b.chunks + 1 : b \in Blobs}

Answer(is, part) == [is |-> is, part |-> part]
Waiting == Answer("waiting", 0)
Done == Answer("done", 0)
Failed == Answer("error", 0)
Part(n) == Answer("part", n)
AnswerTo(calls, answer) == [i \in DOMAIN calls |-> [call |-> calls[i], answer |-> answer]]

Offsets == UNION {0 .. b.chunks : b \in Blobs}
Completion == [kind : {"chunk", "eof", "error"}, at : Offsets]
Stream == [loaded : Offsets \cup {0}, queue : Seq(Calls), inFlight : BOOLEAN,
           locked : BOOLEAN, streamReg : BOOLEAN, readerReg : BOOLEAN]
AnyAnswer == {Waiting, Done, Failed} \cup {Part(n) : n \in UNION {1 .. m : m \in MostParts}}

TypeOK ==
    /\ BridgeTypeOK
    /\ blob \in [OpIds -> Blobs \cup {NoBlob}]
    /\ stream \in [OpIds -> Stream]
    /\ signal \in [OpIds -> [stream : BOOLEAN, reader : BOOLEAN]]
    /\ holds \in [OpIds -> SUBSET {"stream", "reader", "released"}]
    /\ UNION {ops, payloads, demand, errors} \subseteq OpIds
    /\ table \subseteq Calls
    /\ requests \in [OpIds -> Seq(Offsets)]
    /\ landed \in [OpIds -> Seq(Completion)]
    /\ \A id \in OpIds : Len(landed[id]) = chunkQueue[id]
    /\ batch \in [OpIds -> Seq(Completion)]
    /\ boa \in {"idle", "sweeping", "taking", "settling", "resweeping", "closing"}
    /\ jobs \in Seq([call : Calls, answer : AnyAnswer])
    /\ reads \in [Calls -> OpIds \cup {0}]
    /\ promise \in [Calls -> AnyAnswer]

Closed == [loaded |-> 0, queue |-> << >>, inFlight |-> FALSE, locked |-> FALSE,
           streamReg |-> FALSE, readerReg |-> FALSE]
Empty == [id \in OpIds |-> << >>]

Init ==
    /\ BridgeInit
    /\ blob = [id \in OpIds |-> NoBlob]
    /\ stream = [id \in OpIds |-> Closed]
    /\ signal = [id \in OpIds |-> [stream |-> FALSE, reader |-> FALSE]]
    /\ holds = [id \in OpIds |-> {}]
    /\ ops = {} /\ payloads = {} /\ demand = {} /\ errors = {} /\ table = {}
    /\ requests = Empty /\ landed = Empty /\ batch = Empty
    /\ boa = "idle"
    /\ jobs = << >>
    /\ reads = [c \in Calls |-> 0]
    /\ promise = [c \in Calls |-> Waiting]

-----------------------------------------------------------------------------
(* The objects a script holds, and their finalizers.                       *)

\* create_stream: a slot is reserved, nothing is read yet.
CreateStream ==
    /\ boa = "idle"
    /\ \E id \in OpIds :
          /\ Reserve(id)
          /\ \E b \in Blobs : blob' = [blob EXCEPT ![id] = b]
          /\ stream' = [stream EXCEPT ![id].streamReg = TRUE]
          /\ signal' = [signal EXCEPT ![id].stream = TRUE]
          /\ holds' = [holds EXCEPT ![id] = {"stream"}]
          /\ ops' = ops \cup {id}
          /\ payloads' = payloads \cup {id}
    /\ UNCHANGED <<flagShut, demand, errors, table, requests, landed, batch,
                   boa, jobs, reads, promise>>

\* create_stream throws: shut down, or the quota refuses.
CreateStreamFails ==
    /\ boa = "idle"
    /\ ReserveFails
    /\ UNCHANGED <<flagShut, streamVars>>

objectsOnly == <<bridgeVars, flagShut, blob, ops, payloads, demand, errors,
                 table, requests, landed, batch, boa, jobs, reads, promise>>

GetReader(id) ==
    /\ boa = "idle" /\ "stream" \in holds[id]
    /\ id \in ops /\ ~stream[id].locked
    /\ stream' = [stream EXCEPT ![id].locked = TRUE, ![id].readerReg = TRUE]
    /\ signal' = [signal EXCEPT ![id].reader = TRUE]
    /\ holds' = [holds EXCEPT ![id] = @ \cup {"reader"}]
    /\ UNCHANGED objectsOnly

\* releaseLock, which throws while calls wait.  The released reader object
\* gives its signal back, so that its own finalizer will not.
ReleaseLock(id) ==
    /\ boa = "idle" /\ "reader" \in holds[id]
    /\ id \in ops => stream[id].queue = << >> /\ ~stream[id].inFlight
    /\ stream' = IF id \notin ops THEN stream
                 ELSE [stream EXCEPT ![id].locked = FALSE, ![id].readerReg = FALSE]
    /\ signal' = [signal EXCEPT ![id].reader = FALSE]
    /\ holds' = [holds EXCEPT ![id] = (@ \ {"reader"}) \cup {"released"}]
    /\ UNCHANGED objectsOnly

\* The collector finalizes an object, between or inside the calls of the Boa
\* thread: signal_drop.
Collect(id, object) ==
    /\ object \in holds[id]
    /\ holds' = [holds EXCEPT ![id] = @ \ {object}]
    /\ signal' = CASE object = "stream"   -> [signal EXCEPT ![id].stream = FALSE]
                   [] object = "reader"   -> [signal EXCEPT ![id].reader = FALSE]
                   [] object = "released" -> signal
    /\ UNCHANGED <<stream, objectsOnly>>

-----------------------------------------------------------------------------
(* Terminal transitions.                                                   *)

\* Mutant: the slot is released, the payload is kept.
ReleaseKeepsPayload(id) ==
    /\ ops' = ops \ {id}
    /\ demand' = demand \ {id}
    /\ Unreserve(id)
    /\ landed' = [landed EXCEPT ![id] = << >>]
    /\ UNCHANGED payloads

\* release_stream_operation, transition_stream_eof: the entry, its payload and
\* its slot go together, once.  What workers still push is dropped.
Release(id) ==
    /\ ops' = ops \ {id}
    /\ payloads' = payloads \ {id}
    /\ demand' = demand \ {id}
    /\ Unreserve(id)
    /\ landed' = [landed EXCEPT ![id] = << >>]

\* The stream ends and its calls are answered, in their order; its shared
\* state is reached through the entry and goes with it.
Ends(id, answers) ==
    /\ Release(id)
    /\ stream' = [stream EXCEPT ![id] = Closed]
    /\ table' = table \ {answers[i].call : i \in DOMAIN answers}
    /\ jobs' = jobs \o answers
    /\ UNCHANGED requests

\* Mutant: the error is not kept for later calls.
FailsOnce(id, before, calls) ==
    /\ Ends(id, before \o AnswerTo(calls, Failed))
    /\ UNCHANGED errors

\* fail_stream_with: later calls replay the error.
Fails(id, before, calls) ==
    /\ Ends(id, before \o AnswerTo(calls, Failed))
    /\ errors' = errors \cup {id}

\* Mutant: only the oldest waiting call is answered.
FinishesOldest(id, before, calls) ==
    /\ Ends(id, before \o AnswerTo(IF calls = << >> THEN << >> ELSE <<Head(calls)>>, Done))
    /\ UNCHANGED errors

\* settle_stream_eof, cancel_shared.
Finishes(id, before, calls) ==
    /\ Ends(id, before \o AnswerTo(calls, Done))
    /\ UNCHANGED errors

-----------------------------------------------------------------------------
(* read(), cancel().                                                       *)

\* Mutant: a request is submitted although one is in flight.
NeedsRequestAlways(s) == s.queue # << >>

\* maybe_submit_next submits when calls wait and nothing is in flight.
NeedsRequest(s) == s.queue # << >> /\ ~s.inFlight

\* The stream continues as `s`, with one more request if it needs one; `before`
\* was answered already.  If the executor refuses the request the stream fails
\* (fail_stream_from_submit).
Continues(id, s, before) ==
    \/ /\ NeedsRequest(s)
       /\ stream' = [stream EXCEPT ![id] = [s EXCEPT !.inFlight = TRUE]]
       /\ requests' = [requests EXCEPT ![id] = Append(@, s.loaded)]
       /\ table' = (table \cup ToSet(s.queue)) \ {before[i].call : i \in DOMAIN before}
       /\ demand' = demand \cup {id}
       /\ jobs' = jobs \o before
       /\ UNCHANGED <<bridgeVars, ops, payloads, errors, landed>>
    \/ /\ NeedsRequest(s)
       /\ Fails(id, before, s.queue)
       /\ UNCHANGED cancelled
    \/ /\ ~NeedsRequest(s)
       /\ stream' = [stream EXCEPT ![id] = s]
       /\ table' = (table \cup ToSet(s.queue)) \ {before[i].call : i \in DOMAIN before}
       /\ demand' = IF s.queue = << >> THEN demand \ {id} ELSE demand \cup {id}
       /\ jobs' = jobs \o before
       /\ UNCHANGED <<bridgeVars, ops, payloads, errors, requests, landed>>

\* reader_read: a stream that is over answers at once, a live one queues the
\* call.
Read(id) ==
    /\ boa = "idle" /\ "reader" \in holds[id]
    /\ \E c \in Calls :
          /\ reads[c] = 0 /\ \A earlier \in Calls : earlier < c => reads[earlier] # 0
          /\ reads' = [reads EXCEPT ![c] = id]
          /\ IF id \in ops
             THEN Continues(id, [stream[id] EXCEPT !.queue = Append(@, c)], << >>)
             ELSE /\ jobs' = jobs \o AnswerTo(<<c>>, IF id \in errors THEN Failed ELSE Done)
                  /\ UNCHANGED <<bridgeVars, stream, ops, payloads, demand, errors,
                                 table, requests, landed>>
    /\ UNCHANGED <<flagShut, blob, signal, holds, batch, boa, promise>>

\* reader_cancel, and stream_cancel when the stream is not locked.  A stream
\* that is over stays as it is.  The promise cancel() returns is left out.
Cancel(id) ==
    /\ boa = "idle" /\ id \in ops
    /\ "reader" \in holds[id] \/ ("stream" \in holds[id] /\ ~stream[id].locked)
    /\ Finishes(id, << >>, stream[id].queue)
    /\ UNCHANGED <<cancelled, flagShut, blob, signal, holds, batch, boa, reads, promise>>

-----------------------------------------------------------------------------
(* The workers.                                                            *)

\* StreamChunkTask::execute, for any outstanding request: requests of several
\* streams finish in any order.  A shut-down or cancelled request reads
\* nothing; other reads return the chunk or fail.
WorkerPush(id) ==
    /\ \E i \in DOMAIN requests[id] :
          LET at == requests[id][i]
          IN /\ requests' = [requests EXCEPT ![id] = RemoveAt(@, i)]
             /\ \E kind \in {"chunk", "eof", "error"} :
                   /\ IF IsShutdown \/ id \in cancelled THEN kind = "error"
                      ELSE kind = "eof" <=> at = blob[id].chunks
                   /\ landed' = IF PushIsStale(id) THEN landed
                                ELSE [landed EXCEPT ![id] = Append(@, [kind |-> kind, at |-> at])]
    /\ PushChunk(id)
    /\ UNCHANGED <<flagShut, blob, stream, signal, holds, ops, payloads, demand,
                   errors, table, batch, boa, jobs, reads, promise>>

-----------------------------------------------------------------------------
(* poll_io.                                                                *)

\* Mutant: a lost reader unlocks the stream only together with the stream.
SyncedKeepsLock(id) ==
    [stream[id] EXCEPT !.streamReg = @ /\ signal[id].stream,
                       !.readerReg = @ /\ signal[id].reader]

\* Mutant: the signal of the reader is not read.
SyncedStreamOnly(id) == [stream[id] EXCEPT !.streamReg = @ /\ signal[id].stream]

\* synchronize_endpoint_signals for one live stream.
Synced(id) ==
    LET s == [stream[id] EXCEPT !.streamReg = @ /\ signal[id].stream,
                                !.readerReg = @ /\ signal[id].reader]
    IN IF ~signal[id].reader /\ s.streamReg THEN [s EXCEPT !.locked = FALSE] ELSE s

\* drain_stream_cleanups starts: all live streams read their signals.
SweepBegins ==
    /\ \/ boa = "idle" /\ boa' = "sweeping"
       \/ boa = "settling" /\ batch = Empty /\ boa' = "resweeping"
    /\ stream' = [id \in OpIds |-> IF id \in ops THEN Synced(id) ELSE stream[id]]
    /\ UNCHANGED <<bridgeVars, flagShut, blob, signal, holds, ops, payloads, demand,
                   errors, table, requests, landed, batch, jobs, reads, promise>>

\* Mutant: waiting calls do not keep a stream alive.
IsAbandonedWithDemand(id) == ~stream[id].streamReg /\ ~stream[id].readerReg

\* Mutant: the stream object alone decides.
IsAbandonedDespiteReader(id) ==
    ~stream[id].streamReg /\ stream[id].queue = << >> /\ ~stream[id].inFlight

HasEntry(id) == \E c \in table : reads[c] = id

\* try_abandon_stream_operation: nobody reaches the stream and nobody waits.
IsAbandoned(id) ==
    /\ ~stream[id].streamReg /\ ~stream[id].readerReg
    /\ stream[id].queue = << >> /\ ~stream[id].inFlight
    /\ ~(HasEntry(id) /\ id \in demand)

\* transition_stream_abandoned.
Abandon(id) ==
    /\ boa \in {"sweeping", "resweeping"}
    /\ id \in ops /\ IsAbandoned(id)
    /\ Ends(id, << >>)
    /\ cancelled' = cancelled \cup ({id} \cap tokens)
    /\ UNCHANGED <<flagShut, blob, signal, holds, errors, batch, boa, reads, promise>>

\* take_stream_completions.  (take_completions, after the second sweep, has
\* nothing to take.)
PollTakes ==
    /\ boa = "sweeping" /\ \A id \in ops : ~IsAbandoned(id)
    /\ TakeChunks(QueuedChunks)
    /\ batch' = [id \in OpIds |-> IF id \in QueuedChunks THEN landed[id] ELSE << >>]
    /\ landed' = Empty
    /\ boa' = "settling"
    /\ UNCHANGED <<flagShut, blob, stream, signal, holds, ops, payloads, demand,
                   errors, table, requests, jobs, reads, promise>>

PollEnds ==
    /\ boa = "resweeping" /\ \A id \in ops : ~IsAbandoned(id)
    /\ boa' = "idle"
    /\ UNCHANGED <<bridgeVars, flagShut, blob, stream, signal, holds, ops, payloads,
                   demand, errors, table, requests, landed, batch, jobs, reads, promise>>

\* The parts a stream of blob b yields.
Yield(b) == IF b.tail = "extra" THEN b.chunks + 1 ELSE b.chunks

HasTail(b) == b.tail \in {"extra", "silent"}

IsSilent(b, at) == b.tail = "silent" /\ at = b.chunks - 1

\* What the decoder still holds when the end is reached goes to the call that
\* reached it.
LastPart(b, call) ==
    IF HasTail(b) THEN AnswerTo(<<call>>, Part(Yield(b))) ELSE << >>

\* settle_stream_completion with the completion for the oldest call.
SettleCall(id, done, call) ==
    LET b == blob[id]
        s == [stream[id] EXCEPT !.inFlight = FALSE]
        later == [s EXCEPT !.queue = Tail(@), !.loaded = @ + 1]
    IN \/ /\ done.kind = "error"
          /\ Fails(id, << >>, s.queue) /\ UNCHANGED cancelled
       \/ /\ done.kind = "eof"
          /\ Finishes(id, LastPart(b, call), IF HasTail(b) THEN Tail(s.queue) ELSE s.queue)
          /\ UNCHANGED cancelled
       \/ /\ done.kind = "chunk" /\ b.tail = "bytes"  \* they that cannot be packaged
          /\ Fails(id, << >>, s.queue) /\ UNCHANGED cancelled
       \/ /\ done.kind = "chunk" /\ ~IsSilent(b, done.at)
          /\ Continues(id, later, AnswerTo(<<call>>, Part(done.at + 1)))
       \/ /\ done.kind = "chunk" /\ IsSilent(b, done.at)
          /\ Continues(id, [s EXCEPT !.loaded = @ + 1], << >>)

\* One completion, streams in ascending order; stale ones are dropped.
SettleOne ==
    /\ boa = "settling"
    /\ \E id \in OpIds :
          /\ batch[id] # << >> /\ \A other \in OpIds : other < id => batch[other] = << >>
          /\ batch' = [batch EXCEPT ![id] = Tail(@)]
          /\ IF id \in ops /\ stream[id].queue # << >> /\ Head(stream[id].queue) \in table
             THEN SettleCall(id, Head(batch[id]), Head(stream[id].queue))
             ELSE /\ stream' = IF id \notin ops THEN stream
                               ELSE [stream EXCEPT ![id].inFlight = FALSE]
                  /\ UNCHANGED <<bridgeVars, ops, payloads, demand, errors, table,
                                 requests, landed, jobs>>
    /\ UNCHANGED <<flagShut, blob, signal, holds, boa, reads, promise>>

\* run_jobs runs the oldest settlement job.
RunJob ==
    /\ boa = "idle" /\ jobs # << >>
    /\ promise' = [promise EXCEPT ![Head(jobs).call] = Head(jobs).answer]
    /\ jobs' = Tail(jobs)
    /\ UNCHANGED <<bridgeVars, flagShut, blob, stream, signal, holds, ops, payloads,
                   demand, errors, table, requests, landed, batch, boa, reads>>

-----------------------------------------------------------------------------
(* Shutdown.                                                               *)

CloseFlag ==
    /\ boa = "idle" /\ ~flagShut
    /\ flagShut' = TRUE
    /\ boa' = "closing"
    /\ UNCHANGED <<bridgeVars, blob, stream, signal, holds, ops, payloads, demand,
                   errors, table, requests, landed, batch, jobs, reads, promise>>

\* The tracked closer shuts the bridge down, drop_all_stream_state_for_shutdown
\* clears the tables.
CloseBridge ==
    /\ boa = "closing"
    /\ ShutdownBridge
    /\ stream' = [id \in OpIds |-> Closed]
    /\ ops' = {} /\ payloads' = {} /\ demand' = {} /\ errors' = {} /\ table' = {}
    /\ landed' = Empty
    /\ boa' = "idle"
    /\ UNCHANGED <<flagShut, blob, signal, holds, requests, batch, jobs, reads, promise>>

-----------------------------------------------------------------------------
Poll ==
    \/ SweepBegins \/ PollTakes \/ SettleOne \/ PollEnds
    \/ \E id \in OpIds : Abandon(id)

Script(id) == GetReader(id) \/ ReleaseLock(id) \/ Read(id) \/ Cancel(id)

Next ==
    \/ CreateStream \/ CreateStreamFails
    \/ \E id \in OpIds :
          \/ Script(id)
          \/ \E object \in {"stream", "reader", "released"} : Collect(id, object)
          \/ WorkerPush(id)
    \/ Poll
    \/ RunJob
    \/ CloseFlag \/ CloseBridge

Spec == Init /\ [][Next]_vars

\* The host loop of docs/host-integration.md polls and runs the jobs, and the
\* operating system schedules the workers.
FairSpec ==
    /\ Spec
    /\ \A id \in OpIds : WF_vars(WorkerPush(id))
    /\ WF_vars(Poll \/ CloseBridge)
    /\ SF_vars(RunJob)

-----------------------------------------------------------------------------
(* Safety.                                                                 *)

\* The triple of entry, payload and quota slot stays together: whatever ends a
\* stream takes all three, once, and no neighbour's slot
\* (release_stream_operation, transition_stream_eof, shutdown_runtime).
SlotsMatchStreams ==
    boa # "closing" =>
        /\ ops = payloads /\ ops = tokens /\ active = Cardinality(ops)
        /\ demand = {id \in ops : HasEntry(id)}

\* Calls wait exactly while one request or completion is on its way to serve
\* them, and never two: "exactly one bounded request" per demand, no read-ahead
\* (maybe_submit_next, push_stream_completion, settle_stream_chunk).
OneRequestServes ==
    \A id \in ops : ~flagShut =>
        /\ stream[id].inFlight = (stream[id].queue # << >>)
        /\ Len(requests[id]) + Len(landed[id]) + Len(batch[id])
              = IF stream[id].queue # << >> THEN 1 ELSE 0

\* Every call that was not answered either waits in the queue of its live
\* stream, with its resolvers kept, or has one settlement job; only shutdown
\* leaves calls behind (PendingStreamReads, cancel_shared, drain_queue_*).
OneAnswerEach ==
    \A c \in Calls :
        LET waits == c \in table /\ reads[c] \in ops /\ c \in ToSet(stream[reads[c]].queue)
            settling == Cardinality({i \in DOMAIN jobs : jobs[i].call = c})
        IN /\ (c \in table) => waits \/ flagShut
           /\ settling + Cardinality({c} \cap table) <= 1
           /\ settling = 1 \/ c \in table => reads[c] # 0 /\ promise[c] = Waiting
           /\ reads[c] # 0 /\ promise[c] = Waiting /\ ~flagShut => settling = 1 \/ waits

\* poll_io ends a stream without an answer only when the script holds neither
\* the stream nor its reader (try_abandon_stream_operation).
OnlyUnreachableAbandoned ==
    [][\A id \in ops \ ops' :
          boa \in {"sweeping", "resweeping"} => holds[id] \subseteq {"released"}]_vars

\* The stream the script sees.
AnswerOf(c) ==
    LET job == {i \in DOMAIN jobs : jobs[i].call = c}
    IN IF promise[c] # Waiting THEN promise[c]
       ELSE IF job = {} THEN Waiting ELSE jobs[CHOOSE i \in job : TRUE].answer

StateOf(id) ==
    CASE blob[id] = NoBlob -> "unopened"
      [] id \in ops        -> "readable"
      [] id \in errors     -> "errored"
      [] OTHER             -> "ended"

\* The abstract state: what scripts see of the streams and the calls.
StateNow == [id \in OpIds |-> StateOf(id)]

YieldNow == [id \in OpIds |-> IF blob[id] = NoBlob THEN 0 ELSE Yield(blob[id])]

\* The calls of a stream that have been answered with a part.
Fed(id) == {c \in Calls : reads[c] = id /\ AnswerOf(c).is = "part"}

GivenNow == [id \in OpIds |-> Cardinality(Fed(id))]

OutcomeNow == [c \in Calls |-> AnswerOf(c)]

SettledNow == {c \in Calls : promise[c] # Waiting}

Abstract == INSTANCE ByteStream WITH
    Streams <- OpIds,
    Yields <- {Yield(b) : b \in Blobs},
    state <- StateNow,
    yield <- YieldNow,
    given <- GivenNow,
    outcome <- OutcomeNow,
    settled <- SettledNow

\* Streams keep their promise to the script: parts in order and without gaps to
\* the calls in order, then done, errors replayed, each promise once
\* (reader_read, settle_stream_completion, cancel_shared, fail_stream_with).
StreamPromise == Abstract!Spec

-----------------------------------------------------------------------------
(* Liveness.                                                               *)

\* Every read() is answered while the runtime is up, also when the script drops
\* the stream and its reader meanwhile (maybe_submit_next, poll_io).
ReadsAnswered ==
    \A c \in Calls : reads[c] # 0 ~> (promise[c] # Waiting \/ flagShut)

\* A stream nobody reaches gives its quota slot back (drain_stream_cleanups).
LostStreamsReleased ==
    \A id \in OpIds : (id \in ops /\ holds[id] \subseteq {"released"}) ~> id \notin ops

\* A reader that is collected without releaseLock does not keep its stream
\* locked (synchronize_endpoint_signals).
LostReadersUnlock ==
    \A id \in OpIds :
        (id \in ops /\ stream[id].locked /\ "reader" \notin holds[id])
        ~> (id \notin ops \/ "stream" \notin holds[id] \/ ~stream[id].locked
                \/ "reader" \in holds[id])
=============================================================================
