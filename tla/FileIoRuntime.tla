--------------------------- MODULE FileIoRuntime ----------------------------
(***************************************************************************)
(* The file I/O runtime of one registered context: the Boa thread, which   *)
(* starts reads, polls and runs settlement jobs; the bounded worker pool   *)
(* (ThreadedFileIoExecutor), whose threads interleave with it; and the     *)
(* bridge between them.                                                    *)
(*                                                                         *)
(* Promise reads (promise_read.rs) are modelled in full.  FileReader and   *)
(* stream operations are the other users of the bridge; of them this       *)
(* module keeps what the bridge sees: a reservation held across several    *)
(* one-chunk requests, at most one of them in flight.                      *)
(***************************************************************************)
EXTENDS IoBridge, Sequences

CONSTANTS
    Reads,      \* calls of text()/arrayBuffer()/bytes()
    Oversized,  \* those on a blob beyond max_materialize_bytes
    Workers,    \* threads of the pool
    QueueCap,   \* capacity of its request queue
    ChunkKinds, \* the chunk users of the instance: "reader", "stream"
    PollBudget, \* reader completions settled per poll_io
    NoRead      \* no entry

ASSUME RuntimeAssumption ==
    /\ Oversized \subseteq Reads
    /\ NoRead \notin Reads
    /\ QueueCap \in Nat \ {0}
    /\ PollBudget \in Nat
    /\ ChunkKinds \subseteq {"reader", "stream"}

VARIABLES
    owner,        \* which kind of caller reserved each id
    phase,        \* a chunk user's request: idle, inflight or landed
    poolUp,       \* the pool's threads could be spawned
    poolQ,        \* its queue of operation ids
    worker,       \* the request each thread executes
    boa,          \* where the Boa thread is inside poll_io and shutdown
    batch,        \* the completions take_completions returned, not yet settled
    pendingReads, \* the PendingReads table: operation id -> read
    jobs,         \* settlement jobs in Boa's job queue
    promise,      \* the promise of each call
    opOf,         \* history: the operation a call was accepted under, or 0
    result        \* history: the result poll_io delivered to a call

runtimeVars == <<owner, phase, poolUp, poolQ, worker, boa, batch,
                 pendingReads, jobs, promise, opOf, result>>
vars == <<bridgeVars, flagShut, runtimeVars>>

Kinds == {"whole", "reader", "stream"}
Idle == [op |-> 0, outcome |-> "none"]
Executing == [op : OpIds, outcome : Outcomes]
Settled == {"resolved", "rejected"}

\* A settlement job resolves or rejects its promise, or it is the job of a
\* failed read, which only queues the job that rejects.
Job == [read : Reads, does : {"resolve", "reject", "queueReject"}]

\* What the promise of a read awaits: "ready" bytes, or a "failed" read.
Results == {"none", "ready", "failed"}

TypeOK ==
    /\ BridgeTypeOK
    /\ owner \in [OpIds -> Kinds \cup {"none"}]
    /\ phase \in [OpIds -> {"idle", "inflight", "landed"}]
    /\ poolUp \in BOOLEAN
    /\ poolQ \in Seq(OpIds)
    /\ worker \in [Workers -> Executing \cup {Idle}]
    /\ boa \in {"idle", "polling", "settling", "closing"}
    /\ batch \in [OpIds -> Outcomes \cup {"none"}]
    /\ pendingReads \in [OpIds -> Reads \cup {NoRead}]
    /\ jobs \in Seq(Job)
    /\ promise \in [Reads -> {"none", "pending"} \cup Settled]
    /\ opOf \in [Reads -> OpIds \cup {0}]
    /\ result \in [Reads -> Results]

Init ==
    /\ BridgeInit
    /\ owner = [id \in OpIds |-> "none"]
    /\ phase = [id \in OpIds |-> "idle"]
    /\ poolUp \in BOOLEAN
    /\ poolQ = << >>
    /\ worker = [w \in Workers |-> Idle]
    /\ boa = "idle"
    /\ batch = [id \in OpIds |-> "none"]
    /\ pendingReads = [id \in OpIds |-> NoRead]
    /\ jobs = << >>
    /\ promise = [r \in Reads |-> "none"]
    /\ opOf = [r \in Reads |-> 0]
    /\ result = [r \in Reads |-> "none"]

-----------------------------------------------------------------------------
(* The executor.                                                           *)

\* try_send succeeds: the pool lives and its queue has room.
PoolAccepts == poolUp /\ Len(poolQ) < QueueCap

Submit(id) == poolQ' = Append(poolQ, id)

\* A thread receives a request and executes it up to the push: a cancelled
\* or shut-down request reads nothing, any other read succeeds or fails.
WorkerTake(w) ==
    /\ worker[w] = Idle
    /\ poolQ # << >>
    /\ \E outcome \in Outcomes :
          /\ outcome = "cancelled" <=> (IsShutdown \/ Head(poolQ) \in cancelled)
          /\ worker' = [worker EXCEPT ![w] = [op |-> Head(poolQ), outcome |-> outcome]]
    /\ poolQ' = Tail(poolQ)
    /\ UNCHANGED <<bridgeVars, flagShut, owner, phase, poolUp, boa, batch,
                   pendingReads, jobs, promise, opOf, result>>

\* The thread pushes its completion under the bridge mutex.
WorkerPush(w) ==
    /\ worker[w] # Idle
    /\ LET id == worker[w].op
       IN IF owner[id] = "whole" THEN PushWhole(id, worker[w].outcome)
                                 ELSE PushChunk(id)
    /\ worker' = [worker EXCEPT ![w] = Idle]
    /\ UNCHANGED <<flagShut, owner, phase, poolUp, poolQ, boa, batch,
                   pendingReads, jobs, promise, opOf, result>>

-----------------------------------------------------------------------------
(* Promise reads.                                                          *)

RejectJob(r) == [read |-> r, does |-> "reject"]

\* Mutant: the refused call forgets its rejection.
RefuseSilently(r) ==
    /\ promise' = [promise EXCEPT ![r] = "pending"]
    /\ UNCHANGED <<owner, pendingReads, opOf, result, poolQ, jobs>>

\* The call's promise is pending and a job that rejects it is queued.
Refuse(r) ==
    /\ promise' = [promise EXCEPT ![r] = "pending"]
    /\ jobs' = Append(jobs, RejectJob(r))
    /\ UNCHANGED <<owner, pendingReads, opOf, result, poolQ>>

\* read_promise: shut down, or the blob is over the limit: no quota held.
ReadPreflightFails(r) ==
    /\ boa = "idle" /\ promise[r] = "none"
    /\ flagShut \/ r \in Oversized
    /\ Refuse(r)
    /\ UNCHANGED <<bridgeVars, flagShut, phase, poolUp, worker, boa, batch>>

\* read_promise: the quota refuses the reservation.
ReadQuotaFails(r) ==
    /\ boa = "idle" /\ promise[r] = "none"
    /\ ~flagShut /\ r \notin Oversized
    /\ ReserveFails
    /\ Refuse(r)
    /\ UNCHANGED <<flagShut, phase, poolUp, worker, boa, batch>>

\* read_promise: reserved, but the executor refuses the task.
ReadSubmitFails(r) ==
    /\ boa = "idle" /\ promise[r] = "none"
    /\ ~flagShut /\ r \notin Oversized
    /\ ReserveAndReturn
    /\ ~PoolAccepts
    /\ Refuse(r)
    /\ UNCHANGED <<flagShut, phase, poolUp, worker, boa, batch>>

\* read_promise: reserved, recorded and submitted.
ReadAccepted(r) ==
    /\ boa = "idle" /\ promise[r] = "none"
    /\ ~flagShut /\ r \notin Oversized
    /\ PoolAccepts
    /\ \E id \in OpIds :
          /\ Reserve(id)
          /\ Submit(id)
          /\ owner' = [owner EXCEPT ![id] = "whole"]
          /\ pendingReads' = [pendingReads EXCEPT ![id] = r]
          /\ opOf' = [opOf EXCEPT ![r] = id]
    /\ promise' = [promise EXCEPT ![r] = "pending"]
    /\ UNCHANGED <<flagShut, phase, poolUp, worker, boa, batch, jobs, result>>

\* run_jobs runs the oldest job.
RunJob ==
    /\ boa = "idle" /\ jobs # << >>
    /\ LET job == Head(jobs)
       IN \/ /\ job.does = "queueReject"
             /\ jobs' = Append(Tail(jobs), RejectJob(job.read))
             /\ UNCHANGED promise
          \/ /\ job.does # "queueReject"
             /\ jobs' = Tail(jobs)
             /\ promise' = [promise EXCEPT ![job.read] =
                   IF job.does = "resolve" THEN "resolved" ELSE "rejected"]
    /\ UNCHANGED <<bridgeVars, flagShut, owner, phase, poolUp, poolQ, worker,
                   boa, batch, pendingReads, opOf, result>>

-----------------------------------------------------------------------------
(* FileReader and stream operations, as the bridge sees them.              *)

chunkUserUnchanged == <<flagShut, poolUp, worker, boa, batch, pendingReads,
                        jobs, promise, opOf, result>>

\* What poll_io calls into a chunk user, and what a script or job does.
InPoll(id) == boa = "polling" /\ owner[id] = "stream"
Outside == boa = "idle"

\* create_stream reserves a slot and reads nothing.
StreamOpens ==
    /\ Outside /\ "stream" \in ChunkKinds
    /\ \E id \in OpIds :
          /\ Reserve(id)
          /\ owner' = [owner EXCEPT ![id] = "stream"]
    /\ UNCHANGED <<phase, poolQ, chunkUserUnchanged>>

\* start_read reserves a slot and submits the first chunk request.
ReaderStarts ==
    /\ Outside /\ "reader" \in ChunkKinds
    /\ \E id \in OpIds :
          /\ IF PoolAccepts
             THEN /\ Reserve(id)
                  /\ Submit(id)
                  /\ owner' = [owner EXCEPT ![id] = "reader"]
                  /\ phase' = [phase EXCEPT ![id] = "inflight"]
             ELSE ReserveAndReturn /\ UNCHANGED <<owner, phase, poolQ>>
    /\ UNCHANGED chunkUserUnchanged

\* The next chunk request: a stream's read(), a pump's successor request or
\* the next queued demand.  If the executor refuses, the operation fails and
\* gives its slot back.
NextChunk(id) ==
    /\ id \in tokens
    /\ \/ phase[id] = "landed" /\ (Outside \/ InPoll(id))
       \/ phase[id] = "idle" /\ owner[id] = "stream" /\ Outside
    /\ IF PoolAccepts
       THEN /\ Submit(id)
            /\ phase' = [phase EXCEPT ![id] = "inflight"]
            /\ UNCHANGED bridgeVars
       ELSE /\ Unreserve(id)
            /\ phase' = [phase EXCEPT ![id] = "idle"]
            /\ UNCHANGED <<cancelled, poolQ>>
    /\ UNCHANGED <<owner, chunkUserUnchanged>>

\* A stream whose demands are all settled keeps its slot and waits.
StreamIdles(id) ==
    /\ InPoll(id) /\ phase[id] = "landed"
    /\ phase' = [phase EXCEPT ![id] = "idle"]
    /\ UNCHANGED <<bridgeVars, owner, poolQ, chunkUserUnchanged>>

\* The operation gives its slot back.
Ends(id) ==
    /\ id \in tokens /\ owner[id] \in {"reader", "stream"}
    /\ Unreserve(id)
    /\ phase' = [phase EXCEPT ![id] = "idle"]
    /\ UNCHANGED <<owner, poolQ, chunkUserUnchanged>>

\* EOF or error with the chunk that landed; its request is over, so the
\* token does not matter any more.
ChunkUserFinishes(id) ==
    /\ phase[id] = "landed" /\ (Outside \/ InPoll(id))
    /\ Ends(id)
    /\ UNCHANGED cancelled

\* abort() of a FileReader and abandonment of a stream cancel the token.
ChunkUserAborts(id) ==
    /\ Outside \/ InPoll(id)
    /\ Ends(id)
    /\ cancelled' = cancelled \cup {id}

\* cancel() of a stream does not.
StreamCancels(id) ==
    /\ Outside /\ owner[id] = "stream"
    /\ Ends(id)
    /\ UNCHANGED cancelled

-----------------------------------------------------------------------------
(* poll_io.                                                                *)

\* The reader completions the budget lets through, oldest operation first.
WithinBudget(ready) ==
    {id \in ready : Cardinality({older \in ready : older < id}) < PollBudget}

\* Reader chunks, then stream chunks, go to their operations.
PollChunks ==
    /\ boa = "idle"
    /\ LET readers == {id \in QueuedChunks : owner[id] = "reader"}
           drained == WithinBudget(readers) \cup (QueuedChunks \ readers)
       IN /\ TakeChunks(drained)
          /\ phase' = [id \in OpIds |-> IF id \in drained THEN "landed" ELSE phase[id]]
    /\ boa' = "polling"
    /\ UNCHANGED <<flagShut, owner, poolUp, poolQ, worker, batch, pendingReads,
                   jobs, promise, opOf, result>>

\* take_completions.
PollTake ==
    /\ boa = "polling"
    /\ TakeCompletions
    /\ batch' = [id \in OpIds |->
                   IF id \in InOrderPrefix THEN completions[id] ELSE "none"]
    /\ boa' = "settling"
    /\ UNCHANGED <<flagShut, owner, phase, poolUp, poolQ, worker, pendingReads,
                   jobs, promise, opOf, result>>

InBatch == {id \in OpIds : batch[id] # "none"}

\* settle_completion packages the bytes, which may fail, in the poll; an
\* error is mapped by the job.
JobsFor(outcome) == IF outcome = "ok" THEN {"resolve", "reject"} ELSE {"queueReject"}

\* settle_completion for the first completion taken: the slot is released,
\* the table entry removed and one job queued; without an entry the
\* completion is dropped.
SettleOne ==
    /\ boa = "settling"
    /\ \E id \in InBatch :
          /\ \A other \in InBatch : id <= other
          /\ Unreserve(id)
          /\ batch' = [batch EXCEPT ![id] = "none"]
          /\ IF pendingReads[id] = NoRead
             THEN UNCHANGED <<pendingReads, jobs, result>>
             ELSE /\ pendingReads' = [pendingReads EXCEPT ![id] = NoRead]
                  /\ \E does \in JobsFor(batch[id]) :
                        jobs' = Append(jobs, [read |-> pendingReads[id], does |-> does])
                  /\ result' = [result EXCEPT ![pendingReads[id]] =
                                  IF batch[id] = "ok" THEN "ready" ELSE "failed"]
    /\ UNCHANGED <<cancelled, flagShut, owner, phase, poolUp, poolQ, worker, boa,
                   promise, opOf>>

PollEnds ==
    /\ boa = "settling" /\ InBatch = {}
    /\ boa' = "idle"
    /\ UNCHANGED <<bridgeVars, flagShut, owner, phase, poolUp, poolQ, worker,
                   batch, pendingReads, jobs, promise, opOf, result>>

-----------------------------------------------------------------------------
(* Shutdown: the flag closes first, then the tracked closer shuts the      *)
(* bridge; workers run between the two.                                    *)

CloseFlag ==
    /\ boa = "idle" /\ ~flagShut
    /\ flagShut' = TRUE
    /\ boa' = "closing"
    /\ UNCHANGED <<bridgeVars, owner, phase, poolUp, poolQ, worker, batch,
                   pendingReads, jobs, promise, opOf, result>>

CloseBridge ==
    /\ boa = "closing"
    /\ ShutdownBridge
    /\ boa' = "idle"
    /\ UNCHANGED <<flagShut, owner, phase, poolUp, poolQ, worker, batch,
                   pendingReads, jobs, promise, opOf, result>>

-----------------------------------------------------------------------------
ReadCall(r) ==
    ReadPreflightFails(r) \/ ReadQuotaFails(r) \/ ReadSubmitFails(r) \/ ReadAccepted(r)

Worker(w) == WorkerTake(w) \/ WorkerPush(w)

ChunkUser ==
    \/ StreamOpens \/ ReaderStarts
    \/ \E id \in OpIds :
          \/ NextChunk(id) \/ StreamIdles(id) \/ ChunkUserFinishes(id)
          \/ ChunkUserAborts(id) \/ StreamCancels(id)

Poll == PollChunks \/ PollTake \/ SettleOne \/ PollEnds

Shutdown == CloseFlag \/ CloseBridge

Next ==
    \/ \E r \in Reads : ReadCall(r)
    \/ RunJob
    \/ ChunkUser
    \/ Poll
    \/ Shutdown
    \/ \E w \in Workers : Worker(w)

Spec == Init /\ [][Next]_vars

\* The host loop of docs/host-integration.md for a host that polls only when the
\* wake hook has fired: wait, poll_io, run the jobs, repeat; and threads the
\* operating system schedules.
PollWhenWoken == (boa = "idle" => woken) /\ Poll

WakeFairSpec ==
    /\ Spec
    /\ \A w \in Workers : WF_vars(Worker(w))
    /\ WF_vars(PollWhenWoken \/ CloseBridge)
    /\ SF_vars(RunJob)

-----------------------------------------------------------------------------
(* Safety.                                                                 *)

\* No slot leaks, whatever mix of settlements, refused submissions, aborts and
\* shutdowns gives slots back: the counter is exactly the number of live
\* reservations and never exceeds the limit, each of them has somebody who
\* will give it back, a chunk operation or a table entry, and until shutdown no
\* table entry is left without its reservation (reserve, unreserve, read_promise,
\* settle_completion, shutdown).
QuotaExact ==
    /\ active = Cardinality(tokens) /\ active <= Limit
    /\ \A id \in tokens : owner[id] \in ChunkKinds \/ pendingReads[id] # NoRead
    /\ \A id \in OpIds : pendingReads[id] # NoRead => bridgeShut \/ id \in tokens

\* The bridge's tables agree: nothing is queued for an operation that lost
\* its reservation, so a late completion cannot outlive its operation, and a
\* reservation leaves "order" only into the batch being settled
\* (push_completion, push_*_completion, unreserve, take_completions).
NoStaleEntries ==
    /\ completed = {id \in OpIds : completions[id] # "none"}
    /\ completed \subseteq order
    /\ tokens = order \cup InBatch
    /\ chunkRes \subseteq tokens
    /\ \A id \in OpIds : chunkQueue[id] > 0 => id \in chunkRes \cap order

\* The requests the pool holds for an operation.
Requests(id) == Cardinality({i \in DOMAIN poolQ : poolQ[i] = id})
                + Cardinality({w \in Workers : worker[w].op = id})

\* No completion is lost and none is duplicated: until shutdown, a pending
\* read has its one request or result in exactly one place on the way from
\* the pool to its settlement, and a chunk user has a request or an
\* undelivered chunk exactly when it waits for one (submit, worker_loop,
\* the completion queue "cannot be full here").
OneRequestEach ==
    ~flagShut => \A id \in tokens :
        IF owner[id] = "whole"
        THEN Requests(id) + Cardinality({id} \cap (completed \cup InBatch)) = 1
        ELSE Requests(id) + chunkQueue[id] = IF phase[id] = "inflight" THEN 1 ELSE 0

\* A promise is pending exactly while one table entry or one job is going to
\* settle it, and no promise has two (PendingReads, settle_completion,
\* reject_with).
OneSettler ==
    \A r \in Reads :
        Cardinality({id \in OpIds : pendingReads[id] = r})
        + Cardinality({i \in DOMAIN jobs : jobs[i].read = r})
            = IF promise[r] = "pending" THEN 1 ELSE 0

\* A host that stops when has_pending_io is false and the job queue is empty,
\* as the host loop does, leaves no promise behind (has_pending).
QuiescentMeansSettled ==
    boa = "idle" /\ ~flagShut /\ ~HasPending /\ jobs = << >>
        => \A r \in Reads : promise[r] # "pending"

\* After IoBridge::shutdown the bridge stays empty: no late worker, reader or
\* stream brings a reservation or a completion back.
ShutdownQuiet ==
    bridgeShut => /\ tokens = {} /\ active = 0 /\ completed = {} /\ chunkRes = {}
                  /\ InBatch = {}
                  /\ \A id \in OpIds : chunkQueue[id] = 0

\* Shutdown discards the reads whose result was not delivered: their promises
\* stay pending for ever, although their table entries and perhaps their
\* completions still exist (IoBridge::shutdown, push_completion, poll_io).
NothingSettlesLate ==
    [][\A id \in OpIds : flagShut /\ pendingReads[id] # NoRead
          => /\ pendingReads'[id] = pendingReads[id]
             /\ promise'[pendingReads[id]] = "pending"]_vars

\* Completions that poll_io could deliver have woken the host
\* (push_completion, push_reader_completion, wake_host).
ReadyMeansWoken ==
    boa = "idle" /\ (InOrderPrefix # {} \/ QueuedChunks # {}) => woken

\* The runtime implements PromiseReads: results are delivered in the order
\* of acceptance, whatever order the workers finish in.
Abstract == INSTANCE PromiseReads WITH position <- opOf, Places <- OpIds
PromiseOrder == Abstract!Spec

-----------------------------------------------------------------------------
(* Liveness.                                                               *)

\* Every promise settles, unless the runtime is shut down first (read_promise,
\* worker_loop, poll_io, settle_completion).
ReadsSettle ==
    \A r \in Reads : promise[r] = "pending" ~> (promise[r] \in Settled \/ flagShut)

-----------------------------------------------------------------------------
(* What the documentation says and the code does not do.                   *)

\* "Whole-blob promise FIFO never blocks behind live streams"
\* (docs/architecture.md): the drain takes every completion that has no
\* earlier whole-blob operation outstanding.
NeverBlockedByStreams ==
    [][PollTake =>
        \A id \in completed :
            (\A earlier \in order :
                earlier < id /\ owner[earlier] = "whole" => earlier \in completed)
            => batch'[id] # "none"]_vars

=============================================================================
