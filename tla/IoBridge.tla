------------------------------ MODULE IoBridge ------------------------------
(***************************************************************************)
(* The completion bridge of crates/boa_fapi/src/io.rs: the state that one  *)
(* mutex (BridgeState) protects, shared by the Boa thread and the worker   *)
(* threads, and the operations that hold the mutex.  Every operator below  *)
(* is one critical section: it says how that section changes the bridge    *)
(* and leaves the callers' state to the modules that extend this one.      *)
(*                                                                         *)
(* Data that is abstracted: bytes and errors of a completion are one of    *)
(* Outcomes; the chunk queues of FileReader and stream operations hold     *)
(* completions nobody tells apart here, so a queue is its length.          *)
(*                                                                         *)
(* The VecDeque "order" is a set of operation ids: an id is pushed at the  *)
(* back by the critical section that draws it from the increasing counter, *)
(* so the queue is always in ascending order and the set determines it.    *)
(***************************************************************************)
EXTENDS Naturals, FiniteSets

CONSTANTS
    Limit,          \* concurrency_limit: live reservations allowed
    CompletionCap,  \* completion_cap: whole-blob completions held
    MaxId           \* the id at which the counter is exhausted (u64::MAX)

\* IoBridge::new makes the limit at least one and the capacity at least twice
\* the limit.
ASSUME BridgeAssumption ==
    /\ Limit \in Nat \ {0}
    /\ CompletionCap \in Nat /\ CompletionCap >= Limit
    /\ MaxId \in Nat \ {0}

OpIds == 1 .. (MaxId - 1)
Outcomes == {"ok", "error", "cancelled"}

VARIABLES
    nextId,       \* next_operation
    exhausted,    \* ids_exhausted
    tokens,       \* ids with a cancellation token: the live reservations
    cancelled,    \* ids whose token was cancelled (tasks keep the token)
    order,        \* ids not yet handed to a whole-blob settlement
    active,       \* the quota counter
    completed,    \* ids with a queued whole-blob completion
    completions,  \* the completion of each of them, "none" for the others
    chunkQueue,   \* queued FileReader/stream chunk completions per id
    chunkRes,     \* chunk_reservations
    woken,        \* the wake hook fired since the host last polled
    bridgeShut,   \* BridgeState.shutdown
    flagShut      \* ShutdownFlag.closed, read by the bridge without the mutex

bridgeVars == <<nextId, exhausted, tokens, cancelled, order, active, completed,
                completions, chunkQueue, chunkRes, woken, bridgeShut>>

BridgeTypeOK ==
    /\ nextId \in 1 .. MaxId
    /\ exhausted \in BOOLEAN
    /\ tokens \subseteq OpIds
    /\ cancelled \subseteq OpIds
    /\ order \subseteq OpIds
    /\ active \in Nat
    /\ completed \subseteq OpIds
    /\ completions \in [OpIds -> Outcomes \cup {"none"}]
    /\ chunkQueue \in [OpIds -> Nat]
    /\ chunkRes \subseteq OpIds
    /\ woken \in BOOLEAN
    /\ bridgeShut \in BOOLEAN
    /\ flagShut \in BOOLEAN

BridgeInit ==
    /\ nextId = 1
    /\ exhausted = FALSE
    /\ tokens = {}
    /\ cancelled = {}
    /\ order = {}
    /\ active = 0
    /\ completed = {}
    /\ completions = [id \in OpIds |-> "none"]
    /\ chunkQueue = [id \in OpIds |-> 0]
    /\ chunkRes = {}
    /\ woken = FALSE
    /\ bridgeShut = FALSE
    /\ flagShut = FALSE

-----------------------------------------------------------------------------
(* reserve.                                                                *)

IsShutdown == flagShut \/ bridgeShut

\* Mutant: the shutdown test is missing.
MayDrawIdAfterShutdown ==
    ~exhausted /\ active < Limit /\ Cardinality(completed) < CompletionCap

\* The checks that pass before an id is drawn from the counter.
MayDrawId ==
    /\ ~IsShutdown
    /\ ~exhausted
    /\ active < Limit
    /\ Cardinality(completed) < CompletionCap

\* reserve succeeds with operation id `id`.
Reserve(id) ==
    /\ MayDrawId
    /\ nextId < MaxId
    /\ id = nextId
    /\ nextId' = nextId + 1
    /\ tokens' = tokens \cup {id}
    /\ order' = order \cup {id}
    /\ active' = active + 1
    /\ UNCHANGED <<exhausted, cancelled, completed, completions, chunkQueue,
                   chunkRes, woken, bridgeShut>>

\* Mutant: the caller whose task is refused forgets to give the slot back.
ReserveAndKeep == Reserve(nextId)

\* reserve succeeds and the caller gives the slot back at once, because the
\* executor refused its task: the id is spent, the quota is not.
ReserveAndReturn ==
    /\ MayDrawId
    /\ nextId < MaxId
    /\ nextId' = nextId + 1
    /\ UNCHANGED <<exhausted, tokens, cancelled, order, active, completed,
                   completions, chunkQueue, chunkRes, woken, bridgeShut>>

\* reserve fails: shut down, exhausted, quota or completion queue full, or
\* this very call exhausts the ids.
ReserveFails ==
    /\ ~MayDrawId \/ nextId = MaxId
    /\ exhausted' = (exhausted \/ MayDrawId)
    /\ UNCHANGED <<nextId, tokens, cancelled, order, active, completed,
                   completions, chunkQueue, chunkRes, woken, bridgeShut>>

-----------------------------------------------------------------------------
(* unreserve, release.                                                     *)

\* Conditional and idempotent: only a live reservation gives a slot back.
Unreserve(id) ==
    IF id \in tokens
    THEN /\ tokens' = tokens \ {id}
         /\ order' = order \ {id}
         /\ active' = IF active > 0 THEN active - 1 ELSE 0
         /\ completed' = completed \ {id}
         /\ completions' = [completions EXCEPT ![id] = "none"]
         /\ chunkQueue' = [chunkQueue EXCEPT ![id] = 0]
         /\ chunkRes' = chunkRes \ {id}
         /\ UNCHANGED <<nextId, exhausted, woken, bridgeShut>>
    ELSE UNCHANGED <<nextId, exhausted, tokens, order, active, completed,
                     completions, chunkQueue, chunkRes, woken, bridgeShut>>

-----------------------------------------------------------------------------
(* Worker side: push_completion, push_reader/stream_completion.            *)

\* Mutant: a push only looks at the shutdown flag.
PushIsStaleOnlyAtShutdown(id) == IsShutdown

PushIsStale(id) == IsShutdown \/ id \notin tokens

\* Mutant: the last place of the completion queue is not used.
PushWholeEarlyFull(id, outcome) ==
    /\ IF PushIsStale(id) \/ id \in completed
            \/ Cardinality(completed) >= CompletionCap - 1
       THEN UNCHANGED <<completed, completions, woken>>
       ELSE /\ completed' = completed \cup {id}
            /\ completions' = [completions EXCEPT ![id] = outcome]
            /\ woken' = TRUE
    /\ UNCHANGED <<nextId, exhausted, tokens, cancelled, order, active,
                   chunkQueue, chunkRes, bridgeShut>>

\* Mutant: the host is not woken when other completions already wait.
PushWholeWakesOnce(id, outcome) ==
    /\ IF PushIsStale(id) \/ id \in completed
            \/ Cardinality(completed) >= CompletionCap
       THEN UNCHANGED <<completed, completions, woken>>
       ELSE /\ completed' = completed \cup {id}
            /\ completions' = [completions EXCEPT ![id] = outcome]
            /\ woken' = (woken \/ completed = {})
    /\ UNCHANGED <<nextId, exhausted, tokens, cancelled, order, active,
                   chunkQueue, chunkRes, bridgeShut>>

\* A push that is not dropped wakes the host after the mutex is released.
PushWhole(id, outcome) ==
    /\ IF PushIsStale(id) \/ id \in completed
            \/ Cardinality(completed) >= CompletionCap
       THEN UNCHANGED <<completed, completions, woken>>
       ELSE /\ completed' = completed \cup {id}
            /\ completions' = [completions EXCEPT ![id] = outcome]
            /\ woken' = TRUE
    /\ UNCHANGED <<nextId, exhausted, tokens, cancelled, order, active,
                   chunkQueue, chunkRes, bridgeShut>>

PushChunk(id) ==
    /\ IF PushIsStale(id)
       THEN UNCHANGED <<chunkQueue, chunkRes, woken>>
       ELSE /\ chunkQueue' = [chunkQueue EXCEPT ![id] = @ + 1]
            /\ chunkRes' = chunkRes \cup {id}
            /\ woken' = TRUE
    /\ UNCHANGED <<nextId, exhausted, tokens, cancelled, order, active,
                   completed, completions, bridgeShut>>

-----------------------------------------------------------------------------
(* Boa side: draining the queues.                                          *)

\* Mutant: completions are delivered as they arrive.
ArrivedInAnyOrder == order \cap completed

\* The longest prefix of the whole-blob submission order, chunk reservations
\* skipped, whose completions are all queued.
InOrderPrefix ==
    {id \in order \ chunkRes :
        \A earlier \in order \ chunkRes : earlier <= id => earlier \in completed}

\* take_completions: the prefix leaves "order" and the queue; completions
\* whose id lost its place in "order" are dropped.  The reservations stay
\* live until the settlement releases them.
TakeCompletions ==
    /\ order' = order \ InOrderPrefix
    /\ completed' = completed \cap order'
    /\ completions' = [id \in OpIds |->
                         IF id \in completed' THEN completions[id] ELSE "none"]
    /\ UNCHANGED <<nextId, exhausted, tokens, cancelled, active, chunkQueue,
                   chunkRes, woken, bridgeShut>>

\* Ids whose chunk queue the drains visit.
QueuedChunks == {id \in order : chunkQueue[id] > 0}

\* take_reader_completions, requeue_reader_completion for the completions the
\* poll budget leaves over, take_stream_completions: the queues of `drained`
\* are emptied, and so are queues of ids that are no longer in "order".  The
\* host has consumed the last wake; leftovers wake it again (wake_host).
TakeChunks(drained) ==
    /\ chunkQueue' = [id \in OpIds |->
                        IF id \in order \ drained THEN chunkQueue[id] ELSE 0]
    /\ woken' = (QueuedChunks \ drained # {})
    /\ UNCHANGED <<nextId, exhausted, tokens, cancelled, order, active,
                   completed, completions, chunkRes, bridgeShut>>

\* Mutant: shutdown cancels the operations but keeps the completion queue.
ShutdownKeepsCompletions ==
    /\ bridgeShut' = TRUE
    /\ cancelled' = cancelled \cup tokens
    /\ tokens' = {}
    /\ active' = 0
    /\ chunkQueue' = [id \in OpIds |-> 0]
    /\ chunkRes' = {}
    /\ UNCHANGED <<nextId, exhausted, order, completed, completions, woken>>

\* IoBridge::shutdown.
ShutdownBridge ==
    /\ bridgeShut' = TRUE
    /\ cancelled' = cancelled \cup tokens
    /\ tokens' = {}
    /\ order' = {}
    /\ active' = 0
    /\ completed' = {}
    /\ completions' = [id \in OpIds |-> "none"]
    /\ chunkQueue' = [id \in OpIds |-> 0]
    /\ chunkRes' = {}
    /\ UNCHANGED <<nextId, exhausted, woken>>

\* Mutant: only finished work is pending.
HasQueuedCompletion == completed # {} \/ \E id \in OpIds : chunkQueue[id] > 0

\* has_pending.
HasPending == active > 0 \/ completed # {} \/ \E id \in OpIds : chunkQueue[id] > 0
=============================================================================
