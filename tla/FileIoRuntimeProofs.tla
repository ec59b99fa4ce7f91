------------------------ MODULE FileIoRuntimeProofs -------------------------
(* Theorems about FileIoRuntime, for every value of its constants.          *)
EXTENDS FileIoRuntime, FiniteSetTheorems, TLAPS

-----------------------------------------------------------------------------
(* The bridge's critical sections keep its types.                           *)

\* reserve hands out ids below MaxId and keeps the bridge well typed.
LEMMA ReserveTypes ==
    ASSUME BridgeTypeOK, NEW id, Reserve(id), flagShut' = flagShut
    PROVE  BridgeTypeOK'
BY BridgeAssumption DEF BridgeTypeOK, Reserve, OpIds

\* A reservation that is returned at once keeps the bridge well typed.
LEMMA ReserveAndReturnTypes ==
    ASSUME BridgeTypeOK, ReserveAndReturn, flagShut' = flagShut
    PROVE  BridgeTypeOK'
BY BridgeAssumption DEF BridgeTypeOK, ReserveAndReturn, OpIds

\* A refused reservation keeps the bridge well typed.
LEMMA ReserveFailsTypes ==
    ASSUME BridgeTypeOK, ReserveFails, flagShut' = flagShut
    PROVE  BridgeTypeOK'
<1>1. MayDrawId \in BOOLEAN
  BY DEF MayDrawId
<1> QED
  BY <1>1 DEF BridgeTypeOK, ReserveFails

\* unreserve keeps the bridge well typed.
LEMMA UnreserveTypes ==
    ASSUME BridgeTypeOK, NEW id \in OpIds, Unreserve(id),
           cancelled' \subseteq OpIds, flagShut' = flagShut
    PROVE  BridgeTypeOK'
<1>1. CASE id \in tokens
  <2>1. active' \in Nat
    BY <1>1 DEF BridgeTypeOK, Unreserve
  <2>2. /\ completions' \in [OpIds -> Outcomes \cup {"none"}]
        /\ chunkQueue' \in [OpIds -> Nat]
    BY <1>1 DEF BridgeTypeOK, Unreserve
  <2> QED
    BY <1>1, <2>1, <2>2 DEF BridgeTypeOK, Unreserve
<1>2. CASE id \notin tokens
  BY <1>2 DEF BridgeTypeOK, Unreserve
<1> QED
  BY <1>1, <1>2

\* A worker's push keeps the bridge well typed.
LEMMA PushTypes ==
    ASSUME BridgeTypeOK, NEW id \in OpIds, NEW outcome \in Outcomes,
           PushWhole(id, outcome) \/ PushChunk(id), flagShut' = flagShut
    PROVE  BridgeTypeOK'
<1>1. CASE PushWhole(id, outcome)
  BY <1>1 DEF BridgeTypeOK, PushWhole
<1>2. CASE PushChunk(id)
  <2>1. chunkQueue' \in [OpIds -> Nat]
    BY <1>2 DEF BridgeTypeOK, PushChunk
  <2> QED
    BY <1>2, <2>1 DEF BridgeTypeOK, PushChunk
<1> QED
  BY <1>1, <1>2

\* The two drains of poll_io keep the bridge well typed.
LEMMA TakeTypes ==
    ASSUME BridgeTypeOK, flagShut' = flagShut,
           TakeCompletions \/ \E drained \in SUBSET OpIds : TakeChunks(drained)
    PROVE  BridgeTypeOK'
<1>1. CASE TakeCompletions
  BY <1>1 DEF BridgeTypeOK, TakeCompletions
<1>2. CASE \E drained \in SUBSET OpIds : TakeChunks(drained)
  BY <1>2 DEF BridgeTypeOK, TakeChunks
<1> QED
  BY <1>1, <1>2

\* Steps that leave the bridge alone keep it well typed.
LEMMA StutterTypes ==
    ASSUME BridgeTypeOK, UNCHANGED bridgeVars, flagShut' \in BOOLEAN
    PROVE  BridgeTypeOK'
BY DEF BridgeTypeOK, bridgeVars

\* Queues stay sequences of their elements.
LEMMA AppendTypes ==
    ASSUME NEW S, NEW s \in Seq(S), NEW e \in S
    PROVE  Append(s, e) \in Seq(S)
OBVIOUS

-----------------------------------------------------------------------------
\* Every reachable state of the runtime has the types TypeOK gives it.
THEOREM TypeCorrect == Spec => []TypeOK
<1>1. Init => TypeOK
  <2> SUFFICES ASSUME Init PROVE TypeOK
    OBVIOUS
  <2>1. BridgeTypeOK
    <3>1. 1 \in 1 .. MaxId
      BY BridgeAssumption
    <3>2. /\ [id \in OpIds |-> "none"] \in [OpIds -> Outcomes \cup {"none"}]
          /\ [id \in OpIds |-> 0] \in [OpIds -> Nat]
      OBVIOUS
    <3> QED
      BY <3>1, <3>2 DEF Init, BridgeInit, BridgeTypeOK
  <2>2. Idle \in Executing \cup {Idle}
    OBVIOUS
  <2> QED
    BY <2>1, <2>2 DEF Init, TypeOK, Results
<1>2. TypeOK /\ [Next]_vars => TypeOK'
  <2> SUFFICES ASSUME TypeOK, [Next]_vars PROVE TypeOK'
    OBVIOUS
  <2> USE DEF TypeOK
  <2>1. CASE UNCHANGED vars
    <3>1. BridgeTypeOK'
      BY <2>1, StutterTypes DEF vars, BridgeTypeOK
    <3> QED
      BY <2>1, <3>1 DEF vars, runtimeVars
  <2>2. ASSUME NEW r \in Reads, ReadCall(r) PROVE TypeOK'
    <3> SUFFICES ASSUME ReadPreflightFails(r) \/ ReadQuotaFails(r)
                          \/ ReadSubmitFails(r) \/ ReadAccepted(r)
                 PROVE  TypeOK'
      BY <2>2 DEF ReadCall
    <3>1. RejectJob(r) \in Job
      BY DEF RejectJob, Job
    <3>2. ASSUME Refuse(r)
          PROVE  /\ promise' \in [Reads -> {"none", "pending"} \cup Settled]
                 /\ jobs' \in Seq(Job)
      BY <3>1, <3>2 DEF Refuse
    <3>3. CASE ReadPreflightFails(r)
      BY <3>2, <3>3, StutterTypes DEF ReadPreflightFails, Refuse, BridgeTypeOK
    <3>4. CASE ReadQuotaFails(r)
      BY <3>2, <3>4, ReserveFailsTypes DEF ReadQuotaFails, Refuse
    <3>5. CASE ReadSubmitFails(r)
      BY <3>2, <3>5, ReserveAndReturnTypes DEF ReadSubmitFails, Refuse
    <3>6. CASE ReadAccepted(r)
      <4>1. PICK id \in OpIds : /\ Reserve(id)
                                /\ Submit(id)
                                /\ owner' = [owner EXCEPT ![id] = "whole"]
                                /\ pendingReads' = [pendingReads EXCEPT ![id] = r]
                                /\ opOf' = [opOf EXCEPT ![r] = id]
        BY <3>6 DEF ReadAccepted
      <4>2. BridgeTypeOK'
        BY <3>6, <4>1, ReserveTypes DEF ReadAccepted
      <4> QED
        BY <3>6, <4>1, <4>2 DEF ReadAccepted, Submit, Kinds, PoolAccepts
    <3> QED
      BY <3>3, <3>4, <3>5, <3>6
  <2>3. CASE RunJob
    <3>1. BridgeTypeOK'
      BY <2>3, StutterTypes DEF RunJob, BridgeTypeOK
    <3>2. Head(jobs) \in Job /\ Tail(jobs) \in Seq(Job)
      BY <2>3 DEF RunJob
    <3>3. RejectJob(Head(jobs).read) \in Job /\ Head(jobs).read \in Reads
      BY <3>2 DEF RejectJob, Job
    <3>4. jobs' \in Seq(Job)
      <4>1. Append(Tail(jobs), RejectJob(Head(jobs).read)) \in Seq(Job)
        BY <3>2, <3>3, AppendTypes
      <4>2. \/ jobs' = Append(Tail(jobs), RejectJob(Head(jobs).read))
            \/ jobs' = Tail(jobs)
        BY <2>3 DEF RunJob
      <4> QED
        BY <3>2, <4>1, <4>2
    <3>5. promise' \in [Reads -> {"none", "pending"} \cup Settled]
      BY <2>3, <3>3 DEF RunJob, Settled
    <3> QED
      BY <2>3, <3>1, <3>4, <3>5 DEF RunJob
  <2>4. CASE ChunkUser
    <3>1. CASE StreamOpens
      BY <3>1, ReserveTypes DEF StreamOpens, chunkUserUnchanged, Kinds
    <3>2. CASE ReaderStarts
      <4>1. PICK id \in OpIds :
              IF PoolAccepts
              THEN /\ Reserve(id)
                   /\ Submit(id)
                   /\ owner' = [owner EXCEPT ![id] = "reader"]
                   /\ phase' = [phase EXCEPT ![id] = "inflight"]
              ELSE ReserveAndReturn /\ UNCHANGED <<owner, phase, poolQ>>
        BY <3>2 DEF ReaderStarts
      <4>2. BridgeTypeOK'
        BY <3>2, <4>1, ReserveTypes, ReserveAndReturnTypes
        DEF ReaderStarts, chunkUserUnchanged
      <4>3. /\ owner' \in [OpIds -> Kinds \cup {"none"}]
            /\ phase' \in [OpIds -> {"idle", "inflight", "landed"}]
        BY <4>1 DEF Kinds
      <4>4. poolQ' \in Seq(OpIds)
        <5>1. poolQ' = Append(poolQ, id) \/ poolQ' = poolQ
          BY <4>1 DEF Submit
        <5>2. poolQ \in Seq(OpIds)
          OBVIOUS
        <5>3. Append(poolQ, id) \in Seq(OpIds)
          BY <5>2, AppendTypes
        <5> QED
          BY <5>1, <5>2, <5>3
      <4>5. UNCHANGED chunkUserUnchanged
        BY <3>2 DEF ReaderStarts
      <4> QED
        BY <4>2, <4>3, <4>4, <4>5 DEF chunkUserUnchanged
    <3>3. ASSUME NEW id \in OpIds, NextChunk(id) PROVE TypeOK'
      <4>1. BridgeTypeOK'
        BY <3>3, UnreserveTypes, StutterTypes
        DEF NextChunk, chunkUserUnchanged, BridgeTypeOK
      <4>2. phase' \in [OpIds -> {"idle", "inflight", "landed"}]
        BY <3>3 DEF NextChunk
      <4>3. poolQ' \in Seq(OpIds)
        <5>1. poolQ' = Append(poolQ, id) \/ poolQ' = poolQ
          BY <3>3 DEF NextChunk, Submit
        <5>2. poolQ \in Seq(OpIds)
          OBVIOUS
        <5>3. Append(poolQ, id) \in Seq(OpIds)
          BY <5>2, AppendTypes
        <5> QED
          BY <5>1, <5>2, <5>3
      <4>4. owner' = owner /\ UNCHANGED chunkUserUnchanged
        BY <3>3 DEF NextChunk
      <4> QED
        BY <4>1, <4>2, <4>3, <4>4 DEF chunkUserUnchanged
    <3>4. ASSUME NEW id \in OpIds, StreamIdles(id) PROVE TypeOK'
      BY <3>4, StutterTypes DEF StreamIdles, chunkUserUnchanged, BridgeTypeOK
    <3>5. ASSUME NEW id \in OpIds,
                 ChunkUserFinishes(id) \/ ChunkUserAborts(id) \/ StreamCancels(id)
          PROVE  TypeOK'
      <4>1. Ends(id) /\ cancelled' \subseteq OpIds
        BY <3>5 DEF ChunkUserFinishes, ChunkUserAborts, StreamCancels, BridgeTypeOK
      <4>2. BridgeTypeOK'
        BY <4>1, UnreserveTypes DEF Ends, chunkUserUnchanged
      <4> QED
        BY <4>1, <4>2 DEF Ends, chunkUserUnchanged
    <3> QED
      BY <2>4, <3>1, <3>2, <3>3, <3>4, <3>5 DEF ChunkUser
  <2>5. CASE Poll
    <3>1. CASE PollChunks
      <4> DEFINE readers == {id \in QueuedChunks : owner[id] = "reader"}
                 drained == WithinBudget(readers) \cup (QueuedChunks \ readers)
      <4>1. drained \in SUBSET OpIds
        BY DEF WithinBudget, QueuedChunks, BridgeTypeOK
      <4>2. TakeChunks(drained)
        BY <3>1 DEF PollChunks
      <4>3. BridgeTypeOK'
        BY <3>1, <4>1, <4>2, TakeTypes DEF PollChunks
      <4> QED
        BY <3>1, <4>3 DEF PollChunks
    <3>2. CASE PollTake
      <4>1. BridgeTypeOK'
        BY <3>2, TakeTypes DEF PollTake
      <4> QED
        BY <3>2, <4>1 DEF PollTake, BridgeTypeOK
    <3>3. CASE SettleOne
      <4>1. PICK id \in InBatch :
              /\ Unreserve(id)
              /\ batch' = [batch EXCEPT ![id] = "none"]
              /\ IF pendingReads[id] = NoRead
                 THEN UNCHANGED <<pendingReads, jobs, result>>
                 ELSE /\ pendingReads' = [pendingReads EXCEPT ![id] = NoRead]
                      /\ \E does \in JobsFor(batch[id]) :
                            jobs' = Append(jobs, [read |-> pendingReads[id], does |-> does])
                      /\ result' = [result EXCEPT ![pendingReads[id]] =
                                      IF batch[id] = "ok" THEN "ready" ELSE "failed"]
        BY <3>3 DEF SettleOne
      <4>2. id \in OpIds
        BY <4>1 DEF InBatch
      <4>3. BridgeTypeOK'
        BY <3>3, <4>1, <4>2, UnreserveTypes DEF SettleOne, BridgeTypeOK
      <4>4. \A does \in JobsFor(batch[id]) :
              pendingReads[id] # NoRead => [read |-> pendingReads[id], does |-> does] \in Job
        BY <4>2 DEF Job, JobsFor
      <4>5. jobs' \in Seq(Job)
        <5>1. jobs \in Seq(Job)
          OBVIOUS
        <5>2. CASE pendingReads[id] = NoRead
          BY <4>1, <5>1, <5>2
        <5>3. CASE pendingReads[id] # NoRead
          <6>1. PICK does \in JobsFor(batch[id]) :
                  jobs' = Append(jobs, [read |-> pendingReads[id], does |-> does])
            BY <4>1, <5>3
          <6>2. [read |-> pendingReads[id], does |-> does] \in Job
            BY <4>4, <5>3
          <6>3. Append(jobs, [read |-> pendingReads[id], does |-> does]) \in Seq(Job)
            BY <5>1, <6>2, AppendTypes
          <6> QED
            BY <6>1, <6>3
        <5> QED
          BY <5>2, <5>3
      <4>6. /\ batch' \in [OpIds -> Outcomes \cup {"none"}]
            /\ pendingReads' \in [OpIds -> Reads \cup {NoRead}]
            /\ result' \in [Reads -> Results]
        BY <4>1 DEF Results
      <4> QED
        BY <3>3, <4>3, <4>5, <4>6 DEF SettleOne
    <3>4. CASE PollEnds
      BY <3>4, StutterTypes DEF PollEnds, BridgeTypeOK
    <3> QED
      BY <2>5, <3>1, <3>2, <3>3, <3>4 DEF Poll
  <2>6. CASE Shutdown
    <3>1. CASE CloseFlag
      BY <3>1, StutterTypes DEF CloseFlag
    <3>2. CASE CloseBridge
      BY <3>2 DEF CloseBridge, ShutdownBridge, BridgeTypeOK
    <3> QED
      BY <2>6, <3>1, <3>2 DEF Shutdown
  <2>7. ASSUME NEW w \in Workers, Worker(w) PROVE TypeOK'
    <3>1. CASE WorkerTake(w)
      <4>1. Head(poolQ) \in OpIds /\ Tail(poolQ) \in Seq(OpIds)
        BY <3>1 DEF WorkerTake
      <4>2. BridgeTypeOK'
        BY <3>1, StutterTypes DEF WorkerTake, BridgeTypeOK
      <4> QED
        BY <3>1, <4>1, <4>2 DEF WorkerTake, Executing
    <3>2. CASE WorkerPush(w)
      <4>1. worker[w].op \in OpIds /\ worker[w].outcome \in Outcomes
        BY <3>2 DEF WorkerPush, Executing
      <4>2. BridgeTypeOK'
        BY <3>2, <4>1, PushTypes DEF WorkerPush
      <4> QED
        BY <3>2, <4>2 DEF WorkerPush
    <3> QED
      BY <2>7, <3>1, <3>2 DEF Worker
  <2> QED
    BY <2>1, <2>2, <2>3, <2>4, <2>5, <2>6, <2>7 DEF Next
<1> QED
  BY <1>1, <1>2, PTL DEF Spec
-----------------------------------------------------------------------------
(* The quota.                                                               *)

\* What a step can do to the live reservations: every caller goes through
\* reserve, unreserve and shutdown.
QuotaStep ==
    \/ \E id \in OpIds : Reserve(id)
    \/ \E id \in OpIds : Unreserve(id)
    \/ ShutdownBridge
    \/ UNCHANGED <<tokens, active>> /\ nextId' \in {nextId, nextId + 1}

\* The fresh id of a reservation must not be live already, so the quota needs
\* the counter to run ahead of every live id.
QuotaInv ==
    /\ active = Cardinality(tokens) /\ active <= Limit
    /\ \A id \in tokens : id < nextId

\* No step of the runtime touches the reservations in another way.
LEMMA OnlyQuotaSteps ==
    ASSUME TypeOK, [Next]_vars
    PROVE  QuotaStep
<1> nextId \in Nat
  BY DEF TypeOK, BridgeTypeOK
<1>1. CASE UNCHANGED vars
  BY <1>1 DEF QuotaStep, vars, bridgeVars
<1>2. ASSUME NEW r \in Reads, ReadCall(r) PROVE QuotaStep
  BY <1>2 DEF ReadCall, ReadPreflightFails, ReadQuotaFails, ReadSubmitFails,
              ReadAccepted, ReserveFails, ReserveAndReturn, QuotaStep, bridgeVars
<1>3. CASE RunJob
  BY <1>3 DEF RunJob, QuotaStep, bridgeVars
<1>4. CASE ChunkUser
  <2>1. CASE StreamOpens
    BY <2>1 DEF StreamOpens, QuotaStep
  <2>2. CASE ReaderStarts
    BY <2>2 DEF ReaderStarts, ReserveAndReturn, QuotaStep
  <2>3. ASSUME NEW id \in OpIds, NextChunk(id) PROVE QuotaStep
    BY <2>3 DEF NextChunk, QuotaStep, bridgeVars
  <2>4. ASSUME NEW id \in OpIds, StreamIdles(id) PROVE QuotaStep
    BY <2>4 DEF StreamIdles, QuotaStep, bridgeVars
  <2>5. ASSUME NEW id \in OpIds,
               ChunkUserFinishes(id) \/ ChunkUserAborts(id) \/ StreamCancels(id)
        PROVE  QuotaStep
    BY <2>5 DEF ChunkUserFinishes, ChunkUserAborts, StreamCancels, Ends, QuotaStep
  <2> QED
    BY <1>4, <2>1, <2>2, <2>3, <2>4, <2>5 DEF ChunkUser
<1>5. CASE Poll
  <2>1. CASE PollChunks
    BY <2>1 DEF PollChunks, TakeChunks, QuotaStep
  <2>2. CASE PollTake
    BY <2>2 DEF PollTake, TakeCompletions, QuotaStep
  <2>3. CASE SettleOne
    BY <2>3 DEF SettleOne, InBatch, QuotaStep
  <2>4. CASE PollEnds
    BY <2>4 DEF PollEnds, QuotaStep, bridgeVars
  <2> QED
    BY <1>5, <2>1, <2>2, <2>3, <2>4 DEF Poll
<1>6. CASE Shutdown
  BY <1>6 DEF Shutdown, CloseFlag, CloseBridge, QuotaStep, bridgeVars
<1>7. ASSUME NEW w \in Workers, Worker(w) PROVE QuotaStep
  BY <1>7 DEF Worker, WorkerTake, WorkerPush, PushWhole, PushChunk, QuotaStep, bridgeVars
<1> QED
  BY <1>1, <1>2, <1>3, <1>4, <1>5, <1>6, <1>7 DEF Next

\* Those steps keep the counter exact.
LEMMA QuotaPreserved ==
    ASSUME TypeOK, QuotaInv, QuotaStep
    PROVE  QuotaInv'
<1>1. /\ tokens \subseteq OpIds /\ nextId \in Nat /\ active \in Nat
      /\ Limit \in Nat
  BY BridgeAssumption DEF TypeOK, BridgeTypeOK
<1>2. IsFiniteSet(tokens)
  <2>1. IsFiniteSet(OpIds)
    BY FS_Interval, BridgeAssumption DEF OpIds
  <2> QED
    BY <1>1, <2>1, FS_Subset
<1>3. ASSUME NEW id \in OpIds, Reserve(id) PROVE QuotaInv'
  <2>1. id \notin tokens /\ active < Limit
    BY <1>1, <1>3 DEF QuotaInv, Reserve, MayDrawId
  <2>2. Cardinality(tokens') = active'
    BY <1>2, <1>3, <2>1, FS_AddElement DEF QuotaInv, Reserve
  <2>3. active' <= Limit
    BY <1>1, <1>3, <2>1 DEF Reserve
  <2>4. \A t \in tokens' : t < nextId'
    BY <1>1, <1>3 DEF QuotaInv, Reserve, OpIds
  <2> QED
    BY <2>2, <2>3, <2>4 DEF QuotaInv
<1>4. ASSUME NEW id \in OpIds, Unreserve(id) PROVE QuotaInv'
  <2>1. CASE id \in tokens
    <3>1. Cardinality(tokens') = Cardinality(tokens) - 1
      BY <1>2, <1>4, <2>1, FS_RemoveElement DEF Unreserve
    <3>2. active > 0
      BY <1>1, <1>2, <2>1, FS_EmptySet DEF QuotaInv
    <3> QED
      BY <1>1, <1>4, <2>1, <3>1, <3>2 DEF QuotaInv, Unreserve
  <2>2. CASE id \notin tokens
    BY <1>4, <2>2 DEF QuotaInv, Unreserve
  <2> QED
    BY <2>1, <2>2
<1>5. CASE ShutdownBridge
  BY <1>1, <1>5, FS_EmptySet DEF ShutdownBridge, QuotaInv
<1>6. CASE UNCHANGED <<tokens, active>> /\ nextId' \in {nextId, nextId + 1}
  <2>1. \A t \in tokens' : t < nextId'
    BY <1>1, <1>6 DEF QuotaInv, OpIds
  <2> QED
    BY <1>6, <2>1 DEF QuotaInv
<1> QED
  BY <1>3, <1>4, <1>5, <1>6 DEF QuotaStep

\* Every live reservation has somebody who will give it back.
HeldInv == \A id \in tokens : owner[id] \in ChunkKinds \/ pendingReads[id] # NoRead

LEMMA HeldPreserved ==
    ASSUME TypeOK, HeldInv, [Next]_vars
    PROVE  HeldInv'
<1> USE DEF HeldInv
<1>1. CASE tokens' \subseteq tokens /\ UNCHANGED <<owner, pendingReads>>
  BY <1>1
<1>2. ASSUME NEW id \in OpIds, Reserve(id), UNCHANGED pendingReads,
             NEW kind \in ChunkKinds, owner' = [owner EXCEPT ![id] = kind]
      PROVE  HeldInv'
  <2>1. owner \in [OpIds -> Kinds \cup {"none"}] /\ tokens \subseteq OpIds
    BY DEF TypeOK, BridgeTypeOK
  <2> QED
    BY <1>2, <2>1 DEF Reserve
<1>3. ASSUME NEW id \in OpIds, Unreserve(id) PROVE tokens' \subseteq tokens
  <2>1. tokens' = tokens \ {id} \/ tokens' = tokens
    BY <1>3 DEF Unreserve
  <2> QED
    BY <2>1
<1>4. CASE UNCHANGED vars
  BY <1>1, <1>4 DEF vars, runtimeVars, bridgeVars
<1>5. ASSUME NEW r \in Reads, ReadCall(r) PROVE HeldInv'
  <2>1. CASE ReadPreflightFails(r) \/ ReadQuotaFails(r) \/ ReadSubmitFails(r)
    BY <1>1, <2>1 DEF ReadPreflightFails, ReadQuotaFails, ReadSubmitFails, Refuse,
                      ReserveFails, ReserveAndReturn, bridgeVars
  <2>2. CASE ReadAccepted(r)
    <3>1. PICK id \in OpIds : /\ Reserve(id)
                              /\ owner' = [owner EXCEPT ![id] = "whole"]
                              /\ pendingReads' = [pendingReads EXCEPT ![id] = r]
      BY <2>2 DEF ReadAccepted
    <3>2. /\ owner \in [OpIds -> Kinds \cup {"none"}] /\ tokens \subseteq OpIds
          /\ pendingReads \in [OpIds -> Reads \cup {NoRead}] /\ r # NoRead
      BY RuntimeAssumption DEF TypeOK, BridgeTypeOK
    <3> QED
      BY <3>1, <3>2 DEF Reserve
  <2> QED
    BY <1>5, <2>1, <2>2 DEF ReadCall
<1>6. CASE RunJob
  BY <1>1, <1>6 DEF RunJob, bridgeVars
<1>7. CASE ChunkUser
  <2>1. CASE StreamOpens
    BY <1>2, <2>1 DEF StreamOpens, chunkUserUnchanged
  <2>2. CASE ReaderStarts
    BY <1>1, <1>2, <2>2 DEF ReaderStarts, ReserveAndReturn, chunkUserUnchanged
  <2>3. ASSUME NEW id \in OpIds, NextChunk(id) PROVE HeldInv'
    BY <1>1, <1>3, <2>3 DEF NextChunk, chunkUserUnchanged, bridgeVars
  <2>4. ASSUME NEW id \in OpIds, StreamIdles(id) PROVE HeldInv'
    BY <1>1, <2>4 DEF StreamIdles, chunkUserUnchanged, bridgeVars
  <2>5. ASSUME NEW id \in OpIds,
               ChunkUserFinishes(id) \/ ChunkUserAborts(id) \/ StreamCancels(id)
        PROVE  HeldInv'
    BY <1>1, <1>3, <2>5 DEF ChunkUserFinishes, ChunkUserAborts, StreamCancels, Ends,
                            chunkUserUnchanged
  <2> QED
    BY <1>7, <2>1, <2>2, <2>3, <2>4, <2>5 DEF ChunkUser
<1>8. CASE Poll
  <2>1. CASE PollChunks
    BY <1>1, <2>1 DEF PollChunks, TakeChunks
  <2>2. CASE PollTake
    BY <1>1, <2>2 DEF PollTake, TakeCompletions
  <2>3. CASE SettleOne
    <3>1. PICK id \in OpIds :
            /\ Unreserve(id)
            /\ IF pendingReads[id] = NoRead
               THEN UNCHANGED pendingReads
               ELSE pendingReads' = [pendingReads EXCEPT ![id] = NoRead]
      BY <2>3 DEF SettleOne, InBatch
    <3>2. UNCHANGED owner /\ id \notin tokens'
      BY <2>3, <3>1 DEF SettleOne, Unreserve
    <3>3. tokens \subseteq OpIds /\ pendingReads \in [OpIds -> Reads \cup {NoRead}]
      BY DEF TypeOK, BridgeTypeOK
    <3> QED
      BY <1>3, <3>1, <3>2, <3>3
  <2>4. CASE PollEnds
    BY <1>1, <2>4 DEF PollEnds, bridgeVars
  <2> QED
    BY <1>8, <2>1, <2>2, <2>3, <2>4 DEF Poll
<1>9. CASE Shutdown
  BY <1>1, <1>9 DEF Shutdown, CloseFlag, CloseBridge, ShutdownBridge, bridgeVars
<1>10. ASSUME NEW w \in Workers, Worker(w) PROVE HeldInv'
  BY <1>1, <1>10 DEF Worker, WorkerTake, WorkerPush, PushWhole, PushChunk, bridgeVars
<1> QED
  BY <1>4, <1>5, <1>6, <1>7, <1>8, <1>9, <1>10 DEF Next

-----------------------------------------------------------------------------
(* Shutdown.                                                                *)

NothingHeld ==
    /\ tokens = {} /\ order = {} /\ active = 0 /\ completed = {} /\ chunkRes = {}
    /\ \A id \in OpIds : chunkQueue[id] = 0

\* The bridge is empty once it is shut; the window in which only the flag is
\* closed is the one inside shutdown; and a batch exists only while poll_io
\* settles it, which shutdown cannot interrupt.
ShutdownInv ==
    /\ bridgeShut => flagShut /\ NothingHeld
    /\ flagShut => bridgeShut \/ boa = "closing"
    /\ boa = "closing" => flagShut
    /\ boa # "settling" => InBatch = {}
    /\ flagShut => boa # "settling" \/ InBatch = {}

\* In a shut bridge there is nothing to take.
LEMMA NothingToTake ==
    ASSUME TypeOK, completed = {} PROVE InOrderPrefix = {}
<1>1. \A id \in order : id <= id
  BY DEF TypeOK, BridgeTypeOK, OpIds
<1> QED
  BY <1>1 DEF InOrderPrefix

\* The step that settles is never enabled after the flag is closed.
LEMMA SettlesOnlyBefore ==
    ASSUME ShutdownInv, SettleOne PROVE ~flagShut
<1>1. boa = "settling" /\ InBatch # {}
  BY DEF SettleOne
<1> QED
  BY <1>1 DEF ShutdownInv

\* Every step keeps the shut bridge empty.
LEMMA ShutdownPreserved ==
    ASSUME TypeOK, ShutdownInv, [Next]_vars
    PROVE  ShutdownInv'
<1> USE DEF ShutdownInv, NothingHeld
<1>1. CASE UNCHANGED vars
  BY <1>1 DEF vars, bridgeVars, runtimeVars, InBatch
<1>2. ASSUME NEW r \in Reads, ReadCall(r) PROVE ShutdownInv'
  <2>1. CASE ReadPreflightFails(r)
    BY <2>1 DEF ReadPreflightFails, bridgeVars, InBatch
  <2>2. CASE ReadQuotaFails(r) \/ ReadSubmitFails(r)
    BY <2>2 DEF ReadQuotaFails, ReadSubmitFails, ReserveFails, ReserveAndReturn, InBatch
  <2>3. CASE ReadAccepted(r)
    BY <2>3 DEF ReadAccepted, Reserve, MayDrawId, IsShutdown, InBatch
  <2> QED
    BY <1>2, <2>1, <2>2, <2>3 DEF ReadCall
<1>3. CASE RunJob
  BY <1>3 DEF RunJob, bridgeVars, InBatch
<1>4. CASE ChunkUser
  <2>1. CASE StreamOpens
    BY <2>1 DEF StreamOpens, Reserve, MayDrawId, IsShutdown, chunkUserUnchanged, InBatch
  <2>2. CASE ReaderStarts
    BY <2>2 DEF ReaderStarts, Reserve, ReserveAndReturn, MayDrawId, IsShutdown,
                chunkUserUnchanged, InBatch
  <2>3. ASSUME NEW id \in OpIds, NextChunk(id) PROVE ShutdownInv'
    BY <2>3 DEF NextChunk, Unreserve, bridgeVars, chunkUserUnchanged, InBatch
  <2>4. ASSUME NEW id \in OpIds, StreamIdles(id) PROVE ShutdownInv'
    BY <2>4 DEF StreamIdles, bridgeVars, chunkUserUnchanged, InBatch
  <2>5. ASSUME NEW id \in OpIds,
               ChunkUserFinishes(id) \/ ChunkUserAborts(id) \/ StreamCancels(id)
        PROVE  ShutdownInv'
    <3>1. Ends(id)
      BY <2>5 DEF ChunkUserFinishes, ChunkUserAborts, StreamCancels
    <3> QED
      BY <3>1 DEF Ends, Unreserve, chunkUserUnchanged, InBatch
  <2> QED
    BY <1>4, <2>1, <2>2, <2>3, <2>4, <2>5 DEF ChunkUser
<1>5. CASE Poll
  <2>1. CASE PollChunks
    BY <2>1 DEF PollChunks, TakeChunks, TypeOK, BridgeTypeOK, InBatch
  <2>2. CASE PollTake
    <3>1. bridgeShut => InOrderPrefix = {}
      BY NothingToTake
    <3>2. flagShut => bridgeShut
      BY <2>2 DEF PollTake
    <3>3. bridgeShut => InBatch' = {}
      BY <2>2, <3>1 DEF PollTake, InBatch
    <3> QED
      BY <2>2, <3>2, <3>3 DEF PollTake, TakeCompletions
  <2>3. CASE SettleOne
    <3>1. ~flagShut /\ ~bridgeShut /\ boa = "settling"
      BY <2>3, SettlesOnlyBefore DEF SettleOne
    <3>2. boa' = boa /\ flagShut' = flagShut /\ bridgeShut' = bridgeShut
      BY <2>3 DEF SettleOne, Unreserve
    <3> QED
      BY <3>1, <3>2
  <2>4. CASE PollEnds
    BY <2>4 DEF PollEnds, bridgeVars, InBatch
  <2> QED
    BY <1>5, <2>1, <2>2, <2>3, <2>4 DEF Poll
<1>6. CASE Shutdown
  BY <1>6 DEF Shutdown, CloseFlag, CloseBridge, ShutdownBridge, bridgeVars, InBatch
<1>7. ASSUME NEW w \in Workers, Worker(w) PROVE ShutdownInv'
  BY <1>7 DEF Worker, WorkerTake, WorkerPush, PushWhole, PushChunk, PushIsStale,
              IsShutdown, bridgeVars, InBatch
<1> QED
  BY <1>1, <1>2, <1>3, <1>4, <1>5, <1>6, <1>7 DEF Next

\* Every reachable state satisfies the invariant of shutdown.
LEMMA ShutdownInvariant == Spec => []ShutdownInv
<1>1. Init => ShutdownInv
  BY DEF Init, BridgeInit, ShutdownInv, InBatch
<1>2. TypeOK /\ ShutdownInv /\ [Next]_vars => ShutdownInv'
  BY ShutdownPreserved
<1> QED
  BY <1>1, <1>2, TypeCorrect, PTL DEF Spec

\* Nothing comes back into a bridge that was shut down, whatever the workers,
\* readers and streams still do.
THEOREM ShutdownIsQuiet == Spec => []ShutdownQuiet
<1>1. ShutdownInv => ShutdownQuiet
  BY DEF ShutdownInv, NothingHeld, ShutdownQuiet
<1> QED
  BY <1>1, ShutdownInvariant, PTL

-----------------------------------------------------------------------------
(***************************************************************************)
(* FileIoRuntime implements PromiseReads.  The inductive invariant has two *)
(* halves.  BridgeSide says where the operation of a pending read is: in   *)
(* "order" or in the batch, never taken for a chunk operation, and behind  *)
(* every earlier one.  CallSide says where its promise is: in the table    *)
(* before the result is delivered, then in exactly one settlement job, and *)
(* in which order those jobs are queued.                                   *)
(***************************************************************************)

\* Ids the counter has not reached are unused.
FreshInv ==
    \A id \in OpIds : id >= nextId =>
        /\ id \notin tokens /\ id \notin order /\ id \notin chunkRes
        /\ batch[id] = "none" /\ chunkQueue[id] = 0 /\ phase[id] = "idle"
        /\ pendingReads[id] = NoRead

\* Only chunk operations queue chunks or are skipped by take_completions.
ChunkInv ==
    \A id \in OpIds :
        id \in chunkRes \/ chunkQueue[id] > 0 \/ phase[id] # "idle"
            => owner[id] # "whole"

\* The operation of a pending read is on its way.
PlaceInv ==
    \A id \in OpIds : pendingReads[id] # NoRead =>
        /\ owner[id] = "whole"
        /\ bridgeShut \/ id \in order \/ batch[id] # "none"

\* What was taken is earlier than what waits.
BatchInv ==
    \A id, later \in OpIds :
        batch[id] # "none" /\ later \in order \ chunkRes => id < later

\* A completion that is counted is there.
CompletedInv == \A id \in completed : completions[id] # "none"

BridgeSide == FreshInv /\ ChunkInv /\ PlaceInv /\ BatchInv /\ CompletedInv

Side(i) == result[jobs[i].read]
Op(i) == opOf[jobs[i].read]

\* The second job of a failed read, and the first job of any accepted read.
Second(i) == Side(i) = "failed" /\ jobs[i].does = "reject"
First(i) == Side(i) # "none" /\ ~Second(i)

CallInv ==
    \A r \in Reads :
        /\ promise[r] = "none" => opOf[r] = 0
        /\ promise[r] \in Settled /\ opOf[r] > 0 => result[r] # "none"
        /\ opOf[r] = 0 => result[r] = "none"
        /\ opOf[r] < nextId
        /\ \A q \in Reads : opOf[q] = opOf[r] /\ opOf[r] > 0 => q = r
        /\ \A q \in Reads :
             0 < opOf[q] /\ opOf[q] < opOf[r] /\ result[q] = "none" => result[r] = "none"

TableInv ==
    \A id \in OpIds : pendingReads[id] # NoRead =>
        /\ opOf[pendingReads[id]] = id
        /\ promise[pendingReads[id]] = "pending"
        /\ result[pendingReads[id]] = "none"

\* One job per read; what it does depends on the result.
JobsInv ==
    \A i \in 1 .. Len(jobs) :
        /\ promise[jobs[i].read] = "pending"
        /\ \A j \in 1 .. Len(jobs) : jobs[i].read = jobs[j].read => i = j
        /\ Side(i) = "none" => Op(i) = 0 /\ jobs[i].does = "reject"
        /\ Side(i) = "ready" => jobs[i].does \in {"resolve", "reject"}
        /\ Side(i) = "failed" => jobs[i].does \in {"reject", "queueReject"}

\* A pending promise has a job or a table entry.
ServedInv ==
    \A r \in Reads : promise[r] = "pending" =>
        \/ \E i \in 1 .. Len(jobs) : jobs[i].read = r
        \/ opOf[r] > 0 /\ pendingReads[opOf[r]] = r

\* First jobs are queued in the order of acceptance, and so are second jobs,
\* of reads that are earlier than those whose first job still waits.
OrderInv ==
    \A i, j \in 1 .. Len(jobs) :
        /\ i < j /\ First(i) /\ First(j) => Op(i) < Op(j)
        /\ i < j /\ Second(i) /\ Second(j) => Op(i) < Op(j)
        /\ Second(i) /\ First(j) => Op(i) < Op(j)

CallSide == CallInv /\ TableInv /\ JobsInv /\ ServedInv /\ OrderInv

-----------------------------------------------------------------------------
(* The bridge side.                                                         *)

\* Ids have the order of the naturals.
LEMMA IdsAreNaturals ==
    /\ OpIds \subseteq Nat
    /\ \A id \in OpIds : id > 0
BY DEF OpIds

\* Drawing an id for a new operation.
LEMMA ReserveSide ==
    ASSUME TypeOK, BridgeSide, InBatch = {}, NEW id \in OpIds, Reserve(id),
           \A other \in OpIds : other # id =>
               /\ owner'[other] = owner[other]
               /\ phase'[other] = phase[other]
               /\ pendingReads'[other] = pendingReads[other],
           owner'[id] = "whole" => phase'[id] = "idle",
           pendingReads'[id] # NoRead => owner'[id] = "whole",
           UNCHANGED batch
    PROVE  BridgeSide'
<1> USE IdsAreNaturals
<1>1. id = nextId /\ nextId' = nextId + 1 /\ nextId \in Nat
  BY DEF Reserve, TypeOK, BridgeTypeOK
<1>2. FreshInv'
  BY <1>1 DEF BridgeSide, FreshInv, Reserve
<1>3. ChunkInv'
  BY <1>1 DEF BridgeSide, FreshInv, ChunkInv, Reserve
<1>4. PlaceInv'
  BY DEF BridgeSide, PlaceInv, Reserve
<1>5. BatchInv'
  BY DEF BatchInv, InBatch
<1>6. CompletedInv'
  BY DEF BridgeSide, CompletedInv, Reserve
<1> QED
  BY <1>2, <1>3, <1>4, <1>5, <1>6 DEF BridgeSide

\* Giving back the slot of a chunk operation, or of a settled read.
LEMMA UnreserveSide ==
    ASSUME TypeOK, BridgeSide, NEW id \in OpIds, Unreserve(id),
           phase' = [phase EXCEPT ![id] = "idle"] \/ UNCHANGED phase,
           \/ owner[id] # "whole" /\ UNCHANGED <<pendingReads, batch>>
           \/ /\ batch' = [batch EXCEPT ![id] = "none"]
              /\ pendingReads' = [pendingReads EXCEPT ![id] = NoRead],
           UNCHANGED owner
    PROVE  BridgeSide'
<1> USE IdsAreNaturals DEF TypeOK, BridgeTypeOK
<1>1. nextId' = nextId /\ bridgeShut' = bridgeShut
  BY DEF Unreserve
<1>2. FreshInv'
  BY <1>1 DEF BridgeSide, FreshInv, Unreserve
<1>3. ChunkInv'
  BY DEF BridgeSide, ChunkInv, Unreserve
<1>4. PlaceInv'
  BY <1>1 DEF BridgeSide, PlaceInv, Unreserve
<1>5. BatchInv'
  <2>1. order' \subseteq order /\ order' \ chunkRes' \subseteq order \ chunkRes
    BY DEF BridgeSide, PlaceInv, Unreserve
  <2>2. \A x \in OpIds : batch'[x] # "none" => batch[x] # "none"
    OBVIOUS
  <2> QED
    BY <2>1, <2>2 DEF BridgeSide, BatchInv
<1>6. CompletedInv'
  <2>1. completed' \subseteq completed /\ \A x \in completed' : completions'[x] = completions[x]
    <3>1. CASE id \in tokens
      <4>1. completed' = completed \ {id} /\ completions' = [completions EXCEPT ![id] = "none"]
        BY <3>1 DEF Unreserve
      <4> QED
        BY <4>1
    <3>2. CASE id \notin tokens
      BY <3>2 DEF Unreserve
    <3> QED
      BY <3>1, <3>2
  <2> QED
    BY <2>1 DEF BridgeSide, CompletedInv
<1> QED
  BY <1>2, <1>3, <1>4, <1>5, <1>6 DEF BridgeSide

\* Steps that touch nothing the bridge side talks about.
LEMMA StutterSide ==
    ASSUME BridgeSide,
           UNCHANGED <<nextId, tokens, order, chunkRes, bridgeShut, batch,
                       chunkQueue, phase, pendingReads, owner, completed, completions>>
    PROVE  BridgeSide'
BY DEF BridgeSide, FreshInv, ChunkInv, PlaceInv, BatchInv, CompletedInv

\* A worker pushes a completion, never nothing.
LEMMA PushWholeSide ==
    ASSUME TypeOK, CompletedInv, NEW id \in OpIds, NEW outcome, outcome # "none",
           PushWhole(id, outcome)
    PROVE  CompletedInv'
<1>1. completions \in [OpIds -> Outcomes \cup {"none"}] /\ completed \subseteq OpIds
  BY DEF TypeOK, BridgeTypeOK
<1>2. CASE UNCHANGED <<completed, completions>>
  BY <1>2 DEF CompletedInv
<1>3. CASE /\ completed' = completed \cup {id}
           /\ completions' = [completions EXCEPT ![id] = outcome]
  BY <1>1, <1>3 DEF CompletedInv
<1> QED
  BY <1>2, <1>3 DEF PushWhole

\* Every step keeps the bridge side.
LEMMA BridgeSidePreserved ==
    ASSUME TypeOK, ShutdownInv, BridgeSide, [Next]_vars
    PROVE  BridgeSide'
<1> USE IdsAreNaturals
<1>1. CASE UNCHANGED vars
  BY <1>1, StutterSide DEF vars, bridgeVars, runtimeVars
<1>2. ASSUME NEW r \in Reads, ReadCall(r) PROVE BridgeSide'
  <2>1. CASE ReadPreflightFails(r)
    BY <2>1, StutterSide DEF ReadPreflightFails, Refuse, bridgeVars
  <2>2. CASE ReadQuotaFails(r)
    BY <2>2, StutterSide DEF ReadQuotaFails, ReserveFails, Refuse
  <2>3. CASE ReadSubmitFails(r)
    <3>1. nextId' = nextId + 1 /\ nextId \in Nat
      BY <2>3 DEF ReadSubmitFails, ReserveAndReturn, TypeOK, BridgeTypeOK
    <3> QED
      BY <2>3, <3>1 DEF ReadSubmitFails, ReserveAndReturn, Refuse, BridgeSide,
                        FreshInv, ChunkInv, PlaceInv, BatchInv, CompletedInv
  <2>4. CASE ReadAccepted(r)
    <3>1. PICK id \in OpIds : /\ Reserve(id)
                              /\ owner' = [owner EXCEPT ![id] = "whole"]
                              /\ pendingReads' = [pendingReads EXCEPT ![id] = r]
      BY <2>4 DEF ReadAccepted
    <3>2. InBatch = {} /\ phase' = phase /\ batch' = batch
      BY <2>4 DEF ReadAccepted, ShutdownInv
    <3>3. phase[id] = "idle"
      BY <3>1 DEF Reserve, BridgeSide, FreshInv, TypeOK, BridgeTypeOK
    <3>4. \A other \in OpIds : other # id =>
            /\ owner'[other] = owner[other]
            /\ phase'[other] = phase[other]
            /\ pendingReads'[other] = pendingReads[other]
      BY <3>1, <3>2 DEF TypeOK
    <3>5. owner'[id] = "whole"
      BY <3>1 DEF TypeOK
    <3> QED
      BY <3>1, <3>2, <3>3, <3>4, <3>5, ReserveSide
  <2> QED
    BY <1>2, <2>1, <2>2, <2>3, <2>4 DEF ReadCall
<1>3. CASE RunJob
  BY <1>3, StutterSide DEF RunJob, bridgeVars
<1>4. CASE ChunkUser
  <2>1. ASSUME NEW id \in OpIds, Reserve(id), boa = "idle", UNCHANGED <<batch, pendingReads>>,
               NEW kind \in {"reader", "stream"}, owner' = [owner EXCEPT ![id] = kind],
               \/ phase' = [phase EXCEPT ![id] = "inflight"]
               \/ UNCHANGED phase
        PROVE  BridgeSide'
    <3>1. pendingReads[id] = NoRead
      BY <2>1 DEF Reserve, BridgeSide, FreshInv, TypeOK, BridgeTypeOK
    <3>2. owner'[id] = kind /\ InBatch = {}
      BY <2>1 DEF TypeOK, ShutdownInv
    <3>3. \A other \in OpIds : other # id =>
            owner'[other] = owner[other] /\ phase'[other] = phase[other]
      BY <2>1 DEF TypeOK
    <3> QED
      BY <2>1, <3>1, <3>2, <3>3, ReserveSide
  <2>2. CASE StreamOpens
    BY <2>1, <2>2 DEF StreamOpens, Outside, chunkUserUnchanged
  <2>3. CASE ReaderStarts
    <3>1. CASE PoolAccepts
      BY <2>1, <2>3, <3>1 DEF ReaderStarts, Outside, chunkUserUnchanged
    <3>2. CASE ~PoolAccepts
      <4>1. nextId' = nextId + 1 /\ nextId \in Nat
        BY <2>3, <3>2 DEF ReaderStarts, ReserveAndReturn, TypeOK, BridgeTypeOK
      <4>2. UNCHANGED <<tokens, order, chunkRes, bridgeShut, batch, chunkQueue,
                        phase, pendingReads, owner, completed, completions>>
        BY <2>3, <3>2 DEF ReaderStarts, ReserveAndReturn, chunkUserUnchanged
      <4> QED
        BY <4>1, <4>2 DEF BridgeSide, FreshInv, ChunkInv, PlaceInv, BatchInv, CompletedInv
    <3> QED
      BY <3>1, <3>2
  <2>4. ASSUME NEW id \in OpIds, NextChunk(id) PROVE BridgeSide'
    <3>1. id \in tokens /\ owner[id] # "whole"
      BY <2>4 DEF NextChunk, BridgeSide, ChunkInv
    <3>2. CASE PoolAccepts
      <4>1. phase' = [phase EXCEPT ![id] = "inflight"]
        BY <2>4, <3>2 DEF NextChunk
      <4>2. UNCHANGED <<nextId, tokens, order, chunkRes, bridgeShut, batch,
                        chunkQueue, pendingReads, owner, completed, completions>>
        BY <2>4, <3>2 DEF NextChunk, bridgeVars, chunkUserUnchanged
      <4> QED
        BY <3>1, <4>1, <4>2 DEF BridgeSide, FreshInv, ChunkInv, PlaceInv, BatchInv, CompletedInv, TypeOK
    <3>3. CASE ~PoolAccepts
      BY <2>4, <3>1, <3>3, UnreserveSide DEF NextChunk, chunkUserUnchanged
    <3> QED
      BY <3>2, <3>3
  <2>5. ASSUME NEW id \in OpIds, StreamIdles(id) PROVE BridgeSide'
    BY <2>5 DEF StreamIdles, bridgeVars, chunkUserUnchanged, BridgeSide, FreshInv,
                ChunkInv, PlaceInv, BatchInv, CompletedInv, TypeOK
  <2>6. ASSUME NEW id \in OpIds,
               ChunkUserFinishes(id) \/ ChunkUserAborts(id) \/ StreamCancels(id)
        PROVE  BridgeSide'
    <3>1. Ends(id)
      BY <2>6 DEF ChunkUserFinishes, ChunkUserAborts, StreamCancels
    <3> QED
      BY <3>1, UnreserveSide DEF Ends, chunkUserUnchanged
  <2> QED
    BY <1>4, <2>2, <2>3, <2>4, <2>5, <2>6 DEF ChunkUser
<1>5. CASE Poll
  <2>1. CASE PollChunks
    <3> DEFINE readers == {id \in QueuedChunks : owner[id] = "reader"}
               drained == WithinBudget(readers) \cup (QueuedChunks \ readers)
    <3>1. /\ phase' = [id \in OpIds |-> IF id \in drained THEN "landed" ELSE phase[id]]
          /\ TakeChunks(drained)
          /\ UNCHANGED <<batch, pendingReads, owner>>
      BY <2>1 DEF PollChunks
    <3>2. \A id \in drained : chunkQueue[id] > 0
      BY DEF WithinBudget, QueuedChunks
    <3> HIDE DEF drained
    <3>3. \A id \in OpIds : chunkQueue'[id] = 0 \/ chunkQueue'[id] = chunkQueue[id]
      BY <3>1 DEF TakeChunks
    <3>4. UNCHANGED <<nextId, tokens, order, chunkRes, bridgeShut, completed, completions>>
      BY <3>1 DEF TakeChunks
    <3>5. \A id \in OpIds : chunkQueue[id] \in Nat
      BY DEF TypeOK, BridgeTypeOK
    <3> QED
      BY <3>1, <3>2, <3>3, <3>4, <3>5
      DEF BridgeSide, FreshInv, ChunkInv, PlaceInv, BatchInv, CompletedInv
  <2>2. CASE PollTake
    <3>1. /\ order' = order \ InOrderPrefix
          /\ batch' = [id \in OpIds |->
                         IF id \in InOrderPrefix THEN completions[id] ELSE "none"]
          /\ UNCHANGED <<nextId, tokens, chunkRes, bridgeShut, chunkQueue, phase,
                         pendingReads, owner>>
      BY <2>2 DEF PollTake, TakeCompletions
    <3>2. InBatch = {}
      BY <2>2 DEF PollTake, ShutdownInv
    <3>3. \A id \in InOrderPrefix : id \in order \ chunkRes /\ id \in completed
      <4>1. \A id \in order : id <= id
        BY DEF TypeOK, BridgeTypeOK
      <4> QED
        BY <4>1 DEF InOrderPrefix
    <3>4. \A id \in OpIds : batch[id] = "none"
      BY <3>2 DEF InBatch
    <3>5. FreshInv'
      BY <3>1, <3>3 DEF BridgeSide, FreshInv
    <3>6. ChunkInv'
      BY <3>1 DEF BridgeSide, ChunkInv
    <3>7. PlaceInv'
      BY <3>1, <3>3, <3>4 DEF BridgeSide, PlaceInv, CompletedInv
    <3>8. BatchInv'
      BY <3>1 DEF BatchInv, InOrderPrefix
    <3>9. CompletedInv'
      BY <2>2 DEF PollTake, TakeCompletions, BridgeSide, CompletedInv, TypeOK, BridgeTypeOK
    <3> QED
      BY <3>5, <3>6, <3>7, <3>8, <3>9 DEF BridgeSide
  <2>3. CASE SettleOne
    <3>1. PICK id \in InBatch :
            /\ Unreserve(id)
            /\ batch' = [batch EXCEPT ![id] = "none"]
            /\ IF pendingReads[id] = NoRead
               THEN UNCHANGED pendingReads
               ELSE pendingReads' = [pendingReads EXCEPT ![id] = NoRead]
      BY <2>3 DEF SettleOne
    <3>2. id \in OpIds
      BY <3>1 DEF InBatch
    <3>3. pendingReads' = [pendingReads EXCEPT ![id] = NoRead]
      BY <3>1 DEF TypeOK
    <3>4. UNCHANGED <<phase, owner>>
      BY <2>3 DEF SettleOne
    <3> QED
      BY <3>1, <3>2, <3>3, <3>4, UnreserveSide
  <2>4. CASE PollEnds
    BY <2>4, StutterSide DEF PollEnds, bridgeVars
  <2> QED
    BY <1>5, <2>1, <2>2, <2>3, <2>4 DEF Poll
<1>6. CASE Shutdown
  <2>1. CASE CloseFlag
    BY <2>1, StutterSide DEF CloseFlag, bridgeVars
  <2>2. CASE CloseBridge
    <3>1. /\ tokens' = {} /\ order' = {} /\ chunkRes' = {} /\ bridgeShut' = TRUE
          /\ chunkQueue' = [id \in OpIds |-> 0] /\ completed' = {}
          /\ UNCHANGED <<nextId, batch, phase, pendingReads, owner>>
      BY <2>2 DEF CloseBridge, ShutdownBridge
    <3> QED
      BY <3>1 DEF BridgeSide, FreshInv, ChunkInv, PlaceInv, BatchInv, CompletedInv
  <2> QED
    BY <1>6, <2>1, <2>2 DEF Shutdown
<1>7. ASSUME NEW w \in Workers, Worker(w) PROVE BridgeSide'
  <2>1. CASE WorkerTake(w)
    BY <2>1, StutterSide DEF WorkerTake, bridgeVars
  <2>2. CASE WorkerPush(w)
    <3> DEFINE id == worker[w].op
    <3>1. id \in OpIds
      BY <2>2 DEF WorkerPush, TypeOK, Executing, Idle
    <3>2. UNCHANGED <<phase, batch, pendingReads, owner>>
      BY <2>2 DEF WorkerPush
    <3>3. CASE owner[id] = "whole"
      <4>1. PushWhole(id, worker[w].outcome) /\ worker[w].outcome # "none"
        <5>1. worker[w] \in Executing
          BY <2>2 DEF WorkerPush, TypeOK
        <5>2. worker[w].outcome # "none"
          BY <5>1 DEF Executing, Outcomes
        <5> QED
          BY <2>2, <3>3, <5>2 DEF WorkerPush
      <4>2. CompletedInv'
        BY <3>1, <4>1, PushWholeSide DEF BridgeSide
      <4>3. UNCHANGED <<nextId, tokens, order, chunkRes, bridgeShut, chunkQueue>>
        BY <4>1 DEF PushWhole
      <4> QED
        BY <3>2, <4>2, <4>3 DEF BridgeSide, FreshInv, ChunkInv, PlaceInv, BatchInv
    <3>4. CASE owner[id] # "whole"
      <4>1. PushChunk(id)
        BY <2>2, <3>4 DEF WorkerPush
      <4> HIDE DEF id
      <4>2. UNCHANGED <<nextId, tokens, order, bridgeShut, completed, completions>>
        BY <4>1 DEF PushChunk
      <4>3. CASE id \notin tokens \/ IsShutdown
        BY <3>2, <4>1, <4>2, <4>3, StutterSide DEF PushChunk, PushIsStale
      <4>4. CASE id \in tokens /\ ~IsShutdown
        <5>1. chunkQueue' = [chunkQueue EXCEPT ![id] = @ + 1] /\ chunkRes' = chunkRes \cup {id}
          BY <4>1, <4>4 DEF PushChunk, PushIsStale
        <5>2. \A other \in OpIds : other # id => chunkQueue'[other] = chunkQueue[other]
          BY <5>1 DEF TypeOK, BridgeTypeOK
        <5>3. FreshInv'
          BY <3>2, <4>2, <4>4, <5>1, <5>2 DEF BridgeSide, FreshInv
        <5>4. ChunkInv'
          BY <3>2, <3>4, <4>2, <5>1, <5>2 DEF BridgeSide, ChunkInv
        <5>5. PlaceInv' /\ BatchInv' /\ CompletedInv'
          BY <3>2, <4>2, <5>1 DEF BridgeSide, PlaceInv, BatchInv, CompletedInv
        <5> QED
          BY <5>3, <5>4, <5>5 DEF BridgeSide
      <4> QED
        BY <4>3, <4>4
    <3> QED
      BY <3>3, <3>4
  <2> QED
    BY <1>7, <2>1, <2>2 DEF Worker
<1> QED
  BY <1>1, <1>2, <1>3, <1>4, <1>5, <1>6, <1>7 DEF Next
-----------------------------------------------------------------------------
(* The call side.                                                           *)

callVars == <<promise, opOf, result, jobs, pendingReads>>

AcceptStep(r) ==
    /\ promise[r] = "none"
    /\ nextId \in OpIds
    /\ nextId' = nextId + 1
    /\ pendingReads' = [pendingReads EXCEPT ![nextId] = r]
    /\ opOf' = [opOf EXCEPT ![r] = nextId]
    /\ promise' = [promise EXCEPT ![r] = "pending"]
    /\ UNCHANGED <<jobs, result>>

\* What a step can do to the promises and the jobs.
CallStep ==
    \/ nextId' \in {nextId, nextId + 1} /\ UNCHANGED callVars
    \/ \E r \in Reads :
          /\ promise[r] = "none" /\ Refuse(r)
          /\ nextId' \in {nextId, nextId + 1}
    \/ \E r \in Reads : AcceptStep(r)
    \/ RunJob
    \/ SettleOne

\* There are no other steps.
LEMMA OnlyCallSteps ==
    ASSUME TypeOK, [Next]_vars
    PROVE  CallStep
<1>1. CASE UNCHANGED vars
  BY <1>1 DEF vars, bridgeVars, runtimeVars, CallStep, callVars
<1>2. ASSUME NEW r \in Reads, ReadCall(r) PROVE CallStep
  <2>1. CASE ReadPreflightFails(r) \/ ReadQuotaFails(r) \/ ReadSubmitFails(r)
    BY <2>1 DEF ReadPreflightFails, ReadQuotaFails, ReadSubmitFails, ReserveFails,
                ReserveAndReturn, bridgeVars, CallStep
  <2>2. CASE ReadAccepted(r)
    <3>1. AcceptStep(r)
      BY <2>2 DEF ReadAccepted, Reserve, AcceptStep
    <3> QED
      BY <3>1 DEF CallStep
  <2> QED
    BY <1>2, <2>1, <2>2 DEF ReadCall
<1>3. CASE RunJob
  BY <1>3 DEF CallStep
<1>4. CASE ChunkUser
  <2>1. nextId' \in {nextId, nextId + 1}
    BY <1>4 DEF ChunkUser, StreamOpens, ReaderStarts, NextChunk, StreamIdles,
                ChunkUserFinishes, ChunkUserAborts, StreamCancels, Ends, Reserve,
                ReserveAndReturn, Unreserve, bridgeVars
  <2>2. UNCHANGED callVars
    BY <1>4 DEF ChunkUser, StreamOpens, ReaderStarts, NextChunk, StreamIdles,
                ChunkUserFinishes, ChunkUserAborts, StreamCancels, Ends,
                chunkUserUnchanged, callVars
  <2> QED
    BY <2>1, <2>2 DEF CallStep
<1>5. CASE Poll
  BY <1>5 DEF Poll, PollChunks, TakeChunks, PollTake, TakeCompletions, PollEnds,
              bridgeVars, CallStep, callVars
<1>6. CASE Shutdown
  BY <1>6 DEF Shutdown, CloseFlag, CloseBridge, ShutdownBridge, bridgeVars,
              CallStep, callVars
<1>7. ASSUME NEW w \in Workers, Worker(w) PROVE CallStep
  BY <1>7 DEF Worker, WorkerTake, WorkerPush, PushWhole, PushChunk, bridgeVars,
              CallStep, callVars
<1> QED
  BY <1>1, <1>2, <1>3, <1>4, <1>5, <1>6, <1>7 DEF Next

\* The job queue as a sequence.
LEMMA AppendFacts ==
    ASSUME NEW S, NEW s \in Seq(S), NEW e
    PROVE  /\ Len(Append(s, e)) = Len(s) + 1
           /\ \A i \in 1 .. Len(s) : Append(s, e)[i] = s[i]
           /\ Append(s, e)[Len(s) + 1] = e
OBVIOUS

LEMMA TailFacts ==
    ASSUME NEW S, NEW s \in Seq(S), s # << >>
    PROVE  /\ Len(s) >= 1
           /\ Head(s) = s[1]
           /\ Tail(s) \in Seq(S)
           /\ Len(Tail(s)) = Len(s) - 1
           /\ \A i \in 1 .. Len(s) - 1 : Tail(s)[i] = s[i + 1]
OBVIOUS

\* The types the call side needs.
CallTyped ==
    /\ nextId \in Nat
    /\ jobs \in Seq(Job)
    /\ Len(jobs) \in Nat
    /\ \A i \in 1 .. Len(jobs) : jobs[i].read \in Reads
    /\ promise \in [Reads -> {"none", "pending"} \cup Settled]
    /\ result \in [Reads -> Results]
    /\ opOf \in [Reads -> OpIds \cup {0}]
    /\ \A r \in Reads : opOf[r] \in Nat
    /\ pendingReads \in [OpIds -> Reads \cup {NoRead}]

\* They follow from the type invariant.
LEMMA CallTypes ==
    ASSUME TypeOK PROVE CallTyped
<1>1. /\ nextId \in Nat
      /\ jobs \in Seq(Job)
      /\ Len(jobs) \in Nat
      /\ promise \in [Reads -> {"none", "pending"} \cup Settled]
      /\ result \in [Reads -> Results]
      /\ opOf \in [Reads -> OpIds \cup {0}]
      /\ pendingReads \in [OpIds -> Reads \cup {NoRead}]
  BY DEF TypeOK, BridgeTypeOK
<1>2. \A i \in 1 .. Len(jobs) : jobs[i] \in Job
  BY <1>1
<1>3. \A i \in 1 .. Len(jobs) : jobs[i].read \in Reads
  BY <1>2 DEF Job
<1>4. \A r \in Reads : opOf[r] \in Nat
  BY <1>1, IdsAreNaturals
<1> QED
  BY <1>1, <1>3, <1>4 DEF CallTyped

\* A job is queued for a read that has none.
LEMMA AppendJob ==
    ASSUME CallTyped, JobsInv, OrderInv, NEW e,
           Len(jobs') = Len(jobs) + 1,
           \A i \in 1 .. Len(jobs) : jobs'[i] = jobs[i],
           jobs'[Len(jobs) + 1] = e,
           \A i \in 1 .. Len(jobs) :
               /\ jobs[i].read # e.read
               /\ promise'[jobs[i].read] = promise[jobs[i].read]
               /\ result'[jobs[i].read] = result[jobs[i].read]
               /\ opOf'[jobs[i].read] = opOf[jobs[i].read],
           promise'[e.read] = "pending",
           \/ result'[e.read] = "none" /\ opOf'[e.read] = 0 /\ e.does = "reject"
           \/ result'[e.read] = "ready" /\ e.does \in {"resolve", "reject"}
           \/ result'[e.read] = "failed" /\ e.does = "queueReject",
           result'[e.read] # "none" =>
               \A i \in 1 .. Len(jobs) : Side(i) # "none" => Op(i) < opOf'[e.read]
    PROVE  JobsInv' /\ OrderInv'
<1>1. /\ Len(jobs) \in Nat
      /\ \A i \in 1 .. Len(jobs') : i \in 1 .. Len(jobs) \/ i = Len(jobs) + 1
      /\ \A i \in 1 .. Len(jobs) : i < Len(jobs) + 1 /\ ~(Len(jobs) + 1 < i)
  BY DEF CallTyped
<1>2. \A i \in 1 .. Len(jobs) :
        /\ Side(i)' = Side(i) /\ Op(i)' = Op(i)
        /\ First(i)' = First(i) /\ Second(i)' = Second(i)
  BY DEF Side, Op, First, Second
<1>. PICK n \in Nat : n = Len(jobs) + 1
  BY <1>1
<1>3. /\ Side(n)' = result'[e.read] /\ Op(n)' = opOf'[e.read]
      /\ ~Second(n)'
      /\ First(n)' <=> result'[e.read] # "none"
  BY DEF Side, Op, First, Second
<1>4. JobsInv'
  <2> SUFFICES ASSUME NEW i \in 1 .. Len(jobs')
               PROVE  /\ promise'[jobs'[i].read] = "pending"
                      /\ \A j \in 1 .. Len(jobs') : jobs'[i].read = jobs'[j].read => i = j
                      /\ Side(i)' = "none" => Op(i)' = 0 /\ jobs'[i].does = "reject"
                      /\ Side(i)' = "ready" => jobs'[i].does \in {"resolve", "reject"}
                      /\ Side(i)' = "failed" => jobs'[i].does \in {"reject", "queueReject"}
    BY DEF JobsInv
  <2>1. CASE i \in 1 .. Len(jobs)
    BY <1>1, <1>2, <2>1 DEF JobsInv
  <2>2. CASE i = n
    BY <1>1, <1>3, <2>2
  <2> QED
    BY <1>1, <2>1, <2>2
<1>5. OrderInv'
  <2> SUFFICES ASSUME NEW i \in 1 .. Len(jobs'), NEW j \in 1 .. Len(jobs')
               PROVE  /\ i < j /\ First(i)' /\ First(j)' => Op(i)' < Op(j)'
                      /\ i < j /\ Second(i)' /\ Second(j)' => Op(i)' < Op(j)'
                      /\ Second(i)' /\ First(j)' => Op(i)' < Op(j)'
    BY DEF OrderInv
  <2>1. CASE i \in 1 .. Len(jobs) /\ j \in 1 .. Len(jobs)
    BY <1>2, <2>1 DEF OrderInv
  <2>2. CASE i \in 1 .. Len(jobs) /\ j = n
    <3>1. First(i) \/ Second(i) => Side(i) # "none"
      BY DEF First, Second
    <3> QED
      BY <1>2, <1>3, <2>2, <3>1
  <2>3. CASE i = n
    BY <1>1, <1>3, <2>3
  <2> QED
    BY <1>1, <2>1, <2>2, <2>3
<1> QED
  BY <1>4, <1>5

\* A refused call has no operation and one job, which rejects it.
LEMMA RefuseSide ==
    ASSUME TypeOK, CallSide, NEW r \in Reads, promise[r] = "none", Refuse(r),
           nextId' \in {nextId, nextId + 1}
    PROVE  CallSide'
<1>0. CallTyped
  BY CallTypes
<1> USE <1>0 DEF CallTyped, CallSide, Side, Op
<1>1. /\ promise' = [promise EXCEPT ![r] = "pending"]
      /\ UNCHANGED <<pendingReads, opOf, result>>
  BY DEF Refuse
<1>2. /\ Len(jobs') = Len(jobs) + 1
      /\ \A i \in 1 .. Len(jobs) : jobs'[i] = jobs[i]
      /\ jobs'[Len(jobs) + 1] = RejectJob(r)
  BY AppendFacts DEF Refuse
<1>3. RejectJob(r).read = r /\ RejectJob(r).does = "reject"
  BY DEF RejectJob
<1>4. opOf[r] = 0 /\ result[r] = "none" /\ \A i \in 1 .. Len(jobs) : jobs[i].read # r
  BY DEF CallInv, JobsInv
<1>5. CallInv'
  BY <1>1, <1>4 DEF CallInv, Settled
<1>6. TableInv'
  BY <1>1, <1>4 DEF TableInv
<1>7. JobsInv' /\ OrderInv'
  BY <1>1, <1>2, <1>3, <1>4, AppendJob
<1>8. ServedInv'
  <2>1. ASSUME NEW q \in Reads, promise'[q] = "pending"
        PROVE  \/ \E i \in 1 .. Len(jobs') : jobs'[i].read = q
               \/ opOf'[q] > 0 /\ pendingReads'[opOf'[q]] = q
    <3>1. CASE q = r
      BY <1>2, <1>3, <3>1
    <3>2. CASE q # r
      BY <1>1, <1>2, <2>1, <3>2 DEF ServedInv
    <3> QED
      BY <3>1, <3>2
  <2> QED
    BY <2>1 DEF ServedInv
<1> QED
  BY <1>5, <1>6, <1>7, <1>8

\* An accepted call enters the table under the newest operation.
LEMMA AcceptSide ==
    ASSUME TypeOK, BridgeSide, CallSide, NEW r \in Reads, AcceptStep(r)
    PROVE  CallSide'
<1>0. CallTyped
  BY CallTypes
<1> USE <1>0, IdsAreNaturals DEF CallTyped, CallSide, Side, Op
<1> DEFINE id == nextId
<1>1. /\ promise' = [promise EXCEPT ![r] = "pending"]
      /\ opOf' = [opOf EXCEPT ![r] = id]
      /\ pendingReads' = [pendingReads EXCEPT ![id] = r]
      /\ id \in OpIds /\ nextId' = id + 1
      /\ UNCHANGED <<jobs, result>>
  BY DEF AcceptStep
<1>2. opOf[r] = 0 /\ result[r] = "none" /\ \A i \in 1 .. Len(jobs) : jobs[i].read # r
  BY DEF AcceptStep, CallInv, JobsInv
<1>3. \A other \in OpIds : pendingReads[other] # r /\ opOf[r] # other
  <2>1. r # NoRead /\ promise[r] = "none"
    BY RuntimeAssumption DEF AcceptStep
  <2>2. \A other \in OpIds : pendingReads[other] # r
    <3> HIDE DEF Side, Op
    <3> QED
      BY <2>1 DEF TableInv
  <2>3. \A other \in OpIds : opOf[r] # other
    BY <1>2
  <2> QED
    BY <2>2, <2>3
<1>4. CallInv'
  BY <1>1, <1>2 DEF CallInv, Settled
<1>5. TableInv'
  BY <1>1, <1>2, <1>3 DEF TableInv
<1>6. JobsInv'
  BY <1>1, <1>2 DEF JobsInv
<1>7. ServedInv'
  <2>1. \A q \in Reads : q # r => opOf[q] # id
    BY DEF CallInv
  <2> QED
    BY <1>1, <2>1 DEF ServedInv
<1>8. OrderInv'
  BY <1>1, <1>2 DEF OrderInv, First, Second
<1> QED
  BY <1>4, <1>5, <1>6, <1>7, <1>8

\* The delivery of one result, as the calls see it.
DeliverStep(id) ==
    /\ id \in OpIds /\ pendingReads[id] # NoRead
    /\ pendingReads' = [pendingReads EXCEPT ![id] = NoRead]
    /\ \E outcome \in Outcomes :
          /\ \E does \in JobsFor(outcome) :
                jobs' = Append(jobs, [read |-> pendingReads[id], does |-> does])
          /\ result' = [result EXCEPT ![pendingReads[id]] =
                          IF outcome = "ok" THEN "ready" ELSE "failed"]
    /\ UNCHANGED <<promise, opOf, nextId>>

\* When a result is delivered, every earlier call has its result.
EarlierDelivered(id) ==
    \A q \in Reads : 0 < opOf[q] /\ opOf[q] < id => result[q] # "none"

\* The oldest completion of the batch has no older read outstanding.
LEMMA DeliveredInOrder ==
    ASSUME TypeOK, BridgeSide, CallSide, ~bridgeShut, NEW id \in InBatch,
           \A other \in InBatch : id <= other, pendingReads[id] # NoRead
    PROVE  EarlierDelivered(id)
<1>1. CallTyped
  BY CallTypes
<1> SUFFICES ASSUME NEW q \in Reads, 0 < opOf[q], opOf[q] < id, result[q] = "none"
             PROVE  FALSE
  BY DEF EarlierDelivered
<1> DEFINE earlier == opOf[q]
<1>2. earlier \in OpIds /\ id \in OpIds
  BY <1>1 DEF CallTyped, InBatch
<1>3. promise[q] = "pending"
  BY <1>1 DEF CallSide, CallInv, CallTyped
<1>4. pendingReads[earlier] = q
  BY <1>1, <1>3 DEF CallSide, ServedInv, JobsInv, Side, Op, CallTyped
<1>5. pendingReads[earlier] # NoRead
  BY <1>4, RuntimeAssumption
<1>6. owner[earlier] = "whole" /\ (earlier \in order \/ batch[earlier] # "none")
  BY <1>2, <1>5 DEF BridgeSide, PlaceInv
<1>7. CASE batch[earlier] # "none"
  <2>1. earlier \in InBatch
    BY <1>2, <1>7 DEF InBatch
  <2>2. id <= earlier /\ earlier < id
    BY <2>1
  <2>3. id \in Nat /\ earlier \in Nat
    BY <1>2, IdsAreNaturals
  <2> HIDE DEF earlier
  <2> QED
    BY <2>2, <2>3
<1>8. CASE earlier \in order
  <2>1. earlier \in order \ chunkRes
    BY <1>2, <1>6, <1>8 DEF BridgeSide, ChunkInv
  <2>2. id < earlier
    BY <1>2, <2>1 DEF BridgeSide, BatchInv, InBatch
  <2>3. id \in Nat /\ earlier \in Nat /\ earlier < id
    BY <1>2, IdsAreNaturals
  <2> HIDE DEF earlier
  <2> QED
    BY <2>2, <2>3
<1> QED
  BY <1>6, <1>7, <1>8

\* What SettleOne does to the calls.
LEMMA SettleIsDelivery ==
    ASSUME TypeOK, ShutdownInv, BridgeSide, CallSide, SettleOne
    PROVE  \/ UNCHANGED callVars /\ nextId' = nextId
           \/ \E id \in OpIds : DeliverStep(id) /\ EarlierDelivered(id)
<1>1. PICK id \in InBatch :
        /\ \A other \in InBatch : id <= other
        /\ Unreserve(id)
        /\ IF pendingReads[id] = NoRead
           THEN UNCHANGED <<pendingReads, jobs, result>>
           ELSE /\ pendingReads' = [pendingReads EXCEPT ![id] = NoRead]
                /\ \E does \in JobsFor(batch[id]) :
                      jobs' = Append(jobs, [read |-> pendingReads[id], does |-> does])
                /\ result' = [result EXCEPT ![pendingReads[id]] =
                                IF batch[id] = "ok" THEN "ready" ELSE "failed"]
  BY DEF SettleOne
<1>2. UNCHANGED <<promise, opOf>> /\ nextId' = nextId
  BY <1>1 DEF SettleOne, Unreserve
<1>3. id \in OpIds /\ batch[id] \in Outcomes
  BY <1>1 DEF InBatch, TypeOK
<1>4. CASE pendingReads[id] = NoRead
  BY <1>1, <1>2, <1>4 DEF callVars
<1>5. CASE pendingReads[id] # NoRead
  <2>1. DeliverStep(id)
    BY <1>1, <1>2, <1>3, <1>5 DEF DeliverStep
  <2>2. ~bridgeShut
    BY SettlesOnlyBefore DEF ShutdownInv
  <2>3. EarlierDelivered(id)
    BY <1>1, <1>5, <2>2, DeliveredInOrder
  <2> QED
    BY <1>3, <2>1, <2>3
<1> QED
  BY <1>4, <1>5

\* A delivery moves the read from the table to the end of the job queue.
LEMMA DeliverSide ==
    ASSUME TypeOK, CallSide, NEW id \in OpIds, DeliverStep(id), EarlierDelivered(id)
    PROVE  CallSide'
<1>0. CallTyped
  BY CallTypes
<1> USE <1>0, IdsAreNaturals DEF CallTyped, CallSide, Side, Op
<1>1. PICK r \in Reads : r = pendingReads[id]
  BY DEF DeliverStep
<1>2. PICK outcome \in Outcomes : \E does \in JobsFor(outcome) :
        /\ jobs' = Append(jobs, [read |-> r, does |-> does])
        /\ result' = [result EXCEPT ![r] = IF outcome = "ok" THEN "ready" ELSE "failed"]
  BY <1>1 DEF DeliverStep
<1>job. PICK does \in JobsFor(outcome) :
        /\ jobs' = Append(jobs, [read |-> r, does |-> does])
        /\ result' = [result EXCEPT ![r] = IF outcome = "ok" THEN "ready" ELSE "failed"]
  BY <1>2
<1>3. /\ pendingReads' = [pendingReads EXCEPT ![id] = NoRead]
      /\ UNCHANGED <<promise, opOf, nextId>>
  BY DEF DeliverStep
<1>4. opOf[r] = id /\ promise[r] = "pending" /\ result[r] = "none"
  BY <1>1 DEF DeliverStep, TableInv
<1>5. \A i \in 1 .. Len(jobs) : jobs[i].read # r
  BY <1>4 DEF JobsInv
<1>6. \/ result'[r] = "ready" /\ does \in {"resolve", "reject"}
      \/ result'[r] = "failed" /\ does = "queueReject"
  BY <1>job DEF JobsFor
<1>7. /\ Len(jobs') = Len(jobs) + 1
      /\ \A i \in 1 .. Len(jobs) : jobs'[i] = jobs[i]
      /\ jobs'[Len(jobs) + 1] = [read |-> r, does |-> does]
  BY <1>job, AppendFacts
<1>8. CallInv'
  <2>1. \A q \in Reads : q # r => result'[q] = result[q]
    BY <1>job
  <2>2. \A q \in Reads : 0 < opOf[q] /\ opOf[q] < opOf[r] => result[q] # "none" /\ q # r
    BY <1>4 DEF EarlierDelivered
  <2> QED
    BY <1>3, <1>4, <1>6, <2>1, <2>2 DEF CallInv
<1>9. TableInv'
  BY <1>job, <1>3, <1>4 DEF TableInv
<1>10. JobsInv' /\ OrderInv'
  <2>1. \A i \in 1 .. Len(jobs) : Side(i) # "none" => Op(i) < opOf[r]
    <3> SUFFICES ASSUME NEW i \in 1 .. Len(jobs), result[jobs[i].read] # "none",
                        ~(opOf[jobs[i].read] < opOf[r])
                 PROVE  FALSE
      OBVIOUS
    <3>1. opOf[jobs[i].read] # opOf[r]
      BY <1>4, <1>5 DEF CallInv
    <3>2. opOf[r] < opOf[jobs[i].read]
      BY <3>1
    <3> QED
      BY <1>4, <3>2 DEF CallInv
  <2> DEFINE e == [read |-> r, does |-> does]
  <2>2. e.read = r /\ e.does = does
    OBVIOUS
  <2>3. \A i \in 1 .. Len(jobs) :
          /\ promise'[jobs[i].read] = promise[jobs[i].read]
          /\ result'[jobs[i].read] = result[jobs[i].read]
          /\ opOf'[jobs[i].read] = opOf[jobs[i].read]
    BY <1>job, <1>3, <1>5
  <2> HIDE DEF e
  <2> QED
    BY <1>3, <1>4, <1>5, <1>6, <1>7, <2>1, <2>2, <2>3, AppendJob DEF e
<1>11. ServedInv'
  <2> SUFFICES ASSUME NEW q \in Reads, promise[q] = "pending"
               PROVE  \/ \E i \in 1 .. Len(jobs') : jobs'[i].read = q
                      \/ opOf[q] > 0 /\ pendingReads'[opOf[q]] = q
    BY <1>3 DEF ServedInv
  <2>1. CASE q = r
    <3>1. Len(jobs) + 1 \in 1 .. Len(jobs') /\ jobs'[Len(jobs) + 1].read = r
      BY <1>7
    <3> QED
      BY <2>1, <3>1
  <2>2. CASE q # r
    <3>1. CASE \E i \in 1 .. Len(jobs) : jobs[i].read = q
      BY <1>7, <3>1
    <3>2. CASE opOf[q] > 0 /\ pendingReads[opOf[q]] = q
      BY <1>1, <1>3, <2>2, <3>2
    <3> QED
      BY <3>1, <3>2 DEF ServedInv
  <2> QED
    BY <2>1, <2>2
<1> QED
  BY <1>8, <1>9, <1>10, <1>11

\* The oldest job of the queue, as the calls see it.
SettleStep(r) ==
    /\ jobs # << >> /\ Head(jobs).read = r /\ Head(jobs).does # "queueReject"
    /\ jobs' = Tail(jobs)
    /\ promise' = [promise EXCEPT ![r] =
          IF Head(jobs).does = "resolve" THEN "resolved" ELSE "rejected"]
    /\ UNCHANGED <<pendingReads, opOf, result, nextId>>

RelayStep(r) ==
    /\ jobs # << >> /\ Head(jobs).read = r /\ Head(jobs).does = "queueReject"
    /\ jobs' = Append(Tail(jobs), RejectJob(r))
    /\ UNCHANGED <<pendingReads, opOf, result, promise, nextId>>

\* A job settles its promise or queues the job that does.
LEMMA RunJobIsSettleOrRelay ==
    ASSUME TypeOK, RunJob
    PROVE  \E r \in Reads : SettleStep(r) \/ RelayStep(r)
<1>1. CallTyped
  BY CallTypes
<1>2. jobs # << >> /\ Head(jobs) = jobs[1] /\ Len(jobs) >= 1
  BY <1>1, TailFacts DEF RunJob, CallTyped
<1>3. Head(jobs).read \in Reads
  BY <1>1, <1>2 DEF CallTyped
<1> QED
  BY <1>2, <1>3 DEF RunJob, SettleStep, RelayStep, bridgeVars

\* What jobs do and in which order they come is kept when they move up.
JobsAgree(i, j) ==
    /\ jobs[i].read = jobs[j].read => i = j
    /\ Side(i) = "none" => Op(i) = 0 /\ jobs[i].does = "reject"
    /\ Side(i) = "ready" => jobs[i].does \in {"resolve", "reject"}
    /\ Side(i) = "failed" => jobs[i].does \in {"reject", "queueReject"}
    /\ i < j /\ First(i) /\ First(j) => Op(i) < Op(j)
    /\ i < j /\ Second(i) /\ Second(j) => Op(i) < Op(j)
    /\ Second(i) /\ First(j) => Op(i) < Op(j)

LEMMA JobsMoveUp ==
    ASSUME CallTyped, JobsInv, OrderInv, NEW m \in Nat, m < Len(jobs),
           \A i \in 1 .. m : jobs'[i] = jobs[i + 1], UNCHANGED <<opOf, result>>
    PROVE  \A i, j \in 1 .. m : JobsAgree(i, j)'
<1> SUFFICES ASSUME NEW i \in 1 .. m, NEW j \in 1 .. m
             PROVE  JobsAgree(i, j)'
  OBVIOUS
<1>1. i + 1 \in 1 .. Len(jobs) /\ j + 1 \in 1 .. Len(jobs)
  BY DEF CallTyped
<1>2. JobsAgree(i + 1, j + 1)
  BY <1>1 DEF JobsAgree, JobsInv, OrderInv
<1>3. jobs'[i] = jobs[i + 1] /\ jobs'[j] = jobs[j + 1]
  OBVIOUS
<1>4. /\ i + 1 = j + 1 <=> i = j
      /\ i + 1 < j + 1 <=> i < j
  OBVIOUS
<1> QED
  BY <1>2, <1>3, <1>4 DEF JobsAgree, First, Second, Side, Op

\* Settling removes the head of the queue.
LEMMA SettleSide ==
    ASSUME TypeOK, CallSide, NEW r \in Reads, SettleStep(r)
    PROVE  CallSide'
<1>0. CallTyped
  BY CallTypes
<1> USE <1>0 DEF CallTyped, CallSide, Side, Op
<1>1. /\ Len(jobs) >= 1
      /\ jobs[1].read = r
      /\ Len(jobs') = Len(jobs) - 1
      /\ \A i \in 1 .. Len(jobs') : jobs'[i] = jobs[i + 1] /\ i + 1 \in 1 .. Len(jobs)
  BY TailFacts DEF SettleStep
<1>2. \A i \in 1 .. Len(jobs') : jobs'[i].read # r
  BY <1>1 DEF JobsInv
<1>3. UNCHANGED <<pendingReads, opOf, result, nextId>>
  BY DEF SettleStep
<1>4. /\ \A q \in Reads : q # r => promise'[q] = promise[q]
      /\ promise'[r] \in Settled
      /\ promise[r] = "pending"
  BY <1>1 DEF SettleStep, Settled, JobsInv
<1>5. opOf[r] > 0 => result[r] # "none"
  BY <1>1 DEF JobsInv
<1>6. CallInv'
  BY <1>3, <1>4, <1>5 DEF CallInv, Settled
<1>7. TableInv'
  <2>1. \A id \in OpIds : pendingReads[id] # r
    BY <1>1, RuntimeAssumption, IdsAreNaturals DEF TableInv, JobsInv
  <2> QED
    BY <1>3, <1>4, <2>1 DEF TableInv
<1>8. \A i, j \in 1 .. Len(jobs') : JobsAgree(i, j)'
  <2>1. PICK m \in Nat : m = Len(jobs')
    BY <1>1
  <2>2. m < Len(jobs) /\ \A i \in 1 .. m : jobs'[i] = jobs[i + 1]
    BY <1>1, <2>1
  <2>3. CallTyped /\ JobsInv /\ OrderInv /\ UNCHANGED <<opOf, result>>
    BY <1>3
  <2> HIDE DEF CallTyped, CallSide, Side, Op
  <2>4. \A i, j \in 1 .. m : JobsAgree(i, j)'
    BY <2>2, <2>3, JobsMoveUp
  <2> QED
    BY <2>1, <2>4
<1>9. JobsInv' /\ OrderInv'
  <2>1. \A i \in 1 .. Len(jobs') : promise'[jobs'[i].read] = "pending"
    BY <1>1, <1>2, <1>4 DEF JobsInv
  <2> QED
    BY <1>8, <2>1 DEF JobsInv, OrderInv, JobsAgree
<1>10. ServedInv'
  <2> SUFFICES ASSUME NEW q \in Reads, promise'[q] = "pending"
               PROVE  \/ \E i \in 1 .. Len(jobs') : jobs'[i].read = q
                      \/ opOf[q] > 0 /\ pendingReads[opOf[q]] = q
    BY <1>3 DEF ServedInv
  <2>1. q # r /\ promise[q] = "pending"
    BY <1>4 DEF Settled
  <2>2. CASE \E i \in 1 .. Len(jobs) : jobs[i].read = q
    <3>1. PICK i \in 1 .. Len(jobs) : jobs[i].read = q
      BY <2>2
    <3>2. i # 1
      BY <1>1, <2>1, <3>1
    <3>3. i - 1 \in 1 .. Len(jobs') /\ (i - 1) + 1 = i
      BY <1>1, <3>2
    <3> QED
      BY <1>1, <3>1, <3>3
  <2> QED
    BY <2>1, <2>2 DEF ServedInv
<1> QED
  BY <1>6, <1>7, <1>9, <1>10

\* A failed read's first job moves to the end of the queue as its second.
LEMMA RelaySide ==
    ASSUME TypeOK, CallSide, NEW r \in Reads, RelayStep(r)
    PROVE  CallSide'
<1>0. CallTyped
  BY CallTypes
<1> USE <1>0 DEF CallTyped, CallSide, Side, Op
<1>1. /\ Len(jobs) >= 1
      /\ jobs[1].read = r /\ jobs[1].does = "queueReject"
  BY TailFacts DEF RelayStep
<1>2. PICK n \in Nat : n = Len(jobs)
  OBVIOUS
<1>3. /\ Len(jobs') = n
      /\ \A i \in 1 .. n - 1 : jobs'[i] = jobs[i + 1] /\ i + 1 \in 1 .. n
      /\ jobs'[n].read = r /\ jobs'[n].does = "reject"
  <2>1. /\ Tail(jobs) \in Seq(Job)
        /\ Len(Tail(jobs)) = n - 1
        /\ \A i \in 1 .. n - 1 : Tail(jobs)[i] = jobs[i + 1]
    BY <1>2, TailFacts DEF RelayStep
  <2>2. jobs' = Append(Tail(jobs), RejectJob(r))
    BY DEF RelayStep
  <2>3. /\ Len(jobs') = n
        /\ \A i \in 1 .. n - 1 : jobs'[i] = Tail(jobs)[i]
        /\ jobs'[n] = RejectJob(r)
    BY <1>1, <1>2, <2>1, <2>2, AppendFacts
  <2> QED
    BY <1>1, <1>2, <2>1, <2>3 DEF RejectJob
<1>4. UNCHANGED <<pendingReads, opOf, result, promise, nextId>>
  BY DEF RelayStep
<1>5. result[r] = "failed" /\ opOf[r] > 0 /\ promise[r] = "pending"
  BY <1>1 DEF JobsInv, CallInv, Results
<1>6. \A i \in 1 .. n : i \in 1 .. n - 1 \/ i = n
  BY <1>2
<1>7. \A i, j \in 1 .. n - 1 : JobsAgree(i, j)'
  <2>3. CallTyped /\ JobsInv /\ OrderInv /\ UNCHANGED <<opOf, result>>
    BY <1>4
  <2> HIDE <1>0 DEF CallTyped, CallSide, Side, Op
  <2>1. PICK m \in Nat : m = n - 1
    BY <1>1, <1>2
  <2>2. m < Len(jobs) /\ \A i \in 1 .. m : jobs'[i] = jobs[i + 1]
    BY <1>2, <1>3, <2>1
  <2>4. \A i, j \in 1 .. m : JobsAgree(i, j)'
    BY <2>2, <2>3, JobsMoveUp
  <2> QED
    BY <2>1, <2>4
<1>8. /\ Side(n)' = "failed" /\ Op(n)' = opOf[r]
      /\ Second(n)' /\ ~First(n)'
      /\ First(1) /\ Op(1) = opOf[r]
  BY <1>1, <1>3, <1>4, <1>5 DEF First, Second
<1>9. CallInv' /\ TableInv'
  BY <1>4 DEF CallInv, TableInv
<1>10. \A i \in 1 .. n - 1 :
         /\ First(i)' => opOf[r] < Op(i)'
         /\ Second(i)' => Op(i)' < opOf[r]
  <2> SUFFICES ASSUME NEW i \in 1 .. n - 1
               PROVE  /\ First(i)' => opOf[r] < Op(i)'
                      /\ Second(i)' => Op(i)' < opOf[r]
    OBVIOUS
  <2>1. i + 1 \in 1 .. n /\ 1 \in 1 .. n /\ 1 < i + 1
    BY <1>2
  <2>2. /\ First(i + 1) => Op(1) < Op(i + 1)
        /\ Second(i + 1) => Op(i + 1) < Op(1)
    BY <1>2, <1>8, <2>1 DEF OrderInv
  <2>3. jobs'[i] = jobs[i + 1]
    BY <1>3
  <2> QED
    BY <1>4, <1>8, <2>2, <2>3 DEF First, Second
<1>11. JobsInv'
  <2> SUFFICES ASSUME NEW i \in 1 .. n
               PROVE  /\ promise[jobs'[i].read] = "pending"
                      /\ \A j \in 1 .. n : jobs'[i].read = jobs'[j].read => i = j
                      /\ Side(i)' = "none" => Op(i)' = 0 /\ jobs'[i].does = "reject"
                      /\ Side(i)' = "ready" => jobs'[i].does \in {"resolve", "reject"}
                      /\ Side(i)' = "failed" => jobs'[i].does \in {"reject", "queueReject"}
    BY <1>3, <1>4 DEF JobsInv
  <2>1. \A j \in 1 .. n - 1 : jobs'[j].read # r
    BY <1>1, <1>2, <1>3 DEF JobsInv
  <2>2. CASE i \in 1 .. n - 1
    <3>1. JobsAgree(i, i)'
      BY <1>7, <2>2
    <3>2. \A j \in 1 .. n - 1 : jobs'[i].read = jobs'[j].read => i = j
      BY <1>7, <2>2 DEF JobsAgree
    <3>3. promise[jobs'[i].read] = "pending"
      <4>1. i + 1 \in 1 .. Len(jobs) /\ jobs'[i] = jobs[i + 1]
        BY <1>2, <1>3, <2>2
      <4> HIDE <1>0 DEF CallTyped, Side, Op
      <4> QED
        BY <4>1 DEF JobsInv
    <3>4. \A j \in 1 .. n : jobs'[i].read = jobs'[j].read => i = j
      BY <1>3, <1>6, <2>1, <2>2, <3>2
    <3>5. /\ Side(i)' = "none" => Op(i)' = 0 /\ jobs'[i].does = "reject"
          /\ Side(i)' = "ready" => jobs'[i].does \in {"resolve", "reject"}
          /\ Side(i)' = "failed" => jobs'[i].does \in {"reject", "queueReject"}
      <4> HIDE <1>0 DEF CallTyped, CallSide, Side, Op
      <4> QED
        BY <3>1 DEF JobsAgree
    <3> QED
      BY <3>3, <3>4, <3>5
  <2>3. CASE i = n
    BY <1>3, <1>5, <1>6, <1>8, <2>1, <2>3
  <2> QED
    BY <1>6, <2>2, <2>3
<1>12. OrderInv'
  <2> SUFFICES ASSUME NEW i \in 1 .. n, NEW j \in 1 .. n
               PROVE  /\ i < j /\ First(i)' /\ First(j)' => Op(i)' < Op(j)'
                      /\ i < j /\ Second(i)' /\ Second(j)' => Op(i)' < Op(j)'
                      /\ Second(i)' /\ First(j)' => Op(i)' < Op(j)'
    BY <1>3 DEF OrderInv
  <2>1. CASE i \in 1 .. n - 1 /\ j \in 1 .. n - 1
    BY <1>7, <2>1 DEF JobsAgree
  <2>2. CASE i \in 1 .. n - 1 /\ j = n
    BY <1>8, <1>10, <2>2
  <2>3. CASE i = n /\ j \in 1 .. n - 1
    <3>1. ~(i < j)
      BY <1>2, <2>3
    <3> QED
      BY <1>8, <1>10, <2>3, <3>1
  <2>4. CASE i = n /\ j = n
    BY <1>8, <2>4
  <2> QED
    BY <1>6, <2>1, <2>2, <2>3, <2>4
<1>13. ServedInv'
  <2> SUFFICES ASSUME NEW q \in Reads, promise[q] = "pending",
                      NEW i \in 1 .. n, jobs[i].read = q
               PROVE  \E j \in 1 .. n : jobs'[j].read = q
    BY <1>2, <1>3, <1>4 DEF ServedInv
  <2>1. CASE i = 1
    BY <1>1, <1>2, <1>3, <2>1
  <2>2. CASE i # 1
    <3>1. i - 1 \in 1 .. n - 1 /\ i - 1 \in 1 .. n /\ (i - 1) + 1 = i
      BY <1>2, <2>2
    <3>2. jobs'[i - 1] = jobs[(i - 1) + 1]
      BY <1>3, <3>1
    <3> QED
      BY <3>1, <3>2
  <2> QED
    BY <2>1, <2>2
<1> QED
  BY <1>9, <1>11, <1>12, <1>13

\* Every step keeps the call side.
LEMMA CallSidePreserved ==
    ASSUME TypeOK, ShutdownInv, BridgeSide, CallSide, [Next]_vars
    PROVE  CallSide'
<1>1. CallStep
  BY OnlyCallSteps
<1>2. CASE nextId' \in {nextId, nextId + 1} /\ UNCHANGED callVars
  <2>1. CallTyped
    BY CallTypes
  <2>2. UNCHANGED <<promise, opOf, result, jobs, pendingReads>>
    BY <1>2 DEF callVars
  <2>3. \A r \in Reads : opOf[r] < nextId => opOf[r] < nextId'
    BY <1>2, <2>1 DEF CallTyped
  <2> QED
    BY <2>2, <2>3 DEF CallSide, CallInv, TableInv, JobsInv, ServedInv, OrderInv,
                      First, Second, Side, Op
<1>3. ASSUME NEW r \in Reads, promise[r] = "none", Refuse(r),
             nextId' \in {nextId, nextId + 1}
      PROVE  CallSide'
  BY <1>3, RefuseSide
<1>4. ASSUME NEW r \in Reads, AcceptStep(r) PROVE CallSide'
  BY <1>4, AcceptSide
<1>5. CASE RunJob
  <2>1. PICK r \in Reads : SettleStep(r) \/ RelayStep(r)
    BY <1>5, RunJobIsSettleOrRelay
  <2> QED
    BY <2>1, SettleSide, RelaySide
<1>6. CASE SettleOne
  <2>1. CASE \E id \in OpIds : DeliverStep(id) /\ EarlierDelivered(id)
    BY <2>1, DeliverSide
  <2> QED
    BY <1>2, <1>6, <2>1, SettleIsDelivery
<1> QED
  BY <1>1, <1>2, <1>3, <1>4, <1>5, <1>6 DEF CallStep

-----------------------------------------------------------------------------
(* The theorems.                                                            *)

\* Both halves of the invariant hold in every reachable state.
LEMMA OrderInvariant == Spec => [](BridgeSide /\ CallSide)
<1>1. Init => BridgeSide /\ CallSide
  <2> SUFFICES ASSUME Init PROVE BridgeSide /\ CallSide
    OBVIOUS
  <2>1. BridgeSide
    BY DEF Init, BridgeInit, BridgeSide, FreshInv, ChunkInv, PlaceInv, BatchInv, CompletedInv
  <2>2. Len(jobs) = 0
    BY DEF Init
  <2>3. CallSide
    BY <2>2 DEF Init, BridgeInit, CallSide, CallInv, TableInv, JobsInv, ServedInv,
                OrderInv, Settled
  <2> QED
    BY <2>1, <2>3
<1>2. TypeOK /\ ShutdownInv /\ (BridgeSide /\ CallSide) /\ [Next]_vars
        => (BridgeSide /\ CallSide)'
  BY BridgeSidePreserved, CallSidePreserved
<1> QED
  BY <1>1, <1>2, TypeCorrect, ShutdownInvariant, PTL DEF Spec

\* The head of the queue may settle: the promises that must settle before it
\* have no job behind it.
LEMMA SettleIsAllowed ==
    ASSUME TypeOK, CallSide, NEW r \in Reads, SettleStep(r)
    PROVE  Abstract!Settle(r)
<1>0. CallTyped
  BY CallTypes
<1> USE DEF Side, Op
<1>1. Len(jobs) >= 1 /\ Head(jobs) = jobs[1] /\ 1 \in 1 .. Len(jobs) /\ jobs[1].read = r
  BY <1>0, TailFacts DEF CallTyped, SettleStep
<1>2. /\ promise[r] = "pending"
      /\ result[r] = "none" => opOf[r] = 0 /\ jobs[1].does = "reject"
      /\ result[r] = "ready" => jobs[1].does \in {"resolve", "reject"}
      /\ result[r] = "failed" => jobs[1].does = "reject"
  BY <1>1 DEF CallSide, JobsInv, SettleStep
<1>3. result[r] \in {"none", "ready", "failed"}
  BY <1>0 DEF CallTyped, Results
<1>4. UNCHANGED <<opOf, result>>
  BY DEF SettleStep
<1>5. PICK s \in Settled : /\ s = IF jobs[1].does = "resolve" THEN "resolved" ELSE "rejected"
                           /\ promise' = [promise EXCEPT ![r] = s]
  BY <1>1 DEF SettleStep, Settled
<1>6. ASSUME NEW q \in Reads, 0 < opOf[q], opOf[q] < opOf[r], result[q] # "none",
             result[r] = "ready" => result[q] = "ready"
      PROVE  promise[q] \in Settled
  <2> SUFFICES ASSUME promise[q] = "pending" PROVE FALSE
    BY <1>0, <1>6 DEF CallTyped, CallSide, CallInv
  <2>1. PICK i \in 1 .. Len(jobs) : jobs[i].read = q
    BY <1>0, <1>6, RuntimeAssumption DEF CallSide, ServedInv, TableInv, CallTyped
  <2>2. opOf[q] \in Nat /\ opOf[r] \in Nat /\ i \in Nat
    BY <1>0 DEF CallTyped
  <2>3. i # 1
    BY <1>1, <1>6, <2>1, <2>2
  <2>4. 1 < i
    BY <2>1, <2>2, <2>3
  <2>5. First(i) \/ Second(i)
    BY <1>6, <2>1 DEF First, Second
  <2>6. opOf[r] < opOf[q]
    <3>1. CASE result[r] = "ready"
      BY <1>1, <1>6, <2>1, <2>4, <3>1 DEF CallSide, OrderInv, First, Second
    <3>2. CASE result[r] = "failed"
      <4>1. Second(1)
        BY <1>1, <1>2, <3>2 DEF Second
      <4> QED
        BY <1>1, <2>1, <2>4, <2>5, <4>1 DEF CallSide, OrderInv
    <3> QED
      BY <1>2, <1>3, <1>6, <2>2, <3>1, <3>2
  <2> QED
    BY <1>6, <2>2, <2>6
<1>7. \A q \in Reads : result[r] # "none" /\ 0 < opOf[q] /\ opOf[q] < opOf[r] => result[q] # "none"
  BY DEF CallSide, CallInv
<1>8. s \in Abstract!Outcome(r)
  <2>1. CASE result[r] = "none"
    BY <1>2, <1>5, <2>1 DEF Abstract!Outcome
  <2>2. CASE result[r] = "ready"
    <3>1. opOf[r] # 0
      BY <2>2 DEF CallSide, CallInv
    <3>2. \A q \in Abstract!Earlier(r) : result[q] = "ready" => promise[q] \in Settled
      BY <1>6, <2>2 DEF Abstract!Earlier
    <3> QED
      BY <1>5, <2>2, <3>1, <3>2 DEF Abstract!Outcome, Abstract!Settled, Settled
  <2>3. CASE result[r] = "failed"
    <3>1. opOf[r] # 0
      BY <2>3 DEF CallSide, CallInv
    <3>2. \A q \in Abstract!Earlier(r) : promise[q] \in Settled
      BY <1>6, <1>7, <2>3 DEF Abstract!Earlier
    <3>3. s = "rejected"
      BY <1>2, <1>5, <2>3
    <3> QED
      BY <2>3, <3>1, <3>2, <3>3 DEF Abstract!Outcome, Abstract!Settled, Settled
  <2> QED
    BY <1>3, <2>1, <2>2, <2>3
<1> QED
  BY <1>2, <1>4, <1>5, <1>8 DEF Abstract!Settle

\* Every step of the runtime is a step of PromiseReads, or changes nothing
\* that PromiseReads talks about.
LEMMA StepRefines ==
    ASSUME TypeOK, ShutdownInv, BridgeSide, CallSide, [Next]_vars
    PROVE  [Abstract!Next]_(Abstract!vars)
<1>0. CallTyped
  BY CallTypes
<1> USE DEF Abstract!Next, Abstract!vars
<1>1. CASE UNCHANGED callVars
  BY <1>1 DEF callVars
<1>2. ASSUME NEW r \in Reads, promise[r] = "none", Refuse(r)
      PROVE  Abstract!Refuse(r)
  BY <1>2 DEF Refuse, Abstract!Refuse
<1>3. ASSUME NEW r \in Reads, AcceptStep(r)
      PROVE  Abstract!Accept(r)
  <2>1. \A q \in Reads : opOf[q] < nextId
    BY DEF CallSide, CallInv
  <2> QED
    BY <1>3, <2>1 DEF AcceptStep, Abstract!Accept
<1>4. ASSUME NEW id \in OpIds, DeliverStep(id), EarlierDelivered(id)
      PROVE  \E r \in Reads : Abstract!Deliver(r)
  <2>1. PICK r \in Reads : r = pendingReads[id]
    BY <1>0, <1>4 DEF DeliverStep, CallTyped
  <2>2. opOf[r] = id /\ promise[r] = "pending" /\ result[r] = "none" /\ opOf[r] > 0
    BY <1>4, <2>1, IdsAreNaturals DEF DeliverStep, CallSide, TableInv
  <2>3. \A q \in Abstract!Earlier(r) : result[q] # "none"
    BY <1>4, <2>2 DEF EarlierDelivered, Abstract!Earlier
  <2>4. /\ \E delivered \in {"ready", "failed"} : result' = [result EXCEPT ![r] = delivered]
        /\ UNCHANGED <<promise, opOf>>
    BY <1>4, <2>1 DEF DeliverStep
  <2> QED
    BY <2>2, <2>3, <2>4 DEF Abstract!Deliver
<1>5. CASE RunJob
  <2>1. PICK r \in Reads : SettleStep(r) \/ RelayStep(r)
    BY <1>5, RunJobIsSettleOrRelay
  <2>2. CASE SettleStep(r)
    BY <2>2, SettleIsAllowed
  <2>3. CASE RelayStep(r)
    BY <2>3 DEF RelayStep
  <2> QED
    BY <2>1, <2>2, <2>3
<1>6. CASE SettleOne
  BY <1>1, <1>4, <1>6, SettleIsDelivery
<1> QED
  BY <1>1, <1>2, <1>3, <1>5, <1>6, OnlyCallSteps DEF CallStep

\* The runtime implements PromiseReads: results are delivered in the order of
\* acceptance, successes settle in that order, and no promise settles twice.
THEOREM ReadsAreOrdered == Spec => PromiseOrder
<1>1. Init => Abstract!Init
  BY DEF Init, Abstract!Init
<1>2. TypeOK /\ ShutdownInv /\ (BridgeSide /\ CallSide) /\ [Next]_vars
        => [Abstract!Next]_(Abstract!vars)
  BY StepRefines
<1> QED
  BY <1>1, <1>2, TypeCorrect, ShutdownInvariant, OrderInvariant, PTL
  DEF Spec, PromiseOrder, Abstract!Spec

\* What shutdown discarded stays discarded.
THEOREM NothingSettlesAfterShutdown == Spec => NothingSettlesLate
<1> DEFINE Kept == \A id \in OpIds : flagShut /\ pendingReads[id] # NoRead
                     => /\ pendingReads'[id] = pendingReads[id]
                        /\ promise'[pendingReads[id]] = "pending"
<1>1. TypeOK /\ ShutdownInv /\ (BridgeSide /\ CallSide) /\ [Next]_vars => [Kept]_vars
  <2> SUFFICES ASSUME TypeOK, ShutdownInv, BridgeSide, CallSide, [Next]_vars
               PROVE  Kept
    OBVIOUS
  <2> SUFFICES ASSUME NEW id \in OpIds, flagShut, pendingReads[id] # NoRead
               PROVE  /\ pendingReads'[id] = pendingReads[id]
                      /\ promise'[pendingReads[id]] = "pending"
    OBVIOUS
  <2>1. CallTyped
    BY CallTypes
  <2>2. pendingReads[id] \in Reads /\ promise[pendingReads[id]] = "pending"
    BY <2>1 DEF CallTyped, CallSide, TableInv
  <2>3. CASE UNCHANGED callVars
    BY <2>2, <2>3 DEF callVars
  <2>4. ASSUME NEW r \in Reads, promise[r] = "none", Refuse(r)
        PROVE  UNCHANGED pendingReads /\ promise'[pendingReads[id]] = "pending"
    BY <2>1, <2>2, <2>4 DEF Refuse, CallTyped
  <2>5. ASSUME NEW r \in Reads, AcceptStep(r)
        PROVE  pendingReads'[id] = pendingReads[id] /\ promise'[pendingReads[id]] = "pending"
    <3>1. id # nextId
      BY <2>5, IdsAreNaturals DEF AcceptStep, BridgeSide, FreshInv
    <3> QED
      BY <2>1, <2>2, <2>5, <3>1 DEF AcceptStep, CallTyped
  <2>6. CASE RunJob
    <3>1. PICK r \in Reads : SettleStep(r) \/ RelayStep(r)
      BY <2>6, RunJobIsSettleOrRelay
    <3>2. CASE SettleStep(r)
      <4>1. jobs[1].read = r /\ 1 \in 1 .. Len(jobs)
        BY <2>1, <3>2, TailFacts DEF SettleStep, CallTyped
      <4>2. pendingReads[id] # r
        BY <4>1, IdsAreNaturals DEF CallSide, TableInv, JobsInv, Side, Op
      <4> QED
        BY <2>1, <2>2, <3>2, <4>2 DEF SettleStep, CallTyped
    <3>3. CASE RelayStep(r)
      BY <2>2, <3>3 DEF RelayStep
    <3> QED
      BY <3>1, <3>2, <3>3
  <2>7. ~SettleOne
    BY SettlesOnlyBefore
  <2> QED
    BY <2>3, <2>4, <2>5, <2>6, <2>7, OnlyCallSteps DEF CallStep
<1> QED
  BY <1>1, TypeCorrect, ShutdownInvariant, OrderInvariant, PTL
  DEF Spec, NothingSettlesLate

-----------------------------------------------------------------------------
(***************************************************************************)
(* The tables of the bridge agree with one another and with the pool: no   *)
(* entry outlives its operation, every operation has its one request or    *)
(* result in one place, every pending promise has one settler, and among   *)
(* promise reads no completion waits for a wake-up.                        *)
(*                                                                         *)
(* A push of a late request must not put an entry beside the batch that is *)
(* being settled, so NoStaleEntries needs OneRequestEach; and a push must  *)
(* not find the completion queue full, so that needs the quota.            *)
(***************************************************************************)

\* The pool holds a request of the operation.
Holding(id) ==
    \/ \E i \in 1 .. Len(poolQ) : poolQ[i] = id
    \/ \E w \in Workers : worker[w].op = id

\* It holds no two of one operation, and none of an id not drawn yet.
PoolInv ==
    /\ \A i, j \in 1 .. Len(poolQ) : poolQ[i] = poolQ[j] => i = j
    /\ \A w, v \in Workers : worker[w].op = worker[v].op /\ worker[w].op # 0 => w = v
    /\ \A i \in 1 .. Len(poolQ), w \in Workers : poolQ[i] # worker[w].op
    /\ \A id \in OpIds : Holding(id) => id < nextId

\* NoStaleEntries of one id, and that an id in the batch has left the order.
EntryAt(id) ==
    /\ id \in completed <=> completions[id] # "none"
    /\ id \in completed => id \in order
    /\ id \in tokens <=> id \in order \/ batch[id] # "none"
    /\ id \in chunkRes => id \in tokens
    /\ chunkQueue[id] > 0 => id \in chunkRes /\ id \in order
    /\ batch[id] # "none" => id \notin order
    /\ id \in completed \/ batch[id] # "none" => owner[id] = "whole"

\* A promise read has its request or its result.
WholeAt(id) ==
    id \in tokens /\ owner[id] = "whole" =>
        /\ Holding(id) => id \notin completed /\ batch[id] = "none"
        /\ ~flagShut => Holding(id) \/ id \in completed \/ batch[id] # "none"

\* A chunk user that waits has its request or its chunk.
UserAt(id) ==
    id \in tokens /\ owner[id] # "whole" =>
        /\ Holding(id) => phase[id] = "inflight" /\ chunkQueue[id] = 0
        /\ chunkQueue[id] > 0 => phase[id] = "inflight" /\ chunkQueue[id] = 1
        /\ ~flagShut /\ phase[id] = "inflight" => Holding(id) \/ chunkQueue[id] = 1

OpInv(id) == EntryAt(id) /\ WholeAt(id) /\ UserAt(id)

RequestInv == PoolInv /\ \A id \in OpIds : OpInv(id)

-----------------------------------------------------------------------------
(* The pool.                                                                *)

\* A worker is idle, with no operation, or executes one.
LEMMA WorkerTypes ==
    ASSUME TypeOK, NEW w \in Workers
    PROVE  /\ worker[w].op \in OpIds \cup {0}
           /\ worker[w] = Idle <=> worker[w].op = 0
           /\ worker[w] # Idle => worker[w].outcome # "none"
<1>1. worker[w] \in Executing \cup {Idle}
  BY DEF TypeOK
<1>2. CASE worker[w] \in Executing
  BY <1>2, IdsAreNaturals DEF Executing, Idle, Outcomes
<1>3. CASE worker[w] = Idle
  BY <1>3 DEF Idle
<1> QED
  BY <1>1, <1>2, <1>3

\* Steps that leave the pool alone.
LEMMA SameHolds ==
    ASSUME TypeOK, PoolInv, UNCHANGED <<poolQ, worker>>, nextId' \in {nextId, nextId + 1}
    PROVE  PoolInv' /\ \A x \in OpIds : Holding(x)' <=> Holding(x)
<1>1. nextId \in Nat /\ \A x \in OpIds : x \in Nat
  BY IdsAreNaturals DEF TypeOK, BridgeTypeOK
<1>2. \A x \in OpIds : Holding(x)' <=> Holding(x)
  BY DEF Holding
<1> QED
  BY <1>1, <1>2 DEF PoolInv

\* A request goes to the end of the queue.
LEMMA SubmitHolds ==
    ASSUME TypeOK, PoolInv, NEW id \in OpIds, ~Holding(id), Submit(id), UNCHANGED worker,
           nextId' \in {nextId, nextId + 1}, id < nextId'
    PROVE  PoolInv' /\ \A x \in OpIds : Holding(x)' <=> Holding(x) \/ x = id
<1>1. nextId \in Nat /\ \A x \in OpIds : x \in Nat
  BY IdsAreNaturals DEF TypeOK, BridgeTypeOK
<1>2. poolQ \in Seq(OpIds) /\ poolQ' = Append(poolQ, id)
  BY DEF TypeOK, Submit
<1>3. /\ Len(poolQ') = Len(poolQ) + 1 /\ Len(poolQ) \in Nat
      /\ \A i \in 1 .. Len(poolQ) : poolQ'[i] = poolQ[i]
      /\ poolQ'[Len(poolQ) + 1] = id
  BY <1>2, AppendFacts
<1>4. \A i \in 1 .. Len(poolQ') : i \in 1 .. Len(poolQ) \/ i = Len(poolQ) + 1
  BY <1>3
<1>5. \A i \in 1 .. Len(poolQ) : i \in 1 .. Len(poolQ')
  BY <1>3
<1>6. Len(poolQ) + 1 \in 1 .. Len(poolQ')
  BY <1>3
<1>7. \A x \in OpIds : Holding(x)' <=> Holding(x) \/ x = id
  BY <1>3, <1>4, <1>5, <1>6 DEF Holding
<1>8. \A i, j \in 1 .. Len(poolQ') : poolQ'[i] = poolQ'[j] => i = j
  BY <1>3, <1>4 DEF PoolInv, Holding
<1>9. \A i \in 1 .. Len(poolQ'), w \in Workers : poolQ'[i] # worker'[w].op
  BY <1>3, <1>4 DEF PoolInv, Holding
<1> QED
  BY <1>1, <1>7, <1>8, <1>9 DEF PoolInv

\* A request goes from the head of the queue to a thread.
LEMMA TakeHolds ==
    ASSUME TypeOK, PoolInv, NEW w \in Workers, WorkerTake(w)
    PROVE  PoolInv' /\ \A x \in OpIds : Holding(x)' <=> Holding(x)
<1>1. poolQ \in Seq(OpIds) /\ poolQ # << >> /\ poolQ' = Tail(poolQ) /\ nextId' = nextId
  BY DEF TypeOK, WorkerTake, bridgeVars
<1>2. /\ Len(poolQ) >= 1 /\ Head(poolQ) = poolQ[1] /\ Len(poolQ') = Len(poolQ) - 1
      /\ Len(poolQ) \in Nat /\ Len(poolQ') \in Nat
      /\ \A i \in 1 .. Len(poolQ') : poolQ'[i] = poolQ[i + 1]
  BY <1>1, TailFacts
<1>3. /\ worker[w].op = 0 /\ worker'[w].op = poolQ[1]
      /\ \A v \in Workers : v # w => worker'[v] = worker[v]
  BY <1>2 DEF WorkerTake, TypeOK, Idle
<1>4. 1 \in 1 .. Len(poolQ) /\ \A i \in 1 .. Len(poolQ') : i + 1 \in 1 .. Len(poolQ) /\ i + 1 # 1
  BY <1>2
<1>5. \A i \in 1 .. Len(poolQ) : i = 1 \/ (i - 1 \in 1 .. Len(poolQ') /\ poolQ'[i - 1] = poolQ[i])
  BY <1>2
<1>6. ASSUME NEW x \in OpIds PROVE Holding(x)' <=> Holding(x)
  <2>1. x # 0
    BY IdsAreNaturals
  <2>2. ASSUME Holding(x) PROVE Holding(x)'
    <3>1. CASE \E i \in 1 .. Len(poolQ) : poolQ[i] = x
      BY <1>3, <1>5, <3>1 DEF Holding
    <3>2. CASE \E v \in Workers : worker[v].op = x
      BY <1>3, <2>1, <3>2 DEF Holding
    <3> QED
      BY <2>2, <3>1, <3>2 DEF Holding
  <2>3. ASSUME Holding(x)' PROVE Holding(x)
    <3>1. CASE \E i \in 1 .. Len(poolQ') : poolQ'[i] = x
      BY <1>2, <1>4, <3>1 DEF Holding
    <3>2. CASE \E v \in Workers : worker'[v].op = x
      BY <1>3, <1>4, <3>2 DEF Holding
    <3> QED
      BY <2>3, <3>1, <3>2 DEF Holding
  <2> QED
    BY <2>2, <2>3
<1>7. \A i, j \in 1 .. Len(poolQ') : poolQ'[i] = poolQ'[j] => i = j
  <2> SUFFICES ASSUME NEW i \in 1 .. Len(poolQ'), NEW j \in 1 .. Len(poolQ'),
                      poolQ'[i] = poolQ'[j]
               PROVE  i = j
    OBVIOUS
  <2>1. i + 1 = j + 1
    BY <1>2, <1>4 DEF PoolInv
  <2> QED
    BY <2>1
<1>8. \A v, u \in Workers : worker'[v].op = worker'[u].op /\ worker'[v].op # 0 => v = u
  BY <1>3, <1>4 DEF PoolInv
<1>9. \A i \in 1 .. Len(poolQ'), v \in Workers : poolQ'[i] # worker'[v].op
  <2> SUFFICES ASSUME NEW i \in 1 .. Len(poolQ'), NEW v \in Workers
               PROVE  poolQ'[i] # worker'[v].op
    OBVIOUS
  <2>1. poolQ'[i] = poolQ[i + 1] /\ i + 1 \in 1 .. Len(poolQ) /\ i + 1 # 1
    BY <1>2, <1>4
  <2>2. CASE v = w
    BY <1>3, <1>4, <2>1, <2>2 DEF PoolInv
  <2>3. CASE v # w
    BY <1>3, <2>1, <2>3 DEF PoolInv
  <2> QED
    BY <2>2, <2>3
<1> QED
  BY <1>1, <1>6, <1>7, <1>8, <1>9 DEF PoolInv

\* A request leaves its thread.
LEMMA PushHolds ==
    ASSUME TypeOK, PoolInv, NEW w \in Workers, WorkerPush(w)
    PROVE  PoolInv' /\ \A x \in OpIds : Holding(x)' <=> Holding(x) /\ x # worker[w].op
<1>1. /\ worker[w].op \in OpIds /\ worker[w].op # 0
      /\ worker'[w].op = 0 /\ \A v \in Workers : v # w => worker'[v] = worker[v]
  BY WorkerTypes DEF WorkerPush, TypeOK, Idle
<1>2. UNCHANGED <<poolQ, nextId>>
  BY DEF WorkerPush, PushWhole, PushChunk
<1>3. ASSUME NEW x \in OpIds PROVE Holding(x)' <=> Holding(x) /\ x # worker[w].op
  <2>1. x # 0
    BY IdsAreNaturals
  <2> QED
    BY <1>1, <1>2, <2>1 DEF Holding, PoolInv
<1>4. poolQ \in Seq(OpIds) /\ \A i \in 1 .. Len(poolQ) : poolQ[i] \in OpIds /\ poolQ[i] # 0
  BY IdsAreNaturals DEF TypeOK
<1> QED
  BY <1>1, <1>2, <1>3, <1>4 DEF PoolInv
-----------------------------------------------------------------------------
(* The entries of an operation.                                             *)

\* Nothing that OpInv looks at changes for the id, but for the flag that closes.
Same(id) ==
    /\ id \in tokens' <=> id \in tokens
    /\ id \in order' <=> id \in order
    /\ id \in completed' <=> id \in completed
    /\ id \in chunkRes' <=> id \in chunkRes
    /\ completions'[id] = completions[id]
    /\ chunkQueue'[id] = chunkQueue[id]
    /\ batch'[id] = batch[id]
    /\ phase'[id] = phase[id]
    /\ owner'[id] = owner[id]
    /\ Holding(id)' <=> Holding(id)
    /\ flagShut => flagShut'

\* Such a step keeps OpInv.
LEMMA SameKept ==
    ASSUME NEW id, OpInv(id), Same(id) PROVE OpInv(id)'
BY DEF OpInv, Same, EntryAt, WholeAt, UserAt

\* The tables of the bridge that OpInv looks at, all left alone.
LEMMA TablesKept ==
    ASSUME NEW id \in OpIds, OpInv(id), Holding(id)' <=> Holding(id), flagShut => flagShut',
           UNCHANGED <<tokens, order, completed, chunkRes, completions, chunkQueue,
                       batch, phase, owner>>
    PROVE  OpInv(id)'
BY SameKept DEF Same

\* The bridge's maps, by what they hold of an id.
LEMMA MapTypes ==
    ASSUME TypeOK
    PROVE  /\ completions \in [OpIds -> Outcomes \cup {"none"}]
           /\ chunkQueue \in [OpIds -> Nat]
           /\ batch \in [OpIds -> Outcomes \cup {"none"}]
           /\ phase \in [OpIds -> {"idle", "inflight", "landed"}]
           /\ owner \in [OpIds -> Kinds \cup {"none"}]
           /\ tokens \subseteq OpIds /\ order \subseteq OpIds
           /\ completed \subseteq OpIds /\ chunkRes \subseteq OpIds
           /\ nextId \in Nat
BY DEF TypeOK, BridgeTypeOK

\* reserve: the new id has no entry, and a request if it is submitted at once.
LEMMA ReserveEntries ==
    ASSUME TypeOK, BridgeSide, RequestInv, NEW id \in OpIds, Reserve(id),
           NEW kind, owner' = [owner EXCEPT ![id] = kind],
           kind = "whole" => Holding(id)' /\ UNCHANGED phase,
           kind # "whole" => \/ ~Holding(id)' /\ UNCHANGED phase
                             \/ Holding(id)' /\ phase' = [phase EXCEPT ![id] = "inflight"],
           \A x \in OpIds : x # id => (Holding(x)' <=> Holding(x)),
           UNCHANGED <<batch, flagShut>>
    PROVE  \A x \in OpIds : OpInv(x)'
<1>1. id = nextId
  BY DEF Reserve
<1>2. /\ id \notin tokens /\ id \notin order /\ id \notin chunkRes
      /\ batch[id] = "none" /\ chunkQueue[id] = 0 /\ phase[id] = "idle"
  BY <1>1, MapTypes DEF BridgeSide, FreshInv
<1>3. id \notin completed /\ completions[id] = "none"
  BY <1>2 DEF RequestInv, OpInv, EntryAt
<1>4. ASSUME NEW x \in OpIds, x # id PROVE OpInv(x)'
  <2>1. Same(x)
    BY <1>4, MapTypes DEF Reserve, Same
  <2> QED
    BY <2>1, SameKept DEF RequestInv
<1>5. OpInv(id)'
  <2>1. /\ id \in tokens' /\ id \in order' /\ id \notin chunkRes' /\ id \notin completed'
        /\ completions'[id] = "none" /\ chunkQueue'[id] = 0 /\ batch'[id] = "none"
        /\ owner'[id] = kind
    BY <1>2, <1>3, MapTypes DEF Reserve
  <2>2. EntryAt(id)'
    BY <2>1 DEF EntryAt
  <2>3. WholeAt(id)'
    BY <2>1 DEF WholeAt
  <2>4. UserAt(id)'
    <3>1. CASE kind = "whole"
      BY <2>1, <3>1 DEF UserAt
    <3>2. CASE ~Holding(id)' /\ UNCHANGED phase
      BY <1>2, <2>1, <3>2 DEF UserAt
    <3>3. CASE Holding(id)' /\ phase' = [phase EXCEPT ![id] = "inflight"]
      <4>1. phase'[id] = "inflight"
        BY <3>3, MapTypes
      <4> QED
        BY <2>1, <3>3, <4>1 DEF UserAt
    <3> QED
      BY <3>1, <3>2, <3>3
  <2> QED
    BY <2>2, <2>3, <2>4 DEF OpInv
<1> QED
  BY <1>4, <1>5

\* unreserve: nothing is left of the operation in the tables.
LEMMA UnreserveEntries ==
    ASSUME TypeOK, RequestInv, NEW id \in OpIds, Unreserve(id),
           batch' = [batch EXCEPT ![id] = "none"] \/ (UNCHANGED batch /\ batch[id] = "none"),
           \A x \in OpIds : x # id => phase'[x] = phase[x],
           \A x \in OpIds : Holding(x)' <=> Holding(x),
           UNCHANGED <<owner, flagShut>>
    PROVE  \A x \in OpIds : OpInv(x)'
<1>1. ASSUME NEW x \in OpIds, x # id PROVE OpInv(x)'
  <2>1. Same(x)
    BY <1>1, MapTypes DEF Unreserve, Same
  <2> QED
    BY <2>1, SameKept DEF RequestInv
<1>2. OpInv(id)'
  <2>1. EntryAt(id)
    BY DEF RequestInv, OpInv
  <2>2. /\ id \notin tokens' /\ id \notin order' /\ id \notin completed' /\ id \notin chunkRes'
        /\ completions'[id] = "none" /\ chunkQueue'[id] = 0 /\ batch'[id] = "none"
    <3>1. batch'[id] = "none"
      BY MapTypes
    <3>2. CASE id \in tokens
      BY <2>1, <3>1, <3>2, MapTypes DEF Unreserve, EntryAt
    <3>3. CASE id \notin tokens
      BY <2>1, <3>1, <3>3, MapTypes DEF Unreserve, EntryAt
    <3> QED
      BY <3>2, <3>3
  <2> QED
    BY <2>2 DEF OpInv, EntryAt, WholeAt, UserAt
<1> QED
  BY <1>1, <1>2

\* The completions of live operations fit the queue: there are as many places as
\* reservations.
LEMMA QueueHasRoom ==
    ASSUME TypeOK, QuotaInv, RequestInv, NEW id \in tokens, id \notin completed
    PROVE  Cardinality(completed) < CompletionCap
<1>1. IsFiniteSet(tokens)
  <2>1. IsFiniteSet(OpIds)
    BY FS_Interval, BridgeAssumption DEF OpIds
  <2> QED
    BY <2>1, MapTypes, FS_Subset
<1>2. completed \subseteq tokens
  BY MapTypes DEF RequestInv, OpInv, EntryAt
<1>3. Cardinality(completed) <= Cardinality(tokens) /\ IsFiniteSet(completed)
  BY <1>1, <1>2, FS_Subset
<1>4. Cardinality(completed) # Cardinality(tokens)
  BY <1>1, <1>2, FS_Subset
<1>5. Cardinality(completed) \in Nat /\ Cardinality(tokens) \in Nat
  BY <1>1, <1>3, FS_CardinalityType
<1>6. Cardinality(tokens) <= Limit /\ Limit \in Nat /\ CompletionCap \in Nat
  BY BridgeAssumption DEF QuotaInv
<1> QED
  BY BridgeAssumption, <1>3, <1>4, <1>5, <1>6

\* A thread pushes what it read for a promise.
LEMMA PushWholeEntries ==
    ASSUME TypeOK, ShutdownInv, QuotaInv, RequestInv, NEW id \in OpIds, Holding(id),
           owner[id] = "whole", NEW outcome, outcome # "none", PushWhole(id, outcome),
           \A x \in OpIds : Holding(x)' <=> Holding(x) /\ x # id,
           UNCHANGED <<batch, phase, owner, flagShut>>
    PROVE  \A x \in OpIds : OpInv(x)'
<1>1. ASSUME NEW x \in OpIds, x # id PROVE OpInv(x)'
  <2>1. Same(x)
    BY <1>1, MapTypes DEF PushWhole, Same
  <2> QED
    BY <2>1, SameKept DEF RequestInv
<1>2. OpInv(id)'
  <2>1. EntryAt(id) /\ WholeAt(id) /\ ~Holding(id)'
    BY DEF RequestInv, OpInv
  <2>2. UNCHANGED <<tokens, order, chunkQueue, chunkRes>>
    BY DEF PushWhole
  <2>3. CASE IsShutdown \/ id \notin tokens
    <3>1. UNCHANGED <<completed, completions>>
      BY <2>3 DEF PushWhole, PushIsStale
    <3>2. flagShut \/ id \notin tokens
      BY <2>3 DEF IsShutdown, ShutdownInv
    <3> QED
      BY <2>1, <2>2, <3>1, <3>2 DEF OpInv, EntryAt, WholeAt, UserAt
  <2>4. CASE ~IsShutdown /\ id \in tokens
    <3>1. id \notin completed /\ batch[id] = "none"
      BY <2>1, <2>4 DEF WholeAt
    <3>2. ~(Cardinality(completed) >= CompletionCap)
      <4>1. Cardinality(completed) < CompletionCap
        BY <2>4, <3>1, QueueHasRoom
      <4>2. Cardinality(completed) \in Nat
        <5>1. IsFiniteSet(OpIds)
          BY FS_Interval, BridgeAssumption DEF OpIds
        <5> QED
          BY <5>1, MapTypes, FS_Subset, FS_CardinalityType
      <4> QED
        BY <4>1, <4>2, BridgeAssumption
    <3>3. /\ completed' = completed \cup {id}
          /\ completions' = [completions EXCEPT ![id] = outcome]
      BY <2>4, <3>1, <3>2 DEF PushWhole, PushIsStale
    <3>4. completions'[id] # "none"
      BY <3>3, MapTypes
    <3> QED
      BY <2>1, <2>2, <2>4, <3>1, <3>3, <3>4 DEF OpInv, EntryAt, WholeAt, UserAt
  <2> QED
    BY <2>3, <2>4
<1> QED
  BY <1>1, <1>2

\* A thread pushes a chunk.
LEMMA PushChunkEntries ==
    ASSUME TypeOK, ShutdownInv, RequestInv, NEW id \in OpIds, Holding(id),
           owner[id] # "whole", PushChunk(id),
           \A x \in OpIds : Holding(x)' <=> Holding(x) /\ x # id,
           UNCHANGED <<batch, phase, owner, flagShut>>
    PROVE  \A x \in OpIds : OpInv(x)'
<1>1. ASSUME NEW x \in OpIds, x # id PROVE OpInv(x)'
  <2>1. Same(x)
    BY <1>1, MapTypes DEF PushChunk, Same
  <2> QED
    BY <2>1, SameKept DEF RequestInv
<1>2. OpInv(id)'
  <2>1. EntryAt(id) /\ UserAt(id) /\ ~Holding(id)'
    BY DEF RequestInv, OpInv
  <2>2. UNCHANGED <<tokens, order, completed, completions>>
    BY DEF PushChunk
  <2>3. CASE IsShutdown \/ id \notin tokens
    <3>1. UNCHANGED <<chunkQueue, chunkRes>>
      BY <2>3 DEF PushChunk, PushIsStale
    <3>2. flagShut \/ id \notin tokens
      BY <2>3 DEF IsShutdown, ShutdownInv
    <3> QED
      BY <2>1, <2>2, <3>1, <3>2 DEF OpInv, EntryAt, WholeAt, UserAt
  <2>4. CASE ~IsShutdown /\ id \in tokens
    <3>1. chunkQueue[id] = 0 /\ phase[id] = "inflight"
      BY <2>1, <2>4 DEF UserAt
    <3>2. chunkQueue' = [chunkQueue EXCEPT ![id] = @ + 1] /\ chunkRes' = chunkRes \cup {id}
      BY <2>4 DEF PushChunk, PushIsStale
    <3>3. chunkQueue'[id] = 1
      BY <3>1, <3>2, MapTypes
    <3>4. id \in order
      BY <2>1, <2>4 DEF EntryAt
    <3> QED
      BY <2>1, <2>2, <2>4, <3>1, <3>2, <3>3, <3>4 DEF OpInv, EntryAt, WholeAt, UserAt
  <2> QED
    BY <2>3, <2>4
<1> QED
  BY <1>1, <1>2

\* The drain of the chunks: what is drained has landed, the rest waits as before.
LEMMA PollChunksEntries ==
    ASSUME TypeOK, ShutdownInv, RequestInv, PollChunks,
           \A x \in OpIds : Holding(x)' <=> Holding(x)
    PROVE  \A x \in OpIds : OpInv(x)'
<1> DEFINE readers == {id \in QueuedChunks : owner[id] = "reader"}
           drained == WithinBudget(readers) \cup (QueuedChunks \ readers)
<1>1. /\ phase' = [id \in OpIds |-> IF id \in drained THEN "landed" ELSE phase[id]]
      /\ TakeChunks(drained)
      /\ UNCHANGED <<batch, owner, flagShut>>
  BY DEF PollChunks
<1>2. \A id \in drained : id \in order /\ chunkQueue[id] > 0
  BY DEF WithinBudget, QueuedChunks
<1> HIDE DEF drained
<1>3. /\ chunkQueue' = [id \in OpIds |->
                          IF id \in order \ drained THEN chunkQueue[id] ELSE 0]
      /\ UNCHANGED <<tokens, order, completed, completions, chunkRes>>
  BY <1>1 DEF TakeChunks
<1> SUFFICES ASSUME NEW x \in OpIds PROVE OpInv(x)'
  OBVIOUS
<1>4. OpInv(x) /\ chunkQueue[x] \in Nat
  BY MapTypes DEF RequestInv
<1>5. CASE x \in drained
  <2>1. chunkQueue[x] > 0 /\ x \in order /\ x \in tokens
    BY <1>2, <1>4, <1>5 DEF OpInv, EntryAt
  <2>2. chunkQueue'[x] = 0 /\ phase'[x] = "landed"
    BY <1>1, <1>3, <1>5
  <2>3. owner[x] # "whole" => ~Holding(x)
    BY <1>4, <2>1 DEF OpInv, UserAt
  <2> QED
    BY <1>1, <1>3, <1>4, <2>2, <2>3 DEF OpInv, EntryAt, WholeAt, UserAt
<1>6. CASE x \notin drained
  <2>1. chunkQueue'[x] = chunkQueue[x]
    BY <1>3, <1>4, <1>6 DEF OpInv, EntryAt
  <2>2. phase'[x] = phase[x]
    BY <1>1, <1>6
  <2> QED
    BY <1>1, <1>3, <1>4, <2>1, <2>2, SameKept DEF Same
<1> QED
  BY <1>5, <1>6

\* take_completions: what leaves the order is in the batch.
LEMMA PollTakeEntries ==
    ASSUME TypeOK, ShutdownInv, RequestInv, PollTake,
           \A x \in OpIds : Holding(x)' <=> Holding(x)
    PROVE  \A x \in OpIds : OpInv(x)'
<1>1. /\ order' = order \ InOrderPrefix
      /\ completed' = completed \cap order'
      /\ completions' = [id \in OpIds |-> IF id \in completed' THEN completions[id] ELSE "none"]
      /\ batch' = [id \in OpIds |-> IF id \in InOrderPrefix THEN completions[id] ELSE "none"]
      /\ UNCHANGED <<tokens, chunkQueue, chunkRes, phase, owner, flagShut>>
  BY DEF PollTake, TakeCompletions
<1>2. \A id \in InOrderPrefix : id \in order \ chunkRes /\ id \in completed
  <2>1. \A id \in OpIds : id \in Nat
    BY IdsAreNaturals
  <2> SUFFICES ASSUME NEW id \in InOrderPrefix PROVE id \in order \ chunkRes /\ id \in completed
    OBVIOUS
  <2>2. /\ id \in order \ chunkRes
        /\ \A j \in order \ chunkRes : j <= id => j \in completed
    BY DEF InOrderPrefix
  <2>3. id <= id
    BY <2>1, <2>2, MapTypes
  <2> QED
    BY <2>2, <2>3
<1>3. \A id \in OpIds : batch[id] = "none"
  BY DEF PollTake, ShutdownInv, InBatch
<1> SUFFICES ASSUME NEW x \in OpIds PROVE OpInv(x)'
  OBVIOUS
<1>4. OpInv(x)
  BY DEF RequestInv
<1>5. CASE x \in InOrderPrefix
  <2>1. /\ x \notin order' /\ x \notin completed' /\ completions'[x] = "none"
        /\ batch'[x] = completions[x]
    BY <1>1, <1>5
  <2>2. x \in completed /\ x \in order /\ x \notin chunkRes
    BY <1>2, <1>5
  <2>3. chunkQueue[x] \in Nat /\ EntryAt(x) /\ WholeAt(x)
    BY <1>4, MapTypes DEF OpInv
  <2>4. x \in tokens /\ owner[x] = "whole" /\ completions[x] # "none" /\ ~(chunkQueue[x] > 0)
    BY <2>2, <2>3 DEF EntryAt
  <2>5. EntryAt(x)'
    BY <1>1, <2>1, <2>2, <2>4 DEF EntryAt
  <2>6. WholeAt(x)'
    BY <1>1, <2>1, <2>2, <2>3, <2>4 DEF WholeAt
  <2>7. UserAt(x)'
    BY <1>1, <2>4 DEF UserAt
  <2> QED
    BY <2>5, <2>6, <2>7 DEF OpInv
<1>6. CASE x \notin InOrderPrefix
  <2>1. /\ x \in order' <=> x \in order
        /\ batch'[x] = "none" /\ batch[x] = "none"
    BY <1>1, <1>3, <1>6
  <2>2. x \in completed' <=> x \in completed
    BY <1>1, <1>4, <2>1 DEF OpInv, EntryAt
  <2>3. completions'[x] = completions[x]
    BY <1>1, <1>4, <2>2 DEF OpInv, EntryAt
  <2> QED
    BY <1>1, <1>4, <2>1, <2>2, <2>3, SameKept DEF Same
<1> QED
  BY <1>5, <1>6

\* An operation that gives its slot back, with nothing in the batch.
LEMMA EndsEntries ==
    ASSUME TypeOK, ShutdownInv, RequestInv, NEW id \in OpIds, Unreserve(id),
           boa # "settling", phase' = [phase EXCEPT ![id] = "idle"],
           UNCHANGED <<owner, poolQ, flagShut, worker, batch>>
    PROVE  RequestInv'
<1>1. nextId' = nextId
  BY DEF Unreserve
<1>2. PoolInv' /\ \A x \in OpIds : Holding(x)' <=> Holding(x)
  BY <1>1, SameHolds DEF RequestInv
<1>3. batch[id] = "none"
  BY DEF ShutdownInv, InBatch
<1>4. \A x \in OpIds : x # id => phase'[x] = phase[x]
  BY MapTypes
<1>5. \A x \in OpIds : OpInv(x)'
  BY <1>2, <1>3, <1>4, UnreserveEntries
<1> QED
  BY <1>2, <1>5 DEF RequestInv

\* Calls of text(), arrayBuffer() and bytes().
LEMMA ReadCallEntries ==
    ASSUME TypeOK, BridgeSide, RequestInv, NEW r \in Reads, ReadCall(r)
    PROVE  RequestInv'
<1>1. CASE ReadPreflightFails(r) \/ ReadQuotaFails(r) \/ ReadSubmitFails(r)
  <2>1. UNCHANGED <<poolQ, worker>> /\ nextId' \in {nextId, nextId + 1}
    BY <1>1 DEF ReadPreflightFails, ReadQuotaFails, ReadSubmitFails, ReserveFails,
                ReserveAndReturn, Refuse, bridgeVars
  <2>2. PoolInv' /\ \A x \in OpIds : Holding(x)' <=> Holding(x)
    BY <2>1, SameHolds DEF RequestInv
  <2>3. UNCHANGED <<tokens, order, completed, chunkRes, completions, chunkQueue,
                    batch, phase, owner, flagShut>>
    BY <1>1 DEF ReadPreflightFails, ReadQuotaFails, ReadSubmitFails, ReserveFails,
                ReserveAndReturn, Refuse, bridgeVars
  <2>4. \A x \in OpIds : OpInv(x)'
    BY <2>2, <2>3, TablesKept DEF RequestInv
  <2> QED
    BY <2>2, <2>4 DEF RequestInv
<1>2. CASE ReadAccepted(r)
  <2>1. PICK id \in OpIds : /\ Reserve(id)
                            /\ Submit(id)
                            /\ owner' = [owner EXCEPT ![id] = "whole"]
    BY <1>2 DEF ReadAccepted
  <2>2. UNCHANGED <<worker, phase, batch, flagShut>>
    BY <1>2 DEF ReadAccepted
  <2>3. id = nextId /\ nextId' = nextId + 1 /\ id < nextId' /\ ~(id < nextId)
    BY <2>1, MapTypes DEF Reserve
  <2>4. ~Holding(id)
    BY <2>3 DEF RequestInv, PoolInv
  <2>5. PoolInv' /\ \A x \in OpIds : Holding(x)' <=> Holding(x) \/ x = id
    BY <2>1, <2>2, <2>3, <2>4, SubmitHolds DEF RequestInv
  <2>6. \A x \in OpIds : OpInv(x)'
    BY <2>1, <2>2, <2>5, ReserveEntries
  <2> QED
    BY <2>5, <2>6 DEF RequestInv
<1> QED
  BY <1>1, <1>2 DEF ReadCall

\* The next request of an operation that waits for nothing.
LEMMA NextChunkEntries ==
    ASSUME TypeOK, ShutdownInv, BridgeSide, RequestInv, NEW id \in OpIds, NextChunk(id)
    PROVE  RequestInv'
<1>1. /\ id \in tokens /\ phase[id] # "inflight" /\ owner[id] # "whole"
      /\ boa # "settling" /\ UNCHANGED <<owner, flagShut, worker, batch>>
  BY DEF NextChunk, BridgeSide, ChunkInv, Outside, InPoll, chunkUserUnchanged
<1>2. ~Holding(id) /\ id < nextId /\ nextId \in Nat /\ chunkQueue[id] \in Nat
  <2>1. UserAt(id)
    BY DEF RequestInv, OpInv
  <2>2. id < nextId
    BY <1>1, MapTypes, IdsAreNaturals DEF BridgeSide, FreshInv
  <2> QED
    BY <1>1, <2>1, <2>2, MapTypes DEF UserAt
<1>3. chunkQueue[id] = 0
  BY <1>1, <1>2 DEF RequestInv, OpInv, UserAt
<1>4. CASE PoolAccepts
  <2>1. Submit(id) /\ phase' = [phase EXCEPT ![id] = "inflight"] /\ UNCHANGED bridgeVars
    BY <1>4 DEF NextChunk
  <2>2. PoolInv' /\ \A x \in OpIds : Holding(x)' <=> Holding(x) \/ x = id
    BY <1>1, <1>2, <2>1, SubmitHolds DEF RequestInv, bridgeVars
  <2>3. UNCHANGED <<tokens, order, completed, chunkRes, completions, chunkQueue>>
    BY <2>1 DEF bridgeVars
  <2>4. ASSUME NEW x \in OpIds, x # id PROVE OpInv(x)'
    <3>1. Same(x)
      BY <1>1, <2>1, <2>2, <2>3, <2>4, MapTypes DEF Same
    <3> QED
      BY <3>1, SameKept DEF RequestInv
  <2>5. OpInv(id)'
    <3>1. phase'[id] = "inflight" /\ Holding(id)' /\ EntryAt(id)
      BY <2>1, <2>2, MapTypes DEF RequestInv, OpInv
    <3>2. EntryAt(id)'
      BY <1>1, <2>3, <3>1 DEF EntryAt
    <3>3. WholeAt(id)'
      BY <1>1 DEF WholeAt
    <3>4. UserAt(id)'
      BY <1>3, <2>3, <3>1 DEF UserAt
    <3> QED
      BY <3>2, <3>3, <3>4 DEF OpInv
  <2> QED
    BY <2>2, <2>4, <2>5 DEF RequestInv
<1>5. CASE ~PoolAccepts
  <2>1. Unreserve(id) /\ phase' = [phase EXCEPT ![id] = "idle"] /\ UNCHANGED poolQ
    BY <1>5 DEF NextChunk
  <2> QED
    BY <1>1, <2>1, EndsEntries
<1> QED
  BY <1>4, <1>5

\* FileReader and stream operations.
LEMMA ChunkUserEntries ==
    ASSUME TypeOK, ShutdownInv, BridgeSide, RequestInv, ChunkUser
    PROVE  RequestInv'
<1>1. CASE StreamOpens
  <2>1. PICK id \in OpIds : Reserve(id) /\ owner' = [owner EXCEPT ![id] = "stream"]
    BY <1>1 DEF StreamOpens
  <2>2. UNCHANGED <<poolQ, worker, phase, batch, flagShut>>
    BY <1>1 DEF StreamOpens, chunkUserUnchanged
  <2>3. id = nextId /\ nextId' = nextId + 1 /\ ~(id < nextId)
    BY <2>1, MapTypes DEF Reserve
  <2>4. PoolInv' /\ \A x \in OpIds : Holding(x)' <=> Holding(x)
    BY <2>2, <2>3, SameHolds DEF RequestInv
  <2>5. ~Holding(id)'
    BY <2>3, <2>4 DEF RequestInv, PoolInv
  <2>6. \A x \in OpIds : OpInv(x)'
    BY <2>1, <2>2, <2>4, <2>5, ReserveEntries
  <2> QED
    BY <2>4, <2>6 DEF RequestInv
<1>2. CASE ReaderStarts
  <2>1. UNCHANGED <<worker, batch, flagShut>>
    BY <1>2 DEF ReaderStarts, chunkUserUnchanged
  <2>2. CASE PoolAccepts
    <3>1. PICK id \in OpIds : /\ Reserve(id)
                              /\ Submit(id)
                              /\ owner' = [owner EXCEPT ![id] = "reader"]
                              /\ phase' = [phase EXCEPT ![id] = "inflight"]
      BY <1>2, <2>2 DEF ReaderStarts
    <3>2. id = nextId /\ nextId' = nextId + 1 /\ id < nextId' /\ ~(id < nextId)
      BY <3>1, MapTypes DEF Reserve
    <3>3. ~Holding(id)
      BY <3>2 DEF RequestInv, PoolInv
    <3>4. PoolInv' /\ \A x \in OpIds : Holding(x)' <=> Holding(x) \/ x = id
      BY <2>1, <3>1, <3>2, <3>3, SubmitHolds DEF RequestInv
    <3>5. \A x \in OpIds : OpInv(x)'
      BY <2>1, <3>1, <3>4, ReserveEntries
    <3> QED
      BY <3>4, <3>5 DEF RequestInv
  <2>3. CASE ~PoolAccepts
    <3>1. /\ ReserveAndReturn
          /\ UNCHANGED <<owner, phase, poolQ>>
      BY <1>2, <2>3 DEF ReaderStarts
    <3>2. PoolInv' /\ \A x \in OpIds : Holding(x)' <=> Holding(x)
      BY <2>1, <3>1, SameHolds DEF RequestInv, ReserveAndReturn
    <3>3. \A x \in OpIds : OpInv(x)'
      BY <2>1, <3>1, <3>2, TablesKept DEF RequestInv, ReserveAndReturn
    <3> QED
      BY <3>2, <3>3 DEF RequestInv
  <2> QED
    BY <2>2, <2>3
<1>3. ASSUME NEW id \in OpIds, NextChunk(id) PROVE RequestInv'
  BY <1>3, NextChunkEntries
<1>4. ASSUME NEW id \in OpIds, StreamIdles(id) PROVE RequestInv'
  <2>1. /\ phase[id] = "landed" /\ phase' = [phase EXCEPT ![id] = "idle"]
        /\ UNCHANGED <<bridgeVars, owner, poolQ, worker, batch, flagShut>>
    BY <1>4 DEF StreamIdles, chunkUserUnchanged
  <2>2. PoolInv' /\ \A x \in OpIds : Holding(x)' <=> Holding(x)
    BY <2>1, SameHolds DEF RequestInv, bridgeVars
  <2>3. ASSUME NEW x \in OpIds, x # id PROVE OpInv(x)'
    <3>1. Same(x)
      BY <2>1, <2>2, <2>3, MapTypes DEF Same, bridgeVars
    <3> QED
      BY <3>1, SameKept DEF RequestInv
  <2>4. OpInv(id)'
    <3>1. phase'[id] = "idle"
      BY <2>1, MapTypes
    <3> QED
      BY <2>1, <2>2, <3>1 DEF RequestInv, OpInv, EntryAt, WholeAt, UserAt, bridgeVars
  <2> QED
    BY <2>2, <2>3, <2>4 DEF RequestInv
<1>5. ASSUME NEW id \in OpIds,
             ChunkUserFinishes(id) \/ ChunkUserAborts(id) \/ StreamCancels(id)
      PROVE  RequestInv'
  <2>1. Ends(id) /\ boa # "settling"
    BY <1>5 DEF ChunkUserFinishes, ChunkUserAborts, StreamCancels, Outside, InPoll
  <2> QED
    BY <2>1, EndsEntries DEF Ends, chunkUserUnchanged
<1> QED
  BY <1>1, <1>2, <1>3, <1>4, <1>5 DEF ChunkUser

\* Every step keeps the entries.
LEMMA RequestsPreserved ==
    ASSUME TypeOK, ShutdownInv, BridgeSide, QuotaInv, RequestInv, [Next]_vars
    PROVE  RequestInv'
<1>0. nextId' = nextId => nextId' \in {nextId, nextId + 1}
  OBVIOUS
<1>1. ASSUME UNCHANGED <<poolQ, worker, nextId>>,
             UNCHANGED <<tokens, order, completed, chunkRes, completions, chunkQueue,
                         batch, phase, owner>>,
             flagShut => flagShut'
      PROVE  RequestInv'
  <2>1. PoolInv' /\ \A x \in OpIds : Holding(x)' <=> Holding(x)
    BY <1>0, <1>1, SameHolds DEF RequestInv
  <2> QED
    BY <1>1, <2>1, TablesKept DEF RequestInv
<1>2. CASE UNCHANGED vars
  BY <1>1, <1>2 DEF vars, bridgeVars, runtimeVars
<1>3. ASSUME NEW r \in Reads, ReadCall(r) PROVE RequestInv'
  BY <1>3, ReadCallEntries
<1>4. CASE RunJob
  BY <1>1, <1>4 DEF RunJob, bridgeVars
<1>5. CASE ChunkUser
  BY <1>5, ChunkUserEntries
<1>6. CASE Poll
  <2>1. CASE PollChunks
    <3>1. UNCHANGED <<poolQ, worker, nextId>>
      BY <2>1 DEF PollChunks, TakeChunks
    <3>2. PoolInv' /\ \A x \in OpIds : Holding(x)' <=> Holding(x)
      BY <1>0, <3>1, SameHolds DEF RequestInv
    <3> QED
      BY <2>1, <3>2, PollChunksEntries DEF RequestInv
  <2>2. CASE PollTake
    <3>1. UNCHANGED <<poolQ, worker, nextId>>
      BY <2>2 DEF PollTake, TakeCompletions
    <3>2. PoolInv' /\ \A x \in OpIds : Holding(x)' <=> Holding(x)
      BY <1>0, <3>1, SameHolds DEF RequestInv
    <3> QED
      BY <2>2, <3>2, PollTakeEntries DEF RequestInv
  <2>3. CASE SettleOne
    <3>1. PICK id \in InBatch : Unreserve(id) /\ batch' = [batch EXCEPT ![id] = "none"]
      BY <2>3 DEF SettleOne
    <3>2. id \in OpIds
      BY <3>1 DEF InBatch
    <3>3. UNCHANGED <<poolQ, worker, nextId, phase, owner, flagShut>>
      BY <2>3, <3>1 DEF SettleOne, Unreserve
    <3>4. PoolInv' /\ \A x \in OpIds : Holding(x)' <=> Holding(x)
      BY <1>0, <3>3, SameHolds DEF RequestInv
    <3>5. \A x \in OpIds : OpInv(x)'
      BY <3>1, <3>2, <3>3, <3>4, UnreserveEntries
    <3> QED
      BY <3>4, <3>5 DEF RequestInv
  <2>4. CASE PollEnds
    BY <1>1, <2>4 DEF PollEnds, bridgeVars
  <2> QED
    BY <1>6, <2>1, <2>2, <2>3, <2>4 DEF Poll
<1>7. CASE Shutdown
  <2>1. CASE CloseFlag
    BY <1>1, <2>1 DEF CloseFlag, bridgeVars
  <2>2. CASE CloseBridge
    <3>1. /\ tokens' = {} /\ order' = {} /\ completed' = {} /\ chunkRes' = {}
          /\ completions' = [id \in OpIds |-> "none"]
          /\ chunkQueue' = [id \in OpIds |-> 0]
          /\ UNCHANGED <<poolQ, worker, nextId, batch, flagShut>>
      BY <2>2 DEF CloseBridge, ShutdownBridge
    <3>2. \A id \in OpIds : batch[id] = "none"
      BY <2>2 DEF CloseBridge, ShutdownInv, InBatch
    <3>3. PoolInv'
      BY <1>0, <3>1, SameHolds DEF RequestInv
    <3>4. \A x \in OpIds : OpInv(x)'
      BY <3>1, <3>2 DEF OpInv, EntryAt, WholeAt, UserAt
    <3> QED
      BY <3>3, <3>4 DEF RequestInv
  <2> QED
    BY <1>7, <2>1, <2>2 DEF Shutdown
<1>8. ASSUME NEW w \in Workers, Worker(w) PROVE RequestInv'
  <2>1. CASE WorkerTake(w)
    <3>1. PoolInv' /\ \A x \in OpIds : Holding(x)' <=> Holding(x)
      BY <2>1, TakeHolds DEF RequestInv
    <3>2. UNCHANGED <<tokens, order, completed, chunkRes, completions, chunkQueue,
                      batch, phase, owner, flagShut>>
      BY <2>1 DEF WorkerTake, bridgeVars
    <3> QED
      BY <3>1, <3>2, TablesKept DEF RequestInv
  <2>2. CASE WorkerPush(w)
    <3>1. PoolInv' /\ \A x \in OpIds : Holding(x)' <=> Holding(x) /\ x # worker[w].op
      BY <2>2, PushHolds DEF RequestInv
    <3>2. /\ worker[w].op \in OpIds /\ worker[w].outcome # "none"
          /\ UNCHANGED <<batch, phase, owner, flagShut>>
      BY <2>2, WorkerTypes DEF WorkerPush
    <3>3. Holding(worker[w].op)
      BY DEF Holding
    <3>4. \A x \in OpIds : OpInv(x)'
      <4>1. CASE owner[worker[w].op] = "whole"
        <5>1. PushWhole(worker[w].op, worker[w].outcome)
          BY <2>2, <4>1 DEF WorkerPush
        <5> QED
          BY <3>1, <3>2, <3>3, <4>1, <5>1, PushWholeEntries
      <4>2. CASE owner[worker[w].op] # "whole"
        <5>1. PushChunk(worker[w].op)
          BY <2>2, <4>2 DEF WorkerPush
        <5> QED
          BY <3>1, <3>2, <3>3, <4>2, <5>1, PushChunkEntries
      <4> QED
        BY <4>1, <4>2
    <3> QED
      BY <3>1, <3>4 DEF RequestInv
  <2> QED
    BY <1>8, <2>1, <2>2 DEF Worker
<1> QED
  BY <1>2, <1>3, <1>4, <1>5, <1>6, <1>7, <1>8 DEF Next

-----------------------------------------------------------------------------
(* The theorems.                                                            *)

\* The quota's strengthening holds in every reachable state.
LEMMA QuotaInvariant == Spec => []QuotaInv
<1>1. Init => QuotaInv
  BY FS_EmptySet, BridgeAssumption DEF Init, BridgeInit, QuotaInv
<1>2. TypeOK /\ QuotaInv /\ [Next]_vars => QuotaInv'
  BY OnlyQuotaSteps, QuotaPreserved
<1> QED
  BY <1>1, <1>2, TypeCorrect, PTL DEF Spec

\* So do the entries'.
LEMMA RequestInvariant == Spec => []RequestInv
<1>1. Init => RequestInv
  <2> SUFFICES ASSUME Init PROVE RequestInv
    OBVIOUS
  <2>1. Len(poolQ) = 0 /\ \A w \in Workers : worker[w].op = 0
    BY DEF Init, Idle
  <2>2. \A id \in OpIds : ~Holding(id)
    BY <2>1, IdsAreNaturals DEF Holding
  <2>3. PoolInv
    BY <2>1, <2>2 DEF PoolInv
  <2>4. \A id \in OpIds : OpInv(id)
    BY DEF Init, BridgeInit, OpInv, EntryAt, WholeAt, UserAt
  <2> QED
    BY <2>3, <2>4 DEF RequestInv
<1>2. TypeOK /\ ShutdownInv /\ (BridgeSide /\ CallSide) /\ QuotaInv /\ RequestInv
        /\ [Next]_vars => RequestInv'
  BY RequestsPreserved
<1> QED
  BY <1>1, <1>2, TypeCorrect, ShutdownInvariant, OrderInvariant, QuotaInvariant, PTL
  DEF Spec

\* The bridge's tables agree in every reachable state: a completion that comes
\* late finds its reservation gone, or its place.
LEMMA EntriesAgree ==
    ASSUME TypeOK, RequestInv PROVE NoStaleEntries
<1>1. \A id \in OpIds : EntryAt(id)
  BY DEF RequestInv, OpInv
<1>2. /\ completed = {id \in OpIds : completions[id] # "none"}
      /\ completed \subseteq order
  BY <1>1, MapTypes DEF EntryAt
<1>3. tokens = order \cup InBatch
  BY <1>1, MapTypes DEF EntryAt, InBatch
<1>4. chunkRes \subseteq tokens /\ \A id \in OpIds : chunkQueue[id] > 0 => id \in chunkRes \cap order
  BY <1>1, MapTypes DEF EntryAt
<1> QED
  BY <1>2, <1>3, <1>4 DEF NoStaleEntries

\* An entry never outlives its operation, whatever comes late (NoStaleEntries).
THEOREM EntriesNeverStale == Spec => []NoStaleEntries
<1>1. TypeOK /\ RequestInv => NoStaleEntries
  BY EntriesAgree
<1> QED
  BY <1>1, TypeCorrect, RequestInvariant, PTL

\* No slot leaks, for every limit, queue capacity, pool size and mix of operations:
\* a live reservation has its chunk operation or its table entry, an entry has its
\* reservation until shutdown, and the counter counts them (QuotaExact).
THEOREM QuotaHolds == Spec => []QuotaExact
<1>1. Init => HeldInv
  BY DEF Init, BridgeInit, HeldInv
<1>2. TypeOK /\ HeldInv /\ [Next]_vars => HeldInv'
  BY HeldPreserved
<1>3. QuotaInv /\ HeldInv /\ (BridgeSide /\ CallSide) /\ TypeOK /\ RequestInv => QuotaExact
  <2> SUFFICES ASSUME QuotaInv, HeldInv, BridgeSide, TypeOK, RequestInv PROVE QuotaExact
    OBVIOUS
  <2>1. ASSUME NEW id \in OpIds, pendingReads[id] # NoRead
        PROVE  bridgeShut \/ id \in tokens
    <3>1. bridgeShut \/ id \in order \/ batch[id] # "none"
      BY <2>1 DEF BridgeSide, PlaceInv
    <3> QED
      BY <3>1 DEF RequestInv, OpInv, EntryAt
  <2> QED
    BY <2>1 DEF QuotaExact, QuotaInv, HeldInv
<1> QED
  BY <1>1, <1>2, <1>3, TypeCorrect, QuotaInvariant, OrderInvariant, RequestInvariant, PTL
  DEF Spec

\* The pool's requests are counted by their one place.
LEMMA RequestsCounted ==
    ASSUME TypeOK, PoolInv, NEW id \in OpIds
    PROVE  Requests(id) = IF Holding(id) THEN 1 ELSE 0
<1> DEFINE queued == {i \in DOMAIN poolQ : poolQ[i] = id}
           taken == {w \in Workers : worker[w].op = id}
<1>1. id # 0 /\ DOMAIN poolQ = 1 .. Len(poolQ)
  BY IdsAreNaturals DEF TypeOK
<1>2. Cardinality({}) = 0 /\ \A x : Cardinality({x}) = 1
  BY FS_EmptySet, FS_Singleton
<1>6. Requests(id) = Cardinality(queued) + Cardinality(taken)
  BY DEF Requests
<1>3. CASE \E i \in 1 .. Len(poolQ) : poolQ[i] = id
  <2>1. PICK i \in 1 .. Len(poolQ) : poolQ[i] = id
    BY <1>3
  <2>2. queued = {i}
    BY <1>1, <2>1 DEF PoolInv
  <2>3. taken = {}
    BY <2>1 DEF PoolInv
  <2>4. Holding(id)
    BY <2>1 DEF Holding
  <2> HIDE DEF queued, taken
  <2>5. Cardinality(queued) = 1 /\ Cardinality(taken) = 0
    BY <1>2, <2>2, <2>3
  <2> QED
    BY <1>6, <2>4, <2>5
<1>4. CASE \E w \in Workers : worker[w].op = id
  <2>1. PICK w \in Workers : worker[w].op = id
    BY <1>4
  <2>2. taken = {w}
    BY <1>1, <2>1 DEF PoolInv
  <2>3. queued = {}
    BY <1>1, <2>1 DEF PoolInv
  <2>4. Holding(id)
    BY <2>1 DEF Holding
  <2> HIDE DEF queued, taken
  <2>5. Cardinality(taken) = 1 /\ Cardinality(queued) = 0
    BY <1>2, <2>2, <2>3
  <2> QED
    BY <1>6, <2>4, <2>5
<1>5. CASE ~Holding(id)
  <2>1. queued = {} /\ taken = {}
    BY <1>1, <1>5 DEF Holding
  <2> HIDE DEF queued, taken
  <2> QED
    BY <1>2, <1>5, <1>6, <2>1
<1> QED
  BY <1>3, <1>4, <1>5 DEF Holding

\* A promise read waits in exactly one place, and a chunk user for exactly one
\* request or chunk.
LEMMA OnePlaceEach ==
    ASSUME TypeOK, RequestInv PROVE OneRequestEach
<1> SUFFICES ASSUME ~flagShut, NEW id \in tokens
             PROVE  IF owner[id] = "whole"
                    THEN Requests(id) + Cardinality({id} \cap (completed \cup InBatch)) = 1
                    ELSE Requests(id) + chunkQueue[id] = IF phase[id] = "inflight" THEN 1 ELSE 0
  BY DEF OneRequestEach
<1>1. id \in OpIds /\ chunkQueue[id] \in Nat
  BY MapTypes
<1>2. Requests(id) = IF Holding(id) THEN 1 ELSE 0
  BY <1>1, RequestsCounted DEF RequestInv
<1>3. OpInv(id)
  BY <1>1 DEF RequestInv
<1>4. CASE owner[id] = "whole"
  <2>1. Cardinality({}) = 0 /\ Cardinality({id}) = 1
    BY FS_EmptySet, FS_Singleton
  <2>2. CASE id \in completed \/ batch[id] # "none"
    <3>1. {id} \cap (completed \cup InBatch) = {id}
      BY <1>1, <2>2 DEF InBatch
    <3>2. ~Holding(id)
      BY <1>3, <1>4, <2>2 DEF OpInv, WholeAt
    <3> QED
      BY <1>2, <1>4, <2>1, <3>1, <3>2
  <2>3. CASE ~(id \in completed \/ batch[id] # "none")
    <3>1. {id} \cap (completed \cup InBatch) = {}
      BY <2>3 DEF InBatch
    <3>2. Holding(id)
      BY <1>3, <1>4, <2>3 DEF OpInv, WholeAt
    <3> QED
      BY <1>2, <1>4, <2>1, <3>1, <3>2
  <2> QED
    BY <2>2, <2>3
<1>5. CASE owner[id] # "whole"
  BY <1>1, <1>2, <1>3, <1>5 DEF OpInv, UserAt
<1> QED
  BY <1>4, <1>5

\* No completion is lost and none is duplicated on the way from the pool to its
\* settlement (OneRequestEach).
THEOREM RequestsNeverLost == Spec => []OneRequestEach
<1>1. TypeOK /\ RequestInv => OneRequestEach
  BY OnePlaceEach
<1> QED
  BY <1>1, TypeCorrect, RequestInvariant, PTL

\* A pending promise has a table entry or a job, and not both; others have none.
LEMMA SettlersCounted ==
    ASSUME TypeOK, CallSide PROVE OneSettler
<1>0. CallTyped
  BY CallTypes
<1> SUFFICES ASSUME NEW r \in Reads
             PROVE  Cardinality({id \in OpIds : pendingReads[id] = r})
                    + Cardinality({i \in DOMAIN jobs : jobs[i].read = r})
                      = IF promise[r] = "pending" THEN 1 ELSE 0
  BY DEF OneSettler
<1> DEFINE entries == {id \in OpIds : pendingReads[id] = r}
           queued == {i \in DOMAIN jobs : jobs[i].read = r}
<1>1. DOMAIN jobs = 1 .. Len(jobs) /\ r # NoRead
  BY <1>0, RuntimeAssumption DEF CallTyped
<1>2. Cardinality({}) = 0 /\ \A x : Cardinality({x}) = 1
  BY FS_EmptySet, FS_Singleton
<1>3. \A id \in entries : opOf[r] = id /\ promise[r] = "pending" /\ result[r] = "none" /\ id > 0
  BY <1>1, IdsAreNaturals DEF CallSide, TableInv
<1>4. \A i \in queued : /\ promise[r] = "pending"
                        /\ \A j \in queued : i = j
                        /\ result[r] = "none" => opOf[r] = 0
  BY <1>1 DEF CallSide, JobsInv, Side, Op
<1>8. SUFFICES Cardinality(entries) + Cardinality(queued) = IF promise[r] = "pending" THEN 1 ELSE 0
  OBVIOUS
<1>5. CASE promise[r] # "pending"
  <2>1. entries = {} /\ queued = {}
    BY <1>3, <1>4, <1>5
  <2> HIDE DEF entries, queued
  <2> QED
    BY <1>2, <1>5, <2>1
<1>6. CASE promise[r] = "pending" /\ queued # {}
  <2>1. PICK i \in queued : TRUE
    BY <1>6
  <2>2. queued = {i}
    BY <1>4, <2>1
  <2>3. entries = {}
    BY <1>3, <1>4, <2>1
  <2> HIDE DEF entries, queued
  <2>4. Cardinality(queued) = 1 /\ Cardinality(entries) = 0
    BY <1>2, <2>2, <2>3
  <2> QED
    BY <1>6, <2>4
<1>7. CASE promise[r] = "pending" /\ queued = {}
  <2>1. opOf[r] > 0 /\ pendingReads[opOf[r]] = r
    BY <1>1, <1>7 DEF CallSide, ServedInv
  <2>2. opOf[r] \in OpIds
    BY <1>0, <2>1 DEF CallTyped
  <2>3. entries = {opOf[r]}
    BY <1>3, <2>1, <2>2
  <2> HIDE DEF entries, queued
  <2>4. Cardinality(entries) = 1 /\ Cardinality(queued) = 0
    BY <1>2, <1>7, <2>3
  <2> QED
    BY <1>7, <2>4
<1> QED
  BY <1>5, <1>6, <1>7

\* Every pending promise has exactly one settler (OneSettler).
THEOREM SettlersAreUnique == Spec => []OneSettler
<1>1. TypeOK /\ (BridgeSide /\ CallSide) => OneSettler
  BY SettlersCounted
<1> QED
  BY <1>1, TypeCorrect, OrderInvariant, PTL

\* A host that sees no pending I/O and no job has no pending promise left
\* (QuiescentMeansSettled).
THEOREM QuietHostsAreDone == Spec => []QuiescentMeansSettled
<1>1. ASSUME TypeOK, ShutdownInv, BridgeSide, CallSide, QuotaInv, RequestInv
      PROVE  QuiescentMeansSettled
  <2> SUFFICES ASSUME boa = "idle", ~flagShut, ~HasPending, jobs = << >>,
                      NEW r \in Reads, promise[r] = "pending"
               PROVE  FALSE
    BY DEF QuiescentMeansSettled
  <2>1. CallTyped /\ Len(jobs) = 0
    BY <1>1, CallTypes
  <2>2. opOf[r] \in OpIds /\ pendingReads[opOf[r]] = r /\ r # NoRead
    BY <1>1, <2>1, RuntimeAssumption DEF CallSide, ServedInv, CallTyped
  <2>3. ~bridgeShut /\ \A id \in OpIds : batch[id] = "none"
    BY <1>1 DEF ShutdownInv, InBatch
  <2>4. opOf[r] \in tokens
    BY <1>1, <2>2, <2>3 DEF BridgeSide, PlaceInv, RequestInv, OpInv, EntryAt
  <2>5. IsFiniteSet(tokens)
    <3>1. IsFiniteSet(OpIds)
      BY FS_Interval, BridgeAssumption DEF OpIds
    <3> QED
      BY <1>1, <3>1, MapTypes, FS_Subset
  <2>6. active # 0
    BY <1>1, <2>4, <2>5, FS_EmptySet DEF QuotaInv
  <2> QED
    BY <1>1, <2>6 DEF HasPending, TypeOK, BridgeTypeOK
<1> QED
  BY <1>1, TypeCorrect, ShutdownInvariant, OrderInvariant, QuotaInvariant,
     RequestInvariant, PTL

-----------------------------------------------------------------------------
(* The wake hook.                                                           *)

\* Without chunk users every operation is a promise read.
OnlyReads ==
    /\ chunkRes = {}
    /\ \A id \in OpIds : owner[id] \in {"none", "whole"} /\ phase[id] = "idle" /\ chunkQueue[id] = 0
    /\ \A id \in tokens : owner[id] = "whole"

\* Between the drain of the chunks, which consumes the wake, and that of the
\* completions the host may hold completions it was not woken for.
WokenInv == OnlyReads /\ (boa # "polling" /\ InOrderPrefix # {} => woken)

\* What is taken leaves nothing that could be taken.
LEMMA PrefixTaken ==
    ASSUME TypeOK, chunkRes = {}, chunkRes' = {}, order' = order \ InOrderPrefix,
           completed' \subseteq completed
    PROVE  InOrderPrefix' = {}
<1> SUFFICES ASSUME NEW id \in InOrderPrefix' PROVE FALSE
  OBVIOUS
<1>1. id \in order' /\ \A earlier \in order' : earlier <= id => earlier \in completed'
  BY DEF InOrderPrefix
<1>2. PICK earlier \in order : earlier <= id /\ earlier \notin completed
  BY <1>1 DEF InOrderPrefix
<1>3. earlier <= earlier
  <2>1. earlier \in Nat
    BY IdsAreNaturals, MapTypes
  <2> QED
    BY <2>1
<1>4. earlier \notin InOrderPrefix
  BY <1>2, <1>3 DEF InOrderPrefix
<1> QED
  BY <1>1, <1>2, <1>4

\* New operations have no completion and hide none.
LEMMA PrefixKept ==
    ASSUME TypeOK, chunkRes = {}, chunkRes' = {}, completed' = completed,
           order \subseteq order', order' \subseteq OpIds,
           \A id \in order' \ order : id \notin completed
    PROVE  InOrderPrefix' \subseteq InOrderPrefix
<1> SUFFICES ASSUME NEW id \in InOrderPrefix' PROVE id \in InOrderPrefix
  OBVIOUS
<1>1. id \in order' /\ \A earlier \in order' : earlier <= id => earlier \in completed
  BY DEF InOrderPrefix
<1>2. id <= id
  BY <1>1, IdsAreNaturals
<1>3. id \in order
  BY <1>1, <1>2
<1> QED
  BY <1>1, <1>3 DEF InOrderPrefix

\* Every step keeps it when there are no chunk users.
LEMMA WokenPreserved ==
    ASSUME ChunkKinds = {}, TypeOK, TypeOK', BridgeSide, RequestInv, WokenInv, [Next]_vars
    PROVE  WokenInv'
<1>1. /\ chunkRes = {} /\ \A id \in tokens : owner[id] = "whole"
      /\ \A id \in OpIds : owner[id] \in {"none", "whole"} /\ phase[id] = "idle" /\ chunkQueue[id] = 0
      /\ boa # "polling" /\ InOrderPrefix # {} => woken
  BY DEF WokenInv, OnlyReads
<1>2. completed \subseteq order /\ order \subseteq tokens /\ tokens \subseteq OpIds
  BY MapTypes DEF RequestInv, OpInv, EntryAt
<1>3. ~ChunkUser
  <2>1. ~StreamOpens /\ ~ReaderStarts
    BY DEF StreamOpens, ReaderStarts
  <2>2. ASSUME NEW id \in OpIds
        PROVE  ~(NextChunk(id) \/ StreamIdles(id) \/ ChunkUserFinishes(id)
                   \/ ChunkUserAborts(id) \/ StreamCancels(id))
    BY <1>1 DEF NextChunk, StreamIdles, ChunkUserFinishes, ChunkUserAborts, StreamCancels, Ends
  <2> QED
    BY <2>1, <2>2 DEF ChunkUser
<1>4. ASSUME NEW r \in Reads, ReadCall(r) PROVE WokenInv'
  <2>1. CASE ReadAccepted(r)
    <3>1. PICK id \in OpIds : Reserve(id) /\ owner' = [owner EXCEPT ![id] = "whole"]
      BY <2>1 DEF ReadAccepted
    <3>2. boa' = boa /\ phase' = phase
      BY <2>1 DEF ReadAccepted
    <3>3. /\ id = nextId /\ order' = order \cup {id} /\ tokens' = tokens \cup {id}
          /\ UNCHANGED <<completed, chunkQueue, chunkRes, woken>>
      BY <3>1 DEF Reserve
    <3>4. id \notin order
      BY <3>3, MapTypes DEF BridgeSide, FreshInv
    <3>5. InOrderPrefix' \subseteq InOrderPrefix
      BY <1>1, <1>2, <3>3, <3>4, PrefixKept
    <3>6. OnlyReads'
      BY <1>1, <1>2, <3>1, <3>2, <3>3, MapTypes DEF OnlyReads
    <3> QED
      BY <1>1, <3>2, <3>3, <3>5, <3>6 DEF WokenInv
  <2>2. CASE ~ReadAccepted(r)
    <3>1. UNCHANGED <<owner, phase, boa, tokens, order, completed, chunkQueue, chunkRes, woken>>
      BY <1>4, <2>2 DEF ReadCall, ReadPreflightFails, ReadQuotaFails, ReadSubmitFails,
         Refuse, ReserveFails, ReserveAndReturn, bridgeVars
    <3> QED
      BY <3>1 DEF WokenInv, OnlyReads, InOrderPrefix
  <2> QED
    BY <2>1, <2>2
<1>5. CASE RunJob \/ PollEnds \/ CloseFlag \/ (\E w \in Workers : WorkerTake(w)) \/ UNCHANGED vars
  <2>1. /\ UNCHANGED <<owner, phase, tokens, order, completed, chunkQueue, chunkRes, woken>>
        /\ boa = "polling" => boa' = "polling"
    BY <1>5 DEF RunJob, PollEnds, CloseFlag, WorkerTake, vars, runtimeVars, bridgeVars
  <2> QED
    BY <2>1 DEF WokenInv, OnlyReads, InOrderPrefix
<1>6. CASE PollChunks
  <2>1. QueuedChunks = {}
    BY <1>1, <1>2 DEF QueuedChunks
  <2>2. PICK drained : /\ drained \subseteq QueuedChunks /\ TakeChunks(drained)
                       /\ phase' = [id \in OpIds |-> IF id \in drained THEN "landed" ELSE phase[id]]
    BY <1>6 DEF PollChunks, WithinBudget
  <2>3. boa' = "polling" /\ owner' = owner /\ tokens' = tokens /\ chunkRes' = chunkRes
    BY <1>6, <2>2 DEF PollChunks, TakeChunks
  <2>4. \A id \in OpIds : phase'[id] = "idle" /\ chunkQueue'[id] = 0
    BY <1>1, <2>1, <2>2 DEF TakeChunks
  <2> QED
    BY <1>1, <2>3, <2>4 DEF WokenInv, OnlyReads
<1>7. CASE PollTake
  <2>1. /\ TakeCompletions /\ UNCHANGED <<owner, phase, tokens, chunkQueue, chunkRes>>
    BY <1>7 DEF PollTake, TakeCompletions
  <2>2. InOrderPrefix' = {}
    BY <1>1, <2>1, PrefixTaken DEF TakeCompletions
  <2> QED
    BY <1>1, <2>1, <2>2 DEF WokenInv, OnlyReads
<1>8. CASE SettleOne
  <2>1. PICK id \in OpIds : id \in InBatch /\ Unreserve(id)
    BY <1>8 DEF SettleOne, InBatch
  <2>2. UNCHANGED <<owner, phase, boa>>
    BY <1>8 DEF SettleOne
  <2>3. id \notin order /\ id \notin completed
    BY <1>2, <2>1 DEF InBatch, RequestInv, OpInv, EntryAt
  <2>4. /\ order' = order /\ completed' = completed /\ woken' = woken
        /\ chunkRes' = {} /\ tokens' \subseteq tokens
        /\ \A x \in OpIds : chunkQueue'[x] = 0
    <3>1. CASE id \in tokens
      <4>1. /\ order' = order \ {id} /\ completed' = completed \ {id} /\ woken' = woken
            /\ tokens' = tokens \ {id} /\ chunkRes' = chunkRes \ {id}
            /\ chunkQueue' = [chunkQueue EXCEPT ![id] = 0]
        BY <2>1, <3>1 DEF Unreserve
      <4>2. \A x \in OpIds : chunkQueue'[x] = 0
        BY <1>1, <4>1, MapTypes
      <4> QED
        BY <1>1, <2>3, <4>1, <4>2
    <3>2. CASE id \notin tokens
      BY <1>1, <2>1, <3>2 DEF Unreserve
    <3> QED
      BY <3>1, <3>2
  <2>5. InOrderPrefix' = InOrderPrefix
    BY <1>1, <2>4 DEF InOrderPrefix
  <2> QED
    BY <1>1, <2>2, <2>4, <2>5 DEF WokenInv, OnlyReads
<1>9. CASE CloseBridge
  <2>1. /\ tokens' = {} /\ order' = {} /\ chunkRes' = {}
        /\ \A x \in OpIds : chunkQueue'[x] = 0
        /\ UNCHANGED <<owner, phase>>
    BY <1>9 DEF CloseBridge, ShutdownBridge
  <2>2. InOrderPrefix' = {}
    BY <2>1 DEF InOrderPrefix
  <2> QED
    BY <1>1, <2>1, <2>2 DEF WokenInv, OnlyReads
<1>10. ASSUME NEW w \in Workers, WorkerPush(w) PROVE WokenInv'
  <2>1. PICK id : id = worker[w].op
    OBVIOUS
  <2>2. /\ IF owner[id] = "whole" THEN PushWhole(id, worker[w].outcome) ELSE PushChunk(id)
        /\ UNCHANGED <<owner, phase, boa>>
    BY <1>10, <2>1 DEF WorkerPush
  <2>3. /\ UNCHANGED <<tokens, order, chunkQueue, chunkRes>>
        /\ woken' = TRUE \/ (woken' = woken /\ completed' = completed)
    BY <1>1, <2>2 DEF PushWhole, PushChunk, PushIsStale
  <2>4. woken' = woken /\ completed' = completed => InOrderPrefix' = InOrderPrefix
    BY <2>3 DEF InOrderPrefix
  <2> QED
    BY <1>1, <2>2, <2>3, <2>4 DEF WokenInv, OnlyReads
<1> QED
  BY <1>3, <1>4, <1>5, <1>6, <1>7, <1>8, <1>9, <1>10 DEF Next, Poll, Shutdown, Worker

\* Where only promise reads share the bridge, completions that poll_io could
\* deliver have woken the host (push_completion, wake_host).  Chunk users break
\* this: a marker of theirs that goes away can make a completion ready unseen.
THEOREM ReadyReadsHaveWoken ==
    ASSUME ChunkKinds = {} PROVE Spec => []ReadyMeansWoken
<1>1. Init => WokenInv
  <2> SUFFICES ASSUME Init PROVE WokenInv
    OBVIOUS
  <2> QED
    BY DEF Init, BridgeInit, WokenInv, OnlyReads, InOrderPrefix
<1>2. TypeOK /\ TypeOK' /\ (BridgeSide /\ CallSide) /\ RequestInv /\ WokenInv /\ [Next]_vars => WokenInv'
  BY WokenPreserved
<1>3. TypeOK /\ WokenInv => ReadyMeansWoken
  BY MapTypes DEF WokenInv, OnlyReads, ReadyMeansWoken, QueuedChunks
<1> QED
  BY <1>1, <1>2, <1>3, TypeCorrect, OrderInvariant, RequestInvariant, PTL DEF Spec
=============================================================================
