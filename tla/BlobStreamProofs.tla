-------------------------- MODULE BlobStreamProofs --------------------------
(***************************************************************************)
(* Theorems about BlobStream, for every value of its constants: each call  *)
(* is answered once, one request serves those that wait, slots and tables  *)
(* go together, only unreachable streams are abandoned, and the stream     *)
(* that scripts see is a ByteStream.                                       *)
(***************************************************************************)
EXTENDS BlobStream, FiniteSetTheorems, TLAPS

-----------------------------------------------------------------------------
(* Sequences.                                                               *)

\* What concatenation returns.
LEMMA ConcatFacts ==
    ASSUME NEW S, NEW s \in Seq(S), NEW t \in Seq(S)
    PROVE  /\ s \o t \in Seq(S)
           /\ Len(s \o t) = Len(s) + Len(t)
           /\ \A i \in 1 .. Len(s) : (s \o t)[i] = s[i]
           /\ \A i \in 1 .. Len(t) : (s \o t)[Len(s) + i] = t[i]
OBVIOUS

\* An element of a concatenation is from one of its parts.
LEMMA ConcatElements ==
    ASSUME NEW S, NEW s \in Seq(S), NEW t \in Seq(S), NEW i \in 1 .. Len(s \o t)
    PROVE  \/ i \in 1 .. Len(s) /\ (s \o t)[i] = s[i]
           \/ \E j \in 1 .. Len(t) : i = Len(s) + j /\ (s \o t)[i] = t[j]
<1>1. Len(s) \in Nat /\ Len(t) \in Nat /\ i \in Nat
  BY ConcatFacts
<1>2. CASE i <= Len(s)
  BY <1>1, <1>2, ConcatFacts
<1>3. CASE i > Len(s)
  <2>1. i - Len(s) \in 1 .. Len(t) /\ i = Len(s) + (i - Len(s))
    BY <1>1, <1>3, ConcatFacts
  <2> QED
    BY <2>1, ConcatFacts
<1> QED
  BY <1>1, <1>2, <1>3

\* What Append returns.
LEMMA AppendFacts ==
    ASSUME NEW S, NEW s \in Seq(S), NEW e \in S
    PROVE  /\ Append(s, e) \in Seq(S)
           /\ Len(Append(s, e)) = Len(s) + 1
           /\ \A i \in 1 .. Len(s) : Append(s, e)[i] = s[i]
           /\ Append(s, e)[Len(s) + 1] = e
OBVIOUS

\* The elements of a sequence have its type.
LEMMA ElementsTyped ==
    ASSUME NEW S, NEW s \in Seq(S), NEW i \in 1 .. Len(s) PROVE s[i] \in S
OBVIOUS

\* What Head and Tail return.
LEMMA TailFacts ==
    ASSUME NEW S, NEW s \in Seq(S), s # << >>
    PROVE  /\ Len(s) >= 1
           /\ Head(s) = s[1] /\ Head(s) \in S
           /\ Tail(s) \in Seq(S)
           /\ Len(Tail(s)) = Len(s) - 1
           /\ \A i \in 1 .. Len(s) - 1 : Tail(s)[i] = s[i + 1]
OBVIOUS

\* What is left of a sequence without one element is from it.
LEMMA RemoveAtFacts ==
    ASSUME NEW S, NEW s \in Seq(S), NEW i \in 1 .. Len(s)
    PROVE  /\ RemoveAt(s, i) \in Seq(S)
           /\ Len(RemoveAt(s, i)) = Len(s) - 1
           /\ \A j \in 1 .. Len(s) - 1 : \E k \in 1 .. Len(s) : RemoveAt(s, i)[j] = s[k]
<1>0. Len(s) \in Nat /\ i \in Nat /\ i >= 1 /\ i <= Len(s)
  OBVIOUS
<1>1. PICK a : a = SubSeq(s, 1, i - 1)
  OBVIOUS
<1>2. PICK b : b = SubSeq(s, i + 1, Len(s))
  OBVIOUS
<1>6. a \in Seq(S) /\ Len(a) = i - 1 /\ \A j \in 1 .. i - 1 : a[j] = s[j]
  BY <1>0, <1>1
<1>7. b \in Seq(S) /\ Len(b) = Len(s) - i /\ \A j \in 1 .. Len(s) - i : b[j] = s[j + i]
  BY <1>0, <1>2
<1>3. RemoveAt(s, i) = a \o b
  BY <1>1, <1>2 DEF RemoveAt
<1>8. a \o b \in Seq(S) /\ Len(a \o b) = Len(a) + Len(b)
  <2>1. a \in Seq(S)
    BY <1>6
  <2>2. b \in Seq(S)
    BY <1>7
  <2> QED
    BY <2>1, <2>2
<1>4. a \o b \in Seq(S) /\ Len(a \o b) = Len(s) - 1
  BY <1>0, <1>6, <1>7, <1>8
<1>9. /\ \A x \in 1 .. Len(a) : (a \o b)[x] = a[x]
      /\ \A x \in 1 .. Len(b) : (a \o b)[Len(a) + x] = b[x]
  <2>1. a \in Seq(S) /\ b \in Seq(S)
    BY <1>6, <1>7
  <2> QED
    BY ONLY <2>1, ConcatFacts
<1>5. ASSUME NEW j \in 1 .. Len(s) - 1 PROVE \E k \in 1 .. Len(s) : (a \o b)[j] = s[k]
  <2>1. CASE j <= i - 1
    <3>1. j \in 1 .. i - 1 /\ j \in 1 .. Len(a)
      BY <1>0, <1>6, <2>1
    <3>2. (a \o b)[j] = s[j]
      BY ONLY <3>1, <1>6, <1>9
    <3> QED
      BY <1>0, <3>2
  <2>2. CASE ~(j <= i - 1)
    <3>1. PICK x \in 1 .. Len(s) - i : j = Len(a) + x
      <4>1. j - Len(a) \in 1 .. Len(s) - i /\ j = Len(a) + (j - Len(a))
        BY <1>0, <1>6, <2>2
      <4> QED
        BY ONLY <4>1
    <3>2. (a \o b)[j] = s[x + i]
      BY ONLY <3>1, <1>7, <1>9
    <3>3. x + i \in 1 .. Len(s)
      BY <1>0, <3>1
    <3> QED
      BY <3>2, <3>3
  <2> QED
    BY ONLY <2>1, <2>2
<1> QED
  BY <1>3, <1>4, <1>5

-----------------------------------------------------------------------------
(* The bridge.                                                              *)

\* Operation ids are positive numbers, and there are finitely many.
LEMMA IdsAreNumbers ==
    /\ \A id \in OpIds : id \in Nat /\ id # 0
    /\ \A S \in SUBSET OpIds : IsFiniteSet(S)
<1>1. IsFiniteSet(OpIds)
  BY FS_Interval, BridgeAssumption DEF OpIds
<1>2. \A S \in SUBSET OpIds : IsFiniteSet(S)
  BY <1>1, FS_Subset
<1>3. \A id \in OpIds : id \in Nat /\ id # 0
  BY BridgeAssumption DEF OpIds
<1> QED
  BY <1>2, <1>3

\* The critical sections that streams use keep the bridge well typed.
LEMMA BridgeStepTypes ==
    ASSUME BridgeTypeOK, flagShut' \in BOOLEAN,
           \/ \E id : Reserve(id)
           \/ ReserveFails
           \/ \E id \in OpIds : Unreserve(id) /\ cancelled' \subseteq OpIds
           \/ \E id \in OpIds : PushChunk(id)
           \/ \E drained : TakeChunks(drained)
           \/ ShutdownBridge
           \/ UNCHANGED bridgeVars
    PROVE  BridgeTypeOK'
<1>1. ASSUME NEW id, Reserve(id) PROVE BridgeTypeOK'
  BY <1>1, BridgeAssumption DEF BridgeTypeOK, Reserve, OpIds
<1>2. CASE ReserveFails
  <2>1. MayDrawId \in BOOLEAN
    BY DEF MayDrawId
  <2> QED
    BY <1>2, <2>1 DEF BridgeTypeOK, ReserveFails
<1>3. ASSUME NEW id \in OpIds, Unreserve(id), cancelled' \subseteq OpIds PROVE BridgeTypeOK'
  <2>1. CASE id \in tokens
    <3>1. active' \in Nat
      BY <1>3, <2>1 DEF BridgeTypeOK, Unreserve
    <3>2. /\ completions' \in [OpIds -> Outcomes \cup {"none"}]
          /\ chunkQueue' \in [OpIds -> Nat]
      BY <1>3, <2>1 DEF BridgeTypeOK, Unreserve
    <3> QED
      BY <1>3, <2>1, <3>1, <3>2 DEF BridgeTypeOK, Unreserve
  <2> QED
    BY <1>3, <2>1 DEF BridgeTypeOK, Unreserve
<1>4. ASSUME NEW id \in OpIds, PushChunk(id) PROVE BridgeTypeOK'
  <2>1. chunkQueue' \in [OpIds -> Nat]
    BY <1>4 DEF BridgeTypeOK, PushChunk
  <2> QED
    BY <1>4, <2>1 DEF BridgeTypeOK, PushChunk
<1>5. ASSUME NEW drained, TakeChunks(drained) PROVE BridgeTypeOK'
  <2>1. chunkQueue' \in [OpIds -> Nat] /\ woken' \in BOOLEAN
    BY <1>5 DEF BridgeTypeOK, TakeChunks
  <2> QED
    BY <1>5, <2>1 DEF BridgeTypeOK, TakeChunks
<1>6. CASE ShutdownBridge
  <2>1. /\ completions' \in [OpIds -> Outcomes \cup {"none"}]
        /\ chunkQueue' \in [OpIds -> Nat]
    BY <1>6 DEF ShutdownBridge
  <2> QED
    BY <1>6, <2>1 DEF BridgeTypeOK, ShutdownBridge
<1>7. CASE UNCHANGED bridgeVars
  BY <1>7 DEF BridgeTypeOK, bridgeVars
<1> QED
  BY <1>1, <1>2, <1>3, <1>4, <1>5, <1>6, <1>7

-----------------------------------------------------------------------------
(* Types.                                                                   *)

\* Offsets and calls are numbers.
LEMMA DataTypes ==
    /\ \A n \in Offsets : n \in Nat
    /\ \A c \in Calls : c \in Nat /\ c # 0
    /\ \A b \in Blobs : b.chunks \in Nat /\ \A n \in Nat : n <= b.chunks => n \in Offsets
    /\ Waiting \in AnyAnswer /\ Done \in AnyAnswer /\ Failed \in AnyAnswer
    /\ Done # Waiting /\ Failed # Waiting
    /\ \A n : Part(n) # Waiting
    /\ \A b \in Blobs, n \in Nat : n >= 1 /\ n <= b.chunks + 1 => Part(n) \in AnyAnswer
<1>1. \A b \in Blobs : b.chunks \in Nat
  BY StreamAssumption
<1>2. \A n \in Offsets : n \in Nat
  BY <1>1 DEF Offsets
<1>3. \A c \in Calls : c \in Nat /\ c # 0
  BY StreamAssumption DEF Calls
<1>4. \A b \in Blobs, n \in Nat : n <= b.chunks => n \in Offsets
  BY <1>1 DEF Offsets
<1>5. ASSUME NEW b \in Blobs, NEW n \in Nat, n >= 1, n <= b.chunks + 1 PROVE Part(n) \in AnyAnswer
  <2>1. b.chunks + 1 \in MostParts /\ n \in 1 .. (b.chunks + 1)
    BY <1>1, <1>5 DEF MostParts
  <2> QED
    BY <2>1 DEF AnyAnswer
<1>6. Waiting \in AnyAnswer /\ Done \in AnyAnswer /\ Failed \in AnyAnswer
  BY DEF AnyAnswer
<1>7. Done # Waiting /\ Failed # Waiting /\ \A n : Part(n) # Waiting
  BY DEF Done, Waiting, Failed, Part, Answer
<1> QED
  BY <1>1, <1>2, <1>3, <1>4, <1>5, <1>6, <1>7

\* What TypeOK says of one stream.
LEMMA StreamTypes ==
    ASSUME TypeOK, NEW id \in OpIds
    PROVE  /\ stream[id] \in Stream
           /\ stream[id].queue \in Seq(Calls) /\ Len(stream[id].queue) \in Nat
           /\ stream[id].loaded \in Nat
           /\ requests[id] \in Seq(Offsets) /\ Len(requests[id]) \in Nat
           /\ landed[id] \in Seq(Completion) /\ Len(landed[id]) \in Nat
           /\ batch[id] \in Seq(Completion) /\ Len(batch[id]) \in Nat
           /\ Len(landed[id]) = chunkQueue[id]
<1>1. stream[id] \in Stream
  BY DEF TypeOK
<1>2. stream[id].queue \in Seq(Calls) /\ stream[id].loaded \in Nat
  BY <1>1, DataTypes DEF Stream
<1>3. requests[id] \in Seq(Offsets) /\ landed[id] \in Seq(Completion) /\ batch[id] \in Seq(Completion)
  BY DEF TypeOK
<1> QED
  BY <1>1, <1>2, <1>3 DEF TypeOK

-----------------------------------------------------------------------------
(* The inductive invariant.                                                 *)

\* Entry, payload and slot of the live streams, and who of them is waited for.
SlotInv ==
    /\ ops = payloads /\ ops = tokens /\ ops = order
    /\ active = Cardinality(ops)
    /\ demand = {id \in ops : stream[id].queue # << >>}

\* The Boa thread settles only inside poll_io; shutdown leaves no stream.
BoaInv ==
    /\ batch # Empty => boa = "settling"
    /\ boa = "closing" => flagShut
    /\ bridgeShut => flagShut
    /\ flagShut /\ boa # "closing" => ops = {}

\* A job answers a call that nobody else answers.
JobsInv ==
    /\ \A i \in 1 .. Len(jobs) :
          /\ jobs[i].answer # Waiting
          /\ reads[jobs[i].call] # 0 /\ promise[jobs[i].call] = Waiting
          /\ jobs[i].call \notin table
    /\ \A i, j \in 1 .. Len(jobs) : jobs[i].call = jobs[j].call => i = j

HasJob(c) == \E i \in 1 .. Len(jobs) : jobs[i].call = c

\* Calls are numbered as they come; one without an answer waits in the queue of
\* a live stream or has its job.
CallAt(c) ==
    /\ reads[c] = 0 => promise[c] = Waiting
    /\ reads[c] # 0 => /\ reads[c] < nextId
                       /\ \A earlier \in Calls : earlier < c => reads[earlier] # 0
    /\ c \in table => /\ promise[c] = Waiting /\ reads[c] \in ops
                      /\ \E i \in 1 .. Len(stream[reads[c]].queue) : stream[reads[c]].queue[i] = c
    /\ reads[c] # 0 /\ promise[c] = Waiting /\ ~flagShut => c \in table \/ HasJob(c)

\* Calls wait in the order they came, with their resolvers kept.
QueueAt(id) ==
    LET queue == stream[id].queue
    IN /\ \A i \in 1 .. Len(queue) : queue[i] \in table /\ reads[queue[i]] = id
       /\ \A i, j \in 1 .. Len(queue) : i < j => queue[i] < queue[j]

OnTheWay(id) == Len(requests[id]) + Len(landed[id]) + Len(batch[id])

\* One request or completion serves the calls that wait (OneRequestServes).
ServeAt(id) ==
    ~flagShut =>
        /\ stream[id].inFlight <=> stream[id].queue # << >>
        /\ OnTheWay(id) = IF stream[id].queue # << >> THEN 1 ELSE 0

\* It is for the chunk that the stream is at.
IsNext(id, done) ==
    /\ done.at = stream[id].loaded
    /\ done.kind # "error" => (done.kind = "eof" <=> done.at = blob[id].chunks)

DataAt(id) ==
    /\ blob[id] \in Blobs
    /\ stream[id].loaded <= blob[id].chunks
    /\ \A i \in 1 .. Len(requests[id]) : requests[id][i] = stream[id].loaded
    /\ \A i \in 1 .. Len(landed[id]) : IsNext(id, landed[id][i])
    /\ \A i \in 1 .. Len(batch[id]) : IsNext(id, batch[id][i])

\* An object that the script holds has not signalled that it is gone.
HeldAt(id) ==
    /\ "stream" \in holds[id] => signal[id].stream /\ stream[id].streamReg
    /\ "reader" \in holds[id] => signal[id].reader /\ stream[id].readerReg

LiveAt(id) == ServeAt(id) /\ DataAt(id) /\ HeldAt(id)

\* A stream that is over, or was not created yet, has no state left.
OverAt(id) == stream[id] = Closed /\ landed[id] = << >>

NewAt(id) == id \notin ops /\ requests[id] = << >> /\ batch[id] = << >> /\ holds[id] = {}

StreamAt(id) ==
    /\ QueueAt(id)
    /\ id \in ops => LiveAt(id)
    /\ id \notin ops => OverAt(id)
    /\ id >= nextId => NewAt(id)

IInv ==
    /\ SlotInv /\ BoaInv /\ JobsInv
    /\ \A c \in Calls : CallAt(c)
    /\ \A id \in OpIds : StreamAt(id)

-----------------------------------------------------------------------------
(* Frames.                                                                  *)

\* Steps that answer no call and queue none.
LEMMA SameCalls ==
    ASSUME TypeOK, IInv, UNCHANGED <<table, reads, promise, jobs>>,
           flagShut => flagShut', nextId' \in {nextId, nextId + 1}, ops \subseteq ops',
           \A x \in OpIds : stream'[x].queue = stream[x].queue
    PROVE  /\ JobsInv'
           /\ \A c \in Calls : CallAt(c)'
           /\ \A x \in OpIds : QueueAt(x)'
<1>1. JobsInv'
  BY DEF IInv, JobsInv
<1>2. \A x \in OpIds : QueueAt(x)'
  BY DEF IInv, StreamAt, QueueAt
<1>3. nextId \in Nat /\ \A c \in Calls : reads[c] \in OpIds \cup {0}
  BY BridgeAssumption DEF TypeOK, BridgeTypeOK
<1>4. ASSUME NEW c \in Calls PROVE CallAt(c)'
  <2>1. CallAt(c)
    BY DEF IInv
  <2>2. HasJob(c)' <=> HasJob(c)
    BY DEF HasJob
  <2>3. reads[c] # 0 => reads[c] \in OpIds /\ reads[c] \in Nat
    BY <1>3, IdsAreNumbers
  <2>4. c \in table => stream'[reads[c]].queue = stream[reads[c]].queue
    BY <1>3, <2>1, <2>3, IdsAreNumbers DEF CallAt, TypeOK
  <2> QED
    BY <1>3, <2>1, <2>2, <2>3, <2>4 DEF CallAt
<1> QED
  BY <1>1, <1>2, <1>4

\* Steps that leave a live stream's requests and completions alone.
LEMMA SameServed ==
    ASSUME NEW x \in OpIds, ServeAt(x), DataAt(x), flagShut => flagShut',
           requests'[x] = requests[x], landed'[x] = landed[x], batch'[x] = batch[x],
           blob'[x] = blob[x], stream'[x].queue = stream[x].queue,
           stream'[x].inFlight = stream[x].inFlight, stream'[x].loaded = stream[x].loaded
    PROVE  ServeAt(x)' /\ DataAt(x)'
<1>1. ServeAt(x)'
  BY DEF ServeAt, OnTheWay
<1>2. DataAt(x)'
  BY DEF DataAt, IsNext
<1> QED
  BY <1>1, <1>2

\* Steps of the Boa thread and of the collector that only touch the objects.
LEMMA SameButObjects ==
    ASSUME TypeOK, IInv, BoaInv',
           UNCHANGED <<nextId, tokens, order, active>>,
           UNCHANGED <<blob, ops, payloads, demand, table, requests, landed, batch, jobs,
                       reads, promise>>,
           flagShut => flagShut',
           \A x \in OpIds :
              /\ stream'[x].queue = stream[x].queue
              /\ stream'[x].inFlight = stream[x].inFlight
              /\ stream'[x].loaded = stream[x].loaded
              /\ x \in ops => HeldAt(x)'
              /\ x \notin ops => stream'[x] = stream[x]
              /\ x >= nextId => holds'[x] = {}
    PROVE  IInv'
<1>1. SlotInv'
  BY DEF IInv, SlotInv, TypeOK
<1>2. /\ JobsInv'
      /\ \A c \in Calls : CallAt(c)'
      /\ \A x \in OpIds : QueueAt(x)'
  BY SameCalls
<1>3. ASSUME NEW x \in OpIds PROVE StreamAt(x)'
  <2>1. StreamAt(x)
    BY DEF IInv
  <2>2. x \in ops' => LiveAt(x)'
    BY <2>1, SameServed DEF StreamAt, LiveAt
  <2>3. x \notin ops' => OverAt(x)'
    BY <2>1 DEF StreamAt, OverAt, Closed
  <2>4. x >= nextId' => NewAt(x)'
    BY <2>1 DEF StreamAt, NewAt
  <2> QED
    BY <1>2, <2>2, <2>3, <2>4 DEF StreamAt
<1> QED
  BY <1>1, <1>2, <1>3 DEF IInv

-----------------------------------------------------------------------------
(* The objects.                                                             *)

\* The bridge is left alone.
LEMMA SameBridge ==
    ASSUME TypeOK, UNCHANGED <<bridgeVars, flagShut>> PROVE BridgeTypeOK'
BY BridgeStepTypes DEF TypeOK, BridgeTypeOK

\* Who has no stream holds none.
LEMMA HoldersAreCreated ==
    ASSUME TypeOK, IInv, NEW id \in OpIds, holds[id] # {} PROVE ~(id >= nextId)
BY DEF IInv, StreamAt, NewAt

\* getReader takes the lock.
LEMMA GetReaderStep ==
    ASSUME TypeOK, IInv, NEW id \in OpIds, GetReader(id) PROVE TypeOK' /\ IInv'
<1>1. /\ UNCHANGED objectsOnly /\ id \in ops
      /\ signal' = [signal EXCEPT ![id].reader = TRUE]
      /\ holds' = [holds EXCEPT ![id] = holds[id] \cup {"reader"}]
      /\ stream' = [stream EXCEPT ![id].locked = TRUE, ![id].readerReg = TRUE]
  BY DEF GetReader
<1>2. stream \in [OpIds -> Stream] /\ holds[id] \in SUBSET {"stream", "reader", "released"}
  BY DEF TypeOK
<1>3. /\ \A x \in OpIds \ {id} : stream'[x] = stream[x] /\ holds'[x] = holds[x] /\ signal'[x] = signal[x]
      /\ stream'[id].queue = stream[id].queue /\ stream'[id].inFlight = stream[id].inFlight
      /\ stream'[id].loaded = stream[id].loaded /\ stream'[id].streamReg = stream[id].streamReg
      /\ stream'[id].readerReg = TRUE /\ holds'[id] = holds[id] \cup {"reader"}
      /\ signal'[id].reader = TRUE /\ signal'[id].stream = signal[id].stream
      /\ stream' \in [OpIds -> Stream]
  <2>1. stream[id] \in Stream
    BY <1>2
  <2>2. PICK s : s = [stream[id] EXCEPT !.locked = TRUE, !.readerReg = TRUE]
    OBVIOUS
  <2>3. /\ s \in Stream /\ s.queue = stream[id].queue /\ s.inFlight = stream[id].inFlight
        /\ s.loaded = stream[id].loaded /\ s.streamReg = stream[id].streamReg
        /\ s.readerReg = TRUE
    BY <2>1, <2>2 DEF Stream
  <2>4. stream' = [stream EXCEPT ![id] = s]
    BY <1>1, <2>2
  <2>5. stream' \in [OpIds -> Stream] /\ stream'[id] = s /\ \A x \in OpIds \ {id} : stream'[x] = stream[x]
    BY <1>2, <2>3, <2>4
  <2>6. /\ \A x \in OpIds \ {id} : holds'[x] = holds[x] /\ signal'[x] = signal[x]
        /\ holds'[id] = holds[id] \cup {"reader"}
        /\ signal'[id].reader = TRUE /\ signal'[id].stream = signal[id].stream
    BY <1>1 DEF TypeOK
  <2> QED
    BY <2>3, <2>5, <2>6
<1>4. TypeOK'
  <2>1. BridgeTypeOK'
    BY <1>1, SameBridge DEF objectsOnly
  <2>2. /\ signal' \in [OpIds -> [stream : BOOLEAN, reader : BOOLEAN]]
        /\ holds' \in [OpIds -> SUBSET {"stream", "reader", "released"}]
    BY <1>1 DEF TypeOK
  <2> QED
    BY <1>1, <1>3, <2>1, <2>2 DEF TypeOK, objectsOnly, bridgeVars
<1>5. BoaInv'
  BY <1>1 DEF IInv, BoaInv, objectsOnly, bridgeVars
<1>6. ~(id >= nextId)
  BY <1>1 DEF IInv, StreamAt, NewAt
<1>7. \A x \in ops : HeldAt(x)
  BY DEF IInv, StreamAt, LiveAt, TypeOK
<1>8. ASSUME NEW x \in OpIds
      PROVE  /\ stream'[x].queue = stream[x].queue
             /\ stream'[x].inFlight = stream[x].inFlight
             /\ stream'[x].loaded = stream[x].loaded
             /\ x \in ops => HeldAt(x)'
             /\ x \notin ops => stream'[x] = stream[x]
             /\ x >= nextId => holds'[x] = {}
  BY <1>1, <1>3, <1>6, <1>7 DEF HeldAt, IInv, StreamAt, NewAt
<1> QED
  BY <1>1, <1>4, <1>5, <1>8, SameButObjects DEF objectsOnly, bridgeVars

\* releaseLock gives it back.
LEMMA ReleaseLockStep ==
    ASSUME TypeOK, IInv, NEW id \in OpIds, ReleaseLock(id) PROVE TypeOK' /\ IInv'
<1>1. /\ UNCHANGED objectsOnly /\ holds[id] # {}
      /\ signal' = [signal EXCEPT ![id].reader = FALSE]
      /\ holds' = [holds EXCEPT ![id] = (holds[id] \ {"reader"}) \cup {"released"}]
      /\ stream' = IF id \notin ops THEN stream
                   ELSE [stream EXCEPT ![id].locked = FALSE, ![id].readerReg = FALSE]
  BY DEF ReleaseLock
<1>2. stream \in [OpIds -> Stream] /\ holds[id] \in SUBSET {"stream", "reader", "released"}
  BY DEF TypeOK
<1>3. /\ \A x \in OpIds \ {id} : stream'[x] = stream[x] /\ holds'[x] = holds[x] /\ signal'[x] = signal[x]
      /\ stream'[id].queue = stream[id].queue /\ stream'[id].inFlight = stream[id].inFlight
      /\ stream'[id].loaded = stream[id].loaded /\ stream'[id].streamReg = stream[id].streamReg
      /\ id \notin ops => stream'[id] = stream[id]
      /\ holds'[id] = (holds[id] \ {"reader"}) \cup {"released"}
      /\ signal'[id].stream = signal[id].stream
      /\ stream' \in [OpIds -> Stream]
  <2>1. stream[id] \in Stream
    BY <1>2
  <2>2. PICK s : s = IF id \notin ops THEN stream[id]
                     ELSE [stream[id] EXCEPT !.locked = FALSE, !.readerReg = FALSE]
    OBVIOUS
  <2>3. /\ s \in Stream /\ s.queue = stream[id].queue /\ s.inFlight = stream[id].inFlight
        /\ s.loaded = stream[id].loaded /\ s.streamReg = stream[id].streamReg
        /\ id \notin ops => s = stream[id]
    BY <2>1, <2>2 DEF Stream
  <2>4. stream' = [stream EXCEPT ![id] = s]
    BY <1>1, <1>2, <2>2
  <2>5. stream' \in [OpIds -> Stream] /\ stream'[id] = s /\ \A x \in OpIds \ {id} : stream'[x] = stream[x]
    BY <1>2, <2>3, <2>4
  <2>6. /\ \A x \in OpIds \ {id} : holds'[x] = holds[x] /\ signal'[x] = signal[x]
        /\ holds'[id] = (holds[id] \ {"reader"}) \cup {"released"}
        /\ signal'[id].stream = signal[id].stream
    BY <1>1 DEF TypeOK
  <2> QED
    BY <2>3, <2>5, <2>6
<1>4. TypeOK'
  <2>1. BridgeTypeOK'
    BY <1>1, SameBridge DEF objectsOnly
  <2>2. /\ signal' \in [OpIds -> [stream : BOOLEAN, reader : BOOLEAN]]
        /\ holds' \in [OpIds -> SUBSET {"stream", "reader", "released"}]
    BY <1>1 DEF TypeOK
  <2> QED
    BY <1>1, <1>3, <2>1, <2>2 DEF TypeOK, objectsOnly, bridgeVars
<1>5. BoaInv'
  BY <1>1 DEF IInv, BoaInv, objectsOnly, bridgeVars
<1>6. ~(id >= nextId)
  BY <1>1 DEF IInv, StreamAt, NewAt
<1>7. \A x \in ops : HeldAt(x)
  BY DEF IInv, StreamAt, LiveAt, TypeOK
<1>8. ASSUME NEW x \in OpIds
      PROVE  /\ stream'[x].queue = stream[x].queue
             /\ stream'[x].inFlight = stream[x].inFlight
             /\ stream'[x].loaded = stream[x].loaded
             /\ x \in ops => HeldAt(x)'
             /\ x \notin ops => stream'[x] = stream[x]
             /\ x >= nextId => holds'[x] = {}
  BY <1>1, <1>3, <1>6, <1>7 DEF HeldAt, IInv, StreamAt, NewAt
<1> QED
  BY <1>1, <1>4, <1>5, <1>8, SameButObjects DEF objectsOnly, bridgeVars

\* A collected object is not held any more.
LEMMA CollectStep ==
    ASSUME TypeOK, IInv, NEW id \in OpIds, NEW object \in {"stream", "reader", "released"},
           Collect(id, object)
    PROVE  TypeOK' /\ IInv'
<1>1. /\ UNCHANGED <<stream, objectsOnly>>
      /\ holds' = [holds EXCEPT ![id] = holds[id] \ {object}]
      /\ signal' = CASE object = "stream"   -> [signal EXCEPT ![id].stream = FALSE]
                     [] object = "reader"   -> [signal EXCEPT ![id].reader = FALSE]
                     [] object = "released" -> signal
  BY DEF Collect
<1>3. /\ \A x \in OpIds \ {id} : holds'[x] = holds[x] /\ signal'[x] = signal[x]
      /\ holds'[id] = holds[id] \ {object}
      /\ object # "stream" => signal'[id].stream = signal[id].stream
      /\ object # "reader" => signal'[id].reader = signal[id].reader
      /\ signal' \in [OpIds -> [stream : BOOLEAN, reader : BOOLEAN]]
      /\ holds' \in [OpIds -> SUBSET {"stream", "reader", "released"}]
  <2>1. /\ signal \in [OpIds -> [stream : BOOLEAN, reader : BOOLEAN]]
        /\ holds \in [OpIds -> SUBSET {"stream", "reader", "released"}]
    BY DEF TypeOK
  <2>2. CASE object = "stream"
    BY <1>1, <2>1, <2>2
  <2>3. CASE object = "reader"
    BY <1>1, <2>1, <2>3
  <2>4. CASE object = "released"
    BY <1>1, <2>1, <2>4
  <2> QED
    BY <2>2, <2>3, <2>4
<1>4. TypeOK'
  <2>1. BridgeTypeOK'
    BY <1>1, SameBridge DEF objectsOnly
  <2> QED
    BY <1>1, <1>3, <2>1 DEF TypeOK, objectsOnly, bridgeVars
<1>5. BoaInv'
  BY <1>1 DEF IInv, BoaInv, objectsOnly, bridgeVars
<1>7. \A x \in ops : HeldAt(x)
  BY DEF IInv, StreamAt, LiveAt, TypeOK
<1>8. ASSUME NEW x \in OpIds
      PROVE  /\ x \in ops => HeldAt(x)'
             /\ x >= nextId => holds'[x] = {}
  <2>1. CASE x = id
    BY <1>1, <1>3, <1>7, <2>1 DEF HeldAt, IInv, StreamAt, NewAt
  <2>2. CASE x # id
    BY <1>1, <1>3, <1>7, <2>2 DEF HeldAt, IInv, StreamAt, NewAt
  <2> QED
    BY <2>1, <2>2
<1> QED
  BY <1>1, <1>4, <1>5, <1>8, SameButObjects DEF objectsOnly, bridgeVars

\* The sweep reads the signals of the live streams.
LEMMA SweepStep ==
    ASSUME TypeOK, IInv, SweepBegins PROVE TypeOK' /\ IInv'
<1>1. /\ boa' \in {"sweeping", "resweeping"}
      /\ boa = "settling" => batch = Empty
      /\ boa \in {"idle", "settling"}
      /\ stream' = [id \in OpIds |-> IF id \in ops THEN Synced(id) ELSE stream[id]]
      /\ UNCHANGED <<bridgeVars, flagShut, blob, signal, holds, ops, payloads, demand,
                     errors, table, requests, landed, batch, jobs, reads, promise>>
  BY DEF SweepBegins
<1>2. ASSUME NEW x \in OpIds
      PROVE  LET s == Synced(x)
             IN /\ s \in Stream
                /\ s.queue = stream[x].queue /\ s.inFlight = stream[x].inFlight
                /\ s.loaded = stream[x].loaded
                /\ s.streamReg = (stream[x].streamReg /\ signal[x].stream)
                /\ s.readerReg = (stream[x].readerReg /\ signal[x].reader)
  <2>1. stream[x] \in Stream /\ signal[x].stream \in BOOLEAN /\ signal[x].reader \in BOOLEAN
    BY DEF TypeOK
  <2> QED
    BY <2>1 DEF Synced, Stream
<1>3. stream' \in [OpIds -> Stream]
  BY <1>1, <1>2 DEF TypeOK
<1>4. TypeOK'
  <2>1. BridgeTypeOK'
    BY <1>1, SameBridge
  <2> QED
    BY <1>1, <1>3, <2>1 DEF TypeOK, bridgeVars
<1>5. BoaInv'
  BY <1>1 DEF IInv, BoaInv, bridgeVars
<1>7. \A x \in ops : HeldAt(x)
  BY DEF IInv, StreamAt, LiveAt, TypeOK
<1>8. ASSUME NEW x \in OpIds
      PROVE  /\ stream'[x].queue = stream[x].queue
             /\ stream'[x].inFlight = stream[x].inFlight
             /\ stream'[x].loaded = stream[x].loaded
             /\ x \in ops => HeldAt(x)'
             /\ x \notin ops => stream'[x] = stream[x]
             /\ x >= nextId => holds'[x] = {}
  BY <1>1, <1>2, <1>7 DEF HeldAt, IInv, StreamAt, NewAt
<1> QED
  BY <1>1, <1>4, <1>5, <1>8, SameButObjects DEF bridgeVars

\* The end of poll_io, a stream that cannot be created, the shutdown flag.
LEMMA QuietStep ==
    ASSUME TypeOK, IInv, PollEnds \/ CloseFlag \/ CreateStreamFails \/ UNCHANGED vars
    PROVE  TypeOK' /\ IInv'
<1>1. /\ UNCHANGED <<nextId, tokens, order, active, bridgeShut>>
      /\ UNCHANGED <<blob, stream, signal, holds, ops, payloads, demand, errors, table,
                     requests, landed, batch, jobs, reads, promise, chunkQueue>>
      /\ flagShut' \in BOOLEAN /\ (flagShut => flagShut')
  BY DEF PollEnds, CloseFlag, CreateStreamFails, ReserveFails, vars, bridgeVars, streamVars,
         TypeOK, BridgeTypeOK
<1>2. TypeOK'
  <2>1. BridgeTypeOK'
    BY <1>1, BridgeStepTypes DEF PollEnds, CloseFlag, CreateStreamFails, vars, TypeOK
  <2> QED
    BY <1>1, <2>1 DEF PollEnds, CloseFlag, CreateStreamFails, vars, streamVars, TypeOK
<1>3. BoaInv'
  BY <1>1 DEF PollEnds, CloseFlag, CreateStreamFails, vars, streamVars, IInv, BoaInv
<1>4. \A x \in OpIds : (x \in ops => HeldAt(x)') /\ (x >= nextId => holds'[x] = {})
  BY <1>1 DEF IInv, StreamAt, LiveAt, HeldAt, NewAt
<1> QED
  BY <1>1, <1>2, <1>3, <1>4, SameButObjects

-----------------------------------------------------------------------------
(* A new stream, a job, a worker, the drain and shutdown.                   *)

\* An id that was not drawn yet is nobody's.
LEMMA CreateStreamStep ==
    ASSUME TypeOK, IInv, CreateStream PROVE TypeOK' /\ IInv'
<1>1. PICK id \in OpIds, b \in Blobs :
         /\ Reserve(id)
         /\ blob' = [blob EXCEPT ![id] = b]
         /\ stream' = [stream EXCEPT ![id].streamReg = TRUE]
         /\ signal' = [signal EXCEPT ![id].stream = TRUE]
         /\ holds' = [holds EXCEPT ![id] = {"stream"}]
         /\ ops' = ops \cup {id} /\ payloads' = payloads \cup {id}
         /\ boa = "idle"
         /\ UNCHANGED <<flagShut, demand, errors, table, requests, landed, batch,
                        boa, jobs, reads, promise>>
  BY DEF CreateStream
<1>2. /\ id = nextId /\ nextId' = nextId + 1 /\ ~flagShut
      /\ tokens' = tokens \cup {id} /\ order' = order \cup {id} /\ active' = active + 1
      /\ chunkQueue' = chunkQueue /\ bridgeShut' = bridgeShut
  BY <1>1 DEF Reserve, MayDrawId, IsShutdown
<1>3. nextId \in Nat /\ \A x \in OpIds : x \in Nat
  BY BridgeAssumption, IdsAreNumbers DEF TypeOK, BridgeTypeOK
<1>4. id \notin ops /\ stream[id] = Closed /\ landed[id] = << >> /\ NewAt(id)
  BY <1>2, <1>3 DEF IInv, StreamAt, OverAt, NewAt
<1>5. /\ stream' \in [OpIds -> Stream]
      /\ \A x \in OpIds \ {id} : stream'[x] = stream[x] /\ holds'[x] = holds[x]
                                 /\ signal'[x] = signal[x] /\ blob'[x] = blob[x]
      /\ stream'[id].queue = << >> /\ stream'[id].inFlight = FALSE
      /\ stream'[id].loaded = 0 /\ stream'[id].streamReg = TRUE
      /\ holds'[id] = {"stream"} /\ signal'[id].stream = TRUE /\ blob'[id] = b
  <2>1. stream[id] \in Stream
    BY DEF TypeOK
  <2>2. PICK s : s = [stream[id] EXCEPT !.streamReg = TRUE]
    OBVIOUS
  <2>0. stream[id].queue = << >> /\ stream[id].inFlight = FALSE /\ stream[id].loaded = 0
    BY <1>4 DEF Closed
  <2>3. s \in Stream /\ s.queue = << >> /\ s.inFlight = FALSE /\ s.loaded = 0 /\ s.streamReg = TRUE
    BY <2>0, <2>1, <2>2 DEF Stream
  <2>4. stream' = [stream EXCEPT ![id] = s]
    BY <1>1, <2>2
  <2>5. /\ stream' \in [OpIds -> Stream] /\ stream'[id] = s
        /\ \A x \in OpIds \ {id} : stream'[x] = stream[x]
    BY <2>3, <2>4 DEF TypeOK
  <2>6. /\ \A x \in OpIds \ {id} : holds'[x] = holds[x] /\ signal'[x] = signal[x] /\ blob'[x] = blob[x]
        /\ holds'[id] = {"stream"} /\ signal'[id].stream = TRUE /\ blob'[id] = b
    BY <1>1 DEF TypeOK
  <2> QED
    BY <2>3, <2>5, <2>6
<1>6. TypeOK'
  <2>1. BridgeTypeOK'
    BY <1>1, BridgeStepTypes DEF TypeOK, BridgeTypeOK
  <2>2. /\ signal' \in [OpIds -> [stream : BOOLEAN, reader : BOOLEAN]]
        /\ holds' \in [OpIds -> SUBSET {"stream", "reader", "released"}]
        /\ blob' \in [OpIds -> Blobs \cup {NoBlob}]
    BY <1>1 DEF TypeOK
  <2>3. UNION {ops', payloads', demand', errors'} \subseteq OpIds
    BY <1>1 DEF TypeOK
  <2> QED
    BY <1>1, <1>2, <1>5, <2>1, <2>2, <2>3 DEF TypeOK
<1>7. SlotInv'
  <2>1. IsFiniteSet(ops)
    BY IdsAreNumbers DEF TypeOK
  <2>2. Cardinality(ops \cup {id}) = Cardinality(ops) + 1
    BY <1>4, <2>1, FS_AddElement
  <2>3. demand' = {x \in ops' : stream'[x].queue # << >>}
    BY <1>1, <1>4, <1>5 DEF IInv, SlotInv, TypeOK
  <2> QED
    BY <1>1, <1>2, <2>2, <2>3 DEF IInv, SlotInv
<1>8. BoaInv'
  BY <1>1, <1>2 DEF IInv, BoaInv
<1>9. \A x \in OpIds : stream'[x].queue = stream[x].queue
  BY <1>4, <1>5 DEF Closed
<1>10. /\ JobsInv'
       /\ \A c \in Calls : CallAt(c)'
       /\ \A x \in OpIds : QueueAt(x)'
  BY <1>1, <1>2, <1>9, SameCalls
<1>11. ASSUME NEW x \in OpIds PROVE StreamAt(x)'
  <2>1. CASE x = id
    <3>1. requests'[id] = << >> /\ landed'[id] = << >> /\ batch'[id] = << >>
      BY <1>1, <1>4 DEF NewAt
    <3>2. ServeAt(id)'
      BY <1>5, <3>1 DEF ServeAt, OnTheWay
    <3>3. b.chunks \in Nat
      BY DataTypes
    <3>4. DataAt(id)'
      BY <1>5, <3>1, <3>3 DEF DataAt
    <3>5. HeldAt(id)'
      BY <1>5 DEF HeldAt
    <3> QED
      BY <1>1, <1>2, <1>3, <1>10, <2>1, <3>2, <3>4, <3>5 DEF StreamAt, LiveAt
  <2>2. CASE x # id
    <3>1. StreamAt(x)
      BY DEF IInv
    <3>2. x \in ops' <=> x \in ops
      BY <1>1, <2>2
    <3>3. x \in ops => ServeAt(x)' /\ DataAt(x)'
      BY <1>1, <1>5, <2>2, <3>1, SameServed DEF StreamAt, LiveAt
    <3>4. x \in ops => HeldAt(x)'
      BY <1>5, <2>2, <3>1 DEF StreamAt, LiveAt, HeldAt
    <3>5. x \notin ops => OverAt(x)'
      BY <1>1, <1>5, <2>2, <3>1 DEF StreamAt, OverAt, Closed
    <3>6. x >= nextId' => NewAt(x)'
      BY <1>1, <1>2, <1>3, <1>5, <2>2, <3>1, <3>2 DEF StreamAt, NewAt
    <3> QED
      BY <1>10, <3>2, <3>3, <3>4, <3>5, <3>6 DEF StreamAt, LiveAt
  <2> QED
    BY <2>1, <2>2
<1> QED
  BY <1>6, <1>7, <1>8, <1>10, <1>11 DEF IInv

\* A job settles the promise of its call, which has no other job.
LEMMA RunJobStep ==
    ASSUME TypeOK, IInv, RunJob PROVE TypeOK' /\ IInv'
<1>1. /\ jobs # << >> /\ jobs \in Seq([call : Calls, answer : AnyAnswer])
      /\ promise' = [promise EXCEPT ![Head(jobs).call] = Head(jobs).answer]
      /\ jobs' = Tail(jobs)
      /\ UNCHANGED <<bridgeVars, flagShut, blob, stream, signal, holds, ops, payloads,
                     demand, errors, table, requests, landed, batch, boa, reads>>
  BY DEF RunJob, TypeOK
<1>2. /\ Head(jobs) = jobs[1] /\ jobs[1] \in [call : Calls, answer : AnyAnswer]
      /\ Len(jobs) \in Nat /\ Len(jobs) >= 1 /\ Len(jobs') = Len(jobs) - 1
      /\ jobs' \in Seq([call : Calls, answer : AnyAnswer])
      /\ \A i \in 1 .. Len(jobs') : jobs'[i] = jobs[i + 1] /\ i + 1 \in 1 .. Len(jobs) /\ i + 1 # 1
      /\ \A i \in 1 .. Len(jobs) : i # 1 => i - 1 \in 1 .. Len(jobs') /\ jobs'[i - 1] = jobs[i]
  <2>1. /\ Len(jobs) >= 1 /\ Head(jobs) = jobs[1] /\ Head(jobs) \in [call : Calls, answer : AnyAnswer]
        /\ Tail(jobs) \in Seq([call : Calls, answer : AnyAnswer])
        /\ Len(Tail(jobs)) = Len(jobs) - 1
        /\ \A i \in 1 .. Len(jobs) - 1 : Tail(jobs)[i] = jobs[i + 1]
    BY <1>1, TailFacts
  <2>2. Len(jobs) \in Nat
    BY <1>1
  <2> QED
    BY <1>1, <2>1, <2>2
<1>3. PICK h \in Calls, a \in AnyAnswer : h = jobs[1].call /\ a = jobs[1].answer
  BY <1>2
<1>4. 1 \in 1 .. Len(jobs)
  BY <1>2
<1>5. a # Waiting /\ reads[h] # 0 /\ h \notin table
  BY <1>3, <1>4 DEF IInv, JobsInv
<1>6. /\ promise' \in [Calls -> AnyAnswer] /\ promise'[h] = a
      /\ \A c \in Calls \ {h} : promise'[c] = promise[c]
  BY <1>1, <1>2, <1>3 DEF TypeOK
<1>7. TypeOK'
  <2>1. BridgeTypeOK'
    BY <1>1, SameBridge
  <2> QED
    BY <1>1, <1>2, <1>6, <2>1 DEF TypeOK, bridgeVars
<1>8. SlotInv' /\ BoaInv'
  BY <1>1 DEF IInv, SlotInv, BoaInv, bridgeVars
<1>9. JobsInv'
  <2>1. ASSUME NEW i \in 1 .. Len(jobs')
        PROVE  /\ jobs'[i].answer # Waiting
               /\ reads'[jobs'[i].call] # 0 /\ promise'[jobs'[i].call] = Waiting
               /\ jobs'[i].call \notin table'
    <3>1. i + 1 \in 1 .. Len(jobs) /\ i + 1 # 1 /\ jobs'[i] = jobs[i + 1]
      BY <1>2
    <3>3. jobs[i + 1] \in [call : Calls, answer : AnyAnswer]
      BY <1>1, <3>1, ElementsTyped
    <3>2. jobs[i + 1].call \in Calls /\ jobs[i + 1].call # h
      BY <1>3, <1>4, <3>1, <3>3 DEF IInv, JobsInv
    <3> QED
      BY <1>1, <1>6, <3>1, <3>2 DEF IInv, JobsInv
  <2>2. ASSUME NEW i \in 1 .. Len(jobs'), NEW j \in 1 .. Len(jobs'), jobs'[i].call = jobs'[j].call
        PROVE  i = j
    <3>1. i + 1 = j + 1
      BY <1>2, <2>2 DEF IInv, JobsInv
    <3> QED
      BY <1>2, <3>1
  <2> QED
    BY <2>1, <2>2 DEF JobsInv
<1>10. ASSUME NEW c \in Calls PROVE CallAt(c)'
  <2>1. CallAt(c)
    BY DEF IInv
  <2>2. CASE c = h
    BY <1>1, <1>5, <1>6, <2>1, <2>2 DEF CallAt, bridgeVars
  <2>3. CASE c # h
    <3>1. HasJob(c) => HasJob(c)'
      BY <1>2, <1>3, <2>3 DEF HasJob
    <3> QED
      BY <1>1, <1>6, <2>1, <2>3, <3>1 DEF CallAt, bridgeVars
  <2> QED
    BY <2>2, <2>3
<1>11. ASSUME NEW x \in OpIds PROVE StreamAt(x)'
  <2>1. StreamAt(x)
    BY DEF IInv
  <2>2. QueueAt(x)'
    BY <1>1, <2>1 DEF StreamAt, QueueAt
  <2>3. x \in ops => ServeAt(x)' /\ DataAt(x)'
    BY <1>1, <2>1, SameServed DEF StreamAt, LiveAt
  <2> QED
    BY <1>1, <2>1, <2>2, <2>3 DEF StreamAt, LiveAt, HeldAt, OverAt, Closed, NewAt, bridgeVars
<1> QED
  BY <1>7, <1>8, <1>9, <1>10, <1>11 DEF IInv

\* A worker's push takes the place of its request, or is dropped.
LEMMA WorkerPushStep ==
    ASSUME TypeOK, IInv, NEW id \in OpIds, WorkerPush(id) PROVE TypeOK' /\ IInv'
<1>1. PICK i \in DOMAIN requests[id], kind \in {"chunk", "eof", "error"} :
         /\ requests' = [requests EXCEPT ![id] = RemoveAt(requests[id], i)]
         /\ IF IsShutdown \/ id \in cancelled THEN kind = "error"
            ELSE kind = "eof" <=> requests[id][i] = blob[id].chunks
         /\ landed' = IF PushIsStale(id) THEN landed
                      ELSE [landed EXCEPT ![id] = Append(landed[id], [kind |-> kind, at |-> requests[id][i]])]
  BY DEF WorkerPush
<1>2. /\ PushChunk(id)
      /\ UNCHANGED <<flagShut, blob, stream, signal, holds, ops, payloads, demand,
                     errors, table, batch, boa, jobs, reads, promise>>
  BY DEF WorkerPush
<1>3. PICK done : done = [kind |-> kind, at |-> requests[id][i]]
  OBVIOUS
<1>4. requests[id] \in Seq(Offsets) /\ i \in 1 .. Len(requests[id]) /\ requests[id][i] \in Offsets
  BY <1>1, StreamTypes
<1>5. done \in Completion /\ done.kind = kind /\ done.at = requests[id][i]
  BY <1>3, <1>4 DEF Completion
<1>6. PICK rest : rest = RemoveAt(requests[id], i)
  OBVIOUS
<1>7. /\ rest \in Seq(Offsets) /\ Len(rest) = Len(requests[id]) - 1
      /\ \A j \in 1 .. Len(rest) : \E k \in 1 .. Len(requests[id]) : rest[j] = requests[id][k]
  <2>1. /\ RemoveAt(requests[id], i) \in Seq(Offsets)
        /\ Len(RemoveAt(requests[id], i)) = Len(requests[id]) - 1
        /\ \A j \in 1 .. Len(requests[id]) - 1 :
              \E k \in 1 .. Len(requests[id]) : RemoveAt(requests[id], i)[j] = requests[id][k]
    BY ONLY <1>4, RemoveAtFacts
  <2>2. /\ rest \in Seq(Offsets) /\ Len(rest) = Len(requests[id]) - 1
        /\ \A j \in 1 .. Len(requests[id]) - 1 : \E k \in 1 .. Len(requests[id]) : rest[j] = requests[id][k]
    BY ONLY <2>1, <1>6
  <2> QED
    BY <2>2
<1>8. /\ requests' \in [OpIds -> Seq(Offsets)] /\ requests'[id] = rest
      /\ \A x \in OpIds \ {id} : requests'[x] = requests[x]
  BY <1>1, <1>6, <1>7 DEF TypeOK
<1>9. PICK more : more = Append(landed[id], done)
  OBVIOUS
<1>10. /\ more \in Seq(Completion) /\ Len(more) = Len(landed[id]) + 1 /\ Len(landed[id]) \in Nat
       /\ \A j \in 1 .. Len(landed[id]) : more[j] = landed[id][j]
       /\ more[Len(landed[id]) + 1] = done
  BY <1>5, <1>9, StreamTypes, AppendFacts
<1>11. landed' = IF PushIsStale(id) THEN landed ELSE [landed EXCEPT ![id] = more]
  BY <1>1, <1>3, <1>9
<1>12. /\ UNCHANGED <<nextId, tokens, order, active, bridgeShut>>
       /\ chunkQueue' = IF PushIsStale(id) THEN chunkQueue
                        ELSE [chunkQueue EXCEPT ![id] = chunkQueue[id] + 1]
  BY <1>2 DEF PushChunk
<1>13. TypeOK'
  <2>1. BridgeTypeOK'
    BY <1>2, BridgeStepTypes DEF TypeOK, BridgeTypeOK
  <2>2. landed' \in [OpIds -> Seq(Completion)]
    BY <1>10, <1>11 DEF TypeOK
  <2>3. \A x \in OpIds : Len(landed'[x]) = chunkQueue'[x]
    BY <1>10, <1>11, <1>12 DEF TypeOK, BridgeTypeOK
  <2> QED
    BY <1>2, <1>8, <2>1, <2>2, <2>3 DEF TypeOK
<1>14. SlotInv' /\ BoaInv'
  BY <1>2, <1>12 DEF IInv, SlotInv, BoaInv
<1>15. /\ JobsInv'
       /\ \A c \in Calls : CallAt(c)'
       /\ \A x \in OpIds : QueueAt(x)'
  BY <1>2, <1>12, SameCalls
<1>16. ASSUME NEW x \in OpIds PROVE StreamAt(x)'
  <2>1. StreamAt(x)
    BY DEF IInv
  <2>2. CASE x # id
    <3>1. requests'[x] = requests[x] /\ landed'[x] = landed[x]
      BY <1>8, <1>11, <2>2 DEF TypeOK
    <3>2. x \in ops => ServeAt(x)' /\ DataAt(x)'
      BY <1>2, <2>1, <3>1, SameServed DEF StreamAt, LiveAt
    <3> QED
      BY <1>2, <1>12, <1>15, <2>1, <3>1, <3>2 DEF StreamAt, LiveAt, HeldAt, OverAt, Closed, NewAt
  <2>3. CASE x = id
    <3>1. requests[id] # << >>
      BY <1>4
    <3>2. ~(id >= nextId)
      BY <2>1, <2>3, <3>1 DEF StreamAt, NewAt
    <3>3. CASE id \notin ops
      <4>1. PushIsStale(id)
        BY <3>3 DEF PushIsStale, IInv, SlotInv
      <4>2. OverAt(id)'
        BY <1>2, <1>11, <2>1, <2>3, <3>3, <4>1 DEF StreamAt, OverAt, Closed
      <4> QED
        BY <1>2, <1>12, <1>15, <2>3, <3>2, <3>3, <4>2 DEF StreamAt
    <3>4. CASE id \in ops
      <4>1. ServeAt(id) /\ DataAt(id) /\ HeldAt(id)
        BY <2>1, <2>3, <3>4 DEF StreamAt, LiveAt
      <4>2. HeldAt(id)'
        BY <1>2, <4>1 DEF HeldAt
      <4>3. Len(requests[id]) \in Nat /\ Len(batch[id]) \in Nat
        BY StreamTypes
      <4>4. CASE PushIsStale(id)
        <5>1. flagShut
          BY <3>4, <4>4 DEF PushIsStale, IsShutdown, IInv, SlotInv, BoaInv
        <5>2. ServeAt(id)'
          BY <1>2, <5>1 DEF ServeAt
        <5>3. landed'[id] = landed[id]
          BY <1>11, <4>4
        <5>4. DataAt(id)'
          BY <1>2, <1>7, <1>8, <4>1, <5>3 DEF DataAt, IsNext
        <5> QED
          BY <1>2, <1>12, <1>15, <2>3, <3>2, <3>4, <4>2, <5>2, <5>4 DEF StreamAt, LiveAt
      <4>5. CASE ~PushIsStale(id)
        <5>1. landed'[id] = more
          BY <1>11, <4>5 DEF TypeOK
        <5>2. OnTheWay(id)' = OnTheWay(id)
          <6>1. OnTheWay(id)' = Len(rest) + Len(more) + Len(batch[id])
            BY <1>2, <1>8, <5>1 DEF OnTheWay
          <6>2. Len(rest) = Len(requests[id]) - 1 /\ Len(more) = Len(landed[id]) + 1
            BY <1>7, <1>10
          <6>3. Len(landed[id]) \in Nat
            BY <1>10
          <6>4. Len(rest) + Len(more) = Len(requests[id]) + Len(landed[id])
            <7>1. \A a, b \in Nat : (a - 1) + (b + 1) = a + b
              OBVIOUS
            <7>2. (Len(requests[id]) - 1) + (Len(landed[id]) + 1) = Len(requests[id]) + Len(landed[id])
              BY <4>3, <6>3, <7>1
            <7> QED
              BY <6>2, <7>2
          <6> QED
            BY <6>1, <6>4 DEF OnTheWay
        <5>3. ServeAt(id)'
          BY <1>2, <4>1, <5>2 DEF ServeAt
        <5>4. IsNext(id, done)
          BY <1>1, <1>4, <1>5, <4>1, <4>5 DEF DataAt, IsNext, PushIsStale
        <5>5. \A j \in 1 .. Len(more) : IsNext(id, more[j])
          <6>1. \A j \in 1 .. Len(more) : j \in 1 .. Len(landed[id]) \/ j = Len(landed[id]) + 1
            BY <1>10
          <6> QED
            BY <1>10, <4>1, <5>4, <6>1 DEF DataAt
        <5>6. DataAt(id)'
          BY <1>2, <1>7, <1>8, <4>1, <5>1, <5>5 DEF DataAt, IsNext
        <5> QED
          BY <1>2, <1>12, <1>15, <2>3, <3>2, <3>4, <4>2, <5>3, <5>6 DEF StreamAt, LiveAt
      <4> QED
        BY <4>4, <4>5
    <3> QED
      BY <3>3, <3>4
  <2> QED
    BY <2>2, <2>3
<1> QED
  BY <1>13, <1>14, <1>15, <1>16 DEF IInv

\* poll_io takes what waits in the bridge.
LEMMA PollTakesStep ==
    ASSUME TypeOK, IInv, PollTakes PROVE TypeOK' /\ IInv'
<1>1. /\ TakeChunks(QueuedChunks) /\ boa = "sweeping" /\ boa' = "settling"
      /\ batch' = [id \in OpIds |-> IF id \in QueuedChunks THEN landed[id] ELSE << >>]
      /\ landed' = Empty
      /\ UNCHANGED <<flagShut, blob, stream, signal, holds, ops, payloads, demand,
                     errors, table, requests, jobs, reads, promise>>
  BY DEF PollTakes
<1>2. /\ UNCHANGED <<nextId, tokens, order, active, bridgeShut>>
      /\ chunkQueue' = [id \in OpIds |-> IF id \in order \ QueuedChunks THEN chunkQueue[id] ELSE 0]
  BY <1>1 DEF TakeChunks
<1>3. batch = Empty /\ ops = order
  BY <1>1 DEF IInv, BoaInv, SlotInv
<1>4. ASSUME NEW x \in OpIds
      PROVE  /\ landed'[x] = << >> /\ batch[x] = << >> /\ chunkQueue'[x] = 0
             /\ batch'[x] = IF x \in ops THEN landed[x] ELSE << >>
  <2>1. Len(landed[x]) = chunkQueue[x] /\ landed[x] \in Seq(Completion) /\ chunkQueue[x] \in Nat
    BY DEF TypeOK, BridgeTypeOK
  <2>2. x \in QueuedChunks <=> x \in ops /\ chunkQueue[x] > 0
    BY <1>3 DEF QueuedChunks
  <2>3. chunkQueue[x] = 0 => landed[x] = << >>
    BY <2>1
  <2> QED
    BY <1>1, <1>2, <1>3, <2>1, <2>2, <2>3 DEF Empty
<1>5. TypeOK'
  <2>1. BridgeTypeOK'
    BY <1>1, BridgeStepTypes DEF TypeOK, BridgeTypeOK
  <2>2. /\ landed' \in [OpIds -> Seq(Completion)]
        /\ batch' \in [OpIds -> Seq(Completion)]
    BY <1>1 DEF TypeOK, Empty
  <2>3. \A x \in OpIds : Len(landed'[x]) = chunkQueue'[x]
    BY <1>4
  <2> QED
    BY <1>1, <2>1, <2>2, <2>3 DEF TypeOK
<1>6. SlotInv' /\ BoaInv'
  BY <1>1, <1>2 DEF IInv, SlotInv, BoaInv
<1>7. /\ JobsInv'
      /\ \A c \in Calls : CallAt(c)'
      /\ \A x \in OpIds : QueueAt(x)'
  BY <1>1, <1>2, SameCalls
<1>8. ASSUME NEW x \in OpIds PROVE StreamAt(x)'
  <2>1. StreamAt(x)
    BY DEF IInv
  <2>2. x \notin ops' => OverAt(x)'
    BY <1>1, <1>4, <2>1 DEF StreamAt, OverAt, Closed
  <2>3. x >= nextId' => NewAt(x)'
    BY <1>1, <1>2, <1>4, <2>1 DEF StreamAt, NewAt
  <2>4. ASSUME x \in ops PROVE LiveAt(x)'
    <3>1. ServeAt(x) /\ DataAt(x) /\ HeldAt(x)
      BY <2>1, <2>4 DEF StreamAt, LiveAt
    <3>2. batch'[x] = landed[x] /\ landed'[x] = << >> /\ batch[x] = << >>
      BY <1>4, <2>4
    <3>3. OnTheWay(x)' = OnTheWay(x)
      <4>1. Len(requests[x]) \in Nat /\ Len(landed[x]) \in Nat
        BY StreamTypes
      <4>2. Len(<< >>) = 0
        OBVIOUS
      <4>3. OnTheWay(x)' = Len(requests[x]) + 0 + Len(landed[x])
        BY <1>1, <3>2, <4>2 DEF OnTheWay
      <4>4. OnTheWay(x) = Len(requests[x]) + Len(landed[x]) + 0
        BY <3>2, <4>2 DEF OnTheWay
      <4> QED
        BY <4>1, <4>3, <4>4
    <3>4. ServeAt(x)'
      BY <1>1, <3>1, <3>3 DEF ServeAt
    <3>5. DataAt(x)'
      BY <1>1, <3>1, <3>2 DEF DataAt, IsNext
    <3>6. HeldAt(x)'
      BY <1>1, <3>1 DEF HeldAt
    <3> QED
      BY <3>4, <3>5, <3>6 DEF LiveAt
  <2> QED
    BY <1>1, <1>7, <2>2, <2>3, <2>4 DEF StreamAt
<1> QED
  BY <1>5, <1>6, <1>7, <1>8 DEF IInv

\* Shutdown empties the tables.
LEMMA CloseBridgeStep ==
    ASSUME TypeOK, IInv, CloseBridge PROVE TypeOK' /\ IInv'
<1>1. /\ boa = "closing" /\ ShutdownBridge /\ boa' = "idle"
      /\ stream' = [id \in OpIds |-> Closed]
      /\ ops' = {} /\ payloads' = {} /\ demand' = {} /\ errors' = {} /\ table' = {}
      /\ landed' = Empty
      /\ UNCHANGED <<flagShut, blob, signal, holds, requests, batch, jobs, reads, promise>>
  BY DEF CloseBridge
<1>2. /\ tokens' = {} /\ order' = {} /\ active' = 0 /\ nextId' = nextId
      /\ chunkQueue' = [id \in OpIds |-> 0]
  BY <1>1 DEF ShutdownBridge
<1>3. flagShut /\ batch = Empty
  BY <1>1 DEF IInv, BoaInv
<1>4. Closed \in Stream /\ Closed.queue = << >> /\ Len(<< >>) = 0
  BY DEF Closed, Stream
<1>5. \A x \in OpIds : stream'[x] = Closed /\ landed'[x] = << >>
  BY <1>1 DEF Empty
<1>6. TypeOK'
  <2>1. BridgeTypeOK'
    BY <1>1, BridgeStepTypes DEF TypeOK, BridgeTypeOK
  <2>2. stream' \in [OpIds -> Stream] /\ landed' \in [OpIds -> Seq(Completion)]
    BY <1>1, <1>4 DEF Empty
  <2>3. \A x \in OpIds : Len(landed'[x]) = chunkQueue'[x]
    BY <1>2, <1>4, <1>5
  <2> QED
    BY <1>1, <2>1, <2>2, <2>3 DEF TypeOK
<1>7. SlotInv'
  BY <1>1, <1>2, FS_EmptySet DEF SlotInv
<1>8. BoaInv'
  BY <1>1, <1>3 DEF BoaInv
<1>9. JobsInv'
  BY <1>1 DEF IInv, JobsInv
<1>10. \A c \in Calls : CallAt(c)'
  BY <1>1, <1>2, <1>3 DEF IInv, CallAt
<1>11. ASSUME NEW x \in OpIds PROVE StreamAt(x)'
  <2>1. StreamAt(x)
    BY DEF IInv
  <2>2. QueueAt(x)'
    BY <1>4, <1>5 DEF QueueAt
  <2>3. OverAt(x)'
    BY <1>5 DEF OverAt, Closed
  <2>4. x >= nextId' => NewAt(x)'
    BY <1>1, <1>2, <2>1 DEF StreamAt, NewAt
  <2> QED
    BY <1>1, <2>2, <2>3, <2>4 DEF StreamAt
<1> QED
  BY <1>6, <1>7, <1>8, <1>9, <1>10, <1>11 DEF IInv

-----------------------------------------------------------------------------
(* Calls and their answers.                                                 *)

\* The jobs `answers` answer `calls`, in their order.
Covers(answers, calls) ==
    /\ answers \in Seq([call : Calls, answer : AnyAnswer])
    /\ Len(answers) = Len(calls)
    /\ \A i \in 1 .. Len(calls) : answers[i].call = calls[i] /\ answers[i].answer # Waiting

\* `queue` holds the calls that stream `id` owes an answer after this step's own
\* call, if it is a read, has joined them.
Ready(id, queue) ==
    /\ queue \in Seq(Calls)
    /\ reads' \in [Calls -> OpIds \cup {0}]
    /\ \A i \in 1 .. Len(queue) : /\ reads'[queue[i]] = id
                                  /\ promise[queue[i]] = Waiting /\ ~HasJob(queue[i])
    /\ \A i, j \in 1 .. Len(queue) : i < j => queue[i] < queue[j]
    /\ \A c \in table : reads[c] = id => \E i \in 1 .. Len(queue) : queue[i] = c
    /\ \A c \in Calls :
          \/ reads'[c] = reads[c]
          \/ reads[c] = 0 /\ \E i \in 1 .. Len(queue) : queue[i] = c
    /\ \A c \in Calls : reads'[c] # 0 =>
          reads'[c] < nextId /\ \A earlier \in Calls : earlier < c => reads'[earlier] # 0

\* One answer for all calls.
LEMMA AnswerToCovers ==
    ASSUME NEW calls \in Seq(Calls), NEW a \in AnyAnswer, a # Waiting
    PROVE  Covers(AnswerTo(calls, a), calls)
<1>1. DOMAIN calls = 1 .. Len(calls) /\ Len(calls) \in Nat
  OBVIOUS
<1>2. PICK f : f = [i \in 1 .. Len(calls) |-> [call |-> calls[i], answer |-> a]]
  OBVIOUS
<1>3. \A i \in 1 .. Len(calls) : calls[i] \in Calls
  BY ElementsTyped
<1>4. f \in Seq([call : Calls, answer : AnyAnswer]) /\ Len(f) = Len(calls)
  BY <1>1, <1>2, <1>3
<1>5. \A i \in 1 .. Len(calls) : f[i].call = calls[i] /\ f[i].answer = a
  BY <1>2
<1>6. AnswerTo(calls, a) = f
  BY <1>1, <1>2 DEF AnswerTo
<1> QED
  BY <1>4, <1>5, <1>6 DEF Covers

\* Answers in two parts.
LEMMA CoversConcat ==
    ASSUME NEW u \in Seq(Calls), NEW v \in Seq(Calls), NEW x, NEW y, Covers(x, u), Covers(y, v)
    PROVE  Covers(x \o y, u \o v)
<1> DEFINE Jobs == [call : Calls, answer : AnyAnswer]
<1>1. x \in Seq(Jobs) /\ Len(x) = Len(u)
  BY DEF Covers
<1>2. y \in Seq(Jobs) /\ Len(y) = Len(v)
  BY DEF Covers
<1> HIDE DEF Jobs
<1>3. x \o y \in Seq(Jobs) /\ Len(x \o y) = Len(x) + Len(y)
  BY <1>1, <1>2, ConcatFacts
<1>4. Len(u \o v) = Len(u) + Len(v)
  BY ConcatFacts
<1>5. ASSUME NEW i \in 1 .. Len(u \o v)
      PROVE  (x \o y)[i].call = (u \o v)[i] /\ (x \o y)[i].answer # Waiting
  <2>1. CASE i \in 1 .. Len(u) /\ (u \o v)[i] = u[i]
    <3>1. (x \o y)[i] = x[i]
      BY <1>1, <1>2, <2>1, ConcatFacts
    <3> QED
      BY <2>1, <3>1 DEF Covers
  <2>2. CASE \E j \in 1 .. Len(v) : i = Len(u) + j /\ (u \o v)[i] = v[j]
    <3>1. PICK j \in 1 .. Len(v) : i = Len(u) + j /\ (u \o v)[i] = v[j]
      BY <2>2
    <3>2. \A k \in 1 .. Len(y) : (x \o y)[Len(x) + k] = y[k]
      BY <1>1, <1>2, ConcatFacts
    <3>3. (x \o y)[i] = y[j]
      BY <1>1, <1>2, <3>1, <3>2
    <3> QED
      BY <3>1, <3>3 DEF Covers
  <2>3. Len(u) \in Nat /\ Len(v) \in Nat /\ i \in Nat /\ i >= 1 /\ i <= Len(u) + Len(v)
    BY <1>4
  <2>4. i <= Len(u) \/ i - Len(u) \in 1 .. Len(v)
    BY <2>3
  <2>5. i = Len(u) + (i - Len(u))
    BY <2>3
  <2>6. CASE i <= Len(u)
    <3>1. i \in 1 .. Len(u)
      BY <2>3, <2>6
    <3>2. (u \o v)[i] = u[i]
      BY <3>1, ConcatFacts
    <3> QED
      BY <2>1, <3>1, <3>2
  <2>7. CASE i - Len(u) \in 1 .. Len(v)
    <3>1. (u \o v)[Len(u) + (i - Len(u))] = v[i - Len(u)]
      BY <2>7, ConcatFacts
    <3> QED
      BY <2>2, <2>5, <2>7, <3>1
  <2> QED
    BY <2>4, <2>6, <2>7
<1> QED
  BY <1>1, <1>2, <1>3, <1>4, <1>5 DEF Covers, Jobs

\* The first call and the others.
LEMMA QueueParts ==
    ASSUME NEW q \in Seq(Calls)
    PROVE  /\ q = << >> \o q
           /\ q # << >> => q = <<Head(q)>> \o Tail(q)
OBVIOUS

\* No answers.
LEMMA NoneCovered == Covers(<< >>, << >>)
BY DEF Covers

\* The calls of answers.
LEMMA CoveredCalls ==
    ASSUME NEW answers, NEW calls \in Seq(Calls), Covers(answers, calls)
    PROVE  {answers[i].call : i \in DOMAIN answers} = {calls[i] : i \in 1 .. Len(calls)}
<1>1. DOMAIN answers = 1 .. Len(calls)
  BY DEF Covers
<1> QED
  BY <1>1 DEF Covers

\* The queue of a live stream is ready to be answered.
LEMMA QueueReady ==
    ASSUME TypeOK, IInv, NEW id \in OpIds, id \in ops, reads' = reads
    PROVE  Ready(id, stream[id].queue)
<1> DEFINE q == stream[id].queue
<1>1. q \in Seq(Calls) /\ QueueAt(id)
  BY StreamTypes DEF IInv, StreamAt
<1>2. \A i \in 1 .. Len(q) : q[i] \in table /\ reads[q[i]] = id /\ q[i] \in Calls
  BY <1>1, ElementsTyped DEF QueueAt
<1>3. \A i \in 1 .. Len(q) : promise[q[i]] = Waiting /\ ~HasJob(q[i])
  BY <1>2 DEF IInv, CallAt, JobsInv, HasJob
<1>4. \A c \in table : reads[c] = id => \E i \in 1 .. Len(q) : q[i] = c
  BY DEF IInv, CallAt, TypeOK
<1>5. \A c \in Calls : reads[c] # 0 =>
         reads[c] < nextId /\ \A earlier \in Calls : earlier < c => reads[earlier] # 0
  BY DEF IInv, CallAt
<1>6. \A i, j \in 1 .. Len(q) : i < j => q[i] < q[j]
  BY <1>1 DEF QueueAt
<1>7. reads \in [Calls -> OpIds \cup {0}]
  BY DEF TypeOK
<1> HIDE DEF q
<1>9. \A c \in Calls : reads'[c] = reads[c]
  OBVIOUS
<1>10. reads' \in [Calls -> OpIds \cup {0}]
  BY <1>7
<1>11. \A c \in Calls : reads'[c] # 0 =>
          reads'[c] < nextId /\ \A earlier \in Calls : earlier < c => reads'[earlier] # 0
  BY <1>5
<1>12. \A i \in 1 .. Len(q) : reads'[q[i]] = id /\ promise[q[i]] = Waiting /\ ~HasJob(q[i])
  BY <1>2, <1>3
<1>8. Ready(id, q)
  BY <1>1, <1>4, <1>6, <1>9, <1>10, <1>11, <1>12 DEF Ready
<1> QED
  BY <1>8 DEF q


Members(s) == {s[i] : i \in 1 .. Len(s)}

\* The calls `u` are the first of `queue`, and the calls `v` are the others.
Splits(queue, u, v) ==
    /\ queue = u \o v /\ u \in Seq(Calls) /\ v \in Seq(Calls)
    /\ Members(queue) = Members(u) \cup Members(v)
    /\ \A i \in 1 .. Len(u), j \in 1 .. Len(u) : i < j => u[i] < u[j]
    /\ \A i \in 1 .. Len(v), j \in 1 .. Len(v) : i < j => v[i] < v[j]
    /\ Members(u) \cap Members(v) = {}

\* A queue in two parts keeps its order in each.
LEMMA ReadySplits ==
    ASSUME NEW id, NEW q, NEW u \in Seq(Calls), NEW v \in Seq(Calls), q = u \o v, Ready(id, q)
    PROVE  Splits(q, u, v)
<1>1. /\ Len(q) = Len(u) + Len(v) /\ Len(u) \in Nat /\ Len(v) \in Nat
      /\ \A i \in 1 .. Len(u) : q[i] = u[i]
      /\ \A i \in 1 .. Len(v) : q[Len(u) + i] = v[i]
  BY ConcatFacts
<1>2. /\ \A i \in 1 .. Len(u) : i \in 1 .. Len(q) /\ i \in Nat
      /\ \A i \in 1 .. Len(v) : Len(u) + i \in 1 .. Len(q) /\ i \in Nat
  BY <1>1
<1>3. \A i \in 1 .. Len(q) : (i \in 1 .. Len(u)) \/ \E j \in 1 .. Len(v) : i = Len(u) + j /\ q[i] = v[j]
  BY ConcatElements
<1>4. Members(q) = Members(u) \cup Members(v)
  BY <1>1, <1>2, <1>3 DEF Members
<1>5. \A i, j \in 1 .. Len(q) : i < j => q[i] < q[j]
  BY DEF Ready
<1>6. \A i \in 1 .. Len(u), j \in 1 .. Len(u) : i < j => u[i] < u[j]
  BY <1>1, <1>2, <1>5
<1>7. ASSUME NEW i \in 1 .. Len(v), NEW j \in 1 .. Len(v), i < j PROVE v[i] < v[j]
  <2>1. Len(u) + i < Len(u) + j
    BY <1>1, <1>2, <1>7
  <2>2. q[Len(u) + i] < q[Len(u) + j]
    BY <1>2, <1>5, <2>1
  <2> QED
    BY <1>1, <2>2
<1>8. ASSUME NEW i \in 1 .. Len(u), NEW j \in 1 .. Len(v) PROVE u[i] # v[j]
  <2>1. i < Len(u) + j
    BY <1>1, <1>2
  <2>2. q[i] < q[Len(u) + j]
    BY <1>2, <1>5, <2>1
  <2>3. u[i] < v[j] /\ u[i] \in Nat
    BY <1>1, <2>2, DataTypes, ElementsTyped
  <2> QED
    BY <2>3
<1>9. Members(u) \cap Members(v) = {}
  BY <1>8 DEF Members
<1> QED
  BY <1>4, <1>6, <1>7, <1>9 DEF Splits

\* The facts of Ready in terms of its members.
LEMMA ReadyMembers ==
    ASSUME NEW id, NEW q, Ready(id, q)
    PROVE  /\ Members(q) \subseteq Calls
           /\ \A c \in Members(q) : reads'[c] = id /\ promise[c] = Waiting /\ ~HasJob(c)
           /\ \A c \in table : reads[c] = id => c \in Members(q)
           /\ \A c \in Calls : reads'[c] = reads[c] \/ (reads[c] = 0 /\ c \in Members(q))
<1>1. q \in Seq(Calls)
  BY DEF Ready
<1>2. Members(q) \subseteq Calls
  BY <1>1, ElementsTyped DEF Members
<1> QED
  BY <1>2 DEF Ready, Members

\* The new jobs keep the jobs unique.
LEMMA JobsGrow ==
    ASSUME TypeOK, IInv, NEW id \in OpIds, NEW q, NEW u, NEW v, NEW answers,
           Ready(id, q), Splits(q, u, v), Covers(answers, u),
           jobs' = jobs \o answers, promise' = promise,
           table' = (table \cup Members(q)) \ Members(u)
    PROVE  /\ jobs' \in Seq([call : Calls, answer : AnyAnswer])
           /\ JobsInv'
           /\ \A c \in Calls : HasJob(c) \/ c \in Members(u) => HasJob(c)'
<1> DEFINE Jobs == [call : Calls, answer : AnyAnswer]
<1>1. jobs \in Seq(Jobs)
  BY DEF TypeOK
<1>2. /\ answers \in Seq(Jobs) /\ Len(answers) = Len(u) /\ Len(u) \in Nat
      /\ \A i \in 1 .. Len(u) : answers[i].call = u[i] /\ answers[i].answer # Waiting
  BY DEF Covers, Splits
<1> HIDE DEF Jobs
<1>3. /\ jobs' \in Seq(Jobs) /\ Len(jobs') = Len(jobs) + Len(u)
      /\ \A i \in 1 .. Len(jobs) : jobs'[i] = jobs[i]
      /\ \A i \in 1 .. Len(u) : jobs'[Len(jobs) + i] = answers[i]
  BY <1>1, <1>2, ConcatFacts
<1>4. Len(jobs) \in Nat /\ Len(u) \in Nat
  BY <1>1, <1>2
<1>5. ASSUME NEW i \in 1 .. Len(jobs')
      PROVE  \/ i \in 1 .. Len(jobs) /\ jobs'[i] = jobs[i]
             \/ \E j \in 1 .. Len(u) : /\ i = Len(jobs) + j /\ jobs'[i].call = u[j]
                                       /\ jobs'[i].answer # Waiting
  BY <1>1, <1>2, ConcatElements
<1>6. /\ Members(u) \subseteq Members(q) /\ Members(q) \subseteq Calls
      /\ \A c \in Members(q) : reads'[c] = id /\ promise[c] = Waiting /\ ~HasJob(c)
      /\ \A c \in Calls : reads'[c] = reads[c] \/ reads[c] = 0
      /\ id # 0
  BY ReadyMembers, IdsAreNumbers DEF Splits
<1>7. \A i \in 1 .. Len(jobs) :
         /\ jobs[i].call \in Calls /\ HasJob(jobs[i].call)
         /\ jobs[i].answer # Waiting /\ reads[jobs[i].call] # 0
         /\ promise[jobs[i].call] = Waiting /\ jobs[i].call \notin table
  <2>1. \A i \in 1 .. Len(jobs) : jobs[i] \in [call : Calls, answer : AnyAnswer]
    BY <1>1, ElementsTyped DEF Jobs
  <2> QED
    BY <2>1 DEF HasJob, IInv, JobsInv
<1>8. ASSUME NEW i \in 1 .. Len(jobs')
      PROVE  /\ jobs'[i].answer # Waiting
             /\ reads'[jobs'[i].call] # 0 /\ promise'[jobs'[i].call] = Waiting
             /\ jobs'[i].call \notin table'
  <2>1. CASE i \in 1 .. Len(jobs) /\ jobs'[i] = jobs[i]
    BY <1>6, <1>7, <2>1
  <2>2. ASSUME NEW j \in 1 .. Len(u), jobs'[i].call = u[j], jobs'[i].answer # Waiting
        PROVE  /\ jobs'[i].answer # Waiting
               /\ reads'[jobs'[i].call] # 0 /\ promise'[jobs'[i].call] = Waiting
               /\ jobs'[i].call \notin table'
    <3>1. u[j] \in Members(u)
      BY DEF Members
    <3> QED
      BY <1>6, <2>2, <3>1
  <2> QED
    BY <1>5, <2>1, <2>2
<1>9. ASSUME NEW i \in 1 .. Len(jobs'), NEW j \in 1 .. Len(jobs'), jobs'[i].call = jobs'[j].call
      PROVE  i = j
  <2>1. \A k \in 1 .. Len(jobs), l \in 1 .. Len(u) : jobs[k].call # u[l]
    BY <1>6, <1>7 DEF Members
  <2>2. \A k, l \in 1 .. Len(jobs) : jobs[k].call = jobs[l].call => k = l
    BY DEF IInv, JobsInv
  <2>3. ASSUME NEW k \in 1 .. Len(u), NEW l \in 1 .. Len(u), u[k] = u[l] PROVE k = l
    <3>1. u[k] \in Nat /\ k \in Nat /\ l \in Nat
      BY <1>2, DataTypes, ElementsTyped DEF Splits
    <3>2. k < l => u[k] < u[l]
      BY DEF Splits
    <3>3. l < k => u[l] < u[k]
      BY DEF Splits
    <3> QED
      BY <2>3, <3>1, <3>2, <3>3
  <2>4. CASE i \in 1 .. Len(jobs) /\ jobs'[i] = jobs[i]
    <3>1. CASE j \in 1 .. Len(jobs) /\ jobs'[j] = jobs[j]
      BY <1>9, <2>2, <2>4, <3>1
    <3>2. CASE \E k \in 1 .. Len(u) : j = Len(jobs) + k /\ jobs'[j].call = u[k]
      BY <1>9, <2>1, <2>4, <3>2
    <3> QED
      BY <1>5, <3>1, <3>2
  <2>5. CASE \E k \in 1 .. Len(u) : i = Len(jobs) + k /\ jobs'[i].call = u[k]
    <3>1. CASE j \in 1 .. Len(jobs) /\ jobs'[j] = jobs[j]
      BY <1>9, <2>1, <2>5, <3>1
    <3>2. CASE \E k \in 1 .. Len(u) : j = Len(jobs) + k /\ jobs'[j].call = u[k]
      BY <1>9, <2>3, <2>5, <3>2
    <3> QED
      BY <1>5, <3>1, <3>2
  <2> QED
    BY <1>5, <2>4, <2>5
<1>10. JobsInv'
  BY <1>8, <1>9 DEF JobsInv
<1>11. ASSUME NEW c \in Calls, HasJob(c) \/ c \in Members(u) PROVE HasJob(c)'
  <2>1. CASE HasJob(c)
    <3>1. PICK i \in 1 .. Len(jobs) : jobs[i].call = c
      BY <2>1 DEF HasJob
    <3>2. i \in 1 .. Len(jobs') /\ jobs'[i].call = c
      BY <1>3, <1>4, <3>1
    <3> QED
      BY <3>2 DEF HasJob
  <2>2. CASE c \in Members(u)
    <3>1. PICK i \in 1 .. Len(u) : u[i] = c
      BY <2>2 DEF Members
    <3>2. Len(jobs) + i \in 1 .. Len(jobs') /\ jobs'[Len(jobs) + i].call = c
      BY <1>2, <1>3, <1>4, <3>1
    <3> QED
      BY <3>2 DEF HasJob
  <2> QED
    BY <1>11, <2>1, <2>2
<1> QED
  BY <1>3, <1>10, <1>11 DEF Jobs

\* The calls after a step that answers the first of those that wait for one
\* stream.
LEMMA CallsAnswered ==
    ASSUME TypeOK, IInv, NEW id \in OpIds, NEW q, NEW u, NEW v, NEW answers,
           Ready(id, q), Splits(q, u, v), Covers(answers, u),
           jobs' = jobs \o answers, promise' = promise,
           table' = (table \cup Members(q)) \ Members(u),
           nextId' = nextId, flagShut' = flagShut,
           stream'[id].queue = v, v # << >> => id \in ops',
           \A x \in OpIds \ {id} : stream'[x].queue = stream[x].queue /\ (x \in ops => x \in ops')
    PROVE  /\ JobsInv'
           /\ \A c \in Calls : CallAt(c)'
           /\ \A x \in OpIds : QueueAt(x)'
<1>1. /\ JobsInv' /\ \A c \in Calls : HasJob(c) \/ c \in Members(u) => HasJob(c)'
  BY JobsGrow
<1>2. /\ Members(q) \subseteq Calls
      /\ \A c \in Members(q) : reads'[c] = id /\ promise[c] = Waiting /\ ~HasJob(c)
      /\ \A c \in table : reads[c] = id => c \in Members(q)
      /\ \A c \in Calls : reads'[c] = reads[c] \/ (reads[c] = 0 /\ c \in Members(q))
      /\ id # 0
  BY ReadyMembers, IdsAreNumbers
<1>3. Members(q) = Members(u) \cup Members(v) /\ Members(u) \cap Members(v) = {}
  BY DEF Splits
<1>4. \A c \in Calls : reads'[c] # 0 =>
         reads'[c] < nextId /\ \A earlier \in Calls : earlier < c => reads'[earlier] # 0
  BY DEF Ready
<1>5. ASSUME NEW c \in Calls PROVE CallAt(c)'
  <2>1. CallAt(c)
    BY DEF IInv
  <2>2. reads'[c] = 0 => promise'[c] = Waiting
    BY <1>2, <2>1 DEF CallAt
  <2>3. ASSUME c \in table'
        PROVE  /\ promise'[c] = Waiting /\ reads'[c] \in ops'
               /\ \E i \in 1 .. Len(stream'[reads'[c]].queue) : stream'[reads'[c]].queue[i] = c
    <3>1. CASE c \in Members(q)
      <4>1. c \in Members(v)
        BY <1>3, <2>3, <3>1
      <4>2. PICK i \in 1 .. Len(v) : v[i] = c
        BY <4>1 DEF Members
      <4>3. v # << >>
        BY <4>2
      <4> QED
        BY <1>2, <3>1, <4>2, <4>3
    <3>2. CASE c \notin Members(q)
      <4>1. c \in table /\ reads'[c] = reads[c] /\ reads[c] # id
        BY <1>2, <2>3, <3>2
      <4>2. reads[c] \in OpIds
        BY <2>1, <4>1 DEF CallAt, TypeOK
      <4> QED
        BY <2>1, <4>1, <4>2 DEF CallAt
    <3> QED
      BY <3>1, <3>2
  <2>4. ASSUME reads'[c] # 0, promise'[c] = Waiting, ~flagShut' PROVE c \in table' \/ HasJob(c)'
    BY <1>1, <1>2, <2>1, <2>4 DEF CallAt
  <2> QED
    BY <1>4, <2>2, <2>3, <2>4 DEF CallAt
<1>6. ASSUME NEW x \in OpIds PROVE QueueAt(x)'
  <2>1. CASE x = id
    <3>0. \A i \in 1 .. Len(v) : v[i] \in Members(v)
      BY DEF Members
    <3>1. \A i \in 1 .. Len(v) : v[i] \in table' /\ reads'[v[i]] = id
      BY <1>2, <1>3, <3>0
    <3>2. \A i, j \in 1 .. Len(v) : i < j => v[i] < v[j]
      BY DEF Splits
    <3> QED
      BY <2>1, <3>1, <3>2 DEF QueueAt
  <2>2. CASE x # id
    <3>1. QueueAt(x) /\ stream'[x].queue = stream[x].queue
      BY <2>2 DEF IInv, StreamAt
    <3>2. x # 0
      BY IdsAreNumbers
    <3>3. \A c \in table : c \in Calls
      BY DEF TypeOK
    <3>4. \A c \in table : reads[c] = x => c \in table' /\ reads'[c] = x
      BY <1>2, <1>3, <2>2, <3>2, <3>3
    <3> QED
      BY <3>1, <3>4 DEF QueueAt
  <2> QED
    BY <2>1, <2>2
<1> QED
  BY <1>1, <1>5, <1>6

-----------------------------------------------------------------------------
(* A stream ends, or goes on.                                               *)

\* What a step of the Boa thread for stream `id` leaves alone.
Frame(id) ==
    /\ UNCHANGED <<flagShut, blob, signal, holds, boa, promise>>
    /\ batch' \in [OpIds -> Seq(Completion)]
    /\ \A x \in OpIds \ {id} : batch'[x] = batch[x]
    /\ batch' = batch \/ boa = "settling"
    /\ boa # "closing"

\* The other streams.
LEMMA OthersKeep ==
    ASSUME TypeOK, IInv, NEW id \in OpIds, Frame(id), nextId' = nextId, \A y \in OpIds : QueueAt(y)',
           NEW x \in OpIds, x # id, x \in ops' <=> x \in ops,
           stream'[x] = stream[x], requests'[x] = requests[x], landed'[x] = landed[x]
    PROVE  StreamAt(x)'
<1>1. StreamAt(x)
  BY DEF IInv
<1>2. batch'[x] = batch[x] /\ UNCHANGED <<flagShut, blob, signal, holds>>
  BY DEF Frame
<1>3. x \in ops => ServeAt(x)' /\ DataAt(x)'
  BY <1>1, <1>2, SameServed DEF StreamAt, LiveAt
<1>4. x \in ops => HeldAt(x)'
  BY <1>1, <1>2 DEF StreamAt, LiveAt, HeldAt
<1>5. x \notin ops => OverAt(x)'
  BY <1>1 DEF StreamAt, OverAt, Closed
<1>6. x >= nextId' => NewAt(x)'
  BY <1>1, <1>2 DEF StreamAt, NewAt
<1> QED
  BY <1>3, <1>4, <1>5, <1>6 DEF StreamAt, LiveAt

\* While the Boa thread is not in shutdown, live streams mean that none began.
LEMMA LiveMeansOpen ==
    ASSUME TypeOK, IInv, NEW id, id \in ops, boa # "closing" PROVE ~flagShut
BY DEF IInv, BoaInv

\* The stream ends and all its calls are answered.
LEMMA EndsStep ==
    ASSUME TypeOK, IInv, NEW id \in OpIds, id \in ops, NEW q, NEW answers,
           Ready(id, q), Covers(answers, q), Ends(id, answers), Frame(id),
           cancelled' \subseteq OpIds, errors' \subseteq OpIds
    PROVE  TypeOK' /\ IInv'
<1>1. /\ ops' = ops \ {id} /\ payloads' = payloads \ {id} /\ demand' = demand \ {id}
      /\ Unreserve(id) /\ landed' = [landed EXCEPT ![id] = << >>]
      /\ stream' = [stream EXCEPT ![id] = Closed]
      /\ table' = table \ {answers[i].call : i \in DOMAIN answers}
      /\ jobs' = jobs \o answers
      /\ requests' = requests
  BY DEF Ends, Release
<1>2. /\ UNCHANGED <<flagShut, blob, signal, holds, boa, promise>>
      /\ batch' \in [OpIds -> Seq(Completion)]
      /\ batch' = batch \/ boa = "settling"
      /\ boa # "closing"
  BY DEF Frame
<1>3. id \in tokens
  BY DEF IInv, SlotInv
<1>4. /\ tokens' = tokens \ {id} /\ order' = order \ {id} /\ nextId' = nextId
      /\ active' = (IF active > 0 THEN active - 1 ELSE 0)
      /\ chunkQueue' = [chunkQueue EXCEPT ![id] = 0] /\ bridgeShut' = bridgeShut
  BY <1>1, <1>3 DEF Unreserve
<1>5. Splits(q, q, << >>)
  <2>1. q \in Seq(Calls) /\ << >> \in Seq(Calls)
    BY DEF Ready
  <2>2. q = q \o << >>
    BY <2>1
  <2> QED
    BY <2>1, <2>2, ReadySplits
<1>6. table' = (table \cup Members(q)) \ Members(q)
  <2>1. q \in Seq(Calls)
    BY DEF Ready
  <2>2. {answers[i].call : i \in DOMAIN answers} = Members(q)
    BY <2>1, CoveredCalls DEF Members
  <2>3. \A A, B : A \ B = (A \cup B) \ B
    OBVIOUS
  <2> QED
    BY <1>1, <2>2, <2>3
<1>7. /\ stream' \in [OpIds -> Stream] /\ stream'[id] = Closed
      /\ \A x \in OpIds \ {id} : stream'[x] = stream[x] /\ landed'[x] = landed[x]
      /\ landed'[id] = << >> /\ landed' \in [OpIds -> Seq(Completion)]
      /\ Closed.queue = << >>
  <2>1. Closed \in Stream /\ Closed.queue = << >>
    BY DEF Closed, Stream
  <2> QED
    BY <1>1, <2>1 DEF TypeOK
<1>8. /\ JobsInv'
      /\ \A c \in Calls : CallAt(c)'
      /\ \A x \in OpIds : QueueAt(x)'
  BY <1>1, <1>2, <1>4, <1>5, <1>6, <1>7, CallsAnswered
<1>9. TypeOK'
  <2>1. BridgeTypeOK'
    BY <1>1, <1>2, BridgeStepTypes DEF TypeOK, BridgeTypeOK
  <2>2. jobs' \in Seq([call : Calls, answer : AnyAnswer])
    BY <1>1, <1>2, <1>5, <1>6, JobsGrow
  <2>3. \A x \in OpIds : Len(landed'[x]) = chunkQueue'[x]
    BY <1>4, <1>7 DEF TypeOK, BridgeTypeOK
  <2>4. reads' \in [Calls -> OpIds \cup {0}]
    BY DEF Ready
  <2>5. UNION {ops', payloads', demand', errors'} \subseteq OpIds /\ table' \subseteq Calls
    BY <1>1 DEF TypeOK
  <2> QED
    BY <1>1, <1>2, <1>7, <2>1, <2>2, <2>3, <2>4, <2>5 DEF TypeOK
<1>10. SlotInv'
  <2>1. IsFiniteSet(ops)
    BY IdsAreNumbers DEF TypeOK
  <2>2. Cardinality(ops \ {id}) = Cardinality(ops) - 1
    BY <2>1, FS_RemoveElement
  <2>3. Cardinality(ops) \in Nat /\ Cardinality(ops) # 0
    BY <2>1, FS_CardinalityType, FS_EmptySet
  <2>4. active' = Cardinality(ops')
    BY <1>1, <1>4, <2>2, <2>3 DEF IInv, SlotInv
  <2>5. demand' = {x \in ops' : stream'[x].queue # << >>}
    BY <1>1, <1>7 DEF IInv, SlotInv, TypeOK
  <2> QED
    BY <1>1, <1>4, <2>4, <2>5 DEF IInv, SlotInv
<1>11. BoaInv'
  BY <1>1, <1>2, <1>4 DEF IInv, BoaInv
<1>12. ASSUME NEW x \in OpIds PROVE StreamAt(x)'
  <2>1. CASE x = id
    <3>1. OverAt(id)'
      BY <1>7 DEF OverAt, Closed
    <3>2. ~(id >= nextId)
      BY DEF IInv, StreamAt, NewAt
    <3> QED
      BY <1>1, <1>4, <1>8, <2>1, <3>1, <3>2 DEF StreamAt
  <2>2. CASE x # id
    <3>1. x \in ops' <=> x \in ops
      BY <1>1, <2>2
    <3> QED
      BY <1>1, <1>4, <1>7, <1>8, <2>2, <3>1, OthersKeep
  <2> QED
    BY <2>1, <2>2
<1> QED
  BY <1>9, <1>8, <1>10, <1>11, <1>12 DEF IInv

\* The stream goes on; what it owes is on its way.
LEMMA ContinuesKeeps ==
    ASSUME TypeOK, IInv, NEW id \in OpIds, id \in ops, NEW q, NEW u, NEW v, NEW before,
           Ready(id, q), Splits(q, u, v), Covers(before, u), Frame(id),
           UNCHANGED <<bridgeVars, ops, payloads, errors, landed>>,
           NEW s \in Stream, s.queue = v, stream' = [stream EXCEPT ![id] = s],
           table' = (table \cup Members(v)) \ {before[i].call : i \in DOMAIN before},
           demand' = IF v = << >> THEN demand \ {id} ELSE demand \cup {id},
           jobs' = jobs \o before,
           requests' \in [OpIds -> Seq(Offsets)],
           \A x \in OpIds \ {id} : requests'[x] = requests[x],
           LiveAt(id)'
    PROVE  TypeOK' /\ IInv'
<1>1. UNCHANGED <<nextId, tokens, order, active, bridgeShut, chunkQueue>>
  BY DEF bridgeVars
<1>2. /\ UNCHANGED <<flagShut, blob, signal, holds, boa, promise>>
      /\ batch' \in [OpIds -> Seq(Completion)]
      /\ batch' = batch \/ boa = "settling"
  BY DEF Frame
<1>3. /\ stream' \in [OpIds -> Stream] /\ stream'[id] = s
      /\ \A x \in OpIds \ {id} : stream'[x] = stream[x]
  BY DEF TypeOK
<1>4. table' = (table \cup Members(q)) \ Members(u)
  <2>1. u \in Seq(Calls) /\ Members(q) = Members(u) \cup Members(v)
    BY DEF Splits
  <2>2. {before[i].call : i \in DOMAIN before} = Members(u)
    BY <2>1, CoveredCalls DEF Members
  <2> QED
    BY <2>1, <2>2
<1>5. /\ JobsInv'
      /\ \A c \in Calls : CallAt(c)'
      /\ \A x \in OpIds : QueueAt(x)'
  BY <1>1, <1>2, <1>3, <1>4, CallsAnswered
<1>6. TypeOK'
  <2>1. BridgeTypeOK'
    BY <1>2, SameBridge
  <2>2. jobs' \in Seq([call : Calls, answer : AnyAnswer])
    BY <1>2, <1>4, JobsGrow
  <2>3. reads' \in [Calls -> OpIds \cup {0}]
    BY DEF Ready
  <2>4. Members(q) \subseteq Calls
    BY ReadyMembers
  <2>5. UNION {ops', payloads', demand', errors'} \subseteq OpIds /\ table' \subseteq Calls
    BY <1>4, <2>4 DEF TypeOK
  <2>6. \A x \in OpIds : Len(landed'[x]) = chunkQueue'[x]
    BY <1>1 DEF TypeOK
  <2> QED
    BY <1>2, <1>3, <2>1, <2>2, <2>3, <2>5, <2>6 DEF TypeOK
<1>7. SlotInv'
  <2>1. demand' = {x \in ops' : stream'[x].queue # << >>}
    BY <1>3 DEF IInv, SlotInv, TypeOK
  <2> QED
    BY <1>1, <2>1 DEF IInv, SlotInv
<1>8. BoaInv'
  BY <1>1, <1>2 DEF IInv, BoaInv
<1>9. ASSUME NEW x \in OpIds PROVE StreamAt(x)'
  <2>1. CASE x = id
    <3>1. ~(id >= nextId)
      BY DEF IInv, StreamAt, NewAt
    <3> QED
      BY <1>1, <1>5, <2>1, <3>1 DEF StreamAt
  <2>2. CASE x # id
    BY <1>1, <1>3, <1>5, <2>2, OthersKeep
  <2> QED
    BY <2>1, <2>2
<1> QED
  BY <1>5, <1>6, <1>7, <1>8, <1>9 DEF IInv

\* What is on its way to stream `id`, whose next state is `s`, before a new
\* request is submitted.
Served(id, s) ==
    /\ s.inFlight => s.queue # << >>
    /\ s.inFlight => Len(requests[id]) + Len(landed[id]) + Len(batch'[id]) = 1
    /\ ~s.inFlight => Len(requests[id]) + Len(landed[id]) + Len(batch'[id]) = 0
    /\ s.loaded <= blob[id].chunks
    /\ \A i \in 1 .. Len(requests[id]) : requests[id][i] = s.loaded
    /\ \A done \in {landed[id][i] : i \in 1 .. Len(landed[id])}
                     \cup {batch'[id][i] : i \in 1 .. Len(batch'[id])} :
          /\ done.at = s.loaded
          /\ done.kind # "error" => (done.kind = "eof" <=> done.at = blob[id].chunks)
    /\ s.streamReg = stream[id].streamReg /\ s.readerReg = stream[id].readerReg

\* Continues keeps the invariant, also when the executor refuses the request.
LEMMA ContinuesStep ==
    ASSUME TypeOK, IInv, NEW id \in OpIds, id \in ops, NEW q, NEW u, NEW v, NEW before,
           Ready(id, q), Splits(q, u, v), Covers(before, u), Frame(id),
           NEW s \in Stream, s.queue = v, Served(id, s), Continues(id, s, before)
    PROVE  TypeOK' /\ IInv'
<1>1. /\ UNCHANGED <<flagShut, blob, signal, holds>> /\ boa # "closing"
      /\ batch' \in [OpIds -> Seq(Completion)]
  BY DEF Frame
<1>2. ~flagShut /\ HeldAt(id) /\ DataAt(id)
  BY <1>1, LiveMeansOpen DEF IInv, StreamAt, LiveAt
<1>3. ToSet(v) = Members(v) /\ v \in Seq(Calls) /\ u \in Seq(Calls) /\ q = u \o v
  BY DEF ToSet, Members, Splits
<1>4. /\ Len(requests[id]) \in Nat /\ Len(landed[id]) \in Nat /\ Len(batch'[id]) \in Nat
      /\ requests[id] \in Seq(Offsets) /\ s.loaded \in Nat /\ s.inFlight \in BOOLEAN
      /\ s.loaded \in Offsets
  <2>1. requests[id] \in Seq(Offsets) /\ Len(requests[id]) \in Nat /\ Len(landed[id]) \in Nat
    BY StreamTypes
  <2>2. batch'[id] \in Seq(Completion)
    BY <1>1
  <2>3. s.loaded \in Nat /\ s.inFlight \in BOOLEAN
    BY DataTypes DEF Stream
  <2>4. s.loaded \in Offsets
    BY <1>2, <2>3, DataTypes DEF DataAt, Served
  <2> QED
    BY <2>1, <2>2, <2>3, <2>4
<1>5. ASSUME NeedsRequest(s),
             stream' = [stream EXCEPT ![id] = [s EXCEPT !.inFlight = TRUE]],
             requests' = [requests EXCEPT ![id] = Append(requests[id], s.loaded)],
             table' = (table \cup ToSet(s.queue)) \ {before[i].call : i \in DOMAIN before},
             demand' = demand \cup {id}, jobs' = jobs \o before,
             UNCHANGED <<bridgeVars, ops, payloads, errors, landed>>
      PROVE  TypeOK' /\ IInv'
  <2>1. PICK t : t = [s EXCEPT !.inFlight = TRUE]
    OBVIOUS
  <2>2. /\ t \in Stream /\ t.queue = v /\ t.inFlight = TRUE /\ t.loaded = s.loaded
        /\ t.streamReg = s.streamReg /\ t.readerReg = s.readerReg
    BY <2>1 DEF Stream
  <2>3. v # << >> /\ ~s.inFlight
    BY <1>5 DEF NeedsRequest
  <2>4. stream' = [stream EXCEPT ![id] = t] /\ stream'[id] = t
    BY <1>5, <2>1, <2>2 DEF TypeOK
  <2>5. Len(requests[id]) = 0 /\ Len(landed[id]) = 0 /\ Len(batch'[id]) = 0
    <3>1. Len(requests[id]) + Len(landed[id]) + Len(batch'[id]) = 0
      BY <2>3 DEF Served
    <3>2. \A a, b, c \in Nat : a + b + c = 0 => a = 0 /\ b = 0 /\ c = 0
      OBVIOUS
    <3> QED
      BY <1>4, <3>1, <3>2
  <2>6. PICK more : more = Append(requests[id], s.loaded)
    OBVIOUS
  <2>7. /\ more \in Seq(Offsets) /\ Len(more) = 1
        /\ \A i \in 1 .. Len(more) : more[i] = s.loaded
    <3>1. more \in Seq(Offsets) /\ Len(more) = Len(requests[id]) + 1
          /\ more[Len(requests[id]) + 1] = s.loaded
      BY <1>4, <2>6, AppendFacts
    <3> QED
      BY <2>5, <3>1
  <2>8. /\ requests' \in [OpIds -> Seq(Offsets)] /\ requests'[id] = more
        /\ \A x \in OpIds \ {id} : requests'[x] = requests[x]
    BY <1>5, <2>6, <2>7 DEF TypeOK
  <2>9. LiveAt(id)'
    <3>1. OnTheWay(id)' = 1
      BY <1>5, <2>5, <2>7, <2>8 DEF OnTheWay
    <3>2. ServeAt(id)'
      BY <2>2, <2>3, <2>4, <3>1 DEF ServeAt
    <3>3. DataAt(id)'
      <4>1. s.loaded <= blob[id].chunks
        BY DEF Served
      <4> QED
        BY <1>1, <1>2, <1>5, <2>2, <2>4, <2>5, <2>7, <2>8, <4>1 DEF DataAt
    <3>4. HeldAt(id)'
      BY <1>1, <1>2, <2>2, <2>4 DEF HeldAt, Served
    <3> QED
      BY <3>2, <3>3, <3>4 DEF LiveAt
  <2>10. /\ table' = (table \cup Members(v)) \ {before[i].call : i \in DOMAIN before}
         /\ demand' = IF v = << >> THEN demand \ {id} ELSE demand \cup {id}
         /\ jobs' = jobs \o before
         /\ UNCHANGED <<bridgeVars, ops, payloads, errors, landed>>
    BY <1>3, <1>5, <2>3
  <2> QED
    BY <2>2, <2>4, <2>8, <2>9, <2>10, ContinuesKeeps, ZenonT(300)
<1>6. ASSUME Fails(id, before, s.queue), UNCHANGED cancelled PROVE TypeOK' /\ IInv'
  <2>1. Covers(AnswerTo(v, Failed), v)
    BY <1>3, AnswerToCovers, DataTypes
  <2>2. Covers(before \o AnswerTo(v, Failed), q)
    BY <1>3, <2>1, CoversConcat
  <2>3. Ends(id, before \o AnswerTo(v, Failed)) /\ errors' = errors \cup {id}
    BY <1>6 DEF Fails
  <2>4. cancelled' \subseteq OpIds /\ errors' \subseteq OpIds
    BY <1>6, <2>3 DEF TypeOK, BridgeTypeOK
  <2> QED
    BY <2>2, <2>3, <2>4, EndsStep
<1>7. ASSUME ~NeedsRequest(s), stream' = [stream EXCEPT ![id] = s],
             table' = (table \cup ToSet(s.queue)) \ {before[i].call : i \in DOMAIN before},
             demand' = IF s.queue = << >> THEN demand \ {id} ELSE demand \cup {id},
             jobs' = jobs \o before,
             UNCHANGED <<bridgeVars, ops, payloads, errors, requests, landed>>
      PROVE  TypeOK' /\ IInv'
  <2>1. stream'[id] = s
    BY <1>7 DEF TypeOK
  <2>2. s.inFlight <=> v # << >>
    BY <1>7 DEF NeedsRequest, Served
  <2>3. LiveAt(id)'
    <3>1. OnTheWay(id)' = IF v # << >> THEN 1 ELSE 0
      BY <1>7, <2>2 DEF OnTheWay, Served
    <3>2. ServeAt(id)'
      BY <2>1, <2>2, <3>1 DEF ServeAt
    <3>3. DataAt(id)'
      <4>1. s.loaded <= blob[id].chunks /\ \A i \in 1 .. Len(requests[id]) : requests[id][i] = s.loaded
        BY DEF Served
      <4>2. \A i \in 1 .. Len(landed[id]) : IsNext(id, landed[id][i])'
        BY <1>1, <1>7, <2>1 DEF Served, IsNext
      <4>3. \A i \in 1 .. Len(batch'[id]) : IsNext(id, batch[id][i])'
        BY <1>1, <1>7, <2>1 DEF Served, IsNext
      <4> QED
        BY <1>1, <1>2, <1>7, <2>1, <4>1, <4>2, <4>3 DEF DataAt
    <3>4. HeldAt(id)'
      BY <1>1, <1>2, <2>1 DEF HeldAt, Served
    <3> QED
      BY <3>2, <3>3, <3>4 DEF LiveAt
  <2>4. requests' \in [OpIds -> Seq(Offsets)] /\ \A x \in OpIds \ {id} : requests'[x] = requests[x]
    BY <1>7 DEF TypeOK
  <2>5. /\ table' = (table \cup Members(v)) \ {before[i].call : i \in DOMAIN before}
        /\ demand' = IF v = << >> THEN demand \ {id} ELSE demand \cup {id}
        /\ jobs' = jobs \o before
        /\ UNCHANGED <<bridgeVars, ops, payloads, errors, landed>>
    BY <1>3, <1>7
  <2>6. PICK t \in Stream : t.queue = v /\ stream' = [stream EXCEPT ![id] = t]
    BY <1>7
  <2> QED
    BY <2>3, <2>4, <2>5, <2>6, ContinuesKeeps, ZenonT(300)
<1> QED
  BY <1>5, <1>6, <1>7 DEF Continues

-----------------------------------------------------------------------------
(* The script's calls.                                                      *)

\* A new call is the last one of its stream.
LEMMA ReadReady ==
    ASSUME TypeOK, IInv, NEW id \in OpIds, holds[id] # {}, NEW c \in Calls, reads[c] = 0,
           \A earlier \in Calls : earlier < c => reads[earlier] # 0,
           reads' = [reads EXCEPT ![c] = id]
    PROVE  Ready(id, Append(stream[id].queue, c))
<1> DEFINE queue == stream[id].queue
<1>1. queue \in Seq(Calls) /\ Len(queue) \in Nat /\ QueueAt(id)
  BY StreamTypes DEF IInv, StreamAt
<1>2. /\ reads' \in [Calls -> OpIds \cup {0}] /\ reads'[c] = id /\ id # 0
      /\ \A d \in Calls \ {c} : reads'[d] = reads[d]
  BY IdsAreNumbers DEF TypeOK
<1>3. nextId \in Nat /\ id \in Nat /\ ~(id >= nextId)
  BY IdsAreNumbers, BridgeAssumption, HoldersAreCreated DEF TypeOK, BridgeTypeOK
<1>4. c \in Nat /\ \A d \in Calls : d \in Nat
  BY DataTypes
<1>5. \A i \in 1 .. Len(queue) : queue[i] \in table /\ reads[queue[i]] = id /\ queue[i] \in Calls
  BY <1>1, ElementsTyped DEF QueueAt
<1>6. \A d \in Calls : reads[d] # 0 => reads[d] < nextId /\ \A earlier \in Calls : earlier < d => reads[earlier] # 0
  BY DEF IInv, CallAt
<1>7. \A d \in Calls : d \in table => promise[d] = Waiting /\ ~HasJob(d)
  BY DEF IInv, CallAt, JobsInv, HasJob
<1>8. promise[c] = Waiting /\ ~HasJob(c)
  BY DEF IInv, CallAt, JobsInv, HasJob
<1>9. ASSUME NEW i \in 1 .. Len(queue) PROVE queue[i] < c /\ queue[i] # c
  <2>1. PICK d \in Calls : d = queue[i] /\ reads[d] # 0
    BY <1>2, <1>5
  <2>2. ~(c < d) /\ c # d
    BY <1>6, <2>1
  <2>3. c \in Nat /\ d \in Nat
    BY <1>4
  <2> QED
    BY <2>1, <2>2, <2>3
<1>10. \A d \in table : reads[d] = id => \E i \in 1 .. Len(queue) : queue[i] = d
  BY DEF IInv, CallAt, TypeOK
<1>11. \A i, j \in 1 .. Len(queue) : i < j => queue[i] < queue[j]
  BY <1>1 DEF QueueAt
<1> HIDE DEF queue
<1>12. PICK q : q = Append(queue, c)
  OBVIOUS
<1>13. /\ q \in Seq(Calls) /\ Len(q) = Len(queue) + 1
       /\ \A i \in 1 .. Len(queue) : q[i] = queue[i]
       /\ q[Len(queue) + 1] = c
  BY <1>1, <1>12, AppendFacts
<1>14. \A i \in 1 .. Len(q) : i \in Nat /\ (i \in 1 .. Len(queue) \/ i = Len(queue) + 1)
  BY <1>1, <1>13
<1>15. ASSUME NEW i \in 1 .. Len(q)
       PROVE  reads'[q[i]] = id /\ promise[q[i]] = Waiting /\ ~HasJob(q[i])
  <2>1. CASE i \in 1 .. Len(queue)
    BY <1>2, <1>5, <1>7, <1>9, <1>13, <2>1
  <2>2. CASE i = Len(queue) + 1
    BY <1>2, <1>8, <1>13, <2>2
  <2> QED
    BY <1>14, <2>1, <2>2
<1>16. ASSUME NEW i \in 1 .. Len(q), NEW j \in 1 .. Len(q), i < j PROVE q[i] < q[j]
  <2>1. i \in 1 .. Len(queue)
    BY <1>1, <1>13, <1>16
  <2>2. CASE j \in 1 .. Len(queue)
    BY <1>11, <1>13, <1>16, <2>1, <2>2
  <2>3. CASE j = Len(queue) + 1
    BY <1>9, <1>13, <2>1, <2>3
  <2> QED
    BY <1>14, <2>2, <2>3
<1>17. \A d \in table : reads[d] = id => \E i \in 1 .. Len(q) : q[i] = d
  BY <1>1, <1>10, <1>13
<1>18. \E i \in 1 .. Len(q) : q[i] = c
  BY <1>1, <1>13
<1>19. \A d \in Calls : reads'[d] = reads[d] \/ (reads[d] = 0 /\ \E i \in 1 .. Len(q) : q[i] = d)
  BY <1>2, <1>18
<1>20. ASSUME NEW d \in Calls, reads'[d] # 0
       PROVE  reads'[d] < nextId /\ \A earlier \in Calls : earlier < d => reads'[earlier] # 0
  <2>1. CASE d = c
    BY <1>2, <1>3, <2>1
  <2>2. CASE d # c
    BY <1>2, <1>6, <1>20, <2>2
  <2> QED
    BY <2>1, <2>2
<1>21. Ready(id, q)
  BY <1>2, <1>13, <1>15, <1>16, <1>17, <1>19, <1>20 DEF Ready
<1> QED
  BY <1>12, <1>21 DEF queue

\* read() of a stream that is over is answered at once.
LEMMA AnswersAtOnce ==
    ASSUME TypeOK, IInv, NEW id \in OpIds, id \notin ops, NEW c, Ready(id, <<c>>),
           NEW a \in AnyAnswer, a # Waiting,
           jobs' = jobs \o AnswerTo(<<c>>, a), c \in Calls, c \notin table,
           UNCHANGED <<bridgeVars, flagShut, blob, stream, signal, holds, ops, payloads,
                       demand, errors, table, requests, landed, batch, boa, promise>>
    PROVE  TypeOK' /\ IInv'
<1>1. UNCHANGED <<nextId, tokens, order, active, bridgeShut, chunkQueue>>
  BY DEF bridgeVars
<1>2. <<c>> \in Seq(Calls) /\ << >> \in Seq(Calls) /\ <<c>> = <<c>> \o << >>
  OBVIOUS
<1>3. Splits(<<c>>, <<c>>, << >>) /\ Covers(AnswerTo(<<c>>, a), <<c>>)
  BY <1>2, ReadySplits, AnswerToCovers
<1>4. Members(<<c>>) = {c}
  BY DEF Members
<1>5. table' = (table \cup Members(<<c>>)) \ Members(<<c>>)
  BY <1>4
<1>6. stream'[id].queue = << >>
  BY DEF IInv, StreamAt, OverAt, Closed
<1>7. /\ JobsInv'
      /\ \A d \in Calls : CallAt(d)'
      /\ \A x \in OpIds : QueueAt(x)'
  BY <1>1, <1>3, <1>5, <1>6, CallsAnswered
<1>8. TypeOK'
  <2>1. BridgeTypeOK'
    BY SameBridge
  <2>2. jobs' \in Seq([call : Calls, answer : AnyAnswer])
    BY <1>3, <1>5, JobsGrow
  <2>3. reads' \in [Calls -> OpIds \cup {0}]
    BY DEF Ready
  <2> QED
    BY <1>1, <2>1, <2>2, <2>3 DEF TypeOK
<1>9. SlotInv' /\ BoaInv'
  BY <1>1 DEF IInv, SlotInv, BoaInv
<1>10. ASSUME NEW x \in OpIds PROVE StreamAt(x)'
  <2>1. StreamAt(x)
    BY DEF IInv
  <2>2. x \in ops => ServeAt(x)' /\ DataAt(x)'
    BY <2>1, SameServed DEF StreamAt, LiveAt
  <2> QED
    BY <1>1, <1>7, <2>1, <2>2 DEF StreamAt, LiveAt, HeldAt, OverAt, Closed, NewAt
<1> QED
  BY <1>7, <1>8, <1>9, <1>10 DEF IInv

\* read() queues its call, or is answered at once.
LEMMA ReadStep ==
    ASSUME TypeOK, IInv, NEW id \in OpIds, Read(id) PROVE TypeOK' /\ IInv'
<1>1. PICK c \in Calls :
         /\ reads[c] = 0 /\ \A earlier \in Calls : earlier < c => reads[earlier] # 0
         /\ reads' = [reads EXCEPT ![c] = id]
         /\ IF id \in ops
            THEN Continues(id, [stream[id] EXCEPT !.queue = Append(@, c)], << >>)
            ELSE /\ jobs' = jobs \o AnswerTo(<<c>>, IF id \in errors THEN Failed ELSE Done)
                 /\ UNCHANGED <<bridgeVars, stream, ops, payloads, demand, errors,
                                table, requests, landed>>
  BY DEF Read
<1>2. /\ boa = "idle" /\ holds[id] # {}
      /\ UNCHANGED <<flagShut, blob, signal, holds, batch, boa, promise>>
  BY DEF Read
<1>3. stream[id].queue \in Seq(Calls) /\ stream[id] \in Stream
  BY StreamTypes
<1>4. PICK q : q = Append(stream[id].queue, c)
  OBVIOUS
<1>5. Ready(id, q) /\ q \in Seq(Calls) /\ q # << >>
  <2>1. Ready(id, q)
    BY <1>1, <1>2, <1>4, ReadReady
  <2>2. q \in Seq(Calls) /\ q # << >>
    BY <1>3, <1>4
  <2> QED
    BY <2>1, <2>2
<1>6. CASE id \in ops
  <2>1. PICK s : s = [stream[id] EXCEPT !.queue = q]
    OBVIOUS
  <2>2. /\ s \in Stream /\ s.queue = q /\ s.inFlight = stream[id].inFlight
        /\ s.loaded = stream[id].loaded /\ s.streamReg = stream[id].streamReg
        /\ s.readerReg = stream[id].readerReg
    BY <1>3, <1>5, <2>1 DEF Stream
  <2>3. Continues(id, s, << >>)
    BY <1>1, <1>4, <1>6, <2>1
  <2>4. Frame(id)
    BY <1>2 DEF Frame, TypeOK
  <2>5. ServeAt(id) /\ DataAt(id) /\ ~flagShut
    BY <1>2, <1>6, LiveMeansOpen DEF IInv, StreamAt, LiveAt
  <2>6. Served(id, s)
    <3>1. s.inFlight => q # << >>
      BY <1>5
    <3>2. /\ s.inFlight => Len(requests[id]) + Len(landed[id]) + Len(batch'[id]) = 1
          /\ ~s.inFlight => Len(requests[id]) + Len(landed[id]) + Len(batch'[id]) = 0
      BY <1>2, <2>2, <2>5 DEF ServeAt, OnTheWay
    <3>3. s.loaded <= blob[id].chunks /\ batch'[id] = batch[id]
      BY <1>2, <2>2, <2>5 DEF DataAt
    <3>4. \A j \in 1 .. Len(requests[id]) : requests[id][j] = s.loaded
      BY <2>2, <2>5 DEF DataAt
    <3>5. /\ \A j \in 1 .. Len(landed[id]) :
                /\ landed[id][j].at = s.loaded
                /\ landed[id][j].kind # "error" =>
                      (landed[id][j].kind = "eof" <=> landed[id][j].at = blob[id].chunks)
          /\ \A j \in 1 .. Len(batch[id]) :
                /\ batch[id][j].at = s.loaded
                /\ batch[id][j].kind # "error" =>
                      (batch[id][j].kind = "eof" <=> batch[id][j].at = blob[id].chunks)
      BY <2>2, <2>5 DEF DataAt, IsNext
    <3>6. \A done \in {landed[id][j] : j \in 1 .. Len(landed[id])}
                        \cup {batch'[id][j] : j \in 1 .. Len(batch'[id])} :
             /\ done.at = s.loaded
             /\ done.kind # "error" => (done.kind = "eof" <=> done.at = blob[id].chunks)
      BY ONLY <3>3, <3>5
    <3> QED
      BY ONLY <2>2, <3>1, <3>2, <3>3, <3>4, <3>6 DEF Served
  <2>7. Splits(q, << >>, q)
    <3>1. << >> \in Seq(Calls) /\ q = << >> \o q
      BY <1>5, QueueParts
    <3> QED
      BY <1>5, <3>1, ReadySplits
  <2> QED
    BY <1>5, <1>6, <2>2, <2>3, <2>4, <2>6, <2>7, NoneCovered, ContinuesStep
<1>7. CASE id \notin ops
  <2>0. stream[id].queue = << >>
    BY <1>7 DEF IInv, StreamAt, OverAt, Closed
  <2>1. q = <<c>>
    BY <1>4, <2>0
  <2>2. c \notin table
    BY <1>1, IdsAreNumbers DEF IInv, CallAt, TypeOK
  <2>3. PICK a \in AnyAnswer : a # Waiting /\ a = IF id \in errors THEN Failed ELSE Done
    BY DataTypes
  <2> QED
    BY <1>1, <1>2, <1>5, <1>7, <2>1, <2>2, <2>3, AnswersAtOnce
<1> QED
  BY <1>6, <1>7

\* cancel() ends the stream.
LEMMA CancelStep ==
    ASSUME TypeOK, IInv, NEW id \in OpIds, Cancel(id) PROVE TypeOK' /\ IInv'
<1>1. /\ id \in ops /\ boa = "idle" /\ Finishes(id, << >>, stream[id].queue)
      /\ UNCHANGED <<cancelled, flagShut, blob, signal, holds, batch, boa, reads, promise>>
  BY DEF Cancel
<1>2. PICK q \in Seq(Calls) : q = stream[id].queue
  BY StreamTypes
<1>3. Ready(id, q)
  BY <1>1, <1>2, QueueReady
<1>4. PICK answers : answers = << >> \o AnswerTo(q, Done)
  OBVIOUS
<1>5. Covers(answers, q)
  <2>1. Covers(AnswerTo(q, Done), q)
    BY AnswerToCovers, DataTypes
  <2>2. q = << >> \o q /\ << >> \in Seq(Calls)
    BY QueueParts
  <2> QED
    BY <1>4, <2>1, <2>2, NoneCovered, CoversConcat
<1>6. Ends(id, answers) /\ errors' = errors
  BY <1>1, <1>2, <1>4 DEF Finishes
<1>7. Frame(id)
  BY <1>1 DEF Frame, TypeOK
<1>8. cancelled' \subseteq OpIds /\ errors' \subseteq OpIds
  BY <1>1, <1>6 DEF TypeOK, BridgeTypeOK
<1> QED
  BY <1>1, <1>3, <1>5, <1>6, <1>7, <1>8, EndsStep

\* The sweep ends streams for which no call waits.
LEMMA AbandonStep ==
    ASSUME TypeOK, IInv, NEW id \in OpIds, Abandon(id) PROVE TypeOK' /\ IInv'
<1>1. /\ id \in ops /\ boa \in {"sweeping", "resweeping"} /\ Ends(id, << >>)
      /\ cancelled' = cancelled \cup ({id} \cap tokens) /\ stream[id].queue = << >>
      /\ UNCHANGED <<flagShut, blob, signal, holds, errors, batch, boa, reads, promise>>
  BY DEF Abandon, IsAbandoned
<1>2. Ready(id, << >>)
  BY <1>1, QueueReady
<1>3. Frame(id)
  BY <1>1 DEF Frame, TypeOK
<1>4. cancelled' \subseteq OpIds /\ errors' \subseteq OpIds
  BY <1>1 DEF TypeOK, BridgeTypeOK
<1> QED
  BY <1>1, <1>2, <1>3, <1>4, NoneCovered, EndsStep

-----------------------------------------------------------------------------
(* Settlement.                                                              *)

\* A completion of a stream that is over is dropped.
LEMMA DropStep ==
    ASSUME TypeOK, IInv, NEW id \in OpIds, id \notin ops, boa = "settling", batch[id] # << >>,
           batch' = [batch EXCEPT ![id] = Tail(batch[id])],
           UNCHANGED <<bridgeVars, flagShut, blob, stream, signal, holds, ops, payloads,
                       demand, errors, table, requests, landed, boa, jobs, reads, promise>>
    PROVE  TypeOK' /\ IInv'
<1>1. UNCHANGED <<nextId, tokens, order, active, bridgeShut, chunkQueue>>
  BY DEF bridgeVars
<1>2. /\ batch' \in [OpIds -> Seq(Completion)]
      /\ \A x \in OpIds \ {id} : batch'[x] = batch[x]
  <2>1. Tail(batch[id]) \in Seq(Completion)
    BY StreamTypes, TailFacts
  <2> QED
    BY <2>1 DEF TypeOK
<1>3. TypeOK'
  <2>1. BridgeTypeOK'
    BY SameBridge
  <2> QED
    BY <1>1, <1>2, <2>1 DEF TypeOK
<1>4. SlotInv' /\ BoaInv'
  BY <1>1 DEF IInv, SlotInv, BoaInv
<1>5. /\ JobsInv'
      /\ \A c \in Calls : CallAt(c)'
      /\ \A x \in OpIds : QueueAt(x)'
  BY <1>1, SameCalls
<1>6. ASSUME NEW x \in OpIds PROVE StreamAt(x)'
  <2>1. CASE x = id
    <3>1. StreamAt(id) /\ ~(id >= nextId)
      BY DEF IInv, StreamAt, NewAt
    <3> QED
      BY <1>1, <1>5, <2>1, <3>1 DEF StreamAt, OverAt, Closed
  <2>2. CASE x # id
    <3>1. Frame(id)
      BY <1>2 DEF Frame
    <3> QED
      BY <1>1, <1>5, <2>2, <3>1, OthersKeep
  <2> QED
    BY <2>1, <2>2
<1> QED
  BY <1>3, <1>4, <1>5, <1>6 DEF IInv

\* A completion of a live stream is the only one on its way, and is for the
\* oldest call.
LEMMA CompletionFacts ==
    ASSUME TypeOK, IInv, NEW id \in OpIds, id \in ops, boa = "settling", batch[id] # << >>,
           batch' = [batch EXCEPT ![id] = Tail(batch[id])]
    PROVE  /\ Len(requests[id]) = 0 /\ Len(landed[id]) = 0 /\ Len(batch'[id]) = 0
           /\ Head(batch[id]) \in Completion /\ IsNext(id, Head(batch[id]))
           /\ stream[id].queue # << >> /\ Head(stream[id].queue) \in table
           /\ batch' \in [OpIds -> Seq(Completion)]
           /\ \A x \in OpIds \ {id} : batch'[x] = batch[x]
<1>1. /\ requests[id] \in Seq(Offsets) /\ Len(requests[id]) \in Nat /\ Len(landed[id]) \in Nat
      /\ batch[id] \in Seq(Completion) /\ stream[id].queue \in Seq(Calls)
  BY StreamTypes
<1>2. /\ Head(batch[id]) = batch[id][1] /\ Head(batch[id]) \in Completion
      /\ Tail(batch[id]) \in Seq(Completion) /\ Len(batch[id]) >= 1
      /\ Len(Tail(batch[id])) = Len(batch[id]) - 1
  BY <1>1, TailFacts
<1>3. ServeAt(id) /\ DataAt(id) /\ QueueAt(id) /\ ~flagShut
  BY LiveMeansOpen DEF IInv, StreamAt, LiveAt
<1>4. Len(batch[id]) \in Nat
  BY <1>1
<1>5. Len(requests[id]) = 0 /\ Len(landed[id]) = 0 /\ Len(batch[id]) = 1 /\ stream[id].queue # << >>
  <2>1. \A a, b, c \in Nat : c >= 1 => a + b + c # 0 /\ (a + b + c = 1 => a = 0 /\ b = 0 /\ c = 1)
    OBVIOUS
  <2>2. Len(requests[id]) + Len(landed[id]) + Len(batch[id])
           = IF stream[id].queue # << >> THEN 1 ELSE 0
    BY <1>3 DEF ServeAt, OnTheWay
  <2>3. /\ Len(requests[id]) \in Nat /\ Len(landed[id]) \in Nat
        /\ Len(batch[id]) \in Nat /\ Len(batch[id]) >= 1
    BY <1>1, <1>2, <1>4
  <2>4. stream[id].queue # << >>
    BY ONLY <2>1, <2>2, <2>3
  <2>5. Len(requests[id]) + Len(landed[id]) + Len(batch[id]) = 1
    BY ONLY <2>2, <2>4
  <2>6. PICK a, b, c \in Nat : a = Len(requests[id]) /\ b = Len(landed[id]) /\ c = Len(batch[id])
    BY ONLY <2>3
  <2>7. a \in Nat /\ b \in Nat /\ c \in Nat
    BY ONLY <2>3, <2>6
  <2>8. c >= 1 /\ a + b + c = 1
    BY ONLY <2>3, <2>5, <2>6
  <2>9. a = 0 /\ b = 0 /\ c = 1
    BY ONLY <2>1, <2>7, <2>8
  <2> QED
    BY ONLY <2>4, <2>6, <2>9
<1>6. batch'[id] = Tail(batch[id]) /\ batch' \in [OpIds -> Seq(Completion)]
      /\ \A x \in OpIds \ {id} : batch'[x] = batch[x]
  BY <1>2 DEF TypeOK
<1>7. IsNext(id, batch[id][1])
  BY <1>3, <1>5 DEF DataAt
<1>8. Head(stream[id].queue) = stream[id].queue[1] /\ 1 \in 1 .. Len(stream[id].queue)
  BY <1>1, <1>5, TailFacts
<1> QED
  BY <1>2, <1>3, <1>5, <1>6, <1>7, <1>8 DEF QueueAt

\* The last text goes to the call that reached the end.
LEMMA LastPartCovers ==
    ASSUME NEW b \in Blobs, NEW q \in Seq(Calls), q # << >>
    PROVE  Covers(LastPart(b, Head(q))
                    \o AnswerTo(IF HasTail(b) THEN Tail(q) ELSE q, Done), q)
<1>1. Head(q) \in Calls /\ Tail(q) \in Seq(Calls) /\ <<Head(q)>> \in Seq(Calls) /\ << >> \in Seq(Calls)
  BY TailFacts
<1>2. q = <<Head(q)>> \o Tail(q) /\ q = << >> \o q
  BY QueueParts
<1>3. CASE HasTail(b)
  <2>1. Part(Yield(b)) \in AnyAnswer /\ Part(Yield(b)) # Waiting
    <3>1. /\ b.chunks \in Nat /\ b.chunks > 0
          /\ Yield(b) = b.chunks \/ Yield(b) = b.chunks + 1
      BY <1>3, StreamAssumption DEF HasTail, Yield
    <3>2. Yield(b) \in Nat /\ Yield(b) >= 1 /\ Yield(b) <= b.chunks + 1
      BY <3>1
    <3> QED
      BY <3>2, DataTypes
  <2>2. Covers(AnswerTo(<<Head(q)>>, Part(Yield(b))), <<Head(q)>>)
    BY <1>1, <2>1, AnswerToCovers
  <2>3. Covers(AnswerTo(Tail(q), Done), Tail(q))
    BY <1>1, AnswerToCovers, DataTypes
  <2>4. Covers(AnswerTo(<<Head(q)>>, Part(Yield(b))) \o AnswerTo(Tail(q), Done), <<Head(q)>> \o Tail(q))
    BY <1>1, <2>2, <2>3, CoversConcat
  <2> QED
    BY <1>2, <1>3, <2>4 DEF LastPart
<1>4. CASE ~HasTail(b)
  <2>1. Covers(AnswerTo(q, Done), q)
    BY AnswerToCovers, DataTypes
  <2>2. Covers(<< >> \o AnswerTo(q, Done), << >> \o q)
    BY <1>1, <2>1, NoneCovered, CoversConcat
  <2> QED
    BY <1>2, <1>4, <2>2 DEF LastPart
<1> QED
  BY <1>3, <1>4

\* A completion of a live stream answers its oldest call, or all.
LEMMA SettleCallStep ==
    ASSUME TypeOK, IInv, NEW id \in OpIds, id \in ops, boa = "settling", batch[id] # << >>,
           batch' = [batch EXCEPT ![id] = Tail(batch[id])],
           SettleCall(id, Head(batch[id]), Head(stream[id].queue)),
           UNCHANGED <<flagShut, blob, signal, holds, boa, reads, promise>>
    PROVE  TypeOK' /\ IInv'
<1>1. PICK q \in Seq(Calls) : q = stream[id].queue
  BY StreamTypes
<1>2. PICK done \in Completion : done = Head(batch[id])
  BY CompletionFacts
<1>3. /\ Len(requests[id]) = 0 /\ Len(landed[id]) = 0 /\ Len(batch'[id]) = 0
      /\ IsNext(id, done) /\ q # << >>
      /\ batch' \in [OpIds -> Seq(Completion)]
      /\ \A x \in OpIds \ {id} : batch'[x] = batch[x]
  BY <1>1, <1>2, CompletionFacts
<1>4. Frame(id) /\ Ready(id, q)
  BY <1>1, <1>3, QueueReady DEF Frame
<1>5. DataAt(id)
  BY DEF IInv, StreamAt, LiveAt
<1>6. PICK b \in Blobs : b = blob[id]
  BY <1>5 DEF DataAt
<1>7. PICK s : s = [stream[id] EXCEPT !.inFlight = FALSE]
  OBVIOUS
<1>8. /\ s \in Stream /\ s.queue = q /\ s.inFlight = FALSE /\ s.loaded = stream[id].loaded
      /\ s.streamReg = stream[id].streamReg /\ s.readerReg = stream[id].readerReg
  BY <1>1, <1>7, StreamTypes DEF Stream
<1>9. /\ s.loaded \in Nat /\ b.chunks \in Nat /\ s.loaded <= b.chunks /\ done.at = s.loaded
      /\ done.at \in Nat
      /\ done.kind = "chunk" => s.loaded + 1 <= b.chunks
  <2>1. s.loaded \in Nat /\ b.chunks \in Nat
    BY <1>8, DataTypes DEF Stream
  <2>2. s.loaded <= b.chunks /\ done.at = s.loaded
    BY <1>3, <1>5, <1>6, <1>8 DEF DataAt, IsNext
  <2>3. done.kind = "chunk" => done.at # b.chunks
    BY <1>3, <1>6 DEF IsNext
  <2> QED
    BY <2>1, <2>2, <2>3
<1>10. /\ SettleCall(id, done, Head(q))
       /\ << >> \in Seq(Calls) /\ q = << >> \o q /\ q = <<Head(q)>> \o Tail(q)
       /\ Tail(q) \in Seq(Calls) /\ <<Head(q)>> \in Seq(Calls)
  <2>1. Head(q) \in Calls /\ Tail(q) \in Seq(Calls)
    BY <1>3, TailFacts
  <2> QED
    BY <1>1, <1>2, <1>3, <2>1, QueueParts
<1>11. ASSUME Fails(id, << >>, s.queue), UNCHANGED cancelled PROVE TypeOK' /\ IInv'
  <2>1. Covers(AnswerTo(q, Failed), q)
    BY AnswerToCovers, DataTypes
  <2>2. Covers(<< >> \o AnswerTo(q, Failed), q)
    BY <1>10, <2>1, NoneCovered, CoversConcat
  <2>3. Ends(id, << >> \o AnswerTo(q, Failed)) /\ errors' = errors \cup {id}
    BY <1>8, <1>11 DEF Fails
  <2>4. cancelled' \subseteq OpIds /\ errors' \subseteq OpIds
    BY <1>11, <2>3 DEF TypeOK, BridgeTypeOK
  <2> QED
    BY <1>4, <2>2, <2>3, <2>4, EndsStep
<1>12. ASSUME Finishes(id, LastPart(b, Head(q)), IF HasTail(b) THEN Tail(s.queue) ELSE s.queue),
              UNCHANGED cancelled
       PROVE  TypeOK' /\ IInv'
  <2>1. PICK answers : answers = LastPart(b, Head(q)) \o AnswerTo(IF HasTail(b) THEN Tail(q) ELSE q, Done)
    OBVIOUS
  <2>2. Covers(answers, q)
    BY <1>3, <2>1, LastPartCovers
  <2>3. Ends(id, answers) /\ errors' = errors
    BY <1>8, <1>12, <2>1 DEF Finishes
  <2>4. cancelled' \subseteq OpIds /\ errors' \subseteq OpIds
    BY <1>12, <2>3 DEF TypeOK, BridgeTypeOK
  <2> QED
    BY <1>4, <2>2, <2>3, <2>4, EndsStep
<1>13. ASSUME NEW t \in Stream, NEW u, NEW v, NEW before,
              Splits(q, u, v), Covers(before, u), t.queue = v, t.inFlight = FALSE,
              t.loaded = s.loaded + 1, done.kind = "chunk",
              t.streamReg = s.streamReg, t.readerReg = s.readerReg,
              Continues(id, t, before)
       PROVE  TypeOK' /\ IInv'
  <2>1. Served(id, t)
    <3>1. Len(requests[id]) + Len(landed[id]) + Len(batch'[id]) = 0
      BY <1>3
    <3>2. /\ 1 .. Len(requests[id]) = {} /\ 1 .. Len(landed[id]) = {} /\ 1 .. Len(batch'[id]) = {}
      BY <1>3
    <3>3. t.loaded <= blob[id].chunks
      BY <1>6, <1>9, <1>13
    <3>4. {landed[id][i] : i \in 1 .. Len(landed[id])}
             \cup {batch'[id][i] : i \in 1 .. Len(batch'[id])} = {}
      BY <3>2
    <3>5. /\ t.inFlight => Len(requests[id]) + Len(landed[id]) + Len(batch'[id]) = 1
          /\ ~t.inFlight => Len(requests[id]) + Len(landed[id]) + Len(batch'[id]) = 0
      BY <1>13, <3>1
    <3>6. t.streamReg = stream[id].streamReg /\ t.readerReg = stream[id].readerReg
      BY <1>8, <1>13
    <3>7. \A i \in 1 .. Len(requests[id]) : requests[id][i] = t.loaded
      BY <3>2
    <3> QED
      BY <1>13, <3>3, <3>4, <3>5, <3>6, <3>7 DEF Served
  <2> QED
    BY <1>4, <1>13, <2>1, ContinuesStep
<1>14. s.loaded + 1 \in Offsets \/ done.kind # "chunk"
  BY <1>9, DataTypes
<1>15. ASSUME done.kind = "chunk",
              Continues(id, [s EXCEPT !.queue = Tail(s.queue), !.loaded = s.loaded + 1],
                        AnswerTo(<<Head(q)>>, Part(done.at + 1)))
       PROVE  TypeOK' /\ IInv'
  <2>1. PICK t : t = [s EXCEPT !.queue = Tail(s.queue), !.loaded = s.loaded + 1]
    OBVIOUS
  <2>2. /\ t \in Stream /\ t.queue = Tail(q) /\ t.inFlight = FALSE /\ t.loaded = s.loaded + 1
        /\ t.streamReg = s.streamReg /\ t.readerReg = s.readerReg
    BY <1>8, <1>10, <1>14, <1>15, <2>1 DEF Stream
  <2>3. Part(done.at + 1) \in AnyAnswer /\ Part(done.at + 1) # Waiting
    <3>1. done.at + 1 \in Nat /\ done.at + 1 >= 1 /\ done.at + 1 <= b.chunks + 1
      BY <1>9
    <3> QED
      BY <3>1, DataTypes
  <2>4. Covers(AnswerTo(<<Head(q)>>, Part(done.at + 1)), <<Head(q)>>)
    BY <1>10, <2>3, AnswerToCovers
  <2>5. Splits(q, <<Head(q)>>, Tail(q))
    BY <1>4, <1>10, ReadySplits
  <2>6. Continues(id, t, AnswerTo(<<Head(q)>>, Part(done.at + 1)))
    BY <1>15, <2>1
  <2> QED
    BY <1>13, <1>15, <2>2, <2>4, <2>5, <2>6
<1>16. ASSUME done.kind = "chunk", Continues(id, [s EXCEPT !.loaded = s.loaded + 1], << >>)
       PROVE  TypeOK' /\ IInv'
  <2>1. PICK t : t = [s EXCEPT !.loaded = s.loaded + 1]
    OBVIOUS
  <2>2. /\ t \in Stream /\ t.queue = q /\ t.inFlight = FALSE /\ t.loaded = s.loaded + 1
        /\ t.streamReg = s.streamReg /\ t.readerReg = s.readerReg
    BY <1>8, <1>14, <1>16, <2>1 DEF Stream
  <2>3. Splits(q, << >>, q)
    BY <1>4, <1>10, ReadySplits
  <2>4. Continues(id, t, << >>)
    BY <1>16, <2>1
  <2> QED
    BY <1>13, <1>16, <2>2, <2>3, <2>4, NoneCovered
<1>17. \/ Fails(id, << >>, s.queue) /\ UNCHANGED cancelled
       \/ /\ Finishes(id, LastPart(b, Head(q)), IF HasTail(b) THEN Tail(s.queue) ELSE s.queue)
          /\ UNCHANGED cancelled
       \/ /\ done.kind = "chunk"
          /\ Continues(id, [s EXCEPT !.queue = Tail(s.queue), !.loaded = s.loaded + 1],
                       AnswerTo(<<Head(q)>>, Part(done.at + 1)))
       \/ /\ done.kind = "chunk"
          /\ Continues(id, [s EXCEPT !.loaded = s.loaded + 1], << >>)
  BY <1>6, <1>7, <1>10 DEF SettleCall
<1> QED
  BY <1>11, <1>12, <1>15, <1>16, <1>17

\* One completion is settled or dropped.
LEMMA SettleOneStep ==
    ASSUME TypeOK, IInv, SettleOne PROVE TypeOK' /\ IInv'
<1>1. PICK id \in OpIds :
         /\ batch[id] # << >>
         /\ batch' = [batch EXCEPT ![id] = Tail(batch[id])]
         /\ IF id \in ops /\ stream[id].queue # << >> /\ Head(stream[id].queue) \in table
            THEN SettleCall(id, Head(batch[id]), Head(stream[id].queue))
            ELSE /\ stream' = IF id \notin ops THEN stream
                              ELSE [stream EXCEPT ![id].inFlight = FALSE]
                 /\ UNCHANGED <<bridgeVars, ops, payloads, demand, errors, table,
                                requests, landed, jobs>>
  BY DEF SettleOne
<1>2. boa = "settling" /\ UNCHANGED <<flagShut, blob, signal, holds, boa, reads, promise>>
  BY DEF SettleOne
<1>3. CASE id \in ops
  <2>1. stream[id].queue # << >> /\ Head(stream[id].queue) \in table
    BY <1>1, <1>2, <1>3, CompletionFacts
  <2> QED
    BY <1>1, <1>2, <1>3, <2>1, SettleCallStep
<1>4. CASE id \notin ops
  BY <1>1, <1>2, <1>4, DropStep
<1> QED
  BY <1>3, <1>4

-----------------------------------------------------------------------------
(* The invariant.                                                           *)

\* The invariant holds at the start.
LEMMA InitStep == Init => TypeOK /\ IInv
<1> SUFFICES ASSUME Init PROVE TypeOK /\ IInv
  OBVIOUS
<1>1. /\ nextId = 1 /\ tokens = {} /\ order = {} /\ active = 0 /\ ~flagShut /\ ~bridgeShut
      /\ chunkQueue = [id \in OpIds |-> 0]
      /\ blob = [id \in OpIds |-> NoBlob] /\ stream = [id \in OpIds |-> Closed]
      /\ signal = [id \in OpIds |-> [stream |-> FALSE, reader |-> FALSE]]
      /\ holds = [id \in OpIds |-> {}]
      /\ ops = {} /\ payloads = {} /\ demand = {} /\ errors = {} /\ table = {}
      /\ requests = Empty /\ landed = Empty /\ batch = Empty
      /\ boa = "idle" /\ jobs = << >>
      /\ reads = [c \in Calls |-> 0] /\ promise = [c \in Calls |-> Waiting]
  BY DEF Init, BridgeInit
<1>2. Closed \in Stream /\ Closed.queue = << >>
  BY DEF Closed, Stream
<1>3. TypeOK
  <2>1. BridgeTypeOK
    <3>1. BridgeInit
      BY DEF Init
    <3>2. 1 \in 1 .. MaxId
      BY BridgeAssumption
    <3>3. "none" \in Outcomes \cup {"none"}
      OBVIOUS
    <3> QED
      BY <3>1, <3>2, <3>3 DEF BridgeInit, BridgeTypeOK
  <2>2. stream \in [OpIds -> Stream] /\ promise \in [Calls -> AnyAnswer]
    BY <1>1, <1>2, DataTypes
  <2>3. /\ requests \in [OpIds -> Seq(Offsets)] /\ landed \in [OpIds -> Seq(Completion)]
        /\ batch \in [OpIds -> Seq(Completion)]
        /\ \A id \in OpIds : Len(landed[id]) = chunkQueue[id]
    BY <1>1 DEF Empty
  <2>4. jobs \in Seq([call : Calls, answer : AnyAnswer])
    BY <1>1
  <2>5. reads \in [Calls -> OpIds \cup {0}]
    BY <1>1
  <2>6. /\ blob \in [OpIds -> Blobs \cup {NoBlob}]
        /\ signal \in [OpIds -> [stream : BOOLEAN, reader : BOOLEAN]]
        /\ holds \in [OpIds -> SUBSET {"stream", "reader", "released"}]
    BY <1>1
  <2> QED
    BY <1>1, <2>1, <2>2, <2>3, <2>4, <2>5, <2>6 DEF TypeOK
<1>4. SlotInv
  BY <1>1, FS_EmptySet DEF SlotInv
<1>5. BoaInv /\ JobsInv
  BY <1>1 DEF BoaInv, JobsInv
<1>6. \A c \in Calls : CallAt(c)
  BY <1>1 DEF CallAt
<1>7. \A id \in OpIds : StreamAt(id)
  BY <1>1, <1>2 DEF StreamAt, QueueAt, OverAt, NewAt, Empty, Closed
<1> QED
  BY <1>3, <1>4, <1>5, <1>6, <1>7 DEF IInv

\* Every step keeps it.
LEMMA NextStep == TypeOK /\ IInv /\ [Next]_vars => TypeOK' /\ IInv'
<1> SUFFICES ASSUME TypeOK, IInv, [Next]_vars PROVE TypeOK' /\ IInv'
  OBVIOUS
<1>1. CASE CreateStream
  BY <1>1, CreateStreamStep
<1>2. CASE CreateStreamFails \/ CloseFlag \/ PollEnds \/ UNCHANGED vars
  BY <1>2, QuietStep
<1>3. ASSUME NEW id \in OpIds, Script(id) PROVE TypeOK' /\ IInv'
  BY <1>3, GetReaderStep, ReleaseLockStep, ReadStep, CancelStep DEF Script
<1>4. ASSUME NEW id \in OpIds, NEW object \in {"stream", "reader", "released"}, Collect(id, object)
      PROVE  TypeOK' /\ IInv'
  BY <1>4, CollectStep
<1>5. ASSUME NEW id \in OpIds, WorkerPush(id) PROVE TypeOK' /\ IInv'
  BY <1>5, WorkerPushStep
<1>6. CASE SweepBegins
  BY <1>6, SweepStep
<1>7. CASE PollTakes
  BY <1>7, PollTakesStep
<1>8. CASE SettleOne
  BY <1>8, SettleOneStep
<1>9. ASSUME NEW id \in OpIds, Abandon(id) PROVE TypeOK' /\ IInv'
  BY <1>9, AbandonStep
<1>10. CASE RunJob
  BY <1>10, RunJobStep
<1>11. CASE CloseBridge
  BY <1>11, CloseBridgeStep
<1> QED
  BY <1>1, <1>2, <1>3, <1>4, <1>5, <1>6, <1>7, <1>8, <1>9, <1>10, <1>11 DEF Next, Poll

\* The inductive invariant, of every state.
LEMMA Invariant == Spec => [](TypeOK /\ IInv)
<1>1. Init => TypeOK /\ IInv
  BY InitStep
<1>2. (TypeOK /\ IInv) /\ [Next]_vars => (TypeOK /\ IInv)'
  BY NextStep
<1> QED
  BY <1>1, <1>2, PTL DEF Spec

-----------------------------------------------------------------------------
(* Theorems.                                                                *)

\* Every variable keeps its type, and the completions that wait are the ones
\* the bridge counts.
THEOREM StreamTypesCorrect == Spec => []TypeOK
<1> QED
  BY Invariant, PTL

\* One request or completion serves the calls that wait, and none is on its way
\* when no call waits (maybe_submit_next, push_stream_completion).
THEOREM OneRequestServesReads == Spec => []OneRequestServes
<1>1. TypeOK /\ IInv => OneRequestServes
  <2> SUFFICES ASSUME TypeOK, IInv, NEW id \in ops, ~flagShut
               PROVE  /\ stream[id].inFlight = (stream[id].queue # << >>)
                      /\ OnTheWay(id) = IF stream[id].queue # << >> THEN 1 ELSE 0
    BY DEF OneRequestServes, OnTheWay
  <2>1. ServeAt(id) /\ stream[id].inFlight \in BOOLEAN
    BY DEF IInv, StreamAt, LiveAt, TypeOK, Stream
  <2> QED
    BY <2>1 DEF ServeAt
<1> QED
  BY <1>1, Invariant, PTL

\* A stream's entry, payload and quota slot go together, and streams are demanded
\* exactly while a call's resolvers are kept (release_stream_operation).
THEOREM SlotsAlwaysMatch == Spec => []SlotsMatchStreams
<1>1. TypeOK /\ IInv => SlotsMatchStreams
  <2> SUFFICES ASSUME TypeOK, IInv PROVE SlotsMatchStreams
    OBVIOUS
  <2>1. ASSUME NEW id \in ops PROVE HasEntry(id) <=> stream[id].queue # << >>
    <3>1. id \in OpIds /\ stream[id].queue \in Seq(Calls)
      BY StreamTypes DEF TypeOK
    <3>2. HasEntry(id) => stream[id].queue # << >>
      <4> SUFFICES ASSUME NEW c \in table, reads[c] = id PROVE stream[id].queue # << >>
        BY DEF HasEntry
      <4>1. \E i \in 1 .. Len(stream[id].queue) : stream[id].queue[i] = c
        BY DEF IInv, CallAt, TypeOK
      <4> QED
        BY <3>1, <4>1
    <3>3. ASSUME stream[id].queue # << >> PROVE HasEntry(id)
      <4>1. 1 \in 1 .. Len(stream[id].queue)
        BY <3>1, <3>3
      <4>2. QueueAt(id)
        BY <3>1 DEF IInv, StreamAt
      <4> QED
        BY <4>1, <4>2 DEF QueueAt, HasEntry
    <3> QED
      BY <3>2, <3>3
  <2>2. demand = {id \in ops : HasEntry(id)}
    BY <2>1 DEF IInv, SlotInv
  <2> QED
    BY <2>2 DEF IInv, SlotInv, SlotsMatchStreams
<1> QED
  BY <1>1, Invariant, PTL

\* A call has one job or none.
LEMMA SettlingCount ==
    ASSUME TypeOK, IInv, NEW c
    PROVE  Cardinality({i \in DOMAIN jobs : jobs[i].call = c}) = IF HasJob(c) THEN 1 ELSE 0
<1> DEFINE S == {i \in DOMAIN jobs : jobs[i].call = c}
<1>1. DOMAIN jobs = 1 .. Len(jobs)
  BY DEF TypeOK
<1>2. CASE HasJob(c)
  <2>1. PICK i \in 1 .. Len(jobs) : jobs[i].call = c
    BY <1>2 DEF HasJob
  <2>2. S = {i}
    BY <1>1, <2>1 DEF IInv, JobsInv
  <2>3. Cardinality({i}) = 1
    BY FS_Singleton
  <2> HIDE DEF S
  <2>4. Cardinality(S) = 1
    BY <2>2, <2>3
  <2> QED
    BY <1>2, <2>4 DEF S
<1>3. CASE ~HasJob(c)
  <2>1. S = {}
    BY <1>1, <1>3 DEF HasJob
  <2> HIDE DEF S
  <2>2. Cardinality(S) = 0
    BY <2>1, FS_EmptySet
  <2> QED
    BY <1>3, <2>2 DEF S
<1> QED
  BY <1>2, <1>3

\* A read() that was not answered waits in the queue of its live stream with its
\* resolvers kept, or has one job; only shutdown leaves calls behind
\* (PendingStreamReads, cancel_shared, drain_queue_*).
THEOREM EveryCallAnsweredOnce == Spec => []OneAnswerEach
<1>1. TypeOK /\ IInv => OneAnswerEach
  <2> SUFFICES ASSUME TypeOK, IInv, NEW c \in Calls
               PROVE  LET waits == c \in table /\ reads[c] \in ops /\ c \in ToSet(stream[reads[c]].queue)
                          settling == Cardinality({i \in DOMAIN jobs : jobs[i].call = c})
                      IN /\ (c \in table) => waits \/ flagShut
                         /\ settling + Cardinality({c} \cap table) <= 1
                         /\ settling = 1 \/ c \in table => reads[c] # 0 /\ promise[c] = Waiting
                         /\ reads[c] # 0 /\ promise[c] = Waiting /\ ~flagShut => settling = 1 \/ waits
    BY DEF OneAnswerEach
  <2> DEFINE waits == c \in table /\ reads[c] \in ops /\ c \in ToSet(stream[reads[c]].queue)
             settling == Cardinality({i \in DOMAIN jobs : jobs[i].call = c})
             kept == Cardinality({c} \cap table)
  <2>1. CallAt(c)
    BY DEF IInv
  <2>2. settling = IF HasJob(c) THEN 1 ELSE 0
    BY SettlingCount
  <2>3. c \in table => waits
    <3> SUFFICES ASSUME c \in table PROVE c \in ToSet(stream[reads[c]].queue) /\ reads[c] \in ops
      OBVIOUS
    <3>1. reads[c] \in ops /\ reads[c] \in OpIds
      BY <2>1 DEF CallAt, TypeOK
    <3>2. stream[reads[c]].queue \in Seq(Calls)
      BY <3>1, StreamTypes
    <3>3. \E i \in 1 .. Len(stream[reads[c]].queue) : stream[reads[c]].queue[i] = c
      BY <2>1 DEF CallAt
    <3> QED
      BY <3>1, <3>2, <3>3 DEF ToSet
  <2>4. kept = IF c \in table THEN 1 ELSE 0
    <3>1. CASE c \in table
      <4>1. {c} \cap table = {c}
        BY <3>1
      <4>2. Cardinality({c}) = 1
        BY FS_Singleton
      <4> QED
        BY <3>1, <4>1, <4>2
    <3>2. CASE c \notin table
      <4>1. {c} \cap table = {}
        BY <3>2
      <4> QED
        BY <3>2, <4>1, FS_EmptySet
    <3> QED
      BY <3>1, <3>2
  <2>5. HasJob(c) => c \notin table /\ reads[c] # 0 /\ promise[c] = Waiting
    BY DEF HasJob, IInv, JobsInv
  <2>6. c \in table => reads[c] # 0 /\ promise[c] = Waiting
    BY <2>1, IdsAreNumbers DEF CallAt, TypeOK
  <2> HIDE DEF waits, settling, kept
  <2>7. settling + kept <= 1
    BY <2>2, <2>4, <2>5
  <2>8. settling = 1 <=> HasJob(c)
    BY <2>2
  <2>9. reads[c] # 0 /\ promise[c] = Waiting /\ ~flagShut => settling = 1 \/ waits
    BY <2>1, <2>3, <2>8 DEF CallAt
  <2>10. settling = 1 \/ c \in table => reads[c] # 0 /\ promise[c] = Waiting
    BY <2>5, <2>6, <2>8
  <2> QED
    BY <2>3, <2>7, <2>9, <2>10 DEF waits, settling, kept
<1> QED
  BY <1>1, Invariant, PTL

\* poll_io ends a stream without an answer only when the script holds neither the
\* stream nor its reader (try_abandon_stream_operation).
THEOREM OnlyUnreachableEnd == Spec => OnlyUnreachableAbandoned
<1>1. TypeOK /\ IInv /\ [Next]_vars =>
         \A id \in ops \ ops' :
            boa \in {"sweeping", "resweeping"} => holds[id] \subseteq {"released"}
  <2> SUFFICES ASSUME TypeOK, IInv, [Next]_vars, boa \in {"sweeping", "resweeping"},
                      NEW x \in ops \ ops'
               PROVE  holds[x] \subseteq {"released"}
    OBVIOUS
  <2>1. PICK id \in OpIds : Abandon(id)
    <3>1. ~(CreateStream \/ CreateStreamFails \/ SweepBegins \/ SettleOne \/ RunJob \/ CloseFlag \/ CloseBridge)
      BY DEF CreateStream, CreateStreamFails, SweepBegins, SettleOne, RunJob, CloseFlag, CloseBridge
    <3>2. \A id \in OpIds : ~Script(id)
      BY DEF Script, GetReader, ReleaseLock, Read, Cancel
    <3>3. ~(\E id \in OpIds, object \in {"stream", "reader", "released"} : Collect(id, object))
      BY DEF Collect, objectsOnly
    <3>4. ~(\E id \in OpIds : WorkerPush(id)) /\ ~PollTakes /\ ~PollEnds /\ ~UNCHANGED vars
      BY DEF WorkerPush, PollTakes, PollEnds, vars, streamVars
    <3> QED
      BY <3>1, <3>2, <3>3, <3>4 DEF Next, Poll
  <2>2. x = id /\ ~stream[id].streamReg /\ ~stream[id].readerReg
    BY <2>1 DEF Abandon, IsAbandoned, Ends, Release
  <2>3. HeldAt(id) /\ holds[id] \in SUBSET {"stream", "reader", "released"}
    BY <2>2 DEF IInv, StreamAt, LiveAt, TypeOK
  <2> QED
    BY <2>2, <2>3 DEF HeldAt
<1> QED
  BY <1>1, Invariant, PTL DEF Spec, OnlyUnreachableAbandoned

-----------------------------------------------------------------------------
(* What the script sees: the refinement of ByteStream.                      *)

\* The jobs of one stream are queued in the order of its calls.
InOrder ==
    \A i, j \in 1 .. Len(jobs) :
        i < j /\ reads[jobs[i].call] = reads[jobs[j].call] => jobs[i].call < jobs[j].call

\* The calls that wait for a stream are its last.
Oldest == \A c \in table, d \in Calls : reads[d] = reads[c] /\ d \notin table => d < c

\* The parts a stream gave when it is where it is: the chunk that only fills the
\* decoder is no part.
Passed(id) ==
    IF blob[id].tail = "silent" /\ stream[id].loaded = blob[id].chunks
    THEN blob[id].chunks - 1
    ELSE stream[id].loaded

\* Ids name the streams that were created; those that replay an error are over.
Opened ==
    /\ errors \cap ops = {}
    /\ \A id \in errors : id < nextId
    /\ \A id \in OpIds : blob[id] = NoBlob <=> id >= nextId

PartsInv ==
    /\ InOrder /\ Oldest /\ Opened
    /\ \A id \in ops : GivenNow[id] = Passed(id)

\* The answer of a call is its promise's, or its job's, or none.
AnswersInv ==
    \A c \in Calls :
        /\ promise[c] # Waiting => AnswerOf(c) = promise[c]
        /\ promise[c] = Waiting /\ ~HasJob(c) => AnswerOf(c) = Waiting
        /\ \A i \in 1 .. Len(jobs) : jobs[i].call = c => AnswerOf(c) = jobs[i].answer

Known == TypeOK /\ IInv /\ AnswersInv

\* No call has two jobs, so it does not matter which one is looked at.
LEMMA AnswersKnown == TypeOK /\ IInv => AnswersInv
<1> SUFFICES ASSUME TypeOK, IInv, NEW c \in Calls
             PROVE  /\ promise[c] # Waiting => AnswerOf(c) = promise[c]
                    /\ promise[c] = Waiting /\ ~HasJob(c) => AnswerOf(c) = Waiting
                    /\ \A i \in 1 .. Len(jobs) : jobs[i].call = c => AnswerOf(c) = jobs[i].answer
  BY DEF AnswersInv
<1> DEFINE job == {i \in DOMAIN jobs : jobs[i].call = c}
<1>1. DOMAIN jobs = 1 .. Len(jobs) /\ JobsInv
  BY DEF TypeOK, IInv
<1>2. promise[c] # Waiting => AnswerOf(c) = promise[c]
  BY DEF AnswerOf
<1>3. promise[c] = Waiting /\ ~HasJob(c) => AnswerOf(c) = Waiting
  <2>1. ~HasJob(c) => job = {}
    BY <1>1 DEF HasJob
  <2> QED
    BY <2>1 DEF AnswerOf
<1>4. ASSUME NEW i \in 1 .. Len(jobs), jobs[i].call = c PROVE AnswerOf(c) = jobs[i].answer
  <2>1. promise[c] = Waiting
    BY <1>1, <1>4 DEF JobsInv
  <2>2. job = {i}
    BY <1>1, <1>4 DEF JobsInv
  <2>3. AnswerOf(c) = jobs[CHOOSE k \in job : TRUE].answer
    BY <2>1, <2>2 DEF AnswerOf
  <2>4. (CHOOSE k \in job : TRUE) \in job
    BY <2>2
  <2> HIDE DEF job
  <2> QED
    BY <2>2, <2>3, <2>4
<1> QED
  BY <1>2, <1>3, <1>4

\* What the parts of the abstract state are at one stream or call.
LEMMA SeenFacts ==
    /\ \A id \in OpIds : /\ StateNow[id] = StateOf(id)
                         /\ GivenNow[id] = Cardinality(Fed(id))
                         /\ YieldNow[id] = IF blob[id] = NoBlob THEN 0 ELSE Yield(blob[id])
    /\ \A c \in Calls : OutcomeNow[c] = AnswerOf(c)
    /\ \A id : Fed(id) \in SUBSET Calls /\ IsFiniteSet(Fed(id)) /\ Cardinality(Fed(id)) \in Nat
<1>1. IsFiniteSet(Calls)
  BY FS_Interval, StreamAssumption DEF Calls
<1>2. ASSUME NEW id PROVE Fed(id) \in SUBSET Calls /\ IsFiniteSet(Fed(id)) /\ Cardinality(Fed(id)) \in Nat
  <2>1. Fed(id) \in SUBSET Calls
    BY DEF Fed
  <2> QED
    BY <1>1, <2>1, FS_Subset, FS_CardinalityType
<1> QED
  BY <1>2 DEF StateNow, GivenNow, YieldNow, OutcomeNow

\* The state of a stream, of which no two cases hold.
StatesSeen ==
    \A id \in OpIds :
        StateNow[id] = IF blob[id] = NoBlob THEN "unopened"
                       ELSE IF id \in ops THEN "readable"
                       ELSE IF id \in errors THEN "errored" ELSE "ended"

\* It is what the tables say.
LEMMA StatesAre == Known /\ Opened => StatesSeen
<1> SUFFICES ASSUME Known, Opened, NEW id \in OpIds
             PROVE  StateNow[id] = IF blob[id] = NoBlob THEN "unopened"
                                   ELSE IF id \in ops THEN "readable"
                                   ELSE IF id \in errors THEN "errored" ELSE "ended"
  BY DEF StatesSeen
<1>1. nextId \in Nat /\ id \in Nat
  BY IdsAreNumbers, BridgeAssumption DEF Known, TypeOK, BridgeTypeOK
<1>2. blob[id] = NoBlob => id \notin ops /\ id \notin errors
  BY <1>1 DEF Opened, Known, IInv, StreamAt, NewAt
<1>3. ~(id \in ops /\ id \in errors)
  BY DEF Opened
<1>4. StateOf(id) = IF blob[id] = NoBlob THEN "unopened"
                    ELSE IF id \in ops THEN "readable"
                    ELSE IF id \in errors THEN "errored" ELSE "ended"
  BY <1>2, <1>3 DEF StateOf
<1> QED
  BY <1>4, SeenFacts

\* A step that answers no call and neither begins nor ends a stream is not seen.
LEMMA Unseen ==
    ASSUME UNCHANGED <<blob, ops, errors, jobs, promise, reads>>
    PROVE  UNCHANGED Abstract!vars
<1>1. \A c : AnswerOf(c)' = AnswerOf(c)
  BY DEF AnswerOf
<1>2. \A id : StateOf(id)' = StateOf(id) /\ Fed(id)' = Fed(id)
  BY <1>1 DEF StateOf, Fed
<1>3. StateNow' = StateNow /\ YieldNow' = YieldNow
  BY <1>2 DEF StateNow, YieldNow
<1>4. GivenNow' = GivenNow /\ OutcomeNow' = OutcomeNow /\ SettledNow' = SettledNow
  BY <1>1, <1>2 DEF GivenNow, OutcomeNow, SettledNow
<1> QED
  BY <1>3, <1>4 DEF Abstract!vars

\* Nor does it disturb what is known of the parts.
LEMMA UnseenKeeps ==
    ASSUME Known, PartsInv,
           UNCHANGED <<blob, ops, errors, jobs, promise, reads, table, nextId>>,
           \A id \in ops : stream'[id].loaded = stream[id].loaded
    PROVE  PartsInv'
<1>1. GivenNow' = GivenNow
  <2>1. \A c : AnswerOf(c)' = AnswerOf(c)
    BY DEF AnswerOf
  <2>2. \A id : Fed(id)' = Fed(id)
    BY <2>1 DEF Fed
  <2> QED
    BY <2>2 DEF GivenNow
<1>2. \A id \in ops : Passed(id)' = Passed(id)
  BY DEF Passed
<1> QED
  BY <1>1, <1>2 DEF PartsInv, InOrder, Oldest, Opened


\* The promise of a call that is answered has its answer next, the others have theirs.
LEMMA Answered ==
    ASSUME NEW id \in OpIds, NEW q, NEW u, NEW v, NEW answers,
           Known, Known', Ready(id, q), Splits(q, u, v), Covers(answers, u),
           jobs' = jobs \o answers, promise' = promise
    PROVE  /\ \A i \in 1 .. Len(u) : AnswerOf(u[i])' = answers[i].answer
           /\ \A c \in Calls \ Members(u) : AnswerOf(c)' = AnswerOf(c)
<1>1. /\ answers \in Seq([call : Calls, answer : AnyAnswer]) /\ Len(answers) = Len(u)
      /\ \A i \in 1 .. Len(u) : answers[i].call = u[i]
  BY DEF Covers
<1>2. jobs \in Seq([call : Calls, answer : AnyAnswer])
  BY DEF Known, TypeOK
<1>3. /\ Len(jobs \o answers) = Len(jobs) + Len(answers) /\ Len(jobs) \in Nat /\ Len(answers) \in Nat
      /\ \A i \in 1 .. Len(jobs) : (jobs \o answers)[i] = jobs[i]
      /\ \A i \in 1 .. Len(answers) : (jobs \o answers)[Len(jobs) + i] = answers[i]
  <2>1. PICK J : J = [call : Calls, answer : AnyAnswer]
    OBVIOUS
  <2>2. jobs \in Seq(J) /\ answers \in Seq(J)
    BY <1>1, <1>2, <2>1
  <2>3. Len(jobs) \in Nat /\ Len(answers) \in Nat
    BY ONLY <2>2
  <2> QED
    BY ONLY <2>2, <2>3, ConcatFacts
<1>4. u \in Seq(Calls)
  BY DEF Splits
<1>5. ASSUME NEW i \in 1 .. Len(u) PROVE AnswerOf(u[i])' = answers[i].answer
  <2>1. PICK c \in Calls : c = u[i]
    BY <1>4, ElementsTyped
  <2>2. PICK k : k = Len(jobs) + i
    OBVIOUS
  <2>3. k \in 1 .. Len(jobs') /\ jobs'[k] = answers[i]
    BY <1>1, <1>3, <2>2
  <2>4. AnswerOf(c)' = jobs'[k].answer
    BY <1>1, <2>1, <2>3 DEF Known, AnswersInv
  <2> QED
    BY <2>1, <2>3, <2>4
<1>6. ASSUME NEW c \in Calls \ Members(u) PROVE AnswerOf(c)' = AnswerOf(c)
  <2>1. CASE promise[c] # Waiting
    BY <2>1 DEF Known, AnswersInv
  <2>2. CASE promise[c] = Waiting /\ HasJob(c)
    <3>1. PICK k \in 1 .. Len(jobs) : jobs[k].call = c
      BY <2>2 DEF HasJob
    <3>2. k \in 1 .. Len(jobs') /\ jobs'[k] = jobs[k]
      BY <1>3, <3>1
    <3>3. AnswerOf(c) = jobs[k].answer
      BY <3>1 DEF Known, AnswersInv
    <3>4. AnswerOf(c)' = jobs'[k].answer
      BY <3>1, <3>2 DEF Known, AnswersInv
    <3> QED
      BY <3>2, <3>3, <3>4
  <2>3. CASE promise[c] = Waiting /\ ~HasJob(c)
    <3>1. ASSUME NEW k \in 1 .. Len(jobs') PROVE jobs'[k].call # c
      <4>0. k \in 1 .. Len(jobs \o answers) /\ jobs'[k] = (jobs \o answers)[k]
        BY <3>1
      <4>1. CASE k \in 1 .. Len(jobs)
        BY <1>3, <2>3, <4>0, <4>1 DEF HasJob
      <4>2. CASE \E j \in 1 .. Len(answers) : k = Len(jobs) + j
        <5>1. PICK j \in 1 .. Len(answers) : k = Len(jobs) + j
          BY <4>2
        <5>2. jobs'[k].call = u[j] /\ j \in 1 .. Len(u)
          BY <1>1, <1>3, <4>0, <5>1
        <5> QED
          BY <5>2 DEF Members
      <4> QED
        BY <1>1, <1>2, <4>0, <4>1, <4>2, ConcatElements
    <3>2. ~HasJob(c)'
      BY <3>1 DEF HasJob
    <3> QED
      BY <2>3, <3>2 DEF Known, AnswersInv
  <2> QED
    BY <2>1, <2>2, <2>3
<1> QED
  BY <1>5, <1>6

\* While the runtime is up, the calls that a stream has not answered are its queue.
LEMMA WaitsAreQueued ==
    ASSUME Known, NEW id \in OpIds, id \in ops, ~flagShut
    PROVE  \A c \in Calls :
              reads[c] = id /\ AnswerOf(c) = Waiting <=> c \in Members(stream[id].queue)
<1> SUFFICES ASSUME NEW c \in Calls
             PROVE  reads[c] = id /\ AnswerOf(c) = Waiting <=> c \in Members(stream[id].queue)
  OBVIOUS
<1>1. CallAt(c) /\ QueueAt(id) /\ JobsInv /\ id # 0
  BY IdsAreNumbers DEF Known, IInv, StreamAt
<1>2. ASSUME reads[c] = id, AnswerOf(c) = Waiting PROVE c \in Members(stream[id].queue)
  <2>1. promise[c] = Waiting
    BY <1>2 DEF Known, AnswersInv
  <2>2. ~HasJob(c)
    <3> SUFFICES ASSUME NEW i \in 1 .. Len(jobs), jobs[i].call = c PROVE FALSE
      BY DEF HasJob
    <3>1. jobs[i].answer # Waiting /\ AnswerOf(c) = jobs[i].answer
      BY <1>1 DEF JobsInv, Known, AnswersInv
    <3> QED
      BY <1>2, <3>1
  <2>3. c \in table
    BY <1>1, <1>2, <2>1, <2>2 DEF CallAt
  <2> QED
    BY <1>1, <1>2, <2>3 DEF CallAt, Members
<1>3. ASSUME c \in Members(stream[id].queue) PROVE reads[c] = id /\ AnswerOf(c) = Waiting
  <2>1. c \in table /\ reads[c] = id
    BY <1>1, <1>3 DEF QueueAt, Members
  <2>2. promise[c] = Waiting /\ ~HasJob(c)
    BY <1>1, <2>1 DEF CallAt, JobsInv, HasJob
  <2> QED
    BY <2>1, <2>2 DEF Known, AnswersInv
<1> QED
  BY <1>2, <1>3

\* In a queue of two parts the first part is older.
LEMMA SplitOrder ==
    ASSUME NEW id, NEW q, NEW u, NEW v, Ready(id, q), Splits(q, u, v)
    PROVE  /\ \A c \in Members(u), d \in Members(v) : c < d
           /\ u # << >> => /\ 1 \in 1 .. Len(u) /\ u[1] \in Members(u)
                           /\ \A c \in Members(q) : u[1] <= c
<1>1. u \in Seq(Calls) /\ v \in Seq(Calls) /\ q = u \o v /\ Members(q) = Members(u) \cup Members(v)
  BY DEF Splits
<1>2. /\ Len(q) = Len(u) + Len(v) /\ Len(u) \in Nat /\ Len(v) \in Nat
      /\ \A i \in 1 .. Len(u) : q[i] = u[i]
      /\ \A i \in 1 .. Len(v) : q[Len(u) + i] = v[i]
  BY <1>1, ConcatFacts
<1>3. \A i, j \in 1 .. Len(q) : i < j => q[i] < q[j]
  BY DEF Ready
<1>4. ASSUME NEW i \in 1 .. Len(u), NEW j \in 1 .. Len(v) PROVE u[i] < v[j]
  <2>1. i \in 1 .. Len(q) /\ Len(u) + j \in 1 .. Len(q) /\ i < Len(u) + j
    BY <1>2
  <2>2. q[i] < q[Len(u) + j]
    BY <1>3, <2>1
  <2> QED
    BY <1>2, <2>2
<1>5. \A c \in Members(u), d \in Members(v) : c < d
  BY <1>4 DEF Members
<1>6. ASSUME u # << >>, NEW c \in Members(q)
      PROVE  1 \in 1 .. Len(u) /\ u[1] \in Members(u) /\ u[1] <= c
  <2>1. 1 \in 1 .. Len(u)
    BY <1>1, <1>6
  <2>2. PICK k \in 1 .. Len(q) : c = q[k]
    BY DEF Members
  <2>3. u[1] = q[1] /\ 1 \in 1 .. Len(q)
    BY <1>2, <2>1
  <2>4. q[1] \in Nat /\ q[k] \in Nat
    BY <1>1, <2>3, ElementsTyped, DataTypes DEF Ready
  <2>5. k = 1 \/ 1 < k
    OBVIOUS
  <2>6. q[1] <= q[k]
    <3>1. CASE k = 1
      BY <2>4, <3>1
    <3>2. CASE 1 < k
      <4>1. q[1] < q[k]
        BY <1>3, <2>3, <3>2
      <4> QED
        BY <2>4, <4>1
    <3> QED
      BY <2>5, <3>1, <3>2
  <2> QED
    BY <2>1, <2>2, <2>3, <2>6 DEF Members
<1>7. u # << >> => 1 \in 1 .. Len(u) /\ u[1] \in Members(u)
  BY <1>1 DEF Members
<1> QED
  BY <1>5, <1>6, <1>7

\* The calls in `queue` are the last that stream `id` got.
Newest(id, queue) ==
    \A c \in Members(queue), d \in Calls : reads'[d] = id /\ d \notin Members(queue) => d < c

\* The calls that wait for a live stream are its last ones.
LEMMA QueueNewest ==
    ASSUME Known, PartsInv, NEW id \in OpIds, id \in ops, UNCHANGED reads
    PROVE  Newest(id, stream[id].queue)
<1> SUFFICES ASSUME NEW c \in Members(stream[id].queue), NEW d \in Calls,
                    reads[d] = id, d \notin Members(stream[id].queue)
             PROVE  d < c
  BY DEF Newest
<1>1. c \in table /\ reads[c] = id
  BY DEF Known, IInv, StreamAt, QueueAt, Members
<1>2. d \notin table
  BY DEF Known, IInv, CallAt, Members
<1> QED
  BY <1>1, <1>2 DEF PartsInv, Oldest

\* So is a call that is made just now.
LEMMA NewCallNewest ==
    ASSUME Known, NEW c \in Calls, reads[c] = 0, NEW d \in Calls, reads[d] # 0 PROVE d < c
<1>1. \A earlier \in Calls : earlier < d => reads[earlier] # 0
  BY DEF Known, IInv, CallAt
<1>2. ~(c < d) /\ c # d /\ c \in Nat /\ d \in Nat
  BY <1>1, DataTypes
<1> QED
  BY <1>2

\* Answering the oldest of the last calls keeps the order.
LEMMA OrdersKeep ==
    ASSUME Known, Known', PartsInv, NEW id \in OpIds, NEW q, NEW u, NEW v, NEW answers,
           Ready(id, q), Newest(id, q), Splits(q, u, v), Covers(answers, u),
           jobs' = jobs \o answers,
           table' = (table \cup Members(q)) \ Members(u)
    PROVE  InOrder' /\ Oldest'
<1>1. /\ answers \in Seq([call : Calls, answer : AnyAnswer]) /\ Len(answers) = Len(u)
      /\ \A i \in 1 .. Len(u) : answers[i].call = u[i]
      /\ Len(u) \in Nat /\ u \in Seq(Calls)
  BY DEF Covers, Splits
<1>2. jobs \in Seq([call : Calls, answer : AnyAnswer]) /\ Len(jobs) \in Nat
  <2>1. PICK J : J = [call : Calls, answer : AnyAnswer]
    OBVIOUS
  <2>2. jobs \in Seq(J)
    BY <2>1 DEF Known, TypeOK
  <2> QED
    BY <2>1, <2>2
<1>3. /\ Len(jobs \o answers) = Len(jobs) + Len(answers)
      /\ \A i \in 1 .. Len(jobs) : (jobs \o answers)[i] = jobs[i]
      /\ \A i \in 1 .. Len(answers) : (jobs \o answers)[Len(jobs) + i] = answers[i]
  <2>1. PICK J : J = [call : Calls, answer : AnyAnswer]
    OBVIOUS
  <2>2. jobs \in Seq(J) /\ answers \in Seq(J)
    BY <1>1, <1>2, <2>1
  <2> QED
    BY ONLY <2>2, ConcatFacts
<1>4. /\ Members(q) \subseteq Calls
      /\ \A c \in Members(q) : reads'[c] = id /\ promise[c] = Waiting /\ ~HasJob(c)
      /\ \A c \in table : reads[c] = id => c \in Members(q)
      /\ \A c \in Calls : reads'[c] = reads[c] \/ (reads[c] = 0 /\ c \in Members(q))
  BY ReadyMembers
<1>5. Members(q) = Members(u) \cup Members(v) /\ \A c \in Members(u), d \in Members(v) : c < d
  BY SplitOrder DEF Splits
<1>6. \A i, j \in 1 .. Len(u) : i < j => u[i] < u[j]
  BY DEF Splits
<1>7. \A i \in 1 .. Len(u) : u[i] \in Members(u) /\ u[i] \in Members(q)
  BY <1>5 DEF Members
<1>8. \A i \in 1 .. Len(jobs) : /\ jobs[i].call \in Calls /\ HasJob(jobs[i].call)
                               /\ jobs[i].call \notin Members(q)
  <2>1. \A i \in 1 .. Len(jobs) : HasJob(jobs[i].call)
    BY DEF HasJob
  <2>2. ASSUME NEW i \in 1 .. Len(jobs) PROVE jobs[i].call \in Calls
    <3>1. PICK J : J = [call : Calls, answer : AnyAnswer]
      OBVIOUS
    <3>2. jobs[i] \in J
      <4>1. jobs \in Seq(J)
        BY <1>2, <3>1
      <4> QED
        BY ONLY <4>1, ElementsTyped
    <3> QED
      BY <3>1, <3>2
  <2> QED
    BY <1>4, <2>1, <2>2
<1>9. ASSUME NEW i \in 1 .. Len(jobs'), NEW j \in 1 .. Len(jobs'), i < j,
             reads'[jobs'[i].call] = reads'[jobs'[j].call]
      PROVE  jobs'[i].call < jobs'[j].call
  <2>1. \A k \in 1 .. Len(jobs') :
           \/ k \in 1 .. Len(jobs) /\ jobs'[k] = jobs[k]
           \/ \E m \in 1 .. Len(u) : k = Len(jobs) + m /\ jobs'[k].call = u[m]
    <3> SUFFICES ASSUME NEW k \in 1 .. Len(jobs')
                 PROVE  \/ k \in 1 .. Len(jobs) /\ jobs'[k] = jobs[k]
                        \/ \E m \in 1 .. Len(u) : k = Len(jobs) + m /\ jobs'[k].call = u[m]
      OBVIOUS
    <3>1. CASE k <= Len(jobs)
      BY <1>2, <1>3, <3>1
    <3>2. CASE ~(k <= Len(jobs))
      <4>1. k - Len(jobs) \in 1 .. Len(answers) /\ k = Len(jobs) + (k - Len(jobs))
        BY <1>1, <1>2, <1>3, <3>2
      <4>2. PICK m \in 1 .. Len(answers) : k = Len(jobs) + m
        BY ONLY <4>1
      <4> QED
        BY <1>1, <1>3, <4>2
    <3> QED
      BY ONLY <3>1, <3>2
  <2>2. CASE i \in 1 .. Len(jobs) /\ jobs'[i] = jobs[i] /\ j \in 1 .. Len(jobs) /\ jobs'[j] = jobs[j]
    <3>1. reads[jobs[i].call] = reads[jobs[j].call]
      BY <1>4, <1>8, <1>9, <2>2
    <3> QED
      BY <1>9, <2>2, <3>1 DEF PartsInv, InOrder
  <2>3. CASE i \in 1 .. Len(jobs) /\ jobs'[i] = jobs[i] /\ \E m \in 1 .. Len(u) : jobs'[j].call = u[m]
    <3>1. PICK m \in 1 .. Len(u) : jobs'[j].call = u[m]
      BY <2>3
    <3>2. reads'[jobs[i].call] = id
      BY <1>4, <1>7, <1>9, <2>3, <3>1
    <3> QED
      BY <1>7, <1>8, <2>3, <3>1, <3>2 DEF Newest
  <2>4. CASE \E m \in 1 .. Len(u) : i = Len(jobs) + m /\ jobs'[i].call = u[m]
    <3>1. PICK m \in 1 .. Len(u) : i = Len(jobs) + m /\ jobs'[i].call = u[m]
      BY <2>4
    <3>2. j \notin 1 .. Len(jobs)
      BY <1>2, <1>9, <3>1
    <3>3. PICK n \in 1 .. Len(u) : j = Len(jobs) + n /\ jobs'[j].call = u[n]
      BY <2>1, <3>2
    <3>4. m < n
      BY <1>2, <1>9, <3>1, <3>3
    <3> QED
      BY <1>6, <3>1, <3>3, <3>4
  <2> QED
    BY <2>1, <2>2, <2>3, <2>4
<1>10. ASSUME NEW c \in table', NEW d \in Calls, reads'[d] = reads'[c], d \notin table'
       PROVE  d < c
  <2>1. CASE c \in Members(q)
    <3>1. c \in Members(v) /\ reads'[c] = id
      BY <1>4, <1>5, <2>1
    <3>2. CASE d \in Members(q)
      BY <1>5, <1>10, <3>1, <3>2
    <3>3. CASE d \notin Members(q)
      BY <1>10, <2>1, <3>1, <3>3 DEF Newest
    <3> QED
      BY <3>2, <3>3
  <2>2. CASE c \notin Members(q)
    <3>1. c \in table /\ c \in Calls /\ reads[c] # id /\ reads'[c] = reads[c]
      BY <1>4, <2>2 DEF Known, TypeOK
    <3>2. d \notin Members(q) /\ reads'[d] = reads[d]
      BY <1>4, <1>10, <3>1
    <3>3. d \notin table
      BY <1>5, <1>10, <3>2
    <3> QED
      BY <1>10, <3>1, <3>2, <3>3 DEF PartsInv, Oldest
  <2> QED
    BY <2>1, <2>2
<1> QED
  BY <1>9, <1>10 DEF InOrder, Oldest

\* One more call is fed, or none.
LEMMA FedMore ==
    ASSUME NEW id, NEW c, c \notin Fed(id), Fed(id)' = Fed(id) \cup {c}
    PROVE  Cardinality(Fed(id)') = Cardinality(Fed(id)) + 1
BY SeenFacts, FS_AddElement

\* The first of the calls `u` gets the next part.
GivesNext(id, u, answers) ==
    /\ u # << >> /\ answers[1].answer = Part(GivenNow[id] + 1)
    /\ GivenNow[id] < YieldNow[id]

\* Stream `id` gives `parts` parts, no other gives any.
Gives(id, parts) == GivenNow' = [GivenNow EXCEPT ![id] = GivenNow[id] + parts]

\* A stream that is readable answers the oldest of the calls that wait for it: the
\* first of them gets a part or not, the others are told the rest.
LEMMA Advances ==
    ASSUME NEW id \in OpIds, NEW u, NEW v, NEW answers,
           NEW parts \in {0, 1}, NEW rest \in {Waiting, Done, Failed}, NEW next,
           Known, Known', PartsInv, id \in ops, ~flagShut,
           Splits(stream[id].queue, u, v), Covers(answers, u),
           jobs' = jobs \o answers, UNCHANGED <<promise, reads, blob>>,
           parts = 1 => GivesNext(id, u, answers),
           \A i \in 1 .. Len(u) : parts = 0 \/ i # 1 => answers[i].answer = rest,
           v # << >> => rest = Waiting,
           StateNow' = [StateNow EXCEPT ![id] = next]
    PROVE  Abstract!Advance(id, parts, rest, next) /\ Gives(id, parts)
<1>0. (parts = 1) => (/\ u # << >> /\ answers[1].answer = Part(GivenNow[id] + 1)
                      /\ GivenNow[id] < YieldNow[id])
  BY DEF GivesNext
<1>1. PICK q : q = stream[id].queue
  OBVIOUS
<1>2. Ready(id, q) /\ Splits(q, u, v)
  BY <1>1, QueueReady DEF Known
<1>3. /\ \A i \in 1 .. Len(u) : AnswerOf(u[i])' = answers[i].answer
      /\ \A c \in Calls \ Members(u) : AnswerOf(c)' = AnswerOf(c)
  BY <1>2, Answered
<1>4. \A c \in Calls : reads[c] = id /\ AnswerOf(c) = Waiting <=> c \in Members(q)
  BY <1>1, WaitsAreQueued
<1>5. /\ \A c \in Members(u), d \in Members(v) : c < d
      /\ u # << >> => /\ 1 \in 1 .. Len(u) /\ u[1] \in Members(u)
                      /\ \A c \in Members(q) : u[1] <= c
  BY <1>2, SplitOrder
<1>6. /\ Members(q) = Members(u) \cup Members(v) /\ Members(q) \subseteq Calls
      /\ u \in Seq(Calls) /\ v \in Seq(Calls)
      /\ \A i, j \in 1 .. Len(u) : i < j => u[i] < u[j]
      /\ Members(u) \cap Members(v) = {}
  BY <1>2, ReadyMembers DEF Splits
<1>7. v # << >> \/ Members(v) = {}
  BY DEF Members
<1>8. ASSUME NEW i \in 1 .. Len(u), i # 1 PROVE u[1] < u[i]
  BY <1>6, <1>8
<1>9. \A c \in Calls : c \in Nat
  BY DataTypes
<1>10. OutcomeNow' = [c \in Calls |-> AnswerOf(c)'] /\ \A c \in Calls : OutcomeNow[c] = AnswerOf(c)
  BY DEF OutcomeNow
<1>11. Abstract!Waits(id) = Members(q)
  BY <1>4, <1>6, <1>10 DEF Abstract!Waits, Abstract!Waiting, Waiting, Answer, Abstract!Answer
<1>12. ASSUME NEW c \in Calls
       PROVE  AnswerOf(c)' =
                 IF c \notin Members(q) THEN AnswerOf(c)
                 ELSE IF parts = 1 /\ \A other \in Members(q) : c <= other
                      THEN Part(GivenNow[id] + 1) ELSE rest
  <2>1. CASE c \notin Members(q)
    BY <1>3, <1>6, <2>1
  <2>2. CASE c \in Members(v)
    <3>1. AnswerOf(c)' = Waiting /\ rest = Waiting
      BY <1>3, <1>4, <1>6, <1>7, <2>2
    <3>2. parts = 1 => \E other \in Members(q) : ~(c <= other)
      <4> SUFFICES ASSUME parts = 1 PROVE \E other \in Members(q) : ~(c <= other)
        OBVIOUS
      <4>1. u[1] \in Members(q) /\ u[1] < c
        BY <1>0, <1>5, <1>6, <2>2
      <4>2. u[1] \in Nat /\ c \in Nat
        BY <1>6, <1>9, <4>1
      <4> QED
        BY <4>1, <4>2
    <3> QED
      BY <1>6, <2>2, <3>1, <3>2
  <2>3. CASE c \in Members(u)
    <3>1. PICK i \in 1 .. Len(u) : c = u[i]
      BY <2>3 DEF Members
    <3>2. AnswerOf(c)' = answers[i].answer /\ c \in Members(q)
      BY <1>3, <1>6, <2>3, <3>1
    <3>3. u # << >> /\ u[1] \in Members(q) /\ u[1] \in Nat /\ c \in Nat
      BY <1>5, <1>6, <1>9, <3>1
    <3>4. CASE parts = 1 /\ i = 1
      BY <1>0, <1>5, <3>1, <3>2, <3>4
    <3>5. CASE parts = 1 /\ i # 1
      <4>1. ~(c <= u[1])
        BY <1>8, <3>1, <3>3, <3>5
      <4>2. ~(\A other \in Members(q) : c <= other)
        BY <3>3, <4>1
      <4>3. answers[i].answer = rest
        BY <3>5
      <4> QED
        BY ONLY <3>2, <4>2, <4>3
    <3>6. CASE parts = 0
      BY <3>2, <3>6
    <3> QED
      BY <3>4, <3>5, <3>6
  <2> QED
    BY <1>6, <2>1, <2>2, <2>3
<1>13. PICK g : g = GivenNow[id]
  OBVIOUS
<1>14. GivenNow' = [GivenNow EXCEPT ![id] = GivenNow[id] + parts]
  <2>1. /\ \A x : Cardinality(Fed(x)) \in Nat
        /\ \A x \in OpIds : GivenNow[x] = Cardinality(Fed(x))
    BY SeenFacts
  <2>2. /\ GivenNow' = [x \in OpIds |-> Cardinality(Fed(x)')]
        /\ GivenNow = [x \in OpIds |-> Cardinality(Fed(x))]
    BY DEF GivenNow
  <2>3. Waiting.is # "part" /\ Done.is # "part" /\ Failed.is # "part" /\ \A n : Part(n).is = "part"
    BY DEF Waiting, Done, Failed, Part, Answer
  <2>4. ASSUME NEW x \in OpIds, x # id PROVE Fed(x)' = Fed(x)
    <3>1. \A c \in Calls : reads[c] = x => AnswerOf(c)' = AnswerOf(c)
      BY <1>4, <1>12, <2>4
    <3> QED
      BY <3>1 DEF Fed
  <2>5. CASE parts = 0
    <3>1. \A c \in Calls : AnswerOf(c)'.is = "part" <=> AnswerOf(c).is = "part"
      BY <1>4, <1>12, <2>3, <2>5
    <3>2. Fed(id)' = Fed(id)
      BY <3>1 DEF Fed
    <3>3. GivenNow' = GivenNow /\ GivenNow[id] + parts = GivenNow[id]
      BY <2>1, <2>2, <2>4, <2>5, <3>2
    <3> QED
      BY <2>2, <3>3
  <2>6. CASE parts = 1
    <3>1. u[1] \in Members(q) /\ u[1] \in Calls /\ \A other \in Members(q) : u[1] <= other
      BY <1>0, <1>5, <1>6, <2>6
    <3>2. AnswerOf(u[1])'.is = "part" /\ AnswerOf(u[1]).is # "part" /\ reads[u[1]] = id
      BY <1>4, <1>12, <2>3, <2>6, <3>1
    <3>3. ASSUME NEW c \in Calls, c # u[1]
          PROVE  AnswerOf(c)'.is = "part" <=> AnswerOf(c).is = "part"
      <4>1. CASE c \notin Members(q)
        BY <1>12, <4>1
      <4>2. CASE c \in Members(q)
        <5>1. ~(c <= u[1])
          BY <1>9, <3>1, <3>3, <4>2
        <5>2. AnswerOf(c)' = rest /\ AnswerOf(c) = Waiting
          BY <1>4, <1>12, <3>1, <4>2, <5>1
        <5> QED
          BY <2>3, <5>2
      <4> QED
        BY <4>1, <4>2
    <3>4. u[1] \notin Fed(id) /\ Fed(id)' = Fed(id) \cup {u[1]}
      BY <3>1, <3>2, <3>3 DEF Fed
    <3>5. Cardinality(Fed(id)') = Cardinality(Fed(id)) + 1
      BY <3>4, FedMore
    <3> QED
      BY <2>1, <2>2, <2>4, <2>6, <3>5
  <2> QED
    BY <2>5, <2>6
<1>15. OutcomeNow' = [c \in Calls |->
          IF c \notin Members(q) THEN OutcomeNow[c]
          ELSE IF parts = 1 /\ \A other \in Members(q) : c <= other
               THEN Part(GivenNow[id] + 1) ELSE rest]
  BY <1>10, <1>12
<1>16. StateNow[id] = "readable"
  <2>1. blob[id] # NoBlob
    BY StreamAssumption DEF Known, IInv, StreamAt, LiveAt, DataAt
  <2> QED
    BY <2>1, StatesAre DEF PartsInv, StatesSeen
<1>17. YieldNow' = YieldNow /\ SettledNow' = SettledNow
  BY DEF YieldNow, SettledNow
<1>18. parts = 1 => Members(q) # {} /\ GivenNow[id] < YieldNow[id]
  BY <1>0, <1>5, <1>6
<1> QED
  BY <1>11, <1>14, <1>15, <1>16, <1>17, <1>18 DEF Gives, Abstract!Advance, Abstract!Answer, Part, Answer

\* What a script sees of a stream that ends, apart from the answers.
LEMMA EndsSeen ==
    ASSUME NEW id \in OpIds, NEW q, NEW answers, NEW over \in {"errored", "ended"},
           Known, Known', PartsInv, id \in ops,
           Ready(id, q), Newest(id, q), Covers(answers, q), Ends(id, answers), UNCHANGED blob,
           errors' = IF over = "errored" THEN errors \cup {id} ELSE errors
    PROVE  /\ InOrder' /\ Oldest' /\ Opened' /\ Splits(q, q, << >>)
           /\ jobs' = jobs \o answers
           /\ StateNow' = [StateNow EXCEPT ![id] = over]
           /\ \A x \in ops' : x \in ops /\ x # id /\ x \in OpIds /\ Passed(x)' = Passed(x)
<1>1. /\ ops' = ops \ {id} /\ stream' = [stream EXCEPT ![id] = Closed]
      /\ table' = table \ {answers[i].call : i \in DOMAIN answers}
      /\ jobs' = jobs \o answers /\ nextId' = nextId
  BY DEF Ends, Release, Unreserve
<1>2. q \in Seq(Calls) /\ << >> \in Seq(Calls) /\ q = q \o << >>
  BY DEF Ready
<1>3. Splits(q, q, << >>)
  BY <1>2, ReadySplits
<1>4. table' = (table \cup Members(q)) \ Members(q)
  <2>1. {answers[i].call : i \in DOMAIN answers} = Members(q)
    BY <1>2, CoveredCalls DEF Members
  <2>2. \A A, B : A \ B = (A \cup B) \ B
    OBVIOUS
  <2> QED
    BY <1>1, <2>1, <2>2
<1>5. InOrder' /\ Oldest'
  BY <1>1, <1>3, <1>4, OrdersKeep
<1>6. nextId \in Nat /\ id \in Nat /\ id < nextId
  BY IdsAreNumbers, BridgeAssumption DEF Known, TypeOK, BridgeTypeOK, IInv, StreamAt, NewAt
<1>7. Opened'
  BY <1>1, <1>6 DEF PartsInv, Opened
<1>10. StatesSeen /\ StatesSeen'
  <2>1. (Known /\ Opened)' => StatesSeen'
    BY StatesAre, PTL
  <2> QED
    BY <1>7, <2>1, StatesAre DEF PartsInv
<1>8. StateNow' = [StateNow EXCEPT ![id] = over]
  <2>1. ASSUME NEW x \in OpIds PROVE StateNow'[x] = IF x = id THEN over ELSE StateNow[x]
    <3>1. StateNow[x] = IF blob[x] = NoBlob THEN "unopened"
                        ELSE IF x \in ops THEN "readable"
                        ELSE IF x \in errors THEN "errored" ELSE "ended"
      BY <1>10 DEF StatesSeen
    <3>2. StateNow'[x] = IF blob'[x] = NoBlob THEN "unopened"
                         ELSE IF x \in ops' THEN "readable"
                         ELSE IF x \in errors' THEN "errored" ELSE "ended"
      BY <1>10 DEF StatesSeen
    <3>3. blob[id] # NoBlob /\ id \notin errors
      BY <1>6 DEF PartsInv, Opened
    <3> QED
      BY <1>1, <3>1, <3>2, <3>3
  <2>2. /\ StateNow' = [x \in OpIds |-> StateOf(x)']
        /\ StateNow = [x \in OpIds |-> StateOf(x)]
    BY DEF StateNow
  <2> QED
    BY <2>1, <2>2
<1>9. \A x \in ops' : x \in ops /\ x # id /\ x \in OpIds /\ Passed(x)' = Passed(x)
  <2>1. \A x \in OpIds \ {id} : stream'[x] = stream[x]
    BY <1>1 DEF Known, TypeOK
  <2>2. ops \subseteq OpIds
    BY DEF Known, TypeOK
  <2> QED
    BY <1>1, <2>1, <2>2 DEF Passed
<1> QED
  BY <1>1, <1>3, <1>5, <1>7, <1>8, <1>9

\* A stream that ends answers all its calls, at most the oldest with a part.
LEMMA EndsRefines ==
    ASSUME NEW id \in OpIds, NEW q, NEW answers, NEW parts \in {0, 1},
           NEW rest \in {Done, Failed}, NEW over \in {"errored", "ended"},
           Known, Known', PartsInv, id \in ops, boa # "closing",
           q = stream[id].queue, Covers(answers, q), Ends(id, answers),
           UNCHANGED <<promise, reads, blob>>,
           errors' = IF over = "errored" THEN errors \cup {id} ELSE errors,
           parts = 1 => GivesNext(id, q, answers),
           \A i \in 1 .. Len(q) : parts = 0 \/ i # 1 => answers[i].answer = rest
    PROVE  PartsInv' /\ Abstract!Advance(id, parts, rest, over)
<1>1. Ready(id, q) /\ Newest(id, q) /\ ~flagShut
  BY QueueReady, QueueNewest, LiveMeansOpen DEF Known
<1>2. /\ InOrder' /\ Oldest' /\ Opened' /\ Splits(q, q, << >>)
      /\ jobs' = jobs \o answers
      /\ StateNow' = [StateNow EXCEPT ![id] = over]
      /\ \A x \in ops' : x \in ops /\ x # id /\ x \in OpIds /\ Passed(x)' = Passed(x)
  BY <1>1, EndsSeen
<1>3. Abstract!Advance(id, parts, rest, over) /\ Gives(id, parts)
  <2>1. PICK v : v = << >>
    OBVIOUS
  <2>2. Splits(stream[id].queue, q, v) /\ (v # << >> => rest = Waiting)
    BY <1>2, <2>1
  <2>3. rest \in {Waiting, Done, Failed}
    OBVIOUS
  <2> QED
    BY <1>1, <1>2, <2>2, <2>3, Advances
<1>4. \A x \in ops' : GivenNow'[x] = Passed(x)'
  <2>1. \A x \in OpIds : x # id => GivenNow'[x] = GivenNow[x]
    BY <1>3 DEF GivenNow, Gives
  <2> QED
    BY <1>2, <2>1 DEF PartsInv
<1> QED
  BY <1>2, <1>3, <1>4 DEF PartsInv

\* A stream that goes on with its waiting calls answered before.
LEMMA GoesOn ==
    ASSUME NEW id \in OpIds, NEW q, NEW u, NEW v, NEW before,
           Known, Known', PartsInv, id \in ops,
           Ready(id, q), Newest(id, q), Splits(q, u, v), Covers(before, u),
           UNCHANGED <<blob, ops, errors, nextId>>,
           table' = (table \cup ToSet(v)) \ {before[i].call : i \in DOMAIN before},
           jobs' = jobs \o before
    PROVE  InOrder' /\ Oldest' /\ Opened' /\ StateNow' = StateNow
<1>1. ToSet(v) = Members(v) /\ Members(q) = Members(u) \cup Members(v) /\ u \in Seq(Calls)
  <2>1. v \in Seq(Calls) /\ Members(q) = Members(u) \cup Members(v) /\ u \in Seq(Calls)
    BY DEF Splits
  <2>2. ToSet(v) = Members(v)
    BY <2>1 DEF ToSet, Members
  <2> QED
    BY <2>1, <2>2
<1>2. {before[i].call : i \in DOMAIN before} = Members(u)
  BY <1>1, CoveredCalls DEF Members
<1>3. table' = (table \cup Members(q)) \ Members(u)
  BY <1>1, <1>2
<1>4. InOrder' /\ Oldest'
  BY <1>3, OrdersKeep
<1>5. Opened'
  BY DEF PartsInv, Opened
<1>6. StateNow' = StateNow
  BY DEF StateNow, StateOf
<1> QED
  BY <1>4, <1>5, <1>6

\* The same answer for all calls.
LEMMA SameAnswer ==
    ASSUME NEW calls \in Seq(Calls), NEW a \in AnyAnswer, a # Waiting
    PROVE  /\ Covers(<< >> \o AnswerTo(calls, a), calls)
           /\ \A i \in 1 .. Len(calls) : (<< >> \o AnswerTo(calls, a))[i].answer = a
<1>1. Covers(AnswerTo(calls, a), calls)
  BY AnswerToCovers
<1>2. DOMAIN calls = 1 .. Len(calls)
  OBVIOUS
<1>3. \A i \in 1 .. Len(calls) : AnswerTo(calls, a)[i].answer = a
  BY <1>2 DEF AnswerTo
<1>4. PICK x : x = AnswerTo(calls, a)
  OBVIOUS
<1>5. << >> \o x = x
  <2>1. x \in Seq([call : Calls, answer : AnyAnswer])
    BY <1>1, <1>4 DEF Covers
  <2>2. PICK J : J = [call : Calls, answer : AnyAnswer]
    OBVIOUS
  <2>3. x \in Seq(J)
    BY <2>1, <2>2
  <2> QED
    BY ONLY <2>3
<1> QED
  BY <1>1, <1>3, <1>4, <1>5

\* A failing stream tells all its calls.
LEMMA FailsRefines ==
    ASSUME NEW id \in OpIds, Known, Known', PartsInv, id \in ops, boa # "closing",
           Fails(id, << >>, stream[id].queue), UNCHANGED <<promise, reads, blob>>
    PROVE  PartsInv' /\ Abstract!Fail(id)
<1>1. PICK q \in Seq(Calls) : q = stream[id].queue
  BY StreamTypes DEF Known
<1>2. PICK answers : answers = << >> \o AnswerTo(q, Failed)
  OBVIOUS
<1>3. Covers(answers, q) /\ \A i \in 1 .. Len(q) : answers[i].answer = Failed
  BY <1>2, SameAnswer, DataTypes
<1>4. Ends(id, answers) /\ errors' = errors \cup {id}
  BY <1>1, <1>2 DEF Fails
<1>5. PICK parts \in {0, 1} : parts = 0
  OBVIOUS
<1>6. PICK over \in {"errored", "ended"} : over = "errored"
  OBVIOUS
<1>7. PICK rest \in {Done, Failed} : rest = Failed
  OBVIOUS
<1>8. errors' = (IF over = "errored" THEN errors \cup {id} ELSE errors)
  BY <1>4, <1>6
<1>9. PartsInv' /\ Abstract!Advance(id, parts, rest, over)
  BY <1>1, <1>3, <1>4, <1>5, <1>7, <1>8, EndsRefines
<1> QED
  BY <1>6, <1>7, <1>9 DEF Abstract!Fail, Abstract!Failed, Abstract!Answer, Failed, Answer

\* cancel() tells all calls that the stream is done.
LEMMA CancelRefines ==
    ASSUME NEW id \in OpIds, Known, Known', PartsInv, Cancel(id)
    PROVE  PartsInv' /\ Abstract!Cancel(id)
<1>0. /\ id \in ops /\ boa = "idle" /\ Finishes(id, << >>, stream[id].queue)
      /\ UNCHANGED <<promise, reads, blob>>
  BY DEF Cancel
<1>1. PICK q \in Seq(Calls) : q = stream[id].queue
  BY StreamTypes DEF Known
<1>2. PICK answers : answers = << >> \o AnswerTo(q, Done)
  OBVIOUS
<1>3. Covers(answers, q) /\ \A i \in 1 .. Len(q) : answers[i].answer = Done
  BY <1>2, SameAnswer, DataTypes
<1>4. Ends(id, answers) /\ errors' = errors
  BY <1>0, <1>1, <1>2 DEF Finishes
<1>5. PICK parts \in {0, 1} : parts = 0
  OBVIOUS
<1>6. PICK over \in {"errored", "ended"} : over = "ended"
  OBVIOUS
<1>7. PICK rest \in {Done, Failed} : rest = Done
  OBVIOUS
<1>8. errors' = (IF over = "errored" THEN errors \cup {id} ELSE errors)
  BY <1>4, <1>6
<1>9. PartsInv' /\ Abstract!Advance(id, parts, rest, over)
  BY <1>0, <1>1, <1>3, <1>4, <1>5, <1>7, <1>8, EndsRefines
<1> QED
  BY <1>5, <1>6, <1>7, <1>9 DEF Abstract!Cancel, Abstract!Done, Abstract!Answer, Done, Answer

\* An abandoned stream has no call to tell.
LEMMA AbandonRefines ==
    ASSUME NEW id \in OpIds, Known, Known', PartsInv, Abandon(id)
    PROVE  PartsInv' /\ Abstract!Cancel(id)
<1>1. PICK q : q = stream[id].queue
  OBVIOUS
<1>2. PICK answers : answers = << >>
  OBVIOUS
<1>3. /\ id \in ops /\ boa # "closing" /\ q = << >> /\ Ends(id, answers) /\ errors' = errors
      /\ UNCHANGED <<promise, reads, blob>>
  BY <1>1, <1>2 DEF Abandon, IsAbandoned
<1>4. Covers(answers, q) /\ Len(q) = 0
  BY <1>2, <1>3, NoneCovered
<1>5. PICK parts \in {0, 1} : parts = 0
  OBVIOUS
<1>6. PICK over \in {"errored", "ended"} : over = "ended"
  OBVIOUS
<1>7. PICK rest \in {Done, Failed} : rest = Done
  OBVIOUS
<1>8. errors' = (IF over = "errored" THEN errors \cup {id} ELSE errors)
  BY <1>3, <1>6
<1>9. \A i \in 1 .. Len(q) : parts = 0 \/ i # 1 => answers[i].answer = rest
  BY <1>4
<1>10. PartsInv' /\ Abstract!Advance(id, parts, rest, over)
  <2>1. /\ id \in ops /\ boa # "closing" /\ Ends(id, answers) /\ Covers(answers, q)
        /\ UNCHANGED <<promise, reads, blob>>
    BY <1>3, <1>4
  <2> QED
    BY <1>1, <1>5, <1>8, <1>9, <2>1, EndsRefines
<1> QED
  BY <1>5, <1>6, <1>7, <1>10 DEF Abstract!Cancel, Abstract!Done, Abstract!Answer, Done, Answer

\* At the end of the file all parts are out, or come out with the tail of the text.
LEMMA FinishRefines ==
    ASSUME NEW id \in OpIds, NEW b, NEW q, Known, Known', PartsInv, id \in ops, boa # "closing",
           b = blob[id], q = stream[id].queue, q # << >>, stream[id].loaded = b.chunks,
           Finishes(id, LastPart(b, Head(q)), IF HasTail(b) THEN Tail(q) ELSE q),
           UNCHANGED <<promise, reads, blob>>
    PROVE  PartsInv' /\ Abstract!Finish(id)
<1>1. q \in Seq(Calls) /\ Len(q) \in Nat
  BY StreamTypes DEF Known
<1>2. b \in Blobs /\ b # NoBlob /\ b.chunks \in Nat
  BY StreamAssumption DEF Known, IInv, StreamAt, LiveAt, DataAt
<1>3. PICK answers :
         answers = LastPart(b, Head(q)) \o AnswerTo(IF HasTail(b) THEN Tail(q) ELSE q, Done)
  OBVIOUS
<1>4. Covers(answers, q)
  BY <1>1, <1>2, <1>3, LastPartCovers
<1>5. Ends(id, answers) /\ errors' = errors
  BY <1>3 DEF Finishes
<1>6. YieldNow[id] = Yield(b) /\ GivenNow[id] = Passed(id)
  BY <1>2, SeenFacts DEF PartsInv
<1>7. PICK over \in {"errored", "ended"} : over = "ended"
  OBVIOUS
<1>8. PICK rest \in {Done, Failed} : rest = Done
  OBVIOUS
<1>9. errors' = (IF over = "errored" THEN errors \cup {id} ELSE errors)
  BY <1>5, <1>7
<1>10. ASSUME NEW parts \in {0, 1}, GivenNow[id] + parts = YieldNow[id],
              parts = 1 => GivesNext(id, q, answers),
              \A i \in 1 .. Len(q) : parts = 0 \/ i # 1 => answers[i].answer = rest
       PROVE  PartsInv' /\ Abstract!Finish(id)
  <2>1. PartsInv' /\ Abstract!Advance(id, parts, rest, over)
    BY <1>4, <1>5, <1>9, <1>10, EndsRefines
  <2> QED
    BY <1>7, <1>8, <1>10, <2>1
       DEF Abstract!Finish, Abstract!Done, Abstract!Answer, Done, Answer
<1>11. CASE HasTail(b)
  <2>1. Yield(b) \in Nat /\ Yield(b) >= 1 /\ Yield(b) <= b.chunks + 1
    BY <1>2, <1>11, StreamAssumption DEF HasTail, Yield
  <2>2. GivenNow[id] \in Nat /\ GivenNow[id] + 1 = Yield(b)
    <3>1. Passed(id) = IF b.tail = "silent" THEN b.chunks - 1 ELSE b.chunks
      BY DEF Passed
    <3>2. b.chunks > 0
      BY <1>2, <1>11, StreamAssumption DEF HasTail
    <3> QED
      BY <1>2, <1>6, <1>11, <3>1, <3>2 DEF HasTail, Yield
  <2>3. PICK a \in AnyAnswer : a = Part(Yield(b)) /\ a # Waiting
    BY <1>2, <2>1, DataTypes
  <2>4. answers = AnswerTo(<<Head(q)>>, a) \o AnswerTo(Tail(q), Done)
    BY <1>3, <1>11, <2>3 DEF LastPart
  <2>5. answers[1].answer = a /\ \A i \in 1 .. Len(q) : i # 1 => answers[i].answer = Done
    <3>1. PICK h \in Seq(Calls), t \in Seq(Calls) : h = <<Head(q)>> /\ t = Tail(q)
      <4>1. Head(q) \in Calls /\ Tail(q) \in Seq(Calls)
        BY <1>1, TailFacts
      <4>2. <<Head(q)>> \in Seq(Calls)
        BY <4>1
      <4> QED
        BY <4>1, <4>2
    <3>2. PICK x, y, J : /\ x = AnswerTo(h, a) /\ y = AnswerTo(t, Done)
                         /\ J = [call : Calls, answer : AnyAnswer]
      OBVIOUS
    <3>3. answers = x \o y
      BY <2>4, <3>1, <3>2
    <3>4. x \in Seq(J) /\ Len(x) = 1 /\ x[1].answer = a
      <4>1. Covers(x, h)
        BY <2>3, <3>2, AnswerToCovers
      <4>2. DOMAIN h = 1 .. 1 /\ Len(h) = 1
        BY <3>1
      <4>3. x \in Seq(J) /\ Len(x) = 1
        BY <3>2, <4>1, <4>2 DEF Covers
      <4>4. x[1].answer = a
        BY <3>2, <4>2 DEF AnswerTo
      <4> QED
        BY <4>3, <4>4
    <3>5. y \in Seq(J) /\ Len(y) \in Nat /\ \A i \in 1 .. Len(y) : y[i].answer = Done
      <4>1. Covers(y, t)
        BY <3>2, AnswerToCovers, DataTypes
      <4>2. y \in Seq(J) /\ Len(y) = Len(t)
        BY <3>2, <4>1 DEF Covers
      <4>3. DOMAIN t = 1 .. Len(y) /\ Len(y) \in Nat
        BY <4>2
      <4>4. \A i \in 1 .. Len(y) : y[i].answer = Done
        BY <3>2, <4>3 DEF AnswerTo
      <4> QED
        BY <4>2, <4>3, <4>4
    <3>6. /\ Len(answers) = Len(x) + Len(y)
          /\ \A i \in 1 .. Len(x) : answers[i] = x[i]
          /\ \A i \in 1 .. Len(y) : answers[Len(x) + i] = y[i]
      <4>1. x \in Seq(J) /\ y \in Seq(J)
        BY <3>4, <3>5
      <4> QED
        BY ONLY <3>3, <4>1, ConcatFacts
    <3>7. answers[1].answer = a
      <4>1. 1 \in 1 .. Len(x)
        BY <3>4
      <4> QED
        BY <3>4, <3>6, <4>1
    <3>8. ASSUME NEW i \in 1 .. Len(q), i # 1 PROVE answers[i].answer = Done
      <4>1. Len(answers) = Len(q)
        BY <1>4 DEF Covers
      <4>2. PICK k \in 1 .. Len(y) : i = 1 + k
        <5>1. i - 1 \in 1 .. Len(y) /\ i = 1 + (i - 1)
          BY <3>4, <3>5, <3>6, <3>8, <4>1
        <5> QED
          BY ONLY <5>1
      <4>3. answers[1 + k] = y[k]
        BY <3>4, <3>6, <4>2
      <4> QED
        BY <3>5, <4>2, <4>3
    <3> QED
      BY <3>7, <3>8
  <2>6. GivesNext(id, q, answers)
    BY <1>6, <2>1, <2>2, <2>3, <2>5 DEF GivesNext
  <2>7. PICK parts \in {0, 1} : parts = 1
    OBVIOUS
  <2>8. /\ GivenNow[id] + parts = YieldNow[id]
        /\ \A i \in 1 .. Len(q) : parts = 0 \/ i # 1 => answers[i].answer = rest
    BY <1>6, <1>8, <2>2, <2>5, <2>7
  <2> QED
    BY <1>10, <2>6, <2>8
<1>12. CASE ~HasTail(b)
  <2>1. answers = << >> \o AnswerTo(q, Done)
    BY <1>3, <1>12 DEF LastPart
  <2>2. \A i \in 1 .. Len(q) : answers[i].answer = Done
    BY <1>1, <2>1, SameAnswer, DataTypes
  <2>3. Passed(id) = b.chunks /\ Yield(b) = b.chunks
    BY <1>12 DEF HasTail, Passed, Yield
  <2>4. PICK parts \in {0, 1} : parts = 0
    OBVIOUS
  <2>5. /\ GivenNow[id] + parts = YieldNow[id]
        /\ \A i \in 1 .. Len(q) : parts = 0 \/ i # 1 => answers[i].answer = rest
    BY <1>2, <1>6, <1>8, <2>2, <2>3, <2>4
  <2> QED
    BY <1>10, <2>4, <2>5
<1> QED
  BY <1>11, <1>12

\* In state `s` stream `id` will have given `parts` more parts than now.
Reaches(id, s, parts) ==
    (IF blob[id].tail = "silent" /\ s.loaded = blob[id].chunks
     THEN blob[id].chunks - 1 ELSE s.loaded) = GivenNow[id] + parts

\* A stream that goes on delivered a part or is not seen; a refused request is an
\* error after it.
LEMMA ContinuesRefines ==
    ASSUME NEW id \in OpIds, NEW q, NEW u, NEW v, NEW before, NEW s \in Stream, NEW parts \in {0, 1},
           Known, Known', PartsInv, id \in ops, boa # "closing",
           q = stream[id].queue, Splits(q, u, v), Covers(before, u),
           s.queue = v, Continues(id, s, before), UNCHANGED <<promise, reads, blob>>,
           Len(u) = parts, parts = 1 => GivesNext(id, u, before),
           Reaches(id, s, parts)
    PROVE  PartsInv' /\ (Abstract!Fail(id) \/ Abstract!Deliver(id) \/ UNCHANGED Abstract!vars)
<1>1. Ready(id, q) /\ Newest(id, q) /\ ~flagShut
  BY QueueReady, QueueNewest, LiveMeansOpen DEF Known
<1>2. /\ u \in Seq(Calls) /\ v \in Seq(Calls) /\ q = u \o v /\ q \in Seq(Calls)
      /\ Len(u) \in Nat /\ Len(v) \in Nat /\ Len(q) = Len(u) + Len(v)
  <2>1. u \in Seq(Calls) /\ v \in Seq(Calls) /\ q = u \o v
    BY DEF Splits
  <2> QED
    BY <2>1, ConcatFacts
<1>3. ASSUME Fails(id, before, v)
      PROVE  PartsInv' /\ Abstract!Fail(id)
  <2>1. PICK y : y = AnswerTo(v, Failed)
    OBVIOUS
  <2>2. PICK answers : answers = before \o y
    OBVIOUS
  <2>3. Covers(y, v)
    BY <1>2, <2>1, AnswerToCovers, DataTypes
  <2>4. Covers(answers, q)
    <3>1. Covers(before \o y, u \o v)
      BY <1>2, <2>3, CoversConcat
    <3> QED
      BY <1>2, <2>2, <3>1
  <2>5. /\ \A i \in 1 .. Len(u) : answers[i] = before[i]
        /\ \A i \in 1 .. Len(v) : answers[Len(u) + i] = y[i]
    <3>1. PICK J : J = [call : Calls, answer : AnyAnswer]
      OBVIOUS
    <3>2. before \in Seq(J) /\ y \in Seq(J)
      BY <2>3, <3>1 DEF Covers
    <3>3. Len(before) = Len(u) /\ Len(y) = Len(v)
      BY <2>3 DEF Covers
    <3>4. /\ \A i \in 1 .. Len(before) : answers[i] = before[i]
          /\ \A i \in 1 .. Len(y) : answers[Len(before) + i] = y[i]
      BY ONLY <2>2, <3>2, ConcatFacts
    <3> QED
      BY ONLY <3>3, <3>4
  <2>6. \A i \in 1 .. Len(v) : y[i].answer = Failed
    <3>1. DOMAIN v = 1 .. Len(v)
      BY <1>2
    <3> QED
      BY <2>1, <3>1 DEF AnswerTo
  <2>7. PICK over \in {"errored", "ended"} : over = "errored"
    OBVIOUS
  <2>8. PICK rest \in {Done, Failed} : rest = Failed
    OBVIOUS
  <2>9. ASSUME NEW i \in 1 .. Len(q), parts = 0 \/ i # 1 PROVE answers[i].answer = rest
    <3>1. PICK k \in 1 .. Len(v) : i = Len(u) + k
      <4>1. i - Len(u) \in 1 .. Len(v) /\ i = Len(u) + (i - Len(u))
        BY <1>2, <2>9
      <4> QED
        BY ONLY <4>1
    <3> QED
      BY <2>5, <2>6, <2>8, <3>1
  <2>10. parts = 1 => GivesNext(id, q, answers)
    <3> SUFFICES ASSUME parts = 1 PROVE GivesNext(id, q, answers)
      OBVIOUS
    <3>1. 1 \in 1 .. Len(u) /\ Len(q) # 0
      BY <1>2
    <3>2. answers[1] = before[1] /\ q # << >>
      BY <2>5, <3>1
    <3> QED
      BY <3>2 DEF GivesNext
  <2>11. /\ Ends(id, answers)
         /\ errors' = IF over = "errored" THEN errors \cup {id} ELSE errors
    BY <1>3, <2>1, <2>2, <2>7 DEF Fails
  <2>12. PartsInv' /\ Abstract!Advance(id, parts, rest, over)
    BY <2>4, <2>9, <2>10, <2>11, EndsRefines
  <2> QED
    BY <2>7, <2>8, <2>12 DEF Abstract!Fail, Abstract!Failed, Abstract!Answer, Failed, Answer
<1>4. ASSUME NEW t, t.loaded = s.loaded, stream' = [stream EXCEPT ![id] = t],
             table' = (table \cup ToSet(s.queue)) \ {before[i].call : i \in DOMAIN before},
             jobs' = jobs \o before, UNCHANGED <<bridgeVars, ops, payloads, errors, landed>>
      PROVE  PartsInv' /\ (Abstract!Deliver(id) \/ UNCHANGED Abstract!vars)
  <2>1. UNCHANGED <<blob, ops, errors, nextId>>
    BY <1>4 DEF bridgeVars
  <2>2. table' = (table \cup ToSet(v)) \ {before[i].call : i \in DOMAIN before}
    BY <1>4
  <2>3. InOrder' /\ Oldest' /\ Opened' /\ StateNow' = StateNow
    BY <1>1, <1>4, <2>1, <2>2, GoesOn
  <2>4. StateNow[id] = "readable"
    <3>1. blob[id] # NoBlob
      BY StreamAssumption DEF Known, IInv, StreamAt, LiveAt, DataAt
    <3> QED
      BY <3>1, StatesAre DEF StatesSeen, PartsInv
  <2>5. PICK next : next = "readable"
    OBVIOUS
  <2>6. StateNow' = [StateNow EXCEPT ![id] = next]
    BY <2>3, <2>4, <2>5 DEF StateNow
  <2>7. PICK rest \in {Waiting, Done, Failed} : rest = Waiting
    OBVIOUS
  <2>8. \A i \in 1 .. Len(u) : parts = 0 \/ i # 1 => before[i].answer = rest
    BY <1>2
  <2>9. /\ Splits(stream[id].queue, u, v) /\ (v # << >> => rest = Waiting)
        /\ jobs' = jobs \o before
    BY <1>4, <2>7
  <2>10. Abstract!Advance(id, parts, rest, next) /\ Gives(id, parts)
    BY <1>1, <2>6, <2>8, <2>9, Advances
  <2>11. \A x \in ops' : GivenNow'[x] = Passed(x)'
    <3> SUFFICES ASSUME NEW x \in ops' PROVE GivenNow'[x] = Passed(x)'
      OBVIOUS
    <3>1. x \in ops /\ x \in OpIds /\ GivenNow[x] = Passed(x)
      BY <1>4 DEF Known, TypeOK, PartsInv
    <3>2. /\ GivenNow'[id] = GivenNow[id] + parts
          /\ x # id => GivenNow'[x] = GivenNow[x]
      BY <2>10, <3>1 DEF Gives, GivenNow
    <3>3. /\ stream'[id].loaded = s.loaded
          /\ x # id => stream'[x] = stream[x]
      BY <1>4, <3>1 DEF Known, TypeOK
    <3>4. CASE x = id
      BY <3>2, <3>3, <3>4 DEF Passed, Reaches
    <3>5. CASE x # id
      BY <3>1, <3>2, <3>3, <3>5 DEF Passed
    <3> QED
      BY <3>4, <3>5
  <2>12. CASE parts = 1
    BY <2>3, <2>5, <2>7, <2>10, <2>11, <2>12
       DEF PartsInv, Abstract!Deliver, Abstract!Waiting, Abstract!Answer, Waiting, Answer
  <2>13. CASE parts = 0
    <3>1. before \in Seq([call : Calls, answer : AnyAnswer]) /\ Len(before) = 0
      BY <2>13 DEF Covers
    <3>2. PICK J : J = [call : Calls, answer : AnyAnswer]
      OBVIOUS
    <3>3. before \in Seq(J) /\ jobs \in Seq(J)
      BY <3>1, <3>2 DEF Known, TypeOK
    <3>4. jobs \o before = jobs
      BY ONLY <3>1, <3>3
    <3>5. UNCHANGED Abstract!vars
      BY <1>4, <3>4, Unseen
    <3> QED
      BY <2>3, <2>11, <3>5 DEF PartsInv
  <2> QED
    BY <2>12, <2>13
<1>5. /\ s.loaded = [s EXCEPT !.inFlight = TRUE].loaded
      /\ s.queue = v
  BY DEF Stream
<1> QED
  BY <1>3, <1>4, <1>5 DEF Continues

\* A completion that is settled delivers, finishes or fails.
LEMMA SettleOneRefines ==
    ASSUME Known, Known', PartsInv, SettleOne
    PROVE  PartsInv' /\ ([Abstract!Next]_(Abstract!vars))
<1>1. PICK id \in OpIds :
         /\ batch[id] # << >>
         /\ batch' = [batch EXCEPT ![id] = Tail(batch[id])]
         /\ IF id \in ops /\ stream[id].queue # << >> /\ Head(stream[id].queue) \in table
            THEN SettleCall(id, Head(batch[id]), Head(stream[id].queue))
            ELSE /\ stream' = IF id \notin ops THEN stream
                              ELSE [stream EXCEPT ![id].inFlight = FALSE]
                 /\ UNCHANGED <<bridgeVars, ops, payloads, demand, errors, table,
                                requests, landed, jobs>>
  BY DEF SettleOne
<1>2. boa = "settling" /\ UNCHANGED <<flagShut, blob, signal, holds, boa, reads, promise>>
  BY DEF SettleOne
<1>3. TypeOK /\ IInv
  BY DEF Known
<1>4. CASE id \notin ops
  <2>1. stream' = stream /\ UNCHANGED <<bridgeVars, ops, errors, table, jobs>>
    BY <1>1, <1>4
  <2>2. UNCHANGED <<blob, ops, errors, jobs, promise, reads, table, nextId>>
    BY <1>2, <2>1 DEF bridgeVars
  <2>3. \A x \in ops : stream'[x].loaded = stream[x].loaded
    BY <2>1
  <2>4. PartsInv'
    BY <2>2, <2>3, UnseenKeeps
  <2>5. UNCHANGED Abstract!vars
    BY <2>2, Unseen
  <2> QED
    BY <2>4, <2>5
<1>5. CASE id \in ops
  <2>1. /\ Len(requests[id]) = 0 /\ Len(landed[id]) = 0
        /\ Head(batch[id]) \in Completion /\ IsNext(id, Head(batch[id]))
        /\ stream[id].queue # << >> /\ Head(stream[id].queue) \in table
    BY <1>1, <1>2, <1>3, <1>5, CompletionFacts
  <2>2. PICK done \in Completion : done = Head(batch[id])
    BY <2>1
  <2>3. PICK q \in Seq(Calls) : q = stream[id].queue
    BY <1>3, StreamTypes
  <2>4. DataAt(id)
    BY <1>3, <1>5 DEF IInv, StreamAt, LiveAt
  <2>5. PICK b \in Blobs : b = blob[id]
    BY <2>4 DEF DataAt
  <2>6. PICK s : s = [stream[id] EXCEPT !.inFlight = FALSE]
    OBVIOUS
  <2>7. s \in Stream /\ s.queue = q /\ s.loaded = stream[id].loaded
    BY <1>3, <2>3, <2>6, StreamTypes DEF Stream
  <2>8. /\ s.loaded \in Nat /\ b.chunks \in Nat /\ s.loaded <= b.chunks /\ done.at = s.loaded
        /\ done.kind = "chunk" => done.at # b.chunks
        /\ done.kind = "eof" => done.at = b.chunks
    <3>1. s.loaded \in Nat /\ b.chunks \in Nat
      BY <2>7, DataTypes DEF Stream
    <3> QED
      BY <2>1, <2>2, <2>4, <2>5, <2>7, <3>1 DEF DataAt, IsNext
  <2>9. boa # "closing" /\ UNCHANGED <<promise, reads, blob>> /\ q # << >>
    BY <1>2, <2>1, <2>3
  <2>10. SettleCall(id, done, Head(q))
    BY <1>1, <1>5, <2>1, <2>2, <2>3
  <2>11. /\ Head(q) \in Calls /\ Tail(q) \in Seq(Calls) /\ Head(q) = q[1]
         /\ <<Head(q)>> \in Seq(Calls) /\ << >> \in Seq(Calls)
         /\ q = << >> \o q /\ q = <<Head(q)>> \o Tail(q) /\ Ready(id, q)
    <3>1. Head(q) \in Calls /\ Tail(q) \in Seq(Calls) /\ Head(q) = q[1]
      BY <2>9, TailFacts
    <3>2. <<Head(q)>> \in Seq(Calls) /\ << >> \in Seq(Calls)
      BY <3>1
    <3> QED
      BY <1>3, <1>5, <2>3, <2>9, <3>1, <3>2, QueueParts, QueueReady
  <2>12. ASSUME Fails(id, << >>, s.queue) PROVE PartsInv' /\ Abstract!Fail(id)
    BY <1>5, <2>3, <2>7, <2>9, <2>12, FailsRefines
  <2>13. ASSUME Finishes(id, LastPart(b, Head(q)), IF HasTail(b) THEN Tail(s.queue) ELSE s.queue),
                done.kind = "eof"
         PROVE  PartsInv' /\ Abstract!Finish(id)
    <3>1. stream[id].loaded = b.chunks
      BY <2>7, <2>8, <2>13
    <3>2. Finishes(id, LastPart(b, Head(q)), IF HasTail(b) THEN Tail(q) ELSE q)
      BY <2>7, <2>13
    <3> QED
      BY <1>5, <2>3, <2>5, <2>9, <3>1, <3>2, FinishRefines
  <2>14. GivenNow[id] = Passed(id) /\ YieldNow[id] = Yield(b) /\ b # NoBlob
    <3>1. b # NoBlob
      BY StreamAssumption
    <3> QED
      BY <1>5, <2>5, <3>1, SeenFacts DEF PartsInv
  <2>15. ASSUME done.kind = "chunk" PROVE GivenNow[id] = s.loaded /\ GivenNow[id] < YieldNow[id]
    <3>1. s.loaded # b.chunks /\ s.loaded < b.chunks
      BY <2>8, <2>15
    <3>2. Passed(id) = s.loaded
      BY <2>5, <2>7, <3>1 DEF Passed
    <3>3. b.chunks <= Yield(b) /\ Yield(b) \in Nat
      BY <2>8 DEF Yield
    <3> QED
      BY <2>8, <2>14, <3>1, <3>2, <3>3
  <2>20. ASSUME done.kind = "chunk" PROVE s.loaded + 1 \in Offsets
    <3>1. s.loaded + 1 \in Nat /\ s.loaded + 1 <= b.chunks
      BY <2>8, <2>20
    <3> QED
      BY <3>1, DataTypes
  <2>16. ASSUME done.kind = "chunk", ~IsSilent(b, done.at),
                Continues(id, [s EXCEPT !.queue = Tail(s.queue), !.loaded = s.loaded + 1],
                          AnswerTo(<<Head(q)>>, Part(done.at + 1)))
         PROVE  PartsInv' /\ (Abstract!Fail(id) \/ Abstract!Deliver(id) \/ UNCHANGED Abstract!vars)
    <3>1. PICK t : t = [s EXCEPT !.queue = Tail(s.queue), !.loaded = s.loaded + 1]
      OBVIOUS
    <3>2. s.loaded + 1 \in Offsets
      BY <2>16, <2>20
    <3>3. t \in Stream /\ t.queue = Tail(q) /\ t.loaded = s.loaded + 1
      BY <2>7, <2>11, <3>1, <3>2 DEF Stream
    <3>4. PICK a \in AnyAnswer : a = Part(done.at + 1) /\ a # Waiting
      <4>1. done.at + 1 \in Nat /\ done.at + 1 >= 1 /\ done.at + 1 <= b.chunks + 1
        BY <2>8
      <4> QED
        BY <4>1, DataTypes
    <3>5. PICK u, v, before : u = <<Head(q)>> /\ v = Tail(q) /\ before = AnswerTo(u, a)
      OBVIOUS
    <3>6. u \in Seq(Calls) /\ v \in Seq(Calls) /\ Len(u) = 1 /\ q = u \o v
      BY <2>11, <3>5
    <3>7. Splits(q, u, v) /\ Covers(before, u)
      BY <2>11, <3>4, <3>5, <3>6, ReadySplits, AnswerToCovers
    <3>8. before[1].answer = a
      <4>1. DOMAIN u = 1 .. 1
        BY <3>6
      <4> QED
        BY <3>5, <4>1 DEF AnswerTo
    <3>9. GivesNext(id, u, before)
      <4>1. u # << >> /\ before[1].answer = Part(s.loaded + 1)
        <5>1. u # << >>
          <6>1. u = <<Head(q)>>
            BY <3>5
          <6> QED
            BY ONLY <6>1
        <5>2. done.at = s.loaded
          BY <2>8
        <5> QED
          BY ONLY <3>4, <3>8, <5>1, <5>2
      <4> QED
        BY <2>15, <2>16, <4>1 DEF GivesNext
    <3>10. PICK parts \in {0, 1} : parts = 1
      OBVIOUS
    <3>11. Reaches(id, t, parts)
      <4>1. ~(b.tail = "silent" /\ t.loaded = b.chunks)
        BY <2>8, <2>16, <3>3 DEF IsSilent
      <4> QED
        BY <2>5, <2>15, <2>16, <3>3, <3>10, <4>1 DEF Reaches
    <3>12. t \in Stream /\ t.queue = v /\ Continues(id, t, before) /\ Len(u) = parts
      BY <2>16, <3>1, <3>3, <3>4, <3>5, <3>6, <3>10
    <3> QED
      BY <1>5, <2>3, <2>9, <3>7, <3>9, <3>11, <3>12, ContinuesRefines
  <2>17. ASSUME done.kind = "chunk", IsSilent(b, done.at),
                Continues(id, [s EXCEPT !.loaded = s.loaded + 1], << >>)
         PROVE  PartsInv' /\ (Abstract!Fail(id) \/ Abstract!Deliver(id) \/ UNCHANGED Abstract!vars)
    <3>1. PICK t : t = [s EXCEPT !.loaded = s.loaded + 1]
      OBVIOUS
    <3>2. s.loaded + 1 \in Offsets
      BY <2>17, <2>20
    <3>3. t \in Stream /\ t.queue = q /\ t.loaded = s.loaded + 1
      BY <2>7, <3>1, <3>2 DEF Stream
    <3>4. PICK u, before : u = << >> /\ before = << >>
      OBVIOUS
    <3>5. Splits(q, u, q) /\ Covers(before, u) /\ Len(u) = 0
      BY <2>11, <3>4, ReadySplits, NoneCovered
    <3>6. PICK parts \in {0, 1} : parts = 0
      OBVIOUS
    <3>7. Reaches(id, t, parts)
      <4>0. b.tail = "silent" /\ done.at = b.chunks - 1
        BY <2>17 DEF IsSilent
      <4>1. b.tail = "silent" /\ t.loaded = b.chunks /\ b.chunks - 1 = s.loaded
        BY <2>8, <3>3, <4>0
      <4> QED
        BY <2>5, <2>8, <2>15, <2>17, <3>6, <4>1 DEF Reaches
    <3>8. t.queue = q /\ Continues(id, t, before) /\ Len(u) = parts
      BY <2>17, <3>1, <3>3, <3>4, <3>5, <3>6
    <3> QED
      BY <1>5, <2>3, <2>9, <3>3, <3>5, <3>6, <3>7, <3>8, ContinuesRefines
  <2>18. \/ Fails(id, << >>, s.queue)
         \/ /\ done.kind = "eof"
            /\ Finishes(id, LastPart(b, Head(q)), IF HasTail(b) THEN Tail(s.queue) ELSE s.queue)
         \/ /\ done.kind = "chunk" /\ ~IsSilent(b, done.at)
            /\ Continues(id, [s EXCEPT !.queue = Tail(s.queue), !.loaded = s.loaded + 1],
                         AnswerTo(<<Head(q)>>, Part(done.at + 1)))
         \/ /\ done.kind = "chunk" /\ IsSilent(b, done.at)
            /\ Continues(id, [s EXCEPT !.loaded = s.loaded + 1], << >>)
    BY <2>5, <2>6, <2>10 DEF SettleCall
  <2>19. /\ PartsInv'
         /\ \/ Abstract!Fail(id) \/ Abstract!Finish(id)
            \/ Abstract!Deliver(id) \/ UNCHANGED Abstract!vars
    BY <2>12, <2>13, <2>16, <2>17, <2>18
  <2> QED
    BY <2>19 DEF Abstract!Next
<1> QED
  BY <1>4, <1>5

\* What the abstract stream knows of a new call.
LEMMA CallIsMade ==
    ASSUME NEW id \in OpIds, NEW c \in Calls,
           Known, PartsInv, reads[c] = 0, reads' = [reads EXCEPT ![c] = id],
           \A earlier \in Calls : earlier < c => reads[earlier] # 0, holds[id] # {}
    PROVE  /\ Abstract!Made(c, id) /\ AnswerOf(c) = Waiting
           /\ reads'[c] = id /\ \A d \in Calls : d # c => reads'[d] = reads[d]
           /\ \A d \in Calls : reads[d] # 0 => d < c
           /\ blob[id] # NoBlob /\ c \notin table
<1>1. promise[c] = Waiting /\ ~HasJob(c) /\ c \notin table
  BY IdsAreNumbers DEF Known, TypeOK, IInv, CallAt, JobsInv, HasJob
<1>2. AnswerOf(c) = Waiting
  BY <1>1 DEF Known, AnswersInv
<1>3. blob[id] # NoBlob
  BY HoldersAreCreated DEF Known, PartsInv, Opened
<1>4. StateNow[id] # "unopened"
  BY <1>3, StatesAre DEF StatesSeen, PartsInv
<1>5. Abstract!Made(c, id)
  BY <1>4 DEF Abstract!Made, Abstract!NoStream
<1>6. reads'[c] = id /\ \A d \in Calls : d # c => reads'[d] = reads[d]
  BY DEF Known, TypeOK
<1> QED
  BY <1>1, <1>2, <1>3, <1>5, <1>6, NewCallNewest

\* The answers that are no parts do not count.
LEMMA NothingGiven ==
    ASSUME NEW c \in Calls, AnswerOf(c).is # "part", AnswerOf(c)'.is # "part",
           \A d \in Calls : d # c => reads'[d] = reads[d],
           \A d \in Calls : AnswerOf(d)' = AnswerOf(d) \/ (AnswerOf(d).is # "part" /\ AnswerOf(d)'.is # "part")
    PROVE  GivenNow' = GivenNow
<1>1. \A x : Fed(x)' = Fed(x)
  BY DEF Fed
<1> QED
  BY <1>1 DEF GivenNow

\* The queue with the new call.
LEMMA ReadNewest ==
    ASSUME NEW id \in OpIds, NEW c \in Calls, NEW q,
           Known, PartsInv, id \in ops, reads[c] = 0, reads' = [reads EXCEPT ![c] = id],
           \A earlier \in Calls : earlier < c => reads[earlier] # 0,
           q = Append(stream[id].queue, c)
    PROVE  Newest(id, q) /\ Members(q) = Members(stream[id].queue) \cup {c}
<1>1. PICK queue \in Seq(Calls) : queue = stream[id].queue
  BY StreamTypes DEF Known
<1>2. /\ Len(q) = Len(queue) + 1 /\ Len(queue) \in Nat
      /\ \A i \in 1 .. Len(queue) : q[i] = queue[i]
      /\ q[Len(queue) + 1] = c
  BY <1>1, AppendFacts
<1>3. Members(q) = Members(queue) \cup {c}
  <2>1. \A i \in 1 .. Len(q) : i \in 1 .. Len(queue) \/ i = Len(queue) + 1
    BY <1>2
  <2>2. \A i \in 1 .. Len(queue) : i \in 1 .. Len(q)
    BY <1>2
  <2>3. Len(queue) + 1 \in 1 .. Len(q)
    BY <1>2
  <2> QED
    BY <1>2, <2>1, <2>2, <2>3 DEF Members
<1>4. ASSUME NEW m \in Members(q), NEW d \in Calls, reads'[d] = id, d \notin Members(q)
      PROVE  d < m
  <2>1. d # c /\ reads[d] = id /\ d \notin Members(queue) /\ id # 0
    BY <1>3, <1>4, IdsAreNumbers DEF Known, TypeOK
  <2>2. CASE m = c
    BY <2>1, <2>2, NewCallNewest
  <2>3. CASE m \in Members(queue)
    <3>1. m \in table /\ reads[m] = id
      BY <1>1, <2>3 DEF Known, IInv, StreamAt, QueueAt, Members
    <3>2. d \notin table
      BY <1>1, <2>1 DEF Known, IInv, CallAt, Members
    <3> QED
      BY <2>1, <3>1, <3>2 DEF PartsInv, Oldest
  <2> QED
    BY <1>3, <2>2, <2>3
<1> QED
  BY <1>1, <1>3, <1>4 DEF Newest

\* read() of a stream that is over gets its answer at once.
LEMMA ReadOverRefines ==
    ASSUME NEW id \in OpIds, NEW c \in Calls, NEW a \in {Done, Failed},
           Known, Known', PartsInv, id \notin ops, holds[id] # {},
           reads[c] = 0, reads' = [reads EXCEPT ![c] = id],
           \A earlier \in Calls : earlier < c => reads[earlier] # 0,
           a = IF id \in errors THEN Failed ELSE Done,
           jobs' = jobs \o AnswerTo(<<c>>, a),
           UNCHANGED <<bridgeVars, blob, stream, ops, errors, table, promise>>
    PROVE  PartsInv' /\ Abstract!Call(c, id)
<1>1. /\ Abstract!Made(c, id) /\ AnswerOf(c) = Waiting
      /\ reads'[c] = id /\ \A d \in Calls : d # c => reads'[d] = reads[d]
      /\ \A d \in Calls : reads[d] # 0 => d < c
      /\ blob[id] # NoBlob /\ c \notin table /\ id # 0
  BY CallIsMade, IdsAreNumbers
<1>2. PICK q, u, v, answers : /\ q = <<c>> /\ u = <<c>> /\ v = << >>
                              /\ answers = AnswerTo(u, a)
  OBVIOUS
<1>3. q \in Seq(Calls) /\ u \in Seq(Calls) /\ v \in Seq(Calls) /\ q = u \o v
      /\ Len(u) = 1 /\ DOMAIN u = 1 .. 1 /\ u[1] = c
  BY <1>2
<1>4. Ready(id, q)
  <2>1. stream[id].queue = << >>
    BY DEF Known, IInv, StreamAt, OverAt, Closed
  <2>2. Ready(id, Append(stream[id].queue, c))
    BY ReadReady DEF Known
  <2>3. q = Append(stream[id].queue, c)
    BY <1>2, <2>1
  <2> QED
    BY <2>2, <2>3
<1>5. a \in AnyAnswer /\ a # Waiting /\ a.is # "part" /\ Waiting.is # "part"
  BY DataTypes DEF Done, Failed, Waiting, Answer
<1>6. Splits(q, u, v) /\ Covers(answers, u) /\ jobs' = jobs \o answers
  BY <1>2, <1>3, <1>4, <1>5, ReadySplits, AnswerToCovers
<1>7. Members(q) = {c} /\ Members(u) = {c}
  BY <1>2 DEF Members
<1>8. Newest(id, q)
  BY <1>1, <1>7 DEF Newest
<1>9. table' = (table \cup Members(q)) \ Members(u)
  BY <1>1, <1>7
<1>10. InOrder' /\ Oldest'
  BY <1>4, <1>6, <1>8, <1>9, OrdersKeep
<1>11. /\ AnswerOf(c)' = a
       /\ \A d \in Calls : d # c => AnswerOf(d)' = AnswerOf(d)
  <2>1. /\ \A i \in 1 .. Len(u) : AnswerOf(u[i])' = answers[i].answer
        /\ \A d \in Calls \ Members(u) : AnswerOf(d)' = AnswerOf(d)
    BY <1>4, <1>6, Answered
  <2>2. answers[1].answer = a
    BY <1>2, <1>3 DEF AnswerTo
  <2>3. AnswerOf(u[1])' = a
    BY <1>3, <2>1, <2>2
  <2> QED
    BY <1>3, <1>7, <2>1, <2>3
<1>12. GivenNow' = GivenNow
  BY <1>1, <1>5, <1>11, NothingGiven
<1>13. Opened' /\ nextId' = nextId
  BY DEF PartsInv, Opened, bridgeVars
<1>14. PartsInv'
  <2>1. \A x \in ops' : GivenNow'[x] = Passed(x)'
    BY <1>12 DEF PartsInv, Passed
  <2> QED
    BY <1>10, <1>13, <2>1 DEF PartsInv
<1>15. StateNow' = StateNow /\ YieldNow' = YieldNow /\ SettledNow' = SettledNow
  BY DEF StateNow, StateOf, YieldNow, SettledNow
<1>16. StateNow[id] = IF id \in errors THEN "errored" ELSE "ended"
  BY <1>1, StatesAre DEF StatesSeen, PartsInv
<1>17. OutcomeNow' = [OutcomeNow EXCEPT ![c] = a]
  <2>1. OutcomeNow = [d \in Calls |-> AnswerOf(d)] /\ OutcomeNow' = [d \in Calls |-> AnswerOf(d)']
    BY DEF OutcomeNow
  <2> QED
    BY <1>11, <2>1
<1>18. a = CASE StateNow[id] = "readable" -> Abstract!Waiting
             [] StateNow[id] = "errored"  -> Abstract!Failed
             [] StateNow[id] = "ended"    -> Abstract!Done
  BY <1>16 DEF Abstract!Waiting, Abstract!Failed, Abstract!Done, Abstract!Answer,
               Failed, Done, Answer
<1> QED
  BY <1>1, <1>12, <1>14, <1>15, <1>17, <1>18 DEF Abstract!Call

\* read() of a live stream whose request is not refused waits.
LEMMA ReadWaitsRefines ==
    ASSUME NEW id \in OpIds, NEW c \in Calls, NEW q, NEW t,
           Known, Known', PartsInv, id \in ops, holds[id] # {},
           reads[c] = 0, reads' = [reads EXCEPT ![c] = id],
           \A earlier \in Calls : earlier < c => reads[earlier] # 0,
           q = Append(stream[id].queue, c),
           t.loaded = stream[id].loaded, stream' = [stream EXCEPT ![id] = t],
           table' = table \cup ToSet(q), jobs' = jobs,
           UNCHANGED <<bridgeVars, blob, ops, errors, promise>>
    PROVE  PartsInv' /\ Abstract!Call(c, id)
<1>1. /\ Abstract!Made(c, id) /\ AnswerOf(c) = Waiting
      /\ reads'[c] = id /\ \A d \in Calls : d # c => reads'[d] = reads[d]
      /\ blob[id] # NoBlob
  BY CallIsMade
<1>2. PICK u, before : u = << >> /\ before = << >>
  OBVIOUS
<1>3. Ready(id, q) /\ Newest(id, q)
  BY ReadReady, ReadNewest DEF Known
<1>4. q \in Seq(Calls) /\ u \in Seq(Calls) /\ q = u \o q
  <2>1. q \in Seq(Calls)
    BY <1>3 DEF Ready
  <2> QED
    BY <1>2, <2>1, QueueParts
<1>5. Splits(q, u, q) /\ Covers(before, u)
  BY <1>2, <1>3, <1>4, ReadySplits, NoneCovered
<1>6. jobs \o before = jobs
  <2>1. PICK J : J = [call : Calls, answer : AnyAnswer]
    OBVIOUS
  <2>2. jobs \in Seq(J)
    BY <2>1 DEF Known, TypeOK
  <2> QED
    BY ONLY <1>2, <2>2
<1>7. table' = (table \cup ToSet(q)) \ {before[i].call : i \in DOMAIN before}
  BY <1>2
<1>8. UNCHANGED <<blob, ops, errors, nextId>> /\ jobs' = jobs \o before
  BY <1>6 DEF bridgeVars
<1>9. InOrder' /\ Oldest' /\ Opened' /\ StateNow' = StateNow
  BY <1>3, <1>5, <1>7, <1>8, GoesOn
<1>10. \A d : AnswerOf(d)' = AnswerOf(d)
  BY DEF AnswerOf
<1>11. GivenNow' = GivenNow
  BY <1>1, <1>10, NothingGiven DEF Waiting, Answer
<1>12. PartsInv'
  <2>1. \A x \in OpIds : stream'[x].loaded = stream[x].loaded
    BY DEF Known, TypeOK
  <2>2. ops \subseteq OpIds
    BY DEF Known, TypeOK
  <2>3. \A x \in ops' : GivenNow'[x] = Passed(x)'
    BY <1>11, <2>1, <2>2 DEF PartsInv, Passed
  <2> QED
    BY <1>9, <2>3 DEF PartsInv
<1>13. YieldNow' = YieldNow /\ SettledNow' = SettledNow
  BY DEF YieldNow, SettledNow
<1>14. StateNow[id] = "readable"
  BY <1>1, StatesAre DEF StatesSeen, PartsInv
<1>15. OutcomeNow' = [OutcomeNow EXCEPT ![c] = Waiting]
  <2>1. OutcomeNow = [d \in Calls |-> AnswerOf(d)] /\ OutcomeNow' = [d \in Calls |-> AnswerOf(d)']
    BY DEF OutcomeNow
  <2> QED
    BY <1>1, <1>10, <2>1
<1>16. Waiting = CASE StateNow[id] = "readable" -> Abstract!Waiting
                   [] StateNow[id] = "errored"  -> Abstract!Failed
                   [] StateNow[id] = "ended"    -> Abstract!Done
  BY <1>14 DEF Abstract!Waiting, Abstract!Answer, Waiting, Answer
<1> QED
  BY <1>1, <1>9, <1>11, <1>12, <1>13, <1>15, <1>16 DEF Abstract!Call

\* read() of a live stream whose request is refused breaks the stream.
LEMMA ReadFailsRefines ==
    ASSUME NEW id \in OpIds, NEW c \in Calls, NEW q,
           Known, Known', PartsInv, id \in ops, holds[id] # {}, boa # "closing",
           reads[c] = 0, reads' = [reads EXCEPT ![c] = id],
           \A earlier \in Calls : earlier < c => reads[earlier] # 0,
           q = Append(stream[id].queue, c), Fails(id, << >>, q), UNCHANGED <<blob, promise>>
    PROVE  PartsInv' /\ Abstract!CallFails(c, id)
<1>1. /\ Abstract!Made(c, id) /\ AnswerOf(c) = Waiting
      /\ reads'[c] = id /\ \A d \in Calls : d # c => reads'[d] = reads[d]
      /\ blob[id] # NoBlob
  BY CallIsMade
<1>2. Ready(id, q) /\ Newest(id, q) /\ Members(q) = Members(stream[id].queue) \cup {c}
  BY ReadReady, ReadNewest DEF Known
<1>3. q \in Seq(Calls) /\ ~flagShut
  BY <1>2, LiveMeansOpen DEF Ready, Known
<1>4. PICK answers : answers = << >> \o AnswerTo(q, Failed)
  OBVIOUS
<1>5. Covers(answers, q) /\ \A i \in 1 .. Len(q) : answers[i].answer = Failed
  BY <1>3, <1>4, SameAnswer, DataTypes
<1>6. Ends(id, answers) /\ errors' = errors \cup {id}
  BY <1>4 DEF Fails
<1>7. PICK over \in {"errored", "ended"} : over = "errored"
  OBVIOUS
<1>8. errors' = (IF over = "errored" THEN errors \cup {id} ELSE errors)
  BY <1>6, <1>7
<1>9. /\ InOrder' /\ Oldest' /\ Opened' /\ Splits(q, q, << >>)
      /\ jobs' = jobs \o answers
      /\ StateNow' = [StateNow EXCEPT ![id] = over]
      /\ \A x \in ops' : x \in ops /\ x # id /\ x \in OpIds /\ Passed(x)' = Passed(x)
  BY <1>2, <1>5, <1>6, <1>8, EndsSeen
<1>10. /\ \A i \in 1 .. Len(q) : AnswerOf(q[i])' = answers[i].answer
       /\ \A d \in Calls \ Members(q) : AnswerOf(d)' = AnswerOf(d)
  <2>1. PICK v : v = << >>
    OBVIOUS
  <2>2. Ready(id, q)
    BY <1>2
  <2>3. Splits(q, q, v)
    BY <1>9, <2>1
  <2>4. Covers(answers, q)
    BY <1>5
  <2>5. jobs' = jobs \o answers
    BY <1>9
  <2>6. promise' = promise
    OBVIOUS
  <2>7. Known /\ Known' /\ id \in OpIds
    OBVIOUS
  <2> QED
    BY ONLY <2>2, <2>3, <2>4, <2>5, <2>6, <2>7, Answered
<1>11. \A d \in Members(q) : AnswerOf(d)' = Failed
  BY <1>5, <1>10 DEF Members
<1>12. \A d \in Calls : reads'[d] = id /\ AnswerOf(d) = Waiting <=> d \in Members(q)
  <2>1. \A d \in Calls :
           reads[d] = id /\ AnswerOf(d) = Waiting <=> d \in Members(stream[id].queue)
    BY <1>3, WaitsAreQueued
  <2> QED
    BY <1>1, <1>2, <2>1
<1>13. Waiting.is # "part" /\ Failed.is # "part"
  BY DEF Waiting, Failed, Answer
<1>14. GivenNow' = GivenNow
  <2>1. c \in Members(q) /\ Members(q) \subseteq Calls
    BY <1>2, ReadyMembers
  <2>2. \A d \in Calls : AnswerOf(d)' = AnswerOf(d) \/ (AnswerOf(d).is # "part" /\ AnswerOf(d)'.is # "part")
    BY <1>10, <1>11, <1>12, <1>13
  <2>3. AnswerOf(c).is # "part" /\ AnswerOf(c)'.is # "part"
    BY <1>1, <1>11, <1>13, <2>1
  <2> QED
    BY <1>1, <2>2, <2>3, NothingGiven
<1>15. PartsInv'
  <2>1. \A x \in ops' : GivenNow'[x] = Passed(x)'
    BY <1>9, <1>14 DEF PartsInv
  <2> QED
    BY <1>9, <2>1 DEF PartsInv
<1>16. StateNow[id] = "readable"
  BY <1>1, StatesAre DEF StatesSeen, PartsInv
<1>17. OutcomeNow' = [d \in Calls |->
          IF reads'[d] = id /\ OutcomeNow[d] = Waiting THEN Failed ELSE OutcomeNow[d]]
  <2>1. /\ \A d \in Calls : OutcomeNow[d] = AnswerOf(d)
        /\ OutcomeNow' = [d \in Calls |-> AnswerOf(d)']
    BY DEF OutcomeNow
  <2>2. \A d \in Calls : AnswerOf(d)' =
           IF reads'[d] = id /\ OutcomeNow[d] = Waiting THEN Failed ELSE OutcomeNow[d]
    BY <1>10, <1>11, <1>12, <2>1
  <2> QED
    BY <2>1, <2>2
<1>18. YieldNow' = YieldNow /\ SettledNow' = SettledNow
  BY DEF YieldNow, SettledNow
<1> QED
  BY <1>1, <1>7, <1>9, <1>14, <1>15, <1>16, <1>17, <1>18
     DEF Abstract!CallFails, Abstract!Waiting, Abstract!Failed, Abstract!Answer,
         Waiting, Failed, Answer

\* read() is a call of the abstract stream.
LEMMA ReadRefines ==
    ASSUME NEW id \in OpIds, Known, Known', PartsInv, Read(id)
    PROVE  PartsInv' /\ \E c \in Calls : Abstract!Call(c, id) \/ Abstract!CallFails(c, id)
<1>1. /\ boa = "idle" /\ holds[id] # {}
      /\ UNCHANGED <<blob, promise>>
  BY DEF Read
<1>2. PICK c \in Calls :
         /\ reads[c] = 0 /\ \A earlier \in Calls : earlier < c => reads[earlier] # 0
         /\ reads' = [reads EXCEPT ![c] = id]
         /\ IF id \in ops
            THEN Continues(id, [stream[id] EXCEPT !.queue = Append(stream[id].queue, c)], << >>)
            ELSE /\ jobs' = jobs \o AnswerTo(<<c>>, IF id \in errors THEN Failed ELSE Done)
                 /\ UNCHANGED <<bridgeVars, stream, ops, payloads, demand, errors,
                                table, requests, landed>>
  BY DEF Read
<1>3. CASE id \notin ops
  <2>1. PICK a \in {Done, Failed} : a = IF id \in errors THEN Failed ELSE Done
    OBVIOUS
  <2>2. /\ jobs' = jobs \o AnswerTo(<<c>>, a)
        /\ UNCHANGED <<bridgeVars, blob, stream, ops, errors, table, promise>>
    BY <1>1, <1>2, <1>3, <2>1
  <2>3. PartsInv' /\ Abstract!Call(c, id)
    BY <1>1, <1>2, <1>3, <2>1, <2>2, ReadOverRefines
  <2> QED
    BY <2>3
<1>4. CASE id \in ops
  <2>1. PICK q, s, before : /\ q = Append(stream[id].queue, c) /\ before = << >>
                            /\ s = [stream[id] EXCEPT !.queue = q]
    OBVIOUS
  <2>2. Continues(id, s, before)
    BY <1>2, <1>4, <2>1
  <2>3. s.queue = q /\ s.loaded = stream[id].loaded
    BY <2>1, StreamTypes DEF Known, Stream
  <2>4. [s EXCEPT !.inFlight = TRUE].loaded = stream[id].loaded
    BY <2>1, StreamTypes DEF Known, Stream
  <2>5. jobs \o before = jobs
    <3>1. PICK J : J = [call : Calls, answer : AnyAnswer]
      OBVIOUS
    <3>2. jobs \in Seq(J)
      BY <3>1 DEF Known, TypeOK
    <3> QED
      BY ONLY <2>1, <3>2
  <2>6. (table \cup ToSet(q)) \ {before[i].call : i \in DOMAIN before} = table \cup ToSet(q)
    BY <2>1
  <2>7. \/ /\ stream' = [stream EXCEPT ![id] = [s EXCEPT !.inFlight = TRUE]]
           /\ table' = table \cup ToSet(q) /\ jobs' = jobs
           /\ UNCHANGED <<bridgeVars, ops, errors>>
        \/ Fails(id, before, q)
        \/ /\ stream' = [stream EXCEPT ![id] = s]
           /\ table' = table \cup ToSet(q) /\ jobs' = jobs
           /\ UNCHANGED <<bridgeVars, ops, errors>>
    BY <2>2, <2>3, <2>5, <2>6 DEF Continues
  <2>8. CASE Fails(id, before, q)
    <3>1. Fails(id, << >>, q) /\ boa # "closing"
      BY <1>1, <2>1, <2>8
    <3>2. PartsInv' /\ Abstract!CallFails(c, id)
      BY <1>1, <1>2, <1>4, <2>1, <3>1, ReadFailsRefines
    <3> QED
      BY <3>2
  <2>9. CASE ~Fails(id, before, q)
    <3>1. PICK t : /\ t = s \/ t = [s EXCEPT !.inFlight = TRUE]
                   /\ stream' = [stream EXCEPT ![id] = t]
                   /\ table' = table \cup ToSet(q) /\ jobs' = jobs
                   /\ UNCHANGED <<bridgeVars, ops, errors>>
      BY <2>7, <2>9
    <3>2. t.loaded = stream[id].loaded
      BY <2>3, <2>4, <3>1
    <3>3. PartsInv' /\ Abstract!Call(c, id)
      BY <1>1, <1>2, <1>4, <2>1, <3>1, <3>2, ReadWaitsRefines
    <3> QED
      BY <3>3
  <2> QED
    BY <2>8, <2>9
<1> QED
  BY <1>3, <1>4

\* run_jobs settles the oldest call of a stream that is answered.
LEMMA RunJobRefines ==
    ASSUME Known, Known', PartsInv, RunJob
    PROVE  PartsInv' /\ \E c \in Calls : Abstract!Settle(c)
<1>1. PICK J : J = [call : Calls, answer : AnyAnswer]
  OBVIOUS
<1>2. jobs \in Seq(J) /\ jobs # << >> /\ jobs' = Tail(jobs)
  BY <1>1 DEF RunJob, Known, TypeOK
<1>3. /\ Len(jobs) \in Nat /\ Len(jobs) >= 1 /\ Head(jobs) = jobs[1] /\ jobs[1] \in J
      /\ Len(jobs') = Len(jobs) - 1
      /\ \A i \in 1 .. Len(jobs) - 1 : jobs'[i] = jobs[i + 1]
  BY ONLY <1>2, TailFacts
<1>4. PICK c \in Calls, a \in AnyAnswer : c = jobs[1].call /\ a = jobs[1].answer
  BY <1>1, <1>3
<1>5. promise' = [promise EXCEPT ![c] = a] /\ UNCHANGED <<bridgeVars, blob, stream, ops, errors, table, reads>>
  BY <1>3, <1>4 DEF RunJob
<1>6. \A i \in 1 .. Len(jobs') : i + 1 \in 1 .. Len(jobs) /\ jobs'[i] = jobs[i + 1]
  BY <1>3
<1>7. \A i \in 1 .. Len(jobs) : i # 1 => i - 1 \in 1 .. Len(jobs') /\ jobs'[i - 1] = jobs[i]
  BY <1>3
<1>8. /\ promise'[c] = a /\ \A d \in Calls : d # c => promise'[d] = promise[d]
      /\ 1 \in 1 .. Len(jobs) /\ a # Waiting /\ promise[c] = Waiting
      /\ AnswerOf(c) = a
  BY <1>3, <1>4, <1>5 DEF Known, TypeOK, IInv, JobsInv, AnswersInv
<1>9. \A d \in Calls : AnswerOf(d)' = AnswerOf(d)
  <2> SUFFICES ASSUME NEW d \in Calls PROVE AnswerOf(d)' = AnswerOf(d)
    OBVIOUS
  <2>1. CASE d = c
    BY <1>8, <2>1 DEF Known, AnswersInv
  <2>2. CASE d # c /\ promise[d] # Waiting
    BY <1>8, <2>2 DEF Known, AnswersInv
  <2>3. CASE d # c /\ promise[d] = Waiting /\ HasJob(d)
    <3>1. PICK k \in 1 .. Len(jobs) : jobs[k].call = d
      BY <2>3 DEF HasJob
    <3>2. k # 1
      BY <1>4, <2>3, <3>1
    <3>3. PICK j : j = k - 1
      OBVIOUS
    <3>4. j \in 1 .. Len(jobs') /\ jobs'[j] = jobs[k]
      BY <1>7, <3>2, <3>3
    <3>5. AnswerOf(d) = jobs[k].answer
      BY <3>1 DEF Known, AnswersInv
    <3>6. AnswerOf(d)' = jobs'[j].answer
      BY <3>1, <3>4 DEF Known, AnswersInv
    <3> QED
      BY <3>4, <3>5, <3>6
  <2>4. CASE d # c /\ promise[d] = Waiting /\ ~HasJob(d)
    <3>1. ~HasJob(d)'
      BY <1>6, <2>4 DEF HasJob
    <3> QED
      BY <1>8, <2>4, <3>1 DEF Known, AnswersInv
  <2> QED
    BY <2>1, <2>2, <2>3, <2>4
<1>10. \A id : Fed(id)' = Fed(id)
  BY <1>5, <1>9 DEF Fed
<1>11. /\ GivenNow' = GivenNow /\ OutcomeNow' = OutcomeNow
       /\ StateNow' = StateNow /\ YieldNow' = YieldNow
  BY <1>5, <1>9, <1>10 DEF GivenNow, OutcomeNow, StateNow, StateOf, YieldNow
<1>12. InOrder'
  <2> SUFFICES ASSUME NEW i \in 1 .. Len(jobs'), NEW j \in 1 .. Len(jobs'), i < j,
                      reads'[jobs'[i].call] = reads'[jobs'[j].call]
               PROVE  jobs'[i].call < jobs'[j].call
    BY DEF InOrder
  <2>1. PICK k, l : k = i + 1 /\ l = j + 1
    OBVIOUS
  <2>2. k \in 1 .. Len(jobs) /\ l \in 1 .. Len(jobs) /\ k < l /\ jobs'[i] = jobs[k] /\ jobs'[j] = jobs[l]
    BY <1>6, <2>1
  <2> QED
    BY <1>5, <2>2 DEF PartsInv, InOrder
<1>13. PartsInv'
  BY <1>5, <1>11, <1>12 DEF PartsInv, Oldest, Opened, Passed, bridgeVars
<1>14. SettledNow' = SettledNow \cup {c}
  BY <1>8 DEF SettledNow
<1>15. ASSUME NEW d \in Calls, d < c, reads[d] = reads[c], AnswerOf(d) # Waiting
       PROVE  d \in SettledNow
  <2> SUFFICES ASSUME promise[d] = Waiting PROVE FALSE
    BY DEF SettledNow
  <2>1. HasJob(d)
    BY <1>15 DEF Known, AnswersInv
  <2>2. PICK k \in 1 .. Len(jobs) : jobs[k].call = d
    BY <2>1 DEF HasJob
  <2>3. d \in Nat /\ c \in Nat
    BY DataTypes
  <2>4. k # 1
    BY <1>4, <1>15, <2>2, <2>3
  <2>5. 1 < k
    BY <2>4
  <2>6. jobs[1].call < jobs[k].call
    BY <1>4, <1>8, <1>15, <2>2, <2>5 DEF PartsInv, InOrder
  <2> QED
    BY <1>4, <1>15, <2>2, <2>3, <2>6
<1>16. OutcomeNow[c] # Abstract!Waiting /\ c \notin SettledNow
  BY <1>8, SeenFacts DEF SettledNow, Abstract!Waiting, Abstract!Answer, Waiting, Answer
<1>17. \A d \in Calls :
          d < c /\ reads[d] = reads[c] /\ OutcomeNow[d] # Abstract!Waiting => d \in SettledNow
  BY <1>15, SeenFacts DEF Abstract!Waiting, Abstract!Answer, Waiting, Answer
<1>18. Abstract!Settle(c)
  BY <1>5, <1>11, <1>14, <1>16, <1>17 DEF Abstract!Settle
<1> QED
  BY <1>13, <1>18

\* create_stream opens a stream; its id was never used.
LEMMA CreateStreamRefines ==
    ASSUME Known, Known', PartsInv, CreateStream
    PROVE  PartsInv' /\ \E id \in OpIds : Abstract!Open(id)
<1>1. PICK id \in OpIds, b \in Blobs :
         /\ Reserve(id)
         /\ blob' = [blob EXCEPT ![id] = b]
         /\ stream' = [stream EXCEPT ![id].streamReg = TRUE]
         /\ ops' = ops \cup {id}
         /\ UNCHANGED <<errors, table, jobs, reads, promise>>
  BY DEF CreateStream
<1>2. id = nextId /\ nextId' = nextId + 1 /\ nextId \in Nat /\ \A x \in OpIds : x \in Nat
  BY <1>1, IdsAreNumbers, BridgeAssumption DEF Reserve, Known, TypeOK, BridgeTypeOK
<1>3. blob[id] = NoBlob /\ id \notin errors /\ id \notin ops /\ b # NoBlob
  BY <1>2, StreamAssumption DEF PartsInv, Opened, Known, IInv, StreamAt, NewAt, OverAt
<1>4. stream[id].loaded = 0
  BY <1>3 DEF Known, IInv, StreamAt, OverAt, Closed
<1>5. /\ blob'[id] = b /\ stream'[id].loaded = 0
      /\ \A x \in OpIds \ {id} : blob'[x] = blob[x] /\ stream'[x] = stream[x]
  BY <1>1, <1>4, StreamTypes DEF Known, TypeOK, Stream
<1>6. Opened'
  <2>1. errors' \cap ops' = {}
    BY <1>1, <1>3 DEF PartsInv, Opened
  <2>2. \A x \in errors' : x < nextId'
    <3> SUFFICES ASSUME NEW x \in errors PROVE x < nextId + 1
      BY <1>1, <1>2
    <3>1. x < nextId /\ x \in Nat
      BY <1>2 DEF PartsInv, Opened, Known, TypeOK
    <3> QED
      BY <1>2, <3>1
  <2>3. ASSUME NEW x \in OpIds PROVE blob'[x] = NoBlob <=> x >= nextId'
    <3>1. CASE x = id
      BY <1>2, <1>3, <1>5, <3>1
    <3>2. CASE x # id
      <4>1. blob[x] = NoBlob <=> x >= nextId
        BY DEF PartsInv, Opened
      <4>2. x >= nextId <=> x >= nextId'
        BY <1>2, <3>2
      <4> QED
        BY <1>5, <3>2, <4>1, <4>2
    <3> QED
      BY <3>1, <3>2
  <2> QED
    BY <2>1, <2>2, <2>3 DEF Opened
<1>7. /\ \A c : AnswerOf(c)' = AnswerOf(c)
      /\ \A x : Fed(x)' = Fed(x)
  <2>1. \A c : AnswerOf(c)' = AnswerOf(c)
    BY <1>1 DEF AnswerOf
  <2> QED
    BY <1>1, <2>1 DEF Fed
<1>8. GivenNow' = GivenNow /\ OutcomeNow' = OutcomeNow /\ SettledNow' = SettledNow
  BY <1>1, <1>7 DEF GivenNow, OutcomeNow, SettledNow
<1>9. GivenNow[id] = 0
  <2>1. \A c \in Calls : reads[c] # id
    <3> SUFFICES ASSUME NEW c \in Calls, reads[c] = id PROVE FALSE
      OBVIOUS
    <3>1. reads[c] < nextId
      BY <1>2, IdsAreNumbers DEF Known, IInv, CallAt
    <3> QED
      BY <1>2, <3>1
  <2>2. Fed(id) = {}
    BY <2>1 DEF Fed
  <2> QED
    BY <2>2, SeenFacts, FS_EmptySet
<1>10. Passed(id)' = 0
  <2>1. b.tail = "silent" => b.chunks # 0
    BY StreamAssumption
  <2> QED
    BY <1>5, <2>1 DEF Passed
<1>11. \A x \in ops : x \in OpIds /\ x # id /\ Passed(x)' = Passed(x)
  BY <1>3, <1>5 DEF Passed, Known, TypeOK
<1>12. PartsInv'
  <2>1. \A x \in ops' : GivenNow'[x] = Passed(x)'
    BY <1>1, <1>8, <1>9, <1>10, <1>11 DEF PartsInv
  <2>2. InOrder' /\ Oldest'
    BY <1>1 DEF PartsInv, InOrder, Oldest
  <2> QED
    BY <1>6, <2>1, <2>2 DEF PartsInv
<1>13. StateNow' = [StateNow EXCEPT ![id] = "readable"]
  <2>1. StateOf(id)' = "readable"
    BY <1>1, <1>3, <1>5 DEF StateOf
  <2>2. \A x \in OpIds \ {id} : StateOf(x)' = StateOf(x)
    BY <1>1, <1>5 DEF StateOf
  <2>3. StateNow = [x \in OpIds |-> StateOf(x)] /\ StateNow' = [x \in OpIds |-> StateOf(x)']
    BY DEF StateNow
  <2> QED
    BY <2>1, <2>2, <2>3
<1>14. YieldNow' = [YieldNow EXCEPT ![id] = Yield(b)]
  <2>1. /\ YieldNow = [x \in OpIds |-> IF blob[x] = NoBlob THEN 0 ELSE Yield(blob[x])]
        /\ YieldNow' = [x \in OpIds |-> IF blob'[x] = NoBlob THEN 0 ELSE Yield(blob'[x])]
    BY DEF YieldNow, Yield
  <2> QED
    BY <1>3, <1>5, <2>1
<1>15. StateNow[id] = "unopened"
  BY <1>3, StatesAre DEF StatesSeen, PartsInv
<1>16. Abstract!Open(id)
  BY <1>1, <1>8, <1>13, <1>14, <1>15 DEF Abstract!Open
<1> QED
  BY <1>12, <1>16

\* Shutdown ends every stream; what was answered still settles.
LEMMA CloseBridgeRefines ==
    ASSUME Known, Known', PartsInv, CloseBridge
    PROVE  PartsInv' /\ Abstract!ShutDown
<1>1. /\ ops' = {} /\ errors' = {} /\ table' = {} /\ nextId' = nextId
      /\ UNCHANGED <<blob, jobs, reads, promise>>
  BY DEF CloseBridge, ShutdownBridge
<1>2. /\ \A c : AnswerOf(c)' = AnswerOf(c)
      /\ \A x : Fed(x)' = Fed(x)
  <2>1. \A c : AnswerOf(c)' = AnswerOf(c)
    BY <1>1 DEF AnswerOf
  <2> QED
    BY <1>1, <2>1 DEF Fed
<1>3. /\ GivenNow' = GivenNow /\ OutcomeNow' = OutcomeNow /\ SettledNow' = SettledNow
      /\ YieldNow' = YieldNow
  BY <1>1, <1>2 DEF GivenNow, OutcomeNow, SettledNow, YieldNow
<1>4. PartsInv'
  <2>1. InOrder'
    BY <1>1 DEF PartsInv, InOrder
  <2>2. Oldest'
    BY <1>1 DEF Oldest
  <2>3. Opened'
    BY <1>1 DEF PartsInv, Opened
  <2> QED
    BY <1>1, <2>1, <2>2, <2>3 DEF PartsInv
<1>5. StateNow' = [x \in OpIds |-> IF StateNow[x] = "unopened" THEN "unopened" ELSE "ended"]
  <2>1. \A x \in OpIds : StateOf(x)' = IF blob[x] = NoBlob THEN "unopened" ELSE "ended"
    BY <1>1 DEF StateOf
  <2>2. \A x \in OpIds : StateNow[x] = "unopened" <=> blob[x] = NoBlob
    BY StatesAre DEF StatesSeen, PartsInv
  <2>3. StateNow' = [x \in OpIds |-> StateOf(x)']
    BY DEF StateNow
  <2> QED
    BY <2>1, <2>2, <2>3
<1> QED
  BY <1>1, <1>3, <1>4, <1>5 DEF Abstract!ShutDown

\* Steps that the abstract stream does not see.
LEMMA QuietRefines ==
    ASSUME Known, PartsInv,
           \/ \E id \in OpIds :
                 \/ GetReader(id) \/ ReleaseLock(id) \/ WorkerPush(id)
                 \/ \E object \in {"stream", "reader", "released"} : Collect(id, object)
           \/ SweepBegins \/ PollTakes \/ PollEnds
           \/ CreateStreamFails \/ CloseFlag \/ UNCHANGED vars
    PROVE  PartsInv' /\ UNCHANGED Abstract!vars
<1>1. UNCHANGED <<blob, ops, errors, jobs, promise, reads, table, nextId>>
  BY DEF GetReader, ReleaseLock, Collect, objectsOnly, WorkerPush, PushChunk, SweepBegins,
         PollTakes, TakeChunks, PollEnds, CreateStreamFails, ReserveFails, CloseFlag, vars,
         streamVars, bridgeVars
<1>2. \A x \in OpIds : stream'[x].loaded = stream[x].loaded
  <2>1. CASE SweepBegins
    <3>1. stream' = [id \in OpIds |-> IF id \in ops THEN Synced(id) ELSE stream[id]]
      BY <2>1 DEF SweepBegins
    <3>2. \A x \in OpIds : Synced(x).loaded = stream[x].loaded
      BY StreamTypes DEF Known, Synced, Stream
    <3> QED
      BY <3>1, <3>2
  <2>2. ASSUME NEW id \in OpIds, GetReader(id) \/ ReleaseLock(id)
        PROVE  \A x \in OpIds : stream'[x].loaded = stream[x].loaded
    <3>1. PICK locked, registered \in BOOLEAN :
             \/ stream' = [stream EXCEPT ![id].locked = locked, ![id].readerReg = registered]
             \/ stream' = stream
      BY <2>2 DEF GetReader, ReleaseLock
    <3>2. stream \in [OpIds -> Stream]
      BY DEF Known, TypeOK
    <3>3. ASSUME NEW x \in OpIds PROVE stream'[x].loaded = stream[x].loaded
      <4>1. PICK s \in Stream : s = stream[x]
        BY <3>2
      <4>2. [s EXCEPT !.locked = locked, !.readerReg = registered].loaded = s.loaded
        BY DEF Stream
      <4>3. stream'[x] = s \/ stream'[x] = [s EXCEPT !.locked = locked, !.readerReg = registered]
        BY <3>1, <3>2, <4>1
      <4> QED
        BY <4>1, <4>2, <4>3
    <3> QED
      BY <3>3
  <2>3. CASE stream' = stream
    BY <2>3
  <2> QED
    BY <2>1, <2>2, <2>3 DEF Collect, objectsOnly, WorkerPush, PollTakes, PollEnds,
       CreateStreamFails, CloseFlag, vars, streamVars
<1>3. \A x \in ops : stream'[x].loaded = stream[x].loaded
  BY <1>2 DEF Known, TypeOK
<1> QED
  BY <1>1, <1>3, Unseen, UnseenKeeps

\* A fresh runtime has given nothing.
LEMMA InitRefines == Init => PartsInv /\ Abstract!Init
<1> SUFFICES ASSUME Init PROVE PartsInv /\ Abstract!Init
  OBVIOUS
<1>1. /\ jobs = << >> /\ table = {} /\ ops = {} /\ errors = {} /\ nextId = 1
      /\ blob = [id \in OpIds |-> NoBlob] /\ reads = [c \in Calls |-> 0]
      /\ promise = [c \in Calls |-> Waiting]
  BY DEF Init, BridgeInit
<1>2. PartsInv
  <2>1. InOrder /\ Oldest
    BY <1>1 DEF InOrder, Oldest
  <2>2. Opened
    BY <1>1, BridgeAssumption DEF Opened, OpIds
  <2> QED
    BY <1>1, <2>1, <2>2 DEF PartsInv
<1>3. \A c \in Calls : AnswerOf(c) = Waiting
  BY <1>1 DEF AnswerOf
<1>4. \A id \in OpIds : Fed(id) = {}
  BY <1>3 DEF Fed, Waiting, Answer
<1>5. /\ GivenNow = [id \in OpIds |-> 0] /\ OutcomeNow = [c \in Calls |-> Waiting]
      /\ SettledNow = {} /\ YieldNow = [id \in OpIds |-> 0]
  <2>1. GivenNow = [id \in OpIds |-> 0]
    BY <1>4, FS_EmptySet DEF GivenNow
  <2> QED
    BY <1>1, <1>3, <2>1 DEF OutcomeNow, SettledNow, YieldNow
<1>6. StateNow = [id \in OpIds |-> "unopened"]
  <2>1. \A id \in OpIds : StateOf(id) = "unopened"
    BY <1>1 DEF StateOf
  <2> QED
    BY <2>1 DEF StateNow
<1> QED
  BY <1>1, <1>2, <1>5, <1>6
     DEF Abstract!Init, Abstract!Waiting, Abstract!Answer, Abstract!NoStream, Waiting, Answer

\* Every step is a step of the abstract stream or is not seen.
LEMMA NextRefines ==
    ASSUME Known, Known', PartsInv, [Next]_vars
    PROVE  PartsInv' /\ ([Abstract!Next]_(Abstract!vars))
<1>1. CASE CreateStream
  BY <1>1, CreateStreamRefines DEF Abstract!Next
<1>2. CASE SettleOne
  BY <1>2, SettleOneRefines
<1>3. CASE RunJob
  BY <1>3, RunJobRefines DEF Abstract!Next
<1>4. CASE CloseBridge
  BY <1>4, CloseBridgeRefines DEF Abstract!Next
<1>5. ASSUME NEW id \in OpIds, Read(id) PROVE PartsInv' /\ Abstract!Next
  BY <1>5, ReadRefines DEF Abstract!Next
<1>6. ASSUME NEW id \in OpIds, Cancel(id) PROVE PartsInv' /\ Abstract!Next
  BY <1>6, CancelRefines DEF Abstract!Next
<1>7. ASSUME NEW id \in OpIds, Abandon(id) PROVE PartsInv' /\ Abstract!Next
  BY <1>7, AbandonRefines DEF Abstract!Next
<1>8. CASE \/ \E id \in OpIds :
                 \/ GetReader(id) \/ ReleaseLock(id) \/ WorkerPush(id)
                 \/ \E object \in {"stream", "reader", "released"} : Collect(id, object)
           \/ SweepBegins \/ PollTakes \/ PollEnds
           \/ CreateStreamFails \/ CloseFlag \/ UNCHANGED vars
  BY <1>8, QuietRefines
<1> QED
  BY <1>1, <1>2, <1>3, <1>4, <1>5, <1>6, <1>7, <1>8 DEF Next, Script, Poll

\* Streams keep their promise to the script: parts in order and without gaps to
\* the calls in order, then done, errors replayed, each promise once
\* (reader_read, settle_stream_completion, cancel_shared, fail_stream_with).
THEOREM StreamsKeepTheirPromise == Spec => StreamPromise
<1>1. TypeOK /\ IInv => Known
  BY AnswersKnown DEF Known
<1>2. Spec => []Known
  BY <1>1, Invariant, PTL
<1>3. Init => PartsInv /\ Abstract!Init
  BY InitRefines
<1>4. Known /\ Known' /\ PartsInv /\ [Next]_vars => PartsInv' /\ [Abstract!Next]_(Abstract!vars)
  BY NextRefines
<1> QED
  BY <1>2, <1>3, <1>4, PTL DEF Spec, StreamPromise, Abstract!Spec

=============================================================================
