-------------------------- MODULE FileReaderProofs --------------------------
(***************************************************************************)
(* Theorems about FileReaderAsync, for every value of its constants: an    *)
(* operation's entry, payload, slot and counter go together, a live read   *)
(* is at exactly one place on its way, no event starts after shutdown, and *)
(* readers keep the event grammar of FileReaderEvents.                     *)
(***************************************************************************)
EXTENDS FileReaderAsync, FiniteSetTheorems, TLAPS

-----------------------------------------------------------------------------
(* Sequences.                                                               *)

\* What concatenation returns.
LEMMA ConcatFacts ==
    ASSUME NEW S, NEW s \in Seq(S), NEW t \in Seq(S)
    PROVE  /\ s \o t \in Seq(S)
           /\ Len(s \o t) = Len(s) + Len(t)
           /\ \A i \in 1 .. Len(s) : (s \o t)[i] = s[i]
           /\ \A i \in 1 .. Len(t) : (s \o t)[Len(s) + i] = t[i]
OBVIOUS

\* An element of a concatenation is from one of its parts.
LEMMA ConcatElements ==
    ASSUME NEW S, NEW s \in Seq(S), NEW t \in Seq(S), NEW i \in 1 .. Len(s \o t)
    PROVE  \/ i \in 1 .. Len(s) /\ (s \o t)[i] = s[i]
           \/ \E j \in 1 .. Len(t) : i = Len(s) + j /\ (s \o t)[i] = t[j]
<1>1. Len(s) \in Nat /\ Len(t) \in Nat /\ i \in Nat
  BY ConcatFacts
<1>2. CASE i <= Len(s)
  BY <1>1, <1>2, ConcatFacts
<1>3. CASE i > Len(s)
  <2>1. i - Len(s) \in 1 .. Len(t) /\ i = Len(s) + (i - Len(s))
    BY <1>1, <1>3, ConcatFacts
  <2> QED
    BY <2>1, ConcatFacts
<1> QED
  BY <1>1, <1>2, <1>3

\* What Append returns.
LEMMA AppendFacts ==
    ASSUME NEW S, NEW s \in Seq(S), NEW e \in S
    PROVE  /\ Append(s, e) \in Seq(S)
           /\ Len(Append(s, e)) = Len(s) + 1
           /\ \A i \in 1 .. Len(s) : Append(s, e)[i] = s[i]
           /\ Append(s, e)[Len(s) + 1] = e
OBVIOUS

\* The elements of a sequence have its type.
LEMMA ElementsTyped ==
    ASSUME NEW S, NEW s \in Seq(S), NEW i \in 1 .. Len(s) PROVE s[i] \in S
OBVIOUS

\* What Head and Tail return.
LEMMA TailFacts ==
    ASSUME NEW S, NEW s \in Seq(S), s # << >>
    PROVE  /\ Len(s) >= 1
           /\ Head(s) = s[1] /\ Head(s) \in S
           /\ Tail(s) \in Seq(S)
           /\ Len(Tail(s)) = Len(s) - 1
           /\ \A i \in 1 .. Len(s) - 1 : Tail(s)[i] = s[i + 1]
OBVIOUS

\* What is left of a sequence without one element is from it.
LEMMA RemoveAtFacts ==
    ASSUME NEW S, NEW s \in Seq(S), NEW i \in 1 .. Len(s)
    PROVE  /\ RemoveAt(s, i) \in Seq(S)
           /\ Len(RemoveAt(s, i)) = Len(s) - 1
           /\ \A j \in 1 .. Len(s) - 1 : \E k \in 1 .. Len(s) : RemoveAt(s, i)[j] = s[k]
<1>0. Len(s) \in Nat /\ i \in Nat /\ i >= 1 /\ i <= Len(s)
  OBVIOUS
<1>1. PICK a : a = SubSeq(s, 1, i - 1)
  OBVIOUS
<1>2. PICK b : b = SubSeq(s, i + 1, Len(s))
  OBVIOUS
<1>6. a \in Seq(S) /\ Len(a) = i - 1 /\ \A j \in 1 .. i - 1 : a[j] = s[j]
  BY <1>0, <1>1
<1>7. b \in Seq(S) /\ Len(b) = Len(s) - i /\ \A j \in 1 .. Len(s) - i : b[j] = s[j + i]
  BY <1>0, <1>2
<1>3. RemoveAt(s, i) = a \o b
  BY <1>1, <1>2 DEF RemoveAt
<1>8. a \o b \in Seq(S) /\ Len(a \o b) = Len(a) + Len(b)
  <2>1. a \in Seq(S)
    BY <1>6
  <2>2. b \in Seq(S)
    BY <1>7
  <2> QED
    BY <2>1, <2>2
<1>4. a \o b \in Seq(S) /\ Len(a \o b) = Len(s) - 1
  BY <1>0, <1>6, <1>7, <1>8
<1>9. /\ \A x \in 1 .. Len(a) : (a \o b)[x] = a[x]
      /\ \A x \in 1 .. Len(b) : (a \o b)[Len(a) + x] = b[x]
  <2>1. a \in Seq(S) /\ b \in Seq(S)
    BY <1>6, <1>7
  <2> QED
    BY ONLY <2>1, ConcatFacts
<1>5. ASSUME NEW j \in 1 .. Len(s) - 1 PROVE \E k \in 1 .. Len(s) : (a \o b)[j] = s[k]
  <2>1. CASE j <= i - 1
    <3>1. j \in 1 .. i - 1 /\ j \in 1 .. Len(a)
      BY <1>0, <1>6, <2>1
    <3>2. (a \o b)[j] = s[j]
      BY ONLY <3>1, <1>6, <1>9
    <3> QED
      BY <1>0, <3>2
  <2>2. CASE ~(j <= i - 1)
    <3>1. PICK x \in 1 .. Len(s) - i : j = Len(a) + x
      <4>1. j - Len(a) \in 1 .. Len(s) - i /\ j = Len(a) + (j - Len(a))
        BY <1>0, <1>6, <2>2
      <4> QED
        BY ONLY <4>1
    <3>2. (a \o b)[j] = s[x + i]
      BY ONLY <3>1, <1>7, <1>9
    <3>3. x + i \in 1 .. Len(s)
      BY <1>0, <3>1
    <3> QED
      BY <3>2, <3>3
  <2> QED
    BY ONLY <2>1, <2>2
<1> QED
  BY <1>3, <1>4, <1>5

-----------------------------------------------------------------------------
(* The bridge.                                                              *)

\* Operation ids are positive numbers, and there are finitely many.
LEMMA IdsAreNumbers ==
    /\ \A id \in OpIds : id \in Nat /\ id # 0
    /\ \A S \in SUBSET OpIds : IsFiniteSet(S)
<1>1. IsFiniteSet(OpIds)
  BY FS_Interval, BridgeAssumption DEF OpIds
<1>2. \A S \in SUBSET OpIds : IsFiniteSet(S)
  BY <1>1, FS_Subset
<1>3. \A id \in OpIds : id \in Nat /\ id # 0
  BY BridgeAssumption DEF OpIds
<1> QED
  BY <1>2, <1>3

\* The critical sections that readers use keep the bridge well typed.
LEMMA BridgeStepTypes ==
    ASSUME BridgeTypeOK, flagShut' \in BOOLEAN,
           \/ \E id : Reserve(id)
           \/ ReserveFails
           \/ ReserveAndReturn
           \/ \E id \in OpIds : Unreserve(id) /\ cancelled' \subseteq OpIds
           \/ \E id \in OpIds : PushChunk(id)
           \/ \E drained : TakeChunks(drained)
           \/ ShutdownBridge
           \/ UNCHANGED bridgeVars
    PROVE  BridgeTypeOK'
<1>1. ASSUME NEW id, Reserve(id) PROVE BridgeTypeOK'
  BY <1>1, BridgeAssumption DEF BridgeTypeOK, Reserve, OpIds
<1>2. CASE ReserveFails
  <2>1. MayDrawId \in BOOLEAN
    BY DEF MayDrawId
  <2> QED
    BY <1>2, <2>1 DEF BridgeTypeOK, ReserveFails
<1>3. ASSUME NEW id \in OpIds, Unreserve(id), cancelled' \subseteq OpIds PROVE BridgeTypeOK'
  <2>1. CASE id \in tokens
    <3>1. active' \in Nat
      BY <1>3, <2>1 DEF BridgeTypeOK, Unreserve
    <3>2. /\ completions' \in [OpIds -> Outcomes \cup {"none"}]
          /\ chunkQueue' \in [OpIds -> Nat]
      BY <1>3, <2>1 DEF BridgeTypeOK, Unreserve
    <3> QED
      BY <1>3, <2>1, <3>1, <3>2 DEF BridgeTypeOK, Unreserve
  <2> QED
    BY <1>3, <2>1 DEF BridgeTypeOK, Unreserve
<1>4. ASSUME NEW id \in OpIds, PushChunk(id) PROVE BridgeTypeOK'
  <2>1. chunkQueue' \in [OpIds -> Nat]
    BY <1>4 DEF BridgeTypeOK, PushChunk
  <2> QED
    BY <1>4, <2>1 DEF BridgeTypeOK, PushChunk
<1>5. ASSUME NEW drained, TakeChunks(drained) PROVE BridgeTypeOK'
  <2>1. chunkQueue' \in [OpIds -> Nat] /\ woken' \in BOOLEAN
    BY <1>5 DEF BridgeTypeOK, TakeChunks
  <2> QED
    BY <1>5, <2>1 DEF BridgeTypeOK, TakeChunks
<1>6. CASE ShutdownBridge
  <2>1. /\ completions' \in [OpIds -> Outcomes \cup {"none"}]
        /\ chunkQueue' \in [OpIds -> Nat]
    BY <1>6 DEF ShutdownBridge
  <2> QED
    BY <1>6, <2>1 DEF BridgeTypeOK, ShutdownBridge
<1>7. CASE UNCHANGED bridgeVars
  BY <1>7 DEF BridgeTypeOK, bridgeVars
<1>8. CASE ReserveAndReturn
  BY <1>8, BridgeAssumption DEF BridgeTypeOK, ReserveAndReturn
<1> QED
  BY <1>1, <1>2, <1>3, <1>4, <1>5, <1>6, <1>7, <1>8

-----------------------------------------------------------------------------
(* Jobs and frames: sequences of records with an operation.                 *)

Members(s) == {s[i] : i \in 1 .. Len(s)}

\* The operations that jobs or frames are about.
OpsOf(s) == {s[i].op : i \in 1 .. Len(s)}

\* No two of them are about one operation.
UniqueOps(s) ==
    \A i \in 1 .. Len(s), j \in 1 .. Len(s) : s[i].op = s[j].op /\ s[i].op # NoOp => i = j

\* Two queues without an operation in common, one behind the other.
LEMMA ConcatOps ==
    ASSUME NEW S, NEW s \in Seq(S), NEW t \in Seq(S), UniqueOps(s), UniqueOps(t),
           OpsOf(s) \cap OpsOf(t) \subseteq {NoOp}
    PROVE  /\ s \o t \in Seq(S) /\ UniqueOps(s \o t)
           /\ Members(s \o t) = Members(s) \cup Members(t)
           /\ OpsOf(s \o t) = OpsOf(s) \cup OpsOf(t)
<1>1. /\ s \o t \in Seq(S)
      /\ Len(s \o t) = Len(s) + Len(t) /\ Len(s) \in Nat /\ Len(t) \in Nat
      /\ \A i \in 1 .. Len(s) : (s \o t)[i] = s[i]
      /\ \A i \in 1 .. Len(t) : (s \o t)[Len(s) + i] = t[i]
  BY ConcatFacts
<1>2. PICK c : c = s \o t
  OBVIOUS
<1>3. /\ \A i \in 1 .. Len(s) : i \in 1 .. Len(c) /\ c[i] = s[i]
      /\ \A i \in 1 .. Len(t) : Len(s) + i \in 1 .. Len(c) /\ c[Len(s) + i] = t[i]
  BY <1>1, <1>2
<1>4. ASSUME NEW i \in 1 .. Len(c)
      PROVE  \/ i \in 1 .. Len(s) /\ c[i] = s[i]
             \/ \E j \in 1 .. Len(t) : i = Len(s) + j /\ c[i] = t[j]
  <2>1. i \in 1 .. Len(s \o t)
    BY <1>2
  <2>2. \/ i \in 1 .. Len(s) /\ (s \o t)[i] = s[i]
        \/ \E j \in 1 .. Len(t) : i = Len(s) + j /\ (s \o t)[i] = t[j]
    BY <2>1, ConcatElements
  <2> QED
    BY <1>2, <2>2
<1>5. Members(c) = Members(s) \cup Members(t)
  <2>1. ASSUME NEW e \in Members(c) PROVE e \in Members(s) \cup Members(t)
    BY <1>4 DEF Members
  <2>2. ASSUME NEW e \in Members(s) \cup Members(t) PROVE e \in Members(c)
    BY <1>3 DEF Members
  <2> QED
    BY <2>1, <2>2
<1>6. OpsOf(c) = OpsOf(s) \cup OpsOf(t)
  <2>1. ASSUME NEW e \in OpsOf(c) PROVE e \in OpsOf(s) \cup OpsOf(t)
    BY <1>4 DEF OpsOf
  <2>2. ASSUME NEW e \in OpsOf(s) \cup OpsOf(t) PROVE e \in OpsOf(c)
    <3>1. CASE e \in OpsOf(s)
      BY <1>3, <3>1 DEF OpsOf
    <3>2. CASE e \in OpsOf(t)
      BY <1>3, <3>2 DEF OpsOf
    <3> QED
      BY <2>2, <3>1, <3>2
  <2> QED
    BY <2>1, <2>2
<1>7. \A k \in 1 .. Len(s), l \in 1 .. Len(t) : s[k].op = t[l].op => s[k].op = NoOp
  BY DEF OpsOf
<1>8. ASSUME NEW i \in 1 .. Len(c), NEW j \in 1 .. Len(c), c[i].op = c[j].op, c[i].op # NoOp
      PROVE  i = j
  <2>1. CASE i \in 1 .. Len(s) /\ c[i] = s[i]
    <3>1. CASE j \in 1 .. Len(s) /\ c[j] = s[j]
      BY <1>8, <2>1, <3>1 DEF UniqueOps
    <3>2. CASE \E l \in 1 .. Len(t) : j = Len(s) + l /\ c[j] = t[l]
      BY <1>7, <1>8, <2>1, <3>2
    <3> QED
      BY <1>4, <3>1, <3>2
  <2>2. CASE \E l \in 1 .. Len(t) : i = Len(s) + l /\ c[i] = t[l]
    <3>1. CASE j \in 1 .. Len(s) /\ c[j] = s[j]
      BY <1>7, <1>8, <2>2, <3>1
    <3>2. CASE \E l \in 1 .. Len(t) : j = Len(s) + l /\ c[j] = t[l]
      BY <1>8, <2>2, <3>2 DEF UniqueOps
    <3> QED
      BY <1>4, <3>1, <3>2
  <2> QED
    BY <1>4, <2>1, <2>2
<1>9. UniqueOps(c)
  BY <1>8 DEF UniqueOps
<1> QED
  BY <1>1, <1>2, <1>5, <1>6, <1>9

\* A queue of one.
LEMMA OneOps ==
    ASSUME NEW S, NEW e \in S
    PROVE  /\ <<e>> \in Seq(S) /\ UniqueOps(<<e>>)
           /\ Members(<<e>>) = {e} /\ OpsOf(<<e>>) = {e.op}
<1>1. <<e>> \in Seq(S) /\ Len(<<e>>) = 1 /\ <<e>>[1] = e
  OBVIOUS
<1>2. PICK s : s = <<e>>
  OBVIOUS
<1>3. Len(s) = 1 /\ s[1] = e
  BY <1>1, <1>2
<1>4. 1 .. Len(s) = {1}
  BY <1>3
<1>5. Members(s) = {e} /\ OpsOf(s) = {e.op}
  BY <1>3, <1>4 DEF Members, OpsOf
<1>6. UniqueOps(s)
  BY <1>4 DEF UniqueOps
<1> QED
  BY <1>1, <1>2, <1>5, <1>6

\* An empty queue.
LEMMA NoneOps ==
    Members(<< >>) = {} /\ OpsOf(<< >>) = {} /\ UniqueOps(<< >>)
<1>1. 1 .. Len(<< >>) = {}
  OBVIOUS
<1> QED
  BY <1>1 DEF Members, OpsOf, UniqueOps

\* An entry behind a queue.
LEMMA AppendOps ==
    ASSUME NEW S, NEW s \in Seq(S), NEW e \in S, UniqueOps(s), e.op = NoOp \/ e.op \notin OpsOf(s)
    PROVE  /\ Append(s, e) \in Seq(S) /\ UniqueOps(Append(s, e))
           /\ Members(Append(s, e)) = Members(s) \cup {e}
           /\ OpsOf(Append(s, e)) = OpsOf(s) \cup {e.op}
<1>1. PICK t : t = <<e>>
  OBVIOUS
<1>2. t \in Seq(S) /\ UniqueOps(t) /\ Members(t) = {e} /\ OpsOf(t) = {e.op}
  BY <1>1, OneOps
<1>3. OpsOf(s) \cap OpsOf(t) \subseteq {NoOp}
  BY <1>2
<1>4. /\ s \o t \in Seq(S) /\ UniqueOps(s \o t)
      /\ Members(s \o t) = Members(s) \cup Members(t)
      /\ OpsOf(s \o t) = OpsOf(s) \cup OpsOf(t)
  BY <1>2, <1>3, ConcatOps
<1>5. Append(s, e) = s \o t
  BY <1>1
<1> QED
  BY <1>2, <1>4, <1>5

\* An entry above a stack.
LEMMA PushOps ==
    ASSUME NEW S, NEW s \in Seq(S), NEW e \in S, UniqueOps(s), e.op = NoOp \/ e.op \notin OpsOf(s)
    PROVE  /\ <<e>> \o s \in Seq(S) /\ UniqueOps(<<e>> \o s)
           /\ Members(<<e>> \o s) = Members(s) \cup {e}
           /\ OpsOf(<<e>> \o s) = OpsOf(s) \cup {e.op}
           /\ Len(<<e>> \o s) = Len(s) + 1
<1>1. PICK t : t = <<e>>
  OBVIOUS
<1>2. t \in Seq(S) /\ UniqueOps(t) /\ Members(t) = {e} /\ OpsOf(t) = {e.op} /\ Len(t) = 1
  BY <1>1, OneOps
<1>3. OpsOf(t) \cap OpsOf(s) \subseteq {NoOp}
  BY <1>2
<1>4. /\ t \o s \in Seq(S) /\ UniqueOps(t \o s)
      /\ Members(t \o s) = Members(t) \cup Members(s)
      /\ OpsOf(t \o s) = OpsOf(t) \cup OpsOf(s)
  BY <1>2, <1>3, ConcatOps
<1>5. Len(t \o s) = Len(t) + Len(s) /\ Len(s) \in Nat
  <2>1. t \in Seq(S)
    BY <1>2
  <2> QED
    BY ONLY <2>1, s \in Seq(S), ConcatFacts
<1> QED
  BY <1>1, <1>2, <1>4, <1>5

\* A queue without its first entry.
LEMMA TailOps ==
    ASSUME NEW S, NEW s \in Seq(S), s # << >>, UniqueOps(s)
    PROVE  /\ Head(s) \in S /\ Head(s) \in Members(s) /\ Head(s).op \in OpsOf(s)
           /\ Tail(s) \in Seq(S) /\ UniqueOps(Tail(s))
           /\ Members(Tail(s)) \subseteq Members(s)
           /\ OpsOf(s) = OpsOf(Tail(s)) \cup {Head(s).op}
           /\ Head(s).op = NoOp \/ Head(s).op \notin OpsOf(Tail(s))
           /\ Len(Tail(s)) = Len(s) - 1
<1>1. PICK t, h : t = Tail(s) /\ h = Head(s)
  OBVIOUS
<1>2. /\ h = s[1] /\ h \in S /\ Len(s) >= 1
      /\ t \in Seq(S) /\ Len(t) = Len(s) - 1
      /\ \A i \in 1 .. Len(s) - 1 : t[i] = s[i + 1]
  BY <1>1, TailFacts
<1>3. Len(s) \in Nat /\ 1 \in 1 .. Len(s)
  BY <1>2
<1>4. \A i \in 1 .. Len(t) : i + 1 \in 1 .. Len(s) /\ t[i] = s[i + 1]
  BY <1>2, <1>3
<1>5. \A i \in 1 .. Len(s) : i # 1 => i - 1 \in 1 .. Len(t) /\ t[i - 1] = s[i]
  BY <1>2, <1>3
<1>6. h \in Members(s) /\ h.op \in OpsOf(s)
  BY <1>2, <1>3 DEF Members, OpsOf
<1>7. Members(t) \subseteq Members(s) /\ OpsOf(t) \subseteq OpsOf(s)
  BY <1>4 DEF Members, OpsOf
<1>8. ASSUME NEW e \in OpsOf(s), e # h.op PROVE e \in OpsOf(t)
  <2>1. PICK i \in 1 .. Len(s) : e = s[i].op
    BY DEF OpsOf
  <2>2. i # 1
    BY <1>2, <1>8, <2>1
  <2> QED
    BY <1>5, <2>1, <2>2 DEF OpsOf
<1>9. OpsOf(s) = OpsOf(t) \cup {h.op}
  BY <1>6, <1>7, <1>8
<1>10. UniqueOps(t)
  <2>1. ASSUME NEW i \in 1 .. Len(t), NEW j \in 1 .. Len(t), t[i].op = t[j].op, t[i].op # NoOp
        PROVE  i = j
    <3>1. i + 1 = j + 1
      BY <1>4, <2>1 DEF UniqueOps
    <3> QED
      BY <1>2, <3>1
  <2> QED
    BY <2>1 DEF UniqueOps
<1>11. ASSUME h.op # NoOp, h.op \in OpsOf(t) PROVE FALSE
  <2>1. PICK i \in 1 .. Len(t) : h.op = t[i].op
    BY <1>11 DEF OpsOf
  <2>2. i + 1 = 1
    BY <1>2, <1>3, <1>4, <1>11, <2>1 DEF UniqueOps
  <2> QED
    BY <1>2, <2>2
<1> QED
  BY <1>1, <1>2, <1>6, <1>7, <1>9, <1>10, <1>11

-----------------------------------------------------------------------------
(* Types.                                                                   *)

\* Offsets and generations are numbers.
LEMMA DataTypes ==
    /\ \A n \in Offsets : n \in Nat
    /\ 0 \in Offsets
    /\ \A n \in Sizes \cup {0} : n \in Nat
    /\ \A n \in Sizes \cup {0}, k \in Nat : k <= n => k \in Offsets
    /\ \A g \in Generations : g \in Nat
    /\ FirstPump \in Pump
    /\ NoOp \notin OpIds /\ NoOp \notin Operation /\ NoOp \notin Pump
<1>1. \A n \in Sizes \cup {0} : n \in Nat
  BY ReaderAssumption
<1>2. \A n \in Offsets : n \in Nat
  BY <1>1 DEF Offsets
<1>3. 0 \in Offsets
  BY DEF Offsets
<1>4. ASSUME NEW n \in Sizes \cup {0}, NEW k \in Nat, k <= n PROVE k \in Offsets
  <2>1. n \in Nat
    BY <1>1
  <2>2. CASE n \in Sizes
    BY <1>4, <2>1, <2>2 DEF Offsets
  <2>3. CASE n = 0
    BY <1>4, <2>3 DEF Offsets
  <2> QED
    BY <1>4, <2>2, <2>3
<1>5. \A g \in Generations : g \in Nat
  BY ReaderAssumption DEF Generations
<1>6. FirstPump \in Pump
  BY <1>3 DEF FirstPump, Pump
<1>7. NoOp \notin OpIds /\ NoOp \notin Operation /\ NoOp \notin Pump
  BY NoOpAssumption
<1> QED
  BY <1>1, <1>2, <1>3, <1>4, <1>5, <1>6, <1>7

\* What TypeOK says of one reader.
LEMMA ReaderTypes ==
    ASSUME TypeOK, NEW r \in Readers
    PROVE  native[r] \in Native /\ native[r].gen \in Nat /\ nextGen \in Nat
<1>1. native[r] \in Native
  BY DEF TypeOK
<1> QED
  BY <1>1, DataTypes, ReaderAssumption DEF Native, TypeOK

\* What TypeOK says of one operation.
LEMMA OpTypes ==
    ASSUME TypeOK, NEW op \in OpIds
    PROVE  /\ requests[op] \in Seq(Offsets) /\ Len(requests[op]) \in Nat
           /\ landed[op] \in Seq(Kinds) /\ Len(landed[op]) \in Nat
           /\ Len(landed[op]) = chunkQueue[op]
           /\ size[op] \in Sizes \cup {0} /\ size[op] \in Nat
           /\ pumps[op] # NoOp => /\ pumps[op] \in Pump
                                  /\ pumps[op].loaded \in Nat /\ pumps[op].loaded \in Offsets
                                  /\ pumps[op].started \in BOOLEAN
           /\ pending[op] # NoOp => /\ pending[op] \in Operation
                                    /\ pending[op].reader \in Readers
                                    /\ pending[op].gen \in Nat /\ pending[op].gen \in Generations
<1>1. requests[op] \in Seq(Offsets) /\ landed[op] \in Seq(Kinds)
  BY DEF TypeOK
<1>2. size[op] \in Sizes \cup {0}
  BY DEF TypeOK
<1>3. pumps[op] \in Pump \cup {NoOp} /\ pending[op] \in Operation \cup {NoOp}
  BY DEF TypeOK
<1>4. ASSUME pumps[op] # NoOp
      PROVE  /\ pumps[op] \in Pump
             /\ pumps[op].loaded \in Nat /\ pumps[op].loaded \in Offsets
             /\ pumps[op].started \in BOOLEAN
  BY <1>3, <1>4, DataTypes DEF Pump
<1>5. ASSUME pending[op] # NoOp
      PROVE  /\ pending[op] \in Operation
             /\ pending[op].reader \in Readers
             /\ pending[op].gen \in Nat /\ pending[op].gen \in Generations
  BY <1>3, <1>5, DataTypes DEF Operation
<1>6. Len(requests[op]) \in Nat /\ Len(landed[op]) \in Nat
  BY <1>1
<1>7. Len(landed[op]) = chunkQueue[op]
  BY DEF TypeOK
<1> QED
  BY <1>1, <1>2, <1>4, <1>5, <1>6, <1>7, DataTypes

\* What the type of a job says.
LEMMA JobTypes ==
    ASSUME NEW job \in Job
    PROVE  /\ job.reader \in Readers /\ job.gen \in Generations /\ job.gen \in Nat
           /\ job.op \in OpIds \cup {NoOp} /\ job.chunk \in Kinds
           /\ job.does \in {"pump", "load", "error", "loadend"}
           /\ job.pump \in Pump /\ job.pump.loaded \in Nat /\ job.pump.loaded \in Offsets
           /\ job.pump.started \in BOOLEAN
<1>1. /\ job.reader \in Readers /\ job.gen \in Generations /\ job.pump \in Pump
      /\ job.op \in OpIds \cup {NoOp} /\ job.chunk \in Kinds
      /\ job.does \in {"pump", "load", "error", "loadend"}
  BY DEF Job
<1>2. job.pump.loaded \in Offsets /\ job.pump.started \in BOOLEAN
  BY <1>1 DEF Pump
<1> QED
  BY <1>1, <1>2, DataTypes

\* What the type of a frame says.
LEMMA FrameTypes ==
    ASSUME NEW frame \in Frame
    PROVE  /\ frame.reader \in Readers /\ frame.gen \in Generations /\ frame.gen \in Nat
           /\ frame.op \in OpIds \cup {NoOp} /\ frame.chunk \in Kinds
           /\ frame.event \in Events
           /\ frame.loaded \in Nat /\ frame.loaded \in Offsets
  BY DataTypes DEF Frame

\* The jobs and frames that the code makes, of an operation or of none.
LEMMA MadeTypes ==
    ASSUME NEW r \in Readers, NEW gen \in Generations
    PROVE  /\ \A op \in OpIds, pump \in Pump, chunk \in Kinds :
                 PumpJob(r, gen, op, pump, chunk) \in Job
           /\ \A event \in {"load", "error", "loadend"} : DispatchJob(event, r, gen) \in Job
           /\ \A op \in OpIds, event \in Events, loaded \in Offsets, chunk \in Kinds :
                 FrameOf(event, r, gen, op, loaded, chunk) \in Frame
           /\ \A event \in Events : PlainFrame(event, r, gen) \in Frame
<1>1. \A op \in OpIds, pump \in Pump, chunk \in Kinds : PumpJob(r, gen, op, pump, chunk) \in Job
  BY DEF PumpJob, Job
<1>2. 0 \in Offsets /\ "eof" \in Kinds /\ FirstPump \in Pump
  BY DataTypes DEF Kinds
<1>3. \A event \in {"load", "error", "loadend"} : DispatchJob(event, r, gen) \in Job
  BY <1>2 DEF DispatchJob, Job
<1>4. \A op \in OpIds, event \in Events, loaded \in Offsets, chunk \in Kinds :
         FrameOf(event, r, gen, op, loaded, chunk) \in Frame
  BY DEF FrameOf, Frame
<1>5. \A event \in Events : PlainFrame(event, r, gen) \in Frame
  BY <1>2 DEF PlainFrame, FrameOf, Frame
<1> QED
  BY <1>1, <1>3, <1>4, <1>5

-----------------------------------------------------------------------------
(* The inductive invariant.                                                 *)

Live(op) == pending[op] # NoOp

\* Entry, slot, payload and the counters of the live operations.
SlotInv ==
    /\ tokens = {op \in OpIds : Live(op)}
    /\ order = tokens /\ payloads = tokens
    /\ mirror = active /\ active = Cardinality(tokens)

\* Shutdown leaves no live operation.
ShutInv ==
    /\ boa = "closing" => flagShut
    /\ bridgeShut => flagShut
    /\ flagShut /\ boa # "closing" => \A op \in OpIds : ~Live(op)

\* A reader has one operation at most; generations are drawn once.
OneEach ==
    /\ \A op, other \in OpIds :
          Live(op) /\ Live(other) /\ pending[op].reader = pending[other].reader => op = other
    /\ \A r \in Readers : native[r].gen < nextGen

\* A job or a frame of generation `gen` of reader `r` about `op`: the operation
\* is that read's, and as long as the read is current the operation is live.
Tied(op, r, gen) ==
    /\ Live(op) => pending[op].reader = r /\ pending[op].gen = gen
    /\ IsCurrent(r, gen) /\ ~flagShut => Live(op)

JobFits(job) ==
    /\ job.gen < nextGen
    /\ job.does = "pump" <=> job.op # NoOp
    /\ job.op # NoOp =>
          /\ job.op < nextId
          /\ Tied(job.op, job.reader, job.gen)
          /\ job.chunk = "chunk" => job.pump.loaded < size[job.op]
          /\ ~job.pump.started => job.pump.loaded = 0

FrameFits(frame) ==
    /\ frame.gen < nextGen
    /\ frame.event \in {"loadstart", "progress", "final"} <=> frame.op # NoOp
    /\ frame.op # NoOp =>
          /\ frame.op < nextId
          /\ Tied(frame.op, frame.reader, frame.gen)
          /\ frame.event = "loadstart" /\ frame.chunk = "chunk" => 0 < size[frame.op]
          /\ frame.event = "progress" => frame.loaded < size[frame.op]

\* Jobs and frames, of reads that are current or replaced.
QueuesInv ==
    /\ UniqueOps(jobs) /\ UniqueOps(stack)
    /\ \A job \in Members(jobs) : JobFits(job)
    /\ \A frame \in Members(stack) : FrameFits(frame)
    /\ \A op \in OpIds : ~(op \in OpsOf(jobs) /\ op \in OpsOf(stack))

\* A job or a frame is about `op`.
Queued(op) == op \in OpsOf(jobs) \/ op \in OpsOf(stack)

\* A live operation is the current read of its reader.
ReadAt(op) ==
    Live(op) => /\ native[pending[op].reader].ready = "loading"
                /\ native[pending[op].reader].gen = pending[op].gen

OnTheWay(op) == Len(requests[op]) + Len(landed[op])

\* An operation is at one place at most, and at one if it is live.
PlaceAt(op) ==
    /\ OnTheWay(op) <= 1
    /\ Queued(op) => OnTheWay(op) = 0
    /\ Live(op) /\ ~flagShut => OnTheWay(op) = 1 \/ Queued(op)
    /\ landed[op] # << >> => Live(op)

\* The packaging state waits for what is on its way.
DataAt(op) ==
    /\ pumps[op] # NoOp => /\ pumps[op].loaded <= size[op]
                           /\ ~pumps[op].started => pumps[op].loaded = 0
    /\ Live(op) =>
          /\ OnTheWay(op) > 0 => pumps[op] # NoOp
          /\ \A i \in 1 .. Len(requests[op]) : requests[op][i] = pumps[op].loaded
          /\ \A i \in 1 .. Len(landed[op]) :
                landed[op][i] = "chunk" => pumps[op].loaded < size[op]

NewAt(op) == ~Live(op) /\ requests[op] = << >> /\ pumps[op] = NoOp

OpAt(op) == ReadAt(op) /\ PlaceAt(op) /\ DataAt(op) /\ (op >= nextId => NewAt(op))

IInv ==
    /\ SlotInv /\ ShutInv /\ OneEach /\ QueuesInv
    /\ \A op \in OpIds : OpAt(op)

-----------------------------------------------------------------------------
(* Frames.                                                                  *)

\* Nothing on the way means no request and no completion.
LEMMA ZeroSum ==
    \A a, b \in Nat : /\ a + b = 0 => a = 0 /\ b = 0
                      /\ a + b <= 1 /\ a # 0 => a = 1 /\ b = 0
                      /\ a + b <= 1 /\ b # 0 => a = 0 /\ b = 1
OBVIOUS

\* Counters only grow, and a shutdown stays.
Grows ==
    /\ nextGen' \in {nextGen, nextGen + 1}
    /\ nextId' \in {nextId, nextId + 1}
    /\ flagShut => flagShut'

\* What a job or a frame that stays needs of a step.
Keeps(op, r, gen) ==
    /\ size'[op] = size[op]
    /\ \/ /\ pending'[op] = pending[op]
          /\ IsCurrent(r, gen)' /\ ~flagShut' => IsCurrent(r, gen) /\ ~flagShut
       \/ /\ pending'[op] = NoOp
          /\ ~(IsCurrent(r, gen)' /\ ~flagShut')

\* It stays tied to its read.
LEMMA TiedKeeps ==
    ASSUME NEW op, NEW r, NEW gen, Tied(op, r, gen), Keeps(op, r, gen) PROVE Tied(op, r, gen)'
BY DEF Tied, Keeps, Live

\* A job that stays fits.
LEMMA JobKeeps ==
    ASSUME TypeOK, Grows, NEW job \in Job, JobFits(job),
           job.op # NoOp => Keeps(job.op, job.reader, job.gen)
    PROVE  JobFits(job)'
<1>1. job.gen \in Nat /\ nextGen \in Nat /\ job.op \in OpIds \cup {NoOp}
  BY JobTypes, ReaderAssumption DEF TypeOK
<1>2. nextId \in Nat /\ \A x \in OpIds : x \in Nat
  BY IdsAreNumbers, BridgeAssumption DEF TypeOK, BridgeTypeOK
<1>3. job.gen < nextGen'
  BY <1>1 DEF JobFits, Grows
<1>4. ASSUME job.op # NoOp
      PROVE  /\ job.op < nextId'
             /\ Tied(job.op, job.reader, job.gen)'
             /\ job.chunk = "chunk" => job.pump.loaded < size'[job.op]
             /\ ~job.pump.started => job.pump.loaded = 0
  <2>1. job.op < nextId'
    BY <1>1, <1>2, <1>4 DEF JobFits, Grows
  <2>2. Tied(job.op, job.reader, job.gen)'
    BY <1>4, TiedKeeps DEF JobFits
  <2> QED
    BY <1>4, <2>1, <2>2 DEF JobFits, Keeps
<1> QED
  BY <1>3, <1>4 DEF JobFits

\* A frame that stays fits.
LEMMA FrameKeeps ==
    ASSUME TypeOK, Grows, NEW frame \in Frame, FrameFits(frame),
           frame.op # NoOp => Keeps(frame.op, frame.reader, frame.gen)
    PROVE  FrameFits(frame)'
<1>1. frame.gen \in Nat /\ nextGen \in Nat /\ frame.op \in OpIds \cup {NoOp}
  BY FrameTypes, ReaderAssumption DEF TypeOK
<1>2. nextId \in Nat /\ \A x \in OpIds : x \in Nat
  BY IdsAreNumbers, BridgeAssumption DEF TypeOK, BridgeTypeOK
<1>3. frame.gen < nextGen'
  BY <1>1 DEF FrameFits, Grows
<1>4. ASSUME frame.op # NoOp
      PROVE  /\ frame.op < nextId'
             /\ Tied(frame.op, frame.reader, frame.gen)'
             /\ frame.event = "loadstart" /\ frame.chunk = "chunk" => 0 < size'[frame.op]
             /\ frame.event = "progress" => frame.loaded < size'[frame.op]
  <2>1. frame.op < nextId'
    BY <1>1, <1>2, <1>4 DEF FrameFits, Grows
  <2>2. Tied(frame.op, frame.reader, frame.gen)'
    BY <1>4, TiedKeeps DEF FrameFits
  <2> QED
    BY <1>4, <2>1, <2>2 DEF FrameFits, Keeps
<1> QED
  BY <1>3, <1>4 DEF FrameFits

\* The queues after a step that adds `newJobs` and `newFrames`.
QueuesBecome(newJobs, newFrames) ==
    /\ jobs' \in Seq(Job) /\ UniqueOps(jobs')
    /\ Members(jobs') \subseteq Members(jobs) \cup newJobs
    /\ stack' \in Seq(Frame) /\ UniqueOps(stack')
    /\ Members(stack') \subseteq Members(stack) \cup newFrames
    /\ \A op \in OpIds : ~(op \in OpsOf(jobs') /\ op \in OpsOf(stack'))
    /\ \A job \in newJobs : JobFits(job)'
    /\ \A frame \in newFrames : FrameFits(frame)'

\* Such a step keeps the queues in order.
LEMMA QueuesStep ==
    ASSUME TypeOK, IInv, Grows, NEW newJobs, NEW newFrames, QueuesBecome(newJobs, newFrames),
           \A job \in Members(jobs') :
              job.op # NoOp /\ job \notin newJobs => Keeps(job.op, job.reader, job.gen),
           \A frame \in Members(stack') :
              frame.op # NoOp /\ frame \notin newFrames => Keeps(frame.op, frame.reader, frame.gen)
    PROVE  QueuesInv'
<1>1. ASSUME NEW job \in Members(jobs') PROVE JobFits(job)'
  <2>1. CASE job \in newJobs
    BY <2>1 DEF QueuesBecome
  <2>2. CASE job \notin newJobs
    <3>1. job \in Members(jobs)
      BY <2>2 DEF QueuesBecome
    <3>2. JobFits(job)
      BY <3>1 DEF IInv, QueuesInv
    <3>3. job \in Job
      BY <3>1 DEF Members, TypeOK
    <3> QED
      BY <2>2, <3>2, <3>3, JobKeeps
  <2> QED
    BY <2>1, <2>2
<1>2. ASSUME NEW frame \in Members(stack') PROVE FrameFits(frame)'
  <2>1. CASE frame \in newFrames
    BY <2>1 DEF QueuesBecome
  <2>2. CASE frame \notin newFrames
    <3>1. frame \in Members(stack)
      BY <2>2 DEF QueuesBecome
    <3>2. FrameFits(frame)
      BY <3>1 DEF IInv, QueuesInv
    <3>3. frame \in Frame
      BY <3>1 DEF Members, TypeOK
    <3> QED
      BY <2>2, <3>2, <3>3, FrameKeeps
  <2> QED
    BY <2>1, <2>2
<1> QED
  BY <1>1, <1>2 DEF QueuesInv, QueuesBecome

\* The operation is as it was.
SameOp(op) ==
    /\ pending'[op] = pending[op] /\ pumps'[op] = pumps[op] /\ size'[op] = size[op]
    /\ requests'[op] = requests[op] /\ landed'[op] = landed[op]
    /\ Queued(op)' <=> Queued(op)

\* An operation that a step leaves alone.
LEMMA OpKeeps ==
    ASSUME TypeOK, IInv, Grows, NEW op \in OpIds, SameOp(op),
           Live(op) =>
              /\ native'[pending[op].reader].ready = native[pending[op].reader].ready
              /\ native'[pending[op].reader].gen = native[pending[op].reader].gen
    PROVE  OpAt(op)'
<1>1. OpAt(op)
  BY DEF IInv
<1>2. Live(op)' <=> Live(op)
  BY DEF Live, SameOp
<1>3. ReadAt(op)'
  BY <1>1, <1>2 DEF OpAt, ReadAt, SameOp
<1>4. OnTheWay(op)' = OnTheWay(op)
  BY DEF OnTheWay, SameOp
<1>5. PlaceAt(op)'
  BY <1>1, <1>2, <1>4 DEF OpAt, PlaceAt, SameOp, Grows
<1>6. DataAt(op)'
  BY <1>1, <1>2, <1>4 DEF OpAt, DataAt, SameOp
<1>7. op >= nextId' => NewAt(op)'
  <2>1. op \in Nat /\ nextId \in Nat
    BY IdsAreNumbers, BridgeAssumption DEF TypeOK, BridgeTypeOK
  <2>2. op >= nextId' => op >= nextId
    BY <2>1 DEF Grows
  <2> QED
    BY <1>1, <1>2, <2>2 DEF OpAt, NewAt, SameOp
<1> QED
  BY <1>3, <1>5, <1>6, <1>7 DEF OpAt

\* Steps that leave entries and slots alone.
LEMMA SlotsKeep ==
    ASSUME TypeOK, IInv, UNCHANGED <<pending, payloads, mirror, tokens, order, active>>
    PROVE  SlotInv'
BY DEF IInv, SlotInv, Live

\* Steps that leave entries and the shutdown alone.
LEMMA ShutKeeps ==
    ASSUME TypeOK, IInv, UNCHANGED <<pending, flagShut, bridgeShut, boa>>
    PROVE  ShutInv'
BY DEF IInv, ShutInv, Live

\* Steps that settle nothing and change the state of one operation at most.
LEMMA QuietStep ==
    ASSUME TypeOK, IInv,
           UNCHANGED <<bridgeVars, flagShut, nextGen, mirror, pending, payloads, size, landed, boa>>,
           native' \in [Readers -> Native],
           \A r \in Readers : native'[r].ready = native[r].ready /\ native'[r].gen = native[r].gen,
           last' \in [Readers -> {"none"} \cup Events],
           NEW newJobs, NEW newFrames, QueuesBecome(newJobs, newFrames),
           pumps' \in [OpIds -> Pump \cup {NoOp}], requests' \in [OpIds -> Seq(Offsets)],
           NEW at, \A x \in OpIds \ {at} : SameOp(x), at \in OpIds => OpAt(at)'
    PROVE  TypeOK' /\ IInv'
<1>1. UNCHANGED <<nextId, tokens, order, active, bridgeShut, chunkQueue>>
  BY DEF bridgeVars
<1>2. Grows
  BY <1>1 DEF Grows
<1>3. TypeOK'
  <2>1. BridgeTypeOK'
    BY BridgeStepTypes DEF TypeOK, BridgeTypeOK
  <2>2. jobs' \in Seq(Job) /\ stack' \in Seq(Frame)
    BY DEF QueuesBecome
  <2> QED
    BY <1>1, <2>1, <2>2 DEF TypeOK
<1>4. SlotInv' /\ ShutInv'
  BY <1>1, SlotsKeep, ShutKeeps
<1>5. OneEach'
  BY DEF IInv, OneEach, Live
<1>6. QueuesInv'
  <2>1. ASSUME NEW op \in OpIds, NEW r \in Readers, NEW gen PROVE Keeps(op, r, gen)
    BY DEF Keeps, IsCurrent
  <2>2. ASSUME NEW job \in Members(jobs'), job.op # NoOp, job \notin newJobs
        PROVE  Keeps(job.op, job.reader, job.gen)
    <3>1. job \in Job
      BY DEF QueuesBecome, Members
    <3> QED
      BY <2>1, <2>2, <3>1, JobTypes
  <2>3. ASSUME NEW frame \in Members(stack'), frame.op # NoOp, frame \notin newFrames
        PROVE  Keeps(frame.op, frame.reader, frame.gen)
    <3>1. frame \in Frame
      BY DEF QueuesBecome, Members
    <3> QED
      BY <2>1, <2>3, <3>1, FrameTypes
  <2> QED
    BY <1>2, <2>2, <2>3, QueuesStep
<1>7. ASSUME NEW x \in OpIds PROVE OpAt(x)'
  <2>1. CASE x = at
    BY <2>1
  <2>2. CASE x # at
    <3>1. SameOp(x)
      BY <2>2
    <3>2. Live(x) => pending[x].reader \in Readers
      BY OpTypes DEF Live
    <3> QED
      BY <1>2, <3>1, <3>2, OpKeeps
  <2> QED
    BY <2>1, <2>2
<1> QED
  BY <1>3, <1>4, <1>5, <1>6, <1>7 DEF IInv

\* The end of a live operation: everything that is kept for it goes.
LEMMA ReleaseFacts ==
    ASSUME TypeOK, IInv, NEW op \in OpIds, Live(op), Release(op), cancelled' \subseteq OpIds,
           UNCHANGED flagShut
    PROVE  /\ BridgeTypeOK' /\ SlotInv'
           /\ UNCHANGED <<nextId, bridgeShut>>
           /\ pending' = [pending EXCEPT ![op] = NoOp]
           /\ pending' \in [OpIds -> Operation \cup {NoOp}]
           /\ payloads' \subseteq OpIds /\ mirror' \in Nat
           /\ landed' = [landed EXCEPT ![op] = << >>]
           /\ landed' \in [OpIds -> Seq(Kinds)]
           /\ \A x \in OpIds : Len(landed'[x]) = chunkQueue'[x]
           /\ \A x \in OpIds : Live(x)' <=> Live(x) /\ x # op
<1>1. op \in tokens
  BY DEF IInv, SlotInv
<1>2. /\ pending' = [pending EXCEPT ![op] = NoOp]
      /\ payloads' = payloads \ {op}
      /\ Unreserve(op)
      /\ landed' = [landed EXCEPT ![op] = << >>]
      /\ mirror' = IF mirror > 0 THEN mirror - 1 ELSE 0
  BY DEF Release
<1>3. /\ tokens' = tokens \ {op} /\ order' = order \ {op}
      /\ active' = (IF active > 0 THEN active - 1 ELSE 0)
      /\ chunkQueue' = [chunkQueue EXCEPT ![op] = 0]
      /\ nextId' = nextId /\ bridgeShut' = bridgeShut
  BY <1>1, <1>2 DEF Unreserve
<1>4. BridgeTypeOK'
  BY <1>2, BridgeStepTypes DEF TypeOK, BridgeTypeOK
<1>5. /\ pending' \in [OpIds -> Operation \cup {NoOp}]
      /\ payloads' \subseteq OpIds /\ mirror' \in Nat
      /\ landed' \in [OpIds -> Seq(Kinds)]
  BY <1>2 DEF TypeOK
<1>6. \A x \in OpIds : Len(landed'[x]) = chunkQueue'[x]
  BY <1>2, <1>3 DEF TypeOK, BridgeTypeOK
<1>7. \A x \in OpIds : Live(x)' <=> Live(x) /\ x # op
  BY <1>2 DEF Live, TypeOK
<1>8. SlotInv'
  <2>1. /\ tokens = {x \in OpIds : Live(x)}
        /\ order = tokens /\ payloads = tokens
        /\ mirror = active /\ active = Cardinality(tokens)
    BY DEF IInv, SlotInv
  <2>2. Cardinality(tokens \ {op}) = Cardinality(tokens) - 1 /\ Cardinality(tokens) \in Nat
    <3>1. IsFiniteSet(tokens)
      BY IdsAreNumbers DEF TypeOK, BridgeTypeOK
    <3> QED
      BY <1>1, <3>1, FS_RemoveElement, FS_CardinalityType
  <2>3. Cardinality(tokens) # 0
    <3>1. IsFiniteSet(tokens)
      BY IdsAreNumbers DEF TypeOK, BridgeTypeOK
    <3> QED
      BY <1>1, <3>1, FS_EmptySet
  <2>4. active' = Cardinality(tokens') /\ mirror' = active'
    BY <1>2, <1>3, <2>1, <2>2, <2>3
  <2>5. tokens' = {x \in OpIds : Live(x)'}
    BY <1>3, <1>7, <2>1
  <2>6. order' = tokens' /\ payloads' = tokens'
    BY <1>2, <1>3, <2>1
  <2> QED
    BY <2>4, <2>5, <2>6 DEF SlotInv
<1> QED
  BY <1>2, <1>3, <1>4, <1>5, <1>6, <1>7, <1>8

\* The read of `op` by `r` ends: finish_at_eof and fail_operation.
LEMMA SettleStep ==
    ASSUME TypeOK, IInv, NEW op \in OpIds, Live(op), NEW r \in Readers, NEW gen \in Generations,
           pending[op].reader = r, pending[op].gen = gen,
           NEW event \in {"load", "error"}, NEW queue \in Seq(Job),
           Settles(r, gen, op, event, queue),
           UniqueOps(queue), Members(queue) \subseteq Members(jobs), op \notin OpsOf(queue),
           stack' \in Seq(Frame), UniqueOps(stack'), Members(stack') \subseteq Members(stack),
           op \notin OpsOf(stack'),
           \A x \in OpIds \ {op} :
              /\ x \in OpsOf(queue) <=> x \in OpsOf(jobs)
              /\ x \in OpsOf(stack') <=> x \in OpsOf(stack),
           NEW pump \in Pump \cup {NoOp}, pumps' = [pumps EXCEPT ![op] = pump],
           pump # NoOp => pump.loaded <= size[op] /\ pump.started,
           OnTheWay(op) = 0,
           UNCHANGED <<flagShut, nextGen, size, boa, last>>
    PROVE  TypeOK' /\ IInv'
<1>1. /\ native' = [native EXCEPT ![r] = [ready |-> "done", result |-> event = "load",
                     error |-> event = "error", gen |-> gen, terminal |-> FALSE]]
      /\ Release(op)
      /\ jobs' = Append(queue, DispatchJob(event, r, gen))
      /\ UNCHANGED <<cancelled, requests>>
  BY DEF Settles
<1>2. /\ BridgeTypeOK' /\ SlotInv'
      /\ UNCHANGED <<nextId, bridgeShut>>
      /\ pending' = [pending EXCEPT ![op] = NoOp]
      /\ pending' \in [OpIds -> Operation \cup {NoOp}]
      /\ payloads' \subseteq OpIds /\ mirror' \in Nat
      /\ landed' = [landed EXCEPT ![op] = << >>]
      /\ landed' \in [OpIds -> Seq(Kinds)]
      /\ \A x \in OpIds : Len(landed'[x]) = chunkQueue'[x]
      /\ \A x \in OpIds : Live(x)' <=> Live(x) /\ x # op
  BY <1>1, ReleaseFacts DEF TypeOK, BridgeTypeOK
<1>3. Grows
  BY <1>2 DEF Grows
<1>4. native[r].gen = gen
  BY DEF IInv, OpAt, ReadAt
<1>5. PICK now : now = [ready |-> "done", result |-> event = "load", error |-> event = "error",
                        gen |-> gen, terminal |-> FALSE]
  OBVIOUS
<1>6. now \in Native /\ now.gen = gen
  BY <1>5 DEF Native
<1>7. /\ native' \in [Readers -> Native]
      /\ \A x \in Readers : native'[x].gen = native[x].gen
      /\ \A x \in Readers \ {r} : native'[x] = native[x]
  BY <1>1, <1>4, <1>5, <1>6 DEF TypeOK
<1>8. PICK job : job = DispatchJob(event, r, gen)
  OBVIOUS
<1>9. /\ job \in Job /\ job.op = NoOp /\ job.does # "pump" /\ job.gen = gen
  BY <1>8, MadeTypes DEF DispatchJob
<1>10. /\ jobs' \in Seq(Job) /\ UniqueOps(jobs')
       /\ Members(jobs') = Members(queue) \cup {job}
       /\ OpsOf(jobs') = OpsOf(queue) \cup {NoOp}
  BY <1>1, <1>8, <1>9, AppendOps
<1>11. TypeOK'
  <2>1. pumps' \in [OpIds -> Pump \cup {NoOp}]
    BY DEF TypeOK
  <2> QED
    BY <1>1, <1>2, <1>7, <1>10, <2>1 DEF TypeOK
<1>12. ShutInv'
  BY <1>2 DEF IInv, ShutInv
<1>13. OneEach'
  <2>1. \A x \in OpIds \ {op} : pending'[x] = pending[x]
    BY <1>2
  <2> QED
    BY <1>2, <1>7, <2>1 DEF IInv, OneEach
<1>14. QueuesInv'
  <2>1. job.gen < nextGen
    BY <1>4, <1>9 DEF IInv, OneEach
  <2>2. JobFits(job)'
    BY <1>9, <2>1 DEF JobFits
  <2>3. \A x \in OpIds : ~(x \in OpsOf(jobs') /\ x \in OpsOf(stack'))
    BY <1>10, DataTypes DEF IInv, QueuesInv
  <2>4. QueuesBecome({job}, {})
    BY <1>10, <2>2, <2>3 DEF QueuesBecome
  <2>5. ASSUME NEW x \in OpIds, x # op, NEW y \in Readers, NEW g PROVE Keeps(x, y, g)
    BY <1>2, <1>7, <2>5 DEF Keeps, IsCurrent
  <2>6. ASSUME NEW old \in Members(jobs'), old.op # NoOp, old \notin {job}
        PROVE  Keeps(old.op, old.reader, old.gen)
    <3>1. old \in Members(queue)
      BY <1>10, <2>6
    <3>2. old \in Job /\ old.op # op
      BY <3>1 DEF Members, OpsOf
    <3> QED
      BY <2>5, <2>6, <3>2, JobTypes
  <2>7. ASSUME NEW frame \in Members(stack'), frame.op # NoOp, frame \notin {}
        PROVE  Keeps(frame.op, frame.reader, frame.gen)
    <3>1. frame \in Frame /\ frame.op # op
      BY DEF Members, OpsOf
    <3> QED
      BY <2>5, <2>7, <3>1, FrameTypes
  <2> QED
    BY <1>3, <2>4, <2>6, <2>7, QueuesStep
<1>15. ASSUME NEW x \in OpIds PROVE OpAt(x)'
  <2>1. CASE x = op
    <3>1. ~Live(op)' /\ landed'[op] = << >> /\ pumps'[op] = pump
      BY <1>2 DEF TypeOK
    <3>2. op < nextId'
      <4>1. ~(op >= nextId)
        BY DEF IInv, OpAt, NewAt
      <4> QED
        BY <1>2, <4>1, IdsAreNumbers, BridgeAssumption DEF TypeOK, BridgeTypeOK
    <3>3. ~Queued(op)'
      BY <1>10, DataTypes DEF Queued
    <3>4. OnTheWay(op)' <= 1
      <4>1. Len(requests[op]) = 0 /\ Len(landed'[op]) = 0
        <5>1. Len(requests[op]) \in Nat /\ Len(landed[op]) \in Nat
          BY OpTypes
        <5>2. Len(requests[op]) + Len(landed[op]) = 0
          BY DEF OnTheWay
        <5>3. Len(requests[op]) = 0
          BY <5>1, <5>2, ZeroSum
        <5>4. Len(landed'[op]) = 0
          BY <3>1
        <5> QED
          BY <5>3, <5>4
      <4> QED
        BY <1>1, <4>1 DEF OnTheWay
    <3>5. PlaceAt(op)'
      BY <3>1, <3>3, <3>4 DEF PlaceAt
    <3>6. DataAt(op)'
      BY <3>1 DEF DataAt
    <3>7. op \in Nat /\ nextId' \in Nat
      BY <1>2, IdsAreNumbers, BridgeAssumption DEF BridgeTypeOK
    <3> QED
      BY <2>1, <3>1, <3>2, <3>5, <3>6, <3>7 DEF OpAt, ReadAt
  <2>2. CASE x # op
    <3>1. Queued(x)' <=> Queued(x)
      BY <1>10, <2>2, DataTypes DEF Queued
    <3>2. SameOp(x)
      BY <1>1, <1>2, <2>2, <3>1 DEF SameOp, TypeOK
    <3>3. Live(x) => pending[x].reader \in Readers \ {r}
      BY <2>2, OpTypes DEF IInv, OneEach, Live
    <3> QED
      BY <1>3, <1>7, <3>2, <3>3, OpKeeps
  <2> QED
    BY <2>1, <2>2
<1> QED
  BY <1>2, <1>11, <1>12, <1>13, <1>14, <1>15 DEF IInv

-----------------------------------------------------------------------------
(* The script's calls.                                                      *)

\* A reader begins generation `nextGen`: what is queued of its earlier reads is
\* not current any more.
Renews(r, now) ==
    /\ native' = [native EXCEPT ![r] = now]
    /\ now \in Native /\ now.gen = nextGen
    /\ nextGen' = nextGen + 1

\* Entries of a reader that begins a new generation lose their read.
LEMMA RenewsKeeps ==
    ASSUME TypeOK, IInv, NEW r \in Readers, NEW now, Renews(r, now), flagShut' = flagShut,
           NEW op \in OpIds, NEW x \in Readers, NEW gen \in Generations, gen < nextGen,
           size'[op] = size[op], Tied(op, x, gen),
           pending'[op] = pending[op] \/ (pending'[op] = NoOp /\ pending[op].reader = r /\ Live(op))
    PROVE  Keeps(op, x, gen)
<1>1. gen \in Nat /\ nextGen \in Nat
  BY DataTypes, ReaderAssumption DEF TypeOK
<1>2. native'[x].gen = IF x = r THEN nextGen ELSE native[x].gen
  BY DEF Renews, TypeOK
<1>3. IsCurrent(x, gen)' => IsCurrent(x, gen) /\ x # r
  BY <1>1, <1>2 DEF IsCurrent
<1>4. CASE pending'[op] = pending[op]
  BY <1>3, <1>4 DEF Keeps
<1>5. CASE pending'[op] = NoOp /\ pending[op].reader = r /\ Live(op)
  BY <1>3, <1>5 DEF Keeps, Tied
<1> QED
  BY <1>4, <1>5

\* The queues when a reader begins a new generation.
LEMMA RenewsQueues ==
    ASSUME TypeOK, IInv, Grows, NEW r \in Readers, NEW now, Renews(r, now), flagShut' = flagShut,
           NEW newJobs, NEW newFrames, QueuesBecome(newJobs, newFrames),
           \A op \in OpIds : op < nextId =>
              /\ size'[op] = size[op]
              /\ \/ pending'[op] = pending[op]
                 \/ pending'[op] = NoOp /\ pending[op].reader = r /\ Live(op)
    PROVE  QueuesInv'
<1>1. ASSUME NEW job \in Members(jobs'), job.op # NoOp, job \notin newJobs
      PROVE  Keeps(job.op, job.reader, job.gen)
  <2>1. job \in Members(jobs)
    BY <1>1 DEF QueuesBecome
  <2>2. job \in Job
    BY <2>1 DEF Members, TypeOK
  <2>3. JobFits(job)
    BY <2>1 DEF IInv, QueuesInv
  <2>4. job.op \in OpIds /\ job.reader \in Readers /\ job.gen \in Generations
    BY <1>1, <2>2, JobTypes
  <2>5. job.op < nextId /\ Tied(job.op, job.reader, job.gen) /\ job.gen < nextGen
    BY <1>1, <2>3 DEF JobFits
  <2> QED
    BY <2>4, <2>5, RenewsKeeps
<1>2. ASSUME NEW frame \in Members(stack'), frame.op # NoOp, frame \notin newFrames
      PROVE  Keeps(frame.op, frame.reader, frame.gen)
  <2>1. frame \in Members(stack)
    BY <1>2 DEF QueuesBecome
  <2>2. frame \in Frame
    BY <2>1 DEF Members, TypeOK
  <2>3. FrameFits(frame)
    BY <2>1 DEF IInv, QueuesInv
  <2>4. frame.op \in OpIds /\ frame.reader \in Readers /\ frame.gen \in Generations
    BY <1>2, <2>2, FrameTypes
  <2>5. frame.op < nextId /\ Tied(frame.op, frame.reader, frame.gen) /\ frame.gen < nextGen
    BY <1>2, <2>3 DEF FrameFits
  <2> QED
    BY <2>4, <2>5, RenewsKeeps
<1> QED
  BY <1>1, <1>2, QueuesStep

\* A generation that is drawn is a generation.
LEMMA NextGenTypes ==
    ASSUME TypeOK, nextGen <= MaxGen
    PROVE  /\ nextGen \in Generations /\ nextGen \in Nat
           /\ nextGen + 1 \in 1 .. MaxGen + 1
           /\ \A g \in Generations : g < nextGen => g < nextGen + 1
<1>1. nextGen \in Nat /\ nextGen >= 1 /\ MaxGen \in Nat
  BY ReaderAssumption DEF TypeOK
<1> QED
  BY <1>1, DataTypes DEF Generations

\* It is later than those that readers have.
LEMMA GensBelow ==
    ASSUME TypeOK, IInv, nextGen <= MaxGen, NEW x \in Readers
    PROVE  native[x].gen < nextGen + 1 /\ nextGen < nextGen + 1
<1>1. native[x].gen \in Nat /\ nextGen \in Nat /\ native[x].gen < nextGen
  BY ReaderTypes DEF IInv, OneEach
<1>2. \A a, b \in Nat : a < b => a < b + 1 /\ b < b + 1
  OBVIOUS
<1> QED
  BY <1>1, <1>2

\* A live operation keeps its reader loading.
LEMMA IdleHasNone ==
    ASSUME TypeOK, IInv, NEW r \in Readers, native[r].ready # "loading"
    PROVE  \A op \in OpIds : Live(op) => pending[op].reader \in Readers \ {r}
BY OpTypes DEF IInv, OpAt, ReadAt, Live

\* A read that is over before it starts.
LEMMA FailsStep ==
    ASSUME TypeOK, IInv, NEW r \in Readers, MayRead(r), FailsAtOnce(r),
           UNCHANGED bridgeVars \/ ReserveFails \/ ReserveAndReturn
    PROVE  TypeOK' /\ IInv'
<1>1. /\ boa = "idle" /\ native[r].ready # "loading" /\ nextGen <= MaxGen
      /\ native' = [native EXCEPT ![r] = [ready |-> "done", result |-> FALSE, error |-> TRUE,
                     gen |-> nextGen, terminal |-> FALSE]]
      /\ nextGen' = nextGen + 1
      /\ jobs' = Append(jobs, DispatchJob("error", r, nextGen))
      /\ last' = [last EXCEPT ![r] = "none"]
      /\ UNCHANGED <<flagShut, mirror, pending, pumps, payloads, size, requests, landed,
                     boa, stack>>
  BY DEF MayRead, FailsAtOnce
<1>2. /\ UNCHANGED <<tokens, order, active, bridgeShut, chunkQueue>>
      /\ nextId' \in {nextId, nextId + 1}
  BY DEF bridgeVars, ReserveFails, ReserveAndReturn
<1>3. /\ nextGen \in Generations /\ nextGen \in Nat /\ nextGen + 1 \in 1 .. MaxGen + 1
      /\ \A g \in Generations : g < nextGen => g < nextGen + 1
  BY <1>1, NextGenTypes
<1>4. Grows
  BY <1>1, <1>2 DEF Grows
<1>5. PICK now : now = [ready |-> "done", result |-> FALSE, error |-> TRUE,
                        gen |-> nextGen, terminal |-> FALSE]
  OBVIOUS
<1>6. now \in Native /\ now.gen = nextGen
  BY <1>3, <1>5 DEF Native
<1>7. /\ Renews(r, now) /\ native' \in [Readers -> Native] /\ native'[r] = now
      /\ \A x \in Readers \ {r} : native'[x] = native[x]
  BY <1>1, <1>5, <1>6 DEF Renews, TypeOK
<1>8. PICK job : job = DispatchJob("error", r, nextGen)
  OBVIOUS
<1>9. job \in Job /\ job.op = NoOp /\ job.does # "pump" /\ job.gen = nextGen
  BY <1>3, <1>8, MadeTypes DEF DispatchJob
<1>10. /\ jobs' \in Seq(Job) /\ UniqueOps(jobs')
       /\ Members(jobs') = Members(jobs) \cup {job}
       /\ OpsOf(jobs') = OpsOf(jobs) \cup {NoOp}
  <2>1. jobs \in Seq(Job) /\ UniqueOps(jobs)
    BY DEF TypeOK, IInv, QueuesInv
  <2> QED
    BY <1>1, <1>8, <1>9, <2>1, AppendOps
<1>11. TypeOK'
  <2>1. BridgeTypeOK'
    BY <1>1, BridgeStepTypes DEF TypeOK, BridgeTypeOK
  <2>2. last' \in [Readers -> {"none"} \cup Events]
    BY <1>1 DEF TypeOK
  <2> QED
    BY <1>1, <1>2, <1>3, <1>7, <1>10, <2>1, <2>2 DEF TypeOK
<1>12. SlotInv' /\ ShutInv'
  BY <1>1, <1>2, SlotsKeep, ShutKeeps
<1>13. OneEach'
  <2>1. \A x \in Readers : native'[x].gen < nextGen'
    <3>1. ASSUME NEW x \in Readers, x # r PROVE native'[x].gen < nextGen'
      <4>1. native[x].gen < nextGen /\ native[x].gen \in Generations
        BY DEF IInv, OneEach, TypeOK, Native
      <4>2. native'[x].gen = native[x].gen
        BY <1>7, <3>1
      <4> QED
        BY <1>1, <1>3, <4>1, <4>2
    <3>2. native'[r].gen < nextGen'
      BY <1>1, <1>3, <1>6, <1>7
    <3> QED
      BY <3>1, <3>2
  <2> QED
    BY <1>1, <2>1 DEF IInv, OneEach, Live
<1>14. QueuesInv'
  <2>1. JobFits(job)'
    BY <1>1, <1>3, <1>9 DEF JobFits
  <2>2. QueuesBecome({job}, {})
    BY <1>1, <1>10, <2>1, DataTypes DEF QueuesBecome, IInv, QueuesInv, TypeOK
  <2> QED
    BY <1>1, <1>4, <1>7, <2>2, RenewsQueues
<1>15. ASSUME NEW x \in OpIds PROVE OpAt(x)'
  <2>1. Queued(x)' <=> Queued(x)
    BY <1>1, <1>10, DataTypes DEF Queued
  <2>2. SameOp(x)
    BY <1>1, <2>1 DEF SameOp
  <2>3. Live(x) => pending[x].reader \in Readers \ {r}
    BY <1>1, IdleHasNone
  <2> QED
    BY <1>4, <1>7, <2>2, <2>3, OpKeeps
<1> QED
  BY <1>11, <1>12, <1>13, <1>14, <1>15 DEF IInv

\* What is queued has an id that was drawn.
LEMMA QueuedIsOld ==
    ASSUME TypeOK, IInv, NEW op \in OpIds, Queued(op) PROVE op < nextId
<1>1. op # NoOp
  BY DataTypes
<1>2. CASE op \in OpsOf(jobs)
  <2>1. PICK job \in Members(jobs) : job.op = op
    BY <1>2 DEF OpsOf, Members
  <2> QED
    BY <1>1, <2>1 DEF IInv, QueuesInv, JobFits
<1>3. CASE op \in OpsOf(stack)
  <2>1. PICK frame \in Members(stack) : frame.op = op
    BY <1>3 DEF OpsOf, Members
  <2> QED
    BY <1>1, <2>1 DEF IInv, QueuesInv, FrameFits
<1> QED
  BY <1>2, <1>3 DEF Queued

\* The queues of a step that leaves them alone.
LEMMA QueuesSame ==
    ASSUME TypeOK, IInv, UNCHANGED <<jobs, stack>>
    PROVE  QueuesBecome({}, {}) /\ \A x \in OpIds : Queued(x)' <=> Queued(x)
BY DEF IInv, QueuesInv, QueuesBecome, Queued, TypeOK

\* A read that is started.
LEMMA StartedStep ==
    ASSUME TypeOK, IInv, NEW r \in Readers, ReadStarted(r) PROVE TypeOK' /\ IInv'
<1>1. PICK op \in OpIds, n \in Sizes :
         /\ Reserve(op)
         /\ pending' = [pending EXCEPT ![op] = [reader |-> r, gen |-> nextGen]]
         /\ pumps' = [pumps EXCEPT ![op] = FirstPump]
         /\ payloads' = payloads \cup {op}
         /\ size' = [size EXCEPT ![op] = n]
         /\ requests' = [requests EXCEPT ![op] = Append(requests[op], 0)]
  BY DEF ReadStarted
<1>2. /\ boa = "idle" /\ native[r].ready # "loading" /\ nextGen <= MaxGen /\ ~flagShut
      /\ native' = [native EXCEPT ![r] = [ready |-> "loading", result |-> FALSE, error |-> FALSE,
                     gen |-> nextGen, terminal |-> FALSE]]
      /\ nextGen' = nextGen + 1
      /\ mirror' = mirror + 1
      /\ last' = [last EXCEPT ![r] = "none"]
      /\ UNCHANGED <<flagShut, landed, boa, jobs, stack>>
  BY DEF ReadStarted, MayRead, ContextGone
<1>3. /\ op = nextId /\ nextId' = nextId + 1
      /\ tokens' = tokens \cup {op} /\ order' = order \cup {op} /\ active' = active + 1
      /\ UNCHANGED <<chunkQueue, bridgeShut>>
  BY <1>1 DEF Reserve
<1>4. Grows
  BY <1>2, <1>3 DEF Grows
<1>5. nextId \in Nat /\ \A x \in OpIds : x \in Nat
  BY IdsAreNumbers, BridgeAssumption DEF TypeOK, BridgeTypeOK
<1>6. /\ ~Live(op) /\ requests[op] = << >> /\ landed[op] = << >> /\ ~Queued(op)
  <2>1. NewAt(op) /\ PlaceAt(op)
    BY <1>3, <1>5 DEF IInv, OpAt
  <2>2. ~Queued(op)
    BY <1>3, <1>5, QueuedIsOld
  <2> QED
    BY <2>1, <2>2 DEF NewAt, PlaceAt
<1>7. /\ nextGen \in Generations /\ nextGen \in Nat /\ nextGen + 1 \in 1 .. MaxGen + 1
      /\ \A g \in Generations : g < nextGen => g < nextGen + 1
  BY <1>2, NextGenTypes
<1>8. PICK now : now = [ready |-> "loading", result |-> FALSE, error |-> FALSE,
                        gen |-> nextGen, terminal |-> FALSE]
  OBVIOUS
<1>9. now \in Native /\ now.gen = nextGen /\ now.ready = "loading"
  BY <1>7, <1>8 DEF Native
<1>10. /\ Renews(r, now) /\ native' \in [Readers -> Native] /\ native'[r] = now
       /\ \A x \in Readers \ {r} : native'[x] = native[x]
  BY <1>2, <1>8, <1>9 DEF Renews, TypeOK
<1>11. PICK entry : entry = [reader |-> r, gen |-> nextGen]
  OBVIOUS
<1>12. entry \in Operation /\ entry.reader = r /\ entry.gen = nextGen /\ entry # NoOp
  <2>1. entry \in Operation /\ entry.reader = r /\ entry.gen = nextGen
    BY <1>7, <1>11 DEF Operation
  <2> QED
    BY <2>1, DataTypes
<1>13. /\ pending' \in [OpIds -> Operation \cup {NoOp}] /\ pending'[op] = entry
       /\ \A x \in OpIds \ {op} : pending'[x] = pending[x]
  BY <1>1, <1>11, <1>12 DEF TypeOK
<1>14. PICK first : first = Append(requests[op], 0)
  OBVIOUS
<1>15. first \in Seq(Offsets) /\ Len(first) = 1 /\ first[1] = 0
  BY <1>6, <1>14, OpTypes, DataTypes, AppendFacts
<1>16. /\ requests' \in [OpIds -> Seq(Offsets)] /\ requests'[op] = first
       /\ \A x \in OpIds \ {op} : requests'[x] = requests[x]
  BY <1>1, <1>14, <1>15 DEF TypeOK
<1>17. /\ pumps' \in [OpIds -> Pump \cup {NoOp}] /\ pumps'[op] = FirstPump
       /\ \A x \in OpIds \ {op} : pumps'[x] = pumps[x]
  BY <1>1, DataTypes DEF TypeOK
<1>18. /\ size' \in [OpIds -> Sizes \cup {0}] /\ size'[op] = n
       /\ \A x \in OpIds \ {op} : size'[x] = size[x]
  BY <1>1 DEF TypeOK
<1>19. TypeOK'
  <2>1. BridgeTypeOK'
    BY <1>1, <1>2, BridgeStepTypes DEF TypeOK, BridgeTypeOK
  <2>2. last' \in [Readers -> {"none"} \cup Events]
    BY <1>2 DEF TypeOK
  <2>3. payloads' \subseteq OpIds /\ mirror' \in Nat
    BY <1>1, <1>2 DEF TypeOK
  <2> QED
    BY <1>2, <1>3, <1>7, <1>10, <1>13, <1>16, <1>17, <1>18, <2>1, <2>2, <2>3 DEF TypeOK
<1>20. \A x \in OpIds : Live(x)' <=> Live(x) \/ x = op
  BY <1>12, <1>13 DEF Live
<1>21. SlotInv'
  <2>1. /\ tokens = {x \in OpIds : Live(x)}
        /\ order = tokens /\ payloads = tokens
        /\ mirror = active /\ active = Cardinality(tokens)
    BY DEF IInv, SlotInv
  <2>2. Cardinality(tokens \cup {op}) = Cardinality(tokens) + 1
    <3>1. IsFiniteSet(tokens) /\ op \notin tokens
      BY <1>6, <2>1, IdsAreNumbers DEF TypeOK, BridgeTypeOK
    <3> QED
      BY <3>1, FS_AddElement
  <2>3. tokens' = {x \in OpIds : Live(x)'}
    BY <1>3, <1>20, <2>1
  <2> QED
    BY <1>1, <1>2, <1>3, <2>1, <2>2, <2>3 DEF SlotInv
<1>22. ShutInv'
  BY <1>2, <1>3 DEF IInv, ShutInv
<1>23. \A x \in OpIds : Live(x) => pending[x].reader \in Readers \ {r}
  BY <1>2, IdleHasNone
<1>24. OneEach'
  <2>1. ASSUME NEW x \in Readers PROVE native'[x].gen < nextGen'
    <3>2. native'[x].gen = native[x].gen \/ native'[x].gen = nextGen
      BY <1>9, <1>10
    <3>3. native[x].gen < nextGen + 1 /\ nextGen < nextGen + 1
      BY <1>2, GensBelow
    <3> QED
      BY <1>2, <3>2, <3>3
  <2>2. ASSUME NEW x \in OpIds, NEW y \in OpIds, Live(x)', Live(y)',
               pending'[x].reader = pending'[y].reader
        PROVE  x = y
    <3>1. CASE x = op \/ y = op
      BY <1>12, <1>13, <1>20, <1>23, <2>2, <3>1
    <3>2. CASE x # op /\ y # op
      BY <1>13, <1>20, <2>2, <3>2 DEF IInv, OneEach
    <3> QED
      BY <3>1, <3>2
  <2> QED
    BY <2>1, <2>2 DEF OneEach
<1>25. QueuesInv'
  <2>1. QueuesBecome({}, {})
    BY <1>2, QueuesSame
  <2>2. ASSUME NEW x \in OpIds, x < nextId PROVE size'[x] = size[x] /\ pending'[x] = pending[x]
    <3>1. x # op
      BY <1>3, <1>5, <2>2
    <3> QED
      BY <1>13, <1>18, <3>1
  <2> QED
    BY <1>2, <1>4, <1>10, <2>1, <2>2, RenewsQueues
<1>26. ASSUME NEW x \in OpIds PROVE OpAt(x)'
  <2>1. Queued(x)' <=> Queued(x)
    BY <1>2, QueuesSame
  <2>2. CASE x = op
    <3>1. ReadAt(op)'
      BY <1>9, <1>10, <1>12, <1>13 DEF ReadAt
    <3>2. OnTheWay(op)' = 1 /\ landed'[op] = << >>
      BY <1>2, <1>6, <1>15, <1>16 DEF OnTheWay
    <3>3. PlaceAt(op)'
      BY <1>6, <1>20, <2>1, <2>2, <3>2 DEF PlaceAt
    <3>4. FirstPump # NoOp
      BY DataTypes
    <3>5. n \in Nat /\ FirstPump.loaded = 0
      BY DataTypes DEF FirstPump
    <3>6. DataAt(op)'
      <4>1. Len(landed'[op]) = 0
        BY <3>2
      <4>3. \A i \in 1 .. Len(requests'[op]) : requests'[op][i] = 0
        <5>1. \A i \in 1 .. 1 : first[i] = 0
          BY <1>15
        <5> QED
          BY <1>15, <1>16, <5>1
      <4>2. pumps'[op] # NoOp /\ pumps'[op].loaded = 0 /\ size'[op] \in Nat
        BY <1>17, <1>18, <3>4, <3>5
      <4> QED
        BY <4>1, <4>2, <4>3 DEF DataAt
    <3>7. ~(op >= nextId')
      BY <1>3, <1>5
    <3> QED
      BY <2>2, <3>1, <3>3, <3>6, <3>7 DEF OpAt
  <2>3. CASE x # op
    <3>1. SameOp(x)
      BY <1>2, <1>13, <1>16, <1>17, <1>18, <2>1, <2>3 DEF SameOp
    <3> QED
      BY <1>4, <1>10, <1>23, <3>1, OpKeeps
  <2> QED
    BY <2>2, <2>3
<1> QED
  BY <1>19, <1>21, <1>22, <1>24, <1>25, <1>26 DEF IInv

\* abort() outside LOADING.
LEMMA AbortIdleStep ==
    ASSUME TypeOK, IInv, NEW r \in Readers, AbortIdle(r) PROVE TypeOK' /\ IInv'
<1>1. /\ native' = [native EXCEPT ![r].result = FALSE]
      /\ UNCHANGED <<bridgeVars, flagShut, nextGen, mirror, pending, pumps, payloads, size,
                     requests, landed, boa, jobs, stack, last>>
  BY DEF AbortIdle
<1>2. PICK now : now = [native[r] EXCEPT !.result = FALSE]
  OBVIOUS
<1>3. native[r] \in Native
  BY ReaderTypes
<1>4. now \in Native /\ now.ready = native[r].ready /\ now.gen = native[r].gen
  BY <1>2, <1>3 DEF Native
<1>5. /\ native' \in [Readers -> Native]
      /\ \A x \in Readers : native'[x].ready = native[x].ready /\ native'[x].gen = native[x].gen
  BY <1>1, <1>2, <1>4 DEF TypeOK
<1>6. QueuesBecome({}, {}) /\ \A x \in OpIds : Queued(x)' <=> Queued(x)
  BY <1>1, QueuesSame
<1>7. \A x \in OpIds \ {NoOp} : SameOp(x)
  BY <1>1, <1>6 DEF SameOp
<1>8. /\ last' \in [Readers -> {"none"} \cup Events]
      /\ pumps' \in [OpIds -> Pump \cup {NoOp}] /\ requests' \in [OpIds -> Seq(Offsets)]
      /\ NoOp \notin OpIds
  BY <1>1, DataTypes DEF TypeOK
<1> QED
  BY <1>1, <1>5, <1>6, <1>7, <1>8, QuietStep

\* abort() of a read that still has its operation, or has none.
LEMMA AbortReadStep ==
    ASSUME TypeOK, IInv, NEW r \in Readers, AbortRead(r) PROVE TypeOK' /\ IInv'
<1> DEFINE ops == {op \in OpIds : pending[op] # NoOp /\ pending[op].reader = r}
<1>1. /\ boa = "idle" /\ native[r].ready = "loading" /\ nextGen <= MaxGen
      /\ native' = [native EXCEPT ![r] = [ready |-> "done", result |-> FALSE, error |-> FALSE,
                     gen |-> nextGen, terminal |-> FALSE]]
      /\ nextGen' = nextGen + 1
      /\ UNCHANGED <<flagShut, size, requests, boa, jobs>>
  BY DEF AbortRead
<1>2. /\ cancelled' = cancelled \cup (ops \cap tokens)
      /\ pumps' = [op \in OpIds |-> IF op \in ops THEN NoOp ELSE pumps[op]]
      /\ ops = {} => UNCHANGED <<nextId, exhausted, tokens, order, active, completed,
                                 completions, chunkQueue, chunkRes, woken, bridgeShut,
                                 mirror, pending, payloads, landed>>
      /\ ops # {} => Release(CHOOSE op \in ops : TRUE)
  BY DEF AbortRead
<1>3. IF flagShut THEN UNCHANGED <<stack, last>>
      ELSE Dispatch(PlainFrame("abort", r, nextGen), stack)
  BY DEF AbortRead, ContextGone
<1>4. /\ nextGen \in Generations /\ nextGen \in Nat /\ nextGen + 1 \in 1 .. MaxGen + 1
      /\ \A g \in Generations : g < nextGen => g < nextGen + 1
  BY <1>1, NextGenTypes
<1>5. PICK now : now = [ready |-> "done", result |-> FALSE, error |-> FALSE,
                        gen |-> nextGen, terminal |-> FALSE]
  OBVIOUS
<1>6. now \in Native /\ now.gen = nextGen
  BY <1>4, <1>5 DEF Native
<1>7. /\ Renews(r, now) /\ native' \in [Readers -> Native] /\ native'[r] = now
      /\ \A x \in Readers \ {r} : native'[x] = native[x]
  BY <1>1, <1>5, <1>6 DEF Renews, TypeOK
<1>8. /\ cancelled' \subseteq OpIds /\ pumps' \in [OpIds -> Pump \cup {NoOp}]
      /\ \A x \in OpIds \ ops : pumps'[x] = pumps[x]
      /\ \A x \in ops : pumps'[x] = NoOp
  BY <1>2 DEF TypeOK, BridgeTypeOK
<1>9. /\ BridgeTypeOK' /\ SlotInv'
      /\ UNCHANGED <<nextId, bridgeShut>>
      /\ pending' \in [OpIds -> Operation \cup {NoOp}]
      /\ payloads' \subseteq OpIds /\ mirror' \in Nat
      /\ landed' \in [OpIds -> Seq(Kinds)]
      /\ \A x \in OpIds : Len(landed'[x]) = chunkQueue'[x]
      /\ \A x \in OpIds \ ops : pending'[x] = pending[x] /\ landed'[x] = landed[x]
      /\ \A x \in ops : pending'[x] = NoOp /\ landed'[x] = << >>
  <2>1. CASE ops = {}
    <3>1. UNCHANGED bridgeVars
      <4>1. cancelled' = cancelled
        BY <1>2, <2>1
      <4> QED
        BY <1>2, <2>1, <4>1 DEF bridgeVars
    <3>2. BridgeTypeOK'
      BY <1>1, <3>1, BridgeStepTypes DEF TypeOK, BridgeTypeOK
    <3>3. SlotInv'
      BY <1>2, <2>1, SlotsKeep
    <3> QED
      BY <1>2, <2>1, <3>2, <3>3 DEF TypeOK
  <2>2. CASE ops # {}
    <3>1. PICK op : op = (CHOOSE x \in ops : TRUE)
      OBVIOUS
    <3>2. op \in ops
      BY <2>2, <3>1
    <3>3. op \in OpIds /\ Live(op) /\ pending[op].reader = r
      BY <3>2 DEF Live
    <3>4. \A x \in ops : x = op
      BY <3>3 DEF IInv, OneEach, Live
    <3>5. Release(op)
      BY <1>2, <2>2, <3>1
    <3>6. /\ BridgeTypeOK' /\ SlotInv'
          /\ UNCHANGED <<nextId, bridgeShut>>
          /\ pending' = [pending EXCEPT ![op] = NoOp]
          /\ pending' \in [OpIds -> Operation \cup {NoOp}]
          /\ payloads' \subseteq OpIds /\ mirror' \in Nat
          /\ landed' = [landed EXCEPT ![op] = << >>]
          /\ landed' \in [OpIds -> Seq(Kinds)]
          /\ \A x \in OpIds : Len(landed'[x]) = chunkQueue'[x]
      BY <1>1, <1>8, <3>3, <3>5, ReleaseFacts
    <3>7. /\ \A x \in OpIds \ {op} : pending'[x] = pending[x] /\ landed'[x] = landed[x]
          /\ pending'[op] = NoOp /\ landed'[op] = << >>
      BY <3>3, <3>6 DEF TypeOK
    <3> QED
      BY <3>2, <3>4, <3>6, <3>7
  <2> QED
    BY <2>1, <2>2
<1> HIDE DEF ops
<1>10. \A x \in OpIds : x \in ops <=> Live(x) /\ pending[x].reader = r
  BY DEF ops, Live
<1>11. \A x \in OpIds : Live(x)' <=> Live(x) /\ x \notin ops
  BY <1>9, <1>10 DEF Live
<1>12. Grows
  BY <1>1, <1>9 DEF Grows
<1>13. PICK frame : frame = PlainFrame("abort", r, nextGen)
  OBVIOUS
<1>14. /\ frame \in Frame /\ frame.op = NoOp /\ frame.event = "abort"
       /\ frame.gen = nextGen /\ frame.reader = r
  <2>1. frame \in Frame
    BY <1>4, <1>13, MadeTypes DEF Events
  <2> QED
    BY <1>13, <2>1 DEF PlainFrame, FrameOf
<1>15. /\ stack' \in Seq(Frame) /\ UniqueOps(stack')
       /\ Members(stack') \subseteq Members(stack) \cup {frame}
       /\ \A x \in OpIds : x \in OpsOf(stack') <=> x \in OpsOf(stack)
       /\ last' \in [Readers -> {"none"} \cup Events]
  <2>1. stack \in Seq(Frame) /\ UniqueOps(stack)
    BY DEF TypeOK, IInv, QueuesInv
  <2>2. CASE flagShut
    BY <1>3, <2>1, <2>2 DEF TypeOK
  <2>3. CASE ~flagShut
    <3>1. stack' = <<frame>> \o stack /\ last' = [last EXCEPT ![r] = "abort"]
      BY <1>3, <1>13, <1>14, <2>3 DEF Dispatch
    <3>2. /\ stack' \in Seq(Frame) /\ UniqueOps(stack')
          /\ Members(stack') = Members(stack) \cup {frame}
          /\ OpsOf(stack') = OpsOf(stack) \cup {NoOp}
      BY <1>14, <2>1, <3>1, PushOps
    <3>3. last' \in [Readers -> {"none"} \cup Events]
      BY <3>1 DEF TypeOK, Events
    <3> QED
      BY <3>2, <3>3, DataTypes
  <2> QED
    BY <2>2, <2>3
<1>16. TypeOK'
  BY <1>1, <1>4, <1>7, <1>8, <1>9, <1>15 DEF TypeOK
<1>17. ShutInv'
  BY <1>1, <1>9, <1>11 DEF IInv, ShutInv
<1>18. OneEach'
  <2>1. ASSUME NEW x \in Readers PROVE native'[x].gen < nextGen'
    <3>2. native'[x].gen = native[x].gen \/ native'[x].gen = nextGen
      BY <1>6, <1>7
    <3>3. native[x].gen < nextGen + 1 /\ nextGen < nextGen + 1
      BY <1>1, GensBelow
    <3> QED
      BY <1>1, <3>2, <3>3
  <2> QED
    BY <1>9, <1>11, <2>1 DEF IInv, OneEach
<1>19. QueuesInv'
  <2>1. FrameFits(frame)'
    BY <1>1, <1>4, <1>14 DEF FrameFits
  <2>2. QueuesBecome({}, {frame})
    BY <1>1, <1>15, <2>1 DEF QueuesBecome, IInv, QueuesInv, TypeOK
  <2>3. ASSUME NEW x \in OpIds
        PROVE  \/ pending'[x] = pending[x]
               \/ pending'[x] = NoOp /\ pending[x].reader = r /\ Live(x)
    BY <1>9, <1>10
  <2> QED
    BY <1>1, <1>7, <1>12, <2>2, <2>3, RenewsQueues
<1>20. ASSUME NEW x \in OpIds PROVE OpAt(x)'
  <2>1. Queued(x)' <=> Queued(x)
    BY <1>1, <1>15 DEF Queued
  <2>2. CASE x \in ops
    <3>1. OpAt(x) /\ Live(x)
      BY <1>10, <2>2 DEF IInv
    <3>2. ~Live(x)' /\ landed'[x] = << >> /\ pumps'[x] = NoOp /\ requests'[x] = requests[x]
      BY <1>1, <1>8, <1>9, <1>11, <2>2
    <3>3. PlaceAt(x)'
      <4>1. Len(requests[x]) \in Nat /\ Len(landed[x]) \in Nat /\ Len(landed'[x]) = 0
        BY <3>2, OpTypes
      <4>2. \A a, b \in Nat : /\ a + b <= 1 => a + 0 <= 1
                              /\ a + b = 0 => a + 0 = 0
        OBVIOUS
      <4>3. /\ Len(requests[x]) + Len(landed[x]) <= 1
            /\ Queued(x) => Len(requests[x]) + Len(landed[x]) = 0
        BY <3>1 DEF OpAt, PlaceAt, OnTheWay
      <4>4. OnTheWay(x)' = Len(requests[x]) + 0
        BY <3>2, <4>1 DEF OnTheWay
      <4>5. OnTheWay(x)' <= 1 /\ (Queued(x) => OnTheWay(x)' = 0)
        BY <4>1, <4>2, <4>3, <4>4
      <4> QED
        BY <2>1, <3>2, <4>5 DEF PlaceAt
    <3>4. DataAt(x)'
      BY <3>2 DEF DataAt
    <3>5. ~(x >= nextId')
      BY <1>9, <3>1 DEF OpAt, NewAt
    <3> QED
      BY <3>2, <3>3, <3>4, <3>5 DEF OpAt, ReadAt
  <2>3. CASE x \notin ops
    <3>1. SameOp(x)
      BY <1>1, <1>8, <1>9, <2>1, <2>3 DEF SameOp
    <3>2. Live(x) => pending[x].reader \in Readers \ {r}
      BY <1>10, <2>3, OpTypes DEF Live
    <3> QED
      BY <1>7, <1>12, <3>1, <3>2, OpKeeps
  <2> QED
    BY <2>2, <2>3
<1> QED
  BY <1>9, <1>16, <1>17, <1>18, <1>19, <1>20 DEF IInv

-----------------------------------------------------------------------------
(* The workers and poll_io.                                                 *)

\* An operation's one request or its one completion.
LEMMA OneOnTheWay ==
    ASSUME TypeOK, IInv, NEW op \in OpIds
    PROVE  /\ Len(requests[op]) \in Nat /\ Len(landed[op]) \in Nat
           /\ Len(requests[op]) # 0 => /\ Len(requests[op]) = 1 /\ Len(landed[op]) = 0
                                       /\ OnTheWay(op) = 1 /\ ~Queued(op)
           /\ Len(landed[op]) # 0 => /\ Len(landed[op]) = 1 /\ Len(requests[op]) = 0
                                     /\ OnTheWay(op) = 1 /\ ~Queued(op)
<1>1. Len(requests[op]) \in Nat /\ Len(landed[op]) \in Nat
  BY OpTypes
<1>2. /\ Len(requests[op]) + Len(landed[op]) <= 1
      /\ Queued(op) => Len(requests[op]) + Len(landed[op]) = 0
  BY DEF IInv, OpAt, PlaceAt, OnTheWay
<1>3. Len(requests[op]) # 0 => Len(requests[op]) = 1 /\ Len(landed[op]) = 0
  BY <1>1, <1>2, ZeroSum
<1>4. Len(landed[op]) # 0 => Len(landed[op]) = 1 /\ Len(requests[op]) = 0
  BY <1>1, <1>2, ZeroSum
<1>5. Queued(op) => Len(requests[op]) = 0 /\ Len(landed[op]) = 0
  BY <1>1, <1>2, ZeroSum
<1>6. Len(requests[op]) # 0 => OnTheWay(op) = 1
  <2>1. 1 + 0 = 1
    OBVIOUS
  <2> QED
    BY <1>3, <2>1 DEF OnTheWay
<1>7. Len(landed[op]) # 0 => OnTheWay(op) = 1
  <2>1. 0 + 1 = 1
    OBVIOUS
  <2> QED
    BY <1>4, <2>1 DEF OnTheWay
<1> QED
  BY <1>1, <1>3, <1>4, <1>5, <1>6, <1>7

\* A worker's push takes the place of its request, or is dropped.
LEMMA WorkerPushStep ==
    ASSUME TypeOK, IInv, NEW op \in OpIds, WorkerPush(op) PROVE TypeOK' /\ IInv'
<1>1. PICK i \in DOMAIN requests[op], kind \in Kinds :
         /\ requests' = [requests EXCEPT ![op] = RemoveAt(requests[op], i)]
         /\ IF IsShutdown \/ op \in cancelled THEN kind = "error"
            ELSE kind = "eof" <=> requests[op][i] = size[op]
         /\ landed' = IF PushIsStale(op) THEN landed
                      ELSE [landed EXCEPT ![op] = Append(landed[op], kind)]
  BY DEF WorkerPush
<1>2. /\ PushChunk(op)
      /\ UNCHANGED <<flagShut, native, nextGen, mirror, pending, pumps, payloads, size, boa,
                     jobs, stack, last>>
  BY DEF WorkerPush
<1>3. /\ UNCHANGED <<nextId, tokens, order, active, bridgeShut>>
      /\ chunkQueue' = IF PushIsStale(op) THEN chunkQueue
                       ELSE [chunkQueue EXCEPT ![op] = chunkQueue[op] + 1]
  BY <1>2 DEF PushChunk
<1>4. Grows
  BY <1>2, <1>3 DEF Grows
<1>5. /\ requests[op] \in Seq(Offsets) /\ i \in 1 .. Len(requests[op])
      /\ Len(requests[op]) \in Nat /\ landed[op] \in Seq(Kinds)
  BY <1>1, OpTypes
<1>6. /\ Len(requests[op]) = 1 /\ Len(landed[op]) = 0 /\ OnTheWay(op) = 1 /\ ~Queued(op)
  <2>1. Len(requests[op]) # 0
    BY <1>5
  <2> QED
    BY <2>1, OneOnTheWay
<1>7. PICK rest : rest = RemoveAt(requests[op], i)
  OBVIOUS
<1>8. rest \in Seq(Offsets) /\ Len(rest) = 0
  <2>1. /\ RemoveAt(requests[op], i) \in Seq(Offsets)
        /\ Len(RemoveAt(requests[op], i)) = Len(requests[op]) - 1
    BY ONLY <1>5, RemoveAtFacts
  <2> QED
    BY <1>6, <1>7, <2>1
<1>9. /\ requests' \in [OpIds -> Seq(Offsets)] /\ requests'[op] = rest
      /\ \A x \in OpIds \ {op} : requests'[x] = requests[x]
  BY <1>1, <1>7, <1>8 DEF TypeOK
<1>10. PICK more : more = Append(landed[op], kind)
  OBVIOUS
<1>11. more \in Seq(Kinds) /\ Len(more) = 1 /\ more[1] = kind
  BY <1>5, <1>6, <1>10, AppendFacts
<1>12. /\ landed' \in [OpIds -> Seq(Kinds)]
       /\ landed'[op] = IF PushIsStale(op) THEN landed[op] ELSE more
       /\ \A x \in OpIds \ {op} : landed'[x] = landed[x]
  BY <1>1, <1>10, <1>11 DEF TypeOK
<1>13. TypeOK'
  <2>1. BridgeTypeOK'
    BY <1>2, BridgeStepTypes DEF TypeOK, BridgeTypeOK
  <2>2. ASSUME NEW x \in OpIds PROVE Len(landed'[x]) = chunkQueue'[x]
    <3>1. Len(landed[x]) = chunkQueue[x] /\ chunkQueue \in [OpIds -> Nat]
      BY DEF TypeOK, BridgeTypeOK
    <3>2. CASE x = op
      <4>1. chunkQueue[op] = 0
        BY <1>6, <3>1, <3>2
      <4> QED
        BY <1>3, <1>6, <1>11, <1>12, <3>1, <3>2, <4>1
    <3>3. CASE x # op
      BY <1>3, <1>12, <3>1, <3>3
    <3> QED
      BY <3>2, <3>3
  <2> QED
    BY <1>2, <1>9, <1>12, <2>1, <2>2 DEF TypeOK
<1>14. SlotInv' /\ ShutInv'
  BY <1>2, <1>3, SlotsKeep, ShutKeeps
<1>15. OneEach'
  BY <1>2 DEF IInv, OneEach, Live
<1>16. \A x \in OpIds : Queued(x)' <=> Queued(x)
  BY <1>2, QueuesSame
<1>17. QueuesInv'
  <2>1. QueuesBecome({}, {})
    BY <1>2, QueuesSame
  <2>2. ASSUME NEW job \in Members(jobs'), job.op # NoOp PROVE Keeps(job.op, job.reader, job.gen)
    BY <1>2 DEF Keeps, IsCurrent
  <2>3. ASSUME NEW frame \in Members(stack'), frame.op # NoOp
        PROVE  Keeps(frame.op, frame.reader, frame.gen)
    BY <1>2 DEF Keeps, IsCurrent
  <2> QED
    BY <1>4, <2>1, <2>2, <2>3, QueuesStep
<1>18. OpAt(op)'
  <2>1. OpAt(op)
    BY DEF IInv
  <2>2. Live(op)' <=> Live(op)
    BY <1>2 DEF Live
  <2>3. ReadAt(op)'
    BY <1>2, <2>1, <2>2 DEF OpAt, ReadAt
  <2>4. op < nextId'
    <3>1. ~(op >= nextId)
      BY <1>6, <2>1 DEF OpAt, NewAt
    <3> QED
      BY <1>3, <3>1, IdsAreNumbers, BridgeAssumption DEF TypeOK, BridgeTypeOK
  <2>5. CASE PushIsStale(op)
    <3>1. landed'[op] = landed[op] /\ OnTheWay(op)' = 0
      BY <1>6, <1>8, <1>9, <1>12, <2>5 DEF OnTheWay
    <3>2. ~(Live(op) /\ ~flagShut)
      BY <2>5 DEF PushIsStale, IsShutdown, IInv, SlotInv, ShutInv
    <3>3. PlaceAt(op)'
      BY <1>2, <1>6, <1>16, <2>1, <2>2, <3>1, <3>2 DEF PlaceAt, OpAt
    <3>4. DataAt(op)'
      BY <1>2, <1>6, <1>8, <1>9, <2>1, <2>2, <3>1 DEF DataAt, OpAt
    <3> QED
      BY <1>3, <2>3, <2>4, <3>3, <3>4, IdsAreNumbers, BridgeAssumption
      DEF OpAt, TypeOK, BridgeTypeOK
  <2>6. CASE ~PushIsStale(op)
    <3>1. landed'[op] = more /\ OnTheWay(op)' = 1
      BY <1>8, <1>9, <1>11, <1>12, <2>6 DEF OnTheWay
    <3>2. Live(op)
      BY <2>6 DEF PushIsStale, IInv, SlotInv
    <3>3. PlaceAt(op)'
      BY <1>2, <1>6, <1>16, <2>2, <3>1, <3>2 DEF PlaceAt
    <3>4. kind = "chunk" => pumps[op].loaded < size[op]
      <4>1. /\ pumps[op] # NoOp /\ pumps[op].loaded <= size[op]
            /\ requests[op][i] = pumps[op].loaded
        BY <1>5, <1>6, <2>1, <3>2 DEF OpAt, DataAt
      <4>2. kind = "chunk" => requests[op][i] # size[op]
        BY <1>1
      <4> QED
        BY <4>1, <4>2, OpTypes
    <3>5. DataAt(op)'
      <4>1. /\ pumps[op] # NoOp /\ pumps[op].loaded <= size[op]
            /\ ~pumps[op].started => pumps[op].loaded = 0
        BY <1>6, <2>1, <3>2 DEF OpAt, DataAt
      <4>2. \A k \in 1 .. Len(landed'[op]) : landed'[op][k] = "chunk" => pumps[op].loaded < size[op]
        <5>1. Len(landed'[op]) = 1 /\ landed'[op][1] = kind
          BY <1>11, <3>1
        <5>2. \A k \in 1 .. 1 : landed'[op][k] = "chunk" => pumps[op].loaded < size[op]
          BY <3>4, <5>1
        <5> QED
          BY <5>1, <5>2
      <4>3. \A k \in 1 .. Len(requests'[op]) : requests'[op][k] = pumps[op].loaded
        BY <1>8, <1>9
      <4> QED
        BY <1>2, <4>1, <4>2, <4>3 DEF DataAt
    <3> QED
      BY <1>3, <2>3, <2>4, <3>3, <3>5, IdsAreNumbers, BridgeAssumption
      DEF OpAt, TypeOK, BridgeTypeOK
  <2> QED
    BY <2>5, <2>6
<1>19. ASSUME NEW x \in OpIds PROVE OpAt(x)'
  <2>1. CASE x = op
    BY <1>18, <2>1
  <2>2. CASE x # op
    <3>1. SameOp(x)
      BY <1>2, <1>9, <1>12, <1>16, <2>2 DEF SameOp
    <3> QED
      BY <1>2, <1>4, <3>1, OpKeeps
  <2> QED
    BY <2>1, <2>2
<1> QED
  BY <1>13, <1>14, <1>15, <1>17, <1>19 DEF IInv

\* The pump job that poll_io makes of a completion.
JobFor(op) == PumpJob(pending[op].reader, pending[op].gen, op, pumps[op], Head(landed[op]))

\* A completion that waits is of a live read that is current, and fits it.
LEMMA AwaitedFacts ==
    ASSUME TypeOK, IInv, NEW op \in QueuedChunks
    PROVE  /\ op \in OpIds /\ IsAwaited(op) /\ Live(op) /\ ~Queued(op)
           /\ Len(landed[op]) = 1 /\ Len(requests[op]) = 0
           /\ JobFor(op) \in Job /\ JobFor(op).op = op
           /\ \A job : /\ job = JobFor(op)
                       /\ UNCHANGED <<nextGen, nextId, size, pending, native, flagShut>>
                       => JobFits(job)'
<1>1. op \in order /\ chunkQueue[op] > 0
  BY DEF QueuedChunks
<1>2. op \in OpIds /\ Live(op)
  BY <1>1 DEF IInv, SlotInv
<1>3. landed[op] \in Seq(Kinds) /\ Len(landed[op]) \in Nat /\ Len(landed[op]) # 0
  BY <1>1, <1>2, OpTypes
<1>4. /\ Len(landed[op]) = 1 /\ Len(requests[op]) = 0 /\ OnTheWay(op) = 1 /\ ~Queued(op)
  BY <1>2, <1>3, OneOnTheWay
<1>6. OpAt(op)
  BY <1>2 DEF IInv
<1>7. /\ pumps[op] # NoOp /\ pumps[op].loaded <= size[op]
      /\ ~pumps[op].started => pumps[op].loaded = 0
      /\ landed[op][1] = "chunk" => pumps[op].loaded < size[op]
  BY <1>2, <1>4, <1>6 DEF OpAt, DataAt
<1>8. /\ pending[op].reader \in Readers /\ pending[op].gen \in Generations
      /\ native[pending[op].reader].gen = pending[op].gen
      /\ pumps[op] \in Pump
  BY <1>2, <1>6, <1>7, OpTypes DEF OpAt, ReadAt, Live
<1>9. IsAwaited(op)
  BY <1>2, <1>7, <1>8 DEF IsAwaited, IsCurrent, Live
<1>10. Head(landed[op]) \in Kinds /\ Head(landed[op]) = landed[op][1]
  BY <1>3, TailFacts
<1>11. PICK job : job = JobFor(op)
  OBVIOUS
<1>12. job \in Job
  BY <1>2, <1>8, <1>10, <1>11, MadeTypes DEF JobFor
<1>13. /\ job.op = op /\ job.does = "pump" /\ job.reader = pending[op].reader
       /\ job.gen = pending[op].gen /\ job.pump = pumps[op] /\ job.chunk = landed[op][1]
  BY <1>10, <1>11 DEF JobFor, PumpJob
<1>14. pending[op].gen < nextGen
  BY <1>8 DEF IInv, OneEach
<1>15. op < nextId
  BY <1>2, <1>6, IdsAreNumbers, BridgeAssumption DEF OpAt, NewAt, TypeOK, BridgeTypeOK
<1>16. ASSUME UNCHANGED <<nextGen, nextId, size, pending, native, flagShut>> PROVE JobFits(job)'
  <2>1. Tied(job.op, job.reader, job.gen)'
    BY <1>2, <1>13, <1>16 DEF Tied, Live
  <2>2. job.gen < nextGen' /\ job.op < nextId' /\ job.op # NoOp
    BY <1>2, <1>13, <1>14, <1>15, <1>16, DataTypes
  <2>3. /\ job.chunk = "chunk" => job.pump.loaded < size'[job.op]
        /\ ~job.pump.started => job.pump.loaded = 0
    BY <1>7, <1>13, <1>16
  <2> QED
    BY <1>13, <2>1, <2>2, <2>3 DEF JobFits
<1> QED
  BY <1>2, <1>4, <1>9, <1>11, <1>12, <1>13, <1>16

\* poll_io makes jobs of the completions within its budget.
LEMMA PollStep ==
    ASSUME TypeOK, IInv, Poll PROVE TypeOK' /\ IInv'
<1> DEFINE ops == {op \in WithinBudget : IsAwaited(op)}
<1>1. /\ boa = "idle" /\ stack = << >>
      /\ TakeChunks(WithinBudget)
      /\ landed' = [op \in OpIds |-> IF chunkQueue'[op] > 0 THEN landed[op] ELSE << >>]
      /\ pumps' = [op \in OpIds |-> IF op \in ops THEN NoOp ELSE pumps[op]]
      /\ UNCHANGED <<flagShut, native, nextGen, mirror, pending, payloads, size, requests,
                     boa, stack, last>>
  BY DEF Poll, Drained, Taken
<1>2. PICK inOrder \in Ascending(ops) :
         jobs' = jobs \o [i \in 1 .. Cardinality(ops) |-> JobFor(inOrder[i])]
  BY DEF Poll, JobFor
<1>3. WithinBudget \subseteq QueuedChunks
  BY DEF WithinBudget
<1>4. ops = WithinBudget
  BY <1>3, AwaitedFacts
<1> HIDE DEF ops
<1>5. \A op \in ops : /\ op \in OpIds /\ Live(op) /\ ~Queued(op)
                      /\ Len(landed[op]) = 1 /\ Len(requests[op]) = 0
                      /\ JobFor(op) \in Job /\ JobFor(op).op = op
  BY <1>3, <1>4, AwaitedFacts
<1>6. PICK n : n = Cardinality(ops)
  OBVIOUS
<1>7. n \in Nat
  <2>1. IsFiniteSet(ops)
    BY <1>5, IdsAreNumbers
  <2> QED
    BY <1>6, <2>1, FS_CardinalityType
<1>8. /\ inOrder \in [1 .. n -> ops]
      /\ \A i, j \in 1 .. n : i < j => inOrder[i] < inOrder[j]
      /\ \A op \in ops : \E i \in 1 .. n : inOrder[i] = op
  BY <1>2, <1>6 DEF Ascending
<1>9. PICK new : new = [i \in 1 .. n |-> JobFor(inOrder[i])]
  OBVIOUS
<1>10. /\ new \in Seq(Job) /\ Len(new) = n
       /\ \A i \in 1 .. n : new[i] = JobFor(inOrder[i]) /\ new[i].op = inOrder[i]
  <2>1. \A i \in 1 .. n : JobFor(inOrder[i]) \in Job /\ JobFor(inOrder[i]).op = inOrder[i]
    BY <1>5, <1>8
  <2> QED
    BY <1>7, <1>9, <2>1
<1>11. UniqueOps(new)
  <2>1. ASSUME NEW i \in 1 .. Len(new), NEW j \in 1 .. Len(new), new[i].op = new[j].op PROVE i = j
    <3>1. i \in 1 .. n /\ j \in 1 .. n /\ inOrder[i] = inOrder[j]
      BY <1>10, <2>1
    <3>2. inOrder[i] \in Nat /\ inOrder[j] \in Nat
      BY <1>5, <1>8, <3>1, IdsAreNumbers
    <3>3. ~(i < j) /\ ~(j < i)
      BY <1>8, <3>1, <3>2
    <3> QED
      BY <1>7, <3>1, <3>3
  <2> QED
    BY <2>1 DEF UniqueOps
<1>12. OpsOf(new) = ops
  <2>1. \A op \in OpsOf(new) : op \in ops
    BY <1>8, <1>10 DEF OpsOf
  <2>2. ASSUME NEW op \in ops PROVE op \in OpsOf(new)
    <3>1. PICK i \in 1 .. n : inOrder[i] = op
      BY <1>8
    <3> QED
      BY <1>10, <3>1 DEF OpsOf
  <2> QED
    BY <2>1, <2>2
<1>13. \A job \in Members(new) : \E op \in ops : job = JobFor(op)
  BY <1>8, <1>10 DEF Members
<1>14. /\ jobs' \in Seq(Job) /\ UniqueOps(jobs')
       /\ Members(jobs') = Members(jobs) \cup Members(new)
       /\ OpsOf(jobs') = OpsOf(jobs) \cup ops
  <2>1. jobs \in Seq(Job) /\ UniqueOps(jobs)
    BY DEF TypeOK, IInv, QueuesInv
  <2>2. OpsOf(jobs) \cap OpsOf(new) \subseteq {NoOp}
    BY <1>5, <1>12 DEF Queued
  <2>3. jobs' = jobs \o new
    BY <1>2, <1>6, <1>9
  <2> QED
    BY <1>10, <1>11, <1>12, <2>1, <2>2, <2>3, ConcatOps
<1>15. /\ UNCHANGED <<nextId, tokens, order, active, bridgeShut>>
       /\ chunkQueue' = [id \in OpIds |-> IF id \in order \ WithinBudget THEN chunkQueue[id] ELSE 0]
  BY <1>1 DEF TakeChunks
<1>16. \A x \in OpIds \ ops : landed'[x] = landed[x] /\ pumps'[x] = pumps[x]
  <2>1. ASSUME NEW x \in OpIds, x \notin ops PROVE landed'[x] = landed[x]
    <3>1. /\ landed[x] \in Seq(Kinds) /\ Len(landed[x]) = chunkQueue[x] /\ Len(landed[x]) \in Nat
      BY OpTypes
    <3>2. landed[x] # << >> => x \in order
      BY DEF IInv, OpAt, PlaceAt, SlotInv
    <3>3. CASE landed[x] = << >>
      BY <1>1, <3>3
    <3>4. CASE landed[x] # << >>
      <4>1. chunkQueue[x] > 0
        BY <3>1, <3>4
      <4>2. chunkQueue'[x] = chunkQueue[x]
        BY <1>4, <1>15, <2>1, <3>2, <3>4
      <4> QED
        BY <1>1, <4>1, <4>2
    <3> QED
      BY <3>3, <3>4
  <2> QED
    BY <1>1, <2>1
<1>17. \A x \in ops : landed'[x] = << >> /\ pumps'[x] = NoOp /\ chunkQueue'[x] = 0
  BY <1>1, <1>4, <1>5, <1>15
<1>18. Grows
  BY <1>1, <1>15 DEF Grows
<1>19. TypeOK'
  <2>1. BridgeTypeOK'
    BY <1>1, BridgeStepTypes DEF TypeOK, BridgeTypeOK
  <2>2. landed' \in [OpIds -> Seq(Kinds)] /\ pumps' \in [OpIds -> Pump \cup {NoOp}]
    <3>1. << >> \in Seq(Kinds)
      OBVIOUS
    <3> QED
      BY <1>1, <3>1 DEF TypeOK
  <2>3. ASSUME NEW x \in OpIds PROVE Len(landed'[x]) = chunkQueue'[x]
    <3>1. CASE x \in ops
      BY <1>17, <3>1
    <3>2. CASE x \notin ops
      <4>1. Len(landed[x]) = chunkQueue[x]
        BY OpTypes
      <4>2. chunkQueue'[x] = chunkQueue[x] \/ chunkQueue'[x] = 0
        BY <1>15
      <4>3. ~(chunkQueue'[x] > 0) => landed'[x] = << >>
        BY <1>1
      <4>4. chunkQueue[x] \in Nat
        BY DEF TypeOK, BridgeTypeOK
      <4>5. chunkQueue'[x] = 0 => landed'[x] = << >>
        BY <4>3
      <4> QED
        BY <1>16, <3>2, <4>1, <4>2, <4>5
    <3> QED
      BY <3>1, <3>2
  <2> QED
    BY <1>1, <1>14, <1>15, <2>1, <2>2, <2>3 DEF TypeOK
<1>20. SlotInv' /\ ShutInv'
  BY <1>1, <1>15, SlotsKeep, ShutKeeps
<1>21. OneEach'
  BY <1>1 DEF IInv, OneEach, Live
<1>22. QueuesInv'
  <2>1. ASSUME NEW job \in Members(new) PROVE JobFits(job)'
    <3>1. PICK op \in ops : job = JobFor(op)
      BY <1>13
    <3>2. op \in QueuedChunks
      BY <1>3, <1>4
    <3>3. UNCHANGED <<nextGen, nextId, size, pending, native, flagShut>>
      BY <1>1, <1>15
    <3> QED
      BY <3>1, <3>2, <3>3, AwaitedFacts
  <2>2. OpsOf(stack') = {}
    BY <1>1, NoneOps
  <2>3. QueuesBecome(Members(new), {})
    BY <1>1, <1>14, <2>1, <2>2 DEF QueuesBecome, IInv, QueuesInv, TypeOK
  <2>4. ASSUME NEW job \in Members(jobs'), job.op # NoOp PROVE Keeps(job.op, job.reader, job.gen)
    BY <1>1 DEF Keeps, IsCurrent
  <2>5. ASSUME NEW frame \in Members(stack'), frame.op # NoOp
        PROVE  Keeps(frame.op, frame.reader, frame.gen)
    BY <1>1 DEF Keeps, IsCurrent
  <2> QED
    BY <1>18, <2>3, <2>4, <2>5, QueuesStep
<1>23. ASSUME NEW x \in OpIds PROVE OpAt(x)'
  <2>1. CASE x \in ops
    <3>1. OpAt(x) /\ Live(x) /\ (Live(x)' <=> Live(x))
      BY <1>1, <1>5, <2>1 DEF IInv, Live
    <3>2. Queued(x)'
      BY <1>14, <2>1 DEF Queued
    <3>3. OnTheWay(x)' = 0
      <4>1. Len(requests'[x]) = 0 /\ Len(landed'[x]) = 0
        BY <1>1, <1>5, <1>17, <2>1
      <4> QED
        BY <4>1 DEF OnTheWay
    <3>4. ReadAt(x)'
      BY <1>1, <3>1 DEF OpAt, ReadAt
    <3>5. PlaceAt(x)'
      BY <1>17, <2>1, <3>2, <3>3 DEF PlaceAt
    <3>6. DataAt(x)'
      BY <1>1, <1>5, <1>17, <2>1, <3>3 DEF DataAt
    <3>7. ~(x >= nextId')
      BY <1>15, <3>1 DEF OpAt, NewAt
    <3> QED
      BY <3>4, <3>5, <3>6, <3>7 DEF OpAt
  <2>2. CASE x \notin ops
    <3>1. Queued(x)' <=> Queued(x)
      BY <1>1, <1>14, <2>2 DEF Queued
    <3>2. SameOp(x)
      BY <1>1, <1>16, <2>2, <3>1 DEF SameOp
    <3> QED
      BY <1>1, <1>18, <3>2, OpKeeps
  <2> QED
    BY <2>1, <2>2
<1> QED
  BY <1>19, <1>20, <1>21, <1>22, <1>23 DEF IInv

-----------------------------------------------------------------------------
(* One operation moves on.                                                  *)

\* Readers keep their state and generation.
SameReads ==
    \A r \in Readers : native'[r].ready = native[r].ready /\ native'[r].gen = native[r].gen

\* What is queued is not on its way elsewhere.
LEMMA QueuedAlone ==
    ASSUME TypeOK, IInv, NEW op \in OpIds, Queued(op)
    PROVE  /\ OnTheWay(op) = 0 /\ Len(requests[op]) = 0 /\ Len(landed[op]) = 0
           /\ requests[op] = << >> /\ landed[op] = << >> /\ op < nextId
<1>1. OnTheWay(op) = 0
  BY DEF IInv, OpAt, PlaceAt
<1>2. Len(requests[op]) = 0 /\ Len(landed[op]) = 0
  BY OneOnTheWay
<1>3. requests[op] = << >> /\ landed[op] = << >>
  BY <1>2, OpTypes
<1> QED
  BY <1>1, <1>2, <1>3, QueuedIsOld

\* An operation that leaves its job or frame, for another one if it is live.
LEMMA MovesOp ==
    ASSUME TypeOK, IInv, NEW op \in OpIds, Queued(op), SameReads,
           UNCHANGED <<pending, size, landed, flagShut, nextId>>, requests'[op] = requests[op],
           Live(op) /\ ~flagShut => Queued(op)',
           \/ pumps'[op] = pumps[op]
           \/ /\ pumps'[op].loaded <= size[op]
              /\ ~pumps'[op].started => pumps'[op].loaded = 0
    PROVE  OpAt(op)'
<1>1. OpAt(op)
  BY DEF IInv
<1>2. Live(op)' <=> Live(op)
  BY DEF Live
<1>3. /\ requests'[op] = << >> /\ landed'[op] = << >> /\ op < nextId
      /\ Len(requests'[op]) = 0 /\ Len(landed'[op]) = 0 /\ OnTheWay(op)' = 0
  <2>1. requests'[op] = << >> /\ landed'[op] = << >> /\ op < nextId
    BY QueuedAlone
  <2>2. Len(requests'[op]) = 0 /\ Len(landed'[op]) = 0
    BY <2>1
  <2> QED
    BY <2>1, <2>2 DEF OnTheWay
<1>4. ReadAt(op)'
  <2>1. Live(op) => pending[op].reader \in Readers
    BY OpTypes DEF Live
  <2> QED
    BY <1>1, <1>2, <2>1 DEF OpAt, ReadAt, SameReads
<1>5. PlaceAt(op)'
  BY <1>2, <1>3 DEF PlaceAt
<1>6. DataAt(op)'
  BY <1>1, <1>3 DEF OpAt, DataAt
<1>7. ~(op >= nextId')
  BY <1>3, IdsAreNumbers, BridgeAssumption DEF TypeOK, BridgeTypeOK
<1> QED
  BY <1>4, <1>5, <1>6, <1>7 DEF OpAt

\* An operation whose next request is submitted.
LEMMA AsksOp ==
    ASSUME TypeOK, IInv, NEW op \in OpIds, Queued(op), SameReads, ~Queued(op)',
           UNCHANGED <<pending, size, landed, flagShut, nextId>>,
           NEW loaded \in Offsets, loaded <= size[op],
           requests'[op] = Append(requests[op], loaded),
           pumps'[op] = [started |-> TRUE, loaded |-> loaded]
    PROVE  OpAt(op)' /\ requests'[op] \in Seq(Offsets) /\ pumps'[op] \in Pump
<1>1. OpAt(op) /\ (Live(op)' <=> Live(op))
  BY DEF IInv, Live
<1>2. requests[op] = << >> /\ landed[op] = << >> /\ op < nextId
  BY QueuedAlone
<1>3. requests'[op] \in Seq(Offsets) /\ Len(requests'[op]) = 1 /\ requests'[op][1] = loaded
  BY <1>2, OpTypes, AppendFacts
<1>4. pumps'[op] \in Pump /\ pumps'[op].loaded = loaded /\ pumps'[op].started
  BY DEF Pump
<1>5. Len(landed'[op]) = 0 /\ OnTheWay(op)' = 1
  BY <1>2, <1>3 DEF OnTheWay
<1>6. ReadAt(op)'
  <2>1. Live(op) => pending[op].reader \in Readers
    BY OpTypes DEF Live
  <2> QED
    BY <1>1, <2>1 DEF OpAt, ReadAt, SameReads
<1>7. PlaceAt(op)'
  BY <1>2, <1>5 DEF PlaceAt
<1>8. DataAt(op)'
  <2>1. pumps'[op] # NoOp
    BY <1>4, DataTypes
  <2>2. \A i \in 1 .. 1 : requests'[op][i] = loaded
    BY <1>3
  <2>3. \A i \in 1 .. Len(requests'[op]) : requests'[op][i] = pumps'[op].loaded
    BY <1>3, <1>4, <2>2
  <2> QED
    BY <1>4, <1>5, <2>1, <2>3 DEF DataAt
<1>9. ~(op >= nextId')
  BY <1>2, IdsAreNumbers, BridgeAssumption DEF TypeOK, BridgeTypeOK
<1> QED
  BY <1>3, <1>4, <1>6, <1>7, <1>8, <1>9 DEF OpAt

\* submit_next_chunk, accepted or refused by the executor.
LEMMA SubmitStep ==
    ASSUME TypeOK, IInv, NEW op \in OpIds, Live(op), Queued(op),
           NEW r \in Readers, NEW gen \in Generations,
           pending[op].reader = r, pending[op].gen = gen,
           NEW loaded \in Nat, loaded < size[op], NEW queue \in Seq(Job),
           SubmitsNext(r, gen, op, loaded, queue),
           UniqueOps(queue), Members(queue) \subseteq Members(jobs), op \notin OpsOf(queue),
           stack' \in Seq(Frame), UniqueOps(stack'), Members(stack') \subseteq Members(stack),
           op \notin OpsOf(stack'),
           \A x \in OpIds \ {op} :
              /\ x \in OpsOf(queue) <=> x \in OpsOf(jobs)
              /\ x \in OpsOf(stack') <=> x \in OpsOf(stack),
           UNCHANGED <<flagShut, nextGen, size, boa, last>>
    PROVE  TypeOK' /\ IInv'
<1>1. PICK pump : pump = [started |-> TRUE, loaded |-> loaded]
  OBVIOUS
<1>2. size[op] \in Nat /\ loaded <= size[op] /\ loaded \in Offsets
  <2>1. size[op] \in Sizes \cup {0} /\ size[op] \in Nat
    BY OpTypes
  <2>2. loaded <= size[op]
    BY <2>1
  <2> QED
    BY <2>1, <2>2, DataTypes
<1>3. pump \in Pump /\ pump.loaded = loaded /\ pump.started
  BY <1>1, <1>2 DEF Pump
<1>4. pumps' = [pumps EXCEPT ![op] = pump]
  BY <1>1 DEF SubmitsNext
<1>5. CASE Settles(r, gen, op, "error", queue)
  <2>1. OnTheWay(op) = 0
    BY QueuedAlone
  <2>2. pump \in Pump \cup {NoOp} /\ (pump # NoOp => pump.loaded <= size[op] /\ pump.started)
    BY <1>2, <1>3
  <2> QED
    BY <1>4, <1>5, <2>1, <2>2, SettleStep
<1>6. ASSUME requests' = [requests EXCEPT ![op] = Append(requests[op], loaded)],
             jobs' = queue,
             UNCHANGED <<bridgeVars, native, mirror, pending, payloads, landed>>
      PROVE  TypeOK' /\ IInv'
  <2>1. SameReads /\ nextId' = nextId
    BY <1>6 DEF SameReads, bridgeVars
  <2>2. ~Queued(op)' /\ \A x \in OpIds \ {op} : Queued(x)' <=> Queued(x)
    BY <1>6 DEF Queued
  <2>3. requests'[op] = Append(requests[op], loaded)
        /\ \A x \in OpIds \ {op} : requests'[x] = requests[x]
    BY <1>6 DEF TypeOK
  <2>4. pumps'[op] = [started |-> TRUE, loaded |-> loaded]
        /\ \A x \in OpIds \ {op} : pumps'[x] = pumps[x]
    BY <1>1, <1>4 DEF TypeOK
  <2>5. OpAt(op)' /\ requests'[op] \in Seq(Offsets) /\ pumps'[op] \in Pump
    BY <1>2, <1>6, <2>1, <2>2, <2>3, <2>4, AsksOp
  <2>6. requests' \in [OpIds -> Seq(Offsets)] /\ pumps' \in [OpIds -> Pump \cup {NoOp}]
    <3>1. Append(requests[op], loaded) \in Seq(Offsets) /\ pump \in Pump \cup {NoOp}
      BY <1>3, <2>3, <2>5
    <3> QED
      BY <1>4, <1>6, <3>1 DEF TypeOK
  <2>7. \A x \in OpIds \ {op} : SameOp(x)
    BY <1>6, <2>2, <2>3, <2>4 DEF SameOp
  <2>8. QueuesBecome({}, {})
    <3>1. \A x \in OpIds : ~(x \in OpsOf(jobs') /\ x \in OpsOf(stack'))
      BY <1>6 DEF IInv, QueuesInv
    <3> QED
      BY <1>6, <3>1 DEF QueuesBecome
  <2>9. /\ native' \in [Readers -> Native] /\ last' \in [Readers -> {"none"} \cup Events]
    BY <1>6 DEF TypeOK
  <2> QED
    BY <1>6, <2>1, <2>5, <2>6, <2>7, <2>8, <2>9, QuietStep DEF SameReads
<1> QED
  BY <1>5, <1>6 DEF SubmitsNext

-----------------------------------------------------------------------------
(* FileReading jobs.                                                        *)

\* The job that runs.
LEMMA HeadJob ==
    ASSUME TypeOK, IInv, JobRuns
    PROVE  /\ stack = << >> /\ OpsOf(stack) = {} /\ Members(stack) = {} /\ UniqueOps(stack)
           /\ Head(jobs) \in Job /\ JobFits(Head(jobs))
           /\ Tail(jobs) \in Seq(Job) /\ UniqueOps(Tail(jobs))
           /\ Members(Tail(jobs)) \subseteq Members(jobs)
           /\ Head(jobs).op \in OpIds =>
                 Queued(Head(jobs).op) /\ Head(jobs).op \notin OpsOf(Tail(jobs))
           /\ \A x \in OpIds \ {Head(jobs).op} : x \in OpsOf(Tail(jobs)) <=> x \in OpsOf(jobs)
<1>1. stack = << >> /\ jobs # << >>
  BY DEF JobRuns
<1>2. OpsOf(stack) = {} /\ Members(stack) = {} /\ UniqueOps(stack)
  BY <1>1, NoneOps
<1>3. jobs \in Seq(Job) /\ UniqueOps(jobs)
  BY DEF TypeOK, IInv, QueuesInv
<1>4. /\ Head(jobs) \in Job /\ Head(jobs) \in Members(jobs) /\ Head(jobs).op \in OpsOf(jobs)
      /\ Tail(jobs) \in Seq(Job) /\ UniqueOps(Tail(jobs))
      /\ Members(Tail(jobs)) \subseteq Members(jobs)
      /\ OpsOf(jobs) = OpsOf(Tail(jobs)) \cup {Head(jobs).op}
      /\ Head(jobs).op = NoOp \/ Head(jobs).op \notin OpsOf(Tail(jobs))
  BY <1>1, <1>3, TailOps
<1>5. JobFits(Head(jobs))
  BY <1>4 DEF IInv, QueuesInv
<1> QED
  BY <1>1, <1>2, <1>4, <1>5, DataTypes DEF Queued

\* A pump job that runs is of a live read.
LEMMA PumpJobLive ==
    ASSUME TypeOK, IInv, JobRuns, MayRun(Head(jobs)), Head(jobs).does = "pump"
    PROVE  LET job == Head(jobs)
           IN /\ job.op \in OpIds /\ Live(job.op) /\ Queued(job.op)
              /\ job.reader \in Readers /\ job.gen \in Generations
              /\ pending[job.op].reader = job.reader /\ pending[job.op].gen = job.gen
              /\ job.chunk = "chunk" => job.pump.loaded < size[job.op]
              /\ ~job.pump.started => job.pump.loaded = 0
              /\ OnTheWay(job.op) = 0
<1>1. PICK job : job = Head(jobs)
  OBVIOUS
<1>2. job \in Job /\ JobFits(job) /\ (job.op \in OpIds => Queued(job.op))
  BY <1>1, HeadJob
<1>3. job.op \in OpIds /\ job.op # NoOp /\ job.reader \in Readers /\ job.gen \in Generations
  BY <1>1, <1>2, JobTypes, DataTypes DEF JobFits
<1>4. IsCurrent(job.reader, job.gen) /\ ~flagShut
  BY <1>1 DEF MayRun, ContextGone
<1>5. Live(job.op) /\ pending[job.op].reader = job.reader /\ pending[job.op].gen = job.gen
  BY <1>2, <1>3, <1>4 DEF JobFits, Tied
<1>6. OnTheWay(job.op) = 0
  BY <1>2, <1>3, QueuedAlone
<1> QED
  BY <1>1, <1>2, <1>3, <1>5, <1>6 DEF JobFits

\* A job that runs without settling anything: its operation, if it has one, may
\* go to the frame that it starts.
LEMMA JobQuiet ==
    ASSUME TypeOK, IInv, JobRuns, jobs' = Tail(jobs),
           UNCHANGED <<bridgeVars, flagShut, native, nextGen, mirror, pending, payloads, size,
                       requests, landed, boa>>,
           pumps' \in [OpIds -> Pump \cup {NoOp}],
           \A x \in OpIds \ {Head(jobs).op} : pumps'[x] = pumps[x],
           Head(jobs).op \in OpIds =>
              \/ pumps'[Head(jobs).op] = pumps[Head(jobs).op]
              \/ /\ pumps'[Head(jobs).op].loaded <= size[Head(jobs).op]
                 /\ ~pumps'[Head(jobs).op].started => pumps'[Head(jobs).op].loaded = 0,
           last' \in [Readers -> {"none"} \cup Events],
           \/ /\ stack' = stack
              /\ Head(jobs).op \in OpIds => ~(Live(Head(jobs).op) /\ ~flagShut)
           \/ \E frame \in Frame : /\ stack' = <<frame>> \o << >> /\ frame.op = Head(jobs).op
                                   /\ FrameFits(frame)
    PROVE  TypeOK' /\ IInv'
<1>1. PICK op : op = Head(jobs).op
  OBVIOUS
<1>2. /\ stack = << >> /\ OpsOf(stack) = {} /\ Members(stack) = {} /\ UniqueOps(stack)
      /\ Tail(jobs) \in Seq(Job) /\ UniqueOps(Tail(jobs))
      /\ Members(Tail(jobs)) \subseteq Members(jobs)
      /\ op \in OpIds => Queued(op) /\ op \notin OpsOf(Tail(jobs))
      /\ \A x \in OpIds \ {op} : x \in OpsOf(Tail(jobs)) <=> x \in OpsOf(jobs)
  BY <1>1, HeadJob
<1>3. SameReads /\ nextId' = nextId
  BY DEF SameReads, bridgeVars
<1>4. PICK frames : /\ stack' \in Seq(Frame) /\ UniqueOps(stack') /\ Members(stack') = frames
                    /\ \A x \in OpIds \ {op} : x \notin OpsOf(stack')
                    /\ op \in OpIds /\ Live(op) /\ ~flagShut => op \in OpsOf(stack')
                    /\ \A frame \in frames : FrameFits(frame)
  <2>1. CASE stack' = stack /\ (op \in OpIds => ~(Live(op) /\ ~flagShut))
    <3>1. stack' \in Seq(Frame) /\ UniqueOps(stack') /\ Members(stack') = {} /\ OpsOf(stack') = {}
      BY <1>2, <2>1 DEF TypeOK
    <3> QED
      BY <2>1, <3>1
  <2>2. ASSUME NEW frame \in Frame, stack' = <<frame>> \o << >>, frame.op = op, FrameFits(frame)
        PROVE  /\ stack' \in Seq(Frame) /\ UniqueOps(stack') /\ Members(stack') = {frame}
               /\ OpsOf(stack') = {op}
    <3>1. PICK none : none = << >>
      OBVIOUS
    <3>2. none \in Seq(Frame) /\ UniqueOps(none) /\ Members(none) = {} /\ OpsOf(none) = {}
      BY <3>1, NoneOps
    <3>3. op = NoOp \/ op \notin OpsOf(none)
      BY <3>2
    <3>4. /\ <<frame>> \o none \in Seq(Frame) /\ UniqueOps(<<frame>> \o none)
          /\ Members(<<frame>> \o none) = Members(none) \cup {frame}
          /\ OpsOf(<<frame>> \o none) = OpsOf(none) \cup {op}
      BY <2>2, <3>2, <3>3, PushOps
    <3> QED
      BY <2>2, <3>1, <3>2, <3>4
  <2> QED
    BY <1>1, <2>1, <2>2
<1>5. \A frame \in frames : FrameFits(frame)'
  <2>1. ASSUME NEW frame \in frames PROVE FrameFits(frame)'
    <3>1. FrameFits(frame)
      BY <1>4
    <3> QED
      BY <1>3, <3>1 DEF FrameFits, Tied, IsCurrent, Live
  <2> QED
    BY <2>1
<1>6. QueuesBecome({}, frames)
  <2>1. ASSUME NEW x \in OpIds PROVE ~(x \in OpsOf(jobs') /\ x \in OpsOf(stack'))
    BY <1>2, <1>4
  <2> QED
    BY <1>2, <1>4, <1>5, <2>1 DEF QueuesBecome
<1>7. ASSUME NEW x \in OpIds \ {op} PROVE SameOp(x)
  <2>1. Queued(x)' <=> Queued(x)
    BY <1>2, <1>4 DEF Queued
  <2> QED
    BY <1>1, <2>1 DEF SameOp
<1>8. ASSUME op \in OpIds PROVE OpAt(op)'
  <2>1. Queued(op) /\ (Live(op) /\ ~flagShut => Queued(op)')
    BY <1>2, <1>4, <1>8 DEF Queued
  <2> QED
    BY <1>1, <1>3, <1>8, <2>1, MovesOp
<1>9. native' \in [Readers -> Native] /\ requests' \in [OpIds -> Seq(Offsets)]
  BY DEF TypeOK
<1> QED
  BY <1>3, <1>6, <1>7, <1>8, <1>9, QuietStep DEF SameReads

\* A job that is dropped is of a read that was replaced, or of no operation.
LEMMA DropJobStep ==
    ASSUME TypeOK, IInv, DropJob PROVE TypeOK' /\ IInv'
<1>1. /\ JobRuns /\ ~MayRun(Head(jobs)) /\ jobs' = Tail(jobs)
      /\ UNCHANGED <<bridgeVars, flagShut, native, nextGen, mirror, pending, payloads, size,
                     requests, landed, boa, pumps, stack, last>>
  BY DEF DropJob, noEvents
<1>2. PICK job : job = Head(jobs)
  OBVIOUS
<1>3. job \in Job /\ JobFits(job)
  BY <1>1, <1>2, HeadJob
<1>4. ASSUME job.op \in OpIds, Live(job.op), ~flagShut PROVE FALSE
  <2>1. job.op # NoOp /\ job.does = "pump"
    BY <1>3, <1>4, DataTypes DEF JobFits
  <2>2. pending[job.op].reader = job.reader /\ pending[job.op].gen = job.gen
    BY <1>3, <1>4, <2>1 DEF JobFits, Tied
  <2>3. IsCurrent(job.reader, job.gen)
    BY <1>4, <2>2 DEF IInv, OpAt, ReadAt, IsCurrent
  <2>4. MayRun(job)
    BY <1>4, <2>1, <2>3 DEF MayRun, ContextGone
  <2> QED
    BY <1>1, <1>2, <2>4
<1>5. pumps' \in [OpIds -> Pump \cup {NoOp}] /\ last' \in [Readers -> {"none"} \cup Events]
  BY <1>1 DEF TypeOK
<1> QED
  BY <1>1, <1>2, <1>4, <1>5, JobQuiet

\* The first job of a read fires loadstart.
LEMMA RunLoadstartStep ==
    ASSUME TypeOK, IInv, RunLoadstart PROVE TypeOK' /\ IInv'
<1>1. PICK job, started :
         /\ job = Head(jobs) /\ started = [job.pump EXCEPT !.started = TRUE]
         /\ job.does = "pump" /\ ~job.pump.started
         /\ pumps' = [pumps EXCEPT ![job.op] = started]
         /\ Dispatch(FrameOf("loadstart", job.reader, job.gen, job.op, 0, job.chunk), << >>)
  BY DEF RunLoadstart
<1>2. /\ JobRuns /\ MayRun(Head(jobs)) /\ jobs' = Tail(jobs)
      /\ UNCHANGED <<bridgeVars, flagShut, native, nextGen, mirror, pending, payloads, size,
                     requests, landed, boa>>
  BY DEF RunLoadstart, noEvents
<1>3. /\ job.op \in OpIds /\ Live(job.op) /\ Queued(job.op)
      /\ job.reader \in Readers /\ job.gen \in Generations
      /\ pending[job.op].reader = job.reader /\ pending[job.op].gen = job.gen
      /\ job.chunk = "chunk" => job.pump.loaded < size[job.op]
      /\ job.pump.loaded = 0
  BY <1>1, <1>2, PumpJobLive
<1>4. job \in Job /\ job.chunk \in Kinds /\ job.pump \in Pump /\ JobFits(job)
  BY <1>1, <1>2, HeadJob, JobTypes
<1>5. started \in Pump /\ started.loaded = 0 /\ started.started
  BY <1>1, <1>3, <1>4 DEF Pump
<1>6. PICK frame : frame = FrameOf("loadstart", job.reader, job.gen, job.op, 0, job.chunk)
  OBVIOUS
<1>7. /\ frame \in Frame /\ frame.op = job.op /\ frame.event = "loadstart"
      /\ frame.reader = job.reader /\ frame.gen = job.gen /\ frame.chunk = job.chunk
  <2>1. frame \in Frame
    BY <1>3, <1>4, <1>6, MadeTypes, DataTypes DEF Events
  <2> QED
    BY <1>6, <2>1 DEF FrameOf
<1>8. FrameFits(frame)
  BY <1>3, <1>4, <1>7, DataTypes DEF FrameFits, JobFits
<1>9. stack' = <<frame>> \o << >> /\ last' = [last EXCEPT ![frame.reader] = "loadstart"]
  BY <1>1, <1>6, <1>7 DEF Dispatch
<1>10. /\ pumps' \in [OpIds -> Pump \cup {NoOp}] /\ last' \in [Readers -> {"none"} \cup Events]
       /\ pumps'[job.op] = started /\ \A x \in OpIds \ {job.op} : pumps'[x] = pumps[x]
  BY <1>1, <1>3, <1>5, <1>9 DEF TypeOK, Events
<1>11. pumps'[job.op].loaded <= size[job.op] /\ pumps'[job.op].started
  BY <1>3, <1>5, <1>10, OpTypes
<1> QED
  BY <1>1, <1>2, <1>7, <1>8, <1>9, <1>10, <1>11, JobQuiet

\* load, error and loadend.
LEMMA RunDispatchStep ==
    ASSUME TypeOK, IInv, RunDispatch PROVE TypeOK' /\ IInv'
<1>1. PICK job : job = Head(jobs)
  OBVIOUS
<1>2. /\ JobRuns /\ MayRun(job) /\ jobs' = Tail(jobs) /\ job.does # "pump"
      /\ Dispatch(PlainFrame(job.does, job.reader, job.gen), << >>)
      /\ UNCHANGED <<bridgeVars, flagShut, native, nextGen, mirror, pending, payloads, size,
                     requests, landed, boa, pumps>>
  BY <1>1 DEF RunDispatch, noEvents
<1>3. /\ job \in Job /\ JobFits(job) /\ job.op = NoOp
      /\ job.reader \in Readers /\ job.gen \in Generations
      /\ job.does \in {"load", "error", "loadend"}
  BY <1>1, <1>2, HeadJob, JobTypes DEF JobFits
<1>4. PICK frame : frame = PlainFrame(job.does, job.reader, job.gen)
  OBVIOUS
<1>5. /\ frame \in Frame /\ frame.op = NoOp /\ frame.event = job.does
      /\ frame.reader = job.reader /\ frame.gen = job.gen
  <2>1. frame \in Frame
    BY <1>3, <1>4, MadeTypes DEF Events
  <2> QED
    BY <1>4, <2>1 DEF PlainFrame, FrameOf
<1>6. FrameFits(frame)
  BY <1>3, <1>5 DEF FrameFits, JobFits
<1>7. stack' = <<frame>> \o << >> /\ last' = [last EXCEPT ![frame.reader] = job.does]
  BY <1>2, <1>3, <1>4, <1>5 DEF Dispatch
<1>8. /\ pumps' \in [OpIds -> Pump \cup {NoOp}] /\ last' \in [Readers -> {"none"} \cup Events]
      /\ \A x \in OpIds : pumps'[x] = pumps[x]
  BY <1>2, <1>3, <1>7 DEF TypeOK, Events
<1>9. NoOp \notin OpIds
  BY DataTypes
<1> QED
  BY <1>1, <1>2, <1>3, <1>5, <1>6, <1>7, <1>8, <1>9, JobQuiet

\* A pump job fires progress, or the final progress event.
LEMMA FiresStep ==
    ASSUME TypeOK, IInv, JobRuns, MayRun(Head(jobs)), NEW job, job = Head(jobs),
           job.does = "pump", NEW event \in {"final", "progress"}, NEW loaded \in Offsets,
           event = "progress" => loaded < size[job.op],
           Fires(job, event, loaded), UNCHANGED <<flagShut, nextGen, size, boa>>
    PROVE  TypeOK' /\ IInv'
<1>1. /\ Dispatch(FrameOf(event, job.reader, job.gen, job.op, loaded, "chunk"), << >>)
      /\ jobs' = Tail(jobs)
      /\ UNCHANGED <<bridgeVars, native, mirror, pending, pumps, payloads, requests, landed>>
  BY DEF Fires
<1>2. /\ job.op \in OpIds /\ Live(job.op) /\ Queued(job.op)
      /\ job.reader \in Readers /\ job.gen \in Generations
  BY PumpJobLive
<1>3. job \in Job /\ JobFits(job)
  BY HeadJob
<1>4. PICK frame : frame = FrameOf(event, job.reader, job.gen, job.op, loaded, "chunk")
  OBVIOUS
<1>5. /\ frame \in Frame /\ frame.op = job.op /\ frame.event = event
      /\ frame.reader = job.reader /\ frame.gen = job.gen /\ frame.loaded = loaded
  <2>1. frame \in Frame
    BY <1>2, <1>4, MadeTypes DEF Events, Kinds
  <2> QED
    BY <1>4, <2>1 DEF FrameOf
<1>6. FrameFits(frame)
  BY <1>2, <1>3, <1>5, DataTypes DEF FrameFits, JobFits
<1>7. /\ stack' = <<frame>> \o << >>
      /\ last' = [last EXCEPT ![job.reader] = IF event = "final" THEN "progress" ELSE event]
  BY <1>1, <1>4, <1>5 DEF Dispatch
<1>8. /\ pumps' \in [OpIds -> Pump \cup {NoOp}] /\ last' \in [Readers -> {"none"} \cup Events]
      /\ \A x \in OpIds : pumps'[x] = pumps[x]
  BY <1>1, <1>2, <1>7 DEF TypeOK, Events
<1> QED
  BY <1>1, <1>2, <1>5, <1>6, <1>7, <1>8, JobQuiet

\* run_pump.
LEMMA RunPumpStep ==
    ASSUME TypeOK, IInv, RunPump PROVE TypeOK' /\ IInv'
<1>1. PICK job, loaded : job = Head(jobs) /\ loaded = job.pump.loaded + 1
  OBVIOUS
<1>2. /\ JobRuns /\ MayRun(Head(jobs)) /\ job.does = "pump" /\ job.pump.started
      /\ UNCHANGED <<flagShut, nextGen, size, boa>>
  BY <1>1 DEF RunPump
<1>3. \/ FailsPump(job)
      \/ Fires(job, "final", 0)
      \/ /\ job.chunk = "chunk"
         /\ \/ loaded < size[job.op] /\ Fires(job, "progress", loaded)
            \/ /\ loaded < size[job.op]
               /\ SubmitsNext(job.reader, job.gen, job.op, loaded, Tail(jobs))
               /\ UNCHANGED <<stack, last>>
            \/ Fires(job, "final", loaded)
  BY <1>1 DEF RunPump, IsProgressDue
<1>4. /\ job.op \in OpIds /\ Live(job.op) /\ Queued(job.op)
      /\ job.reader \in Readers /\ job.gen \in Generations
      /\ pending[job.op].reader = job.reader /\ pending[job.op].gen = job.gen
      /\ job.chunk = "chunk" => job.pump.loaded < size[job.op]
      /\ OnTheWay(job.op) = 0
  BY <1>1, <1>2, PumpJobLive
<1>5. /\ stack = << >> /\ OpsOf(stack) = {} /\ Members(stack) = {} /\ UniqueOps(stack)
      /\ job \in Job
      /\ Tail(jobs) \in Seq(Job) /\ UniqueOps(Tail(jobs))
      /\ Members(Tail(jobs)) \subseteq Members(jobs)
      /\ job.op \notin OpsOf(Tail(jobs))
      /\ \A x \in OpIds \ {job.op} : x \in OpsOf(Tail(jobs)) <=> x \in OpsOf(jobs)
  BY <1>1, <1>2, <1>4, HeadJob
<1>6. /\ job.pump.loaded \in Nat /\ size[job.op] \in Nat /\ size[job.op] \in Sizes \cup {0}
      /\ loaded \in Nat
  BY <1>1, <1>4, <1>5, JobTypes, OpTypes
<1>7. job.chunk = "chunk" => loaded \in Offsets
  <2>1. job.chunk = "chunk" => loaded <= size[job.op]
    BY <1>1, <1>4, <1>6
  <2> QED
    BY <1>6, <2>1, DataTypes
<1>8. stack \in Seq(Frame)
  BY DEF TypeOK
<1>9. CASE FailsPump(job)
  <2>1. /\ Settles(job.reader, job.gen, job.op, "error", Tail(jobs))
        /\ pumps' = [pumps EXCEPT ![job.op] = NoOp]
        /\ UNCHANGED <<stack, last>>
    BY <1>9 DEF FailsPump
  <2>2. PICK queue : queue = Tail(jobs)
    OBVIOUS
  <2>3. PICK r, gen, op : r = job.reader /\ gen = job.gen /\ op = job.op
    OBVIOUS
  <2>4. /\ queue \in Seq(Job) /\ UniqueOps(queue) /\ Members(queue) \subseteq Members(jobs)
        /\ op \notin OpsOf(queue)
        /\ \A x \in OpIds \ {op} : x \in OpsOf(queue) <=> x \in OpsOf(jobs)
    BY <1>5, <2>2, <2>3
  <2>5. /\ stack' \in Seq(Frame) /\ UniqueOps(stack') /\ Members(stack') \subseteq Members(stack)
        /\ op \notin OpsOf(stack')
        /\ \A x \in OpIds \ {op} : x \in OpsOf(stack') <=> x \in OpsOf(stack)
    BY <1>5, <1>8, <2>1
  <2>6. /\ op \in OpIds /\ Live(op) /\ r \in Readers /\ gen \in Generations
        /\ pending[op].reader = r /\ pending[op].gen = gen /\ OnTheWay(op) = 0
        /\ Settles(r, gen, op, "error", queue) /\ pumps' = [pumps EXCEPT ![op] = NoOp]
    BY <1>4, <2>1, <2>2, <2>3
  <2> QED
    BY <1>2, <2>1, <2>4, <2>5, <2>6, SettleStep
<1>10. CASE Fires(job, "final", 0)
  BY <1>1, <1>2, <1>10, FiresStep, DataTypes
<1>11. CASE job.chunk = "chunk" /\ loaded < size[job.op] /\ Fires(job, "progress", loaded)
  BY <1>1, <1>2, <1>7, <1>11, FiresStep
<1>12. CASE job.chunk = "chunk" /\ Fires(job, "final", loaded)
  BY <1>1, <1>2, <1>7, <1>12, FiresStep
<1>13. CASE /\ loaded < size[job.op]
            /\ SubmitsNext(job.reader, job.gen, job.op, loaded, Tail(jobs))
            /\ UNCHANGED <<stack, last>>
  <2>1. PICK queue : queue = Tail(jobs)
    OBVIOUS
  <2>2. PICK r, gen, op : r = job.reader /\ gen = job.gen /\ op = job.op
    OBVIOUS
  <2>3. /\ queue \in Seq(Job) /\ UniqueOps(queue) /\ Members(queue) \subseteq Members(jobs)
        /\ op \notin OpsOf(queue)
        /\ \A x \in OpIds \ {op} : x \in OpsOf(queue) <=> x \in OpsOf(jobs)
    BY <1>5, <2>1, <2>2
  <2>4. /\ stack' \in Seq(Frame) /\ UniqueOps(stack') /\ Members(stack') \subseteq Members(stack)
        /\ op \notin OpsOf(stack')
        /\ \A x \in OpIds \ {op} : x \in OpsOf(stack') <=> x \in OpsOf(stack)
    BY <1>5, <1>8, <1>13
  <2>5. /\ op \in OpIds /\ Live(op) /\ Queued(op) /\ r \in Readers /\ gen \in Generations
        /\ pending[op].reader = r /\ pending[op].gen = gen
        /\ SubmitsNext(r, gen, op, loaded, queue) /\ loaded < size[op]
    BY <1>4, <1>13, <2>1, <2>2
  <2> QED
    BY <1>2, <1>6, <1>13, <2>3, <2>4, <2>5, SubmitStep
<1> QED
  BY <1>3, <1>9, <1>10, <1>11, <1>12, <1>13

-----------------------------------------------------------------------------
(* The handlers of an event have returned.                                  *)

\* The frame whose handlers return.
LEMMA HeadFrame ==
    ASSUME TypeOK, IInv, stack # << >>
    PROVE  /\ Head(stack) \in Frame /\ FrameFits(Head(stack))
           /\ Tail(stack) \in Seq(Frame) /\ UniqueOps(Tail(stack))
           /\ Members(Tail(stack)) \subseteq Members(stack)
           /\ Head(stack).op \in OpIds =>
                 /\ Queued(Head(stack).op) /\ Head(stack).op \notin OpsOf(Tail(stack))
                 /\ Head(stack).op \notin OpsOf(jobs)
           /\ \A x \in OpIds \ {Head(stack).op} : x \in OpsOf(Tail(stack)) <=> x \in OpsOf(stack)
           /\ jobs \in Seq(Job) /\ UniqueOps(jobs)
<1>1. stack \in Seq(Frame) /\ UniqueOps(stack) /\ jobs \in Seq(Job) /\ UniqueOps(jobs)
  BY DEF TypeOK, IInv, QueuesInv
<1>2. /\ Head(stack) \in Frame /\ Head(stack) \in Members(stack) /\ Head(stack).op \in OpsOf(stack)
      /\ Tail(stack) \in Seq(Frame) /\ UniqueOps(Tail(stack))
      /\ Members(Tail(stack)) \subseteq Members(stack)
      /\ OpsOf(stack) = OpsOf(Tail(stack)) \cup {Head(stack).op}
      /\ Head(stack).op = NoOp \/ Head(stack).op \notin OpsOf(Tail(stack))
  BY <1>1, TailOps
<1>3. FrameFits(Head(stack))
  BY <1>2 DEF IInv, QueuesInv
<1>4. Head(stack).op \in OpIds => Head(stack).op \notin OpsOf(jobs)
  BY <1>2 DEF IInv, QueuesInv
<1> QED
  BY <1>1, <1>2, <1>3, <1>4, DataTypes DEF Queued

\* A read whose progress handlers returned is still live when it goes on.
LEMMA GoesOnLive ==
    ASSUME TypeOK, IInv, stack # << >>, GoesOn(Head(stack)),
           Head(stack).event \in {"progress", "final"}
    PROVE  LET frame == Head(stack)
           IN /\ frame.op \in OpIds /\ Live(frame.op) /\ Queued(frame.op)
              /\ frame.reader \in Readers /\ frame.gen \in Generations
              /\ pending[frame.op].reader = frame.reader /\ pending[frame.op].gen = frame.gen
              /\ frame.event = "progress" => frame.loaded < size[frame.op]
              /\ frame.loaded \in Nat /\ OnTheWay(frame.op) = 0
<1>1. PICK frame : frame = Head(stack)
  OBVIOUS
<1>2. frame \in Frame /\ FrameFits(frame) /\ (frame.op \in OpIds => Queued(frame.op))
  BY <1>1, HeadFrame
<1>3. /\ frame.op \in OpIds /\ frame.op # NoOp /\ frame.loaded \in Nat
      /\ frame.reader \in Readers /\ frame.gen \in Generations
  BY <1>1, <1>2, FrameTypes, DataTypes DEF FrameFits
<1>4. IsCurrent(frame.reader, frame.gen) /\ ~flagShut
  BY <1>1 DEF GoesOn, ContextGone
<1>5. Live(frame.op) /\ pending[frame.op].reader = frame.reader /\ pending[frame.op].gen = frame.gen
  BY <1>2, <1>3, <1>4 DEF FrameFits, Tied
<1>6. OnTheWay(frame.op) = 0
  BY <1>2, <1>3, QueuedAlone
<1> QED
  BY <1>1, <1>2, <1>3, <1>5, <1>6 DEF FrameFits

\* The stack after handlers returned: it may get plain frames.
FramesBecome(frames) ==
    /\ stack' \in Seq(Frame) /\ UniqueOps(stack')
    /\ Members(stack') \subseteq Members(stack) \cup frames
    /\ \A x \in OpIds : x \in OpsOf(stack') <=> x \in OpsOf(Tail(stack))
    /\ \A frame \in frames : frame \in Frame /\ FrameFits(frame)

\* The jobs then: a live operation `op` that leaves the stack has one.
JobsBecome(new, op) ==
    /\ jobs' \in Seq(Job) /\ UniqueOps(jobs')
    /\ Members(jobs') \subseteq Members(jobs) \cup new
    /\ \A x \in OpIds \ {op} : x \in OpsOf(jobs') <=> x \in OpsOf(jobs)
    /\ op \in OpIds /\ Live(op) /\ ~flagShut => op \in OpsOf(jobs')
    /\ \A job \in new : job \in Job /\ JobFits(job)

\* Handlers return and nothing is settled: the operation, if the frame has one,
\* may go to the job that is queued, and a plain event may follow at once.
LEMMA FrameQuiet ==
    ASSUME TypeOK, IInv, stack # << >>,
           UNCHANGED <<bridgeVars, flagShut, nextGen, mirror, pending, pumps, payloads, size,
                       requests, landed, boa>>,
           native' \in [Readers -> Native],
           \A r \in Readers : native'[r].ready = native[r].ready /\ native'[r].gen = native[r].gen,
           last' \in [Readers -> {"none"} \cup Events],
           \/ stack' = Tail(stack)
           \/ \E frame \in Frame : /\ stack' = <<frame>> \o Tail(stack) /\ frame.op = NoOp
                                   /\ FrameFits(frame),
           \/ /\ jobs' = jobs
              /\ Head(stack).op \in OpIds => ~(Live(Head(stack).op) /\ ~flagShut)
           \/ \E job \in Job : /\ jobs' = Append(jobs, job) /\ job.op = Head(stack).op
                               /\ JobFits(job)
    PROVE  TypeOK' /\ IInv'
<1>1. PICK op : op = Head(stack).op
  OBVIOUS
<1>2. /\ Tail(stack) \in Seq(Frame) /\ UniqueOps(Tail(stack))
      /\ Members(Tail(stack)) \subseteq Members(stack)
      /\ op \in OpIds => Queued(op) /\ op \notin OpsOf(Tail(stack)) /\ op \notin OpsOf(jobs)
      /\ \A x \in OpIds \ {op} : x \in OpsOf(Tail(stack)) <=> x \in OpsOf(stack)
      /\ jobs \in Seq(Job) /\ UniqueOps(jobs)
      /\ op \in OpIds \cup {NoOp} /\ NoOp \notin OpIds
  BY <1>1, HeadFrame, FrameTypes, DataTypes
<1>3. SameReads /\ nextId' = nextId /\ Grows
  BY DEF SameReads, bridgeVars, Grows
<1>4. PICK frames : FramesBecome(frames)
  <2>1. CASE stack' = Tail(stack)
    <3>1. FramesBecome({})
      BY <1>2, <2>1 DEF FramesBecome
    <3> QED
      BY <3>1
  <2>2. ASSUME NEW frame \in Frame, stack' = <<frame>> \o Tail(stack), frame.op = NoOp,
               FrameFits(frame)
        PROVE  FramesBecome({frame})
    <3>1. PICK rest : rest = Tail(stack)
      OBVIOUS
    <3>2. rest \in Seq(Frame) /\ UniqueOps(rest) /\ Members(rest) \subseteq Members(stack)
      BY <1>2, <3>1
    <3>3. /\ <<frame>> \o rest \in Seq(Frame) /\ UniqueOps(<<frame>> \o rest)
          /\ Members(<<frame>> \o rest) = Members(rest) \cup {frame}
          /\ OpsOf(<<frame>> \o rest) = OpsOf(rest) \cup {frame.op}
      BY <2>2, <3>2, PushOps
    <3> QED
      BY <1>2, <2>2, <3>1, <3>2, <3>3 DEF FramesBecome
  <2> QED
    BY <2>1, <2>2
<1>5. PICK new : JobsBecome(new, op)
  <2>1. CASE jobs' = jobs /\ (op \in OpIds => ~(Live(op) /\ ~flagShut))
    <3>1. JobsBecome({}, op)
      BY <1>2, <2>1 DEF JobsBecome
    <3> QED
      BY <3>1
  <2>2. ASSUME NEW job \in Job, jobs' = Append(jobs, job), job.op = op, JobFits(job)
        PROVE  JobsBecome({job}, op)
    <3>1. job.op = NoOp \/ job.op \notin OpsOf(jobs)
      BY <1>2, <2>2
    <3>2. /\ Append(jobs, job) \in Seq(Job) /\ UniqueOps(Append(jobs, job))
          /\ Members(Append(jobs, job)) = Members(jobs) \cup {job}
          /\ OpsOf(Append(jobs, job)) = OpsOf(jobs) \cup {job.op}
      BY <1>2, <2>2, <3>1, AppendOps
    <3> QED
      BY <2>2, <3>2 DEF JobsBecome
  <2> QED
    BY <1>1, <2>1, <2>2
<1>6. ASSUME NEW x, NEW r \in Readers, NEW gen PROVE Keeps(x, r, gen)
  BY DEF Keeps, IsCurrent
<1>7. \A job \in new : JobFits(job)'
  <2>1. ASSUME NEW job \in new PROVE JobFits(job)'
    <3>1. job \in Job /\ JobFits(job) /\ job.reader \in Readers
      BY <1>5, JobTypes DEF JobsBecome
    <3> QED
      BY <1>3, <1>6, <3>1, JobKeeps
  <2> QED
    BY <2>1
<1>8. \A frame \in frames : FrameFits(frame)'
  <2>1. ASSUME NEW frame \in frames PROVE FrameFits(frame)'
    <3>1. frame \in Frame /\ FrameFits(frame) /\ frame.reader \in Readers
      BY <1>4, FrameTypes DEF FramesBecome
    <3> QED
      BY <1>3, <1>6, <3>1, FrameKeeps
  <2> QED
    BY <2>1
<1>9. QueuesBecome(new, frames)
  <2>1. ASSUME NEW x \in OpIds PROVE ~(x \in OpsOf(jobs') /\ x \in OpsOf(stack'))
    <3>1. ~(x \in OpsOf(jobs) /\ x \in OpsOf(stack))
      BY DEF IInv, QueuesInv
    <3> QED
      BY <1>2, <1>4, <1>5, <3>1 DEF FramesBecome, JobsBecome
  <2> QED
    BY <1>4, <1>5, <1>7, <1>8, <2>1 DEF QueuesBecome, FramesBecome, JobsBecome
<1>10. ASSUME NEW x \in OpIds \ {op} PROVE SameOp(x)
  <2>1. Queued(x)' <=> Queued(x)
    BY <1>2, <1>4, <1>5 DEF Queued, FramesBecome, JobsBecome
  <2> QED
    BY <2>1 DEF SameOp
<1>11. ASSUME op \in OpIds PROVE OpAt(op)'
  <2>1. Queued(op) /\ (Live(op) /\ ~flagShut => Queued(op)')
    BY <1>2, <1>5, <1>11 DEF Queued, JobsBecome
  <2> QED
    BY <1>3, <1>11, <2>1, MovesOp
<1>12. requests' \in [OpIds -> Seq(Offsets)] /\ pumps' \in [OpIds -> Pump \cup {NoOp}]
  BY DEF TypeOK
<1> QED
  BY <1>9, <1>10, <1>11, <1>12, QuietStep

\* The code does not go on with the read.
LEMMA ReturnLastStep ==
    ASSUME TypeOK, IInv, ReturnLast PROVE TypeOK' /\ IInv'
<1>1. /\ stack # << >> /\ ~GoesOn(Head(stack)) /\ stack' = Tail(stack)
      /\ UNCHANGED <<bridgeVars, flagShut, native, nextGen, mirror, pending, payloads, size,
                     requests, landed, boa, pumps, jobs, last>>
  BY DEF ReturnLast, noEvents
<1>2. PICK frame : frame = Head(stack)
  OBVIOUS
<1>3. frame \in Frame /\ FrameFits(frame)
  BY <1>1, <1>2, HeadFrame
<1>4. ASSUME frame.op \in OpIds, Live(frame.op), ~flagShut PROVE FALSE
  <2>1. frame.op # NoOp /\ frame.event # "loadend"
    BY <1>3, <1>4, DataTypes DEF FrameFits
  <2>2. pending[frame.op].reader = frame.reader /\ pending[frame.op].gen = frame.gen
    BY <1>3, <1>4, <2>1 DEF FrameFits, Tied
  <2>3. IsCurrent(frame.reader, frame.gen)
    BY <1>4, <2>2 DEF IInv, OpAt, ReadAt, IsCurrent
  <2>4. GoesOn(frame)
    BY <1>4, <2>1, <2>3 DEF GoesOn, ContextGone
  <2> QED
    BY <1>1, <1>2, <2>4
<1>5. native' \in [Readers -> Native] /\ last' \in [Readers -> {"none"} \cup Events]
  BY <1>1 DEF TypeOK
<1> QED
  BY <1>1, <1>2, <1>4, <1>5, FrameQuiet

\* After loadstart the kept completion is applied by a job.
LEMMA ReturnLoadstartStep ==
    ASSUME TypeOK, IInv, ReturnLoadstart PROVE TypeOK' /\ IInv'
<1>1. PICK frame, pump : frame = Head(stack) /\ pump = [started |-> TRUE, loaded |-> 0]
  OBVIOUS
<1>2. /\ stack # << >> /\ stack' = Tail(stack) /\ frame.event = "loadstart"
      /\ jobs' = Append(jobs, PumpJob(frame.reader, frame.gen, frame.op, pump, frame.chunk))
      /\ UNCHANGED <<bridgeVars, flagShut, native, nextGen, mirror, pending, payloads, size,
                     requests, landed, boa, pumps, last>>
  BY <1>1 DEF ReturnLoadstart, noEvents
<1>3. /\ frame \in Frame /\ FrameFits(frame)
      /\ frame.reader \in Readers /\ frame.gen \in Generations /\ frame.chunk \in Kinds
      /\ frame.op \in OpIds /\ frame.op # NoOp
  BY <1>1, <1>2, HeadFrame, FrameTypes DEF FrameFits
<1>4. pump \in Pump /\ pump.loaded = 0 /\ pump.started
  BY <1>1, DataTypes DEF Pump
<1>5. PICK job : job = PumpJob(frame.reader, frame.gen, frame.op, pump, frame.chunk)
  OBVIOUS
<1>6. /\ job \in Job /\ job.op = frame.op /\ job.does = "pump" /\ job.pump = pump
      /\ job.reader = frame.reader /\ job.gen = frame.gen /\ job.chunk = frame.chunk
  <2>1. job \in Job
    BY <1>3, <1>4, <1>5, MadeTypes
  <2> QED
    BY <1>5, <2>1 DEF PumpJob
<1>7. JobFits(job)
  BY <1>2, <1>3, <1>4, <1>6 DEF FrameFits, JobFits
<1>8. native' \in [Readers -> Native] /\ last' \in [Readers -> {"none"} \cup Events]
  BY <1>2 DEF TypeOK
<1> QED
  BY <1>1, <1>2, <1>5, <1>6, <1>7, <1>8, FrameQuiet

\* After progress the next chunk is asked for.
LEMMA ReturnProgressStep ==
    ASSUME TypeOK, IInv, ReturnProgress PROVE TypeOK' /\ IInv'
<1>1. PICK frame, op, r, gen, loaded :
         /\ frame = Head(stack) /\ op = frame.op /\ r = frame.reader /\ gen = frame.gen
         /\ loaded = frame.loaded
  OBVIOUS
<1>2. /\ stack # << >> /\ GoesOn(Head(stack)) /\ stack' = Tail(stack)
      /\ frame.event = "progress" /\ SubmitsNext(r, gen, op, loaded, jobs)
      /\ UNCHANGED <<flagShut, nextGen, size, boa, last>>
  BY <1>1 DEF ReturnProgress
<1>3. /\ op \in OpIds /\ Live(op) /\ Queued(op) /\ r \in Readers /\ gen \in Generations
      /\ pending[op].reader = r /\ pending[op].gen = gen
      /\ loaded < size[op] /\ loaded \in Nat
  BY <1>1, <1>2, GoesOnLive
<1>4. /\ jobs \in Seq(Job) /\ UniqueOps(jobs) /\ op \notin OpsOf(jobs)
      /\ stack' \in Seq(Frame) /\ UniqueOps(stack') /\ Members(stack') \subseteq Members(stack)
      /\ op \notin OpsOf(stack')
      /\ \A x \in OpIds \ {op} : x \in OpsOf(stack') <=> x \in OpsOf(stack)
  BY <1>1, <1>2, <1>3, HeadFrame
<1> QED
  BY <1>2, <1>3, <1>4, SubmitStep

\* After the final progress event the read ends.
LEMMA ReturnFinalStep ==
    ASSUME TypeOK, IInv, ReturnFinal PROVE TypeOK' /\ IInv'
<1>1. PICK frame, op, r, gen :
         frame = Head(stack) /\ op = frame.op /\ r = frame.reader /\ gen = frame.gen
  OBVIOUS
<1>2. /\ stack # << >> /\ GoesOn(Head(stack)) /\ stack' = Tail(stack)
      /\ frame.event = "final"
      /\ \E event \in {"load", "error"} : Settles(r, gen, op, event, jobs)
      /\ pumps' = [pumps EXCEPT ![op] = NoOp]
      /\ UNCHANGED <<flagShut, nextGen, size, boa, last>>
  BY <1>1 DEF ReturnFinal
<1>3. /\ op \in OpIds /\ Live(op) /\ r \in Readers /\ gen \in Generations
      /\ pending[op].reader = r /\ pending[op].gen = gen /\ OnTheWay(op) = 0
  BY <1>1, <1>2, GoesOnLive
<1>4. /\ jobs \in Seq(Job) /\ UniqueOps(jobs) /\ op \notin OpsOf(jobs)
      /\ stack' \in Seq(Frame) /\ UniqueOps(stack') /\ Members(stack') \subseteq Members(stack)
      /\ op \notin OpsOf(stack')
      /\ \A x \in OpIds \ {op} : x \in OpsOf(stack') <=> x \in OpsOf(stack)
  BY <1>1, <1>2, <1>3, HeadFrame
<1> QED
  BY <1>2, <1>3, <1>4, SettleStep

\* terminal_dispatched is set: readers keep their state and generation.
LEMMA TerminalSame ==
    ASSUME TypeOK, NEW r \in Readers, native' = [native EXCEPT ![r].terminal = TRUE]
    PROVE  /\ native' \in [Readers -> Native]
           /\ \A x \in Readers : native'[x].ready = native[x].ready
                                 /\ native'[x].gen = native[x].gen
<1>1. PICK now : now = [native[r] EXCEPT !.terminal = TRUE]
  OBVIOUS
<1>2. native[r] \in Native
  BY ReaderTypes
<1>3. now \in Native /\ now.ready = native[r].ready /\ now.gen = native[r].gen
  BY <1>1, <1>2 DEF Native
<1>4. native' = [native EXCEPT ![r] = now]
  BY <1>1
<1> QED
  BY <1>3, <1>4 DEF TypeOK

\* After load or error the job for loadend is queued.
LEMMA ReturnTerminalStep ==
    ASSUME TypeOK, IInv, ReturnTerminal PROVE TypeOK' /\ IInv'
<1>1. PICK frame : frame = Head(stack)
  OBVIOUS
<1>2. /\ stack # << >> /\ stack' = Tail(stack) /\ frame.event \in {"load", "error"}
      /\ native' = [native EXCEPT ![frame.reader].terminal = TRUE]
      /\ jobs' = Append(jobs, DispatchJob("loadend", frame.reader, frame.gen))
      /\ UNCHANGED <<bridgeVars, flagShut, nextGen, mirror, pending, pumps, payloads, size,
                     requests, landed, boa, last>>
  BY <1>1 DEF ReturnTerminal
<1>3. /\ frame \in Frame /\ FrameFits(frame) /\ frame.op = NoOp
      /\ frame.reader \in Readers /\ frame.gen \in Generations
  BY <1>1, <1>2, HeadFrame, FrameTypes DEF FrameFits
<1>4. PICK job : job = DispatchJob("loadend", frame.reader, frame.gen)
  OBVIOUS
<1>5. job \in Job /\ job.op = NoOp /\ job.does # "pump" /\ job.gen = frame.gen
  BY <1>3, <1>4, MadeTypes DEF DispatchJob
<1>6. JobFits(job)
  BY <1>3, <1>5 DEF FrameFits, JobFits
<1>7. /\ native' \in [Readers -> Native]
      /\ \A x \in Readers : native'[x].ready = native[x].ready /\ native'[x].gen = native[x].gen
  BY <1>2, <1>3, TerminalSame
<1>8. last' \in [Readers -> {"none"} \cup Events]
  BY <1>2 DEF TypeOK
<1> QED
  BY <1>1, <1>2, <1>3, <1>4, <1>5, <1>6, <1>7, <1>8, FrameQuiet

\* After abort's event loadend follows at once, unless a handler shut down.
LEMMA ReturnAbortStep ==
    ASSUME TypeOK, IInv, ReturnAbort PROVE TypeOK' /\ IInv'
<1>1. PICK frame : frame = Head(stack)
  OBVIOUS
<1>2. /\ stack # << >> /\ frame.event = "abort"
      /\ native' = [native EXCEPT ![frame.reader].terminal = TRUE]
      /\ \/ stack' = Tail(stack) /\ UNCHANGED last
         \/ Dispatch(PlainFrame("loadend", frame.reader, frame.gen), Tail(stack))
      /\ UNCHANGED <<bridgeVars, flagShut, nextGen, mirror, pending, pumps, payloads, size,
                     requests, landed, boa, jobs>>
  BY <1>1 DEF ReturnAbort
<1>3. /\ frame \in Frame /\ FrameFits(frame) /\ frame.op = NoOp
      /\ frame.reader \in Readers /\ frame.gen \in Generations
  BY <1>1, <1>2, HeadFrame, FrameTypes DEF FrameFits
<1>4. PICK next : next = PlainFrame("loadend", frame.reader, frame.gen)
  OBVIOUS
<1>5. /\ next \in Frame /\ next.op = NoOp /\ next.event = "loadend" /\ next.gen = frame.gen
      /\ next.reader = frame.reader
  <2>1. next \in Frame
    BY <1>3, <1>4, MadeTypes DEF Events
  <2> QED
    BY <1>4, <2>1 DEF PlainFrame, FrameOf
<1>6. FrameFits(next)
  BY <1>3, <1>5 DEF FrameFits
<1>7. /\ native' \in [Readers -> Native]
      /\ \A x \in Readers : native'[x].ready = native[x].ready /\ native'[x].gen = native[x].gen
  BY <1>2, <1>3, TerminalSame
<1>8. /\ stack' = Tail(stack) \/ stack' = <<next>> \o Tail(stack)
      /\ last' \in [Readers -> {"none"} \cup Events]
  <2>1. CASE stack' = Tail(stack) /\ UNCHANGED last
    BY <2>1 DEF TypeOK
  <2>2. CASE Dispatch(PlainFrame("loadend", frame.reader, frame.gen), Tail(stack))
    <3>1. stack' = <<next>> \o Tail(stack) /\ last' = [last EXCEPT ![frame.reader] = "loadend"]
      BY <1>4, <1>5, <2>2 DEF Dispatch
    <3> QED
      BY <3>1 DEF TypeOK, Events
  <2> QED
    BY <1>2, <2>1, <2>2
<1>9. NoOp \notin OpIds
  BY DataTypes
<1> QED
  BY <1>1, <1>2, <1>3, <1>5, <1>6, <1>7, <1>8, <1>9, FrameQuiet

-----------------------------------------------------------------------------
(* Shutdown, the initial states and every step.                             *)

\* shutdown closes the flag: what is queued has nothing to wait for.
LEMMA CloseFlagStep ==
    ASSUME TypeOK, IInv, CloseFlag PROVE TypeOK' /\ IInv'
<1>1. /\ flagShut' = TRUE /\ boa' = "closing"
      /\ UNCHANGED <<bridgeVars, native, nextGen, mirror, pending, pumps, payloads, size,
                     requests, landed, jobs, stack, last>>
  BY DEF CloseFlag
<1>2. UNCHANGED <<nextId, tokens, order, active, bridgeShut, chunkQueue>>
  BY <1>1 DEF bridgeVars
<1>3. Grows
  BY <1>1, <1>2 DEF Grows
<1>4. TypeOK'
  <2>1. BridgeTypeOK'
    BY <1>1, BridgeStepTypes DEF TypeOK
  <2> QED
    BY <1>1, <1>2, <2>1 DEF TypeOK
<1>5. SlotInv'
  BY <1>1, <1>2, SlotsKeep
<1>6. ShutInv' /\ OneEach'
  BY <1>1, <1>2 DEF ShutInv, IInv, OneEach, Live
<1>7. QueuesBecome({}, {}) /\ \A x \in OpIds : Queued(x)' <=> Queued(x)
  BY <1>1, QueuesSame
<1>8. QueuesInv'
  <2>1. \A x, r, gen : Keeps(x, r, gen)
    BY <1>1 DEF Keeps
  <2> QED
    BY <1>3, <1>7, <2>1, QueuesStep
<1>9. ASSUME NEW x \in OpIds PROVE OpAt(x)'
  <2>1. SameOp(x)
    BY <1>1, <1>7 DEF SameOp
  <2> QED
    BY <1>1, <1>3, <2>1, OpKeeps
<1> QED
  BY <1>4, <1>5, <1>6, <1>8, <1>9 DEF IInv

\* The bridge shuts down and the tables are cleared.
LEMMA CloseBridgeStep ==
    ASSUME TypeOK, IInv, CloseBridge PROVE TypeOK' /\ IInv'
<1>1. /\ boa = "closing" /\ ShutdownBridge /\ boa' = "idle"
      /\ pending' = NoOps /\ pumps' = NoOps /\ payloads' = {} /\ mirror' = 0
      /\ landed' = Empty
      /\ UNCHANGED <<flagShut, native, nextGen, size, requests, jobs, stack, last>>
  BY DEF CloseBridge
<1>2. /\ tokens' = {} /\ order' = {} /\ active' = 0 /\ chunkQueue' = [x \in OpIds |-> 0]
      /\ nextId' = nextId
  BY <1>1 DEF ShutdownBridge
<1>3. flagShut /\ flagShut'
  BY <1>1 DEF IInv, ShutInv
<1>4. Grows
  BY <1>1, <1>2 DEF Grows
<1>5. \A x \in OpIds : pending'[x] = NoOp /\ pumps'[x] = NoOp /\ landed'[x] = << >>
  BY <1>1 DEF NoOps, Empty
<1>6. TypeOK'
  <2>1. BridgeTypeOK'
    BY <1>1, BridgeStepTypes DEF TypeOK, BridgeTypeOK
  <2>2. landed' \in [OpIds -> Seq(Kinds)] /\ \A x \in OpIds : Len(landed'[x]) = chunkQueue'[x]
    <3>1. << >> \in Seq(Kinds) /\ Len(<< >>) = 0
      OBVIOUS
    <3> QED
      BY <1>1, <1>2, <3>1 DEF Empty
  <2>3. pending' \in [OpIds -> Operation \cup {NoOp}] /\ pumps' \in [OpIds -> Pump \cup {NoOp}]
    BY <1>1 DEF NoOps
  <2> QED
    BY <1>1, <2>1, <2>2, <2>3 DEF TypeOK
<1>7. SlotInv'
  <2>1. Cardinality({}) = 0
    BY FS_EmptySet
  <2>2. {} = {x \in OpIds : pending'[x] # NoOp}
    BY <1>5
  <2> QED
    BY <1>1, <1>2, <2>1, <2>2 DEF SlotInv, Live
<1>8. ShutInv' /\ OneEach'
  BY <1>1, <1>3, <1>5 DEF IInv, ShutInv, OneEach, Live
<1>9. QueuesBecome({}, {}) /\ \A x \in OpIds : Queued(x)' <=> Queued(x)
  BY <1>1, QueuesSame
<1>10. QueuesInv'
  <2>1. ASSUME NEW x \in OpIds, NEW r, NEW gen PROVE Keeps(x, r, gen)
    BY <1>1, <1>3, <1>5 DEF Keeps
  <2>2. ASSUME NEW job \in Members(jobs'), job.op # NoOp PROVE Keeps(job.op, job.reader, job.gen)
    <3>1. job.op \in OpIds
      BY <1>1, <2>2, JobTypes DEF TypeOK, Members
    <3> QED
      BY <2>1, <3>1
  <2>3. ASSUME NEW frame \in Members(stack'), frame.op # NoOp
        PROVE  Keeps(frame.op, frame.reader, frame.gen)
    <3>1. frame.op \in OpIds
      BY <1>1, <2>3, FrameTypes DEF TypeOK, Members
    <3> QED
      BY <2>1, <3>1
  <2> QED
    BY <1>4, <1>9, <2>2, <2>3, QueuesStep
<1>11. ASSUME NEW x \in OpIds PROVE OpAt(x)'
  <2>1. ~Live(x)' /\ pumps'[x] = NoOp /\ landed'[x] = << >> /\ Len(landed'[x]) = 0
    BY <1>5 DEF Live
  <2>2. /\ Len(requests'[x]) \in Nat /\ Len(requests'[x]) <= 1
        /\ Queued(x) => Len(requests'[x]) = 0
    <3>1. Len(requests[x]) \in Nat /\ (Len(requests[x]) # 0 => Len(requests[x]) = 1)
      BY OneOnTheWay
    <3>2. Queued(x) => Len(requests[x]) = 0
      BY QueuedAlone
    <3>3. requests'[x] = requests[x]
      BY <1>1
    <3>4. PICK n : n = Len(requests[x])
      OBVIOUS
    <3>5. n \in Nat /\ (n # 0 => n = 1)
      BY ONLY <3>1, <3>4
    <3>6. n <= 1
      BY ONLY <3>5
    <3> QED
      BY <3>2, <3>3, <3>4, <3>5, <3>6
  <2>3. OnTheWay(x)' <= 1 /\ (Queued(x) => OnTheWay(x)' = 0)
    BY <2>1, <2>2 DEF OnTheWay
  <2>4. PlaceAt(x)'
    BY <1>9, <2>1, <2>3 DEF PlaceAt
  <2>5. ReadAt(x)' /\ DataAt(x)'
    BY <2>1 DEF ReadAt, DataAt
  <2>6. x >= nextId' => NewAt(x)'
    BY <1>1, <1>2, <2>1 DEF IInv, OpAt, NewAt
  <2> QED
    BY <2>4, <2>5, <2>6 DEF OpAt
<1> QED
  BY <1>6, <1>7, <1>8, <1>10, <1>11 DEF IInv

\* The initial states.
LEMMA InitInv == Init => TypeOK /\ IInv
<1> SUFFICES ASSUME Init PROVE TypeOK /\ IInv
  OBVIOUS
<1>1. /\ BridgeInit
      /\ native = [r \in Readers |-> Fresh]
      /\ nextGen = 1 /\ mirror = 0
      /\ pending = NoOps /\ pumps = NoOps /\ payloads = {}
      /\ size = [op \in OpIds |-> 0]
      /\ requests = Empty /\ landed = Empty
      /\ boa = "idle" /\ jobs = << >> /\ stack = << >>
      /\ last = [r \in Readers |-> "none"]
  BY DEF Init
<1>2. /\ tokens = {} /\ order = {} /\ active = 0 /\ chunkQueue = [id \in OpIds |-> 0]
      /\ nextId = 1 /\ ~bridgeShut /\ ~flagShut
  BY <1>1 DEF BridgeInit
<1>3. MaxGen \in Nat /\ 0 \in Generations /\ 1 \in 1 .. MaxGen + 1
  BY ReaderAssumption DEF Generations
<1>4. \A x \in OpIds : /\ pending[x] = NoOp /\ pumps[x] = NoOp
                       /\ landed[x] = << >> /\ requests[x] = << >>
                       /\ Len(landed[x]) = 0 /\ Len(requests[x]) = 0
  BY <1>1 DEF NoOps, Empty
<1>5. TypeOK
  <2>1. BridgeTypeOK
    <3>1. 1 \in 1 .. MaxId
      BY BridgeAssumption
    <3>2. completions = [id \in OpIds |-> "none"] /\ chunkQueue = [id \in OpIds |-> 0]
      BY <1>1 DEF BridgeInit
    <3>3. completions \in [OpIds -> Outcomes \cup {"none"}] /\ chunkQueue \in [OpIds -> Nat]
      BY <3>2
    <3> QED
      BY <1>1, <3>1, <3>3 DEF BridgeTypeOK, BridgeInit
  <2>2. native \in [Readers -> Native]
    BY <1>1, <1>3 DEF Fresh, Native
  <2>3. requests \in [OpIds -> Seq(Offsets)]
    <3>1. << >> \in Seq(Offsets)
      OBVIOUS
    <3> QED
      BY <1>1, <3>1 DEF Empty
  <2>4. landed \in [OpIds -> Seq(Kinds)]
    <3>1. << >> \in Seq(Kinds)
      OBVIOUS
    <3> QED
      BY <1>1, <3>1 DEF Empty
  <2>5. jobs \in Seq(Job) /\ stack \in Seq(Frame)
    BY <1>1
  <2>6. pending \in [OpIds -> Operation \cup {NoOp}] /\ pumps \in [OpIds -> Pump \cup {NoOp}]
    BY <1>1 DEF NoOps
  <2> QED
    BY <1>1, <1>2, <1>3, <1>4, <2>1, <2>2, <2>3, <2>4, <2>5, <2>6 DEF TypeOK
<1>6. SlotInv
  <2>1. Cardinality({}) = 0
    BY FS_EmptySet
  <2>2. {} = {x \in OpIds : pending[x] # NoOp}
    BY <1>4
  <2> QED
    BY <1>1, <1>2, <2>1, <2>2 DEF SlotInv, Live
<1>7. ShutInv /\ OneEach
  BY <1>1, <1>2, <1>4 DEF ShutInv, OneEach, Live, Fresh
<1>8. UniqueOps(jobs) /\ UniqueOps(stack) /\ OpsOf(jobs) = {} /\ OpsOf(stack) = {}
      /\ Members(jobs) = {} /\ Members(stack) = {}
  BY <1>1, NoneOps
<1>9. QueuesInv
  BY <1>8 DEF QueuesInv
<1>10. ASSUME NEW x \in OpIds PROVE OpAt(x)
  <2>1. ~Live(x) /\ ~Queued(x)
    BY <1>4, <1>8 DEF Live, Queued
  <2>2. OnTheWay(x) = 0
    <3>1. Len(requests[x]) = 0 /\ Len(landed[x]) = 0
      BY <1>4
    <3> QED
      BY ONLY <3>1 DEF OnTheWay
  <2> QED
    BY <1>4, <2>1, <2>2 DEF OpAt, ReadAt, PlaceAt, DataAt, NewAt
<1> QED
  BY <1>5, <1>6, <1>7, <1>9, <1>10 DEF IInv

\* A step that changes nothing.
LEMMA StutterStep ==
    ASSUME TypeOK, IInv, UNCHANGED vars PROVE TypeOK' /\ IInv'
<1>1. UNCHANGED <<nextId, tokens, order, active, bridgeShut>>
  BY DEF vars, bridgeVars
<1>2. Grows
  BY <1>1 DEF vars, readerVars, Grows
<1>3. TypeOK'
  BY DEF TypeOK, BridgeTypeOK, vars, bridgeVars, readerVars
<1>4. SlotInv' /\ ShutInv' /\ OneEach'
  BY <1>1, SlotsKeep, ShutKeeps DEF vars, readerVars, IInv, OneEach, Live
<1>5. QueuesBecome({}, {}) /\ \A x \in OpIds : Queued(x)' <=> Queued(x)
  BY QueuesSame DEF vars, readerVars
<1>6. QueuesInv'
  <2>1. \A x, r, gen : Keeps(x, r, gen)
    BY DEF Keeps, IsCurrent, vars, readerVars
  <2> QED
    BY <1>2, <1>5, <2>1, QueuesStep
<1>7. ASSUME NEW x \in OpIds PROVE OpAt(x)'
  <2>1. SameOp(x) /\ native' = native
    BY <1>5 DEF SameOp, vars, readerVars
  <2> QED
    BY <1>2, <2>1, OpKeeps
<1> QED
  BY <1>3, <1>4, <1>6, <1>7 DEF IInv

\* Every step keeps the types and the invariant.
LEMMA StepInv == TypeOK /\ IInv /\ [Next]_vars => TypeOK' /\ IInv'
<1> SUFFICES ASSUME TypeOK, IInv, [Next]_vars PROVE TypeOK' /\ IInv'
  OBVIOUS
<1>1. ASSUME NEW r \in Readers, Script(r) PROVE TypeOK' /\ IInv'
  <2>1. CASE ReadRefused(r)
    <3>1. MayRead(r) /\ FailsAtOnce(r) /\ UNCHANGED bridgeVars
      BY <2>1 DEF ReadRefused
    <3> QED
      BY <3>1, FailsStep
  <2>2. CASE ReadQuotaFails(r)
    <3>1. MayRead(r) /\ FailsAtOnce(r) /\ ReserveFails
      BY <2>2 DEF ReadQuotaFails
    <3> QED
      BY <3>1, FailsStep
  <2>3. CASE ReadSubmitFails(r)
    <3>1. MayRead(r) /\ FailsAtOnce(r) /\ ReserveAndReturn
      BY <2>3 DEF ReadSubmitFails
    <3> QED
      BY <3>1, FailsStep
  <2>4. CASE ReadStarted(r)
    BY <2>4, StartedStep
  <2>5. CASE AbortIdle(r)
    BY <2>5, AbortIdleStep
  <2>6. CASE AbortRead(r)
    BY <2>6, AbortReadStep
  <2> QED
    BY <1>1, <2>1, <2>2, <2>3, <2>4, <2>5, <2>6 DEF Script
<1>2. ASSUME NEW op \in OpIds, WorkerPush(op) PROVE TypeOK' /\ IInv'
  BY <1>2, WorkerPushStep
<1>3. CASE Poll
  BY <1>3, PollStep
<1>4. CASE RunJob
  BY <1>4, DropJobStep, RunLoadstartStep, RunPumpStep, RunDispatchStep DEF RunJob
<1>5. CASE Return
  BY <1>5, ReturnLastStep, ReturnLoadstartStep, ReturnProgressStep, ReturnFinalStep,
     ReturnTerminalStep, ReturnAbortStep DEF Return
<1>6. CASE CloseFlag \/ CloseBridge
  BY <1>6, CloseFlagStep, CloseBridgeStep
<1>7. CASE UNCHANGED vars
  BY <1>7, StutterStep
<1> QED
  BY <1>1, <1>2, <1>3, <1>4, <1>5, <1>6, <1>7 DEF Next

-----------------------------------------------------------------------------
(* Theorems.                                                                *)

\* Readers, operations, jobs and handlers keep their types, and the invariant
\* holds, whatever scripts, handlers, workers and the host do.
THEOREM ReadersInvariant == Spec => [](TypeOK /\ IInv)
<1>1. Init => TypeOK /\ IInv
  BY InitInv
<1>2. TypeOK /\ IInv /\ [Next]_vars => (TypeOK /\ IInv)'
  BY StepInv
<1> QED
  BY <1>1, <1>2, PTL DEF Spec

\* Readers, operations, jobs, handlers and the bridge keep their types.
THEOREM ReadersTypeCorrect == Spec => []TypeOK
BY ReadersInvariant, PTL

\* An operation's entry, its payload, its slot in the bridge and the counter
\* that mirrors the quota come and go together (start_read, abort,
\* settle_success_release, settle_error_release,
\* drop_all_reader_state_for_shutdown).
THEOREM QuotaIsMirrored == Spec => []QuotaMirrored
<1>1. TypeOK /\ IInv => QuotaMirrored
  <2> SUFFICES ASSUME TypeOK, IInv PROVE QuotaMirrored
    OBVIOUS
  <2>1. /\ tokens = {op \in OpIds : Live(op)} /\ payloads = tokens
        /\ mirror = active /\ active = Cardinality(tokens)
    BY DEF IInv, SlotInv
  <2>2. PICK ops : ops = {op \in OpIds : pending[op] # NoOp}
    OBVIOUS
  <2>3. ops = tokens
    BY <2>1, <2>2 DEF Live
  <2> QED
    BY <2>1, <2>2, <2>3 DEF QuotaMirrored
<1> QED
  BY <1>1, ReadersInvariant, PTL

\* How many jobs or frames are about an operation.
LEMMA CountOps ==
    ASSUME NEW S, NEW s \in Seq(S), UniqueOps(s), NEW op, op # NoOp
    PROVE  Cardinality({i \in DOMAIN s : s[i].op = op}) = IF op \in OpsOf(s) THEN 1 ELSE 0
<1>1. DOMAIN s = 1 .. Len(s)
  OBVIOUS
<1>2. CASE op \notin OpsOf(s)
  <2>1. {i \in DOMAIN s : s[i].op = op} = {}
    BY <1>1, <1>2 DEF OpsOf
  <2> QED
    BY <1>2, <2>1, FS_EmptySet
<1>3. CASE op \in OpsOf(s)
  <2>1. PICK i \in 1 .. Len(s) : s[i].op = op
    BY <1>3 DEF OpsOf
  <2>2. {j \in DOMAIN s : s[j].op = op} = {i}
    BY <1>1, <2>1 DEF UniqueOps
  <2> QED
    BY <1>3, <2>2, FS_Singleton
<1> QED
  BY <1>2, <1>3

\* A live read is at exactly one place: a request, a completion, a pump job or
\* an event whose handlers run ("exactly one next request", run_pump).
THEOREM ReadsMoveOneStepAtATime == Spec => []OneStep
<1>1. TypeOK /\ IInv => OneStep
  <2> SUFFICES ASSUME TypeOK, IInv, NEW op \in OpIds, pending[op] # NoOp, ~flagShut
               PROVE  LET r == pending[op].reader
                      IN /\ native[r].ready = "loading" /\ native[r].gen = pending[op].gen
                         /\ Len(requests[op]) + Len(landed[op])
                              + Cardinality({i \in DOMAIN jobs : jobs[i].op = op})
                              + Cardinality({i \in DOMAIN stack : stack[i].op = op}) = 1
    BY DEF OneStep
  <2>1. Live(op) /\ OpAt(op) /\ op # NoOp
    BY DataTypes DEF Live, IInv
  <2>2. /\ native[pending[op].reader].ready = "loading"
        /\ native[pending[op].reader].gen = pending[op].gen
    BY <2>1 DEF OpAt, ReadAt
  <2>3. PICK inJobs, inStack : /\ inJobs = Cardinality({i \in DOMAIN jobs : jobs[i].op = op})
                               /\ inStack = Cardinality({i \in DOMAIN stack : stack[i].op = op})
    OBVIOUS
  <2>4. /\ inJobs = IF op \in OpsOf(jobs) THEN 1 ELSE 0
        /\ inStack = IF op \in OpsOf(stack) THEN 1 ELSE 0
    BY <2>1, <2>3, CountOps DEF TypeOK, IInv, QueuesInv
  <2>5. ~(op \in OpsOf(jobs) /\ op \in OpsOf(stack))
    BY DEF IInv, QueuesInv
  <2>6. PICK way : way = Len(requests[op]) + Len(landed[op])
    OBVIOUS
  <2>7. (Queued(op) => way = 0) /\ (way = 1 \/ Queued(op))
    BY <2>1, <2>6 DEF OpAt, PlaceAt, OnTheWay
  <2>8. way + inJobs + inStack = 1
    BY <2>4, <2>5, <2>7 DEF Queued
  <2> QED
    BY <2>2, <2>3, <2>6, <2>8
<1> QED
  BY <1>1, ReadersInvariant, PTL

\* No event starts once the runtime is shut down: handlers only return, and no
\* reader has a new last event (run_dispatch, run_pump, dispatch_terminal_now).
THEOREM EventsStopAtShutdown == Spec => NoEventAfterShutdown
<1> DEFINE Returns == UNCHANGED stack \/ (stack # << >> /\ stack' = Tail(stack))
           NothingNew == \A r \in Readers : last'[r] \in {last[r], "none"}
<1>1. TypeOK /\ [Next]_vars => [flagShut => Returns /\ NothingNew]_vars
  <2> SUFFICES ASSUME TypeOK, Next, flagShut PROVE Returns /\ NothingNew
    OBVIOUS
  <2>1. last \in [Readers -> {"none"} \cup Events]
    BY DEF TypeOK
  <2>2. ASSUME UNCHANGED last PROVE NothingNew
    BY <2>2
  <2>3. ASSUME NEW r \in Readers, last' = [last EXCEPT ![r] = "none"] PROVE NothingNew
    BY <2>1, <2>3
  <2> HIDE DEF NothingNew
  <2>4. ASSUME NEW r \in Readers, Script(r) PROVE Returns /\ NothingNew
    <3>1. UNCHANGED stack /\ (UNCHANGED last \/ last' = [last EXCEPT ![r] = "none"])
      BY <2>4 DEF Script, ReadRefused, ReadQuotaFails, ReadSubmitFails, ReadStarted, FailsAtOnce,
         AbortIdle, AbortRead, ContextGone
    <3> QED
      BY <2>2, <2>3, <3>1
  <2>5. ASSUME NEW op \in OpIds, WorkerPush(op) PROVE UNCHANGED stack /\ UNCHANGED last
    BY <2>5 DEF WorkerPush
  <2>6. CASE Poll
    BY <2>2, <2>6 DEF Poll
  <2>7. CASE RunJob
    <3>1. UNCHANGED stack /\ UNCHANGED last
      BY <2>7 DEF RunJob, DropJob, RunLoadstart, RunPump, RunDispatch, MayRun, ContextGone
    <3> QED
      BY <2>2, <3>1
  <2>8. CASE Return
    <3>1. stack # << >> /\ stack' = Tail(stack) /\ UNCHANGED last
      BY <2>8 DEF Return, ReturnLast, ReturnLoadstart, ReturnProgress, ReturnFinal,
         ReturnTerminal, ReturnAbort, ContextGone
    <3> QED
      BY <2>2, <3>1
  <2>9. CASE CloseFlag \/ CloseBridge
    BY <2>2, <2>9 DEF CloseFlag, CloseBridge
  <2> QED
    BY <2>2, <2>4, <2>5, <2>6, <2>7, <2>8, <2>9 DEF Next
<1> QED
  BY <1>1, ReadersInvariant, PTL DEF Spec, NoEventAfterShutdown

-----------------------------------------------------------------------------
(* The phases of a read: what jobs, frames and packaging states know of the *)
(* events that were seen.                                                   *)

\* The last event of a read whose pump fired loadstart, or did not.
SeenBy(started) == IF started THEN {"loadstart", "progress"} ELSE {"none"}

\* What a current job knows of its reader.
JobPhase(job) ==
    LET reader == native[job.reader]
        seen   == last[job.reader]
    IN /\ job.does = "pump" => seen \in SeenBy(job.pump.started)
       /\ job.does = "load" =>
             reader.ready = "done" /\ ~reader.terminal /\ ~reader.error /\ seen = "progress"
       /\ job.does = "error" =>
             reader.ready = "done" /\ ~reader.terminal /\ reader.error /\ seen \in Abstract!Going
       /\ job.does = "loadend" =>
             reader.ready = "done" /\ reader.terminal /\ seen \in {"load", "error", "abort"}

\* What a current frame knows of its reader.
FramePhase(frame) ==
    LET reader == native[frame.reader]
        seen   == last[frame.reader]
    IN /\ frame.event = "loadstart" => seen = "loadstart"
       /\ frame.event \in {"progress", "final"} => seen = "progress"
       /\ frame.event \in {"load", "error", "abort", "loadend"} => reader.ready = "done"
       /\ frame.event \in {"load", "error", "abort"} => ~reader.terminal /\ seen = frame.event

JobAt(job) == IsCurrent(job.reader, job.gen) => JobPhase(job)

FrameAt(frame) == IsCurrent(frame.reader, frame.gen) => FramePhase(frame)

PumpAt(op) ==
    Live(op) /\ pumps[op] # NoOp => last[pending[op].reader] \in SeenBy(pumps[op].started)

\* A job or a frame about the end of a read.
IsEnd(item, r, gen) == item.op = NoOp /\ item.reader = r /\ item.gen = gen

UniqueEnds(s, r, gen) ==
    \A i \in 1 .. Len(s), j \in 1 .. Len(s) :
        IsEnd(s[i], r, gen) /\ IsEnd(s[j], r, gen) => i = j

\* After shutdown no event fires, so nothing has to be known.
PhaseInv ==
    ~flagShut =>
        /\ \A job \in Members(jobs) : JobAt(job)
        /\ \A frame \in Members(stack) : FrameAt(frame)
        /\ \A op \in OpIds : PumpAt(op)
        /\ \A r \in Readers : /\ UniqueEnds(jobs, r, native[r].gen)
                              /\ UniqueEnds(stack, r, native[r].gen)

\* None of the jobs or frames `s` is about that end.
NoEnd(s, r, gen) == \A item \in Members(s) : ~IsEnd(item, r, gen)

\* Where there is none, there is no second one.
LEMMA NoneIsUnique ==
    ASSUME NEW s, NEW r, NEW gen, NoEnd(s, r, gen) PROVE UniqueEnds(s, r, gen)
BY DEF NoEnd, UniqueEnds, Members

\* A queue in front of another one that has no end in common with it.
LEMMA ConcatEnds ==
    ASSUME NEW S, NEW s \in Seq(S), NEW t \in Seq(S), NEW r, NEW gen,
           UniqueEnds(s, r, gen), UniqueEnds(t, r, gen), NoEnd(s, r, gen) \/ NoEnd(t, r, gen)
    PROVE  UniqueEnds(s \o t, r, gen) /\ Members(s \o t) = Members(s) \cup Members(t)
<1>1. PICK c : c = s \o t
  OBVIOUS
<1>2. Len(s) \in Nat /\ Len(t) \in Nat /\ Len(c) = Len(s) + Len(t)
  BY <1>1, ConcatFacts
<1>3. /\ \A i \in 1 .. Len(s) : i \in 1 .. Len(c) /\ c[i] = s[i]
      /\ \A i \in 1 .. Len(t) : Len(s) + i \in 1 .. Len(c) /\ c[Len(s) + i] = t[i]
  BY <1>1, <1>2, ConcatFacts
<1>4. ASSUME NEW i \in 1 .. Len(c)
      PROVE  \/ i \in 1 .. Len(s) /\ c[i] = s[i]
             \/ \E j \in 1 .. Len(t) : i = Len(s) + j /\ c[i] = t[j]
  <2>1. i \in 1 .. Len(s \o t)
    BY <1>1
  <2>2. \/ i \in 1 .. Len(s) /\ (s \o t)[i] = s[i]
        \/ \E j \in 1 .. Len(t) : i = Len(s) + j /\ (s \o t)[i] = t[j]
    BY <2>1, ConcatElements
  <2> QED
    BY <1>1, <2>2
<1>5. Members(c) = Members(s) \cup Members(t)
  <2>1. ASSUME NEW e \in Members(c) PROVE e \in Members(s) \cup Members(t)
    BY <1>4 DEF Members
  <2>2. ASSUME NEW e \in Members(s) \cup Members(t) PROVE e \in Members(c)
    BY <1>3 DEF Members
  <2> QED
    BY <2>1, <2>2
<1>6. ASSUME NEW i \in 1 .. Len(c), NEW j \in 1 .. Len(c),
             IsEnd(c[i], r, gen), IsEnd(c[j], r, gen)
      PROVE  i = j
  <2>1. CASE i \in 1 .. Len(s) /\ c[i] = s[i]
    <3>1. CASE j \in 1 .. Len(s) /\ c[j] = s[j]
      BY <1>6, <2>1, <3>1 DEF UniqueEnds
    <3>2. CASE \E l \in 1 .. Len(t) : j = Len(s) + l /\ c[j] = t[l]
      BY <1>6, <2>1, <3>2 DEF NoEnd, Members
    <3> QED
      BY <1>4, <3>1, <3>2
  <2>2. CASE \E l \in 1 .. Len(t) : i = Len(s) + l /\ c[i] = t[l]
    <3>1. CASE j \in 1 .. Len(s) /\ c[j] = s[j]
      BY <1>6, <2>2, <3>1 DEF NoEnd, Members
    <3>2. CASE \E l \in 1 .. Len(t) : j = Len(s) + l /\ c[j] = t[l]
      BY <1>6, <2>2, <3>2 DEF UniqueEnds
    <3> QED
      BY <1>4, <3>1, <3>2
  <2> QED
    BY <1>4, <2>1, <2>2
<1>7. UniqueEnds(c, r, gen)
  BY <1>6 DEF UniqueEnds
<1> QED
  BY <1>1, <1>5, <1>7

\* A queue of one, a queue of none.
LEMMA OneEnd ==
    /\ \A e, r, gen : UniqueEnds(<<e>>, r, gen) /\ Members(<<e>>) = {e}
    /\ \A r, gen : NoEnd(<< >>, r, gen) /\ UniqueEnds(<< >>, r, gen)
<1>1. ASSUME NEW e, NEW r, NEW gen PROVE UniqueEnds(<<e>>, r, gen) /\ Members(<<e>>) = {e}
  <2>1. PICK s : s = <<e>>
    OBVIOUS
  <2>2. 1 .. Len(s) = {1} /\ s[1] = e
    BY <2>1
  <2> QED
    BY <2>1, <2>2 DEF UniqueEnds, Members
<1>2. Members(<< >>) = {}
  BY NoneOps
<1>3. ASSUME NEW r, NEW gen PROVE NoEnd(<< >>, r, gen) /\ UniqueEnds(<< >>, r, gen)
  <2>1. NoEnd(<< >>, r, gen)
    BY <1>2 DEF NoEnd
  <2> QED
    BY <2>1, NoneIsUnique
<1> QED
  BY <1>1, <1>3

\* A queue without its first entry.
LEMMA TailEnds ==
    ASSUME NEW S, NEW s \in Seq(S), s # << >>, NEW r, NEW gen, UniqueEnds(s, r, gen)
    PROVE  /\ UniqueEnds(Tail(s), r, gen)
           /\ IsEnd(Head(s), r, gen) => NoEnd(Tail(s), r, gen)
<1>1. PICK t, h : t = Tail(s) /\ h = Head(s)
  OBVIOUS
<1>2. /\ h = s[1] /\ Len(s) >= 1
      /\ t \in Seq(S) /\ Len(t) = Len(s) - 1
      /\ \A i \in 1 .. Len(s) - 1 : t[i] = s[i + 1]
  BY <1>1, TailFacts
<1>3. Len(s) \in Nat /\ 1 \in 1 .. Len(s)
  BY <1>2
<1>4. \A i \in 1 .. Len(t) : i + 1 \in 1 .. Len(s) /\ t[i] = s[i + 1]
  BY <1>2, <1>3
<1>5. UniqueEnds(t, r, gen)
  <2>1. ASSUME NEW i \in 1 .. Len(t), NEW j \in 1 .. Len(t),
               IsEnd(t[i], r, gen), IsEnd(t[j], r, gen)
        PROVE  i = j
    <3>1. i + 1 = j + 1
      BY <1>4, <2>1 DEF UniqueEnds
    <3> QED
      BY <1>2, <3>1
  <2> QED
    BY <2>1 DEF UniqueEnds
<1>6. ASSUME IsEnd(h, r, gen), NEW e \in Members(t), IsEnd(e, r, gen) PROVE FALSE
  <2>1. PICK i \in 1 .. Len(t) : e = t[i]
    BY DEF Members
  <2>2. IsEnd(s[i + 1], r, gen) /\ IsEnd(s[1], r, gen)
    BY <1>2, <1>4, <1>6, <2>1
  <2>3. i + 1 = 1
    BY <1>3, <1>4, <2>2 DEF UniqueEnds
  <2> QED
    BY <1>2, <2>3
<1> QED
  BY <1>1, <1>5, <1>6 DEF NoEnd

-----------------------------------------------------------------------------
(* Who else is about a reader's current read.                               *)

\* A current job or frame that has an operation keeps its reader loading.
LEMMA CurrentLive ==
    ASSUME TypeOK, IInv, ~flagShut
    PROVE  /\ \A job \in Members(jobs) :
                 job.op # NoOp /\ IsCurrent(job.reader, job.gen) =>
                    /\ job.op \in OpIds /\ Live(job.op)
                    /\ pending[job.op].reader = job.reader
                    /\ native[job.reader].ready = "loading"
           /\ \A frame \in Members(stack) :
                 frame.op # NoOp /\ IsCurrent(frame.reader, frame.gen) =>
                    /\ frame.op \in OpIds /\ Live(frame.op)
                    /\ pending[frame.op].reader = frame.reader
                    /\ native[frame.reader].ready = "loading"
<1>1. ASSUME NEW op \in OpIds, NEW r, NEW gen, Tied(op, r, gen), IsCurrent(r, gen)
      PROVE  Live(op) /\ pending[op].reader = r /\ native[r].ready = "loading"
  BY <1>1 DEF Tied, IInv, OpAt, ReadAt
<1>2. ASSUME NEW job \in Members(jobs), job.op # NoOp, IsCurrent(job.reader, job.gen)
      PROVE  /\ job.op \in OpIds /\ Live(job.op)
             /\ pending[job.op].reader = job.reader
             /\ native[job.reader].ready = "loading"
  <2>1. job \in Job /\ JobFits(job)
    BY DEF Members, TypeOK, IInv, QueuesInv
  <2>2. job.op \in OpIds
    BY <1>2, <2>1, JobTypes
  <2>3. Tied(job.op, job.reader, job.gen)
    BY <1>2, <2>1 DEF JobFits
  <2> QED
    BY <1>1, <1>2, <2>2, <2>3
<1>3. ASSUME NEW frame \in Members(stack), frame.op # NoOp, IsCurrent(frame.reader, frame.gen)
      PROVE  /\ frame.op \in OpIds /\ Live(frame.op)
             /\ pending[frame.op].reader = frame.reader
             /\ native[frame.reader].ready = "loading"
  <2>1. frame \in Frame /\ FrameFits(frame)
    BY DEF Members, TypeOK, IInv, QueuesInv
  <2>2. frame.op \in OpIds
    BY <1>3, <2>1, FrameTypes
  <2>3. Tied(frame.op, frame.reader, frame.gen)
    BY <1>3, <2>1 DEF FrameFits
  <2> QED
    BY <1>1, <1>3, <2>2, <2>3
<1> QED
  BY <1>2, <1>3

\* A current job that has no operation is about the end of a reader that is done.
LEMMA CurrentEnds ==
    ASSUME TypeOK, IInv, PhaseInv, ~flagShut
    PROVE  \A job \in Members(jobs) :
              job.op = NoOp /\ IsCurrent(job.reader, job.gen) =>
                 /\ native[job.reader].ready = "done"
                 /\ \/ job.does = "load" /\ last[job.reader] = "progress"
                    \/ job.does = "error" /\ last[job.reader] \in Abstract!Going
                    \/ job.does = "loadend" /\ native[job.reader].terminal
<1> SUFFICES ASSUME NEW job \in Members(jobs), job.op = NoOp, IsCurrent(job.reader, job.gen)
             PROVE  /\ native[job.reader].ready = "done"
                    /\ \/ job.does = "load" /\ last[job.reader] = "progress"
                       \/ job.does = "error" /\ last[job.reader] \in Abstract!Going
                       \/ job.does = "loadend" /\ native[job.reader].terminal
  OBVIOUS
<1>1. job \in Job /\ JobFits(job)
  BY DEF Members, TypeOK, IInv, QueuesInv
<1>2. job.does \in {"load", "error", "loadend"}
  BY <1>1, JobTypes DEF JobFits
<1>3. JobPhase(job)
  BY DEF PhaseInv, JobAt
<1> QED
  BY <1>2, <1>3 DEF JobPhase

\* A current frame that has no operation, too.
LEMMA CurrentFrames ==
    ASSUME TypeOK, IInv, PhaseInv, ~flagShut
    PROVE  \A frame \in Members(stack) :
              frame.op = NoOp /\ IsCurrent(frame.reader, frame.gen) =>
                 /\ native[frame.reader].ready = "done"
                 /\ frame.event \in {"load", "error", "abort", "loadend"}
                 /\ frame.event # "loadend" =>
                       ~native[frame.reader].terminal /\ last[frame.reader] = frame.event
<1> SUFFICES ASSUME NEW frame \in Members(stack), frame.op = NoOp,
                    IsCurrent(frame.reader, frame.gen)
             PROVE  /\ native[frame.reader].ready = "done"
                    /\ frame.event \in {"load", "error", "abort", "loadend"}
                    /\ frame.event # "loadend" =>
                          ~native[frame.reader].terminal /\ last[frame.reader] = frame.event
  OBVIOUS
<1>1. frame \in Frame /\ FrameFits(frame)
  BY DEF Members, TypeOK, IInv, QueuesInv
<1>2. frame.event \in {"load", "error", "abort", "loadend"}
  BY <1>1, FrameTypes DEF FrameFits, Events
<1>3. FramePhase(frame)
  BY DEF PhaseInv, FrameAt
<1> QED
  BY <1>2, <1>3 DEF FramePhase

\* An operation among the jobs or the frames.
LEMMA OpsOfMembers ==
    ASSUME NEW s, NEW item \in Members(s) PROVE item.op \in OpsOf(s)
BY DEF Members, OpsOf

\* No other job is about the read of the job that runs.
LEMMA JobAlone ==
    ASSUME TypeOK, IInv, PhaseInv, JobRuns, MayRun(Head(jobs)),
           NEW other \in Members(Tail(jobs)), other.reader = Head(jobs).reader
    PROVE  ~IsCurrent(other.reader, other.gen)
<1> SUFFICES ASSUME IsCurrent(other.reader, other.gen) PROVE FALSE
  OBVIOUS
<1>1. PICK job, rest : job = Head(jobs) /\ rest = Tail(jobs)
  OBVIOUS
<1>2. ~flagShut /\ IsCurrent(job.reader, job.gen) /\ other.gen = job.gen
  BY <1>1 DEF MayRun, ContextGone, IsCurrent
<1>3. /\ job \in Members(jobs) /\ job \in Job /\ other \in Members(jobs)
      /\ job.op \in OpIds => job.op \notin OpsOf(rest)
      /\ jobs # << >> /\ jobs \in Seq(Job)
  BY <1>1, HeadJob, TailOps DEF JobRuns, TypeOK, IInv, QueuesInv
<1>4. job.op \in OpIds \cup {NoOp} /\ job.reader \in Readers
  BY <1>3, JobTypes
<1>5. CASE job.op # NoOp
  <2>1. Live(job.op) /\ pending[job.op].reader = job.reader /\ native[job.reader].ready = "loading"
    BY <1>2, <1>3, <1>5, CurrentLive
  <2>2. CASE other.op = NoOp
    BY <1>1, <1>2, <1>3, <2>1, <2>2, CurrentEnds
  <2>3. CASE other.op # NoOp
    <3>1. other.op \in OpIds /\ Live(other.op) /\ pending[other.op].reader = job.reader
      BY <1>1, <1>2, <1>3, <2>3, CurrentLive
    <3>2. other.op = job.op
      BY <1>4, <1>5, <2>1, <3>1 DEF IInv, OneEach
    <3> QED
      BY <1>1, <1>3, <3>1, <3>2, OpsOfMembers
  <2> QED
    BY <2>2, <2>3
<1>6. CASE job.op = NoOp
  <2>1. native[job.reader].ready = "done"
    BY <1>2, <1>3, <1>6, CurrentEnds
  <2>2. other.op = NoOp
    BY <1>1, <1>2, <1>3, <2>1, CurrentLive
  <2>3. UniqueEnds(jobs, job.reader, job.gen)
    BY <1>2, <1>4 DEF PhaseInv, IsCurrent
  <2>4. NoEnd(rest, job.reader, job.gen)
    BY <1>1, <1>3, <1>6, <2>3, TailEnds DEF IsEnd
  <2> QED
    BY <1>1, <1>2, <2>2, <2>4 DEF NoEnd, IsEnd
<1> QED
  BY <1>5, <1>6

\* No other frame and no job is about the read that code goes on with.
LEMMA FrameAlone ==
    ASSUME TypeOK, IInv, PhaseInv, ~flagShut, stack # << >>, GoesOn(Head(stack)),
           NEW other \in Members(Tail(stack)) \cup Members(jobs),
           other.reader = Head(stack).reader
    PROVE  ~IsCurrent(other.reader, other.gen)
<1> SUFFICES ASSUME IsCurrent(other.reader, other.gen) PROVE FALSE
  OBVIOUS
<1>1. PICK frame, rest : frame = Head(stack) /\ rest = Tail(stack)
  OBVIOUS
<1>2. IsCurrent(frame.reader, frame.gen) /\ other.gen = frame.gen /\ frame.event # "loadend"
  BY <1>1 DEF GoesOn, IsCurrent
<1>3. /\ frame \in Members(stack) /\ frame \in Frame
      /\ Members(rest) \subseteq Members(stack)
      /\ frame.op \in OpIds => frame.op \notin OpsOf(rest) /\ frame.op \notin OpsOf(jobs)
      /\ stack \in Seq(Frame)
  BY <1>1, HeadFrame, TailOps DEF TypeOK, IInv, QueuesInv
<1>4. frame.op \in OpIds \cup {NoOp} /\ frame.reader \in Readers
  BY <1>3, FrameTypes
<1>5. other \in Members(jobs) \/ other \in Members(stack)
  BY <1>1, <1>3
<1>6. other.op # NoOp => /\ other.op \in OpIds /\ Live(other.op)
                         /\ pending[other.op].reader = other.reader
                         /\ native[other.reader].ready = "loading"
  BY <1>5, CurrentLive
<1>7. other.op \in OpsOf(rest) \/ other.op \in OpsOf(jobs)
  BY <1>1, OpsOfMembers
<1>8. CASE frame.op # NoOp
  <2>1. Live(frame.op) /\ pending[frame.op].reader = frame.reader
        /\ native[frame.reader].ready = "loading"
    BY <1>2, <1>3, <1>8, CurrentLive
  <2>2. CASE other.op = NoOp
    BY <1>1, <1>5, <2>1, <2>2, CurrentEnds, CurrentFrames
  <2>3. CASE other.op # NoOp
    <3>1. other.op = frame.op
      BY <1>1, <1>4, <1>6, <1>8, <2>1, <2>3 DEF IInv, OneEach
    <3> QED
      BY <1>3, <1>6, <1>7, <2>3, <3>1
  <2> QED
    BY <2>2, <2>3
<1>9. CASE frame.op = NoOp
  <2>1. /\ frame.event \in {"load", "error", "abort", "loadend"} /\ frame.event # "loadend"
        /\ native[frame.reader].ready = "done" /\ ~native[frame.reader].terminal
        /\ last[frame.reader] = frame.event
    BY <1>2, <1>3, <1>9, CurrentFrames
  <2>2. other.op = NoOp
    BY <1>1, <1>6, <2>1
  <2>3. CASE other \in Members(jobs)
    BY <1>1, <2>1, <2>2, <2>3, CurrentEnds DEF Abstract!Going
  <2>4. CASE other \in Members(rest)
    <3>1. UniqueEnds(stack, frame.reader, frame.gen)
      BY <1>2, <1>4 DEF PhaseInv, IsCurrent
    <3>2. NoEnd(rest, frame.reader, frame.gen)
      BY <1>1, <1>3, <1>9, <3>1, TailEnds DEF IsEnd
    <3> QED
      BY <1>1, <1>2, <2>2, <2>4, <3>2 DEF NoEnd, IsEnd
  <2> QED
    BY <1>1, <2>3, <2>4
<1> QED
  BY <1>4, <1>8, <1>9

-----------------------------------------------------------------------------
(* Steps.                                                                   *)

\* What jobs and frames know of a reader stays true.
Untouched(r) ==
    /\ native'[r].ready = native[r].ready /\ native'[r].error = native[r].error
    /\ native'[r].gen = native[r].gen /\ native'[r].terminal = native[r].terminal
    /\ last'[r] = last[r]

\* None of the jobs or frames `s` is about the read that `r` has after the step.
Outdated(r, s) == \A item \in Members(s) : item.reader = r => ~IsCurrent(r, item.gen)'

\* Jobs or frames `t` that are left of `s`.
Left(t, s) ==
    /\ Members(t) \subseteq Members(s)
    /\ \A r, gen : UniqueEnds(s, r, gen) => UniqueEnds(t, r, gen)

\* The jobs and frames that stay when reader `r` moves on.
Stays(r, s) == Untouched(r) \/ Outdated(r, s)

\* What a job or a frame that stays knows.
LEMMA PhasesKeep ==
    /\ \A job : JobAt(job) /\ Untouched(job.reader) => JobAt(job)'
    /\ \A frame : FrameAt(frame) /\ Untouched(frame.reader) => FrameAt(frame)'
    /\ \A item, r, s : /\ item \in Members(s) /\ Outdated(r, s) /\ item.reader = r
                       => JobAt(item)' /\ FrameAt(item)'
<1>1. ASSUME NEW job, JobAt(job), Untouched(job.reader) PROVE JobAt(job)'
  BY <1>1 DEF JobAt, JobPhase, Untouched, IsCurrent
<1>2. ASSUME NEW frame, FrameAt(frame), Untouched(frame.reader) PROVE FrameAt(frame)'
  BY <1>2 DEF FrameAt, FramePhase, Untouched, IsCurrent
<1>3. ASSUME NEW s, NEW item \in Members(s), Outdated(item.reader, s)
      PROVE  JobAt(item)' /\ FrameAt(item)'
  BY <1>3 DEF Outdated, JobAt, FrameAt, IsCurrent
<1> QED
  BY <1>1, <1>2, <1>3

\* The packaging state of an operation whose reader did not move on.
LEMMA PumpKeeps ==
    ASSUME NEW op, PumpAt(op), pending'[op] \in {pending[op], NoOp},
           pumps'[op] \in {pumps[op], NoOp}, Live(op) => Untouched(pending[op].reader)
    PROVE  PumpAt(op)'
BY DEF PumpAt, Live, Untouched

\* The ends among the jobs or frames that stay, and one that is added.
LEMMA EndsKeep ==
    ASSUME NEW S, NEW s \in Seq(S), NEW t \in Seq(S), Left(t, s), NEW r \in Readers,
           \A q \in Readers \ {r} : Untouched(q), Stays(r, t),
           NEW q \in Readers, UniqueEnds(s, q, native[q].gen)
    PROVE  /\ UniqueEnds(t, q, native'[q].gen)
           /\ \A e : e.reader = r /\ (e.op = NoOp => Outdated(r, t)) /\ IsEnd(e, q, native'[q].gen)
                    => NoEnd(t, q, native'[q].gen)
<1>1. UniqueEnds(t, q, native[q].gen)
  BY DEF Left
<1>2. Untouched(q) => native'[q].gen = native[q].gen
  BY DEF Untouched
<1>3. ASSUME q = r, Outdated(r, t) PROVE NoEnd(t, q, native'[q].gen)
  BY <1>3 DEF Outdated, NoEnd, IsEnd, IsCurrent
<1>4. UniqueEnds(t, q, native'[q].gen)
  BY <1>1, <1>2, <1>3, NoneIsUnique DEF Stays
<1>5. ASSUME NEW e, e.reader = r, e.op = NoOp => Outdated(r, t), IsEnd(e, q, native'[q].gen)
      PROVE  NoEnd(t, q, native'[q].gen)
  BY <1>3, <1>5 DEF IsEnd
<1> QED
  BY <1>4, <1>5

\* A step of reader `r` that may add one job and one frame.
LEMMA ActStep ==
    ASSUME TypeOK, PhaseInv, ~flagShut, NEW r \in Readers,
           \A q \in Readers \ {r} : Untouched(q),
           NEW restJobs \in Seq(Job), Left(restJobs, jobs), Stays(r, restJobs),
           NEW restFrames \in Seq(Frame), Left(restFrames, stack), Stays(r, restFrames),
           \/ jobs' = restJobs
           \/ \E job \in Job : /\ jobs' = Append(restJobs, job)
                               /\ job.reader = r /\ JobAt(job)'
                               /\ job.op = NoOp => Outdated(r, restJobs),
           \/ stack' = restFrames
           \/ \E frame \in Frame : /\ stack' = <<frame>> \o restFrames
                                   /\ frame.reader = r /\ FrameAt(frame)'
                                   /\ frame.op = NoOp => Outdated(r, restFrames),
           \A op \in OpIds : PumpAt(op)'
    PROVE  PhaseInv'
<1>1. /\ \A job \in Members(jobs) : JobAt(job)
      /\ \A frame \in Members(stack) : FrameAt(frame)
      /\ \A q \in Readers : /\ UniqueEnds(jobs, q, native[q].gen)
                            /\ UniqueEnds(stack, q, native[q].gen)
  BY DEF PhaseInv
<1>2. jobs \in Seq(Job) /\ stack \in Seq(Frame)
  BY DEF TypeOK
<1>3. ASSUME NEW job \in Members(restJobs) PROVE JobAt(job)'
  <2>1. job \in Job
    BY DEF Members
  <2>2. JobAt(job) /\ job.reader \in Readers
    BY <1>1, <2>1, JobTypes DEF Left
  <2> QED
    BY <2>2, PhasesKeep DEF Stays
<1>4. ASSUME NEW frame \in Members(restFrames) PROVE FrameAt(frame)'
  <2>1. frame \in Frame
    BY DEF Members
  <2>2. FrameAt(frame) /\ frame.reader \in Readers
    BY <1>1, <2>1, FrameTypes DEF Left
  <2> QED
    BY <2>2, PhasesKeep DEF Stays
<1>5. /\ \A job \in Members(jobs') : JobAt(job)'
      /\ \A q \in Readers : UniqueEnds(jobs', q, native'[q].gen)
  <2>1. CASE jobs' = restJobs
    BY <1>1, <1>2, <1>3, <2>1, EndsKeep
  <2>2. ASSUME NEW job \in Job, jobs' = Append(restJobs, job), job.reader = r, JobAt(job)',
               job.op = NoOp => Outdated(r, restJobs)
        PROVE  /\ \A other \in Members(jobs') : JobAt(other)'
               /\ \A q \in Readers : UniqueEnds(jobs', q, native'[q].gen)
    <3>1. PICK t : t = <<job>>
      OBVIOUS
    <3>2. jobs' = restJobs \o t /\ t \in Seq(Job) /\ Members(t) = {job}
          /\ \A q, gen : UniqueEnds(t, q, gen)
      BY <2>2, <3>1, OneEnd
    <3>3. ASSUME NEW q \in Readers
          PROVE  /\ UniqueEnds(jobs', q, native'[q].gen)
                 /\ Members(jobs') = Members(restJobs) \cup {job}
      <4>1. UniqueEnds(restJobs, q, native'[q].gen)
            /\ (IsEnd(job, q, native'[q].gen) => NoEnd(restJobs, q, native'[q].gen))
        BY <1>1, <1>2, <2>2, EndsKeep
      <4>2. NoEnd(restJobs, q, native'[q].gen) \/ NoEnd(t, q, native'[q].gen)
        BY <3>2, <4>1 DEF NoEnd
      <4> QED
        BY <3>2, <4>1, <4>2, ConcatEnds
    <3> QED
      BY <1>3, <2>2, <3>3
  <2> QED
    BY <2>1, <2>2
<1>6. /\ \A frame \in Members(stack') : FrameAt(frame)'
      /\ \A q \in Readers : UniqueEnds(stack', q, native'[q].gen)
  <2>1. CASE stack' = restFrames
    BY <1>1, <1>2, <1>4, <2>1, EndsKeep
  <2>2. ASSUME NEW frame \in Frame, stack' = <<frame>> \o restFrames, frame.reader = r,
               FrameAt(frame)', frame.op = NoOp => Outdated(r, restFrames)
        PROVE  /\ \A other \in Members(stack') : FrameAt(other)'
               /\ \A q \in Readers : UniqueEnds(stack', q, native'[q].gen)
    <3>1. PICK t : t = <<frame>>
      OBVIOUS
    <3>2. stack' = t \o restFrames /\ t \in Seq(Frame) /\ Members(t) = {frame}
          /\ \A q, gen : UniqueEnds(t, q, gen)
      BY <2>2, <3>1, OneEnd
    <3>3. ASSUME NEW q \in Readers
          PROVE  /\ UniqueEnds(stack', q, native'[q].gen)
                 /\ Members(stack') = {frame} \cup Members(restFrames)
      <4>1. UniqueEnds(restFrames, q, native'[q].gen)
            /\ (IsEnd(frame, q, native'[q].gen) => NoEnd(restFrames, q, native'[q].gen))
        BY <1>1, <1>2, <2>2, EndsKeep
      <4>2. NoEnd(restFrames, q, native'[q].gen) \/ NoEnd(t, q, native'[q].gen)
        BY <3>2, <4>1 DEF NoEnd
      <4> QED
        BY <3>2, <4>1, <4>2, ConcatEnds
    <3> QED
      BY <1>4, <2>2, <3>3
  <2> QED
    BY <2>1, <2>2
<1> QED
  BY <1>5, <1>6 DEF PhaseInv

\* What is left of jobs or frames.
LEMMA LeftFacts ==
    ASSUME NEW S, NEW s \in Seq(S)
    PROVE  /\ Left(s, s)
           /\ s # << >> => Left(Tail(s), s) /\ Tail(s) \in Seq(S)
<1>1. ASSUME s # << >> PROVE Left(Tail(s), s) /\ Tail(s) \in Seq(S)
  <2>1. \A i \in 1 .. Len(Tail(s)) : i + 1 \in 1 .. Len(s) /\ Tail(s)[i] = s[i + 1]
    BY <1>1, TailFacts
  <2>2. Members(Tail(s)) \subseteq Members(s)
    BY <2>1 DEF Members
  <2>3. \A r, gen : UniqueEnds(s, r, gen) => UniqueEnds(Tail(s), r, gen)
    BY <1>1, TailEnds
  <2> QED
    BY <1>1, <2>2, <2>3, TailFacts DEF Left
<1> QED
  BY <1>1 DEF Left

-----------------------------------------------------------------------------
(* What FileReaderEvents sees of a step.                                    *)

AbstractStep == [Abstract!Next]_(Abstract!vars)

\* A function that is changed at one place.
LEMMA ChangedAt ==
    ASSUME NEW R, NEW f, f = [x \in R |-> f[x]], NEW g, g = [x \in R |-> g[x]], NEW r \in R, NEW v,
           \A x \in R : g[x] = IF x = r THEN v ELSE f[x]
    PROVE  g = [f EXCEPT ![r] = v]
OBVIOUS

\* A step that changes what a script sees of one reader.
LEMMA SeenBecomes ==
    ASSUME TypeOK, NEW r \in Readers, NEW now, native' = [native EXCEPT ![r] = now],
           NEW event, last' = [last EXCEPT ![r] = event]
    PROVE  \A s, hasResult, hasError :
              now.ready = s /\ now.result = hasResult /\ now.error = hasError
                 => Abstract!Becomes(r, s, hasResult, hasError, event)
<1> SUFFICES ASSUME NEW s, NEW hasResult, NEW hasError,
                    now.ready = s, now.result = hasResult, now.error = hasError
             PROVE  Abstract!Becomes(r, s, hasResult, hasError, event)
  OBVIOUS
<1>1. \A q \in Readers : native'[q] = IF q = r THEN now ELSE native[q]
  BY DEF TypeOK
<1>2. PICK f, g : /\ f = [q \in Readers |-> native[q].ready]
                 /\ g = [q \in Readers |-> native'[q].ready]
  OBVIOUS
<1>3. g = [f EXCEPT ![r] = s]
  <2>1. \A q \in Readers : g[q] = IF q = r THEN s ELSE f[q]
    BY <1>1, <1>2
  <2>2. f = [q \in Readers |-> f[q]] /\ g = [q \in Readers |-> g[q]]
    BY ONLY <1>2
  <2> QED
    BY ONLY <2>1, <2>2, r \in Readers, ChangedAt
<1>4. PICK h, i : /\ h = [q \in Readers |-> native[q].result]
                  /\ i = [q \in Readers |-> native'[q].result]
  OBVIOUS
<1>5. i = [h EXCEPT ![r] = hasResult]
  <2>1. \A q \in Readers : i[q] = IF q = r THEN hasResult ELSE h[q]
    BY <1>1, <1>4
  <2>2. h = [q \in Readers |-> h[q]] /\ i = [q \in Readers |-> i[q]]
    BY ONLY <1>4
  <2> QED
    BY ONLY <2>1, <2>2, r \in Readers, ChangedAt
<1>6. PICK j, k : /\ j = [q \in Readers |-> native[q].error]
                  /\ k = [q \in Readers |-> native'[q].error]
  OBVIOUS
<1>7. k = [j EXCEPT ![r] = hasError]
  <2>1. \A q \in Readers : k[q] = IF q = r THEN hasError ELSE j[q]
    BY <1>1, <1>6
  <2>2. j = [q \in Readers |-> j[q]] /\ k = [q \in Readers |-> k[q]]
    BY ONLY <1>6
  <2> QED
    BY ONLY <2>1, <2>2, r \in Readers, ChangedAt
<1> QED
  BY <1>2, <1>3, <1>4, <1>5, <1>6, <1>7 DEF Abstract!Becomes

\* A step that a script does not see.
LEMMA SeenStays ==
    ASSUME last' = last,
           \A q \in Readers : /\ native'[q].ready = native[q].ready
                              /\ native'[q].result = native[q].result
                              /\ native'[q].error = native[q].error
    PROVE  AbstractStep
<1>1. /\ [q \in Readers |-> native'[q].ready] = [q \in Readers |-> native[q].ready]
      /\ [q \in Readers |-> native'[q].result] = [q \in Readers |-> native[q].result]
      /\ [q \in Readers |-> native'[q].error] = [q \in Readers |-> native[q].error]
  OBVIOUS
<1>2. UNCHANGED Abstract!vars
  BY <1>1 DEF Abstract!vars
<1> QED
  BY <1>2 DEF AbstractStep

\* An event that only changes what was seen.
LEMMA SeenFires ==
    ASSUME TypeOK, NEW r \in Readers, NEW now, native' = [native EXCEPT ![r] = now],
           now.ready = native[r].ready, now.result = native[r].result,
           now.error = native[r].error,
           NEW event \in {"loadstart", "progress", "load", "error", "loadend"},
           last' = [last EXCEPT ![r] = event], Abstract!MayFire(r, event)
    PROVE  AbstractStep
<1>1. Abstract!Becomes(r, native[r].ready, native[r].result, native[r].error, event)
  BY SeenBecomes
<1>2. Abstract!Fire(r)
  BY <1>1 DEF Abstract!Fire
<1> QED
  BY <1>2 DEF AbstractStep, Abstract!Next

\* A step that changes one reader leaves the others alone.
LEMMA OthersUntouched ==
    ASSUME TypeOK, NEW r \in Readers, NEW now, native' = [native EXCEPT ![r] = now],
           last' = last \/ \E event : last' = [last EXCEPT ![r] = event]
    PROVE  native'[r] = now /\ \A q \in Readers \ {r} : Untouched(q)
BY DEF TypeOK, Untouched

\* A reader that begins a new generation leaves its jobs and frames behind.
LEMMA NewOutdates ==
    ASSUME TypeOK, IInv, NEW r \in Readers, native'[r].gen = nextGen
    PROVE  Outdated(r, jobs) /\ Outdated(r, stack)
<1>1. nextGen \in Nat
  BY ReaderAssumption DEF TypeOK
<1>2. ASSUME NEW job \in Members(jobs) PROVE job.gen \in Nat /\ job.gen < nextGen
  <2>1. job \in Job /\ JobFits(job)
    BY DEF Members, TypeOK, IInv, QueuesInv
  <2> QED
    BY <2>1, JobTypes DEF JobFits
<1>3. ASSUME NEW frame \in Members(stack) PROVE frame.gen \in Nat /\ frame.gen < nextGen
  <2>1. frame \in Frame /\ FrameFits(frame)
    BY DEF Members, TypeOK, IInv, QueuesInv
  <2> QED
    BY <2>1, FrameTypes DEF FrameFits
<1>4. \A g \in Nat : g < nextGen => g # nextGen
  BY <1>1
<1> QED
  BY <1>2, <1>3, <1>4 DEF Outdated, IsCurrent

\* The packaging states when a reader is not loading after the step.
LEMMA DonePumps ==
    ASSUME TypeOK, PhaseInv, IInv', ~flagShut, NEW r \in Readers, native'[r].ready # "loading",
           \A q \in Readers \ {r} : Untouched(q), NEW op \in OpIds,
           \/ pending'[op] = NoOp
           \/ pending'[op] = pending[op] /\ pumps'[op] \in {pumps[op], NoOp}
    PROVE  PumpAt(op)'
<1>1. CASE pending'[op] = NoOp
  BY <1>1 DEF PumpAt, Live
<1>2. CASE pending'[op] # NoOp
  <2>1. native'[pending[op].reader].ready = "loading"
    BY <1>2 DEF IInv, OpAt, ReadAt, Live
  <2>2. pending[op].reader \in Readers \ {r}
    BY <1>2, <2>1, OpTypes
  <2> QED
    BY <1>2, <2>2, PumpKeeps DEF PhaseInv
<1> QED
  BY <1>1, <1>2

-----------------------------------------------------------------------------
(* Scripts.                                                                 *)

\* A read that is over before it starts.
LEMMA FailsPhase ==
    ASSUME TypeOK, IInv, PhaseInv, IInv', NEW r \in Readers, MayRead(r), FailsAtOnce(r)
    PROVE  PhaseInv' /\ AbstractStep
<1>1. PICK now, e : /\ now = [ready |-> "done", result |-> FALSE, error |-> TRUE,
                              gen |-> nextGen, terminal |-> FALSE]
                    /\ e = DispatchJob("error", r, nextGen)
  OBVIOUS
<1>2. /\ native' = [native EXCEPT ![r] = now] /\ last' = [last EXCEPT ![r] = "none"]
      /\ jobs' = Append(jobs, e) /\ stack' = stack
      /\ UNCHANGED <<flagShut, pending, pumps>>
  BY <1>1 DEF FailsAtOnce
<1>3. native'[r] = now /\ \A q \in Readers \ {r} : Untouched(q)
  BY <1>2, OthersUntouched
<1>4. AbstractStep
  <2>1. Abstract!Becomes(r, "done", FALSE, TRUE, "none")
    <3>1. now.ready = "done" /\ now.result = FALSE /\ now.error = TRUE
      BY <1>1
    <3> QED
      BY <3>1, <1>2, SeenBecomes, Zenon
  <2>2. Abstract!Start(r)
    BY <2>1 DEF Abstract!Start, MayRead
  <2> QED
    BY <2>2 DEF AbstractStep, Abstract!Next
<1>5. ASSUME ~flagShut PROVE PhaseInv'
  <2>1. Outdated(r, jobs) /\ Outdated(r, stack)
    BY <1>1, <1>3, NewOutdates
  <2>2. e \in Job /\ e.reader = r /\ e.does = "error" /\ e.gen = nextGen
    <3>1. nextGen \in Generations
      BY NextGenTypes DEF MayRead
    <3> QED
      BY <1>1, <3>1, MadeTypes DEF DispatchJob
  <2>3. JobAt(e)'
    <3>1. last'[r] = "none"
      BY <1>2 DEF TypeOK
    <3> QED
      BY <1>1, <1>3, <2>2, <3>1 DEF JobAt, JobPhase, Abstract!Going
  <2>4. \A op \in OpIds : PumpAt(op)'
    BY <1>1, <1>2, <1>3, <1>5, DonePumps
  <2>5. jobs \in Seq(Job) /\ stack \in Seq(Frame)
    BY DEF TypeOK
  <2> QED
    BY <1>2, <1>3, <1>5, <2>1, <2>2, <2>3, <2>4, <2>5, LeftFacts, ActStep DEF Stays
<1> QED
  BY <1>2, <1>4, <1>5 DEF PhaseInv

\* A read that starts.
LEMMA StartedPhase ==
    ASSUME TypeOK, IInv, PhaseInv, NEW r \in Readers, ReadStarted(r)
    PROVE  PhaseInv' /\ AbstractStep
<1>1. PICK now : now = [ready |-> "loading", result |-> FALSE, error |-> FALSE,
                        gen |-> nextGen, terminal |-> FALSE]
  OBVIOUS
<1>2. PICK op \in OpIds : /\ pending' = [pending EXCEPT ![op] = [reader |-> r, gen |-> nextGen]]
                          /\ pumps' = [pumps EXCEPT ![op] = FirstPump]
  BY DEF ReadStarted
<1>3. /\ native' = [native EXCEPT ![r] = now] /\ last' = [last EXCEPT ![r] = "none"]
      /\ UNCHANGED <<flagShut, jobs, stack>> /\ MayRead(r)
  BY <1>1 DEF ReadStarted
<1>4. native'[r] = now /\ \A q \in Readers \ {r} : Untouched(q)
  BY <1>3, OthersUntouched
<1>5. AbstractStep
  <2>1. Abstract!Becomes(r, "loading", FALSE, FALSE, "none")
    <3>1. now.ready = "loading" /\ now.result = FALSE /\ now.error = FALSE
      BY <1>1
    <3> QED
      BY <3>1, <1>3, SeenBecomes, Zenon
  <2>2. Abstract!Start(r)
    BY <1>3, <2>1 DEF Abstract!Start, MayRead
  <2> QED
    BY <2>2 DEF AbstractStep, Abstract!Next
<1>6. ASSUME ~flagShut PROVE PhaseInv'
  <2>1. Outdated(r, jobs) /\ Outdated(r, stack)
    BY <1>1, <1>4, NewOutdates
  <2>2. ASSUME NEW x \in OpIds, x # op PROVE PumpAt(x)'
    <3>1. pending'[x] = pending[x] /\ pumps'[x] = pumps[x]
      BY <1>2, <2>2 DEF TypeOK
    <3>2. Live(x) => pending[x].reader \in Readers \ {r}
      BY <1>3, IdleHasNone DEF MayRead
    <3> QED
      BY <1>4, <1>6, <3>1, <3>2, PumpKeeps DEF PhaseInv
  <2>3. PumpAt(op)'
    <3>1. pending'[op] = [reader |-> r, gen |-> nextGen] /\ pumps'[op] = FirstPump
      BY <1>2 DEF TypeOK
    <3>2. last'[r] = "none"
      BY <1>3 DEF TypeOK
    <3> QED
      BY <3>1, <3>2 DEF PumpAt, FirstPump, SeenBy
  <2>4. jobs \in Seq(Job) /\ stack \in Seq(Frame)
    BY DEF TypeOK
  <2> QED
    BY <1>3, <1>4, <1>6, <2>1, <2>2, <2>3, <2>4, LeftFacts, ActStep DEF Stays
<1> QED
  BY <1>3, <1>5, <1>6 DEF PhaseInv

\* abort() outside LOADING.
LEMMA AbortIdlePhase ==
    ASSUME TypeOK, PhaseInv, NEW r \in Readers, AbortIdle(r)
    PROVE  PhaseInv' /\ AbstractStep
<1>1. PICK now : now = [native[r] EXCEPT !.result = FALSE]
  OBVIOUS
<1>2. /\ native' = [native EXCEPT ![r] = now] /\ native[r].ready # "loading"
      /\ UNCHANGED <<flagShut, pending, pumps, jobs, stack, last>>
  BY <1>1 DEF AbortIdle
<1>3. /\ now.ready = native[r].ready /\ now.error = native[r].error /\ now.result = FALSE
      /\ now.gen = native[r].gen /\ now.terminal = native[r].terminal
  BY <1>1 DEF TypeOK, Native
<1>4. native'[r] = now /\ \A q \in Readers \ {r} : Untouched(q)
  BY <1>2, OthersUntouched
<1>5. Untouched(r)
  BY <1>2, <1>3, <1>4 DEF Untouched
<1>6. AbstractStep
  <2>1. PICK s, e, seen : s = native[r].ready /\ e = native[r].error /\ seen = last[r]
    OBVIOUS
  <2>2. last' = [last EXCEPT ![r] = seen] /\ now.ready = s /\ now.error = e /\ now.result = FALSE
    BY <1>2, <1>3, <2>1 DEF TypeOK
  <2>4. Abstract!Becomes(r, s, FALSE, e, seen)
    BY <1>2, <2>2, SeenBecomes, Zenon
  <2>3. Abstract!Abort(r)
    <3>1. /\ [q \in Readers |-> native[q].ready][r] = s
          /\ [q \in Readers |-> native[q].error][r] = e
      BY <2>1
    <3>2. s # "loading"
      BY <1>2, <2>1
    <3> QED
      BY <2>1, <2>4, <3>1, <3>2 DEF Abstract!Abort, Abstract!Becomes
  <2> QED
    BY <2>3 DEF AbstractStep, Abstract!Next
<1>7. ASSUME ~flagShut PROVE PhaseInv'
  <2>1. ASSUME NEW op \in OpIds PROVE PumpAt(op)'
    <3>1. Live(op) => pending[op].reader \in Readers
      BY OpTypes DEF Live
    <3> QED
      BY <1>2, <1>4, <1>5, <1>7, <3>1, PumpKeeps DEF PhaseInv
  <2>2. jobs \in Seq(Job) /\ stack \in Seq(Frame)
    BY DEF TypeOK
  <2> QED
    BY <1>2, <1>4, <1>5, <1>7, <2>1, <2>2, LeftFacts, ActStep DEF Stays
<1> QED
  BY <1>2, <1>6, <1>7 DEF PhaseInv

\* abort() of a read.
LEMMA AbortReadPhase ==
    ASSUME TypeOK, IInv, PhaseInv, IInv', NEW r \in Readers, AbortRead(r)
    PROVE  PhaseInv' /\ AbstractStep
<1>1. PICK now, ops, e :
         /\ now = [ready |-> "done", result |-> FALSE, error |-> FALSE,
                   gen |-> nextGen, terminal |-> FALSE]
         /\ ops = {op \in OpIds : pending[op] # NoOp /\ pending[op].reader = r}
         /\ e = PlainFrame("abort", r, nextGen)
  OBVIOUS
<1>2. /\ native' = [native EXCEPT ![r] = now] /\ native[r].ready = "loading"
      /\ nextGen <= MaxGen
      /\ pumps' = [op \in OpIds |-> IF op \in ops THEN NoOp ELSE pumps[op]]
      /\ IF ContextGone THEN UNCHANGED <<stack, last>> ELSE Dispatch(e, stack)
      /\ UNCHANGED <<flagShut, jobs>>
  BY <1>1 DEF AbortRead
<1>3. \/ pending' = pending
      \/ \E op : pending' = [pending EXCEPT ![op] = NoOp]
  <2>1. IF ops = {} THEN pending' = pending ELSE Release(CHOOSE op \in ops : TRUE)
    BY <1>1 DEF AbortRead
  <2> QED
    BY <2>1 DEF Release
<1>4. e \in Frame /\ e.reader = r /\ e.event = "abort" /\ e.gen = nextGen
  <2>1. nextGen \in Generations
    BY <1>2, NextGenTypes
  <2> QED
    BY <1>1, <2>1, MadeTypes DEF PlainFrame, FrameOf, Events
<1>5. \/ flagShut /\ last' = last
      \/ ~flagShut /\ stack' = <<e>> \o stack /\ last' = [last EXCEPT ![r] = "abort"]
  BY <1>2, <1>4 DEF ContextGone, Dispatch
<1>6. native'[r] = now /\ \A q \in Readers \ {r} : Untouched(q)
  BY <1>2, <1>5, OthersUntouched
<1>7. AbstractStep
  <2>1. now.ready = "done" /\ now.result = FALSE /\ now.error = FALSE
    BY <1>1
  <2>2. CASE last' = last
    <3>1. PICK seen : seen = last[r]
      OBVIOUS
    <3>2. last' = [last EXCEPT ![r] = seen]
      BY <2>2, <3>1 DEF TypeOK
    <3>4. Abstract!Becomes(r, "done", FALSE, FALSE, seen)
      BY <1>2, <2>1, <3>2, SeenBecomes, Zenon
    <3>3. Abstract!Abort(r)
      BY <1>2, <3>1, <3>4 DEF Abstract!Abort
    <3> QED
      BY <3>3 DEF AbstractStep, Abstract!Next
  <2>3. CASE last' = [last EXCEPT ![r] = "abort"]
    <3>1. Abstract!Becomes(r, "done", FALSE, FALSE, "abort")
      BY <1>2, <2>1, <2>3, SeenBecomes, Zenon
    <3>2. Abstract!Abort(r)
      BY <1>2, <3>1 DEF Abstract!Abort
    <3> QED
      BY <3>2 DEF AbstractStep, Abstract!Next
  <2> QED
    BY <1>5, <2>2, <2>3
<1>8. ASSUME ~flagShut PROVE PhaseInv'
  <2>1. Outdated(r, jobs) /\ Outdated(r, stack)
    BY <1>1, <1>6, NewOutdates
  <2>2. FrameAt(e)'
    <3>1. last'[r] = "abort"
      BY <1>5, <1>8 DEF TypeOK
    <3> QED
      BY <1>1, <1>4, <1>6, <3>1 DEF FrameAt, FramePhase
  <2>3. ASSUME NEW op \in OpIds PROVE PumpAt(op)'
    <3>1. pending'[op] \in {NoOp, pending[op]} /\ pumps'[op] \in {NoOp, pumps[op]}
      BY <1>2, <1>3 DEF TypeOK
    <3>2. native'[r].ready # "loading"
      BY <1>1, <1>6
    <3> QED
      BY <1>6, <1>8, <3>1, <3>2, DonePumps
  <2>4. jobs \in Seq(Job) /\ stack \in Seq(Frame)
    BY DEF TypeOK
  <2> QED
    BY <1>2, <1>4, <1>5, <1>6, <1>8, <2>1, <2>2, <2>3, <2>4, LeftFacts, ActStep DEF Stays
<1> QED
  BY <1>2, <1>7, <1>8 DEF PhaseInv

-----------------------------------------------------------------------------
(* Workers, poll_io and what scripts do not see.                            *)

\* A step that changes no reader, and at most takes jobs and frames away.
LEMMA UnseenStep ==
    ASSUME TypeOK, PhaseInv, UNCHANGED <<native, last, pending, pumps>>, flagShut => flagShut',
           jobs' = jobs \/ (jobs # << >> /\ jobs' = Tail(jobs)),
           stack' = stack \/ (stack # << >> /\ stack' = Tail(stack))
    PROVE  PhaseInv' /\ AbstractStep
<1>1. AbstractStep
  BY SeenStays
<1>2. \A q \in Readers : Untouched(q)
  BY DEF Untouched
<1>3. /\ jobs' \in Seq(Job) /\ Left(jobs', jobs)
      /\ stack' \in Seq(Frame) /\ Left(stack', stack)
  <2>1. jobs \in Seq(Job) /\ stack \in Seq(Frame)
    BY DEF TypeOK
  <2> QED
    BY <2>1, LeftFacts
<1>4. ASSUME ~flagShut PROVE PhaseInv'
  <2>1. \A op \in OpIds : PumpAt(op)'
    BY <1>4 DEF PhaseInv, PumpAt, Live
  <2>2. ASSUME NEW job \in Members(jobs') PROVE JobAt(job)'
    <3>1. job \in Job
      BY <1>3 DEF Members
    <3>2. JobAt(job) /\ job.reader \in Readers
      BY <1>3, <1>4, <3>1, JobTypes DEF Left, PhaseInv
    <3> QED
      BY <1>2, <3>2, PhasesKeep
  <2>3. ASSUME NEW frame \in Members(stack') PROVE FrameAt(frame)'
    <3>1. frame \in Frame
      BY <1>3 DEF Members
    <3>2. FrameAt(frame) /\ frame.reader \in Readers
      BY <1>3, <1>4, <3>1, FrameTypes DEF Left, PhaseInv
    <3> QED
      BY <1>2, <3>2, PhasesKeep
  <2>4. \A r \in Readers : /\ UniqueEnds(jobs', r, native'[r].gen)
                           /\ UniqueEnds(stack', r, native'[r].gen)
    BY <1>3, <1>4 DEF Left, PhaseInv
  <2> QED
    BY <2>1, <2>2, <2>3, <2>4 DEF PhaseInv
<1> QED
  BY <1>1, <1>4 DEF PhaseInv

\* poll_io hands completions to pump jobs.
LEMMA PollPhase ==
    ASSUME TypeOK, IInv, PhaseInv, TypeOK', Poll PROVE PhaseInv' /\ AbstractStep
<1> DEFINE ops == {op \in WithinBudget : IsAwaited(op)}
<1>1. /\ pumps' = [op \in OpIds |-> IF op \in ops THEN NoOp ELSE pumps[op]]
      /\ UNCHANGED <<flagShut, native, pending, stack, last>>
  BY DEF Poll, Taken
<1>2. PICK inOrder \in Ascending(ops) :
         jobs' = jobs \o [i \in 1 .. Cardinality(ops) |-> JobFor(inOrder[i])]
  BY DEF Poll, JobFor
<1>3. \A op \in ops : op \in QueuedChunks /\ pumps[op] # NoOp
  BY DEF WithinBudget, IsAwaited
<1> HIDE DEF ops
<1>4. PICK n, new : n = Cardinality(ops) /\ new = [i \in 1 .. n |-> JobFor(inOrder[i])]
  OBVIOUS
<1>5. \A op \in ops : op \in OpIds /\ op # NoOp /\ Live(op) /\ JobFor(op) \in Job
  BY <1>3, AwaitedFacts, DataTypes
<1>6. n \in Nat /\ \A i \in 1 .. n : inOrder[i] \in ops
  <2>1. IsFiniteSet(ops)
    BY <1>5, IdsAreNumbers
  <2> QED
    BY <1>4, <2>1, FS_CardinalityType DEF Ascending
<1>7. new \in Seq(Job) /\ Members(new) \subseteq {JobFor(op) : op \in ops}
  <2>1. new \in Seq(Job) /\ Len(new) = n /\ \A i \in 1 .. n : new[i] = JobFor(inOrder[i])
    BY <1>4, <1>5, <1>6
  <2> QED
    BY <1>6, <2>1 DEF Members
<1>8. jobs' = jobs \o new
  BY <1>2, <1>4
<1>9. AbstractStep
  BY <1>1, SeenStays
<1>10. \A q \in Readers : Untouched(q)
  BY <1>1 DEF Untouched
<1>11. ASSUME ~flagShut PROVE PhaseInv'
  <2>1. ASSUME NEW job \in Members(new)
        PROVE  JobAt(job)' /\ \A r, gen : ~IsEnd(job, r, gen)
    <3>1. PICK op \in ops : job = JobFor(op)
      BY <1>7
    <3>2. PumpAt(op)
      BY <1>5, <1>11 DEF PhaseInv
    <3>3. /\ job.does = "pump" /\ job.op = op /\ job.pump = pumps[op]
          /\ job.reader = pending[op].reader
      BY <3>1 DEF JobFor, PumpJob
    <3>4. last[job.reader] \in SeenBy(job.pump.started)
      BY <1>3, <1>5, <3>2, <3>3 DEF PumpAt
    <3> QED
      BY <1>1, <1>5, <3>3, <3>4 DEF JobAt, JobPhase, IsEnd
  <2>2. \A r, gen : NoEnd(new, r, gen)
    BY <2>1 DEF NoEnd
  <2>3. ASSUME NEW r \in Readers
        PROVE  /\ UniqueEnds(jobs', r, native'[r].gen)
               /\ Members(jobs') = Members(jobs) \cup Members(new)
    <3>1. UniqueEnds(jobs, r, native[r].gen) /\ UniqueEnds(new, r, native[r].gen)
      BY <1>11, <2>2, NoneIsUnique DEF PhaseInv
    <3>2. jobs \in Seq(Job)
      BY DEF TypeOK
    <3> QED
      BY <1>1, <1>7, <1>8, <2>2, <3>1, <3>2, ConcatEnds
  <2>4. ASSUME NEW job \in Members(jobs') PROVE JobAt(job)'
    <3>1. job \in Job
      BY DEF TypeOK, Members
    <3>2. job \in Members(jobs) \cup Members(new)
      BY <2>3, <3>1, JobTypes
    <3>3. CASE job \in Members(jobs)
      BY <1>10, <1>11, <3>1, <3>3, JobTypes, PhasesKeep DEF PhaseInv
    <3> QED
      BY <2>1, <3>2, <3>3
  <2>5. \A op \in OpIds : PumpAt(op)'
    BY <1>1, <1>11 DEF PhaseInv, PumpAt, Live
  <2>6. \A frame \in Members(stack') : FrameAt(frame)'
    BY <1>1, <1>11 DEF PhaseInv, FrameAt, FramePhase, IsCurrent
  <2> QED
    BY <1>1, <1>11, <2>3, <2>4, <2>5, <2>6 DEF PhaseInv
<1> QED
  BY <1>1, <1>9, <1>11 DEF PhaseInv

-----------------------------------------------------------------------------
(* Jobs and handlers of a read.                                             *)

\* The jobs and frames that stay when code runs about `r`'s read: the read has
\* no other ones.
Rest(r, queue, frames) ==
    /\ queue \in Seq(Job) /\ Left(queue, jobs)
    /\ frames \in Seq(Frame) /\ Left(frames, stack)
    /\ \A item \in Members(queue) \cup Members(frames) :
          item.reader = r => ~IsCurrent(r, item.gen)

\* They stay of an earlier read.
LEMMA RestOutdated ==
    ASSUME NEW r, NEW queue, NEW frames, Rest(r, queue, frames), native'[r].gen = native[r].gen
    PROVE  Outdated(r, queue) /\ Outdated(r, frames)
BY DEF Rest, Outdated, IsCurrent

\* A job runs.
LEMMA JobRest ==
    ASSUME TypeOK, IInv, PhaseInv, JobRuns, MayRun(Head(jobs))
    PROVE  /\ Rest(Head(jobs).reader, Tail(jobs), << >>) /\ stack = << >>
           /\ Head(jobs) \in Job /\ JobFits(Head(jobs)) /\ JobPhase(Head(jobs))
           /\ IsCurrent(Head(jobs).reader, Head(jobs).gen) /\ ~flagShut
<1>1. PICK job, rest : job = Head(jobs) /\ rest = Tail(jobs)
  OBVIOUS
<1>2. /\ stack = << >> /\ Members(stack) = {} /\ jobs # << >>
      /\ job \in Job /\ JobFits(job) /\ job \in Members(jobs)
      /\ jobs \in Seq(Job) /\ stack \in Seq(Frame) /\ rest \in Seq(Job)
  BY <1>1, HeadJob, TailOps DEF JobRuns, TypeOK, IInv, QueuesInv
<1>3. IsCurrent(job.reader, job.gen) /\ ~flagShut
  BY <1>1 DEF MayRun, ContextGone
<1>4. JobPhase(job)
  BY <1>2, <1>3 DEF PhaseInv, JobAt
<1>5. \A other \in Members(rest) : other.reader = job.reader => ~IsCurrent(job.reader, other.gen)
  BY <1>1, JobAlone
<1>6. Left(rest, jobs) /\ Left(stack, stack)
  BY <1>1, <1>2, LeftFacts
<1>7. Rest(job.reader, rest, stack)
  BY <1>2, <1>5, <1>6 DEF Rest
<1> QED
  BY <1>1, <1>2, <1>3, <1>4, <1>7

\* Code goes on after handlers returned.
LEMMA FrameRest ==
    ASSUME TypeOK, IInv, PhaseInv, ~flagShut, stack # << >>, GoesOn(Head(stack))
    PROVE  /\ Rest(Head(stack).reader, jobs, Tail(stack))
           /\ Head(stack) \in Frame /\ FrameFits(Head(stack)) /\ FramePhase(Head(stack))
           /\ IsCurrent(Head(stack).reader, Head(stack).gen)
<1>1. PICK frame, rest : frame = Head(stack) /\ rest = Tail(stack)
  OBVIOUS
<1>2. /\ frame \in Frame /\ FrameFits(frame) /\ frame \in Members(stack)
      /\ jobs \in Seq(Job) /\ stack \in Seq(Frame) /\ rest \in Seq(Frame)
  BY <1>1, HeadFrame, TailOps DEF TypeOK, IInv, QueuesInv
<1>3. IsCurrent(frame.reader, frame.gen)
  BY <1>1 DEF GoesOn
<1>4. FramePhase(frame)
  BY <1>2, <1>3 DEF PhaseInv, FrameAt
<1>5. \A other \in Members(jobs) \cup Members(rest) :
         other.reader = frame.reader => ~IsCurrent(frame.reader, other.gen)
  BY <1>1, FrameAlone
<1>6. Left(jobs, jobs) /\ Left(rest, stack)
  BY <1>1, <1>2, LeftFacts
<1>7. Rest(frame.reader, jobs, rest)
  BY <1>2, <1>5, <1>6 DEF Rest
<1> QED
  BY <1>1, <1>2, <1>3, <1>4, <1>7

\* A read that is under way: its pump fired loadstart.
UnderWay(r, gen, op) ==
    /\ r \in Readers /\ op \in OpIds /\ Live(op) /\ pending[op].reader = r
    /\ native[r].ready = "loading" /\ IsCurrent(r, gen) /\ gen \in Generations
    /\ last[r] \in SeenBy(TRUE)

\* The packaging states of the other reads.
LEMMA OtherPumps ==
    ASSUME TypeOK, IInv, PhaseInv, ~flagShut, NEW r \in Readers, NEW op \in OpIds,
           Live(op), pending[op].reader = r, \A q \in Readers \ {r} : Untouched(q),
           NEW x \in OpIds, x # op, pending'[x] \in {pending[x], NoOp},
           pumps'[x] \in {pumps[x], NoOp}
    PROVE  PumpAt(x)'
<1>1. Live(x) => pending[x].reader \in Readers \ {r}
  BY OpTypes DEF IInv, OneEach, Live
<1> QED
  BY <1>1, PumpKeeps DEF PhaseInv

\* The end of a read that is under way.
LEMMA SettlesPhase ==
    ASSUME TypeOK, IInv, PhaseInv, IInv', ~flagShut, flagShut' = flagShut,
           NEW r, NEW gen, NEW op, UnderWay(r, gen, op),
           NEW event \in {"load", "error"}, event = "load" => last[r] = "progress",
           NEW queue, NEW frames, Rest(r, queue, frames), stack' = frames, last' = last,
           Settles(r, gen, op, event, queue), \A x \in OpIds \ {op} : pumps'[x] = pumps[x]
    PROVE  PhaseInv' /\ AbstractStep
<1>1. PICK now, e : /\ now = [ready |-> "done", result |-> event = "load",
                              error |-> event = "error", gen |-> gen, terminal |-> FALSE]
                    /\ e = DispatchJob(event, r, gen)
  OBVIOUS
<1>2. /\ native' = [native EXCEPT ![r] = now] /\ jobs' = Append(queue, e)
      /\ pending' = [pending EXCEPT ![op] = NoOp]
  BY <1>1 DEF Settles, Release
<1>3. /\ r \in Readers /\ native[r].ready = "loading" /\ native[r].gen = gen
      /\ gen \in Generations /\ last[r] \in {"loadstart", "progress"}
      /\ op \in OpIds
  BY DEF UnderWay, IsCurrent, SeenBy
<1>4. native'[r] = now /\ \A q \in Readers \ {r} : Untouched(q)
  BY <1>2, <1>3, OthersUntouched
<1>5. PICK seen : seen = last[r]
  OBVIOUS
<1>6. last' = [last EXCEPT ![r] = seen]
  BY <1>5 DEF TypeOK
<1>7. AbstractStep
  <2>1. CASE event = "load"
    <3>1. now.ready = "done" /\ now.result = TRUE /\ now.error = FALSE
      BY <1>1, <2>1
    <3>2. Abstract!Becomes(r, "done", TRUE, FALSE, seen)
      BY <1>2, <1>3, <1>6, <3>1, SeenBecomes, Zenon
    <3>3. Abstract!Ends(r)
      BY <1>3, <1>5, <2>1, <3>2 DEF Abstract!Ends, Abstract!Becomes
    <3> QED
      BY <1>3, <3>3 DEF AbstractStep, Abstract!Next
  <2>2. CASE event = "error"
    <3>1. now.ready = "done" /\ now.result = FALSE /\ now.error = TRUE
      BY <1>1, <2>2
    <3>2. Abstract!Becomes(r, "done", FALSE, TRUE, seen)
      BY <1>2, <1>3, <1>6, <3>1, SeenBecomes, Zenon
    <3>3. Abstract!Ends(r)
      BY <1>3, <1>5, <3>2 DEF Abstract!Ends, Abstract!Becomes
    <3> QED
      BY <1>3, <3>3 DEF AbstractStep, Abstract!Next
  <2> QED
    BY <2>1, <2>2
<1>8. Outdated(r, queue) /\ Outdated(r, frames)
  BY <1>1, <1>3, <1>4, RestOutdated
<1>9. e \in Job /\ e.reader = r /\ e.does = event
  BY <1>1, <1>3, MadeTypes DEF DispatchJob
<1>10. JobAt(e)'
  <2>1. /\ native'[r].ready = "done" /\ ~native'[r].terminal
        /\ event = "load" => ~native'[r].error
        /\ event = "error" => native'[r].error
    <3>1. now.ready = "done" /\ now.terminal = FALSE
      BY <1>1
    <3>2. (event = "load" => now.error = FALSE) /\ (event = "error" => now.error = TRUE)
      BY <1>1
    <3> QED
      BY ONLY <1>4, <3>1, <3>2
  <2>2. last'[r] \in {"loadstart", "progress"} /\ (event = "load" => last'[r] = "progress")
    BY <1>3
  <2> QED
    BY <1>9, <2>1, <2>2 DEF JobAt, JobPhase, Abstract!Going
<1>11. ASSUME NEW x \in OpIds PROVE PumpAt(x)'
  <2>1. pending'[x] = NoOp \/ (pending'[x] = pending[x] /\ pumps'[x] = pumps[x])
    <3>1. pending' = [pending EXCEPT ![op] = NoOp] /\ pending \in [OpIds -> Operation \cup {NoOp}]
      BY <1>2 DEF TypeOK
    <3>2. CASE x = op
      <4>1. pending'[op] = NoOp
        BY ONLY <1>3, <3>1
      <4> QED
        BY ONLY <3>2, <4>1
    <3>3. CASE x # op
      BY <1>3, <3>1, <3>3
    <3> QED
      BY <3>2, <3>3
  <2>2. native'[r].ready # "loading"
    BY <1>1, <1>4
  <2> QED
    BY <1>3, <1>4, <2>1, <2>2, DonePumps
<1>12. queue \in Seq(Job) /\ Left(queue, jobs) /\ frames \in Seq(Frame) /\ Left(frames, stack)
  BY DEF Rest
<1>13. PhaseInv'
  BY <1>2, <1>3, <1>4, <1>8, <1>9, <1>10, <1>11, <1>12, ActStep DEF Stays
<1> QED
  BY <1>7, <1>13

\* The next request of a read that is under way, or its end.
LEMMA SubmitsPhase ==
    ASSUME TypeOK, IInv, PhaseInv, IInv', ~flagShut, flagShut' = flagShut,
           NEW r, NEW gen, NEW op, UnderWay(r, gen, op), NEW loaded,
           NEW queue, NEW frames, Rest(r, queue, frames), stack' = frames, last' = last,
           SubmitsNext(r, gen, op, loaded, queue)
    PROVE  PhaseInv' /\ AbstractStep
<1>1. r \in Readers /\ op \in OpIds /\ Live(op) /\ pending[op].reader = r
      /\ last[r] \in SeenBy(TRUE)
  BY DEF UnderWay
<1>2. pumps' = [pumps EXCEPT ![op] = [started |-> TRUE, loaded |-> loaded]]
  BY DEF SubmitsNext
<1>3. CASE Settles(r, gen, op, "error", queue)
  <2>1. \A x \in OpIds \ {op} : pumps'[x] = pumps[x]
    BY <1>2 DEF TypeOK
  <2> QED
    BY <1>3, <2>1, SettlesPhase
<1>4. CASE jobs' = queue /\ UNCHANGED <<native, pending>>
  <2>1. AbstractStep
    BY <1>4, SeenStays
  <2>2. \A q \in Readers : Untouched(q)
    BY <1>4 DEF Untouched
  <2>3. ASSUME NEW x \in OpIds PROVE PumpAt(x)'
    <3>1. CASE x = op
      <4>1. pumps'[op].started = TRUE
        BY <1>1, <1>2 DEF TypeOK
      <4> QED
        BY <1>1, <1>4, <3>1, <4>1 DEF PumpAt, Live
    <3>2. CASE x # op
      <4>1. pumps'[x] = pumps[x]
        BY <1>2, <3>2 DEF TypeOK
      <4> QED
        BY <1>1, <1>4, <2>2, <3>2, <4>1, OtherPumps
    <3> QED
      BY <3>1, <3>2
  <2>4. queue \in Seq(Job) /\ Left(queue, jobs) /\ frames \in Seq(Frame) /\ Left(frames, stack)
    BY DEF Rest
  <2>5. PhaseInv'
    BY <1>1, <1>4, <2>2, <2>3, <2>4, ActStep DEF Stays
  <2> QED
    BY <2>1, <2>5
<1> QED
  BY <1>3, <1>4 DEF SubmitsNext

\* A pump job that runs is of a live read.
LEMMA PumpRuns ==
    ASSUME TypeOK, IInv, PhaseInv, JobRuns, MayRun(Head(jobs)), Head(jobs).does = "pump"
    PROVE  LET job == Head(jobs)
           IN /\ job.op \in OpIds /\ Live(job.op) /\ pending[job.op].reader = job.reader
              /\ job.reader \in Readers /\ native[job.reader].ready = "loading"
              /\ last[job.reader] \in SeenBy(job.pump.started)
              /\ job.pump.started => UnderWay(job.reader, job.gen, job.op)
<1>1. PICK job : job = Head(jobs)
  OBVIOUS
<1>2. /\ job.op \in OpIds /\ Live(job.op) /\ pending[job.op].reader = job.reader
      /\ job.reader \in Readers /\ job.gen \in Generations
  BY <1>1, PumpJobLive
<1>3. native[job.reader].ready = "loading"
  BY <1>2 DEF IInv, OpAt, ReadAt
<1>4. /\ IsCurrent(job.reader, job.gen)
      /\ last[job.reader] \in SeenBy(job.pump.started)
  BY <1>1, JobRest DEF JobPhase
<1>5. ASSUME job.pump.started PROVE UnderWay(job.reader, job.gen, job.op)
  BY <1>2, <1>3, <1>4, <1>5 DEF UnderWay, SeenBy
<1> QED
  BY <1>1, <1>2, <1>3, <1>4, <1>5

\* A job fires an event.
LEMMA FiresPhase ==
    ASSUME TypeOK, IInv, PhaseInv, JobRuns, MayRun(Head(jobs)),
           UNCHANGED <<flagShut, native>>, jobs' = Tail(jobs),
           NEW frame \in Frame, frame.reader = Head(jobs).reader, stack' = <<frame>> \o << >>,
           NEW event \in {"loadstart", "progress", "load", "error", "loadend"},
           last' = [last EXCEPT ![frame.reader] = event], FrameAt(frame)',
           Abstract!MayFire(frame.reader, event), \A op \in OpIds : PumpAt(op)'
    PROVE  PhaseInv' /\ AbstractStep
<1>1. PICK r, rest, now : r = frame.reader /\ rest = Tail(jobs) /\ now = native[r]
  OBVIOUS
<1>2. r \in Readers
  BY <1>1, FrameTypes
<1>3. native' = [native EXCEPT ![r] = now]
  BY <1>1, <1>2 DEF TypeOK
<1>4. AbstractStep
  BY <1>1, <1>2, <1>3, SeenFires
<1>5. native'[r] = now /\ \A q \in Readers \ {r} : Untouched(q)
  BY <1>1, <1>2, <1>3, OthersUntouched
<1>6. Rest(r, rest, << >>) /\ stack = << >> /\ ~flagShut
  BY <1>1, JobRest
<1>7. Outdated(r, rest) /\ Outdated(r, << >>)
  BY <1>1, <1>5, <1>6, RestOutdated
<1>8. /\ rest \in Seq(Job) /\ Left(rest, jobs) /\ << >> \in Seq(Frame) /\ Left(<< >>, stack)
  BY <1>6 DEF Rest
<1>9. jobs' = rest /\ frame.reader = r /\ FrameAt(frame)'
  BY <1>1
<1>10. PhaseInv'
  BY <1>2, <1>5, <1>6, <1>7, <1>8, <1>9, ActStep DEF Stays
<1> QED
  BY <1>4, <1>10

\* The first job of a read fires loadstart.
LEMMA RunLoadstartPhase ==
    ASSUME TypeOK, IInv, PhaseInv, TypeOK', RunLoadstart PROVE PhaseInv' /\ AbstractStep
<1>1. PICK job : job = Head(jobs)
  OBVIOUS
<1>2. PICK started, frame : /\ started = [job.pump EXCEPT !.started = TRUE]
                            /\ frame = FrameOf("loadstart", job.reader, job.gen, job.op, 0, job.chunk)
  OBVIOUS
<1>3. /\ JobRuns /\ MayRun(Head(jobs)) /\ job.does = "pump" /\ ~job.pump.started
      /\ pumps' = [pumps EXCEPT ![job.op] = started]
      /\ Dispatch(frame, << >>)
      /\ jobs' = Tail(jobs)
      /\ UNCHANGED <<flagShut, native, pending>>
  BY <1>1, <1>2 DEF RunLoadstart, noEvents
<1>4. /\ job.op \in OpIds /\ Live(job.op) /\ pending[job.op].reader = job.reader
      /\ job.reader \in Readers /\ native[job.reader].ready = "loading"
      /\ last[job.reader] \in SeenBy(job.pump.started)
  BY <1>1, <1>3, PumpRuns
<1>5. job \in Job /\ ~flagShut
  BY <1>1, <1>3, JobRest
<1>6. /\ frame \in Frame /\ frame.reader = job.reader /\ frame.event = "loadstart"
  <2>1. "loadstart" \in Events /\ 0 \in Offsets /\ job.gen \in Generations /\ job.chunk \in Kinds
    BY <1>5, JobTypes, DataTypes DEF Events
  <2> QED
    BY <1>2, <1>4, <2>1, MadeTypes DEF FrameOf
<1>7. /\ stack' = <<frame>> \o << >> /\ last' = [last EXCEPT ![frame.reader] = "loadstart"]
  BY <1>3, <1>6 DEF Dispatch
<1>8. last'[job.reader] = "loadstart"
  BY <1>4, <1>6, <1>7 DEF TypeOK
<1>9. FrameAt(frame)'
  BY <1>6, <1>8 DEF FrameAt, FramePhase
<1>10. Abstract!MayFire(frame.reader, "loadstart")
  BY <1>3, <1>4, <1>6 DEF Abstract!MayFire, SeenBy
<1>11. \A q \in Readers \ {job.reader} : Untouched(q)
  BY <1>3, <1>6, <1>7 DEF Untouched, TypeOK
<1>12. ASSUME NEW x \in OpIds PROVE PumpAt(x)'
  <2>1. CASE x = job.op
    <3>1. pumps'[job.op].started = TRUE
      BY <1>2, <1>3, <1>4, <1>5, JobTypes DEF TypeOK, Pump
    <3> QED
      BY <1>3, <1>4, <1>8, <2>1, <3>1 DEF PumpAt, Live, SeenBy
  <2>2. CASE x # job.op
    <3>1. pumps'[x] = pumps[x]
      BY <1>3, <2>2 DEF TypeOK
    <3> QED
      BY <1>3, <1>4, <1>5, <1>11, <2>2, <3>1, OtherPumps
  <2> QED
    BY <2>1, <2>2
<1> QED
  BY <1>1, <1>3, <1>6, <1>7, <1>9, <1>10, <1>12, FiresPhase

\* The read goes on with a progress event.
LEMMA PumpFiresPhase ==
    ASSUME TypeOK, IInv, PhaseInv, JobRuns, MayRun(Head(jobs)),
           Head(jobs).does = "pump", Head(jobs).pump.started, flagShut' = flagShut,
           NEW event \in {"progress", "final"}, NEW loaded \in Offsets,
           Fires(Head(jobs), event, loaded)
    PROVE  PhaseInv' /\ AbstractStep
<1>1. PICK job : job = Head(jobs)
  OBVIOUS
<1>2. PICK frame : frame = FrameOf(event, job.reader, job.gen, job.op, loaded, "chunk")
  OBVIOUS
<1>3. /\ Dispatch(frame, << >>) /\ jobs' = Tail(jobs)
      /\ UNCHANGED <<native, pending, pumps>>
  BY <1>1, <1>2 DEF Fires
<1>4. /\ job.op \in OpIds /\ Live(job.op) /\ pending[job.op].reader = job.reader
      /\ job.reader \in Readers /\ native[job.reader].ready = "loading"
      /\ last[job.reader] \in {"loadstart", "progress"}
  BY <1>1, PumpRuns DEF SeenBy
<1>5. job \in Job /\ ~flagShut
  BY <1>1, JobRest
<1>6. /\ frame \in Frame /\ frame.reader = job.reader /\ frame.event = event
  <2>1. event \in Events /\ "chunk" \in Kinds /\ job.gen \in Generations
    BY <1>5, JobTypes DEF Events, Kinds
  <2> QED
    BY <1>2, <1>4, <2>1, MadeTypes DEF FrameOf
<1>7. /\ stack' = <<frame>> \o << >> /\ last' = [last EXCEPT ![frame.reader] = "progress"]
  BY <1>3, <1>6 DEF Dispatch
<1>8. last'[job.reader] = "progress"
  BY <1>4, <1>6, <1>7 DEF TypeOK
<1>9. FrameAt(frame)'
  BY <1>6, <1>8 DEF FrameAt, FramePhase
<1>10. Abstract!MayFire(frame.reader, "progress")
  BY <1>4, <1>6 DEF Abstract!MayFire
<1>11. \A q \in Readers \ {job.reader} : Untouched(q)
  BY <1>3, <1>6, <1>7 DEF Untouched, TypeOK
<1>12. ASSUME NEW x \in OpIds PROVE PumpAt(x)'
  <2>1. CASE x = job.op
    <3>1. pumps[job.op] # NoOp => pumps[job.op].started
      BY <1>4, <1>5 DEF PhaseInv, PumpAt, SeenBy
    <3> QED
      BY <1>3, <1>4, <1>8, <2>1, <3>1 DEF PumpAt, Live, SeenBy
  <2>2. CASE x # job.op
    BY <1>3, <1>4, <1>5, <1>11, <2>2, OtherPumps
  <2> QED
    BY <2>1, <2>2
<1> QED
  BY <1>1, <1>3, <1>6, <1>7, <1>9, <1>10, <1>12, FiresPhase

\* load, error and loadend fire.
LEMMA RunDispatchPhase ==
    ASSUME TypeOK, IInv, PhaseInv, IInv', RunDispatch PROVE PhaseInv' /\ AbstractStep
<1>1. PICK job : job = Head(jobs)
  OBVIOUS
<1>2. PICK frame : frame = PlainFrame(job.does, job.reader, job.gen)
  OBVIOUS
<1>3. /\ JobRuns /\ MayRun(Head(jobs)) /\ job.does # "pump"
      /\ Dispatch(frame, << >>) /\ jobs' = Tail(jobs)
      /\ UNCHANGED <<flagShut, native, pending, pumps>>
  BY <1>1, <1>2 DEF RunDispatch, noEvents
<1>4. /\ job \in Job /\ ~flagShut /\ JobPhase(job) /\ IsCurrent(job.reader, job.gen)
  BY <1>1, <1>3, JobRest
<1>5. /\ job.does \in {"load", "error", "loadend"} /\ job.reader \in Readers
      /\ job.gen \in Generations
  BY <1>3, <1>4, JobTypes
<1>6. /\ frame \in Frame /\ frame.reader = job.reader /\ frame.event = job.does
  <2>1. job.does \in Events
    BY <1>5 DEF Events
  <2> QED
    BY <1>2, <1>5, <2>1, MadeTypes DEF PlainFrame, FrameOf
<1>7. PICK event \in {"load", "error", "loadend"} : event = job.does
  BY <1>5
<1>8. /\ stack' = <<frame>> \o << >> /\ last' = [last EXCEPT ![frame.reader] = event]
  BY <1>3, <1>6, <1>7 DEF Dispatch
<1>9. last'[job.reader] = event
  BY <1>5, <1>6, <1>8 DEF TypeOK
<1>10. /\ native[job.reader].ready = "done"
       /\ event # "loadend" => ~native[job.reader].terminal
  BY <1>4, <1>7 DEF JobPhase
<1>11. FrameAt(frame)'
  BY <1>3, <1>6, <1>7, <1>9, <1>10 DEF FrameAt, FramePhase
<1>12. Abstract!MayFire(frame.reader, event)
  BY <1>4, <1>5, <1>6, <1>7, <1>10 DEF Abstract!MayFire, JobPhase
<1>13. \A q \in Readers \ {job.reader} : Untouched(q)
  BY <1>3, <1>6, <1>8 DEF Untouched, TypeOK
<1>14. \A x \in OpIds : PumpAt(x)'
  BY <1>3, <1>4, <1>5, <1>10, <1>13, DonePumps
<1> QED
  BY <1>1, <1>3, <1>6, <1>7, <1>8, <1>11, <1>12, <1>14, FiresPhase

\* A completion is applied.
LEMMA RunPumpPhase ==
    ASSUME TypeOK, IInv, PhaseInv, IInv', RunPump PROVE PhaseInv' /\ AbstractStep
<1>1. PICK job, rest : job = Head(jobs) /\ rest = Tail(jobs)
  OBVIOUS
<1>2. /\ JobRuns /\ MayRun(Head(jobs)) /\ job.does = "pump" /\ job.pump.started
      /\ flagShut' = flagShut
  BY <1>1 DEF RunPump
<1>3. UnderWay(job.reader, job.gen, job.op)
  BY <1>1, <1>2, PumpRuns
<1>4. Rest(job.reader, rest, << >>) /\ stack = << >> /\ ~flagShut /\ job \in Job
  BY <1>1, <1>2, JobRest
<1>5. CASE FailsPump(job)
  <2>1. /\ Settles(job.reader, job.gen, job.op, "error", rest)
        /\ stack' = << >> /\ last' = last
        /\ \A x \in OpIds \ {job.op} : pumps'[x] = pumps[x]
    BY <1>1, <1>4, <1>5 DEF FailsPump, TypeOK
  <2> QED
    BY <1>2, <1>3, <1>4, <2>1, SettlesPhase
<1>6. ASSUME NEW event \in {"progress", "final"}, NEW loaded \in Offsets, Fires(job, event, loaded)
      PROVE  PhaseInv' /\ AbstractStep
  BY <1>1, <1>2, <1>6, PumpFiresPhase
<1>7. ASSUME NEW loaded, SubmitsNext(job.reader, job.gen, job.op, loaded, rest),
             UNCHANGED <<stack, last>>
      PROVE  PhaseInv' /\ AbstractStep
  BY <1>2, <1>3, <1>4, <1>7, SubmitsPhase
<1>8. PICK loaded : loaded = job.pump.loaded + 1
  OBVIOUS
<1>9. job.chunk = "chunk" => loaded \in Offsets
  <2>1. ASSUME job.chunk = "chunk" PROVE loaded \in Offsets
    <3>1. job.pump.loaded < size[job.op] /\ job.op \in OpIds
      BY <1>1, <1>2, <2>1, PumpJobLive
    <3>2. job.pump.loaded \in Nat /\ size[job.op] \in Nat /\ size[job.op] \in Sizes \cup {0}
      BY <1>4, <3>1, JobTypes, OpTypes
    <3>3. loaded \in Nat /\ loaded <= size[job.op]
      BY <1>8, <3>1, <3>2
    <3> QED
      BY <3>2, <3>3, DataTypes
  <2> QED
    BY <2>1
<1>10. \/ FailsPump(job)
       \/ Fires(job, "final", 0)
       \/ job.chunk = "chunk" /\ Fires(job, "progress", loaded)
       \/ job.chunk = "chunk" /\ Fires(job, "final", loaded)
       \/ /\ SubmitsNext(job.reader, job.gen, job.op, loaded, rest)
          /\ UNCHANGED <<stack, last>>
  BY <1>1, <1>8 DEF RunPump
<1>11. 0 \in Offsets
  BY DataTypes
<1> QED
  BY <1>5, <1>6, <1>7, <1>9, <1>10, <1>11

-----------------------------------------------------------------------------
(* Handlers return.                                                         *)

\* The pump of a read goes on after loadstart.
LEMMA ReturnLoadstartPhase ==
    ASSUME TypeOK, IInv, PhaseInv, ReturnLoadstart PROVE PhaseInv' /\ AbstractStep
<1>1. PICK f, rest, r : f = Head(stack) /\ rest = Tail(stack) /\ r = f.reader
  OBVIOUS
<1>2. PICK pump, job : /\ pump = [started |-> TRUE, loaded |-> 0]
                       /\ job = PumpJob(r, f.gen, f.op, pump, f.chunk)
  OBVIOUS
<1>3. /\ stack # << >> /\ GoesOn(Head(stack)) /\ f.event = "loadstart"
      /\ jobs' = Append(jobs, job) /\ stack' = rest
      /\ UNCHANGED <<flagShut, native, pending, pumps, last>>
  BY <1>1, <1>2 DEF ReturnLoadstart, noEvents
<1>4. AbstractStep
  BY <1>3, SeenStays
<1>5. \A q \in Readers : Untouched(q)
  BY <1>3 DEF Untouched
<1>6. ASSUME ~flagShut PROVE PhaseInv'
  <2>1. /\ Rest(r, jobs, rest) /\ f \in Frame /\ FrameFits(f) /\ FramePhase(f)
    BY <1>1, <1>3, <1>6, FrameRest
  <2>2. /\ f.op \in OpIds /\ f.op # NoOp /\ r \in Readers /\ f.gen \in Generations
        /\ f.chunk \in Kinds /\ last[r] = "loadstart"
    BY <1>1, <1>3, <2>1, FrameTypes, DataTypes DEF FrameFits, FramePhase
  <2>3. job \in Job
    <3>1. pump \in Pump
      BY <1>2, DataTypes DEF Pump
    <3> QED
      BY <1>2, <2>2, <3>1, MadeTypes
  <2>4. job.reader = r /\ job.op # NoOp /\ job.does = "pump" /\ job.pump.started
    BY <1>2, <2>2 DEF PumpJob
  <2>5. JobAt(job)'
    BY <1>3, <2>2, <2>4 DEF JobAt, JobPhase, SeenBy
  <2>6. \A op \in OpIds : PumpAt(op)'
    BY <1>3, <1>6 DEF PhaseInv, PumpAt, Live
  <2>7. jobs \in Seq(Job) /\ Left(jobs, jobs) /\ rest \in Seq(Frame) /\ Left(rest, stack)
    BY <2>1 DEF Rest
  <2> QED
    BY <1>3, <1>5, <1>6, <2>2, <2>3, <2>4, <2>5, <2>6, <2>7, ActStep DEF Stays
<1> QED
  BY <1>3, <1>4, <1>6 DEF PhaseInv

\* A read is under way while handlers of progress run.
LEMMA ProgressRuns ==
    ASSUME TypeOK, IInv, PhaseInv, stack # << >>, GoesOn(Head(stack)),
           Head(stack).event \in {"progress", "final"}
    PROVE  LET f == Head(stack)
           IN /\ UnderWay(f.reader, f.gen, f.op) /\ last[f.reader] = "progress" /\ ~flagShut
              /\ Rest(f.reader, jobs, Tail(stack))
<1>1. PICK f : f = Head(stack)
  OBVIOUS
<1>2. ~flagShut
  BY <1>1 DEF GoesOn, ContextGone
<1>3. /\ f.op \in OpIds /\ Live(f.op) /\ pending[f.op].reader = f.reader
      /\ f.reader \in Readers /\ f.gen \in Generations
  BY <1>1, GoesOnLive
<1>4. native[f.reader].ready = "loading"
  BY <1>3 DEF IInv, OpAt, ReadAt
<1>5. /\ Rest(f.reader, jobs, Tail(stack)) /\ IsCurrent(f.reader, f.gen)
      /\ last[f.reader] = "progress"
  BY <1>1, <1>2, FrameRest DEF FramePhase
<1>6. UnderWay(f.reader, f.gen, f.op)
  BY <1>3, <1>4, <1>5 DEF UnderWay, SeenBy
<1> QED
  BY <1>1, <1>2, <1>5, <1>6

\* The next chunk is asked for after progress.
LEMMA ReturnProgressPhase ==
    ASSUME TypeOK, IInv, PhaseInv, IInv', ReturnProgress PROVE PhaseInv' /\ AbstractStep
<1>1. PICK f, rest : f = Head(stack) /\ rest = Tail(stack)
  OBVIOUS
<1>2. /\ stack # << >> /\ GoesOn(Head(stack)) /\ f.event = "progress"
      /\ SubmitsNext(f.reader, f.gen, f.op, f.loaded, jobs)
      /\ stack' = rest /\ flagShut' = flagShut /\ last' = last
  BY <1>1 DEF ReturnProgress
<1>3. UnderWay(f.reader, f.gen, f.op) /\ ~flagShut /\ Rest(f.reader, jobs, rest)
  BY <1>1, <1>2, ProgressRuns
<1> QED
  BY <1>2, <1>3, SubmitsPhase

\* The result is packaged after the final progress event, or cannot be.
LEMMA ReturnFinalPhase ==
    ASSUME TypeOK, IInv, PhaseInv, IInv', ReturnFinal PROVE PhaseInv' /\ AbstractStep
<1>1. PICK f, rest : f = Head(stack) /\ rest = Tail(stack)
  OBVIOUS
<1>2. /\ stack # << >> /\ GoesOn(Head(stack)) /\ f.event = "final"
      /\ pumps' = [pumps EXCEPT ![f.op] = NoOp]
      /\ stack' = rest /\ flagShut' = flagShut /\ last' = last
  BY <1>1 DEF ReturnFinal
<1>3. PICK event \in {"load", "error"} : Settles(f.reader, f.gen, f.op, event, jobs)
  BY <1>1 DEF ReturnFinal
<1>4. /\ UnderWay(f.reader, f.gen, f.op) /\ last[f.reader] = "progress" /\ ~flagShut
      /\ Rest(f.reader, jobs, rest)
  BY <1>1, <1>2, ProgressRuns
<1>5. \A x \in OpIds \ {f.op} : pumps'[x] = pumps[x]
  BY <1>2 DEF TypeOK
<1> QED
  BY <1>2, <1>3, <1>4, <1>5, SettlesPhase

\* A terminal event is over.
LEMMA ReturnTerminalPhase ==
    ASSUME TypeOK, IInv, PhaseInv, IInv', ReturnTerminal PROVE PhaseInv' /\ AbstractStep
<1>1. PICK f, rest, r : f = Head(stack) /\ rest = Tail(stack) /\ r = f.reader
  OBVIOUS
<1>2. PICK now, job : /\ now = [native[r] EXCEPT !.terminal = TRUE]
                      /\ job = DispatchJob("loadend", r, f.gen)
  OBVIOUS
<1>3. /\ stack # << >> /\ GoesOn(Head(stack)) /\ f.event \in {"load", "error"}
      /\ native' = [native EXCEPT ![r] = now]
      /\ jobs' = Append(jobs, job) /\ stack' = rest
      /\ UNCHANGED <<flagShut, pending, pumps, last>>
  BY <1>1, <1>2 DEF ReturnTerminal
<1>4. f \in Frame /\ r \in Readers /\ f.gen \in Generations
  BY <1>1, <1>3, HeadFrame, FrameTypes
<1>5. /\ now.ready = native[r].ready /\ now.result = native[r].result
      /\ now.error = native[r].error /\ now.gen = native[r].gen /\ now.terminal = TRUE
  BY <1>2, <1>4 DEF TypeOK, Native
<1>6. native'[r] = now /\ \A q \in Readers \ {r} : Untouched(q)
  BY <1>3, <1>4, OthersUntouched
<1>7. AbstractStep
  <2>1. \A q \in Readers : q # r => native'[q] = native[q]
    BY <1>3, <1>4 DEF TypeOK
  <2> QED
    BY <1>3, <1>5, <1>6, <2>1, SeenStays
<1>8. ASSUME ~flagShut PROVE PhaseInv'
  <2>1. Rest(r, jobs, rest) /\ FramePhase(f)
    BY <1>1, <1>3, <1>8, FrameRest
  <2>2. native[r].ready = "done" /\ last[r] \in {"load", "error"}
    BY <1>1, <1>3, <2>1 DEF FramePhase
  <2>3. Outdated(r, jobs) /\ Outdated(r, rest)
    BY <1>5, <1>6, <2>1, RestOutdated
  <2>4. job \in Job /\ job.reader = r /\ job.does = "loadend"
    BY <1>2, <1>4, MadeTypes DEF DispatchJob
  <2>5. JobAt(job)'
    BY <1>3, <1>5, <1>6, <2>2, <2>4 DEF JobAt, JobPhase
  <2>6. \A op \in OpIds : PumpAt(op)'
    BY <1>3, <1>4, <1>5, <1>6, <1>8, <2>2, DonePumps
  <2>7. jobs \in Seq(Job) /\ Left(jobs, jobs) /\ rest \in Seq(Frame) /\ Left(rest, stack)
    BY <2>1 DEF Rest
  <2> QED
    BY <1>3, <1>4, <1>6, <1>8, <2>3, <2>4, <2>5, <2>6, <2>7, ActStep DEF Stays
<1> QED
  BY <1>3, <1>7, <1>8 DEF PhaseInv

\* loadend follows abort.
LEMMA ReturnAbortPhase ==
    ASSUME TypeOK, IInv, PhaseInv, IInv', ReturnAbort PROVE PhaseInv' /\ AbstractStep
<1>1. PICK f, rest, r : f = Head(stack) /\ rest = Tail(stack) /\ r = f.reader
  OBVIOUS
<1>2. PICK now, e : /\ now = [native[r] EXCEPT !.terminal = TRUE]
                    /\ e = PlainFrame("loadend", r, f.gen)
  OBVIOUS
<1>3. /\ stack # << >> /\ GoesOn(Head(stack)) /\ f.event = "abort"
      /\ native' = [native EXCEPT ![r] = now]
      /\ IF flagShut THEN stack' = rest /\ UNCHANGED last ELSE Dispatch(e, rest)
      /\ UNCHANGED <<flagShut, pending, pumps, jobs>>
  BY <1>1, <1>2 DEF ReturnAbort, ContextGone
<1>4. f \in Frame /\ r \in Readers /\ f.gen \in Generations
  BY <1>1, <1>3, HeadFrame, FrameTypes
<1>5. /\ now.ready = native[r].ready /\ now.result = native[r].result
      /\ now.error = native[r].error /\ now.gen = native[r].gen /\ now.terminal = TRUE
  BY <1>2, <1>4 DEF TypeOK, Native
<1>6. ASSUME flagShut PROVE AbstractStep
  <2>1. \A q \in Readers : q # r => native'[q] = native[q]
    BY <1>3, <1>4 DEF TypeOK
  <2>2. native'[r] = now
    BY <1>3, <1>4 DEF TypeOK
  <2> QED
    BY <1>3, <1>5, <1>6, <2>1, <2>2, SeenStays
<1>7. ASSUME ~flagShut PROVE PhaseInv' /\ AbstractStep
  <2>1. Rest(r, jobs, rest) /\ FramePhase(f)
    BY <1>1, <1>3, <1>7, FrameRest
  <2>2. native[r].ready = "done" /\ last[r] = "abort"
    BY <1>1, <1>3, <2>1 DEF FramePhase
  <2>3. e \in Frame /\ e.reader = r /\ e.event = "loadend"
    BY <1>2, <1>4, MadeTypes DEF PlainFrame, FrameOf, Events
  <2>4. stack' = <<e>> \o rest /\ last' = [last EXCEPT ![r] = "loadend"]
    BY <1>3, <1>7, <2>3 DEF Dispatch
  <2>5. native'[r] = now /\ \A q \in Readers \ {r} : Untouched(q)
    BY <1>3, <1>4, <2>4, OthersUntouched
  <2>6. AbstractStep
    <3>1. Abstract!MayFire(r, "loadend")
      BY <1>4, <2>2 DEF Abstract!MayFire
    <3> QED
      BY <1>3, <1>4, <1>5, <2>4, <3>1, SeenFires
  <2>7. Outdated(r, jobs) /\ Outdated(r, rest)
    BY <1>5, <2>1, <2>5, RestOutdated
  <2>8. FrameAt(e)'
    BY <1>5, <2>2, <2>3, <2>5 DEF FrameAt, FramePhase
  <2>9. \A op \in OpIds : PumpAt(op)'
    BY <1>3, <1>4, <1>5, <1>7, <2>2, <2>5, DonePumps
  <2>10. jobs \in Seq(Job) /\ Left(jobs, jobs) /\ rest \in Seq(Frame) /\ Left(rest, stack)
    BY <2>1 DEF Rest
  <2>11. PhaseInv'
    BY <1>3, <1>4, <1>7, <2>3, <2>4, <2>5, <2>7, <2>8, <2>9, <2>10, ActStep DEF Stays
  <2> QED
    BY <2>6, <2>11
<1> QED
  BY <1>3, <1>6, <1>7 DEF PhaseInv

-----------------------------------------------------------------------------
(* The refinement.                                                          *)

\* Every step keeps the phases, and is one that FileReaderEvents allows.
LEMMA StepPhase ==
    TypeOK /\ IInv /\ PhaseInv /\ TypeOK' /\ IInv' /\ [Next]_vars => PhaseInv' /\ AbstractStep
<1> SUFFICES ASSUME TypeOK, IInv, PhaseInv, TypeOK', IInv', [Next]_vars
             PROVE  PhaseInv' /\ AbstractStep
  OBVIOUS
<1>1. ASSUME NEW r \in Readers, Script(r) PROVE PhaseInv' /\ AbstractStep
  <2>1. CASE ReadRefused(r) \/ ReadQuotaFails(r) \/ ReadSubmitFails(r)
    <3>1. MayRead(r) /\ FailsAtOnce(r)
      BY <2>1 DEF ReadRefused, ReadQuotaFails, ReadSubmitFails
    <3> QED
      BY <3>1, FailsPhase
  <2>2. CASE ReadStarted(r)
    BY <2>2, StartedPhase
  <2>3. CASE AbortIdle(r)
    BY <2>3, AbortIdlePhase
  <2>4. CASE AbortRead(r)
    BY <2>4, AbortReadPhase
  <2> QED
    BY <1>1, <2>1, <2>2, <2>3, <2>4 DEF Script
<1>2. ASSUME NEW op \in OpIds, WorkerPush(op) PROVE PhaseInv' /\ AbstractStep
  <2>1. UNCHANGED <<flagShut, native, pending, pumps, jobs, stack, last>>
    BY <1>2 DEF WorkerPush
  <2> QED
    BY <2>1, UnseenStep
<1>3. CASE Poll
  BY <1>3, PollPhase
<1>4. CASE RunJob
  <2>1. CASE DropJob
    <3>1. /\ jobs # << >> /\ jobs' = Tail(jobs)
          /\ UNCHANGED <<flagShut, native, pending, pumps, stack, last>>
      BY <2>1 DEF DropJob, JobRuns, noEvents
    <3> QED
      BY <3>1, UnseenStep
  <2> QED
    BY <1>4, <2>1, RunLoadstartPhase, RunPumpPhase, RunDispatchPhase DEF RunJob
<1>5. CASE Return
  <2>1. CASE ReturnLast
    <3>1. /\ stack # << >> /\ stack' = Tail(stack)
          /\ UNCHANGED <<flagShut, native, pending, pumps, jobs, last>>
      BY <2>1 DEF ReturnLast, noEvents
    <3> QED
      BY <3>1, UnseenStep
  <2> QED
    BY <1>5, <2>1, ReturnLoadstartPhase, ReturnProgressPhase, ReturnFinalPhase,
       ReturnTerminalPhase, ReturnAbortPhase DEF Return
<1>6. CASE CloseFlag \/ CloseBridge
  <2>1. flagShut' /\ UNCHANGED <<native, last>>
    BY <1>6 DEF CloseFlag, CloseBridge, IInv, ShutInv
  <2> QED
    BY <2>1, SeenStays DEF PhaseInv
<1>7. CASE UNCHANGED vars
  <2>1. UNCHANGED <<flagShut, native, pending, pumps, jobs, stack, last>>
    BY <1>7 DEF vars, readerVars
  <2> QED
    BY <2>1, UnseenStep
<1> QED
  BY <1>1, <1>2, <1>3, <1>4, <1>5, <1>6, <1>7 DEF Next

\* The initial states.
LEMMA InitPhase == Init => PhaseInv /\ Abstract!Init
<1> SUFFICES ASSUME Init PROVE PhaseInv /\ Abstract!Init
  OBVIOUS
<1>1. /\ native = [r \in Readers |-> Fresh] /\ pending = NoOps
      /\ jobs = << >> /\ stack = << >> /\ last = [r \in Readers |-> "none"]
  BY DEF Init
<1>2. Abstract!Init
  BY <1>1 DEF Abstract!Init, Fresh
<1>3. PhaseInv
  BY <1>1, NoneOps, OneEnd DEF PhaseInv, PumpAt, Live, NoOps
<1> QED
  BY <1>2, <1>3

\* Readers keep the event grammar that FileReaderEvents promises to scripts,
\* however handlers and late jobs of replaced reads interleave
\* (generation_current, terminal_dispatched).
THEOREM ReadersKeepTheGrammar == Spec => ReaderPromise
<1>1. Init => PhaseInv /\ Abstract!Init
  BY InitPhase
<1>2. (TypeOK /\ IInv) /\ PhaseInv /\ (TypeOK /\ IInv)' /\ [Next]_vars
        => PhaseInv' /\ [Abstract!Next]_(Abstract!vars)
  BY StepPhase DEF AbstractStep
<1> QED
  BY <1>1, <1>2, ReadersInvariant, PTL DEF Spec, ReaderPromise, Abstract!Spec

=============================================================================
