-------------------------- MODULE DomEventsProofs ---------------------------
(***************************************************************************)
(* Theorems about DomEvents, for every value of its constants: a dispatch  *)
(* calls the listeners it copied, in their order, its outcome is what its  *)
(* callbacks did, and a FileReader reports the exceptions of a dispatch    *)
(* once.                                                                   *)
(***************************************************************************)
EXTENDS DomEvents, FunctionTheorems, FiniteSetTheorems, TLAPS

-----------------------------------------------------------------------------
(* Sequences.                                                              *)

\* Sequences of one length that agree at every place are equal.
LEMMA SameElements ==
    ASSUME NEW S, NEW s \in Seq(S), NEW t \in Seq(S),
           Len(s) = Len(t), \A i \in 1 .. Len(s) : s[i] = t[i]
    PROVE  s = t
OBVIOUS

\* What concatenation returns.
LEMMA ConcatFacts ==
    ASSUME NEW S, NEW s \in Seq(S), NEW t \in Seq(S)
    PROVE  /\ s \o t \in Seq(S)
           /\ Len(s \o t) = Len(s) + Len(t)
           /\ \A i \in 1 .. Len(s) : (s \o t)[i] = s[i]
           /\ \A i \in 1 .. Len(t) : (s \o t)[Len(s) + i] = t[i]
OBVIOUS

\* What Append returns.
LEMMA AppendFacts ==
    ASSUME NEW S, NEW s \in Seq(S), NEW e \in S
    PROVE  /\ Append(s, e) \in Seq(S)
           /\ Len(Append(s, e)) = Len(s) + 1
           /\ \A i \in 1 .. Len(s) : Append(s, e)[i] = s[i]
           /\ Append(s, e)[Len(s) + 1] = e
OBVIOUS

\* What Head and Tail return.
LEMMA TailFacts ==
    ASSUME NEW S, NEW s \in Seq(S), s # << >>
    PROVE  /\ Len(s) >= 1
           /\ Head(s) = s[1] /\ Head(s) \in S
           /\ Tail(s) \in Seq(S)
           /\ Len(Tail(s)) = Len(s) - 1
           /\ \A i \in 1 .. Len(s) - 1 : Tail(s)[i] = s[i + 1]
OBVIOUS

\* What putting an element before a sequence returns.
LEMMA PushFacts ==
    ASSUME NEW S, NEW s \in Seq(S), NEW e \in S
    PROVE  /\ <<e>> \o s \in Seq(S) /\ <<e>> \o s # << >>
           /\ Len(<<e>> \o s) = Len(s) + 1
           /\ (<<e>> \o s)[1] = e
           /\ \A i \in 1 .. Len(s) : (<<e>> \o s)[i + 1] = s[i]
           /\ Head(<<e>> \o s) = e /\ Tail(<<e>> \o s) = s
<1>1. /\ <<e>> \o s \in Seq(S) /\ Len(<<e>> \o s) = Len(s) + 1
      /\ (<<e>> \o s)[1] = e
      /\ \A i \in 1 .. Len(s) : (<<e>> \o s)[i + 1] = s[i]
  OBVIOUS
<1>2. PICK t : t = <<e>> \o s
  OBVIOUS
<1>3. t \in Seq(S) /\ t # << >> /\ Head(t) = e /\ Len(Tail(t)) = Len(s) /\ Tail(t) \in Seq(S)
  BY <1>1, <1>2, TailFacts
<1>4. \A i \in 1 .. Len(s) : Tail(t)[i] = s[i]
  BY <1>1, <1>2, <1>3, TailFacts
<1>5. PICK u : u = Tail(t)
  OBVIOUS
<1>6. u = s
  BY <1>3, <1>4, <1>5, SameElements
<1> QED
  BY <1>1, <1>2, <1>3, <1>5, <1>6

\* A sequence that is not empty is its head and its tail.
LEMMA HeadThenTail ==
    ASSUME NEW S, NEW s \in Seq(S), s # << >>
    PROVE  s = <<Head(s)>> \o Tail(s)
<1>1. PICK h, u : h = Head(s) /\ u = Tail(s)
  OBVIOUS
<1>2. /\ h \in S /\ u \in Seq(S) /\ Len(u) = Len(s) - 1 /\ h = s[1] /\ Len(s) >= 1
      /\ \A i \in 1 .. Len(s) - 1 : u[i] = s[i + 1]
  BY <1>1, TailFacts
<1>3. PICK t : t = <<h>> \o u
  OBVIOUS
<1>4. /\ t \in Seq(S) /\ Len(t) = Len(u) + 1 /\ t[1] = h
      /\ \A i \in 1 .. Len(u) : t[i + 1] = u[i]
  BY <1>2, <1>3, PushFacts
<1>5. Len(t) = Len(s) /\ Len(s) \in Nat
  BY <1>2, <1>4
<1>6. ASSUME NEW i \in 1 .. Len(s) PROVE t[i] = s[i]
  <2>1. CASE i = 1
    BY <2>1, <1>2, <1>4
  <2>2. CASE i # 1
    <3>1. i - 1 \in 1 .. Len(u) /\ i - 1 \in 1 .. Len(s) - 1 /\ (i - 1) + 1 = i
      BY <2>2, <1>2, <1>5
    <3> QED
      BY <3>1, <1>2, <1>4
  <2> QED
    BY <2>1, <2>2
<1>7. t = s
  BY <1>4, <1>5, <1>6, SameElements
<1> QED
  BY <1>1, <1>3, <1>7

\* No element twice.
Distinct(s) == \A i, j \in 1 .. Len(s) : s[i] = s[j] => i = j

\* Appending a new element keeps a list without duplicates.
LEMMA AppendDistinct ==
    ASSUME NEW S, NEW s \in Seq(S), NEW e \in S, Distinct(s),
           \A i \in 1 .. Len(s) : s[i] # e
    PROVE  Distinct(Append(s, e))
<1>1. PICK t : t = Append(s, e)
  OBVIOUS
<1>2. /\ Len(t) = Len(s) + 1 /\ Len(s) \in Nat
      /\ \A i \in 1 .. Len(s) : t[i] = s[i]
      /\ t[Len(s) + 1] = e
  BY <1>1, AppendFacts
<1>3. Distinct(t)
  BY <1>2 DEF Distinct
<1> QED
  BY <1>1, <1>3

\* Removing an element keeps a list without duplicates.
LEMMA RemoveDistinct ==
    ASSUME NEW S, NEW s \in Seq(S), NEW i \in 1 .. Len(s), Distinct(s)
    PROVE  RemoveAt(s, i) \in Seq(S) /\ Distinct(RemoveAt(s, i))
<1>0. Len(s) \in Nat /\ i \in Nat /\ i >= 1 /\ i <= Len(s)
  OBVIOUS
<1>1. PICK a : a = SubSeq(s, 1, i - 1)
  OBVIOUS
<1>2. a \in Seq(S) /\ Len(a) = i - 1 /\ \A j \in 1 .. i - 1 : a[j] = s[j]
  BY <1>0, <1>1
<1>3. PICK b : b = SubSeq(s, i + 1, Len(s))
  OBVIOUS
<1>4. b \in Seq(S) /\ Len(b) = Len(s) - i /\ \A j \in 1 .. Len(s) - i : b[j] = s[i + j]
  BY <1>0, <1>3
<1>5. PICK c : c = a \o b
  OBVIOUS
<1>6. c \in Seq(S) /\ Len(c) = Len(s) - 1
  <2>1. a \in Seq(S) /\ b \in Seq(S)
    BY <1>2, <1>4
  <2>2. c \in Seq(S) /\ Len(c) = Len(a) + Len(b)
    BY ONLY <2>1, <1>5, ConcatFacts
  <2> QED
    BY <1>0, <1>2, <1>4, <2>2
<1>7. \A j \in 1 .. Len(s) - 1 : c[j] = IF j < i THEN s[j] ELSE s[j + 1]
  <2>1. a \in Seq(S) /\ b \in Seq(S)
    BY <1>2, <1>4
  <2>2. \A j \in 1 .. Len(a) : c[j] = a[j]
    BY ONLY <2>1, <1>5, ConcatFacts
  <2>3. \A j \in 1 .. Len(b) : c[Len(a) + j] = b[j]
    BY ONLY <2>1, <1>5, ConcatFacts
  <2>4. TAKE j \in 1 .. Len(s) - 1
  <2>5. CASE j < i
    BY <2>2, <2>5, <1>0, <1>2
  <2>6. CASE ~(j < i)
    <3>1. PICK k \in Nat : k = j - (i - 1)
      BY <2>6, <1>0
    <3>2. k \in 1 .. Len(b) /\ k \in 1 .. Len(s) - i /\ j = Len(a) + k /\ i + k = j + 1
      BY <3>1, <2>6, <1>0, <1>2, <1>4
    <3> QED
      BY <3>2, <2>3, <2>6, <1>4
  <2> QED
    BY <2>5, <2>6
<1>8. Distinct(c)
  BY <1>0, <1>6, <1>7 DEF Distinct
<1> QED
  BY <1>1, <1>3, <1>5, <1>6, <1>8 DEF RemoveAt

-----------------------------------------------------------------------------
(* The listeners of a dispatch.                                            *)

\* The listeners of a type are entries, and none comes twice if none comes twice
\* in the list.
LEMMA MatchingFacts ==
    ASSUME NEW t \in Targets, listeners[t] \in Seq(Entry), Distinct(listeners[t]),
           NEW type, NEW copied \in Matching(t, type)
    PROVE  copied \in Seq(Entry) /\ Distinct(copied)
<1>1. PICK list : list = listeners[t]
  OBVIOUS
<1>2. PICK places : places = Places(t, type)
  OBVIOUS
<1>3. places \subseteq 1 .. Len(list) /\ list \in Seq(Entry) /\ Len(list) \in Nat
  BY <1>1, <1>2 DEF Places
<1>4. IsFiniteSet(places)
  <2>1. IsFiniteSet(1 .. Len(list))
    BY <1>3, FS_Interval
  <2> QED
    BY <2>1, <1>3, FS_Subset
<1>5. PICK n \in Nat : n = Cardinality(places)
  BY <1>4, FS_CardinalityType
<1>6. PICK at \in InOrder(places) : copied = [k \in 1 .. n |-> list[at[k]]]
  BY <1>1, <1>2, <1>5 DEF Matching
<1>7. at \in [1 .. n -> places] /\ \A j, k \in 1 .. n : j < k => at[j] < at[k]
  BY <1>5, <1>6 DEF InOrder
<1>8. \A k \in 1 .. n : at[k] \in 1 .. Len(list) /\ list[at[k]] \in Entry
  <2> TAKE k \in 1 .. n
  <2>1. at[k] \in places
    BY <1>7
  <2>2. at[k] \in 1 .. Len(list)
    BY <2>1, <1>3
  <2> QED
    BY <2>2, <1>3
<1>9. copied \in Seq(Entry) /\ Len(copied) = n
  BY <1>6, <1>8
<1>10. \A j, k \in 1 .. n : at[j] = at[k] => j = k
  <2> SUFFICES ASSUME NEW j \in 1 .. n, NEW k \in 1 .. n, at[j] = at[k], j # k
               PROVE FALSE
    OBVIOUS
  <2>1. j < k \/ k < j
    BY <1>5
  <2>2. at[j] \in Nat /\ at[k] \in Nat
    BY <1>3, <1>8
  <2>3. at[j] < at[k] \/ at[k] < at[j]
    BY <2>1, <1>7
  <2> QED
    BY <2>2, <2>3
<1>11. ASSUME NEW j \in 1 .. n, NEW k \in 1 .. n, copied[j] = copied[k] PROVE j = k
  <2>1. list[at[j]] = list[at[k]]
    BY <1>6, <1>11
  <2>2. at[j] = at[k]
    BY <2>1, <1>1, <1>8 DEF Distinct
  <2> QED
    BY <2>2, <1>10
<1> QED
  BY <1>9, <1>11 DEF Distinct

-----------------------------------------------------------------------------
(* Frames.                                                                 *)

\* A dispatch has called a prefix of what it copied; while a callback runs, as many
\* as the loop has reached.
FrameAt(f) ==
    /\ Distinct(f.copied)
    /\ Len(f.called) <= Len(f.copied)
    /\ \A i \in 1 .. Len(f.called) : f.called[i] = f.copied[i]
    /\ f.running => Len(f.called) = f.at
    /\ f.by = "script" => f.thrown = f.first

\* A dispatch whose loop is over has called them all, or its event is stopped.
TopAt(f, native) == f.running \/ f.called = f.copied \/ native.stopped

\* What stands in a frame.
LEMMA FrameFacts ==
    ASSUME NEW f \in Frame
    PROVE  /\ f.target \in Targets /\ f.event \in Events
           /\ f.copied \in Seq(Entry) /\ f.called \in Seq(Entry)
           /\ f.at \in Nat /\ f.running \in BOOLEAN
           /\ f.thrown \in Nat \cup {None} /\ f.first \in Nat \cup {None}
           /\ f.by \in {"script", "reader", "abort"}
BY DEF Frame

\* The loop goes to its next listener and calls it, or is over.
LEMMA AdvanceFacts ==
    ASSUME NEW f \in Frame, NEW native, NEW n \in Nat, n = Len(f.called) + 1,
           Distinct(f.copied),
           Len(f.called) <= Len(f.copied),
           \A i \in 1 .. Len(f.called) : f.called[i] = f.copied[i],
           f.by = "script" => f.thrown = f.first,
           NEW g, g = Advance(f, native, n)
    PROVE  /\ g \in Frame /\ FrameAt(g) /\ TopAt(g, native)
           /\ g.event = f.event /\ g.by = f.by /\ g.thrown = f.thrown
<1>0. f.copied \in Seq(Entry) /\ f.called \in Seq(Entry) /\ Len(f.called) \in Nat
      /\ Len(f.copied) \in Nat
  BY FrameFacts
<1>1. CASE n \in DOMAIN f.copied /\ GoesOn(native)
  <2>1. g = [f EXCEPT !.at = n, !.running = TRUE, !.called = Append(f.called, f.copied[n])]
    BY <1>1 DEF Advance, Due
  <2>2. n \in 1 .. Len(f.copied) /\ f.copied[n] \in Entry
    BY <1>0, <1>1
  <2>3. PICK called : called = Append(f.called, f.copied[n])
    OBVIOUS
  <2>4. /\ called \in Seq(Entry) /\ Len(called) = n
        /\ \A i \in 1 .. Len(f.called) : called[i] = f.called[i]
        /\ called[n] = f.copied[n]
    BY <1>0, <2>2, <2>3, AppendFacts
  <2>5. /\ g \in Frame /\ g.copied = f.copied /\ g.called = called /\ g.at = n /\ g.running = TRUE
        /\ g.event = f.event /\ g.by = f.by /\ g.thrown = f.thrown /\ g.first = f.first
    BY <2>1, <2>3, <2>4 DEF Frame
  <2>6. \A i \in 1 .. n : called[i] = f.copied[i]
    BY <1>0, <2>4
  <2>7. FrameAt(g)
    BY <2>2, <2>4, <2>5, <2>6 DEF FrameAt
  <2> QED
    BY <2>5, <2>7 DEF TopAt
<1>2. CASE ~(n \in DOMAIN f.copied /\ GoesOn(native))
  <2>1. g = [f EXCEPT !.at = n, !.running = FALSE]
    BY <1>2 DEF Advance, Due
  <2>2. /\ g \in Frame /\ g.copied = f.copied /\ g.called = f.called /\ g.running = FALSE
        /\ g.event = f.event /\ g.by = f.by /\ g.thrown = f.thrown /\ g.first = f.first
    BY <2>1 DEF Frame
  <2>3. FrameAt(g)
    BY <2>2 DEF FrameAt
  <2>4. CASE ~GoesOn(native)
    BY <2>2, <2>3, <2>4 DEF TopAt, GoesOn
  <2>5. CASE n \notin DOMAIN f.copied
    <3>1. Len(f.called) = Len(f.copied)
      BY <1>0, <2>5
    <3>2. f.called = f.copied
      BY <1>0, <3>1, SameElements
    <3> QED
      BY <2>2, <2>3, <3>2 DEF TopAt
  <2> QED
    BY <1>2, <2>4, <2>5
<1> QED
  BY <1>1, <1>2

\* The frame of a dispatch that begins with an exception it keeps already, or none.
StartFrame(t, e, copied, by, kept) ==
    [target |-> t, event |-> e, copied |-> copied, at |-> 0, running |-> FALSE,
     thrown |-> kept, by |-> by, called |-> << >>, first |-> None]

\* It is what the steps that begin a dispatch make.
LEMMA StartFacts ==
    ASSUME NEW t, NEW e, NEW copied, NEW by, NEW kept
    PROVE  /\ [NewFrame(t, e, copied, by) EXCEPT !.thrown = kept]
                  = StartFrame(t, e, copied, by, kept)
           /\ NewFrame(t, e, copied, by) = StartFrame(t, e, copied, by, None)
<1>1. PICK f : f = [NewFrame(t, e, copied, by) EXCEPT !.thrown = kept]
  OBVIOUS
<1>2. f = StartFrame(t, e, copied, by, kept)
  BY <1>1 DEF NewFrame, StartFrame
<1>3. NewFrame(t, e, copied, by) = StartFrame(t, e, copied, by, None)
  BY DEF NewFrame, StartFrame
<1> QED
  BY <1>1, <1>2, <1>3

\* A new dispatch is at its handler, at its first listener or over.
LEMMA BegunFacts ==
    ASSUME NEW t \in Targets, NEW e \in Events, NEW copied \in Seq(Entry), Distinct(copied),
           NEW by \in {"script", "reader", "abort"}, NEW kept \in Nat \cup {None},
           by = "script" => kept = None,
           NEW native, NEW f, f = StartFrame(t, e, copied, by, kept),
           NEW g, g = Begun(f, native)
    PROVE  /\ g \in Frame /\ FrameAt(g) /\ TopAt(g, native)
           /\ g.event = e /\ g.by = by /\ g.thrown = kept
<1>1. /\ f = [target |-> t, event |-> e, copied |-> copied, at |-> 0, running |-> FALSE,
              thrown |-> kept, by |-> by, called |-> << >>, first |-> None]
  BY DEF StartFrame
<1>2. f \in Frame
  <2>1. << >> \in Seq(Entry) /\ 0 \in Nat /\ FALSE \in BOOLEAN /\ None \in Nat \cup {None}
    OBVIOUS
  <2>2. /\ t \in Targets /\ e \in Events /\ copied \in Seq(Entry)
        /\ by \in {"script", "reader", "abort"} /\ kept \in Nat \cup {None}
    OBVIOUS
  <2> QED
    BY ONLY <1>1, <2>1, <2>2 DEF Frame
<1>3. /\ f.called = << >> /\ f.copied = copied /\ f.at = 0 /\ f.by = by /\ f.thrown = kept
      /\ f.first = None /\ f.event = e
  BY <1>1
<1>4. Len(f.called) = 0 /\ Len(copied) \in Nat
  BY <1>3
<1>5. CASE handler[f.target][native.type] # None
  <2>1. g = [f EXCEPT !.running = TRUE]
    BY <1>5 DEF Begun
  <2>2. /\ g \in Frame /\ g.called = << >> /\ g.copied = copied /\ g.at = 0 /\ g.by = by
        /\ g.thrown = kept /\ g.first = None /\ g.event = e /\ g.running = TRUE
    BY <1>2, <1>3, <2>1 DEF Frame
  <2>3. FrameAt(g)
    BY <1>4, <2>2 DEF FrameAt
  <2> QED
    BY <2>2, <2>3 DEF TopAt
<1>6. CASE handler[f.target][native.type] = None
  <2>1. g = Advance(f, native, 1)
    BY <1>6 DEF Begun
  <2>2. /\ 1 = Len(f.called) + 1 /\ 1 \in Nat /\ Distinct(f.copied)
        /\ Len(f.called) <= Len(f.copied)
        /\ \A i \in 1 .. Len(f.called) : f.called[i] = f.copied[i]
        /\ f.by = "script" => f.thrown = f.first
    BY <1>3, <1>4
  <2>3. /\ g \in Frame /\ FrameAt(g) /\ TopAt(g, native)
        /\ g.event = f.event /\ g.by = f.by /\ g.thrown = f.thrown
    BY ONLY <1>2, <2>1, <2>2, AdvanceFacts
  <2> QED
    BY <1>3, <2>3
<1> QED
  BY <1>5, <1>6

-----------------------------------------------------------------------------
(* The stack of dispatches.                                                *)

\* No frame is for the event.
Apart(e, s) == \A i \in 1 .. Len(s) : s[i].event # e

\* Frames whose callback waits for an inner dispatch.  A FileReader's own dispatch
\* has an event that no outer one has.
BelowAt(s, ev) ==
    /\ \A i \in 1 .. Len(s) : FrameAt(s[i]) /\ s[i].running /\ ev[s[i].event] # None
    /\ \A i, j \in 1 .. Len(s) : i < j /\ s[i].by # "script" => s[i].event # s[j].event

\* A frame and those it is put on.
OnTop(f, s, ev) ==
    /\ FrameAt(f) /\ ev[f.event] # None /\ TopAt(f, ev[f.event])
    /\ BelowAt(s, ev)
    /\ f.by # "script" => Apart(f.event, s)

StackAt(s, ev) == s # << >> => OnTop(Head(s), Tail(s), ev)

\* A frame put on frames that wait.
LEMMA PushStack ==
    ASSUME NEW s \in Seq(Frame), NEW f \in Frame, NEW ev, OnTop(f, s, ev),
           NEW t, t = <<f>> \o s
    PROVE  t \in Seq(Frame) /\ StackAt(t, ev) /\ t # << >>
BY PushFacts DEF StackAt

\* Every frame of a stack is one of a dispatch under way, and its event is there.
LEMMA EveryFrame ==
    ASSUME NEW s \in Seq(Frame), NEW ev, StackAt(s, ev), NEW i \in 1 .. Len(s)
    PROVE  /\ s[i] \in Frame /\ FrameAt(s[i]) /\ ev[s[i].event] # None
           /\ i # 1 => s[i].running
<1>1. s # << >> /\ Len(s) \in Nat
  OBVIOUS
<1>2. PICK u : u = Tail(s)
  OBVIOUS
<1>3. /\ Head(s) = s[1] /\ u \in Seq(Frame) /\ Len(u) = Len(s) - 1
      /\ \A j \in 1 .. Len(s) - 1 : u[j] = s[j + 1]
  BY <1>1, <1>2, TailFacts
<1>4. OnTop(s[1], u, ev)
  BY <1>1, <1>2, <1>3 DEF StackAt
<1>5. CASE i = 1
  BY <1>1, <1>4, <1>5 DEF OnTop
<1>6. CASE i # 1
  <2>1. i - 1 \in 1 .. Len(u) /\ u[i - 1] = s[i]
    BY <1>1, <1>3, <1>6
  <2> QED
    BY <2>1, <1>4 DEF OnTop, BelowAt
<1> QED
  BY <1>5, <1>6

\* A stack whose innermost dispatch runs a callback waits for what that starts.
LEMMA StackWaits ==
    ASSUME NEW s \in Seq(Frame), NEW ev, StackAt(s, ev), s # << >> => Head(s).running
    PROVE  BelowAt(s, ev)
<1>1. CASE s = << >>
  <2>1. 1 .. Len(s) = {}
    BY <1>1
  <2> QED
    BY <2>1 DEF BelowAt
<1>2. CASE s # << >>
  <2>1. PICK u : u = Tail(s)
    OBVIOUS
  <2>2. /\ Head(s) = s[1] /\ u \in Seq(Frame) /\ Len(u) = Len(s) - 1 /\ Len(s) >= 1
        /\ \A j \in 1 .. Len(s) - 1 : u[j] = s[j + 1] /\ Len(s) \in Nat
    BY <1>2, <2>1, TailFacts
  <2>3. OnTop(s[1], u, ev) /\ s[1].running
    BY <1>2, <2>1, <2>2 DEF StackAt
  <2>4. \A i \in 1 .. Len(s) : FrameAt(s[i]) /\ s[i].running /\ ev[s[i].event] # None
    BY <1>2, <2>2, <2>3, EveryFrame
  <2>5. ASSUME NEW i \in 1 .. Len(s), NEW j \in 1 .. Len(s), i < j, s[i].by # "script"
        PROVE s[i].event # s[j].event
    <3>0. Len(s) \in Nat
      OBVIOUS
    <3>1. j - 1 \in 1 .. Len(u) /\ s[j] = u[j - 1]
      BY <3>0, <2>2, <2>5
    <3>2. CASE i = 1
      BY <3>1, <3>2, <2>3, <2>5 DEF OnTop, Apart
    <3>3. CASE i # 1
      <4>1. i - 1 \in 1 .. Len(u) /\ s[i] = u[i - 1] /\ i - 1 < j - 1
        BY <3>0, <3>3, <2>2, <2>5
      <4> QED
        BY <4>1, <3>1, <2>3, <2>5 DEF OnTop, BelowAt
    <3> QED
      BY <3>2, <3>3
  <2> QED
    BY <2>4, <2>5 DEF BelowAt
<1> QED
  BY <1>1, <1>2

\* Frames that wait are a stack.
LEMMA WaitingStack ==
    ASSUME NEW s \in Seq(Frame), NEW ev, BelowAt(s, ev)
    PROVE  StackAt(s, ev)
<1> SUFFICES ASSUME s # << >> PROVE OnTop(Head(s), Tail(s), ev)
  BY DEF StackAt
<1>1. PICK u : u = Tail(s)
  OBVIOUS
<1>2. /\ Head(s) = s[1] /\ u \in Seq(Frame) /\ Len(u) = Len(s) - 1 /\ Len(s) >= 1
      /\ \A j \in 1 .. Len(s) - 1 : u[j] = s[j + 1]
  BY <1>1, TailFacts
<1>3. Len(s) \in Nat /\ 1 \in 1 .. Len(s)
  BY <1>2
<1>4. FrameAt(s[1]) /\ s[1].running /\ ev[s[1].event] # None
  BY <1>3 DEF BelowAt
<1>5. \A i \in 1 .. Len(u) : i + 1 \in 1 .. Len(s) /\ u[i] = s[i + 1] /\ 1 < i + 1
  BY <1>2, <1>3
<1>6. BelowAt(u, ev)
  <2>1. \A i \in 1 .. Len(u) : FrameAt(u[i]) /\ u[i].running /\ ev[u[i].event] # None
    BY <1>5 DEF BelowAt
  <2>2. ASSUME NEW i \in 1 .. Len(u), NEW j \in 1 .. Len(u), i < j, u[i].by # "script"
        PROVE u[i].event # u[j].event
    <3>1. i + 1 < j + 1
      BY <1>2, <2>2
    <3> QED
      BY <3>1, <1>5, <2>2 DEF BelowAt
  <2> QED
    BY <2>1, <2>2 DEF BelowAt
<1>7. s[1].by # "script" => Apart(s[1].event, u)
  <2> SUFFICES ASSUME s[1].by # "script", NEW i \in 1 .. Len(u) PROVE u[i].event # s[1].event
    BY DEF Apart
  <2>1. i + 1 \in 1 .. Len(s) /\ u[i] = s[i + 1] /\ 1 < i + 1
    BY <1>5
  <2>2. s[1].event # s[i + 1].event
    BY <1>3, <2>1 DEF BelowAt
  <2> QED
    BY <2>1, <2>2
<1> QED
  BY <1>1, <1>2, <1>4, <1>6, <1>7 DEF OnTop, TopAt

\* Events that no waiting frame has may change; the others must stay there.
LEMMA EventsMove ==
    ASSUME NEW s \in Seq(Frame), NEW ev, NEW after, BelowAt(s, ev),
           \A i \in 1 .. Len(s) : after[s[i].event] # None
    PROVE  BelowAt(s, after)
BY DEF BelowAt

\* A stack does not see a change of the events it has not.
LEMMA EventsAside ==
    ASSUME NEW s \in Seq(Frame), NEW ev, NEW after, StackAt(s, ev),
           \A i \in 1 .. Len(s) : after[s[i].event] = ev[s[i].event]
    PROVE  StackAt(s, after)
<1> SUFFICES ASSUME s # << >> PROVE OnTop(Head(s), Tail(s), after)
  BY DEF StackAt
<1>1. PICK u : u = Tail(s)
  OBVIOUS
<1>2. /\ Head(s) = s[1] /\ u \in Seq(Frame) /\ Len(u) = Len(s) - 1 /\ Len(s) >= 1
      /\ \A j \in 1 .. Len(s) - 1 : u[j] = s[j + 1]
  BY <1>1, TailFacts
<1>3. Len(s) \in Nat /\ 1 \in 1 .. Len(s)
  BY <1>2
<1>4. OnTop(s[1], u, ev)
  BY <1>1, <1>2 DEF StackAt
<1>5. \A i \in 1 .. Len(u) : i + 1 \in 1 .. Len(s) /\ u[i] = s[i + 1]
  BY <1>2, <1>3
<1>6. \A i \in 1 .. Len(u) : after[u[i].event] # None
  BY <1>4, <1>5 DEF OnTop, BelowAt
<1>7. BelowAt(u, after)
  BY <1>2, <1>4, <1>6, EventsMove DEF OnTop
<1>8. after[s[1].event] = ev[s[1].event]
  BY <1>3
<1> QED
  BY <1>1, <1>2, <1>4, <1>7, <1>8 DEF OnTop

-----------------------------------------------------------------------------
(* What is owed.                                                           *)

\* A FileReader's dispatch in which a callback threw.
Owes(f) == f.by # "script" /\ f.thrown # None

Owing(s) == {i \in 1 .. Len(s) : Owes(s[i])}

\* Putting a frame on a stack adds what it owes.
LEMMA PushOwing ==
    ASSUME NEW s \in Seq(Frame), NEW f \in Frame, NEW t, t = <<f>> \o s
    PROVE  /\ Cardinality(Owing(s)) \in Nat
           /\ Cardinality(Owing(t)) = IF Owes(f) THEN Cardinality(Owing(s)) + 1
                                                 ELSE Cardinality(Owing(s))
<1>1. /\ t \in Seq(Frame) /\ Len(t) = Len(s) + 1 /\ t[1] = f /\ Len(s) \in Nat
      /\ \A i \in 1 .. Len(s) : t[i + 1] = s[i]
  BY PushFacts
<1>2. IsFiniteSet(Owing(s))
  <2>1. IsFiniteSet(1 .. Len(s))
    BY <1>1, FS_Interval
  <2>2. Owing(s) \subseteq 1 .. Len(s)
    BY DEF Owing
  <2> QED
    BY <2>1, <2>2, FS_Subset
<1>3. PICK old : old = Owing(s)
  OBVIOUS
<1>4. PICK moved : moved = {i \in 2 .. Len(t) : Owes(t[i])}
  OBVIOUS
<1>5. \A i \in old : i \in Nat /\ i + 1 \in moved
  <2> TAKE i \in old
  <2>1. i \in 1 .. Len(s) /\ Owes(s[i])
    BY <1>3 DEF Owing
  <2>2. i + 1 \in 2 .. Len(t) /\ t[i + 1] = s[i]
    BY <1>1, <2>1
  <2> QED
    BY <1>4, <2>1, <2>2
<1>6. \A k \in moved : k \in Nat /\ k - 1 \in old /\ (k - 1) + 1 = k
  <2> TAKE k \in moved
  <2>1. k \in 2 .. Len(t) /\ Owes(t[k])
    BY <1>4
  <2>2. k - 1 \in 1 .. Len(s) /\ (k - 1) + 1 = k /\ k \in Nat
    BY <1>1, <2>1
  <2>3. t[k] = s[k - 1]
    BY <1>1, <2>2
  <2> QED
    BY <1>3, <2>1, <2>2, <2>3 DEF Owing
<1>7. ExistsBijection(old, moved)
  <2> DEFINE shift == [i \in old |-> i + 1]
  <2>1. shift \in [old -> moved]
    BY <1>5
  <2>2. \A a, b \in old : shift[a] = shift[b] => a = b
    BY <1>5
  <2>3. \A k \in moved : \E i \in old : shift[i] = k
    BY <1>6
  <2> HIDE DEF shift
  <2>4. shift \in Bijection(old, moved)
    BY <2>1, <2>2, <2>3, Fun_IsBij
  <2> QED
    BY <2>4 DEF ExistsBijection
<1>8. IsFiniteSet(moved) /\ Cardinality(moved) = Cardinality(old) /\ Cardinality(old) \in Nat
  BY <1>2, <1>3, <1>7, FS_Bijection, FS_CardinalityType
<1>9. CASE Owes(f)
  <2>1. Owing(t) = moved \cup {1}
    <3>1. \A k : k \in 1 .. Len(t) <=> k = 1 \/ k \in 2 .. Len(t)
      BY <1>1
    <3> QED
      BY <1>1, <1>4, <1>9, <3>1 DEF Owing
  <2>2. 1 \notin moved
    BY <1>4
  <2>3. Cardinality(moved \cup {1}) = Cardinality(moved) + 1
    BY <1>8, <2>2, FS_AddElement
  <2> QED
    BY <1>3, <1>8, <1>9, <2>1, <2>3
<1>10. CASE ~Owes(f)
  <2>1. Owing(t) = moved
    <3>1. \A k : k \in 1 .. Len(t) <=> k = 1 \/ k \in 2 .. Len(t)
      BY <1>1
    <3> QED
      BY <1>1, <1>4, <1>10, <3>1 DEF Owing
  <2> QED
    BY <1>3, <1>8, <1>10, <2>1
<1> QED
  BY <1>9, <1>10

\* The innermost frame and the others owe what the stack does.
LEMMA TailOwing ==
    ASSUME NEW s \in Seq(Frame), s # << >>
    PROVE  /\ Cardinality(Owing(Tail(s))) \in Nat
           /\ Cardinality(Owing(s)) = IF Owes(Head(s)) THEN Cardinality(Owing(Tail(s))) + 1
                                                       ELSE Cardinality(Owing(Tail(s)))
<1>1. Head(s) \in Frame /\ Tail(s) \in Seq(Frame)
  BY TailFacts
<1>2. s = <<Head(s)>> \o Tail(s)
  BY HeadThenTail
<1>3. PICK h, u : h = Head(s) /\ u = Tail(s)
  OBVIOUS
<1> QED
  BY <1>1, <1>2, <1>3, PushOwing

-----------------------------------------------------------------------------
(* The inductive invariant.                                                *)

\* Only an event that may be prevented is.
EventsAt(ev) == \A e \in Events : ev[e] # None /\ ev[e].prevented => ev[e].cancelable

\* The jobs that are to come: as many as there are frames that owe one, until
\* shutdown drops them.
OwedAt(s, n, off) ==
    /\ Cardinality(Owing(s)) <= n
    /\ ~off => n = Cardinality(Owing(s))

LoopInv ==
    /\ \A t \in Targets : Distinct(listeners[t])
    /\ StackAt(stack, event)
    /\ EventsAt(event)
    /\ OwedAt(stack, owed, shut)

\* Every event that is there is one.
LEMMA EventFacts ==
    ASSUME TypeOK, LoopInv, NEW e \in Events, event[e] # None
    PROVE  /\ event[e] \in Event
           /\ event[e].prevented \in BOOLEAN /\ event[e].cancelable \in BOOLEAN
           /\ event[e].type \in Types
           /\ event[e].prevented => event[e].cancelable
<1>1. event[e] \in Event
  BY DEF TypeOK
<1> QED
  BY <1>1 DEF Event, LoopInv, EventsAt

\* A new event is one, and nobody has prevented it.
LEMMA NewNativeFacts ==
    ASSUME NEW type \in Types, NEW cancelable \in BOOLEAN, NEW target \in Targets \cup {None},
           NEW native, native = NewNative(type, cancelable, target)
    PROVE  native \in Event /\ native # None /\ native.prevented = FALSE /\ native.type = type
<1>1. native \in Event
  BY DEF NewNative, Event
<1> QED
  BY <1>1, NoneAssumption DEF NewNative

\* The parts of the type invariant and of the inductive one, at a step.
LEMMA StepKeeps ==
    ASSUME listeners' \in [Targets -> Seq(Entry)],
           handler' \in [Targets -> [Types -> Callbacks \cup {None}]],
           event' \in [Events -> Event \cup {None}],
           stack' \in Seq(Frame),
           shut' \in BOOLEAN, reports' \in Nat, owed' \in Nat, started' \in Nat,
           \A t \in Targets : Distinct(listeners'[t]),
           StackAt(stack', event'), EventsAt(event'), OwedAt(stack', owed', shut')
    PROVE  TypeOK' /\ LoopInv'
<1>1. \A i \in DOMAIN stack' : event'[stack'[i].event] # None
  BY EveryFrame
<1> QED
  BY <1>1 DEF TypeOK, LoopInv

\* It holds at the start.
LEMMA InitLoop ==
    Init => TypeOK /\ LoopInv
<1> SUFFICES ASSUME Init PROVE TypeOK /\ LoopInv
  OBVIOUS
<1>1. /\ listeners = [t \in Targets |-> << >>]
      /\ handler = [t \in Targets |-> [type \in Types |-> None]]
      /\ event = [e \in Events |-> None]
      /\ stack = << >> /\ shut = FALSE /\ reports = 0 /\ owed = 0 /\ started = 0
  BY DEF Init
<1>2. listeners \in [Targets -> Seq(Entry)]
  <2>1. << >> \in Seq(Entry)
    OBVIOUS
  <2> QED
    BY <1>1, <2>1
<1>3. handler \in [Targets -> [Types -> Callbacks \cup {None}]]
  <2>1. [type \in Types |-> None] \in [Types -> Callbacks \cup {None}]
    OBVIOUS
  <2> QED
    BY <1>1, <2>1
<1>4. event \in [Events -> Event \cup {None}]
  BY <1>1
<1>5. stack \in Seq(Frame) /\ DOMAIN stack = {} /\ Len(stack) = 0
  BY <1>1
<1>6. TypeOK
  BY <1>1, <1>2, <1>3, <1>4, <1>5 DEF TypeOK
<1>7. \A t \in Targets : Distinct(listeners[t])
  <2>1. Distinct(<< >>)
    BY DEF Distinct
  <2> QED
    BY <1>1, <2>1
<1>8. StackAt(stack, event) /\ EventsAt(event)
  BY <1>1 DEF StackAt, EventsAt
<1>9. OwedAt(stack, owed, shut)
  <2>1. Owing(stack) = {}
    BY <1>5 DEF Owing
  <2>2. Cardinality(Owing(stack)) = 0 /\ owed = 0
    BY <1>1, <2>1, FS_EmptySet
  <2> QED
    BY ONLY <2>2 DEF OwedAt
<1> QED
  BY <1>6, <1>7, <1>8, <1>9 DEF LoopInv

-----------------------------------------------------------------------------
(* Steps that leave the stack.                                             *)

\* addEventListener and removeEventListener keep a list without duplicates.
LEMMA ListenerStep ==
    ASSUME TypeOK, LoopInv, NEW t \in Targets, NEW entry \in Offered,
           AddListener(t, entry) \/ RemoveListener(t, entry)
    PROVE  TypeOK' /\ LoopInv'
<1>1. UNCHANGED <<handler, event, stack, shut, reports, started, owed>>
  BY DEF AddListener, RemoveListener
<1>2. PICK list : list = listeners[t]
  OBVIOUS
<1>3. list \in Seq(Entry) /\ Distinct(list) /\ entry \in Entry
  BY <1>2, DomAssumption DEF TypeOK, LoopInv
<1>4. PICK after : after \in Seq(Entry) /\ Distinct(after) /\ listeners' = [listeners EXCEPT ![t] = after]
  <2>1. CASE AddListener(t, entry)
    <3>1. \A i \in 1 .. Len(list) : list[i] # entry
      BY <1>2, <1>3, <2>1 DEF AddListener, IsListed
    <3>2. listeners' = [listeners EXCEPT ![t] = Append(list, entry)]
      BY <1>2, <2>1 DEF AddListener
    <3>3. PICK after : after = Append(list, entry)
      OBVIOUS
    <3>4. after \in Seq(Entry) /\ Distinct(after)
      BY <1>3, <3>1, <3>3, AppendDistinct, AppendFacts
    <3> QED
      BY <3>2, <3>3, <3>4
  <2>2. CASE RemoveListener(t, entry)
    <3>0. PICK i \in DOMAIN listeners[t] :
              listeners' = [listeners EXCEPT ![t] = RemoveAt(listeners[t], i)]
      BY <2>2 DEF RemoveListener
    <3>1. i \in 1 .. Len(list) /\ listeners' = [listeners EXCEPT ![t] = RemoveAt(list, i)]
      BY <1>2, <1>3, <3>0
    <3>2. PICK after : after = RemoveAt(list, i)
      OBVIOUS
    <3>3. after \in Seq(Entry) /\ Distinct(after)
      BY ONLY <1>3, <3>1, <3>2, RemoveDistinct
    <3> QED
      BY <3>1, <3>2, <3>3
  <2> QED
    BY <2>1, <2>2
<1>5. listeners' \in [Targets -> Seq(Entry)] /\ \A u \in Targets : Distinct(listeners'[u])
  BY <1>4 DEF TypeOK, LoopInv
<1> QED
  BY <1>1, <1>5, StepKeeps DEF TypeOK, LoopInv

\* An on<type> property is a function or nothing.
LEMMA HandlerStep ==
    ASSUME TypeOK, LoopInv, NEW t \in Targets, NEW assigned \in Assigned,
           SetHandler(t, assigned[1], assigned[2]) \/ SetHandler(t, assigned[1], None)
    PROVE  TypeOK' /\ LoopInv'
<1>1. assigned[1] \in Types /\ assigned[2] \in Callbacks
  BY DomAssumption
<1>2. PICK type \in Types, callback \in Callbacks \cup {None} : SetHandler(t, type, callback)
  BY <1>1
<1>3. UNCHANGED <<listeners, event, stack, shut, reports, started, owed>>
  BY <1>2 DEF SetHandler
<1>4. handler' = [handler EXCEPT ![t] = [handler[t] EXCEPT ![type] = callback]]
  BY <1>2 DEF SetHandler
<1>5. [handler[t] EXCEPT ![type] = callback] \in [Types -> Callbacks \cup {None}]
  BY DEF TypeOK
<1>6. handler' \in [Targets -> [Types -> Callbacks \cup {None}]]
  BY <1>4, <1>5 DEF TypeOK
<1> QED
  BY <1>3, <1>6, StepKeeps DEF TypeOK, LoopInv

\* A script that makes or marks an event does so while a callback waits for it.
LEMMA EventStep ==
    ASSUME TypeOK, LoopInv, NEW e \in Events, ScriptRuns, NEW native \in Event,
           native.prevented => native.cancelable,
           event' = [event EXCEPT ![e] = native],
           UNCHANGED <<listeners, handler, stack, shut, reports, started, owed>>
    PROVE  TypeOK' /\ LoopInv'
<1>1. native # None
  BY NoneAssumption
<1>2. event' \in [Events -> Event \cup {None}] /\ event'[e] = native
      /\ \A x \in Events : x # e => event'[x] = event[x]
  BY DEF TypeOK
<1>3. EventsAt(event')
  BY <1>2 DEF LoopInv, EventsAt
<1>4. BelowAt(stack, event)
  BY StackWaits DEF TypeOK, LoopInv, ScriptRuns
<1>5. \A i \in 1 .. Len(stack) : event'[stack[i].event] # None
  <2> TAKE i \in 1 .. Len(stack)
  <2>1. stack[i] \in Frame
    BY DEF TypeOK
  <2>2. stack[i].event \in Events /\ event[stack[i].event] # None
    BY <2>1, <1>4, FrameFacts DEF BelowAt
  <2> QED
    BY <2>2, <1>1, <1>2
<1>6. BelowAt(stack, event')
  BY <1>4, <1>5, EventsMove DEF TypeOK
<1>7. StackAt(stack, event')
  BY <1>6, WaitingStack DEF TypeOK
<1>8. StackAt(stack', event') /\ OwedAt(stack', owed', shut')
  BY <1>7 DEF LoopInv
<1> QED
  BY <1>2, <1>3, <1>8, StepKeeps DEF TypeOK, LoopInv

\* The constructors, preventDefault and stopImmediatePropagation.
LEMMA MarkStep ==
    ASSUME TypeOK, LoopInv, NEW e \in Events,
           \/ \E made \in Made : NewEvent(e, made[1], made[2])
           \/ PreventDefault(e)
           \/ StopImmediatePropagation(e)
    PROVE  TypeOK' /\ LoopInv'
<1>1. CASE \E made \in Made : NewEvent(e, made[1], made[2])
  <2>1. PICK type \in Types, cancelable \in BOOLEAN : NewEvent(e, type, cancelable)
    BY <1>1, DomAssumption
  <2>2. PICK native : native = NewNative(type, cancelable, None)
    OBVIOUS
  <2>3. None \in Targets \cup {None}
    OBVIOUS
  <2>4. native \in Event /\ native.prevented = FALSE
    BY ONLY <2>2, <2>3, NewNativeFacts
  <2>5. /\ ScriptRuns /\ event' = [event EXCEPT ![e] = native]
        /\ UNCHANGED <<listeners, handler, stack, shut, reports, started, owed>>
    BY <2>1, <2>2 DEF NewEvent
  <2> QED
    BY <2>4, <2>5, EventStep
<1>2. CASE PreventDefault(e)
  <2>1. PICK native : native = Prevents(event[e])
    OBVIOUS
  <2>2. /\ ScriptRuns /\ event[e] # None /\ event' = [event EXCEPT ![e] = native]
        /\ UNCHANGED <<listeners, handler, stack, shut, reports, started, owed>>
    BY <1>2, <2>1 DEF PreventDefault
  <2>3. /\ event[e] \in Event /\ event[e].prevented \in BOOLEAN /\ event[e].cancelable \in BOOLEAN
        /\ event[e].prevented => event[e].cancelable
    BY <2>2, EventFacts
  <2>4. native \in Event /\ native.cancelable = event[e].cancelable
        /\ native.prevented = (event[e].prevented \/ event[e].cancelable)
    BY <2>1, <2>3 DEF Prevents, Event
  <2>5. native.prevented => native.cancelable
    BY <2>3, <2>4
  <2> QED
    BY <2>2, <2>4, <2>5, EventStep
<1>3. CASE StopImmediatePropagation(e)
  <2>1. PICK native : native = [event[e] EXCEPT !.stopped = TRUE]
    OBVIOUS
  <2>2. /\ ScriptRuns /\ event[e] # None /\ event' = [event EXCEPT ![e] = native]
        /\ UNCHANGED <<listeners, handler, stack, shut, reports, started, owed>>
    BY <1>3, <2>1 DEF StopImmediatePropagation
  <2>3. event[e] \in Event /\ (event[e].prevented => event[e].cancelable)
    BY <2>2, EventFacts
  <2>4. native \in Event /\ native.cancelable = event[e].cancelable
        /\ native.prevented = event[e].prevented
    BY <2>1, <2>3 DEF Event
  <2> QED
    BY <2>2, <2>3, <2>4, EventStep
<1> QED
  BY <1>1, <1>2, <1>3

\* An event that nobody holds is in no dispatch.
LEMMA DropStep ==
    ASSUME TypeOK, LoopInv, NEW e \in Events, DropEvent(e)
    PROVE  TypeOK' /\ LoopInv'
<1>1. /\ event' = [event EXCEPT ![e] = None] /\ ~InDispatch(e)
      /\ UNCHANGED <<listeners, handler, stack, shut, reports, started, owed>>
  BY DEF DropEvent
<1>2. event' \in [Events -> Event \cup {None}] /\ event'[e] = None
      /\ \A x \in Events : x # e => event'[x] = event[x]
  BY <1>1 DEF TypeOK
<1>3. EventsAt(event')
  BY <1>2 DEF LoopInv, EventsAt
<1>4. \A i \in 1 .. Len(stack) : event'[stack[i].event] = event[stack[i].event]
  <2> TAKE i \in 1 .. Len(stack)
  <2>1. stack[i] \in Frame /\ i \in DOMAIN stack
    BY DEF TypeOK
  <2>2. stack[i].event \in Events /\ stack[i].event # e
    BY <2>1, <1>1, FrameFacts DEF InDispatch
  <2> QED
    BY <2>2, <1>2
<1>5. StackAt(stack, event')
  BY <1>4, EventsAside DEF TypeOK, LoopInv
<1>6. StackAt(stack', event') /\ OwedAt(stack', owed', shut')
  BY <1>1, <1>5 DEF LoopInv
<1> QED
  BY <1>1, <1>2, <1>3, <1>6, StepKeeps DEF TypeOK, LoopInv

\* shutdown, and the job that reports an exception.
LEMMA FlagStep ==
    ASSUME TypeOK, LoopInv, ShutDown \/ RunReport
    PROVE  TypeOK' /\ LoopInv'
<1>1. /\ UNCHANGED <<listeners, handler, event, stack, started, owed>>
      /\ shut' \in BOOLEAN /\ reports' \in Nat /\ (shut => shut')
  <2>1. CASE ShutDown
    BY <2>1 DEF ShutDown, TypeOK
  <2>2. CASE RunReport
    <3>1. reports \in Nat /\ reports > 0 /\ shut \in BOOLEAN
      BY <2>2 DEF RunReport, TypeOK
    <3>2. reports' = reports - 1 /\ UNCHANGED <<listeners, handler, event, stack, shut, started, owed>>
      BY <2>2 DEF RunReport
    <3> QED
      BY <3>1, <3>2
  <2> QED
    BY <2>1, <2>2
<1>2. OwedAt(stack', owed', shut')
  BY <1>1 DEF LoopInv, OwedAt
<1> QED
  BY <1>1, <1>2, StepKeeps DEF TypeOK, LoopInv

-----------------------------------------------------------------------------
(* Steps of a dispatch.                                                    *)

\* dispatchEvent puts a frame that owes nothing on a stack that waits.
LEMMA DispatchStep ==
    ASSUME TypeOK, LoopInv, NEW t \in Targets, NEW e \in Events, DispatchEvent(t, e)
    PROVE  TypeOK' /\ LoopInv'
<1>1. /\ ScriptRuns /\ event[e] # None /\ started' = started + 1
      /\ event' = [event EXCEPT ![e] = [event[e] EXCEPT !.target = t]]
      /\ UNCHANGED <<listeners, handler, shut, reports, owed>>
  BY DEF DispatchEvent
<1>2. PICK copied \in Matching(t, event[e].type) :
          stack' = <<Begun(NewFrame(t, e, copied, "script"), event[e])>> \o stack
  BY DEF DispatchEvent
<1>3. event[e] \in Event /\ (event[e].prevented => event[e].cancelable)
  BY <1>1, EventFacts
<1>4. PICK native : native = [event[e] EXCEPT !.target = t]
  OBVIOUS
<1>5. /\ native \in Event /\ native.prevented = event[e].prevented
      /\ native.cancelable = event[e].cancelable /\ native.stopped = event[e].stopped
  BY <1>3, <1>4 DEF Event
<1>6. native # None
  BY <1>5, NoneAssumption
<1>7. event' \in [Events -> Event \cup {None}] /\ event'[e] = native
      /\ \A x \in Events : x # e => event'[x] = event[x]
  BY <1>1, <1>4, <1>5 DEF TypeOK
<1>8. EventsAt(event')
  BY <1>3, <1>5, <1>7 DEF LoopInv, EventsAt
<1>9. BelowAt(stack, event')
  <2>1. BelowAt(stack, event)
    BY <1>1, StackWaits DEF TypeOK, LoopInv, ScriptRuns
  <2>2. \A i \in 1 .. Len(stack) : event'[stack[i].event] # None
    <3> TAKE i \in 1 .. Len(stack)
    <3>1. stack[i] \in Frame
      BY DEF TypeOK
    <3>2. stack[i].event \in Events /\ event[stack[i].event] # None
      BY <2>1, <3>1, FrameFacts DEF BelowAt
    <3> QED
      BY <3>2, <1>6, <1>7
  <2> QED
    BY <2>1, <2>2, EventsMove DEF TypeOK
<1>10. copied \in Seq(Entry) /\ Distinct(copied)
  BY <1>2, MatchingFacts DEF TypeOK, LoopInv
<1>11. PICK by \in {"script", "reader", "abort"}, kept \in Nat \cup {None} :
           by = "script" /\ kept = None
  OBVIOUS
<1>12. PICK f, was, g :
           f = StartFrame(t, e, copied, by, kept) /\ was = event[e] /\ g = Begun(f, was)
  OBVIOUS
<1>13. /\ g \in Frame /\ FrameAt(g) /\ TopAt(g, event[e])
       /\ g.event = e /\ g.by = "script" /\ g.thrown = None
  <2>1. /\ g \in Frame /\ FrameAt(g) /\ TopAt(g, was)
        /\ g.event = e /\ g.by = by /\ g.thrown = kept
    BY <1>10, <1>11, <1>12, BegunFacts
  <2> QED
    BY <1>11, <1>12, <2>1
<1>14. OnTop(g, stack, event')
  BY <1>5, <1>6, <1>7, <1>9, <1>13 DEF OnTop, TopAt
<1>15. stack' = <<g>> \o stack
  BY <1>2, <1>11, <1>12, StartFacts
<1>16. stack' \in Seq(Frame) /\ StackAt(stack', event')
  BY <1>13, <1>14, <1>15, PushStack DEF TypeOK
<1>17. Cardinality(Owing(stack')) = Cardinality(Owing(stack))
  BY <1>13, <1>15, PushOwing DEF TypeOK, Owes
<1>18. OwedAt(stack', owed', shut')
  BY <1>1, <1>17 DEF LoopInv, OwedAt
<1>19. started' \in Nat
  BY <1>1 DEF TypeOK
<1> QED
  BY <1>1, <1>7, <1>8, <1>16, <1>18, <1>19, StepKeeps DEF TypeOK, LoopInv

\* A FileReader's dispatch has an event that no other frame has; it owes a report
\* if it starts with an exception.
LEMMA FiresFacts ==
    ASSUME TypeOK, LoopInv, NEW t \in Targets, NEW e \in Events, NEW type \in Types,
           NEW by \in {"reader", "abort"}, NEW kept \in Nat \cup {None},
           NEW below \in Seq(Frame), BelowAt(below, event), Apart(e, below),
           Fires(t, e, type, by, kept, below)
    PROVE  /\ event' \in [Events -> Event \cup {None}] /\ EventsAt(event')
           /\ stack' \in Seq(Frame) /\ StackAt(stack', event')
           /\ Cardinality(Owing(below)) \in Nat
           /\ Cardinality(Owing(stack')) = IF kept # None THEN Cardinality(Owing(below)) + 1
                                                          ELSE Cardinality(Owing(below))
           /\ UNCHANGED <<listeners, handler, shut>> /\ ~shut
<1>1. PICK native : native = NewNative(type, FALSE, t)
  OBVIOUS
<1>2. /\ event' = [event EXCEPT ![e] = native] /\ ~shut
      /\ UNCHANGED <<listeners, handler, shut>>
  BY <1>1 DEF Fires
<1>3. PICK copied \in Matching(t, type) :
          stack' = <<Begun([NewFrame(t, e, copied, by) EXCEPT !.thrown = kept], native)>> \o below
  BY <1>1 DEF Fires
<1>4. native \in Event /\ native # None /\ native.prevented = FALSE
  <2>1. FALSE \in BOOLEAN /\ t \in Targets \cup {None} /\ type \in Types
    OBVIOUS
  <2> QED
    BY ONLY <2>1, <1>1, NewNativeFacts
<1>5. event' \in [Events -> Event \cup {None}] /\ event'[e] = native
      /\ \A x \in Events : x # e => event'[x] = event[x]
  BY <1>2, <1>4 DEF TypeOK
<1>6. EventsAt(event')
  BY <1>4, <1>5 DEF LoopInv, EventsAt
<1>7. BelowAt(below, event')
  <2>1. \A i \in 1 .. Len(below) : event'[below[i].event] # None
    <3> TAKE i \in 1 .. Len(below)
    <3>1. below[i] \in Frame
      OBVIOUS
    <3>2. below[i].event \in Events /\ below[i].event # e /\ event[below[i].event] # None
      BY <3>1, FrameFacts DEF BelowAt, Apart
    <3> QED
      BY <3>2, <1>5
  <2> QED
    BY <2>1, EventsMove
<1>8. copied \in Seq(Entry) /\ Distinct(copied)
  BY <1>3, MatchingFacts DEF TypeOK, LoopInv
<1>9. PICK f : f = StartFrame(t, e, copied, by, kept)
  OBVIOUS
<1>10. PICK g : g = Begun(f, native)
  OBVIOUS
<1>11. /\ g \in Frame /\ FrameAt(g) /\ TopAt(g, native)
       /\ g.event = e /\ g.by = by /\ g.thrown = kept
  <2>1. by \in {"script", "reader", "abort"} /\ (by = "script" => kept = None)
    OBVIOUS
  <2>2. t \in Targets /\ e \in Events /\ kept \in Nat \cup {None}
    OBVIOUS
  <2> QED
    BY ONLY <2>1, <2>2, <1>8, <1>9, <1>10, BegunFacts
<1>12. OnTop(g, below, event')
  BY <1>4, <1>5, <1>7, <1>11 DEF OnTop
<1>13. stack' = <<g>> \o below
  BY <1>3, <1>9, <1>10, StartFacts
<1>14. stack' \in Seq(Frame) /\ StackAt(stack', event')
  BY <1>11, <1>12, <1>13, PushStack
<1>15. Owes(g) <=> kept # None
  BY <1>11 DEF Owes
<1>16. /\ Cardinality(Owing(below)) \in Nat
       /\ Cardinality(Owing(stack')) = IF kept # None THEN Cardinality(Owing(below)) + 1
                                                      ELSE Cardinality(Owing(below))
  BY <1>11, <1>13, <1>15, PushOwing
<1> QED
  BY <1>2, <1>5, <1>6, <1>14, <1>16

\* A job and abort() fire a new event.
LEMMA FireStep ==
    ASSUME TypeOK, LoopInv, NEW t \in Readers, NEW e \in Events,
           (\E type \in Types : ReaderFires(t, e, type)) \/ Abort(t, e)
    PROVE  TypeOK' /\ LoopInv'
<1>1. PICK type \in Types, by \in {"reader", "abort"} : Fires(t, e, type, by, None, stack)
  <2>1. "abort" \in Types /\ "abort" \in {"reader", "abort"} /\ "reader" \in {"reader", "abort"}
    BY DomAssumption
  <2>2. CASE \E type \in Types : ReaderFires(t, e, type)
    BY <2>1, <2>2 DEF ReaderFires
  <2>3. CASE Abort(t, e)
    BY <2>1, <2>3 DEF Abort
  <2> QED
    BY <2>2, <2>3
<1>2. /\ e \in Unused /\ ScriptRuns /\ started' = started + 1
      /\ UNCHANGED <<reports, owed>>
  BY DEF ReaderFires, Abort, ScriptRuns
<1>3. BelowAt(stack, event)
  BY <1>2, StackWaits DEF TypeOK, LoopInv, ScriptRuns
<1>4. Apart(e, stack)
  BY <1>2, <1>3 DEF Apart, BelowAt, Unused
<1>5. t \in Targets /\ None \in Nat \cup {None} /\ stack \in Seq(Frame)
  BY DomAssumption DEF TypeOK
<1>6. /\ event' \in [Events -> Event \cup {None}] /\ EventsAt(event')
      /\ stack' \in Seq(Frame) /\ StackAt(stack', event')
      /\ Cardinality(Owing(stack')) = Cardinality(Owing(stack))
      /\ UNCHANGED <<listeners, handler, shut>>
  BY <1>1, <1>3, <1>4, <1>5, FiresFacts
<1>7. OwedAt(stack', owed', shut')
  BY <1>2, <1>6 DEF LoopInv, OwedAt
<1>8. started' \in Nat
  BY <1>2 DEF TypeOK
<1> QED
  BY <1>2, <1>6, <1>7, <1>8, StepKeeps DEF TypeOK, LoopInv

\* The innermost frame of a stack and the others.
LEMMA TopFacts ==
    ASSUME TypeOK, LoopInv, stack # << >>
    PROVE  /\ Head(stack) \in Frame /\ Tail(stack) \in Seq(Frame)
           /\ OnTop(Head(stack), Tail(stack), event)
           /\ event[Head(stack).event] \in Event
<1>1. Head(stack) \in Frame /\ Tail(stack) \in Seq(Frame)
  BY TailFacts DEF TypeOK
<1>2. OnTop(Head(stack), Tail(stack), event)
  BY DEF LoopInv, StackAt
<1>3. Head(stack).event \in Events /\ event[Head(stack).event] # None
  BY <1>1, <1>2, FrameFacts DEF OnTop
<1> QED
  BY <1>1, <1>2, <1>3, EventFacts

\* abort's loadend takes over what the dispatch of abort owes.
LEMMA ContinueStep ==
    ASSUME TypeOK, LoopInv, AbortContinues
    PROVE  TypeOK' /\ LoopInv'
<1>1. /\ stack # << >> /\ IsAbort(Head(stack)) /\ UNCHANGED <<reports, owed, started>>
      /\ Fires(Head(stack).target, Head(stack).event, "loadend", "abort", Head(stack).thrown,
               Tail(stack))
  BY DEF AbortContinues, IsOver
<1>2. PICK h, below : h = Head(stack) /\ below = Tail(stack)
  OBVIOUS
<1>3. /\ h \in Frame /\ below \in Seq(Frame) /\ OnTop(h, below, event) /\ h.by = "abort"
  BY <1>1, <1>2, TopFacts DEF IsAbort
<1>4. PICK t \in Targets, e \in Events, kept \in Nat \cup {None} :
          t = h.target /\ e = h.event /\ kept = h.thrown
  BY <1>3, FrameFacts
<1>5. "loadend" \in Types /\ "abort" \in {"reader", "abort"}
  BY DomAssumption
<1>6. BelowAt(below, event) /\ Apart(e, below)
  BY <1>3, <1>4 DEF OnTop
<1>7. Fires(t, e, "loadend", "abort", kept, below)
  BY <1>1, <1>2, <1>4
<1>8. /\ event' \in [Events -> Event \cup {None}] /\ EventsAt(event')
      /\ stack' \in Seq(Frame) /\ StackAt(stack', event')
      /\ Cardinality(Owing(stack')) = IF kept # None THEN Cardinality(Owing(below)) + 1
                                                      ELSE Cardinality(Owing(below))
      /\ UNCHANGED <<listeners, handler, shut>>
  BY <1>3, <1>5, <1>6, <1>7, FiresFacts
<1>9. Cardinality(Owing(stack)) = IF kept # None THEN Cardinality(Owing(below)) + 1
                                                  ELSE Cardinality(Owing(below))
  BY <1>1, <1>2, <1>3, <1>4, TailOwing DEF TypeOK, Owes
<1>10. OwedAt(stack', owed', shut')
  BY <1>1, <1>8, <1>9 DEF LoopInv, OwedAt
<1> QED
  BY <1>1, <1>8, <1>10, StepKeeps DEF TypeOK, LoopInv

\* The exception that the loop keeps, and the first that a callback threw.
LEMMA ThrownFacts ==
    ASSUME NEW h \in Frame, NEW throws \in BOOLEAN
    PROVE  /\ Keeps(h, throws) \in Nat \cup {None} /\ FirstThrown(h, throws) \in Nat \cup {None}
           /\ h.thrown = h.first => Keeps(h, throws) = FirstThrown(h, throws)
           /\ Keeps(h, throws) # None <=> h.thrown # None \/ throws
<1>1. h.at \in Nat /\ h.thrown \in Nat \cup {None} /\ h.first \in Nat \cup {None} /\ h.at # None
  BY FrameFacts, DomAssumption
<1> QED
  BY <1>1 DEF Keeps, FirstThrown

\* A callback returns or throws: the loop goes on with the frame it has, and a first
\* exception of a FileReader's dispatch is owed.
LEMMA ReturnStep ==
    ASSUME TypeOK, LoopInv, NEW throws \in BOOLEAN, Return(throws)
    PROVE  TypeOK' /\ LoopInv'
<1>1. /\ stack # << >> /\ Head(stack).running
      /\ UNCHANGED <<listeners, handler, event, shut, reports, started>>
  BY DEF Return
<1>2. PICK h, below, native : h = Head(stack) /\ below = Tail(stack) /\ native = event[h.event]
  OBVIOUS
<1>3. /\ h \in Frame /\ below \in Seq(Frame) /\ OnTop(h, below, event) /\ h.running
  BY <1>1, <1>2, TopFacts
<1>4. PICK thrown \in Nat \cup {None}, first \in Nat \cup {None} :
          thrown = Keeps(h, throws) /\ first = FirstThrown(h, throws)
  BY <1>3, ThrownFacts
<1>5. PICK after : after = [h EXCEPT !.thrown = thrown, !.first = first]
  OBVIOUS
<1>6. /\ after \in Frame /\ after.copied = h.copied /\ after.called = h.called /\ after.at = h.at
      /\ after.event = h.event /\ after.by = h.by /\ after.thrown = thrown /\ after.first = first
  BY <1>3, <1>5 DEF Frame
<1>7. PICK n \in Nat : n = h.at + 1
  BY <1>3, FrameFacts
<1>8. PICK g : g = Advance(after, native, n)
  OBVIOUS
<1>9. stack' = <<g>> \o below
  BY <1>2, <1>4, <1>5, <1>7, <1>8 DEF Return
<1>10. /\ g \in Frame /\ FrameAt(g) /\ TopAt(g, native)
       /\ g.event = h.event /\ g.by = h.by /\ g.thrown = thrown
  <2>1. FrameAt(h)
    BY <1>3 DEF OnTop
  <2>2. /\ n = Len(after.called) + 1 /\ Distinct(after.copied)
        /\ Len(after.called) <= Len(after.copied)
        /\ \A i \in 1 .. Len(after.called) : after.called[i] = after.copied[i]
    BY <2>1, <1>3, <1>6, <1>7 DEF FrameAt
  <2>3. after.by = "script" => after.thrown = after.first
    BY <2>1, <1>3, <1>4, <1>6, ThrownFacts DEF FrameAt
  <2>4. /\ g \in Frame /\ FrameAt(g) /\ TopAt(g, native)
        /\ g.event = after.event /\ g.by = after.by /\ g.thrown = after.thrown
    BY <2>2, <2>3, <1>6, <1>8, AdvanceFacts
  <2> QED
    BY <2>4, <1>6
<1>11. OnTop(g, below, event)
  BY <1>2, <1>3, <1>10 DEF OnTop
<1>12. stack' \in Seq(Frame) /\ StackAt(stack', event')
  BY <1>1, <1>3, <1>9, <1>10, <1>11, PushStack
<1>13. PICK count \in Nat : count = Cardinality(Owing(below))
  BY <1>1, <1>2, TailOwing DEF TypeOK
<1>14. /\ Cardinality(Owing(stack)) = IF Owes(h) THEN count + 1 ELSE count
       /\ Cardinality(Owing(stack')) = IF Owes(g) THEN count + 1 ELSE count
  <2>1. Cardinality(Owing(stack)) = IF Owes(h) THEN count + 1 ELSE count
    BY <1>1, <1>2, <1>13, TailOwing DEF TypeOK
  <2>2. Cardinality(Owing(stack')) = IF Owes(g) THEN count + 1 ELSE count
    BY <1>3, <1>9, <1>10, <1>13, PushOwing
  <2> QED
    BY <2>1, <2>2
<1>15. owed' = IF throws /\ h.thrown = None /\ h.by # "script" THEN owed + 1 ELSE owed
  BY <1>2 DEF Return
<1>16. owed \in Nat /\ owed' \in Nat
  BY <1>15 DEF TypeOK
<1>17. OwedAt(stack', owed', shut')
  <2>1. OwedAt(stack, owed, shut)
    BY DEF LoopInv
  <2>2. thrown # None <=> h.thrown # None \/ throws
    BY <1>3, <1>4, ThrownFacts
  <2>3. CASE throws /\ h.thrown = None /\ h.by # "script"
    <3>1. Owes(g) /\ ~Owes(h) /\ owed' = owed + 1
      BY <2>2, <2>3, <1>10, <1>15 DEF Owes
    <3> QED
      BY <2>1, <3>1, <1>1, <1>14, <1>16 DEF OwedAt
  <2>4. CASE ~(throws /\ h.thrown = None /\ h.by # "script")
    <3>1. (Owes(g) <=> Owes(h)) /\ owed' = owed
      BY <2>2, <2>4, <1>10, <1>15 DEF Owes
    <3> QED
      BY <2>1, <3>1, <1>1, <1>14, <1>16 DEF OwedAt
  <2> QED
    BY <2>3, <2>4
<1> QED
  BY <1>1, <1>12, <1>16, <1>17, StepKeeps DEF TypeOK, LoopInv

\* What is left when the innermost dispatch is: its event may be forgotten when no
\* other frame has it.
LEMMA LeaveFacts ==
    ASSUME TypeOK, LoopInv, stack # << >>, Leave,
           event' = event \/ (Head(stack).by # "script" /\ Forget)
    PROVE  /\ stack' \in Seq(Frame) /\ StackAt(stack', event') /\ started' \in Nat
           /\ event' \in [Events -> Event \cup {None}] /\ EventsAt(event')
           /\ UNCHANGED <<listeners, handler, shut>>
           /\ Cardinality(Owing(stack')) \in Nat
           /\ Cardinality(Owing(stack)) = IF Owes(Head(stack))
                                          THEN Cardinality(Owing(stack')) + 1
                                          ELSE Cardinality(Owing(stack'))
<1>1. PICK h, below : h = Head(stack) /\ below = Tail(stack)
  OBVIOUS
<1>2. h \in Frame /\ below \in Seq(Frame) /\ OnTop(h, below, event) /\ stack' = below
  BY <1>1, TopFacts DEF Leave
<1>3. BelowAt(below, event) /\ h.event \in Events
  BY <1>2, FrameFacts DEF OnTop
<1>4. /\ event' \in [Events -> Event \cup {None}] /\ EventsAt(event') /\ BelowAt(below, event')
  <2>1. CASE event' = event
    BY <2>1, <1>3 DEF TypeOK, LoopInv
  <2>2. CASE h.by # "script" /\ Forget
    <3>1. event' = [event EXCEPT ![h.event] = None]
      BY <2>2, <1>1 DEF Forget
    <3>2. /\ event' \in [Events -> Event \cup {None}] /\ event'[h.event] = None
          /\ \A x \in Events : x # h.event => event'[x] = event[x]
      BY <3>1, <1>3 DEF TypeOK
    <3>3. EventsAt(event')
      BY <3>2 DEF LoopInv, EventsAt
    <3>4. \A i \in 1 .. Len(below) : event'[below[i].event] # None
      <4> TAKE i \in 1 .. Len(below)
      <4>1. below[i] \in Frame
        BY <1>2
      <4>2. /\ below[i].event \in Events /\ event[below[i].event] # None
        BY <4>1, <1>3, FrameFacts DEF BelowAt
      <4>3. below[i].event # h.event
        BY <2>2, <1>2 DEF OnTop, Apart
      <4> QED
        BY <4>2, <4>3, <3>2
    <3> QED
      BY <3>2, <3>3, <3>4, <1>2, <1>3, EventsMove
  <2> QED
    BY <2>1, <2>2, <1>1
<1>5. StackAt(stack', event')
  BY <1>2, <1>4, WaitingStack
<1>6. started' \in Nat /\ UNCHANGED <<listeners, handler, shut>>
  BY DEF Leave, TypeOK
<1>7. /\ Cardinality(Owing(below)) \in Nat
      /\ Cardinality(Owing(stack)) = IF Owes(h) THEN Cardinality(Owing(below)) + 1
                                                ELSE Cardinality(Owing(below))
  BY <1>1, TailOwing DEF TypeOK
<1> QED
  BY <1>1, <1>2, <1>4, <1>5, <1>6, <1>7

\* A script's dispatch ends and owes nothing.
LEMMA EndScriptStep ==
    ASSUME TypeOK, LoopInv, EndScript
    PROVE  TypeOK' /\ LoopInv'
<1>1. /\ stack # << >> /\ Leave /\ event' = event /\ UNCHANGED <<reports, owed>>
      /\ ~Owes(Head(stack))
  BY DEF EndScript, IsOver, Owes
<1>2. /\ stack' \in Seq(Frame) /\ StackAt(stack', event') /\ started' \in Nat
      /\ event' \in [Events -> Event \cup {None}] /\ EventsAt(event')
      /\ UNCHANGED <<listeners, handler, shut>>
      /\ Cardinality(Owing(stack)) = Cardinality(Owing(stack'))
  BY <1>1, LeaveFacts
<1>3. OwedAt(stack', owed', shut')
  BY <1>1, <1>2 DEF LoopInv, OwedAt
<1> QED
  BY <1>1, <1>2, <1>3, StepKeeps DEF TypeOK, LoopInv

\* A FileReader's dispatch ends: what it owes becomes a job, unless the runtime is
\* shut down.
LEMMA EndReaderStep ==
    ASSUME TypeOK, LoopInv, EndReader \/ EndAbort
    PROVE  TypeOK' /\ LoopInv'
<1>1. /\ stack # << >> /\ Leave /\ Forget /\ Head(stack).by # "script"
      /\ Reports(Head(stack)) \/ (shut /\ UNCHANGED <<reports, owed>>)
  BY DEF EndReader, EndAbort, IsOver
<1>2. /\ stack' \in Seq(Frame) /\ StackAt(stack', event') /\ started' \in Nat
      /\ event' \in [Events -> Event \cup {None}] /\ EventsAt(event')
      /\ UNCHANGED <<listeners, handler, shut>>
      /\ Cardinality(Owing(stack')) \in Nat
      /\ Cardinality(Owing(stack)) = IF Owes(Head(stack)) THEN Cardinality(Owing(stack')) + 1
                                                          ELSE Cardinality(Owing(stack'))
  BY <1>1, LeaveFacts
<1>3. OwedAt(stack, owed, shut) /\ owed \in Nat /\ reports \in Nat
  BY DEF LoopInv, TypeOK
<1>4. OwedAt(stack', owed', shut') /\ owed' \in Nat /\ reports' \in Nat
  <2>1. CASE Reports(Head(stack)) /\ Head(stack).thrown = None
    <3>1. ~Owes(Head(stack)) /\ UNCHANGED <<reports, owed>>
      BY <2>1 DEF Reports, Owes
    <3> QED
      BY <3>1, <1>2, <1>3 DEF OwedAt
  <2>2. CASE Reports(Head(stack)) /\ Head(stack).thrown # None
    <3>1. Owes(Head(stack)) /\ reports' = reports + 1 /\ owed' = owed - 1
      BY <2>2, <1>1 DEF Reports, Owes
    <3> QED
      BY <3>1, <1>2, <1>3 DEF OwedAt
  <2>3. CASE shut /\ UNCHANGED <<reports, owed>>
    BY <2>3, <1>2, <1>3 DEF OwedAt
  <2> QED
    BY <2>1, <2>2, <2>3, <1>1
<1> QED
  BY <1>2, <1>4, StepKeeps DEF TypeOK, LoopInv

-----------------------------------------------------------------------------
(* The theorems.                                                           *)

\* Every step keeps the invariant.
LEMMA NextLoop ==
    TypeOK /\ LoopInv /\ [Next]_vars => TypeOK' /\ LoopInv'
<1> SUFFICES ASSUME TypeOK, LoopInv, [Next]_vars PROVE TypeOK' /\ LoopInv'
  OBVIOUS
<1>1. CASE \E t \in Targets, entry \in Offered : AddListener(t, entry) \/ RemoveListener(t, entry)
  BY <1>1, ListenerStep
<1>2. CASE \E t \in Targets, assigned \in Assigned :
              SetHandler(t, assigned[1], assigned[2]) \/ SetHandler(t, assigned[1], None)
  BY <1>2, HandlerStep
<1>3. CASE \E e \in Events, made \in Made : NewEvent(e, made[1], made[2])
  BY <1>3, MarkStep
<1>4. CASE \E e \in Events : DropEvent(e) \/ PreventDefault(e) \/ StopImmediatePropagation(e)
  BY <1>4, MarkStep, DropStep
<1>5. CASE \E t \in Targets, e \in Events : DispatchEvent(t, e)
  BY <1>5, DispatchStep
<1>6. CASE \E t \in Readers, e \in Events : Abort(t, e)
  BY <1>6, FireStep
<1>7. CASE \E t \in Readers, e \in Events, type \in Types : ReaderFires(t, e, type)
  BY <1>7, FireStep
<1>8. CASE ShutDown \/ RunReport
  BY <1>8, FlagStep
<1>9. CASE EndScript \/ EndReader \/ EndAbort
  BY <1>9, EndScriptStep, EndReaderStep
<1>10. CASE AbortContinues
  BY <1>10, ContinueStep
<1>11. CASE \E throws \in BOOLEAN : Return(throws)
  BY <1>11, ReturnStep
<1>12. CASE UNCHANGED vars
  <2>1. /\ listeners' = listeners /\ handler' = handler /\ event' = event /\ stack' = stack
        /\ shut' = shut /\ reports' = reports /\ started' = started /\ owed' = owed
    BY <1>12 DEF vars
  <2> QED
    BY <2>1, StepKeeps DEF TypeOK, LoopInv
<1> QED
  BY <1>1, <1>2, <1>3, <1>4, <1>5, <1>6, <1>7, <1>8, <1>9, <1>10, <1>11, <1>12
     DEF Next, Script, Job, Code

\* The variables have their types, and every frame's event is there as long as the
\* dispatch lasts: no step forgets the event of an outer dispatch (rooting of the
\* event by invoke_event, and the events of a FileReader's own dispatches).
THEOREM EventsTypeCorrect == Spec => [](TypeOK /\ LoopInv)
<1>1. Init => TypeOK /\ LoopInv
  BY InitLoop
<1>2. TypeOK /\ LoopInv /\ [Next]_vars => (TypeOK /\ LoopInv)'
  BY NextLoop
<1> QED
  BY <1>1, <1>2, PTL DEF Spec

\* What a dispatch has called is a prefix of what it copied, and no listener comes
\* twice.
LEMMA CalledIsPrefix ==
    TypeOK /\ LoopInv => CallsWhatWasThere
<1> SUFFICES ASSUME TypeOK, LoopInv, NEW i \in DOMAIN stack
             PROVE  /\ IsPrefix(stack[i].called, stack[i].copied)
                    /\ \A a, b \in DOMAIN stack[i].copied :
                          stack[i].copied[a] = stack[i].copied[b] => a = b
  BY DEF CallsWhatWasThere
<1>1. PICK f : f = stack[i]
  OBVIOUS
<1>2. f \in Frame /\ FrameAt(f)
  BY <1>1, EveryFrame DEF TypeOK, LoopInv
<1>3. PICK called, copied : called = f.called /\ copied = f.copied
  OBVIOUS
<1>4. /\ called \in Seq(Entry) /\ copied \in Seq(Entry) /\ Distinct(copied)
      /\ Len(called) <= Len(copied) /\ \A j \in 1 .. Len(called) : called[j] = copied[j]
  BY <1>2, <1>3, FrameFacts DEF FrameAt
<1>5. IsPrefix(called, copied)
  <2>0. Len(called) \in Nat /\ Len(copied) \in Nat
    BY <1>4
  <2>1. PICK a, b : a = SubSeq(called, 1, Len(called)) /\ b = SubSeq(copied, 1, Len(called))
    OBVIOUS
  <2>2. a \in Seq(Entry) /\ Len(a) = Len(called) /\ \A j \in 1 .. Len(called) : a[j] = called[j]
    BY <1>4, <2>0, <2>1
  <2>3. b \in Seq(Entry) /\ Len(b) = Len(called) /\ \A j \in 1 .. Len(called) : b[j] = copied[j]
    BY <1>4, <2>0, <2>1
  <2>4. a = b
    BY <1>4, <2>2, <2>3, SameElements
  <2> QED
    BY <1>4, <2>1, <2>4 DEF IsPrefix
<1>6. \A a, b \in DOMAIN copied : copied[a] = copied[b] => a = b
  BY <1>4 DEF Distinct
<1> QED
  BY <1>1, <1>3, <1>5, <1>6

\* A dispatch calls the listeners that were registered when it began, in their
\* order, each once, whatever its callbacks and the dispatches they start add,
\* remove and fire (invoke_event, add_event_listener).
THEOREM DispatchesCallTheirCopy == Spec => []CallsWhatWasThere
BY EventsTypeCorrect, CalledIsPrefix, PTL

\* The innermost dispatch that is over is as the invariant says.
LEMMA OverIsHonest ==
    TypeOK /\ LoopInv => EndsHonestly
<1> SUFFICES ASSUME TypeOK, LoopInv, IsOver PROVE EndsHonestly
  BY DEF EndsHonestly
<1>1. PICK h, native : h = Head(stack) /\ native = event[h.event]
  OBVIOUS
<1>2. /\ h \in Frame /\ FrameAt(h) /\ TopAt(h, native) /\ ~h.running /\ native \in Event
  BY <1>1, TopFacts DEF IsOver, OnTop
<1>3. h.called = h.copied \/ native.stopped
  BY <1>2 DEF TopAt
<1>4. h.by = "script" => h.thrown = h.first
  BY <1>2 DEF FrameAt
<1>5. native.prevented => native.cancelable
  <2>1. h.event \in Events /\ event[h.event] # None
    BY <1>1, <1>2, TopFacts, FrameFacts DEF IsOver, OnTop
  <2> QED
    BY <1>1, <2>1, EventFacts
<1>6. Outcome(h).thrown = h.thrown /\ (~Outcome(h).allowed <=> native.prevented)
  BY <1>1 DEF Outcome
<1> QED
  BY <1>1, <1>3, <1>4, <1>5, <1>6 DEF EndsHonestly

\* A dispatch that is over called every listener it copied unless its event was
\* stopped; dispatchEvent throws what the first callback threw that threw, and
\* refuses only an event that may be prevented (dispatch_event, invoke_event).
THEOREM DispatchesEndHonestly == Spec => []EndsHonestly
BY EventsTypeCorrect, OverIsHonest, PTL

\* What is owed is what the frames owe.
LEMMA OwedIsReported ==
    TypeOK /\ LoopInv => ReportedOnce
<1> SUFFICES ASSUME TypeOK, LoopInv PROVE ReportedOnce
  OBVIOUS
<1>1. Owing(stack) = {i \in DOMAIN stack : stack[i].by # "script" /\ stack[i].thrown # None}
  BY DEF Owing, Owes, TypeOK
<1> QED
  BY <1>1 DEF ReportedOnce, LoopInv, OwedAt

\* The exceptions of a FileReader's dispatch are reported by one job, those of abort
\* and its loadend together, at whatever depth and in whatever order the dispatches
\* end (run_dispatch, dispatch_terminal_now, enqueue_listener_error).
THEOREM ExceptionsReportedOnce == Spec => []ReportedOnce
BY EventsTypeCorrect, OwedIsReported, PTL

=============================================================================
