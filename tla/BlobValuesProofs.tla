------------------------- MODULE BlobValuesProofs -------------------------
(*****************************************************************************)
(* BlobValues implements BlobContents, refuses rightly, and its readers      *)
(* agree.  The invariant IInv says that every object is a blob within the    *)
(* limits whose segments are parts of their sources, that the lower bound a  *)
(* constructor keeps while it converts its parts is below what they weigh    *)
(* under either option for line ends, and what the parts of a refusal weigh. *)
(*                                                                           *)
(* First what the operators of BlobData and WebIdlNumbers compute, for every *)
(* input: joining, cutting and reading segments, the limits, conversions of  *)
(* doubles, the chunks of BlobReader and of the workers, decoding, base64.   *)
(* They are recursive functions.  That one exists, and what it computes, is  *)
(* proved by iteration: a function with the values that the definition asks  *)
(* for is built from the beginnings of an iteration, and by induction there  *)
(* is no other.  Facts about sequences are by induction on Append.           *)
(*****************************************************************************)
EXTENDS BlobValues, SequenceTheorems, WellFoundedInduction, TLAPS

-----------------------------------------------------------------------------
(* Iteration, and what it leaves of a recursive function.                    *)

\* Bytes and characters: strings, those that the conversions write among them.
Chars == STRING \cup {"lead", "trail", "x", "w", "?"}

\* The pairs of numbers in order.
Before == {p \in Nat \X Nat : p[1] < p[2]}

\* The order of numbers is well founded.
LEMMA BeforeWF == IsWellFoundedOn(Before, Nat)
BY NatLessThanWellFounded DEF OpToRel, Before

\* A set of numbers that is not empty has a least one.
LEMMA LeastNumber ==
    ASSUME NEW T, T \subseteq Nat, T # {}
    PROVE  \E x \in T : \A y \in T : x <= y
<1>1. \E x \in T : \A y \in T : ~ (<<y, x>> \in Before)
  BY BeforeWF, WFMin
<1>2. ASSUME NEW x \in Nat, NEW y \in Nat, ~ (<<y, x>> \in Before)
      PROVE  x <= y
  BY <1>2 DEF Before
<1> QED
  BY <1>1, <1>2

\* A set with 0, and with n + 1 whenever it has n, has every number.
LEMMA Induction ==
    ASSUME NEW T, 0 \in T, \A n \in Nat : n \in T => n + 1 \in T
    PROVE  \A n \in Nat : n \in T
<1> DEFINE F == Nat \ T
<1> SUFFICES ASSUME F # {} PROVE FALSE
  OBVIOUS
<1>1. PICK x \in F : \A y \in F : x <= y
  BY LeastNumber
<1>2. x # 0 /\ x - 1 \in Nat /\ x - 1 \notin F
  BY <1>1
<1> QED
  BY <1>2

\* g is the beginning of an iteration, up to place n.
Prefix(g, S, x, step, n) ==
    /\ g \in [0 .. n -> S]
    /\ g[0] = x
    /\ \A k \in 1 .. n : g[k] = step[k][g[k - 1]]

\* Every beginning of an iteration exists.
LEMMA PrefixExists ==
    ASSUME NEW S, NEW x \in S, NEW step \in [Nat -> [S -> S]]
    PROVE  \A n \in Nat : \E g : Prefix(g, S, x, step, n)
<1> DEFINE T == {n \in Nat : \E g : Prefix(g, S, x, step, n)}
<1>1. 0 \in T
  <2>1. Prefix([k \in 0 .. 0 |-> x], S, x, step, 0)
    BY DEF Prefix
  <2> QED
    BY <2>1
<1>2. ASSUME NEW n \in Nat, n \in T PROVE n + 1 \in T
  <2>1. PICK g : Prefix(g, S, x, step, n)
    BY <1>2
  <2> DEFINE v == step[n + 1][g[n]]
             h == [k \in 0 .. n + 1 |-> IF k <= n THEN g[k] ELSE v]
  <2>2. v \in S
    BY <2>1 DEF Prefix
  <2>3. h \in [0 .. n + 1 -> S] /\ h[0] = x
    <3>1. \A k \in 0 .. n + 1 : k <= n => k \in 0 .. n
      OBVIOUS
    <3> HIDE DEF v
    <3> QED
      BY <2>1, <2>2, <3>1 DEF Prefix
  <2>4. ASSUME NEW k \in 1 .. n + 1 PROVE h[k] = step[k][h[k - 1]]
    <3>1. CASE k <= n
      <4>1. h[k] = g[k] /\ h[k - 1] = g[k - 1] /\ k \in 1 .. n
        BY <3>1
      <4> QED
        BY <2>1, <4>1 DEF Prefix
    <3>2. CASE k = n + 1
      BY <3>2
    <3> QED
      BY <3>1, <3>2
  <2> HIDE DEF h
  <2>5. Prefix(h, S, x, step, n + 1)
    BY <2>3, <2>4 DEF Prefix
  <2> QED
    BY <2>5
<1> HIDE DEF T
<1>3. \A n \in Nat : n \in T
  BY <1>1, <1>2, Induction
<1> QED
  BY <1>3 DEF T

\* The first n steps are the same.
Agree(step, other, n) == \A k \in 1 .. n : step[k] = other[k]

\* Two beginnings of one iteration agree as far as both go.
LEMMA PrefixUnique ==
    ASSUME NEW S, NEW x, NEW step, NEW other, NEW T, NEW n \in Nat, NEW m \in Nat, NEW g, NEW h,
           Prefix(g, S, x, step, n), Prefix(h, T, x, other, m),
           Agree(step, other, n)
    PROVE  \A k \in Nat : k <= n /\ k <= m => g[k] = h[k]
<1> DEFINE A == {k \in Nat : k <= n /\ k <= m => g[k] = h[k]}
<1>1. 0 \in A
  BY DEF Prefix
<1>2. ASSUME NEW k \in Nat, k \in A PROVE k + 1 \in A
  <2> SUFFICES ASSUME k + 1 <= n, k + 1 <= m PROVE g[k + 1] = h[k + 1]
    OBVIOUS
  <2>1. g[k + 1] = step[k + 1][g[k]] /\ h[k + 1] = other[k + 1][h[k]]
    BY DEF Prefix
  <2>2. step[k + 1] = other[k + 1]
    BY DEF Agree
  <2> QED
    BY <1>2, <2>1, <2>2
<1> HIDE DEF A
<1>3. \A k \in Nat : k \in A
  BY <1>1, <1>2, Induction
<1> QED
  BY <1>3 DEF A

\* What an iteration has after each of its steps.
Iterates(g, S, x, step) ==
    /\ g \in [Nat -> S] /\ g[0] = x
    /\ \A n \in Nat : g[n + 1] = step[n + 1][g[n]]

\* An iteration that never ends exists.
HasIteration(S, x, step) == \E g : Iterates(g, S, x, step)

\* An iteration without end exists: what a recursive function on numbers asks for.
LEMMA Iteration ==
    ASSUME NEW S, NEW x \in S, NEW step \in [Nat -> [S -> S]]
    PROVE  HasIteration(S, x, step)
<1> DEFINE part == [n \in Nat |-> CHOOSE h : Prefix(h, S, x, step, n)]
           g == [n \in Nat |-> part[n][n]]
<1>1. \A n \in Nat : Prefix(part[n], S, x, step, n)
  BY PrefixExists
<1> HIDE DEF part
<1>2. g \in [Nat -> S] /\ g[0] = x
  BY <1>1 DEF Prefix
<1>3. ASSUME NEW n \in Nat PROVE g[n + 1] = step[n + 1][g[n]]
  <2>1. part[n + 1][n + 1] = step[n + 1][part[n + 1][n]]
    BY <1>1 DEF Prefix
  <2>2. part[n + 1][n] = part[n][n]
    <3>1. Prefix(part[n + 1], S, x, step, n + 1) /\ Prefix(part[n], S, x, step, n)
      BY <1>1
    <3>2. ASSUME NEW p, NEW q, Prefix(p, S, x, step, n + 1), Prefix(q, S, x, step, n)
          PROVE  p[n] = q[n]
      <4>1. n + 1 \in Nat /\ Agree(step, step, n + 1)
        BY DEF Agree
      <4>2. \A k \in Nat : k <= n + 1 /\ k <= n => p[k] = q[k]
        BY ONLY <3>2, <4>1, n \in Nat, PrefixUnique
      <4> QED
        BY <4>2
    <3> QED
      BY <3>1, <3>2
  <2> QED
    BY <2>1, <2>2
<1>4. Iterates(g, S, x, step)
  BY <1>2, <1>3 DEF Iterates
<1> QED
  BY <1>4 DEF HasIteration

-----------------------------------------------------------------------------
(* FlattenSeq.                                                               *)

\* The sequences of s up to place i, joined, when f holds those up to the place before.
JoinAt(s, f, i) == IF i = 1 THEN s[i] ELSE f[i - 1] \o s[i]

IsJoin(s, n, f) == f = [i \in 1 .. n |-> JoinAt(s, f, i)]

\* What a joining function has in each place.
LEMMA JoinMeans ==
    ASSUME NEW s, NEW n \in Nat, NEW f, IsJoin(s, n, f)
    PROVE  \A i \in 1 .. n : f[i] = JoinAt(s, f, i)
BY DEF IsJoin

\* A function with these values in all places is a joining function.
LEMMA JoinMade ==
    ASSUME NEW s, NEW n \in Nat, NEW f, f = [i \in 1 .. n |-> f[i]],
           \A i \in 1 .. n : f[i] = JoinAt(s, f, i)
    PROVE  IsJoin(s, n, f)
<1>1. [i \in 1 .. n |-> f[i]] = [i \in 1 .. n |-> JoinAt(s, f, i)]
  OBVIOUS
<1> QED
  BY <1>1 DEF IsJoin

\* FlattenSeq is a recursive function, which exists.
LEMMA JoinExists ==
    ASSUME NEW s
    PROVE  \A n \in Nat : \E f : IsJoin(s, n, f)
<1> DEFINE T == {n \in Nat : \E f : IsJoin(s, n, f)}
<1>1. 0 \in T
  <2>1. [i \in 1 .. 0 |-> 0] = [i \in 1 .. 0 |-> [j \in 1 .. 0 |-> 0][i]]
    OBVIOUS
  <2>2. IsJoin(s, 0, [i \in 1 .. 0 |-> 0])
    BY <2>1 DEF IsJoin
  <2> QED
    BY <2>2
<1>2. ASSUME NEW k \in Nat, k \in T PROVE k + 1 \in T
  <2>1. PICK f : IsJoin(s, k, f)
    BY <1>2
  <2> DEFINE last == IF k = 0 THEN s[k + 1] ELSE f[k] \o s[k + 1]
             g == [i \in 1 .. k + 1 |-> IF i <= k THEN f[i] ELSE last]
  <2>2. ASSUME NEW i \in 1 .. k + 1 PROVE g[i] = JoinAt(s, g, i)
    <3>1. CASE i <= k
      <4>1. f[i] = JoinAt(s, f, i)
        BY <2>1, <3>1, JoinMeans
      <4>2. g[i] = f[i] /\ (i # 1 => g[i - 1] = f[i - 1])
        BY <3>1
      <4> HIDE DEF g
      <4> QED
        BY <3>1, <4>1, <4>2 DEF JoinAt
    <3>2. CASE i = k + 1
      <4>1. g[k + 1] = last /\ (k # 0 => g[k] = f[k])
        OBVIOUS
      <4> HIDE DEF g
      <4> QED
        BY <3>2, <4>1 DEF JoinAt
    <3>3. i <= k \/ i = k + 1
      OBVIOUS
    <3> QED
      BY <3>1, <3>2, <3>3
  <2>3. g = [i \in 1 .. k + 1 |-> g[i]]
    OBVIOUS
  <2> HIDE DEF g
  <2>4. IsJoin(s, k + 1, g)
    BY <2>2, <2>3, k + 1 \in Nat, JoinMade
  <2> QED
    BY <2>4
<1> HIDE DEF T
<1>3. \A n \in Nat : n \in T
  BY <1>1, <1>2, Induction
<1> QED
  BY <1>3 DEF T

\* FlattenSeq of a sequence that is not empty is the last value of a joining function.
LEMMA FlatUnfold ==
    ASSUME NEW s, Len(s) \in Nat, Len(s) # 0
    PROVE  \E f : IsJoin(s, Len(s), f) /\ FlattenSeq(s) = f[Len(s)]
<1> DEFINE f == CHOOSE g : g = [i \in 1 .. Len(s) |-> IF i = 1 THEN s[i] ELSE g[i - 1] \o s[i]]
<1>1. f = [i \in 1 .. Len(s) |-> IF i = 1 THEN s[i] ELSE f[i - 1] \o s[i]]
  <2>1. \E g : IsJoin(s, Len(s), g)
    BY JoinExists
  <2>2. \E g : g = [i \in 1 .. Len(s) |-> IF i = 1 THEN s[i] ELSE g[i - 1] \o s[i]]
    BY ONLY <2>1 DEF IsJoin, JoinAt
  <2> QED
    BY ONLY <2>2
<1>2. FlattenSeq(s) = f[Len(s)]
  BY DEF FlattenSeq
<1>3. IsJoin(s, Len(s), f)
  BY ONLY <1>1 DEF IsJoin, JoinAt
<1> QED
  BY <1>2, <1>3

\* Sequences that agree up to a place are joined alike up to there.
LEMMA JoinUnique ==
    ASSUME NEW s, NEW t, NEW f, NEW g, NEW n \in Nat, NEW m \in Nat,
           IsJoin(s, n, f), IsJoin(t, m, g), \A i \in 1 .. n : s[i] = t[i], n <= m
    PROVE  \A i \in 1 .. n : f[i] = g[i]
<1> DEFINE T == {k \in Nat : k + 1 <= n => f[k + 1] = g[k + 1]}
<1>0. /\ \A i \in 1 .. n : f[i] = JoinAt(s, f, i)
      /\ \A i \in 1 .. n : g[i] = JoinAt(t, g, i)
  BY JoinMeans
<1>1. 0 \in T
  BY <1>0 DEF JoinAt
<1>2. ASSUME NEW k \in Nat, k \in T PROVE k + 1 \in T
  <2> SUFFICES ASSUME k + 1 + 1 <= n PROVE f[k + 1 + 1] = g[k + 1 + 1]
    OBVIOUS
  <2> DEFINE i == k + 1 + 1
  <2>1. i \in 1 .. n /\ i # 1 /\ f[i - 1] = g[i - 1]
    BY <1>2
  <2> HIDE DEF i
  <2>2. f[i] = JoinAt(s, f, i) /\ g[i] = JoinAt(t, g, i) /\ s[i] = t[i]
    BY <1>0, <2>1
  <2>3. f[i] = g[i]
    BY <2>1, <2>2 DEF JoinAt
  <2> QED
    BY <2>3 DEF i
<1> HIDE DEF T
<1>3. \A k \in Nat : k \in T
  BY <1>1, <1>2, Induction
<1>4. ASSUME NEW i \in 1 .. n PROVE f[i] = g[i]
  <2>1. i - 1 \in Nat /\ i - 1 \in T
    BY <1>3
  <2> QED
    BY <2>1 DEF T
<1> QED
  BY <1>4

\* Joining the empty sequence of sequences.
LEMMA FlatNone == FlattenSeq(<< >>) = << >>
BY DEF FlattenSeq

\* Joining with one sequence more.
LEMMA FlatAppend ==
    ASSUME NEW V, NEW ss \in Seq(Seq(V)), NEW x \in Seq(V)
    PROVE  FlattenSeq(Append(ss, x)) = FlattenSeq(ss) \o x
<1> DEFINE tt == Append(ss, x)
           n == Len(ss)
           m == n + 1
<1>0. /\ n \in Nat /\ m \in Nat /\ m # 0 /\ Len(tt) = m /\ Len(ss) = n /\ n <= m
      /\ m - 1 = n /\ m \in 1 .. m /\ (n = 0 => m = 1) /\ (n # 0 => m # 1 /\ n \in 1 .. n)
      /\ \A i \in 1 .. n : ss[i] = tt[i]
  OBVIOUS
<1>00. tt[m] = x
  OBVIOUS
<1>000. n = 0 => ss = << >>
  OBVIOUS
<1> HIDE DEF tt, n, m
<1>1. PICK g : IsJoin(tt, m, g) /\ FlattenSeq(tt) = g[m]
  <2>1. Len(tt) \in Nat /\ Len(tt) # 0
    BY <1>0
  <2>2. \E g : IsJoin(tt, Len(tt), g) /\ FlattenSeq(tt) = g[Len(tt)]
    BY ONLY <2>1, FlatUnfold
  <2> QED
    BY <1>0, <2>2
<1>4. g[m] = JoinAt(tt, g, m)
  BY <1>0, <1>1, JoinMeans
<1>2. CASE n = 0
  <2>1. g[m] = x
    BY <1>0, <1>00, <1>2, <1>4 DEF JoinAt
  <2>3. FlattenSeq(ss) = << >>
    BY <1>000, <1>2, FlatNone
  <2>4. << >> \o x = x
    OBVIOUS
  <2> QED
    BY <1>1, <2>1, <2>3, <2>4 DEF tt
<1>3. CASE n # 0
  <2>1. PICK f : IsJoin(ss, n, f) /\ FlattenSeq(ss) = f[n]
    <3>1. Len(ss) \in Nat /\ Len(ss) # 0
      BY <1>0, <1>3
    <3>2. \E f : IsJoin(ss, Len(ss), f) /\ FlattenSeq(ss) = f[Len(ss)]
      BY ONLY <3>1, FlatUnfold
    <3> QED
      BY <1>0, <3>2
  <2>2. \A i \in 1 .. n : f[i] = g[i]
    <3>1. n \in Nat /\ m \in Nat /\ n <= m
      BY <1>0
    <3>2. IsJoin(ss, n, f) /\ IsJoin(tt, m, g) /\ \A i \in 1 .. n : ss[i] = tt[i]
      BY <1>0, <1>1, <2>1
    <3> QED
      BY ONLY <3>1, <3>2, JoinUnique
  <2>3. g[m] = g[n] \o tt[m]
    BY <1>0, <1>3, <1>4 DEF JoinAt
  <2>4. f[n] = g[n]
    BY <1>0, <1>3, <2>2
  <2> QED
    BY <1>00, <1>1, <2>1, <2>3, <2>4 DEF tt
<1> QED
  BY <1>2, <1>3

\* Induction over sequences, with a set for what is claimed of them.
LEMMA SeqInduction ==
    ASSUME NEW V, NEW T, << >> \in T,
           \A s \in Seq(V) : \A x \in V : s \in T => Append(s, x) \in T
    PROVE  \A s \in Seq(V) : s \in T
<1> DEFINE A == {n \in Nat : \A s \in Seq(V) : Len(s) = n => s \in T}
<1>1. 0 \in A
  <2>1. \A s \in Seq(V) : Len(s) = 0 => s = << >>
    OBVIOUS
  <2> QED
    BY <2>1
<1>2. ASSUME NEW n \in Nat, n \in A PROVE n + 1 \in A
  <2> SUFFICES ASSUME NEW s \in Seq(V), Len(s) = n + 1 PROVE s \in T
    OBVIOUS
  <2>1. s # << >>
    OBVIOUS
  <2>2. PICK t \in Seq(V), x \in V : s = Append(t, x)
    BY <2>1, SequenceEmptyOrAppend
  <2>3. Len(t) = n
    BY <2>2, AppendProperties
  <2>4. t \in T
    BY <1>2, <2>3
  <2> QED
    BY <2>2, <2>4
<1> HIDE DEF A
<1>3. \A n \in Nat : n \in A
  BY <1>1, <1>2, Induction
<1>4. ASSUME NEW s \in Seq(V) PROVE s \in T
  <2>1. Len(s) \in Nat /\ Len(s) \in A
    BY <1>3
  <2> QED
    BY <2>1 DEF A
<1> QED
  BY <1>4

\* Sequences of elements are joined to a sequence of elements.
LEMMA FlatType ==
    ASSUME NEW V
    PROVE  \A ss \in Seq(Seq(V)) : FlattenSeq(ss) \in Seq(V)
<1> DEFINE T == {ss \in Seq(Seq(V)) : FlattenSeq(ss) \in Seq(V)}
<1>1. << >> \in T
  <2>1. << >> \in Seq(Seq(V)) /\ << >> \in Seq(V)
    OBVIOUS
  <2> QED
    BY <2>1, FlatNone
<1>2. ASSUME NEW ss \in Seq(Seq(V)), NEW x \in Seq(V), ss \in T
      PROVE  Append(ss, x) \in T
  <2>1. FlattenSeq(Append(ss, x)) = FlattenSeq(ss) \o x
    BY FlatAppend
  <2>2. FlattenSeq(ss) \in Seq(V)
    BY <1>2
  <2>3. FlattenSeq(ss) \o x \in Seq(V)
    BY <2>2
  <2>4. Append(ss, x) \in Seq(Seq(V))
    OBVIOUS
  <2> QED
    BY <2>1, <2>3, <2>4
<1> HIDE DEF T
<1>3. \A ss \in Seq(Seq(V)) : ss \in T
  BY <1>1, <1>2, SeqInduction
<1> QED
  BY <1>3 DEF T

\* Appending to the second of two sequences is appending to both.
LEMMA ConcatAppend ==
    ASSUME NEW V, NEW s \in Seq(V), NEW t \in Seq(V), NEW x \in V
    PROVE  s \o Append(t, x) = Append(s \o t, x)
OBVIOUS

\* Two sequences of sequences are joined one after the other.
LEMMA FlatConcat ==
    ASSUME NEW V, NEW ss \in Seq(Seq(V))
    PROVE  \A tt \in Seq(Seq(V)) : FlattenSeq(ss \o tt) = FlattenSeq(ss) \o FlattenSeq(tt)
<1> DEFINE T == {tt \in Seq(Seq(V)) : FlattenSeq(ss \o tt) = FlattenSeq(ss) \o FlattenSeq(tt)}
<1>0. FlattenSeq(ss) \in Seq(V)
  BY FlatType
<1>1. << >> \in T
  <2>1. ss \o << >> = ss
    OBVIOUS
  <2>2. FlattenSeq(ss) \o << >> = FlattenSeq(ss)
    BY <1>0
  <2>3. << >> \in Seq(Seq(V))
    OBVIOUS
  <2> QED
    BY <2>1, <2>2, <2>3, FlatNone
<1>2. ASSUME NEW tt \in Seq(Seq(V)), NEW x \in Seq(V), tt \in T
      PROVE  Append(tt, x) \in T
  <2>1. FlattenSeq(Append(tt, x)) = FlattenSeq(tt) \o x
    BY FlatAppend
  <2>2. ss \o Append(tt, x) = Append(ss \o tt, x) /\ ss \o tt \in Seq(Seq(V))
    BY ConcatAppend
  <2>3. FlattenSeq(Append(ss \o tt, x)) = FlattenSeq(ss \o tt) \o x
    BY <2>2, FlatAppend
  <2>4. FlattenSeq(ss \o tt) = FlattenSeq(ss) \o FlattenSeq(tt)
    BY <1>2
  <2>5. FlattenSeq(tt) \in Seq(V)
    BY FlatType
  <2>6. (FlattenSeq(ss) \o FlattenSeq(tt)) \o x = FlattenSeq(ss) \o (FlattenSeq(tt) \o x)
    BY <1>0, <2>5, ConcatAssociative
  <2>7. Append(tt, x) \in Seq(Seq(V))
    OBVIOUS
  <2> QED
    BY <2>1, <2>2, <2>3, <2>4, <2>6, <2>7
<1> HIDE DEF T
<1>3. \A tt \in Seq(Seq(V)) : tt \in T
  BY <1>1, <1>2, SeqInduction
<1> QED
  BY <1>3 DEF T

\* g maps s with x at its end, as f maps s, and has y for x.
MapsOneMore(g, y, f, s, x) ==
    /\ DOMAIN f = DOMAIN s /\ g = [k \in DOMAIN Append(s, x) |-> g[k]]
    /\ \A k \in DOMAIN s : g[k] = f[k]
    /\ g[Len(s) + 1] = y

\* What is made of each element, of a sequence with one element more.
LEMMA MapAppend ==
    ASSUME NEW V, NEW W, NEW s \in Seq(V), NEW x \in V, NEW f \in Seq(W), NEW g, NEW y \in W,
           MapsOneMore(g, y, f, s, x)
    PROVE  g = Append(f, y)
<1>0. /\ DOMAIN f = DOMAIN s /\ g = [k \in DOMAIN Append(s, x) |-> g[k]]
      /\ \A k \in DOMAIN s : g[k] = f[k]
      /\ g[Len(s) + 1] = y
  BY DEF MapsOneMore
<1> DEFINE n == Len(s)
           m == n + 1
           h == Append(f, y)
<1>1. n \in Nat /\ DOMAIN s = 1 .. n /\ DOMAIN Append(s, x) = 1 .. m
  OBVIOUS
<1>2. DOMAIN f = 1 .. n /\ Len(f) = n
  BY <1>0, <1>1, LenProperties
<1>3. h \in Seq(W) /\ Len(h) = m /\ DOMAIN h = 1 .. m
  BY <1>1, <1>2, AppendProperties, LenProperties
<1>4. \A k \in 1 .. n : h[k] = f[k]
  BY <1>1, <1>2, AppendProperties
<1>5. h[m] = y
  BY <1>1, <1>2, AppendProperties
<1> HIDE DEF h
<1>6. ASSUME NEW k \in 1 .. m PROVE g[k] = h[k]
  <2>1. CASE k \in 1 .. n
    BY <1>0, <1>1, <1>4, <2>1
  <2>2. CASE k = m
    BY <1>0, <1>5, <2>2
  <2>3. k \in 1 .. n \/ k = m
    BY <1>1
  <2> QED
    BY ONLY <2>1, <2>2, <2>3
<1>7. h = [k \in 1 .. m |-> h[k]]
  BY <1>3
<1> HIDE DEF m
<1>8. g = [k \in 1 .. m |-> g[k]]
  BY <1>0, <1>1
<1> QED
  BY <1>6, <1>7, <1>8 DEF h

\* A function with the values that a recursive definition asks for is the iteration.
LEMMA PrefixOnly ==
    ASSUME NEW S, NEW x \in S, NEW step, NEW n \in Nat, NEW f, NEW g,
           Prefix(g, S, x, step, n), f = [k \in 0 .. n |-> f[k]], f[0] = x,
           \A k \in 1 .. n : f[k - 1] \in S => f[k] = step[k][f[k - 1]]
    PROVE  f = g
<1> DEFINE T == {k \in Nat : k <= n => f[k] = g[k]}
<1>1. 0 \in T
  BY DEF Prefix
<1>2. ASSUME NEW k \in Nat, k \in T PROVE k + 1 \in T
  <2> DEFINE m == k + 1
  <2>1. m \in Nat /\ m - 1 = k /\ (m <= n => m \in 1 .. n /\ k \in 0 .. n)
    OBVIOUS
  <2> HIDE DEF m
  <2> SUFFICES ASSUME m <= n PROVE f[m] = g[m]
    BY <2>1 DEF m
  <2>2. f[m - 1] = g[m - 1]
    BY <1>2, <2>1
  <2>3. g[m - 1] \in S /\ g[m] = step[m][g[m - 1]]
    BY <2>1 DEF Prefix
  <2> QED
    BY <2>1, <2>2, <2>3
<1> HIDE DEF T
<1>3. \A k \in Nat : k \in T
  BY <1>1, <1>2, Induction
<1>4. \A k \in 0 .. n : f[k] = g[k]
  BY <1>3 DEF T
<1>5. g = [k \in 0 .. n |-> g[k]]
  BY DEF Prefix
<1> QED
  BY <1>4, <1>5

-----------------------------------------------------------------------------
(* Sums.                                                                   *)

SumAt(s, f, k) == IF k = 0 THEN 0 ELSE f[k - 1] + s[k]
Adds(s) == [k \in Nat |-> [y \in Nat |-> IF k \in 1 .. Len(s) THEN y + s[k] ELSE y]]

\* The additions that SumOf goes through.
LEMMA AddsType ==
    ASSUME NEW s \in Seq(Nat)
    PROVE  /\ Adds(s) \in [Nat -> [Nat -> Nat]]
           /\ \A k \in 1 .. Len(s), y \in Nat : Adds(s)[k][y] = y + s[k]
<1>1. \A k \in 1 .. Len(s) : k \in Nat /\ s[k] \in Nat
  OBVIOUS
<1> QED
  BY <1>1 DEF Adds

\* SumOf is the last value of an iteration of additions.
LEMMA SumIs ==
    ASSUME NEW s \in Seq(Nat)
    PROVE  \E f : Prefix(f, Nat, 0, Adds(s), Len(s)) /\ SumOf(s) = f[Len(s)]
<1> DEFINE n == Len(s)
<1>0. n \in Nat
  OBVIOUS
<1>1. PICK g : Prefix(g, Nat, 0, Adds(s), n)
  BY <1>0, AddsType, PrefixExists
<1> HIDE DEF n
<1>2. g = [k \in 0 .. n |-> SumAt(s, g, k)]
  <2>1. g = [k \in 0 .. n |-> g[k]] /\ g[0] = 0
    BY <1>1 DEF Prefix
  <2>2. ASSUME NEW k \in 0 .. n PROVE g[k] = SumAt(s, g, k)
    <3>1. CASE k = 0
      BY <2>1, <3>1 DEF SumAt
    <3>2. CASE k # 0
      <4>1. k \in 1 .. n /\ k - 1 \in 0 .. n
        BY <1>0, <3>2
      <4>2. g[k] = Adds(s)[k][g[k - 1]] /\ g[k - 1] \in Nat
        BY <1>1, <4>1 DEF Prefix
      <4>3. g[k] = g[k - 1] + s[k]
        BY <4>1, <4>2, AddsType DEF n
      <4> QED
        BY <3>2, <4>3 DEF SumAt
    <3> QED
      BY <3>1, <3>2
  <2> QED
    BY <2>1, <2>2
<1> DEFINE f == CHOOSE h : h = [k \in 0 .. n |-> IF k = 0 THEN 0 ELSE h[k - 1] + s[k]]
<1>3. f = [k \in 0 .. n |-> SumAt(s, f, k)]
  <2>1. \E h : h = [k \in 0 .. n |-> IF k = 0 THEN 0 ELSE h[k - 1] + s[k]]
    BY ONLY <1>2 DEF SumAt
  <2>2. f = [k \in 0 .. n |-> IF k = 0 THEN 0 ELSE f[k - 1] + s[k]]
    BY ONLY <2>1
  <2> QED
    BY ONLY <2>2 DEF SumAt
<1>4. SumOf(s) = f[n]
  BY DEF SumOf, n
<1> HIDE DEF f
<1>5. f = g
  <2>1. \A k \in 0 .. n : f[k] = SumAt(s, f, k)
    BY <1>3
  <2>2. f = [k \in 0 .. n |-> f[k]]
    BY <1>3
  <2>3. f[0] = 0
    BY <1>0, <2>1 DEF SumAt
  <2>4. ASSUME NEW k \in 1 .. n, f[k - 1] \in Nat PROVE f[k] = Adds(s)[k][f[k - 1]]
    <3>1. k \in 0 .. n /\ k # 0
      BY <1>0
    <3>2. f[k] = f[k - 1] + s[k]
      BY <2>1, <3>1 DEF SumAt
    <3> QED
      BY <2>4, <3>2, AddsType DEF n
  <2> QED
    BY <1>0, <1>1, <2>2, <2>3, <2>4, PrefixOnly
<1> QED
  BY <1>1, <1>4, <1>5 DEF n

\* No numbers have the sum 0.
LEMMA SumNone == SumOf(<< >>) = 0
<1>1. << >> \in Seq(Nat) /\ Len(<< >>) = 0
  OBVIOUS
<1>2. PICK f : Prefix(f, Nat, 0, Adds(<< >>), Len(<< >>)) /\ SumOf(<< >>) = f[Len(<< >>)]
  BY <1>1, SumIs
<1> QED
  BY <1>1, <1>2 DEF Prefix

\* A sum with one number more.
LEMMA SumAppend ==
    ASSUME NEW s \in Seq(Nat), NEW x \in Nat
    PROVE  SumOf(s) \in Nat /\ SumOf(Append(s, x)) = SumOf(s) + x
<1> DEFINE t == Append(s, x)
           n == Len(s)
           m == n + 1
<1>0. /\ n \in Nat /\ m \in Nat /\ Len(t) = m /\ n <= m /\ m - 1 = n /\ m \in 1 .. m
      /\ n \in 0 .. n /\ t \in Seq(Nat)
  OBVIOUS
<1>1. t[m] = x /\ \A k \in 1 .. n : s[k] = t[k]
  OBVIOUS
<1> HIDE DEF t, m
<1>2. PICK f : Prefix(f, Nat, 0, Adds(s), n) /\ SumOf(s) = f[n]
  BY SumIs
<1>3. PICK g : Prefix(g, Nat, 0, Adds(t), m) /\ SumOf(t) = g[m]
  <2>1. \E g : Prefix(g, Nat, 0, Adds(t), Len(t)) /\ SumOf(t) = g[Len(t)]
    BY <1>0, SumIs
  <2> QED
    BY <1>0, <2>1
<1>4. ASSUME NEW k \in 1 .. n PROVE Adds(s)[k] = Adds(t)[k]
  <2>1. k \in Nat /\ k \in 1 .. Len(s) /\ k \in 1 .. Len(t) /\ s[k] = t[k]
    BY <1>0, <1>1
  <2> QED
    BY <2>1 DEF Adds
<1>5. f[n] = g[n]
  <2>1. \A k \in Nat : k <= n /\ k <= m => f[k] = g[k]
    <3>1. n \in Nat /\ m \in Nat
      BY <1>0
    <3>2. Prefix(f, Nat, 0, Adds(s), n) /\ Prefix(g, Nat, 0, Adds(t), m)
      BY <1>2, <1>3
    <3>3. Agree(Adds(s), Adds(t), n)
      BY <1>4 DEF Agree
    <3> HIDE DEF n
    <3> QED
      BY ONLY <3>1, <3>2, <3>3, PrefixUnique
  <2> QED
    BY <1>0, <2>1
<1>6. f[n] \in Nat
  BY <1>0, <1>2 DEF Prefix
<1>7. g[m] = Adds(t)[m][g[n]]
  BY <1>0, <1>3 DEF Prefix
<1>8. g[m] = g[n] + x
  <2>1. Adds(t)[m][g[n]] = g[n] + t[m]
    BY <1>0, <1>5, <1>6, AddsType
  <2> QED
    BY <1>1, <1>7, <2>1
<1> QED
  BY <1>2, <1>3, <1>5, <1>6, <1>8 DEF t

-----------------------------------------------------------------------------
(* Segments.                                                                 *)

\* Segments inside their sources.
ValidSegments ==
    {s \in [source : Seq(Chars), offset : Nat, len : Nat] : s.offset + s.len <= Len(s.source)}

\* The lengths of segments, and what each reads as.
Lens(segments) == [k \in DOMAIN segments |-> segments[k].len]
Reads(segments) == [k \in DOMAIN segments |-> Read(segments[k])]

\* The fields of a segment that from_segments has let pass.
LEMMA SegmentFields ==
    ASSUME NEW s \in ValidSegments
    PROVE  s.source \in Seq(Chars) /\ s.offset \in Nat /\ s.len \in Nat
           /\ s.offset + s.len <= Len(s.source) /\ Len(s.source) \in Nat
<1>1. s \in [source : Seq(Chars), offset : Nat, len : Nat] /\ s.offset + s.len <= Len(s.source)
  BY DEF ValidSegments
<1>2. s.source \in Seq(Chars) /\ s.offset \in Nat /\ s.len \in Nat
  BY ONLY <1>1
<1> QED
  BY <1>1, <1>2

\* The lengths of segments are numbers, as many as the segments.
LEMMA LensType ==
    ASSUME NEW ss \in Seq(ValidSegments)
    PROVE  Lens(ss) \in Seq(Nat) /\ DOMAIN Lens(ss) = DOMAIN ss
<1>1. \A k \in DOMAIN ss : ss[k] \in ValidSegments
  OBVIOUS
<1>2. \A k \in DOMAIN ss : ss[k].len \in Nat
  BY <1>1, SegmentFields
<1>3. DOMAIN ss = 1 .. Len(ss) /\ Len(ss) \in Nat
  OBVIOUS
<1>4. [k \in 1 .. Len(ss) |-> ss[k].len] \in [1 .. Len(ss) -> Nat]
  BY <1>2, <1>3
<1>5. Lens(ss) \in [1 .. Len(ss) -> Nat]
  BY ONLY <1>3, <1>4 DEF Lens
<1> QED
  BY <1>3, <1>5, SeqDef

\* The length of segments with one more.
LEMMA TotalAppend ==
    ASSUME NEW ss \in Seq(ValidSegments), NEW x \in ValidSegments
    PROVE  TotalLen(ss) \in Nat /\ TotalLen(Append(ss, x)) = TotalLen(ss) + x.len
<1>1. Lens(ss) \in Seq(Nat) /\ DOMAIN Lens(ss) = DOMAIN ss /\ x.len \in Nat
  BY LensType, SegmentFields
<1>2. Lens(Append(ss, x)) = Append(Lens(ss), x.len)
  <2>1. /\ \A k \in DOMAIN ss : k \in DOMAIN Append(ss, x) /\ Append(ss, x)[k] = ss[k]
        /\ Len(ss) + 1 \in DOMAIN Append(ss, x) /\ Append(ss, x)[Len(ss) + 1] = x
    OBVIOUS
  <2>2. /\ \A k \in DOMAIN ss : Lens(Append(ss, x))[k] = Lens(ss)[k]
        /\ Lens(Append(ss, x))[Len(ss) + 1] = x.len
        /\ Lens(Append(ss, x)) = [k \in DOMAIN Append(ss, x) |-> Lens(Append(ss, x))[k]]
    BY <2>1 DEF Lens
  <2>3. MapsOneMore(Lens(Append(ss, x)), x.len, Lens(ss), ss, x)
    BY ONLY <1>1, <2>2 DEF MapsOneMore
  <2> QED
    BY <1>1, <2>3, MapAppend
<1>3. TotalLen(ss) = SumOf(Lens(ss)) /\ TotalLen(Append(ss, x)) = SumOf(Lens(Append(ss, x)))
  BY DEF TotalLen, Lens
<1> QED
  BY <1>1, <1>2, <1>3, SumAppend

\* No segments have no bytes.
LEMMA TotalNone == TotalLen(<< >>) = 0
<1>1. [k \in DOMAIN << >> |-> << >>[k].len] = << >>
  OBVIOUS
<1> QED
  BY <1>1, SumNone DEF TotalLen

\* The total length of segments is a number.
LEMMA TotalType ==
    ASSUME NEW ss \in Seq(ValidSegments)
    PROVE  TotalLen(ss) \in Nat
<1>1. CASE ss = << >>
  BY <1>1, TotalNone
<1>2. CASE ss # << >>
  <2>1. ss[1] \in ValidSegments
    BY <1>2
  <2> QED
    BY <2>1, TotalAppend
<1> QED
  BY <1>1, <1>2

\* Reading a segment gives as many bytes as its length, from its offset on.
LEMMA ReadType ==
    ASSUME NEW x \in ValidSegments
    PROVE  /\ Read(x) \in Seq(Chars) /\ Len(Read(x)) = x.len
           /\ \A i \in 1 .. x.len : Read(x)[i] = x.source[x.offset + i]
<1>1. x.source \in Seq(Chars) /\ x.offset \in Nat /\ x.len \in Nat
      /\ x.offset + x.len <= Len(x.source) /\ Len(x.source) \in Nat
  BY SegmentFields
<1> DEFINE a == x.offset + 1
           b == x.offset + x.len
<1>2. a \in Int /\ b \in Int /\ (a <= b => b - a + 1 = x.len) /\ (~(a <= b) => x.len = 0)
      /\ b - a + 1 = x.len /\ \A i \in 1 .. x.len : a + i - 1 = x.offset + i
  <2> DEFINE o == x.offset
             n == x.len
  <2>0. o \in Nat /\ n \in Nat
    BY ONLY <1>1
  <2> HIDE DEF o, n
  <2>1. /\ o + 1 \in Int /\ o + n \in Int
        /\ o + 1 <= o + n => o + n - (o + 1) + 1 = n
        /\ ~(o + 1 <= o + n) => n = 0
        /\ o + n - (o + 1) + 1 = n /\ \A i \in 1 .. n : o + 1 + i - 1 = o + i
    BY ONLY <2>0
  <2>2. a = o + 1 /\ b = o + n /\ x.len = n /\ x.offset = o
    BY DEF o, n
  <2> HIDE DEF a, b
  <2>3. b - a + 1 = x.len
    BY ONLY <2>0, <2>2
  <2> QED
    BY ONLY <2>1, <2>2, <2>3
<1>3. \A i \in a .. b : x.source[i] \in Chars
  BY <1>1
<1>4. Read(x) = SubSeq(x.source, a, b)
  BY DEF Read
<1> HIDE DEF a, b
<1>5. /\ SubSeq(x.source, a, b) \in Seq(Chars)
      /\ Len(SubSeq(x.source, a, b)) = IF a <= b THEN b - a + 1 ELSE 0
      /\ \A i \in 1 .. b - a + 1 : SubSeq(x.source, a, b)[i] = x.source[a + i - 1]
  BY ONLY <1>2, <1>3, SubSeqProperties
<1> QED
  BY <1>2, <1>4, <1>5

\* Reading segments one by one gives as many sequences of bytes.
LEMMA ReadsType ==
    ASSUME NEW ss \in Seq(ValidSegments)
    PROVE  Reads(ss) \in Seq(Seq(Chars)) /\ DOMAIN Reads(ss) = DOMAIN ss
<1>1. \A k \in DOMAIN ss : ss[k] \in ValidSegments
  OBVIOUS
<1>2. \A k \in DOMAIN ss : Read(ss[k]) \in Seq(Chars)
  BY <1>1, ReadType
<1>3. DOMAIN ss = 1 .. Len(ss) /\ Len(ss) \in Nat
  OBVIOUS
<1>4. [k \in 1 .. Len(ss) |-> Read(ss[k])] \in [1 .. Len(ss) -> Seq(Chars)]
  BY <1>2, <1>3
<1>5. Reads(ss) \in [1 .. Len(ss) -> Seq(Chars)]
  BY ONLY <1>3, <1>4 DEF Reads
<1> QED
  BY <1>3, <1>5, SeqDef

\* Reading segments gives bytes.
LEMMA ReadAllType ==
    ASSUME NEW ss \in Seq(ValidSegments)
    PROVE  ReadAll(ss) \in Seq(Chars)
<1>1. ReadAll(ss) = FlattenSeq(Reads(ss))
  BY DEF ReadAll, Reads
<1> QED
  BY <1>1, ReadsType, FlatType

\* Reading segments with one more.
LEMMA ReadAllAppend ==
    ASSUME NEW ss \in Seq(ValidSegments), NEW x \in ValidSegments
    PROVE  ReadAll(Append(ss, x)) = ReadAll(ss) \o Read(x)
<1>1. Reads(ss) \in Seq(Seq(Chars)) /\ DOMAIN Reads(ss) = DOMAIN ss /\ Read(x) \in Seq(Chars)
  BY ReadsType, ReadType
<1>2. Reads(Append(ss, x)) = Append(Reads(ss), Read(x))
  <2>1. /\ \A k \in DOMAIN ss : k \in DOMAIN Append(ss, x) /\ Append(ss, x)[k] = ss[k]
        /\ Len(ss) + 1 \in DOMAIN Append(ss, x) /\ Append(ss, x)[Len(ss) + 1] = x
    OBVIOUS
  <2>2. /\ \A k \in DOMAIN ss : Reads(Append(ss, x))[k] = Reads(ss)[k]
        /\ Reads(Append(ss, x))[Len(ss) + 1] = Read(x)
        /\ Reads(Append(ss, x)) = [k \in DOMAIN Append(ss, x) |-> Reads(Append(ss, x))[k]]
    BY <2>1 DEF Reads
  <2>3. MapsOneMore(Reads(Append(ss, x)), Read(x), Reads(ss), ss, x)
    BY ONLY <1>1, <2>2 DEF MapsOneMore
  <2> QED
    BY <1>1, <2>3, MapAppend
<1>3. ReadAll(ss) = FlattenSeq(Reads(ss)) /\ ReadAll(Append(ss, x)) = FlattenSeq(Reads(Append(ss, x)))
  BY DEF ReadAll, Reads
<1> QED
  BY <1>1, <1>2, <1>3, FlatAppend

\* Reading no segments gives no bytes.
LEMMA ReadAllNone == ReadAll(<< >>) = << >>
<1>1. [k \in DOMAIN << >> |-> Read(<< >>[k])] = << >>
  OBVIOUS
<1> QED
  BY <1>1, FlatNone DEF ReadAll

\* The bytes of segments are as many as their lengths say.
LEMMA ReadAllLen ==
    \A ss \in Seq(ValidSegments) : Len(ReadAll(ss)) = TotalLen(ss)
<1> DEFINE T == {ss \in Seq(ValidSegments) : Len(ReadAll(ss)) = TotalLen(ss)}
<1>1. << >> \in T
  <2>1. << >> \in Seq(ValidSegments) /\ Len(<< >>) = 0
    OBVIOUS
  <2> QED
    BY <2>1, ReadAllNone, TotalNone
<1>2. ASSUME NEW ss \in Seq(ValidSegments), NEW x \in ValidSegments, ss \in T
      PROVE  Append(ss, x) \in T
  <2>1. ReadAll(ss) \in Seq(Chars) /\ Read(x) \in Seq(Chars) /\ Len(Read(x)) = x.len
    BY ReadAllType, ReadType
  <2>2. Len(ReadAll(ss) \o Read(x)) = Len(ReadAll(ss)) + Len(Read(x))
    BY <2>1
  <2>3. Append(ss, x) \in Seq(ValidSegments)
    OBVIOUS
  <2> QED
    BY <1>2, <2>1, <2>2, <2>3, ReadAllAppend, TotalAppend
<1> HIDE DEF T
<1>3. \A ss \in Seq(ValidSegments) : ss \in T
  BY <1>1, <1>2, SeqInduction
<1> QED
  BY <1>3 DEF T

\* The smaller and the larger of two numbers.
LEMMA LeastMost ==
    ASSUME NEW a \in Int, NEW b \in Int
    PROVE  /\ Least(a, b) \in {a, b} /\ Least(a, b) <= a /\ Least(a, b) <= b
           /\ Most(a, b) \in {a, b} /\ a <= Most(a, b) /\ b <= Most(a, b)
BY DEF Least, Most

\* Appending to nothing gives one element.
LEMMA AppendOne ==
    ASSUME NEW x
    PROVE  Append(<< >>, x) = <<x>>
OBVIOUS

\* Reading one segment.
LEMMA ReadAllOne ==
    ASSUME NEW x \in ValidSegments
    PROVE  ReadAll(<<x>>) = Read(x) /\ TotalLen(<<x>>) = x.len
<1>1. << >> \in Seq(ValidSegments) /\ Append(<< >>, x) = <<x>>
  OBVIOUS
<1>2. ReadAll(<<x>>) = << >> \o Read(x) /\ TotalLen(<<x>>) = 0 + x.len
  BY <1>1, ReadAllAppend, TotalAppend, ReadAllNone, TotalNone
<1>3. Read(x) \in Seq(Chars) /\ x.len \in Nat
  BY ReadType, SegmentFields
<1>4. << >> \o Read(x) = Read(x) /\ 0 + x.len = x.len
  BY <1>3
<1> QED
  BY <1>2, <1>4

\* Reading and measuring two rows of segments.
LEMMA ReadAllConcat ==
    ASSUME NEW a \in Seq(ValidSegments)
    PROVE  \A b \in Seq(ValidSegments) : /\ ReadAll(a \o b) = ReadAll(a) \o ReadAll(b)
                                         /\ TotalLen(a \o b) = TotalLen(a) + TotalLen(b)
<1> DEFINE T == {b \in Seq(ValidSegments) : /\ ReadAll(a \o b) = ReadAll(a) \o ReadAll(b)
                                            /\ TotalLen(a \o b) = TotalLen(a) + TotalLen(b)}
<1>0. ReadAll(a) \in Seq(Chars) /\ TotalLen(a) \in Nat
  BY ReadAllType, TotalType
<1>1. << >> \in T
  <2>1. << >> \in Seq(ValidSegments) /\ a \o << >> = a
    OBVIOUS
  <2>2. ReadAll(a) \o << >> = ReadAll(a) /\ TotalLen(a) + 0 = TotalLen(a)
    BY <1>0
  <2> QED
    BY <2>1, <2>2, ReadAllNone, TotalNone
<1>2. ASSUME NEW b \in Seq(ValidSegments), NEW x \in ValidSegments, b \in T
      PROVE  Append(b, x) \in T
  <2>1. a \o Append(b, x) = Append(a \o b, x) /\ a \o b \in Seq(ValidSegments)
        /\ Append(b, x) \in Seq(ValidSegments)
    BY ConcatAppend
  <2>2. /\ ReadAll(Append(a \o b, x)) = ReadAll(a \o b) \o Read(x)
        /\ TotalLen(Append(a \o b, x)) = TotalLen(a \o b) + x.len
        /\ ReadAll(Append(b, x)) = ReadAll(b) \o Read(x)
        /\ TotalLen(Append(b, x)) = TotalLen(b) + x.len
    BY <2>1, ReadAllAppend, TotalAppend
  <2>3. ReadAll(a \o b) = ReadAll(a) \o ReadAll(b) /\ TotalLen(a \o b) = TotalLen(a) + TotalLen(b)
    BY <1>2
  <2>4. ReadAll(b) \in Seq(Chars) /\ Read(x) \in Seq(Chars) /\ TotalLen(b) \in Nat /\ x.len \in Nat
    BY ReadAllType, ReadType, TotalType, SegmentFields
  <2>5. (ReadAll(a) \o ReadAll(b)) \o Read(x) = ReadAll(a) \o (ReadAll(b) \o Read(x))
    <3>1. ReadAll(a) \in Seq(Chars) /\ ReadAll(b) \in Seq(Chars) /\ Read(x) \in Seq(Chars)
      BY <1>0, <2>4
    <3> QED
      BY ONLY <3>1, ConcatAssociative
  <2>6. (TotalLen(a) + TotalLen(b)) + x.len = TotalLen(a) + (TotalLen(b) + x.len)
    BY <1>0, <2>4
  <2> QED
    BY <2>1, <2>2, <2>3, <2>5, <2>6
<1> HIDE DEF T
<1>3. \A b \in Seq(ValidSegments) : b \in T
  BY <1>1, <1>2, SeqInduction
<1> QED
  BY <1>3 DEF T

\* With a segment more, the others begin where they began, and it begins at their end.
LEMMA StartsAppend ==
    ASSUME NEW V, NEW ss \in Seq(V), NEW x \in V
    PROVE  /\ \A k \in DOMAIN ss : StartOf(Append(ss, x), k) = StartOf(ss, k)
           /\ StartOf(Append(ss, x), Len(ss) + 1) = TotalLen(ss)
<1>1. ASSUME NEW n \in 0 .. Len(ss)
      PROVE  SubSeq(Append(ss, x), 1, n) = SubSeq(ss, 1, n)
  OBVIOUS
<1>2. ASSUME NEW k \in DOMAIN ss PROVE StartOf(Append(ss, x), k) = StartOf(ss, k)
  <2>1. k - 1 \in 0 .. Len(ss)
    OBVIOUS
  <2> QED
    BY <1>1, <2>1 DEF StartOf
<1>3. SubSeq(Append(ss, x), 1, Len(ss)) = ss
  <2>1. SubSeq(ss, 1, Len(ss)) = ss /\ Len(ss) \in 0 .. Len(ss)
    OBVIOUS
  <2> QED
    BY <1>1, <2>1
<1>4. StartOf(Append(ss, x), Len(ss) + 1) = TotalLen(ss)
  <2> DEFINE m == Len(ss) + 1
  <2>1. m - 1 = Len(ss)
    OBVIOUS
  <2> HIDE DEF m
  <2>2. StartOf(Append(ss, x), m) = TotalLen(ss)
    BY <1>3, <2>1 DEF StartOf
  <2> QED
    BY <2>2 DEF m
<1> QED
  BY <1>2, <1>4

\* What is cut out of a segment is a segment or nothing.
LEMMA PieceType ==
    ASSUME NEW x \in ValidSegments, NEW start \in Nat, NEW from \in Nat, NEW to \in Nat
    PROVE  Piece(x, start, from, to) \in Seq(ValidSegments) /\ Len(Piece(x, start, from, to)) <= 1
<1> DEFINE first == Most(from, start)
           last == Least(to, start + x.len)
           p == [source |-> x.source, offset |-> x.offset + (first - start), len |-> last - first]
<1>1. x.source \in Seq(Chars) /\ x.offset \in Nat /\ x.len \in Nat
      /\ x.offset + x.len <= Len(x.source) /\ Len(x.source) \in Nat
  BY SegmentFields
<1>2. first \in Nat /\ last \in Int /\ start <= first /\ last <= start + x.len
  BY <1>1, LeastMost DEF Least, Most
<1>3. CASE first >= last
  <2>1. Piece(x, start, from, to) = << >>
    BY <1>3 DEF Piece
  <2> QED
    BY <2>1
<1>4. CASE ~(first >= last)
  <2>1. Piece(x, start, from, to) = <<p>>
    BY <1>4 DEF Piece
  <2> HIDE DEF first, last
  <2>2. x.offset + (first - start) \in Nat /\ last - first \in Nat
        /\ x.offset + (first - start) + (last - first) <= Len(x.source)
    <3>1. ASSUME NEW o \in Nat, NEW l \in Nat, NEW all \in Nat, o + l <= all,
                 NEW f \in Nat, NEW t \in Int, start <= f, t <= start + l, ~(f >= t)
          PROVE  o + (f - start) \in Nat /\ t - f \in Nat /\ o + (f - start) + (t - f) <= all
      BY ONLY <3>1, start \in Nat
    <3> QED
      BY ONLY <1>1, <1>2, <1>4, <3>1
  <2>3. p \in ValidSegments
    BY <1>1, <2>2 DEF ValidSegments
  <2> HIDE DEF p
  <2> QED
    BY <2>1, <2>3
<1> QED
  BY <1>3, <1>4

\* What is cut out of each segment.
PieceSeqs(segments, from, to) ==
    [k \in DOMAIN segments |-> Piece(segments[k], StartOf(segments, k), from, to)]

\* A segment begins at a number.
LEMMA StartType ==
    ASSUME NEW ss \in Seq(ValidSegments), NEW k \in DOMAIN ss
    PROVE  StartOf(ss, k) \in Nat
<1>1. SubSeq(ss, 1, k - 1) \in Seq(ValidSegments)
  OBVIOUS
<1> QED
  BY <1>1, TotalType DEF StartOf

\* What is cut out of each segment.
LEMMA PieceSeqsType ==
    ASSUME NEW ss \in Seq(ValidSegments), NEW from \in Nat, NEW to \in Nat
    PROVE  /\ PieceSeqs(ss, from, to) \in Seq(Seq(ValidSegments))
           /\ DOMAIN PieceSeqs(ss, from, to) = DOMAIN ss
<1>1. \A k \in DOMAIN ss : ss[k] \in ValidSegments
  OBVIOUS
<1>2. \A k \in DOMAIN ss : Piece(ss[k], StartOf(ss, k), from, to) \in Seq(ValidSegments)
  BY <1>1, PieceType, StartType
<1>3. DOMAIN ss = 1 .. Len(ss) /\ Len(ss) \in Nat
  OBVIOUS
<1>4. [k \in 1 .. Len(ss) |-> Piece(ss[k], StartOf(ss, k), from, to)]
          \in [1 .. Len(ss) -> Seq(ValidSegments)]
  BY <1>2, <1>3
<1>5. PieceSeqs(ss, from, to) \in [1 .. Len(ss) -> Seq(ValidSegments)]
  BY ONLY <1>3, <1>4 DEF PieceSeqs
<1> QED
  BY <1>3, <1>5, SeqDef

\* Cutting segments with one more.
LEMMA PiecesAppend ==
    ASSUME NEW ss \in Seq(ValidSegments), NEW x \in ValidSegments, NEW from \in Nat, NEW to \in Nat
    PROVE  Pieces(Append(ss, x), from, to) =
               Pieces(ss, from, to) \o Piece(x, TotalLen(ss), from, to)
<1> DEFINE t == Append(ss, x)
           p == Piece(x, TotalLen(ss), from, to)
<1>1. /\ PieceSeqs(ss, from, to) \in Seq(Seq(ValidSegments))
      /\ DOMAIN PieceSeqs(ss, from, to) = DOMAIN ss
      /\ p \in Seq(ValidSegments)
  BY PieceSeqsType, PieceType, TotalType
<1>2. PieceSeqs(t, from, to) = Append(PieceSeqs(ss, from, to), p)
  <2>1. /\ \A k \in DOMAIN ss : k \in DOMAIN t /\ t[k] = ss[k]
        /\ Len(ss) + 1 \in DOMAIN t /\ t[Len(ss) + 1] = x
    OBVIOUS
  <2>2. /\ \A k \in DOMAIN ss : StartOf(t, k) = StartOf(ss, k)
        /\ StartOf(t, Len(ss) + 1) = TotalLen(ss)
    BY StartsAppend
  <2> HIDE DEF p, t
  <2>3. /\ \A k \in DOMAIN ss : PieceSeqs(t, from, to)[k] = PieceSeqs(ss, from, to)[k]
        /\ PieceSeqs(t, from, to)[Len(ss) + 1] = p
        /\ PieceSeqs(t, from, to) = [k \in DOMAIN t |-> PieceSeqs(t, from, to)[k]]
    BY <2>1, <2>2 DEF PieceSeqs, p
  <2>4. MapsOneMore(PieceSeqs(t, from, to), p, PieceSeqs(ss, from, to), ss, x)
    BY ONLY <1>1, <2>3 DEF MapsOneMore, t
  <2> QED
    BY <1>1, <2>4, MapAppend
<1>3. /\ Pieces(ss, from, to) = FlattenSeq(PieceSeqs(ss, from, to))
      /\ Pieces(t, from, to) = FlattenSeq(PieceSeqs(t, from, to))
  BY DEF Pieces, PieceSeqs
<1> HIDE DEF p
<1> QED
  BY <1>1, <1>2, <1>3, FlatAppend DEF p

\* Nothing is cut out of no segments.
LEMMA PiecesNone ==
    ASSUME NEW from, NEW to
    PROVE  Pieces(<< >>, from, to) = << >>
<1>1. [k \in DOMAIN << >> |-> Piece(<< >>[k], StartOf(<< >>, k), from, to)] = << >>
  OBVIOUS
<1> QED
  BY <1>1, FlatNone DEF Pieces

\* What is cut out of segments is segments, and not more of them.
LEMMA PiecesType ==
    ASSUME NEW from \in Nat, NEW to \in Nat
    PROVE  \A ss \in Seq(ValidSegments) : /\ Pieces(ss, from, to) \in Seq(ValidSegments)
                                          /\ Len(Pieces(ss, from, to)) <= Len(ss)
<1> DEFINE T == {ss \in Seq(ValidSegments) : /\ Pieces(ss, from, to) \in Seq(ValidSegments)
                                             /\ Len(Pieces(ss, from, to)) <= Len(ss)}
<1>1. << >> \in T
  <2>1. << >> \in Seq(ValidSegments) /\ Len(<< >>) <= Len(<< >>)
    OBVIOUS
  <2> QED
    BY <2>1, PiecesNone
<1>2. ASSUME NEW ss \in Seq(ValidSegments), NEW x \in ValidSegments, ss \in T
      PROVE  Append(ss, x) \in T
  <2> DEFINE p == Piece(x, TotalLen(ss), from, to)
             q == Pieces(ss, from, to)
  <2>1. p \in Seq(ValidSegments) /\ Len(p) <= 1
    BY PieceType, TotalType
  <2>2. q \in Seq(ValidSegments) /\ Len(q) <= Len(ss)
    BY <1>2
  <2>3. Pieces(Append(ss, x), from, to) = q \o p
    BY PiecesAppend
  <2> HIDE DEF p, q
  <2>4. q \o p \in Seq(ValidSegments) /\ Len(q \o p) = Len(q) + Len(p)
    BY <2>1, <2>2
  <2>5. Append(ss, x) \in Seq(ValidSegments) /\ Len(Append(ss, x)) = Len(ss) + 1
    OBVIOUS
  <2>6. Len(q) + Len(p) <= Len(ss) + 1
    BY <2>1, <2>2
  <2> QED
    BY <2>3, <2>4, <2>5, <2>6
<1> HIDE DEF T
<1>3. \A ss \in Seq(ValidSegments) : ss \in T
  BY <1>1, <1>2, SeqInduction
<1> QED
  BY <1>3 DEF T

-----------------------------------------------------------------------------
(* Parts of sequences.                                                     *)

\* What is between two places of a sequence.
Span(s, from, to) == SubSeq(s, from + 1, Least(to, Len(s)))

\* The elements of a range that is cut off at the end.
LEMMA SpanIs ==
    ASSUME NEW V, NEW s \in Seq(V), NEW from \in Nat, NEW to \in Nat
    PROVE  /\ Span(s, from, to) \in Seq(V)
           /\ Len(Span(s, from, to)) = Most(Least(to, Len(s)) - from, 0)
           /\ \A i \in 1 .. Len(Span(s, from, to)) : Span(s, from, to)[i] = s[from + i]
<1> DEFINE a == from + 1
           b == Least(to, Len(s))
<1>1. a \in Int /\ b \in Int /\ b <= Len(s) /\ Len(s) \in Nat
  BY LeastMost DEF Least
<1>2. \A i \in a .. b : s[i] \in V
  <2> HIDE DEF b
  <2> QED
    BY <1>1
<1>3. Span(s, from, to) = SubSeq(s, a, b)
  BY DEF Span
<1>4. b - a + 1 = b - from /\ (a <= b <=> b - from >= 1) /\ \A i \in Int : a + i - 1 = from + i
  <2> HIDE DEF b
  <2> QED
    BY <1>1
<1> HIDE DEF a, b
<1>5. /\ SubSeq(s, a, b) \in Seq(V)
      /\ Len(SubSeq(s, a, b)) = IF a <= b THEN b - a + 1 ELSE 0
      /\ \A i \in 1 .. b - a + 1 : SubSeq(s, a, b)[i] = s[a + i - 1]
  BY ONLY <1>1, <1>2, SubSeqProperties
<1>6. Len(SubSeq(s, a, b)) = Most(b - from, 0)
  BY <1>1, <1>4, <1>5 DEF Most
<1>7. ASSUME NEW i \in 1 .. Most(b - from, 0)
      PROVE  SubSeq(s, a, b)[i] = s[from + i]
  <2>1. i \in 1 .. b - a + 1
    BY <1>1, <1>4 DEF Most
  <2> QED
    <3>1. i \in Int /\ SubSeq(s, a, b)[i] = s[a + i - 1]
      BY ONLY <1>5, <2>1
    <3>2. a + i - 1 = from + i
      BY ONLY <1>4, <3>1
    <3> QED
      BY ONLY <3>1, <3>2
<1> QED
  BY <1>3, <1>5, <1>6, <1>7 DEF b

\* The lengths and the places that SpanConcat needs, as numbers alone.
LEMMA SpanNumbers ==
    ASSUME NEW l \in Nat, NEW m \in Nat, NEW from \in Nat, NEW to \in Nat
    PROVE  LET before == Most(Least(to, l) - from, 0)
               skip == Most(from - l, 0)
               after == Most(Least(Most(to - l, 0), m) - skip, 0)
           IN  /\ Most(Least(to, l + m) - from, 0) = before + after
               /\ before \in Nat /\ after \in Nat /\ skip \in Nat
               /\ \A i \in 1 .. before : from + i \in 1 .. l
               /\ \A i \in 1 .. after : /\ from + (before + i) = l + (skip + i)
                                        /\ skip + i \in 1 .. m
BY DEF Least, Most

\* Sequences are the same that agree in a first and in a second part.
LEMMA SeqSame ==
    ASSUME NEW V, NEW s \in Seq(V), NEW t \in Seq(V), NEW n \in Nat, NEW m \in Nat,
           Len(s) = n + m, Len(t) = n + m,
           \A i \in 1 .. n : s[i] = t[i], \A i \in 1 .. m : s[n + i] = t[n + i]
    PROVE  s = t
<1>1. ASSUME NEW i \in 1 .. Len(s) PROVE s[i] = t[i]
  <2>1. CASE i <= n
    BY <2>1
  <2>2. CASE i > n
    <3>1. i - n \in 1 .. m /\ n + (i - n) = i
      BY <2>2
    <3> QED
      BY <3>1
  <2> QED
    BY <2>1, <2>2
<1> QED
  BY <1>1, SeqEqual

\* A part of two sequences is a part of the first and a part of the second.
LEMMA SpanConcat ==
    ASSUME NEW V, NEW s \in Seq(V), NEW t \in Seq(V), NEW from \in Nat, NEW to \in Nat
    PROVE  Span(s \o t, from, to) =
               Span(s, from, to) \o Span(t, Most(from - Len(s), 0), Most(to - Len(s), 0))
<1> DEFINE l == Len(s)
           m == Len(t)
           skip == Most(from - l, 0)
           till == Most(to - l, 0)
           before == Most(Least(to, l) - from, 0)
           after == Most(Least(till, m) - skip, 0)
           whole == Span(s \o t, from, to)
           first == Span(s, from, to)
           last == Span(t, skip, till)
<1>1. l \in Nat /\ m \in Nat
  OBVIOUS
<1>2. /\ Most(Least(to, l + m) - from, 0) = before + after
      /\ before \in Nat /\ after \in Nat /\ skip \in Nat
      /\ \A i \in 1 .. before : from + i \in 1 .. l
      /\ \A i \in 1 .. after : /\ from + (before + i) = l + (skip + i)
                               /\ skip + i \in 1 .. m
  <2> HIDE DEF l, m
  <2> QED
    BY <1>1, SpanNumbers
<1>3. till \in Nat
  BY <1>1 DEF Most
<1>4. s \o t \in Seq(V) /\ Len(s \o t) = l + m
      /\ (\A i \in 1 .. l : (s \o t)[i] = s[i]) /\ (\A i \in 1 .. m : (s \o t)[l + i] = t[i])
  OBVIOUS
<1> DEFINE r == s \o t
<1>5. /\ whole \in Seq(V) /\ Len(whole) = before + after
      /\ \A i \in 1 .. before + after : whole[i] = r[from + i]
  <2>1. r \in Seq(V) /\ Len(r) = l + m
    BY <1>4
  <2> HIDE DEF r
  <2>2. /\ Span(r, from, to) \in Seq(V)
        /\ Len(Span(r, from, to)) = Most(Least(to, Len(r)) - from, 0)
        /\ \A i \in 1 .. Len(Span(r, from, to)) : Span(r, from, to)[i] = r[from + i]
    BY <2>1, SpanIs
  <2>3. whole = Span(r, from, to)
    BY DEF r
  <2>4. Len(whole) = before + after
    BY <1>2, <2>1, <2>2, <2>3
  <2> HIDE DEF whole, before, after
  <2> QED
    BY <2>2, <2>3, <2>4
<1>6. /\ first \in Seq(V) /\ Len(first) = before
      /\ \A i \in 1 .. before : first[i] = s[from + i]
  <2>1. /\ first \in Seq(V) /\ Len(first) = before
        /\ \A i \in 1 .. Len(first) : first[i] = s[from + i]
    BY SpanIs
  <2> HIDE DEF first, before
  <2> QED
    BY <2>1
<1>7. /\ last \in Seq(V) /\ Len(last) = after
      /\ \A i \in 1 .. after : last[i] = t[skip + i]
  <2>1. /\ last \in Seq(V) /\ Len(last) = after
        /\ \A i \in 1 .. Len(last) : last[i] = t[skip + i]
    <3> HIDE DEF skip, till
    <3> QED
      BY <1>2, <1>3, SpanIs
  <2> HIDE DEF last, after
  <2> QED
    BY <2>1
<1> HIDE DEF whole, first, last, before, after, skip, till, l, m, r
<1>8. /\ first \o last \in Seq(V) /\ Len(first \o last) = before + after
      /\ \A i \in 1 .. before : (first \o last)[i] = first[i]
      /\ \A i \in 1 .. after : (first \o last)[before + i] = last[i]
  <2>1. first \in Seq(V) /\ last \in Seq(V) /\ Len(first) = before /\ Len(last) = after
        /\ before \in Nat /\ after \in Nat
    BY <1>2, <1>6, <1>7
  <2>2. /\ first \o last \in Seq(V)
        /\ Len(first \o last) = Len(first) + Len(last)
        /\ \A i \in 1 .. Len(first) + Len(last) : (first \o last)[i] =
                IF i <= Len(first) THEN first[i] ELSE last[i - Len(first)]
    BY <2>1, ConcatProperties
  <2>3. ASSUME NEW i \in 1 .. after PROVE (first \o last)[before + i] = last[i]
    <3> DEFINE j == before + i
    <3>1. j \in 1 .. before + after /\ ~(j <= before) /\ j - before = i
      BY <2>1
    <3> HIDE DEF j
    <3> QED
      BY <2>1, <2>2, <3>1 DEF j
  <2> QED
    BY <2>1, <2>2, <2>3
<1>9. ASSUME NEW i \in 1 .. before PROVE whole[i] = (first \o last)[i]
  <2>1. whole[i] = r[from + i]
    BY <1>2, <1>5
  <2>2. r[from + i] = s[from + i]
    BY <1>2, <1>4 DEF r
  <2>3. (first \o last)[i] = s[from + i]
    BY <1>6, <1>8
  <2> QED
    BY <2>1, <2>2, <2>3
<1>10. ASSUME NEW i \in 1 .. after PROVE whole[before + i] = (first \o last)[before + i]
  <2>1. whole[before + i] = r[from + (before + i)]
    <3>1. before + i \in 1 .. before + after
      BY <1>2
    <3> QED
      BY <1>5, <3>1
  <2>2. r[l + (skip + i)] = t[skip + i]
    BY <1>2, <1>4 DEF r
  <2>3. (first \o last)[before + i] = t[skip + i]
    BY <1>7, <1>8
  <2>4. from + (before + i) = l + (skip + i)
    BY <1>2
  <2> QED
    BY <2>1, <2>2, <2>3, <2>4
<1>11. whole = first \o last
  <2> DEFINE u == first \o last
  <2>1. /\ whole \in Seq(V) /\ u \in Seq(V) /\ before \in Nat /\ after \in Nat
        /\ Len(whole) = before + after /\ Len(u) = before + after
    BY <1>2, <1>5, <1>8
  <2>2. \A i \in 1 .. before : whole[i] = u[i]
    BY <1>9
  <2>3. \A i \in 1 .. after : whole[before + i] = u[before + i]
    BY <1>10
  <2> HIDE DEF u
  <2>4. whole = u
    BY <2>1, <2>2, <2>3, SeqSame
  <2> QED
    BY <2>4 DEF u
<1> QED
  BY <1>11 DEF whole, first, last, skip, till, l

\* Reading the part of a segment gives the part of its bytes.
LEMMA PieceRead ==
    ASSUME NEW x \in ValidSegments, NEW start \in Nat, NEW from \in Nat, NEW to \in Nat
    PROVE  ReadAll(Piece(x, start, from, to)) =
               Span(Read(x), Most(from - start, 0), Most(to - start, 0))
<1> DEFINE first == Most(from, start)
           last == Least(to, start + x.len)
           skip == Most(from - start, 0)
           till == Most(to - start, 0)
           part == Span(Read(x), skip, till)
           p == [source |-> x.source, offset |-> x.offset + (first - start), len |-> last - first]
<1>1. x.source \in Seq(Chars) /\ x.offset \in Nat /\ x.len \in Nat
      /\ x.offset + x.len <= Len(x.source) /\ Len(x.source) \in Nat
  BY SegmentFields
<1>2. /\ Read(x) \in Seq(Chars) /\ Len(Read(x)) = x.len
      /\ \A i \in 1 .. x.len : Read(x)[i] = x.source[x.offset + i]
  BY ReadType
<1>3. first \in Nat /\ last \in Int /\ start <= first /\ last <= start + x.len
      /\ skip \in Nat /\ till \in Nat /\ skip = first - start
  BY <1>1 DEF Least, Most
<1>4. (first < last => Least(till, x.len) - skip = last - first)
      /\ (first >= last => Least(till, x.len) - skip <= 0)
  BY <1>1 DEF Least, Most
<1>5. /\ part \in Seq(Chars) /\ Len(part) = Most(Least(till, x.len) - skip, 0)
      /\ \A i \in 1 .. Len(part) : part[i] = Read(x)[skip + i]
  <2> HIDE DEF skip, till
  <2> QED
    <3>1. Read(x) \in Seq(Chars) /\ skip \in Nat /\ till \in Nat
      BY ONLY <1>2, <1>3
    <3>2. /\ part \in Seq(Chars) /\ Len(part) = Most(Least(till, Len(Read(x))) - skip, 0)
          /\ \A i \in 1 .. Len(part) : part[i] = Read(x)[skip + i]
      BY ONLY <3>1, SpanIs
    <3> HIDE DEF part
    <3> QED
      BY ONLY <1>2, <3>2
<1>6. Least(till, x.len) \in Int
  BY <1>1, <1>3 DEF Least
<1>7. CASE first >= last
  <2>1. Piece(x, start, from, to) = << >>
    BY <1>7 DEF Piece
  <2> HIDE DEF skip, till, part, first, last
  <2>2. Len(part) = 0
    BY <1>3, <1>4, <1>5, <1>6, <1>7 DEF Most
  <2>3. part = << >>
    BY <1>5, <2>2
  <2> QED
    BY <2>1, <2>3, ReadAllNone DEF part, skip, till
<1>8. CASE ~(first >= last)
  <2>1. Piece(x, start, from, to) = <<p>>
    BY <1>8 DEF Piece
  <2>2. p.source = x.source /\ p.offset = x.offset + (first - start) /\ p.len = last - first
        /\ p = [source |-> p.source, offset |-> p.offset, len |-> p.len]
    OBVIOUS
  <2> HIDE DEF p, skip, till, part, first, last
  <2>30. p.offset = x.offset + skip /\ p.source = x.source
    BY <1>3, <2>2
  <2>31. p.len \in Nat /\ p.len <= x.len - skip
    <3>1. p.len = last - first
      BY <2>2
    <3>2. last - first \in Nat /\ last - first <= x.len - skip
      BY <1>1, <1>3, <1>8
    <3> QED
      BY <3>1, <3>2
  <2>3. p.offset = x.offset + skip /\ p.offset \in Nat /\ p.len \in Nat
        /\ p.offset + p.len <= Len(p.source) /\ p.source \in Seq(Chars)
        /\ p.len <= x.len - skip
    BY <1>1, <1>3, <2>30, <2>31
  <2>4. p \in ValidSegments
    BY <2>2, <2>3 DEF ValidSegments
  <2>5. ReadAll(<<p>>) = Read(p) /\ Read(p) \in Seq(Chars) /\ Len(Read(p)) = p.len
        /\ \A i \in 1 .. p.len : Read(p)[i] = p.source[p.offset + i]
    BY <2>4, ReadAllOne, ReadType
  <2>6. Len(part) = p.len
    BY <1>3, <1>4, <1>5, <1>6, <1>8, <2>2 DEF Most
  <2>7. ASSUME NEW i \in 1 .. p.len PROVE Read(p)[i] = part[i]
    <3>1. skip + i \in 1 .. x.len
      <4>1. ASSUME NEW l \in Nat, NEW n \in Nat, NEW k \in Nat, n <= l - k, NEW j \in 1 .. n
            PROVE  k + j \in 1 .. l
        BY ONLY <4>1
      <4>2. x.len \in Nat /\ p.len \in Nat /\ skip \in Nat /\ p.len <= x.len - skip
        BY ONLY <1>1, <1>3, <2>3
      <4> HIDE DEF p, skip
      <4> QED
        BY ONLY <4>1, <4>2, i \in 1 .. p.len
    <3>2. part[i] = Read(x)[skip + i]
      BY <1>5, <2>6
    <3>3. Read(x)[skip + i] = x.source[x.offset + (skip + i)]
      BY <1>2, <3>1
    <3>4. Read(p)[i] = x.source[(x.offset + skip) + i]
      BY <2>2, <2>3, <2>5
    <3>5. x.offset + (skip + i) = (x.offset + skip) + i
      BY <1>1, <1>3
    <3> QED
      BY <3>2, <3>3, <3>4, <3>5
  <2>8. Read(p) = part
    BY <1>5, <2>5, <2>6, <2>7, SeqEqual
  <2> QED
    BY <2>1, <2>5, <2>8 DEF part, skip, till
<1> QED
  BY <1>7, <1>8

\* No range of nothing has anything.
LEMMA SpanNone ==
    ASSUME NEW from \in Nat, NEW to \in Nat
    PROVE  Span(<< >>, from, to) = << >>
<1>1. << >> \in Seq(Chars) /\ Len(<< >>) = 0
  OBVIOUS
<1>2. Span(<< >>, from, to) \in Seq(Chars)
      /\ Len(Span(<< >>, from, to)) = Most(Least(to, Len(<< >>)) - from, 0)
  BY <1>1, SpanIs
<1>3. Most(Least(to, 0) - from, 0) = 0
  BY DEF Least, Most
<1>4. Len(Span(<< >>, from, to)) = 0
  BY <1>1, <1>2, <1>3
<1> QED
  BY <1>2, <1>4

\* What is cut out of segments reads as that part of what they read as.
LEMMA PiecesRead ==
    ASSUME NEW from \in Nat, NEW to \in Nat
    PROVE  \A ss \in Seq(ValidSegments) :
               ReadAll(Pieces(ss, from, to)) = Span(ReadAll(ss), from, to)
<1> DEFINE T == {ss \in Seq(ValidSegments) :
                     ReadAll(Pieces(ss, from, to)) = Span(ReadAll(ss), from, to)}
<1>1. << >> \in T
  <2>1. << >> \in Seq(ValidSegments)
    OBVIOUS
  <2> QED
    BY <2>1, PiecesNone, ReadAllNone, SpanNone
<1>2. ASSUME NEW ss \in Seq(ValidSegments), NEW x \in ValidSegments, ss \in T
      PROVE  Append(ss, x) \in T
  <2> DEFINE l == TotalLen(ss)
             p == Piece(x, l, from, to)
             q == Pieces(ss, from, to)
             a == ReadAll(ss)
             b == Read(x)
  <2>1. /\ l \in Nat /\ p \in Seq(ValidSegments) /\ q \in Seq(ValidSegments)
        /\ a \in Seq(Chars) /\ b \in Seq(Chars) /\ Len(a) = l
    BY PieceType, TotalType, PiecesType, ReadAllType, ReadType, ReadAllLen
  <2>2. Pieces(Append(ss, x), from, to) = q \o p /\ ReadAll(Append(ss, x)) = a \o b
        /\ Append(ss, x) \in Seq(ValidSegments)
    BY PiecesAppend, ReadAllAppend
  <2>3. ReadAll(q) = Span(a, from, to)
    BY <1>2
  <2>4. ReadAll(p) = Span(b, Most(from - l, 0), Most(to - l, 0))
    BY <2>1, PieceRead
  <2> HIDE DEF l, p, q, a, b
  <2>5. ReadAll(q \o p) = ReadAll(q) \o ReadAll(p)
    BY <2>1, ReadAllConcat
  <2>6. Span(a \o b, from, to) =
            Span(a, from, to) \o Span(b, Most(from - Len(a), 0), Most(to - Len(a), 0))
    <3>1. a \in Seq(Chars) /\ b \in Seq(Chars) /\ from \in Nat /\ to \in Nat
      BY <2>1
    <3> QED
      BY ONLY <3>1, SpanConcat
  <2> QED
    BY <2>1, <2>2, <2>3, <2>4, <2>5, <2>6
<1> HIDE DEF T
<1>3. \A ss \in Seq(ValidSegments) : ss \in T
  BY <1>1, <1>2, SeqInduction
<1> QED
  BY <1>3 DEF T

\* What is cut out of segments is as long as the range, cut off at the end.
LEMMA PiecesLen ==
    ASSUME NEW ss \in Seq(ValidSegments), NEW from \in Nat, NEW to \in Nat
    PROVE  TotalLen(Pieces(ss, from, to)) = Most(Least(to, TotalLen(ss)) - from, 0)
<1>1. /\ Pieces(ss, from, to) \in Seq(ValidSegments)
      /\ ReadAll(Pieces(ss, from, to)) = Span(ReadAll(ss), from, to)
      /\ ReadAll(ss) \in Seq(Chars) /\ Len(ReadAll(ss)) = TotalLen(ss)
  BY PiecesType, PiecesRead, ReadAllType, ReadAllLen
<1>2. Len(ReadAll(Pieces(ss, from, to))) = TotalLen(Pieces(ss, from, to))
  BY <1>1, ReadAllLen
<1>3. Len(Span(ReadAll(ss), from, to)) = Most(Least(to, Len(ReadAll(ss))) - from, 0)
  BY <1>1, SpanIs
<1> QED
  BY <1>1, <1>2, <1>3

-----------------------------------------------------------------------------
(* Powers of two.                                                            *)

\* The powers of two are what their recursive definition says.
LEMMA Pow2Rec ==
    /\ Pow2 \in [Nat -> Nat \ {0}]
    /\ Pow2[0] = 1
    /\ \A n \in Nat : Pow2[n + 1] = 2 * Pow2[n]
<1> DEFINE S == Nat \ {0}
<1> DEFINE step == [n \in Nat |-> [y \in S |-> 2 * y]]
<1>1. step \in [Nat -> [S -> S]] /\ 1 \in S
  OBVIOUS
<1>2. \A n \in Nat, y \in S : step[n + 1][y] = 2 * y
  OBVIOUS
<1> HIDE DEF step, S
<1>3. PICK g \in [Nat -> S] : g[0] = 1 /\ \A n \in Nat : g[n + 1] = step[n + 1][g[n]]
  <2>1. HasIteration(S, 1, step)
    BY ONLY <1>1, Iteration
  <2> QED
    BY ONLY <2>1 DEF HasIteration, Iterates
<1> USE DEF S
<1>4. \A n \in Nat : g[n + 1] = 2 * g[n]
  BY <1>2, <1>3
<1>5. g = [n \in Nat |-> IF n = 0 THEN 1 ELSE 2 * g[n - 1]]
  <2>1. ASSUME NEW n \in Nat PROVE g[n] = IF n = 0 THEN 1 ELSE 2 * g[n - 1]
    <3>1. CASE n = 0
      BY <1>3, <3>1
    <3>2. CASE n # 0
      <4>1. n - 1 \in Nat /\ (n - 1) + 1 = n
        BY <3>2
      <4> DEFINE m == n - 1
      <4>2. g[m + 1] = 2 * g[m]
        BY <1>4, <4>1
      <4>3. m + 1 = n
        BY <4>1
      <4> QED
        BY <3>2, <4>2, <4>3
    <3> QED
      BY <3>1, <3>2
  <2>2. g = [n \in Nat |-> g[n]]
    BY <1>3
  <2> QED
    BY <2>1, <2>2
<1>6. Pow2 = [n \in Nat |-> IF n = 0 THEN 1 ELSE 2 * Pow2[n - 1]]
  BY <1>5 DEF Pow2
<1>7. \A n \in Nat : Pow2[n] = g[n]
  <2> DEFINE T == {n \in Nat : Pow2[n] = g[n]}
  <2>1. 0 \in T
    BY <1>3, <1>6
  <2>2. ASSUME NEW n \in Nat, n \in T PROVE n + 1 \in T
    <3>1. Pow2[n + 1] = 2 * Pow2[n]
      <4> DEFINE m == n + 1
      <4>1. m \in Nat /\ m # 0 /\ m - 1 = n
        OBVIOUS
      <4> HIDE DEF m
      <4>2. Pow2[m] = 2 * Pow2[n]
        BY <1>6, <4>1
      <4> QED
        BY <4>2 DEF m
    <3> QED
      BY <1>4, <2>2, <3>1
  <2> HIDE DEF T
  <2>3. \A n \in Nat : n \in T
    BY <2>1, <2>2, Induction
  <2> QED
    BY <2>3 DEF T
<1>8. Pow2 = g
  BY <1>3, <1>6, <1>7
<1> QED
  BY <1>3, <1>4, <1>8

\* Powers of two are numbers, and 1 at least.
LEMMA Pow2Nat == \A n \in Nat : Pow2[n] \in Nat /\ Pow2[n] >= 1
BY Pow2Rec

\* The power of a sum is the product of the powers.
LEMMA Pow2Sum ==
    ASSUME NEW a \in Nat
    PROVE  \A b \in Nat : Pow2[a + b] = Pow2[a] * Pow2[b]
<1> DEFINE T == {b \in Nat : Pow2[a + b] = Pow2[a] * Pow2[b]}
<1>1. 0 \in T
  BY Pow2Rec
<1>2. ASSUME NEW b \in Nat, b \in T PROVE b + 1 \in T
  <2>1. a + (b + 1) = (a + b) + 1 /\ a + b \in Nat
    OBVIOUS
  <2>2. Pow2[(a + b) + 1] = 2 * Pow2[a + b] /\ Pow2[b + 1] = 2 * Pow2[b]
    BY <2>1, Pow2Rec
  <2>3. Pow2[a + b] = Pow2[a] * Pow2[b]
    BY <1>2
  <2>4. Pow2[a] \in Nat /\ Pow2[b] \in Nat
    BY Pow2Nat
  <2>5. 2 * (Pow2[a] * Pow2[b]) = Pow2[a] * (2 * Pow2[b])
    BY <2>4
  <2> QED
    BY <2>1, <2>2, <2>3, <2>5
<1> HIDE DEF T
<1>3. \A b \in Nat : b \in T
  BY <1>1, <1>2, Induction
<1> QED
  BY <1>3 DEF T

\* Larger exponents have larger powers.
LEMMA Pow2Mono ==
    ASSUME NEW a \in Nat, NEW b \in Nat, a <= b
    PROVE  Pow2[a] <= Pow2[b]
<1>1. b - a \in Nat /\ a + (b - a) = b
  OBVIOUS
<1>2. Pow2[b] = Pow2[a] * Pow2[b - a]
  BY <1>1, Pow2Sum
<1>3. Pow2[a] \in Nat /\ Pow2[b - a] \in Nat /\ Pow2[b - a] >= 1
  BY <1>1, Pow2Nat
<1>4. \A x, y \in Nat : y >= 1 => x <= x * y
  OBVIOUS
<1> QED
  BY <1>2, <1>3, <1>4

-----------------------------------------------------------------------------
(* Division.                                                               *)

\* A number is its quotient times the divisor, and the remainder.
LEMMA DivMod ==
    ASSUME NEW a \in Int, NEW p \in Nat \ {0}
    PROVE  (a % p) \in 0 .. p - 1 /\ a \div p \in Int /\ a = p * (a \div p) + (a % p)
<1>1. a % p \in 0 .. p - 1
  OBVIOUS
<1>2. a \div p \in Int
  OBVIOUS
<1>3. a = p * (a \div p) + (a % p)
  OBVIOUS
<1> QED
  BY <1>1, <1>2, <1>3

\* A remainder is the only one.
LEMMA ModIs ==
    ASSUME NEW p \in Nat \ {0}, NEW k \in Int, NEW r \in 0 .. p - 1
    PROVE  (p * k + r) % p = r /\ (p * k + r) \div p = k
OBVIOUS

-----------------------------------------------------------------------------
(* Blobs within the limits.                                                  *)

USE LimitsAssumption DEF ValidLimits

\* A blob as the functions of BlobData make it.
IsBlob(blob, segments, type) ==
    blob = [segments |-> segments, size |-> TotalLen(segments), type |-> NormalizedType(type)]

FitSegments == {ss \in Seq(ValidSegments) : TotalLen(ss) <= MaxSize /\ Len(ss) <= MaxSegments}

\* WithinLimits makes a blob of segments that keep the limits, and fails otherwise.
LEMMA WithinLimitsIs ==
    ASSUME NEW ss \in Seq(ValidSegments), NEW type
    PROVE  /\ WithinLimits(ss, type).ok \in BOOLEAN
           /\ WithinLimits(ss, type).ok <=> ss \in FitSegments
           /\ WithinLimits(ss, type).ok => IsBlob(WithinLimits(ss, type).value, ss, type)
<1>1. Len(ss) \in Nat /\ TotalLen(ss) \in Nat
  BY TotalType
<1>2. CASE Len(ss) > MaxSegments
  BY <1>1, <1>2 DEF WithinLimits, Sized, Err, FitSegments
<1>3. CASE ~(Len(ss) > MaxSegments) /\ TotalLen(ss) > MaxSize
  BY <1>1, <1>3 DEF WithinLimits, Sized, Err, FitSegments
<1>4. CASE ~(Len(ss) > MaxSegments) /\ ~(TotalLen(ss) > MaxSize)
  <2>1. WithinLimits(ss, type) =
            Ok([segments |-> ss, size |-> TotalLen(ss), type |-> NormalizedType(type)])
    BY <1>4 DEF WithinLimits, Sized
  <2>2. ss \in FitSegments
    BY <1>1, <1>4 DEF FitSegments
  <2> QED
    BY <2>1, <2>2 DEF Ok, IsBlob
<1> QED
  BY <1>2, <1>3, <1>4

\* The empty blob has no segments, which keep the limits.
LEMMA EmptyIs ==
    ASSUME NEW type
    PROVE  /\ IsBlob(EmptyBlob(type), << >>, type)
           /\ << >> \in FitSegments
<1>1. << >> \in Seq(ValidSegments) /\ Len(<< >>) = 0 /\ 0 <= MaxSize /\ 0 <= MaxSegments
  OBVIOUS
<1> QED
  BY <1>1, TotalNone DEF IsBlob, EmptyBlob, FitSegments

\* One segment of bytes reads as these bytes.
LEMMA SegmentOfBytes ==
    ASSUME NEW bytes \in Seq(Chars)
    PROVE  /\ Segment(bytes) \in ValidSegments
           /\ Read(Segment(bytes)) = bytes
           /\ Segment(bytes).len = Len(bytes)
<1>1. Segment(bytes).source = bytes /\ Segment(bytes).offset = 0 /\ Segment(bytes).len = Len(bytes)
  BY DEF Segment
<1>2. Len(bytes) \in Nat /\ 0 + Len(bytes) = Len(bytes) /\ SubSeq(bytes, 1, Len(bytes)) = bytes
  OBVIOUS
<1>3. Segment(bytes) \in ValidSegments
  BY <1>1, <1>2 DEF ValidSegments, Segment
<1>4. Read(Segment(bytes)) = SubSeq(bytes, 0 + 1, 0 + Len(bytes))
  BY <1>1 DEF Read
<1> QED
  BY <1>1, <1>2, <1>3, <1>4

\* Joining one sequence.
LEMMA FlatOne ==
    ASSUME NEW V, NEW x \in Seq(V)
    PROVE  FlattenSeq(<<x>>) = x
<1>1. << >> \in Seq(Seq(V)) /\ Append(<< >>, x) = <<x>> /\ << >> \o x = x
  OBVIOUS
<1> QED
  BY <1>1, FlatAppend, FlatNone

\* Dropping one segment when it is empty.
LEMMA NotEmptyOne ==
    ASSUME NEW x \in ValidSegments
    PROVE  NotEmpty(<<x>>) = IF x.len = 0 THEN << >> ELSE <<x>>
<1> DEFINE y == IF x.len = 0 THEN << >> ELSE <<x>>
<1>1. y \in Seq(ValidSegments)
  OBVIOUS
<1>2. [k \in DOMAIN <<x>> |-> IF <<x>>[k].len = 0 THEN << >> ELSE <<<<x>>[k]>>] = <<y>>
  OBVIOUS
<1> HIDE DEF y
<1>3. FlattenSeq(<<y>>) = y
  BY <1>1, FlatOne
<1>4. NotEmpty(<<x>>) = y
  BY <1>2, <1>3 DEF NotEmpty
<1> QED
  BY <1>4 DEF y

\* A blob made of bytes has them.
LEMMA FromBytesIs ==
    ASSUME NEW bytes \in Seq(Chars), NEW type
    PROVE  \E ss \in Seq(ValidSegments) :
               /\ FromBytes(bytes, type) = WithinLimits(ss, type)
               /\ ReadAll(ss) = bytes
               /\ TotalLen(ss) = Len(bytes) /\ Len(ss) = Least(1, Len(bytes))
<1> DEFINE x == Segment(bytes)
           ss == NotEmpty(<<x>>)
<1>1. x \in ValidSegments /\ Read(x) = bytes /\ x.len = Len(bytes)
  BY SegmentOfBytes
<1>2. ~ \E k \in DOMAIN <<x>> : <<x>>[k].offset + <<x>>[k].len > Len(<<x>>[k].source)
  <2> SUFFICES ASSUME NEW k \in DOMAIN <<x>>
               PROVE  ~(<<x>>[k].offset + <<x>>[k].len > Len(<<x>>[k].source))
    OBVIOUS
  <2> HIDE DEF x
  <2>1. <<x>>[k] = x
    OBVIOUS
  <2>2. ~(x.offset + x.len > Len(x.source))
    BY <1>1, SegmentFields
  <2> QED
    BY <2>1, <2>2
<1>3. FromBytes(bytes, type) = WithinLimits(ss, type)
  BY <1>2 DEF FromBytes, FromSegments
<1>4. ss = IF Len(bytes) = 0 THEN << >> ELSE <<x>>
  BY <1>1, NotEmptyOne
<1> HIDE DEF x, ss
<1>5. CASE Len(bytes) = 0
  <2>1. ss = << >> /\ << >> \in Seq(ValidSegments) /\ Len(<< >>) = 0 /\ bytes = << >>
    BY <1>4, <1>5
  <2>2. Least(1, 0) = 0
    BY DEF Least
  <2> QED
    BY <1>3, <1>5, <2>1, <2>2, ReadAllNone, TotalNone
<1>6. CASE Len(bytes) # 0
  <2>1. ss = <<x>> /\ <<x>> \in Seq(ValidSegments) /\ Len(<<x>>) = 1
    BY <1>1, <1>4, <1>6
  <2>2. Least(1, Len(bytes)) = 1
    BY <1>6 DEF Least
  <2> QED
    BY <1>1, <1>3, <2>1, <2>2, ReadAllOne
<1> QED
  BY <1>5, <1>6

\* Slices.
LEMMA SliceIs ==
    ASSUME NEW ss \in FitSegments, NEW from \in Nat, NEW to \in Nat
    PROVE  /\ Pieces(ss, from, to) \in FitSegments
           /\ ReadAll(Pieces(ss, from, to)) = SubSeq(ReadAll(ss), from + 1, Least(to, TotalLen(ss)))
<1>1. ss \in Seq(ValidSegments) /\ TotalLen(ss) <= MaxSize /\ Len(ss) <= MaxSegments
  BY DEF FitSegments
<1>2. /\ Pieces(ss, from, to) \in Seq(ValidSegments)
      /\ Len(Pieces(ss, from, to)) <= Len(ss)
      /\ TotalLen(Pieces(ss, from, to)) = Most(Least(to, TotalLen(ss)) - from, 0)
      /\ TotalLen(ss) \in Nat
  BY <1>1, PiecesType, PiecesLen, TotalType
<1>3. Most(Least(to, TotalLen(ss)) - from, 0) <= TotalLen(ss)
  BY <1>2 DEF Most, Least
<1>4. Len(Pieces(ss, from, to)) \in Nat /\ Len(ss) \in Nat
  BY <1>1, <1>2
<1>5. Pieces(ss, from, to) \in FitSegments
  <2> DEFINE p == Pieces(ss, from, to)
  <2>1. TotalLen(p) \in Nat
    BY <1>2, TotalType
  <2>2. TotalLen(p) <= TotalLen(ss)
    BY <1>2, <1>3
  <2> HIDE DEF p
  <2>3. TotalLen(p) <= MaxSize
    BY <1>1, <1>2, <2>1, <2>2
  <2>4. Len(p) <= MaxSegments
    BY <1>1, <1>2, <1>4 DEF p
  <2> QED
    BY <1>2, <2>3, <2>4 DEF FitSegments, p
<1>6. ReadAll(Pieces(ss, from, to)) = Span(ReadAll(ss), from, to) /\ Len(ReadAll(ss)) = TotalLen(ss)
  BY <1>1, PiecesRead, ReadAllLen
<1> QED
  BY <1>5, <1>6 DEF Span

-----------------------------------------------------------------------------
(* The readers.                                                            *)

\* Where the segments are in the bytes they read as.
PlacedAt(ss, k) ==
    /\ StartOf(ss, k) \in Nat
    /\ StartOf(ss, k) + ss[k].len <= TotalLen(ss)
    /\ k < Len(ss) => StartOf(ss, k + 1) = StartOf(ss, k) + ss[k].len
    /\ k = Len(ss) => TotalLen(ss) = StartOf(ss, k) + ss[k].len
    /\ \A i \in 1 .. ss[k].len : ReadAll(ss)[StartOf(ss, k) + i] = Read(ss[k])[i]
Placed(ss) == \A k \in 1 .. Len(ss) : PlacedAt(ss, k)

\* The elements of two sequences in a row.
LEMMA ConcatAt ==
    ASSUME NEW a \in Seq(Chars), NEW b \in Seq(Chars), NEW i \in Nat \ {0}
    PROVE  /\ i <= Len(a) => (a \o b)[i] = a[i]
           /\ i <= Len(b) => (a \o b)[Len(a) + i] = b[i]
OBVIOUS

\* Every segment is in its place among the bytes.
LEMMA SegmentsPlaced ==
    \A ss \in Seq(ValidSegments) : Placed(ss)
<1> DEFINE T == {ss \in Seq(ValidSegments) : Placed(ss)}
<1>1. << >> \in T
  BY DEF Placed
<1>2. ASSUME NEW ss \in Seq(ValidSegments), NEW x \in ValidSegments, ss \in T
      PROVE  Append(ss, x) \in T
  <2> DEFINE t == Append(ss, x)
             n == Len(ss)
             m == n + 1
             a == ReadAll(ss)
             b == Read(x)
  <2>1. /\ n \in Nat /\ Len(t) = m /\ t[m] = x /\ t \in Seq(ValidSegments)
        /\ \A k \in 1 .. n : t[k] = ss[k] /\ k \in DOMAIN ss /\ ss[k] \in ValidSegments
    OBVIOUS
  <2>2. /\ \A k \in DOMAIN ss : StartOf(t, k) = StartOf(ss, k)
        /\ StartOf(t, m) = TotalLen(ss)
    BY StartsAppend
  <2>3. /\ TotalLen(ss) \in Nat /\ TotalLen(t) = TotalLen(ss) + x.len
        /\ ReadAll(t) = a \o b /\ a \in Seq(Chars) /\ b \in Seq(Chars)
        /\ Len(a) = TotalLen(ss) /\ Len(b) = x.len /\ x.len \in Nat
    BY TotalAppend, ReadAllAppend, ReadAllType, ReadType, ReadAllLen, SegmentFields
  <2>4. \A k \in 1 .. n : PlacedAt(ss, k)
    BY <1>2 DEF Placed
  <2>5. \A k \in 1 .. n : ss[k].len \in Nat
    BY <2>1, SegmentFields
  <2> HIDE DEF t, a, b, m
  <2>6. ASSUME NEW k \in 1 .. n PROVE PlacedAt(t, k)
    <3> DEFINE s == StartOf(ss, k)
               l == ss[k].len
    <3>1. /\ StartOf(t, k) = s /\ t[k] = ss[k] /\ s \in Nat /\ l \in Nat
          /\ s + l <= TotalLen(ss) /\ k \in Nat /\ k # 0
          /\ \A i \in 1 .. l : a[s + i] = Read(ss[k])[i]
      BY <2>1, <2>2, <2>4, <2>5 DEF PlacedAt, a
    <3>2. k < n => StartOf(t, k + 1) = s + l
      <4>1. k < n => k + 1 \in 1 .. n
        BY <2>1
      <4> QED
        BY <2>1, <2>2, <2>4, <4>1 DEF PlacedAt
    <3>3. k = n => StartOf(t, m) = s + l
      BY <2>2, <2>4 DEF PlacedAt
    <3> HIDE DEF s, l
    <3>4. k < Len(t) => StartOf(t, k + 1) = s + l
      BY <2>1, <3>1, <3>2, <3>3 DEF m
    <3>5. k # Len(t)
      BY <2>1 DEF m
    <3>6. ASSUME NEW i \in 1 .. l PROVE ReadAll(t)[s + i] = Read(ss[k])[i]
      <4>1. s + i \in Nat \ {0} /\ s + i <= Len(a)
        BY <2>3, <3>1
      <4>2. (a \o b)[s + i] = a[s + i]
        BY <2>3, <4>1
      <4> QED
        BY <2>3, <3>1, <4>2
    <3>7. s + l <= TotalLen(t)
      BY <2>3, <3>1
    <3> QED
      BY <3>1, <3>4, <3>5, <3>6, <3>7 DEF PlacedAt, l
  <2>7. PlacedAt(t, m)
    <3> DEFINE s == TotalLen(ss)
    <3>1. StartOf(t, m) = s /\ t[m] = x /\ s \in Nat /\ TotalLen(t) = s + x.len /\ Len(t) = m
      BY <2>1, <2>2, <2>3
    <3>2. ASSUME NEW i \in 1 .. x.len PROVE ReadAll(t)[s + i] = b[i]
      <4>1. i \in Nat \ {0} /\ i <= Len(b)
        BY <2>3
      <4>2. (a \o b)[Len(a) + i] = b[i]
        <5>1. a \in Seq(Chars) /\ b \in Seq(Chars)
          BY <2>3
        <5> QED
          BY ONLY <4>1, <5>1, ConcatAt
      <4> QED
        BY <2>3, <4>2
    <3> HIDE DEF s
    <3>3. m \in Nat /\ ~(m < m)
      BY <2>1 DEF m
    <3> QED
      BY <2>3, <3>1, <3>2, <3>3 DEF PlacedAt, b
  <2>8. \A k \in 1 .. m : k \in 1 .. n \/ k = m
    BY <2>1 DEF m
  <2>9. Placed(t)
    BY <2>1, <2>6, <2>7, <2>8 DEF Placed
  <2> QED
    BY <2>1, <2>9 DEF t
<1> HIDE DEF T
<1>3. \A ss \in Seq(ValidSegments) : ss \in T
  BY <1>1, <1>2, SeqInduction
<1> QED
  BY <1>3 DEF T

\* The first segment begins at 0.
LEMMA FirstStart ==
    ASSUME NEW ss \in Seq(ValidSegments)
    PROVE  StartOf(ss, 1) = 0
<1>1. SubSeq(ss, 1, 1 - 1) = << >>
  OBVIOUS
<1> QED
  BY <1>1, TotalNone DEF StartOf

-----------------------------------------------------------------------------
(* Chunks.                                                                   *)

\* Where chunks end.
Mark(k) == k * Chunk
Cap(k, size) == Least(Mark(k), size)
Count(size) == (size + Chunk - 1) \div Chunk
UpTo(bytes, n) ==
    [k \in 1 .. n |-> SubSeq(bytes, Mark(k - 1) + 1, Cap(k, Len(bytes)))]

\* Chunks have their length.
LEMMA MarkIs ==
    ASSUME NEW k \in Nat
    PROVE  Mark(k) \in Nat /\ Mark(k + 1) = Mark(k) + Chunk /\ Mark(0) = 0
<1>1. Chunk \in Nat
  OBVIOUS
<1>2. \A a \in Nat, c \in Nat : a * c \in Nat /\ (a + 1) * c = (a * c) + c /\ 0 * c = 0
  OBVIOUS
<1> QED
  BY <1>1, <1>2 DEF Mark

\* Later chunks end later.
LEMMA MarkMono ==
    ASSUME NEW a \in Nat, NEW b \in Nat, a <= b
    PROVE  Mark(a) <= Mark(b)
<1> DEFINE T == {n \in Nat : Mark(a) <= Mark(a + n)}
<1>1. 0 \in T
  BY MarkIs
<1>2. ASSUME NEW n \in Nat, n \in T PROVE n + 1 \in T
  <2>1. Mark(a + n + 1) = Mark(a + n) + Chunk /\ Mark(a + n) \in Nat /\ Mark(a) \in Nat
    BY MarkIs
  <2>2. a + n + 1 = a + (n + 1)
    OBVIOUS
  <2> QED
    BY <1>2, <2>1, <2>2
<1> HIDE DEF T
<1>3. \A n \in Nat : n \in T
  BY <1>1, <1>2, Induction
<1>4. b - a \in Nat /\ a + (b - a) = b
  OBVIOUS
<1> QED
  BY <1>3, <1>4 DEF T

\* There are as many chunks as it takes to reach the end.
LEMMA CountIs ==
    ASSUME NEW size \in Nat
    PROVE  /\ Count(size) \in Nat /\ Count(size) <= size
           /\ size <= Mark(Count(size))
           /\ \A k \in Nat : size <= Mark(k) => Count(size) <= k
<1> DEFINE d == size + Chunk - 1
           n == Count(size)
<1>1. d \in Nat /\ Chunk \in Nat \ {0}
  OBVIOUS
<1>2. n \in Int /\ Chunk * n <= d /\ d < Chunk * n + Chunk
  BY <1>1, DivMod DEF Count
<1>3. n \in Nat
  <2> HIDE DEF n, d
  <2>1. ASSUME n < 0 PROVE FALSE
    <3>1. \A x \in Int, c \in Nat : x < 0 => c * x + c <= 0
      OBVIOUS
    <3>2. Chunk * n + Chunk <= 0
      BY <1>1, <1>2, <2>1, <3>1
    <3>3. Chunk * n \in Int
      BY <1>1, <1>2
    <3> QED
      BY <1>1, <1>2, <3>2, <3>3
  <2> QED
    BY <1>2, <2>1
<1> HIDE DEF n
<1>4. Chunk * n = Mark(n) /\ Mark(n) \in Nat
  BY <1>1, <1>3, MarkIs DEF Mark
<1>5. size <= Mark(n)
  BY <1>1, <1>2, <1>4
<1>6. ASSUME NEW k \in Nat, size <= Mark(k) PROVE n <= k
  <2> SUFFICES ASSUME k + 1 <= n PROVE FALSE
    BY <1>3
  <2>1. Mark(k + 1) <= Mark(n)
    BY <1>3, MarkMono
  <2>2. Mark(k + 1) = Mark(k) + Chunk /\ Mark(k) \in Nat
    BY MarkIs
  <2> QED
    BY <1>2, <1>4, <1>6, <2>1, <2>2
<1>7. size <= Mark(size)
  <2>1. \A a \in Nat, c \in Nat \ {0} : a <= a * c
    OBVIOUS
  <2> QED
    BY <1>1, <2>1 DEF Mark
<1> QED
  BY <1>3, <1>5, <1>6, <1>7 DEF n

\* A chunk ends at its mark, or at the end of the bytes.
LEMMA CapIs ==
    ASSUME NEW size \in Nat, NEW k \in Nat
    PROVE  /\ Cap(k, size) \in Nat /\ Cap(k, size) <= size
           /\ Cap(k, size) = size <=> size <= Mark(k)
           /\ Cap(k, size) # size => Cap(k, size) = Mark(k)
<1>1. Mark(k) \in Nat
  BY MarkIs
<1>2. Cap(k, size) = IF Mark(k) <= size THEN Mark(k) ELSE size
  BY DEF Cap, Least
<1> QED
  BY <1>1, <1>2

\* The bytes of a range.
LEMMA SubSeqChars ==
    ASSUME NEW s \in Seq(Chars), NEW a \in Nat, NEW b \in Nat, b <= Len(s)
    PROVE  /\ SubSeq(s, a + 1, b) \in Seq(Chars)
           /\ Len(SubSeq(s, a + 1, b)) = IF a < b THEN b - a ELSE 0
           /\ \A i \in 1 .. b - a : SubSeq(s, a + 1, b)[i] = s[a + i]
           /\ b <= a => SubSeq(s, a + 1, b) = << >>
OBVIOUS

\* Bytes up to a place, and from there on.
LEMMA SubSeqJoin ==
    ASSUME NEW s \in Seq(Chars), NEW a \in Nat, NEW b \in Nat, a <= b, b <= Len(s)
    PROVE  SubSeq(s, 1, a) \o SubSeq(s, a + 1, b) = SubSeq(s, 1, b)
OBVIOUS

\* The chunks with one more.
LEMMA UpToAppend ==
    ASSUME NEW bytes \in Seq(Chars), NEW n \in Nat
    PROVE  /\ UpTo(bytes, n) \in Seq(Seq(Chars)) /\ Len(UpTo(bytes, n)) = n
           /\ UpTo(bytes, n + 1) = Append(UpTo(bytes, n),
                  SubSeq(bytes, Mark(n) + 1, Cap(n + 1, Len(bytes))))
<1> DEFINE at(k) == SubSeq(bytes, Mark(k - 1) + 1, Cap(k, Len(bytes)))
           m == n + 1
<1>1. ASSUME NEW k \in Nat \ {0} PROVE at(k) \in Seq(Chars)
  <2>1. k - 1 \in Nat /\ Len(bytes) \in Nat
    OBVIOUS
  <2>2. Mark(k - 1) \in Nat /\ Cap(k, Len(bytes)) \in Nat /\ Cap(k, Len(bytes)) <= Len(bytes)
    BY <2>1, MarkIs, CapIs
  <2> QED
    BY <2>2, SubSeqChars
<1>2. m \in Nat \ {0} /\ m - 1 = n
  OBVIOUS
<1>3. at(m) = SubSeq(bytes, Mark(n) + 1, Cap(m, Len(bytes)))
  BY <1>2
<1> HIDE DEF at
<1>4. UpTo(bytes, n) = [k \in 1 .. n |-> at(k)] /\ UpTo(bytes, m) = [k \in 1 .. m |-> at(k)]
  BY DEF UpTo, at
<1> HIDE DEF m
<1>5. \A k \in 1 .. n : at(k) \in Seq(Chars)
  BY <1>1
<1>6. [k \in 1 .. n |-> at(k)] \in Seq(Seq(Chars)) /\ Len([k \in 1 .. n |-> at(k)]) = n
  BY <1>5
<1>7. [k \in 1 .. m |-> at(k)] = Append([k \in 1 .. n |-> at(k)], at(m))
  <2> DEFINE f == [k \in 1 .. n |-> at(k)]
             g == [k \in 1 .. m |-> at(k)]
  <2>1. f \in Seq(Seq(Chars)) /\ Len(f) = n /\ DOMAIN f = 1 .. n /\ at(m) \in Seq(Chars)
    BY <1>1, <1>2, <1>6
  <2>2. \A k \in 1 .. n : f[k] = at(k)
    OBVIOUS
  <2>3. \A k \in 1 .. m : g[k] = at(k)
    OBVIOUS
  <2>4. g = [k \in 1 .. m |-> g[k]]
    OBVIOUS
  <2> HIDE DEF f, g
  <2>5. Append(f, at(m)) = [k \in 1 .. m |-> Append(f, at(m))[k]]
    <3>1. Append(f, at(m)) \in Seq(Seq(Chars)) /\ Len(Append(f, at(m))) = m
      BY <2>1 DEF m
    <3> DEFINE h == Append(f, at(m))
    <3> HIDE DEF h
    <3>2. h \in Seq(Seq(Chars)) /\ Len(h) = m
      BY <3>1 DEF h
    <3>3. h = [k \in 1 .. m |-> h[k]]
      BY <3>2
    <3> QED
      BY <3>3 DEF h
  <2>6. ASSUME NEW k \in 1 .. m PROVE Append(f, at(m))[k] = g[k]
    <3>1. k \in 1 .. n \/ k = m
      BY <1>2
    <3>2. CASE k \in 1 .. n
      BY <2>1, <2>2, <2>3, <3>2
    <3>3. CASE k = m
      BY <1>2, <2>1, <2>3, <3>3
    <3> QED
      BY <3>1, <3>2, <3>3
  <2> QED
    BY <2>4, <2>5, <2>6 DEF f, g
<1> QED
  BY <1>3, <1>4, <1>6, <1>7 DEF m

\* The chunks together are the bytes.
LEMMA UpToFlat ==
    ASSUME NEW bytes \in Seq(Chars)
    PROVE  \A n \in Nat : FlattenSeq(UpTo(bytes, n)) = SubSeq(bytes, 1, Cap(n, Len(bytes)))
<1> DEFINE size == Len(bytes)
           T == {n \in Nat : FlattenSeq(UpTo(bytes, n)) = SubSeq(bytes, 1, Cap(n, size))}
<1>0. size \in Nat
  OBVIOUS
<1>1. 0 \in T
  <2>1. UpTo(bytes, 0) = << >>
    BY DEF UpTo
  <2>2. Cap(0, size) = 0
    BY <1>0, MarkIs DEF Cap, Least
  <2>3. SubSeq(bytes, 1, 0) = << >>
    OBVIOUS
  <2> QED
    BY <2>1, <2>2, <2>3, FlatNone
<1>2. ASSUME NEW n \in Nat, n \in T PROVE n + 1 \in T
  <2> DEFINE m == n + 1
             piece == SubSeq(bytes, Mark(n) + 1, Cap(m, size))
  <2>0. m \in Nat
    OBVIOUS
  <2>1. UpTo(bytes, n) \in Seq(Seq(Chars)) /\ UpTo(bytes, m) = Append(UpTo(bytes, n), piece)
    BY UpToAppend
  <2>2. /\ Mark(n) \in Nat /\ Mark(m) = Mark(n) + Chunk
        /\ Cap(n, size) \in Nat /\ Cap(n, size) <= size
        /\ Cap(m, size) \in Nat /\ Cap(m, size) <= size
    BY <1>0, <2>0, MarkIs, CapIs
  <2>3. piece \in Seq(Chars)
    BY <2>2, SubSeqChars
  <2>4. FlattenSeq(UpTo(bytes, m)) = SubSeq(bytes, 1, Cap(n, size)) \o piece
    <3> HIDE DEF m, piece
    <3>1. FlattenSeq(Append(UpTo(bytes, n), piece)) = FlattenSeq(UpTo(bytes, n)) \o piece
      BY <2>1, <2>3, FlatAppend
    <3> QED
      BY <1>2, <2>1, <3>1
  <2>5. SubSeq(bytes, 1, Cap(n, size)) \o piece = SubSeq(bytes, 1, Cap(m, size))
    <3>1. CASE Mark(n) <= size
      <4>1. Cap(n, size) = Mark(n) /\ Mark(n) <= Cap(m, size)
        BY <1>0, <2>2, <3>1 DEF Cap, Least
      <4>2. Cap(m, size) <= Len(bytes)
        BY <2>2
      <4>3. Mark(n) \in Nat /\ Cap(m, size) \in Nat
        BY <2>2
      <4> HIDE DEF m, size
      <4>4. SubSeq(bytes, 1, Mark(n)) \o SubSeq(bytes, Mark(n) + 1, Cap(m, size)) =
                SubSeq(bytes, 1, Cap(m, size))
        BY ONLY bytes \in Seq(Chars), <4>1, <4>2, <4>3, SubSeqJoin
      <4> QED
        BY <4>1, <4>4
    <3>2. CASE ~(Mark(n) <= size)
      <4>1. Cap(n, size) = size /\ Cap(m, size) = size
        BY <1>0, <2>2, <3>2 DEF Cap, Least
      <4>2. piece = << >>
        BY <2>2, <3>2, <4>1, SubSeqChars
      <4>3. SubSeq(bytes, 1, size) \in Seq(Chars)
        OBVIOUS
      <4> HIDE DEF piece, m
      <4> QED
        BY <4>1, <4>2, <4>3
    <3> QED
      BY <3>1, <3>2
  <2> HIDE DEF m, piece, size
  <2>6. m \in T
    BY <2>0, <2>4, <2>5
  <2> QED
    BY <2>6 DEF m
<1> HIDE DEF T
<1>3. \A n \in Nat : n \in T
  BY <1>1, <1>2, Induction
<1> QED
  BY <1>3 DEF T

-----------------------------------------------------------------------------
(* Loops.                                                                    *)

\* A loop: what it has after each turn.
Runs(g, S, x, turn) ==
    /\ g \in [Nat -> S] /\ g[0] = x
    /\ \A n \in Nat : g[n + 1] = turn[g[n]]

\* A loop has a value after each turn.
LEMMA RunExists ==
    ASSUME NEW S, NEW x \in S, NEW turn \in [S -> S]
    PROVE  \E g : Runs(g, S, x, turn)
<1> DEFINE step == [n \in Nat |-> turn]
<1>1. step \in [Nat -> [S -> S]] /\ x \in S
  OBVIOUS
<1>2. \A n \in Nat : step[n + 1] = turn
  OBVIOUS
<1> HIDE DEF step
<1>3. PICK g : Iterates(g, S, x, step)
  <2>1. HasIteration(S, x, step)
    BY ONLY <1>1, Iteration
  <2> QED
    BY ONLY <2>1 DEF HasIteration
<1>4. Runs(g, S, x, turn)
  BY <1>2, <1>3 DEF Runs, Iterates
<1> QED
  BY <1>4

\* What is known of a loop.
LEMMA RunIs ==
    ASSUME NEW S, NEW x, NEW turn, NEW g, Runs(g, S, x, turn)
    PROVE  /\ g = [n \in Nat |-> g[n]] /\ g[0] = x
           /\ \A n \in Nat : g[n] \in S /\ g[n + 1] = turn[g[n]]
           /\ \A n \in Nat \ {0} : g[n - 1] \in S /\ g[n] = turn[g[n - 1]]
<1>1. /\ g \in [Nat -> S] /\ g[0] = x
      /\ \A n \in Nat : g[n + 1] = turn[g[n]]
  BY DEF Runs
<1>2. ASSUME NEW n \in Nat \ {0} PROVE g[n - 1] \in S /\ g[n] = turn[g[n - 1]]
  <2> DEFINE m == n - 1
  <2>1. m \in Nat /\ m + 1 = n
    OBVIOUS
  <2> HIDE DEF m
  <2>2. g[m + 1] = turn[g[m]] /\ g[m] \in S
    BY <1>1, <2>1
  <2> QED
    BY <2>1, <2>2 DEF m
<1> QED
  BY <1>1, <1>2

\* What a recursive definition says of its turns.
Turns(f, S, x, turn) == f[0] = x /\ \A n \in Nat : f[n] \in S => f[n + 1] = turn[f[n]]

\* The values that a recursive definition asks for are those of the loop.
LEMMA RunOnly ==
    ASSUME NEW S, NEW x, NEW turn, NEW f, NEW g, Runs(g, S, x, turn), Turns(f, S, x, turn)
    PROVE  \A n \in Nat : f[n] = g[n]
<1> DEFINE T == {n \in Nat : f[n] = g[n]}
<1>1. 0 \in T
  BY RunIs DEF Turns
<1>2. ASSUME NEW n \in Nat, n \in T PROVE n + 1 \in T
  <2> DEFINE m == n + 1
  <2>1. f[n] = g[n] /\ g[n] \in S /\ m \in Nat
    BY <1>2, RunIs
  <2>2. f[m] = turn[f[n]] /\ g[m] = turn[g[n]]
    BY <2>1, RunIs DEF Turns
  <2> HIDE DEF m
  <2>3. m \in T
    BY <2>1, <2>2
  <2> QED
    BY <2>3 DEF m
<1> HIDE DEF T
<1>3. \A n \in Nat : n \in T
  BY <1>1, <1>2, Induction
<1> QED
  BY <1>3 DEF T

\* Consecutive parts.
LEMMA SubSeqMore ==
    ASSUME NEW s \in Seq(Chars), NEW a \in Nat, NEW b \in Nat, NEW c \in Nat,
           a <= b, b <= c, c <= Len(s)
    PROVE  SubSeq(s, a + 1, b) \o SubSeq(s, b + 1, c) = SubSeq(s, a + 1, c)
<1> DEFINE u == SubSeq(s, a + 1, b)
           v == SubSeq(s, b + 1, c)
           w == SubSeq(s, a + 1, c)
<1>1. /\ u \in Seq(Chars) /\ v \in Seq(Chars) /\ w \in Seq(Chars)
      /\ Len(u) = b - a /\ Len(v) = c - b /\ Len(w) = c - a
      /\ \A i \in 1 .. b - a : u[i] = s[a + i]
      /\ \A i \in 1 .. c - b : v[i] = s[b + i]
      /\ \A i \in 1 .. c - a : w[i] = s[a + i]
  OBVIOUS
<1> HIDE DEF u, v, w
<1>2. u \o v \in Seq(Chars) /\ Len(u \o v) = c - a
  BY <1>1
<1>3. ASSUME NEW i \in 1 .. c - a PROVE (u \o v)[i] = w[i]
  <2>1. CASE i <= b - a
    BY <1>1, <2>1
  <2>2. CASE ~(i <= b - a)
    <3>1. i - (b - a) \in 1 .. c - b /\ b + (i - (b - a)) = a + i
      BY <2>2
    <3>2. (u \o v)[i] = v[i - (b - a)]
      <4> DEFINE j == i - (b - a)
      <4>1. /\ j \in Nat \ {0} /\ j <= Len(v) /\ Len(u) + j = i
            /\ u \in Seq(Chars) /\ v \in Seq(Chars)
        BY <1>1, <3>1
      <4> HIDE DEF j
      <4>2. (u \o v)[Len(u) + j] = v[j]
        BY ONLY <4>1, ConcatAt
      <4> QED
        BY <4>1, <4>2 DEF j
    <3>3. v[i - (b - a)] = s[b + (i - (b - a))]
      BY <1>1, <3>1
    <3> QED
      BY <1>1, <3>1, <3>2, <3>3
  <2> QED
    BY <2>1, <2>2
<1>4. u \o v = w
  <2> DEFINE z == u \o v
  <2>1. z \in Seq(Chars) /\ Len(z) = c - a /\ \A i \in 1 .. c - a : z[i] = w[i]
    BY <1>2, <1>3
  <2> HIDE DEF z
  <2>2. z = w
    BY <1>1, <2>1
  <2> QED
    BY <2>2 DEF z
<1> QED
  BY <1>4 DEF u, v, w

-----------------------------------------------------------------------------
(* One chunk of BlobReader.                                                *)

\* What the loop of read_next has when it fills a chunk of goal bytes from a place on.
Filled(ss, from, goal) ==
    {at \in [bytes : Seq(Chars), index : 1 .. Len(ss), offset : Nat, need : Nat] :
        /\ at.offset <= ss[at.index].len /\ at.need <= goal
        /\ StartOf(ss, at.index) + at.offset = from + (goal - at.need)
        /\ at.bytes = SubSeq(ReadAll(ss), from + 1, from + (goal - at.need))}

\* What it does next.
Advanced(ss, at, next) ==
    \/ next.need = 0
    \/ at.offset = ss[at.index].len /\ next.index = at.index + 1
    \/ /\ at.offset # ss[at.index].len /\ next.index = at.index
       /\ next.offset = ss[next.index].len

\* A part of a segment is a part of all bytes, at the place of the segment.
LEMMA PieceOfAll ==
    ASSUME NEW ss \in Seq(ValidSegments), NEW k \in 1 .. Len(ss), NEW i \in Nat, NEW n \in Nat,
           i + n <= ss[k].len
    PROVE  LET from == ss[k].offset + i
               place == StartOf(ss, k) + i
           IN  SubSeq(ss[k].source, from + 1, from + n) = SubSeq(ReadAll(ss), place + 1, place + n)
<1> DEFINE s == ss[k]
           from == s.offset + i
           place == StartOf(ss, k) + i
           all == ReadAll(ss)
           u == SubSeq(s.source, from + 1, from + n)
           w == SubSeq(all, place + 1, place + n)
<1>1. s \in ValidSegments
  OBVIOUS
<1>2. /\ s.source \in Seq(Chars) /\ s.offset \in Nat /\ s.len \in Nat
      /\ s.offset + s.len <= Len(s.source) /\ Len(s.source) \in Nat
      /\ \A j \in 1 .. s.len : Read(s)[j] = s.source[s.offset + j]
  BY <1>1, SegmentFields, ReadType
<1>3. /\ StartOf(ss, k) \in Nat /\ StartOf(ss, k) + s.len <= TotalLen(ss)
      /\ \A j \in 1 .. s.len : all[StartOf(ss, k) + j] = Read(s)[j]
      /\ all \in Seq(Chars) /\ Len(all) = TotalLen(ss) /\ TotalLen(ss) \in Nat
  BY SegmentsPlaced, ReadAllType, ReadAllLen, TotalType DEF Placed, PlacedAt
<1>4. /\ from \in Nat /\ from + n <= Len(s.source)
      /\ place \in Nat /\ place + n <= Len(all)
      /\ i + n <= s.len
  <2>1. i + n <= s.len
    OBVIOUS
  <2> HIDE DEF s, all
  <2> DEFINE st == StartOf(ss, k)
             l == s.len
             o == s.offset
  <2>2. st \in Nat /\ l \in Nat /\ o \in Nat /\ st + l <= Len(all) /\ o + l <= Len(s.source)
        /\ Len(all) \in Nat
    BY <1>2, <1>3
  <2> HIDE DEF st, l, o
  <2>3. o + i \in Nat /\ o + i + n <= Len(s.source) /\ st + i \in Nat /\ st + i + n <= Len(all)
    BY <1>2, <2>1, <2>2 DEF l
  <2> QED
    BY <2>1, <2>3 DEF st, o
<1> HIDE DEF all
<1>5. ASSUME NEW q \in Seq(Chars), NEW f \in Nat, f + n <= Len(q)
      PROVE  /\ SubSeq(q, f + 1, f + n) \in Seq(Chars) /\ Len(SubSeq(q, f + 1, f + n)) = n
             /\ \A j \in 1 .. n : SubSeq(q, f + 1, f + n)[j] = q[f + j]
  BY <1>5
<1> HIDE DEF s
<1>6. /\ u \in Seq(Chars) /\ Len(u) = n /\ \A j \in 1 .. n : u[j] = s.source[from + j]
  BY <1>2, <1>4, <1>5
<1>7. /\ w \in Seq(Chars) /\ Len(w) = n /\ \A j \in 1 .. n : w[j] = all[place + j]
  BY <1>3, <1>4, <1>5
<1>8. ASSUME NEW j \in 1 .. n PROVE s.source[from + j] = all[place + j]
  <2>1. i + j \in 1 .. s.len
    <3>1. ASSUME NEW l \in Nat, NEW f \in Nat, NEW m \in Nat, f + m <= l, NEW h \in 1 .. m
          PROVE  f + h \in 1 .. l
      BY ONLY <3>1
    <3>2. s.len \in Nat /\ i \in Nat /\ n \in Nat /\ i + n <= s.len
      BY ONLY <1>2, <1>4
    <3> QED
      BY ONLY <3>1, <3>2, j \in 1 .. n
  <2>2. from + j = s.offset + (i + j) /\ place + j = StartOf(ss, k) + (i + j)
    BY <1>2, <1>3
  <2>3. s.source[s.offset + (i + j)] = all[StartOf(ss, k) + (i + j)]
    BY <1>2, <1>3, <2>1
  <2> QED
    BY <2>2, <2>3
<1> HIDE DEF u, w, from, place
<1>9. u = w
  BY <1>6, <1>7, <1>8
<1> QED
  BY <1>9 DEF u, w, from, place, s, all

\* What is known of a chunk that is being filled.
LEMMA FilledFields ==
    ASSUME NEW ss \in Seq(ValidSegments), NEW from \in Nat, NEW goal \in Nat,
           NEW at \in Filled(ss, from, goal)
    PROVE  /\ at \in [bytes : Seq(Chars), index : 1 .. Len(ss), offset : Nat, need : Nat]
           /\ at.bytes \in Seq(Chars) /\ at.index \in 1 .. Len(ss)
           /\ at.offset \in Nat /\ at.need \in Nat /\ at.need <= goal
           /\ ss[at.index] \in ValidSegments /\ ss[at.index].len \in Nat
           /\ at.offset <= ss[at.index].len
           /\ StartOf(ss, at.index) + at.offset = from + (goal - at.need)
           /\ at.bytes = SubSeq(ReadAll(ss), from + 1, from + (goal - at.need))
<1>1. /\ at \in [bytes : Seq(Chars), index : 1 .. Len(ss), offset : Nat, need : Nat]
      /\ at.offset <= ss[at.index].len /\ at.need <= goal
      /\ StartOf(ss, at.index) + at.offset = from + (goal - at.need)
      /\ at.bytes = SubSeq(ReadAll(ss), from + 1, from + (goal - at.need))
  BY DEF Filled
<1>2. /\ at.bytes \in Seq(Chars) /\ at.index \in 1 .. Len(ss)
      /\ at.offset \in Nat /\ at.need \in Nat
  BY ONLY <1>1
<1>3. ss[at.index] \in ValidSegments
  BY <1>2
<1> QED
  BY <1>1, <1>2, <1>3, SegmentFields

\* And what makes one.
LEMMA FilledMade ==
    ASSUME NEW ss \in Seq(ValidSegments), NEW from \in Nat, NEW goal \in Nat,
           NEW bytes \in Seq(Chars), NEW index \in 1 .. Len(ss), NEW offset \in Nat, NEW need \in Nat,
           offset <= ss[index].len, need <= goal,
           StartOf(ss, index) + offset = from + (goal - need),
           bytes = SubSeq(ReadAll(ss), from + 1, from + (goal - need))
    PROVE  [bytes |-> bytes, index |-> index, offset |-> offset, need |-> need]
               \in Filled(ss, from, goal)
BY DEF Filled

\* A turn of the loop.
LEMMA FillStepIs ==
    ASSUME NEW ss \in Seq(ValidSegments), NEW from \in Nat, NEW goal \in Nat,
           from + goal <= TotalLen(ss), NEW at \in Filled(ss, from, goal)
    PROVE  /\ FillStep(ss, at) \in Filled(ss, from, goal)
           /\ Advanced(ss, at, FillStep(ss, at))
<1> DEFINE next == FillStep(ss, at)
           k == at.index
           s == ss[k]
           l == s.len
           o == at.offset
           d == at.need
           p == StartOf(ss, k)
           take == Least(d, l - o)
           all == ReadAll(ss)
           total == TotalLen(ss)
<1>0. at \in [bytes : Seq(Chars), index : 1 .. Len(ss), offset : Nat, need : Nat]
  BY FilledFields
<1>1. /\ at.bytes \in Seq(Chars) /\ k \in 1 .. Len(ss)
      /\ o \in Nat /\ d \in Nat /\ d <= goal
      /\ s \in ValidSegments /\ l \in Nat /\ o <= l
      /\ p + o = from + (goal - d)
      /\ at.bytes = SubSeq(all, from + 1, from + (goal - d))
  BY FilledFields
<1>2. /\ p \in Nat /\ p + l <= total /\ total \in Nat
      /\ k < Len(ss) => StartOf(ss, k + 1) = p + l
      /\ k = Len(ss) => total = p + l
      /\ all \in Seq(Chars) /\ Len(all) = total
  BY <1>1, SegmentsPlaced, TotalType, ReadAllType, ReadAllLen DEF Placed, PlacedAt
<1>3. CASE d = 0
  <2>1. next = at
    BY <1>3 DEF FillStep
  <2> QED
    BY <1>3, <2>1 DEF Advanced
<1>4. CASE d # 0 /\ take = 0
  <2>1. o = l
    <3> HIDE DEF o, l, d
    <3> QED
      BY <1>1, <1>4 DEF Least
  <2>2. k < Len(ss)
    <3> SUFFICES ASSUME k = Len(ss) PROVE FALSE
      BY <1>1
    <3>1. total = p + l
      BY <1>2
    <3> HIDE DEF o, l, d, p, total
    <3>2. total = from + (goal - d)
      BY <1>1, <2>1, <3>1
    <3> QED
      BY <1>1, <1>4, <3>2 DEF total
  <2> DEFINE m == k + 1
  <2>3. m \in 1 .. Len(ss) /\ StartOf(ss, m) = p + l
    <3>1. StartOf(ss, k + 1) = p + l
      BY <1>2, <2>2
    <3>2. Len(ss) \in Nat
      OBVIOUS
    <3>3. k + 1 \in 1 .. Len(ss)
      <4> DEFINE size == Len(ss)
      <4>1. k \in 1 .. size /\ k < size /\ size \in Nat
        BY <1>1, <2>2, <3>2
      <4> HIDE DEF k, size
      <4>2. k + 1 \in 1 .. size
        BY ONLY <4>1
      <4> QED
        BY <4>2 DEF size
    <3> QED
      BY <3>1, <3>3
  <2>4. next = [bytes |-> at.bytes, index |-> m, offset |-> 0, need |-> d]
    <3>1. next = [at EXCEPT !.index = @ + 1, !.offset = 0]
      BY <1>4 DEF FillStep
    <3> QED
      BY <1>0, <3>1
  <2>5. 0 <= ss[m].len
    <3>1. ss[m] \in ValidSegments
      BY <2>3
    <3> QED
      BY <3>1, SegmentFields
  <2> HIDE DEF m, next
  <2>6. StartOf(ss, m) + 0 = from + (goal - d)
    BY <1>1, <1>2, <2>1, <2>3
  <2>7. next \in Filled(ss, from, goal)
    <3> HIDE DEF k, s, l, o, d, p, take, all, total
    <3>1. 0 \in Nat
      OBVIOUS
    <3> QED
      BY <1>1, <2>3, <2>4, <2>5, <2>6, <3>1, FilledMade DEF all
  <2>8. next.index = k + 1
    BY <2>4 DEF m
  <2> QED
    BY <2>1, <2>7, <2>8 DEF Advanced, next
<1>5. CASE d # 0 /\ take # 0
  <2> DEFINE f == s.offset + o
             piece == SubSeq(s.source, f + 1, f + take)
             rest == d - take
             more == o + take
             bytes == at.bytes \o piece
  <2>1. take \in Nat /\ take <= d /\ take <= l - o /\ (take = d \/ take = l - o)
    <3> HIDE DEF l, o, d
    <3> QED
      BY <1>1 DEF Least
  <2>2. rest \in Nat /\ more \in Nat /\ more <= l /\ rest <= goal
        /\ p + more = from + (goal - rest)
    <3> HIDE DEF take, l, o, d, p
    <3> QED
      BY <1>1, <1>2, <2>1
  <2>3. next = [bytes |-> bytes, index |-> k, offset |-> more, need |-> rest]
    <3>1. next = [at EXCEPT !.bytes = @ \o SubSeq(s.source, s.offset + o + 1, s.offset + o + take),
                            !.offset = @ + take, !.need = @ - take]
      BY <1>5 DEF FillStep
    <3> QED
      BY <1>0, <3>1
  <2>4. piece = SubSeq(all, p + o + 1, p + o + take)
    <3>1. o + take <= l
      BY <2>2
    <3>2. k \in 1 .. Len(ss) /\ o \in Nat /\ take \in Nat /\ o + take <= ss[k].len
      BY <1>1, <2>1, <3>1
    <3> HIDE DEF take, o, k
    <3>3. SubSeq(ss[k].source, ss[k].offset + o + 1, ss[k].offset + o + take) =
              SubSeq(ReadAll(ss), StartOf(ss, k) + o + 1, StartOf(ss, k) + o + take)
      BY ONLY <3>2, ss \in Seq(ValidSegments), PieceOfAll
    <3> QED
      BY <3>3
  <2>5. bytes = SubSeq(all, from + 1, from + (goal - rest)) /\ bytes \in Seq(Chars)
    <3> DEFINE b == p + o
               c == p + o + take
    <3>1. b \in Nat /\ c \in Nat /\ from <= b /\ b <= c /\ c <= Len(all)
          /\ b = from + (goal - d) /\ c = from + (goal - rest)
      <4> HIDE DEF take, l, o, d, p, total, all
      <4> QED
        BY <1>1, <1>2, <2>1, <2>2
    <3>2. at.bytes = SubSeq(all, from + 1, b) /\ piece = SubSeq(all, b + 1, c)
      BY <1>1, <2>4, <3>1
    <3> HIDE DEF b, c, all, piece, rest
    <3>3. SubSeq(all, from + 1, b) \o SubSeq(all, b + 1, c) = SubSeq(all, from + 1, c)
      <4>1. all \in Seq(Chars) /\ b \in Nat /\ c \in Nat /\ from <= b /\ b <= c /\ c <= Len(all)
            /\ from \in Nat
        BY <1>2, <3>1
      <4> QED
        BY ONLY <4>1, SubSeqMore
    <3>4. SubSeq(all, from + 1, c) \in Seq(Chars)
      BY <1>2, <3>1
    <3> QED
      BY <3>1, <3>2, <3>3, <3>4
  <2> HIDE DEF bytes, more, rest
  <2>6. next \in Filled(ss, from, goal)
    <3>1. more <= ss[k].len /\ StartOf(ss, k) + more = from + (goal - rest)
          /\ bytes = SubSeq(ReadAll(ss), from + 1, from + (goal - rest))
      BY <2>2, <2>5
    <3> HIDE DEF k, s, l, o, d, p, take, all, total, next
    <3> QED
      BY <1>1, <2>2, <2>3, <2>5, <3>1, FilledMade
  <2>7. rest = 0 \/ more = l
    <3> HIDE DEF take, l, o, d
    <3> QED
      BY <1>1, <2>1 DEF rest, more
  <2>8. o # l
    <3> HIDE DEF l, o, d, take
    <3> QED
      BY <1>1, <1>5, <2>1
  <2>9. next.need = rest /\ next.index = k /\ next.offset = more
    BY <2>3
  <2> HIDE DEF next
  <2> QED
    BY <2>6, <2>7, <2>8, <2>9 DEF Advanced, next
<1> QED
  BY <1>3, <1>4, <1>5

\* After so many turns, either the chunk is full or the loop has come this far.
Progress(ss, start, at, n) ==
    at.need = 0 \/ n <= 2 * (at.index - start) + (IF at.offset = ss[at.index].len THEN 1 ELSE 0)

\* A turn goes on to the next segment, or takes what the segment has.
LEMMA ProgressStep ==
    ASSUME NEW ss \in Seq(ValidSegments), NEW from \in Nat, NEW goal \in Nat,
           from + goal <= TotalLen(ss), NEW at \in Filled(ss, from, goal),
           NEW start \in Nat, NEW n \in Nat, Progress(ss, start, at, n)
    PROVE  Progress(ss, start, FillStep(ss, at), n + 1)
<1> DEFINE next == FillStep(ss, at)
<1>1. next \in Filled(ss, from, goal) /\ Advanced(ss, at, next)
  BY FillStepIs
<1>2. at.index \in Int /\ next.index \in Int
  <2> HIDE DEF next
  <2>1. at.index \in 1 .. Len(ss)
    BY FilledFields
  <2>2. next.index \in 1 .. Len(ss)
    BY <1>1, FilledFields
  <2> QED
    BY ONLY <2>1, <2>2
<1>3. at.need = 0 => next.need = 0
  BY DEF FillStep
<1> HIDE DEF next
<1>4. CASE next.need = 0
  BY <1>4 DEF Progress, next
<1>5. CASE at.need # 0 /\ at.offset = ss[at.index].len /\ next.index = at.index + 1
  <2>1. n <= 2 * (at.index - start) + 1
    BY <1>5 DEF Progress
  <2>2. n + 1 <= 2 * (next.index - start)
    <3> DEFINE i == at.index
               j == next.index
    <3>1. i \in Int /\ j = i + 1 /\ n <= 2 * (i - start) + 1
      BY <1>2, <1>5, <2>1
    <3> HIDE DEF i, j
    <3>2. n + 1 <= 2 * (j - start)
      BY ONLY <3>1, n \in Nat, start \in Nat
    <3> QED
      BY <3>2 DEF j
  <2>3. n + 1 <= 2 * (next.index - start) + (IF next.offset = ss[next.index].len THEN 1 ELSE 0)
    BY <1>2, <2>2
  <2> QED
    BY <2>3 DEF Progress, next
<1>6. CASE /\ at.need # 0 /\ at.offset # ss[at.index].len /\ next.index = at.index
           /\ next.offset = ss[next.index].len
  <2>1. n <= 2 * (at.index - start) + 0
    BY <1>6 DEF Progress
  <2>2. n + 1 <= 2 * (next.index - start) + 1
    BY <1>2, <1>6, <2>1
  <2>3. n + 1 <= 2 * (next.index - start) + (IF next.offset = ss[next.index].len THEN 1 ELSE 0)
    BY <1>6, <2>2
  <2> QED
    BY <2>3 DEF Progress, next
<1> QED
  BY <1>1, <1>3, <1>4, <1>5, <1>6 DEF Advanced

\* A chunk is filled with the bytes from its place on.
LEMMA FillIs ==
    ASSUME NEW ss \in Seq(ValidSegments), NEW from \in Nat, NEW goal \in Nat,
           from + goal <= TotalLen(ss),
           NEW index \in 1 .. Len(ss), NEW offset \in Nat, offset <= ss[index].len,
           StartOf(ss, index) + offset = from
    PROVE  /\ Fill(ss, index, offset, goal) \in Filled(ss, from, goal)
           /\ Fill(ss, index, offset, goal).need = 0
<1> DEFINE S == Filled(ss, from, goal)
           x == [bytes |-> << >>, index |-> index, offset |-> offset, need |-> goal]
           turn == [at \in S |-> FillStep(ss, at)]
           size == Len(ss)
<1>1. x \in S
  <2>1. /\ << >> \in Seq(Chars) /\ goal <= goal /\ from + (goal - goal) = from
        /\ SubSeq(ReadAll(ss), from + 1, from) = << >>
    BY ReadAllType
  <2>2. StartOf(ss, index) + offset = from + (goal - goal)
    BY <2>1
  <2>3. << >> = SubSeq(ReadAll(ss), from + 1, from + (goal - goal))
    BY <2>1
  <2> QED
    BY <2>1, <2>2, <2>3, FilledMade
<1>2. turn \in [S -> S] /\ \A at \in S : turn[at] = FillStep(ss, at)
  BY FillStepIs
<1> HIDE DEF S, turn
<1>3. x.index = index
  OBVIOUS
<1> HIDE DEF x
<1>4. PICK g : Runs(g, S, x, turn)
  BY ONLY <1>1, <1>2, RunExists
<1>5. /\ g = [n \in Nat |-> g[n]] /\ g[0] = x
      /\ \A n \in Nat : g[n] \in S /\ g[n + 1] = FillStep(ss, g[n])
      /\ \A n \in Nat \ {0} : g[n] = FillStep(ss, g[n - 1])
  <2>1. /\ g = [n \in Nat |-> g[n]] /\ g[0] = x
        /\ \A n \in Nat : g[n] \in S /\ g[n + 1] = turn[g[n]]
        /\ \A n \in Nat \ {0} : g[n - 1] \in S /\ g[n] = turn[g[n - 1]]
    BY ONLY <1>4, RunIs
  <2> QED
    BY <1>2, <2>1
<1> DEFINE f == CHOOSE at : at = [n \in Nat |-> IF n = 0 THEN x ELSE FillStep(ss, at[n - 1])]
<1>6. f = [n \in Nat |-> IF n = 0 THEN x ELSE FillStep(ss, f[n - 1])]
  <2>1. g = [n \in Nat |-> IF n = 0 THEN x ELSE FillStep(ss, g[n - 1])]
    BY <1>5
  <2>2. \E at : at = [n \in Nat |-> IF n = 0 THEN x ELSE FillStep(ss, at[n - 1])]
    BY ONLY <2>1
  <2> QED
    BY ONLY <2>2
<1>7. Fill(ss, index, offset, goal) = f[2 * size]
  BY DEF Fill, x
<1> HIDE DEF f
<1>8. Turns(f, S, x, turn)
  <2>1. f[0] = x
    BY <1>6
  <2>2. ASSUME NEW n \in Nat, f[n] \in S PROVE f[n + 1] = turn[f[n]]
    <3>1. n + 1 \in Nat /\ n + 1 # 0 /\ (n + 1) - 1 = n
      OBVIOUS
    <3>2. f[n + 1] = FillStep(ss, f[n])
      BY <1>6, <3>1
    <3> QED
      BY <1>2, <2>2, <3>2
  <2> QED
    BY <2>1, <2>2 DEF Turns
<1>9. \A n \in Nat : f[n] = g[n]
  BY ONLY <1>4, <1>8, RunOnly
<1>10. \A n \in Nat : Progress(ss, index, g[n], n)
  <2> DEFINE T == {n \in Nat : Progress(ss, index, g[n], n)}
  <2>1. 0 \in T
    <3>1. g[0].index = index
      BY <1>3, <1>5
    <3>2. 0 <= 2 * (g[0].index - index) + (IF g[0].offset = ss[g[0].index].len THEN 1 ELSE 0)
      BY <3>1
    <3> QED
      BY <3>2 DEF Progress
  <2>2. ASSUME NEW n \in Nat, n \in T PROVE n + 1 \in T
    <3>0. Progress(ss, index, g[n], n)
      BY <2>2
    <3>1. g[n] \in Filled(ss, from, goal) /\ g[n + 1] = FillStep(ss, g[n])
      BY <1>5 DEF S
    <3> DEFINE h == g[n]
    <3> HIDE DEF h
    <3>2. h \in Filled(ss, from, goal) /\ Progress(ss, index, h, n) /\ index \in Nat
      BY <3>0, <3>1 DEF h
    <3>3. Progress(ss, index, FillStep(ss, h), n + 1)
      BY <3>2, ProgressStep
    <3> QED
      BY <3>1, <3>3 DEF h
  <2> HIDE DEF T
  <2>3. \A n \in Nat : n \in T
    BY <2>1, <2>2, Induction
  <2> QED
    BY <2>3 DEF T
<1>11. g[2 * size].need = 0
  <2> DEFINE at == g[2 * size]
  <2>0. size \in Nat /\ 2 * size \in Nat
    OBVIOUS
  <2>1. at \in Filled(ss, from, goal) /\ Progress(ss, index, at, 2 * size)
    BY <1>5, <1>10, <2>0 DEF S
  <2> HIDE DEF at
  <2>2. at.index \in 1 .. size
    BY <2>1, FilledFields
  <2> HIDE DEF size
  <2>3. ASSUME at.need # 0 PROVE FALSE
    <3> DEFINE i == at.index
               more == IF at.offset = ss[at.index].len THEN 1 ELSE 0
    <3>1. 2 * size <= 2 * (i - index) + more
      BY <2>1, <2>3 DEF Progress
    <3>2. index \in 1 .. size /\ i \in 1 .. size /\ more \in {0, 1}
      BY <2>2 DEF size
    <3> HIDE DEF i, more
    <3> QED
      BY ONLY <2>0, <3>1, <3>2
  <2> QED
    BY <2>3 DEF at
<1> QED
  <2>0. 2 * size \in Nat
    OBVIOUS
  <2> QED
    <3>1. Fill(ss, index, offset, goal) = g[2 * size]
      BY <1>7, <1>9, <2>0
    <3>2. g[2 * size] \in Filled(ss, from, goal)
      BY <1>5, <2>0 DEF S
    <3> QED
      BY <1>11, <3>1, <3>2

-----------------------------------------------------------------------------
(* BlobReader, from call to call.                                            *)

\* What BlobReader has after some calls of read_next: the chunks up to a place, and
\* that place in the segments.
ReaderStates(ss) ==
    {at \in [chunks : Seq(Seq(Chars)), index : 1 .. Len(ss), offset : Nat, remaining : Nat] :
        /\ at.chunks = UpTo(ReadAll(ss), Len(at.chunks))
        /\ Len(at.chunks) <= Count(TotalLen(ss))
        /\ at.remaining = TotalLen(ss) - Cap(Len(at.chunks), TotalLen(ss))
        /\ at.offset <= ss[at.index].len
        /\ StartOf(ss, at.index) + at.offset = Cap(Len(at.chunks), TotalLen(ss))}

\* What is known of a BlobReader between two calls.
LEMMA ReaderFields ==
    ASSUME NEW ss \in Seq(ValidSegments), NEW at \in ReaderStates(ss)
    PROVE  /\ at \in [chunks : Seq(Seq(Chars)), index : 1 .. Len(ss), offset : Nat, remaining : Nat]
           /\ at.chunks \in Seq(Seq(Chars)) /\ Len(at.chunks) \in Nat
           /\ at.index \in 1 .. Len(ss) /\ at.offset \in Nat /\ at.remaining \in Nat
           /\ at.chunks = UpTo(ReadAll(ss), Len(at.chunks))
           /\ Len(at.chunks) <= Count(TotalLen(ss))
           /\ at.remaining = TotalLen(ss) - Cap(Len(at.chunks), TotalLen(ss))
           /\ at.offset <= ss[at.index].len
           /\ StartOf(ss, at.index) + at.offset = Cap(Len(at.chunks), TotalLen(ss))
<1>1. /\ at \in [chunks : Seq(Seq(Chars)), index : 1 .. Len(ss), offset : Nat, remaining : Nat]
      /\ at.chunks = UpTo(ReadAll(ss), Len(at.chunks))
      /\ Len(at.chunks) <= Count(TotalLen(ss))
      /\ at.remaining = TotalLen(ss) - Cap(Len(at.chunks), TotalLen(ss))
      /\ at.offset <= ss[at.index].len
      /\ StartOf(ss, at.index) + at.offset = Cap(Len(at.chunks), TotalLen(ss))
  BY DEF ReaderStates
<1>2. /\ at.chunks \in Seq(Seq(Chars)) /\ at.index \in 1 .. Len(ss)
      /\ at.offset \in Nat /\ at.remaining \in Nat
  BY ONLY <1>1
<1>3. Len(at.chunks) \in Nat
  BY ONLY <1>2
<1> QED
  BY <1>1, <1>2, <1>3

\* And what makes one.
LEMMA ReaderMade ==
    ASSUME NEW ss \in Seq(ValidSegments), NEW n \in Nat, NEW index \in 1 .. Len(ss),
           NEW offset \in Nat, NEW remaining \in Nat, NEW chunks,
           chunks = UpTo(ReadAll(ss), n), n <= Count(TotalLen(ss)),
           remaining = TotalLen(ss) - Cap(n, TotalLen(ss)),
           offset <= ss[index].len, StartOf(ss, index) + offset = Cap(n, TotalLen(ss))
    PROVE  [chunks |-> chunks, index |-> index, offset |-> offset, remaining |-> remaining]
               \in ReaderStates(ss)
<1>1. chunks \in Seq(Seq(Chars)) /\ Len(chunks) = n
  BY ReadAllType, UpToAppend
<1> QED
  BY <1>1 DEF ReaderStates

\* While bytes are missing, the next chunk is a whole one, or what is left.
LEMMA NextChunk ==
    ASSUME NEW size \in Nat, NEW n \in Nat, n <= Count(size), Cap(n, size) # size
    PROVE  LET goal == Least(Chunk, size - Cap(n, size))
           IN  /\ Cap(n, size) = Mark(n) /\ goal \in Nat
               /\ Mark(n) \in Nat /\ Mark(n) + goal = Cap(n + 1, size)
               /\ size - Cap(n, size) - goal = size - Cap(n + 1, size)
               /\ n + 1 <= Count(size) /\ Mark(n) + goal <= size
<1> DEFINE m == n + 1
<1>1. m \in Nat
  OBVIOUS
<1>2. Mark(n) \in Nat /\ Mark(m) = Mark(n) + Chunk
  BY MarkIs
<1>3. Cap(n, size) = Mark(n) /\ Cap(n, size) <= size
  BY CapIs
<1>4. ~(size <= Mark(n))
  BY CapIs
<1>5. Cap(m, size) = IF Mark(n) + Chunk <= size THEN Mark(n) + Chunk ELSE size
  BY <1>2 DEF Cap, Least
<1>6. Count(size) \in Nat /\ size <= Mark(Count(size))
  BY CountIs
<1>7. m <= Count(size)
  <2> SUFFICES ASSUME Count(size) <= n PROVE FALSE
    BY <1>6
  <2>1. Mark(Count(size)) <= Mark(n) /\ Mark(Count(size)) \in Nat
    BY <1>6, MarkMono, MarkIs
  <2> QED
    BY <1>2, <1>4, <1>6, <2>1
<1> QED
  BY <1>1, <1>2, <1>3, <1>4, <1>5, <1>7 DEF Least

\* A call of read_next.
LEMMA ReadNextIs ==
    ASSUME NEW ss \in Seq(ValidSegments), NEW at \in ReaderStates(ss)
    PROVE  /\ ReadNext(ss, at) \in ReaderStates(ss)
           /\ at.remaining # 0 => Len(ReadNext(ss, at).chunks) = Len(at.chunks) + 1
           /\ at.remaining = 0 => ReadNext(ss, at) = at
<1> DEFINE size == TotalLen(ss)
           all == ReadAll(ss)
           n == Len(at.chunks)
           left == at.remaining
<1>1. CASE left = 0
  BY <1>1 DEF ReadNext
<1>2. CASE left # 0
  <2> DEFINE goal == Least(Chunk, left)
             from == Mark(n)
             next == Fill(ss, at.index, at.offset, goal)
             m == n + 1
  <2>1. /\ size \in Nat /\ n \in Nat /\ left \in Nat /\ left = size - Cap(n, size)
        /\ at.index \in 1 .. Len(ss) /\ at.offset \in Nat /\ at.offset <= ss[at.index].len
        /\ StartOf(ss, at.index) + at.offset = Cap(n, size)
        /\ n <= Count(size) /\ at.chunks = UpTo(all, n)
    BY TotalType, ReaderFields
  <2>2. all \in Seq(Chars) /\ Len(all) = size
    BY ReadAllType, ReadAllLen
  <2>3. Cap(n, size) \in Nat /\ Cap(n, size) # size
    <3>1. Cap(n, size) \in Nat
      BY <2>1, CapIs
    <3> HIDE DEF size, left, n
    <3> QED
      BY <1>2, <2>1, <3>1
  <2> HIDE DEF size, all, n, left
  <2>4. /\ Cap(n, size) = from /\ goal \in Nat /\ from \in Nat
        /\ from + goal = Cap(m, size) /\ left - goal = size - Cap(m, size)
        /\ m <= Count(size) /\ from + goal <= size /\ m \in Nat
    BY <2>1, <2>3, NextChunk
  <2> HIDE DEF goal, from, m
  <2> HIDE DEF next
  <2>5. next \in Filled(ss, from, goal) /\ next.need = 0
    <3>1. from + goal <= TotalLen(ss) /\ StartOf(ss, at.index) + at.offset = from
      BY <2>1, <2>4 DEF size
    <3> DEFINE i == at.index
               o == at.offset
    <3>2. /\ from \in Nat /\ goal \in Nat /\ from + goal <= TotalLen(ss)
          /\ i \in 1 .. Len(ss) /\ o \in Nat /\ o <= ss[i].len /\ StartOf(ss, i) + o = from
      BY <2>1, <2>4, <3>1
    <3> HIDE DEF i, o
    <3>3. Fill(ss, i, o, goal) \in Filled(ss, from, goal) /\ Fill(ss, i, o, goal).need = 0
      BY ONLY ss \in Seq(ValidSegments), <3>2, FillIs
    <3> QED
      BY <3>3 DEF next, i, o
  <2>6. /\ next.index \in 1 .. Len(ss) /\ next.offset \in Nat
        /\ next.offset <= ss[next.index].len
        /\ StartOf(ss, next.index) + next.offset = Cap(m, size)
        /\ next.bytes = SubSeq(all, from + 1, Cap(m, size))
    <3>1. /\ next.index \in 1 .. Len(ss) /\ next.offset \in Nat
          /\ next.offset <= ss[next.index].len
          /\ StartOf(ss, next.index) + next.offset = from + (goal - next.need)
          /\ next.bytes = SubSeq(ReadAll(ss), from + 1, from + (goal - next.need))
      BY <2>4, <2>5, FilledFields
    <3>2. from + (goal - next.need) = Cap(m, size)
      BY <2>4, <2>5
    <3> QED
      BY <3>1, <3>2 DEF all
  <2>7. Len(next.bytes) = goal
    <3>1. Cap(m, size) \in Nat /\ Cap(m, size) <= Len(all)
      BY <2>1, <2>2, <2>4, CapIs
    <3>2. Len(SubSeq(all, from + 1, Cap(m, size))) =
              IF from < Cap(m, size) THEN Cap(m, size) - from ELSE 0
      <4> DEFINE b == Cap(m, size)
      <4>1. b \in Nat /\ b <= Len(all) /\ all \in Seq(Chars) /\ from \in Nat
        BY <2>2, <2>4, <3>1
      <4> HIDE DEF b
      <4>2. Len(SubSeq(all, from + 1, b)) = IF from < b THEN b - from ELSE 0
        BY ONLY <4>1, SubSeqChars
      <4> QED
        BY <4>2 DEF b
    <3> QED
      BY <2>4, <2>6, <3>1, <3>2
  <2>8. UpTo(all, m) = Append(at.chunks, next.bytes) /\ Len(UpTo(all, m)) = m
    <3>1. UpTo(all, n + 1) = Append(UpTo(all, n), SubSeq(all, Mark(n) + 1, Cap(n + 1, Len(all))))
      BY <2>1, <2>2, UpToAppend
    <3>2. Len(UpTo(all, m)) = m
      BY <2>2, <2>4, UpToAppend
    <3> QED
      BY <2>1, <2>2, <2>6, <3>1, <3>2 DEF m, from
  <2> DEFINE rest == left - goal
  <2>9. ReadNext(ss, at) = [chunks |-> UpTo(all, m), index |-> next.index,
                            offset |-> next.offset, remaining |-> rest]
    BY <1>2, <2>7, <2>8 DEF ReadNext, left, next, goal
  <2>10. rest \in Nat /\ rest = size - Cap(m, size)
    <3>1. Cap(m, size) \in Nat /\ Cap(m, size) <= size
      BY <2>1, <2>4, CapIs
    <3> QED
      BY ONLY <2>1, <2>4, <3>1
  <2> HIDE DEF rest
  <2>11. ReadNext(ss, at) \in ReaderStates(ss)
    <3>1. /\ m <= Count(TotalLen(ss)) /\ rest = TotalLen(ss) - Cap(m, TotalLen(ss))
          /\ StartOf(ss, next.index) + next.offset = Cap(m, TotalLen(ss))
      BY <2>4, <2>6, <2>10 DEF size
    <3>2. [chunks |-> UpTo(ReadAll(ss), m), index |-> next.index,
           offset |-> next.offset, remaining |-> rest] \in ReaderStates(ss)
      BY <2>4, <2>6, <2>10, <3>1, ReaderMade
    <3> QED
      BY <2>9, <3>2 DEF all
  <2>12. ReadNext(ss, at).chunks = UpTo(all, m)
    BY <2>9
  <2> QED
    BY <1>2, <2>8, <2>11, <2>12 DEF m, n, left
<1> QED
  BY <1>1, <1>2

\* After so many calls, the reader is at the end or has as many chunks.
ReaderAt(at, n) == at.remaining = 0 \/ Len(at.chunks) = n

\* BlobReader, read to its end, gives the chunks.
LEMMA ReaderIs ==
    ASSUME NEW blob, blob.segments \in Seq(ValidSegments), blob.size = TotalLen(blob.segments)
    PROVE  ReaderChunks(blob) = UpTo(ReadAll(blob.segments), Count(blob.size))
<1> DEFINE ss == blob.segments
           size == blob.size
           x == [chunks |-> << >>, index |-> 1, offset |-> 0, remaining |-> size]
           f == CHOOSE at : at = [n \in Nat |-> IF n = 0 THEN x ELSE ReadNext(ss, at[n - 1])]
           all == ReadAll(ss)
<1>1. ReaderChunks(blob) = f[size].chunks
  BY DEF ReaderChunks
<1>2. /\ ss \in Seq(ValidSegments) /\ size = TotalLen(ss) /\ size \in Nat
      /\ Count(size) \in Nat /\ Count(size) <= size
  BY TotalType, CountIs
<1>3. UpTo(all, 0) = << >>
  BY DEF UpTo
<1>4. x.chunks = << >>
  OBVIOUS
<1> HIDE DEF ss, size, all
<1>5. CASE ss = << >>
  <2>1. size = 0
    BY <1>2, <1>5, TotalNone
  <2>2. [n \in Nat |-> x] = [n \in Nat |-> IF n = 0 THEN x ELSE ReadNext(ss, [k \in Nat |-> x][n - 1])]
    <3>1. ASSUME NEW n \in Nat \ {0} PROVE ReadNext(ss, [k \in Nat |-> x][n - 1]) = x
      <4>1. n - 1 \in Nat
        OBVIOUS
      <4>2. [k \in Nat |-> x][n - 1] = x
        BY <4>1
      <4> QED
        BY <2>1, <4>2 DEF ReadNext
    <3> HIDE DEF x
    <3> QED
      BY <3>1
  <2> HIDE DEF x
  <2>3. \E at : at = [n \in Nat |-> IF n = 0 THEN x ELSE ReadNext(ss, at[n - 1])]
    BY ONLY <2>2
  <2>4. f = [n \in Nat |-> IF n = 0 THEN x ELSE ReadNext(ss, f[n - 1])]
    BY ONLY <2>3
  <2> HIDE DEF f
  <2>5. f[0] = x
    BY <2>4
  <2>6. Count(size) = 0
    BY <1>2, <2>1
  <2> QED
    BY <1>1, <1>3, <1>4, <2>1, <2>5, <2>6 DEF size, all, ss
<1>6. CASE ss # << >>
  <2> DEFINE S == ReaderStates(ss)
             turn == [at \in S |-> ReadNext(ss, at)]
  <2>1. x \in S
    <3>1. 1 \in 1 .. Len(ss) /\ ss[1].len \in Nat /\ 0 <= ss[1].len
      <4>1. 1 \in 1 .. Len(ss) /\ ss[1] \in ValidSegments
        BY <1>2, <1>6
      <4> QED
        BY <4>1, SegmentFields
    <3>2. Cap(0, size) = 0
      BY <1>2, MarkIs DEF Cap, Least
    <3>3. StartOf(ss, 1) + 0 = Cap(0, size) /\ size = size - Cap(0, size) /\ 0 <= Count(size)
      BY <1>2, <3>2, FirstStart
    <3>4. /\ << >> = UpTo(ReadAll(ss), 0) /\ 0 \in Nat /\ 0 <= Count(TotalLen(ss))
          /\ size = TotalLen(ss) - Cap(0, TotalLen(ss)) /\ StartOf(ss, 1) + 0 = Cap(0, TotalLen(ss))
      BY <1>2, <1>3, <3>3 DEF all
    <3> QED
      BY <1>2, <3>1, <3>4, ReaderMade
  <2>2. turn \in [S -> S] /\ \A at \in S : turn[at] = ReadNext(ss, at)
    BY <1>2, ReadNextIs
  <2> HIDE DEF S, turn, x
  <2>3. PICK g : Runs(g, S, x, turn)
    BY ONLY <2>1, <2>2, RunExists
  <2>4. /\ g = [n \in Nat |-> g[n]] /\ g[0] = x
        /\ \A n \in Nat : g[n] \in S /\ g[n + 1] = ReadNext(ss, g[n])
        /\ \A n \in Nat \ {0} : g[n] = ReadNext(ss, g[n - 1])
    <3>1. /\ g = [n \in Nat |-> g[n]] /\ g[0] = x
          /\ \A n \in Nat : g[n] \in S /\ g[n + 1] = turn[g[n]]
          /\ \A n \in Nat \ {0} : g[n - 1] \in S /\ g[n] = turn[g[n - 1]]
      BY ONLY <2>3, RunIs
    <3> QED
      BY <2>2, <3>1
  <2>5. f = [n \in Nat |-> IF n = 0 THEN x ELSE ReadNext(ss, f[n - 1])]
    <3>1. g = [n \in Nat |-> IF n = 0 THEN x ELSE ReadNext(ss, g[n - 1])]
      BY <2>4
    <3>2. \E at : at = [n \in Nat |-> IF n = 0 THEN x ELSE ReadNext(ss, at[n - 1])]
      BY ONLY <3>1
    <3> QED
      BY ONLY <3>2
  <2> HIDE DEF f
  <2>6. Turns(f, S, x, turn)
    <3>1. f[0] = x
      BY <2>5
    <3>2. ASSUME NEW n \in Nat, f[n] \in S PROVE f[n + 1] = turn[f[n]]
      <4>1. n + 1 \in Nat /\ n + 1 # 0 /\ (n + 1) - 1 = n
        OBVIOUS
      <4>2. f[n + 1] = ReadNext(ss, f[n])
        BY <2>5, <4>1
      <4> QED
        BY <2>2, <3>2, <4>2
    <3> QED
      BY <3>1, <3>2 DEF Turns
  <2>7. \A n \in Nat : f[n] = g[n]
    BY ONLY <2>3, <2>6, RunOnly
  <2>8. \A n \in Nat : ReaderAt(g[n], n)
    <3> DEFINE T == {n \in Nat : ReaderAt(g[n], n)}
    <3>1. 0 \in T
      BY <1>4, <2>4 DEF ReaderAt
    <3>2. ASSUME NEW n \in Nat, n \in T PROVE n + 1 \in T
      <4> DEFINE h == g[n]
      <4>1. h \in ReaderStates(ss) /\ g[n + 1] = ReadNext(ss, h)
        BY <2>4 DEF S
      <4>2. ReaderAt(h, n)
        BY <3>2
      <4> HIDE DEF h
      <4>3. /\ h.remaining # 0 => Len(ReadNext(ss, h).chunks) = Len(h.chunks) + 1
            /\ h.remaining = 0 => ReadNext(ss, h) = h
        BY <1>2, <4>1, ReadNextIs
      <4>4. ReaderAt(ReadNext(ss, h), n + 1)
        BY <4>2, <4>3 DEF ReaderAt
      <4> QED
        BY <4>1, <4>4
    <3> HIDE DEF T
    <3>3. \A n \in Nat : n \in T
      BY <3>1, <3>2, Induction
    <3> QED
      BY <3>3 DEF T
  <2> DEFINE h == g[size]
             n == Len(h.chunks)
  <2>9. h \in ReaderStates(ss) /\ ReaderAt(h, size)
    BY <1>2, <2>4, <2>8 DEF S
  <2> HIDE DEF h
  <2>10. /\ n \in Nat /\ n <= Count(size) /\ h.chunks = UpTo(all, n)
         /\ h.remaining = size - Cap(n, size)
    BY <1>2, <2>9, ReaderFields DEF all
  <2>11. n = Count(size)
    <3>1. CASE h.remaining = 0
      <4>1. Cap(n, size) = size
        <5>1. Cap(n, size) \in Nat
          BY <1>2, <2>10, CapIs
        <5> HIDE DEF n
        <5> QED
          BY <1>2, <2>10, <3>1, <5>1
      <4>2. size <= Mark(n)
        BY <1>2, <2>10, <4>1, CapIs
      <4>3. Count(size) <= n
        BY <1>2, <2>10, <4>2, CountIs
      <4> QED
        BY <1>2, <2>10, <4>3
    <3>2. CASE n = size
      BY <1>2, <2>10, <3>2
    <3> QED
      BY <2>9, <3>1, <3>2 DEF ReaderAt
  <2>12. f[size].chunks = UpTo(all, Count(size))
    BY <1>2, <2>7, <2>10, <2>11 DEF h
  <2> QED
    BY <1>1, <2>12 DEF all, ss, size
<1> QED
  BY <1>5, <1>6

\* The bytes of a range.
LEMMA RangeIs ==
    ASSUME NEW blob, blob.segments \in FitSegments, blob.size = TotalLen(blob.segments),
           NEW from \in Nat, NEW to \in Nat, to <= blob.size
    PROVE  BlobRange(blob, from, to) = SubSeq(ReadAll(blob.segments), from + 1, to)
<1> DEFINE ss == blob.segments
<1>1. ss \in FitSegments /\ ss \in Seq(ValidSegments) /\ to <= TotalLen(ss)
  BY DEF FitSegments
<1>2. BlobRange(blob, from, to) = ReadAll(Pieces(ss, from, to))
  BY DEF BlobRange
<1> HIDE DEF ss
<1>3. TotalLen(ss) \in Nat
  BY <1>1, TotalType
<1>4. Least(to, TotalLen(ss)) = to
  BY <1>1, <1>3 DEF Least
<1>5. ReadAll(Pieces(ss, from, to)) = SubSeq(ReadAll(ss), from + 1, Least(to, TotalLen(ss)))
  BY <1>1, SliceIs
<1> QED
  BY <1>2, <1>4, <1>5 DEF ss

\* The chunks that workers read.
LEMMA WorkersAre ==
    ASSUME NEW blob, blob.segments \in FitSegments, blob.size = TotalLen(blob.segments)
    PROVE  WorkerChunks(blob) = UpTo(ReadAll(blob.segments), Count(blob.size))
<1> DEFINE size == blob.size
           all == ReadAll(blob.segments)
<1>1. /\ blob.segments \in Seq(ValidSegments) /\ size \in Nat /\ Len(all) = size
      /\ Count(size) \in Nat
  <2>1. blob.segments \in Seq(ValidSegments) /\ size = TotalLen(blob.segments)
    BY DEF FitSegments
  <2> HIDE DEF size
  <2> QED
    BY <2>1, TotalType, ReadAllLen, CountIs
<1>2. ASSUME NEW k \in 1 .. Count(size)
      PROVE  BlobRange(blob, Mark(k - 1), Cap(k, size)) = SubSeq(all, Mark(k - 1) + 1, Cap(k, size))
  <2>1. k - 1 \in Nat /\ k \in Nat
    BY <1>1
  <2>2. Mark(k - 1) \in Nat /\ Cap(k, size) \in Nat /\ Cap(k, size) <= size
    BY <1>1, <2>1, MarkIs, CapIs
  <2> DEFINE a == Mark(k - 1)
             b == Cap(k, size)
  <2> HIDE DEF a, b
  <2>3. a \in Nat /\ b \in Nat /\ b <= blob.size
    BY <2>2 DEF a, b
  <2>4. BlobRange(blob, a, b) = SubSeq(ReadAll(blob.segments), a + 1, b)
    BY ONLY blob.segments \in FitSegments, blob.size = TotalLen(blob.segments), <2>3, RangeIs
  <2> QED
    BY <2>4 DEF a, b
<1>3. WorkerChunks(blob) = [k \in 1 .. Count(size) |-> BlobRange(blob, Mark(k - 1), Cap(k, size))]
  BY DEF WorkerChunks, Count, Mark, Cap
<1>4. UpTo(all, Count(size)) = [k \in 1 .. Count(size) |-> SubSeq(all, Mark(k - 1) + 1, Cap(k, size))]
  BY <1>1 DEF UpTo
<1> HIDE DEF size, all
<1>5. WorkerChunks(blob) = UpTo(all, Count(size))
  BY <1>2, <1>3, <1>4
<1> QED
  BY <1>5 DEF size, all

\* And together the chunks are the bytes.
LEMMA ChunksJoin ==
    ASSUME NEW bytes \in Seq(Chars)
    PROVE  /\ UpTo(bytes, Count(Len(bytes))) \in Seq(Seq(Chars))
           /\ FlattenSeq(UpTo(bytes, Count(Len(bytes)))) = bytes
<1> DEFINE n == Count(Len(bytes))
           size == Len(bytes)
<1>1. size \in Nat /\ n \in Nat /\ size <= Mark(n)
  BY CountIs
<1> HIDE DEF n, size
<1>2. Cap(n, size) = size
  BY <1>1, CapIs
<1>3. FlattenSeq(UpTo(bytes, n)) = SubSeq(bytes, 1, Cap(n, Len(bytes)))
  BY <1>1, UpToFlat
<1>4. UpTo(bytes, n) \in Seq(Seq(Chars))
  BY <1>1, UpToAppend
<1>5. SubSeq(bytes, 1, Len(bytes)) = bytes
  OBVIOUS
<1> QED
  BY <1>2, <1>3, <1>4, <1>5 DEF n, size

-----------------------------------------------------------------------------
(* Going through a sequence, element by element.                           *)

Steps(S, F, s) ==
    [k \in Nat |-> [y \in S |-> IF k \in 1 .. Len(s) THEN F[y][s[k]] ELSE y]]

\* r is what F makes of x with the elements of s, one after the other.
Folded(r, s, S, x, F) ==
    \E g : Prefix(g, S, x, Steps(S, F, s), Len(s)) /\ r = g[Len(s)]

\* They are what F says.
StepsRight(S, V, F, s) ==
    /\ Steps(S, F, s) \in [Nat -> [S -> S]]
    /\ \A k \in 1 .. Len(s), y \in S : Steps(S, F, s)[k][y] = F[y][s[k]]

\* The steps through a sequence.
LEMMA StepsType ==
    ASSUME NEW S, NEW V, NEW F \in [S -> [V -> S]], NEW s \in Seq(V)
    PROVE  StepsRight(S, V, F, s)
<1>1. \A k \in 1 .. Len(s) : k \in Nat /\ s[k] \in V
  OBVIOUS
<1> QED
  BY <1>1 DEF Steps, StepsRight

\* The values along the way, and that a recursive definition asks for no others.
FoldAt(f, s, x, F, k) == IF k = 0 THEN x ELSE F[f[k - 1]][s[k]]

\* A function with the values on the way.
IsFold(g, s, S, x, F) ==
    /\ Prefix(g, S, x, Steps(S, F, s), Len(s))
    /\ g = [k \in 0 .. Len(s) |-> FoldAt(g, s, x, F, k)]
    /\ \A k \in 1 .. Len(s) : g[k - 1] \in S

\* Going through a sequence has a value after each element.
LEMMA FoldExists ==
    ASSUME NEW S, NEW V, NEW x \in S, NEW F \in [S -> [V -> S]], NEW s \in Seq(V)
    PROVE  \E g : IsFold(g, s, S, x, F)
<1> DEFINE n == Len(s)
<1>0. n \in Nat
  OBVIOUS
<1>1. PICK g : Prefix(g, S, x, Steps(S, F, s), n)
  <2>1. Steps(S, F, s) \in [Nat -> [S -> S]] /\ x \in S
    BY StepsType DEF StepsRight
  <2>2. ASSUME NEW A, NEW y, NEW f, f \in [Nat -> [A -> A]], y \in A
        PROVE  \A m \in Nat : \E g : Prefix(g, A, y, f, m)
    BY <2>2, PrefixExists
  <2> QED
    BY ONLY <1>0, <2>1, <2>2
<1>2. g = [k \in 0 .. n |-> g[k]] /\ g[0] = x
  BY <1>1 DEF Prefix
<1>6. \A k \in 1 .. n, y \in S : Steps(S, F, s)[k][y] = F[y][s[k]]
  <2>1. StepsRight(S, V, F, s)
    BY StepsType
  <2> QED
    BY <2>1 DEF StepsRight
<1> HIDE DEF n
<1>3. ASSUME NEW k \in 0 .. n, k # 0 PROVE g[k - 1] \in S /\ g[k] = F[g[k - 1]][s[k]]
  <2>1. k \in 1 .. n /\ k - 1 \in 0 .. n
    BY <1>0, <1>3
  <2>2. g[k] = Steps(S, F, s)[k][g[k - 1]] /\ g[k - 1] \in S
    BY <1>1, <2>1 DEF Prefix
  <2> QED
    BY <1>6, <2>1, <2>2
<1>4. g = [k \in 0 .. n |-> FoldAt(g, s, x, F, k)]
  BY <1>2, <1>3 DEF FoldAt
<1>5. \A k \in 1 .. n : g[k - 1] \in S
  <2>1. \A k \in 1 .. n : k \in 0 .. n /\ k # 0
    BY <1>0
  <2> QED
    BY <1>3, <2>1
<1> QED
  BY <1>1, <1>4, <1>5 DEF n, IsFold

\* What a recursive definition says of its values.
Defines(f, s, S, x, F) ==
    /\ f = [k \in 0 .. Len(s) |-> f[k]] /\ f[0] = x
    /\ \A k \in 1 .. Len(s) : f[k - 1] \in S => f[k] = F[f[k - 1]][s[k]]

\* A recursive function through a sequence has these values.
LEMMA FoldOnly ==
    ASSUME NEW S, NEW V, NEW x \in S, NEW F \in [S -> [V -> S]], NEW s \in Seq(V), NEW f,
           Defines(f, s, S, x, F)
    PROVE  Folded(f[Len(s)], s, S, x, F)
<1> DEFINE n == Len(s)
<1>1. PICK g : Prefix(g, S, x, Steps(S, F, s), n)
  BY FoldExists DEF IsFold
<1>2. \A k \in 1 .. n : f[k - 1] \in S => f[k] = Steps(S, F, s)[k][f[k - 1]]
  <2>1. \A k \in 1 .. n, y \in S : Steps(S, F, s)[k][y] = F[y][s[k]]
    <3>1. StepsRight(S, V, F, s)
      BY StepsType
    <3> QED
      BY <3>1 DEF StepsRight
  <2> QED
    BY <2>1 DEF Defines
<1>3. f = [k \in 0 .. n |-> f[k]] /\ f[0] = x /\ n \in Nat
  BY DEF Defines
<1> DEFINE step == Steps(S, F, s)
<1> HIDE DEF step, n
<1>4. Prefix(g, S, x, step, n) /\ \A k \in 1 .. n : f[k - 1] \in S => f[k] = step[k][f[k - 1]]
  BY <1>1, <1>2 DEF step
<1>5. f = g
  BY <1>3, <1>4, PrefixOnly
<1> QED
  BY <1>1, <1>5 DEF Folded, n

\* Going through nothing changes nothing.
LEMMA FoldedNone ==
    ASSUME NEW r, NEW S, NEW x, NEW F, Folded(r, << >>, S, x, F)
    PROVE  r = x
<1>1. Len(<< >>) = 0
  OBVIOUS
<1> QED
  BY <1>1 DEF Folded, Prefix

\* q is what F makes of r with one element more.
OneMore(q, r, y, S, F) == r \in S /\ q = F[r][y]

\* Going through one element more.
LEMMA FoldedAppend ==
    ASSUME NEW S, NEW V, NEW x \in S, NEW F \in [S -> [V -> S]], NEW s \in Seq(V), NEW y \in V,
           NEW r, NEW q, Folded(r, s, S, x, F), Folded(q, Append(s, y), S, x, F)
    PROVE  OneMore(q, r, y, S, F)
<1> DEFINE t == Append(s, y)
           n == Len(s)
           m == n + 1
<1>0. /\ n \in Nat /\ m \in Nat /\ Len(t) = m /\ n <= m /\ m - 1 = n /\ m \in 1 .. m
      /\ n \in 0 .. n /\ t \in Seq(V)
  OBVIOUS
<1>1. t[m] = y /\ \A k \in 1 .. n : s[k] = t[k] /\ k \in Nat /\ k \in 1 .. m
  OBVIOUS
<1> HIDE DEF t, m
<1> DEFINE P == Steps(S, F, s)
           Q == Steps(S, F, t)
<1>2. PICK f : Prefix(f, S, x, P, n) /\ r = f[n]
  BY DEF Folded
<1>3. PICK g : Prefix(g, S, x, Q, m) /\ q = g[m]
  <2>1. \E g : Prefix(g, S, x, Q, Len(t)) /\ q = g[Len(t)]
    BY DEF Folded, t
  <2> QED
    BY <1>0, <2>1
<1>4. Agree(P, Q, n)
  <2>1. ASSUME NEW k \in 1 .. n PROVE P[k] = Q[k]
    <3>1. k \in Nat /\ k \in 1 .. Len(s) /\ k \in 1 .. Len(t) /\ s[k] = t[k]
      BY <1>0, <1>1
    <3> QED
      BY <3>1 DEF Steps
  <2> HIDE DEF P, Q
  <2> QED
    BY <2>1 DEF Agree
<1>5. Q[m][r] = F[r][t[m]] \/ r \notin S
  <2>1. t \in Seq(V)
    BY <1>0
  <2>2. \A k \in 1 .. Len(t), z \in S : Q[k][z] = F[z][t[k]]
    <3>1. StepsRight(S, V, F, t)
      BY <2>1, StepsType
    <3> QED
      BY <3>1 DEF StepsRight
  <2> HIDE DEF Q
  <2> QED
    BY <1>0, <2>2
<1> HIDE DEF P, Q, n
<1>6. f[n] = g[n]
  <2>1. \A k \in Nat : k <= n /\ k <= m => f[k] = g[k]
    <3>1. n \in Nat /\ m \in Nat /\ Prefix(f, S, x, P, n) /\ Prefix(g, S, x, Q, m)
      BY <1>0, <1>2, <1>3
    <3> QED
      BY ONLY <1>4, <3>1, PrefixUnique
  <2> QED
    BY <1>0, <2>1
<1>7. r \in S
  BY <1>0, <1>2 DEF Prefix
<1>8. q = Q[m][g[n]]
  BY <1>0, <1>3 DEF Prefix
<1> QED
  BY <1>1, <1>2, <1>5, <1>6, <1>7, <1>8 DEF OneMore

-----------------------------------------------------------------------------
(* Decoding.                                                               *)

Decoders == [text : Seq(Chars), held : BOOLEAN]
Fresh == [text |-> << >>, held |-> FALSE]
Ended(d) == d.text \o (IF d.held THEN <<"?">> ELSE << >>)

ByteTurn == [d \in Decoders |-> [byte \in Chars |-> DecodeByte(d, byte)]]
ChunkTurn == [d \in Decoders |-> [bytes \in Seq(Chars) |-> Push(d, bytes)]]

\* A new decoder.
LEMMA FreshIs == Fresh \in Decoders
<1>1. << >> \in Seq(Chars)
  OBVIOUS
<1> QED
  BY <1>1 DEF Fresh, Decoders

\* A decoder stays one with every byte.
LEMMA DecodeByteType ==
    ASSUME NEW d \in Decoders, NEW byte \in Chars
    PROVE  DecodeByte(d, byte) \in Decoders
<1> DEFINE lost == IF d.held /\ byte # "trail" THEN <<"?">> ELSE << >>
           out == IF byte = "lead" THEN << >>
                  ELSE IF byte # "trail" THEN <<byte>>
                  ELSE IF d.held THEN <<"w">> ELSE <<"?">>
           held == byte = "lead"
<1>1. d.text \in Seq(Chars)
  BY DEF Decoders
<1>2. "?" \in Chars /\ "w" \in Chars
  BY DEF Chars
<1>3. lost \in Seq(Chars)
  BY <1>2
<1>4. out \in Seq(Chars)
  BY <1>2
<1>5. held \in BOOLEAN
  OBVIOUS
<1>6. DecodeByte(d, byte) = [text |-> d.text \o lost \o out, held |-> held]
  BY DEF DecodeByte
<1> HIDE DEF lost, out, held
<1>7. d.text \o lost \o out \in Seq(Chars)
  BY <1>1, <1>3, <1>4
<1> QED
  BY <1>5, <1>6, <1>7 DEF Decoders

\* What a byte does to decoders.
LEMMA ByteTurnIs ==
    /\ ByteTurn \in [Decoders -> [Chars -> Decoders]]
    /\ \A d \in Decoders, byte \in Chars : ByteTurn[d][byte] = DecodeByte(d, byte)
<1>1. \A d \in Decoders, byte \in Chars : DecodeByte(d, byte) \in Decoders
  BY DecodeByteType
<1> QED
  BY <1>1 DEF ByteTurn

\* A push goes through the bytes one by one.
LEMMA PushFolds ==
    ASSUME NEW d \in Decoders, NEW bytes \in Seq(Chars)
    PROVE  Folded(Push(d, bytes), bytes, Decoders, d, ByteTurn)
<1> DEFINE n == Len(bytes)
           f == CHOOSE h : h = [k \in 0 .. n |-> IF k = 0 THEN d ELSE DecodeByte(h[k - 1], bytes[k])]
<1>1. Push(d, bytes) = f[n]
  BY DEF Push
<1>2. ByteTurn \in [Decoders -> [Chars -> Decoders]]
  BY ByteTurnIs
<1>3. PICK g : /\ g = [k \in 0 .. n |-> FoldAt(g, bytes, d, ByteTurn, k)]
               /\ \A k \in 1 .. n : g[k - 1] \in Decoders
  <2>1. \E g : IsFold(g, bytes, Decoders, d, ByteTurn)
    BY <1>2, FoldExists
  <2> QED
    BY <2>1 DEF IsFold
<1>4. n \in Nat /\ \A k \in 1 .. n : bytes[k] \in Chars
  OBVIOUS
<1> HIDE DEF n
<1>5. f = [k \in 0 .. n |-> IF k = 0 THEN d ELSE DecodeByte(f[k - 1], bytes[k])]
  <2>1. ASSUME NEW k \in 0 .. n
        PROVE  FoldAt(g, bytes, d, ByteTurn, k) = IF k = 0 THEN d ELSE DecodeByte(g[k - 1], bytes[k])
    <3>1. CASE k = 0
      BY <3>1 DEF FoldAt
    <3>2. CASE k # 0
      <4>1. k \in 1 .. n
        BY <1>4, <3>2
      <4>2. ByteTurn[g[k - 1]][bytes[k]] = DecodeByte(g[k - 1], bytes[k])
        BY <1>3, <1>4, <4>1, ByteTurnIs
      <4> QED
        BY <3>2, <4>2 DEF FoldAt
    <3> QED
      BY <3>1, <3>2
  <2>2. g = [k \in 0 .. n |-> IF k = 0 THEN d ELSE DecodeByte(g[k - 1], bytes[k])]
    BY <1>3, <2>1
  <2>3. \E h : h = [k \in 0 .. n |-> IF k = 0 THEN d ELSE DecodeByte(h[k - 1], bytes[k])]
    BY ONLY <2>2
  <2> QED
    BY ONLY <2>3
<1> HIDE DEF f
<1>6. Defines(f, bytes, Decoders, d, ByteTurn)
  <2>1. f = [k \in 0 .. n |-> f[k]] /\ f[0] = d
    BY <1>4, <1>5
  <2>2. ASSUME NEW k \in 1 .. n, f[k - 1] \in Decoders PROVE f[k] = ByteTurn[f[k - 1]][bytes[k]]
    <3>1. k \in 0 .. n /\ k # 0
      BY <1>4
    <3>2. f[k] = DecodeByte(f[k - 1], bytes[k])
      BY <1>5, <3>1
    <3> QED
      BY <1>4, <2>2, <3>2, ByteTurnIs
  <2> QED
    BY <2>1, <2>2 DEF Defines, n
<1>7. Folded(f[Len(bytes)], bytes, Decoders, d, ByteTurn)
  BY <1>2, <1>6, FoldOnly
<1> QED
  BY <1>1, <1>7 DEF n

\* Pushing nothing changes nothing.
LEMMA PushNone ==
    ASSUME NEW d \in Decoders
    PROVE  Push(d, << >>) = d
<1>1. << >> \in Seq(Chars)
  OBVIOUS
<1> QED
  BY <1>1, PushFolds, FoldedNone

\* Pushing one byte more.
LEMMA PushAppend ==
    ASSUME NEW d \in Decoders, NEW bytes \in Seq(Chars), NEW byte \in Chars
    PROVE  /\ Push(d, bytes) \in Decoders
           /\ Push(d, Append(bytes, byte)) = DecodeByte(Push(d, bytes), byte)
<1> DEFINE r == Push(d, bytes)
           q == Push(d, Append(bytes, byte))
<1>1. Append(bytes, byte) \in Seq(Chars) /\ ByteTurn \in [Decoders -> [Chars -> Decoders]]
  BY ByteTurnIs
<1>2. /\ Folded(r, bytes, Decoders, d, ByteTurn)
      /\ Folded(q, Append(bytes, byte), Decoders, d, ByteTurn)
  BY <1>1, PushFolds
<1> HIDE DEF r, q
<1>3. r \in Decoders /\ q = ByteTurn[r][byte]
  <2>1. OneMore(q, r, byte, Decoders, ByteTurn)
    BY <1>1, <1>2, FoldedAppend
  <2> QED
    BY <2>1 DEF OneMore
<1> QED
  BY <1>3, ByteTurnIs DEF r, q

\* A decoder stays one with every push.
LEMMA PushType ==
    ASSUME NEW d \in Decoders, NEW bytes \in Seq(Chars)
    PROVE  Push(d, bytes) \in Decoders
<1>1. "?" \in Chars
  BY DEF Chars
<1> QED
  BY <1>1, PushAppend

\* Two pushes are one of both.
LEMMA PushConcat ==
    ASSUME NEW d \in Decoders, NEW a \in Seq(Chars)
    PROVE  \A b \in Seq(Chars) : Push(d, a \o b) = Push(Push(d, a), b)
<1> DEFINE T == {b \in Seq(Chars) : Push(d, a \o b) = Push(Push(d, a), b)}
<1>0. Push(d, a) \in Decoders
  BY PushType
<1>1. << >> \in T
  <2>1. a \o << >> = a /\ << >> \in Seq(Chars)
    OBVIOUS
  <2> QED
    BY <1>0, <2>1, PushNone
<1>2. ASSUME NEW b \in Seq(Chars), NEW x \in Chars, b \in T PROVE Append(b, x) \in T
  <2>1. a \o Append(b, x) = Append(a \o b, x) /\ a \o b \in Seq(Chars) /\ Append(b, x) \in Seq(Chars)
    BY ConcatAppend
  <2>2. Push(d, Append(a \o b, x)) = DecodeByte(Push(d, a \o b), x)
    BY <2>1, PushAppend
  <2>3. Push(Push(d, a), Append(b, x)) = DecodeByte(Push(Push(d, a), b), x)
    BY <1>0, PushAppend
  <2> QED
    BY <1>2, <2>1, <2>2, <2>3
<1> HIDE DEF T
<1>3. \A b \in Seq(Chars) : b \in T
  BY <1>1, <1>2, SeqInduction
<1> QED
  BY <1>3 DEF T

\* What a push does to decoders.
LEMMA ChunkTurnIs ==
    /\ ChunkTurn \in [Decoders -> [Seq(Chars) -> Decoders]]
    /\ \A d \in Decoders, bytes \in Seq(Chars) : ChunkTurn[d][bytes] = Push(d, bytes)
<1>1. \A d \in Decoders, bytes \in Seq(Chars) : Push(d, bytes) \in Decoders
  BY PushType
<1> QED
  BY <1>1 DEF ChunkTurn

\* A text is decoded by pushing the chunks one by one.
LEMMA DecodeFolds ==
    ASSUME NEW chunks \in Seq(Seq(Chars))
    PROVE  \E r : /\ Folded(r, chunks, Decoders, Fresh, ChunkTurn)
                  /\ DecodeText(chunks) = Ended(r)
<1> DEFINE n == Len(chunks)
           f == CHOOSE h : h = [k \in 0 .. n |-> IF k = 0 THEN [text |-> << >>, held |-> FALSE]
                                                ELSE Push(h[k - 1], chunks[k])]
<1>1. DecodeText(chunks) = Ended(f[n])
  BY DEF DecodeText, Ended
<1>2. ChunkTurn \in [Decoders -> [Seq(Chars) -> Decoders]] /\ Fresh \in Decoders
  BY ChunkTurnIs, FreshIs
<1>3. PICK g : /\ g = [k \in 0 .. n |-> FoldAt(g, chunks, Fresh, ChunkTurn, k)]
               /\ \A k \in 1 .. n : g[k - 1] \in Decoders
  <2>1. \E g : IsFold(g, chunks, Decoders, Fresh, ChunkTurn)
    BY <1>2, FoldExists
  <2> QED
    BY <2>1 DEF IsFold
<1>4. n \in Nat /\ \A k \in 1 .. n : chunks[k] \in Seq(Chars)
  OBVIOUS
<1> HIDE DEF n
<1>5. f = [k \in 0 .. n |-> IF k = 0 THEN Fresh ELSE Push(f[k - 1], chunks[k])]
  <2>1. ASSUME NEW k \in 0 .. n
        PROVE  FoldAt(g, chunks, Fresh, ChunkTurn, k) =
                   IF k = 0 THEN Fresh ELSE Push(g[k - 1], chunks[k])
    <3>1. CASE k = 0
      BY <3>1 DEF FoldAt
    <3>2. CASE k # 0
      <4>1. k \in 1 .. n
        BY <1>4, <3>2
      <4>2. ChunkTurn[g[k - 1]][chunks[k]] = Push(g[k - 1], chunks[k])
        BY <1>3, <1>4, <4>1, ChunkTurnIs
      <4> QED
        BY <3>2, <4>2 DEF FoldAt
    <3> QED
      BY <3>1, <3>2
  <2>2. g = [k \in 0 .. n |-> IF k = 0 THEN Fresh ELSE Push(g[k - 1], chunks[k])]
    BY <1>3, <2>1
  <2>3. \E h : h = [k \in 0 .. n |-> IF k = 0 THEN Fresh ELSE Push(h[k - 1], chunks[k])]
    BY ONLY <2>2
  <2> QED
    BY ONLY <2>3 DEF Fresh
<1> HIDE DEF f
<1>6. Defines(f, chunks, Decoders, Fresh, ChunkTurn)
  <2>1. f = [k \in 0 .. n |-> f[k]] /\ f[0] = Fresh
    BY <1>4, <1>5
  <2>2. ASSUME NEW k \in 1 .. n, f[k - 1] \in Decoders PROVE f[k] = ChunkTurn[f[k - 1]][chunks[k]]
    <3>1. k \in 0 .. n /\ k # 0
      BY <1>4
    <3>2. f[k] = Push(f[k - 1], chunks[k])
      BY <1>5, <3>1
    <3> QED
      BY <1>4, <2>2, <3>2, ChunkTurnIs
  <2> QED
    BY <2>1, <2>2 DEF Defines, n
<1>7. Folded(f[Len(chunks)], chunks, Decoders, Fresh, ChunkTurn)
  BY <1>2, <1>6, FoldOnly
<1> QED
  BY <1>1, <1>7 DEF n

\* However the bytes come in chunks, the decoder ends with what one push would leave.
DecodesWhole(chunks) ==
    \A r : Folded(r, chunks, Decoders, Fresh, ChunkTurn) => r = Push(Fresh, FlattenSeq(chunks))

\* Chunks leave what one push of all bytes leaves.
LEMMA ChunksDecode ==
    \A chunks \in Seq(Seq(Chars)) : DecodesWhole(chunks)
<1> DEFINE T == {chunks \in Seq(Seq(Chars)) : DecodesWhole(chunks)}
<1>1. << >> \in T
  <2>1. << >> \in Seq(Seq(Chars)) /\ FlattenSeq(<< >>) = << >> /\ Push(Fresh, << >>) = Fresh
    BY FlatNone, PushNone, FreshIs
  <2>2. \A r : Folded(r, << >>, Decoders, Fresh, ChunkTurn) => r = Fresh
    BY FoldedNone
  <2> QED
    BY <2>1, <2>2 DEF DecodesWhole
<1>2. ASSUME NEW chunks \in Seq(Seq(Chars)), NEW x \in Seq(Chars), chunks \in T
      PROVE  Append(chunks, x) \in T
  <2>1. Append(chunks, x) \in Seq(Seq(Chars)) /\ FlattenSeq(chunks) \in Seq(Chars)
    BY FlatType
  <2>2. FlattenSeq(Append(chunks, x)) = FlattenSeq(chunks) \o x
    BY FlatAppend
  <2>3. ASSUME NEW q, Folded(q, Append(chunks, x), Decoders, Fresh, ChunkTurn)
        PROVE  q = Push(Fresh, FlattenSeq(Append(chunks, x)))
    <3>1. PICK r : Folded(r, chunks, Decoders, Fresh, ChunkTurn)
      BY DecodeFolds
    <3>2. ChunkTurn \in [Decoders -> [Seq(Chars) -> Decoders]] /\ Fresh \in Decoders
      BY ChunkTurnIs, FreshIs
    <3>3. r \in Decoders /\ q = ChunkTurn[r][x]
      <4>1. OneMore(q, r, x, Decoders, ChunkTurn)
        BY <2>3, <3>1, <3>2, FoldedAppend
      <4> QED
        BY <4>1 DEF OneMore
    <3>4. r = Push(Fresh, FlattenSeq(chunks))
      BY <1>2, <3>1 DEF DecodesWhole
    <3>5. q = Push(Push(Fresh, FlattenSeq(chunks)), x)
      BY <3>3, <3>4, ChunkTurnIs
    <3> DEFINE a == FlattenSeq(chunks)
    <3> HIDE DEF a
    <3>6. a \in Seq(Chars)
      BY <2>1 DEF a
    <3>7. Push(Fresh, a \o x) = Push(Push(Fresh, a), x)
      BY <3>2, <3>6, PushConcat
    <3> QED
      BY <2>2, <3>5, <3>7 DEF a
  <2> QED
    BY <2>1, <2>3 DEF DecodesWhole
<1> HIDE DEF T
<1>3. \A chunks \in Seq(Seq(Chars)) : chunks \in T
  BY <1>1, <1>2, SeqInduction
<1> QED
  BY <1>3 DEF T

\* A text depends on the bytes and not on the chunks they come in.
LEMMA DecodeIs ==
    ASSUME NEW chunks \in Seq(Seq(Chars))
    PROVE  DecodeText(chunks) = DecodeText(<<FlattenSeq(chunks)>>)
<1> DEFINE all == FlattenSeq(chunks)
           one == <<all>>
<1>1. all \in Seq(Chars)
  BY FlatType
<1> HIDE DEF all
<1>2. one \in Seq(Seq(Chars)) /\ FlattenSeq(one) = all
  BY <1>1, FlatOne
<1> HIDE DEF one
<1>3. DecodeText(chunks) = Ended(Push(Fresh, FlattenSeq(chunks)))
  BY DecodeFolds, ChunksDecode DEF DecodesWhole
<1>4. DecodeText(one) = Ended(Push(Fresh, FlattenSeq(one)))
  BY <1>2, DecodeFolds, ChunksDecode DEF DecodesWhole
<1> QED
  BY <1>2, <1>3, <1>4 DEF all, one

-----------------------------------------------------------------------------
(* Data URLs.                                                              *)

\* The groups of three bytes, and a link of the recursion over them.
Groups(n) == (n + 2) \div 3
Chain(f, n) == IF n = 0 THEN 0 ELSE 4 + f[IF n <= 3 THEN 0 ELSE n - 3]

\* Base64 gives four characters for every group of three bytes that was begun.
LEMMA Base64Is ==
    ASSUME NEW bytes, Len(bytes) \in Nat
    PROVE  Base64Len(bytes) = ((Len(bytes) + 2) \div 3) * 4
<1> DEFINE h == [n \in Nat |-> Groups(n) * 4]
           f == CHOOSE g : g = [n \in Nat |-> IF n = 0 THEN 0 ELSE 4 + g[IF n <= 3 THEN 0 ELSE n - 3]]
           size == Len(bytes)
<1>1. /\ Groups(0) = 0 /\ \A n \in Nat : Groups(n) \in Nat
      /\ \A n \in Nat : n # 0 /\ n <= 3 => Groups(n) = 1
      /\ \A n \in Nat : n > 3 => n - 3 \in Nat /\ Groups(n) = Groups(n - 3) + 1
  BY DEF Groups
<1>2. \A n \in Nat : h[n] = Chain(h, n)
  <2> SUFFICES ASSUME NEW n \in Nat PROVE h[n] = Chain(h, n)
    OBVIOUS
  <2>0. \A k \in Nat : h[k] = Groups(k) * 4
    OBVIOUS
  <2> HIDE DEF h
  <2>1. CASE n = 0
    <3>1. h[0] = Groups(0) * 4
      BY <2>0
    <3>2. h[0] = 0
      BY <1>1, <3>1
    <3> QED
      BY <2>1, <3>2 DEF Chain
  <2>2. CASE n # 0 /\ n <= 3
    <3>1. h[n] = Groups(n) * 4 /\ h[0] = Groups(0) * 4 /\ Groups(n) = 1 /\ Groups(0) = 0
      BY <1>1, <2>0, <2>2
    <3>2. h[n] = 4 /\ h[0] = 0
      BY <3>1
    <3> QED
      BY <2>2, <3>2 DEF Chain
  <2>3. CASE n > 3
    <3> DEFINE m == n - 3
               a == Groups(m)
    <3>1. m \in Nat /\ h[n] = Groups(n) * 4 /\ Groups(n) = a + 1 /\ a \in Nat
      BY <1>1, <2>0, <2>3
    <3>2. h[m] = a * 4
      BY <2>0, <3>1
    <3> HIDE DEF m, a
    <3>3. h[n] = 4 + h[m]
      BY <3>1, <3>2
    <3>4. ~(n = 0) /\ ~(n <= 3)
      BY <2>3
    <3> QED
      BY <3>3, <3>4 DEF Chain, m
  <2> QED
    BY <2>1, <2>2, <2>3
<1>3. h = [n \in Nat |-> h[n]]
  OBVIOUS
<1>4. Base64Len(bytes) = f[size]
  BY DEF Base64Len
<1>5. \A n \in Nat : h[n] = Groups(n) * 4
  OBVIOUS
<1> HIDE DEF h
<1>6. f = [n \in Nat |-> IF n = 0 THEN 0 ELSE 4 + f[IF n <= 3 THEN 0 ELSE n - 3]]
  <2>1. h = [n \in Nat |-> IF n = 0 THEN 0 ELSE 4 + h[IF n <= 3 THEN 0 ELSE n - 3]]
    BY <1>2, <1>3 DEF Chain
  <2>2. \E g : g = [n \in Nat |-> IF n = 0 THEN 0 ELSE 4 + g[IF n <= 3 THEN 0 ELSE n - 3]]
    BY ONLY <2>1
  <2> QED
    BY ONLY <2>2
<1> HIDE DEF f
<1>7. \A n \in Nat : f[n] = Chain(f, n)
  BY <1>6 DEF Chain
<1>8. \A n \in Nat : f[n] = h[n]
  <2> DEFINE T == {n \in Nat : f[n] # h[n]}
  <2> SUFFICES ASSUME T # {} PROVE FALSE
    OBVIOUS
  <2>1. PICK x \in T : \A y \in T : x <= y
    <3>1. T \subseteq Nat
      OBVIOUS
    <3> HIDE DEF T
    <3> QED
      BY <3>1, LeastNumber
  <2> DEFINE before == IF x <= 3 THEN 0 ELSE x - 3
  <2>2. x \in Nat /\ f[x] # h[x]
    BY <2>1
  <2>3. x # 0
    BY <1>2, <1>7, <2>2 DEF Chain
  <2>4. before \in Nat /\ before < x
    BY <2>2, <2>3
  <2> HIDE DEF before
  <2>5. f[before] = h[before]
    BY <2>1, <2>2, <2>4
  <2>6. f[x] = 4 + f[before] /\ h[x] = 4 + h[before]
    BY <1>2, <1>7, <2>2, <2>3 DEF Chain, before
  <2> QED
    BY <2>2, <2>5, <2>6
<1> QED
  BY <1>4, <1>5, <1>8 DEF Groups

-----------------------------------------------------------------------------
(* Numbers of WebIDL.                                                        *)

USE NumbersAssumption

\* The fields of a double.
LEMMA DoubleFields ==
    ASSUME NEW x \in Doubles
    PROVE  /\ x.class \in {"nan", "inf", "zero", "finite"} /\ x.sign \in {1, -1}
           /\ x.m \in Nat /\ x.m < Pow2[Mantissa] /\ x.e \in Int
           /\ x.class = "finite" => x.e + FractionBits - Mantissa \in Nat
<1>1. Pow2[Mantissa] \in Nat /\ Pow2[Mantissa] >= 1
  BY Pow2Nat
<1>2. CASE x \in [class : {"nan", "inf", "zero"}, sign : Signs, m : {0}, e : {0}]
  BY <1>1, <1>2 DEF Signs
<1>3. CASE x \in {y \in [class : {"finite"}, sign : Signs, m : 0 .. Pow2[Mantissa] - 1, e : Int] :
                     y.e >= Mantissa - FractionBits}
  <2>1. x \in [class : {"finite"}, sign : Signs, m : 0 .. Pow2[Mantissa] - 1, e : Int]
        /\ x.e >= Mantissa - FractionBits
    BY <1>3
  <2>2. x.class = "finite" /\ x.sign \in Signs /\ x.m \in 0 .. Pow2[Mantissa] - 1 /\ x.e \in Int
    BY <2>1
  <2>3. x.e + FractionBits - Mantissa \in Nat
    BY <2>1, <2>2
  <2> QED
    BY <1>1, <2>2, <2>3 DEF Signs
<1> QED
  BY <1>2, <1>3 DEF Doubles

\* A finite double is a whole number of units.
LEMMA UnitsType ==
    ASSUME NEW x \in Doubles, x.class \in {"zero", "finite"}
    PROVE  Units(x) \in Int
<1>1. CASE x.class = "zero"
  BY <1>1 DEF Units
<1>2. CASE x.class = "finite"
  <2> DEFINE p == Pow2[x.e + FractionBits - Mantissa]
             w == Pow2[Mantissa]
  <2>1. p \in Nat /\ w \in Nat
    <3>1. x.e + FractionBits - Mantissa \in Nat
      BY <1>2, DoubleFields
    <3> QED
      BY <3>1, Pow2Nat
  <2>2. x.sign \in Int /\ x.m \in Nat
    BY DoubleFields
  <2>3. Units(x) = x.sign * (w + x.m) * p
    BY <1>2 DEF Units
  <2> HIDE DEF p, w
  <2> QED
    BY <2>1, <2>2, <2>3
<1> QED
  BY <1>1, <1>2

\* Rounding gives an integer.
LEMMA RoundedType ==
    ASSUME NEW x \in Doubles, x.class \in {"zero", "finite"}
    PROVE  RoundedTiesEven(x) \in Int
<1>1. Units(x) \in Int /\ Unit \in Nat \ {0}
  BY UnitsType, Pow2Rec DEF Unit
<1>2. Units(x) \div Unit \in Int
  BY <1>1, DivMod
<1> DEFINE below == Units(x) \div Unit
           left == Units(x) % Unit
<1>3. RoundedTiesEven(x) =
          IF 2 * left < Unit \/ (2 * left = Unit /\ below % 2 = 0) THEN below ELSE below + 1
  BY DEF RoundedTiesEven
<1>4. below \in Int
  BY <1>2
<1> HIDE DEF below, left
<1> QED
  BY <1>3, <1>4

\* The range of long long.
LEMMA IntBounds ==
    IntMax \in Nat /\ IntMin = -(IntMax + 1) /\ Pow2[Width] = 2 * (IntMax + 1)
<1>1. Width - 1 \in Nat /\ (Width - 1) + 1 = Width
  OBVIOUS
<1> DEFINE w == Width - 1
<1>2. Pow2[w] \in Nat /\ Pow2[w] >= 1 /\ Pow2[w + 1] = 2 * Pow2[w]
  BY <1>1, Pow2Nat, Pow2Rec
<1>3. IntMax = Pow2[w] - 1 /\ IntMin = -Pow2[w] /\ w + 1 = Width
  BY <1>1 DEF IntMax, IntMin
<1> HIDE DEF w
<1> QED
  BY <1>2, <1>3

\* Clamping gives an integer.
LEMMA ClampedType ==
    ASSUME NEW x \in Doubles
    PROVE  ClampedLongLong(x) \in Int
<1>1. IntMax \in Int /\ IntMin \in Int
  BY IntBounds
<1>2. CASE x.class \in {"zero", "finite"}
  BY <1>1, <1>2, RoundedType DEF ClampedLongLong
<1>3. CASE x.class = "nan"
  BY <1>3 DEF ClampedLongLong
<1>4. CASE x.class = "inf"
  BY <1>1, <1>4 DEF ClampedLongLong
<1> QED
  BY <1>2, <1>3, <1>4, DoubleFields

\* An index that was clamped stands for the same place.
LEMMA ClampedPlace ==
    ASSUME NEW x \in Doubles, NEW size \in Nat, NEW absent,
           size <= IntMax, Absent \notin Int
    PROVE  Relative(ClampedLongLong(x), size, absent) =
               IF x.class = "nan" THEN 0
               ELSE IF x.class = "inf" THEN IF x.sign = 1 THEN size ELSE 0
               ELSE LET n == RoundedTiesEven(x)
                        from == IF n < 0 THEN size + n ELSE n
                    IN  IF from < 0 THEN 0 ELSE IF from > size THEN size ELSE from
<1>1. IntMax \in Nat /\ IntMin = -(IntMax + 1)
  BY IntBounds
<1>2. ClampedLongLong(x) \in Int
  BY ClampedType
<1>3. Relative(ClampedLongLong(x), size, absent) =
          IF ClampedLongLong(x) < 0 THEN Most(size + ClampedLongLong(x), 0)
          ELSE Least(ClampedLongLong(x), size)
  BY <1>2 DEF Relative
<1>4. CASE x.class = "nan"
  <2>1. ClampedLongLong(x) = 0
    BY <1>4 DEF ClampedLongLong
  <2> QED
    BY <1>3, <1>4, <2>1 DEF Least
<1>5. CASE x.class = "inf"
  <2>1. ClampedLongLong(x) = IF x.sign = 1 THEN IntMax ELSE IntMin
    BY <1>5 DEF ClampedLongLong
  <2> QED
    BY <1>1, <1>3, <1>5, <2>1 DEF Least, Most
<1>6. CASE x.class \in {"zero", "finite"}
  <2> DEFINE n == RoundedTiesEven(x)
             c == ClampedLongLong(x)
  <2>1. n \in Int
    BY <1>6, RoundedType
  <2>2. c = IF n > IntMax THEN IntMax ELSE IF n < IntMin THEN IntMin ELSE n
    BY <1>6 DEF ClampedLongLong
  <2>3. x.class # "nan" /\ x.class # "inf"
    BY <1>6
  <2> HIDE DEF n, c
  <2>4. (IF c < 0 THEN Most(size + c, 0) ELSE Least(c, size)) =
            IF (IF n < 0 THEN size + n ELSE n) < 0 THEN 0
            ELSE IF (IF n < 0 THEN size + n ELSE n) > size THEN size
            ELSE IF n < 0 THEN size + n ELSE n
    BY <1>1, <2>1, <2>2 DEF Least, Most
  <2> QED
    BY <1>3, <2>3, <2>4 DEF n, c
<1> QED
  BY <1>4, <1>5, <1>6, DoubleFields

\* Dividing products.
LEMMA DivProduct ==
    ASSUME NEW a \in Nat, NEW p \in Nat \ {0}, NEW q \in Nat \ {0}
    PROVE  (a * p) \div (p * q) = a \div q /\ (a * p) \div p = a
OBVIOUS

\* A quotient is below what the number is below.
LEMMA DivSmall ==
    ASSUME NEW a \in Nat, NEW p \in Nat \ {0}, NEW b \in Nat
    PROVE  /\ a \div p \in Nat
           /\ a < p * b => a \div p < b
<1>1. a \div p \in Int /\ (a % p) \in 0 .. p - 1 /\ a = p * (a \div p) + (a % p)
  BY DivMod
<1> DEFINE q == a \div p
           r == a % p
<1>2. q \in Int /\ r \in 0 .. p - 1 /\ a = p * q + r
  BY <1>1
<1> HIDE DEF q, r
<1>3. q >= 0
  <2> SUFFICES ASSUME q <= -1 PROVE FALSE
    BY <1>2
  <2>1. p * q <= -p
    BY <1>2
  <2> QED
    BY <1>2, <2>1
<1>4. ASSUME a < p * b PROVE q < b
  <2> SUFFICES ASSUME b <= q PROVE FALSE
    BY <1>2
  <2>1. p * b <= p * q
    BY <1>2
  <2>2. p * q \in Int /\ p * b \in Int
    BY <1>2
  <2> QED
    BY <1>2, <1>4, <2>1, <2>2
<1> QED
  BY <1>2, <1>3, <1>4 DEF q

\* A number below the divisor is its own remainder.
LEMMA SmallMod ==
    ASSUME NEW p \in Nat \ {0}, NEW r \in 0 .. p - 1
    PROVE  r % p = r
OBVIOUS

\* A multiple leaves nothing.
LEMMA MultipleMod ==
    ASSUME NEW a \in Int, NEW p \in Nat \ {0}
    PROVE  (a * p) % p = 0
OBVIOUS

\* The integer part of the magnitude of a double.
Whole(x) == ((Pow2[Mantissa] + x.m) * Pow2[x.e + FractionBits - Mantissa]) \div Unit

\* MagnitudeMod, by shifts of the mantissa, is the integer part modulo 2^Width.
LEMMA MagnitudeIs ==
    ASSUME NEW x \in Doubles, x.class = "finite"
    PROVE  Whole(x) \in Nat /\ MagnitudeMod(x.m, x.e) = Whole(x) % Pow2[Width]
<1> DEFINE w == Pow2[Mantissa]
           n == w + x.m
           p == Pow2[x.e + FractionBits - Mantissa]
           P == Pow2[Width]
           e == x.e
<1>0. x.m \in Nat /\ x.m < w /\ e \in Int /\ e + FractionBits - Mantissa \in Nat
      /\ w \in Nat \ {0} /\ P \in Nat \ {0} /\ Unit \in Nat \ {0} /\ p \in Nat \ {0}
  BY DoubleFields, Pow2Rec DEF Unit
<1>1. n \in Nat \ {0} /\ n < 2 * w /\ n = x.m + w
  BY <1>0
<1>2. Whole(x) = (n * p) \div Unit
  BY DEF Whole
<1>3. MagnitudeMod(x.m, x.e) =
          IF e < 0 \/ e >= Width + Mantissa THEN 0
          ELSE IF e >= Mantissa THEN (n * Pow2[e - Mantissa]) % P
          ELSE n \div Pow2[Mantissa - e]
  BY <1>1 DEF MagnitudeMod
<1>4. 0 % P = 0
  BY <1>0
<1> HIDE DEF n
<1>5. CASE e < 0
  <2>1. (Mantissa + 1) + (e + FractionBits - Mantissa) = e + FractionBits + 1
        /\ e + FractionBits + 1 <= FractionBits /\ e + FractionBits + 1 \in Nat
        /\ Mantissa + 1 \in Nat
    BY <1>0, <1>5
  <2>2. Pow2[e + FractionBits + 1] = Pow2[Mantissa + 1] * p
    BY <1>0, <2>1, Pow2Sum
  <2>3. Pow2[Mantissa + 1] = 2 * w
    BY Pow2Rec
  <2>4. Pow2[e + FractionBits + 1] <= Unit
    BY <2>1, Pow2Mono DEF Unit
  <2> DEFINE t == Pow2[e + FractionBits + 1]
  <2>5. t \in Nat
    BY <2>1, Pow2Nat
  <2> HIDE DEF w, p, t
  <2>6. n * p < t
    <3>1. t = (2 * w) * p
      BY <2>2, <2>3 DEF t
    <3>2. \A i, j, k \in Nat : i < j /\ k # 0 => i * k < j * k
      OBVIOUS
    <3> QED
      BY <1>0, <1>1, <3>1, <3>2
  <2>7. n * p \in Nat /\ n * p < Unit * 1
    <3>1. n * p \in Nat
      BY <1>0, <1>1
    <3> QED
      BY <1>0, <2>4, <2>5, <2>6, <3>1 DEF t
  <2>8. (n * p) \div Unit \in Nat /\ (n * p) \div Unit < 1
    BY <1>0, <2>7, DivSmall
  <2> DEFINE y == (n * p) \div Unit
  <2>9. y = 0
    <3> HIDE DEF y
    <3> QED
      BY <2>8 DEF y
  <2> QED
    BY <1>2, <1>3, <1>4, <1>5, <2>9
<1>6. CASE 0 <= e /\ e < Mantissa
  <2>1. Mantissa - e \in Nat /\ (e + FractionBits - Mantissa) + (Mantissa - e) = FractionBits
        /\ e + 1 \in Nat /\ (Mantissa - e) + (e + 1) = Mantissa + 1 /\ e + 1 <= Width
        /\ Mantissa + 1 \in Nat
    BY <1>0, <1>6
  <2> DEFINE q == Pow2[Mantissa - e]
  <2> DEFINE i == e + FractionBits - Mantissa
             j == Mantissa - e
             k == e + 1
  <2>a. i \in Nat /\ j \in Nat /\ k \in Nat /\ i + j = FractionBits /\ j + k = Mantissa + 1
    BY <1>0, <2>1
  <2>b. Pow2[i + j] = Pow2[i] * Pow2[j] /\ Pow2[j + k] = Pow2[j] * Pow2[k]
        /\ Pow2[j] \in Nat \ {0}
    <3> HIDE DEF i, j, k
    <3> QED
      BY <2>a, Pow2Rec, Pow2Sum
  <2>2. q \in Nat \ {0} /\ Unit = p * q /\ Pow2[Mantissa + 1] = q * Pow2[e + 1]
    <3> HIDE DEF i, j, k
    <3>1. Unit = Pow2[i] * Pow2[j] /\ Pow2[Mantissa + 1] = Pow2[j] * Pow2[k]
      BY <2>a, <2>b DEF Unit
    <3> QED
      BY <2>b, <3>1 DEF i, j, k
  <2>3. Pow2[Mantissa + 1] = 2 * w /\ Pow2[e + 1] <= P /\ Pow2[e + 1] \in Nat
    BY <2>1, Pow2Rec, Pow2Mono, Pow2Nat
  <2> DEFINE t == Pow2[e + 1]
  <2> HIDE DEF w, p, q, t, P
  <2>4. (n * p) \div Unit = n \div q
    <3>1. (n * p) \div (p * q) = n \div q
      <4>1. n \in Nat /\ p \in Nat \ {0} /\ q \in Nat \ {0}
        BY <1>0, <1>1, <2>2
      <4>2. ASSUME NEW a \in Nat, NEW b \in Nat \ {0}, NEW c \in Nat \ {0}
            PROVE  (a * b) \div (b * c) = a \div c
        BY DivProduct
      <4> QED
        BY ONLY <4>1, <4>2
    <3> QED
      BY <2>2, <3>1
  <2>5. n < q * t
    BY <1>1, <2>2, <2>3 DEF t
  <2>6. n \div q \in Nat /\ n \div q < t
    BY <1>1, <2>2, <2>3, <2>5, DivSmall DEF t
  <2>7. n \div q \in 0 .. P - 1
    BY <1>0, <2>3, <2>6 DEF t
  <2>8. (n \div q) % P = n \div q
    BY <1>0, <2>7, SmallMod
  <2>9. MagnitudeMod(x.m, x.e) = n \div q
    BY <1>0, <1>3, <1>6 DEF q
  <2> QED
    BY <1>2, <2>4, <2>6, <2>8, <2>9 DEF P
<1>7. CASE Mantissa <= e
  <2>1. e - Mantissa \in Nat /\ (e - Mantissa) + FractionBits = e + FractionBits - Mantissa
    BY <1>0, <1>7
  <2> DEFINE q == Pow2[e - Mantissa]
             u == Unit
  <2>2. q \in Nat \ {0} /\ p = q * u
    BY <1>0, <2>1, Pow2Rec, Pow2Sum DEF Unit
  <2>3. u \in Nat \ {0}
    BY <1>0
  <2> HIDE DEF w, p, q, u, P
  <2>4. (n * p) = (n * q) * u /\ n * q \in Nat
    BY <1>1, <2>2, <2>3
  <2>5. ((n * q) * u) \div u = n * q
    BY <2>3, <2>4, DivProduct
  <2>6. Whole(x) = n * q
    BY <1>2, <2>4, <2>5 DEF u
  <2>7. CASE e < Width + Mantissa
    <3>1. ~(e < 0) /\ ~(e >= Width + Mantissa) /\ e >= Mantissa
      BY <1>0, <1>7, <2>7
    <3>2. MagnitudeMod(x.m, x.e) = (n * q) % P
      BY <1>3, <3>1 DEF q
    <3> QED
      BY <2>4, <2>6, <3>2 DEF P
  <2>8. CASE e >= Width + Mantissa
    <3>1. e - Mantissa - Width \in Nat /\ (e - Mantissa - Width) + Width = e - Mantissa
      BY <1>0, <2>8
    <3> DEFINE r == Pow2[e - Mantissa - Width]
    <3>2. r \in Nat /\ q = r * P
      BY <3>1, Pow2Nat, Pow2Sum DEF q, P
    <3> HIDE DEF r
    <3>3. n * q = (n * r) * P /\ n * r \in Int
      BY <1>0, <1>1, <3>2
    <3>4. ((n * r) * P) % P = 0
      BY <1>0, <3>3, MultipleMod
    <3>5. MagnitudeMod(x.m, x.e) = 0
      BY <1>3, <2>8
    <3> QED
      BY <2>4, <2>6, <3>3, <3>4, <3>5 DEF P
  <2> QED
    BY <1>0, <2>7, <2>8
<1> QED
  BY <1>0, <1>5, <1>6, <1>7

\* The integer part of a double has the sign of the double.
LEMMA TruncatedIs ==
    ASSUME NEW x \in Doubles, x.class \in {"zero", "finite"}
    PROVE  /\ Truncated(x) \in Int
           /\ x.class = "zero" => Truncated(x) = 0
           /\ x.class = "finite" => Truncated(x) = IF x.sign = 1 THEN Whole(x) ELSE -Whole(x)
<1>0. Unit \in Nat \ {0} /\ 0 \div Unit = 0
  <2>1. Unit \in Nat \ {0}
    BY Pow2Rec DEF Unit
  <2> HIDE DEF Unit
  <2>2. (0 * Unit) \div Unit = 0 /\ 0 * Unit = 0
    BY <2>1, DivProduct
  <2> QED
    BY <2>1, <2>2
<1>1. CASE x.class = "zero"
  <2>1. Units(x) = 0
    BY <1>1 DEF Units
  <2> QED
    BY <1>0, <1>1, <2>1 DEF Truncated, Magnitude
<1>2. CASE x.class = "finite"
  <2> DEFINE n == (Pow2[Mantissa] + x.m) * Pow2[x.e + FractionBits - Mantissa]
             w == Pow2[Mantissa]
             p == Pow2[x.e + FractionBits - Mantissa]
  <2>1. x.m \in Nat /\ x.e + FractionBits - Mantissa \in Nat /\ x.sign \in {1, -1}
    BY <1>2, DoubleFields
  <2>2. w \in Nat \ {0} /\ p \in Nat \ {0}
    BY <2>1, Pow2Rec
  <2>3. n \in Nat \ {0}
    <3> HIDE DEF w, p
    <3>1. (w + x.m) * p \in Nat \ {0}
      BY <2>1, <2>2
    <3> QED
      BY <3>1 DEF w, p
  <2>4. Units(x) = IF x.sign = 1 THEN n ELSE -n
    <3>1. Units(x) = x.sign * (w + x.m) * p /\ n = (w + x.m) * p
      BY <1>2 DEF Units
    <3> HIDE DEF w, p, n
    <3>2. (1 * (w + x.m)) * p = (w + x.m) * p /\ ((-1) * (w + x.m)) * p = -((w + x.m) * p)
      BY <2>1, <2>2
    <3>3. CASE x.sign = 1
      BY <3>1, <3>2, <3>3
    <3>4. CASE x.sign = -1
      BY <3>1, <3>2, <3>4
    <3> QED
      BY <2>1, <3>3, <3>4
  <2>5. Whole(x) = n \div Unit
    BY DEF Whole
  <2>6. n \div Unit \in Int
    BY <1>0, <2>3, DivMod
  <2> HIDE DEF n
  <2>7. Magnitude(Units(x)) = n /\ (Units(x) < 0 <=> x.sign # 1)
    BY <2>1, <2>3, <2>4 DEF Magnitude
  <2>8. Truncated(x) = IF x.sign # 1 THEN -(n \div Unit) ELSE n \div Unit
    BY <2>7 DEF Truncated
  <2> QED
    BY <1>2, <2>5, <2>6, <2>8
<1> QED
  BY <1>1, <1>2

\* What an integer leaves modulo p, and what its negative does.
LEMMA NegativeMod ==
    ASSUME NEW s \in Int, NEW p \in Nat \ {0}
    PROVE  (p - (s % p)) % p = (-s) % p
<1> DEFINE r == s % p
           q == s \div p
<1>1. r \in 0 .. p - 1 /\ q \in Int /\ s = p * q + r
  BY DivMod
<1> HIDE DEF r, q
<1>2. CASE r = 0
  <2>1. -q \in Int /\ 1 \in Int /\ 0 \in 0 .. p - 1
    BY <1>1
  <2>2. (p * 1 + 0) % p = 0 /\ (p * (-q) + 0) % p = 0
    BY <2>1, ModIs
  <2>3. p - r = p * 1 + 0 /\ -s = p * (-q) + 0
    BY <1>1, <1>2
  <2> QED
    BY <2>2, <2>3 DEF r
<1>3. CASE r # 0
  <2>1. p - r \in 0 .. p - 1 /\ -q - 1 \in Int
    BY <1>1, <1>3
  <2>2. (p - r) % p = p - r
    BY <2>1, SmallMod
  <2>3. (p * (-q - 1) + (p - r)) % p = p - r
    BY <2>1, ModIs
  <2>4. -s = p * (-q - 1) + (p - r)
    BY <1>1
  <2> QED
    BY <2>2, <2>3, <2>4 DEF r
<1> QED
  BY <1>2, <1>3

\* Wrapped is the integer part modulo 2^Width, of negative doubles too.
LEMMA WrappedIs ==
    ASSUME NEW x \in Doubles, x.class \in {"zero", "finite"}
    PROVE  Wrapped(x) = Truncated(x) % Pow2[Width]
<1> DEFINE p == Pow2[Width]
           t == Truncated(x)
<1>1. p \in Nat \ {0} /\ t \in Int
  BY Pow2Rec, TruncatedIs
<1> HIDE DEF p, t
<1>2. CASE t = 0
  <2>1. 0 % p = 0
    BY <1>1, SmallMod
  <2> QED
    BY <1>2, <2>1 DEF Wrapped, p, t
<1>3. CASE t # 0
  <2>1. x.class = "finite"
    BY <1>3, TruncatedIs DEF t
  <2>2. Whole(x) \in Nat /\ MagnitudeMod(x.m, x.e) = Whole(x) % p
        /\ t = IF x.sign = 1 THEN Whole(x) ELSE -Whole(x)
    BY <2>1, MagnitudeIs, TruncatedIs DEF p, t
  <2>3. x.sign \in {1, -1}
    BY DoubleFields
  <2>4. Wrapped(x) = IF x.sign = -1 THEN (p - MagnitudeMod(x.m, x.e)) % p
                     ELSE MagnitudeMod(x.m, x.e)
    BY <1>3 DEF Wrapped, p, t
  <2>5. (p - (Whole(x) % p)) % p = (-Whole(x)) % p
    BY <1>1, <2>2, NegativeMod
  <2> QED
    BY <2>2, <2>3, <2>4, <2>5 DEF p, t
<1> QED
  BY <1>2, <1>3

\* Only the multiple 0 is between -p and p.
LEMMA NoMultiple ==
    ASSUME NEW p \in Nat \ {0}, NEW d \in Int, -p < p * d, p * d < p
    PROVE  d = 0
<1>1. ~(d >= 1)
  <2> SUFFICES ASSUME d >= 1 PROVE p * d >= p
    BY p * d \in Int
  <2> QED
    OBVIOUS
<1>2. ~(d <= -1)
  <2> SUFFICES ASSUME d <= -1 PROVE p * d <= -p
    BY p * d \in Int
  <2> QED
    OBVIOUS
<1> QED
  BY <1>1, <1>2

\* A timestamp is the only number of its width with the bits of the integer part.
LEMMA LongLongIs ==
    ASSUME NEW x \in Doubles, x.class \in {"zero", "finite"}
    PROVE  LongLong(x) = CHOOSE n \in IntMin .. IntMax : (n - Truncated(x)) % Pow2[Width] = 0
<1> DEFINE p == Pow2[Width]
           t == Truncated(x)
           q == t \div p
           r == t % p
           v == LongLong(x)
<1>1. p \in Nat \ {0} /\ t \in Int /\ IntMax \in Nat /\ IntMin = -(IntMax + 1)
      /\ p = 2 * (IntMax + 1)
  BY Pow2Rec, TruncatedIs, IntBounds
<1> HIDE DEF p, t
<1>2. r \in 0 .. p - 1 /\ q \in Int /\ t = p * q + r
  BY <1>1, DivMod
<1>3. Wrapped(x) = r
  BY WrappedIs DEF p, t
<1> HIDE DEF q, r
<1>4. v = IF r > IntMax THEN r - p ELSE r
  <2>1. x.class # "nan" /\ x.class # "inf"
    OBVIOUS
  <2> QED
    BY <1>3, <2>1 DEF LongLong, p
<1> HIDE DEF v
<1>5. v \in IntMin .. IntMax
  BY <1>1, <1>2, <1>4
<1>6. PICK k \in Int : v - t = p * k
  <2>1. CASE r > IntMax
    <3>1. v - t = p * (-q - 1) /\ -q - 1 \in Int
      BY <1>1, <1>2, <1>4, <2>1
    <3> QED
      BY <3>1
  <2>2. CASE ~(r > IntMax)
    <3>1. v - t = p * (-q) /\ -q \in Int
      BY <1>1, <1>2, <1>4, <2>2
    <3> QED
      BY <3>1
  <2> QED
    BY <2>1, <2>2
<1>7. (v - t) % p = 0
  <2>1. (p * k + 0) % p = 0
    <3>1. 0 \in 0 .. p - 1
      BY <1>1
    <3> QED
      BY <1>1, <3>1, ModIs
  <2>2. v - t = p * k + 0
    BY <1>1, <1>6
  <2> QED
    BY <2>1, <2>2
<1>8. ASSUME NEW n \in IntMin .. IntMax, (n - t) % p = 0
      PROVE  n = v
  <2> DEFINE d == (n - t) \div p
  <2>1. n \in Int /\ n - t \in Int
    BY <1>1, <1>8
  <2>2. d \in Int /\ n - t = p * d + ((n - t) % p)
    BY <1>1, <2>1, DivMod
  <2> HIDE DEF d
  <2>3. n - t = p * d
    <3>1. p * d \in Int
      BY <1>1, <2>2
    <3> QED
      BY <1>8, <2>2, <3>1
  <2>4. n - v = p * (d - k) /\ d - k \in Int
    <3>1. p * (d - k) = p * d - p * k
      BY <1>1, <1>6, <2>2
    <3>2. p * d \in Int /\ p * k \in Int /\ v \in Int
      BY <1>1, <1>5, <1>6, <2>2
    <3>3. n - v = p * d - p * k
      BY <1>1, <1>6, <2>1, <2>3, <3>2
    <3> QED
      BY <1>6, <2>2, <3>1, <3>3
  <2>5. -p < n - v /\ n - v < p
    BY <1>1, <1>5, <1>8
  <2>6. d - k = 0
    BY <1>1, <2>4, <2>5, NoMultiple
  <2>7. p * 0 = 0
    BY <1>1
  <2> QED
    BY <1>1, <1>5, <2>1, <2>4, <2>6, <2>7
<1>9. v = CHOOSE n \in IntMin .. IntMax : (n - t) % p = 0
  BY <1>5, <1>7, <1>8
<1> QED
  BY <1>9 DEF v, p, t

-----------------------------------------------------------------------------
(* Texts.                                                                    *)

USE LimitsAssumption DEF ValidLimits

\* The bytes of a text.
LEMMA EncodedType ==
    ASSUME NEW text \in Seq(Chars)
    PROVE  Encoded(text) \in Seq(Chars)
<1> DEFINE f == [k \in DOMAIN text |-> Utf8(text[k])]
<1>0. DOMAIN text = 1 .. Len(text) /\ Len(text) \in Nat /\ \A k \in 1 .. Len(text) : text[k] \in Chars
  OBVIOUS
<1>1. ASSUME NEW char \in Chars PROVE Utf8(char) \in Seq(Chars)
  <2>1. "lead" \in Chars /\ "trail" \in Chars
    BY DEF Chars
  <2>2. <<char>> \in Seq(Chars) /\ <<"lead", "trail">> \in Seq(Chars)
    BY <2>1
  <2> QED
    BY <2>2 DEF Utf8
<1>2. f \in Seq(Seq(Chars))
  <2>1. \A k \in 1 .. Len(text) : f[k] \in Seq(Chars)
    BY <1>0, <1>1
  <2>2. f = [k \in 1 .. Len(text) |-> f[k]]
    BY <1>0
  <2> HIDE DEF f
  <2> QED
    BY <1>0, <2>1, <2>2
<1>3. Encoded(text) = FlattenSeq(f)
  BY DEF Encoded
<1> HIDE DEF f
<1> QED
  BY <1>2, <1>3, FlatType

\* A text with the line ends of a platform.
LEMMA NativeType ==
    ASSUME NEW text \in Seq(Chars), NEW end \in Seq(Chars)
    PROVE  ToNative(text, end) \in Seq(Chars)
<1> DEFINE at(k) == IF BreaksAt(text, k) THEN end
                    ELSE IF text[k] = "LF" THEN << >> ELSE <<text[k]>>
           f == [k \in DOMAIN text |-> at(k)]
<1>0. DOMAIN text = 1 .. Len(text) /\ Len(text) \in Nat /\ \A k \in 1 .. Len(text) : text[k] \in Chars
  OBVIOUS
<1>1. ASSUME NEW k \in 1 .. Len(text) PROVE at(k) \in Seq(Chars)
  <2>1. <<text[k]>> \in Seq(Chars) /\ << >> \in Seq(Chars)
    BY <1>0
  <2> QED
    BY <2>1, Zenon
<1>2. f \in Seq(Seq(Chars))
  <2>1. \A k \in 1 .. Len(text) : f[k] \in Seq(Chars)
    BY <1>0, <1>1
  <2>2. f = [k \in 1 .. Len(text) |-> f[k]]
    BY <1>0
  <2> HIDE DEF f
  <2> QED
    BY <1>0, <2>1, <2>2
<1>3. ToNative(text, end) = FlattenSeq(f)
  BY DEF ToNative
<1> HIDE DEF f
<1> QED
  BY <1>2, <1>3, FlatType

\* The bytes of each character.
Codes(text) == [k \in DOMAIN text |-> Utf8(text[k])]

LEMMA CodeType ==
    ASSUME NEW char \in Chars
    PROVE  Utf8(char) \in Seq(Chars) /\ Len(Utf8(char)) \in Nat /\ 1 <= Len(Utf8(char))
<1>1. "lead" \in Chars /\ "trail" \in Chars
  BY DEF Chars
<1>2. <<char>> \in Seq(Chars) /\ <<"lead", "trail">> \in Seq(Chars)
  BY <1>1
<1> QED
  BY <1>2 DEF Utf8

\* A text with one character more.
LEMMA EncodedAppend ==
    ASSUME NEW text \in Seq(Chars), NEW char \in Chars
    PROVE  Encoded(Append(text, char)) = Encoded(text) \o Utf8(char)
<1>1. Codes(text) \in Seq(Seq(Chars)) /\ DOMAIN Codes(text) = DOMAIN text
      /\ Utf8(char) \in Seq(Chars)
  <2>1. DOMAIN text = 1 .. Len(text) /\ Len(text) \in Nat /\ \A k \in 1 .. Len(text) : text[k] \in Chars
    OBVIOUS
  <2>2. \A k \in 1 .. Len(text) : Codes(text)[k] \in Seq(Chars)
    BY <2>1, CodeType DEF Codes
  <2>3. Codes(text) = [k \in 1 .. Len(text) |-> Codes(text)[k]]
    BY <2>1 DEF Codes
  <2> QED
    BY <2>1, <2>2, <2>3, CodeType
<1>2. Codes(Append(text, char)) = Append(Codes(text), Utf8(char))
  <2>1. /\ \A k \in DOMAIN text : k \in DOMAIN Append(text, char) /\ Append(text, char)[k] = text[k]
        /\ Len(text) + 1 \in DOMAIN Append(text, char) /\ Append(text, char)[Len(text) + 1] = char
    OBVIOUS
  <2>2. /\ \A k \in DOMAIN text : Codes(Append(text, char))[k] = Codes(text)[k]
        /\ Codes(Append(text, char))[Len(text) + 1] = Utf8(char)
        /\ Codes(Append(text, char)) = [k \in DOMAIN Append(text, char) |-> Codes(Append(text, char))[k]]
    BY <2>1 DEF Codes
  <2>3. MapsOneMore(Codes(Append(text, char)), Utf8(char), Codes(text), text, char)
    BY ONLY <1>1, <2>2 DEF MapsOneMore
  <2> QED
    BY <1>1, <2>3, MapAppend
<1>3. /\ Encoded(text) = FlattenSeq(Codes(text))
      /\ Encoded(Append(text, char)) = FlattenSeq(Codes(Append(text, char)))
  BY DEF Encoded, Codes
<1> QED
  BY <1>1, <1>2, <1>3, FlatAppend

LEMMA EncodedNone == Encoded(<< >>) = << >>
<1>1. [k \in DOMAIN << >> |-> Utf8(<< >>[k])] = << >>
  OBVIOUS
<1> QED
  BY <1>1, FlatNone DEF Encoded

\* The bytes of two texts together; and no character has less than one.
LEMMA EncodedLen ==
    ASSUME NEW a \in Seq(Chars)
    PROVE  \A b \in Seq(Chars) :
               /\ Len(Encoded(a \o b)) = Len(Encoded(a)) + Len(Encoded(b))
               /\ Len(b) <= Len(Encoded(b))
<1> DEFINE T == {b \in Seq(Chars) : /\ Len(Encoded(a \o b)) = Len(Encoded(a)) + Len(Encoded(b))
                                    /\ Len(b) <= Len(Encoded(b))}
<1>0. Len(Encoded(a)) \in Nat
  BY EncodedType
<1>1. << >> \in T
  <2>1. << >> \in Seq(Chars) /\ a \o << >> = a /\ Len(<< >>) = 0
    OBVIOUS
  <2> QED
    BY <1>0, <2>1, EncodedNone
<1>2. ASSUME NEW b \in Seq(Chars), NEW x \in Chars, b \in T
      PROVE  Append(b, x) \in T
  <2>1. a \o Append(b, x) = Append(a \o b, x) /\ a \o b \in Seq(Chars)
        /\ Append(b, x) \in Seq(Chars) /\ Len(Append(b, x)) = Len(b) + 1 /\ Len(b) \in Nat
    BY ConcatAppend
  <2>2. /\ Encoded(Append(a \o b, x)) = Encoded(a \o b) \o Utf8(x)
        /\ Encoded(Append(b, x)) = Encoded(b) \o Utf8(x)
    BY <2>1, EncodedAppend
  <2>3. /\ Encoded(a \o b) \in Seq(Chars) /\ Encoded(b) \in Seq(Chars) /\ Utf8(x) \in Seq(Chars)
    BY <2>1, EncodedType, CodeType
  <2>4. /\ Len(Encoded(a \o b) \o Utf8(x)) = Len(Encoded(a \o b)) + Len(Utf8(x))
        /\ Len(Encoded(b) \o Utf8(x)) = Len(Encoded(b)) + Len(Utf8(x))
        /\ Len(Encoded(a \o b)) \in Nat /\ Len(Encoded(b)) \in Nat
    BY <2>3
  <2>5. Len(Encoded(a \o b)) = Len(Encoded(a)) + Len(Encoded(b)) /\ Len(b) <= Len(Encoded(b))
    BY <1>2
  <2>6. /\ Len(Encoded(a \o Append(b, x))) = Len(Encoded(a)) + Len(Encoded(Append(b, x)))
        /\ Len(Append(b, x)) <= Len(Encoded(Append(b, x)))
    <3>1. Encoded(a \o Append(b, x)) = Encoded(a \o b) \o Utf8(x)
      BY <2>1, <2>2
    <3>2. Len(Encoded(a \o Append(b, x))) = Len(Encoded(a \o b)) + Len(Utf8(x))
      BY <2>4, <3>1
    <3>3. Len(Encoded(Append(b, x))) = Len(Encoded(b)) + Len(Utf8(x))
      BY <2>2, <2>4
    <3>4. Len(Utf8(x)) \in Nat /\ 1 <= Len(Utf8(x))
      BY CodeType
    <3>5. Len(b) \in Nat /\ Len(Append(b, x)) = Len(b) + 1
      BY <2>1
    <3> QED
      BY ONLY <1>0, <2>4, <2>5, <3>2, <3>3, <3>4, <3>5
  <2> QED
    BY <2>1, <2>6
<1> HIDE DEF T
<1>3. \A b \in Seq(Chars) : b \in T
  BY <1>1, <1>2, SeqInduction
<1> QED
  BY <1>3 DEF T

\* Numbers that bound the pieces of a text bound it together.
LEMMA PiecesWeigh ==
    \A ss \in Seq(Seq(Chars)) : \A n \in Seq(Nat) :
        Len(n) = Len(ss) /\ (\A k \in 1 .. Len(n) : n[k] <= Len(Encoded(ss[k])))
            => SumOf(n) \in Nat /\ SumOf(n) <= Len(Encoded(FlattenSeq(ss)))
<1> DEFINE Below(n, ss) ==
               Len(n) = Len(ss) /\ \A k \in 1 .. Len(n) : n[k] <= Len(Encoded(ss[k]))
           T == {ss \in Seq(Seq(Chars)) : \A n \in Seq(Nat) :
                    Below(n, ss) => SumOf(n) \in Nat /\ SumOf(n) <= Len(Encoded(FlattenSeq(ss)))}
<1>1. << >> \in T
  <2>1. << >> \in Seq(Seq(Chars)) /\ Len(<< >>) = 0 /\ \A n \in Seq(Nat) : Len(n) = 0 => n = << >>
    OBVIOUS
  <2> QED
    BY <2>1, SumNone, FlatNone, EncodedNone
<1>2. ASSUME NEW ss \in Seq(Seq(Chars)), NEW x \in Seq(Chars), ss \in T
      PROVE  Append(ss, x) \in T
  <2>1. Append(ss, x) \in Seq(Seq(Chars)) /\ Len(ss) \in Nat /\ Len(Append(ss, x)) = Len(ss) + 1
        /\ Append(ss, x)[Len(ss) + 1] = x /\ \A k \in 1 .. Len(ss) : Append(ss, x)[k] = ss[k]
    OBVIOUS
  <2>2. ASSUME NEW n \in Seq(Nat), Below(n, Append(ss, x))
        PROVE  SumOf(n) \in Nat /\ SumOf(n) <= Len(Encoded(FlattenSeq(Append(ss, x))))
    <3>1. n # << >>
      BY <2>1, <2>2
    <3>2. PICK m \in Seq(Nat), y \in Nat : n = Append(m, y)
      BY <3>1, SequenceEmptyOrAppend
    <3>3. /\ Len(n) = Len(m) + 1 /\ Len(m) \in Nat /\ n[Len(m) + 1] = y
          /\ \A k \in 1 .. Len(m) : n[k] = m[k]
      BY <3>2
    <3>4. Len(m) = Len(ss) /\ y <= Len(Encoded(x))
      <4>1. Len(m) = Len(ss)
        BY <2>1, <2>2, <3>3
      <4>2. Len(m) + 1 \in 1 .. Len(n)
        BY <3>3
      <4>3. n[Len(m) + 1] <= Len(Encoded(Append(ss, x)[Len(m) + 1]))
        BY <2>2, <4>2
      <4> QED
        BY <2>1, <3>3, <4>1, <4>3
    <3>5. Below(m, ss)
      <4> SUFFICES ASSUME NEW k \in 1 .. Len(m) PROVE m[k] <= Len(Encoded(ss[k]))
        BY <3>4
      <4>1. k \in 1 .. Len(n) /\ k \in 1 .. Len(ss)
        BY <3>3, <3>4
      <4> QED
        BY <2>1, <2>2, <3>3, <4>1
    <3>6. SumOf(m) \in Nat /\ SumOf(m) <= Len(Encoded(FlattenSeq(ss)))
      BY <1>2, <3>5
    <3>7. SumOf(n) = SumOf(m) + y
      BY <3>2, SumAppend
    <3>8. /\ FlattenSeq(Append(ss, x)) = FlattenSeq(ss) \o x
          /\ FlattenSeq(ss) \in Seq(Chars)
      BY FlatAppend, FlatType
    <3>9. /\ Len(Encoded(FlattenSeq(ss) \o x)) = Len(Encoded(FlattenSeq(ss))) + Len(Encoded(x))
          /\ Len(Encoded(FlattenSeq(ss))) \in Nat /\ Len(Encoded(x)) \in Nat
      <4> DEFINE all == FlattenSeq(ss)
      <4>1. all \in Seq(Chars)
        BY <3>8
      <4> HIDE DEF all
      <4>2. Len(Encoded(all \o x)) = Len(Encoded(all)) + Len(Encoded(x))
        BY <4>1, EncodedLen
      <4>3. Encoded(all) \in Seq(Chars) /\ Encoded(x) \in Seq(Chars)
        BY <4>1, EncodedType
      <4>4. Len(Encoded(all)) \in Nat /\ Len(Encoded(x)) \in Nat
        BY <4>3
      <4> QED
        BY <4>2, <4>4 DEF all
    <3> QED
      BY <3>4, <3>6, <3>7, <3>8, <3>9
  <2> QED
    BY <2>1, <2>2
<1> HIDE DEF T
<1>3. \A ss \in Seq(Seq(Chars)) : ss \in T
  BY <1>1, <1>2, SeqInduction
<1> QED
  BY <1>3 DEF T

\* What is counted without the conversion is not more than the conversion makes.
LEMMA CountedIs ==
    ASSUME NEW text \in Seq(Chars), target \in Seq(Chars)
    PROVE  NativeLen(text) \in Nat /\ NativeLen(text) <= Len(Encoded(ToNative(text, target)))
<1> DEFINE at(k) == IF BreaksAt(text, k) THEN target
                    ELSE IF text[k] = "LF" THEN << >> ELSE <<text[k]>>
           f == [k \in DOMAIN text |-> at(k)]
           weight(k) == IF BreaksAt(text, k) THEN Len(target)
                        ELSE IF text[k] = "LF" THEN 0 ELSE Len(Utf8(text[k]))
           n == [k \in DOMAIN text |-> weight(k)]
<1>0. DOMAIN text = 1 .. Len(text) /\ Len(text) \in Nat /\ \A k \in 1 .. Len(text) : text[k] \in Chars
  OBVIOUS
<1>1. ASSUME NEW k \in 1 .. Len(text)
      PROVE  at(k) \in Seq(Chars) /\ weight(k) \in Nat /\ weight(k) <= Len(Encoded(at(k)))
  <2>1. text[k] \in Chars /\ << >> \in Seq(Chars) /\ <<text[k]>> \in Seq(Chars)
        /\ Append(<< >>, text[k]) = <<text[k]>>
    BY <1>0
  <2>2. CASE BreaksAt(text, k)
    <3>1. at(k) = target /\ weight(k) = Len(target)
      BY <2>2, Zenon
    <3>2. Len(target) \in Nat /\ Len(target) <= Len(Encoded(target))
      BY EncodedLen
    <3> QED
      BY <3>1, <3>2
  <2>3. CASE ~BreaksAt(text, k) /\ text[k] = "LF"
    <3>1. at(k) = << >> /\ weight(k) = 0
      BY <2>3, Zenon
    <3> QED
      BY <2>1, <3>1, EncodedNone
  <2>4. CASE ~BreaksAt(text, k) /\ text[k] # "LF"
    <3>1. at(k) = <<text[k]>> /\ weight(k) = Len(Utf8(text[k]))
      BY <2>4, Zenon
    <3>2. Encoded(<<text[k]>>) = << >> \o Utf8(text[k])
      BY <2>1, EncodedAppend, EncodedNone
    <3>3. Utf8(text[k]) \in Seq(Chars) /\ Len(Utf8(text[k])) \in Nat
      BY <2>1, CodeType
    <3>4. << >> \o Utf8(text[k]) = Utf8(text[k])
      BY <3>3
    <3> QED
      BY <2>1, <3>1, <3>2, <3>3, <3>4
  <2> QED
    BY <2>2, <2>3, <2>4
<1>2. f \in Seq(Seq(Chars)) /\ n \in Seq(Nat) /\ Len(f) = Len(text) /\ Len(n) = Len(text)
      /\ \A k \in 1 .. Len(n) : n[k] <= Len(Encoded(f[k]))
  <2>1. \A k \in 1 .. Len(text) : /\ f[k] \in Seq(Chars) /\ n[k] \in Nat
                                  /\ n[k] <= Len(Encoded(f[k]))
    BY <1>0, <1>1
  <2>2. f = [k \in 1 .. Len(text) |-> f[k]] /\ n = [k \in 1 .. Len(text) |-> n[k]]
    BY <1>0
  <2> HIDE DEF f, n
  <2>3. f \in Seq(Seq(Chars)) /\ Len(f) = Len(text)
    BY <1>0, <2>1, <2>2
  <2>4. n \in Seq(Nat) /\ Len(n) = Len(text)
    BY <1>0, <2>1, <2>2
  <2> QED
    BY <2>1, <2>3, <2>4
<1>3. ToNative(text, target) = FlattenSeq(f) /\ NativeLen(text) = SumOf(n)
  BY DEF ToNative, NativeLen
<1> HIDE DEF f, n
<1> QED
  BY <1>2, <1>3, PiecesWeigh

\* A type that is normalized stays as it is.
LEMMA NormalizedOnce ==
    ASSUME NEW type \in Seq(Chars)
    PROVE  /\ NormalizedType(type) \in Seq(Chars)
           /\ NormalizedType(NormalizedType(type)) = NormalizedType(type)
<1>1. CASE \E k \in DOMAIN type : type[k] \in {"w", "CR", "LF"}
  <2>1. NormalizedType(type) = << >>
    BY <1>1 DEF NormalizedType
  <2>2. NormalizedType(<< >>) = << >>
    BY DEF NormalizedType
  <2> QED
    BY <2>1, <2>2
<1>2. CASE ~ \E k \in DOMAIN type : type[k] \in {"w", "CR", "LF"}
  <2> DEFINE t == [k \in DOMAIN type |-> IF type[k] = "X" THEN "x" ELSE type[k]]
  <2>1. NormalizedType(type) = t
    BY <1>2 DEF NormalizedType
  <2>2. t \in Seq(Chars) /\ DOMAIN t = DOMAIN type
    <3>1. /\ DOMAIN type = 1 .. Len(type) /\ Len(type) \in Nat
          /\ \A k \in 1 .. Len(type) : type[k] \in Chars
      OBVIOUS
    <3>2. "x" \in Chars
      BY DEF Chars
    <3>3. \A k \in 1 .. Len(type) : t[k] \in Chars
      BY <3>1, <3>2
    <3>4. t = [k \in 1 .. Len(type) |-> t[k]]
      BY <3>1
    <3> HIDE DEF t
    <3> QED
      BY <3>1, <3>3, <3>4
  <2>3. \A k \in DOMAIN t : t[k] \notin {"w", "CR", "LF"} /\ t[k] # "X"
    BY <1>2
  <2>4. t = [k \in DOMAIN t |-> t[k]]
    OBVIOUS
  <2> HIDE DEF t
  <2>5. NormalizedType(t) = [k \in DOMAIN t |-> IF t[k] = "X" THEN "x" ELSE t[k]]
    BY <2>3 DEF NormalizedType
  <2>6. NormalizedType(t) = t
    BY <2>3, <2>4, <2>5
  <2> QED
    BY <2>1, <2>2, <2>6
<1> QED
  BY <1>1, <1>2

-----------------------------------------------------------------------------
(* Blobs, and parts of a constructor.                                      *)

Normals == {t \in Seq(Chars) : NormalizedType(t) = t}

Blobs == {b \in [segments : FitSegments, size : Nat, type : Normals] : b.size = TotalLen(b.segments)}

\* What is known of the data of an object.
LEMMA BlobFields ==
    ASSUME NEW b \in Blobs
    PROVE  /\ b.segments \in FitSegments /\ b.segments \in Seq(ValidSegments)
           /\ b.size \in Nat /\ b.size = TotalLen(b.segments) /\ b.size <= MaxSize
           /\ Len(b.segments) <= MaxSegments
           /\ b.type \in Seq(Chars) /\ NormalizedType(b.type) = b.type
           /\ ReadAll(b.segments) \in Seq(Chars) /\ Len(ReadAll(b.segments)) = b.size
<1>1. /\ b.segments \in FitSegments /\ b.size \in Nat /\ b.type \in Normals
      /\ b.size = TotalLen(b.segments)
  BY DEF Blobs
<1>2. /\ b.segments \in Seq(ValidSegments) /\ TotalLen(b.segments) <= MaxSize
      /\ Len(b.segments) <= MaxSegments
  BY <1>1 DEF FitSegments
<1>3. b.type \in Seq(Chars) /\ NormalizedType(b.type) = b.type
  BY <1>1 DEF Normals
<1> QED
  BY <1>1, <1>2, <1>3, ReadAllType, ReadAllLen

\* The blob of segments that keep the limits.
LEMMA IsBlobOf ==
    ASSUME NEW b, NEW ss \in FitSegments, NEW type \in Seq(Chars), IsBlob(b, ss, type)
    PROVE  b \in Blobs /\ b.segments = ss /\ b.size = TotalLen(ss) /\ b.type = NormalizedType(type)
<1>1. ss \in Seq(ValidSegments)
  BY DEF FitSegments
<1>2. TotalLen(ss) \in Nat
  BY <1>1, TotalType
<1>3. NormalizedType(type) \in Normals
  BY NormalizedOnce DEF Normals
<1>4. b = [segments |-> ss, size |-> TotalLen(ss), type |-> NormalizedType(type)]
  BY DEF IsBlob
<1>5. b.segments = ss /\ b.size = TotalLen(ss) /\ b.type = NormalizedType(type)
  BY <1>4
<1>6. b \in [segments : FitSegments, size : Nat, type : Normals]
  BY <1>2, <1>3, <1>4
<1> QED
  BY <1>5, <1>6 DEF Blobs

\* What a constructor may have as converted parts.
PartValues == {Copied(bytes) : bytes \in Seq(Chars)} \cup {Shared(b) : b \in Blobs}
              \cup {Text(text) : text \in Seq(Chars)}

\* The bytes that a part gives, with the line ends of a platform.
BytesOf(part, native, end) ==
    IF part.how = "text" THEN Encoded(IF native THEN ToNative(part.text, end) ELSE part.text)
    ELSE IF part.how = "shared" THEN ReadAll(part.data.segments) ELSE part.bytes
PiecesOf(part, native, end) ==
    IF part.how = "shared" THEN Len(part.data.segments)
    ELSE Least(1, Len(BytesOf(part, native, end)))

\* A part is a copy, the data of a blob, or a text.
LEMMA PartKinds ==
    ASSUME NEW part \in PartValues
    PROVE  \/ part.how = "copied" /\ part.bytes \in Seq(Chars)
           \/ part.how = "shared" /\ part.data \in Blobs
           \/ part.how = "text" /\ part.text \in Seq(Chars)
<1>1. CASE \E bytes \in Seq(Chars) : part = Copied(bytes)
  BY <1>1 DEF Copied
<1>2. CASE \E b \in Blobs : part = Shared(b)
  BY <1>2 DEF Shared
<1>3. CASE \E text \in Seq(Chars) : part = Text(text)
  BY <1>3 DEF Text
<1> QED
  BY <1>1, <1>2, <1>3 DEF PartValues

\* A part has bytes.
LEMMA BytesOfType ==
    ASSUME NEW part \in PartValues, NEW native \in BOOLEAN, NEW end \in Seq(Chars)
    PROVE  BytesOf(part, native, end) \in Seq(Chars)
<1>1. CASE part.how = "copied" /\ part.bytes \in Seq(Chars)
  BY <1>1 DEF BytesOf
<1>2. CASE part.how = "shared" /\ part.data \in Blobs
  BY <1>2, BlobFields DEF BytesOf
<1>3. CASE part.how = "text" /\ part.text \in Seq(Chars)
  <2>1. ToNative(part.text, end) \in Seq(Chars)
    BY <1>3, NativeType
  <2>2. Encoded(ToNative(part.text, end)) \in Seq(Chars) /\ Encoded(part.text) \in Seq(Chars)
    BY <1>3, <2>1, EncodedType
  <2> QED
    BY <1>3, <2>2 DEF BytesOf
<1> QED
  BY <1>1, <1>2, <1>3, PartKinds

\* What the properties say of a part is said of its bytes.
LEMMA PartIs ==
    ASSUME NEW part \in PartValues, NEW native \in BOOLEAN, target \in Seq(Chars)
    PROVE  /\ PartWeight(part, native) = Len(BytesOf(part, native, target))
           /\ PartPieces(part, native) = PiecesOf(part, native, target)
           /\ part.how # "shared" => PartBytes(part, native) = BytesOf(part, native, target)
           /\ PartWeight(part, native) \in Nat /\ PartPieces(part, native) \in Nat
<1>0. BytesOf(part, native, target) \in Seq(Chars) /\ Len(BytesOf(part, native, target)) \in Nat
  BY BytesOfType
<1>1. CASE part.how = "shared" /\ part.data \in Blobs
  <2>1. Len(part.data.segments) \in Nat
    BY <1>1, BlobFields
  <2> QED
    BY <1>1, <2>1, BlobFields DEF PartWeight, PartPieces, BytesOf, PiecesOf
<1>2. CASE part.how # "shared"
  <2>1. PartBytes(part, native) = BytesOf(part, native, target)
    BY <1>2 DEF PartBytes, BytesOf
  <2>2. Least(1, Len(BytesOf(part, native, target))) \in Nat
    BY <1>0 DEF Least
  <2> QED
    BY <1>0, <1>2, <2>1, <2>2 DEF PartWeight, PartPieces, PiecesOf
<1> QED
  BY <1>1, <1>2, PartKinds

-----------------------------------------------------------------------------
(* The collector.                                                          *)

\* What a collector has: the blob of the segments so far, or an error.
Made == {b \in Blobs : b.type = << >>}
Failures == {Err("BlobSegments"), Err("BlobSize")}
Results == {Ok(b) : b \in Made} \cup Failures

\* A failed result is no success.
LEMMA FailureIs ==
    ASSUME NEW r \in Failures
    PROVE  ~ r.ok /\ r \in Results
BY DEF Failures, Results, Err

\* A successful result has a blob without a type.
LEMMA OkIs ==
    ASSUME NEW r \in Results, r.ok
    PROVE  r = Ok(r.value) /\ r.value \in Made /\ r.value \in Blobs
<1>1. r \notin Failures
  BY FailureIs
<1>2. PICK b \in Made : r = Ok(b)
  BY <1>1 DEF Results
<1>3. r.value = b
  BY <1>2 DEF Ok
<1> QED
  BY <1>2, <1>3 DEF Made

\* WithinLimits of segments, without a type.
LEMMA LimitsResult ==
    ASSUME NEW ss \in Seq(ValidSegments)
    PROVE  /\ WithinLimits(ss, << >>) \in Results
           /\ WithinLimits(ss, << >>).ok <=> ss \in FitSegments
           /\ WithinLimits(ss, << >>).ok => WithinLimits(ss, << >>).value.segments = ss
<1> DEFINE w == WithinLimits(ss, << >>)
<1>1. /\ w.ok \in BOOLEAN
      /\ w.ok <=> ss \in FitSegments
      /\ w.ok => IsBlob(w.value, ss, << >>)
  BY WithinLimitsIs
<1>2. CASE w.ok
  <2>1. << >> \in Seq(Chars) /\ NormalizedType(<< >>) = << >>
    BY DEF NormalizedType
  <2>2. w.value \in Blobs /\ w.value.segments = ss /\ w.value.type = << >>
    BY <1>1, <1>2, <2>1, IsBlobOf
  <2>3. w = Ok(w.value)
    <3>1. w \in Failures \/ w = Ok([segments |-> ss, size |-> TotalLen(ss),
                                    type |-> NormalizedType(<< >>)])
      BY DEF WithinLimits, Sized, Failures
    <3>2. w = Ok([segments |-> ss, size |-> TotalLen(ss), type |-> NormalizedType(<< >>)])
      BY <1>2, <3>1, FailureIs
    <3> QED
      BY <3>2 DEF Ok
  <2> HIDE DEF w
  <2> QED
    BY <1>1, <2>2, <2>3 DEF Results, Made, w
<1>3. CASE ~ w.ok
  <2>1. w \in Failures \/ w = Ok([segments |-> ss, size |-> TotalLen(ss),
                                  type |-> NormalizedType(<< >>)])
    BY DEF WithinLimits, Sized, Failures
  <2>2. w \in Failures
    BY <1>3, <2>1 DEF Ok
  <2> HIDE DEF w
  <2> QED
    BY <1>1, <1>3, <2>2, FailureIs DEF w
<1> QED
  BY <1>2, <1>3

\* Of segments that keep the limits together, each half does.
LEMMA FitLess ==
    ASSUME NEW a \in Seq(ValidSegments), NEW b \in Seq(ValidSegments), a \o b \in FitSegments
    PROVE  a \in FitSegments /\ b \in FitSegments
<1>1. TotalLen(a \o b) = TotalLen(a) + TotalLen(b) /\ TotalLen(a) \in Nat /\ TotalLen(b) \in Nat
  BY ReadAllConcat, TotalType
<1>2. Len(a \o b) = Len(a) + Len(b) /\ Len(a) \in Nat /\ Len(b) \in Nat
  OBVIOUS
<1>3. TotalLen(a \o b) <= MaxSize /\ Len(a \o b) <= MaxSegments
  BY DEF FitSegments
<1> QED
  BY <1>1, <1>2, <1>3 DEF FitSegments

\* One part more is its segments after those so far, or an error.
LEMMA CollectIs ==
    ASSUME NEW r \in Results, NEW part \in PartValues, NEW native \in BOOLEAN,
           target \in Seq(Chars)
    PROVE  /\ Collect(r, part, native) \in Results
           /\ ~ r.ok => ~ Collect(r, part, native).ok
           /\ r.ok => \E tt \in Seq(ValidSegments) :
                 /\ ReadAll(tt) = BytesOf(part, native, target)
                 /\ TotalLen(tt) = Len(BytesOf(part, native, target))
                 /\ Len(tt) = PiecesOf(part, native, target)
                 /\ Collect(r, part, native).ok <=> r.value.segments \o tt \in FitSegments
                 /\ Collect(r, part, native).ok =>
                       Collect(r, part, native).value.segments = r.value.segments \o tt
<1> DEFINE c == Collect(r, part, native)
           bytes == BytesOf(part, native, target)
           ss == r.value.segments
<1>1. CASE ~ r.ok
  BY <1>1 DEF Collect
<1>2. CASE r.ok
  <2>1. r.value \in Blobs /\ ss \in FitSegments /\ ss \in Seq(ValidSegments) /\ bytes \in Seq(Chars)
    BY <1>2, OkIs, BlobFields, BytesOfType
  <2>2. CASE part.how = "shared" /\ part.data \in Blobs
    <3> DEFINE tt == part.data.segments
    <3>1. tt \in Seq(ValidSegments) /\ ReadAll(tt) = bytes /\ TotalLen(tt) = Len(bytes)
          /\ Len(tt) = PiecesOf(part, native, target)
      BY <2>2, BlobFields DEF BytesOf, PiecesOf
    <3>2. c = WithinLimits(ss \o tt, << >>)
      BY <1>2, <2>2 DEF Collect, ConcatShared, Ok
    <3>3. ss \o tt \in Seq(ValidSegments)
      BY <2>1, <3>1
    <3> HIDE DEF tt, c, ss, bytes
    <3> QED
      BY <1>2, <3>1, <3>2, <3>3, LimitsResult DEF c, ss, bytes
  <2>3. CASE part.how # "shared" /\ PartBytes(part, native) = << >>
    <3>1. bytes = << >>
      BY <2>3, PartIs
    <3>2. c = r
      BY <1>2, <2>3 DEF Collect
    <3>3. /\ << >> \in Seq(ValidSegments) /\ ReadAll(<< >>) = << >> /\ TotalLen(<< >>) = 0
          /\ Len(<< >>) = 0 /\ ss \o << >> = ss
      BY <2>1, ReadAllNone, TotalNone
    <3>4. PiecesOf(part, native, target) = 0
      BY <2>3, <3>1, <3>3 DEF PiecesOf, Least
    <3> HIDE DEF c, ss, bytes
    <3> QED
      BY <1>2, <2>1, <3>1, <3>2, <3>3, <3>4 DEF c, ss, bytes
  <2>4. CASE part.how # "shared" /\ PartBytes(part, native) # << >>
    <3>1. PartBytes(part, native) = bytes
      BY <2>4, PartIs
    <3>2. PICK tt \in Seq(ValidSegments) :
              /\ FromBytes(bytes, << >>) = WithinLimits(tt, << >>)
              /\ ReadAll(tt) = bytes
              /\ TotalLen(tt) = Len(bytes) /\ Len(tt) = Least(1, Len(bytes))
      BY <2>1, FromBytesIs
    <3> DEFINE d == WithinLimits(tt, << >>)
    <3>3. c = IF ~ d.ok THEN d ELSE WithinLimits(ss \o d.value.segments, << >>)
      BY <1>2, <2>4, <3>1, <3>2 DEF Collect, ConcatShared
    <3>4. /\ d \in Results /\ (d.ok <=> tt \in FitSegments)
          /\ d.ok => d.value.segments = tt
      BY LimitsResult
    <3>5. ss \o tt \in Seq(ValidSegments)
      BY <2>1
    <3>6. ss \o tt \in FitSegments => tt \in FitSegments
      BY <2>1, FitLess
    <3>7. PiecesOf(part, native, target) = Len(tt)
      BY <2>4, <3>2 DEF PiecesOf
    <3> HIDE DEF c, d, ss, bytes
    <3>8. c \in Results /\ (c.ok <=> ss \o tt \in FitSegments)
      BY <3>3, <3>4, <3>5, <3>6, LimitsResult
    <3>9. c.ok => c.value.segments = ss \o tt
      BY <3>3, <3>4, <3>5, <3>6, LimitsResult
    <3>10. /\ ReadAll(tt) = bytes /\ TotalLen(tt) = Len(bytes)
           /\ Len(tt) = PiecesOf(part, native, target)
           /\ c.ok <=> ss \o tt \in FitSegments
           /\ c.ok => c.value.segments = ss \o tt
      BY <3>2, <3>7, <3>8, <3>9
    <3>11. c \in Results
      BY <3>8
    <3> QED
      BY <1>2, <3>10, <3>11 DEF c, ss, bytes
  <2> QED
    BY <2>2, <2>3, <2>4, PartKinds
<1> QED
  BY <1>1, <1>2

\* The steps of process_converted.
CollectAt(parts, native, f, k) ==
    IF k = 0 THEN Ok(EmptyBlob(<< >>)) ELSE Collect(f[k - 1], parts[k], native)
Collects(parts, native) ==
    [k \in Nat |-> [r \in Results |->
        IF k \in 1 .. Len(parts) THEN Collect(r, parts[k], native) ELSE r]]
Nothing == Ok(EmptyBlob(<< >>))

\* The collection begins with no segments.
LEMMA NothingIs == Nothing \in Results /\ Nothing.ok /\ Nothing.value.segments = << >>
<1>1. << >> \in Seq(Chars) /\ NormalizedType(<< >>) = << >>
  BY DEF NormalizedType
<1>2. IsBlob(EmptyBlob(<< >>), << >>, << >>) /\ << >> \in FitSegments
  BY EmptyIs
<1>3. EmptyBlob(<< >>) \in Blobs /\ EmptyBlob(<< >>).segments = << >>
      /\ EmptyBlob(<< >>).type = << >>
  BY <1>1, <1>2, IsBlobOf
<1> QED
  BY <1>3 DEF Nothing, Ok, Results, Made

\* The steps of process_converted are total.
LEMMA CollectsType ==
    ASSUME NEW parts \in Seq(PartValues), NEW native \in BOOLEAN, target \in Seq(Chars)
    PROVE  /\ Collects(parts, native) \in [Nat -> [Results -> Results]]
           /\ \A k \in 1 .. Len(parts), r \in Results :
                 Collects(parts, native)[k][r] = Collect(r, parts[k], native)
<1>1. \A k \in 1 .. Len(parts) : k \in Nat /\ parts[k] \in PartValues
  OBVIOUS
<1>2. \A k \in 1 .. Len(parts), r \in Results : Collect(r, parts[k], native) \in Results
  BY <1>1, CollectIs
<1> QED
  BY <1>1, <1>2 DEF Collects

\* process_converted is an iteration of these steps.
LEMMA CollectAllIs ==
    ASSUME NEW parts \in Seq(PartValues), NEW native \in BOOLEAN, target \in Seq(Chars)
    PROVE  \E f : /\ Prefix(f, Results, Nothing, Collects(parts, native), Len(parts))
                  /\ CollectAll(parts, native) = f[Len(parts)]
<1> DEFINE n == Len(parts)
<1>0. n \in Nat
  OBVIOUS
<1>1. PICK g : Prefix(g, Results, Nothing, Collects(parts, native), n)
  <2>1. Collects(parts, native) \in [Nat -> [Results -> Results]]
    BY CollectsType
  <2> QED
    BY <1>0, <2>1, NothingIs, PrefixExists
<1> HIDE DEF n
<1>2. g = [k \in 0 .. n |-> CollectAt(parts, native, g, k)]
  <2>1. g = [k \in 0 .. n |-> g[k]] /\ g[0] = Nothing
    BY <1>1 DEF Prefix
  <2>2. ASSUME NEW k \in 0 .. n PROVE g[k] = CollectAt(parts, native, g, k)
    <3>1. CASE k = 0
      BY <2>1, <3>1 DEF CollectAt, Nothing
    <3>2. CASE k # 0
      <4>1. k \in 1 .. n /\ k - 1 \in 0 .. n
        BY <1>0, <3>2
      <4>2. g[k] = Collects(parts, native)[k][g[k - 1]] /\ g[k - 1] \in Results
        BY <1>1, <4>1 DEF Prefix
      <4>3. g[k] = Collect(g[k - 1], parts[k], native)
        BY <4>1, <4>2, CollectsType DEF n
      <4> QED
        BY <3>2, <4>3 DEF CollectAt
    <3> QED
      BY <3>1, <3>2
  <2> QED
    BY <2>1, <2>2
<1> DEFINE f == CHOOSE h : h = [k \in 0 .. n |-> IF k = 0 THEN Ok(EmptyBlob(<< >>))
                                               ELSE Collect(h[k - 1], parts[k], native)]
<1>3. f = [k \in 0 .. n |-> CollectAt(parts, native, f, k)]
  <2>1. \E h : h = [k \in 0 .. n |-> IF k = 0 THEN Ok(EmptyBlob(<< >>))
                                     ELSE Collect(h[k - 1], parts[k], native)]
    BY ONLY <1>2 DEF CollectAt
  <2>2. f = [k \in 0 .. n |-> IF k = 0 THEN Ok(EmptyBlob(<< >>))
                              ELSE Collect(f[k - 1], parts[k], native)]
    BY ONLY <2>1
  <2> QED
    BY ONLY <2>2 DEF CollectAt
<1>4. CollectAll(parts, native) = f[n]
  BY DEF CollectAll, n
<1> HIDE DEF f
<1>5. f = g
  <2>1. \A k \in 0 .. n : f[k] = CollectAt(parts, native, f, k)
    BY <1>3
  <2>2. f = [k \in 0 .. n |-> f[k]]
    BY <1>3
  <2>3. f[0] = Nothing
    BY <1>0, <2>1 DEF CollectAt, Nothing
  <2>4. ASSUME NEW k \in 1 .. n, f[k - 1] \in Results
        PROVE  f[k] = Collects(parts, native)[k][f[k - 1]]
    <3>1. k \in 0 .. n /\ k # 0
      BY <1>0
    <3>2. f[k] = Collect(f[k - 1], parts[k], native)
      BY <2>1, <3>1 DEF CollectAt
    <3> QED
      BY <2>4, <3>2, CollectsType DEF n
  <2>5. Nothing \in Results
    BY NothingIs
  <2> HIDE DEF f
  <2> QED
    BY <1>0, <1>1, <2>2, <2>3, <2>4, <2>5, PrefixOnly
<1> QED
  BY <1>1, <1>4, <1>5 DEF n

\* Collecting no parts.
LEMMA CollectNone ==
    ASSUME NEW native \in BOOLEAN, target \in Seq(Chars)
    PROVE  CollectAll(<< >>, native) = Nothing
<1>1. << >> \in Seq(PartValues) /\ Len(<< >>) = 0
  OBVIOUS
<1>2. PICK f : /\ Prefix(f, Results, Nothing, Collects(<< >>, native), Len(<< >>))
               /\ CollectAll(<< >>, native) = f[Len(<< >>)]
  BY <1>1, CollectAllIs
<1> QED
  BY <1>1, <1>2 DEF Prefix

\* The blob of one part more.
LEMMA CollectAppend ==
    ASSUME NEW parts \in Seq(PartValues), NEW x \in PartValues, NEW native \in BOOLEAN,
           target \in Seq(Chars)
    PROVE  /\ CollectAll(parts, native) \in Results
           /\ CollectAll(Append(parts, x), native) = Collect(CollectAll(parts, native), x, native)
<1> DEFINE t == Append(parts, x)
           n == Len(parts)
           m == n + 1
<1>0. /\ n \in Nat /\ m \in Nat /\ Len(t) = m /\ n <= m /\ m - 1 = n /\ m \in 1 .. m
      /\ n \in 0 .. n /\ t \in Seq(PartValues)
  OBVIOUS
<1>1. t[m] = x /\ \A k \in 1 .. n : parts[k] = t[k]
  OBVIOUS
<1> HIDE DEF t, m
<1>2. PICK f : /\ Prefix(f, Results, Nothing, Collects(parts, native), n)
               /\ CollectAll(parts, native) = f[n]
  BY CollectAllIs
<1>3. PICK g : /\ Prefix(g, Results, Nothing, Collects(t, native), m)
               /\ CollectAll(t, native) = g[m]
  <2>1. \E g : /\ Prefix(g, Results, Nothing, Collects(t, native), Len(t))
               /\ CollectAll(t, native) = g[Len(t)]
    BY <1>0, CollectAllIs
  <2> QED
    BY <1>0, <2>1
<1>4. ASSUME NEW k \in 1 .. n PROVE Collects(parts, native)[k] = Collects(t, native)[k]
  <2>1. k \in Nat /\ k \in 1 .. Len(parts) /\ k \in 1 .. Len(t) /\ parts[k] = t[k]
    BY <1>0, <1>1
  <2> QED
    BY <2>1 DEF Collects
<1>5. f[n] = g[n]
  <2>1. \A k \in Nat : k <= n /\ k <= m => f[k] = g[k]
    <3>1. n \in Nat /\ m \in Nat
      BY <1>0
    <3>2. /\ Prefix(f, Results, Nothing, Collects(parts, native), n)
          /\ Prefix(g, Results, Nothing, Collects(t, native), m)
      BY <1>2, <1>3
    <3>3. Agree(Collects(parts, native), Collects(t, native), n)
      BY <1>4 DEF Agree
    <3> HIDE DEF n
    <3> QED
      BY ONLY <3>1, <3>2, <3>3, PrefixUnique
  <2> QED
    BY <1>0, <2>1
<1>6. f[n] \in Results
  BY <1>0, <1>2 DEF Prefix
<1>7. g[m] = Collects(t, native)[m][g[n]]
  BY <1>0, <1>3 DEF Prefix
<1>8. g[m] = Collect(g[n], x, native)
  <2>1. Collects(t, native)[m][g[n]] = Collect(g[n], t[m], native)
    BY <1>0, <1>5, <1>6, CollectsType
  <2> QED
    BY <1>1, <1>7, <2>1
<1> QED
  BY <1>2, <1>3, <1>5, <1>6, <1>8 DEF t

\* The bytes of all parts, and the numbers of bytes and of pieces.
EachBytes(parts, native, end) == [k \in DOMAIN parts |-> BytesOf(parts[k], native, end)]
EachWeight(parts, native, end) == [k \in DOMAIN parts |-> Len(BytesOf(parts[k], native, end))]
EachCount(parts, native, end) == [k \in DOMAIN parts |-> PiecesOf(parts[k], native, end)]
BytesAt(parts, native, end) == FlattenSeq(EachBytes(parts, native, end))
WeightAt(parts, native, end) == SumOf(EachWeight(parts, native, end))
CountAt(parts, native, end) == SumOf(EachCount(parts, native, end))

\* A part has a number of pieces and of bytes.
LEMMA PiecesOfType ==
    ASSUME NEW part \in PartValues, NEW native \in BOOLEAN, NEW end \in Seq(Chars)
    PROVE  PiecesOf(part, native, end) \in Nat /\ Len(BytesOf(part, native, end)) \in Nat
<1>1. Len(BytesOf(part, native, end)) \in Nat
  BY BytesOfType
<1>2. part.how = "shared" => Len(part.data.segments) \in Nat
  BY PartKinds, BlobFields
<1> QED
  BY <1>1, <1>2 DEF PiecesOf, Least

\* The bytes, weights and counts of parts.
LEMMA EachType ==
    ASSUME NEW parts \in Seq(PartValues), NEW native \in BOOLEAN, NEW end \in Seq(Chars)
    PROVE  /\ EachBytes(parts, native, end) \in Seq(Seq(Chars))
           /\ EachWeight(parts, native, end) \in Seq(Nat)
           /\ EachCount(parts, native, end) \in Seq(Nat)
<1>1. DOMAIN parts = 1 .. Len(parts) /\ Len(parts) \in Nat
      /\ \A k \in 1 .. Len(parts) : parts[k] \in PartValues
  OBVIOUS
<1>2. \A k \in 1 .. Len(parts) : BytesOf(parts[k], native, end) \in Seq(Chars)
  BY <1>1, BytesOfType
<1>3. \A k \in 1 .. Len(parts) :
          Len(BytesOf(parts[k], native, end)) \in Nat /\ PiecesOf(parts[k], native, end) \in Nat
  BY <1>1, PiecesOfType
<1> QED
  BY <1>1, <1>2, <1>3 DEF EachBytes, EachWeight, EachCount

\* Weight and PieceCount with the line end of the platform.
LEMMA WeightIs ==
    ASSUME NEW parts \in Seq(PartValues), NEW native \in BOOLEAN, target \in Seq(Chars)
    PROVE  /\ Weight(parts, native) = WeightAt(parts, native, target)
           /\ PieceCount(parts, native) = CountAt(parts, native, target)
<1>1. \A k \in DOMAIN parts : parts[k] \in PartValues
  OBVIOUS
<1>2. \A k \in DOMAIN parts :
          /\ PartWeight(parts[k], native) = Len(BytesOf(parts[k], native, target))
          /\ PartPieces(parts[k], native) = PiecesOf(parts[k], native, target)
  BY <1>1, PartIs
<1>3. /\ [k \in DOMAIN parts |-> PartWeight(parts[k], native)] = EachWeight(parts, native, target)
      /\ [k \in DOMAIN parts |-> PartPieces(parts[k], native)] = EachCount(parts, native, target)
  BY <1>2 DEF EachWeight, EachCount
<1> QED
  BY <1>3 DEF Weight, PieceCount, WeightAt, CountAt

\* No parts have no bytes.
LEMMA AtNone ==
    ASSUME NEW native, NEW end
    PROVE  /\ BytesAt(<< >>, native, end) = << >>
           /\ WeightAt(<< >>, native, end) = 0 /\ CountAt(<< >>, native, end) = 0
<1>1. /\ EachBytes(<< >>, native, end) = << >>
      /\ EachWeight(<< >>, native, end) = << >> /\ EachCount(<< >>, native, end) = << >>
  BY DEF EachBytes, EachWeight, EachCount
<1> QED
  BY <1>1, FlatNone, SumNone DEF BytesAt, WeightAt, CountAt

\* The bytes, the weight and the count with one part more.
LEMMA AtAppend ==
    ASSUME NEW parts \in Seq(PartValues), NEW x \in PartValues, NEW native \in BOOLEAN,
           NEW end \in Seq(Chars)
    PROVE  /\ BytesAt(Append(parts, x), native, end) =
                  BytesAt(parts, native, end) \o BytesOf(x, native, end)
           /\ WeightAt(Append(parts, x), native, end) =
                  WeightAt(parts, native, end) + Len(BytesOf(x, native, end))
           /\ CountAt(Append(parts, x), native, end) =
                  CountAt(parts, native, end) + PiecesOf(x, native, end)
           /\ WeightAt(parts, native, end) \in Nat /\ CountAt(parts, native, end) \in Nat
           /\ BytesAt(parts, native, end) \in Seq(Chars)
<1> DEFINE t == Append(parts, x)
<1>1. /\ \A k \in DOMAIN parts : k \in DOMAIN t /\ t[k] = parts[k]
      /\ Len(parts) + 1 \in DOMAIN t /\ t[Len(parts) + 1] = x
  OBVIOUS
<1>2. /\ EachBytes(parts, native, end) \in Seq(Seq(Chars))
      /\ EachWeight(parts, native, end) \in Seq(Nat)
      /\ EachCount(parts, native, end) \in Seq(Nat)
  BY EachType
<1>3. /\ BytesOf(x, native, end) \in Seq(Chars) /\ Len(BytesOf(x, native, end)) \in Nat
      /\ PiecesOf(x, native, end) \in Nat
  BY BytesOfType, PiecesOfType
<1>4. EachBytes(t, native, end) = Append(EachBytes(parts, native, end), BytesOf(x, native, end))
  <2>1. MapsOneMore(EachBytes(t, native, end), BytesOf(x, native, end),
                    EachBytes(parts, native, end), parts, x)
    BY <1>1 DEF MapsOneMore, EachBytes
  <2> HIDE DEF t
  <2> QED
    BY <1>2, <1>3, <2>1, MapAppend
<1>5. EachWeight(t, native, end) =
          Append(EachWeight(parts, native, end), Len(BytesOf(x, native, end)))
  <2>1. MapsOneMore(EachWeight(t, native, end), Len(BytesOf(x, native, end)),
                    EachWeight(parts, native, end), parts, x)
    BY <1>1 DEF MapsOneMore, EachWeight
  <2> HIDE DEF t
  <2> QED
    BY <1>2, <1>3, <2>1, MapAppend
<1>6. EachCount(t, native, end) =
          Append(EachCount(parts, native, end), PiecesOf(x, native, end))
  <2>1. MapsOneMore(EachCount(t, native, end), PiecesOf(x, native, end),
                    EachCount(parts, native, end), parts, x)
    BY <1>1 DEF MapsOneMore, EachCount
  <2> HIDE DEF t
  <2> QED
    BY <1>2, <1>3, <2>1, MapAppend
<1> HIDE DEF t
<1>7. BytesAt(t, native, end) = BytesAt(parts, native, end) \o BytesOf(x, native, end)
      /\ BytesAt(parts, native, end) \in Seq(Chars)
  BY <1>2, <1>3, <1>4, FlatAppend, FlatType DEF BytesAt
<1>8. /\ WeightAt(t, native, end) = WeightAt(parts, native, end) + Len(BytesOf(x, native, end))
      /\ WeightAt(parts, native, end) \in Nat
  BY <1>2, <1>3, <1>5, SumAppend DEF WeightAt
<1>9. /\ CountAt(t, native, end) = CountAt(parts, native, end) + PiecesOf(x, native, end)
      /\ CountAt(parts, native, end) \in Nat
  BY <1>2, <1>3, <1>6, SumAppend DEF CountAt
<1> QED
  BY <1>7, <1>8, <1>9 DEF t

\* What the collector makes has the bytes of the parts; and what is refused is
\* beyond the limits.
MadeRight(parts, native) ==
    LET made == CollectAll(parts, native)
        weight == WeightAt(parts, native, target)
        count == CountAt(parts, native, target)
    IN  /\ made.ok =>
              /\ ReadAll(made.value.segments) = BytesAt(parts, native, target)
              /\ TotalLen(made.value.segments) = weight
              /\ Len(made.value.segments) = count
        /\ ~ made.ok => weight > MaxSize \/ count > MaxSegments

\* process_converted makes exactly the bytes of the parts, or fails when they, or
\* the pieces they are in, are beyond the limits.
LEMMA CollectAllMakes ==
    ASSUME NEW native \in BOOLEAN, target \in Seq(Chars)
    PROVE  \A parts \in Seq(PartValues) : MadeRight(parts, native)
<1> DEFINE T == {parts \in Seq(PartValues) : MadeRight(parts, native)}
<1>1. << >> \in T
  <2>1. << >> \in Seq(PartValues) /\ Len(<< >>) = 0
    OBVIOUS
  <2>2. /\ CollectAll(<< >>, native) = Nothing
        /\ Nothing.ok /\ Nothing.value.segments = << >>
    BY CollectNone, NothingIs
  <2>3. MadeRight(<< >>, native)
    BY <2>1, <2>2, AtNone, ReadAllNone, TotalNone DEF MadeRight
  <2> QED
    BY <2>1, <2>3
<1>2. ASSUME NEW parts \in Seq(PartValues), NEW x \in PartValues, parts \in T
      PROVE  Append(parts, x) \in T
  <2> DEFINE c == CollectAll(parts, native)
             d == CollectAll(Append(parts, x), native)
             a == BytesAt(parts, native, target)
             w == WeightAt(parts, native, target)
             n == CountAt(parts, native, target)
             b == BytesOf(x, native, target)
             p == PiecesOf(x, native, target)
  <2>1. c \in Results /\ d = Collect(c, x, native)
    BY CollectAppend
  <2>2. /\ BytesAt(Append(parts, x), native, target) = a \o b
        /\ WeightAt(Append(parts, x), native, target) = w + Len(b)
        /\ CountAt(Append(parts, x), native, target) = n + p
        /\ w \in Nat /\ n \in Nat /\ p \in Nat /\ Len(b) \in Nat
    <3>1. w \in Nat /\ n \in Nat /\ p \in Nat /\ Len(b) \in Nat
      BY AtAppend, PiecesOfType
    <3> QED
      BY <3>1, AtAppend
  <2>3. /\ c.ok => /\ ReadAll(c.value.segments) = a
                   /\ TotalLen(c.value.segments) = w /\ Len(c.value.segments) = n
        /\ ~ c.ok => w > MaxSize \/ n > MaxSegments
    BY <1>2 DEF MadeRight
  <2>4. /\ ~ c.ok => ~ Collect(c, x, native).ok
        /\ c.ok => \E tt \in Seq(ValidSegments) :
              /\ ReadAll(tt) = b /\ TotalLen(tt) = Len(b) /\ Len(tt) = p
              /\ Collect(c, x, native).ok <=> c.value.segments \o tt \in FitSegments
              /\ Collect(c, x, native).ok =>
                    Collect(c, x, native).value.segments = c.value.segments \o tt
    BY <2>1, CollectIs
  <2> HIDE DEF a, b, w, n, p, c, d
  <2>5. /\ d.ok => /\ ReadAll(d.value.segments) = a \o b
                   /\ TotalLen(d.value.segments) = w + Len(b) /\ Len(d.value.segments) = n + p
        /\ ~ d.ok => w + Len(b) > MaxSize \/ n + p > MaxSegments
    <3>1. CASE ~ c.ok
      <4>1. ~ d.ok
        BY <2>1, <2>4, <3>1
      <4> QED
        BY <2>2, <2>3, <3>1, <4>1
    <3>2. CASE c.ok
      <4> DEFINE ss == c.value.segments
      <4>1. ss \in Seq(ValidSegments)
        BY <2>1, <3>2, OkIs, BlobFields
      <4>2. PICK tt \in Seq(ValidSegments) :
              /\ ReadAll(tt) = b /\ TotalLen(tt) = Len(b) /\ Len(tt) = p
              /\ d.ok <=> ss \o tt \in FitSegments
              /\ d.ok => d.value.segments = ss \o tt
        BY <2>1, <2>4, <3>2
      <4>3. ReadAll(ss) = a /\ TotalLen(ss) = w /\ Len(ss) = n
        BY <2>3, <3>2
      <4> HIDE DEF ss
      <4>4. ReadAll(ss \o tt) = a \o b /\ TotalLen(ss \o tt) = w + Len(b)
        BY <4>1, <4>2, <4>3, ReadAllConcat
      <4>5. ss \o tt \in Seq(ValidSegments) /\ Len(ss \o tt) = n + p
        <5>1. ss \o tt \in Seq(ValidSegments) /\ Len(ss \o tt) = Len(ss) + Len(tt)
          BY <4>1
        <5> QED
          BY <4>2, <4>3, <5>1
      <4>6. ss \o tt \in FitSegments <=> w + Len(b) <= MaxSize /\ n + p <= MaxSegments
        BY <4>4, <4>5 DEF FitSegments
      <4>7. d.ok => /\ ReadAll(d.value.segments) = a \o b
                    /\ TotalLen(d.value.segments) = w + Len(b) /\ Len(d.value.segments) = n + p
        BY <4>2, <4>4, <4>5
      <4>8. ~ d.ok => ~(w + Len(b) <= MaxSize /\ n + p <= MaxSegments)
        BY <4>2, <4>6
      <4>9. w + Len(b) \in Nat /\ n + p \in Nat
        BY <2>2
      <4> QED
        BY <4>7, <4>8, <4>9
    <3> QED
      BY <3>1, <3>2
  <2>6. MadeRight(Append(parts, x), native)
    BY <2>2, <2>5 DEF MadeRight, d
  <2>7. Append(parts, x) \in Seq(PartValues)
    OBVIOUS
  <2> QED
    BY <2>6, <2>7
<1> HIDE DEF T
<1>3. \A parts \in Seq(PartValues) : parts \in T
  BY <1>1, <1>2, SeqInduction
<1> QED
  BY <1>3 DEF T

\* And with the type of the options.
LEMMA CollectedIs ==
    ASSUME NEW parts \in Seq(PartValues), NEW native \in BOOLEAN, NEW type \in Seq(Chars),
           target \in Seq(Chars)
    PROVE  LET built == Collected(parts, native, type)
           IN  /\ built.ok =>
                     /\ built.value \in Blobs
                     /\ ReadAll(built.value.segments) = BytesAt(parts, native, target)
                     /\ built.value.type = NormalizedType(type)
               /\ ~ built.ok => \/ WeightAt(parts, native, target) > MaxSize
                                \/ CountAt(parts, native, target) > MaxSegments
<1> DEFINE all == CollectAll(parts, native)
           built == Collected(parts, native, type)
<1>1. all \in Results
  <2>1. CASE parts = << >>
    BY <2>1, CollectNone, NothingIs
  <2>2. CASE parts # << >>
    <3>1. parts[1] \in PartValues
      BY <2>2
    <3> QED
      BY <3>1, CollectAppend
  <2> QED
    BY <2>1, <2>2
<1>2. /\ all.ok => ReadAll(all.value.segments) = BytesAt(parts, native, target)
      /\ ~ all.ok => \/ WeightAt(parts, native, target) > MaxSize
                     \/ CountAt(parts, native, target) > MaxSegments
  BY CollectAllMakes DEF MadeRight
<1>3. CASE ~ all.ok
  <2>1. built = all
    BY <1>3 DEF Collected
  <2> QED
    BY <1>2, <1>3, <2>1
<1>4. CASE all.ok
  <2> DEFINE ss == all.value.segments
  <2>1. ss \in Seq(ValidSegments) /\ ss \in FitSegments
    BY <1>1, <1>4, OkIs, BlobFields
  <2>2. built = WithinLimits(<< >> \o ss, type)
    BY <1>4 DEF Collected, ConcatShared, EmptyBlob
  <2>3. << >> \o ss = ss
    BY <2>1
  <2> HIDE DEF ss, all
  <2>4. built.ok /\ IsBlob(built.value, ss, type)
    BY <2>1, <2>2, <2>3, WithinLimitsIs
  <2>5. built.value \in Blobs /\ built.value.segments = ss
        /\ built.value.type = NormalizedType(type)
    BY <2>1, <2>4, IsBlobOf
  <2> QED
    BY <1>2, <1>4, <2>4, <2>5 DEF ss, all
<1> QED
  BY <1>3, <1>4

-----------------------------------------------------------------------------
(* Slices.                                                                   *)

\* The numbers of the abstract specification are the same.
LEMMA SameNumbers ==
    /\ Contents!Pow2 = Pow2
    /\ Contents!IntMax = IntMax /\ Contents!IntMin = IntMin
    /\ \A x : Contents!RoundedTiesEven(x) = RoundedTiesEven(x)
    /\ \A x : Contents!Truncated(x) = Truncated(x)
<1>1. Contents!Pow2 = Pow2
  BY DEF Pow2, Contents!Pow2
<1>2. \A x : Contents!Units(x) = Units(x)
  BY <1>1 DEF Units, Contents!Units
<1>3. Contents!Unit = Unit
  BY <1>1 DEF Unit, Contents!Unit
<1>4. \A x : Contents!RoundedTiesEven(x) = RoundedTiesEven(x)
  BY <1>2, <1>3 DEF RoundedTiesEven, Contents!RoundedTiesEven
<1>5. \A x : Contents!Truncated(x) = Truncated(x)
  <2>1. \A n : Contents!Magnitude(n) = Magnitude(n)
    BY DEF Magnitude, Contents!Magnitude
  <2> QED
    BY <1>2, <1>3, <2>1 DEF Truncated, Contents!Truncated
<1> QED
  BY <1>1, <1>4, <1>5 DEF IntMax, IntMin, Contents!IntMax, Contents!IntMin

\* A sequence of strings is a sequence of characters.
LEMMA StringChars ==
    ASSUME NEW s \in Seq(STRING)
    PROVE  s \in Seq(Chars)
<1>1. \A x \in STRING : x \in Chars
  BY DEF Chars
<1>2. /\ Len(s) \in Nat /\ s = [k \in 1 .. Len(s) |-> s[k]]
      /\ \A k \in 1 .. Len(s) : s[k] \in STRING
  OBVIOUS
<1>3. \A k \in 1 .. Len(s) : s[k] \in Chars
  BY <1>1, <1>2
<1> QED
  BY <1>2, <1>3

\* An argument of slice is the place it stands for.
LEMMA PlaceIs ==
    ASSUME NEW x \in Numbers \cup {Absent}, NEW size \in Nat, NEW absent \in Nat,
           size <= MaxSize, absent <= size
    PROVE  /\ Relative(Index(x), size, absent) = Contents!Place(x, size, absent)
           /\ Relative(Index(x), size, absent) \in Nat
           /\ Relative(Index(x), size, absent) <= size
<1>1. CASE x = Absent
  BY <1>1 DEF Index, Relative, Contents!Place
<1>2. CASE x # Absent
  <2>1. x \in Doubles /\ size <= IntMax /\ Absent \notin Int
    <3>1. MaxSize <= IntMax /\ Absent \notin Int /\ x \in Doubles
      BY <1>2, ValuesAssumption
    <3> QED
      BY <3>1, IntBounds
  <2>2. Index(x) = ClampedLongLong(x) /\ ClampedLongLong(x) \in Int
    BY <1>2, <2>1, ClampedType DEF Index
  <2>3. Relative(ClampedLongLong(x), size, absent) =
               IF x.class = "nan" THEN 0
               ELSE IF x.class = "inf" THEN IF x.sign = 1 THEN size ELSE 0
               ELSE LET n == RoundedTiesEven(x)
                        from == IF n < 0 THEN size + n ELSE n
                    IN  IF from < 0 THEN 0 ELSE IF from > size THEN size ELSE from
    BY <2>1, ClampedPlace
  <2>4. Contents!Place(x, size, absent) = Relative(ClampedLongLong(x), size, absent)
    BY <1>2, <2>3, SameNumbers DEF Contents!Place
  <2>5. Relative(ClampedLongLong(x), size, absent) \in Nat
        /\ Relative(ClampedLongLong(x), size, absent) <= size
    BY <2>1, <2>2 DEF Relative, Most, Least
  <2> QED
    BY <2>2, <2>4, <2>5
<1> QED
  BY <1>1, <1>2

\* A slice is made, and has the bytes between the places.
LEMMA SliceMade ==
    ASSUME NEW b \in Blobs, NEW start \in Numbers \cup {Absent}, NEW end \in Numbers \cup {Absent},
           NEW type \in Types
    PROVE  LET sliced == Slice(b, Index(start), Index(end), type)
               whole == ReadAll(b.segments)
           IN  /\ sliced.ok /\ sliced.value \in Blobs
               /\ sliced.value.type = NormalizedType(type)
               /\ ReadAll(sliced.value.segments) =
                      SubSeq(whole, Contents!Place(start, Len(whole), 0) + 1,
                                    Contents!Place(end, Len(whole), Len(whole)))
<1> DEFINE sliced == Slice(b, Index(start), Index(end), type)
           whole == ReadAll(b.segments)
           size == Len(whole)
           from == Relative(Index(start), b.size, 0)
           to == Relative(Index(end), b.size, b.size)
<1>1. /\ b.segments \in FitSegments /\ b.segments \in Seq(ValidSegments) /\ b.size \in Nat
      /\ b.size = TotalLen(b.segments) /\ b.size <= MaxSize
      /\ whole \in Seq(Chars) /\ size = b.size
  BY BlobFields
<1>2. /\ from = Contents!Place(start, size, 0) /\ from \in Nat /\ from <= size
      /\ to = Contents!Place(end, size, size) /\ to \in Nat /\ to <= size
  <2> HIDE DEF whole
  <2>0. 0 \in Nat /\ 0 <= b.size /\ b.size <= b.size
    BY <1>1
  <2>1. from = Contents!Place(start, b.size, 0) /\ from \in Nat /\ from <= b.size
    BY <1>1, <2>0, PlaceIs
  <2>2. to = Contents!Place(end, b.size, b.size) /\ to \in Nat /\ to <= b.size
    BY <1>1, <2>0, PlaceIs
  <2> QED
    BY <1>1, <2>1, <2>2
<1>3. type \in Seq(Chars) /\ type # Absent
  BY ValuesAssumption, StringChars
<1>4. sliced = IF to <= from THEN Ok(EmptyBlob(type))
               ELSE Sized(Cut(b.segments, from, to), to - from, type)
  BY <1>3 DEF Slice
<1> HIDE DEF from, to, sliced, whole
<1>5. CASE to <= from
  <2>1. sliced.ok /\ sliced.value = EmptyBlob(type)
    BY <1>4, <1>5 DEF Ok
  <2>2. << >> \in FitSegments /\ IsBlob(sliced.value, << >>, type)
    BY <2>1, EmptyIs
  <2>3. sliced.value \in Blobs /\ sliced.value.type = NormalizedType(type)
        /\ sliced.value.segments = << >>
    BY <1>3, <2>2, IsBlobOf
  <2>4. SubSeq(whole, from + 1, to) = << >>
    BY <1>1, <1>2, <1>5
  <2> QED
    BY <1>2, <2>1, <2>3, <2>4, ReadAllNone DEF sliced, whole
<1>6. CASE ~(to <= from)
  <2> DEFINE cut == Pieces(b.segments, from, to)
  <2>1. /\ cut \in FitSegments
        /\ ReadAll(cut) = SubSeq(whole, from + 1, Least(to, b.size))
    BY <1>1, <1>2, SliceIs DEF whole
  <2>2. Least(to, b.size) = to
    BY <1>1, <1>2 DEF Least
  <2>3. sliced = WithinLimits(cut, type)
    <3>1. TotalLen(cut) = Most(Least(to, TotalLen(b.segments)) - from, 0)
      BY <1>1, <1>2, PiecesLen
    <3>2. TotalLen(cut) = to - from
      BY <1>1, <1>2, <1>6, <2>2, <3>1 DEF Most
    <3> QED
      BY <1>4, <1>6, <3>2 DEF Cut, WithinLimits
  <2>4. cut \in Seq(ValidSegments)
    BY <2>1 DEF FitSegments
  <2> HIDE DEF cut
  <2>5. sliced.ok /\ IsBlob(sliced.value, cut, type)
    BY <2>1, <2>3, <2>4, WithinLimitsIs
  <2>6. sliced.value \in Blobs /\ sliced.value.type = NormalizedType(type)
        /\ sliced.value.segments = cut
    BY <1>3, <2>1, <2>5, IsBlobOf
  <2> QED
    BY <1>2, <2>1, <2>2, <2>5, <2>6 DEF sliced, whole
<1> QED
  BY <1>5, <1>6

\* A blob of bytes, when the limits let it be made.
LEMMA BytesMade ==
    ASSUME NEW bytes \in Seq(Chars), NEW type \in Seq(Chars), FromBytes(bytes, type).ok
    PROVE  LET made == FromBytes(bytes, type).value
           IN  /\ made \in Blobs /\ made.type = NormalizedType(type)
               /\ ReadAll(made.segments) = bytes
<1>1. PICK ss \in Seq(ValidSegments) :
          FromBytes(bytes, type) = WithinLimits(ss, type) /\ ReadAll(ss) = bytes
  BY FromBytesIs
<1>2. ss \in FitSegments /\ IsBlob(FromBytes(bytes, type).value, ss, type)
  BY <1>1, WithinLimitsIs
<1> QED
  BY <1>1, <1>2, IsBlobOf

-----------------------------------------------------------------------------
(* The invariant.                                                          *)

\* What the invariant speaks of: objects, and a constructor with its parts.
Moments == Int \cup {Now}
Objects == [kind : Kinds, data : Blobs, modified : Moments]
Calls == [op : {"construct"}, parts : Seq(PartValues), bound : Nat]

Within(c, end) == \A native \in BOOLEAN : c.bound <= WeightAt(c.parts, native, end)

AtConversion(r, end) ==
    /\ r.at = "conversion" /\ r.parts \in Seq(PartValues)
    /\ \/ Len(r.parts) > MaxParts
       \/ \A native \in BOOLEAN : WeightAt(r.parts, native, end) > MaxSize
AtProcessing(r, end) ==
    /\ r.at = "processing" /\ r.parts \in Seq(PartValues) /\ r.native \in BOOLEAN
    /\ \/ WeightAt(r.parts, r.native, end) > MaxSize
       \/ CountAt(r.parts, r.native, end) > MaxSegments
Refusal(r, end) == r = NotRefused \/ AtConversion(r, end) \/ AtProcessing(r, end)

\* The inductive invariant: types, the bound of the running constructor, the buffers
\* it ends with, and what a refusal means.
IInv ==
    /\ target \in Targets
    /\ buffers \in [Buffers -> Bytes \cup {<< >>}]
    /\ objects \in Seq(Objects)
    /\ call = NoCall \/ (call \in Calls /\ Within(call, target))
    /\ ~ Running => buffers = NoBuffers
    /\ Refusal(refused, target)

\* The line end of the platform is characters.
LEMMA TargetChars ==
    ASSUME IInv
    PROVE  target \in Seq(Chars)
BY ValuesAssumption, StringChars DEF IInv

\* What is known of a constructor that runs.
LEMMA RunningIs ==
    ASSUME IInv
    PROVE  /\ Running => call \in Calls /\ Within(call, target)
                         /\ call.parts \in Seq(PartValues) /\ call.bound \in Nat
           /\ ~ Running => call = NoCall
<1>1. NoCall.op = "none" /\ (call \in Calls => call.op = "construct")
  BY DEF NoCall, Calls
<1>2. call \in Calls => call.parts \in Seq(PartValues) /\ call.bound \in Nat
  BY DEF Calls
<1> QED
  BY <1>1, <1>2 DEF IInv, Running

\* Without a call no constructor runs.
LEMMA NotRunning ==
    call = NoCall => ~ Running
BY DEF NoCall, Running

\* What is known of an object.
LEMMA ObjectFields ==
    ASSUME IInv, NEW k \in DOMAIN objects
    PROVE  /\ objects[k] \in Objects /\ objects[k].data \in Blobs
           /\ objects[k].kind \in Kinds /\ objects[k].modified \in Moments
<1>1. objects[k] \in Objects
  BY DEF IInv
<1> QED
  BY <1>1 DEF Objects

\* Objects stay objects when one is added.
LEMMA Added ==
    ASSUME IInv, NEW kind \in Kinds, NEW data \in Blobs, NEW modified \in Moments,
           Add(kind, data, modified)
    PROVE  objects' \in Seq(Objects)
<1>1. [kind |-> kind, data |-> data, modified |-> modified] \in Objects
  BY DEF Objects
<1> QED
  BY <1>1 DEF Add, IInv

\* long long is an integer.
LEMMA LongLongType ==
    ASSUME NEW x \in Doubles
    PROVE  LongLong(x) \in Int
<1>1. IntMax \in Int /\ IntMin \in Int /\ Pow2[Width] \in Nat \ {0}
  BY IntBounds
<1>2. CASE x.class \in {"zero", "finite"}
  <2>1. Wrapped(x) = Truncated(x) % Pow2[Width] /\ Truncated(x) \in Int
    BY <1>2, WrappedIs, TruncatedIs
  <2>2. Wrapped(x) \in Int
    BY <1>1, <2>1
  <2> QED
    BY <1>1, <1>2, <2>2 DEF LongLong
<1>3. CASE x.class \in {"nan", "inf"}
  BY <1>1, <1>3 DEF LongLong
<1> QED
  BY <1>2, <1>3, DoubleFields

\* lastModified is an integer, or what the clock says.
LEMMA ModifiedType ==
    ASSUME NEW kind, NEW stamp \in Stamps \cup {Absent}
    PROVE  Modified(kind, stamp) \in Moments
<1>1. stamp # Absent => LongLong(stamp) \in Int
  BY ValuesAssumption, LongLongType
<1> QED
  BY <1>1 DEF Modified, Moments

\* The contents of buffers are characters.
LEMMA BytesChars ==
    ASSUME NEW bytes \in Bytes \cup {<< >>}
    PROVE  bytes \in Seq(Chars)
<1>1. CASE bytes = << >>
  BY <1>1
<1>2. CASE bytes \in Bytes
  <2>1. bytes \in Seq(STRING)
    BY <1>2, BuffersAssumption
  <2> QED
    BY <2>1, StringChars
<1> QED
  BY <1>1, <1>2

\* A part is of this kind.
LEMMA PartsType ==
    ASSUME IInv, NEW part \in Parts
    PROVE  part \in PartValues
<1>1. ASSUME NEW b \in Buffers PROVE buffers[b] \in Bytes \cup {<< >>} /\ buffers[b] \in Seq(Chars)
  BY BytesChars DEF IInv
<1>2. ASSUME NEW b \in Buffers, NEW v \in Views PROVE Window(b, v) \in Seq(Chars)
  <2>1. CASE buffers[b] = << >>
    BY <2>1 DEF Window
  <2>2. CASE buffers[b] # << >>
    <3>1. buffers[b] \in Bytes /\ buffers[b] \in Seq(Chars)
      BY <1>1, <2>2
    <3>2. v.offset \in Nat /\ v.len \in Nat /\ v.offset + v.len <= Len(buffers[b])
      BY <3>1, BuffersAssumption
    <3>3. Window(b, v) = SubSeq(buffers[b], v.offset + 1, v.offset + v.len)
      BY <2>2 DEF Window
    <3>4. ASSUME NEW s \in Seq(Chars), NEW i \in Nat, NEW j \in Nat, i + j <= Len(s)
          PROVE  SubSeq(s, i + 1, i + j) \in Seq(Chars)
      BY <3>4
    <3> QED
      BY <3>1, <3>2, <3>3, <3>4
  <2> QED
    BY <2>1, <2>2
<1>3. \A text \in Texts : text \in Seq(Chars)
  BY ValuesAssumption, StringChars
<1>4. \A k \in DOMAIN objects : objects[k].data \in Blobs
  BY ObjectFields
<1>5. CASE \E b \in Buffers : part = Copied(buffers[b])
  BY <1>1, <1>5 DEF PartValues
<1>6. CASE \E b \in Buffers, v \in Views : part = Copied(Window(b, v))
  BY <1>2, <1>6 DEF PartValues
<1>7. CASE \E k \in DOMAIN objects : part = Shared(objects[k].data)
  BY <1>4, <1>7 DEF PartValues
<1>8. CASE \E text \in Texts : part = Text(text)
  BY <1>3, <1>8 DEF PartValues
<1> QED
  BY <1>5, <1>6, <1>7, <1>8 DEF Parts

\* The lower bound of a part is right whatever endings says.
LEMMA LowerIs ==
    ASSUME NEW part \in PartValues, NEW native \in BOOLEAN, target \in Seq(Chars)
    PROVE  LowerBound(part) \in Nat /\ LowerBound(part) <= Len(BytesOf(part, native, target))
<1>1. CASE part.how = "copied" /\ part.bytes \in Seq(Chars)
  BY <1>1 DEF LowerBound, BytesOf
<1>2. CASE part.how = "shared" /\ part.data \in Blobs
  BY <1>2, BlobFields DEF LowerBound, BytesOf
<1>3. CASE part.how = "text" /\ part.text \in Seq(Chars)
  <2> DEFINE a == Len(Encoded(part.text))
             b == NativeLen(part.text)
             made == Len(Encoded(ToNative(part.text, target)))
  <2>1. ToNative(part.text, target) \in Seq(Chars)
    BY <1>3, NativeType
  <2>2. a \in Nat /\ b \in Nat /\ made \in Nat /\ b <= made
    BY <1>3, <2>1, EncodedType, CountedIs
  <2>3. LowerBound(part) = Least(a, b)
    BY <1>3 DEF LowerBound
  <2>4. Len(BytesOf(part, native, target)) = IF native THEN made ELSE a
    BY <1>3 DEF BytesOf
  <2> HIDE DEF a, b, made
  <2> QED
    BY <2>2, <2>3, <2>4 DEF Least
<1> QED
  BY <1>1, <1>2, <1>3, PartKinds

\* The bound that is kept while parts are converted stays below every weight.
LEMMA BoundAdds ==
    ASSUME NEW parts \in Seq(PartValues), NEW bound \in Nat, NEW part \in PartValues,
           target \in Seq(Chars),
           \A native \in BOOLEAN : bound <= WeightAt(parts, native, target)
    PROVE  /\ bound + LowerBound(part) \in Nat
           /\ \A native \in BOOLEAN :
                 bound + LowerBound(part) <= WeightAt(Append(parts, part), native, target)
<1>1. ASSUME NEW native \in BOOLEAN
      PROVE  /\ bound + LowerBound(part) \in Nat
             /\ bound + LowerBound(part) <= WeightAt(Append(parts, part), native, target)
  <2> DEFINE w == WeightAt(parts, native, target)
             l == Len(BytesOf(part, native, target))
             low == LowerBound(part)
  <2>1. WeightAt(Append(parts, part), native, target) = w + l /\ w \in Nat
    BY AtAppend
  <2>2. low \in Nat /\ low <= l /\ l \in Nat
    BY LowerIs, PiecesOfType
  <2>3. bound <= w
    OBVIOUS
  <2> HIDE DEF w, l, low
  <2>4. bound + low \in Nat /\ bound + low <= w + l
    BY <2>1, <2>2, <2>3
  <2> QED
    BY <2>1, <2>4 DEF low
<1> QED
  BY <1>1

-----------------------------------------------------------------------------
(* Every action keeps the invariant.                                         *)

\* What the invariant asks for after a step, of which the platform is not one.
Kept ==
    /\ target' = target
    /\ buffers' \in [Buffers -> Bytes \cup {<< >>}]
    /\ objects' \in Seq(Objects)
    /\ call' = NoCall \/ (call' \in Calls /\ Within(call', target))
    /\ call' = NoCall => buffers' = NoBuffers
    /\ Refusal(refused', target)

\* Steps that keep what the invariant is about.
LEMMA KeptIs ==
    ASSUME IInv, Kept
    PROVE  IInv'
<1>1. target' = target /\ target \in Targets
  BY DEF Kept, IInv
<1>2. call' \in Calls => call'.op = "construct"
  BY DEF Calls
<1>3. ~ Running' => call' = NoCall
  BY <1>2 DEF Kept, Running
<1>4. ~ Running' => buffers' = NoBuffers
  BY <1>3 DEF Kept
<1>5. (~ Running => buffers = NoBuffers)'
  BY <1>4 DEF NoBuffers
<1> QED
  BY <1>1, <1>5 DEF Kept, IInv

\* A step that refuses nothing leaves no refusal.
LEMMA Quieted ==
    Quiet => Refusal(refused', target)
BY DEF Quiet, Refusal

\* When a constructor ends, so do its buffers.
LEMMA EndIs ==
    ASSUME End
    PROVE  /\ call' = NoCall /\ buffers' = NoBuffers
           /\ buffers' \in [Buffers -> Bytes \cup {<< >>}]
BY DEF End, NoBuffers

\* A step that leaves the call and the buffers alone.
LEMMA CallKept ==
    ASSUME IInv, UNCHANGED <<buffers, call>>
    PROVE  /\ call' = NoCall \/ (call' \in Calls /\ Within(call', target))
           /\ call' = NoCall => buffers' = NoBuffers
           /\ buffers' \in [Buffers -> Bytes \cup {<< >>}]
BY NotRunning DEF IInv

\* Writing to a buffer or detaching it keeps the invariant.
LEMMA UserCodeKeeps ==
    ASSUME IInv, NEW b \in Buffers, WriteBuffer(b) \/ Detach(b)
    PROVE  IInv'
<1>1. /\ Running /\ \E bytes \in Bytes \cup {<< >>} : buffers' = [buffers EXCEPT ![b] = bytes]
      /\ Quiet /\ UNCHANGED <<target, objects, call>>
  BY DEF WriteBuffer, Detach
<1>2. buffers' \in [Buffers -> Bytes \cup {<< >>}]
  BY <1>1 DEF IInv
<1>3. call' # NoCall
  BY <1>1, NotRunning
<1>4. Kept
  BY <1>1, <1>2, <1>3, Quieted DEF Kept, IInv
<1> QED
  BY <1>4, KeptIs

\* A constructor that begins keeps the invariant.
LEMMA BeginKeeps ==
    ASSUME IInv, Begin
    PROVE  IInv'
<1>1. /\ call' = [op |-> "construct", parts |-> << >>, bound |-> 0]
      /\ buffers' \in [Buffers -> Bytes] /\ Quiet /\ UNCHANGED <<target, objects>>
  BY DEF Begin
<1>2. buffers' \in [Buffers -> Bytes \cup {<< >>}]
  BY <1>1
<1>3. call' \in Calls /\ call'.parts = << >> /\ call'.bound = 0
  BY <1>1 DEF Calls
<1>4. Within(call', target)
  BY <1>3, AtNone DEF Within
<1>5. call' # NoCall
  BY <1>1 DEF NoCall
<1> QED
  BY <1>1, <1>2, <1>3, <1>4, <1>5, Quieted, KeptIs DEF Kept, IInv

\* What converting a part does, and that what it refuses is beyond the limits.
LEMMA ConvertIs ==
    ASSUME IInv, Convert
    PROVE  \E part \in Parts :
               LET whole == Append(call.parts, part)
               IN  /\ Running /\ part \in PartValues /\ whole \in Seq(PartValues)
                   /\ UNCHANGED <<target, objects>>
                   /\ \/ /\ End /\ asked' = NoCall /\ AtConversion(refused', target)
                      \/ /\ call' = [call EXCEPT !.parts = whole,
                                                 !.bound = call.bound + LowerBound(part)]
                         /\ call' \in Calls /\ Within(call', target) /\ call'.parts = whole
                         /\ Quiet /\ UNCHANGED buffers
<1>1. PICK part \in Parts :
          LET bound == call.bound + LowerBound(part)
              whole == Append(call.parts, part)
          IN  /\ IF Len(call.parts) >= MaxParts \/ bound > MaxSize
                 THEN Throw([at |-> "conversion", parts |-> whole])
                 ELSE /\ call' = [call EXCEPT !.parts = whole, !.bound = bound]
                      /\ Quiet /\ UNCHANGED buffers
              /\ UNCHANGED <<target, objects>>
  BY DEF Convert
<1> DEFINE bound == call.bound + LowerBound(part)
           whole == Append(call.parts, part)
<1>2. Running /\ call \in Calls /\ Within(call, target)
      /\ call.parts \in Seq(PartValues) /\ call.bound \in Nat
  BY RunningIs DEF Convert
<1>3. part \in PartValues /\ target \in Seq(Chars)
  BY PartsType, TargetChars
<1>4. whole \in Seq(PartValues) /\ Len(whole) = Len(call.parts) + 1 /\ Len(call.parts) \in Nat
  BY <1>2, <1>3
<1>5. bound \in Nat /\ \A native \in BOOLEAN : bound <= WeightAt(whole, native, target)
  <2>1. \A native \in BOOLEAN : call.bound <= WeightAt(call.parts, native, target)
    BY <1>2 DEF Within
  <2> QED
    BY <1>2, <1>3, <2>1, BoundAdds
<1>6. \A native \in BOOLEAN : WeightAt(whole, native, target) \in Nat
  BY <1>2, <1>3, <1>4, AtAppend
<1>7. CASE Len(call.parts) >= MaxParts \/ bound > MaxSize
  <2>1. Throw([at |-> "conversion", parts |-> whole]) /\ UNCHANGED <<target, objects>>
    BY <1>1, <1>7
  <2>2. End /\ asked' = NoCall /\ refused' = [at |-> "conversion", parts |-> whole]
    BY <2>1 DEF Throw
  <2>3. \/ Len(whole) > MaxParts
        \/ \A native \in BOOLEAN : WeightAt(whole, native, target) > MaxSize
    <3> HIDE DEF whole, bound
    <3>1. CASE Len(call.parts) >= MaxParts
      BY <1>4, <3>1
    <3>2. CASE bound > MaxSize
      <4>1. ASSUME NEW native \in BOOLEAN PROVE WeightAt(whole, native, target) > MaxSize
        BY <1>5, <1>6, <3>2
      <4> QED
        BY <4>1
    <3> QED
      BY <1>7, <3>1, <3>2
  <2>4. AtConversion(refused', target)
    BY <1>4, <2>2, <2>3 DEF AtConversion
  <2> QED
    BY <1>2, <1>3, <1>4, <2>1, <2>2, <2>4
<1>8. CASE ~(Len(call.parts) >= MaxParts \/ bound > MaxSize)
  <2>1. call' = [call EXCEPT !.parts = whole, !.bound = bound]
        /\ Quiet /\ UNCHANGED <<target, objects, buffers>>
    BY <1>1, <1>8
  <2>2. call' \in Calls /\ call'.parts = whole /\ call'.bound = bound
    <3> HIDE DEF whole, bound
    <3>2. call \in Calls /\ whole \in Seq(PartValues) /\ bound \in Nat
      BY <1>2, <1>4, <1>5
    <3>3. call' = [call EXCEPT !.parts = whole, !.bound = bound]
      BY <2>1
    <3> QED
      BY ONLY <3>2, <3>3 DEF Calls
  <2>3. Within(call', target)
    BY <1>5, <2>2 DEF Within
  <2> QED
    BY <1>2, <1>3, <1>4, <2>1, <2>2, <2>3
<1> QED
  BY <1>7, <1>8

\* Converting a part keeps the invariant: what is refused weighs too much in any case.
LEMMA ConvertKeeps ==
    ASSUME IInv, Convert
    PROVE  IInv'
<1>1. PICK part \in Parts :
         LET whole == Append(call.parts, part)
         IN  /\ Running /\ part \in PartValues /\ whole \in Seq(PartValues)
             /\ UNCHANGED <<target, objects>>
             /\ \/ /\ End /\ asked' = NoCall /\ AtConversion(refused', target)
                \/ /\ call' = [call EXCEPT !.parts = whole,
                                           !.bound = call.bound + LowerBound(part)]
                   /\ call' \in Calls /\ Within(call', target) /\ call'.parts = whole
                   /\ Quiet /\ UNCHANGED buffers
  BY ConvertIs
<1>2. CASE End /\ AtConversion(refused', target)
  BY <1>1, <1>2, EndIs, KeptIs DEF Kept, IInv, Refusal
<1>3. CASE call' \in Calls /\ Within(call', target) /\ Quiet /\ UNCHANGED buffers
  <2>1. call' # NoCall
    BY <1>3 DEF Calls, NoCall
  <2> QED
    BY <1>1, <1>3, <2>1, Quieted, KeptIs DEF Kept, IInv
<1> QED
  BY <1>1, <1>2, <1>3

\* A constructor that is abandoned keeps the invariant.
LEMMA AbandonKeeps ==
    ASSUME IInv, Abandon
    PROVE  IInv'
<1>1. End /\ refused' = NotRefused /\ UNCHANGED <<target, objects>>
  BY DEF Abandon, Throw
<1> QED
  BY <1>1, EndIs, KeptIs DEF Kept, IInv, Refusal

\* What the end of a constructor does: it makes the bytes of its parts, or is
\* refused for what is beyond the limits.
LEMMA FinishIs ==
    ASSUME IInv, NEW kind \in Kinds, NEW native \in BOOLEAN, NEW type \in Types,
           NEW stamp \in Stamps \cup {Absent}, Finish(kind, native, type, stamp)
    PROVE  /\ Running /\ End /\ target' = target
           /\ \/ \E data \in Blobs :
                    /\ Add(kind, data, Modified(kind, stamp))
                    /\ ReadAll(data.segments) = BytesAt(call.parts, native, target)
                    /\ data.type = NormalizedType(type)
                    /\ Asked([op |-> "make", kind |-> kind, native |-> native,
                              type |-> type, stamp |-> stamp])
              \/ /\ asked' = NoCall /\ AtProcessing(refused', target) /\ UNCHANGED objects
<1> DEFINE built == Collected(call.parts, native, type)
<1>1. Running /\ call.parts \in Seq(PartValues) /\ target' = target
  BY RunningIs DEF Finish
<1>2. type \in Seq(Chars) /\ target \in Seq(Chars)
  BY ValuesAssumption, StringChars, TargetChars
<1>3. /\ built.ok =>
            /\ built.value \in Blobs
            /\ ReadAll(built.value.segments) = BytesAt(call.parts, native, target)
            /\ built.value.type = NormalizedType(type)
      /\ ~ built.ok => \/ WeightAt(call.parts, native, target) > MaxSize
                       \/ CountAt(call.parts, native, target) > MaxSegments
  BY <1>1, <1>2, CollectedIs
<1>4. CASE built.ok
  <2>1. /\ Add(kind, built.value, Modified(kind, stamp)) /\ End
        /\ Asked([op |-> "make", kind |-> kind, native |-> native,
                  type |-> type, stamp |-> stamp])
    BY <1>4 DEF Finish
  <2> QED
    BY <1>1, <1>3, <1>4, <2>1
<1>5. CASE ~ built.ok
  <2>1. /\ Throw([at |-> "processing", parts |-> call.parts, native |-> native])
        /\ UNCHANGED objects
    BY <1>5 DEF Finish
  <2>2. End /\ asked' = NoCall
        /\ refused' = [at |-> "processing", parts |-> call.parts, native |-> native]
    BY <2>1 DEF Throw
  <2>3. AtProcessing(refused', target)
    BY <1>1, <1>3, <1>5, <2>2 DEF AtProcessing
  <2> QED
    BY <1>1, <2>1, <2>2, <2>3
<1> QED
  BY <1>4, <1>5

\* A constructor that ends keeps the invariant: it made what its parts weigh, or
\* refused what is beyond the limits.
LEMMA FinishKeeps ==
    ASSUME IInv, NEW kind \in Kinds, NEW native \in BOOLEAN, NEW type \in Types,
           NEW stamp \in Stamps \cup {Absent}, Finish(kind, native, type, stamp)
    PROVE  IInv'
<1>1. /\ Running /\ End /\ target' = target
      /\ \/ \E data \in Blobs :
               /\ Add(kind, data, Modified(kind, stamp))
               /\ refused' = NotRefused
         \/ /\ AtProcessing(refused', target) /\ UNCHANGED objects
  BY FinishIs DEF Asked
<1>2. Modified(kind, stamp) \in Moments
  BY ModifiedType
<1>3. objects' \in Seq(Objects)
  <2>1. UNCHANGED objects => objects' \in Seq(Objects)
    BY DEF IInv
  <2>2. ASSUME NEW data \in Blobs, Add(kind, data, Modified(kind, stamp))
        PROVE  objects' \in Seq(Objects)
    BY <1>2, <2>2, Added
  <2> QED
    BY <1>1, <2>1, <2>2
<1>4. Refusal(refused', target)
  BY <1>1 DEF Refusal
<1> QED
  BY <1>1, <1>3, <1>4, EndIs, KeptIs DEF Kept

\* The other ways to an object add one that is a blob.
LEMMA OthersKeep ==
    ASSUME IInv, NEW kind \in Kinds, NEW data \in Blobs, NEW modified \in Moments,
           Add(kind, data, modified), refused' = NotRefused, UNCHANGED <<target, buffers, call>>
    PROVE  IInv'
<1>1. objects' \in Seq(Objects)
  BY Added
<1> QED
  BY <1>1, CallKept, KeptIs DEF Kept, Refusal

\* slice makes the bytes between the places that the exact arguments stand for.
LEMMA CallSliceIs ==
    ASSUME IInv, NEW k \in DOMAIN objects, NEW start \in Numbers \cup {Absent},
           NEW end \in Numbers \cup {Absent}, NEW type \in Types,
           CallSlice(k, start, end, type)
    PROVE  \E data \in Blobs :
               /\ Add("Blob", data, 0) /\ data.type = NormalizedType(type)
               /\ LET whole == ReadAll(objects[k].data.segments)
                  IN  ReadAll(data.segments) =
                          SubSeq(whole, Contents!Place(start, Len(whole), 0) + 1,
                                        Contents!Place(end, Len(whole), Len(whole)))
<1> DEFINE sliced == Slice(objects[k].data, Index(start), Index(end), type)
           whole == ReadAll(objects[k].data.segments)
<1>1. objects[k].data \in Blobs
  BY ObjectFields
<1>2. /\ sliced.ok /\ sliced.value \in Blobs
      /\ sliced.value.type = NormalizedType(type)
      /\ ReadAll(sliced.value.segments) =
             SubSeq(whole, Contents!Place(start, Len(whole), 0) + 1,
                           Contents!Place(end, Len(whole), Len(whole)))
  BY <1>1, SliceMade
<1>3. Add("Blob", sliced.value, 0)
  BY <1>2 DEF CallSlice
<1> QED
  BY <1>2, <1>3

\* A clone has the bytes of its object.
LEMMA CloneIs ==
    ASSUME IInv, NEW k \in DOMAIN objects, Clone(k)
    PROVE  \E data \in Blobs :
               /\ Add(objects[k].kind, data, objects[k].modified)
               /\ data.type = objects[k].data.type
               /\ ReadAll(data.segments) = ReadAll(objects[k].data.segments)
<1> DEFINE blob == objects[k].data
           bytes == Materialize(blob)
<1>1. blob \in Blobs
  BY ObjectFields
<1>2. blob.type \in Seq(Chars) /\ NormalizedType(blob.type) = blob.type
      /\ ReadAll(blob.segments) \in Seq(Chars)
  BY <1>1, BlobFields
<1>3. bytes.ok /\ bytes.value = ReadAll(blob.segments)
  <2>1. (IF bytes.ok THEN FromBytes(bytes.value, blob.type) ELSE bytes).ok
    BY DEF Clone
  <2>2. bytes.ok
    BY <2>1
  <2> QED
    BY <2>2 DEF Materialize, Err, Ok
<1>4. /\ FromBytes(ReadAll(blob.segments), blob.type).ok
      /\ Add(objects[k].kind, FromBytes(ReadAll(blob.segments), blob.type).value,
             objects[k].modified)
  BY <1>3 DEF Clone
<1> QED
  BY <1>2, <1>4, BytesMade

\* The host makes a blob of its bytes.
LEMMA FromHostIs ==
    ASSUME IInv, NEW kind \in Kinds, NEW bytes \in Bytes, NEW type \in Types,
           FromHost(kind, bytes, type)
    PROVE  \E data \in Blobs :
               /\ Add(kind, data, Modified(kind, Absent))
               /\ data.type = NormalizedType(type) /\ ReadAll(data.segments) = bytes
<1>1. bytes \in Seq(Chars) /\ type \in Seq(Chars)
  BY BytesChars, ValuesAssumption, StringChars
<1>2. FromBytes(bytes, type).ok
      /\ Add(kind, FromBytes(bytes, type).value, Modified(kind, Absent))
  BY DEF FromHost
<1> QED
  BY <1>1, <1>2, BytesMade

\* The invariant holds at first.
LEMMA InitInv == Init => IInv
<1> SUFFICES ASSUME Init PROVE IInv
  OBVIOUS
<1>1. NoBuffers \in [Buffers -> Bytes \cup {<< >>}]
  BY DEF NoBuffers
<1>2. << >> \in Seq(Objects)
  OBVIOUS
<1> QED
  BY <1>1, <1>2 DEF Init, IInv, Refusal

\* Every step keeps it.
LEMMA NextInv == IInv /\ [Next]_vars => IInv'
<1> SUFFICES ASSUME IInv, [Next]_vars PROVE IInv'
  OBVIOUS
<1>1. CASE UNCHANGED vars
  BY <1>1 DEF vars, IInv, Running, Refusal, NoBuffers
<1>2. CASE Return
  <2>1. /\ UNCHANGED <<target, buffers, objects, call>> /\ Quiet
    BY <1>2 DEF Return
  <2> QED
    BY <2>1, Quieted, CallKept, KeptIs DEF Kept, IInv
<1>3. ASSUME NEW b \in Buffers, WriteBuffer(b) \/ Detach(b) PROVE IInv'
  BY <1>3, UserCodeKeeps
<1>4. CASE Begin
  BY <1>4, BeginKeeps
<1>5. CASE Convert
  BY <1>5, ConvertKeeps
<1>6. CASE Abandon
  BY <1>6, AbandonKeeps
<1>7. ASSUME NEW kind \in Kinds, NEW native \in BOOLEAN, NEW type \in Types,
             NEW stamp \in Stamps \cup {Absent}, Finish(kind, native, type, stamp)
      PROVE  IInv'
  BY <1>7, FinishKeeps
<1>8. ASSUME NEW k \in DOMAIN objects, NEW start \in Numbers \cup {Absent},
             NEW end \in Numbers \cup {Absent}, NEW type \in Types,
             CallSlice(k, start, end, type)
      PROVE  IInv'
  <2>1. PICK data \in Blobs : Add("Blob", data, 0)
    BY <1>8, CallSliceIs
  <2>2. refused' = NotRefused /\ UNCHANGED <<target, buffers, call>>
    BY <1>8 DEF CallSlice, Asked
  <2>3. "Blob" \in Kinds /\ 0 \in Moments
    BY DEF Kinds, Moments
  <2> QED
    BY <2>1, <2>2, <2>3, OthersKeep
<1>9. ASSUME NEW k \in DOMAIN objects, Clone(k) PROVE IInv'
  <2>1. PICK data \in Blobs : Add(objects[k].kind, data, objects[k].modified)
    BY <1>9, CloneIs
  <2>2. refused' = NotRefused /\ UNCHANGED <<target, buffers, call>>
    BY <1>9 DEF Clone, Quiet
  <2>3. objects[k].kind \in Kinds /\ objects[k].modified \in Moments
    BY ObjectFields
  <2> QED
    BY <2>1, <2>2, <2>3, OthersKeep
<1>10. ASSUME NEW kind \in Kinds, NEW bytes \in Bytes, NEW type \in Types,
              FromHost(kind, bytes, type)
       PROVE  IInv'
  <2>1. PICK data \in Blobs : Add(kind, data, Modified(kind, Absent))
    BY <1>10, FromHostIs
  <2>2. refused' = NotRefused /\ UNCHANGED <<target, buffers, call>>
    BY <1>10 DEF FromHost, Asked
  <2>3. Modified(kind, Absent) \in Moments
    BY ModifiedType
  <2> QED
    BY <2>1, <2>2, <2>3, OthersKeep
<1> QED
  BY <1>1, <1>2, <1>3, <1>4, <1>5, <1>6, <1>7, <1>8, <1>9, <1>10 DEF Next

\* Every object is a blob within the limits, made of segments that are parts of their
\* sources; the bound of a running constructor is below the weight of its parts under
\* either option; and a refusal is one that the parts at the time deserve.
THEOREM ValuesInvariant == Spec => []IInv
<1> QED
  BY InitInv, NextInv, PTL DEF Spec

\* A constructor is refused only for parts beyond the limits.
LEMMA InvRefuses == IInv => RefusesRightly
<1> SUFFICES ASSUME IInv PROVE RefusesRightly
  OBVIOUS
<1>1. target \in Seq(Chars)
  BY TargetChars
<1>2. NotRefused.at = "nothing"
  BY DEF NotRefused
<1>3. ASSUME refused.at = "conversion"
      PROVE  \/ Len(refused.parts) > MaxParts
             \/ \A native \in BOOLEAN : Weight(refused.parts, native) > MaxSize
  <2>1. AtConversion(refused, target)
    BY <1>2, <1>3 DEF IInv, Refusal, AtProcessing
  <2>2. refused.parts \in Seq(PartValues)
    BY <2>1 DEF AtConversion
  <2>3. \A native \in BOOLEAN :
            Weight(refused.parts, native) = WeightAt(refused.parts, native, target)
    BY <1>1, <2>2, WeightIs
  <2> QED
    BY <2>1, <2>3 DEF AtConversion
<1>4. ASSUME refused.at = "processing"
      PROVE  \/ Weight(refused.parts, refused.native) > MaxSize
             \/ PieceCount(refused.parts, refused.native) > MaxSegments
  <2>1. AtProcessing(refused, target)
    BY <1>2, <1>4 DEF IInv, Refusal, AtConversion
  <2>2. refused.parts \in Seq(PartValues) /\ refused.native \in BOOLEAN
    BY <2>1 DEF AtProcessing
  <2>3. /\ Weight(refused.parts, refused.native) =
               WeightAt(refused.parts, refused.native, target)
        /\ PieceCount(refused.parts, refused.native) =
               CountAt(refused.parts, refused.native, target)
    BY <1>1, <2>2, WeightIs
  <2> QED
    BY <2>1, <2>3 DEF AtProcessing
<1>5. ASSUME NEW k \in DOMAIN objects
      PROVE  objects[k].data.size <= MaxSize /\ Len(objects[k].data.segments) <= MaxSegments
  BY ObjectFields, BlobFields
<1> QED
  BY <1>3, <1>4, <1>5 DEF RefusesRightly

\* A constructor throws a RangeError only for what no options, or not the ones it got,
\* could have made within the limits (convert_part and process_converted).
THEOREM RefusalsRight == Spec => []RefusesRightly
<1> QED
  BY ValuesInvariant, InvRefuses, PTL

-----------------------------------------------------------------------------
(* The refinement.                                                         *)

\* What the abstract specification sees of an object, of a part, and of them all.
Shown(object) == [kind |-> object.kind, bytes |-> ReadAll(object.data.segments),
                  type |-> object.data.type, modified |-> object.modified]
ShownAll(list) == [k \in DOMAIN list |-> Shown(list[k])]
Held(part) ==
    IF part.how = "text" THEN [text |-> TRUE, bytes |-> part.text]
    ELSE [text |-> FALSE,
          bytes |-> IF part.how = "shared" THEN ReadAll(part.data.segments) ELSE part.bytes]
HeldAll(parts) == [k \in DOMAIN parts |-> Held(parts[k])]
Taken(c) == IF ~(c.op = "construct") THEN {} ELSE {HeldAll(c.parts)}

ShownObjects == [kind : Kinds, bytes : Seq(Chars), type : Seq(Chars), modified : Moments]
HeldParts == [text : BOOLEAN, bytes : Seq(Chars)]

\* What an object shows.
LEMMA ShownType ==
    ASSUME NEW o \in Objects
    PROVE  Shown(o) \in ShownObjects
<1>1. o.data \in Blobs /\ o.kind \in Kinds /\ o.modified \in Moments
  BY DEF Objects
<1>2. ReadAll(o.data.segments) \in Seq(Chars) /\ o.data.type \in Seq(Chars)
  BY <1>1, BlobFields
<1> QED
  BY <1>1, <1>2 DEF Shown, ShownObjects

\* What objects show, with one more.
LEMMA ShownAppend ==
    ASSUME NEW list \in Seq(Objects), NEW o \in Objects
    PROVE  ShownAll(Append(list, o)) = Append(ShownAll(list), Shown(o))
<1> DEFINE t == Append(list, o)
<1>1. /\ \A k \in DOMAIN list : k \in DOMAIN t /\ t[k] = list[k]
      /\ Len(list) + 1 \in DOMAIN t /\ t[Len(list) + 1] = o
  OBVIOUS
<1>2. Shown(o) \in ShownObjects
  BY ShownType
<1>3. ShownAll(list) \in Seq(ShownObjects)
  <2>1. DOMAIN list = 1 .. Len(list) /\ Len(list) \in Nat
        /\ \A k \in 1 .. Len(list) : list[k] \in Objects
    OBVIOUS
  <2>2. \A k \in 1 .. Len(list) : Shown(list[k]) \in ShownObjects
    BY <2>1, ShownType
  <2> QED
    BY <2>1, <2>2 DEF ShownAll
<1>4. MapsOneMore(ShownAll(t), Shown(o), ShownAll(list), list, o)
  BY <1>1 DEF MapsOneMore, ShownAll
<1> HIDE DEF t
<1>5. ShownAll(t) = Append(ShownAll(list), Shown(o))
  BY <1>2, <1>3, <1>4, MapAppend
<1> QED
  BY <1>5 DEF t

\* What a part holds.
LEMMA HeldType ==
    ASSUME NEW part \in PartValues
    PROVE  Held(part) \in HeldParts
<1>1. CASE part.how = "text" /\ part.text \in Seq(Chars)
  BY <1>1 DEF Held, HeldParts
<1>2. CASE part.how = "shared" /\ part.data \in Blobs
  BY <1>2, BlobFields DEF Held, HeldParts
<1>3. CASE part.how = "copied" /\ part.bytes \in Seq(Chars)
  BY <1>3 DEF Held, HeldParts
<1> QED
  BY <1>1, <1>2, <1>3, PartKinds

\* What parts hold, with one more.
LEMMA HeldAppend ==
    ASSUME NEW parts \in Seq(PartValues), NEW part \in PartValues
    PROVE  HeldAll(Append(parts, part)) = Append(HeldAll(parts), Held(part))
<1> DEFINE t == Append(parts, part)
<1>1. /\ \A k \in DOMAIN parts : k \in DOMAIN t /\ t[k] = parts[k]
      /\ Len(parts) + 1 \in DOMAIN t /\ t[Len(parts) + 1] = part
  OBVIOUS
<1>2. Held(part) \in HeldParts
  BY HeldType
<1>3. HeldAll(parts) \in Seq(HeldParts)
  <2>1. DOMAIN parts = 1 .. Len(parts) /\ Len(parts) \in Nat
        /\ \A k \in 1 .. Len(parts) : parts[k] \in PartValues
    OBVIOUS
  <2>2. \A k \in 1 .. Len(parts) : Held(parts[k]) \in HeldParts
    BY <2>1, HeldType
  <2> QED
    BY <2>1, <2>2 DEF HeldAll
<1>4. MapsOneMore(HeldAll(t), Held(part), HeldAll(parts), parts, part)
  BY <1>1 DEF MapsOneMore, HeldAll
<1> HIDE DEF t
<1>5. HeldAll(t) = Append(HeldAll(parts), Held(part))
  BY <1>2, <1>3, <1>4, MapAppend
<1> QED
  BY <1>5 DEF t

\* Contents and this module join sequences alike.
LEMMA SameFlat ==
    ASSUME NEW ss
    PROVE  Contents!FlattenSeq(ss) = FlattenSeq(ss)
BY DEF FlattenSeq, Contents!FlattenSeq

\* The bytes of the parts are those the abstract specification puts together.
LEMMA BytesSame ==
    ASSUME NEW parts \in Seq(PartValues), NEW native \in BOOLEAN
    PROVE  BytesAt(parts, native, target) =
               Contents!FlattenSeq([k \in DOMAIN HeldAll(parts) |->
                               Contents!PartBytes(HeldAll(parts)[k], native)])
<1>1. \A k \in DOMAIN parts : parts[k] \in PartValues
  OBVIOUS
<1>2. ASSUME NEW part \in PartValues
      PROVE  BytesOf(part, native, target) = Contents!PartBytes(Held(part), native)
  <2>1. CASE part.how = "text"
    BY <2>1 DEF BytesOf, Held, Contents!PartBytes
  <2>2. CASE part.how = "shared"
    BY <2>2 DEF BytesOf, Held, Contents!PartBytes
  <2>3. CASE part.how # "text" /\ part.how # "shared"
    BY <2>3 DEF BytesOf, Held, Contents!PartBytes
  <2> QED
    BY <2>1, <2>2, <2>3
<1>3. DOMAIN HeldAll(parts) = DOMAIN parts
      /\ \A k \in DOMAIN parts : HeldAll(parts)[k] = Held(parts[k])
  BY DEF HeldAll
<1>4. \A k \in DOMAIN parts :
          BytesOf(parts[k], native, target) = Contents!PartBytes(HeldAll(parts)[k], native)
  BY <1>1, <1>2, <1>3
<1>5. EachBytes(parts, native, target) =
          [k \in DOMAIN HeldAll(parts) |-> Contents!PartBytes(HeldAll(parts)[k], native)]
  BY <1>3, <1>4 DEF EachBytes
<1> QED
  BY <1>5, SameFlat DEF BytesAt

\* A timestamp is the one promised.
LEMMA StampSame ==
    ASSUME NEW kind \in Kinds, NEW stamp \in Stamps \cup {Absent}
    PROVE  Modified(kind, stamp) = IF kind = "File" THEN Contents!Stamp(stamp) ELSE 0
<1>1. CASE kind = "Blob"
  BY <1>1 DEF Modified
<1>2. CASE kind = "File" /\ stamp = Absent
  BY <1>2 DEF Modified, Contents!Stamp
<1>3. CASE kind = "File" /\ stamp # Absent
  <2>1. stamp \in Doubles
    BY <1>3, ValuesAssumption
  <2>2. Modified(kind, stamp) = LongLong(stamp)
    BY <1>3 DEF Modified
  <2>3. CASE stamp.class \in {"zero", "finite"}
    <3>1. LongLong(stamp) =
              CHOOSE n \in IntMin .. IntMax : (n - Truncated(stamp)) % Pow2[Width] = 0
      BY <2>1, <2>3, LongLongIs
    <3>2. Contents!Stamp(stamp) =
              CHOOSE n \in Contents!IntMin .. Contents!IntMax :
                  (n - Contents!Truncated(stamp)) % Contents!Pow2[Width] = 0
      BY <1>3, <2>3 DEF Contents!Stamp
    <3> QED
      BY <1>3, <2>2, <3>1, <3>2, SameNumbers
  <2>4. CASE stamp.class \in {"nan", "inf"}
    BY <1>3, <2>2, <2>4, SameNumbers DEF LongLong, Contents!Stamp
  <2> QED
    BY <2>1, <2>3, <2>4, DoubleFields
<1> QED
  BY <1>1, <1>2, <1>3 DEF Kinds

\* Adding an object shows it behind the others.
LEMMA AddShown ==
    ASSUME IInv, NEW kind \in Kinds, NEW data \in Blobs, NEW modified \in Moments,
           Add(kind, data, modified)
    PROVE  ShownAll(objects') = Append(ShownAll(objects),
               [kind |-> kind, bytes |-> ReadAll(data.segments),
                type |-> data.type, modified |-> modified])
<1> DEFINE o == [kind |-> kind, data |-> data, modified |-> modified]
<1>1. o \in Objects /\ objects \in Seq(Objects)
  BY DEF Objects, IInv
<1>2. objects' = Append(objects, o)
  BY DEF Add
<1>3. Shown(o) = [kind |-> kind, bytes |-> ReadAll(data.segments),
                  type |-> data.type, modified |-> modified]
  BY DEF Shown
<1> HIDE DEF o
<1>4. ShownAll(Append(objects, o)) = Append(ShownAll(objects), Shown(o))
  BY <1>1, ShownAppend
<1> QED
  BY <1>2, <1>3, <1>4

\* Without a call nothing is taken.
LEMMA TakenNone == Taken(NoCall) = {}
BY DEF Taken, NoCall

-----------------------------------------------------------------------------
(* Every action is one of the abstract specification.                        *)

\* The variables of the abstract specification.
LEMMA Seen ==
    /\ ShownAll(objects) = [k \in DOMAIN objects |->
        [kind |-> objects[k].kind, bytes |-> ReadAll(objects[k].data.segments),
         type |-> objects[k].data.type, modified |-> objects[k].modified]]
    /\ Taken(call) = IF ~ Running THEN {}
             ELSE {[k \in DOMAIN call.parts |->
                 IF call.parts[k].how = "text" THEN [text |-> TRUE, bytes |-> call.parts[k].text]
                 ELSE [text |-> FALSE,
                       bytes |-> IF call.parts[k].how = "shared"
                                 THEN ReadAll(call.parts[k].data.segments)
                                 ELSE call.parts[k].bytes]]}
BY DEF ShownAll, Shown, Taken, HeldAll, Held, Running

\* And after a step.
LEMMA SeenNext ==
    /\ ShownAll(objects') = [k \in DOMAIN objects |->
        [kind |-> objects[k].kind, bytes |-> ReadAll(objects[k].data.segments),
         type |-> objects[k].data.type, modified |-> objects[k].modified]]'
    /\ Taken(call') = (IF ~ Running THEN {}
             ELSE {[k \in DOMAIN call.parts |->
                 IF call.parts[k].how = "text" THEN [text |-> TRUE, bytes |-> call.parts[k].text]
                 ELSE [text |-> FALSE,
                       bytes |-> IF call.parts[k].how = "shared"
                                 THEN ReadAll(call.parts[k].data.segments)
                                 ELSE call.parts[k].bytes]]})'
BY DEF ShownAll, Shown, Taken, HeldAll, Held, Running

\* Return is a return of the abstract specification.
LEMMA ReturnSeen ==
    ASSUME Return
    PROVE  Contents!Return
<1>1. asked' = NoCall /\ UNCHANGED <<target, buffers, objects, call>>
  BY DEF Return, Quiet
<1>2. ShownAll(objects') = ShownAll(objects) /\ Taken(call') = Taken(call)
  BY <1>1
<1> QED
  BY <1>1, <1>2, Seen, SeenNext DEF Contents!Return, Contents!NoCall, NoCall

\* What user code does to a buffer is a change there.
LEMMA ChangeSeen ==
    ASSUME IInv, NEW b \in Buffers, WriteBuffer(b) \/ Detach(b)
    PROVE  Contents!Change
<1>1. /\ \E bytes \in Bytes \cup {<< >>} : buffers' = [buffers EXCEPT ![b] = bytes]
      /\ asked' = NoCall /\ UNCHANGED <<target, objects, call>>
  BY DEF WriteBuffer, Detach, Quiet
<1>2. ShownAll(objects') = ShownAll(objects) /\ Taken(call') = Taken(call)
  BY <1>1
<1>3. b \in DOMAIN buffers
  BY DEF IInv
<1> QED
  BY <1>1, <1>2, <1>3, Seen, SeenNext DEF Contents!Change, Contents!NoCall, NoCall

\* A constructor that begins is a begin there.
LEMMA BeginSeen ==
    ASSUME IInv, Begin
    PROVE  Contents!Begin
<1>1. /\ ~ Running /\ call' = [op |-> "construct", parts |-> << >>, bound |-> 0]
      /\ buffers' \in [Buffers -> Bytes] /\ asked' = NoCall /\ UNCHANGED <<target, objects>>
  BY DEF Begin, Quiet
<1>2. ShownAll(objects') = ShownAll(objects)
  BY <1>1
<1>3. Taken(call) = {} /\ Taken(call') = {<< >>}
  BY <1>1 DEF Taken, HeldAll, Running
<1>4. DOMAIN buffers = Buffers
  BY DEF IInv
<1> QED
  BY <1>1, <1>2, <1>3, <1>4, Seen, SeenNext DEF Contents!Begin, Contents!NoCall, NoCall

\* A constructor that ends is an end there.
LEMMA EndSeen ==
    ASSUME IInv, End
    PROVE  Contents!End
<1>1. Taken(call') = {}
  BY TakenNone DEF End
<1>2. \A b \in DOMAIN buffers : buffers'[b] = << >>
  BY DEF IInv, End, NoBuffers
<1> QED
  BY <1>1, <1>2, SeenNext DEF Contents!End

\* What a running constructor has taken.
LEMMA TakenRunning ==
    Running => Taken(call) = {HeldAll(call.parts)}
BY DEF Taken, Running

\* A constructor that throws has made nothing.
LEMMA AbandonSeen ==
    ASSUME IInv, Running, End, asked' = NoCall, UNCHANGED <<target, objects>>
    PROVE  Contents!Abandon
<1>1. Contents!End
  BY EndSeen
<1>2. ShownAll(objects') = ShownAll(objects)
  OBVIOUS
<1>3. Taken(call) # {}
  BY TakenRunning
<1> QED
  BY <1>1, <1>2, <1>3, Seen, SeenNext DEF Contents!Abandon, Contents!NoCall, NoCall

\* A part is held as the abstract specification takes it.
HeldNow ==
    {[text |-> FALSE, bytes |-> w] :
         w \in UNION {Contents!Windows(buffers[b]) : b \in DOMAIN buffers}}
    \cup {[text |-> FALSE, bytes |-> ShownAll(objects)[k].bytes] : k \in DOMAIN ShownAll(objects)}
    \cup {[text |-> TRUE, bytes |-> t] : t \in Texts}

\* Any part of a buffer is one of its windows.
LEMMA WindowsHave ==
    ASSUME NEW s \in Seq(Chars), NEW i \in Nat, NEW j \in Nat, i + j <= Len(s)
    PROVE  SubSeq(s, i + 1, i + j) \in Contents!Windows(s)
<1> DEFINE a == i + 1
           c == i + j
<1>1. a \in 1 .. Len(s) + 1 /\ c \in 0 .. Len(s)
  OBVIOUS
<1> HIDE DEF a, c
<1>2. SubSeq(s, a, c) \in Contents!Windows(s)
  BY <1>1 DEF Contents!Windows
<1> QED
  BY <1>2 DEF a, c

\* A converted part is what its source holds at this moment.
LEMMA PartSeen ==
    ASSUME IInv, NEW part \in Parts
    PROVE  Held(part) \in HeldNow
<1>1. DOMAIN buffers = Buffers
      /\ \A b \in Buffers : buffers[b] \in Bytes \cup {<< >>} /\ buffers[b] \in Seq(Chars)
  BY BytesChars DEF IInv
<1>2. ASSUME NEW b \in Buffers PROVE buffers[b] \in Contents!Windows(buffers[b])
  <2> DEFINE s == buffers[b]
  <2>1. s \in Seq(Chars)
    BY <1>1
  <2> HIDE DEF s
  <2>2. Len(s) \in Nat /\ SubSeq(s, 1, Len(s)) = s
    BY <2>1
  <2>3. 1 \in 1 .. Len(s) + 1 /\ Len(s) \in 0 .. Len(s)
    BY <2>2
  <2>4. SubSeq(s, 1, Len(s)) \in Contents!Windows(s)
    BY <2>3 DEF Contents!Windows
  <2> QED
    BY <2>2, <2>4 DEF s
<1>3. ASSUME NEW b \in Buffers, NEW v \in Views PROVE Window(b, v) \in Contents!Windows(buffers[b])
  <2>1. CASE buffers[b] = << >>
    BY <1>2, <2>1 DEF Window
  <2>2. CASE buffers[b] # << >>
    <3>1. buffers[b] \in Bytes /\ buffers[b] \in Seq(Chars)
      BY <1>1, <2>2
    <3>2. v.offset \in Nat /\ v.len \in Nat /\ v.offset + v.len <= Len(buffers[b])
      BY <3>1, BuffersAssumption
    <3>3. Window(b, v) = SubSeq(buffers[b], v.offset + 1, v.offset + v.len)
      BY <2>2 DEF Window
    <3> QED
      BY <3>1, <3>2, <3>3, WindowsHave
  <2> QED
    BY <2>1, <2>2
<1>4. ASSUME NEW b \in Buffers, NEW w \in Contents!Windows(buffers[b])
      PROVE  [text |-> FALSE, bytes |-> w] \in HeldNow
  BY <1>1 DEF HeldNow
<1>5. CASE \E b \in Buffers : part = Copied(buffers[b])
  <2>1. PICK b \in Buffers : part = Copied(buffers[b])
    BY <1>5
  <2>2. Held(part) = [text |-> FALSE, bytes |-> buffers[b]]
    BY <2>1 DEF Copied, Held
  <2> QED
    BY <1>2, <1>4, <2>2
<1>6. CASE \E b \in Buffers, v \in Views : part = Copied(Window(b, v))
  <2>1. PICK b \in Buffers, v \in Views : part = Copied(Window(b, v))
    BY <1>6
  <2>2. Held(part) = [text |-> FALSE, bytes |-> Window(b, v)]
    BY <2>1 DEF Copied, Held
  <2> QED
    BY <1>3, <1>4, <2>2
<1>7. CASE \E k \in DOMAIN objects : part = Shared(objects[k].data)
  <2>1. PICK k \in DOMAIN objects : part = Shared(objects[k].data)
    BY <1>7
  <2>2. Held(part) = [text |-> FALSE, bytes |-> ReadAll(objects[k].data.segments)]
    BY <2>1 DEF Shared, Held
  <2>3. k \in DOMAIN ShownAll(objects)
        /\ ShownAll(objects)[k].bytes = ReadAll(objects[k].data.segments)
    BY DEF ShownAll, Shown
  <2> QED
    BY <2>2, <2>3 DEF HeldNow
<1>8. CASE \E text \in Texts : part = Text(text)
  <2>1. PICK text \in Texts : part = Text(text)
    BY <1>8
  <2>2. Held(part) = [text |-> TRUE, bytes |-> text]
    BY <2>1 DEF Text, Held
  <2> QED
    BY <2>2 DEF HeldNow
<1> QED
  BY <1>5, <1>6, <1>7, <1>8 DEF Parts

\* A part more has been taken.
LEMMA TakeSeen ==
    ASSUME IInv, Running, NEW part \in Parts, call.parts \in Seq(PartValues), call' \in Calls,
           call'.parts = Append(call.parts, part), asked' = NoCall,
           UNCHANGED <<target, buffers, objects>>
    PROVE  Contents!Take
<1>1. part \in PartValues
  BY PartsType
<1>2. Taken(call) = {HeldAll(call.parts)}
  BY TakenRunning
<1>3. Taken(call') = {Append(HeldAll(call.parts), Held(part))}
  <2>1. call'.op = "construct"
    BY DEF Calls
  <2>2. Taken(call') = {HeldAll(call'.parts)}
    BY <2>1 DEF Taken
  <2>3. HeldAll(call'.parts) = Append(HeldAll(call.parts), Held(part))
    BY <1>1, HeldAppend
  <2> QED
    BY <2>2, <2>3
<1>4. Held(part) \in HeldNow
  BY PartSeen
<1>5. ShownAll(objects') = ShownAll(objects)
  OBVIOUS
<1>6. /\ \E parts \in Taken(call) : \E p \in HeldNow : Taken(call') = {Append(parts, p)}
      /\ asked' = NoCall
  BY <1>2, <1>3, <1>4
<1> QED
  BY <1>5, <1>6 DEF Contents!Take, HeldNow, Contents!NoCall, NoCall, ShownAll, Shown, Taken,
                    HeldAll, Held, Running

\* Converting a part takes what it holds now, or throws.
LEMMA ConvertSeen ==
    ASSUME IInv, Convert
    PROVE  Contents!Take \/ Contents!Abandon
<1>1. PICK part \in Parts :
         LET whole == Append(call.parts, part)
         IN  /\ Running /\ part \in PartValues /\ whole \in Seq(PartValues)
             /\ UNCHANGED <<target, objects>>
             /\ \/ /\ End /\ asked' = NoCall /\ AtConversion(refused', target)
                \/ /\ call' = [call EXCEPT !.parts = whole,
                                           !.bound = call.bound + LowerBound(part)]
                   /\ call' \in Calls /\ Within(call', target) /\ call'.parts = whole
                   /\ Quiet /\ UNCHANGED buffers
  BY ConvertIs
<1>2. CASE End /\ asked' = NoCall
  BY <1>1, <1>2, AbandonSeen
<1>3. CASE /\ call' \in Calls /\ call'.parts = Append(call.parts, part)
           /\ Quiet /\ UNCHANGED buffers
  <2>1. call.parts \in Seq(PartValues)
    BY <1>1, RunningIs
  <2>2. asked' = NoCall
    BY <1>3 DEF Quiet
  <2> QED
    BY <1>1, <1>3, <2>1, <2>2, TakeSeen
<1> QED
  BY <1>1, <1>2, <1>3

\* A constructor that ends has made its parts, or throws.
LEMMA FinishSeen ==
    ASSUME IInv, NEW kind \in Kinds, NEW native \in BOOLEAN, NEW type \in Types,
           NEW stamp \in Stamps \cup {Absent}, Finish(kind, native, type, stamp)
    PROVE  Contents!Make \/ Contents!Abandon
<1>1. /\ Running /\ End /\ target' = target
      /\ \/ \E data \in Blobs :
               /\ Add(kind, data, Modified(kind, stamp))
               /\ ReadAll(data.segments) = BytesAt(call.parts, native, target)
               /\ data.type = NormalizedType(type)
               /\ Asked([op |-> "make", kind |-> kind, native |-> native,
                         type |-> type, stamp |-> stamp])
         \/ /\ asked' = NoCall /\ AtProcessing(refused', target) /\ UNCHANGED objects
  BY FinishIs
<1>2. CASE asked' = NoCall /\ UNCHANGED objects
  BY <1>1, <1>2, AbandonSeen
<1>3. ASSUME NEW data \in Blobs,
             Add(kind, data, Modified(kind, stamp)),
             ReadAll(data.segments) = BytesAt(call.parts, native, target),
             data.type = NormalizedType(type),
             Asked([op |-> "make", kind |-> kind, native |-> native,
                    type |-> type, stamp |-> stamp])
      PROVE  Contents!Make
  <2> DEFINE bytes == Contents!FlattenSeq([k \in DOMAIN HeldAll(call.parts) |->
                                     Contents!PartBytes(HeldAll(call.parts)[k], native)])
             modified == IF kind = "File" THEN Contents!Stamp(stamp) ELSE 0
  <2>1. asked' = [op |-> "make", kind |-> kind, native |-> native,
                  type |-> type, stamp |-> stamp]
    BY <1>3 DEF Asked
  <2>2. asked'.op = "make" /\ asked'.kind = kind /\ asked'.native = native
        /\ asked'.type = type /\ asked'.stamp = stamp
    BY <2>1
  <2>3. call.parts \in Seq(PartValues) /\ Taken(call) = {HeldAll(call.parts)}
    BY <1>1, RunningIs, TakenRunning
  <2>4. BytesAt(call.parts, native, target) = bytes
    BY <2>3, BytesSame
  <2>5. Modified(kind, stamp) = modified /\ Modified(kind, stamp) \in Moments
    BY StampSame, ModifiedType
  <2>6. ShownAll(objects') = Append(ShownAll(objects),
            [kind |-> kind, bytes |-> ReadAll(data.segments),
             type |-> data.type, modified |-> Modified(kind, stamp)])
    BY <1>3, <2>5, AddShown
  <2>7. ShownAll(objects') = Append(ShownAll(objects),
            Contents!Object(kind, bytes, NormalizedType(type), modified))
    BY <1>3, <2>4, <2>5, <2>6 DEF Contents!Object
  <2>8. \E parts \in Taken(call) :
            ShownAll(objects') = Append(ShownAll(objects), Contents!Object(asked'.kind,
                Contents!FlattenSeq([k \in DOMAIN parts |->
                                         Contents!PartBytes(parts[k], asked'.native)]),
                NormalizedType(asked'.type),
                IF asked'.kind = "File" THEN Contents!Stamp(asked'.stamp) ELSE 0))
    BY <2>2, <2>3, <2>7
  <2>9. Contents!End /\ target' = target
    BY <1>1, EndSeen
  <2> QED
    BY <2>2, <2>8, <2>9 DEF Contents!Make, ShownAll, Shown, Taken, HeldAll, Held, Running
<1> QED
  BY <1>1, <1>2, <1>3

\* slice is by the exact value of its arguments.
LEMMA CallSliceSeen ==
    ASSUME IInv, NEW k \in DOMAIN objects, NEW start \in Numbers \cup {Absent},
           NEW end \in Numbers \cup {Absent}, NEW type \in Types,
           CallSlice(k, start, end, type)
    PROVE  Contents!SliceOf
<1> DEFINE whole == ReadAll(objects[k].data.segments)
           part == SubSeq(whole, Contents!Place(start, Len(whole), 0) + 1,
                                 Contents!Place(end, Len(whole), Len(whole)))
<1>1. PICK data \in Blobs :
          /\ Add("Blob", data, 0) /\ data.type = NormalizedType(type)
          /\ ReadAll(data.segments) = part
  BY CallSliceIs
<1>2. asked' = [op |-> "slice", of |-> k, start |-> start, end |-> end, type |-> type]
      /\ UNCHANGED <<target, buffers, call>>
  BY DEF CallSlice, Asked
<1>3. asked'.op = "slice" /\ asked'.of = k /\ asked'.start = start /\ asked'.end = end
      /\ asked'.type = type
  BY <1>2
<1>4. ShownAll(objects)[k].bytes = whole
  BY DEF ShownAll, Shown
<1>5. "Blob" \in Kinds /\ 0 \in Moments
  BY DEF Kinds, Moments
<1>6. ShownAll(objects') = Append(ShownAll(objects),
          [kind |-> "Blob", bytes |-> ReadAll(data.segments),
           type |-> data.type, modified |-> 0])
  BY <1>1, <1>5, AddShown
<1>7. ShownAll(objects') = Append(ShownAll(objects),
          Contents!Object("Blob", part, NormalizedType(type), 0))
  BY <1>1, <1>6 DEF Contents!Object
<1>8. LET w == ShownAll(objects)[asked'.of].bytes
          from == Contents!Place(asked'.start, Len(w), 0)
          to == Contents!Place(asked'.end, Len(w), Len(w))
      IN  ShownAll(objects') = Append(ShownAll(objects),
              Contents!Object("Blob", SubSeq(w, from + 1, to), NormalizedType(asked'.type), 0))
  BY <1>3, <1>4, <1>7
<1>9. Taken(call') = Taken(call)
  BY <1>2
<1> QED
  BY <1>2, <1>3, <1>8, <1>9, Seen, SeenNext DEF Contents!SliceOf

\* A clone is a copy.
LEMMA CloneSeen ==
    ASSUME IInv, NEW k \in DOMAIN objects, Clone(k)
    PROVE  Contents!Copy
<1>1. PICK data \in Blobs :
          /\ Add(objects[k].kind, data, objects[k].modified)
          /\ data.type = objects[k].data.type
          /\ ReadAll(data.segments) = ReadAll(objects[k].data.segments)
  BY CloneIs
<1>2. asked' = NoCall /\ UNCHANGED <<target, buffers, call>>
  BY DEF Clone, Quiet
<1>3. objects[k].kind \in Kinds /\ objects[k].modified \in Moments
  BY ObjectFields
<1>4. ShownAll(objects') = Append(ShownAll(objects),
          [kind |-> objects[k].kind, bytes |-> ReadAll(data.segments),
           type |-> data.type, modified |-> objects[k].modified])
  BY <1>1, <1>3, AddShown
<1>5. k \in DOMAIN ShownAll(objects)
      /\ ShownAll(objects)[k] = [kind |-> objects[k].kind, bytes |-> ReadAll(data.segments),
                                 type |-> data.type, modified |-> objects[k].modified]
  BY <1>1 DEF ShownAll, Shown
<1>6. \E n \in DOMAIN ShownAll(objects) :
          ShownAll(objects') = Append(ShownAll(objects), ShownAll(objects)[n])
  BY <1>4, <1>5
<1>7. Taken(call') = Taken(call)
  BY <1>2
<1> QED
  BY <1>2, <1>6, <1>7, Seen, SeenNext DEF Contents!Copy, Contents!NoCall, NoCall

\* What the host makes has the bytes it gives.
LEMMA FromHostSeen ==
    ASSUME IInv, NEW kind \in Kinds, NEW bytes \in Bytes, NEW type \in Types,
           FromHost(kind, bytes, type)
    PROVE  Contents!New
<1> DEFINE modified == IF kind = "File" THEN Now ELSE 0
<1>1. PICK data \in Blobs :
          /\ Add(kind, data, Modified(kind, Absent))
          /\ data.type = NormalizedType(type) /\ ReadAll(data.segments) = bytes
  BY FromHostIs
<1>2. asked' = [op |-> "new", kind |-> kind, bytes |-> bytes, type |-> type]
      /\ UNCHANGED <<target, buffers, call>>
  BY DEF FromHost, Asked
<1>3. asked'.op = "new" /\ asked'.kind = kind /\ asked'.bytes = bytes /\ asked'.type = type
  BY <1>2
<1>4. Modified(kind, Absent) = modified /\ Modified(kind, Absent) \in Moments
  BY ModifiedType DEF Modified, Kinds
<1>5. ShownAll(objects') = Append(ShownAll(objects),
          [kind |-> kind, bytes |-> ReadAll(data.segments),
           type |-> data.type, modified |-> Modified(kind, Absent)])
  BY <1>1, <1>4, AddShown
<1>6. ShownAll(objects') = Append(ShownAll(objects),
          Contents!Object(asked'.kind, asked'.bytes, NormalizedType(asked'.type),
                          IF asked'.kind = "File" THEN Now ELSE 0))
  BY <1>1, <1>3, <1>4, <1>5 DEF Contents!Object
<1>7. Taken(call') = Taken(call)
  BY <1>2
<1> QED
  BY <1>2, <1>3, <1>6, <1>7, Seen, SeenNext DEF Contents!New

\* Initial states map to initial states.
LEMMA InitSeen == Init => Contents!Init
<1> SUFFICES ASSUME Init PROVE Contents!Init
  OBVIOUS
<1>1. ShownAll(objects) = << >> /\ Taken(call) = {} /\ asked = NoCall
  BY TakenNone DEF Init, ShownAll
<1> QED
  BY <1>1, Seen DEF Contents!Init, Contents!NoCall, NoCall

\* Every step maps to a step, or to a stutter.
LEMMA NextSeen == IInv /\ [Next]_vars => [Contents!Next]_(Contents!vars)
<1> SUFFICES ASSUME IInv, [Next]_vars PROVE [Contents!Next]_(Contents!vars)
  OBVIOUS
<1>1. CASE UNCHANGED vars
  <2>1. ShownAll(objects') = ShownAll(objects) /\ Taken(call') = Taken(call)
        /\ UNCHANGED <<target, buffers, asked>>
    BY <1>1 DEF vars
  <2>2. UNCHANGED Contents!vars
    BY <2>1, Seen, SeenNext DEF Contents!vars
  <2> QED
    BY <2>2
<1>2. CASE Return
  BY <1>2, ReturnSeen DEF Contents!Next
<1>3. ASSUME NEW b \in Buffers, WriteBuffer(b) \/ Detach(b) PROVE Contents!Next
  BY <1>3, ChangeSeen DEF Contents!Next
<1>4. CASE Begin
  BY <1>4, BeginSeen DEF Contents!Next
<1>5. CASE Convert
  BY <1>5, ConvertSeen DEF Contents!Next
<1>6. CASE Abandon
  <2>1. Running /\ End /\ asked' = NoCall /\ UNCHANGED <<target, objects>>
    BY <1>6 DEF Abandon, Throw
  <2> QED
    BY <2>1, AbandonSeen DEF Contents!Next
<1>7. ASSUME NEW kind \in Kinds, NEW native \in BOOLEAN, NEW type \in Types,
             NEW stamp \in Stamps \cup {Absent}, Finish(kind, native, type, stamp)
      PROVE  Contents!Next
  BY <1>7, FinishSeen DEF Contents!Next
<1>8. ASSUME NEW k \in DOMAIN objects, NEW start \in Numbers \cup {Absent},
             NEW end \in Numbers \cup {Absent}, NEW type \in Types,
             CallSlice(k, start, end, type)
      PROVE  Contents!Next
  BY <1>8, CallSliceSeen DEF Contents!Next
<1>9. ASSUME NEW k \in DOMAIN objects, Clone(k) PROVE Contents!Next
  BY <1>9, CloneSeen DEF Contents!Next
<1>10. ASSUME NEW kind \in Kinds, NEW bytes \in Bytes, NEW type \in Types,
              FromHost(kind, bytes, type)
       PROVE  Contents!Next
  BY <1>10, FromHostSeen DEF Contents!Next
<1> QED
  BY <1>1, <1>2, <1>3, <1>4, <1>5, <1>6, <1>7, <1>8, <1>9, <1>10 DEF Next

\* Objects are the fixed bytes that BlobContents promises: made of what each part held
\* when the constructor came to it, whatever user code does to buffers later, and cut
\* by the exact value of the arguments of slice (webidl.rs, blob.rs, file.rs).
THEOREM ObjectsAreContents == Spec => RefinesContents
<1> QED
  BY InitSeen, NextSeen, ValuesInvariant, PTL DEF Spec, RefinesContents, Contents!Spec

-----------------------------------------------------------------------------
(* The readers.                                                              *)

\* What ReadersAgree says of one object.
Agrees(data, bytes) ==
    /\ data.size = Len(bytes)
    /\ ReaderChunks(data) = WorkerChunks(data)
    /\ FlattenSeq(ReaderChunks(data)) = bytes
    /\ \A from \in 0 .. Len(bytes), to \in 0 .. Len(bytes) :
          from <= to => BlobRange(data, from, to) = SubSeq(bytes, from + 1, to)
    /\ DecodeText(WorkerChunks(data)) = DecodeText(<<bytes>>)
    /\ ReadPackedSync(data, TRUE).ok =>
          /\ ReadPackedSync(data, TRUE).value = DecodeText(WorkerChunks(data))
          /\ ReadPackedSync(data, FALSE).value = bytes
    /\ PackagedDataUrlLen(data.type, bytes) = DataUrlLen(data.type, data.size)
    /\ ReadAsDataUrlSync(data).ok => ReadAsDataUrlSync(data).value <= MaxDataUrl

\* A data URL is as long as was reckoned before the read.
LEMMA UrlLen ==
    ASSUME NEW type \in Seq(Chars), NEW bytes \in Seq(Chars)
    PROVE  PackagedDataUrlLen(type, bytes) = DataUrlLen(type, Len(bytes))
<1>1. Len(bytes) \in Nat
  OBVIOUS
<1>2. Base64Len(bytes) = ((Len(bytes) + 2) \div 3) * 4
  BY <1>1, Base64Is
<1>3. TypeLen(type) \in Nat
  <2>1. Len(type) \in Nat
    OBVIOUS
  <2> QED
    BY <2>1 DEF TypeLen, OctetStream
<1>4. Base64Len(bytes) \in Int
  BY <1>1, <1>2
<1> QED
  BY <1>2, <1>3, <1>4 DEF PackagedDataUrlLen, DataUrlLen

\* All ways of reading a blob agree.
LEMMA BlobAgrees ==
    ASSUME NEW data \in Blobs
    PROVE  Agrees(data, ReadAll(data.segments))
<1> DEFINE bytes == ReadAll(data.segments)
           size == data.size
<1>1. /\ data.segments \in FitSegments /\ data.segments \in Seq(ValidSegments)
      /\ size = TotalLen(data.segments) /\ size \in Nat /\ data.type \in Seq(Chars)
      /\ bytes \in Seq(Chars) /\ Len(bytes) = size
  BY BlobFields
<1>2. /\ ReaderChunks(data) = UpTo(bytes, Count(size))
      /\ WorkerChunks(data) = UpTo(bytes, Count(size))
  <2>1. ReaderChunks(data) = UpTo(bytes, Count(size))
    BY <1>1, ReaderIs
  <2>2. WorkerChunks(data) = UpTo(bytes, Count(size))
    BY <1>1, WorkersAre
  <2> QED
    BY <2>1, <2>2
<1> HIDE DEF bytes, size
<1>3. UpTo(bytes, Count(size)) \in Seq(Seq(Chars)) /\ FlattenSeq(UpTo(bytes, Count(size))) = bytes
  BY <1>1, ChunksJoin
<1>4. ASSUME NEW from \in 0 .. Len(bytes), NEW to \in 0 .. Len(bytes)
      PROVE  BlobRange(data, from, to) = SubSeq(bytes, from + 1, to)
  <2>1. from \in Nat /\ to \in Nat /\ to <= data.size
    BY <1>1 DEF size
  <2>2. data.segments \in FitSegments /\ data.size = TotalLen(data.segments)
    BY <1>1 DEF size
  <2> QED
    BY <2>1, <2>2, RangeIs DEF bytes
<1>5. DecodeText(WorkerChunks(data)) = DecodeText(<<bytes>>)
  BY <1>2, <1>3, DecodeIs
<1>6. /\ ReadPackedSync(data, FALSE).ok => ReadPackedSync(data, FALSE).value = bytes
      /\ ReadPackedSync(data, TRUE).ok => /\ ReadPackedSync(data, FALSE).ok
                                          /\ ReadPackedSync(data, TRUE).value = DecodeText(<<bytes>>)
  BY DEF ReadPackedSync, ReadSync, Materialize, Ok, Err, bytes
<1>7. PackagedDataUrlLen(data.type, bytes) = DataUrlLen(data.type, size)
  BY <1>1, UrlLen
<1>8. ASSUME ReadAsDataUrlSync(data).ok PROVE ReadAsDataUrlSync(data).value <= MaxDataUrl
  <2>1. DataUrlLen(data.type, data.size) <= MaxDataUrl
    <3>1. DataUrlLen(data.type, data.size) \in Int
      BY <1>1 DEF DataUrlLen, TypeLen, OctetStream, size
    <3> QED
      BY <1>8, <3>1 DEF ReadAsDataUrlSync, Err
  <2>2. ReadAsDataUrlSync(data) = Ok(PackagedDataUrlLen(data.type, bytes))
    BY <1>1, <1>8, <2>1 DEF ReadAsDataUrlSync, Err, Ok, PackageDataUrl, Materialize, bytes, size
  <2> QED
    BY <1>7, <2>1, <2>2 DEF Ok, size
<1> QED
  BY <1>1, <1>2, <1>3, <1>4, <1>5, <1>6, <1>7, <1>8 DEF Agrees, bytes, size

\* ReadersAgree holds of every object that can be made.
LEMMA InvAgrees ==
    ASSUME IInv
    PROVE  ReadersAgree
<1>1. ASSUME NEW k \in DOMAIN objects
      PROVE  Agrees(objects[k].data, ReadAll(objects[k].data.segments))
  <2>1. objects[k].data \in Blobs
    <3>1. objects[k] \in Objects
      BY DEF IInv
    <3> QED
      BY <3>1 DEF Objects
  <2> QED
    BY <2>1, BlobAgrees
<1> QED
  BY <1>1 DEF ReadersAgree, Agrees

\* Every way to the bytes of an object reads the same ones: BlobReader, the chunks of
\* workers, ranges, the whole at once, FileReaderSync and data URLs (blob.rs, io.rs,
\* package.rs, filereader_sync.rs).
THEOREM ReadersRight == Spec => []ReadersAgree
<1>1. IInv => ReadersAgree
  BY InvAgrees
<1> QED
  BY <1>1, ValuesInvariant, PTL
=============================================================================
