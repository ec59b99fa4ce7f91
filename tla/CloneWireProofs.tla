-------------------------- MODULE CloneWireProofs --------------------------
(*****************************************************************************)
(* The codec of CloneWire is strict and keeps what it is given, for every    *)
(* base, all limits and all payloads.  An entry has one form on the wire     *)
(* (Body): writing appends it, if the limit allows, and what is read is an   *)
(* entry whose form is there.  Lists are by induction on the entries that    *)
(* were written, or read.                                                    *)
(*****************************************************************************)
EXTENDS CloneWire, SequenceTheorems, WellFoundedInduction, TLAPS

-----------------------------------------------------------------------------
(* Induction and iteration.                                                  *)

\* The pairs of numbers in order.
Before == {p \in Nat \X Nat : p[1] < p[2]}

\* The order of numbers is well founded.
LEMMA BeforeWF == IsWellFoundedOn(Before, Nat)
BY NatLessThanWellFounded DEF OpToRel, Before

\* A set of numbers that is not empty has a least one.
LEMMA LeastNumber ==
    ASSUME NEW T, T \subseteq Nat, T # {}
    PROVE  \E x \in T : \A y \in T : x <= y
<1>1. \E x \in T : \A y \in T : ~ (<<y, x>> \in Before)
  BY BeforeWF, WFMin
<1>2. ASSUME NEW x \in Nat, NEW y \in Nat, ~ (<<y, x>> \in Before)
      PROVE  x <= y
  BY <1>2 DEF Before
<1> QED
  BY <1>1, <1>2

\* A set with 0, and with n + 1 whenever it has n, has every number.
LEMMA Induction ==
    ASSUME NEW T, 0 \in T, \A n \in Nat : n \in T => n + 1 \in T
    PROVE  \A n \in Nat : n \in T
<1> DEFINE F == Nat \ T
<1> SUFFICES ASSUME F # {} PROVE FALSE
  OBVIOUS
<1>1. PICK x \in F : \A y \in F : x <= y
  BY LeastNumber
<1>2. x # 0 /\ x - 1 \in Nat /\ x - 1 \notin F
  BY <1>1
<1> QED
  BY <1>2

\* g is the beginning of an iteration, up to place n.
Prefix(g, S, x, step, n) ==
    /\ g \in [0 .. n -> S]
    /\ g[0] = x
    /\ \A k \in 1 .. n : g[k] = step[k][g[k - 1]]

\* Every beginning of an iteration exists.
LEMMA PrefixExists ==
    ASSUME NEW S, NEW x \in S, NEW step \in [Nat -> [S -> S]]
    PROVE  \A n \in Nat : \E g : Prefix(g, S, x, step, n)
<1> DEFINE T == {n \in Nat : \E g : Prefix(g, S, x, step, n)}
<1>1. 0 \in T
  <2>1. Prefix([k \in 0 .. 0 |-> x], S, x, step, 0)
    BY DEF Prefix
  <2> QED
    BY <2>1
<1>2. ASSUME NEW n \in Nat, n \in T PROVE n + 1 \in T
  <2>1. PICK g : Prefix(g, S, x, step, n)
    BY <1>2
  <2> DEFINE v == step[n + 1][g[n]]
             h == [k \in 0 .. n + 1 |-> IF k <= n THEN g[k] ELSE v]
  <2>2. v \in S
    BY <2>1 DEF Prefix
  <2>3. h \in [0 .. n + 1 -> S] /\ h[0] = x
    <3>1. \A k \in 0 .. n + 1 : k <= n => k \in 0 .. n
      OBVIOUS
    <3> HIDE DEF v
    <3> QED
      BY <2>1, <2>2, <3>1 DEF Prefix
  <2>4. ASSUME NEW k \in 1 .. n + 1 PROVE h[k] = step[k][h[k - 1]]
    <3>1. CASE k <= n
      <4>1. h[k] = g[k] /\ h[k - 1] = g[k - 1] /\ k \in 1 .. n
        BY <3>1
      <4> QED
        BY <2>1, <4>1 DEF Prefix
    <3>2. CASE k = n + 1
      BY <3>2
    <3> QED
      BY <3>1, <3>2
  <2> HIDE DEF h
  <2>5. Prefix(h, S, x, step, n + 1)
    BY <2>3, <2>4 DEF Prefix
  <2> QED
    BY <2>5
<1> HIDE DEF T
<1>3. \A n \in Nat : n \in T
  BY <1>1, <1>2, Induction
<1> QED
  BY <1>3 DEF T

\* The first n steps are the same.
Agree(step, other, n) == \A k \in 1 .. n : step[k] = other[k]

\* Two beginnings of one iteration agree as far as both go.
LEMMA PrefixUnique ==
    ASSUME NEW S, NEW x, NEW step, NEW other, NEW T, NEW n \in Nat, NEW m \in Nat, NEW g, NEW h,
           Prefix(g, S, x, step, n), Prefix(h, T, x, other, m),
           Agree(step, other, n)
    PROVE  \A k \in Nat : k <= n /\ k <= m => g[k] = h[k]
<1> DEFINE A == {k \in Nat : k <= n /\ k <= m => g[k] = h[k]}
<1>1. 0 \in A
  BY DEF Prefix
<1>2. ASSUME NEW k \in Nat, k \in A PROVE k + 1 \in A
  <2> SUFFICES ASSUME k + 1 <= n, k + 1 <= m PROVE g[k + 1] = h[k + 1]
    OBVIOUS
  <2>1. g[k + 1] = step[k + 1][g[k]] /\ h[k + 1] = other[k + 1][h[k]]
    BY DEF Prefix
  <2>2. step[k + 1] = other[k + 1]
    BY DEF Agree
  <2> QED
    BY <1>2, <2>1, <2>2
<1> HIDE DEF A
<1>3. \A k \in Nat : k \in A
  BY <1>1, <1>2, Induction
<1> QED
  BY <1>3 DEF A

\* An iteration without end exists: what a recursive function on numbers asks for.
LEMMA Iteration ==
    ASSUME NEW S, NEW x \in S, NEW step \in [Nat -> [S -> S]]
    PROVE  \E g \in [Nat -> S] : g[0] = x /\ \A n \in Nat : g[n + 1] = step[n + 1][g[n]]
<1> DEFINE part == [n \in Nat |-> CHOOSE h : Prefix(h, S, x, step, n)]
           g == [n \in Nat |-> part[n][n]]
<1>1. \A n \in Nat : Prefix(part[n], S, x, step, n)
  BY PrefixExists
<1> HIDE DEF part
<1>2. g \in [Nat -> S] /\ g[0] = x
  BY <1>1 DEF Prefix
<1>3. ASSUME NEW n \in Nat PROVE g[n + 1] = step[n + 1][g[n]]
  <2>1. part[n + 1][n + 1] = step[n + 1][part[n + 1][n]]
    BY <1>1 DEF Prefix
  <2>2. part[n + 1][n] = part[n][n]
    <3>1. Prefix(part[n + 1], S, x, step, n + 1) /\ Prefix(part[n], S, x, step, n)
      BY <1>1
    <3>2. ASSUME NEW p, NEW q, Prefix(p, S, x, step, n + 1), Prefix(q, S, x, step, n)
          PROVE  p[n] = q[n]
      <4>1. n + 1 \in Nat /\ Agree(step, step, n + 1)
        BY DEF Agree
      <4>2. \A k \in Nat : k <= n + 1 /\ k <= n => p[k] = q[k]
        BY ONLY <3>2, <4>1, n \in Nat, PrefixUnique
      <4> QED
        BY <4>2
    <3> QED
      BY <3>1, <3>2
  <2> QED
    BY <2>1, <2>2
<1> QED
  BY <1>2, <1>3

-----------------------------------------------------------------------------
(* Words and timestamps.                                                     *)

\* A remainder is the only one.
LEMMA ModIs ==
    ASSUME NEW p \in Nat \ {0}, NEW k \in Int, NEW r \in 0 .. p - 1
    PROVE  (p * k + r) % p = r /\ (p * k + r) \div p = k
OBVIOUS

\* Division with its remainder.
LEMMA DivMod ==
    ASSUME NEW a \in Int, NEW p \in Nat \ {0}
    PROVE  (a % p) \in 0 .. p - 1 /\ a \div p \in Int /\ a = p * (a \div p) + (a % p)
<1>1. a % p \in 0 .. p - 1
  OBVIOUS
<1>2. a \div p \in Int
  OBVIOUS
<1>3. a = p * (a \div p) + (a % p)
  OBVIOUS
<1> QED
  BY <1>1, <1>2, <1>3

\* A quotient is below what the number is below.
LEMMA DivSmall ==
    ASSUME NEW a \in Nat, NEW p \in Nat \ {0}, NEW b \in Nat
    PROVE  /\ a \div p \in Nat
           /\ a < p * b => a \div p < b
<1>1. a \div p \in Int /\ (a % p) \in 0 .. p - 1 /\ a = p * (a \div p) + (a % p)
  BY DivMod
<1> DEFINE q == a \div p
           r == a % p
<1>2. q \in Int /\ r \in 0 .. p - 1 /\ a = p * q + r
  BY <1>1
<1> HIDE DEF q, r
<1>3. q >= 0
  <2> SUFFICES ASSUME q <= -1 PROVE FALSE
    BY <1>2
  <2>1. p * q <= -p
    BY <1>2
  <2> QED
    BY <1>2, <2>1
<1>4. ASSUME a < p * b PROVE q < b
  <2> SUFFICES ASSUME b <= q PROVE FALSE
    BY <1>2
  <2>1. p * b <= p * q
    BY <1>2
  <2> QED
    BY <1>2, <1>4, <2>1
<1> QED
  BY <1>2, <1>3, <1>4 DEF q

\* A natural number and its last digit.
LEMMA DivNat ==
    ASSUME NEW a \in Nat, NEW p \in Nat \ {0}
    PROVE  a \div p \in Nat /\ a % p \in 0 .. p - 1 /\ a = p * (a \div p) + (a % p)
<1>1. 0 \in Nat /\ a \in Int
  OBVIOUS
<1>2. a \div p \in Nat
  BY ONLY <1>1, a \in Nat, p \in Nat \ {0}, DivSmall
<1>3. (a % p) \in 0 .. p - 1 /\ a \div p \in Int /\ a = p * (a \div p) + (a % p)
  BY ONLY <1>1, p \in Nat \ {0}, DivMod
<1> QED
  BY ONLY <1>2, <1>3

\* The constants.
LEMMA Constants ==
    /\ Base \in Nat \ {0} /\ Base >= 4
    /\ WordRange \in Nat \ {0} /\ WordRange > 3
    /\ StampRange \in Nat \ {0}
    /\ MaxBytes \in Nat /\ MaxBytes >= 16 /\ MaxBytes < WordRange
    /\ MaxString \in Nat /\ MaxFiles \in Nat /\ MaxFiles < WordRange
<1>1. Base \in Nat \ {0} /\ Base >= 4
  BY WireAssumption
<1>2. Base * Base \in Nat /\ Base * Base >= 4
  BY <1>1
<1>3. Base * Base * Base \in Nat /\ Base * Base * Base >= 4
  BY <1>1, <1>2
<1>4. WordRange \in Nat /\ WordRange >= 4
  BY <1>1, <1>3 DEF WordRange
<1>5. StampRange \in Nat /\ StampRange >= 4
  <2> DEFINE w == WordRange
  <2>1. w \in Nat /\ w >= 4
    BY <1>4
  <2> HIDE DEF w
  <2>2. w * w \in Nat /\ w * w >= 4
    BY <2>1
  <2> QED
    BY <2>2 DEF StampRange, w
<1> QED
  BY <1>1, <1>4, <1>5, WireAssumption

\* The digits of a word.
WordOf(a, b, c, d) == a + Base * (b + Base * (c + Base * d))

\* A word has four digits, and they say what it is, if that fits.
LEMMA WordIs ==
    ASSUME NEW n \in Nat
    PROVE  /\ Word(n) \in Seq(Digits) /\ Len(Word(n)) = 4
           /\ n < WordRange => Number(Word(n)) = n
<1> DEFINE s == n \div Base
           t == s \div Base
           u == t \div Base
<1>0. Base \in Nat \ {0}
  BY Constants
<1>1. s \in Nat /\ n % Base \in 0 .. Base - 1 /\ n = Base * s + (n % Base)
  BY <1>0, DivNat
<1>2. t \in Nat /\ s % Base \in 0 .. Base - 1 /\ s = Base * t + (s % Base)
  <2> HIDE DEF s
  <2> QED
    BY ONLY <1>0, <1>1, DivNat DEF t
<1>3. u \in Nat /\ t % Base \in 0 .. Base - 1 /\ t = Base * u + (t % Base)
  <2> HIDE DEF s, t
  <2> QED
    BY ONLY <1>0, <1>2, DivNat DEF u
<1>4. u % Base \in 0 .. Base - 1
  <2> HIDE DEF u
  <2> QED
    BY ONLY <1>0, <1>3, DivNat
<1>5. Word(n) = <<n % Base, s % Base, t % Base, u % Base>>
  BY DEF Word
<1>6. ASSUME n < WordRange PROVE Number(Word(n)) = n
  <2>1. Base * Base \in Nat /\ Base * Base * Base \in Nat
    BY <1>0
  <2>2. n < Base * (Base * Base * Base)
    <3> DEFINE c == Base * Base * Base
    <3>1. c \in Nat /\ WordRange = c * Base
      BY <2>1 DEF WordRange
    <3> HIDE DEF c
    <3> QED
      BY <1>0, <1>6, <3>1 DEF c
  <2>3. s < Base * Base * Base
    BY <1>0, <2>1, <2>2, DivSmall
  <2>4. s < Base * (Base * Base)
    BY <1>0, <2>1, <2>3
  <2>5. t < Base * Base
    BY <1>0, <1>1, <2>1, <2>4, DivSmall
  <2>6. u < Base
    BY <1>0, <1>2, <2>5, DivSmall
  <2>7. u % Base = u
    BY <1>0, <1>3, <2>6
  <2>8. Number(Word(n)) = (n % Base) + Base * ((s % Base) + Base * ((t % Base) + Base * (u % Base)))
    BY <1>5 DEF Number
  <2> HIDE DEF s, t, u
  <2>9. (t % Base) + Base * u = t
    BY <1>0, <1>3
  <2>10. (s % Base) + Base * t = s
    BY <1>0, <1>2
  <2>11. (n % Base) + Base * s = n
    BY <1>0, <1>1
  <2> QED
    BY <2>7, <2>8, <2>9, <2>10, <2>11
<1>7. Word(n) \in Seq(Digits) /\ Len(Word(n)) = 4
  <2>1. \A a \in Digits, b \in Digits, c \in Digits, d \in Digits :
            <<a, b, c, d>> \in Seq(Digits) /\ Len(<<a, b, c, d>>) = 4
    OBVIOUS
  <2> HIDE DEF s, t, u
  <2> QED
    BY <1>1, <1>2, <1>3, <1>4, <1>5, <2>1 DEF Digits
<1> QED
  BY <1>6, <1>7

\* Four digits are a word that fits, and the word is these digits.
LEMMA NumberIs ==
    ASSUME NEW w \in Seq(Digits), Len(w) = 4
    PROVE  Number(w) \in Nat /\ Number(w) < WordRange /\ Word(Number(w)) = w
<1>0. Base \in Nat \ {0}
  BY Constants
<1>1. PICK a \in Digits, b \in Digits, c \in Digits, d \in Digits : w = <<a, b, c, d>>
  <2>1. w = <<w[1], w[2], w[3], w[4]>>
    OBVIOUS
  <2>2. \A k \in 1 .. 4 : w[k] \in Digits
    OBVIOUS
  <2>3. 1 \in 1 .. 4 /\ 2 \in 1 .. 4 /\ 3 \in 1 .. 4 /\ 4 \in 1 .. 4
    OBVIOUS
  <2>4. w[1] \in Digits /\ w[2] \in Digits /\ w[3] \in Digits /\ w[4] \in Digits
    BY ONLY <2>2, <2>3
  <2> QED
    BY ONLY <2>1, <2>4
<1> DEFINE t == Base * d + c
           s == Base * t + b
           n == Base * s + a
<1>2. a \in 0 .. Base - 1 /\ b \in 0 .. Base - 1 /\ c \in 0 .. Base - 1 /\ d \in 0 .. Base - 1
  BY DEF Digits
<1>3. t \in Nat /\ s \in Nat /\ n \in Nat
  BY <1>0, <1>2
<1>4. Number(w) = n
  <2>1. Number(w) = a + Base * (b + Base * (c + Base * d))
    BY <1>1 DEF Number
  <2>2. c + Base * d = t
    BY <1>0, <1>2
  <2> HIDE DEF t
  <2>3. b + Base * t = s
    BY <1>0, <1>2, <1>3
  <2> HIDE DEF s
  <2>4. a + Base * s = n
    BY <1>0, <1>2, <1>3
  <2> HIDE DEF n
  <2> QED
    BY <2>1, <2>2, <2>3, <2>4
<1>5. /\ n % Base = a /\ n \div Base = s
      /\ s % Base = b /\ s \div Base = t
      /\ t % Base = c /\ t \div Base = d
  <2>1. t % Base = c /\ t \div Base = d
    BY ONLY <1>0, <1>2
  <2> HIDE DEF t
  <2>2. s % Base = b /\ s \div Base = t
    BY ONLY <1>0, <1>2, <1>3
  <2> HIDE DEF s
  <2>3. n % Base = a /\ n \div Base = s
    BY ONLY <1>0, <1>2, <1>3
  <2> QED
    BY <2>1, <2>2, <2>3
<1>6. d % Base = d
  BY <1>0, <1>2
<1>7. n < WordRange
  <2>1. Base * Base \in Nat /\ Base * Base * Base \in Nat
    BY <1>0
  <2>2. t < Base * Base
    <3>1. Base * d <= Base * (Base - 1)
      BY <1>0, <1>2
    <3> QED
      BY <1>0, <1>2, <3>1
  <2> HIDE DEF t
  <2>3. s < Base * Base * Base
    <3> DEFINE m == Base * Base
    <3>1. m \in Nat /\ t <= m - 1
      BY <1>3, <2>1, <2>2
    <3> HIDE DEF m
    <3>2. Base * t <= Base * (m - 1)
      BY <1>0, <1>3, <3>1
    <3>3. Base * (m - 1) = m * Base - Base
      BY <1>0, <3>1
    <3>4. m * Base \in Nat /\ Base * t \in Nat
      BY <1>0, <1>3, <3>1
    <3>5. s < m * Base
      BY <1>0, <1>2, <3>2, <3>3, <3>4
    <3> QED
      BY <3>5 DEF m
  <2> HIDE DEF s
  <2>4. n < Base * Base * Base * Base
    <3> DEFINE m == Base * Base * Base
    <3>1. m \in Nat /\ s <= m - 1
      BY <1>3, <2>1, <2>3
    <3> HIDE DEF m
    <3>2. Base * s <= Base * (m - 1)
      BY <1>0, <1>3, <3>1
    <3>3. Base * (m - 1) = m * Base - Base
      BY <1>0, <3>1
    <3>4. m * Base \in Nat /\ Base * s \in Nat
      BY <1>0, <1>3, <3>1
    <3>5. n < m * Base
      BY <1>0, <1>2, <3>2, <3>3, <3>4
    <3> QED
      BY <3>5 DEF m
  <2> QED
    BY <2>4 DEF WordRange
<1> HIDE DEF n, s, t
<1>8. Word(n) = <<a, b, c, d>>
  BY <1>5, <1>6 DEF Word
<1> QED
  BY <1>1, <1>3, <1>4, <1>7, <1>8

\* A part of a sequence.
LEMMA Part ==
    ASSUME NEW S, NEW s \in Seq(S), NEW a \in Nat \ {0}, NEW b \in Nat, a <= b + 1, b <= Len(s)
    PROVE  /\ SubSeq(s, a, b) \in Seq(S) /\ Len(SubSeq(s, a, b)) = b - a + 1
           /\ \A i \in 1 .. b - a + 1 : SubSeq(s, a, b)[i] = s[a - 1 + i]
<1>1. /\ a \in Int /\ b \in Int /\ (a <= b => a <= b) /\ (~(a <= b) => b - a + 1 = 0)
      /\ \A i \in 1 .. b - a + 1 : a + i - 1 = a - 1 + i
  OBVIOUS
<1>2. \A i \in a .. b : s[i] \in S
  OBVIOUS
<1>3. /\ SubSeq(s, a, b) \in Seq(S)
      /\ Len(SubSeq(s, a, b)) = IF a <= b THEN b - a + 1 ELSE 0
      /\ \A i \in 1 .. b - a + 1 : SubSeq(s, a, b)[i] = s[a + i - 1]
  BY ONLY <1>1, <1>2, SubSeqProperties
<1> QED
  BY ONLY <1>1, <1>3

\* Halves of a number.
LEMMA Halves ==
    ASSUME NEW s \in Nat \ {0}
    PROVE  /\ s \div 2 \in Nat /\ (s - 1) \div 2 \in Nat
           /\ s \div 2 + (s - 1) \div 2 = s - 1
OBVIOUS

\* The epoch is a timestamp.
LEMMA ZeroStamp == 0 \in Stamps
<1> DEFINE S == StampRange
<1>1. S \in Nat \ {0}
  BY Constants
<1>2. S \div 2 \in Nat /\ (S - 1) \div 2 \in Nat
  BY ONLY <1>1, Halves
<1>3. 0 \in -(S \div 2) .. (S - 1) \div 2
  BY ONLY <1>2
<1> QED
  BY <1>3 DEF Stamps

\* Four digits after four.
LEMMA FourAndFour ==
    ASSUME NEW a \in Seq(Digits), NEW b \in Seq(Digits), Len(a) = 4, Len(b) = 4
    PROVE  /\ a \o b \in Seq(Digits) /\ Len(a \o b) = 8
           /\ SubSeq(a \o b, 1, 4) = a /\ SubSeq(a \o b, 5, 8) = b
<1> DEFINE w == a \o b
<1>1. w \in Seq(Digits) /\ Len(w) = 8 /\ \A i \in 1 .. 8 : w[i] = IF i <= 4 THEN a[i] ELSE b[i - 4]
  <2>1. w \in Seq(Digits) /\ Len(w) = Len(a) + Len(b)
        /\ \A i \in 1 .. Len(a) + Len(b) : w[i] = IF i <= Len(a) THEN a[i] ELSE b[i - Len(a)]
    BY ONLY a \in Seq(Digits), b \in Seq(Digits), ConcatProperties
  <2>2. Len(a) + Len(b) = 8 /\ Len(a) = 4
    OBVIOUS
  <2> QED
    BY ONLY <2>1, <2>2
<1>2. SubSeq(a, 1, 4) = a /\ SubSeq(b, 1, 4) = b
  BY SubSeqFull
<1>3. SubSeq(a \o b, 1, 4) = SubSeq(a, 1, 4)
  <2>1. 1 \in 1 .. Len(a) /\ 4 \in 1 .. Len(a)
    OBVIOUS
  <2> QED
    BY ONLY a \in Seq(Digits), b \in Seq(Digits), <2>1, SubSeqOfConcat1
<1>4. SubSeq(a \o b, 5, 8) = SubSeq(b, 5 - Len(a), 8 - Len(a))
  <2>1. 5 \in Len(a) + 1 .. Len(a) + Len(b) /\ 8 \in Len(a) + 1 .. Len(a) + Len(b)
    OBVIOUS
  <2> QED
    BY ONLY a \in Seq(Digits), b \in Seq(Digits), <2>1, SubSeqOfConcat2
<1>5. 5 - Len(a) = 1 /\ 8 - Len(a) = 4
  OBVIOUS
<1> QED
  BY ONLY <1>1, <1>2, <1>3, <1>4, <1>5

\* Eight digits are four and four.
LEMMA EightDigits ==
    ASSUME NEW d \in Seq(Digits), Len(d) = 8
    PROVE  /\ SubSeq(d, 1, 4) \in Seq(Digits) /\ Len(SubSeq(d, 1, 4)) = 4
           /\ SubSeq(d, 5, 8) \in Seq(Digits) /\ Len(SubSeq(d, 5, 8)) = 4
           /\ SubSeq(d, 1, 4) \o SubSeq(d, 5, 8) = d
<1>1. SubSeq(d, 1, 4) \in Seq(Digits) /\ Len(SubSeq(d, 1, 4)) = 4
  BY Part
<1>2. SubSeq(d, 5, 8) \in Seq(Digits) /\ Len(SubSeq(d, 5, 8)) = 4
  <2>1. 5 \in Nat \ {0} /\ 8 \in Nat /\ 5 <= 8 + 1 /\ 8 <= Len(d)
    OBVIOUS
  <2>2. SubSeq(d, 5, 8) \in Seq(Digits) /\ Len(SubSeq(d, 5, 8)) = 8 - 5 + 1
    BY ONLY d \in Seq(Digits), <2>1, Part
  <2> QED
    BY ONLY <2>2
<1>3. SubSeq(d, 1, 4) \o SubSeq(d, 4 + 1, 8) = SubSeq(d, 1, 8)
  <2>1. 1 \in 1 .. Len(d) + 1 /\ 4 \in 1 - 1 .. Len(d) /\ 8 \in 4 .. Len(d)
    OBVIOUS
  <2> QED
    BY ONLY <2>1, d \in Seq(Digits), ConcatAdjacentSubSeq
<1>4. SubSeq(d, 1, 8) = d
  BY SubSeqFull
<1> QED
  BY <1>1, <1>2, <1>3, <1>4

\* A timestamp has eight digits, and they say what it is.
LEMMA StampIs ==
    ASSUME NEW st \in Stamps
    PROVE  StampDigits(st) \in Seq(Digits) /\ Len(StampDigits(st)) = 8 /\ StampOf(StampDigits(st)) = st
<1> DEFINE S == StampRange
           W == WordRange
           n == st % S
           lo == n % W
           hi == n \div W
<1>0. S \in Nat \ {0} /\ W \in Nat \ {0} /\ S = W * W
  BY Constants DEF StampRange
<1>1. st \in -(S \div 2) .. (S - 1) \div 2 /\ st \in Int
  <2>1. Stamps = -(S \div 2) .. (S - 1) \div 2
    BY DEF Stamps
  <2> QED
    BY <2>1
<1>2. StampDigits(st) = Word(lo) \o Word(hi)
  BY DEF StampDigits
<1>3. StampOf(Word(lo) \o Word(hi)) =
        LET m == Number(SubSeq(Word(lo) \o Word(hi), 1, 4)) + W * Number(SubSeq(Word(lo) \o Word(hi), 5, 8))
        IN  IF m > (S - 1) \div 2 THEN m - S ELSE m
  BY DEF StampOf
<1> HIDE DEF S, W
<1>4. n \in 0 .. S - 1
  BY ONLY <1>0, <1>1, DivMod
<1> HIDE DEF n
<1>5. hi \in Nat /\ lo \in 0 .. W - 1 /\ n = W * hi + lo /\ hi < W
  <2>1. n \in Nat /\ W \in Nat /\ n < W * W
    BY ONLY <1>0, <1>4
  <2> QED
    BY ONLY <1>0, <2>1, DivNat, DivSmall
<1> HIDE DEF lo, hi
<1>6. /\ Word(lo) \in Seq(Digits) /\ Len(Word(lo)) = 4 /\ Number(Word(lo)) = lo
      /\ Word(hi) \in Seq(Digits) /\ Len(Word(hi)) = 4 /\ Number(Word(hi)) = hi
  BY <1>0, <1>5, WordIs DEF W
<1>7. ASSUME NEW a \in Seq(Digits), NEW b \in Seq(Digits), Len(a) = 4, Len(b) = 4
      PROVE  /\ a \o b \in Seq(Digits) /\ Len(a \o b) = 8
             /\ SubSeq(a \o b, 1, 4) = a /\ SubSeq(a \o b, 5, 8) = b
  BY ONLY <1>7, FourAndFour
<1>8. /\ Word(lo) \o Word(hi) \in Seq(Digits) /\ Len(Word(lo) \o Word(hi)) = 8
      /\ SubSeq(Word(lo) \o Word(hi), 1, 4) = Word(lo)
      /\ SubSeq(Word(lo) \o Word(hi), 5, 8) = Word(hi)
  BY ONLY <1>6, <1>7
<1>9. lo + W * hi = n
  BY ONLY <1>0, <1>5
<1>10. StampOf(Word(lo) \o Word(hi)) = IF n > (S - 1) \div 2 THEN n - S ELSE n
  BY ONLY <1>3, <1>6, <1>8, <1>9
<1>11. (IF n > (S - 1) \div 2 THEN n - S ELSE n) = st
  <2> DEFINE h == S \div 2
             g == (S - 1) \div 2
  <2>1. h \in Nat /\ g \in Nat /\ h + g = S - 1
    BY ONLY <1>0, Halves
  <2>2. st \in -h .. g
    BY <1>1
  <2> HIDE DEF h, g
  <2>3. CASE st >= 0
    <3>1. st < S
      BY <1>0, <1>1, <2>1, <2>2
    <3>2. n = st
      <4>1. st \in 0 .. S - 1 /\ S * 0 + st = st
        BY <1>0, <1>1, <2>3, <3>1
      <4>2. (S * 0 + st) % S = st
        BY ONLY <1>0, <4>1, ModIs
      <4> QED
        BY ONLY <4>1, <4>2 DEF n
    <3> QED
      BY <1>0, <1>1, <2>1, <2>2, <3>2 DEF g
  <2>4. CASE st < 0
    <3>1. n = st + S
      <4>1. st + S \in 0 .. S - 1 /\ S * (-1) + (st + S) = st /\ -1 \in Int
        BY <1>0, <1>1, <2>1, <2>2, <2>4
      <4>2. (S * (-1) + (st + S)) % S = st + S
        BY ONLY <1>0, <4>1, ModIs
      <4> QED
        BY ONLY <4>1, <4>2 DEF n
    <3>2. n > g /\ n - S = st
      BY <1>0, <1>1, <2>1, <2>2, <2>4, <3>1
    <3> QED
      BY <3>2 DEF g
  <2> QED
    BY <1>1, <2>3, <2>4
<1> QED
  BY ONLY <1>2, <1>8, <1>10, <1>11

\* Eight digits are a timestamp, and its digits are these.
LEMMA StampOfIs ==
    ASSUME NEW d \in Seq(Digits), Len(d) = 8
    PROVE  StampOf(d) \in Stamps /\ StampDigits(StampOf(d)) = d
<1> DEFINE S == StampRange
           W == WordRange
           a == SubSeq(d, 1, 4)
           b == SubSeq(d, 5, 8)
           lo == Number(a)
           hi == Number(b)
           m == lo + W * hi
           st == IF m > (S - 1) \div 2 THEN m - S ELSE m
<1>0. S \in Nat \ {0} /\ W \in Nat \ {0} /\ S = W * W
  BY Constants DEF StampRange
<1>1. a \in Seq(Digits) /\ Len(a) = 4 /\ b \in Seq(Digits) /\ Len(b) = 4 /\ a \o b = d
  BY EightDigits
<1>2. StampOf(d) = st
  BY DEF StampOf
<1>3. StampDigits(st) = Word((st % S) % W) \o Word((st % S) \div W)
  BY DEF StampDigits
<1>4. Stamps = -(S \div 2) .. (S - 1) \div 2
  BY DEF Stamps
<1> HIDE DEF a, b
<1>5. /\ lo \in Nat /\ lo < W /\ Word(lo) = a
      /\ hi \in Nat /\ hi < W /\ Word(hi) = b
  BY <1>1, NumberIs
<1> HIDE DEF S, W, lo, hi
<1>6. m \in 0 .. S - 1
  <2>1. W * hi \in Nat /\ W * hi <= W * (W - 1)
    BY ONLY <1>0, <1>5
  <2>2. W * (W - 1) = W * W - W /\ W * W \in Nat
    BY ONLY <1>0
  <2> DEFINE x == W * hi
             y == W * W
  <2>3. x \in Nat /\ y \in Nat /\ x <= y - W /\ S = y
    BY ONLY <1>0, <2>1, <2>2
  <2> HIDE DEF x, y
  <2>4. lo + x \in 0 .. S - 1
    BY ONLY <1>0, <1>5, <2>3
  <2> QED
    BY ONLY <2>4 DEF x
<1>7. m % W = lo /\ m \div W = hi
  <2>1. W * hi + lo = m
    BY ONLY <1>0, <1>5
  <2>2. hi \in Int /\ lo \in 0 .. W - 1
    BY ONLY <1>0, <1>5
  <2>3. (W * hi + lo) % W = lo /\ (W * hi + lo) \div W = hi
    BY ONLY <1>0, <2>2, ModIs
  <2> QED
    BY ONLY <2>1, <2>3
<1> HIDE DEF m
<1>8. st \in -(S \div 2) .. (S - 1) \div 2 /\ st % S = m
  <2> DEFINE h == S \div 2
             g == (S - 1) \div 2
  <2>1. h \in Nat /\ g \in Nat /\ h + g = S - 1
    BY ONLY <1>0, Halves
  <2>2. st = IF m > g THEN m - S ELSE m
    OBVIOUS
  <2> HIDE DEF h, g, st
  <2>3. CASE m > g
    <3>1. st \in -h .. g
      BY ONLY <1>0, <1>6, <2>1, <2>2, <2>3
    <3>2. S * (-1) + m = st
      BY ONLY <1>0, <1>6, <2>2, <2>3
    <3>3. (S * (-1) + m) % S = m
      BY ONLY <1>0, <1>6, ModIs
    <3> QED
      BY <3>1, <3>2, <3>3 DEF h, g
  <2>4. CASE ~(m > g)
    <3>1. st \in -h .. g
      BY ONLY <1>0, <1>6, <2>1, <2>2, <2>4
    <3>2. S * 0 + m = st
      BY ONLY <1>0, <1>6, <2>2, <2>4
    <3>3. (S * 0 + m) % S = m
      BY ONLY <1>0, <1>6, ModIs
    <3> QED
      BY <3>1, <3>2, <3>3 DEF h, g
  <2> QED
    BY <2>3, <2>4
<1> HIDE DEF st
<1>9. StampDigits(st) = d
  BY ONLY <1>1, <1>3, <1>5, <1>7, <1>8
<1> QED
  BY ONLY <1>2, <1>4, <1>8, <1>9

-----------------------------------------------------------------------------
(* What is where in a sequence of bytes.                                     *)

Bytes == Seq(Digits)

\* w is in s, after the first pos bytes.
Has(s, pos, w) ==
    /\ pos + Len(w) <= Len(s)
    /\ \A i \in 1 .. Len(w) : s[pos + i] = w[i]

\* v is the beginning of s.
Begins(v, s) == Len(v) <= Len(s) /\ \A i \in 1 .. Len(v) : s[i] = v[i]

\* An output that ends with the bytes it has.
Out(v) == At(v, Len(v))

\* Appending.
LEMMA HasCat ==
    ASSUME NEW v \in Bytes, NEW w \in Bytes
    PROVE  /\ v \o w \in Bytes /\ Len(v \o w) = Len(v) + Len(w)
           /\ Begins(v, v \o w) /\ Has(v \o w, Len(v), w)
<1> DEFINE x == v \o w
<1>1. x \in Seq(Digits) /\ Len(x) = Len(v) + Len(w)
      /\ \A i \in 1 .. Len(v) + Len(w) : x[i] = IF i <= Len(v) THEN v[i] ELSE w[i - Len(v)]
  BY ConcatProperties DEF Bytes
<1>2. Len(v) \in Nat /\ Len(w) \in Nat
  BY DEF Bytes
<1> HIDE DEF x
<1>3. Begins(v, x)
  BY <1>1, <1>2 DEF Begins
<1>4. Has(x, Len(v), w)
  <2>1. ASSUME NEW i \in 1 .. Len(w) PROVE x[Len(v) + i] = w[i]
    <3>1. Len(v) + i \in 1 .. Len(v) + Len(w) /\ ~(Len(v) + i <= Len(v)) /\ Len(v) + i - Len(v) = i
      BY <1>2
    <3> QED
      BY <1>1, <3>1
  <2> QED
    BY <1>1, <1>2, <2>1 DEF Has
<1> QED
  BY <1>1, <1>3, <1>4 DEF x, Bytes

\* What a beginning has, the whole has.
LEMMA HasBegins ==
    ASSUME NEW v \in Bytes, NEW s \in Bytes, NEW w \in Bytes, NEW pos \in Nat,
           Begins(v, s), Has(v, pos, w)
    PROVE  Has(s, pos, w)
<1>1. Len(v) \in Nat /\ Len(w) \in Nat /\ Len(s) \in Nat
  BY DEF Bytes
<1>2. ASSUME NEW i \in 1 .. Len(w) PROVE s[pos + i] = w[i]
  <2>1. pos + i \in 1 .. Len(v)
    BY <1>1 DEF Has
  <2> QED
    BY <2>1 DEF Has, Begins
<1> QED
  BY <1>1, <1>2 DEF Has, Begins

\* What begins the beginning begins the whole.
LEMMA BeginsTrans ==
    ASSUME NEW u \in Bytes, NEW v \in Bytes, NEW w \in Bytes, Begins(u, v), Begins(v, w)
    PROVE  Begins(u, w)
BY DEF Begins, Bytes

\* Everything begins itself.
LEMMA BeginsSelf == \A v \in Bytes : Begins(v, v)
BY DEF Begins, Bytes

\* The first p bytes.
LEMMA UptoIs ==
    ASSUME NEW s \in Bytes, NEW p \in 0 .. Len(s)
    PROVE  SubSeq(s, 1, p) \in Bytes /\ Len(SubSeq(s, 1, p)) = p
           /\ \A i \in 1 .. p : SubSeq(s, 1, p)[i] = s[i]
<1>1. 1 \in Nat \ {0} /\ p \in Nat /\ 1 <= p + 1 /\ p <= Len(s) /\ s \in Seq(Digits)
  BY DEF Bytes
<1>2. /\ SubSeq(s, 1, p) \in Seq(Digits) /\ Len(SubSeq(s, 1, p)) = p - 1 + 1
      /\ \A i \in 1 .. p - 1 + 1 : SubSeq(s, 1, p)[i] = s[1 - 1 + i]
  BY ONLY <1>1, Part
<1> QED
  BY ONLY <1>1, <1>2 DEF Bytes

\* The bytes up to what follows, and what follows.
LEMMA UptoGrows ==
    ASSUME NEW s \in Bytes, NEW p \in 0 .. Len(s), NEW w \in Bytes, Has(s, p, w)
    PROVE  SubSeq(s, 1, p) \o w = SubSeq(s, 1, p + Len(w)) /\ p + Len(w) \in 0 .. Len(s)
<1> DEFINE v == SubSeq(s, 1, p)
           q == p + Len(w)
           x == v \o w
           y == SubSeq(s, 1, q)
<1>1. v \in Bytes /\ Len(v) = p /\ \A i \in 1 .. p : v[i] = s[i]
  BY UptoIs
<1>2. q \in 0 .. Len(s) /\ Len(w) \in Nat
  BY DEF Has, Bytes
<1> HIDE DEF q
<1>3. y \in Bytes /\ Len(y) = q /\ \A i \in 1 .. q : y[i] = s[i]
  BY <1>2, UptoIs
<1> HIDE DEF v, y
<1>4. x \in Seq(Digits) /\ Len(x) = Len(v) + Len(w)
      /\ \A i \in 1 .. Len(v) + Len(w) : x[i] = IF i <= Len(v) THEN v[i] ELSE w[i - Len(v)]
  BY <1>1, ConcatProperties DEF Bytes
<1> HIDE DEF x
<1>5. ASSUME NEW i \in 1 .. Len(x) PROVE x[i] = y[i]
  <2>1. CASE i <= p
    BY <1>1, <1>2, <1>3, <1>4, <2>1 DEF q
  <2>2. CASE ~(i <= p)
    <3>1. i - p \in 1 .. Len(w) /\ p + (i - p) = i /\ i \in 1 .. q
      BY <1>1, <1>2, <1>4, <2>2 DEF q
    <3>2. s[p + (i - p)] = w[i - p]
      BY <3>1 DEF Has
    <3> QED
      BY <1>1, <1>3, <1>4, <2>2, <3>1, <3>2 DEF q
  <2> QED
    BY <2>1, <2>2
<1>6. x = y
  BY <1>1, <1>2, <1>3, <1>4, <1>5, SeqEqual DEF q, Bytes
<1> QED
  BY <1>2, <1>6 DEF v, q, x, y

-----------------------------------------------------------------------------
(* Reading: what is there is read, and what is read is there.                *)

\* A field with its length.
HasField(s, pos, b) == Has(s, pos, Word(Len(b))) /\ Has(s, pos + 4, b)

\* Of the two kinds of results one is well.
LEMMA Results ==
    /\ \A v, p : At(v, p).ok /\ At(v, p).value = v /\ At(v, p).pos = p
    /\ \A kind : ~Fail(kind).ok
BY DEF At, Fail

\* A part that is there is taken.
LEMMA TakeHas ==
    ASSUME NEW s \in Bytes, Len(s) <= MaxBytes, NEW pos \in Nat, NEW w \in Bytes, Has(s, pos, w)
    PROVE  Take(s, pos, Len(w)) = At(w, pos + Len(w))
<1> DEFINE n == Len(w)
           x == SubSeq(s, pos + 1, pos + n)
<1>1. n \in Nat /\ pos + n <= Len(s) /\ Len(s) \in Nat /\ MaxBytes \in Nat
  BY Constants DEF Has, Bytes
<1>2. Take(s, pos, n) = At(x, pos + n)
  BY <1>1 DEF Take
<1>3. x = w
  <2> DEFINE a == pos + 1
             b == pos + n
  <2>1. a \in Nat \ {0} /\ b \in Nat /\ a <= b + 1 /\ b <= Len(s) /\ b - a + 1 = n
        /\ \A i \in 1 .. n : a - 1 + i = pos + i
    BY <1>1
  <2> HIDE DEF a, b
  <2>2. s \in Seq(Digits) /\ w \in Seq(Digits)
    BY DEF Bytes
  <2>3. /\ SubSeq(s, a, b) \in Seq(Digits) /\ Len(SubSeq(s, a, b)) = b - a + 1
        /\ \A i \in 1 .. b - a + 1 : SubSeq(s, a, b)[i] = s[a - 1 + i]
    BY ONLY <2>1, <2>2, Part
  <2>4. \A i \in 1 .. n : s[pos + i] = w[i]
    BY DEF Has
  <2> DEFINE y == SubSeq(s, a, b)
  <2>5. y \in Seq(Digits) /\ Len(y) = n /\ \A i \in 1 .. n : y[i] = w[i]
    BY ONLY <2>1, <2>3, <2>4
  <2> HIDE DEF y
  <2>6. y = w
    BY <2>2, <2>5, SeqEqual
  <2> QED
    BY <2>6 DEF y, a, b
<1> QED
  BY <1>2, <1>3

\* What taking n bytes gives, if it goes well.
Took(s, pos, n, r) ==
    /\ r.value \in Bytes /\ Len(r.value) = n /\ n <= MaxBytes
    /\ Has(s, pos, r.value) /\ r = At(r.value, pos + n) /\ pos + n <= Len(s)

\* What is taken is there.
LEMMA TakeIs ==
    ASSUME NEW s \in Bytes, NEW pos \in Nat, pos <= Len(s), NEW n \in Nat, Take(s, pos, n).ok
    PROVE  Took(s, pos, n, Take(s, pos, n))
<1> DEFINE a == pos + 1
           b == pos + n
           x == SubSeq(s, a, b)
<1>0. Len(s) \in Nat /\ MaxBytes \in Nat
  BY Constants DEF Bytes
<1>1. n <= MaxBytes /\ pos + n <= Len(s) /\ Take(s, pos, n) = At(x, pos + n)
  BY <1>0, Results DEF Take
<1>2. b - a + 1 = n /\ \A i \in 1 .. n : a - 1 + i = pos + i
  BY <1>0, <1>1
<1>3. s \in Seq(Digits) /\ a \in Nat \ {0} /\ b \in Nat /\ a <= b + 1 /\ b <= Len(s)
  BY <1>0, <1>1 DEF Bytes
<1> HIDE DEF a, b
<1>4. /\ SubSeq(s, a, b) \in Seq(Digits) /\ Len(SubSeq(s, a, b)) = b - a + 1
      /\ \A i \in 1 .. b - a + 1 : SubSeq(s, a, b)[i] = s[a - 1 + i]
  BY ONLY <1>3, Part
<1>5. x \in Bytes /\ Len(x) = n /\ \A i \in 1 .. n : x[i] = s[pos + i]
  BY ONLY <1>2, <1>4 DEF Bytes
<1> HIDE DEF x
<1>6. Has(s, pos, x)
  BY <1>1, <1>5 DEF Has
<1> QED
  BY <1>1, <1>5, <1>6, Results DEF Took

\* A word that is there is read.
LEMMA WordHas ==
    ASSUME NEW s \in Bytes, Len(s) <= MaxBytes, NEW pos \in Nat,
           NEW n \in Nat, n < WordRange, Has(s, pos, Word(n))
    PROVE  ReadWord(s, pos) = At(n, pos + 4)
<1>1. Word(n) \in Bytes /\ Len(Word(n)) = 4 /\ Number(Word(n)) = n
  BY WordIs DEF Bytes
<1>2. Take(s, pos, Len(Word(n))) = At(Word(n), pos + Len(Word(n)))
  BY <1>1, TakeHas
<1>3. Take(s, pos, 4) = At(Word(n), pos + 4)
  BY ONLY <1>1, <1>2
<1> QED
  BY <1>1, <1>3, Results DEF ReadWord

\* What reading a word gives, if it goes well.
GotWord(s, pos, r) ==
    /\ r.value \in Nat /\ r.value < WordRange
    /\ Has(s, pos, Word(r.value)) /\ r = At(r.value, pos + 4) /\ pos + 4 <= Len(s)

\* A word that is read is there.
LEMMA WordRead ==
    ASSUME NEW s \in Bytes, NEW pos \in Nat, pos <= Len(s), ReadWord(s, pos).ok
    PROVE  GotWord(s, pos, ReadWord(s, pos))
<1> DEFINE four == Take(s, pos, 4)
<1>1. four.ok /\ ReadWord(s, pos) = At(Number(four.value), four.pos)
  BY Results DEF ReadWord
<1>2. Took(s, pos, 4, four)
  BY <1>1, TakeIs
<1> HIDE DEF four
<1>3. four.value \in Seq(Digits) /\ Len(four.value) = 4 /\ four.pos = pos + 4 /\ pos + 4 <= Len(s)
      /\ Has(s, pos, four.value)
  BY <1>2, Results DEF Took, Bytes
<1>4. Number(four.value) \in Nat /\ Number(four.value) < WordRange /\ Word(Number(four.value)) = four.value
  BY <1>3, NumberIs
<1> QED
  BY <1>1, <1>3, <1>4, Results DEF GotWord

\* A field that is there is read.
LEMMA FieldHas ==
    ASSUME NEW s \in Bytes, Len(s) <= MaxBytes, NEW pos \in Nat, NEW b \in Bytes, HasField(s, pos, b)
    PROVE  ReadBytes(s, pos) = At(b, pos + 4 + Len(b)) /\ pos + 4 + Len(b) <= Len(s)
<1> DEFINE n == Len(b)
<1>1. n \in Nat /\ pos + 4 + n <= Len(s) /\ Len(s) \in Nat /\ MaxBytes \in Nat /\ MaxBytes < WordRange
  BY Constants DEF HasField, Has, Bytes
<1>2. n <= MaxBytes /\ n < WordRange /\ pos + 4 \in Nat /\ WordRange \in Nat
  BY <1>1, Constants
<1>3. ReadWord(s, pos) = At(n, pos + 4)
  <2> HIDE DEF n
  <2>1. Has(s, pos, Word(n))
    BY DEF HasField, n
  <2> QED
    BY <1>1, <1>2, <2>1, WordHas
<1>4. Take(s, pos + 4, n) = At(b, pos + 4 + n)
  <2> DEFINE p == pos + 4
  <2>1. p \in Nat /\ Has(s, p, b)
    BY DEF HasField
  <2> HIDE DEF p
  <2>2. Take(s, p, Len(b)) = At(b, p + Len(b))
    BY <2>1, TakeHas
  <2> QED
    BY <2>2 DEF p
<1> HIDE DEF n
<1>5. ReadBytes(s, pos) = Take(s, pos + 4, n)
  <2>1. ReadWord(s, pos).ok /\ ReadWord(s, pos).value = n /\ ReadWord(s, pos).pos = pos + 4
    BY <1>3, Results
  <2>2. ~(n > MaxBytes)
    BY <1>1, <1>2
  <2> QED
    BY <2>1, <2>2 DEF ReadBytes
<1> QED
  BY <1>1, <1>4, <1>5 DEF n

\* What reading a field gives, if it goes well.
GotField(s, pos, r) ==
    /\ r.value \in Bytes /\ Len(r.value) <= MaxBytes /\ HasField(s, pos, r.value)
    /\ r = At(r.value, pos + 4 + Len(r.value)) /\ r.pos = pos + 4 + Len(r.value)
    /\ pos + 4 + Len(r.value) <= Len(s)

\* A field that is read is there.
LEMMA FieldRead ==
    ASSUME NEW s \in Bytes, NEW pos \in Nat, pos <= Len(s), ReadBytes(s, pos).ok
    PROVE  GotField(s, pos, ReadBytes(s, pos))
<1> DEFINE len == ReadWord(s, pos)
<1>1. len.ok /\ ~(len.value > MaxBytes) /\ ReadBytes(s, pos) = Take(s, len.pos, len.value)
  BY Results DEF ReadBytes
<1>2. GotWord(s, pos, len)
  BY <1>1, WordRead
<1> HIDE DEF len
<1>3. len.value \in Nat /\ len.pos = pos + 4 /\ pos + 4 <= Len(s) /\ Has(s, pos, Word(len.value))
  BY <1>2, Results DEF GotWord
<1> DEFINE p == pos + 4
           n == len.value
           r == Take(s, p, n)
<1>4. p \in Nat /\ n \in Nat /\ p <= Len(s) /\ ReadBytes(s, pos) = r /\ r.ok
  BY <1>1, <1>3
<1>5. Took(s, p, n, r)
  <2> HIDE DEF p, n
  <2> QED
    BY <1>4, TakeIs
<1> HIDE DEF r
<1>6. r.value \in Bytes /\ Len(r.value) = n /\ n <= MaxBytes /\ Has(s, pos + 4, r.value)
      /\ r = At(r.value, pos + 4 + n) /\ pos + 4 + n <= Len(s)
  BY <1>5 DEF Took
<1> QED
  BY <1>3, <1>4, <1>6, Results DEF GotField, HasField

\* A text is bytes, none of them the last digit.
LEMMA TextsAre ==
    /\ Texts \subseteq Bytes
    /\ \A b \in Texts : IsUtf8(b)
    /\ \A b \in Bytes : IsUtf8(b) => b \in Texts
    /\ << >> \in Texts
<1>0. Base \in Nat /\ Base >= 4
  BY Constants
<1>1. 0 .. Base - 2 \subseteq Digits
  BY <1>0 DEF Digits
<1>2. ASSUME NEW b \in Texts PROVE b \in Bytes /\ IsUtf8(b)
  <2>1. b \in Seq(0 .. Base - 2)
    BY DEF Texts
  <2>2. DOMAIN b = 1 .. Len(b) /\ \A k \in 1 .. Len(b) : b[k] \in 0 .. Base - 2
    <3> DEFINE T == 0 .. Base - 2
    <3>1. b \in Seq(T)
      BY <2>1
    <3> HIDE DEF T
    <3> QED
      BY ONLY <3>1, ElementOfSeq, LenProperties DEF T
  <2>3. IsUtf8(b)
    BY <1>0, <2>2 DEF IsUtf8
  <2> QED
    BY <1>1, <2>1, <2>2, <2>3 DEF Bytes
<1>3. ASSUME NEW b \in Bytes, IsUtf8(b) PROVE b \in Texts
  <2>1. b \in Seq(Digits) /\ \A k \in 1 .. Len(b) : b[k] \in Digits /\ b[k] < Base - 1
    BY <1>3 DEF Bytes, IsUtf8
  <2>2. \A k \in 1 .. Len(b) : b[k] \in 0 .. Base - 2
    BY <1>0, <2>1 DEF Digits
  <2> DEFINE T == 0 .. Base - 2
             n == Len(b)
  <2>3. n \in Int /\ 1 \in Int /\ (\A k \in 1 .. n : b[k] \in T) /\ SubSeq(b, 1, n) = b
    BY <2>1, <2>2, SubSeqFull
  <2> HIDE DEF T, n
  <2>4. SubSeq(b, 1, n) \in Seq(T)
    BY ONLY <2>3, SubSeqProperties
  <2> QED
    BY <2>3, <2>4 DEF Texts, T
<1>4. << >> \in Texts
  BY DEF Texts
<1> QED
  BY <1>2, <1>3, <1>4

\* A string that is there is read.
LEMMA TextHas ==
    ASSUME NEW s \in Bytes, Len(s) <= MaxBytes, NEW pos \in Nat, NEW b \in Texts, Len(b) <= MaxString,
           HasField(s, pos, b)
    PROVE  ReadString(s, pos) = At(b, pos + 4 + Len(b)) /\ pos + 4 + Len(b) <= Len(s)
<1>1. b \in Bytes /\ IsUtf8(b)
  BY TextsAre
<1>2. ReadBytes(s, pos) = At(b, pos + 4 + Len(b)) /\ pos + 4 + Len(b) <= Len(s)
  BY <1>1, FieldHas
<1>3. Len(b) \in Nat /\ MaxString \in Nat
  BY <1>1, Constants DEF Bytes
<1> QED
  BY <1>1, <1>2, <1>3, Results DEF ReadString, AsString

\* What reading a string gives, if it goes well.
GotText(s, pos, r) ==
    /\ r.value \in Texts /\ Len(r.value) <= MaxString /\ HasField(s, pos, r.value)
    /\ r = At(r.value, pos + 4 + Len(r.value)) /\ r.pos = pos + 4 + Len(r.value)
    /\ pos + 4 + Len(r.value) <= Len(s)

\* A string that is read is there.
LEMMA TextRead ==
    ASSUME NEW s \in Bytes, NEW pos \in Nat, pos <= Len(s), ReadString(s, pos).ok
    PROVE  GotText(s, pos, ReadString(s, pos))
<1> DEFINE text == ReadBytes(s, pos)
<1>1. text.ok /\ ~(Len(text.value) > MaxString) /\ IsUtf8(text.value) /\ ReadString(s, pos) = text
  BY Results DEF ReadString, AsString
<1>2. GotField(s, pos, text)
  BY <1>1, FieldRead
<1> HIDE DEF text
<1>3. text.value \in Bytes /\ text.value \in Texts
  BY <1>1, <1>2, TextsAre DEF GotField
<1>4. Len(text.value) \in Nat /\ MaxString \in Nat
  BY <1>3, Constants DEF Bytes
<1> QED
  <2>1. Len(text.value) <= MaxString
    BY ONLY <1>1, <1>4
  <2> QED
    BY ONLY <1>1, <1>2, <1>3, <2>1 DEF GotField, GotText

-----------------------------------------------------------------------------
(* Entries.                                                                  *)

\* An entry that a payload of this kind may have, with fields within the limits.
EntryOf(tag, e) ==
    /\ e \in Entries /\ FieldsValid(e)
    /\ tag = "Blob" => e.name = << >> /\ e.stamp = 0

\* The fields of an entry, one after the other.
HasEntry(s, pos, tag, e) ==
    /\ HasField(s, pos, e.bytes)
    /\ HasField(s, pos + 4 + Len(e.bytes), e.type)
    /\ tag # "Blob" =>
          /\ HasField(s, pos + 8 + Len(e.bytes) + Len(e.type), e.name)
          /\ Has(s, pos + 12 + Len(e.bytes) + Len(e.type) + Len(e.name), StampDigits(e.stamp))

\* The fields of an entry.
LEMMA EntryFields ==
    ASSUME NEW e \in Entries
    PROVE  /\ e.bytes \in Bytes /\ e.type \in Texts /\ e.name \in Texts /\ e.stamp \in Stamps
           /\ e.type \in Bytes /\ e.name \in Bytes
           /\ StampDigits(e.stamp) \in Bytes /\ Len(StampDigits(e.stamp)) = 8
           /\ Len(e.bytes) \in Nat /\ Len(e.type) \in Nat /\ Len(e.name) \in Nat
           /\ e = Entry(e.bytes, e.type, e.name, e.stamp)
<1>1. e.bytes \in Bytes /\ e.type \in Texts /\ e.name \in Texts /\ e.stamp \in Stamps
      /\ e = Entry(e.bytes, e.type, e.name, e.stamp)
  BY DEF Entries, Entry, Bytes
<1>2. e.type \in Bytes /\ e.name \in Bytes
  BY <1>1, TextsAre
<1>3. StampDigits(e.stamp) \in Bytes /\ Len(StampDigits(e.stamp)) = 8
  BY <1>1, StampIs DEF Bytes
<1>4. \A b \in Bytes : Len(b) \in Nat
  BY DEF Bytes
<1> QED
  BY <1>1, <1>2, <1>3, <1>4

\* An entry that is there is read.
LEMMA EntryHas ==
    ASSUME NEW s \in Bytes, Len(s) <= MaxBytes, NEW pos \in Nat, NEW tag, NEW e, EntryOf(tag, e),
           HasEntry(s, pos, tag, e)
    PROVE  ReadEntry(s, pos, tag) = At(e, pos + BodyLen(tag, e)) /\ pos + BodyLen(tag, e) <= Len(s)
<1> DEFINE lb == Len(e.bytes)
           lt == Len(e.type)
           ln == Len(e.name)
           p2 == pos + 4 + lb
           p3 == p2 + 4 + lt
           p4 == p3 + 4 + ln
<1>1. /\ e.bytes \in Bytes /\ e.type \in Texts /\ e.name \in Texts /\ e.stamp \in Stamps
      /\ StampDigits(e.stamp) \in Bytes /\ Len(StampDigits(e.stamp)) = 8
      /\ lb \in Nat /\ lt \in Nat /\ ln \in Nat
      /\ e = Entry(e.bytes, e.type, e.name, e.stamp)
  BY EntryFields DEF EntryOf
<1>2. lt <= MaxString /\ ln <= MaxString
  BY DEF EntryOf, FieldsValid
<1>3. BodyLen(tag, e) = IF tag = "Blob" THEN lb + lt + 8 ELSE lb + lt + ln + 20
  BY DEF BodyLen
<1>4. pos + 8 + lb + lt = p3 /\ pos + 12 + lb + lt + ln = p4
      /\ p2 \in Nat /\ p3 \in Nat /\ p4 \in Nat
      /\ pos + (lb + lt + 8) = p3 /\ pos + (lb + lt + ln + 20) = p4 + 8
  <2>1. pos \in Nat /\ lb \in Nat /\ lt \in Nat /\ ln \in Nat
    BY <1>1
  <2> HIDE DEF lb, lt, ln
  <2> QED
    BY ONLY <2>1
<1>5. HasField(s, pos, e.bytes) /\ HasField(s, p2, e.type)
  BY DEF HasEntry
<1>6. tag # "Blob" => HasField(s, p3, e.name) /\ Has(s, p4, StampDigits(e.stamp))
  BY ONLY <1>4, HasEntry(s, pos, tag, e) DEF HasEntry
<1>7. ReadBytes(s, pos) = At(e.bytes, p2)
  BY <1>1, <1>5, FieldHas
<1> HIDE DEF p2
<1>8. ReadString(s, p2) = At(e.type, p3) /\ p3 <= Len(s)
  BY <1>1, <1>2, <1>4, <1>5, TextHas
<1> HIDE DEF p3
<1>9. CASE tag = "Blob"
  <2>1. ReadEntry(s, pos, tag) = At(Entry(e.bytes, e.type, << >>, 0), p3)
    BY <1>7, <1>8, <1>9, Results DEF ReadEntry
  <2>2. e.name = << >> /\ e.stamp = 0
    BY <1>9 DEF EntryOf
  <2> QED
    BY <1>1, <1>3, <1>4, <1>8, <1>9, <2>1, <2>2
<1>10. CASE tag # "Blob"
  <2>1. ReadString(s, p3) = At(e.name, p4) /\ p4 <= Len(s)
    BY <1>1, <1>2, <1>4, <1>6, <1>10, TextHas
  <2> HIDE DEF p4
  <2>2. Take(s, p4, 8) = At(StampDigits(e.stamp), p4 + 8)
    <3>1. Has(s, p4, StampDigits(e.stamp)) /\ p4 \in Nat
      BY <1>4, <1>6, <1>10
    <3>2. Take(s, p4, Len(StampDigits(e.stamp))) = At(StampDigits(e.stamp), p4 + Len(StampDigits(e.stamp)))
      BY <1>1, <3>1, TakeHas
    <3> QED
      BY <1>1, <3>2
  <2>3. StampOf(StampDigits(e.stamp)) = e.stamp
    BY <1>1, StampIs
  <2>4. p4 + 8 <= Len(s)
    BY <1>1, <1>6, <1>10 DEF Has
  <2>5. ReadEntry(s, pos, tag) = At(Entry(e.bytes, e.type, e.name, e.stamp), p4 + 8)
    BY <1>7, <1>8, <1>10, <2>1, <2>2, <2>3, Results DEF ReadEntry
  <2> QED
    BY <1>1, <1>3, <1>4, <1>10, <2>4, <2>5
<1> QED
  BY <1>9, <1>10

\* What reading an entry gives, if it goes well.
GotEntry(s, pos, tag, r) ==
    /\ EntryOf(tag, r.value) /\ HasEntry(s, pos, tag, r.value)
    /\ r = At(r.value, pos + BodyLen(tag, r.value)) /\ pos + BodyLen(tag, r.value) <= Len(s)

\* An entry that is read is there.
LEMMA EntryRead ==
    ASSUME NEW s \in Bytes, NEW pos \in Nat, pos <= Len(s), NEW tag, ReadEntry(s, pos, tag).ok
    PROVE  GotEntry(s, pos, tag, ReadEntry(s, pos, tag))
<1> DEFINE bytes == ReadBytes(s, pos)
           type == ReadString(s, bytes.pos)
           name == ReadString(s, type.pos)
           stamp == Take(s, name.pos, 8)
           e == ReadEntry(s, pos, tag).value
<1>1. ReadEntry(s, pos, tag) =
          IF ~bytes.ok THEN bytes
          ELSE IF ~type.ok THEN type
          ELSE IF tag = "Blob" THEN At(Entry(bytes.value, type.value, << >>, 0), type.pos)
          ELSE IF ~name.ok THEN name
          ELSE IF ~stamp.ok THEN stamp
          ELSE At(Entry(bytes.value, type.value, name.value, StampOf(stamp.value)), stamp.pos)
  BY DEF ReadEntry
<1>2. bytes.ok /\ type.ok
  BY <1>1
<1>3. GotField(s, pos, bytes)
  BY <1>2, FieldRead
<1> HIDE DEF bytes
<1> DEFINE lb == Len(bytes.value)
           lt == Len(type.value)
           p2 == pos + 4 + lb
           p3 == pos + 8 + lb + lt
<1>4. /\ bytes.value \in Seq(Digits) /\ lb <= MaxBytes /\ HasField(s, pos, bytes.value) /\ lb \in Nat
      /\ bytes.pos = p2 /\ p2 <= Len(s) /\ p2 \in Nat
  <2>1. bytes.value \in Bytes /\ lb <= MaxBytes /\ HasField(s, pos, bytes.value)
        /\ bytes.pos = p2 /\ p2 <= Len(s)
    BY ONLY <1>3 DEF GotField
  <2>2. bytes.value \in Seq(Digits) /\ lb \in Nat
    BY <2>1 DEF Bytes
  <2>3. p2 \in Nat
    <3> HIDE DEF lb
    <3> QED
      BY ONLY pos \in Nat, <2>2
  <2> QED
    BY ONLY <2>1, <2>2, <2>3
<1>5. GotText(s, bytes.pos, type)
  BY <1>2, <1>4, TextRead
<1> HIDE DEF type
<1>6. /\ type.value \in Texts /\ lt <= MaxString /\ HasField(s, p2, type.value) /\ lt \in Nat
      /\ type.pos = p3 /\ p3 <= Len(s) /\ p3 \in Nat
  <2>1. type.value \in Texts /\ lt <= MaxString /\ HasField(s, p2, type.value)
        /\ type.pos = p2 + 4 + lt /\ p2 + 4 + lt <= Len(s)
    <3>1. GotText(s, p2, type)
      BY ONLY <1>4, <1>5
    <3> HIDE DEF p2
    <3> QED
      BY ONLY <3>1 DEF GotText
  <2>2. lt \in Nat
    BY <2>1, TextsAre DEF Bytes
  <2>3. p2 + 4 + lt = p3 /\ p3 \in Nat
    <3>1. lb \in Nat /\ pos \in Nat
      BY <1>4
    <3> HIDE DEF lb, lt
    <3> QED
      BY ONLY <2>2, <3>1
  <2> QED
    BY ONLY <2>1, <2>2, <2>3
<1>7. MaxString \in Nat /\ << >> \in Texts /\ Len(<< >>) = 0
  BY Constants, TextsAre
<1>8. CASE tag = "Blob"
  <2>1. ReadEntry(s, pos, tag) = At(Entry(bytes.value, type.value, << >>, 0), p3)
    BY <1>1, <1>2, <1>6, <1>8
  <2>2. e = Entry(bytes.value, type.value, << >>, 0)
    BY <2>1, Results
  <2>3. 0 \in Stamps
    BY ZeroStamp
  <2> HIDE DEF e
  <2>4. e \in Entries /\ e.bytes = bytes.value /\ e.type = type.value /\ e.name = << >> /\ e.stamp = 0
    BY <1>4, <1>6, <1>7, <2>2, <2>3 DEF Entries, Entry
  <2>5. EntryOf(tag, e)
    BY <1>4, <1>6, <1>7, <2>4 DEF EntryOf, FieldsValid
  <2>6. HasEntry(s, pos, tag, e)
    BY <1>4, <1>6, <1>8, <2>4 DEF HasEntry
  <2>7. pos + BodyLen(tag, e) = p3
    <3>1. BodyLen(tag, e) = lb + lt + 8 /\ lb \in Nat /\ lt \in Nat /\ pos \in Nat
      BY <1>4, <1>6, <1>8, <2>4 DEF BodyLen
    <3> HIDE DEF lb, lt
    <3> QED
      BY ONLY <3>1
  <2>8. ReadEntry(s, pos, tag) = At(e, p3)
    BY <2>1, <2>2
  <2> QED
    <3> DEFINE r == ReadEntry(s, pos, tag)
    <3>1. r = At(e, p3) /\ r.value = e /\ p3 <= Len(s)
      BY <1>6, <2>8, Results
    <3> HIDE DEF r, p3
    <3>2. GotEntry(s, pos, tag, r)
      BY ONLY <2>5, <2>6, <2>7, <3>1 DEF GotEntry
    <3> QED
      BY <3>2 DEF r
<1>9. CASE tag # "Blob"
  <2>1. name.ok /\ stamp.ok
        /\ ReadEntry(s, pos, tag) =
              At(Entry(bytes.value, type.value, name.value, StampOf(stamp.value)), stamp.pos)
    BY <1>1, <1>2, <1>9
  <2>2. GotText(s, type.pos, name)
    BY <1>6, <2>1, TextRead
  <2> HIDE DEF name
  <2> DEFINE ln == Len(name.value)
             p4 == pos + 12 + lb + lt + ln
  <2>3. /\ name.value \in Texts /\ ln <= MaxString /\ HasField(s, p3, name.value) /\ ln \in Nat
        /\ name.pos = p4 /\ p4 <= Len(s) /\ p4 \in Nat
    <3>1. name.value \in Texts /\ ln <= MaxString /\ HasField(s, p3, name.value)
          /\ name.pos = p3 + 4 + ln /\ p3 + 4 + ln <= Len(s)
      <4>1. GotText(s, p3, name)
        BY ONLY <1>6, <2>2
      <4> HIDE DEF p3
      <4> QED
        BY ONLY <4>1 DEF GotText
    <3>2. ln \in Nat
      BY <3>1, TextsAre DEF Bytes
    <3>3. p3 + 4 + ln = p4 /\ p4 \in Nat
      <4>1. lb \in Nat /\ lt \in Nat /\ pos \in Nat
        BY <1>4, <1>6
      <4> HIDE DEF lb, lt, ln
      <4> QED
        BY ONLY <3>2, <4>1
    <3> QED
      BY ONLY <3>1, <3>2, <3>3
  <2>4. Took(s, p4, 8, stamp)
    BY <2>1, <2>3, TakeIs
  <2> HIDE DEF stamp
  <2>5. /\ stamp.value \in Seq(Digits) /\ Len(stamp.value) = 8 /\ Has(s, p4, stamp.value)
        /\ stamp.pos = p4 + 8 /\ p4 + 8 <= Len(s)
    <3> HIDE DEF p4
    <3> QED
      BY ONLY <2>4, Results DEF Took, Bytes
  <2>6. StampOf(stamp.value) \in Stamps /\ StampDigits(StampOf(stamp.value)) = stamp.value
    BY <2>5, StampOfIs
  <2>7. e = Entry(bytes.value, type.value, name.value, StampOf(stamp.value))
    BY <2>1, Results
  <2> HIDE DEF e
  <2>8. /\ e \in Entries /\ e.bytes = bytes.value /\ e.type = type.value /\ e.name = name.value
        /\ e.stamp = StampOf(stamp.value)
    BY <1>4, <1>6, <2>3, <2>6, <2>7 DEF Entries, Entry
  <2>9. EntryOf(tag, e)
    BY <1>4, <1>6, <1>9, <2>3, <2>8 DEF EntryOf, FieldsValid
  <2>10. HasEntry(s, pos, tag, e)
    BY <1>4, <1>6, <2>3, <2>5, <2>6, <2>8 DEF HasEntry
  <2>11. pos + BodyLen(tag, e) = p4 + 8
    <3>1. BodyLen(tag, e) = lb + lt + ln + 20 /\ lb \in Nat /\ lt \in Nat /\ ln \in Nat /\ pos \in Nat
      BY <1>4, <1>6, <1>9, <2>3, <2>8 DEF BodyLen
    <3> HIDE DEF lb, lt, ln
    <3> QED
      BY ONLY <3>1
  <2>12. ReadEntry(s, pos, tag) = At(e, p4 + 8)
    BY <2>1, <2>5, <2>7
  <2> QED
    <3> DEFINE r == ReadEntry(s, pos, tag)
               p5 == p4 + 8
    <3> HIDE DEF p4
    <3>1. r = At(e, p5) /\ r.value = e /\ p5 <= Len(s) /\ pos + BodyLen(tag, e) = p5
      BY <2>5, <2>11, <2>12, Results
    <3> HIDE DEF r, p5
    <3>2. GotEntry(s, pos, tag, r)
      BY ONLY <2>9, <2>10, <3>1 DEF GotEntry
    <3> QED
      BY <3>2 DEF r
<1> QED
  BY <1>8, <1>9

-----------------------------------------------------------------------------
(* Writing: the bytes up to a place, with what follows, are the bytes up to  *)
(* where that ends; and what is written is there.                            *)

\* The bytes up to a place, as an output.
Here(s, p) == At(SubSeq(s, 1, p), p)

\* Bytes that follow are written.
LEMMA PutHere ==
    ASSUME NEW s \in Bytes, Len(s) <= MaxBytes, NEW p \in 0 .. Len(s), NEW w \in Bytes, Has(s, p, w)
    PROVE  Put(Here(s, p), w) = Here(s, p + Len(w)) /\ p + Len(w) \in 0 .. Len(s)
<1> DEFINE q == p + Len(w)
           v == SubSeq(s, 1, p)
<1>1. v \o w = SubSeq(s, 1, q) /\ q \in 0 .. Len(s)
  BY UptoGrows
<1>2. Len(s) \in Nat /\ MaxBytes \in Nat
  BY Constants DEF Bytes
<1>3. ~(q > MaxBytes)
  <2> HIDE DEF q
  <2> QED
    BY <1>1, <1>2
<1>4. Here(s, p).ok /\ Here(s, p).value = v /\ Here(s, p).pos = p
  BY Results DEF Here
<1>5. Put(Here(s, p), w) = At(v \o w, q)
  BY <1>3, <1>4 DEF Put
<1> QED
  BY <1>1, <1>5 DEF Here

\* A word that follows is written.
LEMMA WordHere ==
    ASSUME NEW s \in Bytes, Len(s) <= MaxBytes, NEW p \in 0 .. Len(s), NEW n \in Nat, Has(s, p, Word(n))
    PROVE  PutWord(Here(s, p), n) = Here(s, p + 4) /\ p + 4 \in 0 .. Len(s)
<1>1. Word(n) \in Bytes /\ Len(Word(n)) = 4
  BY WordIs DEF Bytes
<1>2. SubSeq(s, 1, p) \o Word(n) = SubSeq(s, 1, p + 4) /\ p + 4 \in 0 .. Len(s)
  <2> DEFINE w == Word(n)
  <2>1. w \in Bytes /\ Len(w) = 4 /\ Has(s, p, w)
    BY <1>1
  <2> HIDE DEF w
  <2>2. SubSeq(s, 1, p) \o w = SubSeq(s, 1, p + Len(w)) /\ p + Len(w) \in 0 .. Len(s)
    BY ONLY <2>1, s \in Bytes, p \in 0 .. Len(s), UptoGrows
  <2> QED
    BY ONLY <2>1, <2>2 DEF w
<1>3. ~(p > MaxBytes)
  BY Constants DEF Bytes
<1>4. Here(s, p).ok /\ Here(s, p).value = SubSeq(s, 1, p) /\ Here(s, p).pos = p
  BY Results DEF Here
<1> QED
  BY <1>2, <1>3, <1>4 DEF PutWord, Here

\* A field that follows is written.
LEMMA FieldHere ==
    ASSUME NEW s \in Bytes, Len(s) <= MaxBytes, NEW p \in 0 .. Len(s), NEW b \in Bytes, HasField(s, p, b)
    PROVE  PutBytes(Here(s, p), b) = Here(s, p + 4 + Len(b)) /\ p + 4 + Len(b) \in 0 .. Len(s)
<1>0. Len(b) \in Nat
  BY DEF Bytes
<1>1. Has(s, p, Word(Len(b))) /\ Has(s, p + 4, b)
  BY DEF HasField
<1>2. PutWord(Here(s, p), Len(b)) = Here(s, p + 4) /\ p + 4 \in 0 .. Len(s)
  BY <1>0, <1>1, WordHere
<1> DEFINE q == p + 4
<1>3. q \in 0 .. Len(s) /\ Has(s, q, b) /\ PutWord(Here(s, p), Len(b)) = Here(s, q)
  BY <1>1, <1>2
<1> HIDE DEF q
<1>4. Put(Here(s, q), b) = Here(s, q + Len(b)) /\ q + Len(b) \in 0 .. Len(s)
  BY <1>3, PutHere
<1> QED
  BY <1>3, <1>4 DEF PutBytes, q

\* An entry that follows is written.
LEMMA EntryHere ==
    ASSUME NEW s \in Bytes, Len(s) <= MaxBytes, NEW p \in 0 .. Len(s), NEW tag, NEW e, EntryOf(tag, e),
           HasEntry(s, p, tag, e)
    PROVE  /\ PutEntry(Here(s, p), tag, e) = Here(s, p + BodyLen(tag, e))
           /\ p + BodyLen(tag, e) \in 0 .. Len(s)
<1> DEFINE lb == Len(e.bytes)
           lt == Len(e.type)
           ln == Len(e.name)
           p2 == p + 4 + lb
           p3 == p2 + 4 + lt
           p4 == p3 + 4 + ln
           p5 == p4 + 8
           d == StampDigits(e.stamp)
<1>1. /\ e.bytes \in Bytes /\ e.type \in Bytes /\ e.name \in Bytes
      /\ d \in Bytes /\ Len(d) = 8 /\ lb \in Nat /\ lt \in Nat /\ ln \in Nat
  BY EntryFields DEF EntryOf
<1>2. /\ p + 4 + lb = p2 /\ p + 8 + lb + lt = p3 /\ p + 12 + lb + lt + ln = p4
      /\ p + (lb + lt + 8) = p3 /\ p + (lb + lt + ln + 20) = p5
  <2>1. p \in Nat /\ lb \in Nat /\ lt \in Nat /\ ln \in Nat
    BY <1>1
  <2> HIDE DEF lb, lt, ln
  <2> QED
    BY ONLY <2>1
<1>3. HasField(s, p, e.bytes) /\ HasField(s, p2, e.type)
  BY ONLY <1>2, HasEntry(s, p, tag, e) DEF HasEntry
<1>4. tag # "Blob" => HasField(s, p3, e.name) /\ Has(s, p4, d)
  BY ONLY <1>2, HasEntry(s, p, tag, e) DEF HasEntry
<1>5. PutBytes(Here(s, p), e.bytes) = Here(s, p2) /\ p2 \in 0 .. Len(s)
  BY <1>1, <1>3, FieldHere
<1> HIDE DEF p2
<1>6. PutBytes(Here(s, p2), e.type) = Here(s, p3) /\ p3 \in 0 .. Len(s)
  BY <1>1, <1>3, <1>5, FieldHere
<1> HIDE DEF p3
<1>7. CASE tag = "Blob"
  <2>1. BodyLen(tag, e) = lb + lt + 8
    BY <1>7 DEF BodyLen
  <2> QED
    BY <1>2, <1>5, <1>6, <1>7, <2>1 DEF PutEntry
<1>8. CASE tag # "Blob"
  <2>1. PutBytes(Here(s, p3), e.name) = Here(s, p4) /\ p4 \in 0 .. Len(s)
    BY <1>1, <1>4, <1>6, <1>8, FieldHere
  <2> HIDE DEF p4
  <2>2. Put(Here(s, p4), d) = Here(s, p5) /\ p5 \in 0 .. Len(s)
    <3> HIDE DEF d
    <3>1. Put(Here(s, p4), d) = Here(s, p4 + Len(d)) /\ p4 + Len(d) \in 0 .. Len(s)
      BY <1>1, <1>4, <1>8, <2>1, PutHere
    <3> QED
      BY <1>1, <3>1
  <2>3. BodyLen(tag, e) = lb + lt + ln + 20
    BY <1>8 DEF BodyLen
  <2>4. PutEntry(Here(s, p), tag, e) = Put(PutBytes(PutBytes(PutBytes(Here(s, p), e.bytes), e.type), e.name), d)
    BY <1>8 DEF PutEntry
  <2> HIDE DEF p5, d
  <2> QED
    BY <1>2, <1>5, <1>6, <2>1, <2>2, <2>3, <2>4
<1> QED
  BY <1>7, <1>8

\* What an output is: bytes and their number, or a failure.
Outs == {Out(v) : v \in Bytes} \cup {Fail("LimitExceeded")}

\* Outputs are well, or have failed.
LEMMA OutsAre ==
    /\ \A v \in Bytes : Out(v) \in Outs /\ Out(v).ok /\ Out(v).value = v /\ Out(v).pos = Len(v)
    /\ \A out \in Outs : /\ out.ok => out.value \in Bytes /\ out = Out(out.value)
                         /\ ~out.ok => out = Fail("LimitExceeded")
BY Results DEF Outs, Out

\* Writing bytes.
LEMMA PutOk ==
    ASSUME NEW out \in Outs, NEW w \in Bytes
    PROVE  /\ Put(out, w) \in Outs
           /\ Put(out, w).ok => /\ out.ok /\ Put(out, w) = Out(out.value \o w)
                                /\ Len(out.value \o w) <= MaxBytes
<1>1. CASE ~out.ok
  BY <1>1 DEF Put
<1>2. CASE out.ok
  <2>1. out.value \in Bytes /\ out.pos = Len(out.value)
    BY <1>2, OutsAre
  <2> DEFINE v == out.value
             x == v \o w
             n == Len(v) + Len(w)
  <2>2. x \in Bytes /\ Len(x) = n /\ Len(v) \in Nat /\ Len(w) \in Nat
    BY <2>1, HasCat DEF Bytes
  <2>3. Put(out, w) = IF n > MaxBytes THEN Fail("LimitExceeded") ELSE At(x, n)
    BY <1>2, <2>1 DEF Put
  <2>4. n \in Nat /\ MaxBytes \in Nat
    BY <2>2, Constants
  <2>5. At(x, n) = Out(x)
    BY <2>2 DEF Out
  <2> HIDE DEF x, n, v
  <2>6. CASE n > MaxBytes
    BY <2>3, <2>6, Results DEF Outs
  <2>7. CASE n <= MaxBytes
    <3>1. Put(out, w) = Out(x)
      BY <2>3, <2>4, <2>5, <2>7
    <3> QED
      BY <1>2, <2>2, <2>7, <3>1, OutsAre DEF x, v
  <2> QED
    BY <2>4, <2>6, <2>7
<1> QED
  BY <1>1, <1>2

\* Writing a word.
LEMMA PutWordOk ==
    ASSUME NEW out \in Outs, NEW n \in Nat
    PROVE  /\ PutWord(out, n) \in Outs
           /\ PutWord(out, n).ok => out.ok /\ PutWord(out, n) = Out(out.value \o Word(n))
           /\ out.ok /\ Len(out.value) <= MaxBytes => PutWord(out, n).ok
<1>0. Word(n) \in Bytes /\ Len(Word(n)) = 4
  BY WordIs DEF Bytes
<1>1. CASE ~out.ok
  BY <1>1 DEF PutWord
<1>2. CASE out.ok
  <2>1. out.value \in Bytes /\ out.pos = Len(out.value) /\ Len(out.value) \in Nat /\ MaxBytes \in Nat
    BY <1>2, OutsAre, Constants DEF Bytes
  <2> DEFINE v == out.value
             x == v \o Word(n)
  <2>2. x \in Bytes /\ Len(x) = Len(v) + 4
    BY <1>0, <2>1, HasCat
  <2>3. PutWord(out, n) = IF Len(v) > MaxBytes THEN Fail("LimitExceeded") ELSE At(x, Len(v) + 4)
    BY <1>2, <2>1 DEF PutWord
  <2>4. At(x, Len(v) + 4) = Out(x)
    BY <2>2 DEF Out
  <2> HIDE DEF x, v
  <2>5. CASE Len(v) > MaxBytes
    BY <2>1, <2>3, <2>5, Results DEF Outs, v
  <2>6. CASE Len(v) <= MaxBytes
    <3>1. PutWord(out, n) = Out(x)
      BY <2>1, <2>3, <2>4, <2>6 DEF v
    <3> QED
      BY <1>2, <2>2, <3>1, OutsAre DEF x, v
  <2> QED
    BY <2>1, <2>5, <2>6 DEF v
<1> QED
  BY <1>1, <1>2

\* r is what out was, with more at its end.
Longer(out, r, n) ==
    /\ out.ok /\ r.value \in Bytes /\ r = Out(r.value) /\ Begins(out.value, r.value)
    /\ Len(r.value) = Len(out.value) + n

\* Writing a field.
LEMMA FieldOk ==
    ASSUME NEW out \in Outs, NEW b \in Bytes, NEW r, r = PutBytes(out, b)
    PROVE  /\ r \in Outs
           /\ r.ok => /\ Longer(out, r, 4 + Len(b)) /\ Len(r.value) <= MaxBytes
                      /\ HasField(r.value, Len(out.value), b)
<1> DEFINE n == Len(b)
           mid == PutWord(out, n)
<1>1. n \in Nat /\ Word(n) \in Bytes /\ Len(Word(n)) = 4
  BY WordIs DEF Bytes
<1>2. mid \in Outs /\ (mid.ok => out.ok /\ mid = Out(out.value \o Word(n)))
  BY <1>1, PutWordOk
<1>3. r = Put(mid, b)
  BY DEF PutBytes
<1>4. r \in Outs /\ (r.ok => mid.ok /\ r = Out(mid.value \o b) /\ Len(mid.value \o b) <= MaxBytes)
  <2> HIDE DEF mid
  <2> QED
    BY <1>2, <1>3, PutOk
<1>5. ASSUME r.ok
      PROVE  /\ Longer(out, r, 4 + Len(b)) /\ Len(r.value) <= MaxBytes
             /\ HasField(r.value, Len(out.value), b)
  <2> DEFINE v == out.value
             x == v \o Word(n)
             y == x \o b
  <2>1. out.ok /\ mid = Out(x) /\ v \in Bytes
    BY <1>2, <1>4, <1>5, OutsAre
  <2>2. x \in Bytes /\ Len(x) = Len(v) + 4 /\ Begins(v, x) /\ Has(x, Len(v), Word(n))
    <3> DEFINE w == Word(n)
    <3>1. w \in Bytes /\ Len(w) = 4 /\ v \in Bytes
      BY <1>1, <2>1
    <3> HIDE DEF w, v
    <3>2. /\ v \o w \in Bytes /\ Len(v \o w) = Len(v) + Len(w)
          /\ Begins(v, v \o w) /\ Has(v \o w, Len(v), w)
      BY ONLY <3>1, HasCat
    <3> QED
      BY <3>1, <3>2 DEF w
  <2>3. mid.value = x
    BY <2>1, <2>2, OutsAre
  <2>4. r = Out(y) /\ Len(y) <= MaxBytes
    BY <1>4, <1>5, <2>3
  <2> HIDE DEF x
  <2>5. y \in Bytes /\ Len(y) = Len(x) + n /\ Begins(x, y) /\ Has(y, Len(x), b)
    BY <2>2, HasCat
  <2>6. r.value = y
    BY <2>4, <2>5, OutsAre
  <2> HIDE DEF y, v, n
  <2>7. Begins(v, y)
    BY <2>1, <2>2, <2>5, BeginsTrans
  <2>8. Len(v) \in Nat
    BY <2>1 DEF Bytes
  <2>9. Has(y, Len(v), Word(n))
    BY <1>1, <2>2, <2>5, <2>8, HasBegins
  <2>10. HasField(y, Len(v), b)
    BY <2>2, <2>5, <2>9 DEF HasField, n
  <2>11. Len(y) = Len(v) + (4 + n)
    BY ONLY <1>1, <2>2, <2>5, <2>8
  <2>12. Longer(out, r, 4 + n)
    BY <2>1, <2>4, <2>5, <2>6, <2>7, <2>11 DEF Longer, v
  <2> QED
    BY <2>4, <2>6, <2>10, <2>12 DEF n, v
<1> QED
  BY <1>4, <1>5

\* Lengthening twice.
LEMMA LongerTwice ==
    ASSUME NEW a \in Outs, NEW b \in Outs, NEW c \in Outs, NEW m \in Nat, NEW n \in Nat,
           Longer(a, b, m), Longer(b, c, n)
    PROVE  /\ Longer(a, c, m + n)
           /\ a.value \in Bytes /\ b.value \in Bytes /\ c.value \in Bytes
           /\ Len(a.value) \in Nat /\ Len(b.value) = Len(a.value) + m
<1>1. a.value \in Bytes /\ b.value \in Bytes /\ c.value \in Bytes
  BY OutsAre DEF Longer
<1>2. Len(a.value) \in Nat
  BY <1>1 DEF Bytes
<1>3. Begins(a.value, c.value)
  BY <1>1, BeginsTrans DEF Longer
<1>4. Len(c.value) = Len(a.value) + (m + n)
  <2>1. Len(b.value) = Len(a.value) + m /\ Len(c.value) = Len(b.value) + n
    BY DEF Longer
  <2> DEFINE l == Len(a.value)
             k == Len(b.value)
             j == Len(c.value)
  <2>2. l \in Nat /\ k = l + m /\ j = k + n
    BY ONLY <1>2, <2>1
  <2> HIDE DEF l, k, j
  <2>3. j = l + (m + n)
    BY ONLY <2>2, m \in Nat, n \in Nat
  <2> QED
    BY <2>3 DEF l, j
<1> QED
  BY <1>1, <1>2, <1>3, <1>4 DEF Longer

\* A field that is there is there when more is written.
LEMMA FieldStays ==
    ASSUME NEW b \in Outs, NEW c \in Outs, NEW n \in Nat, Longer(b, c, n),
           NEW pos \in Nat, NEW w \in Bytes, HasField(b.value, pos, w)
    PROVE  HasField(c.value, pos, w)
<1>1. b.value \in Bytes /\ c.value \in Bytes /\ Begins(b.value, c.value)
  BY OutsAre DEF Longer
<1>2. Len(w) \in Nat /\ pos + 4 \in Nat
  BY DEF Bytes
<1>3. Word(Len(w)) \in Bytes
  BY <1>2, WordIs DEF Bytes
<1>4. Has(c.value, pos, Word(Len(w)))
  BY <1>1, <1>3, HasBegins DEF HasField
<1> DEFINE q == pos + 4
<1>5. q \in Nat /\ Has(b.value, q, w)
  BY <1>2 DEF HasField
<1> HIDE DEF q
<1>6. Has(c.value, q, w)
  BY <1>1, <1>5, HasBegins
<1> QED
  BY <1>4, <1>6 DEF HasField, q

\* Writing an entry.
LEMMA EntryOk ==
    ASSUME NEW out \in Outs, NEW tag, NEW e \in Entries, NEW r, r = PutEntry(out, tag, e)
    PROVE  /\ r \in Outs
           /\ r.ok => /\ Longer(out, r, BodyLen(tag, e)) /\ Len(r.value) <= MaxBytes
                      /\ HasEntry(r.value, Len(out.value), tag, e)
<1> DEFINE lb == Len(e.bytes)
           lt == Len(e.type)
           ln == Len(e.name)
           d == StampDigits(e.stamp)
           first == PutBytes(out, e.bytes)
           second == PutBytes(first, e.type)
           third == PutBytes(second, e.name)
           fourth == Put(third, d)
<1>1. /\ e.bytes \in Bytes /\ e.type \in Bytes /\ e.name \in Bytes
      /\ d \in Bytes /\ Len(d) = 8 /\ lb \in Nat /\ lt \in Nat /\ ln \in Nat
  BY EntryFields
<1>2. r = IF tag = "Blob" THEN second ELSE fourth
  BY DEF PutEntry
<1>3. BodyLen(tag, e) = IF tag = "Blob" THEN lb + lt + 8 ELSE lb + lt + ln + 20
  BY DEF BodyLen
<1>4. /\ first \in Outs
      /\ first.ok => /\ Longer(out, first, 4 + lb) /\ Len(first.value) <= MaxBytes
                     /\ HasField(first.value, Len(out.value), e.bytes)
  BY <1>1, FieldOk
<1> HIDE DEF first
<1>5. /\ second \in Outs
      /\ second.ok => /\ Longer(first, second, 4 + lt) /\ Len(second.value) <= MaxBytes
                      /\ HasField(second.value, Len(first.value), e.type)
  BY <1>1, <1>4, FieldOk
<1> HIDE DEF second
<1>6. ASSUME second.ok
      PROVE  /\ Longer(out, second, lb + lt + 8) /\ Len(out.value) \in Nat /\ second.value \in Bytes
             /\ HasField(second.value, Len(out.value), e.bytes)
             /\ HasField(second.value, Len(out.value) + 4 + lb, e.type)
  <2>1. first.ok
    BY <1>5, <1>6 DEF Longer
  <2>2. 4 + lb \in Nat /\ 4 + lt \in Nat
    BY <1>1
  <2> DEFINE m == 4 + lb
             k == 4 + lt
  <2>3. m \in Nat /\ k \in Nat /\ Longer(out, first, m) /\ Longer(first, second, k)
    BY <1>4, <1>5, <1>6, <2>1, <2>2
  <2> HIDE DEF m, k
  <2>4. /\ Longer(out, second, m + k) /\ Len(out.value) \in Nat /\ Len(first.value) = Len(out.value) + m
        /\ second.value \in Bytes
    BY <1>4, <1>5, <2>3, LongerTwice
  <2>5. HasField(second.value, Len(out.value), e.bytes)
    BY <1>1, <1>4, <1>5, <2>1, <2>3, <2>4, FieldStays
  <2>6. m + k = lb + lt + 8 /\ Len(out.value) + m = Len(out.value) + 4 + lb
    <3> HIDE DEF lb, lt
    <3> QED
      BY ONLY <1>1, <2>4 DEF m, k
  <2> QED
    BY <1>5, <1>6, <2>4, <2>5, <2>6
<1>7. CASE tag = "Blob"
  BY <1>2, <1>3, <1>5, <1>6, <1>7 DEF HasEntry
<1>8. CASE tag # "Blob"
  <2>1. /\ third \in Outs
        /\ third.ok => /\ Longer(second, third, 4 + ln) /\ Len(third.value) <= MaxBytes
                       /\ HasField(third.value, Len(second.value), e.name)
    BY <1>1, <1>5, FieldOk
  <2> HIDE DEF third
  <2>2. /\ fourth \in Outs
        /\ fourth.ok => /\ third.ok /\ fourth = Out(third.value \o d)
                        /\ Len(third.value \o d) <= MaxBytes
    <3> HIDE DEF d
    <3> QED
      BY <1>1, <2>1, PutOk
  <2>3. ASSUME fourth.ok
        PROVE  /\ Longer(out, fourth, lb + lt + ln + 20) /\ Len(fourth.value) <= MaxBytes
               /\ HasEntry(fourth.value, Len(out.value), tag, e)
    <3>1. third.ok /\ third.value \in Bytes
      BY <2>1, <2>2, <2>3, OutsAre
    <3> DEFINE y == third.value \o d
    <3>2. y \in Bytes /\ Len(y) = Len(third.value) + 8 /\ Begins(third.value, y)
          /\ Has(y, Len(third.value), d) /\ fourth = Out(y) /\ Len(y) <= MaxBytes
      <4> DEFINE u == third.value
      <4>1. u \in Bytes /\ d \in Bytes /\ Len(d) = 8
        BY <1>1, <3>1
      <4> HIDE DEF d, u
      <4>2. /\ u \o d \in Bytes /\ Len(u \o d) = Len(u) + Len(d)
            /\ Begins(u, u \o d) /\ Has(u \o d, Len(u), d)
        BY ONLY <4>1, HasCat
      <4> QED
        BY <2>2, <2>3, <4>1, <4>2 DEF u
    <3> HIDE DEF y
    <3>3. fourth.value = y
      BY <3>2, OutsAre
    <3>4. Longer(third, fourth, 8)
      BY <3>1, <3>2, <3>3 DEF Longer
    <3>5. second.ok
      BY <2>1, <3>1 DEF Longer
    <3> DEFINE m == lb + lt + 8
               k == 4 + ln
               p3 == Len(out.value) + m
    <3>6. /\ m \in Nat /\ k \in Nat /\ 8 \in Nat /\ Longer(out, second, m) /\ Longer(second, third, k)
          /\ HasField(third.value, Len(second.value), e.name)
      <4>1. Longer(out, second, m) /\ Longer(second, third, k) /\ HasField(third.value, Len(second.value), e.name)
        BY <1>6, <2>1, <3>1, <3>5
      <4>2. m \in Nat /\ k \in Nat
        <5> HIDE DEF lb, lt, ln
        <5> QED
          BY ONLY <1>1
      <4> QED
        BY <4>1, <4>2
    <3> HIDE DEF fourth, m, k
    <3>7. Longer(out, third, m + k) /\ Len(second.value) = Len(out.value) + m /\ Len(out.value) \in Nat
      BY <1>5, <2>1, <3>6, LongerTwice
    <3>8. /\ Longer(out, fourth, (m + k) + 8) /\ Len(third.value) = Len(out.value) + (m + k)
      <4> DEFINE j == m + k
      <4>1. j \in Nat /\ Longer(out, third, j) /\ 8 \in Nat
        BY <3>6, <3>7
      <4> HIDE DEF j
      <4>2. Longer(out, fourth, j + 8) /\ Len(third.value) = Len(out.value) + j
        BY ONLY out \in Outs, <2>1, <2>2, <3>4, <4>1, LongerTwice
      <4> QED
        BY <4>2 DEF j
    <3>9. Longer(second, fourth, k + 8)
      BY <1>5, <2>1, <2>2, <3>4, <3>6, LongerTwice
    <3>10. /\ HasField(fourth.value, Len(out.value), e.bytes)
           /\ HasField(fourth.value, Len(out.value) + 4 + lb, e.type)
      <4> DEFINE p2 == Len(out.value) + 4 + lb
      <4>1. p2 \in Nat /\ k + 8 \in Nat
        <5> DEFINE l == Len(out.value)
        <5>1. l \in Nat /\ lb \in Nat /\ k \in Nat
          BY <1>1, <3>6, <3>7
        <5> HIDE DEF l, lb
        <5>2. l + 4 + lb \in Nat /\ k + 8 \in Nat
          BY ONLY <5>1
        <5> QED
          BY <5>2 DEF l
      <4>2. HasField(second.value, Len(out.value), e.bytes) /\ HasField(second.value, p2, e.type)
        BY <1>6, <3>5
      <4> HIDE DEF p2
      <4> QED
        BY <1>1, <1>5, <2>2, <3>7, <3>9, <4>1, <4>2, FieldStays DEF p2
    <3>11. HasField(fourth.value, p3, e.name)
      <4>1. p3 \in Nat /\ Len(second.value) = p3
        BY <3>6, <3>7
      <4> HIDE DEF p3
      <4> QED
        BY <1>1, <2>1, <2>2, <3>4, <3>6, <4>1, FieldStays
    <3>12. Has(fourth.value, Len(third.value), d)
      BY <3>2, <3>3
    <3>13. /\ p3 = Len(out.value) + 8 + lb + lt
           /\ Len(third.value) = Len(out.value) + 12 + lb + lt + ln
           /\ (m + k) + 8 = lb + lt + ln + 20
      <4> DEFINE l == Len(out.value)
                 t == Len(third.value)
      <4>1. l \in Nat /\ t = l + (m + k) /\ lb \in Nat /\ lt \in Nat /\ ln \in Nat
        BY ONLY <1>1, <3>7, <3>8
      <4> HIDE DEF lb, lt, ln, l, t
      <4>2. l + m = l + 8 + lb + lt /\ t = l + 12 + lb + lt + ln /\ (m + k) + 8 = lb + lt + ln + 20
        BY ONLY <4>1 DEF m, k
      <4> QED
        BY ONLY <4>2 DEF l, t
    <3>14. HasEntry(fourth.value, Len(out.value), tag, e)
      <4> HIDE DEF p3
      <4> QED
        BY ONLY <3>10, <3>11, <3>12, <3>13 DEF HasEntry
    <3> QED
      BY <3>2, <3>3, <3>8, <3>13, <3>14
  <2> QED
    BY <1>2, <1>3, <1>8, <2>2, <2>3
<1> QED
  BY <1>7, <1>8

-----------------------------------------------------------------------------
(* Lists: what the recursive definitions say of a list with one entry more.  *)

\* A function that follows the steps is the beginning of an iteration.
LEMMA Follows ==
    ASSUME NEW S, NEW x \in S, NEW n \in Nat, NEW step \in [Nat -> [S -> S]], NEW f,
           f = [k \in 0 .. n |-> f[k]], f[0] = x,
           \A k \in 1 .. n : f[k - 1] \in S => f[k] = step[k][f[k - 1]]
    PROVE  Prefix(f, S, x, step, n)
<1> DEFINE A == {k \in Nat : k <= n => f[k] \in S}
<1>1. 0 \in A
  OBVIOUS
<1>2. ASSUME NEW k \in Nat, k \in A PROVE k + 1 \in A
  <2> SUFFICES ASSUME k + 1 <= n PROVE f[k + 1] \in S
    OBVIOUS
  <2>1. f[k] \in S /\ k + 1 \in 1 .. n /\ (k + 1) - 1 = k
    BY <1>2
  <2>2. f[k + 1] = step[k + 1][f[k]]
    BY <2>1
  <2> QED
    BY <2>1, <2>2
<1> HIDE DEF A
<1>3. \A k \in Nat : k \in A
  BY <1>1, <1>2, Induction
<1>4. \A k \in 0 .. n : f[k] \in S
  BY <1>3 DEF A
<1>5. f \in [0 .. n -> S]
  BY <1>4
<1>6. ASSUME NEW k \in 1 .. n PROVE f[k] = step[k][f[k - 1]]
  <2>1. k - 1 \in 0 .. n
    OBVIOUS
  <2>2. f[k - 1] \in S
    BY <1>4, <2>1
  <2> QED
    BY <2>2
<1> QED
  BY <1>5, <1>6 DEF Prefix

\* One step more.
LEMMA OneMore ==
    ASSUME NEW S, NEW x, NEW n \in Nat, NEW step, NEW other, NEW g, NEW f,
           Prefix(g, S, x, step, n), Prefix(f, S, x, other, n + 1), Agree(step, other, n)
    PROVE  g[n] \in S /\ f[n + 1] = other[n + 1][g[n]]
<1> DEFINE m == n + 1
<1>1. m \in Nat /\ n <= n /\ n <= m /\ Prefix(f, S, x, other, m)
  OBVIOUS
<1> HIDE DEF m
<1>2. \A k \in Nat : k <= n /\ k <= m => g[k] = f[k]
  <2>1. ASSUME NEW p, NEW q, NEW a, NEW b, Prefix(p, S, x, a, n), Prefix(q, S, x, b, m), Agree(a, b, n)
        PROVE  \A k \in Nat : k <= n /\ k <= m => p[k] = q[k]
    BY ONLY <1>1, <2>1, n \in Nat, PrefixUnique
  <2> QED
    BY ONLY <1>1, <2>1, Prefix(g, S, x, step, n), Agree(step, other, n)
<1>3. g[n] = f[n]
  BY <1>1, <1>2
<1>4. f[n + 1] = other[n + 1][f[n]] /\ g[n] \in S
  BY DEF Prefix
<1> QED
  BY <1>3, <1>4

Lists == Seq(Entries)

\* A list with one entry more.
LEMMA ListMore ==
    ASSUME NEW es \in Lists, NEW e \in Entries
    PROVE  /\ Append(es, e) \in Lists /\ Len(es) \in Nat /\ Len(Append(es, e)) = Len(es) + 1
           /\ \A k \in 1 .. Len(es) : Append(es, e)[k] = es[k]
           /\ Append(es, e)[Len(es) + 1] = e
BY AppendProperties DEF Lists

\* A list that is not empty has one entry more than another.
LEMMA ListLess ==
    ASSUME NEW es \in Lists, NEW n \in Nat, Len(es) = n + 1
    PROVE  \E fs \in Lists : Len(fs) = n /\ es[n + 1] \in Entries /\ es = Append(fs, es[n + 1])
<1> DEFINE fs == SubSeq(es, 1, n)
           e == es[n + 1]
<1>1. 1 \in Nat \ {0} /\ 1 <= n + 1 /\ n <= Len(es) /\ es \in Seq(Entries)
  BY DEF Lists
<1>2. /\ SubSeq(es, 1, n) \in Seq(Entries) /\ Len(SubSeq(es, 1, n)) = n - 1 + 1
      /\ \A i \in 1 .. n - 1 + 1 : SubSeq(es, 1, n)[i] = es[1 - 1 + i]
  BY ONLY <1>1, n \in Nat, Part
<1>3. fs \in Lists /\ Len(fs) = n /\ \A i \in 1 .. n : fs[i] = es[i]
  BY ONLY <1>2, n \in Nat DEF Lists
<1> HIDE DEF fs
<1>4. e \in Entries
  BY <1>1
<1> HIDE DEF e
<1>5. Append(fs, e) \in Lists /\ Len(Append(fs, e)) = n + 1
      /\ (\A k \in 1 .. n : Append(fs, e)[k] = fs[k]) /\ Append(fs, e)[n + 1] = e
  BY <1>3, <1>4, ListMore
<1>6. \A k \in 1 .. n + 1 : es[k] = Append(fs, e)[k]
  <2>1. ASSUME NEW k \in 1 .. n + 1 PROVE es[k] = Append(fs, e)[k]
    <3>1. CASE k = n + 1
      BY <1>5, <3>1 DEF e
    <3>2. CASE k # n + 1
      <4>1. k \in 1 .. n
        BY <3>2
      <4> QED
        BY <1>3, <1>5, <4>1
    <3> QED
      BY <3>1, <3>2
  <2> QED
    BY <2>1
<1>7. es = Append(fs, e)
  <2> DEFINE a == Append(fs, e)
  <2>1. a \in Seq(Entries) /\ Len(es) = Len(a) /\ \A k \in 1 .. Len(es) : es[k] = a[k]
    BY <1>5, <1>6 DEF Lists
  <2> HIDE DEF a
  <2>2. es = a
    BY ONLY <1>1, <2>1, SeqEqual
  <2> QED
    BY <2>2 DEF a
<1> QED
  BY <1>3, <1>4, <1>7 DEF e

\* The steps of writing.
PutSteps(tag, es) ==
    [k \in Nat |-> [y \in Outs |-> IF k \in 1 .. Len(es) THEN PutEntry(y, tag, es[k]) ELSE y]]

\* f is what writing the entries of a list has made, after each of them.
Puts(f, out, tag, es) ==
    Prefix(f, Outs, out, PutSteps(tag, es), Len(es)) /\ PutEntries(out, tag, es) = f[Len(es)]

\* Writing a list goes step by step.
LEMMA PutEntriesWalk ==
    ASSUME NEW out \in Outs, NEW tag, NEW es \in Lists
    PROVE  PutSteps(tag, es) \in [Nat -> [Outs -> Outs]] /\ \E f : Puts(f, out, tag, es)
<1> DEFINE n == Len(es)
           step == PutSteps(tag, es)
           R(f) == f = [k \in 0 .. n |-> IF k = 0 THEN out ELSE PutEntry(f[k - 1], tag, es[k])]
           after == CHOOSE f : R(f)
<1>1. n \in Nat /\ \A k \in 1 .. n : es[k] \in Entries
  BY DEF Lists
<1>2. \A k \in Nat, y \in Outs : step[k][y] = IF k \in 1 .. n THEN PutEntry(y, tag, es[k]) ELSE y
  BY DEF PutSteps
<1>3. step \in [Nat -> [Outs -> Outs]]
  <2>1. \A k \in 1 .. n, y \in Outs : PutEntry(y, tag, es[k]) \in Outs
    BY <1>1, EntryOk
  <2> QED
    BY <2>1 DEF PutSteps
<1> HIDE DEF step, n
<1>4. PICK g : Prefix(g, Outs, out, step, n)
  BY <1>1, <1>3, PrefixExists
<1>5. g[0] = out /\ \A k \in 1 .. n : g[k - 1] \in Outs /\ g[k] = PutEntry(g[k - 1], tag, es[k])
  <2>1. g \in [0 .. n -> Outs] /\ g[0] = out /\ \A k \in 1 .. n : g[k] = step[k][g[k - 1]]
    BY <1>4 DEF Prefix
  <2>2. ASSUME NEW k \in 1 .. n PROVE g[k - 1] \in Outs /\ g[k] = PutEntry(g[k - 1], tag, es[k])
    <3>1. k - 1 \in 0 .. n /\ k \in Nat
      BY <1>1
    <3> QED
      BY <1>2, <2>1, <3>1
  <2> QED
    BY <2>1, <2>2
<1>6. R(g)
  <2>1. g = [k \in 0 .. n |-> g[k]]
    BY <1>4 DEF Prefix
  <2>2. \A k \in 0 .. n : g[k] = IF k = 0 THEN out ELSE PutEntry(g[k - 1], tag, es[k])
    <3>1. \A k \in 0 .. n : k # 0 => k \in 1 .. n
      BY <1>1
    <3> QED
      BY ONLY <1>5, <3>1
  <2> QED
    BY ONLY <2>1, <2>2
<1>7. R(after)
  BY ONLY <1>6
<1>8. PutEntries(out, tag, es) = after[n]
  BY DEF PutEntries, n
<1> HIDE DEF after
<1>9. Prefix(after, Outs, out, step, n)
  <2>1. DOMAIN after = 0 .. n /\ after = [k \in 0 .. n |-> after[k]]
    BY <1>7
  <2>2. after[0] = out
    BY <1>1, <1>7
  <2>3. \A k \in 1 .. n : after[k - 1] \in Outs => after[k] = step[k][after[k - 1]]
    <3>1. ASSUME NEW k \in 1 .. n, after[k - 1] \in Outs PROVE after[k] = step[k][after[k - 1]]
      <4>1. k \in 0 .. n /\ k # 0 /\ k \in Nat
        BY <1>1
      <4>2. after[k] = PutEntry(after[k - 1], tag, es[k])
        BY <1>7, <4>1
      <4> QED
        BY <1>2, <3>1, <4>1, <4>2
    <3> QED
      BY <3>1
  <2> QED
    BY ONLY <1>1, <1>3, out \in Outs, <2>1, <2>2, <2>3, Follows
<1>10. Puts(after, out, tag, es)
  BY <1>8, <1>9 DEF Puts, step, n
<1> QED
  BY <1>3, <1>10 DEF step

\* No entries, and one more.
LEMMA PutEntriesIs ==
    ASSUME NEW out \in Outs, NEW tag, NEW es \in Lists
    PROVE  /\ PutEntries(out, tag, es) \in Outs
           /\ Len(es) = 0 => PutEntries(out, tag, es) = out
           /\ \A e \in Entries :
                 PutEntries(out, tag, Append(es, e)) = PutEntry(PutEntries(out, tag, es), tag, e)
<1> DEFINE n == Len(es)
<1>0. n \in Nat
  BY DEF Lists
<1>1. PICK g : Puts(g, out, tag, es)
  BY PutEntriesWalk
<1>2. Prefix(g, Outs, out, PutSteps(tag, es), n) /\ PutEntries(out, tag, es) = g[n]
  BY <1>1 DEF Puts
<1>3. PutEntries(out, tag, es) \in Outs /\ (n = 0 => PutEntries(out, tag, es) = out)
  BY <1>0, <1>2 DEF Prefix
<1>4. ASSUME NEW e \in Entries
      PROVE  PutEntries(out, tag, Append(es, e)) = PutEntry(PutEntries(out, tag, es), tag, e)
  <2> DEFINE fs == Append(es, e)
  <2>1. fs \in Lists /\ Len(fs) = n + 1 /\ (\A k \in 1 .. n : fs[k] = es[k]) /\ fs[n + 1] = e
    BY ListMore
  <2> HIDE DEF fs, n
  <2>2. PICK f : Puts(f, out, tag, fs)
    BY <2>1, PutEntriesWalk
  <2>3. Prefix(f, Outs, out, PutSteps(tag, fs), n + 1) /\ PutEntries(out, tag, fs) = f[n + 1]
    BY <2>1, <2>2 DEF Puts
  <2>4. Agree(PutSteps(tag, es), PutSteps(tag, fs), n)
    <3>1. ASSUME NEW k \in 1 .. n PROVE PutSteps(tag, es)[k] = PutSteps(tag, fs)[k]
      <4>1. k \in Nat /\ k \in 1 .. Len(es) /\ k \in 1 .. Len(fs) /\ fs[k] = es[k]
        BY <1>0, <2>1 DEF n
      <4> QED
        BY <4>1 DEF PutSteps
    <3> QED
      BY <3>1 DEF Agree
  <2>5. g[n] \in Outs /\ f[n + 1] = PutSteps(tag, fs)[n + 1][g[n]]
    BY ONLY <1>0, <1>2, <2>3, <2>4, OneMore
  <2>6. n + 1 \in Nat /\ n + 1 \in 1 .. Len(fs)
    BY <1>0, <2>1
  <2>7. f[n + 1] = PutEntry(g[n], tag, e)
    BY <2>1, <2>5, <2>6 DEF PutSteps
  <2> QED
    BY <1>2, <2>3, <2>7 DEF fs
<1> QED
  BY <1>3, <1>4

\* The length of an entry.
LEMMA BodyLenIs ==
    ASSUME NEW tag, NEW e \in Entries
    PROVE  BodyLen(tag, e) \in Nat /\ (tag # "Blob" => BodyLen(tag, e) >= 20)
<1> DEFINE lb == Len(e.bytes)
           lt == Len(e.type)
           ln == Len(e.name)
<1>1. lb \in Nat /\ lt \in Nat /\ ln \in Nat
  BY EntryFields
<1>2. BodyLen(tag, e) = IF tag = "Blob" THEN lb + lt + 8 ELSE lb + lt + ln + 20
  BY DEF BodyLen
<1> HIDE DEF lb, lt, ln
<1> QED
  BY <1>1, <1>2

\* What the entries of a list take.
Total(tag, es) == TotalLen(Payload(tag, es))

\* The steps of adding up.
AddSteps(tag, es) ==
    [k \in Nat |-> [y \in Nat |-> IF k \in 1 .. Len(es) THEN y + BodyLen(tag, es[k]) ELSE y]]

\* f is the sum after each of the entries.
Adds(f, tag, es) ==
    Prefix(f, Nat, 12, AddSteps(tag, es), Len(es)) /\ Total(tag, es) = f[Len(es)]

\* Adding up goes step by step.
LEMMA TotalWalk ==
    ASSUME NEW tag, NEW es \in Lists
    PROVE  \E f : Adds(f, tag, es)
<1> DEFINE n == Len(es)
           step == AddSteps(tag, es)
           R(f) == f = [k \in 0 .. n |-> IF k = 0 THEN 12 ELSE f[k - 1] + BodyLen(tag, es[k])]
           total == CHOOSE f : R(f)
<1>1. n \in Nat /\ \A k \in 1 .. n : es[k] \in Entries
  BY DEF Lists
<1>2. \A k \in Nat, y \in Nat : step[k][y] = IF k \in 1 .. n THEN y + BodyLen(tag, es[k]) ELSE y
  BY DEF AddSteps
<1>3. step \in [Nat -> [Nat -> Nat]]
  <2>1. \A k \in 1 .. n, y \in Nat : y + BodyLen(tag, es[k]) \in Nat
    BY <1>1, BodyLenIs
  <2> QED
    BY <2>1 DEF AddSteps
<1>4. Total(tag, es) = total[n]
  BY DEF Total, TotalLen, Payload
<1> HIDE DEF step, n
<1>5. PICK g : Prefix(g, Nat, 12, step, n)
  <2>1. 12 \in Nat
    OBVIOUS
  <2> QED
    BY ONLY <1>1, <1>3, <2>1, PrefixExists
<1>6. g[0] = 12 /\ \A k \in 1 .. n : g[k - 1] \in Nat /\ g[k] = g[k - 1] + BodyLen(tag, es[k])
  <2>1. g \in [0 .. n -> Nat] /\ g[0] = 12 /\ \A k \in 1 .. n : g[k] = step[k][g[k - 1]]
    BY <1>5 DEF Prefix
  <2>2. ASSUME NEW k \in 1 .. n PROVE g[k - 1] \in Nat /\ g[k] = g[k - 1] + BodyLen(tag, es[k])
    <3>1. k - 1 \in 0 .. n /\ k \in Nat
      BY <1>1
    <3> QED
      BY <1>2, <2>1, <3>1
  <2> QED
    BY <2>1, <2>2
<1>7. R(g)
  <2>1. g = [k \in 0 .. n |-> g[k]]
    BY <1>5 DEF Prefix
  <2>2. \A k \in 0 .. n : g[k] = IF k = 0 THEN 12 ELSE g[k - 1] + BodyLen(tag, es[k])
    <3>1. \A k \in 0 .. n : k # 0 => k \in 1 .. n
      BY <1>1
    <3> QED
      BY ONLY <1>6, <3>1
  <2> QED
    BY ONLY <2>1, <2>2
<1>8. R(total)
  BY ONLY <1>7
<1> HIDE DEF total
<1>9. Prefix(total, Nat, 12, step, n)
  <2>1. total = [k \in 0 .. n |-> total[k]]
    BY <1>8
  <2>2. total[0] = 12 /\ 12 \in Nat
    BY <1>1, <1>8
  <2>3. \A k \in 1 .. n : total[k - 1] \in Nat => total[k] = step[k][total[k - 1]]
    <3>1. ASSUME NEW k \in 1 .. n, total[k - 1] \in Nat PROVE total[k] = step[k][total[k - 1]]
      <4>1. k \in 0 .. n /\ k # 0 /\ k \in Nat
        BY <1>1
      <4>2. total[k] = total[k - 1] + BodyLen(tag, es[k])
        BY <1>8, <4>1
      <4> QED
        BY <1>2, <3>1, <4>1, <4>2
    <3> QED
      BY <3>1
  <2> QED
    BY ONLY <1>1, <1>3, <2>1, <2>2, <2>3, Follows
<1>10. Adds(total, tag, es)
  BY <1>4, <1>9 DEF Adds, step, n
<1> QED
  BY <1>10

\* No entries, and one more.
LEMMA TotalIs ==
    ASSUME NEW tag, NEW es \in Lists
    PROVE  /\ Total(tag, es) \in Nat
           /\ Len(es) = 0 => Total(tag, es) = 12
           /\ \A e \in Entries : Total(tag, Append(es, e)) = Total(tag, es) + BodyLen(tag, e)
<1> DEFINE n == Len(es)
<1>0. n \in Nat
  BY DEF Lists
<1>1. PICK g : Adds(g, tag, es)
  BY TotalWalk
<1>2. Prefix(g, Nat, 12, AddSteps(tag, es), n) /\ Total(tag, es) = g[n]
  BY <1>1 DEF Adds
<1>3. Total(tag, es) \in Nat /\ (n = 0 => Total(tag, es) = 12)
  BY <1>0, <1>2 DEF Prefix
<1>4. ASSUME NEW e \in Entries
      PROVE  Total(tag, Append(es, e)) = Total(tag, es) + BodyLen(tag, e)
  <2> DEFINE fs == Append(es, e)
  <2>1. fs \in Lists /\ Len(fs) = n + 1 /\ (\A k \in 1 .. n : fs[k] = es[k]) /\ fs[n + 1] = e
    BY ListMore
  <2> HIDE DEF fs, n
  <2>2. PICK f : Adds(f, tag, fs)
    BY <2>1, TotalWalk
  <2>3. Prefix(f, Nat, 12, AddSteps(tag, fs), n + 1) /\ Total(tag, fs) = f[n + 1]
    BY <2>1, <2>2 DEF Adds
  <2>4. Agree(AddSteps(tag, es), AddSteps(tag, fs), n)
    <3>1. ASSUME NEW k \in 1 .. n PROVE AddSteps(tag, es)[k] = AddSteps(tag, fs)[k]
      <4>1. k \in Nat /\ k \in 1 .. Len(es) /\ k \in 1 .. Len(fs) /\ fs[k] = es[k]
        BY <1>0, <2>1 DEF n
      <4> QED
        BY <4>1 DEF AddSteps
    <3> QED
      BY <3>1 DEF Agree
  <2>5. g[n] \in Nat /\ f[n + 1] = AddSteps(tag, fs)[n + 1][g[n]]
    BY ONLY <1>0, <1>2, <2>3, <2>4, OneMore
  <2>6. n + 1 \in Nat /\ n + 1 \in 1 .. Len(fs)
    BY <1>0, <2>1
  <2>7. f[n + 1] = g[n] + BodyLen(tag, e)
    BY <2>1, <2>5, <2>6 DEF AddSteps
  <2> QED
    BY <1>2, <2>3, <2>7 DEF fs
<1> QED
  BY <1>3, <1>4

Fails == {Fail("Malformed"), Fail("LimitExceeded")}

\* Reading goes well, or fails.
LEMMA ReadFails ==
    ASSUME NEW s, NEW pos, NEW tag, ~ReadEntry(s, pos, tag).ok
    PROVE  ReadEntry(s, pos, tag) \in Fails
<1>1. \A p, n : ~Take(s, p, n).ok => Take(s, p, n) \in Fails
  BY Results DEF Take, Fails
<1>2. \A p : ~ReadWord(s, p).ok => ReadWord(s, p) \in Fails
  BY <1>1, Results DEF ReadWord
<1>3. \A p : ~ReadBytes(s, p).ok => ReadBytes(s, p) \in Fails
  BY <1>1, <1>2, Results DEF ReadBytes, Fails
<1>4. \A p : ~ReadString(s, p).ok => ReadString(s, p) \in Fails
  BY <1>3, Results DEF ReadString, AsString, Fails
<1> QED
  BY <1>1, <1>3, <1>4, Results DEF ReadEntry

\* What reading a list has after each of the entries: those of a list of this
\* kind and a place in the input, or a failure.
Gots(s, tag) ==
    {r \in {At(es, p) : es \in Lists, p \in 0 .. Len(s)} :
         \A k \in 1 .. Len(r.value) : EntryOf(tag, r.value[k])}
    \cup Fails

\* What the two kinds of results of a list are.
LEMMA GotsAre ==
    ASSUME NEW s, NEW tag
    PROVE  /\ \A r \in Gots(s, tag) : r.ok =>
                 /\ r.value \in Lists /\ r.pos \in 0 .. Len(s) /\ r = At(r.value, r.pos)
                 /\ \A k \in 1 .. Len(r.value) : EntryOf(tag, r.value[k])
           /\ \A r \in Fails : r \in Gots(s, tag) /\ ~r.ok
           /\ \A es \in Lists, p \in 0 .. Len(s) :
                 (\A k \in 1 .. Len(es) : EntryOf(tag, es[k])) => At(es, p) \in Gots(s, tag)
BY Results DEF Gots, Fails

\* Reading one entry more.
LEMMA ReadNextIs ==
    ASSUME NEW s \in Bytes, NEW tag, NEW y \in Gots(s, tag)
    PROVE  ReadNext(s, y, tag) \in Gots(s, tag)
<1> DEFINE r == ReadEntry(s, y.pos, tag)
<1>1. CASE ~y.ok
  BY <1>1 DEF ReadNext, With
<1>2. CASE y.ok /\ ~r.ok
  <2>1. ReadNext(s, y, tag) = r
    BY <1>2 DEF ReadNext, With
  <2> QED
    BY <1>2, <2>1, ReadFails, GotsAre
<1>3. CASE y.ok /\ r.ok
  <2>1. y.value \in Lists /\ y.pos \in 0 .. Len(s) /\ \A k \in 1 .. Len(y.value) : EntryOf(tag, y.value[k])
    BY <1>3, GotsAre
  <2>2. Len(s) \in Nat
    BY DEF Bytes
  <2>3. GotEntry(s, y.pos, tag, r)
    BY <1>3, <2>1, <2>2, EntryRead
  <2>4. ReadNext(s, y, tag) = At(Append(y.value, r.value), r.pos)
    BY <1>3 DEF ReadNext, With
  <2> HIDE DEF r
  <2> DEFINE p == y.pos + BodyLen(tag, r.value)
             e == r.value
             es == y.value
  <2>5. r = At(r.value, p) /\ EntryOf(tag, r.value) /\ p <= Len(s)
    BY ONLY <2>3 DEF GotEntry
  <2>6. r.value \in Entries
    BY <2>5 DEF EntryOf
  <2>7. p \in 0 .. Len(s)
    <3>1. BodyLen(tag, r.value) \in Nat
      BY <2>6, BodyLenIs
    <3> QED
      BY <2>1, <2>2, <2>5, <3>1
  <2> HIDE DEF p
  <2>8. r.pos = p
    BY ONLY <2>5, Results
  <2> HIDE DEF e, es
  <2>9. es \in Lists /\ e \in Entries /\ EntryOf(tag, e) /\ \A k \in 1 .. Len(es) : EntryOf(tag, es[k])
    BY <2>1, <2>5, <2>6 DEF e, es
  <2> DEFINE fs == Append(es, e)
  <2>10. /\ fs \in Lists /\ Len(es) \in Nat /\ Len(fs) = Len(es) + 1
         /\ (\A k \in 1 .. Len(es) : fs[k] = es[k]) /\ fs[Len(es) + 1] = e
    BY <2>9, ListMore
  <2>11. ASSUME NEW k \in 1 .. Len(fs) PROVE EntryOf(tag, fs[k])
    <3>1. k \in 1 .. Len(es) \/ k = Len(es) + 1
      BY <2>10
    <3> QED
      BY <2>9, <2>10, <3>1
  <2> HIDE DEF fs
  <2>12. At(fs, p) \in Gots(s, tag)
    BY <2>7, <2>10, <2>11, GotsAre
  <2> QED
    BY <2>4, <2>8, <2>12 DEF fs, e, es
<1> QED
  BY <1>1, <1>2, <1>3

\* The steps of reading.
ReadSteps(s, tag) == [k \in Nat |-> [y \in Gots(s, tag) |-> ReadNext(s, y, tag)]]

\* f is what reading has made, after each of the entries.
Walks(f, s, pos, tag, n) ==
    /\ Prefix(f, Gots(s, tag), At(<< >>, pos), ReadSteps(s, tag), n)
    /\ ReadEntries(s, pos, tag, n) = f[n]

\* Reading begins with nothing.
LEMMA ReadBegins ==
    ASSUME NEW s \in Bytes, NEW pos \in 0 .. Len(s), NEW tag
    PROVE  At(<< >>, pos) \in Gots(s, tag)
<1>1. << >> \in Lists /\ \A k \in 1 .. Len(<< >>) : EntryOf(tag, << >>[k])
  BY DEF Lists
<1> QED
  BY <1>1, GotsAre

\* Reading a list goes step by step.
LEMMA ReadWalk ==
    ASSUME NEW s \in Bytes, NEW pos \in 0 .. Len(s), NEW tag, NEW n \in Nat
    PROVE  \E f : Walks(f, s, pos, tag, n)
<1> DEFINE S == Gots(s, tag)
           x == At(<< >>, pos)
           step == ReadSteps(s, tag)
           R(f) == f = [k \in 0 .. n |-> IF k = 0 THEN x ELSE ReadNext(s, f[k - 1], tag)]
           soFar == CHOOSE f : R(f)
<1>1. x \in S
  BY ReadBegins
<1>2. \A k \in Nat, y \in S : step[k][y] = ReadNext(s, y, tag)
  BY DEF ReadSteps
<1>3. step \in [Nat -> [S -> S]]
  BY ReadNextIs DEF ReadSteps
<1>4. ReadEntries(s, pos, tag, n) = soFar[n]
  BY DEF ReadEntries
<1> HIDE DEF step, S, x
<1>5. PICK g : Prefix(g, S, x, step, n)
  BY ONLY <1>1, <1>3, n \in Nat, PrefixExists
<1>6. g[0] = x /\ \A k \in 1 .. n : g[k - 1] \in S /\ g[k] = ReadNext(s, g[k - 1], tag)
  <2>1. g \in [0 .. n -> S] /\ g[0] = x /\ \A k \in 1 .. n : g[k] = step[k][g[k - 1]]
    BY <1>5 DEF Prefix
  <2>2. ASSUME NEW k \in 1 .. n PROVE g[k - 1] \in S /\ g[k] = ReadNext(s, g[k - 1], tag)
    <3>1. k - 1 \in 0 .. n /\ k \in Nat
      OBVIOUS
    <3> QED
      BY <1>2, <2>1, <3>1
  <2> QED
    BY <2>1, <2>2
<1>7. R(g)
  <2>1. g = [k \in 0 .. n |-> g[k]]
    BY <1>5 DEF Prefix
  <2>2. \A k \in 0 .. n : g[k] = IF k = 0 THEN x ELSE ReadNext(s, g[k - 1], tag)
    <3>1. \A k \in 0 .. n : k # 0 => k \in 1 .. n
      OBVIOUS
    <3> QED
      BY ONLY <1>6, <3>1
  <2> QED
    BY ONLY <2>1, <2>2
<1>8. R(soFar)
  BY ONLY <1>7
<1> HIDE DEF soFar
<1>9. Prefix(soFar, S, x, step, n)
  <2>1. soFar = [k \in 0 .. n |-> soFar[k]]
    BY <1>8
  <2>2. soFar[0] = x
    BY <1>8
  <2>3. \A k \in 1 .. n : soFar[k - 1] \in S => soFar[k] = step[k][soFar[k - 1]]
    <3>1. ASSUME NEW k \in 1 .. n, soFar[k - 1] \in S PROVE soFar[k] = step[k][soFar[k - 1]]
      <4>1. k \in 0 .. n /\ k # 0 /\ k \in Nat
        OBVIOUS
      <4>2. soFar[k] = ReadNext(s, soFar[k - 1], tag)
        BY <1>8, <4>1
      <4> QED
        BY <1>2, <3>1, <4>1, <4>2
    <3> QED
      BY <3>1
  <2> QED
    BY ONLY <1>1, <1>3, n \in Nat, <2>1, <2>2, <2>3, Follows
<1>10. Walks(soFar, s, pos, tag, n)
  BY <1>4, <1>9 DEF Walks, step, S, x
<1> QED
  BY <1>10

\* No entries, and one more.
LEMMA ReadEntriesIs ==
    ASSUME NEW s \in Bytes, NEW pos \in 0 .. Len(s), NEW tag, NEW n \in Nat
    PROVE  /\ ReadEntries(s, pos, tag, n) \in Gots(s, tag)
           /\ n = 0 => ReadEntries(s, pos, tag, n) = At(<< >>, pos)
           /\ ReadEntries(s, pos, tag, n + 1) = ReadNext(s, ReadEntries(s, pos, tag, n), tag)
<1> DEFINE S == Gots(s, tag)
           x == At(<< >>, pos)
           step == ReadSteps(s, tag)
           m == n + 1
<1>0. m \in Nat
  OBVIOUS
<1>1. PICK g : Walks(g, s, pos, tag, n)
  BY ReadWalk
<1> HIDE DEF m
<1>2. PICK f : Walks(f, s, pos, tag, m)
  BY <1>0, ReadWalk
<1>3. /\ Prefix(g, S, x, step, n) /\ ReadEntries(s, pos, tag, n) = g[n]
      /\ Prefix(f, S, x, step, m) /\ ReadEntries(s, pos, tag, m) = f[m]
  BY <1>1, <1>2 DEF Walks
<1>4. \A k \in Nat, y \in S : step[k][y] = ReadNext(s, y, tag)
  BY DEF ReadSteps
<1>5. Agree(step, step, n)
  BY DEF Agree
<1> HIDE DEF S, x, step
<1>6. g[n] \in S /\ f[n + 1] = step[n + 1][g[n]]
  BY ONLY <1>3, <1>5, n \in Nat, OneMore DEF m
<1>7. f[m] = ReadNext(s, g[n], tag)
  BY <1>0, <1>4, <1>6 DEF m
<1>8. n = 0 => g[n] = x
  BY <1>3 DEF Prefix
<1> QED
  BY <1>3, <1>6, <1>7, <1>8 DEF S, x, m

-----------------------------------------------------------------------------
(* What is written is read again, and what is read is what is written.       *)

\* Lists that are good when empty, and with one entry more, are good.
LEMMA ListInduction ==
    ASSUME NEW Good,
           \A es \in Lists : Len(es) = 0 => es \in Good,
           \A es \in Lists, e \in Entries : es \in Good => Append(es, e) \in Good
    PROVE  \A es \in Lists : es \in Good
<1> DEFINE T == {n \in Nat : \A es \in Lists : Len(es) = n => es \in Good}
<1>1. 0 \in T
  OBVIOUS
<1>2. ASSUME NEW n \in Nat, n \in T PROVE n + 1 \in T
  <2>1. ASSUME NEW es \in Lists, Len(es) = n + 1 PROVE es \in Good
    <3>1. PICK fs \in Lists : Len(fs) = n /\ es[n + 1] \in Entries /\ es = Append(fs, es[n + 1])
      BY <2>1, ListLess
    <3> DEFINE e == es[n + 1]
    <3>2. e \in Entries /\ es = Append(fs, e)
      BY <3>1
    <3> HIDE DEF e
    <3>3. fs \in Good
      BY <1>2, <3>1
    <3> QED
      BY <3>2, <3>3
  <2> QED
    BY <2>1
<1> HIDE DEF T
<1>3. \A n \in Nat : n \in T
  BY <1>1, <1>2, Induction
<1>4. \A es \in Lists : Len(es) \in Nat
  BY DEF Lists
<1> QED
  BY <1>3, <1>4 DEF T

\* Entries of a list with a name have twenty bytes or more.
LEMMA TotalMin ==
    ASSUME NEW tag
    PROVE  \A es \in Lists : /\ Total(tag, es) \in Nat /\ Len(es) \in Nat /\ Total(tag, es) >= 12
                             /\ tag # "Blob" => Total(tag, es) >= 12 + 20 * Len(es)
<1> DEFINE Good == {es \in Lists : /\ Total(tag, es) >= 12
                                   /\ tag # "Blob" => Total(tag, es) >= 12 + 20 * Len(es)}
<1>0. \A es \in Lists : Len(es) \in Nat
  BY DEF Lists
<1>1. \A es \in Lists : Len(es) = 0 => es \in Good
  BY TotalIs
<1>2. ASSUME NEW es \in Lists, NEW e \in Entries, es \in Good PROVE Append(es, e) \in Good
  <2> DEFINE fs == Append(es, e)
             n == Len(es)
             l == Len(fs)
             t == Total(tag, es)
             u == Total(tag, fs)
             b == BodyLen(tag, e)
  <2>1. fs \in Lists /\ n \in Nat /\ l = n + 1
    BY ListMore
  <2>2. t \in Nat /\ u = t + b
    BY TotalIs
  <2>3. b \in Nat /\ (tag # "Blob" => b >= 20)
    BY BodyLenIs
  <2>4. t >= 12 /\ (tag # "Blob" => t >= 12 + 20 * n)
    BY <1>2
  <2> HIDE DEF n, l, t, u, b
  <2>5. u >= 12 /\ (tag # "Blob" => u >= 12 + 20 * l)
    BY <2>1, <2>2, <2>3, <2>4
  <2> QED
    BY <2>1, <2>5 DEF l, u
<1> HIDE DEF Good
<1>3. \A es \in Lists : es \in Good
  BY <1>1, <1>2, ListInduction
<1> QED
  BY <1>0, <1>3, TotalIs DEF Good

\* The entries that this kind of payload may have.
AllOf(tag, es) == \A k \in 1 .. Len(es) : EntryOf(tag, es[k])

\* A list that is written at the end of out is read from there.
Readable(out, tag, es, s) ==
    LET r == PutEntries(out, tag, es)
    IN  AllOf(tag, es) /\ r.ok /\ Begins(r.value, s) =>
            /\ Longer(out, r, Total(tag, es) - 12)
            /\ ReadEntries(s, Len(out.value), tag, Len(es)) = At(es, Len(r.value))

\* Every list is read as it was written.
LEMMA WrittenIsRead ==
    ASSUME NEW out \in Outs, NEW tag, NEW s \in Bytes, Len(s) <= MaxBytes
    PROVE  \A es \in Lists : Readable(out, tag, es, s)
<1> DEFINE Good == {es \in Lists : Readable(out, tag, es, s)}
<1>0. Len(s) \in Nat
  BY DEF Bytes
<1>1. ASSUME NEW es \in Lists, Len(es) = 0 PROVE es \in Good
  <2> DEFINE r == PutEntries(out, tag, es)
  <2>1. r = out /\ Total(tag, es) = 12
    BY <1>1, PutEntriesIs, TotalIs
  <2>2. ASSUME out.ok, Begins(out.value, s)
        PROVE  /\ Longer(out, out, 0)
               /\ ReadEntries(s, Len(out.value), tag, 0) = At(es, Len(out.value))
    <3>1. out.value \in Bytes /\ out = Out(out.value)
      BY <2>2, OutsAre
    <3> DEFINE p == Len(out.value)
    <3>2. p \in 0 .. Len(s)
      BY <1>0, <2>2, <3>1 DEF Begins, Bytes
    <3>3. Longer(out, out, 0)
      BY <2>2, <3>1, <3>2, BeginsSelf DEF Longer
    <3> HIDE DEF p
    <3>4. ReadEntries(s, p, tag, 0) = At(<< >>, p)
      <4>1. 0 \in Nat
        OBVIOUS
      <4> QED
        BY ONLY <3>2, <4>1, s \in Bytes, ReadEntriesIs
    <3>5. es = << >>
      BY <1>1 DEF Lists
    <3> QED
      BY <3>3, <3>4, <3>5 DEF p
  <2> HIDE DEF r
  <2>3. Readable(out, tag, es, s)
    BY <1>1, <2>1, <2>2 DEF Readable, r
  <2> QED
    BY <2>3
<1>2. ASSUME NEW es \in Lists, NEW e \in Entries, es \in Good PROVE Append(es, e) \in Good
  <2> DEFINE fs == Append(es, e)
             n == Len(es)
             a == PutEntries(out, tag, es)
             r == PutEntries(out, tag, fs)
             t == Total(tag, es)
             b == BodyLen(tag, e)
  <2>1. /\ fs \in Lists /\ n \in Nat /\ Len(fs) = n + 1
        /\ (\A k \in 1 .. n : fs[k] = es[k]) /\ fs[n + 1] = e
    BY ListMore
  <2>2. a \in Outs /\ r = PutEntry(a, tag, e)
    BY PutEntriesIs
  <2>3. t \in Nat /\ t >= 12 /\ Total(tag, fs) = t + b /\ b \in Nat
    BY TotalMin, TotalIs, BodyLenIs
  <2>4. Readable(out, tag, es, s)
    BY <1>2
  <2> HIDE DEF fs
  <2>5. ASSUME AllOf(tag, fs), r.ok, Begins(r.value, s)
        PROVE  /\ Longer(out, r, Total(tag, fs) - 12)
               /\ ReadEntries(s, Len(out.value), tag, Len(fs)) = At(fs, Len(r.value))
    <3> HIDE DEF r, a, t, b, n
    <3>1. /\ r \in Outs /\ Longer(a, r, b) /\ Len(r.value) <= MaxBytes
          /\ HasEntry(r.value, Len(a.value), tag, e)
      BY <2>2, <2>5, EntryOk DEF b
    <3>2. a.ok /\ a.value \in Bytes /\ r.value \in Bytes /\ Begins(a.value, r.value)
      BY <2>2, <3>1, OutsAre DEF Longer
    <3>3. Begins(a.value, s)
      BY <2>5, <3>2, BeginsTrans
    <3>4. AllOf(tag, es) /\ EntryOf(tag, e)
      <4>1. \A k \in 1 .. n : k \in 1 .. n + 1
        BY <2>1
      <4>2. n + 1 \in 1 .. n + 1
        BY <2>1
      <4>3. \A k \in 1 .. n + 1 : EntryOf(tag, fs[k])
        BY <2>1, <2>5 DEF AllOf
      <4>4. \A k \in 1 .. n : EntryOf(tag, es[k])
        BY <2>1, <4>1, <4>3
      <4> QED
        BY <2>1, <4>2, <4>3, <4>4 DEF AllOf, n
    <3>5. Longer(out, a, t - 12) /\ ReadEntries(s, Len(out.value), tag, n) = At(es, Len(a.value))
      BY <2>4, <3>2, <3>3, <3>4 DEF Readable, a, t, n
    <3> DEFINE m == t - 12
    <3>6. m \in Nat /\ Longer(out, a, m) /\ m + b = Total(tag, fs) - 12
      BY <2>3, <3>5
    <3> HIDE DEF m
    <3>7. Longer(out, r, m + b) /\ out.value \in Bytes /\ Len(out.value) \in Nat
      BY ONLY out \in Outs, <2>2, <2>3, <3>1, <3>6, LongerTwice
    <3> DEFINE p == Len(out.value)
               q == Len(a.value)
    <3>8. p \in 0 .. Len(s) /\ q \in Nat /\ Len(r.value) = q + b
      <4>1. Begins(out.value, s)
        BY <2>5, <3>2, <3>7, BeginsTrans DEF Longer
      <4>2. p \in 0 .. Len(s)
        BY <1>0, <3>7, <4>1 DEF Begins
      <4>3. q \in Nat /\ Len(r.value) = q + b
        BY <3>1, <3>2 DEF Longer, Bytes
      <4> QED
        BY <4>2, <4>3
    <3>9. HasEntry(s, q, tag, e)
      <4>1. e.bytes \in Bytes /\ e.type \in Bytes /\ e.name \in Bytes
            /\ StampDigits(e.stamp) \in Bytes
            /\ Len(e.bytes) \in Nat /\ Len(e.type) \in Nat /\ Len(e.name) \in Nat
        BY EntryFields
      <4>2. ASSUME NEW pos \in Nat, NEW w \in Bytes, HasField(r.value, pos, w)
            PROVE  HasField(s, pos, w)
        <5>1. Word(Len(w)) \in Bytes
          BY WordIs DEF Bytes
        <5> DEFINE j == pos + 4
        <5>2. j \in Nat /\ Has(r.value, j, w) /\ Has(r.value, pos, Word(Len(w)))
          BY <4>2 DEF HasField
        <5> HIDE DEF j
        <5>3. Has(s, pos, Word(Len(w))) /\ Has(s, j, w)
          BY <2>5, <3>2, <5>1, <5>2, HasBegins
        <5> QED
          BY <5>3 DEF HasField, j
      <4> DEFINE lb == Len(e.bytes)
                 lt == Len(e.type)
                 ln == Len(e.name)
                 p2 == q + 4 + lb
                 p3 == q + 8 + lb + lt
                 p4 == q + 12 + lb + lt + ln
      <4>3. p2 \in Nat /\ p3 \in Nat /\ p4 \in Nat
        <5>1. lb \in Nat /\ lt \in Nat /\ ln \in Nat /\ q \in Nat
          BY <3>8, <4>1
        <5> HIDE DEF lb, lt, ln, q
        <5> QED
          BY ONLY <5>1
      <4>4. /\ HasField(r.value, q, e.bytes) /\ HasField(r.value, p2, e.type)
            /\ tag # "Blob" => HasField(r.value, p3, e.name) /\ Has(r.value, p4, StampDigits(e.stamp))
        BY ONLY <3>1 DEF HasEntry
      <4> HIDE DEF p2, p3, p4, q
      <4>5. /\ HasField(s, q, e.bytes) /\ HasField(s, p2, e.type)
            /\ tag # "Blob" => HasField(s, p3, e.name) /\ Has(s, p4, StampDigits(e.stamp))
        BY <2>5, <3>2, <3>8, <4>1, <4>2, <4>3, <4>4, HasBegins
      <4> QED
        BY ONLY <4>5 DEF HasEntry, p2, p3, p4
    <3> HIDE DEF p, q
    <3>10. ReadEntry(s, q, tag) = At(e, q + BodyLen(tag, e))
      BY <3>4, <3>8, <3>9, EntryHas
    <3>11. ReadEntries(s, p, tag, n) = At(es, q)
      BY <3>5 DEF p, q
    <3>12. ReadEntries(s, p, tag, n + 1) = ReadNext(s, At(es, q), tag)
      BY <2>1, <3>8, <3>11, ReadEntriesIs
    <3>13. ReadNext(s, At(es, q), tag) = At(fs, q + b)
      BY <3>10, Results DEF ReadNext, With, fs, b
    <3>14. ReadEntries(s, p, tag, Len(fs)) = At(fs, Len(r.value))
      BY <2>1, <3>8, <3>12, <3>13
    <3> QED
      BY <3>1, <3>6, <3>7, <3>14 DEF p
  <2> HIDE DEF r
  <2>6. Readable(out, tag, fs, s)
    BY <2>5 DEF Readable, r
  <2> QED
    BY <2>1, <2>6 DEF fs
<1> HIDE DEF Good
<1>3. \A es \in Lists : es \in Good
  BY <1>1, <1>2, ListInduction
<1> QED
  BY <1>3 DEF Good

\* What reading n entries from pos has read.
Rewritten(s, pos, tag, n) ==
    LET r == ReadEntries(s, pos, tag, n)
    IN  r.ok => /\ r.value \in Lists /\ Len(r.value) = n /\ AllOf(tag, r.value)
                /\ r.pos \in 0 .. Len(s) /\ r = At(r.value, r.pos)
                /\ PutEntries(Here(s, pos), tag, r.value) = Here(s, r.pos)
                /\ r.pos = pos + Total(tag, r.value) - 12

\* What is read is written to the same bytes.
LEMMA ReadIsWritten ==
    ASSUME NEW s \in Bytes, Len(s) <= MaxBytes, NEW pos \in 0 .. Len(s), NEW tag
    PROVE  \A n \in Nat : Rewritten(s, pos, tag, n)
<1> DEFINE T == {n \in Nat : Rewritten(s, pos, tag, n)}
<1>0. Len(s) \in Nat
  BY DEF Bytes
<1>1. \A p \in 0 .. Len(s) : Here(s, p) \in Outs
  <2>1. ASSUME NEW p \in 0 .. Len(s) PROVE Here(s, p) \in Outs
    <3>1. SubSeq(s, 1, p) \in Bytes /\ Len(SubSeq(s, 1, p)) = p
      BY UptoIs
    <3>2. Here(s, p) = Out(SubSeq(s, 1, p))
      BY <3>1 DEF Here, Out
    <3> QED
      BY <3>1, <3>2, OutsAre
  <2> QED
    BY <2>1
<1>2. 0 \in T
  <2>1. ReadEntries(s, pos, tag, 0) = At(<< >>, pos)
    <3>1. 0 \in Nat
      OBVIOUS
    <3> QED
      BY ONLY <3>1, s \in Bytes, pos \in 0 .. Len(s), ReadEntriesIs
  <2>2. << >> \in Lists /\ Len(<< >>) = 0
    BY DEF Lists
  <2>3. AllOf(tag, << >>)
    BY DEF AllOf
  <2>4. PutEntries(Here(s, pos), tag, << >>) = Here(s, pos) /\ Total(tag, << >>) = 12
    BY <1>1, <2>2, PutEntriesIs, TotalIs
  <2>5. pos = pos + 12 - 12
    OBVIOUS
  <2> QED
    BY <2>1, <2>2, <2>3, <2>4, <2>5, Results DEF Rewritten
<1>3. ASSUME NEW n \in Nat, n \in T PROVE n + 1 \in T
  <2> DEFINE y == ReadEntries(s, pos, tag, n)
             m == n + 1
             r == ReadEntries(s, pos, tag, m)
             got == ReadEntry(s, y.pos, tag)
  <2>1. r = ReadNext(s, y, tag)
    BY ReadEntriesIs
  <2>2. Rewritten(s, pos, tag, n)
    BY <1>3
  <2> HIDE DEF r, m
  <2>3. ASSUME r.ok
        PROVE  /\ r.value \in Lists /\ Len(r.value) = m /\ AllOf(tag, r.value)
               /\ r.pos \in 0 .. Len(s) /\ r = At(r.value, r.pos)
               /\ PutEntries(Here(s, pos), tag, r.value) = Here(s, r.pos)
               /\ r.pos = pos + Total(tag, r.value) - 12
    <3>1. y.ok /\ got.ok /\ r = At(Append(y.value, got.value), got.pos)
      <4> HIDE DEF y
      <4> QED
        BY <2>1, <2>3, Results DEF ReadNext, With
    <3>2. /\ y.value \in Lists /\ Len(y.value) = n /\ AllOf(tag, y.value) /\ y.pos \in 0 .. Len(s)
          /\ PutEntries(Here(s, pos), tag, y.value) = Here(s, y.pos)
          /\ y.pos = pos + Total(tag, y.value) - 12
      BY <2>2, <3>1 DEF Rewritten
    <3> HIDE DEF y
    <3>3. GotEntry(s, y.pos, tag, got)
      BY <1>0, <3>1, <3>2, EntryRead
    <3> HIDE DEF got
    <3> DEFINE e == got.value
               es == y.value
               q == y.pos
               b == BodyLen(tag, e)
    <3>4. EntryOf(tag, e) /\ HasEntry(s, q, tag, e) /\ got = At(e, q + b) /\ e \in Entries
      BY <3>3 DEF GotEntry, EntryOf
    <3>5. q \in 0 .. Len(s) /\ es \in Lists
      BY <3>2
    <3>6. got.pos = q + b
      BY ONLY <3>4, Results
    <3> DEFINE fs == Append(es, e)
    <3>7. r.value = fs /\ r.pos = q + b /\ r = At(fs, q + b)
      <4> HIDE DEF b, q
      <4> QED
        BY <3>1, <3>6, Results
    <3> HIDE DEF e, es, q
    <3>8. PutEntry(Here(s, q), tag, e) = Here(s, q + b) /\ q + b \in 0 .. Len(s)
      BY <3>4, <3>5, EntryHere
    <3>9. /\ fs \in Lists /\ Len(es) \in Nat /\ Len(fs) = Len(es) + 1
          /\ (\A k \in 1 .. Len(es) : fs[k] = es[k]) /\ fs[Len(es) + 1] = e
      BY <3>4, <3>5, ListMore
    <3>10. PutEntries(Here(s, pos), tag, fs) = Here(s, q + b)
      <4>1. PutEntries(Here(s, pos), tag, es) = Here(s, q)
        BY <3>2 DEF es, q
      <4>2. Here(s, pos) \in Outs
        BY <1>1
      <4> QED
        BY <3>4, <3>5, <3>8, <4>1, <4>2, PutEntriesIs
    <3>11. q + b = pos + Total(tag, fs) - 12
      <4> DEFINE t == Total(tag, es)
      <4>1. t \in Nat /\ Total(tag, fs) = t + b /\ b \in Nat
        BY <3>4, <3>5, TotalIs, BodyLenIs
      <4>2. q = pos + t - 12
        BY <3>2 DEF es, q
      <4> HIDE DEF t, b
      <4> QED
        BY <4>1, <4>2
    <3>12. AllOf(tag, fs)
      <4>1. \A k \in 1 .. Len(es) : EntryOf(tag, es[k])
        BY <3>2 DEF AllOf, es
      <4>2. ASSUME NEW k \in 1 .. Len(fs) PROVE EntryOf(tag, fs[k])
        <5>1. k \in 1 .. Len(es) \/ k = Len(es) + 1
          BY <3>9
        <5> HIDE DEF fs
        <5> QED
          BY <3>4, <3>9, <4>1, <5>1
      <4> QED
        BY <4>2 DEF AllOf
    <3>13. Len(fs) = m
      BY <3>2, <3>9 DEF es, m
    <3> HIDE DEF fs, b
    <3> QED
      BY <3>7, <3>8, <3>9, <3>10, <3>11, <3>12, <3>13
  <2>4. Rewritten(s, pos, tag, m)
    BY <2>3 DEF Rewritten, r
  <2> QED
    BY <2>4 DEF m
<1> HIDE DEF T
<1>4. \A n \in Nat : n \in T
  BY <1>2, <1>3, Induction
<1> QED
  BY <1>4 DEF T

-----------------------------------------------------------------------------
(* The head of an encoding, and the whole.                                   *)

\* The tags and their numbers.
LEMMA TagsAre ==
    /\ DOMAIN Tags = 1 .. 3
    /\ \A k \in 1 .. 3 : Tags[k] \in {"Blob", "File", "FileList"} /\ TagNumber(Tags[k]) = k
    /\ \A tag \in {"Blob", "File", "FileList"} : TagNumber(tag) \in 1 .. 3 /\ Tags[TagNumber(tag)] = tag
<1>1. DOMAIN Tags = 1 .. 3 /\ Tags[1] = "Blob" /\ Tags[2] = "File" /\ Tags[3] = "FileList"
  BY DEF Tags
<1> DEFINE R(tag, k) == k \in DOMAIN Tags /\ Tags[k] = tag
<1>2. \A tag : TagNumber(tag) = CHOOSE k : R(tag, k)
  BY DEF TagNumber
<1>3. R("Blob", 1) /\ R("File", 2) /\ R("FileList", 3)
  BY <1>1
<1>4. \A tag, k : R(tag, k) => R(tag, TagNumber(tag))
  <2> HIDE DEF R
  <2> QED
    BY <1>2
<1>5. \A k, j : k \in 1 .. 3 /\ j \in 1 .. 3 /\ Tags[k] = Tags[j] => k = j
  BY <1>1
<1>6. \A tag \in {"Blob", "File", "FileList"} : R(tag, TagNumber(tag))
  <2> HIDE DEF R
  <2> QED
    BY <1>3, <1>4
<1> QED
  BY <1>1, <1>5, <1>6

\* The first twelve bytes of an encoding.
HasHead(s, k) == Has(s, 0, Magic) /\ Has(s, 4, Word(Version)) /\ Has(s, 8, Word(k))

HeadOf(k) == PutWord(PutWord(At(Magic, 4), Version), k)

\* The magic is four digits.
LEMMA MagicIs == Magic \in Bytes /\ Len(Magic) = 4
<1>1. 0 \in Digits /\ 1 \in Digits /\ 2 \in Digits
  BY Constants DEF Digits
<1> QED
  BY <1>1 DEF Magic, Bytes

\* A head is written, and is there.
LEMMA HeadOk ==
    ASSUME NEW k \in Nat
    PROVE  /\ HeadOf(k) \in Outs /\ HeadOf(k).ok /\ HeadOf(k).value \in Bytes
           /\ Len(HeadOf(k).value) = 12 /\ HasHead(HeadOf(k).value, k)
<1> DEFINE a == Magic \o Word(Version)
           b == a \o Word(k)
           v == Word(Version)
           w == Word(k)
<1>1. v \in Bytes /\ Len(v) = 4 /\ w \in Bytes /\ Len(w) = 4 /\ Version \in Nat
  BY WordIs DEF Bytes, Version
<1>2. Magic \in Bytes /\ Len(Magic) = 4
  BY MagicIs
<1>3. At(Magic, 4) = Out(Magic) /\ At(Magic, 4) \in Outs
  BY <1>2, OutsAre DEF Out
<1>4. a \in Bytes /\ Len(a) = 8 /\ Begins(Magic, a) /\ Has(a, 4, v)
  <2> HIDE DEF v
  <2>1. Magic \o v \in Bytes /\ Len(Magic \o v) = Len(Magic) + Len(v)
        /\ Begins(Magic, Magic \o v) /\ Has(Magic \o v, Len(Magic), v)
    BY ONLY <1>1, <1>2, HasCat
  <2> QED
    BY <1>1, <1>2, <2>1 DEF v
<1>5. PutWord(At(Magic, 4), Version) = Out(a) /\ Out(a) \in Outs
  <2>1. At(Magic, 4).ok /\ At(Magic, 4).value = Magic /\ Len(Magic) <= MaxBytes
    BY <1>2, Constants, Results
  <2>2. PutWord(At(Magic, 4), Version) = Out(a)
    BY <1>1, <1>3, <2>1, PutWordOk
  <2> QED
    BY <1>4, <2>2, OutsAre
<1> HIDE DEF a
<1>6. b \in Bytes /\ Len(b) = 12 /\ Begins(a, b) /\ Has(b, 8, w)
  <2> HIDE DEF w
  <2>1. a \o w \in Bytes /\ Len(a \o w) = Len(a) + Len(w)
        /\ Begins(a, a \o w) /\ Has(a \o w, Len(a), w)
    BY ONLY <1>1, <1>4, HasCat
  <2> QED
    BY <1>1, <1>4, <2>1 DEF w
<1>7. HeadOf(k) = Out(b) /\ Out(b) \in Outs
  <2>1. Out(a).ok /\ Out(a).value = a /\ Len(a) <= MaxBytes
    BY <1>4, Constants, OutsAre
  <2>2. PutWord(Out(a), k) = Out(b)
    BY <1>5, <2>1, PutWordOk
  <2> QED
    BY <1>5, <1>6, <2>2, OutsAre DEF HeadOf
<1> HIDE DEF b, v, w
<1>8. HeadOf(k).ok /\ HeadOf(k).value = b
  BY <1>6, <1>7, OutsAre
<1>9. Begins(Magic, b) /\ Has(b, 4, v)
  <2>1. 4 \in Nat
    OBVIOUS
  <2> QED
    BY ONLY <1>1, <1>2, <1>4, <1>6, <2>1, BeginsTrans, HasBegins
<1>10. Has(b, 0, Magic)
  BY <1>2, <1>6, <1>9 DEF Has, Begins
<1> QED
  BY <1>6, <1>7, <1>8, <1>9, <1>10 DEF HasHead, v, w

\* A head that is there is written.
LEMMA HeadHere ==
    ASSUME NEW s \in Bytes, Len(s) <= MaxBytes, NEW k \in Nat, HasHead(s, k)
    PROVE  HeadOf(k) = Here(s, 12) /\ 12 \in 0 .. Len(s) /\ SubSeq(s, 1, 4) = Magic
<1>1. Magic \in Bytes /\ Len(Magic) = 4 /\ Len(s) \in Nat
  BY MagicIs DEF Bytes
<1>2. 0 \in 0 .. Len(s) /\ Has(s, 0, Magic)
  BY <1>1 DEF HasHead
<1>3. SubSeq(s, 1, 4) = Magic /\ 4 \in 0 .. Len(s)
  <2>1. SubSeq(s, 1, 0) \o Magic = SubSeq(s, 1, 0 + Len(Magic)) /\ 0 + Len(Magic) \in 0 .. Len(s)
    BY <1>1, <1>2, UptoGrows
  <2>2. SubSeq(s, 1, 0) \in Bytes /\ Len(SubSeq(s, 1, 0)) = 0
    BY <1>2, UptoIs
  <2>3. SubSeq(s, 1, 0) = << >>
    BY <2>2 DEF Bytes
  <2>4. << >> \o Magic = Magic
    BY <1>1 DEF Bytes
  <2>5. 0 + Len(Magic) = 4
    BY <1>1
  <2>6. SubSeq(s, 1, 0) \o Magic = SubSeq(s, 1, 4) /\ 4 \in 0 .. Len(s)
    BY ONLY <2>1, <2>5, Zenon
  <2> QED
    BY ONLY <2>3, <2>4, <2>6, Zenon
<1>4. At(Magic, 4) = Here(s, 4)
  BY <1>3 DEF Here
<1>5. PutWord(Here(s, 4), Version) = Here(s, 8) /\ 8 \in 0 .. Len(s)
  <2>1. Version \in Nat /\ Has(s, 4, Word(Version))
    BY DEF HasHead, Version
  <2>2. PutWord(Here(s, 4), Version) = Here(s, 4 + 4) /\ 4 + 4 \in 0 .. Len(s)
    BY ONLY <1>3, <2>1, s \in Bytes, Len(s) <= MaxBytes, WordHere
  <2> QED
    BY ONLY <2>2
<1>6. PutWord(Here(s, 8), k) = Here(s, 12) /\ 12 \in 0 .. Len(s)
  <2>1. Has(s, 8, Word(k))
    BY DEF HasHead
  <2>2. PutWord(Here(s, 8), k) = Here(s, 8 + 4) /\ 8 + 4 \in 0 .. Len(s)
    BY ONLY <1>5, <2>1, s \in Bytes, k \in Nat, Len(s) <= MaxBytes, WordHere
  <2> QED
    BY ONLY <2>2
<1> QED
  BY <1>3, <1>4, <1>5, <1>6 DEF HeadOf

\* What decoding makes of the bytes after the head.
Rest(s, tag) == AsPayload(tag, Finished(s, ReadBody(s, 12, tag)))

\* A word is always read where there are four bytes.
LEMMA WordThere ==
    ASSUME NEW s \in Bytes, NEW p \in Nat, p + 4 <= Len(s)
    PROVE  ReadWord(s, p).ok
<1>1. ~(4 > MaxBytes) /\ ~(4 > Len(s) - p)
  BY Constants DEF Bytes
<1> QED
  BY <1>1, Results DEF ReadWord, Take

\* Decoding looks at the head first.
LEMMA DecodeHead ==
    ASSUME NEW s \in Bytes
    PROVE  /\ \A k \in 1 .. 3 : HasHead(s, k) /\ Len(s) <= MaxBytes => Decode(s) = Rest(s, Tags[k])
           /\ Decode(s).ok => /\ Len(s) <= MaxBytes
                              /\ \E k \in 1 .. 3 : HasHead(s, k) /\ Decode(s) = Rest(s, Tags[k])
<1>0. Len(s) \in Nat /\ MaxBytes \in Nat /\ Version \in Nat /\ WordRange \in Nat /\ WordRange > 3 /\ Version = 1
  BY Constants DEF Bytes, Version
<1> DEFINE v == ReadWord(s, 4)
           t == ReadWord(s, 8)
<1>1. Decode(s) = IF Len(s) > MaxBytes THEN Fail("LimitExceeded")
                  ELSE IF Len(s) < 12 \/ SubSeq(s, 1, 4) # Magic THEN Fail("Malformed")
                  ELSE IF v.value # Version THEN Fail("UnsupportedVersion")
                  ELSE IF t.value \notin 1 .. 3 THEN Fail("Malformed")
                  ELSE Rest(s, Tags[t.value])
  BY TagsAre DEF Decode, Rest, AsPayload
<1> HIDE DEF v, t
<1>2. ASSUME NEW k \in 1 .. 3, HasHead(s, k), Len(s) <= MaxBytes PROVE Decode(s) = Rest(s, Tags[k])
  <2>1. k \in Nat /\ k < WordRange /\ Version < WordRange
    BY <1>0
  <2>2. 12 <= Len(s) /\ SubSeq(s, 1, 4) = Magic
    BY <1>0, <1>2, <2>1, HeadHere
  <2>3. v = At(Version, 4 + 4)
    <3>1. 4 \in Nat /\ Has(s, 4, Word(Version))
      BY <1>2 DEF HasHead
    <3> QED
      BY ONLY <1>0, <1>2, <2>1, <3>1, s \in Bytes, WordHas DEF v
  <2>4. t = At(k, 8 + 4)
    <3>1. 8 \in Nat /\ Has(s, 8, Word(k))
      BY <1>2 DEF HasHead
    <3> QED
      BY ONLY <1>0, <1>2, <2>1, <3>1, s \in Bytes, WordHas DEF t
  <2>5. v.value = Version /\ t.value = k
    BY ONLY <2>3, <2>4, Results
  <2>6. ~(Len(s) > MaxBytes) /\ ~(Len(s) < 12)
    BY <1>0, <1>2, <2>2
  <2> QED
    BY <1>1, <1>2, <2>2, <2>5, <2>6
<1>3. ASSUME Decode(s).ok
      PROVE  /\ Len(s) <= MaxBytes
             /\ \E k \in 1 .. 3 : HasHead(s, k) /\ Decode(s) = Rest(s, Tags[k])
  <2>1. /\ ~(Len(s) > MaxBytes) /\ ~(Len(s) < 12) /\ SubSeq(s, 1, 4) = Magic
        /\ v.value = Version /\ t.value \in 1 .. 3 /\ Decode(s) = Rest(s, Tags[t.value])
    BY <1>1, <1>3, Results
  <2>2. Len(s) <= MaxBytes /\ 12 <= Len(s)
    BY <1>0, <2>1
  <2>3. v.ok /\ t.ok
    <3>1. 4 \in Nat /\ 4 + 4 <= Len(s) /\ 8 \in Nat /\ 8 + 4 <= Len(s)
      BY <1>0, <2>2
    <3> QED
      BY ONLY <3>1, s \in Bytes, WordThere DEF v, t
  <2>4. GotWord(s, 4, v) /\ GotWord(s, 8, t)
    <3>1. 4 \in Nat /\ 4 <= Len(s) /\ 8 \in Nat /\ 8 <= Len(s)
      BY <1>0, <2>2
    <3> QED
      BY ONLY <2>3, <3>1, s \in Bytes, WordRead DEF v, t
  <2>5. Has(s, 4, Word(Version)) /\ Has(s, 8, Word(t.value))
    BY <2>1, <2>4 DEF GotWord
  <2>6. Has(s, 0, Magic)
    <3>1. Magic \in Bytes /\ Len(Magic) = 4
      BY MagicIs
    <3>2. 4 \in 0 .. Len(s)
      BY <1>0, <2>2
    <3>3. \A i \in 1 .. 4 : SubSeq(s, 1, 4)[i] = s[i]
      BY <3>2, UptoIs
    <3>4. \A i \in 1 .. 4 : s[0 + i] = Magic[i]
      BY ONLY <2>1, <3>3
    <3> QED
      BY <3>1, <3>2, <3>4 DEF Has
  <2> QED
    BY <2>1, <2>2, <2>5, <2>6 DEF HasHead
<1> QED
  BY <1>2, <1>3

\* Whatever is written keeps the limit.
LEMMA WrittenIsShort ==
    ASSUME NEW out \in Outs, out.ok => Len(out.value) <= MaxBytes, NEW tag
    PROVE  \A es \in Lists : PutEntries(out, tag, es).ok => Len(PutEntries(out, tag, es).value) <= MaxBytes
<1> DEFINE r(es) == PutEntries(out, tag, es)
           Good == {es \in Lists : r(es).ok => Len(r(es).value) <= MaxBytes}
<1>1. \A es \in Lists : Len(es) = 0 => es \in Good
  BY PutEntriesIs
<1>2. ASSUME NEW es \in Lists, NEW e \in Entries, es \in Good PROVE Append(es, e) \in Good
  <2> DEFINE a == PutEntries(out, tag, es)
             b == PutEntries(out, tag, Append(es, e))
  <2>1. a \in Outs /\ b = PutEntry(a, tag, e) /\ Append(es, e) \in Lists
    BY PutEntriesIs, ListMore
  <2> HIDE DEF a, b
  <2>2. b.ok => Len(b.value) <= MaxBytes
    BY <2>1, EntryOk
  <2> QED
    BY <2>1, <2>2 DEF b
<1> HIDE DEF Good
<1>3. \A es \in Lists : es \in Good
  BY <1>1, <1>2, ListInduction
<1> QED
  BY <1>3 DEF Good

\* A payload and its entries.
LEMMA PayloadIs ==
    ASSUME NEW p, IsPayload(p)
    PROVE  /\ p.tag \in {"Blob", "File", "FileList"} /\ p.entries \in Lists
           /\ p = Payload(p.tag, p.entries) /\ TotalLen(p) = Total(p.tag, p.entries)
           /\ p.tag # "FileList" => Len(p.entries) = 1
           /\ Valid(p) => AllOf(p.tag, p.entries)
<1>1. /\ p.tag \in {"Blob", "File", "FileList"} /\ p.entries \in Lists
      /\ p = [tag |-> p.tag, entries |-> p.entries]
      /\ p.tag # "FileList" => Len(p.entries) = 1
      /\ p.tag = "Blob" => p.entries[1].name = << >> /\ p.entries[1].stamp = 0
  BY DEF IsPayload, Lists
<1>2. p = Payload(p.tag, p.entries)
  BY <1>1 DEF Payload
<1>3. TotalLen(p) = Total(p.tag, p.entries)
  BY <1>2 DEF Total
<1>4. ASSUME Valid(p) PROVE AllOf(p.tag, p.entries)
  <2>1. ASSUME NEW k \in 1 .. Len(p.entries) PROVE EntryOf(p.tag, p.entries[k])
    <3>1. p.entries[k] \in Entries /\ k \in DOMAIN p.entries
      BY <1>1 DEF Lists
    <3>2. FieldsValid(p.entries[k])
      BY <1>4, <3>1 DEF Valid
    <3>3. p.tag = "Blob" => k = 1
      <4> DEFINE n == Len(p.entries)
      <4>1. k \in 1 .. n /\ (p.tag = "Blob" => n = 1)
        BY <1>1, "Blob" # "FileList"
      <4> HIDE DEF n
      <4> QED
        BY ONLY <4>1
    <3> QED
      BY <1>1, <3>1, <3>2, <3>3 DEF EntryOf
  <2> QED
    BY <2>1 DEF AllOf
<1> QED
  BY <1>1, <1>2, <1>3, <1>4

\* What is before the entries: the head, and of a list its count.
Start(tag, n) == IF tag = "FileList" THEN PutWord(HeadOf(TagNumber(tag)), n) ELSE HeadOf(TagNumber(tag))

StartLen(tag) == IF tag = "FileList" THEN 16 ELSE 12

HasStart(s, tag, n) ==
    HasHead(s, TagNumber(tag)) /\ (tag = "FileList" => Has(s, 12, Word(n)))

\* An encoding is the start and the entries.
LEMMA EncodeIs ==
    ASSUME NEW p
    PROVE  Encode(p) = IF Valid(p) THEN PutEntries(Start(p.tag, Len(p.entries)), p.tag, p.entries)
                       ELSE Fail("LimitExceeded")
BY DEF Encode, Start, HeadOf

\* The start is written, and is there.
LEMMA StartOk ==
    ASSUME NEW tag \in {"Blob", "File", "FileList"}, NEW n \in Nat
    PROVE  LET out == Start(tag, n)
           IN  /\ out \in Outs /\ out.ok /\ out.value \in Bytes
               /\ Len(out.value) = StartLen(tag) /\ Len(out.value) <= MaxBytes
               /\ HasStart(out.value, tag, n)
<1> DEFINE k == TagNumber(tag)
           h == HeadOf(k)
           w == Word(n)
           x == h.value \o w
<1>1. k \in Nat
  BY TagsAre
<1> HIDE DEF k
<1>2. h \in Outs /\ h.ok /\ h.value \in Bytes /\ Len(h.value) = 12 /\ HasHead(h.value, k)
  BY <1>1, HeadOk
<1>3. MaxBytes \in Nat /\ MaxBytes >= 16
  BY Constants
<1>4. w \in Bytes /\ Len(w) = 4
  BY WordIs DEF Bytes
<1> HIDE DEF h
<1>5. CASE tag # "FileList"
  <2>1. Start(tag, n) = h
    BY <1>5 DEF Start, h, k
  <2>2. Len(h.value) <= MaxBytes /\ StartLen(tag) = 12
    BY <1>2, <1>3, <1>5 DEF StartLen
  <2>3. HasStart(h.value, tag, n)
    BY <1>2, <1>5 DEF HasStart, k
  <2> QED
    BY <1>2, <2>1, <2>2, <2>3
<1>6. CASE tag = "FileList"
  <2>1. Start(tag, n) = Out(x)
    <3>1. Len(h.value) <= MaxBytes
      BY <1>2, <1>3
    <3>2. PutWord(h, n) = Out(h.value \o Word(n))
      BY <1>2, <3>1, PutWordOk
    <3> QED
      BY <1>6, <3>2 DEF Start, h, k
  <2> DEFINE v == h.value
  <2>2. v \in Bytes /\ Len(v) = 12 /\ HasHead(v, k)
    BY <1>2
  <2> HIDE DEF w, v
  <2>3. x \in Bytes /\ Len(x) = 16 /\ Begins(v, x) /\ Has(x, 12, w)
    <3>1. v \o w \in Bytes /\ Len(v \o w) = Len(v) + Len(w) /\ Begins(v, v \o w) /\ Has(v \o w, Len(v), w)
      BY ONLY <1>4, <2>2, HasCat
    <3> QED
      BY <1>4, <2>2, <3>1 DEF v
  <2> HIDE DEF x
  <2>4. Out(x) \in Outs /\ Out(x).ok /\ Out(x).value = x
    BY <2>3, OutsAre
  <2>5. HasHead(x, k)
    <3>1. Magic \in Bytes /\ Word(Version) \in Bytes /\ Word(k) \in Bytes
      BY <1>1, MagicIs, WordIs DEF Bytes, Version
    <3>2. 0 \in Nat /\ 4 \in Nat /\ 8 \in Nat
      OBVIOUS
    <3>3. Has(v, 0, Magic) /\ Has(v, 4, Word(Version)) /\ Has(v, 8, Word(k))
      BY <2>2 DEF HasHead
    <3>4. Has(x, 0, Magic) /\ Has(x, 4, Word(Version)) /\ Has(x, 8, Word(k))
      BY ONLY <2>2, <2>3, <3>1, <3>2, <3>3, HasBegins
    <3> QED
      BY <3>4 DEF HasHead
  <2> QED
    BY <1>3, <1>6, <2>1, <2>3, <2>4, <2>5 DEF StartLen, HasStart, k, w
<1> QED
  BY <1>5, <1>6

\* A start that is there is written.
LEMMA StartHere ==
    ASSUME NEW tag \in {"Blob", "File", "FileList"}, NEW n \in Nat,
           NEW s \in Bytes, Len(s) <= MaxBytes, HasStart(s, tag, n)
    PROVE  Start(tag, n) = Here(s, StartLen(tag)) /\ StartLen(tag) \in 0 .. Len(s)
<1>1. TagNumber(tag) \in Nat /\ HasHead(s, TagNumber(tag))
  BY TagsAre DEF HasStart
<1>2. HeadOf(TagNumber(tag)) = Here(s, 12) /\ 12 \in 0 .. Len(s)
  BY <1>1, HeadHere
<1>3. CASE tag # "FileList"
  BY <1>2, <1>3 DEF Start, StartLen
<1>4. CASE tag = "FileList"
  <2>1. Has(s, 12, Word(n))
    BY <1>4 DEF HasStart
  <2>2. PutWord(Here(s, 12), n) = Here(s, 12 + 4) /\ 12 + 4 \in 0 .. Len(s)
    BY ONLY <1>2, <2>1, s \in Bytes, n \in Nat, Len(s) <= MaxBytes, WordHere
  <2>3. PutWord(Here(s, 12), n) = Here(s, 16) /\ 16 \in 0 .. Len(s)
    BY ONLY <2>2
  <2> QED
    BY <1>2, <1>4, <2>3 DEF Start, StartLen
<1> QED
  BY <1>3, <1>4

\* The rest of the input has room for the entries of a list.
LEMMA RoomFor ==
    ASSUME NEW n \in Nat, NEW l \in Nat, l >= 16 + 20 * n
    PROVE  ~(n > (l - 16 + 19) \div 20)
<1> DEFINE a == l - 16 + 19
           q == a \div 20
           m == a % 20
<1>1. a \in Nat /\ a >= 20 * n + 19 /\ 20 \in Nat \ {0}
  OBVIOUS
<1> HIDE DEF a
<1>2. q \in Nat /\ m \in 0 .. 19 /\ a = 20 * q + m
  <2>1. a \div 20 \in Nat /\ a % 20 \in 0 .. 20 - 1 /\ a = 20 * (a \div 20) + (a % 20)
    BY ONLY <1>1, DivNat
  <2> QED
    BY <2>1
<1> HIDE DEF q, m
<1>3. n <= q
  BY <1>1, <1>2
<1> QED
  BY <1>2, <1>3 DEF q, a

\* What is encoded decodes to what it was.
LEMMA EncodeDecode ==
    ASSUME NEW p, IsPayload(p), Encode(p).ok
    PROVE  LET w == Encode(p).value
           IN  w \in Bytes /\ Len(w) <= MaxBytes /\ Decode(w) = At(p, Len(w))
<1> DEFINE tag == p.tag
           es == p.entries
           n == Len(es)
           out == Start(tag, n)
           r == PutEntries(out, tag, es)
           w == r.value
           l == StartLen(tag)
<1>1. /\ tag \in {"Blob", "File", "FileList"} /\ es \in Lists /\ p = Payload(tag, es)
      /\ tag # "FileList" => n = 1
      /\ Valid(p) => AllOf(tag, es)
  BY PayloadIs
<1>2. Valid(p) /\ Encode(p) = r
  BY EncodeIs, Results
<1>3. n \in Nat /\ (tag = "FileList" => n <= MaxFiles)
  BY <1>1, <1>2 DEF Valid, Lists
<1>4. AllOf(tag, es) /\ r.ok
  BY <1>1, <1>2
<1>5. n < WordRange
  <2>1. MaxFiles \in Nat /\ MaxFiles < WordRange /\ WordRange \in Nat /\ WordRange > 3
    BY Constants
  <2> HIDE DEF n
  <2> QED
    BY <1>1, <1>3, <2>1
<1> HIDE DEF tag, es, n
<1>6. /\ out \in Outs /\ out.ok /\ out.value \in Bytes /\ Len(out.value) = l /\ Len(out.value) <= MaxBytes
      /\ HasStart(out.value, tag, n)
  BY <1>1, <1>3, StartOk
<1> HIDE DEF out, l
<1>7. r \in Outs
  BY <1>1, <1>6, PutEntriesIs
<1>8. Len(w) <= MaxBytes
  BY <1>1, <1>4, <1>6, WrittenIsShort
<1> HIDE DEF r
<1>9. w \in Bytes /\ Len(w) \in Nat /\ Begins(w, w)
  BY <1>4, <1>7, OutsAre, BeginsSelf DEF Bytes
<1> HIDE DEF w
<1>10. Longer(out, r, Total(tag, es) - 12) /\ ReadEntries(w, l, tag, n) = At(es, Len(w))
  <2>1. Readable(out, tag, es, w)
    BY <1>1, <1>6, <1>8, <1>9, WrittenIsRead
  <2> QED
    BY <1>4, <1>6, <1>9, <2>1 DEF Readable, r, w, n
<1>11. Begins(out.value, w) /\ Len(w) = l + (Total(tag, es) - 12)
  BY <1>6, <1>10 DEF Longer, w
<1>12. HasHead(w, TagNumber(tag)) /\ (tag = "FileList" => Has(w, 12, Word(n)))
  <2> DEFINE k == TagNumber(tag)
             v == out.value
  <2>1. k \in Nat
    BY <1>1, TagsAre
  <2>2. Magic \in Bytes /\ Word(Version) \in Bytes /\ Word(k) \in Bytes /\ Word(n) \in Bytes
    BY <1>3, <2>1, MagicIs, WordIs DEF Bytes, Version
  <2>3. 0 \in Nat /\ 4 \in Nat /\ 8 \in Nat /\ 12 \in Nat
    OBVIOUS
  <2>4. /\ Has(v, 0, Magic) /\ Has(v, 4, Word(Version)) /\ Has(v, 8, Word(k))
        /\ tag = "FileList" => Has(v, 12, Word(n))
    BY <1>6 DEF HasHead, HasStart
  <2>5. v \in Bytes /\ Begins(v, w)
    BY <1>6, <1>11
  <2> HIDE DEF k, v
  <2>6. /\ Has(w, 0, Magic) /\ Has(w, 4, Word(Version)) /\ Has(w, 8, Word(k))
        /\ tag = "FileList" => Has(w, 12, Word(n))
    BY ONLY <1>9, <2>2, <2>3, <2>4, <2>5, HasBegins
  <2> QED
    BY <2>6 DEF HasHead, k
<1>13. ReadBody(w, 12, tag) = At(es, Len(w))
  <2>1. CASE tag # "FileList"
    <3>1. l = 12 /\ n = 1
      BY <1>1, <2>1 DEF StartLen, l
    <3> QED
      BY <1>10, <2>1, <3>1 DEF ReadBody
  <2>2. CASE tag = "FileList"
    <3>1. l = 16
      BY <2>2 DEF StartLen, l
    <3>2. ReadWord(w, 12) = At(n, 16)
      <4>1. 12 \in Nat /\ Has(w, 12, Word(n))
        BY <1>12, <2>2
      <4>2. ReadWord(w, 12) = At(n, 12 + 4)
        BY ONLY <1>3, <1>5, <1>8, <1>9, <4>1, WordHas
      <4> QED
        BY ONLY <4>2
    <3>3. ~(n > (Len(w) - 16 + 19) \div 20)
      <4> DEFINE t == Total(tag, es)
                 j == Len(w)
      <4>1. t \in Nat /\ t >= 12 + 20 * n
        BY <1>1, <2>2, TotalMin DEF n
      <4>2. j = 16 + (t - 12) /\ j \in Nat
        BY <1>9, <1>11, <3>1
      <4> HIDE DEF t, j
      <4>3. j >= 16 + 20 * n
        BY <1>3, <4>1, <4>2
      <4> QED
        BY <1>3, <4>2, <4>3, RoomFor DEF j
    <3>4. ~(n > MaxFiles)
      BY <1>3, <2>2, Constants
    <3>5. ReadList(w, 12) = ReadEntries(w, 16, "FileList", n)
      <4>1. ReadWord(w, 12).ok /\ ReadWord(w, 12).value = n /\ ReadWord(w, 12).pos = 16
        BY <3>2, Results
      <4> QED
        BY <3>3, <3>4, <4>1 DEF ReadList
    <3> QED
      BY <1>10, <2>2, <3>1, <3>5 DEF ReadBody
  <2> QED
    BY <2>1, <2>2
<1>14. Rest(w, tag) = At(Payload(tag, es), Len(w))
  <2>1. Finished(w, At(es, Len(w))) = At(es, Len(w))
    BY Results DEF Finished
  <2> QED
    BY <1>13, <2>1, Results DEF Rest, AsPayload
<1>15. Decode(w) = Rest(w, tag)
  <2> DEFINE k == TagNumber(tag)
  <2>1. k \in 1 .. 3 /\ Tags[k] = tag /\ HasHead(w, k)
    BY <1>1, <1>12, TagsAre
  <2> HIDE DEF k
  <2> QED
    BY <1>8, <1>9, <2>1, DecodeHead
<1> QED
  BY <1>1, <1>2, <1>8, <1>9, <1>14, <1>15 DEF w

\* What decodes is the encoding of what it decodes to.
LEMMA DecodeEncode ==
    ASSUME NEW s \in Bytes, Decode(s).ok
    PROVE  LET p == Decode(s).value
           IN  IsPayload(p) /\ Encode(p) = At(s, Len(s)) /\ Decode(s) = At(p, Len(s))
<1>0. Len(s) \in Nat /\ MaxBytes \in Nat
  BY Constants DEF Bytes
<1>1. PICK k \in 1 .. 3 : HasHead(s, k) /\ Decode(s) = Rest(s, Tags[k])
  BY DecodeHead
<1>2. Len(s) <= MaxBytes
  BY DecodeHead
<1> DEFINE tag == Tags[k]
           body == ReadBody(s, 12, tag)
           l == StartLen(tag)
<1>3. tag \in {"Blob", "File", "FileList"} /\ TagNumber(tag) = k
  BY TagsAre
<1> HIDE DEF tag
<1>4. body.ok /\ body.pos = Len(s) /\ Decode(s) = At(Payload(tag, body.value), Len(s))
  <2>1. Decode(s) = Rest(s, tag)
    BY <1>1 DEF tag
  <2>2. body.ok /\ body.pos = Len(s)
    BY <2>1, Results DEF Rest, AsPayload, Finished
  <2>3. Finished(s, body) = body
    BY <2>2 DEF Finished
  <2> QED
    BY <2>1, <2>2, <2>3 DEF Rest, AsPayload
<1>5. \E n \in Nat : /\ body = ReadEntries(s, l, tag, n) /\ HasStart(s, tag, n) /\ l \in 0 .. Len(s)
                     /\ tag # "FileList" => n = 1
                     /\ tag = "FileList" => n <= MaxFiles
  <2>0. 12 \in 0 .. Len(s)
    <3>1. k \in Nat
      OBVIOUS
    <3> QED
      BY <1>1, <1>2, <3>1, HeadHere
  <2>1. CASE tag # "FileList"
    BY <1>1, <1>3, <2>0, <2>1 DEF ReadBody, StartLen, HasStart
  <2>2. CASE tag = "FileList"
    <3> DEFINE count == ReadWord(s, 12)
    <3>1. body = ReadList(s, 12)
      BY <2>2 DEF ReadBody
    <3>2. count.ok /\ ~(count.value > MaxFiles) /\ body = ReadEntries(s, count.pos, "FileList", count.value)
      BY <1>4, <3>1, Results DEF ReadList
    <3>3. GotWord(s, 12, count)
      <4>1. 12 \in Nat /\ 12 <= Len(s)
        BY <1>0, <2>0
      <4> QED
        BY ONLY <3>2, <4>1, s \in Bytes, WordRead
    <3> HIDE DEF count, body
    <3> DEFINE n == count.value
    <3>4. n \in Nat /\ Has(s, 12, Word(n)) /\ count = At(n, 12 + 4) /\ 12 + 4 <= Len(s)
      BY <3>3 DEF GotWord
    <3>5. count.pos = 16 /\ 16 \in 0 .. Len(s)
      <4>1. count.pos = 12 + 4
        BY ONLY <3>4, Results
      <4> QED
        BY <1>0, <3>4, <4>1
    <3>6. n <= MaxFiles
      BY <3>2, <3>4, Constants
    <3>7. l = 16
      BY <2>2 DEF StartLen
    <3>8. HasStart(s, tag, n)
      BY <1>1, <1>3, <3>4 DEF HasStart
    <3>9. body = ReadEntries(s, l, tag, n)
      BY <2>2, <3>2, <3>5, <3>7
    <3> HIDE DEF n, l
    <3> QED
      BY <2>2, <3>4, <3>5, <3>6, <3>7, <3>8, <3>9
  <2> QED
    BY <2>1, <2>2
<1>6. PICK n \in Nat : /\ body = ReadEntries(s, l, tag, n) /\ HasStart(s, tag, n) /\ l \in 0 .. Len(s)
                       /\ tag # "FileList" => n = 1
                       /\ tag = "FileList" => n <= MaxFiles
  BY <1>5
<1> HIDE DEF body, l
<1> DEFINE es == body.value
           p == Payload(tag, es)
<1>7. /\ es \in Lists /\ Len(es) = n /\ AllOf(tag, es)
      /\ PutEntries(Here(s, l), tag, es) = Here(s, Len(s))
      /\ Len(s) = l + Total(tag, es) - 12
  <2>1. Rewritten(s, l, tag, n)
    BY <1>2, <1>6, ReadIsWritten
  <2> QED
    BY <1>4, <1>6, <2>1 DEF Rewritten
<1> HIDE DEF es
<1>8. p.tag = tag /\ p.entries = es
  BY DEF Payload
<1>9. \A j \in DOMAIN es : FieldsValid(es[j]) /\ es[j] \in Entries
                           /\ (tag = "Blob" => es[j].name = << >> /\ es[j].stamp = 0)
  BY <1>7 DEF AllOf, EntryOf, Lists
<1>10. IsPayload(p)
  <2>1. tag = "Blob" => 1 \in DOMAIN es
    BY <1>6, <1>7 DEF Lists
  <2>2. p \in [tag : {"Blob", "File", "FileList"}, entries : Seq(Entries)]
    BY <1>3, <1>7 DEF Payload, Lists
  <2> HIDE DEF p
  <2> QED
    BY <1>6, <1>7, <1>8, <1>9, <2>1, <2>2 DEF IsPayload
<1>11. Valid(p)
  <2>1. TotalLen(p) <= MaxBytes
    <3> DEFINE t == Total(tag, es)
               j == Len(s)
    <3>1. TotalLen(p) = t
      BY DEF Total
    <3>2. t \in Nat
      BY <1>7, TotalMin
    <3>3. j = l + t - 12 /\ (l = 12 \/ l = 16) /\ j \in Nat /\ j <= MaxBytes
      BY <1>0, <1>2, <1>7 DEF StartLen, l
    <3> HIDE DEF t, j
    <3> QED
      BY <1>0, <3>1, <3>2, <3>3
  <2> HIDE DEF p
  <2> QED
    BY <1>6, <1>7, <1>8, <1>9, <2>1 DEF Valid
<1>12. Encode(p) = At(s, Len(s))
  <2>1. Start(tag, n) = Here(s, l)
    BY <1>2, <1>3, <1>6, StartHere DEF l
  <2>2. Encode(p) = Here(s, Len(s))
    <3> HIDE DEF p
    <3> QED
      BY <1>7, <1>8, <1>11, <2>1, EncodeIs
  <2>3. SubSeq(s, 1, Len(s)) = s
    BY SubSeqFull DEF Bytes
  <2> QED
    BY <2>2, <2>3 DEF Here
<1>13. Decode(s) = At(p, Len(s))
  BY <1>4 DEF es
<1> HIDE DEF p
<1>14. Decode(s).value = p
  BY <1>13, Results
<1> QED
  BY <1>10, <1>12, <1>13, <1>14

-----------------------------------------------------------------------------
(* The operations: payloads, the bytes of them, and objects made of them.    *)

\* A type in lower case is a text.
LEMMA NormalIs ==
    ASSUME NEW type \in Texts
    PROVE  Normal(type) \in Texts
<1> DEFINE T == 0 .. Base - 2
           n == Len(type)
           lower == [k \in DOMAIN type |-> IF type[k] = 1 THEN 0 ELSE type[k]]
<1>1. Base \in Nat /\ Base >= 4
  BY Constants
<1>2. 0 \in T
  BY <1>1
<1> HIDE DEF T
<1>3. type \in Seq(T) /\ Texts = Seq(T) /\ << >> \in Seq(T)
  BY DEF Texts, T
<1>4. n \in Nat /\ DOMAIN type = 1 .. n /\ \A k \in 1 .. n : type[k] \in T
  BY <1>3
<1> HIDE DEF n
<1>5. lower \in [1 .. n -> T]
  BY <1>2, <1>4
<1>6. lower \in Seq(T)
  BY <1>4, <1>5, SeqDef
<1> QED
  BY <1>3, <1>6 DEF Normal

\* An entry with its type in lower case.
Lower(e) == [e EXCEPT !.type = Normal(@)]

\* The object that is made of a payload.
ObjectOf(p) == [brand |-> p.tag, entries |-> [k \in DOMAIN p.entries |-> Lower(p.entries[k])]]

\* What the runtime makes of an object is a payload.
LEMMA SerializedIs ==
    ASSUME NEW object \in Objects, NEW tag \in {"Blob", "File", "FileList"},
           Clonable(object, tag), Serialized(object, tag).ok
    PROVE  IsPayload(Serialized(object, tag).value)
<1> DEFINE es == object.entries
           n == Len(es)
           made == [k \in DOMAIN es |->
                       IF tag = "Blob" THEN Entry(es[k].bytes, Normal(es[k].type), << >>, 0)
                       ELSE [es[k] EXCEPT !.type = Normal(@)]]
<1>1. /\ object.brand \in {"Blob", "File", "FileList"} /\ es \in Seq(Entries)
      /\ object.brand # "FileList" => n = 1
  BY PayloadsAssumption
<1>2. Serialized(object, tag).value = Payload(tag, made)
  BY Results DEF Serialized
<1>3. tag # "FileList" => n = 1
  BY <1>1 DEF Clonable
<1>4. n \in Nat /\ DOMAIN es = 1 .. n /\ \A k \in 1 .. n : es[k] \in Entries
  BY <1>1
<1> HIDE DEF n, es
<1>5. \A e \in Entries : /\ Entry(e.bytes, Normal(e.type), << >>, 0) \in Entries
                         /\ [e EXCEPT !.type = Normal(@)] \in Entries
  <2>1. << >> \in Texts /\ 0 \in Stamps
    BY TextsAre, ZeroStamp
  <2>2. ASSUME NEW e \in Entries
        PROVE  /\ Entry(e.bytes, Normal(e.type), << >>, 0) \in Entries
               /\ [e EXCEPT !.type = Normal(@)] \in Entries
    <3>1. Normal(e.type) \in Texts
      BY EntryFields, NormalIs
    <3> QED
      BY <2>1, <3>1 DEF Entries, Entry
  <2> QED
    BY <2>2
<1>6. made \in [1 .. n -> Entries]
  BY <1>4, <1>5
<1>7. made \in Seq(Entries) /\ Len(made) = n
  <2> HIDE DEF made
  <2>1. made \in Seq(Entries) /\ DOMAIN made = 1 .. n
    BY ONLY <1>4, <1>6, SeqDef
  <2>2. Len(made) \in Nat /\ DOMAIN made = 1 .. Len(made)
    BY ONLY <2>1
  <2> QED
    BY ONLY <1>4, <2>1, <2>2
<1>8. tag = "Blob" => made[1].name = << >> /\ made[1].stamp = 0
  <2> SUFFICES ASSUME tag = "Blob" PROVE made[1] = Entry(es[1].bytes, Normal(es[1].type), << >>, 0)
    BY DEF Entry
  <2>1. 1 \in DOMAIN es
    BY <1>3, <1>4, "Blob" # "FileList"
  <2> QED
    BY <2>1
<1> HIDE DEF made
<1>9. Payload(tag, made).tag = tag /\ Payload(tag, made).entries = made
      /\ Payload(tag, made) \in [tag : {"Blob", "File", "FileList"}, entries : Seq(Entries)]
  BY <1>7 DEF Payload
<1> QED
  BY <1>2, <1>3, <1>7, <1>8, <1>9 DEF IsPayload

\* The conjuncts of the invariant.  Until the bytes are altered they are the
\* encoding of the payload; what was received is what they decode to, and they
\* are not altered after that.
PayloadRight == payload # None => IsPayload(payload)
WireRight == wire # None => payload # None /\ wire \in Bytes
SentRight == /\ altered \in Nat
             /\ wire # None /\ altered = 0 => Encode(payload).ok /\ wire = Encode(payload).value
ReceivedRight == received # None => wire # None /\ Decode(wire).ok /\ received = Decode(wire).value
ResultRight == result # None => received # None /\ result = ObjectOf(received)

WireInv == PayloadRight /\ WireRight /\ SentRight /\ ReceivedRight /\ ResultRight

\* The bytes stay bytes, however the host alters them.
LEMMA AlteredBytes ==
    ASSUME NEW s \in Bytes
    PROVE  /\ \A n \in 0 .. Len(s) - 1 : SubSeq(s, 1, n) \in Bytes
           /\ \A d \in Digits : Append(s, d) \in Bytes
           /\ \A k \in DOMAIN s, d \in Digits : [s EXCEPT ![k] = d] \in Bytes
<1> DEFINE n == Len(s)
<1>0. s \in Seq(Digits) /\ n \in Nat /\ DOMAIN s = 1 .. n /\ \A k \in 1 .. n : s[k] \in Digits
  BY DEF Bytes
<1>1. \A m \in 0 .. Len(s) - 1 : SubSeq(s, 1, m) \in Bytes
  <2> SUFFICES ASSUME NEW m \in 0 .. Len(s) - 1 PROVE SubSeq(s, 1, m) \in Seq(Digits)
    BY DEF Bytes
  <2>1. \A i \in 1 .. m : s[i] \in Digits
    BY <1>0
  <2> QED
    BY <1>0, <2>1, SubSeqProperties
<1>2. \A d \in Digits : Append(s, d) \in Bytes
  BY <1>0, AppendProperties DEF Bytes
<1>3. ASSUME NEW k \in DOMAIN s, NEW d \in Digits PROVE [s EXCEPT ![k] = d] \in Bytes
  BY <1>0, ExceptSeq DEF Bytes
<1> QED
  BY <1>1, <1>2, <1>3

\* A cloning operation of the sender makes a payload.
LEMMA CloneKeeps ==
    ASSUME WireInv, NEW object \in Objects, NEW tag \in {"Blob", "File", "FileList"}, CloneAs(tag, object)
    PROVE  WireInv'
<1>1. payload = None /\ UNCHANGED <<wire, altered, received, result>> /\ IsPayload(payload')
  BY SerializedIs DEF CloneAs
<1>2. wire = None /\ received = None /\ result = None
  BY <1>1 DEF WireInv, WireRight, ReceivedRight, ResultRight
<1> QED
  BY <1>1, <1>2 DEF WireInv, PayloadRight, WireRight, SentRight, ReceivedRight, ResultRight

\* An object is made of what was received.
LEMMA MadeKeeps ==
    ASSUME WireInv, NEW tag, MadeFrom(tag)
    PROVE  WireInv'
<1>1. /\ UNCHANGED <<payload, wire, altered, received>> /\ received # None
      /\ result' = ObjectOf(received)
  BY DEF MadeFrom, ObjectOf, Lower
<1> QED
  BY <1>1 DEF WireInv, PayloadRight, WireRight, SentRight, ReceivedRight, ResultRight

\* The steps of the two handles and of the host keep the invariant.
LEMMA WireInvStep ==
    ASSUME WireInv, [Next]_vars
    PROVE  WireInv'
<1>1. ASSUME NEW object \in Objects, CloneBlob(object) \/ CloneFile(object) \/ CloneFileList(object)
      PROVE  WireInv'
  BY <1>1, CloneKeeps DEF CloneBlob, CloneFile, CloneFileList
<1>2. CASE MakePayload
  <2>1. payload = None /\ UNCHANGED <<wire, altered, received, result>> /\ IsPayload(payload')
    BY <1>2, PayloadsAssumption DEF MakePayload
  <2>2. wire = None /\ received = None /\ result = None
    BY <2>1 DEF WireInv, WireRight, ReceivedRight, ResultRight
  <2> QED
    BY <2>1, <2>2 DEF WireInv, PayloadRight, WireRight, SentRight, ReceivedRight, ResultRight
<1>3. CASE EncodeViaBridge
  <2>1. /\ payload # None /\ wire = None /\ UNCHANGED <<payload, altered, received, result>>
        /\ Encode(payload).ok /\ wire' = Encode(payload).value
    BY <1>3 DEF EncodeViaBridge
  <2>2. IsPayload(payload) /\ received = None /\ result = None
    BY <2>1 DEF WireInv, PayloadRight, ReceivedRight, ResultRight
  <2>3. wire' \in Bytes
    BY <2>1, <2>2, EncodeDecode
  <2> QED
    BY <2>1, <2>2, <2>3 DEF WireInv, PayloadRight, WireRight, SentRight, ReceivedRight, ResultRight
<1>4. CASE Alter
  <2>1. /\ wire # None /\ received = None /\ altered' = altered + 1
        /\ UNCHANGED <<payload, received, result>>
    BY <1>4 DEF Alter
  <2>2. /\ payload # None /\ wire \in Bytes /\ result = None /\ altered \in Nat
    BY <2>1 DEF WireInv, WireRight, SentRight, ResultRight
  <2>3. wire' \in Bytes
    BY <1>4, <2>2, AlteredBytes DEF Alter, Digits
  <2>4. altered' \in Nat /\ altered' # 0
    BY <2>1, <2>2
  <2> QED
    BY <2>1, <2>2, <2>3, <2>4 DEF WireInv, PayloadRight, WireRight, SentRight, ReceivedRight, ResultRight
<1>5. CASE DecodeViaBridge
  <2>1. /\ wire # None /\ received = None /\ UNCHANGED <<payload, wire, altered, result>>
        /\ Decode(wire).ok /\ received' = Decode(wire).value
    BY <1>5 DEF DecodeViaBridge
  <2>2. result = None
    BY <2>1 DEF WireInv, ResultRight
  <2> QED
    BY <2>1, <2>2 DEF WireInv, PayloadRight, WireRight, SentRight, ReceivedRight, ResultRight
<1>6. CASE BlobFromClone \/ FileFromClone \/ FileListFromClone
  BY <1>6, MadeKeeps DEF BlobFromClone, FileFromClone, FileListFromClone
<1>7. ASSUME NEW handle \in Handles, Shutdown(handle) PROVE WireInv'
  BY <1>7 DEF Shutdown, WireInv, PayloadRight, WireRight, SentRight, ReceivedRight, ResultRight
<1>8. CASE UNCHANGED vars
  BY <1>8 DEF vars, WireInv, PayloadRight, WireRight, SentRight, ReceivedRight, ResultRight
<1> QED
  BY <1>1, <1>2, <1>3, <1>4, <1>5, <1>6, <1>7, <1>8 DEF Next

\* What is kept of a payload on its way: until the host alters them the bytes
\* are its encoding, and what is received is what the bytes decode to.
THEOREM WireInvariant == Spec => []WireInv
<1>1. Init => WireInv
  BY DEF Init, WireInv, PayloadRight, WireRight, SentRight, ReceivedRight, ResultRight
<1>2. WireInv /\ [Next]_vars => WireInv'
  BY WireInvStep
<1> QED
  BY <1>1, <1>2, PTL DEF Spec

\* Whatever clone_decode_via_bridge accepts, cut, lengthened or altered as it
\* may be, is the encoding of the payload it makes of it.
THEOREM CodecIsStrict == Spec => []CodecStrict
<1>1. ASSUME WireInv PROVE CodecStrict
  <2> SUFFICES ASSUME received # None PROVE Encode(received).ok /\ Encode(received).value = wire
    BY DEF CodecStrict
  <2>1. wire \in Bytes /\ Decode(wire).ok /\ received = Decode(wire).value
    BY <1>1 DEF WireInv, WireRight, ReceivedRight
  <2>2. Encode(received) = At(wire, Len(wire))
    BY <2>1, DecodeEncode
  <2> QED
    BY <2>2, Results
<1>2. WireInv => CodecStrict
  BY <1>1
<1> QED
  BY <1>2, WireInvariant, PTL

\* What clone_encode_via_bridge makes of a payload decodes to the same payload
\* and keeps the limit; an object that comes through has what was sent.
THEOREM RoundTripHolds == Spec => []RoundTrip
<1>1. ASSUME WireInv PROVE RoundTrip
  <2>1. ASSUME wire # None, altered = 0
        PROVE  Decode(wire) = At(payload, Len(wire)) /\ Len(wire) <= MaxBytes
    <3>1. IsPayload(payload) /\ Encode(payload).ok /\ wire = Encode(payload).value
      BY <1>1, <2>1 DEF WireInv, PayloadRight, WireRight, SentRight
    <3> QED
      BY <3>1, EncodeDecode
  <2>2. ASSUME result # None, altered = 0
        PROVE  /\ result.brand = payload.tag
               /\ result.entries = [k \in DOMAIN payload.entries |->
                                       [payload.entries[k] EXCEPT !.type = Normal(@)]]
    <3>1. result = ObjectOf(received) /\ wire # None /\ received = Decode(wire).value
      BY <1>1, <2>2 DEF WireInv, ReceivedRight, ResultRight
    <3>2. received = payload
      BY <2>1, <2>2, <3>1, Results
    <3> QED
      BY <3>1, <3>2 DEF ObjectOf, Lower
  <2> QED
    BY <2>1, <2>2 DEF RoundTrip
<1>2. WireInv => RoundTrip
  BY <1>1
<1> QED
  BY <1>2, WireInvariant, PTL
=============================================================================
