---------------------------- MODULE WebIdlNumbers -----------------------------
(***************************************************************************)
(* Numbers of JavaScript as arguments: doubles, and what webidl.rs makes   *)
(* of them.  A double has Mantissa bits after its leading one (52 in the   *)
(* code), an integer has Width bits (64), and no double is cut finer than  *)
(* FractionBits bits after the point.                                      *)
(***************************************************************************)
EXTENDS Integers

CONSTANTS Mantissa, Width, FractionBits

ASSUME NumbersAssumption ==
    /\ Mantissa \in Nat /\ Width \in Nat \ {0}
    /\ Mantissa <= Width
    /\ FractionBits \in Nat /\ Mantissa <= FractionBits

\* Powers of two.
Pow2[n \in Nat] == IF n = 0 THEN 1 ELSE 2 * Pow2[n - 1]

\* A value that is no finite number but zero: the fields left are not looked at.
Special(class) == [class |-> class, sign |-> 1, m |-> 0, e |-> 0]
Finite(sign, m, e) == [class |-> "finite", sign |-> sign, m |-> m, e |-> e]

Signs == {1, -1}
Doubles ==
    [class : {"nan", "inf", "zero"}, sign : Signs, m : {0}, e : {0}]
    \cup {x \in [class : {"finite"}, sign : Signs, m : 0 .. Pow2[Mantissa] - 1, e : Int] :
             x.e >= Mantissa - FractionBits}

IntMax == Pow2[Width - 1] - 1
IntMin == -Pow2[Width - 1]

-----------------------------------------------------------------------------
(* The value itself, in units of the last bit after the point.             *)

Unit == Pow2[FractionBits]
Units(x) == IF x.class = "zero" THEN 0
            ELSE x.sign * (Pow2[Mantissa] + x.m) * Pow2[x.e + FractionBits - Mantissa]

Magnitude(n) == IF n < 0 THEN -n ELSE n
Truncated(x) == LET size == Magnitude(Units(x)) \div Unit
                IN  IF Units(x) < 0 THEN -size ELSE size

\* f64::round_ties_even.
RoundedTiesEven(x) ==
    LET below == Units(x) \div Unit
        left == Units(x) % Unit
    IN  IF 2 * left < Unit \/ (2 * left = Unit /\ below % 2 = 0) THEN below ELSE below + 1

-----------------------------------------------------------------------------
(* Conversions.                                                            *)

\* magnitude_mod_u64: the mantissa shifted to its place, within Width bits.
MagnitudeMod(m, e) ==
    LET integer == m + Pow2[Mantissa]
    IN  IF e < 0 \/ e >= Width + Mantissa THEN 0
        ELSE IF e >= Mantissa THEN (integer * Pow2[e - Mantissa]) % Pow2[Width]
        ELSE integer \div Pow2[Mantissa - e]

\* f64_to_u64_wrap.
Wrapped(x) ==
    IF Truncated(x) = 0 THEN 0
    ELSE IF x.sign = -1 THEN (Pow2[Width] - MagnitudeMod(x.m, x.e)) % Pow2[Width]
    ELSE MagnitudeMod(x.m, x.e)

\* f64_to_long_long.
LongLong(x) ==
    IF x.class = "nan" THEN 0
    ELSE IF x.class = "inf" THEN IF x.sign = 1 THEN IntMax ELSE IntMin
    ELSE IF Wrapped(x) > IntMax THEN Wrapped(x) - Pow2[Width] ELSE Wrapped(x)

\* f64_to_clamped_long_long.
ClampedLongLong(x) ==
    IF x.class = "nan" THEN 0
    ELSE IF x.class = "inf" THEN IF x.sign = 1 THEN IntMax ELSE IntMin
    ELSE IF RoundedTiesEven(x) > IntMax THEN IntMax
    ELSE IF RoundedTiesEven(x) < IntMin THEN IntMin
    ELSE RoundedTiesEven(x)
=============================================================================
