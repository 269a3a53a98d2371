------------------------- MODULE CheckedArithmetic -------------------------
(***************************************************************************)
(* The integer helpers that codegen/rust/checked_arith.py emits and the    *)
(* list index that codegen/rust/generator.py renders: Rust's arithmetic on *)
(* words of two's complement, made to give what Python gives or to raise.  *)
(* Half is 2^63 in the emitted code; nothing depends on it.                *)
(***************************************************************************)
EXTENDS Integers

CONSTANT Half  \* one more than the largest word

Word == -Half .. Half - 1

Value(x) == [raises |-> "nothing", value |-> x]
Raise(error) == [raises |-> error, value |-> 0]

\* checked_add and its like are None, which raises, exactly when the result does
\* not fit a word
Checked(x) == IF x \in Word THEN Value(x) ELSE Raise("OverflowError")

CheckedAdd(a, b) == Checked(a + b)
CheckedSub(a, b) == Checked(a - b)
CheckedMul(a, b) == Checked(a * b)
CheckedNeg(a) == Checked(-a)

Magnitude(a) == IF a < 0 THEN -a ELSE a
CheckedAbs(a) == Checked(Magnitude(a))

\* Rust's remainder takes the sign of the dividend; the one division that
\* overflows is unwrapped to 0
TruncatedRem(a, b) ==
    IF a = -Half /\ b = -1 THEN 0
    ELSE IF a < 0 THEN -(Magnitude(a) % Magnitude(b))
    ELSE a % Magnitude(b)

\* (r ^ b) < 0: the sign bits differ
SignsDiffer(r, b) == (r < 0) # (b < 0)

Floored(r, b) == IF r # 0 /\ SignsDiffer(r, b) THEN r + b ELSE r

CheckedRem(a, b) ==
    IF b = 0 THEN Raise("ZeroDivisionError") ELSE Value(Floored(TruncatedRem(a, b), b))

\* try_fold with checked_add: what is left of a failed fold is the failure
SumStep(result, x) == IF result.raises = "nothing" THEN CheckedAdd(result.value, x) ELSE result

\* xs[index] with n items: a negative index counts from the end, and the bounds
\* are checked before the cast to an unsigned type
FromEnd(index, n) == IF index < 0 THEN CheckedAdd(index, n) ELSE Value(index)
ItemAt(index, n) ==
    LET k == FromEnd(index, n) IN
    IF k.raises = "nothing" /\ k.value \in 0..(n - 1) THEN k ELSE Raise("IndexError")

\* Python's a % b: the remainder of the floored quotient
IsPythonRem(a, b, r) ==
    /\ \E q \in Int : a = b * q + r
    /\ IF b > 0 THEN 0 <= r /\ r < b ELSE b < r /\ r <= 0

\* The item Python takes for an index: none outside -n..n-1
PythonItem(index, n) == IF index < 0 THEN index + n ELSE index
=============================================================================
