----------------------------- MODULE DulNumber -----------------------------
(***************************************************************************)
(* What the lexer makes of the characters of a literal (lexer.c:151-163):  *)
(* strtod (external) gives the nearest double, and a double that is an     *)
(* int64_t becomes one.                                                    *)
(*                                                                         *)
(*    [sig |-> s, exp |-> e]   the double s * 2^e                          *)
(*                                                                         *)
(* s is a number of Precision bits, the first of them set, or zero.  The   *)
(* exponent has no bounds: no literal has the 300 digits that make it an   *)
(* infinity, or zero by underflow.                                         *)
(***************************************************************************)
EXTENDS DulArith, SequencesExt

CONSTANT Precision   \* the bits of the significand of a double: 53

ASSUME PrecisionAssumption == Precision \in Nat \ {0}

(* A literal is Numerator / Denominator: digits, with a point between them *)
(* or behind them.                                                         *)
ValueOf(digit) ==
  (CHOOSE i \in 1 .. 10 : <<"0","1","2","3","4","5","6","7","8","9">>[i] = digit) - 1

Numerator(chars) ==
  FoldLeft(LAMBDA n, c : 10 * n + ValueOf(c), 0, SelectSeq(chars, LAMBDA c : c # "."))

Denominator(chars) ==
  LET points == {i \in DOMAIN chars : chars[i] = "."}
  IN  10 ^ (IF points = {} THEN 0 ELSE Len(chars) - Max(points))

(* The integer nearest to n / d, the even one if there are two. *)
Nearest(n, d) ==
  LET twice == 2 * (n % d)
      up    == twice > d \/ (twice = d /\ (n \div d) % 2 = 1)
  IN  n \div d + (IF up THEN 1 ELSE 0)

(* n / d rounded to the significand of a double with the given exponent.   *)
Scaled(n, d, exp) == IF exp < 0 THEN Nearest(n * 2 ^ (-exp), d) ELSE Nearest(n, d * 2 ^ exp)

(* The exponent is the least with which the significand has Precision      *)
(* bits: a character counts for less than four bits, on either side.       *)
strtod(chars) ==
  LET double[n \in Nat, d \in Nat, bits \in Nat] ==
        LET fits(exp) == Scaled(n, d, exp) < 2 ^ Precision
            least     == bits - Precision - CHOOSE k \in 0 .. 2 * bits :
                           LET exp == bits - Precision - k IN fits(exp) /\ ~fits(exp - 1)
        IN  IF n = 0 THEN [sig |-> 0, exp |-> 0]
            ELSE [sig |-> Scaled(n, d, least), exp |-> least]
  IN  double[Numerator(chars), Denominator(chars), 4 * Len(chars)]

(* The cast (int64_t)number drops the fraction.  Beyond the range of an    *)
(* int64_t it is undefined; the instruction of x86-64, for which the       *)
(* program is built, gives INT64_MIN.                                      *)
Whole(number) == IF number.exp < 0 THEN number.sig \div 2 ^ (-number.exp)
                                   ELSE number.sig * 2 ^ number.exp
Int64(number) == IF Whole(number) <= IntMax THEN Whole(number) ELSE IntMin

(* number == (int64_t)number *)
Integral(number) ==
  /\ Int64(number) = Whole(number)
  /\ number.exp < 0 => number.sig % 2 ^ (-number.exp) = 0
=============================================================================
