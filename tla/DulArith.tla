------------------------------ MODULE DulArith ------------------------------
(***************************************************************************)
(* Values of the language and what its four operators compute.             *)
(*                                                                         *)
(*    <<"int", n>>   an int64_t                                            *)
(*    <<"lit", f>>   a double that a literal denotes                       *)
(*    <<"cast", n>>  the double an int64_t converts to                     *)
(*    <<op, x, y>>   the double that op gives for the doubles x and y      *)
(*                                                                         *)
(* A double is the term of the operations behind it: the same operations   *)
(* on the same doubles give the same double, folded or executed.           *)
(***************************************************************************)
EXTENDS Integers

CONSTANT IntMax     \* INT64_MAX: the largest int64_t

ASSUME IntMaxAssumption == IntMax \in Nat \ {0}

IntMin == -IntMax - 1

(* What a register keeps of a result that is out of range. *)
Wrapped(n) == ((n - IntMin) % (IntMax - IntMin + 1)) + IntMin

Magnitude(a) == IF a < 0 THEN -a ELSE a

(* Division of int64_t: towards zero. *)
Quotient(a, b) == LET q == Magnitude(a) \div Magnitude(b)
                  IN  IF (a < 0) = (b < 0) THEN q ELSE -q

(* The divisions the processor refuses: by zero, and the one whose result  *)
(* is out of range.                                                        *)
IntTraps(type, lhs, rhs) == type = "DIV" /\ (rhs = 0 \/ (lhs = IntMin /\ rhs = -1))

(* The operators on two int64_t, as the built program computes them: the   *)
(* target is built without optimisation and traps no overflow.             *)
IntResult(type, lhs, rhs) ==
  Wrapped(CASE type = "PLUS"  -> lhs + rhs
            [] type = "MINUS" -> lhs - rhs
            [] type = "MULT"  -> lhs * rhs
            [] type = "DIV"   -> Quotient(lhs, rhs))

IsInt(v)    == v[1] = "int"
ToDouble(v) == IF IsInt(v) THEN <<"cast", v[2]>> ELSE v
=============================================================================
