------------------------------ MODULE Checked -------------------------------
(***************************************************************************)
(* The checked arithmetic of core/checked.hpp, over integers of any width. *)
(* Where the code checks, a value is computed together with a predicate    *)
(* that says whether it fits; where it casts, the value wraps.             *)
(***************************************************************************)
EXTENDS Integers, Sequences, SequencesExt

CONSTANTS
  U64Max,    \* the largest unsigned integer
  I64Max,    \* the largest signed integer
  Ppm        \* parts in a whole, kPpmScale

ASSUME CheckedAssumption ==
  /\ U64Max \in Nat /\ I64Max \in Nat \ {0} /\ U64Max = 2 * I64Max + 1
  /\ Ppm \in Nat \ {0}

AddFits(a, b) == a + b <= U64Max
MulFits(a, b) == a * b <= U64Max

\* mul_div_u64: the quotient and the remainder are multiplied apart, and the
\* answer is refused when one of the products does not fit.
MulDivFits(a, b, d) ==
  /\ d # 0
  /\ MulFits(a \div d, b)
  /\ MulFits(a % d, b)
  /\ AddFits((a \div d) * b, ((a % d) * b) \div d)
MulDiv(a, b, d) == (a \div d) * b + ((a % d) * b) \div d

ScaleFits(value, ppm) == MulDivFits(value, ppm, Ppm)
Scale(value, ppm) == MulDiv(value, ppm, Ppm)

\* A term that does not fit is left out of the sum and remembered: an
\* Accumulator is valid() when no term was.
Accumulated(terms) ==
  FoldLeft(LAMBDA sum, term : IF AddFits(sum, term) THEN sum + term ELSE sum, 0, terms)
Fits(terms) == SumFunction(terms) <= U64Max

\* A cast of an unsigned integer to a signed one.
Signed(x) == IF x > I64Max THEN x - (U64Max + 1) ELSE x

\* Signed arithmetic that is not checked, in two's complement.
Wrapped(x) == Signed(x % (U64Max + 1))

InI64(x) == x \in -(I64Max + 1) .. I64Max
SubFits(a, b) == b # -(I64Max + 1) /\ InI64(a - b)

=============================================================================
