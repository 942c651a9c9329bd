------------------------------- MODULE Money -------------------------------
(***************************************************************************)
(* Amounts are int64 cents (internal/domain/money/money.go).  MaxInt stands  *)
(* for math.MaxInt64, so that a model may use a small machine word.          *)
(***************************************************************************)
EXTENDS Integers

CONSTANT MaxInt          \* math.MaxInt64

ASSUME MaxIntAssumption == MaxInt \in Nat \ {0}

MinInt == -MaxInt - 1    \* math.MinInt64

Int64 == MinInt..MaxInt

\* Money.Add returns a value instead of ErrOverflow.  The guards are the code's:
\* they must themselves stay inside the machine word.
AddFits(a, b) ==
  /\ ~(b > 0 /\ a > MaxInt - b)
  /\ ~(b < 0 /\ a < MinInt - b)

\* Money.Sub: MinInt64 has no negation, everything else is Add of the negation.
SubFits(a, b) == b # MinInt /\ AddFits(a, -b)

\* A decimal as the caller writes it: units * 10^-places.
Decimal == [units : Int, places : Nat]

\* int64 arithmetic is modulo the word.
Wrap(n) == ((n - MinInt) % (2 * (MaxInt + 1))) + MinInt

\* The cents of a decimal with at most two places.
Cents(d) ==
  CASE d.places = 0 -> 100 * d.units
    [] d.places = 1 -> 10 * d.units
    [] OTHER        -> d.units

\* Mutant: a third place is cut off silently.
ParsesRounding(d) == d.units >= 0
\* Parse accepts a decimal: not negative, at most two places.
Parses(d) == d.units >= 0 /\ d.places <= 2

\* The amount Parse returns.  IntPart takes the low 64 bits of the cents: Parse
\* looks at no upper limit.
Parsed(d) == Wrap(Cents(d))
=============================================================================
