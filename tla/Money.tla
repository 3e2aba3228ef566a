------------------------------- MODULE Money -------------------------------
(***************************************************************************)
(* Decimal amounts as the services compute them (core/utils/decimal.util)  *)
(* and as the decimal(18,4) columns store them.                            *)
(*                                                                         *)
(* An amount is an integer number of grains of 0.00001: one digit finer    *)
(* than the four decimals a column keeps, so that an amount can lie        *)
(* between two ticks (0.0001) and exactly half way between them.  A rate   *)
(* is an integer over RateOne.  Sums stay far below the 20 significant     *)
(* digits of decimal.js, so toFixed(4) is the only rounding.               *)
(***************************************************************************)
EXTENDS Integers

CONSTANT RateOne    \* the rate 1.0

ASSUME RateOneAssumption == RateOne \in Nat \ {0}

Tick == 10          \* 0.0001: the scale of toFixed(4) and of decimal(18,4)

\* toFixed(4) under ROUND_HALF_UP.  Storing a numeric in a decimal(18,4)
\* column rounds the same way.  No amount of the services is negative.
ToFixed(x) == ((x + Tick \div 2) \div Tick) * Tick

Add(a, b) == ToFixed(a + b)

Subtract(a, b) == ToFixed(a - b)

Multiply(a, rate) ==
  ((2 * a * rate + Tick * RateOne) \div (2 * Tick * RateOne)) * Tick

IsPositive(a) == a > 0

IsGreaterThanOrEqual(a, b) == a >= b
=============================================================================
