-------------------------- MODULE ResourcePricing --------------------------
(***************************************************************************)
(* What the resources of the chain are said to cost: RAM from its market,  *)
(* and CPU and NET by powerup.  Prices are in units of the token.  BN is a *)
(* library of integers, so its quotients are cut where the contract's are  *)
(* fractions; the two divisions of a float are exact here.                 *)
(***************************************************************************)
EXTENDS ChainIntegers

CONSTANTS
    Precision,      \* 10^8: of a sample
    FracScale       \* 10^15: of the part of the whole that is rented

ASSUME PricingAssumption == Precision \in Nat \ {0} /\ FracScale \in Nat \ {0}

RoundUp(a, b) == -((-a) \div b)
Least(a, b) == IF a < b THEN a ELSE b

---------------------------------------------------------------------------
(* RAM.                                                                    *)

\* (quote * value) / (base - value), rounded up.
GetInput(base, quote, value) ==
    Operating("divCeil", Operating("mul", quote, value), Operating("sub", base, value))

---------------------------------------------------------------------------
(* The sample: what an account got for its weight.                         *)

\* divCeil of the resources takes one off where there is a rest.
SampleQuotient(num, den) ==
    LET v == num \div den
    IN  IF num % den > 0 /\ v > 1 THEN v - 1 ELSE v

GetSampledUsage(max, weight) == SampleQuotient(max * Precision, weight)

\* Microseconds or bytes to weight.
ToWeight(sample, amount) == (amount * Precision) \div sample

---------------------------------------------------------------------------
(* Powerup: r is the state of a resource.                                  *)

\* The part of the weight: a whole number of times the weight, before scaling.
Frac(r, sample, amount) == (ToWeight(sample, amount) \div r.weight) * FracScale

UtilizationIncrease(r, frac) == (r.weight * frac) \div FracScale

\* Between utilization and what was recorded, by how long ago that was.
AdjustedUtilizations(r) ==
    IF r.utilization < r.adjusted THEN r.utilization..r.adjusted ELSE {r.adjusted}

PriceFunction(r, utilization) ==
    IF r.exponent <= 1 THEN r.maxPrice
    ELSE r.minPrice + (r.maxPrice - r.minPrice) * Power(utilization \div r.weight, r.exponent - 1)

\* exponent times the integral of the price.
PriceIntegralDelta(r, start, end) ==
    LET at(utilization) ==
            LET u == utilization \div r.weight
            IN  r.exponent * r.minPrice * u + (r.maxPrice - r.minPrice) * Power(u, r.exponent)
    IN  at(end) - at(start)

\* exponent * weight times the fee.
Fee(r, increase, adjusted) ==
    LET below == r.utilization < adjusted
        start == IF below THEN adjusted ELSE r.utilization
        end == r.utilization + increase
    IN  (IF below THEN r.exponent * PriceFunction(r, adjusted) * Least(increase, adjusted - r.utilization)
         ELSE 0)
        + (IF start < end THEN r.weight * PriceIntegralDelta(r, start, end) ELSE 0)

PricePer(r, sample, amount, adjusted) ==
    RoundUp(Fee(r, UtilizationIncrease(r, Frac(r, sample, amount)), adjusted), r.exponent * r.weight)
=============================================================================
