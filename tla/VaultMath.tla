----------------------------- MODULE VaultMath ------------------------------
(***************************************************************************)
(* The arithmetic of ArcaidiaLiquidityVault and FeePolicyLib as pure       *)
(* operators: what a vault may advance, what its LPs may withdraw and what *)
(* it may charge, given its balances and its limits in basis points.       *)
(* BPS_DENOMINATOR is 10_000 in the code; it is a constant here so that    *)
(* small amounts still meet every rounding case.                           *)
(***************************************************************************)
EXTENDS Integers

CONSTANT BPS_DENOMINATOR

ASSUME BpsAssumption == BPS_DENOMINATOR \in Nat \ {0}

Bps == 0 .. BPS_DENOMINATOR

\* Math.mulDiv with Rounding.Floor and Rounding.Ceil.
MulDivFloor(a, b, c) == (a * b) \div c
MulDivCeil(a, b, c)  == (a * b + c - 1) \div c

\* Subtraction that stops at zero, the "a > b ? a - b : 0" of the views.
Monus(a, b) == IF a > b THEN a - b ELSE 0

-----------------------------------------------------------------------------
(* The posted fee schedule: FeePolicyLib. *)

FeePolicies ==
    [base : Bps, mid : Bps, high : Bps, critical : Bps,
     midAt : Bps, highAt : Bps, criticalAt : Bps]

\* Thresholds strictly ascending, fees monotonic, none above the ceiling.
ValidPolicy(p, maxFeeBps) ==
    /\ p.midAt < p.highAt
    /\ p.highAt < p.criticalAt
    /\ p.criticalAt <= BPS_DENOMINATOR
    /\ p.base <= p.mid
    /\ p.mid <= p.high
    /\ p.high <= p.critical
    /\ p.critical <= maxFeeBps

FeeBpsAt(p, utilisation) ==
    CASE utilisation >= p.criticalAt -> p.critical
      [] utilisation \in p.highAt .. p.criticalAt - 1 -> p.high
      [] utilisation \in p.midAt .. p.highAt - 1 -> p.mid
      [] OTHER -> p.base

\* Rounded up, in the vault's favour.
FeeAmountFor(amount, feeBps) == MulDivCeil(amount, feeBps, BPS_DENOMINATOR)

-----------------------------------------------------------------------------
(* Liquidity and limits.  "liquid" is the LPs' share of the token balance, *)
(* "exposure" the advanced principal not yet reimbursed.                   *)

LpLiquidBalance(held, accruedFees) == Monus(held, accruedFees)

ReserveFloor(total, floorBps) == MulDivCeil(total, floorBps, BPS_DENOMINATOR)

AvailableLiquidity(liquid, exposure, floorBps) ==
    Monus(liquid, ReserveFloor(liquid + exposure, floorBps))

MaxFillAmount(total, fillBps) == MulDivFloor(total, fillBps, BPS_DENOMINATOR)

MaxOutstandingExposure(total, exposureBps) ==
    MulDivFloor(total, exposureBps, BPS_DENOMINATOR)

Utilisation(exposure, total) ==
    IF total = 0 THEN BPS_DENOMINATOR
    ELSE MulDivFloor(exposure, BPS_DENOMINATOR, total)

\* Liquidity a withdrawal must leave for the reserve floor and for the
\* exposure cap, with a receivable it cannot reduce.
RetainedForFloor(exposure, floorBps) ==
    MulDivCeil(exposure, floorBps, BPS_DENOMINATOR - floorBps)

RetainedForCap(exposure, exposureBps) ==
    MulDivCeil(exposure, BPS_DENOMINATOR - exposureBps, exposureBps)

MinLiquidRetained(exposure, floorBps, exposureBps) ==
    LET forFloor == RetainedForFloor(exposure, floorBps)
        forCap   == RetainedForCap(exposure, exposureBps)
    IN  IF forFloor > forCap THEN forFloor ELSE forCap

\* With a receivable outstanding, a floor of 100% or a cap of zero makes the
\* code retain type(uint256).max: nothing may leave.
RetainsEverything(floorBps, exposureBps) ==
    floorBps >= BPS_DENOMINATOR \/ exposureBps = 0

WithdrawableLiquidity(liquid, exposure, floorBps, exposureBps) ==
    CASE exposure = 0 -> liquid
      [] exposure # 0 /\ RetainsEverything(floorBps, exposureBps) -> 0
      [] OTHER ->
           Monus(liquid, MinLiquidRetained(exposure, floorBps, exposureBps))

-----------------------------------------------------------------------------
(* Splitting a reimbursement. *)

ProtocolShare(fee, shareBps) == MulDivFloor(fee, shareBps, BPS_DENOMINATOR)
=============================================================================
