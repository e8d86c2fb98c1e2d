---------------------------- MODULE SolverPolicy ----------------------------
(***************************************************************************)
(* The solver's decision: evaluateIntent and the helpers it prices and     *)
(* sizes with, as operators on what it has observed.  It decides whether   *)
(* to advance; the price is the vault's.                                   *)
(*                                                                         *)
(*   i  the intent:  amount, maxFeeBps                                     *)
(*   v  the vault as observed: held, accrued, exposure, reserveFloor,      *)
(*      maxFill, maxExposure, feeBps, paused, age of the observation       *)
(*   h  settlement health: transport, slow (its average latency is above   *)
(*      the policy's), pending, oldest (an age, or Unknown)                *)
(*   p  the risk policy                                                    *)
(*   c  the context: confirmations, filled, expired, trade, satisfiable    *)
(***************************************************************************)
EXTENDS VaultMath, Sequences

Unknown == -1                        \* null, of an age

\* The sort: ascending by amount, and stable.
TierBefore(p, k, n) ==
    \/ p.tiers[k].upTo < p.tiers[n].upTo
    \/ p.tiers[k].upTo = p.tiers[n].upTo /\ k <= n

HighestRequirement(p) ==
    CHOOSE c \in {p.tiers[k].confirmations : k \in DOMAIN p.tiers} :
        \A k \in DOMAIN p.tiers : p.tiers[k].confirmations <= c

\* The first tier an amount fits in, whatever order the policy lists them in;
\* above them all, the highest requirement.
RequiredConfirmations(p, amount) ==
    LET fits == {k \in DOMAIN p.tiers : amount <= p.tiers[k].upTo}
    IN  CASE p.tiers = <<>> -> 0
          [] fits # {} ->
               LET first == CHOOSE k \in fits : \A n \in fits : TierBefore(p, k, n)
               IN  p.tiers[first].confirmations
          [] OTHER -> HighestRequirement(p)

IsSettlementSlowing(h) == h.transport = "DEGRADED" \/ h.slow

SmallerAmount(a, b) == IF a < b THEN a ELSE b

EffectiveMaxFillAmount(p, h) ==
    IF IsSettlementSlowing(h) THEN SmallerAmount(p.slowMaxFill, p.maxFill)
    ELSE p.maxFill

ObservedAvailable(v) ==
    Monus(LpLiquidBalance(v.held, v.accrued), v.reserveFloor)

-----------------------------------------------------------------------------
(* What evaluateIntent asks, in its order. *)

MustPause(v, h) == h.transport = "UNAVAILABLE" \/ v.paused

NoBacklog(h, p) ==
    /\ h.pending <= p.backlogRejectValue
    /\ h.oldest = Unknown \/ h.oldest <= p.maxOldestAge

EvidenceHolds(i, v, p, c) ==
    /\ v.age <= p.maxObservationAge
    /\ ~ c.filled
    /\ ~ c.expired
    /\ c.confirmations >= RequiredConfirmations(p, i.amount)

TradeSupported(c) == c.trade => c.satisfiable

\* Mutant: the policy's ceiling alone, as before the vault's was read.
FitsSize_PolicyAlone(i, v, h, p) == i.amount <= EffectiveMaxFillAmount(p, h)

FitsSize(i, v, h, p) ==
    i.amount <= SmallerAmount(v.maxFill, EffectiveMaxFillAmount(p, h))

QuotedFee(i, v) == FeeAmountFor(i.amount, v.feeBps)

PriceAccepted(i, v) ==
    /\ v.feeBps <= i.maxFeeBps
    /\ i.amount - QuotedFee(i, v) > 0

FitsCapital(i, v, p) ==
    LET out == i.amount - QuotedFee(i, v) IN
    /\ out <= ObservedAvailable(v)
    /\ v.exposure + out <= SmallerAmount(v.maxExposure, p.maxExposure)

Accepts(i, v, h, p, c) ==
    /\ ~ MustPause(v, h)
    /\ NoBacklog(h, p)
    /\ EvidenceHolds(i, v, p, c)
    /\ TradeSupported(c)
    /\ FitsSize(i, v, h, p)
    /\ PriceAccepted(i, v)
    /\ FitsCapital(i, v, p)
=============================================================================
