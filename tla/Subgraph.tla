------------------------------ MODULE Subgraph ------------------------------
(***************************************************************************)
(* A LiquidityVault together with what Arcaidia's index says of it: the    *)
(* Vault entity and the ProtocolState aggregates that subgraph/src keeps   *)
(* by adding up the vault's events, and the solver's decision taken on     *)
(* them.  The entities here are those after the newest block; an index     *)
(* that lags answers with an earlier state of them.  Some of what changes  *)
(* a vault has no event, or none that is handled: a plain USDC transfer,   *)
(* the sweep of the protocol's fees, a change of limits.                   *)
(***************************************************************************)
EXTENDS LiquidityVault, SolverPolicy

CONSTANTS
    RiskPolicy,       \* the solver's policy
    MarketMaxFeeBps,  \* MAX_FEE_BPS of the market and of the fee policies
    MaxDonated        \* bound: USDC that arrives without an event

ASSUME SubgraphAssumption ==
    /\ MarketMaxFeeBps \in Bps
    /\ ValidPolicy(Policy, MarketMaxFeeBps)
    /\ MaxDonated \in Nat
    /\ RiskPolicy.maxFill \in Nat
    /\ RiskPolicy.maxExposure \in Nat
    /\ IsFiniteSet(Intents)

VARIABLES
    entity,    \* the vault's row and the aggregates
    filledAt,  \* history: when each intent was filled, 0 before
    donated,   \* history: USDC received without an event
    swept      \* history: fees the treasury has taken

indexVars == <<entity, filledAt, donated, swept>>
allVars   == <<vars, indexVars>>

Entities ==
    [liquid : Int,       \* liquidBalance
     exposure : Nat,     \* outstandingExposure
     accrued : Nat,      \* accruedProtocolFees
     paused : BOOLEAN,
     feeBps : Bps,       \* currentFeeBps
     limits : LimitSettings,   \* reserveFloorBps, maxFillBps, maxExposureBps
     pending : Nat,      \* pendingSettlementValue
     oldest : Nat]       \* oldestUnsettledTimestamp

-----------------------------------------------------------------------------
(* The handlers. *)

UtilisationOf(e) ==
    Utilisation(e.exposure, LpLiquidBalance(e.liquid, e.accrued) + e.exposure)

RefreshFeeTier(e) == [e EXCEPT !.feeBps = FeeBpsAt(Policy, UtilisationOf(e))]

\* The one handler that writes the limits; no other event of theirs is taken.
HandleVaultCreated(limits) ==
    RefreshFeeTier([liquid |-> 0, exposure |-> 0, accrued |-> 0,
                    paused |-> FALSE, feeBps |-> 0, limits |-> limits,
                    pending |-> 0, oldest |-> 0])

HandleDeposit(e, assets) ==
    RefreshFeeTier([e EXCEPT !.liquid = @ + assets])

HandleWithdraw(e, assets) ==
    RefreshFeeTier([e EXCEPT !.liquid = @ - assets])

\* Mutant: every fill restarts the age of the oldest.
HandleFastFilled_Restarts(e, out, time) ==
    RefreshFeeTier([e EXCEPT !.exposure = @ + out, !.liquid = @ - out,
                             !.pending = @ + out, !.oldest = time])

HandleFastFilled(e, out, time) ==
    RefreshFeeTier(
        [e EXCEPT !.exposure = @ + out, !.liquid = @ - out, !.pending = @ + out,
                  !.oldest = IF @ = 0 THEN time ELSE @])

\* Mutant: what came back is cleared, not what was advanced.
HandleReimbursement_ClearsAmount(e, amount, cleared) ==
    RefreshFeeTier(
        [e EXCEPT !.liquid = @ + amount, !.exposure = @ - amount,
                  !.pending = @ - amount,
                  !.oldest = IF e.pending - amount <= 0 THEN 0 ELSE @])

HandleReimbursement(e, amount, cleared) ==
    RefreshFeeTier(
        [e EXCEPT !.liquid = @ + amount, !.exposure = @ - cleared,
                  !.pending = @ - cleared,
                  !.oldest = IF e.pending - cleared <= 0 THEN 0 ELSE @])

HandleFeesAccrued(e, toProtocol) ==
    RefreshFeeTier([e EXCEPT !.accrued = @ + toProtocol])

HandlePausedSet(e, flag) == [e EXCEPT !.paused = flag]

-----------------------------------------------------------------------------
(* The vault's steps with the events they emit. *)

Now == Cardinality(filled) + 1       \* of the block the next fill is in

NoEvent == UNCHANGED indexVars

Indexed(e) == entity' = e /\ UNCHANGED <<filledAt, donated, swept>>

IndexedLp(lp, n) ==
    \/ Deposit(lp, n) /\ Indexed(HandleDeposit(entity, n))
    \/ Mint(lp, n) /\ Indexed(HandleDeposit(entity, PreviewMint(n)))
    \/ Withdraw(lp, n) /\ Indexed(HandleWithdraw(entity, n))
    \/ Redeem(lp, n) /\ Indexed(HandleWithdraw(entity, PreviewRedeem(n)))
    \/ \E to \in LPs : TransferShares(lp, to, n) /\ NoEvent

IndexedFill(i, fee) ==
    /\ FastFill(i, fee)
    /\ entity' = HandleFastFilled(entity, Amount[i] - fee, Now)
    /\ filledAt' = [filledAt EXCEPT ![i] = Now]
    /\ UNCHANGED <<donated, swept>>

IndexedReimbursement(i, amount) ==
    LET advanced   == principal[i]
        toProtocol == ProtocolShare(amount - advanced, shareBps)
    IN  /\ RecordReimbursement(i, amount)
        /\ Indexed(HandleFeesAccrued(
                       HandleReimbursement(entity, amount, advanced), toProtocol))

IndexedDonation(n) ==
    /\ donated + n <= MaxDonated
    /\ Donate(n)
    /\ donated' = donated + n
    /\ UNCHANGED <<entity, filledAt, swept>>

IndexedSweep ==
    /\ WithdrawFees
    /\ swept' = swept + accrued
    /\ UNCHANGED <<entity, filledAt, donated>>

UnindexedSetting ==
    \/ \E bps \in BpsChoices :
          \/ SetReserveFloorBps(bps)
          \/ \E fill \in BpsChoices : SetFillLimits(fill, bps)
    \/ \E bps \in FeeShares : SetProtocolFeeShareBps(bps)

CurrentLimits == [floor |-> floorBps, fill |-> fillBps, exposure |-> exposureBps]

IndexInit ==
    /\ Init
    /\ entity   = HandleVaultCreated(CurrentLimits)
    /\ filledAt = [i \in Intents |-> 0]
    /\ donated  = 0
    /\ swept    = 0

IndexNext ==
    \/ \E lp \in LPs, n \in LpAmounts : IndexedLp(lp, n)
    \/ \E i \in Intents : \E n \in 0 .. Amount[i] :
          IndexedFill(i, n) \/ IndexedReimbursement(i, n)
    \/ \E n \in LpAmounts : IndexedDonation(n)
    \/ IndexedSweep
    \/ UnindexedSetting /\ NoEvent
    \/ \E flag \in BOOLEAN :
          SetPaused(flag) /\ Indexed(HandlePausedSet(entity, flag))

IndexSpec == IndexInit /\ [][IndexNext]_allVars

-----------------------------------------------------------------------------
(* The solver, with an index that has caught up. *)

\* vaultState: balances from the index, limits and price from the chain.
ObservedVault ==
    [held         |-> entity.liquid,
     accrued      |-> entity.accrued,
     exposure     |-> entity.exposure,
     reserveFloor |-> ReserveFloor(TotalAssets, floorBps),
     maxFill      |-> MaxFillAmount(TotalAssets, fillBps),
     maxExposure  |-> MaxOutstandingExposure(TotalAssets, exposureBps),
     feeBps       |-> PostedFeeBps,
     paused       |-> entity.paused,
     age          |-> 0]

\* settlementHealth from the aggregates.
ObservedHealth ==
    [transport |-> "HEALTHY",
     slow      |-> FALSE,
     pending   |-> entity.pending,
     oldest    |-> IF entity.oldest = 0 THEN Unknown ELSE Now - entity.oldest]

TermsOf(i) == [amount |-> Amount[i], maxFeeBps |-> MaxFeeBps[i]]

\* The intent is a plain transfer, alive, and confirmed often enough.
ContextOf(i) ==
    [confirmations |-> RequiredConfirmations(RiskPolicy, Amount[i]),
     filled        |-> i \in filled,
     expired       |-> FALSE,
     trade         |-> FALSE,
     satisfiable   |-> FALSE]

WouldFill(i) ==
    Accepts(TermsOf(i), ObservedVault, ObservedHealth, RiskPolicy, ContextOf(i))

-----------------------------------------------------------------------------
(* The relay's figures, from the row alone (relay/src/intelligence), with  *)
(* the limits the row has had since the vault was created.                 *)

RowTotal == entity.liquid + entity.exposure

AvailableOf == Monus(entity.liquid, ReserveFloor(RowTotal, entity.limits.floor))

\* Mutant: the cap on exposure, without what is outstanding.
Headroom_Whole == MaxOutstandingExposure(RowTotal, entity.limits.exposure)

Headroom ==
    Monus(MaxOutstandingExposure(RowTotal, entity.limits.exposure),
          entity.exposure)

FillCapacityOf ==
    IF entity.paused THEN 0
    ELSE SmallerAmount(AvailableOf,
             SmallerAmount(MaxFillAmount(RowTotal, entity.limits.fill), Headroom))

-----------------------------------------------------------------------------
IndexTypeOK ==
    /\ entity \in Entities
    /\ filledAt \in [Intents -> Nat]
    /\ donated \in Nat
    /\ swept \in Nat

\* The row agrees with the vault but for what has no event: it misses what was
\* given without one, and counts fees the treasury has taken twice, as held
\* and as owed, so that the LPs' part of it stays right.
RowFollowsVault ==
    /\ entity.liquid = balance - donated + swept
    /\ entity.accrued = accrued + swept
    /\ entity.exposure = exposure
    /\ entity.pending = exposure
    /\ entity.paused = paused

\* "so a consumer reading currentFeeBps here sees the number the contract
\* itself would return" (subgraph/src/fee-policy.ts:8): so it does, after any
\* sequence of events, until somebody gives the vault USDC without one.
IndexedPriceIsPosted == donated = 0 => entity.feeBps = PostedFeeBps

\* "overstates the age slightly and is the safe direction to be wrong in"
\* (subgraph/src/vault.ts:124): while anything is advanced there is an oldest
\* advance, and it is no younger than the real one.
AgeNeverUnderstated ==
    /\ exposure = 0 <=> entity.oldest = 0
    /\ \A i \in Intents : principal[i] # 0 => entity.oldest <= filledAt[i]

\* What evaluateIntent accepts, on an index that has caught up, the vault pays:
\* no fill is signed that a floor, a cap, a fee ceiling or a pause of the vault
\* would refuse, although balances and limits are read from two places and
\* disagree about donations.
AcceptedFillsPass ==
    \A i \in Intents : WouldFill(i) => CanFill(i, QuotedFee(TermsOf(i), ObservedVault))

\* What the vault itself admits of one fill.
Capacity ==
    IF paused THEN 0
    ELSE SmallerAmount(AvailableLiquidity(LpLiquid, exposure, floorBps),
             SmallerAmount(MaxFillAmount(TotalAssets, fillBps),
                 Monus(MaxOutstandingExposure(TotalAssets, exposureBps),
                       exposure)))

NoneTightened ==
    /\ floorBps <= entity.limits.floor
    /\ fillBps >= entity.limits.fill
    /\ exposureBps >= entity.limits.exposure

\* The relay computes a vault's capacity from its row, the protocol's fees
\* included and with the limits of its creation.  As long as no limit is tighter
\* than that, whatever was loosened, given, swept, advanced and repaid, it
\* overstates what the vault would pay by no more than the fees the protocol has
\* earned.
OverstatedByFeesOnly ==
    NoneTightened => FillCapacityOf <= Capacity + entity.accrued

\* "the largest single fill its own caps admit right now"
\* (relay/src/intelligence/compute.ts:11), fees apart: an owner who tightens a
\* limit refutes it, since no handler takes her events.
CapsOfNow == FillCapacityOf <= Capacity + entity.accrued

\* "`reserveFloor()` rounds up on chain; mirror it so "available" never
\* overstates the vault" (relay/src/intelligence/compute.ts:72).
AvailableNeverOverstated ==
    AvailableOf <= AvailableLiquidity(LpLiquid, exposure, floorBps)

\* "a vault can never post a price the market would refuse"
\* (FeePolicyLib.sol:15, domain fee-policy.ts:31): the fee of every accepted
\* intent is within the market's own ceiling for its amount.
AcceptedPriceIsClaimable ==
    \A i \in Intents :
        WouldFill(i) =>
            QuotedFee(TermsOf(i), ObservedVault)
                <= MulDivFloor(Amount[i], MarketMaxFeeBps, BPS_DENOMINATOR)
=============================================================================
