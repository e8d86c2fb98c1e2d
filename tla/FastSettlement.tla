--------------------------- MODULE FastSettlement ---------------------------
(***************************************************************************)
(* The destination chain of one Arcaidia route, with everything that can   *)
(* happen to an intent there: factory vaults race to fast-fill it through  *)
(* the ArcaidiaIntentMarket, Circle attests its CCTP burn, and the         *)
(* SettlementReceiver routes the minted USDC to the winning vault, to the  *)
(* recipient, or holds it for a winner that refuses it.  A transaction is  *)
(* atomic on chain, so each entry point is one action and the              *)
(* interleavings are those of transactions.                                *)
(*                                                                         *)
(* LP shares are abstracted to the USDC they move; the vaults' limits and  *)
(* fee schedules are fixed here.                                           *)
(***************************************************************************)
EXTENDS VaultMath, RunningTotals

CONSTANTS
    Vaults,           \* vaults the factory created, wired to this market
    Intents,          \* intents of the source router, bound to this chain
    NoVault,          \* address(0) in filledBy and heldFor
    Amount,           \* Intent.amount, also burned on the source chain
    MaxFeeBps,        \* Intent.maxFeeBps, the user's ceiling
    Hooked,           \* intents whose burn carries the intent hook
    MarketMaxFeeBps,  \* MAX_FEE_BPS of the market and of the fee policies
    Config,           \* per vault: limits, protocol share and fee policy
    MaxCctpFee,       \* CircleCCTPInitiator.maxFee when the intent was made
    LpAmounts,        \* amounts LPs move in one deposit or withdrawal
    MaxBalance        \* bound: no deposit takes a vault's balance above it

VaultConfigs ==
    [floorBps : Bps, fillBps : Bps, exposureBps : Bps, shareBps : Bps,
     policy : FeePolicies]

ASSUME FiniteAssumption == IsFiniteSet(Intents) /\ IsFiniteSet(Vaults)
ASSUME NoVaultAssumption == NoVault \notin Vaults
ASSUME IntentAssumption ==
    /\ Amount \in [Intents -> Nat \ {0}]
    /\ MaxFeeBps \in [Intents -> Bps]
    /\ Hooked \subseteq Intents
ASSUME ConfigAssumption ==
    /\ MarketMaxFeeBps \in Bps
    /\ Config \in [Vaults -> VaultConfigs]
    /\ \A v \in Vaults : ValidPolicy(Config[v].policy, MarketMaxFeeBps)
\* Circle takes less than the amount; hookless burns are the v1 path, which
\* ran with the initiator's default maxFee of 0.
ASSUME CctpFeeAssumption ==
    /\ MaxCctpFee \in [Intents -> Nat]
    /\ \A i \in Intents : MaxCctpFee[i] < Amount[i]
    /\ \A i \in Intents \ Hooked : MaxCctpFee[i] = 0
ASSUME LpAssumption == LpAmounts \subseteq Nat \ {0} /\ MaxBalance \in Nat

VARIABLES
    transfer,         \* the CCTP message of each intent
    feeExecuted,      \* what Circle took from it
    expired,          \* intents whose deadline has passed
    filledBy,         \* ArcaidiaIntentMarket.filledBy
    outcome,          \* SettlementReceiver.outcomeOf
    settledAmount,    \* SettlementReceiver.settledAmount
    heldFor,          \* SettlementReceiver.heldFor
    receiverBalance,  \* USDC the receiver holds
    filled,           \* per vault: intents with intentFilled set
    principal,        \* advancedPrincipal
    exposure,         \* outstandingExposure
    accrued,          \* accruedProtocolFees
    balance,          \* USDC the vault holds
    paused,           \* vaults that are paused
    wired,            \* vaults whose settlementReceiver is this receiver
    paid              \* USDC spent on the intent's recipient

marketVars   == <<filledBy>>
receiverVars == <<outcome, settledAmount, heldFor, receiverBalance>>
bookVars     == <<filled, principal, exposure, accrued, balance>>
ownerVars    == <<paused, wired>>
sourceVars   == <<transfer, feeExecuted, expired>>
vars == <<sourceVars, marketVars, receiverVars, bookVars, ownerVars, paid>>

Transfers == {"none", "burned", "attested", "received"}
Outcomes  == {"NONE", "LP_REIMBURSED", "RECIPIENT_FALLBACK", "HELD_FOR_VAULT"}

-----------------------------------------------------------------------------
(* Views of a vault. *)

LpLiquid(v)    == LpLiquidBalance(balance[v], accrued[v])
TotalAssets(v) == LpLiquid(v) + exposure[v]

PostedFeeBps(v) ==
    FeeBpsAt(Config[v].policy, Utilisation(exposure[v], TotalAssets(v)))

\* What the burn of i mints on this chain.
Minted(i) == Amount[i] - feeExecuted[i]

-----------------------------------------------------------------------------
Init ==
    /\ transfer        = [i \in Intents |-> "none"]
    /\ feeExecuted     = [i \in Intents |-> 0]
    /\ expired         = {}
    /\ filledBy        = [i \in Intents |-> NoVault]
    /\ outcome         = [i \in Intents |-> "NONE"]
    /\ settledAmount   = [i \in Intents |-> 0]
    /\ heldFor         = [i \in Intents |-> NoVault]
    /\ receiverBalance = 0
    /\ filled          = [v \in Vaults |-> {}]
    /\ principal       = [v \in Vaults |-> [i \in Intents |-> 0]]
    /\ exposure        = [v \in Vaults |-> 0]
    /\ accrued         = [v \in Vaults |-> 0]
    /\ balance         = [v \in Vaults |-> 0]
    /\ paused          = {}
    /\ wired           = Vaults
    /\ paid            = [i \in Intents |-> 0]

-----------------------------------------------------------------------------
(* The source chain, Circle and the clock. *)

\* The router creates the intent and the initiator burns its USDC.
CreateIntent(i) ==
    /\ transfer[i] = "none"
    /\ i \notin expired
    /\ transfer' = [transfer EXCEPT ![i] = "burned"]
    /\ UNCHANGED <<feeExecuted, expired, marketVars, receiverVars, bookVars,
                   ownerVars, paid>>

\* Circle attests the burn and fixes its fee.
Attest(i) ==
    /\ transfer[i] = "burned"
    /\ transfer' = [transfer EXCEPT ![i] = "attested"]
    /\ \E fee \in 0 .. MaxCctpFee[i] :
          feeExecuted' = [feeExecuted EXCEPT ![i] = fee]
    /\ UNCHANGED <<expired, marketVars, receiverVars, bookVars, ownerVars,
                   paid>>

\* block.timestamp reaches the intent's deadline.
DeadlinePasses(i) ==
    /\ i \notin expired
    /\ expired' = expired \cup {i}
    /\ UNCHANGED <<transfer, feeExecuted, marketVars, receiverVars, bookVars,
                   ownerVars, paid>>

-----------------------------------------------------------------------------
(* The market and the fast fill. *)

\* Mutants (definitions named ..._<Slip>) restate an operator with one
\* plausible slip; no behaviour of this module uses them.
ClaimIntent_TwoWinners(v, i, out, fee) ==
    /\ outcome[i] = "NONE"
    /\ fee <= MulDivFloor(out + fee, MarketMaxFeeBps, BPS_DENOMINATOR)
    /\ filledBy' = [filledBy EXCEPT ![i] = v]

ClaimIntent_AfterSettlement(v, i, out, fee) ==
    /\ filledBy[i] = NoVault
    /\ fee <= MulDivFloor(out + fee, MarketMaxFeeBps, BPS_DENOMINATOR)
    /\ filledBy' = [filledBy EXCEPT ![i] = v]

ClaimIntent(v, i, out, fee) ==
    /\ filledBy[i] = NoVault
    /\ outcome[i] = "NONE"
    /\ fee <= MulDivFloor(out + fee, MarketMaxFeeBps, BPS_DENOMINATOR)
    /\ filledBy' = [filledBy EXCEPT ![i] = v]

EnforceIntentTerms(v, i, fee) ==
    /\ i \notin expired
    /\ fee <= FeeAmountFor(Amount[i], MaxFeeBps[i])
    /\ fee <= FeeAmountFor(Amount[i], PostedFeeBps(v))

EnforceCaps(v, out) ==
    /\ out <= MaxFillAmount(TotalAssets(v), Config[v].fillBps)
    /\ exposure[v] + out <=
          MaxOutstandingExposure(TotalAssets(v), Config[v].exposureBps)

RecordFastFill(v, i, out) ==
    /\ i \notin filled[v]
    /\ out > 0
    /\ out <= AvailableLiquidity(LpLiquid(v), exposure[v], Config[v].floorBps)
    /\ filled'    = [filled EXCEPT ![v] = @ \cup {i}]
    /\ principal' = [principal EXCEPT ![v][i] = out]
    /\ exposure'  = [exposure EXCEPT ![v] = @ + out]
    /\ balance'   = [balance EXCEPT ![v] = @ - out]
    /\ paid'      = [paid EXCEPT ![i] = @ + out]

\* fastFill under some authorization of an allowlisted signer, for an intent
\* the signer has seen created.  The whole transaction reverts, claim
\* included, unless every check passes.
FastFill(v, i, fee) ==
    LET out == Amount[i] - fee IN
    /\ transfer[i] # "none"
    /\ ClaimIntent(v, i, out, fee)
    /\ v \notin paused
    /\ EnforceIntentTerms(v, i, fee)
    /\ EnforceCaps(v, out)
    /\ v \in wired => outcome[i] = "NONE"
    /\ RecordFastFill(v, i, out)
    /\ UNCHANGED <<sourceVars, receiverVars, accrued, ownerVars>>

-----------------------------------------------------------------------------
(* Settlement. *)

AcceptsReimbursement_BelowPrincipal(v, i, amount) ==
    /\ v \in wired
    /\ i \in filled[v]
    /\ principal[v][i] # 0
    /\ exposure[v] >= principal[v][i]

AcceptsReimbursement_UnlessPaused(v, i, amount) ==
    /\ v \in wired \ paused
    /\ i \in filled[v]
    /\ principal[v][i] # 0
    /\ amount >= principal[v][i]
    /\ exposure[v] >= principal[v][i]

\* The checks of recordReimbursement, called by this receiver; the last is
\* the checked subtraction from outstandingExposure.
AcceptsReimbursement(v, i, amount) ==
    /\ v \in wired
    /\ i \in filled[v]
    /\ principal[v][i] # 0
    /\ amount >= principal[v][i]
    /\ exposure[v] >= principal[v][i]

RecordReimbursement_ClearsAmount(v, i, amount) ==
    LET advanced   == principal[v][i]
        toProtocol == ProtocolShare(amount - advanced, Config[v].shareBps)
    IN  /\ principal' = [principal EXCEPT ![v][i] = 0]
        /\ exposure'  = [exposure EXCEPT ![v] = @ - amount]
        /\ accrued'   = [accrued EXCEPT ![v] = @ + toProtocol]
        /\ balance'   = [balance EXCEPT ![v] = @ + amount]
        /\ UNCHANGED filled

RecordReimbursement_ShareOfAmount(v, i, amount) ==
    LET advanced   == principal[v][i]
        toProtocol == ProtocolShare(amount, Config[v].shareBps)
    IN  /\ principal' = [principal EXCEPT ![v][i] = 0]
        /\ exposure'  = [exposure EXCEPT ![v] = @ - advanced]
        /\ accrued'   = [accrued EXCEPT ![v] = @ + toProtocol]
        /\ balance'   = [balance EXCEPT ![v] = @ + amount]
        /\ UNCHANGED filled

RecordReimbursement(v, i, amount) ==
    LET advanced   == principal[v][i]
        toProtocol == ProtocolShare(amount - advanced, Config[v].shareBps)
    IN  /\ principal' = [principal EXCEPT ![v][i] = 0]
        /\ exposure'  = [exposure EXCEPT ![v] = @ - advanced]
        /\ accrued'   = [accrued EXCEPT ![v] = @ + toProtocol]
        /\ balance'   = [balance EXCEPT ![v] = @ + amount]
        /\ UNCHANGED filled

\* _route, with "funds" in the receiver before anything is sent.
RouteToWinner(i, amount, funds) ==
    /\ filledBy[i] # NoVault
    /\ AcceptsReimbursement(filledBy[i], i, amount)
    /\ outcome' = [outcome EXCEPT ![i] = "LP_REIMBURSED"]
    /\ RecordReimbursement(filledBy[i], i, amount)
    /\ receiverBalance' = funds - amount
    /\ UNCHANGED <<heldFor, paid>>

RouteToHolding(i, amount, funds) ==
    /\ filledBy[i] # NoVault
    /\ ~ AcceptsReimbursement(filledBy[i], i, amount)
    /\ outcome' = [outcome EXCEPT ![i] = "HELD_FOR_VAULT"]
    /\ heldFor' = [heldFor EXCEPT ![i] = filledBy[i]]
    /\ receiverBalance' = funds
    /\ UNCHANGED <<bookVars, paid>>

RouteToRecipient(i, amount, funds) ==
    /\ filledBy[i] = NoVault
    /\ outcome' = [outcome EXCEPT ![i] = "RECIPIENT_FALLBACK"]
    /\ paid' = [paid EXCEPT ![i] = @ + amount]
    /\ receiverBalance' = funds - amount
    /\ UNCHANGED <<heldFor, bookVars>>

Route(i, amount, funds) ==
    /\ settledAmount' = [settledAmount EXCEPT ![i] = amount]
    /\ \/ RouteToWinner(i, amount, funds)
       \/ RouteToHolding(i, amount, funds)
       \/ RouteToRecipient(i, amount, funds)

SettleWithProof_UntilDeadline(i) ==
    /\ transfer[i] = "attested"
    /\ i \in Hooked \ expired
    /\ outcome[i] = "NONE"
    /\ Minted(i) # 0
    /\ transfer' = [transfer EXCEPT ![i] = "received"]
    /\ Route(i, Minted(i), receiverBalance + Minted(i))
    /\ UNCHANGED <<feeExecuted, expired, marketVars, ownerVars>>

\* Anyone presents the attested message of a hooked burn.
SettleWithProof(i) ==
    /\ transfer[i] = "attested"
    /\ i \in Hooked
    /\ outcome[i] = "NONE"
    /\ Minted(i) # 0
    /\ transfer' = [transfer EXCEPT ![i] = "received"]
    /\ Route(i, Minted(i), receiverBalance + Minted(i))
    /\ UNCHANGED <<feeExecuted, expired, marketVars, ownerVars>>

\* A hookless message names no destination caller: anyone delivers it to
\* Circle, and the mint lands in the receiver without being routed.
ReceiveHookless(i) ==
    /\ transfer[i] = "attested"
    /\ i \notin Hooked
    /\ transfer' = [transfer EXCEPT ![i] = "received"]
    /\ receiverBalance' = receiverBalance + Minted(i)
    /\ UNCHANGED <<feeExecuted, expired, marketVars, outcome, settledAmount,
                   heldFor, bookVars, ownerVars, paid>>

Settle_BeforeReceipt(i) ==
    /\ transfer[i] # "none"
    /\ outcome[i] = "NONE"
    /\ Amount[i] <= receiverBalance
    /\ Route(i, Amount[i], receiverBalance)
    /\ UNCHANGED <<sourceVars, marketVars, ownerVars>>

\* The settlement worker, as reporter, routes the burned amount of an intent
\* whose message it has seen received.
Settle(i) ==
    /\ transfer[i] = "received"
    /\ outcome[i] = "NONE"
    /\ Amount[i] <= receiverBalance
    /\ Route(i, Amount[i], receiverBalance)
    /\ UNCHANGED <<sourceVars, marketVars, ownerVars>>

RetryHeld(i) ==
    LET vault  == heldFor[i]
        amount == settledAmount[i]
    IN  /\ outcome[i] = "HELD_FOR_VAULT"
        /\ AcceptsReimbursement(vault, i, amount)
        /\ amount <= receiverBalance
        /\ outcome' = [outcome EXCEPT ![i] = "LP_REIMBURSED"]
        /\ heldFor' = [heldFor EXCEPT ![i] = NoVault]
        /\ RecordReimbursement(vault, i, amount)
        /\ receiverBalance' = receiverBalance - amount
        /\ UNCHANGED <<sourceVars, marketVars, settledAmount, ownerVars, paid>>

-----------------------------------------------------------------------------
(* LPs and owners of vaults. *)

Deposit(v, amount) ==
    /\ v \notin paused
    /\ balance[v] + amount <= MaxBalance
    /\ balance' = [balance EXCEPT ![v] = @ + amount]
    /\ UNCHANGED <<sourceVars, marketVars, receiverVars, filled, principal,
                   exposure, accrued, ownerVars, paid>>

Withdraw(v, amount) ==
    /\ amount <= WithdrawableLiquidity(LpLiquid(v), exposure[v],
                     Config[v].floorBps, Config[v].exposureBps)
    /\ amount <= LpLiquid(v)
    /\ balance' = [balance EXCEPT ![v] = @ - amount]
    /\ UNCHANGED <<sourceVars, marketVars, receiverVars, filled, principal,
                   exposure, accrued, ownerVars, paid>>

WithdrawFees(v) ==
    /\ accrued[v] # 0
    /\ accrued' = [accrued EXCEPT ![v] = 0]
    /\ balance' = [balance EXCEPT ![v] = @ - accrued[v]]
    /\ UNCHANGED <<sourceVars, marketVars, receiverVars, filled, principal,
                   exposure, ownerVars, paid>>

SetPaused(v) ==
    /\ paused' \in {paused \cup {v}, paused \ {v}}
    /\ UNCHANGED <<sourceVars, marketVars, receiverVars, bookVars, wired, paid>>

PointAway(v) ==
    /\ wired' = wired \ {v}
    /\ UNCHANGED <<sourceVars, marketVars, receiverVars, bookVars, paused, paid>>

PointBack(v) ==
    /\ wired' = wired \cup {v}
    /\ UNCHANGED <<sourceVars, marketVars, receiverVars, bookVars, paused, paid>>

-----------------------------------------------------------------------------
IntentNext(i) ==
    \/ CreateIntent(i)
    \/ Attest(i)
    \/ DeadlinePasses(i)
    \/ SettleWithProof(i)
    \/ ReceiveHookless(i)
    \/ Settle(i)
    \/ RetryHeld(i)
    \/ \E v \in Vaults : \E fee \in 0 .. Amount[i] : FastFill(v, i, fee)

VaultNext(v) ==
    \/ \E amount \in LpAmounts : Deposit(v, amount) \/ Withdraw(v, amount)
    \/ WithdrawFees(v)
    \/ SetPaused(v)
    \/ PointAway(v)
    \/ PointBack(v)

Next ==
    \/ \E i \in Intents : IntentNext(i)
    \/ \E v \in Vaults : VaultNext(v)

Spec == Init /\ [][Next]_vars

\* Circle attests what was burned, and whoever delivers, routes or retries a
\* transfer keeps trying: settleWithProof and retryHeld are permissionless
\* and the settlement worker repeats its passes.
SettlementFairness ==
    \A i \in Intents :
        /\ WF_vars(Attest(i))
        /\ WF_vars(SettleWithProof(i))
        /\ WF_vars(ReceiveHookless(i))
        /\ WF_vars(Settle(i))
        /\ SF_vars(RetryHeld(i))

\* The owner of a vault that pointed it at another receiver points it back.
OwnersRepair == \A v \in Vaults : WF_vars(PointBack(v))

FairSpec == Spec /\ SettlementFairness
-----------------------------------------------------------------------------
TypeOK ==
    /\ transfer \in [Intents -> Transfers]
    /\ feeExecuted \in [Intents -> Nat]
    /\ expired \subseteq Intents
    /\ filledBy \in [Intents -> Vaults \cup {NoVault}]
    /\ outcome \in [Intents -> Outcomes]
    /\ settledAmount \in [Intents -> Nat]
    /\ heldFor \in [Intents -> Vaults \cup {NoVault}]
    /\ receiverBalance \in Nat
    /\ filled \in [Vaults -> SUBSET Intents]
    /\ principal \in [Vaults -> [Intents -> Nat]]
    /\ exposure \in [Vaults -> Nat]
    /\ accrued \in [Vaults -> Nat]
    /\ balance \in [Vaults -> Nat]
    /\ paused \subseteq Vaults
    /\ wired \subseteq Vaults
    /\ paid \in [Intents -> Nat]

\* A vault's receivable is the sum of the principals it is still owed, in
\* whatever order fills and reimbursements land: the checked subtraction in
\* recordReimbursement can never underflow and block a reimbursement.
ExposureIsSumOfPrincipals ==
    \A v \in Vaults : exposure[v] = Total(principal[v])

\* Only the vault the market names is owed anything for an intent, and it is
\* owed until the canonical funds reach it: two vaults racing for one intent
\* never both pay, and parking funds for a winner does not clear its books.
OnlyTheWinnerIsOwed ==
    \A v \in Vaults, i \in Intents :
        principal[v][i] > 0 <=> filledBy[i] = v /\ outcome[i] # "LP_REIMBURSED"

\* What the receiver must still pay out for an intent: funds parked for a
\* winner, or a hookless mint that nobody has routed yet.
Owed ==
    [i \in Intents |->
        CASE outcome[i] = "HELD_FOR_VAULT" -> settledAmount[i]
          [] outcome[i] = "NONE" /\ transfer[i] = "received" -> Minted(i)
          [] OTHER -> 0]

\* Every unit in the receiver belongs to a named intent and every intent's
\* parked funds are there, although settle() pays out of the whole balance.
ReceiverHoldsWhatItOwes == receiverBalance = Total(Owed)

\* Parked money that its winner, wired here again, would still not take: only
\* because Circle took more of it than the vault had charged.
CctpFeeAteIntoPrincipal(i) ==
    feeExecuted[i] > Amount[i] - principal[heldFor[i]][i]

\* Whatever came before, the next delivery, settlement or retry of an intent
\* finds what its checks ask for: a hooked mint an intent that is not routed
\* and something to route, a settlement and a retry their money, and a wired
\* winner its receivable, unless the CCTP fee ate into the principal.  This is
\* why somebody who keeps trying gets everything else settled.
MoneyCanMove ==
    \A i \in Intents :
        /\ i \in Hooked /\ transfer[i] = "attested"
              => outcome[i] = "NONE" /\ Minted(i) # 0
        /\ transfer[i] = "received" /\ outcome[i] = "NONE"
              => Amount[i] <= receiverBalance
        /\ outcome[i] = "HELD_FOR_VAULT"
              => /\ settledAmount[i] <= receiverBalance
                 /\ heldFor[i] \in wired /\ ~ CctpFeeAteIntoPrincipal(i)
                       => AcceptsReimbursement(heldFor[i], i, settledAmount[i])

VaultWithinLimits(v) ==
    /\ accrued[v] <= balance[v]
    /\ exposure[v] <=
          MaxOutstandingExposure(TotalAssets(v), Config[v].exposureBps)
    /\ LpLiquid(v) >= ReserveFloor(TotalAssets(v), Config[v].floorBps)

\* Neither a fill, nor a withdrawal, nor a reimbursement arriving in any
\* order takes a vault over its exposure cap or under its reserve floor, and
\* the treasury's fees are always in the vault.
WithinLimits == \A v \in Vaults : VaultWithinLimits(v)

\* LP assets shrink only when an LP withdraws: filling, being reimbursed,
\* having funds parked and sweeping fees never cost the LPs anything.
LpAssetsNeverLost ==
    [][\A v \in Vaults :
          TotalAssets(v)' < TotalAssets(v)
              => \E amount \in LpAmounts : Withdraw(v, amount)]_vars

-----------------------------------------------------------------------------
(* The promise to the user: IntentLifecycle. *)

SmallerOf(a, b) == IF a < b THEN a ELSE b

FillFeeCap(i) ==
    SmallerOf(FeeAmountFor(Amount[i], MaxFeeBps[i]),
              MulDivFloor(Amount[i], MarketMaxFeeBps, BPS_DENOMINATOR))

StatusOf(i) ==
    CASE outcome[i] = "RECIPIENT_FALLBACK" -> "fallback"
      [] outcome[i] = "LP_REIMBURSED" -> "repaid"
      [] outcome[i] \in {"NONE", "HELD_FOR_VAULT"} /\ filledBy[i] # NoVault
             -> "advanced"
      [] OTHER -> IF transfer[i] = "none" THEN "absent" ELSE "pending"

Lifecycle == INSTANCE IntentLifecycle WITH
    SolverFeeCap <- [i \in Intents |-> FillFeeCap(i)],
    CctpFeeCap   <- MaxCctpFee,
    status       <- [i \in Intents |-> StatusOf(i)],
    winner       <- filledBy,
    got          <- paid

\* Every intent's recipient is paid once, by a fill or by canonical
\* settlement and never by both, and loses no more than the capped fee;
\* a winner is repaid once and nobody else is.
ImplementsLifecycle == Lifecycle!Spec

\* However the message is delivered and whoever routes it, each burn is
\* received once and routed once, and no hooked mint waits unrouted.
Delivery == INSTANCE CanonicalDelivery WITH
    stage  <- transfer,
    routed <- {i \in Intents : outcome[i] # "NONE"}

ImplementsDelivery == Delivery!Spec

\* Every burned transfer is eventually routed by the receiver, whether or
\* not anyone filled it, and whatever owners and LPs of vaults do.
EveryBurnSettles ==
    \A i \in Intents : transfer[i] = "burned" ~> outcome[i] # "NONE"

\* As long as owners repair their vaults' wiring, canonical funds whose
\* transfer cost nothing reach the recipient or the winning vault for good,
\* whatever was paused, unwired or parked meanwhile.
FreeCanonicalNeverTrapped ==
    OwnersRepair =>
        \A i \in Intents :
            transfer[i] = "received" /\ feeExecuted[i] = 0
                ~> outcome[i] \in {"LP_REIMBURSED", "RECIPIENT_FALLBACK"}

\* "canonical funds are never trapped and never mis-routed"
\* (SettlementReceiver.sol:40): whatever the transfer cost, being parked for a
\* vault is not an end state.
CanonicalNeverTrapped ==
    OwnersRepair =>
        \A i \in Intents :
            transfer[i] = "received"
                ~> outcome[i] \in {"LP_REIMBURSED", "RECIPIENT_FALLBACK"}
=============================================================================
