--------------------------- MODULE LiquidityVault ---------------------------
(***************************************************************************)
(* One ArcaidiaLiquidityVault as its liquidity providers see it: ERC-4626  *)
(* shares over the USDC it holds and the receivable of the fills it has    *)
(* advanced, with limits, protocol share and pause that the owner may      *)
(* change at any time.  When a fill is allowed to win, and when canonical  *)
(* money comes back, is FastSettlement's subject; here an intent is filled *)
(* whenever the vault itself agrees, and reimbursed whenever the receiver  *)
(* tries to.                                                               *)
(***************************************************************************)
EXTENDS VaultMath, RunningTotals

CONSTANTS
    LPs,             \* holders of shares
    Intents,         \* intents that may be filled here
    Amount,          \* Intent.amount
    MaxFeeBps,       \* the user's ceiling, per intent
    Policy,          \* the vault's fee policy, fixed at initialize
    VirtualShares,   \* 10 ** DECIMALS_OFFSET
    CreationLimits,  \* limits the vault may be created with
    BpsChoices,      \* values the owner sets limits to
    FeeShares,       \* values she sets the protocol's share of fees to
    LpAmounts,       \* amounts of USDC or shares an LP names in one call
    MaxBalance       \* bound: nobody pays in above it

LimitSettings == [floor : Bps, fill : Bps, exposure : Bps]

ASSUME LpAssumption ==
    /\ LpAmounts \subseteq Nat \ {0}
    /\ VirtualShares \in Nat \ {0}
    /\ MaxBalance \in Nat
    /\ IsFiniteSet(LPs)
ASSUME IntentAssumption ==
    /\ Amount \in [Intents -> Nat \ {0}]
    /\ MaxFeeBps \in [Intents -> Bps]
ASSUME OwnerAssumption ==
    /\ CreationLimits \subseteq LimitSettings
    /\ BpsChoices \subseteq Bps /\ FeeShares \subseteq Bps
    /\ Policy \in FeePolicies
    /\ ValidPolicy(Policy, BPS_DENOMINATOR)

VARIABLES
    shares,        \* ERC-20 balances of arcLP
    supply,        \* its totalSupply
    balance,       \* USDC the vault holds
    exposure,      \* outstandingExposure
    accrued,       \* accruedProtocolFees
    principal,     \* advancedPrincipal
    filled,        \* intents with intentFilled set
    floorBps, fillBps, exposureBps, shareBps,
    paused

shareVars == <<shares, supply>>
fillVars  == <<exposure, accrued, principal, filled>>
ownerVars == <<floorBps, fillBps, exposureBps, shareBps, paused>>
vars == <<shareVars, balance, fillVars, ownerVars>>

-----------------------------------------------------------------------------
(* Views. *)

LpLiquid == LpLiquidBalance(balance, accrued)

TotalAssets == LpLiquid + exposure

Withdrawable ==
    WithdrawableLiquidity(LpLiquid, exposure, floorBps, exposureBps)

PostedFeeBps == FeeBpsAt(Policy, Utilisation(exposure, TotalAssets))

ToShares(assets) == MulDivFloor(assets, supply + VirtualShares, TotalAssets + 1)
ToAssets(amount) == MulDivFloor(amount, TotalAssets + 1, supply + VirtualShares)

PreviewDeposit(assets) == ToShares(assets)
PreviewRedeem(amount)  == ToAssets(amount)

PreviewMint(amount) ==
    MulDivCeil(amount, TotalAssets + 1, supply + VirtualShares)

\* Mutant: shares burned are rounded in the caller's favour.
PreviewWithdraw_RoundsDown(assets) == ToShares(assets)

PreviewWithdraw(assets) ==
    MulDivCeil(assets, supply + VirtualShares, TotalAssets + 1)

Lesser(a, b) == IF a < b THEN a ELSE b

MaxWithdraw(lp) == Lesser(ToAssets(shares[lp]), Withdrawable)

\* Mutant: liquidity is never the constraint.
MaxRedeem_AllShares(lp) == shares[lp]

MaxRedeem(lp) ==
    IF ToAssets(shares[lp]) <= Withdrawable THEN shares[lp]
    ELSE ToShares(Withdrawable)

-----------------------------------------------------------------------------
\* initialize, with limits of the owner's choice, and the share of fees the
\* vault starts with.
Init ==
    /\ shares    = [lp \in LPs |-> 0]
    /\ supply    = 0
    /\ balance   = 0
    /\ exposure  = 0
    /\ accrued   = 0
    /\ principal = [i \in Intents |-> 0]
    /\ filled    = {}
    /\ \E limits \in CreationLimits :
          /\ floorBps = limits.floor
          /\ fillBps = limits.fill
          /\ exposureBps = limits.exposure
    /\ shareBps = 0
    /\ paused = FALSE

-----------------------------------------------------------------------------
(* Liquidity providers. *)

PullAndMint(lp, assets, minted) ==
    /\ balance + assets <= MaxBalance
    /\ balance' = balance + assets
    /\ shares'  = [shares EXCEPT ![lp] = @ + minted]
    /\ supply'  = supply + minted
    /\ UNCHANGED <<fillVars, ownerVars>>

Deposit(lp, assets) ==
    /\ ~ paused
    /\ PreviewDeposit(assets) # 0
    /\ PullAndMint(lp, assets, PreviewDeposit(assets))

Mint(lp, amount) ==
    /\ ~ paused
    /\ PullAndMint(lp, PreviewMint(amount), amount)

BurnAndPay(lp, assets, burned) ==
    /\ assets <= LpLiquid
    /\ burned <= shares[lp]
    /\ balance' = balance - assets
    /\ shares'  = [shares EXCEPT ![lp] = @ - burned]
    /\ supply'  = supply - burned
    /\ UNCHANGED <<fillVars, ownerVars>>

Withdraw(lp, assets) ==
    /\ assets <= MaxWithdraw(lp)
    /\ BurnAndPay(lp, assets, PreviewWithdraw(assets))

Redeem(lp, amount) ==
    /\ amount <= MaxRedeem(lp)
    /\ PreviewRedeem(amount) # 0
    /\ BurnAndPay(lp, PreviewRedeem(amount), amount)

\* ERC-20 transfer of shares.
TransferShares(from, to, amount) ==
    /\ from # to
    /\ amount <= shares[from]
    /\ shares' = [shares EXCEPT ![from] = @ - amount, ![to] = @ + amount]
    /\ UNCHANGED <<supply, balance, fillVars, ownerVars>>

\* Anyone may send the vault USDC.
Donate(assets) ==
    /\ balance + assets <= MaxBalance
    /\ balance' = balance + assets
    /\ UNCHANGED <<shareVars, fillVars, ownerVars>>

-----------------------------------------------------------------------------
(* Fills. *)

\* Mutant: the cap is compared with what is outstanding before the fill.
EnforceCaps_BeforeFill(out) ==
    /\ out <= MaxFillAmount(TotalAssets, fillBps)
    /\ exposure <= MaxOutstandingExposure(TotalAssets, exposureBps)

EnforceCaps(out) ==
    /\ out <= MaxFillAmount(TotalAssets, fillBps)
    /\ exposure + out <= MaxOutstandingExposure(TotalAssets, exposureBps)

\* What fastFill asks of the vault itself before it pays.
CanFill(i, fee) ==
    LET out == Amount[i] - fee IN
    /\ ~ paused
    /\ fee <= FeeAmountFor(Amount[i], MaxFeeBps[i])
    /\ fee <= FeeAmountFor(Amount[i], PostedFeeBps)
    /\ EnforceCaps(out)
    /\ i \notin filled
    /\ out > 0
    /\ out <= AvailableLiquidity(LpLiquid, exposure, floorBps)

\* fastFill under an authorization that names this fee.
FastFill(i, fee) ==
    LET out == Amount[i] - fee IN
    /\ CanFill(i, fee)
    /\ filled'    = filled \cup {i}
    /\ principal' = [principal EXCEPT ![i] = out]
    /\ exposure'  = exposure + out
    /\ balance'   = balance - out
    /\ UNCHANGED <<shareVars, accrued, ownerVars>>

RecordReimbursement(i, amount) ==
    /\ i \in filled
    /\ principal[i] # 0
    /\ amount >= principal[i]
    /\ exposure >= principal[i]
    /\ principal' = [principal EXCEPT ![i] = 0]
    /\ exposure'  = exposure - principal[i]
    /\ accrued'   = accrued + ProtocolShare(amount - principal[i], shareBps)
    /\ balance'   = balance + amount
    /\ UNCHANGED <<shareVars, filled, ownerVars>>

-----------------------------------------------------------------------------
(* The owner. *)

WithdrawFees ==
    /\ accrued # 0
    /\ accrued' = 0
    /\ balance' = balance - accrued
    /\ UNCHANGED <<shareVars, exposure, principal, filled, ownerVars>>

SetReserveFloorBps(bps) ==
    /\ floorBps' = bps
    /\ UNCHANGED <<shareVars, balance, fillVars, fillBps, exposureBps, shareBps,
                   paused>>

SetFillLimits(fill, outstanding) ==
    /\ fillBps' = fill
    /\ exposureBps' = outstanding
    /\ UNCHANGED <<shareVars, balance, fillVars, floorBps, shareBps, paused>>

SetProtocolFeeShareBps(bps) ==
    /\ shareBps' = bps
    /\ UNCHANGED <<shareVars, balance, fillVars, floorBps, fillBps, exposureBps,
                   paused>>

SetPaused(flag) ==
    /\ paused' = flag
    /\ UNCHANGED <<shareVars, balance, fillVars, floorBps, fillBps, exposureBps,
                   shareBps>>

-----------------------------------------------------------------------------
LpNext(lp) ==
    \/ \E n \in LpAmounts :
          \/ Deposit(lp, n)
          \/ Mint(lp, n)
          \/ Withdraw(lp, n)
          \/ Redeem(lp, n)
          \/ \E to \in LPs : TransferShares(lp, to, n)

FillNext(i) ==
    \/ \E fee \in 0 .. Amount[i] : FastFill(i, fee)
    \/ \E amount \in 0 .. Amount[i] : RecordReimbursement(i, amount)

OwnerNext ==
    \/ WithdrawFees
    \/ \E bps \in BpsChoices :
          \/ SetReserveFloorBps(bps)
          \/ \E fill \in BpsChoices : SetFillLimits(fill, bps)
    \/ \E bps \in FeeShares : SetProtocolFeeShareBps(bps)
    \/ \E flag \in BOOLEAN : SetPaused(flag)

Next ==
    \/ \E lp \in LPs : LpNext(lp)
    \/ \E i \in Intents : FillNext(i)
    \/ \E n \in LpAmounts : Donate(n)
    \/ OwnerNext

Spec == Init /\ [][Next]_vars

-----------------------------------------------------------------------------
TypeOK ==
    /\ shares \in [LPs -> Nat]
    /\ supply \in Nat
    /\ balance \in Nat
    /\ exposure \in Nat
    /\ accrued \in Nat
    /\ principal \in [Intents -> Nat]
    /\ filled \subseteq Intents
    /\ floorBps \in Bps
    /\ fillBps \in Bps
    /\ exposureBps \in Bps
    /\ shareBps \in Bps
    /\ paused \in BOOLEAN

\* The treasury's fees are in the vault: no fill, withdrawal or redemption
\* can spend them, although they lie in the balance all of these pay from.
FeesAreHeld == accrued <= balance

\* What maxWithdraw and maxRedeem promise can be taken: the caller has the
\* shares for it, and it leaves the floor and the cap what they need.
MaxViewsAreHonoured ==
    \A lp \in LPs :
        /\ PreviewWithdraw(MaxWithdraw(lp)) <= shares[lp]
        /\ MaxRedeem(lp) <= shares[lp]
        /\ PreviewRedeem(MaxRedeem(lp)) <= Withdrawable

\* "No sequence of deposits and redemptions can extract value from other LPs"
\* (ArcaidiaLiquidityVault.sol:57): no step at all, of LPs, fills,
\* reimbursements or the owner, lowers the price of a share.
SharePriceNeverFalls ==
    [][(TotalAssets + 1) * (supply' + VirtualShares)
          <= (TotalAssets' + 1) * (supply + VirtualShares)]_vars

\* What redeeming all of an LP's shares would pay.
Worth(lp) == ToAssets(shares[lp])

\* "The caller never gains at the expense of existing LPs"
\* (ArcaidiaLiquidityVault.sol:522): whoever deposits, mints, withdraws or
\* redeems is worth no more for it, counting what she paid or was paid, to the
\* last unit, so that no sequence of trades alone makes money.
TradingNeverPays ==
    [][supply' # supply =>
         \A lp \in LPs :
            shares'[lp] # shares[lp] =>
                Worth(lp)' - Worth(lp) <= TotalAssets' - TotalAssets]_vars

WithinLimits ==
    /\ exposure <= MaxOutstandingExposure(TotalAssets, exposureBps)
    /\ LpLiquid >= ReserveFloor(TotalAssets, floorBps)

\* Limits may be broken by the owner who tightens them, never by a fill, a
\* reimbursement, an LP or the sweep of fees.
LimitsKept ==
    [][WithinLimits /\ UNCHANGED <<floorBps, exposureBps>> => WithinLimits']_vars
=============================================================================
