--------------------------- MODULE Subgraph_proofs --------------------------
(***************************************************************************)
(* The vault and its index.                                                *)
(*                                                                         *)
(* First what holds of a LiquidityVault for any holders, amounts, limits   *)
(* and fee schedule: a share never loses value, nobody gains by trading    *)
(* shares with the vault, the treasury's fees stay in it, the max views    *)
(* can be taken at their word, and limits are broken by nobody but the     *)
(* owner.                                                                  *)
(*                                                                         *)
(* Then the indexed vault.  Every step of it is a step of the vault, so    *)
(* all of this holds of it too; on that, an invariant of the index: the    *)
(* row follows the vault (Followed), its price is the policy's at its own  *)
(* utilisation (Priced), and its times are bounded by the clock (Aged),    *)
(* for which the vault's running exposure must be the total of what it has *)
(* advanced (Advanced).                                                    *)
(***************************************************************************)
EXTENDS Subgraph, Arithmetic_proofs

\* ERC-20: the supply is what the holders have together.
SupplyIsSumOfShares == supply = Total(shares)

IInv == TypeOK /\ FeesAreHeld /\ SupplyIsSumOfShares

\* What SharePriceNeverFalls, TradingNeverPays and LimitsKept say of one step.
PriceKept ==
    (TotalAssets + 1) * (supply' + VirtualShares)
       <= (TotalAssets' + 1) * (supply + VirtualShares)

NoGain(lp) == Worth(lp)' - Worth(lp) <= TotalAssets' - TotalAssets

TradingStep ==
    supply' # supply => \A lp \in LPs : shares'[lp] # shares[lp] => NoGain(lp)

LimitsStep ==
    WithinLimits /\ UNCHANGED <<floorBps, exposureBps>> => WithinLimits'

-----------------------------------------------------------------------------
(* Views. *)

LEMMA AssetsOf ==
    ASSUME TypeOK, FeesAreHeld
    PROVE  /\ LpLiquid = balance - accrued
           /\ LpLiquid \in Nat
           /\ TotalAssets = balance - accrued + exposure
           /\ TotalAssets + 1 \in Nat \ {0}
           /\ supply + VirtualShares \in Nat \ {0}
           /\ WithinLimits <=> Limits(LpLiquid, exposure, floorBps, exposureBps)
  BY LpAssumption
  DEF TypeOK, FeesAreHeld, LpLiquid, LpLiquidBalance, Monus, TotalAssets,
      WithinLimits, Limits

LEMMA WithdrawableType ==
    ASSUME TypeOK, FeesAreHeld
    PROVE  Withdrawable \in 0 .. LpLiquid
<1>1. LpLiquid \in Nat
  BY AssetsOf
<1>2. CASE exposure = 0
  BY <1>1, <1>2 DEF Withdrawable, WithdrawableLiquidity
<1>3. CASE exposure # 0 /\ RetainsEverything(floorBps, exposureBps)
  BY <1>1, <1>3 DEF Withdrawable, WithdrawableLiquidity
<1>4. CASE exposure # 0 /\ ~ RetainsEverything(floorBps, exposureBps)
  <2>1. /\ floorBps \in Nat /\ exposureBps \in Nat \ {0} /\ exposure \in Nat
        /\ BPS_DENOMINATOR - floorBps \in Nat \ {0}
        /\ BPS_DENOMINATOR - exposureBps \in Nat
    BY <1>4, BpsAssumption DEF TypeOK, Bps, RetainsEverything
  <2>2. /\ RetainedForFloor(exposure, floorBps) \in Nat
        /\ RetainedForCap(exposure, exposureBps) \in Nat
    BY <2>1, QuotientTypes DEF RetainedForFloor, RetainedForCap
  <2>3. MinLiquidRetained(exposure, floorBps, exposureBps) \in Nat
    BY <2>2 DEF MinLiquidRetained
  <2>4. Withdrawable
          = Monus(LpLiquid, MinLiquidRetained(exposure, floorBps, exposureBps))
    BY <1>4 DEF Withdrawable, WithdrawableLiquidity
  <2> QED
    BY <1>1, <2>3, <2>4 DEF Monus
<1> QED
  BY <1>2, <1>3, <1>4

LEMMA ViewTypes ==
    ASSUME TypeOK, FeesAreHeld, NEW n \in Nat
    PROVE  /\ ToShares(n) \in Nat
           /\ ToAssets(n) \in Nat
           /\ PreviewMint(n) \in Nat
           /\ PreviewWithdraw(n) \in Nat
<1>1. TotalAssets + 1 \in Nat \ {0} /\ supply + VirtualShares \in Nat \ {0}
  BY AssetsOf
<1> QED
  BY <1>1, QuotientTypes DEF ToShares, ToAssets, PreviewMint, PreviewWithdraw

\* Every conversion rounds against the caller.
LEMMA Rounding ==
    ASSUME TypeOK, FeesAreHeld, NEW n \in Nat
    PROVE  /\ ToShares(n) * (TotalAssets + 1) <= n * (supply + VirtualShares)
           /\ ToAssets(n) * (supply + VirtualShares) <= n * (TotalAssets + 1)
           /\ n * (TotalAssets + 1) <= PreviewMint(n) * (supply + VirtualShares)
           /\ n * (supply + VirtualShares) <= PreviewWithdraw(n) * (TotalAssets + 1)
<1> DEFINE a == TotalAssets + 1
           p == supply + VirtualShares
<1>1. a \in Nat \ {0} /\ p \in Nat \ {0}
  BY AssetsOf
<1>2. /\ ToShares(n) \in Nat /\ ToAssets(n) \in Nat
      /\ PreviewMint(n) \in Nat /\ PreviewWithdraw(n) \in Nat
  BY ViewTypes
<1>3. ToShares(n) * a <= n * p
  BY <1>1, <1>2, FloorMeans DEF ToShares
<1>4. ToAssets(n) * p <= n * a
  BY <1>1, <1>2, FloorMeans DEF ToAssets
<1>5. n * a <= PreviewMint(n) * p
  BY <1>1, <1>2, CeilMeans DEF PreviewMint
<1>6. n * p <= PreviewWithdraw(n) * a
  BY <1>1, <1>2, CeilMeans DEF PreviewWithdraw
<1> QED
  BY <1>3, <1>4, <1>5, <1>6

-----------------------------------------------------------------------------
(* The max views. *)

\* Needs no history: whatever the balances, what the views promise is there.
LEMMA ViewsHonoured == TypeOK /\ FeesAreHeld => MaxViewsAreHonoured
<1> SUFFICES ASSUME TypeOK, FeesAreHeld, NEW lp \in LPs
             PROVE  /\ PreviewWithdraw(MaxWithdraw(lp)) <= shares[lp]
                    /\ MaxRedeem(lp) <= shares[lp]
                    /\ PreviewRedeem(MaxRedeem(lp)) <= Withdrawable
  BY DEF MaxViewsAreHonoured
<1> DEFINE a == TotalAssets + 1
           p == supply + VirtualShares
           s == shares[lp]
           w == Withdrawable
           c == ToAssets(s)
<1>1. a \in Nat \ {0} /\ p \in Nat \ {0}
  BY AssetsOf
<1>2. s \in Nat /\ w \in Nat
  BY WithdrawableType, AssetsOf DEF TypeOK
<1>3. c \in Nat /\ c * p <= s * a
  BY <1>2, ViewTypes, Rounding
<1>4. PreviewWithdraw(MaxWithdraw(lp)) <= s
  <2> DEFINE m == MaxWithdraw(lp)
  <2>1. m \in Nat /\ m <= c
    BY <1>2, <1>3 DEF MaxWithdraw, Lesser
  <2> HIDE DEF a, p, s, w, c, m
  <2>2. m * p <= c * p
    BY <1>1, <1>3, <2>1, ProductMonotone
  <2>3. m * p <= s * a
    BY <1>1, <1>2, <1>3, <2>1, <2>2, ProductType
  <2>4. MulDivCeil(m, p, a) <= s
    BY <1>1, <1>2, <2>1, <2>3, CeilMeans
  <2> QED
    BY <2>4 DEF PreviewWithdraw, a, p, m
<1>5. CASE c <= w
  BY <1>2, <1>4, <1>5 DEF MaxRedeem, PreviewRedeem
<1>6. CASE ~ (c <= w)
  <2> DEFINE r == ToShares(w)
             q == ToAssets(r)
  <2>1. MaxRedeem(lp) = r
    BY <1>6 DEF MaxRedeem
  <2>2. r \in Nat /\ r * a <= w * p
    BY <1>2, ViewTypes, Rounding
  <2>3. q \in Nat /\ q * p <= r * a
    BY <2>2, ViewTypes, Rounding
  <2> HIDE DEF a, p, s, w, c, r, q
  <2>4. w * p <= c * p
    BY <1>1, <1>2, <1>3, <1>6, ProductMonotone
  <2>5. r * a <= s * a
    BY <1>1, <1>2, <1>3, <2>2, <2>4, ProductType
  <2>6. r <= s
    BY <1>1, <1>2, <2>2, <2>5, ProductReflects
  <2>7. q * p <= w * p
    BY <1>1, <1>2, <2>2, <2>3, ProductType
  <2>8. q <= w
    BY <1>1, <1>2, <2>3, <2>7, ProductReflects
  <2> QED
    BY <1>4, <2>1, <2>6, <2>8 DEF PreviewRedeem, s, w, r, q
<1> QED
  BY <1>5, <1>6
-----------------------------------------------------------------------------
(* Steps that add value, and leave the shares alone. *)

\* The state after a step, named by constants.
LEMMA NextValues ==
    ASSUME TypeOK', FeesAreHeld'
    PROVE  \E b \in Nat, c \in Nat, x \in Nat, s \in Nat :
              /\ balance' = b /\ accrued' = c /\ exposure' = x /\ supply' = s
              /\ c <= b
  BY DEF TypeOK, FeesAreHeld

LEMMA AssetsNext ==
    ASSUME TypeOK', FeesAreHeld'
    PROVE  /\ LpLiquid' = balance' - accrued'
           /\ LpLiquid' \in Nat
           /\ TotalAssets' = balance' - accrued' + exposure'
           /\ TotalAssets' + 1 \in Nat \ {0}
           /\ supply' + VirtualShares \in Nat \ {0}
           /\ WithinLimits' <=>
                 Limits(LpLiquid', exposure', floorBps', exposureBps')
<1>1. PICK b \in Nat, c \in Nat, x \in Nat, s \in Nat :
         /\ balance' = b /\ accrued' = c /\ exposure' = x /\ supply' = s
         /\ c <= b
  BY NextValues
<1>2. LpLiquid' = b - c /\ TotalAssets' = b - c + x
  BY <1>1 DEF LpLiquid, LpLiquidBalance, Monus, TotalAssets
<1>3. WithinLimits' <=>
         Limits(LpLiquid', exposure', floorBps', exposureBps')
  BY <1>1, <1>2 DEF WithinLimits, Limits, TotalAssets
<1> QED
  BY <1>1, <1>2, <1>3, LpAssumption

LEMMA NoLossKeepsPrice ==
    ASSUME IInv, TypeOK', FeesAreHeld', supply' = supply,
           balance - accrued + exposure <= balance' - accrued' + exposure'
    PROVE  PriceKept
<1> DEFINE a  == TotalAssets + 1
           a2 == TotalAssets' + 1
           p  == supply + VirtualShares
<1>1. a \in Nat /\ a2 \in Nat /\ p \in Nat
  BY AssetsOf, AssetsNext DEF IInv
<1>2. a <= a2
  <2>1. /\ TotalAssets = balance - accrued + exposure
        /\ TotalAssets' = balance' - accrued' + exposure'
    BY AssetsOf, AssetsNext DEF IInv
  <2>2. PICK b \in Nat, c \in Nat, x \in Nat, s \in Nat :
           /\ balance' = b /\ accrued' = c /\ exposure' = x /\ supply' = s
           /\ c <= b
    BY NextValues
  <2> QED
    BY <2>1, <2>2 DEF IInv, TypeOK
<1> HIDE DEF a, a2, p
<1>3. a * p <= a2 * p
  BY <1>1, <1>2, ProductMonotone
<1> QED
  BY <1>3 DEF PriceKept, a, a2, p

LEMMA GainKeepsLimits ==
    ASSUME IInv, TypeOK', FeesAreHeld', exposure' <= exposure,
           balance - accrued + exposure <= balance' - accrued' + exposure'
    PROVE  LimitsStep
<1> SUFFICES ASSUME WithinLimits, UNCHANGED <<floorBps, exposureBps>>
             PROVE  Limits(LpLiquid', exposure', floorBps, exposureBps)
  BY AssetsNext DEF LimitsStep
<1>1. /\ LpLiquid \in Nat /\ LpLiquid' \in Nat
      /\ LpLiquid = balance - accrued
      /\ LpLiquid' = balance' - accrued'
      /\ Limits(LpLiquid, exposure, floorBps, exposureBps)
  BY AssetsOf, AssetsNext DEF IInv
<1>2. /\ floorBps \in Bps /\ exposureBps \in Bps
      /\ exposure \in Nat /\ exposure' \in Nat
  BY DEF IInv, TypeOK
<1>3. LpLiquid + exposure <= LpLiquid' + exposure'
  BY <1>1
<1> QED
  BY <1>1, <1>2, <1>3, LimitsSurviveGain

LEMMA DonateStep ==
    ASSUME IInv, NEW n \in LpAmounts, Donate(n)
    PROVE  IInv' /\ PriceKept /\ LimitsStep
<1>1. n \in Nat
  BY LpAssumption
<1>2. TypeOK' /\ FeesAreHeld' /\ SupplyIsSumOfShares'
  BY <1>1
  DEF IInv, TypeOK, FeesAreHeld, SupplyIsSumOfShares, Donate, shareVars,
      fillVars, ownerVars
<1>3. PriceKept /\ LimitsStep
  BY <1>1, <1>2, NoLossKeepsPrice, GainKeepsLimits
  DEF IInv, TypeOK, Donate, shareVars, fillVars
<1> QED
  BY <1>2, <1>3 DEF IInv

LEMMA ReimbursementStep ==
    ASSUME IInv, NEW i \in Intents, NEW amount \in Nat,
           RecordReimbursement(i, amount)
    PROVE  IInv' /\ PriceKept /\ LimitsStep
<1> DEFINE fee == amount - principal[i]
           cut == ProtocolShare(fee, shareBps)
<1>1. principal[i] \in Nat /\ fee \in Nat
  BY DEF IInv, TypeOK, RecordReimbursement
<1>2. cut \in 0 .. fee
  BY <1>1, ShareWithinFee DEF IInv, TypeOK
<1>3. /\ balance' = balance + amount
      /\ accrued' = accrued + cut
      /\ exposure' = exposure - principal[i]
      /\ exposure >= principal[i]
      /\ principal' = [principal EXCEPT ![i] = 0]
      /\ UNCHANGED <<shareVars, filled, ownerVars>>
  BY DEF RecordReimbursement
<1> HIDE DEF cut
<1>4. TypeOK' /\ FeesAreHeld' /\ SupplyIsSumOfShares'
  BY <1>1, <1>2, <1>3
  DEF IInv, TypeOK, FeesAreHeld, SupplyIsSumOfShares, shareVars, ownerVars
<1>5. /\ exposure' <= exposure
      /\ balance - accrued + exposure <= balance' - accrued' + exposure'
  BY <1>1, <1>2, <1>3 DEF IInv, TypeOK
<1>6. PriceKept /\ LimitsStep
  BY <1>3, <1>4, <1>5, NoLossKeepsPrice, GainKeepsLimits DEF shareVars
<1> QED
  BY <1>4, <1>6 DEF IInv

LEMMA FillStep ==
    ASSUME IInv, NEW i \in Intents, NEW fee \in 0 .. Amount[i], FastFill(i, fee)
    PROVE  IInv' /\ PriceKept /\ LimitsStep
<1> DEFINE out == Amount[i] - fee
<1>1. out \in Nat \ {0}
  BY IntentAssumption DEF FastFill, CanFill
<1>2. /\ exposure + out <= MaxOutstandingExposure(TotalAssets, exposureBps)
      /\ out <= AvailableLiquidity(LpLiquid, exposure, floorBps)
      /\ filled' = filled \cup {i}
      /\ principal' = [principal EXCEPT ![i] = out]
      /\ exposure' = exposure + out
      /\ balance' = balance - out
      /\ UNCHANGED <<shareVars, accrued, ownerVars>>
  BY DEF FastFill, CanFill, EnforceCaps
<1>3. /\ LpLiquid = balance - accrued /\ LpLiquid \in Nat
      /\ TotalAssets = LpLiquid + exposure
      /\ exposure \in Nat /\ floorBps \in Bps /\ exposureBps \in Bps
  BY AssetsOf DEF IInv, TypeOK, TotalAssets
<1> HIDE DEF out
<1>4. /\ out <= LpLiquid
      /\ Limits(LpLiquid - out, exposure + out, floorBps, exposureBps)
  BY <1>1, <1>2, <1>3, LimitsSurviveFill
<1>5. TypeOK' /\ FeesAreHeld' /\ SupplyIsSumOfShares'
  BY <1>1, <1>2, <1>3, <1>4
  DEF IInv, TypeOK, FeesAreHeld, SupplyIsSumOfShares, shareVars, ownerVars
<1>6. PriceKept
  BY <1>1, <1>2, <1>5, NoLossKeepsPrice DEF IInv, TypeOK, shareVars
<1>7. LpLiquid' = LpLiquid - out
  BY <1>1, <1>2, <1>3, <1>5, AssetsNext DEF IInv, TypeOK
<1>8. LimitsStep
  BY <1>2, <1>4, <1>5, <1>7, AssetsNext DEF LimitsStep, ownerVars
<1> QED
  BY <1>5, <1>6, <1>8 DEF IInv
-----------------------------------------------------------------------------
(* Steps of liquidity providers. *)

\* Whoever pays at least the price for new shares does not lower it.
LEMMA BuyingKeepsPrice ==
    ASSUME NEW a \in Nat, NEW p \in Nat, NEW n \in Nat, NEW m \in Nat,
           m * a <= n * p
    PROVE  a * (p + m) <= (a + n) * p
<1>1. a * (p + m) = a * p + m * a
  OBVIOUS
<1>2. (a + n) * p = a * p + n * p
  OBVIOUS
<1> QED
  BY <1>1, <1>2

\* Whoever burns at least the shares her assets are worth does not either.
LEMMA SellingKeepsPrice ==
    ASSUME NEW a \in Nat, NEW p \in Nat, NEW n \in Nat, NEW m \in Nat,
           n * p <= m * a
    PROVE  a * (p - m) <= (a - n) * p
<1>1. a * (p - m) = a * p - m * a
  OBVIOUS
<1>2. (a - n) * p = a * p - n * p
  OBVIOUS
<1> QED
  BY <1>1, <1>2

\* Of "p" shares, worth "a", a caller holds "s" and trades "m" for "n", either
\* in or out, at no better than the price: what she then holds is worth no more
\* than "n" above what she held.  Her own part of what rounding leaves to all
\* holders does not make up for what it took from her.
LEMMA TradeIsFair ==
    ASSUME NEW s \in Nat, NEW a \in Nat \ {0}, NEW p \in Nat \ {0},
           NEW n \in Int, NEW m \in Int,
           s <= p, s + m \in Nat, a + n \in Nat, p + m \in Nat \ {0},
           m * a <= n * p
    PROVE  MulDivFloor(s + m, a + n, p + m) - n <= MulDivFloor(s, a, p)
<1> DEFINE x == MulDivFloor(s + m, a + n, p + m)
           y == MulDivFloor(s, a, p)
<1>1. x \in Nat /\ y \in Nat
  BY QuotientTypes
<1>2. x * (p + m) <= (s + m) * (a + n)
  BY <1>1, FloorMeans
<1> HIDE DEF x
<1>3. 0 <= p * ((s + m) * (a + n) - x * (p + m))
  BY <1>1, <1>2
<1>4. 0 <= (p - s) * (n * p - m * a)
  OBVIOUS
<1>5. (s * a) * (p + m) - ((x - n) * p) * (p + m)
         = p * ((s + m) * (a + n) - x * (p + m)) + (p - s) * (n * p - m * a)
  BY <1>1
<1>6. ((x - n) * p) * (p + m) <= (s * a) * (p + m)
  BY <1>1, <1>3, <1>4, <1>5
<1>7. (x - n) * p <= s * a
  BY <1>1, <1>6, ProductReflects
<1>8. CASE x - n \in Nat
  <2> DEFINE z == x - n
  <2>1. z \in Nat /\ z * p <= s * a
    BY <1>7, <1>8
  <2> HIDE DEF z
  <2>2. z <= MulDivFloor(s, a, p)
    BY <2>1, FloorMeans
  <2> QED
    BY <2>2 DEF z, x
<1>9. CASE x - n \notin Nat
  BY <1>1, <1>9 DEF x
<1> QED
  BY <1>8, <1>9

LEMMA FairTrade ==
    ASSUME IInv, TypeOK', FeesAreHeld', NEW lp \in LPs,
           NEW n \in Int, NEW m \in Int,
           shares' = [shares EXCEPT ![lp] = shares[lp] + m],
           supply' = supply + m, TotalAssets' = TotalAssets + n,
           m * (TotalAssets + 1) <= n * (supply + VirtualShares)
    PROVE  TradingStep
<1> DEFINE s == shares[lp]
           a == TotalAssets + 1
           p == supply + VirtualShares
<1>1. /\ s \in Nat /\ a \in Nat \ {0} /\ p \in Nat \ {0}
      /\ TotalAssets \in Int /\ m * a <= n * p
  BY AssetsOf DEF IInv, TypeOK
<1>2. s <= p
  <2>1. shares \in [LPs -> Nat] /\ IsFiniteSet(LPs) /\ supply = Total(shares)
    BY LpAssumption DEF IInv, TypeOK, SupplyIsSumOfShares
  <2>2. s <= supply
    BY <2>1, EntryWithinTotal
  <2> QED
    BY <2>2, LpAssumption DEF IInv, TypeOK
<1>3. shares'[lp] = s + m /\ TotalAssets' + 1 = a + n
      /\ supply' + VirtualShares = p + m
  BY <1>1, LpAssumption DEF IInv, TypeOK
<1>4. s + m \in Nat /\ a + n \in Nat /\ p + m \in Nat \ {0}
  BY <1>3, AssetsNext DEF TypeOK
<1> HIDE DEF s, a, p
<1>5. MulDivFloor(s + m, a + n, p + m) - n <= MulDivFloor(s, a, p)
  BY <1>1, <1>2, <1>4, TradeIsFair
<1>6. Worth(lp) = MulDivFloor(s, a, p)
  BY DEF Worth, ToAssets, s, a, p
<1>7. Worth(lp)' = MulDivFloor(s + m, a + n, p + m)
  BY <1>3 DEF Worth, ToAssets
<1>8. MulDivFloor(s, a, p) \in Nat /\ MulDivFloor(s + m, a + n, p + m) \in Nat
  BY <1>1, <1>4, QuotientTypes
<1>9. NoGain(lp)
  BY <1>1, <1>5, <1>6, <1>7, <1>8 DEF NoGain
<1>10. \A other \in LPs : other # lp => shares'[other] = shares[other]
  BY DEF IInv, TypeOK
<1> QED
  BY <1>9, <1>10 DEF TradingStep

LEMMA PayingIn ==
    ASSUME IInv, NEW lp \in LPs, NEW n \in Nat, NEW m \in Nat,
           PullAndMint(lp, n, m),
           m * (TotalAssets + 1) <= n * (supply + VirtualShares)
    PROVE  IInv' /\ PriceKept /\ TradingStep /\ LimitsStep
<1>1. /\ balance' = balance + n /\ supply' = supply + m
      /\ shares' = [shares EXCEPT ![lp] = shares[lp] + m]
      /\ UNCHANGED <<fillVars, ownerVars>>
  BY DEF PullAndMint
<1>2. shares \in [LPs -> Nat] /\ shares[lp] + m \in Nat /\ IsFiniteSet(LPs)
  BY LpAssumption DEF IInv, TypeOK
<1>3. Total(shares') = Total(shares) - shares[lp] + (shares[lp] + m)
  <2>1. Total([shares EXCEPT ![lp] = shares[lp] + m])
           = Total(shares) - shares[lp] + (shares[lp] + m)
    BY <1>2, TotalOfUpdate
  <2> QED
    BY <1>1, <2>1
<1>4. TypeOK' /\ FeesAreHeld'
  BY <1>1, <1>2 DEF IInv, TypeOK, FeesAreHeld, fillVars, ownerVars
<1>5. SupplyIsSumOfShares'
  BY <1>1, <1>2, <1>3, TotalType DEF IInv, SupplyIsSumOfShares
<1>6. PriceKept
  <2> DEFINE a == TotalAssets + 1
             p == supply + VirtualShares
  <2>1. a \in Nat /\ p \in Nat
    BY AssetsOf DEF IInv
  <2>2. supply' + VirtualShares = p + m
    BY <1>1, LpAssumption DEF IInv, TypeOK
  <2>3. TotalAssets' + 1 = a + n
    <3>1. /\ TotalAssets = balance - accrued + exposure
          /\ TotalAssets' = balance' - accrued' + exposure'
      BY <1>4, AssetsOf, AssetsNext DEF IInv
    <3> QED
      BY <1>1, <3>1 DEF fillVars, IInv, TypeOK
  <2> HIDE DEF a, p
  <2>4. a * (p + m) <= (a + n) * p
    BY <2>1, BuyingKeepsPrice DEF a, p
  <2> QED
    BY <2>2, <2>3, <2>4 DEF PriceKept, a, p
<1>7. LimitsStep
  BY <1>1, <1>4, GainKeepsLimits DEF IInv, TypeOK, fillVars
<1>8. TradingStep
  <2>1. TotalAssets' = TotalAssets + n
    BY <1>1, <1>4, AssetsOf, AssetsNext DEF fillVars, IInv, TypeOK
  <2>2. /\ n \in Int /\ m \in Int /\ TypeOK' /\ FeesAreHeld'
        /\ supply' = supply + m
        /\ shares' = [shares EXCEPT ![lp] = shares[lp] + m]
    BY <1>1, <1>4
  <2> QED
    BY <2>1, <2>2, FairTrade
<1> QED
  BY <1>4, <1>5, <1>6, <1>7, <1>8 DEF IInv

LEMMA PayingOut ==
    ASSUME IInv, NEW lp \in LPs, NEW n \in Nat \ {0}, NEW m \in Nat,
           BurnAndPay(lp, n, m), n <= Withdrawable,
           n * (supply + VirtualShares) <= m * (TotalAssets + 1)
    PROVE  IInv' /\ PriceKept /\ TradingStep /\ LimitsStep
<1>1. /\ balance' = balance - n /\ supply' = supply - m
      /\ shares' = [shares EXCEPT ![lp] = shares[lp] - m]
      /\ m <= shares[lp] /\ n <= LpLiquid
      /\ UNCHANGED <<fillVars, ownerVars>>
  BY DEF BurnAndPay
<1>2. /\ shares \in [LPs -> Nat] /\ shares[lp] - m \in Nat
      /\ IsFiniteSet(LPs)
  BY <1>1, LpAssumption DEF IInv, TypeOK
<1>3. /\ Total(shares') = Total(shares) - shares[lp] + (shares[lp] - m)
      /\ shares[lp] <= Total(shares)
  <2> DEFINE left == shares[lp] - m
  <2> HIDE DEF left
  <2>1. left \in Nat
    BY <1>2 DEF left
  <2>2. Total([shares EXCEPT ![lp] = left]) = Total(shares) - shares[lp] + left
    BY <1>2, <2>1, TotalOfUpdate
  <2>3. Total(shares') = Total([shares EXCEPT ![lp] = left])
    BY <1>1 DEF left
  <2>4. shares[lp] <= Total(shares)
    BY <1>2, EntryWithinTotal
  <2> QED
    BY <2>2, <2>3, <2>4 DEF left
<1>4. /\ LpLiquid = balance - accrued /\ LpLiquid \in Nat
      /\ supply \in Nat /\ supply = Total(shares)
      /\ balance \in Nat /\ accrued \in Nat /\ exposure \in Nat
  BY AssetsOf DEF IInv, TypeOK, SupplyIsSumOfShares
<1>5. supply - m \in Nat
  BY <1>1, <1>2, <1>3, <1>4
<1>6. TypeOK' /\ FeesAreHeld'
  BY <1>1, <1>2, <1>4, <1>5
  DEF IInv, TypeOK, FeesAreHeld, fillVars, ownerVars
<1>7. SupplyIsSumOfShares'
  BY <1>1, <1>2, <1>3, <1>4 DEF SupplyIsSumOfShares
<1>8. PriceKept
  <2> DEFINE a == TotalAssets + 1
             p == supply + VirtualShares
  <2>1. a \in Nat /\ p \in Nat
    BY AssetsOf DEF IInv
  <2>2. supply' + VirtualShares = p - m
    BY <1>1, <1>4, LpAssumption
  <2>3. TotalAssets' + 1 = a - n
    <3>1. /\ TotalAssets = balance - accrued + exposure
          /\ TotalAssets' = balance' - accrued' + exposure'
      BY <1>6, AssetsOf, AssetsNext DEF IInv
    <3> QED
      BY <1>1, <1>4, <3>1 DEF fillVars
  <2> HIDE DEF a, p
  <2>4. a * (p - m) <= (a - n) * p
    BY <2>1, SellingKeepsPrice DEF a, p
  <2> QED
    BY <2>2, <2>3, <2>4 DEF PriceKept, a, p
<1>9. LimitsStep
  <2>1. floorBps \in Bps /\ exposureBps \in Bps
    BY DEF IInv, TypeOK
  <2>2. Limits(LpLiquid - n, exposure, floorBps, exposureBps)
    BY <1>1, <1>4, <2>1, LimitsSurviveWithdrawal DEF Withdrawable
  <2>3. LpLiquid' = LpLiquid - n
    BY <1>1, <1>4, <1>6, AssetsNext DEF fillVars
  <2> QED
    BY <1>1, <1>6, <2>2, <2>3, AssetsNext DEF LimitsStep, fillVars, ownerVars
<1>10. TradingStep
  <2> DEFINE paid   == 0 - n
             burned == 0 - m
  <2>1. paid \in Int /\ burned \in Int
    OBVIOUS
  <2>2. TotalAssets' = TotalAssets + paid
    <3>1. /\ TotalAssets = balance - accrued + exposure
          /\ TotalAssets' = balance' - accrued' + exposure'
      BY <1>6, AssetsOf, AssetsNext DEF IInv
    <3> QED
      BY <1>1, <1>4, <3>1 DEF fillVars
  <2>3. /\ shares[lp] - m = shares[lp] + burned
        /\ supply' = supply + burned
    BY <1>1, <1>2, <1>4 DEF IInv, TypeOK
  <2>4. burned * (TotalAssets + 1) <= paid * (supply + VirtualShares)
    BY AssetsOf DEF IInv
  <2> HIDE DEF paid, burned
  <2> QED
    BY <1>1, <1>6, <2>1, <2>2, <2>3, <2>4, FairTrade
<1> QED
  BY <1>6, <1>7, <1>8, <1>9, <1>10 DEF IInv

LEMMA LpStep ==
    ASSUME IInv, NEW lp \in LPs, LpNext(lp)
    PROVE  IInv' /\ PriceKept /\ TradingStep /\ LimitsStep
<1> PICK n \in LpAmounts :
       \/ Deposit(lp, n) \/ Mint(lp, n) \/ Withdraw(lp, n) \/ Redeem(lp, n)
       \/ \E to \in LPs : TransferShares(lp, to, n)
  BY DEF LpNext
<1>1. n \in Nat \ {0} /\ TypeOK /\ FeesAreHeld /\ shares[lp] \in Nat
  BY LpAssumption DEF IInv, TypeOK
<1>2. CASE Deposit(lp, n)
  <2>1. ToShares(n) \in Nat
    BY <1>1, ViewTypes
  <2>2. ToShares(n) * (TotalAssets + 1) <= n * (supply + VirtualShares)
    BY <1>1, Rounding
  <2> QED
    BY <1>1, <1>2, <2>1, <2>2, PayingIn DEF Deposit, PreviewDeposit
<1>3. CASE Mint(lp, n)
  <2>1. PreviewMint(n) \in Nat
    BY <1>1, ViewTypes
  <2>2. n * (TotalAssets + 1) <= PreviewMint(n) * (supply + VirtualShares)
    BY <1>1, Rounding
  <2> QED
    BY <1>1, <1>3, <2>1, <2>2, PayingIn DEF Mint
<1>4. CASE Withdraw(lp, n)
  <2>1. PreviewWithdraw(n) \in Nat
    BY <1>1, ViewTypes
  <2>2. n * (supply + VirtualShares) <= PreviewWithdraw(n) * (TotalAssets + 1)
    BY <1>1, Rounding
  <2>3. n <= Withdrawable
    <3>1. ToAssets(shares[lp]) \in Nat /\ Withdrawable \in Nat
      BY <1>1, ViewTypes, WithdrawableType, AssetsOf
    <3> QED
      BY <1>1, <1>4, <3>1 DEF Withdraw, MaxWithdraw, Lesser
  <2> QED
    BY <1>1, <1>4, <2>1, <2>2, <2>3, PayingOut DEF Withdraw
<1>5. CASE Redeem(lp, n)
  <2> DEFINE r == MaxRedeem(lp)
  <2>1. /\ ToAssets(n) \in Nat \ {0}
        /\ n <= r /\ BurnAndPay(lp, ToAssets(n), n)
    BY <1>1, <1>5, ViewTypes DEF Redeem, PreviewRedeem
  <2>2. ToAssets(n) * (supply + VirtualShares) <= n * (TotalAssets + 1)
    BY <1>1, Rounding
  <2>3. r \in Nat /\ ToAssets(r) <= Withdrawable
    <3>1. Withdrawable \in Nat
      BY <1>1, WithdrawableType, AssetsOf
    <3>2. ToShares(Withdrawable) \in Nat
      BY <1>1, <3>1, ViewTypes
    <3> QED
      BY <1>1, <3>2, ViewsHonoured
      DEF MaxRedeem, MaxViewsAreHonoured, PreviewRedeem
  <2>4. ToAssets(n) <= ToAssets(r)
    <3> DEFINE a == TotalAssets + 1
               p == supply + VirtualShares
               q == ToAssets(n)
    <3>1. a \in Nat \ {0} /\ p \in Nat \ {0} /\ q \in Nat /\ q * p <= n * a
      BY <1>1, <2>1, <2>2, AssetsOf
    <3> HIDE DEF a, p, q, r
    <3>2. n * a <= r * a
      BY <1>1, <2>1, <2>3, <3>1, ProductMonotone
    <3>3. q * p <= r * a
      BY <1>1, <2>3, <3>1, <3>2, ProductType
    <3>4. q <= MulDivFloor(r, a, p)
      BY <2>3, <3>1, <3>3, FloorMeans
    <3> QED
      BY <3>4 DEF ToAssets, a, p, q
  <2>5. ToAssets(n) <= Withdrawable
    BY <1>1, <2>1, <2>3, <2>4, ViewTypes, WithdrawableType, AssetsOf
  <2> QED
    BY <1>1, <2>1, <2>2, <2>5, PayingOut
<1>6. ASSUME NEW to \in LPs, TransferShares(lp, to, n)
      PROVE  IInv' /\ PriceKept /\ TradingStep /\ LimitsStep
  <2> DEFINE f == [shares EXCEPT ![lp] = shares[lp] - n]
  <2>1. /\ lp # to /\ n <= shares[lp]
        /\ shares' = [f EXCEPT ![to] = f[to] + n]
        /\ UNCHANGED <<supply, balance, fillVars, ownerVars>>
    BY <1>6 DEF TransferShares, IInv, TypeOK
  <2>2. f \in [LPs -> Nat] /\ f[to] = shares[to] /\ f[to] + n \in Nat
    BY <1>1, <2>1 DEF IInv, TypeOK
  <2>3. Total(f) = Total(shares) - shares[lp] + (shares[lp] - n)
    <3>1. /\ shares \in [LPs -> Nat] /\ shares[lp] - n \in Nat
          /\ IsFiniteSet(LPs)
      BY <1>1, <2>1, LpAssumption DEF IInv, TypeOK
    <3> QED
      BY <3>1, TotalOfUpdate
  <2> HIDE DEF f
  <2>4. Total(shares') = Total(f) - f[to] + (f[to] + n)
    <3>1. IsFiniteSet(LPs)
      BY LpAssumption
    <3>2. Total([f EXCEPT ![to] = f[to] + n]) = Total(f) - f[to] + (f[to] + n)
      BY <2>2, <3>1, TotalOfUpdate
    <3> QED
      BY <2>1, <3>2
  <2>5. Total(shares) \in Nat
    BY TotalType, LpAssumption DEF IInv, TypeOK
  <2>6. SupplyIsSumOfShares'
    BY <1>1, <2>1, <2>2, <2>3, <2>4, <2>5 DEF IInv, SupplyIsSumOfShares
  <2>7. TypeOK' /\ FeesAreHeld'
    BY <2>1, <2>2 DEF IInv, TypeOK, FeesAreHeld, fillVars, ownerVars
  <2>8. PriceKept /\ LimitsStep /\ TradingStep
    BY <2>1, <2>7, NoLossKeepsPrice, GainKeepsLimits
    DEF IInv, TypeOK, fillVars, TradingStep
  <2> QED
    BY <2>6, <2>7, <2>8 DEF IInv
<1> QED
  BY <1>2, <1>3, <1>4, <1>5, <1>6
-----------------------------------------------------------------------------
(* The owner, and every step. *)

LEMMA OwnerStep ==
    ASSUME IInv, OwnerNext
    PROVE  IInv' /\ PriceKept /\ LimitsStep
<1>1. CASE WithdrawFees
  <2>1. TypeOK' /\ FeesAreHeld' /\ SupplyIsSumOfShares'
    BY <1>1
    DEF IInv, TypeOK, FeesAreHeld, SupplyIsSumOfShares, WithdrawFees,
        shareVars, ownerVars
  <2>2. PriceKept /\ LimitsStep
    BY <1>1, <2>1, NoLossKeepsPrice, GainKeepsLimits
    DEF IInv, TypeOK, FeesAreHeld, WithdrawFees, shareVars
  <2> QED
    BY <2>1, <2>2 DEF IInv
<1>2. ASSUME UNCHANGED <<shareVars, balance, fillVars>>,
             /\ floorBps' \in Bps /\ fillBps' \in Bps
             /\ exposureBps' \in Bps /\ shareBps' \in Bps
             /\ paused' \in BOOLEAN
      PROVE  IInv' /\ PriceKept /\ LimitsStep
  <2>1. TypeOK' /\ FeesAreHeld' /\ SupplyIsSumOfShares'
    BY <1>2
    DEF IInv, TypeOK, FeesAreHeld, SupplyIsSumOfShares, shareVars, fillVars
  <2>2. PriceKept /\ LimitsStep
    BY <1>2, <2>1, NoLossKeepsPrice, GainKeepsLimits
    DEF IInv, TypeOK, FeesAreHeld, shareVars, fillVars
  <2> QED
    BY <2>1, <2>2 DEF IInv
<1>3. ASSUME NEW bps \in BpsChoices, SetReserveFloorBps(bps)
      PROVE  IInv' /\ PriceKept /\ LimitsStep
  BY <1>2, <1>3, OwnerAssumption DEF SetReserveFloorBps, IInv, TypeOK
<1>4. ASSUME NEW fill \in BpsChoices, NEW bps \in BpsChoices,
             SetFillLimits(fill, bps)
      PROVE  IInv' /\ PriceKept /\ LimitsStep
  BY <1>2, <1>4, OwnerAssumption DEF SetFillLimits, IInv, TypeOK
<1>5. ASSUME NEW bps \in FeeShares, SetProtocolFeeShareBps(bps)
      PROVE  IInv' /\ PriceKept /\ LimitsStep
  BY <1>2, <1>5, OwnerAssumption DEF SetProtocolFeeShareBps, IInv, TypeOK
<1>6. ASSUME NEW flag \in BOOLEAN, SetPaused(flag)
      PROVE  IInv' /\ PriceKept /\ LimitsStep
  BY <1>2, <1>6 DEF SetPaused, IInv, TypeOK
<1> QED
  BY <1>1, <1>3, <1>4, <1>5, <1>6 DEF OwnerNext

LEMMA VaultStep ==
    ASSUME IInv, [Next]_vars
    PROVE  IInv' /\ PriceKept /\ TradingStep /\ LimitsStep
<1>1. CASE \E lp \in LPs : LpNext(lp)
  BY <1>1, LpStep
<1>2. ASSUME NEW i \in Intents, FillNext(i)
      PROVE  IInv' /\ PriceKept /\ LimitsStep /\ UNCHANGED supply
  <2>1. ASSUME NEW amount \in 0 .. Amount[i], RecordReimbursement(i, amount)
        PROVE  IInv' /\ PriceKept /\ LimitsStep
    BY <2>1, ReimbursementStep, IntentAssumption
  <2>2. UNCHANGED supply
    BY <1>2 DEF FillNext, FastFill, RecordReimbursement, shareVars
  <2> QED
    BY <1>2, <2>1, <2>2, FillStep DEF FillNext
<1>3. ASSUME NEW n \in LpAmounts, Donate(n)
      PROVE  IInv' /\ PriceKept /\ LimitsStep /\ UNCHANGED supply
  BY <1>3, DonateStep DEF Donate, shareVars
<1>4. CASE OwnerNext
  <2>1. UNCHANGED supply
    BY <1>4
    DEF OwnerNext, WithdrawFees, SetReserveFloorBps, SetFillLimits,
        SetProtocolFeeShareBps, SetPaused, shareVars
  <2> QED
    BY <1>4, <2>1, OwnerStep DEF TradingStep
<1>5. CASE UNCHANGED vars
  <2>1. TypeOK' /\ FeesAreHeld' /\ SupplyIsSumOfShares'
    BY <1>5
    DEF IInv, TypeOK, FeesAreHeld, SupplyIsSumOfShares, vars, shareVars,
        fillVars, ownerVars
  <2>2. PriceKept /\ LimitsStep
    BY <1>5, <2>1, NoLossKeepsPrice, GainKeepsLimits
    DEF IInv, TypeOK, FeesAreHeld, vars, shareVars, fillVars
  <2>3. TradingStep
    BY <1>5 DEF TradingStep, vars, shareVars
  <2> QED
    BY <2>1, <2>2, <2>3 DEF IInv
<1> QED
  BY <1>1, <1>2, <1>3, <1>4, <1>5 DEF Next, TradingStep

LEMMA InitInv == Init => IInv
<1> SUFFICES ASSUME Init PROVE IInv
  OBVIOUS
<1>1. TypeOK /\ FeesAreHeld
  <2>1. PICK limits \in LimitSettings :
           /\ floorBps = limits.floor /\ fillBps = limits.fill
           /\ exposureBps = limits.exposure
    BY OwnerAssumption DEF Init
  <2>2. /\ floorBps \in Bps /\ fillBps \in Bps
        /\ exposureBps \in Bps /\ shareBps \in Bps
    BY <2>1, BpsAssumption DEF Init, LimitSettings, Bps
  <2>3. /\ shares \in [LPs -> Nat] /\ principal \in [Intents -> Nat]
        /\ supply \in Nat /\ balance \in Nat /\ exposure \in Nat
        /\ accrued \in Nat /\ accrued <= balance
        /\ filled \subseteq Intents
    BY DEF Init
  <2>4. paused \in BOOLEAN
    BY DEF Init
  <2> QED
    BY <2>2, <2>3, <2>4 DEF TypeOK, FeesAreHeld
<1>2. Total(shares) = 0
  BY TotalOfNothing DEF Init
<1> QED
  BY <1>1, <1>2 DEF Init, IInv, SupplyIsSumOfShares

LEMMA Invariance == Spec => []IInv
<1>1. IInv /\ [Next]_vars => IInv'
  BY VaultStep
<1> QED
  BY InitInv, <1>1, PTL DEF Spec

-----------------------------------------------------------------------------
(* Theorems. *)

\* The vault's books keep their types: no withdrawal, burn or reimbursement
\* underflows.
THEOREM TypeCorrect == Spec => []TypeOK
<1>1. IInv => TypeOK
  BY DEF IInv
<1> QED
  BY <1>1, Invariance, PTL

\* What is owed to the treasury is always in the vault.
THEOREM TreasuryIsSafe == Spec => []FeesAreHeld
<1>1. IInv => FeesAreHeld
  BY DEF IInv
<1> QED
  BY <1>1, Invariance, PTL

\* An LP can take what maxWithdraw and maxRedeem say, whatever the others do.
THEOREM ViewsKeepTheirWord == Spec => []MaxViewsAreHonoured
<1>1. IInv => MaxViewsAreHonoured
  BY ViewsHonoured DEF IInv
<1> QED
  BY <1>1, Invariance, PTL

\* No sequence of deposits, redemptions, fills and reimbursements takes value
\* from the LPs who stay.
THEOREM PriceNeverFalls == Spec => SharePriceNeverFalls
<1>1. IInv /\ [Next]_vars
        => [(TotalAssets + 1) * (supply' + VirtualShares)
               <= (TotalAssets' + 1) * (supply + VirtualShares)]_vars
  BY VaultStep DEF PriceKept
<1> QED
  BY <1>1, Invariance, PTL DEF Spec, SharePriceNeverFalls

\* Nor is anyone worth more for having traded, however the amounts round.
THEOREM TradesAreFair == Spec => TradingNeverPays
<1>1. IInv /\ [Next]_vars
        => [supply' # supply =>
              \A lp \in LPs :
                 shares'[lp] # shares[lp] =>
                     Worth(lp)' - Worth(lp) <= TotalAssets' - TotalAssets]_vars
  BY VaultStep DEF TradingStep, NoGain
<1> QED
  BY <1>1, Invariance, PTL DEF Spec, TradingNeverPays

\* Only the owner's own change of the limits can leave the vault outside them.
THEOREM OnlyTheOwnerBreaksLimits == Spec => LimitsKept
<1>1. IInv /\ [Next]_vars
        => [WithinLimits /\ UNCHANGED <<floorBps, exposureBps>>
               => WithinLimits']_vars
  BY VaultStep DEF LimitsStep
<1> QED
  BY <1>1, Invariance, PTL DEF Spec, LimitsKept

-----------------------------------------------------------------------------
(* The index. *)

Followed == IndexTypeOK /\ RowFollowsVault

Priced == entity.feeBps = FeeBpsAt(Policy, UtilisationOf(entity))

Advanced ==
    /\ exposure = Total(principal)
    /\ \A i \in Intents : principal[i] # 0 => i \in filled

Aged ==
    /\ AgeNeverUnderstated
    /\ entity.oldest < Now

IndexInv == IInv /\ Followed /\ Priced /\ Advanced /\ Aged

-----------------------------------------------------------------------------
(* The vault's part: a refinement without a mapping. *)

\* Every step of the indexed vault is a step of the vault, or none.
LEMMA IndexStepIsVaultStep == [IndexNext]_allVars => [Next]_vars
<1>1. ASSUME NEW lp \in LPs, NEW n \in LpAmounts, IndexedLp(lp, n)
      PROVE  Next
  BY <1>1 DEF IndexedLp, Next, LpNext
<1>2. ASSUME NEW i \in Intents, NEW n \in 0 .. Amount[i],
             IndexedFill(i, n) \/ IndexedReimbursement(i, n)
      PROVE  Next
  BY <1>2 DEF IndexedFill, IndexedReimbursement, Next, FillNext
<1>3. ASSUME NEW n \in LpAmounts, IndexedDonation(n)
      PROVE  Next
  BY <1>3 DEF IndexedDonation, Next
<1>4. IndexedSweep => Next
  BY DEF IndexedSweep, Next, OwnerNext
<1>5. UnindexedSetting => Next
  BY DEF UnindexedSetting, Next, OwnerNext
<1>6. ASSUME NEW flag \in BOOLEAN, SetPaused(flag)
      PROVE  Next
  BY <1>6 DEF Next, OwnerNext
<1>7. UNCHANGED allVars => UNCHANGED vars
  BY DEF allVars
<1> QED
  BY <1>1, <1>2, <1>3, <1>4, <1>5, <1>6, <1>7 DEF IndexNext

\* The indexed vault is the vault: its index can change nothing of it.
THEOREM IndexImplementsVault == IndexSpec => Spec
<1>1. IndexInit => Init
  BY DEF IndexInit
<1> QED
  BY <1>1, IndexStepIsVaultStep, PTL DEF IndexSpec, Spec

-----------------------------------------------------------------------------
(* The handlers. *)

LEMMA FeeTierType == ASSUME NEW u \in Int PROVE FeeBpsAt(Policy, u) \in Bps
  BY OwnerAssumption DEF FeePolicies, FeeBpsAt

LEMMA UtilisationType ==
    ASSUME NEW e \in Entities
    PROVE  UtilisationOf(e) \in Nat
<1> DEFINE l == LpLiquidBalance(e.liquid, e.accrued)
<1>1. e.liquid \in Int /\ e.accrued \in Nat /\ e.exposure \in Nat
  BY DEF Entities
<1>2. l \in Nat
  BY <1>1 DEF LpLiquidBalance, Monus
<1>3. CASE l + e.exposure = 0
  BY <1>3, BpsAssumption DEF UtilisationOf, Utilisation
<1>4. CASE l + e.exposure # 0
  <2>1. l + e.exposure \in Nat \ {0}
    BY <1>1, <1>2, <1>4
  <2>2. MulDivFloor(e.exposure, BPS_DENOMINATOR, l + e.exposure) \in Nat
    BY <1>1, <2>1, QuotientTypes, BpsAssumption
  <2> QED
    BY <1>4, <2>2 DEF UtilisationOf, Utilisation
<1> QED
  BY <1>3, <1>4

\* After a refresh the row's price is that of its own utilisation, and nothing
\* else of it is different.
LEMMA Refreshed ==
    ASSUME NEW e \in Entities
    PROVE  LET r == RefreshFeeTier(e)
           IN  /\ r \in Entities
               /\ r.feeBps = FeeBpsAt(Policy, UtilisationOf(r))
               /\ r.liquid = e.liquid /\ r.exposure = e.exposure
               /\ r.accrued = e.accrued /\ r.paused = e.paused
               /\ r.pending = e.pending /\ r.oldest = e.oldest
               /\ r.limits = e.limits
<1> DEFINE r == RefreshFeeTier(e)
<1>1. FeeBpsAt(Policy, UtilisationOf(e)) \in Bps
  BY UtilisationType, FeeTierType
<1>2. r \in Entities
  BY <1>1 DEF RefreshFeeTier, Entities
<1>3. /\ r.liquid = e.liquid /\ r.exposure = e.exposure
      /\ r.accrued = e.accrued /\ r.paused = e.paused
      /\ r.pending = e.pending /\ r.oldest = e.oldest
      /\ r.limits = e.limits
      /\ r.feeBps = FeeBpsAt(Policy, UtilisationOf(e))
  BY DEF RefreshFeeTier, Entities
<1>4. UtilisationOf(r) = UtilisationOf(e)
  BY <1>3 DEF UtilisationOf
<1> QED
  BY <1>2, <1>3, <1>4

LEMMA AfterMove ==
    ASSUME NEW e \in Entities, NEW d \in Int
    PROVE  LET r == RefreshFeeTier([e EXCEPT !.liquid = @ + d])
           IN  /\ r \in Entities
               /\ r.feeBps = FeeBpsAt(Policy, UtilisationOf(r))
               /\ r.liquid = e.liquid + d /\ r.exposure = e.exposure
               /\ r.accrued = e.accrued /\ r.paused = e.paused
               /\ r.pending = e.pending /\ r.oldest = e.oldest
<1> DEFINE m == [e EXCEPT !.liquid = @ + d]
<1>1. m \in Entities
  BY DEF Entities
<1>2. /\ m.liquid = e.liquid + d /\ m.exposure = e.exposure
      /\ m.accrued = e.accrued /\ m.paused = e.paused
      /\ m.pending = e.pending /\ m.oldest = e.oldest
  BY DEF Entities
<1> HIDE DEF m
<1> QED
  BY <1>1, <1>2, Refreshed DEF m

LEMMA AfterFastFilled ==
    ASSUME NEW e \in Entities, NEW out \in Nat, NEW time \in Nat
    PROVE  LET r == HandleFastFilled(e, out, time)
           IN  /\ r \in Entities
               /\ r.feeBps = FeeBpsAt(Policy, UtilisationOf(r))
               /\ r.liquid = e.liquid - out /\ r.exposure = e.exposure + out
               /\ r.accrued = e.accrued /\ r.paused = e.paused
               /\ r.pending = e.pending + out
               /\ r.oldest = IF e.oldest = 0 THEN time ELSE e.oldest
<1> DEFINE m == [e EXCEPT !.exposure = @ + out, !.liquid = @ - out,
                          !.pending = @ + out,
                          !.oldest = IF @ = 0 THEN time ELSE @]
<1>1. m \in Entities
  <2>1. /\ e.exposure + out \in Nat /\ e.liquid - out \in Int
        /\ e.pending + out \in Nat
        /\ (IF e.oldest = 0 THEN time ELSE e.oldest) \in Nat
    BY DEF Entities
  <2> QED
    BY <2>1 DEF Entities
<1>2. /\ m.liquid = e.liquid - out /\ m.exposure = e.exposure + out
      /\ m.accrued = e.accrued /\ m.paused = e.paused
      /\ m.pending = e.pending + out
      /\ m.oldest = IF e.oldest = 0 THEN time ELSE e.oldest
  BY DEF Entities
<1>3. HandleFastFilled(e, out, time) = RefreshFeeTier(m)
  BY DEF HandleFastFilled
<1> HIDE DEF m
<1> QED
  BY <1>1, <1>2, <1>3, Refreshed

LEMMA AfterReimbursement ==
    ASSUME NEW e \in Entities, NEW amount \in Nat, NEW cleared \in Nat,
           cleared <= e.exposure, cleared <= e.pending
    PROVE  LET r == HandleReimbursement(e, amount, cleared)
           IN  /\ r \in Entities
               /\ r.feeBps = FeeBpsAt(Policy, UtilisationOf(r))
               /\ r.liquid = e.liquid + amount /\ r.exposure = e.exposure - cleared
               /\ r.accrued = e.accrued /\ r.paused = e.paused
               /\ r.pending = e.pending - cleared
               /\ r.oldest = IF e.pending = cleared THEN 0 ELSE e.oldest
<1> DEFINE m == [e EXCEPT !.liquid = @ + amount, !.exposure = @ - cleared,
                          !.pending = @ - cleared,
                          !.oldest = IF e.pending - cleared <= 0 THEN 0 ELSE @]
<1>1. m \in Entities
  <2>1. /\ e.exposure - cleared \in Nat /\ e.liquid + amount \in Int
        /\ e.pending - cleared \in Nat
        /\ (IF e.pending - cleared <= 0 THEN 0 ELSE e.oldest) \in Nat
    BY DEF Entities
  <2> QED
    BY <2>1 DEF Entities
<1>2. /\ m.liquid = e.liquid + amount /\ m.exposure = e.exposure - cleared
      /\ m.accrued = e.accrued /\ m.paused = e.paused
      /\ m.pending = e.pending - cleared
      /\ m.oldest = IF e.pending = cleared THEN 0 ELSE e.oldest
  BY DEF Entities
<1>3. HandleReimbursement(e, amount, cleared) = RefreshFeeTier(m)
  BY DEF HandleReimbursement
<1> HIDE DEF m
<1> QED
  BY <1>1, <1>2, <1>3, Refreshed

LEMMA AfterFeesAccrued ==
    ASSUME NEW e \in Entities, NEW toProtocol \in Nat
    PROVE  LET r == HandleFeesAccrued(e, toProtocol)
           IN  /\ r \in Entities
               /\ r.feeBps = FeeBpsAt(Policy, UtilisationOf(r))
               /\ r.liquid = e.liquid /\ r.exposure = e.exposure
               /\ r.accrued = e.accrued + toProtocol /\ r.paused = e.paused
               /\ r.pending = e.pending /\ r.oldest = e.oldest
<1> DEFINE m == [e EXCEPT !.accrued = @ + toProtocol]
<1>1. m \in Entities
  BY DEF Entities
<1>2. /\ m.liquid = e.liquid /\ m.exposure = e.exposure
      /\ m.accrued = e.accrued + toProtocol /\ m.paused = e.paused
      /\ m.pending = e.pending /\ m.oldest = e.oldest
  BY DEF Entities
<1>3. HandleFeesAccrued(e, toProtocol) = RefreshFeeTier(m)
  BY DEF HandleFeesAccrued
<1> HIDE DEF m
<1> QED
  BY <1>1, <1>2, <1>3, Refreshed

-----------------------------------------------------------------------------
(* One step of the index on top of a step of the vault. *)

\* What a step keeps when it moves USDC of LPs and nothing is filled or paid.
LEMMA FillsUntouched ==
    ASSUME IndexInv, IInv', entity'.oldest = entity.oldest,
           UNCHANGED <<exposure, principal, filled, filledAt>>
    PROVE  Advanced' /\ Aged'
  BY DEF IndexInv, Advanced, Aged, AgeNeverUnderstated, Now

LEMMA IndexedLpStep ==
    ASSUME IndexInv, IInv', NEW lp \in LPs, NEW n \in LpAmounts, IndexedLp(lp, n)
    PROVE  IndexInv'
<1>1. /\ n \in Nat /\ PreviewMint(n) \in Nat /\ PreviewRedeem(n) \in Nat
  BY ViewTypes, LpAssumption DEF IndexInv, IInv, PreviewRedeem
<1>2. entity \in Entities /\ UNCHANGED <<exposure, principal, filled, accrued, paused>>
  BY DEF IndexInv, Followed, IndexTypeOK, IndexedLp, Deposit, Mint, Withdraw,
         Redeem, TransferShares, PullAndMint, BurnAndPay, fillVars, ownerVars
<1>3. ASSUME NEW d \in Int, balance' = balance + d,
             Indexed(RefreshFeeTier([entity EXCEPT !.liquid = @ + d]))
      PROVE  IndexInv'
  <2>1. /\ entity' \in Entities
        /\ entity'.feeBps = FeeBpsAt(Policy, UtilisationOf(entity'))
        /\ entity'.liquid = entity.liquid + d /\ entity'.exposure = entity.exposure
        /\ entity'.accrued = entity.accrued /\ entity'.paused = entity.paused
        /\ entity'.pending = entity.pending /\ entity'.oldest = entity.oldest
    BY <1>2, <1>3, AfterMove DEF Indexed
  <2>2. UNCHANGED <<filledAt, donated, swept>>
    BY <1>3 DEF Indexed
  <2>3. Followed' /\ Priced'
    BY <1>2, <1>3, <2>1, <2>2
    DEF IndexInv, IInv, TypeOK, Followed, IndexTypeOK, RowFollowsVault, Priced,
        UtilisationOf
  <2>4. Advanced' /\ Aged'
    BY <1>2, <2>1, <2>2, FillsUntouched
  <2> QED
    BY <2>3, <2>4 DEF IndexInv
<1>4. CASE Deposit(lp, n) /\ Indexed(HandleDeposit(entity, n))
  BY <1>1, <1>3, <1>4 DEF HandleDeposit, Deposit, PullAndMint
<1>5. CASE Mint(lp, n) /\ Indexed(HandleDeposit(entity, PreviewMint(n)))
  BY <1>1, <1>3, <1>5 DEF HandleDeposit, Mint, PullAndMint
<1>6. CASE Withdraw(lp, n) /\ Indexed(HandleWithdraw(entity, n))
  <2>1. balance' = balance + (0 - n) /\ balance \in Nat
    BY <1>1, <1>6 DEF Withdraw, BurnAndPay, IndexInv, IInv, TypeOK
  <2>2. HandleWithdraw(entity, n)
          = RefreshFeeTier([entity EXCEPT !.liquid = @ + (0 - n)])
    BY <1>1, <1>2 DEF HandleWithdraw, Entities
  <2>3. Indexed(RefreshFeeTier([entity EXCEPT !.liquid = @ + (0 - n)]))
    BY <1>6, <2>2 DEF Indexed
  <2>4. 0 - n \in Int
    BY <1>1
  <2> QED
    BY ONLY <1>3, <2>1, <2>3, <2>4
<1>7. CASE Redeem(lp, n) /\ Indexed(HandleWithdraw(entity, PreviewRedeem(n)))
  <2> DEFINE m == PreviewRedeem(n)
  <2>1. balance' = balance + (0 - m) /\ balance \in Nat /\ m \in Nat
    BY <1>1, <1>7 DEF Redeem, BurnAndPay, IndexInv, IInv, TypeOK
  <2> HIDE DEF m
  <2>2. HandleWithdraw(entity, m)
          = RefreshFeeTier([entity EXCEPT !.liquid = @ + (0 - m)])
    BY <1>2, <2>1 DEF HandleWithdraw, Entities
  <2> QED
    BY <1>3, <1>7, <2>1, <2>2 DEF m
<1>8. CASE \E to \in LPs : TransferShares(lp, to, n) /\ NoEvent
  <2>1. UNCHANGED <<balance, indexVars>>
    BY <1>8 DEF TransferShares, NoEvent
  <2> QED
    BY <1>2, <2>1, FillsUntouched
    DEF IndexInv, Followed, IndexTypeOK, RowFollowsVault, Priced, UtilisationOf,
        indexVars
<1> QED
  BY <1>4, <1>5, <1>6, <1>7, <1>8 DEF IndexedLp

\* A ledger that sums to zero has no entry.
LEMMA NothingAdvanced ==
    ASSUME NEW p \in [Intents -> Nat], Total(p) = 0, NEW i \in Intents
    PROVE  p[i] = 0
<1>1. p[i] <= Total(p) /\ p[i] \in Nat
  BY EntryWithinTotal, SubgraphAssumption
<1> QED
  BY <1>1

\* The clock moves with the fills.
LEMMA Clock ==
    ASSUME TypeOK
    PROVE  /\ Cardinality(filled) \in Nat
           /\ \A i \in Intents \ filled :
                 Cardinality(filled \cup {i}) = Cardinality(filled) + 1
<1>1. IsFiniteSet(filled)
  BY FS_Subset, SubgraphAssumption DEF TypeOK
<1> QED
  BY <1>1, FS_CardinalityType, FS_AddElement

LEMMA IndexedFillStep ==
    ASSUME IndexInv, IInv', NEW i \in Intents, NEW fee \in 0 .. Amount[i],
           IndexedFill(i, fee)
    PROVE  IndexInv'
<1> DEFINE out == Amount[i] - fee
<1>1. out \in Nat \ {0}
  BY IntentAssumption DEF IndexedFill, FastFill, CanFill
<1>2. /\ i \notin filled /\ filled' = filled \cup {i}
      /\ principal' = [principal EXCEPT ![i] = out]
      /\ exposure' = exposure + out /\ balance' = balance - out
      /\ UNCHANGED <<accrued, paused, donated, swept>>
      /\ filledAt' = [filledAt EXCEPT ![i] = Now]
      /\ entity' = HandleFastFilled(entity, out, Now)
  BY DEF IndexedFill, FastFill, CanFill, ownerVars
<1> HIDE DEF out
<1>3. /\ TypeOK /\ entity \in Entities /\ filledAt \in [Intents -> Nat]
      /\ principal \in [Intents -> Nat] /\ exposure \in Nat
  BY DEF IndexInv, IInv, TypeOK, Followed, IndexTypeOK
<1>4. Now \in Nat \ {0} /\ Now' = Now + 1
  BY <1>2, <1>3, Clock DEF Now
<1>5. /\ entity' \in Entities
      /\ entity'.feeBps = FeeBpsAt(Policy, UtilisationOf(entity'))
      /\ entity'.liquid = entity.liquid - out
      /\ entity'.exposure = entity.exposure + out
      /\ entity'.accrued = entity.accrued /\ entity'.paused = entity.paused
      /\ entity'.pending = entity.pending + out
      /\ entity'.oldest = IF entity.oldest = 0 THEN Now ELSE entity.oldest
  <2>1. out \in Nat /\ Now \in Nat
    BY <1>1, <1>4
  <2> DEFINE r == HandleFastFilled(entity, out, Now)
  <2>2. /\ r \in Entities
        /\ r.feeBps = FeeBpsAt(Policy, UtilisationOf(r))
        /\ r.liquid = entity.liquid - out
        /\ r.exposure = entity.exposure + out
        /\ r.accrued = entity.accrued /\ r.paused = entity.paused
        /\ r.pending = entity.pending + out
        /\ r.oldest = IF entity.oldest = 0 THEN Now ELSE entity.oldest
    BY ONLY <1>3, <2>1, AfterFastFilled
  <2>3. entity' = r
    BY <1>2
  <2> HIDE DEF r
  <2> QED
    BY ONLY <2>2, <2>3
<1>6. Followed' /\ Priced'
  <2>1. /\ entity.liquid = balance - donated + swept
        /\ entity.accrued = accrued + swept /\ entity.exposure = exposure
        /\ entity.pending = exposure /\ entity.paused = paused
        /\ balance \in Nat /\ donated \in Nat /\ swept \in Nat
    BY DEF IndexInv, IInv, TypeOK, Followed, IndexTypeOK, RowFollowsVault
  <2>2. RowFollowsVault'
    BY <1>1, <1>2, <1>5, <2>1 DEF RowFollowsVault
  <2>3. IndexTypeOK'
    BY <1>2, <1>3, <1>4, <1>5, <2>1 DEF IndexTypeOK
  <2> QED
    BY <1>5, <2>2, <2>3 DEF Followed, Priced, UtilisationOf
<1>7. principal[i] = 0
  BY <1>2, <1>3 DEF IndexInv, Advanced
<1>8. Advanced'
  <2>1. Total(principal') = Total(principal) - principal[i] + out
    BY <1>1, <1>2, <1>3, TotalOfUpdate, SubgraphAssumption
  <2>2. \A j \in Intents : principal'[j] # 0 => j \in filled'
    BY <1>2, <1>3 DEF IndexInv, Advanced
  <2>3. exposure = Total(principal)
    BY DEF IndexInv, Advanced
  <2> QED
    BY <1>1, <1>2, <1>3, <1>7, <2>1, <2>2, <2>3 DEF Advanced
<1>9. Aged'
  <2>1. /\ exposure = 0 <=> entity.oldest = 0
        /\ \A j \in Intents : principal[j] # 0 => entity.oldest <= filledAt[j]
        /\ entity.oldest < Now /\ entity.oldest \in Nat
    BY <1>3 DEF IndexInv, Aged, AgeNeverUnderstated, Entities
  <2>2. exposure' # 0 /\ entity'.oldest # 0 /\ entity'.oldest < Now'
    BY <1>1, <1>2, <1>3, <1>4, <1>5, <2>1
  <2>3. ASSUME NEW j \in Intents, principal'[j] # 0
        PROVE  entity'.oldest <= filledAt'[j]
    <3>1. CASE j = i
      BY <1>2, <1>3, <1>4, <1>5, <2>1, <3>1
    <3>2. CASE j # i
      <4>1. principal[j] # 0 /\ filledAt'[j] = filledAt[j]
        BY <1>2, <1>3, <2>3, <3>2
      <4>2. entity.oldest # 0
        BY <1>3, <2>1, <4>1, NothingAdvanced DEF IndexInv, Advanced
      <4> QED
        BY <1>5, <2>1, <4>1, <4>2
    <3> QED
      BY <3>1, <3>2
  <2> QED
    BY <2>2, <2>3 DEF Aged, AgeNeverUnderstated
<1> QED
  BY <1>6, <1>8, <1>9 DEF IndexInv

LEMMA IndexedReimbursementStep ==
    ASSUME IndexInv, IInv', NEW i \in Intents, NEW amount \in Nat,
           IndexedReimbursement(i, amount)
    PROVE  IndexInv'
<1> DEFINE advanced   == principal[i]
           toProtocol == ProtocolShare(amount - advanced, shareBps)
           paid       == HandleReimbursement(entity, amount, advanced)
<1>1. /\ advanced # 0 /\ amount >= advanced /\ exposure >= advanced
      /\ principal' = [principal EXCEPT ![i] = 0]
      /\ exposure' = exposure - advanced /\ balance' = balance + amount
      /\ accrued' = accrued + toProtocol
      /\ UNCHANGED <<filled, filledAt, paused, donated, swept>>
      /\ entity' = HandleFeesAccrued(paid, toProtocol)
  BY DEF IndexedReimbursement, RecordReimbursement, Indexed, ownerVars
<1>2. /\ TypeOK /\ entity \in Entities /\ filledAt \in [Intents -> Nat]
      /\ principal \in [Intents -> Nat] /\ exposure \in Nat /\ advanced \in Nat
      /\ shareBps \in Bps
  BY DEF IndexInv, IInv, TypeOK, Followed, IndexTypeOK
<1>3. toProtocol \in Nat
  BY <1>1, <1>2, ShareWithinFee
<1> HIDE DEF toProtocol
<1>4. /\ entity.liquid = balance - donated + swept
      /\ entity.accrued = accrued + swept /\ entity.exposure = exposure
      /\ entity.pending = exposure /\ entity.paused = paused
      /\ balance \in Nat /\ accrued \in Nat /\ donated \in Nat /\ swept \in Nat
  BY DEF IndexInv, IInv, TypeOK, Followed, IndexTypeOK, RowFollowsVault
<1>5. /\ paid \in Entities
      /\ paid.liquid = entity.liquid + amount
      /\ paid.exposure = entity.exposure - advanced
      /\ paid.accrued = entity.accrued /\ paid.paused = entity.paused
      /\ paid.pending = entity.pending - advanced
      /\ paid.oldest = IF entity.pending = advanced THEN 0 ELSE entity.oldest
  BY <1>1, <1>2, <1>4, AfterReimbursement
<1> HIDE DEF paid
<1>6. /\ entity' \in Entities
      /\ entity'.feeBps = FeeBpsAt(Policy, UtilisationOf(entity'))
      /\ entity'.liquid = paid.liquid /\ entity'.exposure = paid.exposure
      /\ entity'.accrued = paid.accrued + toProtocol
      /\ entity'.paused = paid.paused
      /\ entity'.pending = paid.pending /\ entity'.oldest = paid.oldest
  BY <1>1, <1>3, <1>5, AfterFeesAccrued
<1>7. Followed' /\ Priced'
  <2>1. RowFollowsVault'
    BY <1>1, <1>2, <1>3, <1>4, <1>5, <1>6 DEF RowFollowsVault
  <2>2. IndexTypeOK'
    BY <1>1, <1>2, <1>4, <1>6 DEF IndexTypeOK
  <2> QED
    BY <1>6, <2>1, <2>2 DEF Followed, Priced, UtilisationOf
<1>8. Advanced'
  <2>1. Total(principal') = Total(principal) - principal[i]
    <3>1. Total([principal EXCEPT ![i] = 0]) = Total(principal) - principal[i] + 0
      BY ONLY 0 \in Nat, <1>2, TotalOfUpdate, SubgraphAssumption, i \in Intents
    <3>2. Total(principal) \in Nat /\ principal[i] \in Nat
      BY <1>2, TotalType, SubgraphAssumption
    <3> QED
      BY <1>1, <3>1, <3>2
  <2>2. \A j \in Intents : principal'[j] # 0 => j \in filled'
    BY <1>1, <1>2 DEF IndexInv, Advanced
  <2>3. exposure = Total(principal)
    BY DEF IndexInv, Advanced
  <2> QED
    BY <1>1, <1>2, <2>1, <2>2, <2>3 DEF Advanced
<1>9. Aged'
  <2>1. /\ exposure = 0 <=> entity.oldest = 0
        /\ \A j \in Intents : principal[j] # 0 => entity.oldest <= filledAt[j]
        /\ entity.oldest < Now /\ entity.oldest \in Nat
    BY <1>2 DEF IndexInv, Aged, AgeNeverUnderstated, Entities
  <2>2. Now' = Now /\ Now \in Nat \ {0}
    BY <1>1, <1>2, Clock DEF Now
  <2>3. exposure' = 0 <=> entity'.oldest = 0
    BY <1>1, <1>2, <1>4, <1>5, <1>6, <2>1
  <2>4. entity'.oldest < Now'
    BY <1>5, <1>6, <2>1, <2>2
  <2>5. ASSUME NEW j \in Intents, principal'[j] # 0
        PROVE  entity'.oldest <= filledAt'[j]
    <3>1. principal[j] # 0 /\ filledAt'[j] = filledAt[j] /\ filledAt[j] \in Nat
      BY <1>1, <1>2, <2>5
    <3> QED
      BY <1>5, <1>6, <2>1, <3>1
  <2> QED
    BY <2>3, <2>4, <2>5 DEF Aged, AgeNeverUnderstated
<1> QED
  BY <1>7, <1>8, <1>9 DEF IndexInv

LEMMA IndexStep ==
    ASSUME IndexInv, [IndexNext]_allVars
    PROVE  IndexInv'
<1>1. IInv'
  BY IndexStepIsVaultStep, VaultStep DEF IndexInv
<1>2. ASSUME NEW lp \in LPs, NEW n \in LpAmounts, IndexedLp(lp, n)
      PROVE  IndexInv'
  BY <1>1, <1>2, IndexedLpStep
<1>3. ASSUME NEW i \in Intents, NEW n \in 0 .. Amount[i], IndexedFill(i, n)
      PROVE  IndexInv'
  BY <1>1, <1>3, IndexedFillStep
<1>4. ASSUME NEW i \in Intents, NEW n \in 0 .. Amount[i],
             IndexedReimbursement(i, n)
      PROVE  IndexInv'
  <2>1. n \in Nat
    BY IntentAssumption
  <2> QED
    BY <1>1, <1>4, <2>1, IndexedReimbursementStep
<1>5. ASSUME NEW n \in LpAmounts, IndexedDonation(n)
      PROVE  IndexInv'
  <2>1. n \in Nat
    BY LpAssumption
  <2>2. /\ balance' = balance + n /\ donated' = donated + n
        /\ UNCHANGED <<exposure, principal, filled, accrued, paused, entity,
                       filledAt, swept>>
    BY <1>5 DEF IndexedDonation, Donate, fillVars, ownerVars
  <2>3. Followed' /\ Priced'
    BY <2>1, <2>2 DEF IndexInv, IInv, TypeOK, Followed, IndexTypeOK,
                      RowFollowsVault, Priced, UtilisationOf
  <2> QED
    BY <1>1, <2>2, <2>3, FillsUntouched DEF IndexInv
<1>6. CASE IndexedSweep
  <2>1. /\ balance' = balance - accrued /\ swept' = swept + accrued
        /\ accrued' = 0
        /\ UNCHANGED <<exposure, principal, filled, paused, entity, filledAt,
                       donated>>
    BY <1>6 DEF IndexedSweep, WithdrawFees, ownerVars
  <2>2. Followed' /\ Priced'
    BY <2>1 DEF IndexInv, IInv, TypeOK, Followed, IndexTypeOK,
                RowFollowsVault, Priced, UtilisationOf
  <2> QED
    BY <1>1, <2>1, <2>2, FillsUntouched DEF IndexInv
<1>7. CASE UnindexedSetting /\ NoEvent
  <2>1. UNCHANGED <<balance, exposure, principal, filled, accrued, paused, entity,
                    filledAt, donated, swept>>
    BY <1>7 DEF UnindexedSetting, NoEvent, indexVars, SetReserveFloorBps,
                SetFillLimits, SetProtocolFeeShareBps, fillVars
  <2>2. Followed' /\ Priced'
    BY <2>1 DEF IndexInv, Followed, IndexTypeOK, RowFollowsVault, Priced,
                UtilisationOf
  <2> QED
    BY <1>1, <2>1, <2>2, FillsUntouched DEF IndexInv
<1>8. ASSUME NEW flag \in BOOLEAN, SetPaused(flag),
             Indexed(HandlePausedSet(entity, flag))
      PROVE  IndexInv'
  <2>1. /\ paused' = flag /\ entity' = [entity EXCEPT !.paused = flag]
        /\ UNCHANGED <<balance, exposure, principal, filled, accrued, filledAt,
                       donated, swept>>
    BY <1>8 DEF SetPaused, Indexed, HandlePausedSet, fillVars
  <2>2. entity \in Entities
    BY DEF IndexInv, Followed, IndexTypeOK
  <2>3. /\ entity' \in Entities
        /\ entity'.feeBps = entity.feeBps /\ entity'.liquid = entity.liquid
        /\ entity'.exposure = entity.exposure
        /\ entity'.accrued = entity.accrued /\ entity'.paused = flag
        /\ entity'.pending = entity.pending /\ entity'.oldest = entity.oldest
    BY <2>1, <2>2 DEF Entities
  <2>4. Followed' /\ Priced'
    BY <2>1, <2>3 DEF IndexInv, Followed, IndexTypeOK, RowFollowsVault, Priced,
                      UtilisationOf
  <2> QED
    BY <1>1, <2>1, <2>3, <2>4, FillsUntouched DEF IndexInv
<1>9. CASE UNCHANGED allVars
  <2>1. UNCHANGED <<balance, exposure, principal, filled, accrued, paused, entity,
                    filledAt, donated, swept>>
    BY <1>9 DEF allVars, vars, indexVars, fillVars, ownerVars
  <2>2. Followed' /\ Priced'
    BY <2>1 DEF IndexInv, Followed, IndexTypeOK, RowFollowsVault, Priced,
                UtilisationOf
  <2> QED
    BY <1>1, <2>1, <2>2, FillsUntouched DEF IndexInv
<1> QED
  BY <1>2, <1>3, <1>4, <1>5, <1>6, <1>7, <1>8, <1>9 DEF IndexNext

LEMMA IndexInitInv == IndexInit => IndexInv
<1> SUFFICES ASSUME IndexInit PROVE IndexInv
  OBVIOUS
<1>1. IInv
  BY InitInv DEF IndexInit
<1> DEFINE e == [liquid |-> 0, exposure |-> 0, accrued |-> 0,
                 paused |-> FALSE, feeBps |-> 0, limits |-> CurrentLimits,
                 pending |-> 0, oldest |-> 0]
<1>2. e \in Entities
  <2>1. CurrentLimits \in LimitSettings
    BY <1>1 DEF IInv, TypeOK, CurrentLimits, LimitSettings
  <2> QED
    BY <2>1, BpsAssumption DEF Entities, Bps
<1>3. entity = RefreshFeeTier(e)
  BY DEF IndexInit, HandleVaultCreated
<1>4. /\ entity \in Entities
      /\ entity.feeBps = FeeBpsAt(Policy, UtilisationOf(entity))
      /\ entity.liquid = 0 /\ entity.exposure = 0 /\ entity.accrued = 0
      /\ entity.paused = FALSE /\ entity.pending = 0 /\ entity.oldest = 0
  BY <1>2, <1>3, Refreshed
<1>5. /\ balance = 0 /\ exposure = 0 /\ accrued = 0 /\ paused = FALSE
      /\ filled = {} /\ principal = [i \in Intents |-> 0]
      /\ filledAt = [i \in Intents |-> 0] /\ donated = 0 /\ swept = 0
  BY DEF IndexInit, Init
<1>6. Followed /\ Priced
  <2>1. IndexTypeOK
    BY <1>4, <1>5 DEF IndexTypeOK
  <2>2. RowFollowsVault
    <3>1. entity.paused = paused
      BY <1>4, <1>5, Zenon
    <3>2. /\ entity.liquid = balance - donated + swept
          /\ entity.accrued = accrued + swept
          /\ entity.exposure = exposure /\ entity.pending = exposure
      BY <1>4, <1>5
    <3> QED
      BY <3>1, <3>2 DEF RowFollowsVault
  <2> QED
    BY <1>4, <2>1, <2>2 DEF Followed, Priced
<1>7. Total(principal) = 0
  BY <1>5, TotalOfNothing
<1>8. Now = 1
  BY <1>5, FS_EmptySet DEF Now
<1>9. Advanced /\ Aged
  BY <1>4, <1>5, <1>7, <1>8 DEF Advanced, Aged, AgeNeverUnderstated
<1> QED
  BY <1>1, <1>6, <1>9 DEF IndexInv

LEMMA IndexInvariance == IndexSpec => []IndexInv
<1>1. IndexInv /\ [IndexNext]_allVars => IndexInv'
  BY IndexStep
<1> QED
  BY IndexInitInv, <1>1, PTL DEF IndexSpec

-----------------------------------------------------------------------------
(* What the index says. *)

\* The row and the aggregates have the types their schema gives them: no event
\* takes the exposure or the pending value below zero.
THEOREM IndexTypeCorrect == IndexSpec => []IndexTypeOK
<1>1. IndexInv => IndexTypeOK
  BY DEF IndexInv, Followed
<1> QED
  BY <1>1, IndexInvariance, PTL

\* Adding the events up gives the vault, but for what has no event.
THEOREM IndexIsFaithful == IndexSpec => []RowFollowsVault
<1>1. IndexInv => RowFollowsVault
  BY DEF IndexInv, Followed
<1> QED
  BY <1>1, IndexInvariance, PTL

\* Without a gift to the vault, the price its row shows is the one it posts.
THEOREM IndexShowsThePrice == IndexSpec => []IndexedPriceIsPosted
<1>1. ASSUME IndexInv PROVE IndexedPriceIsPosted
  <2> SUFFICES ASSUME donated = 0 PROVE entity.feeBps = PostedFeeBps
    BY DEF IndexedPriceIsPosted
  <2>1. /\ entity.liquid = balance - donated + swept
        /\ entity.accrued = accrued + swept /\ entity.exposure = exposure
        /\ balance \in Nat /\ accrued \in Nat /\ swept \in Nat
    BY <1>1 DEF IndexInv, IInv, TypeOK, Followed, IndexTypeOK, RowFollowsVault
  <2>2. LpLiquidBalance(entity.liquid, entity.accrued) = LpLiquid
    BY <2>1 DEF LpLiquidBalance, LpLiquid, Monus
  <2>3. UtilisationOf(entity) = Utilisation(exposure, LpLiquid + exposure)
    BY <2>1, <2>2 DEF UtilisationOf
  <2> QED
    BY <1>1, <2>3 DEF IndexInv, Priced, PostedFeeBps, TotalAssets
<1> QED
  BY <1>1, IndexInvariance, PTL

\* The oldest unsettled advance is never newer than the index says.
THEOREM AgeIsSafe == IndexSpec => []AgeNeverUnderstated
<1>1. IndexInv => AgeNeverUnderstated
  BY DEF IndexInv, Aged
<1> QED
  BY <1>1, IndexInvariance, PTL

-----------------------------------------------------------------------------
(* The solver's decision. *)

\* A lower price of the vault is a lower fee.
LEMMA FeeMonotone ==
    ASSUME NEW amount \in Nat, NEW low \in Bps, NEW high \in Bps, low <= high
    PROVE  FeeAmountFor(amount, low) <= FeeAmountFor(amount, high)
<1> DEFINE top == MulDivCeil(amount, high, BPS_DENOMINATOR)
<1>1. low \in Nat /\ high \in Nat /\ BPS_DENOMINATOR \in Nat \ {0}
  BY BpsAssumption DEF Bps
<1>2. top \in Nat
  BY <1>1, QuotientTypes
<1>3. amount * high <= top * BPS_DENOMINATOR
  BY <1>1, <1>2, CeilMeans
<1> HIDE DEF top
<1>4. amount * low <= amount * high
  BY <1>1, ProductMonotone
<1>5. amount * low <= top * BPS_DENOMINATOR
  BY <1>1, <1>2, <1>3, <1>4, ProductType
<1>6. MulDivCeil(amount, low, BPS_DENOMINATOR) <= top
  BY <1>1, <1>2, <1>5, CeilMeans
<1> QED
  BY <1>6 DEF FeeAmountFor, top

\* A solver whose index has caught up signs no fill its vault refuses.
THEOREM SignedFillsAreAccepted == IndexSpec => []AcceptedFillsPass
<1>1. ASSUME IndexInv, NEW i \in Intents, WouldFill(i)
      PROVE  CanFill(i, QuotedFee(TermsOf(i), ObservedVault))
  <2> DEFINE fee   == QuotedFee(TermsOf(i), ObservedVault)
             out   == Amount[i] - fee
             floor == ReserveFloor(TotalAssets, floorBps)
  <2>1. /\ entity.liquid = balance - donated + swept
        /\ entity.accrued = accrued + swept /\ entity.exposure = exposure
        /\ entity.paused = paused
        /\ balance \in Nat /\ accrued \in Nat /\ swept \in Nat
        /\ donated \in Nat /\ exposure \in Nat
        /\ floorBps \in Bps /\ fillBps \in Bps /\ exposureBps \in Bps
        /\ paused \in BOOLEAN
    BY <1>1 DEF IndexInv, IInv, TypeOK, Followed, IndexTypeOK, RowFollowsVault
  <2>2. /\ LpLiquid = balance - accrued /\ LpLiquid \in Nat
        /\ TotalAssets = LpLiquid + exposure /\ TotalAssets \in Nat
    BY <1>1, <2>1, AssetsOf DEF IndexInv, IInv
  <2>3. /\ Amount[i] \in Nat /\ MaxFeeBps[i] \in Bps
        /\ BPS_DENOMINATOR \in Nat \ {0}
    BY IntentAssumption, BpsAssumption
  <2>4. PostedFeeBps \in Bps
    <3>1. Utilisation(exposure, TotalAssets) \in Nat
      <4>1. CASE TotalAssets = 0
        BY <2>3, <4>1 DEF Utilisation
      <4>2. CASE TotalAssets # 0
        <5>1. MulDivFloor(exposure, BPS_DENOMINATOR, TotalAssets) \in Nat
          BY <2>1, <2>2, <2>3, <4>2, QuotientTypes
        <5> QED
          BY <4>2, <5>1 DEF Utilisation
      <4> QED
        BY <4>1, <4>2
    <3> QED
      BY <3>1, FeeTierType DEF PostedFeeBps
  <2>5. fee = FeeAmountFor(Amount[i], PostedFeeBps) /\ fee \in Nat
    <3>1. fee = FeeAmountFor(Amount[i], PostedFeeBps)
      BY DEF QuotedFee, TermsOf, ObservedVault
    <3>2. FeeAmountFor(Amount[i], PostedFeeBps) \in Nat
      <4>1. PostedFeeBps \in Nat
        BY <2>3, <2>4 DEF Bps
      <4>2. MulDivCeil(Amount[i], PostedFeeBps, BPS_DENOMINATOR) \in Nat
        BY <2>3, <4>1, QuotientTypes
      <4> QED
        BY <4>2 DEF FeeAmountFor
    <3> QED
      BY <3>1, <3>2
  <2>6. /\ ~ entity.paused /\ i \notin filled
        /\ Amount[i] <= SmallerAmount(MaxFillAmount(TotalAssets, fillBps),
                                      RiskPolicy.maxFill)
        /\ PostedFeeBps <= MaxFeeBps[i]
        /\ out > 0
        /\ out <= Monus(LpLiquidBalance(entity.liquid, entity.accrued), floor)
        /\ entity.exposure + out
              <= SmallerAmount(MaxOutstandingExposure(TotalAssets, exposureBps),
                               RiskPolicy.maxExposure)
    BY <1>1
    DEF WouldFill, Accepts, MustPause, EvidenceHolds, FitsSize, PriceAccepted,
        FitsCapital, ObservedVault, ObservedHealth, TermsOf, ContextOf,
        EffectiveMaxFillAmount, IsSettlementSlowing, ObservedAvailable
  <2> HIDE DEF fee
  <2>7. fee <= FeeAmountFor(Amount[i], MaxFeeBps[i])
    BY <2>3, <2>4, <2>5, <2>6, FeeMonotone
  <2>8. floor \in Nat
    <3>1. floorBps \in Nat
      BY <2>1, <2>3 DEF Bps
    <3>2. MulDivCeil(TotalAssets, floorBps, BPS_DENOMINATOR) \in Nat
      BY <2>2, <2>3, <3>1, QuotientTypes
    <3> QED
      BY <3>2 DEF ReserveFloor
  <2>9. out <= AvailableLiquidity(LpLiquid, exposure, floorBps)
    <3>1. Monus(LpLiquidBalance(entity.liquid, entity.accrued), floor)
             <= Monus(LpLiquid, floor)
      <4> HIDE DEF floor
      <4> QED
        BY <2>1, <2>2, <2>8 DEF LpLiquidBalance, Monus
    <3>2. AvailableLiquidity(LpLiquid, exposure, floorBps) = Monus(LpLiquid, floor)
      BY <2>2 DEF AvailableLiquidity
    <3>3. /\ Monus(LpLiquid, floor) \in Int
          /\ Monus(LpLiquidBalance(entity.liquid, entity.accrued), floor) \in Int
      <4> HIDE DEF floor
      <4> QED
        BY <2>1, <2>2, <2>8 DEF LpLiquidBalance, Monus
    <3> HIDE DEF floor
    <3> QED
      BY <2>3, <2>5, <2>6, <3>1, <3>2, <3>3
  <2>10. EnforceCaps(out)
    <3>1. /\ MaxFillAmount(TotalAssets, fillBps) \in Nat
          /\ MaxOutstandingExposure(TotalAssets, exposureBps) \in Nat
      <4>1. fillBps \in Nat /\ exposureBps \in Nat
        BY <2>1, <2>3 DEF Bps
      <4>2. /\ MulDivFloor(TotalAssets, fillBps, BPS_DENOMINATOR) \in Nat
            /\ MulDivFloor(TotalAssets, exposureBps, BPS_DENOMINATOR) \in Nat
        BY <2>2, <2>3, <4>1, QuotientTypes
      <4> QED
        BY <4>2 DEF MaxFillAmount, MaxOutstandingExposure
    <3> QED
      BY <2>1, <2>3, <2>5, <2>6, <3>1, SubgraphAssumption
      DEF EnforceCaps, SmallerAmount
  <2> QED
    BY <2>1, <2>5, <2>6, <2>7, <2>9, <2>10 DEF CanFill, fee
<1>2. IndexInv => AcceptedFillsPass
  BY <1>1 DEF AcceptedFillsPass
<1> QED
  BY <1>2, IndexInvariance, PTL

-----------------------------------------------------------------------------
(* The relay's figures. *)

\* One more unit of total assets raises a share of them by one unit at most.
LEMMA GainedShare ==
    ASSUME NEW x \in Nat, NEW y \in Nat, NEW a \in Nat, NEW b \in Bps, x <= y + a
    PROVE  MulDivFloor(x, b, BPS_DENOMINATOR)
               <= MulDivFloor(y, b, BPS_DENOMINATOR) + a
<1> DEFINE B == BPS_DENOMINATOR
           n == MulDivFloor(x, b, B)
           k == MulDivFloor(y, b, B)
<1>1. B \in Nat \ {0} /\ b \in Nat /\ b <= B
  BY BpsAssumption DEF Bps
<1>2. n \in Nat /\ k \in Nat
  BY <1>1, QuotientTypes
<1>3. CASE n <= a
  BY <1>2, <1>3
<1>4. CASE n > a
  <2>1. n * B <= x * b
    <3>1. n <= MulDivFloor(x, b, B)
      BY <1>2
    <3> HIDE DEF n, k, B
    <3> QED
      BY <1>1, <1>2, <3>1, FloorMeans
  <2>2. x * b <= (y + a) * b /\ b * a <= B * a
    <3> HIDE DEF n, k, B
    <3> QED
      BY <1>1, ProductMonotone
  <2>3. n - a \in Nat /\ (n - a) * B <= y * b
    <3> HIDE DEF n, k, B
    <3>1. (y + a) * b = y * b + b * a /\ (n - a) * B = n * B - B * a
      BY <1>1, <1>2
    <3>2. /\ x * b \in Nat /\ y * b \in Nat /\ b * a \in Nat /\ B * a \in Nat
          /\ n * B \in Nat
      BY <1>1, <1>2, ProductType
    <3> QED
      BY <1>2, <1>4, <2>1, <2>2, <3>1, <3>2
  <2>4. n - a <= k
    <3> HIDE DEF n, B
    <3> QED
      BY <1>1, <2>3, FloorMeans DEF k
  <2> QED
    BY <1>2, <2>4
<1> QED
  BY <1>2, <1>3, <1>4

\* And what is available above the floor by one at most.
LEMMA GainedAvailable ==
    ASSUME NEW m \in Nat, NEW l \in Nat, NEW x \in Nat, NEW a \in Nat,
           NEW f \in Bps, m <= l + a
    PROVE  Monus(m, ReserveFloor(m + x, f)) <= Monus(l, ReserveFloor(l + x, f)) + a
<1> DEFINE B == BPS_DENOMINATOR
           q == MulDivCeil(m + x, f, B)
           r == MulDivCeil(l + x, f, B)
<1>1. /\ B \in Nat \ {0} /\ f \in Nat /\ f <= B
      /\ m + x \in Nat /\ l + x \in Nat
  BY BpsAssumption DEF Bps
<1>2. q \in Nat /\ r \in Nat
  BY <1>1, QuotientTypes
<1>3. (m + x) * f <= q * B
  <2>1. MulDivCeil(m + x, f, B) <= q
    BY <1>2
  <2> HIDE DEF q, r, B
  <2> QED
    BY <1>1, <1>2, <2>1, CeilMeans
<1>4. \A n \in Nat : (l + x) * f <= n * B => r <= n
  <2> HIDE DEF q, B
  <2> QED
    BY <1>1, CeilMeans DEF r
<1>5. CASE l <= m
  <2>1. r <= q
    <3> HIDE DEF q, r, B
    <3>1. (l + x) * f <= (m + x) * f
      BY <1>1, <1>5, ProductMonotone
    <3>2. /\ (l + x) * f \in Nat /\ (m + x) * f \in Nat /\ q * B \in Nat
      BY <1>1, <1>2, ProductType
    <3> QED
      BY <1>2, <1>3, <1>4, <3>1, <3>2
  <2> HIDE DEF q, r, B
  <2>2. Monus(m, q) <= Monus(l, r) + a
    BY <1>2, <2>1 DEF Monus
  <2> QED
    BY <2>2 DEF q, r, B, ReserveFloor
<1>6. CASE m < l
  <2>1. r <= q + (l - m)
    <3> HIDE DEF q, r, B
    <3>1. l - m \in Nat
      BY <1>6
    <3>2. f * (l - m) <= B * (l - m)
      BY <1>1, <3>1, ProductMonotone
    <3>3. /\ (l + x) * f = (m + x) * f + f * (l - m)
          /\ (q + (l - m)) * B = q * B + B * (l - m)
      BY <1>1, <1>2
    <3>4. /\ (m + x) * f \in Nat /\ q * B \in Nat
          /\ f * (l - m) \in Nat /\ B * (l - m) \in Nat
      BY <1>1, <1>2, <3>1, ProductType
    <3>5. (l + x) * f <= (q + (l - m)) * B
      BY <1>3, <3>2, <3>3, <3>4
    <3>6. q + (l - m) \in Nat
      BY <1>2, <3>1
    <3> QED
      BY <1>4, <3>5, <3>6
  <2> HIDE DEF q, r, B
  <2>2. Monus(m, q) <= Monus(l, r) + a
    BY <1>2, <1>6, <2>1 DEF Monus
  <2> QED
    BY <2>2 DEF q, r, B, ReserveFloor
<1> QED
  BY <1>5, <1>6

\* A row that shows a debt shows nothing available.
LEMMA NothingBelowZero ==
    ASSUME NEW m \in Int, m < 0, NEW x \in Nat, NEW f \in Bps
    PROVE  Monus(m, ReserveFloor(m + x, f)) = 0
<1> DEFINE B == BPS_DENOMINATOR
           p == (m + x) * f
           q == (p + B - 1) \div B
<1>1. B \in Nat \ {0} /\ f \in Nat /\ f <= B /\ m + x \in Int
  BY BpsAssumption DEF Bps
<1>2. p \in Int /\ p >= m * B
  <2>1. CASE m + x >= 0
    <3>1. p \in Nat
      BY <1>1, <2>1, ProductType
    <3>2. m * B <= 0 * B
      BY <1>1, ProductMonotone
    <3> QED
      BY <1>1, <3>1, <3>2
  <2>2. CASE m + x < 0
    <3>1. 0 - (m + x) \in Nat
      BY <1>1, <2>2
    <3>2. f * (0 - (m + x)) <= B * (0 - (m + x))
      BY <1>1, <3>1, ProductMonotone
    <3>3. m * B <= (m + x) * B
      BY <1>1, ProductMonotone
    <3>4. /\ f * (0 - (m + x)) = 0 - p /\ B * (0 - (m + x)) = 0 - (m + x) * B
          /\ p \in Int /\ (m + x) * B \in Int /\ m * B \in Int
      BY <1>1
    <3> HIDE DEF p
    <3> QED
      BY <3>2, <3>3, <3>4
  <2> QED
    BY <1>1, <2>1, <2>2
<1>3. q \in Int /\ p + B - 1 < q * B + B
  <2> HIDE DEF p
  <2> QED
    BY <1>1, <1>2
<1>4. m <= q
  <2> HIDE DEF p, q
  <2>1. m * B < (q + 1) * B
    <3>1. m * B \in Int /\ q * B \in Int /\ (q + 1) * B = q * B + B
      BY <1>1, <1>3
    <3> QED
      BY <1>1, <1>2, <1>3, <3>1
  <2>2. m < q + 1
    BY <1>1, <1>3, <2>1, ProductReflectsStrictly
  <2> QED
    BY <1>3, <2>2
<1>5. ReserveFloor(m + x, f) = q
  BY DEF ReserveFloor, MulDivCeil
<1> HIDE DEF q
<1> QED
  BY <1>3, <1>4, <1>5 DEF Monus

\* A looser percentage allows no less of the same total.
LEMMA LooserShare ==
    ASSUME NEW t \in Nat, NEW f \in Bps, NEW g \in Bps, f <= g
    PROVE  /\ MulDivFloor(t, f, BPS_DENOMINATOR)
                <= MulDivFloor(t, g, BPS_DENOMINATOR)
           /\ ReserveFloor(t, f) <= ReserveFloor(t, g)
<1> DEFINE B == BPS_DENOMINATOR
           p == MulDivFloor(t, f, B)
           q == ReserveFloor(t, g)
<1>1. f \in Nat /\ g \in Nat /\ B \in Nat \ {0}
  BY BpsAssumption DEF Bps
<1>2. /\ p \in Nat /\ MulDivFloor(t, g, B) \in Nat
      /\ q \in Nat /\ ReserveFloor(t, f) \in Nat
  BY <1>1, QuotientTypes DEF ReserveFloor
<1>3. p * B <= t * f
  BY <1>1, <1>2, FloorMeans
<1>4. t * g <= q * B
  BY <1>1, <1>2, CeilMeans DEF ReserveFloor
<1>5. t * f <= t * g /\ t * f \in Nat /\ t * g \in Nat
  <2>1. f * t <= g * t
    BY <1>1, ProductMonotone
  <2> QED
    BY <1>1, <2>1, ProductType
<1>6. p * B \in Nat /\ q * B \in Nat
  BY <1>1, <1>2, ProductType
<1>7. p * B <= t * g /\ t * f <= q * B
  <2> HIDE DEF p, q, B
  <2> QED
    BY <1>3, <1>4, <1>5, <1>6
<1> QED
  BY <1>1, <1>2, <1>7, FloorMeans, CeilMeans DEF ReserveFloor

\* As long as no limit is tighter than it was when the vault was created, the
\* relay, which reads those of its creation, overstates a vault's capacity by no
\* more than the protocol's fees.
THEOREM RelayOverstatesFeesOnly == IndexSpec => []OverstatedByFeesOnly
<1>1. ASSUME IndexInv, NoneTightened PROVE FillCapacityOf <= Capacity + entity.accrued
  <2> DEFINE m == entity.liquid
             a == entity.accrued
             f == entity.limits.floor
             c == entity.limits.fill
             x == entity.limits.exposure
             mine == Monus(m, ReserveFloor(m + exposure, f))
             its  == Monus(LpLiquid, ReserveFloor(LpLiquid + exposure, f))
             mineFill == MaxFillAmount(m + exposure, c)
             itsFill  == MaxFillAmount(TotalAssets, c)
             mineCap == MaxOutstandingExposure(m + exposure, x)
             itsCap  == MaxOutstandingExposure(TotalAssets, x)
             nowIts  == Monus(LpLiquid, ReserveFloor(LpLiquid + exposure, floorBps))
             nowFill == MaxFillAmount(TotalAssets, fillBps)
             nowCap  == MaxOutstandingExposure(TotalAssets, exposureBps)
  <2>1. /\ entity.liquid = balance - donated + swept
        /\ entity.accrued = accrued + swept /\ entity.exposure = exposure
        /\ entity.paused = paused
        /\ balance \in Nat /\ accrued \in Nat /\ swept \in Nat
        /\ donated \in Nat /\ exposure \in Nat
        /\ floorBps \in Bps /\ fillBps \in Bps /\ exposureBps \in Bps
        /\ paused \in BOOLEAN
    BY <1>1 DEF IndexInv, IInv, TypeOK, Followed, IndexTypeOK, RowFollowsVault
  <2>2. /\ LpLiquid = balance - accrued /\ LpLiquid \in Nat
        /\ TotalAssets = LpLiquid + exposure /\ TotalAssets \in Nat
    BY <1>1, <2>1, AssetsOf DEF IndexInv, IInv
  <2>3. m \in Int /\ a \in Nat /\ m <= LpLiquid + a
    BY <2>1, <2>2
  <2>4. /\ f \in Bps /\ c \in Bps /\ x \in Bps
        /\ floorBps <= f /\ c <= fillBps /\ x <= exposureBps
    <3>1. entity.limits \in LimitSettings
      BY <1>1 DEF IndexInv, Followed, IndexTypeOK, Entities
    <3> QED
      BY <1>1, <2>1, <3>1 DEF NoneTightened, LimitSettings, Bps
  <2>5. /\ its \in Nat /\ itsFill \in Nat /\ itsCap \in Nat
        /\ nowIts \in Nat /\ nowFill \in Nat /\ nowCap \in Nat
        /\ its <= nowIts /\ itsFill <= nowFill /\ itsCap <= nowCap
    <3>1. /\ floorBps \in Nat /\ fillBps \in Nat /\ exposureBps \in Nat
          /\ f \in Nat /\ c \in Nat /\ x \in Nat
          /\ BPS_DENOMINATOR \in Nat \ {0} /\ LpLiquid + exposure \in Nat
      BY <2>1, <2>2, <2>4, BpsAssumption DEF Bps
    <3>2. /\ ReserveFloor(LpLiquid + exposure, f) \in Nat
          /\ ReserveFloor(LpLiquid + exposure, floorBps) \in Nat
          /\ itsFill \in Nat /\ nowFill \in Nat /\ itsCap \in Nat /\ nowCap \in Nat
      BY <2>2, <3>1, QuotientTypes
      DEF ReserveFloor, MaxFillAmount, MaxOutstandingExposure
    <3>3. /\ ReserveFloor(LpLiquid + exposure, floorBps)
                <= ReserveFloor(LpLiquid + exposure, f)
          /\ itsFill <= nowFill /\ itsCap <= nowCap
      BY <2>1, <2>2, <2>4, <3>1, LooserShare
      DEF MaxFillAmount, MaxOutstandingExposure
    <3> QED
      BY <2>2, <3>2, <3>3 DEF Monus
  <2>6. Capacity = IF paused THEN 0
                   ELSE SmallerAmount(nowIts, SmallerAmount(nowFill,
                                                  Monus(nowCap, exposure)))
    BY DEF Capacity, AvailableLiquidity
  <2>7. FillCapacityOf = IF paused THEN 0
                         ELSE SmallerAmount(mine, SmallerAmount(mineFill,
                                                      Monus(mineCap, exposure)))
    BY <2>1 DEF FillCapacityOf, AvailableOf, RowTotal, Headroom
  <2>8. CASE m < 0
    <3>1. mine = 0
      BY <2>1, <2>3, <2>4, <2>8, NothingBelowZero
    <3>2. mineFill \in Int /\ mineCap \in Int
      <4>1. m + exposure \in Int /\ c \in Int /\ x \in Int
            /\ BPS_DENOMINATOR \in Nat \ {0}
        BY <2>1, <2>3, <2>4, BpsAssumption DEF Bps
      <4>2. ((m + exposure) * c) \div BPS_DENOMINATOR \in Int
        BY <4>1
      <4>3. ((m + exposure) * x) \div BPS_DENOMINATOR \in Int
        BY <4>1
      <4> QED
        BY <4>2, <4>3 DEF MaxFillAmount, MaxOutstandingExposure, MulDivFloor
    <3> HIDE DEF mine, its, mineFill, itsFill, mineCap, itsCap, m, a, f, c, x,
                 nowIts, nowFill, nowCap
    <3>3. FillCapacityOf <= 0
      BY <2>1, <2>7, <3>1, <3>2 DEF SmallerAmount, Monus
    <3>4. Capacity >= 0 /\ Capacity \in Int
      BY <2>1, <2>5, <2>6 DEF SmallerAmount, Monus
    <3>5. FillCapacityOf \in Int
      BY <2>1, <2>7, <3>1, <3>2 DEF SmallerAmount, Monus
    <3> QED
      BY <2>3, <3>3, <3>4, <3>5 DEF a
  <2>9. CASE m >= 0
    <3>1. m \in Nat /\ m + exposure \in Nat /\ m + exposure <= TotalAssets + a
      BY <2>1, <2>2, <2>3, <2>9
    <3>2. mine <= its + a
      BY <2>1, <2>2, <2>3, <2>4, <3>1, GainedAvailable
    <3>3. mineFill <= itsFill + a /\ mineCap <= itsCap + a
      BY <2>1, <2>2, <2>3, <2>4, <3>1, GainedShare
      DEF MaxFillAmount, MaxOutstandingExposure
    <3>4. mine \in Int /\ mineFill \in Nat /\ mineCap \in Nat
      <4>1. /\ f \in Nat /\ c \in Nat /\ x \in Nat
            /\ BPS_DENOMINATOR \in Nat \ {0}
        BY <2>4, BpsAssumption DEF Bps
      <4>2. /\ MulDivCeil(m + exposure, f, BPS_DENOMINATOR) \in Nat
            /\ MulDivFloor(m + exposure, c, BPS_DENOMINATOR) \in Nat
            /\ MulDivFloor(m + exposure, x, BPS_DENOMINATOR) \in Nat
        BY <3>1, <4>1, QuotientTypes
      <4> QED
        BY <3>1, <4>2 DEF Monus, ReserveFloor, MaxFillAmount,
                          MaxOutstandingExposure
    <3> HIDE DEF mine, its, mineFill, itsFill, mineCap, itsCap, m, a, f, c, x,
                 nowIts, nowFill, nowCap
    <3>5. Monus(mineCap, exposure) <= Monus(nowCap, exposure) + a
      BY <2>1, <2>3, <2>5, <3>3, <3>4 DEF Monus
    <3>6. mine <= nowIts + a /\ mineFill <= nowFill + a
      BY <2>3, <2>5, <3>2, <3>3, <3>4
    <3> QED
      BY <2>1, <2>3, <2>5, <2>6, <2>7, <3>4, <3>5, <3>6
      DEF SmallerAmount, Monus, a
  <2> QED
    BY <2>3, <2>8, <2>9
<1>2. IndexInv => OverstatedByFeesOnly
  BY <1>1 DEF OverstatedByFeesOnly
<1> QED
  BY <1>2, IndexInvariance, PTL
=============================================================================
