------------------------ MODULE FastSettlement_proofs -----------------------
(***************************************************************************)
(* The invariants of FastSettlement for every number of vaults and         *)
(* intents, every amount, limit, fee schedule and CCTP fee the assumptions *)
(* of that module allow.                                                   *)
(***************************************************************************)
EXTENDS FastSettlement, Arithmetic_proofs

-----------------------------------------------------------------------------
(* The inductive invariant. *)

\* The vault's intentFilled and the market's filledBy tell one story.
WinnerFilled ==
    \A v \in Vaults, i \in Intents : i \in filled[v] <=> filledBy[i] = v

\* How far the receiver has got with an intent, against the market's winner
\* and the intent's message.
Routed(i) ==
    /\ outcome[i] = "RECIPIENT_FALLBACK" => filledBy[i] = NoVault
    /\ outcome[i] \in {"LP_REIMBURSED", "HELD_FOR_VAULT"}
          => filledBy[i] # NoVault
    /\ outcome[i] = "HELD_FOR_VAULT" => heldFor[i] = filledBy[i]
    /\ outcome[i] # "NONE" => transfer[i] = "received"
    /\ i \in Hooked /\ transfer[i] = "received" => outcome[i] # "NONE"
    /\ filledBy[i] # NoVault => transfer[i] # "none"
    /\ feeExecuted[i] <= MaxCctpFee[i]
    /\ outcome[i] = "NONE" /\ filledBy[i] = NoVault => paid[i] = 0

AllRouted == \A i \in Intents : Routed(i)

IInv ==
    /\ TypeOK
    /\ WinnerFilled
    /\ OnlyTheWinnerIsOwed
    /\ AllRouted
    /\ ExposureIsSumOfPrincipals
    /\ ReceiverHoldsWhatItOwes
    /\ WithinLimits

\* The conjuncts that concern the vaults' books alone.
BooksType ==
    /\ filled \in [Vaults -> SUBSET Intents]
    /\ principal \in [Vaults -> [Intents -> Nat]]
    /\ exposure \in [Vaults -> Nat]
    /\ accrued \in [Vaults -> Nat]
    /\ balance \in [Vaults -> Nat]

BooksInv == BooksType /\ ExposureIsSumOfPrincipals /\ WithinLimits

-----------------------------------------------------------------------------
(* Constants. *)

LEMMA VaultConfigType ==
    ASSUME NEW v \in Vaults
    PROVE  /\ Config[v].floorBps \in Bps
           /\ Config[v].exposureBps \in Bps
           /\ Config[v].shareBps \in Bps
  BY ConfigAssumption DEF VaultConfigs

LEMMA MintedType ==
    ASSUME NEW i \in Intents, feeExecuted \in [Intents -> Nat],
           feeExecuted[i] <= MaxCctpFee[i]
    PROVE  /\ Minted(i) \in Nat \ {0}
           /\ Minted(i) <= Amount[i]
           /\ i \notin Hooked => Minted(i) = Amount[i]
  BY IntentAssumption, CctpFeeAssumption DEF Minted

-----------------------------------------------------------------------------
(* The books of the vaults. *)

\* Limits of Arithmetic_proofs, in terms of a vault's state.
LEMMA LimitsOfVault ==
    ASSUME NEW v \in Vaults, BooksType, accrued[v] <= balance[v]
    PROVE  /\ LpLiquid(v) = balance[v] - accrued[v]
           /\ LpLiquid(v) \in Nat
           /\ VaultWithinLimits(v) <=>
                 Limits(LpLiquid(v), exposure[v], Config[v].floorBps,
                        Config[v].exposureBps)
  BY DEF BooksType, LpLiquid, LpLiquidBalance, Monus, VaultWithinLimits,
         TotalAssets, Limits

\* A step after which a vault has no less and is owed no more keeps the
\* vault within its limits.
LEMMA GainKeepsLimits ==
    ASSUME NEW v \in Vaults, BooksType, BooksType', VaultWithinLimits(v),
           accrued'[v] <= balance'[v],
           exposure'[v] <= exposure[v],
           balance[v] - accrued[v] + exposure[v]
              <= balance'[v] - accrued'[v] + exposure'[v]
    PROVE  VaultWithinLimits(v)'
<1> DEFINE l  == balance[v] - accrued[v]
           l2 == balance'[v] - accrued'[v]
           f  == Config[v].floorBps
           e  == Config[v].exposureBps
<1>1. accrued[v] <= balance[v]
  BY DEF VaultWithinLimits
<1>2. l \in Nat /\ l2 \in Nat /\ exposure[v] \in Nat /\ exposure'[v] \in Nat
  BY <1>1 DEF BooksType
<1>3. f \in Bps /\ e \in Bps
  BY VaultConfigType
<1>4. Limits(l, exposure[v], f, e)
  BY <1>1, LimitsOfVault
<1>5. l + exposure[v] <= l2 + exposure'[v]
  OBVIOUS
<1> HIDE DEF l, l2, f, e
<1>6. Limits(l2, exposure'[v], f, e)
  BY <1>2, <1>3, <1>4, <1>5, LimitsSurviveGain
<1>7. LpLiquid(v)' = l2
  BY DEF BooksType, LpLiquid, LpLiquidBalance, Monus, l2
<1> QED
  BY <1>6, <1>7
  DEF VaultWithinLimits, TotalAssets, Limits, f, e

\* Writing one principal moves one vault's total by the difference.
LEMMA PrincipalUpdate ==
    ASSUME BooksType, NEW v \in Vaults, NEW i \in Intents, NEW n \in Nat,
           principal' = [principal EXCEPT ![v][i] = n]
    PROVE  /\ principal' \in [Vaults -> [Intents -> Nat]]
           /\ \A w \in Vaults \ {v} : principal'[w] = principal[w]
           /\ principal'[v] = [principal[v] EXCEPT ![i] = n]
           /\ Total(principal'[v]) =
                 Total(principal[v]) - principal[v][i] + n
<1>1. principal'[v] = [principal[v] EXCEPT ![i] = n]
  BY DEF BooksType
<1>2. principal[v] \in [Intents -> Nat] /\ IsFiniteSet(Intents)
  BY FiniteAssumption DEF BooksType
<1>3. Total([principal[v] EXCEPT ![i] = n]) =
         Total(principal[v]) - principal[v][i] + n
  BY <1>2, TotalOfUpdate
<1> QED
  BY <1>1, <1>3 DEF BooksType

LEMMA FillKeepsBooks ==
    ASSUME BooksInv, NEW v \in Vaults, NEW i \in Intents, NEW out \in Nat,
           principal[v][i] = 0,
           EnforceCaps(v, out), RecordFastFill(v, i, out), accrued' = accrued
    PROVE  BooksInv'
<1> USE DEF BooksInv
<1> DEFINE l == LpLiquid(v)
           x == exposure[v]
<1>1. accrued[v] <= balance[v]
  BY DEF WithinLimits, VaultWithinLimits
<1>2. l = balance[v] - accrued[v] /\ l \in Nat /\ x \in Nat
  BY <1>1, LimitsOfVault DEF BooksType
<1>3. /\ out \in Nat \ {0}
      /\ x + out <= MaxOutstandingExposure(l + x, Config[v].exposureBps)
      /\ out <= AvailableLiquidity(l, x, Config[v].floorBps)
  BY DEF EnforceCaps, RecordFastFill, TotalAssets
<1>4. /\ out <= l
      /\ Limits(l - out, x + out, Config[v].floorBps, Config[v].exposureBps)
  <2> HIDE DEF l, x
  <2> QED
    BY <1>2, <1>3, VaultConfigType, LimitsSurviveFill
<1>5. principal' = [principal EXCEPT ![v][i] = out]
  BY DEF RecordFastFill
<1>6. /\ balance' = [balance EXCEPT ![v] = balance[v] - out]
      /\ exposure' = [exposure EXCEPT ![v] = x + out]
      /\ filled' = [filled EXCEPT ![v] = filled[v] \cup {i}]
  BY DEF RecordFastFill
<1>7. BooksType'
  <2>1. balance[v] - out \in Nat
    BY <1>1, <1>2, <1>4 DEF BooksType
  <2>2. principal' \in [Vaults -> [Intents -> Nat]]
    BY <1>5, PrincipalUpdate
  <2>3. balance' \in [Vaults -> Nat]
    BY <1>6, <2>1 DEF BooksType
  <2>4. exposure' \in [Vaults -> Nat]
    BY <1>2, <1>6 DEF BooksType
  <2>5. filled' \in [Vaults -> SUBSET Intents]
    BY <1>6 DEF BooksType
  <2> QED
    BY <2>2, <2>3, <2>4, <2>5 DEF BooksType
<1>8. ExposureIsSumOfPrincipals'
  <2>1. exposure'[v] = Total(principal'[v])
    <3>1. Total(principal'[v]) = Total(principal[v]) - principal[v][i] + out
      BY <1>5, PrincipalUpdate
    <3>2. Total(principal[v]) = x
      BY DEF ExposureIsSumOfPrincipals
    <3> QED
      BY <1>2, <1>6, <3>1, <3>2 DEF BooksType
  <2>2. \A w \in Vaults \ {v} : exposure'[w] = Total(principal'[w])
    BY <1>5, <1>6, PrincipalUpdate DEF ExposureIsSumOfPrincipals, BooksType
  <2> QED
    BY <2>1, <2>2 DEF ExposureIsSumOfPrincipals
<1>9. WithinLimits'
  <2>1. VaultWithinLimits(v)'
    <3>1. balance'[v] = balance[v] - out /\ exposure'[v] = x + out
      BY <1>6 DEF BooksType
    <3>2. accrued'[v] <= balance'[v]
      BY <1>1, <1>2, <1>4, <3>1 DEF BooksType
    <3>3. LpLiquid(v)' = l - out
      BY <1>1, <1>2, <1>7, <3>1, <3>2
      DEF BooksType, LpLiquid, LpLiquidBalance, Monus
    <3> QED
      BY <1>4, <3>1, <3>2, <3>3 DEF VaultWithinLimits, TotalAssets, Limits
  <2>2. ASSUME NEW w \in Vaults \ {v} PROVE VaultWithinLimits(w)'
    BY <1>6
    DEF WithinLimits, VaultWithinLimits, TotalAssets, LpLiquid, BooksType
  <2> QED
    BY <2>1, <2>2 DEF WithinLimits
<1> QED
  BY <1>7, <1>8, <1>9

LEMMA ReimbursementKeepsBooks ==
    ASSUME BooksInv, NEW v \in Vaults, NEW i \in Intents,
           NEW amount \in Nat,
           AcceptsReimbursement(v, i, amount),
           RecordReimbursement(v, i, amount)
    PROVE  BooksInv'
<1> USE DEF BooksInv
<1> DEFINE p     == principal[v][i]
           share == ProtocolShare(amount - p, Config[v].shareBps)
<1>1. p \in Nat /\ p <= amount /\ p <= exposure[v]
  BY DEF AcceptsReimbursement, BooksType
<1>2. share \in 0 .. amount - p
  <2>1. amount - p \in Nat
    BY <1>1
  <2> QED
    BY <2>1, VaultConfigType, ShareWithinFee
<1>3. /\ principal' = [principal EXCEPT ![v][i] = 0]
      /\ exposure' = [exposure EXCEPT ![v] = exposure[v] - p]
      /\ accrued' = [accrued EXCEPT ![v] = accrued[v] + share]
      /\ balance' = [balance EXCEPT ![v] = balance[v] + amount]
      /\ filled' = filled
  BY DEF RecordReimbursement
<1>4. /\ \A w \in Vaults \ {v} : principal'[w] = principal[w]
      /\ principal' \in [Vaults -> [Intents -> Nat]]
      /\ Total(principal'[v]) = Total(principal[v]) - p + 0
  BY <1>3, PrincipalUpdate
<1> HIDE DEF share, p
<1>5. BooksType'
  <2>1. exposure[v] - p \in Nat
    BY <1>1 DEF BooksType
  <2>2. accrued[v] + share \in Nat
    BY <1>1, <1>2 DEF BooksType
  <2>3. balance[v] + amount \in Nat
    BY DEF BooksType
  <2>4. exposure' \in [Vaults -> Nat]
    BY <1>3, <2>1 DEF BooksType
  <2>5. accrued' \in [Vaults -> Nat]
    BY <1>3, <2>2 DEF BooksType
  <2>6. balance' \in [Vaults -> Nat]
    BY <1>3, <2>3 DEF BooksType
  <2> QED
    BY <1>3, <1>4, <2>4, <2>5, <2>6 DEF BooksType
<1>6. ExposureIsSumOfPrincipals'
  <2>1. Total(principal[v]) = exposure[v] /\ exposure[v] \in Nat
    BY DEF ExposureIsSumOfPrincipals, BooksType
  <2>2. exposure'[v] = exposure[v] - p
    BY <1>3 DEF BooksType
  <2>3. exposure'[v] = Total(principal'[v])
    BY <1>1, <1>4, <2>1, <2>2
  <2>4. \A w \in Vaults \ {v} : exposure'[w] = Total(principal'[w])
    BY <1>3, <1>4 DEF ExposureIsSumOfPrincipals, BooksType
  <2> QED
    BY <2>3, <2>4 DEF ExposureIsSumOfPrincipals
<1>7. ASSUME NEW w \in Vaults PROVE VaultWithinLimits(w)'
  <2>1. CASE w = v
    <3>1. /\ accrued[v] \in Nat /\ balance[v] \in Nat /\ exposure[v] \in Nat
          /\ accrued[v] <= balance[v]
      BY DEF WithinLimits, VaultWithinLimits, BooksType
    <3>2. /\ accrued'[v] = accrued[v] + share
          /\ balance'[v] = balance[v] + amount
          /\ exposure'[v] = exposure[v] - p
      BY <1>3 DEF BooksType
    <3>3. /\ accrued'[v] <= balance'[v]
          /\ exposure'[v] <= exposure[v]
          /\ balance[v] - accrued[v] + exposure[v]
                <= balance'[v] - accrued'[v] + exposure'[v]
      BY <1>1, <1>2, <3>1, <3>2
    <3> QED
      BY <1>5, <2>1, <3>3, GainKeepsLimits DEF WithinLimits
  <2>2. CASE w # v
    BY <1>3, <2>2
    DEF WithinLimits, VaultWithinLimits, TotalAssets, LpLiquid, BooksType
  <2> QED
    BY <2>1, <2>2
<1> QED
  BY <1>5, <1>6, <1>7 DEF WithinLimits

\* Deposits and fee sweeps: the LPs' share of one vault's balance does not
\* shrink and its receivables stay.
LEMMA GainKeepsBooks ==
    ASSUME BooksInv, NEW v \in Vaults, NEW b \in Nat, NEW a \in Nat,
           UNCHANGED <<filled, principal, exposure>>,
           balance' = [balance EXCEPT ![v] = b],
           accrued' = [accrued EXCEPT ![v] = a],
           a <= b,
           balance[v] - accrued[v] <= b - a
    PROVE  BooksInv'
<1> USE DEF BooksInv
<1>1. BooksType'
  BY DEF BooksType
<1>2. ExposureIsSumOfPrincipals'
  BY DEF ExposureIsSumOfPrincipals
<1>3. ASSUME NEW w \in Vaults PROVE VaultWithinLimits(w)'
  <2>1. CASE w = v
    <3>1. /\ accrued[v] \in Nat /\ balance[v] \in Nat /\ exposure[v] \in Nat
          /\ VaultWithinLimits(v)
      BY DEF WithinLimits, BooksType
    <3>2. accrued'[v] = a /\ balance'[v] = b /\ exposure'[v] = exposure[v]
      BY DEF BooksType
    <3> QED
      BY <1>1, <2>1, <3>1, <3>2, GainKeepsLimits
  <2>2. CASE w # v
    BY <2>2
    DEF WithinLimits, VaultWithinLimits, TotalAssets, LpLiquid, BooksType
  <2> QED
    BY <2>1, <2>2
<1> QED
  BY <1>1, <1>2, <1>3 DEF WithinLimits

LEMMA WithdrawalKeepsBooks ==
    ASSUME BooksInv, NEW v \in Vaults, NEW a \in Nat \ {0}, Withdraw(v, a)
    PROVE  BooksInv'
<1> USE DEF BooksInv
<1> DEFINE l == LpLiquid(v)
           x == exposure[v]
<1>1. accrued[v] <= balance[v]
  BY DEF WithinLimits, VaultWithinLimits
<1>2. l = balance[v] - accrued[v] /\ l \in Nat /\ x \in Nat
  BY <1>1, LimitsOfVault DEF BooksType
<1>3. /\ a <= l
      /\ a <= WithdrawableLiquidity(l, x, Config[v].floorBps,
                                    Config[v].exposureBps)
      /\ balance' = [balance EXCEPT ![v] = balance[v] - a]
      /\ UNCHANGED <<filled, principal, exposure, accrued>>
  BY DEF Withdraw
<1>4. balance[v] - a \in Nat
  BY <1>1, <1>2, <1>3 DEF BooksType
<1>5. BooksType'
  BY <1>3, <1>4 DEF BooksType
<1>6. ExposureIsSumOfPrincipals'
  BY <1>3 DEF ExposureIsSumOfPrincipals
<1>7. VaultWithinLimits(v)'
  <2>1. Limits(l - a, x, Config[v].floorBps, Config[v].exposureBps)
    <3> HIDE DEF l, x
    <3> QED
      BY <1>2, <1>3, VaultConfigType, LimitsSurviveWithdrawal
  <2>2. /\ balance'[v] = balance[v] - a
        /\ accrued'[v] = accrued[v]
        /\ exposure'[v] = x
    BY <1>3 DEF BooksType
  <2>3. accrued'[v] <= balance'[v]
    BY <1>1, <1>2, <1>3, <2>2 DEF BooksType
  <2>4. LpLiquid(v)' = l - a
    BY <1>1, <1>2, <1>5, <2>2, <2>3
    DEF BooksType, LpLiquid, LpLiquidBalance, Monus
  <2> QED
    BY <2>1, <2>2, <2>3, <2>4 DEF VaultWithinLimits, TotalAssets, Limits
<1>8. ASSUME NEW w \in Vaults \ {v} PROVE VaultWithinLimits(w)'
  BY <1>3
  DEF WithinLimits, VaultWithinLimits, TotalAssets, LpLiquid, BooksType
<1> QED
  BY <1>5, <1>6, <1>7, <1>8 DEF WithinLimits

LEMMA IdleKeepsBooks ==
    ASSUME BooksInv, UNCHANGED bookVars
    PROVE  BooksInv'
  BY DEF BooksInv, BooksType, bookVars, ExposureIsSumOfPrincipals,
         WithinLimits, VaultWithinLimits, TotalAssets, LpLiquid
-----------------------------------------------------------------------------
(* The market, the receiver and the messages. *)

ProtocolType ==
    /\ transfer \in [Intents -> Transfers]
    /\ feeExecuted \in [Intents -> Nat]
    /\ expired \subseteq Intents
    /\ filledBy \in [Intents -> Vaults \cup {NoVault}]
    /\ outcome \in [Intents -> Outcomes]
    /\ settledAmount \in [Intents -> Nat]
    /\ heldFor \in [Intents -> Vaults \cup {NoVault}]
    /\ paused \subseteq Vaults
    /\ wired \subseteq Vaults
    /\ paid \in [Intents -> Nat]

ProtocolInv ==
    ProtocolType /\ WinnerFilled /\ OnlyTheWinnerIsOwed /\ AllRouted

FundsInv == receiverBalance \in Nat /\ ReceiverHoldsWhatItOwes

LEMMA InvariantParts == IInv <=> BooksInv /\ ProtocolInv /\ FundsInv
  BY DEF IInv, TypeOK, BooksInv, BooksType, ProtocolInv, ProtocolType, FundsInv

LEMMA PartsPreserved ==
    ASSUME BooksInv', ProtocolInv', FundsInv'
    PROVE  IInv'
  BY DEF IInv, TypeOK, BooksInv, BooksType, ProtocolInv, ProtocolType, FundsInv

\* A mint that may still be routed: the amount is positive, covered by what
\* the receiver holds once it has arrived, and whole for a hookless burn.
LEMMA MintedWhenRouted ==
    ASSUME ProtocolInv, NEW i \in Intents
    PROVE  /\ Minted(i) \in Nat \ {0}
           /\ Minted(i) <= Amount[i]
           /\ i \notin Hooked => Minted(i) = Amount[i]
  BY MintedType DEF ProtocolInv, ProtocolType, AllRouted, Routed

\* Steps of the source chain, of Circle and of the clock.
LEMMA SourceKeepsProtocol ==
    ASSUME ProtocolInv, NEW i \in Intents,
           CreateIntent(i) \/ Attest(i) \/ DeadlinePasses(i)
    PROVE  ProtocolInv'
<1> USE DEF ProtocolInv
<1>1. UNCHANGED <<marketVars, receiverVars, bookVars, ownerVars, paid>>
  BY DEF CreateIntent, Attest, DeadlinePasses
<1>2. WinnerFilled' /\ OnlyTheWinnerIsOwed'
  BY <1>1
  DEF WinnerFilled, OnlyTheWinnerIsOwed, marketVars, receiverVars, bookVars
<1>3. ProtocolType'
  BY <1>1, CctpFeeAssumption
  DEF CreateIntent, Attest, DeadlinePasses, ProtocolType, Transfers,
      marketVars, receiverVars, ownerVars
<1>4. ASSUME NEW j \in Intents PROVE Routed(j)'
  <2>1. Routed(j)
    BY DEF AllRouted
  <2>2. /\ feeExecuted'[j] <= MaxCctpFee[j]
        /\ transfer'[j] # transfer[j] =>
              transfer[j] \in {"none", "burned"} /\
              transfer'[j] \in {"burned", "attested"}
    BY <2>1, CctpFeeAssumption
    DEF CreateIntent, Attest, DeadlinePasses, ProtocolType, Routed
  <2> QED
    BY <1>1, <2>1, <2>2 DEF Routed, marketVars, receiverVars
<1> QED
  BY <1>2, <1>3, <1>4 DEF AllRouted

\* The market lets one vault in, and only before anything has settled.
LEMMA FillKeepsProtocol ==
    ASSUME ProtocolInv, BooksInv, NEW v \in Vaults, NEW i \in Intents,
           NEW fee \in 0 .. Amount[i], FastFill(v, i, fee)
    PROVE  principal[v][i] = 0 /\ ProtocolInv'
<1> USE DEF ProtocolInv
<1> DEFINE out == Amount[i] - fee
<1>1. out \in Nat \ {0}
  BY IntentAssumption DEF FastFill, RecordFastFill
<1>2. /\ transfer[i] # "none"
      /\ filledBy[i] = NoVault
      /\ outcome[i] = "NONE"
      /\ filledBy' = [filledBy EXCEPT ![i] = v]
      /\ filled' = [filled EXCEPT ![v] = filled[v] \cup {i}]
      /\ principal' = [principal EXCEPT ![v][i] = out]
      /\ paid' = [paid EXCEPT ![i] = paid[i] + out]
      /\ UNCHANGED <<sourceVars, receiverVars, ownerVars>>
  BY DEF FastFill, ClaimIntent, RecordFastFill
<1> HIDE DEF out
<1>3. \A w \in Vaults : principal[w][i] = 0
  BY <1>2, NoVaultAssumption DEF OnlyTheWinnerIsOwed, BooksInv, BooksType
<1>4. ProtocolType'
  BY <1>1, <1>2 DEF ProtocolType, sourceVars, receiverVars, ownerVars
<1>5. WinnerFilled'
  BY <1>2, NoVaultAssumption
  DEF WinnerFilled, ProtocolType, BooksInv, BooksType
<1>6. ASSUME NEW w \in Vaults, NEW j \in Intents
      PROVE  principal'[w][j] > 0
                <=> filledBy'[j] = w /\ outcome'[j] # "LP_REIMBURSED"
  <2>1. outcome' = outcome
    BY <1>2 DEF receiverVars
  <2>2. CASE j # i
    BY <1>2, <2>1, <2>2
    DEF OnlyTheWinnerIsOwed, ProtocolType, BooksInv, BooksType
  <2>3. CASE j = i /\ w = v
    BY <1>1, <1>2, <2>1, <2>3 DEF ProtocolType, BooksInv, BooksType
  <2>4. CASE j = i /\ w # v
    BY <1>2, <1>3, <2>1, <2>4 DEF ProtocolType, BooksInv, BooksType
  <2> QED
    BY <2>2, <2>3, <2>4
<1>7. ASSUME NEW j \in Intents PROVE Routed(j)'
  <2>1. Routed(j)
    BY DEF AllRouted
  <2> QED
    BY <1>2, <2>1, NoVaultAssumption
    DEF Routed, ProtocolType, sourceVars, receiverVars
<1> QED
  BY <1>3, <1>4, <1>5, <1>6, <1>7 DEF AllRouted, OnlyTheWinnerIsOwed

\* Once a reimbursement has cleared a principal, nobody is owed for i.
LEMMA ClearedPrincipal ==
    ASSUME BooksInv, ProtocolInv, NEW v \in Vaults, NEW i \in Intents,
           filledBy[i] = v,
           principal' = [principal EXCEPT ![v][i] = 0],
           outcome' = [outcome EXCEPT ![i] = "LP_REIMBURSED"],
           filledBy' = filledBy
    PROVE  OnlyTheWinnerIsOwed'
<1> SUFFICES ASSUME NEW w \in Vaults, NEW j \in Intents
             PROVE  principal'[w][j] > 0
                       <=> filledBy'[j] = w /\ outcome'[j] # "LP_REIMBURSED"
  BY DEF OnlyTheWinnerIsOwed
<1>1. principal[w][j] \in Nat
      /\ (principal[w][j] > 0
             <=> filledBy[j] = w /\ outcome[j] # "LP_REIMBURSED")
  BY DEF ProtocolInv, OnlyTheWinnerIsOwed, BooksInv, BooksType
<1>2. principal'[w][j] = IF w = v /\ j = i THEN 0 ELSE principal[w][j]
  BY DEF BooksInv, BooksType
<1>3. outcome'[j] = IF j = i THEN "LP_REIMBURSED" ELSE outcome[j]
  BY DEF ProtocolInv, ProtocolType
<1> QED
  BY <1>1, <1>2, <1>3

\* Routing an intent that has just been, or is being, received.
LEMMA RouteKeepsProtocol ==
    ASSUME ProtocolInv, BooksInv, NEW i \in Intents,
           NEW amount \in Nat \ {0}, NEW funds \in Nat,
           outcome[i] = "NONE", transfer[i] # "none",
           transfer' = [transfer EXCEPT ![i] = "received"],
           Route(i, amount, funds),
           UNCHANGED <<feeExecuted, expired, marketVars, ownerVars>>
    PROVE  ProtocolInv' /\ BooksInv'
<1> USE DEF ProtocolInv
<1>1. /\ filledBy[i] \in Vaults \cup {NoVault}
      /\ settledAmount' = [settledAmount EXCEPT ![i] = amount]
      /\ filledBy' = filledBy
  BY DEF Route, ProtocolType, marketVars
<1>2. Routed(i)
  BY DEF AllRouted
<1>3. /\ transfer' \in [Intents -> Transfers]
      /\ feeExecuted' \in [Intents -> Nat]
      /\ expired' \subseteq Intents
      /\ filledBy' \in [Intents -> Vaults \cup {NoVault}]
      /\ settledAmount' \in [Intents -> Nat]
      /\ paused' \subseteq Vaults
      /\ wired' \subseteq Vaults
  BY <1>1 DEF ProtocolType, Transfers, ownerVars
<1>4. CASE RouteToWinner(i, amount, funds)
  <2>1. /\ filledBy[i] \in Vaults
        /\ AcceptsReimbursement(filledBy[i], i, amount)
        /\ RecordReimbursement(filledBy[i], i, amount)
        /\ outcome' = [outcome EXCEPT ![i] = "LP_REIMBURSED"]
        /\ UNCHANGED <<heldFor, paid>>
    BY <1>1, <1>4 DEF RouteToWinner
  <2>2. BooksInv'
    BY <2>1, ReimbursementKeepsBooks
  <2>3. principal' = [principal EXCEPT ![filledBy[i]][i] = 0]
        /\ filled' = filled
    BY <2>1 DEF RecordReimbursement
  <2>4. OnlyTheWinnerIsOwed'
    BY <1>1, <2>1, <2>3, ClearedPrincipal
  <2>5. WinnerFilled'
    BY <1>1, <2>3 DEF WinnerFilled
  <2>6. ASSUME NEW j \in Intents PROVE Routed(j)'
    <3>1. Routed(j)
      BY DEF AllRouted
    <3> QED
      BY <1>1, <2>1, <3>1, NoVaultAssumption DEF Routed, ProtocolType
  <2>7. ProtocolType'
    BY <1>3, <2>1 DEF ProtocolType, Outcomes
  <2> QED
    BY <2>2, <2>4, <2>5, <2>6, <2>7 DEF AllRouted
<1>5. CASE RouteToHolding(i, amount, funds)
  <2>1. /\ filledBy[i] \in Vaults
        /\ outcome' = [outcome EXCEPT ![i] = "HELD_FOR_VAULT"]
        /\ heldFor' = [heldFor EXCEPT ![i] = filledBy[i]]
        /\ UNCHANGED bookVars
        /\ UNCHANGED paid
    BY <1>1, <1>5 DEF RouteToHolding
  <2>2. BooksInv'
    BY <2>1, IdleKeepsBooks
  <2>3. OnlyTheWinnerIsOwed'
    BY <1>1, <2>1 DEF OnlyTheWinnerIsOwed, bookVars, ProtocolType
  <2>4. WinnerFilled'
    BY <1>1, <2>1 DEF WinnerFilled, bookVars
  <2>5. ASSUME NEW j \in Intents PROVE Routed(j)'
    <3>1. Routed(j)
      BY DEF AllRouted
    <3> QED
      BY <1>1, <2>1, <3>1, NoVaultAssumption DEF Routed, ProtocolType
  <2>6. ProtocolType'
    BY <1>3, <2>1 DEF ProtocolType, Outcomes
  <2> QED
    BY <2>2, <2>3, <2>4, <2>5, <2>6 DEF AllRouted
<1>6. CASE RouteToRecipient(i, amount, funds)
  <2>1. /\ filledBy[i] = NoVault
        /\ outcome' = [outcome EXCEPT ![i] = "RECIPIENT_FALLBACK"]
        /\ paid' = [paid EXCEPT ![i] = paid[i] + amount]
        /\ UNCHANGED heldFor
        /\ UNCHANGED bookVars
    BY <1>6 DEF RouteToRecipient
  <2>2. BooksInv'
    BY <2>1, IdleKeepsBooks
  <2>3. OnlyTheWinnerIsOwed'
    BY <1>1, <2>1, NoVaultAssumption
    DEF OnlyTheWinnerIsOwed, bookVars, ProtocolType
  <2>4. WinnerFilled'
    BY <1>1, <2>1 DEF WinnerFilled, bookVars
  <2>5. ASSUME NEW j \in Intents PROVE Routed(j)'
    <3>1. Routed(j)
      BY DEF AllRouted
    <3> QED
      BY <1>1, <2>1, <3>1 DEF Routed, ProtocolType
  <2>6. ProtocolType'
    BY <1>3, <2>1 DEF ProtocolType, Outcomes
  <2> QED
    BY <2>2, <2>3, <2>4, <2>5, <2>6 DEF AllRouted
<1> QED
  BY <1>4, <1>5, <1>6 DEF Route

LEMMA RetryKeepsProtocol ==
    ASSUME ProtocolInv, BooksInv, NEW i \in Intents, RetryHeld(i)
    PROVE  ProtocolInv' /\ BooksInv'
<1> USE DEF ProtocolInv
<1>1. Routed(i)
  BY DEF AllRouted
<1>2. /\ outcome[i] = "HELD_FOR_VAULT"
      /\ heldFor[i] = filledBy[i]
      /\ filledBy[i] \in Vaults
      /\ settledAmount[i] \in Nat
  BY <1>1 DEF RetryHeld, Routed, ProtocolType
<1>3. /\ AcceptsReimbursement(filledBy[i], i, settledAmount[i])
      /\ RecordReimbursement(filledBy[i], i, settledAmount[i])
      /\ outcome' = [outcome EXCEPT ![i] = "LP_REIMBURSED"]
      /\ heldFor' = [heldFor EXCEPT ![i] = NoVault]
      /\ UNCHANGED <<sourceVars, filledBy, settledAmount, ownerVars, paid>>
  BY <1>2 DEF RetryHeld, marketVars
<1>4. BooksInv'
  BY <1>2, <1>3, ReimbursementKeepsBooks
<1>5. principal' = [principal EXCEPT ![filledBy[i]][i] = 0]
      /\ filled' = filled
  BY <1>3 DEF RecordReimbursement
<1>6. OnlyTheWinnerIsOwed'
  BY <1>2, <1>3, <1>5, ClearedPrincipal
<1>7. WinnerFilled'
  BY <1>3, <1>5 DEF WinnerFilled
<1>8. ASSUME NEW j \in Intents PROVE Routed(j)'
  <2>1. Routed(j)
    BY DEF AllRouted
  <2> QED
    BY <1>2, <1>3, <2>1, NoVaultAssumption
    DEF Routed, ProtocolType, sourceVars
<1>9. ProtocolType'
  BY <1>3 DEF ProtocolType, Outcomes, sourceVars, ownerVars
<1> QED
  BY <1>4, <1>6, <1>7, <1>8, <1>9 DEF AllRouted

\* Steps that leave market, receiver, messages and principals alone.
LEMMA IdleKeepsProtocol ==
    ASSUME ProtocolInv,
           UNCHANGED <<sourceVars, marketVars, filled, principal, paid>>,
           UNCHANGED <<outcome, settledAmount, heldFor>>,
           paused' \subseteq Vaults, wired' \subseteq Vaults
    PROVE  ProtocolInv'
  BY DEF ProtocolInv, ProtocolType, WinnerFilled, OnlyTheWinnerIsOwed,
         AllRouted, Routed, sourceVars, marketVars
-----------------------------------------------------------------------------
(* The money in the receiver. *)

\* Whenever the receiver's balance moves by what it owes for one intent, it
\* still holds exactly what it owes.
LEMMA FundsFollowOwed ==
    ASSUME ProtocolInv, ProtocolInv', FundsInv, NEW i \in Intents,
           NEW n \in Nat,
           \A j \in Intents : Owed'[j] = IF j = i THEN n ELSE Owed[j],
           receiverBalance' = receiverBalance - Owed[i] + n
    PROVE  FundsInv'
<1>1. Owed \in [Intents -> Nat]
  BY MintedWhenRouted DEF Owed, ProtocolInv, ProtocolType
<1>2. Owed' = [Owed EXCEPT ![i] = n]
  <2>1. Owed' = [j \in Intents |-> Owed'[j]]
    BY DEF Owed
  <2>2. [Owed EXCEPT ![i] = n]
           = [j \in Intents |-> IF j = i THEN n ELSE Owed[j]]
    BY <1>1
  <2> QED
    BY <2>1, <2>2
<1>3. Total(Owed') = Total(Owed) - Owed[i] + n
  <2> DEFINE f == Owed
  <2>1. f \in [Intents -> Nat] /\ IsFiniteSet(Intents)
    BY <1>1, FiniteAssumption
  <2> HIDE DEF f
  <2>2. Total([f EXCEPT ![i] = n]) = Total(f) - f[i] + n
    BY <2>1, TotalOfUpdate
  <2> QED
    BY <1>2, <2>2 DEF f
<1>4. Owed' \in [Intents -> Nat]
  BY <1>1, <1>2
<1>5. Total(Owed') \in Nat
  BY <1>4, FiniteAssumption, TotalType
<1> QED
  BY <1>3, <1>5 DEF FundsInv, ReceiverHoldsWhatItOwes

LEMMA IdleKeepsFunds ==
    ASSUME FundsInv, receiverBalance' = receiverBalance,
           \A j \in Intents : Owed'[j] = Owed[j]
    PROVE  FundsInv'
<1>1. Owed' = Owed
  BY DEF Owed
<1> QED
  BY <1>1 DEF FundsInv, ReceiverHoldsWhatItOwes

\* Routing "amount" out of "funds" settles what was owed for i and leaves
\* nothing behind, unless the amount is parked.
LEMMA RouteKeepsFunds ==
    ASSUME ProtocolInv, ProtocolInv', FundsInv, NEW i \in Intents,
           NEW amount \in Nat \ {0}, NEW funds \in Nat,
           outcome[i] = "NONE",
           transfer' = [transfer EXCEPT ![i] = "received"],
           feeExecuted' = feeExecuted,
           Route(i, amount, funds),
           funds = receiverBalance - Owed[i] + amount
    PROVE  FundsInv'
<1>1. settledAmount' = [settledAmount EXCEPT ![i] = amount]
  BY DEF Route
<1>2. Owed[i] \in Nat /\ receiverBalance \in Nat
  BY MintedWhenRouted DEF Owed, ProtocolInv, ProtocolType, FundsInv
<1>3. CASE RouteToHolding(i, amount, funds)
  <2>1. /\ outcome' = [outcome EXCEPT ![i] = "HELD_FOR_VAULT"]
        /\ receiverBalance' = receiverBalance - Owed[i] + amount
    BY <1>3 DEF RouteToHolding
  <2>2. \A j \in Intents : Owed'[j] = IF j = i THEN amount ELSE Owed[j]
    BY <1>1, <2>1 DEF Owed, Minted, ProtocolInv, ProtocolType
  <2> QED
    BY <2>1, <2>2, FundsFollowOwed
<1>4. CASE RouteToWinner(i, amount, funds) \/ RouteToRecipient(i, amount, funds)
  <2>1. \E o \in {"LP_REIMBURSED", "RECIPIENT_FALLBACK"} :
           outcome' = [outcome EXCEPT ![i] = o]
    BY <1>4 DEF RouteToWinner, RouteToRecipient
  <2>2. receiverBalance' = receiverBalance - Owed[i] + 0
    BY <1>2, <1>4 DEF RouteToWinner, RouteToRecipient
  <2>3. \A j \in Intents : Owed'[j] = IF j = i THEN 0 ELSE Owed[j]
    BY <1>1, <2>1 DEF Owed, Minted, ProtocolInv, ProtocolType
  <2> QED
    BY <2>2, <2>3, FundsFollowOwed
<1> QED
  BY <1>3, <1>4 DEF Route

-----------------------------------------------------------------------------
(* The initial states and each action. *)

LEMMA InitInv == Init => IInv
<1> SUFFICES ASSUME Init PROVE IInv
  OBVIOUS
<1>1. BooksType /\ ProtocolType /\ receiverBalance = 0
  BY DEF Init, BooksType, ProtocolType, Transfers, Outcomes
<1>2. ExposureIsSumOfPrincipals
  BY TotalOfNothing DEF Init, ExposureIsSumOfPrincipals
<1>3. ASSUME NEW v \in Vaults PROVE VaultWithinLimits(v)
  <2>1. balance[v] = 0 /\ accrued[v] = 0 /\ exposure[v] = 0
    BY DEF Init
  <2>2. LpLiquid(v) = 0 /\ TotalAssets(v) = 0
    BY <2>1 DEF LpLiquid, LpLiquidBalance, Monus, TotalAssets
  <2>3. Limits(0, 0, Config[v].floorBps, Config[v].exposureBps)
    BY VaultConfigType, EmptyVault
  <2> QED
    BY <2>1, <2>2, <2>3 DEF VaultWithinLimits, Limits
<1>4. Owed = [i \in Intents |-> 0]
  BY DEF Init, Owed
<1>5. ReceiverHoldsWhatItOwes
  BY <1>1, <1>4, TotalOfNothing DEF ReceiverHoldsWhatItOwes
<1>6. WinnerFilled /\ OnlyTheWinnerIsOwed
  BY NoVaultAssumption DEF Init, WinnerFilled, OnlyTheWinnerIsOwed
<1>7. AllRouted
  BY CctpFeeAssumption DEF Init, AllRouted, Routed
<1> QED
  BY <1>1, <1>2, <1>3, <1>5, <1>6, <1>7
  DEF IInv, TypeOK, BooksType, ProtocolType, WithinLimits

LEMMA SourceStep ==
    ASSUME IInv, NEW i \in Intents,
           CreateIntent(i) \/ Attest(i) \/ DeadlinePasses(i)
    PROVE  IInv'
<1>1. BooksInv /\ ProtocolInv /\ FundsInv
  BY InvariantParts
<1>2. UNCHANGED <<receiverVars, bookVars>>
  BY DEF CreateIntent, Attest, DeadlinePasses
<1>3. BooksInv'
  BY <1>1, <1>2, IdleKeepsBooks
<1>4. ProtocolInv'
  BY <1>1, SourceKeepsProtocol
<1>5. \A j \in Intents : Owed'[j] = Owed[j]
  BY <1>1, <1>2
  DEF Owed, Minted, CreateIntent, Attest, DeadlinePasses, receiverVars,
      ProtocolInv, ProtocolType
<1>6. FundsInv'
  BY <1>1, <1>2, <1>5, IdleKeepsFunds DEF receiverVars
<1> QED
  BY <1>3, <1>4, <1>6, PartsPreserved

LEMMA FillStep ==
    ASSUME IInv, NEW v \in Vaults, NEW i \in Intents,
           NEW fee \in 0 .. Amount[i], FastFill(v, i, fee)
    PROVE  IInv'
<1>1. BooksInv /\ ProtocolInv /\ FundsInv
  BY InvariantParts
<1>2. principal[v][i] = 0 /\ ProtocolInv'
  BY <1>1, FillKeepsProtocol
<1>3. BooksInv'
  <2>1. Amount[i] - fee \in Nat
    BY IntentAssumption
  <2>2. /\ EnforceCaps(v, Amount[i] - fee)
        /\ RecordFastFill(v, i, Amount[i] - fee)
        /\ accrued' = accrued
    BY DEF FastFill
  <2> QED
    BY <1>1, <1>2, <2>1, <2>2, FillKeepsBooks
<1>4. FundsInv'
  <2>1. UNCHANGED <<sourceVars, receiverVars>>
    BY DEF FastFill
  <2>2. \A j \in Intents : Owed'[j] = Owed[j]
    BY <2>1 DEF Owed, Minted, sourceVars, receiverVars
  <2> QED
    BY <1>1, <2>1, <2>2, IdleKeepsFunds DEF receiverVars
<1> QED
  BY <1>2, <1>3, <1>4, PartsPreserved

LEMMA SettleWithProofStep ==
    ASSUME IInv, NEW i \in Intents, SettleWithProof(i)
    PROVE  IInv'
<1>1. BooksInv /\ ProtocolInv /\ FundsInv
  BY InvariantParts
<1>2. /\ outcome[i] = "NONE"
      /\ transfer[i] = "attested"
      /\ transfer' = [transfer EXCEPT ![i] = "received"]
      /\ Route(i, Minted(i), receiverBalance + Minted(i))
      /\ UNCHANGED <<feeExecuted, expired, marketVars, ownerVars>>
  BY DEF SettleWithProof
<1>3. /\ Minted(i) \in Nat \ {0}
      /\ receiverBalance + Minted(i) \in Nat
      /\ Owed[i] = 0
      /\ receiverBalance + Minted(i) = receiverBalance - Owed[i] + Minted(i)
  BY <1>1, <1>2, MintedWhenRouted DEF FundsInv, Owed
<1>4. ProtocolInv' /\ BooksInv'
  BY <1>1, <1>2, <1>3, RouteKeepsProtocol
<1>5. FundsInv'
  BY <1>1, <1>2, <1>3, <1>4, RouteKeepsFunds
<1> QED
  BY <1>4, <1>5, PartsPreserved

LEMMA ReceiveHooklessStep ==
    ASSUME IInv, NEW i \in Intents, ReceiveHookless(i)
    PROVE  IInv'
<1>1. BooksInv /\ ProtocolInv /\ FundsInv
  BY InvariantParts
<1>2. /\ i \notin Hooked
      /\ transfer[i] = "attested"
      /\ transfer' = [transfer EXCEPT ![i] = "received"]
      /\ receiverBalance' = receiverBalance + Minted(i)
      /\ UNCHANGED <<feeExecuted, expired, marketVars, outcome, settledAmount,
                     heldFor, bookVars, ownerVars, paid>>
  BY DEF ReceiveHookless
<1>3. BooksInv'
  BY <1>1, <1>2, IdleKeepsBooks
<1>4. ProtocolInv'
  <2>1. WinnerFilled' /\ OnlyTheWinnerIsOwed'
    BY <1>1, <1>2
    DEF ProtocolInv, WinnerFilled, OnlyTheWinnerIsOwed, marketVars, bookVars
  <2>2. ProtocolType'
    BY <1>1, <1>2
    DEF ProtocolInv, ProtocolType, Transfers, marketVars, ownerVars
  <2>3. ASSUME NEW j \in Intents PROVE Routed(j)'
    <3>1. Routed(j)
      BY <1>1 DEF ProtocolInv, AllRouted
    <3> QED
      BY <1>1, <1>2, <3>1
      DEF Routed, marketVars, ProtocolInv, ProtocolType
  <2> QED
    BY <2>1, <2>2, <2>3 DEF ProtocolInv, AllRouted
<1>5. FundsInv'
  <2>1. Minted(i) \in Nat
    BY <1>1, MintedWhenRouted
  <2>2. outcome[i] = "NONE" /\ Owed[i] = 0
    BY <1>1, <1>2 DEF ProtocolInv, AllRouted, Routed, Owed
  <2>3. \A j \in Intents : Owed'[j] = IF j = i THEN Minted(i) ELSE Owed[j]
    BY <1>1, <1>2, <2>2 DEF Owed, Minted, ProtocolInv, ProtocolType
  <2>4. receiverBalance' = receiverBalance - Owed[i] + Minted(i)
    BY <1>1, <1>2, <2>1, <2>2 DEF FundsInv
  <2> QED
    BY <1>1, <1>4, <2>1, <2>3, <2>4, FundsFollowOwed
<1> QED
  BY <1>3, <1>4, <1>5, PartsPreserved

\* Only a hookless mint can be waiting to be settled, and such a mint is
\* whole: settle() takes from the receiver just what came for this intent.
LEMMA SettleStep ==
    ASSUME IInv, NEW i \in Intents, Settle(i)
    PROVE  IInv'
<1>1. BooksInv /\ ProtocolInv /\ FundsInv
  BY InvariantParts
<1>2. /\ outcome[i] = "NONE"
      /\ transfer[i] = "received"
      /\ Route(i, Amount[i], receiverBalance)
      /\ UNCHANGED <<sourceVars, marketVars, ownerVars>>
  BY DEF Settle
<1>3. transfer' = [transfer EXCEPT ![i] = "received"]
      /\ UNCHANGED <<feeExecuted, expired>>
  BY <1>1, <1>2 DEF sourceVars, ProtocolInv, ProtocolType
<1>4. i \notin Hooked
  BY <1>1, <1>2 DEF ProtocolInv, AllRouted, Routed
<1>5. Minted(i) = Amount[i]
  BY <1>1, <1>4, MintedWhenRouted
<1>6. Owed[i] = Amount[i] /\ Amount[i] \in Nat \ {0}
  BY <1>2, <1>5, IntentAssumption DEF Owed
<1>7. receiverBalance \in Nat
      /\ receiverBalance = receiverBalance - Owed[i] + Amount[i]
  BY <1>1, <1>6 DEF FundsInv
<1>8. ProtocolInv' /\ BooksInv'
  BY <1>1, <1>2, <1>3, <1>6, <1>7, RouteKeepsProtocol
<1>9. FundsInv'
  BY <1>1, <1>2, <1>3, <1>6, <1>7, <1>8, RouteKeepsFunds
<1> QED
  BY <1>8, <1>9, PartsPreserved

LEMMA RetryStep ==
    ASSUME IInv, NEW i \in Intents, RetryHeld(i)
    PROVE  IInv'
<1>1. BooksInv /\ ProtocolInv /\ FundsInv
  BY InvariantParts
<1>2. ProtocolInv' /\ BooksInv'
  BY <1>1, RetryKeepsProtocol
<1>3. /\ outcome[i] = "HELD_FOR_VAULT"
      /\ outcome' = [outcome EXCEPT ![i] = "LP_REIMBURSED"]
      /\ receiverBalance' = receiverBalance - settledAmount[i]
      /\ UNCHANGED <<sourceVars, settledAmount>>
  BY DEF RetryHeld
<1>4. Owed[i] = settledAmount[i] /\ settledAmount[i] \in Nat
  BY <1>1, <1>3 DEF Owed, ProtocolInv, ProtocolType
<1>5. receiverBalance' = receiverBalance - Owed[i] + 0
  BY <1>1, <1>3, <1>4 DEF FundsInv
<1>6. \A j \in Intents : Owed'[j] = IF j = i THEN 0 ELSE Owed[j]
  BY <1>1, <1>3
  DEF Owed, Minted, sourceVars, ProtocolInv, ProtocolType
<1>7. FundsInv'
  BY <1>1, <1>2, <1>5, <1>6, FundsFollowOwed
<1> QED
  BY <1>2, <1>7, PartsPreserved

LEMMA VaultStep ==
    ASSUME IInv, NEW v \in Vaults, VaultNext(v)
    PROVE  IInv'
<1>1. BooksInv /\ ProtocolInv /\ FundsInv
  BY InvariantParts
<1>2. UNCHANGED <<sourceVars, marketVars, receiverVars, filled, principal, paid>>
  BY DEF VaultNext, Deposit, Withdraw, WithdrawFees, SetPaused, PointAway,
         PointBack, bookVars
<1>3. paused' \subseteq Vaults /\ wired' \subseteq Vaults
  BY <1>1
  DEF VaultNext, Deposit, Withdraw, WithdrawFees, SetPaused, PointAway,
      PointBack, ownerVars, ProtocolInv, ProtocolType
<1>4. ProtocolInv'
  BY <1>1, <1>2, <1>3, IdleKeepsProtocol DEF receiverVars
<1>5. FundsInv'
  <2>1. \A j \in Intents : Owed'[j] = Owed[j]
    BY <1>2 DEF Owed, Minted, sourceVars, receiverVars
  <2> QED
    BY <1>1, <1>2, <2>1, IdleKeepsFunds DEF receiverVars
<1>6. BooksInv'
  <2>1. /\ balance[v] \in Nat /\ accrued[v] \in Nat
        /\ accrued[v] <= balance[v]
    BY <1>1 DEF BooksInv, BooksType, WithinLimits, VaultWithinLimits
  <2>2. ASSUME NEW a \in LpAmounts, Deposit(v, a) PROVE BooksInv'
    <3> DEFINE more == balance[v] + a
               fees == accrued[v]
    <3>1. /\ UNCHANGED <<filled, principal, exposure>>
          /\ balance' = [balance EXCEPT ![v] = more]
          /\ accrued' = [accrued EXCEPT ![v] = fees]
      BY <1>1, <2>2 DEF Deposit, BooksInv, BooksType
    <3>2. /\ more \in Nat /\ fees \in Nat /\ fees <= more
          /\ balance[v] - accrued[v] <= more - fees
      BY <2>1, LpAssumption
    <3> HIDE DEF more, fees
    <3> QED
      BY <1>1, <3>1, <3>2, GainKeepsBooks
  <2>3. ASSUME NEW a \in LpAmounts, Withdraw(v, a) PROVE BooksInv'
    BY <1>1, <2>3, LpAssumption, WithdrawalKeepsBooks
  <2>4. ASSUME WithdrawFees(v) PROVE BooksInv'
    <3> DEFINE rest == balance[v] - accrued[v]
    <3>1. /\ UNCHANGED <<filled, principal, exposure>>
          /\ balance' = [balance EXCEPT ![v] = rest]
          /\ accrued' = [accrued EXCEPT ![v] = 0]
      BY <2>4 DEF WithdrawFees
    <3>2. rest \in Nat /\ 0 \in Nat /\ 0 <= rest /\ rest = balance[v] - accrued[v]
      BY <2>1
    <3> HIDE DEF rest
    <3>3. balance[v] - accrued[v] <= rest - 0
      BY <3>2
    <3> QED
      BY <1>1, <3>1, <3>2, <3>3, GainKeepsBooks
  <2>5. ASSUME SetPaused(v) \/ PointAway(v) \/ PointBack(v) PROVE BooksInv'
    BY <1>1, <2>5, IdleKeepsBooks DEF SetPaused, PointAway, PointBack
  <2> QED
    BY <2>2, <2>3, <2>4, <2>5 DEF VaultNext
<1> QED
  BY <1>4, <1>5, <1>6, PartsPreserved

LEMMA StutterStep == ASSUME IInv, UNCHANGED vars PROVE IInv'
<1>1. BooksInv /\ ProtocolInv /\ FundsInv
  BY InvariantParts
<1>2. BooksInv'
  BY <1>1, IdleKeepsBooks DEF vars
<1>3. ProtocolInv'
  BY <1>1, IdleKeepsProtocol
  DEF vars, receiverVars, ownerVars, bookVars, ProtocolInv, ProtocolType
<1>4. \A j \in Intents : Owed'[j] = Owed[j]
  BY DEF Owed, Minted, vars, sourceVars, receiverVars
<1>5. FundsInv'
  BY <1>1, <1>4, IdleKeepsFunds DEF vars, receiverVars
<1> QED
  BY <1>2, <1>3, <1>5, PartsPreserved

LEMMA NextInv == IInv /\ [Next]_vars => IInv'
<1> SUFFICES ASSUME IInv, [Next]_vars PROVE IInv'
  OBVIOUS
<1>1. ASSUME NEW i \in Intents, IntentNext(i) PROVE IInv'
  <2>1. CASE CreateIntent(i) \/ Attest(i) \/ DeadlinePasses(i)
    BY <2>1, SourceStep
  <2>2. CASE SettleWithProof(i)
    BY <2>2, SettleWithProofStep
  <2>3. CASE ReceiveHookless(i)
    BY <2>3, ReceiveHooklessStep
  <2>4. CASE Settle(i)
    BY <2>4, SettleStep
  <2>5. CASE RetryHeld(i)
    BY <2>5, RetryStep
  <2>6. ASSUME NEW v \in Vaults, NEW fee \in 0 .. Amount[i],
               FastFill(v, i, fee)
        PROVE  IInv'
    BY <2>6, FillStep
  <2> QED
    BY <1>1, <2>1, <2>2, <2>3, <2>4, <2>5, <2>6 DEF IntentNext
<1>2. ASSUME NEW v \in Vaults, VaultNext(v) PROVE IInv'
  BY <1>2, VaultStep
<1>3. CASE UNCHANGED vars
  BY <1>3, StutterStep
<1> QED
  BY <1>1, <1>2, <1>3 DEF Next

\* The inductive invariant holds in every reachable state, whatever vaults,
\* LPs, owners, Circle and the settlement worker do, in any order.
THEOREM Invariance == Spec => []IInv
  BY InitInv, NextInv, PTL DEF Spec

\* Every variable keeps its type: in particular no balance, receivable or fee
\* counter of the contracts' unsigned integers ever underflows.
THEOREM TypeCorrect == Spec => []TypeOK
<1>1. IInv => TypeOK
  BY DEF IInv
<1> QED
  BY <1>1, Invariance, PTL

\* outstandingExposure is the sum of the open advancedPrincipals of a vault,
\* after any number of fills and reimbursements in any order.
THEOREM ExposureExact == Spec => []ExposureIsSumOfPrincipals
<1>1. IInv => ExposureIsSumOfPrincipals
  BY DEF IInv
<1> QED
  BY <1>1, Invariance, PTL

\* However many vaults race for an intent, one is owed its principal, until
\* the receiver has reimbursed it.
THEOREM OneCreditor == Spec => []OnlyTheWinnerIsOwed
<1>1. IInv => OnlyTheWinnerIsOwed
  BY DEF IInv
<1> QED
  BY <1>1, Invariance, PTL

\* The receiver's whole-balance check in settle() never pays one intent with
\* another intent's parked funds, and the receiver never ends up short.
THEOREM ReceiverSolvent == Spec => []ReceiverHoldsWhatItOwes
<1>1. IInv => ReceiverHoldsWhatItOwes
  BY DEF IInv
<1> QED
  BY <1>1, Invariance, PTL

\* No sequence of fills, withdrawals, deposits, reimbursements and fee sweeps
\* takes a vault over its exposure cap or under its reserve floor.
THEOREM VaultsStayWithinLimits == Spec => []WithinLimits
<1>1. IInv => WithinLimits
  BY DEF IInv
<1> QED
  BY <1>1, Invariance, PTL

-----------------------------------------------------------------------------
(* The receiver implements CanonicalDelivery. *)

LEMMA RoutingRoutes ==
    ASSUME TypeOK, NEW i \in Intents, NEW amount, NEW funds,
           Route(i, amount, funds)
    PROVE  /\ outcome'[i] # "NONE"
           /\ \A j \in Intents \ {i} : outcome'[j] = outcome[j]
  BY DEF TypeOK, Route, RouteToWinner, RouteToHolding, RouteToRecipient

LEMMA DeliveryStep == IInv /\ [Next]_vars => [Delivery!Next]_(Delivery!vars)
<1> SUFFICES ASSUME IInv, [Next]_vars PROVE [Delivery!Next]_(Delivery!vars)
  OBVIOUS
<1> DEFINE routed == {j \in Intents : outcome[j] # "NONE"}
<1> USE DEF IInv
<1>1. ASSUME NEW i \in Intents, IntentNext(i)
      PROVE  [Delivery!Next]_(Delivery!vars)
  <2>1. CASE CreateIntent(i)
    BY <2>1
    DEF CreateIntent, receiverVars, Delivery!Next, Delivery!Burn, Delivery!Move
  <2>2. CASE Attest(i)
    BY <2>2
    DEF Attest, receiverVars, Delivery!Next, Delivery!Attest, Delivery!Move
  <2>3. CASE SettleWithProof(i)
    <3>1. routed' = routed \cup {i} /\ i \notin routed
      BY <2>3, RoutingRoutes DEF SettleWithProof
    <3> QED
      BY <2>3, <3>1
      DEF SettleWithProof, Delivery!Next, Delivery!ReceiveAndRoute,
          Delivery!Move
  <2>4. CASE ReceiveHookless(i)
    BY <2>4 DEF ReceiveHookless, Delivery!Next, Delivery!Receive, Delivery!Move
  <2>5. CASE Settle(i)
    <3>1. routed' = routed \cup {i} /\ i \notin routed
      BY <2>5, RoutingRoutes DEF Settle
    <3>2. i \notin Hooked
      BY <2>5 DEF Settle, AllRouted, Routed
    <3> QED
      BY <2>5, <3>1, <3>2
      DEF Settle, sourceVars, Delivery!Next, Delivery!RouteReceived
  <2>6. CASE RetryHeld(i)
    <3>1. routed' = routed /\ transfer' = transfer
      BY <2>6 DEF RetryHeld, TypeOK, sourceVars
    <3> QED
      BY <3>1 DEF Delivery!vars
  <2>7. CASE DeadlinePasses(i)
    BY <2>7 DEF DeadlinePasses, receiverVars, Delivery!vars
  <2>8. ASSUME NEW v \in Vaults, NEW fee \in 0 .. Amount[i],
               FastFill(v, i, fee)
        PROVE  [Delivery!Next]_(Delivery!vars)
    BY <2>8 DEF FastFill, sourceVars, receiverVars, Delivery!vars
  <2> QED
    BY <1>1, <2>1, <2>2, <2>3, <2>4, <2>5, <2>6, <2>7, <2>8 DEF IntentNext
<1>2. ASSUME NEW v \in Vaults, VaultNext(v)
      PROVE  [Delivery!Next]_(Delivery!vars)
  BY <1>2
  DEF VaultNext, Deposit, Withdraw, WithdrawFees, SetPaused, PointAway,
      PointBack, sourceVars, receiverVars, Delivery!vars
<1>3. CASE UNCHANGED vars
  BY <1>3 DEF vars, sourceVars, receiverVars, Delivery!vars
<1> QED
  BY <1>1, <1>2, <1>3 DEF Next

\* The receiver implements CanonicalDelivery: no interleaving of callers of
\* settleWithProof, the reporter, fills and retries receives or routes a burn
\* twice, or leaves a hooked mint received but unrouted.
THEOREM ReceiverDelivers == Spec => ImplementsDelivery
<1>1. Init => Delivery!Init
  BY DEF Init, Delivery!Init
<1> QED
  BY <1>1, DeliveryStep, Invariance, PTL DEF Spec, ImplementsDelivery,
     Delivery!Spec

-----------------------------------------------------------------------------
(* The promise to the user: FastSettlement implements IntentLifecycle. *)

\* The status of an intent follows its own entries only.
LEMMA StatusFollows ==
    ASSUME NEW i \in Intents,
           \A j \in Intents \ {i} : /\ transfer'[j] = transfer[j]
                                    /\ outcome'[j] = outcome[j]
                                    /\ filledBy'[j] = filledBy[j]
    PROVE  [j \in Intents |-> StatusOf(j)]' =
              [[j \in Intents |-> StatusOf(j)] EXCEPT ![i] = StatusOf(i)']
<1>1. \A j \in Intents \ {i} : StatusOf(j)' = StatusOf(j)
  BY DEF StatusOf
<1> QED
  BY <1>1

\* Each status is a fact about market, receiver and message; a pending intent
\* has neither a winner nor a paid recipient.
LEMMA StatusMeans ==
    ASSUME IInv, NEW i \in Intents
    PROVE  /\ transfer[i] = "none" => StatusOf(i) = "absent"
           /\ transfer[i] # "none" /\ outcome[i] = "NONE"
              /\ filledBy[i] = NoVault
                 => StatusOf(i) = "pending" /\ paid[i] = 0
           /\ outcome[i] \in {"NONE", "HELD_FOR_VAULT"}
              /\ filledBy[i] # NoVault
                 => StatusOf(i) = "advanced"
  BY DEF StatusOf, IInv, TypeOK, Outcomes, AllRouted, Routed

\* Nothing an intent's user could see has moved.
LEMMA LifecycleStutters ==
    ASSUME IInv, IInv', paid' = paid, filledBy' = filledBy,
           outcome' = outcome, \A j \in Intents : transfer'[j] # "none" <=>
                                                 transfer[j] # "none"
    PROVE  UNCHANGED Lifecycle!vars
<1>1. \A j \in Intents : StatusOf(j)' = StatusOf(j)
  BY DEF StatusOf
<1>2. [j \in Intents |-> StatusOf(j)]' = [j \in Intents |-> StatusOf(j)]
  BY <1>1
<1> QED
  BY <1>2 DEF Lifecycle!vars

LEMMA CreateIsCreate ==
    ASSUME IInv, NEW i \in Intents, CreateIntent(i)
    PROVE  Lifecycle!Create(i)
<1>1. /\ transfer[i] = "none" /\ outcome[i] = "NONE" /\ filledBy[i] = NoVault
      /\ transfer' = [transfer EXCEPT ![i] = "burned"]
      /\ outcome' = outcome /\ filledBy' = filledBy /\ paid' = paid
  BY DEF CreateIntent, receiverVars, marketVars, IInv, TypeOK, Outcomes,
         AllRouted, Routed
<1>2. StatusOf(i) = "absent"
  BY <1>1, StatusMeans
<1>3. StatusOf(i)' = "pending"
  BY <1>1 DEF StatusOf, IInv, TypeOK
<1>4. [j \in Intents |-> StatusOf(j)]' =
         [[j \in Intents |-> StatusOf(j)] EXCEPT ![i] = "pending"]
  BY <1>1, <1>3, StatusFollows DEF IInv, TypeOK
<1> QED
  BY <1>1, <1>2, <1>4 DEF Lifecycle!Create, Lifecycle!Move

\* A fill costs the recipient no more than both ceilings allow, the user's,
\* rounded up, and the market's, rounded down.
LEMMA FillIsAdvance ==
    ASSUME IInv, IInv', NEW v \in Vaults, NEW i \in Intents,
           NEW fee \in 0 .. Amount[i], FastFill(v, i, fee)
    PROVE  Lifecycle!Advance(i, v)
<1> DEFINE out == Amount[i] - fee
           cap == FillFeeCap(i)
<1>1. /\ transfer[i] # "none" /\ outcome[i] = "NONE" /\ filledBy[i] = NoVault
      /\ filledBy' = [filledBy EXCEPT ![i] = v]
      /\ transfer' = transfer /\ outcome' = outcome
      /\ paid' = [paid EXCEPT ![i] = paid[i] + out]
      /\ out > 0
      /\ fee <= MulDivFloor(out + fee, MarketMaxFeeBps, BPS_DENOMINATOR)
      /\ fee <= FeeAmountFor(Amount[i], MaxFeeBps[i])
  BY DEF FastFill, ClaimIntent, RecordFastFill, EnforceIntentTerms,
         sourceVars, receiverVars
<1>2. Amount[i] \in Nat /\ out + fee = Amount[i] /\ out \in 1 .. Amount[i]
  BY <1>1, IntentAssumption
<1>3. /\ MulDivFloor(Amount[i], MarketMaxFeeBps, BPS_DENOMINATOR) \in Nat
      /\ FeeAmountFor(Amount[i], MaxFeeBps[i]) \in Nat
  BY <1>2, IntentAssumption, ConfigAssumption, BpsAssumption, QuotientTypes
  DEF Bps, FeeAmountFor
<1>4. cap \in Nat /\ fee <= cap
  BY <1>1, <1>2, <1>3 DEF FillFeeCap, SmallerOf
<1>5. StatusOf(i) = "pending" /\ paid[i] = 0
  BY <1>1, StatusMeans
<1>6. StatusOf(i)' = "advanced"
  BY <1>1, NoVaultAssumption DEF StatusOf, IInv, TypeOK
<1>7. [j \in Intents |-> StatusOf(j)]' =
         [[j \in Intents |-> StatusOf(j)] EXCEPT ![i] = "advanced"]
  BY <1>1, <1>6, StatusFollows DEF IInv, TypeOK
<1>8. paid' = [paid EXCEPT ![i] = out]
  <2>1. paid[i] + out = out
    BY <1>2, <1>5
  <2> QED
    BY <1>1, <2>1
<1>9. Lifecycle!Receive(i, cap)
  <2>1. out + cap >= Amount[i]
    BY <1>2, <1>4
  <2> QED
    BY <1>2, <1>8, <2>1 DEF Lifecycle!Receive
<1> QED
  BY <1>1, <1>5, <1>7, <1>9 DEF Lifecycle!Advance, Lifecycle!Move

\* Routing repays the winner, parks money for it, which the user cannot see,
\* or delivers to the recipient what the transport left.
LEMMA RouteIsRepayOrDeliver ==
    ASSUME IInv, IInv', NEW i \in Intents, NEW amount \in 1 .. Amount[i],
           NEW funds, amount + MaxCctpFee[i] >= Amount[i],
           transfer[i] # "none", transfer'[i] # "none", outcome[i] = "NONE",
           \A j \in Intents \ {i} : transfer'[j] = transfer[j],
           filledBy' = filledBy, Route(i, amount, funds)
    PROVE  \/ Lifecycle!Repay(i)
           \/ Lifecycle!Deliver(i)
           \/ UNCHANGED Lifecycle!vars
<1> USE DEF IInv, TypeOK
<1>1. \A j \in Intents \ {i} : outcome'[j] = outcome[j]
  BY RoutingRoutes
<1>2. [j \in Intents |-> StatusOf(j)]' =
         [[j \in Intents |-> StatusOf(j)] EXCEPT ![i] = StatusOf(i)']
  BY <1>1, StatusFollows
<1>3. CASE RouteToWinner(i, amount, funds)
  <2>1. filledBy[i] # NoVault /\ outcome'[i] = "LP_REIMBURSED" /\ paid' = paid
    BY <1>3 DEF RouteToWinner
  <2>2. StatusOf(i) = "advanced"
    BY <2>1, StatusMeans
  <2>3. StatusOf(i)' = "repaid"
    BY <2>1 DEF StatusOf
  <2> QED
    BY <1>2, <2>1, <2>2, <2>3 DEF Lifecycle!Repay, Lifecycle!Move
<1>4. CASE RouteToHolding(i, amount, funds)
  <2>1. /\ filledBy[i] # NoVault /\ outcome'[i] = "HELD_FOR_VAULT"
        /\ paid' = paid
    BY <1>4 DEF RouteToHolding
  <2>2. StatusOf(i) = "advanced" /\ StatusOf(i)' = "advanced"
    BY <2>1, StatusMeans DEF StatusOf
  <2>3. [j \in Intents |-> StatusOf(j)]' = [j \in Intents |-> StatusOf(j)]
    <3> DEFINE status == [j \in Intents |-> StatusOf(j)]
    <3>1. status[i] = "advanced" /\ status' = [status EXCEPT ![i] = "advanced"]
      BY <1>2, <2>2
    <3>2. status = [j \in Intents |-> status[j]]
      OBVIOUS
    <3> HIDE DEF status
    <3>3. status' = status
      BY <3>1, <3>2
    <3> QED
      BY <3>3 DEF status
  <2> QED
    BY <2>1, <2>3 DEF Lifecycle!vars
<1>5. CASE RouteToRecipient(i, amount, funds)
  <2>1. /\ filledBy[i] = NoVault /\ outcome'[i] = "RECIPIENT_FALLBACK"
        /\ paid' = [paid EXCEPT ![i] = paid[i] + amount]
    BY <1>5 DEF RouteToRecipient
  <2>2. StatusOf(i) = "pending" /\ paid[i] = 0
    BY <2>1, StatusMeans
  <2>3. StatusOf(i)' = "fallback"
    BY <2>1 DEF StatusOf
  <2>4. paid' = [paid EXCEPT ![i] = amount]
    BY <2>1, <2>2
  <2>5. Lifecycle!Receive(i, MaxCctpFee[i])
    BY <2>4 DEF Lifecycle!Receive
  <2> QED
    BY <1>2, <2>2, <2>3, <2>5 DEF Lifecycle!Deliver, Lifecycle!Move
<1> QED
  BY <1>3, <1>4, <1>5 DEF Route

LEMMA SettlementIsRepayOrDeliver ==
    ASSUME IInv, IInv', NEW i \in Intents, SettleWithProof(i) \/ Settle(i)
    PROVE  \/ Lifecycle!Repay(i)
           \/ Lifecycle!Deliver(i)
           \/ UNCHANGED Lifecycle!vars
<1>1. /\ Amount[i] \in Nat \ {0} /\ MaxCctpFee[i] \in Nat
      /\ feeExecuted[i] \in Nat /\ feeExecuted[i] <= MaxCctpFee[i]
      /\ MaxCctpFee[i] < Amount[i] /\ transfer \in [Intents -> Transfers]
  BY IntentAssumption, CctpFeeAssumption DEF IInv, TypeOK, AllRouted, Routed
<1>2. CASE SettleWithProof(i)
  <2>1. /\ Minted(i) \in 1 .. Amount[i]
        /\ Minted(i) + MaxCctpFee[i] >= Amount[i]
    BY <1>1 DEF Minted
  <2> QED
    BY <1>1, <1>2, <2>1, RouteIsRepayOrDeliver DEF SettleWithProof, marketVars
<1>3. CASE Settle(i)
  <2>1. /\ Amount[i] \in 1 .. Amount[i]
        /\ Amount[i] + MaxCctpFee[i] >= Amount[i]
    BY <1>1
  <2> QED
    BY <1>1, <1>3, <2>1, RouteIsRepayOrDeliver
    DEF Settle, marketVars, sourceVars
<1> QED
  BY <1>2, <1>3

LEMMA RetryIsRepay ==
    ASSUME IInv, IInv', NEW i \in Intents, RetryHeld(i)
    PROVE  Lifecycle!Repay(i)
<1>1. /\ outcome[i] = "HELD_FOR_VAULT" /\ filledBy[i] # NoVault
      /\ outcome' = [outcome EXCEPT ![i] = "LP_REIMBURSED"]
      /\ transfer' = transfer /\ filledBy' = filledBy /\ paid' = paid
  BY DEF RetryHeld, sourceVars, marketVars, IInv, AllRouted, Routed
<1>2. StatusOf(i) = "advanced"
  BY <1>1, StatusMeans
<1>3. StatusOf(i)' = "repaid"
  BY <1>1 DEF StatusOf, IInv, TypeOK
<1>4. [j \in Intents |-> StatusOf(j)]' =
         [[j \in Intents |-> StatusOf(j)] EXCEPT ![i] = "repaid"]
  BY <1>1, <1>3, StatusFollows DEF IInv, TypeOK
<1> QED
  BY <1>1, <1>2, <1>4 DEF Lifecycle!Repay, Lifecycle!Move

LEMMA LifecycleStep ==
    IInv /\ [Next]_vars => [Lifecycle!Next]_(Lifecycle!vars)
<1> SUFFICES ASSUME IInv, [Next]_vars
             PROVE  [Lifecycle!Next]_(Lifecycle!vars)
  OBVIOUS
<1>1. IInv'
  BY NextInv
<1>2. ASSUME NEW i \in Intents, IntentNext(i)
      PROVE  [Lifecycle!Next]_(Lifecycle!vars)
  <2>1. CASE CreateIntent(i)
    BY <2>1, CreateIsCreate DEF Lifecycle!Next
  <2>2. CASE SettleWithProof(i) \/ Settle(i)
    BY <1>1, <2>2, SettlementIsRepayOrDeliver DEF Lifecycle!Next
  <2>3. CASE RetryHeld(i)
    BY <1>1, <2>3, RetryIsRepay DEF Lifecycle!Next
  <2>4. ASSUME NEW v \in Vaults, NEW fee \in 0 .. Amount[i],
               FastFill(v, i, fee)
        PROVE  [Lifecycle!Next]_(Lifecycle!vars)
    BY <1>1, <2>4, FillIsAdvance DEF Lifecycle!Next
  <2>5. CASE Attest(i) \/ DeadlinePasses(i) \/ ReceiveHookless(i)
    <3>1. /\ paid' = paid /\ filledBy' = filledBy /\ outcome' = outcome
          /\ \A j \in Intents : transfer'[j] # "none" <=> transfer[j] # "none"
      BY <2>5
      DEF Attest, DeadlinePasses, ReceiveHookless, marketVars, receiverVars,
          IInv, TypeOK
    <3> QED
      BY <1>1, <3>1, LifecycleStutters
  <2> QED
    BY <1>2, <2>1, <2>2, <2>3, <2>4, <2>5 DEF IntentNext
<1>3. CASE \/ \E v \in Vaults : VaultNext(v)
           \/ UNCHANGED vars
  <2>1. /\ paid' = paid /\ filledBy' = filledBy /\ outcome' = outcome
        /\ transfer' = transfer
    BY <1>3
    DEF VaultNext, Deposit, Withdraw, WithdrawFees, SetPaused, PointAway,
        PointBack, vars, sourceVars, marketVars, receiverVars
  <2> QED
    BY <1>1, <2>1, LifecycleStutters
<1> QED
  BY <1>2, <1>3 DEF Next

\* FastSettlement keeps the promise of IntentLifecycle: whatever vaults race,
\* owners change, is parked or retried, a recipient is paid once, by a fill or
\* by canonical settlement, and loses no more than the capped fee of the one
\* that paid; the winner is repaid at most once.
THEOREM PromiseKept == Spec => ImplementsLifecycle
<1>1. Init => Lifecycle!Init
  BY DEF Init, Lifecycle!Init, StatusOf
<1> QED
  BY <1>1, LifecycleStep, Invariance, PTL DEF Spec, ImplementsLifecycle,
     Lifecycle!Spec

-----------------------------------------------------------------------------
(* What a delivery, a settlement or a retry needs is there. *)

\* What is parked for a winner is all that its burn minted.
ParkedIsMinted ==
    \A i \in Intents :
        outcome[i] = "HELD_FOR_VAULT" => settledAmount[i] = Minted(i)

LEMMA RoutingParksTheMint ==
    ASSUME IInv, ParkedIsMinted, NEW i \in Intents,
           NEW funds, Route(i, Minted(i), funds), feeExecuted' = feeExecuted
    PROVE  ParkedIsMinted'
<1>1. /\ settledAmount' = [settledAmount EXCEPT ![i] = Minted(i)]
      /\ \A j \in Intents \ {i} : outcome'[j] = outcome[j]
  BY RoutingRoutes DEF Route, IInv
<1> QED
  BY <1>1 DEF ParkedIsMinted, Minted, IInv, TypeOK

LEMMA ParkedStep ==
    ASSUME IInv, ParkedIsMinted, [Next]_vars
    PROVE  ParkedIsMinted'
<1>1. ASSUME NEW i \in Intents, IntentNext(i) PROVE ParkedIsMinted'
  <2>1. CASE SettleWithProof(i)
    BY <2>1, RoutingParksTheMint DEF SettleWithProof
  <2>2. CASE Settle(i)
    <3>1. i \notin Hooked
      BY <2>2 DEF Settle, IInv, AllRouted, Routed
    <3>2. Amount[i] = Minted(i)
      BY <3>1, MintedWhenRouted, InvariantParts
    <3> QED
      BY <2>2, <3>2, RoutingParksTheMint DEF Settle, sourceVars
  <2>3. CASE RetryHeld(i)
    BY <2>3 DEF RetryHeld, sourceVars, ParkedIsMinted, Minted, IInv, TypeOK
  <2>4. CASE Attest(i)
    <3>1. outcome[i] = "NONE"
      BY <2>4 DEF Attest, IInv, AllRouted, Routed
    <3> QED
      BY <2>4, <3>1
      DEF Attest, receiverVars, ParkedIsMinted, Minted, IInv, TypeOK
  <2>5. CASE CreateIntent(i) \/ DeadlinePasses(i) \/ ReceiveHookless(i)
    BY <2>5
    DEF CreateIntent, DeadlinePasses, ReceiveHookless, receiverVars,
        ParkedIsMinted, Minted
  <2>6. ASSUME NEW v \in Vaults, NEW fee \in 0 .. Amount[i],
               FastFill(v, i, fee)
        PROVE  ParkedIsMinted'
    BY <2>6 DEF FastFill, sourceVars, receiverVars, ParkedIsMinted, Minted
  <2> QED
    BY <1>1, <2>1, <2>2, <2>3, <2>4, <2>5, <2>6 DEF IntentNext
<1>2. CASE \/ \E v \in Vaults : VaultNext(v)
           \/ UNCHANGED vars
  <2>1. UNCHANGED <<outcome, settledAmount, feeExecuted>>
    BY <1>2
    DEF VaultNext, Deposit, Withdraw, WithdrawFees, SetPaused, PointAway,
        PointBack, vars, sourceVars, receiverVars
  <2> QED
    BY <2>1 DEF ParkedIsMinted, Minted
<1> QED
  BY <1>1, <1>2 DEF Next

\* What is owed for one intent is in the receiver.
LEMMA OwedIsThere ==
    ASSUME IInv, NEW i \in Intents
    PROVE  /\ outcome[i] = "HELD_FOR_VAULT"
                 => settledAmount[i] <= receiverBalance
           /\ outcome[i] = "NONE" /\ transfer[i] = "received"
                 => Minted(i) <= receiverBalance
<1>1. \A j \in Intents : Minted(j) \in Nat
  BY MintedWhenRouted, InvariantParts
<1>2. Owed \in [Intents -> Nat]
  BY <1>1 DEF Owed, IInv, TypeOK
<1>3. Owed[i] <= receiverBalance
  BY <1>2, EntryWithinTotal, FiniteAssumption DEF IInv, ReceiverHoldsWhatItOwes
<1> QED
  BY <1>3 DEF Owed

\* A winner that is wired here takes what is parked for it, unless Circle's
\* fee was more than its own.
LEMMA WinnerAccepts ==
    ASSUME IInv, ParkedIsMinted, NEW i \in Intents,
           outcome[i] = "HELD_FOR_VAULT", heldFor[i] \in wired,
           ~ CctpFeeAteIntoPrincipal(i)
    PROVE  AcceptsReimbursement(heldFor[i], i, settledAmount[i])
<1> DEFINE v == heldFor[i]
<1>1. v \in Vaults /\ v = filledBy[i]
  BY DEF IInv, TypeOK, AllRouted, Routed
<1>2. i \in filled[v] /\ principal[v][i] > 0
  BY <1>1 DEF IInv, WinnerFilled, OnlyTheWinnerIsOwed
<1>3. principal[v] \in [Intents -> Nat] /\ exposure[v] = Total(principal[v])
  BY <1>1 DEF IInv, TypeOK, ExposureIsSumOfPrincipals
<1>4. principal[v][i] <= exposure[v]
  BY <1>3, EntryWithinTotal, FiniteAssumption
<1>5. settledAmount[i] >= principal[v][i]
  <2>1. /\ Amount[i] \in Nat /\ feeExecuted[i] \in Nat
        /\ principal[v][i] \in Nat
    BY <1>3, IntentAssumption DEF IInv, TypeOK
  <2> QED
    BY <2>1 DEF ParkedIsMinted, CctpFeeAteIntoPrincipal, Minted
<1> QED
  BY <1>2, <1>3, <1>4, <1>5 DEF AcceptsReimbursement

\* Money that has crossed is never stuck for want of an entry in some book:
\* every next step of a settlement is possible except where an owner has
\* pointed the winner elsewhere or Circle's fee exceeds the winner's.
THEOREM NothingIsStuck == Spec => []MoneyCanMove
<1>1. IInv /\ ParkedIsMinted => MoneyCanMove
  <2> SUFFICES ASSUME IInv, ParkedIsMinted, NEW i \in Intents
               PROVE  /\ i \in Hooked /\ transfer[i] = "attested"
                            => outcome[i] = "NONE" /\ Minted(i) # 0
                      /\ transfer[i] = "received" /\ outcome[i] = "NONE"
                            => Amount[i] <= receiverBalance
                      /\ outcome[i] = "HELD_FOR_VAULT"
                            => /\ settledAmount[i] <= receiverBalance
                               /\ heldFor[i] \in wired
                                  /\ ~ CctpFeeAteIntoPrincipal(i)
                                     => AcceptsReimbursement(heldFor[i], i,
                                                        settledAmount[i])
    BY DEF MoneyCanMove
  <2>1. /\ Minted(i) \in Nat \ {0}
        /\ i \notin Hooked => Minted(i) = Amount[i]
    BY MintedWhenRouted, InvariantParts
  <2>2. /\ transfer[i] = "attested" => outcome[i] = "NONE"
        /\ transfer[i] = "received" /\ outcome[i] = "NONE" => i \notin Hooked
    BY DEF IInv, AllRouted, Routed
  <2> QED
    BY <2>1, <2>2, OwedIsThere, WinnerAccepts
<1>2. Init => ParkedIsMinted
  BY DEF Init, ParkedIsMinted
<1> QED
  BY <1>1, <1>2, ParkedStep, Invariance, PTL DEF Spec

-----------------------------------------------------------------------------
(* What the LPs own. *)

\* A vault whose books do not move keeps its assets.
LEMMA AssetsFollowBooks ==
    ASSUME NEW v \in Vaults, balance'[v] = balance[v],
           accrued'[v] = accrued[v], exposure'[v] = exposure[v]
    PROVE  TotalAssets(v)' = TotalAssets(v)
  BY DEF TotalAssets, LpLiquid

LEMMA AssetsOfVault ==
    ASSUME NEW v \in Vaults, BooksInv
    PROVE  TotalAssets(v) = balance[v] - accrued[v] + exposure[v]
  BY LimitsOfVault DEF BooksInv, WithinLimits, VaultWithinLimits, TotalAssets

\* Reimbursement returns the principal; of the fee the LPs keep what the
\* protocol does not take, and that is never negative.
LEMMA ReimbursementKeepsAssets ==
    ASSUME BooksInv, NEW v \in Vaults, NEW i \in Intents, NEW amount \in Nat,
           AcceptsReimbursement(v, i, amount),
           RecordReimbursement(v, i, amount), NEW u \in Vaults
    PROVE  ~ (TotalAssets(u)' < TotalAssets(u))
<1> DEFINE p     == principal[v][i]
           share == ProtocolShare(amount - p, Config[v].shareBps)
<1>1. BooksInv'
  BY ReimbursementKeepsBooks
<1>2. TotalAssets(u) = balance[u] - accrued[u] + exposure[u]
  BY AssetsOfVault
<1>3. TotalAssets(u)' = balance'[u] - accrued'[u] + exposure'[u]
  BY <1>1, LimitsOfVault
  DEF BooksInv, BooksType, WithinLimits, VaultWithinLimits, TotalAssets,
      LpLiquid, LpLiquidBalance, Monus
<1>4. p \in Nat /\ p <= amount
  BY DEF AcceptsReimbursement, BooksInv, BooksType
<1>5. share \in 0 .. amount - p
  <2>1. amount - p \in Nat
    BY <1>4
  <2> QED
    BY <2>1, VaultConfigType, ShareWithinFee
<1>6. /\ exposure' = [exposure EXCEPT ![v] = exposure[v] - p]
      /\ accrued' = [accrued EXCEPT ![v] = accrued[v] + share]
      /\ balance' = [balance EXCEPT ![v] = balance[v] + amount]
  BY DEF RecordReimbursement
<1> HIDE DEF p, share
<1>7. /\ exposure[u] \in Nat /\ accrued[u] \in Nat /\ balance[u] \in Nat
      /\ exposure \in [Vaults -> Nat] /\ accrued \in [Vaults -> Nat]
      /\ balance \in [Vaults -> Nat]
  BY DEF BooksInv, BooksType
<1>8. CASE u = v
  BY <1>2, <1>3, <1>4, <1>5, <1>6, <1>7, <1>8
<1>9. CASE u # v
  BY <1>2, <1>3, <1>6, <1>7, <1>9
<1> QED
  BY <1>8, <1>9

\* Routing touches a vault's books only to reimburse the winner.
LEMMA RoutingKeepsAssets ==
    ASSUME IInv, NEW i \in Intents, NEW amount \in Nat, NEW funds,
           Route(i, amount, funds), NEW u \in Vaults
    PROVE  ~ (TotalAssets(u)' < TotalAssets(u))
<1>1. BooksInv
  BY InvariantParts
<1>2. CASE RouteToWinner(i, amount, funds)
  BY <1>1, <1>2, ReimbursementKeepsAssets
  DEF RouteToWinner, IInv, TypeOK
<1>3. CASE bookVars' = bookVars
  <2>1. TotalAssets(u)' = TotalAssets(u)
    BY <1>3, AssetsFollowBooks DEF bookVars
  <2>2. TotalAssets(u) \in Int
    BY <1>1, AssetsOfVault DEF BooksInv, BooksType
  <2> QED
    BY <2>1, <2>2
<1> QED
  BY <1>2, <1>3 DEF Route, RouteToHolding, RouteToRecipient

LEMMA AssetsStep == IInv /\ [Next]_vars =>
    [\A v \in Vaults :
        TotalAssets(v)' < TotalAssets(v)
            => \E amount \in LpAmounts : Withdraw(v, amount)]_vars
<1> SUFFICES ASSUME IInv, Next, NEW u \in Vaults,
                    TotalAssets(u)' < TotalAssets(u)
             PROVE  \E amount \in LpAmounts : Withdraw(u, amount)
  OBVIOUS
<1>1. IInv'
  BY NextInv
<1>2. BooksInv /\ BooksInv'
  BY <1>1 DEF IInv, TypeOK, BooksInv, BooksType
<1>3. /\ balance \in [Vaults -> Nat] /\ accrued \in [Vaults -> Nat]
      /\ exposure \in [Vaults -> Nat]
  BY <1>2 DEF BooksInv, BooksType
<1>4. /\ TotalAssets(u) = balance[u] - accrued[u] + exposure[u]
      /\ TotalAssets(u)' = balance'[u] - accrued'[u] + exposure'[u]
  <2>1. accrued'[u] <= balance'[u]
    BY <1>2 DEF BooksInv, WithinLimits, VaultWithinLimits
  <2>2. TotalAssets(u)' = balance'[u] - accrued'[u] + exposure'[u]
    BY <1>2, <2>1
    DEF BooksInv, BooksType, TotalAssets, LpLiquid, LpLiquidBalance, Monus
  <2> QED
    BY <1>2, <2>2, AssetsOfVault
<1>5. bookVars' # bookVars
  BY <1>3, <1>4 DEF bookVars
<1>6. ASSUME NEW i \in Intents, IntentNext(i) PROVE FALSE
  <2>1. CASE SettleWithProof(i)
    <3>1. Minted(i) \in Nat
      BY MintedType DEF IInv, TypeOK, AllRouted, Routed
    <3> QED
      BY <2>1, <3>1, RoutingKeepsAssets DEF SettleWithProof
  <2>2. CASE Settle(i)
    <3>1. Amount[i] \in Nat
      BY IntentAssumption
    <3> QED
      BY <2>2, <3>1, RoutingKeepsAssets DEF Settle
  <2>3. CASE RetryHeld(i)
    <3>1. heldFor[i] \in Vaults /\ settledAmount[i] \in Nat
      BY <2>3 DEF RetryHeld, IInv, TypeOK, AllRouted, Routed
    <3> QED
      BY <1>2, <2>3, <3>1, ReimbursementKeepsAssets DEF RetryHeld
  <2>4. ASSUME NEW v \in Vaults, NEW fee \in 0 .. Amount[i],
               FastFill(v, i, fee)
        PROVE  FALSE
    <3>1. Amount[i] - fee \in Nat
      BY IntentAssumption
    <3>2. /\ exposure' = [exposure EXCEPT ![v] = @ + (Amount[i] - fee)]
          /\ balance' = [balance EXCEPT ![v] = @ - (Amount[i] - fee)]
          /\ accrued' = accrued
      BY <2>4 DEF FastFill, RecordFastFill
    <3>3. balance'[u] - accrued'[u] + exposure'[u]
             = balance[u] - accrued[u] + exposure[u]
      BY <1>3, <3>1, <3>2
    <3> QED
      BY <1>3, <1>4, <3>3
  <2>5. CASE CreateIntent(i) \/ Attest(i) \/ DeadlinePasses(i)
             \/ ReceiveHookless(i)
    BY <1>5, <2>5 DEF CreateIntent, Attest, DeadlinePasses, ReceiveHookless
  <2> QED
    BY <1>6, <2>1, <2>2, <2>3, <2>4, <2>5 DEF IntentNext
<1>7. ASSUME NEW v \in Vaults, VaultNext(v)
      PROVE  \E amount \in LpAmounts : Withdraw(u, amount)
  <2>1. ASSUME NEW amount \in LpAmounts, Deposit(v, amount) PROVE FALSE
    <3>1. /\ amount \in Nat /\ exposure' = exposure /\ accrued' = accrued
          /\ balance' = [balance EXCEPT ![v] = @ + amount]
      BY <2>1, LpAssumption DEF Deposit
    <3> QED
      BY <1>3, <1>4, <3>1
  <2>2. ASSUME NEW amount \in LpAmounts, Withdraw(v, amount)
        PROVE  Withdraw(u, amount)
    <3>1. /\ amount \in Nat /\ exposure' = exposure /\ accrued' = accrued
          /\ balance' = [balance EXCEPT ![v] = @ - amount]
      BY <2>2, LpAssumption DEF Withdraw
    <3>2. u = v
      BY <1>3, <1>4, <3>1
    <3> QED
      BY <2>2, <3>2
  <2>3. CASE WithdrawFees(v)
    <3>1. /\ exposure' = exposure /\ accrued' = [accrued EXCEPT ![v] = 0]
          /\ balance' = [balance EXCEPT ![v] = @ - accrued[v]]
      BY <2>3 DEF WithdrawFees
    <3>2. balance'[u] - accrued'[u] = balance[u] - accrued[u]
      BY <1>3, <3>1
    <3> QED
      BY <1>3, <1>4, <3>1, <3>2
  <2>4. CASE SetPaused(v) \/ PointAway(v) \/ PointBack(v)
    BY <1>5, <2>4 DEF SetPaused, PointAway, PointBack
  <2> QED
    BY <1>7, <2>1, <2>2, <2>3, <2>4 DEF VaultNext
<1> QED
  BY <1>6, <1>7 DEF Next

\* Whatever happens to its fills, a vault's LPs lose assets only by
\* withdrawing them.
THEOREM LpAssetsSafe == Spec => LpAssetsNeverLost
  BY AssetsStep, Invariance, PTL DEF Spec, LpAssetsNeverLost
=============================================================================
