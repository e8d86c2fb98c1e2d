------------------------- MODULE Arithmetic_proofs --------------------------
(***************************************************************************)
(* The facts about numbers that the proofs of several components cite:     *)
(* what a running total is, by counting units (RunningTotals), and what    *)
(* rounded quotients guarantee (VaultMath).                                *)
(***************************************************************************)
EXTENDS RunningTotals, VaultMath, FiniteSetTheorems, FunctionTheorems, TLAPS

\* An account of balance n has n units, and they are finitely many.
LEMMA UnitsOfCardinality ==
    ASSUME NEW x, NEW n \in Nat
    PROVE  IsFiniteSet(UnitsOf(x, n)) /\ Cardinality(UnitsOf(x, n)) = n
<1>1. IsFiniteSet({x}) /\ Cardinality({x}) = 1
  BY FS_Singleton
<1>2. IsFiniteSet(1 .. n) /\ Cardinality(1 .. n) = n
  BY FS_Interval
<1>3. IsFiniteSet({x} \X (1 .. n))
  BY <1>1, <1>2, FS_Product
<1>4. Cardinality({x} \X (1 .. n)) = 1 * n
  BY <1>1, <1>2, FS_Product
<1> QED
  BY <1>3, <1>4 DEF UnitsOf

\* Membership of a unit, account by account.
LEMMA UnitsMembership ==
    ASSUME NEW S, NEW f \in [S -> Nat], NEW u
    PROVE  u \in Units(f) <=> \E x \in S : u \in UnitsOf(x, f[x])
  BY DEF Units

\* A ledger over finitely many accounts has finitely many units, so its total
\* is a natural number.
LEMMA TotalType ==
    ASSUME NEW S, IsFiniteSet(S), NEW f \in [S -> Nat]
    PROVE  IsFiniteSet(Units(f)) /\ Total(f) \in Nat
<1> DEFINE parts == {UnitsOf(x, f[x]) : x \in S}
           part  == [x \in S |-> UnitsOf(x, f[x])]
<1>1. part \in Surjection(S, parts)
  BY Fun_IsSurj
<1>2. IsFiniteSet(parts)
  BY <1>1, FS_Surjection
<1>3. \A p \in parts : IsFiniteSet(p)
  BY UnitsOfCardinality
<1>4. IsFiniteSet(UNION parts)
  BY <1>2, <1>3, FS_UNION
<1>5. Units(f) = UNION parts
  BY DEF Units
<1>6. IsFiniteSet(Units(f))
  BY <1>4, <1>5
<1> QED
  BY <1>6, FS_CardinalityType DEF Total

\* No account exceeds the total.
LEMMA EntryWithinTotal ==
    ASSUME NEW S, IsFiniteSet(S), NEW f \in [S -> Nat], NEW x \in S
    PROVE  f[x] <= Total(f)
<1>1. UnitsOf(x, f[x]) \in SUBSET Units(f)
  BY DEF Units
<1>2. IsFiniteSet(Units(f))
  BY TotalType
<1>3. Cardinality(UnitsOf(x, f[x])) <= Cardinality(Units(f))
  BY <1>1, <1>2, FS_Subset
<1> QED
  BY <1>3, UnitsOfCardinality DEF Total

\* A ledger of empty accounts totals zero.
LEMMA TotalOfNothing ==
    ASSUME NEW S, NEW f \in [S -> Nat], \A x \in S : f[x] = 0
    PROVE  Total(f) = 0
<1>1. \A x \in S : UnitsOf(x, f[x]) = {}
  BY DEF UnitsOf
<1>2. Units(f) = {}
  BY <1>1 DEF Units
<1> QED
  BY <1>2, FS_EmptySet DEF Total

\* Changing one account changes the total by the same amount.
LEMMA TotalOfUpdate ==
    ASSUME NEW S, IsFiniteSet(S), NEW f \in [S -> Nat], NEW x \in S,
           NEW n \in Nat
    PROVE  Total([f EXCEPT ![x] = n]) = Total(f) - f[x] + n
<1> DEFINE g    == [f EXCEPT ![x] = n]
           rest == Units(f) \ UnitsOf(x, f[x])
<1>1. g \in [S -> Nat]
  OBVIOUS
<1>2. \A y \in S : y # x => g[y] = f[y]
  OBVIOUS
<1>3. g[x] = n
  OBVIOUS
<1>4. \A u : u \in rest <=> \E y \in S \ {x} : u \in UnitsOf(y, f[y])
  BY DEF Units, UnitsOf
<1>5. \A u : u \in Units(g) <=> u \in rest \/ u \in UnitsOf(x, n)
  <2> HIDE DEF g, rest
  <2>1. \A u : u \in Units(g) <=> \E y \in S : u \in UnitsOf(y, g[y])
    BY <1>1 DEF Units
  <2> QED
    BY <2>1, <1>2, <1>3, <1>4
<1>6. Units(g) = rest \cup UnitsOf(x, n)
  BY <1>5
<1>7. rest \cap UnitsOf(x, n) = {}
  BY <1>4 DEF UnitsOf
<1>8. IsFiniteSet(Units(f))
  BY TotalType
<1>9. UnitsOf(x, f[x]) \subseteq Units(f)
  BY DEF Units
<1>10. IsFiniteSet(rest) /\ Cardinality(rest) = Total(f) - f[x]
  <2>1. Units(f) \cap UnitsOf(x, f[x]) = UnitsOf(x, f[x])
    BY <1>9
  <2>2. Cardinality(rest) =
           Cardinality(Units(f)) - Cardinality(Units(f) \cap UnitsOf(x, f[x]))
    BY <1>8, FS_Difference
  <2>3. IsFiniteSet(rest)
    BY <1>8, FS_Difference
  <2>4. Cardinality(UnitsOf(x, f[x])) = f[x]
    BY UnitsOfCardinality
  <2> QED
    BY <2>1, <2>2, <2>3, <2>4 DEF Total
<1>11. IsFiniteSet(UnitsOf(x, n)) /\ Cardinality(UnitsOf(x, n)) = n
  BY UnitsOfCardinality
<1>12. Cardinality(rest \cup UnitsOf(x, n)) =
          Cardinality(rest) + Cardinality(UnitsOf(x, n)) - Cardinality({})
  BY <1>7, <1>10, <1>11, FS_Union
<1>13. Cardinality({}) = 0
  BY FS_EmptySet
<1>14. Total(f) \in Nat /\ f[x] \in Nat
  BY TotalType
<1>15. Total(g) = Cardinality(rest \cup UnitsOf(x, n))
  BY <1>6 DEF Total
<1> HIDE DEF g, rest
<1>16. Total(g) = Total(f) - f[x] + n
  BY <1>10, <1>11, <1>12, <1>13, <1>14, <1>15
<1> QED
  BY <1>16 DEF g

-----------------------------------------------------------------------------
\* A natural divided by a positive natural.
LEMMA Division ==
    ASSUME NEW a \in Nat, NEW c \in Nat \ {0}
    PROVE  /\ a \div c \in Nat
           /\ (a \div c) * c <= a
           /\ a < (a \div c) * c + c
  OBVIOUS

LEMMA ProductType ==
    ASSUME NEW a \in Nat, NEW b \in Nat
    PROVE  a * b \in Nat
  OBVIOUS

\* Multiplication by a natural keeps an order.
LEMMA ProductMonotone ==
    ASSUME NEW a \in Int, NEW b \in Int, NEW k \in Nat, a <= b
    PROVE  a * k <= b * k
  OBVIOUS

\* Multiplication by a positive natural reflects one.
LEMMA ProductReflects ==
    ASSUME NEW a \in Int, NEW b \in Int, NEW k \in Nat \ {0}, a * k <= b * k
    PROVE  a <= b
  OBVIOUS

LEMMA ProductReflectsStrictly ==
    ASSUME NEW a \in Int, NEW b \in Int, NEW k \in Nat \ {0}, a * k < b * k
    PROVE  a < b
  OBVIOUS

-----------------------------------------------------------------------------
(* mulDiv: the largest quotient not above, the smallest not below. *)

LEMMA QuotientTypes ==
    ASSUME NEW a \in Nat, NEW b \in Nat, NEW c \in Nat \ {0}
    PROVE  MulDivFloor(a, b, c) \in Nat /\ MulDivCeil(a, b, c) \in Nat
<1>1. a * b \in Nat /\ a * b + c - 1 \in Nat
  BY ProductType
<1>2. (a * b) \div c \in Nat
  BY <1>1, Division
<1>3. (a * b + c - 1) \div c \in Nat
  BY <1>1, Division
<1> QED
  BY <1>2, <1>3 DEF MulDivFloor, MulDivCeil

LEMMA FloorMeans ==
    ASSUME NEW a \in Nat, NEW b \in Nat, NEW c \in Nat \ {0}, NEW n \in Nat
    PROVE  n <= MulDivFloor(a, b, c) <=> n * c <= a * b
<1> DEFINE p == a * b
           q == p \div c
<1>1. p \in Nat
  BY ProductType
<1>2. q \in Nat /\ q * c <= p /\ p < q * c + c
  BY <1>1, Division
<1> HIDE DEF p, q
<1>3. ASSUME n <= q PROVE n * c <= p
  <2>1. n * c <= q * c
    BY <1>2, <1>3, ProductMonotone
  <2>2. n * c \in Nat /\ q * c \in Nat
    BY <1>2, ProductType
  <2> QED
    BY <1>1, <1>2, <2>1, <2>2
<1>4. ASSUME n * c <= p PROVE n <= q
  <2>1. n * c < (q + 1) * c
    BY <1>1, <1>2, <1>4
  <2>2. n < q + 1
    BY <1>2, <2>1, ProductReflectsStrictly
  <2> QED
    BY <1>2, <2>2
<1> QED
  BY <1>2, <1>3, <1>4 DEF p, q, MulDivFloor

LEMMA CeilMeans ==
    ASSUME NEW a \in Nat, NEW b \in Nat, NEW c \in Nat \ {0}, NEW n \in Nat
    PROVE  MulDivCeil(a, b, c) <= n <=> a * b <= n * c
<1> DEFINE p == a * b
           q == (p + c - 1) \div c
<1>1. p \in Nat
  BY ProductType
<1>2. q \in Nat /\ q * c <= p + c - 1 /\ p + c - 1 < q * c + c
  BY <1>1, Division
<1> HIDE DEF p, q
<1>3. ASSUME q <= n PROVE p <= n * c
  <2>1. q * c <= n * c
    BY <1>2, <1>3, ProductMonotone
  <2>2. n * c \in Nat /\ q * c \in Nat
    BY <1>2, ProductType
  <2> QED
    BY <1>1, <1>2, <2>1, <2>2
<1>4. ASSUME p <= n * c PROVE q <= n
  <2>1. q * c < (n + 1) * c
    BY <1>1, <1>2, <1>4
  <2>2. q < n + 1
    BY <1>2, <2>1, ProductReflectsStrictly
  <2> QED
    BY <1>2, <2>2
<1> QED
  BY <1>2, <1>3, <1>4 DEF p, q, MulDivCeil

-----------------------------------------------------------------------------
(* The two limits of a vault with "liquid" and "exposure", cross-multiplied. *)

Limits(liquid, exposure, floorBps, exposureBps) ==
    /\ exposure <= MaxOutstandingExposure(liquid + exposure, exposureBps)
    /\ liquid >= ReserveFloor(liquid + exposure, floorBps)

LEMMA LimitsMean ==
    ASSUME NEW l \in Nat, NEW x \in Nat, NEW f \in Bps, NEW e \in Bps
    PROVE  Limits(l, x, f, e) <=>
              /\ x * BPS_DENOMINATOR <= (l + x) * e
              /\ (l + x) * f <= l * BPS_DENOMINATOR
<1>1. /\ l + x \in Nat /\ f \in Nat /\ e \in Nat
      /\ BPS_DENOMINATOR \in Nat \ {0}
  BY BpsAssumption DEF Bps
<1>2. x <= MulDivFloor(l + x, e, BPS_DENOMINATOR)
         <=> x * BPS_DENOMINATOR <= (l + x) * e
  BY <1>1, FloorMeans
<1>3. MulDivCeil(l + x, f, BPS_DENOMINATOR) <= l
         <=> (l + x) * f <= l * BPS_DENOMINATOR
  BY <1>1, CeilMeans
<1>4. MulDivCeil(l + x, f, BPS_DENOMINATOR) \in Nat
  BY <1>1, QuotientTypes
<1> QED
  BY <1>2, <1>3, <1>4 DEF Limits, MaxOutstandingExposure, ReserveFloor

LEMMA EmptyVault ==
    ASSUME NEW f \in Bps, NEW e \in Bps
    PROVE  Limits(0, 0, f, e)
<1>1. f \in Nat /\ e \in Nat /\ BPS_DENOMINATOR \in Nat
  BY BpsAssumption DEF Bps
<1>2. /\ 0 * BPS_DENOMINATOR <= (0 + 0) * e
      /\ (0 + 0) * f <= 0 * BPS_DENOMINATOR
  BY <1>1
<1> QED
  BY <1>2, LimitsMean

\* A vault that gains assets and is owed no more stays within its limits:
\* deposits, reimbursements and fee sweeps.
LEMMA LimitsSurviveGain ==
    ASSUME NEW l \in Nat, NEW x \in Nat, NEW f \in Bps, NEW e \in Bps,
           NEW l2 \in Nat, NEW x2 \in Nat,
           x2 <= x, l + x <= l2 + x2, Limits(l, x, f, e)
    PROVE  Limits(l2, x2, f, e)
<1> USE BpsAssumption DEF Bps
<1>1. x * BPS_DENOMINATOR <= (l + x) * e /\ (l + x) * f <= l * BPS_DENOMINATOR
  BY LimitsMean
<1>2. x2 * BPS_DENOMINATOR <= (l2 + x2) * e
  <2>1. x2 * BPS_DENOMINATOR <= x * BPS_DENOMINATOR
    BY ProductMonotone
  <2>2. (l + x) * e <= (l2 + x2) * e
    BY ProductMonotone
  <2> QED
    BY <1>1, <2>1, <2>2
<1>3. (l2 + x2) * f <= l2 * BPS_DENOMINATOR
  <2> DEFINE d == l2 + x2 - (l + x)
  <2>1. d \in Nat /\ l2 + x2 = l + x + d /\ l + d <= l2
    OBVIOUS
  <2> HIDE DEF d
  <2>2. (l + x + d) * f = (l + x) * f + d * f
    BY <2>1
  <2>3. d * f <= d * BPS_DENOMINATOR
    BY <2>1
  <2>4. (l + d) * BPS_DENOMINATOR = l * BPS_DENOMINATOR + d * BPS_DENOMINATOR
    BY <2>1
  <2>5. (l + d) * BPS_DENOMINATOR <= l2 * BPS_DENOMINATOR
    BY <2>1, ProductMonotone
  <2> QED
    BY <1>1, <2>1, <2>2, <2>3, <2>4, <2>5
<1> QED
  BY <1>2, <1>3, LimitsMean

\* A fill that passes the caps and the available liquidity stays within them.
LEMMA LimitsSurviveFill ==
    ASSUME NEW l \in Nat, NEW x \in Nat, NEW f \in Bps, NEW e \in Bps,
           NEW out \in Nat \ {0},
           x + out <= MaxOutstandingExposure(l + x, e),
           out <= AvailableLiquidity(l, x, f)
    PROVE  /\ out <= l
           /\ Limits(l - out, x + out, f, e)
<1>1. ReserveFloor(l + x, f) \in Nat
  <2>1. l + x \in Nat /\ f \in Nat /\ BPS_DENOMINATOR \in Nat \ {0}
    BY BpsAssumption DEF Bps
  <2>2. MulDivCeil(l + x, f, BPS_DENOMINATOR) \in Nat
    BY <2>1, QuotientTypes
  <2> QED
    BY <2>2 DEF ReserveFloor
<1>2. out <= l - ReserveFloor(l + x, f)
  BY <1>1 DEF AvailableLiquidity, Monus
<1>3. l - out + (x + out) = l + x
  OBVIOUS
<1> QED
  BY <1>1, <1>2, <1>3 DEF Limits

\* What withdrawableLiquidity lets go leaves the vault within its limits.
LEMMA LimitsSurviveWithdrawal ==
    ASSUME NEW l \in Nat, NEW x \in Nat, NEW f \in Bps, NEW e \in Bps,
           NEW a \in Nat \ {0}, a <= l,
           a <= WithdrawableLiquidity(l, x, f, e)
    PROVE  Limits(l - a, x, f, e)
<1> USE BpsAssumption DEF Bps
<1>1. CASE x = 0
  <2>1. (l - a) * f <= (l - a) * BPS_DENOMINATOR
    OBVIOUS
  <2>2. 0 <= (l - a) * e
    OBVIOUS
  <2> QED
    BY <1>1, <2>1, <2>2, LimitsMean
<1>2. CASE x # 0
  <2> DEFINE r == l - a
  <2>1. f < BPS_DENOMINATOR /\ e # 0
    BY <1>2 DEF WithdrawableLiquidity, RetainsEverything
  <2>a. /\ r \in Nat /\ f \in Nat /\ e \in Nat \ {0}
        /\ BPS_DENOMINATOR - f \in Nat \ {0} /\ BPS_DENOMINATOR - e \in Nat
    BY <2>1
  <2>2. /\ RetainedForFloor(x, f) \in Nat
        /\ RetainedForFloor(x, f) <= r <=> x * f <= r * (BPS_DENOMINATOR - f)
    BY <2>a, CeilMeans, QuotientTypes DEF RetainedForFloor
  <2>3. /\ RetainedForCap(x, e) \in Nat
        /\ RetainedForCap(x, e) <= r <=> x * (BPS_DENOMINATOR - e) <= r * e
    BY <2>a, CeilMeans, QuotientTypes DEF RetainedForCap
  <2>4. RetainedForFloor(x, f) <= r /\ RetainedForCap(x, e) <= r
    BY <1>2, <2>1, <2>2, <2>3
    DEF WithdrawableLiquidity, RetainsEverything, MinLiquidRetained, Monus
  <2>5. x * f <= r * (BPS_DENOMINATOR - f) /\ x * (BPS_DENOMINATOR - e) <= r * e
    BY <2>2, <2>3, <2>4
  <2>6. r \in Nat
    OBVIOUS
  <2> HIDE DEF r
  <2>7. (r + x) * f <= r * BPS_DENOMINATOR
    BY <2>5, <2>6
  <2>8. x * BPS_DENOMINATOR <= (r + x) * e
    BY <2>5, <2>6
  <2>9. Limits(r, x, f, e)
    BY <2>6, <2>7, <2>8, LimitsMean
  <2> QED
    BY <2>9 DEF r
<1> QED
  BY <1>1, <1>2

\* The protocol never takes more than the fee it shares in.
LEMMA ShareWithinFee ==
    ASSUME NEW fee \in Nat, NEW s \in Bps
    PROVE  ProtocolShare(fee, s) \in 0 .. fee
<1> USE BpsAssumption DEF Bps
<1> DEFINE share == MulDivFloor(fee, s, BPS_DENOMINATOR)
<1>1. share \in Nat
  BY QuotientTypes
<1>2. share * BPS_DENOMINATOR <= fee * s
  BY <1>1, FloorMeans
<1>3. fee * s <= fee * BPS_DENOMINATOR
  OBVIOUS
<1>4. share <= fee
  <2> HIDE DEF share
  <2>1. share * BPS_DENOMINATOR <= fee * BPS_DENOMINATOR
    BY <1>1, <1>2, <1>3, ProductType
  <2> QED
    BY <1>1, <2>1, ProductReflects
<1> QED
  BY <1>1, <1>4 DEF ProtocolShare
=============================================================================
