----------------------------- MODULE MCSubgraph -----------------------------
(* A small indexed vault for TLC: percentages in quarters. *)
EXTENDS Subgraph, TLC

CONSTANTS lp1, lp2, i1, i2

MCAmount    == i1 :> 4 @@ i2 :> 3
MCMaxFeeBps == i1 :> 2 @@ i2 :> 1

MCPolicy ==
    [base |-> 1, mid |-> 2, high |-> 2, critical |-> 3,
     midAt |-> 1, highAt |-> 2, criticalAt |-> 4]

\* Every tier at the protocol's ceiling, as test/FeePolicyLib.t.sol allows it.
MCCeilingPolicy ==
    [base |-> 2, mid |-> 2, high |-> 2, critical |-> 2,
     midAt |-> 1, highAt |-> 2, criticalAt |-> 4]

\* Tiers out of order; limits above what the vault ever allows.
MCRiskPolicy ==
    [maxFill |-> 8, slowMaxFill |-> 3, maxExposure |-> 8,
     backlogRejectValue |-> 5, maxOldestAge |-> 1, maxObservationAge |-> 1,
     tiers |-> <<[upTo |-> 4, confirmations |-> 3],
                 [upTo |-> 2, confirmations |-> 1]>>]

Created(f, x, e) == [floor |-> f, fill |-> x, exposure |-> e]

\* The cap on exposure binds; the owner may loosen it, or tighten the others.
MCCreationLimits == {Created(1, 3, 1)}
MCCreatedLoose   == {Created(1, 3, 3)}
MCCreatedHalf    == {Created(2, 2, 2)}
MCCreatedTenths  == {Created(1, 9, 9)}

LpSymmetry == Permutations(LPs)
=============================================================================
