-------------------------- MODULE MCFastSettlement --------------------------
(* Small instances of FastSettlement: ten basis points to the whole. *)
EXTENDS FastSettlement, TLC

CONSTANTS i1, i2, v1, v2

\* Two intents, small enough that both fit one vault's limits and
\* large enough that the fee steps and the rounding differ between them.
MCAmount == (i1 :> 4) @@ (i2 :> 3)

MCMaxFeeBps == [i \in Intents |-> 5]

MCPolicy == [base |-> 2, mid |-> 3, high |-> 4, critical |-> 5,
             midAt |-> 3, highAt |-> 5, criticalAt |-> 8]

MCConfig ==
    [v \in Vaults |->
        [floorBps |-> 1, fillBps |-> 6, exposureBps |-> 7, shareBps |-> 5,
         policy |-> MCPolicy]]

\* Standard transfers are free; a fast transfer of a hooked intent may cost 1.
MCNoCctpFee  == [i \in Intents |-> 0]
MCOneCctpFee == [i \in Intents |-> IF i \in Hooked THEN 1 ELSE 0]

VaultSymmetry == Permutations(Vaults)
=============================================================================
