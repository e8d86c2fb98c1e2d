------------------------- MODULE MCSettlementWorker -------------------------
(* Small instances of SettlementWorker. *)
EXTENDS SettlementWorker, TLC

CONSTANTS i1, i2, w1, w2, retired, live

MCAmount == [i \in Intents |-> 1]

\* Every worker settles where every burn mints.
MCMintsToLive == [i \in Intents |-> live]
MCUsesLive    == [w \in Workers |-> live]

\* The receiver was replaced after i1 was burned.
MCMintsAcrossReplacement == (i1 :> retired) @@ (i2 :> live)

WorkerSymmetry == Permutations(Workers)
=============================================================================
