-------------------------- MODULE IntentLifecycle ---------------------------
(***************************************************************************)
(* What Arcaidia promises of one transfer, without vaults' books, CCTP     *)
(* messages, parked funds or retries.  An intent is pending until exactly  *)
(* one of two things pays its recipient: a vault that wins it advances the *)
(* money, or canonical settlement delivers it.  A winner is repaid at most *)
(* once, and only the winner is repaid.                                    *)
(*                                                                         *)
(* SolverFeeCap and CctpFeeCap bound what the recipient may lose to a fast *)
(* fill's fee and to the transport's fee.                                  *)
(***************************************************************************)
EXTENDS Naturals

CONSTANTS Intents, Vaults, NoVault, Amount, SolverFeeCap, CctpFeeCap

VARIABLES status, winner, got

vars == <<status, winner, got>>

Statuses == {"absent", "pending", "advanced", "repaid", "fallback"}

Init ==
    /\ status = [i \in Intents |-> "absent"]
    /\ winner = [i \in Intents |-> NoVault]
    /\ got    = [i \in Intents |-> 0]

Move(i, from, to) ==
    /\ status[i] = from
    /\ status' = [status EXCEPT ![i] = to]

\* The recipient receives the amount less at most cap, and never nothing.
Receive(i, cap) ==
    \E paidOut \in 1 .. Amount[i] :
        /\ paidOut + cap >= Amount[i]
        /\ got' = [got EXCEPT ![i] = paidOut]

Create(i) ==
    /\ Move(i, "absent", "pending")
    /\ UNCHANGED <<winner, got>>

Advance(i, v) ==
    /\ Move(i, "pending", "advanced")
    /\ winner' = [winner EXCEPT ![i] = v]
    /\ Receive(i, SolverFeeCap[i])

Repay(i) ==
    /\ Move(i, "advanced", "repaid")
    /\ UNCHANGED <<winner, got>>

Deliver(i) ==
    /\ Move(i, "pending", "fallback")
    /\ UNCHANGED winner
    /\ Receive(i, CctpFeeCap[i])

Next ==
    \E i \in Intents :
        \/ Create(i)
        \/ \E v \in Vaults : Advance(i, v)
        \/ Repay(i)
        \/ Deliver(i)

Spec == Init /\ [][Next]_vars
=============================================================================
