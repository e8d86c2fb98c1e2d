-------------------------- MODULE CanonicalDelivery -------------------------
(***************************************************************************)
(* How the canonical money of an intent reaches the party it is owed to,   *)
(* whoever carries it: burned, attested, received on the destination chain *)
(* and routed there, each once.  The mint of a hooked burn is routed as it *)
(* is received; a hookless mint lies in the receiver until it is routed.   *)
(* The receiver (FastSettlement) and the worker (SettlementWorker) both    *)
(* implement this.                                                         *)
(***************************************************************************)
CONSTANTS Intents, Hooked

VARIABLES stage, routed

vars == <<stage, routed>>

Stages == {"none", "burned", "attested", "received"}

Init ==
    /\ stage = [i \in Intents |-> "none"]
    /\ routed = {}

Move(i, from, to) ==
    /\ stage[i] = from
    /\ stage' = [stage EXCEPT ![i] = to]

Burn(i) == Move(i, "none", "burned") /\ UNCHANGED routed

Attest(i) == Move(i, "burned", "attested") /\ UNCHANGED routed

ReceiveAndRoute(i) ==
    /\ i \in Hooked
    /\ Move(i, "attested", "received")
    /\ i \notin routed
    /\ routed' = routed \cup {i}

Receive(i) ==
    /\ i \notin Hooked
    /\ Move(i, "attested", "received")
    /\ UNCHANGED routed

RouteReceived(i) ==
    /\ i \notin Hooked \cup routed
    /\ stage[i] = "received"
    /\ routed' = routed \cup {i}
    /\ UNCHANGED stage

Next ==
    \E i \in Intents :
        \/ Burn(i)
        \/ Attest(i)
        \/ ReceiveAndRoute(i)
        \/ Receive(i)
        \/ RouteReceived(i)

Spec == Init /\ [][Next]_vars
=============================================================================
