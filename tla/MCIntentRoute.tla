--------------------------- MODULE MCIntentRoute ----------------------------
(* One route whose receiver is replaced once. *)
EXTENDS IntentRoute, TLC

CONSTANTS i1, v1, v2, old, new, m1, m2

MCAmount == [i \in Intents |-> 2]

\* The market in use was made with the old receiver; the replacement reads the
\* same one.  A second market, of another deployment, was made with the new.
MCCheckOf  == [m \in Markets |-> IF m = m1 THEN old ELSE new]
MCMarketOf == [r \in Receivers |-> m1]

MCLimits == {[intent |-> 2, inFlight |-> 2]}
=============================================================================
