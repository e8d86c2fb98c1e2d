--------------------------- MODULE MCIntentViews ----------------------------
(* Two intents, of which a page of the relay or the worker shows one. *)
EXTENDS IntentViews, TLC

CONSTANTS live, retired

MCPageSize == "health" :> 2 @@ "discovery" :> 1 @@ "intelligence" :> 1

MCShortPages == [k \in {"health", "discovery", "intelligence"} |-> 1]
=============================================================================
