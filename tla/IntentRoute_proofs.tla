------------------------- MODULE IntentRoute_proofs -------------------------
(***************************************************************************)
(* The route while its receiver is replaced.  The invariant says what ties *)
(* its parts together however they are rewired: an intent has an outcome   *)
(* only at the receiver its burn is bound to (OutcomesAtBound), and a fill *)
(* made on the route is the one the market that receiver reads has on      *)
(* record, for good (OnRouteWins), and comes before any payment by the     *)
(* receiver (OnRouteFirst).  The router's running total is the amounts     *)
(* committed less those released (FlowAddsUp).                             *)
(***************************************************************************)
EXTENDS IntentRoute, Arithmetic_proofs

OutcomesAtBound ==
    \A r \in Receivers, i \in Intents : outcome[r][i] # "NONE" => boundTo[i] = r

OnRouteWins ==
    \A v \in Vaults, i \in Intents :
        <<v, i>> \in onRoute
            => /\ i \in filled[v]
               /\ Exists(i)
               /\ filledBy[MarketOf[boundTo[i]]][i] = v

OnRouteFirst ==
    \A v \in Vaults, i \in Intents :
        <<v, i>> \in onRoute => outcome[boundTo[i]][i] # "RECIPIENT_FALLBACK"

Ties == OutcomesAtBound /\ OnRouteWins /\ OnRouteFirst /\ OnRouteIsBacked

Committed == [i \in Intents |-> IF Exists(i) THEN Amount[i] ELSE 0]

FlowAddsUp == totalInFlight + Total(released) = Total(Committed)

RouteInv == TypeOK /\ Ties /\ FlowAddsUp

tieVars  == <<boundTo, outcome, heldFor, filledBy, filled, owed, onRoute>>
flowVars == <<totalInFlight, released, boundTo>>

-----------------------------------------------------------------------------
(* What most steps leave alone. *)

LEMMA TiesUntouched ==
    ASSUME Ties, UNCHANGED tieVars
    PROVE  Ties'
  BY DEF Ties, tieVars, OutcomesAtBound, OnRouteWins, OnRouteFirst,
         OnRouteIsBacked, Waiting, IsSettled, Exists

LEMMA FlowUntouched ==
    ASSUME FlowAddsUp, UNCHANGED flowVars
    PROVE  FlowAddsUp'
<1>1. Committed' = Committed /\ UNCHANGED <<totalInFlight, released>>
  BY DEF Committed, Exists, flowVars
<1> QED
  BY <1>1 DEF FlowAddsUp

-----------------------------------------------------------------------------
(* The router. *)

LEMMA CreateIntentStep ==
    ASSUME RouteInv, NEW i \in Intents, CreateIntent(i)
    PROVE  RouteInv'
<1>1. /\ boundTo[i] = Nobody /\ destination \in Receivers
      /\ boundTo' = [boundTo EXCEPT ![i] = destination]
      /\ message' = [message EXCEPT ![i] = "burned"]
      /\ totalInFlight' = totalInFlight + Amount[i]
      /\ UNCHANGED <<destination, domainSet, routerPaused, tradesAllowed, limits,
                     released, receiverVars, vaultVars, bookVars, refused>>
  BY DEF CreateIntent, Commit, Exists, RouteInv, TypeOK
<1>2. /\ boundTo \in [Intents -> Receivers \cup {Nobody}]
      /\ message \in [Intents -> Messages] /\ totalInFlight \in Nat
      /\ Amount[i] \in Nat \ {0} /\ Nobody \notin Receivers
  BY AmountAssumption, AddressAssumption DEF RouteInv, TypeOK
<1>3. TypeOK'
  <2>1. /\ boundTo' \in [Intents -> Receivers \cup {Nobody}]
        /\ message' \in [Intents -> Messages] /\ totalInFlight' \in Nat
    BY <1>1, <1>2 DEF Messages
  <2> QED
    BY <1>1, <2>1 DEF RouteInv, TypeOK, receiverVars, vaultVars, bookVars
<1>4. Ties'
  <2>1. \A j \in Intents : j # i => boundTo'[j] = boundTo[j]
    BY <1>1, <1>2
  <2>2. \A v \in Vaults : <<v, i>> \notin onRoute
    BY <1>1 DEF RouteInv, Ties, OnRouteWins, Exists
  <2>3. \A r \in Receivers : outcome[r][i] = "NONE"
    BY <1>1, <1>2 DEF RouteInv, Ties, OutcomesAtBound
  <2>4. UNCHANGED <<outcome, heldFor, filledBy, filled, owed, onRoute>>
    BY <1>1 DEF receiverVars, bookVars
  <2>5. OutcomesAtBound' /\ OnRouteWins' /\ OnRouteFirst'
    BY <2>1, <2>2, <2>3, <2>4
    DEF RouteInv, Ties, OutcomesAtBound, OnRouteWins, OnRouteFirst, Exists
  <2>6. OnRouteIsBacked'
    BY <2>1, <2>2, <2>4
    DEF RouteInv, Ties, OnRouteIsBacked, Waiting, IsSettled, Exists
  <2> QED
    BY <2>5, <2>6 DEF Ties
<1>5. FlowAddsUp'
  <2>1. Committed \in [Intents -> Nat] /\ Committed[i] = 0
    BY <1>1, AmountAssumption DEF Committed, Exists
  <2>2. Committed' = [Committed EXCEPT ![i] = Amount[i]]
    BY <1>1, <1>2 DEF Committed, Exists
  <2>a. Total([Committed EXCEPT ![i] = Amount[i]])
            = Total(Committed) - Committed[i] + Amount[i]
    <3>1. Amount[i] \in Nat /\ IsFiniteSet(Intents)
      BY <1>2, AddressAssumption
    <3> QED
      BY ONLY <2>1, <3>1, TotalOfUpdate, i \in Intents
  <2>3. Total(Committed') = Total(Committed) - Committed[i] + Amount[i]
    BY <2>2, <2>a
  <2>4. Total(Committed) \in Nat /\ Total(released) \in Nat
    BY <2>1, TotalType, AddressAssumption DEF RouteInv, TypeOK
  <2> QED
    BY <1>1, <1>2, <2>1, <2>3, <2>4 DEF RouteInv, FlowAddsUp
<1> QED
  BY <1>3, <1>4, <1>5 DEF RouteInv

LEMMA ReleaseStep ==
    ASSUME RouteInv, NEW i \in Intents, NEW n \in 1 .. Amount[i],
           ReleaseInFlight(i, n)
    PROVE  RouteInv'
<1>1. /\ n \in Nat /\ n <= totalInFlight /\ totalInFlight' = totalInFlight - n
      /\ released' = [released EXCEPT ![i] = released[i] + n]
      /\ UNCHANGED <<destination, domainSet, routerPaused, tradesAllowed, limits,
                     messageVars, receiverVars, vaultVars, bookVars, refused>>
  BY AmountAssumption DEF ReleaseInFlight
<1>2. /\ totalInFlight \in Nat /\ released \in [Intents -> Nat]
      /\ released[i] \in Nat
  BY DEF RouteInv, TypeOK
<1>3. TypeOK'
  <2>1. totalInFlight' \in Nat /\ released' \in [Intents -> Nat]
    BY <1>1, <1>2
  <2> QED
    BY <1>1, <2>1
    DEF RouteInv, TypeOK, messageVars, receiverVars, vaultVars, bookVars
<1>4. Ties'
  BY <1>1, TiesUntouched
  DEF RouteInv, tieVars, messageVars, receiverVars, bookVars
<1>5. FlowAddsUp'
  <2>1. released[i] + n \in Nat
    BY <1>1, <1>2
  <2>a. Total([released EXCEPT ![i] = released[i] + n])
            = Total(released) - released[i] + (released[i] + n)
    <3>1. IsFiniteSet(Intents) /\ released \in [Intents -> Nat]
      BY <1>2, AddressAssumption
    <3> QED
      BY ONLY <3>1, <2>1, TotalOfUpdate, i \in Intents
  <2>2. Total(released') = Total(released) - released[i] + (released[i] + n)
    BY <1>1, <2>a
  <2>3. Committed' = Committed
    BY <1>1 DEF Committed, Exists, messageVars
  <2>4. Total(released) \in Nat
    BY <1>2, TotalType, AddressAssumption
  <2> QED
    BY <1>1, <1>2, <2>2, <2>3, <2>4 DEF RouteInv, FlowAddsUp
<1> QED
  BY <1>3, <1>4, <1>5 DEF RouteInv

\* Settings, messages, wiring and deployments touch nothing the ties are about.
LEMMA QuietStep ==
    ASSUME RouteInv,
           \/ RouterSetting
           \/ \E i \in Intents : Attest(i) \/ Expire(i) \/ Reattest(i) \/ Block(i)
           \/ \E v \in Vaults :
                 \/ CreateVault(v)
                 \/ \E r \in Receivers : SetSettlementReceiver(v, r)
                 \/ \E m \in Markets : SetMarket(v, m)
           \/ \E r \in Receivers : DeployReceiver(r)
           \/ UNCHANGED vars
    PROVE  RouteInv'
<1>1. UNCHANGED <<tieVars, flowVars>>
  BY DEF RouterSetting, Attest, Expire, Reattest, MessageMoves, Block,
         CreateVault, SetSettlementReceiver, SetMarket, DeployReceiver, vars,
         tieVars, flowVars, routerVars, messageVars, receiverVars, vaultVars,
         bookVars
<1>2. Ties' /\ FlowAddsUp'
  BY <1>1, TiesUntouched, FlowUntouched DEF RouteInv
<1>3. CASE RouterSetting
  <2>1. TypeOK'
    BY <1>3 DEF RouteInv, TypeOK, RouterSetting, messageVars, receiverVars,
                vaultVars, bookVars
  <2> QED
    BY <1>2, <2>1 DEF RouteInv
<1>4. ASSUME NEW i \in Intents, NEW from \in Messages, NEW to \in Messages,
             MessageMoves(i, from, to)
      PROVE  TypeOK'
  <2>1. message' \in [Intents -> Messages]
    BY <1>4 DEF MessageMoves, RouteInv, TypeOK
  <2> QED
    BY <1>4, <2>1 DEF RouteInv, TypeOK, MessageMoves, routerVars, receiverVars,
                      vaultVars, bookVars
<1>5. ASSUME NEW i \in Intents, Attest(i) \/ Expire(i) \/ Reattest(i)
      PROVE  TypeOK'
  BY <1>4, <1>5 DEF Attest, Expire, Reattest, Messages
<1>6. ASSUME NEW i \in Intents, Block(i) PROVE TypeOK'
  BY <1>6 DEF RouteInv, TypeOK, Block, routerVars, messageVars, receiverVars,
              vaultVars, bookVars
<1>7. ASSUME NEW v \in Vaults, CreateVault(v) PROVE TypeOK'
  <2>1. FactoryReceiver \in Receivers /\ FactoryMarket \in Markets
    BY AddressAssumption
  <2>2. /\ isFactoryVault' \subseteq Vaults
        /\ wiredTo' \in [Vaults -> Receivers \cup {Nobody}]
        /\ trades' \in [Vaults -> Markets \cup {Nobody}]
    BY <1>7, <2>1 DEF RouteInv, TypeOK, CreateVault
  <2> QED
    BY <1>7, <2>2 DEF RouteInv, TypeOK, CreateVault, routerVars, messageVars,
                      receiverVars, bookVars
<1>8. ASSUME NEW v \in Vaults, NEW r \in Receivers, SetSettlementReceiver(v, r)
      PROVE  TypeOK'
  <2>1. wiredTo' \in [Vaults -> Receivers \cup {Nobody}]
    BY <1>8 DEF RouteInv, TypeOK, SetSettlementReceiver
  <2> QED
    BY <1>8, <2>1 DEF RouteInv, TypeOK, SetSettlementReceiver, routerVars,
                      messageVars, receiverVars, bookVars
<1>9. ASSUME NEW v \in Vaults, NEW m \in Markets, SetMarket(v, m)
      PROVE  TypeOK'
  <2>1. trades' \in [Vaults -> Markets \cup {Nobody}]
    BY <1>9 DEF RouteInv, TypeOK, SetMarket
  <2> QED
    BY <1>9, <2>1 DEF RouteInv, TypeOK, SetMarket, routerVars, messageVars,
                      receiverVars, bookVars
<1>10. ASSUME NEW r \in Receivers, DeployReceiver(r) PROVE TypeOK'
  BY <1>10 DEF RouteInv, TypeOK, DeployReceiver, routerVars, messageVars,
               vaultVars, bookVars
<1>11. ASSUME UNCHANGED vars PROVE TypeOK'
  <2>1. UNCHANGED <<destination, domainSet, routerPaused, tradesAllowed, limits,
                    totalInFlight, boundTo, message, deployed, outcome, heldFor,
                    filledBy, isFactoryVault, wiredTo, trades, filled, owed,
                    refused, released, onRoute>>
    BY <1>11 DEF vars, routerVars, messageVars, receiverVars, vaultVars, bookVars
  <2> QED
    BY <2>1 DEF RouteInv, TypeOK
<1>12. TypeOK'
  BY <1>3, <1>5, <1>6, <1>7, <1>8, <1>9, <1>10, <1>11
     DEF RouteInv, TypeOK, RouterSetting, messageVars, receiverVars, vaultVars,
         bookVars
<1> QED
  BY <1>2, <1>12 DEF RouteInv

-----------------------------------------------------------------------------
(* Fills and deliveries. *)

LEMMA FastFillStep ==
    ASSUME RouteInv, NEW v \in Vaults, NEW i \in Intents, FastFill(v, i)
    PROVE  RouteInv'
<1> DEFINE m == trades[v]
<1>1. /\ Exists(i) /\ i \notin filled[v]
      /\ filledBy[m][i] = Nobody
      /\ filledBy' = [filledBy EXCEPT ![m][i] = v]
      /\ outcome[wiredTo[v]][i] = "NONE"
      /\ filled' = [filled EXCEPT ![v] = filled[v] \cup {i}]
      /\ owed' = [owed EXCEPT ![v] = owed[v] \cup {i}]
      /\ onRoute' = IF IsOnRoute(v, i) THEN onRoute \cup {<<v, i>>} ELSE onRoute
  BY DEF FastFill, ClaimIntent, UnsettledForVault
<1>2. UNCHANGED <<routerVars, messageVars, receiverVars, vaultVars, refused>>
  BY DEF FastFill
<1>3. /\ filledBy \in [Markets -> [Intents -> Vaults \cup {Nobody}]]
      /\ filled \in [Vaults -> SUBSET Intents]
      /\ owed \in [Vaults -> SUBSET Intents]
      /\ onRoute \subseteq Vaults \X Intents
      /\ boundTo \in [Intents -> Receivers \cup {Nobody}]
      /\ MarketOf \in [Receivers -> Markets]
      /\ Nobody \notin Vaults
  BY AddressAssumption DEF RouteInv, TypeOK
<1>4. TypeOK'
  <2>1. filledBy' \in [Markets -> [Intents -> Vaults \cup {Nobody}]]
    BY <1>1, <1>3
  <2>2. filled' \in [Vaults -> SUBSET Intents] /\ owed' \in [Vaults -> SUBSET Intents]
    BY <1>1, <1>3
  <2>3. onRoute' \subseteq Vaults \X Intents
    BY <1>1, <1>3
  <2> QED
    BY <1>2, <2>1, <2>2, <2>3
    DEF RouteInv, TypeOK, routerVars, messageVars, receiverVars, vaultVars
<1>5. UNCHANGED <<outcome, heldFor, boundTo, totalInFlight, released>>
  BY <1>2 DEF routerVars, messageVars, receiverVars
<1>6. \A n \in Markets, w \in Vaults, j \in Intents :
         filledBy[n][j] = w => filledBy'[n][j] = w
  BY <1>1, <1>3
<1>7. ASSUME IsOnRoute(v, i)
      PROVE  /\ boundTo[i] \in Receivers /\ outcome[boundTo[i]][i] = "NONE"
             /\ filledBy'[MarketOf[boundTo[i]]][i] = v
  <2>1. boundTo[i] \in Receivers /\ outcome[boundTo[i]][i] = "NONE"
    BY <1>1, <1>3, <1>7 DEF IsOnRoute, Exists
  <2>2. m = MarketOf[boundTo[i]] /\ m \in Markets
    BY <1>3, <1>7, <2>1 DEF IsOnRoute
  <2>3. filledBy'[m][i] = v
    BY <1>1, <1>3, <2>2
  <2> QED
    BY <2>1, <2>2, <2>3
<1>8. Ties'
  <2>1. OutcomesAtBound'
    BY <1>5 DEF RouteInv, Ties, OutcomesAtBound
  <2>2. OnRouteWins'
    <3> SUFFICES ASSUME NEW w \in Vaults, NEW j \in Intents, <<w, j>> \in onRoute'
                 PROVE  /\ j \in filled'[w] /\ Exists(j)'
                        /\ filledBy'[MarketOf[boundTo[j]]][j] = w
      BY <1>5 DEF OnRouteWins
    <3>1. CASE <<w, j>> \in onRoute
      <4>1. /\ j \in filled[w] /\ Exists(j)
            /\ filledBy[MarketOf[boundTo[j]]][j] = w
        BY <3>1 DEF RouteInv, Ties, OnRouteWins
      <4>2. MarketOf[boundTo[j]] \in Markets
        BY <1>3, <4>1 DEF Exists
      <4>3. j \in filled'[w]
        BY <1>1, <1>3, <4>1
      <4> QED
        BY <1>5, <1>6, <4>1, <4>2, <4>3 DEF Exists
    <3>2. CASE <<w, j>> \notin onRoute
      <4>1. IsOnRoute(v, i) /\ w = v /\ j = i
        BY <1>1, <3>2
      <4>2. i \in filled'[v]
        BY <1>1, <1>3
      <4> QED
        BY <1>1, <1>5, <1>7, <4>1, <4>2 DEF Exists
    <3> QED
      BY <3>1, <3>2
  <2>3. OnRouteFirst'
    <3> SUFFICES ASSUME NEW w \in Vaults, NEW j \in Intents, <<w, j>> \in onRoute'
                 PROVE  outcome[boundTo[j]][j] # "RECIPIENT_FALLBACK"
      BY <1>5 DEF OnRouteFirst
    <3>1. CASE <<w, j>> \in onRoute
      BY <3>1 DEF RouteInv, Ties, OnRouteFirst
    <3>2. CASE <<w, j>> \notin onRoute
      BY <1>1, <1>7, <3>2
    <3> QED
      BY <3>1, <3>2
  <2>4. OnRouteIsBacked'
    <3> SUFFICES ASSUME NEW w \in Vaults, NEW j \in Intents,
                        <<w, j>> \in onRoute', j \in owed'[w]
                 PROVE  Waiting(w, j)
      BY <1>5 DEF OnRouteIsBacked, Waiting, IsSettled, Exists
    <3>1. CASE <<w, j>> \in onRoute
      <4>1. j \in filled[w]
        BY <3>1 DEF RouteInv, Ties, OnRouteWins
      <4>2. j \in owed[w]
        BY <1>1, <1>3, <4>1
      <4> QED
        BY <3>1, <4>2 DEF RouteInv, Ties, OnRouteIsBacked
    <3>2. CASE <<w, j>> \notin onRoute
      BY <1>1, <1>7, <3>2 DEF Waiting, IsSettled
    <3> QED
      BY <3>1, <3>2
  <2> QED
    BY <2>1, <2>2, <2>3, <2>4 DEF Ties
<1>9. FlowAddsUp'
  BY <1>5, FlowUntouched DEF RouteInv, flowVars
<1> QED
  BY <1>4, <1>8, <1>9 DEF RouteInv

\* What a delivery or a retry at r may do to the books of an intent: its money
\* goes to one vault's credit, or is held for one, or to its recipient.
Disposed(r, i, w, o) ==
    /\ outcome' = [outcome EXCEPT ![r][i] = o]
    /\ heldFor' \in [Receivers -> [Intents -> Vaults \cup {Nobody}]]
    /\ \A q \in Receivers, j \in Intents : j # i => heldFor'[q][j] = heldFor[q][j]
    /\ owed' \in [Vaults -> SUBSET Intents]
    /\ \A x \in Vaults : owed'[x] \subseteq owed[x]
    /\ \/ o = "LP_REIMBURSED" /\ (w \in Vaults => i \notin owed'[w])
       \/ o = "HELD_FOR_VAULT" /\ heldFor'[r][i] = w
       \/ o = "RECIPIENT_FALLBACK" /\ w = Nobody

LEMMA DisposedKeepsTies ==
    ASSUME RouteInv, NEW i \in Intents, NEW r \in Receivers, r = boundTo[i],
           NEW w \in Vaults \cup {Nobody}, NEW o \in Outcomes,
           Disposed(r, i, w, o),
           \A v \in Vaults : <<v, i>> \in onRoute /\ i \in owed[v] => v = w,
           o = "RECIPIENT_FALLBACK" => \A v \in Vaults : <<v, i>> \notin onRoute,
           UNCHANGED <<boundTo, filledBy, filled, onRoute>>
    PROVE  Ties'
<1>1. outcome \in [Receivers -> [Intents -> Outcomes]]
  BY DEF RouteInv, TypeOK
<1>2. /\ outcome' = [outcome EXCEPT ![r][i] = o]
      /\ outcome'[r][i] = o
      /\ \A q \in Receivers, j \in Intents :
            j # i \/ q # r => outcome'[q][j] = outcome[q][j]
  BY <1>1 DEF Disposed
<1>3. boundTo \in [Intents -> Receivers \cup {Nobody}] /\ Nobody \notin Receivers
      /\ Nobody \notin Vaults
  BY AddressAssumption DEF RouteInv, TypeOK
<1>4. OutcomesAtBound'
  BY <1>2 DEF RouteInv, Ties, OutcomesAtBound
<1>5. OnRouteWins'
  BY DEF RouteInv, Ties, OnRouteWins, Exists
<1>6. OnRouteFirst'
  <2> SUFFICES ASSUME NEW v \in Vaults, NEW j \in Intents, <<v, j>> \in onRoute
               PROVE  outcome'[boundTo[j]][j] # "RECIPIENT_FALLBACK"
    BY DEF OnRouteFirst
  <2>1. CASE j = i
    BY <1>2, <2>1
  <2>2. CASE j # i
    <3>1. boundTo[j] \in Receivers
      BY <1>3 DEF RouteInv, Ties, OnRouteWins, Exists
    <3> QED
      BY <1>2, <2>2, <3>1 DEF RouteInv, Ties, OnRouteFirst
  <2> QED
    BY <2>1, <2>2
<1>7. OnRouteIsBacked'
  <2> SUFFICES ASSUME NEW v \in Vaults, NEW j \in Intents,
                      <<v, j>> \in onRoute, j \in owed'[v]
               PROVE  Waiting(v, j)'
    BY DEF OnRouteIsBacked
  <2>1. j \in owed[v] /\ boundTo[j] \in Receivers
    BY <1>3 DEF Disposed, RouteInv, Ties, OnRouteWins, Exists
  <2>2. CASE j = i
    <3>1. v = w /\ w \in Vaults
      BY <2>1, <2>2
    <3>2. o = "HELD_FOR_VAULT" /\ heldFor'[r][i] = w
      BY <1>3, <2>2, <3>1 DEF Disposed
    <3> QED
      BY <1>2, <2>2, <3>1, <3>2 DEF Waiting
  <2>3. CASE j # i
    <3>1. Waiting(v, j)
      BY <2>1 DEF RouteInv, Ties, OnRouteIsBacked
    <3>2. /\ outcome'[boundTo[j]][j] = outcome[boundTo[j]][j]
          /\ heldFor'[boundTo[j]][j] = heldFor[boundTo[j]][j]
      BY <1>2, <2>1, <2>3 DEF Disposed
    <3> QED
      BY <3>1, <3>2 DEF Waiting, IsSettled, Exists
  <2> QED
    BY <2>2, <2>3
<1> QED
  BY <1>4, <1>5, <1>6, <1>7 DEF Ties

LEMMA SettleWithProofStep ==
    ASSUME RouteInv, NEW i \in Intents, SettleWithProof(i)
    PROVE  RouteInv'
<1> DEFINE r == boundTo[i]
           winner == filledBy[MarketOf[r]][i]
<1>1. /\ r \in deployed /\ outcome[r][i] = "NONE" /\ Route(r, i)
      /\ message' = [message EXCEPT ![i] = "received"]
      /\ UNCHANGED <<routerVars, boundTo, deployed, vaultVars, filledBy, filled,
                     onRoute, refused>>
  BY DEF SettleWithProof
<1>2. /\ r \in Receivers
      /\ outcome \in [Receivers -> [Intents -> Outcomes]]
      /\ heldFor \in [Receivers -> [Intents -> Vaults \cup {Nobody}]]
      /\ owed \in [Vaults -> SUBSET Intents]
      /\ filledBy \in [Markets -> [Intents -> Vaults \cup {Nobody}]]
      /\ message \in [Intents -> Messages]
      /\ Nobody \notin Vaults
  BY <1>1, AddressAssumption DEF RouteInv, TypeOK
<1>3. winner \in Vaults \cup {Nobody}
  BY <1>2, AddressAssumption
<1>4. \A v \in Vaults : <<v, i>> \in onRoute => v = winner
  BY DEF RouteInv, Ties, OnRouteWins
<1>5. ASSUME NEW o \in Outcomes, Disposed(r, i, winner, o),
             o = "RECIPIENT_FALLBACK" => winner = Nobody
      PROVE  RouteInv'
  <2>1. Ties'
    <3>1. o = "RECIPIENT_FALLBACK" => \A v \in Vaults : <<v, i>> \notin onRoute
      BY <1>2, <1>4, <1>5
    <3>2. UNCHANGED <<boundTo, filledBy, filled, onRoute>>
      BY <1>1
    <3> HIDE DEF r, winner
    <3>3. r = boundTo[i]
      BY DEF r
    <3> QED
      BY <1>2, <1>3, <1>4, <1>5, <3>1, <3>2, <3>3, DisposedKeepsTies
  <2>2. /\ outcome' \in [Receivers -> [Intents -> Outcomes]]
        /\ heldFor' \in [Receivers -> [Intents -> Vaults \cup {Nobody}]]
        /\ owed' \in [Vaults -> SUBSET Intents]
        /\ message' \in [Intents -> Messages]
    BY <1>1, <1>2, <1>5 DEF Disposed, Messages
  <2>3. TypeOK'
    BY <1>1, <2>2 DEF RouteInv, TypeOK, routerVars, vaultVars
  <2>4. FlowAddsUp'
    BY <1>1, FlowUntouched DEF RouteInv, flowVars, routerVars
  <2> QED
    BY <2>1, <2>3, <2>4 DEF RouteInv
<1>6. CASE RouteToWinner(r, i)
  <2>1. /\ outcome' = [outcome EXCEPT ![r][i] = "LP_REIMBURSED"]
        /\ owed' = [owed EXCEPT ![winner] = owed[winner] \ {i}]
        /\ heldFor' = heldFor
        /\ winner \in Vaults
    BY <1>3, <1>6 DEF RouteToWinner, RecordReimbursement
  <2>2. /\ owed' \in [Vaults -> SUBSET Intents]
        /\ \A x \in Vaults : owed'[x] \subseteq owed[x]
        /\ i \notin owed'[winner]
    BY <1>2, <2>1
  <2>3. Disposed(r, i, winner, "LP_REIMBURSED")
    BY <1>2, <2>1, <2>2 DEF Disposed
  <2> QED
    BY <1>5, <2>3 DEF Outcomes
<1>7. CASE RouteToHolding(r, i)
  <2>1. /\ outcome' = [outcome EXCEPT ![r][i] = "HELD_FOR_VAULT"]
        /\ heldFor' = [heldFor EXCEPT ![r][i] = winner]
        /\ owed' = owed
    BY <1>7 DEF RouteToHolding
  <2>2. /\ heldFor' \in [Receivers -> [Intents -> Vaults \cup {Nobody}]]
        /\ heldFor'[r][i] = winner
        /\ \A q \in Receivers, j \in Intents : j # i => heldFor'[q][j] = heldFor[q][j]
    BY <1>2, <1>3, <2>1
  <2>3. Disposed(r, i, winner, "HELD_FOR_VAULT")
    BY <1>2, <2>1, <2>2 DEF Disposed
  <2> QED
    BY <1>5, <2>3 DEF Outcomes
<1>8. CASE RouteToRecipient(r, i)
  <2>1. /\ outcome' = [outcome EXCEPT ![r][i] = "RECIPIENT_FALLBACK"]
        /\ heldFor' = heldFor /\ owed' = owed /\ winner = Nobody
    BY <1>8 DEF RouteToRecipient
  <2>2. Disposed(r, i, winner, "RECIPIENT_FALLBACK")
    BY <1>2, <2>1 DEF Disposed
  <2> QED
    BY <1>5, <2>1, <2>2 DEF Outcomes
<1> QED
  BY <1>1, <1>6, <1>7, <1>8 DEF Route

LEMMA RetryHeldStep ==
    ASSUME RouteInv, NEW r \in Receivers, NEW i \in Intents, RetryHeld(r, i)
    PROVE  RouteInv'
<1> DEFINE vault == heldFor[r][i]
<1>1. /\ outcome[r][i] = "HELD_FOR_VAULT"
      /\ outcome' = [outcome EXCEPT ![r][i] = "LP_REIMBURSED"]
      /\ owed' = [owed EXCEPT ![vault] = owed[vault] \ {i}]
      /\ heldFor' = [heldFor EXCEPT ![r][i] = Nobody]
      /\ UNCHANGED <<routerVars, messageVars, deployed, vaultVars, filledBy,
                     filled, onRoute, refused>>
  BY DEF RetryHeld, RecordReimbursement
<1>2. /\ outcome \in [Receivers -> [Intents -> Outcomes]]
      /\ heldFor \in [Receivers -> [Intents -> Vaults \cup {Nobody}]]
      /\ owed \in [Vaults -> SUBSET Intents]
      /\ Nobody \notin Receivers
  BY AddressAssumption DEF RouteInv, TypeOK
<1>3. boundTo[i] = r
  BY <1>1 DEF RouteInv, Ties, OutcomesAtBound
<1>4. vault \in Vaults \cup {Nobody}
  BY <1>2
<1>5. \A v \in Vaults : <<v, i>> \in onRoute /\ i \in owed[v] => v = vault
  BY <1>1, <1>3, <1>2 DEF RouteInv, Ties, OnRouteIsBacked, Waiting, IsSettled, Exists
<1>6. Disposed(r, i, vault, "LP_REIMBURSED")
  <2>1. /\ owed' \in [Vaults -> SUBSET Intents]
        /\ \A x \in Vaults : owed'[x] \subseteq owed[x]
        /\ vault \in Vaults => i \notin owed'[vault]
    BY <1>1, <1>2, <1>4
  <2>2. /\ heldFor' \in [Receivers -> [Intents -> Vaults \cup {Nobody}]]
        /\ \A q \in Receivers, j \in Intents : j # i => heldFor'[q][j] = heldFor[q][j]
    BY <1>1, <1>2
  <2> QED
    BY <1>1, <2>1, <2>2 DEF Disposed
<1>7. Ties'
  <2>1. UNCHANGED <<boundTo, filledBy, filled, onRoute>>
    BY <1>1 DEF messageVars
  <2> HIDE DEF vault
  <2> QED
    BY <1>3, <1>4, <1>5, <1>6, <2>1, DisposedKeepsTies DEF Outcomes
<1>8. TypeOK'
  <2>1. outcome' \in [Receivers -> [Intents -> Outcomes]]
    BY <1>1, <1>2 DEF Outcomes
  <2> QED
    BY <1>1, <1>6, <2>1
    DEF RouteInv, TypeOK, routerVars, messageVars, vaultVars, Disposed
<1>9. FlowAddsUp'
  BY <1>1, FlowUntouched DEF RouteInv, flowVars, routerVars, messageVars
<1> QED
  BY <1>7, <1>8, <1>9 DEF RouteInv

-----------------------------------------------------------------------------
(* The invariant. *)

LEMMA InitInv == Init => RouteInv
<1> SUFFICES ASSUME Init PROVE RouteInv
  OBVIOUS
<1>1. TypeOK
  BY AddressAssumption DEF Init, TypeOK, Messages, Outcomes
<1>2. Ties
  BY DEF Init, Ties, OutcomesAtBound, OnRouteWins, OnRouteFirst, OnRouteIsBacked
<1>3. FlowAddsUp
  <2>1. Committed = [i \in Intents |-> 0] /\ released = [i \in Intents |-> 0]
    BY DEF Init, Committed, Exists
  <2>2. totalInFlight = 0
    BY DEF Init
  <2>3. Total([i \in Intents |-> 0]) = 0
    BY ONLY TotalOfNothing, AddressAssumption
  <2> QED
    BY <2>1, <2>2, <2>3 DEF FlowAddsUp
<1> QED
  BY <1>1, <1>2, <1>3 DEF RouteInv

LEMMA Inductive == RouteInv /\ [Next]_vars => RouteInv'
<1> SUFFICES ASSUME RouteInv, [Next]_vars PROVE RouteInv'
  OBVIOUS
<1>1. ASSUME NEW i \in Intents, IntentNext(i) PROVE RouteInv'
  BY <1>1, CreateIntentStep, ReleaseStep, QuietStep, SettleWithProofStep,
     RetryHeldStep DEF IntentNext
<1>2. ASSUME NEW v \in Vaults, VaultNext(v) PROVE RouteInv'
  BY <1>2, QuietStep, FastFillStep DEF VaultNext
<1> QED
  BY <1>1, <1>2, QuietStep DEF Next

LEMMA RouteInvariant == Spec => []RouteInv
BY InitInv, Inductive, PTL DEF Spec

-----------------------------------------------------------------------------
(* What the invariant means. *)

\* Every state of a route is well typed, however it is rewired; in particular
\* the router's in-flight total never goes below zero
\* (ArcaidiaIntentRouter.createIntent, releaseInFlight).
THEOREM RouteTypeCorrect == Spec => []TypeOK
<1>1. RouteInv => TypeOK
  BY DEF RouteInv
<1> QED
  BY <1>1, RouteInvariant, PTL

\* What a vault advanced on the route is still to come to it, or held in its
\* name (ArcaidiaLiquidityVault.fastFill against SettlementReceiver._route).
THEOREM AdvancesStayBacked == Spec => []OnRouteIsBacked
<1>1. RouteInv => OnRouteIsBacked
  BY DEF RouteInv, Ties
<1> QED
  BY <1>1, RouteInvariant, PTL

\* Nobody is paid twice but by a vault off the route
\* (ArcaidiaLiquidityVault.sol:696-703, the vault's own settled check).
THEOREM DoublePaymentIsOffRoute == Spec => []PaidTwiceOnlyOffRoute
<1>1. ASSUME RouteInv PROVE PaidTwiceOnlyOffRoute
  <2> SUFFICES ASSUME NEW i \in Intents,
                      NEW p \in PayersOf(i), NEW q \in PayersOf(i), p # q,
                      \A v \in Vaults : i \in filled[v] => <<v, i>> \in onRoute
               PROVE  FALSE
    BY DEF PaidTwiceOnlyOffRoute
  <2>1. ASSUME NEW v \in Vaults, i \in filled[v]
        PROVE  v = filledBy[MarketOf[boundTo[i]]][i]
    BY <1>1, <2>1 DEF RouteInv, Ties, OnRouteWins
  <2>2. ASSUME NEW r \in Receivers, outcome[r][i] = "RECIPIENT_FALLBACK"
        PROVE  r = boundTo[i]
    BY <1>1, <2>2 DEF RouteInv, Ties, OutcomesAtBound
  <2>3. ASSUME NEW v \in Vaults, i \in filled[v],
               NEW r \in Receivers, outcome[r][i] = "RECIPIENT_FALLBACK"
        PROVE  FALSE
    BY <1>1, <2>2, <2>3 DEF RouteInv, Ties, OnRouteFirst
  <2> QED
    BY <2>1, <2>2, <2>3 DEF PayersOf
<1> QED
  BY <1>1, RouteInvariant, PTL

\* Two ledgers that share no account, each within a third, total no more than
\* it does.
LEMMA DisjointLedgers ==
    ASSUME NEW S, IsFiniteSet(S), NEW f \in [S -> Nat], NEW g \in [S -> Nat],
           NEW h \in [S -> Nat],
           \A x \in S : /\ f[x] = 0 \/ g[x] = 0
                        /\ f[x] <= h[x] /\ g[x] <= h[x]
    PROVE  Total(f) + Total(g) <= Total(h)
<1>1. /\ IsFiniteSet(Units(f)) /\ IsFiniteSet(Units(g)) /\ IsFiniteSet(Units(h))
      /\ Total(f) \in Nat /\ Total(g) \in Nat /\ Total(h) \in Nat
  BY TotalType
<1>2. Units(f) \subseteq Units(h) /\ Units(g) \subseteq Units(h)
  BY DEF Units, UnitsOf
<1>3. Units(f) \cap Units(g) = {}
  <2> SUFFICES ASSUME NEW u, u \in Units(f), u \in Units(g) PROVE FALSE
    OBVIOUS
  <2>1. PICK x \in S : u \in {x} \X (1 .. f[x])
    BY DEF Units, UnitsOf
  <2>2. PICK y \in S : u \in {y} \X (1 .. g[y])
    BY DEF Units, UnitsOf
  <2> QED
    BY <2>1, <2>2
<1>4. Cardinality(Units(f) \cup Units(g)) = Total(f) + Total(g)
  <2>1. Cardinality(Units(f) \cup Units(g))
            = Cardinality(Units(f)) + Cardinality(Units(g))
              - Cardinality(Units(f) \cap Units(g))
    BY <1>1, FS_Union
  <2>2. Cardinality(Units(f) \cap Units(g)) = 0
    BY <1>3, FS_EmptySet
  <2> QED
    BY <1>1, <2>1, <2>2 DEF Total
<1>5. Cardinality(Units(f) \cup Units(g)) <= Cardinality(Units(h))
  <2>1. Units(f) \cup Units(g) \in SUBSET Units(h)
    BY <1>2
  <2> QED
    BY <1>1, <2>1, FS_Subset
<1> QED
  BY <1>4, <1>5 DEF Total

\* The router's total covers what has not settled, while the owner releases
\* only what has (ArcaidiaIntentRouter.releaseInFlight).
THEOREM CapCoversUnsettled == Spec => []InFlightCoversUnsettled
<1>1. ASSUME RouteInv PROVE InFlightCoversUnsettled
  <2> SUFFICES ASSUME \A i \in Intents :
                         released[i] <= IF IsSettled(i) THEN Amount[i] ELSE 0
               PROVE  Total(Unsettled) <= totalInFlight
    BY DEF InFlightCoversUnsettled
  <2>1. /\ released \in [Intents -> Nat] /\ Amount \in [Intents -> Nat]
        /\ totalInFlight \in Nat /\ IsFiniteSet(Intents)
    BY <1>1, AmountAssumption, AddressAssumption DEF RouteInv, TypeOK
  <2>2. /\ Unsettled \in [Intents -> Nat] /\ Committed \in [Intents -> Nat]
        /\ \A i \in Intents :
              /\ Unsettled[i] = 0 \/ released[i] = 0
              /\ Unsettled[i] <= Committed[i] /\ released[i] <= Committed[i]
    BY <2>1 DEF Unsettled, Committed, IsSettled
  <2>3. Total(Unsettled) + Total(released) <= Total(Committed)
    BY ONLY <2>1, <2>2, DisjointLedgers
  <2>4. /\ Total(Unsettled) \in Nat /\ Total(released) \in Nat
        /\ Total(Committed) \in Nat
    BY ONLY <2>1, <2>2, TotalType
  <2> QED
    BY <1>1, <2>1, <2>3, <2>4 DEF RouteInv, FlowAddsUp
<1> QED
  BY <1>1, RouteInvariant, PTL

-----------------------------------------------------------------------------
(* The route implements CanonicalDelivery. *)

\* A message exists with its intent, and it is received as it is routed.
ReceivedIsRouted ==
    \A i \in Intents :
        /\ Exists(i) <=> message[i] # "none"
        /\ IsSettled(i) <=> message[i] = "received"

Stages == [i \in Intents |-> StageOf(i)]
Routed == {i \in Intents : IsSettled(i)}

LEMMA StagesFollow ==
    ASSUME NEW i \in Intents, message \in [Intents -> Messages], NEW to,
           message' = [message EXCEPT ![i] = to], to # "expired"
    PROVE  Stages' = [Stages EXCEPT ![i] = to]
  BY DEF Stages, StageOf

LEMMA DeliveryFrame ==
    ASSUME UNCHANGED <<message, boundTo, outcome>>, ReceivedIsRouted
    PROVE  ReceivedIsRouted' /\ UNCHANGED Delivery!vars
<1>1. /\ \A i \in Intents : StageOf(i)' = StageOf(i)
      /\ \A i \in Intents : IsSettled(i)' <=> IsSettled(i)
  BY DEF StageOf, IsSettled, Exists
<1> QED
  BY <1>1 DEF ReceivedIsRouted, Exists, Delivery!vars

LEMMA CreateIsBurn ==
    ASSUME RouteInv, ReceivedIsRouted, NEW i \in Intents, CreateIntent(i)
    PROVE  ReceivedIsRouted' /\ Delivery!Burn(i)
<1>1. /\ boundTo[i] = Nobody /\ destination \in Receivers
      /\ boundTo' = [boundTo EXCEPT ![i] = destination]
      /\ message' = [message EXCEPT ![i] = "burned"] /\ outcome' = outcome
  BY DEF CreateIntent, Commit, Exists, receiverVars, RouteInv, TypeOK
<1>2. /\ boundTo \in [Intents -> Receivers \cup {Nobody}]
      /\ message \in [Intents -> Messages] /\ Nobody \notin Receivers
  BY AddressAssumption DEF RouteInv, TypeOK
<1>3. outcome[destination][i] = "NONE"
  BY <1>1, <1>2 DEF RouteInv, Ties, OutcomesAtBound
<1>4. /\ message[i] = "none" /\ Exists(i)' /\ ~ IsSettled(i)' /\ ~ IsSettled(i)
      /\ \A j \in Intents \ {i} : /\ Exists(j)' <=> Exists(j)
                                  /\ IsSettled(j)' <=> IsSettled(j)
  BY <1>1, <1>2, <1>3 DEF ReceivedIsRouted, Exists, IsSettled
<1>5. ReceivedIsRouted'
  BY <1>1, <1>2, <1>4 DEF ReceivedIsRouted
<1>6. Stages' = [Stages EXCEPT ![i] = "burned"] /\ Stages[i] = "none"
  BY <1>1, <1>2, <1>4, StagesFollow DEF Stages, StageOf
<1>7. Routed' = Routed
  BY <1>4 DEF Routed
<1> QED
  BY <1>5, <1>6, <1>7 DEF Delivery!Burn, Delivery!Move, Stages, Routed

\* Attestation, its expiry and its renewal: Circle attests a burn once.
LEMMA MessageIsAttestOrStutter ==
    ASSUME RouteInv, ReceivedIsRouted, NEW i \in Intents,
           Attest(i) \/ Expire(i) \/ Reattest(i)
    PROVE  /\ ReceivedIsRouted'
           /\ Delivery!Attest(i) \/ UNCHANGED Delivery!vars
<1>1. /\ boundTo' = boundTo /\ outcome' = outcome
      /\ message \in [Intents -> Messages]
  BY DEF Attest, Expire, Reattest, MessageMoves, receiverVars, RouteInv, TypeOK
<1>2. /\ \A j \in Intents : Exists(j)' <=> Exists(j)
      /\ \A j \in Intents : IsSettled(j)' <=> IsSettled(j)
  BY <1>1 DEF Exists, IsSettled
<1>3. ReceivedIsRouted'
  BY <1>1, <1>2
  DEF ReceivedIsRouted, Attest, Expire, Reattest, MessageMoves
<1>4. Routed' = Routed
  BY <1>2 DEF Routed
<1>5. CASE Attest(i)
  <2>1. Stages' = [Stages EXCEPT ![i] = "attested"] /\ Stages[i] = "burned"
    BY <1>1, <1>5, StagesFollow DEF Attest, MessageMoves, Stages, StageOf
  <2> QED
    BY <1>3, <1>4, <2>1 DEF Delivery!Attest, Delivery!Move, Stages, Routed
<1>6. CASE Expire(i) \/ Reattest(i)
  <2>1. \A j \in Intents : StageOf(j)' = StageOf(j)
    BY <1>1, <1>6 DEF Expire, Reattest, MessageMoves, StageOf
  <2>2. Stages' = Stages
    BY <2>1 DEF Stages
  <2> QED
    BY <1>3, <1>4, <2>2 DEF Delivery!vars, Stages, Routed
<1> QED
  BY <1>5, <1>6

LEMMA SettleIsReceiveAndRoute ==
    ASSUME RouteInv, ReceivedIsRouted, NEW i \in Intents, SettleWithProof(i)
    PROVE  ReceivedIsRouted' /\ Delivery!ReceiveAndRoute(i)
<1>1. /\ message[i] = "attested" /\ boundTo' = boundTo
      /\ message' = [message EXCEPT ![i] = "received"]
      /\ boundTo[i] \in deployed /\ outcome[boundTo[i]][i] = "NONE"
      /\ \E o \in Outcomes \ {"NONE"} :
            outcome' = [outcome EXCEPT ![boundTo[i]][i] = o]
  BY DEF SettleWithProof, Route, RouteToWinner, RecordReimbursement,
         RouteToHolding, RouteToRecipient, Outcomes
<1>2. /\ boundTo[i] \in Receivers /\ message \in [Intents -> Messages]
      /\ outcome \in [Receivers -> [Intents -> Outcomes]]
  BY <1>1 DEF RouteInv, TypeOK
<1>3. /\ outcome'[boundTo[i]][i] # "NONE"
      /\ \A r \in Receivers, j \in Intents \ {i} : outcome'[r][j] = outcome[r][j]
  BY <1>1, <1>2
<1>4. boundTo \in [Intents -> Receivers \cup {Nobody}]
  BY DEF RouteInv, TypeOK
<1>5. /\ \A j \in Intents : Exists(j)' <=> Exists(j)
      /\ \A j \in Intents \ {i} : IsSettled(j)' <=> IsSettled(j)
      /\ IsSettled(i)' /\ ~ IsSettled(i)
  BY <1>1, <1>2, <1>3, <1>4, AddressAssumption DEF Exists, IsSettled
<1>6. ReceivedIsRouted'
  BY <1>1, <1>2, <1>5 DEF ReceivedIsRouted
<1>7. Stages' = [Stages EXCEPT ![i] = "received"] /\ Stages[i] = "attested"
  BY <1>1, <1>2, StagesFollow DEF Stages, StageOf
<1>8. Routed' = Routed \cup {i} /\ i \notin Routed
  BY <1>5 DEF Routed
<1> QED
  BY <1>6, <1>7, <1>8
  DEF Delivery!ReceiveAndRoute, Delivery!Move, Stages, Routed

\* A retry changes how an intent was routed, not that it was.
LEMMA RetryIsStutter ==
    ASSUME RouteInv, ReceivedIsRouted, NEW i \in Intents, NEW r \in Receivers,
           RetryHeld(r, i)
    PROVE  ReceivedIsRouted' /\ UNCHANGED Delivery!vars
<1>1. /\ outcome[r][i] = "HELD_FOR_VAULT"
      /\ outcome' = [outcome EXCEPT ![r][i] = "LP_REIMBURSED"]
      /\ message' = message /\ boundTo' = boundTo
      /\ outcome \in [Receivers -> [Intents -> Outcomes]]
      /\ boundTo \in [Intents -> Receivers \cup {Nobody}]
  BY DEF RetryHeld, RecordReimbursement, messageVars, RouteInv, TypeOK
<1>2. /\ \A j \in Intents : IsSettled(j)' <=> IsSettled(j)
      /\ \A j \in Intents : StageOf(j)' = StageOf(j)
  BY <1>1 DEF IsSettled, Exists, StageOf
<1> QED
  BY <1>1, <1>2 DEF ReceivedIsRouted, Exists, Delivery!vars

LEMMA DeliveryStep ==
    ASSUME RouteInv, ReceivedIsRouted, [Next]_vars
    PROVE  ReceivedIsRouted' /\ [Delivery!Next]_(Delivery!vars)
<1>1. ASSUME NEW i \in Intents, IntentNext(i)
      PROVE  ReceivedIsRouted' /\ [Delivery!Next]_(Delivery!vars)
  <2>1. CASE CreateIntent(i)
    BY <2>1, CreateIsBurn DEF Delivery!Next
  <2>2. CASE Attest(i) \/ Expire(i) \/ Reattest(i)
    BY <2>2, MessageIsAttestOrStutter DEF Delivery!Next
  <2>3. CASE SettleWithProof(i)
    BY <2>3, SettleIsReceiveAndRoute DEF Delivery!Next
  <2>4. CASE \E r \in Receivers : RetryHeld(r, i)
    BY <2>4, RetryIsStutter
  <2>5. CASE \/ \E n \in 1 .. Amount[i] : ReleaseInFlight(i, n)
             \/ Block(i)
    <3>1. UNCHANGED <<message, boundTo, outcome>>
      BY <2>5 DEF ReleaseInFlight, Block, messageVars, receiverVars
    <3> QED
      BY <3>1, DeliveryFrame
  <2> QED
    BY <1>1, <2>1, <2>2, <2>3, <2>4, <2>5 DEF IntentNext
<1>2. CASE \/ \E v \in Vaults : VaultNext(v)
           \/ \E r \in Receivers : DeployReceiver(r)
           \/ RouterSetting
           \/ UNCHANGED vars
  <2>1. UNCHANGED <<message, boundTo, outcome>>
    BY <1>2
    DEF VaultNext, CreateVault, SetSettlementReceiver, SetMarket, FastFill,
        DeployReceiver, RouterSetting, vars, messageVars, receiverVars
  <2> QED
    BY <2>1, DeliveryFrame
<1> QED
  BY <1>1, <1>2 DEF Next

\* The route delivers like any other: no replacement of a receiver, rewired
\* vault, expired signature or refused transfer makes a burn be received
\* twice, received unrouted, or routed by a receiver it does not name
\* (SettlementReceiver.settleWithProof, RedeployReceiver.s.sol).
THEOREM RouteDelivers == Spec => ImplementsDelivery
<1>1. Init => ReceivedIsRouted
  BY DEF Init, ReceivedIsRouted, Exists, IsSettled
<1>2. Init => Delivery!Init
  BY DEF Init, Delivery!Init, StageOf, IsSettled, Exists
<1> QED
  BY <1>1, <1>2, DeliveryStep, RouteInvariant, PTL
  DEF Spec, ImplementsDelivery, Delivery!Spec
=============================================================================
