---------------------------- MODULE IntentRoute -----------------------------
(***************************************************************************)
(* A route from the router of one chain to the receivers of another, while *)
(* the receiver is replaced (contracts/script/RedeployReceiver.s.sol).     *)
(* The router names the receiver each burn is bound to; the market keeps   *)
(* the settlement check, and the factory the receiver, they were made      *)
(* with; each vault's owner wires it to a receiver and a market.  So the   *)
(* four may disagree for as long as the steps of the replacement, or the   *)
(* owners of vaults, take.                                                 *)
(*                                                                         *)
(* What a vault can afford, and what it charges, is FastSettlement's and   *)
(* LiquidityVault's subject: here a fill advances the amount.  Burns carry *)
(* the intent hook, as the router's all do.                                *)
(***************************************************************************)
EXTENDS RunningTotals

CONSTANTS
    Intents,
    Amount,           \* Intent.amount
    Trades,           \* intents with a tokenOut
    Vaults,           \* vaults the factory will create
    Receivers,
    Markets,
    Nobody,           \* address(0)
    CheckOf,          \* ArcaidiaIntentMarket.settlementCheck, immutable
    MarketOf,         \* SettlementReceiver.market, set at initialize
    FactoryReceiver,  \* ArcaidiaVaultFactory.settlementReceiver, of every
    FactoryMarket,    \*   vault it creates, and its market
    LimitChoices      \* the router's limits its owner chooses from

ASSUME AddressAssumption ==
    /\ IsFiniteSet(Intents)
    /\ Nobody \notin Vaults \cup Receivers \cup Markets
    /\ CheckOf \in [Markets -> Receivers]
    /\ MarketOf \in [Receivers -> Markets]
    /\ FactoryReceiver \in Receivers
    /\ FactoryMarket \in Markets
ASSUME AmountAssumption == Amount \in [Intents -> Nat \ {0}]
ASSUME LimitAssumption ==
    LimitChoices \subseteq [intent : Nat, inFlight : Nat]

VARIABLES
    destination,    \* destinationReceiver of the destination chain, or Nobody
    domainSet,      \* CircleCCTPInitiator.domainConfigured of it
    routerPaused,
    tradesAllowed,
    limits,         \* maxIntentAmount and maxInFlightValue
    totalInFlight,
    boundTo,        \* the receiver named in an intent's burn, Nobody before
    message,        \* its CCTP message
    deployed,       \* receivers that exist, initialised, on the destination
    outcome,        \* outcomeOf, of each receiver
    heldFor,        \* heldFor, of each receiver
    filledBy,       \* filledBy, of each market
    isFactoryVault,
    wiredTo,        \* settlementReceiver of each vault
    trades,         \* market of each vault
    filled,         \* intentFilled of each vault
    owed,           \* intents with an advancedPrincipal, of each vault
    refused,        \* intents whose recipient the token refuses
    released,       \* history: in-flight value released for each intent
    onRoute         \* history: fills by a vault wired to the intent's receiver
                    \*   and to that receiver's market

routerVars   == <<destination, domainSet, routerPaused, tradesAllowed, limits,
                  totalInFlight, released>>
messageVars  == <<boundTo, message>>
receiverVars == <<deployed, outcome, heldFor>>
vaultVars    == <<isFactoryVault, wiredTo, trades>>
bookVars     == <<filledBy, filled, owed, onRoute>>
vars == <<routerVars, messageVars, receiverVars, vaultVars, bookVars, refused>>

Messages == {"none", "burned", "attested", "expired", "received"}
Outcomes == {"NONE", "LP_REIMBURSED", "RECIPIENT_FALLBACK", "HELD_FOR_VAULT"}

-----------------------------------------------------------------------------
Init ==
    /\ destination    = Nobody
    /\ domainSet      = FALSE
    /\ routerPaused   = FALSE
    /\ tradesAllowed  = TRUE
    /\ limits \in LimitChoices
    /\ totalInFlight  = 0
    /\ boundTo        = [i \in Intents |-> Nobody]
    /\ message        = [i \in Intents |-> "none"]
    /\ deployed       = {FactoryReceiver, CheckOf[FactoryMarket]}
    /\ outcome        = [r \in Receivers |-> [i \in Intents |-> "NONE"]]
    /\ heldFor        = [r \in Receivers |-> [i \in Intents |-> Nobody]]
    /\ filledBy       = [m \in Markets |-> [i \in Intents |-> Nobody]]
    /\ isFactoryVault = {}
    /\ wiredTo        = [v \in Vaults |-> Nobody]
    /\ trades         = [v \in Vaults |-> Nobody]
    /\ filled         = [v \in Vaults |-> {}]
    /\ owed           = [v \in Vaults |-> {}]
    /\ refused        = {}
    /\ released       = [i \in Intents |-> 0]
    /\ onRoute        = {}

-----------------------------------------------------------------------------
(* The router and its owner. *)

Exists(i) == boundTo[i] # Nobody

\* _commit: the initiator burns to the receiver the router names now, which
\* alone may present the message.
Commit(i, receiver) ==
    /\ domainSet
    /\ boundTo' = [boundTo EXCEPT ![i] = receiver]
    /\ message' = [message EXCEPT ![i] = "burned"]

\* Mutant: the cap is checked and the amount not added to it.
CreateIntent_Uncounted(i) ==
    /\ ~ routerPaused
    /\ Amount[i] <= limits.intent
    /\ i \in Trades => tradesAllowed
    /\ destination # Nobody
    /\ totalInFlight + Amount[i] <= limits.inFlight
    /\ ~ Exists(i)
    /\ Commit(i, destination)
    /\ UNCHANGED <<routerVars, receiverVars, vaultVars, bookVars, refused>>

CreateIntent(i) ==
    /\ ~ routerPaused
    /\ Amount[i] <= limits.intent
    /\ i \in Trades => tradesAllowed
    /\ destination # Nobody
    /\ totalInFlight + Amount[i] <= limits.inFlight
    /\ ~ Exists(i)
    /\ totalInFlight' = totalInFlight + Amount[i]
    /\ Commit(i, destination)
    /\ UNCHANGED <<destination, domainSet, routerPaused, tradesAllowed, limits,
                   released, receiverVars, vaultVars, bookVars, refused>>

\* By hand: whatever amount the owner names, for any intent, settled or not.
ReleaseInFlight(i, amount) ==
    /\ Exists(i)
    /\ amount <= totalInFlight
    /\ totalInFlight' = totalInFlight - amount
    /\ released' = [released EXCEPT ![i] = @ + amount]
    /\ UNCHANGED <<destination, domainSet, routerPaused, tradesAllowed, limits,
                   messageVars, receiverVars, vaultVars, bookVars, refused>>

RouterSetting ==
    /\ \/ destination' \in Receivers \cup {Nobody}
          /\ UNCHANGED <<domainSet, routerPaused, tradesAllowed, limits>>
       \/ domainSet' = TRUE
          /\ UNCHANGED <<destination, routerPaused, tradesAllowed, limits>>
       \/ routerPaused' \in BOOLEAN
          /\ UNCHANGED <<destination, domainSet, tradesAllowed, limits>>
       \/ tradesAllowed' \in BOOLEAN
          /\ UNCHANGED <<destination, domainSet, routerPaused, limits>>
       \/ limits' \in LimitChoices
          /\ UNCHANGED <<destination, domainSet, routerPaused, tradesAllowed>>
    /\ UNCHANGED <<totalInFlight, released, messageVars, receiverVars, vaultVars,
                   bookVars, refused>>

-----------------------------------------------------------------------------
(* Circle and the token. *)

MessageMoves(i, from, to) ==
    /\ message[i] = from
    /\ message' = [message EXCEPT ![i] = to]
    /\ UNCHANGED <<routerVars, boundTo, receiverVars, vaultVars, bookVars,
                   refused>>

Attest(i)   == MessageMoves(i, "burned", "attested")
Expire(i)   == MessageMoves(i, "attested", "expired")
\* Somebody asks Circle to sign again; nothing in the repository does.
Reattest(i) == MessageMoves(i, "expired", "attested")

\* The issuer blocks or unblocks the recipient of an intent.
Block(i) ==
    /\ refused' \in {refused \cup {i}, refused \ {i}}
    /\ UNCHANGED <<routerVars, messageVars, receiverVars, vaultVars, bookVars>>

-----------------------------------------------------------------------------
(* Vaults. *)

\* createVault wires what the factory was initialised with, whatever the
\* router's receiver is by now.
CreateVault(v) ==
    /\ v \notin isFactoryVault
    /\ isFactoryVault' = isFactoryVault \cup {v}
    /\ wiredTo' = [wiredTo EXCEPT ![v] = FactoryReceiver]
    /\ trades'  = [trades EXCEPT ![v] = FactoryMarket]
    /\ UNCHANGED <<routerVars, messageVars, receiverVars, bookVars, refused>>

SetSettlementReceiver(v, r) ==
    /\ v \in isFactoryVault
    /\ wiredTo' = [wiredTo EXCEPT ![v] = r]
    /\ UNCHANGED <<routerVars, messageVars, receiverVars, isFactoryVault, trades,
                   bookVars, refused>>

SetMarket(v, m) ==
    /\ v \in isFactoryVault
    /\ trades' = [trades EXCEPT ![v] = m]
    /\ UNCHANGED <<routerVars, messageVars, receiverVars, isFactoryVault,
                   wiredTo, bookVars, refused>>

ClaimIntent(m, v, i) ==
    /\ v \in isFactoryVault
    /\ filledBy[m][i] = Nobody
    /\ CheckOf[m] \in deployed
    /\ outcome[CheckOf[m]][i] = "NONE"
    /\ filledBy' = [filledBy EXCEPT ![m][i] = v]

\* Mutant: the market's check alone.
UnsettledForVault_Market(v, i) == wiredTo[v] \in deployed

\* The vault asks its own receiver, which must exist to answer.
UnsettledForVault(v, i) ==
    /\ wiredTo[v] \in deployed
    /\ outcome[wiredTo[v]][i] = "NONE"

IsOnRoute(v, i) ==
    wiredTo[v] = boundTo[i] /\ trades[v] = MarketOf[boundTo[i]]

FastFill(v, i) ==
    /\ Exists(i)
    /\ v \in isFactoryVault
    /\ ClaimIntent(trades[v], v, i)
    /\ UnsettledForVault(v, i)
    /\ i \notin filled[v]
    /\ i \notin refused
    /\ filled'  = [filled EXCEPT ![v] = @ \cup {i}]
    /\ owed'    = [owed EXCEPT ![v] = @ \cup {i}]
    /\ onRoute' = IF IsOnRoute(v, i) THEN onRoute \cup {<<v, i>>} ELSE onRoute
    /\ UNCHANGED <<routerVars, messageVars, receiverVars, vaultVars, refused>>

-----------------------------------------------------------------------------
(* Receivers. *)

\* Deployed and initialised against the market it will read, and handed over;
\* the router may name its CREATE2 address before.
DeployReceiver(r) ==
    /\ r \notin deployed
    /\ deployed' = deployed \cup {r}
    /\ UNCHANGED <<routerVars, messageVars, outcome, heldFor, vaultVars, bookVars,
                   refused>>

AcceptsReimbursement(r, v, i) == wiredTo[v] = r /\ i \in owed[v]

RecordReimbursement(r, v, i) ==
    /\ outcome' = [outcome EXCEPT ![r][i] = "LP_REIMBURSED"]
    /\ owed' = [owed EXCEPT ![v] = @ \ {i}]

RouteToWinner(r, i) ==
    LET winner == filledBy[MarketOf[r]][i] IN
    /\ winner # Nobody
    /\ AcceptsReimbursement(r, winner, i)
    /\ RecordReimbursement(r, winner, i)
    /\ UNCHANGED heldFor

\* Mutant: the catch keeps the outcome that was written before the attempt.
RouteToHolding_KeepsOutcome(r, i) ==
    LET winner == filledBy[MarketOf[r]][i] IN
    /\ winner # Nobody
    /\ ~ AcceptsReimbursement(r, winner, i)
    /\ outcome' = [outcome EXCEPT ![r][i] = "LP_REIMBURSED"]
    /\ heldFor' = [heldFor EXCEPT ![r][i] = winner]
    /\ UNCHANGED owed

RouteToHolding(r, i) ==
    LET winner == filledBy[MarketOf[r]][i] IN
    /\ winner # Nobody
    /\ ~ AcceptsReimbursement(r, winner, i)
    /\ outcome' = [outcome EXCEPT ![r][i] = "HELD_FOR_VAULT"]
    /\ heldFor' = [heldFor EXCEPT ![r][i] = winner]
    /\ UNCHANGED owed

\* The token's refusal reverts the delivery, mint included.
RouteToRecipient(r, i) ==
    /\ filledBy[MarketOf[r]][i] = Nobody
    /\ i \notin refused
    /\ outcome' = [outcome EXCEPT ![r][i] = "RECIPIENT_FALLBACK"]
    /\ UNCHANGED <<heldFor, owed>>

Route(r, i) ==
    RouteToWinner(r, i) \/ RouteToHolding(r, i) \/ RouteToRecipient(r, i)

\* Mutant: delivered to the receiver the router names by now.
SettleWithProof_Current(i) ==
    LET r == destination IN
    /\ message[i] = "attested"
    /\ r \in deployed
    /\ outcome[r][i] = "NONE"
    /\ message' = [message EXCEPT ![i] = "received"]
    /\ Route(r, i)
    /\ UNCHANGED <<routerVars, boundTo, deployed, vaultVars, filledBy, filled,
                   onRoute, refused>>

SettleWithProof(i) ==
    LET r == boundTo[i] IN
    /\ message[i] = "attested"
    /\ r \in deployed
    /\ outcome[r][i] = "NONE"
    /\ message' = [message EXCEPT ![i] = "received"]
    /\ Route(r, i)
    /\ UNCHANGED <<routerVars, boundTo, deployed, vaultVars, filledBy, filled,
                   onRoute, refused>>

RetryHeld(r, i) ==
    LET vault == heldFor[r][i] IN
    /\ outcome[r][i] = "HELD_FOR_VAULT"
    /\ AcceptsReimbursement(r, vault, i)
    /\ RecordReimbursement(r, vault, i)
    /\ heldFor' = [heldFor EXCEPT ![r][i] = Nobody]
    /\ UNCHANGED <<routerVars, messageVars, deployed, vaultVars, filledBy, filled,
                   onRoute, refused>>

-----------------------------------------------------------------------------
IntentNext(i) ==
    \/ CreateIntent(i)
    \/ \E n \in 1 .. Amount[i] : ReleaseInFlight(i, n)
    \/ Attest(i)
    \/ Expire(i)
    \/ Reattest(i)
    \/ Block(i)
    \/ SettleWithProof(i)
    \/ \E r \in Receivers : RetryHeld(r, i)

VaultNext(v) ==
    \/ CreateVault(v)
    \/ \E r \in Receivers : SetSettlementReceiver(v, r)
    \/ \E m \in Markets : SetMarket(v, m)
    \/ \E i \in Intents : FastFill(v, i)

Next ==
    \/ \E i \in Intents : IntentNext(i)
    \/ \E v \in Vaults : VaultNext(v)
    \/ \E r \in Receivers : DeployReceiver(r)
    \/ RouterSetting

Spec == Init /\ [][Next]_vars

\* Circle attests, and whoever delivers and retries keeps trying.
FairSpec ==
    /\ Spec
    /\ \A i \in Intents :
          /\ WF_vars(Attest(i))
          /\ SF_vars(SettleWithProof(i))
          /\ \A r \in Receivers : SF_vars(RetryHeld(r, i))

\* What no code does and somebody must: finish a replacement, ask Circle
\* again, point a vault back at a receiver that holds its money; and the
\* token's issuer relents.
Repairs ==
    /\ \A i \in Intents : WF_vars(Reattest(i))
    /\ \A r \in Receivers : WF_vars(DeployReceiver(r))
    /\ \A v \in Vaults, r \in Receivers : WF_vars(SetSettlementReceiver(v, r))
    /\ <>[](refused = {})

-----------------------------------------------------------------------------
TypeOK ==
    /\ destination \in Receivers \cup {Nobody}
    /\ domainSet \in BOOLEAN
    /\ routerPaused \in BOOLEAN
    /\ tradesAllowed \in BOOLEAN
    /\ limits \in LimitChoices
    /\ totalInFlight \in Nat
    /\ boundTo \in [Intents -> Receivers \cup {Nobody}]
    /\ message \in [Intents -> Messages]
    /\ deployed \subseteq Receivers
    /\ outcome \in [Receivers -> [Intents -> Outcomes]]
    /\ heldFor \in [Receivers -> [Intents -> Vaults \cup {Nobody}]]
    /\ filledBy \in [Markets -> [Intents -> Vaults \cup {Nobody}]]
    /\ isFactoryVault \subseteq Vaults
    /\ wiredTo \in [Vaults -> Receivers \cup {Nobody}]
    /\ trades \in [Vaults -> Markets \cup {Nobody}]
    /\ filled \in [Vaults -> SUBSET Intents]
    /\ owed \in [Vaults -> SUBSET Intents]
    /\ refused \subseteq Intents
    /\ released \in [Intents -> Nat]
    /\ onRoute \subseteq Vaults \X Intents

IsSettled(i) == Exists(i) /\ outcome[boundTo[i]][i] # "NONE"

Waiting(v, i) ==
    \/ ~ IsSettled(i)
    \/ /\ outcome[boundTo[i]][i] = "HELD_FOR_VAULT"
       /\ heldFor[boundTo[i]][i] = v

\* What a vault advanced while it was wired to the receiver its money was
\* coming to is never lost to it, however receivers are replaced and vaults
\* rewired since: the money is still to come, or is held there in its name.
OnRouteIsBacked ==
    \A v \in Vaults, i \in Intents :
        <<v, i>> \in onRoute /\ i \in owed[v] => Waiting(v, i)

PayersOf(i) ==
    {v \in Vaults : i \in filled[v]}
        \cup {r \in Receivers : outcome[r][i] = "RECIPIENT_FALLBACK"}

\* Before the vault's own check, "a late fill would pay the recipient a second
\* time, out of LP capital, with no mint ever backing it"
\* (ArcaidiaLiquidityVault.sol:696).  With it, whoever is paid twice was paid
\* by a vault wired elsewhere when it filled.
PaidTwiceOnlyOffRoute ==
    \A i \in Intents :
        (\E p, q \in PayersOf(i) : p # q)
            => \E v \in Vaults : i \in filled[v] /\ <<v, i>> \notin onRoute

Unsettled ==
    [i \in Intents |-> IF Exists(i) /\ ~ IsSettled(i) THEN Amount[i] ELSE 0]

\* "Release in-flight capacity once canonical settlement is confirmed"
\* (ArcaidiaIntentRouter.sol:217): while the owner has released only what
\* settled, the router's total covers everything that has not.
InFlightCoversUnsettled ==
    (\A i \in Intents : released[i] <= IF IsSettled(i) THEN Amount[i] ELSE 0)
        => Total(Unsettled) <= totalInFlight

\* A signature that expired can be renewed, so it is one that is still good.
StageOf(i) == IF message[i] = "expired" THEN "attested" ELSE message[i]

\* An intent is routed when the receiver its burn names has an outcome for it.
Delivery == INSTANCE CanonicalDelivery WITH
    Hooked <- Intents,
    stage  <- [i \in Intents |-> StageOf(i)],
    routed <- {i \in Intents : IsSettled(i)}

\* However often the router's receiver, markets and vaults are replaced and
\* rewired, whatever expires and whomever the token refuses meanwhile, each
\* burn is received once, and routed by the receiver it names as it is.
ImplementsDelivery == Delivery!Spec

\* Every commitment ends with its recipient or with the vault that advanced
\* it, through any replacement, if somebody makes the repairs it needs.
CommitmentsLand ==
    Repairs =>
        \A i \in Intents :
            Exists(i) ~> \E r \in Receivers :
                            outcome[r][i] \in {"LP_REIMBURSED",
                                               "RECIPIENT_FALLBACK"}

\* A claim "reverts if anyone already won it, if canonical settlement already
\* paid it out via the no-solver fallback path" (ArcaidiaIntentMarket.sol:82).
MarketRefusesPaid ==
    [][\A m \in Markets, i \in Intents :
          filledBy'[m][i] # filledBy[m][i]
              => \A r \in Receivers : outcome[r][i] # "RECIPIENT_FALLBACK"]_vars
=============================================================================
