# Arcaidia in TLA+

Arcaidia moves USDC between two chains. A user locks an amount on the source
chain; Circle's CCTP burns it there and mints it on the destination chain some
minutes later. Meanwhile any of several liquidity vaults may pay the recipient
at once from its LPs' money, and is reimbursed when the canonical mint arrives.
If no vault does, the mint goes to the recipient. This directory models that
system, checks the models with TLC and proves the central invariants with
TLAPS.

## 1. Inventory

| Part | State | Operations | Talks to |
| --- | --- | --- | --- |
| `ArcaidiaIntentRouter` (source) | `intentExists`, `nonceUsed`, `totalInFlight`, limits, pause | `createIntent`, `releaseInFlight`, setters | initiator |
| `CircleCCTPInitiator` (source) | domains, finality, `maxFee` | `initiateSettlement` burns with or without the intent hook | Circle |
| Circle CCTP | messages, attestations, used nonces | attest, `receiveMessage` (once per message) | receiver |
| `ArcaidiaIntentMarket` (destination) | `filledBy` | `claimIntent`: first factory vault wins | receiver's `isSettled` |
| `ArcaidiaLiquidityVault` (one per operator) | LP shares, `outstandingExposure`, `advancedPrincipal`, `intentFilled`, `accruedProtocolFees`, limits, signers, pointers to receiver and market | `fastFill`, `recordReimbursement`, ERC-4626 deposits and withdrawals, `withdrawFees`, setters | market, receiver |
| `SettlementReceiver` (destination) | `outcomeOf`, `settledAmount`, `heldFor`, its USDC | `settleWithProof`, `settle`, `retryHeld` | Circle, market, vaults |
| Settlement worker (`packages/settlement`) | journal, per-commitment adapter status, all in memory | discover, poll Iris, deliver, settle, reconcile | Circle, receiver |
| Solver agent (`packages/agent`) | submission journal, in memory | observe, verify source, evaluate, sign, submit | vault |
| Relay (`packages/relay`) | pending challenges, pairing and heartbeat per vault | `issueChallenge`, `confirmPairing`, heartbeats, stage events, sweep | solvers, web console |
| `ArcaidiaVaultFactory`, `RedeployReceiver.s.sol` | the receiver and market new vaults get | `createVault`; a receiver is deployed, named by the router, and vaults are rewired | vaults, router |
| Index (`subgraph`, one per chain) | rows of vaults, intents, fills and settlements of its own chain | one handler per event | solver, worker, relay |
| Intelligence (`packages/relay`) | a cache of answers | capacity of vaults, outstanding intents | index, receivers' `outcomeOf` |
| Deployer, swap adapter, gateway, MCP, load generator, web app | — | set-up, delivery of other tokens, read-only views, test traffic | — |

On chain every entry point is one atomic transaction, so what is hard there is
the *order* of transactions that nobody coordinates: vaults racing for an
intent, a fill against the canonical settlement of the same intent, LPs leaving
between a fill and its reimbursement, owners pausing or re-pointing a vault in
the middle, a reimbursement that the winner refuses. Off chain the workers await
between reading the chain and acting on it, lose their memory in a restart, and
compete with anyone who delivers the same public message.

What makes the parts correct:

- *market and receiver*: a recipient is paid exactly once, by a fill or by
  canonical settlement, less a capped fee; the winner, and only the winner, is
  repaid, once; canonical money in the receiver always belongs to an intent.
- *vault*: its receivable is exact; it never exceeds its exposure cap or falls
  below its reserve floor; LP assets only leave with an LP; the treasury's fees
  are in the vault; a share never loses value.
- *workers*: everything burned is eventually routed; a local journal never
  claims more than the chain does.
- *solver*: it signs only for what the router emitted, deep enough in the source
  chain; one process tries an intent once; whatever it forgets, the vault pays
  once; what it reports as filled was paid; no row keeps it from the others.
- *relay*: who is shown as paired has proved possession of the key, with a
  challenge that still stood.
- *route*: router, market, factory and vaults may name different receivers for a
  while; money advanced on an intent's own route still comes back, and nobody is
  paid twice by vaults on it.
- *index and its readers*: what is added up from events is what the vault holds;
  what the solver accepts the vault pays; an open intent is never taken for a
  closed one, and a closed one does not stay a backlog.

The complete list of hazards, each at its line and with the properties that
guard it, is in `PROJECT.json`.

## 2. Modules

- `RunningTotals` – what a running total must equal, counted by units rather than folded, so
  that it is not recursive.
- `VaultMath` – the pure arithmetic of the vault and of `FeePolicyLib`:
  `reserveFloor`, `availableLiquidity`, `_minLiquidRetained`,
  `withdrawableLiquidity`, caps, utilisation, fee tiers, protocol share, all
  with the code's rounding. `Arithmetic_proofs` holds the lemmas about both: an
  update of one entry moves a total by the difference, what floor and ceiling
  division are, and which moves keep a vault within its limits.
- `IntentLifecycle` – the abstract specification: one intent is pending, then
  advanced by one winner and perhaps repaid, or delivered by canonical
  settlement; its recipient is paid once.
- `FastSettlement` – the destination chain: market, vaults and receiver with
  every transaction as one action, plus creation, attestation and the deadline.
  It implements `IntentLifecycle`. `MCFastSettlement` and the `FastSettlement*`
  configurations instantiate it; `FastSettlement_proofs` proves its invariants.
- `LiquidityVault` – one vault as its LPs see it: ERC-4626 shares, the `max*`
  views, fills and reimbursements, and an owner who changes limits.
  TLC checks it as a part of `Subgraph`, which extends it, and all of its properties
  are proved in `Subgraph_proofs`.
- `SolverPolicy` – `evaluateIntent` with its fees, confirmation tiers and size
  limits, as operators on an observation; no state.
- `Subgraph` – the vault of `LiquidityVault`, the row and the aggregates the index
  keeps of it, the solver's decision on them (`SolverPolicy`) and the relay's
  figures. `MCSubgraph` and the `Subgraph*` configurations instantiate it;
  `Subgraph_proofs` proves its properties, and that indexing leaves the vault
  a `LiquidityVault`.
- `IntentRoute` – the router with its caps and settings, the messages, several
  receivers and markets, and the vaults' pointers to them, through the replacement of
  a receiver. `MCIntentRoute` and the `IntentRoute*` configurations instantiate it;
  `IntentRoute_proofs` proves its safety properties.
- `IntentViews` – the index's rows of intents on both chains and the four readers
  that ask, from them and from the receivers, what is still open. `MCIntentViews` and
  the `IntentViews*` configurations instantiate it; `IntentViews_proofs` proves what an
  answer is worth.
- `CanonicalDelivery` – the abstract specification both sides of a delivery
  share: a commitment is burned, attested, received and routed, each once.
  `FastSettlement`, `SettlementWorker` and `IntentRoute` implement it.
- `SettlementWorker` – the off-chain worker: passes, journal and adapter cache
  against the chain, a mempool, other deliverers, failures and restarts.
  `MCSettlementWorker` and the `SettlementWorker*` configurations instantiate
  it; `SettlementWorker_proofs` proves its invariants and the refinement.
- `RelayStore` – the relay's store for one vault, and the solvers that pair with
  it and report to it: challenges, the await in `confirmPairing`, heartbeats and
  stage events, the sweep, restarts. `MCRelayStore` and the `RelayStore*`
  configurations instantiate it; `RelayStore_proofs` proves its invariants.
- `SolverAgent` – a solver, from the indexer's rows to the receipt of its fill:
  passes, `processIntent` await by await, its journal and the mempool, against a
  source chain that grows and may reorganise, rivals, settlement and restarts.
  `MCSolverAgent` and the `SolverAgent*` configurations instantiate it;
  `SolverAgent_proofs` proves its invariants.

### How FastSettlement corresponds to the code

State variables carry the contracts' names. `filledBy` is the market's,
`outcome`, `settledAmount`, `heldFor` the receiver's; `filled`, `principal`,
`exposure`, `accrued`, `balance` are per vault `intentFilled`,
`advancedPrincipal`, `outstandingExposure`, `accruedProtocolFees` and the USDC
the vault holds; `wired` is the set of vaults whose `settlementReceiver` is this
receiver. `transfer` is the intent's CCTP message.

`FastFill` is the whole of `fastFill` with the nested `claimIntent`: the claim
comes first in the code, but a later revert undoes it, so the order inside the
action does not matter. `Route` is `_route` with its try/catch: the winner
accepts (`RouteToWinner`), the call reverts and the funds are parked
(`RouteToHolding`), or there is no winner (`RouteToRecipient`).
`AcceptsReimbursement` collects the reverts of `recordReimbursement`, including
the checked subtraction.

Abstractions: amounts and basis points are small integers with the code's
rounding; signatures, expiries and agent nonces appear as "some authorization an
allowlisted signer gave for an existing intent", whose fee may be anything the
checks let through; LP shares are the USDC they move; a swap delivery spends the
same USDC as a plain one; limits and fee schedules of a vault are fixed.
Intents come from the router, so their hooks are genuine; hookless burns are
the v1 path, which ran with `maxFee = 0`; the reporter is the settlement worker,
which settles the burned amount of a message it saw received. Vaults stay on the
market the factory wired and transfers to recipients succeed: `IntentRoute` is
about what happens when they do not.

### How LiquidityVault corresponds to the code

`shares` and `supply` are the ERC-20 ledger of arcLP; `balance`, `exposure`,
`accrued`, `principal` and `filled` are as above. `VirtualShares` is
`10 ** DECIMALS_OFFSET`. Each preview has its own operator with the code's
rounding, and each entry point is its check, its preview and `PullAndMint` or
`BurnAndPay`. The owner's setters are actions and take effect at any moment.

What `FastSettlement` decides is left open here: an intent is filled whenever the
vault itself agrees and reimbursed, for any amount, whenever the receiver tries.
That is more than can happen, so what holds here holds whatever market and
receiver do. Signatures, agent nonces and allowances do not appear. Anyone may
send the vault USDC (`Donate`), which moves the share price and nothing else.

### How SettlementWorker corresponds to the code

A worker's position in `processSettlement` is `at`: every point is an `await`,
and what happens between two of them is one action. `sent` is the transaction
the worker waits for and, once mined, its receipt. `journal` and `done` are the
in-memory journal's records and those of them marked settled; `status` is the
cache inside `CircleCCTPAdapter`. `todo` is what is left of
`journal.listPending()` in this pass.

`StartPass` is discovery, `journal.create` for what is new, and the pending
list. Discovery reads an indexer and probes the receivers, either of which may be
stale, so it may show anything indexed and must show what no receiver has
settled. `ReadStatus` polls Iris for an entry whose attestation is not cached;
`ReadNonce` asks whether the message has been used; `Deliver` picks
`settleWithProof` or `receiveMessage` by the hook. A transaction whose worker
timed out or crashed is an orphan: it stays in the mempool and may be mined at
any later time, or never. `StepFails` is the catch of a pass around each record,
`Crash` the loss of everything in memory.

Abstractions: a mint is either paid or parked, and the model does not say which,
because that depends on the market and the vault (`FastSettlement` does);
CCTP charges no fee here. The parked money of all intents lies in one balance, as
in the contract. `Receivers`, `MintsTo` and `Uses` allow for a receiver that
replaced another. Messages expire in `IntentRoute` only.

### How RelayStore corresponds to the code

`operator`, `online` and `heardAge` are `operatorAddress`, `online` and
`lastHeartbeatAt` of the one vault; the code sets `paired` together with
`operatorAddress` and never clears it, so the vault is paired exactly when
`operator` is not `None`. `pending` is the entry of the `pending` map and
`challenge` what each nonce was issued for. An `exchange` is one run of
`pairWithRelay`: a caller that holds the key of `by` and claims to be `claim`
asks for a challenge and posts its answer. `BeginConfirm` is `confirmPairing` up to
its await, with the early returns, and `FinishConfirm` is what follows. Between
the two, other requests, the sweep, time and restarts may come.

Times are ages: `Tick` makes all of them older, up to one more than the last value
the code compares with, so every later time is the same and the state space is
finite. The nonce of a challenge nobody remembers is used again for the same
reason. Reports carry the sender's time, as in `build-dependencies.ts`; the
relay's clock and the senders' are taken to agree. `Repost` is an answer that is
delivered twice, `GiveUp` and `Lose` are losses. `newestAge` and `signers`
are history variables, which no guard reads; `signers` starts anew with each process of
the relay. That an answer may be used twice if both copies pass the checks before either
is done, or after its challenge expired during the await, is what the code does and no
property denies it (`RelayStoreReplayed`, below).

Left out: the stage shown, the market intelligence and the subscribers (they
follow the same writes), and other vaults, whose entries are independent.

### How SolverAgent corresponds to the code

`visit` is where `processIntent` stands: on which intent, waiting for which answer,
and what of the earlier answers it still holds – whether the deadline had passed
when the clock was read (`lapsed`) and how many confirmations the evidence has so
far (`seen`). `Choose` is everything up to the first await: the route, which
throws for a row whose chains are unknown, the journal and the signer check.
`AskFilled`, `ReadReceipt`, `ReadHead` and `Evaluate` each take one answer.
`Submit` signs, marks the journal and sends; `Confirm` and `TimeOut` end the wait for
the receipt. `Throw` is an `ERROR` of one intent, `Crash` the loss of the process.
`todo` is the rest of the pass. A fill belongs to the process that sent it
(`life`), since nobody else waits for its receipt; it leaves the mempool when it is
mined, for which there is no time limit. `StartPass` asks for the listing, which comes
(`Discover`) or fails (`DiscoveryFails`, the `DISCOVERY_FAILED` of `runSolverPass`), and then
nothing is processed until the next tick.

One assumption is not the code's: the receipt that `submitFastFill` waits for is that of its own
fill. The RPC client would return the receipt of a replacement, a transaction of the same account
with the same nonce, and the code looks only at its `status`; the model takes the solver to be the only
user of its key and its node not to forget what it accepted, so that nothing replaces a fill.

The evidence is two calls. `ReadReceipt` notes the confirmations the receipt's block
has at that moment; every `NewBlock` until the head is read adds one, also when
`Reorganise` has meanwhile dropped the block, because the number is a difference of
heights.

What the solver decides about amounts is one answer per intent: the vault would pay
it now (`fillable`: signer, pause, fee tier, caps, liquidity), and `evaluateIntent`
would accept it on what is observed (`willing`: the same from the indexer, which may
be older or mixed, settlement health, trade terms, the intelligence hold and the
cached `isAuthorisedSigner`). The two change independently at any moment, which is
more than can happen. An authorization may have expired by the time it is mined, so
any mined fill may revert. `Forged` rows name a real, deep transaction that says
something else; their own intents do not exist. Confirmations are counted up to
`Required`. `reported` is the last outcome of an intent that was submitted; two of
them promise less than their comments: `LOST_RACE` is any revert, not only a
rival's fill (`process-intent.ts:121`), and after `SUBMISSION_FAILED` the fill may
still land (119, but see 245). Reorganisations of the destination chain, fees paid for gas, telemetry,
the narrative and the decision log are left out. `attempts`, `paid` and `torn`
(whose block was dropped between the two reads) are history variables.

### How Subgraph corresponds to the code

`entity` is the `Vault` row and the two aggregates of `ProtocolState` that are about
this vault, with the fields' names shortened; there is one `Handle…` operator per
handler, and an action of the vault is conjoined with the handlers of the events it
emits, in the order it emits them. What has no event that a handler takes leaves the
row alone: a plain transfer (`IndexedDonation`), `withdrawFees` (`IndexedSweep`) and the
owner's settings (`UnindexedSetting`). A reader that lags sees an earlier state of the
row; the properties compare the row of the newest block.

`ObservedVault` is `vaultState`: balances from the row, limits and the posted fee from
the chain. `ObservedHealth` is the aggregate branch of `settlementHealth`.
`WouldFill` is `evaluateIntent` on these for an intent whose evidence and context are
good, `CanFill` the vault's own checks. `AvailableOf` and `FillCapacityOf` are the relay's,
from the row alone, fees and all. Their limits are `entity.limits`, the basis points of
the vault's creation: `handleVaultCreated` writes them and no handler takes the owner's
later changes. A vault is created with one of `CreationLimits`, so the row and the vault
agree at first and drift apart with `UnindexedSetting`. `OverstatedByFeesOnly` says what a reader can
rely on, that as long as no limit is tighter than then (`NoneTightened`) the relay is too high by fees
only; after a tightening nothing of the kind holds (`SubgraphTightened`, below).

### How IntentRoute corresponds to the code

Everything that names a receiver is a variable or a constant of its own:
`destination` is the router's, `boundTo` the one in an intent's burn (only it may present
the message), `wiredTo` each vault's, `CheckOf` a market's immutable `settlementCheck`,
`FactoryReceiver` and `FactoryMarket` what a new vault gets, `MarketOf` the market a receiver
asks for the winner. `DeployReceiver`, `RouterSetting` and `SetSettlementReceiver` are the
statements of `RedeployReceiver.s.sol`, each a transaction of its own, in any order.
`CreateIntent` has all guards and the burn, whose `domainSet` is the initiator's.
`ReleaseInFlight` takes any amount, since the code does not look at the intent.
`FastFill` is the claim, the vault's own question to *its* receiver, and the books.

`released` and `onRoute` are history: which amounts the owner released for which intent,
and which fills were made by a vault wired to the intent's receiver and that receiver's
market. Left out: fees and limits of vaults (a fill advances the amount), hookless burns
and the reporter, sender nonces and deadlines.

### How IntentViews corresponds to the code

`listed`, `fillRows` and `settlementRows` are what the indexes show; the row of an intent
is pending for ever, since `record` and `handleFastFilled` look it up on their own chain.
A call is two steps, in between which anything may happen: `Ask` takes the page and what the
destination's index removes from it, and fixes which ids will be probed; `Answer` is the
probe. The readers differ in `Page` (order and limit of the query), `DoneInIndex` (which tables
they ask) and `NeedsCheck` (only the solver remembers): `pendingIntents` and
`settlementHealthFromOpenIntents` of `SqlNestObservationProvider`, `pendingSettlements` of
`NestSettlementDiscovery`, `fetchInputs` of the relay's `IntelligenceService`. A probe asks every receiver the
deployment had, and each may fail (`Heard`); truncated or degraded answers throw (`Fails`).
Left out: deadlines, amounts, the relay's ten-second cache and more than one call at a
time.

## 3. Runs

| Run | Instance | What it shows |
| --- | --- | --- |
| `settlement` | 2 vaults, a hooked intent of 4 and a hookless one of 3, 10 basis points to the whole, CCTP fee 0..1, one LP amount of 4, balances up to 8 | types and books, one creditor, receiver solvency, the next transaction of an intent finds what it needs, LP assets, refinement of `IntentLifecycle` and of `CanonicalDelivery`; every burn is routed; what crossed for free does not stay parked |
| `settlement_trapped` | 1 vault, the same | *violated*: a reimbursement below the principal is refused for ever |
| `subgraph` | 1 vault and its index, 2 LPs (symmetric), intents of 4 and 3, quarters for basis points, 2 virtual shares, created with floor, fill and exposure limits of 1, 3 and 1 quarters and then set to 1 or 3, LP amounts 1 and 4, balances up to 5, one unit given away | the share price never falls, nobody gains by trading, the max views can be taken at their word, only the owner breaks a limit; the row follows the vault; the age is never understated; what the solver accepts the vault pays; as long as no limit is tighter than at creation, the relay is too high by fees at most |
| `available_overstated` | the same, all limits at 2 quarters throughout | *violated*: the relay shows more available than the vault has |
| `route` | 1 intent of 2, 2 vaults, an old and a new receiver, their 2 markets | advances on the route stay backed, only vaults off it pay twice, the in-flight total covers what has not settled, each burn is received once and routed once by the receiver it names, commitments land if somebody makes the repairs |
| `views` | 2 intents, a live receiver and a retired one the index lacks, pages of 1, recheck after 1, calls of up to 1 | nothing open is missing but for the page's limit; stale rows are recent, and go |
| `worker_safety` | 2 workers (symmetric), a hooked intent and a hookless one, 1 failure or restart | no journal is ahead of the chain, nobody's money is spent on another intent, each burn is delivered and routed once |
| `worker_progress` | 1 worker, same intents, 3 failures or restarts | every burn is routed and every record is finished |
| `worker_replaced_receiver` | 1 worker on the live receiver, one burn to the retired one | *violated*: the worker settles on the live receiver what is settled on the retired one |
| `relay_pairing` | 2 keys, 2 exchanges, 3 nonces, time-to-live and timeout 0, 1 report in flight, 1 restart | who is paired has signed, for this process of the relay, a challenge that named it |
| `relay_live` | 1 key, 1 exchange, 2 nonces, time-to-live and timeout 1, 2 reports in flight, 2 restarts | with only clock and sweep going on, a solver that went quiet does not stay online; one that keeps pairing and beating is online again after each restart |
| `solver_agent` | a genuine intent, a forged row and one that always throws, 2 confirmations, reorganisations of 1 block, 1 failure or restart | paid once, tried once per process, only the genuine, only when deep unless a reorganisation tore the evidence; reported as filled only if paid; an intent that stays good to fill is attempted, also after a restart |

The bounds are small but meet every case: two vaults are needed for a race, two
intents for commingled funds and for a total that can drift, one intent of each
kind for both delivery paths; amounts 4 and 3 make the ceiling of each fee and
limit differ from its floor; a balance of 8 lets a vault hold both receivables
and an LP leave in between. `MaxBalance` limits deposits only. In `subgraph`
quarters make every conversion, cap and floor round; the owner turns the
protocol's share to the whole fee, so that fees are large enough to be missed when
somebody else spends them; and limits of one and three quarters let a vault be
taken past a cap by its owner and come back, and be looser than the row says. For the workers,
two of them and outsiders compete for each message, and a failure leaves an
orphan behind that one of them meets later; `MaxFailures` bounds failed calls,
timeouts and restarts together. In the progress run, a single worker has to do
with what its own failures left. In `relay_pairing` a third nonce lets a new
challenge be issued while both others are being answered; a time-to-live of 0
means that a challenge expires with the first tick. For the solver, a restart
leaves two fills of one intent in the mempool, from two processes; two
confirmations are the fewest with which a head can be too early, a count one short
and a reorganisation shallow. `MaxFailures` bounds thrown errors and restarts
together; failed reads and timeouts that have an outcome of their own are not
bounded. Deadlock is checked in every
run.

In `route` two vaults and two receivers are the fewest with which pointers disagree in
every way; one intent suffices, since intents meet only in the router's total, about
which the theorem speaks for all of them. In `views` a page of one row is the smallest
that hides something, and two intents the fewest of which one can be hidden; one
receiver is asked whose settlements no index has. `MaxCallTime` lets time pass while a
call is under way, which makes an answer as old as the recheck time.

All type invariants (`TypeOK`, and `IndexTypeOK` of the index's row) are theorems, as are
`WithinLimits`, `FeesAreHeld`, `IndexedPriceIsPosted` and `OnlineWasHeard`. Only the type
invariant of `FastSettlement`, in which an unsigned balance would underflow first, is part of a
run as well.

Further configurations hold counterexamples to what the repository says of itself. They
are run by hand (`tlc -config X.cfg MC…`):

| Configuration | Violates | What the code does |
| --- | --- | --- |
| `RelayStoreReordered` (`MCRelayStore`) | `SweepOnlyTheQuiet` | a late report puts `lastHeartbeatAt` back (`store.ts:126`, 166), and the sweep takes offline a vault just heard, against `store.ts:175` |
| `SolverAgentReorg` (`MCSolverAgent`) | `NoPrematureFill` | receipt and head are two calls (`viem-source-reader.ts:114`, 129); blocks after a reorganisation between them count as confirmations, against 143 |
| `RelayStoreReplayed` (`MCRelayStore`) | `ChallengeIsSingleUse` | two copies of one answer both pass the checks before either is done, and each then pairs (`store.ts:97`), against "single-use" in 59 |
| `SubgraphTightened` (`MCSubgraph`) | `CapsOfNow` | the relay computes with the limits of the vault's creation (`service.ts:168`, 246; `factory.ts:32`), against "its own caps admit right now" in `compute.ts:11`, once the owner has tightened one |
| `SubgraphCeiling` (`MCSubgraph`) | `AcceptedPriceIsClaimable` | the market rounds its ceiling down (`ArcaidiaIntentMarket.sol:99`), the posted fee is rounded up (`FeePolicyLib.sol:62`): a vault may post a price the market refuses, against `fee-policy.ts:31` |
| `IntentRouteReplaced` (`MCIntentRoute`) | `MarketRefusesPaid` | a market asks the receiver it was made with, not the one that paid, against `ArcaidiaIntentMarket.sol:82` |
| `IntentViewsHealth` (`MCIntentViews`) | `HealthNamesTheOldest` | the oldest-first page of pending rows may hold none that is open, and health then reports no backlog, against `sql-nest-observation-provider.ts:434` |
| `IntentViewsDiscovery` (`MCIntentViews`) | `DiscoveryNamesAll` | an open intent older than a page of newer rows is not tracked, against `discover-settlements.ts:70` |

Fairness: Circle attests what was burned; `settleWithProof`, `receiveMessage`
and `retryHeld` are permissionless and `runSettlementPass` repeats over every
pending record, so each stays enabled until somebody does it (weak fairness).
`RetryHeld` gets strong fairness because a vault may be unwired in between;
`FreeCanonicalNeverTrapped` alone is about owners who eventually point such a vault back
(`OwnersRepair`). The run assumes nothing about fills, pauses, LPs or deadlines. For the
worker, Circle attests, the indexer catches up, a transaction somebody waits for
is mined or reverts, and the loop reschedules itself after every pass, failed or
not; each is weak fairness, per worker and per commitment. Outsiders, orphans and
burns get none.

For the relay, `SweepSpec` is fair to two things only, the clock and the sweep, which its own
timer repeats as long as the process runs. Of the solvers it assumes nothing: any of them may stop
pairing, reporting or answering for good, and `NotOnlineOnOldNews` is about just those.
What `OnlineAgain` needs besides is its antecedent, `SolverPersists`, and no fairness of the
relay: a solver that keeps running pairs again and again (`startRepairing`) and beats
(`startHeartbeats`), and it is not unlucky for ever. Of the pairings that are repeated not every answer
comes after its challenge expired or was replaced, and of the heartbeats not all are lost.
Without that nothing could be promised over a network that loses.

The solver's pass goes on and is scheduled again after it ends (weak fairness of its
steps). Strong fairness is assumed of three answers: it is not so that discovery fails every
time, nor that the source chain's node cannot give the receipt, or the head, whenever it is asked.
Nothing is assumed of rivals, the vault or the mempool, nor of what the indexer lists; the property
itself is about intents that stay good to fill, and listed, from some time on.

On a route, Circle attests (weak fairness) and deliveries and retries, which anyone can
make and the worker repeats, are made again and again (strong fairness, since expiry
and wiring come and go). `Repairs` is the antecedent of `CommitmentsLand` and no fairness of
the code: somebody asks Circle for a new attestation, finishes a deployment, points vaults at the
receiver that holds their money, and the token's issuer relents.

For the views, time passes and every call ends; the solver's loop asks for its health again
and again, and it is not so that every one of these calls has a read that fails.

## 4. Proofs

`FastSettlement_proofs` proves, for every finite set of vaults and intents and
all amounts, limits, fee schedules and CCTP fees the module's assumptions allow,
that `TypeOK`, `ExposureIsSumOfPrincipals`, `OnlyTheWinnerIsOwed`,
`ReceiverHoldsWhatItOwes` and `WithinLimits` are invariants of `Spec`.

The inductive invariant `IInv` adds two facts. `WinnerFilled`: the vault's
`intentFilled` and the market's `filledBy` agree, without which a second fill
could overwrite a principal. `Routed(i)`: how far the receiver is with an intent,
in terms of the winner and the message; above all a hooked message that has been
received has been routed, so that only whole, hookless mints are ever waiting for
`settle`, which takes the burned amount out of the common balance. `IInv` is
split in the books of the vaults (`BooksInv`), the protocol state (`ProtocolInv`)
and the receiver's money (`FundsInv`); each action has a lemma per part that it
disturbs. `IInv` itself was model-checked before it was proved.

From `IInv` three theorems about steps follow. `LpAssetsSafe` proves
`LpAssetsNeverLost`: only an LP's withdrawal lowers what a vault is worth to its
LPs. `ReceiverDelivers` proves that `FastSettlement` implements
`CanonicalDelivery`; `Routed` gives that what is being routed was not routed before.
`PromiseKept` proves that it implements `IntentLifecycle`, intent by intent, which is the
promise to a user. The mapping reads the abstract status off the market and the
receiver; `StatusMeans` says what each status is made of. Then a creation is the
abstract creation (`CreateIsCreate`), a fill of this intent the advance (`FillIsAdvance`,
for which the market's own check must rule out every status but pending), a routing
the repayment or the delivery (`RouteIsRepayOrDeliver`), and whatever leaves
the intent's variables alone is a stutter (`LifecycleStutters`).

`NothingIsStuck` is the safety core of the liveness properties: `MoneyCanMove` says that the
next delivery, settlement or retry of an intent always finds what its checks ask for. If one
did not, no amount of trying would help. For the money this follows from `Routed` and
the receiver's total: what an intent is owed is part of what is there (`OwedIsThere`). For the winner
the invariant must be strengthened by `ParkedIsMinted`: what is parked for a vault is the mint of that very
message, so it falls short of the principal only by the fee Circle
executed. That the winner then accepts (`WinnerAccepts`) needs the exactness of
`outstandingExposure`, whose checked subtraction could otherwise block it.

`Subgraph_proofs` first proves all properties of `LiquidityVault` for every
number of LPs and intents and any amounts, limits, policy and offset. Its
invariant adds `SupplyIsSumOfShares` to types and held fees: an LP's shares are
part of the supply, so what they are worth is less than the vault's assets, which
is why a withdrawal within the views cannot fail. For the price, one lemma each
shows that minting at a price rounded up and burning at one rounded down keep
`(totalAssets + 1) / (supply + VirtualShares)` from falling, and a reimbursement
raises the assets by at least what the protocol leaves. That a trader gains nothing either
(`TradesAreFair`) is another matter, since she holds a part of the shares whose price rounding
raises: `TradeIsFair` treats buying and selling as one trade with signed amounts, multiplies
the floors out, and finds that what is left is a product of the shares she does not hold and of
what rounding took, which is not negative. This needs `SupplyIsSumOfShares` again, so
that nobody holds more than there is. `OnlyTheOwnerBreaksLimits` uses
the lemmas about limits in `Arithmetic_proofs`. One rounding is a fact about the code
worth knowing: `maxRedeem` may name shares that are worth nothing, which `redeem`
then refuses with `ZeroAmount`.

Of the index, the module then shows that each step of the indexed vault is one of
`LiquidityVault` (`IndexImplementsVault`), so that the vault's theorems hold of it. The inductive
invariant is `RowFollowsVault` with the vault's types and books, the row's tier and the age. As
long as nobody has given the vault money, the row shows the price the vault posts
(`IndexShowsThePrice`).
`SignedFillsAreAccepted` then compares `evaluateIntent` with the vault's checks:
the reserve floor and the caps read from the chain are those the vault will use, the row's liquidity is
not above the vault's when fees are taken off, and the solver's quote is the posted fee. For
`RelayOverstatesFeesOnly` floor and ceiling division are shown to move by no more than their
argument, so that fees counted as liquidity raise each of the three limits by the fees at most;
and a looser percentage to allow no less (`LooserShare`), which leads from the limits in the row to
the vault's own.

`IntentRoute_proofs` proves for any intents, vaults, receivers and markets that
`OnRouteIsBacked`, `PaidTwiceOnlyOffRoute` and `InFlightCoversUnsettled` are invariants. The
strengthening (`RouteInv`) says that an outcome exists only at the receiver the burn is bound to
(`OutcomesAtBound`), that the market this receiver asks names an on-route winner for good
(`OnRouteWins`), and that no fallback comes before or after such a fill (`OnRouteFirst`).
Settlement then either repays the winner, and clears what it is owed, or holds the money in
its name. Rewiring after the fill does not matter to any of these, since they are about the
moment of the fill. For the total, what is in flight and what was released add up to what
was committed (`FlowAddsUp`), and what was released and what has not settled are two
ledgers that do not overlap (`DisjointLedgers`) as long as only settled intents are released.
`RouteDelivers` proves that the route implements `CanonicalDelivery`: an expired message is one
that waits for another signature (`StageOf`), and `ReceivedIsRouted`, that a message was received
exactly when some receiver has an outcome for it, rules out a second routing by a receiver that
came later.

`IntentViews_proofs` proves `NothingOpenIsMissing` and `StaleIsRecent` for any intents,
receivers, page sizes and recheck time. An answer is put together from what was read when the call
began and what is read when it ends, so its invariant is about the call under way:
what the page lacks is beyond its limit or done in the index, which never takes that back
(`PageIsWhole`); what will not be probed is known to be settled, or was heard to be open no longer ago than
the recheck time and the call together (`UncheckedIsFresh`); and an intent is not settled for longer
than since the cache heard that it was open (`OpenWasHeardBefore`), where the two readers that
share the cache meet. Two more theorems say where the claims hold that two configurations of
section 3 refute: `DiscoveryIsCompleteOnOnePage` and `HealthIsRightOnOnePage`, as long as all
intents there are fit on the reader's page.

`SettlementWorker_proofs` assumes `OneReceiver`: workers are configured with the
receiver the burns name. The run `worker_replaced_receiver` shows that little
below holds without it. For any workers, intents, amounts, failures and restarts it
then proves `TypeOK` (`WorkerTypeCorrect`), `ReceiversHoldTheirOwn` (`OwnMoneyOnly`),
`JournalNeverAhead` (`JournalBehindChain`) and the refinement of `CanonicalDelivery`
(`WorkersDeliver`). Its invariant adds four facts: a hooked message that was
received is routed and only received messages are (`RoutedIsReceived`); a cached
status is never ahead of the message (`CacheBehindChain`); a worker that is about
to settle has seen the message received, and one that holds a successful receipt
has its effect on chain (`Positions`); and an abandoned `settle` is for an intent
whose message was received (`OrphanSettles`), which is why it can come as late as
it likes. The last two are what keeps `settle`, which pays from the common
balance, from spending what is parked for another intent.

`RelayStore_proofs` proves, for any keys, exchanges, nonces and timeouts, that
`TypeOK`, `PairedHasSigned` and `OnlineWasHeard` are invariants of `Spec`. The
strengthening is `VerifyingHasSigned`: an exchange whose caller holds the key it
claims and whose answer is being verified has signed a challenge of this process that
stood when verification began. It says nothing of the challenge pending now, and this is why
the await does no harm here.

`SolverAgent_proofs` proves all six safety properties of `SolverAgent` for any sets of
intents and rows, any `Required` and any number of failures. Each has a small
invariant of its own. `Tried`: the history of attempts is what the journal says, and
what is being looked at is not in it, so that the check made before the first await
still holds when the journal is marked. `Verified`: from the receipt on, the intent
looked at, and whatever is in the mempool, is genuine. `Landed`: a receipt that is
believed is of a fill that paid. `PaysAtMostOnce` is inductive as it stands, since
`claimIntent` decides it. `Deep` gives `PrematureOnlyIfTorn`: what was counted when
the head came is there and is too deep to go away, for any `MaxReorg < Required`,
unless a reorganisation fell between the two reads of the evidence. The configuration
`SolverAgentReorg` shows that this exception is needed: `NoPrematureFill` itself holds
only where `MaxReorg = 0` (`NoReorgNoPrematureFill`). `WinnerStep`, `MempoolStep` and `VisitStep` say once which steps can change what these
invariants speak of.

Every safety property, action property and refinement that a passing run checks is a theorem.
Only model-checked are the liveness properties: `EveryBurnSettles` and
`FreeCanonicalNeverTrapped` (`settlement`), `CommitmentsLand` (`route`), `EveryBurnIsRouted` and
`JournalCatchesUp` (`worker_progress`), `StaleRowsGo` (`views`), `NotOnlineOnOldNews` and
`OnlineAgain` (`relay_live`), and `StandingIsAttempted` (`solver_agent`). They rest on fairness, hence on
`ENABLED`, which no installed prover handles. What a recursive definition computes for all
inputs would need induction over data and is out of reach as well; the modules avoid it, and
`RunningTotals` counts units where one would fold.

## 5. Plan

1. `RunningTotals`, `VaultMath`, `IntentLifecycle`, `FastSettlement` with proofs (done).
2. `CanonicalDelivery`, `SettlementWorker` with proofs (done).
3. `LiquidityVault` with proofs (done).
4. `RelayStore` with proofs (done).
5. `SolverAgent` with proofs (done).
6. `SolverPolicy`, `Subgraph` with proofs (done).
7. `IntentRoute` with proofs (done).
8. `IntentViews` with proofs (done).
9. Proofs: the refinements of `IntentLifecycle` and, by `IntentRoute`, of `CanonicalDelivery`,
   the safety properties of `IntentViews`, the safety core of settlement's liveness, trading
   in shares (done).
10. An abstract account of a vault that `LiquidityVault` and each vault of `FastSettlement` implement;
    safety cores, like `MoneyCanMove`, for the worker, the relay and the solver; a variant of
    `SolverAgent` that reads the receipt's block again after the head, for which
    `NoPrematureFill` should hold for every `MaxReorg < Required`.

## 6. Not modelled

Forged hooks and the receiver's reporter list, signer and nonce lists of a vault, swap
execution, ownership transfers, the first deployment, the substreams and the daily figures of the index, the
latency and volume figures of the relay, the gateway, load generation and the user
interfaces: they keep no state that the protocol's promises depend on, or only guard who may call. See the notes of each
component in `PROJECT.json`.
