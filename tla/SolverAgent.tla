---------------------------- MODULE SolverAgent ----------------------------
(***************************************************************************)
(* A solver (packages/agent): passes over what the indexer lists, and      *)
(* processIntent with its awaits, against a source chain that may reorg,   *)
(* other vaults, canonical settlement, and a vault whose owner and LPs     *)
(* change what it will pay.  A submitted fill lives on in the mempool when *)
(* its solver has stopped waiting for it, or has restarted.                *)
(*                                                                         *)
(* Amounts, fees and limits are reduced to two answers per intent: whether *)
(* the vault would pay it now, and whether evaluateIntent would accept it  *)
(* from what the solver is shown, which may be older, or mixed.            *)
(***************************************************************************)
EXTENDS Naturals, FiniteSets

CONSTANTS
    Genuine,       \* intents the router has created
    Forged,        \* rows that misreport the deep transaction they name
    Unroutable,    \* rows whose chains the configuration does not know
    None,
    Required,      \* requiredConfirmations
    MaxReorg,      \* blocks a reorganisation of the source chain replaces
    MaxFailures    \* bound on failed calls and restarts together

Intents  == Genuine \cup Forged \cup Unroutable
Routable == Genuine \cup Forged

ASSUME IntentsAssumption ==
    /\ IsFiniteSet(Intents)
    /\ Genuine \cap Forged = {}
    /\ Routable \cap Unroutable = {}
    /\ None \notin Intents \cup {"own", "rival"}
ASSUME ConfirmationsAssumption ==
    /\ Required \in Nat \ {0}
    /\ MaxReorg \in 0 .. Required - 1
ASSUME FailuresAssumption == MaxFailures \in Nat

VARIABLES
    conf,          \* confirmations of each intent's transaction; 0: not in the chain
    winner,        \* who filled it: this solver's vault, another, or None
    settled,       \* intents settled canonically
    lapsed,        \* intents whose deadline has passed
    fillable,      \* intents the vault would pay: limits, fee tier, signer, pause
    willing,       \* intents evaluateIntent would accept from what is observed
    listed,        \* intents the indexer lists as pending
    knownFilled,   \* fills the indexer has seen
    todo,          \* intents left in this pass
    visit,         \* where processIntent stands
    fate,          \* what became of the transaction it waits for
    journal,       \* InMemorySubmissionJournal
    mempool,       \* fills submitted and not mined
    life,          \* restarts so far
    failures,
    reported,      \* last ProcessOutcome of each intent that was submitted
    attempts,      \* history: submissions since the last restart
    torn,          \* history: whose block was dropped between receipt and head
    paid           \* history: payments by this solver's vault

chainVars  == <<conf, torn, winner, settled, lapsed, fillable, paid>>
indexVars  == <<willing, listed, knownFilled>>
solverVars == <<todo, visit, fate, journal, life, failures, reported, attempts>>
vars == <<chainVars, indexVars, solverVars, mempool>>

Places == {"asleep", "listing", "choosing", "asked", "receipt", "head",
           "vault", "signing", "waiting"}
Between == {"asleep", "listing", "choosing"}      \* no intent is looked at

At(place, i) == [at |-> place, on |-> i, lapsed |-> FALSE, seen |-> 0]

Visits == [at : Places, on : Intents \cup {None}, lapsed : BOOLEAN,
           seen : 0 .. Required]

Fills == [intent : Intents, life : 0 .. MaxFailures]

Init ==
    /\ conf = [i \in Intents |-> IF i \in Forged THEN Required ELSE 0]
    /\ winner = [i \in Intents |-> None]
    /\ settled = {}
    /\ lapsed = {}
    /\ fillable = {}
    /\ willing = {}
    /\ listed = Forged \cup Unroutable
    /\ knownFilled = {}
    /\ todo = {}
    /\ visit = At("asleep", None)
    /\ fate = "none"
    /\ journal = {}
    /\ mempool = {}
    /\ life = 0
    /\ failures = 0
    /\ reported = [i \in Intents |-> "none"]
    /\ attempts = [i \in Intents |-> 0]
    /\ torn = {}
    /\ paid = [i \in Intents |-> 0]

-----------------------------------------------------------------------------
(* The source chain.  A reorganisation drops only what is not yet deep.  *)

Deeper(n) == IF n \in 1 .. Required - 1 THEN n + 1 ELSE n

Include(i) ==
    /\ conf[i] = 0
    /\ conf' = [conf EXCEPT ![i] = 1]
    /\ UNCHANGED <<torn, winner, settled, lapsed, fillable, paid, indexVars,
                   solverVars, mempool>>

\* A receipt that was read keeps its block; the head moves on.
NewBlock ==
    /\ conf' = [i \in Intents |-> Deeper(conf[i])]
    /\ visit' = IF visit.at = "head" THEN [visit EXCEPT !.seen = Deeper(@)]
                ELSE visit
    /\ UNCHANGED <<torn, winner, settled, lapsed, fillable, paid, indexVars, todo,
                   fate, journal, life, failures, reported, attempts, mempool>>

Reorganise(i) ==
    /\ conf[i] \in 1 .. MaxReorg
    /\ conf' = [conf EXCEPT ![i] = 0]
    /\ torn' = IF visit.at = "head" /\ visit.on = i THEN torn \cup {i} ELSE torn
    /\ UNCHANGED <<winner, settled, lapsed, fillable, paid, indexVars,
                   solverVars, mempool>>

-----------------------------------------------------------------------------
(* Everybody else on the destination chain, and the indexer. *)

Open(i) == winner[i] = None /\ i \notin settled \cup lapsed

RivalFills(i) ==
    /\ Open(i)
    /\ winner' = [winner EXCEPT ![i] = "rival"]
    /\ UNCHANGED <<conf, torn, settled, lapsed, fillable, paid, indexVars,
                   solverVars, mempool>>

Settle(i) ==
    /\ conf[i] = Required
    /\ settled' = settled \cup {i}
    /\ UNCHANGED <<conf, torn, winner, lapsed, fillable, paid, indexVars,
                   solverVars, mempool>>

\* A forged row goes no further than its receipt, whatever its deadline.
DeadlinePasses(i) ==
    /\ lapsed' = lapsed \cup {i}
    /\ UNCHANGED <<conf, torn, winner, settled, fillable, paid, indexVars,
                   solverVars, mempool>>

VaultChanges(i) ==
    /\ fillable' = IF i \in fillable THEN fillable \ {i} ELSE fillable \cup {i}
    /\ UNCHANGED <<conf, torn, winner, settled, lapsed, paid, indexVars, solverVars,
                   mempool>>

ObservationChanges(i) ==
    /\ willing' = IF i \in willing THEN willing \ {i} ELSE willing \cup {i}
    /\ UNCHANGED <<listed, knownFilled, chainVars, solverVars, mempool>>

IndexIntent(i) ==
    /\ conf[i] > 0
    /\ listed' = listed \cup {i}
    /\ UNCHANGED <<willing, knownFilled, chainVars, solverVars, mempool>>

IndexFill(i) ==
    /\ winner[i] # None
    /\ knownFilled' = knownFilled \cup {i}
    /\ UNCHANGED <<willing, listed, chainVars, solverVars, mempool>>

-----------------------------------------------------------------------------
(* The mempool.  An authorization may have expired by the time it is mined. *)

\* Mutant: neither market nor vault remembers a fill.
FillAccepted_Again(f) ==
    /\ f.intent \notin settled \cup lapsed
    /\ f.intent \in fillable

FillAccepted(f) ==
    /\ Open(f.intent)
    /\ f.intent \in fillable

\* The receipt that arrives is that of the fill that was sent.  A node returns
\* another's only if that took the same nonce of the same account; nobody else
\* uses the solver's, and a fill keeps the nonce it was sent with.
Awaited(f) ==
    /\ visit.at = "waiting"
    /\ visit.on = f.intent
    /\ life = f.life

Mine(f) ==
    /\ mempool' = mempool \ {f}
    /\ \E result \in {"success", "reverted"} :
          /\ result = "success" => FillAccepted(f)
          /\ winner' = IF result = "success" THEN [winner EXCEPT ![f.intent] = "own"]
                       ELSE winner
          /\ paid'   = IF result = "success" THEN [paid EXCEPT ![f.intent] = @ + 1]
                       ELSE paid
          /\ fate'   = IF Awaited(f) THEN result ELSE fate
    /\ UNCHANGED <<conf, torn, settled, lapsed, fillable, indexVars, todo, visit,
                   journal, life, failures, reported, attempts>>

-----------------------------------------------------------------------------
(* runSolverPass. *)

Goto(place) == visit' = [visit EXCEPT !.at = place]
Leave == visit' = At("choosing", None)

StartPass ==
    /\ visit.at = "asleep"
    /\ visit' = At("listing", None)
    /\ UNCHANGED <<todo, fate, journal, life, failures, reported, attempts,
                   chainVars, indexVars, mempool>>

\* pendingIntents answers: the indexer's rows less known fills, and less
\* whatever a receiver was heard to have settled.
Discover ==
    /\ visit.at = "listing"
    /\ \E probed \in SUBSET settled : todo' = listed \ (knownFilled \cup probed)
    /\ Leave
    /\ UNCHANGED <<fate, journal, life, failures, reported, attempts, chainVars,
                   indexVars, mempool>>

\* It throws, DISCOVERY_FAILED: nothing is processed until the next tick.
DiscoveryFails ==
    /\ visit.at = "listing"
    /\ visit' = At("asleep", None)
    /\ UNCHANGED <<todo, fate, journal, life, failures, reported, attempts,
                   chainVars, indexVars, mempool>>

\* Mutant: what processIntent throws is not caught per intent.
Choose_ThrowEndsPass(i) ==
    /\ visit.at = "choosing"
    /\ i \in todo
    /\ \/ /\ i \in Unroutable
          /\ todo' = {}
          /\ visit' = At("asleep", None)
       \/ /\ i \in journal
          /\ todo' = todo \ {i}
          /\ UNCHANGED visit
       \/ /\ i \notin Unroutable \cup journal
          /\ todo' = todo \ {i}
          /\ visit' = At("asked", i)
    /\ UNCHANGED <<fate, journal, life, failures, reported, attempts, chainVars,
                   indexVars, mempool>>

\* processIntent up to its first await: the route is resolved, or that throws;
\* what was attempted, or is for a vault that does not know the signer, is
\* skipped.
Choose(i) ==
    /\ visit.at = "choosing"
    /\ i \in todo
    /\ todo' = todo \ {i}
    /\ \/ /\ i \in Unroutable \cup journal \/ i \notin willing
          /\ UNCHANGED visit
       \/ /\ i \notin Unroutable \cup journal
          /\ visit' = At("asked", i)
    /\ UNCHANGED <<fate, journal, life, failures, reported, attempts, chainVars,
                   indexVars, mempool>>

EndPass ==
    /\ visit.at = "choosing"
    /\ todo = {}
    /\ visit' = At("asleep", None)
    /\ UNCHANGED <<todo, fate, journal, life, failures, reported, attempts,
                   chainVars, indexVars, mempool>>

-----------------------------------------------------------------------------
(* processIntent, from await to await. *)

\* isFilled answers; the clock is read once, for the deadline and the expiry.
AskFilled ==
    /\ visit.at = "asked"
    /\ \/ /\ visit.on \in knownFilled
          /\ Leave
       \/ /\ visit.on \notin knownFilled
          /\ visit' = [visit EXCEPT !.at = "receipt", !.lapsed = visit.on \in lapsed]
    /\ UNCHANGED <<todo, fate, journal, life, failures, reported, attempts,
                   chainVars, indexVars, mempool>>

\* Mutant: the receipt is not compared with the candidate.
ReadReceipt_Unverified ==
    /\ visit.at = "receipt"
    /\ \/ Leave
       \/ /\ conf[visit.on] > 0
          /\ visit' = [visit EXCEPT !.at = "head", !.seen = conf[visit.on]]
    /\ UNCHANGED <<todo, fate, journal, life, failures, reported, attempts,
                   chainVars, indexVars, mempool>>

\* readEvidence's receipt.  There is none, the node does not answer, or
\* verifySourceTransaction finds that the event says something else:
\* UNVERIFIED.
ReadReceipt ==
    /\ visit.at = "receipt"
    /\ \/ Leave
       \/ /\ conf[visit.on] > 0
          /\ visit.on \in Genuine
          /\ visit' = [visit EXCEPT !.at = "head", !.seen = conf[visit.on]]
    /\ UNCHANGED <<todo, fate, journal, life, failures, reported, attempts,
                   chainVars, indexVars, mempool>>

\* A head that cannot be read counts as no confirmations.
ReadHead ==
    /\ visit.at = "head"
    /\ \/ /\ visit.lapsed
          /\ Leave
       \/ /\ ~ visit.lapsed
          /\ \E seen \in {0, visit.seen} :
                visit' = [visit EXCEPT !.at = "vault", !.seen = seen]
    /\ UNCHANGED <<todo, fate, journal, life, failures, reported, attempts,
                   chainVars, indexVars, mempool>>

\* Mutant: one confirmation short.
Accepts_OneShort == visit.seen >= Required - 1 /\ visit.on \in willing

Accepts == visit.seen >= Required /\ visit.on \in willing

\* Vault state and settlement health arrive and evaluateIntent decides.
Evaluate ==
    /\ visit.at = "vault"
    /\ IF Accepts THEN Goto("signing") ELSE Leave
    /\ UNCHANGED <<todo, fate, journal, life, failures, reported, attempts,
                   chainVars, indexVars, mempool>>

Report(outcome) == reported' = [reported EXCEPT ![visit.on] = outcome]

Fill == [intent |-> visit.on, life |-> life]

\* Mutant: marked once the transaction is known to be on its way.
Submit_MarksLate ==
    /\ visit.at = "signing"
    /\ attempts' = [attempts EXCEPT ![visit.on] = @ + 1]
    /\ \/ /\ mempool' = mempool \cup {Fill}
          /\ journal' = journal \cup {visit.on}
          /\ Goto("waiting")
          /\ UNCHANGED reported
       \/ /\ mempool' \in {mempool, mempool \cup {Fill}}
          /\ Report("SUBMISSION_FAILED")
          /\ Leave
          /\ UNCHANGED journal
    /\ UNCHANGED <<todo, fate, life, failures, chainVars, indexVars>>

\* Mutant: a fill is reported as landed when it was sent.
Submit_WithoutWaiter ==
    /\ visit.at = "signing"
    /\ journal' = journal \cup {visit.on}
    /\ attempts' = [attempts EXCEPT ![visit.on] = @ + 1]
    /\ mempool' = mempool \cup {Fill}
    /\ Report("FILLED")
    /\ Leave
    /\ UNCHANGED <<todo, fate, life, failures, chainVars, indexVars>>

\* The authorization is signed, the journal marked and the fill sent.  A call
\* that fails may have been refused, or may have reached the mempool.
Submit ==
    /\ visit.at = "signing"
    /\ journal' = journal \cup {visit.on}
    /\ attempts' = [attempts EXCEPT ![visit.on] = @ + 1]
    /\ \/ /\ mempool' = mempool \cup {Fill}
          /\ Goto("waiting")
          /\ UNCHANGED reported
       \/ /\ mempool' \in {mempool, mempool \cup {Fill}}
          /\ Report("SUBMISSION_FAILED")
          /\ Leave
    /\ UNCHANGED <<todo, fate, life, failures, chainVars, indexVars>>

\* The receipt arrives.
Confirm ==
    /\ visit.at = "waiting"
    /\ \/ fate = "success"  /\ Report("FILLED")
       \/ fate = "reverted" /\ Report("LOST_RACE")
    /\ fate' = "none"
    /\ Leave
    /\ UNCHANGED <<todo, journal, life, failures, attempts, chainVars, indexVars,
                   mempool>>

\* It does not, in time or at all; the fill stays where it is.
TimeOut ==
    /\ visit.at = "waiting"
    /\ Report("SUBMISSION_FAILED")
    /\ fate' = "none"
    /\ Leave
    /\ UNCHANGED <<todo, journal, life, failures, attempts, chainVars, indexVars,
                   mempool>>

\* A read or the signer fails: ERROR, and the pass goes on.
Throw ==
    /\ failures < MaxFailures
    /\ visit.at \in {"asked", "vault", "signing"}
    /\ failures' = failures + 1
    /\ Leave
    /\ UNCHANGED <<todo, fate, journal, life, reported, attempts, chainVars,
                   indexVars, mempool>>

Crash ==
    /\ failures < MaxFailures
    /\ failures' = failures + 1
    /\ life' = life + 1
    /\ visit' = At("asleep", None)
    /\ fate' = "none"
    /\ todo' = {}
    /\ journal' = {}
    /\ attempts' = [i \in Intents |-> 0]
    /\ UNCHANGED <<reported, chainVars, indexVars, mempool>>

-----------------------------------------------------------------------------
SourceNext(i) ==
    \/ Include(i)
    \/ Reorganise(i)
    \/ RivalFills(i)
    \/ Settle(i)
    \/ DeadlinePasses(i)
    \/ IndexIntent(i)

DestinationNext(i) ==
    \/ VaultChanges(i)
    \/ ObservationChanges(i)
    \/ IndexFill(i)

SolverNext ==
    \/ StartPass
    \/ Discover
    \/ DiscoveryFails
    \/ \E i \in Intents : Choose(i)
    \/ EndPass
    \/ AskFilled
    \/ ReadReceipt
    \/ ReadHead
    \/ Evaluate
    \/ Submit
    \/ Confirm
    \/ TimeOut

Next ==
    \/ \E i \in Genuine : SourceNext(i)
    \/ \E i \in Routable : DestinationNext(i)
    \/ NewBlock
    \/ \E f \in mempool : Mine(f)
    \/ SolverNext
    \/ Throw
    \/ Crash

Spec == Init /\ [][Next]_vars

\* The worker schedules its next pass after every pass, and every call it
\* makes answers or fails.  Neither the indexer nor the nodes it reads from
\* fail it every time.
FairSpec ==
    /\ Spec
    /\ WF_vars(SolverNext)
    /\ SF_vars(Discover)
    /\ \A i \in Genuine :
          /\ SF_vars(visit.on = i /\ ReadReceipt /\ visit'.at = "head")
          /\ SF_vars(visit.on = i /\ ReadHead /\ visit'.seen = visit.seen)

-----------------------------------------------------------------------------
TypeOK ==
    /\ conf \in [Intents -> 0 .. Required]
    /\ torn \subseteq Genuine
    /\ winner \in [Intents -> {"own", "rival", None}]
    /\ settled \subseteq Genuine
    /\ lapsed \subseteq Genuine
    /\ fillable \subseteq Routable
    /\ willing \subseteq Routable
    /\ listed \subseteq Intents
    /\ knownFilled \subseteq Routable
    /\ todo \subseteq Intents
    /\ visit \in Visits
    /\ visit.at \in Between <=> visit.on = None
    /\ fate \in {"none", "success", "reverted"}
    /\ fate # "none" => visit.at = "waiting"
    /\ journal \subseteq Intents
    /\ mempool \subseteq Fills
    /\ life \in 0 .. MaxFailures
    /\ failures \in life .. MaxFailures
    /\ reported \in [Intents -> {"none", "FILLED", "LOST_RACE", "SUBMISSION_FAILED"}]
    /\ attempts \in [Intents -> Nat]
    /\ paid \in [Intents -> Nat]

\* However many fills of one intent are left in the mempool by timeouts, failed
\* calls and restarts, the vault pays it at most once, and only if no other
\* vault has ("Safe to retry", process-intent.ts:119).
PaysAtMostOnce ==
    \A i \in Intents : paid[i] = IF winner[i] = "own" THEN 1 ELSE 0

\* "a retry must not assume failure means nothing happened"
\* (process-intent.ts:245): a process submits an intent at most once.
OneAttemptPerLife == \A i \in Intents : attempts[i] <= 1

\* "a compromised indexer must not be able to move LP capital"
\* (process-intent.ts:15): the vault pays whatever this solver signs, and the
\* solver signs nothing the router did not emit.
NoForgedFill == \A i \in Forged : winner[i] # "own"

\* LP capital is advanced only against a commitment deep enough in the source
\* chain to stay there: "a source reorg after a fast fill is an unrecoverable
\* loss" (confirmations.ts:5).
NoPrematureFill ==
    \A i \in Intents : winner[i] = "own" => conf[i] = Required

\* A reorganisation between the two reads of readEvidence is the one way to a
\* premature fill: answers that are old when they are used, a shallow
\* reorganisation at any other time and a fill that outlives its process are
\* not.
PrematureOnlyIfTorn ==
    \A i \in Intents : winner[i] = "own" => conf[i] = Required \/ i \in torn

\* "a fill is only reported as landed once its receipt says success"
\* (viem-fill-submitter.ts:30): what is reported as filled was paid.
FilledWasPaid == \A i \in Intents : reported[i] = "FILLED" => winner[i] = "own"

Standing(i) ==
    /\ Open(i)
    /\ i \in listed \ knownFilled
    /\ i \in willing
    /\ conf[i] = Required

\* An intent that stays good to fill is attempted, and again by the process that
\* is left when restarts are over, whatever else is listed and whatever listings
\* fail: a row that makes processIntent throw on every pass is not "a denial of
\* service for every other one" (run-solver-pass.ts:14).
StandingIsAttempted ==
    \A i \in Genuine : <>[]Standing(i) => []<>(i \in journal)
=============================================================================
