---------------------------- MODULE IntentViews -----------------------------
(***************************************************************************)
(* What the services know of the intents of one route.  The source chain's *)
(* index lists what was created, and lists it as pending for ever: fills   *)
(* and settlements happen on the destination chain, whose index knows only *)
(* the vaults and receivers it has as sources.  So each service asks       *)
(* three: the source's rows, a page of them; the destination's rows; and   *)
(* the destination chain itself, outcomeOf on every receiver it ever had,  *)
(* some of which may not answer.  Between the first answer and the last    *)
(* the chain moves on.                                                     *)
(*                                                                         *)
(* The readers:                                                            *)
(*   pending       the solver's list of intents to fill                    *)
(*   health        the solver's oldest unsettled intent and their sum      *)
(*   discovery     the settlement worker's list of intents to settle       *)
(*   intelligence  the relay's outstanding intents                         *)
(* The first two are calls of one object, one at a time, and share what it *)
(* remembers of the chain; the others remember nothing, so that following  *)
(* one call at a time loses no interleaving that matters.  Intents are     *)
(* numbered as they are created; times are in units of which               *)
(* OPEN_RECHECK_SECONDS is RecheckAfter.                                   *)
(***************************************************************************)
EXTENDS Naturals, FiniteSets

CONSTANTS
    MaxIntents,     \* bound: intents created
    Receivers,      \* allSettlementReceivers of the destination, live first
    Indexed,        \* those the destination's index has a source for
    PageSize,       \* rows per page, per reader, where it has one
    RecheckAfter,   \* OPEN_RECHECK_SECONDS
    MaxCallTime,    \* bound: how long a call may last
    None            \* no call, no outcome

ASSUME ViewAssumption ==
    /\ MaxIntents \in Nat
    /\ None \notin Receivers
    /\ Indexed \subseteq Receivers
    /\ PageSize \in [{"health", "discovery", "intelligence"} -> Nat \ {0}]
    /\ RecheckAfter \in Nat \ {0}
    /\ MaxCallTime \in Nat

VARIABLES
    created,         \* intents created, 1 .. created
    listed,          \* rows the source's index has of them, 1 .. listed
    outcome,         \* the receiver that settled an intent, or None
    fillRows,        \* fills the destination's index shows
    settlementRows,  \* settlements it shows
    settledOnChain,  \* the solver's cache: final outcomes
    sinceOpen,       \* and the time since it asked and heard NONE
    call,            \* the call under way
    answer,          \* the answer of the last one, until the next
    settledFor       \* history: time since an intent was settled

chainVars  == <<created, outcome, settledFor>>
indexVars  == <<listed, fillRows, settlementRows>>
cacheVars  == <<settledOnChain, sinceOpen>>
callVars   == <<call, answer>>
vars == <<chainVars, indexVars, cacheVars, callVars>>

Intents == 1 .. MaxIntents
Readers == {"pending", "health", "discovery", "intelligence"}
Solver  == {"pending", "health"}

\* Where counting stops: no comparison tells later times apart.
LongAgo == RecheckAfter + MaxCallTime

Calls ==
    [reader : Readers, rows : SUBSET Intents, toCheck : SUBSET Intents,
     seen : 0 .. MaxIntents, time : 0 .. MaxCallTime]

Answers ==
    [reader : Readers, rows : SUBSET Intents, unanswered : SUBSET Intents]

-----------------------------------------------------------------------------
Init ==
    /\ created = 0
    /\ listed = 0
    /\ outcome = [i \in Intents |-> None]
    /\ fillRows = {}
    /\ settlementRows = {}
    /\ settledOnChain = {}
    /\ sinceOpen = [i \in Intents |-> LongAgo]
    /\ call = None
    /\ answer = None
    /\ settledFor = [i \in Intents |-> 0]

-----------------------------------------------------------------------------
(* The chains and their indexes. *)

Create ==
    /\ created < MaxIntents
    /\ created' = created + 1
    /\ UNCHANGED <<outcome, settledFor, indexVars, cacheVars, callVars>>

\* handleIntentCreated; nothing ever changes the row's two statuses.
List ==
    /\ listed < created
    /\ listed' = listed + 1
    /\ UNCHANGED <<chainVars, fillRows, settlementRows, cacheVars, callVars>>

\* handleIntentFilled, of a vault the index has as a source: nobody asks the
\* chain for a fill, so one the index does not show is none.
Fill(i) ==
    /\ i <= created
    /\ fillRows' = fillRows \cup {i}
    /\ UNCHANGED <<chainVars, listed, settlementRows, cacheVars, callVars>>

Settle(i, r) ==
    /\ i <= created
    /\ outcome[i] = None
    /\ outcome' = [outcome EXCEPT ![i] = r]
    /\ UNCHANGED <<created, settledFor, indexVars, cacheVars, callVars>>

\* record: a settlement on a receiver the index has as a source.
IndexSettlement(i) ==
    /\ outcome[i] \in Indexed
    /\ settlementRows' = settlementRows \cup {i}
    /\ UNCHANGED <<chainVars, listed, fillRows, cacheVars, callVars>>

Later(t) == IF t < LongAgo THEN t + 1 ELSE LongAgo

Tick ==
    /\ call # None => call.time < MaxCallTime
    /\ call' = IF call = None THEN None ELSE [call EXCEPT !.time = @ + 1]
    /\ sinceOpen' = [i \in Intents |-> Later(sinceOpen[i])]
    /\ settledFor' = [i \in Intents |->
                        IF outcome[i] = None THEN 0 ELSE Later(settledFor[i])]
    /\ UNCHANGED <<created, outcome, indexVars, settledOnChain, answer>>

-----------------------------------------------------------------------------
(* A call: first the indexes ... *)

\* The rows of a page: the oldest for health, the newest for the others.
Page(k) ==
    CASE k = "pending" -> 1 .. listed
      [] k = "health"  -> {i \in 1 .. listed : i <= PageSize[k]}
      [] OTHER         -> {i \in 1 .. listed : listed < i + PageSize[k]}

\* Mutant: the worker, too, takes a filled intent for a resolved one.
DoneInIndex_Resolved(k) ==
    CASE k = "pending" -> fillRows
      [] k = "health"  -> {}
      [] OTHER         -> fillRows \cup settlementRows

\* What the destination's index takes off the page.
DoneInIndex(k) ==
    CASE k = "pending"      -> fillRows
      [] k = "health"       -> {}
      [] k = "discovery"    -> settlementRows
      [] k = "intelligence" -> fillRows \cup settlementRows

\* Mutant: asked again one unit too late.
NeedsCheck_Later(k, i) ==
    k \in Solver => i \notin settledOnChain /\ sinceOpen[i] > RecheckAfter

\* The solver asks the chain again of what was open long enough ago; the
\* others of everything.
NeedsCheck(k, i) ==
    k \in Solver => i \notin settledOnChain /\ sinceOpen[i] >= RecheckAfter

Ask(k) ==
    LET rows == Page(k) \ DoneInIndex(k) IN
    /\ call = None
    /\ call' = [reader |-> k, rows |-> rows, seen |-> listed, time |-> 0,
                toCheck |-> {i \in rows : NeedsCheck(k, i)}]
    /\ answer' = None
    /\ UNCHANGED <<chainVars, indexVars, cacheVars>>

(* ... then the chain. *)

\* Mutant: only the live receivers, which the index has, are asked.
Heard_LiveOnly(i, failed) ==
    CASE failed # {}           -> "unknown"
      [] outcome[i] \in Indexed -> "settled"
      [] OTHER                 -> "open"

\* What outcomeOf tells of an intent when the receivers in "failed" do not
\* answer: it is known only when every receiver answered.
Heard(i, failed) ==
    CASE failed # {}                        -> "unknown"
      [] \E r \in Receivers : outcome[i] = r -> "settled"
      [] OTHER                              -> "open"

Answer(failed) ==
    LET Told(verdict) == {i \in call.toCheck : Heard(i, failed[i]) = verdict}
        settled == Told("settled") \cup
                   (IF call.reader \in Solver THEN settledOnChain ELSE {})
    IN  /\ call # None
        /\ answer' = [reader |-> call.reader, rows |-> call.rows \ settled,
                      unanswered |-> {i \in call.toCheck : failed[i] # {}}]
        /\ call' = None
        /\ IF call.reader \in Solver
           THEN /\ settledOnChain' = settled
                /\ sinceOpen' = [i \in Intents |->
                                   IF i \in Told("open") THEN call.time
                                                         ELSE sinceOpen[i]]
           ELSE UNCHANGED cacheVars
        /\ UNCHANGED <<chainVars, indexVars>>

AnswerInPart ==
    /\ call # None
    /\ \E failed \in [call.toCheck -> SUBSET Receivers] : Answer(failed)

\* No read fails: a case of the above, named for the fairness.
AnswerInFull(k) ==
    /\ call # None
    /\ call.reader = k
    /\ Answer([i \in call.toCheck |-> {}])

\* An index that is truncated, degraded or away makes the call throw.
Fails ==
    /\ call # None
    /\ call' = None
    /\ UNCHANGED <<chainVars, indexVars, cacheVars, answer>>

\* The solver forgets what it knew of the chain.
Restart ==
    /\ call = None
    /\ settledOnChain' = {}
    /\ sinceOpen' = [i \in Intents |-> LongAgo]
    /\ UNCHANGED <<chainVars, indexVars, callVars>>

-----------------------------------------------------------------------------
ChainNext ==
    \/ Create
    \/ List
    \/ \E i \in Intents :
          \/ Fill(i)
          \/ \E r \in Receivers : Settle(i, r)
          \/ IndexSettlement(i)
    \/ Tick

Next ==
    \/ ChainNext
    \/ \E k \in Readers : Ask(k)
    \/ AnswerInPart
    \/ Fails
    \/ Restart

Spec == Init /\ [][Next]_vars

\* Time passes, every call ends, the solver keeps asking for its health, and
\* now and then that call gets all its answers.
FairSpec ==
    /\ Spec
    /\ SF_vars(Tick)
    /\ WF_vars(AnswerInPart \/ Fails)
    /\ SF_vars(Ask("health"))
    /\ SF_vars(AnswerInFull("health"))

-----------------------------------------------------------------------------
TypeOK ==
    /\ created \in 0 .. MaxIntents
    /\ listed \in 0 .. created
    /\ outcome \in [Intents -> Receivers \cup {None}]
    /\ fillRows \subseteq Intents
    /\ settlementRows \subseteq {i \in Intents : outcome[i] \in Indexed}
    /\ settledOnChain \subseteq {i \in Intents : outcome[i] # None}
    /\ sinceOpen \in [Intents -> 0 .. LongAgo]
    /\ call \in Calls \cup {None}
    /\ answer \in Answers \cup {None}
    /\ settledFor \in [Intents -> 0 .. LongAgo]

Answered == call # None /\ answer' # None

\* What a reader still has to do with an intent: the worker and the solver's
\* health until it is settled, the other two only while no fill is known.
StillWanted(k, i) ==
    /\ outcome[i] = None
    /\ k \in {"pending", "intelligence"} => i \notin fillRows

\* What a page leaves out: the newest of too many rows from the solver's
\* health, the oldest of too many from the worker and the relay.
OffThePage(k, i) ==
    CASE k = "pending" -> FALSE
      [] k = "health"  -> PageSize[k] < i
      [] OTHER         -> i + PageSize[k] <= call.seen

\* Whatever fails to answer, and whatever the indexes miss, no intent that is
\* still to be filled, or to be settled, is missing from an answer, unless a
\* full page of other rows hides it: a failure costs a stale row, never an
\* intent.
NothingOpenIsMissing ==
    [][Answered =>
         \A i \in 1 .. call.seen :
            StillWanted(call.reader, i) /\ i \notin answer'.rows
                => OffThePage(call.reader, i)]_vars

\* A row that outlives its settlement does so for the recheck time, or for as
\* long as some receiver will not answer.
StaleIsRecent ==
    [][Answered =>
         \A i \in answer'.rows :
            outcome[i] # None /\ settledFor[i] >= RecheckAfter + call.time
                => i \in answer'.unanswered]_vars

\* Every settled intent leaves the solver's health, wherever it was settled,
\* whoever's index missed it, whatever the other calls leave in the cache, and
\* again after a restart: otherwise "the stale rows alone were enough to make
\* every solver refuse every fill" (sql-nest-observation-provider.ts:71).
StaleRowsGo ==
    \A i \in Intents :
        outcome[i] # None ~>
            answer # None /\ answer.reader = "health" /\ i \notin answer.rows

\* "Oldest = the oldest intent still NONE on chain"
\* (sql-nest-observation-provider.ts:434).
HealthNamesTheOldest ==
    [][Answered /\ call.reader = "health" /\ answer'.unanswered = {} =>
         \A i \in 1 .. call.seen :
            outcome[i] = None => \E j \in answer'.rows : j <= i]_vars

\* "Every canonically-unsettled intent this provider currently knows about"
\* (discover-settlements.ts:70).
DiscoveryNamesAll ==
    [][Answered /\ call.reader = "discovery" =>
         \A i \in 1 .. call.seen : outcome[i] = None => i \in answer'.rows]_vars
=============================================================================
