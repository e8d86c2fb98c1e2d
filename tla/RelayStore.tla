----------------------------- MODULE RelayStore -----------------------------
(***************************************************************************)
(* The relay's RelayStore for one vault, with the solvers that pair with   *)
(* it and report to it: challenges, the await inside confirmPairing,       *)
(* heartbeats and stage events that the network may lose or reorder, the   *)
(* sweep, and restarts of the relay, which keeps everything in memory.     *)
(* Times are ages, counted up to the last value anything compares with.    *)
(***************************************************************************)
EXTENDS Naturals, FiniteSets

CONSTANTS
    Operators,          \* keys that solvers hold
    Exchanges,          \* pairing exchanges that may be under way at once
    Nonces,             \* nonces of challenges; a forgotten one is used again
    ChallengeTtl,       \* CHALLENGE_TTL_SECONDS
    HeartbeatTimeout,   \* heartbeatTimeoutSeconds
    MaxInFlight,        \* bound: reports in the network
    MaxRestarts,        \* bound: restarts of the relay
    None

ASSUME RelayAssumption ==
    /\ ChallengeTtl \in Nat
    /\ HeartbeatTimeout \in Nat
    /\ MaxInFlight \in Nat
    /\ MaxRestarts \in Nat
    /\ None \notin Operators \cup Nonces

Never == HeartbeatTimeout + 2       \* lastHeartbeatAt = null

VARIABLES
    operator,      \* operatorAddress; paired exactly when it is not None
    online,
    heardAge,      \* age of lastHeartbeatAt
    pending,       \* nonce of the pending challenge
    challenge,     \* per nonce: whom the challenge names, and its age
    exchange,      \* pairing exchanges: who holds the key, what they answer
    inFlight,      \* heartbeats and stage events on their way
    restarts,
    newestAge,     \* history: age of the newest report heard
    signers        \* history: who answered a challenge of this process's
                   \* that named it, and with its own key

stateVars   == <<operator, online, heardAge>>
pairingVars == <<pending, challenge, exchange, signers>>
vars == <<stateVars, pairingVars, inFlight, restarts, newestAge>>

ChallengeAges == 0 .. ChallengeTtl + 1
ReportAges    == 0 .. HeartbeatTimeout + 1
Reports == [from : Operators, kind : {"heartbeat", "stage"}, age : ReportAges]

Idle == [at |-> "idle", by |-> None, nonce |-> None, claim |-> None]

Sessions ==
    {Idle} \cup [at : {"answering", "verifying"}, by : Operators,
                 nonce : Nonces, claim : Operators]

Init ==
    /\ operator = None
    /\ online = FALSE
    /\ heardAge = Never
    /\ pending = None
    /\ challenge \in [Nonces -> [names : Operators, age : {ChallengeTtl + 1}]]
    /\ exchange = [x \in Exchanges |-> Idle]
    /\ inFlight = {}
    /\ restarts = 0
    /\ newestAge = Never
    /\ signers = {}

-----------------------------------------------------------------------------
(* Pairing. *)

Unused(n) == n # pending /\ \A x \in Exchanges : exchange[x].nonce # n

\* Mutant: a challenge that was never answered is not replaced.
IssueChallenge_WhenNonePending(x, by, claim) ==
    /\ exchange[x] = Idle
    /\ pending = None
    /\ \E n \in Nonces :
          /\ Unused(n)
          /\ pending'   = n
          /\ challenge' = [challenge EXCEPT ![n] = [names |-> claim, age |-> 0]]
          /\ exchange'  = [exchange EXCEPT ![x] =
                [at |-> "answering", by |-> by, nonce |-> n, claim |-> claim]]
    /\ UNCHANGED <<stateVars, inFlight, restarts, newestAge, signers>>

\* issueChallenge, asked for by whoever holds the key of by.
IssueChallenge(x, by, claim) ==
    /\ exchange[x] = Idle
    /\ \E n \in Nonces :
          /\ Unused(n)
          /\ pending'   = n
          /\ challenge' = [challenge EXCEPT ![n] = [names |-> claim, age |-> 0]]
          /\ exchange'  = [exchange EXCEPT ![x] =
                [at |-> "answering", by |-> by, nonce |-> n, claim |-> claim]]
    /\ UNCHANGED <<stateVars, inFlight, restarts, newestAge, signers>>

\* The same answer reaches the relay a second time.
Repost(x, y) ==
    /\ exchange[x].at # "idle"
    /\ exchange[y] = Idle
    /\ exchange' = [exchange EXCEPT ![y] = [exchange[x] EXCEPT !.at = "answering"]]
    /\ UNCHANGED <<stateVars, pending, challenge, signers, inFlight,
                   restarts, newestAge>>

\* The request, or the answer to it, is lost.
GiveUp(x) ==
    /\ exchange[x].at = "answering"
    /\ exchange' = [exchange EXCEPT ![x] = Idle]
    /\ UNCHANGED <<stateVars, pending, challenge, signers, inFlight,
                   restarts, newestAge>>

Expired(n) == challenge[n].age > ChallengeTtl

\* confirmPairing up to its await: the early returns, or the verification.
BeginConfirm(x) ==
    LET e == exchange[x]
        n == e.nonce
    IN
    /\ e.at = "answering"
    /\ \/ /\ pending # n
          /\ exchange' = [exchange EXCEPT ![x] = Idle]
          /\ UNCHANGED <<pending, signers>>
       \/ /\ pending = n
          /\ Expired(n)
          /\ pending' = None
          /\ exchange' = [exchange EXCEPT ![x] = Idle]
          /\ UNCHANGED signers
       \/ /\ pending = n
          /\ ~ Expired(n)
          /\ challenge[n].names # e.claim
          /\ exchange' = [exchange EXCEPT ![x] = Idle]
          /\ UNCHANGED <<pending, signers>>
       \/ /\ pending = n
          /\ ~ Expired(n)
          /\ challenge[n].names = e.claim
          /\ exchange' = [exchange EXCEPT ![x].at = "verifying"]
          /\ signers' = IF e.by = challenge[n].names THEN signers \cup {e.by}
                        ELSE signers
          /\ UNCHANGED pending
    /\ UNCHANGED <<stateVars, challenge, inFlight, restarts, newestAge>>

\* verifyChallengeSignature: the signer is the address claimed.
Verified(e) == e.by = e.claim

\* Mutant: pairs whom the challenge that is pending by then names.
FinishConfirm_Rereads(x) ==
    LET e == exchange[x] IN
    /\ e.at = "verifying"
    /\ exchange' = [exchange EXCEPT ![x] = Idle]
    /\ \/ /\ ~ Verified(e)
          /\ UNCHANGED <<operator, pending>>
       \/ /\ Verified(e)
          /\ pending' = None
          /\ operator' = IF pending = None THEN e.claim
                         ELSE challenge[pending].names
    /\ UNCHANGED <<online, heardAge, challenge, signers, inFlight, restarts,
                   newestAge>>

\* confirmPairing after its await.  Whatever is pending by then is deleted.
FinishConfirm(x) ==
    LET e == exchange[x] IN
    /\ e.at = "verifying"
    /\ exchange' = [exchange EXCEPT ![x] = Idle]
    /\ \/ /\ ~ Verified(e)
          /\ UNCHANGED <<operator, pending>>
       \/ /\ Verified(e)
          /\ pending' = None
          /\ operator' = e.claim
    /\ UNCHANGED <<online, heardAge, challenge, signers, inFlight, restarts,
                   newestAge>>

-----------------------------------------------------------------------------
(* Liveness reports.  The sender stamps them with its clock. *)

Send(o, kind) ==
    /\ Cardinality(inFlight) < MaxInFlight
    /\ inFlight' = inFlight \cup {[from |-> o, kind |-> kind, age |-> 0]}
    /\ UNCHANGED <<stateVars, pairingVars, restarts, newestAge>>

Lose(r) ==
    /\ inFlight' = inFlight \ {r}
    /\ UNCHANGED <<stateVars, pairingVars, restarts, newestAge>>

Hear(r) ==
    /\ online' = TRUE
    /\ heardAge' = r.age
    /\ newestAge' = IF r.age < newestAge THEN r.age ELSE newestAge
    /\ inFlight' = inFlight \ {r}
    /\ UNCHANGED <<operator, pairingVars, restarts>>

RecordHeartbeat(r) ==
    /\ r.kind = "heartbeat"
    /\ operator = r.from
    /\ Hear(r)

RecordStageEvent(r) ==
    /\ r.kind = "stage"
    /\ operator # None
    /\ Hear(r)

\* Not paired: 401, and nothing changes.
Refuse(r) ==
    /\ IF r.kind = "heartbeat" THEN operator # r.from ELSE operator = None
    /\ Lose(r)

\* Mutant: compared for equality, so a late sweep misses it.
SweepHeartbeats_OnTheDot ==
    /\ operator # None
    /\ online
    /\ heardAge = HeartbeatTimeout
    /\ online' = FALSE
    /\ UNCHANGED <<operator, heardAge, pairingVars, inFlight, restarts, newestAge>>

SweepHeartbeats ==
    /\ operator # None
    /\ online
    /\ heardAge # Never
    /\ heardAge > HeartbeatTimeout
    /\ online' = FALSE
    /\ UNCHANGED <<operator, heardAge, pairingVars, inFlight, restarts, newestAge>>

-----------------------------------------------------------------------------
Older(age, last) == IF age < last THEN age + 1 ELSE age

Aged(age) == IF age = Never THEN Never ELSE Older(age, HeartbeatTimeout + 1)

Tick ==
    /\ heardAge'  = Aged(heardAge)
    /\ newestAge' = Aged(newestAge)
    /\ challenge' = [n \in Nonces |->
          [challenge[n] EXCEPT !.age = Older(@, ChallengeTtl + 1)]]
    /\ inFlight'  = {[r EXCEPT !.age = Aged(@)] : r \in inFlight}
    /\ UNCHANGED <<operator, online, pending, exchange, signers,
                   restarts>>

\* The relay's process is replaced: its maps and its awaits are gone.
Restart ==
    /\ restarts < MaxRestarts
    /\ restarts' = restarts + 1
    /\ operator' = None
    /\ online' = FALSE
    /\ heardAge' = Never
    /\ newestAge' = Never
    /\ pending' = None
    /\ exchange' = [x \in Exchanges |-> Idle]
    /\ signers' = {}
    /\ UNCHANGED <<challenge, inFlight>>

PairingNext(x) ==
    \/ \E by, claim \in Operators : IssueChallenge(x, by, claim)
    \/ \E y \in Exchanges : Repost(x, y)
    \/ GiveUp(x)
    \/ BeginConfirm(x)
    \/ FinishConfirm(x)

ReportNext(r) ==
    \/ RecordHeartbeat(r)
    \/ RecordStageEvent(r)
    \/ Refuse(r)
    \/ Lose(r)

Next ==
    \/ \E x \in Exchanges : PairingNext(x)
    \/ \E o \in Operators, kind \in {"heartbeat", "stage"} : Send(o, kind)
    \/ \E r \in inFlight : ReportNext(r)
    \/ SweepHeartbeats
    \/ Tick
    \/ Restart

Spec == Init /\ [][Next]_vars

\* Time passes and the sweeper runs for ever.  Of the solvers nothing is
\* assumed: they may go quiet at any time, and for good.
SweepSpec == Spec /\ WF_vars(Tick) /\ WF_vars(SweepHeartbeats)

Answered(x) == BeginConfirm(x) /\ exchange'[x].at = "verifying"

\* A solver that keeps running pairs again and again, beats again and again,
\* and is not unlucky for ever: neither does every answer come too late, nor is
\* every heartbeat lost.
SolverPersists ==
    /\ \A x \in Exchanges :
          /\ WF_vars(\E o \in Operators : IssueChallenge(x, o, o))
          /\ WF_vars(BeginConfirm(x))
          /\ SF_vars(Answered(x))
          /\ WF_vars(FinishConfirm(x))
    /\ WF_vars(\E r \in inFlight : ReportNext(r))
    /\ \A o \in Operators :
          /\ SF_vars(Send(o, "heartbeat"))
          /\ SF_vars(\E r \in inFlight : r.from = o /\ RecordHeartbeat(r))

-----------------------------------------------------------------------------
TypeOK ==
    /\ operator \in Operators \cup {None}
    /\ online \in BOOLEAN
    /\ heardAge \in ReportAges \cup {Never}
    /\ newestAge \in ReportAges \cup {Never}
    /\ pending \in Nonces \cup {None}
    /\ challenge \in [Nonces -> [names : Operators, age : ChallengeAges]]
    /\ exchange \in [Exchanges -> Sessions]
    /\ inFlight \subseteq Reports
    /\ restarts \in 0 .. MaxRestarts
    /\ signers \subseteq Operators

\* Who is shown as paired has, since the relay last started, answered with its
\* own key a challenge that named it, stood and had not expired when the answer
\* came.  The challenge may be replaced, expire or be forgotten during the
\* await in confirmPairing (store.ts:97); that pairs nobody else.
PairedHasSigned == operator # None => operator \in signers

\* AWAITING SOLVER is told apart from SOLVER OFFLINE (store.ts:108): a vault is
\* online only when it is paired and has been heard since the last restart,
\* however pairings, reports and sweeps interleave.
OnlineWasHeard == online => operator # None /\ heardAge # Never

\* "Flips exactly the vaults whose heartbeat has actually timed out"
\* (store.ts:175).
SweepOnlyTheQuiet ==
    [][SweepHeartbeats => newestAge > HeartbeatTimeout]_vars

\* A solver that went quiet, or died, is not shown online for ever, although
\* reports of its last breath may still arrive one by one (store.ts:181).
NotOnlineOnOldNews == []<>(~ online \/ heardAge <= HeartbeatTimeout)

\* "repeating it ... keeps online true through relay restarts"
\* (agent build-dependencies.ts:187): the vault of a solver that goes on is
\* online again and again.
OnlineAgain == SolverPersists => []<>online

\* "a fresh, single-use challenge" (store.ts:59): no two answers to it are past
\* their checks at once, for then both would pair.
ChallengeIsSingleUse ==
    \A x, y \in Exchanges :
        /\ x # y
        /\ exchange[x].at = "verifying"
        /\ exchange[y].at = "verifying"
        => exchange[x].nonce # exchange[y].nonce
=============================================================================
