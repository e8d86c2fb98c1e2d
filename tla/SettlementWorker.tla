-------------------------- MODULE SettlementWorker --------------------------
(***************************************************************************)
(* The settlement worker (packages/settlement): passes of discovery and    *)
(* processSettlement over an in-memory journal, with the CCTP adapter's    *)
(* cached status per commitment.  Every await is a point where other       *)
(* workers, other deliverers, timeouts and failures interleave; a submitted *)
(* transaction lives on in the mempool when its worker has stopped waiting *)
(* for it, or has crashed and forgotten it.                                *)
(*                                                                         *)
(* A receiver is reduced to what a worker can see and spend: whether an    *)
(* intent is settled there, and a balance in which parked and unrouted     *)
(* money of all intents lies together.  A burn mints to the receiver that  *)
(* was live when it was made; a worker settles on the one in its           *)
(* configuration, which may have replaced it.                              *)
(***************************************************************************)
EXTENDS RunningTotals

CONSTANTS
    Workers,      \* worker processes with a reporter key
    Intents,      \* commitments burned for this destination
    NoIntent,     \* no record is being processed
    Hooked,       \* commitments with an intent hook (SettlementReference.hookData)
    Amount,       \* SettlementRecord.amount, which is also what the burn mints
    Receivers,    \* every SettlementReceiver this chain has had
    MintsTo,      \* the receiver a burn names as recipient and caller
    Uses,         \* the receiver a worker is configured with
    MaxFailures   \* bound on failed calls, timeouts and restarts together

ASSUME IntentsAssumption ==
    /\ IsFiniteSet(Intents)
    /\ NoIntent \notin Intents
    /\ Hooked \subseteq Intents
    /\ Amount \in [Intents -> Nat \ {0}]
ASSUME ReceiverAssumption ==
    /\ MintsTo \in [Intents -> Receivers]
    /\ Uses \in [Workers -> Receivers]
ASSUME FailuresAssumption == MaxFailures \in Nat

VARIABLES
    message,      \* the CCTP message of each commitment
    outcome,      \* per receiver: outcomeOf
    held,         \* per receiver: its USDC
    indexed,      \* commitments the indexer shows and whose grace is over
    orphans,      \* transactions in the mempool nobody waits for
    journal,      \* per worker: intents with a record
    done,         \* per worker: intents marked settled in the journal
    status,       \* per worker: CircleCCTPAdapter status of each entry
    todo,         \* per worker: records left in this pass
    at,           \* per worker: where processSettlement stands
    on,           \* per worker: the record it is processing
    sent,         \* per worker: its transaction, then that one's receipt
    failures

chainVars  == <<message, outcome, held>>
memoryVars == <<journal, done, status>>
passVars   == <<todo, at, on, sent>>
vars == <<chainVars, indexed, orphans, memoryVars, passVars, failures>>

Messages == {"none", "burned", "attested", "received"}
Outcomes == {"NONE", "PAID", "PARKED"}
Statuses == {"INITIATED", "ATTESTED", "RECEIVED", "RECONCILED"}
Calls    == {"settleWithProof", "receiveMessage", "settle"}
Points   == {"idle", "next", "check", "status", "nonce", "deliver",
             "confirm", "settle", "confirmSettle"}

Settled(r, i) == outcome[r][i] # "NONE"

SettledAnywhere(i) == \E r \in Receivers : Settled(r, i)

-----------------------------------------------------------------------------
Init ==
    /\ message = [i \in Intents |-> "none"]
    /\ outcome = [r \in Receivers |-> [i \in Intents |-> "NONE"]]
    /\ held    = [r \in Receivers |-> 0]
    /\ indexed = {}
    /\ orphans = {}
    /\ journal = [w \in Workers |-> {}]
    /\ done    = [w \in Workers |-> {}]
    /\ status  = [w \in Workers |-> [i \in Intents |-> "INITIATED"]]
    /\ todo    = [w \in Workers |-> {}]
    /\ at      = [w \in Workers |-> "idle"]
    /\ on      = [w \in Workers |-> NoIntent]
    /\ sent    = [w \in Workers |-> "none"]
    /\ failures = 0

-----------------------------------------------------------------------------
(* The chain. *)

\* _route on r: i is paid out of "funds", or they are parked.
Land(r, i, fate, funds) ==
    /\ outcome' = [outcome EXCEPT ![r][i] = fate]
    /\ held' = [held EXCEPT ![r] =
                   IF fate = "PARKED" THEN funds ELSE funds - Amount[i]]

SettleWithProof(r, i) ==
    /\ i \in Hooked
    /\ MintsTo[i] = r
    /\ message[i] = "attested"
    /\ ~ Settled(r, i)
    /\ message' = [message EXCEPT ![i] = "received"]
    /\ \E fate \in {"PAID", "PARKED"} : Land(r, i, fate, held[r] + Amount[i])

ReceiveMessage(i) ==
    /\ i \notin Hooked
    /\ message[i] = "attested"
    /\ message' = [message EXCEPT ![i] = "received"]
    /\ held' = [held EXCEPT ![MintsTo[i]] = @ + Amount[i]]
    /\ UNCHANGED outcome

Settle(r, i) ==
    /\ ~ Settled(r, i)
    /\ Amount[i] <= held[r]
    /\ \E fate \in {"PAID", "PARKED"} : Land(r, i, fate, held[r])
    /\ UNCHANGED message

Reverts(r, call, i) ==
    CASE call = "settleWithProof" ->
             \/ i \notin Hooked
             \/ MintsTo[i] # r
             \/ message[i] # "attested"
             \/ Settled(r, i)
      [] call = "receiveMessage" ->
             i \in Hooked \/ message[i] # "attested"
      [] call = "settle" ->
             Settled(r, i) \/ Amount[i] > held[r]

Succeeds(r, call, i) ==
    \/ call = "settleWithProof" /\ SettleWithProof(r, i)
    \/ call = "receiveMessage" /\ ReceiveMessage(i)
    \/ call = "settle" /\ Settle(r, i)

Burn(i) ==
    /\ message[i] = "none"
    /\ message' = [message EXCEPT ![i] = "burned"]
    /\ UNCHANGED <<outcome, held, indexed, orphans, memoryVars, passVars, failures>>

Attest(i) ==
    /\ message[i] = "burned"
    /\ message' = [message EXCEPT ![i] = "attested"]
    /\ UNCHANGED <<outcome, held, indexed, orphans, memoryVars, passVars, failures>>

\* Anyone may deliver the public message.
DeliveredByOthers(i) ==
    /\ SettleWithProof(MintsTo[i], i) \/ ReceiveMessage(i)
    /\ UNCHANGED <<indexed, orphans, memoryVars, passVars, failures>>

\* retryHeld, called by whoever cares.
ParkedIsPaid(r, i) ==
    /\ outcome[r][i] = "PARKED"
    /\ Amount[i] <= held[r]
    /\ Land(r, i, "PAID", held[r])
    /\ UNCHANGED <<message, indexed, orphans, memoryVars, passVars, failures>>

\* The indexer shows the commitment and its grace period is over.
Index(i) ==
    /\ message[i] # "none"
    /\ indexed' = indexed \cup {i}
    /\ UNCHANGED <<chainVars, orphans, memoryVars, passVars, failures>>

\* A transaction some worker waits for is mined.
Mine(w) ==
    /\ sent[w] \in Calls
    /\ \/ /\ Succeeds(Uses[w], sent[w], on[w])
          /\ sent' = [sent EXCEPT ![w] = "success"]
       \/ /\ Reverts(Uses[w], sent[w], on[w])
          /\ sent' = [sent EXCEPT ![w] = "reverted"]
          /\ UNCHANGED chainVars
    /\ UNCHANGED <<indexed, orphans, memoryVars, todo, at, on, failures>>

\* One nobody waits for is mined.
MineOrphan(r, call, i) ==
    /\ <<r, call, i>> \in orphans
    /\ orphans' = orphans \ {<<r, call, i>>}
    /\ \/ Succeeds(r, call, i)
       \/ Reverts(r, call, i) /\ UNCHANGED chainVars
    /\ UNCHANGED <<indexed, memoryVars, passVars, failures>>

-----------------------------------------------------------------------------
(* A pass. *)

Goto(w, point) == at' = [at EXCEPT ![w] = point]

\* This step of the record is over, whatever came of it.
LeaveRecord(w) ==
    /\ Goto(w, "next")
    /\ on' = [on EXCEPT ![w] = NoIntent]
    /\ sent' = [sent EXCEPT ![w] = "none"]

MarkSettled(w) == done' = [done EXCEPT ![w] = @ \cup {on[w]}]

\* Discovery shows what is settled on no receiver, and perhaps some of what
\* its indexer and its probe of the receivers have not seen settle.
Discovered(unseen) == {i \in indexed : ~ SettledAnywhere(i)} \cup unseen

Track(w, found) ==
    /\ journal' = [journal EXCEPT ![w] = @ \cup found]
    /\ todo' = [todo EXCEPT ![w] = (journal[w] \cup found) \ done[w]]
    /\ Goto(w, "next")
    /\ UNCHANGED <<chainVars, indexed, orphans, done, status, on, sent, failures>>

\* runSettlementWorkerPass adds to the journal what is new to it, and works
\* through what is pending there.
StartPass(w) ==
    /\ at[w] = "idle"
    /\ \E unseen \in SUBSET indexed : Track(w, Discovered(unseen))

NextRecord(w) ==
    /\ at[w] = "next"
    /\ \E i \in todo[w] :
          /\ on' = [on EXCEPT ![w] = i]
          /\ todo' = [todo EXCEPT ![w] = @ \ {i}]
    /\ Goto(w, "check")
    /\ UNCHANGED <<chainVars, indexed, orphans, memoryVars, sent, failures>>

EndPass(w) ==
    /\ at[w] = "next"
    /\ todo[w] = {}
    /\ Goto(w, "idle")
    /\ UNCHANGED <<chainVars, indexed, orphans, memoryVars, todo, on, sent, failures>>

-----------------------------------------------------------------------------
(* processSettlement, await by await. *)

CheckChain_LeavesJournal(w) ==
    /\ at[w] = "check"
    /\ \/ /\ Settled(Uses[w], on[w])
          /\ LeaveRecord(w)
       \/ /\ ~ Settled(Uses[w], on[w])
          /\ Goto(w, "status")
          /\ UNCHANGED <<on, sent>>
    /\ UNCHANGED <<chainVars, indexed, orphans, memoryVars, todo, failures>>

\* The chain is asked first.
CheckChain(w) ==
    /\ at[w] = "check"
    /\ \/ /\ Settled(Uses[w], on[w])
          /\ MarkSettled(w)
          /\ LeaveRecord(w)
       \/ /\ ~ Settled(Uses[w], on[w])
          /\ Goto(w, "status")
          /\ UNCHANGED <<done, on, sent>>
    /\ UNCHANGED <<chainVars, indexed, orphans, journal, status, todo, failures>>

\* What Iris answers to an entry that still waits for its attestation.
Polled(w) ==
    IF status[w][on[w]] = "INITIATED" /\ message[on[w]] \in {"attested", "received"}
    THEN "ATTESTED"
    ELSE status[w][on[w]]

ReadStatus_WaitsWhenReceived(w) ==
    /\ at[w] = "status"
    /\ status' = [status EXCEPT ![w][on[w]] = Polled(w)]
    /\ \/ /\ Polled(w) # "ATTESTED"
          /\ LeaveRecord(w)
       \/ /\ Polled(w) = "ATTESTED"
          /\ Goto(w, "nonce")
          /\ UNCHANGED <<on, sent>>
    /\ UNCHANGED <<chainVars, indexed, orphans, journal, done, todo, failures>>

ReadStatus(w) ==
    /\ at[w] = "status"
    /\ status' = [status EXCEPT ![w][on[w]] = Polled(w)]
    /\ \/ /\ Polled(w) = "INITIATED"
          /\ LeaveRecord(w)
       \/ /\ Polled(w) = "ATTESTED"
          /\ Goto(w, "nonce")
          /\ UNCHANGED <<on, sent>>
       \/ /\ Polled(w) \in {"RECEIVED", "RECONCILED"}
          /\ Goto(w, "settle")
          /\ UNCHANGED <<on, sent>>
    /\ UNCHANGED <<chainVars, indexed, orphans, journal, done, todo, failures>>

ReadNonce_Ignored(w) ==
    /\ at[w] = "nonce"
    /\ status' = [status EXCEPT ![w][on[w]] = "RECEIVED"]
    /\ Goto(w, "settle")
    /\ UNCHANGED <<chainVars, indexed, orphans, journal, done, todo, on, sent,
                   failures>>

\* complete(): has somebody else delivered the message already?
ReadNonce(w) ==
    /\ at[w] = "nonce"
    /\ \/ /\ message[on[w]] = "received"
          /\ status' = [status EXCEPT ![w][on[w]] = "RECEIVED"]
          /\ Goto(w, "settle")
       \/ /\ message[on[w]] # "received"
          /\ Goto(w, "deliver")
          /\ UNCHANGED status
    /\ UNCHANGED <<chainVars, indexed, orphans, journal, done, todo, on, sent,
                   failures>>

Deliver(w) ==
    /\ at[w] = "deliver"
    /\ sent' = [sent EXCEPT ![w] =
                   IF on[w] \in Hooked THEN "settleWithProof"
                   ELSE "receiveMessage"]
    /\ Goto(w, "confirm")
    /\ UNCHANGED <<chainVars, indexed, orphans, memoryVars, todo, on, failures>>

\* The receipt: a hooked commitment is routed with it, a hookless one is now
\* received, and a revert leaves the record for a later pass.
ConfirmDelivery(w) ==
    /\ at[w] = "confirm"
    /\ \/ /\ sent[w] = "success"
          /\ on[w] \in Hooked
          /\ status' = [status EXCEPT ![w][on[w]] = "RECONCILED"]
          /\ MarkSettled(w)
          /\ LeaveRecord(w)
       \/ /\ sent[w] = "success"
          /\ on[w] \notin Hooked
          /\ status' = [status EXCEPT ![w][on[w]] = "RECEIVED"]
          /\ Goto(w, "settle")
          /\ sent' = [sent EXCEPT ![w] = "none"]
          /\ UNCHANGED <<done, on>>
       \/ /\ sent[w] = "reverted"
          /\ LeaveRecord(w)
          /\ UNCHANGED <<status, done>>
    /\ UNCHANGED <<chainVars, indexed, orphans, journal, todo, failures>>

SubmitSettle(w) ==
    /\ at[w] = "settle"
    /\ sent' = [sent EXCEPT ![w] = "settle"]
    /\ Goto(w, "confirmSettle")
    /\ UNCHANGED <<chainVars, indexed, orphans, memoryVars, todo, on, failures>>

ConfirmSettle(w) ==
    /\ at[w] = "confirmSettle"
    /\ \/ sent[w] = "success" /\ MarkSettled(w)
       \/ sent[w] = "reverted" /\ UNCHANGED done
    /\ LeaveRecord(w)
    /\ UNCHANGED <<chainVars, indexed, orphans, journal, status, todo, failures>>

-----------------------------------------------------------------------------
(* Failures, as many as the bound allows. *)

Fail ==
    /\ failures < MaxFailures
    /\ failures' = failures + 1

\* A transaction that was sent stays in the mempool.
Abandoned(w) ==
    IF sent[w] \in Calls THEN {<<Uses[w], sent[w], on[w]>>} ELSE {}

StepFails_MarksSettled(w) ==
    /\ Fail
    /\ at[w] = "confirmSettle"
    /\ MarkSettled(w)
    /\ LeaveRecord(w)
    /\ orphans' = orphans \cup Abandoned(w)
    /\ UNCHANGED <<chainVars, indexed, journal, status, todo>>

\* A call fails or a receipt does not come in time: the step ends, and the
\* record stays pending.
StepFails(w) ==
    /\ Fail
    /\ at[w] \notin {"idle", "next"}
    /\ LeaveRecord(w)
    /\ orphans' = orphans \cup Abandoned(w)
    /\ UNCHANGED <<chainVars, indexed, memoryVars, todo>>

\* The process restarts: journal and adapter live in its memory.
Crash(w) ==
    /\ Fail
    /\ orphans' = orphans \cup Abandoned(w)
    /\ journal' = [journal EXCEPT ![w] = {}]
    /\ done'    = [done EXCEPT ![w] = {}]
    /\ status'  = [status EXCEPT ![w] = [i \in Intents |-> "INITIATED"]]
    /\ todo'    = [todo EXCEPT ![w] = {}]
    /\ at'      = [at EXCEPT ![w] = "idle"]
    /\ on'      = [on EXCEPT ![w] = NoIntent]
    /\ sent'    = [sent EXCEPT ![w] = "none"]
    /\ UNCHANGED <<chainVars, indexed>>

-----------------------------------------------------------------------------
ChainNext(i) ==
    \/ Burn(i)
    \/ Attest(i)
    \/ DeliveredByOthers(i)
    \/ Index(i)
    \/ \E r \in Receivers :
          \/ ParkedIsPaid(r, i)
          \/ \E call \in Calls : MineOrphan(r, call, i)

Progress(w) ==
    \/ StartPass(w)
    \/ NextRecord(w)
    \/ EndPass(w)
    \/ CheckChain(w)
    \/ ReadStatus(w)
    \/ ReadNonce(w)
    \/ Deliver(w)
    \/ ConfirmDelivery(w)
    \/ SubmitSettle(w)
    \/ ConfirmSettle(w)

WorkerNext(w) == Progress(w) \/ Mine(w) \/ StepFails(w) \/ Crash(w)

Next ==
    \/ \E i \in Intents : ChainNext(i)
    \/ \E w \in Workers : WorkerNext(w)

Spec == Init /\ [][Next]_vars

\* Circle attests, the indexer catches up, transactions somebody waits for
\* are mined, and the loop of a worker keeps rescheduling itself.
FairSpec ==
    /\ Spec
    /\ \A i \in Intents : WF_vars(Attest(i)) /\ WF_vars(Index(i))
    /\ \A w \in Workers : WF_vars(Progress(w)) /\ WF_vars(Mine(w))

-----------------------------------------------------------------------------
TypeOK ==
    /\ message \in [Intents -> Messages]
    /\ outcome \in [Receivers -> [Intents -> Outcomes]]
    /\ held \in [Receivers -> Nat]
    /\ indexed \subseteq Intents
    /\ orphans \subseteq Receivers \X Calls \X Intents
    /\ journal \in [Workers -> SUBSET Intents]
    /\ done \in [Workers -> SUBSET Intents]
    /\ status \in [Workers -> [Intents -> Statuses]]
    /\ todo \in [Workers -> SUBSET Intents]
    /\ at \in [Workers -> Points]
    /\ on \in [Workers -> Intents \cup {NoIntent}]
    /\ \A w \in Workers : on[w] = NoIntent <=> at[w] \in {"idle", "next"}
    /\ sent \in [Workers -> Calls \cup {"none", "success", "reverted"}]
    /\ failures \in Nat

\* A journal marks nothing done that its receiver has not settled, however
\* receipts are lost, repeated or reverted ("Nothing is marked done until
\* the chain says so").
JournalNeverAhead ==
    \A w \in Workers : \A i \in done[w] : Settled(Uses[w], i)

\* What a receiver must still pay out for each intent.
Owed(r) ==
    [i \in Intents |->
        IF \/ outcome[r][i] = "PARKED"
           \/ /\ outcome[r][i] = "NONE"
              /\ MintsTo[i] = r
              /\ message[i] = "received"
        THEN Amount[i] ELSE 0]

\* settle() pays from the receiver's whole balance, so a step repeated or
\* taken on a stale status could spend what is parked for another intent;
\* no interleaving of workers, abandoned transactions and restarts does.
ReceiversHoldTheirOwn ==
    \A r \in Receivers : held[r] = Total(Owed(r))

\* An intent is settled on one receiver only: "an intent settled on one of
\* these reports NONE on the live receiver, so anything asking 'is this intent
\* still open?' must ask every receiver" (deployments.ts:43).
SettledOnOneReceiver ==
    \A i \in Intents, r, q \in Receivers :
        Settled(r, i) /\ Settled(q, i) => r = q

\* Workers deliver each burn once and route it once, whatever they forget.
Delivery == INSTANCE CanonicalDelivery WITH
    stage  <- message,
    routed <- {i \in Intents : SettledAnywhere(i)}

ImplementsDelivery == Delivery!Spec

\* Every burned commitment is routed, though no outsider helps, workers
\* crash, and each may leave the other's transaction unfinished.
EveryBurnIsRouted ==
    \A i \in Intents : message[i] = "burned" ~> SettledAnywhere(i)

\* A tracked record does not stay pending for ever: whoever settled it, the
\* journal learns it from the chain.
JournalCatchesUp ==
    \A w \in Workers, i \in Intents :
        i \in journal[w] ~> i \in done[w] \/ i \notin journal[w]
=============================================================================
