----------------------- MODULE SettlementWorker_proofs ----------------------
(***************************************************************************)
(* The invariants of SettlementWorker for any number of workers and        *)
(* commitments, any interleaving of their passes and any number of         *)
(* failures and restarts, as long as every worker settles on the receiver  *)
(* the burns mint to.                                                      *)
(***************************************************************************)
EXTENDS SettlementWorker, Arithmetic_proofs

-----------------------------------------------------------------------------
(* The inductive invariant. *)

\* No receiver has been replaced, from this worker's point of view.
OneReceiver == \A w \in Workers, i \in Intents : Uses[w] = MintsTo[i]

\* A receiver routes only what was minted to it and has arrived, and routes a
\* hooked mint as it arrives.
RoutedIsReceived ==
    \A i \in Intents :
        /\ \A r \in Receivers :
              Settled(r, i) => r = MintsTo[i] /\ message[i] = "received"
        /\ i \in Hooked /\ message[i] = "received" => Settled(MintsTo[i], i)

\* The adapter's cached status may lag behind the chain, never lead it.
CacheBehindChain ==
    \A w \in Workers, i \in Intents :
        status[w][i] \in {"RECEIVED", "RECONCILED"} => message[i] = "received"

\* Where a worker stands and what it has sent agree, and it settles only what
\* has arrived.
Positions ==
    \A w \in Workers :
        /\ at[w] = "confirm" => sent[w] # "settle"
        /\ at[w] = "confirm" /\ sent[w] = "success" =>
              message[on[w]] = "received"
        /\ at[w] \in {"settle", "confirmSettle"} => message[on[w]] = "received"
        /\ at[w] = "confirmSettle" /\ sent[w] = "success" =>
              Settled(Uses[w], on[w])
        /\ at[w] \notin {"confirm", "confirmSettle"} => sent[w] = "none"
        /\ at[w] = "confirmSettle" => sent[w] \in {"settle", "success", "reverted"}

\* A settle nobody waits for any more is for money that has arrived.
OrphanSettles ==
    \A r \in Receivers, i \in Intents :
        <<r, "settle", i>> \in orphans =>
            r = MintsTo[i] /\ message[i] = "received"

IInv ==
    /\ TypeOK
    /\ OneReceiver
    /\ RoutedIsReceived
    /\ CacheBehindChain
    /\ Positions
    /\ OrphanSettles
    /\ JournalNeverAhead
    /\ ReceiversHoldTheirOwn

\* What only transactions change, and what only a worker's own steps change.
ChainType ==
    /\ message \in [Intents -> Messages]
    /\ outcome \in [Receivers -> [Intents -> Outcomes]]
    /\ held \in [Receivers -> Nat]

ChainInv == ChainType /\ RoutedIsReceived /\ ReceiversHoldTheirOwn

\* A step of the chain that takes nothing back.
ChainAdvances ==
    /\ \A i \in Intents : message[i] = "received" => message'[i] = "received"
    /\ \A r \in Receivers, i \in Intents : Settled(r, i) => Settled(r, i)'

-----------------------------------------------------------------------------
(* The ledger of a receiver. *)

LEMMA OwedType ==
    ASSUME NEW r \in Receivers
    PROVE  Owed(r) \in [Intents -> Nat] /\ IsFiniteSet(Intents)
  BY IntentsAssumption DEF Owed

\* If what is owed for one intent changes, the receiver must gain or pay the
\* difference.
LEMMA HeldFollowsOwed ==
    ASSUME ReceiversHoldTheirOwn, ChainType, ChainType',
           NEW r \in Receivers, NEW i \in Intents,
           \A q \in Receivers, j \in Intents :
              <<q, j>> # <<r, i>> => Owed(q)'[j] = Owed(q)[j],
           \A q \in Receivers \ {r} : held'[q] = held[q],
           held'[r] - held[r] = Owed(r)'[i] - Owed(r)[i]
    PROVE  ReceiversHoldTheirOwn'
<1>1. \A q \in Receivers : Owed(q) \in [Intents -> Nat]
                           /\ Owed(q)' \in [Intents -> Nat]
  BY IntentsAssumption DEF Owed
<1>2. IsFiniteSet(Intents)
  BY IntentsAssumption
<1>3. ASSUME NEW q \in Receivers \ {r} PROVE held'[q] = Total(Owed(q)')
  <2>1. Owed(q)' = Owed(q)
    BY <1>1
  <2> QED
    BY <2>1 DEF ReceiversHoldTheirOwn
<1>4. held'[r] = Total(Owed(r)')
  <2> DEFINE n == Owed(r)'[i]
  <2>1. n \in Nat /\ Owed(r)[i] \in Nat
    BY <1>1
  <2>2. Owed(r)' = [Owed(r) EXCEPT ![i] = n]
    BY <1>1
  <2>3. Total([Owed(r) EXCEPT ![i] = n]) = Total(Owed(r)) - Owed(r)[i] + n
    <3> HIDE DEF n
    <3> QED
      BY <1>1, <1>2, <2>1, TotalOfUpdate
  <2>4. held[r] = Total(Owed(r)) /\ held[r] \in Nat /\ held'[r] \in Nat
    BY DEF ReceiversHoldTheirOwn, ChainType
  <2>5. Total(Owed(r)') = Total(Owed(r)) - Owed(r)[i] + n
    BY <2>2, <2>3
  <2>6. held'[r] - held[r] = n - Owed(r)[i]
    OBVIOUS
  <2> HIDE DEF n
  <2> QED
    BY <2>1, <2>4, <2>5, <2>6
<1> QED
  BY <1>3, <1>4 DEF ReceiversHoldTheirOwn, Owed

\* Nothing is owed differently and no money moves.
LEMMA HeldUnmoved ==
    ASSUME ReceiversHoldTheirOwn, held' = held,
           \A q \in Receivers : Owed(q)' = Owed(q)
    PROVE  ReceiversHoldTheirOwn'
  BY DEF ReceiversHoldTheirOwn, Owed

-----------------------------------------------------------------------------
(* Transactions. *)

\* All that can move at once is one intent's outcome on the receiver it mints
\* to, its message, and that receiver's balance by what is owed for it.
LEMMA ChainMove ==
    ASSUME ChainInv, ChainType', NEW i \in Intents, NEW r \in Receivers,
           r = MintsTo[i],
           \A q \in Receivers, j \in Intents :
              <<q, j>> # <<r, i>> => outcome'[q][j] = outcome[q][j],
           \A j \in Intents \ {i} : message'[j] = message[j],
           \A q \in Receivers \ {r} : held'[q] = held[q],
           held'[r] - held[r] = Owed(r)'[i] - Owed(r)[i],
           Settled(r, i) => Settled(r, i)',
           message[i] = "received" => message'[i] = "received",
           Settled(r, i)' => message'[i] = "received",
           i \in Hooked /\ message'[i] = "received" => Settled(r, i)'
    PROVE  ChainInv' /\ ChainAdvances
<1>1. \A q \in Receivers, j \in Intents :
         <<q, j>> # <<r, i>> => Owed(q)'[j] = Owed(q)[j]
  BY DEF Owed
<1>2. ReceiversHoldTheirOwn'
  BY <1>1, HeldFollowsOwed DEF ChainInv
<1>3. RoutedIsReceived'
  <2> SUFFICES ASSUME NEW j \in Intents
               PROVE  /\ \A q \in Receivers :
                            Settled(q, j)' => q = MintsTo[j]
                                              /\ message'[j] = "received"
                      /\ j \in Hooked /\ message'[j] = "received"
                            => Settled(MintsTo[j], j)'
    BY DEF RoutedIsReceived, Settled
  <2>1. CASE j = i
    BY <2>1 DEF ChainInv, RoutedIsReceived, Settled
  <2>2. CASE j # i
    <3>1. \A q \in Receivers : outcome'[q][j] = outcome[q][j]
      BY <2>2
    <3>2. message'[j] = message[j] /\ MintsTo[j] \in Receivers
      BY <2>2, ReceiverAssumption
    <3> QED
      BY <3>1, <3>2 DEF ChainInv, RoutedIsReceived, Settled
  <2> QED
    BY <2>1, <2>2
<1>4. ChainAdvances
  BY DEF ChainAdvances, Settled
<1> QED
  BY <1>2, <1>3, <1>4 DEF ChainInv

LEMMA SettleWithProofLands ==
    ASSUME ChainInv, NEW i \in Intents, NEW r \in Receivers,
           SettleWithProof(r, i)
    PROVE  /\ ChainInv' /\ ChainAdvances
           /\ Settled(r, i)' /\ message'[i] = "received"
<1> USE DEF ChainInv, ChainType, Settled
<1>1. PICK fate \in {"PAID", "PARKED"} : Land(r, i, fate, held[r] + Amount[i])
  BY DEF SettleWithProof
<1>2. /\ r = MintsTo[i] /\ i \in Hooked /\ outcome[r][i] = "NONE"
      /\ message[i] = "attested"
      /\ message' = [message EXCEPT ![i] = "received"]
  BY DEF SettleWithProof
<1>3. outcome' = [outcome EXCEPT ![r][i] = fate]
  BY <1>1 DEF Land
<1>4. Amount[i] \in Nat /\ held[r] \in Nat
  BY IntentsAssumption
<1>5. held' = [held EXCEPT ![r] =
                  held[r] + (IF fate = "PARKED" THEN Amount[i] ELSE 0)]
  <2>1. CASE fate = "PARKED"
    BY <1>1, <2>1 DEF Land
  <2>2. CASE fate = "PAID"
    <3>1. (held[r] + Amount[i]) - Amount[i] = held[r] + 0
      BY <1>4
    <3> QED
      BY <1>1, <2>2, <3>1 DEF Land
  <2> QED
    BY <2>1, <2>2
<1>6. ChainType'
  BY <1>2, <1>3, <1>4, <1>5 DEF Messages, Outcomes
<1>7. Owed(r)[i] = 0 /\ Owed(r)'[i] = IF fate = "PARKED" THEN Amount[i] ELSE 0
  BY <1>2, <1>3 DEF Owed
<1>8. held'[r] - held[r] = Owed(r)'[i] - Owed(r)[i]
  BY <1>4, <1>5, <1>7
<1>9. outcome'[r][i] = fate /\ message'[i] = "received"
  BY <1>2, <1>3
<1>10. /\ \A q \in Receivers, j \in Intents :
             <<q, j>> # <<r, i>> => outcome'[q][j] = outcome[q][j]
       /\ \A j \in Intents \ {i} : message'[j] = message[j]
       /\ \A q \in Receivers \ {r} : held'[q] = held[q]
  BY <1>2, <1>3, <1>5
<1> QED
  BY <1>2, <1>6, <1>8, <1>9, <1>10, ChainMove

LEMMA ReceiveMessageLands ==
    ASSUME ChainInv, NEW i \in Intents, ReceiveMessage(i)
    PROVE  ChainInv' /\ ChainAdvances /\ message'[i] = "received"
<1> USE DEF ChainInv, ChainType, Settled
<1> DEFINE r == MintsTo[i]
<1>1. /\ i \notin Hooked /\ message[i] = "attested"
      /\ message' = [message EXCEPT ![i] = "received"]
      /\ held' = [held EXCEPT ![r] = held[r] + Amount[i]]
      /\ outcome' = outcome
  BY DEF ReceiveMessage
<1>2. r \in Receivers /\ Amount[i] \in Nat /\ held[r] \in Nat
  BY IntentsAssumption, ReceiverAssumption
<1>3. ChainType'
  BY <1>1, <1>2 DEF Messages
<1>4. outcome[r][i] = "NONE"
  BY <1>1, <1>2 DEF RoutedIsReceived
<1>5. Owed(r)[i] = 0 /\ Owed(r)'[i] = Amount[i]
  BY <1>1, <1>4 DEF Owed
<1>6. held'[r] - held[r] = Owed(r)'[i] - Owed(r)[i]
  BY <1>1, <1>2, <1>5
<1>7. /\ message'[i] = "received"
      /\ \A j \in Intents \ {i} : message'[j] = message[j]
      /\ \A q \in Receivers \ {r} : held'[q] = held[q]
  BY <1>1
<1> HIDE DEF r
<1>8. r = MintsTo[i]
  BY DEF r
<1> QED
  BY <1>1, <1>2, <1>3, <1>4, <1>6, <1>7, <1>8, ChainMove

LEMMA SettleLands ==
    ASSUME ChainInv, NEW i \in Intents, NEW r \in Receivers, Settle(r, i),
           r = MintsTo[i], message[i] = "received"
    PROVE  ChainInv' /\ ChainAdvances /\ Settled(r, i)' /\ message' = message
<1> USE DEF ChainInv, ChainType, Settled
<1>1. PICK fate \in {"PAID", "PARKED"} : Land(r, i, fate, held[r])
  BY DEF Settle
<1>2. outcome[r][i] = "NONE" /\ message' = message /\ Amount[i] <= held[r]
  BY DEF Settle
<1>3. outcome' = [outcome EXCEPT ![r][i] = fate]
  BY <1>1 DEF Land
<1>4. Amount[i] \in Nat /\ held[r] \in Nat
  BY IntentsAssumption
<1>5. held' = [held EXCEPT ![r] =
                  held[r] - (IF fate = "PARKED" THEN 0 ELSE Amount[i])]
  <2>1. CASE fate = "PARKED"
    <3>1. held[r] = held[r] - 0
      BY <1>4
    <3> QED
      BY <1>1, <2>1, <3>1 DEF Land
  <2>2. CASE fate = "PAID"
    BY <1>1, <2>2 DEF Land
  <2> QED
    BY <2>1, <2>2
<1>6. ChainType'
  BY <1>2, <1>3, <1>4, <1>5 DEF Outcomes
<1>7. /\ Owed(r)[i] = Amount[i]
      /\ Owed(r)'[i] = IF fate = "PARKED" THEN Amount[i] ELSE 0
  BY <1>2, <1>3 DEF Owed
<1>8. held'[r] - held[r] = Owed(r)'[i] - Owed(r)[i]
  BY <1>4, <1>5, <1>7
<1>9. outcome'[r][i] = fate
  BY <1>3
<1>10. /\ \A q \in Receivers, j \in Intents :
             <<q, j>> # <<r, i>> => outcome'[q][j] = outcome[q][j]
       /\ \A q \in Receivers \ {r} : held'[q] = held[q]
  BY <1>3, <1>5
<1> QED
  BY <1>2, <1>6, <1>8, <1>9, <1>10, ChainMove

LEMMA ParkedPayLands ==
    ASSUME ChainInv, NEW i \in Intents, NEW r \in Receivers,
           outcome[r][i] = "PARKED", Amount[i] <= held[r],
           Land(r, i, "PAID", held[r]), message' = message
    PROVE  ChainInv' /\ ChainAdvances
<1> USE DEF ChainInv, ChainType, Settled
<1>1. /\ outcome' = [outcome EXCEPT ![r][i] = "PAID"]
      /\ held' = [held EXCEPT ![r] = held[r] - Amount[i]]
  BY DEF Land
<1>2. Amount[i] \in Nat /\ held[r] \in Nat
  BY IntentsAssumption
<1>3. ChainType'
  BY <1>1, <1>2 DEF Outcomes
<1>4. Owed(r)[i] = Amount[i] /\ Owed(r)'[i] = 0
  BY <1>1 DEF Owed
<1>5. held'[r] - held[r] = Owed(r)'[i] - Owed(r)[i]
  BY <1>1, <1>2, <1>4
<1>6. r = MintsTo[i] /\ message[i] = "received"
  BY DEF RoutedIsReceived
<1>7. /\ outcome'[r][i] = "PAID"
      /\ \A q \in Receivers, j \in Intents :
            <<q, j>> # <<r, i>> => outcome'[q][j] = outcome[q][j]
      /\ \A q \in Receivers \ {r} : held'[q] = held[q]
  BY <1>1
<1> QED
  BY <1>3, <1>5, <1>6, <1>7, ChainMove

\* Before a message is received nothing is owed for it.
LEMMA EarlierMessageLands ==
    ASSUME ChainInv, NEW i \in Intents, NEW stage \in {"burned", "attested"},
           message[i] \in {"none", "burned"},
           message' = [message EXCEPT ![i] = stage],
           UNCHANGED <<outcome, held>>
    PROVE  ChainInv' /\ ChainAdvances
<1> USE DEF ChainInv, ChainType, Settled
<1>1. ChainType'
  BY DEF Messages
<1>2. \A q \in Receivers : Owed(q)' = Owed(q)
  BY DEF Owed
<1>3. ReceiversHoldTheirOwn'
  BY <1>2, HeldUnmoved
<1>4. RoutedIsReceived'
  BY DEF RoutedIsReceived
<1> QED
  BY <1>1, <1>3, <1>4 DEF ChainAdvances

LEMMA ChainIdle ==
    ASSUME ChainInv, UNCHANGED chainVars
    PROVE  ChainInv' /\ ChainAdvances
<1> USE DEF chainVars
<1>1. \A q \in Receivers : Owed(q)' = Owed(q)
  BY DEF Owed
<1>2. ReceiversHoldTheirOwn'
  BY <1>1, HeldUnmoved DEF ChainInv
<1> QED
  BY <1>2
  DEF ChainInv, ChainType, RoutedIsReceived, Settled, ChainAdvances

-----------------------------------------------------------------------------
(* Steps of the chain. *)

MemoryType ==
    /\ indexed \subseteq Intents
    /\ orphans \subseteq Receivers \X Calls \X Intents
    /\ journal \in [Workers -> SUBSET Intents]
    /\ done \in [Workers -> SUBSET Intents]
    /\ status \in [Workers -> [Intents -> Statuses]]
    /\ todo \in [Workers -> SUBSET Intents]
    /\ at \in [Workers -> Points]
    /\ on \in [Workers -> Intents \cup {NoIntent}]
    /\ \A w \in Workers : on[w] = NoIntent <=> at[w] \in {"idle", "next"}
    /\ sent \in [Workers -> Calls \cup {"none", "success", "reverted"}]
    /\ failures \in Nat

\* What a worker and the mempool believe, against the chain.
Beliefs ==
    /\ CacheBehindChain
    /\ Positions
    /\ OrphanSettles
    /\ JournalNeverAhead

LEMMA InvariantParts ==
    IInv <=> OneReceiver /\ ChainInv /\ MemoryType /\ Beliefs
  BY DEF IInv, TypeOK, ChainInv, ChainType, MemoryType, Beliefs

LEMMA PartsPreserved ==
    ASSUME IInv, ChainInv', MemoryType', Beliefs'
    PROVE  IInv'
  BY DEF IInv, OneReceiver, TypeOK, ChainInv, ChainType, MemoryType, Beliefs

\* The chain only confirms what a worker has seen of it.
LEMMA ChainStepInv ==
    ASSUME IInv, ChainInv', ChainAdvances, UNCHANGED <<memoryVars, passVars>>,
           failures' = failures, indexed' \subseteq Intents,
           orphans' \subseteq orphans
    PROVE  IInv'
<1> USE DEF memoryVars, passVars
<1>1. MemoryType
  BY InvariantParts
<1>2. MemoryType'
  BY <1>1 DEF MemoryType
<1>3. \A w \in Workers : on[w] \in Intents \/ at[w] \in {"idle", "next"}
  BY <1>1 DEF MemoryType
<1>4. \A w \in Workers : Uses[w] \in Receivers
  BY ReceiverAssumption
<1>5. CacheBehindChain'
  BY DEF IInv, CacheBehindChain, ChainAdvances
<1>6. Positions'
  BY <1>3, <1>4 DEF IInv, Positions, ChainAdvances, Settled
<1>7. OrphanSettles'
  BY DEF IInv, OrphanSettles, ChainAdvances
<1>8. JournalNeverAhead'
  BY <1>1, <1>4 DEF IInv, JournalNeverAhead, ChainAdvances, Settled, MemoryType
<1> QED
  BY <1>2, <1>5, <1>6, <1>7, <1>8, PartsPreserved DEF Beliefs

\* What a mined transaction leaves behind; a settle needs its money there.
LEMMA CallLands ==
    ASSUME ChainInv, NEW r \in Receivers, NEW call \in Calls, NEW i \in Intents,
           Succeeds(r, call, i),
           call = "settle" => r = MintsTo[i] /\ message[i] = "received"
    PROVE  /\ ChainInv' /\ ChainAdvances
           /\ message'[i] = "received"
           /\ call = "settle" => Settled(r, i)'
<1>1. CASE call = "settleWithProof"
  BY <1>1, SettleWithProofLands DEF Succeeds
<1>2. CASE call = "receiveMessage"
  BY <1>2, ReceiveMessageLands DEF Succeeds
<1>3. CASE call = "settle"
  BY <1>3, SettleLands DEF Succeeds
<1> QED
  BY <1>1, <1>2, <1>3 DEF Calls

LEMMA ChainStep ==
    ASSUME IInv, NEW i \in Intents, ChainNext(i)
    PROVE  IInv'
<1>1. ChainInv /\ MemoryType
  BY InvariantParts
<1>2. CASE Burn(i)
  <2>1. ChainInv' /\ ChainAdvances
    BY <1>1, <1>2, EarlierMessageLands DEF Burn
  <2> QED
    BY <1>1, <1>2, <2>1, ChainStepInv DEF Burn, MemoryType
<1>3. CASE Attest(i)
  <2>1. ChainInv' /\ ChainAdvances
    BY <1>1, <1>3, EarlierMessageLands DEF Attest
  <2> QED
    BY <1>1, <1>3, <2>1, ChainStepInv DEF Attest, MemoryType
<1>4. CASE DeliveredByOthers(i)
  <2>1. ChainInv' /\ ChainAdvances
    BY <1>1, <1>4, SettleWithProofLands, ReceiveMessageLands,
       ReceiverAssumption
    DEF DeliveredByOthers
  <2> QED
    BY <1>1, <1>4, <2>1, ChainStepInv DEF DeliveredByOthers, MemoryType
<1>5. CASE Index(i)
  <2>1. ChainInv' /\ ChainAdvances
    BY <1>1, <1>5, ChainIdle DEF Index
  <2> QED
    BY <1>1, <1>5, <2>1, ChainStepInv DEF Index, MemoryType
<1>6. ASSUME NEW r \in Receivers, ParkedIsPaid(r, i) PROVE IInv'
  <2>1. ChainInv' /\ ChainAdvances
    BY <1>1, <1>6, ParkedPayLands DEF ParkedIsPaid
  <2> QED
    BY <1>1, <1>6, <2>1, ChainStepInv DEF ParkedIsPaid, MemoryType
<1>7. ASSUME NEW r \in Receivers, NEW call \in Calls, MineOrphan(r, call, i)
      PROVE  IInv'
  <2>1. call = "settle" => r = MintsTo[i] /\ message[i] = "received"
    BY <1>7 DEF MineOrphan, IInv, OrphanSettles
  <2>2. ChainInv' /\ ChainAdvances
    BY <1>1, <1>7, <2>1, CallLands, ChainIdle DEF MineOrphan
  <2> QED
    BY <1>1, <1>7, <2>2, ChainStepInv DEF MineOrphan, MemoryType
<1> QED
  BY <1>2, <1>3, <1>4, <1>5, <1>6, <1>7 DEF ChainNext

\* A transaction in flight is for the record its worker waits on.
LEMMA InFlight ==
    ASSUME IInv, NEW w \in Workers, sent[w] \in Calls
    PROVE  /\ at[w] \in {"confirm", "confirmSettle"}
           /\ on[w] \in Intents
           /\ Uses[w] = MintsTo[on[w]] /\ Uses[w] \in Receivers
           /\ sent[w] = "settle" => message[on[w]] = "received"
<1>1. Positions /\ MemoryType /\ OneReceiver
  BY InvariantParts DEF Beliefs
<1>2. at[w] \in {"confirm", "confirmSettle"}
  BY <1>1 DEF Positions, Calls
<1>3. on[w] \in Intents
  BY <1>1, <1>2 DEF MemoryType
<1>4. Uses[w] = MintsTo[on[w]] /\ Uses[w] \in Receivers
  BY <1>1, <1>3, ReceiverAssumption DEF OneReceiver
<1>5. sent[w] = "settle" => message[on[w]] = "received"
  BY <1>1, <1>2 DEF Positions
<1> QED
  BY <1>2, <1>3, <1>4, <1>5

\* A worker's transaction is mined while it waits for the receipt.
LEMMA MineStep ==
    ASSUME IInv, NEW w \in Workers, Mine(w)
    PROVE  IInv'
<1>1. ChainInv /\ MemoryType /\ OneReceiver /\ Positions
  BY InvariantParts DEF Beliefs
<1>2. /\ sent[w] \in Calls
      /\ on[w] \in Intents /\ Uses[w] = MintsTo[on[w]] /\ Uses[w] \in Receivers
      /\ at[w] \in {"confirm", "confirmSettle"}
  BY InFlight DEF Mine
<1>3. /\ sent[w] = "settle" => at[w] = "confirmSettle"
      /\ at[w] = "confirmSettle" => sent[w] = "settle"
                                    /\ message[on[w]] = "received"
  BY <1>1, <1>2 DEF Positions, Calls
<1>4. \/ /\ Succeeds(Uses[w], sent[w], on[w])
         /\ sent' = [sent EXCEPT ![w] = "success"]
      \/ /\ UNCHANGED chainVars
         /\ sent' = [sent EXCEPT ![w] = "reverted"]
  BY DEF Mine
<1>5. /\ ChainInv' /\ ChainAdvances
      /\ sent'[w] = "success" => message'[on[w]] = "received"
      /\ sent'[w] = "success" /\ at[w] = "confirmSettle"
            => outcome'[Uses[w]][on[w]] # "NONE"
  <2>1. CASE Succeeds(Uses[w], sent[w], on[w])
    <3>1. sent[w] = "settle" =>
             Uses[w] = MintsTo[on[w]] /\ message[on[w]] = "received"
      BY <1>2, <1>3
    <3>2. /\ ChainInv' /\ ChainAdvances
          /\ message'[on[w]] = "received"
          /\ sent[w] = "settle" => outcome'[Uses[w]][on[w]] # "NONE"
      BY <1>1, <1>2, <2>1, <3>1, CallLands DEF Settled
    <3> QED
      BY <1>3, <3>2
  <2>2. CASE UNCHANGED chainVars /\ sent' = [sent EXCEPT ![w] = "reverted"]
    BY <1>1, <2>2, ChainIdle DEF MemoryType
  <2> QED
    BY <1>4, <2>1, <2>2
<1>6. UNCHANGED <<indexed, orphans, memoryVars, todo, at, on, failures>>
  BY DEF Mine
<1>7. MemoryType'
  BY <1>1, <1>4, <1>6 DEF MemoryType, memoryVars
<1>8. CacheBehindChain'
  BY <1>5, <1>6 DEF IInv, CacheBehindChain, ChainAdvances, memoryVars
<1>9. OrphanSettles'
  BY <1>5, <1>6 DEF IInv, OrphanSettles, ChainAdvances
<1>10. JournalNeverAhead'
  BY <1>1, <1>5, <1>6, ReceiverAssumption
  DEF IInv, JournalNeverAhead, ChainAdvances, Settled, MemoryType, memoryVars
<1>11. Positions'
  <2> SUFFICES ASSUME NEW u \in Workers
               PROVE  /\ at[u] = "confirm" => sent'[u] # "settle"
                      /\ at[u] = "confirm" /\ sent'[u] = "success" =>
                            message'[on[u]] = "received"
                      /\ at[u] \in {"settle", "confirmSettle"} =>
                            message'[on[u]] = "received"
                      /\ at[u] = "confirmSettle" /\ sent'[u] = "success" =>
                            outcome'[Uses[u]][on[u]] # "NONE"
                      /\ at[u] \notin {"confirm", "confirmSettle"} =>
                            sent'[u] = "none"
                      /\ at[u] = "confirmSettle" =>
                            sent'[u] \in {"settle", "success", "reverted"}
    BY <1>6 DEF Positions, Settled
  <2>1. CASE u = w
    <3>1. sent'[w] \in {"success", "reverted"}
      BY <1>1, <1>4 DEF MemoryType
    <3>2. message[on[w]] = "received" => message'[on[w]] = "received"
      BY <1>2, <1>5 DEF ChainAdvances
    <3> QED
      BY <1>2, <1>3, <1>5, <2>1, <3>1, <3>2
  <2>2. CASE u # w
    <3>1. sent'[u] = sent[u]
      BY <1>1, <1>4, <2>2 DEF MemoryType
    <3>2. at[u] \in {"confirm", "settle", "confirmSettle"} => on[u] \in Intents
      BY <1>1 DEF MemoryType
    <3>3. Uses[u] \in Receivers
      BY ReceiverAssumption
    <3> QED
      BY <1>1, <1>5, <3>1, <3>2, <3>3 DEF Positions, ChainAdvances, Settled
  <2> QED
    BY <2>1, <2>2
<1> QED
  BY <1>5, <1>7, <1>8, <1>9, <1>10, <1>11, PartsPreserved DEF Beliefs

-----------------------------------------------------------------------------
(* Steps of a worker. *)

\* A worker's own step leaves the chain alone.
LEMMA OwnStepInv ==
    ASSUME IInv, UNCHANGED chainVars, MemoryType', CacheBehindChain',
           Positions', OrphanSettles', JournalNeverAhead'
    PROVE  IInv'
<1>1. ChainInv'
  BY InvariantParts, ChainIdle
<1> QED
  BY <1>1, PartsPreserved DEF Beliefs

\* The three ways to move on keep the types.
LEMMA GotoType ==
    ASSUME MemoryType, NEW w \in Workers,
           NEW point \in Points \ {"idle", "next"},
           at[w] \notin {"idle", "next"}, Goto(w, point), on' = on
    PROVE  /\ at' \in [Workers -> Points]
           /\ \A u \in Workers : on'[u] = NoIntent <=> at'[u] \in {"idle", "next"}
  BY DEF MemoryType, Goto, Points

LEMMA StatusType ==
    ASSUME status \in [Workers -> [Intents -> Statuses]], NEW w \in Workers,
           NEW i \in Intents, NEW known \in Statuses,
           status' = [status EXCEPT ![w][i] = known]
    PROVE  /\ status' \in [Workers -> [Intents -> Statuses]]
           /\ \A u \in Workers, j \in Intents :
                 status'[u][j] = IF u = w /\ j = i THEN known ELSE status[u][j]
  OBVIOUS

LEMMA LeaveRecordType ==
    ASSUME MemoryType, NEW w \in Workers, LeaveRecord(w)
    PROVE  /\ at' \in [Workers -> Points]
           /\ on' \in [Workers -> Intents \cup {NoIntent}]
           /\ \A u \in Workers : on'[u] = NoIntent <=> at'[u] \in {"idle", "next"}
           /\ sent' \in [Workers -> Calls \cup {"none", "success", "reverted"}]
  BY DEF MemoryType, LeaveRecord, Goto, Points

LEMMA MarkSettledType ==
    ASSUME MemoryType, NEW w \in Workers, at[w] \notin {"idle", "next"},
           MarkSettled(w)
    PROVE  /\ on[w] \in Intents
           /\ done' \in [Workers -> SUBSET Intents]
           /\ \A u \in Workers :
                 done'[u] = IF u = w THEN done[w] \cup {on[w]} ELSE done[u]
  BY DEF MemoryType, MarkSettled

\* Marking what the chain has settled keeps the journal behind it.
LEMMA MarkSettledBehind ==
    ASSUME MemoryType, JournalNeverAhead, NEW w \in Workers,
           at[w] \notin {"idle", "next"}, MarkSettled(w), UNCHANGED outcome,
           Settled(Uses[w], on[w])
    PROVE  JournalNeverAhead'
<1>1. \A u \in Workers :
         done'[u] = IF u = w THEN done[w] \cup {on[w]} ELSE done[u]
  BY MarkSettledType
<1>2. \A u \in Workers : \A i \in done'[u] : outcome[Uses[u]][i] # "NONE"
  BY <1>1 DEF JournalNeverAhead, Settled
<1> QED
  BY <1>2 DEF JournalNeverAhead, Settled

LEMMA StartPassStep ==
    ASSUME IInv, NEW w \in Workers, StartPass(w)
    PROVE  IInv'
<1>1. MemoryType /\ CacheBehindChain /\ Positions /\ OrphanSettles
      /\ JournalNeverAhead
  BY InvariantParts DEF Beliefs
<1>2. UNCHANGED chainVars
  BY DEF StartPass, Track
<1> USE DEF StartPass, Track, Goto, Discovered, memoryVars, passVars, chainVars
<1>3. MemoryType'
  BY <1>1, <1>2 DEF MemoryType, Points, Statuses, Calls
<1>4. CacheBehindChain'
  BY <1>1, <1>2 DEF CacheBehindChain, MemoryType
<1>5. Positions'
  BY <1>1, <1>2 DEF Positions, MemoryType, Settled, CacheBehindChain
<1>6. OrphanSettles'
  BY <1>1, <1>2 DEF OrphanSettles
<1>7. JournalNeverAhead'
  BY <1>1, <1>2 DEF JournalNeverAhead, MemoryType, Settled, Positions
<1> QED
  BY <1>2, <1>3, <1>4, <1>5, <1>6, <1>7, OwnStepInv

LEMMA NextRecordStep ==
    ASSUME IInv, NEW w \in Workers, NextRecord(w)
    PROVE  IInv'
<1>1. MemoryType /\ CacheBehindChain /\ Positions /\ OrphanSettles
      /\ JournalNeverAhead
  BY InvariantParts DEF Beliefs
<1>2. UNCHANGED chainVars
  BY DEF NextRecord
<1> USE DEF NextRecord, Goto, memoryVars, passVars, chainVars
<1>3. MemoryType'
  <2>1. PICK i \in todo[w] : /\ on' = [on EXCEPT ![w] = i]
                            /\ todo' = [todo EXCEPT ![w] = @ \ {i}]
    OBVIOUS
  <2>2. i \in Intents /\ i # NoIntent
    BY <1>1, IntentsAssumption DEF MemoryType
  <2> QED
    BY <1>1, <2>1, <2>2 DEF MemoryType, Points
<1>4. CacheBehindChain'
  BY <1>1, <1>2 DEF CacheBehindChain, MemoryType
<1>5. Positions'
  BY <1>1, <1>2 DEF Positions, MemoryType, Settled, CacheBehindChain
<1>6. OrphanSettles'
  BY <1>1, <1>2 DEF OrphanSettles
<1>7. JournalNeverAhead'
  BY <1>1, <1>2 DEF JournalNeverAhead, MemoryType, Settled, Positions
<1> QED
  BY <1>2, <1>3, <1>4, <1>5, <1>6, <1>7, OwnStepInv

LEMMA EndPassStep ==
    ASSUME IInv, NEW w \in Workers, EndPass(w)
    PROVE  IInv'
<1>1. MemoryType /\ CacheBehindChain /\ Positions /\ OrphanSettles
      /\ JournalNeverAhead
  BY InvariantParts DEF Beliefs
<1>2. UNCHANGED chainVars
  BY DEF EndPass
<1> USE DEF EndPass, Goto, memoryVars, passVars, chainVars
<1>3. MemoryType'
  BY <1>1, <1>2 DEF MemoryType, Points, Statuses, Calls
<1>4. CacheBehindChain'
  BY <1>1, <1>2 DEF CacheBehindChain, MemoryType
<1>5. Positions'
  BY <1>1, <1>2 DEF Positions, MemoryType, Settled, CacheBehindChain
<1>6. OrphanSettles'
  BY <1>1, <1>2 DEF OrphanSettles
<1>7. JournalNeverAhead'
  BY <1>1, <1>2 DEF JournalNeverAhead, MemoryType, Settled, Positions
<1> QED
  BY <1>2, <1>3, <1>4, <1>5, <1>6, <1>7, OwnStepInv

LEMMA CheckChainStep ==
    ASSUME IInv, NEW w \in Workers, CheckChain(w)
    PROVE  IInv'
<1>1. MemoryType /\ CacheBehindChain /\ Positions /\ OrphanSettles
      /\ JournalNeverAhead
  BY InvariantParts DEF Beliefs
<1>2. UNCHANGED chainVars
  BY DEF CheckChain
<1> USE DEF CheckChain, Goto, LeaveRecord, MarkSettled, memoryVars, passVars, chainVars
<1>3. MemoryType'
  <2>1. CASE Settled(Uses[w], on[w])
    BY <1>1, <2>1, LeaveRecordType, MarkSettledType DEF MemoryType
  <2>2. CASE ~ Settled(Uses[w], on[w])
    BY <1>1, <2>2, GotoType DEF MemoryType, Points
  <2> QED
    BY <2>1, <2>2
<1>4. CacheBehindChain'
  BY <1>1, <1>2 DEF CacheBehindChain, MemoryType
<1>5. Positions'
  BY <1>1, <1>2 DEF Positions, MemoryType, Settled, CacheBehindChain
<1>6. OrphanSettles'
  BY <1>1, <1>2 DEF OrphanSettles
<1>7. JournalNeverAhead'
  <2>1. CASE Settled(Uses[w], on[w])
    BY <1>1, <1>2, <2>1, MarkSettledBehind
  <2>2. CASE ~ Settled(Uses[w], on[w])
    BY <1>1, <1>2, <2>2 DEF JournalNeverAhead, Settled
  <2> QED
    BY <2>1, <2>2
<1> QED
  BY <1>2, <1>3, <1>4, <1>5, <1>6, <1>7, OwnStepInv

LEMMA ReadStatusStep ==
    ASSUME IInv, NEW w \in Workers, ReadStatus(w)
    PROVE  IInv'
<1>1. MemoryType /\ CacheBehindChain /\ Positions /\ OrphanSettles
      /\ JournalNeverAhead
  BY InvariantParts DEF Beliefs
<1>2. UNCHANGED chainVars
  BY DEF ReadStatus
<1> DEFINE known == Polled(w)
<1>3. /\ on[w] \in Intents
      /\ status \in [Workers -> [Intents -> Statuses]]
  BY <1>1 DEF ReadStatus, MemoryType
<1>4. /\ known \in Statuses
      /\ known = status[w][on[w]] \/ known = "ATTESTED"
  BY <1>3 DEF Polled, Statuses
<1>5. status' = [status EXCEPT ![w][on[w]] = known]
  BY DEF ReadStatus
<1>6. \/ /\ known = "INITIATED"
         /\ LeaveRecord(w)
      \/ /\ known = "ATTESTED"
         /\ Goto(w, "nonce")
         /\ UNCHANGED <<on, sent>>
      \/ /\ known \in {"RECEIVED", "RECONCILED"}
         /\ Goto(w, "settle")
         /\ UNCHANGED <<on, sent>>
  BY DEF ReadStatus
<1>7. at[w] = "status" /\ UNCHANGED <<indexed, orphans, journal, done, todo, failures>>
  BY DEF ReadStatus
<1> HIDE DEF known
<1>8. /\ status' \in [Workers -> [Intents -> Statuses]]
      /\ \A u \in Workers, j \in Intents :
            status'[u][j] = IF u = w /\ j = on[w] THEN known ELSE status[u][j]
  BY <1>3, <1>4, <1>5, StatusType
<1>9. MemoryType'
  <2>1. CASE LeaveRecord(w)
    BY <1>1, <1>7, <1>8, <2>1, LeaveRecordType DEF MemoryType
  <2>2. CASE \E point \in {"nonce", "settle"} :
                Goto(w, point) /\ UNCHANGED <<on, sent>>
    <3>1. /\ at' \in [Workers -> Points]
          /\ \A u \in Workers :
                on'[u] = NoIntent <=> at'[u] \in {"idle", "next"}
      BY <1>1, <1>7, <2>2, GotoType DEF Points
    <3> QED
      BY <1>1, <1>7, <1>8, <2>2, <3>1 DEF MemoryType
  <2> QED
    BY <1>6, <2>1, <2>2
<1>10. CacheBehindChain'
  BY <1>1, <1>2, <1>3, <1>4, <1>8 DEF CacheBehindChain, chainVars
<1>11. Positions'
  <2>1. known \in {"RECEIVED", "RECONCILED"} => message[on[w]] = "received"
    BY <1>1, <1>3, <1>4 DEF CacheBehindChain
  <2>2. \A u \in Workers \ {w} :
           at'[u] = at[u] /\ on'[u] = on[u] /\ sent'[u] = sent[u]
    BY <1>1, <1>6 DEF MemoryType, LeaveRecord, Goto
  <2>3. /\ at'[w] \in {"next", "nonce", "settle"}
        /\ at'[w] = "settle" => message[on'[w]] = "received"
        /\ sent'[w] = "none"
    BY <1>1, <1>6, <1>7, <2>1 DEF MemoryType, LeaveRecord, Goto, Positions
  <2> QED
    BY <1>1, <1>2, <2>2, <2>3 DEF Positions, Settled, chainVars
<1>12. OrphanSettles'
  BY <1>1, <1>2, <1>7 DEF OrphanSettles, chainVars
<1>13. JournalNeverAhead'
  BY <1>1, <1>2, <1>7 DEF JournalNeverAhead, Settled, chainVars
<1> QED
  BY <1>2, <1>9, <1>10, <1>11, <1>12, <1>13, OwnStepInv

LEMMA ReadNonceStep ==
    ASSUME IInv, NEW w \in Workers, ReadNonce(w)
    PROVE  IInv'
<1>1. MemoryType /\ CacheBehindChain /\ Positions /\ OrphanSettles
      /\ JournalNeverAhead
  BY InvariantParts DEF Beliefs
<1>2. UNCHANGED chainVars
  BY DEF ReadNonce
<1> USE DEF ReadNonce, Goto, memoryVars, passVars, chainVars
<1>3. MemoryType'
  <2>1. status' \in [Workers -> [Intents -> Statuses]]
    <3>1. \/ status' = status
          \/ status' = [status EXCEPT ![w][on[w]] = "RECEIVED"]
      OBVIOUS
    <3>2. "RECEIVED" \in Statuses
      BY DEF Statuses
    <3>3. status \in [Workers -> [Intents -> Statuses]] /\ on[w] \in Intents
      BY <1>1 DEF MemoryType
    <3> QED
      BY <3>1, <3>2, <3>3, StatusType
  <2> QED
    BY <1>1, <2>1, GotoType DEF MemoryType, Points
<1>4. CacheBehindChain'
  BY <1>1, <1>2 DEF CacheBehindChain, MemoryType
<1>5. Positions'
  BY <1>1, <1>2 DEF Positions, MemoryType, Settled, CacheBehindChain
<1>6. OrphanSettles'
  BY <1>1, <1>2 DEF OrphanSettles
<1>7. JournalNeverAhead'
  BY <1>1, <1>2 DEF JournalNeverAhead, MemoryType, Settled, Positions
<1> QED
  BY <1>2, <1>3, <1>4, <1>5, <1>6, <1>7, OwnStepInv

LEMMA DeliverStep ==
    ASSUME IInv, NEW w \in Workers, Deliver(w)
    PROVE  IInv'
<1>1. MemoryType /\ CacheBehindChain /\ Positions /\ OrphanSettles
      /\ JournalNeverAhead
  BY InvariantParts DEF Beliefs
<1>2. UNCHANGED chainVars
  BY DEF Deliver
<1> USE DEF Deliver, Goto, memoryVars, passVars, chainVars
<1>3. MemoryType'
  BY <1>1, <1>2 DEF MemoryType, Points, Statuses, Calls
<1>4. CacheBehindChain'
  BY <1>1, <1>2 DEF CacheBehindChain, MemoryType
<1>5. Positions'
  BY <1>1, <1>2 DEF Positions, MemoryType, Settled, CacheBehindChain
<1>6. OrphanSettles'
  BY <1>1, <1>2 DEF OrphanSettles
<1>7. JournalNeverAhead'
  BY <1>1, <1>2 DEF JournalNeverAhead, MemoryType, Settled, Positions
<1> QED
  BY <1>2, <1>3, <1>4, <1>5, <1>6, <1>7, OwnStepInv

LEMMA ConfirmDeliveryStep ==
    ASSUME IInv, NEW w \in Workers, ConfirmDelivery(w)
    PROVE  IInv'
<1>1. MemoryType /\ CacheBehindChain /\ Positions /\ OrphanSettles
      /\ JournalNeverAhead
  BY InvariantParts DEF Beliefs
<1>2. UNCHANGED chainVars
  BY DEF ConfirmDelivery
<1> USE DEF ConfirmDelivery, Goto, LeaveRecord, MarkSettled, memoryVars, passVars, chainVars
<1>3. MemoryType'
  <2>1. status' \in [Workers -> [Intents -> Statuses]]
    <3>1. \/ status' = status
          \/ status' = [status EXCEPT ![w][on[w]] = "RECEIVED"]
          \/ status' = [status EXCEPT ![w][on[w]] = "RECONCILED"]
      OBVIOUS
    <3>2. "RECEIVED" \in Statuses /\ "RECONCILED" \in Statuses
      BY DEF Statuses
    <3>3. status \in [Workers -> [Intents -> Statuses]] /\ on[w] \in Intents
      BY <1>1 DEF MemoryType
    <3> QED
      BY <3>1, <3>2, <3>3, StatusType
  <2>2. CASE sent[w] = "success" /\ on[w] \in Hooked
    BY <1>1, <2>1, <2>2, LeaveRecordType, MarkSettledType DEF MemoryType
  <2>3. CASE sent[w] = "success" /\ on[w] \notin Hooked
    BY <1>1, <2>1, <2>3, GotoType DEF MemoryType, Points
  <2>4. CASE sent[w] = "reverted"
    BY <1>1, <2>1, <2>4, LeaveRecordType DEF MemoryType
  <2> QED
    BY <2>2, <2>3, <2>4
<1>4. CacheBehindChain'
  <2>1. sent[w] = "success" => message[on[w]] = "received"
    BY <1>1 DEF Positions
  <2>2. \A u \in Workers, i \in Intents :
           status'[u][i] # status[u][i]
               => u = w /\ i = on[w] /\ sent[w] = "success"
    BY <1>1 DEF MemoryType
  <2> QED
    BY <1>1, <1>2, <2>1, <2>2 DEF CacheBehindChain
<1>5. Positions'
  BY <1>1, <1>2 DEF Positions, MemoryType, Settled, CacheBehindChain
<1>6. OrphanSettles'
  BY <1>1, <1>2 DEF OrphanSettles
<1>7. JournalNeverAhead'
  <2>1. CASE sent[w] = "success" /\ on[w] \in Hooked
    <3>1. on[w] \in Intents /\ message[on[w]] = "received"
      BY <1>1, <2>1 DEF Positions, MemoryType
    <3>2. OneReceiver /\ RoutedIsReceived
      BY InvariantParts DEF ChainInv
    <3>3. Settled(Uses[w], on[w])
      BY <2>1, <3>1, <3>2 DEF RoutedIsReceived, OneReceiver
    <3> QED
      BY <1>1, <1>2, <2>1, <3>3, MarkSettledBehind
  <2>2. CASE done' = done
    BY <1>1, <1>2, <2>2 DEF JournalNeverAhead, Settled
  <2> QED
    BY <2>1, <2>2
<1> QED
  BY <1>2, <1>3, <1>4, <1>5, <1>6, <1>7, OwnStepInv

LEMMA SubmitSettleStep ==
    ASSUME IInv, NEW w \in Workers, SubmitSettle(w)
    PROVE  IInv'
<1>1. MemoryType /\ CacheBehindChain /\ Positions /\ OrphanSettles
      /\ JournalNeverAhead
  BY InvariantParts DEF Beliefs
<1>2. UNCHANGED chainVars
  BY DEF SubmitSettle
<1> USE DEF SubmitSettle, Goto, memoryVars, passVars, chainVars
<1>3. MemoryType'
  BY <1>1, <1>2 DEF MemoryType, Points, Statuses, Calls
<1>4. CacheBehindChain'
  BY <1>1, <1>2 DEF CacheBehindChain, MemoryType
<1>5. Positions'
  BY <1>1, <1>2 DEF Positions, MemoryType, Settled, CacheBehindChain
<1>6. OrphanSettles'
  BY <1>1, <1>2 DEF OrphanSettles
<1>7. JournalNeverAhead'
  BY <1>1, <1>2 DEF JournalNeverAhead, MemoryType, Settled, Positions
<1> QED
  BY <1>2, <1>3, <1>4, <1>5, <1>6, <1>7, OwnStepInv

LEMMA ConfirmSettleStep ==
    ASSUME IInv, NEW w \in Workers, ConfirmSettle(w)
    PROVE  IInv'
<1>1. MemoryType /\ CacheBehindChain /\ Positions /\ OrphanSettles
      /\ JournalNeverAhead
  BY InvariantParts DEF Beliefs
<1>2. UNCHANGED chainVars
  BY DEF ConfirmSettle
<1> USE DEF ConfirmSettle, Goto, LeaveRecord, MarkSettled, memoryVars, passVars, chainVars
<1>3. MemoryType'
  <2>1. CASE sent[w] = "success"
    BY <1>1, <2>1, LeaveRecordType, MarkSettledType DEF MemoryType
  <2>2. CASE sent[w] = "reverted"
    BY <1>1, <2>2, LeaveRecordType DEF MemoryType
  <2> QED
    BY <2>1, <2>2
<1>4. CacheBehindChain'
  BY <1>1, <1>2 DEF CacheBehindChain, MemoryType
<1>5. Positions'
  BY <1>1, <1>2 DEF Positions, MemoryType, Settled, CacheBehindChain
<1>6. OrphanSettles'
  BY <1>1, <1>2 DEF OrphanSettles
<1>7. JournalNeverAhead'
  BY <1>1, <1>2 DEF JournalNeverAhead, MemoryType, Settled, Positions
<1> QED
  BY <1>2, <1>3, <1>4, <1>5, <1>6, <1>7, OwnStepInv

\* What a stopped worker leaves in the mempool settles only what has arrived.
LEMMA AbandonedSettles ==
    ASSUME IInv, NEW w \in Workers, orphans' = orphans \cup Abandoned(w),
           UNCHANGED chainVars
    PROVE  orphans' \subseteq Receivers \X Calls \X Intents /\ OrphanSettles'
<1>1. MemoryType /\ OneReceiver /\ Positions /\ OrphanSettles
  BY InvariantParts DEF Beliefs
<1>2. Uses[w] \in Receivers
  BY ReceiverAssumption
<1>3. CASE sent[w] \in Calls
  <2>1. on[w] \in Intents
    BY <1>3, InFlight
  <2>2. sent[w] = "settle" => message[on[w]] = "received"
    BY <1>3, InFlight
  <2>3. orphans' = orphans \cup {<<Uses[w], sent[w], on[w]>>}
    BY <1>3 DEF Abandoned
  <2>4. orphans' \subseteq Receivers \X Calls \X Intents
    BY <1>1, <1>2, <1>3, <2>1, <2>3 DEF MemoryType
  <2>5. ASSUME NEW r \in Receivers, NEW i \in Intents,
               <<r, "settle", i>> \in orphans'
        PROVE  r = MintsTo[i] /\ message'[i] = "received"
    <3>1. CASE <<r, "settle", i>> \in orphans
      BY <1>1, <3>1 DEF OrphanSettles, chainVars
    <3>2. CASE <<r, "settle", i>> = <<Uses[w], sent[w], on[w]>>
      BY <1>1, <2>2, <3>2 DEF OneReceiver, chainVars
    <3> QED
      BY <2>3, <2>5, <3>1, <3>2
  <2> QED
    BY <2>4, <2>5 DEF OrphanSettles
<1>4. CASE sent[w] \notin Calls
  BY <1>1, <1>4 DEF Abandoned, MemoryType, OrphanSettles, chainVars
<1> QED
  BY <1>3, <1>4

LEMMA StepFailsStep ==
    ASSUME IInv, NEW w \in Workers, StepFails(w)
    PROVE  IInv'
<1>1. MemoryType /\ CacheBehindChain /\ Positions /\ JournalNeverAhead
  BY InvariantParts DEF Beliefs
<1>2. UNCHANGED chainVars
  BY DEF StepFails
<1>3. orphans' \subseteq Receivers \X Calls \X Intents /\ OrphanSettles'
  BY <1>2, AbandonedSettles DEF StepFails
<1> USE DEF StepFails, Fail, memoryVars, chainVars
<1>4. MemoryType'
  BY <1>1, <1>3, LeaveRecordType, FailuresAssumption DEF MemoryType
<1>5. CacheBehindChain'
  BY <1>1, <1>2 DEF CacheBehindChain
<1>6. Positions'
  BY <1>1, <1>2 DEF Positions, MemoryType, Settled, LeaveRecord, Goto
<1>7. JournalNeverAhead'
  BY <1>1, <1>2 DEF JournalNeverAhead, Settled
<1> QED
  BY <1>2, <1>3, <1>4, <1>5, <1>6, <1>7, OwnStepInv

LEMMA CrashStep ==
    ASSUME IInv, NEW w \in Workers, Crash(w)
    PROVE  IInv'
<1>1. MemoryType /\ CacheBehindChain /\ Positions /\ JournalNeverAhead
  BY InvariantParts DEF Beliefs
<1>2. UNCHANGED chainVars
  BY DEF Crash
<1>3. orphans' \subseteq Receivers \X Calls \X Intents /\ OrphanSettles'
  BY <1>2, AbandonedSettles DEF Crash
<1> USE DEF Crash, Fail, chainVars
<1>4. MemoryType'
  BY <1>1, <1>3, FailuresAssumption DEF MemoryType, Points, Statuses
<1>5. CacheBehindChain'
  BY <1>1, <1>2 DEF CacheBehindChain, MemoryType
<1>6. Positions'
  BY <1>1, <1>2 DEF Positions, MemoryType, Settled
<1>7. JournalNeverAhead'
  BY <1>1, <1>2 DEF JournalNeverAhead, Settled, MemoryType
<1> QED
  BY <1>2, <1>3, <1>4, <1>5, <1>6, <1>7, OwnStepInv

-----------------------------------------------------------------------------
LEMMA InitInv == Init /\ OneReceiver => IInv
<1> SUFFICES ASSUME Init, OneReceiver PROVE IInv
  OBVIOUS
<1> USE DEF Init
<1>1. TypeOK
  BY IntentsAssumption
  DEF TypeOK, Messages, Outcomes, Statuses, Points
<1>2. RoutedIsReceived /\ CacheBehindChain /\ Positions /\ OrphanSettles
      /\ JournalNeverAhead
  BY ReceiverAssumption
  DEF RoutedIsReceived, CacheBehindChain, Positions, OrphanSettles,
      JournalNeverAhead, Settled
<1>3. ReceiversHoldTheirOwn
  <2> SUFFICES ASSUME NEW r \in Receivers PROVE held[r] = Total(Owed(r))
    BY DEF ReceiversHoldTheirOwn
  <2>1. \A i \in Intents : Owed(r)[i] = 0
    BY DEF Owed
  <2>2. Owed(r) \in [Intents -> Nat]
    BY OwedType
  <2>3. Total(Owed(r)) = 0
    BY <2>1, <2>2, TotalOfNothing
  <2> QED
    BY <2>3
<1> QED
  BY <1>1, <1>2, <1>3 DEF IInv

LEMMA NextInv == IInv /\ [Next]_vars => IInv'
<1> SUFFICES ASSUME IInv, [Next]_vars PROVE IInv'
  OBVIOUS
<1>1. ASSUME NEW i \in Intents, ChainNext(i) PROVE IInv'
  BY <1>1, ChainStep
<1>2. ASSUME NEW w \in Workers, WorkerNext(w) PROVE IInv'
  BY <1>2, MineStep, StepFailsStep, CrashStep, StartPassStep, NextRecordStep,
     EndPassStep, CheckChainStep, ReadStatusStep, ReadNonceStep, DeliverStep,
     ConfirmDeliveryStep, SubmitSettleStep, ConfirmSettleStep
  DEF WorkerNext, Progress
<1>3. CASE UNCHANGED vars
  <2>1. ChainInv' /\ ChainAdvances
    BY <1>3, InvariantParts, ChainIdle DEF vars
  <2>2. MemoryType
    BY InvariantParts
  <2> QED
    BY <1>3, <2>1, <2>2, ChainStepInv DEF vars, MemoryType
<1> QED
  BY <1>1, <1>2, <1>3 DEF Next

\* The inductive invariant holds whatever workers, outsiders and failures do,
\* as long as no receiver has been replaced under a worker.
THEOREM Invariance == OneReceiver /\ Spec => []IInv
  BY InitInv, NextInv, PTL DEF Spec

\* No worker of any number ever pays one commitment with money parked or
\* waiting for another, however its steps are repeated or cut short.
THEOREM OwnMoneyOnly == OneReceiver /\ Spec => []ReceiversHoldTheirOwn
<1>1. IInv => ReceiversHoldTheirOwn
  BY DEF IInv
<1> QED
  BY <1>1, Invariance, PTL

\* A journal marks nothing settled that the chain has not settled.
THEOREM JournalBehindChain == OneReceiver /\ Spec => []JournalNeverAhead
<1>1. IInv => JournalNeverAhead
  BY DEF IInv
<1> QED
  BY <1>1, Invariance, PTL

\* Journals, chain and steps under way keep their types: no step of a worker
\* leaves a record that the next pass could not read.
THEOREM WorkerTypeCorrect == OneReceiver /\ Spec => []TypeOK
<1>1. IInv => TypeOK
  BY DEF IInv
<1> QED
  BY <1>1, Invariance, PTL

-----------------------------------------------------------------------------
(* The workers implement CanonicalDelivery. *)

Routed == {i \in Intents : SettledAnywhere(i)}

\* Under one receiver, an intent is routed once it is settled there.
LEMMA RoutedWhere ==
    ASSUME RoutedIsReceived
    PROVE  \A i \in Intents : i \in Routed <=> Settled(MintsTo[i], i)
  BY ReceiverAssumption DEF RoutedIsReceived, Routed, SettledAnywhere

LEMMA CallDelivers ==
    ASSUME IInv, IInv', NEW r \in Receivers, NEW call \in Calls,
           NEW i \in Intents, Succeeds(r, call, i),
           call = "settle" => r = MintsTo[i] /\ message[i] = "received"
    PROVE  Delivery!Next
<1> USE DEF Succeeds, Calls, IInv
<1>1. /\ \A j \in Intents : j \in Routed <=> Settled(MintsTo[j], j)
      /\ \A j \in Intents : j \in Routed' <=> Settled(MintsTo[j], j)'
  <2>1. \A j \in Intents : j \in Routed' <=> Settled(MintsTo[j], j)'
    BY ReceiverAssumption
    DEF RoutedIsReceived, Routed, SettledAnywhere, Settled
  <2> QED
    BY <2>1, RoutedWhere
<1>2. ASSUME NEW fate \in {"PAID", "PARKED"}, NEW funds,
             Land(r, i, fate, funds), r = MintsTo[i], ~ Settled(r, i)
      PROVE  i \notin Routed /\ Routed' = Routed \cup {i}
  <2>1. \A j \in Intents :
           Settled(MintsTo[j], j)' <=> j = i \/ Settled(MintsTo[j], j)
    BY <1>2, ReceiverAssumption DEF Land, Settled, TypeOK
  <2> QED
    BY <1>1, <1>2, <2>1 DEF Routed
<1>3. CASE call = "settleWithProof"
  <2>1. i \notin Routed /\ Routed' = Routed \cup {i}
    BY <1>2, <1>3 DEF SettleWithProof
  <2> QED
    BY <1>3, <2>1
    DEF SettleWithProof, Routed, Delivery!Next, Delivery!ReceiveAndRoute,
        Delivery!Move
<1>4. CASE call = "receiveMessage"
  BY <1>4
  DEF ReceiveMessage, SettledAnywhere, Settled, Delivery!Next,
      Delivery!Receive, Delivery!Move
<1>5. CASE call = "settle"
  <2>1. i \notin Routed /\ Routed' = Routed \cup {i}
    BY <1>2, <1>5 DEF Settle
  <2>2. i \notin Hooked
    BY <1>5 DEF Settle, RoutedIsReceived
  <2> QED
    BY <1>5, <2>1, <2>2
    DEF Settle, Routed, Delivery!Next, Delivery!RouteReceived
<1> QED
  BY <1>3, <1>4, <1>5

LEMMA DeliveryStep == IInv /\ [Next]_vars => [Delivery!Next]_(Delivery!vars)
<1> SUFFICES ASSUME IInv, [Next]_vars PROVE [Delivery!Next]_(Delivery!vars)
  OBVIOUS
<1>1. IInv'
  BY NextInv
<1>2. CASE UNCHANGED chainVars
  BY <1>2 DEF chainVars, Delivery!vars, SettledAnywhere, Settled
<1>3. ASSUME NEW i \in Intents, ChainNext(i)
      PROVE  [Delivery!Next]_(Delivery!vars)
  <2>1. CASE Burn(i)
    BY <2>1
    DEF Burn, SettledAnywhere, Settled, Delivery!Next, Delivery!Burn,
        Delivery!Move
  <2>2. CASE Attest(i)
    BY <2>2
    DEF Attest, SettledAnywhere, Settled, Delivery!Next, Delivery!Attest,
        Delivery!Move
  <2>3. CASE DeliveredByOthers(i)
    <3>1. MintsTo[i] \in Receivers
      BY ReceiverAssumption
    <3>2. \/ Succeeds(MintsTo[i], "settleWithProof", i)
          \/ Succeeds(MintsTo[i], "receiveMessage", i)
      BY <2>3 DEF DeliveredByOthers, Succeeds
    <3> QED
      BY <1>1, <3>1, <3>2, CallDelivers DEF Calls
  <2>4. ASSUME NEW r \in Receivers, ParkedIsPaid(r, i)
        PROVE  [Delivery!Next]_(Delivery!vars)
    <3>1. \A q \in Receivers, j \in Intents :
             Settled(q, j)' <=> Settled(q, j)
      BY <2>4 DEF ParkedIsPaid, Land, Settled, IInv, TypeOK
    <3> QED
      BY <2>4, <3>1 DEF ParkedIsPaid, SettledAnywhere, Delivery!vars
  <2>5. ASSUME NEW r \in Receivers, NEW call \in Calls, MineOrphan(r, call, i)
        PROVE  [Delivery!Next]_(Delivery!vars)
    <3>1. call = "settle" => r = MintsTo[i] /\ message[i] = "received"
      BY <2>5 DEF MineOrphan, IInv, OrphanSettles
    <3> QED
      BY <1>1, <1>2, <2>5, <3>1, CallDelivers DEF MineOrphan
  <2>6. CASE Index(i)
    BY <1>2, <2>6 DEF Index
  <2> QED
    BY <1>3, <2>1, <2>2, <2>3, <2>4, <2>5, <2>6 DEF ChainNext
<1>4. ASSUME NEW w \in Workers, Mine(w)
      PROVE  [Delivery!Next]_(Delivery!vars)
  <2>1. /\ sent[w] \in Calls /\ on[w] \in Intents /\ Uses[w] \in Receivers
        /\ sent[w] = "settle" =>
              Uses[w] = MintsTo[on[w]] /\ message[on[w]] = "received"
    BY <1>4, InFlight DEF Mine
  <2> QED
    BY <1>1, <1>2, <1>4, <2>1, CallDelivers DEF Mine
<1>5. ASSUME NEW w \in Workers, WorkerNext(w), ~ Mine(w)
      PROVE  UNCHANGED chainVars
  BY <1>5
  DEF WorkerNext, Progress, StartPass, Track, NextRecord, EndPass, CheckChain,
      ReadStatus, ReadNonce, Deliver, ConfirmDelivery, SubmitSettle,
      ConfirmSettle, StepFails, Crash
<1> QED
  BY <1>2, <1>3, <1>4, <1>5 DEF Next, vars

\* Any number of workers, failing and restarting at any await, together with
\* outsiders who deliver the same messages, receive each burn once and route
\* it once.
THEOREM WorkersDeliver == OneReceiver /\ Spec => ImplementsDelivery
<1>1. Init => Delivery!Init
  BY DEF Init, Delivery!Init, SettledAnywhere, Settled
<1> QED
  BY <1>1, DeliveryStep, Invariance, PTL DEF Spec, ImplementsDelivery,
     Delivery!Spec
=============================================================================
