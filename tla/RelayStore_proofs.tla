-------------------------- MODULE RelayStore_proofs --------------------------
(***************************************************************************)
(* Pairing needs a signature and being online needs a report, for any      *)
(* number of operators, exchanges and challenges, any time limits and any  *)
(* number of restarts.                                                     *)
(***************************************************************************)
EXTENDS RelayStore, TLAPS

\* An exchange past its checks whose signature will verify has its
\* operator's own answer behind it, whatever becomes of the challenge.
VerifyingHasSigned ==
    \A x \in Exchanges :
        /\ exchange[x].at = "verifying"
        /\ Verified(exchange[x])
        => exchange[x].claim \in signers

IInv == TypeOK /\ PairedHasSigned /\ OnlineWasHeard /\ VerifyingHasSigned

\* Exchanges that are all idle are well-typed and verify nothing.
LEMMA IdleExchanges ==
  [x \in Exchanges |-> Idle] \in [Exchanges -> Sessions]
  BY DEF Sessions

LEMMA InitInv == Init => IInv
<1> SUFFICES ASSUME Init PROVE IInv
  OBVIOUS
<1>1. challenge \in [Nonces -> [names : Operators, age : ChallengeAges]]
  BY RelayAssumption DEF Init, ChallengeAges
<1>2. TypeOK
  <2>1. restarts \in 0 .. MaxRestarts
    BY RelayAssumption DEF Init
  <2>2. exchange \in [Exchanges -> Sessions]
    BY IdleExchanges DEF Init
  <2> QED
    BY <1>1, <2>1, <2>2 DEF Init, TypeOK
<1>3. PairedHasSigned /\ OnlineWasHeard
  BY DEF Init, PairedHasSigned, OnlineWasHeard
<1>4. VerifyingHasSigned
  BY DEF Init, VerifyingHasSigned, Idle
<1> QED
  BY <1>2, <1>3, <1>4 DEF IInv

-----------------------------------------------------------------------------
(* Pairing. *)

\* Asking for a challenge starts an exchange that nothing has verified.
LEMMA IssueStep ==
  ASSUME IInv, NEW x \in Exchanges, NEW by \in Operators,
         NEW claim \in Operators, IssueChallenge(x, by, claim)
  PROVE  IInv'
<1> USE DEF IInv
<1>1. PICK n \in Nonces :
        /\ pending' = n
        /\ challenge' = [challenge EXCEPT ![n] = [names |-> claim, age |-> 0]]
        /\ exchange' = [exchange EXCEPT ![x] =
              [at |-> "answering", by |-> by, nonce |-> n, claim |-> claim]]
  BY DEF IssueChallenge
<1>2. UNCHANGED <<operator, online, heardAge, inFlight, restarts, newestAge,
                  signers>>
  BY DEF IssueChallenge, stateVars
<1>3. challenge' \in [Nonces -> [names : Operators, age : ChallengeAges]]
  BY <1>1, RelayAssumption DEF TypeOK, ChallengeAges
<1>4. exchange' \in [Exchanges -> Sessions]
  BY <1>1 DEF TypeOK, Sessions
<1>5. TypeOK'
  BY <1>1, <1>2, <1>3, <1>4 DEF TypeOK
<1>6. VerifyingHasSigned'
  BY <1>1, <1>2 DEF VerifyingHasSigned, Verified, TypeOK
<1>7. (PairedHasSigned /\ OnlineWasHeard)'
  BY <1>2 DEF PairedHasSigned, OnlineWasHeard
<1> QED
  BY <1>5, <1>6, <1>7

\* Neither does a second copy of an answer, or the loss of one.
LEMMA AnswerStep ==
  ASSUME IInv, NEW x \in Exchanges,
         \/ \E y \in Exchanges : Repost(x, y)
         \/ GiveUp(x)
  PROVE  IInv'
<1> USE DEF IInv
<1>1. UNCHANGED <<operator, online, heardAge, pending, challenge,
                  signers, inFlight, restarts, newestAge>>
  BY DEF Repost, GiveUp, stateVars
<1>2. PICK y \in Exchanges, e \in Sessions :
        /\ e.at # "verifying"
        /\ exchange' = [exchange EXCEPT ![y] = e]
  <2>1. CASE GiveUp(x)
    BY <2>1 DEF GiveUp, Sessions, Idle
  <2>2. ASSUME NEW y \in Exchanges, Repost(x, y)
        PROVE  \E e \in Sessions :
                  /\ e.at # "verifying"
                  /\ exchange' = [exchange EXCEPT ![y] = e]
    <3> DEFINE copy == [exchange[x] EXCEPT !.at = "answering"]
    <3>1. copy \in Sessions /\ copy.at = "answering"
      BY <2>2 DEF Repost, TypeOK, Sessions, Idle
    <3>2. exchange' = [exchange EXCEPT ![y] = copy]
      BY <2>2 DEF Repost
    <3> QED
      BY <3>1, <3>2
  <2> QED
    BY <2>1, <2>2
<1>3. TypeOK'
  BY <1>1, <1>2 DEF TypeOK
<1>4. VerifyingHasSigned'
  BY <1>1, <1>2 DEF VerifyingHasSigned, Verified, TypeOK
<1>5. (PairedHasSigned /\ OnlineWasHeard)'
  BY <1>1 DEF PairedHasSigned, OnlineWasHeard
<1> QED
  BY <1>3, <1>4, <1>5

\* An answer that passes the checks is its operator's own, or will fail.
LEMMA BeginStep ==
  ASSUME IInv, NEW x \in Exchanges, BeginConfirm(x)
  PROVE  IInv'
<1> USE DEF IInv
<1>1. UNCHANGED <<operator, online, heardAge, challenge, inFlight,
                  restarts, newestAge>>
  BY DEF BeginConfirm, stateVars
<1>2. /\ exchange[x] \in Sessions \ {Idle}
      /\ exchange[x].by \in Operators
  BY DEF BeginConfirm, TypeOK, Sessions, Idle
<1>3. pending' \in Nonces \cup {None}
  BY DEF BeginConfirm, TypeOK
<1>4. signers \subseteq signers' /\ signers' \subseteq Operators
  BY <1>2 DEF BeginConfirm, TypeOK
<1>5. CASE exchange' = [exchange EXCEPT ![x] = Idle]
  <2>1. TypeOK'
    BY <1>1, <1>3, <1>4, <1>5 DEF TypeOK, Sessions
  <2>2. VerifyingHasSigned'
    BY <1>4, <1>5 DEF VerifyingHasSigned, Verified, TypeOK, Idle
  <2> QED
    BY <1>1, <1>4, <2>1, <2>2 DEF PairedHasSigned, OnlineWasHeard
<1>6. CASE /\ exchange' = [exchange EXCEPT ![x].at = "verifying"]
           /\ challenge[exchange[x].nonce].names = exchange[x].claim
           /\ signers' = IF exchange[x].by = challenge[exchange[x].nonce].names
                         THEN signers \cup {exchange[x].by} ELSE signers
  <2>1. exchange' \in [Exchanges -> Sessions]
    BY <1>2, <1>6 DEF TypeOK, Sessions
  <2>2. TypeOK'
    BY <1>1, <1>3, <1>4, <2>1 DEF TypeOK
  <2>3. VerifyingHasSigned'
    BY <1>2, <1>4, <1>6 DEF VerifyingHasSigned, Verified, TypeOK, Sessions
  <2> QED
    BY <1>1, <1>4, <2>2, <2>3 DEF PairedHasSigned, OnlineWasHeard
<1> QED
  BY <1>5, <1>6 DEF BeginConfirm

\* So whoever is paired after the await has signed.
LEMMA FinishStep ==
  ASSUME IInv, NEW x \in Exchanges, FinishConfirm(x)
  PROVE  IInv'
<1> USE DEF IInv
<1>1. UNCHANGED <<online, heardAge, challenge, signers, inFlight, restarts,
                  newestAge>>
  BY DEF FinishConfirm
<1>2. /\ exchange[x] \in [at : {"answering", "verifying"}, by : Operators,
                          nonce : Nonces, claim : Operators]
      /\ exchange' = [exchange EXCEPT ![x] = Idle]
  BY DEF FinishConfirm, TypeOK, Sessions, Idle
<1>3. /\ pending' \in Nonces \cup {None}
      /\ operator' \in Operators \cup {None}
  BY <1>2 DEF FinishConfirm, TypeOK
<1>4. operator' # None => operator' \in signers
  BY DEF FinishConfirm, PairedHasSigned, VerifyingHasSigned
<1>5. operator # None => operator' # None
  BY <1>2, RelayAssumption DEF FinishConfirm
<1>6. TypeOK'
  BY <1>1, <1>2, <1>3 DEF TypeOK, Sessions
<1>7. VerifyingHasSigned'
  BY <1>1, <1>2 DEF VerifyingHasSigned, Verified, TypeOK, Idle
<1> QED
  BY <1>1, <1>4, <1>5, <1>6, <1>7 DEF PairedHasSigned, OnlineWasHeard

-----------------------------------------------------------------------------
(* Reports, the sweep, time and restarts. *)

\* Whoever is heard is paired, and from then on something has been heard.
LEMMA ReportStep ==
  ASSUME IInv, NEW r \in inFlight, ReportNext(r)
  PROVE  IInv'
<1> USE DEF IInv
<1>1. r \in Reports /\ r.age \in ReportAges /\ r.from \in Operators
  BY DEF TypeOK, Reports
<1>2. UNCHANGED <<operator, pending, challenge, exchange, signers,
                  restarts>>
  BY DEF ReportNext, RecordHeartbeat, RecordStageEvent, Refuse, Lose, Hear,
         stateVars, pairingVars
<1>3. inFlight' \subseteq Reports
  BY DEF ReportNext, RecordHeartbeat, RecordStageEvent, Refuse, Lose, Hear,
         TypeOK
<1>4. CASE Hear(r) /\ operator # None
  <2>1. heardAge' \in ReportAges /\ heardAge' # Never
    BY <1>1, <1>4, RelayAssumption DEF Hear, ReportAges, Never
  <2>2. newestAge' \in ReportAges \cup {Never}
    BY <1>1, <1>4 DEF Hear, TypeOK
  <2>3. online' \in BOOLEAN
    BY <1>4 DEF Hear
  <2>4. TypeOK'
    BY <1>2, <1>3, <2>1, <2>2, <2>3 DEF TypeOK
  <2> QED
    BY <1>2, <1>4, <2>1, <2>4
       DEF PairedHasSigned, OnlineWasHeard, VerifyingHasSigned, Verified
<1>5. CASE UNCHANGED <<online, heardAge, newestAge>>
  BY <1>2, <1>3, <1>5
     DEF TypeOK, PairedHasSigned, OnlineWasHeard, VerifyingHasSigned, Verified
<1> QED
  BY <1>1, <1>4, <1>5, RelayAssumption
     DEF ReportNext, RecordHeartbeat, RecordStageEvent, Refuse, Lose, stateVars

LEMMA SendStep ==
  ASSUME IInv, NEW o \in Operators, NEW kind \in {"heartbeat", "stage"},
         Send(o, kind)
  PROVE  IInv'
<1>1. [from |-> o, kind |-> kind, age |-> 0] \in Reports
  BY RelayAssumption DEF Reports, ReportAges
<1>2. inFlight' \subseteq Reports
  BY <1>1 DEF Send, IInv, TypeOK
<1> QED
  BY <1>2 DEF Send, IInv, TypeOK, PairedHasSigned, OnlineWasHeard,
              VerifyingHasSigned, Verified, stateVars, pairingVars

LEMMA SweepStep == IInv /\ SweepHeartbeats => IInv'
  BY DEF SweepHeartbeats, IInv, TypeOK, PairedHasSigned, OnlineWasHeard,
         VerifyingHasSigned, Verified, pairingVars

\* Ages grow up to their limits, and never reach what stands for null.
LEMMA AgesGrow ==
  ASSUME NEW age \in ReportAges \cup {Never}
  PROVE  /\ Aged(age) \in ReportAges \cup {Never}
         /\ age # Never => Aged(age) \in ReportAges /\ Aged(age) # Never
  BY RelayAssumption DEF Aged, Older, ReportAges, Never

LEMMA TickStep == IInv /\ Tick => IInv'
<1> SUFFICES ASSUME IInv, Tick PROVE IInv'
  OBVIOUS
<1> USE DEF IInv
<1>1. UNCHANGED <<operator, online, pending, exchange, signers,
                  restarts>>
  BY DEF Tick
<1>2. /\ heardAge' \in ReportAges \cup {Never}
      /\ newestAge' \in ReportAges \cup {Never}
      /\ heardAge # Never => heardAge' # Never
  BY AgesGrow DEF Tick, TypeOK
<1>3. challenge' \in [Nonces -> [names : Operators, age : ChallengeAges]]
  <2>1. ASSUME NEW n \in Nonces
        PROVE  [challenge[n] EXCEPT !.age = Older(@, ChallengeTtl + 1)]
                  \in [names : Operators, age : ChallengeAges]
    BY RelayAssumption DEF TypeOK, Older, ChallengeAges
  <2> QED
    BY <2>1 DEF Tick
<1>4. inFlight' \subseteq Reports
  <2>1. ASSUME NEW r \in inFlight
        PROVE  [r EXCEPT !.age = Aged(@)] \in Reports
    <3>1. r \in Reports /\ r.age \in ReportAges /\ r.age # Never
      BY RelayAssumption DEF TypeOK, Reports, ReportAges, Never
    <3>2. Aged(r.age) \in ReportAges
      BY <3>1, AgesGrow
    <3> QED
      BY <3>1, <3>2 DEF Reports
  <2> QED
    BY <2>1 DEF Tick
<1>5. TypeOK'
  BY <1>1, <1>2, <1>3, <1>4 DEF TypeOK
<1> QED
  BY <1>1, <1>2, <1>5
     DEF PairedHasSigned, OnlineWasHeard, VerifyingHasSigned, Verified

LEMMA RestartStep == IInv /\ Restart => IInv'
<1> SUFFICES ASSUME IInv, Restart PROVE IInv'
  OBVIOUS
<1>1. restarts' \in 0 .. MaxRestarts
  BY RelayAssumption DEF Restart, IInv, TypeOK
<1>2. TypeOK'
  BY <1>1, IdleExchanges DEF Restart, IInv, TypeOK
<1>3. (PairedHasSigned /\ OnlineWasHeard)'
  BY DEF Restart, PairedHasSigned, OnlineWasHeard
<1>4. VerifyingHasSigned'
  BY DEF Restart, VerifyingHasSigned, Idle
<1> QED
  BY <1>2, <1>3, <1>4 DEF IInv

-----------------------------------------------------------------------------
LEMMA Invariance == Spec => []IInv
<1>1. IInv /\ [Next]_vars => IInv'
  <2> SUFFICES ASSUME IInv, [Next]_vars PROVE IInv'
    OBVIOUS
  <2>1. ASSUME NEW x \in Exchanges, PairingNext(x) PROVE IInv'
    BY <2>1, IssueStep, AnswerStep, BeginStep, FinishStep DEF PairingNext
  <2>2. ASSUME NEW o \in Operators, NEW kind \in {"heartbeat", "stage"},
               Send(o, kind)
        PROVE  IInv'
    BY <2>2, SendStep
  <2>3. ASSUME NEW r \in inFlight, ReportNext(r) PROVE IInv'
    BY <2>3, ReportStep
  <2>4. CASE UNCHANGED vars
    BY <2>4 DEF IInv, TypeOK, PairedHasSigned, OnlineWasHeard,
                VerifyingHasSigned, Verified, vars, stateVars, pairingVars
  <2> QED
    BY <2>1, <2>2, <2>3, <2>4, SweepStep, TickStep, RestartStep DEF Next
<1> QED
  BY <1>1, InitInv, PTL DEF Spec

\* Ages, nonces and exchanges stay what the relay keeps (RelayStore's maps).
THEOREM TypeCorrect == Spec => []TypeOK
<1>1. IInv => TypeOK
  BY DEF IInv
<1> QED
  BY <1>1, Invariance, PTL

\* Nobody is shown as paired without its own signature over a challenge that
\* stood: confirmPairing's await cannot be used up by somebody else's pairing.
THEOREM PairingNeedsSignature == Spec => []PairedHasSigned
<1>1. IInv => PairedHasSigned
  BY DEF IInv
<1> QED
  BY <1>1, Invariance, PTL

\* AWAITING SOLVER is never shown as online: recordHeartbeat and
\* recordStageEvent are the only ways to be.
THEOREM OnlineNeedsReport == Spec => []OnlineWasHeard
<1>1. IInv => OnlineWasHeard
  BY DEF IInv
<1> QED
  BY <1>1, Invariance, PTL
=============================================================================
