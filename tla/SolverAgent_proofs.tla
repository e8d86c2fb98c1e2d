------------------------ MODULE SolverAgent_proofs ------------------------
(***************************************************************************)
(* What a solver may rely on for any number of intents and forged rows,    *)
(* any confirmation policy, and any number of failures and restarts.       *)
(***************************************************************************)
EXTENDS SolverAgent, TLAPS

\* A process has tried exactly what its journal says, and what it is looking
\* at it has not tried yet.
Tried ==
    /\ \A i \in Intents : attempts[i] = IF i \in journal THEN 1 ELSE 0
    /\ visit.at \in {"asked", "receipt", "head", "vault", "signing"}
          => visit.on \notin journal

\* Past the receipt, only what the router emitted is looked at, sent or paid.
Verified ==
    /\ visit.at \in {"head", "vault", "signing", "waiting"} => visit.on \in Genuine
    /\ \A f \in mempool : f.intent \in Genuine
    /\ NoForgedFill

\* A receipt that says success is of a fill that was paid.
Landed ==
    /\ fate = "success" => winner[visit.on] = "own"
    /\ FilledWasPaid

\* What the solver has counted is there, and what it decided on stays there,
\* unless the block was dropped between the two reads.
Deep ==
    /\ visit.on \notin torn =>
          /\ visit.at = "head" => visit.seen <= conf[visit.on]
          /\ visit.at \in {"vault", "signing", "waiting"}
                => visit.seen < Required \/ conf[visit.on] = Required
    /\ visit.at \in {"signing", "waiting"} => visit.seen = Required
    /\ \A f \in mempool : conf[f.intent] = Required \/ f.intent \in torn
    /\ PrematureOnlyIfTorn

-----------------------------------------------------------------------------
(* Steps of the chains and the indexer leave the solver alone, and the     *)
(* solver's leave them alone.                                              *)

LEMMA WorldFrame ==
  ASSUME NEW i \in Intents, SourceNext(i) \/ DestinationNext(i)
  PROVE  UNCHANGED <<solverVars, mempool>>
  BY DEF SourceNext, DestinationNext, Include, Reorganise, RivalFills, Settle,
         IndexIntent, DeadlinePasses, VaultChanges, ObservationChanges, IndexFill,
         chainVars, indexVars

LEMMA SolverFrame ==
  ASSUME SolverNext \/ Throw \/ Crash
  PROVE  UNCHANGED <<chainVars, indexVars>>
  BY DEF SolverNext, StartPass, Discover,
         DiscoveryFails, Choose, EndPass, AskFilled, ReadReceipt,
         ReadHead, Evaluate, Submit, Confirm, TimeOut, Throw, Crash

-----------------------------------------------------------------------------
\* A visit that has just begun, or ended.
LEMMA Arrives ==
  ASSUME NEW place \in Places, NEW i \in Intents \cup {None}
  PROVE  /\ At(place, i) \in Visits
         /\ At(place, i).at = place
         /\ At(place, i).on = i
  BY ConfirmationsAssumption DEF At, Visits

LEMMA DeeperType == \A n \in 0 .. Required : Deeper(n) \in n .. Required
  BY ConfirmationsAssumption DEF Deeper

LEMMA TypeInit == Init => TypeOK
<1> SUFFICES ASSUME Init PROVE TypeOK
  OBVIOUS
<1>1. /\ conf \in [Intents -> 0 .. Required]
      /\ torn \subseteq Genuine
      /\ life \in 0 .. MaxFailures
      /\ failures \in life .. MaxFailures
  BY ConfirmationsAssumption, FailuresAssumption DEF Init
<1>2. /\ visit \in Visits
      /\ visit.at \in Between <=> visit.on = None
      /\ listed \subseteq Intents
  BY Arrives DEF Init, Places, Between, Intents
<1> QED
  BY <1>1, <1>2 DEF Init, TypeOK

LEMMA WorldType ==
  ASSUME TypeOK, NEW i \in Routable,
         DestinationNext(i) \/ (i \in Genuine /\ SourceNext(i))
  PROVE  TypeOK'
<1>1. i \in Intents
  BY DEF Intents, Routable
<1>2. UNCHANGED <<solverVars, mempool>>
  BY <1>1, WorldFrame
<1>3. conf' \in [Intents -> 0 .. Required]
  BY ConfirmationsAssumption
  DEF SourceNext, DestinationNext, Include, Reorganise, RivalFills, Settle,
      IndexIntent, DeadlinePasses, VaultChanges, ObservationChanges, IndexFill,
      chainVars, indexVars, TypeOK
<1>4. /\ winner' \in [Intents -> {"own", "rival", None}]
      /\ paid' \in [Intents -> Nat]
  BY DEF SourceNext, DestinationNext, Include, Reorganise, RivalFills, Settle,
      IndexIntent, DeadlinePasses, VaultChanges, ObservationChanges, IndexFill,
      chainVars, indexVars, TypeOK
<1>5. /\ settled' \subseteq Genuine
      /\ torn' \subseteq Genuine
      /\ lapsed' \subseteq Genuine
      /\ fillable' \subseteq Routable
  BY DEF SourceNext, DestinationNext, Include, Reorganise, RivalFills, Settle,
      IndexIntent, DeadlinePasses, VaultChanges, ObservationChanges, IndexFill,
      chainVars, indexVars, TypeOK
<1>6. /\ willing' \subseteq Routable
      /\ listed' \subseteq Intents
      /\ knownFilled' \subseteq Routable
  BY <1>1
  DEF SourceNext, DestinationNext, Include, Reorganise, RivalFills, Settle,
      IndexIntent, DeadlinePasses, VaultChanges, ObservationChanges, IndexFill,
      chainVars, indexVars, TypeOK
<1> QED
  BY <1>2, <1>3, <1>4, <1>5, <1>6 DEF TypeOK, solverVars

LEMMA BlockType == TypeOK /\ NewBlock => TypeOK'
<1> SUFFICES ASSUME TypeOK, NewBlock PROVE TypeOK'
  OBVIOUS
<1>1. conf' \in [Intents -> 0 .. Required]
  BY DeeperType DEF NewBlock, TypeOK
<1>2. /\ visit' \in Visits
      /\ visit'.at = visit.at
      /\ visit'.on = visit.on
  BY DeeperType DEF NewBlock, TypeOK, Visits
<1> QED
  BY <1>1, <1>2 DEF NewBlock, TypeOK, indexVars

LEMMA MineType ==
  ASSUME TypeOK, NEW f \in mempool, Mine(f)
  PROVE  TypeOK'
<1>1. /\ winner' \in [Intents -> {"own", "rival", None}]
      /\ paid' \in [Intents -> Nat]
  BY DEF Mine, TypeOK, Fills
<1>2. /\ fate' \in {"none", "success", "reverted"}
      /\ fate' # "none" => visit.at = "waiting"
  BY DEF Mine, TypeOK, Awaited
<1> QED
  BY <1>1, <1>2 DEF Mine, TypeOK, indexVars

LEMMA SolverType ==
  ASSUME TypeOK, SolverNext \/ Throw \/ Crash
  PROVE  TypeOK'
<1>1. UNCHANGED <<chainVars, indexVars>>
  BY SolverFrame
<1>2. /\ visit' \in Visits
      /\ visit'.at \in Between <=> visit'.on = None
  <2>1. visit \in Visits /\ (visit.at \in Between <=> visit.on = None)
    BY DEF TypeOK
  <2>2. CASE \E i \in Intents : Choose(i)
    BY <2>1, <2>2, Arrives, IntentsAssumption DEF Choose, Places, Between
  <2>3. CASE \/ StartPass \/ Discover \/ DiscoveryFails \/ EndPass
             \/ Confirm \/ TimeOut \/ Throw \/ Crash
    BY <2>3, Arrives
    DEF StartPass, Discover, DiscoveryFails, EndPass, Confirm, TimeOut, Throw,
        Crash, Leave, Places, Between
  <2>4. CASE visit' = At("choosing", None)
    BY <2>4, Arrives DEF Places, Between
  <2>5. ASSUME visit.on # None,
               NEW place \in Places \ Between,
               NEW n \in 0 .. Required,
               visit' = [visit EXCEPT !.at = place, !.seen = n]
        PROVE  /\ visit' \in Visits
               /\ visit'.at \in Between <=> visit'.on = None
    BY <2>1, <2>5 DEF Visits, Between
  <2>6. CASE ReadReceipt /\ ~ Leave
    <3>1. visit.on \in Genuine /\ conf[visit.on] \in 0 .. Required
      BY <2>6 DEF ReadReceipt, TypeOK, Intents
    <3> QED
      BY <2>1, <2>5, <2>6, <3>1 DEF ReadReceipt, Places, Between
  <2>7. CASE ReadHead /\ ~ Leave
    <3>1. PICK n \in {0, visit.seen} :
             visit' = [visit EXCEPT !.at = "vault", !.seen = n]
      BY <2>7 DEF ReadHead
    <3>2. n \in 0 .. Required
      BY <2>1, ConfirmationsAssumption DEF Visits
    <3>3. visit.at = "head"
      BY <2>7 DEF ReadHead
    <3> QED
      BY <2>1, <2>5, <3>1, <3>2, <3>3 DEF Places, Between
  <2>8. CASE AskFilled /\ ~ Leave
    <3>1. /\ visit.at = "asked"
          /\ visit' = [visit EXCEPT !.at = "receipt", !.lapsed = visit.on \in lapsed]
      BY <2>8 DEF AskFilled
    <3>2. PICK late \in BOOLEAN : late <=> visit.on \in lapsed
      OBVIOUS
    <3>3. visit' = [visit EXCEPT !.at = "receipt", !.lapsed = late]
      BY <3>1, <3>2
    <3> QED
      BY <2>1, <3>1, <3>3 DEF Visits, Places, Between
  <2>9. CASE (Evaluate \/ Submit) /\ ~ Leave
    <3>1. PICK place \in {"signing", "waiting"} : Goto(place)
      BY <2>9 DEF Evaluate, Submit
    <3>2. visit.at \in {"vault", "signing"}
      BY <2>9 DEF Evaluate, Submit
    <3> QED
      BY <2>1, <3>1, <3>2 DEF Goto, Visits, Places, Between
  <2> QED
    BY <2>2, <2>3, <2>4, <2>6, <2>7, <2>8, <2>9 DEF SolverNext, Leave
<1>3. /\ todo' \subseteq Intents
      /\ journal' \subseteq Intents
  BY DEF SolverNext, StartPass, Discover,
         DiscoveryFails, Choose, EndPass, AskFilled, ReadReceipt,
         ReadHead, Evaluate, Submit, Confirm, TimeOut, Throw, Crash, TypeOK, Visits, Between
<1>4. /\ life' \in 0 .. MaxFailures
      /\ failures' \in life' .. MaxFailures
  BY FailuresAssumption
  DEF SolverNext, StartPass, Discover,
      DiscoveryFails, Choose, EndPass, AskFilled, ReadReceipt,
      ReadHead, Evaluate, Submit, Confirm, TimeOut, Throw, Crash, TypeOK
<1>5. /\ fate' \in {"none", "success", "reverted"}
      /\ fate' # "none" => visit'.at = "waiting"
  <2>1. CASE Confirm \/ TimeOut \/ Crash
    BY <2>1 DEF Confirm, TimeOut, Crash
  <2>2. CASE ~ (Confirm \/ TimeOut \/ Crash)
    BY <2>2
    DEF SolverNext, StartPass, Discover,
        DiscoveryFails, Choose, EndPass, AskFilled, ReadReceipt,
        ReadHead, Evaluate, Submit, Throw, TypeOK
  <2> QED
    BY <2>1, <2>2
<1>6. mempool' \subseteq Fills
  <2>1. CASE Submit
    <3>1. Fill \in Fills
      BY <2>1 DEF Submit, Fill, Fills, TypeOK, Visits, Between
    <3> QED
      BY <2>1, <3>1 DEF Submit, TypeOK
  <2>2. CASE ~ Submit
    BY <2>2
    DEF SolverNext, StartPass, Discover,
        DiscoveryFails, Choose, EndPass, AskFilled, ReadReceipt,
        ReadHead, Evaluate, Confirm, TimeOut, Throw, Crash, TypeOK
  <2> QED
    BY <2>1, <2>2
<1>7. reported' \in [Intents -> {"none", "FILLED", "LOST_RACE", "SUBMISSION_FAILED"}]
  BY DEF SolverNext, StartPass, Discover,
         DiscoveryFails, Choose, EndPass, AskFilled, ReadReceipt,
         ReadHead, Evaluate, Submit, Confirm, TimeOut, Throw, Crash, Report, TypeOK
<1>8. attempts' \in [Intents -> Nat]
  BY DEF SolverNext, StartPass, Discover,
         DiscoveryFails, Choose, EndPass, AskFilled, ReadReceipt,
         ReadHead, Evaluate, Submit, Confirm, TimeOut, Throw, Crash, TypeOK
<1> QED
  BY <1>1, <1>2, <1>3, <1>4, <1>5, <1>6, <1>7, <1>8
  DEF TypeOK, chainVars, indexVars

LEMMA TypeStep == TypeOK /\ [Next]_vars => TypeOK'
<1> SUFFICES ASSUME TypeOK, [Next]_vars PROVE TypeOK'
  OBVIOUS
<1>1. CASE UNCHANGED vars
  BY <1>1 DEF TypeOK, vars, chainVars, indexVars, solverVars
<1> QED
  BY <1>1, WorldType, BlockType, MineType, SolverType DEF Next, Routable

\* A visit names an intent whenever processIntent awaits an answer, and no
\* receipt is kept for a fill that nobody waits for.
THEOREM TypeCorrect == Spec => []TypeOK
<1>1. TypeOK /\ [Next]_vars => TypeOK'
  BY TypeStep
<1> QED
  BY <1>1, TypeInit, PTL DEF Spec

-----------------------------------------------------------------------------
(* The journal. *)

LEMMA BlockVisit ==
  ASSUME TypeOK, NewBlock
  PROVE  visit'.at = visit.at /\ visit'.on = visit.on
  BY DEF NewBlock, TypeOK, Visits

LEMMA TriedStep == TypeOK /\ Tried /\ [Next]_vars => Tried'
<1> SUFFICES ASSUME TypeOK, Tried, [Next]_vars PROVE Tried'
  OBVIOUS
<1> DEFINE Untried ==
      visit.at \in {"asked", "receipt", "head", "vault", "signing"}
         => visit.on \notin journal
<1>1. ASSUME NEW i \in Intents, SourceNext(i) \/ DestinationNext(i)
      PROVE  Tried'
  BY <1>1, WorldFrame DEF Tried, solverVars
<1>2. CASE NewBlock
  BY <1>2, BlockVisit DEF NewBlock, Tried
<1>3. ASSUME NEW f \in mempool, Mine(f) PROVE Tried'
  BY <1>3 DEF Mine, Tried
<1>4. CASE Submit
  <2>1. visit.on \in Intents /\ visit.on \notin journal
    BY <1>4 DEF Submit, TypeOK, Visits, Between, Tried
  <2>2. \A i \in Intents : attempts'[i] = IF i \in journal' THEN 1 ELSE 0
    BY <1>4, <2>1 DEF Submit, TypeOK, Tried
  <2>3. Untried'
    BY <1>4, Arrives DEF Submit, Goto, Leave, TypeOK, Visits, Places
  <2> QED
    BY <2>2, <2>3 DEF Tried
<1>5. CASE Crash
  BY <1>5, Arrives DEF Crash, Tried, Places
<1>6. CASE \E i \in Intents : Choose(i)
  BY <1>6, Arrives DEF Choose, Tried, Places
<1>7. CASE StartPass \/ Discover \/ DiscoveryFails \/ EndPass \/ Confirm \/ TimeOut \/ Throw
  BY <1>7, Arrives
  DEF StartPass, Discover,
      DiscoveryFails, EndPass, Confirm, TimeOut, Throw, Leave, Tried, Places
<1>8. CASE AskFilled \/ ReadReceipt \/ ReadHead \/ Evaluate
  <2>1. UNCHANGED <<attempts, journal>>
    BY <1>8 DEF AskFilled, ReadReceipt, ReadHead, Evaluate
  <2>2. CASE Leave
    BY <2>1, <2>2, Arrives DEF Leave, Tried, Places
  <2>3. CASE ~ Leave
    <3>1. /\ visit'.on = visit.on
          /\ visit.at \in {"asked", "receipt", "head", "vault"}
      BY <1>8, <2>3 DEF AskFilled, ReadReceipt, ReadHead, Evaluate, Goto, TypeOK, Visits
    <3> QED
      BY <2>1, <3>1 DEF Tried
  <2> QED
    BY <2>2, <2>3
<1>9. CASE UNCHANGED vars
  BY <1>9 DEF Tried, vars, solverVars
<1> QED
  BY <1>1, <1>2, <1>3, <1>4, <1>5, <1>6, <1>7, <1>8, <1>9
  DEF Next, SolverNext, Intents, Routable

\* "a retry must not assume failure means nothing happened": processIntent
\* marks before it submits and looks before it starts.
THEOREM OneAttempt == Spec => []OneAttemptPerLife
<1>1. Init => Tried
  BY Arrives DEF Init, Tried, Places
<1>2. TypeOK /\ Tried /\ [Next]_vars => Tried'
  BY TriedStep
<1>3. Tried => OneAttemptPerLife
  BY DEF Tried, OneAttemptPerLife
<1> QED
  BY <1>1, <1>2, <1>3, TypeCorrect, PTL DEF Spec

-----------------------------------------------------------------------------
(* The vault. *)

LEMMA PaysStep == TypeOK /\ PaysAtMostOnce /\ [Next]_vars => PaysAtMostOnce'
<1> SUFFICES ASSUME TypeOK, PaysAtMostOnce, [Next]_vars PROVE PaysAtMostOnce'
  OBVIOUS
<1>1. ASSUME NEW i \in Intents, RivalFills(i) PROVE PaysAtMostOnce'
  BY <1>1, IntentsAssumption DEF RivalFills, Open, TypeOK, PaysAtMostOnce
<1>2. ASSUME NEW f \in mempool, Mine(f) PROVE PaysAtMostOnce'
  <2>1. CASE UNCHANGED <<winner, paid>>
    BY <2>1 DEF PaysAtMostOnce
  <2>2. CASE ~ UNCHANGED <<winner, paid>>
    <3>1. /\ FillAccepted(f)
          /\ winner' = [winner EXCEPT ![f.intent] = "own"]
          /\ paid' = [paid EXCEPT ![f.intent] = @ + 1]
      BY <1>2, <2>2 DEF Mine
    <3>2. winner[f.intent] # "own"
      BY <3>1, IntentsAssumption DEF FillAccepted, Open
    <3> QED
      BY <3>1, <3>2 DEF TypeOK, PaysAtMostOnce
  <2> QED
    BY <2>1, <2>2
<1>3. CASE UNCHANGED <<winner, paid>>
  BY <1>3 DEF PaysAtMostOnce
<1>4. ASSUME NEW i \in Intents, SourceNext(i) \/ DestinationNext(i), ~ RivalFills(i)
      PROVE  UNCHANGED <<winner, paid>>
  BY <1>4 DEF SourceNext, DestinationNext, Include, Reorganise, Settle,
         IndexIntent, DeadlinePasses, VaultChanges, ObservationChanges, IndexFill,
         chainVars
<1>5. NewBlock \/ SolverNext \/ Throw \/ Crash \/ UNCHANGED vars
         => UNCHANGED <<winner, paid>>
  BY SolverFrame DEF NewBlock, vars, chainVars
<1> QED
  BY <1>1, <1>2, <1>3, <1>4, <1>5 DEF Next, Intents, Routable

\* However many fills of an intent are left in the mempool, at most one pays,
\* and none after another vault's: claimIntent is what makes a retry safe.
THEOREM PaidOnce == Spec => []PaysAtMostOnce
<1>1. Init => PaysAtMostOnce
  BY IntentsAssumption DEF Init, PaysAtMostOnce
<1> QED
  BY <1>1, PaysStep, TypeCorrect, PTL DEF Spec

\* Nothing but a fill of this solver's own that is mined makes it a winner, and
\* no winner changes.
LEMMA WinnerStep ==
  ASSUME TypeOK, [Next]_vars, NEW i \in Intents
  PROVE  /\ winner[i] = "own" => winner'[i] = "own"
         /\ \/ winner'[i] = "own" => winner[i] = "own"
            \/ \E f \in mempool : f.intent = i /\ Mine(f)
<1>1. ASSUME NEW j \in Intents, RivalFills(j)
      PROVE  winner'[i] = "own" <=> winner[i] = "own"
  BY <1>1, IntentsAssumption DEF RivalFills, Open, TypeOK
<1>2. ASSUME NEW j \in Intents, SourceNext(j) \/ DestinationNext(j), ~ RivalFills(j)
      PROVE  winner' = winner
  BY <1>2 DEF SourceNext, DestinationNext, Include, Reorganise, Settle,
         IndexIntent, DeadlinePasses, VaultChanges, ObservationChanges, IndexFill,
         chainVars
<1>3. NewBlock \/ SolverNext \/ Throw \/ Crash \/ UNCHANGED vars => winner' = winner
  BY SolverFrame DEF NewBlock, vars, chainVars
<1>4. ASSUME NEW f \in mempool, Mine(f)
      PROVE  /\ winner[i] = "own" => winner'[i] = "own"
             /\ winner'[i] = "own" => winner[i] = "own" \/ f.intent = i
  BY <1>4 DEF Mine, TypeOK
<1> QED
  BY <1>1, <1>2, <1>3, <1>4 DEF Next, Intents, Routable

\* What the fills in the mempool, and the visit, are of.
LEMMA MempoolStep ==
  ASSUME [Next]_vars
  PROVE  \/ mempool' \subseteq mempool
         \/ Submit /\ mempool' \subseteq mempool \cup {Fill}
<1>1. ASSUME NEW i \in Intents, SourceNext(i) \/ DestinationNext(i)
      PROVE  mempool' = mempool
  BY <1>1, WorldFrame
<1>2. SolverNext \/ Throw \/ Crash => mempool' = mempool \/ Submit
  BY DEF SolverNext, StartPass, Discover,
         DiscoveryFails, Choose, EndPass, AskFilled, ReadReceipt,
         ReadHead, Evaluate, Confirm, TimeOut, Throw, Crash
<1> QED
  BY <1>1, <1>2 DEF Next, NewBlock, Mine, Submit, vars, Intents, Routable

\* Past the receipt a visit stays with its intent and its confirmations.
LEMMA VisitStep ==
  ASSUME TypeOK, [Next]_vars,
         visit'.at \in {"head", "vault", "signing", "waiting"}
  PROVE  \/ visit' = visit
         \/ /\ visit'.on = visit.on
            /\ \/ NewBlock /\ visit.at = visit'.at
               \/ ReadReceipt /\ visit.at = "receipt" /\ visit'.at = "head"
               \/ ReadHead /\ visit.at = "head" /\ visit'.at = "vault"
               \/ Evaluate /\ visit.at = "vault" /\ visit'.at = "signing"
               \/ Submit /\ visit.at = "signing" /\ visit'.at = "waiting"
<1>1. ASSUME NEW i \in Intents, SourceNext(i) \/ DestinationNext(i)
      PROVE  visit' = visit
  BY <1>1, WorldFrame DEF solverVars
<1>2. CASE NewBlock
  BY <1>2, BlockVisit
<1>3. ~ Leave
  BY Arrives DEF Leave, Places
<1>4. CASE ReadReceipt \/ ReadHead \/ Evaluate \/ Submit
  BY <1>3, <1>4 DEF ReadReceipt, ReadHead, Evaluate, Submit, Goto, TypeOK, Visits
<1>5. ~ (\E i \in Intents : Choose(i) /\ visit' # visit)
  BY Arrives DEF Choose, Places
<1>6. ~ (StartPass \/ Discover \/ DiscoveryFails \/ EndPass \/ Confirm \/ TimeOut \/ Throw \/ Crash)
  BY <1>3, Arrives DEF StartPass, Discover,
     DiscoveryFails, EndPass, Confirm, TimeOut, Throw, Crash, Places
<1>7. ~ AskFilled
  BY <1>3 DEF AskFilled, TypeOK, Visits
<1> QED
  BY <1>1, <1>2, <1>4, <1>5, <1>6, <1>7
  DEF Next, SolverNext, Mine, vars, solverVars, Intents, Routable

-----------------------------------------------------------------------------
(* The source. *)

LEMMA VerifiedStep == TypeOK /\ Verified /\ [Next]_vars => Verified'
<1> SUFFICES ASSUME TypeOK, Verified, [Next]_vars PROVE Verified'
  OBVIOUS
<1>1. visit'.at \in {"head", "vault", "signing", "waiting"} => visit'.on \in Genuine
  <2>1. ReadReceipt /\ visit'.at = "head" => visit.on \in Genuine
    BY Arrives DEF ReadReceipt, Leave, Places
  <2> QED
    BY <2>1, VisitStep DEF Verified
<1>2. \A f \in mempool' : f.intent \in Genuine
  BY MempoolStep DEF Verified, Submit, Fill
<1>3. NoForgedFill'
  BY WinnerStep, IntentsAssumption DEF Verified, NoForgedFill, Intents
<1> QED
  BY <1>1, <1>2, <1>3 DEF Verified

\* "a compromised indexer must not be able to move LP capital": the check of
\* the receipt holds through the awaits that follow, and through a mempool that
\* outlives its process.
THEOREM OnlyGenuineFills == Spec => []NoForgedFill
<1>1. Init => Verified
  BY Arrives, IntentsAssumption DEF Init, Verified, NoForgedFill, Places, Intents
<1>2. TypeOK /\ Verified /\ [Next]_vars => Verified'
  BY VerifiedStep
<1>3. Verified => NoForgedFill
  BY DEF Verified
<1> QED
  BY <1>1, <1>2, <1>3, TypeCorrect, PTL DEF Spec

-----------------------------------------------------------------------------
(* What is reported. *)

LEMMA LandedStep == TypeOK /\ Landed /\ [Next]_vars => Landed'
<1> SUFFICES ASSUME TypeOK, Landed, [Next]_vars PROVE Landed'
  OBVIOUS
<1>1. ASSUME NEW i \in Intents, SourceNext(i) \/ DestinationNext(i)
      PROVE  UNCHANGED <<fate, visit, reported>>
  BY <1>1, WorldFrame DEF solverVars
<1>2. NewBlock => fate' = fate /\ visit'.on = visit.on /\ reported' = reported
  BY BlockVisit DEF NewBlock
<1>3. UNCHANGED vars => UNCHANGED <<fate, visit, reported>>
  BY DEF vars, solverVars
<1>4. fate' = "success" => winner'[visit'.on] = "own"
  <2>1. CASE \E f \in mempool : Mine(f) /\ fate' # fate
    BY <2>1 DEF Mine, Awaited, TypeOK, Fills
  <2>2. CASE fate' = fate /\ visit'.on = visit.on
    <3>1. fate = "success" => visit.on \in Intents
      BY DEF TypeOK, Visits, Between
    <3> QED
      BY <2>2, <3>1, WinnerStep DEF Landed
  <2>3. CASE SolverNext \/ Throw \/ Crash
    BY <2>3, SolverType, SolverFrame, <2>2
    DEF SolverNext, StartPass, Discover,
        DiscoveryFails, Choose, EndPass, AskFilled, ReadReceipt, ReadHead,
        Evaluate, Submit, Confirm, TimeOut, Throw, Crash, TypeOK
  <2> QED
    BY <1>1, <1>2, <1>3, <2>1, <2>2, <2>3 DEF Next, Mine, Intents, Routable
<1>5. FilledWasPaid'
  <2>1. CASE Confirm
    <3>1. \A i \in Intents : reported'[i] = "FILLED"
             => reported[i] = "FILLED" \/ (i = visit.on /\ fate = "success")
      BY <2>1 DEF Confirm, Report, TypeOK
    <3> QED
      BY <3>1, WinnerStep DEF Landed, FilledWasPaid
  <2>2. CASE Submit \/ TimeOut
    <3>1. \A i \in Intents : reported'[i] = "FILLED" => reported[i] = "FILLED"
      BY <2>2 DEF Submit, TimeOut, Report, TypeOK
    <3> QED
      BY <3>1, WinnerStep DEF Landed, FilledWasPaid
  <2>3. CASE ~ (Confirm \/ Submit \/ TimeOut)
    <3>1. SolverNext \/ Throw \/ Crash => reported' = reported
      BY <2>3 DEF SolverNext, StartPass, Discover,
         DiscoveryFails, Choose, EndPass, AskFilled, ReadReceipt,
                  ReadHead, Evaluate, Throw, Crash
    <3>2. reported' = reported
      BY <1>1, <1>2, <1>3, <3>1 DEF Next, Mine, Intents, Routable
    <3> QED
      BY <3>2, WinnerStep DEF Landed, FilledWasPaid
  <2> QED
    BY <2>1, <2>2, <2>3
<1> QED
  BY <1>4, <1>5 DEF Landed

\* "a fill is only reported as landed once its receipt says success": the
\* receipt that is believed is that of the fill that is waited for.
THEOREM FilledIsPaid == Spec => []FilledWasPaid
<1>1. Init => Landed
  BY DEF Init, Landed, FilledWasPaid
<1>2. TypeOK /\ Landed /\ [Next]_vars => Landed'
  BY LandedStep
<1>3. Landed => FilledWasPaid
  BY DEF Landed
<1> QED
  BY <1>1, <1>2, <1>3, TypeCorrect, PTL DEF Spec

-----------------------------------------------------------------------------
(* The depth of what is paid for. *)

\* A commitment that is deep stays in the source chain, and nothing forgets
\* that a visit was torn.
LEMMA SourceStep ==
  ASSUME TypeOK, [Next]_vars
  PROVE  /\ torn \subseteq torn'
         /\ \A i \in Intents : conf[i] = Required => conf'[i] = Required
<1>1. ASSUME NEW j \in Intents, SourceNext(j) \/ DestinationNext(j)
      PROVE  /\ torn \subseteq torn'
             /\ \A i \in Intents : conf[i] = Required => conf'[i] = Required
  BY <1>1, ConfirmationsAssumption
  DEF SourceNext, DestinationNext, Include, Reorganise, RivalFills, Settle,
      IndexIntent, DeadlinePasses, VaultChanges, ObservationChanges, IndexFill,
      chainVars, TypeOK
<1>2. CASE NewBlock
  BY <1>2, ConfirmationsAssumption DEF NewBlock, Deeper, TypeOK
<1>3. (\E f \in mempool : Mine(f)) \/ SolverNext \/ Throw \/ Crash \/ UNCHANGED vars
         => UNCHANGED <<conf, torn>>
  BY SolverFrame DEF Mine, vars, chainVars
<1> QED
  BY <1>1, <1>2, <1>3 DEF Next, Intents, Routable

\* While the head is awaited, only a reorganisation that tears the visit can
\* take confirmations away.
LEMMA HeadStep ==
  ASSUME TypeOK, [Next]_vars, visit.at = "head", visit' = visit,
         visit.on \notin torn'
  PROVE  conf'[visit.on] >= conf[visit.on]
<1>1. visit.on \in Intents
  BY DEF TypeOK, Visits, Between
<1>2. ASSUME NEW j \in Intents, SourceNext(j) \/ DestinationNext(j)
      PROVE  conf'[visit.on] >= conf[visit.on]
  BY <1>1, <1>2
  DEF SourceNext, DestinationNext, Include, Reorganise, RivalFills, Settle,
      IndexIntent, DeadlinePasses, VaultChanges, ObservationChanges, IndexFill,
      chainVars, TypeOK
<1>3. CASE NewBlock
  BY <1>1, <1>3, DeeperType DEF NewBlock, TypeOK
<1>4. (\E f \in mempool : Mine(f)) \/ SolverNext \/ Throw \/ Crash \/ UNCHANGED vars
         => conf' = conf
  BY SolverFrame DEF Mine, vars, chainVars
<1> QED
  BY <1>1, <1>2, <1>3, <1>4 DEF Next, Intents, Routable, TypeOK

LEMMA DeepStep == TypeOK /\ Deep /\ [Next]_vars => Deep'
<1> SUFFICES ASSUME TypeOK, Deep, [Next]_vars PROVE Deep'
  OBVIOUS
<1>1. TypeOK'
  BY TypeStep
<1>2. visit.seen \in 0 .. Required /\ visit'.seen \in 0 .. Required
  BY <1>1 DEF TypeOK, Visits
<1>3. ASSUME visit'.at \in {"head", "vault", "signing", "waiting"}
      PROVE  /\ visit'.on \in Intents
             /\ conf[visit'.on] \in 0 .. Required
             /\ conf'[visit'.on] \in 0 .. Required
  BY <1>1, <1>3 DEF TypeOK, Visits, Between
<1>4. ASSUME visit'.at = "head", visit'.on \notin torn'
      PROVE  visit'.seen <= conf'[visit'.on]
  <2>1. visit'.on \notin torn
    BY <1>4, SourceStep
  <2>2. CASE visit' = visit
    BY <1>2, <1>3, <1>4, <2>1, <2>2, HeadStep DEF Deep
  <2>3. CASE NewBlock /\ visit.at = "head" /\ visit'.on = visit.on
    <3>1. \A m, n \in 0 .. Required : m <= n => Deeper(m) <= Deeper(n)
      BY ConfirmationsAssumption DEF Deeper
    <3>2. conf'[visit'.on] = Deeper(conf[visit'.on])
      BY <1>3, <1>4, <2>3 DEF NewBlock
    <3>3. visit'.seen = Deeper(visit.seen)
      BY <2>3 DEF NewBlock, TypeOK, Visits
    <3>4. visit.seen <= conf[visit'.on]
      BY <2>1, <2>3 DEF Deep
    <3> QED
      BY <1>2, <1>3, <1>4, <3>1, <3>2, <3>3, <3>4
  <2>4. CASE ReadReceipt /\ visit'.on = visit.on
    <3>1. ~ Leave
      BY <1>4, Arrives DEF Leave, Places
    <3>2. visit' = [visit EXCEPT !.at = "head", !.seen = conf[visit.on]]
      BY <2>4, <3>1 DEF ReadReceipt
    <3>3. visit'.seen = conf[visit'.on]
      BY <2>4, <3>2 DEF TypeOK, Visits
    <3>4. conf' = conf
      BY <2>4 DEF ReadReceipt, chainVars
    <3> QED
      BY <1>3, <1>4, <3>3, <3>4
  <2> QED
    BY <1>4, <2>2, <2>3, <2>4, VisitStep
<1>5. ASSUME visit'.at \in {"signing", "waiting"}
      PROVE  visit'.seen = Required
  <2>1. CASE visit' = visit
    BY <1>5, <2>1 DEF Deep
  <2>2. CASE NewBlock /\ visit.at = visit'.at
    BY <1>5, <2>2 DEF NewBlock, Deep
  <2>3. CASE Evaluate
    <3>1. visit.seen >= Required /\ Goto("signing")
      BY <1>5, <2>3, Arrives DEF Evaluate, Accepts, Leave, Places
    <3>2. visit'.seen = visit.seen
      BY <3>1 DEF Goto, TypeOK, Visits
    <3> QED
      BY <1>2, <3>1, <3>2, ConfirmationsAssumption
  <2>4. CASE Submit /\ visit.at = "signing"
    <3>1. Goto("waiting")
      BY <1>5, <2>4, Arrives DEF Submit, Leave, Places
    <3>2. visit'.seen = visit.seen
      BY <3>1 DEF Goto, TypeOK, Visits
    <3> QED
      BY <2>4, <3>2 DEF Deep
  <2> QED
    BY <1>5, <2>1, <2>2, <2>3, <2>4, VisitStep
<1>6. ASSUME visit'.at \in {"vault", "signing", "waiting"}, visit'.on \notin torn',
             visit'.seen = Required
      PROVE  conf'[visit'.on] = Required
  <2>1. visit'.on \notin torn
    BY <1>6, SourceStep
  <2>2. SUFFICES conf[visit'.on] = Required
    BY <1>3, <1>6, SourceStep
  <2>3. CASE visit' = visit
    BY <1>6, <2>1, <2>3, ConfirmationsAssumption DEF Deep
  <2>4. CASE NewBlock /\ visit.at = visit'.at /\ visit'.on = visit.on
    <3>1. visit'.seen = visit.seen
      BY <1>6, <2>4 DEF NewBlock
    <3> QED
      BY <1>6, <2>1, <2>4, <3>1, ConfirmationsAssumption DEF Deep
  <2>5. CASE ReadHead /\ visit.at = "head" /\ visit'.on = visit.on
    <3>1. ~ Leave
      BY <1>6, Arrives DEF Leave, Places
    <3>2. visit'.seen \in {0, visit.seen}
      BY <2>5, <3>1 DEF ReadHead, TypeOK, Visits
    <3>3. visit.seen <= conf[visit'.on]
      BY <2>1, <2>5 DEF Deep
    <3> QED
      BY <1>2, <1>3, <1>6, <3>2, <3>3, ConfirmationsAssumption
  <2>6. CASE Evaluate \/ Submit
    <3>1. Goto("signing") \/ Goto("waiting")
      BY <1>6, <2>6, Arrives DEF Evaluate, Submit, Leave, Places
    <3>2. visit'.seen = visit.seen /\ visit'.on = visit.on
      BY <3>1 DEF Goto, TypeOK, Visits
    <3>3. visit.at \in {"vault", "signing"}
      BY <2>6 DEF Evaluate, Submit
    <3> QED
      BY <1>6, <2>1, <3>2, <3>3, ConfirmationsAssumption DEF Deep
  <2> QED
    BY <1>6, <2>3, <2>4, <2>5, <2>6, VisitStep
<1>7. ASSUME NEW f \in mempool'
      PROVE  conf'[f.intent] = Required \/ f.intent \in torn'
  <2>1. f.intent \in Intents
    BY <1>1, <1>7 DEF TypeOK, Fills
  <2>2. CASE f \in mempool
    BY <2>1, <2>2, SourceStep DEF Deep
  <2>3. CASE Submit /\ f = Fill
    BY <2>1, <2>3, SourceStep, ConfirmationsAssumption DEF Submit, Fill, Deep
  <2> QED
    BY <2>2, <2>3, MempoolStep
<1>8. PrematureOnlyIfTorn'
  BY SourceStep, WinnerStep DEF Deep, PrematureOnlyIfTorn
<1>9. visit'.seen < Required \/ visit'.seen = Required
  BY <1>2, ConfirmationsAssumption
<1> QED
  BY <1>4, <1>5, <1>6, <1>7, <1>8, <1>9 DEF Deep

\* LP capital is advanced only against a commitment that has its confirmations,
\* unless its block was dropped between the two reads of readEvidence.
THEOREM FillsAreDeep == Spec => []PrematureOnlyIfTorn
<1>1. Init => Deep
  BY Arrives, IntentsAssumption DEF Init, Deep, PrematureOnlyIfTorn, Places
<1>2. TypeOK /\ Deep /\ [Next]_vars => Deep'
  BY DeepStep
<1>3. Deep => PrematureOnlyIfTorn
  BY DEF Deep
<1> QED
  BY <1>1, <1>2, <1>3, TypeCorrect, PTL DEF Spec

NoneTorn == torn = {}

\* On a source chain that never reorganises, no fill is premature.
THEOREM NoReorgNoPrematureFill == MaxReorg = 0 /\ Spec => []NoPrematureFill
<1> SUFFICES ASSUME MaxReorg = 0 PROVE Spec => []NoPrematureFill
  OBVIOUS
<1>1. Init => NoneTorn
  BY DEF Init, NoneTorn
<1>2. NoneTorn /\ [Next]_vars => NoneTorn'
  <2> SUFFICES ASSUME NoneTorn, [Next]_vars PROVE torn' = {}
    BY DEF NoneTorn
  <2>1. ASSUME NEW j \in Intents, SourceNext(j) \/ DestinationNext(j)
        PROVE  torn' = {}
    BY <2>1
    DEF SourceNext, DestinationNext, Include, Reorganise, RivalFills, Settle,
        IndexIntent, DeadlinePasses, VaultChanges, ObservationChanges, IndexFill,
        chainVars, NoneTorn
  <2> QED
    BY <2>1, SolverFrame DEF Next, NewBlock, Mine, vars, chainVars, Intents, Routable,
                                 NoneTorn
<1>3. NoneTorn /\ PrematureOnlyIfTorn => NoPrematureFill
  BY DEF PrematureOnlyIfTorn, NoneTorn, NoPrematureFill
<1>4. Spec => []NoneTorn
  BY <1>1, <1>2, PTL DEF Spec
<1> QED
  BY <1>3, <1>4, FillsAreDeep, PTL
=============================================================================
