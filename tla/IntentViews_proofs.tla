------------------------- MODULE IntentViews_proofs -------------------------
(***************************************************************************)
(* What every answer of a reader is worth, for any number of intents and   *)
(* receivers, any page sizes and recheck time: nothing open is missing but *)
(* what a full page hides, and a row outlives its settlement by no more    *)
(* than the recheck time.                                                  *)
(*                                                                         *)
(* An answer is put together from what was read when the call began and    *)
(* what is read when it ends, so the invariant is about calls under way:   *)
(* what the page lacks is done in the index still (PageIsWhole), and what  *)
(* will not be probed need not be (UncheckedIsFresh).                      *)
(***************************************************************************)
EXTENDS IntentViews, TLAPS

\* The last answer is gone when the next call begins.
OneAtATime == call # None => answer = None

\* Of the rows there were, the page lacks those beyond its limit and those
\* that are done; the index never takes that back.
PageIsWhole ==
    call # None =>
        /\ call.toCheck \subseteq call.rows
        /\ \A i \in (1 .. call.seen) \ call.rows :
              OffThePage(call.reader, i) \/ i \in DoneInIndex(call.reader)

\* What the call will not ask the chain is final, or was open lately.
UncheckedIsFresh ==
    call # None =>
        \A i \in call.rows \ call.toCheck :
            /\ call.reader \in Solver
            /\ \/ i \in settledOnChain
               \/ sinceOpen[i] < RecheckAfter + call.time

\* What was heard to be open was open then: it is not settled for longer.
OpenWasHeardBefore ==
    \A i \in Intents :
        /\ settledFor[i] <= sinceOpen[i]
        /\ outcome[i] = None => settledFor[i] = 0

IInv ==
    /\ TypeOK
    /\ OneAtATime
    /\ PageIsWhole
    /\ UncheckedIsFresh
    /\ OpenWasHeardBefore

-----------------------------------------------------------------------------
(* Operators. *)

LEMMA LongAgoType == LongAgo \in Nat \ {0} /\ RecheckAfter + MaxCallTime = LongAgo
  BY ViewAssumption DEF LongAgo

LEMMA LaterIsBounded ==
    ASSUME NEW t \in 0 .. LongAgo
    PROVE  /\ Later(t) \in 0 .. LongAgo
           /\ Later(t) <= t + 1
           /\ \A s \in 0 .. LongAgo : s <= t => Later(s) <= Later(t)
  BY LongAgoType DEF Later

LEMMA PageType ==
    ASSUME TypeOK, NEW k \in Readers
    PROVE  /\ Page(k) \subseteq 1 .. listed
           /\ 1 .. listed \subseteq Intents
  BY ViewAssumption DEF TypeOK, Page, Intents

\* What is done in the index is filled, or settled.
LEMMA DoneMeans ==
    ASSUME TypeOK, NEW k \in Readers, NEW i \in DoneInIndex(k)
    PROVE  ~ StillWanted(k, i)
  BY ViewAssumption DEF TypeOK, DoneInIndex, StillWanted, Readers

\* An outcome is heard as it is, or not at all.
LEMMA HeardMeans ==
    ASSUME TypeOK, NEW i \in Intents, NEW failed
    PROVE  /\ Heard(i, failed) = "settled" => outcome[i] # None
           /\ Heard(i, failed) = "open" => outcome[i] = None
           /\ outcome[i] # None /\ failed = {} => Heard(i, failed) = "settled"
  BY ViewAssumption DEF TypeOK, Heard

-----------------------------------------------------------------------------
(* The chains and their indexes. *)

\* Rows and outcomes only come to be: what a call under way relies on stays.
LEMMA ChainStep ==
    ASSUME IInv,
           \/ Create \/ List
           \/ \E i \in Intents : Fill(i) \/ IndexSettlement(i)
                                    \/ \E r \in Receivers : Settle(i, r)
    PROVE  IInv'
<1>1. /\ UNCHANGED <<settledFor, cacheVars, callVars>>
      /\ fillRows \subseteq fillRows' /\ settlementRows \subseteq settlementRows'
  BY DEF Create, List, Fill, IndexSettlement, Settle, chainVars, indexVars
<1>2. TypeOK'
  <2>1. CASE Create
    <3>1. created' \in 0 .. MaxIntents /\ listed' \in 0 .. created'
      BY <2>1, ViewAssumption DEF Create, IInv, TypeOK, indexVars
    <3> QED
      BY <2>1, <3>1 DEF Create, IInv, TypeOK, indexVars, cacheVars, callVars
  <2>2. CASE List
    BY <2>2 DEF List, IInv, TypeOK, chainVars, cacheVars, callVars
  <2>3. ASSUME NEW i \in Intents, Fill(i) PROVE TypeOK'
    BY <2>3 DEF Fill, IInv, TypeOK, chainVars, cacheVars, callVars
  <2>4. ASSUME NEW i \in Intents, IndexSettlement(i) PROVE TypeOK'
    BY <2>4 DEF IndexSettlement, IInv, TypeOK, chainVars, cacheVars, callVars
  <2>5. ASSUME NEW i \in Intents, NEW r \in Receivers, Settle(i, r)
        PROVE  TypeOK'
    <3>1. /\ outcome' \in [Intents -> Receivers \cup {None}]
          /\ \A j \in Intents : outcome[j] # None => outcome'[j] = outcome[j]
      BY <2>5 DEF Settle, IInv, TypeOK
    <3> QED
      BY <2>5, <3>1, ViewAssumption
      DEF Settle, IInv, TypeOK, indexVars, cacheVars, callVars
  <2> QED
    BY <2>1, <2>2, <2>3, <2>4, <2>5
<1>3. \A k \in Readers : DoneInIndex(k) \subseteq DoneInIndex(k)'
  BY <1>1 DEF DoneInIndex, Readers
<1>4. call # None => call.reader \in Readers
  BY DEF IInv, TypeOK, Calls
<1>5. PageIsWhole'
  BY <1>1, <1>3, <1>4 DEF IInv, PageIsWhole, OffThePage, callVars
<1>6. \A i \in Intents : outcome'[i] = None => outcome[i] = None
  BY DEF Create, List, Fill, IndexSettlement, Settle, chainVars, IInv, TypeOK
<1> QED
  BY <1>1, <1>2, <1>5, <1>6
  DEF IInv, OneAtATime, UncheckedIsFresh, OpenWasHeardBefore, cacheVars,
      callVars

\* Time ages the caches and what was settled alike.
LEMMA TickStep ==
    ASSUME IInv, Tick
    PROVE  IInv'
<1>1. /\ call' = IF call = None THEN None ELSE [call EXCEPT !.time = call.time + 1]
      /\ call # None => call.time < MaxCallTime
      /\ sinceOpen' = [i \in Intents |-> Later(sinceOpen[i])]
      /\ settledFor' = [i \in Intents |->
                          IF outcome[i] = None THEN 0 ELSE Later(settledFor[i])]
      /\ UNCHANGED <<created, outcome, listed, fillRows, settlementRows,
                     settledOnChain, answer>>
  BY DEF Tick, indexVars
<1>2. /\ sinceOpen \in [Intents -> 0 .. LongAgo]
      /\ settledFor \in [Intents -> 0 .. LongAgo]
      /\ call # None => call \in Calls
  BY DEF IInv, TypeOK
<1>3. ASSUME call # None
      PROVE  /\ call' \in Calls /\ call'.time = call.time + 1
             /\ call'.reader = call.reader /\ call'.rows = call.rows
             /\ call'.toCheck = call.toCheck /\ call'.seen = call.seen
             /\ call.time \in Nat
  BY <1>1, <1>2, <1>3, ViewAssumption DEF Calls
<1>4. TypeOK'
  <2>1. /\ sinceOpen' \in [Intents -> 0 .. LongAgo]
        /\ settledFor' \in [Intents -> 0 .. LongAgo]
    BY <1>1, <1>2, LaterIsBounded, LongAgoType
  <2>2. call' \in Calls \cup {None}
    BY <1>1, <1>3
  <2> QED
    BY <1>1, <2>1, <2>2 DEF IInv, TypeOK
<1>5. OneAtATime'
  BY <1>1 DEF IInv, OneAtATime
<1>6. PageIsWhole'
  BY <1>1, <1>3 DEF IInv, PageIsWhole, OffThePage, DoneInIndex
<1>7. UncheckedIsFresh'
  <2> SUFFICES ASSUME call # None, NEW i \in call.rows \ call.toCheck
               PROVE  /\ call.reader \in Solver
                      /\ \/ i \in settledOnChain
                         \/ sinceOpen'[i] < RecheckAfter + (call.time + 1)
    BY <1>1, <1>3 DEF UncheckedIsFresh
  <2>1. /\ call.reader \in Solver
        /\ i \in settledOnChain \/ sinceOpen[i] < RecheckAfter + call.time
    BY DEF IInv, UncheckedIsFresh
  <2>2. i \in Intents
    BY <1>2 DEF Calls
  <2>3. sinceOpen[i] \in 0 .. LongAgo /\ sinceOpen'[i] <= sinceOpen[i] + 1
    BY <1>1, <1>2, <2>2, LaterIsBounded
  <2>4. sinceOpen'[i] \in Nat
    BY <1>4, <2>2, LongAgoType DEF TypeOK
  <2> QED
    BY <1>3, <2>1, <2>3, <2>4, LongAgoType, ViewAssumption
<1>8. OpenWasHeardBefore'
  <2> SUFFICES ASSUME NEW i \in Intents
               PROVE  /\ settledFor'[i] <= sinceOpen'[i]
                      /\ outcome[i] = None => settledFor'[i] = 0
    BY <1>1 DEF OpenWasHeardBefore
  <2>1. settledFor[i] <= sinceOpen[i]
    BY DEF IInv, OpenWasHeardBefore
  <2>2. Later(settledFor[i]) <= Later(sinceOpen[i]) /\ 0 <= Later(sinceOpen[i])
    BY <1>2, <2>1, LaterIsBounded
  <2> QED
    BY <1>1, <2>2
<1> QED
  BY <1>4, <1>5, <1>6, <1>7, <1>8 DEF IInv

-----------------------------------------------------------------------------
(* A call. *)

LEMMA AskStep ==
    ASSUME IInv, NEW k \in Readers, Ask(k)
    PROVE  IInv'
<1> DEFINE rows    == Page(k) \ DoneInIndex(k)
           toCheck == {i \in rows : NeedsCheck(k, i)}
<1>1. /\ call' = [reader |-> k, rows |-> rows, seen |-> listed, time |-> 0,
                  toCheck |-> toCheck]
      /\ answer' = None
      /\ UNCHANGED <<chainVars, indexVars, cacheVars>>
  BY DEF Ask
<1>2. rows \subseteq Intents /\ toCheck \subseteq rows /\ listed \in 0 .. MaxIntents
  BY PageType, ViewAssumption DEF IInv, TypeOK
<1>3. call' \in Calls
  BY <1>1, <1>2, ViewAssumption DEF Calls
<1>4. TypeOK'
  BY <1>1, <1>3 DEF IInv, TypeOK, chainVars, indexVars, cacheVars
<1>5. PageIsWhole'
  <2>1. \A i \in (1 .. listed) \ rows :
           OffThePage(k, i)' \/ i \in DoneInIndex(k)
    <3> SUFFICES ASSUME NEW i \in (1 .. listed) \ rows,
                        i \notin DoneInIndex(k)
                 PROVE  OffThePage(k, i)'
      OBVIOUS
    <3>1. i \notin Page(k)
      OBVIOUS
    <3> QED
      BY <1>1, <3>1, ViewAssumption
      DEF Page, OffThePage, Readers, IInv, TypeOK
  <2>2. DoneInIndex(k)' = DoneInIndex(k)
    BY <1>1 DEF DoneInIndex, indexVars
  <2> QED
    BY <1>1, <1>2, <2>1, <2>2 DEF PageIsWhole
<1>6. UncheckedIsFresh'
  <2> SUFFICES ASSUME NEW i \in rows \ toCheck
               PROVE  /\ k \in Solver
                      /\ i \in settledOnChain
                            \/ sinceOpen[i] < RecheckAfter + 0
    BY <1>1 DEF UncheckedIsFresh, cacheVars
  <2>1. ~ NeedsCheck(k, i)
    OBVIOUS
  <2>2. sinceOpen[i] \in Nat /\ RecheckAfter \in Nat
    BY <1>2, LongAgoType, ViewAssumption DEF IInv, TypeOK
  <2> QED
    BY <2>1, <2>2 DEF NeedsCheck
<1>7. OneAtATime' /\ OpenWasHeardBefore'
  BY <1>1 DEF IInv, OneAtATime, OpenWasHeardBefore, chainVars, cacheVars
<1> QED
  BY <1>4, <1>5, <1>6, <1>7 DEF IInv

\* What an answer is made of.
LEMMA AnswerIs ==
    ASSUME IInv, call # None, NEW failed, Answer(failed)
    PROVE  /\ call \in Calls
           /\ answer'.reader = call.reader
           /\ answer'.unanswered = {i \in call.toCheck : failed[i] # {}}
           /\ \A i \in answer'.rows :
                 /\ i \in call.rows
                 /\ i \in call.toCheck => Heard(i, failed[i]) # "settled"
                 /\ call.reader \in Solver => i \notin settledOnChain
           /\ \A i \in call.rows \ answer'.rows : outcome[i] # None
<1>1. call \in Calls /\ call.rows \subseteq Intents /\ call.toCheck \subseteq Intents
  BY DEF IInv, TypeOK, Calls
<1>2. /\ answer'.reader = call.reader
      /\ answer'.unanswered = {i \in call.toCheck : failed[i] # {}}
      /\ answer'.rows =
            call.rows \ ({i \in call.toCheck : Heard(i, failed[i]) = "settled"}
                         \cup (IF call.reader \in Solver THEN settledOnChain
                                                         ELSE {}))
  BY DEF Answer
<1>3. \A i \in call.toCheck : Heard(i, failed[i]) = "settled" => outcome[i] # None
  BY <1>1, HeardMeans DEF IInv
<1>4. \A i \in settledOnChain : outcome[i] # None
  BY DEF IInv, TypeOK
<1> QED
  BY <1>1, <1>2, <1>3, <1>4

LEMMA AnswerStep ==
    ASSUME IInv, call # None, NEW failed, Answer(failed)
    PROVE  IInv'
<1> DEFINE Told(verdict) == {i \in call.toCheck : Heard(i, failed[i]) = verdict}
           settled == Told("settled") \cup
                      (IF call.reader \in Solver THEN settledOnChain ELSE {})
<1>1. /\ call' = None
      /\ answer' = [reader |-> call.reader, rows |-> call.rows \ settled,
                    unanswered |-> {i \in call.toCheck : failed[i] # {}}]
      /\ UNCHANGED <<chainVars, indexVars>>
  BY DEF Answer
<1>2. \/ UNCHANGED cacheVars
      \/ /\ settledOnChain' = settled
         /\ sinceOpen' = [i \in Intents |-> IF i \in Told("open") THEN call.time
                                                            ELSE sinceOpen[i]]
  BY DEF Answer
<1>3. /\ call \in Calls /\ call.toCheck \subseteq Intents
      /\ call.rows \subseteq Intents /\ call.reader \in Readers
      /\ call.time \in 0 .. MaxCallTime
  BY DEF IInv, TypeOK, Calls
<1>4. /\ \A i \in Told("settled") : outcome[i] # None
      /\ \A i \in Told("open") : outcome[i] = None
  BY <1>3, HeardMeans DEF IInv
<1>5. settled \subseteq {i \in Intents : outcome[i] # None}
  BY <1>3, <1>4 DEF IInv, TypeOK
<1>6. answer' \in Answers
  BY <1>1, <1>3 DEF Answers
<1>7. /\ settledOnChain' \subseteq {i \in Intents : outcome[i] # None}
      /\ sinceOpen' \in [Intents -> 0 .. LongAgo]
  <2>1. call.time \in 0 .. LongAgo
    BY <1>3, ViewAssumption DEF LongAgo
  <2> HIDE DEF Told, settled
  <2> QED
    BY <1>2, <1>5, <2>1 DEF IInv, TypeOK, cacheVars
<1>8. TypeOK'
  BY <1>1, <1>6, <1>7 DEF IInv, TypeOK, chainVars, indexVars
<1>9. OpenWasHeardBefore'
  <2> SUFFICES ASSUME NEW i \in Intents PROVE settledFor[i] <= sinceOpen'[i]
    BY <1>1 DEF IInv, OpenWasHeardBefore, chainVars
  <2>1. settledFor[i] <= sinceOpen[i]
    BY DEF IInv, OpenWasHeardBefore
  <2>2. i \in Told("open") => settledFor[i] <= call.time
    BY <1>3, <1>4 DEF IInv, OpenWasHeardBefore
  <2> HIDE DEF Told
  <2> QED
    BY <1>2, <2>1, <2>2 DEF cacheVars
<1> QED
  BY <1>1, <1>8, <1>9 DEF IInv, OneAtATime, PageIsWhole, UncheckedIsFresh

\* A call that fails changes nothing; the cache is empty after a restart.
LEMMA FailsStep ==
    ASSUME IInv, Fails
    PROVE  IInv'
<1>1. call' = None /\ UNCHANGED <<chainVars, indexVars, cacheVars, answer>>
  BY DEF Fails
<1> QED
  BY <1>1
  DEF IInv, TypeOK, OneAtATime, PageIsWhole, UncheckedIsFresh,
      OpenWasHeardBefore, chainVars, indexVars, cacheVars

LEMMA RestartStep ==
    ASSUME IInv, Restart
    PROVE  IInv'
<1>1. /\ call' = None /\ settledOnChain' = {}
      /\ sinceOpen' = [i \in Intents |-> LongAgo]
      /\ UNCHANGED <<chainVars, indexVars, answer>>
  BY DEF Restart, callVars
<1>2. \A i \in Intents : settledFor[i] <= LongAgo
  BY LongAgoType DEF IInv, TypeOK
<1>3. TypeOK'
  BY <1>1, LongAgoType DEF IInv, TypeOK, chainVars, indexVars
<1> QED
  BY <1>1, <1>2, <1>3
  DEF IInv, OneAtATime, PageIsWhole, UncheckedIsFresh, OpenWasHeardBefore,
      chainVars

-----------------------------------------------------------------------------
(* The invariant. *)

LEMMA InitInv == Init => IInv
<1> SUFFICES ASSUME Init PROVE IInv
  OBVIOUS
<1>1. TypeOK
  BY LongAgoType, ViewAssumption DEF Init, TypeOK
<1> QED
  BY <1>1, LongAgoType
  DEF Init, IInv, OneAtATime, PageIsWhole, UncheckedIsFresh,
      OpenWasHeardBefore

LEMMA NextInv == IInv /\ [Next]_vars => IInv'
<1> SUFFICES ASSUME IInv, [Next]_vars PROVE IInv'
  OBVIOUS
<1>1. CASE ChainNext
  <2>1. CASE Tick
    BY <2>1, TickStep
  <2> QED
    BY <1>1, <2>1, ChainStep DEF ChainNext
<1>2. ASSUME NEW k \in Readers, Ask(k) PROVE IInv'
  BY <1>2, AskStep
<1>3. CASE AnswerInPart
  BY <1>3, AnswerStep DEF AnswerInPart
<1>4. CASE Fails
  BY <1>4, FailsStep
<1>5. CASE Restart
  BY <1>5, RestartStep
<1>6. CASE UNCHANGED vars
  BY <1>6
  DEF vars, chainVars, indexVars, cacheVars, callVars, IInv, TypeOK,
      OneAtATime, PageIsWhole, UncheckedIsFresh, OpenWasHeardBefore,
      OffThePage, DoneInIndex
<1> QED
  BY <1>1, <1>2, <1>3, <1>4, <1>5, <1>6 DEF Next

LEMMA Invariance == Spec => []IInv
  BY InitInv, NextInv, PTL DEF Spec

\* The cache holds settled intents only; every row is one that was created.
THEOREM ViewTypeCorrect == Spec => []TypeOK
<1>1. IInv => TypeOK
  BY DEF IInv
<1> QED
  BY <1>1, Invariance, PTL

-----------------------------------------------------------------------------
(* What an answer is worth. *)

\* Only the end of a call puts an answer there.
LEMMA OnlyAnAnswerAnswers ==
    ASSUME IInv, [Next]_vars, Answered
    PROVE  \E failed : Answer(failed)
<1>1. call # None /\ answer = None /\ answer' # None
  BY DEF IInv, OneAtATime, Answered
<1>2. answer' # answer
  BY <1>1
<1>3. ~ ChainNext
  BY <1>2
  DEF ChainNext, Create, List, Fill, Settle, IndexSettlement, Tick, callVars
<1>4. ~ Fails /\ ~ Restart /\ ~ UNCHANGED vars
  BY <1>2 DEF Fails, Restart, vars, callVars
<1>5. \A k \in Readers : ~ Ask(k)
  BY <1>1 DEF Ask
<1> QED
  BY <1>3, <1>4, <1>5 DEF Next, AnswerInPart

LEMMA NothingOpenIsMissingStep ==
    ASSUME IInv, [Next]_vars, Answered,
           NEW i \in 1 .. call.seen,
           StillWanted(call.reader, i), i \notin answer'.rows
    PROVE  OffThePage(call.reader, i)
<1>1. PICK failed : Answer(failed)
  BY OnlyAnAnswerAnswers
<1>2. call # None
  BY DEF Answered
<1>3. call.reader \in Readers
  BY <1>1, <1>2, AnswerIs DEF Calls
<1>4. i \notin call.rows
  BY <1>1, <1>2, AnswerIs DEF StillWanted
<1>5. i \notin DoneInIndex(call.reader)
  BY <1>3, DoneMeans DEF IInv
<1> QED
  BY <1>2, <1>4, <1>5 DEF IInv, PageIsWhole

LEMMA StaleIsRecentStep ==
    ASSUME IInv, [Next]_vars, Answered,
           NEW i \in answer'.rows,
           outcome[i] # None, settledFor[i] >= RecheckAfter + call.time
    PROVE  i \in answer'.unanswered
<1>1. PICK failed : Answer(failed)
  BY OnlyAnAnswerAnswers
<1>2. call # None
  BY DEF Answered
<1>3. call \in Calls /\ i \in call.rows
  BY <1>1, <1>2, AnswerIs
<1>4. i \in Intents /\ call.time \in Nat
  BY <1>3, ViewAssumption DEF Calls
<1>5. CASE i \notin call.toCheck
  <2>1. call.reader \in Solver
        /\ (i \in settledOnChain \/ sinceOpen[i] < RecheckAfter + call.time)
    BY <1>2, <1>3, <1>5 DEF IInv, UncheckedIsFresh
  <2>2. i \notin settledOnChain
    BY <1>1, <1>2, <2>1, AnswerIs
  <2>3. settledFor[i] <= sinceOpen[i]
        /\ settledFor[i] \in Nat /\ sinceOpen[i] \in Nat
    BY <1>4, LongAgoType DEF IInv, TypeOK, OpenWasHeardBefore
  <2> QED
    BY <1>4, <2>1, <2>2, <2>3, ViewAssumption
<1>6. CASE i \in call.toCheck
  <2>1. Heard(i, failed[i]) # "settled"
    BY <1>1, <1>2, <1>6, AnswerIs
  <2>2. failed[i] # {}
    BY <1>4, <2>1, HeardMeans DEF IInv
  <2> QED
    BY <1>1, <1>2, <1>6, <2>2, AnswerIs
<1> QED
  BY <1>5, <1>6

\* Whatever fails to answer, an intent that was listed when the call began and
\* is still to be filled or settled is in the answer, or beyond its page.
THEOREM NothingOpenIsLost == Spec => NothingOpenIsMissing
<1>1. IInv /\ [Next]_vars =>
        (Answered =>
           \A i \in 1 .. call.seen :
              StillWanted(call.reader, i) /\ i \notin answer'.rows
                  => OffThePage(call.reader, i))
  BY NothingOpenIsMissingStep
<1> QED
  BY <1>1, Invariance, PTL DEF Spec, NothingOpenIsMissing

\* A settled intent is answered for no longer than the recheck time and the
\* call together, unless a receiver did not answer for it.
THEOREM StaleRowsAreRecent == Spec => StaleIsRecent
<1>1. IInv /\ [Next]_vars =>
        (Answered =>
           \A i \in answer'.rows :
              outcome[i] # None /\ settledFor[i] >= RecheckAfter + call.time
                  => i \in answer'.unanswered)
  BY StaleIsRecentStep
<1> QED
  BY <1>1, Invariance, PTL DEF Spec, StaleIsRecent

-----------------------------------------------------------------------------
(* Where the two claims of the source's comments hold that the model       *)
(* refutes: on a page that has room for every intent there is.             *)

\* With no more intents than fit its page, the worker hears of every one that
\* is not settled.
THEOREM DiscoveryIsCompleteOnOnePage ==
    ASSUME MaxIntents <= PageSize["discovery"]
    PROVE  Spec => DiscoveryNamesAll
<1>1. IInv /\ [Next]_vars =>
        (Answered /\ call.reader = "discovery" =>
           \A i \in 1 .. call.seen : outcome[i] = None => i \in answer'.rows)
  <2> SUFFICES ASSUME IInv, [Next]_vars, Answered, call.reader = "discovery",
                      NEW i \in 1 .. call.seen, outcome[i] = None,
                      i \notin answer'.rows
               PROVE  FALSE
    OBVIOUS
  <2>1. OffThePage(call.reader, i)
    BY NothingOpenIsMissingStep DEF StillWanted
  <2>2. call.seen \in 0 .. MaxIntents
    BY DEF Answered, IInv, TypeOK, Calls
  <2>3. i + PageSize["discovery"] <= call.seen
    BY <2>1 DEF OffThePage
  <2> QED
    BY <2>2, <2>3, ViewAssumption
<1> QED
  BY <1>1, Invariance, PTL DEF Spec, DiscoveryNamesAll

\* With no more intents than fit its page, the solver's health names the
\* oldest open one, or one that is older still.
THEOREM HealthIsRightOnOnePage ==
    ASSUME MaxIntents <= PageSize["health"]
    PROVE  Spec => HealthNamesTheOldest
<1>1. IInv /\ [Next]_vars =>
        (Answered /\ call.reader = "health" /\ answer'.unanswered = {} =>
           \A i \in 1 .. call.seen :
              outcome[i] = None => \E j \in answer'.rows : j <= i)
  <2> SUFFICES ASSUME IInv, [Next]_vars, Answered, call.reader = "health",
                      NEW i \in 1 .. call.seen, outcome[i] = None
               PROVE  \E j \in answer'.rows : j <= i
    OBVIOUS
  <2>1. call.seen \in 0 .. MaxIntents
    BY DEF Answered, IInv, TypeOK, Calls
  <2>2. ~ OffThePage(call.reader, i)
    BY <2>1, ViewAssumption DEF OffThePage
  <2>3. i \in answer'.rows
    BY <2>2, NothingOpenIsMissingStep DEF StillWanted
  <2>4. i <= i
    BY <2>1, ViewAssumption
  <2> QED
    BY <2>3, <2>4
<1> QED
  BY <1>1, Invariance, PTL DEF Spec, HealthNamesTheOldest
=============================================================================
