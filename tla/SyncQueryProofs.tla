-------------------------- MODULE SyncQueryProofs --------------------------
(***************************************************************************)
(* Theorems about SyncQuery, for any timeout and any number of calls; the  *)
(* ones on the answer are about calls without a timeout.                   *)
(***************************************************************************)
EXTENDS SyncQuery, TLAPS

\* Without a timeout there is at most one answer on its way, to the present
\* call, and until the callback has set finished the caller cannot leave.
OneAnswer ==
  /\ pending \subseteq {calls}
  /\ pc \in {"idle", "send"} => pending = {}
  /\ at \in {"store", "finish"} =>
       /\ of = calls /\ of \in 1 .. MaxCalls
       /\ pc \notin {"idle", "send"}
       /\ pending = {}
       /\ ~finished
  /\ finished => pending = {}
  /\ pc = "send" => ~finished
  /\ pc = "return" => finished
  /\ ~finished /\ at # "finish" /\ pc # "idle" => retVal = NoAnswer
  /\ retVal # NoAnswer => retVal = <<Asker, calls>>
  /\ touched \subseteq {"cond"}

\* While a call is made, and while a callback runs, its number is a call's; a
\* call that is still waiting has seconds left.
Numbered ==
  /\ Timed /\ pc \notin {"idle", "return"} => warnCounter < Timeout
  /\ pc # "idle" => calls \in 1 .. MaxCalls
  /\ at # "none" => of \in 1 .. MaxCalls

-----------------------------------------------------------------------------

\* The arithmetic part of the assumption.
LEMMA Bounds == Timeout \in Int /\ MaxCalls \in Nat
BY SyncQueryAssumption

\* What the callback and the caller put into retVal.
LEMMA NullTyped == NoAnswer \in Results
BY DEF Results

\* The answer to a call is one of the results.
LEMMA OwnTyped == ASSUME NEW n \in 1 .. MaxCalls PROVE <<Asker, n>> \in Results
BY DEF Results

\* Types are kept by every step.
LEMMA TypesKept == TypeOK /\ Numbered /\ [Next]_syncVars => TypeOK' /\ Numbered'
<1> SUFFICES ASSUME TypeOK, Numbered, [Next]_syncVars PROVE TypeOK' /\ Numbered'
  OBVIOUS
<1> USE DEF TypeOK, Numbered, callerVars, cbVars
<1>1. CASE Begin
  <2>1. calls' \in 1 .. MaxCalls /\ calls' \in 0 .. MaxCalls
    BY <1>1, Bounds DEF Begin
  <2>2. warnCounter' \in Nat /\ (Timed => warnCounter' <= Timeout)
        /\ (Timed => warnCounter' < Timeout)
    BY <1>1, Bounds DEF Begin, Timed
  <2>3. finished' \in BOOLEAN /\ due' \in BOOLEAN
    BY <1>1 DEF Begin
  <2>4. retVal' \in Results
    BY <1>1, NullTyped DEF Begin, Results
  <2>5. pc' = "send"
    BY <1>1 DEF Begin
  <2>6. pending' = pending /\ at' = at /\ of' = of /\ touched' = touched
    BY <1>1 DEF Begin
  <2> QED  BY <2>1, <2>2, <2>3, <2>4, <2>5, <2>6, Zenon
<1>2. CASE Send
  BY <1>2 DEF Send
<1>3. CASE Test \/ Predicate \/ Block \/ SecondPasses \/ WakeAtDeadline
           \/ SpuriousWakeup \/ Return
  BY <1>3 DEF Test, Predicate, Block, SecondPasses, WakeAtDeadline,
     SpuriousWakeup, Return
<1>4. CASE Count
  BY <1>4, Bounds DEF Count, Timed
<1>5. ASSUME NEW n \in pending, Answered(n) PROVE TypeOK' /\ Numbered'
  BY <1>5 DEF Answered
<1>6. CASE Store
  BY <1>6, OwnTyped DEF Store
<1>7. CASE Finish
  BY <1>7 DEF Finish
<1>8. CASE Notify
  BY <1>8 DEF Notify
<1>9. CASE UNCHANGED syncVars
  BY <1>9 DEF syncVars
<1> QED  BY <1>1, <1>2, <1>3, <1>4, <1>5, <1>6, <1>7, <1>8, <1>9
         DEF Next, CallerGoesOn, CallbackGoesOn

\* The first state.
LEMMA InitTypes == Init => TypeOK /\ Numbered
<1> SUFFICES ASSUME Init PROVE TypeOK /\ Numbered
  OBVIOUS
<1>1. calls \in 0 .. MaxCalls /\ of \in 0 .. MaxCalls
  BY Bounds DEF Init
<1>2. finished \in BOOLEAN /\ due \in BOOLEAN
  BY DEF Init
<1>3. warnCounter \in Nat /\ (Timed => warnCounter <= Timeout)
  BY Bounds DEF Init, Timed
<1>4. pending \subseteq 1 .. MaxCalls
  BY DEF Init
<1>5. retVal \in Results
  BY NullTyped DEF Init
<1> QED  BY <1>1, <1>2, <1>3, <1>4, <1>5, Zenon DEF Init, TypeOK, Numbered

\* The frame and the callback keep to their values, whatever the timeout.
THEOREM Typed == Spec => []TypeOK
<1>1. Spec => [](TypeOK /\ Numbered)
  BY InitTypes, TypesKept, PTL DEF Spec
<1> QED  BY <1>1, PTL

-----------------------------------------------------------------------------

\* Without a timeout every step keeps OneAnswer.
LEMMA OneAnswerKept ==
  ASSUME ~Timed, TypeOK, Numbered, OneAnswer, [Next]_syncVars
  PROVE  OneAnswer'
<1> USE DEF TypeOK, Numbered, OneAnswer, callerVars, cbVars
<1>1. CASE Begin
  <2>1. pending = {} /\ at \notin {"store", "finish"}
    BY <1>1 DEF Begin
  <2>2. pc' = "send" /\ retVal' = NoAnswer
    BY <1>1 DEF Begin
  <2>3. pending' = {} /\ at' \notin {"store", "finish"}
    BY <1>1, <2>1 DEF Begin
  <2>4. touched' \subseteq {"cond"}
    BY <1>1 DEF Begin
  <2>5. ~finished'
    BY <1>1 DEF Begin
  <2> QED  BY ONLY <2>2, <2>3, <2>4, <2>5 DEF OneAnswer
<1>2. CASE Send
  BY <1>2 DEF Send
<1>3. CASE Test \/ Predicate \/ Block \/ SecondPasses \/ WakeAtDeadline
           \/ SpuriousWakeup \/ Return
  <2>1. UNCHANGED <<calls, finished, retVal, pending, at, of, touched>>
    BY <1>3 DEF Test, Predicate, Block, SecondPasses, WakeAtDeadline,
       SpuriousWakeup, Return
  <2>2. /\ pc \notin {"idle", "send"} /\ pc' # "send"
        /\ pc' = "idle" => pc = "return"
        /\ pc' = "return" => pc = "return" \/ finished
    BY <1>3 DEF Test, Predicate, Block, SecondPasses, WakeAtDeadline,
       SpuriousWakeup, Return
  <2> QED  BY ONLY OneAnswer, <2>1, <2>2 DEF OneAnswer
<1>4. CASE Count
  BY <1>4 DEF Count
<1>5. ASSUME NEW n \in pending, Answered(n) PROVE OneAnswer'
  BY <1>5 DEF Answered
<1>6. CASE Store
  BY <1>6 DEF Store, Alive
<1>7. CASE Finish
  BY <1>7 DEF Finish, Alive
<1>8. CASE Notify
  BY <1>8 DEF Notify, Alive
<1>9. CASE UNCHANGED syncVars
  BY <1>9 DEF syncVars
<1> QED  BY <1>1, <1>2, <1>3, <1>4, <1>5, <1>6, <1>7, <1>8, <1>9
         DEF Next, CallerGoesOn, CallbackGoesOn

\* So it holds throughout.
LEMMA Inductive ==
  ASSUME ~Timed
  PROVE  Spec => [](TypeOK /\ Numbered /\ OneAnswer)
<1>1. Init => OneAnswer
  BY DEF Init, OneAnswer
<1>2. TypeOK /\ Numbered /\ OneAnswer /\ [Next]_syncVars
        => TypeOK' /\ Numbered' /\ OneAnswer'
  BY TypesKept, OneAnswerKept
<1> QED  BY InitTypes, <1>1, <1>2, PTL DEF Spec

\* Without a timeout nothing but notify_one is applied to a dead frame.
THEOREM FrameOutlived == Spec => []OnlyNotifyOutlives
<1>1. CASE ~Timed
  <2>1. OneAnswer => OnlyNotifyOutlives
    BY DEF OneAnswer, OnlyNotifyOutlives
  <2> QED  BY <1>1, <2>1, Inductive, PTL
<1>2. CASE Timed
  <2>1. Timed => OnlyNotifyOutlives
    BY DEF OnlyNotifyOutlives
  <2>2. []Timed
    BY <1>2, PTL
  <2> QED  BY <2>1, <2>2, PTL
<1> QED  BY <1>1, <1>2

\* Without a timeout send_query_sync, statement by statement, implements
\* QueryFuture: one answer to each question, its own.
THEOREM ImplementsFuture == ASSUME ~Timed PROVE Spec => IsFuture
<1>1. Init => Future!Init
  BY DEF Init, Future!Init
<1>2. ASSUME TypeOK, Numbered, OneAnswer, [Next]_syncVars
      PROVE  [Future!Next]_(Future!futureVars)
  <2> USE DEF TypeOK, Numbered, OneAnswer, callerVars, cbVars, Future!Next,
              Future!Ask, Future!Deliver, Future!Return, Future!futureVars
  <2>1. CASE Begin
    BY <1>2, <2>1 DEF Begin
  <2>2. CASE Send
    BY <1>2, <2>2 DEF Send
  <2>3. CASE Test \/ Predicate \/ Block \/ SecondPasses \/ WakeAtDeadline
             \/ SpuriousWakeup
    BY <1>2, <2>3 DEF Test, Predicate, Block, SecondPasses, WakeAtDeadline,
       SpuriousWakeup
  <2>4. CASE Return
    BY <1>2, <2>4 DEF Return
  <2>5. CASE Count
    BY <1>2, <2>5 DEF Count
  <2>6. ASSUME NEW n \in pending, Answered(n)
        PROVE  [Future!Next]_(Future!futureVars)
    BY <1>2, <2>6 DEF Answered
  <2>7. CASE Store
    BY <1>2, <2>7 DEF Store, Alive
  <2>8. CASE Finish
    BY <1>2, <2>8 DEF Finish, Alive
  <2>9. CASE Notify
    BY <1>2, <2>9 DEF Notify
  <2>10. CASE UNCHANGED syncVars
    BY <2>10 DEF syncVars
  <2> QED  BY <1>2, <2>1, <2>2, <2>3, <2>4, <2>5, <2>6, <2>7, <2>8, <2>9, <2>10
           DEF Next, CallerGoesOn, CallbackGoesOn
<1> QED  BY <1>1, <1>2, Inductive, PTL DEF Spec, IsFuture, Future!Spec

-----------------------------------------------------------------------------
(* The end of a call, with a timeout or without.                           *)

\* A call comes to its return for one of two reasons: finished is set, or it
\* has a timeout and has waited all the seconds of it.  Neither a spurious
\* wake-up nor a lost one ends it early.
LeavesForAReason ==
  pc = "return" => finished \/ (Timed /\ warnCounter = Timeout)

\* The reason is there whatever the step.
LEMMA ReasonKept ==
  ASSUME TypeOK, Numbered, LeavesForAReason, [Next]_syncVars
  PROVE  LeavesForAReason'
<1> USE DEF LeavesForAReason, callerVars, cbVars
<1>1. CASE Count
  <2> SUFFICES ASSUME pc' = "return" PROVE Timed /\ warnCounter' = Timeout
    OBVIOUS
  <2>1. Timed /\ Timeout <= warnCounter + 1 /\ warnCounter' = warnCounter + 1
    BY <1>1 DEF Count
  <2>2. warnCounter < Timeout /\ warnCounter \in Nat
    BY <1>1, <2>1 DEF Count, TypeOK, Numbered
  <2> QED  BY <2>1, <2>2, Bounds
<1>2. CASE Begin \/ Send \/ Test \/ Predicate \/ Block \/ SecondPasses
           \/ WakeAtDeadline \/ SpuriousWakeup \/ Return
  BY <1>2 DEF Begin, Send, Test, Predicate, Block, SecondPasses,
     WakeAtDeadline, SpuriousWakeup, Return
<1>3. ASSUME NEW n \in pending, Answered(n) PROVE LeavesForAReason'
  BY <1>3 DEF Answered
<1>4. CASE Store \/ Finish \/ Notify
  BY <1>4 DEF Store, Finish, Notify
<1>5. CASE UNCHANGED syncVars
  BY <1>5 DEF syncVars
<1> QED  BY <1>1, <1>2, <1>3, <1>4, <1>5
         DEF Next, CallerGoesOn, CallbackGoesOn

\* No call gives up before its time, and none without a timeout gives up at
\* all: the safety side of TimedReturns.
THEOREM NoneGivesUpEarly == Spec => []LeavesForAReason
<1>1. Init => LeavesForAReason
  BY DEF Init, LeavesForAReason
<1>2. TypeOK /\ Numbered /\ LeavesForAReason /\ [Next]_syncVars
        => LeavesForAReason'
  BY ReasonKept
<1> QED  BY InitTypes, TypesKept, <1>1, <1>2, PTL DEF Spec

=============================================================================
