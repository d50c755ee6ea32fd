----------------------------- MODULE SyncQuery -----------------------------
(***************************************************************************)
(* Td::send_query_sync step by step: the local variables of its frame, the *)
(* poll on the condition variable, and the callback that the event loop    *)
(* thread runs through references into that frame, without its mutex.      *)
(*                                                                         *)
(* One thread calls, again and again; each call has its own frame, at the  *)
(* same place of the stack.  The mutex is left out: it is local and nobody *)
(* but the caller takes it, so that it excludes nothing.  What matters of  *)
(* the lock is that to look at finished and to fall asleep are two steps   *)
(* as far as the callback is concerned.  finished and retVal are plain     *)
(* variables: their two stores are taken to be seen in program order, as   *)
(* on x86-64, where the call of the old value's destructor comes between.  *)
(***************************************************************************)
EXTENDS Integers

CONSTANTS
  Asker,     \* the calling thread
  NoAnswer,  \* the null object_ptr
  Timeout,   \* the argument timeout, in seconds; none if it is not positive
  MaxCalls   \* bound: calls made

ASSUME SyncQueryAssumption ==
  /\ Timeout \in Int
  /\ MaxCalls \in Nat
  /\ NoAnswer \notin {Asker} \X Nat

VARIABLES
  pc,                               \* the caller
  calls,                            \* the number of its present or last call
  finished, retVal, warnCounter,    \* its frame
  due,                              \* the second that wait_for waits is over
  pending,                          \* calls whose answer has not arrived yet
  at, of,                           \* the callback: what is next, for which call
  touched                           \* what a callback used of a dead frame

callerVars == <<calls, finished, retVal, warnCounter>>
cbVars == <<pending, at, of, touched>>
syncVars == <<pc, due, callerVars, cbVars>>

Timed == Timeout > 0

Results == {NoAnswer} \cup ({Asker} \X (1 .. MaxCalls))

\* The frame the callback refers to is still there.
Alive == pc # "idle" /\ calls = of

-----------------------------------------------------------------------------
(* The caller.                                                             *)

\* Mutant: finished is not initialised.
M_Begin_dirty ==
  /\ pc = "idle" /\ calls < MaxCalls
  /\ pc' = "send"
  /\ calls' = calls + 1
  /\ retVal' = NoAnswer /\ warnCounter' = 0
  /\ UNCHANGED <<due, finished, cbVars>>

Begin ==
  /\ pc = "idle" /\ calls < MaxCalls
  /\ pc' = "send"
  /\ calls' = calls + 1
  /\ finished' = FALSE /\ retVal' = NoAnswer /\ warnCounter' = 0
  /\ UNCHANGED <<due, cbVars>>

Send ==
  /\ pc = "send"
  /\ pc' = "test"
  /\ pending' = pending \cup {calls}
  /\ UNCHANGED <<due, callerVars, at, of, touched>>

\* while (!finished)
Test ==
  /\ pc = "test"
  /\ pc' = IF finished THEN "return" ELSE "wait_for"
  /\ due' = FALSE
  /\ UNCHANGED <<callerVars, cbVars>>

\* wait_for looks at the predicate before it sleeps.
Predicate ==
  /\ pc = "wait_for"
  /\ pc' = IF finished THEN "count" ELSE "block"
  /\ UNCHANGED <<due, callerVars, cbVars>>

\* A deadline that is over already ends the wait at once.
Block ==
  /\ pc = "block"
  /\ pc' = IF due THEN "count" ELSE "asleep"
  /\ UNCHANGED <<due, callerVars, cbVars>>

\* Mutant: cond.wait instead of cond.wait_for.
M_SecondPasses_never ==
  /\ pc = "asleep" /\ finished /\ due
  /\ UNCHANGED syncVars

\* 1000ms are over.
SecondPasses ==
  /\ pc \in {"wait_for", "block", "asleep"}
  /\ ~due
  /\ due' = TRUE
  /\ UNCHANGED <<pc, callerVars, cbVars>>

WakeAtDeadline ==
  /\ pc = "asleep" /\ due
  /\ pc' = "count"
  /\ UNCHANGED <<due, callerVars, cbVars>>

SpuriousWakeup ==
  /\ pc = "asleep"
  /\ pc' = "wait_for"
  /\ UNCHANGED <<due, callerVars, cbVars>>

\* Mutants: no loop around the wait; the seconds are not counted, or one of
\* them too many.
M_Count_once ==
  /\ pc = "count"
  /\ pc' = "return"
  /\ UNCHANGED <<due, callerVars, cbVars>>

M_Count_not ==
  /\ pc = "count"
  /\ pc' = IF Timed /\ Timeout <= warnCounter THEN "return" ELSE "test"
  /\ UNCHANGED <<due, callerVars, cbVars>>

M_Count_late ==
  /\ pc = "count"
  /\ warnCounter' = IF Timed THEN warnCounter + 1 ELSE 0
  /\ pc' = IF Timed /\ Timeout < warnCounter + 1 THEN "return" ELSE "test"
  /\ UNCHANGED <<due, calls, finished, retVal, cbVars>>

\* The rest of the loop body.  Without a timeout the counter is used for a
\* warning only and stays at 0 here.
Count ==
  /\ pc = "count"
  /\ warnCounter' = IF Timed THEN warnCounter + 1 ELSE 0
  /\ pc' = IF Timed /\ Timeout <= warnCounter + 1 THEN "return" ELSE "test"
  /\ UNCHANGED <<due, calls, finished, retVal, cbVars>>

\* return retVal: the frame is gone.
Return ==
  /\ pc = "return"
  /\ pc' = "idle"
  /\ UNCHANGED <<due, callerVars, cbVars>>

CallerGoesOn ==
  Send \/ Test \/ Predicate \/ Block \/ WakeAtDeadline \/ Count \/ Return

-----------------------------------------------------------------------------
(* The callback.  When its frame is gone, what it writes is lost, or lands *)
(* in the frame of the caller's next call.                                 *)

\* The loop runs the handler of an answered query; an error, or an object of
\* another type, skips the assignment to retVal.
Answered(n) ==
  /\ at = "none"
  /\ n \in pending
  /\ pending' = pending \ {n}
  /\ of' = n
  /\ at' \in {"store", "finish"}
  /\ UNCHANGED <<due, pc, callerVars, touched>>

Store ==
  /\ at = "store"
  /\ at' = "finish"
  /\ \/ /\ pc # "idle"
        /\ retVal' = <<Asker, of>>
     \/ ~Alive /\ UNCHANGED retVal
  /\ touched' = IF Alive THEN touched ELSE touched \cup {"retVal"}
  /\ UNCHANGED <<due, pc, calls, finished, warnCounter, pending, of>>

Finish ==
  /\ at = "finish"
  /\ at' = "notify"
  /\ \/ pc # "idle" /\ finished' = TRUE
     \/ ~Alive /\ UNCHANGED finished
  /\ touched' = IF Alive THEN touched ELSE touched \cup {"finished"}
  /\ UNCHANGED <<due, pc, calls, retVal, warnCounter, pending, of>>

\* notify_one wakes a caller that sleeps; nothing remembers it otherwise.
Notify ==
  /\ at = "notify"
  /\ at' = "none"
  /\ \/ pc = "asleep" /\ pc' = "wait_for"
     \/ pc # "asleep" /\ UNCHANGED pc
     \/ ~Alive /\ UNCHANGED pc
  /\ touched' = IF Alive THEN touched ELSE touched \cup {"cond"}
  /\ UNCHANGED <<due, callerVars, pending, of>>

CallbackGoesOn == Store \/ Finish \/ Notify

-----------------------------------------------------------------------------

Init ==
  /\ pc = "idle"
  /\ calls = 0
  /\ finished = FALSE
  /\ retVal = NoAnswer
  /\ warnCounter = 0
  /\ due = FALSE
  /\ pending = {}
  /\ at = "none"
  /\ of = 0
  /\ touched = {}

Next ==
  \/ Begin \/ CallerGoesOn \/ SecondPasses \/ SpuriousWakeup
  \/ CallbackGoesOn \/ \E n \in pending : Answered(n)

Spec == Init /\ [][Next]_syncVars

(* Time passes and the two threads run.  Nothing obliges TDLib to answer,  *)
(* and nothing wakes the caller without a reason.                          *)
FairSpec ==
  /\ Spec
  /\ WF_syncVars(CallerGoesOn)
  /\ WF_syncVars(SecondPasses)
  /\ WF_syncVars(CallbackGoesOn)

-----------------------------------------------------------------------------
(* Properties.                                                             *)

\* The values of the frame and of the callback.  A call with a timeout waits as
\* many seconds and not one more.
TypeOK ==
  /\ pc \in {"idle", "send", "test", "wait_for", "block", "asleep", "count",
             "return"}
  /\ calls \in 0 .. MaxCalls
  /\ finished \in BOOLEAN
  /\ retVal \in Results
  /\ warnCounter \in Nat /\ (Timed => warnCounter <= Timeout)
  /\ due \in BOOLEAN
  /\ pending \subseteq 1 .. MaxCalls
  /\ at \in {"none", "store", "finish", "notify"}
  /\ of \in 0 .. MaxCalls
  /\ touched \subseteq {"retVal", "finished", "cond"}

\* The caller may see finished and return before the callback comes to its
\* last statement.  Without a timeout that is all that can go wrong: retVal and
\* finished are never written in a dead frame.
OnlyNotifyOutlives == ~Timed => touched \subseteq {"cond"}

Future == INSTANCE QueryFuture WITH
  Patient <- ~Timed,
  asked   <- calls,
  status  <- IF pc = "idle" THEN "idle"
             ELSE IF finished \/ retVal # NoAnswer THEN "answered" ELSE "asked",
  result  <- retVal

\* To its caller send_query_sync is a question that gets one answer, its own:
\* whatever the two threads do between the statements of the callback.
IsFuture == Future!Spec

\* The wake-up is lost when the callback comes between the caller's look at
\* finished and its sleep.  The caller returns all the same.
FinishedReturns == finished ~> pc = "idle"

\* With a timeout the call returns though TDLib never answers.
TimedReturns == Timed /\ pc = "send" ~> pc = "idle"

=============================================================================
