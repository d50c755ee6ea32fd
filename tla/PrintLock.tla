----------------------------- MODULE PrintLock -----------------------------
(***************************************************************************)
(* The four print functions and panic of print.c.  A line is written by    *)
(* several calls of stdio; print_lock is to keep it whole, and             *)
(* get_time_lock guards the static buffer of localtime and asctime.        *)
(*                                                                         *)
(* Left out: the text, and the output of code that takes no lock.          *)
(***************************************************************************)
EXTENDS Integers

CONSTANTS
  Threads,
  Nobody,   \* the owner of a free mutex
  MaxTime   \* bound: seconds that pass

ASSUME PrintLockAssumption == Nobody \notin Threads /\ MaxTime \in Nat

VARIABLES
  pc,             \* where each thread is
  print_lock,     \* the owners of the two mutexes
  get_time_lock,
  asctime_buf,    \* the static buffer: the time that is in it
  buf,            \* the local buffer of each thread
  open,           \* threads whose line is begun and not ended
  lastTime,       \* the time at the head of the last line
  clock,
  aborted

timeVars == <<asctime_buf, buf>>
outVars == <<open, lastTime>>
printVars == <<pc, print_lock, get_time_lock, timeVars, outVars, clock, aborted>>

\* The places of a thread that has taken print_lock to print a line.
Inside == {"lock_time", "read", "copy", "unlock_time", "prefix", "newline",
           "unlock"}

\* Thread t goes from one place to the next.
At(t, here, next) == pc[t] = here /\ pc' = [pc EXCEPT ![t] = next]

-----------------------------------------------------------------------------
(* pr_notice, pr_error, pr_emerg and pr_debug.                             *)

\* Mutant: one of the four functions takes no lock.
M_Lock_none(t) ==
  /\ At(t, "idle", "lock_time")
  /\ print_lock' = t
  /\ UNCHANGED <<get_time_lock, timeVars, outVars, clock, aborted>>

Lock(t) ==
  /\ At(t, "idle", "lock_time")
  /\ print_lock = Nobody
  /\ print_lock' = t
  /\ UNCHANGED <<get_time_lock, timeVars, outVars, clock, aborted>>

LockTime(t) ==
  /\ At(t, "lock_time", "read")
  /\ get_time_lock = Nobody
  /\ get_time_lock' = t
  /\ UNCHANGED <<print_lock, timeVars, outVars, clock, aborted>>

\* time, localtime, asctime.
ReadTime(t) ==
  /\ At(t, "read", "copy")
  /\ asctime_buf' = clock
  /\ UNCHANGED <<print_lock, get_time_lock, buf, outVars, clock, aborted>>

CopyTime(t) ==
  /\ At(t, "copy", "unlock_time")
  /\ buf' = [buf EXCEPT ![t] = asctime_buf]
  /\ UNCHANGED <<print_lock, get_time_lock, asctime_buf, outVars, clock,
                 aborted>>

\* Mutant: get_time returns without the unlock.
M_UnlockTime_missing(t) ==
  /\ At(t, "unlock_time", "prefix")
  /\ UNCHANGED <<print_lock, get_time_lock, timeVars, outVars, clock, aborted>>

UnlockTime(t) ==
  /\ At(t, "unlock_time", "prefix")
  /\ get_time_lock' = Nobody
  /\ UNCHANGED <<print_lock, timeVars, outVars, clock, aborted>>

Prefix(t) ==
  /\ At(t, "prefix", "newline")
  /\ open' = open \cup {t}
  /\ lastTime' = buf[t]
  /\ UNCHANGED <<print_lock, get_time_lock, timeVars, clock, aborted>>

\* The message and the end of the line.
Newline(t) ==
  /\ At(t, "newline", "unlock")
  /\ open' = open \ {t}
  /\ UNCHANGED <<print_lock, get_time_lock, timeVars, lastTime, clock, aborted>>

Unlock(t) ==
  /\ At(t, "unlock", "idle")
  /\ print_lock' = Nobody
  /\ UNCHANGED <<get_time_lock, timeVars, outVars, clock, aborted>>

-----------------------------------------------------------------------------
(* panic.  It takes the mutexes if they are free and goes on if not.       *)

\* What trylock makes of the owner of a mutex.
TryLock(owner, t) == IF owner = Nobody THEN t ELSE owner

Panic(t) ==
  /\ At(t, "idle", "panic")
  /\ print_lock' = TryLock(print_lock, t)
  /\ UNCHANGED <<get_time_lock, timeVars, outVars, clock, aborted>>

\* Mutant: lock instead of trylock.
M_PanicTime_lock(t) ==
  /\ At(t, "panic", "banner")
  /\ get_time_lock = Nobody
  /\ get_time_lock' = t
  /\ UNCHANGED <<print_lock, timeVars, outVars, clock, aborted>>

PanicTime(t) ==
  /\ At(t, "panic", "banner")
  /\ get_time_lock' = TryLock(get_time_lock, t)
  /\ UNCHANGED <<print_lock, timeVars, outVars, clock, aborted>>

\* The message, then abort.
Abort(t) ==
  /\ pc[t] = "banner"
  /\ aborted' = TRUE
  /\ UNCHANGED <<pc, print_lock, get_time_lock, timeVars, outVars, clock>>

-----------------------------------------------------------------------------

Tick ==
  /\ clock < MaxTime
  /\ clock' = clock + 1
  /\ UNCHANGED <<pc, print_lock, get_time_lock, timeVars, outVars, aborted>>

\* What a thread does once it has begun.
GoesOn(t) ==
  \/ LockTime(t) \/ ReadTime(t) \/ CopyTime(t) \/ UnlockTime(t)
  \/ Prefix(t) \/ Newline(t) \/ Unlock(t)
  \/ PanicTime(t) \/ Abort(t)

Init ==
  /\ pc = [t \in Threads |-> "idle"]
  /\ print_lock = Nobody
  /\ get_time_lock = Nobody
  /\ asctime_buf = 0
  /\ buf = [t \in Threads |-> 0]
  /\ open = {}
  /\ lastTime = 0
  /\ clock = 0
  /\ aborted = FALSE

Next ==
  /\ ~aborted
  /\ Tick \/ \E t \in Threads : Lock(t) \/ Panic(t) \/ GoesOn(t)

Spec == Init /\ [][Next]_printVars

(* Every thread runs.  A mutex may be handed to the same threads again and *)
(* again, and nobody need print or panic.                                  *)
FairSpec == Spec /\ \A t \in Threads : WF_printVars(~aborted /\ GoesOn(t))

-----------------------------------------------------------------------------
(* Properties.                                                             *)

\* The values of the variables.
TypeOK ==
  /\ pc \in [Threads -> Inside \cup {"idle", "panic", "banner"}]
  /\ print_lock \in Threads \cup {Nobody}
  /\ get_time_lock \in Threads \cup {Nobody}
  /\ asctime_buf \in Nat
  /\ buf \in [Threads -> Nat]
  /\ open \subseteq Threads
  /\ lastTime \in Nat
  /\ clock \in Nat
  /\ aborted \in BOOLEAN

\* The lines of two threads never mix, though each is written by three calls of
\* stdio.  A panic may put its message into a line, and still lets no second
\* line begin in it.
LinesWhole == \A s, t \in open : s = t

\* The log is in the order of its times (the clock not being set back): the time
\* is read by the thread that is to print next, when nobody else can.
TimesInOrder == [][lastTime <= lastTime']_printVars

\* The nesting of the mutexes deadlocks nobody: who has print_lock comes to the
\* end of its line, unless a panic ends the process.
HolderFinishes ==
  \A t \in Threads : pc[t] \in Inside ~> pc[t] = "idle" \/ aborted

\* A panic always ends the process, whatever the other threads do.
PanicAborts == \A t \in Threads : pc[t] = "panic" ~> aborted

=============================================================================
