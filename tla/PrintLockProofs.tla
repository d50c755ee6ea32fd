-------------------------- MODULE PrintLockProofs --------------------------
(***************************************************************************)
(* Theorems about PrintLock, for any number of threads: whole lines, in    *)
(* the order of their times.                                               *)
(***************************************************************************)
EXTENDS PrintLock, TLAPS

\* A thread that prints owns print_lock, and its line is open between its
\* prefix and its newline.
Owned ==
  /\ \A t \in Threads : pc[t] \in Inside => print_lock = t
  /\ \A t \in open : pc[t] = "newline"

\* No time is ahead of the clock, and the time on its way to a line is not
\* before the last line's.
Ordered ==
  /\ lastTime <= clock /\ asctime_buf <= clock
  /\ \A t \in Threads :
       /\ buf[t] <= clock
       /\ pc[t] = "copy" => lastTime <= asctime_buf
       /\ pc[t] \in {"unlock_time", "prefix"} => lastTime <= buf[t]

IInv == TypeOK /\ Owned /\ Ordered

-----------------------------------------------------------------------------

\* The first state.
LEMMA InitInv == Init => IInv
<1> SUFFICES ASSUME Init PROVE IInv
  OBVIOUS
<1>1. TypeOK
  BY DEF Init, TypeOK
<1>2. Owned
  BY DEF Init, Owned, Inside
<1>3. Ordered
  BY DEF Init, Ordered
<1> QED  BY <1>1, <1>2, <1>3 DEF IInv

\* Types are kept by every step.
LEMMA TypesKept == TypeOK /\ [Next]_printVars => TypeOK'
<1> SUFFICES ASSUME TypeOK, [Next]_printVars PROVE TypeOK'
  OBVIOUS
<1> USE DEF TypeOK, Inside, At, timeVars, outVars
<1>1. CASE Tick
  BY <1>1 DEF Tick
<1>2. ASSUME NEW t \in Threads, Lock(t) \/ Panic(t) \/ PanicTime(t) \/ Abort(t)
      PROVE  TypeOK'
  BY <1>2 DEF Lock, Panic, PanicTime, Abort, TryLock
<1>3. ASSUME NEW t \in Threads, LockTime(t) \/ UnlockTime(t) \/ Unlock(t)
      PROVE  TypeOK'
  BY <1>3 DEF LockTime, UnlockTime, Unlock
<1>4. ASSUME NEW t \in Threads,
             ReadTime(t) \/ CopyTime(t) \/ Prefix(t) \/ Newline(t)
      PROVE  TypeOK'
  BY <1>4 DEF ReadTime, CopyTime, Prefix, Newline
<1>5. CASE UNCHANGED printVars
  BY <1>5 DEF printVars
<1> QED  BY <1>1, <1>2, <1>3, <1>4, <1>5 DEF Next, GoesOn

\* Ownership is kept by every step.
LEMMA OwnedKept == TypeOK /\ Owned /\ [Next]_printVars => Owned'
<1> SUFFICES ASSUME TypeOK, Owned, [Next]_printVars PROVE Owned'
  OBVIOUS
<1> USE DEF TypeOK, Owned, Inside, At, timeVars, outVars
<1>1. CASE Tick
  BY <1>1 DEF Tick
<1>2. ASSUME NEW t \in Threads, Lock(t) PROVE Owned'
  BY <1>2, PrintLockAssumption DEF Lock
<1>3. ASSUME NEW t \in Threads, Panic(t) \/ PanicTime(t) \/ Abort(t)
      PROVE  Owned'
  BY <1>3, PrintLockAssumption DEF Panic, PanicTime, Abort, TryLock
<1>4. ASSUME NEW t \in Threads,
             LockTime(t) \/ ReadTime(t) \/ CopyTime(t) \/ UnlockTime(t)
      PROVE  Owned'
  BY <1>4 DEF LockTime, ReadTime, CopyTime, UnlockTime
<1>5. ASSUME NEW t \in Threads, Prefix(t) \/ Newline(t) PROVE Owned'
  BY <1>5 DEF Prefix, Newline
<1>6. ASSUME NEW t \in Threads, Unlock(t) PROVE Owned'
  BY <1>6 DEF Unlock
<1>7. CASE UNCHANGED printVars
  BY <1>7 DEF printVars
<1> QED  BY <1>1, <1>2, <1>3, <1>4, <1>5, <1>6, <1>7 DEF Next, GoesOn

\* The order of the times is kept by every step.
LEMMA OrderedKept == IInv /\ [Next]_printVars => Ordered'
<1> SUFFICES ASSUME IInv, [Next]_printVars PROVE Ordered'
  OBVIOUS
<1> USE DEF IInv, TypeOK, Ordered, At, timeVars, outVars
<1>1. CASE Tick
  BY <1>1 DEF Tick
<1>2. ASSUME NEW t \in Threads,
             Lock(t) \/ LockTime(t) \/ Unlock(t) \/ Newline(t)
      PROVE  Ordered'
  BY <1>2 DEF Lock, LockTime, Unlock, Newline
<1>3. ASSUME NEW t \in Threads, Panic(t) \/ PanicTime(t) \/ Abort(t)
      PROVE  Ordered'
  BY <1>3 DEF Panic, PanicTime, Abort
<1>4. ASSUME NEW t \in Threads, ReadTime(t) PROVE Ordered'
  BY <1>4 DEF ReadTime
<1>5. ASSUME NEW t \in Threads, CopyTime(t) \/ UnlockTime(t) PROVE Ordered'
  BY <1>5 DEF CopyTime, UnlockTime
<1>6. ASSUME NEW t \in Threads, Prefix(t) PROVE Ordered'
  <2>1. \A s \in Threads : pc[s] \in Inside => s = t
    BY <1>6 DEF Owned, Prefix, Inside
  <2> QED  BY <1>6, <2>1 DEF Prefix, Inside
<1>7. CASE UNCHANGED printVars
  BY <1>7 DEF printVars
<1> QED  BY <1>1, <1>2, <1>3, <1>4, <1>5, <1>6, <1>7 DEF Next, GoesOn

\* So the invariant holds throughout.
LEMMA Inductive == Spec => []IInv
<1>1. IInv /\ [Next]_printVars => IInv'
  BY TypesKept, OwnedKept, OrderedKept DEF IInv
<1> QED  BY InitInv, <1>1, PTL DEF Spec

-----------------------------------------------------------------------------

\* Lines are whole, for any number of threads, panics included.
THEOREM LinesStayWhole == Spec => []LinesWhole
<1>1. IInv => LinesWhole
  BY DEF IInv, TypeOK, Owned, LinesWhole, Inside
<1> QED  BY <1>1, Inductive, PTL

\* Lines come in the order of their times.
THEOREM TimesStayInOrder == Spec => TimesInOrder
<1>1. IInv /\ [Next]_printVars => [lastTime <= lastTime']_printVars
  <2> SUFFICES ASSUME IInv, Next PROVE lastTime <= lastTime'
    BY DEF printVars
  <2> USE DEF IInv, TypeOK, Ordered, timeVars, outVars
  <2>1. ASSUME NEW t \in Threads, Prefix(t) PROVE lastTime <= lastTime'
    BY <2>1 DEF Prefix, At
  <2>2. CASE UNCHANGED lastTime
    BY <2>2
  <2> QED  BY <2>1, <2>2 DEF Next, GoesOn, Tick, Lock, Panic, LockTime,
           ReadTime, CopyTime, UnlockTime, Newline, Unlock, PanicTime, Abort
<1> QED  BY <1>1, Inductive, PTL DEF Spec, TimesInOrder

-----------------------------------------------------------------------------
(* Who has a mutex, and so whom the others wait for.                       *)

\* A mutex is owned by a thread that is where it owns it, and get_time_lock is
\* owned by whoever uses the static buffer.
LocksHeld ==
  /\ print_lock # Nobody => pc[print_lock] \in Inside \cup {"panic", "banner"}
  /\ get_time_lock # Nobody =>
       pc[get_time_lock] \in {"read", "copy", "unlock_time", "banner"}
  /\ \A t \in Threads :
       pc[t] \in {"read", "copy", "unlock_time"} => get_time_lock = t

\* No mutex is left behind by a thread that has done with it: the owner is on
\* its way to the end of a line, or of the process.
NoLockLeftBehind ==
  \A owner \in {print_lock, get_time_lock} \ {Nobody} :
    owner \in Threads /\ pc[owner] # "idle"

\* Nothing but a panic, about to end the process, keeps a thread that has
\* print_lock waiting for get_time_lock: the two do not deadlock.
OnlyPanicDelays ==
  \A t \in Threads :
    pc[t] = "lock_time" /\ get_time_lock # Nobody =>
      pc[get_time_lock] = "banner"

\* The first state.
LEMMA InitHeld == Init => LocksHeld
BY DEF Init, LocksHeld

\* The owners are kept by every step.
LEMMA HeldKept ==
  ASSUME TypeOK, Owned, LocksHeld, [Next]_printVars PROVE LocksHeld'
<1> USE DEF TypeOK, Owned, LocksHeld, Inside, At, timeVars, outVars
<1>1. CASE Tick
  BY <1>1 DEF Tick
<1>2. ASSUME NEW t \in Threads, Lock(t) PROVE LocksHeld'
  BY <1>2, PrintLockAssumption DEF Lock
<1>3. ASSUME NEW t \in Threads, Panic(t) PROVE LocksHeld'
  BY <1>3, PrintLockAssumption DEF Panic, TryLock
<1>4. ASSUME NEW t \in Threads, PanicTime(t) PROVE LocksHeld'
  BY <1>4, PrintLockAssumption DEF PanicTime, TryLock
<1>5. ASSUME NEW t \in Threads, LockTime(t) PROVE LocksHeld'
  BY <1>5, PrintLockAssumption DEF LockTime
<1>6. ASSUME NEW t \in Threads,
             ReadTime(t) \/ CopyTime(t) \/ Prefix(t) \/ Newline(t) \/ Abort(t)
      PROVE  LocksHeld'
  BY <1>6 DEF ReadTime, CopyTime, Prefix, Newline, Abort
<1>7. ASSUME NEW t \in Threads, UnlockTime(t) PROVE LocksHeld'
  BY <1>7, PrintLockAssumption DEF UnlockTime
<1>8. ASSUME NEW t \in Threads, Unlock(t) PROVE LocksHeld'
  BY <1>8, PrintLockAssumption DEF Unlock
<1>9. CASE UNCHANGED printVars
  BY <1>9 DEF printVars
<1> QED  BY <1>1, <1>2, <1>3, <1>4, <1>5, <1>6, <1>7, <1>8, <1>9
         DEF Next, GoesOn

\* So they are known throughout.
LEMMA HeldThroughout == Spec => [](IInv /\ LocksHeld)
<1>1. IInv /\ LocksHeld /\ [Next]_printVars => LocksHeld'
  BY HeldKept DEF IInv
<1> QED  BY InitHeld, <1>1, Inductive, PTL DEF Spec

\* No mutex is left behind, for any number of threads: what HolderFinishes
\* says of fair runs rests on it.
THEOREM LocksAreReleased == Spec => []NoLockLeftBehind
<1>1. IInv /\ LocksHeld => NoLockLeftBehind
  BY DEF IInv, TypeOK, LocksHeld, NoLockLeftBehind, Inside
<1> QED  BY <1>1, HeldThroughout, PTL

\* The nesting of the mutexes delays nobody, unless the process is to end.
THEOREM NestingIsFree == Spec => []OnlyPanicDelays
<1>1. IInv /\ LocksHeld => OnlyPanicDelays
  <2> SUFFICES ASSUME IInv, LocksHeld, NEW t \in Threads, pc[t] = "lock_time",
                      get_time_lock # Nobody
               PROVE  pc[get_time_lock] = "banner"
    BY DEF OnlyPanicDelays
  <2>1. get_time_lock \in Threads /\ get_time_lock # t
    BY DEF IInv, TypeOK, LocksHeld
  <2>2. print_lock = t
    BY DEF IInv, Owned, Inside
  <2>3. pc[get_time_lock] \notin Inside
    BY <2>1, <2>2 DEF IInv, Owned
  <2> QED  BY <2>3 DEF LocksHeld, Inside
<1> QED  BY <1>1, HeldThroughout, PTL

=============================================================================
