---------------------------- MODULE QueryFuture ----------------------------
(***************************************************************************)
(* What a thread that calls send_query_sync may count on, and no more: it  *)
(* asks one question at a time, gets at most one answer to each, to that   *)
(* question or an error, and goes on when it has the answer or, if it      *)
(* passes a timeout, when it gives up.                                     *)
(***************************************************************************)
EXTENDS Naturals

CONSTANTS
  Asker,     \* the thread
  NoAnswer,  \* the null object_ptr: an error, or no answer yet
  Patient    \* whether it waits for ever

VARIABLES
  asked,     \* the number of questions asked so far
  status,    \* "idle", "asked" or "answered"
  result     \* what the last question got

futureVars == <<asked, status, result>>

Init ==
  /\ asked = 0
  /\ status = "idle"
  /\ result = NoAnswer

Ask ==
  /\ status = "idle"
  /\ asked' = asked + 1
  /\ status' = "asked"
  /\ result' = NoAnswer

Deliver ==
  /\ status = "asked"
  /\ status' = "answered"
  /\ result' \in {NoAnswer, <<Asker, asked>>}
  /\ UNCHANGED asked

Return ==
  /\ status = "answered"
  /\ status' = "idle"
  /\ UNCHANGED <<asked, result>>

GiveUp ==
  /\ ~Patient
  /\ status = "asked"
  /\ status' = "idle"
  /\ UNCHANGED <<asked, result>>

Next == Ask \/ Deliver \/ Return \/ GiveUp

Spec == Init /\ [][Next]_futureVars

=============================================================================
