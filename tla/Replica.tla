------------------------------ MODULE Replica ------------------------------
(***************************************************************************)
(* What a cache that is fed by updates promises: it is a copy of its       *)
(* source, late by the changes that are still on their way, and these      *)
(* arrive one by one, in order.                                            *)
(***************************************************************************)
EXTENDS Naturals, Sequences

CONSTANTS Keys, Values, Nothing

VARIABLES
  source,  \* the values that TDLib has
  log,     \* what is on its way: <<key, value>> for a change, <<>> for
           \* something else that comes through the same queue
  copy     \* the values that the client has

replicaVars == <<source, log, copy>>

Init ==
  /\ source = [k \in Keys |-> Nothing]
  /\ copy = source
  /\ log = <<>>

Change(k, v) ==
  /\ source' = [source EXCEPT ![k] = v]
  /\ log' = Append(log, <<k, v>>)
  /\ UNCHANGED copy

Share ==
  /\ log' = Append(log, <<>>)
  /\ UNCHANGED <<source, copy>>

\* What a cache is once an entry has arrived.
Written(cache, entry) ==
  IF entry = <<>> THEN cache ELSE [cache EXCEPT ![entry[1]] = entry[2]]

Apply ==
  /\ log # <<>>
  /\ copy' = Written(copy, Head(log))
  /\ log' = Tail(log)
  /\ UNCHANGED source

Next == Apply \/ Share \/ \E k \in Keys, v \in Values : Change(k, v)

\* What it may never do, and what it does at last.
Steps == Init /\ [][Next]_replicaVars

Spec == Steps /\ WF_replicaVars(Apply)
=============================================================================
