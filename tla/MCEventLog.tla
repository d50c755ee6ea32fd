----------------------------- MODULE MCEventLog -----------------------------
(* An instance of EventLog for TLC: deletions and edits of two messages by *)
(* a user, one by the channel, one that is not handled. The number of the  *)
(* second message is the id of the first.                                  *)
EXTENDS EventLog

CONSTANTS user

Ev(kind, num, sender, old, new) ==
  [ kind |-> kind, num |-> num, sender |-> sender, old |-> old, new |-> new ]

MCEvents == { Ev("other", 1, Channel, "none", "none"),
              Ev("deleted", 1, user, "data", "none"),
              Ev("deleted", 2, Channel, "data", "none"),
              Ev("deleted", 1, user, "row", "none"),
              Ev("edited", 1, user, "data", "data"),
              Ev("edited", 2, user, "data", "none"),
              Ev("edited", 2, user, "data", "data") }

MCUsers == {user}
=============================================================================
