----------------------------- MODULE MCTdClient -----------------------------
(***************************************************************************)
(* TdClient with two callers: c1 waits for ever, c2 passes a timeout.      *)
(***************************************************************************)
EXTENDS TdClient, TLC

CONSTANTS c1, c2

LoggedIn == {"WaitTdlibParameters", "WaitEncryptionKey", "Ready", "LoggingOut",
             "Closing", "Closed"}
FullLogin == AuthState

=============================================================================
