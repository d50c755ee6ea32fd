------------------------------ MODULE MCTgvisd ------------------------------
(***************************************************************************)
(* The program with an account that is logged in, and with one that still  *)
(* has to give a phone number and a code.                                  *)
(***************************************************************************)
EXTENDS Tgvisd, TLC

LoggedIn == {"WaitTdlibParameters", "WaitEncryptionKey", "Ready", "LoggingOut",
             "Closing", "Closed"}
PhoneLogin == {"WaitTdlibParameters", "WaitEncryptionKey", "WaitPhoneNumber",
               "WaitCode", "Ready", "Closing", "Closed"}

=============================================================================
