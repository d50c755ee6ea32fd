------------------------------ MODULE TdClient ------------------------------
(***************************************************************************)
(* The class Td of src/tgvisd/Td: the client side of TDLib.                *)
(*                                                                         *)
(* One thread runs the event loop (Td::loop, called by Main::run).  It     *)
(* receives responses and updates, drives the login dialogue and runs the  *)
(* handlers registered with the queries.  Any other thread (a caller) may  *)
(* ask TDLib a question with send_query_sync and blocks for the answer.    *)
(* The two sides share handlers_, current_query_id_ and client_manager_;   *)
(* only the second is atomic and no lock protects the others.              *)
(*                                                                         *)
(* TDLib itself is external: it is modelled by what the client may see.    *)
(***************************************************************************)
EXTENDS Naturals, Sequences, FiniteSets

CONSTANTS
  Callers,       \* threads other than the event loop that call send_query_sync
  TimedCallers,  \* those of them that pass a positive timeout
  NoAnswer,      \* the null object_ptr
  Passes,        \* authorization states TDLib passes through: all of them, or
                 \* only those of an account that is already logged in
  MaxCalls,      \* bound: calls of send_query_sync made by each caller
  MaxRejects,    \* bound: login answers TDLib refuses while they are timely
  MaxMoves,      \* bound: waiting states TDLib announces unasked
  MaxInbox       \* bound: TDLib adds nothing to that many responses unread

ASSUME TdClientAssumption ==
  /\ TimedCallers \subseteq Callers
  /\ NoAnswer \notin Callers \X Nat
  /\ MaxCalls \in Nat
  /\ MaxRejects \in Nat
  /\ MaxMoves \in Nat
  /\ MaxInbox \in Nat

VARIABLES
  manager,                  \* client_manager_: "live" or "null"
  need_restart,             \* need_restart_
  is_authorized,            \* is_authorized_
  user_id,                  \* user_id_: 0, or 1 once getMe was answered
  current_query_id,         \* current_query_id_
  authentication_query_id,  \* authentication_query_id_
  authorization_state,      \* authorization_state_
  handlers,                 \* handlers_: a set of entries with an id
  loop,                     \* event loop thread: "idle", or "prompt" in getline
  phase,                    \* "run", "close" (in Td::close) or "done"
  pc, qid, finished, retVal, calls,     \* the frames of send_query_sync
  tdState, requests, inbox,             \* TDLib (external)
  rejects, moves,
  race,                     \* handlers_ was touched by two threads at once
  crashed                   \* client_manager_ was dereferenced while null

loopVars   == <<is_authorized, need_restart, authorization_state, loop, phase,
                authentication_query_id>>
callerVars == <<pc, qid, finished, retVal, calls>>
tdVars     == <<tdState, rejects, moves>>
sendVars   == <<current_query_id, handlers, requests>>
vars == <<loopVars, callerVars, tdVars, sendVars, manager, user_id, inbox,
          race, crashed>>

-----------------------------------------------------------------------------
(* The authorization states, and the function that answers each of them.   *)

Silent   == {"WaitTdlibParameters", "WaitEncryptionKey"}
Prompted == {"WaitPhoneNumber", "WaitCode", "WaitRegistration",
             "WaitPassword"}
AuthState == Silent \cup Prompted \cup
             {"WaitOtherDeviceConfirmation", "Ready", "LoggingOut",
              "Closing", "Closed"}

ASSUME PassesAssumption == Passes \subseteq AuthState

\* A request carries the id, and the state it answers when it is a login step;
\* a caller's is told from the others by who asks and for which time.
Function == Silent \cup Prompted \cup {"getOption", "getMe", "call", "close"}
Question == Callers \X (0 .. MaxCalls)
Request  == [id : Nat, fn : Function \ {"call"}]
            \cup [id : Nat, fn : {"call"}, of : Question]

\* The object in a response; request_id 0 marks an update.
Response == [id : Nat, type : {"ok", "error", "user"}]
            \cup [id : Nat, type : {"result"}, of : Question]
            \cup [id : {0}, type : {"auth"}, state : AuthState]

Handler == [id : Nat, kind : {"auth"}, gen : Nat]
           \cup [id : Nat, kind : {"getMe"}]
           \cup [id : Nat, kind : {"sync"}, caller : Callers]

-----------------------------------------------------------------------------
(* TDLib, external.  It answers every request once, in any order; a login  *)
(* step that answers the present state moves it on or is refused; one that *)
(* comes too late is an error.  It may ask again on its own (a code that   *)
(* expired, a login confirmed elsewhere) and log the account out.          *)

AfterAnswer ==
  [ WaitTdlibParameters |-> {"WaitEncryptionKey"},
    WaitEncryptionKey   |-> {"WaitPhoneNumber", "Ready"},
    WaitPhoneNumber     |-> {"WaitCode", "WaitOtherDeviceConfirmation"},
    WaitCode            |-> {"WaitRegistration", "WaitPassword", "Ready"},
    WaitRegistration    |-> {"Ready"},
    WaitPassword        |-> {"Ready"} ]

AskAgain ==
  [ WaitCode                    |-> {"WaitCode", "WaitPhoneNumber"},
    WaitPassword                |-> {"WaitPhoneNumber"},
    WaitRegistration            |-> {"WaitPhoneNumber"} ]

MoveOn ==
  [ WaitOtherDeviceConfirmation |-> {"WaitPassword", "Ready"},
    Ready                       |-> {"LoggingOut"},
    LoggingOut                  |-> {"Closing"},
    Closing                     |-> {"Closed"} ]

Update(s)    == [id |-> 0, type |-> "auth", state |-> s]
Answer(q, t) == [id |-> q.id, type |-> t]
Result(q)    == [id |-> q.id, type |-> "result", of |-> q.of]

TdAccept(q) ==
  /\ q.fn = tdState
  /\ q.fn \in DOMAIN AfterAnswer
  /\ \E s \in AfterAnswer[q.fn] \cap Passes :
       /\ tdState' = s
       /\ \/ inbox' = Append(Append(inbox, Update(s)), Answer(q, "ok"))
          \/ inbox' = Append(Append(inbox, Answer(q, "ok")), Update(s))
  /\ UNCHANGED <<rejects, moves>>

TdReject(q) ==
  /\ q.fn \in AuthState
  /\ IF q.fn = tdState THEN rejects < MaxRejects /\ rejects' = rejects + 1
                       ELSE UNCHANGED rejects
  /\ inbox' = Append(inbox, Answer(q, "error"))
  /\ UNCHANGED <<tdState, moves>>

TdReply(q) ==
  /\ \/ /\ q.fn \in {"getOption", "getMe", "call"}
        /\ inbox' = Append(inbox, Answer(q, "error"))
     \/ q.fn = "getOption" /\ inbox' = Append(inbox, Answer(q, "ok"))
     \/ q.fn = "getMe" /\ inbox' = Append(inbox, Answer(q, "user"))
     \/ q.fn = "call" /\ inbox' = Append(inbox, Result(q))
  /\ UNCHANGED tdVars

TdClose(q) ==
  /\ q.fn = "close"
  /\ IF tdState \in {"Closing", "Closed"}
       THEN /\ inbox' = Append(inbox, Answer(q, "ok"))
            /\ UNCHANGED tdState
       ELSE /\ inbox' = Append(Append(inbox, Answer(q, "ok")),
                               Update("Closing"))
            /\ tdState' = "Closing"
  /\ UNCHANGED <<rejects, moves>>

TdAnswer(q) ==
  /\ Len(inbox) < MaxInbox
  /\ requests' = requests \ {q}
  /\ TdAccept(q) \/ TdReject(q) \/ TdReply(q) \/ TdClose(q)
  /\ UNCHANGED <<loopVars, callerVars, manager, user_id, current_query_id,
                 handlers, race, crashed>>

TdMove ==
  /\ manager = "live"
  /\ Len(inbox) < MaxInbox
  /\ \/ /\ tdState \in DOMAIN MoveOn
        /\ tdState' \in MoveOn[tdState] \cap Passes
        /\ UNCHANGED moves
     \/ /\ tdState \in DOMAIN AskAgain
        /\ moves < MaxMoves /\ moves' = moves + 1
        /\ tdState' \in AskAgain[tdState] \cap Passes
  /\ inbox' = Append(inbox, Update(tdState'))
  /\ UNCHANGED <<loopVars, callerVars, sendVars, rejects, manager, user_id,
                 race, crashed>>

-----------------------------------------------------------------------------
(* handlers_.  std::unordered_map::emplace keeps an entry that is there.   *)
(* Once two threads were in the map at the same time nothing it does is    *)
(* certain: an insertion may be lost, a lookup may miss.  (The process may *)
(* also die at once; a behaviour of Spec may stop at any state anyway.)    *)

Emplacing == {c \in Callers : pc[c] = "emplace"}
Raced     == race \/ Emplacing # {}

Emplace(h) == IF \E e \in handlers : e.id = h.id
                THEN handlers
                ELSE handlers \cup {h}

\* Mutant: the id counts down.
M_LoopSendDown(f, h) ==
  /\ current_query_id' = current_query_id - 1
  /\ handlers' = Emplace(h)
  /\ requests' = requests \cup {[id |-> current_query_id, fn |-> f]}

(* send_query run by the event loop thread: nothing of the loop comes      *)
(* between its three steps.                                                *)
LoopSend(f, h) ==
  /\ current_query_id' = current_query_id + 1
  /\ \/ handlers' = Emplace(h)
     \/ Emplacing # {} /\ handlers' = handlers
  /\ requests' = requests \cup {[id |-> current_query_id, fn |-> f]}

\* close() and getOption pass no handler.
LoopSendPlain(f) ==
  /\ current_query_id' = current_query_id + 1
  /\ requests' = requests \cup {[id |-> current_query_id, fn |-> f]}
  /\ UNCHANGED handlers

GetMeHandler == [id |-> current_query_id, kind |-> "getMe"]
create_authentication_query_handler ==
  [id |-> current_query_id, kind |-> "auth", gen |-> authentication_query_id]

\* The states whose overload calls send_query at once.
Sending == Silent \cup {"Ready"}

\* A turn of the loop made by Td::close is the last one.
EndTurn == phase' = IF phase = "close" THEN "done" ELSE phase

-----------------------------------------------------------------------------
(* on_authorization_state_update: one disjunct per overload; s is the      *)
(* state that selects it.  on_auth_update_mutex is left out: only the      *)
(* event loop thread takes it, and never twice.                            *)

as_ready(s) ==
  /\ s = "Ready"
  /\ is_authorized' = TRUE
  /\ LoopSend("getMe", GetMeHandler)
  /\ EndTurn
  /\ UNCHANGED <<need_restart, loop>>

\* Mutants: is_authorized_ is not reset; the restart comes before the close.
M_as_logging_out_keep(s) ==
  /\ s = "LoggingOut"
  /\ EndTurn
  /\ UNCHANGED <<sendVars, need_restart, is_authorized, loop>>

M_as_logging_out_restart(s) ==
  /\ s = "LoggingOut"
  /\ is_authorized' = FALSE /\ need_restart' = TRUE
  /\ EndTurn
  /\ UNCHANGED <<sendVars, loop>>

as_logging_out(s) ==
  /\ s = "LoggingOut"
  /\ is_authorized' = FALSE
  /\ EndTurn
  /\ UNCHANGED <<sendVars, need_restart, loop>>

as_message_only(s) ==
  /\ s \in {"Closing", "WaitOtherDeviceConfirmation"}
  /\ EndTurn
  /\ UNCHANGED <<sendVars, need_restart, is_authorized, loop>>

as_closed(s) ==
  /\ s = "Closed"
  /\ need_restart' = TRUE
  /\ is_authorized' = FALSE
  /\ EndTurn
  /\ UNCHANGED <<sendVars, loop>>

\* Mutant: the query has no handler, so that its refusal is not seen.
M_as_wait_silent_plain(s) ==
  /\ s \in Silent
  /\ LoopSendPlain(s)
  /\ EndTurn
  /\ UNCHANGED <<need_restart, is_authorized, loop>>

as_wait_silent(s) ==
  /\ s \in Silent
  /\ LoopSend(s, create_authentication_query_handler)
  /\ EndTurn
  /\ UNCHANGED <<need_restart, is_authorized, loop>>

\* std::getline on std::cin: the loop is stuck until the user answers.
as_wait_prompt(s) ==
  /\ s \in Prompted
  /\ loop' = "prompt"
  /\ UNCHANGED <<sendVars, need_restart, is_authorized, phase>>

on_authorization_state_update(s) ==
  \/ as_ready(s)
  \/ as_logging_out(s)
  \/ as_message_only(s)
  \/ as_closed(s)
  \/ as_wait_silent(s)
  \/ as_wait_prompt(s)

\* The rest of as_wait_code, as_wait_regis, as_wait_pass and as_wait_pn.
UserInput ==
  /\ loop = "prompt"
  /\ loop' = "idle"
  /\ LoopSend(authorization_state, create_authentication_query_handler)
  /\ race' = Raced
  /\ EndTurn
  /\ UNCHANGED <<is_authorized, need_restart, authorization_state, callerVars,
                 authentication_query_id, tdVars, manager, user_id, inbox,
                 crashed>>

-----------------------------------------------------------------------------
(* process_response.                                                       *)

NoEffect == EndTurn /\ UNCHANGED <<is_authorized, need_restart, loop, sendVars>>

process_update(r) ==
  /\ \/ /\ r.type = "auth"
        /\ authorization_state' = r.state
        /\ on_authorization_state_update(r.state)
        /\ race' = IF r.state \in Sending THEN Raced ELSE race
     \/ /\ r.type # "auth"
        /\ NoEffect
        /\ UNCHANGED <<authorization_state, race>>
  /\ UNCHANGED <<callerVars, user_id>>

\* Mutants: the login is driven on by any answer; by none.
M_auth_handler_any(h, r) ==
  /\ h.kind = "auth"
  /\ on_authorization_state_update(authorization_state)
  /\ UNCHANGED <<callerVars, user_id>>

M_auth_handler_none(h, r) ==
  /\ h.kind = "auth" /\ NoEffect /\ UNCHANGED <<callerVars, user_id>>

\* The lambda of create_authentication_query_handler.
check_authentication_error(h, r) ==
  /\ h.kind = "auth"
  /\ IF h.gen = authentication_query_id /\ r.type = "error"
       THEN on_authorization_state_update(authorization_state)
       ELSE NoEffect
  /\ UNCHANGED <<callerVars, user_id>>

\* The lambda that as_ready passes with getMe.
got_me(h, r) ==
  /\ h.kind = "getMe"
  /\ user_id' = IF r.type = "user" THEN 1 ELSE user_id
  /\ NoEffect
  /\ UNCHANGED callerVars

\* Mutant: an error returns before finished is set.
M_got_answer_return(h, r) ==
  /\ h.kind = "sync"
  /\ IF r.type = "error" THEN UNCHANGED <<finished, retVal>>
     ELSE /\ finished' = [finished EXCEPT ![h.caller] = TRUE]
          /\ retVal' = [retVal EXCEPT ![h.caller] = r.of]
  /\ NoEffect
  /\ UNCHANGED <<pc, qid, calls, user_id>>

\* The lambda of send_query_sync writes through references into the frame of
\* its caller.  If that frame is gone the write is lost or, since the next
\* call lays its frame out at the same place, lands in the frame of that call.
got_answer(h, r) ==
  /\ h.kind = "sync"
  /\ LET c == h.caller IN
     \/ /\ pc[c] # "idle"
        /\ finished' = [finished EXCEPT ![c] = TRUE]
        /\ retVal' = IF r.type = "result" THEN [retVal EXCEPT ![c] = r.of]
                                          ELSE retVal
     \/ /\ pc[c] = "idle" \/ qid[c] # r.id
        /\ UNCHANGED <<finished, retVal>>
  /\ NoEffect
  /\ UNCHANGED <<pc, qid, calls, user_id>>

run_handler(r) ==
  /\ race' = Raced
  /\ \/ \E h \in handlers :
          /\ h.id = r.id
          /\ \/ check_authentication_error(h, r)
             \/ got_me(h, r)
             \/ got_answer(h, r)
     \/ /\ Raced \/ \A h \in handlers : h.id # r.id
        /\ NoEffect
        /\ UNCHANGED <<callerVars, user_id>>
  /\ UNCHANGED authorization_state

process_response(r) ==
  \/ r.id = 0 /\ process_update(r)
  \/ r.id # 0 /\ run_handler(r)

-----------------------------------------------------------------------------
(* Td::loop and Td::close.                                                 *)

\* restart destroys the ClientManager, with all it had queued, and makes no
\* new one.
restart ==
  /\ need_restart
  /\ manager' = "null"
  /\ need_restart' = FALSE
  /\ is_authorized' = FALSE
  /\ current_query_id' = 0
  /\ authentication_query_id' = 0
  /\ requests' = {} /\ inbox' = <<>>
  /\ EndTurn
  /\ UNCHANGED <<authorization_state, loop, callerVars, tdVars, handlers,
                 race, user_id, crashed>>

receive ==
  /\ ~need_restart
  /\ manager = "live"
  /\ inbox # <<>>
  /\ inbox' = Tail(inbox)
  /\ process_response(Head(inbox))
  /\ UNCHANGED <<authentication_query_id, tdVars, manager, crashed>>

\* Nothing came before the timeout: only the last turn makes a difference.
receive_timeout ==
  /\ ~need_restart
  /\ manager = "live"
  /\ inbox = <<>>
  /\ phase = "close"
  /\ phase' = "done"
  /\ UNCHANGED <<is_authorized, need_restart, authorization_state, loop,
                 authentication_query_id, callerVars, tdVars, sendVars,
                 manager, user_id, inbox, race, crashed>>

receive_null ==
  /\ ~need_restart
  /\ manager = "null"
  /\ crashed' = TRUE
  /\ UNCHANGED <<loopVars, callerVars, tdVars, sendVars, manager, user_id,
                 inbox, race>>

Loop ==
  /\ loop = "idle"
  /\ phase # "done"
  /\ restart \/ receive \/ receive_timeout \/ receive_null

close ==
  /\ loop = "idle" /\ phase = "run"
  /\ \/ /\ manager = "live"
        /\ LoopSendPlain("close")
        /\ phase' = "close"
        /\ UNCHANGED crashed
     \/ /\ manager = "null"
        /\ crashed' = TRUE
        /\ UNCHANGED <<sendVars, phase>>
  /\ UNCHANGED <<is_authorized, need_restart, authorization_state, loop,
                 authentication_query_id, callerVars, tdVars, manager,
                 user_id, inbox, race>>

-----------------------------------------------------------------------------
(* send_query_sync in a caller: next_query_id, emplace (which takes time), *)
(* send, then the wait.                                                    *)

\* Mutant: next_query_id reads and writes in two steps and loses an increment.
M_CallBegin_same_id(c) ==
  /\ pc[c] = "idle" /\ calls[c] < MaxCalls
  /\ calls' = [calls EXCEPT ![c] = @ + 1]
  /\ qid' = [qid EXCEPT ![c] = current_query_id]
  /\ finished' = [finished EXCEPT ![c] = FALSE]
  /\ retVal' = [retVal EXCEPT ![c] = NoAnswer]
  /\ pc' = [pc EXCEPT ![c] = "emplace"]
  /\ race' = Raced
  /\ UNCHANGED <<loopVars, tdVars, current_query_id, handlers, requests,
                 manager, user_id, inbox, crashed>>

CallBegin(c) ==
  /\ pc[c] = "idle"
  /\ calls[c] < MaxCalls
  /\ calls' = [calls EXCEPT ![c] = @ + 1]
  /\ qid' = [qid EXCEPT ![c] = current_query_id]
  /\ current_query_id' = current_query_id + 1
  /\ finished' = [finished EXCEPT ![c] = FALSE]
  /\ retVal' = [retVal EXCEPT ![c] = NoAnswer]
  /\ pc' = [pc EXCEPT ![c] = "emplace"]
  /\ race' = Raced
  /\ UNCHANGED <<loopVars, tdVars, handlers, requests, manager, user_id, inbox,
                 crashed>>

\* Mutant: the test of the handler is the wrong way round.
M_CallEmplace_skip(c) ==
  /\ pc[c] = "emplace"
  /\ pc' = [pc EXCEPT ![c] = "send"]
  /\ UNCHANGED <<loopVars, tdVars, qid, finished, retVal, calls, race, manager,
                 sendVars, user_id, inbox, crashed>>

CallEmplace(c) ==
  /\ pc[c] = "emplace"
  /\ pc' = [pc EXCEPT ![c] = "send"]
  /\ \/ handlers' = Emplace([id |-> qid[c], kind |-> "sync", caller |-> c])
     \/ race /\ UNCHANGED handlers
  /\ UNCHANGED <<loopVars, tdVars, qid, finished, retVal, calls, race, manager,
                 current_query_id, requests, user_id, inbox, crashed>>

CallSend(c) ==
  /\ pc[c] = "send"
  /\ \/ /\ manager = "live"
        /\ requests' = requests \cup
             {[id |-> qid[c], fn |-> "call", of |-> <<c, calls[c]>>]}
        /\ pc' = [pc EXCEPT ![c] = "wait"]
        /\ UNCHANGED crashed
     \/ /\ manager = "null"
        /\ crashed' = TRUE
        /\ UNCHANGED <<requests, pc>>
  /\ UNCHANGED <<loopVars, tdVars, qid, finished, retVal, calls, race, manager,
                 current_query_id, handlers, user_id, inbox>>

\* Mutant: one wait_for without the loop around it.
M_CallReturn_early(c) ==
  /\ pc[c] = "wait"
  /\ pc' = [pc EXCEPT ![c] = "idle"]
  /\ UNCHANGED <<loopVars, tdVars, sendVars, qid, finished, retVal, calls,
                 manager, user_id, inbox, race, crashed>>

\* wait_for polls finished every second; a timeout counts those seconds.
CallReturn(c) ==
  /\ pc[c] = "wait"
  /\ finished[c] \/ c \in TimedCallers
  /\ pc' = [pc EXCEPT ![c] = "idle"]
  /\ UNCHANGED <<loopVars, tdVars, sendVars, qid, finished, retVal, calls,
                 manager, user_id, inbox, race, crashed>>

CallStep(c) == CallBegin(c) \/ CallEmplace(c) \/ CallSend(c) \/ CallReturn(c)

-----------------------------------------------------------------------------

Init ==
  /\ manager = "live"
  /\ need_restart = FALSE
  /\ is_authorized = FALSE
  /\ user_id = 0
  /\ current_query_id = 1       \* the constructor asked getOption with id 0
  /\ authentication_query_id = 0
  /\ authorization_state = "WaitTdlibParameters"
  /\ handlers = {}
  /\ loop = "idle"
  /\ phase = "run"
  /\ pc = [c \in Callers |-> "idle"]
  /\ qid = [c \in Callers |-> 0]
  /\ finished = [c \in Callers |-> FALSE]
  /\ retVal = [c \in Callers |-> NoAnswer]
  /\ calls = [c \in Callers |-> 0]
  /\ tdState = "WaitTdlibParameters"
  /\ requests = {[id |-> 0, fn |-> "getOption"]}
  /\ inbox = <<Update("WaitTdlibParameters")>>
  /\ rejects = 0
  /\ moves = 0
  /\ race = FALSE
  /\ crashed = FALSE

Next ==
  /\ ~crashed
  /\ \/ Loop
     \/ UserInput
     \/ close
     \/ \E c \in Callers : CallStep(c)
     \/ \E q \in requests : TdAnswer(q)
     \/ TdMove

Spec == Init /\ [][Next]_vars

(* Main::run calls loop again and again, the operating system runs every   *)
(* caller and TDLib answers what it was asked.  Nobody is obliged to       *)
(* close, to log out or to confirm a login, nor the user to answer a       *)
(* prompt: getline waits as long as it takes.                              *)
FairSpec ==
  /\ Spec
  /\ WF_vars(~crashed /\ Loop)
  /\ WF_vars(~crashed /\ \E q \in requests : TdAnswer(q))
  /\ \A c \in Callers :
       WF_vars(~crashed /\ (CallEmplace(c) \/ CallSend(c) \/ CallReturn(c)))

-----------------------------------------------------------------------------
(* Properties.                                                             *)

\* Every variable keeps to the values the C++ object can hold.
TypeOK ==
  /\ manager \in {"live", "null"}
  /\ need_restart \in BOOLEAN
  /\ is_authorized \in BOOLEAN
  /\ user_id \in {0, 1}
  /\ current_query_id \in Nat
  /\ authentication_query_id \in Nat
  /\ authorization_state \in AuthState
  /\ handlers \subseteq Handler
  /\ loop \in {"idle", "prompt"}
  /\ phase \in {"run", "close", "done"}
  /\ pc \in [Callers -> {"idle", "emplace", "send", "wait"}]
  /\ qid \in [Callers -> Nat]
  /\ finished \in [Callers -> BOOLEAN]
  /\ retVal \in [Callers -> Question \cup {NoAnswer}]
  /\ calls \in [Callers -> 0 .. MaxCalls]
  /\ tdState \in AuthState
  /\ requests \subseteq Request
  /\ inbox \in Seq(Response)
  /\ rejects \in 0 .. MaxRejects
  /\ moves \in 0 .. MaxMoves
  /\ race \in BOOLEAN
  /\ crashed \in BOOLEAN

HasId(s, id) == \E i \in 1 .. Len(s) : s[i].id = id

\* A call that waits (Td.hpp:145) can still be answered: its handler is in
\* handlers_ under its id, and TDLib has the question or the loop the answer.
\* A handler registered after the send, or a reused id, would lose the answer
\* and leave the caller in its loop for ever.
NoLostCall ==
  \A c \in Callers :
    pc[c] = "wait" /\ ~finished[c] /\ manager = "live" /\ ~race
      => /\ \E h \in handlers :
              h.id = qid[c] /\ h.kind = "sync" /\ h.caller = c
         /\ qid[c] # 0
         /\ \/ \E q \in requests : q.id = qid[c] /\ q.fn = "call"
            \/ HasId(inbox, qid[c])

\* What send_query_sync hands to a caller that never times out is the answer
\* to its own question, whatever the others ask at the same time, whatever a
\* race does to handlers_ and whatever restart does to the ids.
OwnAnswer ==
  \A c \in Callers \ TimedCallers :
    retVal[c] # NoAnswer => retVal[c] = <<c, calls[c]>>

\* loop chooses its timeout by is_authorized_: it is the last word of the
\* account's state, set by as_ready and kept until a logout or a restart.
AuthorizedView ==
  /\ is_authorized => authorization_state \in {"Ready", "Closing"}
  /\ authorization_state = "Ready" => is_authorized

\* restart leaves client_manager_ empty for ever; the loop, close and the
\* callers dereference it unchecked.  That is reached in one way only: TDLib
\* has said authorizationStateClosed.
CrashOnlyAfterClosed ==
  crashed \/ manager = "null" => authorization_state = "Closed"

\* A response that makes the login go on, when it is handled with handlers H.
LoginResponse(r, H) ==
  \/ r.type = "auth" /\ r.state \in Silent \cup Prompted
  \/ r.type = "error" /\ \E h \in H : h.id = r.id /\ h.kind = "auth"

\* Login steps under way: requests, states not yet acted upon, refusals not
\* yet handled, and the prompt.
LoginSteps ==
  Cardinality({q \in requests : q.fn \in AuthState})
  + Cardinality({i \in 1 .. Len(inbox) : LoginResponse(inbox[i], handlers)})
  + (IF loop = "prompt" THEN 1 ELSE 0)

\* An error answers a login query by asking once more for the present state,
\* also when the query was an old one (authentication_query_id_ never moves).
\* Such answers must not multiply: there is one step under way for the login
\* and one for each time TDLib asked again by itself.
LoginNotMultiplied == LoginSteps <= 1 + moves

\* The states in which TDLib waits for a step of the login.
Waiting == Silent \cup Prompted

\* While TDLib waits for a step of the login, that step is under way: the user
\* is asked for it, TDLib has it, or the client has yet to read that TDLib wants
\* it or has refused it.  No refusal and no late answer may leave the login
\* with nothing that would drive it on, unless two threads were in handlers_
\* at once.
LoginUnderWay ==
  manager = "live" /\ ~race /\ tdState \in Waiting =>
    \/ loop = "prompt"
    \/ \E q \in requests : q.fn \in AuthState
    \/ \E i \in 1 .. Len(inbox) : LoginResponse(inbox[i], handlers)

\* A call without a timeout ends by the response to its own query, a refusal
\* included: never by a late answer to a call that has returned, whose handler
\* is still in handlers_ and writes into the same stack frame.
EndsByOwnResponse ==
  [][\A c \in Callers \ TimedCallers :
       ~finished[c] /\ finished'[c]
         => pc[c] = "wait" /\ inbox # <<>> /\ Head(inbox).id = qid[c]]_vars

Future(c) == INSTANCE QueryFuture WITH
  Asker   <- c,
  Patient <- c \notin TimedCallers,
  asked   <- calls[c],
  status  <- IF pc[c] = "idle" THEN "idle"
             ELSE IF finished[c] THEN "answered" ELSE "asked",
  result  <- retVal[c]

\* To a caller without a timeout send_query_sync is a question that gets one
\* answer, its own or an error: the promise of QueryFuture, which SyncQuery keeps
\* at the grain of single statements.  (It is \A c : Future(c)!Spec with the
\* quantifier inside the box.)
CallsAreFutures ==
  /\ \A c \in Callers \ TimedCallers : Future(c)!Init
  /\ [][\A c \in Callers \ TimedCallers :
          Future(c)!Next \/ UNCHANGED Future(c)!futureVars]_vars

\* The user never answers the prompt at which the event loop waits in getline.
Unanswered == [](loop = "prompt")

\* send_query_sync returns, unless handlers_ was raced upon, TDLib is gone or
\* the event loop has made its last turn or waits at a prompt for ever: its
\* callers depend on that loop.
CallReturns ==
  \A c \in Callers :
    pc[c] = "emplace" ~> \/ pc[c] = "idle"
                         \/ race \/ manager = "null" \/ crashed
                         \/ phase = "done"
                         \/ Unanswered

\* The login dialogue does not get stuck on a refused step: it ends with
\* as_ready, where another device has to confirm, or at one prompt that the
\* user leaves unanswered.  Nothing else can stop it there.
LoginSettles ==
  <>(\/ is_authorized
     \/ authorization_state = "WaitOtherDeviceConfirmation"
     \/ race \/ crashed \/ phase = "done"
     \/ Unanswered)

=============================================================================
